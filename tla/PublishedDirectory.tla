-------------------------- MODULE PublishedDirectory --------------------------
(***************************************************************************)
(* A directory whose files are written one after the other and described   *)
(* at the end by a manifest of their hashes, by writers that may crash or  *)
(* be run again, and read by processes that trust what the manifest says.  *)
(*                                                                         *)
(*   artifact   train() / CustomSentimentAdapter                           *)
(*   snapshot   prepare() in scripts/ / HuggingFaceSentimentAdapter        *)
(*                                                                         *)
(* A hash is the content it was taken of: a value of Content, or "partial".*)
(***************************************************************************)
EXTENDS Integers, Sequences

CONSTANTS Writers, Readers,
          Kinds,    \* of directory
          Files,    \* of each kind, the files in the order they are written
          Content   \* of each kind, what each writer writes

NamesOf(k)     == {Files[k][i] : i \in DOMAIN Files[k]}
WorkOf(k, w)   == [f \in NamesOf(k) |-> Content[k][w]]

\* train() makes the directory; prepare() takes one that exists, and the hub's
\* download moves each file there when it is complete.
ExclusiveKind(k) == k = "artifact"

ASSUME FilesAssumption ==
  \A k \in Kinds :
    /\ Files[k] \in Seq(NamesOf(k)) /\ Files[k] # << >>
    /\ \A i, j \in DOMAIN Files[k] : Files[k][i] = Files[k][j] => i = j
ASSUME ContentAssumption ==
  \A k \in Kinds, w \in Writers : Content[k][w] \notin {"absent", "partial", "damaged"}
\* Writers that share a directory write the same pinned content.
ASSUME SharingAssumption ==
  \A k \in Kinds, v, w \in Writers : ExclusiveKind(k) \/ Content[k][v] = Content[k][w]

VARIABLES
  kind,
  made,      \* the directory exists
  file,      \* absent, partial, damaged, or what a writer wrote
  manifest,  \* absent, partial or whole
  digests,   \* the hashes it holds
  writer,    \* idle, working (before mkdir), writing
  written,   \* how many files it has written
  open,      \* it has opened a file and not written it yet
  reader,    \* idle, checking the hashes, loading the files, loaded
  known,     \* the hashes it has read
  seen,      \* how many files it has checked, or loaded
  got        \* what it has read of the files

disk    == <<kind, made, file, manifest, digests>>
writing == <<writer, written, open>>
reading == <<reader, known, seen, got>>
vars    == <<disk, writing, reading>>

Names     == NamesOf(kind)
Exclusive == ExclusiveKind(kind)
Last      == Len(Files[kind])
Empty     == [f \in Names |-> "absent"]

Init ==
  /\ kind \in Kinds
  /\ made = FALSE /\ file = Empty /\ manifest = "absent" /\ digests = Empty
  /\ writer = [w \in Writers |-> "idle"]
  /\ written = [w \in Writers |-> 0] /\ open = [w \in Writers |-> FALSE]
  /\ reader = [r \in Readers |-> "idle"]
  /\ known = [r \in Readers |-> Empty] /\ got = [r \in Readers |-> Empty]
  /\ seen = [r \in Readers |-> 0]

-----------------------------------------------------------------------------
(* Writers                                                                 *)

\* Fault: mkdir(exist_ok=True).
MayAlwaysMake == TRUE

MayMake == Exclusive => ~made

Begin(w) ==
  /\ writer[w] = "idle" /\ MayMake
  /\ writer' = [writer EXCEPT ![w] = "working"]
  /\ UNCHANGED <<disk, written, open, reading>>

\* A crash, a failed check, or mkdir()'s FileExistsError: all of the disk stays.
Abort(w) ==
  /\ writer[w] # "idle"
  /\ writer' = [writer EXCEPT ![w] = "idle"]
  /\ UNCHANGED <<disk, written, open, reading>>

MakeDirectory(w) ==
  /\ writer[w] = "working" /\ MayMake
  /\ made' = TRUE
  /\ writer' = [writer EXCEPT ![w] = "writing"]
  /\ written' = [written EXCEPT ![w] = 0] /\ open' = [open EXCEPT ![w] = FALSE]
  /\ UNCHANGED <<kind, file, manifest, digests, reading>>

\* The file a writer is at.
Unfinished(w) == writer[w] = "writing" /\ written[w] < Last
Current(w)    == Files[kind][written[w] + 1]

OpenFile(w) ==
  /\ Unfinished(w) /\ ~open[w] /\ Exclusive
  /\ file' = [file EXCEPT ![Current(w)] = "partial"]
  /\ open' = [open EXCEPT ![w] = TRUE]
  /\ UNCHANGED <<kind, made, manifest, digests, writer, written, reading>>

WriteFile(w) ==
  /\ Unfinished(w) /\ (Exclusive => open[w])
  /\ file' = [file EXCEPT ![Current(w)] = Content[kind][w]]
  /\ written' = [written EXCEPT ![w] = @ + 1] /\ open' = [open EXCEPT ![w] = FALSE]
  /\ UNCHANGED <<kind, made, manifest, digests, writer, reading>>

AllWritten(w) == written[w] = Last

Hashes == file

\* The hashes are taken, and then the manifest is opened and written.
OpenManifest(w) ==
  /\ writer[w] = "writing" /\ AllWritten(w) /\ ~open[w]
  /\ manifest' = "partial" /\ digests' = Hashes
  /\ open' = [open EXCEPT ![w] = TRUE]
  /\ UNCHANGED <<kind, made, file, writer, written, reading>>

WriteManifest(w) ==
  /\ writer[w] = "writing" /\ AllWritten(w) /\ open[w]
  /\ manifest' = "whole"
  /\ writer' = [writer EXCEPT ![w] = "idle"]
  /\ UNCHANGED <<kind, made, file, digests, written, open, reading>>

\* A reader has checked a file and not read it yet.
Trusts(r, f) ==
  \E i \in 1..Last :
    /\ Files[kind][i] = f
    /\ \/ reader[r] = "checking" /\ i <= seen[r]
       \/ reader[r] = "loading" /\ i > seen[r]

\* Someone else writes into the directory. Nothing in the code guards the time
\* between a writer's file and its hash, nor between a reader's check of a file
\* and its reading, so these are left out.
DamageFile(f) ==
  /\ manifest = "whole"
  /\ \A w \in Writers : writer[w] # "writing"
  /\ \A r \in Readers : ~Trusts(r, f)
  /\ file' = [file EXCEPT ![f] = "damaged"]
  /\ UNCHANGED <<kind, made, manifest, digests, writing, reading>>

-----------------------------------------------------------------------------
(* Readers: an adapter from its constructor to the end of load(). A check    *)
(* that fails ends the reader.                                              *)

ReadManifest(r) ==
  /\ reader[r] = "idle" /\ manifest = "whole"
  /\ reader' = [reader EXCEPT ![r] = "checking"]
  /\ known' = [known EXCEPT ![r] = digests]
  /\ seen' = [seen EXCEPT ![r] = 0]
  /\ UNCHANGED <<disk, writing, got>>

\* The file a reader is at.
AtFile(r) == Files[kind][seen[r] + 1]

\* Fault: the files are not compared with the manifest.
Unchecked(r) == TRUE

Matches(r) == file[AtFile(r)] = known[r][AtFile(r)]

Verify(r) ==
  /\ reader[r] = "checking" /\ seen[r] < Last /\ Matches(r)
  /\ seen' = [seen EXCEPT ![r] = @ + 1]
  /\ UNCHANGED <<disk, writing, reader, known, got>>

Verified(r) ==
  /\ reader[r] = "checking" /\ seen[r] = Last
  /\ reader' = [reader EXCEPT ![r] = "loading"]
  /\ seen' = [seen EXCEPT ![r] = 0]
  /\ UNCHANGED <<disk, writing, known, got>>

\* The files are opened again, after their hashes were checked.
ReadFile(r) ==
  /\ reader[r] = "loading" /\ seen[r] < Last
  /\ got' = [got EXCEPT ![r][AtFile(r)] = file[AtFile(r)]]
  /\ seen' = [seen EXCEPT ![r] = @ + 1]
  /\ UNCHANGED <<disk, writing, reader, known>>

Loaded(r) ==
  /\ reader[r] = "loading" /\ seen[r] = Last
  /\ reader' = [reader EXCEPT ![r] = "loaded"]
  /\ UNCHANGED <<disk, writing, known, seen, got>>

\* A failed check, an invalid file, a crash, or the end of a reader that loaded.
EndReader(r) ==
  /\ reader[r] # "idle"
  /\ reader' = [reader EXCEPT ![r] = "idle"] /\ seen' = [seen EXCEPT ![r] = 0]
  /\ known' = [known EXCEPT ![r] = Empty] /\ got' = [got EXCEPT ![r] = Empty]
  /\ UNCHANGED <<disk, writing>>

WriterStep(w) ==
  \/ Begin(w) \/ Abort(w) \/ MakeDirectory(w) \/ OpenFile(w) \/ WriteFile(w)
  \/ OpenManifest(w) \/ WriteManifest(w)

ReaderStep(r) ==
  ReadManifest(r) \/ Verify(r) \/ Verified(r) \/ ReadFile(r) \/ Loaded(r) \/ EndReader(r)

Next ==
  \/ \E w \in Writers : WriterStep(w)
  \/ \E f \in Names : DamageFile(f)
  \/ \E r \in Readers : ReaderStep(r)

Spec == Init /\ [][Next]_vars

-----------------------------------------------------------------------------
(* Properties                                                              *)

Work(w) == WorkOf(kind, w)

States(k) == [NamesOf(k) -> {Content[k][w] : w \in Writers} \cup {"absent", "partial", "damaged"}]

\* Type correctness of the disk, the writers and the readers: every hash table and
\* everything read covers the whole file set.
TypeOK ==
  /\ kind \in Kinds /\ made \in BOOLEAN
  /\ file \in States(kind) /\ digests \in States(kind)
  /\ manifest \in {"absent", "partial", "whole"}
  /\ writer \in [Writers -> {"idle", "working", "writing"}]
  /\ written \in [Writers -> 0..Last] /\ open \in [Writers -> BOOLEAN]
  /\ reader \in [Readers -> {"idle", "checking", "loading", "loaded"}]
  /\ seen \in [Readers -> 0..Last]
  /\ known \in [Readers -> States(kind)] /\ got \in [Readers -> States(kind)]

\* Whatever crashed, was run again, ran at the same time or was damaged: a reader
\* that ends its load has every file, complete, and all of one writer.
ReadersGetWholeWork ==
  \A r \in Readers : reader[r] = "loaded" => \E w \in Writers : got[r] = Work(w)

\* A manifest, even one that is being written, describes the whole work of one
\* writer, and no writer changes a file under a reader that has read it.
ManifestDescribesFiles ==
  manifest # "absent" =>
    /\ \E w \in Writers : digests = Work(w)
    /\ \A f \in Names : file[f] \in {digests[f], "damaged"}

Published == IF manifest # "absent" THEN digests ELSE << >>
Taken     == [r \in Readers |-> IF reader[r] = "loaded" THEN got[r] ELSE << >>]

Publication == INSTANCE AtomicPublication
  WITH Contents <- {WorkOf(k, w) : k \in Kinds, w \in Writers}, Nothing <- << >>,
       published <- Published, taken <- Taken

\* The steps of a writer amount to publication in one step, and for good.
ImplementsAtomicPublication == Publication!Spec
=============================================================================
