-------------------------- MODULE EvaluationProofs --------------------------
(***************************************************************************)
(* The directory, for any number of writers, readers and files: what a     *)
(* manifest describes is the whole work of one writer, no writer changes   *)
(* it any more, and publication is one step. Then its evaluators, which    *)
(* are readers like others and may overlap: whatever they write as the     *)
(* record or as a report was measured on the rows of the training and with *)
(* the weights that are named, and only an overlap replaces a record.      *)
(***************************************************************************)
EXTENDS Evaluation, FiniteSetTheorems, TLAPS

-----------------------------------------------------------------------------
(* The published directory                                                 *)

\* A writer that writes has the directory. What it has written is there. In a directory
\* it may not share it is alone, and has nothing more to write once there is a manifest.
WriterSound(w) ==
  writer[w] = "writing" =>
    /\ made
    /\ \A i \in 1..written[w] : file[Files[kind][i]] = Content[kind][w]
    /\ AllWritten(w) /\ open[w] => manifest # "absent"
    /\ Exclusive => /\ manifest # "absent" => AllWritten(w) /\ open[w] /\ manifest = "partial"
                    /\ \A v \in Writers : writer[v] = "writing" => v = w

\* In a directory that is shared a file is there, as everyone writes it, or is not, or
\* somebody else has written it.
SharedSound ==
  ~Exclusive =>
    \A f \in Names, w \in Writers : file[f] \in {"absent", "damaged", Content[kind][w]}

\* A reader knows the manifest. What it has checked and not read yet is as described, and
\* so is what it has.
ReaderSound(r) ==
  /\ reader[r] # "idle" => manifest # "absent" /\ known[r] = digests
  /\ reader[r] = "checking" =>
       \A i \in 1..seen[r] : file[Files[kind][i]] = digests[Files[kind][i]]
  /\ reader[r] = "loading" =>
       /\ \A i \in (seen[r] + 1)..Last : file[Files[kind][i]] = digests[Files[kind][i]]
       /\ \A i \in 1..seen[r] : got[r][Files[kind][i]] = digests[Files[kind][i]]
  /\ reader[r] = "loaded" => got[r] = digests

DirectoryInv ==
  /\ TypeOK /\ ManifestDescribesFiles /\ (manifest # "absent" => made)
  /\ SharedSound
  /\ \A w \in Writers : WriterSound(w)
  /\ \A r \in Readers : ReaderSound(r)

\* The order of the files is without repetition, and every file has its place.
LEMMA Order ==
  ASSUME NEW k \in Kinds
  PROVE  /\ Files[k] \in Seq(NamesOf(k)) /\ Len(Files[k]) \in Nat /\ Len(Files[k]) > 0
         /\ \A i \in 1..Len(Files[k]) : Files[k][i] \in NamesOf(k)
         /\ \A f \in NamesOf(k) : \E i \in 1..Len(Files[k]) : Files[k][i] = f
         /\ \A i, j \in 1..Len(Files[k]) : Files[k][i] = Files[k][j] => i = j
<1>1. /\ Files[k] \in Seq(NamesOf(k)) /\ Files[k] # << >>
      /\ \A i, j \in DOMAIN Files[k] : Files[k][i] = Files[k][j] => i = j
  BY FilesAssumption
<1>2. DOMAIN Files[k] = 1..Len(Files[k]) /\ Len(Files[k]) \in Nat /\ Len(Files[k]) > 0
  BY <1>1
<1>3. /\ \A i \in 1..Len(Files[k]) : Files[k][i] \in NamesOf(k)
      /\ \A f \in NamesOf(k) : \E i \in 1..Len(Files[k]) : Files[k][i] = f
  BY <1>2 DEF NamesOf
<1> QED BY <1>1, <1>2, <1>3

\* The work of a writer covers the files, with something that is none of the marks.
LEMMA WorkIsContent ==
  ASSUME TypeOK, NEW w \in Writers
  PROVE  /\ Work(w) = [f \in Names |-> Content[kind][w]]
         /\ Content[kind][w] \notin {"absent", "partial", "damaged"}
         /\ Work(w) \in States(kind)
         /\ ~Exclusive => \A v \in Writers : Content[kind][v] = Content[kind][w]
<1>1. kind \in Kinds
  BY DEF TypeOK
<1> QED BY <1>1, ContentAssumption, SharingAssumption DEF Work, WorkOf, Names, States, Exclusive

-----------------------------------------------------------------------------
\* Init establishes the invariant.
LEMMA DirectoryInit == Init => DirectoryInv
<1> SUFFICES ASSUME Init PROVE DirectoryInv
  OBVIOUS
<1>1. kind \in Kinds /\ Last \in Nat
  BY Order DEF Init, Last
<1>2. Empty \in States(kind)
  BY DEF Empty, States, Names
<1>3. TypeOK
  <2>1. /\ kind \in Kinds /\ made \in BOOLEAN /\ file \in States(kind) /\ digests \in States(kind)
        /\ manifest \in {"absent", "partial", "whole"}
    BY <1>1, <1>2 DEF Init
  <2>2. /\ writer \in [Writers -> {"idle", "working", "writing"}]
        /\ written \in [Writers -> 0..Last] /\ open \in [Writers -> BOOLEAN]
    BY <1>1 DEF Init
  <2>3. /\ reader \in [Readers -> {"idle", "checking", "loading", "loaded"}]
        /\ seen \in [Readers -> 0..Last]
    BY <1>1 DEF Init
  <2>4. known \in [Readers -> States(kind)] /\ got \in [Readers -> States(kind)]
    BY <1>2 DEF Init
  <2> QED BY <2>1, <2>2, <2>3, <2>4 DEF TypeOK
<1>4. ManifestDescribesFiles /\ SharedSound
  BY DEF Init, ManifestDescribesFiles, SharedSound, Empty
<1> QED BY <1>3, <1>4 DEF Init, DirectoryInv, WriterSound, ReaderSound

-----------------------------------------------------------------------------
\* The types.
LEMMA WriterTypes ==
  ASSUME TypeOK, NEW w \in Writers, WriterStep(w)
  PROVE  TypeOK'
<1>1. kind \in Kinds /\ Last \in Nat
  BY Order DEF TypeOK, Last
<1>2. kind' = kind /\ reading' = reading
  BY DEF WriterStep, Begin, Abort, MakeDirectory, OpenFile, WriteFile, OpenManifest,
         WriteManifest, disk
<1>3. /\ reader' \in [Readers -> {"idle", "checking", "loading", "loaded"}]
      /\ seen' \in [Readers -> 0..Last']
      /\ known' \in [Readers -> States(kind')] /\ got' \in [Readers -> States(kind')]
  BY <1>2 DEF TypeOK, reading, Last
<1>4. /\ made' \in BOOLEAN /\ manifest' \in {"absent", "partial", "whole"}
  BY DEF TypeOK, WriterStep, Begin, Abort, MakeDirectory, OpenFile, WriteFile, OpenManifest,
         WriteManifest, disk
<1>5. writer' \in [Writers -> {"idle", "working", "writing"}]
  BY DEF TypeOK, WriterStep, Begin, Abort, MakeDirectory, OpenFile, WriteFile, OpenManifest,
         WriteManifest
<1>6. open' \in [Writers -> BOOLEAN]
  BY DEF TypeOK, WriterStep, Begin, Abort, MakeDirectory, OpenFile, WriteFile, OpenManifest,
         WriteManifest
<1>7. written' \in [Writers -> 0..Last']
  <2>1. written \in [Writers -> 0..Last] /\ Last' = Last
    BY <1>2 DEF TypeOK, Last
  <2>2. CASE WriteFile(w)
    BY <1>1, <2>1, <2>2 DEF WriteFile, Unfinished
  <2>3. CASE MakeDirectory(w)
    BY <1>1, <2>1, <2>3 DEF MakeDirectory
  <2>4. CASE UNCHANGED written
    BY <2>1, <2>4
  <2> QED BY <2>2, <2>3, <2>4
          DEF WriterStep, Begin, Abort, OpenFile, OpenManifest, WriteManifest
<1>8. file' \in States(kind') /\ digests' \in States(kind')
  <2>1. file \in States(kind) /\ digests \in States(kind)
    BY DEF TypeOK
  <2>2. CASE OpenFile(w)
    BY <1>2, <2>1, <2>2 DEF OpenFile, States
  <2>3. CASE WriteFile(w)
    BY <1>2, <2>1, <2>3 DEF WriteFile, States
  <2>4. CASE OpenManifest(w)
    BY <1>2, <2>1, <2>4 DEF OpenManifest, Hashes
  <2>5. CASE UNCHANGED <<file, digests>>
    BY <1>2, <2>1, <2>5
  <2> QED BY <2>2, <2>3, <2>4, <2>5
          DEF WriterStep, Begin, Abort, MakeDirectory, WriteManifest, disk
<1> QED BY <1>1, <1>2, <1>3, <1>4, <1>5, <1>6, <1>7, <1>8 DEF TypeOK

\* The steps of a reader keep the types.
LEMMA ReaderTypes ==
  ASSUME TypeOK, NEW r \in Readers, ReaderStep(r)
  PROVE  TypeOK'
<1>1. kind \in Kinds /\ Last \in Nat /\ \A i \in 1..Last : Files[kind][i] \in Names
  BY Order DEF TypeOK, Last, Names
<1>2. UNCHANGED <<disk, writing>> /\ Last' = Last
  BY DEF ReaderStep, ReadManifest, Verify, Verified, ReadFile, Loaded, EndReader, disk, Last
<1>3. /\ reader \in [Readers -> {"idle", "checking", "loading", "loaded"}]
      /\ seen \in [Readers -> 0..Last]
      /\ known \in [Readers -> States(kind)] /\ got \in [Readers -> States(kind)]
      /\ digests \in States(kind) /\ file \in States(kind)
  BY DEF TypeOK
<1>4. Empty \in States(kind)
  BY DEF Empty, States, Names
<1>5. reader' \in [Readers -> {"idle", "checking", "loading", "loaded"}]
  BY <1>3 DEF ReaderStep, ReadManifest, Verify, Verified, ReadFile, Loaded, EndReader
<1>6. seen' \in [Readers -> 0..Last]
  BY <1>1, <1>3 DEF ReaderStep, ReadManifest, Verify, Verified, ReadFile, Loaded, EndReader
<1>7. known' \in [Readers -> States(kind)]
  BY <1>3, <1>4 DEF ReaderStep, ReadManifest, Verify, Verified, ReadFile, Loaded, EndReader
<1>8. got' \in [Readers -> States(kind)]
  <2>1. CASE ReadFile(r)
    <3>1. AtFile(r) \in Names
      BY <1>1, <1>3, <2>1 DEF ReadFile, AtFile
    <3>2. [got[r] EXCEPT ![AtFile(r)] = file[AtFile(r)]] \in States(kind)
      BY <1>3, <3>1 DEF States, Names
    <3> QED BY <1>3, <2>1, <3>2 DEF ReadFile
  <2>2. CASE EndReader(r)
    BY <1>3, <1>4, <2>2 DEF EndReader
  <2>3. CASE UNCHANGED got
    BY <1>3, <2>3
  <2> QED BY <2>1, <2>2, <2>3 DEF ReaderStep, ReadManifest, Verify, Verified, Loaded
<1> QED BY <1>2, <1>3, <1>5, <1>6, <1>7, <1>8 DEF TypeOK, disk, writing

-----------------------------------------------------------------------------
\* What a writer that has written everything takes the hashes of is its whole work.
LEMMA HashesAreWork ==
  ASSUME DirectoryInv, NEW w \in Writers, OpenManifest(w)
  PROVE  file = Work(w)
<1>1. WriterSound(w) /\ TypeOK
  BY DEF DirectoryInv
<1>2. kind \in Kinds /\ written[w] = Len(Files[kind])
  BY <1>1 DEF OpenManifest, AllWritten, Last, TypeOK
<1>3. \A i \in 1..Len(Files[kind]) : file[Files[kind][i]] = Content[kind][w]
  BY <1>1, <1>2 DEF WriterSound, OpenManifest
<1>4. \A f \in Names : file[f] = Content[kind][w]
  BY <1>2, <1>3, Order DEF Names
<1>5. file = [f \in Names |-> file[f]]
  BY <1>1 DEF TypeOK, States, Names
<1> QED BY <1>1, <1>4, <1>5, WorkIsContent

\* Where there is a manifest, whether whole or not, no writer changes what it describes:
\* all a writer may do is to put back what is described.
LEMMA PublishedForGood ==
  ASSUME DirectoryInv, NEW w \in Writers, WriterStep(w), manifest # "absent"
  PROVE  /\ manifest' # "absent" /\ digests' = digests
         /\ \A f \in Names : file'[f] = file[f] \/ file'[f] = digests[f]
<1>1. WriterSound(w) /\ TypeOK /\ ManifestDescribesFiles
  BY DEF DirectoryInv
<1>2. ~OpenFile(w)
  BY <1>1 DEF OpenFile, Unfinished, WriterSound, AllWritten, TypeOK
<1>3. ~Exclusive => digests = Work(w)
  <2>1. PICK v \in Writers : digests = Work(v)
    BY <1>1 DEF ManifestDescribesFiles
  <2> QED BY <1>1, <2>1, WorkIsContent
<1>4. CASE WriteFile(w)
  <2>1. ~Exclusive
    BY <1>1, <1>4 DEF WriteFile, Unfinished, WriterSound, AllWritten, TypeOK
  <2>2. \A f \in Names : digests[f] = Content[kind][w]
    BY <1>1, <1>3, <2>1, WorkIsContent
  <2>3. \A f \in Names : file'[f] = file[f] \/ file'[f] = Content[kind][w]
    BY <1>1, <1>4 DEF WriteFile, TypeOK, States, Names
  <2> QED BY <1>4, <2>2, <2>3 DEF WriteFile
<1>5. CASE OpenManifest(w)
  <2>1. ~Exclusive
    BY <1>1, <1>5 DEF OpenManifest, WriterSound
  <2>2. file = digests
    BY <1>3, <1>5, <2>1, HashesAreWork
  <2> QED BY <1>5, <2>2 DEF OpenManifest, Hashes
<1> QED BY <1>2, <1>4, <1>5 DEF WriterStep, Begin, Abort, MakeDirectory, WriteManifest, disk

\* Writers keep what is said of the disk,
LEMMA WriterKeepsDisk ==
  ASSUME DirectoryInv, NEW w \in Writers, WriterStep(w)
  PROVE  ManifestDescribesFiles' /\ (manifest' # "absent" => made') /\ SharedSound'
<1>1. /\ TypeOK /\ SharedSound /\ ManifestDescribesFiles /\ WriterSound(w)
      /\ manifest # "absent" => made
  BY DEF DirectoryInv
<1>2. kind' = kind
  BY DEF WriterStep, Begin, Abort, MakeDirectory, OpenFile, WriteFile, OpenManifest,
         WriteManifest, disk
<1>3. manifest' # "absent" => made'
  BY <1>1 DEF WriterStep, Begin, Abort, MakeDirectory, OpenFile, WriteFile, OpenManifest,
              WriteManifest, disk, WriterSound
<1>4. SharedSound'
  <2> SUFFICES ASSUME ~Exclusive, NEW f \in Names, NEW v \in Writers
               PROVE  file'[f] \in {"absent", "damaged", Content[kind][v]}
    BY <1>2 DEF SharedSound, Exclusive, Names
  <2>1. file[f] \in {"absent", "damaged", Content[kind][v]} /\ Content[kind][v] = Content[kind][w]
    BY <1>1, WorkIsContent DEF SharedSound
  <2>2. CASE WriteFile(w)
    BY <1>1, <2>1, <2>2 DEF WriteFile, TypeOK, States, Names
  <2>3. CASE UNCHANGED file
    BY <2>1, <2>3
  <2> QED BY <2>2, <2>3 DEF WriterStep, Begin, Abort, MakeDirectory, OpenFile, OpenManifest,
                            WriteManifest, disk
<1>5. ManifestDescribesFiles'
  <2>1. CASE manifest # "absent"
    <3>1. /\ digests' = digests
          /\ \A f \in Names : file'[f] = file[f] \/ file'[f] = digests[f]
      BY <2>1, PublishedForGood
    <3> QED BY <1>1, <1>2, <2>1, <3>1 DEF ManifestDescribesFiles, Work, Names
  <2>2. CASE manifest = "absent" /\ OpenManifest(w)
    <3>1. file = Work(w)
      BY <2>2, HashesAreWork
    <3>2. digests' = Work(w) /\ file' = digests'
      BY <2>2, <3>1 DEF OpenManifest, Hashes
    <3> QED BY <1>2, <3>2 DEF ManifestDescribesFiles, Work, Names
  <2>3. CASE manifest = "absent" /\ ~OpenManifest(w)
    <3>1. manifest' = "absent"
      BY <1>1, <2>3 DEF WriterStep, Begin, Abort, MakeDirectory, OpenFile, WriteFile,
                        WriteManifest, disk, WriterSound
    <3> QED BY <3>1 DEF ManifestDescribesFiles
  <2> QED BY <2>1, <2>2, <2>3
<1> QED BY <1>3, <1>4, <1>5

\* of each other,
LEMMA WriterKeepsWriters ==
  ASSUME DirectoryInv, NEW w \in Writers, WriterStep(w), NEW v \in Writers
  PROVE  WriterSound(v)'
<1>1. TypeOK /\ SharedSound /\ WriterSound(w) /\ WriterSound(v) /\ (manifest # "absent" => made)
  BY DEF DirectoryInv
<1>2. kind' = kind /\ kind \in Kinds /\ Last \in Nat /\ Last = Len(Files[kind]) /\ Last' = Last
  <2>1. kind' = kind
    BY DEF WriterStep, Begin, Abort, MakeDirectory, OpenFile, WriteFile, OpenManifest,
           WriteManifest, disk
  <2> QED BY <1>1, <2>1, Order DEF TypeOK, Last
<1>3. /\ writer \in [Writers -> {"idle", "working", "writing"}]
      /\ written \in [Writers -> 0..Last] /\ open \in [Writers -> BOOLEAN]
      /\ file \in States(kind) /\ \A u \in Writers : written[u] \in Nat
  BY <1>1, <1>2 DEF TypeOK
<1>4. CASE Begin(w) \/ Abort(w)
  <2>1. writer'[v] = "writing" => writer[v] = "writing"
    BY <1>3, <1>4 DEF Begin, Abort
  <2>2. \A u \in Writers : writer'[u] = "writing" => writer[u] = "writing"
    BY <1>3, <1>4 DEF Begin, Abort
  <2>3. UNCHANGED <<disk, written, open>>
    BY <1>4 DEF Begin, Abort
  <2> QED BY <1>1, <1>2, <2>1, <2>2, <2>3 DEF WriterSound, AllWritten, Exclusive, disk
<1>5. CASE MakeDirectory(w)
  <2>1. /\ made' = TRUE /\ UNCHANGED <<file, manifest>>
        /\ writer' = [writer EXCEPT ![w] = "writing"]
        /\ written' = [written EXCEPT ![w] = 0] /\ open' = [open EXCEPT ![w] = FALSE]
        /\ Exclusive => ~made
    BY <1>5 DEF MakeDirectory, MayMake
  <2>2. CASE v = w
    <3>1. written'[w] = 0 /\ open'[w] = FALSE
      BY <1>3, <2>1
    <3>2. Exclusive => manifest = "absent" /\ \A u \in Writers : writer[u] # "writing"
      BY <1>1, <2>1 DEF DirectoryInv, WriterSound
    <3>3. Exclusive => \A u \in Writers : writer'[u] = "writing" => u = w
      BY <1>3, <2>1, <3>2
    <3> QED BY <1>2, <2>1, <2>2, <3>1, <3>2, <3>3 DEF WriterSound, Exclusive
  <2>3. CASE v # w
    <3>1. writer'[v] = writer[v] /\ written'[v] = written[v] /\ open'[v] = open[v]
      BY <1>3, <2>1, <2>3
    <3>2. Exclusive => writer[v] # "writing"
      BY <1>1, <2>1 DEF WriterSound
    <3> QED BY <1>1, <1>2, <2>1, <3>1, <3>2 DEF WriterSound, Exclusive, AllWritten
  <2> QED BY <2>2, <2>3
<1>6. CASE OpenFile(w)
  <2>1. /\ writer[w] = "writing" /\ written[w] < Last /\ Exclusive
        /\ file' = [file EXCEPT ![Current(w)] = "partial"]
        /\ open' = [open EXCEPT ![w] = TRUE]
        /\ UNCHANGED <<made, manifest, writer, written>>
    BY <1>6 DEF OpenFile, Unfinished
  <2>2. v # w => writer[v] # "writing"
    BY <1>1, <2>1 DEF WriterSound
  <2>3. CASE v = w
    <3>1. \A i \in 1..written[w] : file'[Files[kind][i]] = file[Files[kind][i]]
      <4> SUFFICES ASSUME NEW i \in 1..written[w]
                   PROVE  file'[Files[kind][i]] = file[Files[kind][i]]
        OBVIOUS
      <4>1. i \in 1..Last /\ written[w] + 1 \in 1..Last /\ i # written[w] + 1
        BY <1>2, <1>3, <2>1
      <4>2. Files[kind][i] # Current(w) /\ Files[kind][i] \in Names
        BY <1>2, <4>1, Order DEF Current, Names
      <4> QED BY <1>3, <2>1, <4>2 DEF States, Names
    <3>2. ~AllWritten(w) /\ ~AllWritten(w)'
      BY <1>2, <1>3, <2>1 DEF AllWritten
    <3>3. manifest = "absent"
      BY <1>1, <2>1, <3>2 DEF WriterSound
    <3> QED BY <1>1, <1>2, <2>1, <2>3, <3>1, <3>2, <3>3 DEF WriterSound, Exclusive
  <2> QED BY <2>1, <2>2, <2>3 DEF WriterSound
<1>7. CASE WriteFile(w)
  <2>1. /\ writer[w] = "writing" /\ written[w] < Last
        /\ file' = [file EXCEPT ![Current(w)] = Content[kind][w]]
        /\ written' = [written EXCEPT ![w] = @ + 1] /\ open' = [open EXCEPT ![w] = FALSE]
        /\ UNCHANGED <<made, manifest, writer>>
    BY <1>7 DEF WriteFile, Unfinished
  <2>2. CASE v = w
    <3>1. \A i \in 1..(written[w] + 1) : file'[Files[kind][i]] = Content[kind][w]
      <4> SUFFICES ASSUME NEW i \in 1..(written[w] + 1)
                   PROVE  file'[Files[kind][i]] = Content[kind][w]
        OBVIOUS
      <4>1. i \in 1..Last /\ written[w] + 1 \in 1..Last
        BY <1>2, <1>3, <2>1
      <4>2. Files[kind][i] \in Names
        BY <1>2, <4>1, Order DEF Names
      <4>3. CASE Files[kind][i] = Current(w)
        BY <1>3, <2>1, <4>2, <4>3 DEF States, Names
      <4>4. CASE Files[kind][i] # Current(w)
        <5>1. i \in 1..written[w]
          BY <1>3, <4>4 DEF Current
        <5> QED BY <1>1, <1>3, <2>1, <4>2, <4>4, <5>1 DEF WriterSound, States, Names
      <4> QED BY <4>3, <4>4
    <3>2. written'[w] = written[w] + 1 /\ open'[w] = FALSE
      BY <1>3, <2>1
    <3>3. Exclusive => manifest = "absent"
      BY <1>1, <1>3, <2>1 DEF WriterSound, AllWritten
    <3> QED BY <1>1, <1>2, <2>1, <2>2, <3>1, <3>2, <3>3 DEF WriterSound, Exclusive
  <2>3. CASE v # w
    <3>1. written'[v] = written[v] /\ open'[v] = open[v]
      BY <1>3, <2>1, <2>3
    <3>2. CASE Exclusive
      BY <1>1, <2>1, <2>3, <3>2 DEF WriterSound
    <3>3. CASE ~Exclusive
      <4>1. Content[kind][v] = Content[kind][w]
        BY <1>1, <3>3, WorkIsContent
      <4>2. ASSUME writer[v] = "writing", NEW i \in 1..written[v]
            PROVE  file'[Files[kind][i]] = Content[kind][v]
        <5>1. i \in 1..Last
          BY <1>2, <1>3
        <5>2. Files[kind][i] \in Names /\ file[Files[kind][i]] = Content[kind][v]
          BY <1>1, <1>2, <4>2, <5>1, Order DEF WriterSound, Names
        <5> QED BY <1>3, <2>1, <4>1, <5>2 DEF States, Names
      <4> QED BY <1>1, <1>2, <2>1, <3>1, <3>3, <4>2 DEF WriterSound, Exclusive, AllWritten
    <3> QED BY <3>2, <3>3
  <2> QED BY <2>2, <2>3
<1>8. CASE OpenManifest(w)
  <2>1. /\ writer[w] = "writing" /\ AllWritten(w) /\ manifest' = "partial"
        /\ open' = [open EXCEPT ![w] = TRUE]
        /\ UNCHANGED <<made, file, writer, written>>
    BY <1>8 DEF OpenManifest
  <2>2. open'[w] = TRUE /\ (Exclusive => \A u \in Writers : writer[u] = "writing" => u = w)
    BY <1>1, <1>3, <2>1 DEF WriterSound
  <2> QED BY <1>1, <1>2, <2>1, <2>2 DEF WriterSound, Exclusive, AllWritten
<1>9. CASE WriteManifest(w)
  <2>1. /\ writer[w] = "writing" /\ manifest' = "whole"
        /\ writer' = [writer EXCEPT ![w] = "idle"]
        /\ UNCHANGED <<made, file, written, open>>
    BY <1>9 DEF WriteManifest
  <2>2. Exclusive => \A u \in Writers : writer'[u] # "writing"
    BY <1>1, <1>3, <2>1 DEF WriterSound
  <2>3. writer'[v] = "writing" => writer[v] = "writing"
    BY <1>3, <2>1
  <2> QED BY <1>1, <1>2, <2>1, <2>2, <2>3 DEF WriterSound, Exclusive, AllWritten
<1> QED BY <1>4, <1>5, <1>6, <1>7, <1>8, <1>9 DEF WriterStep

\* and of the readers.
LEMMA WriterKeepsReaders ==
  ASSUME DirectoryInv, NEW w \in Writers, WriterStep(w), NEW r \in Readers
  PROVE  ReaderSound(r)'
<1>1. UNCHANGED <<reading, kind>>
  BY DEF WriterStep, Begin, Abort, MakeDirectory, OpenFile, WriteFile, OpenManifest,
         WriteManifest, disk
<1>2. ReaderSound(r) /\ TypeOK
  BY DEF DirectoryInv
<1>3. CASE reader[r] = "idle"
  BY <1>1, <1>3 DEF ReaderSound, reading
<1>4. CASE reader[r] # "idle"
  <2>1. manifest # "absent"
    BY <1>2, <1>4 DEF ReaderSound
  <2>2. /\ manifest' # "absent" /\ digests' = digests
        /\ \A f \in Names : file'[f] = file[f] \/ file'[f] = digests[f]
    BY <2>1, PublishedForGood
  <2>3. Last' = Last /\ Last \in Nat /\ \A i \in 1..Last : Files[kind][i] \in Names
    BY <1>1, <1>2, Order DEF TypeOK, Last, Names
  <2>4. seen[r] \in 0..Last
    BY <1>2 DEF TypeOK
  <2>5. \A i \in 1..Last : file[Files[kind][i]] = digests[Files[kind][i]]
                           => file'[Files[kind][i]] = digests[Files[kind][i]]
    BY <2>2, <2>3
  <2>6. reader[r] = "checking" =>
          \A i \in 1..seen[r] : file'[Files[kind][i]] = digests[Files[kind][i]]
    BY <1>2, <2>3, <2>4, <2>5 DEF ReaderSound
  <2>7. reader[r] = "loading" =>
          \A i \in (seen[r] + 1)..Last : file'[Files[kind][i]] = digests[Files[kind][i]]
    BY <1>2, <2>3, <2>4, <2>5 DEF ReaderSound
  <2> QED BY <1>1, <1>2, <2>2, <2>3, <2>6, <2>7 DEF ReaderSound, reading
<1> QED BY <1>3, <1>4

\* A reader reads the files the manifest describes, one after the other.
LEMMA ReaderKeepsReaders ==
  ASSUME DirectoryInv, NEW r \in Readers, ReaderStep(r), NEW q \in Readers
  PROVE  ReaderSound(q)'
<1>1. UNCHANGED disk /\ Names' = Names /\ Last' = Last
  BY DEF ReaderStep, ReadManifest, Verify, Verified, ReadFile, Loaded, EndReader, disk, Names,
         Last
<1>2. ReaderSound(r) /\ ReaderSound(q) /\ TypeOK
  BY DEF DirectoryInv
<1>3. /\ kind \in Kinds /\ Last = Len(Files[kind]) /\ Last \in Nat
      /\ \A i \in 1..Last : Files[kind][i] \in Names
      /\ \A f \in Names : \E i \in 1..Last : Files[kind][i] = f
      /\ \A i, j \in 1..Last : Files[kind][i] = Files[kind][j] => i = j
  BY <1>2, Order DEF TypeOK, Last, Names
<1>4. /\ reader \in [Readers -> {"idle", "checking", "loading", "loaded"}]
      /\ seen \in [Readers -> 0..Last] /\ seen[r] \in Nat
      /\ known \in [Readers -> States(kind)] /\ got \in [Readers -> States(kind)]
      /\ digests \in States(kind) /\ file \in States(kind)
  BY <1>2, <1>3 DEF TypeOK
<1>5. CASE q # r
  <2>1. reader'[q] = reader[q] /\ seen'[q] = seen[q] /\ known'[q] = known[q] /\ got'[q] = got[q]
    BY <1>4, <1>5
       DEF ReaderStep, ReadManifest, Verify, Verified, ReadFile, Loaded, EndReader
  <2> QED BY <1>1, <1>2, <2>1 DEF ReaderSound, disk
<1>6. CASE ReadManifest(r)
  <2>1. reader'[r] = "checking" /\ known'[r] = digests /\ seen'[r] = 0 /\ manifest # "absent"
    BY <1>4, <1>6 DEF ReadManifest
  <2> QED BY <1>1, <1>5, <2>1 DEF ReaderSound, disk
<1>7. CASE Verify(r)
  <2>1. /\ reader[r] = "checking" /\ reader' = reader /\ known' = known
        /\ seen'[r] = seen[r] + 1 /\ seen[r] < Last
        /\ file[AtFile(r)] = digests[AtFile(r)]
    BY <1>2, <1>4, <1>7 DEF Verify, Matches, ReaderSound
  <2>2. \A i \in 1..(seen[r] + 1) : file[Files[kind][i]] = digests[Files[kind][i]]
    <3> SUFFICES ASSUME NEW i \in 1..(seen[r] + 1)
                 PROVE  file[Files[kind][i]] = digests[Files[kind][i]]
      OBVIOUS
    <3>1. CASE i = seen[r] + 1
      BY <2>1, <3>1 DEF AtFile
    <3>2. CASE i \in 1..seen[r]
      BY <1>2, <2>1, <3>2 DEF ReaderSound
    <3> QED BY <1>4, <3>1, <3>2
  <2> QED BY <1>1, <1>2, <1>5, <2>1, <2>2 DEF ReaderSound, disk
<1>8. CASE Verified(r)
  <2>1. /\ reader[r] = "checking" /\ reader'[r] = "loading" /\ known' = known
        /\ seen[r] = Last /\ seen'[r] = 0
    BY <1>4, <1>8 DEF Verified
  <2>2. \A i \in (0 + 1)..Last : file[Files[kind][i]] = digests[Files[kind][i]]
    BY <1>2, <1>3, <2>1 DEF ReaderSound
  <2> QED BY <1>1, <1>2, <1>5, <2>1, <2>2 DEF ReaderSound, disk
<1>9. CASE ReadFile(r)
  <2>1. /\ reader[r] = "loading" /\ reader' = reader /\ known' = known
        /\ seen'[r] = seen[r] + 1 /\ seen[r] < Last
        /\ got'[r] = [got[r] EXCEPT ![AtFile(r)] = file[AtFile(r)]]
    BY <1>4, <1>9 DEF ReadFile
  <2>2. AtFile(r) \in Names /\ DOMAIN got[r] = Names
    BY <1>3, <1>4, <2>1 DEF AtFile, States, Names
  <2>3. file[AtFile(r)] = digests[AtFile(r)]
    <3>1. seen[r] + 1 \in (seen[r] + 1)..Last
      BY <1>3, <1>4, <2>1
    <3> QED BY <1>2, <2>1, <3>1 DEF ReaderSound, AtFile
  <2>4. \A i \in (seen[r] + 1 + 1)..Last : file[Files[kind][i]] = digests[Files[kind][i]]
    BY <1>2, <1>3, <1>4, <2>1 DEF ReaderSound
  <2>5. \A i \in 1..(seen[r] + 1) : got'[r][Files[kind][i]] = digests[Files[kind][i]]
    <3> SUFFICES ASSUME NEW i \in 1..(seen[r] + 1)
                 PROVE  got'[r][Files[kind][i]] = digests[Files[kind][i]]
      OBVIOUS
    <3>1. i \in 1..Last /\ Files[kind][i] \in Names
      BY <1>3, <1>4, <2>1
    <3>2. CASE Files[kind][i] = AtFile(r)
      BY <2>1, <2>2, <2>3, <3>1, <3>2
    <3>3. CASE Files[kind][i] # AtFile(r)
      <4>1. i \in 1..seen[r]
        BY <1>4, <3>3 DEF AtFile
      <4> QED BY <1>2, <2>1, <2>2, <3>1, <3>3, <4>1 DEF ReaderSound
    <3> QED BY <3>2, <3>3
  <2>6. /\ manifest' = manifest /\ digests' = digests /\ file' = file
        /\ Files[kind]' = Files[kind] /\ Last' = Last
    BY <1>1 DEF disk
  <2>7. reader'[r] = "loading" /\ known'[r] = digests /\ manifest # "absent"
    BY <1>2, <2>1 DEF ReaderSound
  <2>8. ReaderSound(r)'
    BY <2>1, <2>4, <2>5, <2>6, <2>7 DEF ReaderSound
  <2> QED BY <1>5, <2>8
<1>10. CASE Loaded(r)
  <2>1. /\ reader[r] = "loading" /\ reader'[r] = "loaded" /\ known' = known
        /\ seen[r] = Last /\ got' = got
    BY <1>4, <1>10 DEF Loaded
  <2>2. \A f \in Names : got[r][f] = digests[f]
    BY <1>2, <1>3, <2>1 DEF ReaderSound
  <2>3. got[r] = digests
    BY <1>4, <2>2 DEF States, Names
  <2> QED BY <1>1, <1>2, <1>5, <2>1, <2>3 DEF ReaderSound, disk
<1>11. CASE EndReader(r)
  <2>1. reader'[r] = "idle"
    BY <1>4, <1>11 DEF EndReader
  <2> QED BY <1>1, <1>5, <2>1 DEF ReaderSound, disk
<1> QED BY <1>6, <1>7, <1>8, <1>9, <1>10, <1>11 DEF ReaderStep

\* Every step keeps the invariant.
LEMMA DirectoryWriterStep ==
  ASSUME DirectoryInv, NEW w \in Writers, WriterStep(w)
  PROVE  DirectoryInv'
<1>1. TypeOK'
  BY WriterTypes DEF DirectoryInv
<1>2. ManifestDescribesFiles' /\ (manifest' # "absent" => made') /\ SharedSound'
  BY WriterKeepsDisk
<1>3. (\A v \in Writers : WriterSound(v)') /\ (\A r \in Readers : ReaderSound(r)')
  BY WriterKeepsWriters, WriterKeepsReaders
<1> QED BY <1>1, <1>2, <1>3 DEF DirectoryInv

\* A reader changes nothing but what it has, and that is as the manifest says.
LEMMA DirectoryReaderStep ==
  ASSUME DirectoryInv, NEW r \in Readers, ReaderStep(r)
  PROVE  DirectoryInv'
<1>1. TypeOK'
  BY ReaderTypes DEF DirectoryInv
<1>2. UNCHANGED <<disk, writing>>
  BY DEF ReaderStep, ReadManifest, Verify, Verified, ReadFile, Loaded, EndReader
<1>3. /\ ManifestDescribesFiles' /\ (manifest' # "absent" => made') /\ SharedSound'
      /\ \A w \in Writers : WriterSound(w)'
  BY <1>2 DEF DirectoryInv, ManifestDescribesFiles, SharedSound, WriterSound, disk, writing,
              Names, Work, Exclusive, AllWritten, Last
<1>4. \A q \in Readers : ReaderSound(q)'
  BY ReaderKeepsReaders
<1> QED BY <1>1, <1>3, <1>4 DEF DirectoryInv

\* A file is damaged while nobody writes, and where no reader trusts it: what a reader has
\* checked and not read yet stays.
LEMMA DirectoryDamage ==
  ASSUME DirectoryInv, NEW f \in Names, DamageFile(f)
  PROVE  DirectoryInv'
<1>1. /\ manifest = "whole" /\ file' = [file EXCEPT ![f] = "damaged"]
      /\ \A w \in Writers : writer[w] # "writing"
      /\ \A r \in Readers : ~Trusts(r, f)
      /\ UNCHANGED <<kind, made, manifest, digests, writing, reading>>
  BY DEF DamageFile
<1>2. TypeOK /\ file \in States(kind) /\ ManifestDescribesFiles
  BY DEF DirectoryInv, TypeOK
<1>3. file' \in States(kind)
  BY <1>1, <1>2 DEF States, Names
<1>4. TypeOK'
  BY <1>1, <1>2, <1>3 DEF TypeOK, writing, reading, Last
<1>5. ManifestDescribesFiles'
  BY <1>1, <1>2 DEF ManifestDescribesFiles, Work, Names, States
<1>6. SharedSound' /\ (manifest' # "absent" => made')
  <2>1. \A g \in Names : file'[g] = file[g] \/ file'[g] = "damaged"
    BY <1>1, <1>2 DEF States, Names
  <2> QED BY <1>1, <2>1 DEF DirectoryInv, SharedSound, Exclusive, Names
<1>7. ASSUME NEW w \in Writers PROVE WriterSound(w)'
  BY <1>1 DEF WriterSound, writing
<1>8. ASSUME NEW r \in Readers PROVE ReaderSound(r)'
  <2>1. ReaderSound(r) /\ ~Trusts(r, f) /\ seen[r] \in 0..Last
    BY <1>1, <1>2 DEF DirectoryInv, TypeOK
  <2>2. Last' = Last /\ Last \in Nat /\ \A i \in 1..Last : Files[kind][i] \in Names
    BY <1>1, <1>2, Order DEF TypeOK, Last, Names
  <2>3. \A i \in 1..Last : Files[kind][i] # f => file'[Files[kind][i]] = file[Files[kind][i]]
    BY <1>1, <1>2, <2>2 DEF States, Names
  <2>4. reader[r] = "checking" =>
          \A i \in 1..seen[r] : file'[Files[kind][i]] = digests[Files[kind][i]]
    BY <2>1, <2>2, <2>3 DEF ReaderSound, Trusts
  <2>5. reader[r] = "loading" =>
          \A i \in (seen[r] + 1)..Last : file'[Files[kind][i]] = digests[Files[kind][i]]
    BY <2>1, <2>2, <2>3 DEF ReaderSound, Trusts
  <2> QED BY <1>1, <2>1, <2>2, <2>4, <2>5 DEF ReaderSound, reading
<1> QED BY <1>4, <1>5, <1>6, <1>7, <1>8 DEF DirectoryInv

\* The invariant of the directory is about its variables only.
LEMMA DirectoryStutter == DirectoryInv /\ UNCHANGED vars => DirectoryInv'
<1> SUFFICES ASSUME DirectoryInv, UNCHANGED vars PROVE DirectoryInv'
  OBVIOUS
<1> USE DEF vars, disk, writing, reading
<1>1. TypeOK' /\ ManifestDescribesFiles' /\ (manifest' # "absent" => made') /\ SharedSound'
  BY DEF DirectoryInv, TypeOK, ManifestDescribesFiles, SharedSound, Names, Work, Exclusive, Last
<1>2. \A w \in Writers : WriterSound(w)'
  BY DEF DirectoryInv, WriterSound, Exclusive, AllWritten, Last
<1>3. \A r \in Readers : ReaderSound(r)'
  BY DEF DirectoryInv, ReaderSound, Last
<1> QED BY <1>1, <1>2, <1>3 DEF DirectoryInv

\* Every step of writers and readers, and every damage, keeps DirectoryInv.
LEMMA DirectoryStep1 == DirectoryInv /\ [Next]_vars => DirectoryInv'
BY DirectoryWriterStep, DirectoryReaderStep, DirectoryDamage, DirectoryStutter DEF Next

\* DirectoryInv is an invariant of the directory.
LEMMA DirectoryInvariance == Spec => []DirectoryInv
BY DirectoryInit, DirectoryStep1, PTL DEF Spec

-----------------------------------------------------------------------------
\* What a reader that ends its checks has is what the manifest describes.
LEMMA LoadedIsWhole == DirectoryInv => ReadersGetWholeWork
<1> SUFFICES ASSUME DirectoryInv, NEW r \in Readers, reader[r] = "loaded"
             PROVE  \E w \in Writers : got[r] = Work(w)
  BY DEF ReadersGetWholeWork
<1>1. manifest # "absent" /\ got[r] = digests
  BY DEF DirectoryInv, ReaderSound
<1> QED BY <1>1 DEF DirectoryInv, ManifestDescribesFiles

\* Whatever crashes, is repeated, runs at the same time or is damaged: a reader that ends
\* its load has every file, complete, and all of one writer.
THEOREM WholeWorkOrNothing == Spec => []ReadersGetWholeWork
BY DirectoryInvariance, LoadedIsWhole, PTL

\* A manifest, even a half written one, describes the whole work of one writer, and no
\* file it describes is changed other than by damage.
THEOREM ManifestTellsTheTruth == Spec => []ManifestDescribesFiles
<1>1. DirectoryInv => ManifestDescribesFiles
  BY DEF DirectoryInv
<1> QED BY <1>1, DirectoryInvariance, PTL

-----------------------------------------------------------------------------
(* The writers and readers implement AtomicPublication.                    *)

\* What is published is something.
LEMMA PublishedIsWork ==
  ASSUME DirectoryInv, manifest # "absent"
  PROVE  /\ digests \in {WorkOf(k, w) : k \in Kinds, w \in Writers}
         /\ digests # << >>
<1>1. PICK w \in Writers : digests = Work(w)
  BY DEF DirectoryInv, ManifestDescribesFiles
<1>2. kind \in Kinds /\ TypeOK
  BY DEF DirectoryInv, TypeOK
<1>3. PICK f : f \in Names
  BY <1>2, Order DEF Names
<1>4. DOMAIN digests = Names
  BY <1>1, <1>2, WorkIsContent
<1>5. digests # << >>
  BY <1>3, <1>4
<1> QED BY <1>1, <1>2, <1>5 DEF Work

\* A writer publishes, or does nothing that can be seen.
LEMMA WriterPublishes ==
  ASSUME DirectoryInv, NEW w \in Writers, WriterStep(w)
  PROVE  Publication!Publish \/ UNCHANGED <<Published, Taken>>
<1>1. Taken' = Taken
  BY DEF WriterStep, Begin, Abort, MakeDirectory, OpenFile, WriteFile, OpenManifest,
         WriteManifest, Taken, reading
<1>2. CASE manifest # "absent"
  <2>1. Published' = Published
    BY <1>2, PublishedForGood DEF Published
  <2> QED BY <1>1, <2>1
<1>3. CASE manifest = "absent" /\ OpenManifest(w)
  <2>1. DirectoryInv'
    BY DirectoryWriterStep
  <2>2. manifest' # "absent"
    BY <1>3 DEF OpenManifest
  <2>3. digests' \in {WorkOf(k, v) : k \in Kinds, v \in Writers}
    <3>1. kind \in Kinds /\ digests' = Work(w)
      BY <1>3, HashesAreWork DEF OpenManifest, Hashes, DirectoryInv, TypeOK
    <3> QED BY <3>1 DEF Work
  <2> QED BY <1>1, <1>3, <2>2, <2>3 DEF Published, Publication!Publish
<1>4. CASE manifest = "absent" /\ ~OpenManifest(w)
  <2>1. WriterSound(w)
    BY DEF DirectoryInv
  <2>2. manifest' = "absent"
    BY <1>4, <2>1 DEF WriterStep, Begin, Abort, MakeDirectory, OpenFile, WriteFile,
                      WriteManifest, disk, WriterSound
  <2> QED BY <1>1, <1>4, <2>2 DEF Published
<1> QED BY <1>2, <1>3, <1>4

\* A reader takes what is published, gives it back, or does nothing that can be seen.
LEMMA ReaderTakes ==
  ASSUME DirectoryInv, NEW r \in Readers, ReaderStep(r)
  PROVE  Publication!Take(r) \/ Publication!Release(r) \/ UNCHANGED <<Published, Taken>>
<1>1. Published' = Published
  BY DEF ReaderStep, ReadManifest, Verify, Verified, ReadFile, Loaded, EndReader,
         disk, Published
<1>2. /\ reader \in [Readers -> {"idle", "checking", "loading", "loaded"}]
      /\ DOMAIN got = Readers
  BY DEF DirectoryInv, TypeOK
<1>3. ReaderSound(r) /\ DirectoryInv' /\ (got \in [Readers -> States(kind)])
  BY DirectoryReaderStep DEF DirectoryInv, TypeOK
<1>4. CASE Loaded(r)
  <2>1. manifest # "absent" /\ reader' = [reader EXCEPT ![r] = "loaded"] /\ got' = got
    BY <1>3, <1>4 DEF Loaded, ReaderSound
  <2>2. got[r] = digests
    <3>1. ReaderSound(r)'
      BY <1>3 DEF DirectoryInv
    <3>2. digests' = digests /\ reader'[r] = "loaded"
      BY <1>2, <1>4 DEF Loaded, disk
    <3> QED BY <2>1, <3>1, <3>2 DEF ReaderSound
  <2>3. Published # << >> /\ got[r] = Published
    BY <2>1, <2>2, PublishedIsWork DEF Published
  <2>4. Taken' = [Taken EXCEPT ![r] = Published]
    BY <1>2, <2>1, <2>3 DEF Taken
  <2> QED BY <1>1, <2>3, <2>4 DEF Publication!Take
<1>5. CASE EndReader(r)
  <2>1. /\ reader' = [reader EXCEPT ![r] = "idle"]
        /\ \A q \in Readers : q # r => got'[q] = got[q]
    BY <1>3, <1>5 DEF EndReader
  <2>2. Taken' = [Taken EXCEPT ![r] = << >>]
    BY <1>2, <2>1 DEF Taken
  <2> QED BY <1>1, <2>2 DEF Publication!Release
<1>6. CASE ReadManifest(r) \/ Verify(r) \/ Verified(r) \/ ReadFile(r)
  <2>1. \A q \in Readers : (reader'[q] = "loaded") <=> (reader[q] = "loaded")
    BY <1>2, <1>6 DEF ReadManifest, Verify, Verified, ReadFile
  <2>2. \A q \in Readers : reader[q] = "loaded" => got'[q] = got[q]
    BY <1>3, <1>6 DEF ReadManifest, Verify, Verified, ReadFile
  <2>3. Taken' = Taken
    BY <2>1, <2>2 DEF Taken
  <2> QED BY <1>1, <2>3
<1> QED BY <1>4, <1>5, <1>6 DEF ReaderStep

\* The many writes, crashes and reads of a directory amount to one step of publication,
\* after which a reader takes the whole of it or nothing.
THEOREM PublicationIsAtomic == Spec => ImplementsAtomicPublication
<1>1. Init => Publication!Init
  BY DEF Init, Publication!Init, Published, Taken
<1>2. DirectoryInv /\ [Next]_vars => [Publication!Next]_<<Published, Taken>>
  <2> SUFFICES ASSUME DirectoryInv, [Next]_vars
               PROVE  Publication!Next \/ UNCHANGED <<Published, Taken>>
    OBVIOUS
  <2>1. ASSUME NEW w \in Writers, WriterStep(w)
        PROVE  Publication!Next \/ UNCHANGED <<Published, Taken>>
    BY <2>1, WriterPublishes DEF Publication!Next
  <2>2. ASSUME NEW r \in Readers, ReaderStep(r)
        PROVE  Publication!Next \/ UNCHANGED <<Published, Taken>>
    BY <2>2, ReaderTakes DEF Publication!Next
  <2>3. ASSUME NEW f \in Names, DamageFile(f)
        PROVE  UNCHANGED <<Published, Taken>>
    BY <2>3 DEF DamageFile, reading, Published, Taken
  <2>4. CASE UNCHANGED vars
    BY <2>4 DEF vars, disk, reading, Published, Taken
  <2> QED BY <2>1, <2>2, <2>3, <2>4 DEF Next
<1> QED BY <1>1, <1>2, DirectoryInvariance, PTL
        DEF Spec, ImplementsAtomicPublication, Publication!Spec

-----------------------------------------------------------------------------
(* Evaluations of a published directory                                    *)

Labels == {"idle", "checked", "measured", "recording", "recorded", "reporting"}

EvaluationTypes ==
  /\ pc \in [Evaluators -> Labels]
  /\ DOMAIN begun = Evaluators /\ DOMAIN given = Evaluators /\ DOMAIN report = Outputs
  /\ \A e \in Evaluators : pc[e] # "idle" => given[e].output \in Outputs

\* An evaluator that has a measurement still has the weights it measured, and goes on to
\* report only what it has written as the record.
EvaluatorSound(e) ==
  /\ pc[e] \notin {"idle", "checked"} => reader[e] = "loaded" /\ given[e].dataset = TrainedOn
  /\ pc[e] \in {"recorded", "reporting"} => Measurement(e) \in records

\* Every record there was measures the rows of the training and the weights that are named.
RecordsSound ==
  /\ records # {} => manifest # "absent"
  /\ \A m \in records : m[3] = TrainedOn /\ m[4] = digests
  /\ record \in {None, Partial} \cup records

\* A report repeats one of them.
ReportSound(o) == report[o] \in {None, Partial} \cup records

EvaluationInv ==
  /\ EvaluationTypes /\ RecordsSound
  /\ \A e \in Evaluators : EvaluatorSound(e)
  /\ \A o \in Outputs : ReportSound(o)

\* Where no evaluation has begun between another's check and its record, where one is
\* tells what the record is.
RecordAt(e) ==
  /\ pc[e] \in {"checked", "measured"} => record = None
  /\ pc[e] = "recording" => record = Partial
  /\ pc[e] \in {"recorded", "reporting"} => record = Measurement(e)

\* One evaluation is under way, and what was written whole is not touched any more.
Apart ==
  /\ \A d, e \in Evaluators : pc[d] # "idle" /\ pc[e] # "idle" => d = e
  /\ \A e \in Evaluators : RecordAt(e)
  /\ record \in {None, Partial} => records = {}
  /\ records = {} \/ records = {record}

ApartInv == ~overlapped => Apart

-----------------------------------------------------------------------------
\* An evaluation does to the directory what any reader does.
LEMMA EvaluationIsReading ==
  [NextEvaluation]_allVars => [Next]_vars
<1> SUFFICES ASSUME [NextEvaluation]_allVars PROVE Next \/ UNCHANGED vars
  OBVIOUS
<1>1. CASE DirectoryStep
  BY <1>1 DEF DirectoryStep, Next
<1>2. ASSUME NEW e \in Evaluators, Evaluate(e)
      PROVE  ReaderStep(e) \/ UNCHANGED vars
  BY <1>2 DEF Evaluate, BeginEvaluation, LoadArtifact, Accept, OpenRecord, WriteRecord,
              OpenReport, WriteReport, AbortEvaluation, Leave, ReaderStep
<1>3. CASE UNCHANGED allVars
  BY <1>3 DEF allVars
<1>4. Evaluators \subseteq Readers
  BY EvaluationAssumption
<1> QED BY <1>1, <1>2, <1>3, <1>4 DEF NextEvaluation, Next

\* What evaluations do is something readers may do.
LEMMA EvaluationIsUse == SpecEvaluation => Spec
<1>1. InitEvaluation => Init
  BY DEF InitEvaluation
<1> QED BY <1>1, EvaluationIsReading, PTL DEF SpecEvaluation, Spec

-----------------------------------------------------------------------------
\* At the start no evaluation has begun, and there is no record.
LEMMA EvaluationInit == InitEvaluation => EvaluationInv /\ ApartInv
<1> SUFFICES ASSUME InitEvaluation PROVE EvaluationInv /\ ApartInv
  OBVIOUS
<1>1. EvaluationTypes
  BY DEF InitEvaluation, EvaluationTypes, Labels
<1>2. RecordsSound /\ \A o \in Outputs : ReportSound(o)
  BY DEF InitEvaluation, RecordsSound, ReportSound
<1>3. \A e \in Evaluators : EvaluatorSound(e) /\ RecordAt(e)
  BY DEF InitEvaluation, EvaluatorSound, RecordAt
<1>4. Apart
  BY <1>3 DEF InitEvaluation, Apart
<1> QED BY <1>1, <1>2, <1>3, <1>4 DEF EvaluationInv, ApartInv

\* Once there is a manifest, its hashes stay.
LEMMA HashesStay ==
  ASSUME DirectoryInv, Next \/ UNCHANGED vars, manifest # "absent"
  PROVE  manifest' # "absent" /\ digests' = digests
<1>1. ASSUME NEW r \in Readers, ReaderStep(r) PROVE UNCHANGED disk
  BY <1>1 DEF ReaderStep, ReadManifest, Verify, Verified, ReadFile, Loaded, EndReader
<1>2. ASSUME NEW f \in Names, DamageFile(f) PROVE manifest' = manifest /\ digests' = digests
  BY <1>2 DEF DamageFile
<1>3. CASE UNCHANGED vars
  BY <1>3 DEF vars, disk
<1> QED BY <1>1, <1>2, <1>3, PublishedForGood DEF Next, disk

\* What others do with the directory leaves an evaluator its reader.
LEMMA OthersLeaveReaders ==
  ASSUME DirectoryStep, TypeOK
  PROVE  \A e \in Evaluators : reader'[e] = reader[e] /\ got'[e] = got[e]
<1> SUFFICES ASSUME NEW e \in Evaluators
             PROVE  reader'[e] = reader[e] /\ got'[e] = got[e]
  OBVIOUS
<1>1. ASSUME NEW w \in Writers, WriterStep(w) PROVE reader' = reader /\ got' = got
  BY <1>1 DEF WriterStep, Begin, Abort, MakeDirectory, OpenFile, WriteFile, OpenManifest,
              WriteManifest, reading
<1>2. ASSUME NEW f \in Names, DamageFile(f) PROVE reader' = reader /\ got' = got
  BY <1>2 DEF DamageFile, reading
<1>3. ASSUME NEW r \in Readers \ Evaluators, ReaderStep(r)
      PROVE  reader'[e] = reader[e] /\ got'[e] = got[e]
  <2>1. e \in Readers /\ e # r /\ DOMAIN reader = Readers /\ DOMAIN got = Readers
    BY <1>3, EvaluationAssumption DEF TypeOK
  <2> QED BY <1>3, <2>1
          DEF ReaderStep, ReadManifest, Verify, Verified, ReadFile, Loaded, EndReader
<1>4. \/ \E w \in Writers : WriterStep(w)
      \/ \E f \in Names : DamageFile(f)
      \/ \E r \in Readers \ Evaluators : ReaderStep(r)
  BY DEF DirectoryStep
<1> QED BY <1>1, <1>2, <1>3, <1>4

\* A step that leaves the evaluators what they have, and the directory its hashes.
LEMMA EvaluationUndisturbed ==
  ASSUME EvaluationInv, ApartInv, UNCHANGED evaluation,
         manifest # "absent" => manifest' # "absent" /\ digests' = digests,
         \A e \in Evaluators : /\ reader'[e] = reader[e] \/ pc[e] = "checked"
                               /\ got'[e] = got[e] \/ pc[e] = "checked"
  PROVE  EvaluationInv' /\ ApartInv'
<1>1. EvaluationTypes' /\ RecordsSound' /\ \A o \in Outputs : ReportSound(o)'
  BY DEF EvaluationInv, evaluation, EvaluationTypes, RecordsSound, ReportSound
<1>2. \A e \in Evaluators : EvaluatorSound(e)'
  BY DEF EvaluationInv, evaluation, EvaluatorSound, Measurement
<1>3. ASSUME NEW e \in Evaluators, RecordAt(e) PROVE RecordAt(e)'
  BY <1>3 DEF evaluation, RecordAt, Measurement
<1>4. ApartInv'
  BY <1>3 DEF ApartInv, Apart, evaluation
<1> QED BY <1>1, <1>2, <1>4 DEF EvaluationInv

-----------------------------------------------------------------------------
(* The steps of an evaluator.                                              *)

\* They change what the other evaluators have in no way, nor the directory.
LEMMA EvaluateAlone ==
  ASSUME EvaluationTypes, TypeOK, NEW e \in Evaluators, Evaluate(e)
  PROVE  /\ UNCHANGED disk
         /\ \A d \in Evaluators : d # e =>
              /\ pc'[d] = pc[d] /\ reader'[d] = reader[d] /\ given'[d] = given[d]
              /\ Measurement(d)' = Measurement(d)
<1>1. e \in Readers /\ Evaluators \subseteq Readers
  BY EvaluationAssumption
<1>2. DOMAIN reader = Readers /\ DOMAIN got = Readers
  BY DEF TypeOK
<1>3. ReaderStep(e) \/ UNCHANGED vars
  BY DEF Evaluate, BeginEvaluation, LoadArtifact, Accept, OpenRecord, WriteRecord,
         OpenReport, WriteReport, AbortEvaluation, Leave, ReaderStep
<1>4. UNCHANGED disk
  BY <1>3 DEF ReaderStep, ReadManifest, Verify, Verified, ReadFile, Loaded, EndReader, vars
<1>5. ASSUME NEW d \in Evaluators, d # e
      PROVE  /\ pc'[d] = pc[d] /\ given'[d] = given[d] /\ begun'[d] = begun[d]
             /\ reader'[d] = reader[d] /\ got'[d] = got[d]
  <2>1. reader'[d] = reader[d] /\ got'[d] = got[d]
    BY <1>1, <1>2, <1>3, <1>5
       DEF ReaderStep, ReadManifest, Verify, Verified, ReadFile, Loaded, EndReader, vars, reading
  <2>2. pc'[d] = pc[d] /\ given'[d] = given[d] /\ begun'[d] = begun[d]
    BY <1>5 DEF Evaluate, BeginEvaluation, LoadArtifact, Accept, OpenRecord, WriteRecord,
                OpenReport, WriteReport, AbortEvaluation, Leave, Goto, EvaluationTypes, evaluation
  <2> QED BY <2>1, <2>2
<1> QED BY <1>4, <1>5 DEF Measurement

\* The labels, and the arguments of those that run.
LEMMA EvaluateTypes ==
  ASSUME EvaluationTypes, NEW e \in Evaluators, Evaluate(e)
  PROVE  EvaluationTypes'
<1>1. CASE \E d \in Datasets, o \in Outputs : BeginEvaluation(e, d, o)
  BY <1>1 DEF BeginEvaluation, Goto, EvaluationTypes, Labels
<1>2. CASE LoadArtifact(e)
  BY <1>2 DEF LoadArtifact, evaluation, EvaluationTypes
<1>3. CASE Accept(e) \/ OpenRecord(e) \/ WriteRecord(e)
  BY <1>3 DEF Accept, OpenRecord, WriteRecord, Goto, EvaluationTypes, Labels
<1>4. CASE OpenReport(e)
  BY <1>4 DEF OpenReport, Goto, EvaluationTypes, Labels
<1>5. CASE WriteReport(e)
  BY <1>5 DEF WriteReport, Leave, Goto, EvaluationTypes, Labels
<1>6. CASE AbortEvaluation(e)
  BY <1>6 DEF AbortEvaluation, Leave, Goto, EvaluationTypes, Labels
<1> QED BY <1>1, <1>2, <1>3, <1>4, <1>5, <1>6 DEF Evaluate

\* What is written as the record or as a report is what was measured, or half of it.
LEMMA EvaluateStep ==
  ASSUME EvaluationInv, DirectoryInv, NEW e \in Evaluators, Evaluate(e)
  PROVE  EvaluationInv'
<1>1. /\ EvaluationTypes /\ RecordsSound /\ TypeOK
      /\ \A d \in Evaluators : EvaluatorSound(d)
      /\ \A o \in Outputs : ReportSound(o)
  BY DEF EvaluationInv, DirectoryInv
<1>2. EvaluationTypes'
  BY <1>1, EvaluateTypes
<1>3. /\ UNCHANGED <<manifest, digests>>
      /\ \A d \in Evaluators : d # e =>
           /\ pc'[d] = pc[d] /\ reader'[d] = reader[d] /\ given'[d] = given[d]
           /\ Measurement(d)' = Measurement(d)
  BY <1>1, EvaluateAlone DEF disk
<1>4. pc[e] \notin {"idle", "checked"} => got[e] = digests /\ manifest # "absent"
  BY <1>1, EvaluationAssumption DEF EvaluatorSound, DirectoryInv, ReaderSound
<1>5. ASSUME UNCHANGED <<record, report, records>>,
             EvaluatorSound(e)'
      PROVE  EvaluationInv'
  <2>1. RecordsSound' /\ \A o \in Outputs : ReportSound(o)'
    BY <1>1, <1>3, <1>5 DEF RecordsSound, ReportSound
  <2>2. \A d \in Evaluators : d # e => EvaluatorSound(d)'
    BY <1>1, <1>3, <1>5 DEF EvaluatorSound
  <2> QED BY <1>2, <1>5, <2>1, <2>2 DEF EvaluationInv
<1>6. CASE \E d \in Datasets, o \in Outputs : BeginEvaluation(e, d, o)
  <2>1. pc'[e] = "checked" /\ UNCHANGED <<record, report, records>>
    BY <1>1, <1>6 DEF BeginEvaluation, Goto, EvaluationTypes
  <2> QED BY <1>5, <2>1 DEF EvaluatorSound
<1>7. CASE LoadArtifact(e)
  <2>1. pc'[e] = "checked" /\ UNCHANGED <<record, report, records>>
    BY <1>7 DEF LoadArtifact, evaluation
  <2> QED BY <1>5, <2>1 DEF EvaluatorSound
<1>8. CASE Accept(e)
  <2>1. /\ pc'[e] = "measured" /\ reader'[e] = "loaded" /\ given'[e].dataset = TrainedOn
        /\ UNCHANGED <<record, report, records>>
    BY <1>1, <1>8 DEF Accept, Provenance, Goto, EvaluationTypes, vars, reading
  <2> QED BY <1>5, <2>1 DEF EvaluatorSound
<1>9. CASE AbortEvaluation(e)
  <2>1. pc'[e] = "idle" /\ UNCHANGED <<record, report, records>>
    BY <1>1, <1>9 DEF AbortEvaluation, Leave, Goto, EvaluationTypes
  <2> QED BY <1>5, <2>1 DEF EvaluatorSound
<1>10. CASE OpenRecord(e)
  <2>1. /\ pc[e] = "measured" /\ pc'[e] = "recording" /\ record' = Partial
        /\ UNCHANGED <<vars, given, report, records>>
    BY <1>1, <1>10 DEF OpenRecord, Goto, EvaluationTypes
  <2>2. RecordsSound' /\ \A o \in Outputs : ReportSound(o)'
    BY <1>1, <1>3, <2>1 DEF RecordsSound, ReportSound
  <2>3. EvaluatorSound(e)'
    BY <1>1, <2>1 DEF EvaluatorSound, vars, reading
  <2>4. \A d \in Evaluators : d # e => EvaluatorSound(d)'
    BY <1>1, <1>3, <2>1 DEF EvaluatorSound
  <2> QED BY <1>2, <2>2, <2>3, <2>4 DEF EvaluationInv
<1>11. CASE WriteRecord(e)
  <2>1. /\ pc[e] = "recording" /\ pc'[e] = "recorded"
        /\ record' \in {Measurement(e), Partial} /\ records' = records \cup {Measurement(e)}
        /\ UNCHANGED <<vars, begun, given, report>>
    BY <1>1, <1>11 DEF WriteRecord, Written, Goto, EvaluationTypes
  <2>2. Measurement(e)' = Measurement(e)
    BY <2>1 DEF Measurement, vars, reading
  <2>3. Measurement(e)[3] = TrainedOn /\ Measurement(e)[4] = digests
    BY <1>1, <1>4, <2>1 DEF Measurement, EvaluatorSound
  <2>4. RecordsSound' /\ \A o \in Outputs : ReportSound(o)'
    BY <1>1, <1>3, <1>4, <2>1, <2>3 DEF RecordsSound, ReportSound
  <2>5. EvaluatorSound(e)'
    BY <1>1, <2>1, <2>2 DEF EvaluatorSound, vars, reading
  <2>6. \A d \in Evaluators : d # e => EvaluatorSound(d)'
    BY <1>1, <1>3, <2>1 DEF EvaluatorSound
  <2> QED BY <1>2, <2>4, <2>5, <2>6 DEF EvaluationInv
<1>12. CASE OpenReport(e)
  <2>1. /\ pc[e] = "recorded" /\ pc'[e] = "reporting"
        /\ report' = [report EXCEPT ![given[e].output] = Partial]
        /\ UNCHANGED <<vars, begun, given, record, records>>
    BY <1>1, <1>12 DEF OpenReport, Goto, EvaluationTypes
  <2>2. Measurement(e)' = Measurement(e)
    BY <2>1 DEF Measurement, vars, reading
  <2>3. RecordsSound' /\ \A o \in Outputs : ReportSound(o)'
    BY <1>1, <1>3, <2>1 DEF RecordsSound, ReportSound, EvaluationTypes
  <2>4. EvaluatorSound(e)'
    BY <1>1, <2>1, <2>2 DEF EvaluatorSound, vars, reading
  <2>5. \A d \in Evaluators : d # e => EvaluatorSound(d)'
    BY <1>1, <1>3, <2>1 DEF EvaluatorSound
  <2> QED BY <1>2, <2>3, <2>4, <2>5 DEF EvaluationInv
<1>13. CASE WriteReport(e)
  <2>1. /\ pc[e] = "reporting" /\ pc'[e] = "idle" /\ UNCHANGED <<record, records>>
        /\ \E m \in {Measurement(e), Partial} :
             report' = [report EXCEPT ![given[e].output] = m]
    BY <1>1, <1>13 DEF WriteReport, Written, Leave, Goto, EvaluationTypes
  <2>2. Measurement(e) \in records
    BY <1>1, <2>1 DEF EvaluatorSound
  <2>3. RecordsSound' /\ \A o \in Outputs : ReportSound(o)'
    BY <1>1, <1>3, <2>1, <2>2 DEF RecordsSound, ReportSound, EvaluationTypes
  <2>4. EvaluatorSound(e)'
    BY <2>1 DEF EvaluatorSound
  <2>5. \A d \in Evaluators : d # e => EvaluatorSound(d)'
    BY <1>1, <1>3, <2>1 DEF EvaluatorSound
  <2> QED BY <1>2, <2>3, <2>4, <2>5 DEF EvaluationInv
<1> QED BY <1>6, <1>7, <1>8, <1>9, <1>10, <1>11, <1>12, <1>13 DEF Evaluate

\* Evaluations that do not begin between another's check and its record stay apart: by
\* its check none begins once another has opened the record, whether or not it ended.
LEMMA EvaluateApart ==
  ASSUME EvaluationInv, DirectoryInv, ApartInv, NEW e \in Evaluators, Evaluate(e)
  PROVE  ApartInv'
<1> SUFFICES ASSUME ~overlapped' PROVE Apart'
  BY DEF ApartInv
<1>1. EvaluationTypes /\ TypeOK
  BY DEF EvaluationInv, DirectoryInv
<1>2. ~overlapped
  BY DEF Evaluate, BeginEvaluation, LoadArtifact, Accept, OpenRecord, WriteRecord,
         OpenReport, WriteReport, AbortEvaluation, evaluation
<1>3. /\ \A d \in Evaluators : pc[d] # "idle" /\ pc[e] # "idle" => d = e
      /\ \A d \in Evaluators : RecordAt(d)
      /\ record \in {None, Partial} => records = {}
      /\ records = {} \/ records = {record}
  BY <1>2 DEF ApartInv, Apart
<1>4. \A d \in Evaluators : d # e =>
        pc'[d] = pc[d] /\ Measurement(d)' = Measurement(d)
  BY <1>1, EvaluateAlone
<1>5. \A d \in Evaluators : Measurement(d) \notin {None, Partial}
  BY DEF Measurement, None, Partial
<1>6. None # Partial
  BY DEF None, Partial
<1>7. \A d \in Evaluators : d # e => pc[d] = "idle"
  <2>1. CASE pc[e] # "idle"
    BY <1>3, <2>1
  <2>2. CASE pc[e] = "idle"
    <3>1. record = None /\ \A d \in Evaluators : pc[d] \notin {"checked", "measured"}
      BY <2>2 DEF Evaluate, BeginEvaluation, Unevaluated, LoadArtifact, Accept, OpenRecord,
                  WriteRecord, OpenReport, WriteReport, AbortEvaluation
    <3>2. \A d \in Evaluators : pc[d] \notin {"recording", "recorded", "reporting"}
      BY <1>3, <1>5, <1>6, <3>1 DEF RecordAt
    <3> QED BY <1>1, <3>1, <3>2 DEF EvaluationTypes, Labels
  <2> QED BY <2>1, <2>2
<1>8. \A d, f \in Evaluators : pc'[d] # "idle" /\ pc'[f] # "idle" => d = f
  BY <1>4, <1>7
<1>9. \A d \in Evaluators : d # e => RecordAt(d)'
  BY <1>4, <1>7 DEF RecordAt
<1>10. ASSUME RecordAt(e)', UNCHANGED <<record, records>>
       PROVE  Apart'
  BY <1>3, <1>8, <1>9, <1>10 DEF Apart
<1>11. CASE \E d \in Datasets, o \in Outputs : BeginEvaluation(e, d, o)
  <2>1. pc'[e] = "checked" /\ record = None /\ UNCHANGED <<record, records>>
    BY <1>1, <1>11 DEF BeginEvaluation, Unevaluated, Goto, EvaluationTypes
  <2> QED BY <1>10, <2>1 DEF RecordAt
<1>12. CASE LoadArtifact(e) \/ Accept(e)
  <2>1. /\ pc[e] = "checked" /\ pc'[e] \in {"checked", "measured"}
        /\ UNCHANGED <<record, records>>
    BY <1>1, <1>12 DEF LoadArtifact, Accept, Goto, EvaluationTypes, evaluation
  <2>2. record = None
    BY <1>3, <2>1 DEF RecordAt
  <2> QED BY <1>10, <2>1, <2>2 DEF RecordAt
<1>13. CASE OpenRecord(e)
  <2>1. /\ pc[e] = "measured" /\ pc'[e] = "recording" /\ record' = Partial
        /\ records' = records
    BY <1>1, <1>13 DEF OpenRecord, Goto, EvaluationTypes
  <2>2. records = {}
    BY <1>3, <2>1 DEF RecordAt
  <2>3. RecordAt(e)'
    BY <2>1 DEF RecordAt
  <2> QED BY <1>8, <1>9, <2>1, <2>2, <2>3 DEF Apart
<1>14. CASE WriteRecord(e)
  <2>1. /\ pc[e] = "recording" /\ pc'[e] = "recorded"
        /\ record' \in Written(e, record) /\ records' = records \cup {Measurement(e)}
        /\ UNCHANGED <<vars, begun, given>>
    BY <1>1, <1>14 DEF WriteRecord, Goto, EvaluationTypes
  <2>2. record = Partial /\ records = {}
    BY <1>3, <2>1 DEF RecordAt
  <2>3. record' = Measurement(e) /\ records' = {Measurement(e)}
    BY <2>1, <2>2 DEF Written
  <2>4. Measurement(e)' = Measurement(e)
    BY <2>1 DEF Measurement, vars, reading
  <2>5. RecordAt(e)'
    BY <2>1, <2>3, <2>4 DEF RecordAt
  <2>6. record' \notin {None, Partial} /\ records' = {record'}
    BY <1>5, <2>3
  <2> QED BY <1>8, <1>9, <2>5, <2>6 DEF Apart
<1>15. CASE OpenReport(e)
  <2>1. /\ pc[e] = "recorded" /\ pc'[e] = "reporting"
        /\ UNCHANGED <<vars, begun, given, record, records>>
    BY <1>1, <1>15 DEF OpenReport, Goto, EvaluationTypes
  <2>2. Measurement(e)' = Measurement(e) /\ record = Measurement(e)
    BY <1>3, <2>1 DEF Measurement, RecordAt, vars, reading
  <2> QED BY <1>10, <2>1, <2>2 DEF RecordAt
<1>16. CASE WriteReport(e) \/ AbortEvaluation(e)
  <2>1. pc'[e] = "idle" /\ UNCHANGED <<record, records>>
    BY <1>1, <1>16 DEF WriteReport, AbortEvaluation, Leave, Goto, EvaluationTypes
  <2> QED BY <1>10, <2>1 DEF RecordAt
<1> QED BY <1>11, <1>12, <1>13, <1>14, <1>15, <1>16 DEF Evaluate

\* Every step of evaluations, and of the rest, keeps both.
LEMMA EvaluationStep ==
  EvaluationInv /\ ApartInv /\ DirectoryInv /\ [NextEvaluation]_allVars
    => EvaluationInv' /\ ApartInv'
<1> SUFFICES ASSUME EvaluationInv, ApartInv, DirectoryInv, [NextEvaluation]_allVars
             PROVE  EvaluationInv' /\ ApartInv'
  OBVIOUS
<1>1. Next \/ UNCHANGED vars
  BY EvaluationIsReading
<1>2. manifest # "absent" => manifest' # "absent" /\ digests' = digests
  BY <1>1, HashesStay
<1>3. CASE DirectoryStep
  <2>1. \A e \in Evaluators : reader'[e] = reader[e] /\ got'[e] = got[e]
    BY <1>3, OthersLeaveReaders DEF DirectoryInv
  <2>2. UNCHANGED evaluation
    BY <1>3 DEF DirectoryStep
  <2> QED BY <1>2, <2>1, <2>2, EvaluationUndisturbed
<1>4. CASE UNCHANGED allVars
  BY <1>2, <1>4, EvaluationUndisturbed DEF allVars, vars, reading
<1> QED BY <1>3, <1>4, EvaluateStep, EvaluateApart DEF NextEvaluation

\* Both are invariants where evaluations use the directory.
LEMMA EvaluationInvariance == SpecEvaluation => [](EvaluationInv /\ ApartInv)
<1>1. SpecEvaluation => []DirectoryInv
  BY EvaluationIsUse, DirectoryInvariance, PTL
<1> QED BY <1>1, EvaluationInit, EvaluationStep, PTL DEF SpecEvaluation

-----------------------------------------------------------------------------
\* With evaluations among the readers, every reader still has the whole work of one
\* writer, and publication is still one step.
THEOREM EvaluatedWorkIsWhole == SpecEvaluation => []ReadersGetWholeWork
BY EvaluationIsUse, WholeWorkOrNothing, PTL

\* Where evaluations read the directory, it is still published in one step.
THEOREM EvaluatedPublicationIsAtomic == SpecEvaluation => ImplementsAtomicPublication
BY EvaluationIsUse, PublicationIsAtomic, PTL

\* A second measurement is written as the record beside the model only if an evaluation
\* was begun between another's check and its record, whatever crashes and is run again.
\* Where that happened it may be, against README.md: NeverReplaced alone is refuted.
THEOREM RecordIsReplacedByOverlapOnly == SpecEvaluation => []OnlyOverlapReplaces
<1>1. ApartInv => OnlyOverlapReplaces
  <2> SUFFICES ASSUME ApartInv, ~overlapped PROVE Cardinality(records) <= 1
    BY DEF OnlyOverlapReplaces, NeverReplaced
  <2>1. Cardinality({}) = 0 /\ Cardinality({record}) = 1
    BY FS_EmptySet, FS_Singleton
  <2> QED BY <2>1 DEF ApartInv, Apart
<1> QED BY <1>1, EvaluationInvariance, PTL

\* However evaluations overlap: the record and every whole report are measurements that
\* were written as the record, on the training's dataset and of the weights the manifest
\* names. Where none began between another's check and its record, a report is the record.
THEOREM ReportsRepeatARecord == SpecEvaluation => []ReportsAreTheRecord
<1>1. EvaluationInv /\ ApartInv => ReportsAreTheRecord
  <2> SUFFICES ASSUME EvaluationInv, ApartInv PROVE ReportsAreTheRecord
    OBVIOUS
  <2>1. \A o \in Outputs : report[o] \notin {None, Partial} => report[o] \in records
    BY DEF EvaluationInv, ReportSound
  <2>2. ~overlapped => \A m \in records : m = record
    BY DEF ApartInv, Apart
  <2> QED BY <2>1, <2>2 DEF EvaluationInv, RecordsSound, ReportsAreTheRecord
<1> QED BY <1>1, EvaluationInvariance, PTL
=============================================================================
