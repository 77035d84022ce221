---------------------------- MODULE TrainingData ----------------------------
(***************************************************************************)
(* The rows of the corpus, from split_rows() to the vocabulary and the     *)
(* encoded batches of train(). Shuffling and cutting a stratum is to choose *)
(* any of its subsets of the size cut; the order of rows is left out.      *)
(***************************************************************************)
EXTENDS CustomText, StratumCuts

CONSTANTS RowSequences,  \* the corpora: sequences of rows [text, label, domain]
          Sample         \* the rows of a stratum the small profile takes

\* prepare() gives split_rows() a list, and small_subset() takes rows of every stratum.
ASSUME RowAssumption ==
  \A s \in RowSequences : s \in Seq(Range(s)) /\ \A r \in DOMAIN s : s[r].text \in Seq(Int)
ASSUME SampleAssumption == Sample \in Nat \ {0}

VARIABLES rows, split, removed, profile, fitted, words

vars == <<rows, split, removed, profile, fitted, words>>

Init ==
  /\ rows \in RowSequences
  /\ split = << >> /\ removed = 0
  /\ profile = "none" /\ fitted = {} /\ words = << >>

-----------------------------------------------------------------------------
(* split_rows()                                                            *)

Key(r) == tokens(rows[r].text)
Group(r) == {s \in DOMAIN rows : Key(s) = Key(r)}

\* Fault: every row is kept.
AnyRow(r) == Key(r) # << >>

IsUnique(r) ==
  /\ Key(r) # << >> /\ r = Min(Group(r))
  /\ \A s \in Group(r) : rows[s].label = rows[r].label

Unique == {r \in DOMAIN rows : IsUnique(r)}

Stratum(r, S) == {s \in S : rows[s].domain = rows[r].domain /\ rows[s].label = rows[r].label}

\* The sizes of the parts of every stratum are the cuts'.
IsCut(f) ==
  \A r \in DOMAIN f :
    LET stratum == Stratum(r, DOMAIN f)
        n == Cardinality(stratum)
        Part(name) == Cardinality({s \in stratum : f[s] = name})
    IN Part("train") = TrainEnd(n) /\ Part("validation") = ValidationEnd(n) - TrainEnd(n)

Split ==
  /\ split = << >> /\ Unique # {}
  /\ split' \in {f \in [Unique -> {"train", "validation", "test"}] : IsCut(f)}
  /\ removed' = Len(rows) - Cardinality(Unique)
  /\ UNCHANGED <<rows, profile, fitted, words>>

-----------------------------------------------------------------------------
(* The rows that train() fits, and the vocabulary it takes from them        *)

In(name) == {r \in DOMAIN split : split[r] = name}

IsSampleOf(S, Whole) ==
  /\ S \subseteq Whole
  /\ \A r \in Whole : LET stratum == Stratum(r, Whole) IN
                      Cardinality(stratum \cap S) = Min({Sample, Cardinality(stratum)})

\* small_subset()
IsSample(S) == IsSampleOf(S, In("train"))

VocabularyRows == fitted'

Fit ==
  /\ profile = "none" /\ In("train") # {}
  /\ \/ profile' = "full" /\ fitted' = In("train")
     \/ profile' = "small" /\ fitted' \in {S \in SUBSET DOMAIN split : IsSample(S)}
  /\ words' = vocabulary([r \in VocabularyRows |-> rows[r].text])
  /\ UNCHANGED <<rows, split, removed>>

Next == Split \/ Fit

Spec == Init /\ [][Next]_vars

-----------------------------------------------------------------------------
(* Properties                                                              *)

\* Type correctness: what is fitted is a part of the training split.
TypeOK ==
  /\ rows \in RowSequences /\ removed \in 0..Len(rows)
  /\ split \in UNION {[S -> {"train", "validation", "test"}] : S \in SUBSET DOMAIN rows}
  /\ profile \in {"none", "small", "full"}
  /\ fitted \subseteq In("train") /\ Len(words) <= MaxWords

\* No two kept rows read the same to the model, so no split has a row of another.
SplitsShareNoSentence ==
  \A r, s \in DOMAIN split : r # s => Key(r) # Key(s)

\* Rows that read the same with different labels are all removed, and of the
\* others exactly one is kept.
KeptUnlessConflicting ==
  split # << >> =>
    \A r \in DOMAIN rows :
      Cardinality(Group(r) \cap DOMAIN split)
        = IF Key(r) # << >> /\ \A s \in Group(r) : rows[s].label = rows[r].label THEN 1 ELSE 0

\* Every domain and label that has rows has one that is held out.
EveryStratumIsTested ==
  \A r \in DOMAIN split : \E s \in Stratum(r, DOMAIN split) : split[s] = "test"

\* No row that is held out is fitted, and the small profile takes something of
\* every stratum it may take from.
FittedRepresentTheSplit ==
  /\ fitted \subseteq In("train")
  /\ profile # "none" =>
       \A r \in In("train") : \E s \in fitted : s \in Stratum(r, In("train"))

\* No leakage: of the sentences that read the same at most one is kept, in one
\* split, and the rows that are fitted are of the training split, all its strata.
SplitIsSound == SplitsShareNoSentence /\ KeptUnlessConflicting /\ FittedRepresentTheSplit

\* The model knows no word of validation or test rows that it was not fitted on.
VocabularyIsOfFittedRows == Range(words) \subseteq UNION {Range(Key(r)) : r \in fitted}

\* However texts are batched, a row is pooled as it is alone: padding is neither
\* counted nor ever the whole of a row.
BatchesDoNotMix ==
  profile # "none" =>
    LET encoded == [r \in DOMAIN rows |-> encode(rows[r].text, words)]
        batch == padded_batch(encoded)
    IN \A r \in DOMAIN rows : /\ Pooled(batch[r]) = Pooled(encoded[r])
                              /\ encoded[r] # << >> /\ PAD \notin Range(encoded[r])

\* The text the model sees is that of the fitted rows, row by row: the words it
\* knows are theirs, and no row is changed by the batch it is in.
TextIsSound == TypeOK /\ VocabularyIsOfFittedRows /\ BatchesDoNotMix
=============================================================================
