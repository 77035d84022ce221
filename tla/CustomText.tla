----------------------------- MODULE CustomText -----------------------------
(***************************************************************************)
(* What the custom model makes of texts: tokens, vocabulary, encoding,     *)
(* padding, and the masked mean that pools a row of a batch.               *)
(*                                                                         *)
(* A text is a sequence of symbols: a word w, the same word written -w in  *)
(* capitals, or 0 for what is no word. Words are ordered as integers.      *)
(***************************************************************************)
EXTENDS Integers, Sequences, SequencesExt

CONSTANTS MaxLength,  \* max_length
          MaxWords    \* 9998

ASSUME LengthAssumption == MaxLength \in Nat /\ MaxWords \in Nat

PAD == 0
UNK == 1

\* The members of S as the strict order R, a set of pairs, has them.
InOrder(S, R) ==
  [k \in 1..Cardinality(S) |-> CHOOSE x \in S : Cardinality({y \in S : <<y, x>> \in R}) = k - 1]

tokens(text) ==
  LET found == {i \in DOMAIN text : text[i] # 0}
      order == InOrder(found, {p \in found \X found : p[1] < p[2]})
  IN [k \in DOMAIN order |-> IF text[order[k]] < 0 THEN -text[order[k]] ELSE text[order[k]]]

First(s, n) == SubSeq(s, 1, Min({n, Len(s)}))

Truncated(text) == First(tokens(text), MaxLength)

\* texts: one text for each member of some set of rows.
Count(texts, w) ==
  Cardinality({p \in (DOMAIN texts) \X (1..MaxLength) :
                 LET t == Truncated(texts[p[1]]) IN p[2] \in DOMAIN t /\ t[p[2]] = w})

WordsOf(texts) == UNION {Range(Truncated(texts[r])) : r \in DOMAIN texts}

\* The key that sorted() compares.
ComesBefore(texts) ==
  {p \in WordsOf(texts) \X WordsOf(texts) :
     \/ Count(texts, p[1]) > Count(texts, p[2])
     \/ Count(texts, p[1]) = Count(texts, p[2]) /\ p[1] < p[2]}

vocabulary(texts) == First(InOrder(WordsOf(texts), ComesBefore(texts)), MaxWords)

\* indices: the words of the vocabulary come after PAD and UNK.
Index(words, w) ==
  IF w \in Range(words) THEN 1 + CHOOSE i \in DOMAIN words : words[i] = w ELSE UNK

OrUnknown(s) == IF s = << >> THEN <<UNK>> ELSE s

encode(text, words) ==
  LET t == Truncated(text) IN OrUnknown([i \in DOMAIN t |-> Index(words, t[i])])

padded_batch(rows) ==
  LET width == Max({Len(rows[i]) : i \in DOMAIN rows})
  IN [i \in DOMAIN rows |-> rows[i] \o [j \in 1..(width - Len(rows[i])) |-> PAD]]

\* Fault: the mean is taken over the width of the batch.
Everywhere(row) == DOMAIN row

Mask(row) == {j \in DOMAIN row : row[j] # PAD}

\* The mean of the masked embeddings, as the bag it is the mean of and its size.
Pooled(row) ==
  <<[id \in Range(row) \ {PAD} |-> Cardinality({j \in DOMAIN row : row[j] = id})],
    Max({1, Cardinality(Mask(row))})>>
=============================================================================
