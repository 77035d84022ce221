-------------------------- MODULE TrainingDataProofs --------------------------
(***************************************************************************)
(* For every corpus, whatever its texts are: which rows are kept, where    *)
(* they go, which of them are fitted, and that what the model is given of  *)
(* a text is the text's own, through vocabulary, encoding and padding.     *)
(***************************************************************************)
EXTENDS TrainingData, FiniteSetTheorems, TLAPS

Parts == {"train", "validation", "test"}

\* The rows are split once, into parts of the sizes of the cuts, before any is fitted.
DataInv ==
  /\ rows \in RowSequences
  /\ split = << >> \/ (Unique # {} /\ split \in [Unique -> Parts] /\ IsCut(split))
  /\ profile # "none" => split # << >>
  /\ FittedRepresentTheSplit
  /\ removed \in 0..Len(rows) /\ profile \in {"none", "small", "full"}
  /\ Len(words) \in 0..MaxWords /\ words \in Seq(UNION {Range(Key(r)) : r \in fitted})

\* A nonempty set of numbers has the minimum that split_rows() keeps: the first row.
LEMMA MinOfNumbers ==
  ASSUME NEW S \in SUBSET Nat, S # {}
  PROVE  Min(S) \in S /\ \A y \in S : Min(S) <= y
<1>1. PICK x \in S : \A y \in S : ~(<<y, x>> \in OpToRel(<, Nat))
  BY NatLessThanWellFounded, WFMin
<1>2. ASSUME NEW y \in S, y < x PROVE FALSE
  <2>1. <<y, x>> \in OpToRel(<, Nat)
    BY <1>2, Zenon DEF OpToRel
  <2> QED BY <1>1, <2>1
<1>3. \A y \in S : x <= y
  BY <1>2
<1> QED BY <1>3 DEF Min

\* So has a nonempty set of numbers with a bound its maximum.
LEMMA MaxOfNumbers ==
  ASSUME NEW b \in Nat, NEW S \in SUBSET (0..b), S # {}
  PROVE  Max(S) \in S /\ \A y \in S : Max(S) >= y
<1> DEFINE D == {b - y : y \in S}
<1>1. D \in SUBSET Nat /\ D # {}
  <2>1. ASSUME NEW y \in S PROVE b - y \in Nat /\ b - y \in D
    <3>1. y \in 0..b
      OBVIOUS
    <3> QED BY <3>1
  <2>2. PICK y \in S : TRUE
    OBVIOUS
  <2> QED BY <2>1, <2>2
<1>2. PICK d \in D : \A e \in D : d <= e
  BY <1>1, MinOfNumbers
<1>3. PICK x \in S : d = b - x
  BY <1>2
<1>4. \A y \in S : x >= y
  BY <1>2, <1>3
<1> QED BY <1>4 DEF Max

-----------------------------------------------------------------------------
(* Texts                                                                   *)

\* R orders the members of S.
Orders(R, S) ==
  /\ \A x \in S : <<x, x>> \notin R
  /\ \A x, y \in S : x # y => <<x, y>> \in R \/ <<y, x>> \in R
  /\ \A x, y, z \in S : <<x, y>> \in R /\ <<y, z>> \in R => <<x, z>> \in R

\* How many members come before x.
Rank(x, S, R) == Cardinality({y \in S : <<y, x>> \in R})

\* A part that leaves something out has fewer members.
LEMMA PartIsSmaller ==
  ASSUME NEW T, IsFiniteSet(T), NEW U \in SUBSET T, NEW x \in T \ U
  PROVE  Cardinality(U) \in Nat /\ Cardinality(T) \in Nat /\ Cardinality(U) < Cardinality(T)
<1>1. IsFiniteSet(U) /\ Cardinality(U) <= Cardinality(T) /\ Cardinality(U) # Cardinality(T)
  BY FS_Subset
<1>2. Cardinality(U) \in Nat /\ Cardinality(T) \in Nat
  BY <1>1, FS_CardinalityType
<1> QED BY <1>1, <1>2

\* Ranks follow the order, and are less than the number of members.
LEMMA RanksFollowOrder ==
  ASSUME NEW S, IsFiniteSet(S), NEW R, Orders(R, S), NEW x \in S
  PROVE  /\ Rank(x, S, R) \in 0..(Cardinality(S) - 1)
         /\ \A y \in S : <<x, y>> \in R => Rank(x, S, R) < Rank(y, S, R)
         /\ \A y \in S : x # y => Rank(x, S, R) # Rank(y, S, R)
<1> DEFINE Below(z) == {y \in S : <<y, z>> \in R}
<1>1. ASSUME NEW z \in S
      PROVE  /\ Below(z) \in SUBSET S /\ z \in S \ Below(z)
             /\ IsFiniteSet(Below(z)) /\ Rank(z, S, R) = Cardinality(Below(z))
  BY FS_Subset DEF Orders, Rank
<1>2. ASSUME NEW u \in S, NEW v \in S, <<u, v>> \in R
      PROVE  Below(u) \in SUBSET Below(v) /\ u \in Below(v) \ Below(u)
  BY <1>2 DEF Orders
<1> HIDE DEF Below
<1>3. ASSUME NEW u \in S, NEW v \in S, <<u, v>> \in R
      PROVE  /\ Rank(u, S, R) < Rank(v, S, R)
             /\ Rank(u, S, R) \in Nat /\ Rank(v, S, R) \in Nat
  BY <1>1, <1>2, <1>3, PartIsSmaller
<1>4. Rank(x, S, R) \in Nat /\ Rank(x, S, R) < Cardinality(S) /\ Cardinality(S) \in Nat
  BY <1>1, PartIsSmaller
<1>5. ASSUME NEW y \in S, x # y PROVE Rank(x, S, R) # Rank(y, S, R)
  <2>1. <<x, y>> \in R \/ <<y, x>> \in R
    BY <1>5 DEF Orders
  <2> QED BY <1>3, <2>1
<1>6. Rank(x, S, R) \in 0..(Cardinality(S) - 1)
  BY <1>4
<1> QED BY <1>3, <1>5, <1>6

\* Every place of the order is taken by a member: the ranks of the members are
\* different, so by the pigeonhole principle none is left out.
LEMMA PlacesAreTaken ==
  ASSUME NEW S, IsFiniteSet(S), NEW R, Orders(R, S), NEW k \in 0..(Cardinality(S) - 1)
  PROVE  \E x \in S : Rank(x, S, R) = k
<1> DEFINE n == Cardinality(S)
           rank == [x \in S |-> Rank(x, S, R)]
           T == (0..(n - 1)) \ {k}
<1> SUFFICES ASSUME \A x \in S : rank[x] # k PROVE FALSE
  OBVIOUS
<1>1. n \in Nat
  BY FS_CardinalityType
<1>2. rank \in [S -> T] /\ \A x, y \in S : x # y => rank[x] # rank[y]
  <2>1. ASSUME NEW x \in S
        PROVE  rank[x] \in 0..(n - 1) /\ \A y \in S : x # y => rank[x] # rank[y]
    BY RanksFollowOrder
  <2> QED BY <2>1
<1>3. IsFiniteSet(T) /\ Cardinality(T) < n
  <2> DEFINE whole == 0..(n - 1)
  <2> HIDE DEF n
  <2>1. IsFiniteSet(whole) /\ Cardinality(whole) = n
    BY <1>1, FS_Interval
  <2>2. T \in SUBSET whole /\ k \in whole \ T
    BY DEF n
  <2> HIDE DEF whole, T
  <2> QED BY <2>1, <2>2, PartIsSmaller, FS_Subset
<1> HIDE DEF rank, T
<1> QED BY <1>2, <1>3, FS_PigeonHole

\* InOrder has as many elements as S has members, each at the place of its rank.
LEMMA InOrderType ==
  ASSUME NEW S, IsFiniteSet(S), NEW R, Orders(R, S)
  PROVE  /\ InOrder(S, R) \in Seq(S) /\ Len(InOrder(S, R)) = Cardinality(S)
         /\ \A k \in 1..Cardinality(S) : Rank(InOrder(S, R)[k], S, R) = k - 1
<1> DEFINE n == Cardinality(S)
           Place(k) == CHOOSE x \in S : Rank(x, S, R) = k - 1
<1>1. n \in Nat
  BY FS_CardinalityType
<1>2. ASSUME NEW k \in 1..n PROVE Place(k) \in S /\ Rank(Place(k), S, R) = k - 1
  <2>1. k - 1 \in 0..(n - 1)
    BY <1>1
  <2>2. \E x \in S : Rank(x, S, R) = k - 1
    BY <2>1, PlacesAreTaken
  <2> QED BY <2>2
<1>3. InOrder(S, R) = [k \in 1..n |-> Place(k)]
  BY DEF InOrder, Rank
<1> HIDE DEF n, Place
<1>4. InOrder(S, R) \in [1..n -> S]
  BY <1>2, <1>3
<1>5. \A k \in 1..n : Rank(InOrder(S, R)[k], S, R) = k - 1
  BY <1>2, <1>3
<1> QED BY <1>1, <1>4, <1>5 DEF n

\* It has every member, in the order.
LEMMA InOrderIsOrdered ==
  ASSUME NEW S, IsFiniteSet(S), NEW R, Orders(R, S)
  PROVE  LET s == InOrder(S, R)
         IN /\ \A x \in S : \E k \in DOMAIN s : s[k] = x
            /\ \A i, j \in DOMAIN s : i < j => <<s[i], s[j]>> \in R
<1> DEFINE s == InOrder(S, R)
           n == Cardinality(S)
<1>1. /\ s \in Seq(S) /\ DOMAIN s = 1..n /\ n \in Nat
      /\ \A k \in 1..n : s[k] \in S /\ Rank(s[k], S, R) = k - 1
  BY InOrderType, FS_CardinalityType
<1> HIDE DEF s, n
<1>2. ASSUME NEW i \in 1..n, NEW j \in 1..n, i < j PROVE <<s[i], s[j]>> \in R
  <2>1. /\ s[i] \in S /\ s[j] \in S
        /\ Rank(s[i], S, R) = i - 1 /\ Rank(s[j], S, R) = j - 1
    BY <1>1
  <2>2. Rank(s[i], S, R) < Rank(s[j], S, R)
    BY <1>2, <2>1
  <2>3. CASE <<s[j], s[i]>> \in R
    <3>1. Rank(s[j], S, R) < Rank(s[i], S, R)
      BY <2>1, <2>3, RanksFollowOrder
    <3> QED BY <2>1, <2>2, <3>1
  <2>4. s[i] # s[j]
    BY <2>1, <1>2
  <2> QED BY <2>1, <2>3, <2>4 DEF Orders
<1>3. ASSUME NEW x \in S PROVE \E k \in 1..n : s[k] = x
  <2>1. Rank(x, S, R) \in 0..(n - 1)
    BY RanksFollowOrder DEF n
  <2> DEFINE k == Rank(x, S, R) + 1
  <2>2. k \in 1..n /\ k - 1 = Rank(x, S, R)
    BY <1>1, <2>1
  <2> HIDE DEF k
  <2>3. s[k] \in S /\ Rank(s[k], S, R) = Rank(x, S, R)
    BY <1>1, <2>2
  <2>4. s[k] = x
    BY <2>3, RanksFollowOrder
  <2> QED BY <2>2, <2>4
<1> QED BY <1>1, <1>2, <1>3 DEF s

\* The numbers of a finite set are ordered by <.
LEMMA NumbersAreOrdered ==
  ASSUME NEW S \in SUBSET Int
  PROVE  Orders({p \in S \X S : p[1] < p[2]}, S)
<1> DEFINE R == {p \in S \X S : p[1] < p[2]}
<1>1. ASSUME NEW x \in S, NEW y \in S PROVE <<x, y>> \in R <=> x < y
  OBVIOUS
<1> HIDE DEF R
<1>2. Orders(R, S)
  BY <1>1 DEF Orders
<1> QED BY <1>2 DEF R

\* A text has finitely many words, and a word is a positive number.
LEMMA TokensType ==
  ASSUME NEW text \in Seq(Int)
  PROVE  tokens(text) \in Seq(Nat \ {0})
<1> DEFINE found == {i \in DOMAIN text : text[i] # 0}
           order == InOrder(found, {p \in found \X found : p[1] < p[2]})
<1>1. found \in SUBSET Int /\ IsFiniteSet(found)
  <2>1. DOMAIN text = 1..Len(text) /\ Len(text) \in Nat
    OBVIOUS
  <2>2. IsFiniteSet(1..Len(text))
    BY <2>1, FS_Interval
  <2> QED BY <2>1, <2>2, FS_Subset
<1>2. order \in Seq(found)
  <2> HIDE DEF found
  <2> QED BY <1>1, InOrderType, NumbersAreOrdered
<1>3. ASSUME NEW i \in found PROVE text[i] \in Int /\ text[i] # 0
  OBVIOUS
<1>4. tokens(text)
        = [k \in DOMAIN order |-> IF text[order[k]] < 0 THEN -text[order[k]] ELSE text[order[k]]]
  BY DEF tokens
<1> HIDE DEF order, found
<1>5. DOMAIN order = 1..Len(order) /\ Len(order) \in Nat
  BY <1>2
<1>6. tokens(text) \in [1..Len(order) -> Nat \ {0}]
  <2>1. ASSUME NEW k \in 1..Len(order) PROVE order[k] \in found
    BY <1>2, <1>5
  <2> QED BY <1>3, <1>4, <1>5, <2>1
<1> QED BY <1>5, <1>6

\* The first n elements of a sequence, or all of them.
LEMMA FirstLength ==
  ASSUME NEW S, NEW s \in Seq(S), NEW n \in Nat
  PROVE  /\ First(s, n) \in Seq(S) /\ Len(First(s, n)) \in Nat
         /\ DOMAIN First(s, n) = 1..Len(First(s, n))
         /\ Len(First(s, n)) <= n /\ Len(First(s, n)) <= Len(s)
         /\ Len(First(s, n)) < Len(s) => Len(First(s, n)) = n
         /\ \A i \in 1..Len(First(s, n)) : First(s, n)[i] = s[i]
<1> DEFINE m == Min({n, Len(s)})
<1>1. m \in {n, Len(s)} /\ m <= n /\ m <= Len(s)
  <2>1. {n, Len(s)} \in SUBSET Nat /\ {n, Len(s)} # {}
    OBVIOUS
  <2>2. m \in {n, Len(s)} /\ \A y \in {n, Len(s)} : m <= y
    BY <2>1, MinOfNumbers
  <2> QED BY <2>2
<1>2. m \in Nat
  BY <1>1
<1>3. First(s, n) = SubSeq(s, 1, m)
  BY DEF First
<1> HIDE DEF m
<1>4. SubSeq(s, 1, m) \in Seq(S) /\ Len(SubSeq(s, 1, m)) = m
      /\ \A i \in 1..m : SubSeq(s, 1, m)[i] = s[i]
  BY <1>1, <1>2
<1> QED BY <1>1, <1>2, <1>3, <1>4

\* They are elements of it, no more than were asked for.
LEMMA FirstType ==
  ASSUME NEW S, NEW s \in Seq(S), NEW n \in Nat
  PROVE  /\ First(s, n) \in Seq(S) /\ Len(First(s, n)) \in 0..n
         /\ \A i \in DOMAIN First(s, n) : i \in DOMAIN s /\ First(s, n)[i] = s[i]
<1> DEFINE f == First(s, n)
<1>1. /\ f \in Seq(S) /\ Len(f) \in Nat /\ DOMAIN f = 1..Len(f)
      /\ Len(f) <= n /\ Len(f) <= Len(s) /\ \A i \in 1..Len(f) : f[i] = s[i]
  BY FirstLength
<1> HIDE DEF f
<1> QED BY <1>1 DEF f

\* What the model is given of a text: some of its words.
LEMMA TruncatedType ==
  ASSUME NEW text \in Seq(Int)
  PROVE  /\ Truncated(text) \in Seq(Nat \ {0}) /\ Len(Truncated(text)) \in 0..MaxLength
         /\ Range(Truncated(text)) \subseteq Range(tokens(text))
         /\ IsFiniteSet(Range(Truncated(text)))
<1>1. tokens(text) \in Seq(Nat \ {0})
  BY TokensType
<1>2. /\ Truncated(text) \in Seq(Nat \ {0}) /\ Len(Truncated(text)) \in 0..MaxLength
      /\ \A i \in DOMAIN Truncated(text) :
           i \in DOMAIN tokens(text) /\ Truncated(text)[i] = tokens(text)[i]
  BY <1>1, FirstType, LengthAssumption DEF Truncated
<1>3. Range(Truncated(text)) \subseteq Range(tokens(text))
  BY <1>2 DEF Range
<1>4. IsFiniteSet(Range(Truncated(text)))
  <2> DEFINE s == Truncated(text)
  <2>1. IsFiniteSet(DOMAIN s)
    <3>1. DOMAIN s = 1..Len(s) /\ Len(s) \in Nat
      BY <1>2
    <3> QED BY <3>1, FS_Interval
  <2>2. s \in Surjection(DOMAIN s, Range(s))
    <3>1. s = [i \in DOMAIN s |-> s[i]]
      BY <1>2
    <3> HIDE DEF s
    <3> QED BY <3>1 DEF Surjection, Range
  <2> HIDE DEF s
  <2>3. IsFiniteSet(Range(s))
    BY <2>1, <2>2, FS_Surjection
  <2> QED BY <2>3 DEF s
<1> QED BY <1>2, <1>3, <1>4

\* The words of some rows, finitely many, are ordered by what sorted() compares.
LEMMA WordsAreOrdered ==
  ASSUME NEW D, IsFiniteSet(D), NEW texts \in [D -> Seq(Int)]
  PROVE  /\ WordsOf(texts) \in SUBSET (Nat \ {0}) /\ IsFiniteSet(WordsOf(texts))
         /\ Orders(ComesBefore(texts), WordsOf(texts))
<1> DEFINE W == WordsOf(texts)
           Of(r) == Range(Truncated(texts[r]))
           of == [r \in D |-> Of(r)]
<1>1. ASSUME NEW r \in D
      PROVE  Of(r) \in SUBSET (Nat \ {0}) /\ IsFiniteSet(Of(r))
  <2>1. Truncated(texts[r]) \in Seq(Nat \ {0}) /\ IsFiniteSet(Of(r))
    BY TruncatedType
  <2> QED BY <2>1 DEF Range
<1>2. W = UNION {Of(r) : r \in D}
  BY DEF WordsOf
<1> HIDE DEF Of, W
<1>3. W \in SUBSET (Nat \ {0})
  BY <1>1, <1>2
<1>4. IsFiniteSet(W)
  <2> DEFINE sets == {Of(r) : r \in D}
  <2>1. of \in Surjection(D, sets)
    BY DEF Surjection
  <2>2. IsFiniteSet(sets) /\ \A T \in sets : IsFiniteSet(T)
    <3>1. \A T \in sets : IsFiniteSet(T)
      BY <1>1
    <3> HIDE DEF sets, of
    <3> QED BY <2>1, <3>1, FS_Surjection
  <2>3. W = UNION sets
    BY <1>2
  <2> HIDE DEF sets
  <2> QED BY <2>2, <2>3, FS_UNION
<1>5. ASSUME NEW w PROVE Count(texts, w) \in Nat
  <2> DEFINE P == D \X (1..MaxLength)
             Q == {p \in P : LET t == Truncated(texts[p[1]]) IN p[2] \in DOMAIN t /\ t[p[2]] = w}
  <2>1. IsFiniteSet(1..MaxLength)
    BY FS_Interval, LengthAssumption
  <2>2. IsFiniteSet(P)
    BY <2>1, FS_Product
  <2>3. Q \in SUBSET P
    OBVIOUS
  <2>4. Count(texts, w) = Cardinality(Q)
    BY DEF Count
  <2> HIDE DEF P, Q
  <2> QED BY <2>2, <2>3, <2>4, FS_Subset, FS_CardinalityType
<1>6. Orders(ComesBefore(texts), W)
  <2> DEFINE R == ComesBefore(texts)
  <2>1. ASSUME NEW v \in W, NEW w \in W
        PROVE  <<v, w>> \in R <=> \/ Count(texts, v) > Count(texts, w)
                                  \/ Count(texts, v) = Count(texts, w) /\ v < w
    BY DEF ComesBefore, W
  <2> HIDE DEF R
  <2>2. \A v, w \in W : v \in Int /\ w \in Int
    BY <1>3
  <2>3. Orders(R, W)
    BY <1>5, <2>1, <2>2 DEF Orders
  <2> QED BY <2>3 DEF R
<1> QED BY <1>3, <1>4, <1>6 DEF W

\* The vocabulary of some rows: words of theirs, no more than MaxWords.
LEMMA VocabularyType ==
  ASSUME NEW D, IsFiniteSet(D), NEW texts \in [D -> Seq(Int)]
  PROVE  /\ vocabulary(texts) \in Seq(WordsOf(texts))
         /\ Len(vocabulary(texts)) \in 0..MaxWords
<1> DEFINE s == InOrder(WordsOf(texts), ComesBefore(texts))
<1>1. s \in Seq(WordsOf(texts))
  BY WordsAreOrdered, InOrderType
<1>2. vocabulary(texts) = First(s, MaxWords)
  BY DEF vocabulary
<1> HIDE DEF s
<1> QED BY <1>1, <1>2, FirstType, LengthAssumption

\* vocabulary() takes the most frequent words, of equally frequent ones the first in
\* the alphabet: none twice, in this order, and none is left out while there is room.
THEOREM VocabularyIsByFrequency ==
  ASSUME NEW D, IsFiniteSet(D), NEW texts \in [D -> Seq(Int)]
  PROVE  LET v == vocabulary(texts)
         IN /\ \A i, j \in DOMAIN v : i < j => <<v[i], v[j]>> \in ComesBefore(texts)
            /\ \A w \in WordsOf(texts) :
                 \/ \E i \in DOMAIN v : v[i] = w
                 \/ /\ Len(v) = MaxWords
                    /\ \A i \in DOMAIN v : <<v[i], w>> \in ComesBefore(texts)
<1> DEFINE W == WordsOf(texts)
           R == ComesBefore(texts)
           s == InOrder(W, R)
           v == vocabulary(texts)
<1>1. s \in Seq(W)
  BY WordsAreOrdered, InOrderType
<1>2. /\ \A w \in W : \E k \in DOMAIN s : s[k] = w
      /\ \A i, j \in DOMAIN s : i < j => <<s[i], s[j]>> \in R
  BY WordsAreOrdered, InOrderIsOrdered
<1>3. v = First(s, MaxWords)
  BY DEF vocabulary
<1> HIDE DEF s, v, W, R
<1>4. /\ v \in Seq(W) /\ Len(v) \in Nat /\ DOMAIN v = 1..Len(v) /\ Len(v) <= Len(s)
      /\ \A i \in 1..Len(v) : v[i] = s[i]
  BY <1>1, <1>3, FirstLength, LengthAssumption
<1>5. Len(v) < Len(s) => Len(v) = MaxWords
  BY <1>1, <1>3, FirstLength, LengthAssumption
<1>6. ASSUME NEW i \in DOMAIN v
      PROVE  i \in Nat /\ i <= Len(v) /\ i \in DOMAIN s /\ v[i] = s[i]
  BY <1>1, <1>4
<1>7. ASSUME NEW k \in DOMAIN s
      PROVE  k \in Nat /\ k <= Len(s) /\ (k <= Len(v) => k \in DOMAIN v)
  BY <1>1, <1>4
<1>8. \A i, j \in DOMAIN v : i < j => <<v[i], v[j]>> \in R
  BY <1>2, <1>6
<1>9. ASSUME NEW w \in W, \A i \in DOMAIN v : v[i] # w
      PROVE  Len(v) = MaxWords /\ \A i \in DOMAIN v : <<v[i], w>> \in R
  <2>1. PICK k \in DOMAIN s : s[k] = w
    BY <1>2
  <2>2. k \in Nat /\ k > Len(v) /\ k <= Len(s) /\ Len(v) < Len(s)
    BY <1>1, <1>4, <1>6, <1>7, <1>9, <2>1
  <2>3. Len(v) = MaxWords
    BY <1>5, <2>2
  <2>4. ASSUME NEW i \in DOMAIN v PROVE <<v[i], w>> \in R
    <3>1. i \in DOMAIN s /\ v[i] = s[i] /\ i < k
      BY <1>4, <1>6, <2>2
    <3> QED BY <1>2, <2>1, <3>1
  <2> QED BY <2>3, <2>4
<1> QED BY <1>8, <1>9 DEF v, W, R

\* An encoded text is not empty, not longer than MaxLength or 1, and has no padding.
LEMMA EncodeType ==
  ASSUME NEW text \in Seq(Int), NEW known, NEW S, known \in Seq(S)
  PROVE  /\ encode(text, known) \in Seq(Nat \ {0})
         /\ encode(text, known) # << >> /\ Len(encode(text, known)) \in 0..(MaxLength + 1)
<1>1. ASSUME NEW w PROVE Index(known, w) \in Nat \ {0}
  <2>1. CASE w \in Range(known)
    <3>1. \E i \in DOMAIN known : known[i] = w
      BY <2>1 DEF Range
    <3>2. (CHOOSE i \in DOMAIN known : known[i] = w) \in DOMAIN known
      BY <3>1
    <3> DEFINE i == CHOOSE i \in DOMAIN known : known[i] = w
    <3>3. i \in Nat
      BY <3>2
    <3>4. Index(known, w) = 1 + i
      BY <2>1 DEF Index
    <3> HIDE DEF i
    <3> QED BY <3>3, <3>4
  <2>2. CASE w \notin Range(known)
    BY <2>2 DEF Index, UNK
  <2> QED BY <2>1, <2>2
<1> DEFINE t == Truncated(text)
           e == [i \in DOMAIN t |-> Index(known, t[i])]
<1>2. t \in Seq(Nat \ {0}) /\ Len(t) \in 0..MaxLength
  BY TruncatedType
<1> HIDE DEF t
<1>3. DOMAIN t = 1..Len(t) /\ Len(t) \in Nat
  BY <1>2
<1>4. e \in Seq(Nat \ {0}) /\ Len(e) = Len(t)
  <2>1. e \in [1..Len(t) -> Nat \ {0}]
    BY <1>1, <1>3
  <2> HIDE DEF e
  <2> QED BY <1>3, <2>1
<1>5. encode(text, known) = OrUnknown(e)
  BY DEF encode, t
<1> HIDE DEF e
<1>6. <<UNK>> \in Seq(Nat \ {0}) /\ <<UNK>> # << >> /\ Len(<<UNK>>) = 1
  BY DEF UNK
<1>7. CASE e = << >>
  <2>1. encode(text, known) = <<UNK>>
    BY <1>5, <1>7 DEF OrUnknown
  <2>2. 1 \in 0..(MaxLength + 1)
    BY LengthAssumption
  <2> QED BY <1>6, <2>1, <2>2
<1>8. CASE e # << >>
  <2>1. encode(text, known) = e
    BY <1>5, <1>8 DEF OrUnknown
  <2>2. Len(e) \in 0..(MaxLength + 1)
    BY <1>2, <1>4, LengthAssumption
  <2> QED BY <1>4, <1>8, <2>1, <2>2
<1> QED BY <1>7, <1>8

\* Padding is not pooled.
LEMMA PaddingIsNotPooled ==
  ASSUME NEW e \in Seq(Nat \ {0}), NEW k \in Nat
  PROVE  Pooled(e \o [j \in 1..k |-> PAD]) = Pooled(e)
<1> DEFINE pad == [j \in 1..k |-> PAD]
           z == e \o pad
<1>1. pad \in Seq({PAD}) /\ Len(pad) = k
  OBVIOUS
<1>2. /\ DOMAIN z = 1..(Len(e) + k) /\ DOMAIN e = 1..Len(e) /\ Len(e) \in Nat
      /\ \A i \in 1..Len(e) : z[i] = e[i] /\ e[i] # PAD
      /\ \A i \in (Len(e) + 1)..(Len(e) + k) : z[i] = PAD
  BY <1>1 DEF PAD
<1> HIDE DEF z
<1>3. ASSUME NEW id, id # PAD
      PROVE  {j \in DOMAIN z : z[j] = id} = {j \in DOMAIN e : e[j] = id}
  BY <1>2, <1>3
<1>4. Mask(z) = Mask(e)
  BY <1>2 DEF Mask
<1>5. Range(z) \ {PAD} = Range(e) \ {PAD}
  BY <1>2 DEF Range
<1>6. Pooled(z) = Pooled(e)
  BY <1>3, <1>4, <1>5 DEF Pooled
<1> QED BY <1>6 DEF z

-----------------------------------------------------------------------------
(* Corpora                                                                 *)

\* The rows of a corpus are numbered, and finitely many.
LEMMA RowsAreFinite ==
  ASSUME rows \in RowSequences
  PROVE  /\ DOMAIN rows \in SUBSET Nat /\ IsFiniteSet(DOMAIN rows)
         /\ Unique \in SUBSET DOMAIN rows
         /\ Len(rows) \in Nat /\ Cardinality(DOMAIN rows) = Len(rows)
         /\ \A r \in DOMAIN rows : rows[r].text \in Seq(Int)
<1>1. rows \in Seq(Range(rows)) /\ \A r \in DOMAIN rows : rows[r].text \in Seq(Int)
  BY RowAssumption
<1>2. Len(rows) \in Nat /\ DOMAIN rows = 1..Len(rows)
  BY <1>1
<1>3. IsFiniteSet(DOMAIN rows) /\ Cardinality(DOMAIN rows) = Len(rows)
  <2> DEFINE n == Len(rows)
  <2>1. n \in Nat
    BY <1>2
  <2> HIDE DEF n
  <2>2. IsFiniteSet(1..n) /\ Cardinality(1..n) = n
    BY <2>1, FS_Interval
  <2> QED BY <1>2, <2>2 DEF n
<1> QED BY <1>1, <1>2, <1>3 DEF Unique

\* How many rows split_rows() reports as removed.
LEMMA RemovedRows ==
  ASSUME rows \in RowSequences
  PROVE  Len(rows) - Cardinality(Unique) \in 0..Len(rows)
<1>1. Cardinality(Unique) \in Nat /\ Cardinality(Unique) <= Len(rows)
  BY RowsAreFinite, FS_Subset, FS_CardinalityType
<1> QED BY <1>1, RowsAreFinite

\* The vocabulary of some rows is of words that they have.
LEMMA VocabularyOfRows ==
  ASSUME rows \in RowSequences, NEW S \in SUBSET DOMAIN rows
  PROVE  LET known == vocabulary([r \in S |-> rows[r].text])
         IN Len(known) \in 0..MaxWords /\ known \in Seq(UNION {Range(Key(r)) : r \in S})
<1> DEFINE texts == [r \in S |-> rows[r].text]
           W == UNION {Range(Key(r)) : r \in S}
<1>1. texts \in [S -> Seq(Int)] /\ IsFiniteSet(S)
  BY RowsAreFinite, FS_Subset
<1>2. vocabulary(texts) \in Seq(WordsOf(texts)) /\ Len(vocabulary(texts)) \in 0..MaxWords
  <2> HIDE DEF texts
  <2> QED BY <1>1, VocabularyType
<1>3. WordsOf(texts) \subseteq W
  <2>1. ASSUME NEW r \in S PROVE Range(Truncated(texts[r])) \subseteq Range(Key(r))
    BY RowsAreFinite, TruncatedType DEF Key
  <2>2. WordsOf(texts) = UNION {Range(Truncated(texts[r])) : r \in S}
    BY DEF WordsOf
  <2> HIDE DEF texts
  <2> QED BY <2>1, <2>2
<1> HIDE DEF texts, W
<1>4. vocabulary(texts) \in Seq(W)
  BY <1>2, <1>3
<1> QED BY <1>2, <1>4 DEF texts, W

\* Of two kept rows that read the same each is the first of the same group.
LEMMA UniqueRowsDiffer ==
  ASSUME rows \in RowSequences, NEW r \in Unique, NEW s \in Unique, Key(r) = Key(s)
  PROVE  r = s
BY DEF Unique, IsUnique, Group

\* What is kept of the rows that read like one of them.
LEMMA KeptOfGroup ==
  ASSUME rows \in RowSequences, NEW r \in DOMAIN rows
  PROVE  Cardinality(Group(r) \cap Unique)
           = IF Key(r) # << >> /\ \A s \in Group(r) : rows[s].label = rows[r].label
             THEN 1 ELSE 0
<1> DEFINE m == Min(Group(r))
<1>1. m \in Group(r)
  BY RowsAreFinite, MinOfNumbers DEF Group
<1>2. ASSUME NEW s \in Group(r)
      PROVE  s \in DOMAIN rows /\ Key(s) = Key(r) /\ Group(s) = Group(r)
  BY DEF Group
<1> HIDE DEF m
<1>3. CASE Key(r) # << >> /\ \A s \in Group(r) : rows[s].label = rows[r].label
  <2>1. m \in Unique
    BY <1>1, <1>2, <1>3 DEF Unique, IsUnique, m
  <2>2. ASSUME NEW s \in Group(r) \cap Unique PROVE s = m
    BY <1>2 DEF Unique, IsUnique, m
  <2>3. Group(r) \cap Unique = {m}
    BY <1>1, <2>1, <2>2
  <2> QED BY <1>3, <2>3, FS_Singleton
<1>4. CASE ~(Key(r) # << >> /\ \A s \in Group(r) : rows[s].label = rows[r].label)
  <2>1. ASSUME NEW s \in Group(r) \cap Unique PROVE FALSE
    <3>1. /\ Key(r) # << >>
          /\ \A u \in Group(r) : rows[u].label = rows[s].label
      BY <1>2 DEF Unique, IsUnique
    <3>2. r \in Group(r)
      BY DEF Group
    <3> QED BY <3>1, <3>2, <1>4
  <2>2. Group(r) \cap Unique = {}
    BY <2>1
  <2> QED BY <1>4, <2>2, FS_EmptySet
<1> QED BY <1>3, <1>4

\* The rows of a stratum and its parts are finitely many.
LEMMA StratumIsFinite ==
  ASSUME rows \in RowSequences, NEW S \in SUBSET DOMAIN rows, NEW r \in S
  PROVE  /\ r \in Stratum(r, S) /\ IsFiniteSet(Stratum(r, S))
         /\ Cardinality(Stratum(r, S)) \in Nat \ {0}
<1>1. IsFiniteSet(S)
  BY RowsAreFinite, FS_Subset
<1>2. r \in Stratum(r, S) /\ Stratum(r, S) \subseteq S
  BY DEF Stratum
<1>3. IsFiniteSet(Stratum(r, S))
  BY <1>1, <1>2, FS_Subset
<1> QED BY <1>2, <1>3, FS_EmptySet, FS_CardinalityType

\* The cuts leave something of every stratum that has rows.
LEMMA SomethingIsHeldOut ==
  ASSUME NEW n \in Nat \ {0}
  PROVE  ValidationEnd(n) # n
<1>1. n \in Nat /\ n > 0 /\ 17 * n < 20 * n
  OBVIOUS
<1>2. (17 * n) \div 20 < n
  BY <1>1
<1> QED BY <1>2 DEF ValidationEnd

-----------------------------------------------------------------------------
(* The steps                                                               *)

\* Splitting keeps exactly the unique rows, before any row is fitted.
LEMMA SplitStep ==
  ASSUME DataInv, Split PROVE DataInv'
<1> USE DEF DataInv, Split
<1>1. Unique' = Unique /\ \A f : IsCut(f)' <=> IsCut(f)
  BY DEF Unique, IsUnique, Group, Key, IsCut, Stratum
<1>2. /\ Unique' # {} /\ split' \in [Unique' -> Parts]
      /\ IsCut(split')
  BY <1>1 DEF Parts
<1>3. profile = "none" /\ fitted = {}
  BY DEF FittedRepresentTheSplit, In
<1>4. FittedRepresentTheSplit'
  BY <1>3 DEF FittedRepresentTheSplit
<1>5. rows' \in RowSequences /\ profile' = "none" /\ IsCut(split)'
  BY <1>2, <1>3 DEF IsCut, Stratum
<1>6. removed' \in 0..Len(rows)'
  BY RemovedRows
<1>7. Len(words)' \in 0..MaxWords /\ words' \in Seq(UNION {Range(Key(r)') : r \in fitted'})
  BY DEF Key
<1> QED BY <1>2, <1>4, <1>5, <1>6, <1>7

\* What is fitted is the training split, or some of every stratum of it.
LEMMA FitStep ==
  ASSUME DataInv, Fit PROVE DataInv'
<1> USE DEF DataInv, Fit
<1> DEFINE train == In("train")
<1>1. split \in [Unique -> Parts] /\ train \in SUBSET Unique
  BY DEF In
<1>2. train \in SUBSET DOMAIN rows
  BY <1>1, RowsAreFinite
<1>3. /\ Unique' = Unique /\ (IsCut(split)' <=> IsCut(split)) /\ In("train")' = train
      /\ \A r : Stratum(r, train)' = Stratum(r, train)
  BY DEF Unique, IsUnique, Group, Key, IsCut, Stratum, In
<1>4. fitted' \subseteq train /\ \A r \in train : \E s \in fitted' : s \in Stratum(r, train)
  <2>1. CASE fitted' = train
    BY <2>1, <1>2, StratumIsFinite
  <2>2. CASE IsSample(fitted')
    <3>1. fitted' \subseteq train
      BY <2>2 DEF IsSample, IsSampleOf
    <3>2. ASSUME NEW r \in train PROVE Stratum(r, train) \cap fitted' # {}
      <4> DEFINE n == Cardinality(Stratum(r, train))
      <4>1. Cardinality(Stratum(r, train) \cap fitted') = Min({Sample, n})
        BY <2>2 DEF IsSample, IsSampleOf
      <4>2. n \in Nat \ {0}
        BY <1>2, StratumIsFinite
      <4> HIDE DEF n
      <4>3. Min({Sample, n}) \in {Sample, n}
        BY <4>2, SampleAssumption, MinOfNumbers
      <4>4. Cardinality(Stratum(r, train) \cap fitted') # 0
        BY <4>1, <4>2, <4>3, SampleAssumption
      <4> QED BY <4>4, FS_EmptySet
    <3> QED BY <3>1, <3>2
  <2> QED BY <2>1, <2>2
<1>5. FittedRepresentTheSplit'
  BY <1>3, <1>4 DEF FittedRepresentTheSplit
<1>6. split # << >>
  BY DEF In
<1>7. Len(words)' \in 0..MaxWords /\ words' \in Seq(UNION {Range(Key(r)') : r \in fitted'})
  <2>1. fitted' \in SUBSET DOMAIN rows
    BY <1>2, <1>4
  <2>2. words' = vocabulary([r \in fitted' |-> rows[r].text])
    BY DEF VocabularyRows
  <2>3. LET known == vocabulary([r \in fitted' |-> rows[r].text])
        IN Len(known) \in 0..MaxWords /\ known \in Seq(UNION {Range(Key(r)) : r \in fitted'})
    BY <2>1, VocabularyOfRows
  <2> QED BY <2>2, <2>3 DEF Key
<1>8. rows' \in RowSequences /\ removed' \in 0..Len(rows)' /\ profile' \in {"none", "small", "full"}
  OBVIOUS
<1> QED BY <1>1, <1>3, <1>5, <1>6, <1>7, <1>8

-----------------------------------------------------------------------------

\* DataInv is an invariant.
THEOREM DataInvariance == Spec => []DataInv
<1>1. Init => DataInv
  BY RowsAreFinite, LengthAssumption DEF Init, DataInv, FittedRepresentTheSplit, In
<1>2. DataInv /\ [Next]_vars => DataInv'
  <2> SUFFICES ASSUME DataInv, [Next]_vars PROVE DataInv'
    OBVIOUS
  <2>1. CASE Split BY <2>1, SplitStep
  <2>2. CASE Fit BY <2>2, FitStep
  <2>3. CASE UNCHANGED vars
    <3> USE <2>3 DEF vars
    <3>1. Unique' = Unique /\ (IsCut(split)' <=> IsCut(split))
      BY DEF Unique, IsUnique, Group, Key, IsCut, Stratum
    <3>2. FittedRepresentTheSplit' <=> FittedRepresentTheSplit
      BY DEF FittedRepresentTheSplit, In, Stratum
    <3>3. Len(words)' \in 0..MaxWords /\ words' \in Seq(UNION {Range(Key(r)') : r \in fitted'})
      BY DEF DataInv, Key
    <3> QED BY <3>1, <3>2, <3>3 DEF DataInv
  <2> QED BY <2>1, <2>2, <2>3 DEF Next
<1> QED BY <1>1, <1>2, PTL DEF Spec

\* The split does not leak (split_rows(), small_subset()): no two kept rows read the
\* same, of every sentence whose labels agree exactly one row is kept and of the others
\* none, and what is fitted is of the training split and of all its strata.
THEOREM NoLeakage == Spec => []SplitIsSound
<1>1. DataInv => SplitIsSound
  <2> SUFFICES ASSUME DataInv PROVE SplitIsSound
    OBVIOUS
  <2> USE DEF DataInv
  <2>1. SplitsShareNoSentence
    BY UniqueRowsDiffer DEF SplitsShareNoSentence
  <2>2. KeptUnlessConflicting
    BY KeptOfGroup DEF KeptUnlessConflicting
  <2> QED BY <2>1, <2>2 DEF SplitIsSound
<1> QED BY <1>1, DataInvariance, PTL

\* Whatever the size of a stratum is, the cuts leave a row of it for the test.
THEOREM StrataAreTested == Spec => []EveryStratumIsTested
<1>1. DataInv => EveryStratumIsTested
  <2> SUFFICES ASSUME DataInv, NEW r \in DOMAIN split,
                      \A s \in Stratum(r, DOMAIN split) : split[s] # "test"
               PROVE  FALSE
    BY DEF EveryStratumIsTested
  <2> USE DEF DataInv
  <2> DEFINE stratum == Stratum(r, DOMAIN split)
             Part(name) == {s \in stratum : split[s] = name}
             n == Cardinality(stratum)
  <2>1. /\ split \in [Unique -> Parts] /\ IsCut(split) /\ rows \in RowSequences
        /\ DOMAIN split \in SUBSET DOMAIN rows
    BY RowsAreFinite
  <2>2. n \in Nat \ {0} /\ IsFiniteSet(stratum) /\ stratum \subseteq DOMAIN split
    BY <2>1, StratumIsFinite DEF Stratum
  <2>3. /\ Cardinality(Part("train")) = TrainEnd(n)
        /\ Cardinality(Part("validation")) = ValidationEnd(n) - TrainEnd(n)
    BY <2>1 DEF IsCut
  <2>4. IsFiniteSet(Part("train")) /\ IsFiniteSet(Part("validation"))
    BY <2>2, FS_Subset
  <2>5. /\ stratum = Part("train") \cup Part("validation")
        /\ Part("train") \cap Part("validation") = {}
    BY <2>1, <2>2 DEF Parts
  <2> HIDE DEF stratum, Part, n
  <2>6. /\ Cardinality(Part("train")) \in Nat /\ Cardinality(Part("validation")) \in Nat
        /\ Cardinality(Part("train") \cap Part("validation")) = 0
        /\ n = Cardinality(Part("train")) + Cardinality(Part("validation"))
                 - Cardinality(Part("train") \cap Part("validation"))
    BY <2>4, <2>5, FS_Union, FS_CardinalityType, FS_EmptySet DEF n
  <2>7. ValidationEnd(n) \in Int
    BY <2>2 DEF ValidationEnd
  <2>8. ValidationEnd(n) = n
    BY <2>2, <2>3, <2>6, <2>7
  <2> QED BY <2>2, <2>8, SomethingIsHeldOut
<1> QED BY <1>1, DataInvariance, PTL

\* Whatever the texts are and however long, what the model sees is that of the fitted
\* rows, row by row (tokens(), build_vocabulary(), encode(), padded_batch()): it knows
\* no word of a held-out row, and no row is pooled differently for the batch it is in.
THEOREM TextIsOfItsRow == Spec => []TextIsSound
<1>1. DataInv => TextIsSound
  <2> SUFFICES ASSUME DataInv PROVE TextIsSound
    OBVIOUS
  <2> USE DEF DataInv
  <2>1. TypeOK
    <3>1. split \in UNION {[S -> Parts] : S \in SUBSET DOMAIN rows}
      <4>1. CASE split = << >>
        <5>1. split \in [{} -> Parts]
          BY <4>1
        <5> QED BY <5>1
      <4>2. CASE split # << >>
        BY <4>2, RowsAreFinite
      <4> QED BY <4>1, <4>2
    <3>2. fitted \subseteq In("train")
      BY DEF FittedRepresentTheSplit
    <3> QED BY <3>1, <3>2 DEF TypeOK, Parts
  <2>2. VocabularyIsOfFittedRows
    <3> DEFINE W == UNION {Range(Key(r)) : r \in fitted}
    <3>1. words \in Seq(W)
      OBVIOUS
    <3> HIDE DEF W
    <3>2. Range(words) \subseteq W
      BY <3>1 DEF Range
    <3> QED BY <3>2 DEF VocabularyIsOfFittedRows, W
  <2>3. BatchesDoNotMix
    <3> SUFFICES ASSUME profile # "none", NEW r \in DOMAIN rows
                 PROVE  LET encoded == [s \in DOMAIN rows |-> encode(rows[s].text, words)]
                            batch == padded_batch(encoded)
                        IN /\ Pooled(batch[r]) = Pooled(encoded[r])
                           /\ encoded[r] # << >> /\ PAD \notin Range(encoded[r])
      BY DEF BatchesDoNotMix
    <3> DEFINE encoded == [s \in DOMAIN rows |-> encode(rows[s].text, words)]
               widths == {Len(encoded[s]) : s \in DOMAIN rows}
               k == Max(widths) - Len(encoded[r])
    <3>1. ASSUME NEW s \in DOMAIN rows
          PROVE  /\ encoded[s] \in Seq(Nat \ {0}) /\ encoded[s] # << >>
                 /\ Len(encoded[s]) \in 0..(MaxLength + 1)
      BY RowsAreFinite, EncodeType
    <3>2. padded_batch(encoded)[r] = encoded[r] \o [j \in 1..k |-> PAD]
      BY DEF padded_batch
    <3> HIDE DEF encoded
    <3>3. Max(widths) \in widths /\ \A y \in widths : Max(widths) >= y
      <4>1. widths \in SUBSET (0..(MaxLength + 1)) /\ widths # {} /\ MaxLength + 1 \in Nat
        <5>1. MaxLength + 1 \in Nat
          BY LengthAssumption
        <5>2. \A y \in widths : y \in 0..(MaxLength + 1)
          BY <3>1
        <5>3. Len(encoded[r]) \in widths
          OBVIOUS
        <5> HIDE DEF widths
        <5> QED BY <5>1, <5>2, <5>3
      <4> HIDE DEF widths
      <4> QED BY <4>1, MaxOfNumbers
    <3>4. k \in Nat
      <4> DEFINE m == Max(widths)
      <4>1. m \in Nat /\ m >= Len(encoded[r]) /\ Len(encoded[r]) \in Nat
        <5>1. \A y \in widths : y \in Nat
          BY <3>1
        <5>2. Len(encoded[r]) \in widths
          OBVIOUS
        <5> HIDE DEF widths
        <5> QED BY <3>3, <5>1, <5>2
      <4> HIDE DEF m
      <4>2. m - Len(encoded[r]) \in Nat
        BY <4>1
      <4> QED BY <4>2 DEF m
    <3> HIDE DEF widths, k
    <3>5. Pooled(padded_batch(encoded)[r]) = Pooled(encoded[r])
      BY <3>1, <3>2, <3>4, PaddingIsNotPooled
    <3>6. encoded[r] # << >> /\ PAD \notin Range(encoded[r])
      <4>1. encoded[r] \in Seq(Nat \ {0}) /\ encoded[r] # << >>
        BY <3>1
      <4> QED BY <4>1 DEF Range, PAD
    <3> QED BY <3>5, <3>6 DEF encoded
  <2> QED BY <2>1, <2>2, <2>3 DEF TextIsSound
<1> QED BY <1>1, DataInvariance, PTL
=============================================================================
