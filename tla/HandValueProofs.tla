--------------------------- MODULE HandValueProofs ---------------------------
(***************************************************************************)
(* value_of_hand is worth the best five cards for every hand of five to    *)
(* seven cards of the whole deck, not only for those TLC draws.  Five      *)
(* cards share their ranks in one of six ways, and for each the rule of    *)
(* the game gives a category and a tie-break.  No five cards of a hand are *)
(* worth more than the hand: their category is one that value_of_hand      *)
(* finds at the latest, and for the same category their tie-break is drawn *)
(* from fewer ranks.  And some five are worth as much: from what made      *)
(* value_of_hand choose a category, five cards of that worth are picked.   *)
(***************************************************************************)
EXTENDS HandValue, FiniteSetTheorems, SequenceTheorems, TLAPS

-----------------------------------------------------------------------------
(* The order of a finite set of numbers, and its n highest *)

AboveIn(S, r) == {higher \in S : higher > r}

\* The lower of two numbers has more of the set above it.
LEMMA LowerHasMoreAbove ==
    ASSUME NEW S \in SUBSET Int, IsFiniteSet(S), NEW a \in S, NEW b \in S, a < b
    PROVE  Cardinality(AboveIn(S, b)) < Cardinality(AboveIn(S, a))
<1>1. AboveIn(S, b) \in SUBSET S /\ AboveIn(S, a) \in SUBSET S
  BY DEF AboveIn
<1>2. IsFiniteSet(AboveIn(S, b)) /\ IsFiniteSet(AboveIn(S, a))
  BY <1>1, FS_Subset
<1>3. b \notin AboveIn(S, b) /\ AboveIn(S, b) \cup {b} \in SUBSET AboveIn(S, a)
  <2>1. a \in Int /\ b \in Int /\ \A n \in S : n \in Int
    OBVIOUS
  <2>2. b \notin AboveIn(S, b) /\ b \in AboveIn(S, a)
    BY <2>1 DEF AboveIn
  <2>3. ASSUME NEW n \in AboveIn(S, b) PROVE n \in AboveIn(S, a)
    <3>1. n \in S /\ n \in Int /\ n > b
      BY <2>1 DEF AboveIn
    <3>2. n > a
      BY <2>1, <3>1
    <3>3. QED
      BY <3>1, <3>2 DEF AboveIn
  <2>4. QED
    BY <2>2, <2>3
<1>4. Cardinality(AboveIn(S, b) \cup {b}) = Cardinality(AboveIn(S, b)) + 1
  BY <1>2, <1>3, FS_AddElement
<1>5. Cardinality(AboveIn(S, b) \cup {b}) <= Cardinality(AboveIn(S, a))
  BY <1>2, <1>3, FS_Subset
<1>6. QED
  BY <1>2, <1>4, <1>5, FS_CardinalityType

\* For each k below its size, a set has one number with exactly k above it.
LEMMA Positions ==
    ASSUME NEW S \in SUBSET Int, IsFiniteSet(S), NEW k \in 0 .. Cardinality(S) - 1
    PROVE  \E r \in S : Cardinality(AboveIn(S, r)) = k
<1> DEFINE size == Cardinality(S)
           f == [r \in S |-> Cardinality(AboveIn(S, r))]
<1>1. size \in Nat \ {0}
  BY FS_CardinalityType
<1>2. ASSUME NEW r \in S PROVE f[r] \in 0 .. size - 1
  <2>1. AboveIn(S, r) \in SUBSET (S \ {r})
    BY DEF AboveIn
  <2>2. IsFiniteSet(S \ {r}) /\ Cardinality(S \ {r}) = size - 1
    BY FS_RemoveElement
  <2>3. IsFiniteSet(AboveIn(S, r)) /\ Cardinality(AboveIn(S, r)) <= size - 1
    BY <2>1, <2>2, FS_Subset
  <2>4. QED
    BY <1>1, <2>3, FS_CardinalityType
<1>3. IsFiniteSet(0 .. size - 1) /\ Cardinality(0 .. size - 1) = size
  BY <1>1, FS_Interval
<1>4. ASSUME NEW a \in S, NEW b \in S, f[a] = f[b] PROVE a = b
  <2>1. a \in Int /\ b \in Int /\ f[a] \in Nat
    BY <1>2
  <2>2. ~ (a < b) /\ ~ (b < a)
    BY <1>4, <2>1, LowerHasMoreAbove
  <2>3. QED
    BY <2>1, <2>2
<1> HIDE DEF f
<1>5. f \in [S -> 0 .. size - 1]
  BY <1>2 DEF f
<1>6. f \in Injection(S, 0 .. size - 1)
  BY <1>4, <1>5 DEF Injection, IsInjective
<1>7. f \in Surjection(S, 0 .. size - 1)
  BY <1>3, <1>6, FS_Injection
<1>8. PICK r \in S : f[r] = k
  BY <1>7 DEF Surjection
<1>9. QED
  BY <1>8 DEF f

\* A set of numbers that is not empty has a lowest and a highest one.
LEMMA LowestExists ==
    ASSUME NEW S \in SUBSET Int, IsFiniteSet(S), S # {}
    PROVE  \E m \in S : \A n \in S : m <= n
<1>1. Cardinality(S) \in Nat /\ Cardinality(S) # 0
  BY FS_CardinalityType, FS_EmptySet
<1>2. PICK m \in S : Cardinality(AboveIn(S, m)) = Cardinality(S) - 1
  BY <1>1, Positions
<1>3. ASSUME NEW n \in S, n < m PROVE FALSE
  <2>1. Cardinality(AboveIn(S, m)) < Cardinality(AboveIn(S, n))
    BY <1>3, LowerHasMoreAbove
  <2>2. AboveIn(S, n) \in SUBSET (S \ {n})
    BY DEF AboveIn
  <2>3. IsFiniteSet(S \ {n}) /\ Cardinality(S \ {n}) = Cardinality(S) - 1
    BY FS_RemoveElement
  <2>4. IsFiniteSet(AboveIn(S, n)) /\ Cardinality(AboveIn(S, n)) <= Cardinality(S) - 1
    BY <2>2, <2>3, FS_Subset
  <2>5. QED
    BY <1>1, <1>2, <2>1, <2>4, FS_CardinalityType
<1>4. QED
  BY <1>3

LEMMA HighestOfIsHighest ==
    ASSUME NEW S \in SUBSET Int, IsFiniteSet(S), S # {}
    PROVE  HighestOf(S) \in S /\ \A n \in S : n <= HighestOf(S)
<1>1. Cardinality(S) \in Nat /\ Cardinality(S) # 0
  BY FS_CardinalityType, FS_EmptySet
<1>2. PICK m \in S : Cardinality(AboveIn(S, m)) = 0
  BY <1>1, Positions
<1>3. AboveIn(S, m) \in SUBSET S
  BY DEF AboveIn
<1>4. AboveIn(S, m) = {}
  BY <1>2, <1>3, FS_Subset, FS_EmptySet
<1>5. \A n \in S : n <= m
  BY <1>4 DEF AboveIn
<1>6. QED
  BY <1>5 DEF HighestOf

\* t is the n highest numbers of S, in descending order.
IsTop(t, n, S) ==
    /\ t \in Seq(S)
    /\ Len(t) = IF n < Cardinality(S) THEN n ELSE Cardinality(S)
    /\ \A i, j \in 1 .. Len(t) : i < j => t[j] < t[i]
    /\ \A r \in S : (\E i \in 1 .. Len(t) : t[i] = r) \/ (\A i \in 1 .. Len(t) : r < t[i])

LEMMA HighestIsTop ==
    ASSUME NEW S \in SUBSET Int, IsFiniteSet(S), NEW n \in Nat
    PROVE  IsTop(Highest(n, S), n, S)
<1> DEFINE size == Cardinality(S)
           len == IF n < size THEN n ELSE size
           t == [i \in 1 .. len |-> CHOOSE r \in S : Cardinality(AboveIn(S, r)) = i - 1]
<1>1. size \in Nat /\ len \in Nat /\ len <= size /\ len <= n
  BY FS_CardinalityType
<1>2. Highest(n, S) = t
  BY DEF Highest, AboveIn
<1>3. ASSUME NEW i \in 1 .. len PROVE t[i] \in S /\ Cardinality(AboveIn(S, t[i])) = i - 1
  <2>1. \E r \in S : Cardinality(AboveIn(S, r)) = i - 1
    BY <1>1, Positions
  <2>2. QED
    BY <2>1
<1> HIDE DEF t
<1>4. t \in Seq(S) /\ Len(t) = len
  <2>1. t \in [1 .. len -> S]
    BY <1>3 DEF t
  <2>2. QED
    BY <1>1, <2>1, SeqDef
<1>5. ASSUME NEW i \in 1 .. len, NEW j \in 1 .. len, i < j PROVE t[j] < t[i]
  <2>1. /\ t[i] \in S /\ t[j] \in S /\ t[i] # t[j]
        /\ t[i] \in Int /\ t[j] \in Int
    <3>1. Cardinality(AboveIn(S, t[i])) = i - 1 /\ Cardinality(AboveIn(S, t[j])) = j - 1
      BY <1>3
    <3>2. i - 1 # j - 1
      BY <1>1, <1>5
    <3>3. t[i] \in S /\ t[j] \in S
      BY <1>3
    <3>4. QED
      BY <3>1, <3>2, <3>3
  <2>2. ~ (t[i] < t[j])
    <3>1. Cardinality(AboveIn(S, t[i])) = i - 1 /\ Cardinality(AboveIn(S, t[j])) = j - 1
      BY <1>3
    <3>2. QED
      BY <1>1, <1>5, <2>1, <3>1, LowerHasMoreAbove
  <2>3. QED
    BY <2>1, <2>2
<1>6. ASSUME NEW r \in S, \A i \in 1 .. len : t[i] # r, NEW i \in 1 .. len
      PROVE  r < t[i]
  <2>1. t[i] \in S /\ t[i] \in Int /\ r \in Int /\ Cardinality(AboveIn(S, t[i])) = i - 1
    BY <1>3
  <2>2. CASE r > t[i]
    <3>1. Cardinality(AboveIn(S, r)) < i - 1
      BY <2>1, <2>2, LowerHasMoreAbove
    <3>2. IsFiniteSet(AboveIn(S, r))
      BY FS_Subset DEF AboveIn
    <3>3. Cardinality(AboveIn(S, r)) \in Nat
      BY <3>2, FS_CardinalityType
    <3>4. PICK j \in 1 .. len : Cardinality(AboveIn(S, r)) = j - 1
      BY <1>1, <3>1, <3>3
    <3>5. /\ t[j] \in S /\ t[j] \in Int /\ r \in Int /\ t[j] # r
          /\ Cardinality(AboveIn(S, t[j])) = Cardinality(AboveIn(S, r))
      BY <1>3, <1>6, <3>4
    <3>6. ~ (t[j] < r) /\ ~ (r < t[j])
      BY <3>3, <3>5, LowerHasMoreAbove
    <3>7. QED
      BY <3>5, <3>6
  <2>3. QED
    BY <1>6, <2>1, <2>2
<1>7. QED
  BY <1>1, <1>2, <1>4, <1>5, <1>6 DEF IsTop

-----------------------------------------------------------------------------
(* The order of values *)

LEMMA AtMostRefl == \A v : AtMost(v, v)
BY DEF AtMost

\* One number more in front, and so on: the first parts are compared first.
LEMMA AtMostConcat ==
    ASSUME NEW s \in Seq(Int), NEW t \in Seq(Int), NEW u \in Seq(Int), NEW v \in Seq(Int),
           Len(s) = Len(u), AtMost(s, u), s = u => AtMost(t, v)
    PROVE  AtMost(s \o t, u \o v)
<1> DEFINE ls == Len(s)
           lt == Len(t)
           lv == Len(v)
<1>1. ls \in Nat /\ lt \in Nat /\ lv \in Nat
  BY LenProperties
<1>2. DOMAIN s = 1 .. ls /\ DOMAIN u = 1 .. ls /\ DOMAIN t = 1 .. lt /\ DOMAIN v = 1 .. lv
  BY LenProperties
<1>3. /\ DOMAIN (s \o t) = 1 .. ls + lt
      /\ \A i \in 1 .. ls + lt : (s \o t)[i] = IF i <= ls THEN s[i] ELSE t[i - ls]
  <2>1. /\ s \o t \in Seq(Int) /\ Len(s \o t) = ls + lt
        /\ \A i \in 1 .. ls + lt : (s \o t)[i] = IF i <= ls THEN s[i] ELSE t[i - ls]
    BY ConcatProperties, Zenon
  <2>2. DOMAIN (s \o t) = 1 .. Len(s \o t)
    BY <2>1, LenProperties, Zenon
  <2>3. QED
    BY <2>1, <2>2
<1>4. /\ DOMAIN (u \o v) = 1 .. ls + lv
      /\ \A i \in 1 .. ls + lv : (u \o v)[i] = IF i <= ls THEN u[i] ELSE v[i - ls]
  <2> DEFINE lu == Len(u)
  <2>1. /\ u \o v \in Seq(Int) /\ Len(u \o v) = lu + lv
        /\ \A i \in 1 .. lu + lv : (u \o v)[i] = IF i <= lu THEN u[i] ELSE v[i - lu]
    BY ConcatProperties, Zenon
  <2>2. DOMAIN (u \o v) = 1 .. Len(u \o v)
    BY <2>1, LenProperties, Zenon
  <2>3. lu = ls
    OBVIOUS
  <2> HIDE DEF lu, ls, lv
  <2>4. QED
    BY <2>1, <2>2, <2>3
<1> HIDE DEF ls, lt, lv
<1>5. CASE s = u /\ t = v
  BY <1>5, AtMostRefl
<1>6. ASSUME s = u, NEW i \in 1 .. lt, i \in 1 .. lv,
             t[i] < v[i], \A j \in 1 .. i - 1 : t[j] = v[j]
      PROVE  AtMost(s \o t, u \o v)
  <2> DEFINE k == ls + i
  <2>1. k \in 1 .. ls + lt /\ k \in 1 .. ls + lv /\ ~ (k <= ls) /\ k - ls = i
    BY <1>1, <1>6
  <2>2. (s \o t)[k] = t[i] /\ (u \o v)[k] = v[i]
    BY <1>3, <1>4, <2>1
  <2>3. ASSUME NEW j \in 1 .. k - 1 PROVE (s \o t)[j] = (u \o v)[j]
    <3>1. j \in 1 .. ls + lt /\ j \in 1 .. ls + lv
      BY <1>1, <1>6, <2>1
    <3>2. CASE j <= ls
      BY <1>3, <1>4, <1>6, <3>1, <3>2
    <3>3. CASE ~ (j <= ls)
      <4>1. j - ls \in 1 .. i - 1
        BY <1>1, <3>3
      <4>2. QED
        BY <1>3, <1>4, <1>6, <3>1, <3>3, <4>1
    <3>4. QED
      BY <3>2, <3>3
  <2>4. (s \o t)[k] < (u \o v)[k]
    BY <1>6, <2>2
  <2>5. k \in DOMAIN (s \o t) \cap DOMAIN (u \o v)
    BY <1>3, <1>4, <2>1
  <2> HIDE DEF k
  <2>6. QED
    BY <2>3, <2>4, <2>5 DEF AtMost
<1>7. ASSUME NEW i \in 1 .. ls, s[i] < u[i], \A j \in 1 .. i - 1 : s[j] = u[j]
      PROVE  AtMost(s \o t, u \o v)
  <2>1. i \in 1 .. ls + lt /\ i \in 1 .. ls + lv /\ i <= ls
    BY <1>1
  <2>2. (s \o t)[i] = s[i] /\ (u \o v)[i] = u[i]
    BY <1>3, <1>4, <2>1
  <2>3. ASSUME NEW j \in 1 .. i - 1 PROVE (s \o t)[j] = (u \o v)[j]
    <3>1. j \in 1 .. ls + lt /\ j \in 1 .. ls + lv /\ j <= ls
      BY <1>1
    <3>2. QED
      BY <1>3, <1>4, <1>7, <3>1
  <2>4. (s \o t)[i] < (u \o v)[i] /\ i \in DOMAIN (s \o t) \cap DOMAIN (u \o v)
    BY <1>3, <1>4, <1>7, <2>1, <2>2
  <2>5. QED
    BY <2>3, <2>4 DEF AtMost
<1>8. s = u \/ \E i \in 1 .. ls : s[i] < u[i] /\ \A j \in 1 .. i - 1 : s[j] = u[j]
  BY <1>2 DEF AtMost
<1>9. s = u => \/ t = v
               \/ \E i \in 1 .. lt : /\ i \in 1 .. lv /\ t[i] < v[i]
                                     /\ \A j \in 1 .. i - 1 : t[j] = v[j]
  BY <1>2 DEF AtMost
<1>10. QED
  BY <1>5, <1>6, <1>7, <1>8, <1>9

LEMMA AtMostOne ==
    ASSUME NEW a \in Int, NEW b \in Int, a <= b
    PROVE  AtMost(<<a>>, <<b>>)
<1>1. CASE a = b
  BY <1>1 DEF AtMost
<1>2. CASE a < b
  <2>1. 1 \in DOMAIN <<a>> \cap DOMAIN <<b>>
    OBVIOUS
  <2>2. <<a>>[1] < <<b>>[1] /\ \A j \in 1 .. 1 - 1 : <<a>>[j] = <<b>>[j]
    BY <1>2
  <2>3. QED
    BY <2>1, <2>2 DEF AtMost
<1>3. QED
  BY <1>1, <1>2

\* x in front of t.
Led(x, t) == <<x>> \o t

LEMMA LedTyped ==
    ASSUME NEW x \in Int, NEW t \in Seq(Int)
    PROVE  Led(x, t) \in Seq(Int)
<1>1. <<x>> \in Seq(Int)
  OBVIOUS
<1>2. QED
  BY <1>1, ConcatProperties DEF Led

\* What comes first decides, and what is behind it when that is the same.
LEMMA AtMostBehind ==
    ASSUME NEW a \in Int, NEW b \in Int, NEW t \in Seq(Int), NEW v \in Seq(Int),
           a <= b, a = b => AtMost(t, v)
    PROVE  AtMost(Led(a, t), Led(b, v))
<1>1. <<a>> \in Seq(Int) /\ <<b>> \in Seq(Int) /\ Len(<<a>>) = 1 /\ Len(<<b>>) = 1
  OBVIOUS
<1>2. AtMost(<<a>>, <<b>>)
  BY AtMostOne
<1>3. <<a>> = <<b>> => a = b
  OBVIOUS
<1>4. QED
  BY <1>1, <1>2, <1>3, AtMostConcat DEF Led

\* The n highest of a set are worth no less than those of a part of it that has
\* as many.
LEMMA TopOfMore ==
    ASSUME NEW S \in SUBSET Int, NEW T \in SUBSET S, NEW m \in Nat, NEW n \in Nat,
           NEW t, IsTop(t, m, T), NEW u, IsTop(u, n, S), Len(t) = Len(u)
    PROVE  AtMost(t, u)
<1> DEFINE len == Len(t)
           Differ == {i \in 1 .. len : t[i] # u[i]}
<1>1. /\ t \in Seq(T) /\ u \in Seq(S) /\ len \in Nat /\ len = Len(u)
      /\ DOMAIN t = 1 .. len /\ DOMAIN u = 1 .. len
  BY LenProperties DEF IsTop
<1>2. ASSUME NEW i \in 1 .. len
      PROVE  t[i] \in T /\ t[i] \in S /\ u[i] \in S /\ t[i] \in Int /\ u[i] \in Int
  <2>1. t[i] \in T /\ u[i] \in S
    BY <1>1, ElementOfSeq
  <2>2. QED
    BY <2>1
<1>3. CASE Differ = {}
  <2>1. t \in Seq(Int) /\ u \in Seq(Int)
    BY <1>1, SeqMonotonic
  <2>2. t = u
    BY <1>1, <1>3, <2>1, SeqEqual
  <2>3. QED
    BY <2>2, AtMostRefl
<1>4. CASE Differ # {}
  <2>1. Differ \in SUBSET Int /\ IsFiniteSet(Differ)
    <3>1. Differ \in SUBSET (1 .. len) /\ IsFiniteSet(1 .. len)
      BY <1>1, FS_Interval
    <3>2. QED
      BY <3>1, FS_Subset
  <2>2. PICK i \in Differ : \A j \in Differ : i <= j
    BY <1>4, <2>1, LowestExists
  <2>3. i \in 1 .. len /\ t[i] # u[i] /\ \A j \in 1 .. i - 1 : j \in 1 .. len /\ t[j] = u[j]
    BY <1>1, <2>2
  <2>4. ASSUME u[i] < t[i] PROVE FALSE
    <3>1. t[i] \in S
      BY <1>2, <2>3
    <3>2. ASSUME NEW j \in 1 .. len, u[j] = t[i] PROVE FALSE
      <4>1. CASE j < i
        <5>1. u[j] = t[j] /\ t[i] < t[j]
          BY <1>1, <2>3, <4>1 DEF IsTop
        <5>2. QED
          BY <1>2, <2>3, <3>2, <5>1
      <4>2. CASE i < j
        <5>1. u[j] < u[i]
          BY <1>1, <2>3, <4>2 DEF IsTop
        <5>2. QED
          BY <1>2, <2>3, <2>4, <3>2, <5>1
      <4>3. QED
        BY <1>1, <2>3, <3>2, <4>1, <4>2
    <3>3. t[i] < u[i]
      BY <1>1, <2>3, <3>1, <3>2 DEF IsTop
    <3>4. QED
      BY <1>2, <2>3, <2>4, <3>3
  <2>5. t[i] < u[i]
    <3>1. t[i] \in Int /\ u[i] \in Int /\ t[i] # u[i]
      BY <1>2, <2>3
    <3>2. QED
      BY <2>4, <3>1
  <2>6. QED
    BY <1>1, <2>3, <2>5 DEF AtMost
<1>5. QED
  BY <1>3, <1>4

-----------------------------------------------------------------------------
(* Counting the cards of a rank *)

FullDeck == 0 .. 51
AllRanks == 0 .. 12

LEMMA RankOfCard ==
    ASSUME NEW c \in FullDeck
    PROVE  /\ Rank(c) \in AllRanks /\ Suit(c) \in 0 .. 3
           /\ c = 4 * Rank(c) + Suit(c)
BY DEF Rank, Suit, FullDeck, AllRanks

LEMMA CardOfRank ==
    ASSUME NEW r \in AllRanks, NEW s \in 0 .. 3
    PROVE  4 * r + s \in FullDeck /\ Rank(4 * r + s) = r /\ Suit(4 * r + s) = s
BY DEF Rank, Suit, FullDeck, AllRanks

OfRank(cards, r) == {card \in cards : Rank(card) = r}
Cnt(cards, r)    == Cardinality(OfRank(cards, r))

LEMMA CardsAreFinite ==
    ASSUME NEW cards \in SUBSET FullDeck
    PROVE  IsFiniteSet(cards) /\ \A part \in SUBSET cards : IsFiniteSet(part)
<1>1. IsFiniteSet(FullDeck)
  <2>1. 0 \in Int /\ 51 \in Int
    OBVIOUS
  <2>2. QED
    BY <2>1, FS_Interval, Zenon DEF FullDeck
<1>2. IsFiniteSet(cards)
  BY <1>1, FS_Subset
<1>3. QED
  BY <1>2, FS_Subset

LEMMA RanksAreFinite ==
    ASSUME NEW cards \in SUBSET FullDeck
    PROVE  Ranks(cards) \in SUBSET AllRanks /\ \A R \in SUBSET Ranks(cards) : IsFiniteSet(R)
<1>1. IsFiniteSet(AllRanks)
  <2>1. 0 \in Int /\ 12 \in Int
    OBVIOUS
  <2>2. QED
    BY <2>1, FS_Interval, Zenon DEF AllRanks
<1>2. ASSUME NEW c \in cards PROVE Rank(c) \in AllRanks
  BY RankOfCard
<1>3. Ranks(cards) \in SUBSET AllRanks
  BY <1>2 DEF Ranks
<1>4. ASSUME NEW R \in SUBSET Ranks(cards) PROVE IsFiniteSet(R)
  <2>1. R \in SUBSET AllRanks
    BY <1>3
  <2>2. QED
    BY <1>1, <2>1, FS_Subset
<1>5. QED
  BY <1>3, <1>4

\* There are four suits.
LEMMA CntRange ==
    ASSUME NEW cards \in SUBSET FullDeck, NEW r \in AllRanks
    PROVE  Cnt(cards, r) \in 0 .. 4 /\ (r \in Ranks(cards) <=> Cnt(cards, r) >= 1)
<1>1. OfRank(cards, r) \in SUBSET cards
  BY DEF OfRank
<1>2. ASSUME NEW c \in OfRank(cards, r) PROVE c \in 4 * r .. 4 * r + 3
  <2>1. c \in FullDeck /\ Rank(c) = r
    BY DEF OfRank
  <2>2. QED
    BY <2>1, RankOfCard DEF AllRanks
<1>3. IsFiniteSet(4 * r .. 4 * r + 3) /\ Cardinality(4 * r .. 4 * r + 3) = 4
  <2>1. 4 * r \in Int /\ 4 * r + 3 \in Int /\ ~ (4 * r > 4 * r + 3) /\ (4 * r + 3) - 4 * r + 1 = 4
    BY DEF AllRanks
  <2>2. QED
    BY <2>1, FS_Interval
<1>4. IsFiniteSet(OfRank(cards, r)) /\ Cnt(cards, r) <= 4
  <2>1. OfRank(cards, r) \in SUBSET (4 * r .. 4 * r + 3)
    BY <1>2
  <2>2. Cardinality(OfRank(cards, r)) <= Cardinality(4 * r .. 4 * r + 3)
    BY <1>3, <2>1, FS_Subset, Zenon
  <2>3. QED
    BY <1>1, <1>3, <2>2, CardsAreFinite DEF Cnt
<1>5. Cnt(cards, r) \in Nat /\ (Cnt(cards, r) = 0 <=> OfRank(cards, r) = {})
  BY <1>4, FS_CardinalityType, FS_EmptySet DEF Cnt
<1>6. r \in Ranks(cards) <=> OfRank(cards, r) # {}
  BY DEF Ranks, OfRank
<1>7. QED
  BY <1>4, <1>5, <1>6

LEMMA OfAKindIsCnt ==
    ASSUME NEW cards \in SUBSET FullDeck, NEW n \in 1 .. 4
    PROVE  OfAKind(cards, n) = {r \in AllRanks : Cnt(cards, r) = n}
<1>1. OfAKind(cards, n) = {r \in Ranks(cards) : Cnt(cards, r) = n}
  BY DEF OfAKind, Cnt, OfRank
<1>2. Ranks(cards) \subseteq AllRanks
  BY RanksAreFinite
<1>3. \A r \in AllRanks : Cnt(cards, r) = n => r \in Ranks(cards)
  BY CntRange
<1>4. QED
  BY <1>1, <1>2, <1>3

LEMMA CntGrows ==
    ASSUME NEW cards \in SUBSET FullDeck, NEW part \in SUBSET cards, NEW r \in AllRanks
    PROVE  Cnt(part, r) <= Cnt(cards, r)
<1>1. OfRank(part, r) \in SUBSET OfRank(cards, r) /\ OfRank(cards, r) \in SUBSET cards
  BY DEF OfRank
<1>2. QED
  BY <1>1, CardsAreFinite, FS_Subset DEF Cnt

\* The cards of different ranks are different cards.
LEMMA CntOfThree ==
    ASSUME NEW cards \in SUBSET FullDeck,
           NEW q \in AllRanks, NEW r \in AllRanks, NEW s \in AllRanks, q # r, q # s, r # s
    PROVE  Cnt(cards, q) + Cnt(cards, r) + Cnt(cards, s) <= Cardinality(cards)
<1> DEFINE Q == OfRank(cards, q)
           R == OfRank(cards, r)
           S == OfRank(cards, s)
<1>1. Q \in SUBSET cards /\ R \in SUBSET cards /\ S \in SUBSET cards
  BY DEF OfRank
<1>2. IsFiniteSet(cards) /\ IsFiniteSet(Q) /\ IsFiniteSet(R) /\ IsFiniteSet(S)
  BY <1>1, CardsAreFinite
<1>3. Q \cap R = {} /\ (Q \cup R) \cap S = {}
  BY DEF OfRank
<1> HIDE DEF Q, R, S
<1>9. /\ Cardinality(Q) \in Nat /\ Cardinality(R) \in Nat /\ Cardinality(S) \in Nat
      /\ Cardinality(Q \cap R) = 0 /\ Cardinality((Q \cup R) \cap S) = 0
  <2>1. Cardinality(Q) \in Nat /\ Cardinality(R) \in Nat /\ Cardinality(S) \in Nat
    BY <1>2, FS_CardinalityType
  <2>2. Cardinality(Q \cap R) = 0 /\ Cardinality((Q \cup R) \cap S) = 0
    BY <1>3, FS_EmptySet, Zenon
  <2>3. QED
    BY <2>1, <2>2
<1>4. IsFiniteSet(Q \cup R) /\ Cardinality(Q \cup R) = Cardinality(Q) + Cardinality(R)
  <2>1. IsFiniteSet(Q \cup R)
        /\ Cardinality(Q \cup R) = Cardinality(Q) + Cardinality(R) - Cardinality(Q \cap R)
    BY <1>2, FS_Union
  <2>2. QED
    BY <1>9, <2>1
<1>5. Cardinality(Q \cup R \cup S) = Cardinality(Q \cup R) + Cardinality(S)
  <2>1. Cardinality((Q \cup R) \cup S)
           = Cardinality(Q \cup R) + Cardinality(S) - Cardinality((Q \cup R) \cap S)
    BY <1>2, <1>4, FS_Union
  <2>2. QED
    BY <1>4, <1>9, <2>1
<1>6. Cardinality(Q \cup R \cup S) <= Cardinality(cards)
  <2>1. Q \cup R \cup S \in SUBSET cards
    BY <1>1
  <2>2. QED
    BY <1>2, <2>1, FS_Subset
<1>7. QED
  BY <1>4, <1>5, <1>6 DEF Cnt, Q, R, S

LEMMA CntOfTwo ==
    ASSUME NEW cards \in SUBSET FullDeck, NEW q \in AllRanks, NEW r \in AllRanks, q # r
    PROVE  Cnt(cards, q) + Cnt(cards, r) <= Cardinality(cards)
<1>1. PICK s \in AllRanks : s # q /\ s # r
  <2>1. 0 \in AllRanks /\ 1 \in AllRanks /\ 2 \in AllRanks
    BY DEF AllRanks
  <2>2. QED
    BY <2>1
<1>2. Cnt(cards, q) + Cnt(cards, r) + Cnt(cards, s) <= Cardinality(cards)
  BY <1>1, CntOfThree
<1>3. Cnt(cards, q) \in Nat /\ Cnt(cards, r) \in Nat /\ Cnt(cards, s) \in Nat
  BY CntRange
<1>4. Cardinality(cards) \in Nat
  BY CardsAreFinite, FS_CardinalityType
<1>5. QED
  BY <1>2, <1>3, <1>4

-----------------------------------------------------------------------------
(* Five cards, one by one *)

AreFive(five, a, b, c, d, e) ==
    /\ five = {a, b, c, d, e}
    /\ a # b /\ a # c /\ a # d /\ a # e
    /\ b # c /\ b # d /\ b # e /\ c # d /\ c # e /\ d # e

One(card, r) == IF Rank(card) = r THEN 1 ELSE 0

LEMMA CntOfOneMore ==
    ASSUME NEW cards \in SUBSET FullDeck, NEW card \in FullDeck, card \notin cards,
           NEW r \in AllRanks
    PROVE  Cnt(cards \cup {card}, r) = Cnt(cards, r) + One(card, r)
<1>1. OfRank(cards \cup {card}, r)
         = IF Rank(card) = r THEN OfRank(cards, r) \cup {card} ELSE OfRank(cards, r)
  BY DEF OfRank
<1>2. OfRank(cards, r) \in SUBSET cards /\ card \notin OfRank(cards, r)
  BY DEF OfRank
<1>3. IsFiniteSet(OfRank(cards, r))
  BY <1>2, CardsAreFinite
<1>4. Cardinality(OfRank(cards, r) \cup {card}) = Cardinality(OfRank(cards, r)) + 1
  BY <1>2, <1>3, FS_AddElement
<1>5. Cardinality(OfRank(cards, r)) \in Nat
  BY <1>3, FS_CardinalityType
<1>6. QED
  BY <1>1, <1>4, <1>5 DEF Cnt, One

LEMMA CntOfFive ==
    ASSUME NEW five \in SUBSET FullDeck, NEW a, NEW b, NEW c, NEW d, NEW e,
           AreFive(five, a, b, c, d, e), NEW r \in AllRanks
    PROVE  Cnt(five, r) = One(a, r) + One(b, r) + One(c, r) + One(d, r) + One(e, r)
<1>1. a \in FullDeck /\ b \in FullDeck /\ c \in FullDeck /\ d \in FullDeck /\ e \in FullDeck
  BY DEF AreFive
<1>2. Cnt({}, r) = 0
  BY FS_EmptySet DEF Cnt, OfRank
<1>3. Cnt({a}, r) = One(a, r)
  <2>1. Cnt({} \cup {a}, r) = Cnt({}, r) + One(a, r)
    BY <1>1, CntOfOneMore
  <2>2. {} \cup {a} = {a}
    OBVIOUS
  <2>3. QED
    BY <1>2, <2>1, <2>2 DEF One
<1>4. Cnt({a, b}, r) = Cnt({a}, r) + One(b, r)
  <2>1. {a} \cup {b} = {a, b} /\ b \notin {a} /\ {a} \in SUBSET FullDeck
    BY <1>1 DEF AreFive
  <2>2. QED
    BY <1>1, <2>1, CntOfOneMore
<1>5. Cnt({a, b, c}, r) = Cnt({a, b}, r) + One(c, r)
  <2>1. {a, b} \cup {c} = {a, b, c} /\ c \notin {a, b} /\ {a, b} \in SUBSET FullDeck
    BY <1>1 DEF AreFive
  <2>2. QED
    BY <1>1, <2>1, CntOfOneMore
<1>6. Cnt({a, b, c, d}, r) = Cnt({a, b, c}, r) + One(d, r)
  <2>1. {a, b, c} \cup {d} = {a, b, c, d} /\ d \notin {a, b, c} /\ {a, b, c} \in SUBSET FullDeck
    BY <1>1 DEF AreFive
  <2>2. QED
    BY <1>1, <2>1, CntOfOneMore
<1>7. Cnt({a, b, c, d, e}, r) = Cnt({a, b, c, d}, r) + One(e, r)
  <2>1. /\ {a, b, c, d} \cup {e} = {a, b, c, d, e} /\ e \notin {a, b, c, d}
        /\ {a, b, c, d} \in SUBSET FullDeck
    BY <1>1 DEF AreFive
  <2>2. QED
    BY <1>1, <2>1, CntOfOneMore
<1>8. QED
  BY <1>3, <1>4, <1>5, <1>6, <1>7 DEF AreFive

LEMMA FiveAreFive ==
    ASSUME NEW five, NEW a, NEW b, NEW c, NEW d, NEW e, AreFive(five, a, b, c, d, e)
    PROVE  IsFiniteSet(five) /\ Cardinality(five) = 5
<1>1. IsFiniteSet({a}) /\ Cardinality({a}) = 1
  BY FS_Singleton
<1>2. IsFiniteSet({a} \cup {b}) /\ Cardinality({a} \cup {b}) = 2
  BY <1>1, FS_AddElement DEF AreFive
<1>3. IsFiniteSet(({a} \cup {b}) \cup {c}) /\ Cardinality(({a} \cup {b}) \cup {c}) = 3
  BY <1>2, FS_AddElement DEF AreFive
<1>4. /\ IsFiniteSet((({a} \cup {b}) \cup {c}) \cup {d})
      /\ Cardinality((({a} \cup {b}) \cup {c}) \cup {d}) = 4
  BY <1>3, FS_AddElement DEF AreFive
<1>5. /\ IsFiniteSet(((({a} \cup {b}) \cup {c}) \cup {d}) \cup {e})
      /\ Cardinality(((({a} \cup {b}) \cup {c}) \cup {d}) \cup {e}) = 5
  BY <1>4, FS_AddElement DEF AreFive
<1>6. ((({a} \cup {b}) \cup {c}) \cup {d}) \cup {e} = five
  BY DEF AreFive
<1>7. QED
  BY <1>5, <1>6

\* Five cards in descending order.
LEMMA FiveInOrder ==
    ASSUME NEW five \in SUBSET FullDeck, Cardinality(five) = 5
    PROVE  \E a, b, c, d, e \in five :
              AreFive(five, a, b, c, d, e) /\ a > b /\ b > c /\ c > d /\ d > e
<1> DEFINE t == Highest(5, five)
<1>1. IsFiniteSet(five) /\ five \in SUBSET Int
  BY CardsAreFinite DEF FullDeck
<1>2. IsTop(t, 5, five)
  BY <1>1, HighestIsTop
<1> HIDE DEF t
<1>3. t \in Seq(five) /\ Len(t) = 5 /\ \A i, j \in 1 .. 5 : i < j => t[j] < t[i]
  BY <1>2 DEF IsTop
<1>4. ASSUME NEW i \in 1 .. 5 PROVE t[i] \in five /\ t[i] \in Int
  <2>1. t[i] \in five
    BY <1>3, ElementOfSeq
  <2>2. QED
    BY <1>1, <2>1
<1>5. t[1] > t[2] /\ t[2] > t[3] /\ t[3] > t[4] /\ t[4] > t[5]
  BY <1>3, <1>4
<1> DEFINE all == {t[1], t[2], t[3], t[4], t[5]}
<1>6. AreFive(all, t[1], t[2], t[3], t[4], t[5])
  BY <1>4, <1>5 DEF AreFive
<1>7. all \in SUBSET five /\ Cardinality(all) = 5
  BY <1>4, <1>6, FiveAreFive
<1>8. all = five
  BY <1>1, <1>7, FS_Subset
<1>9. AreFive(five, t[1], t[2], t[3], t[4], t[5])
  BY <1>6, <1>8
<1>10. QED
  BY <1>4, <1>5, <1>9

-----------------------------------------------------------------------------
(* The six ways five cards can share their ranks *)

FourAlike(a, b, c, d, e) ==
    /\ Rank(a) = Rank(b) /\ Rank(a) = Rank(c) /\ Rank(a) = Rank(d) /\ Rank(a) # Rank(e)
ThreeAndTwo(a, b, c, d, e) ==
    /\ Rank(a) = Rank(b) /\ Rank(a) = Rank(c) /\ Rank(a) # Rank(d) /\ Rank(d) = Rank(e)
ThreeAlike(a, b, c, d, e) ==
    /\ Rank(a) = Rank(b) /\ Rank(a) = Rank(c)
    /\ Rank(a) # Rank(d) /\ Rank(a) # Rank(e) /\ Rank(d) # Rank(e)
TwoAndTwo(a, b, c, d, e) ==
    /\ Rank(a) = Rank(b) /\ Rank(c) = Rank(d)
    /\ Rank(a) # Rank(c) /\ Rank(a) # Rank(e) /\ Rank(c) # Rank(e)
TwoAlike(a, b, c, d, e) ==
    /\ Rank(a) = Rank(b)
    /\ Rank(a) # Rank(c) /\ Rank(a) # Rank(d) /\ Rank(a) # Rank(e)
    /\ Rank(c) # Rank(d) /\ Rank(c) # Rank(e) /\ Rank(d) # Rank(e)
NoneAlike(a, b, c, d, e) ==
    /\ Rank(a) # Rank(b) /\ Rank(a) # Rank(c) /\ Rank(a) # Rank(d) /\ Rank(a) # Rank(e)
    /\ Rank(b) # Rank(c) /\ Rank(b) # Rank(d) /\ Rank(b) # Rank(e)
    /\ Rank(c) # Rank(d) /\ Rank(c) # Rank(e) /\ Rank(d) # Rank(e)

ShapeOf(a, b, c, d, e) ==
    \/ FourAlike(a, b, c, d, e) \/ ThreeAndTwo(a, b, c, d, e) \/ ThreeAlike(a, b, c, d, e)
    \/ TwoAndTwo(a, b, c, d, e) \/ TwoAlike(a, b, c, d, e) \/ NoneAlike(a, b, c, d, e)

LEMMA ShapeOfFive ==
    ASSUME NEW five \in SUBSET FullDeck, Cardinality(five) = 5
    PROVE  \E a, b, c, d, e \in five : AreFive(five, a, b, c, d, e) /\ ShapeOf(a, b, c, d, e)
<1>1. PICK a, b, c, d, e \in five :
         AreFive(five, a, b, c, d, e) /\ a > b /\ b > c /\ c > d /\ d > e
  BY FiveInOrder
<1> DEFINE p == Rank(a)
           q == Rank(b)
           r == Rank(c)
           s == Rank(d)
           t == Rank(e)
<1>2. /\ a \in 0 .. 51 /\ b \in 0 .. 51 /\ c \in 0 .. 51 /\ d \in 0 .. 51 /\ e \in 0 .. 51
  BY DEF FullDeck
<1>3. /\ p \in 0 .. 12 /\ q \in 0 .. 12 /\ r \in 0 .. 12 /\ s \in 0 .. 12 /\ t \in 0 .. 12
      /\ p >= q /\ q >= r /\ r >= s /\ s >= t /\ p > t
  BY <1>1, <1>2 DEF Rank
<1> DEFINE Shaped == \E v, w, x, y, z \in five :
                        AreFive(five, v, w, x, y, z) /\ ShapeOf(v, w, x, y, z)
<1> SUFFICES Shaped
  OBVIOUS
<1>4. ASSUME NEW v \in five, NEW w \in five, NEW x \in five, NEW y \in five, NEW z \in five,
             AreFive(five, v, w, x, y, z), ShapeOf(v, w, x, y, z)
      PROVE  Shaped
  BY <1>4
<1>5. /\ AreFive(five, b, c, d, e, a) /\ AreFive(five, c, d, e, a, b)
      /\ AreFive(five, b, c, d, a, e) /\ AreFive(five, b, c, d, e, a)
      /\ AreFive(five, a, b, d, e, c) /\ AreFive(five, b, c, d, e, a)
      /\ AreFive(five, b, c, a, d, e) /\ AreFive(five, c, d, a, b, e)
      /\ AreFive(five, d, e, a, b, c)
  BY <1>1 DEF AreFive
<1> HIDE DEF p, q, r, s, t, Shaped
<1>6. CASE p = q /\ q = r /\ r = s
  <2>1. FourAlike(a, b, c, d, e)
    BY <1>3, <1>6 DEF FourAlike, p, q, r, s, t
  <2>2. QED
    BY <1>1, <1>4, <2>1 DEF ShapeOf
<1>7. CASE q = r /\ r = s /\ s = t
  <2>1. FourAlike(b, c, d, e, a)
    BY <1>3, <1>7 DEF FourAlike, p, q, r, s, t
  <2>2. QED
    BY <1>4, <1>5, <2>1 DEF ShapeOf
<1>8. CASE p = q /\ q = r /\ r # s
  <2>1. ThreeAndTwo(a, b, c, d, e) \/ ThreeAlike(a, b, c, d, e)
    BY <1>3, <1>8 DEF ThreeAndTwo, ThreeAlike, p, q, r, s, t
  <2>2. QED
    BY <1>1, <1>4, <2>1 DEF ShapeOf
<1>9. CASE q = r /\ r = s /\ p # q /\ s # t
  <2>1. ThreeAlike(b, c, d, a, e)
    BY <1>3, <1>9 DEF ThreeAlike, p, q, r, s, t
  <2>2. QED
    BY <1>4, <1>5, <2>1 DEF ShapeOf
<1>10. CASE r = s /\ s = t /\ q # r
  <2>1. ThreeAndTwo(c, d, e, a, b) \/ ThreeAlike(c, d, e, a, b)
    BY <1>3, <1>10 DEF ThreeAndTwo, ThreeAlike, p, q, r, s, t
  <2>2. QED
    BY <1>4, <1>5, <2>1 DEF ShapeOf
<1>11. CASE p = q /\ q # r /\ r = s /\ s # t
  <2>1. TwoAndTwo(a, b, c, d, e)
    BY <1>3, <1>11 DEF TwoAndTwo, p, q, r, s, t
  <2>2. QED
    BY <1>1, <1>4, <2>1 DEF ShapeOf
<1>12. CASE p = q /\ q # r /\ r # s /\ s = t
  <2>1. TwoAndTwo(a, b, d, e, c)
    BY <1>3, <1>12 DEF TwoAndTwo, p, q, r, s, t
  <2>2. QED
    BY <1>4, <1>5, <2>1 DEF ShapeOf
<1>13. CASE p # q /\ q = r /\ r # s /\ s = t
  <2>1. TwoAndTwo(b, c, d, e, a)
    BY <1>3, <1>13 DEF TwoAndTwo, p, q, r, s, t
  <2>2. QED
    BY <1>4, <1>5, <2>1 DEF ShapeOf
<1>14. CASE p = q /\ q # r /\ r # s /\ s # t
  <2>1. TwoAlike(a, b, c, d, e)
    BY <1>3, <1>14 DEF TwoAlike, p, q, r, s, t
  <2>2. QED
    BY <1>1, <1>4, <2>1 DEF ShapeOf
<1>15. CASE p # q /\ q = r /\ r # s /\ s # t
  <2>1. TwoAlike(b, c, a, d, e)
    BY <1>3, <1>15 DEF TwoAlike, p, q, r, s, t
  <2>2. QED
    BY <1>4, <1>5, <2>1 DEF ShapeOf
<1>16. CASE p # q /\ q # r /\ r = s /\ s # t
  <2>1. TwoAlike(c, d, a, b, e)
    BY <1>3, <1>16 DEF TwoAlike, p, q, r, s, t
  <2>2. QED
    BY <1>4, <1>5, <2>1 DEF ShapeOf
<1>17. CASE p # q /\ q # r /\ r # s /\ s = t
  <2>1. TwoAlike(d, e, a, b, c)
    BY <1>3, <1>17 DEF TwoAlike, p, q, r, s, t
  <2>2. QED
    BY <1>4, <1>5, <2>1 DEF ShapeOf
<1>18. CASE p # q /\ q # r /\ r # s /\ s # t
  <2>1. NoneAlike(a, b, c, d, e)
    BY <1>3, <1>18 DEF NoneAlike, p, q, r, s, t
  <2>2. QED
    BY <1>1, <1>4, <2>1 DEF ShapeOf
<1>19. QED
  BY <1>6, <1>7, <1>8, <1>9, <1>10, <1>11, <1>12, <1>13, <1>14, <1>15, <1>16, <1>17, <1>18

-----------------------------------------------------------------------------
(* The worth of five cards *)

LEMMA HighestTyped ==
    ASSUME NEW S \in SUBSET Int, IsFiniteSet(S), NEW n \in Nat
    PROVE  Highest(n, S) \in Seq(S) /\ Highest(n, S) \in Seq(Int)
<1>1. Highest(n, S) \in Seq(S)
  BY HighestIsTop DEF IsTop
<1>2. QED
  BY <1>1, SeqMonotonic

LEMMA HighestOfNone ==
    ASSUME NEW n \in Nat
    PROVE  Highest(n, {}) = << >>
<1>1. IsFiniteSet({}) /\ Cardinality({}) = 0 /\ {} \in SUBSET Int
  BY FS_EmptySet
<1> DEFINE t == Highest(n, {})
<1>2. IsTop(t, n, {})
  BY <1>1, HighestIsTop
<1> HIDE DEF t
<1>3. t \in Seq({}) /\ Len(t) = 0
  BY <1>1, <1>2 DEF IsTop
<1>4. t = << >>
  BY <1>3, EmptySeq, SeqEqual
<1>5. QED
  BY <1>4 DEF t

LEMMA HighestOfOne ==
    ASSUME NEW n \in Nat \ {0}, NEW a \in Int
    PROVE  Highest(n, {a}) = <<a>>
<1>1. IsFiniteSet({a}) /\ Cardinality({a}) = 1 /\ {a} \in SUBSET Int
  BY FS_Singleton
<1> DEFINE t == Highest(n, {a})
<1>2. IsTop(t, n, {a})
  BY <1>1, HighestIsTop
<1> HIDE DEF t
<1>3. t \in Seq({a}) /\ Len(t) = 1
  BY <1>1, <1>2 DEF IsTop
<1>4. t[1] = a
  BY <1>3, ElementOfSeq
<1>5. t = <<a>>
  BY <1>3, <1>4
<1>6. QED
  BY <1>5 DEF t

LEMMA OneAndTuple ==
    ASSUME NEW a \in Int, NEW b \in Int, NEW c \in Int
    PROVE  <<a>> \o <<b>> = <<a, b>> /\ <<a>> \o <<b, c>> = <<a, b, c>>
<1>1. /\ <<a>> \in Seq(Int) /\ <<b>> \in Seq(Int) /\ <<b, c>> \in Seq(Int)
      /\ <<a, b>> \in Seq(Int) /\ <<a, b, c>> \in Seq(Int)
      /\ Len(<<a>>) = 1 /\ Len(<<b>>) = 1 /\ Len(<<b, c>>) = 2
      /\ Len(<<a, b>>) = 2 /\ Len(<<a, b, c>>) = 3
  OBVIOUS
<1>2. /\ <<a>> \o <<b>> \in Seq(Int) /\ Len(<<a>> \o <<b>>) = 2
      /\ \A i \in 1 .. 2 : (<<a>> \o <<b>>)[i] = IF i <= 1 THEN <<a>>[i] ELSE <<b>>[i - 1]
  BY <1>1, ConcatProperties
<1>3. /\ <<a>> \o <<b, c>> \in Seq(Int) /\ Len(<<a>> \o <<b, c>>) = 3
      /\ \A i \in 1 .. 3 :
            (<<a>> \o <<b, c>>)[i] = IF i <= 1 THEN <<a>>[i] ELSE <<b, c>>[i - 1]
  BY <1>1, ConcatProperties
<1>4. \A i \in 1 .. 2 : (<<a>> \o <<b>>)[i] = <<a, b>>[i]
  BY <1>2
<1>5. \A i \in 1 .. 3 : (<<a>> \o <<b, c>>)[i] = <<a, b, c>>[i]
  BY <1>3
<1>6. QED
  BY <1>1, <1>2, <1>3, <1>4, <1>5, SeqEqual

LEMMA NothingAround ==
    ASSUME NEW t \in Seq(Int)
    PROVE  << >> \o t = t /\ t \o << >> = t
BY ConcatEmptySeq

LEMMA TwoCounted ==
    ASSUME NEW a, NEW b, a # b
    PROVE  IsFiniteSet({a, b}) /\ Cardinality({a, b}) = 2
<1>1. IsFiniteSet({a}) /\ Cardinality({a}) = 1
  BY FS_Singleton
<1>2. {a} \cup {b} = {a, b}
  OBVIOUS
<1>3. IsFiniteSet({a} \cup {b}) /\ Cardinality({a} \cup {b}) = 2
  BY <1>1, FS_AddElement
<1>4. QED
  BY <1>2, <1>3

LEMMA RanksOfFive ==
    ASSUME NEW five \in SUBSET FullDeck, NEW a, NEW b, NEW c, NEW d, NEW e,
           AreFive(five, a, b, c, d, e)
    PROVE  /\ Ranks(five) = {Rank(a), Rank(b), Rank(c), Rank(d), Rank(e)}
           /\ Rank(a) \in AllRanks /\ Rank(b) \in AllRanks /\ Rank(c) \in AllRanks
           /\ Rank(d) \in AllRanks /\ Rank(e) \in AllRanks
<1>1. a \in FullDeck /\ b \in FullDeck /\ c \in FullDeck /\ d \in FullDeck /\ e \in FullDeck
  BY DEF AreFive
<1>2. QED
  BY <1>1, RankOfCard DEF AreFive, Ranks

\* Four ranks are not five in a row, whatever the ace stands for.
LEMMA PairedIsNoStraight ==
    ASSUME NEW five \in SUBSET FullDeck, NEW a, NEW b, NEW c, NEW d, NEW e,
           AreFive(five, a, b, c, d, e), Rank(a) = Rank(b)
    PROVE  ~ InARow(five)
<1> DEFINE w == Rank(a)
           x == Rank(c)
           y == Rank(d)
           z == Rank(e)
<1>1. Ranks(five) = {w, x, y, z}
  BY RanksOfFive
<1>2. w \in Int /\ x \in Int /\ y \in Int /\ z \in Int
  BY RanksOfFive DEF AllRanks
<1> HIDE DEF w, x, y, z
<1>3. ASSUME NEW low \in 0 .. 8, low .. low + 4 = {w, x, y, z} PROVE FALSE
  <2>1. low \in {w, x, y, z} /\ low + 1 \in {w, x, y, z} /\ low + 2 \in {w, x, y, z}
        /\ low + 3 \in {w, x, y, z} /\ low + 4 \in {w, x, y, z}
    <3>1. /\ low \in low .. low + 4 /\ low + 1 \in low .. low + 4 /\ low + 2 \in low .. low + 4
          /\ low + 3 \in low .. low + 4 /\ low + 4 \in low .. low + 4
      OBVIOUS
    <3>2. QED
      BY <1>3, <3>1, Zenon
  <2>2. QED
    BY <1>2, <2>1
<1>4. ASSUME NEW low \in 0 .. 8, 12 \in {w, x, y, z},
             low .. low + 4 = ({w, x, y, z} \cup {0}) \ {12}
      PROVE  FALSE
  <2>1. \A k \in 0 .. 4 : low + k \in ({w, x, y, z} \cup {0}) \ {12}
    <3>1. \A k \in 0 .. 4 : low + k \in low .. low + 4
      OBVIOUS
    <3>2. QED
      BY <1>4, <3>1
  <2>2. /\ low \in {w, x, y, z, 0} /\ low # 12
        /\ low + 1 \in {w, x, y, z, 0} /\ low + 1 # 12
        /\ low + 2 \in {w, x, y, z, 0} /\ low + 2 # 12
        /\ low + 3 \in {w, x, y, z, 0} /\ low + 3 # 12
        /\ low + 4 \in {w, x, y, z, 0} /\ low + 4 # 12
    BY <2>1
  <2>3. QED
    BY <1>2, <1>4, <2>2
<1>5. ASSUME NEW low \in 0 .. 8,
             low .. low + 4 \in {{w, x, y, z}, WithLowAce({w, x, y, z}) \ {12}}
      PROVE  FALSE
  <2>1. CASE 12 \in {w, x, y, z}
    BY <1>3, <1>4, <1>5, <2>1 DEF WithLowAce, ACE
  <2>2. CASE 12 \notin {w, x, y, z}
    <3>1. WithLowAce({w, x, y, z}) \ {12} = {w, x, y, z}
      BY <2>2 DEF WithLowAce, ACE
    <3>2. QED
      BY <1>3, <1>5, <3>1
  <2>3. QED
    BY <2>1, <2>2
<1>6. QED
  BY <1>1, <1>5 DEF InARow, ACE

\* Two cards of a rank are of two suits.
LEMMA PairedIsOfTwoSuits ==
    ASSUME NEW five \in SUBSET FullDeck, NEW a, NEW b, NEW c, NEW d, NEW e,
           AreFive(five, a, b, c, d, e), Rank(a) = Rank(b)
    PROVE  ~ OneSuit(five)
<1>1. a \in five /\ b \in five /\ a # b /\ a \in FullDeck /\ b \in FullDeck
  BY DEF AreFive
<1>2. Suit(a) # Suit(b)
  BY <1>1, RankOfCard
<1>3. QED
  BY <1>1, <1>2 DEF OneSuit

LEMMA OfAKinds ==
    ASSUME NEW cards \in SUBSET FullDeck
    PROVE  /\ OfAKind(cards, 1) \subseteq AllRanks
           /\ \A r \in AllRanks : r \in OfAKind(cards, 1) <=> Cnt(cards, r) = 1
           /\ OfAKind(cards, 2) \subseteq AllRanks
           /\ \A r \in AllRanks : r \in OfAKind(cards, 2) <=> Cnt(cards, r) = 2
           /\ OfAKind(cards, 3) \subseteq AllRanks
           /\ \A r \in AllRanks : r \in OfAKind(cards, 3) <=> Cnt(cards, r) = 3
           /\ OfAKind(cards, 4) \subseteq AllRanks
           /\ \A r \in AllRanks : r \in OfAKind(cards, 4) <=> Cnt(cards, r) = 4
<1>1. 1 \in 1 .. 4 /\ 2 \in 1 .. 4 /\ 3 \in 1 .. 4 /\ 4 \in 1 .. 4
  OBVIOUS
<1>2. /\ OfAKind(cards, 1) = {r \in AllRanks : Cnt(cards, r) = 1}
      /\ OfAKind(cards, 2) = {r \in AllRanks : Cnt(cards, r) = 2}
      /\ OfAKind(cards, 3) = {r \in AllRanks : Cnt(cards, r) = 3}
      /\ OfAKind(cards, 4) = {r \in AllRanks : Cnt(cards, r) = 4}
  BY <1>1, OfAKindIsCnt, Zenon
<1>3. QED
  BY <1>2

LEMMA WorthFourAlike ==
    ASSUME NEW five \in SUBSET FullDeck, NEW a, NEW b, NEW c, NEW d, NEW e,
           AreFive(five, a, b, c, d, e), FourAlike(a, b, c, d, e)
    PROVE  /\ FiveCardRule(five) = Led(8, Led(Rank(a), Highest(5, {Rank(e)})))
           /\ Cnt(five, Rank(a)) = 4
           /\ Rank(a) \in AllRanks /\ Rank(e) \in AllRanks
<1> DEFINE q == Rank(a)
           k == Rank(e)
<1>1. ~ InARow(five) /\ ~ OneSuit(five)
  BY PairedIsNoStraight, PairedIsOfTwoSuits DEF FourAlike
<1>2. q \in AllRanks /\ k \in AllRanks /\ q # k
  BY RanksOfFive DEF FourAlike
<1>3. /\ Cnt(five, q) = 4 /\ Cnt(five, k) = 1
      /\ \A r \in AllRanks : r # q /\ r # k => Cnt(five, r) = 0
  <2>1. \A r \in AllRanks :
           Cnt(five, r) = One(a, r) + One(b, r) + One(c, r) + One(d, r) + One(e, r)
    BY CntOfFive
  <2>2. QED
    BY <1>2, <2>1 DEF One, FourAlike
<1> HIDE DEF q, k
<1>4. /\ OfAKind(five, 4) = {q} /\ OfAKind(five, 3) = {}
      /\ OfAKind(five, 2) = {} /\ OfAKind(five, 1) = {k}
  <2>1. OfAKind(five, 4) = {q}
    BY <1>2, <1>3, OfAKinds
  <2>2. OfAKind(five, 3) = {} /\ OfAKind(five, 2) = {}
    BY <1>2, <1>3, OfAKinds
  <2>3. OfAKind(five, 1) = {k}
    BY <1>2, <1>3, OfAKinds
  <2>4. QED
    BY <2>1, <2>2, <2>3
<1>5. HowMany(five, 4) = 1 /\ HowMany(five, 3) = 0 /\ HowMany(five, 2) = 0
  BY <1>4, FS_Singleton, FS_EmptySet DEF HowMany
<1>6. ByCount(five) = <<q>> \o Highest(5, {k})
  <2>1. q \in Int
    BY <1>2 DEF AllRanks
  <2>2. Highest(5, {q}) = <<q>> /\ Highest(5, {}) = << >> /\ <<q>> \in Seq(Int)
    BY <2>1, HighestOfOne, HighestOfNone
  <2>3. QED
    BY <1>4, <2>2, NothingAround DEF ByCount
<1>7. QED
  BY <1>1, <1>2, <1>3, <1>5, <1>6 DEF FiveCardRule, Led, q, k

LEMMA WorthThreeAndTwo ==
    ASSUME NEW five \in SUBSET FullDeck, NEW a, NEW b, NEW c, NEW d, NEW e,
           AreFive(five, a, b, c, d, e), ThreeAndTwo(a, b, c, d, e)
    PROVE  /\ FiveCardRule(five) = Led(7, Led(Rank(a), <<Rank(d)>>))
           /\ Cnt(five, Rank(a)) = 3 /\ Cnt(five, Rank(d)) = 2
           /\ Rank(a) \in AllRanks /\ Rank(d) \in AllRanks
<1> DEFINE t == Rank(a)
           p == Rank(d)
<1>1. ~ InARow(five) /\ ~ OneSuit(five)
  BY PairedIsNoStraight, PairedIsOfTwoSuits DEF ThreeAndTwo
<1>2. /\ t \in AllRanks /\ p \in AllRanks
      /\ t # p
  BY RanksOfFive DEF ThreeAndTwo
<1>3. /\ Cnt(five, t) = 3 /\ Cnt(five, p) = 2
      /\ \A r \in AllRanks : r # t /\ r # p => Cnt(five, r) = 0
  <2>1. \A r \in AllRanks :
           Cnt(five, r) = One(a, r) + One(b, r) + One(c, r) + One(d, r) + One(e, r)
    BY CntOfFive
  <2>2. QED
    BY <1>2, <2>1 DEF One, ThreeAndTwo
<1> HIDE DEF t, p
<1>4. /\ OfAKind(five, 4) = {} /\ OfAKind(five, 3) = {t}
      /\ OfAKind(five, 2) = {p} /\ OfAKind(five, 1) = {}
  <2>1. OfAKind(five, 4) = {} /\ OfAKind(five, 3) = {t}
    BY <1>2, <1>3, OfAKinds
  <2>2. OfAKind(five, 2) = {p}
    BY <1>2, <1>3, OfAKinds
  <2>3. OfAKind(five, 1) = {}
    BY <1>2, <1>3, OfAKinds
  <2>4. QED
    BY <2>1, <2>2, <2>3
<1>5. HowMany(five, 4) = 0 /\ HowMany(five, 3) = 1 /\ HowMany(five, 2) = 1
  BY <1>2, <1>4, FS_Singleton, FS_EmptySet, TwoCounted DEF HowMany
<1>6. ByCount(five) = <<t>> \o <<p>>
  <2>1. t \in Int /\ p \in Int
    BY <1>2 DEF AllRanks
  <2>2. /\ Highest(5, {t}) = <<t>> /\ Highest(5, {p}) = <<p>> /\ Highest(5, {}) = << >>
        /\ <<t>> \in Seq(Int) /\ <<p>> \in Seq(Int)
    BY <2>1, HighestOfOne, HighestOfNone
  <2>3. <<t>> \o <<p>> \in Seq(Int)
    BY <2>2, ConcatProperties
  <2>4. ByCount(five) = << >> \o <<t>> \o <<p>> \o << >>
    BY <1>4, <2>2 DEF ByCount
  <2>5. << >> \o <<t>> = <<t>> /\ (<<t>> \o <<p>>) \o << >> = <<t>> \o <<p>>
    BY <2>2, <2>3, NothingAround
  <2>6. QED
    BY <2>4, <2>5
<1>7. QED
  BY <1>1, <1>2, <1>3, <1>5, <1>6 DEF FiveCardRule, Led, t, p

LEMMA WorthThreeAlike ==
    ASSUME NEW five \in SUBSET FullDeck, NEW a, NEW b, NEW c, NEW d, NEW e,
           AreFive(five, a, b, c, d, e), ThreeAlike(a, b, c, d, e)
    PROVE  /\ FiveCardRule(five) = Led(4, Led(Rank(a), Highest(5, {Rank(d), Rank(e)})))
           /\ Cnt(five, Rank(a)) = 3
           /\ Rank(a) \in AllRanks /\ Rank(d) \in AllRanks /\ Rank(e) \in AllRanks
<1> DEFINE t == Rank(a)
           k == Rank(d)
           l == Rank(e)
<1>1. ~ InARow(five) /\ ~ OneSuit(five)
  BY PairedIsNoStraight, PairedIsOfTwoSuits DEF ThreeAlike
<1>2. /\ t \in AllRanks /\ k \in AllRanks /\ l \in AllRanks
      /\ t # k /\ t # l /\ k # l
  BY RanksOfFive DEF ThreeAlike
<1>3. /\ Cnt(five, t) = 3 /\ Cnt(five, k) = 1 /\ Cnt(five, l) = 1
      /\ \A r \in AllRanks : r # t /\ r # k /\ r # l => Cnt(five, r) = 0
  <2>1. \A r \in AllRanks :
           Cnt(five, r) = One(a, r) + One(b, r) + One(c, r) + One(d, r) + One(e, r)
    BY CntOfFive
  <2>2. QED
    BY <1>2, <2>1 DEF One, ThreeAlike
<1> HIDE DEF t, k, l
<1>4. /\ OfAKind(five, 4) = {} /\ OfAKind(five, 3) = {t}
      /\ OfAKind(five, 2) = {} /\ OfAKind(five, 1) = {k, l}
  <2>1. OfAKind(five, 4) = {} /\ OfAKind(five, 3) = {t}
    BY <1>2, <1>3, OfAKinds
  <2>2. OfAKind(five, 2) = {}
    BY <1>2, <1>3, OfAKinds
  <2>3. OfAKind(five, 1) = {k, l}
    BY <1>2, <1>3, OfAKinds
  <2>4. QED
    BY <2>1, <2>2, <2>3
<1>5. HowMany(five, 4) = 0 /\ HowMany(five, 3) = 1 /\ HowMany(five, 2) = 0
  BY <1>2, <1>4, FS_Singleton, FS_EmptySet, TwoCounted DEF HowMany
<1>6. ByCount(five) = <<t>> \o Highest(5, {k, l})
  <2>1. t \in Int /\ k \in Int /\ l \in Int
    BY <1>2 DEF AllRanks
  <2>2. Highest(5, {t}) = <<t>> /\ Highest(5, {}) = << >> /\ <<t>> \in Seq(Int)
    BY <2>1, HighestOfOne, HighestOfNone
  <2>3. QED
    BY <1>4, <2>2, NothingAround DEF ByCount
<1>7. QED
  BY <1>1, <1>2, <1>3, <1>5, <1>6 DEF FiveCardRule, Led, t, k, l

LEMMA WorthTwoAndTwo ==
    ASSUME NEW five \in SUBSET FullDeck, NEW a, NEW b, NEW c, NEW d, NEW e,
           AreFive(five, a, b, c, d, e), TwoAndTwo(a, b, c, d, e)
    PROVE  /\ FiveCardRule(five)
                 = Led(3, Highest(5, {Rank(a), Rank(c)}) \o Highest(5, {Rank(e)}))
           /\ Cnt(five, Rank(a)) = 2 /\ Cnt(five, Rank(c)) = 2
           /\ Rank(a) \in AllRanks /\ Rank(c) \in AllRanks /\ Rank(e) \in AllRanks
<1> DEFINE p == Rank(a)
           q == Rank(c)
           k == Rank(e)
<1>1. ~ InARow(five) /\ ~ OneSuit(five)
  BY PairedIsNoStraight, PairedIsOfTwoSuits DEF TwoAndTwo
<1>2. /\ p \in AllRanks /\ q \in AllRanks /\ k \in AllRanks
      /\ p # q /\ p # k /\ q # k
  BY RanksOfFive DEF TwoAndTwo
<1>3. /\ Cnt(five, p) = 2 /\ Cnt(five, q) = 2 /\ Cnt(five, k) = 1
      /\ \A r \in AllRanks : r # p /\ r # q /\ r # k => Cnt(five, r) = 0
  <2>1. \A r \in AllRanks :
           Cnt(five, r) = One(a, r) + One(b, r) + One(c, r) + One(d, r) + One(e, r)
    BY CntOfFive
  <2>2. QED
    BY <1>2, <2>1 DEF One, TwoAndTwo
<1> HIDE DEF p, q, k
<1>4. /\ OfAKind(five, 4) = {} /\ OfAKind(five, 3) = {}
      /\ OfAKind(five, 2) = {p, q} /\ OfAKind(five, 1) = {k}
  <2>1. OfAKind(five, 4) = {} /\ OfAKind(five, 3) = {}
    BY <1>2, <1>3, OfAKinds
  <2>2. OfAKind(five, 2) = {p, q}
    BY <1>2, <1>3, OfAKinds
  <2>3. OfAKind(five, 1) = {k}
    BY <1>2, <1>3, OfAKinds
  <2>4. QED
    BY <2>1, <2>2, <2>3
<1>5. HowMany(five, 4) = 0 /\ HowMany(five, 3) = 0 /\ HowMany(five, 2) = 2
  <2>1. Cardinality({p, q}) = 2
    BY <1>2, TwoCounted
  <2>2. QED
    BY <1>4, <2>1, FS_EmptySet DEF HowMany
<1>6. ByCount(five) = Highest(5, {p, q}) \o Highest(5, {k})
  <2>1. p \in Int /\ q \in Int /\ k \in Int
    BY <1>2 DEF AllRanks
  <2>2. Highest(5, {}) = << >> /\ << >> \in Seq(Int)
    BY <2>1, HighestOfOne, HighestOfNone
  <2>3. IsFiniteSet({p, q}) /\ {p, q} \in SUBSET Int
    BY <1>2, <2>1, TwoCounted
  <2>4. Highest(5, {p, q}) \in Seq(Int)
    BY <2>3, HighestTyped
  <2>5. ByCount(five) = << >> \o << >> \o Highest(5, {p, q}) \o Highest(5, {k})
    BY <1>4, <2>2 DEF ByCount
  <2>6. << >> \o << >> = << >> /\ << >> \o Highest(5, {p, q}) = Highest(5, {p, q})
    BY <2>2, <2>4, NothingAround
  <2>7. QED
    BY <2>5, <2>6
<1>7. QED
  BY <1>1, <1>2, <1>3, <1>5, <1>6 DEF FiveCardRule, Led, p, q, k

LEMMA WorthTwoAlike ==
    ASSUME NEW five \in SUBSET FullDeck, NEW a, NEW b, NEW c, NEW d, NEW e,
           AreFive(five, a, b, c, d, e), TwoAlike(a, b, c, d, e)
    PROVE  /\ FiveCardRule(five)
                 = Led(2, Led(Rank(a), Highest(5, {Rank(c), Rank(d), Rank(e)})))
           /\ Cnt(five, Rank(a)) = 2
           /\ Rank(a) \in AllRanks /\ Rank(c) \in AllRanks
           /\ Rank(d) \in AllRanks /\ Rank(e) \in AllRanks
<1> DEFINE p == Rank(a)
           k == Rank(c)
           l == Rank(d)
           m == Rank(e)
<1>1. ~ InARow(five) /\ ~ OneSuit(five)
  BY PairedIsNoStraight, PairedIsOfTwoSuits DEF TwoAlike
<1>2. /\ p \in AllRanks /\ k \in AllRanks /\ l \in AllRanks /\ m \in AllRanks
      /\ p # k /\ p # l /\ p # m /\ k # l /\ k # m /\ l # m
  BY RanksOfFive DEF TwoAlike
<1>3. /\ Cnt(five, p) = 2 /\ Cnt(five, k) = 1 /\ Cnt(five, l) = 1 /\ Cnt(five, m) = 1
      /\ \A r \in AllRanks : r # p /\ r # k /\ r # l /\ r # m => Cnt(five, r) = 0
  <2>1. \A r \in AllRanks :
           Cnt(five, r) = One(a, r) + One(b, r) + One(c, r) + One(d, r) + One(e, r)
    BY CntOfFive
  <2>2. QED
    BY <1>2, <2>1 DEF One, TwoAlike
<1> HIDE DEF p, k, l, m
<1>4. /\ OfAKind(five, 4) = {} /\ OfAKind(five, 3) = {}
      /\ OfAKind(five, 2) = {p} /\ OfAKind(five, 1) = {k, l, m}
  <2>1. OfAKind(five, 4) = {} /\ OfAKind(five, 3) = {}
    BY <1>2, <1>3, OfAKinds
  <2>2. OfAKind(five, 2) = {p}
    BY <1>2, <1>3, OfAKinds
  <2>3. OfAKind(five, 1) = {k, l, m}
    BY <1>2, <1>3, OfAKinds
  <2>4. QED
    BY <2>1, <2>2, <2>3
<1>5. HowMany(five, 4) = 0 /\ HowMany(five, 3) = 0 /\ HowMany(five, 2) = 1
  BY <1>2, <1>4, FS_Singleton, FS_EmptySet, TwoCounted DEF HowMany
<1>6. ByCount(five) = <<p>> \o Highest(5, {k, l, m})
  <2>1. p \in Int /\ k \in Int /\ l \in Int /\ m \in Int
    BY <1>2 DEF AllRanks
  <2>2. /\ Highest(5, {p}) = <<p>> /\ Highest(5, {}) = << >>
        /\ <<p>> \in Seq(Int) /\ << >> \in Seq(Int)
    BY <2>1, HighestOfOne, HighestOfNone
  <2>3. QED
    BY <1>4, <2>2, NothingAround DEF ByCount
<1>7. QED
  BY <1>1, <1>2, <1>3, <1>5, <1>6 DEF FiveCardRule, Led, p, k, l, m

LEMMA WorthNoneAlike ==
    ASSUME NEW five \in SUBSET FullDeck, NEW a, NEW b, NEW c, NEW d, NEW e,
           AreFive(five, a, b, c, d, e), NoneAlike(a, b, c, d, e)
    PROVE  /\ InARow(five) =>
                 FiveCardRule(five) = <<IF OneSuit(five) THEN 9 ELSE 5, StraightTo(five)>>
           /\ ~ InARow(five) =>
                 FiveCardRule(five)
                    = Led(IF OneSuit(five) THEN 6 ELSE 1, Highest(5, Ranks(five)))
           /\ Cardinality(Ranks(five)) = 5
<1>1. /\ Ranks(five) = {Rank(a), Rank(b), Rank(c), Rank(d), Rank(e)}
      /\ Ranks(five) \in SUBSET AllRanks /\ IsFiniteSet(Ranks(five))
  BY RanksOfFive, RanksAreFinite
<1>2. Cardinality(Ranks(five)) = 5
  <2>1. AreFive(Ranks(five), Rank(a), Rank(b), Rank(c), Rank(d), Rank(e))
    BY <1>1 DEF AreFive, NoneAlike
  <2>2. QED
    BY <2>1, FiveAreFive
<1>3. \A r \in AllRanks : Cnt(five, r) = IF r \in Ranks(five) THEN 1 ELSE 0
  <2>1. \A r \in AllRanks :
           Cnt(five, r) = One(a, r) + One(b, r) + One(c, r) + One(d, r) + One(e, r)
    BY CntOfFive
  <2>2. QED
    BY <1>1, <2>1 DEF One, NoneAlike
<1>4. /\ OfAKind(five, 4) = {} /\ OfAKind(five, 3) = {} /\ OfAKind(five, 2) = {}
      /\ OfAKind(five, 1) = Ranks(five)
  <2>1. OfAKind(five, 4) = {} /\ OfAKind(five, 3) = {} /\ OfAKind(five, 2) = {}
    BY <1>3, OfAKinds
  <2>2. OfAKind(five, 1) = Ranks(five)
    BY <1>1, <1>3, OfAKinds
  <2>3. QED
    BY <2>1, <2>2
<1>5. HowMany(five, 4) = 0 /\ HowMany(five, 3) = 0 /\ HowMany(five, 2) = 0
  BY <1>4, FS_EmptySet DEF HowMany
<1>6. ByCount(five) = Highest(5, Ranks(five))
  <2>1. Highest(5, Ranks(five)) \in Seq(Int)
    BY <1>1, HighestTyped DEF AllRanks
  <2>2. Highest(5, {}) = << >> /\ << >> \in Seq(Int)
    BY HighestOfNone
  <2>3. QED
    BY <1>4, <2>1, <2>2, NothingAround DEF ByCount
<1>7. QED
  BY <1>2, <1>5, <1>6 DEF FiveCardRule, Led

-----------------------------------------------------------------------------
(* Category and tie-break of value_of_hand *)

PairsOf(cards) == Highest(2, OfAKind(cards, 2))

CategoryOf(cards) ==
    IF StraightHighs(FlushRanks(cards)) # {} THEN 9
    ELSE IF OfAKind(cards, 4) # {} THEN 8
    ELSE IF OfAKind(cards, 3) # {} /\ FullHousePairs(cards) # {} THEN 7
    ELSE IF FlushRanks(cards) # {} THEN 6
    ELSE IF StraightHighs(Ranks(cards)) # {} THEN 5
    ELSE IF OfAKind(cards, 3) # {} THEN 4
    ELSE IF Len(PairsOf(cards)) = 2 THEN 3
    ELSE IF Len(PairsOf(cards)) = 1 THEN 2
    ELSE 1

TieOf(cards) ==
    IF CategoryOf(cards) = 9 THEN <<HighestOf(StraightHighs(FlushRanks(cards)))>>
    ELSE IF CategoryOf(cards) = 8
         THEN Led(HighestOf(OfAKind(cards, 4)), Highest(1, Ranks(cards) \ OfAKind(cards, 4)))
    ELSE IF CategoryOf(cards) = 7
         THEN Led(HighestOf(OfAKind(cards, 3)), <<HighestOf(FullHousePairs(cards))>>)
    ELSE IF CategoryOf(cards) = 6 THEN Highest(5, FlushRanks(cards))
    ELSE IF CategoryOf(cards) = 5 THEN <<HighestOf(StraightHighs(Ranks(cards)))>>
    ELSE IF CategoryOf(cards) = 4
         THEN Led(HighestOf(OfAKind(cards, 3)), Highest(2, Ranks(cards) \ OfAKind(cards, 3)))
    ELSE IF CategoryOf(cards) = 3
         THEN PairsOf(cards)
                 \o Highest(1, Ranks(cards) \ {PairsOf(cards)[1], PairsOf(cards)[2]})
    ELSE IF CategoryOf(cards) = 2
         THEN PairsOf(cards) \o Highest(3, Ranks(cards) \ {PairsOf(cards)[1]})
    ELSE Highest(5, Ranks(cards))

\* The highest of a set of ranks, and its top, are numbers.
LEMMA OfRanksTyped ==
    ASSUME NEW R \in SUBSET AllRanks
    PROVE  /\ IsFiniteSet(R) /\ R \in SUBSET Int
           /\ R # {} => HighestOf(R) \in R /\ HighestOf(R) \in Int /\ \A r \in R : r <= HighestOf(R)
           /\ \A n \in Nat : Highest(n, R) \in Seq(Int) /\ Highest(n, R) \in Seq(R)
<1>1. IsFiniteSet(AllRanks)
  <2>1. 0 \in Int /\ 12 \in Int
    OBVIOUS
  <2>2. QED
    BY <2>1, FS_Interval, Zenon DEF AllRanks
<1>2. IsFiniteSet(R)
  BY <1>1, FS_Subset
<1>3. R \in SUBSET Int
  BY DEF AllRanks
<1>4. QED
  BY <1>2, <1>3, HighestOfIsHighest, HighestTyped

LEMMA SetsOfRanks ==
    ASSUME NEW cards \in SUBSET FullDeck
    PROVE  /\ Ranks(cards) \in SUBSET AllRanks
           /\ OfAKind(cards, 2) \in SUBSET AllRanks
           /\ OfAKind(cards, 3) \in SUBSET AllRanks
           /\ OfAKind(cards, 4) \in SUBSET AllRanks
           /\ FullHousePairs(cards) \in SUBSET AllRanks
           /\ FlushRanks(cards) \in SUBSET Ranks(cards)
           /\ \A R : StraightHighs(R) \in SUBSET AllRanks
<1>1. /\ Ranks(cards) \in SUBSET AllRanks
      /\ OfAKind(cards, 2) \in SUBSET AllRanks
      /\ OfAKind(cards, 3) \in SUBSET AllRanks
      /\ OfAKind(cards, 4) \in SUBSET AllRanks
  BY RanksAreFinite, OfAKinds
<1>2. FullHousePairs(cards) \in SUBSET AllRanks
  BY <1>1 DEF FullHousePairs
<1>3. FlushRanks(cards) \in SUBSET Ranks(cards)
  BY DEF FlushRanks, SuitRanks, Ranks
<1>4. \A R : StraightHighs(R) \in SUBSET AllRanks
  BY DEF StraightHighs, AllRanks
<1>5. QED
  BY <1>1, <1>2, <1>3, <1>4

LEMMA PairsTyped ==
    ASSUME NEW cards \in SUBSET FullDeck
    PROVE  /\ PairsOf(cards) \in Seq(Int) /\ PairsOf(cards) \in Seq(OfAKind(cards, 2))
           /\ Len(PairsOf(cards)) = IF 2 < Cardinality(OfAKind(cards, 2))
                                    THEN 2 ELSE Cardinality(OfAKind(cards, 2))
<1>1. IsTop(PairsOf(cards), 2, OfAKind(cards, 2))
  BY SetsOfRanks, OfRanksTyped, HighestIsTop DEF PairsOf
<1>2. QED
  BY <1>1, SetsOfRanks, OfRanksTyped DEF IsTop, PairsOf

LEMMA TieTyped ==
    ASSUME NEW cards \in SUBSET FullDeck
    PROVE  TieOf(cards) \in Seq(Int) /\ CategoryOf(cards) \in Int
<1> DEFINE ranks == Ranks(cards)
<1>1. CategoryOf(cards) \in Int
  BY DEF CategoryOf
<1>2. CASE CategoryOf(cards) = 9
  <2>1. HighestOf(StraightHighs(FlushRanks(cards))) \in Int
    BY <1>2, SetsOfRanks, OfRanksTyped DEF CategoryOf
  <2>2. QED
    BY <1>1, <1>2, <2>1 DEF TieOf
<1>3. CASE CategoryOf(cards) = 8
  <2>1. HighestOf(OfAKind(cards, 4)) \in Int
    BY <1>3, SetsOfRanks, OfRanksTyped DEF CategoryOf
  <2>2. Highest(1, ranks \ OfAKind(cards, 4)) \in Seq(Int)
    BY SetsOfRanks, OfRanksTyped
  <2>3. QED
    BY <1>1, <1>3, <2>1, <2>2, LedTyped DEF TieOf
<1>4. CASE CategoryOf(cards) = 7
  <2>1. HighestOf(OfAKind(cards, 3)) \in Int /\ HighestOf(FullHousePairs(cards)) \in Int
    BY <1>4, SetsOfRanks, OfRanksTyped DEF CategoryOf
  <2>2. <<HighestOf(FullHousePairs(cards))>> \in Seq(Int)
    BY <2>1
  <2>3. TieOf(cards) = Led(HighestOf(OfAKind(cards, 3)), <<HighestOf(FullHousePairs(cards))>>)
    BY <1>4 DEF TieOf
  <2>4. TieOf(cards) \in Seq(Int)
    BY <2>1, <2>2, <2>3, LedTyped
  <2>5. QED
    BY <1>1, <2>4
<1>5. CASE CategoryOf(cards) = 6
  <2>1. Highest(5, FlushRanks(cards)) \in Seq(Int)
    BY SetsOfRanks, OfRanksTyped
  <2>2. QED
    BY <1>1, <1>5, <2>1 DEF TieOf
<1>6. CASE CategoryOf(cards) = 5
  <2>1. HighestOf(StraightHighs(ranks)) \in Int
    BY <1>6, SetsOfRanks, OfRanksTyped DEF CategoryOf
  <2>2. QED
    BY <1>1, <1>6, <2>1 DEF TieOf
<1>7. CASE CategoryOf(cards) = 4
  <2>1. HighestOf(OfAKind(cards, 3)) \in Int
    BY <1>7, SetsOfRanks, OfRanksTyped DEF CategoryOf
  <2>2. Highest(2, ranks \ OfAKind(cards, 3)) \in Seq(Int)
    BY SetsOfRanks, OfRanksTyped
  <2>3. QED
    BY <1>1, <1>7, <2>1, <2>2, LedTyped DEF TieOf
<1>8. CASE CategoryOf(cards) = 3
  <2>1. Highest(1, ranks \ {PairsOf(cards)[1], PairsOf(cards)[2]}) \in Seq(Int)
    BY SetsOfRanks, OfRanksTyped
  <2>2. QED
    BY <1>1, <1>8, <2>1, PairsTyped, ConcatProperties DEF TieOf
<1>9. CASE CategoryOf(cards) = 2
  <2>1. Highest(3, ranks \ {PairsOf(cards)[1]}) \in Seq(Int)
    BY SetsOfRanks, OfRanksTyped
  <2>2. QED
    BY <1>1, <1>9, <2>1, PairsTyped, ConcatProperties DEF TieOf
<1>10. CASE CategoryOf(cards) = 1
  <2>1. Highest(5, ranks) \in Seq(Int)
    BY SetsOfRanks, OfRanksTyped
  <2>2. QED
    BY <1>1, <1>10, <2>1 DEF TieOf
<1>11. CategoryOf(cards) \in {1, 2, 3, 4, 5, 6, 7, 8, 9}
  BY DEF CategoryOf
<1>12. QED
  BY <1>1, <1>2, <1>3, <1>4, <1>5, <1>6, <1>7, <1>8, <1>9, <1>10, <1>11

LEMMA ValueSplits ==
    ASSUME NEW cards \in SUBSET FullDeck
    PROVE  Value(cards) = Led(CategoryOf(cards), TieOf(cards))
<1> DEFINE ranks == Ranks(cards)
           v == CategoryOf(cards)
<1>1. \A a, b \in Int : <<a>> \o <<b>> = <<a, b>>
  BY OneAndTuple
<1>2. \A a, b, c \in Int : <<a>> \o (<<b>> \o <<c>>) = <<a, b, c>>
  <2> TAKE a, b, c \in Int
  <2>1. <<b>> \o <<c>> = <<b, c>>
    BY OneAndTuple
  <2>2. <<a>> \o <<b, c>> = <<a, b, c>>
    BY OneAndTuple
  <2>3. QED
    BY <2>1, <2>2
<1>3. \A a, b \in Int, t \in Seq(Int) : <<a>> \o (<<b>> \o t) = <<a, b>> \o t
  <2> TAKE a, b \in Int, t \in Seq(Int)
  <2>1. <<a>> \in Seq(Int) /\ <<b>> \in Seq(Int)
    OBVIOUS
  <2>2. <<a>> \o (<<b>> \o t) = (<<a>> \o <<b>>) \o t
    BY <2>1, ConcatAssociative
  <2>3. QED
    BY <1>1, <2>2
<1>4. \A a \in Int, t, u \in Seq(Int) : <<a>> \o (t \o u) = (<<a>> \o t) \o u
  BY ConcatAssociative
<1>5. CASE v = 9
  <2>1. HighestOf(StraightHighs(FlushRanks(cards))) \in Int
    BY <1>5, SetsOfRanks, OfRanksTyped DEF CategoryOf
  <2>2. Value(cards) = <<9, HighestOf(StraightHighs(FlushRanks(cards)))>>
    BY <1>5 DEF Value, CategoryOf
  <2>3. QED
    BY <1>1, <1>5, <2>1, <2>2 DEF TieOf, Led
<1>6. CASE v = 8
  <2>1. HighestOf(OfAKind(cards, 4)) \in Int
    BY <1>6, SetsOfRanks, OfRanksTyped DEF CategoryOf
  <2>2. Highest(1, ranks \ OfAKind(cards, 4)) \in Seq(Int)
    BY SetsOfRanks, OfRanksTyped
  <2>3. Value(cards) = <<8, HighestOf(OfAKind(cards, 4))>> \o Highest(1, ranks \ OfAKind(cards, 4))
    BY <1>6 DEF Value, CategoryOf
  <2>4. QED
    BY <1>3, <1>6, <2>1, <2>2, <2>3 DEF TieOf, Led
<1>7. CASE v = 7
  <2>1. HighestOf(OfAKind(cards, 3)) \in Int /\ HighestOf(FullHousePairs(cards)) \in Int
    BY <1>7, SetsOfRanks, OfRanksTyped DEF CategoryOf
  <2>2. Value(cards) = <<7, HighestOf(OfAKind(cards, 3)), HighestOf(FullHousePairs(cards))>>
    BY <1>7 DEF Value, CategoryOf
  <2>3. QED
    BY <1>2, <1>7, <2>1, <2>2 DEF TieOf, Led
<1>8. CASE v = 6
  BY <1>8 DEF Value, CategoryOf, TieOf, Led
<1>9. CASE v = 5
  <2>1. HighestOf(StraightHighs(ranks)) \in Int
    BY <1>9, SetsOfRanks, OfRanksTyped DEF CategoryOf
  <2>2. Value(cards) = <<5, HighestOf(StraightHighs(ranks))>>
    BY <1>9 DEF Value, CategoryOf
  <2>3. QED
    BY <1>1, <1>9, <2>1, <2>2 DEF TieOf, Led
<1>10. CASE v = 4
  <2>1. HighestOf(OfAKind(cards, 3)) \in Int
    BY <1>10, SetsOfRanks, OfRanksTyped DEF CategoryOf
  <2>2. Highest(2, ranks \ OfAKind(cards, 3)) \in Seq(Int)
    BY SetsOfRanks, OfRanksTyped
  <2>3. Value(cards) = <<4, HighestOf(OfAKind(cards, 3))>> \o Highest(2, ranks \ OfAKind(cards, 3))
    BY <1>10 DEF Value, CategoryOf
  <2>4. QED
    BY <1>3, <1>10, <2>1, <2>2, <2>3 DEF TieOf, Led
<1>11. CASE v = 3
  <2>1. Highest(1, ranks \ {PairsOf(cards)[1], PairsOf(cards)[2]}) \in Seq(Int)
    BY SetsOfRanks, OfRanksTyped
  <2>2. Value(cards) = <<3>> \o PairsOf(cards)
                          \o Highest(1, ranks \ {PairsOf(cards)[1], PairsOf(cards)[2]})
    BY <1>11 DEF Value, CategoryOf, PairsOf
  <2>3. QED
    BY <1>4, <1>11, <2>1, <2>2, PairsTyped DEF TieOf, Led
<1>12. CASE v = 2
  <2>1. Highest(3, ranks \ {PairsOf(cards)[1]}) \in Seq(Int)
    BY SetsOfRanks, OfRanksTyped
  <2>2. Value(cards) = <<2>> \o PairsOf(cards) \o Highest(3, ranks \ {PairsOf(cards)[1]})
    BY <1>12 DEF Value, CategoryOf, PairsOf
  <2>3. QED
    BY <1>4, <1>12, <2>1, <2>2, PairsTyped DEF TieOf, Led
<1>13. CASE v = 1
  BY <1>13 DEF Value, CategoryOf, TieOf, PairsOf, Led
<1>14. v \in {1, 2, 3, 4, 5, 6, 7, 8, 9}
  BY DEF CategoryOf
<1>15. QED
  BY <1>5, <1>6, <1>7, <1>8, <1>9, <1>10, <1>11, <1>12, <1>13, <1>14

-----------------------------------------------------------------------------
(* No five cards of a hand are worth more than the hand *)

\* Kickers among more ranks are worth no less.
LEMMA KickersOfMore ==
    ASSUME NEW R \in SUBSET AllRanks, NEW K \in SUBSET R, NEW n \in Nat, NEW m \in Nat,
           Cardinality(K) = n, n <= m
    PROVE  /\ AtMost(Highest(m, K), Highest(n, R))
           /\ Len(Highest(m, K)) = n /\ Len(Highest(n, R)) = n
<1>1. IsFiniteSet(R) /\ R \in SUBSET Int /\ IsFiniteSet(K) /\ K \in SUBSET Int
  BY OfRanksTyped
<1>2. Cardinality(K) <= Cardinality(R) /\ Cardinality(R) \in Nat
  BY <1>1, FS_Subset, FS_CardinalityType
<1>3. IsTop(Highest(m, K), m, K) /\ IsTop(Highest(n, R), n, R)
  BY <1>1, HighestIsTop
<1>4. Len(Highest(m, K)) = n /\ Len(Highest(n, R)) = n
  BY <1>2, <1>3 DEF IsTop
<1>5. QED
  BY <1>1, <1>3, <1>4, TopOfMore

LEMMA ThreeCounted ==
    ASSUME NEW a, NEW b, NEW c, a # b, a # c, b # c
    PROVE  Cardinality({a, b, c}) = 3
<1>1. IsFiniteSet({a, b}) /\ Cardinality({a, b}) = 2
  BY TwoCounted
<1>2. {a, b} \cup {c} = {a, b, c} /\ c \notin {a, b}
  OBVIOUS
<1>3. Cardinality({a, b} \cup {c}) = 3
  BY <1>1, <1>2, FS_AddElement
<1>4. QED
  BY <1>2, <1>3

LEMMA CategoryRange ==
    ASSUME NEW cards
    PROVE  CategoryOf(cards) \in {1, 2, 3, 4, 5, 6, 7, 8, 9}
BY DEF CategoryOf

\* The value of a hand is no less when its category is no lower and, for the same
\* category, its tie-break is no less.
LEMMA WorthNoMore ==
    ASSUME NEW cards \in SUBSET FullDeck, NEW v \in Int, NEW t \in Seq(Int),
           v <= CategoryOf(cards), CategoryOf(cards) = v => AtMost(t, TieOf(cards))
    PROVE  AtMost(Led(v, t), Value(cards))
BY ValueSplits, TieTyped, AtMostBehind

LEMMA FourAlikeNoMore ==
    ASSUME NEW cards \in SUBSET FullDeck, Cardinality(cards) <= 7, NEW five \in SUBSET cards,
           NEW a, NEW b, NEW c, NEW d, NEW e,
           AreFive(five, a, b, c, d, e), FourAlike(a, b, c, d, e)
    PROVE  AtMost(FiveCardRule(five), Value(cards))
<1> DEFINE q == Rank(a)
           k == Rank(e)
           quads == OfAKind(cards, 4)
           others == Ranks(cards) \ quads
<1>1. five \in SUBSET FullDeck
  OBVIOUS
<1>2. q \in AllRanks /\ k \in Ranks(five) /\ q # k
  BY <1>1, RanksOfFive DEF FourAlike
<1>3. Cnt(five, q) = 4 /\ FiveCardRule(five) = Led(8, Led(q, Highest(5, {k})))
  BY <1>1, WorthFourAlike
<1>4. Cnt(cards, q) = 4
  <2>1. Cnt(five, q) <= Cnt(cards, q)
    BY <1>2, CntGrows
  <2>2. Cnt(cards, q) \in 0 .. 4
    BY <1>2, CntRange
  <2>3. QED
    BY <1>3, <2>1, <2>2
<1>5. Cardinality(cards) \in Nat
  BY CardsAreFinite, FS_CardinalityType
<1>6. ASSUME NEW r \in quads PROVE r = q
  <2>1. r \in AllRanks /\ Cnt(cards, r) = 4
    BY OfAKinds
  <2>2. r # q => Cnt(cards, r) + Cnt(cards, q) <= Cardinality(cards)
    BY <1>2, <2>1, CntOfTwo
  <2>3. QED
    BY <1>4, <1>5, <2>1, <2>2
<1>7. quads = {q}
  BY <1>2, <1>4, <1>6, OfAKinds
<1>8. HighestOf(quads) = q
  BY <1>7, SetsOfRanks, OfRanksTyped
<1>9. k \in others
  BY <1>2, <1>7 DEF Ranks
<1>10. CategoryOf(cards) = 9 \/ CategoryOf(cards) = 8
  BY <1>7 DEF CategoryOf
<1> HIDE DEF q, k, quads
<1>11. AtMost(Highest(5, {k}), Highest(1, others))
  <2>1. others \in SUBSET AllRanks /\ {k} \in SUBSET others /\ Cardinality({k}) = 1
    BY <1>9, SetsOfRanks, FS_Singleton
  <2>2. QED
    BY <2>1, KickersOfMore
<1>12. q \in Int /\ Highest(5, {k}) \in Seq(Int) /\ Highest(1, others) \in Seq(Int)
  <2>1. q \in Int
    BY <1>2 DEF AllRanks
  <2>2. others \in SUBSET AllRanks /\ {k} \in SUBSET AllRanks
    BY <1>9, SetsOfRanks
  <2>3. QED
    BY <2>1, <2>2, OfRanksTyped
<1>13. AtMost(Led(q, Highest(5, {k})), Led(q, Highest(1, others)))
  BY <1>11, <1>12, AtMostBehind
<1>14. CategoryOf(cards) = 8 => TieOf(cards) = Led(q, Highest(1, others))
  BY <1>8 DEF TieOf, quads
<1>15. Led(q, Highest(5, {k})) \in Seq(Int)
  BY <1>12, LedTyped
<1>16. 8 <= CategoryOf(cards) /\ (CategoryOf(cards) = 8 =>
                                     AtMost(Led(q, Highest(5, {k})), TieOf(cards)))
  BY <1>10, <1>13, <1>14
<1>17. QED
  BY <1>3, <1>15, <1>16, WorthNoMore

\* A rank of which some of the five cards are is one of which there are as many
\* cards in the hand.
LEMMA KindsOfMore ==
    ASSUME NEW cards \in SUBSET FullDeck, NEW five \in SUBSET cards, NEW r \in AllRanks
    PROVE  /\ Cnt(five, r) = 2 => \/ r \in OfAKind(cards, 2) \/ r \in OfAKind(cards, 3)
                                  \/ r \in OfAKind(cards, 4)
           /\ Cnt(five, r) = 3 => r \in OfAKind(cards, 3) \/ r \in OfAKind(cards, 4)
<1>1. Cnt(five, r) <= Cnt(cards, r)
  BY CntGrows
<1>2. Cnt(cards, r) \in 0 .. 4
  BY CntRange
<1>3. /\ r \in OfAKind(cards, 2) <=> Cnt(cards, r) = 2
      /\ r \in OfAKind(cards, 3) <=> Cnt(cards, r) = 3
      /\ r \in OfAKind(cards, 4) <=> Cnt(cards, r) = 4
  BY OfAKinds
<1>4. QED
  BY <1>1, <1>2, <1>3

\* Two ranks of three cards each, and the lower of them is the pair.
LEMMA LowerIsPair ==
    ASSUME NEW cards \in SUBSET FullDeck, NEW p \in OfAKind(cards, 3),
           NEW t \in OfAKind(cards, 3), p < t
    PROVE  p \in FullHousePairs(cards)
BY DEF FullHousePairs

LEMMA FullHouseFound ==
    ASSUME NEW cards \in SUBSET FullDeck, NEW t \in OfAKind(cards, 3), NEW p \in AllRanks, p # t,
           p \in OfAKind(cards, 2) \/ p \in OfAKind(cards, 3)
    PROVE  FullHousePairs(cards) # {}
<1>1. CASE p \in OfAKind(cards, 3)
  <2>1. p \in Int /\ t \in Int
    BY SetsOfRanks, OfRanksTyped
  <2>2. p < t \/ t < p
    BY <2>1
  <2>3. QED
    BY <1>1, <2>2, LowerIsPair
<1>2. CASE p \in OfAKind(cards, 2)
  BY <1>2 DEF FullHousePairs
<1>3. QED
  BY <1>1, <1>2

LEMMA ThreeAndTwoNoMore ==
    ASSUME NEW cards \in SUBSET FullDeck, Cardinality(cards) <= 7, NEW five \in SUBSET cards,
           NEW a, NEW b, NEW c, NEW d, NEW e,
           AreFive(five, a, b, c, d, e), ThreeAndTwo(a, b, c, d, e)
    PROVE  AtMost(FiveCardRule(five), Value(cards))
<1> DEFINE t == Rank(a)
           p == Rank(d)
           trips == OfAKind(cards, 3)
           second == FullHousePairs(cards)
<1>1. five \in SUBSET FullDeck
  OBVIOUS
<1>2. t \in AllRanks /\ p \in AllRanks /\ t # p
  BY <1>1, RanksOfFive DEF ThreeAndTwo
<1>3. Cnt(five, t) = 3 /\ Cnt(five, p) = 2 /\ FiveCardRule(five) = Led(7, Led(t, <<p>>))
  BY <1>1, WorthThreeAndTwo
<1> HIDE DEF t, p
<1>4. /\ t \in trips \/ t \in OfAKind(cards, 4)
      /\ p \in OfAKind(cards, 2) \/ p \in trips \/ p \in OfAKind(cards, 4)
  BY <1>2, <1>3, KindsOfMore
<1>5. 7 <= CategoryOf(cards)
  <2>1. CASE OfAKind(cards, 4) # {}
    BY <2>1 DEF CategoryOf
  <2>2. CASE OfAKind(cards, 4) = {}
    <3>1. trips # {} /\ second # {}
      BY <1>2, <1>4, <2>2, FullHouseFound
    <3>2. QED
      BY <3>1 DEF CategoryOf
  <2>3. QED
    BY <2>1, <2>2
<1>6. ASSUME CategoryOf(cards) = 7 PROVE AtMost(Led(t, <<p>>), TieOf(cards))
  <2>1. OfAKind(cards, 4) = {} /\ trips # {} /\ second # {}
    BY <1>6 DEF CategoryOf
  <2>2. TieOf(cards) = Led(HighestOf(trips), <<HighestOf(second)>>)
    BY <1>6 DEF TieOf
  <2>3. /\ HighestOf(trips) \in trips /\ HighestOf(trips) \in Int /\ t <= HighestOf(trips)
        /\ p \in trips => p <= HighestOf(trips)
        /\ HighestOf(second) \in Int /\ \A r \in second : r <= HighestOf(second)
    BY <1>4, <2>1, SetsOfRanks, OfRanksTyped
  <2> DEFINE top == HighestOf(trips)
  <2> HIDE DEF top
  <2>4. p \in Int /\ t \in Int
    BY <1>2 DEF AllRanks
  <2>5. ASSUME t = top PROVE p \in second
    <3>1. CASE p \in trips
      <4>1. p < t
        BY <1>2, <2>3, <2>4, <2>5, <3>1 DEF top
      <4>2. QED
        BY <1>4, <2>1, <3>1, <4>1, LowerIsPair
    <3>2. CASE p \in OfAKind(cards, 2)
      <4>1. Cnt(cards, t) = 3 /\ Cnt(cards, p) = 2
        BY <1>2, <1>4, <2>1, <3>2, OfAKinds
      <4>2. ASSUME NEW low \in trips, low # t PROVE FALSE
        <5>1. low \in AllRanks /\ Cnt(cards, low) = 3 /\ low # p
          BY <1>2, <4>1, <4>2, OfAKinds
        <5>2. Cnt(cards, t) + Cnt(cards, p) + Cnt(cards, low) <= Cardinality(cards)
          BY <1>2, <4>2, <5>1, CntOfThree
        <5>3. Cardinality(cards) \in Nat
          BY CardsAreFinite, FS_CardinalityType
        <5>4. QED
          BY <4>1, <5>1, <5>2, <5>3
      <4>3. \A low, higher \in trips : ~ (low < higher)
        BY <4>2, <2>4
      <4>4. QED
        BY <3>2, <4>3 DEF FullHousePairs
    <3>3. QED
      BY <1>4, <2>1, <3>1, <3>2
  <2>6. t = top => AtMost(<<p>>, <<HighestOf(second)>>)
    BY <2>3, <2>4, <2>5, AtMostOne
  <2>7. <<p>> \in Seq(Int) /\ <<HighestOf(second)>> \in Seq(Int)
    BY <2>3, <2>4
  <2>8. AtMost(Led(t, <<p>>), Led(top, <<HighestOf(second)>>))
    BY <2>3, <2>4, <2>6, <2>7, AtMostBehind DEF top
  <2>9. QED
    BY <2>2, <2>8 DEF top
<1>7. Led(t, <<p>>) \in Seq(Int)
  <2>1. t \in Int /\ p \in Int
    BY <1>2 DEF AllRanks
  <2>2. <<p>> \in Seq(Int)
    BY <2>1
  <2>3. QED
    BY <2>1, <2>2, LedTyped
<1>8. QED
  BY <1>3, <1>5, <1>6, <1>7, WorthNoMore

LEMMA ThreeAlikeNoMore ==
    ASSUME NEW cards \in SUBSET FullDeck, NEW five \in SUBSET cards,
           NEW a, NEW b, NEW c, NEW d, NEW e,
           AreFive(five, a, b, c, d, e), ThreeAlike(a, b, c, d, e)
    PROVE  AtMost(FiveCardRule(five), Value(cards))
<1> DEFINE t == Rank(a)
           k == Rank(d)
           l == Rank(e)
           trips == OfAKind(cards, 3)
           others == Ranks(cards) \ trips
<1>1. five \in SUBSET FullDeck
  OBVIOUS
<1>2. t \in AllRanks /\ k \in Ranks(five) /\ l \in Ranks(five) /\ t # k /\ t # l /\ k # l
  BY <1>1, RanksOfFive DEF ThreeAlike
<1>3. Cnt(five, t) = 3 /\ FiveCardRule(five) = Led(4, Led(t, Highest(5, {k, l})))
  BY <1>1, WorthThreeAlike
<1>4. k \in Ranks(cards) /\ l \in Ranks(cards)
  BY <1>2 DEF Ranks
<1> HIDE DEF t, k, l
<1>5. t \in trips \/ t \in OfAKind(cards, 4)
  BY <1>2, <1>3, KindsOfMore
<1>6. 4 <= CategoryOf(cards)
  BY <1>5 DEF CategoryOf
<1>7. t \in Int /\ Highest(5, {k, l}) \in Seq(Int) /\ {k, l} \in SUBSET AllRanks
  <2>1. t \in Int
    BY <1>2 DEF AllRanks
  <2>2. {k, l} \in SUBSET AllRanks
    BY <1>4, SetsOfRanks
  <2>3. QED
    BY <2>1, <2>2, OfRanksTyped
<1>8. ASSUME CategoryOf(cards) = 4
      PROVE  AtMost(Led(t, Highest(5, {k, l})), TieOf(cards))
  <2>1. OfAKind(cards, 4) = {} /\ t \in trips /\ FullHousePairs(cards) = {}
    BY <1>5, <1>8 DEF CategoryOf
  <2>2. \A r \in trips : r = t
    BY <2>1, SetsOfRanks, FullHouseFound
  <2>3. trips = {t} /\ HighestOf(trips) = t
    BY <2>1, <2>2, SetsOfRanks, OfRanksTyped
  <2>4. AtMost(Highest(5, {k, l}), Highest(2, others))
    <3>1. {k, l} \in SUBSET others /\ others \in SUBSET AllRanks
      BY <1>2, <1>4, <2>3, SetsOfRanks
    <3>2. Cardinality({k, l}) = 2
      BY <1>2, TwoCounted
    <3>3. QED
      BY <3>1, <3>2, KickersOfMore
  <2>5. Highest(2, others) \in Seq(Int)
    BY SetsOfRanks, OfRanksTyped
  <2>6. TieOf(cards) = Led(t, Highest(2, others))
    BY <1>8, <2>3 DEF TieOf
  <2>7. QED
    BY <1>7, <2>4, <2>5, <2>6, AtMostBehind
<1>9. Led(t, Highest(5, {k, l})) \in Seq(Int)
  BY <1>7, LedTyped
<1>10. QED
  BY <1>3, <1>6, <1>8, <1>9, WorthNoMore

LEMMA TwoAndTwoNoMore ==
    ASSUME NEW cards \in SUBSET FullDeck, NEW five \in SUBSET cards,
           NEW a, NEW b, NEW c, NEW d, NEW e,
           AreFive(five, a, b, c, d, e), TwoAndTwo(a, b, c, d, e)
    PROVE  AtMost(FiveCardRule(five), Value(cards))
<1> DEFINE p == Rank(a)
           q == Rank(c)
           k == Rank(e)
           twos == OfAKind(cards, 2)
           pairs == PairsOf(cards)
           others == Ranks(cards) \ {pairs[1], pairs[2]}
<1>1. five \in SUBSET FullDeck
  OBVIOUS
<1>2. /\ p \in AllRanks /\ q \in AllRanks /\ k \in Ranks(five)
      /\ p # q /\ p # k /\ q # k
  <2>1. /\ Ranks(five) = {Rank(a), Rank(b), Rank(c), Rank(d), Rank(e)}
        /\ p \in AllRanks /\ q \in AllRanks
    BY <1>1, RanksOfFive
  <2>2. p # q /\ p # k /\ q # k
    BY DEF TwoAndTwo
  <2>3. QED
    BY <2>1, <2>2
<1>3. /\ Cnt(five, p) = 2 /\ Cnt(five, q) = 2
      /\ FiveCardRule(five) = Led(3, Highest(5, {p, q}) \o Highest(5, {k}))
  BY <1>1, WorthTwoAndTwo
<1>4. k \in Ranks(cards)
  BY <1>2 DEF Ranks
<1> HIDE DEF p, q, k
<1>5. /\ p \in twos \/ p \in OfAKind(cards, 3) \/ p \in OfAKind(cards, 4)
      /\ q \in twos \/ q \in OfAKind(cards, 3) \/ q \in OfAKind(cards, 4)
  BY <1>2, <1>3, KindsOfMore
<1>6. Len(pairs) = (IF 2 < Cardinality(twos) THEN 2 ELSE Cardinality(twos)) /\ pairs \in Seq(Int)
  BY PairsTyped
<1>7. ASSUME p \in twos, q \in twos
      PROVE  Len(pairs) = 2 /\ AtMost(Highest(5, {p, q}), pairs) /\ Len(Highest(5, {p, q})) = 2
  <2>1. {p, q} \in SUBSET twos /\ Cardinality({p, q}) = 2
    BY <1>2, <1>7, TwoCounted
  <2>2. twos \in SUBSET AllRanks
    BY SetsOfRanks
  <2> DEFINE K == {p, q}
             R == OfAKind(cards, 2)
  <2>3. /\ AtMost(Highest(5, K), Highest(2, R))
        /\ Len(Highest(5, K)) = 2 /\ Len(Highest(2, R)) = 2
    <3>1. K \in SUBSET R /\ R \in SUBSET AllRanks /\ Cardinality(K) = 2
      BY <2>1, <2>2
    <3> HIDE DEF K, R
    <3>2. 5 \in Nat /\ 2 \in Nat /\ 2 <= 5
      OBVIOUS
    <3>3. QED
      BY <3>1, <3>2, KickersOfMore
  <2>4. QED
    BY <2>3 DEF PairsOf
<1>8. 3 <= CategoryOf(cards)
  <2>1. CASE OfAKind(cards, 4) # {} \/ OfAKind(cards, 3) # {}
    BY <2>1 DEF CategoryOf
  <2>2. CASE OfAKind(cards, 4) = {} /\ OfAKind(cards, 3) = {}
    BY <1>5, <1>7, <2>2 DEF CategoryOf
  <2>3. QED
    BY <2>1, <2>2
<1>9. /\ {p, q} \in SUBSET AllRanks /\ {k} \in SUBSET AllRanks
      /\ Highest(5, {p, q}) \in Seq(Int) /\ Highest(5, {k}) \in Seq(Int)
  <2>1. {p, q} \in SUBSET AllRanks /\ {k} \in SUBSET AllRanks
    BY <1>2, <1>4, SetsOfRanks
  <2>2. QED
    BY <2>1, OfRanksTyped
<1>10. ASSUME CategoryOf(cards) = 3
       PROVE  AtMost(Highest(5, {p, q}) \o Highest(5, {k}), TieOf(cards))
  <2>1. p \in twos /\ q \in twos
    BY <1>5, <1>10 DEF CategoryOf
  <2>2. TieOf(cards) = pairs \o Highest(1, others)
    BY <1>10 DEF TieOf
  <2>3. ASSUME Highest(5, {p, q}) = pairs PROVE AtMost(Highest(5, {k}), Highest(1, others))
    <3>1. Highest(5, {p, q}) \in Seq({p, q})
      BY <1>9, OfRanksTyped
    <3>2. pairs[1] \in {p, q} /\ pairs[2] \in {p, q}
      BY <1>7, <2>1, <2>3, <3>1, ElementOfSeq
    <3>3. {k} \in SUBSET others /\ others \in SUBSET AllRanks /\ Cardinality({k}) = 1
      BY <1>2, <1>4, <3>2, SetsOfRanks, FS_Singleton
    <3>4. QED
      BY <3>3, KickersOfMore
  <2>4. Highest(1, others) \in Seq(Int)
    BY SetsOfRanks, OfRanksTyped
  <2>5. QED
    BY <1>6, <1>7, <1>9, <2>1, <2>2, <2>3, <2>4, AtMostConcat
<1>11. Highest(5, {p, q}) \o Highest(5, {k}) \in Seq(Int)
  BY <1>9, ConcatProperties
<1> DEFINE tie == Highest(5, {p, q}) \o Highest(5, {k})
<1>12. /\ tie \in Seq(Int) /\ FiveCardRule(five) = Led(3, tie)
       /\ CategoryOf(cards) = 3 => AtMost(tie, TieOf(cards))
  BY <1>3, <1>10, <1>11
<1> HIDE DEF tie
<1>13. AtMost(Led(3, tie), Value(cards))
  BY <1>8, <1>12, WorthNoMore
<1>14. QED
  BY <1>12, <1>13

LEMMA TwoAlikeNoMore ==
    ASSUME NEW cards \in SUBSET FullDeck, NEW five \in SUBSET cards,
           NEW a, NEW b, NEW c, NEW d, NEW e,
           AreFive(five, a, b, c, d, e), TwoAlike(a, b, c, d, e)
    PROVE  AtMost(FiveCardRule(five), Value(cards))
<1> DEFINE p == Rank(a)
           k == Rank(c)
           l == Rank(d)
           m == Rank(e)
           twos == OfAKind(cards, 2)
           pairs == PairsOf(cards)
           others == Ranks(cards) \ {pairs[1]}
<1>1. five \in SUBSET FullDeck
  OBVIOUS
<1>2. /\ p \in AllRanks /\ k \in Ranks(five) /\ l \in Ranks(five) /\ m \in Ranks(five)
      /\ p # k /\ p # l /\ p # m /\ k # l /\ k # m /\ l # m
  BY <1>1, RanksOfFive DEF TwoAlike
<1>3. Cnt(five, p) = 2 /\ FiveCardRule(five) = Led(2, Led(p, Highest(5, {k, l, m})))
  BY <1>1, WorthTwoAlike
<1>4. k \in Ranks(cards) /\ l \in Ranks(cards) /\ m \in Ranks(cards)
  BY <1>2 DEF Ranks
<1> HIDE DEF p, k, l, m
<1>5. p \in twos \/ p \in OfAKind(cards, 3) \/ p \in OfAKind(cards, 4)
  BY <1>2, <1>3, KindsOfMore
<1>6. IsFiniteSet(twos) /\ Cardinality(twos) \in Nat
  BY SetsOfRanks, OfRanksTyped, FS_CardinalityType
<1>7. Len(pairs) = IF 2 < Cardinality(twos) THEN 2 ELSE Cardinality(twos)
  BY PairsTyped
<1>8. 2 <= CategoryOf(cards)
  <2>1. CASE OfAKind(cards, 4) # {} \/ OfAKind(cards, 3) # {}
    BY <2>1 DEF CategoryOf
  <2>2. CASE OfAKind(cards, 4) = {} /\ OfAKind(cards, 3) = {}
    <3>1. Cardinality(twos) # 0
      BY <1>5, <1>6, <2>2, FS_EmptySet
    <3>2. Len(pairs) = 1 \/ Len(pairs) = 2
      BY <1>6, <1>7, <3>1
    <3>3. QED
      BY <3>2 DEF CategoryOf
  <2>3. QED
    BY <2>1, <2>2
<1>9. p \in Int /\ Highest(5, {k, l, m}) \in Seq(Int)
  <2>1. p \in Int
    BY <1>2 DEF AllRanks
  <2>2. {k, l, m} \in SUBSET AllRanks
    BY <1>4, SetsOfRanks
  <2>3. QED
    BY <2>1, <2>2, OfRanksTyped
<1>10. ASSUME CategoryOf(cards) = 2
       PROVE  AtMost(Led(p, Highest(5, {k, l, m})), TieOf(cards))
  <2>1. p \in twos /\ Len(pairs) = 1
    BY <1>5, <1>10 DEF CategoryOf
  <2>2. Cardinality(twos) = 1
    BY <1>6, <1>7, <2>1
  <2>3. twos = {p}
    <3>1. {p} \in SUBSET twos /\ Cardinality({p}) = 1
      BY <2>1, FS_Singleton
    <3>2. QED
      BY <1>6, <2>2, <3>1, FS_Subset
  <2>4. pairs = <<p>>
    BY <1>9, <2>3, HighestOfOne DEF PairsOf
  <2>5. TieOf(cards) = Led(p, Highest(3, Ranks(cards) \ {p}))
    BY <1>10, <2>4 DEF TieOf, Led
  <2>6. AtMost(Highest(5, {k, l, m}), Highest(3, Ranks(cards) \ {p}))
    <3>1. {k, l, m} \in SUBSET (Ranks(cards) \ {p})
      BY <1>2, <1>4
    <3>2. Ranks(cards) \ {p} \in SUBSET AllRanks
      BY SetsOfRanks
    <3>3. Cardinality({k, l, m}) = 3
      BY <1>2, ThreeCounted
    <3>4. QED
      BY <3>1, <3>2, <3>3, KickersOfMore
  <2>7. Highest(3, Ranks(cards) \ {p}) \in Seq(Int)
    BY SetsOfRanks, OfRanksTyped
  <2>8. QED
    BY <1>9, <2>5, <2>6, <2>7, AtMostBehind
<1>11. Led(p, Highest(5, {k, l, m})) \in Seq(Int)
  BY <1>9, LedTyped
<1>12. QED
  BY <1>3, <1>8, <1>10, <1>11, WorthNoMore

-----------------------------------------------------------------------------
(* Straights and flushes *)

LEMMA StraightHighsGrow ==
    ASSUME NEW S, NEW R \in SUBSET S
    PROVE  StraightHighs(R) \subseteq StraightHighs(S)
<1>1. WithLowAce(R) \subseteq WithLowAce(S)
  BY DEF WithLowAce
<1>2. QED
  BY <1>1 DEF StraightHighs

\* The highest rank of five in a row.
LEMMA HighestOfRow ==
    ASSUME NEW low \in 0 .. 8
    PROVE  HighestOf(low .. low + 4) = low + 4
<1>1. low .. low + 4 \in SUBSET AllRanks /\ low + 4 \in low .. low + 4 /\ low + 4 \in Int
  BY DEF AllRanks
<1>2. /\ HighestOf(low .. low + 4) \in low .. low + 4 /\ HighestOf(low .. low + 4) \in Int
      /\ low + 4 <= HighestOf(low .. low + 4)
  BY <1>1, OfRanksTyped
<1>3. QED
  BY <1>2

\* Five ranks in a row are a straight to the highest of them.
LEMMA RowUpTo ==
    ASSUME NEW five, NEW low \in 0 .. 8, Ranks(five) = low .. low + 4
    PROVE  InARow(five) /\ StraightTo(five) = low + 4
<1> DEFINE R == Ranks(five)
<1>1. R \ {12} # 1 .. 4
  <2>1. CASE low = 8
    <3>1. 8 \in R \ {12} /\ 8 \notin 1 .. 4
      BY <2>1
    <3>2. QED
      BY <3>1
  <2>2. CASE low # 8
    <3>1. low \in R \ {12} /\ low + 4 \in R \ {12} /\ low \in 0 .. 7
      BY <2>2
    <3>2. ~ (low \in 1 .. 4 /\ low + 4 \in 1 .. 4)
      BY <3>1
    <3>3. QED
      BY <3>1, <3>2
  <2>3. QED
    BY <2>1, <2>2
<1>2. StraightTo(five) = low + 4
  BY <1>1, HighestOfRow DEF StraightTo, ACE
<1>3. InARow(five)
  BY DEF InARow
<1>4. QED
  BY <1>2, <1>3

\* The straight of five cards is one that the bit mask of their ranks finds.
LEMMA InARowIsStraight ==
    ASSUME NEW five \in SUBSET FullDeck, Cardinality(Ranks(five)) = 5, InARow(five)
    PROVE  StraightTo(five) \in StraightHighs(Ranks(five))
<1> DEFINE R == Ranks(five)
<1>1. R \in SUBSET AllRanks /\ IsFiniteSet(R) /\ Cardinality(R) = 5
  BY RanksAreFinite
<1>2. PICK low \in 0 .. 8 : low .. low + 4 \in {R, WithLowAce(R) \ {12}}
  BY DEF InARow, ACE
<1>3. R \ {12} = 1 .. 4 => StraightTo(five) = 4
  BY DEF StraightTo, ACE
<1>4. StraightHighs(R) = {hi \in 4 .. 12 : hi - 4 .. hi \subseteq WithLowAce(R)}
  BY DEF StraightHighs
<1> HIDE DEF R
<1>5. ASSUME R = low .. low + 4 PROVE StraightTo(five) \in StraightHighs(R)
  <2>1. StraightTo(five) = low + 4
    BY <1>5, RowUpTo DEF R
  <2>2. low + 4 \in 4 .. 12 /\ (low + 4) - 4 .. low + 4 = low .. low + 4
    OBVIOUS
  <2>3. R \subseteq WithLowAce(R)
    BY DEF WithLowAce
  <2>4. QED
    BY <1>4, <1>5, <2>1, <2>2, <2>3
<1>6. ASSUME 12 \in R, low .. low + 4 = (R \cup {0}) \ {12}
      PROVE  StraightTo(five) \in StraightHighs(R)
  <2>1. low = 0
    <3>1. 0 \in low .. low + 4
      BY <1>6
    <3>2. QED
      BY <3>1
  <2>2. 0 .. 4 = (R \cup {0}) \ {12}
    BY <1>6, <2>1
  <2>3. WithLowAce(R) = R \cup {0}
    BY <1>6 DEF WithLowAce, ACE
  <2>4. ASSUME 0 \in R PROVE FALSE
    <3>1. 0 .. 4 \in SUBSET R
      BY <2>2, <2>4
    <3>2. Cardinality(0 .. 4) = 5
      <4>1. 0 \in Int /\ 4 \in Int /\ ~ (0 > 4) /\ 4 - 0 + 1 = 5
        OBVIOUS
      <4>2. QED
        BY <4>1, FS_Interval
    <3>3. 0 .. 4 = R
      BY <1>1, <3>1, <3>2, FS_Subset
    <3>4. 12 \in 0 .. 4
      BY <1>6, <3>3
    <3>5. QED
      BY <3>4
  <2>5. R \ {12} = 1 .. 4
    <3>1. R \ {12} = ((R \cup {0}) \ {12}) \ {0}
      BY <2>4
    <3>2. R \ {12} = (0 .. 4) \ {0}
      BY <2>2, <3>1
    <3>3. QED
      BY <3>2
  <2>6. 4 \in StraightHighs(R)
    <3>1. 4 \in 4 .. 12 /\ 4 - 4 .. 4 = 0 .. 4
      OBVIOUS
    <3>2. QED
      BY <1>4, <2>2, <2>3, <3>1
  <2>7. QED
    BY <1>3, <2>5, <2>6
<1>7. CASE low .. low + 4 = R
  BY <1>5, <1>7 DEF R
<1>8. CASE low .. low + 4 = WithLowAce(R) \ {12}
  <2>1. CASE 12 \in R
    BY <1>6, <1>8, <2>1 DEF R, WithLowAce, ACE
  <2>2. CASE 12 \notin R
    <3>1. WithLowAce(R) \ {12} = R
      BY <2>2 DEF WithLowAce, ACE
    <3>2. QED
      BY <1>5, <1>8, <3>1 DEF R
  <2>3. QED
    BY <2>1, <2>2
<1>9. QED
  BY <1>2, <1>7, <1>8

\* Five cards of a suit are part of the hand's flush.
LEMMA OneSuitIsFlush ==
    ASSUME NEW cards \in SUBSET FullDeck, NEW five \in SUBSET cards,
           Cardinality(Ranks(five)) = 5, OneSuit(five)
    PROVE  Ranks(five) \subseteq FlushRanks(cards) /\ FlushRanks(cards) # {}
<1>1. Ranks(five) # {}
  BY FS_EmptySet
<1>2. PICK card \in five : TRUE
  BY <1>1 DEF Ranks
<1> DEFINE s == Suit(card)
<1>3. s \in 0 .. 3
  BY RankOfCard
<1>4. Ranks(five) \in SUBSET SuitRanks(cards, s)
  BY DEF OneSuit, Ranks, SuitRanks
<1>5. SuitRanks(cards, s) \in SUBSET Ranks(cards)
  BY DEF Ranks, SuitRanks
<1>6. IsFiniteSet(SuitRanks(cards, s)) /\ Cardinality(SuitRanks(cards, s)) \in Nat
  BY <1>5, RanksAreFinite, FS_CardinalityType
<1>7. 5 <= Cardinality(SuitRanks(cards, s))
  BY <1>4, <1>6, FS_Subset
<1>8. SuitRanks(cards, s) \subseteq FlushRanks(cards)
  BY <1>3, <1>6, <1>7 DEF FlushRanks
<1>9. QED
  BY <1>1, <1>4, <1>8

LEMMA NoneAlikeNoMore ==
    ASSUME NEW cards \in SUBSET FullDeck, NEW five \in SUBSET cards,
           NEW a, NEW b, NEW c, NEW d, NEW e,
           AreFive(five, a, b, c, d, e), NoneAlike(a, b, c, d, e)
    PROVE  AtMost(FiveCardRule(five), Value(cards))
<1> DEFINE R == Ranks(five)
           hi == StraightTo(five)
           flush == FlushRanks(cards)
<1>1. five \in SUBSET FullDeck
  OBVIOUS
<1>2. /\ InARow(five) => FiveCardRule(five) = <<IF OneSuit(five) THEN 9 ELSE 5, hi>>
      /\ ~ InARow(five) =>
            FiveCardRule(five) = Led(IF OneSuit(five) THEN 6 ELSE 1, Highest(5, R))
      /\ Cardinality(R) = 5
  BY <1>1, WorthNoneAlike
<1>3. R \in SUBSET Ranks(cards) /\ R \in SUBSET AllRanks /\ Ranks(cards) \in SUBSET AllRanks
  BY <1>1, RanksAreFinite DEF Ranks
<1>4. OneSuit(five) => R \in SUBSET flush /\ flush # {}
  BY <1>2, OneSuitIsFlush
<1>5. flush \in SUBSET AllRanks
  BY <1>3, SetsOfRanks
<1>6. InARow(five) => hi \in StraightHighs(R)
  BY <1>1, <1>2, InARowIsStraight
<1>7. \A S : R \subseteq S /\ InARow(five) =>
               /\ hi \in StraightHighs(S) /\ hi \in Int
               /\ HighestOf(StraightHighs(S)) \in Int /\ hi <= HighestOf(StraightHighs(S))
  <2> TAKE S
  <2> HAVE R \subseteq S /\ InARow(five)
  <2>1. hi \in StraightHighs(S)
    BY <1>6, StraightHighsGrow
  <2>2. StraightHighs(S) \in SUBSET AllRanks
    BY SetsOfRanks
  <2>3. StraightHighs(S) \in SUBSET Int
    BY <2>2, OfRanksTyped
  <2>4. QED
    BY <2>1, <2>2, <2>3, OfRanksTyped
<1>8. Highest(5, R) \in Seq(Int)
  BY <1>3, OfRanksTyped
<1> HIDE DEF R, hi, flush
<1>9. CASE InARow(five) /\ OneSuit(five)
  <2> DEFINE top == HighestOf(StraightHighs(flush))
  <2>1. hi \in StraightHighs(flush) /\ hi \in Int /\ top \in Int /\ hi <= top
    BY <1>4, <1>7, <1>9
  <2>2. CategoryOf(cards) = 9
    BY <2>1 DEF CategoryOf, flush
  <2>3. TieOf(cards) = <<top>>
    BY <2>2 DEF TieOf, flush
  <2>4. FiveCardRule(five) = Led(9, <<hi>>)
    BY <1>2, <1>9, <2>1, OneAndTuple DEF Led
  <2>5. AtMost(<<hi>>, TieOf(cards))
    BY <2>1, <2>3, AtMostOne
  <2>6. <<hi>> \in Seq(Int)
    BY <2>1
  <2> DEFINE tie == <<hi>>
  <2>7. /\ tie \in Seq(Int) /\ FiveCardRule(five) = Led(9, tie)
        /\ CategoryOf(cards) = 9 => AtMost(tie, TieOf(cards))
    BY <2>4, <2>5, <2>6
  <2> HIDE DEF tie
  <2>8. AtMost(Led(9, tie), Value(cards))
    BY <2>2, <2>7, WorthNoMore
  <2>9. QED
    BY <2>7, <2>8
<1>10. CASE InARow(five) /\ ~ OneSuit(five)
  <2> DEFINE top == HighestOf(StraightHighs(Ranks(cards)))
  <2>1. hi \in StraightHighs(Ranks(cards)) /\ hi \in Int /\ top \in Int /\ hi <= top
    BY <1>3, <1>7, <1>10
  <2>2. 5 <= CategoryOf(cards)
    BY <2>1 DEF CategoryOf
  <2>3. CategoryOf(cards) = 5 => TieOf(cards) = <<top>>
    BY DEF TieOf
  <2>4. FiveCardRule(five) = Led(5, <<hi>>)
    BY <1>2, <1>10, <2>1, OneAndTuple DEF Led
  <2>5. CategoryOf(cards) = 5 => AtMost(<<hi>>, TieOf(cards))
    BY <2>1, <2>3, AtMostOne
  <2>6. <<hi>> \in Seq(Int)
    BY <2>1
  <2> DEFINE tie == <<hi>>
  <2>7. /\ tie \in Seq(Int) /\ FiveCardRule(five) = Led(5, tie)
        /\ CategoryOf(cards) = 5 => AtMost(tie, TieOf(cards))
    BY <2>4, <2>5, <2>6
  <2> HIDE DEF tie
  <2>8. AtMost(Led(5, tie), Value(cards))
    BY <2>2, <2>7, WorthNoMore
  <2>9. QED
    BY <2>7, <2>8
<1>11. CASE ~ InARow(five) /\ OneSuit(five)
  <2>1. 6 <= CategoryOf(cards)
    BY <1>4, <1>11 DEF CategoryOf, flush
  <2>2. CategoryOf(cards) = 6 => TieOf(cards) = Highest(5, flush)
    BY DEF TieOf, flush
  <2>3. AtMost(Highest(5, R), Highest(5, flush))
    BY <1>2, <1>4, <1>5, <1>11, KickersOfMore
  <2>4. FiveCardRule(five) = Led(6, Highest(5, R))
    BY <1>2, <1>11
  <2>5. QED
    BY <1>8, <2>1, <2>2, <2>3, <2>4, WorthNoMore
<1>12. CASE ~ InARow(five) /\ ~ OneSuit(five)
  <2>1. 1 <= CategoryOf(cards)
    BY CategoryRange
  <2>2. CategoryOf(cards) = 1 => TieOf(cards) = Highest(5, Ranks(cards))
    BY DEF TieOf
  <2>3. AtMost(Highest(5, R), Highest(5, Ranks(cards)))
    BY <1>2, <1>3, KickersOfMore
  <2>4. FiveCardRule(five) = Led(1, Highest(5, R))
    BY <1>2, <1>12
  <2>5. QED
    BY <1>8, <2>1, <2>2, <2>3, <2>4, WorthNoMore
<1>13. QED
  BY <1>9, <1>10, <1>11, <1>12

\* No five cards of a hand of at most seven are worth more than value_of_hand says.
LEMMA NoFiveAreWorthMore ==
    ASSUME NEW cards \in SUBSET FullDeck, Cardinality(cards) <= 7,
           NEW five \in SUBSET cards, Cardinality(five) = 5
    PROVE  AtMost(FiveCardRule(five), Value(cards))
<1>1. five \in SUBSET FullDeck
  OBVIOUS
<1>2. PICK a, b, c, d, e \in five : AreFive(five, a, b, c, d, e) /\ ShapeOf(a, b, c, d, e)
  BY <1>1, ShapeOfFive
<1>3. QED
  BY <1>2, FourAlikeNoMore, ThreeAndTwoNoMore, ThreeAlikeNoMore, TwoAndTwoNoMore,
     TwoAlikeNoMore, NoneAlikeNoMore DEF ShapeOf

-----------------------------------------------------------------------------
(* Some five cards of a hand are worth as much as the hand *)

LEMMA TwoOf ==
    ASSUME NEW S, IsFiniteSet(S), Cardinality(S) >= 2
    PROVE  \E a, b \in S : a # b
<1>1. PICK a \in S : TRUE
  BY FS_EmptySet
<1>2. IsFiniteSet(S \ {a}) /\ Cardinality(S \ {a}) = Cardinality(S) - 1
  BY FS_RemoveElement
<1>3. PICK b \in S \ {a} : TRUE
  BY <1>2, FS_EmptySet, FS_CardinalityType
<1>4. QED
  BY <1>3

LEMMA ThreeOf ==
    ASSUME NEW S, IsFiniteSet(S), Cardinality(S) >= 3
    PROVE  \E a, b, c \in S : a # b /\ a # c /\ b # c
<1>1. PICK a \in S : TRUE
  BY FS_EmptySet
<1>2. IsFiniteSet(S \ {a}) /\ Cardinality(S \ {a}) >= 2
  <2>1. IsFiniteSet(S \ {a}) /\ Cardinality(S \ {a}) = Cardinality(S) - 1
    BY FS_RemoveElement
  <2>2. Cardinality(S) \in Nat
    BY FS_CardinalityType
  <2>3. QED
    BY <2>1, <2>2
<1>3. PICK b, c \in S \ {a} : b # c
  BY <1>2, TwoOf
<1>4. QED
  BY <1>3

LEMMA FourOf ==
    ASSUME NEW S, IsFiniteSet(S), Cardinality(S) >= 4
    PROVE  \E a, b, c, d \in S : a # b /\ a # c /\ a # d /\ b # c /\ b # d /\ c # d
<1>1. PICK a \in S : TRUE
  BY FS_EmptySet
<1>2. IsFiniteSet(S \ {a}) /\ Cardinality(S \ {a}) >= 3
  <2>1. IsFiniteSet(S \ {a}) /\ Cardinality(S \ {a}) = Cardinality(S) - 1
    BY FS_RemoveElement
  <2>2. Cardinality(S) \in Nat
    BY FS_CardinalityType
  <2>3. QED
    BY <2>1, <2>2
<1>3. PICK b, c, d \in S \ {a} : b # c /\ b # d /\ c # d
  BY <1>2, ThreeOf
<1>4. QED
  BY <1>3

LEMMA FiveOf ==
    ASSUME NEW S, IsFiniteSet(S), Cardinality(S) = 5
    PROVE  \E a, b, c, d, e \in S : AreFive(S, a, b, c, d, e)
<1>1. PICK a \in S : TRUE
  BY FS_EmptySet
<1>2. IsFiniteSet(S \ {a}) /\ Cardinality(S \ {a}) >= 4
  BY FS_RemoveElement
<1>3. PICK b, c, d, e \in S \ {a} : b # c /\ b # d /\ b # e /\ c # d /\ c # e /\ d # e
  BY <1>2, FourOf
<1> DEFINE all == {a, b, c, d, e}
<1>4. AreFive(all, a, b, c, d, e)
  BY <1>3 DEF AreFive
<1>5. all \in SUBSET S /\ Cardinality(all) = 5
  BY <1>4, FiveAreFive
<1>6. all = S
  BY <1>5, FS_Subset
<1>7. QED
  BY <1>4, <1>6

\* No two values are each at most the other.
LEMMA AtMostBoth ==
    ASSUME NEW t \in Seq(Int), NEW u \in Seq(Int), AtMost(t, u), AtMost(u, t)
    PROVE  t = u
<1>1. SUFFICES ASSUME t # u PROVE FALSE
  OBVIOUS
<1>2. PICK i \in DOMAIN t \cap DOMAIN u : t[i] < u[i] /\ \A j \in 1 .. i - 1 : t[j] = u[j]
  BY <1>1 DEF AtMost
<1>3. PICK k \in DOMAIN t \cap DOMAIN u : u[k] < t[k] /\ \A j \in 1 .. k - 1 : u[j] = t[j]
  BY <1>1 DEF AtMost
<1>4. DOMAIN t = 1 .. Len(t) /\ Len(t) \in Nat
  BY LenProperties
<1>5. i \in Nat \ {0} /\ k \in Nat \ {0}
  BY <1>4
<1>6. t[i] \in Int /\ u[i] \in Int /\ t[k] \in Int /\ u[k] \in Int
  <2>1. DOMAIN u = 1 .. Len(u)
    BY LenProperties
  <2>2. QED
    BY <1>4, <2>1, ElementOfSeq
<1>7. CASE i < k
  <2>1. t[i] = u[i]
    BY <1>3, <1>5, <1>7
  <2>2. QED
    BY <1>2, <1>6, <2>1
<1>8. CASE k < i
  <2>1. t[k] = u[k]
    BY <1>2, <1>5, <1>8
  <2>2. QED
    BY <1>3, <1>6, <2>1
<1>9. CASE i = k
  BY <1>2, <1>3, <1>6, <1>9
<1>10. QED
  BY <1>5, <1>7, <1>8, <1>9

\* The n highest of a set are n of its numbers, and the highest of those.
LEMMA TopElements ==
    ASSUME NEW R \in SUBSET AllRanks, NEW n \in Nat, n <= Cardinality(R)
    PROVE  \E K \in SUBSET R :
              /\ Cardinality(K) = n
              /\ \A m \in Nat : n <= m => Highest(m, K) = Highest(n, R)
<1> DEFINE t == Highest(n, R)
           K == {t[i] : i \in 1 .. n}
<1>1. IsFiniteSet(R) /\ R \in SUBSET Int /\ Cardinality(R) \in Nat
  BY OfRanksTyped, FS_CardinalityType
<1>2. IsTop(t, n, R)
  BY <1>1, HighestIsTop
<1> HIDE DEF t
<1>3. t \in Seq(R) /\ Len(t) = n /\ \A i, j \in 1 .. n : i < j => t[j] < t[i]
  BY <1>1, <1>2 DEF IsTop
<1>4. \A i \in 1 .. n : t[i] \in R /\ t[i] \in Int
  BY <1>1, <1>3, ElementOfSeq
<1>5. K \in SUBSET R
  BY <1>4
<1>6. IsFiniteSet(K) /\ Cardinality(K) = n
  <2> DEFINE f == [i \in 1 .. n |-> t[i]]
  <2>1. IsFiniteSet(1 .. n) /\ Cardinality(1 .. n) = n
    BY FS_Interval
  <2>2. f \in Surjection(1 .. n, K)
    BY DEF Surjection
  <2>3. \A i, j \in 1 .. n : t[i] = t[j] => i = j
    <3> TAKE i, j \in 1 .. n
    <3>1. (i < j) \/ (j < i) => t[i] # t[j]
      BY <1>3, <1>4
    <3>2. QED
      BY <3>1
  <2>4. f \in Injection(1 .. n, K)
    BY <2>3 DEF Injection, IsInjective
  <2>5. QED
    BY <2>1, <2>2, <2>4, FS_Surjection
<1>7. ASSUME NEW m \in Nat, n <= m PROVE Highest(m, K) = t
  <2>1. t \in Seq(K)
    <3>1. DOMAIN t = 1 .. n /\ \A i \in 1 .. n : t[i] \in K
      BY <1>3, LenProperties
    <3>2. t \in [1 .. n -> K]
      BY <1>3, <3>1, LenProperties
    <3>3. QED
      BY <3>2, SeqDef
  <2>2. Len(t) = IF m < Cardinality(K) THEN m ELSE Cardinality(K)
    BY <1>3, <1>6, <1>7
  <2>3. IsTop(t, m, K)
    BY <1>3, <2>1, <2>2 DEF IsTop
  <2> HIDE DEF K
  <2>4. K \in SUBSET Int
    BY <1>1, <1>5
  <2>5. IsTop(Highest(m, K), m, K)
    BY <1>6, <2>4, HighestIsTop
  <2>6. Len(Highest(m, K)) = Len(t)
    BY <2>2, <2>5 DEF IsTop
  <2>7. AtMost(Highest(m, K), t) /\ AtMost(t, Highest(m, K))
    BY <2>3, <2>4, <2>5, <2>6, TopOfMore
  <2>8. Highest(m, K) \in Seq(Int) /\ t \in Seq(Int)
    BY <1>6, <2>1, <2>4, HighestTyped, SeqMonotonic
  <2>9. QED
    BY <2>7, <2>8, AtMostBoth
<1>8. QED
  BY <1>5, <1>6, <1>7 DEF t

\* A card of each rank of a hand.
LEMMA CardOfEachRank ==
    ASSUME NEW cards, NEW r \in Ranks(cards)
    PROVE  \E c \in cards : Rank(c) = r
BY DEF Ranks

LEMMA RanksApart ==
    ASSUME NEW a, NEW b, NEW c, NEW d, NEW e, NoneAlike(a, b, c, d, e)
    PROVE  AreFive({a, b, c, d, e}, a, b, c, d, e)
BY DEF NoneAlike, AreFive

\* Where the bit mask finds a straight there are five cards that are one.
LEMMA StraightFound ==
    ASSUME NEW part \in SUBSET FullDeck, NEW hi \in StraightHighs(Ranks(part))
    PROVE  \E five \in SUBSET part :
              /\ Cardinality(five) = 5 /\ Cardinality(Ranks(five)) = 5
              /\ FiveCardRule(five) = <<IF OneSuit(five) THEN 9 ELSE 5, hi>>
<1> DEFINE low == hi - 4
<1>1. hi \in 4 .. 12 /\ low .. hi \subseteq WithLowAce(Ranks(part))
  BY DEF StraightHighs
<1>2. low \in 0 .. 8 /\ hi = low + 4
  BY <1>1
<1> HIDE DEF low
<1>3. ASSUME NEW r \in low .. hi, r \notin Ranks(part) PROVE r = 0 /\ 12 \in Ranks(part)
  BY <1>1, <1>3 DEF WithLowAce, ACE
<1>4. /\ low + 1 \in Ranks(part) /\ low + 2 \in Ranks(part) /\ low + 3 \in Ranks(part)
      /\ hi \in Ranks(part)
  <2>1. /\ low + 1 \in low .. hi /\ low + 2 \in low .. hi /\ low + 3 \in low .. hi
        /\ hi \in low .. hi
        /\ low + 1 # 0 /\ low + 2 # 0 /\ low + 3 # 0 /\ hi # 0
    BY <1>2
  <2>2. QED
    BY <1>3, <2>1
<1>5. PICK a \in part : Rank(a) = hi
  BY <1>4, CardOfEachRank
<1>6. PICK b \in part : Rank(b) = low + 3
  BY <1>4, CardOfEachRank
<1>7. PICK c \in part : Rank(c) = low + 2
  BY <1>4, CardOfEachRank
<1>8. PICK d \in part : Rank(d) = low + 1
  BY <1>4, CardOfEachRank
<1>9. PICK e \in part : Rank(e) = low \/ (low = 0 /\ Rank(e) = 12)
  <2>1. CASE low \in Ranks(part)
    BY <2>1, CardOfEachRank
  <2>2. CASE low \notin Ranks(part)
    <3>1. low = 0 /\ 12 \in Ranks(part)
      <4>1. low \in low .. hi
        BY <1>2
      <4>2. QED
        BY <1>3, <2>2, <4>1
    <3>2. QED
      BY <3>1, CardOfEachRank
  <2>3. QED
    BY <2>1, <2>2
<1> DEFINE five == {a, b, c, d, e}
<1>10. NoneAlike(a, b, c, d, e)
  BY <1>2, <1>5, <1>6, <1>7, <1>8, <1>9 DEF NoneAlike
<1>11. AreFive(five, a, b, c, d, e) /\ five \in SUBSET part /\ five \in SUBSET FullDeck
  BY <1>10, RanksApart
<1> HIDE DEF five
<1>12. Ranks(five) = {hi, low + 3, low + 2, low + 1, Rank(e)}
  BY <1>5, <1>6, <1>7, <1>8, <1>11, RanksOfFive
<1>13. InARow(five) /\ StraightTo(five) = hi
  <2>1. CASE Rank(e) = low
    <3>1. Ranks(five) = low .. low + 4
      <4>1. Ranks(five) = {low + 4, low + 3, low + 2, low + 1, low}
        BY <1>2, <1>12, <2>1
      <4>2. {low + 4, low + 3, low + 2, low + 1, low} = low .. low + 4
        BY <1>2
      <4>3. QED
        BY <4>1, <4>2
    <3>2. QED
      BY <1>2, <3>1, RowUpTo
  <2>2. CASE low = 0 /\ Rank(e) = 12
    <3>1. Ranks(five) = {4, 3, 2, 1, 12}
      BY <1>2, <1>12, <2>2
    <3>2. Ranks(five) \ {12} = 1 .. 4
      BY <3>1
    <3>3. StraightTo(five) = hi
      BY <1>2, <2>2, <3>2 DEF StraightTo, ACE
    <3>4. WithLowAce(Ranks(five)) \ {12} = 0 .. 0 + 4
      <4>1. WithLowAce(Ranks(five)) = {4, 3, 2, 1, 12} \cup {0}
        BY <3>1 DEF WithLowAce, ACE
      <4>2. QED
        BY <4>1
    <3>5. 0 \in 0 .. 8
      OBVIOUS
    <3>6. InARow(five)
      BY <3>4, <3>5 DEF InARow, ACE
    <3>7. QED
      BY <3>3, <3>6
  <2>3. QED
    BY <1>9, <2>1, <2>2
<1>14. /\ FiveCardRule(five) = <<IF OneSuit(five) THEN 9 ELSE 5, hi>>
       /\ Cardinality(Ranks(five)) = 5
  BY <1>10, <1>11, <1>13, WorthNoneAlike
<1>15. Cardinality(five) = 5
  BY <1>11, FiveAreFive
<1>16. QED
  BY <1>11, <1>14, <1>15

\* Where there is none there are five cards of the five highest ranks.
LEMMA HighestFound ==
    ASSUME NEW part \in SUBSET FullDeck, Cardinality(Ranks(part)) >= 5,
           StraightHighs(Ranks(part)) = {}
    PROVE  \E five \in SUBSET part :
              /\ Cardinality(five) = 5 /\ Cardinality(Ranks(five)) = 5
              /\ FiveCardRule(five)
                    = Led(IF OneSuit(five) THEN 6 ELSE 1, Highest(5, Ranks(part)))
<1> DEFINE R == Ranks(part)
<1>1. R \in SUBSET AllRanks /\ 5 <= Cardinality(R)
  BY RanksAreFinite, FS_CardinalityType
<1>2. PICK K \in SUBSET R :
         /\ Cardinality(K) = 5
         /\ \A m \in Nat : 5 <= m => Highest(m, K) = Highest(5, R)
  BY <1>1, TopElements
<1>3. Highest(5, K) = Highest(5, R)
  BY <1>2
<1>4. IsFiniteSet(K)
  BY RanksAreFinite
<1>5. PICK p, q, r, s, t \in K : AreFive(K, p, q, r, s, t)
  BY <1>2, <1>4, FiveOf
<1>6. PICK a \in part : Rank(a) = p
  BY CardOfEachRank
<1>7. PICK b \in part : Rank(b) = q
  BY CardOfEachRank
<1>8. PICK c \in part : Rank(c) = r
  BY CardOfEachRank
<1>9. PICK d \in part : Rank(d) = s
  BY CardOfEachRank
<1>10. PICK e \in part : Rank(e) = t
  BY CardOfEachRank
<1> DEFINE five == {a, b, c, d, e}
<1>11. NoneAlike(a, b, c, d, e)
  BY <1>5, <1>6, <1>7, <1>8, <1>9, <1>10 DEF NoneAlike, AreFive
<1>12. AreFive(five, a, b, c, d, e) /\ five \in SUBSET part /\ five \in SUBSET FullDeck
  BY <1>11, RanksApart
<1> HIDE DEF five
<1>13. Ranks(five) = K
  <2>1. Ranks(five) = {p, q, r, s, t}
    BY <1>6, <1>7, <1>8, <1>9, <1>10, <1>12, RanksOfFive
  <2>2. QED
    BY <1>5, <2>1 DEF AreFive
<1>14. ~ InARow(five)
  <2>1. ASSUME InARow(five) PROVE FALSE
    <3>1. StraightTo(five) \in StraightHighs(K)
      BY <1>2, <1>12, <1>13, <2>1, InARowIsStraight
    <3>2. StraightTo(five) \in StraightHighs(R)
      BY <3>1, StraightHighsGrow
    <3>3. QED
      BY <3>2
  <2>2. QED
    BY <2>1
<1>15. FiveCardRule(five) = Led(IF OneSuit(five) THEN 6 ELSE 1, Highest(5, K))
  BY <1>11, <1>12, <1>13, <1>14, WorthNoneAlike
<1>16. Cardinality(five) = 5
  BY <1>12, FiveAreFive
<1>17. QED
  BY <1>2, <1>3, <1>12, <1>13, <1>15, <1>16

OfSuit(cards, s) == {card \in cards : Suit(card) = s}

\* Cards of a suit are of as many ranks.
LEMMA SuitIsCounted ==
    ASSUME NEW cards \in SUBSET FullDeck, NEW s \in 0 .. 3
    PROVE  /\ IsFiniteSet(OfSuit(cards, s)) /\ Cardinality(OfSuit(cards, s)) \in Nat
           /\ Cardinality(SuitRanks(cards, s)) \in Nat
           /\ Cardinality(SuitRanks(cards, s)) <= Cardinality(OfSuit(cards, s))
<1> DEFINE S == OfSuit(cards, s)
           f == [card \in S |-> Rank(card)]
<1>1. S \in SUBSET cards
  BY DEF OfSuit
<1>2. IsFiniteSet(S)
  BY <1>1, CardsAreFinite
<1>3. SuitRanks(cards, s) = {Rank(card) : card \in S}
  BY DEF SuitRanks, Ranks, OfSuit
<1> HIDE DEF S
<1>4. f \in Surjection(S, SuitRanks(cards, s))
  BY <1>3 DEF Surjection
<1>5. IsFiniteSet(SuitRanks(cards, s)) /\ Cardinality(SuitRanks(cards, s)) <= Cardinality(S)
  BY <1>2, <1>4, FS_Surjection
<1>6. QED
  BY <1>2, <1>5, FS_CardinalityType DEF S

\* Seven cards have five of one suit at most.
LEMMA OneFlushSuit ==
    ASSUME NEW cards \in SUBSET FullDeck, Cardinality(cards) <= 7, FlushRanks(cards) # {}
    PROVE  \E s \in 0 .. 3 :
              FlushRanks(cards) = SuitRanks(cards, s) /\ Cardinality(SuitRanks(cards, s)) >= 5
<1>1. PICK s \in 0 .. 3 : Cardinality(SuitRanks(cards, s)) >= 5
  BY DEF FlushRanks
<1>2. ASSUME NEW u \in 0 .. 3, Cardinality(SuitRanks(cards, u)) >= 5, u # s PROVE FALSE
  <2> DEFINE S == OfSuit(cards, s)
             U == OfSuit(cards, u)
  <2>1. /\ IsFiniteSet(S) /\ IsFiniteSet(U) /\ Cardinality(S) \in Nat /\ Cardinality(U) \in Nat
        /\ Cardinality(S) >= 5 /\ Cardinality(U) >= 5
    <3>1. /\ Cardinality(SuitRanks(cards, s)) \in Nat /\ Cardinality(SuitRanks(cards, u)) \in Nat
          /\ IsFiniteSet(S) /\ IsFiniteSet(U) /\ Cardinality(S) \in Nat /\ Cardinality(U) \in Nat
          /\ Cardinality(SuitRanks(cards, s)) <= Cardinality(S)
          /\ Cardinality(SuitRanks(cards, u)) <= Cardinality(U)
      BY SuitIsCounted
    <3> HIDE DEF S, U
    <3>2. QED
      BY <1>1, <1>2, <3>1
  <2>2. S \cap U = {} /\ S \cup U \in SUBSET cards
    BY <1>2 DEF OfSuit
  <2> HIDE DEF S, U
  <2>3. Cardinality(S \cap U) = 0
    BY <2>2, FS_EmptySet
  <2>4. Cardinality(S \cup U) = Cardinality(S) + Cardinality(U) - Cardinality(S \cap U)
    BY <2>1, FS_Union
  <2>5. Cardinality(S \cup U) <= Cardinality(cards) /\ Cardinality(cards) \in Nat
    BY <2>2, CardsAreFinite, FS_Subset, FS_CardinalityType
  <2>6. QED
    BY <2>1, <2>3, <2>4, <2>5
<1>3. FlushRanks(cards) = SuitRanks(cards, s)
  BY <1>1, <1>2 DEF FlushRanks
<1>4. QED
  BY <1>1, <1>3

\* The hand without the cards of a rank.
Without(cards, q) == cards \ OfRank(cards, q)

LEMMA WithoutRank ==
    ASSUME NEW cards \in SUBSET FullDeck, NEW q \in AllRanks
    PROVE  /\ Without(cards, q) \in SUBSET cards
           /\ Ranks(Without(cards, q)) = Ranks(cards) \ {q}
           /\ Cardinality(Without(cards, q)) = Cardinality(cards) - Cnt(cards, q)
           /\ \A r \in AllRanks : Cnt(Without(cards, q), r) = IF r = q THEN 0 ELSE Cnt(cards, r)
<1>1. Without(cards, q) \in SUBSET cards /\ Ranks(Without(cards, q)) = Ranks(cards) \ {q}
  BY DEF Without, OfRank, Ranks
<1>2. Cardinality(Without(cards, q)) = Cardinality(cards) - Cnt(cards, q)
  <2>1. cards \cap OfRank(cards, q) = OfRank(cards, q)
    BY DEF OfRank
  <2>2. Cardinality(cards \ OfRank(cards, q))
           = Cardinality(cards) - Cardinality(cards \cap OfRank(cards, q))
    BY CardsAreFinite, FS_Difference
  <2>3. QED
    BY <2>1, <2>2 DEF Without, Cnt
<1>3. ASSUME NEW r \in AllRanks
      PROVE  Cnt(Without(cards, q), r) = IF r = q THEN 0 ELSE Cnt(cards, r)
  <2>1. OfRank(Without(cards, q), r) = IF r = q THEN {} ELSE OfRank(cards, r)
    BY DEF OfRank, Without
  <2>2. QED
    BY <2>1, FS_EmptySet DEF Cnt
<1>4. QED
  BY <1>1, <1>2, <1>3

\* Cards of which no two share a rank are of as many ranks.
LEMMA AsManyRanks ==
    ASSUME NEW cards \in SUBSET FullDeck, \A r \in AllRanks : Cnt(cards, r) <= 1
    PROVE  Cardinality(Ranks(cards)) = Cardinality(cards)
<1> DEFINE f == [card \in cards |-> Rank(card)]
<1>1. f \in Surjection(cards, Ranks(cards))
  BY DEF Surjection, Ranks
<1>2. ASSUME NEW a \in cards, NEW b \in cards, Rank(a) = Rank(b), a # b PROVE FALSE
  <2> DEFINE r == Rank(a)
             same == OfRank(cards, r)
  <2>1. r \in AllRanks
    BY RankOfCard
  <2>2. {a, b} \in SUBSET same /\ same \in SUBSET cards
    BY <1>2 DEF OfRank
  <2>3. Cardinality({a, b}) = 2
    BY <1>2, TwoCounted
  <2>4. Cardinality({a, b}) <= Cardinality(same)
    BY <2>2, CardsAreFinite, FS_Subset
  <2>5. Cnt(cards, r) \in 0 .. 4 /\ Cnt(cards, r) <= 1 /\ Cnt(cards, r) = Cardinality(same)
    BY <2>1, CntRange DEF Cnt
  <2>6. QED
    BY <2>3, <2>4, <2>5
<1>3. f \in Injection(cards, Ranks(cards))
  BY <1>1, <1>2 DEF Surjection, Injection, IsInjective
<1>4. QED
  BY <1>1, <1>3, CardsAreFinite, FS_Surjection

\* Five cards of the hand are worth what the hand is.
Attained(cards) ==
    \E five \in SUBSET cards : Cardinality(five) = 5 /\ FiveCardRule(five) = Value(cards)

LEMMA StraightFlushAttained ==
    ASSUME NEW cards \in SUBSET FullDeck, Cardinality(cards) <= 7, CategoryOf(cards) = 9
    PROVE  Attained(cards)
<1> DEFINE flush == FlushRanks(cards)
           hi == HighestOf(StraightHighs(flush))
<1>1. StraightHighs(flush) # {}
  BY DEF CategoryOf
<1>2. hi \in StraightHighs(flush) /\ hi \in Int
  BY <1>1, SetsOfRanks, OfRanksTyped
<1>3. flush # {}
  <2>1. \A h \in 4 .. 12 : h - 4 .. h \subseteq {} => FALSE
    <3> TAKE h \in 4 .. 12
    <3>1. h \in h - 4 .. h
      OBVIOUS
    <3>2. QED
      BY <3>1
  <2>2. WithLowAce({}) = {}
    BY DEF WithLowAce
  <2>3. StraightHighs({}) = {}
    BY <2>1, <2>2 DEF StraightHighs
  <2>4. QED
    BY <1>1, <2>3
<1>4. PICK s \in 0 .. 3 : flush = SuitRanks(cards, s)
  BY <1>3, OneFlushSuit
<1> DEFINE part == OfSuit(cards, s)
<1>5. part \in SUBSET cards /\ part \in SUBSET FullDeck /\ Ranks(part) = flush
  BY <1>4 DEF OfSuit, SuitRanks
<1> HIDE DEF part, flush, hi
<1>6. hi \in StraightHighs(Ranks(part))
  BY <1>2, <1>5
<1>7. PICK five \in SUBSET part :
         /\ Cardinality(five) = 5
         /\ FiveCardRule(five) = <<IF OneSuit(five) THEN 9 ELSE 5, hi>>
  BY <1>5, <1>6, StraightFound
<1>8. OneSuit(five)
  BY DEF OneSuit, part, OfSuit
<1>9. FiveCardRule(five) = <<9, hi>>
  BY <1>7, <1>8
<1>10. Value(cards) = <<9, hi>>
  BY <1>1 DEF Value, flush, hi
<1>11. five \in SUBSET cards
  BY <1>5
<1>12. QED
  BY <1>7, <1>9, <1>10, <1>11 DEF Attained

LEMMA FlushAttained ==
    ASSUME NEW cards \in SUBSET FullDeck, Cardinality(cards) <= 7, CategoryOf(cards) = 6
    PROVE  Attained(cards)
<1> DEFINE flush == FlushRanks(cards)
<1>1. flush # {} /\ StraightHighs(flush) = {}
  BY DEF CategoryOf
<1>2. PICK s \in 0 .. 3 : flush = SuitRanks(cards, s) /\ Cardinality(SuitRanks(cards, s)) >= 5
  BY <1>1, OneFlushSuit
<1> DEFINE part == OfSuit(cards, s)
<1>3. part \in SUBSET cards /\ part \in SUBSET FullDeck /\ Ranks(part) = flush
  BY <1>2 DEF OfSuit, SuitRanks
<1> HIDE DEF part, flush
<1>4. Cardinality(Ranks(part)) >= 5 /\ StraightHighs(Ranks(part)) = {}
  BY <1>1, <1>2, <1>3
<1>5. PICK five \in SUBSET part :
         /\ Cardinality(five) = 5
         /\ FiveCardRule(five) = Led(IF OneSuit(five) THEN 6 ELSE 1, Highest(5, Ranks(part)))
  BY <1>3, <1>4, HighestFound
<1>6. OneSuit(five)
  BY DEF OneSuit, part, OfSuit
<1>7. FiveCardRule(five) = Led(6, Highest(5, flush))
  BY <1>3, <1>5, <1>6
<1>8. Value(cards) = Led(6, Highest(5, flush))
  <2>1. TieOf(cards) = Highest(5, flush)
    BY DEF TieOf, flush
  <2>2. QED
    BY <2>1, ValueSplits
<1>9. five \in SUBSET cards
  BY <1>3
<1>10. QED
  BY <1>5, <1>7, <1>8, <1>9 DEF Attained

LEMMA StraightAttained ==
    ASSUME NEW cards \in SUBSET FullDeck, CategoryOf(cards) = 5
    PROVE  Attained(cards)
<1> DEFINE hi == HighestOf(StraightHighs(Ranks(cards)))
<1>1. StraightHighs(Ranks(cards)) # {} /\ FlushRanks(cards) = {}
  BY DEF CategoryOf
<1>2. hi \in StraightHighs(Ranks(cards))
  BY <1>1, SetsOfRanks, OfRanksTyped
<1> HIDE DEF hi
<1>3. PICK five \in SUBSET cards :
         /\ Cardinality(five) = 5 /\ Cardinality(Ranks(five)) = 5
         /\ FiveCardRule(five) = <<IF OneSuit(five) THEN 9 ELSE 5, hi>>
  BY <1>2, StraightFound
<1>4. ~ OneSuit(five)
  BY <1>1, <1>3, OneSuitIsFlush
<1>5. FiveCardRule(five) = <<5, hi>>
  BY <1>3, <1>4
<1>6. Value(cards) = <<5, hi>>
  BY DEF Value, CategoryOf, hi
<1>7. QED
  BY <1>3, <1>5, <1>6 DEF Attained

LEMMA HighCardAttained ==
    ASSUME NEW cards \in SUBSET FullDeck, Cardinality(cards) >= 5, CategoryOf(cards) = 1
    PROVE  Attained(cards)
<1>1. /\ StraightHighs(Ranks(cards)) = {} /\ FlushRanks(cards) = {}
      /\ OfAKind(cards, 4) = {} /\ OfAKind(cards, 3) = {}
      /\ Len(PairsOf(cards)) # 1 /\ Len(PairsOf(cards)) # 2
  BY DEF CategoryOf
<1>2. OfAKind(cards, 2) = {}
  <2>1. IsFiniteSet(OfAKind(cards, 2)) /\ Cardinality(OfAKind(cards, 2)) \in Nat
    BY SetsOfRanks, OfRanksTyped, FS_CardinalityType
  <2>2. Len(PairsOf(cards)) = IF 2 < Cardinality(OfAKind(cards, 2))
                              THEN 2 ELSE Cardinality(OfAKind(cards, 2))
    BY PairsTyped
  <2>3. Cardinality(OfAKind(cards, 2)) = 0
    BY <1>1, <2>1, <2>2
  <2>4. QED
    BY <2>1, <2>3, FS_EmptySet
<1>3. \A r \in AllRanks : Cnt(cards, r) <= 1
  <2> TAKE r \in AllRanks
  <2>1. Cnt(cards, r) \in 0 .. 4
    BY CntRange
  <2>2. Cnt(cards, r) # 2 /\ Cnt(cards, r) # 3 /\ Cnt(cards, r) # 4
    BY <1>1, <1>2, OfAKinds
  <2>3. QED
    BY <2>1, <2>2
<1>4. Cardinality(Ranks(cards)) >= 5
  BY <1>3, AsManyRanks
<1>5. PICK five \in SUBSET cards :
         /\ Cardinality(five) = 5 /\ Cardinality(Ranks(five)) = 5
         /\ FiveCardRule(five) = Led(IF OneSuit(five) THEN 6 ELSE 1, Highest(5, Ranks(cards)))
  BY <1>1, <1>4, HighestFound
<1>6. ~ OneSuit(five)
  BY <1>1, <1>5, OneSuitIsFlush
<1>7. FiveCardRule(five) = Led(1, Highest(5, Ranks(cards)))
  BY <1>5, <1>6
<1>8. Value(cards) = Led(1, Highest(5, Ranks(cards)))
  <2>1. TieOf(cards) = Highest(5, Ranks(cards))
    BY DEF TieOf
  <2>2. QED
    BY <2>1, ValueSplits
<1>9. QED
  BY <1>5, <1>7, <1>8 DEF Attained

LEMMA FourOfAKindAttained ==
    ASSUME NEW cards \in SUBSET FullDeck, Cardinality(cards) \in 5 .. 7, CategoryOf(cards) = 8
    PROVE  Attained(cards)
<1> DEFINE quads == OfAKind(cards, 4)
           q == HighestOf(quads)
           others == Ranks(cards) \ quads
<1>1. quads # {}
  BY DEF CategoryOf
<1>2. q \in quads /\ q \in AllRanks
  BY <1>1, SetsOfRanks, OfRanksTyped
<1>3. Cnt(cards, q) = 4
  BY <1>2, OfAKinds
<1>4. TieOf(cards) = Led(q, Highest(1, others))
  BY DEF TieOf
<1>5. quads = {q}
  <2>1. ASSUME NEW r \in quads, r # q PROVE FALSE
    <3>1. r \in AllRanks /\ Cnt(cards, r) = 4
      BY OfAKinds
    <3>2. Cnt(cards, r) + Cnt(cards, q) <= Cardinality(cards)
      BY <1>2, <2>1, <3>1, CntOfTwo
    <3>3. QED
      BY <1>3, <3>1, <3>2
  <2>2. QED
    BY <1>2, <2>1
<1> HIDE DEF q, quads
<1>6. PICK a, b, c, d \in OfRank(cards, q) : a # b /\ a # c /\ a # d /\ b # c /\ b # d /\ c # d
  <2>1. OfRank(cards, q) \in SUBSET cards
    BY DEF OfRank
  <2>2. IsFiniteSet(OfRank(cards, q)) /\ Cardinality(OfRank(cards, q)) >= 4
    BY <1>3, <2>1, CardsAreFinite DEF Cnt
  <2>3. QED
    BY <2>2, FourOf
<1>7. others \in SUBSET AllRanks /\ IsFiniteSet(others) /\ 1 <= Cardinality(others)
  <2>1. others \in SUBSET AllRanks
    BY SetsOfRanks
  <2>2. Ranks(Without(cards, q)) = others /\ Cardinality(Without(cards, q)) = Cardinality(cards) - 4
    BY <1>2, <1>3, <1>5, WithoutRank
  <2>3. Cardinality(Without(cards, q)) # 0
    BY <2>2
  <2>4. Without(cards, q) # {}
    BY <2>3, FS_EmptySet
  <2>5. others # {}
    BY <2>2, <2>4 DEF Ranks
  <2>6. IsFiniteSet(others)
    BY <2>1, OfRanksTyped
  <2>7. Cardinality(others) \in Nat /\ Cardinality(others) # 0
    BY <2>5, <2>6, FS_EmptySet, FS_CardinalityType
  <2>8. QED
    BY <2>1, <2>6, <2>7
<1>8. PICK K \in SUBSET others :
         Cardinality(K) = 1 /\ \A m \in Nat : 1 <= m => Highest(m, K) = Highest(1, others)
  <2> HIDE DEF others
  <2>1. QED
    BY <1>7, TopElements
<1>9. PICK k \in others : K = {k}
  <2>1. IsFiniteSet(K)
    BY <1>7, FS_Subset
  <2>2. QED
    BY <1>8, <2>1, FS_Singleton
<1>10. PICK e \in cards : Rank(e) = k
  BY CardOfEachRank
<1> DEFINE five == {a, b, c, d, e}
<1>11. Rank(a) = q /\ Rank(b) = q /\ Rank(c) = q /\ Rank(d) = q /\ Rank(e) = k /\ k # q
  BY <1>5, <1>10 DEF OfRank
<1>12. FourAlike(a, b, c, d, e)
  BY <1>11 DEF FourAlike
<1>13. AreFive(five, a, b, c, d, e)
  BY <1>6, <1>11 DEF AreFive
<1>14. five \in SUBSET cards /\ five \in SUBSET FullDeck
  BY DEF OfRank
<1> HIDE DEF five, others
<1>15. FiveCardRule(five) = Led(8, Led(q, Highest(5, {k})))
  BY <1>11, <1>12, <1>13, <1>14, WorthFourAlike
<1>16. Highest(5, {k}) = Highest(1, others)
  BY <1>8, <1>9
<1>17. Value(cards) = Led(8, Led(q, Highest(1, others)))
  BY <1>4, ValueSplits
<1>18. Cardinality(five) = 5
  BY <1>13, FiveAreFive
<1>19. QED
  BY <1>14, <1>15, <1>16, <1>17, <1>18 DEF Attained

LEMMA FullHouseAttained ==
    ASSUME NEW cards \in SUBSET FullDeck, CategoryOf(cards) = 7
    PROVE  Attained(cards)
<1> DEFINE trips == OfAKind(cards, 3)
           second == FullHousePairs(cards)
           t == HighestOf(trips)
           p == HighestOf(second)
<1>1. trips # {} /\ second # {}
  BY DEF CategoryOf
<1>2. /\ t \in trips /\ t \in AllRanks /\ \A r \in trips : r <= t
      /\ p \in second /\ p \in AllRanks
  BY <1>1, SetsOfRanks, OfRanksTyped
<1>3. Cnt(cards, t) = 3
  BY <1>2, OfAKinds
<1>4. p # t /\ (Cnt(cards, p) = 2 \/ Cnt(cards, p) = 3)
  <2>1. CASE \E higher \in trips : p \in trips /\ p < higher
    <3>1. Cnt(cards, p) = 3
      BY <1>2, <2>1, OfAKinds
    <3>2. PICK higher \in trips : p < higher
      BY <2>1
    <3>3. higher <= t /\ higher \in AllRanks
      BY <1>2, SetsOfRanks
    <3> HIDE DEF p, t, trips
    <3>4. p # t
      BY <1>2, <3>2, <3>3 DEF AllRanks
    <3>5. QED
      BY <3>1, <3>4
  <2>2. CASE p \in OfAKind(cards, 2)
    <3>1. Cnt(cards, p) = 2
      BY <1>2, <2>2, OfAKinds
    <3>2. QED
      BY <1>3, <3>1
  <2>3. p \in OfAKind(cards, 2) \/ \E higher \in trips : p \in trips /\ p < higher
    BY <1>2 DEF FullHousePairs
  <2>4. QED
    BY <2>1, <2>2, <2>3
<1>5. TieOf(cards) = Led(t, <<p>>)
  BY DEF TieOf
<1> HIDE DEF t, p
<1>6. PICK a, b, c \in OfRank(cards, t) : a # b /\ a # c /\ b # c
  <2>1. OfRank(cards, t) \in SUBSET cards
    BY DEF OfRank
  <2>2. IsFiniteSet(OfRank(cards, t)) /\ Cardinality(OfRank(cards, t)) >= 3
    BY <1>3, <2>1, CardsAreFinite DEF Cnt
  <2>3. QED
    BY <2>2, ThreeOf
<1>7. PICK d, e \in OfRank(cards, p) : d # e
  <2>1. OfRank(cards, p) \in SUBSET cards
    BY DEF OfRank
  <2>2. IsFiniteSet(OfRank(cards, p)) /\ Cardinality(OfRank(cards, p)) >= 2
    BY <1>4, <2>1, CardsAreFinite DEF Cnt
  <2>3. QED
    BY <2>2, TwoOf
<1> DEFINE five == {a, b, c, d, e}
<1>8. Rank(a) = t /\ Rank(b) = t /\ Rank(c) = t /\ Rank(d) = p /\ Rank(e) = p
  BY DEF OfRank
<1>9. ThreeAndTwo(a, b, c, d, e)
  BY <1>4, <1>8 DEF ThreeAndTwo
<1>10. AreFive(five, a, b, c, d, e)
  BY <1>4, <1>6, <1>7, <1>8 DEF AreFive
<1>11. five \in SUBSET cards /\ five \in SUBSET FullDeck
  BY DEF OfRank
<1> HIDE DEF five
<1>12. FiveCardRule(five) = Led(7, Led(t, <<p>>))
  BY <1>8, <1>9, <1>10, <1>11, WorthThreeAndTwo
<1>13. Value(cards) = Led(7, Led(t, <<p>>))
  BY <1>5, ValueSplits
<1>14. Cardinality(five) = 5
  BY <1>10, FiveAreFive
<1>15. QED
  BY <1>11, <1>12, <1>13, <1>14 DEF Attained

LEMMA ThreeOfAKindAttained ==
    ASSUME NEW cards \in SUBSET FullDeck, Cardinality(cards) \in 5 .. 7, CategoryOf(cards) = 4
    PROVE  Attained(cards)
<1> DEFINE trips == OfAKind(cards, 3)
           t == HighestOf(trips)
           others == Ranks(cards) \ trips
<1>1. OfAKind(cards, 4) = {} /\ trips # {} /\ FullHousePairs(cards) = {}
  BY DEF CategoryOf
<1>2. t \in trips /\ t \in AllRanks
  BY <1>1, SetsOfRanks, OfRanksTyped
<1>3. Cnt(cards, t) = 3
  BY <1>2, OfAKinds
<1>4. TieOf(cards) = Led(t, Highest(2, others))
  BY DEF TieOf
<1>5. trips = {t} /\ OfAKind(cards, 2) = {}
  <2>1. \A r \in trips : r = t
    BY <1>1, <1>2, SetsOfRanks, FullHouseFound
  <2>2. \A r \in OfAKind(cards, 2) : FALSE
    <3> TAKE r \in OfAKind(cards, 2)
    <3>1. r \in AllRanks /\ Cnt(cards, r) = 2
      BY OfAKinds
    <3>2. r # t
      BY <1>3, <3>1
    <3>3. QED
      BY <1>1, <1>2, <3>1, <3>2, FullHouseFound
  <2>3. QED
    BY <1>2, <2>1, <2>2
<1> HIDE DEF t, trips
<1>6. PICK a, b, c \in OfRank(cards, t) : a # b /\ a # c /\ b # c
  <2>1. OfRank(cards, t) \in SUBSET cards
    BY DEF OfRank
  <2>2. IsFiniteSet(OfRank(cards, t)) /\ Cardinality(OfRank(cards, t)) >= 3
    BY <1>3, <2>1, CardsAreFinite DEF Cnt
  <2>3. QED
    BY <2>2, ThreeOf
<1>7. others \in SUBSET AllRanks /\ IsFiniteSet(others) /\ 2 <= Cardinality(others)
  <2> DEFINE rest == Without(cards, t)
  <2>1. others \in SUBSET AllRanks /\ IsFiniteSet(others)
    BY SetsOfRanks, OfRanksTyped
  <2>2. /\ rest \in SUBSET cards /\ Ranks(rest) = others
        /\ Cardinality(rest) = Cardinality(cards) - 3
        /\ \A r \in AllRanks : Cnt(rest, r) = IF r = t THEN 0 ELSE Cnt(cards, r)
    BY <1>2, <1>3, <1>5, WithoutRank
  <2>3. \A r \in AllRanks : Cnt(rest, r) <= 1
    <3> TAKE r \in AllRanks
    <3>1. CASE r = t
      BY <2>2, <3>1
    <3>2. CASE r # t
      <4>1. Cnt(cards, r) \in 0 .. 4
        BY CntRange
      <4>2. Cnt(cards, r) # 2 /\ Cnt(cards, r) # 3 /\ Cnt(cards, r) # 4
        <5>1. r \notin OfAKind(cards, 2) /\ r \notin OfAKind(cards, 3) /\ r \notin OfAKind(cards, 4)
          BY <1>1, <1>5, <3>2 DEF trips
        <5>2. QED
          BY <5>1, OfAKinds
      <4>3. Cnt(rest, r) = Cnt(cards, r)
        BY <2>2, <3>2
      <4>4. QED
        BY <4>1, <4>2, <4>3
    <3>3. QED
      BY <3>1, <3>2
  <2>4. rest \in SUBSET FullDeck
    BY <2>2
  <2> HIDE DEF rest
  <2>5. Cardinality(Ranks(rest)) = Cardinality(rest)
    BY <2>3, <2>4, AsManyRanks
  <2>6. QED
    BY <2>1, <2>2, <2>5
<1>8. PICK K \in SUBSET others :
         Cardinality(K) = 2 /\ \A m \in Nat : 2 <= m => Highest(m, K) = Highest(2, others)
  <2> HIDE DEF others
  <2>1. QED
    BY <1>7, TopElements
<1>9. IsFiniteSet(K)
  BY <1>7, FS_Subset
<1>10. PICK k, l \in K : k # l
  BY <1>8, <1>9, TwoOf
<1>11. K = {k, l}
  <2>1. {k, l} \in SUBSET K /\ Cardinality({k, l}) = 2
    BY <1>10, TwoCounted
  <2>2. QED
    BY <1>8, <1>9, <2>1, FS_Subset
<1>12. PICK d \in cards : Rank(d) = k
  BY CardOfEachRank
<1>13. PICK e \in cards : Rank(e) = l
  BY CardOfEachRank
<1> DEFINE five == {a, b, c, d, e}
<1>14. /\ Rank(a) = t /\ Rank(b) = t /\ Rank(c) = t /\ Rank(d) = k /\ Rank(e) = l
       /\ k # t /\ l # t
  BY <1>5, <1>12, <1>13 DEF OfRank
<1>15. ThreeAlike(a, b, c, d, e)
  BY <1>10, <1>14 DEF ThreeAlike
<1>16. AreFive(five, a, b, c, d, e)
  BY <1>6, <1>10, <1>14 DEF AreFive
<1>17. five \in SUBSET cards /\ five \in SUBSET FullDeck
  BY DEF OfRank
<1> HIDE DEF five, others
<1>18. FiveCardRule(five) = Led(4, Led(t, Highest(5, {k, l})))
  BY <1>14, <1>15, <1>16, <1>17, WorthThreeAlike
<1>19. Highest(5, {k, l}) = Highest(2, others)
  BY <1>8, <1>11
<1>20. Value(cards) = Led(4, Led(t, Highest(2, others)))
  BY <1>4, ValueSplits
<1>21. Cardinality(five) = 5
  BY <1>16, FiveAreFive
<1>22. QED
  BY <1>17, <1>18, <1>19, <1>20, <1>21 DEF Attained

\* A pair or less of each rank, and the pairs that count.
LEMMA PairsOnly ==
    ASSUME NEW cards \in SUBSET FullDeck, CategoryOf(cards) \in {2, 3}
    PROVE  /\ \A r \in AllRanks : Cnt(cards, r) <= 2
           /\ Cardinality(OfAKind(cards, 2)) \in Nat
           /\ CategoryOf(cards) = 2 => Cardinality(OfAKind(cards, 2)) = 1
           /\ CategoryOf(cards) = 3 => Cardinality(OfAKind(cards, 2)) >= 2
<1>1. /\ OfAKind(cards, 4) = {} /\ OfAKind(cards, 3) = {}
      /\ CategoryOf(cards) = 2 => Len(PairsOf(cards)) = 1
      /\ CategoryOf(cards) = 3 => Len(PairsOf(cards)) = 2
  BY DEF CategoryOf
<1>2. \A r \in AllRanks : Cnt(cards, r) <= 2
  <2> TAKE r \in AllRanks
  <2>1. Cnt(cards, r) \in 0 .. 4
    BY CntRange
  <2>2. Cnt(cards, r) # 3 /\ Cnt(cards, r) # 4
    BY <1>1, OfAKinds
  <2>3. QED
    BY <2>1, <2>2
<1>3. Cardinality(OfAKind(cards, 2)) \in Nat
  BY SetsOfRanks, OfRanksTyped, FS_CardinalityType
<1>4. Len(PairsOf(cards)) = IF 2 < Cardinality(OfAKind(cards, 2))
                            THEN 2 ELSE Cardinality(OfAKind(cards, 2))
  BY PairsTyped
<1>5. QED
  BY <1>1, <1>2, <1>3, <1>4

LEMMA PairAttained ==
    ASSUME NEW cards \in SUBSET FullDeck, Cardinality(cards) \in 5 .. 7, CategoryOf(cards) = 2
    PROVE  Attained(cards)
<1> DEFINE twos == OfAKind(cards, 2)
<1>1. \A r \in AllRanks : Cnt(cards, r) <= 2
  BY PairsOnly
<1>2. PICK p \in twos : twos = {p}
  <2>1. IsFiniteSet(twos) /\ Cardinality(twos) = 1
    BY PairsOnly, SetsOfRanks, OfRanksTyped
  <2>2. QED
    BY <2>1, FS_Singleton
<1>3. p \in AllRanks /\ Cnt(cards, p) = 2
  BY OfAKinds
<1> DEFINE others == Ranks(cards) \ {p}
<1>4. TieOf(cards) = Led(p, Highest(3, others))
  <2>1. p \in Int
    BY <1>3 DEF AllRanks
  <2>2. PairsOf(cards) = <<p>>
    BY <1>2, <2>1, HighestOfOne DEF PairsOf
  <2>3. QED
    BY <2>2 DEF TieOf, Led
<1>5. PICK a, b \in OfRank(cards, p) : a # b
  <2>1. OfRank(cards, p) \in SUBSET cards
    BY DEF OfRank
  <2>2. IsFiniteSet(OfRank(cards, p)) /\ Cardinality(OfRank(cards, p)) >= 2
    BY <1>3, <2>1, CardsAreFinite DEF Cnt
  <2>3. QED
    BY <2>2, TwoOf
<1>6. others \in SUBSET AllRanks /\ IsFiniteSet(others) /\ 3 <= Cardinality(others)
  <2> DEFINE rest == Without(cards, p)
  <2>1. others \in SUBSET AllRanks /\ IsFiniteSet(others)
    BY SetsOfRanks, OfRanksTyped
  <2>2. /\ rest \in SUBSET cards /\ Ranks(rest) = others
        /\ Cardinality(rest) = Cardinality(cards) - 2
        /\ \A r \in AllRanks : Cnt(rest, r) = IF r = p THEN 0 ELSE Cnt(cards, r)
    BY <1>3, WithoutRank
  <2>3. \A r \in AllRanks : Cnt(rest, r) <= 1
    <3> TAKE r \in AllRanks
    <3>1. CASE r = p
      BY <2>2, <3>1
    <3>2. CASE r # p
      <4>1. Cnt(cards, r) \in 0 .. 4
        BY CntRange
      <4>2. Cnt(cards, r) <= 2 /\ Cnt(cards, r) # 2
        <5>1. r \notin twos
          BY <1>2, <3>2
        <5>2. QED
          BY <1>1, <5>1, OfAKinds
      <4>3. Cnt(rest, r) = Cnt(cards, r)
        BY <2>2, <3>2
      <4>4. QED
        BY <4>1, <4>2, <4>3
    <3>3. QED
      BY <3>1, <3>2
  <2>4. rest \in SUBSET FullDeck
    BY <2>2
  <2> HIDE DEF rest
  <2>5. Cardinality(Ranks(rest)) = Cardinality(rest)
    BY <2>3, <2>4, AsManyRanks
  <2>6. QED
    BY <2>1, <2>2, <2>5
<1>7. PICK K \in SUBSET others :
         Cardinality(K) = 3 /\ \A m \in Nat : 3 <= m => Highest(m, K) = Highest(3, others)
  <2> HIDE DEF others
  <2>1. QED
    BY <1>6, TopElements
<1>8. IsFiniteSet(K)
  BY <1>6, FS_Subset
<1>9. PICK k, l, m \in K : k # l /\ k # m /\ l # m
  BY <1>7, <1>8, ThreeOf
<1>10. K = {k, l, m}
  <2>1. {k, l, m} \in SUBSET K /\ Cardinality({k, l, m}) = 3
    BY <1>9, ThreeCounted
  <2>2. QED
    BY <1>7, <1>8, <2>1, FS_Subset
<1>11. PICK c \in cards : Rank(c) = k
  BY CardOfEachRank
<1>12. PICK d \in cards : Rank(d) = l
  BY CardOfEachRank
<1>13. PICK e \in cards : Rank(e) = m
  BY CardOfEachRank
<1> DEFINE five == {a, b, c, d, e}
<1>14. /\ Rank(a) = p /\ Rank(b) = p /\ Rank(c) = k /\ Rank(d) = l /\ Rank(e) = m
       /\ k # p /\ l # p /\ m # p
  BY <1>11, <1>12, <1>13 DEF OfRank
<1>15. TwoAlike(a, b, c, d, e)
  BY <1>9, <1>14 DEF TwoAlike
<1>16. AreFive(five, a, b, c, d, e)
  BY <1>5, <1>9, <1>14 DEF AreFive
<1>17. five \in SUBSET cards /\ five \in SUBSET FullDeck
  BY DEF OfRank
<1> HIDE DEF five, others
<1>18. FiveCardRule(five) = Led(2, Led(p, Highest(5, {k, l, m})))
  BY <1>14, <1>15, <1>16, <1>17, WorthTwoAlike
<1>19. Highest(5, {k, l, m}) = Highest(3, others)
  BY <1>7, <1>10
<1>20. Value(cards) = Led(2, Led(p, Highest(3, others)))
  BY <1>4, ValueSplits
<1>21. Cardinality(five) = 5
  BY <1>16, FiveAreFive
<1>22. QED
  BY <1>17, <1>18, <1>19, <1>20, <1>21 DEF Attained

LEMMA TwoPairsAttained ==
    ASSUME NEW cards \in SUBSET FullDeck, Cardinality(cards) \in 5 .. 7, CategoryOf(cards) = 3
    PROVE  Attained(cards)
<1> DEFINE twos == OfAKind(cards, 2)
           pairs == PairsOf(cards)
<1>1. twos \in SUBSET AllRanks /\ IsFiniteSet(twos) /\ twos \in SUBSET Int
      /\ Cardinality(twos) >= 2 /\ Cardinality(twos) \in Nat
  BY PairsOnly, SetsOfRanks, OfRanksTyped
<1>2. PICK K \in SUBSET twos :
         Cardinality(K) = 2 /\ \A m \in Nat : 2 <= m => Highest(m, K) = Highest(2, twos)
  <2> HIDE DEF twos
  <2>1. 2 <= Cardinality(twos)
    BY <1>1
  <2>2. QED
    BY <1>1, <2>1, TopElements
<1>3. IsFiniteSet(K) /\ K \in SUBSET Int
  BY <1>1, FS_Subset
<1>4. PICK p, q \in K : p # q
  <2>1. Cardinality(K) >= 2
    BY <1>2
  <2>2. IsFiniteSet(K)
    BY <1>3
  <2> HIDE DEF twos, pairs
  <2>3. QED
    BY <2>1, <2>2, TwoOf
<1>5. K = {p, q}
  <2>1. {p, q} \in SUBSET K /\ Cardinality({p, q}) = 2
    BY <1>4, TwoCounted
  <2>2. QED
    BY <1>2, <1>3, <2>1, FS_Subset
<1>6. p \in AllRanks /\ q \in AllRanks /\ Cnt(cards, p) = 2 /\ Cnt(cards, q) = 2
  <2>1. p \in twos /\ q \in twos
    OBVIOUS
  <2>2. QED
    BY <2>1, OfAKinds
<1>7. Highest(5, K) = pairs
  BY <1>2 DEF PairsOf
<1>8. {pairs[1], pairs[2]} = {p, q}
  <2>1. IsTop(pairs, 5, K)
    BY <1>3, <1>7, HighestIsTop
  <2> HIDE DEF pairs, twos
  <2>2. pairs \in Seq(K) /\ Len(pairs) = 2 /\ pairs[2] < pairs[1]
    BY <1>2, <2>1 DEF IsTop
  <2>3. pairs[1] \in K /\ pairs[2] \in K
    BY <2>2, ElementOfSeq
  <2>4. pairs[1] # pairs[2]
    <3>1. pairs[1] \in Int /\ pairs[2] \in Int
      BY <1>3, <2>3
    <3>2. QED
      BY <2>2, <3>1
  <2>5. QED
    BY <1>5, <2>3, <2>4
<1> DEFINE others == Ranks(cards) \ {p, q}
<1>9. TieOf(cards) = Highest(5, {p, q}) \o Highest(1, others)
  <2>1. TieOf(cards) = pairs \o Highest(1, Ranks(cards) \ {pairs[1], pairs[2]})
    BY DEF TieOf
  <2> HIDE DEF pairs
  <2>2. QED
    BY <1>5, <1>7, <1>8, <2>1
<1>10. PICK a, b \in OfRank(cards, p) : a # b
  <2>1. OfRank(cards, p) \in SUBSET cards
    BY DEF OfRank
  <2>2. IsFiniteSet(OfRank(cards, p)) /\ Cardinality(OfRank(cards, p)) >= 2
    BY <1>6, <2>1, CardsAreFinite DEF Cnt
  <2>3. QED
    BY <2>2, TwoOf
<1>11. PICK c, d \in OfRank(cards, q) : c # d
  <2>1. OfRank(cards, q) \in SUBSET cards
    BY DEF OfRank
  <2>2. IsFiniteSet(OfRank(cards, q)) /\ Cardinality(OfRank(cards, q)) >= 2
    BY <1>6, <2>1, CardsAreFinite DEF Cnt
  <2>3. QED
    BY <2>2, TwoOf
<1>12. others \in SUBSET AllRanks /\ IsFiniteSet(others) /\ 1 <= Cardinality(others)
  <2> DEFINE rest == Without(cards, p)
             left == Without(rest, q)
  <2>1. others \in SUBSET AllRanks /\ IsFiniteSet(others)
    BY SetsOfRanks, OfRanksTyped
  <2>2. /\ rest \in SUBSET cards /\ Ranks(rest) = Ranks(cards) \ {p}
        /\ Cardinality(rest) = Cardinality(cards) - 2
        /\ Cnt(rest, q) = 2
    BY <1>4, <1>6, WithoutRank
  <2>3. rest \in SUBSET FullDeck
    BY <2>2
  <2> HIDE DEF rest
  <2>4. Ranks(left) = Ranks(rest) \ {q} /\ Cardinality(left) = Cardinality(rest) - 2
    BY <1>6, <2>2, <2>3, WithoutRank
  <2>5. Cardinality(left) # 0
    BY <2>2, <2>4
  <2>6. left # {}
    BY <2>5, FS_EmptySet
  <2>7. others # {}
    BY <2>2, <2>4, <2>6 DEF Ranks
  <2>8. Cardinality(others) \in Nat /\ Cardinality(others) # 0
    BY <2>1, <2>7, FS_EmptySet, FS_CardinalityType
  <2>9. QED
    BY <2>1, <2>8
<1>13. PICK L \in SUBSET others :
          Cardinality(L) = 1 /\ \A m \in Nat : 1 <= m => Highest(m, L) = Highest(1, others)
  <2> HIDE DEF others
  <2>1. QED
    BY <1>12, TopElements
<1>14. PICK k \in others : L = {k}
  <2>1. IsFiniteSet(L)
    BY <1>12, FS_Subset
  <2>2. QED
    BY <1>13, <2>1, FS_Singleton
<1>15. PICK e \in cards : Rank(e) = k
  BY CardOfEachRank
<1> DEFINE five == {a, b, c, d, e}
<1>16. /\ Rank(a) = p /\ Rank(b) = p /\ Rank(c) = q /\ Rank(d) = q /\ Rank(e) = k
       /\ k # p /\ k # q
  BY <1>15 DEF OfRank
<1>17. TwoAndTwo(a, b, c, d, e)
  BY <1>4, <1>16 DEF TwoAndTwo
<1>18. AreFive(five, a, b, c, d, e)
  BY <1>4, <1>10, <1>11, <1>16 DEF AreFive
<1>19. five \in SUBSET cards /\ five \in SUBSET FullDeck
  BY DEF OfRank
<1> HIDE DEF five, others
<1>20. FiveCardRule(five) = Led(3, Highest(5, {p, q}) \o Highest(5, {k}))
  BY <1>16, <1>17, <1>18, <1>19, WorthTwoAndTwo
<1>21. Highest(5, {k}) = Highest(1, others)
  BY <1>13, <1>14
<1>22. Value(cards) = Led(3, Highest(5, {p, q}) \o Highest(1, others))
  BY <1>9, ValueSplits
<1>23. Cardinality(five) = 5
  BY <1>18, FiveAreFive
<1>24. QED
  BY <1>19, <1>20, <1>21, <1>22, <1>23 DEF Attained

\* Some five cards of a hand of five to seven are worth what value_of_hand says.
LEMMA SomeFiveAreWorthIt ==
    ASSUME NEW cards \in SUBSET FullDeck, Cardinality(cards) \in 5 .. 7
    PROVE  Attained(cards)
<1>1. CategoryOf(cards) \in {1, 2, 3, 4, 5, 6, 7, 8, 9}
  BY CategoryRange
<1>2. Cardinality(cards) >= 5 /\ Cardinality(cards) <= 7
  OBVIOUS
<1>3. QED
  BY <1>1, <1>2, StraightFlushAttained, FourOfAKindAttained, FullHouseAttained, FlushAttained,
     StraightAttained, ThreeOfAKindAttained, TwoPairsAttained, PairAttained, HighCardAttained

-----------------------------------------------------------------------------
(* The hands of the specification *)

HandInv == hand \in SUBSET FullDeck /\ Cardinality(hand) <= 7

LEMMA DrawKeepsInv ==
    ASSUME HandInv, [Next]_hand
    PROVE  HandInv' /\ hand \subseteq hand'
<1>1. CASE UNCHANGED hand
  BY <1>1 DEF HandInv
<1>2. ASSUME NEW card \in UNION Decks, Draw(card) PROVE HandInv' /\ hand \subseteq hand'
  <2>1. card \in FullDeck
    BY DecksOfCards DEF FullDeck
  <2>2. IsFiniteSet(hand) /\ Cardinality(hand) \in Nat
    BY CardsAreFinite, FS_CardinalityType DEF HandInv
  <2>3. Cardinality(hand \cup {card}) <= Cardinality(hand) + 1
    BY <2>2, FS_AddElement
  <2>4. hand' = hand \cup {card} /\ Cardinality(hand) < 7
    BY <1>2 DEF Draw
  <2>5. IsFiniteSet(hand \cup {card}) /\ Cardinality(hand \cup {card}) \in Nat
    BY <2>2, FS_AddElement, FS_CardinalityType
  <2>6. QED
    BY <2>1, <2>2, <2>3, <2>4, <2>5 DEF HandInv
<1>3. QED
  BY <1>1, <1>2 DEF Next

\* A hand of the specification is one of at most seven cards of the deck.
LEMMA HandInvHolds == Spec => []HandInv
<1>1. Init => HandInv
  BY FS_EmptySet DEF Init, HandInv
<1>2. HandInv /\ [Next]_hand => HandInv'
  BY DrawKeepsInv
<1>3. QED
  BY <1>1, <1>2, PTL DEF Spec

LEMMA CompleteIsFiveToSeven ==
    ASSUME HandInv, Complete(hand)
    PROVE  hand \in SUBSET FullDeck /\ Cardinality(hand) \in 5 .. 7
<1>1. Cardinality(hand) \in Nat
  BY CardsAreFinite, FS_CardinalityType DEF HandInv
<1>2. QED
  BY <1>1 DEF HandInv, Complete

\* value_of_hand (game_logic.c) is worth the best five cards of the hand, whatever
\* five, six or seven cards those are drawn from: no five of them are worth more,
\* and some five are worth as much.
THEOREM BestFive == Spec => []BestFiveDecide
<1>1. ASSUME HandInv, Complete(hand), NEW five \in kSubset(5, hand)
      PROVE  AtMost(FiveCardRule(five), Value(hand))
  <2>1. five \in SUBSET hand /\ Cardinality(five) = 5
    BY DEF kSubset
  <2>2. QED
    BY <1>1, <2>1, NoFiveAreWorthMore DEF HandInv
<1>2. ASSUME HandInv, Complete(hand)
      PROVE  \E five \in kSubset(5, hand) : Value(hand) = FiveCardRule(five)
  BY <1>2, CompleteIsFiveToSeven, SomeFiveAreWorthIt DEF Attained, kSubset
<1>3. HandInv => BestFiveDecide
  BY <1>1, <1>2 DEF BestFiveDecide
<1>4. QED
  BY <1>3, HandInvHolds, PTL

\* One more card never makes a hand worth less, for the cards it already had are
\* still five it may play.
THEOREM MoreCards == Spec => MoreCardsNeverLose
<1>1. ASSUME HandInv, [Next]_hand, Complete(hand)
      PROVE  AtMost(Value(hand), Value(hand'))
  <2>1. PICK five \in SUBSET hand : Cardinality(five) = 5 /\ FiveCardRule(five) = Value(hand)
    BY <1>1, CompleteIsFiveToSeven, SomeFiveAreWorthIt DEF Attained
  <2>2. hand' \in SUBSET FullDeck /\ Cardinality(hand') <= 7 /\ five \in SUBSET hand'
    BY <1>1, DrawKeepsInv DEF HandInv
  <2>3. AtMost(FiveCardRule(five), Value(hand'))
    BY <2>1, <2>2, NoFiveAreWorthMore
  <2>4. QED
    BY <2>1, <2>3
<1>2. HandInv /\ [Next]_hand => [Complete(hand) => AtMost(Value(hand), Value(hand'))]_hand
  BY <1>1
<1>3. QED
  BY <1>2, HandInvHolds, PTL DEF Spec, MoreCardsNeverLose

=============================================================================
