------------------------------ MODULE HandValue ------------------------------
(***************************************************************************)
(* value_of_hand of game_logic.c.  A card is rank * 4 + suit, as in        *)
(* macros.h, and a NOCARD is a card that is not in the hand.  The 64 bits  *)
(* the code returns hold the category in the upper bits and the ranks that *)
(* break ties in groups of four bits below; here they are a sequence, and  *)
(* the order of the numbers is the lexicographic one.  find_winner         *)
(* compares hands of seven cards, and of five when a seat was not dealt in.*)
(*                                                                         *)
(* The reference is the rule of the game, a hand is worth its best five    *)
(* cards, with one rule of the house: see InARow.                          *)
(***************************************************************************)
EXTENDS Integers, Sequences, FiniteSetsExt

CONSTANT Decks   \* sets of cards; a hand is drawn from one of them

ASSUME DecksOfCards == Decks \subseteq SUBSET (0 .. 51)

VARIABLE hand   \* the cards drawn so far

ACE == 12
Rank(card) == card \div 4
Suit(card) == card % 4

Ranks(cards) == {Rank(card) : card \in cards}
HighestOf(S) == CHOOSE m \in S : \A n \in S : n <= m

\* The n highest of S in descending order, or all of them: the i-th has i - 1
\* higher ones above it.
Highest(n, S) ==
    [i \in 1 .. IF n < Cardinality(S) THEN n ELSE Cardinality(S) |->
        CHOOSE r \in S : Cardinality({higher \in S : higher > r}) = i - 1]

-----------------------------------------------------------------------------
(* The code *)

\* Bit 0 is set for an ace, which is the bit of the two.
WithLowAce(ranks) == IF ACE \in ranks THEN ranks \cup {0} ELSE ranks

\* Mutant: five ranks in a row are looked for below the ace only.
StraightHighsBelowAce(ranks) == {hi \in 4 .. 11 : hi - 4 .. hi \subseteq WithLowAce(ranks)}

\* The highest cards of the straights the bit mask finds.
StraightHighs(ranks) == {hi \in 4 .. 12 : hi - 4 .. hi \subseteq WithLowAce(ranks)}

SuitRanks(cards, suit) == Ranks({card \in cards : Suit(card) = suit})

\* Mutant: six cards of a suit are no flush.
FlushRanksOfFive(cards) ==
    UNION {SuitRanks(cards, s) : s \in {t \in 0 .. 3 : Cardinality(SuitRanks(cards, t)) = 5}}

\* The ranks of the suit that has five cards, if there is one.
FlushRanks(cards) ==
    UNION {SuitRanks(cards, s) : s \in {t \in 0 .. 3 : Cardinality(SuitRanks(cards, t)) >= 5}}

OfAKind(cards, n) ==
    {r \in Ranks(cards) : Cardinality({card \in cards : Rank(card) = r}) = n}

\* Mutant: the second three of a kind is not looked at.
FullHousePairsOnly(cards) == OfAKind(cards, 2)

\* What can be the pair of a full house: a second three of a kind before a pair.
FullHousePairs(cards) ==
    LET trips == OfAKind(cards, 3)
        low   == {r \in trips : \E higher \in trips : r < higher}
    IN  IF low # {} THEN low ELSE OfAKind(cards, 2)

\* The categories in the order the code tries them, and the ranks that break ties.
Value(cards) ==
    LET ranks == Ranks(cards)
        quads == OfAKind(cards, 4)
        trips == OfAKind(cards, 3)
        pairs == Highest(2, OfAKind(cards, 2))
        flush == FlushRanks(cards)
        Kickers(n, out) == Highest(n, ranks \ out)
    IN  IF StraightHighs(flush) # {} THEN <<9, HighestOf(StraightHighs(flush))>>
        ELSE IF quads # {} THEN <<8, HighestOf(quads)>> \o Kickers(1, quads)
        ELSE IF trips # {} /\ FullHousePairs(cards) # {}
             THEN <<7, HighestOf(trips), HighestOf(FullHousePairs(cards))>>
        ELSE IF flush # {} THEN <<6>> \o Highest(5, flush)
        ELSE IF StraightHighs(ranks) # {} THEN <<5, HighestOf(StraightHighs(ranks))>>
        ELSE IF trips # {} THEN <<4, HighestOf(trips)>> \o Kickers(2, trips)
        ELSE IF Len(pairs) = 2 THEN <<3>> \o pairs \o Kickers(1, {pairs[1], pairs[2]})
        ELSE IF Len(pairs) = 1 THEN <<2>> \o pairs \o Kickers(3, {pairs[1]})
        ELSE <<1>> \o Highest(5, ranks)

\* The order of the numbers: v <= w.
AtMost(v, w) ==
    \/ v = w
    \/ \E i \in DOMAIN v \cap DOMAIN w :
          v[i] < w[i] /\ \A j \in 1 .. i - 1 : v[j] = w[j]

-----------------------------------------------------------------------------
(* Hands: cards are drawn in ascending order, so that each set comes once. *)

Init == hand = {}

Draw(card) ==
    /\ Cardinality(hand) < 7
    /\ \A drawn \in hand : drawn < card
    /\ hand' = hand \cup {card}
    /\ \E deck \in Decks : hand' \subseteq deck

Next == \E card \in UNION Decks : Draw(card)
Spec == Init /\ [][Next]_hand

-----------------------------------------------------------------------------
(* The rule for five cards *)

\* The ranks by how many there are of each, then by height.
ByCount(five) ==
    Highest(5, OfAKind(five, 4)) \o Highest(5, OfAKind(five, 3))
        \o Highest(5, OfAKind(five, 2)) \o Highest(5, OfAKind(five, 1))

\* Five ranks in a row.  The code differs from the game in one thing: an ace may
\* be a two, so that A-3-4-5-6 is a straight to the six, and is never a one, so
\* that A-2-3-4-5 is none.
InARow(five) ==
    \E low \in 0 .. 8 :
        low .. low + 4 \in {Ranks(five), WithLowAce(Ranks(five)) \ {ACE}}

\* The rank of the card the straight goes up to.
StraightTo(five) ==
    IF Ranks(five) \ {ACE} = 1 .. 4 THEN 4 ELSE HighestOf(Ranks(five))

OneSuit(five) == \A c, d \in five : Suit(c) = Suit(d)
HowMany(five, n) == Cardinality(OfAKind(five, n))

FiveCardRule(five) ==
    IF InARow(five) THEN <<IF OneSuit(five) THEN 9 ELSE 5, StraightTo(five)>>
    ELSE <<CASE HowMany(five, 4) = 1 -> 8
             [] HowMany(five, 3) = 1 /\ HowMany(five, 2) = 1 -> 7
             [] HowMany(five, 3) = 1 /\ HowMany(five, 2) = 0 -> 4
             [] HowMany(five, 2) = 2 -> 3
             [] HowMany(five, 2) = 1 /\ HowMany(five, 3) = 0 -> 2
             [] OneSuit(five) -> 6
             [] OTHER -> 1>> \o ByCount(five)

-----------------------------------------------------------------------------
(* Properties *)

Complete(cards) == Cardinality(cards) >= 5

\* value_of_hand is worth the best five cards of the hand: no five of them are
\* worth more, and some five are worth as much.
BestFiveDecide ==
    Complete(hand) =>
        LET values == {FiveCardRule(five) : five \in kSubset(5, hand)}
        IN  Value(hand) \in values /\ \A v \in values : AtMost(v, Value(hand))

\* One more card never makes a hand worth less: a seat that plays the five cards
\* of the board alone cannot beat a seat that has two cards more.
MoreCardsNeverLose ==
    [][Complete(hand) => AtMost(Value(hand), Value(hand'))]_hand

=============================================================================
