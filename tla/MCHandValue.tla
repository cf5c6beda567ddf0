----------------------------- MODULE MCHandValue -----------------------------
(* Small decks for TLC. *)
EXTENDS HandValue

\* The ranks from low to high in the given number of suits.
Cards(ranks, suits) == {rank * 4 + suit : rank \in ranks, suit \in suits}

\* Jack to ace in four suits, two tens and a nine: every category, royal flushes too.
MCHighDeck == Cards(9 .. 12, 0 .. 3) \cup Cards({8}, 0 .. 1) \cup Cards({7}, {0})

\* Two to six and the ace in three suits: the straights the ace could be low in.
MCLowDeck == Cards(0 .. 4 \cup {12}, 0 .. 2)

MCDecks == {MCHighDeck, MCLowDeck}

=============================================================================
