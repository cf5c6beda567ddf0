SPECIFICATION Spec
CONSTANT Decks <- MCDecks
\* A hand of seven cards is complete.
CHECK_DEADLOCK FALSE
INVARIANT BestFiveDecide
PROPERTY MoreCardsNeverLose
