SPECIFICATION FairSpec
CONSTANTS
    MAX_PLAYERS = 3
    StartingStack = 2
    Amounts <- MCAmounts
    Strengths <- MCStrengths
    DECK_SIZE = 11
\* A table that halted, or whose scan for an ACTIVE seat never returns, stops.
CHECK_DEADLOCK FALSE
INVARIANTS
    TypeOK
    TurnIsActive
    BetsMatchedOrOwed
    PotCoversBet
    OwedComeFirst
    SomeoneCanWin
    CardsAreDistinct
    ChipsAreConserved
    MatchedHasPaid
    OfferedMoveIsAccepted
    AskedSeatOwesWhatIsShown
PROPERTIES
    ImplementsLedger
    EveryMoveCosts
    BettingEnds
