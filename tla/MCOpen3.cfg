SPECIFICATION HistorySpec
CONSTANTS
    c1 = c1
    c2 = c2
    c3 = c3
    Conns = {c1, c2, c3}
    NoConn = NoConn
    Port <- MCPort3
    MAX_PLAYERS = 3
    StartingStack = 1
    Amounts <- MCAmounts
    Strengths <- MCStrengths
    DECK_SIZE = 11
    MaxSends <- MCSends3
    PacketTypes = {"JOIN", "READY"}
CHECK_DEADLOCK FALSE
INVARIANTS
    OnlyHangingUpKills
    ServerNeverSpins
    ServedSeatIsOpen
    CardsAreDistinct
PROPERTIES
    WinnerPlayedTheHand
    HandRunsThrough
    PlaysHands
