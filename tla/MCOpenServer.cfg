SPECIFICATION OpenSpec
CONSTANTS
    c1 = c1
    c2 = c2
    c3 = c3
    Conns = {c1, c2, c3}
    NoConn = NoConn
    Port <- MCPort
    MAX_PLAYERS = 2
    StartingStack = 1
    Amounts <- MCAmounts
    Strengths <- MCStrengths
    DECK_SIZE = 9
    MaxSends <- MCSends
    PacketTypes = {"JOIN", "READY", "LEAVE"}
CHECK_DEADLOCK FALSE
INVARIANTS
    ServerTypeOK
    BettingNeverOpens
    HandsAreWhole
    InfoNamesASeat
    ServedSeatIsOpen
PROPERTIES
    LeftIsFinal
