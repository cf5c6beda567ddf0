SPECIFICATION SystemSpec
CONSTANTS
    Conns = {0, 1, 2}
    NoConn = NoConn
    Port <- MCPort
    MAX_PLAYERS = 3
    StartingStack = 1
    Amounts <- MCAmounts
    Strengths <- MCStrengths
    DECK_SIZE = 11
    Attempts = 2
    MaxClicks <- MCClicks
CHECK_DEADLOCK FALSE
INVARIANT RaisesAreAmounts
