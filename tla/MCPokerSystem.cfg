SPECIFICATION SystemSpec
CONSTANTS
    Conns = {0, 1, 2}
    NoConn = NoConn
    Port <- MCPort
    MAX_PLAYERS = 3
    StartingStack = 1
    Amounts <- MCAmounts
    Strengths <- MCStrengths
    DECK_SIZE = 11
    Commands = {"READY", "CHECK"}
    Attempts = 2
    MaxLines <- MCLines
CHECK_DEADLOCK FALSE
INVARIANTS
    NoMutualWait
PROPERTIES
    EverybodyStops
