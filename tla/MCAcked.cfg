SPECIFICATION SystemSpec
CONSTANTS
    Conns = {0, 1}
    NoConn = NoConn
    Port <- MCPort
    MAX_PLAYERS = 2
    StartingStack = 1
    Amounts <- MCAmounts
    Strengths <- MCStrengths
    DECK_SIZE = 9
    Commands = {"READY", "CHECK"}
    Attempts = 2
    MaxLines <- MCLines3
CHECK_DEADLOCK FALSE
PROPERTY MoveIsAcked
