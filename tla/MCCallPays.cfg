SPECIFICATION HistorySpec
CONSTANTS
    MAX_PLAYERS = 3
    StartingStack = 4
    Amounts <- MCAmounts
    Strengths <- MCStrengths
    DECK_SIZE = 11
CHECK_DEADLOCK FALSE
PROPERTY CallPaysTheDifference
