CONSTANTS
    Agents = {a1, a2}
    Symbols = {s1}
    Watch <- EveryoneWatchesAll
    MaxMoves = 1
SPECIFICATION FairSpec
CHECK_DEADLOCK FALSE

PROPERTIES PricesArrive
