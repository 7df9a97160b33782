SPECIFICATION Spec
CONSTANTS
    Agent = "a"
    Coins = {"b", "e"}
    Entries = {"q", "r", "u"}
    Slots = {"c"}
    Job = "recon"
    NoValue = "none"
    Allocation = 2
    MaxOpens = 3
    Guesses = {2}

    Engines = {"grid", "dca", "rsi"}
    GridCount = 1
    Budget = 3
    MaxOrders = 4
    MaxCycles = 3
    MaxInterferences = 1

    Quotes = {2, 4}
    Sizes = {1, 2}
    Slip = 1
    Leverage = 2
    Deposit = 6
    MaxPositions = 2
    MaxTicks = 1
    MaxPlaced = 2

    Watchlist = {"b", "c"}
    Answers <- SmallAnswers
    Debaters = 3
    MinParticipants = 2
    MinConfidence = 60
    MaxHeld = 1
    MaxRounds = 2

    Candles = {70, 80, 90, 100, 110, 120}
    Lots = {1}
    Stake = 500
    Watched <- SmallWatched
    LastHour = 5
    Histories <- SmallHistories
    Page = 2
    Window = 2
    Ratio = 60
    MinNotional = 100
    Interval = 1
    Replies <- SmallReplies
    MaxReplies = 2

    MaxSize = 2
    MaxNet = 3
    MaxTries = 3
    MaxCalls = 3
    MaxForeign = 2
CHECK_DEADLOCK FALSE
INVARIANTS
    LedgerIsSound
    StateTellsPosition
    AccountsAgree
    OrdersFollowRules
    ReportIsHonest
    OneFillPerCall
PROPERTIES
    OrdersKeepMarginCovered
    RecordExplainsRows
