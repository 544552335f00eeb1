SPECIFICATION RunNode
CONSTANTS
    Prompt = 2
    Oracle = 9
    Short = 6
    Activation = 2
    Trials = 3
    MaxOdd = 1
    Lengths = {2, 4}
    PromptTokens = 4
    MinTokens = 2
    Budget = 3
    Wide = 2
    Layers = 2
    Selected = {0, 2}
    Full = TRUE
    MaxCompleted = 2
    EmitCap = 2
    MaxSampled = 2
    MaxOut = 3
    MaxIssued = 3
    MaxLaunches = 2
    Table = {1, 2, 3}
    MaxRows = 2
    ReadWorkers = 2
    MinParallel = 2
    Regions = {1, 2}
    MaxIds = 3
    MaxLookups = 2
    MaxServed = 3
INVARIANTS
    SameCollectives
    MeasuredPassedTheGate
    VerdictIsExact
    ComparedAreWhole
    FixturesAreOneRequest
    OneShotIsWhole
    TraceFollowsRequest
    AnswersAreTheTable
    AdviceIsHonest
    ReadsAddUp
CHECK_DEADLOCK FALSE
