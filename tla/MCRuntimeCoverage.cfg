SPECIFICATION CoverageSpec
CONSTANTS
    QueueSlots <- MCQueueSlots
    RunningSlots <- MCRunningSlots
    SlotKind = "cov"
    MaxWork = 2
    MaxStarts = 2
    MaxGen = 2
    NoJob = NoJob
    NoSession = NoSession
    Values = {0, 1}
    Lifetime = 2
    Margin = 1
    Capacity = 1
    MaxGenerations = 2
    MaxAir = 1
    MaxTroubles = 1
    NoSample = NoSample
INVARIANTS
    BudgetExact
    StoppedIsQuiet
    ResultsSound
    OneOwner
    CoverageHonest
