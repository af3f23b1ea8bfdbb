SPECIFICATION FairSpec
CONSTANTS
    QueueSlots <- MCQueueSlots
    RunningSlots <- MCRunningSlots
    SlotKind = "cov"
    MaxWork = 1
    MaxStarts = 2
    MaxGen = 2
    NoJob = NoJob
    NoSession = NoSession
PROPERTIES
    StopCompletes
