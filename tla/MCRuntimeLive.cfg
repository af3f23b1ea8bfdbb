SPECIFICATION EndlessSpec
CONSTANTS
    QueueSlots <- MCLiveQueueSlots
    RunningSlots <- MCRunningSlots
    SlotKind = "modbus"
    MaxWork = 2
    MaxStarts = 1
    MaxGen = 1
    NoJob = NoJob
    NoSession = NoSession
PROPERTIES
    StopCompletes
    WorkSettles
