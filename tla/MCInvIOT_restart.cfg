SPECIFICATION Spec
CONSTANTS
    MAX_INV_NUM = 2
    Serials = {"s1", "s2"}
    DcNum = {1, 2}
    ConfFiles <- RestartFiles
    Counts <- RestartCounts
    Times <- RestartTimes
    MinuteTicks = 1
    HourTicks = 1
    UIntRange = 4
    Budget <- RestartBudget
INVARIANTS
    TypeOK
    ReadingsOnSchedule
    CycleVerdicts
    LossExplained
    CountedReadings
PROPERTY
    KeepsLog
CHECK_DEADLOCK FALSE
