SPECIFICATION FairSpec
CONSTANTS
    MAX_INV_NUM = 2
    Serials = {"s1", "s2"}
    DcNum = {1, 2}
    ConfFiles <- SignalFiles
    Counts <- SignalCounts
    Times <- SignalTimes
    MinuteTicks = 1
    HourTicks = 1
    UIntRange = 4
    Budget <- SignalBudget
INVARIANTS
    DcMapTotal
    UbOnlyUnderSignal
    CloseWaitsForStatement
PROPERTIES
    CountedRunEnds
    MainSignalEnds
    EveryCycleEnds
CHECK_DEADLOCK FALSE
