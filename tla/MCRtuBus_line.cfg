SPECIFICATION FairSpec
CONSTANTS
    N = 4
    Settings <- SomeSettings
    MaxFaults = 2
INVARIANTS
    TypeOK
    NoneSwallowed
    SilenceRealigns
PROPERTIES
    EverySlaveServed
