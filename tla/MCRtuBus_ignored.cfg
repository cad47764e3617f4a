SPECIFICATION Spec
CONSTANTS
    N = 3
    Settings <- LateSettings
    MaxFaults = 0
PROPERTIES
    NextIsConfirmation
