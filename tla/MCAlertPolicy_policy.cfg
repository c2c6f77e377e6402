SPECIFICATION Spec
CONSTANTS
    cpu = cpu
    upload = upload
    None = None
    Conditions <- MCConditions
    Windowed <- MCWindowed
    Settings <- MixedSettings
    Samples <- AnySample
    StateTTL = 4
    MaxTime = 7
INVARIANT TypeOK
PROPERTY WindowSound
PROPERTY FiresWhenDue
PROPERTY ThrottleSpec
CHECK_DEADLOCK FALSE
