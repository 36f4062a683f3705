SPECIFICATION FairLifeSpec
CONSTANTS
    None = None
    Torn = Torn
    x = x
    y = y
    z = z
    me = me
    other = other
    Data <- MCData
    SizeOf <- MCSizeOf
    Owner <- MCOwner
    Name <- MCName
    Path <- LifePath
    Privileged = TRUE
    Self = me
    Now = 9
    Worlds <- LifeWorlds
    Commands <- FixupCommands
    Sources <- EditedSources
    Fragment = z
    MaxFaults = 2
    MaxEdits = 1
INVARIANTS
    OneFileSurvives
    FailureIsLocal
PROPERTIES
    CrashIsRecoverable
PROPERTIES RunsConverge
