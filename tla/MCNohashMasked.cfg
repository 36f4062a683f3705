SPECIFICATION Spec
CONSTANTS
    None = None
    Torn = Torn
    x = x
    y = y
    z = z
    me = me
    other = other
    Data <- MCData
    SizeOf <- MCSizeOf
    Owner <- MCOwner
    Name <- MCName
    Path <- FilePath
    Privileged = TRUE
    Self = me
    Now = 9
    Worlds <- FileWorlds
    Commands <- NohashCommands
PROPERTIES
    RepairNeverMasksContent
