SPECIFICATION FairSpec
CONSTANTS
    None = None
    Torn = Torn
    x = x
    y = y
    z = z
    me = me
    other = other
    Data <- MCData
    SizeOf <- MCSizeOf
    Owner <- MCOwner
    Name <- MCName
    Path <- DirPath
    Privileged = TRUE
    Self = me
    Now = 9
    Worlds <- DirWorlds
    Commands <- HashCommands
INVARIANTS
    MirrorOnDisk
    IndexMatchesContent
    NoStaleLine
    NoAssertionFails
    NextScrubIsClean
PROPERTIES
    
    Terminates
