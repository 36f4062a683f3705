SPECIFICATION Spec
CONSTANTS
    None = None
    x = x
    y = y
    Data <- MCData
    SizeOf <- MCSizeOf
    Owner <- SpacedOwner
    Name <- MCName
    Path <- MCPath
    Privileged = TRUE
    Self <- Self0
    Now = 9
    Rank <- MCRank
    Multiline = {}
    Directories <- SpacedDirectories
    Links <- MCLinks
    MaxChanges = 2
INVARIANTS
    WrittenFileLoads
