SPECIFICATION Spec
CONSTANTS
    None = None
    x = x
    y = y
    Data <- MCData
    SizeOf <- MCSizeOf
    Owner <- PlainOwner
    Name <- MCName
    Path <- MCPath
    Privileged = TRUE
    Self <- Self0
    Now = 9
    Rank <- MCRank
    Multiline = {}
    Directories <- MCDirectories
    Links <- MCLinks
    MaxChanges = 2
PROPERTIES
    ListsImplementTree
    OnlyTornLinesAreRejected
