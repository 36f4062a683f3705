SPECIFICATION Spec
CONSTANTS
    None = None
    x = x
    y = y
    z = z
    root = root
    user = user
    a = a
    b = b
    m = m
    Nowhere = Nowhere
    Data <- MCData
    SizeOf <- MCSizeOf
    Owner <- MCOwner
    Name <- MCName
    Path <- MCPath
    Privileged = TRUE
    Self = root
    Now = 9
    Dir <- MCDir
    Here = a
    File <- MCFile
    PlaceOf <- Outside
    Blank = x
    Filled = y
    Contents <- MCContents
    CommandLines <- MCCommandLines
INVARIANTS
    DiffExitCode
    
PROPERTIES
    OutputNotOverwritten
