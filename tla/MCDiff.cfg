SPECIFICATION Spec
CONSTANTS
    None = None
    x = x
    root = root
    Data <- MCData
    SizeOf <- MCSizeOf
    Owner <- MCOwner
    Name <- MCName
    Path <- MCPath
    Privileged = TRUE
    Self = root
    Now = 9
    Trees <- MCTrees
    Options <- MCOptions
INVARIANTS
    RecursionComputesDiff
    EveryDifferenceIsCovered
    EveryLineIsADifference
