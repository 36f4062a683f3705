SPECIFICATION FairSpec
CONSTANTS
    a = a
    b = b
    c = c
    root = root
    toor = toor
    adm = adm
    zero = zero
    one = one
    None = None
    Thrown = Thrown
    Thread <- MCThread
    Id <- MCId
    Label <- MCLabel
    Entry <- MCEntry
    ToString <- MCToString
    NameById <- MCNameById
    IdByName <- MCIdByName
    OwnerId <- MCOwnerId
INVARIANTS
    NamesLeadBack
    NothingOutlivesTheCall
PROPERTIES
    FirstAnswerStands
    LookupsAreAtomic
    ScanIsComplete
    ScanEnds
