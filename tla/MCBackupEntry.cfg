SPECIFICATION Spec
CONSTANTS
    None = None
    Torn = Torn
    x = x
    y = y
    z = z
    me = me
    other = other
    Data <- MCData
    SizeOf <- MCSizeOf
    Owner <- MCOwner
    Name <- MCName
    Path <- EntryPath
    Privileged = FALSE
    Self = me
    Now = 9
    Worlds <- EntryWorlds
    Commands <- AllCommands
INVARIANTS
    TypeOK
    BackupIsComplete
    OneMetadataFileIntact
    CorruptedFileRepaired
    MirrorOnDisk
    NoStaleLine
    MetadataFollowsDirectory
PROPERTIES
    SourceRotNotCopied
    MtimeNeverMasksContent
