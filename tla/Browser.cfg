SPECIFICATION FairSpec
CONSTANTS
    BlockSize = 8
    InodeSize = 4
    DescSize = 4
    HeaderSize = 16
    InodesPerGroup = 5
    Names <- MCNames
    NoName = NoName
    DescAt <- MCDescAt
    InodeAt <- MCInodeAt
    TableAt <- MCTableAt
    EntriesAt <- MCEntriesAt
    Disk <- MCDisk
    Content <- MCContent
    Command <- MCCommand
    Chunk = 12
INVARIANTS
    TypeOK
    PointersFollowPosition
    ReadsTheFile
    ScanIsThorough
    WalkStaysOnPath
    PrintsInOrder
PROPERTIES
    ImplementsService
    EveryCommandEnds
\* exit ends the program.
CHECK_DEADLOCK FALSE
