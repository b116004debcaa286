CONSTANTS
    Page = 4
    Tab = 8
    MaxBlanks = 223
    Window = 2
    Buffer = 5
    Temp = 10
    LongStems <- MCLongStems
    Ranked <- MCRanked
    Block = 2
    LabelEnd = 6
    MaxEntries = 3
    MaxRuns = 2
    Now <- Today
    Commands <- MCCommands
    SystemFiles <- MCSystemFiles
    Files0 <- MCFiles
    Image0 <- MCImage
SPECIFICATION Spec
INVARIANTS TypeOK SuccessIsComplete CopyIsPrefix PermanentFilesExtracted
PROPERTIES ReplacedAsAWhole
CHECK_DEADLOCK FALSE
