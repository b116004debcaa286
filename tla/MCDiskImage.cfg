SPECIFICATION DiskSpec
CONSTANTS
    Files = {a, b, c}
    Zero <- MCZero
    Label <- MCLabel
    Boot <- MCBoot
    Junk <- MCJunk
    Orders <- MCOrders
    Skippable = {14}
    GuessedSize = 8
    MkfsTracks = {1, 2}
    Existing = {52}
    Geometries <- MCGeometries
    Chunk = 16
    MaxPrograms = 3
SYMMETRY FileSymmetry
CHECK_DEADLOCK FALSE
INVARIANTS
    OpensAsMade
    BufferSuffices
