SPECIFICATION Spec
CONSTANTS
    LabelEnd = 2
    ActualEnd = 4
    BlockSize = 2
    Slots = 3
    Capacity = 3
    Empty <- None
    Images <- MCImages
INVARIANTS
    MetaReadInv
    SoundIsAccepted
    ReadsInBuffer
PROPERTIES
    RepairTouchesOnlyDamage
    RepairSettles
