CONSTANTS
    n1 = n1
    n2 = n2
    n3 = n3
    zero = zero
    x = x
    Torn = Torn
    Names <- TwoNames
    Byte <- TwoBytes
    Zero = zero
    BlockSize = 2
    LabelEnd = 6
    EndOfVolume = 9
    MaxEntries = 2
    Twin = FALSE
    Sizes = {0, 1, 4, 8}
    Offsets = {0, 1, 2}
    Lengths = {1, 3}
    MayFail = FALSE
    MayDie = TRUE
SPECIFICATION Spec
SYMMETRY NameSymmetry
INVARIANTS ExtentsDisjoint NamesUnique DirectoryWritten FreeSpaceExact WipeErases
PROPERTIES NoSpaceIsReal KillKeepsOtherFiles ReadOnlyChangesNothing
