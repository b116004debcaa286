CONSTANTS
    n1 = n1
    n2 = n2
    n3 = n3
    zero = zero
    x = x
    Torn = Torn
    Names <- TwoNames
    Byte <- TwoBytes
    Zero = zero
    BlockSize = 4
    LabelEnd = 6
    EndOfVolume = 8
    MaxEntries = 2
    Twin = TRUE
    Sizes = {1}
    Offsets = {2}
    Lengths = {1}
    MayFail = TRUE
    MayDie = TRUE
SPECIFICATION Spec
VIEW StateView
SYMMETRY NameSymmetry
INVARIANTS InductiveInv BackupSurvivesKill
