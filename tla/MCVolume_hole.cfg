CONSTANTS
    n1 = n1
    n2 = n2
    n3 = n3
    zero = zero
    x = x
    Torn = Torn
    Names <- TwoNames
    Byte <- TwoBytes
    Zero = zero
    BlockSize = 8
    LabelEnd = 6
    EndOfVolume = 8
    MaxEntries = 2
    Twin = FALSE
    Sizes = {1}
    Offsets = {3}
    Lengths = {1}
    MayFail = TRUE
    MayDie = FALSE
SPECIFICATION Spec
SYMMETRY NameSymmetry
PROPERTIES HoleKeepsBytes OneFileAtATime
