CONSTANTS
    n1 = n1
    n2 = n2
    n3 = n3
    zero = zero
    x = x
    Torn = Torn
    Names <- TwoNames
    Byte <- TwoBytes
    Zero = zero
    BlockSize = 4
    LabelEnd = 6
    EndOfVolume = 8
    MaxEntries = 2
    Twin = FALSE
    Sizes = {0, 5}
    Offsets = {0, 2}
    Lengths = {1, 2}
    MayFail = FALSE
    MayDie = FALSE
SPECIFICATION FairSpec
PROPERTIES ImplementsFileStore HandlersReturn
