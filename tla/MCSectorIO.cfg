SPECIFICATION Spec
CONSTANTS
    SectorSize = 3
    Sectors = 5
    Map <- MCMap
    Byte <- MCByte
    Zero <- MCZero
    Payloads <- MCPayloads
    Medium <- MCMedium
    MaxCalls = 1
CHECK_DEADLOCK FALSE
PROPERTIES
    ImplementsByteDevice
