SPECIFICATION EspSpec
CONSTANTS
    Disks <- MCDisks
    SectorFat = 8
    SectorSlots = 2
    End = 99
    Fat12 = 6
    Fat16 = 8
    Buffers = {1, 4}
    MaxFails = 1
    MaxCalls = 4
CHECK_DEADLOCK FALSE
INVARIANT NeverPanics
