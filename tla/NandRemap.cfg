SPECIFICATION NandSpec
CONSTANTS
    Blocks = 4
    RBA = 2
    Pages = 2
    Data = {d}
    MaxMarked = 1
    MaxFaults = 2
    MaxHarm = 2
CHECK_DEADLOCK TRUE
INVARIANTS NandTypeOK TablesSound NeverOnListed OneToOne ReadBack StartsAgain
