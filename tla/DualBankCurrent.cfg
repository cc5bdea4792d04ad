SPECIFICATION Spec
CONSTANTS
    GoodBit = 8
    ForceMark = 12
    Images <- MCImages
    MaxUploads = 2
CHECK_DEADLOCK TRUE
PROPERTY CurrentBankBoots
