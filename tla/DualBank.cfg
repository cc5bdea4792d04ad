SPECIFICATION Spec
CONSTANTS
    GoodBit = 8
    ForceMark = 12
    Images <- MCImages
    MaxUploads = 4
CHECK_DEADLOCK TRUE
INVARIANTS TypeOK RunsBestBank UpgradeTakesEffect OneFailureIsSafe
PROPERTY UpgradeSpec
