SPECIFICATION FairSysSpec
CONSTANTS
    Units = 4
    Requests = {1, 2}
    MaxCnt = 2
    Erased = 3
    MaxFaults = 2
CHECK_DEADLOCK TRUE
INVARIANTS HeapTypeOK BlocksApart ListJoined BootTypeOK GoodBankLeft UpgradeTried TriesBounded
PROPERTIES ArenaSpec CallsReturn FallsBack
