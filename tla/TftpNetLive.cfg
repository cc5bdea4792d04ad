SPECIFICATION FairNetSpec

CONSTANTS
    Host = {pc}
    Pc = pc
    NoHost = nohost
    Port <- AllPorts
    Address = {file, boot}
    FileStart = file
    BootStart = boot
    Chunk <- Payload
    Junk <- FirstJunk
    BlockMod = 5
    PortMod = 7
    WrqTimeout = 1
    MaxBlocks = 2
    Jobs <- PutGetPut
    MaxAttempts = 2
    MaxCrashes = 0

PROPERTY
    PutsComplete

CHECK_DEADLOCK FALSE
