SPECIFICATION NetSpec

CONSTANTS
    Host = {pc}
    Pc = pc
    NoHost = nohost
    Port <- AllPorts
    Address = {file, boot}
    FileStart = file
    BootStart = boot
    Chunk <- Payload
    Junk <- FirstJunk
    BlockMod = 5
    PortMod = 7
    WrqTimeout = 1
    MaxBlocks = 2
    Jobs <- PutPutGet
    MaxAttempts = 2
    MaxCrashes = 1

VIEW HideReply

INVARIANTS
    UploadIntegrity
    PublishedImage
    AckedIsStored
    ReadsInsideFile

PROPERTY
    NoSilentRestart
    BlocksAnswered
    ServiceSpec

CHECK_DEADLOCK FALSE
