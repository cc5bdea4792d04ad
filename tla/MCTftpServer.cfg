SPECIFICATION Spec

CONSTANTS
    Host = {h1, h2}
    NoHost = nohost
    Port = {1}
    Address = {file, boot}
    FileStart = file
    BootStart = boot
    Chunk = {c}
    Junk = junk
    BlockMod = 3
    PortMod = 2
    WrqTimeout = 1
    MaxBlocks = 2

VIEW HideReply
SYMMETRY Symmetry

INVARIANTS
    TypeOK
    BusyIsLocked
    FreeIsClean

CHECK_DEADLOCK TRUE
