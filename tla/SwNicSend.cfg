SPECIFICATION Spec

CONSTANTS
    RxCnt = 3
    TxCnt = 3
    Packet = {p1, p2, alien}
    Foreign = {alien}
    NoPacket = none
    MaxUnread = 2
    MaxStartups = 1

PROPERTY
    SentIsTransmitted
