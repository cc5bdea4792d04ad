----------------------------- MODULE TftpServer -----------------------------
(***************************************************************************)
(* The TFTP server of the boot loader's download mode                      *)
(* (src/boot/init/eth_tftpd.c), in the default build: server role only, no *)
(* TFTP client, HTTP or DHCP server, flash present.                        *)
(*                                                                         *)
(* kick_tftpd() runs in the switch interrupt once per received packet and  *)
(* calls the handler that BootStateEvent names for the current state and   *)
(* the packet's event; the monitor's commands run between interrupts.  One *)
(* packet is one step here, because interrupts do not nest.                *)
(*                                                                         *)
(* Abstractions.  A file is counted in full 512-byte blocks: a length in   *)
(* bytes is represented by its quotient by 512, so a file of n full blocks *)
(* always travels as n + 1 DATA packets, the last one short (maybe empty). *)
(* The payload of DATA is at most 512 bytes and the length in the UDP      *)
(* header is that of the packet (prepareACK checks neither, and stores a   *)
(* longer payload whole).                                                  *)
(* The payload of a packet is an element of Chunk, RAM holds one Chunk per *)
(* block.  BlockMod stands for 2^16, the range of block numbers, PortMod   *)
(* for the range of SERVER_port (counted from its first value, 2098), and  *)
(* WrqTimeout for the 2000 ticks of the WRQ takeover rule.                 *)
(*                                                                         *)
(* A Deviant_ operator is a deliberate mistake and no part of the model:   *)
(* put in place of the definition of that name, it breaks a property.      *)
(***************************************************************************)
EXTENDS Naturals

CONSTANTS
    Host,        \* the machines on the wire (an IP and a MAC address each)
    NoHost,      \* TFTP_CLIENT's entry of the ARP table before any client came
    Port,        \* the UDP ports these machines send from
    Address,     \* RAM addresses an image may be loaded at
    FileStart,   \* FILESTART, the initial image_address
    BootStart,   \* BOOTSTART, where "boot.img" is loaded
    Chunk,       \* payloads of a DATA packet
    Junk,        \* what RAM holds where nothing was stored
    BlockMod,    \* block numbers are unsigned short
    PortMod,     \* so is SERVER_port
    WrqTimeout,  \* ticks of silence after which a second WRQ is accepted
    MaxBlocks    \* bound: full blocks that fit in RAM behind an address

ASSUME ConstantsAssumption ==
    /\ NoHost \notin Host
    /\ FileStart \in Address /\ BootStart \in Address
    /\ BlockMod \in Nat /\ BlockMod > 2
    /\ PortMod \in Nat /\ PortMod > 0
    /\ WrqTimeout \in Nat
    /\ MaxBlocks \in Nat

BootState == {"INIT_ARP", "CLIENT_RRQ", "CLIENT_WRQ"}
BlockNo   == 0 .. BlockMod - 1
FileName  == {"plain", "nfjrom", "boot.img"}

(***************************************************************************)
(* The packets kick_tftpd() distinguishes.  "full" says that the payload   *)
(* has 512 bytes; dport is an offset from port 2098, or TFTP_PORT.         *)
(***************************************************************************)
TFTP_PORT == PortMod
DestPort  == 0 .. PortMod
Packet ==
    [op : {"RRQ"}, host : Host, port : Port, dport : DestPort]
    \cup [op : {"WRQ"}, host : Host, port : Port, dport : DestPort, name : FileName]
    \cup [op : {"DATA"}, host : Host, port : Port, dport : DestPort,
          block : BlockNo, chunk : Chunk, full : BOOLEAN]
    \cup [op : {"ACK"}, host : Host, port : Port, dport : DestPort, block : BlockNo]
    \cup [op : {"ERROR", "OACK"}, host : Host, port : Port]

VARIABLES
    bootState, one_tftp_lock, block_expected, it_is_EOF,
    image_address,         \* where the next upload is stored and downloads read
    address_to_store,      \* [base, off]: off full blocks past address base
    file_length_to_server, \* full blocks received by the current upload
    file_length_to_client, \* full blocks of the file downloads send
    ram,                   \* ram[a][i]: block i behind address a
    client, CLIENT_port,   \* arptable_tftp[TFTP_CLIENT] and its UDP port
    SERVER_port,
    jump_to_test, autoBurn,
    silence,               \* ticks since rx_kickofftime, saturating
    control,               \* who runs: the server, or what it handed over to
    tx                     \* packets the last step gave to prepare_txpkt

session == <<bootState, one_tftp_lock, block_expected, it_is_EOF>>
image   == <<image_address, address_to_store, file_length_to_server, ram>>
peer    == <<client, CLIENT_port>>
flags   == <<jump_to_test, autoBurn>>
vars    == <<session, image, file_length_to_client, peer, SERVER_port, flags,
             silence, control, tx>>

Controls == {"serving", "jumped", "rebooting", "wild"}

(***************************************************************************)
(* tftpd_entry(), the state of a server that has just been started.        *)
(***************************************************************************)
Init ==
    /\ bootState = "INIT_ARP"
    /\ one_tftp_lock = FALSE
    /\ block_expected = 0
    /\ it_is_EOF = FALSE
    /\ image_address = FileStart
    /\ address_to_store = [base |-> FileStart, off |-> 0]
    /\ file_length_to_server = 0
    /\ file_length_to_client = 0
    /\ ram = [a \in Address |-> [i \in 1 .. MaxBlocks + 1 |-> Junk]]
    /\ client = NoHost
    /\ CLIENT_port \in Port
    /\ SERVER_port = 0
    /\ jump_to_test = FALSE
    /\ autoBurn = TRUE
    /\ silence = 0
    /\ control = "serving"
    /\ tx = {}

-----------------------------------------------------------------------------
(***************************************************************************)
(* Replies.  tftpd_send_ack() and tftpd_send_data() address the client     *)
(* that the handler has just memorised, hence host and port as parameters. *)
(* A DATA block past the end of the file has a negative length, which      *)
(* memcpy takes for a huge one: the loader is then out of control.         *)
(***************************************************************************)
Reply(op, h, p, n) ==
    [op |-> op, host |-> h, port |-> p, sport |-> SERVER_port, block |-> n]

Deviant_BlockAt(n) == IF n \in 0 .. MaxBlocks THEN ram[image_address][n + 1] ELSE Junk
BlockAt(n) == IF n \in 1 .. MaxBlocks + 1 THEN ram[image_address][n] ELSE Junk

LastBlock == file_length_to_client + 1

Deviant_AtEnd(n) == n > LastBlock
AtEnd(n) == n >= LastBlock

tftpd_send_ack(h, p, n) == tx' = {Reply("ACK", h, p, n)}

tftpd_send_data(h, p, n) ==
    /\ tx' = IF n > LastBlock THEN {}
             ELSE {[op |-> "DATA", host |-> h, port |-> p, sport |-> SERVER_port,
                    block |-> n, chunk |-> BlockAt(n), full |-> n < LastBlock]}
    /\ it_is_EOF' = (it_is_EOF \/ AtEnd(n))
    /\ control' = IF n > LastBlock THEN "wild" ELSE control

Deviant_NextBlock(n) == n + 1
NextBlock(n) == (n + 1) % BlockMod
Deviant_PrevBlock(n) == n
PrevBlock(n) == (n + BlockMod - 1) % BlockMod

-----------------------------------------------------------------------------
(***************************************************************************)
(* The handlers.  errorDrop changes nothing; doARPReply and updateARPTable *)
(* change nothing in the server role, so ARP packets are left out.         *)
(***************************************************************************)
errorDrop ==
    /\ tx' = {}
    /\ UNCHANGED <<session, image, file_length_to_client, peer, SERVER_port,
                   flags, control>>

errorTFTP ==
    /\ bootState' = "INIT_ARP"
    /\ tx' = {}
    /\ UNCHANGED <<one_tftp_lock, block_expected, it_is_EOF, image,
                   file_length_to_client, peer, SERVER_port, flags, control>>

Deviant_TakeLock == UNCHANGED one_tftp_lock
TakeLock == one_tftp_lock' = TRUE

setTFTP_RRQ(p) ==
    IF p.dport # TFTP_PORT THEN errorDrop
    ELSE /\ client' = p.host
         /\ CLIENT_port' = p.port
         /\ TakeLock
         /\ tftpd_send_data(p.host, p.port, 1)
         /\ block_expected' = 1
         /\ bootState' = "CLIENT_RRQ"
         /\ UNCHANGED <<image, file_length_to_client, SERVER_port, flags>>

Deviant_RewindStore ==
    /\ address_to_store' = [base |-> image_address', off |-> 0]
    /\ UNCHANGED file_length_to_server

RewindStore ==
    /\ address_to_store' = [base |-> image_address', off |-> 0]
    /\ file_length_to_server' = 0

setTFTP_WRQ(p) ==
    IF p.dport # TFTP_PORT THEN errorDrop
    ELSE /\ client' = p.host
         /\ CLIENT_port' = p.port
         /\ jump_to_test' = (jump_to_test \/ p.name # "plain")
         /\ image_address' = IF p.name = "boot.img" THEN BootStart ELSE image_address
         /\ RewindStore
         /\ tftpd_send_ack(p.host, p.port, 0)
         /\ block_expected' = 1
         /\ TakeLock
         /\ bootState' = "CLIENT_WRQ"
         /\ UNCHANGED <<it_is_EOF, ram, file_length_to_client, SERVER_port,
                        autoBurn, control>>

(***************************************************************************)
(* prepareACK: a DATA packet.  The last, short one ends the transfer and   *)
(* hands over to the image (jump_to_test) or to checkAutoFlashing, which   *)
(* either returns or reboots the board.                                    *)
(***************************************************************************)
StoreBlock(p) ==
    /\ ram' = [ram EXCEPT ![address_to_store.base][address_to_store.off + 1] = p.chunk]
    /\ tftpd_send_ack(client, p.port, block_expected)

FinishUpload ==
    /\ bootState' = "INIT_ARP"
    /\ one_tftp_lock' = FALSE
    /\ block_expected' = 0
    /\ it_is_EOF' = FALSE
    /\ address_to_store' = [base |-> image_address, off |-> 0]
    /\ file_length_to_client' = file_length_to_server
    /\ SERVER_port' = (SERVER_port + 1) % PortMod
    /\ jump_to_test' = FALSE
    /\ \/ jump_to_test /\ control' = "jumped"
       \/ ~jump_to_test /\ autoBurn /\ control' \in {"serving", "rebooting"}
       \/ ~jump_to_test /\ ~autoBurn /\ control' = "serving"
    /\ UNCHANGED file_length_to_server

RoomForBlock == address_to_store.off < MaxBlocks /\ file_length_to_server < MaxBlocks

Deviant_KeepReceiving ==
    /\ RoomForBlock
    /\ address_to_store' = [address_to_store EXCEPT !.off = @ + 1]
    /\ file_length_to_server' = file_length_to_server + 1
    /\ UNCHANGED <<session, file_length_to_client, SERVER_port, jump_to_test, control>>

KeepReceiving ==
    /\ RoomForBlock
    /\ address_to_store' = [address_to_store EXCEPT !.off = @ + 1]
    /\ file_length_to_server' = file_length_to_server + 1
    /\ block_expected' = NextBlock(block_expected)
    /\ UNCHANGED <<bootState, one_tftp_lock, it_is_EOF, file_length_to_client,
                   SERVER_port, jump_to_test, control>>

prepareACK(p) ==
    IF p.dport # SERVER_port THEN errorDrop
    ELSE /\ CLIENT_port' = p.port
         /\ UNCHANGED <<client, image_address, autoBurn>>
         /\ IF p.block # block_expected
            THEN /\ tftpd_send_ack(client, p.port, PrevBlock(block_expected))
                 /\ UNCHANGED <<session, address_to_store, file_length_to_server, ram,
                                file_length_to_client, SERVER_port, jump_to_test, control>>
            ELSE /\ StoreBlock(p)
                 /\ IF p.full THEN KeepReceiving ELSE FinishUpload

(***************************************************************************)
(* prepareDATA: an ACK packet.                                             *)
(***************************************************************************)
Deviant_FinishDownload ==
    /\ bootState' = "INIT_ARP"
    /\ one_tftp_lock' = FALSE
    /\ block_expected' = 0
    /\ tx' = {}
    /\ UNCHANGED <<it_is_EOF, control>>

FinishDownload ==
    /\ bootState' = "INIT_ARP"
    /\ one_tftp_lock' = FALSE
    /\ block_expected' = 0
    /\ it_is_EOF' = FALSE
    /\ tx' = {}
    /\ UNCHANGED control

prepareDATA(p) ==
    IF p.dport # SERVER_port THEN errorDrop
    ELSE /\ CLIENT_port' = p.port
         /\ UNCHANGED <<client, image, file_length_to_client, SERVER_port, flags>>
         /\ IF p.block # block_expected
            THEN /\ tftpd_send_data(client, p.port, block_expected)
                 /\ UNCHANGED <<bootState, one_tftp_lock, block_expected>>
            ELSE IF it_is_EOF THEN FinishDownload
            ELSE /\ block_expected' = NextBlock(block_expected)
                 /\ tftpd_send_data(client, p.port, NextBlock(block_expected))
                 /\ UNCHANGED <<bootState, one_tftp_lock>>

-----------------------------------------------------------------------------
(***************************************************************************)
(* kick_tftpd(): which packets raise an event, and the handler that        *)
(* BootStateEvent gives for it.                                            *)
(***************************************************************************)
BootStateEvent(s, op) ==
    CASE s = "INIT_ARP"   /\ op \in {"RRQ", "WRQ"} -> op
      [] s = "CLIENT_RRQ" /\ op \in {"RRQ", "DATA", "ACK"} -> op
      [] s = "CLIENT_WRQ" /\ op \in {"WRQ", "DATA", "ACK"} -> op
      [] s = "INIT_ARP"   /\ op \in {"DATA", "ACK", "ERROR", "OACK"} -> "drop"
      [] OTHER -> "error"

Deviant_WrqAccepted == TRUE
Deviant2_WrqAccepted == ~one_tftp_lock
WrqAccepted == \/ ~one_tftp_lock
               \/ block_expected = 1
               \/ silence > WrqTimeout

RaisesEvent(p) == /\ p.op = "RRQ" => ~one_tftp_lock
                  /\ p.op = "WRQ" => WrqAccepted

kick_tftpd(p) ==
    /\ control = "serving"
    /\ RaisesEvent(p)
    /\ silence' = IF p.op \in {"WRQ", "DATA"} THEN 0 ELSE silence
    /\ LET handler == BootStateEvent(bootState, p.op) IN
          \/ handler = "RRQ"   /\ setTFTP_RRQ(p)
          \/ handler = "WRQ"   /\ setTFTP_WRQ(p)
          \/ handler = "DATA"  /\ prepareACK(p)
          \/ handler = "ACK"   /\ prepareDATA(p)
          \/ handler = "error" /\ errorTFTP
          \/ handler = "drop"  /\ errorDrop

(***************************************************************************)
(* The timer interrupt, seen through get_timer_jiffies() - rx_kickofftime. *)
(***************************************************************************)
Tick ==
    /\ control = "serving"
    /\ silence <= WrqTimeout
    /\ silence' = silence + 1
    /\ tx' = {}
    /\ UNCHANGED <<session, image, file_length_to_client, peer, SERVER_port,
                   flags, control>>

(***************************************************************************)
(* Monitor commands that write the server's globals: LOADADDR, AUTOBURN    *)
(* and FLR, which sets the download length before it asks the operator     *)
(* whether to read the flash into RAM at all.                              *)
(***************************************************************************)
CmdLoad(a) ==
    /\ image_address' = a
    /\ UNCHANGED <<address_to_store, file_length_to_server, ram, autoBurn,
                   file_length_to_client>>

CmdAuto(b) ==
    /\ autoBurn' = b
    /\ UNCHANGED <<image, file_length_to_client>>

CmdFlr(a, n, c) ==
    /\ file_length_to_client' = n
    /\ ram' \in {ram, [ram EXCEPT ![a] = [i \in 1 .. MaxBlocks + 1 |->
                                            IF i <= n + 1 THEN c ELSE @[i]]]}
    /\ UNCHANGED <<image_address, address_to_store, file_length_to_server, autoBurn>>

Monitor ==
    /\ control = "serving"
    /\ tx' = {}
    /\ \/ \E a \in Address : CmdLoad(a)
       \/ \E b \in BOOLEAN : CmdAuto(b)
       \/ \E a \in Address, n \in 0 .. MaxBlocks, c \in Chunk : CmdFlr(a, n, c)
    /\ UNCHANGED <<session, peer, SERVER_port, jump_to_test, silence, control>>

(***************************************************************************)
(* tftpd_entry(), run when the board starts and again by the monitor's ETH *)
(* command (CmdEthStartup), which may come in the middle of a transfer:    *)
(* what it does not assign keeps its value.                                *)
(***************************************************************************)
tftpd_entry ==
    /\ bootState' = "INIT_ARP"
    /\ one_tftp_lock' = FALSE
    /\ block_expected' = 0
    /\ it_is_EOF' = FALSE
    /\ address_to_store' = [base |-> image_address', off |-> 0]
    /\ file_length_to_server' = 0
    /\ file_length_to_client' = 0
    /\ client' = NoHost
    /\ SERVER_port' = 0
    /\ tx' = {}
    /\ UNCHANGED CLIENT_port

CmdEthStartup ==
    /\ control = "serving"
    /\ UNCHANGED <<image_address, ram, flags, silence, control>>
    /\ tftpd_entry

(***************************************************************************)
(* Whatever took over, the board is reset in the end.                      *)
(***************************************************************************)
PowerCycle ==
    /\ image_address' = FileStart
    /\ ram' = [a \in Address |-> [i \in 1 .. MaxBlocks + 1 |-> Junk]]
    /\ jump_to_test' = FALSE
    /\ autoBurn' = TRUE
    /\ silence' = 0
    /\ control' = "serving"
    /\ tftpd_entry

Next == \/ \E p \in Packet : kick_tftpd(p)
        \/ Tick
        \/ Monitor
        \/ CmdEthStartup
        \/ PowerCycle

Spec == Init /\ [][Next]_vars

-----------------------------------------------------------------------------
(***************************************************************************)
(* Every variable keeps its type; block numbers and ports stay within      *)
(* their unsigned shorts and no block is stored past MaxBlocks.            *)
(***************************************************************************)
TypeOK ==
    /\ bootState \in BootState
    /\ one_tftp_lock \in BOOLEAN
    /\ block_expected \in BlockNo
    /\ it_is_EOF \in BOOLEAN
    /\ image_address \in Address
    /\ address_to_store \in [base : Address, off : 0 .. MaxBlocks]
    /\ file_length_to_server \in 0 .. MaxBlocks
    /\ file_length_to_client \in 0 .. MaxBlocks
    /\ ram \in [Address -> [1 .. MaxBlocks + 1 -> Chunk \cup {Junk}]]
    /\ client \in Host \cup {NoHost}
    /\ CLIENT_port \in Port
    /\ SERVER_port \in 0 .. PortMod - 1
    /\ jump_to_test \in BOOLEAN
    /\ autoBurn \in BOOLEAN
    /\ silence \in 0 .. WrqTimeout + 1
    /\ control \in Controls

(***************************************************************************)
(* A transfer in progress holds one_tftp_lock, whatever packets arrive in  *)
(* whatever order and whatever the monitor does.                           *)
(***************************************************************************)
BusyIsLocked == bootState # "INIT_ARP" => one_tftp_lock

(***************************************************************************)
(* A server whose lock is free has nothing left over from the transfer     *)
(* before: setTFTP_RRQ resets neither it_is_EOF nor the state it finds, so *)
(* a download depends on whoever released the lock having done so.         *)
(***************************************************************************)
FreeIsClean ==
    ~one_tftp_lock => bootState = "INIT_ARP" /\ block_expected = 0 /\ ~it_is_EOF

(***************************************************************************)
(* During an upload the store pointer and the byte count that will be      *)
(* handed to checkAutoFlashing agree, although an ACK of an old download   *)
(* may have moved block_expected and LOADADDR may have moved the image.    *)
(***************************************************************************)
LengthMatchesAddress ==
    bootState = "CLIENT_WRQ" => address_to_store.off = file_length_to_server

(***************************************************************************)
(* A download is begun only by an idle server: never in the middle of an   *)
(* upload, not even after an ERROR packet made the server forget its state *)
(* but not the lock.                                                       *)
(***************************************************************************)
DownloadStartsClean ==
    [][bootState' = "CLIENT_RRQ" /\ bootState # "CLIENT_RRQ"
        => ~one_tftp_lock /\ block_expected = 0 /\ ~it_is_EOF]_vars

(***************************************************************************)
(* "now lock the tftp..till upload finished" (setTFTP_WRQ): while one      *)
(* client uploads, another takes its place only by the timeout rule.       *)
(***************************************************************************)
UploadKeepsLock ==
    [][bootState = "CLIENT_WRQ" /\ bootState' = "CLIENT_WRQ" /\ client' # client
        => silence > WrqTimeout]_vars

=============================================================================
