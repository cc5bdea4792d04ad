-------------------------- MODULE TftpServer_proofs --------------------------
(***************************************************************************)
(* Proofs about TftpServer, for every set of hosts, ports, addresses and   *)
(* payloads and every bound: type correctness, the lock discipline, the    *)
(* store pointer of an upload, and that a download starts clean.           *)
(***************************************************************************)
EXTENDS TftpServer, TLAPS


(***************************************************************************)
(* Block numbers stay within their unsigned short.                         *)
(***************************************************************************)
LEMMA NextBlockType == ASSUME NEW n \in BlockNo PROVE NextBlock(n) \in BlockNo
BY ConstantsAssumption DEF NextBlock, BlockNo

(***************************************************************************)
(* BootStateEvent: DATA and ACK reach their handlers only during a         *)
(* transfer, RRQ never during an upload and WRQ never during a download.   *)
(***************************************************************************)
LEMMA HandlerOfEvent ==
    ASSUME NEW s \in BootState, NEW p \in Packet
    PROVE  LET h == BootStateEvent(s, p.op) IN
           /\ h = "RRQ" => p.op = "RRQ" /\ s # "CLIENT_WRQ"
           /\ h = "WRQ" => p.op = "WRQ" /\ s # "CLIENT_RRQ"
           /\ h = "DATA" => p.op = "DATA" /\ s # "INIT_ARP"
           /\ h = "ACK" => p.op = "ACK" /\ s # "INIT_ARP"
           /\ h = "drop" => s = "INIT_ARP"
BY DEF BootStateEvent, BootState, Packet

-----------------------------------------------------------------------------
(***************************************************************************)
(* Type correctness.                                                       *)
(***************************************************************************)
LEMMA InitTypeOK == Init => TypeOK
<1> SUFFICES ASSUME Init PROVE TypeOK
  OBVIOUS
<1>1. 0 \in BlockNo /\ 0 \in 0 .. MaxBlocks /\ 0 \in 0 .. PortMod - 1
      /\ 0 \in 0 .. WrqTimeout + 1
  BY ConstantsAssumption DEF BlockNo
<1>2. address_to_store \in [base : Address, off : 0 .. MaxBlocks]
  BY <1>1, ConstantsAssumption DEF Init
<1>3. ram \in [Address -> [1 .. MaxBlocks + 1 -> Chunk \cup {Junk}]]
  BY DEF Init
<1> QED
  BY <1>1, <1>2, <1>3, ConstantsAssumption DEF Init, TypeOK, BootState, Controls

\* setTFTP_RRQ leaves every variable in its type.
LEMMA RRQTypeOK ==
    ASSUME TypeOK, NEW p \in Packet, p.op = "RRQ", setTFTP_RRQ(p),
           silence' \in 0 .. WrqTimeout + 1
    PROVE  TypeOK'
<1>1. CASE p.dport # TFTP_PORT
  BY <1>1 DEF TypeOK, setTFTP_RRQ, errorDrop, session, image, peer, flags
<1>2. CASE p.dport = TFTP_PORT
  <2>1. p.host \in Host /\ p.port \in Port
    BY DEF Packet
  <2>2. 1 \in BlockNo
    BY ConstantsAssumption DEF BlockNo
  <2> QED
    BY <1>2, <2>1, <2>2
       DEF TypeOK, setTFTP_RRQ, TakeLock, tftpd_send_data, image, flags, BootState, Controls
<1> QED BY <1>1, <1>2

\* setTFTP_WRQ leaves every variable in its type.
LEMMA WRQTypeOK ==
    ASSUME TypeOK, NEW p \in Packet, p.op = "WRQ", setTFTP_WRQ(p),
           silence' \in 0 .. WrqTimeout + 1
    PROVE  TypeOK'
<1>1. CASE p.dport # TFTP_PORT
  BY <1>1 DEF TypeOK, setTFTP_WRQ, errorDrop, session, image, peer, flags
<1>2. CASE p.dport = TFTP_PORT
  <2>1. p.host \in Host /\ p.port \in Port
    BY DEF Packet
  <2>2. 1 \in BlockNo /\ 0 \in 0 .. MaxBlocks
    BY ConstantsAssumption DEF BlockNo
  <2>3. image_address' \in Address
    BY <1>2, ConstantsAssumption DEF TypeOK, setTFTP_WRQ
  <2>4. address_to_store' \in [base : Address, off : 0 .. MaxBlocks]
        /\ file_length_to_server' = 0
    BY <1>2, <2>2, <2>3 DEF setTFTP_WRQ, RewindStore
  <2> QED
    BY <1>2, <2>1, <2>2, <2>3, <2>4
       DEF TypeOK, setTFTP_WRQ, TakeLock, BootState
<1> QED BY <1>1, <1>2

\* prepareACK leaves every variable in its type.
LEMMA DATATypeOK ==
    ASSUME TypeOK, NEW p \in Packet, p.op = "DATA", prepareACK(p),
           silence' \in 0 .. WrqTimeout + 1
    PROVE  TypeOK'
<1>1. CASE p.dport # SERVER_port
  BY <1>1 DEF TypeOK, prepareACK, errorDrop, session, image, peer, flags
<1>2. CASE p.dport = SERVER_port /\ p.block # block_expected
  <2>1. p.port \in Port
    BY DEF Packet
  <2> QED
    BY <1>2, <2>1 DEF TypeOK, prepareACK, session
<1>3. CASE p.dport = SERVER_port /\ p.block = block_expected
  <2>1. p.port \in Port /\ p.chunk \in Chunk
    BY DEF Packet
  <2>2. ram' \in [Address -> [1 .. MaxBlocks + 1 -> Chunk \cup {Junk}]]
    <3>1. ram' = [ram EXCEPT ![address_to_store.base][address_to_store.off + 1] = p.chunk]
      BY <1>3 DEF prepareACK, StoreBlock
    <3>2. address_to_store.base \in Address
          /\ address_to_store.off + 1 \in 1 .. MaxBlocks + 1
      BY ConstantsAssumption DEF TypeOK
    <3>3. ram[address_to_store.base] \in [1 .. MaxBlocks + 1 -> Chunk \cup {Junk}]
      BY <3>2 DEF TypeOK
    <3> QED BY <2>1, <3>1, <3>2, <3>3 DEF TypeOK
  <2>3. /\ CLIENT_port' = p.port
        /\ UNCHANGED <<client, image_address, autoBurn>>
    BY <1>3 DEF prepareACK
  <2>4. CASE p.full
    <3>1. KeepReceiving
      BY <1>3, <2>4 DEF prepareACK
    <3>2. block_expected' \in BlockNo
      BY <3>1, NextBlockType DEF TypeOK, KeepReceiving
    <3>3. /\ address_to_store.off + 1 \in 0 .. MaxBlocks
          /\ file_length_to_server + 1 \in 0 .. MaxBlocks
      BY <3>1, ConstantsAssumption DEF TypeOK, KeepReceiving, RoomForBlock
    <3>4. /\ address_to_store' \in [base : Address, off : 0 .. MaxBlocks]
          /\ file_length_to_server' \in 0 .. MaxBlocks
      BY <3>1, <3>3 DEF TypeOK, KeepReceiving
    <3> QED
      BY <2>1, <2>2, <2>3, <3>1, <3>2, <3>4 DEF TypeOK, KeepReceiving
  <2>5. CASE ~p.full
    <3>1. FinishUpload
      BY <1>3, <2>5 DEF prepareACK
    <3>2. 0 \in BlockNo /\ 0 \in 0 .. MaxBlocks
      BY ConstantsAssumption DEF BlockNo
    <3>3. SERVER_port' \in 0 .. PortMod - 1
      BY <3>1, ConstantsAssumption DEF TypeOK, FinishUpload
    <3>4. control' \in Controls
      BY <3>1 DEF FinishUpload, Controls
    <3>5. address_to_store' \in [base : Address, off : 0 .. MaxBlocks]
      BY <3>1, <3>2 DEF TypeOK, FinishUpload
    <3> QED
      BY <2>1, <2>2, <2>3, <3>1, <3>2, <3>3, <3>4, <3>5
         DEF TypeOK, FinishUpload, BootState
  <2> QED BY <2>4, <2>5
<1> QED BY <1>1, <1>2, <1>3

\* prepareDATA leaves every variable in its type.
LEMMA ACKTypeOK ==
    ASSUME TypeOK, NEW p \in Packet, p.op = "ACK", prepareDATA(p),
           silence' \in 0 .. WrqTimeout + 1
    PROVE  TypeOK'
<1>1. CASE p.dport # SERVER_port
  BY <1>1 DEF TypeOK, prepareDATA, errorDrop, session, image, peer, flags
<1>2. CASE p.dport = SERVER_port
  <2>1. p.port \in Port /\ 0 \in BlockNo
    BY ConstantsAssumption DEF Packet, BlockNo
  <2>2. /\ CLIENT_port' = p.port
        /\ UNCHANGED <<client, image, file_length_to_client, SERVER_port, flags>>
    BY <1>2 DEF prepareDATA
  <2>3. CASE p.block # block_expected
    BY <1>2, <2>1, <2>2, <2>3
       DEF TypeOK, prepareDATA, tftpd_send_data, Controls, image, flags
  <2>4. CASE p.block = block_expected /\ it_is_EOF
    BY <1>2, <2>1, <2>2, <2>4
       DEF TypeOK, prepareDATA, FinishDownload, BootState, image, flags
  <2>5. CASE p.block = block_expected /\ ~it_is_EOF
    <3>1. block_expected' \in BlockNo
      BY <1>2, <2>5, NextBlockType DEF TypeOK, prepareDATA
    <3> QED
      BY <1>2, <2>1, <2>2, <2>5, <3>1
         DEF TypeOK, prepareDATA, tftpd_send_data, Controls, image, flags
  <2> QED BY <2>3, <2>4, <2>5
<1> QED BY <1>1, <1>2

\* The monitor commands leave every variable in its type.
LEMMA MonitorTypeOK == ASSUME TypeOK, Monitor PROVE TypeOK'
<1>1. /\ UNCHANGED <<session, peer, SERVER_port, jump_to_test, silence, control>>
      /\ \/ \E a \in Address : CmdLoad(a)
         \/ \E b \in BOOLEAN : CmdAuto(b)
         \/ \E a \in Address, n \in 0 .. MaxBlocks, c \in Chunk : CmdFlr(a, n, c)
  BY DEF Monitor
<1>2. CASE \E a \in Address : CmdLoad(a)
  BY <1>1, <1>2 DEF TypeOK, CmdLoad, session, peer
<1>3. CASE \E b \in BOOLEAN : CmdAuto(b)
  BY <1>1, <1>3 DEF TypeOK, CmdAuto, session, peer, image
<1>4. ASSUME NEW a \in Address, NEW n \in 0 .. MaxBlocks, NEW c \in Chunk, CmdFlr(a, n, c)
      PROVE  TypeOK'
  <2>1. ram' \in [Address -> [1 .. MaxBlocks + 1 -> Chunk \cup {Junk}]]
    <3> DEFINE Read == [i \in 1 .. MaxBlocks + 1 |-> IF i <= n + 1 THEN c ELSE ram[a][i]]
    <3>1. Read \in [1 .. MaxBlocks + 1 -> Chunk \cup {Junk}]
      BY DEF TypeOK
    <3>2. ram' = ram \/ ram' = [ram EXCEPT ![a] = Read]
      BY <1>4 DEF CmdFlr
    <3> QED BY <3>1, <3>2 DEF TypeOK
  <2> QED
    BY <1>1, <1>4, <2>1 DEF TypeOK, CmdFlr, session, peer
<1> QED BY <1>1, <1>2, <1>3, <1>4

\* No step takes a variable out of its type.
LEMMA NextTypeOK == TypeOK /\ [Next]_vars => TypeOK'
<1> SUFFICES ASSUME TypeOK, [Next]_vars PROVE TypeOK'
  OBVIOUS
<1>1. ASSUME NEW p \in Packet, kick_tftpd(p) PROVE TypeOK'
  <2>1. silence' \in 0 .. WrqTimeout + 1
    BY <1>1, ConstantsAssumption DEF kick_tftpd, TypeOK
  <2>2. bootState \in BootState
    BY DEF TypeOK
  <2>3. CASE BootStateEvent(bootState, p.op) = "RRQ" /\ setTFTP_RRQ(p)
    BY <2>1, <2>2, <2>3, HandlerOfEvent, RRQTypeOK
  <2>4. CASE BootStateEvent(bootState, p.op) = "WRQ" /\ setTFTP_WRQ(p)
    BY <2>1, <2>2, <2>4, HandlerOfEvent, WRQTypeOK
  <2>5. CASE BootStateEvent(bootState, p.op) = "DATA" /\ prepareACK(p)
    BY <2>1, <2>2, <2>5, HandlerOfEvent, DATATypeOK
  <2>6. CASE BootStateEvent(bootState, p.op) = "ACK" /\ prepareDATA(p)
    BY <2>1, <2>2, <2>6, HandlerOfEvent, ACKTypeOK
  <2>7. CASE errorTFTP
    BY <2>1, <2>7 DEF TypeOK, errorTFTP, image, peer, flags, BootState
  <2>8. CASE errorDrop
    BY <2>1, <2>8 DEF TypeOK, errorDrop, session, image, peer, flags
  <2> QED BY <1>1, <2>3, <2>4, <2>5, <2>6, <2>7, <2>8 DEF kick_tftpd
<1>2. CASE Tick
  BY <1>2, ConstantsAssumption DEF Tick, TypeOK, session, image, peer, flags
<1>3. CASE Monitor
  BY <1>3, MonitorTypeOK
<1>4. CASE CmdEthStartup \/ PowerCycle
  <2>1. 0 \in BlockNo /\ 0 \in 0 .. MaxBlocks /\ 0 \in 0 .. PortMod - 1
        /\ 0 \in 0 .. WrqTimeout + 1
    BY ConstantsAssumption DEF BlockNo
  <2>2. address_to_store' \in [base : Address, off : 0 .. MaxBlocks]
    BY <1>4, <2>1, ConstantsAssumption DEF CmdEthStartup, PowerCycle, tftpd_entry, TypeOK
  <2>3. ram' \in [Address -> [1 .. MaxBlocks + 1 -> Chunk \cup {Junk}]]
    BY <1>4 DEF CmdEthStartup, PowerCycle, TypeOK
  <2>4. tftpd_entry
    BY <1>4 DEF CmdEthStartup, PowerCycle
  <2>5. image_address' \in Address /\ jump_to_test' \in BOOLEAN /\ autoBurn' \in BOOLEAN
        /\ silence' \in 0 .. WrqTimeout + 1 /\ control' \in Controls
    BY <1>4, <2>1, ConstantsAssumption
       DEF CmdEthStartup, PowerCycle, TypeOK, Controls, flags
  <2> QED
    BY <2>1, <2>2, <2>3, <2>4, <2>5 DEF tftpd_entry, TypeOK, BootState
<1>5. CASE UNCHANGED vars
  BY <1>5 DEF vars, TypeOK, session, image, peer, flags
<1> QED BY <1>1, <1>2, <1>3, <1>4, <1>5 DEF Next

(***************************************************************************)
(* Every variable of the server keeps its type.                            *)
(***************************************************************************)
THEOREM TypeCorrect == Spec => []TypeOK
<1>1. Init => TypeOK
  BY InitTypeOK
<1>2. TypeOK /\ [Next]_vars => TypeOK'
  BY NextTypeOK
<1> QED BY <1>1, <1>2, PTL DEF Spec

-----------------------------------------------------------------------------
(***************************************************************************)
(* The lock.  Neither half is inductive alone: a handler that keeps the    *)
(* state must find the lock held, and errorTFTP, which gives up the state  *)
(* but not the lock, must find a free lock's variables clean.              *)
(***************************************************************************)
LockInv == BusyIsLocked /\ FreeIsClean

\* Every step keeps the lock invariant.
LEMMA NextLockInv == TypeOK /\ LockInv /\ [Next]_vars => LockInv'
<1> SUFFICES ASSUME TypeOK, LockInv, [Next]_vars PROVE LockInv'
  OBVIOUS
<1> USE DEF LockInv, BusyIsLocked, FreeIsClean
<1>1. ASSUME NEW p \in Packet, kick_tftpd(p) PROVE LockInv'
  <2>1. bootState \in BootState
    BY DEF TypeOK
  <2>2. CASE BootStateEvent(bootState, p.op) = "RRQ" /\ setTFTP_RRQ(p)
    BY <2>2 DEF setTFTP_RRQ, errorDrop, TakeLock, session
  <2>3. CASE BootStateEvent(bootState, p.op) = "WRQ" /\ setTFTP_WRQ(p)
    BY <2>3 DEF setTFTP_WRQ, errorDrop, TakeLock, session
  <2>4. CASE BootStateEvent(bootState, p.op) = "DATA" /\ prepareACK(p)
    <3>1. one_tftp_lock
      BY <2>1, <2>4, HandlerOfEvent
    <3> QED
      BY <2>4, <3>1 DEF prepareACK, errorDrop, KeepReceiving, FinishUpload, session
  <2>5. CASE BootStateEvent(bootState, p.op) = "ACK" /\ prepareDATA(p)
    <3>1. one_tftp_lock
      BY <2>1, <2>5, HandlerOfEvent
    <3> QED
      BY <2>5, <3>1 DEF prepareDATA, errorDrop, FinishDownload, session
  <2>6. CASE errorTFTP
    BY <2>6 DEF errorTFTP
  <2>7. CASE errorDrop
    BY <2>7 DEF errorDrop, session
  <2> QED BY <1>1, <2>2, <2>3, <2>4, <2>5, <2>6, <2>7 DEF kick_tftpd
<1>2. CASE Tick
  BY <1>2 DEF Tick, session
<1>3. CASE Monitor
  BY <1>3 DEF Monitor, session
<1>4. CASE CmdEthStartup \/ PowerCycle
  BY <1>4 DEF CmdEthStartup, PowerCycle, tftpd_entry
<1>5. CASE UNCHANGED vars
  BY <1>5 DEF vars, session
<1> QED BY <1>1, <1>2, <1>3, <1>4, <1>5 DEF Next

\* one_tftp_lock, the block counters and bootState move together.
THEOREM LockInvariant == Spec => []LockInv
<1>1. Init => LockInv
  BY DEF Init, LockInv, BusyIsLocked, FreeIsClean
<1>2. TypeOK /\ LockInv /\ [Next]_vars => LockInv'
  BY NextLockInv
<1> QED BY <1>1, <1>2, TypeCorrect, PTL DEF Spec

(***************************************************************************)
(* A transfer in progress holds one_tftp_lock.                             *)
(***************************************************************************)
THEOREM TransfersAreLocked == Spec => []BusyIsLocked
<1>1. LockInv => BusyIsLocked
  BY DEF LockInv
<1> QED BY <1>1, LockInvariant, PTL

(***************************************************************************)
(* A server whose lock is free has nothing left over from the transfer     *)
(* before.                                                                 *)
(***************************************************************************)
THEOREM FreeServerIsClean == Spec => []FreeIsClean
<1>1. LockInv => FreeIsClean
  BY DEF LockInv
<1> QED BY <1>1, LockInvariant, PTL

(***************************************************************************)
(* Only an idle server begins a download: RRQ raises its event only when   *)
(* the lock is free, and then FreeIsClean holds.                           *)
(***************************************************************************)
THEOREM DownloadsStartClean == Spec => DownloadStartsClean
<1> DEFINE Step == bootState' = "CLIENT_RRQ" /\ bootState # "CLIENT_RRQ"
                     => ~one_tftp_lock /\ block_expected = 0 /\ ~it_is_EOF
<1>1. TypeOK /\ LockInv /\ [Next]_vars => [Step]_vars
  <2> SUFFICES ASSUME TypeOK, LockInv, Next,
                      bootState' = "CLIENT_RRQ", bootState # "CLIENT_RRQ"
               PROVE  ~one_tftp_lock /\ block_expected = 0 /\ ~it_is_EOF
    BY DEF vars, session
  <2>1. ASSUME NEW p \in Packet, kick_tftpd(p) PROVE ~one_tftp_lock
    <3>1. bootState \in BootState
      BY DEF TypeOK
    <3>2. CASE BootStateEvent(bootState, p.op) = "RRQ"
      BY <2>1, <3>1, <3>2, HandlerOfEvent DEF kick_tftpd, RaisesEvent
    <3>3. CASE BootStateEvent(bootState, p.op) = "WRQ" /\ setTFTP_WRQ(p)
      BY <3>3 DEF setTFTP_WRQ, errorDrop, session
    <3>4. CASE BootStateEvent(bootState, p.op) = "DATA" /\ prepareACK(p)
      BY <3>4 DEF prepareACK, errorDrop, KeepReceiving, FinishUpload, session
    <3>5. CASE BootStateEvent(bootState, p.op) = "ACK" /\ prepareDATA(p)
      BY <3>5 DEF prepareDATA, errorDrop, FinishDownload, session
    <3>6. CASE errorTFTP \/ errorDrop
      BY <3>6 DEF errorTFTP, errorDrop, session
    <3> QED BY <2>1, <3>2, <3>3, <3>4, <3>5, <3>6 DEF kick_tftpd
  <2>2. CASE Tick \/ Monitor \/ CmdEthStartup \/ PowerCycle
    BY <2>2 DEF Tick, Monitor, CmdEthStartup, PowerCycle, tftpd_entry, session
  <2> QED BY <2>1, <2>2 DEF Next, LockInv, FreeIsClean
<1> QED BY <1>1, TypeCorrect, LockInvariant, PTL DEF Spec, DownloadStartsClean

-----------------------------------------------------------------------------
(***************************************************************************)
(* The length of an upload is the distance its store pointer has moved.    *)
(* The upload state is entered through RewindStore only, and left alone by *)
(* everything that moves one of the two without the other.                 *)
(***************************************************************************)
LEMMA NextLengthMatches ==
    TypeOK /\ LengthMatchesAddress /\ [Next]_vars => LengthMatchesAddress'
<1> SUFFICES ASSUME TypeOK, LengthMatchesAddress, [Next]_vars
             PROVE  LengthMatchesAddress'
  OBVIOUS
<1> USE DEF LengthMatchesAddress
<1>1. ASSUME NEW p \in Packet, kick_tftpd(p) PROVE LengthMatchesAddress'
  <2>1. CASE setTFTP_RRQ(p)
    BY <2>1 DEF setTFTP_RRQ, errorDrop, session, image
  <2>2. CASE setTFTP_WRQ(p)
    BY <2>2 DEF setTFTP_WRQ, RewindStore, errorDrop, session, image
  <2>3. CASE prepareACK(p)
    <3>1. CASE p.dport # SERVER_port
      BY <2>3, <3>1 DEF prepareACK, errorDrop, session, image
    <3>2. CASE p.dport = SERVER_port /\ p.block # block_expected
      BY <2>3, <3>2 DEF prepareACK, session
    <3>3. CASE p.dport = SERVER_port /\ p.block = block_expected /\ p.full
      <4>1. KeepReceiving
        BY <2>3, <3>3 DEF prepareACK
      <4>2. address_to_store'.off = address_to_store.off + 1
        BY <4>1 DEF KeepReceiving, TypeOK
      <4> QED BY <4>1, <4>2 DEF KeepReceiving
    <3>4. CASE p.dport = SERVER_port /\ p.block = block_expected /\ ~p.full
      BY <2>3, <3>4 DEF prepareACK, FinishUpload
    <3> QED BY <3>1, <3>2, <3>3, <3>4
  <2>4. CASE prepareDATA(p)
    BY <2>4 DEF prepareDATA, FinishDownload, errorDrop, session, image
  <2>5. CASE errorTFTP \/ errorDrop
    BY <2>5 DEF errorTFTP, errorDrop, session, image
  <2> QED BY <1>1, <2>1, <2>2, <2>3, <2>4, <2>5 DEF kick_tftpd
<1>2. CASE Tick
  BY <1>2 DEF Tick, session, image
<1>3. CASE Monitor
  BY <1>3 DEF Monitor, CmdLoad, CmdAuto, CmdFlr, session, image
<1>4. CASE CmdEthStartup \/ PowerCycle
  BY <1>4 DEF CmdEthStartup, PowerCycle, tftpd_entry
<1>5. CASE UNCHANGED vars
  BY <1>5 DEF vars, session, image
<1> QED BY <1>1, <1>2, <1>3, <1>4, <1>5 DEF Next

(***************************************************************************)
(* What an upload hands to checkAutoFlashing is as long as what it stored. *)
(***************************************************************************)
THEOREM LengthIsDistance == Spec => []LengthMatchesAddress
<1>1. Init => LengthMatchesAddress
  BY DEF Init, LengthMatchesAddress
<1>2. TypeOK /\ LengthMatchesAddress /\ [Next]_vars => LengthMatchesAddress'
  BY NextLengthMatches
<1> QED BY <1>1, <1>2, TypeCorrect, PTL DEF Spec

=============================================================================
