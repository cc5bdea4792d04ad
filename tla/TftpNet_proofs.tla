--------------------------- MODULE TftpNet_proofs ---------------------------
(***************************************************************************)
(* Proofs about TftpNet, for every list of jobs, every number of attempts  *)
(* and every size of file: whatever the network loses, repeats or delays,  *)
(* uploads and downloads keep their contents and a stored block stays      *)
(* acknowledged.                                                           *)
(*                                                                         *)
(* Why it holds.  SERVER_port moves on with every completed upload, so a   *)
(* DATA packet that carries the current port was sent by the put under way *)
(* and to the upload that is being received; every other one is behind.  A *)
(* stale WRQ can begin an upload nobody feeds, but nothing is stored by it *)
(* and what was published stays where downloads read it.                   *)
(***************************************************************************)
EXTENDS TftpNet, TftpServer_proofs

-----------------------------------------------------------------------------
(***************************************************************************)
(* The invariant.  First the types of what travels and of the client.      *)
(***************************************************************************)
Answer ==
    [op : {"ACK"}, host : Host \cup {NoHost}, port : Port, sport : 0 .. PortMod - 1,
     block : BlockNo]
    \cup [op : {"DATA"}, host : Host \cup {NoHost}, port : Port, sport : 0 .. PortMod - 1,
          block : BlockNo, chunk : Chunk \cup {Junk}, full : BOOLEAN]

ClientTypeOK ==
    /\ net \subseteq Packet /\ back \subseteq Answer
    /\ job \in 1 .. Len(Jobs) + 1
    /\ attempt \in 1 .. MaxAttempts
    /\ phase \in {"request", "transfer", "dally"}
    /\ phase # "request" => job \in JobNo
    /\ tid \in 0 .. PortMod - 1
    /\ blk \in BlockNo
    /\ phase = "request" => blk = 0 /\ got = <<>>
    /\ IsPut(job) => phase # "dally"
    /\ IsPut(job) /\ phase = "transfer" => blk \in 1 .. BlocksOf(job) + 1
    /\ got \in Seq(Chunk \cup {Junk})
    /\ published # 0 => IsPut(published)
    /\ stored \subseteq JobNo

DonePuts == \A j \in 1 .. job - 1 : IsPut(j) => j \in stored

(***************************************************************************)
(* The client is putting, or asks to; Tries counts its attempts so far, an *)
(* upper bound of the uploads the server has completed.                    *)
(***************************************************************************)
Putting == IsPut(job) /\ phase = "transfer"
Asking  == IsPut(job) /\ phase = "request"
Tries   == (job - 1) * MaxAttempts + attempt

(***************************************************************************)
(* Intact: downloads read the published image.  Rest: and no upload has    *)
(* stored anything.  Serving: the upload is in step with the store pointer.*)
(* Placed(j): if job j is the boot image it goes to BOOTSTART.             *)
(***************************************************************************)
Intact ==
    published # 0 =>
        /\ file_length_to_client = BlocksOf(published)
        /\ \A i \in 1 .. file_length_to_client + 1 : ram[image_address][i] = <<published, i>>

Rest      == Intact /\ (bootState = "CLIENT_WRQ" => address_to_store.off = 0)
Serving   == bootState = "CLIENT_WRQ" /\ block_expected = address_to_store.off + 1
Placed(j) == Jobs[j].name = "boot.img" => image_address = BootStart

(***************************************************************************)
(* After a restart of the board, until the client starts again: nothing    *)
(* the server would act upon is in flight.                                 *)
(***************************************************************************)
Orphan ==
    /\ phase # "request" /\ back = {}
    /\ \A p \in net : p.op \in {"DATA", "ACK"}
    /\ bootState = "INIT_ARP" /\ ~one_tftp_lock /\ SERVER_port = 0
    /\ published = 0 /\ restarted

(***************************************************************************)
(* Otherwise, of every packet in flight to the server: what it says is     *)
(* what its attempt had to say, and DATA for the current port belongs to   *)
(* the upload being received.                                              *)
(***************************************************************************)
Sent(port) == port[1] \in 1 .. job /\ (port[1] = job => port[2] \in 1 .. attempt)

PacketShape(p) ==
    /\ Sent(p.port)
    /\ p.op \in {"WRQ", "RRQ", "DATA", "ACK"}
    /\ p.op \in {"RRQ", "ACK"} => p.port[1] = job /\ IsGet(job)
    /\ p.op \in {"WRQ", "DATA"} => IsPut(p.port[1])
    /\ p.op = "WRQ" => /\ p.name = Jobs[p.port[1]].name
                       /\ p.port[1] # job => Placed(p.port[1])
    /\ p.op = "DATA" => /\ p.block \in 1 .. BlocksOf(p.port[1]) + 1
                        /\ p.chunk = <<p.port[1], p.block>>
                        /\ p.full <=> p.block <= BlocksOf(p.port[1])

DataPort(p) ==
    /\ p.dport <= SERVER_port
    /\ p.port[1] # job => p.dport < SERVER_port
    /\ Putting => p.dport <= tid
    /\ p.port = MyPort => phase # "request" /\ p.dport = tid
    /\ p.port # MyPort => p.dport < Tries - 1

DataServed(p) == IsPut(job) /\ p.dport = SERVER_port => Serving /\ Placed(job)

PacketOK(p) ==
    /\ PacketShape(p)
    /\ p.op = "DATA" => DataPort(p) /\ DataServed(p)

(***************************************************************************)
(* Of every answer in flight: it comes from a port the server has had and  *)
(* the DATA sent before it went to no later one; an ACK of the current     *)
(* port acknowledges what is stored; DATA is of the published image.       *)
(***************************************************************************)
AnswerAhead(r) ==
    Asking /\ r.port = MyPort => \A p \in net : p.op = "DATA" => p.dport <= r.sport

AckTrue(r) ==
    IsPut(job) /\ r.port[1] = job =>
        /\ Placed(job)
        /\ r.sport = SERVER_port => Serving /\ r.block <= address_to_store.off
        /\ r.sport < SERVER_port => job \in stored
        /\ Asking /\ r.port = MyPort /\ r.sport < SERVER_port => Rest

DataTrue(r) ==
    IsGet(job) /\ published # 0 /\ r.port[1] = job /\ r.block >= 1 =>
        /\ r.block <= BlocksOf(published) + 1
        /\ r.chunk = <<published, r.block>>
        /\ r.full <=> r.block <= BlocksOf(published)

AnswerOK(r) ==
    /\ Sent(r.port)
    /\ r.sport <= SERVER_port
    /\ AnswerAhead(r)
    /\ r.op = "ACK" => AckTrue(r)
    /\ r.op = "DATA" => DataTrue(r)

(***************************************************************************)
(* Of the client and the server.                                           *)
(***************************************************************************)
PortsOK ==
    /\ SERVER_port <= Tries
    /\ phase = "request" => SERVER_port <= Tries - 1
    /\ Putting => tid <= Tries - 1 /\ tid <= SERVER_port

PuttingOK ==
    Putting =>
        /\ Placed(job)
        /\ tid = SERVER_port => Serving /\ blk <= address_to_store.off + 1
        /\ tid < SERVER_port => job \in stored /\ Rest

StoringOK ==
    /\ bootState = "CLIENT_WRQ" => address_to_store.base = image_address
    /\ bootState = "CLIENT_WRQ" /\ address_to_store.off > 0 =>
         /\ IsPut(job) /\ Serving
         /\ address_to_store.off <= BlocksOf(job)
         /\ \A i \in 1 .. address_to_store.off : ram[address_to_store.base][i] = <<job, i>>

ImageOK ==
    /\ ~one_tftp_lock => Intact
    /\ ~IsPut(job) => Rest

(***************************************************************************)
(* Silence is counted from the last WRQ or DATA; a tick empties the        *)
(* network, so what is in flight then was sent later.                      *)
(***************************************************************************)
SilenceOK ==
    silence > 0 =>
        /\ \A r \in back : r.op # "ACK"
        /\ ~Asking => \A p \in net : p.op # "WRQ"

GettingOK ==
    IsGet(job) /\ published # 0 =>
        /\ Len(got) = blk
        /\ blk <= BlocksOf(published) + 1
        /\ \A i \in 1 .. Len(got) : got[i] = <<published, i>>
        /\ phase = "dally" => blk = BlocksOf(published) + 1

Live ==
    /\ \A p \in net : PacketOK(p)
    /\ \A r \in back : AnswerOK(r)
    /\ PortsOK /\ PuttingOK /\ StoringOK /\ ImageOK /\ SilenceOK /\ GettingOK

NetInv == ClientTypeOK /\ DonePuts /\ (Orphan \/ Live)

ServerInv == TypeOK /\ LockInv /\ LengthMatchesAddress
-----------------------------------------------------------------------------
(***************************************************************************)
(* Jobs, ports and attempts.                                               *)
(***************************************************************************)
LEMMA JobType ==
    ASSUME NEW j \in JobNo
    PROVE  /\ Jobs[j].kind \in {"put", "get"}
           /\ Jobs[j].name \in FileName
           /\ Jobs[j].blocks \in 0 .. MaxBlocks
<1> DEFINE R == [kind : {"put", "get"}, name : FileName, blocks : 0 .. MaxBlocks]
<1>1. Jobs \in Seq(R) /\ j \in 1 .. Len(Jobs)
  BY NetAssumption DEF JobNo
<1> HIDE DEF R
<1>2. Jobs[j] \in R
  BY <1>1
<1> QED BY <1>2 DEF R

\* A file has no more blocks than RAM holds, so its block numbers are types.
LEMMA BlocksType ==
    ASSUME NEW j
    PROVE  /\ BlocksOf(j) \in 0 .. MaxBlocks
           /\ BlocksOf(j) \in Nat
           /\ BlocksOf(j) + 2 < BlockMod
<1>1. BlocksOf(j) \in 0 .. MaxBlocks
  BY JobType, ConstantsAssumption DEF BlocksOf, IsPut
<1> QED BY <1>1, ConstantsAssumption, NetAssumption

\* A job is at most one of a put and a get.
LEMMA PutOrGet ==
    ASSUME NEW j
    PROVE  /\ ~(IsPut(j) /\ IsGet(j))
           /\ IsPut(j) => j \in JobNo
           /\ j \in JobNo => IsPut(j) \/ IsGet(j)
BY JobType DEF IsPut, IsGet

\* There are fewer attempts than ports.
LEMMA TriesBound ==
    ASSUME ClientTypeOK
    PROVE  /\ Tries \in Nat /\ Tries >= 1
           /\ job \in JobNo => Tries < PortMod
           /\ ((job + 1) - 1) * MaxAttempts + 1 >= Tries + 1
<1> DEFINE N == Len(Jobs)
<1>1. /\ job \in 1 .. N + 1 /\ attempt \in 1 .. MaxAttempts
      /\ MaxAttempts \in Nat \ {0} /\ N \in Nat
      /\ N * MaxAttempts < PortMod
  BY NetAssumption DEF ClientTypeOK
<1> HIDE DEF N
<1>2. (job - 1) * MaxAttempts \in Nat
  BY <1>1
<1>3. job * MaxAttempts = (job - 1) * MaxAttempts + MaxAttempts
  BY <1>1
<1>4. job \in JobNo => job * MaxAttempts <= N * MaxAttempts
  BY <1>1 DEF JobNo, N
<1>5. job * MaxAttempts \in Nat /\ N * MaxAttempts \in Nat
  BY <1>1
<1>6. PortMod \in Nat /\ (job + 1) - 1 = job
  BY <1>1, ConstantsAssumption
<1> QED BY <1>1, <1>2, <1>3, <1>4, <1>5, <1>6 DEF Tries

(***************************************************************************)
(* What the client has to say in each phase.                               *)
(***************************************************************************)
LEMMA OutgoingFacts ==
    ASSUME ClientTypeOK, NEW p \in Outgoing
    PROVE  /\ p.port = MyPort
           /\ p.op \in {"WRQ", "RRQ", "DATA", "ACK"}
           /\ p.op = "WRQ" => Asking /\ p.name = Jobs[job].name
           /\ p.op \in {"RRQ", "ACK"} => IsGet(job)
           /\ p.op = "RRQ" => phase = "request"
           /\ p.op = "ACK" => phase # "request"
           /\ p.op = "DATA" => /\ Putting
                               /\ p.dport = tid /\ p.block = blk
                               /\ p.chunk = <<job, blk>>
                               /\ p.full = (blk <= BlocksOf(job))
BY PutOrGet DEF Outgoing, Request, Asking, Putting, ClientTypeOK

\* Everything the client sends is a packet of the server's interface.
LEMMA OutgoingType == ASSUME ClientTypeOK PROVE Outgoing \subseteq Packet
<1> SUFFICES ASSUME NEW p \in Outgoing PROVE p \in Packet
  OBVIOUS
<1>1. CASE Outgoing = {}
  BY <1>1
<1>2. MyPort \in Port \/ Outgoing = {}
  <2>1. job \in JobNo \/ Outgoing = {}
    BY DEF Outgoing, IsPut, IsGet
  <2> QED BY <2>1, NetAssumption DEF ClientTypeOK, MyPort
<1>3. Pc \in Host /\ TFTP_PORT \in DestPort /\ tid \in DestPort /\ blk \in BlockNo
  BY NetAssumption, ConstantsAssumption DEF TFTP_PORT, DestPort, ClientTypeOK
<1>4. CASE MyPort \in Port /\ IsPut(job) /\ phase = "request"
  BY <1>3, <1>4, JobType, PutOrGet DEF Outgoing, Packet
<1>5. CASE MyPort \in Port /\ IsPut(job) /\ phase = "transfer"
  <2>1. <<job, blk>> \in Chunk
    <3>1. job \in JobNo /\ blk \in 1 .. MaxBlocks + 1
      BY <1>5, BlocksType, PutOrGet, ConstantsAssumption DEF ClientTypeOK
    <3> QED BY <3>1, NetAssumption DEF Payload
  <2>2. PICK f \in BOOLEAN : f <=> blk <= BlocksOf(job)
    <3>1. CASE blk <= BlocksOf(job)
      BY <3>1
    <3>2. CASE ~(blk <= BlocksOf(job))
      BY <3>2
    <3> QED BY <3>1, <3>2
  <2>3. p = [op |-> "DATA", host |-> Pc, port |-> MyPort, dport |-> tid,
             block |-> blk, chunk |-> <<job, blk>>, full |-> f]
    BY <1>5, <2>2, PutOrGet DEF Outgoing
  <2> QED BY <1>3, <1>5, <2>1, <2>3 DEF Packet
<1>6. CASE MyPort \in Port /\ IsGet(job)
  BY <1>3, <1>6, PutOrGet DEF Outgoing, Packet, Request
<1> QED BY <1>1, <1>2, <1>4, <1>5, <1>6 DEF Outgoing

(***************************************************************************)
(* Every answer of the server has its type.                                *)
(***************************************************************************)
LEMMA SentDataType ==
    ASSUME TypeOK, NEW h \in Host \cup {NoHost}, NEW q \in Port, NEW n \in BlockNo,
           tftpd_send_data(h, q, n)
    PROVE  tx' \subseteq Answer
<1>1. BlockAt(n) \in Chunk \cup {Junk}
  BY DEF BlockAt, TypeOK
<1>2. PICK f \in BOOLEAN : f <=> n < LastBlock
  <2>1. CASE n < LastBlock
    BY <2>1
  <2>2. CASE ~(n < LastBlock)
    BY <2>2
  <2> QED BY <2>1, <2>2
<1>3. tx' \subseteq {[op |-> "DATA", host |-> h, port |-> q, sport |-> SERVER_port,
                      block |-> n, chunk |-> BlockAt(n), full |-> f]}
  BY <1>2 DEF tftpd_send_data
<1> QED BY <1>1, <1>3 DEF Answer, TypeOK

\* The same for ACKs.
LEMMA SentAckType ==
    ASSUME TypeOK, NEW h \in Host \cup {NoHost}, NEW q \in Port, NEW n \in BlockNo,
           tftpd_send_ack(h, q, n)
    PROVE  tx' \subseteq Answer
BY DEF tftpd_send_ack, Reply, Answer, TypeOK

\* Whatever packet is delivered.
LEMMA KickAnswers ==
    ASSUME TypeOK, NEW p \in Packet, kick_tftpd(p)
    PROVE  tx' \subseteq Answer
<1>1. p.op \in {"RRQ", "WRQ", "DATA", "ACK"} => p.host \in Host /\ p.port \in Port
  BY DEF Packet
<1>2. /\ 0 \in BlockNo /\ 1 \in BlockNo /\ block_expected \in BlockNo
      /\ NextBlock(block_expected) \in BlockNo
      /\ PrevBlock(block_expected) \in BlockNo
      /\ client \in Host \cup {NoHost} /\ bootState \in BootState
  BY NextBlockType, ConstantsAssumption DEF BlockNo, TypeOK, PrevBlock
<1>3. CASE BootStateEvent(bootState, p.op) = "RRQ" /\ setTFTP_RRQ(p)
  BY <1>1, <1>2, <1>3, HandlerOfEvent, SentDataType DEF setTFTP_RRQ, errorDrop
<1>4. CASE BootStateEvent(bootState, p.op) = "WRQ" /\ setTFTP_WRQ(p)
  BY <1>1, <1>2, <1>4, HandlerOfEvent, SentAckType DEF setTFTP_WRQ, errorDrop
<1>5. CASE BootStateEvent(bootState, p.op) = "DATA" /\ prepareACK(p)
  BY <1>1, <1>2, <1>5, HandlerOfEvent, SentAckType DEF prepareACK, errorDrop, StoreBlock
<1>6. CASE BootStateEvent(bootState, p.op) = "ACK" /\ prepareDATA(p)
  BY <1>1, <1>2, <1>6, HandlerOfEvent, SentDataType DEF prepareDATA, errorDrop, FinishDownload
<1>7. CASE errorTFTP \/ errorDrop
  BY <1>7 DEF errorTFTP, errorDrop
<1> QED BY <1>3, <1>4, <1>5, <1>6, <1>7 DEF kick_tftpd
-----------------------------------------------------------------------------
(***************************************************************************)
(* A step of TftpNet is a step of the server or leaves it alone, so what   *)
(* is proved of TftpServer holds here.                                     *)
(***************************************************************************)
LEMMA NetStep == ClientTypeOK /\ [NetNext]_netVars => [Next]_vars
<1> SUFFICES ASSUME ClientTypeOK, [NetNext]_netVars PROVE [Next]_vars
  OBVIOUS
<1>1. CASE Send \/ Receive \/ GiveUp \/ LeaveGet
  BY <1>1 DEF Send, Receive, GiveUp, LeaveGet
<1>2. ASSUME NEW p \in net, Deliver(p) PROVE Next
  <2>1. p \in Packet /\ kick_tftpd(p)
    BY <1>2 DEF Deliver, ClientTypeOK
  <2> QED BY <2>1 DEF Next
<1>3. CASE TimePasses
  BY <1>3 DEF TimePasses, Next
<1>4. CASE Reset \/ Crash
  BY <1>4 DEF Reset, Crash, Restart, Next
<1>5. CASE UNCHANGED netVars
  BY <1>5 DEF netVars
<1> QED BY <1>1, <1>2, <1>3, <1>4, <1>5 DEF NetNext

\* What TftpServer_proofs shows of the server alone.
LEMMA NextServerInv == ClientTypeOK /\ ServerInv /\ [NetNext]_netVars => ServerInv'
BY NetStep, NextTypeOK, NextLockInv, NextLengthMatches DEF ServerInv

-----------------------------------------------------------------------------
(***************************************************************************)
(* What the delivery of a packet does to a server in Live.  It is ignored  *)
(* (perhaps the state of a download is forgotten); a WRQ opens an upload;  *)
(* a get's packet moves the download; DATA is acknowledged once more, or   *)
(* stored, or completes the upload.                                        *)
(***************************************************************************)
WithinFile ==
    /\ block_expected \in 1 .. LastBlock
    /\ it_is_EOF \/ block_expected < LastBlock

Ignored ==
    /\ bootState' = bootState \/ (bootState = "CLIENT_RRQ" /\ bootState' = "INIT_ARP")
    /\ UNCHANGED <<one_tftp_lock, block_expected, it_is_EOF, image, file_length_to_client,
                   SERVER_port, control>>
    /\ tx' = {}

Opened(p) ==
    /\ p.op = "WRQ" /\ bootState # "CLIENT_RRQ"
    /\ ~one_tftp_lock \/ block_expected = 1 \/ silence > WrqTimeout
    /\ bootState' = "CLIENT_WRQ" /\ one_tftp_lock' = TRUE /\ block_expected' = 1
    /\ image_address' = IF p.name = "boot.img" THEN BootStart ELSE image_address
    /\ address_to_store' = [base |-> image_address', off |-> 0]
    /\ UNCHANGED <<ram, file_length_to_client, SERVER_port, control>>
    /\ tx' = {[op |-> "ACK", host |-> p.host, port |-> p.port, sport |-> SERVER_port,
               block |-> 0]}

Downloads(p) ==
    /\ p.op \in {"RRQ", "ACK"} /\ (p.op = "ACK" => bootState # "INIT_ARP")
    /\ p.op = "RRQ" \/ WithinFile =>
         control' = control /\ (bootState' = "INIT_ARP" \/ WithinFile')
    /\ \/ bootState' = "CLIENT_RRQ" /\ one_tftp_lock'
       \/ bootState' = bootState /\ one_tftp_lock' = one_tftp_lock
       \/ bootState' = "INIT_ARP"
    /\ UNCHANGED <<image, file_length_to_client, SERVER_port>>
    /\ \/ tx' = {}
       \/ \E h \in Host \cup {NoHost}, n \in BlockNo :
             /\ n <= LastBlock
             /\ tx' = {[op |-> "DATA", host |-> h, port |-> p.port, sport |-> SERVER_port,
                        block |-> n, chunk |-> BlockAt(n), full |-> n < LastBlock]}

Current(p) ==
    /\ p.op = "DATA" /\ p.dport = SERVER_port /\ p.port[1] = job
    /\ IsPut(job) /\ Serving /\ Placed(job)

Acked(p, n) ==
    tx' = {[op |-> "ACK", host |-> client, port |-> p.port, sport |-> SERVER_port, block |-> n]}

Repeated(p) ==
    /\ Current(p) /\ Acked(p, address_to_store.off)
    /\ UNCHANGED <<session, image, file_length_to_client, SERVER_port, control>>

StoreHere(p) ==
    /\ Current(p) /\ p.block = address_to_store.off + 1
    /\ Acked(p, address_to_store.off + 1)
    /\ ram' = [ram EXCEPT ![address_to_store.base][address_to_store.off + 1] = p.chunk]
    /\ UNCHANGED image_address

Continued(p) ==
    /\ StoreHere(p) /\ p.full
    /\ address_to_store' = [address_to_store EXCEPT !.off = @ + 1]
    /\ block_expected' = block_expected + 1
    /\ UNCHANGED <<bootState, one_tftp_lock, file_length_to_client, SERVER_port, control>>

Completed(p) ==
    /\ StoreHere(p) /\ ~p.full
    /\ bootState' = "INIT_ARP" /\ ~one_tftp_lock' /\ control' # "wild"
    /\ file_length_to_client' = address_to_store.off
    /\ SERVER_port' = SERVER_port + 1

\* DATA that reaches prepareACK for the current port is the current put's.
LEMMA DataIsCurrent ==
    ASSUME ServerInv, ClientTypeOK, Live, NEW p \in net, p.op = "DATA",
           p.dport = SERVER_port
    PROVE  Current(p)
<1>1. PacketShape(p) /\ DataPort(p) /\ DataServed(p)
  BY DEF Live, PacketOK
<1>2. p.port[1] = job
  BY <1>1, ConstantsAssumption DEF DataPort, ServerInv, TypeOK
<1> QED BY <1>1, <1>2 DEF Current, PacketShape, DataServed

\* In an upload under way the counters are small and do not wrap.
LEMMA ServingNumbers ==
    ASSUME ServerInv, Serving
    PROVE  /\ address_to_store.off \in 0 .. MaxBlocks
           /\ file_length_to_server = address_to_store.off
           /\ PrevBlock(block_expected) = address_to_store.off
           /\ NextBlock(block_expected) = block_expected + 1
<1>1. /\ address_to_store.off \in 0 .. MaxBlocks
      /\ file_length_to_server = address_to_store.off
      /\ block_expected = address_to_store.off + 1
  BY DEF ServerInv, TypeOK, LengthMatchesAddress, Serving
<1>2. MaxBlocks \in Nat /\ BlockMod \in Nat /\ MaxBlocks + 2 < BlockMod
  BY ConstantsAssumption, NetAssumption
<1> DEFINE o == address_to_store.off
<1>3. o \in Nat /\ o + 2 < BlockMod
  BY <1>1, <1>2
<1> HIDE DEF o
<1>4. (o + 1 + BlockMod - 1) % BlockMod = o
  BY <1>2, <1>3
<1>5. (o + 1 + 1) % BlockMod = o + 1 + 1
  BY <1>2, <1>3
<1>6. block_expected = o + 1
  BY <1>1 DEF o
<1> QED BY <1>1, <1>4, <1>5, <1>6 DEF PrevBlock, NextBlock, o

\* While the client puts there are fewer completed uploads than ports.
LEMMA PortsRemain ==
    ASSUME ServerInv, ClientTypeOK, Live, IsPut(job)
    PROVE  SERVER_port + 1 < PortMod \/ ~\E p \in net : Current(p)
<1> SUFFICES ASSUME NEW p \in net, Current(p) PROVE SERVER_port + 1 < PortMod
  OBVIOUS
<1>1. DataPort(p)
  BY DEF Live, PacketOK, Current
<1>2. Tries \in Nat /\ Tries < PortMod
  BY TriesBound, PutOrGet
<1>3. SERVER_port < Tries
  <2>1. CASE p.port = MyPort
    BY <1>1, <2>1, <1>2 DEF DataPort, Live, PortsOK, Putting, Current, ServerInv, TypeOK, ClientTypeOK
  <2>2. CASE p.port # MyPort
    BY <1>1, <2>2, <1>2 DEF DataPort, Current, ServerInv, TypeOK
  <2> QED BY <2>1, <2>2
<1> QED BY <1>2, <1>3, ConstantsAssumption DEF ServerInv, TypeOK
-----------------------------------------------------------------------------
(***************************************************************************)
(* tftpd_send_data of a block of the file, when that block is the one      *)
(* expected next, reads inside the file and notices its last block.        *)
(***************************************************************************)
LEMMA SentInside ==
    ASSUME ServerInv, NEW h, NEW q, NEW n \in 1 .. LastBlock,
           tftpd_send_data(h, q, n), block_expected' = n, UNCHANGED file_length_to_client
    PROVE  control' = control /\ WithinFile'
<1>1. LastBlock \in Nat /\ LastBlock' = LastBlock /\ n \in Nat /\ ~(n > LastBlock)
  BY ConstantsAssumption DEF LastBlock, ServerInv, TypeOK
<1>2. control' = control
  BY <1>1 DEF tftpd_send_data
<1>3. block_expected' \in 1 .. LastBlock'
  BY <1>1
<1>4. CASE AtEnd(n)
  <2>1. it_is_EOF'
    BY <1>4 DEF tftpd_send_data
  <2> QED BY <1>2, <1>3, <2>1 DEF WithinFile
<1>5. CASE ~AtEnd(n)
  <2>1. block_expected' < LastBlock'
    BY <1>1, <1>5 DEF AtEnd
  <2> QED BY <1>2, <1>3, <2>1 DEF WithinFile
<1> QED BY <1>4, <1>5

\* The cases of Live, of setTFTP_RRQ.
LEMMA RRQCases ==
    ASSUME ServerInv, NEW p \in Packet, p.op = "RRQ", setTFTP_RRQ(p)
    PROVE  Ignored \/ Downloads(p)
<1>1. CASE p.dport # TFTP_PORT
  BY <1>1 DEF setTFTP_RRQ, errorDrop, Ignored, session
<1>2. CASE p.dport = TFTP_PORT
  <2>1. p.host \in Host /\ 1 \in BlockNo
    BY ConstantsAssumption DEF Packet, BlockNo
  <2>2. LastBlock \in Nat
    BY ConstantsAssumption DEF LastBlock, ServerInv, TypeOK
  <2>3. LastBlock \in Nat /\ LastBlock >= 1 /\ LastBlock' = LastBlock
    BY <1>2, ConstantsAssumption DEF LastBlock, ServerInv, TypeOK, setTFTP_RRQ
  <2>4. control' = control /\ WithinFile'
    <3>1. 1 \in 1 .. LastBlock
      BY <2>3
    <3> QED BY <1>2, <3>1, SentInside DEF setTFTP_RRQ
  <2> QED BY <1>2, <2>1, <2>2, <2>3, <2>4
          DEF setTFTP_RRQ, tftpd_send_data, TakeLock, Downloads
<1> QED BY <1>1, <1>2

\* Of prepareDATA.
LEMMA ACKCases ==
    ASSUME ServerInv, NEW p \in Packet, p.op = "ACK", bootState # "INIT_ARP",
           prepareDATA(p)
    PROVE  Ignored \/ Downloads(p)
<1>1. CASE p.dport # SERVER_port
  BY <1>1 DEF prepareDATA, errorDrop, Ignored, session
<1>2. CASE p.dport = SERVER_port
  <2>1. /\ client \in Host \cup {NoHost}
        /\ block_expected \in BlockNo /\ NextBlock(block_expected) \in BlockNo
    BY NextBlockType DEF ServerInv, TypeOK
  <2>2. LastBlock \in Nat /\ BlockNo \subseteq Nat
    BY ConstantsAssumption DEF LastBlock, ServerInv, TypeOK, BlockNo
  <2>3. ASSUME NEW n \in BlockNo, tftpd_send_data(client, p.port, n)
        PROVE  \/ tx' = {}
               \/ \E h \in Host \cup {NoHost}, m \in BlockNo :
                    /\ m <= LastBlock
                    /\ tx' = {[op |-> "DATA", host |-> h, port |-> p.port,
                               sport |-> SERVER_port, block |-> m, chunk |-> BlockAt(m),
                               full |-> m < LastBlock]}
    <3>1. CASE n > LastBlock
      BY <2>3, <3>1 DEF tftpd_send_data
    <3>2. CASE n <= LastBlock
      BY <2>1, <2>2, <2>3, <3>2 DEF tftpd_send_data
    <3> QED BY <2>2, <3>1, <3>2
  <2>4. CASE p.block # block_expected
    <3>1. /\ tftpd_send_data(client, p.port, block_expected)
          /\ UNCHANGED <<block_expected, file_length_to_client>>
      BY <1>2, <2>4 DEF prepareDATA
    <3>2. ASSUME WithinFile PROVE control' = control /\ WithinFile'
      <4>1. block_expected \in 1 .. LastBlock /\ block_expected' = block_expected
        BY <3>1, <3>2 DEF WithinFile
      <4> QED BY <3>1, <4>1, SentInside
    <3> QED BY <1>2, <2>1, <2>3, <2>4, <3>2 DEF prepareDATA, Downloads
  <2>5. CASE p.block = block_expected /\ it_is_EOF
    BY <1>2, <2>5 DEF prepareDATA, FinishDownload, Downloads
  <2>6. CASE p.block = block_expected /\ ~it_is_EOF
    <3>1. /\ tftpd_send_data(client, p.port, NextBlock(block_expected))
          /\ block_expected' = NextBlock(block_expected)
          /\ UNCHANGED file_length_to_client
      BY <1>2, <2>6 DEF prepareDATA
    <3>2. ASSUME WithinFile PROVE control' = control /\ WithinFile'
      <4>1. block_expected + 1 \in 1 .. LastBlock /\ LastBlock \in Nat /\ LastBlock' = LastBlock
        <5>1. LastBlock \in Nat /\ LastBlock' = LastBlock
          BY <2>2, <3>1 DEF LastBlock
        <5>2. block_expected \in 1 .. LastBlock /\ block_expected < LastBlock
          BY <2>6, <3>2 DEF WithinFile
        <5> QED BY <5>1, <5>2
      <4>2. NextBlock(block_expected) = block_expected + 1
        <5>1. file_length_to_client \in 0 .. MaxBlocks /\ block_expected \in Nat
          BY <2>1, <2>2 DEF ServerInv, TypeOK
        <5>2. block_expected + 1 < BlockMod /\ BlockMod \in Nat /\ BlockMod > 0
          BY <4>1, <5>1, ConstantsAssumption, NetAssumption DEF LastBlock
        <5> QED BY <5>1, <5>2 DEF NextBlock
      <4> QED BY <3>1, <4>1, <4>2, SentInside
    <3> QED BY <1>2, <2>1, <2>3, <2>6, <3>2 DEF prepareDATA, Downloads
  <2> QED BY <2>4, <2>5, <2>6
<1> QED BY <1>1, <1>2

\* Of prepareACK.
LEMMA DATACases ==
    ASSUME ServerInv, ClientTypeOK, Live, NEW p \in net, p.op = "DATA", prepareACK(p)
    PROVE  Ignored \/ Repeated(p) \/ Continued(p) \/ Completed(p)
<1>1. CASE p.dport # SERVER_port
  BY <1>1 DEF prepareACK, errorDrop, Ignored, session
<1>2. CASE p.dport = SERVER_port
  <2>1. Current(p)
    BY <1>2, DataIsCurrent
  <2>2. Serving
    BY <2>1 DEF Current
  <2>3. CASE p.block # block_expected
    <3>1. /\ tftpd_send_ack(client, p.port, PrevBlock(block_expected))
          /\ UNCHANGED <<session, image_address, address_to_store, file_length_to_server,
                         ram, file_length_to_client, SERVER_port, control>>
      BY <1>2, <2>3 DEF prepareACK
    <3>2. Acked(p, address_to_store.off)
      BY <2>2, <3>1, ServingNumbers DEF tftpd_send_ack, Reply, Acked
    <3> QED BY <2>1, <3>1, <3>2 DEF Repeated, image
  <2>4. CASE p.block = block_expected
    <3>1. StoreBlock(p) /\ UNCHANGED image_address
      BY <1>2, <2>4 DEF prepareACK
    <3>2. StoreHere(p)
      BY <2>1, <2>2, <2>4, <3>1 DEF StoreHere, StoreBlock, tftpd_send_ack, Reply, Acked, Serving
    <3>3. CASE p.full
      <4>1. KeepReceiving
        BY <1>2, <2>4, <3>3 DEF prepareACK
      <4> QED BY <2>2, <3>2, <3>3, <4>1, ServingNumbers DEF KeepReceiving, Continued
    <3>4. CASE ~p.full
      <4>1. FinishUpload
        BY <1>2, <2>4, <3>4 DEF prepareACK
      <4>2. SERVER_port + 1 < PortMod /\ SERVER_port \in Nat /\ PortMod \in Nat
        BY <2>1, PortsRemain, ConstantsAssumption DEF Current, ServerInv, TypeOK
      <4>3. (SERVER_port + 1) % PortMod = SERVER_port + 1
        BY <4>2
      <4> QED BY <2>2, <3>2, <3>4, <4>1, <4>3, ServingNumbers DEF FinishUpload, Completed
    <3> QED BY <3>3, <3>4
  <2> QED BY <2>3, <2>4
<1> QED BY <1>1, <1>2

\* Of setTFTP_WRQ.
LEMMA WRQCases ==
    ASSUME ServerInv, NEW p \in Packet, p.op = "WRQ", RaisesEvent(p),
           bootState # "CLIENT_RRQ", setTFTP_WRQ(p)
    PROVE  Ignored \/ Opened(p)
<1>1. CASE p.dport # TFTP_PORT
  BY <1>1 DEF setTFTP_WRQ, errorDrop, Ignored, session
<1>2. CASE p.dport = TFTP_PORT
  <2>1. ~one_tftp_lock \/ block_expected = 1 \/ silence > WrqTimeout
    BY DEF RaisesEvent, WrqAccepted
  <2> QED BY <1>2, <2>1 DEF setTFTP_WRQ, RewindStore, tftpd_send_ack, Reply, TakeLock, Opened
<1> QED BY <1>1, <1>2

\* And of kick_tftpd.
LEMMA KickCases ==
    ASSUME ServerInv, ClientTypeOK, Live, NEW p \in net, kick_tftpd(p)
    PROVE  \/ Ignored \/ Opened(p) \/ Downloads(p)
           \/ Repeated(p) \/ Continued(p) \/ Completed(p)
<1>1. p \in Packet /\ bootState \in BootState
  BY DEF ClientTypeOK, ServerInv, TypeOK
<1>2. p.op \in {"WRQ", "RRQ", "DATA", "ACK"}
  BY DEF Live, PacketOK, PacketShape
<1>3. CASE BootStateEvent(bootState, p.op) = "RRQ" /\ setTFTP_RRQ(p)
  BY <1>1, <1>3, HandlerOfEvent, RRQCases
<1>4. CASE BootStateEvent(bootState, p.op) = "WRQ" /\ setTFTP_WRQ(p)
  BY <1>1, <1>4, HandlerOfEvent, WRQCases DEF kick_tftpd
<1>5. CASE BootStateEvent(bootState, p.op) = "DATA" /\ prepareACK(p)
  BY <1>1, <1>5, HandlerOfEvent, DATACases
<1>6. CASE BootStateEvent(bootState, p.op) = "ACK" /\ prepareDATA(p)
  BY <1>1, <1>6, HandlerOfEvent, ACKCases
<1>7. CASE errorDrop
  BY <1>7 DEF errorDrop, Ignored, session
<1>8. CASE BootStateEvent(bootState, p.op) = "error" /\ errorTFTP
  <2>1. bootState # "CLIENT_WRQ"
    <3>1. SUFFICES ASSUME bootState = "CLIENT_WRQ" PROVE FALSE
      OBVIOUS
    <3>2. p.op = "RRQ"
      BY <1>2, <1>8, <3>1 DEF BootStateEvent
    <3>3. one_tftp_lock
      BY <3>1 DEF ServerInv, LockInv, BusyIsLocked
    <3> QED BY <3>2, <3>3 DEF kick_tftpd, RaisesEvent
  <2> QED BY <1>1, <1>8, <2>1 DEF errorTFTP, Ignored, BootState
<1> QED BY <1>3, <1>4, <1>5, <1>6, <1>7, <1>8 DEF kick_tftpd
(***************************************************************************)
(* The network's and the client's part of a delivery.                      *)
(***************************************************************************)
Kept ==
    /\ UNCHANGED <<net, clientVars, restarted>>
    /\ back' = back \cup tx'
    /\ silence' \in {0, silence}

SameHistory == UNCHANGED <<published, stored, SERVER_port>>

\* A put is recorded as completed exactly when it completes.
LEMMA DeliverCases ==
    ASSUME ServerInv, ClientTypeOK, Live, NEW p \in net, Deliver(p)
    PROVE  /\ Kept /\ (p.op \in {"WRQ", "DATA"} => silence' = 0)
           /\ \/ SameHistory /\ (Ignored \/ Opened(p) \/ Downloads(p) \/ Repeated(p)
                                  \/ Continued(p))
              \/ Completed(p) /\ published' = job /\ stored' = stored \cup {job}
<1>1. /\ kick_tftpd(p) /\ back' = back \cup tx'
      /\ UNCHANGED <<net, clientVars, restarted>>
      /\ IF SERVER_port' # SERVER_port
         THEN published' = p.chunk[1] /\ stored' = stored \cup {p.chunk[1]}
         ELSE UNCHANGED <<published, stored>>
  BY DEF Deliver
<1>2. Kept /\ (p.op \in {"WRQ", "DATA"} => silence' = 0)
  BY <1>1 DEF kick_tftpd, Kept
<1>3. CASE Ignored \/ Opened(p) \/ Downloads(p) \/ Repeated(p) \/ Continued(p)
  BY <1>1, <1>2, <1>3 DEF SameHistory, Ignored, Opened, Downloads, Repeated, Continued
<1>4. CASE Completed(p)
  <2>1. SERVER_port' # SERVER_port
    BY <1>4 DEF Completed, ServerInv, TypeOK
  <2>2. p.chunk[1] = job
    BY <1>4 DEF Completed, StoreHere, Current, Live, PacketOK, PacketShape
  <2> QED BY <1>1, <1>2, <1>4, <2>1, <2>2
<1> QED BY <1>1, <1>3, <1>4, KickCases

-----------------------------------------------------------------------------
(***************************************************************************)
(* The types are kept.                                                     *)
(***************************************************************************)
LEMMA DeliverTypes ==
    ASSUME ServerInv, ClientTypeOK, DonePuts, Orphan \/ Live, NEW p \in net, Deliver(p)
    PROVE  ClientTypeOK' /\ DonePuts'
<1>1. p \in Packet /\ kick_tftpd(p)
  BY DEF ClientTypeOK, Deliver
<1>2. back' \subseteq Answer
  BY <1>1, KickAnswers DEF Deliver, ClientTypeOK, ServerInv
<1>3. \/ UNCHANGED <<published, stored>>
      \/ IsPut(job) /\ published' = job /\ stored' = stored \cup {job}
  <2>1. CASE Orphan
    <3>1. BootStateEvent(bootState, p.op) = "drop"
      BY <2>1 DEF Orphan, BootStateEvent
    <3>2. SERVER_port' = SERVER_port
      BY <1>1, <3>1 DEF kick_tftpd, errorDrop
    <3> QED BY <3>2 DEF Deliver
  <2>2. CASE Live
    BY <2>2, DeliverCases DEF SameHistory, Completed, StoreHere, Current
  <2> QED BY <2>1, <2>2
<1>4. UNCHANGED <<net, clientVars>>
  BY DEF Deliver
<1>5. UNCHANGED <<net, job, attempt, phase, tid, blk, got>>
  BY <1>4 DEF clientVars
<1>6. IsPut(job) => job \in JobNo
  BY PutOrGet
<1>7. ClientTypeOK'
  BY <1>2, <1>3, <1>5, <1>6 DEF ClientTypeOK
<1>8. DonePuts'
  BY <1>3, <1>5 DEF DonePuts
<1> QED BY <1>7, <1>8

\* A new attempt or a new job.
LEMMA StartTypes ==
    ASSUME ClientTypeOK, NEW j \in 1 .. Len(Jobs) + 1, NEW a \in 1 .. MaxAttempts,
           StartJob(j, a), net' \subseteq net, back' \subseteq back,
           UNCHANGED <<published, stored>>
    PROVE  ClientTypeOK'
<1>1. 0 \in 0 .. PortMod - 1 /\ 0 \in BlockNo
  BY ConstantsAssumption DEF BlockNo
<1>2. <<>> \in Seq(Chunk \cup {Junk})
  OBVIOUS
<1> QED BY <1>1, <1>2 DEF StartJob, ClientTypeOK

\* What the client receives.
LEMMA ReceiveTypes ==
    ASSUME ClientTypeOK, Receive
    PROVE  ClientTypeOK'
<1>1. PICK r \in back : r.port = MyPort /\ (PutAcked(r) \/ GetData(r))
  BY DEF Receive
<1>2. /\ r \in Answer
      /\ UNCHANGED <<net, back, published, stored>>
  BY DEF Receive, history, ClientTypeOK
<1>3. r.sport \in 0 .. PortMod - 1 /\ r.block \in BlockNo
  BY <1>2 DEF Answer
<1>4. CASE GetData(r)
  <2>1. r.chunk \in Chunk \cup {Junk}
    BY <1>2, <1>4 DEF GetData, Answer
  <2>2. got' \in Seq(Chunk \cup {Junk})
    BY <1>4, <2>1 DEF GetData, ClientTypeOK
  <2>3. job \in JobNo /\ ~IsPut(job)
    BY <1>4, PutOrGet DEF GetData, IsGet
  <2>4. /\ phase' \in {"transfer", "dally"}
        /\ tid' = r.sport /\ blk' = r.block
        /\ UNCHANGED <<job, attempt>>
    BY <1>4 DEF GetData
  <2> QED BY <1>2, <1>3, <2>2, <2>3, <2>4 DEF ClientTypeOK
<1>5. CASE PutAcked(r)
  <2>1. IsPut(job) /\ job \in JobNo
    BY <1>5, PutOrGet DEF PutAcked
  <2>2. BlocksOf(job) \in Nat /\ BlocksOf(job) + 2 < BlockMod /\ BlockMod \in Nat
    BY BlocksType, ConstantsAssumption
  <2>3. CASE /\ phase = "request"
             /\ phase' = "transfer" /\ tid' = r.sport /\ blk' = 1
             /\ UNCHANGED <<job, attempt, got>>
    <3>1. 1 \in BlockNo /\ 1 \in 1 .. BlocksOf(job) + 1
      BY <2>2, ConstantsAssumption DEF BlockNo
    <3> QED BY <1>2, <1>3, <2>1, <2>3, <3>1 DEF ClientTypeOK
  <2>4. CASE /\ phase = "transfer" /\ blk <= BlocksOf(job)
             /\ blk' = blk + 1
             /\ UNCHANGED <<job, attempt, phase, tid, got>>
    <3>1. blk \in 1 .. BlocksOf(job) + 1
      BY <2>1, <2>4 DEF ClientTypeOK
    <3>2. blk + 1 \in 1 .. BlocksOf(job) + 1 /\ blk + 1 \in BlockNo
      BY <2>2, <2>4, <3>1 DEF BlockNo
    <3> QED BY <1>2, <2>1, <2>4, <3>2 DEF ClientTypeOK
  <2>5. CASE StartJob(job + 1, 1)
    <3>1. job + 1 \in 1 .. Len(Jobs) + 1 /\ 1 \in 1 .. MaxAttempts
      <4>1. Len(Jobs) \in Nat
        BY NetAssumption
      <4> QED BY <2>1, <4>1, NetAssumption DEF JobNo
    <3> QED BY <1>2, <2>5, <3>1, StartTypes
  <2> QED BY <1>5, <2>3, <2>4, <2>5 DEF PutAcked
<1> QED BY <1>1, <1>4, <1>5
-----------------------------------------------------------------------------
(***************************************************************************)
(* A delivery keeps Live, case by case.  First what no case disturbs while *)
(* the server's port stays.                                                *)
(***************************************************************************)
LEMMA PacketsKept ==
    ASSUME Live, Kept, SERVER_port' = SERVER_port,
           image_address' \in {image_address, BootStart}, NEW p \in net
    PROVE  PacketShape(p)' /\ (p.op = "DATA" => DataPort(p)')
<1>1. UNCHANGED <<job, attempt, phase, tid>>
  BY DEF Kept, clientVars
<1>2. PacketShape(p) /\ (p.op = "DATA" => DataPort(p))
  BY DEF Live, PacketOK
<1>3. PacketShape(p)'
  BY <1>1, <1>2 DEF PacketShape, Sent, Placed
<1>4. p.op = "DATA" => DataPort(p)'
  BY <1>1, <1>2 DEF DataPort, Putting, MyPort, Tries
<1> QED BY <1>3, <1>4

\* What depends on the client only.
LEMMA ClientKept ==
    ASSUME Live, Kept
    PROVE  /\ \A r : Sent(r.port) => Sent(r.port)'
           /\ \A r : AnswerAhead(r) => AnswerAhead(r)'
           /\ UNCHANGED <<IsPut(job), IsGet(job), Putting, Asking, MyPort, Tries>>
           /\ SERVER_port' = SERVER_port => PortsOK'
           /\ published' = published => GettingOK'
<1>1. UNCHANGED <<net, job, attempt, phase, tid, blk, got>>
  BY DEF Kept, clientVars
<1>2. UNCHANGED <<IsPut(job), IsGet(job), Putting, Asking, MyPort, Tries>>
  BY <1>1 DEF Putting, Asking, MyPort, Tries
<1>3. \A r : Sent(r.port) => Sent(r.port)'
  BY <1>1 DEF Sent
<1>4. \A r : AnswerAhead(r) => AnswerAhead(r)'
  BY <1>1, <1>2 DEF AnswerAhead
<1>5. PortsOK /\ GettingOK
  BY DEF Live
<1>6. SERVER_port' = SERVER_port => PortsOK'
  BY <1>1, <1>2, <1>5 DEF PortsOK
<1>7. published' = published => GettingOK'
  BY <1>1, <1>2, <1>5 DEF GettingOK
<1> QED BY <1>2, <1>3, <1>4, <1>6, <1>7

\* A packet the server ignores.
LEMMA IgnoredLive ==
    ASSUME Live, Kept, SameHistory, Ignored
    PROVE  Live'
<1>1. /\ UNCHANGED <<image_address, address_to_store, ram, file_length_to_client,
                     block_expected, one_tftp_lock, SERVER_port, published, stored>>
      /\ UNCHANGED <<net, back, job, attempt, phase, tid, blk, got>>
      /\ bootState' = "CLIENT_WRQ" <=> bootState = "CLIENT_WRQ"
      /\ silence' \in {0, silence}
  BY DEF Ignored, Kept, SameHistory, clientVars, image
<1>2. (Serving' <=> Serving) /\ (Intact' <=> Intact) /\ (Rest' <=> Rest)
  BY <1>1 DEF Serving, Rest, Intact
<1>3. \A j : Placed(j)' <=> Placed(j)
  BY <1>1 DEF Placed
<1>4. ASSUME NEW p \in net' PROVE PacketOK(p)'
  <2>1. p \in net /\ PacketOK(p)
    BY <1>1 DEF Live
  <2>2. PacketShape(p)' /\ (p.op = "DATA" => DataPort(p)')
    BY <1>1, <2>1, PacketsKept
  <2> QED BY <1>1, <1>2, <1>3, <2>1, <2>2 DEF PacketOK, DataServed
<1>5. ASSUME NEW r \in back' PROVE AnswerOK(r)'
  <2>1. r \in back /\ AnswerOK(r)
    BY <1>1 DEF Live
  <2>2. Sent(r.port)' /\ AnswerAhead(r)'
    BY <2>1, ClientKept DEF AnswerOK
  <2>3. r.op = "ACK" => AckTrue(r)'
    BY <1>1, <1>2, <1>3, <2>1 DEF AnswerOK, AckTrue, Asking, MyPort
  <2>4. r.op = "DATA" => DataTrue(r)'
    BY <1>1, <2>1 DEF AnswerOK, DataTrue
  <2> QED BY <1>1, <2>1, <2>2, <2>3, <2>4 DEF AnswerOK
<1>6. PortsOK' /\ GettingOK'
  BY <1>1, ClientKept
<1>7. PuttingOK'
  BY <1>1, <1>2, <1>3 DEF Live, PuttingOK, Putting
<1>8. StoringOK'
  BY <1>1, <1>2 DEF Live, StoringOK
<1>9. ImageOK'
  BY <1>1, <1>2 DEF Live, ImageOK
<1>10. SilenceOK'
  BY <1>1 DEF Live, SilenceOK, Asking
<1> QED BY <1>4, <1>5, <1>6, <1>7, <1>8, <1>9, <1>10 DEF Live

(***************************************************************************)
(* A WRQ.  One that rewinds an upload the client is part of finds nothing  *)
(* stored; a late one names an image that is already in its place.         *)
(***************************************************************************)
LEMMA RewindIsHarmless ==
    ASSUME ServerInv, Live, NEW p \in net, Opened(p), Serving
    PROVE  \/ address_to_store.off = 0
           \/ (\A r \in back : r.op # "ACK") /\ ~Putting
<1>1. one_tftp_lock
  BY DEF Serving, ServerInv, LockInv, BusyIsLocked
<1>2. CASE block_expected = 1
  BY <1>2 DEF Serving, ServerInv, TypeOK
<1>3. CASE silence > WrqTimeout
  <2>1. silence > 0
    BY <1>3, ConstantsAssumption DEF ServerInv, TypeOK
  <2> QED BY <2>1 DEF Live, SilenceOK, Opened, Asking, Putting
<1> QED BY <1>1, <1>2, <1>3 DEF Opened

\* Opening an upload keeps Live.
LEMMA OpenedLive ==
    ASSUME ServerInv, ClientTypeOK, Live, NEW p \in net, Kept, silence' = 0, SameHistory,
           Opened(p)
    PROVE  Live'
<1>1. /\ UNCHANGED <<ram, file_length_to_client, SERVER_port, published, stored>>
      /\ UNCHANGED <<net, job, attempt, phase, tid, blk, got>>
      /\ bootState' = "CLIENT_WRQ" /\ one_tftp_lock' /\ block_expected' = 1
      /\ address_to_store'.off = 0 /\ address_to_store'.base = image_address'
      /\ image_address' \in {image_address, BootStart}
  BY DEF Opened, Kept, SameHistory, clientVars
<1>2. /\ IsPut(p.port[1]) /\ Sent(p.port)
      /\ p.name = Jobs[p.port[1]].name
      /\ p.port[1] # job => Placed(p.port[1])
  BY DEF Live, PacketOK, PacketShape, Opened
<1>3. Serving'
  BY <1>1 DEF Serving
<1>4. \A j : Placed(j) => Placed(j)'
  BY <1>1 DEF Placed
<1>5. Placed(p.port[1])'
  BY <1>2 DEF Opened, Placed
<1>6. p.port[1] # job \/ Placed(job) => image_address' = image_address
  BY <1>2 DEF Opened, Placed
<1>7. Rest /\ (p.port[1] # job \/ Placed(job)) => Rest'
  BY <1>1, <1>6 DEF Rest, Intact
<1>8. ASSUME NEW q \in net' PROVE PacketOK(q)'
  <2>1. q \in net /\ PacketOK(q)
    BY <1>1 DEF Live
  <2>2. PacketShape(q)' /\ (q.op = "DATA" => DataPort(q)')
    BY <1>1, <2>1, PacketsKept
  <2> QED BY <1>1, <1>3, <1>4, <2>1, <2>2 DEF PacketOK, DataServed
<1>9. ASSUME NEW r \in back' PROVE AnswerOK(r)'
  <2>1. CASE r \in back
    <3>1. AnswerOK(r)
      BY <2>1 DEF Live
    <3>2. Sent(r.port)' /\ AnswerAhead(r)'
      BY <3>1, ClientKept DEF AnswerOK
    <3>3. ASSUME r.op = "ACK", IsPut(job), r.port[1] = job
          PROVE  /\ Placed(job)'
                 /\ r.sport = SERVER_port => r.block <= 0
                 /\ r.sport < SERVER_port => job \in stored
                 /\ Asking /\ r.port = MyPort /\ r.sport < SERVER_port => Rest'
      <4>1. /\ Placed(job)
            /\ r.sport = SERVER_port => Serving /\ r.block <= address_to_store.off
            /\ r.sport < SERVER_port => job \in stored
            /\ Asking /\ r.port = MyPort /\ r.sport < SERVER_port => Rest
        BY <3>1, <3>3 DEF AnswerOK, AckTrue
      <4>2. Serving => address_to_store.off = 0
        BY <2>1, <3>3, RewindIsHarmless
      <4> QED BY <1>1, <1>4, <1>7, <4>1, <4>2
    <3>4. r.op = "ACK" => AckTrue(r)'
      BY <1>1, <1>3, <3>3 DEF AckTrue, Asking, MyPort
    <3>5. r.op = "DATA" => DataTrue(r)'
      BY <1>1, <3>1 DEF AnswerOK, DataTrue
    <3> QED BY <1>1, <3>1, <3>2, <3>4, <3>5 DEF AnswerOK
  <2>2. CASE r \in tx'
    <3>1. r.op = "ACK" /\ r.port = p.port /\ r.sport = SERVER_port /\ r.block = 0
      BY <2>2 DEF Opened
    <3>2. AnswerAhead(r)
      BY <3>1 DEF AnswerAhead, Live, PacketOK, DataPort
    <3>3. Sent(r.port)' /\ AnswerAhead(r)'
      BY <1>2, <3>1, <3>2, ClientKept
    <3>4. AckTrue(r)'
      BY <1>1, <1>3, <1>5, <3>1 DEF AckTrue, ServerInv, TypeOK
    <3> QED BY <1>1, <3>1, <3>3, <3>4 DEF AnswerOK, ServerInv, TypeOK
  <2> QED BY <1>9, <2>1, <2>2 DEF Kept
<1>10. PortsOK' /\ GettingOK'
  BY <1>1, ClientKept
<1>11. PuttingOK'
  <2>1. Putting => /\ Placed(job)
                   /\ tid = SERVER_port => Serving /\ blk <= address_to_store.off + 1
                   /\ tid < SERVER_port => job \in stored /\ Rest
    BY DEF Live, PuttingOK
  <2>2. Putting /\ Serving => address_to_store.off = 0
    BY RewindIsHarmless
  <2>3. Putting' = Putting
    BY ClientKept
  <2> QED BY <1>1, <1>3, <1>4, <1>7, <2>1, <2>2, <2>3 DEF PuttingOK
<1>12. StoringOK'
  BY <1>1 DEF StoringOK
<1>13. ImageOK'
  BY <1>1, <1>2, <1>7 DEF Live, ImageOK
<1>14. SilenceOK'
  BY DEF SilenceOK
<1> QED BY <1>8, <1>9, <1>10, <1>11, <1>12, <1>13, <1>14 DEF Live
(***************************************************************************)
(* A packet of a get.  No put is under way then, nothing is stored, and    *)
(* what is read is the published image.                                    *)
(***************************************************************************)
LEMMA DownloadsLive ==
    ASSUME ServerInv, ClientTypeOK, Live, NEW p \in net, Kept, SameHistory, Downloads(p)
    PROVE  Live'
<1>1. /\ UNCHANGED <<image_address, address_to_store, ram, file_length_to_client,
                     SERVER_port, published, stored>>
      /\ UNCHANGED <<net, job, attempt, phase, tid, blk, got>>
      /\ bootState' = "CLIENT_WRQ" => bootState = "CLIENT_WRQ"
  BY DEF Downloads, Kept, SameHistory, clientVars, image
<1>2. IsGet(job) /\ ~IsPut(job) /\ Sent(p.port)
  BY PutOrGet DEF Live, PacketOK, PacketShape, Downloads
<1>3. Rest /\ Rest'
  BY <1>1, <1>2 DEF Live, ImageOK, Rest, Intact
<1>4. ASSUME NEW q \in net' PROVE PacketOK(q)'
  <2>1. q \in net /\ PacketOK(q)
    BY <1>1 DEF Live
  <2>2. PacketShape(q)' /\ (q.op = "DATA" => DataPort(q)')
    BY <1>1, <2>1, PacketsKept
  <2> QED BY <1>1, <1>2, <2>1, <2>2 DEF PacketOK, DataServed
<1>5. ASSUME NEW r \in back' PROVE AnswerOK(r)'
  <2>1. AckTrue(r)'
    BY <1>1, <1>2 DEF AckTrue
  <2>2. CASE r \in back
    <3>1. AnswerOK(r)
      BY <2>2 DEF Live
    <3>2. Sent(r.port)' /\ AnswerAhead(r)'
      BY <3>1, ClientKept DEF AnswerOK
    <3>3. r.op = "DATA" => DataTrue(r)'
      BY <1>1, <3>1 DEF AnswerOK, DataTrue
    <3> QED BY <1>1, <2>1, <3>1, <3>2, <3>3 DEF AnswerOK
  <2>3. CASE r \in tx'
    <3>1. PICK n \in BlockNo :
             /\ n <= LastBlock
             /\ r.op = "DATA" /\ r.port = p.port /\ r.sport = SERVER_port
             /\ r.block = n /\ r.chunk = BlockAt(n) /\ r.full = (n < LastBlock)
      BY <2>3 DEF Downloads
    <3>2. Sent(r.port)' /\ AnswerAhead(r)'
      BY <1>1, <1>2, <3>1 DEF Sent, AnswerAhead, Asking
    <3>3. n \in Nat /\ MaxBlocks \in Nat /\ file_length_to_client \in 0 .. MaxBlocks
      BY ConstantsAssumption DEF BlockNo, ServerInv, TypeOK
    <3>4. ASSUME published # 0, n >= 1
          PROVE  /\ n <= BlocksOf(published) + 1
                 /\ BlockAt(n) = <<published, n>>
                 /\ n < LastBlock <=> n <= BlocksOf(published)
      <4>1. /\ file_length_to_client = BlocksOf(published)
            /\ \A i \in 1 .. file_length_to_client + 1 : ram[image_address][i] = <<published, i>>
        BY <1>3, <3>4 DEF Rest, Intact
      <4>2. n \in 1 .. file_length_to_client + 1 /\ n \in 1 .. MaxBlocks + 1
        BY <3>1, <3>3, <3>4 DEF LastBlock
      <4> QED BY <3>3, <4>1, <4>2 DEF BlockAt, LastBlock
    <3>5. DataTrue(r)'
      BY <1>1, <3>1, <3>4 DEF DataTrue
    <3> QED BY <1>1, <2>1, <3>1, <3>2, <3>5 DEF AnswerOK, ServerInv, TypeOK
  <2> QED BY <1>5, <2>2, <2>3 DEF Kept
<1>6. PortsOK' /\ GettingOK'
  BY <1>1, ClientKept
<1>7. PuttingOK'
  BY <1>1, <1>2 DEF PuttingOK, Putting
<1>8. StoringOK'
  BY <1>1, <1>3 DEF Live, StoringOK, Rest, ServerInv, TypeOK
<1>9. ImageOK'
  BY <1>3 DEF ImageOK, Rest
<1>10. SilenceOK'
  <2>1. \A r \in tx' : r.op = "DATA"
    BY DEF Downloads
  <2> QED BY <1>1, <2>1 DEF Live, SilenceOK, Asking, Kept
<1> QED BY <1>4, <1>5, <1>6, <1>7, <1>8, <1>9, <1>10 DEF Live

(***************************************************************************)
(* DATA of the current put.  Whoever puts or asks is on this port: what    *)
(* is in flight for a later one would have been sent later.                *)
(***************************************************************************)
LEMMA CurrentIsLast ==
    ASSUME ServerInv, ClientTypeOK, Live, NEW p \in net, Current(p)
    PROVE  /\ Putting => tid = SERVER_port
           /\ \A r \in back : Asking /\ r.port = MyPort => r.sport = SERVER_port
           /\ Asking => p.port # MyPort
           /\ IsPut(job) /\ ~IsGet(job) /\ Sent(p.port)
           /\ p.block \in 1 .. BlocksOf(job) + 1
           /\ p.chunk = <<job, p.block>>
           /\ p.full <=> p.block <= BlocksOf(job)
<1>1. /\ p.op = "DATA" /\ p.dport = SERVER_port /\ p.port[1] = job /\ IsPut(job)
      /\ PacketShape(p) /\ DataPort(p)
  BY DEF Current, Live, PacketOK
<1>2. Putting => tid = SERVER_port
  BY <1>1 DEF DataPort, Live, PortsOK, ServerInv, TypeOK, ClientTypeOK
<1>3. ASSUME NEW r \in back, Asking, r.port = MyPort PROVE r.sport = SERVER_port
  <2>1. p.dport <= r.sport /\ r.sport <= SERVER_port
    BY <1>1, <1>3 DEF Live, AnswerOK, AnswerAhead
  <2>2. r.sport \in Nat /\ SERVER_port \in Nat
    BY DEF ClientTypeOK, Answer, ServerInv, TypeOK
  <2> QED BY <1>1, <2>1, <2>2
<1>4. Asking => p.port # MyPort
  BY <1>1 DEF DataPort, Asking
<1> QED BY <1>1, <1>2, <1>3, <1>4, PutOrGet DEF PacketShape

\* Acknowledging once more keeps Live.
LEMMA RepeatedLive ==
    ASSUME ServerInv, ClientTypeOK, Live, NEW p \in net, Kept, silence' = 0, SameHistory,
           Repeated(p)
    PROVE  Live'
<1>1. /\ UNCHANGED <<image_address, address_to_store, ram, file_length_to_client,
                     bootState, one_tftp_lock, block_expected,
                     SERVER_port, published, stored>>
      /\ UNCHANGED <<net, job, attempt, phase, tid, blk, got>>
      /\ Current(p)
  BY DEF Repeated, Kept, SameHistory, clientVars, image, session
<1>2. (Serving' <=> Serving) /\ (Intact' <=> Intact) /\ (Rest' <=> Rest)
  BY <1>1 DEF Serving, Rest, Intact
<1>3. \A j : Placed(j)' <=> Placed(j)
  BY <1>1 DEF Placed
<1>4. ASSUME NEW q \in net' PROVE PacketOK(q)'
  <2>1. q \in net /\ PacketOK(q)
    BY <1>1 DEF Live
  <2>2. PacketShape(q)' /\ (q.op = "DATA" => DataPort(q)')
    BY <1>1, <2>1, PacketsKept
  <2> QED BY <1>1, <1>2, <1>3, <2>1, <2>2 DEF PacketOK, DataServed
<1>5. ASSUME NEW r \in back' PROVE AnswerOK(r)'
  <2>1. CASE r \in back
    <3>1. AnswerOK(r)
      BY <2>1 DEF Live
    <3>2. Sent(r.port)' /\ AnswerAhead(r)'
      BY <3>1, ClientKept DEF AnswerOK
    <3>3. r.op = "ACK" => AckTrue(r)'
      BY <1>1, <1>2, <1>3, <3>1 DEF AnswerOK, AckTrue, Asking, MyPort
    <3>4. r.op = "DATA" => DataTrue(r)'
      BY <1>1, <3>1 DEF AnswerOK, DataTrue
    <3> QED BY <1>1, <3>1, <3>2, <3>3, <3>4 DEF AnswerOK
  <2>2. CASE r \in tx'
    <3>1. /\ r.op = "ACK" /\ r.port = p.port /\ r.sport = SERVER_port
          /\ r.block = address_to_store.off
      BY <2>2 DEF Repeated, Acked
    <3>2. Sent(r.port) /\ AnswerAhead(r)
      BY <1>1, <3>1, CurrentIsLast DEF AnswerAhead
    <3>3. Sent(r.port)' /\ AnswerAhead(r)'
      BY <3>2, ClientKept
    <3>4. AckTrue(r)'
      BY <1>1, <1>2, <1>3, <3>1 DEF AckTrue, Current, ServerInv, TypeOK
    <3> QED BY <1>1, <3>1, <3>3, <3>4 DEF AnswerOK, ServerInv, TypeOK
  <2> QED BY <1>5, <2>1, <2>2 DEF Kept
<1>6. PortsOK' /\ GettingOK'
  BY <1>1, ClientKept
<1>7. PuttingOK'
  BY <1>1, <1>2, <1>3 DEF Live, PuttingOK, Putting
<1>8. StoringOK'
  BY <1>1, <1>2 DEF Live, StoringOK
<1>9. ImageOK'
  BY <1>1, <1>2 DEF Live, ImageOK
<1>10. SilenceOK'
  BY DEF SilenceOK
<1> QED BY <1>4, <1>5, <1>6, <1>7, <1>8, <1>9, <1>10 DEF Live
\* Storing a full block keeps Live.
LEMMA ContinuedLive ==
    ASSUME ServerInv, ClientTypeOK, Live, NEW p \in net, Kept, silence' = 0, SameHistory,
           Continued(p)
    PROVE  Live'
<1> DEFINE off == address_to_store.off
           base == address_to_store.base
<1>1. /\ Current(p) /\ p.block = off + 1 /\ p.full /\ Acked(p, off + 1)
      /\ UNCHANGED <<image_address, bootState, one_tftp_lock, SERVER_port,
                     file_length_to_client, published, stored>>
      /\ UNCHANGED <<net, job, attempt, phase, tid, blk, got>>
      /\ address_to_store' = [address_to_store EXCEPT !.off = @ + 1]
      /\ block_expected' = block_expected + 1
      /\ ram' = [ram EXCEPT ![base][off + 1] = p.chunk]
  BY DEF Continued, StoreHere, Kept, SameHistory, clientVars
<1>2. /\ off \in 0 .. MaxBlocks /\ off \in Nat /\ base \in Address
      /\ address_to_store'.off = off + 1 /\ address_to_store'.base = base
  BY <1>1 DEF ServerInv, TypeOK
<1>3. /\ bootState = "CLIENT_WRQ" /\ one_tftp_lock /\ Serving /\ Serving'
      /\ Placed(job) /\ Placed(job)'
  BY <1>1, <1>2 DEF Current, Serving, Placed, ServerInv, LockInv, BusyIsLocked, TypeOK
<1>4. /\ IsPut(job) /\ ~IsGet(job)
      /\ Putting => tid = SERVER_port
      /\ \A r \in back : Asking /\ r.port = MyPort => r.sport = SERVER_port
      /\ Asking => p.port # MyPort
      /\ p.chunk = <<job, off + 1>> /\ off + 1 <= BlocksOf(job)
  BY <1>1, CurrentIsLast
<1>5. SERVER_port \in Nat
  BY DEF ServerInv, TypeOK
<1>6. ASSUME NEW q \in net' PROVE PacketOK(q)'
  <2>1. q \in net /\ PacketOK(q)
    BY <1>1 DEF Live
  <2>2. PacketShape(q)' /\ (q.op = "DATA" => DataPort(q)')
    BY <1>1, <2>1, PacketsKept
  <2> QED BY <1>1, <1>3, <2>1, <2>2 DEF PacketOK, DataServed
<1>7. ASSUME NEW r \in back' PROVE AnswerOK(r)'
  <2>1. CASE r \in back
    <3>1. AnswerOK(r)
      BY <2>1 DEF Live
    <3>2. Sent(r.port)' /\ AnswerAhead(r)'
      BY <3>1, ClientKept DEF AnswerOK
    <3>3. ASSUME r.op = "ACK" PROVE AckTrue(r)'
      <4>1. r.block \in Nat
        BY <2>1, <3>3, ConstantsAssumption DEF ClientTypeOK, Answer, BlockNo
      <4>2. AckTrue(r)
        BY <3>1, <3>3 DEF AnswerOK
      <4>3. r.sport = SERVER_port /\ r.port[1] = job => r.block <= off + 1
        BY <1>2, <1>4, <4>1, <4>2 DEF AckTrue
      <4>4. r.sport < SERVER_port /\ r.port[1] = job => job \in stored
        BY <1>4, <4>2 DEF AckTrue
      <4>5. ~(Asking /\ r.port = MyPort /\ r.sport < SERVER_port)
        BY <1>4, <1>5, <2>1
      <4>6. UNCHANGED <<Asking, MyPort>>
        BY ClientKept
      <4> QED BY <1>1, <1>2, <1>3, <4>3, <4>4, <4>5, <4>6 DEF AckTrue
    <3>4. r.op = "DATA" => DataTrue(r)'
      BY <1>1, <3>1 DEF AnswerOK, DataTrue
    <3> QED BY <1>1, <3>1, <3>2, <3>3, <3>4 DEF AnswerOK
  <2>2. CASE r \in tx'
    <3>1. r.op = "ACK" /\ r.port = p.port /\ r.sport = SERVER_port /\ r.block = off + 1
      BY <1>1, <2>2 DEF Acked
    <3>2. Sent(r.port) /\ AnswerAhead(r)
      BY <1>1, <3>1, CurrentIsLast DEF AnswerAhead
    <3>3. Sent(r.port)' /\ AnswerAhead(r)'
      BY <3>2, ClientKept
    <3>4. AckTrue(r)'
      BY <1>1, <1>2, <1>3, <1>5, <3>1 DEF AckTrue
    <3> QED BY <1>1, <1>5, <3>1, <3>3, <3>4 DEF AnswerOK
  <2> QED BY <1>7, <2>1, <2>2 DEF Kept
<1>8. PortsOK' /\ GettingOK'
  BY <1>1, ClientKept
<1>9. PuttingOK'
  <2>1. Putting => blk <= off + 1 /\ blk \in Nat
    BY <1>4, ConstantsAssumption DEF Live, PuttingOK, ClientTypeOK, BlockNo
  <2>2. Putting' = Putting
    BY ClientKept
  <2> QED BY <1>1, <1>2, <1>3, <1>4, <1>5, <2>1, <2>2 DEF PuttingOK
<1>10. StoringOK'
  <2>1. /\ base = image_address
        /\ \A i \in 1 .. off : ram[base][i] = <<job, i>>
    BY <1>2, <1>3 DEF Live, StoringOK
  <2>2. ram[base] \in [1 .. MaxBlocks + 1 -> Chunk \cup {Junk}]
    BY <1>2 DEF ServerInv, TypeOK
  <2>3. ASSUME NEW i \in 1 .. off + 1 PROVE ram'[base][i] = <<job, i>>
    <3>1. i \in 1 .. MaxBlocks + 1 /\ ram \in [Address -> [1 .. MaxBlocks + 1 -> Chunk \cup {Junk}]]
      BY <1>2, ConstantsAssumption DEF ServerInv, TypeOK
    <3>2. ram'[base][i] = IF i = off + 1 THEN p.chunk ELSE ram[base][i]
      BY <1>1, <1>2, <2>2, <3>1
    <3>3. i # off + 1 => i \in 1 .. off
      BY <1>2
    <3> QED BY <1>4, <2>1, <3>2, <3>3
  <2> QED BY <1>1, <1>2, <1>3, <1>4, <2>1, <2>3 DEF StoringOK
<1>11. ImageOK'
  BY <1>1, <1>3, <1>4 DEF ImageOK
<1>12. SilenceOK'
  BY DEF SilenceOK
<1> QED BY <1>6, <1>7, <1>8, <1>9, <1>10, <1>11, <1>12 DEF Live

(***************************************************************************)
(* The short block: what was stored is the whole of the image, and what is *)
(* still in flight is now behind SERVER_port.                              *)
(***************************************************************************)
LEMMA CompletedLive ==
    ASSUME ServerInv, ClientTypeOK, Live, NEW p \in net, Kept, silence' = 0,
           Completed(p), published' = job, stored' = stored \cup {job}
    PROVE  Live'
<1> DEFINE off == address_to_store.off
           base == address_to_store.base
<1>1. /\ Current(p) /\ p.block = off + 1 /\ ~p.full /\ Acked(p, off + 1)
      /\ UNCHANGED image_address
      /\ UNCHANGED <<net, job, attempt, phase, tid, blk, got>>
      /\ bootState' = "INIT_ARP" /\ ~one_tftp_lock'
      /\ file_length_to_client' = off /\ SERVER_port' = SERVER_port + 1
      /\ ram' = [ram EXCEPT ![base][off + 1] = p.chunk]
  BY DEF Completed, StoreHere, Kept, clientVars
<1>2. /\ off \in 0 .. MaxBlocks /\ off \in Nat /\ base \in Address
      /\ SERVER_port \in Nat /\ BlocksOf(job) \in Nat
      /\ Tries \in Nat /\ tid \in Nat
  BY BlocksType, TriesBound, ConstantsAssumption DEF ServerInv, TypeOK, ClientTypeOK
<1>3. bootState = "CLIENT_WRQ" /\ Placed(job) /\ Placed(job)' /\ base = image_address
  BY <1>1 DEF Current, Serving, Placed, Live, StoringOK
<1>4. /\ IsPut(job) /\ ~IsGet(job) /\ job # 0
      /\ Putting => tid = SERVER_port
      /\ Asking => p.port # MyPort
      /\ p.chunk = <<job, off + 1>> /\ ~(off + 1 <= BlocksOf(job))
  BY <1>1, CurrentIsLast, PutOrGet DEF JobNo
<1>5. off = BlocksOf(job) /\ \A i \in 1 .. off : ram[base][i] = <<job, i>>
  <2>1. CASE off = 0
    <3>1. off + 1 \in 1 .. BlocksOf(job) + 1
      BY <1>1, CurrentIsLast
    <3> QED BY <1>2, <1>4, <2>1, <3>1
  <2>2. CASE off > 0
    BY <1>2, <1>3, <1>4, <2>2 DEF Live, StoringOK
  <2> QED BY <1>2, <2>1, <2>2
<1>6. Intact'
  <2>1. ram[base] \in [1 .. MaxBlocks + 1 -> Chunk \cup {Junk}]
    BY <1>2 DEF ServerInv, TypeOK
  <2>2. ASSUME NEW i \in 1 .. off + 1 PROVE ram'[base][i] = <<job, i>>
    <3>1. i \in 1 .. MaxBlocks + 1 /\ ram \in [Address -> [1 .. MaxBlocks + 1 -> Chunk \cup {Junk}]]
      BY <1>2, ConstantsAssumption DEF ServerInv, TypeOK
    <3>2. ram'[base][i] = IF i = off + 1 THEN p.chunk ELSE ram[base][i]
      BY <1>1, <1>2, <2>1, <3>1
    <3>3. i # off + 1 => i \in 1 .. off
      BY <1>2
    <3> QED BY <1>4, <1>5, <3>2, <3>3
  <2> QED BY <1>1, <1>3, <1>5, <2>2 DEF Intact
<1>7. Rest'
  BY <1>1, <1>6 DEF Rest
<1>8. UNCHANGED <<Asking, Putting, MyPort, Tries>>
  BY ClientKept
<1>9. ASSUME NEW q \in net' PROVE PacketOK(q)'
  <2>1. q \in net /\ PacketOK(q)
    BY <1>1 DEF Live
  <2>2. PacketShape(q)'
    BY <1>1, <2>1 DEF PacketOK, PacketShape, Sent, Placed
  <2>3. ASSUME q.op = "DATA" PROVE DataPort(q)' /\ DataServed(q)'
    <3>1. DataPort(q)
      BY <2>1, <2>3 DEF PacketOK
    <3>2. q.dport \in Nat
      BY <2>1, <2>3, ConstantsAssumption DEF ClientTypeOK, Packet, DestPort
    <3>3. q.dport < SERVER_port + 1
      BY <1>2, <3>1, <3>2 DEF DataPort
    <3>4. DataPort(q)'
      BY <1>1, <1>2, <1>8, <3>1, <3>2, <3>3 DEF DataPort
    <3>5. DataServed(q)'
      BY <1>1, <1>2, <3>2, <3>3 DEF DataServed
    <3> QED BY <3>4, <3>5
  <2> QED BY <2>2, <2>3 DEF PacketOK
<1>10. ASSUME NEW r \in back' PROVE AnswerOK(r)'
  <2>1. /\ Sent(r.port) /\ AnswerAhead(r)
        /\ r.sport <= SERVER_port /\ r.sport \in Nat
    <3>1. CASE r \in back
      BY <3>1 DEF Live, AnswerOK, ClientTypeOK, Answer
    <3>2. CASE r \in tx'
      BY <1>1, <1>2, <3>2, CurrentIsLast DEF Acked, AnswerAhead
    <3> QED BY <1>10, <3>1, <3>2 DEF Kept
  <2>2. Sent(r.port)' /\ AnswerAhead(r)'
    BY <2>1, ClientKept
  <2>3. r.sport < SERVER_port'
    BY <1>1, <1>2, <2>1
  <2>4. AckTrue(r)'
    BY <1>1, <1>2, <1>3, <1>7, <2>1, <2>3 DEF AckTrue
  <2>5. DataTrue(r)'
    BY <1>1, <1>4 DEF DataTrue
  <2> QED BY <1>1, <1>2, <2>1, <2>2, <2>3, <2>4, <2>5 DEF AnswerOK
<1>11. PortsOK'
  <2>1. SERVER_port + 1 <= Tries /\ (phase = "request" => SERVER_port + 1 <= Tries - 1)
    <3>1. p.op = "DATA" /\ p.dport = SERVER_port /\ DataPort(p)
      BY <1>1 DEF Live, PacketOK, Current
    <3>2. CASE p.port = MyPort
      <4>1. phase # "request" /\ Putting
        BY <1>4, <3>1, <3>2 DEF DataPort, Putting, ClientTypeOK
      <4> QED BY <1>2, <1>4, <4>1 DEF Live, PortsOK
    <3>3. CASE p.port # MyPort
      BY <1>2, <3>1, <3>3 DEF DataPort
    <3> QED BY <3>2, <3>3
  <2>2. Putting => tid <= Tries - 1 /\ tid <= SERVER_port
    BY DEF Live, PortsOK
  <2> QED BY <1>1, <1>2, <1>8, <2>1, <2>2 DEF PortsOK
<1>12. PuttingOK'
  BY <1>1, <1>2, <1>3, <1>4, <1>7, <1>8 DEF PuttingOK
<1>13. StoringOK'
  BY <1>1 DEF StoringOK
<1>14. ImageOK'
  BY <1>7 DEF ImageOK, Rest
<1>15. SilenceOK'
  BY DEF SilenceOK
<1>16. GettingOK'
  BY <1>1, <1>4 DEF GettingOK
<1> QED BY <1>9, <1>10, <1>11, <1>12, <1>13, <1>14, <1>15, <1>16 DEF Live
\* Whatever packet is delivered.
LEMMA DeliverLive ==
    ASSUME ServerInv, ClientTypeOK, Live, NEW p \in net, Deliver(p)
    PROVE  Live'
<1>1. /\ Kept /\ (p.op \in {"WRQ", "DATA"} => silence' = 0)
      /\ \/ SameHistory /\ (Ignored \/ Opened(p) \/ Downloads(p) \/ Repeated(p)
                             \/ Continued(p))
         \/ Completed(p) /\ published' = job /\ stored' = stored \cup {job}
  BY DeliverCases
<1>2. /\ Opened(p) => p.op = "WRQ"
      /\ Repeated(p) \/ Continued(p) \/ Completed(p) => p.op = "DATA"
  BY DEF Opened, Repeated, Continued, Completed, StoreHere, Current
<1>3. CASE SameHistory /\ Ignored
  BY <1>1, <1>3, IgnoredLive
<1>4. CASE SameHistory /\ Opened(p)
  BY <1>1, <1>2, <1>4, OpenedLive
<1>5. CASE SameHistory /\ Downloads(p)
  BY <1>1, <1>5, DownloadsLive
<1>6. CASE SameHistory /\ Repeated(p)
  BY <1>1, <1>2, <1>6, RepeatedLive
<1>7. CASE SameHistory /\ Continued(p)
  BY <1>1, <1>2, <1>7, ContinuedLive
<1>8. CASE Completed(p) /\ published' = job /\ stored' = stored \cup {job}
  BY <1>1, <1>2, <1>8, CompletedLive
<1> QED BY <1>1, <1>3, <1>4, <1>5, <1>6, <1>7, <1>8

-----------------------------------------------------------------------------
(***************************************************************************)
(* The client's own steps keep Live: the server stands still.              *)
(***************************************************************************)
LEMMA StillServer ==
    ASSUME UNCHANGED vars, UNCHANGED history
    PROVE  /\ UNCHANGED <<bootState, block_expected, one_tftp_lock, image_address,
                          address_to_store, ram, file_length_to_client, SERVER_port, silence>>
           /\ UNCHANGED <<published, stored, restarted>>
           /\ (Serving' <=> Serving) /\ (Intact' <=> Intact) /\ (Rest' <=> Rest)
           /\ \A j : Placed(j)' <=> Placed(j)
<1>1. /\ UNCHANGED <<bootState, block_expected, one_tftp_lock, image_address,
                     address_to_store, ram, file_length_to_client, SERVER_port, silence>>
      /\ UNCHANGED <<published, stored, restarted>>
  BY DEF vars, history, session, image
<1> QED BY <1>1 DEF Serving, Intact, Rest, Placed

\* Sending.
LEMMA SendLive ==
    ASSUME ServerInv, ClientTypeOK, Live, Send
    PROVE  Live'
<1>1. /\ net' = net \cup Outgoing
      /\ UNCHANGED vars /\ UNCHANGED history
      /\ UNCHANGED <<back, job, attempt, phase, tid, blk, got>>
  BY DEF Send, clientVars
<1>2. /\ UNCHANGED <<bootState, block_expected, one_tftp_lock, image_address,
                     address_to_store, ram, file_length_to_client, SERVER_port, silence>>
      /\ UNCHANGED <<published, stored, restarted>>
      /\ (Serving' <=> Serving) /\ (Intact' <=> Intact) /\ (Rest' <=> Rest)
      /\ \A j : Placed(j)' <=> Placed(j)
  BY <1>1, StillServer
<1>3. UNCHANGED <<IsPut(job), IsGet(job), Putting, Asking, MyPort, Tries>>
  BY <1>1 DEF Putting, Asking, MyPort, Tries
<1>4. ASSUME NEW p \in net' PROVE PacketOK(p)'
  <2>1. PacketOK(p)
    <3>1. CASE p \in net
      BY <3>1 DEF Live
    <3>2. CASE p \in Outgoing
      <4>1. p.port = MyPort /\ Sent(p.port)
        BY <3>2, OutgoingFacts DEF Sent, MyPort, ClientTypeOK
      <4>2. p.port[1] = job
        BY <4>1 DEF MyPort
      <4>3. PacketShape(p)
        BY <3>2, <4>1, <4>2, OutgoingFacts
           DEF PacketShape, Asking, Putting, ClientTypeOK
      <4>4. ASSUME p.op = "DATA" PROVE DataPort(p) /\ DataServed(p)
        <5>1. Putting /\ p.dport = tid
          BY <3>2, <4>4, OutgoingFacts
        <5>2. PortsOK /\ PuttingOK /\ tid \in Nat
          BY DEF Live, ClientTypeOK
        <5>3. DataPort(p)
          BY <4>1, <4>2, <5>1, <5>2 DEF DataPort, PortsOK, Putting
        <5>4. DataServed(p)
          BY <5>1, <5>2 DEF DataServed, PuttingOK
        <5> QED BY <5>3, <5>4
      <4> QED BY <4>3, <4>4 DEF PacketOK
    <3> QED BY <1>1, <1>4, <3>1, <3>2
  <2>2. PacketShape(p)'
    BY <1>1, <1>2, <2>1 DEF PacketOK, PacketShape, Sent
  <2>3. p.op = "DATA" => DataPort(p)' /\ DataServed(p)'
    BY <1>1, <1>2, <1>3, <2>1 DEF PacketOK, DataPort, DataServed
  <2> QED BY <2>2, <2>3 DEF PacketOK
<1>5. ASSUME NEW r \in back' PROVE AnswerOK(r)'
  <2>1. AnswerOK(r)
    BY <1>1 DEF Live
  <2>2. AnswerAhead(r)'
    <3>1. Asking => \A p \in Outgoing : p.op # "DATA"
      BY OutgoingFacts DEF Asking, Putting
    <3> QED BY <1>1, <1>3, <2>1, <3>1 DEF AnswerOK, AnswerAhead
  <2>3. r.op = "ACK" => AckTrue(r)'
    BY <1>1, <1>2, <1>3, <2>1 DEF AnswerOK, AckTrue
  <2>4. r.op = "DATA" => DataTrue(r)'
    BY <1>1, <1>2, <2>1 DEF AnswerOK, DataTrue
  <2> QED BY <1>1, <1>2, <2>1, <2>2, <2>3, <2>4 DEF AnswerOK, Sent
<1>6. PortsOK' /\ PuttingOK'
  BY <1>1, <1>2, <1>3 DEF Live, PortsOK, PuttingOK
<1>7. StoringOK' /\ ImageOK'
  BY <1>1, <1>2 DEF Live, StoringOK, ImageOK
<1>8. SilenceOK'
  <2>1. ~Asking => \A p \in Outgoing : p.op # "WRQ"
    BY OutgoingFacts
  <2> QED BY <1>1, <1>2, <1>3, <2>1 DEF Live, SilenceOK
<1>9. GettingOK'
  BY <1>1, <1>2 DEF Live, GettingOK
<1> QED BY <1>4, <1>5, <1>6, <1>7, <1>8, <1>9 DEF Live
(***************************************************************************)
(* ACK 0 (or a late ACK of a block an attempt began with): the port that   *)
(* answered is that of everything sent so far, or a later one.             *)
(***************************************************************************)
LEMMA BeginLive ==
    ASSUME ServerInv, ClientTypeOK, Live, NEW r \in back, r.port = MyPort, r.op = "ACK",
           Asking, phase' = "transfer", tid' = r.sport, blk' = 1,
           UNCHANGED <<job, attempt, got>>, UNCHANGED <<net, back>>,
           UNCHANGED vars, UNCHANGED history
    PROVE  Live'
<1>1. /\ UNCHANGED <<bootState, block_expected, one_tftp_lock, image_address,
                     address_to_store, ram, file_length_to_client, SERVER_port, silence>>
      /\ UNCHANGED <<published, stored, restarted>>
      /\ (Serving' <=> Serving) /\ (Intact' <=> Intact) /\ (Rest' <=> Rest)
      /\ \A j : Placed(j)' <=> Placed(j)
  BY StillServer
<1>2. /\ IsPut(job) /\ ~IsGet(job) /\ phase = "request" /\ r.port[1] = job
      /\ Putting' /\ ~Asking' /\ MyPort' = MyPort /\ Tries' = Tries
  BY PutOrGet DEF Asking, MyPort, Putting, Tries
<1>3. AckTrue(r) /\ AnswerAhead(r) /\ r.sport <= SERVER_port
  BY DEF Live, AnswerOK
<1>4. /\ SERVER_port \in Nat /\ r.sport \in Nat /\ Tries \in Nat
      /\ address_to_store.off \in Nat
  BY TriesBound DEF ServerInv, TypeOK, ClientTypeOK, Answer
<1>5. ASSUME NEW p \in net' PROVE PacketOK(p)'
  <2>1. PacketOK(p)
    BY <1>5 DEF Live
  <2>2. PacketShape(p)'
    BY <1>1, <2>1 DEF PacketOK, PacketShape, Sent
  <2>3. p.op = "DATA" => DataPort(p)'
    BY <1>1, <1>2, <1>3, <1>5, <2>1 DEF PacketOK, DataPort, AnswerAhead
  <2>4. p.op = "DATA" => DataServed(p)'
    BY <1>1, <2>1 DEF PacketOK, DataServed
  <2> QED BY <2>2, <2>3, <2>4 DEF PacketOK
<1>6. ASSUME NEW s \in back' PROVE AnswerOK(s)'
  <2>1. AnswerOK(s)
    BY <1>6 DEF Live
  <2>2. AnswerAhead(s)' /\ Sent(s.port)'
    BY <1>2, <2>1 DEF AnswerOK, AnswerAhead, Sent
  <2>3. s.op = "ACK" => AckTrue(s)'
    BY <1>1, <1>2, <2>1 DEF AnswerOK, AckTrue
  <2>4. DataTrue(s)'
    BY <1>2 DEF DataTrue
  <2> QED BY <1>1, <2>1, <2>2, <2>3, <2>4 DEF AnswerOK
<1>7. PortsOK'
  BY <1>1, <1>2, <1>3, <1>4 DEF Live, PortsOK
<1>8. PuttingOK'
  BY <1>1, <1>2, <1>3, <1>4 DEF AckTrue, PuttingOK
<1>9. StoringOK' /\ ImageOK'
  BY <1>1 DEF Live, StoringOK, ImageOK
<1>10. SilenceOK'
  BY <1>1 DEF Live, SilenceOK
<1>11. GettingOK'
  BY <1>2 DEF GettingOK
<1> QED BY <1>5, <1>6, <1>7, <1>8, <1>9, <1>10, <1>11 DEF Live

\* An ACK in mid-transfer: the block it names is stored.
LEMMA AdvanceLive ==
    ASSUME ServerInv, ClientTypeOK, Live, NEW r \in back, r.port = MyPort, r.op = "ACK",
           Putting, r.sport = tid, r.block = blk, blk' = blk + 1,
           UNCHANGED <<job, attempt, phase, tid, got>>, UNCHANGED <<net, back>>,
           UNCHANGED vars, UNCHANGED history
    PROVE  Live'
<1>1. /\ UNCHANGED <<bootState, block_expected, one_tftp_lock, image_address,
                     address_to_store, ram, file_length_to_client, SERVER_port, silence>>
      /\ UNCHANGED <<published, stored, restarted>>
      /\ (Serving' <=> Serving) /\ (Intact' <=> Intact) /\ (Rest' <=> Rest)
      /\ \A j : Placed(j)' <=> Placed(j)
  BY StillServer
<1>2. /\ IsPut(job) /\ ~IsGet(job) /\ r.port[1] = job
      /\ Putting' = Putting /\ Asking' = Asking /\ MyPort' = MyPort /\ Tries' = Tries
  BY PutOrGet DEF Asking, MyPort, Putting, Tries
<1>3. AckTrue(r)
  BY DEF Live, AnswerOK
<1>4. blk \in Nat /\ address_to_store.off \in Nat
  BY ConstantsAssumption DEF ServerInv, TypeOK, ClientTypeOK, BlockNo
<1>5. ASSUME NEW p \in net' PROVE PacketOK(p)'
  <2>1. PacketOK(p)
    BY <1>5 DEF Live
  <2> QED BY <1>1, <1>2, <2>1 DEF PacketOK, PacketShape, Sent, DataPort, DataServed
<1>6. ASSUME NEW s \in back' PROVE AnswerOK(s)'
  <2>1. AnswerOK(s)
    BY <1>6 DEF Live
  <2>2. AnswerAhead(s)' /\ Sent(s.port)'
    BY <1>2, <2>1 DEF AnswerOK, AnswerAhead, Sent
  <2>3. s.op = "ACK" => AckTrue(s)'
    BY <1>1, <1>2, <2>1 DEF AnswerOK, AckTrue
  <2>4. DataTrue(s)'
    BY <1>2 DEF DataTrue
  <2> QED BY <1>1, <2>1, <2>2, <2>3, <2>4 DEF AnswerOK
<1>7. PortsOK'
  BY <1>1, <1>2 DEF Live, PortsOK
<1>8. PuttingOK'
  <2>1. tid = SERVER_port => blk + 1 <= address_to_store.off + 1
    BY <1>2, <1>3, <1>4 DEF AckTrue
  <2> QED BY <1>1, <1>2, <2>1 DEF Live, PuttingOK
<1>9. StoringOK' /\ ImageOK'
  BY <1>1 DEF Live, StoringOK, ImageOK
<1>10. SilenceOK'
  BY <1>1, <1>2 DEF Live, SilenceOK
<1>11. GettingOK'
  BY <1>2 DEF GettingOK
<1> QED BY <1>5, <1>6, <1>7, <1>8, <1>9, <1>10, <1>11 DEF Live

\* DATA for a get: the next block of the published image.
LEMMA GetDataLive ==
    ASSUME ServerInv, ClientTypeOK, Live, NEW r \in back, r.port = MyPort, GetData(r),
           UNCHANGED <<net, back>>, UNCHANGED vars, UNCHANGED history
    PROVE  Live'
<1>1. /\ UNCHANGED <<bootState, block_expected, one_tftp_lock, image_address,
                     address_to_store, ram, file_length_to_client, SERVER_port, silence>>
      /\ UNCHANGED <<published, stored, restarted>>
      /\ (Serving' <=> Serving) /\ (Intact' <=> Intact) /\ (Rest' <=> Rest)
      /\ \A j : Placed(j)' <=> Placed(j)
  BY StillServer
<1>2. /\ IsGet(job) /\ ~IsPut(job) /\ r.port[1] = job /\ r.op = "DATA"
      /\ r.block = blk + 1 /\ phase' # "request"
      /\ phase' = "dally" => ~r.full
      /\ blk' = blk + 1 /\ got' = Append(got, r.chunk)
      /\ UNCHANGED <<job, attempt>>
  BY PutOrGet DEF GetData, MyPort
<1>3. MyPort' = MyPort /\ Tries' = Tries /\ ~Putting /\ ~Putting' /\ ~Asking /\ ~Asking'
  BY <1>2 DEF Asking, MyPort, Putting, Tries
<1>4. DataTrue(r)
  BY <1>2 DEF Live, AnswerOK
<1>5. ASSUME NEW p \in net' PROVE PacketOK(p)'
  <2>1. PacketOK(p)
    BY <1>5 DEF Live
  <2>2. p.op = "DATA" => p.port # MyPort
    BY <1>2, <2>1 DEF PacketOK, PacketShape, MyPort
  <2> QED BY <1>1, <1>2, <1>3, <2>1, <2>2
          DEF PacketOK, PacketShape, Sent, DataPort, DataServed
<1>6. ASSUME NEW s \in back' PROVE AnswerOK(s)'
  <2>1. AnswerOK(s)
    BY <1>6 DEF Live
  <2> QED BY <1>1, <1>2, <1>3, <2>1 DEF AnswerOK, AnswerAhead, Sent, AckTrue, DataTrue
<1>7. PortsOK' /\ PuttingOK'
  BY <1>1, <1>2, <1>3 DEF Live, PortsOK, PuttingOK
<1>8. StoringOK' /\ ImageOK'
  BY <1>1, <1>2 DEF Live, StoringOK, ImageOK
<1>9. SilenceOK'
  BY <1>1, <1>3 DEF Live, SilenceOK
<1>10. GettingOK'
  <2>1. SUFFICES ASSUME published # 0 PROVE GettingOK'
    BY <1>1 DEF GettingOK
  <2>2. /\ Len(got) = blk /\ blk <= BlocksOf(published) + 1
        /\ \A i \in 1 .. Len(got) : got[i] = <<published, i>>
    BY <1>2, <2>1 DEF Live, GettingOK
  <2>3. blk \in Nat /\ got \in Seq(Chunk \cup {Junk}) /\ BlocksOf(published) \in Nat
    BY BlocksType, ConstantsAssumption DEF ClientTypeOK, BlockNo
  <2>4. /\ blk + 1 <= BlocksOf(published) + 1
        /\ r.chunk = <<published, blk + 1>>
        /\ r.full <=> blk + 1 <= BlocksOf(published)
    BY <1>2, <1>4, <2>1, <2>3 DEF DataTrue
  <2>5. Len(got') = blk + 1 /\ \A i \in 1 .. Len(got') : got'[i] = <<published, i>>
    <3> DEFINE R == Chunk \cup {Junk}
    <3>1. r.chunk \in R /\ got \in Seq(R)
      BY <1>2, <2>3 DEF ClientTypeOK, Answer
    <3> HIDE DEF R
    <3>2. Len(got') = blk + 1 /\ got'[blk + 1] = r.chunk
      BY <1>2, <2>2, <2>3, <3>1
    <3>3. \A i \in 1 .. blk : got'[i] = got[i]
      BY <1>2, <2>2, <2>3, <3>1
    <3>4. \A i \in 1 .. blk + 1 : i \in 1 .. blk \/ i = blk + 1
      BY <2>3
    <3> QED BY <2>2, <2>4, <3>2, <3>3, <3>4
  <2>6. phase' = "dally" => blk + 1 = BlocksOf(published) + 1
    BY <1>2, <2>3, <2>4
  <2> QED BY <1>1, <1>2, <2>4, <2>5, <2>6 DEF GettingOK
<1> QED BY <1>5, <1>6, <1>7, <1>8, <1>9, <1>10 DEF Live
(***************************************************************************)
(* The last ACK.  Had the server not completed the upload yet, it could    *)
(* not have acknowledged the short block; so it has, it is at rest, and    *)
(* everything in flight is behind its port.                                *)
(***************************************************************************)
LEMMA FinishedPut ==
    ASSUME ServerInv, ClientTypeOK, Live, NEW r \in back, r.port = MyPort, r.op = "ACK",
           Putting, r.sport = tid, r.block = blk, blk > BlocksOf(job)
    PROVE  tid < SERVER_port /\ job \in stored /\ Rest /\ Placed(job)
<1>1. AckTrue(r) /\ PuttingOK /\ PortsOK /\ r.port[1] = job /\ IsPut(job)
  BY DEF Live, AnswerOK, MyPort, Putting
<1>2. /\ tid \in Nat /\ SERVER_port \in Nat /\ blk \in Nat
      /\ BlocksOf(job) \in Nat /\ address_to_store.off \in Nat
  BY BlocksType, ConstantsAssumption DEF ServerInv, TypeOK, ClientTypeOK, BlockNo
<1>3. tid # SERVER_port
  <2> SUFFICES ASSUME tid = SERVER_port PROVE FALSE
    OBVIOUS
  <2>1. Serving /\ blk <= address_to_store.off
    BY <1>1 DEF AckTrue
  <2>2. address_to_store.off > 0 /\ bootState = "CLIENT_WRQ"
    BY <1>2, <2>1 DEF Serving
  <2>3. address_to_store.off <= BlocksOf(job)
    BY <2>2 DEF Live, StoringOK
  <2> QED BY <1>2, <2>1, <2>3
<1>4. tid < SERVER_port
  BY <1>1, <1>2, <1>3 DEF PortsOK
<1> QED BY <1>1, <1>4 DEF PuttingOK

\* The client goes on to its next job.
LEMMA NextJobLive ==
    ASSUME ServerInv, ClientTypeOK, Live, job \in JobNo, StartJob(job + 1, 1),
           UNCHANGED <<net, back>>, UNCHANGED vars, UNCHANGED history,
           Rest, IsPut(job) => Placed(job), silence = 0 \/ net = {},
           \A p \in net : p.op # "RRQ" /\ p.op # "ACK",
           \A p \in net : p.op = "DATA" => p.dport < SERVER_port /\ p.dport < Tries
    PROVE  Live'
<1>1. /\ UNCHANGED <<bootState, block_expected, one_tftp_lock, image_address,
                     address_to_store, ram, file_length_to_client, SERVER_port, silence>>
      /\ UNCHANGED <<published, stored, restarted>>
      /\ (Serving' <=> Serving) /\ (Intact' <=> Intact) /\ (Rest' <=> Rest)
      /\ \A j : Placed(j)' <=> Placed(j)
  BY StillServer
<1>2. /\ job' = job + 1 /\ attempt' = 1 /\ phase' = "request"
      /\ blk' = 0 /\ got' = <<>>
  BY DEF StartJob
<1>3. job \in Nat /\ job' # job /\ ~Putting'
  BY <1>2 DEF ClientTypeOK, Putting
<1>4. Tries \in Nat /\ Tries' \in Nat /\ Tries' >= Tries + 1
  <2>1. Tries' = ((job + 1) - 1) * MaxAttempts + 1
    BY <1>2 DEF Tries
  <2>2. ((job + 1) - 1) * MaxAttempts \in Nat
    BY <1>3, NetAssumption
  <2> QED BY <2>1, <2>2, TriesBound
<1>5. \A x : Sent(x) => Sent(x)' /\ x # MyPort' /\ x[1] # job'
  BY <1>2, <1>3 DEF Sent, MyPort
<1>6. ASSUME NEW p \in net' PROVE PacketOK(p)'
  <2>1. p \in net /\ PacketOK(p)
    BY <1>6 DEF Live
  <2>2. Sent(p.port)' /\ p.port # MyPort' /\ p.port[1] # job'
    BY <1>5, <2>1 DEF PacketOK, PacketShape
  <2>3. PacketShape(p)'
    BY <1>1, <2>1, <2>2 DEF PacketOK, PacketShape
  <2>4. ASSUME p.op = "DATA" PROVE DataPort(p)' /\ DataServed(p)'
    <3>1. p.dport < SERVER_port /\ p.dport < Tries
      BY <2>1, <2>4
    <3>2. p.dport \in Nat /\ SERVER_port \in Nat
      <4>1. p \in Packet /\ SERVER_port \in Nat
        BY <2>1 DEF ClientTypeOK, ServerInv, TypeOK
      <4>2. p.dport \in DestPort
        BY <2>4, <4>1 DEF Packet
      <4> QED BY <4>1, <4>2, ConstantsAssumption DEF DestPort
    <3>3. DataPort(p)'
      BY <1>1, <1>3, <1>4, <2>2, <3>1, <3>2 DEF DataPort
    <3>4. DataServed(p)'
      BY <1>1, <3>1, <3>2 DEF DataServed
    <3> QED BY <3>3, <3>4
  <2> QED BY <2>3, <2>4 DEF PacketOK
<1>7. ASSUME NEW r \in back' PROVE AnswerOK(r)'
  <2>1. AnswerOK(r)
    BY <1>7 DEF Live
  <2>2. Sent(r.port)' /\ r.port # MyPort' /\ r.port[1] # job'
    BY <1>5, <2>1 DEF AnswerOK
  <2> QED BY <1>1, <2>1, <2>2 DEF AnswerOK, AnswerAhead, AckTrue, DataTrue
<1>8. PortsOK'
  <2>1. SERVER_port <= Tries /\ SERVER_port \in Nat
    BY DEF Live, PortsOK, ServerInv, TypeOK
  <2>2. SERVER_port' = SERVER_port
    BY <1>1
  <2>3. ASSUME NEW s \in Nat, NEW t \in Nat, NEW u \in Nat, s <= t, u >= t + 1
        PROVE  s <= u /\ s <= u - 1
    BY <2>3
  <2>4. SERVER_port' <= Tries' /\ SERVER_port' <= Tries' - 1
    BY <1>4, <2>1, <2>2, <2>3
  <2> QED BY <1>3, <2>4 DEF PortsOK
<1>9. PuttingOK'
  BY <1>3 DEF PuttingOK
<1>10. StoringOK'
  BY <1>1 DEF Live, StoringOK, Rest, ServerInv, TypeOK
<1>11. ImageOK'
  BY <1>1 DEF ImageOK, Rest
<1>12. SilenceOK'
  <2>1. silence = 0 => SilenceOK'
    BY <1>1 DEF SilenceOK
  <2>2. ASSUME net = {} PROVE SilenceOK'
    BY <1>1, <2>2 DEF Live, SilenceOK
  <2> QED BY <2>1, <2>2
<1>13. GettingOK'
  <2>1. BlocksOf(published') \in Nat
    BY BlocksType
  <2> QED BY <1>2, <2>1 DEF GettingOK
<1> QED BY <1>6, <1>7, <1>8, <1>9, <1>10, <1>11, <1>12, <1>13 DEF Live

\* Everything the client receives.
LEMMA ReceiveLive ==
    ASSUME ServerInv, ClientTypeOK, Live, Receive
    PROVE  Live'
<1>1. PICK r \in back : r.port = MyPort /\ (PutAcked(r) \/ GetData(r))
  BY DEF Receive
<1>2. UNCHANGED <<net, back>> /\ UNCHANGED vars /\ UNCHANGED history
  BY DEF Receive
<1>3. CASE GetData(r)
  BY <1>1, <1>2, <1>3, GetDataLive
<1>4. CASE PutAcked(r)
  <2>1. IsPut(job) /\ r.op = "ACK" /\ r.block = blk
    BY <1>4 DEF PutAcked
  <2>2. CASE /\ phase = "request"
             /\ phase' = "transfer" /\ tid' = r.sport /\ blk' = 1
             /\ UNCHANGED <<job, attempt, got>>
    BY <1>1, <1>2, <2>1, <2>2, BeginLive DEF Asking
  <2>3. CASE /\ phase = "transfer" /\ r.sport = tid
             /\ blk' = blk + 1
             /\ UNCHANGED <<job, attempt, phase, tid, got>>
    BY <1>1, <1>2, <2>1, <2>3, AdvanceLive DEF Putting
  <2>4. CASE /\ phase = "transfer" /\ r.sport = tid /\ blk > BlocksOf(job)
             /\ StartJob(job + 1, 1)
    <3>1. Putting
      BY <2>1, <2>4 DEF Putting
    <3>2. tid < SERVER_port /\ Rest /\ Placed(job)
      BY <1>1, <2>1, <2>4, <3>1, FinishedPut
    <3>3. silence = 0
      BY <2>1 DEF Live, SilenceOK, ServerInv, TypeOK
    <3>4. tid \in Nat /\ SERVER_port \in Nat /\ Tries \in Nat /\ tid <= Tries - 1
      BY <3>1, TriesBound DEF ServerInv, TypeOK, ClientTypeOK, Live, PortsOK
    <3>5. ASSUME NEW p \in net, p.op = "DATA"
          PROVE  p.dport < SERVER_port /\ p.dport < Tries
      <4>1. p.dport <= tid
        BY <3>1, <3>5 DEF Live, PacketOK, DataPort
      <4>2. p.dport \in Nat
        BY <3>5, ConstantsAssumption DEF ClientTypeOK, Packet, DestPort
      <4> QED BY <3>2, <3>4, <4>1, <4>2
    <3>6. \A p \in net : p.op # "RRQ" /\ p.op # "ACK"
      BY <2>1, PutOrGet DEF Live, PacketOK, PacketShape
    <3>7. job \in JobNo
      BY <2>1, PutOrGet
    <3> QED BY <1>2, <2>4, <3>2, <3>3, <3>5, <3>6, <3>7, NextJobLive
  <2> QED BY <1>4, <2>2, <2>3, <2>4 DEF PutAcked
<1> QED BY <1>1, <1>3, <1>4

\* Another attempt at the same job: its port is new.
LEMMA GiveUpLive ==
    ASSUME ServerInv, ClientTypeOK, Live, GiveUp
    PROVE  Live'
<1>1. /\ UNCHANGED <<bootState, block_expected, one_tftp_lock, image_address,
                     address_to_store, ram, file_length_to_client, SERVER_port, silence>>
      /\ UNCHANGED <<published, stored, restarted>>
      /\ (Serving' <=> Serving) /\ (Intact' <=> Intact) /\ (Rest' <=> Rest)
      /\ \A j : Placed(j)' <=> Placed(j)
  BY StillServer DEF GiveUp
<1>2. /\ job' = job /\ attempt' = attempt + 1 /\ phase' = "request"
      /\ blk' = 0 /\ got' = <<>> /\ UNCHANGED <<net, back>> /\ phase # "dally"
  BY DEF GiveUp, StartJob
<1>3. ~Putting' /\ Tries \in Nat /\ Tries' = Tries + 1
  <2>1. (job - 1) * MaxAttempts \in Nat /\ attempt \in Nat
    BY NetAssumption DEF ClientTypeOK
  <2> QED BY <1>2, <2>1 DEF Tries, Putting
<1>4. \A x : Sent(x) => Sent(x)' /\ x # MyPort'
  BY <1>2 DEF Sent, MyPort, ClientTypeOK
<1>5. IsPut(job) => Asking'
  BY <1>2 DEF Asking
<1>6. ASSUME NEW p \in net' PROVE PacketOK(p)'
  <2>1. p \in net /\ PacketOK(p)
    BY <1>2, <1>6 DEF Live
  <2>2. PacketShape(p)' /\ p.port # MyPort'
    BY <1>1, <1>2, <1>4, <2>1 DEF PacketOK, PacketShape
  <2>3. ASSUME p.op = "DATA" PROVE DataPort(p)' /\ DataServed(p)'
    <3>1. DataPort(p) /\ DataServed(p) /\ p.dport \in Nat
      BY <2>1, <2>3, ConstantsAssumption DEF PacketOK, ClientTypeOK, Packet, DestPort
    <3>2. p.dport < Tries
      <4>1. CASE p.port = MyPort
        <5>1. Putting
          BY <1>2, <2>1, <2>3, <3>1, <4>1
             DEF PacketOK, PacketShape, MyPort, DataPort, Putting, ClientTypeOK
        <5>2. tid <= Tries - 1 /\ p.dport <= tid /\ tid \in Nat
          BY <3>1, <5>1 DEF Live, PortsOK, DataPort, ClientTypeOK
        <5> QED BY <1>3, <3>1, <5>2
      <4>2. CASE p.port # MyPort
        BY <1>3, <3>1, <4>2 DEF DataPort
      <4> QED BY <4>1, <4>2
    <3>3. DataPort(p)'
      BY <1>1, <1>2, <1>3, <2>2, <3>1, <3>2 DEF DataPort
    <3>4. DataServed(p)'
      BY <1>1, <1>2, <3>1 DEF DataServed
    <3> QED BY <3>3, <3>4
  <2> QED BY <2>2, <2>3 DEF PacketOK
<1>7. ASSUME NEW r \in back' PROVE AnswerOK(r)'
  <2>1. AnswerOK(r)
    BY <1>2, <1>7 DEF Live
  <2>2. Sent(r.port)' /\ r.port # MyPort'
    BY <1>4, <2>1 DEF AnswerOK
  <2> QED BY <1>1, <1>2, <2>1, <2>2 DEF AnswerOK, AnswerAhead, AckTrue, DataTrue
<1>8. PortsOK'
  BY <1>1, <1>2, <1>3 DEF Live, PortsOK, ServerInv, TypeOK
<1>9. PuttingOK'
  BY <1>3 DEF PuttingOK
<1>10. StoringOK' /\ ImageOK'
  BY <1>1, <1>2 DEF Live, StoringOK, ImageOK
<1>11. SilenceOK'
  <2>1. IsGet(job) => ~Asking /\ ~Asking'
    BY <1>2, PutOrGet DEF Asking
  <2>2. IsPut(job) \/ IsGet(job)
    BY PutOrGet DEF GiveUp
  <2> QED BY <1>1, <1>2, <1>5, <2>1, <2>2 DEF Live, SilenceOK
<1>12. GettingOK'
  <2>1. BlocksOf(published') \in Nat
    BY BlocksType
  <2> QED BY <1>2, <2>1 DEF GettingOK
<1> QED BY <1>6, <1>7, <1>8, <1>9, <1>10, <1>11, <1>12 DEF Live

\* A get is over.
LEMMA LeaveGetLive ==
    ASSUME ServerInv, ClientTypeOK, Live, LeaveGet
    PROVE  Live'
<1>1. /\ IsGet(job) /\ net = {} /\ StartJob(job + 1, 1)
      /\ UNCHANGED <<net, back>> /\ UNCHANGED vars /\ UNCHANGED history
  BY DEF LeaveGet
<1>2. job \in JobNo /\ ~IsPut(job)
  BY <1>1, PutOrGet DEF IsGet
<1>3. Rest
  BY <1>2 DEF Live, ImageOK
<1> QED BY <1>1, <1>2, <1>3, NextJobLive
-----------------------------------------------------------------------------
(***************************************************************************)
(* The network empties, the board restarts, the client starts again.       *)
(***************************************************************************)
LEMMA TimePassesLive ==
    ASSUME ServerInv, ClientTypeOK, Live, TimePasses
    PROVE  Live'
<1>1. /\ UNCHANGED <<bootState, block_expected, one_tftp_lock, image_address,
                     address_to_store, ram, file_length_to_client, SERVER_port>>
      /\ UNCHANGED <<job, attempt, phase, tid, blk, got, published, stored>>
      /\ net' = {} /\ back' = {}
  BY DEF TimePasses, Tick, vars, session, image, clientVars, history
<1>2. /\ (Serving' <=> Serving) /\ (Intact' <=> Intact) /\ (Rest' <=> Rest)
      /\ Placed(job)' <=> Placed(job)
      /\ Putting' = Putting /\ Tries' = Tries
  BY <1>1 DEF Serving, Intact, Rest, Placed, Putting, Tries
<1>3. PortsOK' /\ PuttingOK'
  BY <1>1, <1>2 DEF Live, PortsOK, PuttingOK
<1>4. StoringOK' /\ ImageOK'
  BY <1>1, <1>2 DEF Live, StoringOK, ImageOK
<1>5. SilenceOK' /\ GettingOK'
  BY <1>1 DEF Live, SilenceOK, GettingOK
<1> QED BY <1>1, <1>3, <1>4, <1>5 DEF Live

\* A client that starts with a server that has just been started.
LEMMA FreshLive ==
    ASSUME ClientTypeOK', net' = {}, back' = {}, phase' = "request",
           bootState' = "INIT_ARP", SERVER_port' = 0, published' = 0
    PROVE  Live'
<1>1. Tries' \in Nat /\ Tries' >= 1
  <2>1. job' \in Nat /\ job' >= 1 /\ attempt' \in Nat /\ attempt' >= 1
    BY NetAssumption DEF ClientTypeOK
  <2>2. ASSUME NEW j \in Nat, NEW a \in Nat, j >= 1, a >= 1
        PROVE  (j - 1) * MaxAttempts + a \in Nat /\ (j - 1) * MaxAttempts + a >= 1
    <3>1. j - 1 \in Nat /\ MaxAttempts \in Nat
      BY <2>2, NetAssumption
    <3>2. (j - 1) * MaxAttempts \in Nat
      BY <3>1
    <3> QED BY <2>2, <3>2
  <2> QED BY <2>1, <2>2 DEF Tries
<1>2. ~Putting' /\ Intact' /\ Rest'
  BY DEF Putting, Intact, Rest
<1>3. PortsOK'
  <2>1. ASSUME NEW t \in Nat, t >= 1 PROVE 0 <= t /\ 0 <= t - 1
    BY <2>1
  <2>2. SERVER_port' <= Tries' /\ SERVER_port' <= Tries' - 1
    BY <1>1, <2>1
  <2> QED BY <1>2, <2>2 DEF PortsOK
<1>4. PuttingOK' /\ StoringOK' /\ ImageOK'
  BY <1>2 DEF PuttingOK, StoringOK, ImageOK
<1>5. SilenceOK' /\ GettingOK'
  BY DEF SilenceOK, GettingOK
<1> QED BY <1>3, <1>4, <1>5 DEF Live

\* After a restart the client is fresh, or it has to start again.
LEMMA RestartInv ==
    ASSUME ClientTypeOK, DonePuts, Reset \/ Crash
    PROVE  ClientTypeOK' /\ DonePuts' /\ (Orphan' \/ Live')
<1>1. /\ UNCHANGED <<job, attempt, phase, tid, blk, got, stored>>
      /\ net' = {} /\ back' = {} /\ published' = 0 /\ restarted'
      /\ bootState' = "INIT_ARP" /\ ~one_tftp_lock' /\ SERVER_port' = 0
  BY DEF Reset, Crash, Restart, PowerCycle, tftpd_entry, clientVars
<1>2. ClientTypeOK' /\ DonePuts'
  BY <1>1 DEF ClientTypeOK, DonePuts
<1>3. ASSUME phase = "request" PROVE Live'
  <2>1. phase' = "request"
    BY <1>1, <1>3
  <2> QED BY <1>1, <1>2, <2>1, FreshLive
<1>4. ASSUME phase # "request" PROVE Orphan'
  BY <1>1, <1>4 DEF Orphan
<1> QED BY <1>2, <1>3, <1>4

\* The client's own steps keep its types.
LEMMA ClientTypes ==
    ASSUME ClientTypeOK, DonePuts, Orphan \/ Live, ServerInv,
           Send \/ Receive \/ GiveUp \/ LeaveGet \/ TimePasses
    PROVE  ClientTypeOK' /\ DonePuts'
<1>1. CASE Send
  <2>1. net' \subseteq Packet
    BY <1>1, OutgoingType DEF Send, ClientTypeOK
  <2> QED BY <1>1, <2>1 DEF Send, clientVars, history, ClientTypeOK, DonePuts
<1>2. CASE Receive
  <2>1. PICK r \in back : r.port = MyPort /\ (PutAcked(r) \/ GetData(r))
    BY <1>2 DEF Receive
  <2>2. Live /\ UNCHANGED stored
    BY <1>2, <2>1 DEF Orphan, Receive, history
  <2>3. \/ job' = job
        \/ job' = job + 1 /\ (IsPut(job) => job \in stored)
    <3>1. CASE job' # job
      <4>1. /\ IsPut(job) /\ r.op = "ACK" /\ r.block = blk /\ phase = "transfer"
            /\ r.sport = tid /\ blk > BlocksOf(job) /\ job' = job + 1
        BY <2>1, <3>1 DEF PutAcked, GetData, StartJob
      <4>2. job \in stored
        BY <2>1, <2>2, <4>1, FinishedPut DEF Putting
      <4> QED BY <4>1, <4>2
    <3> QED BY <3>1
  <2>4. DonePuts'
    BY <2>2, <2>3 DEF DonePuts, ClientTypeOK
  <2> QED BY <1>2, <2>4, ReceiveTypes
<1>3. CASE GiveUp
  <2>1. /\ StartJob(job, attempt + 1) /\ job \in JobNo /\ attempt < MaxAttempts
        /\ UNCHANGED <<net, back, published, stored>>
    BY <1>3 DEF GiveUp, history
  <2>2. job \in 1 .. Len(Jobs) + 1 /\ attempt + 1 \in 1 .. MaxAttempts
    BY <2>1, NetAssumption DEF ClientTypeOK
  <2>3. DonePuts'
    BY <2>1 DEF DonePuts, StartJob
  <2> QED BY <2>1, <2>2, <2>3, StartTypes
<1>4. CASE LeaveGet
  <2>1. /\ StartJob(job + 1, 1) /\ job \in JobNo /\ ~IsPut(job)
        /\ UNCHANGED <<net, back, published, stored>>
    BY <1>4, PutOrGet DEF LeaveGet, history, IsGet
  <2>2. job + 1 \in 1 .. Len(Jobs) + 1 /\ 1 \in 1 .. MaxAttempts
    <3>1. Len(Jobs) \in Nat
      BY NetAssumption
    <3> QED BY <2>1, <3>1, NetAssumption DEF JobNo
  <2>3. DonePuts'
    BY <2>1 DEF DonePuts, StartJob, ClientTypeOK
  <2> QED BY <2>1, <2>2, <2>3, StartTypes
<1>5. CASE TimePasses
  BY <1>5 DEF TimePasses, clientVars, history, ClientTypeOK, DonePuts
<1> QED BY <1>1, <1>2, <1>3, <1>4, <1>5

\* Until the client starts again, the restarted server hears nothing.
LEMMA OrphanStep ==
    ASSUME ServerInv, ClientTypeOK, ClientTypeOK', Orphan,
           \/ Send \/ Receive \/ GiveUp \/ LeaveGet \/ TimePasses
           \/ \E p \in net : Deliver(p)
    PROVE  (Orphan' \/ Live')
<1>1. CASE Send
  <2>1. \A p \in Outgoing : p.op \in {"DATA", "ACK"}
    BY OutgoingFacts DEF Orphan, Asking
  <2> QED BY <1>1, <2>1 DEF Send, Orphan, vars, session, clientVars, history
<1>2. CASE Receive
  BY <1>2 DEF Receive, Orphan
<1>3. CASE GiveUp \/ LeaveGet
  <2>1. /\ net' = {} /\ back' = {} /\ phase' = "request"
        /\ UNCHANGED vars /\ UNCHANGED history
    BY <1>3 DEF GiveUp, LeaveGet, StartJob, Orphan
  <2>2. bootState' = "INIT_ARP" /\ SERVER_port' = 0 /\ published' = 0
    BY <2>1 DEF Orphan, vars, session, history
  <2> QED BY <2>1, <2>2, FreshLive
<1>4. CASE TimePasses
  BY <1>4 DEF TimePasses, Tick, vars, session, clientVars, history, Orphan
<1>5. ASSUME NEW p \in net, Deliver(p) PROVE Orphan'
  <2>1. BootStateEvent(bootState, p.op) = "drop"
    BY DEF Orphan, BootStateEvent
  <2>2. errorDrop
    BY <1>5, <2>1 DEF Deliver, kick_tftpd
  <2> QED BY <1>5, <2>2 DEF Deliver, errorDrop, Orphan, session, clientVars
<1> QED BY <1>1, <1>2, <1>3, <1>4, <1>5

-----------------------------------------------------------------------------
(***************************************************************************)
(* The invariant holds.                                                    *)
(***************************************************************************)
LEMMA InitNetInv == NetInit => ServerInv /\ NetInv
<1> SUFFICES ASSUME NetInit PROVE ServerInv /\ NetInv
  OBVIOUS
<1>1. Init
  BY DEF NetInit
<1>2. ServerInv
  BY <1>1, InitTypeOK
     DEF ServerInv, Init, LockInv, BusyIsLocked, FreeIsClean, LengthMatchesAddress
<1>3. ClientTypeOK
  <2>1. /\ 1 \in 1 .. Len(Jobs) + 1 /\ 1 \in 1 .. MaxAttempts
        /\ 0 \in 0 .. PortMod - 1 /\ 0 \in BlockNo
    <3>1. Len(Jobs) \in Nat
      BY NetAssumption
    <3> QED BY <3>1, NetAssumption, ConstantsAssumption DEF BlockNo
  <2>2. <<>> \in Seq(Chunk \cup {Junk})
    OBVIOUS
  <2> QED BY <2>1, <2>2 DEF NetInit, ClientTypeOK
<1>4. DonePuts
  BY DEF NetInit, DonePuts
<1>5. Live
  <2>1. Tries \in Nat /\ Tries >= 1
    BY <1>3, TriesBound
  <2>2. ~Putting /\ Intact /\ Rest
    BY <1>1 DEF NetInit, Init, Putting, Intact, Rest
  <2>3. PortsOK /\ PuttingOK /\ StoringOK /\ ImageOK
    BY <1>1, <2>1, <2>2 DEF Init, PortsOK, PuttingOK, StoringOK, ImageOK
  <2>4. SilenceOK /\ GettingOK
    BY DEF NetInit, SilenceOK, GettingOK
  <2> QED BY <2>3, <2>4 DEF Live, NetInit
<1> QED BY <1>2, <1>3, <1>4, <1>5 DEF NetInv

\* Every step keeps it.
LEMMA NextNetInv == ServerInv /\ NetInv /\ [NetNext]_netVars => ServerInv' /\ NetInv'
<1> SUFFICES ASSUME ServerInv, NetInv, [NetNext]_netVars PROVE ServerInv' /\ NetInv'
  OBVIOUS
<1>1. ClientTypeOK /\ DonePuts /\ (Orphan \/ Live)
  BY DEF NetInv
<1>2. ServerInv'
  BY <1>1, NextServerInv
<1>3. ASSUME Send \/ Receive \/ GiveUp \/ LeaveGet \/ TimePasses PROVE NetInv'
  <2>1. ClientTypeOK' /\ DonePuts'
    BY <1>1, <1>3, ClientTypes
  <2>2. CASE Orphan
    BY <1>1, <1>3, <2>1, <2>2, OrphanStep DEF NetInv
  <2>3. CASE Live
    BY <1>1, <1>3, <2>1, <2>3, SendLive, ReceiveLive, GiveUpLive, LeaveGetLive,
       TimePassesLive DEF NetInv
  <2> QED BY <1>1, <2>2, <2>3
<1>4. ASSUME NEW p \in net, Deliver(p) PROVE NetInv'
  <2>1. ClientTypeOK' /\ DonePuts'
    BY <1>1, <1>4, DeliverTypes
  <2>2. CASE Orphan
    BY <1>1, <1>4, <2>1, <2>2, OrphanStep DEF NetInv
  <2>3. CASE Live
    BY <1>1, <1>4, <2>1, <2>3, DeliverLive DEF NetInv
  <2> QED BY <1>1, <2>2, <2>3
<1>5. CASE Reset \/ Crash
  BY <1>1, <1>2, <1>5, RestartInv DEF NetInv
<1>6. CASE UNCHANGED netVars
  <2>1. /\ UNCHANGED <<bootState, block_expected, one_tftp_lock, image_address,
                       address_to_store, ram, file_length_to_client, SERVER_port, silence>>
        /\ UNCHANGED <<net, back, job, attempt, phase, tid, blk, got>>
        /\ UNCHANGED <<published, stored, restarted>>
    BY <1>6 DEF netVars, vars, session, image, clientVars, history
  <2>2. ClientTypeOK' /\ DonePuts'
    BY <1>1, <2>1 DEF ClientTypeOK, DonePuts
  <2>3. Orphan => Orphan'
    BY <2>1 DEF Orphan
  <2>4. ASSUME Live PROVE Live'
    <3> QED BY <2>1, <2>4
        DEF Live, PacketOK, PacketShape, DataPort, DataServed, Sent, MyPort, Tries,
            Putting, Asking, Serving, Placed, AnswerOK, AnswerAhead, AckTrue, DataTrue,
            Rest, Intact, PortsOK, PuttingOK, StoringOK, ImageOK, SilenceOK, GettingOK
  <2> QED BY <1>1, <1>2, <2>2, <2>3, <2>4 DEF NetInv
<1> QED BY <1>2, <1>3, <1>4, <1>5, <1>6 DEF NetNext
\* The invariant of server, network and client.
THEOREM NetInvariant == NetSpec => [](ServerInv /\ NetInv)
<1>1. NetInit => ServerInv /\ NetInv
  BY InitNetInv
<1>2. ServerInv /\ NetInv /\ [NetNext]_netVars => (ServerInv /\ NetInv)'
  BY NextNetInv
<1> QED BY <1>1, <1>2, PTL DEF NetSpec

(***************************************************************************)
(* The server inside the network is TftpServer: every behaviour of TftpNet *)
(* is one of its.                                                          *)
(***************************************************************************)
THEOREM ServerInNetwork == NetSpec => Spec
<1>1. NetInit => Init
  BY DEF NetInit
<1>2. NetInv /\ [NetNext]_netVars => [Next]_vars
  BY NetStep DEF NetInv
<1> QED BY <1>1, <1>2, NetInvariant, PTL DEF NetSpec, Spec

(***************************************************************************)
(* What an upload has stored is the beginning of one image.                *)
(***************************************************************************)
THEOREM UploadsIntact == NetSpec => []UploadIntegrity
<1>1. ServerInv /\ NetInv => UploadIntegrity
  <2> SUFFICES ASSUME ServerInv, NetInv, bootState = "CLIENT_WRQ"
               PROVE  \E j \in {job} \cup stored : \A i \in 1 .. address_to_store.off :
                         ram[address_to_store.base][i] = <<j, i>>
    BY DEF UploadIntegrity
  <2>1. StoringOK
    BY DEF NetInv, Orphan, Live
  <2>2. \A i \in 1 .. address_to_store.off : ram[address_to_store.base][i] = <<job, i>>
    <3>1. address_to_store.off \in Nat
      BY DEF ServerInv, TypeOK
    <3>2. CASE address_to_store.off = 0
      BY <3>2
    <3>3. CASE address_to_store.off > 0
      BY <2>1, <3>3 DEF StoringOK
    <3> QED BY <3>1, <3>2, <3>3
  <2> QED BY <2>2
<1> QED BY <1>1, NetInvariant, PTL

(***************************************************************************)
(* While the server is free, downloads and checkAutoFlashing see the whole *)
(* of the last completed image.                                            *)
(***************************************************************************)
THEOREM PublishedIsWhole == NetSpec => []PublishedImage
<1>1. NetInv => PublishedImage
  BY DEF NetInv, Orphan, Live, ImageOK, Intact, PublishedImage
<1> QED BY <1>1, NetInvariant, PTL

(***************************************************************************)
(* What the client was told is stored is stored.                           *)
(***************************************************************************)
THEOREM AcksAreTrue == NetSpec => []AckedIsStored
<1>1. ServerInv /\ NetInv => AckedIsStored
  <2> SUFFICES ASSUME ServerInv, NetInv PROVE AckedIsStored
    OBVIOUS
  <2>1. \A j \in 1 .. job - 1 : IsPut(j) => j \in stored
    BY DEF NetInv, DonePuts
  <2>2. ASSUME IsPut(job), phase = "transfer", bootState = "CLIENT_WRQ", tid = SERVER_port
        PROVE  address_to_store.off + 1 >= blk
    <3>1. PuttingOK
      BY <2>2 DEF NetInv, Orphan, Live
    <3>2. blk \in Nat /\ address_to_store.off \in Nat
      BY ConstantsAssumption DEF NetInv, ClientTypeOK, BlockNo, ServerInv, TypeOK
    <3> QED BY <2>2, <3>1, <3>2 DEF PuttingOK, Putting
  <2> QED BY <2>1, <2>2 DEF AckedIsStored
<1> QED BY <1>1, NetInvariant, PTL

(***************************************************************************)
(* A get receives, in order, the image published when it was begun.        *)
(***************************************************************************)
THEOREM DownloadsIntact == NetSpec => []DownloadIntegrity
<1>1. NetInv => DownloadIntegrity
  BY DEF NetInv, Orphan, Live, GettingOK, DownloadIntegrity
<1> QED BY <1>1, NetInvariant, PTL

(***************************************************************************)
(* No packet rewinds an upload that has stored data, before the timeout.   *)
(***************************************************************************)
THEOREM UploadsNeverRewind == NetSpec => NoSilentRestart
<1> DEFINE Step == bootState = "CLIENT_WRQ" /\ bootState' = "CLIENT_WRQ" =>
                      \/ address_to_store'.off >= address_to_store.off
                      \/ silence > WrqTimeout
<1>1. ServerInv /\ NetInv /\ [NetNext]_netVars => [Step]_netVars
  <2> SUFFICES ASSUME ServerInv, NetInv, NetNext,
                      bootState = "CLIENT_WRQ", bootState' = "CLIENT_WRQ"
               PROVE  \/ address_to_store'.off >= address_to_store.off
                      \/ silence > WrqTimeout
    OBVIOUS
  <2>1. Live /\ ClientTypeOK
    BY DEF NetInv, Orphan
  <2>2. address_to_store.off \in Nat /\ one_tftp_lock
    BY DEF ServerInv, TypeOK, LockInv, BusyIsLocked
  <2>3. CASE UNCHANGED address_to_store
    BY <2>2, <2>3
  <2>4. CASE Send \/ Receive \/ GiveUp \/ LeaveGet \/ TimePasses
    BY <2>3, <2>4 DEF Send, Receive, GiveUp, LeaveGet, TimePasses, Tick, vars, image
  <2>5. ASSUME NEW p \in net, Deliver(p)
        PROVE  \/ address_to_store'.off >= address_to_store.off
               \/ silence > WrqTimeout
    <3>1. Ignored \/ Downloads(p) \/ Repeated(p) => UNCHANGED address_to_store
      BY DEF Ignored, Downloads, Repeated, image
    <3>2. CASE Opened(p)
      <4>1. CASE block_expected = 1
        <5>1. address_to_store.off = 0
          BY <2>1, <2>2, <4>1 DEF Live, StoringOK, Serving
        <5> QED BY <3>2, <5>1 DEF Opened
      <4> QED BY <2>2, <3>2, <4>1 DEF Opened
    <3>3. CASE Continued(p)
      <4>1. address_to_store'.off = address_to_store.off + 1
        BY <3>3 DEF Continued, ServerInv, TypeOK
      <4> QED BY <2>2, <4>1
    <3>4. ~Completed(p)
      BY DEF Completed
    <3> QED BY <2>1, <2>3, <2>5, <3>1, <3>2, <3>3, <3>4, DeliverCases
  <2>6. CASE Reset \/ Crash
    BY <2>6 DEF Reset, Crash, Restart, PowerCycle, tftpd_entry
  <2> QED BY <2>4, <2>5, <2>6 DEF NetNext
<1> QED BY <1>1, NetInvariant, PTL DEF NetSpec, NoSilentRestart
-----------------------------------------------------------------------------
(***************************************************************************)
(* Downloads stay inside the file.  A stale WRQ can turn a get's download  *)
(* into an upload that waits for block 1; the get's ACKs then make the     *)
(* server send blocks of what is published.  A stale WRQ is an earlier     *)
(* put's, and the server has moved on from that put's port, hence has      *)
(* published something; an image of a block at least has a block 2 to send *)
(* when ACK 1 arrives.                                                     *)
(***************************************************************************)
LongEnough == \A j \in JobNo : IsPut(j) => BlocksOf(j) > 0

SendsInside ==
    /\ control # "wild"
    /\ bootState = "CLIENT_RRQ" => WithinFile
    /\ bootState = "CLIENT_WRQ" /\ address_to_store.off = 0 => block_expected = 1 \/ WithinFile

StaleIsPublished ==
    /\ SERVER_port > 0 => published # 0
    /\ IsGet(job) /\ bootState = "CLIENT_WRQ" => SERVER_port > 0
    /\ \A p \in net : p.op = "WRQ" /\ p.port[1] # job => SERVER_port > 0

ReadInv == SendsInside /\ StaleIsPublished

\* A get's packet finds the server expecting a block of the file.
LEMMA GetFindsFile ==
    ASSUME ServerInv, ClientTypeOK, Live, LongEnough, ReadInv,
           IsGet(job), bootState # "INIT_ARP"
    PROVE  WithinFile
<1>1. CASE bootState = "CLIENT_RRQ"
  BY <1>1 DEF ReadInv, SendsInside
<1>2. CASE bootState = "CLIENT_WRQ"
  <2>1. published # 0 /\ IsPut(published)
    BY <1>2 DEF ReadInv, StaleIsPublished, ClientTypeOK
  <2>2. Rest
    BY PutOrGet DEF Live, ImageOK
  <2>3. file_length_to_client = BlocksOf(published) /\ address_to_store.off = 0
    BY <1>2, <2>1, <2>2 DEF Rest, Intact
  <2>4. BlocksOf(published) \in Nat /\ BlocksOf(published) > 0
    BY <2>1, BlocksType, PutOrGet DEF LongEnough
  <2>5. CASE block_expected = 1
    <3>1. LastBlock \in Nat /\ LastBlock >= 2
      BY <2>3, <2>4 DEF LastBlock
    <3> QED BY <2>5, <3>1 DEF WithinFile
  <2> QED BY <1>2, <2>3, <2>5 DEF ReadInv, SendsInside
<1> QED BY <1>1, <1>2 DEF ServerInv, TypeOK, BootState

\* Whatever is delivered.
LEMMA DeliverReads ==
    ASSUME ServerInv, ClientTypeOK, Live, LongEnough, ReadInv, NEW p \in net, Deliver(p)
    PROVE  ReadInv'
<1>1. Kept
  BY DeliverCases
<1>2. UNCHANGED <<net, job>>
  BY <1>1 DEF Kept, clientVars
<1>3. PacketShape(p)
  BY DEF Live, PacketOK
<1>4. SERVER_port \in Nat /\ address_to_store.off \in Nat
  BY DEF ServerInv, TypeOK
<1>5. ASSUME Ignored, SameHistory PROVE ReadInv'
  <2>1. UNCHANGED <<control, block_expected, it_is_EOF, address_to_store,
                    file_length_to_client, published, SERVER_port>>
    BY <1>5 DEF Ignored, image, SameHistory
  <2>2. bootState' = bootState \/ bootState' = "INIT_ARP"
    BY <1>5 DEF Ignored
  <2>3. SendsInside'
    BY <2>1, <2>2 DEF ReadInv, SendsInside, WithinFile, LastBlock
  <2>4. StaleIsPublished'
    BY <1>2, <2>1, <2>2 DEF ReadInv, StaleIsPublished, IsGet
  <2> QED BY <2>3, <2>4 DEF ReadInv
<1>6. ASSUME Opened(p), SameHistory PROVE ReadInv'
  <2>1. SendsInside'
    BY <1>6 DEF Opened, ReadInv, SendsInside
  <2>2. IsGet(job) => p.op = "WRQ" /\ p.port[1] # job
    BY <1>3, <1>6, PutOrGet DEF Opened, PacketShape
  <2>3. StaleIsPublished'
    BY <1>2, <1>6, <2>2 DEF SameHistory, ReadInv, StaleIsPublished, IsGet
  <2> QED BY <2>1, <2>3 DEF ReadInv
<1>7. ASSUME Downloads(p), SameHistory PROVE ReadInv'
  <2>1. IsGet(job)
    BY <1>3, <1>7 DEF Downloads, PacketShape
  <2>2. p.op = "RRQ" \/ WithinFile
    BY <1>7, <2>1, GetFindsFile DEF Downloads
  <2>3. control' = control /\ (bootState' = "INIT_ARP" \/ WithinFile')
    BY <1>7, <2>2 DEF Downloads
  <2>4. SendsInside'
    BY <2>3 DEF ReadInv, SendsInside
  <2>5. bootState' = "CLIENT_WRQ" => bootState = "CLIENT_WRQ"
    BY <1>7 DEF Downloads
  <2>6. StaleIsPublished'
    BY <1>2, <1>7, <2>5 DEF SameHistory, ReadInv, StaleIsPublished, IsGet
  <2> QED BY <2>4, <2>6 DEF ReadInv
<1>8. ASSUME Repeated(p), SameHistory PROVE ReadInv'
  <2>1. UNCHANGED <<control, bootState, block_expected, it_is_EOF, address_to_store,
                    file_length_to_client, published, SERVER_port>>
    BY <1>8 DEF Repeated, session, image, SameHistory
  <2> QED BY <1>2, <2>1
      DEF ReadInv, SendsInside, StaleIsPublished, WithinFile, LastBlock, IsGet
<1>9. ASSUME Continued(p), SameHistory PROVE ReadInv'
  <2>1. IsPut(job) /\ bootState = "CLIENT_WRQ"
    BY <1>9 DEF Continued, StoreHere, Current, Serving
  <2>2. /\ bootState' = bootState /\ control' = control
        /\ address_to_store'.off = address_to_store.off + 1
    BY <1>9 DEF Continued, ServerInv, TypeOK
  <2>3. address_to_store'.off # 0
    BY <1>4, <2>2
  <2>4. SendsInside'
    BY <2>1, <2>2, <2>3 DEF ReadInv, SendsInside
  <2>5. ~IsGet(job)'
    BY <1>2, <2>1, PutOrGet DEF IsGet
  <2>6. StaleIsPublished'
    BY <1>2, <1>9, <2>5 DEF SameHistory, ReadInv, StaleIsPublished
  <2> QED BY <2>4, <2>6 DEF ReadInv
<1>10. ASSUME Completed(p), published' = job PROVE ReadInv'
  <2>1. bootState' = "INIT_ARP" /\ control' # "wild" /\ SERVER_port' > 0
    BY <1>4, <1>10 DEF Completed
  <2>2. published' # 0
    <3>1. job \in JobNo
      BY <1>10, PutOrGet DEF Completed, StoreHere, Current
    <3> QED BY <1>10, <3>1 DEF JobNo
  <2> QED BY <2>1, <2>2 DEF ReadInv, SendsInside, StaleIsPublished
<1> QED BY <1>5, <1>6, <1>7, <1>8, <1>9, <1>10, DeliverCases

\* The steps that leave the server alone, except for its clock.
LEMMA ClientReads ==
    ASSUME ServerInv, NetInv, ReadInv,
           Send \/ Receive \/ GiveUp \/ LeaveGet \/ TimePasses
    PROVE  ReadInv'
<1>1. UNCHANGED <<control, bootState, block_expected, it_is_EOF, address_to_store,
                  file_length_to_client, published, SERVER_port>>
  BY DEF Send, Receive, GiveUp, LeaveGet, TimePasses, Tick, vars, session, image, history
<1>2. SendsInside'
  BY <1>1 DEF ReadInv, SendsInside, WithinFile, LastBlock
<1>3. SERVER_port > 0 => published # 0
  BY DEF ReadInv, StaleIsPublished
<1>4. CASE SERVER_port > 0
  BY <1>1, <1>2, <1>3, <1>4 DEF ReadInv, StaleIsPublished
<1>5. CASE ~(SERVER_port > 0)
  <2>1. job' = job \/ (IsGet(job) /\ net' = {})
    <3>1. CASE Send \/ GiveUp \/ TimePasses
      BY <3>1 DEF Send, GiveUp, TimePasses, StartJob, clientVars
    <3>2. CASE LeaveGet
      BY <3>2 DEF LeaveGet
    <3>3. CASE Receive
      <4>1. PICK r \in back : r.port = MyPort /\ (PutAcked(r) \/ GetData(r))
        BY <3>3 DEF Receive
      <4>2. CASE job' = job
        BY <4>2
      <4>3. CASE job' # job
        <5>1. /\ IsPut(job) /\ r.op = "ACK" /\ r.block = blk
              /\ phase = "transfer" /\ r.sport = tid /\ blk > BlocksOf(job)
          BY <4>1, <4>3 DEF PutAcked, GetData
        <5>2. Live /\ ClientTypeOK /\ tid \in Nat
          BY <4>1 DEF NetInv, Orphan, ClientTypeOK
        <5>3. tid < SERVER_port
          BY <4>1, <5>1, <5>2, FinishedPut DEF Putting
        <5> QED BY <1>5, <5>2, <5>3 DEF ServerInv, TypeOK
      <4> QED BY <4>2, <4>3
    <3> QED BY <3>1, <3>2, <3>3
  <2>2. bootState' = "CLIENT_WRQ" => ~IsGet(job)
    BY <1>1, <1>5 DEF ReadInv, StaleIsPublished
  <2>3. \A p \in net' : p \in net \/ p.port[1] = job
    <3>1. CASE Send
      BY <3>1, OutgoingFacts DEF Send, NetInv, MyPort
    <3>2. CASE Receive \/ GiveUp \/ LeaveGet \/ TimePasses
      BY <3>2 DEF Receive, GiveUp, LeaveGet, TimePasses
    <3> QED BY <3>1, <3>2
  <2>4. CASE job' = job
    BY <1>1, <1>2, <1>3, <1>5, <2>2, <2>3, <2>4 DEF ReadInv, StaleIsPublished, IsGet
  <2>5. CASE IsGet(job) /\ net' = {}
    BY <1>1, <1>2, <1>3, <1>5, <2>2, <2>5 DEF ReadInv, StaleIsPublished
  <2> QED BY <2>1, <2>4, <2>5
<1> QED BY <1>4, <1>5

\* Every step keeps it.
LEMMA NextReads ==
    ASSUME ServerInv, NetInv, LongEnough, ReadInv, [NetNext]_netVars
    PROVE  ReadInv'
<1>1. CASE Send \/ Receive \/ GiveUp \/ LeaveGet \/ TimePasses
  BY <1>1, ClientReads
<1>2. ASSUME NEW p \in net, Deliver(p) PROVE ReadInv'
  <2>1. CASE Live
    BY <1>2, <2>1, DeliverReads DEF NetInv
  <2>2. CASE Orphan
    <3>1. errorDrop
      BY <1>2, <2>2 DEF Orphan, BootStateEvent, Deliver, kick_tftpd
    <3>2. /\ UNCHANGED <<control, bootState, block_expected, it_is_EOF, address_to_store,
                         file_length_to_client, SERVER_port>>
          /\ UNCHANGED <<published, job, net>>
      BY <1>2, <3>1 DEF Deliver, errorDrop, session, image, clientVars
    <3> QED BY <3>2
        DEF ReadInv, SendsInside, StaleIsPublished, WithinFile, LastBlock, IsGet
  <2> QED BY <2>1, <2>2 DEF NetInv
<1>3. CASE Reset \/ Crash
  <2>1. bootState' = "INIT_ARP" /\ SERVER_port' = 0 /\ control' = "serving" /\ net' = {}
    BY <1>3 DEF Reset, Crash, Restart, PowerCycle, tftpd_entry
  <2> QED BY <2>1 DEF ReadInv, SendsInside, StaleIsPublished
<1>4. CASE UNCHANGED netVars
  <2>1. /\ UNCHANGED <<control, bootState, block_expected, it_is_EOF, address_to_store,
                       file_length_to_client, SERVER_port>>
        /\ UNCHANGED <<published, job, net>>
    BY <1>4 DEF netVars, vars, session, image, clientVars, history
  <2> QED BY <2>1
      DEF ReadInv, SendsInside, StaleIsPublished, WithinFile, LastBlock, IsGet
<1> QED BY <1>1, <1>2, <1>3, <1>4 DEF NetNext

(***************************************************************************)
(* With images of a block at least, the honest client never makes          *)
(* tftpd_send_data read behind the end of the file.                        *)
(***************************************************************************)
THEOREM ReadsStayInside == NetSpec => []ReadsInsideFile
<1>1. CASE LongEnough
  <2>1. NetInit => ReadInv
    BY DEF NetInit, Init, ReadInv, SendsInside, StaleIsPublished
  <2>2. ServerInv /\ NetInv /\ ReadInv /\ [NetNext]_netVars => ReadInv'
    BY <1>1, NextReads
  <2>3. ReadInv => ReadsInsideFile
    BY DEF ReadInv, SendsInside, ReadsInsideFile
  <2> QED BY <2>1, <2>2, <2>3, NetInvariant, PTL DEF NetSpec
<1>2. CASE ~LongEnough
  <2>1. ReadsInsideFile
    BY <1>2 DEF LongEnough, ReadsInsideFile
  <2> QED BY <2>1, PTL
<1> QED BY <1>1, <1>2
-----------------------------------------------------------------------------
(***************************************************************************)
(* Server and client in step.  As long as a put is in its first attempt    *)
(* every DATA of it in flight carries a block the client has reached, so   *)
(* that the server stores no block the client is not waiting to have       *)
(* acknowledged; PuttingOK says it stores no fewer either, and what it     *)
(* answers is the one or the other end of that interval, the client's blk. *)
(* The invariant holds before and after a restart alike.                   *)
(***************************************************************************)
OwnPackets ==
    \A p \in net :
        /\ p.host = Pc
        /\ p.port = <<p.port[1], p.port[2]>>
        /\ p.op = "DATA" /\ p.port = MyPort => p.block <= blk

InStep ==
    IsPut(job) /\ attempt = 1 /\ bootState = "CLIENT_WRQ" =>
        /\ phase = "request" => address_to_store.off = 0
        /\ phase = "transfer" /\ tid = SERVER_port => address_to_store.off <= blk

StepInv ==
    /\ bootState # "INIT_ARP" => client = Pc
    /\ OwnPackets
    /\ InStep

\* The server memorises the host of whoever it serves.
LEMMA ClientIsPc ==
    ASSUME bootState \in BootState, bootState # "INIT_ARP" => client = Pc,
           NEW p \in Packet, p.host = Pc, kick_tftpd(p)
    PROVE  bootState' # "INIT_ARP" => client' = Pc
<1>1. CASE setTFTP_RRQ(p)
  BY <1>1 DEF setTFTP_RRQ, errorDrop, session, peer
<1>2. CASE setTFTP_WRQ(p)
  BY <1>2 DEF setTFTP_WRQ, errorDrop, session, peer
<1>3. CASE BootStateEvent(bootState, p.op) = "DATA" /\ prepareACK(p)
  BY <1>3, HandlerOfEvent DEF prepareACK, errorDrop, peer
<1>4. CASE BootStateEvent(bootState, p.op) = "ACK" /\ prepareDATA(p)
  BY <1>4, HandlerOfEvent DEF prepareDATA, errorDrop, peer
<1>5. CASE errorTFTP
  BY <1>5 DEF errorTFTP
<1>6. CASE errorDrop
  BY <1>6 DEF errorDrop, session, peer
<1> QED BY <1>1, <1>2, <1>3, <1>4, <1>5, <1>6 DEF kick_tftpd

\* The network only carries what the client has sent.
LEMMA PacketsAreOwn ==
    ASSUME ClientTypeOK, ClientTypeOK', Orphan \/ Live, StepInv, [NetNext]_netVars
    PROVE  OwnPackets'
<1>1. OwnPackets
  BY DEF StepInv
<1>2. blk \in Nat /\ blk' \in Nat /\ \A p \in net : p.op = "DATA" => p.block \in Nat
  BY DEF ClientTypeOK, BlockNo, Packet
<1>3. ASSUME net' = {} PROVE OwnPackets'
  BY <1>3 DEF OwnPackets
<1>4. ASSUME net' = net, MyPort' = MyPort, blk' = blk PROVE OwnPackets'
  BY <1>1, <1>4 DEF OwnPackets
<1>5. CASE Send
  <2>1. \A p \in Outgoing : p.port = MyPort /\ p.host = Pc /\ (p.op = "DATA" => p.block = blk)
    BY OutgoingFacts DEF Outgoing, Request
  <2>2. MyPort' = MyPort /\ blk' = blk /\ net' = net \cup Outgoing
    BY <1>5 DEF Send, clientVars, MyPort
  <2> QED BY <1>1, <1>2, <2>1, <2>2 DEF OwnPackets, MyPort
<1>6. ASSUME Live, net' = net, job' > job \/ (job' = job /\ attempt' > attempt)
      PROVE  OwnPackets'
  <2>1. \A p \in net : Sent(p.port)
    BY <1>6 DEF Live, PacketOK, PacketShape
  <2>2. job \in Nat /\ attempt \in Nat /\ job' \in Nat /\ attempt' \in Nat
    BY NetAssumption DEF ClientTypeOK
  <2>3. \A p \in net : p.port # <<job', attempt'>>
    BY <1>6, <2>1, <2>2 DEF Sent
  <2> QED BY <1>1, <1>6, <2>3 DEF OwnPackets, MyPort
<1>7. CASE Receive
  <2>1. PICK r \in back : r.port = MyPort /\ (PutAcked(r) \/ GetData(r))
    BY <1>7 DEF Receive
  <2>2. net' = net /\ Live
    BY <1>7, <2>1 DEF Receive, Orphan
  <2>3. CASE StartJob(job + 1, 1)
    <3>1. job \in Nat
      BY DEF ClientTypeOK
    <3>2. job' > job
      BY <2>3, <3>1 DEF StartJob
    <3> QED BY <1>6, <2>2, <3>2
  <2>4. CASE UNCHANGED <<job, attempt>> /\ ~StartJob(job + 1, 1)
    <3>1. blk' >= blk
      <4>1. CASE phase = "request"
        BY <1>2, <2>4, <4>1 DEF ClientTypeOK
      <4>2. CASE phase # "request" /\ IsPut(job)
        BY <1>2, <2>1, <2>4, <4>2, PutOrGet DEF PutAcked, GetData
      <4>3. CASE IsGet(job)
        BY <1>2, <2>1, <4>3, PutOrGet DEF PutAcked, GetData
      <4> QED BY <2>1, <4>1, <4>2, <4>3 DEF PutAcked, GetData
    <3>2. \A p \in net : p.op = "DATA" /\ p.port = MyPort => p.block <= blk'
      BY <1>1, <1>2, <3>1 DEF OwnPackets
    <3> QED BY <1>1, <2>2, <2>4, <3>2 DEF OwnPackets, MyPort
  <2> QED BY <2>1, <2>3, <2>4 DEF PutAcked, GetData
<1>8. CASE GiveUp \/ LeaveGet
  <2>1. CASE Orphan
    BY <1>3, <1>8, <2>1 DEF Orphan, GiveUp, LeaveGet
  <2>2. CASE Live
    <3>1. net' = net /\ job \in Nat /\ attempt \in Nat
      BY <1>8, NetAssumption DEF GiveUp, LeaveGet, ClientTypeOK
    <3>2. job' > job \/ (job' = job /\ attempt' > attempt)
      BY <1>8, <3>1 DEF GiveUp, LeaveGet, StartJob
    <3> QED BY <1>6, <2>2, <3>1, <3>2
  <2> QED BY <2>1, <2>2
<1>9. CASE \E p \in net : Deliver(p)
  BY <1>4, <1>9 DEF Deliver, clientVars, MyPort
<1>10. CASE TimePasses \/ Reset \/ Crash
  BY <1>3, <1>10 DEF TimePasses, Reset, Crash, Restart
<1>11. CASE UNCHANGED netVars
  BY <1>4, <1>11 DEF netVars, clientVars, MyPort
<1> QED BY <1>5, <1>7, <1>8, <1>9, <1>10, <1>11 DEF NetNext
\* A delivery: only the put's own DATA, up to the client's block, is stored.
LEMMA DeliverInStep ==
    ASSUME ServerInv, ClientTypeOK, Live, StepInv, NEW p \in net, Deliver(p)
    PROVE  InStep'
<1> SUFFICES ASSUME IsPut(job), attempt = 1, bootState' = "CLIENT_WRQ"
             PROVE  /\ phase = "request" => address_to_store'.off = 0
                    /\ phase = "transfer" /\ tid = SERVER_port'
                         => address_to_store'.off <= blk
  <2>1. UNCHANGED <<job, attempt, phase, tid, blk>>
    BY DeliverCases DEF Kept, clientVars
  <2> QED BY <2>1 DEF InStep, IsPut
<1>1. PacketOK(p) /\ p.port = <<p.port[1], p.port[2]>>
  BY DEF Live, StepInv, OwnPackets
<1>2. blk \in Nat
  BY DEF ClientTypeOK, BlockNo
<1>3. CASE UNCHANGED <<bootState, address_to_store, SERVER_port>>
  BY <1>3 DEF StepInv, InStep
<1>4. CASE Ignored /\ SameHistory
  BY <1>3, <1>4 DEF Ignored, SameHistory, image
<1>5. CASE Opened(p)
  BY <1>2, <1>5 DEF Opened
<1>6. ~Downloads(p)
  BY <1>1, PutOrGet DEF Downloads, PacketOK, PacketShape
<1>7. CASE Repeated(p)
  BY <1>3, <1>7 DEF Repeated, session, image
<1>8. CASE Continued(p)
  <2>1. /\ p.op = "DATA" /\ p.port[1] = job
        /\ p.block = address_to_store.off + 1
        /\ address_to_store'.off = p.block
    BY <1>8 DEF Continued, StoreHere, Current, ServerInv, TypeOK
  <2>2. p.port[2] = 1 /\ p.port = MyPort
    BY <1>1, <2>1 DEF PacketOK, PacketShape, Sent, MyPort
  <2>3. phase # "request" /\ p.block <= blk
    BY <1>1, <2>1, <2>2 DEF PacketOK, DataPort, StepInv, OwnPackets
  <2> QED BY <2>1, <2>3
<1>9. ~Completed(p)
  BY DEF Completed
<1> QED BY <1>4, <1>5, <1>6, <1>7, <1>8, <1>9, DeliverCases

\* What the client receives.
LEMMA ReceiveInStep ==
    ASSUME ServerInv, ClientTypeOK, Live, StepInv, Receive
    PROVE  InStep'
<1>1. PICK r \in back : r.port = MyPort /\ (PutAcked(r) \/ GetData(r))
  BY DEF Receive
<1>2. UNCHANGED <<bootState, address_to_store, SERVER_port>>
  BY DEF Receive, vars, session, image
<1>3. CASE GetData(r)
  BY <1>3, PutOrGet DEF GetData, InStep, IsPut, IsGet
<1>4. CASE PutAcked(r)
  <2>1. IsPut(job) /\ r.op = "ACK" /\ r.block = blk /\ blk \in Nat
    BY <1>4 DEF PutAcked, ClientTypeOK, BlockNo
  <2>2. InStep
    BY DEF StepInv
  <2>3. CASE /\ phase = "request"
             /\ phase' = "transfer" /\ tid' = r.sport /\ blk' = 1
             /\ UNCHANGED <<job, attempt, got>>
    <3>1. bootState = "CLIENT_WRQ" /\ attempt = 1 => address_to_store.off = 0
      BY <2>1, <2>2, <2>3 DEF InStep
    <3> QED BY <1>2, <2>3, <3>1 DEF InStep
  <2>4. CASE /\ phase = "transfer" /\ blk' = blk + 1
             /\ UNCHANGED <<job, attempt, phase, tid, got>>
    <3>1. bootState = "CLIENT_WRQ" /\ attempt = 1 /\ tid = SERVER_port
            => address_to_store.off <= blk
      BY <2>1, <2>2, <2>4 DEF InStep
    <3>2. address_to_store.off \in Nat
      BY DEF ServerInv, TypeOK
    <3>3. bootState = "CLIENT_WRQ" /\ attempt = 1 /\ tid = SERVER_port
            => address_to_store.off <= blk'
      BY <2>1, <2>4, <3>1, <3>2
    <3> QED BY <1>2, <2>4, <3>3 DEF InStep
  <2>5. CASE /\ phase = "transfer" /\ r.sport = tid /\ blk > BlocksOf(job)
             /\ StartJob(job + 1, 1)
    <3>1. Rest
      BY <1>1, <2>1, <2>5, FinishedPut DEF Putting
    <3> QED BY <1>2, <2>5, <3>1 DEF InStep, StartJob, Rest
  <2> QED BY <1>4, <2>3, <2>4, <2>5 DEF PutAcked
<1> QED BY <1>1, <1>3, <1>4

\* Every step keeps it.
LEMMA NextInStep ==
    ASSUME ServerInv, NetInv, StepInv, ClientTypeOK', [NetNext]_netVars
    PROVE  StepInv'
<1>1. ClientTypeOK /\ (Orphan \/ Live) /\ InStep /\ bootState \in BootState
  BY DEF NetInv, StepInv, ServerInv, TypeOK
<1>2. OwnPackets'
  BY <1>1, PacketsAreOwn
<1>3. ASSUME UNCHANGED <<bootState, client, address_to_store, SERVER_port>>,
             UNCHANGED <<job, attempt, phase, tid, blk>>
      PROVE  StepInv'
  BY <1>1, <1>2, <1>3 DEF StepInv, InStep, IsPut
<1>4. CASE Send \/ TimePasses
  BY <1>3, <1>4 DEF Send, TimePasses, Tick, vars, session, image, peer, clientVars
<1>5. CASE UNCHANGED netVars
  BY <1>3, <1>5 DEF netVars, vars, session, image, peer, clientVars
<1>6. CASE Reset \/ Crash
  <2>1. bootState' = "INIT_ARP"
    BY <1>6 DEF Reset, Crash, Restart, PowerCycle, tftpd_entry
  <2> QED BY <1>2, <2>1 DEF StepInv, InStep
<1>7. ASSUME UNCHANGED vars, InStep' PROVE StepInv'
  <2>1. UNCHANGED <<bootState, client>>
    BY <1>7 DEF vars, session, peer
  <2> QED BY <1>2, <1>7, <2>1 DEF StepInv
<1>8. CASE Receive
  <2>1. Live /\ UNCHANGED vars
    BY <1>1, <1>8 DEF Receive, Orphan
  <2> QED BY <1>1, <1>7, <1>8, <2>1, ReceiveInStep
<1>9. CASE GiveUp
  <2>1. attempt' # 1
    BY <1>1, <1>9, NetAssumption DEF GiveUp, StartJob, ClientTypeOK
  <2> QED BY <1>7, <1>9, <2>1 DEF GiveUp, InStep
<1>10. CASE LeaveGet
  <2>1. UNCHANGED vars /\ ~IsPut(job) /\ phase' = "request"
    BY <1>10, PutOrGet DEF LeaveGet, StartJob
  <2>2. UNCHANGED <<bootState, address_to_store>>
    BY <2>1 DEF vars, session, image
  <2>3. bootState = "CLIENT_WRQ" => address_to_store.off = 0
    BY <1>1, <2>1 DEF Orphan, Live, ImageOK, Rest
  <2> QED BY <1>7, <2>1, <2>2, <2>3 DEF InStep
<1>11. ASSUME NEW p \in net, Deliver(p) PROVE StepInv'
  <2>1. p \in Packet /\ p.host = Pc /\ kick_tftpd(p)
    BY <1>1, <1>11 DEF ClientTypeOK, StepInv, OwnPackets, Deliver
  <2>2. bootState' # "INIT_ARP" => client' = Pc
    BY <1>1, <2>1, ClientIsPc DEF StepInv
  <2>3. InStep'
    <3>1. CASE Live
      BY <1>1, <1>11, <3>1, DeliverInStep
    <3>2. CASE Orphan
      <4>1. errorDrop
        BY <1>11, <3>2 DEF Orphan, BootStateEvent, Deliver, kick_tftpd
      <4> QED BY <3>2, <4>1 DEF Orphan, errorDrop, session, InStep
    <3> QED BY <1>1, <3>1, <3>2
  <2> QED BY <1>2, <2>2, <2>3 DEF StepInv
<1> QED BY <1>4, <1>5, <1>6, <1>8, <1>9, <1>10, <1>11 DEF NetNext

\* What is answered to the client's current DATA.
LEMMA AnswerIsAwaited ==
    ASSUME ServerInv, NetInv, StepInv, NEW p \in Outgoing, p.op = "DATA",
           p.dport = SERVER_port, bootState = "CLIENT_WRQ", attempt = 1, Deliver(p)
    PROVE  [op |-> "ACK", host |-> Pc, port |-> MyPort, sport |-> tid, block |-> blk]
             \in back'
<1>1. ClientTypeOK /\ Live /\ client = Pc /\ p \in net
  BY DEF NetInv, Orphan, StepInv, Deliver
<1>2. p.port = MyPort /\ Putting /\ p.dport = tid /\ p.block = blk
  BY <1>1, OutgoingFacts
<1>3. prepareACK(p) /\ back' = back \cup tx'
  BY DEF Deliver, kick_tftpd, BootStateEvent
<1>4. Serving
  BY <1>1, DataIsCurrent DEF Current
<1>5. blk <= address_to_store.off + 1 /\ address_to_store.off <= blk
  BY <1>1, <1>2 DEF Live, PuttingOK, Putting, StepInv, InStep
<1>6. blk \in Nat /\ address_to_store.off \in Nat
  BY <1>1 DEF ClientTypeOK, BlockNo, ServerInv, TypeOK
<1>7. CASE p.block # block_expected
  <2>1. PrevBlock(block_expected) = address_to_store.off
    BY <1>4, ServingNumbers
  <2>2. blk = address_to_store.off
    BY <1>2, <1>4, <1>5, <1>6, <1>7 DEF Serving
  <2>3. tftpd_send_ack(client, p.port, PrevBlock(block_expected))
    BY <1>3, <1>7 DEF prepareACK
  <2> QED BY <1>1, <1>2, <1>3, <2>1, <2>2, <2>3 DEF tftpd_send_ack, Reply
<1>8. CASE p.block = block_expected
  BY <1>1, <1>2, <1>3, <1>8 DEF prepareACK, StoreBlock, tftpd_send_ack, Reply
<1> QED BY <1>7, <1>8

(***************************************************************************)
(* A client in its first attempt at a put is answered, whenever its DATA   *)
(* reaches the upload, with the ACK it waits for.                          *)
(***************************************************************************)
THEOREM BlocksAreAnswered == NetSpec => BlocksAnswered
<1>1. NetInit => StepInv
  BY DEF NetInit, Init, StepInv, OwnPackets, InStep
<1>2. ServerInv /\ NetInv /\ StepInv /\ (ServerInv /\ NetInv)' /\ [NetNext]_netVars => StepInv'
  BY NextInStep DEF NetInv
<1>3. ServerInv /\ NetInv /\ StepInv /\ [NetNext]_netVars =>
        [\A p \in Outgoing :
            /\ p.op = "DATA" /\ p.dport = SERVER_port /\ bootState = "CLIENT_WRQ"
            /\ attempt = 1 /\ Deliver(p)
            => [op |-> "ACK", host |-> Pc, port |-> MyPort, sport |-> tid, block |-> blk]
                 \in back']_netVars
  BY AnswerIsAwaited
<1> QED BY <1>1, <1>2, <1>3, NetInvariant, PTL DEF NetSpec, BlocksAnswered
-----------------------------------------------------------------------------
(***************************************************************************)
(* The service.  Every step of server, network and client is a step of     *)
(* ImageService or changes nothing the operator sees.  That DATA of an     *)
(* earlier put never publishes its image again is Current; that a get      *)
(* reads the next block of the image on offer is GettingOK, before the     *)
(* step and after it; that a put has taken effect when the client goes on  *)
(* is FinishedPut.                                                         *)
(***************************************************************************)
PutReadsNothing == IsPut(job) => got = <<>>

\* The jobs as the service numbers them.
LEMMA JobSets ==
    ASSUME NEW j
    PROVE  /\ j \in {i \in JobNo : IsPut(i)} <=> IsPut(j)
           /\ j \in {i \in JobNo : IsGet(i)} <=> IsGet(j)
BY DEF IsPut, IsGet

\* A put that completes takes effect; no other packet the board gets does.
LEMMA DeliverServes ==
    ASSUME ServerInv, ClientTypeOK, Orphan \/ Live, NEW p \in net, Deliver(p)
    PROVE  Service!Publish \/ UNCHANGED Service!vars
<1>1. UNCHANGED <<job, phase, got>>
  BY DEF Deliver, clientVars
<1>2. CASE UNCHANGED <<published, stored>>
  BY <1>1, <1>2 DEF Service!vars
<1>3. CASE IsPut(job) /\ published' = job /\ stored' = stored \cup {job}
  BY <1>1, <1>3, JobSets DEF Service!Publish
<1>4. CASE Orphan
  <2>1. BootStateEvent(bootState, p.op) = "drop"
    BY <1>4 DEF Orphan, BootStateEvent
  <2>2. SERVER_port' = SERVER_port
    BY <2>1 DEF Deliver, kick_tftpd, errorDrop
  <2> QED BY <1>2, <2>2 DEF Deliver
<1>5. CASE Live
  BY <1>2, <1>3, <1>5, DeliverCases DEF SameHistory, Completed, StoreHere, Current
<1> QED BY <1>4, <1>5

\* DATA the client takes is the next block of the image on offer.
LEMMA GetServes ==
    ASSUME ClientTypeOK, Live, GettingOK', NEW r \in back, r.port = MyPort, GetData(r),
           UNCHANGED <<published, stored>>
    PROVE  Service!Read
<1>1. /\ IsGet(job) /\ r.op = "DATA" /\ r.block = blk + 1
      /\ phase \in {"request", "transfer"}
      /\ phase' = (IF r.full THEN "transfer" ELSE "dally")
      /\ blk' = blk + 1 /\ got' = Append(got, r.chunk) /\ job' = job
  BY DEF GetData
<1>2. IsGet(job)' /\ job \in JobNo
  BY <1>1 DEF IsGet
<1>3. ASSUME published # 0
      PROVE  /\ Len(got') = Len(got) + 1 /\ Len(got') <= BlocksOf(published) + 1
             /\ \A i \in 1 .. Len(got') : got'[i] = <<published, i>>
             /\ phase' = "dally" <=> Len(got') = BlocksOf(published) + 1
  <2>1. /\ Len(got') = blk' /\ blk' <= BlocksOf(published) + 1
        /\ \A i \in 1 .. Len(got') : got'[i] = <<published, i>>
    BY <1>2, <1>3, BlocksType DEF GettingOK
  <2>2. Len(got) = blk /\ blk \in Nat /\ BlocksOf(published) \in Nat
    BY <1>1, <1>3, BlocksType DEF Live, GettingOK, ClientTypeOK, BlockNo
  <2>3. r.full <=> r.block <= BlocksOf(published)
    <3>1. AnswerOK(r) /\ r.port[1] = job
      BY DEF Live, MyPort
    <3> QED BY <1>1, <1>3, <2>2, <3>1 DEF AnswerOK, DataTrue
  <2>4. CASE r.full
    BY <1>1, <2>1, <2>2, <2>3, <2>4
  <2>5. CASE ~r.full
    BY <1>1, <2>1, <2>2, <2>3, <2>5
  <2> QED BY <1>1, <2>1, <2>2, <2>4, <2>5
<1>4. published # 0 => published \in JobNo
  BY PutOrGet DEF ClientTypeOK
<1> QED BY <1>1, <1>3, <1>4, JobSets DEF Service!Read

\* What the client receives.
LEMMA ReceiveServes ==
    ASSUME ServerInv, NetInv, NetInv', PutReadsNothing, Receive
    PROVE  [Service!Next]_(Service!vars) /\ PutReadsNothing'
<1>1. PICK r \in back : r.port = MyPort /\ (PutAcked(r) \/ GetData(r))
  BY DEF Receive
<1>2. ClientTypeOK /\ Live /\ UNCHANGED <<published, stored>>
  BY DEF NetInv, Orphan, Receive, history
<1>3. CASE GetData(r)
  <2>1. Live'
    <3>1. UNCHANGED back
      BY DEF Receive
    <3> QED BY <1>1, <3>1 DEF NetInv, Orphan
  <2>2. GettingOK'
    BY <2>1 DEF Live
  <2>3. ~IsPut(job')
    BY <1>3, PutOrGet DEF GetData
  <2> QED BY <1>1, <1>2, <1>3, <2>2, <2>3, GetServes DEF Service!Next, PutReadsNothing, IsPut
<1>4. CASE PutAcked(r)
  <2>1. IsPut(job) /\ r.op = "ACK" /\ r.block = blk /\ phase # "dally"
    BY <1>2, <1>4 DEF PutAcked, ClientTypeOK
  <2>2. CASE UNCHANGED <<job, got>> /\ phase' = "transfer"
    BY <1>2, <2>1, <2>2 DEF Service!vars, PutReadsNothing, IsPut
  <2>3. CASE phase = "transfer" /\ r.sport = tid /\ blk > BlocksOf(job) /\ StartJob(job + 1, 1)
    <3>1. job \in stored
      BY <1>1, <1>2, <2>1, <2>3, FinishedPut DEF Putting
    <3> QED BY <1>2, <2>3, <3>1
            DEF StartJob, Service!NextJob, Service!Next, PutReadsNothing
  <2> QED BY <1>4, <2>2, <2>3 DEF PutAcked
<1> QED BY <1>1, <1>3, <1>4

\* And every step.
LEMMA NextServes ==
    ASSUME ServerInv, NetInv, NetInv', PutReadsNothing, [NetNext]_netVars
    PROVE  [Service!Next]_(Service!vars) /\ PutReadsNothing'
<1>1. ASSUME UNCHANGED <<job, phase, got, published, stored>>
      PROVE  UNCHANGED Service!vars /\ PutReadsNothing'
  BY <1>1 DEF Service!vars, PutReadsNothing, IsPut
<1>2. CASE Send \/ TimePasses
  BY <1>1, <1>2 DEF Send, TimePasses, clientVars, history
<1>3. CASE UNCHANGED netVars
  BY <1>1, <1>3 DEF netVars, clientVars, history
<1>4. CASE Receive
  BY <1>4, ReceiveServes
<1>5. CASE GiveUp
  <2>1. /\ job \in JobNo /\ phase # "dally"
        /\ job' = job /\ phase' = "request" /\ got' = <<>>
        /\ UNCHANGED <<published, stored>>
    BY <1>5 DEF GiveUp, StartJob, history
  <2>2. CASE IsPut(job)
    BY <2>1, <2>2 DEF PutReadsNothing, Service!vars
  <2>3. CASE IsGet(job)
    BY <2>1, <2>3, JobSets DEF PutReadsNothing, Service!StartOver, Service!Next
  <2> QED BY <2>1, <2>2, <2>3, PutOrGet
<1>6. CASE LeaveGet
  <2>1. /\ IsGet(job) /\ job' = job + 1 /\ phase' = "request" /\ got' = <<>>
        /\ UNCHANGED <<published, stored>>
    BY <1>6 DEF LeaveGet, StartJob, history
  <2> QED BY <2>1, JobSets, PutOrGet DEF PutReadsNothing, Service!NextJob, Service!Next
<1>7. ASSUME NEW p \in net, Deliver(p)
      PROVE  [Service!Next]_(Service!vars) /\ PutReadsNothing'
  <2>1. UNCHANGED <<job, got>>
    BY <1>7 DEF Deliver, clientVars
  <2>2. Service!Publish \/ UNCHANGED Service!vars
    BY <1>7, DeliverServes DEF NetInv
  <2> QED BY <2>1, <2>2 DEF Service!Next, PutReadsNothing, IsPut
<1>8. CASE Reset \/ Crash
  <2>1. published' = 0 /\ UNCHANGED <<job, phase, got, stored>>
    BY <1>8 DEF Reset, Crash, Restart, clientVars
  <2> QED BY <2>1 DEF Service!Restart, Service!Next, PutReadsNothing, IsPut
<1> QED BY <1>2, <1>3, <1>4, <1>5, <1>6, <1>7, <1>8 DEF NetNext

(***************************************************************************)
(* However packets are lost, repeated and delayed, the operator of the     *)
(* client is served as ImageService promises.                              *)
(***************************************************************************)
THEOREM ServiceIsKept == NetSpec => ServiceSpec
<1>1. NetInit => Service!Init /\ PutReadsNothing
  BY DEF NetInit, Service!Init, PutReadsNothing
<1>2. /\ ServerInv /\ NetInv /\ (ServerInv /\ NetInv)' /\ PutReadsNothing
      /\ [NetNext]_netVars
      => [Service!Next]_(Service!vars) /\ PutReadsNothing'
  BY NextServes
<1> QED BY <1>1, <1>2, NetInvariant, PTL DEF NetSpec, ServiceSpec, Service!Spec

(***************************************************************************)
(* What the service is worth.  Puts take effect in the order of the jobs,  *)
(* none is left out, and no put takes effect during a get: so the image on *)
(* offer is the last one put, and what a get has read is one image.        *)
(***************************************************************************)
OfferInv ==
    /\ job \in Nat \ {0}
    /\ \A j \in stored : IsPut(j) /\ j <= job
    /\ DonePuts
    /\ published # 0 => published \in stored /\ \A j \in stored : j <= published

\* The image on offer is the last one put.
LEMMA OfferStep ==
    ASSUME OfferInv, [Service!Next]_(Service!vars)
    PROVE  OfferInv'
<1>1. job \in Nat \ {0} /\ \A j \in stored : IsPut(j) /\ j \in Nat /\ j <= job
  BY NetAssumption, PutOrGet DEF OfferInv, JobNo
<1>2. CASE Service!Publish
  <2>1. IsPut(job) /\ job' = job /\ published' = job /\ stored' = stored \cup {job}
    BY <1>2, JobSets DEF Service!Publish
  <2> QED BY <1>1, <2>1 DEF OfferInv, DonePuts
<1>3. CASE Service!NextJob
  <2>1. /\ job' = job + 1 /\ UNCHANGED <<published, stored>>
        /\ IsPut(job) => job \in stored
    BY <1>3, JobSets DEF Service!NextJob
  <2>2. DonePuts'
    BY <1>1, <2>1 DEF OfferInv, DonePuts
  <2>3. job' \in Nat \ {0} /\ \A j \in stored' : IsPut(j) /\ j <= job'
    BY <1>1, <2>1
  <2> QED BY <2>1, <2>2, <2>3 DEF OfferInv
<1>4. CASE Service!Restart
  BY <1>4 DEF Service!Restart, OfferInv, DonePuts
<1>5. CASE Service!Read \/ Service!StartOver \/ UNCHANGED Service!vars
  <2>1. UNCHANGED <<job, published, stored>>
    BY <1>5 DEF Service!Read, Service!StartOver, Service!vars
  <2> QED BY <2>1 DEF OfferInv, DonePuts
<1> QED BY <1>2, <1>3, <1>4, <1>5 DEF Service!Next

\* What a get has read is one image.
LEMMA OneImageStep ==
    ASSUME OfferInv, DownloadIntegrity, [Service!Next]_(Service!vars)
    PROVE  DownloadIntegrity'
<1>1. CASE Service!Publish
  BY <1>1, JobSets, PutOrGet DEF Service!Publish, DownloadIntegrity, IsGet
<1>2. CASE Service!NextJob
  BY <1>2 DEF Service!NextJob, DownloadIntegrity
<1>3. CASE Service!Restart
  BY <1>3 DEF Service!Restart, DownloadIntegrity
<1>4. CASE Service!StartOver
  BY <1>4 DEF Service!StartOver, DownloadIntegrity
<1>5. CASE UNCHANGED Service!vars
  BY <1>5 DEF Service!vars, DownloadIntegrity, IsGet
<1>6. CASE Service!Read
  <2> SUFFICES ASSUME IsGet(job)', published' # 0
               PROVE  /\ \A i \in 1 .. Len(got') : got'[i] = <<published', i>>
                      /\ phase' = "dally" => Len(got') = BlocksOf(published') + 1
    BY DEF DownloadIntegrity
  <2>1. published' = published /\ published \in JobNo
    BY <1>6, PutOrGet DEF Service!Read, OfferInv
  <2> QED BY <1>6, <2>1 DEF Service!Read
<1> QED BY <1>1, <1>2, <1>3, <1>4, <1>5, <1>6 DEF Service!Next

(***************************************************************************)
(* A client that is served as ImageService promises gets the image of the  *)
(* last put, and all of it in order.                                       *)
(***************************************************************************)
THEOREM GetsReadLatest == ServiceSpec => [](LatestImage /\ DownloadIntegrity)
<1>1. Service!Init => OfferInv /\ DownloadIntegrity
  BY DEF Service!Init, OfferInv, DonePuts, DownloadIntegrity
<1>2. OfferInv /\ [Service!Next]_(Service!vars) => OfferInv'
  BY OfferStep
<1>3. OfferInv /\ DownloadIntegrity /\ [Service!Next]_(Service!vars) => DownloadIntegrity'
  BY OneImageStep
<1>4. OfferInv => LatestImage
  <2> SUFFICES ASSUME OfferInv, published # 0, NEW j \in published + 1 .. job - 1, IsPut(j)
               PROVE  FALSE
    BY DEF LatestImage
  <2>1. published \in Nat /\ published >= 1 /\ job \in Nat
    BY NetAssumption, PutOrGet DEF OfferInv, JobNo
  <2>2. j \in 1 .. job - 1 /\ j > published
    BY <2>1
  <2>3. j \in stored
    BY <2>2 DEF OfferInv, DonePuts
  <2> QED BY <2>1, <2>2, <2>3 DEF OfferInv
<1> QED BY <1>1, <1>2, <1>3, <1>4, PTL DEF ServiceSpec, Service!Spec
=============================================================================
