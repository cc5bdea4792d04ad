-------------------------------- MODULE SwNic --------------------------------
(***************************************************************************)
(* The switch NIC driver (src/boot/rtl8196x/swNic_poll.c) under its        *)
(* interrupt handler (src/boot/init/ethInt_865x.c): two rings of           *)
(* descriptors that the CPU and the switch core own in turns, the core     *)
(* running concurrently with the handler.                                  *)
(*                                                                         *)
(* Abstractions.  A packet is a member of Packet; a reply carries the name *)
(* of the packet it answers.  The rx descriptor and its mbuf change hands  *)
(* together and are one slot; the tx rings 1 to 3 are never used.  Each    *)
(* driver function is one step of the handler: it touches only slots that  *)
(* the core does not.  The core's side is modelled from the way the driver *)
(* uses it: it fills and drains slots in ring order while it owns them     *)
(* (what a slot of the core holds is nothing the CPU may count on),        *)
(* and stops receiving when it meets a slot of the CPU (runout).           *)
(*                                                                         *)
(* A Deviant_ operator is a deliberate mistake and no part of the model:   *)
(* put in place of the definition of that name, it breaks a property.      *)
(***************************************************************************)
EXTENDS Integers, FiniteSets, Sequences

CONSTANTS
    RxCnt, TxCnt,  \* rxPkthdrRingCnt[0], txPkthdrRingCnt[0]
    Packet,        \* what arrives
    Foreign,       \* the packets not addressed to eth0_mac
    NoPacket,
    MaxUnread,     \* bound: packets that arrive faster than they are read
    MaxStartups    \* bound: monitor commands that start the NIC again

ASSUME RingAssumption ==
    /\ RxCnt \in Nat /\ RxCnt > 1
    /\ TxCnt \in Nat /\ TxCnt > 1
    /\ MaxUnread \in Nat /\ MaxStartups \in Nat
    /\ Foreign \subseteq Packet
    /\ NoPacket \notin Packet

RxSlot == 0 .. RxCnt - 1
TxSlot == 0 .. TxCnt - 1
Owners == {"RISC", "SWCORE"}
Bits   == {"rxdone", "txdone", "runout"}

VARIABLES
    rxOwner, rxData,         \* rxPkthdrRing[0]: OWN bits and clusters
    currRxPkthdrDescIndex,   \* next slot the CPU reads
    coreRx,                  \* next slot the core fills
    firstTime,               \* the static of swNic_receive
    txOwner,                 \* txPkthdrRing[0]
    currTxPkthdrDescIndex, txPktDoneDescIndex,
    coreTx,                  \* next slot the core transmits
    pktbuf,                  \* the one buffer all tx slots point to
    iisr, iimr,              \* CPUIISR, what is pending, and CPUIIMR, what interrupts
    pc,                      \* where eth_interrupt is
    packet,                  \* nic.packet, as a slot
    \* history, read by no action of the code
    unread,                  \* filled slots the CPU has not read
    held,                    \* has the slot before currRx been read, not returned?
    startups

rx      == <<rxOwner, rxData, currRxPkthdrDescIndex, coreRx, firstTime, unread, held>>
tx      == <<txOwner, currTxPkthdrDescIndex, txPktDoneDescIndex, coreTx, pktbuf>>
handler == <<pc, packet>>
intr    == <<iisr, iimr>>
vars    == <<rx, tx, intr, handler, startups>>

Init ==
    /\ rxOwner = [i \in RxSlot |-> "SWCORE"]
    /\ rxData = [i \in RxSlot |-> NoPacket]
    /\ currRxPkthdrDescIndex = 0 /\ coreRx = 0
    /\ firstTime = TRUE
    /\ txOwner = [i \in TxSlot |-> "RISC"]
    /\ currTxPkthdrDescIndex = 0 /\ txPktDoneDescIndex = 0 /\ coreTx = 0
    /\ pktbuf = NoPacket
    /\ iisr = {} /\ iimr = {"rxdone", "txdone"}
    /\ pc = "idle" /\ packet = 0
    /\ unread = 0 /\ held = FALSE
    /\ startups = 0

Deviant_NextSlot(i, cnt) == i + 1
NextSlot(i, cnt) == IF i + 1 = cnt THEN 0 ELSE i + 1
PrevSlot(i, cnt) == IF i = 0 THEN cnt - 1 ELSE i - 1

\* a place less than twice round a ring, as a slot
Wrap(i, cnt) == IF i < cnt THEN i ELSE i - cnt

\* the slots from a up to, not including, b
Between(a, b, i) == IF a <= b THEN a <= i /\ i < b ELSE a <= i \/ i < b

-----------------------------------------------------------------------------
(***************************************************************************)
(* swNic_receive() when the current slot belongs to the CPU: the packet is *)
(* accepted if it is ours, the slot read before is returned to the core,   *)
(* and a runout is acknowledged, and from then on interrupts, so that the  *)
(* core goes on receiving.                                                 *)
(***************************************************************************)
Return(i) ==
    /\ rxOwner' = [rxOwner EXCEPT ![i] = "SWCORE"]
    /\ rxData' = [rxData EXCEPT ![i] = NoPacket]

Deviant_ReturnPrevious == Return(currRxPkthdrDescIndex)

ReturnPrevious ==
    IF firstTime THEN UNCHANGED <<rxOwner, rxData>>
    ELSE Return(PrevSlot(currRxPkthdrDescIndex, RxCnt))

Deviant_AcknowledgeRunout == UNCHANGED intr

AcknowledgeRunout ==
    /\ iisr' = iisr \ {"runout"}
    /\ iimr' = IF "runout" \in iisr THEN iimr \cup {"runout"} ELSE iimr

swNic_receive ==
    /\ rxOwner[currRxPkthdrDescIndex] = "RISC"
    /\ ReturnPrevious
    /\ firstTime' = FALSE
    /\ currRxPkthdrDescIndex' = NextSlot(currRxPkthdrDescIndex, RxCnt)
    /\ AcknowledgeRunout
    /\ unread' = unread - 1 /\ held' = TRUE
    /\ UNCHANGED coreRx

(***************************************************************************)
(* swNic_txDone(): skip the slots the core has transmitted.                *)
(***************************************************************************)
Deviant_TxDoneStops(done, d) == d = currTxPkthdrDescIndex

TxDoneStops(done, d) ==
    /\ \A i \in TxSlot : Between(done, d, i) => txOwner[i] = "RISC"
    /\ \/ Between(done, currTxPkthdrDescIndex, d) /\ txOwner[d] = "SWCORE"
       \/ d = currTxPkthdrDescIndex

swNic_txDone == CHOOSE d \in TxSlot : TxDoneStops(txPktDoneDescIndex, d)

(***************************************************************************)
(* swNic_send(), called by prepare_txpkt, which ignores that the ring may  *)
(* be full: the reply is then lost.                                        *)
(***************************************************************************)
Deviant_RingFull(done) == FALSE
RingFull(done) == NextSlot(currTxPkthdrDescIndex, TxCnt) = done

swNic_send(frame, done) ==
    IF RingFull(done) THEN UNCHANGED <<txOwner, currTxPkthdrDescIndex, pktbuf>>
    ELSE /\ pktbuf' = frame
         /\ txOwner' = [txOwner EXCEPT ![currTxPkthdrDescIndex] = "SWCORE"]
         /\ currTxPkthdrDescIndex' = NextSlot(currTxPkthdrDescIndex, TxCnt)

-----------------------------------------------------------------------------
(***************************************************************************)
(* eth_interrupt(): acknowledge what is pending, then receive and handle   *)
(* until swNic_receive has nothing, or something that is not for us.       *)
(***************************************************************************)
Interrupt ==
    /\ pc = "idle"
    /\ iisr \cap iimr # {}
    /\ iisr' = {}
    /\ pc' = "poll"
    /\ UNCHANGED <<rx, tx, iimr, packet, startups>>

Poll ==
    /\ pc = "poll"
    /\ swNic_receive
    /\ rxData[currRxPkthdrDescIndex] \notin Foreign
    /\ packet' = currRxPkthdrDescIndex
    /\ pc' = "handle"
    /\ UNCHANGED <<tx, startups>>

PollForeign ==
    /\ pc = "poll"
    /\ swNic_receive
    /\ rxData[currRxPkthdrDescIndex] \in Foreign
    /\ pc' = "leave"
    /\ UNCHANGED <<tx, packet, startups>>

PollEmpty ==
    /\ pc = "poll"
    /\ rxOwner[currRxPkthdrDescIndex] = "SWCORE"
    /\ pc' = "leave"
    /\ UNCHANGED <<rx, tx, intr, packet, startups>>

Handle ==
    /\ pc = "handle"
    /\ txPktDoneDescIndex' = swNic_txDone
    /\ \/ swNic_send(rxData[packet], swNic_txDone)
       \/ UNCHANGED <<txOwner, currTxPkthdrDescIndex, pktbuf>>
    /\ pc' = "poll"
    /\ UNCHANGED <<rx, coreTx, intr, packet, startups>>

Deviant_Leave ==
    /\ pc = "leave"
    /\ txPktDoneDescIndex' = swNic_txDone
    /\ pc' = "idle" /\ iisr' = {}
    /\ UNCHANGED <<rx, txOwner, currTxPkthdrDescIndex, coreTx, pktbuf,
                   iimr, packet, startups>>

Leave ==
    /\ pc = "leave"
    /\ txPktDoneDescIndex' = swNic_txDone
    /\ pc' = "idle"
    /\ UNCHANGED <<rx, txOwner, currTxPkthdrDescIndex, coreTx, pktbuf,
                   intr, packet, startups>>

(***************************************************************************)
(* swNic_init(), called again by the monitor: new rings, but firstTime is  *)
(* a static that keeps its value.                                          *)
(***************************************************************************)
swNic_init ==
    /\ pc = "idle"
    /\ startups < MaxStartups
    /\ startups' = startups + 1
    /\ rxOwner' = [i \in RxSlot |-> "SWCORE"]
    /\ rxData' = [i \in RxSlot |-> NoPacket]
    /\ currRxPkthdrDescIndex' = 0 /\ coreRx' = 0
    /\ txOwner' = [i \in TxSlot |-> "RISC"]
    /\ currTxPkthdrDescIndex' = 0 /\ txPktDoneDescIndex' = 0 /\ coreTx' = 0
    /\ unread' = 0 /\ held' = FALSE
    /\ iimr' = {"rxdone", "txdone"}
    /\ UNCHANGED <<firstTime, pktbuf, iisr, handler>>

-----------------------------------------------------------------------------
(***************************************************************************)
(* The switch core.                                                        *)
(***************************************************************************)
Arrive(p) ==
    /\ unread < MaxUnread
    /\ "runout" \notin iisr
    /\ rxOwner[coreRx] = "SWCORE"
    /\ rxOwner' = [rxOwner EXCEPT ![coreRx] = "RISC"]
    /\ rxData' = [rxData EXCEPT ![coreRx] = p]
    /\ coreRx' = NextSlot(coreRx, RxCnt)
    /\ unread' = unread + 1
    /\ iisr' = iisr \cup {"rxdone"}
    /\ UNCHANGED <<currRxPkthdrDescIndex, firstTime, held, tx, iimr, handler,
                   startups>>

Runout ==
    /\ "runout" \notin iisr
    /\ rxOwner[coreRx] = "RISC"
    /\ iisr' = iisr \cup {"runout"}
    /\ UNCHANGED <<rx, tx, iimr, handler, startups>>

Transmit ==
    /\ txOwner[coreTx] = "SWCORE"
    /\ txOwner' = [txOwner EXCEPT ![coreTx] = "RISC"]
    /\ coreTx' = NextSlot(coreTx, TxCnt)
    /\ iisr' = iisr \cup {"txdone"}
    /\ UNCHANGED <<rx, currTxPkthdrDescIndex, txPktDoneDescIndex, pktbuf,
                   iimr, handler, startups>>

eth_interrupt == Interrupt \/ Poll \/ PollForeign \/ PollEmpty \/ Handle \/ Leave

Next ==
    \/ eth_interrupt
    \/ swNic_init
    \/ \E p \in Packet : Arrive(p)
    \/ Runout
    \/ Transmit

Spec == Init /\ [][Next]_vars

(***************************************************************************)
(* The handler runs once its interrupt is pending, the core transmits, and *)
(* the stations on the wire do not fall silent (a TFTP client resends).    *)
(***************************************************************************)
FairSpec ==
    /\ Spec
    /\ WF_vars(eth_interrupt)
    /\ WF_vars(Transmit)
    /\ WF_vars(\E p \in Packet : Arrive(p))

-----------------------------------------------------------------------------
(***************************************************************************)
(* Every variable keeps its type.                                          *)
(***************************************************************************)
TypeOK ==
    /\ rxOwner \in [RxSlot -> Owners]
    /\ rxData \in [RxSlot -> Packet \cup {NoPacket}]
    /\ currRxPkthdrDescIndex \in RxSlot /\ coreRx \in RxSlot
    /\ firstTime \in BOOLEAN
    /\ txOwner \in [TxSlot -> Owners]
    /\ currTxPkthdrDescIndex \in TxSlot /\ txPktDoneDescIndex \in TxSlot
    /\ coreTx \in TxSlot
    /\ pktbuf \in Packet \cup {NoPacket}
    /\ iisr \subseteq Bits /\ iimr \subseteq Bits
    /\ pc \in {"idle", "poll", "handle", "leave"}
    /\ packet \in RxSlot
    /\ unread \in 0 .. RxCnt /\ held \in BOOLEAN
    /\ startups \in 0 .. MaxStartups

(***************************************************************************)
(* "ASSERT_CSP((txPkthdrRing[0][currTx] & OWN) == RISC)" (swNic_send): the *)
(* slot the next reply goes into is not one the core may be reading, and   *)
(* at least one slot is always kept free to tell a full ring from an empty *)
(* one.                                                                    *)
(***************************************************************************)
SendOwnsItsSlot == txOwner[currTxPkthdrDescIndex] = "RISC"

(***************************************************************************)
(* The core's place in the tx ring is between the slot the driver will     *)
(* reclaim and the slot it will fill: nothing is reclaimed that was not    *)
(* transmitted, and what is owned by the core is exactly what is left.     *)
(***************************************************************************)
TxWindow ==
    \A i \in TxSlot :
        /\ txOwner[i] = "SWCORE" <=> Between(coreTx, currTxPkthdrDescIndex, i)
        /\ Between(coreTx, currTxPkthdrDescIndex, i)
             => Between(txPktDoneDescIndex, currTxPkthdrDescIndex, i)

(***************************************************************************)
(* "packets are read only when the handling previous read one is done"     *)
(* (swNic_receive): the core does not own the buffer being handled.        *)
(***************************************************************************)
HandledIsOurs == pc = "handle" => rxOwner[packet] = "RISC"

(***************************************************************************)
(* The CPU's slots of the rx ring are those filled and not read, from the  *)
(* one swNic_receive looks at next up to the one the core fills next, and  *)
(* the one before them while its packet has not been returned.             *)
(***************************************************************************)
RxWindow ==
    /\ Wrap(currRxPkthdrDescIndex + unread, RxCnt) = coreRx
    /\ \A i \in RxSlot :
         rxOwner[i] = "RISC" <=>
             \/ \E k \in 0 .. unread - 1 : i = Wrap(currRxPkthdrDescIndex + k, RxCnt)
             \/ held /\ i = PrevSlot(currRxPkthdrDescIndex, RxCnt)

(***************************************************************************)
(* No wake-up is lost.  eth_interrupt acknowledges its interrupt before it *)
(* polls, so that a packet that comes in behind its last look interrupts   *)
(* again; once the handler is through, packets wait without an interrupt   *)
(* only behind one for somebody else, at which swNic_receive gave up.      *)
(***************************************************************************)
NoLostWakeUp ==
    pc \in {"leave", "idle"} /\ unread > 0 =>
        \/ "rxdone" \in iisr \cap iimr
        \/ held /\ rxData[PrevSlot(currRxPkthdrDescIndex, RxCnt)] \in Foreign

(***************************************************************************)
(* The driver is a FIFO of RxCnt packets for kick_tftpd().                 *)
(***************************************************************************)
Fifo == INSTANCE NicFifo WITH
    Capacity <- RxCnt,
    queue    <- [k \in 1 .. unread |->
                    rxData[Wrap(currRxPkthdrDescIndex + k - 1, RxCnt)]],
    handling <- IF pc = "handle" THEN rxData[packet] ELSE NoPacket

FifoSpec == Fifo!Spec

(***************************************************************************)
(* "return the previous read one to the switch core" (swNic_receive): a    *)
(* slot goes back to the core only if it has been read.                    *)
(***************************************************************************)
OnlyReadReturned ==
    [][\A i \in RxSlot :
         rxOwner[i] = "RISC" /\ rxOwner'[i] = "SWCORE" /\ startups' = startups
           => held /\ i = PrevSlot(currRxPkthdrDescIndex, RxCnt)]_vars

(***************************************************************************)
(* "waits until the packet is successfully sent" (swNic_send): the buffer  *)
(* of a frame is not overwritten before the core has transmitted it.       *)
(***************************************************************************)
SentIsTransmitted ==
    [][pktbuf' # pktbuf => \A i \in TxSlot : txOwner[i] = "RISC"]_vars

(***************************************************************************)
(* "Enable and clear interrupt for continue reception" (swNic_receive):    *)
(* the receiver does not stop for good.  If the CPU owns every slot and    *)
(* its handler is not running, an interrupt is on its way to start it.     *)
(***************************************************************************)
ReceptionContinues ==
    pc = "idle" /\ (\A i \in RxSlot : rxOwner[i] = "RISC")
        => iisr \cap iimr # {} \/ \E i \in TxSlot : txOwner[i] = "SWCORE"

(***************************************************************************)
(* A packet that has been received is read eventually, although one        *)
(* interrupt may stand for several packets, a packet for somebody else     *)
(* ends the handler's loop, and the core may have run out of slots.        *)
(***************************************************************************)
PacketsAreRead ==
    \A i \in RxSlot :
        unread > 0 /\ currRxPkthdrDescIndex = i ~> currRxPkthdrDescIndex # i

=============================================================================
