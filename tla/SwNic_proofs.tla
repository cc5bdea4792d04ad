---------------------------- MODULE SwNic_proofs ----------------------------
(***************************************************************************)
(* Proofs about the NIC driver, for rings of every size.                   *)
(*                                                                         *)
(* The two rings are independent.  The transmit side is safe always; the   *)
(* receive side is when Paced, the case left out being the one in which    *)
(* swNic_receive's static firstTime returns an unread slot (run            *)
(* nic_restart).                                                           *)
(***************************************************************************)
EXTENDS SwNic, SequenceTheorems, TLAPS

-----------------------------------------------------------------------------
(***************************************************************************)
(* The transmit ring.                                                      *)
(***************************************************************************)
TxType ==
    /\ txOwner \in [TxSlot -> Owners]
    /\ currTxPkthdrDescIndex \in TxSlot
    /\ txPktDoneDescIndex \in TxSlot
    /\ coreTx \in TxSlot

TxInv == TxType /\ TxWindow

\* Going round a ring stays on it.
LEMMA NextSlotType ==
    ASSUME NEW cnt \in Nat, NEW i \in 0 .. cnt - 1
    PROVE  NextSlot(i, cnt) \in 0 .. cnt - 1
BY DEF NextSlot

\* The loop of swNic_txDone stops where the core is.
LEMMA DoneIsCore ==
    ASSUME TxInv
    PROVE  swNic_txDone = coreTx
<1> USE RingAssumption DEF TxInv, TxType, TxWindow, TxSlot, Owners
<1>1. TxDoneStops(txPktDoneDescIndex, coreTx)
  <2>1. ASSUME NEW i \in TxSlot, Between(txPktDoneDescIndex, coreTx, i)
        PROVE  txOwner[i] = "RISC"
    <3>1. ~ Between(coreTx, currTxPkthdrDescIndex, i)
      <4>1. CASE coreTx = currTxPkthdrDescIndex
        BY <4>1 DEF Between
      <4>2. CASE coreTx # currTxPkthdrDescIndex
        <5>1. Between(coreTx, currTxPkthdrDescIndex, coreTx)
          BY <4>2 DEF Between
        <5>2. Between(txPktDoneDescIndex, currTxPkthdrDescIndex, coreTx)
          BY <5>1
        <5> QED  BY <2>1, <4>2, <5>2 DEF Between
      <4> QED  BY <4>1, <4>2
    <3> QED  BY <3>1
  <2>2. \/ Between(txPktDoneDescIndex, currTxPkthdrDescIndex, coreTx)
             /\ txOwner[coreTx] = "SWCORE"
        \/ coreTx = currTxPkthdrDescIndex
    <3>1. coreTx # currTxPkthdrDescIndex
            => Between(coreTx, currTxPkthdrDescIndex, coreTx)
      BY DEF Between
    <3> QED  BY <3>1
  <2> QED  BY <2>1, <2>2 DEF TxDoneStops
<1>2. ASSUME NEW d \in TxSlot, TxDoneStops(txPktDoneDescIndex, d)
      PROVE  d = coreTx
  <2>1. SUFFICES ASSUME d # coreTx PROVE FALSE
    OBVIOUS
  <2>2. Between(coreTx, currTxPkthdrDescIndex, coreTx)
    <3>1. CASE d = currTxPkthdrDescIndex
      BY <2>1, <3>1 DEF Between
    <3>2. CASE txOwner[d] = "SWCORE"
      <4>1. Between(coreTx, currTxPkthdrDescIndex, d)
        BY <3>2
      <4> QED  BY <2>1, <4>1 DEF Between
    <3> QED  BY <1>2, <3>1, <3>2 DEF TxDoneStops
  <2>3. Between(txPktDoneDescIndex, currTxPkthdrDescIndex, coreTx)
    BY <2>2
  <2>4. txOwner[coreTx] = "SWCORE"
    BY <2>2
  <2>5. Between(txPktDoneDescIndex, d, coreTx)
    <3>1. CASE d = currTxPkthdrDescIndex
      BY <2>3, <3>1
    <3>2. CASE Between(txPktDoneDescIndex, currTxPkthdrDescIndex, d)
                 /\ txOwner[d] = "SWCORE"
      <4>1. Between(coreTx, currTxPkthdrDescIndex, d)
        BY <3>2
      <4> QED  BY <2>1, <2>2, <2>3, <3>2, <4>1 DEF Between
    <3> QED  BY <1>2, <3>1, <3>2 DEF TxDoneStops
  <2> QED  BY <1>2, <2>4, <2>5 DEF TxDoneStops
<1> QED  BY <1>1, <1>2 DEF swNic_txDone

\* A reply takes the slot after the last one, unless that would fill the ring.
LEMMA SendTxInv ==
    ASSUME TxInv, NEW frame, swNic_send(frame, coreTx),
           txPktDoneDescIndex' = coreTx, coreTx' = coreTx
    PROVE  TxInv'
<1> USE RingAssumption DEF TxInv, TxType, TxSlot, Owners
<1>1. CASE RingFull(coreTx)
  BY <1>1 DEF swNic_send, TxWindow
<1>2. CASE ~ RingFull(coreTx)
  <2>1. /\ NextSlot(currTxPkthdrDescIndex, TxCnt) # coreTx
        /\ txOwner' = [txOwner EXCEPT ![currTxPkthdrDescIndex] = "SWCORE"]
        /\ currTxPkthdrDescIndex' = NextSlot(currTxPkthdrDescIndex, TxCnt)
    BY <1>2 DEF swNic_send, RingFull
  <2>2. TxType'
    BY <2>1, NextSlotType
  <2>3. ASSUME NEW i \in TxSlot
        PROVE  Between(coreTx, currTxPkthdrDescIndex', i)
                 <=> i = currTxPkthdrDescIndex
                     \/ Between(coreTx, currTxPkthdrDescIndex, i)
    BY <2>1 DEF NextSlot, Between
  <2>4. ASSUME NEW i \in TxSlot
        PROVE  txOwner'[i] = "SWCORE"
                 <=> i = currTxPkthdrDescIndex \/ txOwner[i] = "SWCORE"
    BY <2>1
  <2> QED  BY <2>2, <2>3, <2>4 DEF TxWindow
<1> QED  BY <1>1, <1>2

\* The core takes the first of the slots it owns.
LEMMA TransmitTxInv == ASSUME TxInv, Transmit PROVE TxInv'
<1> USE RingAssumption DEF TxInv, TxType, TxSlot, Owners, Transmit
<1>1. TxType'
  BY NextSlotType
<1>2. Between(coreTx, currTxPkthdrDescIndex, coreTx)
  BY DEF TxWindow
<1>3. ASSUME NEW i \in TxSlot
      PROVE  Between(coreTx', currTxPkthdrDescIndex, i)
               <=> i # coreTx /\ Between(coreTx, currTxPkthdrDescIndex, i)
  BY <1>2 DEF NextSlot, Between
<1>4. ASSUME NEW i \in TxSlot
      PROVE  txOwner'[i] = "SWCORE" <=> i # coreTx /\ txOwner[i] = "SWCORE"
  OBVIOUS
<1> QED  BY <1>1, <1>3, <1>4 DEF TxWindow

(***************************************************************************)
(* Both sides keep the transmit ring in order.                             *)
(***************************************************************************)
THEOREM TransmitInvariant == Spec => []TxInv
<1>1. Init => TxInv
  BY RingAssumption
     DEF Init, TxInv, TxType, TxWindow, TxSlot, Owners, Between
<1>2. TxInv /\ [Next]_vars => TxInv'
  <2> SUFFICES ASSUME TxInv, [Next]_vars PROVE TxInv'
    OBVIOUS
  <2>1. ASSUME UNCHANGED <<txOwner, currTxPkthdrDescIndex, txPktDoneDescIndex, coreTx>>
        PROVE  TxInv'
    BY <2>1 DEF TxInv, TxType, TxWindow
  <2>2. CASE Handle
    <3>1. txPktDoneDescIndex' = coreTx /\ coreTx' = coreTx
      BY <2>2, DoneIsCore DEF Handle
    <3>2. CASE swNic_send(rxData[packet], swNic_txDone)
      BY <3>1, <3>2, DoneIsCore, SendTxInv
    <3>3. CASE UNCHANGED <<txOwner, currTxPkthdrDescIndex, pktbuf>>
      BY <3>1, <3>3 DEF TxInv, TxType, TxWindow
    <3> QED  BY <2>2, <3>2, <3>3 DEF Handle
  <2>3. CASE Leave
    BY <2>3, DoneIsCore DEF Leave, TxInv, TxType, TxWindow
  <2>4. CASE swNic_init
    BY <2>4, RingAssumption
       DEF swNic_init, TxInv, TxType, TxWindow, TxSlot, Owners, Between
  <2>5. CASE Transmit
    BY <2>5, TransmitTxInv
  <2>6. CASE Interrupt \/ Poll \/ PollForeign \/ PollEmpty
    BY <2>1, <2>6 DEF Interrupt, Poll, PollForeign, PollEmpty, tx
  <2>7. CASE Runout \/ \E p \in Packet : Arrive(p)
    BY <2>1, <2>7 DEF Runout, Arrive, tx
  <2>8. CASE UNCHANGED vars
    BY <2>1, <2>8 DEF vars, tx
  <2> QED
    BY <2>2, <2>3, <2>4, <2>5, <2>6, <2>7, <2>8 DEF Next, eth_interrupt
<1> QED  BY <1>1, <1>2, PTL DEF Spec

(***************************************************************************)
(* The core is always between the slot the driver reclaims next and the    *)
(* slot it fills next.                                                     *)
(***************************************************************************)
THEOREM TxRingInOrder == Spec => []TxWindow
<1>1. TxInv => TxWindow
  BY DEF TxInv
<1> QED  BY <1>1, TransmitInvariant, PTL

(***************************************************************************)
(* swNic_send never writes a descriptor that the core owns: its assertion  *)
(* holds.                                                                  *)
(***************************************************************************)
THEOREM SendIsSafe == Spec => []SendOwnsItsSlot
<1>1. TxInv => SendOwnsItsSlot
  BY DEF TxInv, TxType, TxWindow, SendOwnsItsSlot, Between, Owners, TxSlot
<1> QED  BY <1>1, TransmitInvariant, PTL

-----------------------------------------------------------------------------
(***************************************************************************)
(* The receive ring.                                                       *)
(***************************************************************************)

\* Either the NIC is started once, or the wire never fills the whole ring.
Paced == MaxUnread < RxCnt \/ MaxStartups = 0

\* the unread slots, without a quantifier over them
Unread(i) ==
    \/ currRxPkthdrDescIndex <= i /\ i < currRxPkthdrDescIndex + unread
    \/ i + RxCnt < currRxPkthdrDescIndex + unread

RxType ==
    /\ rxOwner \in [RxSlot -> Owners]
    /\ rxData \in [RxSlot -> Packet \cup {NoPacket}]
    /\ currRxPkthdrDescIndex \in RxSlot /\ coreRx \in RxSlot
    /\ firstTime \in BOOLEAN /\ held \in BOOLEAN
    /\ unread \in 0 .. RxCnt
    /\ startups \in 0 .. MaxStartups

RxOrder ==
    /\ Wrap(currRxPkthdrDescIndex + unread, RxCnt) = coreRx
    /\ \A i \in RxSlot :
         rxOwner[i] = "RISC" <=>
             Unread(i) \/ (held /\ i = PrevSlot(currRxPkthdrDescIndex, RxCnt))

\* what swNic_receive knows of the slot before the current one
Previous ==
    /\ unread <= MaxUnread
    /\ held => unread < RxCnt
    /\ firstTime => ~ held
    /\ firstTime \/ held \/ startups > 0

RxInv == RxType /\ RxOrder /\ Previous

\* The slot that swNic_receive returns is not an unread one.
LEMMA PreviousIsRead ==
    ASSUME Paced, RxInv, ~ firstTime
    PROVE  ~ Unread(PrevSlot(currRxPkthdrDescIndex, RxCnt))
<1>1. unread < RxCnt
  BY RingAssumption DEF Paced, RxInv, RxType, Previous
<1> QED
  BY <1>1, RingAssumption DEF RxInv, RxType, RxSlot, Unread, PrevSlot

\* swNic_receive takes the oldest unread slot.
LEMMA CurrentIsUnread ==
    ASSUME RxInv, rxOwner[currRxPkthdrDescIndex] = "RISC"
    PROVE  unread > 0
BY RingAssumption DEF RxInv, RxType, RxOrder, RxSlot, Unread, PrevSlot

\* A call of swNic_receive keeps the order of the rx ring.
LEMMA ReceiveRxInv ==
    ASSUME Paced, RxInv, swNic_receive, startups' = startups
    PROVE  RxInv'
<1> USE RingAssumption DEF RxInv, RxSlot, Owners, swNic_receive
<1> DEFINE r == currRxPkthdrDescIndex
           prev == PrevSlot(r, RxCnt)
<1>1. unread \in 1 .. RxCnt
  BY CurrentIsUnread DEF RxType
<1>2. prev \in RxSlot /\ r \in RxSlot
  BY DEF PrevSlot, RxType
<1>3. RxType'
  <2>1. r' \in RxSlot
    BY NextSlotType DEF RxType
  <2>2. rxOwner' \in [RxSlot -> Owners]
        /\ rxData' \in [RxSlot -> Packet \cup {NoPacket}]
    BY <1>2 DEF ReturnPrevious, Return, RxType
  <2>3. firstTime' = FALSE /\ held' = TRUE
    OBVIOUS
  <2>4. unread' \in 0 .. RxCnt
    BY <1>1
  <2>5. startups' \in 0 .. MaxStartups /\ coreRx' \in RxSlot
    BY DEF RxType
  <2> QED  BY <2>1, <2>2, <2>3, <2>4, <2>5 DEF RxType
<1>4. Previous'
  BY <1>1 DEF RxType, Previous
<1>5. Wrap(r' + unread', RxCnt) = coreRx'
  BY <1>1 DEF Wrap, NextSlot, RxType, RxOrder
<1>6. ASSUME NEW i \in RxSlot
      PROVE  rxOwner'[i] = "RISC" <=> i = r \/ Unread(i)
  <2>1. CASE firstTime
    <3>1. ~ held
      BY <2>1 DEF Previous
    <3>2. rxOwner' = rxOwner
      BY <2>1 DEF ReturnPrevious
    <3> QED  BY <3>1, <3>2, <1>2 DEF RxOrder
  <2>2. CASE ~ firstTime
    <3>1. ~ Unread(prev)
      BY <2>2, PreviousIsRead
    <3>2. rxOwner' = [rxOwner EXCEPT ![prev] = "SWCORE"]
      BY <2>2 DEF ReturnPrevious, Return
    <3>3. prev # r
      BY <1>2 DEF PrevSlot
    <3>4. rxOwner'[i] = "RISC" <=> i # prev /\ rxOwner[i] = "RISC"
      BY <3>2, <1>2 DEF RxType
    <3> QED  BY <3>1, <3>3, <3>4, <1>2 DEF RxOrder
  <2> QED  BY <2>1, <2>2 DEF RxType
<1>7. PrevSlot(r', RxCnt) = r
  BY <1>2 DEF PrevSlot, NextSlot
<1>8. ASSUME NEW i \in RxSlot
      PROVE  i = r \/ Unread(i) <=> Unread(i)' \/ i = r
  <2>1. r' = NextSlot(r, RxCnt) /\ unread' = unread - 1
    OBVIOUS
  <2> QED  BY <1>1, <1>2, <2>1 DEF NextSlot, Unread
<1> QED  BY <1>3, <1>4, <1>5, <1>6, <1>7, <1>8 DEF RxOrder

\* The core filling its next slot keeps the order of the rx ring.
LEMMA ArriveRxInv ==
    ASSUME RxInv, NEW p \in Packet, Arrive(p)
    PROVE  RxInv'
<1> USE RingAssumption DEF RxInv, RxSlot, Owners, Arrive
<1> DEFINE r == currRxPkthdrDescIndex
<1>0. r \in RxSlot /\ coreRx \in RxSlot
  BY DEF RxType
<1>1. ~ Unread(coreRx) /\ ~ (held /\ coreRx = PrevSlot(r, RxCnt))
  BY <1>0 DEF RxOrder
<1>2. unread < RxCnt
  BY <1>0, <1>1 DEF RxType, RxOrder, Unread, Wrap
<1>3. held => unread + 1 < RxCnt
  BY <1>0, <1>1, <1>2 DEF RxType, RxOrder, PrevSlot, Wrap
<1>4. RxType'
  <2>1. coreRx' \in RxSlot
    BY NextSlotType, <1>0
  <2> QED  BY <1>2, <2>1 DEF RxType
<1>5. Previous'
  BY <1>3 DEF RxType, Previous
<1>6. Wrap(r + unread', RxCnt) = coreRx'
  BY <1>2 DEF Wrap, NextSlot, RxType, RxOrder
<1>7. ASSUME NEW i \in RxSlot
      PROVE  Unread(i)' <=> i = coreRx \/ Unread(i)
  <2>1. unread' = unread + 1 /\ r' = r
    OBVIOUS
  <2> QED  BY <1>0, <1>2, <2>1 DEF Unread, Wrap, RxType, RxOrder
<1>8. ASSUME NEW i \in RxSlot
      PROVE  rxOwner'[i] = "RISC" <=> i = coreRx \/ rxOwner[i] = "RISC"
  BY <1>0 DEF RxType
<1> QED  BY <1>4, <1>5, <1>6, <1>7, <1>8 DEF RxOrder

\* The slot being handled is the one before the current one.
Handling ==
    pc = "handle" => held /\ packet = PrevSlot(currRxPkthdrDescIndex, RxCnt)

ReceiveInv == RxInv /\ Handling

\* The rx ring starts all with the core.
LEMMA InitReceiveInv == Init => ReceiveInv
<1> SUFFICES ASSUME Init PROVE ReceiveInv
  OBVIOUS
<1>1. RxType
  <2>1. 0 \in RxSlot /\ 0 \in 0 .. RxCnt /\ 0 \in 0 .. MaxStartups
    BY RingAssumption DEF RxSlot
  <2>2. rxOwner \in [RxSlot -> Owners]
        /\ rxData \in [RxSlot -> Packet \cup {NoPacket}]
    BY DEF Init, Owners
  <2> QED  BY <2>1, <2>2 DEF Init, RxType
<1>2. RxOrder
  <2>1. /\ currRxPkthdrDescIndex = 0 /\ coreRx = 0 /\ unread = 0 /\ held = FALSE
        /\ \A i \in RxSlot : rxOwner[i] = "SWCORE"
    BY DEF Init
  <2> QED  BY <2>1, RingAssumption DEF RxOrder, RxSlot, Unread, Wrap
<1> QED
  BY <1>1, <1>2, RingAssumption DEF Init, ReceiveInv, RxInv, Previous, Handling

\* Initialising the rings again keeps it, where that happens at all.
LEMMA StartupReceiveInv == ASSUME Paced, ReceiveInv, swNic_init PROVE ReceiveInv'
<1> USE RingAssumption DEF swNic_init
<1>1. RxType'
  <2>1. startups' \in 0 .. MaxStartups
    BY DEF ReceiveInv, RxInv, RxType
  <2>2. firstTime' \in BOOLEAN /\ held' \in BOOLEAN
    BY DEF ReceiveInv, RxInv, RxType
  <2>5. unread' \in 0 .. RxCnt
    OBVIOUS
  <2>3. currRxPkthdrDescIndex' \in RxSlot /\ coreRx' \in RxSlot
    BY DEF RxSlot
  <2>4. rxOwner' \in [RxSlot -> Owners]
        /\ rxData' \in [RxSlot -> Packet \cup {NoPacket}]
    BY DEF Owners
  <2> QED  BY ONLY <2>1, <2>2, <2>3, <2>4, <2>5 DEF RxType
<1>2. RxOrder'
  <2>1. /\ currRxPkthdrDescIndex' = 0 /\ coreRx' = 0 /\ unread' = 0 /\ held' = FALSE
        /\ \A i \in RxSlot : rxOwner'[i] = "SWCORE"
    OBVIOUS
  <2> QED  BY <2>1 DEF RxOrder, RxSlot, Unread, Wrap
<1>3. Previous'
  BY DEF ReceiveInv, RxInv, RxType, Previous
<1> QED  BY <1>1, <1>2, <1>3 DEF ReceiveInv, RxInv, Handling, handler

(***************************************************************************)
(* The receive ring stays in order when the NIC is Paced.                  *)
(***************************************************************************)
LEMMA NextReceiveInv ==
    ASSUME Paced, ReceiveInv, [Next]_vars
    PROVE  ReceiveInv'
<1>1. ASSUME UNCHANGED <<rx, startups>> PROVE RxInv'
  <2>1. UNCHANGED <<rxOwner, rxData, currRxPkthdrDescIndex, coreRx, firstTime,
                    unread, held, startups>>
    BY <1>1 DEF rx
  <2> QED
    BY <2>1 DEF ReceiveInv, RxInv, RxType, RxOrder, Previous, Unread
<1>2. CASE Poll
  <2>1. RxInv'
    BY <1>2, ReceiveRxInv DEF Poll, ReceiveInv
  <2>2. PrevSlot(currRxPkthdrDescIndex', RxCnt) = currRxPkthdrDescIndex
    BY <1>2, RingAssumption
       DEF Poll, swNic_receive, ReceiveInv, RxInv, RxType, RxSlot, PrevSlot, NextSlot
  <2> QED
    BY <1>2, <2>1, <2>2 DEF Poll, swNic_receive, ReceiveInv, Handling
<1>3. CASE PollForeign
  BY <1>3, ReceiveRxInv DEF PollForeign, ReceiveInv, Handling
<1>4. CASE swNic_init
  BY <1>4, StartupReceiveInv
<1>5. ASSUME NEW p \in Packet, Arrive(p) PROVE ReceiveInv'
  BY <1>5, ArriveRxInv DEF Arrive, ReceiveInv, Handling, handler
<1>6. CASE Interrupt
  BY <1>1, <1>6 DEF Interrupt, ReceiveInv, Handling
<1>7. CASE PollEmpty
  BY <1>1, <1>7 DEF PollEmpty, ReceiveInv, Handling
<1>8. CASE Handle
  BY <1>1, <1>8 DEF Handle, ReceiveInv, Handling
<1>9. CASE Leave
  BY <1>1, <1>9 DEF Leave, ReceiveInv, Handling
<1>10. CASE Runout
  BY <1>1, <1>10 DEF Runout, ReceiveInv, Handling, rx, handler
<1>11. CASE Transmit
  BY <1>1, <1>11 DEF Transmit, ReceiveInv, Handling, rx, handler
<1>12. CASE UNCHANGED vars
  BY <1>1, <1>12 DEF vars, ReceiveInv, Handling, rx, handler
<1> QED
  BY <1>2, <1>3, <1>4, <1>5, <1>6, <1>7, <1>8, <1>9, <1>10, <1>11, <1>12
     DEF Next, eth_interrupt

(***************************************************************************)
(* The receive ring stays in order when the NIC is Paced.                  *)
(***************************************************************************)
THEOREM ReceiveInvariant == ASSUME Paced PROVE Spec => []ReceiveInv
BY InitReceiveInv, NextReceiveInv, PTL DEF Spec

-----------------------------------------------------------------------------
(***************************************************************************)
(* Every variable keeps its type.                                          *)
(***************************************************************************)
THEOREM TypeCorrect == ASSUME Paced PROVE Spec => []TypeOK
<1> DEFINE Rest == /\ pktbuf \in Packet \cup {NoPacket}
                   /\ iisr \subseteq Bits /\ iimr \subseteq Bits
                   /\ pc \in {"idle", "poll", "handle", "leave"}
                   /\ packet \in RxSlot
<1>1. Init => Rest
  BY RingAssumption DEF Init, Bits, RxSlot
<1>2. Rest /\ RxType /\ [Next]_vars => Rest'
  <2> SUFFICES ASSUME Rest, RxType, [Next]_vars PROVE Rest'
    OBVIOUS
  <2>1. CASE Interrupt
    BY <2>1 DEF Interrupt, rx, tx
  <2>2. CASE Poll \/ PollForeign
    BY <2>2 DEF Poll, PollForeign, swNic_receive, AcknowledgeRunout, RxType, tx, Bits
  <2>3. CASE PollEmpty
    BY <2>3 DEF PollEmpty, rx, tx, intr
  <2>4. CASE Handle
    <3>1. rxData[packet] \in Packet \cup {NoPacket}
      BY DEF RxType
    <3>2. pktbuf' \in {pktbuf, rxData[packet]}
      BY <2>4 DEF Handle, swNic_send
    <3> QED  BY <2>4, <3>1, <3>2 DEF Handle, intr
  <2>5. CASE Leave
    BY <2>5 DEF Leave, intr
  <2>6. CASE swNic_init
    BY <2>6 DEF swNic_init, handler, Bits
  <2>7. CASE Runout \/ Transmit \/ \E p \in Packet : Arrive(p)
    BY <2>7 DEF Runout, Transmit, Arrive, tx, handler, Bits
  <2>8. CASE UNCHANGED vars
    BY <2>8 DEF vars, tx, intr, handler
  <2> QED
    BY <2>1, <2>2, <2>3, <2>4, <2>5, <2>6, <2>7, <2>8 DEF Next, eth_interrupt
<1>3. ReceiveInv => RxType
  BY DEF ReceiveInv, RxInv
<1>4. Rest /\ RxType /\ TxInv => TypeOK
  BY DEF RxType, TxInv, TxType, TypeOK
<1> QED
  BY <1>1, <1>2, <1>3, <1>4, ReceiveInvariant, TransmitInvariant, PTL DEF Spec

(***************************************************************************)
(* The packet that kick_tftpd handles is in a slot of the CPU: the core    *)
(* cannot be overwriting it.                                               *)
(***************************************************************************)
THEOREM HandledIsSafe == ASSUME Paced PROVE Spec => []HandledIsOurs
<1>1. ReceiveInv => HandledIsOurs
  BY RingAssumption
     DEF ReceiveInv, RxInv, RxType, RxOrder, RxSlot, Handling, HandledIsOurs, PrevSlot
<1> QED  BY <1>1, ReceiveInvariant, PTL

(***************************************************************************)
(* The CPU's slots are those filled and not read, and the one before them. *)
(***************************************************************************)
THEOREM RxRingInOrder == ASSUME Paced PROVE Spec => []RxWindow
<1>1. ReceiveInv => RxWindow
  <2> SUFFICES ASSUME ReceiveInv PROVE RxWindow
    OBVIOUS
  <2> USE RingAssumption DEF ReceiveInv, RxInv, RxSlot
  <2> DEFINE r == currRxPkthdrDescIndex
  <2>1. r \in RxSlot /\ unread \in 0 .. RxCnt
    BY DEF RxType
  <2>2. ASSUME NEW i \in RxSlot
        PROVE  Unread(i) <=> \E k \in 0 .. unread - 1 : i = Wrap(r + k, RxCnt)
    <3>1. ASSUME Unread(i)
          PROVE  \E k \in 0 .. unread - 1 : i = Wrap(r + k, RxCnt)
      <4>1. CASE r <= i /\ i < r + unread
        <5>1. i - r \in 0 .. unread - 1 /\ i = Wrap(r + (i - r), RxCnt)
          BY <2>1, <4>1 DEF Wrap
        <5> QED  BY <5>1
      <4>2. CASE i + RxCnt < r + unread
        <5>1. i + RxCnt - r \in 0 .. unread - 1
              /\ i = Wrap(r + (i + RxCnt - r), RxCnt)
          BY <2>1, <4>2 DEF Wrap
        <5> QED  BY <5>1
      <4> QED  BY <3>1, <4>1, <4>2 DEF Unread
    <3>2. ASSUME NEW k \in 0 .. unread - 1, i = Wrap(r + k, RxCnt)
          PROVE  Unread(i)
      BY <2>1, <3>2 DEF Wrap, Unread
    <3> QED  BY <3>1, <3>2
  <2> QED  BY <2>2 DEF RxOrder, RxWindow
<1> QED  BY <1>1, ReceiveInvariant, PTL

(***************************************************************************)
(* swNic_receive returns to the core the slot it read before, and no other.*)
(***************************************************************************)
THEOREM ReturnsWhatItRead == ASSUME Paced PROVE Spec => OnlyReadReturned
<1> DEFINE Step == \A i \in RxSlot :
                     rxOwner[i] = "RISC" /\ rxOwner'[i] = "SWCORE" /\ startups' = startups
                       => held /\ i = PrevSlot(currRxPkthdrDescIndex, RxCnt)
<1>1. ReceiveInv /\ [Next]_vars => [Step]_vars
  <2> SUFFICES ASSUME ReceiveInv, [Next]_vars PROVE Step
    OBVIOUS
  <2> TAKE i \in RxSlot
  <2> HAVE rxOwner[i] = "RISC" /\ rxOwner'[i] = "SWCORE" /\ startups' = startups
  <2> USE DEF ReceiveInv, RxInv, RxType
  <2>1. rxOwner' # rxOwner
    OBVIOUS
  <2>2. ~ \E p \in Packet : Arrive(p)
    BY DEF Arrive
  <2>3. ~ swNic_init
    BY RingAssumption DEF swNic_init
  <2>4. Poll \/ PollForeign
    BY <2>1, <2>2, <2>3
       DEF Next, eth_interrupt, Interrupt, PollEmpty, Handle, Leave, Runout, Transmit, vars, rx
  <2>5. ~ firstTime /\ rxOwner' = [rxOwner EXCEPT ![PrevSlot(currRxPkthdrDescIndex, RxCnt)] = "SWCORE"]
    BY <2>1, <2>4 DEF Poll, PollForeign, swNic_receive, ReturnPrevious, Return
  <2>6. i = PrevSlot(currRxPkthdrDescIndex, RxCnt)
    BY <2>5
  <2> QED  BY <2>5, <2>6, PreviousIsRead DEF RxOrder
<1> QED  BY <1>1, ReceiveInvariant, PTL DEF Spec, OnlyReadReturned

-----------------------------------------------------------------------------
(***************************************************************************)
(* No wake-up is lost.  While the handler is in its loop nothing need be   *)
(* pending; it leaves the loop either at a slot of the core, and then the  *)
(* order of the ring says that nothing is unread, or at a packet for       *)
(* somebody else, which is then in the slot before the current one.  What  *)
(* arrives from then on sets rxdone, which is cleared only on the way in.  *)
(***************************************************************************)
WakeInv == "rxdone" \in iimr /\ NoLostWakeUp

\* A packet that comes in sets rxdone.
LEMMA ArriveWakes ==
    ASSUME ReceiveInv, WakeInv, NEW p \in Packet, Arrive(p)
    PROVE  WakeInv'
BY DEF Arrive, WakeInv, NoLostWakeUp

\* Every other step.
LEMMA NextWakeInv ==
    ASSUME Paced, ReceiveInv, WakeInv, [Next]_vars
    PROVE  WakeInv'
<1>1. CASE Interrupt
  BY <1>1 DEF Interrupt, WakeInv, NoLostWakeUp
<1>2. CASE Poll
  BY <1>2 DEF Poll, swNic_receive, AcknowledgeRunout, WakeInv, NoLostWakeUp
<1>3. CASE PollForeign
  <2>1. "rxdone" \in iimr' /\ held' = TRUE
    BY <1>3 DEF PollForeign, swNic_receive, AcknowledgeRunout, WakeInv
  <2>2. PrevSlot(currRxPkthdrDescIndex', RxCnt) = currRxPkthdrDescIndex
    BY <1>3, RingAssumption
       DEF PollForeign, swNic_receive, ReceiveInv, RxInv, RxType, RxSlot, PrevSlot, NextSlot
  <2>3. rxData'[currRxPkthdrDescIndex] = rxData[currRxPkthdrDescIndex]
    <3>1. PrevSlot(currRxPkthdrDescIndex, RxCnt) # currRxPkthdrDescIndex
      BY RingAssumption DEF ReceiveInv, RxInv, RxType, RxSlot, PrevSlot
    <3> QED
      BY <1>3, <3>1
         DEF PollForeign, swNic_receive, ReturnPrevious, Return, ReceiveInv, RxInv, RxType
  <2> QED
    BY <1>3, <2>1, <2>2, <2>3 DEF PollForeign, WakeInv, NoLostWakeUp
<1>4. CASE PollEmpty
  <2>1. ~(unread > 0)
    <3>1. rxOwner[currRxPkthdrDescIndex] # "RISC"
      BY <1>4 DEF PollEmpty
    <3> QED
      BY <3>1, RingAssumption DEF ReceiveInv, RxInv, RxType, RxOrder, RxSlot, Unread
  <2> QED
    BY <1>4, <2>1 DEF PollEmpty, rx, intr, WakeInv, NoLostWakeUp
<1>5. CASE Handle
  BY <1>5 DEF Handle, intr, WakeInv, NoLostWakeUp
<1>6. CASE Leave
  BY <1>6 DEF Leave, rx, intr, WakeInv, NoLostWakeUp
<1>7. CASE swNic_init
  BY <1>7 DEF swNic_init, WakeInv, NoLostWakeUp
<1>8. CASE \E p \in Packet : Arrive(p)
  BY <1>8, ArriveWakes
<1>9. CASE Runout \/ Transmit \/ UNCHANGED vars
  BY <1>9 DEF Runout, Transmit, vars, rx, tx, intr, handler, WakeInv, NoLostWakeUp
<1> QED
  BY <1>1, <1>2, <1>3, <1>4, <1>5, <1>6, <1>7, <1>8, <1>9 DEF Next, eth_interrupt

(***************************************************************************)
(* Once eth_interrupt is through, a packet waits with an interrupt pending *)
(* or behind a packet for somebody else.                                   *)
(***************************************************************************)
THEOREM WakeUpsArrive == ASSUME Paced PROVE Spec => []NoLostWakeUp
<1>1. Init => WakeInv
  BY DEF Init, WakeInv, NoLostWakeUp
<1>2. WakeInv => NoLostWakeUp
  BY DEF WakeInv
<1> QED
  BY <1>1, <1>2, NextWakeInv, ReceiveInvariant, PTL DEF Spec

-----------------------------------------------------------------------------
(***************************************************************************)
(* The refinement of NicFifo.                                              *)
(***************************************************************************)
Data == Packet \cup {NoPacket}

\* the abstract queue and the packet being handled
Queue == [k \in 1 .. unread |-> rxData[Wrap(currRxPkthdrDescIndex + k - 1, RxCnt)]]
InHand == IF pc = "handle" THEN rxData[packet] ELSE NoPacket

\* every slot of the CPU holds a packet
Filled == \A i \in RxSlot : rxOwner[i] = "RISC" => rxData[i] \in Packet

FifoInv == ReceiveInv /\ Filled

\* Every slot that the CPU owns holds a packet.
LEMMA NextFifoInv ==
    ASSUME Paced, FifoInv, [Next]_vars
    PROVE  FifoInv'
<1> USE DEF FifoInv
<1>1. ReceiveInv'
  BY NextReceiveInv
<1>2. Filled'
  <2> USE DEF ReceiveInv, RxInv, RxType, Filled
  <2>1. ASSUME UNCHANGED <<rxOwner, rxData>> PROVE Filled'
    BY <2>1
  <2>2. CASE Poll \/ PollForeign
    BY <2>1, <2>2, RingAssumption
       DEF Poll, PollForeign, swNic_receive, ReturnPrevious, Return, RxSlot, PrevSlot
  <2>3. ASSUME NEW p \in Packet, Arrive(p) PROVE Filled'
    BY <2>3 DEF Arrive
  <2>4. CASE swNic_init
    BY <2>4 DEF swNic_init
  <2>5. CASE Interrupt \/ PollEmpty \/ Handle \/ Leave
    BY <2>1, <2>5 DEF Interrupt, PollEmpty, Handle, Leave, rx
  <2>6. CASE Runout \/ Transmit \/ UNCHANGED vars
    BY <2>1, <2>6 DEF Runout, Transmit, rx, vars
  <2> QED  BY <2>2, <2>3, <2>4, <2>5, <2>6 DEF Next, eth_interrupt
<1> QED  BY <1>1, <1>2

QueueTyped ==
    /\ unread \in Nat
    /\ Queue \in Seq(Data)
    /\ Len(Queue) = unread
    /\ \A k \in 1 .. unread :
         Queue[k] = rxData[Wrap(currRxPkthdrDescIndex + k - 1, RxCnt)]

\* The abstract queue is the sequence of the unread packets.
LEMMA QueueIsSeq == FifoInv => QueueTyped
<1> SUFFICES ASSUME FifoInv PROVE QueueTyped
  OBVIOUS
<1> USE RingAssumption DEF FifoInv, ReceiveInv, RxInv, RxType, RxSlot
<1>1. unread \in Nat
  OBVIOUS
<1>2. ASSUME NEW k \in 1 .. unread
      PROVE  Wrap(currRxPkthdrDescIndex + k - 1, RxCnt) \in RxSlot
  BY DEF Wrap
<1>3. Queue \in [1 .. unread -> Data]
  BY <1>2 DEF Queue, Data
<1>4. Queue \in Seq(Data)
  BY <1>1, <1>3, SeqDef
<1>5. Len(Queue) \in Nat /\ 1 .. Len(Queue) = 1 .. unread
  BY <1>3, <1>4, LenProperties
<1> QED  BY <1>1, <1>4, <1>5 DEF Queue, QueueTyped

\* And so it is after a step.
LEMMA QueueIsSeqNext == FifoInv' => QueueTyped'
BY QueueIsSeq, PTL

\* A packet that arrives is queued last.
LEMMA ArriveEnqueues ==
    ASSUME FifoInv, FifoInv', NEW p \in Packet, Arrive(p)
    PROVE  Queue' = Append(Queue, p) /\ InHand' = InHand /\ Len(Queue) < RxCnt
<1> USE RingAssumption, QueueIsSeq, QueueIsSeqNext DEF RxSlot, QueueTyped
<1> DEFINE r == currRxPkthdrDescIndex
           all == Append(Queue, p)
<1>1. /\ unread' = unread + 1 /\ r' = r
      /\ rxData' = [rxData EXCEPT ![coreRx] = p]
      /\ rxOwner[coreRx] = "SWCORE"
      /\ pc' = pc /\ packet' = packet
  BY DEF Arrive, handler
<1>2. /\ r \in RxSlot /\ coreRx \in RxSlot /\ unread' \in 0 .. RxCnt
      /\ rxData \in [RxSlot -> Data]
  BY DEF FifoInv, ReceiveInv, RxInv, RxType, Data
<1>3. /\ all \in Seq(Data) /\ Len(all) = unread + 1
      /\ \A k \in 1 .. unread : all[k] = Queue[k]
      /\ all[unread + 1] = p
  <2>1. p \in Data
    BY DEF Data
  <2> QED  BY <2>1, AppendProperties
<1>4. ASSUME NEW k \in 1 .. unread + 1 PROVE Queue'[k] = all[k]
  <2>1. Queue'[k] = rxData'[Wrap(r + k - 1, RxCnt)]
    BY <1>1 DEF Queue
  <2>2. CASE k = unread + 1
    <3>1. Wrap(r + k - 1, RxCnt) = coreRx
      BY <1>2, <2>2 DEF FifoInv, ReceiveInv, RxInv, RxType, RxOrder
    <3> QED  BY <1>1, <1>2, <1>3, <2>1, <2>2, <3>1
  <2>3. CASE k \in 1 .. unread
    <3>1. Wrap(r + unread, RxCnt) = coreRx /\ unread \in 0 .. RxCnt - 1
      BY <1>1, <1>2 DEF FifoInv, ReceiveInv, RxInv, RxType, RxOrder
    <3>2. Wrap(r + k - 1, RxCnt) \in RxSlot /\ Wrap(r + k - 1, RxCnt) # coreRx
      BY ONLY <1>2, <2>3, <3>1, RingAssumption DEF Wrap, RxSlot
    <3>3. Queue[k] = rxData[Wrap(r + k - 1, RxCnt)]
      BY <2>3
    <3> QED  BY <1>1, <1>2, <1>3, <2>1, <2>3, <3>2, <3>3
  <2> QED  BY <1>2, <2>2, <2>3
<1>5. Queue' = all
  BY <1>1, <1>3, <1>4, SeqEqual
<1>6. InHand' = InHand
  <2>1. CASE pc = "handle"
    <3>1. packet \in RxSlot /\ rxOwner[packet] = "RISC"
      BY <1>2, <2>1
         DEF FifoInv, ReceiveInv, RxInv, RxOrder, RxType, Handling, PrevSlot
    <3> QED  BY <1>1, <1>2, <3>1 DEF InHand
  <2>2. CASE pc # "handle"
    BY <1>1, <2>2 DEF InHand
  <2> QED  BY <2>1, <2>2
<1> QED  BY <1>1, <1>2, <1>5, <1>6

\* swNic_receive takes the first packet of the queue.
LEMMA ReceiveDequeues ==
    ASSUME Paced, FifoInv, FifoInv', swNic_receive
    PROVE  /\ Queue # <<>> /\ Queue' = Tail(Queue)
           /\ Head(Queue) = rxData[currRxPkthdrDescIndex]
           /\ rxData'[currRxPkthdrDescIndex] = rxData[currRxPkthdrDescIndex]
<1> USE RingAssumption, QueueIsSeq, QueueIsSeqNext DEF RxSlot, QueueTyped
<1> DEFINE r == currRxPkthdrDescIndex
           prev == PrevSlot(r, RxCnt)
<1>1. /\ unread' = unread - 1 /\ r' = NextSlot(r, RxCnt)
      /\ \/ rxData' = rxData
         \/ ~ firstTime /\ rxData' = [rxData EXCEPT ![prev] = NoPacket]
  BY DEF swNic_receive, ReturnPrevious, Return
<1>2. /\ r \in RxSlot /\ prev \in RxSlot /\ prev # r /\ unread \in 1 .. RxCnt
      /\ rxData \in [RxSlot -> Data]
  <2>1. r \in RxSlot /\ unread \in 0 .. RxCnt /\ rxData \in [RxSlot -> Data]
    BY DEF FifoInv, ReceiveInv, RxInv, RxType, Data
  <2>2. unread > 0
    BY CurrentIsUnread DEF FifoInv, ReceiveInv, swNic_receive
  <2> QED  BY ONLY <2>1, <2>2, RingAssumption DEF PrevSlot, RxSlot
<1>3. ~ firstTime => ~ Unread(prev)
  BY PreviousIsRead DEF FifoInv, ReceiveInv
<1>4. ASSUME NEW k \in 1 .. unread
      PROVE  /\ Wrap(r + k - 1, RxCnt) \in RxSlot
             /\ Unread(Wrap(r + k - 1, RxCnt))
  BY ONLY <1>2, <1>4, RingAssumption DEF Wrap, Unread, RxSlot
<1>5. ASSUME NEW i \in RxSlot, Unread(i) PROVE rxData'[i] = rxData[i]
  BY <1>1, <1>2, <1>3, <1>5
<1>6. Unread(r)
  BY <1>2 DEF Unread
<1>7. Queue # <<>>
  <2>1. Len(Queue) # 0
    BY <1>2
  <2> QED  BY <2>1, EmptySeq
<1>8. /\ Tail(Queue) \in Seq(Data) /\ Len(Tail(Queue)) = unread - 1
      /\ \A k \in 1 .. unread - 1 : Tail(Queue)[k] = Queue[k + 1]
  BY <1>7, HeadTailProperties
<1>9. ASSUME NEW k \in 1 .. unread - 1 PROVE Queue'[k] = Tail(Queue)[k]
  <2>1. Wrap(r' + k - 1, RxCnt) = Wrap(r + (k + 1) - 1, RxCnt)
    BY ONLY <1>1, <1>2, <1>9, RingAssumption DEF Wrap, NextSlot, RxSlot
  <2>2. k + 1 \in 1 .. unread /\ k \in 1 .. unread'
    BY <1>1, <1>2
  <2>3. Queue'[k] = rxData'[Wrap(r' + k - 1, RxCnt)]
    BY <2>2 DEF Queue
  <2>4. Queue[k + 1] = rxData[Wrap(r + (k + 1) - 1, RxCnt)]
    BY <2>2
  <2>5. rxData'[Wrap(r + (k + 1) - 1, RxCnt)] = rxData[Wrap(r + (k + 1) - 1, RxCnt)]
    BY <1>4, <1>5, <2>2
  <2> QED  BY <1>8, <2>1, <2>3, <2>4, <2>5
<1>10. Queue' = Tail(Queue)
  BY <1>1, <1>8, <1>9, SeqEqual
<1>11. Head(Queue) = rxData[r]
  <2>1. Wrap(r + 1 - 1, RxCnt) = r
    BY <1>2 DEF Wrap
  <2> QED  BY <1>2, <2>1 DEF Queue
<1> QED  BY <1>5, <1>6, <1>2, <1>7, <1>10, <1>11

\* a step of NicFifo, or none, in terms of the driver's state
FifoStep ==
    \/ /\ Len(Queue) < RxCnt
       /\ \E p \in Packet : Queue' = Append(Queue, p)
       /\ UNCHANGED InHand
    \/ /\ InHand = NoPacket /\ Queue # <<>>
       /\ Queue' = Tail(Queue)
       /\ InHand' = IF Head(Queue) \in Foreign THEN NoPacket ELSE Head(Queue)
    \/ InHand # NoPacket /\ InHand' = NoPacket /\ UNCHANGED Queue
    \/ InHand = NoPacket /\ Queue' = <<>> /\ UNCHANGED InHand
    \/ UNCHANGED <<Queue, InHand>>

(***************************************************************************)
(* For kick_tftpd the driver is a FIFO: no packet is handled twice, out of *)
(* order, or while the core may be writing over it.                        *)
(***************************************************************************)
THEOREM DriverIsFifo == ASSUME Paced PROVE Spec => FifoSpec
<1>1. Init => FifoInv
  BY InitReceiveInv DEF FifoInv, Filled, Init
<1>2. FifoInv /\ [Next]_vars => FifoInv'
  BY NextFifoInv
<1>3. Init => Queue = <<>> /\ InHand = NoPacket
  <2> SUFFICES ASSUME Init PROVE Queue = <<>> /\ InHand = NoPacket
    OBVIOUS
  <2>1. unread = 0 /\ pc = "idle"
    BY DEF Init
  <2>2. Queue \in Seq(Data) /\ Len(Queue) = 0
    BY <1>1, <2>1, QueueIsSeq DEF QueueTyped
  <2>3. Queue = <<>>
    BY <2>2, EmptySeq
  <2> QED  BY <2>1, <2>3 DEF InHand
<1>4. FifoInv /\ FifoInv' /\ [Next]_vars => FifoStep
  <2> SUFFICES ASSUME FifoInv, FifoInv', [Next]_vars PROVE FifoStep
    OBVIOUS
  <2>1. ASSUME UNCHANGED rx PROVE UNCHANGED Queue
    BY <2>1 DEF Queue, rx
  <2>2. CASE Poll
    <3>1. InHand = NoPacket /\ InHand' = rxData'[currRxPkthdrDescIndex]
      BY <2>2 DEF Poll, InHand
    <3> QED  BY <2>2, <3>1, ReceiveDequeues DEF Poll, FifoStep
  <2>3. CASE PollForeign
    <3>1. InHand = NoPacket /\ InHand' = NoPacket
      BY <2>3 DEF PollForeign, InHand
    <3> QED  BY <2>3, <3>1, ReceiveDequeues DEF PollForeign, FifoStep
  <2>4. ASSUME NEW p \in Packet, Arrive(p)
        PROVE  /\ Len(Queue) < RxCnt
               /\ \E q \in Packet : Queue' = Append(Queue, q)
               /\ UNCHANGED InHand
    BY <2>4, ArriveEnqueues
  <2>5. CASE Handle
    <3>1. rxData[packet] \in Packet
      BY <2>5, RingAssumption
         DEF Handle, FifoInv, Filled, ReceiveInv, RxInv, RxType, RxOrder, RxSlot, Handling, PrevSlot
    <3>2. InHand # NoPacket /\ InHand' = NoPacket
      BY <2>5, <3>1, RingAssumption DEF Handle, InHand
    <3> QED  BY <2>1, <2>5, <3>2 DEF Handle, FifoStep
  <2>6. CASE swNic_init
    <3>1. InHand = NoPacket /\ InHand' = NoPacket
      BY <2>6 DEF swNic_init, InHand, handler
    <3>2. Queue' \in Seq(Data) /\ Len(Queue') = 0
      BY <2>6, QueueIsSeqNext DEF swNic_init, QueueTyped
    <3>3. Queue' = <<>>
      BY <3>2, EmptySeq
    <3> QED  BY <3>1, <3>3 DEF FifoStep
  <2>7. CASE Interrupt \/ PollEmpty \/ Leave
    BY <2>1, <2>7 DEF Interrupt, PollEmpty, Leave, InHand, FifoStep
  <2>8. CASE Runout \/ Transmit \/ UNCHANGED vars
    <3>1. UNCHANGED <<rx, pc, packet, rxData>>
      BY <2>8 DEF Runout, Transmit, vars, handler, rx
    <3> QED  BY <2>1, <3>1 DEF InHand, FifoStep
  <2> QED
    BY <2>2, <2>3, <2>4, <2>5, <2>6, <2>7, <2>8 DEF FifoStep, Next, eth_interrupt
<1>5. Queue = <<>> /\ InHand = NoPacket => Fifo!Init
  BY DEF Fifo!Init, Queue, InHand
<1>6. FifoInv /\ FifoInv' /\ [Next]_vars => [Fifo!Next]_(Fifo!vars)
  BY <1>4
     DEF FifoStep, Fifo!Next, Fifo!Enqueue, Fifo!Dequeue, Fifo!Finish, Fifo!Restart,
         Fifo!vars, Queue, InHand
<1> QED
  BY <1>1, <1>2, <1>3, <1>5, <1>6, PTL DEF Spec, FifoSpec, Fifo!Spec

=============================================================================
