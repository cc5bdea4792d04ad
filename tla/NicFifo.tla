------------------------------- MODULE NicFifo -------------------------------
(***************************************************************************)
(* What the receive side of the NIC driver promises to kick_tftpd():       *)
(* packets come one at a time, in the order they arrived, each at most     *)
(* once, and the one being handled stays put until its handler is done.    *)
(* The driver may drop packets of its own accord: those addressed to       *)
(* somebody else, and all of them when it is started again.                *)
(***************************************************************************)
EXTENDS Sequences, Naturals

CONSTANTS Packet, Foreign, NoPacket, Capacity

VARIABLES queue, handling

vars == <<queue, handling>>

Init == queue = <<>> /\ handling = NoPacket

Enqueue == /\ Len(queue) < Capacity
           /\ \E p \in Packet : queue' = Append(queue, p)
           /\ UNCHANGED handling

Dequeue == /\ handling = NoPacket
           /\ queue # <<>>
           /\ queue' = Tail(queue)
           /\ handling' = IF Head(queue) \in Foreign THEN NoPacket ELSE Head(queue)

Finish  == handling # NoPacket /\ handling' = NoPacket /\ UNCHANGED queue

Restart == handling = NoPacket /\ queue' = <<>> /\ UNCHANGED handling

Next == Enqueue \/ Dequeue \/ Finish \/ Restart

Spec == Init /\ [][Next]_vars

=============================================================================
