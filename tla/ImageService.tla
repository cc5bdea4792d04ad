----------------------------- MODULE ImageService -----------------------------
(***************************************************************************)
(* What TFTP promises an operator who works through a list of jobs: one    *)
(* image is on offer.  A put replaces it as a whole, at a moment while the *)
(* put is under way and never later, however many packets of it are still  *)
(* about; it is not over before it has done so.  A get reads the image on  *)
(* offer block by block from the first to the last, and may be abandoned.  *)
(* A restart of the board, which has the image in RAM only, leaves nothing *)
(* on offer.                                                               *)
(*                                                                         *)
(* Block i of the image that job j puts is <<j, i>>.                       *)
(***************************************************************************)
EXTENDS Naturals, Sequences

CONSTANTS
    Puts, Gets,  \* the numbers of the jobs of either kind
    Size         \* blocks of every image, the short one at its end included

VARIABLES
    turn,        \* the job under way
    offered,     \* the put whose image is on offer, 0 for none
    stored,      \* the puts that have taken effect
    got, done    \* what the get under way has read, and has it read it all?

vars == <<turn, offered, stored, got, done>>

Init == turn = 1 /\ offered = 0 /\ stored = {} /\ got = <<>> /\ done = FALSE

\* A put that is tried again may take effect again.
Publish ==
    /\ turn \in Puts
    /\ offered' = turn /\ stored' = stored \cup {turn}
    /\ UNCHANGED <<turn, got, done>>

\* With nothing on offer, what a get reads is anything.
Read ==
    /\ turn \in Gets /\ ~done
    /\ offered # 0 =>
         /\ Len(got') = Len(got) + 1 /\ Len(got') <= Size[offered]
         /\ \A i \in 1 .. Len(got') : got'[i] = <<offered, i>>
         /\ done' <=> Len(got') = Size[offered]
    /\ UNCHANGED <<turn, offered, stored>>

StartOver ==
    /\ turn \in Gets /\ ~done
    /\ got' = <<>>
    /\ UNCHANGED <<turn, offered, stored, done>>

NextJob ==
    /\ turn \in Puts => turn \in stored
    /\ turn' = turn + 1 /\ got' = <<>> /\ done' = FALSE
    /\ UNCHANGED <<offered, stored>>

Restart == offered' = 0 /\ UNCHANGED <<turn, stored, got, done>>

Next == Publish \/ Read \/ StartOver \/ NextJob \/ Restart

Spec == Init /\ [][Next]_vars

=============================================================================
