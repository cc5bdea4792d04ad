------------------------------- MODULE MCSwNic -------------------------------
(***************************************************************************)
(* Small rings for SwNic.  Two packets for us, told apart so that a        *)
(* reordering shows, and one for somebody else.                            *)
(***************************************************************************)
EXTENDS SwNic

=============================================================================
