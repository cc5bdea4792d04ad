---------------------------- MODULE MCTftpServer ----------------------------
(***************************************************************************)
(* TftpServer facing a network that may send it any packet at any time:    *)
(* two hosts, block numbers modulo 3, images of at most two full blocks.   *)
(* The reply of the last step is hidden from the fingerprint: no later     *)
(* step reads it and no property of this run mentions it.                  *)
(***************************************************************************)
EXTENDS TftpServer, TLC

Symmetry == Permutations(Host)
HideReply == <<session, image, file_length_to_client, peer, SERVER_port, flags,
               silence, control>>

=============================================================================
