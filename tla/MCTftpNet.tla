------------------------------ MODULE MCTftpNet ------------------------------
(***************************************************************************)
(* Small job lists for TftpNet.  Every image has at most two full blocks,  *)
(* so block numbers (modulo 5) do not wrap, as they do not for images      *)
(* under 32 MB; a run completes fewer uploads than there are ports.        *)
(***************************************************************************)
EXTENDS TftpNet

Put(name, blocks) == [kind |-> "put", name |-> name, blocks |-> blocks]
Get == [kind |-> "get", name |-> "plain", blocks |-> 0]

PutPutGet == <<Put("plain", 1), Put("plain", 2), Get>>
PutGetPut  == <<Put("plain", 0), Get, Put("nfjrom", 2)>>

\* tx is read only in the step that writes it
HideReply == <<session, image, file_length_to_client, peer, SERVER_port, flags,
               silence, control, net, back, clientVars, history>>

AllPorts == JobNo \X (1 .. MaxAttempts)
FirstJunk == <<0, 0>>

=============================================================================
