------------------------------ MODULE MCDualBank ------------------------------
(***************************************************************************)
(* Small instance of DualBank: four-bit burn addresses, two marks below the *)
(* forced one, and files that are whole, that lack the root file system    *)
(* their kernel wants, that end in a bad section, or that bring only a     *)
(* root file system.                                                       *)
(***************************************************************************)
EXTENDS DualBank

Good(sig) == [sig |-> sig, good |-> TRUE, fills |-> FALSE]
Full(sig) == [sig |-> sig, good |-> TRUE, fills |-> TRUE]
Torn(sig) == [sig |-> sig, good |-> FALSE, fills |-> FALSE]

MCImages == {
    <<Good("linux")>>,
    <<Good("linux-root"), Good("root"), Good("web")>>,
    <<Full("linux-root"), Good("root")>>,
    <<Good("root"), Full("linux-root")>>,
    <<Good("linux-root"), Torn("root")>>,
    <<Good("root")>>,
    <<Good("boot")>> }
=============================================================================
