----------------------------- MODULE SafeUpgrade -----------------------------
(***************************************************************************)
(* What upgrades of a device with two firmware banks promise, seen by what *)
(* the next start would run: a kernel with its root file system, each named*)
(* by the number of the upload it came from, or Nothing.                   *)
(*                                                                         *)
(* An upgrade has a base, the system it replaces and can fall back on.     *)
(* While it is under way a start would run the base, or already the kernel *)
(* of the new upload, perhaps still with a root file system of an earlier  *)
(* one.  There is no base when the device is told to upgrade the bank in   *)
(* use, or when an earlier upgrade has failed: then anything may be lost.  *)
(***************************************************************************)
EXTENDS Naturals

VARIABLES
    runs,       \* what a start of the device would run
    base,       \* what it would run without the upgrade under way
    started,    \* what it is running, Nothing in the boot code
    upgrading,  \* what the upload under way brings, "no" without one
    version,    \* number of the last upload
    failures,   \* upgrades that were cut short or brought too little
    inPlace     \* has an upgrade ever been told to replace the bank in use?

vars == <<runs, base, started, upgrading, version, failures, inPlace>>

Nothing == [kernel |-> 0, root |-> 0]

\* An upload brings a kernel and all it needs, a kernel without the root file
\* system it needs, or no kernel.
Kind == {"whole", "partial", "kernelless"}

\* A kernel with its root file system inside it has root 0.
System(k, r)  == [kernel : k, root : r]
AnySystem     == System(0 .. version, 0 .. version)
NewKernel     == System({version}, 0 .. version)
NewSystem     == System({version}, {0, version})

Init ==
    /\ runs \in System({1}, {0, 1})
    /\ base = runs
    /\ started = Nothing /\ upgrading = "no"
    /\ version = 1 /\ failures = 0 /\ inPlace = FALSE

Start ==
    /\ upgrading = "no" /\ started = Nothing /\ runs # Nothing
    /\ started' = runs
    /\ UNCHANGED <<runs, base, upgrading, version, failures, inPlace>>

Stop ==
    /\ started' = Nothing
    /\ UNCHANGED <<runs, base, upgrading, version, failures, inPlace>>

Begin ==
    /\ upgrading = "no" /\ started = Nothing
    /\ upgrading' \in Kind /\ version' = version + 1
    /\ inPlace' \in {inPlace, TRUE}
    /\ \/ base' = runs
       \/ (failures > 0 \/ inPlace') /\ base' = Nothing
    /\ UNCHANGED <<runs, started, failures>>

\* The upload changes what a start would run, at most to its own kernel.
Burn ==
    /\ upgrading \in Kind
    /\ base # Nothing =>
         runs' \in IF upgrading = "kernelless" THEN {base} ELSE {base} \cup NewKernel
    /\ base = Nothing => runs' \in AnySystem
    /\ UNCHANGED <<base, started, upgrading, version, failures, inPlace>>

End == upgrading' = "no" /\ base' = runs /\ UNCHANGED <<runs, started, version, inPlace>>

\* A whole upload is what a start runs from now on.
Install == upgrading = "whole" /\ runs \in NewSystem /\ End /\ UNCHANGED failures

\* One without a kernel has changed nothing; without a base, at least it has
\* left something to start.
Keep ==
    /\ upgrading = "kernelless"
    /\ base # Nothing => runs = base
    /\ failures <= 1 /\ ~inPlace => runs # Nothing
    /\ End /\ UNCHANGED failures

Fail == upgrading \in Kind /\ End /\ failures' = failures + 1

Next == Start \/ Stop \/ Begin \/ Burn \/ Install \/ Keep \/ Fail

Spec == Init /\ [][Next]_vars

=============================================================================
