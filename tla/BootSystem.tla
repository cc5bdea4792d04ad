------------------------------ MODULE BootSystem ------------------------------
(***************************************************************************)
(* The boot loader from power-on to the start of the system or the TFTP    *)
(* server, with its boot record (BootInfo) and its heap (Heap).  The heap  *)
(* is set up at every start (initHeap in src/boot/init/utility.c), and     *)
(* used in the download mode only: swNic_init takes its rings and buffers  *)
(* from it, and the Ethernet start-up a buffer for the settings.           *)
(***************************************************************************)
EXTENDS Heap, BootInfo

sysVars == <<heapVars, bootVars>>

SysInit == OneBlock /\ BootInit

Start == PowerOn /\ i_alloc

\* Nothing else runs before a call has returned, or when it never will.
Download == pc = "serving" /\ HeapNext /\ UNCHANGED bootVars
Proceed  ==
    /\ op = "none" /\ UNCHANGED heapVars
    /\ Continue \/ DownMode \/ Serve \/ BurnFails

\* The power fails, or the system outside the boot loader acts.
Outside  == (PowerFails \/ ClearCount \/ Watchdog) /\ UNCHANGED heapVars

SysNext == Start \/ Download \/ Proceed \/ Outside

SysSpec == SysInit /\ [][SysNext]_sysVars

\* The processor runs.  The steps of a start are taken in the end even if the
\* power fails again and again, for it does not always fail at the same one.
SysFairness ==
    /\ WF_sysVars(Start)
    /\ WF_sysVars(pc = "serving" /\ Work /\ UNCHANGED bootVars)
    /\ WF_sysVars(Continue /\ op = "none" /\ UNCHANGED heapVars)
    /\ SF_sysVars(LocalStart /\ UNCHANGED heapVars)
    /\ SF_sysVars(EraseInfo /\ UNCHANGED heapVars)
    /\ SF_sysVars(ProgramInfo /\ UNCHANGED heapVars)
    /\ WF_sysVars(Watchdog /\ UNCHANGED heapVars)

FairSysSpec == SysSpec /\ SysFairness
=============================================================================
