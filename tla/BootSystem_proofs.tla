--------------------------- MODULE BootSystem_proofs ---------------------------
(***************************************************************************)
(* The whole device behaves like its parts: what is proved of the heap and *)
(* of the boot record alone holds when the boot loader runs both.          *)
(***************************************************************************)
EXTENDS BootSystem, Heap_proofs, BootInfo_proofs

\* A step of the device is a step of the heap, a new start of it, or none.
LEMMA SysHeapStep == [SysNext]_sysVars => [HeapNext \/ i_alloc]_heapVars
<1> SUFFICES ASSUME [SysNext]_sysVars PROVE HeapNext \/ i_alloc \/ UNCHANGED heapVars
  OBVIOUS
<1>1. CASE UNCHANGED sysVars
  BY <1>1 DEF sysVars
<1>2. CASE Start
  BY <1>2 DEF Start
<1>3. CASE Download
  BY <1>3 DEF Download
<1>4. CASE Proceed \/ Outside
  BY <1>4 DEF Proceed, Outside
<1> QED
  BY <1>1, <1>2, <1>3, <1>4 DEF SysNext

\* A step of the device is a step of the boot record's specification, or none.
LEMMA SysBootStep == [SysNext]_sysVars => [BootNext]_bootVars
<1> SUFFICES ASSUME [SysNext]_sysVars PROVE BootNext \/ UNCHANGED bootVars
  OBVIOUS
<1>1. CASE UNCHANGED sysVars
  BY <1>1 DEF sysVars
<1>2. CASE Start
  BY <1>2 DEF Start, BootNext
<1>3. CASE Download
  BY <1>3 DEF Download
<1>4. CASE Proceed \/ Outside
  BY <1>4 DEF Proceed, Outside, BootNext
<1> QED
  BY <1>1, <1>2, <1>3, <1>4 DEF SysNext

\* The device implements the heap it is made of, and through it the arena:
\* its restarts, uploads and power failures change nothing in that.
THEOREM SystemHeap == SysSpec => HeapSpec /\ ArenaSpec
<1>1. SysSpec => HeapSpec
  BY SysHeapStep, PTL DEF SysSpec, SysInit, HeapSpec
<1> QED
  BY <1>1, HeapIsArena, PTL

\* The device implements the specification of the boot record.
THEOREM SystemBoot == SysSpec => BootSpec
BY SysBootStep, PTL DEF SysSpec, SysInit, BootSpec

\* All invariants of the run hold of the device, for every arena, every set of
\* requests, every limit on the tries and any number of faults.
THEOREM SystemSafe ==
    FairSysSpec => /\ [](HeapTypeOK /\ BlocksApart /\ ListJoined)
                   /\ [](BootTypeOK /\ GoodBankLeft /\ UpgradeTried /\ TriesBounded)
<1>1. FairSysSpec => SysSpec
  BY DEF FairSysSpec
<1>2. FairSysSpec => [](HeapTypeOK /\ BlocksApart /\ ListJoined)
  BY <1>1, SystemHeap, HeapTypeCorrect, BlocksStayApart, ListStaysJoined, PTL
<1>3. FairSysSpec => [](BootTypeOK /\ GoodBankLeft /\ UpgradeTried /\ TriesBounded)
  BY <1>1, SystemBoot, BootTypeCorrect, GoodBankStays, UpgradeIsTried, TriesStayBounded, PTL
<1> QED
  BY <1>2, <1>3
=============================================================================
