---------------------------- MODULE DualBank_proofs ----------------------------
(***************************************************************************)
(* Proofs about DualBank, for every width of a burn address, every forced  *)
(* mark and every set of uploads.                                          *)
(*                                                                         *)
(* The argument.  Burn addresses in flash never pass the forced mark,      *)
(* except that of a torn header, and a bank with a torn header holds no    *)
(* kernel (BanksOK).  An upgrade leaves the bank it found in use alone and *)
(* gives the other one a higher mark (MarksOK), and what it has burnt so   *)
(* far is what the sections before the current one brought (BurntOK).      *)
(* Those make a finished upgrade take effect, and hence a device that has  *)
(* failed at most once startable (FailuresOK).                             *)
(***************************************************************************)
EXTENDS DualBank, TLAPS

-----------------------------------------------------------------------------
(* Type correctness                                                        *)

\* What the assumption on the marks says of their order.
LEMMA MarkOrder ==
    /\ GoodBit \in Nat /\ ForceMark \in Nat /\ Erased \in Nat
    /\ NoImageMark = GoodBit /\ OldMark = GoodBit + 1 /\ BasicMark = GoodBit + 2
    /\ BasicMark < ForceMark /\ ForceMark < Erased
BY MarkAssumption DEF NoImageMark, OldMark, BasicMark, Erased

\* A mark is a word, and so is the one that follows it.
LEMMA MarkType ==
    ASSUME TypeOK, NEW b \in Bank
    PROVE  MarkOf(b) \in 0 .. Erased
<1>1. bank[b].burnAddr \in 0 .. Erased
  BY DEF TypeOK, BankRecord
<1> QED
  BY <1>1, MarkOrder DEF MarkOf

\* The mark that get_next_bank_mark gives out is a word.
LEMMA NextMarkType == TypeOK => NextMark \in 0 .. Erased
BY MarkOrder DEF TypeOK, NextMark

\* There are two banks, and one is the other of the other.
LEMMA BanksType == Preferred \in Bank /\ \A b \in Bank : Other(b) \in Bank
BY DEF Preferred, Other, Bank

\* An upload under way is a sequence, and so is none.
LEMMA ImageType == TypeOK => image \in Seq(Section) /\ Len(image) \in Nat
<1> SUFFICES ASSUME TypeOK PROVE image \in Seq(Section)
  OBVIOUS
<1>1. <<>> \in Seq(Section)
  OBVIOUS
<1> QED
  BY <1>1, ImageAssumption DEF TypeOK

\* The section under way is one of the sections uploads are made of.
LEMMA NowType ==
    ASSUME TypeOK, section <= Len(image)
    PROVE  image \in Seq(Section) /\ section \in DOMAIN image /\ Now \in Section
<1>1. image \in Seq(Section)
  BY ImageType
<1>2. section \in 1 .. Len(image)
  BY <1>1 DEF TypeOK
<1> QED
  BY <1>1, <1>2 DEF Now

\* The variables start with their types.
LEMMA InitTypeOK == Init => TypeOK
<1> SUFFICES ASSUME Init PROVE TypeOK
  OBVIOUS
<1>1. PICK sig \in Kernels, mark \in FirstBurnAddr :
         bank = [b \in Bank |-> IF b = 1
                   THEN [sig |-> sig, burnAddr |-> mark, kernel |-> 1, root |-> 1]
                   ELSE EmptyBank]
  BY DEF Init
<1>2. mark \in 0 .. Erased
  BY MarkOrder DEF FirstBurnAddr
<1>3. bank \in [Bank -> BankRecord]
  <2>1. [sig |-> sig, burnAddr |-> mark, kernel |-> 1, root |-> 1] \in BankRecord
    BY <1>2 DEF Init, BankRecord
  <2>2. EmptyBank \in BankRecord
    BY MarkOrder DEF Init, BankRecord, EmptyBank, Bad
  <2> QED
    BY <1>1, <2>1, <2>2
<1>4. version \in 1 .. MaxUploads + 1 /\ bank_mark \in 0 .. Erased
  BY ImageAssumption, MarkOrder DEF Init
<1>5. image \in Images \cup {<<>>} /\ section \in 1 .. Len(image) + 1
  <2>1. image = <<>> /\ section = 1 /\ Len(<<>>) = 0
    BY DEF Init
  <2> QED
    BY <2>1
<1> QED
  BY <1>3, <1>4, <1>5 DEF Init, TypeOK

\* The steps that write to the flash leave records in the banks.
LEMMA BankType ==
    ASSUME TypeOK, [Next]_vars PROVE bank' \in [Bank -> BankRecord']
<1>0. version \in Nat \ {0}
  BY ImageAssumption DEF TypeOK
<1>1. CASE UNCHANGED <<bank, version>>
  BY <1>1 DEF TypeOK, BankRecord
<1>2. CASE Upload
  <2>1. \A r \in BankRecord : r \in BankRecord'
    BY <1>0, <1>2 DEF Upload, BankRecord
  <2> QED
    BY <1>2, <2>1 DEF Upload, TypeOK
<1>3. CASE EraseKernel
  <2>1. ASSUME NEW r \in BankRecord, NEW x \in {Bad, r.root}
        PROVE  [r EXCEPT !.sig = "none", !.burnAddr = Erased, !.kernel = Bad, !.root = x]
                  \in BankRecord
    <3>1. x \in 0 .. version /\ Erased \in 0 .. Erased /\ Bad \in 0 .. version
      BY <1>0, <2>1, MarkOrder DEF BankRecord, Bad
    <3> QED
      BY <3>1, <2>1 DEF BankRecord
  <2>2. BankRecord' = BankRecord
    BY <1>3 DEF EraseKernel, BankRecord
  <2>3. ASSUME NEW b \in Bank PROVE bank'[b] \in BankRecord
    <3>1. CASE b = Target
      <4> DEFINE x == IF Now.fills THEN Bad ELSE bank[b].root
      <4>1. bank'[b] = [bank[b] EXCEPT !.sig = "none", !.burnAddr = Erased,
                                       !.kernel = Bad, !.root = x]
        BY <1>3, <3>1 DEF EraseKernel, TypeOK
      <4>2. x \in {Bad, bank[b].root} /\ bank[b] \in BankRecord
        BY DEF TypeOK
      <4> QED
        BY <4>1, <4>2, <2>1
    <3>2. CASE b # Target
      BY <1>3, <3>2 DEF EraseKernel, TypeOK
    <3> QED
      BY <3>1, <3>2
  <2>4. bank' = [b \in Bank |-> bank'[b]]
    BY <1>3 DEF EraseKernel, TypeOK
  <2> QED
    BY <2>2, <2>3, <2>4
<1>4. CASE EraseRoot
  <2>1. ASSUME NEW r \in BankRecord PROVE [r EXCEPT !.root = Bad] \in BankRecord
    BY <1>0 DEF BankRecord, Bad
  <2>2. BankRecord' = BankRecord
    BY <1>4 DEF EraseRoot, BankRecord
  <2> QED
    BY <1>4, <2>1, <2>2 DEF EraseRoot, TypeOK
<1>5. CASE ProgramHeader
  <2>1. Now.sig \in Kernels /\ NextMark \in 0 .. Erased
    BY <1>5, NextMarkType DEF ProgramHeader
  <2>2. ASSUME NEW r \in BankRecord
        PROVE  [r EXCEPT !.sig = Now.sig, !.burnAddr = NextMark] \in BankRecord
    BY <2>1 DEF BankRecord
  <2>3. BankRecord' = BankRecord
    BY <1>5 DEF ProgramHeader, BankRecord
  <2> QED
    BY <1>5, <2>2, <2>3 DEF ProgramHeader, TypeOK
<1>6. CASE ProgramKernel
  <2>1. ASSUME NEW r \in BankRecord PROVE [r EXCEPT !.kernel = version] \in BankRecord
    BY <1>0 DEF BankRecord
  <2>2. BankRecord' = BankRecord
    BY <1>6 DEF ProgramKernel, BankRecord
  <2> QED
    BY <1>6, <2>1, <2>2 DEF ProgramKernel, TypeOK
<1>7. CASE ProgramRoot
  <2>1. ASSUME NEW r \in BankRecord PROVE [r EXCEPT !.root = version] \in BankRecord
    BY <1>0 DEF BankRecord
  <2>2. BankRecord' = BankRecord
    BY <1>7 DEF ProgramRoot, BankRecord
  <2> QED
    BY <1>7, <2>1, <2>2 DEF ProgramRoot, TypeOK
<1>8. CASE TornHeader
  <2>1. ASSUME NEW r \in BankRecord PROVE [r EXCEPT !.sig = Now.sig] \in BankRecord
    BY <1>8 DEF TornHeader, BankRecord
  <2>2. BankRecord' = BankRecord
    BY <1>8 DEF TornHeader, BankRecord
  <2> QED
    BY <1>8, <2>1, <2>2 DEF TornHeader, TypeOK
<1>9. CASE Boot \/ BurnOther \/ Abandon \/ Finish \/ PowerLoss \/ UNCHANGED vars
  <2>1. UNCHANGED <<bank, version>>
    BY <1>9 DEF Boot, BurnOther, Abandon, Finish, PowerLoss, vars
  <2> QED
    BY <2>1, <1>1
<1> QED
  BY <1>2, <1>3, <1>4, <1>5, <1>6, <1>7, <1>8, <1>9 DEF Next

\* No step takes a variable out of its type.
LEMMA NextTypeOK == TypeOK /\ [Next]_vars => TypeOK'
<1> SUFFICES ASSUME TypeOK, [Next]_vars PROVE TypeOK'
  OBVIOUS
<1> USE DEF globals, flashing, history
<1>0. bank' \in [Bank -> BankRecord']
  BY BankType
<1>1. CASE Boot
  <2>1. PICK esc \in {"first", "second", "prompt", "never"} :
           LET first == Preferred
               ok1   == Bootable(first) /\ esc # "first"
               ok2   == Bootable(Other(first)) /\ esc \notin {"first", "second"}
           IN  /\ boot_bank' = Settled(first, ok1, ok2)
               /\ return_addr' = IF ok1 THEN first ELSE Other(first)
               /\ pc' = IF (ok1 \/ ok2) /\ esc # "prompt" THEN "linux" ELSE "serving"
    BY <1>1 DEF Boot
  <2>2. Preferred \in Bank /\ Other(Preferred) \in Bank
    BY BanksType
  <2>3. boot_bank' \in Bank /\ return_addr' \in Bank
    BY <2>1, <2>2, BanksType DEF Settled
  <2>4. bank_mark' \in 0 .. Erased
    BY <1>1, <2>3, MarkType DEF Boot
  <2> QED
    BY <1>0, <1>1, <2>1, <2>3, <2>4 DEF Boot, TypeOK
<1>2. CASE Upload
  <2>1. boot_bank' \in Bank /\ bank_mark' \in 0 .. Erased
    BY <1>2, MarkType, BanksType DEF Upload
  <2>2. image' \in Images /\ section' \in 1 .. Len(image') + 1
    <3>1. image' \in Images /\ image' \in Seq(Section)
      BY <1>2, ImageAssumption DEF Upload
    <3>2. Len(image') \in Nat
      BY <3>1
    <3> QED
      BY <1>2, <3>1, <3>2 DEF Upload
  <2>3. version' \in 1 .. MaxUploads + 1 /\ pc' = "burning" /\ step' = "check"
    BY <1>2, ImageAssumption DEF Upload, TypeOK
  <2>4. reboot' \in BOOLEAN /\ forced' \in BOOLEAN
    BY <1>2 DEF Upload
  <2>5. return_addr' \in Bank \cup {0} /\ failures' \in Nat
    BY <1>2 DEF Upload, TypeOK
  <2> QED
    BY <1>0, <2>1, <2>2, <2>3, <2>4, <2>5 DEF TypeOK
<1>3. CASE EraseKernel \/ EraseRoot \/ ProgramHeader
  <2>1. step' \in {"check", "erased", "header"} /\ reboot' \in BOOLEAN
    BY <1>3 DEF EraseKernel, EraseRoot, ProgramHeader, TypeOK
  <2>2. UNCHANGED <<pc, globals, image, section, version, history>>
    BY <1>3 DEF EraseKernel, EraseRoot, ProgramHeader
  <2> QED
    BY <1>0, <2>1, <2>2 DEF TypeOK
<1>4. CASE BurnOther \/ ProgramKernel \/ ProgramRoot
  <2>1. section <= Len(image) /\ section' = section + 1 /\ step' = "check"
    BY <1>4 DEF BurnOther, ProgramKernel, ProgramRoot, Burning, NextSection
  <2>2. section' \in 1 .. Len(image) + 1
    <3>1. section \in 1 .. Len(image) + 1 /\ Len(image) \in Nat
      BY <2>1, NowType DEF TypeOK
    <3> QED
      BY <2>1, <3>1
  <2>3. reboot' \in BOOLEAN
    BY <1>4 DEF BurnOther, ProgramKernel, ProgramRoot, TypeOK
  <2>4. UNCHANGED <<pc, globals, image, version, history>>
    BY <1>4 DEF BurnOther, ProgramKernel, ProgramRoot
  <2> QED
    BY <1>0, <2>1, <2>2, <2>3, <2>4 DEF TypeOK
<1>5. CASE Abandon \/ Finish \/ PowerLoss \/ TornHeader
  <2>1. pc' \in {"off", "linux", "serving", "burning"} /\ Return
    BY <1>5 DEF Abandon, Finish, PowerLoss, TornHeader, PowerOff
  <2>2. image' \in Images \cup {<<>>} /\ section' \in 1 .. Len(image') + 1
    <3>1. image' = <<>> /\ section' = 1 /\ Len(<<>>) = 0
      BY <2>1 DEF Return
    <3> QED
      BY <3>1
  <2>6. step' \in {"check", "erased", "header"} /\ reboot' \in BOOLEAN
    BY <2>1 DEF Return
  <2>3. boot_bank' \in Bank \cup {0} /\ return_addr' \in Bank \cup {0}
        /\ bank_mark' \in 0 .. Erased
    BY <1>5, MarkOrder DEF Abandon, Finish, PowerLoss, TornHeader, PowerOff, TypeOK
  <2>4. failures' \in Nat
    BY <1>5 DEF Abandon, Finish, PowerLoss, TornHeader, TypeOK
  <2>5. UNCHANGED <<version, forced>>
    BY <1>5 DEF Abandon, Finish, PowerLoss, TornHeader
  <2> QED
    BY <1>0, <2>1, <2>2, <2>3, <2>4, <2>5, <2>6 DEF TypeOK
<1>6. CASE UNCHANGED vars
  BY <1>0, <1>6 DEF vars, TypeOK
<1> QED
  BY <1>1, <1>2, <1>3, <1>4, <1>5, <1>6 DEF Next

\* Every variable keeps its type in every behaviour.
THEOREM TypeCorrect == Spec => []TypeOK
BY InitTypeOK, NextTypeOK, PTL DEF Spec

-----------------------------------------------------------------------------
(* Starting the best bank                                                  *)

\* check_dualbank_setting prefers a bank with the highest mark.
LEMMA PreferredIsHighest ==
    ASSUME TypeOK PROVE \A b \in Bank : MarkOf(b) <= MarkOf(Preferred)
<1>1. MarkOf(1) \in Nat /\ MarkOf(2) \in Nat
  BY MarkType, MarkOrder DEF Bank
<1> QED
  BY <1>1 DEF Bank, Preferred

\* Marks, checks and preference depend on the flash alone.
LEMMA SameFlash ==
    ASSUME bank' = bank
    PROVE  /\ Preferred' = Preferred
           /\ \A b : MarkOf(b)' = MarkOf(b) /\ Bootable(b)' = Bootable(b)
BY DEF Preferred, MarkOf, Bootable

\* Boot starts the preferred bank if its check passes, else the other one.
LEMMA BootRunsBestBank == ASSUME TypeOK, Boot PROVE RunsBestBank'
<1> SUFFICES ASSUME pc' = "linux"
             PROVE  /\ return_addr' \in Bank /\ boot_bank' = return_addr'
                    /\ Bootable(return_addr')
                    /\ \A b \in Bank : Bootable(b) => MarkOf(b) <= MarkOf(return_addr')
  BY SameFlash DEF Boot, RunsBestBank, Bootable, MarkOf
<1>1. PICK esc \in {"first", "second", "prompt", "never"} :
         LET first == Preferred
             ok1   == Bootable(first) /\ esc # "first"
             ok2   == Bootable(Other(first)) /\ esc \notin {"first", "second"}
         IN  /\ boot_bank' = Settled(first, ok1, ok2)
             /\ return_addr' = IF ok1 THEN first ELSE Other(first)
             /\ pc' = IF (ok1 \/ ok2) /\ esc # "prompt" THEN "linux" ELSE "serving"
  BY DEF Boot
<1>2. CASE Bootable(Preferred) /\ esc # "first"
  <2>1. return_addr' = Preferred /\ boot_bank' = Preferred
    BY <1>1, <1>2 DEF Settled
  <2> QED
    BY <1>2, <2>1, BanksType, PreferredIsHighest
<1>3. CASE ~(Bootable(Preferred) /\ esc # "first")
  <2>1. Bootable(Other(Preferred)) /\ esc \notin {"first", "second"}
    BY <1>1, <1>3
  <2>2. ~Bootable(Preferred)
    BY <1>3, <2>1
  <2>3. return_addr' = Other(Preferred) /\ boot_bank' = Other(Preferred)
    BY <1>1, <1>3, <2>1 DEF Settled
  <2>4. \A b \in Bank : b = Preferred \/ b = Other(Preferred)
    BY BanksType DEF Other, Bank
  <2>5. MarkOf(Other(Preferred)) \in Nat
    BY BanksType, MarkType, MarkOrder
  <2> QED
    BY <2>1, <2>2, <2>3, <2>4, <2>5, BanksType
<1> QED
  BY <1>2, <1>3

\* When Linux runs, it runs from the bootable bank with the highest mark, and
\* has been told so.
THEOREM StartsBestBank == Spec => []RunsBestBank
<1>1. Init => RunsBestBank
  BY DEF Init, RunsBestBank
<1>2. TypeOK /\ RunsBestBank /\ [Next]_vars => RunsBestBank'
  <2> SUFFICES ASSUME TypeOK, RunsBestBank, [Next]_vars PROVE RunsBestBank'
    OBVIOUS
  <2>1. CASE Boot
    BY <2>1, BootRunsBestBank
  <2>2. CASE Upload \/ EraseKernel \/ EraseRoot \/ BurnOther \/ ProgramHeader
             \/ ProgramKernel \/ ProgramRoot \/ Abandon \/ Finish \/ PowerLoss \/ TornHeader
    <3>1. pc' # "linux"
      BY <2>2 DEF Upload, EraseKernel, EraseRoot, BurnOther, ProgramHeader, ProgramKernel,
         ProgramRoot, Abandon, Finish, PowerLoss, TornHeader, PowerOff, Burning
    <3> QED
      BY <3>1 DEF RunsBestBank
  <2>3. CASE UNCHANGED vars
    BY <2>3, SameFlash DEF vars, globals, RunsBestBank
  <2> QED
    BY <2>1, <2>2, <2>3 DEF Next
<1> QED
  BY <1>1, <1>2, TypeCorrect, PTL DEF Spec

-----------------------------------------------------------------------------
(* The inductive invariants                                                *)

\* Is a kernel section under way or burnt?
KernelBegun ==
    \E k \in DOMAIN image :
        /\ image[k].sig \in Kernels
        /\ k < section \/ (k = section /\ step # "check")

KernelUnderWay == step # "check" /\ Now.sig \in Kernels

BanksOK ==
    \A b \in Bank :
        /\ bank[b].burnAddr \in 0 .. ForceMark \cup {Erased}
        /\ bank[b].burnAddr = Erased => bank[b].kernel = Bad
        /\ bank[b].sig = "none" => bank[b].burnAddr = Erased

\* Where the loop is, and what the section under way has done to its bank.
StepOK ==
    /\ boot_bank \in Bank
    /\ bank_mark \in NoImageMark .. ForceMark \cup {Erased}
    /\ step # "check" =>
          section <= Len(image) /\ Now.sig \in Kernels \cup {"root"}
    /\ step = "header" =>
          /\ Now.sig \in Kernels
          /\ bank[Target].sig = Now.sig /\ bank[Target].burnAddr = NextMark
    /\ KernelUnderWay => bank[Target].kernel = Bad
    /\ step = "erased" /\ KernelUnderWay => bank[Target].burnAddr = Erased

MarksOK ==
    /\ bank_mark # ForceMark => MarkOf(boot_bank) = bank_mark
    /\ bank_mark = ForceMark =>
          /\ MarkOf(Other(boot_bank)) <= ForceMark
          /\ boot_bank = 2 => MarkOf(1) < ForceMark
    /\ ~KernelBegun => Preferred = boot_bank

\* The last kernel burnt so far, and the root file system burnt after it.
BurntOK ==
    \A k \in DOMAIN image :
        /\ k < section /\ image[k].sig \in Kernels
        /\ \A j \in DOMAIN image : k < j /\ j < section => image[j].sig \notin Kernels
        /\ ~KernelUnderWay
        => /\ bank[Target].sig = image[k].sig
           /\ bank[Target].burnAddr = NextMark
           /\ bank[Target].kernel = version
           /\ (step = "check" /\ \E r \in DOMAIN image :
                                   k < r /\ r < section /\ image[r].sig = "root")
                => bank[Target].root = version

\* Bootable, but for a root file system that is being replaced.
AlmostBootable(b) ==
    /\ bank[b].sig \in Kernels /\ bank[b].kernel # Bad
    /\ bank[b].sig = "linux-root" => bank[b].root # Bad \/ (b = Target /\ step = "erased")

AtRestOK ==
    /\ failures = 0 => Bootable(Preferred)
    /\ failures <= 1 => \E b \in Bank : Bootable(b)

FailuresOK ==
    /\ bank_mark # ForceMark
    /\ failures = 0 => Bootable(boot_bank)
    /\ failures <= 1 /\ ~KernelBegun => \E b \in Bank : AlmostBootable(b)

BurnInv == BanksOK /\ (pc = "burning" => StepOK /\ MarksOK /\ BurntOK)

FailInv == ~forced => IF pc = "burning" THEN FailuresOK ELSE AtRestOK

\* The mark of a bank is one in use, or that of a torn header.
LEMMA MarkRange ==
    ASSUME TypeOK, BanksOK, NEW b \in Bank
    PROVE  MarkOf(b) \in NoImageMark .. ForceMark \cup {Erased}
BY MarkOrder DEF MarkOf, BanksOK

\* The next mark is an ordinary one.
LEMMA NextMarkRange == StepOK => NextMark \in 0 .. ForceMark
BY MarkOrder DEF StepOK, NextMark

\* The bank an upgrade burns is a bank, and the other one unless forced.
LEMMA TargetBank ==
    ASSUME boot_bank \in Bank
    PROVE  /\ Target \in Bank
           /\ bank_mark # ForceMark => Target = Other(boot_bank) /\ Target # boot_bank
           /\ bank_mark = ForceMark => Target = boot_bank
           /\ Other(boot_bank) # boot_bank
           /\ \A b \in Bank : b = boot_bank \/ b = Other(boot_bank)
BY DEF Target, Other, Bank

-----------------------------------------------------------------------------
(* Burn addresses in flash                                                 *)

\* No step leaves a burn address past the forced mark, but for a torn header
\* over a bank without a kernel.
LEMMA BanksOKNext ==
    ASSUME TypeOK, BurnInv, [Next]_vars PROVE BanksOK'
<1> USE DEF BanksOK
<1>0. \A b \in Bank : bank[b].burnAddr \in 0 .. ForceMark \cup {Erased}
  BY DEF BurnInv
<1>1. CASE bank' = bank
  BY <1>1 DEF BurnInv
<1>2. CASE EraseKernel
  <2>1. \A b \in Bank : bank'[b] = bank[b] \/
          (bank'[b].sig = "none" /\ bank'[b].burnAddr = Erased /\ bank'[b].kernel = Bad)
    BY <1>2 DEF EraseKernel, TypeOK, BankRecord
  <2> QED
    BY <2>1 DEF BurnInv
<1>3. CASE EraseRoot \/ ProgramRoot
  <2>1. \A b \in Bank : /\ bank'[b].sig = bank[b].sig /\ bank'[b].burnAddr = bank[b].burnAddr
                        /\ bank'[b].kernel = bank[b].kernel
    <3>1. PICK v : bank' = [bank EXCEPT ![Target].root = v]
      BY <1>3 DEF EraseRoot, ProgramRoot
    <3> QED
      BY <3>1 DEF TypeOK, BankRecord
  <2> QED
    BY <2>1 DEF BurnInv
<1>4. CASE ProgramHeader
  <2>1. StepOK /\ Now.sig # "none" /\ step = "erased" /\ KernelUnderWay
    BY <1>4 DEF ProgramHeader, Burning, BurnInv, Kernels, KernelUnderWay
  <2>2. \A b \in Bank : bank'[b] = bank[b] \/
          (bank'[b].sig = Now.sig /\ bank'[b].burnAddr = NextMark)
    BY <1>4 DEF ProgramHeader, TypeOK, BankRecord
  <2>3. NextMark \in 0 .. ForceMark /\ NextMark # Erased
    BY <2>1, NextMarkRange, MarkOrder
  <2> QED
    BY <2>1, <2>2, <2>3 DEF BurnInv
<1>5. CASE ProgramKernel
  <2>1. StepOK /\ step = "header"
    BY <1>5 DEF ProgramKernel, Burning, BurnInv
  <2>2. \A b \in Bank : bank'[b].sig = bank[b].sig /\ bank'[b].burnAddr = bank[b].burnAddr
    BY <1>5 DEF ProgramKernel, TypeOK, BankRecord
  <2>3. \A b \in Bank : bank'[b] = bank[b] \/ b = Target
    BY <1>5 DEF ProgramKernel, TypeOK
  <2>4. bank[Target].burnAddr = NextMark
    BY <2>1 DEF StepOK
  <2>5. NextMark # Erased
    BY <2>1, NextMarkRange, MarkOrder
  <2> QED
    BY <2>2, <2>3, <2>4, <2>5 DEF BurnInv
<1>6. CASE TornHeader
  <2>1. StepOK /\ Now.sig # "none" /\ step = "erased" /\ KernelUnderWay
    BY <1>6 DEF TornHeader, Burning, BurnInv, Kernels, KernelUnderWay
  <2>2. \A b \in Bank : bank'[b] = bank[b] \/
          (/\ b = Target /\ bank'[b].sig = Now.sig
           /\ bank'[b].burnAddr = bank[b].burnAddr /\ bank'[b].kernel = bank[b].kernel)
    BY <1>6 DEF TornHeader, TypeOK, BankRecord
  <2>3. bank[Target].burnAddr = Erased /\ bank[Target].kernel = Bad
    BY <2>1 DEF StepOK
  <2> QED
    BY <2>1, <2>2, <2>3 DEF BurnInv
<1> QED
  BY <1>1, <1>2, <1>3, <1>4, <1>5, <1>6
     DEF Next, Boot, Upload, BurnOther, Abandon, Finish, PowerLoss, vars

-----------------------------------------------------------------------------
(* The bank in use and the marks                                           *)

\* A step that writes to the target bank only, with a kernel begun.
LEMMA MarksFrame ==
    ASSUME StepOK, MarksOK, KernelBegun',
           UNCHANGED <<boot_bank, bank_mark>>,
           \A b \in Bank : b # Target => bank'[b] = bank[b]
    PROVE  MarksOK'
<1>1. boot_bank \in Bank /\ Other(boot_bank) \in Bank
  BY BanksType DEF StepOK
<1>2. \A b \in Bank : b # Target => MarkOf(b)' = MarkOf(b)
  BY DEF MarkOf
<1>3. CASE bank_mark # ForceMark
  BY <1>1, <1>2, <1>3, TargetBank DEF MarksOK, MarkOf
<1>4. CASE bank_mark = ForceMark
  <2>1. MarkOf(Other(boot_bank))' = MarkOf(Other(boot_bank))
    BY <1>1, <1>2, <1>4, TargetBank
  <2>2. Other(boot_bank)' = Other(boot_bank)
    BY DEF Other
  <2>3. MarkOf(Other(boot_bank))' <= ForceMark
    BY <1>4, <2>1 DEF MarksOK
  <2>4. boot_bank = 2 => MarkOf(1)' = MarkOf(1)
    BY <1>2, <1>4, TargetBank, <1>1 DEF Bank
  <2> QED
    BY <1>4, <2>2, <2>3, <2>4 DEF MarksOK
<1> QED
  BY <1>3, <1>4

\* A step that writes no header and begins no kernel.
LEMMA MarksFrameHeaders ==
    ASSUME StepOK, MarksOK, KernelBegun => KernelBegun',
           UNCHANGED <<boot_bank, bank_mark>>,
           \A b \in Bank : /\ bank'[b].sig = bank[b].sig
                           /\ bank'[b].burnAddr = bank[b].burnAddr
    PROVE  MarksOK'
<1>1. \A b \in Bank : MarkOf(b)' = MarkOf(b)
  BY DEF MarkOf
<1>2. Preferred' = Preferred
  BY <1>1 DEF Preferred, Bank
<1>3. boot_bank \in Bank /\ Other(boot_bank) \in Bank /\ Other(boot_bank)' = Other(boot_bank)
  BY BanksType DEF StepOK, Other
<1>4. MarkOf(boot_bank)' = MarkOf(boot_bank)
      /\ MarkOf(Other(boot_bank))' = MarkOf(Other(boot_bank))
      /\ (boot_bank = 2 => MarkOf(1)' = MarkOf(1))
  BY <1>1, <1>3 DEF Bank
<1> QED
  BY <1>2, <1>3, <1>4 DEF MarksOK

-----------------------------------------------------------------------------
(* Each step of the loop                                                   *)

LoopInv == StepOK /\ MarksOK /\ BurntOK

\* An upgrade begins with nothing burnt and the preferred bank in use.
LEMMA UploadLoop == ASSUME TypeOK, BanksOK, Upload PROVE LoopInv'
<1>1. /\ boot_bank' = Preferred /\ bank_mark' = MarkOf(Preferred) /\ step' = "check"
      /\ section' = 1 /\ bank' = bank
  BY DEF Upload
<1>2. Preferred \in Bank /\ Other(Preferred) \in Bank
  BY BanksType
<1>3. StepOK'
  BY <1>1, <1>2, MarkRange DEF StepOK, KernelUnderWay
<1>4. MarksOK'
  <2>1. MarkOf(boot_bank)' = MarkOf(Preferred)
    BY <1>1 DEF MarkOf
  <2>2. MarkOf(Other(boot_bank))' = MarkOf(Other(Preferred))
    BY <1>1 DEF MarkOf, Other
  <2>3. MarkOf(Other(Preferred)) <= MarkOf(Preferred)
    BY <1>2, PreferredIsHighest
  <2>4. boot_bank' = 2 => MarkOf(1)' < MarkOf(2)'
    <3>1. ASSUME Preferred = 2 PROVE MarkOf(1) < MarkOf(2)
      BY <3>1 DEF Preferred
    <3> QED
      BY <3>1, <1>1, SameFlash
  <2>5. boot_bank' = 2 => MarkOf(2)' = bank_mark'
    BY <1>1, SameFlash
  <2>6. Preferred' = boot_bank'
    BY <1>1, SameFlash
  <2> QED
    BY <1>1, <2>1, <2>2, <2>3, <2>4, <2>5, <2>6 DEF MarksOK
<1>5. BurntOK'
  <2>1. image' \in Seq(Section)
    BY ImageAssumption DEF Upload
  <2>2. \A k \in DOMAIN image' : ~(k < section')
    BY <1>1, <2>1
  <2> QED
    BY <2>2 DEF BurntOK
<1> QED
  BY <1>3, <1>4, <1>5 DEF LoopInv

\* Erasing for a kernel leaves the target bank without header and kernel.
LEMMA EraseKernelLoop == ASSUME TypeOK, LoopInv, EraseKernel PROVE LoopInv'
<1> USE DEF LoopInv
<1>1. /\ step' = "erased" /\ section <= Len(image) /\ Now.sig \in Kernels /\ step = "check"
      /\ UNCHANGED <<boot_bank, bank_mark, image, section>>
  BY DEF EraseKernel, Burning, globals
<1>2. Now' = Now /\ Target' = Target /\ section \in DOMAIN image
  BY <1>1, NowType DEF Now, Target, Other
<1>3. Target \in Bank
  BY TargetBank DEF StepOK
<1>4. /\ bank'[Target].burnAddr = Erased /\ bank'[Target].kernel = Bad
      /\ \A b \in Bank : b # Target => bank'[b] = bank[b]
  BY <1>3 DEF EraseKernel, TypeOK, BankRecord
<1>5. KernelBegun' /\ KernelUnderWay'
  BY <1>1, <1>2 DEF KernelBegun, KernelUnderWay, Now
<1>6. StepOK'
  BY <1>1, <1>2, <1>4 DEF StepOK
<1>7. MarksOK'
  BY <1>1, <1>4, <1>5, MarksFrame
<1>8. BurntOK'
  BY <1>5 DEF BurntOK
<1> QED
  BY <1>6, <1>7, <1>8

\* The header goes to the target bank, with the next mark.
LEMMA ProgramHeaderLoop == ASSUME TypeOK, LoopInv, ProgramHeader PROVE LoopInv'
<1> USE DEF LoopInv
<1>1. /\ step' = "header" /\ section <= Len(image) /\ Now.sig \in Kernels /\ step = "erased"
      /\ UNCHANGED <<boot_bank, bank_mark, image, section>>
  BY DEF ProgramHeader, Burning, globals
<1>2. Now' = Now /\ Target' = Target /\ NextMark' = NextMark /\ section \in DOMAIN image
  BY <1>1, NowType DEF Now, Target, Other, NextMark
<1>3. Target \in Bank /\ bank[Target].kernel = Bad
  BY <1>1, TargetBank DEF StepOK, KernelUnderWay
<1>4. /\ bank'[Target].sig = Now.sig /\ bank'[Target].burnAddr = NextMark
      /\ bank'[Target].kernel = Bad
      /\ \A b \in Bank : b # Target => bank'[b] = bank[b]
  BY <1>3 DEF ProgramHeader, TypeOK, BankRecord
<1>5. KernelBegun' /\ KernelUnderWay'
  BY <1>1, <1>2 DEF KernelBegun, KernelUnderWay, Now
<1>6. StepOK'
  BY <1>1, <1>2, <1>4 DEF StepOK
<1>7. MarksOK'
  BY <1>1, <1>4, <1>5, MarksFrame
<1>8. BurntOK'
  BY <1>5 DEF BurntOK
<1> QED
  BY <1>6, <1>7, <1>8

\* Erasing for a root file system leaves headers and kernels alone.
LEMMA EraseRootLoop == ASSUME TypeOK, LoopInv, EraseRoot PROVE LoopInv'
<1> USE DEF LoopInv
<1>1. /\ step' = "erased" /\ section <= Len(image) /\ Now.sig = "root" /\ step = "check"
      /\ UNCHANGED <<boot_bank, bank_mark, image, section, version>>
  BY DEF EraseRoot, Burning, globals
<1>2. Now' = Now /\ Target' = Target /\ NextMark' = NextMark
  BY <1>1 DEF Now, Target, Other, NextMark
<1>3. Target \in Bank
  BY TargetBank DEF StepOK
<1>4. \A b \in Bank : /\ bank'[b].sig = bank[b].sig /\ bank'[b].burnAddr = bank[b].burnAddr
                      /\ bank'[b].kernel = bank[b].kernel
  BY <1>3 DEF EraseRoot, TypeOK, BankRecord
<1>5. KernelBegun => KernelBegun'
  BY <1>1 DEF KernelBegun
<1>6. ~KernelUnderWay /\ ~KernelUnderWay'
  BY <1>1, <1>2 DEF KernelUnderWay, Kernels
<1>7. StepOK'
  BY <1>1, <1>2, <1>6 DEF StepOK
<1>8. MarksOK'
  BY <1>1, <1>4, <1>5, MarksFrameHeaders
<1>9. BurntOK'
  BY <1>1, <1>2, <1>3, <1>4, <1>6 DEF BurntOK
<1> QED
  BY <1>7, <1>8, <1>9

\* A section for another place changes nothing in the banks.
LEMMA BurnOtherLoop == ASSUME TypeOK, LoopInv, BurnOther PROVE LoopInv'
<1> USE DEF LoopInv
<1>1. /\ step' = "check" /\ section <= Len(image) /\ Now.sig \in {"web", "boot"}
      /\ step = "check" /\ section' = section + 1
      /\ UNCHANGED <<bank, boot_bank, bank_mark, image, version>>
  BY DEF BurnOther, Burning, NextSection, globals
<1>2. Target' = Target /\ NextMark' = NextMark
  BY <1>1 DEF Target, Other, NextMark
<1>3. image \in Seq(Section) /\ section \in DOMAIN image
  BY <1>1, NowType
<1>4. \A k \in DOMAIN image : k < section' <=> k < section \/ k = section
  BY <1>1, <1>3
<1>5. KernelBegun => KernelBegun'
  BY <1>1, <1>4 DEF KernelBegun
<1>6. StepOK'
  BY <1>1 DEF StepOK, KernelUnderWay
<1>7. MarksOK'
  BY <1>1, <1>5, MarksFrameHeaders
<1>8. image[section].sig \notin Kernels /\ image[section].sig # "root"
  BY <1>1 DEF Now, Kernels
<1>9. ~KernelUnderWay
  BY <1>1 DEF KernelUnderWay
<1>10. BurntOK'
  BY <1>1, <1>2, <1>4, <1>8, <1>9 DEF BurntOK
<1> QED
  BY <1>6, <1>7, <1>10

\* The kernel just programmed is the last one burnt.
LEMMA ProgramKernelLoop == ASSUME TypeOK, LoopInv, ProgramKernel PROVE LoopInv'
<1> USE DEF LoopInv
<1>1. /\ step' = "check" /\ section <= Len(image) /\ step = "header"
      /\ section' = section + 1
      /\ UNCHANGED <<boot_bank, bank_mark, image, version>>
  BY DEF ProgramKernel, Burning, NextSection, globals
<1>2. Target' = Target /\ NextMark' = NextMark
  BY <1>1 DEF Target, Other, NextMark
<1>3. image \in Seq(Section) /\ section \in DOMAIN image /\ image[section].sig \in Kernels
  BY <1>1, NowType DEF StepOK, Now
<1>4. \A k \in DOMAIN image : k < section' <=> k < section \/ k = section
  BY <1>1, <1>3
<1>5. Target \in Bank
  BY TargetBank DEF StepOK
<1>6. /\ bank'[Target].sig = image[section].sig /\ bank'[Target].burnAddr = NextMark
      /\ bank'[Target].kernel = version
      /\ \A b \in Bank : b # Target => bank'[b] = bank[b]
  <2>1. bank[Target].sig = image[section].sig /\ bank[Target].burnAddr = NextMark
    BY <1>1 DEF StepOK, Now
  <2> QED
    BY <1>5, <2>1 DEF ProgramKernel, TypeOK, BankRecord
<1>7. KernelBegun'
  BY <1>1, <1>3, <1>4 DEF KernelBegun
<1>8. StepOK'
  BY <1>1 DEF StepOK, KernelUnderWay
<1>9. MarksOK'
  BY <1>1, <1>6, <1>7, MarksFrame
<1>10. BurntOK'
  <2>1. SUFFICES
          ASSUME NEW k \in DOMAIN image, k < section',
                 \A j \in DOMAIN image : k < j /\ j < section' => image[j].sig \notin Kernels
          PROVE  /\ bank'[Target].sig = image[k].sig
                 /\ bank'[Target].burnAddr = NextMark
                 /\ bank'[Target].kernel = version
                 /\ ~\E r \in DOMAIN image : k < r /\ r < section'
    BY <1>1, <1>2 DEF BurntOK
  <2>2. k = section
    BY <1>3, <1>4, <2>1
  <2> QED
    BY <1>1, <1>3, <1>6, <2>2
<1> QED
  BY <1>8, <1>9, <1>10

\* The root file system just programmed follows the last kernel burnt.
LEMMA ProgramRootLoop == ASSUME TypeOK, LoopInv, ProgramRoot PROVE LoopInv'
<1> USE DEF LoopInv
<1>1. /\ step' = "check" /\ section <= Len(image) /\ step = "erased" /\ Now.sig = "root"
      /\ section' = section + 1
      /\ UNCHANGED <<boot_bank, bank_mark, image, version>>
  BY DEF ProgramRoot, Burning, NextSection, globals
<1>2. Target' = Target /\ NextMark' = NextMark
  BY <1>1 DEF Target, Other, NextMark
<1>3. image \in Seq(Section) /\ section \in DOMAIN image /\ image[section].sig \notin Kernels
  BY <1>1, NowType DEF Now, Kernels
<1>4. \A k \in DOMAIN image : k < section' <=> k < section \/ k = section
  BY <1>1, <1>3
<1>5. Target \in Bank
  BY TargetBank DEF StepOK
<1>6. /\ bank'[Target].root = version
      /\ \A b \in Bank : /\ bank'[b].sig = bank[b].sig /\ bank'[b].burnAddr = bank[b].burnAddr
                         /\ bank'[b].kernel = bank[b].kernel
  BY <1>5 DEF ProgramRoot, TypeOK, BankRecord
<1>7. KernelBegun => KernelBegun'
  BY <1>1, <1>3, <1>4 DEF KernelBegun
<1>8. StepOK'
  BY <1>1 DEF StepOK, KernelUnderWay
<1>9. MarksOK'
  BY <1>1, <1>6, <1>7, MarksFrameHeaders
<1>10. ~KernelUnderWay
  BY <1>1 DEF KernelUnderWay, Kernels
<1>11. BurntOK'
  BY <1>1, <1>2, <1>3, <1>4, <1>5, <1>6, <1>10 DEF BurntOK
<1> QED
  BY <1>8, <1>9, <1>11

\* What an upgrade has done to the banks so far is what it should have done.
THEOREM BurnInvariant == Spec => []BurnInv
<1>1. Init => BurnInv
  <2> SUFFICES ASSUME Init PROVE BanksOK
    BY DEF Init, BurnInv
  <2>1. PICK sig \in Kernels, mark \in FirstBurnAddr :
           bank = [b \in Bank |-> IF b = 1
                     THEN [sig |-> sig, burnAddr |-> mark, kernel |-> 1, root |-> 1]
                     ELSE EmptyBank]
    BY DEF Init
  <2>2. mark \in 0 .. ForceMark /\ mark # Erased /\ sig # "none"
    BY MarkOrder DEF FirstBurnAddr, Kernels
  <2> QED
    BY <2>1, <2>2 DEF BanksOK, EmptyBank
<1>2. TypeOK /\ BurnInv /\ [Next]_vars => BurnInv'
  <2> SUFFICES ASSUME TypeOK, BurnInv, [Next]_vars, pc' = "burning" PROVE LoopInv'
    BY BanksOKNext DEF BurnInv, LoopInv
  <2>1. CASE Upload
    BY <2>1, UploadLoop DEF BurnInv
  <2>2. CASE EraseKernel \/ EraseRoot \/ BurnOther \/ ProgramHeader \/ ProgramKernel \/ ProgramRoot
    <3>1. LoopInv
      BY <2>2 DEF EraseKernel, EraseRoot, BurnOther, ProgramHeader, ProgramKernel,
                  ProgramRoot, Burning, BurnInv, LoopInv
    <3> QED
      BY <2>2, <3>1, EraseKernelLoop, EraseRootLoop, BurnOtherLoop, ProgramHeaderLoop,
         ProgramKernelLoop, ProgramRootLoop
  <2>3. CASE Boot \/ Abandon \/ Finish \/ PowerLoss \/ TornHeader
    <3>1. pc' # "burning"
      BY <2>3 DEF Boot, Abandon, Finish, PowerLoss, TornHeader, PowerOff
    <3> QED
      BY <3>1
  <2>4. CASE UNCHANGED vars
    <3>1. LoopInv
      BY <2>4 DEF vars, BurnInv, LoopInv
    <3> QED
      BY <3>1, <2>4 DEF vars, globals, flashing, LoopInv, StepOK, MarksOK, BurntOK, Now, Target,
         NextMark, Other, KernelUnderWay, KernelBegun, Preferred, MarkOf
  <2> QED
    BY <2>1, <2>2, <2>3, <2>4 DEF Next
<1> QED
  BY <1>1, <1>2, TypeCorrect, PTL DEF Spec

-----------------------------------------------------------------------------
(* A finished upgrade takes effect                                         *)

\* What the last kernel of a whole file leaves in the target bank.
LEMMA WholeIsBurnt ==
    ASSUME TypeOK, LoopInv, section > Len(image), Whole(image)
    PROVE  /\ Bootable(Target) /\ bank[Target].kernel = version
           /\ bank[Target].sig = "linux-root" => bank[Target].root = version
           /\ bank[Target].burnAddr = NextMark
<1> USE DEF LoopInv
<1>1. image \in Seq(Section) /\ section = Len(image) + 1 /\ version \in Nat \ {0}
  <2>1. image \in Seq(Section) /\ version \in Nat \ {0}
    BY ImageType, ImageAssumption DEF TypeOK
  <2>2. section \in 1 .. Len(image) + 1 /\ Len(image) \in Nat
    BY <2>1 DEF TypeOK
  <2> QED
    BY <2>1, <2>2
<1>2. step = "check" /\ ~KernelUnderWay
  BY <1>1 DEF StepOK, KernelUnderWay, TypeOK
<1>3. \A k \in DOMAIN image : k < section
  BY <1>1
<1>4. PICK k \in DOMAIN image :
        /\ image[k].sig \in Kernels
        /\ \A j \in DOMAIN image : j > k => image[j].sig \notin Kernels
        /\ image[k].sig = "linux-root" =>
              \E r \in DOMAIN image : r > k /\ image[r].sig = "root"
  BY DEF Whole
<1>5. \A j \in DOMAIN image : k < j <=> j > k
  BY <1>1
<1>6. /\ bank[Target].sig = image[k].sig /\ bank[Target].burnAddr = NextMark
      /\ bank[Target].kernel = version
  BY <1>2, <1>3, <1>4, <1>5 DEF BurntOK
<1>7. image[k].sig = "linux-root" => bank[Target].root = version
  BY <1>2, <1>3, <1>4, <1>5 DEF BurntOK
<1> QED
  BY <1>1, <1>4, <1>6, <1>7 DEF Bootable, Bad

\* The new bank is preferred to the old one, or the old one does not boot.
LEMMA WholeStarts ==
    ASSUME TypeOK, BanksOK, LoopInv, section > Len(image), Whole(image)
    PROVE  /\ Starts(Target)
           /\ bank_mark # ForceMark /\ Bootable(boot_bank) => Preferred = Target
<1> USE DEF LoopInv
<1>1. /\ Bootable(Target) /\ bank[Target].sig # "none"
      /\ bank[Target].burnAddr = NextMark
  BY WholeIsBurnt DEF Bootable, Kernels
<1>2. boot_bank \in Bank /\ Target \in Bank
  BY TargetBank DEF StepOK
<1>3. MarkOf(Target) = IF NextMark >= GoodBit THEN NextMark ELSE OldMark
  BY <1>1 DEF MarkOf
<1>4. \A b \in Bank : /\ MarkOf(b) \in Nat
                      /\ MarkOf(b) <= ForceMark \/ MarkOf(b) = Erased
                      /\ MarkOf(b) = Erased => ~Bootable(b)
  <2>1. \A b \in Bank : MarkOf(b) \in NoImageMark .. ForceMark \cup {Erased}
    BY MarkRange
  <2>2. ASSUME NEW b \in Bank, MarkOf(b) = Erased PROVE ~Bootable(b)
    BY <2>2, MarkOrder DEF MarkOf, BanksOK, Bootable
  <2> QED
    BY <2>1, <2>2, MarkOrder
<1>5. CASE bank_mark = ForceMark
  <2>1. NextMark = ForceMark /\ Target = boot_bank
    BY <1>2, <1>5, MarkOrder, TargetBank DEF NextMark
  <2>2. MarkOf(Target) = ForceMark
    BY <1>3, <2>1, MarkOrder
  <2>3. /\ MarkOf(Other(boot_bank)) <= ForceMark
        /\ boot_bank = 2 => MarkOf(1) < ForceMark
    BY <1>5 DEF MarksOK
  <2>4. Preferred = Target
    BY <1>2, <1>4, <2>1, <2>2, <2>3, MarkOrder DEF Preferred, Other, Bank
  <2> QED
    BY <1>1, <1>5, <2>4 DEF Starts
<1>6. CASE bank_mark = Erased
  <2>1. MarkOf(boot_bank) = Erased /\ ~Bootable(boot_bank)
    BY <1>2, <1>4, <1>6, MarkOrder DEF MarksOK
  <2>2. Preferred = Target \/ Preferred = boot_bank
    BY <1>2, <1>6, MarkOrder, TargetBank, BanksType
  <2> QED
    BY <1>1, <2>1, <2>2 DEF Starts
<1>7. CASE bank_mark # ForceMark /\ bank_mark # Erased
  <2>1. bank_mark \in NoImageMark .. ForceMark /\ MarkOf(boot_bank) = bank_mark
    BY <1>7 DEF StepOK, MarksOK
  <2>2. NextMark > bank_mark /\ NextMark >= GoodBit /\ NextMark \in Nat
    BY <1>7, <2>1, MarkOrder DEF NextMark
  <2>3. MarkOf(Target) > MarkOf(boot_bank)
    BY <1>3, <2>1, <2>2
  <2>4. Preferred = Target
    BY <1>2, <1>4, <1>7, <2>3, TargetBank DEF Preferred, Other, Bank
  <2> QED
    BY <1>1, <2>4 DEF Starts
<1> QED
  BY <1>5, <1>6, <1>7

\* A finished upgrade that brought all it needs is what a restart runs.
THEOREM UpgradesTakeEffect == Spec => []UpgradeTakesEffect
<1>1. TypeOK /\ BurnInv => UpgradeTakesEffect
  <2> SUFFICES ASSUME TypeOK, BurnInv, pc = "burning", section > Len(image), Whole(image)
               PROVE  /\ Starts(Target) /\ bank[Target].kernel = version
                      /\ bank[Target].sig = "linux-root" => bank[Target].root = version
    BY DEF UpgradeTakesEffect
  <2>1. BanksOK /\ LoopInv
    BY DEF BurnInv, LoopInv
  <2> QED
    BY <2>1, WholeIsBurnt, WholeStarts
<1> QED
  BY <1>1, TypeCorrect, BurnInvariant, PTL

-----------------------------------------------------------------------------
(* One failure is safe                                                     *)

\* While the loop burns, the bank in use is spared, and until a kernel is
\* begun some bank still boots, once its root file system is whole again.
LEMMA BurningFailures ==
    ASSUME TypeOK, LoopInv, FailuresOK, pc = "burning",
           EraseKernel \/ EraseRoot \/ BurnOther \/ ProgramHeader \/ ProgramKernel \/ ProgramRoot
    PROVE  FailuresOK'
<1> USE DEF LoopInv
<1>1. /\ UNCHANGED <<boot_bank, bank_mark, image, failures, version>>
      /\ section <= Len(image) /\ version # Bad
  <2>1. version \in Nat \ {0}
    BY ImageAssumption DEF TypeOK
  <2> QED
    BY <2>1 DEF EraseKernel, EraseRoot, BurnOther, ProgramHeader, ProgramKernel, ProgramRoot,
       Burning, globals, history, Bad
<1>2. Target' = Target /\ Target # boot_bank /\ Target \in Bank /\ boot_bank \in Bank
  BY <1>1, TargetBank DEF Target, Other, FailuresOK, StepOK
<1>3. \A b \in Bank : b # Target => bank'[b] = bank[b]
  BY <1>2 DEF EraseKernel, EraseRoot, BurnOther, ProgramHeader, ProgramKernel, ProgramRoot, TypeOK
<1>4. Bootable(boot_bank)' = Bootable(boot_bank)
  BY <1>1, <1>2, <1>3 DEF Bootable
<1>5. section \in DOMAIN image /\ image \in Seq(Section)
  BY <1>1, NowType
<1>6. CASE EraseKernel \/ ProgramHeader \/ ProgramKernel
  <2>1. KernelBegun'
    <3>1. Now.sig \in Kernels
      BY <1>6 DEF EraseKernel, ProgramHeader, ProgramKernel, Burning, StepOK
    <3>2. section < section' \/ (section = section' /\ step' # "check")
      BY <1>5, <1>6 DEF EraseKernel, ProgramHeader, ProgramKernel, NextSection
    <3> QED
      BY <1>1, <1>5, <3>1, <3>2 DEF KernelBegun, Now
  <2> QED
    BY <1>1, <1>4, <2>1 DEF FailuresOK
<1>7. CASE EraseRoot
  <2>1. /\ step = "check" /\ step' = "erased" /\ section' = section /\ Now.sig = "root"
        /\ \A b \in Bank : bank'[b].sig = bank[b].sig /\ bank'[b].kernel = bank[b].kernel
    BY <1>2, <1>7 DEF EraseRoot, Burning, TypeOK, BankRecord
  <2>2. KernelBegun => KernelBegun'
    BY <1>1, <2>1 DEF KernelBegun
  <2>3. \A b \in Bank : AlmostBootable(b) => AlmostBootable(b)'
    BY <1>2, <1>3, <2>1 DEF AlmostBootable
  <2> QED
    BY <1>1, <1>4, <2>2, <2>3 DEF FailuresOK
<1>8. CASE BurnOther
  <2>1. step = "check" /\ step' = "check" /\ section' = section + 1 /\ bank' = bank
    BY <1>8 DEF BurnOther, Burning, NextSection
  <2>2. KernelBegun => KernelBegun'
    BY <1>1, <1>5, <2>1 DEF KernelBegun
  <2>3. \A b \in Bank : AlmostBootable(b) => AlmostBootable(b)'
    BY <2>1 DEF AlmostBootable
  <2> QED
    BY <1>1, <1>4, <2>2, <2>3 DEF FailuresOK
<1>9. CASE ProgramRoot
  <2>1. /\ step = "erased" /\ step' = "check" /\ section' = section + 1
        /\ bank'[Target].root = version
        /\ \A b \in Bank : bank'[b].sig = bank[b].sig /\ bank'[b].kernel = bank[b].kernel
    BY <1>2, <1>9 DEF ProgramRoot, Burning, NextSection, TypeOK, BankRecord
  <2>2. KernelBegun => KernelBegun'
    <3>1. Now.sig \notin Kernels
      BY <1>9 DEF ProgramRoot, Kernels
    <3>2. \A k \in DOMAIN image : k < section => k < section'
      BY <1>5, <2>1
    <3> QED
      BY <1>1, <2>1, <3>1, <3>2 DEF KernelBegun, Now
  <2>3. \A b \in Bank : AlmostBootable(b) => AlmostBootable(b)'
    BY <1>1, <1>2, <1>3, <2>1 DEF AlmostBootable
  <2> QED
    BY <1>1, <1>4, <2>2, <2>3 DEF FailuresOK
<1> QED
  BY <1>6, <1>7, <1>8, <1>9

\* An upgrade that stops short leaves the bank that was in use.
LEMMA StoppedFailures ==
    ASSUME TypeOK, LoopInv, FailuresOK, failures' = failures + 1,
           \A b \in Bank : b # Target => bank'[b] = bank[b]
    PROVE  AtRestOK'
<1>1. failures \in Nat
  BY DEF TypeOK
<1>2. boot_bank \in Bank /\ boot_bank # Target
  BY TargetBank DEF LoopInv, StepOK, FailuresOK
<1>3. failures = 0 => \E b \in Bank : Bootable(b)'
  BY <1>2 DEF FailuresOK, Bootable
<1> QED
  BY <1>1, <1>3 DEF AtRestOK

\* One that runs to its end leaves the new bank, or, if it brought no kernel,
\* what was there.
LEMMA FinishedFailures ==
    ASSUME TypeOK, BanksOK, LoopInv, FailuresOK, Finish
    PROVE  AtRestOK'
<1> USE DEF LoopInv
<1>1. bank' = bank /\ section > Len(image) /\ image \in Seq(Section)
  BY ImageType DEF Finish
<1>2. boot_bank \in Bank /\ Target \in Bank
  BY TargetBank DEF StepOK
<1>3. CASE BringsKernel(image) /\ ~Whole(image)
  BY <1>1, <1>3, StoppedFailures DEF Finish
<1>4. CASE Whole(image)
  <2>1. failures' = failures
    BY <1>4 DEF Finish
  <2>2. Bootable(Target) /\ (Bootable(boot_bank) => Preferred = Target)
    BY <1>1, <1>4, WholeStarts DEF Starts, FailuresOK
  <2> QED
    BY <1>1, <1>2, <2>1, <2>2, SameFlash DEF AtRestOK, FailuresOK
<1>5. CASE ~BringsKernel(image)
  <2>1. failures' = failures
    BY <1>5 DEF Finish
  <2>2. ~KernelBegun
    BY <1>5 DEF BringsKernel, KernelBegun
  <2>3. step = "check"
    <3>1. section \in Nat /\ Len(image) \in Nat
      BY <1>1 DEF TypeOK
    <3> QED
      BY <1>1, <3>1 DEF StepOK, TypeOK
  <2>4. \A b \in Bank : AlmostBootable(b) => Bootable(b)
    BY <2>3 DEF AlmostBootable, Bootable
  <2>5. Preferred = boot_bank
    BY <2>2 DEF MarksOK
  <2> QED
    BY <1>1, <2>1, <2>2, <2>4, <2>5, SameFlash DEF AtRestOK, FailuresOK
<1> QED
  BY <1>3, <1>4, <1>5

\* Every step keeps what is known of a device with few failures.
LEMMA NextFailInv ==
    ASSUME TypeOK, BurnInv, FailInv, [Next]_vars PROVE FailInv'
<1> SUFFICES ASSUME ~forced' PROVE IF pc' = "burning" THEN FailuresOK' ELSE AtRestOK'
  BY DEF FailInv
<1>1. CASE Boot
  <2>1. ~forced /\ pc = "off" /\ pc' # "burning" /\ bank' = bank /\ failures' = failures
    BY <1>1 DEF Boot, history
  <2> QED
    BY <2>1, SameFlash DEF FailInv, AtRestOK
<1>2. CASE Upload
  <2>1. /\ ~forced /\ pc = "serving" /\ pc' = "burning" /\ bank' = bank
        /\ failures' = failures /\ boot_bank' = Preferred /\ bank_mark' # ForceMark
    BY <1>2 DEF Upload
  <2>2. \A b \in Bank : Bootable(b) => AlmostBootable(b)'
    BY <2>1 DEF Bootable, AlmostBootable
  <2>3. Bootable(Preferred) => Bootable(boot_bank)'
    BY <2>1 DEF Bootable
  <2> QED
    BY <2>1, <2>2, <2>3 DEF FailInv, AtRestOK, FailuresOK
<1>3. CASE EraseKernel \/ EraseRoot \/ BurnOther \/ ProgramHeader \/ ProgramKernel \/ ProgramRoot
  <2>1. ~forced /\ pc = "burning" /\ pc' = "burning"
    BY <1>3 DEF EraseKernel, EraseRoot, BurnOther, ProgramHeader, ProgramKernel, ProgramRoot,
       Burning, history
  <2>2. LoopInv /\ FailuresOK
    BY <2>1 DEF BurnInv, LoopInv, FailInv
  <2> QED
    BY <1>3, <2>1, <2>2, BurningFailures
<1>4. CASE Abandon \/ TornHeader \/ (PowerLoss /\ pc = "burning")
  <2>1. /\ ~forced /\ pc = "burning" /\ pc' # "burning" /\ failures' = failures + 1
        /\ bank' = bank \/ bank' = [bank EXCEPT ![Target].sig = Now.sig]
    BY <1>4 DEF Abandon, TornHeader, PowerLoss, PowerOff, Burning
  <2>2. \A b \in Bank : b # Target => bank'[b] = bank[b]
    BY <2>1 DEF TypeOK
  <2>3. LoopInv /\ FailuresOK
    BY <2>1 DEF BurnInv, LoopInv, FailInv
  <2> QED
    BY <2>1, <2>2, <2>3, StoppedFailures
<1>5. CASE Finish
  <2>1. ~forced /\ pc = "burning" /\ pc' # "burning"
    BY <1>5 DEF Finish, PowerOff
  <2>2. BanksOK /\ LoopInv /\ FailuresOK
    BY <2>1 DEF BurnInv, LoopInv, FailInv
  <2> QED
    BY <1>5, <2>1, <2>2, FinishedFailures
<1>6. CASE PowerLoss /\ pc # "burning"
  <2>1. ~forced /\ pc' # "burning" /\ bank' = bank /\ failures' = failures
    BY <1>6 DEF PowerLoss, PowerOff
  <2> QED
    BY <1>6, <2>1, SameFlash DEF FailInv, AtRestOK
<1>7. CASE UNCHANGED vars
  <2>1. UNCHANGED <<bank, pc, boot_bank, bank_mark, image, section, step, failures, forced>>
    BY <1>7 DEF vars, globals, flashing, history
  <2> QED
    BY <2>1 DEF FailInv, AtRestOK, FailuresOK, AlmostBootable, Bootable, Preferred, MarkOf,
       KernelBegun, Target, Other
<1> QED
  BY <1>1, <1>2, <1>3, <1>4, <1>5, <1>6, <1>7 DEF Next

\* A device fresh from the factory boots.
LEMMA FirstFailInv == Init => FailInv
<1> SUFFICES ASSUME Init PROVE Bootable(Preferred)
  BY BanksType DEF Init, FailInv, AtRestOK
<1>1. PICK sig \in Kernels, mark \in FirstBurnAddr :
         bank = [b \in Bank |-> IF b = 1
                   THEN [sig |-> sig, burnAddr |-> mark, kernel |-> 1, root |-> 1]
                   ELSE EmptyBank]
  BY DEF Init
<1>2. /\ bank[1] = [sig |-> sig, burnAddr |-> mark, kernel |-> 1, root |-> 1]
      /\ bank[2] = EmptyBank
  BY <1>1 DEF Bank
<1>3. Bootable(1)
  BY <1>2 DEF Bootable, Bad
<1>4. MarkOf(2) = NoImageMark
  BY <1>2 DEF MarkOf, EmptyBank
<1>5. MarkOf(1) \in Nat /\ MarkOf(1) >= NoImageMark
  <2>1. bank[1].burnAddr \in Nat
    BY <1>2, MarkOrder DEF FirstBurnAddr
  <2> QED
    BY <2>1, MarkOrder DEF MarkOf
<1>6. Preferred = 1
  BY <1>4, <1>5, MarkOrder DEF Preferred
<1> QED
  BY <1>3, <1>6

\* A device whose upgrades failed at most once has a bank to boot.
THEOREM OneFailureSafe == Spec => []OneFailureIsSafe
<1>1. FailInv => OneFailureIsSafe
  BY DEF FailInv, AtRestOK, OneFailureIsSafe
<1> QED
  BY <1>1, FirstFailInv, NextFailInv, TypeCorrect, BurnInvariant, PTL DEF Spec

-----------------------------------------------------------------------------
(* The promises of SafeUpgrade                                             *)

\* The kernel in the bank an upgrade burns, once it has begun with kernels, is
\* its own or none.
Fresh == pc = "burning" /\ KernelBegun => bank[Target].kernel \in {Bad, version}

\* No step puts an older kernel there.
LEMMA FreshNext == ASSUME TypeOK, BurnInv, Fresh, [Next]_vars PROVE Fresh'
<1> USE DEF Fresh
<1>1. CASE Upload
  <2>1. image' \in Seq(Section) /\ section' = 1 /\ step' = "check"
    BY <1>1, ImageAssumption DEF Upload
  <2>2. ~KernelBegun'
    BY <2>1 DEF KernelBegun
  <2> QED
    BY <2>2
<1>2. CASE EraseKernel \/ EraseRoot \/ BurnOther \/ ProgramHeader \/ ProgramKernel \/ ProgramRoot
  <2>1. /\ UNCHANGED <<boot_bank, bank_mark, image, version>>
        /\ pc = "burning" /\ section <= Len(image)
    BY <1>2 DEF EraseKernel, EraseRoot, BurnOther, ProgramHeader, ProgramKernel, ProgramRoot,
       Burning, globals
  <2>2. Target' = Target /\ Target \in Bank
    BY <2>1, TargetBank DEF Target, Other, BurnInv, StepOK
  <2>3. CASE EraseKernel \/ ProgramKernel
    BY <2>1, <2>2, <2>3 DEF EraseKernel, ProgramKernel, TypeOK, BankRecord
  <2>4. CASE ProgramHeader
    <3>1. bank'[Target].kernel = bank[Target].kernel
      BY <2>2, <2>4 DEF ProgramHeader, TypeOK, BankRecord
    <3>2. bank[Target].kernel = Bad
      BY <2>1, <2>4 DEF ProgramHeader, Burning, BurnInv, StepOK, KernelUnderWay
    <3> QED
      BY <2>2, <3>1, <3>2
  <2>5. CASE EraseRoot \/ BurnOther \/ ProgramRoot
    <3>1. bank'[Target].kernel = bank[Target].kernel
      BY <2>2, <2>5 DEF EraseRoot, BurnOther, ProgramRoot, TypeOK, BankRecord
    <3>2. /\ Now.sig \notin Kernels
          /\ section' = section \/ (section' = section + 1 /\ step' = "check")
      BY <2>5 DEF EraseRoot, BurnOther, ProgramRoot, NextSection, Kernels
    <3>3. image \in Seq(Section) /\ section \in DOMAIN image
      BY <2>1, NowType
    <3>4. KernelBegun' => KernelBegun
      BY <2>1, <3>2, <3>3 DEF KernelBegun, Now
    <3>5. KernelBegun' => bank'[Target'].kernel \in {Bad, version'}
      BY <2>1, <2>2, <3>1, <3>4
    <3> QED
      BY <3>5
  <2> QED
    BY <1>2, <2>3, <2>4, <2>5
<1>3. CASE Boot \/ Abandon \/ Finish \/ PowerLoss \/ TornHeader
  BY <1>3 DEF Boot, Abandon, Finish, PowerLoss, TornHeader, PowerOff
<1>4. CASE UNCHANGED vars
  BY <1>4 DEF vars, globals, flashing, KernelBegun, Target, Other
<1> QED
  BY <1>1, <1>2, <1>3, <1>4 DEF Next

\* What runs is in one of the banks, and something as soon as one boots.
LEMMA RunningIn ==
    ASSUME TypeOK
    PROVE  /\ \A b \in Bank : Bootable(b) =>
                 /\ SystemIn(b).kernel = bank[b].kernel /\ SystemIn(b).kernel # 0
                 /\ SystemIn(b) # Nothing
           /\ \A b \in Bank : SystemIn(b) \in [kernel : 0 .. version, root : 0 .. version]
           /\ Running \in [kernel : 0 .. version, root : 0 .. version]
           /\ \A b \in Bank : Starts(b) => Running = SystemIn(b)
           /\ \A b \in Bank : Bootable(b) /\ ~Bootable(Other(b)) => Running = SystemIn(b)
           /\ Running # Nothing <=> \E b \in Bank : Bootable(b)
<1>1. version \in Nat \ {0}
  BY ImageAssumption DEF TypeOK
<1>2. ASSUME NEW b \in Bank, Bootable(b)
      PROVE  SystemIn(b).kernel = bank[b].kernel /\ SystemIn(b).kernel # 0 /\ SystemIn(b) # Nothing
  BY <1>2 DEF SystemIn, Bootable, Nothing, Bad
<1>3. \A b \in Bank : SystemIn(b) \in [kernel : 0 .. version, root : 0 .. version]
  BY <1>1 DEF SystemIn, Nothing, Bad, TypeOK, BankRecord
<1>4. /\ Preferred \in Bank /\ Other(Preferred) \in Bank
      /\ \A b \in Bank : b = Preferred \/ b = Other(Preferred)
      /\ \A b \in Bank : Other(Other(b)) = b /\ Other(b) \in Bank
  BY BanksType DEF Other, Bank
<1>5. Running \in [kernel : 0 .. version, root : 0 .. version]
  BY <1>3, <1>4 DEF Running
<1>6. \A b \in Bank : Starts(b) => Running = SystemIn(b)
  BY <1>4 DEF Running, Starts
<1>7. \A b \in Bank : Bootable(b) /\ ~Bootable(Other(b)) => Running = SystemIn(b)
  BY <1>4 DEF Running
<1>8. Running # Nothing <=> \E b \in Bank : Bootable(b)
  BY <1>2, <1>4 DEF Running, SystemIn
<1> QED
  BY <1>2, <1>3, <1>5, <1>6, <1>7, <1>8

\* While an upgrade burns a start would run the bank it spares, or its kernel.
OldOrNew ==
    /\ Running \in [kernel : 0 .. version, root : 0 .. version]
    /\ pc = "burning" /\ Spared # Nothing =>
          \/ Running = Spared
          \/ KernelBegun /\ Running \in [kernel : {version}, root : 0 .. version]

\* That is so because no other kernel can be in the bank it burns.
LEMMA BurnRuns == ASSUME TypeOK, BurnInv, Fresh PROVE OldOrNew
<1> SUFFICES ASSUME pc = "burning", Spared # Nothing
             PROVE  \/ Running = Spared
                    \/ KernelBegun /\ Running \in [kernel : {version}, root : 0 .. version]
  BY RunningIn DEF OldOrNew
<1>1. bank_mark # ForceMark /\ Bootable(boot_bank) /\ Spared = SystemIn(boot_bank)
  BY DEF Spared, SystemIn
<1>2. /\ boot_bank \in Bank /\ Target \in Bank /\ Target = Other(boot_bank)
      /\ \A b \in Bank : b = boot_bank \/ b = Target
  BY <1>1, TargetBank DEF BurnInv, StepOK
<1>3. CASE ~KernelBegun
  <2>1. Preferred = boot_bank
    BY <1>3 DEF BurnInv, MarksOK
  <2> QED
    BY <1>1, <2>1 DEF Running
<1>4. CASE KernelBegun /\ ~Bootable(Target)
  BY <1>1, <1>2, <1>4, RunningIn
<1>5. CASE KernelBegun /\ Bootable(Target)
  <2>1. bank[Target].kernel = version
    BY <1>5 DEF Fresh, Bootable
  <2>2. SystemIn(Target) \in [kernel : {version}, root : 0 .. version]
    <3>1. SystemIn(Target) \in [kernel : 0 .. version, root : 0 .. version]
      BY <1>2, RunningIn
    <3>2. SystemIn(Target).kernel = version
      BY <1>2, <1>5, <2>1, RunningIn
    <3> QED
      BY <3>1, <3>2
  <2>3. Preferred = boot_bank \/ Preferred = Target
    BY <1>2, BanksType
  <2>4. Running = SystemIn(boot_bank) \/ Running = SystemIn(Target)
    BY <1>1, <1>5, <2>3 DEF Running
  <2> QED
    BY <1>1, <1>5, <2>2, <2>4
<1> QED
  BY <1>3, <1>4, <1>5
\* A step of the loop, as a step of the abstract upgrade.
LEMMA LoopBurns ==
    ASSUME TypeOK, BurnInv, OldOrNew',
           EraseKernel \/ EraseRoot \/ BurnOther \/ ProgramHeader \/ ProgramKernel \/ ProgramRoot
    PROVE  Upgrades!Burn
<1>1. /\ pc = "burning" /\ pc' = "burning"
      /\ UNCHANGED <<image, version, failures, forced, boot_bank, bank_mark>>
  BY DEF EraseKernel, EraseRoot, BurnOther, ProgramHeader, ProgramKernel, ProgramRoot,
     Burning, globals, history
<1>2. Spared' = Spared
  <2>1. CASE bank_mark = ForceMark
    BY <1>1, <2>1 DEF Spared
  <2>2. CASE bank_mark # ForceMark
    <3>1. boot_bank \in Bank /\ Target \in Bank /\ boot_bank # Target
      BY <1>1, <2>2, TargetBank DEF BurnInv, StepOK
    <3>2. bank'[boot_bank] = bank[boot_bank]
      BY <3>1 DEF EraseKernel, EraseRoot, BurnOther, ProgramHeader, ProgramKernel, ProgramRoot,
         TypeOK
    <3>3. SystemIn(boot_bank)' = SystemIn(boot_bank)
      BY <1>1, <3>2 DEF SystemIn, Bootable
    <3> QED
      BY <1>1, <2>2, <3>3 DEF Spared
  <2> QED
    BY <2>1, <2>2
<1>3. Whole(image)' = Whole(image) /\ BringsKernel(image)' = BringsKernel(image)
  BY <1>1 DEF Whole, BringsKernel
<1>4. KernelBegun' => BringsKernel(image)
  BY <1>1 DEF KernelBegun, BringsKernel
<1>5. Upgrades!Nothing = Nothing
  BY DEF Upgrades!Nothing, Nothing, Bad
<1>6. Running' \in Upgrades!AnySystem
  BY <1>1 DEF OldOrNew, Upgrades!AnySystem, Upgrades!System
<1>7. Spared # Nothing =>
        \/ Running' = Spared
        \/ KernelBegun' /\ Running' \in Upgrades!NewKernel
  BY <1>1, <1>2 DEF OldOrNew, Upgrades!NewKernel, Upgrades!System, Nothing
<1>8. CASE Whole(image)
  BY <1>1, <1>2, <1>3, <1>4, <1>5, <1>6, <1>7, <1>8 DEF Upgrades!Burn, Upgrades!Kind
<1>9. CASE ~Whole(image) /\ BringsKernel(image)
  BY <1>1, <1>2, <1>3, <1>4, <1>5, <1>6, <1>7, <1>9 DEF Upgrades!Burn, Upgrades!Kind
<1>10. CASE ~Whole(image) /\ ~BringsKernel(image)
  BY <1>1, <1>2, <1>3, <1>4, <1>5, <1>6, <1>7, <1>10 DEF Upgrades!Burn, Upgrades!Kind
<1> QED
  BY <1>8, <1>9, <1>10
\* What is in the banks depends on the flash alone.
LEMMA SameSystems ==
    ASSUME bank' = bank
    PROVE  Running' = Running /\ \A b : SystemIn(b)' = SystemIn(b)
BY SameFlash DEF Running, SystemIn, Other

\* An upload begins an upgrade; its base is what would run, but after a failure
\* or if the bank in use is to be replaced.
LEMMA UploadBegins == ASSUME TypeOK, FailInv, Upload PROVE Upgrades!Begin
<1>1. /\ pc = "serving" /\ pc' = "burning" /\ version' = version + 1
      /\ bank' = bank /\ boot_bank' = Preferred /\ bank_mark' = MarkOf(Preferred)
      /\ forced' = (forced \/ bank_mark' = ForceMark) /\ failures' = failures
  BY DEF Upload
<1>2. Running' = Running /\ SystemIn(boot_bank)' = SystemIn(Preferred)
  BY <1>1, SameSystems
<1>3. Upgrades!Nothing = Nothing
  BY DEF Upgrades!Nothing, Nothing, Bad
<1>4. \/ Spared' = Running
      \/ (failures > 0 \/ forced') /\ Spared' = Nothing
  <2>1. CASE bank_mark' = ForceMark
    BY <1>1, <2>1 DEF Spared, Nothing
  <2>2. CASE bank_mark' # ForceMark /\ Bootable(Preferred)
    BY <1>1, <1>2, <2>2 DEF Spared, Running
  <2>3. CASE bank_mark' # ForceMark /\ ~Bootable(Preferred)
    <3>1. Spared' = Nothing
      BY <1>1, <1>2, <2>3 DEF Spared, SystemIn
    <3>2. forced \/ failures # 0
      BY <1>1, <2>3 DEF FailInv, AtRestOK
    <3>3. failures \in Nat
      BY DEF TypeOK
    <3>4. failures # 0 => failures > 0
      BY <3>3
    <3>5. forced => forced'
      BY <1>1
    <3> QED
      BY <3>1, <3>2, <3>4, <3>5
  <2> QED
    BY <2>1, <2>2, <2>3
<1>5. forced \in BOOLEAN /\ forced' \in {forced, TRUE}
  BY <1>1 DEF TypeOK
<1> QED
  BY <1>1, <1>2, <1>3, <1>4, <1>5 DEF Upgrades!Begin, Upgrades!Kind, Nothing

\* Linux is what a start would run.
LEMMA BootStarts == ASSUME TypeOK, Boot PROVE [Upgrades!Next]_Upgrades!vars
<1>1. /\ pc = "off" /\ pc' \in {"linux", "serving"} /\ bank' = bank
      /\ UNCHANGED <<version, failures, forced>>
  BY DEF Boot, history
<1>2. Running' = Running /\ \A b : SystemIn(b)' = SystemIn(b)
  BY <1>1, SameSystems
<1>3. CASE pc' = "serving"
  BY <1>1, <1>2, <1>3 DEF Upgrades!vars, Nothing
<1>4. CASE pc' = "linux"
  <2>1. PICK esc \in {"first", "second", "prompt", "never"} :
           LET first == Preferred
               ok1   == Bootable(first) /\ esc # "first"
               ok2   == Bootable(Other(first)) /\ esc \notin {"first", "second"}
           IN  /\ return_addr' = IF ok1 THEN first ELSE Other(first)
               /\ pc' = IF (ok1 \/ ok2) /\ esc # "prompt" THEN "linux" ELSE "serving"
    BY DEF Boot
  <2>2. Preferred \in Bank /\ Other(Preferred) \in Bank
    BY BanksType
  <2>3. SystemIn(return_addr)' = Running /\ Running # Nothing
    <3>1. CASE Bootable(Preferred) /\ esc # "first"
      <4>1. return_addr' = Preferred
        BY <2>1, <3>1
      <4> QED
        BY <1>2, <2>2, <3>1, <4>1, RunningIn DEF Running
    <3>2. CASE ~(Bootable(Preferred) /\ esc # "first")
      <4>1. Bootable(Other(Preferred)) /\ ~Bootable(Preferred)
        BY <1>4, <2>1, <3>2
      <4>2. return_addr' = Other(Preferred)
        BY <2>1, <3>2
      <4> QED
        BY <1>2, <2>2, <4>1, <4>2, RunningIn DEF Running
    <3> QED
      BY <3>1, <3>2
  <2>4. Upgrades!Nothing = Nothing
    BY DEF Upgrades!Nothing, Nothing, Bad
  <2>5. Upgrades!Start
    BY <1>1, <1>2, <1>4, <2>3, <2>4 DEF Upgrades!Start
  <2> QED
    BY <2>5 DEF Upgrades!Next
<1> QED
  BY <1>1, <1>3, <1>4

\* With one bank that does not boot, the other one decides.
RunsOther == \A b \in Bank : ~Bootable(b) => Running = SystemIn(Other(b))

LEMMA RunningOther == RunsOther
<1> SUFFICES ASSUME NEW b \in Bank, ~Bootable(b) PROVE Running = SystemIn(Other(b))
  BY DEF RunsOther
<1>1. \/ Preferred = b
      \/ Preferred = Other(b) /\ Other(Preferred) = b
  BY BanksType DEF Other, Bank
<1>2. CASE ~Bootable(Other(b))
  BY <1>1, <1>2 DEF Running, SystemIn
<1> QED
  BY <1>1, <1>2 DEF Running

\* So a write to a bank whose kernel is bad, and stays bad, is not seen.
LEMMA WriteUnseen ==
    ASSUME NEW b \in Bank, bank[b].kernel = Bad, bank'[b].kernel = Bad,
           bank'[Other(b)] = bank[Other(b)]
    PROVE  Running' = Running
<1>1. ~Bootable(b) /\ ~Bootable(b)'
  BY DEF Bootable
<1>2. RunsOther'
  BY RunningOther, PTL
<1>3. Running' = SystemIn(Other(b))'
  BY <1>1, <1>2 DEF RunsOther
<1>4. Running = SystemIn(Other(b))
  BY <1>1, RunningOther DEF RunsOther
<1>5. SystemIn(Other(b))' = SystemIn(Other(b))
  BY DEF SystemIn, Bootable, Other
<1> QED
  BY <1>3, <1>4, <1>5

\* An upgrade cut short, at the latest inside a header, has failed.
LEMMA StopFails ==
    ASSUME TypeOK, BurnInv, pc = "burning", pc' \in {"off", "serving"},
           failures' = failures + 1, UNCHANGED <<version, forced>>,
           bank' = bank \/ TornHeader
    PROVE  Upgrades!Fail
<1>1. Running' = Running
  <2>1. CASE bank' = bank
    BY <2>1, SameSystems
  <2>2. CASE TornHeader
    <3>1. boot_bank \in Bank /\ bank[Target].kernel = Bad
      BY <2>2 DEF TornHeader, Burning, BurnInv, StepOK, KernelUnderWay
    <3>2. PICK t \in Bank : t = Target
      BY <3>1, TargetBank
    <3>3. Other(t) \in Bank /\ Other(t) # t
      BY <3>2 DEF Other, Bank
    <3>4. bank' = [bank EXCEPT ![t].sig = Now.sig]
      BY <2>2, <3>2 DEF TornHeader
    <3>5. /\ bank[t].kernel = Bad /\ bank'[t].kernel = Bad
          /\ bank'[Other(t)] = bank[Other(t)]
      BY <3>1, <3>2, <3>3, <3>4 DEF TypeOK, BankRecord
    <3> QED
      BY <3>2, <3>5, WriteUnseen
  <2> QED
    BY <2>1, <2>2
<1>2. /\ pc # "linux" /\ pc' # "linux" /\ pc' # "burning"
      /\ (IF Whole(image) THEN "whole"
          ELSE IF BringsKernel(image) THEN "partial" ELSE "kernelless") \in Upgrades!Kind
  BY DEF Upgrades!Kind
<1> QED
  BY <1>1, <1>2 DEF Upgrades!Fail, Upgrades!End

\* An upgrade that runs to its end installs a whole file, and has changed
\* nothing for one without a kernel.
LEMMA FinishEnds ==
    ASSUME TypeOK, BurnInv, FailInv, FailInv', Finish
    PROVE  Upgrades!Install \/ Upgrades!Keep \/ Upgrades!Fail
<1>1. /\ pc = "burning" /\ pc' \in {"off", "serving"} /\ bank' = bank /\ section > Len(image)
      /\ UNCHANGED <<version, forced>>
  BY DEF Finish, PowerOff
<1>2. LoopInv /\ BanksOK
  BY <1>1 DEF LoopInv, BurnInv
<1>3. Running' = Running
  BY <1>1, SameSystems
<1>4. Upgrades!Nothing = Nothing
  BY DEF Upgrades!Nothing, Nothing, Bad
<1>5. CASE Whole(image)
  <2>1. Target \in Bank
    BY <1>2, TargetBank DEF LoopInv, StepOK
  <2>2. /\ Bootable(Target) /\ bank[Target].kernel = version
        /\ bank[Target].sig = "linux-root" => bank[Target].root = version
        /\ Starts(Target)
    BY <1>1, <1>2, <1>5, WholeIsBurnt, WholeStarts
  <2>3. Running = SystemIn(Target)
    BY <2>1, <2>2, RunningIn
  <2>4. SystemIn(Target) \in Upgrades!NewSystem
    BY <2>2 DEF SystemIn, Upgrades!NewSystem, Upgrades!System, Bad
  <2>5. failures' = failures
    BY <1>5 DEF Finish
  <2>6. Upgrades!Install
    BY <1>1, <1>3, <1>5, <2>3, <2>4, <2>5 DEF Upgrades!Install, Upgrades!End, Nothing
  <2> QED
    BY <2>6
<1>6. CASE BringsKernel(image) /\ ~Whole(image)
  <2>1. failures' = failures + 1
    BY <1>6 DEF Finish
  <2> QED
    BY <1>1, <2>1, StopFails
<1>7. CASE ~BringsKernel(image) /\ ~Whole(image)
  <2>1. failures' = failures /\ ~KernelBegun
    BY <1>7 DEF Finish, BringsKernel, KernelBegun
  <2>2. Spared # Nothing => Running = Spared
    <3>1. Preferred = boot_bank
      BY <1>2, <2>1 DEF LoopInv, MarksOK
    <3> QED
      BY <3>1 DEF Spared, SystemIn, Running
  <2>3. failures <= 1 /\ ~forced => Running # Nothing
    <3>1. failures' <= 1 /\ ~forced' => \E b \in Bank : Bootable(b)'
      BY <1>1 DEF FailInv, AtRestOK
    <3>2. \A b \in Bank : Bootable(b)' <=> Bootable(b)
      BY <1>1 DEF Bootable
    <3> QED
      BY <1>1, <2>1, <3>1, <3>2, RunningIn
  <2>4. Upgrades!Keep
    BY <1>1, <1>3, <1>4, <1>7, <2>1, <2>2, <2>3 DEF Upgrades!Keep, Upgrades!End, Nothing
  <2> QED
    BY <2>4
<1> QED
  BY <1>5, <1>6, <1>7 DEF Whole, BringsKernel

\* A device switched off at rest runs nothing.
LEMMA RestStops ==
    ASSUME pc # "burning", PowerLoss
    PROVE  Upgrades!Stop
<1>1. /\ pc # "off" /\ pc' = "off" /\ bank' = bank
      /\ UNCHANGED <<version, forced, failures>>
  BY DEF PowerLoss, PowerOff
<1>2. Running' = Running
  BY <1>1, SameSystems
<1>3. Upgrades!Nothing = Nothing
  BY DEF Upgrades!Nothing, Nothing, Bad
<1> QED
  BY <1>1, <1>2, <1>3 DEF Upgrades!Stop

\* Every step is one of the abstract upgrade, or does not show in it.
LEMMA StepKeepsPromises ==
    ASSUME TypeOK, BurnInv, FailInv, FailInv', OldOrNew', [Next]_vars
    PROVE  [Upgrades!Next]_Upgrades!vars
<1>1. CASE Boot
  BY <1>1, BootStarts
<1>2. CASE Upload
  BY <1>2, UploadBegins DEF Upgrades!Next
<1>3. CASE EraseKernel \/ EraseRoot \/ BurnOther \/ ProgramHeader \/ ProgramKernel \/ ProgramRoot
  BY <1>3, LoopBurns DEF Upgrades!Next
<1>4. CASE Abandon \/ TornHeader \/ (PowerLoss /\ pc = "burning")
  <2>1. /\ pc = "burning" /\ pc' \in {"off", "serving"} /\ failures' = failures + 1
        /\ UNCHANGED <<version, forced>> /\ (bank' = bank \/ TornHeader)
    BY <1>4 DEF Abandon, TornHeader, PowerLoss, PowerOff, Burning
  <2> QED
    BY <2>1, StopFails DEF Upgrades!Next
<1>5. CASE Finish
  BY <1>5, FinishEnds DEF Upgrades!Next
<1>6. CASE PowerLoss /\ pc # "burning"
  BY <1>6, RestStops DEF Upgrades!Next
<1>7. CASE UNCHANGED vars
  <2>1. UNCHANGED <<bank, pc, boot_bank, bank_mark, return_addr, image, version, failures, forced>>
    BY <1>7 DEF vars, globals, flashing, history
  <2>2. Running' = Running /\ SystemIn(boot_bank)' = SystemIn(boot_bank)
        /\ SystemIn(return_addr)' = SystemIn(return_addr)
    BY <2>1, SameFlash DEF Running, SystemIn, Other, Bootable
  <2> QED
    BY <2>1, <2>2 DEF Upgrades!vars, Spared, Whole, BringsKernel
<1> QED
  BY <1>1, <1>2, <1>3, <1>4, <1>5, <1>6, <1>7 DEF Next

\* Whatever is uploaded and wherever the power fails, the two banks keep the
\* promises of SafeUpgrade.
THEOREM UpgradesKeepPromises == Spec => UpgradeSpec
<1>1. Init => Upgrades!Init /\ Fresh
  <2> SUFFICES ASSUME Init PROVE Upgrades!Init /\ Fresh
    OBVIOUS
  <2>1. PICK sig \in Kernels, mark \in FirstBurnAddr :
           bank = [b \in Bank |-> IF b = 1
                     THEN [sig |-> sig, burnAddr |-> mark, kernel |-> 1, root |-> 1]
                     ELSE EmptyBank]
    BY DEF Init
  <2>2. /\ bank[1] = [sig |-> sig, burnAddr |-> mark, kernel |-> 1, root |-> 1]
        /\ bank[2] = EmptyBank
    BY <2>1 DEF Bank
  <2>3. Bootable(1) /\ ~Bootable(2)
    BY <2>2 DEF Bootable, Bad, EmptyBank, Kernels
  <2>4. Running = SystemIn(1)
    BY <2>3, BanksType DEF Running, Other, Bank
  <2>5. SystemIn(1) \in Upgrades!System({1}, {0, 1})
    BY <2>2, <2>3 DEF SystemIn, Bad, Upgrades!System
  <2>6. Upgrades!Nothing = Nothing
    BY DEF Upgrades!Nothing, Nothing, Bad
  <2> QED
    BY <2>4, <2>5, <2>6 DEF Init, Upgrades!Init, Fresh, Nothing
<1>2. TypeOK /\ BurnInv /\ Fresh /\ [Next]_vars => Fresh'
  BY FreshNext
<1>3. TypeOK /\ BurnInv /\ Fresh => OldOrNew
  BY BurnRuns
<1>4. TypeOK /\ BurnInv /\ FailInv /\ FailInv' /\ OldOrNew' /\ [Next]_vars
        => [Upgrades!Next]_Upgrades!vars
  BY StepKeepsPromises
<1>5. TypeOK /\ BurnInv /\ FailInv /\ [Next]_vars => FailInv'
  BY NextFailInv
<1> QED
  BY <1>1, <1>2, <1>3, <1>4, <1>5, FirstFailInv, TypeCorrect, BurnInvariant, PTL
     DEF Spec, UpgradeSpec, Upgrades!Spec

-----------------------------------------------------------------------------
(* What the promises are worth                                             *)

\* What an upgrade would fall back on, and what SafeUpgrade says of it.
Base  == IF pc = "burning" THEN Spared ELSE Running
Works == IF pc # "burning" THEN "no"
         ELSE IF Whole(image) THEN "whole"
         ELSE IF BringsKernel(image) THEN "partial" ELSE "kernelless"

PromiseInv ==
    /\ failures \in Nat /\ version \in Nat \ {0}
    /\ ~forced =>
          /\ failures = 0 => Base # Nothing /\ Running # Nothing
          /\ failures <= 1 /\ Works = "no" => Running # Nothing

\* A step that keeps the promises keeps what follows from them.
LEMMA PromiseStep ==
    ASSUME PromiseInv, [Upgrades!Next]_Upgrades!vars PROVE PromiseInv'
<1>1. Upgrades!Nothing = Nothing
  BY DEF Upgrades!Nothing, Nothing, Bad
<1>2. ASSUME NEW s, s \in [kernel : {version}, root : 0 .. version] PROVE s # Nothing
  BY <1>2 DEF PromiseInv, Nothing, Bad
<1>3. CASE Upgrades!Start \/ Upgrades!Stop
  <2>1. Base' = Base /\ Works' = Works /\ Running' = Running
        /\ UNCHANGED <<version, failures, forced>>
    BY <1>3 DEF Upgrades!Start, Upgrades!Stop, Base, Works
  <2> QED
    BY <2>1 DEF PromiseInv, Nothing
<1>4. CASE Upgrades!Begin
  <2>1. /\ Works' \in Upgrades!Kind /\ version' = version + 1 /\ forced' \in {forced, TRUE}
        /\ Base' = Running \/ ((failures > 0 \/ forced') /\ Base' = Nothing)
        /\ Running' = Running /\ failures' = failures
    BY <1>1, <1>4 DEF Upgrades!Begin, Base, Works
  <2>2. Works' # "no"
    BY <2>1 DEF Upgrades!Kind
  <2>3. ~forced' => ~forced
    BY <2>1
  <2>4. ~forced' /\ failures' = 0 => Base' = Running
    BY <2>1 DEF PromiseInv
  <2>5. failures' \in Nat /\ version' \in Nat \ {0}
    BY <2>1 DEF PromiseInv
  <2>6. ~forced' /\ failures' = 0 => Base' # Nothing /\ Running' # Nothing
    BY <2>1, <2>3, <2>4 DEF PromiseInv
  <2> QED
    BY <2>2, <2>5, <2>6 DEF PromiseInv, Nothing
<1>5. CASE Upgrades!Burn
  <2>1. /\ Works' \in Upgrades!Kind
        /\ Base # Nothing =>
              Running' \in {Base} \cup [kernel : {version}, root : 0 .. version]
        /\ Base' = Base /\ UNCHANGED <<version, failures, forced>>
    BY <1>1, <1>5 DEF Upgrades!Burn, Upgrades!NewKernel, Upgrades!System, Base, Works
  <2>2. Works' # "no"
    BY <2>1 DEF Upgrades!Kind
  <2>3. Base # Nothing => Running' # Nothing
    BY <1>2, <2>1
  <2> QED
    BY <2>1, <2>2, <2>3 DEF PromiseInv, Nothing
<1>6. CASE Upgrades!Install
  <2>1. /\ Running \in [kernel : {version}, root : {0, version}]
        /\ Base' = Running /\ Running' = Running /\ UNCHANGED <<version, failures, forced>>
    BY <1>6 DEF Upgrades!Install, Upgrades!End, Upgrades!NewSystem, Upgrades!System, Base
  <2>2. Running # Nothing
    BY <2>1 DEF PromiseInv, Nothing, Bad
  <2> QED
    BY <2>1, <2>2 DEF PromiseInv, Nothing
<1>7. CASE Upgrades!Keep
  <2>1. /\ failures <= 1 /\ ~forced => Running # Nothing
        /\ Base' = Running /\ Running' = Running /\ UNCHANGED <<version, failures, forced>>
    BY <1>1, <1>7 DEF Upgrades!Keep, Upgrades!End, Base
  <2> QED
    BY <2>1 DEF PromiseInv, Nothing
<1>8. CASE Upgrades!Fail
  <2>1. /\ Running' = Running /\ failures' = failures + 1 /\ UNCHANGED <<version, forced>>
    BY <1>8 DEF Upgrades!Fail, Upgrades!End
  <2>2. failures' # 0 /\ (failures' <= 1 => failures = 0)
    BY <2>1 DEF PromiseInv
  <2> QED
    BY <2>1, <2>2 DEF PromiseInv, Nothing
<1>9. CASE UNCHANGED Upgrades!vars
  <2>1. Base' = Base /\ Works' = Works /\ Running' = Running
        /\ UNCHANGED <<version, failures, forced>>
    BY <1>9 DEF Upgrades!vars, Base, Works
  <2> QED
    BY <2>1 DEF PromiseInv, Nothing
<1> QED
  BY <1>3, <1>4, <1>5, <1>6, <1>7, <1>8, <1>9 DEF Upgrades!Next

\* The promises alone make one failure safe: whatever keeps them, step by step,
\* has a bank to boot while upgrades have failed at most once.
THEOREM PromisesAreSafe == UpgradeSpec => []OneFailureIsSafe
<1>1. Upgrades!Init => PromiseInv
  <2> SUFFICES ASSUME Upgrades!Init PROVE PromiseInv
    OBVIOUS
  <2>1. /\ Running \in [kernel : {1}, root : {0, 1}] /\ Base = Running
        /\ version = 1 /\ failures = 0
    BY DEF Upgrades!Init, Upgrades!System, Base
  <2>2. Running # Nothing
    BY <2>1 DEF Nothing, Bad
  <2> QED
    BY <2>1, <2>2 DEF PromiseInv
<1>2. PromiseInv => OneFailureIsSafe
  <2> SUFFICES ASSUME PromiseInv, pc # "burning", failures <= 1, ~forced
               PROVE  \E b \in Bank : Bootable(b)
    BY DEF OneFailureIsSafe
  <2>1. Running # Nothing
    BY DEF PromiseInv, Works
  <2>2. Bootable(Preferred) \/ Bootable(Other(Preferred))
    BY <2>1 DEF Running, SystemIn
  <2> QED
    BY <2>2, BanksType
<1> QED
  BY <1>1, <1>2, PromiseStep, PTL DEF UpgradeSpec, Upgrades!Spec
=============================================================================
