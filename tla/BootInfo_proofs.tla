---------------------------- MODULE BootInfo_proofs ----------------------------
(***************************************************************************)
(* Proofs about BootInfo, for every number of tries and of faults.  The    *)
(* four invariants of the run are parts of, or follow from, one inductive  *)
(* invariant, BootInv.                                                     *)
(***************************************************************************)
EXTENDS BootInfo, TLAPS

Quiet    == pc \in {"off", "wait", "serving", "running"}
InRecord == pc \in {"erase_info", "program_info"}
InBank   == pc \in {"erase_bank", "program_bank"}

\* What a step of a write is for, and what is written.
JobOK ==
    /\ Quiet => job = "none"
    /\ InRecord => job \in {"start", "upgrade"}
    /\ InBank => job \in {"upgrade", "plain"}
    /\ job \in {"upgrade", "plain"} => new \in Started
    /\ job = "plain" => plain

\* A record in toggle mode is one the boot code has made; any other stems
\* from a program operation cut short, with its mode erased.
Sane(r) ==
    /\ r.tag
    /\ \/ r.mode = TOGGLE /\ r.max = MaxCnt /\ r.bank \in Bank /\ r.cnt <= MaxCnt
       \/ r.mode = Erased /\ r.max \in {MaxCnt, Erased}

RecordOK ==
    /\ Sane(ram)
    /\ info.tag => Sane(info)
    /\ info.tag \/ info = Blank
    /\ faults = 0 => ram.mode = TOGGLE /\ (info.tag => info.mode = TOGGLE)

\* An image that starts is left, or is about to be written: before the first
\* fault it is the one the device booted from.
ImageOK ==
    /\ GoodBankLeft
    /\ ~plain /\ faults = 0 =>
          /\ pc \in {"wait", "serving"} => image[Place(ram)] # "bad"
          /\ job = "upgrade" => image[1 - Place(ram)] # "bad"

\* The record of a completed upgrade, until it is tried.
FreshOK ==
    /\ job = "upgrade" => ram.cnt = 0 /\ fresh = NoBank
    /\ job = "plain" => fresh = NoBank
    /\ pc = "running" => fresh = NoBank
    /\ InBank /\ job = "upgrade" => info = ram
    /\ fresh # NoBank =>
          /\ image[fresh] # "bad"
          /\ pc # "program_info" => info.tag /\ Place(info) = fresh /\ info.cnt < info.max
    /\ UpgradeTried

\* The tries of a bank are no more than its record has counted, and the record
\* in flash knows of no other bank that was tried.
Counted(r) ==
    r.mode = TOGGLE =>
        tries.n <= MaxCnt /\ (tries.bank = Place(r) => tries.n <= r.cnt)

Own(r) == r.mode = TOGGLE /\ tries.n # 0 => tries.bank = Place(r)

TriesOK ==
    /\ TriesBounded
    /\ info.tag => Counted(info) /\ Own(info)
    /\ ~info.tag /\ pc # "program_info" => tries.n = 0
    /\ pc = "wait" => Counted(ram) /\ (ram.mode = TOGGLE => ram.cnt < MaxCnt)
    /\ InRecord /\ job = "start" /\ ram.mode = TOGGLE =>
          /\ ram.cnt >= 1
          /\ tries.bank = Place(ram) => tries.n < ram.cnt
    /\ job \in {"upgrade", "plain"} => tries.n = 0 /\ tries.bank = NoBank
    /\ pc = "running" => info.tag

BootInv == BootTypeOK /\ JobOK /\ RecordOK /\ ImageOK /\ FreshOK /\ TriesOK

-----------------------------------------------------------------------------
(* Facts about records                                                     *)

\* What the assumption says of the numbers of a record.
LEMMA Numbers ==
    /\ MaxCnt \in Nat /\ 0 < MaxCnt /\ Erased \in Nat /\ MaxFaults \in Nat
    /\ MaxCnt < Erased /\ 1 < Erased /\ TOGGLE = 1 /\ 0 \in Byte /\ 1 \in Byte
    /\ Erased \in Byte /\ MaxCnt \in Byte
BY BootAssumption DEF TOGGLE, Byte

\* The records the boot code makes or finds are records, and sane if tagged.
LEMMA Records ==
    /\ Blank \in Record /\ Default \in Record
    /\ ~Blank.tag /\ Sane(Default)
    /\ Default.cnt = 0 /\ Default.mode = TOGGLE
    /\ Place(Default) = 0 /\ Default.tag
<1>1. /\ Blank.tag = FALSE /\ Default.tag = TRUE
      /\ Blank \in Record /\ Default \in Record
  BY Numbers DEF Record, Blank, Default
<1>2. Default.cnt = 0 /\ Default.mode = TOGGLE /\ Default.max = MaxCnt /\ Default.bank = 0
  BY DEF Default
<1> QED
  BY <1>1, <1>2, Numbers DEF Sane, Place, Bank

\* What a write cut short leaves of a sane record is sane, and not in toggle
\* mode.
LEMMA Torns ==
    ASSUME NEW r \in Record, Sane(r), NEW n \in 0 .. 3
    PROVE  /\ Cut(r, n) \in Record /\ Sane(Cut(r, n))
           /\ Cut(r, n).tag /\ Cut(r, n).mode # TOGGLE
<1>1. Cut(r, n) \in Record
  BY Numbers DEF Record, Cut
<1>2. /\ Cut(r, n).tag = TRUE /\ Cut(r, n).mode = Erased
      /\ Cut(r, n).max \in {r.max, Erased}
  BY DEF Cut
<1> QED
  BY <1>1, <1>2, Numbers DEF Sane

\* Switching keeps a record sane; in toggle mode it names the other bank.
LEMMA Switching ==
    ASSUME NEW r \in Record, Sane(r)
    PROVE  /\ SwitchBank(r) \in Record /\ Sane(SwitchBank(r))
           /\ SwitchBank(r).cnt = 0 /\ SwitchBank(r).mode = r.mode
           /\ SwitchBank(r).max = r.max /\ SwitchBank(r).tag
           /\ r.mode = TOGGLE => /\ Place(SwitchBank(r)) = 1 - Place(r)
                                /\ rtk_get_next_bootbank(r) # r.bank
<1> DEFINE n == rtk_get_next_bootbank(r)
<1>1. r.bank \in Byte /\ n \in Byte
  BY Numbers DEF Record, rtk_get_next_bootbank
<1>2. SwitchBank(r) \in Record
  BY <1>1, Numbers DEF Record, SwitchBank
<1>3. /\ SwitchBank(r).bank = n /\ SwitchBank(r).cnt = 0
      /\ SwitchBank(r).mode = r.mode /\ SwitchBank(r).max = r.max
      /\ SwitchBank(r).tag = r.tag
  BY DEF Record, SwitchBank
<1>4. r.mode = TOGGLE => n \in Bank /\ n # r.bank /\ (n = 1 <=> r.bank = 0)
  BY DEF rtk_get_next_bootbank, Bank
<1>5. r.mode # TOGGLE => n = r.bank
  BY DEF rtk_get_next_bootbank
<1> QED
  BY <1>2, <1>3, <1>4, <1>5, Numbers DEF Sane, Place, Bank

\* The place of a record is a bank.
LEMMA Places ==
    \A r : Place(r) \in Bank /\ Place(r) # NoBank /\ 1 - Place(r) \in Bank
BY DEF Place, Bank, NoBank

-----------------------------------------------------------------------------
(* The first state                                                         *)

\* The inductive invariant holds when the device is switched on first.
LEMMA InitInv == BootInit => BootInv
<1> SUFFICES ASSUME BootInit PROVE BootInv
  OBVIOUS
<1> USE Numbers, Records DEF BootInit
<1>1. BootTypeOK
  <2>1. [bank |-> NoBank, n |-> 0] \in [bank : Bank \cup {NoBank}, n : 0 .. MaxCnt + 1]
    OBVIOUS
  <2>2. info \in Record /\ ram \in Record
    OBVIOUS
  <2>3. "bad" \in Started \cup {"bad"} /\ image \in [Bank -> Started \cup {"bad"}]
    OBVIOUS
  <2>4. /\ plain \in BOOLEAN /\ pc = "off" /\ job = "none" /\ new = "bad"
        /\ faults = 0 /\ fresh = NoBank
    OBVIOUS
  <2>5. faults \in 0 .. MaxFaults
    BY <2>4
  <2> QED
    BY <2>1, <2>2, <2>3, <2>4, <2>5, Zenon DEF BootTypeOK
<1>2. JobOK
  BY DEF JobOK, InRecord, InBank
<1>3. RecordOK
  <2>1. Sane(ram) /\ ram.mode = TOGGLE
    OBVIOUS
  <2>2. CASE info = Default
    BY <2>1, <2>2 DEF RecordOK
  <2>3. CASE info = Blank
    <3>1. ~info.tag
      BY <2>3
    <3> QED
      BY <2>1, <2>3, <3>1, Zenon DEF RecordOK
  <2> QED
    BY <2>2, <2>3
<1>4. ImageOK
  BY DEF ImageOK, GoodBankLeft, Bank
<1>5. FreshOK
  BY DEF FreshOK, UpgradeTried
<1>6. TriesOK
  BY DEF TriesOK, TriesBounded, Counted, Own
<1> QED
  BY <1>1, <1>2, <1>3, <1>4, <1>5, <1>6 DEF BootInv

-----------------------------------------------------------------------------
(* Every step                                                              *)

\* Choosing the bank keeps the inductive invariant.
LEMMA PowerOnInv ==
    ASSUME BootInv, PowerOn
    PROVE  BootInv'
<1> DEFINE r == rtk_init_bootinfo
           s == rtk_ckeck_booting(r)
           t == rtk_check_bank_image(s)
<1>1. /\ r \in Record /\ Sane(r) /\ (info.tag => r = info) /\ (~info.tag => r = Default)
      /\ faults = 0 => r.mode = TOGGLE
      /\ r.tag
  BY Records DEF BootInv, BootTypeOK, RecordOK, rtk_init_bootinfo, Sane
<1> HIDE DEF r
<1>2. /\ \/ s = r /\ (r.cnt < r.max \/ GivesUp(r))
         \/ s = SwitchBank(r)
      /\ r.cnt < r.max => s = r
  <2>1. r.cnt \in Nat /\ r.max \in Nat
    BY <1>1, Numbers DEF Record, Byte
  <2>2. r.cnt < r.max <=> ~(r.cnt >= r.max)
    BY <2>1
  <2> QED
    BY <2>2 DEF rtk_ckeck_booting
<1>3. GivesUp(r) => r.mode # TOGGLE
  BY <1>1, Switching DEF GivesUp
<1>4. s \in Record /\ Sane(s) /\ s.mode = r.mode
  BY <1>1, <1>2, Switching
<1> HIDE DEF s
<1>5. /\ image[Place(s)] # "bad" => t = s
      /\ image[Place(s)] = "bad" => t = SwitchBank(s)
  BY DEF rtk_check_bank_image
<1>6. t \in Record /\ Sane(t) /\ t.mode = r.mode
  BY <1>4, <1>5, Switching
<1>7. \/ /\ GivesUp(r)
         /\ ram' = r /\ pc' = "serving" /\ tries' = tries
      \/ /\ ~GivesUp(r) /\ ram' = t
         /\ pc' = IF image[Place(t)] = "bad" THEN "serving" ELSE "wait"
         /\ tries' = IF Place(t) # Place(s) THEN [bank |-> NoBank, n |-> 0] ELSE tries
  BY DEF PowerOn, r, s
<1> HIDE DEF t
<1>8. /\ pc = "off" /\ info' = info /\ image' = image /\ job' = job /\ new' = new
      /\ faults' = faults /\ plain' = plain /\ fresh' = fresh
      /\ pc' \in {"serving", "wait"}
  BY <1>7 DEF PowerOn
<1>9. BootTypeOK'
  <2>1. [bank |-> NoBank, n |-> 0] \in [bank : Bank \cup {NoBank}, n : 0 .. MaxCnt + 1]
    BY Numbers
  <2> QED
    BY <1>1, <1>6, <1>7, <1>8, <2>1 DEF BootInv, BootTypeOK
<1>10. JobOK'
  BY <1>8 DEF BootInv, JobOK, Quiet, InRecord, InBank
<1>11. RecordOK'
  BY <1>1, <1>6, <1>7, <1>8 DEF BootInv, RecordOK
<1>12. ImageOK'
  <2>1. GoodBankLeft'
    BY <1>8 DEF BootInv, ImageOK, GoodBankLeft
  <2>2. ~plain /\ faults = 0 => image[Place(ram')] # "bad"
    <3> SUFFICES ASSUME ~plain, faults = 0 PROVE image[Place(ram')] # "bad"
      OBVIOUS
    <3>1. r.mode = TOGGLE /\ ram' = t
      BY <1>1, <1>3, <1>7
    <3>2. CASE image[Place(s)] # "bad"
      BY <1>5, <3>1, <3>2
    <3>3. CASE image[Place(s)] = "bad"
      <4>1. Place(t) = 1 - Place(s)
        BY <1>4, <1>5, <3>1, <3>3, Switching
      <4>2. PICK b \in Bank : image[b] # "bad"
        BY <1>8 DEF BootInv, ImageOK, GoodBankLeft
      <4>3. b = 1 - Place(s)
        BY <3>3, <4>2, Places DEF Bank
      <4> QED
        BY <3>1, <4>1, <4>2, <4>3
    <3> QED
      BY <3>2, <3>3
  <2>3. job = "none"
    BY <1>8 DEF BootInv, JobOK, Quiet
  <2> QED
    BY <1>8, <2>1, <2>2, <2>3 DEF ImageOK
<1>13. FreshOK'
  <2>1. ASSUME fresh # NoBank PROVE ram' = info /\ Place(info) = fresh
    <3>1. info.tag /\ Place(info) = fresh /\ info.cnt < info.max /\ image[fresh] # "bad"
      BY <1>8, <2>1 DEF BootInv, FreshOK
    <3>2. r = info /\ s = r /\ t = s
      BY <1>1, <1>2, <1>5, <3>1
    <3> QED
      BY <1>7, <3>1, <3>2
  <2>2. UpgradeTried'
    BY <1>8, <2>1 DEF UpgradeTried
  <2>3. job = "none"
    BY <1>8 DEF BootInv, JobOK, Quiet
  <2> QED
    BY <1>8, <2>1, <2>2, <2>3 DEF BootInv, FreshOK, InBank
<1>14. TriesOK'
  <2>1. tries.n \in Nat /\ tries'.n \in Nat /\ (tries' = tries \/ tries'.n = 0)
    BY <1>7, <1>9, Numbers DEF BootInv, BootTypeOK
  <2>2. r.mode = TOGGLE => tries.n <= MaxCnt /\ tries.n <= r.cnt
                           /\ (tries.n # 0 => tries.bank = Place(r))
    BY <1>1, <1>8, <2>1, Numbers, Records DEF BootInv, TriesOK, Counted, Own, Record, Byte
  <2>3. r.mode = TOGGLE /\ ram' = t => Counted(ram)' /\ ram'.cnt < MaxCnt
    <3> SUFFICES ASSUME r.mode = TOGGLE, ram' = t
                 PROVE  Counted(ram)' /\ ram'.cnt < MaxCnt
      OBVIOUS
    <3>1. s.cnt < MaxCnt /\ (tries.bank = Place(s) => tries.n <= s.cnt)
      <4>1. CASE s = r /\ (r.cnt < r.max \/ GivesUp(r))
        BY <1>1, <1>3, <2>2, <4>1, <2>1, Numbers, Places DEF Sane, Record, Byte
      <4>2. CASE s = SwitchBank(r)
        BY <1>1, <2>1, <2>2, <4>2, Numbers, Switching, Places DEF Bank
      <4> QED
        BY <1>2, <4>1, <4>2
    <3>2. tries.n <= MaxCnt
      BY <2>2
    <3>3. CASE t = s
      BY <1>7, <1>3, <2>1, <3>1, <3>2, <3>3, Numbers, <1>4 DEF Counted, Record, Byte
    <3>4. CASE t # s
      <4>1. t.cnt = 0 /\ Place(t) # Place(s)
        BY <1>4, <1>5, <3>4, Switching, Places DEF Bank
      <4>2. tries'.n = 0
        BY <1>3, <1>7, <4>1
      <4> QED
        BY <4>1, <4>2, Numbers DEF Counted
    <3> QED
      BY <3>3, <3>4
  <2>4. TriesBounded'
    <3>1. ram'.mode = r.mode
      BY <1>6, <1>7
    <3> QED
      BY <2>1, <2>2, <3>1, Numbers DEF TriesBounded
  <2>5. info.tag => (Counted(info) /\ Own(info))'
    BY <1>8, <2>1, Numbers DEF BootInv, BootTypeOK, Record, Byte, TriesOK, Counted, Own
  <2>6. pc' = "wait" => Counted(ram)' /\ (ram'.mode = TOGGLE => ram'.cnt < MaxCnt)
    <3>1. pc' = "wait" => ram' = t
      BY <1>7
    <3> QED
      BY <1>6, <2>3, <3>1 DEF Counted
  <2>7. job = "none" /\ (~info.tag => tries'.n = 0)
    BY <1>8, <2>1 DEF BootInv, JobOK, Quiet, TriesOK
  <2> QED
    BY <1>8, <2>4, <2>5, <2>6, <2>7 DEF TriesOK, InRecord
<1> QED
  BY <1>9, <1>10, <1>11, <1>12, <1>13, <1>14 DEF BootInv

\* Entering the download mode keeps the inductive invariant.
LEMMA DownModeInv ==
    ASSUME BootInv, DownMode
    PROVE  BootInv'
<1> USE DEF BootInv, DownMode, history
<1>1. BootTypeOK'
  BY DEF BootTypeOK
<1>2. JobOK'
  BY DEF JobOK, Quiet, InRecord, InBank
<1>3. RecordOK'
  BY DEF RecordOK
<1>4. ImageOK'
  BY DEF ImageOK, GoodBankLeft
<1>5. FreshOK'
  BY DEF FreshOK, InBank, UpgradeTried
<1>6. TriesOK'
  BY DEF TriesOK, TriesBounded, Counted, Own, InRecord
<1> QED
  BY <1>1, <1>2, <1>3, <1>4, <1>5, <1>6

\* Counting a start keeps the inductive invariant.
LEMMA LocalStartInv ==
    ASSUME BootInv, LocalStart
    PROVE  BootInv'
<1> USE Numbers DEF BootInv, LocalStart, history
<1>1. BootTypeOK'
  BY DEF BootTypeOK, Record, Byte
<1>2. JobOK'
  BY DEF JobOK, Quiet, InBank
<1>3. RecordOK'
  <2>1. ram.cnt \in Byte /\ Sane(ram) /\ (ram.mode = TOGGLE => ram.cnt < MaxCnt)
    BY DEF BootTypeOK, Record, RecordOK, TriesOK
  <2>2. /\ ram'.tag = ram.tag /\ ram'.mode = ram.mode /\ ram'.max = ram.max
        /\ ram'.bank = ram.bank
        /\ ram.mode = TOGGLE => ram'.cnt = ram.cnt + 1
    BY <2>1 DEF BootTypeOK, Record, Byte
  <2>3. Sane(ram')
    BY <2>1, <2>2 DEF Sane, Byte
  <2> QED
    BY <2>2, <2>3 DEF RecordOK
<1>4. ImageOK'
  BY DEF ImageOK, GoodBankLeft
<1>5. FreshOK'
  <2>1. ram'.bank = ram.bank /\ Place(ram') = Place(ram)
    BY DEF BootTypeOK, Record, Place
  <2> QED
    BY <2>1 DEF FreshOK, InBank, UpgradeTried, JobOK, Quiet
<1>6. TriesOK'
  <2>1. /\ ram'.bank = ram.bank /\ Place(ram') = Place(ram) /\ ram'.mode = ram.mode
        /\ ram.mode = TOGGLE => ram'.cnt = ram.cnt + 1
    BY DEF BootTypeOK, Record, Byte, Place, TriesOK
  <2>2. tries.n \in Nat /\ ram.cnt \in Nat
    BY DEF BootTypeOK, Record, Byte
  <2> QED
    BY <2>1, <2>2 DEF TriesOK, TriesBounded, Counted, Own, InRecord
<1> QED
  BY <1>1, <1>2, <1>3, <1>4, <1>5, <1>6

\* Erasing the record keeps the inductive invariant.
LEMMA EraseInfoInv ==
    ASSUME BootInv, EraseInfo
    PROVE  BootInv'
<1> USE Records DEF BootInv, EraseInfo, history
<1>1. BootTypeOK'
  BY DEF BootTypeOK
<1>2. JobOK'
  BY DEF JobOK, Quiet, InRecord, InBank
<1>3. RecordOK'
  BY DEF RecordOK
<1>4. ImageOK'
  BY DEF ImageOK, GoodBankLeft
<1>5. FreshOK'
  BY DEF FreshOK, InBank, UpgradeTried
<1>6. TriesOK'
  BY DEF TriesOK, TriesBounded, InRecord
<1> QED
  BY <1>1, <1>2, <1>3, <1>4, <1>5, <1>6

\* Programming the record keeps the inductive invariant.
LEMMA ProgramInfoInv ==
    ASSUME BootInv, ProgramInfo
    PROVE  BootInv'
<1> USE Numbers, Places DEF BootInv, ProgramInfo
<1>1. BootTypeOK'
  <2>1. Again(Place(ram)) \in [bank : Bank \cup {NoBank}, n : 0 .. MaxCnt + 1]
    <3>1. tries.n \in 0 .. MaxCnt + 1
      BY DEF BootTypeOK
    <3> QED
      BY <3>1 DEF Again
  <2> QED
    BY <2>1 DEF BootTypeOK
<1>2. JobOK'
  BY DEF JobOK, Quiet, InRecord, InBank
<1>3. RecordOK'
  BY DEF RecordOK, Sane
<1>4. ImageOK'
  BY DEF ImageOK, GoodBankLeft
<1>5. FreshOK'
  BY DEF FreshOK, UpgradeTried, JobOK, InRecord
<1>6. TriesOK'
  <2>1. CASE job = "start"
    <3>1. /\ ram.tag /\ ram.cnt \in Nat /\ tries.n \in Nat
          /\ ram.mode = TOGGLE => ram.cnt <= MaxCnt
      BY DEF BootTypeOK, Record, Byte, RecordOK, Sane
    <3>2. tries'.bank = Place(ram) /\ tries'.n \in Nat
      BY <2>1, <3>1 DEF Again
    <3>3. ram.mode = TOGGLE => tries'.n <= ram.cnt
      BY <2>1, <3>1 DEF Again, TriesOK, InRecord
    <3> QED
      BY <2>1, <3>1, <3>2, <3>3 DEF TriesOK, TriesBounded, Counted, Own, InRecord
  <2>2. CASE job # "start"
    <3>1. job = "upgrade" /\ tries.n = 0 /\ tries' = tries /\ ram.tag /\ ram.cnt \in Nat
      BY <2>2 DEF JobOK, InRecord, TriesOK, RecordOK, Sane, BootTypeOK, Record, Byte
    <3> QED
      BY <2>2, <3>1 DEF TriesOK, TriesBounded, Counted, Own, InRecord
  <2> QED
    BY <2>1, <2>2
<1> QED
  BY <1>1, <1>2, <1>3, <1>4, <1>5, <1>6

\* An upgrade keeps the inductive invariant.
LEMMA UploadMarkedInv ==
    ASSUME BootInv, NEW h \in Started, UploadMarked(h)
    PROVE  BootInv'
<1> USE Numbers, Places DEF BootInv, UploadMarked
<1>1. BootTypeOK'
  <2>1. SwitchBank(ram) \in Record
    BY Switching DEF BootTypeOK, RecordOK
  <2> QED
    BY <2>1 DEF BootTypeOK
<1>2. JobOK'
  BY DEF JobOK, Quiet
<1>3. RecordOK'
  <2>1. Sane(SwitchBank(ram)) /\ SwitchBank(ram).mode = ram.mode
    BY Switching DEF BootTypeOK, RecordOK
  <2> QED
    BY <2>1 DEF RecordOK
<1>4. ImageOK'
  <2>1. ~plain /\ faults = 0 => /\ ram.mode = TOGGLE /\ image[Place(ram)] # "bad"
                               /\ 1 - Place(SwitchBank(ram)) = Place(ram)
    BY Switching DEF BootTypeOK, RecordOK, ImageOK, Bank
  <2>2. GoodBankLeft'
    BY DEF ImageOK, GoodBankLeft
  <2> QED
    BY <2>1, <2>2 DEF ImageOK
<1>5. FreshOK'
  <2>1. SwitchBank(ram).cnt = 0
    BY Switching DEF BootTypeOK, RecordOK
  <2> QED
    BY <2>1 DEF FreshOK, UpgradeTried, InBank
<1>6. TriesOK'
  BY DEF TriesOK, TriesBounded, Counted, Own
<1> QED
  BY <1>1, <1>2, <1>3, <1>4, <1>5, <1>6

\* An upload without the mark keeps the inductive invariant.
LEMMA UploadPlainInv ==
    ASSUME BootInv, NEW h \in Started, UploadPlain(h)
    PROVE  BootInv'
<1> USE Numbers, Places DEF BootInv, UploadPlain
<1>1. BootTypeOK'
  BY DEF BootTypeOK
<1>2. JobOK'
  BY DEF JobOK, Quiet, InRecord
<1>3. RecordOK'
  BY DEF RecordOK
<1>4. ImageOK'
  BY DEF ImageOK, GoodBankLeft
<1>5. FreshOK'
  BY DEF FreshOK, UpgradeTried
<1>6. TriesOK'
  BY DEF TriesOK, TriesBounded, Counted, Own
<1> QED
  BY <1>1, <1>2, <1>3, <1>4, <1>5, <1>6

\* Erasing a bank keeps the inductive invariant.
LEMMA EraseBankInv ==
    ASSUME BootInv, EraseBank
    PROVE  BootInv'
<1> USE DEF BootInv, EraseBank, history
<1>1. BootTypeOK'
  BY DEF BootTypeOK
<1>2. JobOK'
  BY DEF JobOK, Quiet, InRecord, InBank
<1>3. RecordOK'
  BY DEF RecordOK
<1>4. ImageOK'
  <2>1. image' = [image EXCEPT ![Dest] = "bad"] /\ image \in [Bank -> Started \cup {"bad"}]
    BY DEF BootTypeOK
  <2>2. ASSUME ~plain, faults = 0 PROVE job = "upgrade" /\ image'[1 - Place(ram)] # "bad"
    <3>1. job = "upgrade" /\ Dest = Place(ram)
      BY <2>2 DEF JobOK, InBank, Dest
    <3>2. Dest # 1 - Place(ram)
      BY <3>1 DEF Place
    <3> QED
      BY <2>1, <2>2, <3>1, <3>2 DEF ImageOK
  <2> QED
    BY <2>2 DEF ImageOK, GoodBankLeft
<1>5. FreshOK'
  BY DEF FreshOK, InBank, UpgradeTried, JobOK
<1>6. TriesOK'
  BY DEF TriesOK, TriesBounded, Counted, Own, InRecord
<1> QED
  BY <1>1, <1>2, <1>3, <1>4, <1>5, <1>6

\* Programming a bank keeps the inductive invariant.
LEMMA ProgramBankInv ==
    ASSUME BootInv, ProgramBank
    PROVE  BootInv'
<1> USE Numbers, Places DEF BootInv, ProgramBank
<1>1. BootTypeOK'
  <2>1. Dest \in Bank
    BY DEF Dest, Bank
  <2> QED
    BY <2>1 DEF BootTypeOK, Off
<1>2. JobOK'
  BY DEF JobOK, InRecord, InBank, Off
<1>3. RecordOK'
  BY DEF RecordOK
<1>4. ImageOK'
  <2>1. Dest \in Bank
    BY DEF Dest, Bank
  <2>2. image'[Dest] # "bad"
    BY <2>1 DEF BootTypeOK, JobOK, InBank, Started
  <2> QED
    BY <2>1, <2>2 DEF ImageOK, GoodBankLeft, Off
<1>5. FreshOK'
  <2>1. Dest \in Bank
    BY DEF Dest, Bank
  <2>2. image'[Dest] # "bad" /\ job \in {"upgrade", "plain"}
    BY <2>1 DEF BootTypeOK, JobOK, InBank, Started
  <2>3. job = "upgrade" => /\ info = ram /\ ram.tag /\ ram.cnt = 0 /\ ram.max > 0
                           /\ Dest = Place(info)
    BY DEF FreshOK, InBank, RecordOK, Sane, Dest
  <2> QED
    BY <2>1, <2>2, <2>3 DEF FreshOK, UpgradeTried, InBank, Off
<1>6. TriesOK'
  BY DEF TriesOK, TriesBounded, Counted, Own, Off
<1> QED
  BY <1>1, <1>2, <1>3, <1>4, <1>5, <1>6

\* A flash error keeps the inductive invariant.
LEMMA BurnFailsInv ==
    ASSUME BootInv, BurnFails
    PROVE  BootInv'
<1> USE Numbers, Places DEF BootInv, BurnFails
<1>1. BootTypeOK'
  BY DEF BootTypeOK
<1>2. JobOK'
  BY DEF JobOK, InRecord, InBank
<1>3. RecordOK'
  BY DEF RecordOK, BootTypeOK
<1>4. ImageOK'
  BY DEF ImageOK, GoodBankLeft, BootTypeOK, JobOK, InBank
<1>5. FreshOK'
  BY DEF FreshOK, UpgradeTried
<1>6. TriesOK'
  BY DEF TriesOK, TriesBounded, Counted, Own
<1> QED
  BY <1>1, <1>2, <1>3, <1>4, <1>5, <1>6

\* A power failure between two steps keeps the inductive invariant.
LEMMA PowerOffInv ==
    ASSUME BootInv, PowerOff
    PROVE  BootInv'
<1> USE DEF BootInv, PowerOff, history
<1>1. BootTypeOK'
  BY DEF BootTypeOK, Off
<1>2. JobOK'
  BY DEF JobOK, InRecord, InBank, Off
<1>3. RecordOK'
  BY DEF RecordOK
<1>4. ImageOK'
  BY DEF ImageOK, GoodBankLeft, Off, Torn
<1>5. FreshOK'
  BY DEF FreshOK, UpgradeTried, Off, Torn
<1>6. TriesOK'
  BY DEF TriesOK, TriesBounded, Counted, Own, Off, Torn
<1> QED
  BY <1>1, <1>2, <1>3, <1>4, <1>5, <1>6

\* A power failure inside a write keeps the inductive invariant.
LEMMA PowerOffInWriteInv ==
    ASSUME BootInv, PowerOffInWrite
    PROVE  BootInv'
<1> USE Numbers, Records, Places DEF BootInv, PowerOffInWrite
<1>0. /\ info' \in Record
      /\ info'.tag => Sane(info')
      /\ info'.tag \/ info' = Blank
  <2>1. CASE info' \in {Blank, info}
    <3>1. info \in Record /\ (info.tag => Sane(info)) /\ (info.tag \/ info = Blank)
      BY DEF BootTypeOK, RecordOK
    <3> QED
      BY <2>1, <3>1
  <2>2. ASSUME NEW n \in 0 .. 3, info' = Cut(ram, n)
        PROVE  info' \in Record /\ info'.tag /\ Sane(info')
    <3>1. ram \in Record /\ Sane(ram)
      BY DEF BootTypeOK, RecordOK
    <3> QED
      BY <2>2, <3>1, Torns
  <2>3. info' \in {Blank, info} \/ \E n \in 0 .. 3 : info' = Cut(ram, n)
    OBVIOUS
  <2> QED
    BY <2>1, <2>2, <2>3
<1>1. BootTypeOK'
  BY <1>0 DEF BootTypeOK, Off
<1>2. JobOK'
  BY DEF JobOK, InRecord, InBank, Off
<1>3. RecordOK'
  <2>1. faults' # 0 /\ ram' = ram
    BY DEF BootTypeOK
  <2> QED
    BY <1>0, <2>1, Zenon DEF RecordOK
<1>4. ImageOK'
  BY DEF ImageOK, GoodBankLeft, BootTypeOK, JobOK, InBank
<1>5. FreshOK'
  BY DEF FreshOK, UpgradeTried, Off
<1>6. TriesOK'
  BY <1>0 DEF TriesOK, TriesBounded, Counted, Own, Off, Record, Byte
<1> QED
  BY <1>1, <1>2, <1>3, <1>4, <1>5, <1>6

\* A sign of life keeps the inductive invariant.
LEMMA ClearCountInv ==
    ASSUME BootInv, ClearCount
    PROVE  BootInv'
<1> USE Numbers DEF BootInv, ClearCount
<1>1. BootTypeOK'
  BY DEF BootTypeOK, Record
<1>2. JobOK'
  BY DEF JobOK, Quiet, InRecord, InBank
<1>3. RecordOK'
  <2>1. /\ info'.tag = info.tag /\ info'.bank = info.bank /\ info'.max = info.max
        /\ info'.mode = info.mode /\ info'.cnt = 0 /\ info.tag
    BY DEF BootTypeOK, Record, TriesOK
  <2> QED
    BY <2>1 DEF RecordOK, Sane
<1>4. ImageOK'
  BY DEF ImageOK, GoodBankLeft
<1>5. FreshOK'
  BY DEF FreshOK, InBank, UpgradeTried
<1>6. TriesOK'
  BY DEF TriesOK, TriesBounded, Counted, Own, InRecord
<1> QED
  BY <1>1, <1>2, <1>3, <1>4, <1>5, <1>6

\* The watchdog keeps the inductive invariant.
LEMMA WatchdogInv ==
    ASSUME BootInv, Watchdog
    PROVE  BootInv'
<1> USE DEF BootInv, Watchdog, history
<1>1. BootTypeOK'
  BY DEF BootTypeOK, Off
<1>2. JobOK'
  BY DEF JobOK, InRecord, InBank, Off
<1>3. RecordOK'
  BY DEF RecordOK
<1>4. ImageOK'
  BY DEF ImageOK, GoodBankLeft, Off
<1>5. FreshOK'
  BY DEF FreshOK, UpgradeTried, Off
<1>6. TriesOK'
  BY DEF TriesOK, TriesBounded, Counted, Own, Off
<1> QED
  BY <1>1, <1>2, <1>3, <1>4, <1>5, <1>6

\* Every step of the device keeps the inductive invariant.
LEMMA NextInv == BootInv /\ [BootNext]_bootVars => BootInv'
<1> SUFFICES ASSUME BootInv, [BootNext]_bootVars PROVE BootInv'
  OBVIOUS
<1>1. CASE UNCHANGED bootVars
  <2> USE <1>1 DEF bootVars
  <2>1. BootTypeOK' /\ JobOK' /\ RecordOK'
    BY DEF BootInv, BootTypeOK, JobOK, Quiet, InRecord, InBank, RecordOK
  <2>2. ImageOK' /\ FreshOK'
    BY DEF BootInv, ImageOK, GoodBankLeft, FreshOK, UpgradeTried, InBank
  <2>3. TriesOK'
    BY DEF BootInv, TriesOK, TriesBounded, Counted, Own, InRecord
  <2> QED
    BY <2>1, <2>2, <2>3 DEF BootInv
<1>2. CASE PowerOn
  BY <1>2, PowerOnInv
<1>3. CASE Continue
  BY <1>3, LocalStartInv, EraseInfoInv, ProgramInfoInv, EraseBankInv, ProgramBankInv
     DEF Continue
<1>4. CASE DownMode
  BY <1>4, DownModeInv
<1>5. CASE Serve
  BY <1>5, UploadMarkedInv, UploadPlainInv DEF Serve
<1>6. CASE BurnFails
  BY <1>6, BurnFailsInv
<1>7. CASE PowerFails
  BY <1>7, PowerOffInv, PowerOffInWriteInv DEF PowerFails
<1>8. CASE ClearCount
  BY <1>8, ClearCountInv
<1>9. CASE Watchdog
  BY <1>9, WatchdogInv
<1> QED
  BY <1>1, <1>2, <1>3, <1>4, <1>5, <1>6, <1>7, <1>8, <1>9 DEF BootNext

-----------------------------------------------------------------------------
(* What holds of every behaviour                                           *)

\* The inductive invariant always holds.
THEOREM BootInvariant == BootSpec => []BootInv
BY InitInv, NextInv, PTL DEF BootSpec

\* The record, the banks and the steps of a write stay within their types.
THEOREM BootTypeCorrect == BootSpec => []BootTypeOK
<1>1. BootInv => BootTypeOK
  BY DEF BootInv
<1> QED
  BY <1>1, BootInvariant, PTL

\* One power failure inside a write, or one flash error, never costs the last
\* image that starts, for every limit on the tries (rtk_update_bootbank before
\* the burning in checkAutoFlashing).
THEOREM GoodBankStays == BootSpec => []GoodBankLeft
<1>1. BootInv => GoodBankLeft
  BY DEF BootInv, ImageOK
<1> QED
  BY <1>1, BootInvariant, PTL

\* A completed upgrade is what the next start takes.
THEOREM UpgradeIsTried == BootSpec => []UpgradeTried
<1>1. BootInv => UpgradeTried
  BY DEF BootInv, FreshOK
<1> QED
  BY <1>1, BootInvariant, PTL

\* No image is started more often in a row than bootmaxcnt says
\* (rtk_ckeck_booting, rtk_inc_bootcnt).
THEOREM TriesStayBounded == BootSpec => []TriesBounded
<1>1. BootInv => TriesBounded
  BY DEF BootInv, TriesOK
<1> QED
  BY <1>1, BootInvariant, PTL
=============================================================================
