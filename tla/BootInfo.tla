------------------------------- MODULE BootInfo -------------------------------
(***************************************************************************)
(* Two firmware banks chosen by a record in flash that counts the starts   *)
(* (CONFIG_RTK_BOOTINFO_DUALIMAGE): src/boot/init/rtk_bootinfo.c, its      *)
(* callers in src/boot/init/utility.c, and the part of checkAutoFlashing   *)
(* in src/boot/init/eth_tftpd.c that moves to the other bank, with the     *)
(* power failing between any two steps and inside a write.                 *)
(*                                                                         *)
(* Abstractions.  An uploaded file has one section, a whole image with a   *)
(* good checksum; it is marked when it ends in the end mark of a jffs2     *)
(* image.  Of a bank the model keeps whether its checksum comes out and,   *)
(* if so, whether the system in it comes up.  The system that came up      *)
(* clears the count; it is not part of this repository.                    *)
(*                                                                         *)
(* A Deviant_ operator is a deliberate mistake and no part of the model.   *)
(***************************************************************************)
EXTENDS Naturals

CONSTANTS
    MaxCnt,     \* BOOT_DEFAULT_MAXCNT
    Erased,     \* a byte of erased flash, 0xff
    MaxFaults   \* bound: power failures inside a write, and flash errors

NORMAL == 0     \* BOOT_NORMAL_MODE
TOGGLE == 1     \* BOOT_DUALIMAGE_TOGGLE_MODE

ASSUME BootAssumption ==
    /\ MaxCnt \in Nat \ {0} /\ Erased \in Nat /\ MaxFaults \in Nat
    /\ MaxCnt < Erased /\ TOGGLE < Erased

VARIABLES
    info,       \* the record in flash
    ram,        \* bootinfo_ram
    image,      \* of each bank: "good", "hangs" (started, it does not come
                \* up) or "bad" (its checksum does not come out)
    pc,         \* "off", "wait" (for ESC), "serving", "running", or the next
                \* step of a write of the record or of a bank
    job,        \* what that write is for: "start", "upgrade", "plain"
    new,        \* the uploaded image
    \* history, read by no action of the code
    faults,     \* how many, up to MaxFaults
    plain,      \* has there been an upload without the mark?
    fresh,      \* the bank of a completed upgrade not tried yet, or NoBank
    tries       \* starts of a bank in a row without a sign of life

bootVars == <<info, ram, image, pc, job, new, faults, plain, fresh, tries>>
history  == <<faults, plain, fresh, tries>>

Bank    == {0, 1}
NoBank  == 2
Started == {"good", "hangs"}
Byte    == 0 .. Erased
Record  == [tag : BOOLEAN, bank : Byte, cnt : Byte, max : Byte, mode : Byte]

Blank   == [tag |-> FALSE, bank |-> Erased, cnt |-> Erased, max |-> Erased, mode |-> Erased]
Default == [tag |-> TRUE, bank |-> 0, cnt |-> 0, max |-> MaxCnt, mode |-> TOGGLE]

\* Of record r only the tag and the first n bytes of the data are programmed:
\* bootbank, bootmaxcnt, bootcnt, bootmode, in this order.
Cut(r, n) ==
    [tag |-> TRUE, bank |-> IF n > 0 THEN r.bank ELSE Erased,
     max |-> IF n > 1 THEN r.max ELSE Erased, cnt |-> IF n > 2 THEN r.cnt ELSE Erased,
     mode |-> Erased]

-----------------------------------------------------------------------------
(* Choosing the bank, in RAM                                               *)

\* Where the images of a record's bank are: any number but 1 is the first.
Place(r) == IF r.bank = 1 THEN 1 ELSE 0

Deviant_rtk_get_next_bootbank(r) ==
    IF r.mode = TOGGLE THEN r.bank + 1 ELSE r.bank

rtk_get_next_bootbank(r) ==
    IF r.mode = TOGGLE THEN (IF r.bank = 0 THEN 1 ELSE 0) ELSE r.bank

Deviant_SwitchBank(r) == [r EXCEPT !.bank = rtk_get_next_bootbank(r)]

SwitchBank(r) == [r EXCEPT !.bank = rtk_get_next_bootbank(r), !.cnt = 0]

\* The record is trusted for its tag alone.
rtk_init_bootinfo == IF info.tag THEN info ELSE Default

\* Too many starts, and no other bank to turn to.
GivesUp(r) == r.cnt >= r.max /\ rtk_get_next_bootbank(r) = r.bank

Deviant_rtk_ckeck_booting(r) == IF r.cnt > r.max THEN SwitchBank(r) ELSE r

rtk_ckeck_booting(r) ==
    IF r.cnt >= r.max /\ ~GivesUp(r) THEN SwitchBank(r) ELSE r

Deviant_rtk_check_bank_image(r) == r

rtk_check_bank_image(r) ==
    IF image[Place(r)] = "bad" THEN SwitchBank(r) ELSE r

-----------------------------------------------------------------------------
(* Starting                                                                *)

Off == pc' = "off" /\ job' = "none" /\ new' = "bad"

\* check_image.
PowerOn ==
    /\ pc = "off"
    /\ LET r == rtk_init_bootinfo
           s == rtk_ckeck_booting(r)
           t == rtk_check_bank_image(s)
       IN  IF GivesUp(r)
           THEN ram' = r /\ pc' = "serving" /\ UNCHANGED tries
           ELSE /\ ram' = t
                /\ pc' = IF image[Place(t)] = "bad" THEN "serving" ELSE "wait"
                /\ tries' = IF Place(t) # Place(s) THEN [bank |-> NoBank, n |-> 0] ELSE tries
    /\ UNCHANGED <<info, image, job, new, faults, plain, fresh>>

\* ESC.
DownMode ==
    /\ pc = "wait" /\ pc' = "serving"
    /\ UNCHANGED <<info, ram, image, job, new, history>>

Deviant_LocalStart ==
    /\ pc = "wait" /\ pc' = "erase_info" /\ job' = "start"
    /\ UNCHANGED <<info, ram, image, new, history>>

\* goToLocalStartMode: the image is in RAM, rtk_inc_bootcnt comes next.
LocalStart ==
    /\ pc = "wait" /\ pc' = "erase_info" /\ job' = "start"
    /\ ram' = [ram EXCEPT !.cnt = IF @ = Erased THEN 0 ELSE @ + 1]
    /\ UNCHANGED <<info, image, new, history>>

-----------------------------------------------------------------------------
(* Writing the record: one sector, erased and programmed                   *)

\* Counted up to one too many.
Again(b) ==
    [bank |-> b,
     n |-> IF tries.bank # b THEN 1
           ELSE IF tries.n > MaxCnt THEN tries.n ELSE tries.n + 1]

EraseInfo ==
    /\ pc = "erase_info" /\ pc' = "program_info"
    /\ info' = Blank
    /\ UNCHANGED <<ram, image, job, new, history>>

\* The system is started, or the bank burnt.
ProgramInfo ==
    /\ pc = "program_info"
    /\ info' = ram
    /\ IF job = "start"
       THEN /\ pc' = "running" /\ job' = "none"
            /\ tries' = Again(Place(ram))
            /\ fresh' = NoBank
       ELSE pc' = "erase_bank" /\ UNCHANGED <<job, tries, fresh>>
    /\ UNCHANGED <<ram, image, new, faults, plain>>

-----------------------------------------------------------------------------
(* An upload: checkAutoFlashing                                            *)

\* Where the section goes: with the mark to the bank just recorded, else to
\* its burnAddr, in the first bank.
Dest == IF job = "upgrade" THEN Place(ram) ELSE 0

Deviant_UploadMarked(h) ==
    /\ pc = "serving" /\ pc' = "erase_info"
    /\ job' = "upgrade" /\ new' = h
    /\ ram' = [ram EXCEPT !.cnt = 0]
    /\ fresh' = NoBank /\ tries' = [bank |-> NoBank, n |-> 0]
    /\ UNCHANGED <<info, image, faults, plain>>

\* rtk_update_bootbank(next_bank), before anything is burnt.
UploadMarked(h) ==
    /\ pc = "serving" /\ pc' = "erase_info"
    /\ job' = "upgrade" /\ new' = h
    /\ ram' = SwitchBank(ram)
    /\ fresh' = NoBank /\ tries' = [bank |-> NoBank, n |-> 0]
    /\ UNCHANGED <<info, image, faults, plain>>

UploadPlain(h) ==
    /\ pc = "serving" /\ pc' = "erase_bank"
    /\ job' = "plain" /\ new' = h
    /\ plain' = TRUE
    /\ fresh' = NoBank /\ tries' = [bank |-> NoBank, n |-> 0]
    /\ UNCHANGED <<info, ram, image, faults>>

EraseBank ==
    /\ pc = "erase_bank" /\ pc' = "program_bank"
    /\ image' = [image EXCEPT ![Dest] = "bad"]
    /\ UNCHANGED <<info, ram, job, new, history>>

\* autoreboot.
ProgramBank ==
    /\ pc = "program_bank"
    /\ image' = [image EXCEPT ![Dest] = new]
    /\ fresh' = IF job = "upgrade" THEN Dest ELSE NoBank
    /\ Off
    /\ UNCHANGED <<info, ram, faults, plain, tries>>

\* "Flash Write Failed!": back to the server, with the record written.
BurnFails ==
    /\ pc = "program_bank" /\ faults < MaxFaults
    /\ pc' = "serving" /\ job' = "none" /\ new' = "bad"
    /\ faults' = faults + 1
    /\ UNCHANGED <<info, ram, image, plain, fresh, tries>>

-----------------------------------------------------------------------------
(* The world around                                                        *)

Torn == pc \in {"program_info", "program_bank"}

PowerOff ==
    /\ pc # "off" /\ ~Torn
    /\ Off
    /\ UNCHANGED <<info, ram, image, history>>

\* A record half programmed is taken for none without its tag; the length
\* behind the tag is never read.
PowerOffInWrite ==
    /\ Torn /\ faults < MaxFaults
    /\ info' \in (IF pc = "program_info" THEN {Blank} \cup {Cut(ram, n) : n \in 0 .. 3} ELSE {info})
    /\ Off
    /\ faults' = faults + 1
    /\ fresh' = NoBank /\ tries' = [bank |-> NoBank, n |-> 0]
    /\ UNCHANGED <<ram, image, plain>>

\* The system is up, and clears the count.
ClearCount ==
    /\ pc = "running" /\ image[Place(ram)] = "good" /\ info.cnt # 0
    /\ info' = [info EXCEPT !.cnt = 0]
    /\ tries' = [bank |-> NoBank, n |-> 0]
    /\ UNCHANGED <<ram, image, pc, job, new, faults, plain, fresh>>

\* The watchdog resets a system that does not come up.
Watchdog ==
    /\ pc = "running" /\ image[Place(ram)] # "good"
    /\ Off
    /\ UNCHANGED <<info, ram, image, history>>

-----------------------------------------------------------------------------
(* The specification                                                       *)

BootInit ==
    /\ info \in {Blank, Default} /\ ram = Default
    /\ image \in {f \in [Bank -> Started \cup {"bad"}] : f[0] = "good"}
    /\ pc = "off" /\ job = "none" /\ new = "bad"
    /\ faults = 0 /\ plain = FALSE /\ fresh = NoBank
    /\ tries = [bank |-> NoBank, n |-> 0]

\* Steps of the boot code that wait for nobody.
Continue == LocalStart \/ EraseInfo \/ ProgramInfo \/ EraseBank \/ ProgramBank

Serve == \E h \in Started : UploadMarked(h) \/ UploadPlain(h)

PowerFails == PowerOff \/ PowerOffInWrite

BootNext ==
    \/ PowerOn \/ Continue \/ DownMode \/ Serve \/ BurnFails
    \/ PowerFails \/ ClearCount \/ Watchdog

BootSpec == BootInit /\ [][BootNext]_bootVars

-----------------------------------------------------------------------------
(* Properties                                                              *)

BootTypeOK ==
    /\ info \in Record /\ ram \in Record
    /\ image \in [Bank -> Started \cup {"bad"}]
    /\ pc \in {"off", "wait", "serving", "running",
               "erase_info", "program_info", "erase_bank", "program_bank"}
    /\ job \in {"none", "start", "upgrade", "plain"}
    /\ new \in Started \cup {"bad"}
    /\ faults \in 0 .. MaxFaults /\ plain \in BOOLEAN
    /\ fresh \in Bank \cup {NoBank}
    /\ tries \in [bank : Bank \cup {NoBank}, n : 0 .. MaxCnt + 1]

\* One power failure at the wrong moment, or one flash error, leaves an image
\* that starts: upgrades go to the bank the device did not boot from, though
\* the record already names that bank when the burning begins.
GoodBankLeft ==
    faults <= 1 /\ ~plain /\ pc # "program_bank" =>
        \E b \in Bank : image[b] # "bad"

\* The first start after a completed upgrade is a start of the new image,
\* unless the record is lost on the way to it.
UpgradeTried ==
    fresh # NoBank /\ pc \in {"wait", "erase_info", "program_info"} => Place(ram) = fresh

\* An image that does not come up is started bootmaxcnt times in a row and no
\* more, as long as the record is whole and the other bank can be started.
TriesBounded == ram.mode = TOGGLE => tries.n <= MaxCnt

\* Left alone, with a good image in either bank and a whole record, the device
\* comes up with a good image, again after every power failure, whatever the
\* other bank holds.
FallsBack ==
    <>[]( /\ pc # "serving" /\ (info.tag => info.mode = TOGGLE)
          /\ \E b \in Bank : image[b] = "good" )
        => []<>(pc = "running" /\ image[Place(ram)] = "good")
=============================================================================
