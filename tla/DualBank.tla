------------------------------- MODULE DualBank -------------------------------
(***************************************************************************)
(* Two firmware banks in one SPI flash (CONFIG_RTL_FLASH_DUAL_IMAGE_ENABLE):*)
(* how the boot code picks the bank to start (check_dualbank_setting in    *)
(* src/boot/init/utility.c) and burns an uploaded image into a bank        *)
(* (checkAutoFlashing in src/boot/init/eth_tftpd.c), with the power failing*)
(* between any two steps.                                                  *)
(*                                                                         *)
(* Abstractions.  A bank has one place for a kernel and one for a root     *)
(* file system.  What they hold is the version, that is the number of the  *)
(* upload it came from, or Bad when its checksum does not come out.  A     *)
(* program operation writes the page that holds the header before the      *)
(* others; a tear inside it may leave the fields after the signature       *)
(* erased.  Sections for other places than the banks (boot code, web       *)
(* pages) leave the banks alone.                                           *)
(*                                                                         *)
(* A Deviant_ operator is a deliberate mistake and no part of the model:   *)
(* put in place of the definition of that name, it breaks a property.      *)
(***************************************************************************)
EXTENDS Naturals, Sequences

CONSTANTS
    GoodBit,     \* GOOD_BANK_MARK_MASK, 2^31: the top bit of a burnAddr
    ForceMark,   \* FORCEBOOT_BANK_MARK
    Images,      \* uploaded files, as sequences of sections
    MaxUploads   \* bound: uploads

NoImageMark == GoodBit          \* NO_IMAGE_BANK_MARK
OldMark     == GoodBit + 1      \* OLD_BURNADDR_BANK_MARK
BasicMark   == GoodBit + 2      \* BASIC_BANK_MARK
Erased      == 2 * GoodBit - 1  \* a word of erased flash

Bank    == {1, 2}               \* BANK1_BOOT, BANK2_BOOT
Kernels == {"linux", "linux-root"}  \* FW_SIGNATURE, FW_SIGNATURE_WITH_ROOT
Bad     == 0

\* good: the checksum comes out.  fills: it ends where the sector before the
\* root file system ends, so that spi_flw_image erases one sector of that too.
Section == [sig : Kernels \cup {"root", "web", "boot"}, good : BOOLEAN, fills : BOOLEAN]

ASSUME MarkAssumption ==
    /\ GoodBit \in Nat /\ ForceMark \in Nat
    /\ BasicMark < ForceMark /\ ForceMark < Erased

ASSUME ImageAssumption == Images \subseteq Seq(Section) /\ MaxUploads \in Nat

VARIABLES
    bank,         \* the flash: what each bank holds
    pc,           \* "off", "linux", "serving" (the TFTP server) or "burning"
    boot_bank, bank_mark,   \* the globals of the same names
    return_addr,  \* the bank whose image goToLocalStartMode loads
    image, section, step,   \* where checkAutoFlashing is
    reboot,       \* its local of that name
    version,      \* number of the last upload
    \* history, read by no action of the code
    failures,     \* upgrades that stopped short or lacked a root file system
    forced        \* has an upgrade ever found ForceMark?

globals  == <<boot_bank, bank_mark, return_addr>>
flashing == <<image, section, step, reboot>>
history  == <<failures, forced>>
vars     == <<bank, pc, globals, flashing, version, history>>

-----------------------------------------------------------------------------
(* Choosing a bank                                                         *)

\* find_system_header and header_to_mark
MarkOf(b) ==
    IF bank[b].sig = "none" THEN NoImageMark
    ELSE IF bank[b].burnAddr >= GoodBit THEN bank[b].burnAddr
    ELSE OldMark

Other(b) == 3 - b

\* The bank check_dualbank_setting prefers: the headers decide.
Preferred == IF MarkOf(2) > MarkOf(1) THEN 2 ELSE 1

\* check_image_header
Bootable(b) ==
    /\ bank[b].sig \in Kernels /\ bank[b].kernel # Bad
    /\ bank[b].sig = "linux-root" => bank[b].root # Bad

Deviant_Target == boot_bank

\* sel_burnbank_offset, as the bank at that offset
Target == IF bank_mark = ForceMark THEN boot_bank ELSE Other(boot_bank)

Deviant_NextMark == IF bank_mark < BasicMark THEN BasicMark ELSE bank_mark

Deviant2_NextMark ==
    IF bank_mark < BasicMark THEN BasicMark
    ELSE IF bank_mark = ForceMark THEN bank_mark
    ELSE bank_mark + 1

\* get_next_bank_mark, in unsigned arithmetic
NextMark ==
    IF bank_mark < BasicMark THEN BasicMark
    ELSE IF bank_mark = ForceMark THEN bank_mark
    ELSE IF bank_mark = Erased THEN 0
    ELSE bank_mark + 1

-----------------------------------------------------------------------------
(* Starting up                                                             *)

\* The marks an image builder gives a bank: none, or one that already counts.
FirstBurnAddr == {0, BasicMark, ForceMark}

EmptyBank == [sig |-> "none", burnAddr |-> Erased, kernel |-> Bad, root |-> Bad]

\* A device leaves the factory with an image in bank 1.
Init ==
    /\ \E sig \in Kernels, mark \in FirstBurnAddr :
          bank = [b \in Bank |-> IF b = 1
                    THEN [sig |-> sig, burnAddr |-> mark, kernel |-> 1, root |-> 1]
                    ELSE EmptyBank]
    /\ pc = "off"
    /\ boot_bank = 0 /\ bank_mark = 0 /\ return_addr = 0
    /\ image = <<>> /\ section = 1 /\ step = "check" /\ reboot = FALSE
    /\ version = 1
    /\ failures = 0 /\ forced = FALSE

\* The bank check_dualbank_setting leaves in boot_bank, of the two it tried.
Deviant_Settled(first, ok1, ok2) == first

Settled(first, ok1, ok2) == IF ~ok1 /\ ok2 THEN Other(first) ELSE first

\* start_kernel: check_dualbank_setting(IN_BOOTING_MODE), then doBooting.  The
\* user may press ESC in the check of the first bank, in that of the second or
\* at the prompt after them; a check that saw the key finds no image.
Boot ==
    /\ pc = "off"
    /\ \E esc \in {"first", "second", "prompt", "never"} :
         LET first == Preferred
             ok1   == Bootable(first) /\ esc # "first"
             ok2   == Bootable(Other(first)) /\ esc \notin {"first", "second"}
         IN  /\ boot_bank' = Settled(first, ok1, ok2)
             /\ return_addr' = IF ok1 THEN first ELSE Other(first)
             /\ pc' = IF (ok1 \/ ok2) /\ esc # "prompt" THEN "linux" ELSE "serving"
    /\ bank_mark' = MarkOf(boot_bank')
    /\ UNCHANGED <<bank, flashing, version, history>>

-----------------------------------------------------------------------------
(* Burning an upload                                                       *)

\* The file brings a kernel and, if that wants one, a root file system behind
\* the last kernel in it.
Whole(file) ==
    \E k \in DOMAIN file :
        /\ file[k].sig \in Kernels
        /\ \A j \in DOMAIN file : j > k => file[j].sig \notin Kernels
        /\ file[k].sig = "linux-root" => \E r \in DOMAIN file : r > k /\ file[r].sig = "root"

BringsKernel(file) == \E k \in DOMAIN file : file[k].sig \in Kernels

\* checkAutoFlashing begins: check_dualbank_setting(IN_TFTP_MODE).
Upload ==
    /\ pc = "serving" /\ version <= MaxUploads
    /\ image' \in Images
    /\ section' = 1 /\ step' = "check" /\ reboot' = FALSE
    /\ boot_bank' = Preferred /\ bank_mark' = MarkOf(Preferred)
    /\ version' = version + 1
    /\ pc' = "burning"
    /\ forced' = (forced \/ bank_mark' = ForceMark)
    /\ UNCHANGED <<bank, return_addr, failures>>

Now == image[section]
Burning(where) == pc = "burning" /\ step = where /\ section <= Len(image)

\* The loop turns to the next section.
NextSection == section' = section + 1 /\ step' = "check"

\* spi_flw_image erases all it is about to write before it writes any of it.
EraseKernel ==
    /\ Burning("check") /\ Now.good /\ Now.sig \in Kernels
    /\ bank' = [bank EXCEPT ![Target].sig = "none", ![Target].burnAddr = Erased,
                            ![Target].kernel = Bad,
                            ![Target].root = IF Now.fills THEN Bad ELSE @]
    /\ step' = "erased"
    /\ reboot' = TRUE
    /\ UNCHANGED <<pc, globals, image, section, version, history>>

EraseRoot ==
    /\ Burning("check") /\ Now.good /\ Now.sig = "root"
    /\ bank' = [bank EXCEPT ![Target].root = Bad]
    /\ step' = "erased"
    /\ UNCHANGED <<pc, globals, image, section, reboot, version, history>>

\* A section that goes elsewhere.
BurnOther ==
    /\ Burning("check") /\ Now.good /\ Now.sig \in {"web", "boot"}
    /\ NextSection
    /\ reboot' = (reboot \/ Now.sig = "boot")
    /\ UNCHANGED <<bank, pc, globals, image, version, history>>

\* The page of the header, whose burnAddr has become the next bank mark.
ProgramHeader ==
    /\ Burning("erased") /\ Now.sig \in Kernels
    /\ bank' = [bank EXCEPT ![Target].sig = Now.sig, ![Target].burnAddr = NextMark]
    /\ step' = "header"
    /\ UNCHANGED <<pc, globals, image, section, reboot, version, history>>

ProgramKernel ==
    /\ Burning("header")
    /\ bank' = [bank EXCEPT ![Target].kernel = version]
    /\ NextSection
    /\ UNCHANGED <<pc, globals, image, reboot, version, history>>

ProgramRoot ==
    /\ Burning("erased") /\ Now.sig = "root"
    /\ bank' = [bank EXCEPT ![Target].root = version]
    /\ NextSection
    /\ UNCHANGED <<pc, globals, image, reboot, version, history>>

\* checkAutoFlashing returns: its locals are gone.
Return == image' = <<>> /\ section' = 1 /\ step' = "check" /\ reboot' = FALSE

PowerOff ==
    /\ pc' = "off" /\ Return
    /\ boot_bank' = 0 /\ bank_mark' = 0 /\ return_addr' = 0

\* A checksum that does not come out, or a flash operation that fails, ends
\* the upgrade where it is; the server goes on.
Abandon ==
    /\ pc = "burning" /\ section <= Len(image)
    /\ pc' = "serving" /\ Return
    /\ failures' = failures + 1
    /\ UNCHANGED <<bank, globals, version, forced>>

\* The loop ends: autoreboot, or back to the server.
Finish ==
    /\ pc = "burning" /\ section > Len(image)
    /\ IF reboot THEN PowerOff
       ELSE pc' = "serving" /\ Return /\ UNCHANGED globals
    /\ failures' = IF BringsKernel(image) /\ ~Whole(image)
                 THEN failures + 1 ELSE failures
    /\ UNCHANGED <<bank, version, forced>>

\* The power fails, or Linux restarts the device.
PowerLoss ==
    /\ pc # "off" /\ PowerOff
    /\ failures' = IF pc = "burning" THEN failures + 1 ELSE failures
    /\ UNCHANGED <<bank, version, forced>>

\* The power fails while the page of the header is programmed: the signature
\* is there, burnAddr still erased.  If len is erased too, the start sums over
\* 4 GB before it fails the checksum: the same outcome, later.
TornHeader ==
    /\ Burning("erased") /\ Now.sig \in Kernels
    /\ bank' = [bank EXCEPT ![Target].sig = Now.sig]
    /\ PowerOff
    /\ failures' = failures + 1
    /\ UNCHANGED <<version, forced>>

Next ==
    \/ Boot \/ Upload
    \/ EraseKernel \/ EraseRoot \/ BurnOther
    \/ ProgramHeader \/ ProgramKernel \/ ProgramRoot
    \/ Abandon \/ Finish \/ PowerLoss \/ TornHeader

Spec == Init /\ [][Next]_vars

-----------------------------------------------------------------------------
(* Properties                                                              *)

BankRecord == [sig : Kernels \cup {"none"}, burnAddr : 0 .. Erased,
               kernel : 0 .. version, root : 0 .. version]

\* Every variable keeps its type; in particular a bank mark stays one word.
TypeOK ==
    /\ bank \in [Bank -> BankRecord]
    /\ pc \in {"off", "linux", "serving", "burning"}
    /\ boot_bank \in Bank \cup {0} /\ return_addr \in Bank \cup {0}
    /\ bank_mark \in 0 .. Erased
    /\ image \in Images \cup {<<>>} /\ section \in 1 .. Len(image) + 1
    /\ step \in {"check", "erased", "header"} /\ reboot \in BOOLEAN
    /\ version \in 1 .. MaxUploads + 1
    /\ failures \in Nat /\ forced \in BOOLEAN

\* Linux runs from a bank whose checksums came out, no bootable bank has a
\* higher mark, and boot_bank, which set_bankinfo_register passes on to Linux,
\* names the bank that was loaded, also when the check fell back to the other.
RunsBestBank ==
    pc = "linux" =>
        /\ return_addr \in Bank /\ boot_bank = return_addr
        /\ Bootable(return_addr)
        /\ \A b \in Bank : Bootable(b) => MarkOf(b) <= MarkOf(return_addr)

\* The bank a restart would start Linux from.
Starts(b) == Bootable(b) /\ (Preferred = b \/ ~Bootable(Preferred))

\* When an upgrade that brought all it needs is through, a restart runs what it
\* brought: the marks and checksums favour the new bank over the old, whatever
\* earlier upgrades left behind in either.
UpgradeTakesEffect ==
    pc = "burning" /\ section > Len(image) /\ Whole(image) =>
        LET new == bank[Target]
        IN  /\ Starts(Target)
            /\ new.kernel = version
            /\ new.sig = "linux-root" => new.root = version

\* One failed upgrade never leaves a device that cannot start: cut off by the
\* power, a flash error or a bad checksum, even in the middle of a header, it
\* finds a bank to boot afterwards, and still does when it has been upgraded
\* since.  (FORCEBOOT_BANK_MARK gives that up: it upgrades the bank in use.)
OneFailureIsSafe ==
    pc # "burning" /\ failures <= 1 /\ ~forced => \E b \in Bank : Bootable(b)

\* What the comment in checkAutoFlashing says, "must do check image to get
\* current boot_bank": the bank an upgrade takes for the current one boots,
\* if any does.
CurrentBankBoots ==
    [][ pc = "serving" /\ pc' = "burning" /\ (\E b \in Bank : Bootable(b))
          => Bootable(boot_bank') ]_vars

\* What is in a bank that boots, and what a restart would run.
Nothing == [kernel |-> Bad, root |-> Bad]

SystemIn(b) ==
    IF ~Bootable(b) THEN Nothing
    ELSE [kernel |-> bank[b].kernel,
          root   |-> IF bank[b].sig = "linux-root" THEN bank[b].root ELSE Bad]

Running == IF Bootable(Preferred) THEN SystemIn(Preferred) ELSE SystemIn(Other(Preferred))

\* The upgrade spares the bank it takes for the current one.
Spared == IF bank_mark = ForceMark THEN Nothing ELSE SystemIn(boot_bank)

\* Seen by what a start runs, the two banks keep the promises of SafeUpgrade:
\* with no failure before it, an upgrade goes over from the old system to one
\* with the new kernel and never to nothing, wherever it is cut off; when it
\* is through the new system is complete; a file without a kernel, burnt into
\* the bank not in use, changes nothing; and a start runs what it should.
Upgrades == INSTANCE SafeUpgrade WITH
    runs      <- Running,
    base      <- IF pc = "burning" THEN Spared ELSE Running,
    started   <- IF pc = "linux" THEN SystemIn(return_addr) ELSE Nothing,
    upgrading <- IF pc # "burning" THEN "no"
                 ELSE IF Whole(image) THEN "whole"
                 ELSE IF BringsKernel(image) THEN "partial" ELSE "kernelless",
    inPlace   <- forced

UpgradeSpec == Upgrades!Spec
=============================================================================
