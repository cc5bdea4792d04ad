# Verification of the RTL8197F boot loader

TLA+ models, TLC runs and TLAPS proofs for the second-stage boot loader in
`src/boot`: the code that decides which firmware to start and, in download mode,
receives a new firmware by TFTP through its own Ethernet driver and burns it into
flash. A device that gets one of these wrong does not start again, and almost none
of it can be exercised by a unit test: it depends on which packet arrives when, on
what the switch core does meanwhile, and on where the power fails.

Contents: [inventory](#inventory), [plan](#plan), [modules](#modules),
[runs](#runs), [proofs](#proofs), [findings](#findings), [limits](#limits),
[not modelled](#not-modelled).

## Inventory

The repository holds the first-stage boot code (`btcode`, assembly and a
decompressor), the second stage (`boot`) and the build files. The core logic is in
`boot/init`, `boot/rtl8196x/swNic_poll.c` and, for the flash, `boot/flash` and
`boot/nand_flash`.

    wire -> switch core <-> swNic_poll.c <- eth_interrupt -> kick_tftpd -> handlers of eth_tftpd.c
                             (rings)        (ethInt_865x.c)                  |          ^
                                                                             v          | LOADADDR, AUTOBURN,
                                              flash <- checkAutoFlashing <- RAM image   | FLR, ETH
                                                |          (upgrade)                 monitor.c
                                                v
                      start_kernel -> check_image / check_dualbank_setting -> Linux or download mode
                       |  initHeap      | boot record (rtk_bootinfo.c)
                       v                v
                      malloc, free     flash, on NAND through the remap table (rtknflash_bbt.c)

| Component | State | Operations | Interacts through | Hard about it | Correct when |
|---|---|---|---|---|---|
| TFTP server, `eth_tftpd.c` | `bootState`, `one_tftp_lock`, `block_expected`, `it_is_EOF`, `image_address`, `address_to_store`, two file lengths, client, ports, `jump_to_test`, `autoBurn` | one handler per (state, event), tftpd_entry | interrupt per packet; globals shared with the monitor | lost, repeated and late packets; two clients; left-overs of an earlier transfer | the lock is held while busy and clean when free; the image in RAM is one image; every put completes |
| NIC driver, `swNic_poll.c`, `ethInt_865x.c` | descriptor rings with OWN bits, indices, `pktbuf`, interrupt registers | receive, send, txDone, init, eth_interrupt | rings shared with the switch core; `nic.packet` given to the handlers | the core runs concurrently; ring full, ring empty; restart | CPU and core never use a slot both; packets in order; none left unread |
| Boot and upgrade, `utility.c`, `checkAutoFlashing` | flash banks, `boot_bank`, `bank_mark`, `return_addr` | choose a bank, burn a section, reboot | flash contents survive, globals do not | power failure between flash operations; later section fails; marks wrap | best bank starts; an upgrade takes effect; one failure leaves a bootable bank |
| Boot information, `rtk_bootinfo.c`, `utility.c` | record in flash (bank, count of starts, limit, mode), its copy in RAM | read, reset, count up, switch bank, write back | upgrade and boot paths; the started system clears the count | the bank is recorded before it is burnt; record erased, then written | a new image is tried; one that hangs is given up; a good bank is left and found again |
| NAND remapping, `rtknflash_bbt.c`, `ops_rtknand.c`, `rtk_nand.c` | tables of good and of replaced blocks, three copies in flash | load, look up, remap after a failed erase, write or read, rewrite the copies | every flash access of a NAND build | failure between copies, chains of replaced blocks | virtual blocks lead to different good blocks; what was written is read back |
| Heap, `calloc.c` | free list, headers in the blocks | `i_alloc`, `malloc`, `free` | NIC start-up, NAND reads and writes | any order of calls; joining of neighbours; exhaustion | blocks never overlap; the list stays ordered and joined; every call ends |
| Monitor, `monitor.c` | – | commands | writes the server's globals | runs between interrupts | – |
| XMODEM, DHCP, TCP/HTTP, TFTP client role | one transfer or connection each | – | optional in the build | – | – |
| Register-level drivers, DRAM set-up, kernel hand-over | hardware | – | – | – | – |

`PROJECT.json` lists these components with their status and the hazards of the
code, each at its line.

## Plan

In this order, the most important behaviour first:

1. `TftpServer`, the server under arbitrary packets, with proofs. *Done.*
2. `TftpNet`, server, honest client and unreliable network, with proofs. *Done.*
3. `SwNic` and its abstract specification `NicFifo`, with proofs and refinement. *Done.*
4. `DualBank`, upgrade and boot under power failure, with proofs. *Done.*
5. `HeapArena` and `Heap`: the allocator against an abstract arena, with proofs and refinement. *Done.*
6. `BootInfo`, the boot record: a bank recorded before it is burnt; with proofs. *Done.*
7. `BootSystem`, heap and boot record together from power-on to power-off. *Done.*
8. `NandRemap`: chains of replaced blocks, copies of the table; with proofs. *Done.*
9. `TftpNet_proofs`: an invariant over the packets in flight, from which data integrity follows. *Done.*
10. `SafeUpgrade`, what a start would run at every moment of an upgrade; `DualBank` implements it, proved. *Done.*
11. `ImageService`, what the operator of a TFTP client gets; server, network and client implement it, proved. *Done.*
12. The first boot of a NAND device, before its tables exist. *Open.*
13. An abstract device with a block map for `NandRemap` to implement. *Open.*

## Modules

A `Deviant_` operator is not part of a model. It is a plausible bug, named after
the definition it may replace, and shows that a property can fail.

**`TftpServer`** – one step per received packet: `kick_tftpd(p)` decides with
`RaisesEvent` whether the packet raises an event and calls the handler the table
`BootStateEvent` names. Handlers have the names of the C functions. An interrupt does
not nest, so a handler is one step; `Monitor` and `CmdEthStartup` are the commands
LOADADDR, AUTOBURN, FLR and ETH that run between interrupts. `control` says what became of the loader: it
serves, has jumped to an image, is rebooting, or is `wild` after
`tftpd_send_data` was asked for a block behind the end of the file (negative
`length`, handed to `memcpy`). Files are counted in full 512-byte blocks; `BlockMod` and `PortMod` are
the ranges of the `unsigned short` block number and port, `WrqTimeout` the 2000
jiffies of the takeover rule, `MaxBlocks` the bound on a file. ARP is left out:
its handlers change nothing the server role reads.

**`TftpNet`** – the same server with a client (external, RFC 1350: stop and wait, resend, a new port for every attempt)
that works through `Jobs`. A packet stays in `net` or `back` and may be
delivered any number of times, in any order or never, until time passes. `GiveUp`
abandons an attempt with its packets in flight; `Crash` and `Reset` restart the board.
**`ImageService`** is what the operator may rely on: one image is on offer, a put replaces it as a whole while the put is
under way and at no other time, a get reads it from the first block to the last. The refinement hides packets, ports, lock and retries:
`turn` is the job, `offered` the put whose image downloads read.

**`SwNic`** – the two rings used by the driver and the place of the switch core in
each. The steps of the CPU are `Interrupt`, `Poll`, `PollForeign`, `PollEmpty`, `Handle`
and `Leave`, that is `eth_interrupt` cut at every call into the driver; `Arrive`,
`Runout` and `Transmit` are the core and happen between any two of them.
`swNic_init` is a restart by the ETH command. `NicFifo` is the abstract
receive side: a bounded queue and a packet in hand. The refinement maps the slots
from `currRxPkthdrDescIndex` on, as many as are unread, to the queue.

**`DualBank`** – `Boot` is `check_dualbank_setting` at start-up with the ESC key
pressed at any point; `Upload` is its second mode, called by
`checkAutoFlashing`, whose section loop is then a step per flash operation: erase all, program
the page of the header, program the rest. `PowerLoss` may come between any two,
`TornHeader` inside the header's page, `Abandon` is a bad checksum or a flash
error. A bank holds the number of the upload its kernel and root file system come
from, or `Bad`. `failures` and `forced` are history for the properties.
**`SafeUpgrade`** is an upgrade seen by what a start would run if the power failed now: the *base*, the system it
replaces, or the kernel it brings. The refinement computes it from the flash, with `Running` (what `Boot` would start)
and `Spared` (the bank that is not being burnt).

**`Heap`** – `malloc` and `free` with a step per turn of their loops, on a free list kept as the code
keeps it: `frhd`, and `ptr` and `size` of the headers in the list; `used` holds the sizes in the headers of blocks
handed out. A unit is one `HEADER`. **`HeapArena`** says what a caller may rely on: first
fit, no overlap, nothing lost but what `malloc` passes over (it never moves `prev`, so blocks that
were too small drop off the list), and giving up only when no gap is wide enough. The refinement
computes the lost units from the list.

**`BootInfo`** – the record of `CONFIG_RTK_BOOTINFO_DUALIMAGE`. `PowerOn` is `check_image`: read the
record, trust it for its tag, give up or switch after too many starts, switch again if the checksum fails.
`LocalStart`, `EraseInfo`, `ProgramInfo` are `rtk_inc_bootcnt` and its way into flash; `UploadMarked`
is a file with the end mark, for which `checkAutoFlashing` switches and writes the record *before* it
burns. A bank's image is good, or starts and hangs, or is bad. `ClearCount` and `Watchdog` are the started system, outside this
repository. `PowerOffInWrite` leaves a record without a tag, or one cut (`Cut`) behind its tag, bank, maximum or
count; the mode comes last.

**`BootSystem`** – both, composed: a start sets up the heap and reads the record; `malloc` and `free` run in the
download mode only, and a call that does not return stops everything but the power switch.

**`NandRemap`** – `nflashWriteBlock` cut at every page operation, the three handlers of a failed
erase, write and read, and `rtk_update_bbt`, which erases and writes the three copies of the table one
after another. Power fails anywhere; `LoadTable` and `CreateTable` are the next start. `harm` counts
updates cut short and copies lost, `misread` and `stale` remember a failed read and a copy that could not be erased: the properties say what they exclude.

`MC*` modules give small values to the constants, `*_proofs` hold the theorems.

## Runs

| Run | Property | What it says |
|---|---|---|
| `tftp_server` | `BusyIsLocked`, `FreeIsClean` | the lock is taken during a transfer and releasing it leaves nothing behind |
| `tftp_net` | `UploadIntegrity`, `PublishedImage` | what is stored is a prefix of one image; what is published is all of it |
| | `AckedIsStored` | the client is told the truth |
| | `BlocksAnswered` | DATA of a first attempt is answered with the ACK the client waits for |
| | `ServiceSpec` | refinement of `ImageService`: a get reads one image, whole and in order, and no late packet brings an old one back |
| | `ReadsInsideFile` | no answer to an honest client reads behind the end of the file |
| | `NoSilentRestart` | a late WRQ does not rewind an upload |
| `tftp_net_live` | `PutsComplete` | every put is completed, unless a retry is overtaken by a block of the attempt before it |
| `nic_ring` | `SendOwnsItsSlot`, `TxWindow`, `RxWindow`, `OnlyReadReturned` | ownership of every slot, also of the one being handled |
| | `NoLostWakeUp` | once the handler is through, a packet waits only with an interrupt pending or behind one for somebody else |
| | `FifoSpec` | refinement of `NicFifo` |
| | `PacketsAreRead` | a received packet is read |
| `dual_bank` | `RunsBestBank`, `UpgradeTakesEffect`, `OneFailureIsSafe` | which bank starts |
| | `UpgradeSpec` | refinement of `SafeUpgrade`: at every flash operation a start would run the old system or the new kernel |
| `boot_system` | `BlocksApart`, `ListJoined` | blocks never overlap; the free list is in order, and neighbours are joined |
| | `ArenaSpec` | refinement of `HeapArena` |
| | `CallsReturn` | every `malloc` and `free` ends, or hangs where the code says so |
| | `GoodBankLeft` | one failure at the wrong moment leaves an image to start |
| | `UpgradeTried` | the start after an upgrade is a start of the new image |
| | `TriesBounded` | an image that hangs is started `bootmaxcnt` times in a row and no more |
| | `FallsBack` | left alone, the device comes up with a good image |
| `nand_remap` | `TablesSound`, `NeverOnListed`, `OneToOne` | no block is listed or used twice; a failed one is not used again |
| | `ReadBack`, `StartsAgain` | data and tables survive any one interruption |

Each state-machine module also has a type invariant, which is not idle: it includes that
block numbers, ring indices, bank marks and counts stay within their width.

**Bounds, and why they are enough.** `tftp_server`: two hosts (a client and an intruder),
block numbers modulo 3, so that they wrap in a file of two blocks, two load
addresses; a 20-second silence is one tick. `tftp_net`: two puts and a get, each tried twice, one crash; block numbers and ports
do not wrap, as they do not for images below 32 MB and fewer than 60000 uploads per start; hence seven ports for the six attempts of the jobs (`NetAssumption`). Two attempts at
each of two puts give every pair (stale packet of the same job, stale packet of the job before). `nic_ring`: rings of three, the
least size at which full, empty and in between differ; two packets for us and one for
somebody else; one restart. `MaxUnread` is below the ring size here: otherwise the restart
breaks `OnlyReadReturned`, which is run `nic_restart`. `dual_bank`: four uploads are enough to go to both banks
twice; marks have four bits, so that three upgrades count up to the forced mark (2^31 in the code)
and the all-ones mark of a torn header wraps. `DualBank.cfg`, `MCTftpServer.cfg`, `SwNic.cfg`
check for deadlock; `TftpNet` ends when the jobs are done. `boot_system`: four units and requests
of one and two give every case of `malloc` and `free`: split, whole, passed over, failed; below the head,
joined below, above, on both sides, linked between. Two starts per image, so that the
limit is reached in either bank; two faults, one more than `GoodBankLeft` allows. `nand_remap`: a virtual block and a block
that fails after it has been replaced need a reserve of two; one block is bad from the start, so that ranks and block numbers differ; two pages tell a block that was moved in the middle; one
data value, for a lost write shows as an erased page or the other block's. With two failing operations and two updates cut short, the
cases `ReadBack` excludes are reached. Both check for deadlock.

**Fairness.** `TftpNet`: the client's timer resends (`Send`), a network that does not lose a
packet that is sent again and again (`DeliverOutgoing`, `Receive`; strong fairness, because loss
disables delivery in between), the board's timer interrupt (`TimePasses`), and an
operator who resets a board that has left the server and ends a get that gets nowhere. Nothing makes stale packets arrive. `SwNic`: a pending interrupt is served,
the core transmits what it owns, and the stations on the wire do not fall silent – the client's
resending again. Without the last, a packet behind a foreign one would stay unread for as
long as nobody speaks: that is what the code does. `BootSystem`: the processor runs (`Start`, a step of a call, a step of the
boot code: weak fairness), the power does not fail at the same step of every start (`LocalStart`, `EraseInfo`,
`ProgramInfo`: strong fairness, because a power failure disables them), and the watchdog resets
a system that hangs. The operator, uploads and the clearing of the count are not assumed to happen.

## Proofs

For every value of the constants that satisfies the named assumptions
(`ConstantsAssumption`, `NetAssumption`, `RingAssumption`, `MarkAssumption`, `ImageAssumption`, `HeapAssumption`,
`BootAssumption`, `NandAssumption`), TLAPS checks:

* **`TftpServer_proofs`**. `TypeCorrect`; then `LockInv`, the conjunction of `BusyIsLocked`
  and `FreeIsClean`. Neither is inductive alone: that a handler of a busy
  state finds the lock taken is what lets it leave `block_expected` alone, and that a
  free server is in its initial state is what lets `setTFTP_RRQ` not reset `it_is_EOF`. `DownloadsStartClean` is
  an action property that follows from both (a download never begins on left-overs); `LengthIsDistance`, that byte count and store pointer of an upload agree, is inductive over the types.
* **`TftpNet_proofs`**. Every step of the network is a step or a stutter of the server (`ServerInNetwork`), so
  the theorems above hold here too. `NetInv` has the types of what travels, the puts that are done, and either
  `Live` or, after a restart until the client asks again, `Orphan`: nothing in flight that the server would act upon. `Live` is a statement about every packet and
  answer in flight. What carries it is that `SERVER_port` moves on with each completed upload:
  DATA with the current port was sent by the put under way to the upload being received (`DataPort`,
  `DataServed`), every other is behind; an ACK of the current port is about what is stored, one of an earlier port says the put is done (`AckTrue`).
  A late WRQ can begin an upload that nobody feeds; it stores nothing, and what is published stays (`Rest`). A put
  has fewer attempts than there are ports (`TriesBound`), so that a port is not met twice.
  `UploadsIntact`, `PublishedIsWhole`, `AcksAreTrue`, `DownloadsIntact` and `UploadsNeverRewind` follow.
  `ReadsStayInside` adds `ReadInv`: a WRQ that turns a get's download into an upload is an earlier put's, so something of a
  block at least is published, and the get's ACKs make the server send blocks that exist.
  `BlocksAreAnswered` adds `StepInv`: during a first attempt the server has stored no block the client has not reached
  (`InStep`), and no fewer than it has been told (`PuttingOK`), so that what `prepareACK` answers, first time or again, is the client's block. `ServiceIsKept` is the refinement of `ImageService`, step by
  step; it needs `NetInv` before and after a step: `GettingOK` makes DATA the next block of the image on offer, `FinishedPut`
  says a put has taken effect when the client goes on. `GetsReadLatest` says what that service is worth: the image on offer is
  that of the last put (`OfferInv`), and what a get has read is one image.
* **`SwNic_proofs`**. `TxInv`: types and `TxWindow`. That `swNic_txDone`
  stops at the core's place is the lemma that carries it; `SendIsSafe`
  says the assertion in `swNic_send` cannot fail. The receive side is proved under `Paced ==
  MaxUnread < RxCnt \/ MaxStartups = 0`, the exact complement of the run that violates it.
  `ReceiveInv` strengthens `RxWindow` (`RxOrder`) by what the driver's `firstTime` tells of the
  slot before the read index, which it returns (`Previous`: it has been read, unless the NIC was
  restarted), and by where the packet in hand is (`Handling`). `WakeUpsArrive` adds `WakeInv`: the loop is left at a slot of the core, when by `RxWindow` nothing is unread, or at a packet for somebody else; what comes in behind that look raises the interrupt again, which was acknowledged on the way in. `DriverIsFifo` proves the refinement of `NicFifo`: initial states, and every step a step or a stutter.
* **`DualBank_proofs`**. `StartsBestBank` follows from the steps alone. `BurnInv` says what the flash
  looks like at each place of the section loop: what the section under way has done to its bank
  (`StepOK`), that the mark read at the beginning is still that of the current bank, so that the
  next one beats it (`MarksOK`), and that what has been burnt so far is this upload's (`BurntOK`). It holds whatever failed
  before. `FailInv` counts failures: with none, the preferred bank boots, so that an upgrade writes the
  other one; with one, some bank boots until the next upgrade has begun a kernel (`AtRestOK`, `FailuresOK`), and
  `UpgradesTakeEffect` makes that bank bootable again when it is through. Only a second failure in between can
  leave none. `UpgradesKeepPromises` is the refinement of `SafeUpgrade`. A bank that does not boot leaves the start to the other (`RunsOther`), so writes to a bank without a good
  kernel are not seen (`WriteUnseen`); the kernel in the bank under way is this upload's or none (`Fresh`), so that a start runs
  the base or the new kernel (`OldOrNew`). `PromisesAreSafe` closes the
  circle without a look at the flash: every implementation of `SafeUpgrade` survives a single failure.

* **`Heap_proofs`**. `HeapInv` has the list in order (`Ordered`: two blocks, free or handed out, lie one behind the
  other; `Linked`: `ptr` leads to the next free block and never to one that touches) and, in the middle of a call, what its locals know (`CallOK`: what
  `malloc` has passed over is too small, what `free` has passed lies below and does not touch). `BlocksApart` and
  `ListJoined` follow. `HeapIsArena` is the refinement: `GapInBlock` – open units in a row
  lie in one free block, because neighbours are joined – makes `malloc`'s block the first gap of the arena.
  `CallsAreFinite` is the part of `CallsReturn` that needs no fairness: every step of a call shortens `Remaining`, the
  part of the arena in front of it, so that no call takes more steps than the arena has units.
* **`BootInfo_proofs`**. `BootInv` says of every place in the program how RAM and flash agree (`JobOK`,
  `RecordOK`), which banks may be bad after how many faults (`ImageOK`), that a completed upgrade is named by the
  record (`FreshOK`), and that the tries of an image are no more than the record counts (`TriesOK`).
* **`NandRemap_proofs`**. First the lookup: `Ready` is what a table must be for one pass to find the end of a
  chain (`ChaseReaches`) and for two chains to end apart (`ChaseApart`); `ListedMore` and `ListedChase` say what one more
  entry changes: only who would have reached the listed block is led on. `NandInv` keeps all tables `Ready`. `CopiesLeft` counts
  what an update cut short leaves. `DataInv`, under the faults data survive, says how copies, table and blocks agree at each place of a write, a
  handler and an update (`Written`, `CopiesAgree`, `CopiesInUpdate`): during an update the copies above are new and those below old, and either
  leads to the data, because only the block under way is led elsewhere. That the pass exists at all is shown by a
  least counterexample (`Least`), for want of induction over the recursive function.
* **`BootSystem_proofs`**. Every step of the composition is a step or a stutter of either
  component, so `SystemHeap`, `SystemBoot` and all invariants carry over (`SystemSafe`).

**Only model-checked**: liveness (`PutsComplete`, `PacketsAreRead`, `CallsReturn`,
`FallsBack`), which is beyond the proof system. Two of them have a proved half: no wake-up is lost (`WakeUpsArrive`), and a call has only so many steps (`CallsAreFinite`).
**Only proved**: `DownloadStartsClean`, `HandledIsOurs`, `DownloadIntegrity` and `LatestImage` follow from properties
that are checked, and `LengthMatchesAddress` is a lemma of the proofs in `TftpNet_proofs`; none has a run of its own. The refinements and all safety properties of the passing runs are both checked and proved.

## Findings

Five places where the code does not do what it says of itself, each with a run that ends
in a counterexample:

* `tftp_two_uploaders` – "now lock the tftp..till upload finished": until the first block is stored any host's WRQ takes the upload over (`eth_tftpd.c:2031`).
* `nic_send` – "waits until the packet is successfully sent": it does not, and there is one buffer for all descriptors.
* `nic_restart` – "return the previous read one": after a restart of the NIC the static `firstTime` returns a slot that was never read.
* `nic_deaf` – "for continue reception": a ring that is full before its first packet is read, and a packet for somebody else at its head, stop reception for good.
* `dual_bank_current` – "must do check image to get current boot_bank": the bank is chosen by the headers alone, so that the upgrade after an interrupted one overwrites the good bank. `OneFailureIsSafe` is about one failure for this reason.

Seen while modelling, and part of the models without a run of their own:

* `calloc.c:150` – `malloc` never moves `prev`, so a first block that is too small is lost with every other one before
  the block found (`lost` of `HeapArena`); and after the arena was handed out to the last unit, `free` meets `frhd == NULL`, which
  its comment (52) rules out, and hangs in `ASSERT_CSP`.
* `swNic_poll.c:508` – every ETH command takes new rings from the heap and returns none: in the end `malloc` hangs.
* `utility.c:829` – the boot record is trusted for its tag. One that was torn behind it never switches: cut before the count, which then reads 255, it gives up at every start until an
  upgrade resets it, and allows 255 starts after that if the maximum is erased too.
* `rtknflash_bbt.c:877` – a copy of the table that cannot be erased is written all the same, with the tag of a good one, where the comment says "do not write
  data": it may be loaded later although it is old.
* `ops_rtknand.c:369` – a failed read lists the virtual number of its page as a bad block and reports success.
* `rtknflash_bbt.c:1238` – the second `memset` wipes the bad mark that 1232 has just set.
* Two interrupted updates lose the remapping of a block; two copies that go bad and an interruption at the third make the code take the device for new. A torn copy stays
  torn until the next update, for `rtk_block_isbad` answers 1 and the repair (`rtknflash_bbt.c:491-512`) is not reached.
* `eth_tftpd.c:1425` – `prepareACK` compares the server's port and the block number, not the client's port: DATA of an attempt that was given up is stored in the
  place of the retry's own (the bytes are the same), and the server is then ahead of the client, whose block it answers with a later block's ACK. That
  upload never completes (`Overtaken`); the operator has to try once more.
* `eth_tftpd.c:1224` – between the kernel and the root file system of an upgrade, a start would run the new kernel with the root file system an earlier upload left in that bank. The checksums hold for each alone.

## Limits

* Build variants: the TFTP and NIC models follow the default configuration; `DualBank`
  follows `CONFIG_RTL_FLASH_DUAL_IMAGE_ENABLE` on SPI flash, `BootInfo` `CONFIG_RTK_BOOTINFO_DUALIMAGE`, `NandRemap` `CONFIG_RTK_REMAP_BBT`.
* `BootInfo` has files of one section. A second section with the end mark would switch the record again and add the bank's offset to the first one's.
  A record torn by a power failure has its bytes programmed whole and in order; the length in its header may be torn as well, and is never read.
* `NandRemap` begins after the first boot, with a table that fits a page; the operations on the replacement and on the failed block that end a handler succeed, as the code assumes. The bad mark is in the first page: `isLastPage` is 0 for SPI NAND
  (`ops_rtknand.c:203`) and for every chip in `rtkn_chip_param.h`.
* `DualBank`: a torn header may have its length erased too; the start then sums over 4 GB before the checksum fails. Time is abstracted, the outcome is the same.
* `TftpServer`: DATA with more than 512 bytes, or with a UDP length that is not the packet's (`eth_tftpd.c:1425-1475`), is not modelled; no property depends on it.
* `tftpd_entry` is one step although the ETH command runs it with interrupts enabled (`sti` at `utility.c:1174`);
  a WRQ between its assignments would leave a transfer without a lock, and `BusyIsLocked` and `FreeIsClean` rest on its not coming there.
  At the first start `tftpd_is_ready`, set last (`eth_tftpd.c:1733`), keeps the handlers out. At a repeated ETH the reason is one of time: `eth_startup` has
  emptied the rings and `swCore_init` restarted the negotiation of the PHYs (`swCore.c:1537-1561`) just before, the links are down for seconds, and
  no packet is expected within those few instructions.
* `TftpNet` lets no packet outlive a restart of the board. The code relies on it, for `SERVER_port` starts again from 2098.
* Known effects that are in the models and that no property excludes, because the code allows them: an ACK
  behind the end of a file makes the loader run wild, and so does an honest client after an image shorter than a block, when a late WRQ falls between its RRQ and a repeated ACK 1 (hence
  the premise of `ReadsInsideFile`); a given-up `nfjrom` upload leaves `jump_to_test`
  set.
* `ALL1`/`ALL2` wrappers, and the offset at which a boot or web section behind a kernel is burnt, are not modelled; neither is the
  search for an image at several offsets of a bank.
* The switch core, the client, the network and the power supply are modelled from how the code uses them.

## Not modelled

Almost all of the repository's million lines are not the boot loader: the MIPS
toolchain with its C and C++ headers and uClibc configuration, and the register
headers and the vendor API of switch chips (`boot/rtl83xx`, `boot/rtl8367r`). They have no behaviour that could be stated apart from the
hardware, and account for the small share of mapped lines. Of the loader's own code:

* **Register-level drivers** (`spi.c`, `spi-sheipa.c`, `nand_spi.c`, `nand_parallel.c`, `swCore.c`, `swTable.c`, `vlanTable.c`): sequences of register accesses whose
  meaning is the hardware's. Their outcomes are choices in the models that use them.
* **First-stage boot code, DRAM set-up, kernel hand-over**: straight-line code before there is a second actor or after the last one.
* **XMODEM** (`xmodem.c`): one sender on a serial line, polled. **DHCP**, **TCP/HTTP** and
  the **TFTP client role** are compiled only with options that the default configuration leaves unset; the HTTP pages are not in the repository.
* **Monitor**: memory dump, register and chip tests act on hardware directly. The commands that touch shared state are in `TftpServer`.
* **Single-image path**: the search for an image at several flash offsets, and the LED and reset-key handling around it.
