------------------------------ MODULE NandRemap ------------------------------
(***************************************************************************)
(* The remapping of bad NAND blocks, CONFIG_RTK_REMAP_BBT:                 *)
(* src/boot/nand_flash/rtkn_nand/rtknflash_bbt.c, the page operations of   *)
(* ops_rtknand.c that call it, and nflashWriteBlock of rtk_nand.c.         *)
(*                                                                         *)
(* Table v2r gives the good block behind every virtual one and is never    *)
(* changed after the first boot.  Table bbt lists blocks that went bad     *)
(* later, each with a block of the reserve in its place.  Three copies of  *)
(* bbt are kept in flash and rewritten one after another.                  *)
(*                                                                         *)
(* Abstractions.  The first boot has written its tables, and callers stay  *)
(* in the virtual blocks it found good blocks for.  A table fits a page.   *)
(* The bad mark of a block is in its first page (isLastPage is 0 for every *)
(* chip of rtkn_chip_param.h and for SPI NAND), so a copy whose first page *)
(* cannot be read is passed over and left as it is.                        *)
(* The pages of a block hold one value per write; the operations on the    *)
(* remap block and the bad block that end a handler succeed, their results *)
(* are not looked at, and are one step: of what they move a power failure  *)
(* between them loses only the block being written.                        *)
(*                                                                         *)
(* A Deviant_ operator is a deliberate mistake and no part of the model.   *)
(***************************************************************************)
EXTENDS Naturals, FiniteSets

CONSTANTS
    Blocks,     \* number of blocks, without those of the tables
    RBA,        \* the last so many are the reserve
    Pages,      \* pages of a block
    Data,       \* what a block can be written with
    MaxMarked,  \* bound: blocks bad from the start
    MaxFaults,  \* bound: operations that fail
    MaxHarm     \* bound: updates cut short and copies that go bad

BACKUP_BBT == 3
Block   == 0 .. Blocks - 1
Virtual == 0 .. Blocks - RBA - 1
Page    == 1 .. Pages
Copy    == 1 .. BACKUP_BBT

BB_INIT == Blocks       \* entry not used
RB_INIT == Blocks + 1   \* entry without a remap block
FF      == "ff"         \* an erased page
Unknown == "unknown"    \* what a write cut short leaves

ASSUME NandAssumption ==
    /\ Blocks \in Nat /\ RBA \in Nat \ {0} /\ RBA < Blocks
    /\ Pages \in Nat \ {0}
    /\ MaxMarked \in Nat /\ MaxFaults \in Nat /\ MaxHarm \in Nat
    /\ FF \notin Data /\ Unknown \notin Data

VARIABLES
    page,       \* the flash: contents of every page of every block
    marked,     \* blocks that bear a bad mark
    copy,       \* the copies of bbt: tables, blank, torn, or bad
    v2r, bbt,   \* the tables in RAM
    pc,         \* next step, "idle", "off" or "failed"
    job,        \* the operation whose failure is handled
    virt, data, at,   \* virtual block being written, with what, and the page
    bad, spare, \* block that failed, block_remap
    k, errors,  \* rtk_update_bbt: i and error_count
    \* history, read by no action of the code
    expect,     \* what was last written to every virtual block
    faults, harm, misread, stale

tables  == <<v2r, bbt>>
request == <<virt, data, at>>
update  == <<job, bad, spare, k, errors>>
history == <<expect, faults, harm, misread, stale>>
nandVars == <<page, marked, copy, tables, pc, request, update, history>>

Blank == [kind |-> "blank"]
Torn  == [kind |-> "torn"]
Bad   == [kind |-> "bad"]
Whole(t)   == [kind |-> "table", table |-> t]
IsTable(c) == c.kind = "table"

Erased == [p \in Page |-> FF]

-----------------------------------------------------------------------------
(* The tables                                                              *)

Deviant_Chase(t, block) ==
    IF \E i \in 1 .. RBA : t[i].bad = block
    THEN t[CHOOSE i \in 1 .. RBA : t[i].bad = block].remap
    ELSE block

\* One pass over the entries of t, up to the first that is not used.
Chase(t, block) ==
    LET realblock[i \in 0 .. RBA] ==
            IF i = 0 THEN block
            ELSE IF t[i].bad = realblock[i - 1] /\ \A j \in 1 .. i : t[j].bad # BB_INIT
            THEN t[i].remap ELSE realblock[i - 1]
    IN  realblock[RBA]

rtkn_bbt_get_realpage(v) == Chase(bbt, v2r[v])

real == rtkn_bbt_get_realpage(virt)

\* check_BBT.
Listed(b) == \E i \in 1 .. RBA : bbt[i].bad = b

Deviant_FreeEntry(i) ==
    /\ bbt[i].bad = BB_INIT /\ bbt[i].remap # RB_INIT
    /\ \A j \in i + 1 .. RBA : bbt[j].bad # BB_INIT \/ bbt[j].remap = RB_INIT

FreeEntry(i) ==
    /\ bbt[i].bad = BB_INIT /\ bbt[i].remap # RB_INIT
    /\ \A j \in 1 .. i - 1 : bbt[j].bad # BB_INIT \/ bbt[j].remap = RB_INIT

\* create_v2r_remapping: the good blocks outside the reserve, in order; the
\* rest keeps the zero of memset.
Good(m, b, v) == b \in Virtual \ m /\ Cardinality({c \in Virtual \ m : c < b}) = v
Create_v2r(m) ==
    [v \in Virtual |->
        IF \E b \in Virtual : Good(m, b, v) THEN CHOOSE b \in Virtual : Good(m, b, v) ELSE 0]

\* scan_last_die_BB: the unmarked blocks of the reserve, from the last on.
Reserve == Block \ Virtual
Remap(m, b, i) == b \in Reserve \ m /\ Cardinality({c \in Reserve \ m : c > b}) = i - 1

Deviant_Create_bbt(m) ==
    [i \in 1 .. RBA |->
        [bad |-> BB_INIT, remap |->
            IF \E b \in Reserve : Remap(m, b, 1) THEN CHOOSE b \in Reserve : Remap(m, b, 1) ELSE RB_INIT]]

Create_bbt(m) ==
    [i \in 1 .. RBA |->
        [bad |-> BB_INIT, remap |->
            IF \E b \in Reserve : Remap(m, b, i) THEN CHOOSE b \in Reserve : Remap(m, b, i) ELSE RB_INIT]]

-----------------------------------------------------------------------------
(* Start                                                                   *)

NandInit ==
    /\ marked \in {m \in SUBSET Block : Cardinality(m) <= MaxMarked /\ Virtual \ m # {}}
    /\ page = [b \in Block |-> Erased]
    /\ v2r = Create_v2r(marked) /\ bbt = Create_bbt(marked)
    /\ copy = [i \in Copy |-> Whole(bbt)]
    /\ pc = "idle" /\ job = "none"
    /\ virt = 0 /\ data = Unknown /\ at = 1
    /\ bad = BB_INIT /\ spare = RB_INIT /\ k = 1 /\ errors = 0
    /\ expect = [v \in Virtual |-> Unknown]
    /\ faults = 0 /\ harm = 0 /\ misread = FALSE /\ stale = FALSE

FirstBoot == \A i \in Copy : ~IsTable(copy[i])

\* rtk_nand_scan_bbt on a later boot: the first copy with a tag.  One before
\* it that is torn, bad or blank stays so.
LoadTable ==
    /\ pc = "off" /\ ~FirstBoot
    /\ \E i \in Copy :
          /\ IsTable(copy[i]) /\ \A j \in 1 .. i - 1 : ~IsTable(copy[j])
          /\ bbt' = copy[i].table
    /\ pc' = "idle"
    /\ UNCHANGED <<page, marked, copy, v2r, request, update, history>>

\* No copy has a tag: taken for a first boot, copies that are blank are
\* created.  rtk_block_isbad is -1 for a bad copy and 1 for a torn one; the
\* scan fails if the last is bad, or if no copy could be created.
CreateTable ==
    /\ pc = "off" /\ FirstBoot
    /\ LET created == {i \in Copy : copy[i] = Blank}
       IN  /\ bbt' = IF created # {} THEN Create_bbt(marked) ELSE bbt
           /\ copy' = [i \in Copy |-> IF i \in created THEN Whole(bbt') ELSE copy[i]]
           /\ pc' = IF created = {} \/ copy[BACKUP_BBT] = Bad THEN "failed" ELSE "idle"
    /\ UNCHANGED <<page, marked, v2r, request, update, history>>

-----------------------------------------------------------------------------
(* Reading and writing a virtual block                                     *)

\* Virtual blocks with a good block behind them.
Mapped == {v \in Virtual : v = 0 \/ v2r[v] # 0}

Idle == pc' = "idle" /\ job' = "none" /\ bad' = BB_INIT /\ spare' = RB_INIT
        /\ k' = 1 /\ errors' = 0

\* nflashWriteBlock: the block has been read.
nflashWriteBlock(v, d) ==
    /\ pc = "idle" /\ pc' = "erase"
    /\ virt' = v /\ data' = d /\ at' = 1
    /\ expect' = [expect EXCEPT ![v] = Unknown]
    /\ UNCHANGED <<page, marked, copy, tables, update, faults, harm, misread, stale>>

Erase ==
    /\ pc = "erase" /\ pc' = "write"
    /\ page' = [page EXCEPT ![real] = Erased]
    /\ marked' = marked \ {real}
    /\ UNCHANGED <<copy, tables, request, update, history>>

\* Page at of the block is written: the next one, or return.
PageDone ==
    IF at < Pages
    THEN pc' = "write" /\ at' = at + 1 /\ UNCHANGED expect
    ELSE pc' = "idle" /\ at' = 1 /\ expect' = [expect EXCEPT ![virt] = data]

WritePage ==
    /\ pc = "write"
    /\ page' = [page EXCEPT ![real][at] = data]
    /\ PageDone
    /\ UNCHANGED <<marked, copy, tables, virt, data, update, faults, harm, misread, stale>>

-----------------------------------------------------------------------------
(* Failures                                                                *)

\* The common head of the three handlers: block b gets an entry, and the
\* copies are rewritten.
Handle(j, b) ==
    /\ faults < MaxFaults /\ faults' = faults + 1
    /\ IF Listed(b)
       THEN /\ pc' = "finish" /\ job' = j /\ bad' = b
            /\ UNCHANGED <<bbt, spare, k, errors>>
       ELSE IF \E i \in 1 .. RBA : FreeEntry(i)
       THEN \E i \in 1 .. RBA :
               /\ FreeEntry(i)
               /\ bbt' = [bbt EXCEPT ![i].bad = b]
               /\ pc' = "copy_erase" /\ job' = j /\ bad' = b
               /\ spare' = bbt[i].remap /\ k' = 1 /\ errors' = 0
       ELSE Idle /\ UNCHANGED bbt
    /\ UNCHANGED <<page, marked, copy, v2r, request, expect, harm, stale>>

EraseFails == pc = "erase" /\ Handle("erase", real) /\ UNCHANGED misread
WriteFails == pc = "write" /\ Handle("write", real) /\ UNCHANGED misread

\* rtkn_ecc_read_page hands its handler the virtual page.
ReadFails(v) == pc = "idle" /\ Handle("read", v) /\ misread' = TRUE

Finish == pc = "finish" /\ job' = "none" /\ bad' = BB_INIT /\ spare' = RB_INIT
          /\ k' = 1 /\ errors' = 0

Deviant_rtk_remapBBT_write_fail ==
    /\ job = "write" /\ Finish
    /\ page' = [page EXCEPT ![spare] = [Erased EXCEPT ![at] = data], ![bad] = Erased]
    /\ marked' = marked \ {bad, spare}
    /\ PageDone
    /\ UNCHANGED <<copy, tables, virt, data, faults, harm, misread, stale>>

\* The pages already written are moved, the failed one is written; the bad
\* mark is overwritten by the second memset, and not set.
rtk_remapBBT_write_fail ==
    /\ job = "write" /\ Finish
    /\ page' = [page EXCEPT
          ![spare] = [p \in Page |-> IF p < at THEN page[bad][p]
                                     ELSE IF p = at THEN data ELSE FF],
          ![bad] = Erased]
    /\ marked' = marked \ {bad, spare}
    /\ PageDone
    /\ UNCHANGED <<copy, tables, virt, data, faults, harm, misread, stale>>

rtk_remapBBT_erase_fail ==
    /\ job = "erase" /\ Finish
    /\ page' = [page EXCEPT ![spare] = Erased, ![bad] = Erased]
    /\ marked' = (marked \cup {bad}) \ {spare}
    /\ pc' = "write"
    /\ UNCHANGED <<copy, tables, request, history>>

\* Nothing is moved; the read reports success.
rtk_remapBBT_read_fail ==
    /\ job = "read" /\ Finish
    /\ page' = [page EXCEPT ![bad] = Erased]
    /\ marked' = marked \cup {bad}
    /\ pc' = "idle"
    /\ UNCHANGED <<copy, tables, request, history>>

-----------------------------------------------------------------------------
(* rtk_update_bbt: every copy is erased and written before the next        *)

Deviant_NextCopy(failed) ==
    IF k <= BACKUP_BBT
    THEN /\ pc' = "copy_erase" /\ k' = k + 1
         /\ errors' = errors + failed /\ UNCHANGED <<job, bad, spare>>
    ELSE pc' = "finish" /\ k' = 1 /\ errors' = 0 /\ UNCHANGED <<job, bad, spare>>

NextCopy(failed) ==
    IF k < BACKUP_BBT
    THEN /\ pc' = "copy_erase" /\ k' = k + 1
         /\ errors' = errors + failed /\ UNCHANGED <<job, bad, spare>>
    ELSE IF errors + failed < BACKUP_BBT
    THEN pc' = "finish" /\ k' = 1 /\ errors' = 0 /\ UNCHANGED <<job, bad, spare>>
    ELSE Idle

Deviant_EraseCopy ==
    /\ pc = "copy_erase" /\ pc' = "copy_write"
    /\ copy' = [i \in Copy |-> Blank]
    /\ UNCHANGED <<page, marked, tables, request, update, history>>

EraseCopy ==
    /\ pc = "copy_erase" /\ pc' = "copy_write"
    /\ copy' = [copy EXCEPT ![k] = Blank]
    /\ UNCHANGED <<page, marked, tables, request, update, history>>

\* The copy is written all the same, tag included, which may do nothing, may
\* leave what cannot be read, or may work.
EraseCopyFails ==
    /\ pc = "copy_erase" /\ faults < MaxFaults
    /\ \E c \in {copy[k], Torn, Whole(bbt)} : copy' = [copy EXCEPT ![k] = c]
    /\ stale' = TRUE /\ faults' = faults + 1
    /\ NextCopy(1)
    /\ UNCHANGED <<page, marked, tables, request, expect, harm, misread>>

WriteCopy ==
    /\ pc = "copy_write"
    /\ copy' = [copy EXCEPT ![k] = Whole(bbt)]
    /\ NextCopy(0)
    /\ UNCHANGED <<page, marked, tables, request, history>>

WriteCopyFails ==
    /\ pc = "copy_write" /\ harm < MaxHarm
    /\ copy' = [copy EXCEPT ![k] = Bad]
    /\ harm' = harm + 1
    /\ NextCopy(1)
    /\ UNCHANGED <<page, marked, tables, request, expect, faults, misread, stale>>

-----------------------------------------------------------------------------
(* Power failures                                                          *)

Updating == pc \in {"copy_erase", "copy_write"}

Off == pc' = "off" /\ job' = "none" /\ bad' = BB_INIT /\ spare' = RB_INIT
       /\ k' = 1 /\ errors' = 0 /\ data' = Unknown /\ at' = 1 /\ virt' = 0

PowerOff ==
    /\ pc # "off" /\ ~Updating
    /\ Off
    /\ UNCHANGED <<page, marked, copy, tables, history>>

PowerOffInUpdate ==
    /\ Updating /\ harm < MaxHarm
    /\ Off
    /\ \/ pc = "copy_erase" /\ UNCHANGED copy
       \/ pc = "copy_write" /\ \E c \in {Blank, Torn} : copy' = [copy EXCEPT ![k] = c]
    /\ harm' = harm + 1
    /\ UNCHANGED <<page, marked, tables, expect, faults, misread, stale>>

-----------------------------------------------------------------------------
(* The specification                                                       *)

NandNext ==
    \/ LoadTable \/ CreateTable
    \/ \E v \in Mapped : ReadFails(v) \/ \E d \in Data : nflashWriteBlock(v, d)
    \/ Erase \/ WritePage \/ EraseFails \/ WriteFails
    \/ rtk_remapBBT_write_fail \/ rtk_remapBBT_erase_fail \/ rtk_remapBBT_read_fail
    \/ EraseCopy \/ EraseCopyFails \/ WriteCopy \/ WriteCopyFails
    \/ PowerOff \/ PowerOffInUpdate

NandSpec == NandInit /\ [][NandNext]_nandVars

-----------------------------------------------------------------------------
(* Properties                                                              *)

Entry == [bad : Block \cup {BB_INIT}, remap : Block \cup {RB_INIT}]
Table == [1 .. RBA -> Entry]

NandTypeOK ==
    /\ page \in [Block -> [Page -> Data \cup {FF}]] /\ marked \subseteq Block
    /\ copy \in [Copy -> {Blank, Torn, Bad} \cup [kind : {"table"}, table : Table]]
    /\ v2r \in [Virtual -> Block] /\ bbt \in Table
    /\ pc \in {"idle", "off", "failed", "erase", "write", "finish", "copy_erase", "copy_write"}
    /\ job \in {"none", "erase", "write", "read"}
    /\ virt \in Virtual /\ data \in Data \cup {Unknown} /\ at \in Page
    /\ bad \in Block \cup {BB_INIT} /\ spare \in Block \cup {RB_INIT}
    /\ k \in Copy /\ errors \in 0 .. BACKUP_BBT - 1
    /\ expect \in [Virtual -> Data \cup {Unknown}]

\* In the table in RAM and in every copy, the entries used come first, no
\* block is listed twice or stands in for two, and one that stands in for
\* another and went bad itself is listed further down, where the single pass
\* of rtkn_bbt_get_realpage still meets it.
SoundTable(t) ==
    /\ \A i, j \in 1 .. RBA :
          /\ i < j /\ t[j].bad # BB_INIT => t[i].bad # BB_INIT
          /\ i # j /\ t[i].bad # BB_INIT => t[i].bad # t[j].bad
          /\ i # j /\ t[i].remap # RB_INIT => t[i].remap # t[j].remap
          /\ t[i].bad = t[j].remap => j < i
    /\ \A i \in 1 .. RBA : t[i].bad # BB_INIT => t[i].remap # RB_INIT

TablesSound == SoundTable(bbt) /\ \A i \in Copy : IsTable(copy[i]) => SoundTable(copy[i].table)

\* A virtual block never leads to a block that is listed as bad, whichever
\* blocks of the reserve have failed too.  The handlers of erase and write
\* rely on it: for a block already listed their block_remap stays 0x12345678,
\* which they then erase.
NeverOnListed ==
    /\ \A v \in Mapped : ~Listed(rtkn_bbt_get_realpage(v))
    /\ pc = "finish" /\ job \in {"erase", "write"} => spare # RB_INIT

\* Two virtual blocks never lead to one block, whatever was listed as bad.
OneToOne ==
    \A v, w \in Mapped : v # w => rtkn_bbt_get_realpage(v) # rtkn_bbt_get_realpage(w)

\* What was written is what is read, through remapping, power failures and
\* restarts: as long as one update at most was cut short or lost a copy, no
\* copy refused to be erased, and no read failed.
ReadBack ==
    pc = "idle" /\ harm <= 1 /\ ~misread /\ ~stale =>
        \A v \in Mapped : expect[v] # Unknown =>
            page[rtkn_bbt_get_realpage(v)] = [p \in Page |-> expect[v]]

\* So long, too, the tables are found again at the next start.
StartsAgain == pc = "failed" => harm > 1 \/ stale
=============================================================================
