--------------------------------- MODULE Heap ---------------------------------
(***************************************************************************)
(* The heap of the boot loader, src/boot/init/calloc.c: a list of free     *)
(* blocks in the order of their addresses, searched first fit, with        *)
(* neighbours joined when a block comes back.                              *)
(*                                                                         *)
(* Abstractions.  Memory is counted in units of one HEADER (8 bytes), and  *)
(* a block includes the unit that is its header.  Of the headers in        *)
(* memory, ptr and size hold those frhd leads to, used the sizes in those  *)
(* of the blocks handed out.  Every turn of a loop is a step; no call is   *)
(* made while another runs, for no interrupt handler allocates.  memleft   *)
(* is left out, nothing reads it.                                          *)
(*                                                                         *)
(* A Deviant_ operator is a deliberate mistake and no part of the model.   *)
(***************************************************************************)
EXTENDS Naturals

CONSTANTS
    Units,      \* size of the arena
    Requests    \* sizes asked for, the header included

ASSUME HeapAssumption ==
    /\ Units \in Nat \ {0}
    /\ Requests \subseteq Nat \ {0}

VARIABLES
    frhd,       \* the first free block, or NULL
    ptr, size,  \* of every block in the list: the next one, and its length
    used,       \* of every block handed out: its length
    op,         \* "none", "malloc", "free", or "stuck" in while(1)
    arg,        \* nunits of malloc, f of free
    nxt,        \* local of both
    prev        \* local of free; that of malloc stays NULL

heap     == <<frhd, ptr, size, used>>
heapVars == <<heap, op, arg, prev, nxt>>

NULL == 0
Addr == 1 .. Units
Free == DOMAIN ptr

-----------------------------------------------------------------------------
(* Functions on changing sets of blocks                                    *)

Put(fn, a, v) == [b \in DOMAIN fn \cup {a} |-> IF b = a THEN v ELSE fn[b]]
Drop(fn, a)   == [b \in DOMAIN fn \ {a} |-> fn[b]]

Return == op' = "none" /\ arg' = 0 /\ prev' = NULL /\ nxt' = NULL
Hang   == op' = "stuck" /\ arg' = 0 /\ prev' = NULL /\ nxt' = NULL

-----------------------------------------------------------------------------
(* malloc                                                                  *)

\* i_alloc: one free block, the arena.
OneBlock ==
    /\ frhd = 1
    /\ ptr = [b \in {1} |-> NULL] /\ size = [b \in {1} |-> Units]
    /\ used = [b \in {} |-> 0]
    /\ op = "none" /\ arg = 0 /\ prev = NULL /\ nxt = NULL

\* i_alloc again, at the next start.
i_alloc ==
    /\ frhd' = 1
    /\ ptr' = [b \in {1} |-> NULL] /\ size' = [b \in {1} |-> Units]
    /\ used' = [b \in {} |-> 0]
    /\ Return

malloc(nunits) ==
    /\ op = "none"
    /\ op' = "malloc" /\ arg' = nunits
    /\ prev' = NULL /\ nxt' = frhd
    /\ UNCHANGED heap

Searching == op = "malloc" /\ nxt # NULL

Deviant_TooSmall ==
    /\ Searching /\ size[nxt] < arg
    /\ nxt' = nxt + size[nxt]
    /\ UNCHANGED <<heap, op, arg, prev>>

\* The loop moves nxt and not prev.
TooSmall ==
    /\ Searching /\ size[nxt] < arg
    /\ nxt' = ptr[nxt]
    /\ UNCHANGED <<heap, op, arg, prev>>

\* The part of the list behind nxt.  With prev still NULL it is frhd that is
\* set to the rest, so that the blocks passed over leave the list; the list
\* runs upwards (ListJoined), they are those below nxt.
Behind(fn) == [b \in {c \in DOMAIN fn : c > nxt} |-> fn[b]]

Deviant_Split ==
    /\ Searching /\ size[nxt] > arg
    /\ LET seg == nxt + arg
       IN  /\ frhd' = seg
           /\ ptr'  = Put(Behind(ptr), seg, ptr[nxt])
           /\ size' = Put(Behind(size), seg, size[nxt])
    /\ used' = Put(used, nxt, arg)
    /\ Return

\* The head end of a larger block is handed out, its tail takes its place.
Split ==
    /\ Searching /\ size[nxt] > arg
    /\ LET seg == nxt + arg
       IN  /\ frhd' = seg
           /\ ptr'  = Put(Behind(ptr), seg, ptr[nxt])
           /\ size' = Put(Behind(size), seg, size[nxt] - arg)
    /\ used' = Put(used, nxt, arg)
    /\ Return

TakeWhole ==
    /\ Searching /\ size[nxt] = arg
    /\ frhd' = ptr[nxt]
    /\ ptr' = Behind(ptr) /\ size' = Behind(size)
    /\ used' = Put(used, nxt, arg)
    /\ Return

\* "Allocation Failed!", and while(1).
AllocationFailed ==
    /\ op = "malloc" /\ nxt = NULL
    /\ Hang
    /\ UNCHANGED heap

-----------------------------------------------------------------------------
(* free                                                                    *)

\* f takes the place of next in the list: linked to it, or joined with it
\* when f ends where it begins.
JoinedPtr(list, f, next) ==
    IF f + used[f] = next
    THEN Put(Drop(list, next), f, ptr[next])
    ELSE Put(list, f, next)
JoinedSize(f, next) ==
    IF f + used[f] = next
    THEN Put(Drop(size, next), f, used[f] + size[next])
    ELSE Put(size, f, used[f])

\* ASSERT_CSP(frhd)
FreeIntoNothing(f) ==
    /\ op = "none" /\ f \in DOMAIN used /\ frhd = NULL
    /\ Hang
    /\ UNCHANGED heap

FreeBelowHead(f) ==
    /\ op = "none" /\ f \in DOMAIN used /\ frhd # NULL /\ frhd > f
    /\ frhd' = f
    /\ ptr' = JoinedPtr(ptr, f, frhd) /\ size' = JoinedSize(f, frhd)
    /\ used' = Drop(used, f)
    /\ Return

\* The walk down the list starts at its head; prev is not set yet.
FreeAboveHead(f) ==
    /\ op = "none" /\ f \in DOMAIN used /\ frhd # NULL /\ frhd < f
    /\ op' = "free" /\ arg' = f
    /\ prev' = NULL /\ nxt' = frhd
    /\ UNCHANGED heap

Walking == op = "free" /\ nxt # NULL /\ nxt < arg
Touches == nxt + size[nxt] = arg

Deviant_WalkOn ==
    /\ Walking /\ ~Touches
    /\ prev' = nxt
    /\ UNCHANGED <<heap, op, arg, nxt>>

WalkOn ==
    /\ Walking /\ ~Touches
    /\ prev' = nxt /\ nxt' = ptr[nxt]
    /\ UNCHANGED <<heap, op, arg>>

Deviant_MergeBelow ==
    /\ Walking /\ Touches
    /\ size' = [size EXCEPT ![nxt] = @ + used[arg]]
    /\ used' = Drop(used, arg)
    /\ Return
    /\ UNCHANGED <<frhd, ptr>>

\* The block before f grows by f, and by the block after f if that is free.
MergeBelow ==
    /\ Walking /\ Touches
    /\ LET whole == size[nxt] + used[arg]
           after == ptr[nxt]
       IN  IF nxt + whole = after
           THEN /\ ptr'  = [Drop(ptr, after) EXCEPT ![nxt] = ptr[after]]
                /\ size' = [Drop(size, after) EXCEPT ![nxt] = whole + size[after]]
           ELSE /\ size' = [size EXCEPT ![nxt] = whole]
                /\ UNCHANGED ptr
    /\ used' = Drop(used, arg)
    /\ Return
    /\ UNCHANGED frhd

Deviant_LinkAfter ==
    /\ op = "free" /\ ~Walking
    /\ ptr'  = [Put(ptr, arg, nxt) EXCEPT ![prev] = arg]
    /\ size' = Put(size, arg, used[arg])
    /\ used' = Drop(used, arg)
    /\ Return
    /\ UNCHANGED frhd

LinkAfter ==
    /\ op = "free" /\ ~Walking
    /\ ptr'  = [JoinedPtr(ptr, arg, nxt) EXCEPT ![prev] = arg]
    /\ size' = JoinedSize(arg, nxt)
    /\ used' = Drop(used, arg)
    /\ Return
    /\ UNCHANGED frhd

-----------------------------------------------------------------------------
(* The specification                                                       *)

\* A step of a call that has begun.
Work ==
    \/ TooSmall \/ Split \/ TakeWhole \/ AllocationFailed
    \/ WalkOn \/ MergeBelow \/ LinkAfter

HeapNext ==
    \/ \E n \in Requests : malloc(n)
    \/ \E f \in DOMAIN used :
          FreeIntoNothing(f) \/ FreeBelowHead(f) \/ FreeAboveHead(f)
    \/ Work

HeapSpec == OneBlock /\ [][HeapNext \/ i_alloc]_heapVars

-----------------------------------------------------------------------------
(* Properties                                                              *)

HeapTypeOK ==
    /\ frhd \in Addr \cup {NULL}
    /\ Free \subseteq Addr /\ ptr \in [Free -> Addr \cup {NULL}] /\ size \in [Free -> Addr]
    /\ DOMAIN used \subseteq Addr /\ used \in [DOMAIN used -> Addr]
    /\ op \in {"none", "malloc", "free", "stuck"}
    /\ arg \in Nat
    /\ prev \in Addr \cup {NULL} /\ nxt \in Addr \cup {NULL}

InFree(u, b) == b \in Free /\ b <= u /\ u < b + size[b]
InUsed(u, b) == b \in DOMAIN used /\ b <= u /\ u < b + used[b]

\* No unit of the arena belongs to two blocks, in the list or handed out, and
\* no block leaves the arena: no two allocations overlap, and nothing handed
\* out is ever part of a free block, however calls alternate.
BlocksApart ==
    /\ \A u \in Addr : \A b, c \in Addr :
          (InFree(u, b) \/ InUsed(u, b)) /\ (InFree(u, c) \/ InUsed(u, c)) => b = c
    /\ Free \cap DOMAIN used = {}
    /\ \A b \in Free : b + size[b] <= Units + 1
    /\ \A b \in DOMAIN used : b + used[b] <= Units + 1

\* b is the first block of the list behind a.
Follows(b, a) ==
    IF b = NULL THEN \A c \in Free : c <= a
    ELSE b \in Free /\ b > a /\ \A c \in Free : c > a => b <= c

\* The list runs upwards through all its blocks, and no free block ends where
\* the next begins: free() has to find both neighbours whichever way it takes
\* through its cases, and relies on its earlier calls having done so
\* (calloc.c:92-100).
ListJoined ==
    /\ Follows(frhd, 0)
    /\ \A b \in Free : Follows(ptr[b], b) /\ b + size[b] \notin Free

\* Units in no block: those malloc passed over.
Lost == {u \in Addr : ~ \E b \in Addr : InFree(u, b) \/ InUsed(u, b)}

Arena == INSTANCE HeapArena WITH taken <- used, lost <- Lost, stuck <- op = "stuck"

\* Heap implements HeapArena: every malloc is a first fit, loses what is open
\* below and nothing else, and gives up only when no gap left would do; free
\* loses nothing, and hangs only when nothing is left.
ArenaSpec == Arena!Spec

\* Every call returns, or hangs where the code says so: the walk of the list
\* ends, under fairness of the processor.
CallsReturn == op \in {"malloc", "free"} ~> op \in {"none", "stuck"}
=============================================================================
