------------------------------ MODULE Heap_proofs ------------------------------
(***************************************************************************)
(* Proofs about Heap, for every size of the arena and every set of         *)
(* requests: the blocks are apart, the list is ordered and joined, and the *)
(* list of free blocks implements HeapArena.                               *)
(*                                                                         *)
(* The argument.  Ordered says of the blocks in pairs what BlocksApart     *)
(* says of units, and that free blocks do not touch; Linked is the rest of *)
(* ListJoined; CallOK is what a call under way knows of the blocks it has  *)
(* passed.  A gap that is wide enough lies in one free block, because a    *)
(* block behind it would touch it: so the first block that is large enough *)
(* is the first gap.                                                       *)
(***************************************************************************)
EXTENDS Heap, TLAPS

\* Blocks in pairs: apart, and free ones not even touching.
Ordered ==
    /\ \A b \in Free : b + size[b] <= Units + 1
    /\ \A b \in DOMAIN used : b + used[b] <= Units + 1
    /\ \A b, c \in Free : b < c => b + size[b] < c
    /\ \A b, c \in DOMAIN used : b < c => b + used[b] <= c
    /\ \A b \in Free, c \in DOMAIN used :
          /\ b # c
          /\ b < c => b + size[b] <= c
          /\ c < b => c + used[c] <= b

\* b is the first member of S behind a; Follows is this with Free for S.
After(b, a, S) ==
    IF b = NULL THEN \A c \in S : c <= a
    ELSE b \in S /\ b > a /\ \A c \in S : c > a => b <= c

\* The list runs through all free blocks.
Linked == After(frhd, 0, Free) /\ \A b \in Free : After(ptr[b], b, Free)

\* The blocks passed by a search are too small, the one passed by a walk is
\* below the block that comes back and does not touch it.
CallOK ==
    /\ op = "malloc" =>
          /\ arg \in Requests /\ prev = NULL /\ (nxt = NULL \/ nxt \in Free)
          /\ \A b \in Free : nxt = NULL \/ b < nxt => size[b] < arg
    /\ op = "free" =>
          /\ arg \in DOMAIN used /\ frhd \in Free /\ frhd < arg
          /\ prev = NULL => nxt = frhd
          /\ prev # NULL =>
                prev \in Free /\ prev < arg /\ prev + size[prev] # arg /\ nxt = ptr[prev]
    /\ op \in {"none", "stuck"} => arg = 0 /\ prev = NULL /\ nxt = NULL

HeapInv == HeapTypeOK /\ Ordered /\ Linked /\ CallOK

-----------------------------------------------------------------------------
(* Functions on changing sets of blocks                                    *)

\* What Drop makes of a function.
LEMMA DropFacts ==
    ASSUME NEW fn, NEW a
    PROVE  /\ DOMAIN Drop(fn, a) = DOMAIN fn \ {a}
           /\ \A b \in DOMAIN fn : b # a => Drop(fn, a)[b] = fn[b]
           /\ \A T : fn \in [DOMAIN fn -> T] => Drop(fn, a) \in [DOMAIN fn \ {a} -> T]
BY DEF Drop

\* What is left of a function behind nxt.
LEMMA BehindFacts ==
    ASSUME NEW fn
    PROVE  /\ DOMAIN Behind(fn) = {c \in DOMAIN fn : c > nxt}
           /\ \A b \in DOMAIN fn : b > nxt => Behind(fn)[b] = fn[b]
           /\ \A T : fn \in [DOMAIN fn -> T]
                 => Behind(fn) \in [{c \in DOMAIN fn : c > nxt} -> T]
BY DEF Behind

\* The numbers of the arena.
LEMMA HeapNumbers ==
    /\ Units \in Nat /\ Units >= 1 /\ NULL = 0 /\ NULL \notin Addr
    /\ Addr \subseteq Nat /\ \A a \in Addr : 1 <= a /\ a <= Units
    /\ \A n \in Requests : n \in Nat /\ n >= 1
BY HeapAssumption DEF NULL, Addr

\* Free blocks and blocks handed out are addresses and have lengths.
LEMMA Lengths ==
    ASSUME HeapTypeOK
    PROVE  /\ DOMAIN size = Free /\ DOMAIN ptr = Free
           /\ \A b \in Free : b \in Addr /\ b \in Nat /\ b >= 1 /\ size[b] \in Addr
                              /\ size[b] \in Nat /\ size[b] >= 1
           /\ \A b \in DOMAIN used : b \in Addr /\ b \in Nat /\ b >= 1 /\ used[b] \in Addr
                              /\ used[b] \in Nat /\ used[b] >= 1
BY HeapNumbers DEF HeapTypeOK, Free

-----------------------------------------------------------------------------
(* The invariants the run checks                                           *)

\* Blocks that are apart in pairs share no unit.
LEMMA OrderedApart == HeapTypeOK /\ Ordered => BlocksApart
<1> SUFFICES ASSUME HeapTypeOK, Ordered PROVE BlocksApart
  OBVIOUS
<1> USE Lengths, HeapNumbers
<1>1. ASSUME NEW u \in Addr, NEW b \in Addr, NEW c \in Addr,
             InFree(u, b) \/ InUsed(u, b), InFree(u, c) \/ InUsed(u, c), b < c
      PROVE  FALSE
  <2>1. CASE b \in Free /\ c \in Free
    BY <1>1, <2>1 DEF InFree, InUsed, Ordered
  <2>2. CASE b \in Free /\ c \in DOMAIN used
    BY <1>1, <2>2 DEF InFree, InUsed, Ordered
  <2>3. CASE b \in DOMAIN used /\ c \in Free
    BY <1>1, <2>3 DEF InFree, InUsed, Ordered
  <2>4. CASE b \in DOMAIN used /\ c \in DOMAIN used
    BY <1>1, <2>4 DEF InFree, InUsed, Ordered
  <2> QED
    BY <1>1, <2>1, <2>2, <2>3, <2>4 DEF InFree, InUsed
<1>2. ASSUME NEW u \in Addr, NEW b \in Addr, NEW c \in Addr,
             InFree(u, b) \/ InUsed(u, b), InFree(u, c) \/ InUsed(u, c)
      PROVE  b = c
  <2>1. ~(b < c) /\ ~(c < b)
    BY <1>1, <1>2
  <2> QED
    BY <2>1
<1>3. Free \cap DOMAIN used = {}
  BY DEF Ordered
<1> QED
  BY <1>2, <1>3 DEF BlocksApart, Ordered

\* The list is joined if free blocks do not touch.
LEMMA LinkedJoined == HeapTypeOK /\ Ordered /\ Linked => ListJoined
<1> SUFFICES ASSUME HeapTypeOK, Ordered, Linked, NEW b \in Free PROVE b + size[b] \notin Free
  BY DEF ListJoined, Linked, Follows, After
<1> SUFFICES ASSUME b + size[b] \in Free PROVE FALSE
  OBVIOUS
<1>1. b < b + size[b]
  BY Lengths
<1>2. b + size[b] < b + size[b]
  BY <1>1 DEF Ordered
<1> QED
  BY <1>2, Lengths

-----------------------------------------------------------------------------
(* malloc                                                                  *)

\* The heap starts with the invariant.
LEMMA OneBlockInv == OneBlock => HeapInv
<1> SUFFICES ASSUME OneBlock PROVE HeapInv
  OBVIOUS
<1>1. /\ Free = {1} /\ ptr[1] = NULL /\ size[1] = Units /\ DOMAIN used = {}
      /\ ptr \in [Free -> Addr \cup {NULL}] /\ size \in [Free -> Addr]
      /\ used \in [DOMAIN used -> Addr]
  BY HeapNumbers DEF OneBlock, Free, Addr
<1>2. HeapTypeOK
  BY <1>1, HeapNumbers DEF HeapTypeOK, OneBlock, Addr
<1>3. Ordered
  BY <1>1, HeapNumbers DEF Ordered
<1>4. Linked
  BY <1>1, HeapNumbers DEF Linked, After, OneBlock
<1>5. CallOK
  BY DEF CallOK, OneBlock
<1> QED
  BY <1>2, <1>3, <1>4, <1>5 DEF HeapInv

\* And starts with it again.
LEMMA i_allocInv == i_alloc => HeapInv'
<1>1. i_alloc => OneBlock'
  BY DEF i_alloc, OneBlock, Return
<1>2. OneBlock' => HeapInv'
  BY OneBlockInv, PTL
<1> QED
  BY <1>1, <1>2

\* A step that leaves the blocks alone keeps what is said of them.
LEMMA SameHeap ==
    ASSUME HeapInv, UNCHANGED heap
    PROVE  Ordered' /\ Linked' /\ Free' = Free
BY DEF HeapInv, heap, Ordered, Linked, After, Free

\* A search begins with the invariant.
LEMMA mallocInv ==
    ASSUME HeapInv, NEW n \in Requests, malloc(n)
    PROVE  HeapInv'
<1>0. HeapTypeOK
  BY DEF HeapInv
<1> USE <1>0, HeapNumbers, Lengths DEF malloc
<1>1. HeapTypeOK'
  BY DEF HeapInv, HeapTypeOK, heap, Free
<1>2. \A b \in Free : frhd = NULL \/ b < frhd => FALSE
  BY DEF HeapInv, Linked, After
<1>3. CallOK'
  BY <1>2, SameHeap DEF HeapInv, Linked, After, CallOK, heap, Free
<1> QED
  BY <1>1, <1>3, SameHeap DEF HeapInv

\* And goes on with it.
LEMMA TooSmallInv ==
    ASSUME HeapInv, TooSmall
    PROVE  HeapInv'
<1>0. HeapTypeOK
  BY DEF HeapInv
<1> USE <1>0, HeapNumbers, Lengths DEF TooSmall, Searching
<1>1. /\ nxt \in Free /\ size[nxt] < arg /\ arg \in Requests
      /\ ptr[nxt] \in Addr \cup {NULL} /\ After(ptr[nxt], nxt, Free)
  BY DEF HeapInv, HeapTypeOK, CallOK, Linked
<1>2. HeapTypeOK'
  BY <1>1 DEF HeapInv, HeapTypeOK, heap, Free
<1>3. ASSUME NEW b \in Free, ptr[nxt] = NULL \/ b < ptr[nxt] PROVE size[b] < arg
  <2>1. b <= nxt
    BY <1>1, <1>3 DEF After
  <2>2. CASE b = nxt
    BY <1>1, <2>2
  <2>3. CASE b < nxt
    BY <2>3 DEF HeapInv, CallOK
  <2> QED
    BY <1>1, <2>1, <2>2, <2>3
<1>4. CallOK'
  BY <1>1, <1>3, SameHeap DEF HeapInv, CallOK, After, heap
<1> QED
  BY <1>2, <1>4, SameHeap DEF HeapInv

\* After a block is handed out, what lies in a free block below it is in none.
Served ==
    \A u \in Addr : (\E b \in Addr : InFree(u, b) \/ InUsed(u, b))'
                  <=> \E b \in Addr : InUsed(u, b) \/ (b >= nxt /\ InFree(u, b))

\* Handing out the head of a block.
LEMMA SplitInv ==
    ASSUME HeapInv, Split
    PROVE  HeapInv' /\ Served
<1> DEFINE seg == nxt + arg
<1>0. HeapTypeOK
  BY DEF HeapInv
<1> USE <1>0, HeapNumbers, Lengths
<1>1. /\ nxt \in Free /\ arg \in Nat /\ arg >= 1 /\ size[nxt] > arg
      /\ nxt + size[nxt] <= Units + 1
      /\ ptr[nxt] \in Addr \cup {NULL} /\ After(ptr[nxt], nxt, Free)
  BY DEF HeapInv, CallOK, Split, Searching, Linked, Ordered, HeapTypeOK
<1>2. seg \in Addr /\ seg > nxt /\ seg < nxt + size[nxt]
  BY <1>1 DEF Addr
<1>3. \A c \in Free : c > nxt => c > nxt + size[nxt]
  BY <1>1 DEF HeapInv, Ordered
<1>4. /\ ptr' = Put(Behind(ptr), seg, ptr[nxt])
      /\ size' = Put(Behind(size), seg, size[nxt] - arg)
      /\ used' = Put(used, nxt, arg) /\ frhd' = seg
  BY DEF Split
<1>5. /\ Free' = {c \in Free : c > nxt} \cup {seg}
      /\ ptr'[seg] = ptr[nxt] /\ size'[seg] = size[nxt] - arg
      /\ \A b \in Free : b > nxt => ptr'[b] = ptr[b] /\ size'[b] = size[b]
      /\ DOMAIN used' = DOMAIN used \cup {nxt} /\ used'[nxt] = arg
      /\ \A b \in DOMAIN used : used'[b] = used[b]
  <2> DEFINE S == {c \in Free : c > nxt}
  <2>0. \A b \in S : b # seg
    BY <1>1, <1>2, <1>3
  <2> HIDE DEF seg
  <2>1. /\ DOMAIN ptr' = S \cup {seg} /\ ptr'[seg] = ptr[nxt]
        /\ \A b \in S : ptr'[b] = ptr[b]
    <3>1. DOMAIN Behind(ptr) = S /\ \A b \in S : Behind(ptr)[b] = ptr[b]
      BY BehindFacts
    <3> HIDE DEF S
    <3> QED
      BY <1>4, <2>0, <3>1 DEF Put
  <2>2. size'[seg] = size[nxt] - arg /\ \A b \in S : size'[b] = size[b]
    <3>1. DOMAIN Behind(size) = S /\ \A b \in S : Behind(size)[b] = size[b]
      BY BehindFacts
    <3> HIDE DEF S
    <3> QED
      BY <1>4, <2>0, <3>1 DEF Put
  <2>3. nxt \notin DOMAIN used
    BY <1>1 DEF HeapInv, Ordered
  <2>4. /\ DOMAIN used' = DOMAIN used \cup {nxt} /\ used'[nxt] = arg
        /\ \A b \in DOMAIN used : used'[b] = used[b]
    BY <1>4, <2>3 DEF Put
  <2> QED
    BY <2>1, <2>2, <2>4 DEF Free
<1>6. /\ ptr' \in [Free' -> Addr \cup {NULL}] /\ size' \in [Free' -> Addr]
      /\ used' \in [DOMAIN used' -> Addr]
  <2>1. /\ Behind(ptr) \in [{c \in Free : c > nxt} -> Addr \cup {NULL}]
        /\ Behind(size) \in [{c \in Free : c > nxt} -> Addr]
    BY BehindFacts DEF HeapInv, HeapTypeOK
  <2>2. size[nxt] - arg \in Addr /\ arg \in Addr
    BY <1>1 DEF Addr
  <2>3. used \in [DOMAIN used -> Addr]
    BY DEF HeapInv, HeapTypeOK
  <2> QED
    BY <1>1, <1>4, <1>5, <2>1, <2>2, <2>3 DEF Put, Free
<1>7. HeapTypeOK'
  BY <1>1, <1>2, <1>4, <1>5, <1>6 DEF HeapInv, HeapTypeOK, Split, Return
<1>8. Ordered'
  <2> HIDE DEF seg
  <2>1. \A b \in Free' : b + size'[b] <= Units + 1
    BY <1>1, <1>2, <1>5 DEF HeapInv, Ordered, seg
  <2>2. \A b \in DOMAIN used' : b + used'[b] <= Units + 1
    BY <1>1, <1>5 DEF HeapInv, Ordered
  <2>3. \A b, c \in Free' : b < c => b + size'[b] < c
    BY <1>1, <1>2, <1>3, <1>5 DEF HeapInv, Ordered, seg
  <2>4. \A b, c \in DOMAIN used' : b < c => b + used'[b] <= c
    BY <1>1, <1>5 DEF HeapInv, Ordered
  <2>5. \A b \in Free', c \in DOMAIN used' :
          /\ b # c
          /\ b < c => b + size'[b] <= c
          /\ c < b => c + used'[c] <= b
    <3> SUFFICES ASSUME NEW b \in Free', NEW c \in DOMAIN used'
                 PROVE  /\ b # c
                        /\ b < c => b + size'[b] <= c
                        /\ c < b => c + used'[c] <= b
      OBVIOUS
    <3>1. CASE c = nxt
      BY <1>1, <1>2, <1>3, <1>5, <3>1 DEF seg
    <3>2. CASE c # nxt /\ b # seg
      BY <1>1, <1>5, <3>2 DEF HeapInv, Ordered
    <3>3. CASE c # nxt /\ b = seg
      <4>1. c \in DOMAIN used /\ used'[c] = used[c] /\ size'[b] = size[nxt] - arg
        BY <1>5, <3>3
      <4>2. (nxt < c => nxt + size[nxt] <= c) /\ (c < nxt => c + used[c] <= nxt)
        BY <1>1, <4>1 DEF HeapInv, Ordered
      <4> QED
        BY <1>1, <1>2, <3>3, <4>1, <4>2 DEF seg
    <3> QED
      BY <3>1, <3>2, <3>3
  <2> QED
    BY <2>1, <2>2, <2>3, <2>4, <2>5 DEF Ordered
<1>9. Linked'
  <2>1. After(frhd', 0, Free')
    BY <1>1, <1>2, <1>3, <1>4, <1>5 DEF After
  <2>2. After(ptr'[seg], seg, Free')
    <3>1. /\ ptr[nxt] = NULL => \A c \in Free : c <= nxt
          /\ ptr[nxt] # NULL => /\ ptr[nxt] \in Free /\ ptr[nxt] > nxt
                                /\ \A c \in Free : c > nxt => ptr[nxt] <= c
      BY <1>1 DEF After
    <3>2. /\ ptr[nxt] = NULL => \A c \in Free' : c <= seg
          /\ ptr[nxt] # NULL => /\ ptr[nxt] \in Free' /\ ptr[nxt] > seg
                                /\ \A c \in Free' : c > seg => ptr[nxt] <= c
      BY <1>1, <1>2, <1>3, <1>5, <3>1
    <3> QED
      BY <1>5, <3>2 DEF After
  <2>3. ASSUME NEW b \in Free, b > nxt PROVE After(ptr'[b], b, Free')
    <3>1. After(ptr[b], b, Free)
      BY <2>3 DEF HeapInv, Linked
    <3>2. \A c \in Free' : c > b => c \in Free
      BY <1>2, <1>3, <1>5, <2>3, <1>1
    <3>3. \A c \in Free : c > b => c \in Free'
      BY <1>1, <1>5, <2>3
    <3> QED
      BY <1>1, <1>2, <1>3, <1>5, <2>3, <3>1, <3>2, <3>3 DEF After
  <2> QED
    BY <1>5, <2>1, <2>2, <2>3 DEF Linked
<1>10. CallOK'
  BY DEF CallOK, Split, Return
<1>11. Served
  <2> HIDE DEF seg
  <2>1. ASSUME NEW u \in Addr, NEW b \in Addr, (InFree(u, b) \/ InUsed(u, b))'
        PROVE  \E c \in Addr : InUsed(u, c) \/ (c >= nxt /\ InFree(u, c))
    <3>1. CASE b = seg \/ b = nxt
      <4>1. InFree(u, nxt)
        BY <1>1, <1>2, <1>5, <2>1, <3>1 DEF InFree, InUsed, HeapInv, Ordered, seg
      <4> QED
        BY <1>1, <4>1
    <3>2. CASE b # seg /\ b # nxt
      <4>1. InUsed(u, b) \/ (b >= nxt /\ InFree(u, b))
        BY <1>1, <1>5, <2>1, <3>2 DEF InFree, InUsed
      <4> QED
        BY <4>1
    <3> QED
      BY <3>1, <3>2
  <2>2. ASSUME NEW u \in Addr, NEW b \in Addr, InUsed(u, b) \/ (b >= nxt /\ InFree(u, b))
        PROVE  \E c \in Addr : (InFree(u, c) \/ InUsed(u, c))'
    <3>1. CASE InUsed(u, b)
      <4>1. InUsed(u, b)'
        BY <1>5, <3>1 DEF InUsed
      <4> QED
        BY <4>1
    <3>2. CASE InFree(u, b) /\ b > nxt
      <4>1. InFree(u, b)'
        BY <1>1, <1>5, <3>2 DEF InFree
      <4> QED
        BY <4>1
    <3>3. CASE InFree(u, b) /\ b = nxt
      <4> PICK n \in Addr, g \in Addr : n = nxt /\ g = seg
        BY <1>1, <1>2
      <4>1. InUsed(u, n)' \/ InFree(u, g)'
        BY <1>1, <1>2, <1>5, <3>3 DEF InFree, InUsed, seg
      <4> QED
        BY <4>1
    <3> QED
      BY <1>1, <2>2, <3>1, <3>2, <3>3 DEF InFree
  <2> QED
    BY <2>1, <2>2 DEF Served
<1> QED
  BY <1>7, <1>8, <1>9, <1>10, <1>11 DEF HeapInv

\* Handing out a whole block.
LEMMA TakeWholeInv ==
    ASSUME HeapInv, TakeWhole
    PROVE  HeapInv' /\ Served
<1>0. HeapTypeOK
  BY DEF HeapInv
<1> USE <1>0, HeapNumbers, Lengths
<1>1. /\ nxt \in Free /\ size[nxt] = arg /\ nxt + arg <= Units + 1 /\ nxt \notin DOMAIN used
      /\ ptr[nxt] \in Addr \cup {NULL} /\ After(ptr[nxt], nxt, Free)
  BY DEF HeapInv, CallOK, TakeWhole, Searching, Linked, Ordered, HeapTypeOK
<1>2. /\ Free' = {c \in Free : c > nxt} /\ frhd' = ptr[nxt]
      /\ \A b \in Free' : ptr'[b] = ptr[b] /\ size'[b] = size[b]
      /\ DOMAIN used' = DOMAIN used \cup {nxt} /\ used'[nxt] = arg
      /\ \A b \in DOMAIN used : used'[b] = used[b]
  <2>1. DOMAIN used' = DOMAIN used \cup {nxt} /\ used'[nxt] = arg
        /\ \A b \in DOMAIN used : used'[b] = used[b]
    BY <1>1 DEF TakeWhole, Put
  <2> QED
    BY <2>1, BehindFacts DEF TakeWhole, Free
<1>3. /\ ptr' \in [Free' -> Addr \cup {NULL}] /\ size' \in [Free' -> Addr]
      /\ used' \in [DOMAIN used' -> Addr]
  <2>1. used' \in [DOMAIN used' -> Addr]
    BY <1>1, <1>2 DEF TakeWhole, Put, HeapInv, HeapTypeOK
  <2> QED
    BY <1>2, <2>1, BehindFacts DEF TakeWhole, HeapInv, HeapTypeOK, Free
<1>4. HeapTypeOK'
  BY <1>1, <1>2, <1>3 DEF HeapTypeOK, TakeWhole, Return
<1>5. Ordered'
  BY <1>1, <1>2 DEF HeapInv, Ordered
<1>6. Linked'
  <2>1. After(frhd', 0, Free')
    BY <1>1, <1>2 DEF After
  <2>2. ASSUME NEW b \in Free' PROVE After(ptr'[b], b, Free')
    <3>1. After(ptr[b], b, Free)
      BY <1>2, <2>2 DEF HeapInv, Linked
    <3> QED
      BY <1>1, <1>2, <2>2, <3>1 DEF After
  <2> QED
    BY <2>1, <2>2 DEF Linked
<1>7. CallOK'
  BY DEF CallOK, TakeWhole, Return
<1>8. Served
  <2>1. ASSUME NEW u \in Addr, NEW b \in Addr, b # nxt
        PROVE  (InFree(u, b) \/ InUsed(u, b))' <=> InUsed(u, b) \/ (b >= nxt /\ InFree(u, b))
    BY <1>1, <1>2, <2>1 DEF InFree, InUsed
  <2>2. ASSUME NEW u \in Addr, NEW b \in Addr, b = nxt
        PROVE  (InFree(u, b) \/ InUsed(u, b))' <=> InUsed(u, b) \/ (b >= nxt /\ InFree(u, b))
    BY <1>1, <1>2, <2>2 DEF InFree, InUsed
  <2> QED
    BY <2>1, <2>2 DEF Served
<1> QED
  BY <1>4, <1>5, <1>6, <1>7, <1>8 DEF HeapInv

\* Giving up.
LEMMA HangInv ==
    ASSUME HeapInv, UNCHANGED heap, Hang
    PROVE  HeapInv'
<1>1. HeapTypeOK'
  BY HeapNumbers DEF HeapInv, HeapTypeOK, heap, Hang, Free
<1>2. CallOK'
  BY DEF CallOK, Hang
<1> QED
  BY <1>1, <1>2, SameHeap DEF HeapInv

-----------------------------------------------------------------------------
(* free                                                                    *)

\* A walk begins with the invariant.
LEMMA FreeAboveHeadInv ==
    ASSUME HeapInv, NEW f \in DOMAIN used, FreeAboveHead(f)
    PROVE  HeapInv'
<1>0. HeapTypeOK
  BY DEF HeapInv
<1> USE <1>0, HeapNumbers, Lengths DEF FreeAboveHead
<1>1. HeapTypeOK'
  BY DEF HeapTypeOK, heap, Free
<1>2. frhd \in Free
  BY DEF HeapInv, Linked, After
<1>3. CallOK'
  BY <1>2, SameHeap DEF CallOK, heap
<1> QED
  BY <1>1, <1>3, SameHeap DEF HeapInv

\* And goes on with it.
LEMMA WalkOnInv ==
    ASSUME HeapInv, WalkOn
    PROVE  HeapInv'
<1>0. HeapTypeOK
  BY DEF HeapInv
<1> USE <1>0, HeapNumbers, Lengths DEF WalkOn, Walking, Touches
<1>1. nxt \in Free
  <2>1. CASE prev = NULL
    BY <2>1 DEF HeapInv, CallOK
  <2>2. CASE prev # NULL
    BY <2>2 DEF HeapInv, CallOK, Linked, After
  <2> QED
    BY <2>1, <2>2
<1>2. HeapTypeOK'
  BY <1>1 DEF HeapTypeOK, heap, Free
<1>3. CallOK'
  BY <1>1, SameHeap DEF HeapInv, CallOK, heap
<1> QED
  BY <1>2, <1>3, SameHeap DEF HeapInv

\* A block that takes its place in the list, linked to the next one or joined
\* with it, leaves the blocks apart, and its units in a block.
LEMMA Joining ==
    ASSUME HeapInv, NEW f \in DOMAIN used, NEW next \in Addr \cup {NULL},
           After(next, f, Free), \A b \in Free : b + size[b] # f,
           size' = JoinedSize(f, next), used' = Drop(used, f), Free' = DOMAIN size'
    PROVE  /\ Ordered' /\ size' \in [Free' -> Addr] /\ used' \in [DOMAIN used' -> Addr]
           /\ Free' = IF f + used[f] = next THEN (Free \ {next}) \cup {f} ELSE Free \cup {f}
           /\ \A u \in Addr : (\E b \in Addr : InFree(u, b) \/ InUsed(u, b))'
                             <=> \E b \in Addr : InFree(u, b) \/ InUsed(u, b)
<1>0. HeapTypeOK
  BY DEF HeapInv
<1> USE <1>0, HeapNumbers, Lengths
<1>1. f \notin Free /\ f + used[f] <= Units + 1
  BY DEF HeapInv, Ordered
<1>2. /\ DOMAIN used' = DOMAIN used \ {f}
      /\ \A b \in DOMAIN used' : used'[b] = used[b]
  BY DEF Drop
<1>3. used' \in [DOMAIN used' -> Addr]
  BY <1>2 DEF Drop, HeapTypeOK
<1>4. CASE f + used[f] = next
  <2>1. /\ next \in Free /\ next > f /\ next # NULL /\ next \notin DOMAIN used
        /\ next + size[next] <= Units + 1
    BY <1>1, <1>4 DEF After, HeapInv, Ordered
  <2>2. /\ Free' = (Free \ {next}) \cup {f}
        /\ size'[f] = used[f] + size[next] /\ size'[f] \in Addr
        /\ \A b \in Free : b # next => size'[b] = size[b]
        /\ size' \in [Free' -> Addr]
    <3>1. size' = Put(Drop(size, next), f, used[f] + size[next])
      BY <1>4 DEF JoinedSize
    <3>2. used[f] + size[next] \in Addr
      BY <1>1, <1>4, <2>1 DEF Addr
    <3>3. /\ DOMAIN Drop(size, next) = Free \ {next}
          /\ \A b \in Free : b # next => Drop(size, next)[b] = size[b]
      BY DropFacts
    <3> QED
      BY <1>1, <3>1, <3>2, <3>3 DEF Put
  <2>3. Ordered'
    <3>1. \A b \in Free : b < f => b + size[b] < f
      BY <1>1 DEF HeapInv, Ordered
    <3>2. \A b \in Free : b > f /\ b # next => b > next + size[next]
      BY <2>1 DEF HeapInv, Ordered, After
    <3>3. \A c \in DOMAIN used : c # f => c + used[c] <= f \/ c >= next + size[next]
      <4> SUFFICES ASSUME NEW c \in DOMAIN used, c # f, c > f PROVE c >= next + size[next]
        BY DEF HeapInv, Ordered
      <4>1. c >= f + used[f] /\ c # next
        BY <2>1 DEF HeapInv, Ordered
      <4> QED
        BY <1>4, <2>1, <4>1 DEF HeapInv, Ordered
    <3>4. /\ \A b \in Free' : b + size'[b] <= Units + 1
          /\ \A b \in DOMAIN used' : b + used'[b] <= Units + 1
          /\ \A b, c \in DOMAIN used' : b < c => b + used'[b] <= c
      BY <1>2, <1>4, <2>1, <2>2 DEF HeapInv, Ordered
    <3>5. \A b, c \in Free' : b < c => b + size'[b] < c
      BY <1>1, <1>4, <2>1, <2>2, <3>1, <3>2 DEF HeapInv, Ordered
    <3>6. \A b \in Free', c \in DOMAIN used' :
             /\ b # c
             /\ b < c => b + size'[b] <= c
             /\ c < b => c + used'[c] <= b
      BY <1>1, <1>2, <1>4, <2>1, <2>2, <3>3 DEF HeapInv, Ordered
    <3> QED
      BY <3>4, <3>5, <3>6 DEF Ordered
  <2>4. ASSUME NEW u \in Addr
        PROVE  (\E b \in Addr : InFree(u, b) \/ InUsed(u, b))'
                  <=> \E b \in Addr : InFree(u, b) \/ InUsed(u, b)
    <3>1. ASSUME NEW b \in Addr, InFree(u, b) \/ InUsed(u, b)
          PROVE  \E c \in Addr : (InFree(u, c) \/ InUsed(u, c))'
      <4>1. CASE b \in {f, next}
        <5>1. InFree(u, f)'
          BY <1>1, <1>4, <2>1, <2>2, <3>1, <4>1 DEF InFree, InUsed
        <5> QED
          BY <5>1
      <4>2. CASE b \notin {f, next}
        <5>1. (InFree(u, b) \/ InUsed(u, b))'
          BY <1>2, <2>2, <3>1, <4>2 DEF InFree, InUsed
        <5> QED
          BY <5>1
      <4> QED
        BY <4>1, <4>2
    <3>2. ASSUME NEW b \in Addr, (InFree(u, b) \/ InUsed(u, b))'
          PROVE  \E c \in Addr : InFree(u, c) \/ InUsed(u, c)
      <4>1. CASE b = f
        <5>1. InUsed(u, f) \/ InFree(u, next)
          BY <1>2, <1>4, <2>1, <2>2, <3>2, <4>1 DEF InFree, InUsed
        <5> QED
          BY <2>1, <5>1
      <4>2. CASE b # f
        <5>1. InFree(u, b) \/ InUsed(u, b)
          BY <1>2, <2>2, <3>2, <4>2 DEF InFree, InUsed
        <5> QED
          BY <5>1
      <4> QED
        BY <4>1, <4>2
    <3> QED
      BY <3>1, <3>2
  <2> QED
    BY <1>3, <1>4, <2>2, <2>3, <2>4
<1>5. CASE f + used[f] # next
  <2>1. /\ Free' = Free \cup {f} /\ size'[f] = used[f]
        /\ \A b \in Free : size'[b] = size[b]
        /\ size' \in [Free' -> Addr]
    BY <1>1, <1>5 DEF JoinedSize, Put, HeapTypeOK
  <2>2. Ordered'
    <3>1. \A b \in Free : b < f => b + size[b] < f
      BY <1>1 DEF HeapInv, Ordered
    <3>2. \A b \in Free : b > f => b > f + used[f]
      <4> SUFFICES ASSUME NEW b \in Free, b > f PROVE b > f + used[f]
        OBVIOUS
      <4>1. next \in Free /\ next > f /\ b >= next
        BY DEF After
      <4>2. f + used[f] <= next
        BY <4>1 DEF HeapInv, Ordered
      <4> QED
        BY <1>5, <4>1, <4>2
    <3>3. /\ \A b \in Free' : b + size'[b] <= Units + 1
          /\ \A b \in DOMAIN used' : b + used'[b] <= Units + 1
          /\ \A b, c \in DOMAIN used' : b < c => b + used'[b] <= c
      BY <1>1, <1>2, <2>1 DEF HeapInv, Ordered
    <3>4. \A b, c \in Free' : b < c => b + size'[b] < c
      BY <1>1, <2>1, <3>1, <3>2 DEF HeapInv, Ordered
    <3>5. \A b \in Free', c \in DOMAIN used' :
             /\ b # c
             /\ b < c => b + size'[b] <= c
             /\ c < b => c + used'[c] <= b
      BY <1>1, <1>2, <2>1 DEF HeapInv, Ordered
    <3> QED
      BY <3>3, <3>4, <3>5 DEF Ordered
  <2>3. ASSUME NEW u \in Addr
        PROVE  (\E b \in Addr : InFree(u, b) \/ InUsed(u, b))'
                  <=> \E b \in Addr : InFree(u, b) \/ InUsed(u, b)
    <3>1. ASSUME NEW b \in Addr
          PROVE  (InFree(u, b) \/ InUsed(u, b))' <=> InFree(u, b) \/ InUsed(u, b)
      BY <1>1, <1>2, <2>1 DEF InFree, InUsed
    <3> QED
      BY <3>1
  <2> QED
    BY <1>3, <1>5, <2>1, <2>2, <2>3
<1> QED
  BY <1>4, <1>5

\* Units belong to a block after a step exactly if they did before.
SameUnits ==
    \A u \in Addr : (\E b \in Addr : InFree(u, b) \/ InUsed(u, b))'
                  <=> \E b \in Addr : InFree(u, b) \/ InUsed(u, b)

\* A block below the head of the list becomes its head.
LEMMA FreeBelowHeadInv ==
    ASSUME HeapInv, NEW f \in DOMAIN used, FreeBelowHead(f)
    PROVE  HeapInv' /\ SameUnits
<1>0. HeapTypeOK
  BY DEF HeapInv
<1> USE <1>0, HeapNumbers, Lengths
<1>1. /\ frhd \in Free /\ frhd > f /\ \A b \in Free : frhd <= b
  BY DEF FreeBelowHead, HeapInv, Linked, After
<1>2. After(frhd, f, Free) /\ \A b \in Free : b + size[b] # f
  BY <1>1 DEF After
<1>3. /\ frhd' = f /\ ptr' = JoinedPtr(ptr, f, frhd) /\ size' = JoinedSize(f, frhd)
      /\ used' = Drop(used, f)
  BY DEF FreeBelowHead
<1>4. Free' = DOMAIN size'
  BY <1>3 DEF JoinedPtr, JoinedSize, Put, Drop, Free
<1>5. /\ Ordered' /\ size' \in [Free' -> Addr] /\ used' \in [DOMAIN used' -> Addr]
      /\ Free' = IF f + used[f] = frhd THEN (Free \ {frhd}) \cup {f} ELSE Free \cup {f}
      /\ SameUnits
  BY <1>1, <1>2, <1>3, <1>4, Joining DEF SameUnits
<1>6. /\ ptr'[f] = IF f + used[f] = frhd THEN ptr[frhd] ELSE frhd
      /\ \A b \in Free' : b # f => ptr'[b] = ptr[b] /\ b \in Free
      /\ ptr' \in [Free' -> Addr \cup {NULL}]
  <2>1. CASE f + used[f] = frhd
    <3>1. ptr' = Put(Drop(ptr, frhd), f, ptr[frhd])
      BY <1>3, <2>1 DEF JoinedPtr
    <3> QED
      BY <1>1, <1>5, <2>1, <3>1 DEF Put, Drop, HeapTypeOK
  <2>2. CASE f + used[f] # frhd
    <3>1. ptr' = Put(ptr, f, frhd)
      BY <1>3, <2>2 DEF JoinedPtr
    <3> QED
      BY <1>1, <1>5, <2>2, <3>1 DEF Put, HeapTypeOK
  <2> QED
    BY <2>1, <2>2
<1>7. HeapTypeOK'
  <2>1. Free' \subseteq Addr /\ DOMAIN used' \subseteq Addr
    BY <1>1, <1>3, <1>5 DEF Drop
  <2>2. /\ frhd' \in Addr /\ op' = "none" /\ arg' = 0 /\ prev' = NULL /\ nxt' = NULL
    BY DEF FreeBelowHead, Return
  <2> QED
    BY <1>5, <1>6, <2>1, <2>2 DEF HeapTypeOK
<1>8. Linked'
  <2>1. After(frhd', 0, Free')
    BY <1>1, <1>3, <1>5 DEF After
  <2>2. After(ptr'[f], f, Free')
    <3>1. After(ptr[frhd], frhd, Free)
      BY <1>1 DEF HeapInv, Linked
    <3> QED
      BY <1>1, <1>5, <1>6, <3>1 DEF After
  <2>3. ASSUME NEW b \in Free', b # f PROVE After(ptr'[b], b, Free')
    <3>1. After(ptr[b], b, Free) /\ b >= frhd
      BY <1>1, <1>6, <2>3 DEF HeapInv, Linked
    <3> QED
      BY <1>1, <1>5, <1>6, <2>3, <3>1 DEF After
  <2> QED
    BY <2>1, <2>2, <2>3 DEF Linked
<1>9. CallOK'
  BY DEF CallOK, FreeBelowHead, Return
<1> QED
  BY <1>5, <1>7, <1>8, <1>9 DEF HeapInv

\* A block is linked behind the one the walk has ended at.
LEMMA LinkAfterInv ==
    ASSUME HeapInv, LinkAfter
    PROVE  HeapInv' /\ SameUnits
<1>0. HeapTypeOK
  BY DEF HeapInv
<1> USE <1>0, HeapNumbers, Lengths
<1>1. arg \in DOMAIN used /\ arg \notin Free /\ op = "free" /\ ~Walking
  BY DEF LinkAfter, HeapInv, CallOK, Ordered
<1>2. /\ prev \in Free /\ prev < arg /\ prev + size[prev] # arg /\ nxt = ptr[prev]
      /\ frhd \in Free /\ frhd < arg
  BY <1>1 DEF HeapInv, CallOK, Walking
<1>3. /\ nxt \in Addr \cup {NULL} /\ After(nxt, prev, Free)
      /\ nxt # NULL => nxt > arg
  <2>1. nxt \in Addr \cup {NULL} /\ After(nxt, prev, Free)
    BY <1>2 DEF HeapInv, Linked, HeapTypeOK
  <2>2. nxt # NULL => nxt \in Free /\ nxt # arg /\ ~(nxt < arg)
    BY <1>1, <2>1 DEF After, Walking
  <2> QED
    BY <1>1, <2>1, <2>2
<1>4. After(nxt, arg, Free) /\ \A b \in Free : b > prev => b > arg
  BY <1>1, <1>2, <1>3 DEF After
<1>5. \A b \in Free : b + size[b] # arg
  <2> SUFFICES ASSUME NEW b \in Free, b + size[b] = arg PROVE FALSE
    OBVIOUS
  <2>1. b < arg /\ ~(b > prev)
    BY <1>1, <1>4
  <2>2. b # prev
    BY <1>2
  <2>3. b + size[b] < prev
    BY <1>2, <2>1, <2>2 DEF HeapInv, Ordered
  <2> QED
    BY <1>2, <2>3
<1>6. /\ frhd' = frhd /\ ptr' = [JoinedPtr(ptr, arg, nxt) EXCEPT ![prev] = arg]
      /\ size' = JoinedSize(arg, nxt) /\ used' = Drop(used, arg)
  BY DEF LinkAfter
<1>7. Free' = DOMAIN size'
  BY <1>6 DEF JoinedPtr, JoinedSize, Put, Drop, Free
<1>8. PICK f \in DOMAIN used : f = arg
  BY <1>1
<1>9. PICK next \in Addr \cup {NULL} : next = nxt
  BY <1>3
<1>10. /\ Ordered' /\ size' \in [Free' -> Addr] /\ used' \in [DOMAIN used' -> Addr]
       /\ Free' = IF arg + used[arg] = nxt THEN (Free \ {nxt}) \cup {arg} ELSE Free \cup {arg}
       /\ SameUnits
  BY <1>4, <1>5, <1>6, <1>7, <1>8, <1>9, Joining DEF SameUnits
<1>11. /\ ptr'[arg] = IF arg + used[arg] = nxt THEN ptr[nxt] ELSE nxt
       /\ ptr'[prev] = arg /\ prev \in Free'
       /\ \A b \in Free' : b # arg => b \in Free /\ (b # prev => ptr'[b] = ptr[b])
       /\ ptr' \in [Free' -> Addr \cup {NULL}]
  <2>1. CASE arg + used[arg] = nxt
    <3> DEFINE P == JoinedPtr(ptr, arg, nxt)
    <3>1. P = Put(Drop(ptr, nxt), arg, ptr[nxt]) /\ nxt \in Free
      BY <1>1, <1>4, <2>1 DEF JoinedPtr, After
    <3>2. ptr' = [P EXCEPT ![prev] = arg]
      BY <1>6
    <3> HIDE DEF P
    <3>3. prev # arg /\ prev # nxt
      BY <1>1, <1>2, <1>3, <3>1
    <3>4. /\ DOMAIN P = (Free \ {nxt}) \cup {arg} /\ P[arg] = ptr[nxt]
          /\ \A b \in Free : b # nxt /\ b # arg => P[b] = ptr[b]
      BY <3>1 DEF Put, Drop
    <3>5. P \in [(Free \ {nxt}) \cup {arg} -> Addr \cup {NULL}]
      BY <3>1 DEF Put, Drop, HeapTypeOK
    <3> QED
      BY <1>1, <1>2, <1>10, <2>1, <3>2, <3>3, <3>4, <3>5
  <2>2. CASE arg + used[arg] # nxt
    <3>1. JoinedPtr(ptr, arg, nxt) = Put(ptr, arg, nxt)
      BY <2>2 DEF JoinedPtr
    <3> QED
      BY <1>1, <1>2, <1>3, <1>6, <1>10, <2>2, <3>1 DEF Put, HeapTypeOK
  <2> QED
    BY <2>1, <2>2
<1>12. HeapTypeOK'
  <2>1. Free' \subseteq Addr /\ DOMAIN used' \subseteq Addr
    BY <1>1, <1>6, <1>10 DEF Drop
  <2>2. /\ frhd' \in Addr /\ op' = "none" /\ arg' = 0 /\ prev' = NULL /\ nxt' = NULL
    BY <1>2 DEF LinkAfter, Return
  <2> QED
    BY <1>10, <1>11, <2>1, <2>2 DEF HeapTypeOK
<1>13. Linked'
  <2>1. After(frhd', 0, Free')
    BY <1>1, <1>2, <1>3, <1>6, <1>10 DEF After, HeapInv, Linked
  <2>2. After(ptr'[arg], arg, Free')
    <3>1. nxt # NULL => After(ptr[nxt], nxt, Free)
      BY <1>4 DEF HeapInv, Linked, After
    <3> QED
      BY <1>1, <1>3, <1>4, <1>10, <1>11, <3>1 DEF After
  <2>3. After(ptr'[prev], prev, Free')
    BY <1>1, <1>2, <1>4, <1>10, <1>11 DEF After
  <2>4. ASSUME NEW b \in Free', b # arg, b # prev PROVE After(ptr'[b], b, Free')
    <3>1. b \in Free /\ ptr'[b] = ptr[b] /\ After(ptr[b], b, Free) /\ ptr[b] \in Addr \cup {NULL}
      BY <1>11, <2>4 DEF HeapInv, Linked, HeapTypeOK
    <3>2. CASE b < prev
      <4>1. ptr[b] # NULL /\ ptr[b] <= prev
        BY <1>2, <3>1, <3>2 DEF After
      <4> QED
        BY <1>1, <1>2, <1>3, <1>10, <3>1, <3>2, <4>1 DEF After
    <3>3. CASE b > prev
      BY <1>1, <1>3, <1>4, <1>10, <2>4, <3>1, <3>3 DEF After
    <3> QED
      BY <1>2, <2>4, <3>1, <3>2, <3>3
  <2> QED
    BY <2>1, <2>2, <2>3, <2>4 DEF Linked
<1>14. CallOK'
  BY DEF CallOK, LinkAfter, Return
<1> QED
  BY <1>10, <1>12, <1>13, <1>14 DEF HeapInv

\* A block that touches the one below it is joined with it, and with the one
\* above if that touches too.
LEMMA MergeBelowInv ==
    ASSUME HeapInv, MergeBelow
    PROVE  HeapInv' /\ SameUnits
<1> DEFINE whole == size[nxt] + used[arg]
           after == ptr[nxt]
<1>0. HeapTypeOK
  BY DEF HeapInv
<1> USE <1>0, HeapNumbers, Lengths
<1>1. /\ arg \in DOMAIN used /\ arg \notin Free /\ arg + used[arg] <= Units + 1
      /\ nxt < arg /\ nxt # NULL /\ nxt + size[nxt] = arg
  BY DEF MergeBelow, Walking, Touches, HeapInv, CallOK, Ordered
<1>2. nxt \in Free
  <2>1. CASE prev = NULL
    BY <2>1 DEF MergeBelow, Walking, HeapInv, CallOK
  <2>2. CASE prev # NULL
    BY <2>2 DEF MergeBelow, Walking, HeapInv, CallOK, Linked, After
  <2> QED
    BY <2>1, <2>2
<1>3. /\ after \in Addr \cup {NULL} /\ After(after, nxt, Free)
      /\ whole \in Nat /\ whole >= 1 /\ whole \in Addr /\ nxt + whole = arg + used[arg]
  BY <1>1, <1>2 DEF HeapInv, HeapTypeOK, Linked, Addr
<1>4. /\ DOMAIN used' = DOMAIN used \ {arg}
      /\ \A b \in DOMAIN used' : used'[b] = used[b]
      /\ used' \in [DOMAIN used' -> Addr]
  BY DEF MergeBelow, Drop, HeapTypeOK
<1>5. /\ \A b \in Free : b > nxt => b > arg /\ b >= arg + used[arg]
      /\ \A c \in DOMAIN used : c # arg /\ c > nxt => c >= arg + used[arg]
  BY <1>1, <1>2 DEF HeapInv, Ordered
<1>6. /\ nxt + whole = after =>
            /\ after \in Free /\ after > nxt
            /\ ptr' = [Drop(ptr, after) EXCEPT ![nxt] = ptr[after]]
            /\ size' = [Drop(size, after) EXCEPT ![nxt] = whole + size[after]]
      /\ nxt + whole # after => ptr' = ptr /\ size' = [size EXCEPT ![nxt] = whole]
  <2>1. nxt + whole = after => after \in Free /\ after > nxt
    BY <1>2, <1>3 DEF After
  <2> QED
    BY <2>1 DEF MergeBelow
<1> HIDE DEF whole, after
<1>7. HeapTypeOK' /\ Ordered' /\ Linked' /\ SameUnits
  <2>1. CASE nxt + whole = after
    <3>1. after \in Free /\ after > nxt /\ after + size[after] <= Units + 1
      BY <1>6, <2>1 DEF HeapInv, Ordered
    <3>2. /\ Free' = Free \ {after} /\ ptr'[nxt] = ptr[after]
          /\ \A b \in Free' : b # nxt => ptr'[b] = ptr[b]
          /\ ptr' \in [Free' -> Addr \cup {NULL}]
      <4>1. ptr' = [Drop(ptr, after) EXCEPT ![nxt] = ptr[after]]
        BY <1>6, <2>1
      <4> QED
        BY <1>2, <3>1, <4>1 DEF Drop, Free, HeapTypeOK
    <3>3. /\ size'[nxt] = whole + size[after]
          /\ \A b \in Free' : b # nxt => size'[b] = size[b]
          /\ size' \in [Free' -> Addr]
      <4>1. size' = [Drop(size, after) EXCEPT ![nxt] = whole + size[after]]
        BY <1>6, <2>1
      <4>2. whole + size[after] \in Addr
        BY <1>2, <1>3, <2>1, <3>1 DEF Addr
      <4> QED
        BY <1>2, <3>1, <3>2, <4>1, <4>2 DEF Drop, HeapTypeOK
    <3>4. \A b \in Free : b > nxt /\ b # after => b > after + size[after]
      BY <1>2, <1>3, <3>1 DEF HeapInv, Ordered, After
    <3>5. \A c \in DOMAIN used : c # arg /\ c > nxt => c >= after + size[after]
      BY <1>1, <1>3, <1>5, <2>1, <3>1 DEF HeapInv, Ordered
    <3>6. HeapTypeOK'
      <4>1. Free' \subseteq Addr /\ DOMAIN used' \subseteq Addr
        BY <1>4, <3>2
      <4>2. frhd' \in Addr \cup {NULL} /\ op' = "none" /\ arg' = 0 /\ prev' = NULL /\ nxt' = NULL
        BY DEF MergeBelow, Return, HeapTypeOK
      <4> QED
        BY <1>4, <3>2, <3>3, <4>1, <4>2 DEF HeapTypeOK
    <3>7. Ordered'
      <4>1. /\ \A b \in Free' : b + size'[b] <= Units + 1
            /\ \A b \in DOMAIN used' : b + used'[b] <= Units + 1
            /\ \A b, c \in DOMAIN used' : b < c => b + used'[b] <= c
        BY <1>2, <1>3, <1>4, <2>1, <3>1, <3>2, <3>3 DEF HeapInv, Ordered
      <4>2. \A b, c \in Free' : b < c => b + size'[b] < c
        BY <1>2, <1>3, <2>1, <3>1, <3>2, <3>3, <3>4 DEF HeapInv, Ordered
      <4>3. \A b \in Free', c \in DOMAIN used' :
               /\ b # c
               /\ b < c => b + size'[b] <= c
               /\ c < b => c + used'[c] <= b
        BY <1>2, <1>3, <1>4, <2>1, <3>1, <3>2, <3>3, <3>5 DEF HeapInv, Ordered
      <4> QED
        BY <4>1, <4>2, <4>3 DEF Ordered
    <3>8. Linked'
      <4>1. frhd' = frhd /\ After(frhd, 0, Free) /\ frhd <= nxt /\ frhd # NULL
        BY <1>2 DEF MergeBelow, HeapInv, Linked, After
      <4>2. After(frhd', 0, Free')
        BY <3>1, <3>2, <4>1, <1>2 DEF After
      <4>3. After(ptr'[nxt], nxt, Free')
        <5>1. After(ptr[after], after, Free)
          BY <3>1 DEF HeapInv, Linked
        <5>2. \A c \in Free' : c \in Free /\ (c > nxt <=> c > after)
          BY <1>2, <1>3, <3>1, <3>2 DEF After
        <5> QED
          BY <1>2, <3>1, <3>2, <5>1, <5>2 DEF After
      <4>4. ASSUME NEW b \in Free', b # nxt PROVE After(ptr'[b], b, Free')
        <5>1. After(ptr[b], b, Free) /\ b \in Free /\ b # after
          BY <3>2, <4>4 DEF HeapInv, Linked
        <5> QED
          BY <1>2, <1>3, <3>1, <3>2, <4>4, <5>1 DEF After
      <4> QED
        BY <4>2, <4>3, <4>4 DEF Linked
    <3>9. SameUnits
      <4>1. ASSUME NEW u \in Addr, NEW b \in Addr, InFree(u, b) \/ InUsed(u, b)
            PROVE  \E c \in Addr : (InFree(u, c) \/ InUsed(u, c))'
        <5>1. CASE b = nxt \/ b = arg \/ b = after
          <6> PICK n \in Addr : n = nxt
            BY <1>2
          <6>1. nxt \notin DOMAIN used /\ after \notin DOMAIN used
            BY <1>2, <3>1 DEF HeapInv, Ordered
          <6>2. nxt <= u /\ u < nxt + (whole + size[after])
            BY <1>1, <1>2, <1>3, <2>1, <3>1, <4>1, <5>1, <6>1 DEF InFree, InUsed
          <6>3. nxt \in Free'
            BY <1>2, <3>1, <3>2
          <6>4. InFree(u, n)'
            BY <3>3, <6>2, <6>3 DEF InFree
          <6> QED
            BY <6>4
        <5>2. CASE ~(b = nxt \/ b = arg \/ b = after)
          <6>1. (InFree(u, b) \/ InUsed(u, b))'
            BY <1>4, <3>2, <3>3, <4>1, <5>2 DEF InFree, InUsed
          <6> QED
            BY <6>1
        <5> QED
          BY <5>1, <5>2
      <4>2. ASSUME NEW u \in Addr, NEW b \in Addr, (InFree(u, b) \/ InUsed(u, b))'
            PROVE  \E c \in Addr : InFree(u, c) \/ InUsed(u, c)
        <5>1. CASE b = nxt /\ b \in Free'
          <6>1. InFree(u, nxt) \/ InUsed(u, arg) \/ InFree(u, after)
            BY <1>1, <1>2, <1>3, <1>4, <2>1, <3>1, <3>2, <3>3, <4>2, <5>1
               DEF InFree, InUsed, HeapInv, Ordered
          <6> QED
            BY <1>1, <1>2, <3>1, <6>1
        <5>2. CASE ~(b = nxt /\ b \in Free')
          <6>1. InFree(u, b) \/ InUsed(u, b)
            BY <1>4, <3>2, <3>3, <4>2, <5>2 DEF InFree, InUsed
          <6> QED
            BY <6>1
        <5> QED
          BY <5>1, <5>2
      <4> QED
        BY <4>1, <4>2 DEF SameUnits
    <3> QED
      BY <3>6, <3>7, <3>8, <3>9
  <2>2. CASE nxt + whole # after
    <3>1. /\ ptr' = ptr /\ Free' = Free /\ size'[nxt] = whole
          /\ \A b \in Free : b # nxt => size'[b] = size[b]
          /\ size' \in [Free -> Addr]
      BY <1>2, <1>3, <1>6, <2>2 DEF Free, HeapTypeOK
    <3>2. HeapTypeOK'
      <4>1. frhd' \in Addr \cup {NULL} /\ op' = "none" /\ arg' = 0 /\ prev' = NULL /\ nxt' = NULL
        BY DEF MergeBelow, Return, HeapTypeOK
      <4>2. DOMAIN used' \subseteq Addr
        BY <1>4
      <4> QED
        BY <1>4, <3>1, <4>1, <4>2 DEF HeapTypeOK
    <3>3. \A b \in Free : b > nxt => b > nxt + whole
      <4> SUFFICES ASSUME NEW b \in Free, b > nxt PROVE b > nxt + whole
        OBVIOUS
      <4>1. after \in Free /\ after > nxt /\ b >= after
        BY <1>2, <1>3 DEF After
      <4>2. after >= nxt + whole
        BY <1>3, <1>5, <4>1
      <4> QED
        BY <1>2, <1>3, <2>2, <4>1, <4>2
    <3>4. Ordered'
      <4>1. /\ \A b \in Free' : b + size'[b] <= Units + 1
            /\ \A b \in DOMAIN used' : b + used'[b] <= Units + 1
            /\ \A b, c \in DOMAIN used' : b < c => b + used'[b] <= c
        BY <1>1, <1>2, <1>3, <1>4, <3>1 DEF HeapInv, Ordered
      <4>2. \A b, c \in Free' : b < c => b + size'[b] < c
        BY <1>2, <1>3, <3>1, <3>3 DEF HeapInv, Ordered
      <4>3. \A b \in Free', c \in DOMAIN used' :
               /\ b # c
               /\ b < c => b + size'[b] <= c
               /\ c < b => c + used'[c] <= b
        BY <1>2, <1>3, <1>4, <1>5, <3>1 DEF HeapInv, Ordered
      <4> QED
        BY <4>1, <4>2, <4>3 DEF Ordered
    <3>5. Linked'
      BY <3>1 DEF HeapInv, Linked, MergeBelow
    <3>6. SameUnits
      <4>1. ASSUME NEW u \in Addr, NEW b \in Addr, InFree(u, b) \/ InUsed(u, b)
            PROVE  \E c \in Addr : (InFree(u, c) \/ InUsed(u, c))'
        <5>1. CASE b = nxt \/ b = arg
          <6> PICK n \in Addr : n = nxt
            BY <1>2
          <6>1. InFree(u, n)'
            BY <1>1, <1>2, <1>3, <3>1, <4>1, <5>1 DEF InFree, InUsed, HeapInv, Ordered
          <6> QED
            BY <6>1
        <5>2. CASE ~(b = nxt \/ b = arg)
          <6>1. (InFree(u, b) \/ InUsed(u, b))'
            BY <1>4, <3>1, <4>1, <5>2 DEF InFree, InUsed
          <6> QED
            BY <6>1
        <5> QED
          BY <5>1, <5>2
      <4>2. ASSUME NEW u \in Addr, NEW b \in Addr, (InFree(u, b) \/ InUsed(u, b))'
            PROVE  \E c \in Addr : InFree(u, c) \/ InUsed(u, c)
        <5>1. CASE b = nxt /\ b \in Free'
          <6>1. InFree(u, nxt) \/ InUsed(u, arg)
            BY <1>1, <1>2, <1>3, <1>4, <3>1, <4>2, <5>1 DEF InFree, InUsed, HeapInv, Ordered
          <6> QED
            BY <1>1, <1>2, <6>1
        <5>2. CASE ~(b = nxt /\ b \in Free')
          <6>1. InFree(u, b) \/ InUsed(u, b)
            BY <1>4, <3>1, <4>2, <5>2 DEF InFree, InUsed
          <6> QED
            BY <6>1
        <5> QED
          BY <5>1, <5>2
      <4> QED
        BY <4>1, <4>2 DEF SameUnits
    <3> QED
      BY <3>2, <3>4, <3>5, <3>6
  <2> QED
    BY <2>1, <2>2
<1>8. CallOK'
  BY DEF CallOK, MergeBelow, Return
<1> QED
  BY <1>7, <1>8 DEF HeapInv

-----------------------------------------------------------------------------
(* Every step                                                              *)

\* Every step of the heap, and a new start, keep the invariant.
LEMMA HeapNextInv == HeapInv /\ [HeapNext \/ i_alloc]_heapVars => HeapInv'
<1> SUFFICES ASSUME HeapInv, [HeapNext \/ i_alloc]_heapVars PROVE HeapInv'
  OBVIOUS
<1>1. CASE UNCHANGED heapVars
  BY <1>1 DEF heapVars, heap, HeapInv, HeapTypeOK, Ordered, Linked, CallOK, Free
<1>2. CASE i_alloc
  BY <1>2, i_allocInv
<1>3. CASE \E n \in Requests : malloc(n)
  BY <1>3, mallocInv
<1>4. CASE \E f \in DOMAIN used :
              FreeIntoNothing(f) \/ FreeBelowHead(f) \/ FreeAboveHead(f)
  BY <1>4, HangInv, FreeBelowHeadInv, FreeAboveHeadInv DEF FreeIntoNothing
<1>5. CASE Work
  BY <1>5, TooSmallInv, SplitInv, TakeWholeInv, HangInv, WalkOnInv, MergeBelowInv, LinkAfterInv
     DEF Work, AllocationFailed
<1> QED
  BY <1>1, <1>2, <1>3, <1>4, <1>5 DEF HeapNext

\* The inductive invariant always holds.
THEOREM HeapInvariant == HeapSpec => []HeapInv
BY OneBlockInv, HeapNextInv, PTL DEF HeapSpec

\* The list and the calls stay within their types.
THEOREM HeapTypeCorrect == HeapSpec => []HeapTypeOK
<1>1. HeapInv => HeapTypeOK
  BY DEF HeapInv
<1> QED
  BY <1>1, HeapInvariant, PTL

\* No two blocks, free or handed out, share a unit of the arena, for every
\* arena and every mix of malloc() and free().
THEOREM BlocksStayApart == HeapSpec => []BlocksApart
<1>1. HeapInv => BlocksApart
  BY OrderedApart DEF HeapInv
<1> QED
  BY <1>1, HeapInvariant, PTL

\* The list of free() stays in order and joined.
THEOREM ListStaysJoined == HeapSpec => []ListJoined
<1>1. HeapInv => ListJoined
  BY LinkedJoined DEF HeapInv
<1> QED
  BY <1>1, HeapInvariant, PTL

-----------------------------------------------------------------------------
(* Calls end                                                               *)

\* What a call has not looked at of the arena.
Remaining == IF nxt = NULL THEN 0 ELSE Units + 1 - nxt

\* Every step of a call ends it or leaves less to look at: the list never leads
\* back, so that neither loop turns more often than the arena has units.
InCall == op \in {"malloc", "free"}

CallsShorten ==
    [][ InCall => op' \in {"none", "stuck"} \/ (op' = op /\ Remaining' < Remaining) ]_heapVars

\* The step to the next block goes up.
LEMMA StepUp ==
    ASSUME HeapInv, nxt \in Free, nxt' = ptr[nxt] PROVE Remaining' < Remaining
<1>1. /\ nxt \in Addr /\ ptr[nxt] \in Addr \cup {NULL}
      /\ ptr[nxt] = NULL \/ ptr[nxt] > nxt
  BY DEF HeapInv, HeapTypeOK, Linked, After
<1>2. nxt \in Nat /\ 1 <= nxt /\ nxt <= Units /\ Units \in Nat /\ NULL = 0
  BY <1>1, HeapNumbers
<1>3. nxt' = 0 \/ (nxt' \in Nat /\ nxt' > nxt)
  BY <1>1, HeapNumbers
<1> QED
  BY <1>2, <1>3 DEF Remaining

\* malloc and free are done after as many steps as the arena has units at most.
THEOREM CallsAreFinite == HeapSpec => CallsShorten /\ [](Remaining \in 0 .. Units)
<1>1. HeapInv /\ [HeapNext \/ i_alloc]_heapVars =>
        [ InCall => op' \in {"none", "stuck"} \/ (op' = op /\ Remaining' < Remaining) ]_heapVars
  <2> SUFFICES ASSUME HeapInv, HeapNext \/ i_alloc, op \in {"malloc", "free"}
               PROVE  op' \in {"none", "stuck"} \/ (op' = op /\ Remaining' < Remaining)
    BY DEF InCall
  <2>1. CASE i_alloc
    BY <2>1 DEF i_alloc, Return
  <2>2. CASE TooSmall
    BY <2>2, StepUp DEF TooSmall, Searching, HeapInv, CallOK
  <2>3. CASE WalkOn
    <3>1. nxt \in Free
      BY <2>3 DEF WalkOn, Walking, HeapInv, CallOK, Linked, After
    <3> QED
      BY <2>3, <3>1, StepUp DEF WalkOn
  <2>4. CASE Split \/ TakeWhole \/ AllocationFailed \/ MergeBelow \/ LinkAfter
    BY <2>4 DEF Split, TakeWhole, AllocationFailed, MergeBelow, LinkAfter, Return, Hang
  <2>5. op # "none"
    OBVIOUS
  <2> QED
    BY <2>1, <2>2, <2>3, <2>4, <2>5
       DEF HeapNext, Work, malloc, FreeIntoNothing, FreeBelowHead, FreeAboveHead
<1>2. HeapInv => Remaining \in 0 .. Units
  BY HeapNumbers DEF HeapInv, HeapTypeOK, Remaining
<1> QED
  BY <1>1, <1>2, HeapInvariant, PTL DEF HeapSpec, CallsShorten

-----------------------------------------------------------------------------
(* The abstract heap                                                       *)

\* What lies open in the arena is what lies in a free block.
LEMMA OpenUnits ==
    ASSUME HeapInv, NEW u
    PROVE  u \in Arena!Open <=> u \in Addr /\ \E b \in Free : InFree(u, b)
<1> USE HeapNumbers
<1>0. HeapTypeOK /\ BlocksApart
  BY OrderedApart DEF HeapInv
<1> USE <1>0, Lengths
<1>1. u \in Arena!Open <=> /\ u \in Addr /\ u \notin Lost
                           /\ \A s \in DOMAIN used : u \notin s .. s + used[s] - 1
  BY DEF Arena!Open, Arena!Unit, Arena!Held, Arena!Span, Addr
<1>2. u \in Addr => \A s \in DOMAIN used : (u \in s .. s + used[s] - 1 <=> InUsed(u, s))
  BY DEF InUsed
<1>3. ASSUME u \in Arena!Open PROVE u \in Addr /\ \E b \in Free : InFree(u, b)
  BY <1>1, <1>2, <1>3 DEF Lost, InUsed, InFree
<1>4. ASSUME u \in Addr, NEW b \in Free, InFree(u, b) PROVE u \in Arena!Open
  <2>1. b \in Addr
    OBVIOUS
  <2>2. u \notin Lost
    BY <1>4, <2>1 DEF Lost
  <2>3. ASSUME NEW s \in DOMAIN used, InUsed(u, s) PROVE FALSE
    <3>1. s = b
      BY <1>4, <2>1, <2>3 DEF BlocksApart
    <3> QED
      BY <3>1 DEF BlocksApart
  <2> QED
    BY <1>1, <1>2, <1>4, <2>2, <2>3
<1> QED
  BY <1>3, <1>4

\* A gap lies in one free block: a second one behind it would touch the first.
LEMMA GapInBlock ==
    ASSUME HeapInv, NEW s \in Addr, NEW n \in Nat, n >= 1, Arena!Gap(s, n)
    PROVE  \E b \in Free : b <= s /\ s + n <= b + size[b]
<1>0. HeapTypeOK
  BY DEF HeapInv
<1> USE <1>0, Lengths, HeapNumbers
<1>1. \A u \in s .. s + n - 1 : u \in Addr /\ \E b \in Free : InFree(u, b)
  BY OpenUnits DEF Arena!Gap, Arena!Span
<1>2. s \in s .. s + n - 1
  OBVIOUS
<1>3. PICK b \in Free : b <= s /\ s < b + size[b]
  BY <1>1, <1>2 DEF InFree
<1> SUFFICES ASSUME s + n > b + size[b] PROVE FALSE
  BY <1>3
<1>4. b + size[b] \in s .. s + n - 1
  BY <1>3
<1>5. PICK c \in Free : c <= b + size[b] /\ b + size[b] < c + size[c]
  BY <1>1, <1>4 DEF InFree
<1>6. (b < c => b + size[b] < c) /\ (c < b => c + size[c] < b)
  BY DEF HeapInv, Ordered
<1> QED
  BY <1>3, <1>5, <1>6

\* The head of a free block is a gap.
LEMMA BlockIsGap ==
    ASSUME HeapInv, NEW b \in Free, NEW n \in Nat, n <= size[b]
    PROVE  Arena!Gap(b, n)
<1>0. HeapTypeOK
  BY DEF HeapInv
<1> USE <1>0, Lengths, HeapNumbers
<1>1. ASSUME NEW u \in b .. b + n - 1 PROVE u \in Arena!Open
  <2>1. u \in Addr /\ InFree(u, b)
    BY DEF HeapInv, Ordered, InFree, Addr
  <2> QED
    BY <2>1, OpenUnits
<1> QED
  BY <1>1 DEF Arena!Gap, Arena!Span

\* A block handed out is the first gap that is wide enough, and what lay open
\* below it is lost.
LEMMA ServedAlloc ==
    ASSUME HeapInv, Searching, size[nxt] >= arg, used' = Put(used, nxt, arg), Served,
           Return
    PROVE  Arena!Next
<1>0. HeapTypeOK
  BY DEF HeapInv
<1> USE <1>0, Lengths, HeapNumbers
<1>1. /\ op = "malloc" /\ op' = "none" /\ nxt \in Free /\ arg \in Requests
      /\ \A b \in Free : b < nxt => size[b] < arg
  BY DEF HeapInv, CallOK, Searching, Return
<1>2. Arena!Gap(nxt, arg)
  BY <1>1, BlockIsGap
<1>3. ASSUME NEW r \in Addr, r < nxt, Arena!Gap(r, arg) PROVE FALSE
  <2>1. PICK b \in Free : b <= r /\ r + arg <= b + size[b]
    BY <1>1, <1>3, GapInBlock
  <2>2. size[b] < arg
    BY <1>1, <1>3, <2>1
  <2> QED
    BY <1>1, <2>1, <2>2
<1>4. Lost' = Lost \cup {u \in Arena!Open : u < nxt}
  <2>1. \A u : u \in Lost' <=> u \in Addr /\ ~ \E b \in Addr : InUsed(u, b) \/ (b >= nxt /\ InFree(u, b))
    BY DEF Lost, Served
  <2>2. ASSUME NEW u \in Lost', u \notin Lost PROVE u \in Arena!Open /\ u < nxt
    <3>1. PICK b \in Addr : InFree(u, b)
      BY <2>1, <2>2 DEF Lost
    <3>2. b \in Free /\ b < nxt /\ u \in Addr
      BY <1>1, <2>1, <3>1 DEF InFree
    <3>3. b + size[b] < nxt
      BY <1>1, <3>2 DEF HeapInv, Ordered
    <3> QED
      BY <1>1, <3>1, <3>2, <3>3, OpenUnits DEF InFree
  <2>3. ASSUME NEW u \in Lost PROVE u \in Lost'
    BY <2>1 DEF Lost
  <2>4. ASSUME NEW u \in Arena!Open, u < nxt PROVE u \in Lost'
    <3>1. PICK b \in Free : InFree(u, b)
      BY OpenUnits
    <3>2. u \in Addr /\ BlocksApart
      BY OpenUnits, OrderedApart DEF HeapInv
    <3>3. ASSUME NEW c \in Addr, InUsed(u, c) \/ (c >= nxt /\ InFree(u, c)) PROVE FALSE
      <4>1. c = b
        BY <3>1, <3>2, <3>3 DEF BlocksApart
      <4>2. ~InUsed(u, c)
        BY <3>2, <4>1 DEF BlocksApart, InUsed
      <4> QED
        BY <1>1, <2>4, <3>1, <3>2, <3>3, <4>1, <4>2 DEF InFree
    <3> QED
      BY <2>1, <3>2, <3>3
  <2> QED
    BY <2>2, <2>3, <2>4
<1>5. Arena!Alloc(nxt, arg)
  <2>1. \A r \in Arena!Unit : r < nxt => ~Arena!Gap(r, arg)
    BY <1>3 DEF Arena!Unit, Addr
  <2>2. used' = [b \in DOMAIN used \cup {nxt} |-> IF b = nxt THEN arg ELSE used[b]]
    BY DEF Put
  <2>3. op # "stuck" /\ (op = "stuck")' = (op = "stuck")
    BY <1>1
  <2> QED
    BY <1>2, <1>4, <2>1, <2>2, <2>3 DEF Arena!Alloc
<1>6. nxt \in Arena!Unit
  BY <1>1 DEF Arena!Unit, Addr
<1> QED
  BY <1>1, <1>5, <1>6 DEF Arena!Next

\* A block that comes back is released, and nothing is lost.
LEMMA ReturnedRelease ==
    ASSUME NEW f \in DOMAIN used, op # "stuck", used' = Drop(used, f), SameUnits, Return
    PROVE  Arena!Next
<1>1. Lost' = Lost
  BY DEF Lost, SameUnits
<1>2. (op = "stuck")' = (op = "stuck") /\ ~(op = "stuck")
  BY DEF Return
<1>3. Arena!Release(f)
  BY <1>1, <1>2 DEF Arena!Release, Drop
<1> QED
  BY <1>3 DEF Arena!Next

\* A call that gives up does so because nothing would do.
LEMMA HungRefuse ==
    ASSUME HeapInv, UNCHANGED heap, Hang, op # "stuck",
           (op = "malloc" /\ nxt = NULL) \/ frhd = NULL
    PROVE  Arena!Next
<1>0. HeapTypeOK
  BY DEF HeapInv
<1> USE <1>0, Lengths, HeapNumbers
<1>1. (op = "stuck")' /\ ~(op = "stuck") /\ used' = used /\ Lost' = Lost
  BY DEF Hang, heap, Lost, InFree, InUsed, Free
<1>2. (\E n \in Requests : \A s \in Arena!Unit : ~Arena!Gap(s, n)) \/ Arena!Open = {}
  <2>1. CASE op = "malloc" /\ nxt = NULL
    <3>1. arg \in Requests /\ \A b \in Free : size[b] < arg
      BY <2>1 DEF HeapInv, CallOK
    <3>2. ASSUME NEW s \in Addr, Arena!Gap(s, arg) PROVE FALSE
      <4>1. PICK b \in Free : b <= s /\ s + arg <= b + size[b]
        BY <3>1, <3>2, GapInBlock
      <4>2. size[b] < arg
        BY <3>1
      <4> QED
        BY <3>1, <4>1, <4>2
    <3> QED
      BY <3>1, <3>2 DEF Arena!Unit, Addr
  <2>2. CASE frhd = NULL
    <3>1. Free = {}
      BY <2>2 DEF HeapInv, Linked, After
    <3> QED
      BY <3>1, OpenUnits
  <2> QED
    BY <2>1, <2>2
<1>3. Arena!Refuse
  BY <1>1, <1>2 DEF Arena!Refuse
<1> QED
  BY <1>3 DEF Arena!Next

\* Every step of the list is a step of the arena, or none.
LEMMA ArenaStep ==
    HeapInv /\ [HeapNext \/ i_alloc]_heapVars => [Arena!Next]_<<used, Lost, op = "stuck">>
<1> DEFINE abstract == <<used, Lost, op = "stuck">>
<1> SUFFICES ASSUME HeapInv, [HeapNext \/ i_alloc]_heapVars
             PROVE  Arena!Next \/ UNCHANGED abstract
  OBVIOUS
<1>1. ASSUME UNCHANGED heap, op # "stuck", op' # "stuck" PROVE UNCHANGED abstract
  <2>1. Lost' = Lost /\ used' = used
    BY <1>1 DEF Lost, InFree, InUsed, heap, Free
  <2>2. (op = "stuck")' = (op = "stuck")
    BY <1>1
  <2> QED
    BY <2>1, <2>2
<1>2. CASE UNCHANGED heapVars
  <2>1. Lost' = Lost /\ used' = used /\ op' = op
    BY <1>2 DEF Lost, InFree, InUsed, heap, heapVars, Free
  <2> QED
    BY <2>1
<1>3. CASE i_alloc
  <2>1. OneBlock'
    BY <1>3 DEF i_alloc, OneBlock, Return
  <2>2. Lost' = {}
    <3>1. Free' = {1} /\ size'[1] = Units
      BY <1>3 DEF i_alloc, Free
    <3>2. \A u \in Addr : InFree(u, 1)'
      BY <3>1, HeapNumbers DEF InFree, Addr
    <3> QED
      BY <3>2, HeapNumbers DEF Lost, Addr
  <2>3. ~(op = "stuck")' /\ used' = Arena!NoBlocks
    BY <1>3 DEF i_alloc, Return, Arena!NoBlocks
  <2>4. Arena!Restart
    BY <2>2, <2>3 DEF Arena!Restart
  <2> QED
    BY <2>4 DEF Arena!Next
<1>4. CASE \E n \in Requests : malloc(n)
  BY <1>1, <1>4 DEF malloc
<1>5. ASSUME NEW f \in DOMAIN used, FreeIntoNothing(f) \/ FreeBelowHead(f) \/ FreeAboveHead(f)
      PROVE  Arena!Next \/ UNCHANGED abstract
  <2>1. CASE FreeIntoNothing(f)
    BY <2>1, HungRefuse DEF FreeIntoNothing
  <2>2. CASE FreeBelowHead(f)
    <3>1. SameUnits
      BY <2>2, FreeBelowHeadInv
    <3> QED
      BY <2>2, <3>1, ReturnedRelease DEF FreeBelowHead
  <2>3. CASE FreeAboveHead(f)
    BY <1>1, <2>3 DEF FreeAboveHead
  <2> QED
    BY <1>5, <2>1, <2>2, <2>3
<1>6. CASE Work
  <2>0. HeapTypeOK
    BY DEF HeapInv
  <2>1. CASE TooSmall
    BY <1>1, <2>1 DEF TooSmall, Searching
  <2>2. CASE Split
    <3>1. size[nxt] >= arg
      BY <2>0, <2>2, Lengths, HeapNumbers DEF Split, Searching, HeapInv, CallOK
    <3> QED
      BY <2>2, <3>1, SplitInv, ServedAlloc DEF Split
  <2>3. CASE TakeWhole
    <3>1. size[nxt] >= arg
      BY <2>0, <2>3, Lengths, HeapNumbers DEF TakeWhole, Searching, HeapInv, CallOK
    <3> QED
      BY <2>3, <3>1, TakeWholeInv, ServedAlloc DEF TakeWhole
  <2>4. CASE AllocationFailed
    BY <2>4, HungRefuse DEF AllocationFailed
  <2>5. CASE WalkOn
    BY <1>1, <2>5 DEF WalkOn, Walking
  <2>6. CASE MergeBelow
    <3>1. SameUnits /\ arg \in DOMAIN used
      BY <2>6, MergeBelowInv DEF MergeBelow, Walking, HeapInv, CallOK
    <3>2. PICK f \in DOMAIN used : f = arg
      BY <3>1
    <3> QED
      BY <2>6, <3>1, <3>2, ReturnedRelease DEF MergeBelow, Walking
  <2>7. CASE LinkAfter
    <3>1. SameUnits /\ arg \in DOMAIN used
      BY <2>7, LinkAfterInv DEF LinkAfter, HeapInv, CallOK
    <3>2. PICK f \in DOMAIN used : f = arg
      BY <3>1
    <3> QED
      BY <2>7, <3>1, <3>2, ReturnedRelease DEF LinkAfter
  <2> QED
    BY <1>6, <2>1, <2>2, <2>3, <2>4, <2>5, <2>6, <2>7 DEF Work
<1> QED
  BY <1>2, <1>3, <1>4, <1>5, <1>6 DEF HeapNext

\* Heap implements HeapArena, for every arena and every set of requests: the
\* list serves first fit, loses what it passes over and nothing else, and
\* gives up only when nothing would do.
THEOREM HeapIsArena == HeapSpec => ArenaSpec
<1>1. OneBlock => Arena!Init
  <2> SUFFICES ASSUME OneBlock PROVE Arena!Init
    OBVIOUS
  <2>1. Free = {1} /\ size[1] = Units
    BY DEF OneBlock, Free
  <2>2. \A u \in Addr : InFree(u, 1)
    BY <2>1, HeapNumbers DEF InFree, Addr
  <2>3. Lost = {}
    BY <2>2, HeapNumbers DEF Lost, Addr
  <2>4. (op = "stuck") = FALSE /\ used = Arena!NoBlocks
    BY DEF OneBlock, Arena!NoBlocks
  <2> QED
    BY <2>3, <2>4 DEF Arena!Init
<1> QED
  BY <1>1, HeapInvariant, ArenaStep, PTL DEF HeapSpec, ArenaSpec, Arena!Spec
=============================================================================
