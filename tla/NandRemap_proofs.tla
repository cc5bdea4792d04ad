--------------------------- MODULE NandRemap_proofs ---------------------------
(***************************************************************************)
(* Proofs about NandRemap, for any number of blocks, faults and updates    *)
(* cut short.  First what one pass over a sound table finds, and what an   *)
(* entry more changes; then the invariant of the tables, that of their     *)
(* copies, and that of the data.                                           *)
(***************************************************************************)
EXTENDS NandRemap, WellFoundedInduction, FiniteSetTheorems, TLAPS

\* What one turn of the loop in rtkn_bbt_get_realpage finds.
Turn(t, block, f, i) ==
    IF i = 0 THEN block
    ELSE IF t[i].bad = f[i - 1] /\ \A j \in 1 .. i : t[j].bad # BB_INIT
    THEN t[i].remap ELSE f[i - 1]

Pass(t, block, f, n) == f = [i \in 0 .. n |-> Turn(t, block, f, i)]

\* A set of naturals that is not empty has a least member.
LEMMA Least ==
    ASSUME NEW T, T \subseteq Nat, T # {}
    PROVE  \E x \in T : \A y \in T : x <= y
<1>1. PICK x \in T : \A y \in T : ~(<<y, x>> \in OpToRel(<, Nat))
  BY WFMin, NatLessThanWellFounded
<1>2. \A y \in T : y < x => <<y, x>> \in OpToRel(<, Nat)
  BY DEF OpToRel
<1>3. \A y \in T : ~ (y < x)
  BY <1>1, <1>2
<1>4. \A y \in T : y \in Nat /\ x \in Nat
  OBVIOUS
<1>5. \A y \in T : x <= y
  BY <1>3, <1>4
<1> QED
  BY <1>5

\* The pass of Chase is a function: one exists.
LEMMA PassExists ==
    ASSUME NEW t, NEW block
    PROVE  \E f : Pass(t, block, f, RBA)
<1> DEFINE T == {n \in 0 .. RBA : ~ \E f : Pass(t, block, f, n)}
<1>0. RBA \in Nat /\ RBA \in 0 .. RBA
  BY NandAssumption
<1>1. SUFFICES ASSUME T # {} PROVE FALSE
  BY <1>0
<1>2. T \subseteq Nat
  BY <1>0
<1>3. PICK n \in T : \A y \in T : n <= y
  BY <1>1, <1>2, Least
<1>4. n \in 0 .. RBA /\ ~ \E f : Pass(t, block, f, n)
  BY <1>3
<1> HIDE DEF T
<1>5. CASE n = 0
  <2> DEFINE f == [i \in 0 .. 0 |-> block]
  <2>1. Pass(t, block, f, 0)
    BY DEF Pass, Turn
  <2> QED
    BY <2>1, <1>4, <1>5
<1>6. CASE n # 0
  <2>1. n \in Nat /\ n - 1 \in 0 .. RBA /\ ~ (n <= n - 1)
    BY <1>0, <1>4, <1>6
  <2>2. n - 1 \notin T
    BY <1>3, <2>1
  <2>3. PICK g : Pass(t, block, g, n - 1)
    BY <2>1, <2>2 DEF T
  <2> DEFINE h == [i \in 0 .. n |-> IF i = n THEN Turn(t, block, g, n) ELSE g[i]]
  <2>4. \A i \in 0 .. n : h[i] = Turn(t, block, h, i)
    <3>1. SUFFICES ASSUME NEW i \in 0 .. n PROVE h[i] = Turn(t, block, h, i)
      OBVIOUS
    <3>2. i # 0 => i - 1 \in 0 .. n - 1 /\ i - 1 \in 0 .. n /\ i - 1 # n
      BY <2>1
    <3>3. i # 0 => h[i - 1] = g[i - 1]
      BY <3>2
    <3>4. Turn(t, block, h, i) = Turn(t, block, g, i)
      BY <3>3 DEF Turn
    <3>5. CASE i = n
      BY <3>4, <3>5
    <3>6. CASE i # n
      <4>1. i \in 0 .. n - 1
        BY <2>1, <3>6
      <4>2. h[i] = g[i] /\ g[i] = Turn(t, block, g, i)
        BY <4>1, <2>3, <3>6 DEF Pass
      <4> QED
        BY <4>2, <3>4
    <3> QED
      BY <3>5, <3>6
  <2>5. Pass(t, block, h, n)
    BY <2>4 DEF Pass
  <2> QED
    BY <2>5, <1>4
<1> QED
  BY <1>5, <1>6

\* The pass that Chase makes.
LEMMA ChasePass ==
    ASSUME NEW t, NEW block
    PROVE  \E f : Pass(t, block, f, RBA) /\ Chase(t, block) = f[RBA]
<1> DEFINE f == CHOOSE f : Pass(t, block, f, RBA)
<1>1. Pass(t, block, f, RBA)
  BY PassExists
<1>2. Chase(t, block) = f[RBA]
  BY DEF Chase, Pass, Turn
<1> QED
  BY <1>1, <1>2

\* Induction over the turns of a loop, stated with a set.
LEMMA Turns ==
    ASSUME NEW N \in Nat, NEW S, 0 \in S,
           \A i \in 1 .. N : i - 1 \in S => i \in S
    PROVE  \A i \in 0 .. N : i \in S
<1> DEFINE T == {i \in 0 .. N : i \notin S}
<1>1. SUFFICES ASSUME T # {} PROVE FALSE
  OBVIOUS
<1>2. T \subseteq Nat
  OBVIOUS
<1>3. PICK i \in T : \A j \in T : i <= j
  BY <1>1, <1>2, Least
<1>4. i \in 1 .. N /\ i - 1 \in 0 .. N /\ ~ (i <= i - 1)
  BY <1>3
<1>5. i - 1 \in S
  BY <1>3, <1>4
<1> QED
  BY <1>3, <1>4, <1>5

-----------------------------------------------------------------------------
(* Tables                                                                  *)

Used(t, i) == t[i].bad # BB_INIT

\* SoundTable and what it rests on: replacements come from the reserve, and
\* the entries it did not suffice for are the last.
Ready(t) ==
    /\ t \in Table
    /\ SoundTable(t)
    /\ \A i \in 1 .. RBA : t[i].remap # RB_INIT => t[i].remap \in Reserve
    /\ \A i, j \in 1 .. RBA : i < j /\ t[i].remap = RB_INIT => t[j].remap = RB_INIT

\* Where the numbers of blocks lie.
LEMMA Numbers ==
    /\ RBA \in Nat /\ Blocks \in Nat /\ RBA < Blocks
    /\ Virtual \subseteq Block /\ Virtual \subseteq Nat /\ Block \subseteq Nat
    /\ Reserve \subseteq Block /\ Reserve \cap Virtual = {} /\ 0 \in Virtual
    /\ BB_INIT \notin Block /\ RB_INIT \notin Block /\ BB_INIT # RB_INIT
BY NandAssumption DEF Virtual, Block, Reserve, BB_INIT, RB_INIT

\* A turn of the pass, the first apart.
LEMMA PassTurn ==
    ASSUME NEW t, NEW block, NEW f, Pass(t, block, f, RBA)
    PROVE  /\ f[0] = block
           /\ \A i \in 1 .. RBA : f[i] =
                IF t[i].bad = f[i - 1] /\ \A j \in 1 .. i : Used(t, j)
                THEN t[i].remap ELSE f[i - 1]
BY NandAssumption DEF Pass, Turn, Used

\* In a sound table the pass needs no look at the entries before.
LEMMA PlainTurn ==
    ASSUME NEW t, Ready(t), NEW block, NEW f, Pass(t, block, f, RBA),
           NEW i \in 1 .. RBA, f[i - 1] \in Block
    PROVE  f[i] = IF t[i].bad = f[i - 1] THEN t[i].remap ELSE f[i - 1]
<1>1. SUFFICES ASSUME t[i].bad = f[i - 1] PROVE \A j \in 1 .. i : Used(t, j)
  BY PassTurn
<1>2. Used(t, i)
  BY <1>1, Numbers DEF Used
<1>3. \A j \in 1 .. RBA : j < i => Used(t, j)
  BY <1>2 DEF Used, Ready, SoundTable
<1> QED
  BY <1>2, <1>3, Numbers

Reached(t, block, f, i) ==
    /\ f[i] \in Block
    /\ f[i] = block \/ \E l \in 1 .. i : Used(t, l) /\ f[i] = t[l].remap
    /\ \A l \in 1 .. i : Used(t, l) => t[l].bad # f[i]

\* The pass leads to the block itself or a replacement that is in use, and to
\* none that is listed above.
LEMMA PassReaches ==
    ASSUME NEW t, Ready(t), NEW block \in Virtual, NEW f, Pass(t, block, f, RBA)
    PROVE  \A i \in 0 .. RBA : Reached(t, block, f, i)
<1> DEFINE S == {i \in 0 .. RBA : Reached(t, block, f, i)}
<1>1. 0 \in S
  BY PassTurn, Numbers DEF Reached
<1>2. ASSUME NEW i \in 1 .. RBA, i - 1 \in S
      PROVE  i \in S
  <2>1. Reached(t, block, f, i - 1)
    BY <1>2
  <2>2. f[i] = IF t[i].bad = f[i - 1] THEN t[i].remap ELSE f[i - 1]
    BY <2>1, PlainTurn DEF Reached
  <2>3. i \in 0 .. RBA /\ i \in 1 .. i /\ 1 .. i \subseteq 1 .. RBA
        /\ \A l \in 1 .. i : l = i \/ l \in 1 .. i - 1
    BY Numbers
  <2>4. 1 .. i - 1 \subseteq 1 .. i
    BY Numbers
  <2>5. CASE t[i].bad = f[i - 1]
    <3>1. Used(t, i)
      BY <2>1, <2>5, Numbers DEF Used, Reached
    <3>2. t[i].remap \in Block
      BY <3>1, Numbers DEF Ready, SoundTable, Used
    <3>3. \A l \in 1 .. i : t[l].bad # t[i].remap
      <4>1. SUFFICES ASSUME NEW l \in 1 .. i, t[l].bad = t[i].remap PROVE FALSE
        OBVIOUS
      <4>2. l \in 1 .. RBA /\ ~ (i < l)
        BY <2>3, Numbers
      <4> QED
        BY <4>1, <4>2 DEF Ready, SoundTable
    <3> QED
      BY <2>2, <2>3, <2>5, <3>1, <3>2, <3>3 DEF Reached
  <2>6. CASE t[i].bad # f[i - 1]
    <3>1. f[i] = f[i - 1]
      BY <2>2, <2>6
    <3> QED
      BY <2>1, <2>3, <2>4, <2>6, <3>1 DEF Reached
  <2> QED
    BY <2>5, <2>6
<1> HIDE DEF S
<1>3. \A i \in 0 .. RBA : i \in S
  BY <1>1, <1>2, Numbers, Turns
<1> QED
  BY <1>3 DEF S

\* What Chase finds is a block, the original or a replacement in use, and not
\* listed.
LEMMA ChaseReaches ==
    ASSUME NEW t, Ready(t), NEW block \in Virtual
    PROVE  /\ Chase(t, block) \in Block
           /\ \/ Chase(t, block) = block
              \/ \E i \in 1 .. RBA : Used(t, i) /\ Chase(t, block) = t[i].remap
           /\ \A i \in 1 .. RBA : t[i].bad # Chase(t, block)
<1>1. PICK f : Pass(t, block, f, RBA) /\ Chase(t, block) = f[RBA]
  BY ChasePass
<1>2. Reached(t, block, f, RBA)
  BY <1>1, PassReaches, Numbers
<1>3. \A i \in 1 .. RBA : ~Used(t, i) => t[i].bad # f[RBA]
  BY <1>2, Numbers DEF Used, Reached
<1> QED
  BY <1>1, <1>2, <1>3 DEF Reached

\* Chases that start apart end apart.
LEMMA ChaseApart ==
    ASSUME NEW t, Ready(t), NEW b \in Virtual, NEW c \in Virtual, b # c
    PROVE  Chase(t, b) # Chase(t, c)
<1>1. PICK f : Pass(t, b, f, RBA) /\ Chase(t, b) = f[RBA]
  BY ChasePass
<1>2. PICK g : Pass(t, c, g, RBA) /\ Chase(t, c) = g[RBA]
  BY ChasePass
<1> DEFINE S == {i \in 0 .. RBA : f[i] # g[i]}
<1>3. 0 \in S
  BY <1>1, <1>2, PassTurn, Numbers
<1>4. ASSUME NEW i \in 1 .. RBA, i - 1 \in S
      PROVE  i \in S
  <2>1. i \in 0 .. RBA /\ i - 1 \in 0 .. RBA /\ \A l \in 1 .. i - 1 : l \in 1 .. RBA /\ l # i
    BY Numbers
  <2>2. Reached(t, b, f, i - 1) /\ Reached(t, c, g, i - 1)
    BY <1>1, <1>2, <2>1, PassReaches
  <2>3. /\ f[i] = IF t[i].bad = f[i - 1] THEN t[i].remap ELSE f[i - 1]
        /\ g[i] = IF t[i].bad = g[i - 1] THEN t[i].remap ELSE g[i - 1]
    BY <1>1, <1>2, <2>2, PlainTurn DEF Reached
  <2>4. f[i - 1] # g[i - 1]
    BY <1>4
  <2>5. ASSUME t[i].bad \in Block
        PROVE  t[i].remap \in Reserve
    BY <2>5, Numbers DEF Ready, SoundTable
  <2>6. ASSUME t[i].bad \in Block
        PROVE  t[i].remap # f[i - 1] /\ t[i].remap # g[i - 1]
    <3>1. t[i].remap \notin {b, c} /\ t[i].remap # RB_INIT
      BY <2>5, <2>6, Numbers
    <3>2. \A l \in 1 .. i - 1 : t[l].remap # t[i].remap
      BY <2>1, <3>1 DEF Ready, SoundTable
    <3> QED
      BY <2>2, <3>1, <3>2 DEF Reached
  <2> QED
    BY <2>1, <2>2, <2>3, <2>4, <2>6 DEF Reached
<1> HIDE DEF S
<1>5. \A i \in 0 .. RBA : i \in S
  BY <1>3, <1>4, Numbers, Turns
<1> QED
  BY <1>1, <1>2, <1>5, Numbers DEF S

FreeIn(t, n) ==
    /\ t[n].bad = BB_INIT /\ t[n].remap # RB_INIT
    /\ \A j \in 1 .. n - 1 : t[j].bad # BB_INIT \/ t[j].remap = RB_INIT

\* Table u is t with block x listed in entry n.
Enters(t, n, x, u) ==
    \A i \in 1 .. RBA : u[i].remap = t[i].remap /\ u[i].bad = IF i = n THEN x ELSE t[i].bad

\* The entry that the handlers take is the first that is not used.
LEMMA FirstFree ==
    ASSUME NEW t, Ready(t), NEW n \in 1 .. RBA, FreeIn(t, n)
    PROVE  \A j \in 1 .. RBA : Used(t, j) <=> j < n
<1>1. SUFFICES ASSUME NEW j \in 1 .. RBA PROVE Used(t, j) <=> j < n
  OBVIOUS
<1>2. CASE j < n
  <2>1. j \in 1 .. n - 1
    BY <1>2, Numbers
  <2>2. t[j].remap # RB_INIT
    BY <1>2 DEF Ready, FreeIn
  <2> QED
    BY <1>2, <2>1, <2>2 DEF FreeIn, Used
<1>3. CASE j = n
  BY <1>3, Numbers DEF FreeIn, Used
<1>4. CASE n < j
  <2>1. ~Used(t, j)
    BY <1>4 DEF Ready, SoundTable, FreeIn, Used
  <2>2. ~(j < n)
    BY <1>4, Numbers
  <2> QED
    BY <2>1, <2>2
<1> QED
  BY <1>2, <1>3, <1>4, Numbers

\* A table with one more block listed is sound again: the block was met as a
\* virtual block's own or as a replacement that is in use.
LEMMA ListedMore ==
    ASSUME NEW t, Ready(t), NEW n \in 1 .. RBA, FreeIn(t, n),
           NEW x \in Block, \A i \in 1 .. RBA : t[i].bad # x,
           x \in Virtual \/ \E i \in 1 .. RBA : Used(t, i) /\ x = t[i].remap
    PROVE  Ready([t EXCEPT ![n].bad = x]) /\ Enters(t, n, x, [t EXCEPT ![n].bad = x])
<1> DEFINE u == [t EXCEPT ![n].bad = x]
<1>0. t \in Table /\ \A i \in 1 .. RBA : t[i] \in Entry
  BY DEF Ready, Table
<1>1. \A i \in 1 .. RBA : u[i].remap = t[i].remap /\ u[i].bad = IF i = n THEN x ELSE t[i].bad
  BY <1>0 DEF Table, Entry
<1>2. u \in Table
  BY <1>0 DEF Table, Entry
<1>3. x # BB_INIT /\ x # RB_INIT
  BY Numbers
<1>4. \A i \in 1 .. RBA : Used(t, i) <=> i < n
  BY FirstFree
<1>5. \A i \in 1 .. RBA : u[i].bad # BB_INIT <=> i < n \/ i = n
  BY <1>1, <1>3, <1>4 DEF Used
<1> HIDE DEF u
<1>6. \A i, j \in 1 .. RBA : i < j /\ u[j].bad # BB_INIT => u[i].bad # BB_INIT
  BY <1>5, Numbers
<1>7. \A i, j \in 1 .. RBA : i # j /\ u[i].bad # BB_INIT => u[i].bad # u[j].bad
  BY <1>1, <1>3 DEF Ready, SoundTable
<1>8. \A i, j \in 1 .. RBA : i # j /\ u[i].remap # RB_INIT => u[i].remap # u[j].remap
  BY <1>1 DEF Ready, SoundTable
<1>9. ASSUME NEW i \in 1 .. RBA, NEW j \in 1 .. RBA, u[i].bad = u[j].remap
      PROVE  j < i
  <2>1. CASE i = n
    <3>1. x = t[j].remap /\ x \in Reserve
      BY <1>1, <1>3, <1>9, <2>1 DEF Ready
    <3>2. x \notin Virtual
      BY <3>1, Numbers
    <3>3. PICK l \in 1 .. RBA : Used(t, l) /\ x = t[l].remap
      BY <3>2
    <3>4. l = j
      BY <1>3, <3>1, <3>3 DEF Ready, SoundTable
    <3> QED
      BY <1>4, <2>1, <3>3, <3>4
  <2>2. CASE i # n
    BY <1>1, <1>9, <2>2 DEF Ready, SoundTable
  <2> QED
    BY <2>1, <2>2
<1>10. \A i \in 1 .. RBA : u[i].bad # BB_INIT => u[i].remap # RB_INIT
  BY <1>1 DEF Ready, SoundTable, FreeIn
<1>11. SoundTable(u)
  BY <1>6, <1>7, <1>8, <1>9, <1>10 DEF SoundTable
<1>12. Ready(u)
  BY <1>1, <1>2, <1>11 DEF Ready
<1>13. Enters(t, n, x, u)
  BY <1>1 DEF Enters
<1> QED
  BY <1>12, <1>13 DEF u

\* The new entry leads on who would have reached the listed block.
LEMMA ListedChase ==
    ASSUME NEW t, Ready(t), NEW n \in 1 .. RBA, FreeIn(t, n),
           NEW x \in Block, NEW u, Ready(u), Enters(t, n, x, u),
           NEW c \in Virtual
    PROVE  Chase(u, c) = IF Chase(t, c) = x THEN t[n].remap ELSE Chase(t, c)
<1>1. PICK f : Pass(t, c, f, RBA) /\ Chase(t, c) = f[RBA]
  BY ChasePass
<1>2. PICK g : Pass(u, c, g, RBA) /\ Chase(u, c) = g[RBA]
  BY ChasePass
<1>3. \A i \in 1 .. RBA : u[i].remap = t[i].remap /\ u[i].bad = IF i = n THEN x ELSE t[i].bad
  BY DEF Enters
<1> DEFINE Moved(b) == IF b = x THEN t[n].remap ELSE b
           S == {i \in 0 .. RBA : g[i] = IF i < n THEN f[i] ELSE Moved(f[i])}
<1>4. 0 \in S
  BY <1>1, <1>2, PassTurn, Numbers
<1>5. ASSUME NEW i \in 1 .. RBA, i - 1 \in S
      PROVE  i \in S
  <2>1. i \in 0 .. RBA /\ i - 1 \in 0 .. RBA
    BY Numbers
  <2>2. f[i - 1] \in Block /\ g[i - 1] \in Block
    BY <1>1, <1>2, <2>1, PassReaches DEF Reached
  <2>3. /\ f[i] = IF t[i].bad = f[i - 1] THEN t[i].remap ELSE f[i - 1]
        /\ g[i] = IF u[i].bad = g[i - 1] THEN u[i].remap ELSE g[i - 1]
    <3>1. f[i] = IF t[i].bad = f[i - 1] THEN t[i].remap ELSE f[i - 1]
      BY <1>1, <2>2, PlainTurn
    <3>2. g[i] = IF u[i].bad = g[i - 1] THEN u[i].remap ELSE g[i - 1]
      BY <1>2, <2>2, PlainTurn
    <3> QED
      BY <3>1, <3>2
  <2>4. ~(i < n) => f[i] = f[i - 1]
    <3>1. ~(i < n) => t[i].bad = BB_INIT
      BY FirstFree DEF Used
    <3> QED
      BY <2>2, <2>3, <3>1, Numbers
  <2>5. g[i - 1] = IF i - 1 < n THEN f[i - 1] ELSE Moved(f[i - 1])
    BY <1>5
  <2>6. CASE i < n
    <3>1. i - 1 < n /\ i # n
      BY <2>6, Numbers
    <3> QED
      BY <1>3, <2>1, <2>3, <2>5, <2>6, <3>1
  <2>7. CASE i = n
    <3>1. i - 1 < n /\ ~(i < n)
      BY <2>7, Numbers
    <3> QED
      BY <1>3, <2>1, <2>3, <2>4, <2>5, <2>7, <3>1
  <2>8. CASE n < i
    <3>1. ~(i - 1 < n) /\ ~(i < n) /\ i # n
      BY <2>8, Numbers
    <3>2. u[i].bad = BB_INIT
      BY <1>3, <3>1, FirstFree DEF Used
    <3>3. g[i] = g[i - 1]
      BY <2>2, <2>3, <3>2, Numbers
    <3> QED
      BY <2>1, <2>4, <2>5, <3>1, <3>3
  <2> QED
    BY <2>6, <2>7, <2>8, Numbers
<1> HIDE DEF S
<1>6. RBA \in S /\ RBA \in 0 .. RBA /\ ~(RBA < n)
  BY <1>4, <1>5, Numbers, Turns
<1> QED
  BY <1>1, <1>2, <1>6 DEF S

-----------------------------------------------------------------------------
(* The tables of the first boot                                            *)

\* The blocks of the reserve that come before b in the order of the list.
Before(m, b) == {c \in Reserve \ m : c > b}

\* Ranks are numbers.
LEMMA BeforeFinite ==
    ASSUME NEW m, NEW b
    PROVE  IsFiniteSet(Before(m, b)) /\ Cardinality(Before(m, b)) \in Nat
<1>1. Before(m, b) \subseteq 0 .. Blocks - 1
  BY DEF Before, Reserve, Block
<1>2. IsFiniteSet(0 .. Blocks - 1)
  BY FS_Interval, NandAssumption
<1>3. IsFiniteSet(Before(m, b))
  BY <1>1, <1>2, FS_Subset
<1> QED
  BY <1>3, FS_CardinalityType

\* Ranks leave no gap: behind a block of a rank there is one of every
\* smaller rank.
LEMMA NoGap ==
    ASSUME NEW m, NEW i \in Nat, NEW d \in Reserve \ m, i <= Cardinality(Before(m, d))
    PROVE  \E b \in Reserve \ m : Cardinality(Before(m, b)) = i
<1> DEFINE S == {b \in Reserve \ m : i <= Cardinality(Before(m, b))}
           T == {Blocks - b : b \in S}
<1>1. S \subseteq Block /\ S \subseteq Nat /\ d \in S
  BY Numbers
<1>2. T \subseteq Nat /\ Blocks - d \in T
  BY <1>1, Numbers DEF Block
<1>3. PICK y \in T : \A z \in T : y <= z
  BY <1>2, Least
<1>4. PICK b \in S : y = Blocks - b
  BY <1>3
<1>5. \A c \in S : ~(c > b)
  <2>1. SUFFICES ASSUME NEW c \in S PROVE ~(c > b)
    OBVIOUS
  <2>2. Blocks - b <= Blocks - c
    BY <1>3, <1>4
  <2>3. b \in Nat /\ c \in Nat /\ Blocks \in Nat
    BY <1>1, Numbers
  <2> QED
    BY <2>2, <2>3
<1>6. SUFFICES ASSUME i # Cardinality(Before(m, b)) PROVE FALSE
  BY <1>4
<1>7. Before(m, b) # {}
  <2>1. ASSUME Before(m, b) = {} PROVE Cardinality(Before(m, b)) = 0
    BY <2>1, FS_EmptySet
  <2>2. i <= Cardinality(Before(m, b)) /\ i # Cardinality(Before(m, b))
    BY <1>4, <1>6
  <2> QED
    BY <2>1, <2>2
<1>8. Before(m, b) \subseteq Nat
  BY Numbers DEF Before
<1>9. PICK c \in Before(m, b) : \A z \in Before(m, b) : c <= z
  BY <1>7, <1>8, Least
<1>10. Before(m, c) = Before(m, b) \ {c}
  <2>1. c > b /\ b \in Nat /\ c \in Nat
    BY <1>1, <1>8 DEF Before
  <2>2. \A z \in Reserve : z \in Nat
    BY Numbers
  <2>3. ASSUME NEW z \in Reserve \ m
        PROVE  z > c <=> z > b /\ z # c
    <3>1. z > b => c <= z
      BY <1>9, <2>3 DEF Before
    <3> QED
      BY <2>1, <2>2, <3>1
  <2> QED
    BY <2>3 DEF Before
<1>11. Cardinality(Before(m, c)) = Cardinality(Before(m, b)) - 1
  BY <1>10, BeforeFinite, FS_RemoveElement
<1>12. i <= Cardinality(Before(m, c))
  BY <1>4, <1>6, <1>11, BeforeFinite
<1>13. c \in S /\ c > b
  BY <1>12 DEF Before
<1> QED
  BY <1>5, <1>13

\* The table of a first boot is sound.
LEMMA ReadyFirst ==
    ASSUME NEW m
    PROVE  Ready(Create_bbt(m))
<1> DEFINE t == Create_bbt(m)
           Has(i) == \E b \in Reserve : Remap(m, b, i)
<1>1. \A i \in 1 .. RBA :
         /\ t[i].bad = BB_INIT
         /\ Has(i) => t[i].remap \in Reserve /\ Remap(m, t[i].remap, i)
         /\ ~Has(i) => t[i].remap = RB_INIT
  BY DEF Create_bbt
<1>2. t = [i \in 1 .. RBA |-> [bad |-> t[i].bad, remap |-> t[i].remap]]
  BY DEF Create_bbt
<1> HIDE DEF t
<1>3. \A i \in 1 .. RBA : t[i].remap # RB_INIT => t[i].remap \in Reserve /\ Remap(m, t[i].remap, i)
  BY <1>1
<1>4. t \in Table
  <2>1. \A i \in 1 .. RBA : [bad |-> t[i].bad, remap |-> t[i].remap] \in Entry
    BY <1>1, <1>3, Numbers DEF Entry
  <2> QED
    BY <1>2, <2>1 DEF Table
<1>5. ASSUME NEW i \in 1 .. RBA, NEW j \in 1 .. RBA, t[i].remap # RB_INIT, t[i].remap = t[j].remap
      PROVE  i = j
  <2>1. Remap(m, t[i].remap, i) /\ Remap(m, t[i].remap, j)
    BY <1>3, <1>5
  <2> QED
    BY <2>1, Numbers DEF Remap
<1>6. SoundTable(t)
  BY <1>1, <1>3, <1>5, Numbers DEF SoundTable
<1>7. ASSUME NEW i \in 1 .. RBA, NEW j \in 1 .. RBA, i < j, t[j].remap # RB_INIT
      PROVE  t[i].remap # RB_INIT
  <2>1. PICK d : d \in Reserve \ m /\ Cardinality(Before(m, d)) = j - 1
    BY <1>3, <1>7 DEF Remap, Before
  <2>2. i - 1 \in Nat /\ i - 1 <= j - 1
    BY <1>7, Numbers
  <2>3. PICK b \in Reserve \ m : Cardinality(Before(m, b)) = i - 1
    BY <2>1, <2>2, NoGap
  <2>4. Has(i)
    BY <2>3 DEF Remap, Before
  <2> QED
    BY <1>1, <2>4, Numbers
<1>8. \A i, j \in 1 .. RBA : i < j /\ t[i].remap = RB_INIT => t[j].remap = RB_INIT
  BY <1>7
<1>9. Ready(t)
  BY <1>3, <1>4, <1>6, <1>8 DEF Ready
<1> QED
  BY <1>9 DEF t

\* Every virtual block callers stay in has a good block of its own.
LEMMA OwnBlocks ==
    ASSUME NEW m, Virtual \ m # {}, NEW V, V = Create_v2r(m)
    PROVE  /\ V \in [Virtual -> Virtual]
           /\ \A v, w \in Virtual :
                 (v = 0 \/ V[v] # 0) /\ (w = 0 \/ V[w] # 0) /\ v # w => V[v] # V[w]
<1> DEFINE Has(v) == \E b \in Virtual : Good(m, b, v)
<1>1. \A v \in Virtual :
         /\ Has(v) => V[v] \in Virtual /\ Good(m, V[v], v)
         /\ ~Has(v) => V[v] = 0
  BY DEF Create_v2r
<1>2. V = [v \in Virtual |-> V[v]]
  BY DEF Create_v2r
<1>3. V \in [Virtual -> Virtual]
  BY <1>1, <1>2, Numbers
<1>4. Has(0)
  <2>1. PICK b \in Virtual \ m : \A c \in Virtual \ m : b <= c
    BY Least, Numbers
  <2>2. {c \in Virtual \ m : c < b} = {}
    <3>1. \A c \in Virtual \ m : c \in Nat /\ b \in Nat /\ b <= c
      BY <2>1, Numbers
    <3>2. \A c \in Virtual \ m : ~(c < b)
      BY <3>1
    <3> QED
      BY <3>2
  <2>3. Good(m, b, 0)
    BY <2>2, FS_EmptySet DEF Good
  <2> QED
    BY <2>3
<1>5. \A v \in Virtual : v = 0 \/ V[v] # 0 => Good(m, V[v], v)
  BY <1>1, <1>4
<1>6. \A v, w \in Virtual : Good(m, V[v], v) /\ Good(m, V[w], w) /\ V[v] = V[w] => v = w
  BY DEF Good
<1> QED
  BY <1>3, <1>5, <1>6

-----------------------------------------------------------------------------
(* The tables stay sound                                                   *)

Handling == pc \in {"copy_erase", "copy_write", "finish"}

ReadyTables ==
    /\ Ready(bbt)
    /\ \A i \in Copy : IsTable(copy[i]) => Ready(copy[i].table)

OwnBlock ==
    /\ v2r \in [Virtual -> Virtual]
    /\ \A v, w \in Mapped : v # w => v2r[v] # v2r[w]

\* What a step of a write or of a handler may rely on.
Underway ==
    /\ virt \in Mapped
    /\ pc \in {"erase", "write"} \/ job \in {"erase", "write"} => data \in Data
    /\ Handling => bad \in Block /\ job \in {"erase", "write", "read"}
    /\ Handling /\ job \in {"erase", "write"} => spare \in Reserve
    /\ errors < k

NandInv == NandTypeOK /\ ReadyTables /\ OwnBlock /\ Underway

\* The invariant holds at the start,
LEMMA NandInvInit == NandInit => NandInv
<1> SUFFICES ASSUME NandInit PROVE NandInv
  OBVIOUS
<1> USE DEF NandInit
<1>1. Ready(bbt)
  BY ReadyFirst
<1>2. \A i \in Copy : copy[i] = Whole(bbt)
  OBVIOUS
<1>3. ReadyTables
  BY <1>1, <1>2 DEF ReadyTables, Whole
<1>4. /\ v2r \in [Virtual -> Virtual]
      /\ \A v, w \in Virtual :
            (v = 0 \/ v2r[v] # 0) /\ (w = 0 \/ v2r[w] # 0) /\ v # w => v2r[v] # v2r[w]
  BY OwnBlocks
<1>5. OwnBlock
  BY <1>4 DEF OwnBlock, Mapped
<1>6. 0 \in Mapped
  BY Numbers DEF Mapped
<1>7. Underway
  BY <1>6 DEF Underway, Handling
<1>8. NandTypeOK
  <2>1. page \in [Block -> [Page -> Data \cup {FF}]] /\ marked \subseteq Block
    BY DEF Erased
  <2>2. copy \in [Copy -> {Blank, Torn, Bad} \cup [kind : {"table"}, table : Table]]
    BY <1>1 DEF Ready, Whole
  <2>3. v2r \in [Virtual -> Block] /\ bbt \in Table
    BY <1>1, <1>4, Numbers DEF Ready
  <2>4. 1 \in Page /\ 1 \in Copy /\ 0 \in Virtual
    BY NandAssumption, Numbers DEF Page, Copy, BACKUP_BBT
  <2> QED
    BY <2>1, <2>2, <2>3, <2>4 DEF NandTypeOK, BACKUP_BBT
<1> QED
  BY <1>3, <1>5, <1>7, <1>8 DEF NandInv

\* Where a virtual block leads.
LEMMA RealFacts ==
    ASSUME NandInv, NEW v \in Mapped
    PROVE  /\ v2r[v] \in Virtual
           /\ rtkn_bbt_get_realpage(v) \in Block
           /\ ~Listed(rtkn_bbt_get_realpage(v))
           /\ \/ rtkn_bbt_get_realpage(v) \in Virtual
              \/ \E i \in 1 .. RBA : Used(bbt, i) /\ rtkn_bbt_get_realpage(v) = bbt[i].remap
           /\ \A w \in Mapped : w # v => rtkn_bbt_get_realpage(w) # rtkn_bbt_get_realpage(v)
<1> USE DEF NandInv, ReadyTables, OwnBlock
<1>1. v2r[v] \in Virtual
  BY DEF Mapped
<1>2. \A w \in Mapped : w # v => v2r[w] \in Virtual /\ v2r[w] # v2r[v]
  BY DEF Mapped
<1> QED
  BY <1>1, <1>2, ChaseReaches, ChaseApart DEF rtkn_bbt_get_realpage, Listed

\* Listing a block keeps the tables sound, and gives the handler a block of
\* the reserve.
LEMMA HandleKeeps ==
    ASSUME NandInv, NEW j \in {"erase", "write", "read"}, NEW b \in Block, Handle(j, b),
           b \in Virtual \/ \E i \in 1 .. RBA : Used(bbt, i) /\ b = bbt[i].remap,
           j = "read" \/ (~Listed(b) /\ data \in Data)
    PROVE  NandInv'
<1> USE DEF NandInv, Handle
<1>1. OwnBlock'
  BY DEF OwnBlock, Mapped
<1>2. CASE Listed(b)
  <2>1. ReadyTables'
    BY <1>2 DEF ReadyTables
  <2>2. j = "read" /\ pc' = "finish" /\ job' = "read" /\ bad' = b
    BY <1>2
  <2>3. Underway'
    BY <1>2, <2>2 DEF Underway, Handling, Mapped, request
  <2>4. NandTypeOK'
    BY <1>2, <2>2 DEF NandTypeOK, request
  <2> QED
    BY <1>1, <2>1, <2>3, <2>4
<1>3. CASE ~Listed(b) /\ ~ \E i \in 1 .. RBA : FreeEntry(i)
  <2>1. ReadyTables'
    BY <1>3 DEF ReadyTables
  <2>2. Idle /\ UNCHANGED bbt
    BY <1>3
  <2>3. 1 \in Copy /\ BACKUP_BBT = 3
    BY DEF Copy, BACKUP_BBT
  <2>4. Underway'
    BY <2>2 DEF Underway, Handling, Mapped, request, Idle
  <2>5. NandTypeOK'
    BY <2>2, <2>3 DEF NandTypeOK, request, Idle
  <2> QED
    BY <1>1, <2>1, <2>4, <2>5
<1>4. CASE ~Listed(b) /\ \E i \in 1 .. RBA : FreeEntry(i)
  <2>1. PICK i \in 1 .. RBA :
           /\ FreeEntry(i)
           /\ bbt' = [bbt EXCEPT ![i].bad = b]
           /\ pc' = "copy_erase" /\ job' = j /\ bad' = b
           /\ spare' = bbt[i].remap /\ k' = 1 /\ errors' = 0
    BY <1>4
  <2>2. FreeIn(bbt, i) /\ Ready(bbt) /\ \A l \in 1 .. RBA : bbt[l].bad # b
    BY <1>4, <2>1 DEF FreeIn, FreeEntry, Listed, ReadyTables
  <2>3. Ready(bbt')
    BY <2>1, <2>2, ListedMore
  <2>4. ReadyTables'
    BY <2>3 DEF ReadyTables
  <2>5. spare' \in Reserve
    BY <2>1, <2>2 DEF Ready, FreeIn
  <2>6. Underway'
    BY <1>4, <2>1, <2>5 DEF Underway, Handling, Mapped, request
  <2>7. NandTypeOK'
    <3>1. 1 \in Copy /\ BACKUP_BBT = 3 /\ Reserve \subseteq Block
      BY Numbers DEF Copy, BACKUP_BBT
    <3>2. bbt' \in Table
      BY <2>3 DEF Ready
    <3> QED
      BY <2>1, <2>5, <3>1, <3>2 DEF NandTypeOK, request
  <2> QED
    BY <1>1, <2>4, <2>6, <2>7
<1> QED
  BY <1>2, <1>3, <1>4

\* A step that leaves the tables, in RAM and in flash, alone.
LEMMA TablesKept ==
    ASSUME NandInv, UNCHANGED <<copy, tables>>
    PROVE  ReadyTables' /\ OwnBlock'
BY DEF NandInv, ReadyTables, OwnBlock, Mapped, tables

\* A step that changes one copy, to the table in RAM if it is a table at all.
LEMMA CopyKept ==
    ASSUME NandInv, UNCHANGED tables, NEW i \in Copy, NEW c,
           c \in {Blank, Torn, Bad, Whole(bbt), copy[i]},
           copy' = [copy EXCEPT ![i] = c]
    PROVE  /\ ReadyTables' /\ OwnBlock'
           /\ copy' \in [Copy -> {Blank, Torn, Bad} \cup [kind : {"table"}, table : Table]]
<1> USE DEF NandInv
<1>1. ~IsTable(Blank) /\ ~IsTable(Torn) /\ ~IsTable(Bad) /\ Whole(bbt).table = bbt
  BY DEF IsTable, Blank, Torn, Bad, Whole
<1>2. Ready(bbt) /\ Whole(bbt) \in [kind : {"table"}, table : Table]
  BY DEF ReadyTables, Ready, Whole
<1>3. copy \in [Copy -> {Blank, Torn, Bad} \cup [kind : {"table"}, table : Table]]
  BY DEF NandTypeOK
<1>4. copy' \in [Copy -> {Blank, Torn, Bad} \cup [kind : {"table"}, table : Table]]
  BY <1>2, <1>3
<1>5. IsTable(c) => Ready(c.table)
  BY <1>1, <1>2 DEF ReadyTables
<1>6. \A j \in Copy : copy'[j] = IF j = i THEN c ELSE copy[j]
  BY <1>3
<1>7. bbt' = bbt /\ v2r' = v2r
  BY DEF tables
<1>8. \A j \in Copy : IsTable(copy'[j]) => Ready(copy'[j].table)
  BY <1>5, <1>6 DEF ReadyTables
<1>9. ReadyTables'
  BY <1>2, <1>7, <1>8 DEF ReadyTables, IsTable
<1>10. OwnBlock'
  BY <1>7 DEF OwnBlock, Mapped
<1> QED
  BY <1>4, <1>9, <1>10

\* The end of one copy in rtk_update_bbt.
LEMMA NextCopyKeeps ==
    ASSUME NandInv, Updating, NEW failed \in {0, 1}, NextCopy(failed), UNCHANGED request, UNCHANGED v2r
    PROVE  /\ Underway'
           /\ pc' \in {"copy_erase", "finish", "idle"}
           /\ job' \in {"none", "erase", "write", "read"}
           /\ bad' \in Block \cup {BB_INIT} /\ spare' \in Block \cup {RB_INIT}
           /\ k' \in Copy /\ errors' \in 0 .. BACKUP_BBT - 1
<1> USE DEF NandInv, NandTypeOK, Copy, BACKUP_BBT
<1>1. Handling
  BY DEF Updating, Handling
<1>2. CASE k < 3
  <2>1. errors' < k' /\ errors' \in 0 .. 2 /\ k' \in 1 .. 3
    BY <1>2 DEF NextCopy, Underway
  <2>2. pc' = "copy_erase" /\ UNCHANGED <<job, bad, spare>>
    BY <1>2 DEF NextCopy
  <2> QED
    BY <1>1, <2>1, <2>2 DEF Underway, Handling, Mapped, request
<1>3. CASE ~(k < 3) /\ errors + failed < 3
  <2>1. pc' = "finish" /\ k' = 1 /\ errors' = 0 /\ UNCHANGED <<job, bad, spare>>
    BY <1>3 DEF NextCopy
  <2> QED
    BY <1>1, <2>1 DEF Underway, Handling, Mapped, request
<1>4. CASE ~(k < 3) /\ ~(errors + failed < 3)
  <2>1. Idle
    BY <1>4 DEF NextCopy
  <2> QED
    BY <2>1 DEF Underway, Handling, Mapped, request, Idle
<1> QED
  BY <1>2, <1>3, <1>4

\* A page more, or the return of the write.
LEMMA PageDoneKeeps ==
    ASSUME NandInv, data \in Data, PageDone
    PROVE  at' \in Page /\ expect' \in [Virtual -> Data \cup {Unknown}] /\ pc' \in {"idle", "write"}
<1> USE DEF NandInv, NandTypeOK, PageDone
<1>1. Pages \in Nat \ {0} /\ at \in 1 .. Pages
  BY NandAssumption DEF Page
<1>2. CASE at < Pages
  <2>1. at + 1 \in 1 .. Pages
    BY <1>1, <1>2
  <2> QED
    BY <1>2, <2>1 DEF Page
<1>3. CASE ~(at < Pages)
  <2>1. 1 \in 1 .. Pages
    BY <1>1
  <2> QED
    BY <1>3, <2>1 DEF Page
<1> QED
  BY <1>2, <1>3

\* and every step keeps it.
LEMMA NandInvNext == NandInv /\ [NandNext]_nandVars => NandInv'
<1> SUFFICES ASSUME NandInv, [NandNext]_nandVars PROVE NandInv'
  OBVIOUS
<1> USE DEF NandInv
<1>0. /\ Virtual \subseteq Block /\ real \in Block /\ spare \in Block \cup {RB_INIT}
      /\ 0 \in Mapped /\ 0 \in Virtual /\ 1 \in Page /\ 1 \in Copy /\ BACKUP_BBT = 3
      /\ Erased \in [Page -> Data \cup {FF}]
  BY Numbers, RealFacts, NandAssumption
     DEF real, Underway, Mapped, Page, Copy, BACKUP_BBT, Erased, NandTypeOK
<1>1. CASE LoadTable
  <2>1. PICK i \in Copy : IsTable(copy[i]) /\ bbt' = copy[i].table
    BY <1>1 DEF LoadTable
  <2>2. UNCHANGED copy
    BY <1>1 DEF LoadTable
  <2>3. Ready(bbt')
    BY <2>1 DEF ReadyTables
  <2>4. ReadyTables'
    BY <2>2, <2>3 DEF ReadyTables, IsTable
  <2>5. OwnBlock'
    BY <1>1 DEF LoadTable, OwnBlock, Mapped
  <2>6. Underway'
    BY <1>1 DEF LoadTable, Underway, Handling, Mapped, request, update
  <2>7. NandTypeOK'
    BY <1>1, <2>3 DEF LoadTable, NandTypeOK, request, update, history, Ready
  <2> QED
    BY <2>4, <2>5, <2>6, <2>7
<1>2. CASE CreateTable
  <2>1. Ready(bbt')
    BY <1>2, ReadyFirst DEF CreateTable, ReadyTables
  <2>2. \A j \in Copy : copy'[j] \in {copy[j], Whole(bbt')}
    BY <1>2 DEF CreateTable
  <2>3. ReadyTables'
    BY <2>1, <2>2 DEF ReadyTables, IsTable, Whole
  <2>4. OwnBlock'
    BY <1>2 DEF CreateTable, OwnBlock, Mapped
  <2>5. Underway'
    BY <1>2 DEF CreateTable, Underway, Handling, Mapped, request, update
  <2>6. Whole(bbt') \in [kind : {"table"}, table : Table]
    BY <2>1 DEF Ready, Whole
  <2>7. copy' \in [Copy -> {Blank, Torn, Bad} \cup [kind : {"table"}, table : Table]]
    <3>1. copy' = [j \in Copy |-> copy'[j]]
      BY <1>2 DEF CreateTable
    <3>2. \A j \in Copy : copy'[j] \in {Blank, Torn, Bad} \cup [kind : {"table"}, table : Table]
      BY <2>2, <2>6 DEF NandTypeOK
    <3> QED
      BY <3>1, <3>2
  <2>8. NandTypeOK'
    BY <1>2, <2>1, <2>7 DEF CreateTable, NandTypeOK, request, update, history, Ready
  <2> QED
    BY <2>3, <2>4, <2>5, <2>8
<1>3. ASSUME NEW v \in Mapped, ReadFails(v)
      PROVE  NandInv'
  <2>1. v \in Block /\ v \in Virtual
    BY <1>0 DEF Mapped
  <2> QED
    BY <1>3, <2>1, HandleKeeps DEF ReadFails
<1>4. ASSUME NEW v \in Mapped, NEW d \in Data, nflashWriteBlock(v, d)
      PROVE  NandInv'
  <2>1. ReadyTables' /\ OwnBlock'
    BY <1>4, TablesKept DEF nflashWriteBlock
  <2>2. Underway'
    BY <1>4 DEF nflashWriteBlock, Underway, Handling, Mapped, tables, update
  <2>3. NandTypeOK'
    BY <1>0, <1>4 DEF nflashWriteBlock, NandTypeOK, tables, update, Mapped
  <2> QED
    BY <2>1, <2>2, <2>3
<1>5. CASE Erase
  <2>1. ReadyTables' /\ OwnBlock'
    BY <1>5, TablesKept DEF Erase
  <2>2. Underway'
    BY <1>5 DEF Erase, Underway, Handling, Mapped, tables, request, update
  <2>3. NandTypeOK'
    BY <1>0, <1>5 DEF Erase, NandTypeOK, tables, request, update, history
  <2> QED
    BY <2>1, <2>2, <2>3
<1>6. CASE WritePage
  <2>1. ReadyTables' /\ OwnBlock'
    BY <1>6, TablesKept DEF WritePage
  <2>2. Underway'
    BY <1>6 DEF WritePage, PageDone, Underway, Handling, Mapped, tables, update
  <2>3. data \in Data
    BY <1>6 DEF WritePage, Underway
  <2>4. page' \in [Block -> [Page -> Data \cup {FF}]]
    BY <1>0, <1>6, <2>3 DEF WritePage, NandTypeOK
  <2>5. at' \in Page /\ expect' \in [Virtual -> Data \cup {Unknown}] /\ pc' \in {"idle", "write"}
    BY <1>6, <2>3, PageDoneKeeps DEF WritePage
  <2>6. NandTypeOK'
    BY <1>6, <2>4, <2>5 DEF WritePage, NandTypeOK, tables, update
  <2> QED
    BY <2>1, <2>2, <2>6
<1>7. CASE EraseFails
  <2>1. data \in Data /\ virt \in Mapped
    BY <1>7 DEF EraseFails, Underway
  <2> QED
    BY <1>0, <1>7, <2>1, HandleKeeps, RealFacts DEF EraseFails, real
<1>8. CASE WriteFails
  <2>1. data \in Data /\ virt \in Mapped
    BY <1>8 DEF WriteFails, Underway
  <2> QED
    BY <1>0, <1>8, <2>1, HandleKeeps, RealFacts DEF WriteFails, real
<1>9. CASE rtk_remapBBT_write_fail
  <2>1. ReadyTables' /\ OwnBlock'
    BY <1>9, TablesKept DEF rtk_remapBBT_write_fail
  <2>2. data \in Data /\ bad \in Block /\ spare \in Block
    BY <1>9, Numbers DEF rtk_remapBBT_write_fail, Finish, Underway, Handling
  <2>3. Underway'
    BY <1>9, <2>2 DEF rtk_remapBBT_write_fail, Finish, PageDone, Underway, Handling, Mapped, tables
  <2>4. page' \in [Block -> [Page -> Data \cup {FF}]]
    <3>1. [p \in Page |-> IF p < at THEN page[bad][p] ELSE IF p = at THEN data ELSE FF]
             \in [Page -> Data \cup {FF}]
      BY <2>2 DEF NandTypeOK
    <3> QED
      BY <1>0, <1>9, <2>2, <3>1 DEF rtk_remapBBT_write_fail, NandTypeOK
  <2>5. at' \in Page /\ expect' \in [Virtual -> Data \cup {Unknown}] /\ pc' \in {"idle", "write"}
    BY <1>9, <2>2, PageDoneKeeps DEF rtk_remapBBT_write_fail
  <2>6. NandTypeOK'
    BY <1>0, <1>9, <2>4, <2>5 DEF rtk_remapBBT_write_fail, Finish, NandTypeOK, tables
  <2> QED
    BY <2>1, <2>3, <2>6
<1>10. CASE rtk_remapBBT_erase_fail
  <2>1. ReadyTables' /\ OwnBlock'
    BY <1>10, TablesKept DEF rtk_remapBBT_erase_fail
  <2>2. data \in Data /\ bad \in Block
    BY <1>10 DEF rtk_remapBBT_erase_fail, Finish, Underway, Handling
  <2>3. Underway'
    BY <1>10, <2>2 DEF rtk_remapBBT_erase_fail, Finish, Underway, Handling, Mapped, tables, request
  <2>4. NandTypeOK'
    <3>1. page' \in [Block -> [Page -> Data \cup {FF}]] /\ marked' \subseteq Block
      BY <1>0, <1>10, <2>2 DEF rtk_remapBBT_erase_fail, NandTypeOK
    <3> QED
      BY <1>0, <1>10, <3>1 DEF rtk_remapBBT_erase_fail, Finish, NandTypeOK, tables, request, history
  <2> QED
    BY <2>1, <2>3, <2>4
<1>11. CASE rtk_remapBBT_read_fail
  <2>1. ReadyTables' /\ OwnBlock'
    BY <1>11, TablesKept DEF rtk_remapBBT_read_fail
  <2>2. bad \in Block
    BY <1>11 DEF rtk_remapBBT_read_fail, Finish, Underway, Handling
  <2>3. Underway'
    BY <1>11 DEF rtk_remapBBT_read_fail, Finish, Underway, Handling, Mapped, tables, request
  <2>4. NandTypeOK'
    BY <1>0, <1>11, <2>2 DEF rtk_remapBBT_read_fail, Finish, NandTypeOK, tables, request, history
  <2> QED
    BY <2>1, <2>3, <2>4
<1>12. CASE EraseCopy
  <2>1. k \in Copy
    BY DEF NandTypeOK
  <2>2. ReadyTables' /\ OwnBlock' /\ copy' \in [Copy -> {Blank, Torn, Bad} \cup [kind : {"table"}, table : Table]]
    BY <1>12, <2>1, CopyKept DEF EraseCopy
  <2>3. Underway'
    BY <1>12 DEF EraseCopy, Underway, Handling, Mapped, tables, request, update
  <2>4. NandTypeOK'
    BY <1>12, <2>2 DEF EraseCopy, NandTypeOK, tables, request, update, history
  <2> QED
    BY <2>2, <2>3, <2>4
<1>13. CASE EraseCopyFails
  <2>1. k \in Copy /\ Updating
    BY <1>13 DEF NandTypeOK, EraseCopyFails, Updating
  <2>2. PICK c \in {copy[k], Torn, Whole(bbt)} : copy' = [copy EXCEPT ![k] = c]
    BY <1>13 DEF EraseCopyFails
  <2>3. ReadyTables' /\ OwnBlock' /\ copy' \in [Copy -> {Blank, Torn, Bad} \cup [kind : {"table"}, table : Table]]
    BY <1>13, <2>1, <2>2, CopyKept DEF EraseCopyFails
  <2>4. NextCopy(1) /\ UNCHANGED request /\ UNCHANGED v2r
    BY <1>13 DEF EraseCopyFails, tables
  <2>5. NandTypeOK'
    BY <1>13, <2>1, <2>3, <2>4, NextCopyKeeps DEF EraseCopyFails, NandTypeOK, tables, request
  <2> QED
    BY <2>1, <2>3, <2>4, <2>5, NextCopyKeeps
<1>14. CASE WriteCopy
  <2>1. k \in Copy /\ Updating
    BY <1>14 DEF NandTypeOK, WriteCopy, Updating
  <2>2. ReadyTables' /\ OwnBlock' /\ copy' \in [Copy -> {Blank, Torn, Bad} \cup [kind : {"table"}, table : Table]]
    BY <1>14, <2>1, CopyKept DEF WriteCopy
  <2>3. NextCopy(0) /\ UNCHANGED request /\ UNCHANGED v2r
    BY <1>14 DEF WriteCopy, tables
  <2>4. NandTypeOK'
    BY <1>14, <2>1, <2>2, <2>3, NextCopyKeeps DEF WriteCopy, NandTypeOK, tables, request, history
  <2> QED
    BY <2>1, <2>2, <2>3, <2>4, NextCopyKeeps
<1>15. CASE WriteCopyFails
  <2>1. k \in Copy /\ Updating
    BY <1>15 DEF NandTypeOK, WriteCopyFails, Updating
  <2>2. ReadyTables' /\ OwnBlock' /\ copy' \in [Copy -> {Blank, Torn, Bad} \cup [kind : {"table"}, table : Table]]
    BY <1>15, <2>1, CopyKept DEF WriteCopyFails
  <2>3. NextCopy(1) /\ UNCHANGED request /\ UNCHANGED v2r
    BY <1>15 DEF WriteCopyFails, tables
  <2>4. NandTypeOK'
    BY <1>15, <2>1, <2>2, <2>3, NextCopyKeeps DEF WriteCopyFails, NandTypeOK, tables, request
  <2> QED
    BY <2>1, <2>2, <2>3, <2>4, NextCopyKeeps
<1>16. ASSUME Off, UNCHANGED v2r PROVE Underway'
  BY <1>0, <1>16 DEF Off, Underway, Handling, Mapped
<1>17. CASE PowerOff
  <2>1. ReadyTables' /\ OwnBlock'
    BY <1>17, TablesKept DEF PowerOff
  <2>2. NandTypeOK'
    BY <1>0, <1>17 DEF PowerOff, Off, NandTypeOK, tables, history
  <2>3. Underway'
    BY <1>16, <1>17 DEF PowerOff, tables
  <2> QED
    BY <2>1, <2>2, <2>3
<1>18. CASE PowerOffInUpdate
  <2>1. k \in Copy /\ UNCHANGED tables /\ Off
    BY <1>18 DEF NandTypeOK, PowerOffInUpdate
  <2>2. ReadyTables' /\ OwnBlock' /\ copy' \in [Copy -> {Blank, Torn, Bad} \cup [kind : {"table"}, table : Table]]
    <3>1. CASE UNCHANGED copy
      BY <2>1, <3>1, TablesKept DEF NandTypeOK
    <3>2. CASE \E c \in {Blank, Torn} : copy' = [copy EXCEPT ![k] = c]
      BY <2>1, <3>2, CopyKept
    <3> QED
      BY <1>18, <3>1, <3>2 DEF PowerOffInUpdate
  <2>3. NandTypeOK'
    BY <1>0, <1>18, <2>1, <2>2 DEF PowerOffInUpdate, Off, NandTypeOK, tables
  <2>4. Underway'
    BY <1>16, <2>1 DEF tables
  <2> QED
    BY <2>2, <2>3, <2>4
<1>19. CASE UNCHANGED nandVars
  BY <1>19 DEF nandVars, tables, request, update, history, NandTypeOK, ReadyTables, IsTable,
               OwnBlock, Underway, Handling, Mapped
<1> QED
  BY <1>1, <1>2, <1>3, <1>4, <1>5, <1>6, <1>7, <1>8, <1>9, <1>10, <1>11, <1>12, <1>13, <1>14,
     <1>15, <1>17, <1>18, <1>19 DEF NandNext

\* Every entry of the tables, and every step of a handler, stays in range.
THEOREM NandTypeCorrect == NandSpec => []NandTypeOK
<1>1. NandInv => NandTypeOK
  BY DEF NandInv
<1> QED
  BY <1>1, NandInvInit, NandInvNext, PTL DEF NandSpec

\* The tables stay sound: the pass of rtkn_bbt_get_realpage meets every entry
\* it has to.
THEOREM TablesStaySound == NandSpec => []TablesSound
<1>1. NandInv => TablesSound
  BY DEF NandInv, ReadyTables, Ready, TablesSound
<1> QED
  BY <1>1, NandInvInit, NandInvNext, PTL DEF NandSpec

\* No virtual block leads to a listed one, and a handler always has a block
\* to put in its place.
THEOREM NeverLedToListed == NandSpec => []NeverOnListed
<1>1. NandInv => NeverOnListed
  BY RealFacts, Numbers DEF NandInv, Underway, Handling, NeverOnListed
<1> QED
  BY <1>1, NandInvInit, NandInvNext, PTL DEF NandSpec

\* No two virtual blocks share a block.
THEOREM NeverShared == NandSpec => []OneToOne
<1>1. NandInv => OneToOne
  BY RealFacts DEF OneToOne
<1> QED
  BY <1>1, NandInvInit, NandInvNext, PTL DEF NandSpec

-----------------------------------------------------------------------------
(* The tables are found again                                              *)

Beyond(i) == pc = "copy_write" /\ i = k

\* An update rewrites one copy at a time: one that is cut short, or that
\* loses a copy, leaves two others.
CopiesLeft ==
    /\ harm \in Nat
    /\ ~stale /\ harm = 0 => \A i \in Copy : IsTable(copy[i]) \/ Beyond(i)
    /\ ~stale /\ harm = 1 =>
          \E j \in Copy : \A i \in Copy : i = j \/ IsTable(copy[i]) \/ Beyond(i)
    /\ ~stale /\ harm <= 1 => pc # "failed"

\* All copies are there at the start,
LEMMA CopiesLeftInit == NandInit => CopiesLeft
BY DEF NandInit, CopiesLeft, IsTable, Whole

\* A copy that is still there is not taken for a first boot.
LEMMA FoundAgain ==
    ASSUME CopiesLeft, ~stale, harm <= 1, pc = "off"
    PROVE  ~FirstBoot
<1>1. 1 \in Copy /\ 2 \in Copy /\ 1 # 2
  BY DEF Copy, BACKUP_BBT
<1>2. harm = 0 \/ harm = 1
  BY DEF CopiesLeft
<1>3. \E i \in Copy : IsTable(copy[i])
  BY <1>1, <1>2 DEF CopiesLeft, Beyond
<1> QED
  BY <1>3 DEF FirstBoot

\* The step that ends a copy.
LEMMA LeavesCopy ==
    ASSUME NandInv, NEW failed \in {0, 1}, NextCopy(failed)
    PROVE  pc' # "copy_write" /\ pc' # "failed"
BY DEF NextCopy, Idle

\* and every step leaves as many as it may.
LEMMA CopiesLeftNext == NandInv /\ CopiesLeft /\ [NandNext]_nandVars => CopiesLeft'
<1> SUFFICES ASSUME NandInv, CopiesLeft, [NandNext]_nandVars PROVE CopiesLeft'
  OBVIOUS
<1>0. /\ k \in Copy
      /\ \A i \in Copy : copy[i] = copy[i] /\ i \in DOMAIN copy
      /\ ~IsTable(Bad) /\ ~IsTable(Torn) /\ \A t : IsTable(Whole(t))
  BY DEF NandInv, NandTypeOK, IsTable, Bad, Torn, Whole
<1>1. ASSUME UNCHANGED copy, UNCHANGED <<harm, stale>>, pc # "copy_write", pc' # "copy_write", pc' # "failed"
      PROVE  CopiesLeft'
  BY <1>1 DEF CopiesLeft, IsTable, Beyond
<1>2. CASE LoadTable
  <2>1. \A i \in Copy : IsTable(copy[i]) => IsTable(copy[i])'
    BY <1>2 DEF LoadTable
  <2>2. pc = "off" /\ pc' = "idle" /\ UNCHANGED <<harm, stale>>
    BY <1>2 DEF LoadTable, history
  <2> QED
    BY <2>1, <2>2 DEF CopiesLeft, Beyond
<1>3. CASE CreateTable
  <2>1. stale \/ ~(harm <= 1)
    BY <1>3, FoundAgain DEF CreateTable
  <2>2. UNCHANGED <<harm, stale>>
    BY <1>3 DEF CreateTable, history
  <2> QED
    BY <2>1, <2>2 DEF CopiesLeft
<1>4. ASSUME NEW v \in Mapped, ReadFails(v) \/ \E d \in Data : nflashWriteBlock(v, d)
      PROVE  CopiesLeft'
  BY <1>1, <1>4 DEF ReadFails, nflashWriteBlock, Handle, Idle
<1>5. CASE Erase \/ WritePage
  BY <1>1, <1>5 DEF Erase, WritePage, PageDone, history
<1>6. CASE EraseFails \/ WriteFails
  BY <1>1, <1>6 DEF EraseFails, WriteFails, Handle, Idle
<1>7. CASE rtk_remapBBT_write_fail \/ rtk_remapBBT_erase_fail \/ rtk_remapBBT_read_fail
  BY <1>1, <1>7 DEF rtk_remapBBT_write_fail, rtk_remapBBT_erase_fail, rtk_remapBBT_read_fail,
                    Finish, PageDone, history
<1>8. CASE EraseCopy
  <2>1. \A i \in Copy : IsTable(copy[i]) => IsTable(copy[i])' \/ Beyond(i)'
    BY <1>0, <1>8 DEF EraseCopy, Beyond, IsTable, update
  <2>2. pc' = "copy_write" /\ pc = "copy_erase" /\ UNCHANGED <<harm, stale>>
    BY <1>8 DEF EraseCopy, history
  <2> QED
    BY <2>1, <2>2 DEF CopiesLeft, Beyond
<1>9. CASE EraseCopyFails
  BY <1>9 DEF EraseCopyFails, CopiesLeft
<1>10. CASE WriteCopy
  <2>1. \A i \in Copy : IsTable(copy[i]) \/ Beyond(i) => IsTable(copy[i])'
    BY <1>0, <1>10 DEF WriteCopy, Beyond, IsTable
  <2>2. pc' # "copy_write" /\ pc' # "failed" /\ UNCHANGED <<harm, stale>>
    BY <1>10, LeavesCopy DEF WriteCopy, history
  <2> QED
    BY <2>1, <2>2 DEF CopiesLeft
<1>11. CASE WriteCopyFails
  <2>1. \A i \in Copy : i = k \/ (IsTable(copy[i]) \/ Beyond(i) => IsTable(copy[i])')
    BY <1>0, <1>11 DEF WriteCopyFails, Beyond, IsTable
  <2>2. pc' # "failed" /\ harm' = harm + 1 /\ UNCHANGED stale
    BY <1>11, LeavesCopy DEF WriteCopyFails
  <2>3. harm' \in Nat /\ harm' # 0 /\ (harm' = 1 => harm = 0)
    BY <2>2 DEF CopiesLeft
  <2> QED
    BY <1>0, <2>1, <2>2, <2>3 DEF CopiesLeft
<1>12. CASE PowerOff
  BY <1>1, <1>12 DEF PowerOff, Off, Updating, history
<1>13. CASE PowerOffInUpdate
  <2>1. \A i \in Copy : i = k \/ (IsTable(copy[i]) \/ Beyond(i) => IsTable(copy[i])')
    BY <1>0, <1>13 DEF PowerOffInUpdate, Beyond, IsTable
  <2>2. pc' = "off" /\ harm' = harm + 1 /\ UNCHANGED stale
    BY <1>13 DEF PowerOffInUpdate, Off
  <2>3. harm' \in Nat /\ harm' # 0 /\ (harm' = 1 => harm = 0)
    BY <2>2 DEF CopiesLeft
  <2> QED
    BY <1>0, <2>1, <2>2, <2>3 DEF CopiesLeft
<1>14. CASE UNCHANGED nandVars
  BY <1>14 DEF nandVars, update, history, CopiesLeft, IsTable, Beyond
<1> QED
  BY <1>2, <1>3, <1>4, <1>5, <1>6, <1>7, <1>8, <1>9, <1>10, <1>11, <1>12, <1>13, <1>14 DEF NandNext

\* A table is found at every start, while one update at most was cut short
\* or lost a copy and none refused to be erased.
THEOREM AlwaysStartsAgain == NandSpec => []StartsAgain
<1>1. NandInv /\ CopiesLeft => StartsAgain
  BY DEF CopiesLeft, StartsAgain
<1> QED
  BY <1>1, NandInvInit, NandInvNext, CopiesLeftInit, CopiesLeftNext, PTL DEF NandSpec

-----------------------------------------------------------------------------
(* What was written is read                                                *)

\* The faults under which data survive.
Fine == harm <= 1 /\ ~misread /\ ~stale

Filled(d) == [p \in Page |-> d]

\* Read through table t, a virtual block holds what was last written to it.
Holds(t) ==
    \A v \in Mapped : expect[v] # Unknown =>
        page[Chase(t, v2r[v])] = Filled(expect[v])

First(i) == IsTable(copy[i]) /\ \A j \in 1 .. i - 1 : ~IsTable(copy[j])

\* The write under way, and its handler.
Doing ==
    /\ job # "read"
    /\ ~Handling => job = "none"
    /\ pc \in {"erase", "write"} \/ job \in {"erase", "write"} => expect[virt] = Unknown
    /\ pc = "erase" \/ job = "erase" => at = 1

Written ==
    /\ pc = "write" => \A p \in 1 .. at - 1 : page[real][p] = data
    /\ job = "write" => \A p \in 1 .. at - 1 : page[bad][p] = data
    /\ Handling => real = spare /\ Listed(bad)

\* The copy that a start would take.
CopiesAgree ==
    /\ pc # "off" /\ ~Updating => \A i \in Copy : First(i) => copy[i] = Whole(bbt)
    /\ pc = "off" => \A i \in Copy : First(i) => Holds(copy[i].table)
    /\ harm = 0 /\ ~Updating => \A i \in Copy : copy[i] = Whole(bbt)

\* The copies above the one being rewritten are new, those below still old.
CopiesInUpdate ==
    Updating =>
        /\ \A i \in Copy : i < k => copy[i] \in {Whole(bbt), Bad}
        /\ harm = 0 => \A i \in Copy : i < k => copy[i] = Whole(bbt)
        /\ harm = 0 => \A i \in Copy :
              i >= k => Beyond(i) \/ (IsTable(copy[i]) /\ Holds(copy[i].table))

DataInv == Fine => Doing /\ Holds(bbt) /\ Written /\ CopiesAgree /\ CopiesInUpdate

\* Nothing has been written at the start,
LEMMA DataInvInit == NandInit => DataInv
<1> SUFFICES ASSUME NandInit PROVE DataInv
  OBVIOUS
<1> USE DEF NandInit
<1>1. Mapped \subseteq Virtual
  BY DEF Mapped
<1>2. Holds(bbt)
  BY <1>1 DEF Holds
<1>3. Doing /\ Written /\ CopiesAgree /\ CopiesInUpdate
  BY DEF Doing, Written, CopiesAgree, CopiesInUpdate, Handling, Updating, Whole
<1> QED
  BY <1>2, <1>3 DEF DataInv

\* A table keeps leading to the data as long as no step touches the blocks it
\* leads to.
LEMMA HoldsStill ==
    ASSUME NEW t, Holds(t), UNCHANGED v2r,
           \A v \in Mapped : expect'[v] # Unknown =>
              expect'[v] = expect[v] /\ page'[Chase(t, v2r[v])] = page[Chase(t, v2r[v])]
    PROVE  Holds(t)'
BY DEF Holds, Mapped

\* While the flash is left alone a table keeps leading to the data.
LEMMA HoldsAnyway ==
    ASSUME NEW t, Holds(t), UNCHANGED <<page, v2r, expect>>
    PROVE  Holds(t)'
BY DEF Holds, Mapped

\* A copy that is a table is one entirely.
LEMMA CopyWhole ==
    ASSUME NandInv, NEW i \in Copy, IsTable(copy[i])
    PROVE  copy[i] = Whole(copy[i].table)
<1>1. copy[i] \in [kind : {"table"}, table : Table]
  BY DEF NandInv, NandTypeOK, IsTable, Blank, Torn, Bad
<1> QED
  BY <1>1 DEF Whole

\* A step of a write that neither fails nor touches a table.
LEMMA CopiesStay ==
    ASSUME CopiesAgree, UNCHANGED <<copy, bbt, harm>>, pc # "off", ~Updating, pc' # "off", ~Updating'
    PROVE  CopiesAgree' /\ CopiesInUpdate'
<1>1. \A i \in Copy : First(i)' = First(i)
  BY DEF First, IsTable
<1>2. \A i \in Copy : copy'[i] = copy[i] /\ Whole(bbt)' = Whole(bbt)
  BY DEF Whole
<1>3. CopiesAgree'
  BY <1>1, <1>2 DEF CopiesAgree
<1> QED
  BY <1>3 DEF CopiesInUpdate

\* The block that a write failed on is put away, and its replacement is what
\* its virtual block leads to from now on; no other is led elsewhere.
LEMMA HandleHolds ==
    ASSUME NandInv, NandInv', Doing, Holds(bbt), Written, CopiesAgree, pc \in {"erase", "write"},
           Handle(pc, real)
    PROVE  Doing' /\ Holds(bbt)' /\ Written' /\ CopiesAgree' /\ CopiesInUpdate'
<1> USE DEF Handle
<1>1. /\ virt \in Mapped /\ ~Listed(real) /\ real \in Block
      /\ \A v \in Mapped : v # virt => rtkn_bbt_get_realpage(v) # real
  BY RealFacts DEF NandInv, Underway, real
<1>2. UNCHANGED <<page, v2r, expect, virt, data, at, copy, harm>>
  BY DEF request
<1>3. pc # "off" /\ ~Updating /\ ~Handling
  BY DEF Updating, Handling
<1>4. CASE ~ \E i \in 1 .. RBA : FreeEntry(i)
  <2>1. Idle /\ UNCHANGED bbt
    BY <1>1, <1>4
  <2>2. pc' = "idle" /\ job' = "none"
    BY <2>1 DEF Idle
  <2>3. Holds(bbt)'
    BY <1>2, <2>1, HoldsAnyway
  <2>4. CopiesAgree' /\ CopiesInUpdate'
    BY <1>2, <1>3, <2>1, <2>2, CopiesStay DEF Updating
  <2>5. Doing' /\ Written'
    BY <2>2 DEF Doing, Written, Handling
  <2> QED
    BY <2>3, <2>4, <2>5
<1>5. CASE \E i \in 1 .. RBA : FreeEntry(i)
  <2>1. PICK i \in 1 .. RBA :
           /\ FreeEntry(i)
           /\ bbt' = [bbt EXCEPT ![i].bad = real]
           /\ pc' = "copy_erase" /\ job' = pc /\ bad' = real
           /\ spare' = bbt[i].remap /\ k' = 1 /\ errors' = 0
    BY <1>1, <1>5
  <2>2. /\ FreeIn(bbt, i) /\ Ready(bbt) /\ \A l \in 1 .. RBA : bbt[l].bad # real
        /\ real \in Virtual \/ \E l \in 1 .. RBA : Used(bbt, l) /\ real = bbt[l].remap
    BY <1>1, <2>1, RealFacts
       DEF FreeIn, FreeEntry, Listed, NandInv, ReadyTables, Underway, real
  <2>3. Ready(bbt') /\ Enters(bbt, i, real, bbt')
    BY <1>1, <2>1, <2>2, ListedMore
  <2>4. \A v \in Mapped : v2r[v] \in Virtual
    BY RealFacts
  <2>5. \A v \in Mapped :
           Chase(bbt', v2r[v]) = IF Chase(bbt, v2r[v]) = real THEN bbt[i].remap ELSE Chase(bbt, v2r[v])
    BY <1>1, <2>2, <2>3, <2>4, ListedChase
  <2>6. \A v \in Mapped : v # virt => Chase(bbt', v2r[v]) = Chase(bbt, v2r[v])
    BY <1>1, <2>5 DEF rtkn_bbt_get_realpage
  <2>7. expect[virt] = Unknown
    BY DEF Doing
  <2>8. Holds(bbt)'
    <3>1. \A v \in Mapped : expect[v] # Unknown => page[Chase(bbt', v2r[v])] = Filled(expect[v])
      BY <2>6, <2>7 DEF Holds
    <3>2. Mapped' = Mapped
      BY <1>2 DEF Mapped
    <3>3. \A v \in Mapped : Filled(expect[v])' = Filled(expect[v])
      BY <1>2 DEF Filled
    <3> QED
      BY <1>2, <3>1, <3>2, <3>3 DEF Holds
  <2>9. real' = spare'
    <3>1. real' = Chase(bbt', v2r[virt])
      BY <1>2 DEF real, rtkn_bbt_get_realpage
    <3>2. real = Chase(bbt, v2r[virt])
      BY DEF real, rtkn_bbt_get_realpage
    <3> QED
      BY <1>1, <2>1, <2>5, <3>1, <3>2
  <2>10. Listed(bad)'
    BY <2>1, <2>3 DEF Enters, Listed
  <2>11. Written'
    BY <1>2, <2>1, <2>9, <2>10 DEF Written
  <2>12. Doing'
    BY <1>2, <2>1, <2>7 DEF Doing, Handling
  <2>13. CopiesAgree'
    BY <2>1 DEF CopiesAgree, Updating
  <2>14. CopiesInUpdate'
    <3>1. SUFFICES ASSUME harm = 0, NEW j \in Copy
                   PROVE  IsTable(copy[j])' /\ Holds(copy[j].table)'
      BY <1>2, <2>1 DEF CopiesInUpdate, Copy, BACKUP_BBT
    <3>2. copy[j] = Whole(bbt)
      BY <1>3, <3>1 DEF CopiesAgree
    <3>3. IsTable(copy[j]) /\ copy[j].table = bbt
      BY <3>2 DEF IsTable, Whole
    <3>4. Holds(copy[j].table)
      BY <3>3
    <3>5. Holds(copy[j].table)'
      BY <1>2, <3>4, HoldsAnyway
    <3> QED
      BY <1>2, <3>3, <3>5 DEF IsTable
  <2> QED
    BY <2>8, <2>11, <2>12, <2>13, <2>14
<1> QED
  BY <1>4, <1>5

\* A page more of the block under way: the blocks of others are left alone,
\* and after the last page the block holds what was to be written.
LEMMA PageMore ==
    ASSUME NandInv, NandInv', Holds(bbt), expect[virt] = Unknown, data \in Data,
           PageDone, UNCHANGED <<tables, virt, data>>,
           \A v \in Mapped : v # virt => page'[rtkn_bbt_get_realpage(v)] = page[rtkn_bbt_get_realpage(v)],
           \A p \in 1 .. at : page'[real][p] = data
    PROVE  /\ Holds(bbt)'
           /\ pc' \in {"idle", "write"}
           /\ pc' = "write" => expect'[virt] = Unknown /\ \A p \in 1 .. at' - 1 : page'[real'][p] = data
<1>0. /\ UNCHANGED bbt /\ UNCHANGED v2r /\ real' = real /\ real \in Block
      /\ virt \in Mapped /\ virt \in Virtual /\ at \in 1 .. Pages /\ Pages \in Nat
  BY RealFacts, NandAssumption
     DEF tables, real, rtkn_bbt_get_realpage, NandInv, NandTypeOK, Underway, Page
<1>1. \A v \in Mapped : v # virt => page'[Chase(bbt, v2r[v])] = page[Chase(bbt, v2r[v])]
  BY DEF rtkn_bbt_get_realpage
<1>2. CASE at < Pages
  <2>1. pc' = "write" /\ at' = at + 1 /\ UNCHANGED expect
    BY <1>2 DEF PageDone
  <2>2. Holds(bbt)'
    BY <1>0, <1>1, <2>1, HoldsStill
  <2>3. at' - 1 = at
    BY <1>0, <2>1
  <2> QED
    BY <1>0, <2>1, <2>2, <2>3
<1>3. CASE ~(at < Pages)
  <2>1. pc' = "idle" /\ expect' = [expect EXCEPT ![virt] = data]
    BY <1>3 DEF PageDone
  <2>2. at = Pages
    BY <1>0, <1>3
  <2>3. page' \in [Block -> [Page -> Data \cup {FF}]]
    BY DEF NandInv, NandTypeOK
  <2>4. page'[real] = Filled(data)
    <3>1. page'[real] = [p \in Page |-> page'[real][p]]
      BY <1>0, <2>3
    <3>2. \A p \in Page : page'[real][p] = data
      BY <2>2 DEF Page
    <3> QED
      BY <3>1, <3>2 DEF Filled
  <2>5. expect \in [Virtual -> Data \cup {Unknown}]
    BY DEF NandInv, NandTypeOK
  <2>6. ASSUME NEW v \in Mapped, expect'[v] # Unknown
        PROVE  page'[Chase(bbt, v2r[v])] = Filled(expect'[v])
    <3>1. CASE v = virt
      <4>1. expect'[v] = data
        BY <1>0, <2>1, <2>5, <3>1
      <4>2. Chase(bbt, v2r[v]) = real
        BY <3>1 DEF real, rtkn_bbt_get_realpage
      <4> QED
        BY <2>4, <4>1, <4>2
    <3>2. CASE v # virt
      <4>1. expect'[v] = expect[v]
        BY <2>1, <2>5, <3>2 DEF Mapped
      <4> QED
        BY <1>1, <2>6, <3>2, <4>1 DEF Holds
    <3> QED
      BY <3>1, <3>2
  <2>7. Mapped' = Mapped
    BY <1>0 DEF Mapped
  <2>8. \A v : Filled(expect[v])' = Filled(expect'[v])
    BY DEF Filled
  <2>9. Holds(bbt)'
    BY <1>0, <2>6, <2>7, <2>8 DEF Holds
  <2> QED
    BY <2>1, <2>9
<1> QED
  BY <1>2, <1>3

\* The replacement takes what the bad block held, and the bad block is led to
\* by none.
LEMMA Replaced ==
    ASSUME NandInv, Handling, Written, job \in {"erase", "write"},
           NEW row, page' = [page EXCEPT ![spare] = row, ![bad] = Erased]
    PROVE  /\ real = spare /\ page'[real] = row
           /\ \A v \in Mapped : v # virt =>
                 page'[rtkn_bbt_get_realpage(v)] = page[rtkn_bbt_get_realpage(v)]
<1>1. real = spare /\ Listed(bad) /\ virt \in Mapped /\ bad \in Block /\ spare \in Block
  BY Numbers DEF Written, NandInv, Underway
<1>2. \A v \in Mapped : rtkn_bbt_get_realpage(v) # bad
                        /\ (v # virt => rtkn_bbt_get_realpage(v) # spare)
                        /\ rtkn_bbt_get_realpage(v) \in Block
  BY <1>1, RealFacts DEF real
<1>3. spare # bad
  BY <1>1, <1>2 DEF real
<1>4. page \in [Block -> [Page -> Data \cup {FF}]]
  BY DEF NandInv, NandTypeOK
<1> QED
  BY <1>1, <1>2, <1>3, <1>4

\* The end of one copy: it is the table in RAM or is lost.
LEMMA CopyEnds ==
    ASSUME NandInv, Updating, Doing, Holds(bbt), Written, CopiesInUpdate,
           UNCHANGED <<page, tables, request, expect>>,
           NEW c \in {Whole(bbt), Bad}, copy' = [copy EXCEPT ![k] = c],
           harm' = 0 => harm = 0 /\ c # Bad,
           NEW failed \in {0, 1}, NextCopy(failed)
    PROVE  Doing' /\ Holds(bbt)' /\ Written' /\ CopiesAgree' /\ CopiesInUpdate'
<1>0. /\ UNCHANGED <<bbt, v2r, virt, data, at>> /\ real' = real /\ Whole(bbt)' = Whole(bbt)
      /\ \A b : Listed(b)' = Listed(b)
  BY DEF tables, request, real, rtkn_bbt_get_realpage, Whole, Listed
<1>1. Holds(bbt)'
  BY <1>0, HoldsAnyway
<1>2. /\ k \in 1 .. 3 /\ Copy = 1 .. 3 /\ BACKUP_BBT = 3
      /\ \A i \in Copy : copy'[i] = IF i = k THEN c ELSE copy[i]
  BY DEF NandInv, NandTypeOK, Copy, BACKUP_BBT
<1>3. \A i \in Copy : i < k \/ i = k => copy'[i] \in {Whole(bbt), Bad}
                                        /\ (harm' = 0 => copy'[i] = Whole(bbt))
  <2>1. SUFFICES ASSUME NEW i \in Copy, i < k \/ i = k
                 PROVE  copy'[i] \in {Whole(bbt), Bad} /\ (harm' = 0 => copy'[i] = Whole(bbt))
    OBVIOUS
  <2>2. CASE i = k
    BY <1>2, <2>2
  <2>3. CASE i # k
    <3>1. i < k /\ copy'[i] = copy[i]
      BY <1>2, <2>1, <2>3
    <3> QED
      BY <3>1 DEF CopiesInUpdate
  <2> QED
    BY <2>2, <2>3
<1>4. Handling
  BY DEF Updating, Handling
<1>5. CASE k < 3
  <2>1. pc' = "copy_erase" /\ k' = k + 1 /\ UNCHANGED <<job, bad, spare>>
    BY <1>2, <1>5 DEF NextCopy
  <2>2. Doing' /\ Written' /\ CopiesAgree'
    BY <1>0, <1>4, <2>1 DEF Doing, Written, CopiesAgree, Handling, Updating
  <2>3. \A i \in Copy : (i < k' <=> i < k \/ i = k) /\ (i >= k' <=> i >= k /\ i # k)
    BY <1>2, <2>1
  <2>4. ASSUME harm' = 0, NEW i \in Copy, i >= k'
        PROVE  IsTable(copy'[i]) /\ Holds(copy[i].table)' /\ copy'[i] = copy[i]
    <3>1. i >= k /\ i # k /\ copy'[i] = copy[i]
      BY <1>2, <2>3, <2>4
    <3>2. IsTable(copy[i]) /\ Holds(copy[i].table)
      BY <2>4, <3>1 DEF CopiesInUpdate, Beyond
    <3>3. PICK t : t = copy[i].table
      OBVIOUS
    <3>4. Holds(t)'
      BY <1>0, <3>2, <3>3, HoldsAnyway
    <3> QED
      BY <3>1, <3>2, <3>3, <3>4 DEF IsTable
  <2>5. CopiesInUpdate'
    <3>1. \A i \in Copy : i < k' => copy'[i] \in {Whole(bbt)', Bad}
                                   /\ (harm' = 0 => copy'[i] = Whole(bbt)')
      BY <1>0, <1>3, <2>3
    <3>2. \A i \in Copy : harm' = 0 /\ i >= k' => IsTable(copy[i])' /\ Holds(copy[i].table)'
      BY <2>4 DEF IsTable
    <3> QED
      BY <3>1, <3>2 DEF CopiesInUpdate
  <2> QED
    BY <1>1, <2>2, <2>5
<1>6. CASE ~(k < 3)
  <2>1. /\ \/ pc' = "finish" /\ UNCHANGED <<job, bad, spare>>
           \/ pc' = "idle" /\ job' = "none"
        /\ \A i \in Copy : i < k \/ i = k
    BY <1>2, <1>6 DEF NextCopy, Idle
  <2>2. Doing' /\ Written' /\ CopiesInUpdate'
    BY <1>0, <1>4, <2>1 DEF Doing, Written, CopiesInUpdate, Handling, Updating
  <2>3. \A i \in Copy : First(i)' => copy'[i] = Whole(bbt)'
    BY <1>0, <1>3, <2>1 DEF First, IsTable, Bad
  <2>4. CopiesAgree'
    BY <1>0, <1>3, <2>1, <2>3 DEF CopiesAgree
  <2> QED
    BY <1>1, <2>2, <2>4
<1> QED
  BY <1>5, <1>6

\* and every step keeps what was.
LEMMA DataInvNext == NandInv /\ NandInv' /\ CopiesLeft /\ DataInv /\ [NandNext]_nandVars => DataInv'
<1> SUFFICES ASSUME NandInv, NandInv', CopiesLeft, DataInv, [NandNext]_nandVars, Fine'
             PROVE  Doing' /\ Holds(bbt)' /\ Written' /\ CopiesAgree' /\ CopiesInUpdate'
  BY DEF DataInv
<1> DEFINE Kept == Doing /\ Holds(bbt) /\ Written /\ CopiesAgree /\ CopiesInUpdate
<1>1. Fine
  <2>1. harm' \in {harm, harm + 1} /\ (misread => misread') /\ (stale => stale')
    BY DEF NandNext, nandVars, history, LoadTable, CreateTable, ReadFails, nflashWriteBlock, Erase,
           WritePage, EraseFails, WriteFails, Handle, rtk_remapBBT_write_fail,
           rtk_remapBBT_erase_fail, rtk_remapBBT_read_fail, EraseCopy, EraseCopyFails,
           WriteCopy, WriteCopyFails, PowerOff, PowerOffInUpdate
  <2>2. harm \in Nat
    BY DEF CopiesLeft
  <2> QED
    BY <2>1, <2>2 DEF Fine
<1>2. Doing /\ Holds(bbt) /\ Written /\ CopiesAgree /\ CopiesInUpdate
  BY <1>1 DEF DataInv
<1>3. /\ \A v \in Mapped : v # virt => rtkn_bbt_get_realpage(v) # real
      /\ real \in Block /\ virt \in Virtual /\ page \in [Block -> [Page -> Data \cup {FF}]]
      /\ expect \in [Virtual -> Data \cup {Unknown}] /\ Mapped \subseteq Virtual
  BY RealFacts DEF NandInv, NandTypeOK, Underway, real, Mapped
<1>4. CASE LoadTable
  <2>1. PICK i \in Copy :
           /\ IsTable(copy[i]) /\ \A j \in 1 .. i - 1 : ~IsTable(copy[j])
           /\ bbt' = copy[i].table
    BY <1>4 DEF LoadTable
  <2>2. /\ pc = "off" /\ pc' = "idle" /\ ~Handling /\ ~Updating
        /\ UNCHANGED <<page, v2r, expect, harm, job, copy>>
    BY <1>4 DEF LoadTable, Handling, Updating, update, history
  <2>3. PICK t : t = copy[i].table
    OBVIOUS
  <2>4. Holds(t)
    BY <1>2, <2>1, <2>2, <2>3 DEF CopiesAgree, First
  <2>5. Holds(bbt)'
    BY <2>1, <2>2, <2>3, <2>4, HoldsAnyway
  <2>6. Doing' /\ Written' /\ CopiesInUpdate'
    BY <1>2, <2>2 DEF Doing, Written, CopiesInUpdate, Handling, Updating
  <2>7. i \in 1 .. 3 /\ Copy = 1 .. 3
    BY DEF Copy, BACKUP_BBT
  <2>8. copy[i] = Whole(bbt')
    BY <2>1, CopyWhole
  <2>9. \A j \in Copy : First(j) => copy[j] = Whole(bbt')
    <3>1. SUFFICES ASSUME NEW j \in Copy, First(j) PROVE j = i
      BY <2>8
    <3>2. IsTable(copy[j]) /\ \A l \in 1 .. j - 1 : ~IsTable(copy[l])
      BY <3>1 DEF First
    <3>3. (j < i => j \in 1 .. i - 1) /\ (i < j => i \in 1 .. j - 1)
      BY <2>7
    <3> QED
      BY <2>1, <2>7, <3>2, <3>3
  <2>10. harm = 0 => \A j \in Copy : copy[j] = Whole(bbt')
    <3>1. SUFFICES ASSUME harm = 0 PROVE \A j \in Copy : copy[j] = Whole(bbt')
      OBVIOUS
    <3>2. \A j \in Copy : copy[j] = Whole(bbt)
      BY <1>2, <2>2, <3>1 DEF CopiesAgree
    <3> QED
      BY <2>8, <3>2
  <2>11. CopiesAgree'
    BY <2>2, <2>9, <2>10 DEF CopiesAgree, First, Whole
  <2> QED
    BY <2>5, <2>6, <2>11
<1>5. CASE CreateTable
  BY <1>1, <1>5, FoundAgain DEF CreateTable, Fine
<1>6. ASSUME NEW v \in Mapped, ReadFails(v) PROVE FALSE
  BY <1>6 DEF ReadFails, Fine
<1>7. ASSUME NEW v \in Mapped, NEW d \in Data, nflashWriteBlock(v, d)
      PROVE  Kept'
  <2>1. /\ pc = "idle" /\ pc' = "erase" /\ virt' = v /\ at' = 1
        /\ UNCHANGED <<page, copy, bbt, v2r, job, harm>>
        /\ expect' = [expect EXCEPT ![v] = Unknown]
    BY <1>7 DEF nflashWriteBlock, tables, update
  <2>2. expect'[v] = Unknown /\ \A w \in Mapped : expect'[w] # Unknown => expect'[w] = expect[w]
    BY <1>3, <2>1
  <2>3. Holds(bbt)'
    BY <1>2, <2>1, <2>2, HoldsStill
  <2>4. CopiesAgree' /\ CopiesInUpdate'
    BY <1>2, <2>1, CopiesStay DEF Updating
  <2>5. Doing' /\ Written'
    BY <1>2, <2>1, <2>2 DEF Doing, Written, Handling
  <2> QED
    BY <2>3, <2>4, <2>5
<1>8. CASE Erase
  <2>1. /\ pc = "erase" /\ pc' = "write" /\ UNCHANGED <<copy, bbt, v2r, virt, at, job, harm, expect>>
        /\ page' = [page EXCEPT ![real] = Erased]
    BY <1>8 DEF Erase, tables, request, update, history
  <2>2. \A v \in Mapped : v # virt => page'[Chase(bbt, v2r[v])] = page[Chase(bbt, v2r[v])]
    BY <1>3, <2>1, RealFacts DEF rtkn_bbt_get_realpage
  <2>3. Holds(bbt)'
    BY <1>2, <2>1, <2>2, HoldsStill DEF Doing
  <2>4. CopiesAgree' /\ CopiesInUpdate'
    BY <1>2, <2>1, CopiesStay DEF Updating
  <2>5. at' = 1 /\ ~ \E p \in 1 .. at' - 1 : TRUE
    BY <1>2, <2>1 DEF Doing
  <2>6. Doing' /\ Written'
    BY <1>2, <2>1, <2>5 DEF Doing, Written, Handling
  <2> QED
    BY <2>3, <2>4, <2>6
<1>9. CASE WritePage
  <2>1. /\ pc = "write" /\ PageDone /\ UNCHANGED <<copy, tables, virt, data, job, harm>>
        /\ page' = [page EXCEPT ![real][at] = data]
    BY <1>9 DEF WritePage, update
  <2>2. \A v \in Mapped : v # virt => page'[rtkn_bbt_get_realpage(v)] = page[rtkn_bbt_get_realpage(v)]
    BY <1>3, <2>1, RealFacts
  <2>3. \A p \in 1 .. at : page'[real][p] = data
    <3>1. at \in 1 .. Pages /\ Pages \in Nat /\ page[real] \in [1 .. Pages -> Data \cup {FF}]
      BY <1>3, NandAssumption DEF NandInv, NandTypeOK, Page
    <3>2. \A p \in 1 .. at : p \in 1 .. Pages /\ (p = at \/ p \in 1 .. at - 1)
      BY <3>1
    <3>3. \A p \in 1 .. Pages : page'[real][p] = IF p = at THEN data ELSE page[real][p]
      BY <1>3, <2>1, <3>1
    <3> QED
      BY <1>2, <2>1, <3>2, <3>3 DEF Written
  <2>4. expect[virt] = Unknown /\ data \in Data /\ job = "none"
    BY <1>2, <2>1 DEF Doing, NandInv, Underway, Handling
  <2>5. /\ Holds(bbt)' /\ pc' \in {"idle", "write"}
        /\ pc' = "write" => expect'[virt] = Unknown /\ \A p \in 1 .. at' - 1 : page'[real'][p] = data
    BY <1>2, <2>1, <2>2, <2>3, <2>4, PageMore
  <2>6. CopiesAgree' /\ CopiesInUpdate'
    BY <1>2, <2>1, <2>5, CopiesStay DEF Updating, tables
  <2>7. Doing' /\ Written'
    BY <2>1, <2>4, <2>5 DEF Doing, Written, Handling
  <2> QED
    BY <2>5, <2>6, <2>7
<1>10. CASE EraseFails \/ WriteFails
  BY <1>2, <1>10, HandleHolds DEF EraseFails, WriteFails
<1>11. CASE rtk_remapBBT_write_fail
  <2> DEFINE row == [p \in Page |-> IF p < at THEN page[bad][p] ELSE IF p = at THEN data ELSE FF]
  <2>1. /\ pc = "finish" /\ job = "write" /\ job' = "none" /\ PageDone
        /\ UNCHANGED <<copy, tables, virt, data, harm>>
        /\ page' = [page EXCEPT ![spare] = row, ![bad] = Erased]
    BY <1>11 DEF rtk_remapBBT_write_fail, Finish
  <2>2. Handling /\ ~Updating
    BY <2>1 DEF Handling, Updating
  <2>3. \A p \in 1 .. at : row[p] = data
    <3>1. at \in 1 .. Pages /\ Pages \in Nat
      BY NandAssumption DEF NandInv, NandTypeOK, Page
    <3>2. \A p \in 1 .. at : p \in Page /\ (p = at \/ (p < at /\ p \in 1 .. at - 1))
      BY <3>1 DEF Page
    <3>3. \A p \in 1 .. at - 1 : page[bad][p] = data
      BY <1>2, <2>1 DEF Written
    <3>4. ~(at < at)
      BY <3>1
    <3> QED
      BY <3>2, <3>3, <3>4
  <2> HIDE DEF row
  <2>4. /\ page'[real] = row
        /\ \A v \in Mapped : v # virt =>
              page'[rtkn_bbt_get_realpage(v)] = page[rtkn_bbt_get_realpage(v)]
    BY <1>2, <2>1, <2>2, Replaced
  <2>5. expect[virt] = Unknown /\ data \in Data
    BY <1>2, <2>1 DEF Doing, NandInv, Underway
  <2>6. /\ Holds(bbt)' /\ pc' \in {"idle", "write"}
        /\ pc' = "write" => expect'[virt] = Unknown /\ \A p \in 1 .. at' - 1 : page'[real'][p] = data
    BY <1>2, <2>1, <2>3, <2>4, <2>5, PageMore
  <2>7. CopiesAgree' /\ CopiesInUpdate'
    BY <1>2, <2>1, <2>2, <2>6, CopiesStay DEF Updating, tables
  <2>8. Doing' /\ Written'
    BY <2>1, <2>6 DEF Doing, Written, Handling
  <2> QED
    BY <2>6, <2>7, <2>8
<1>12. CASE rtk_remapBBT_erase_fail
  <2>1. /\ pc = "finish" /\ job = "erase" /\ job' = "none" /\ pc' = "write"
        /\ UNCHANGED <<copy, bbt, v2r, virt, data, at, harm, expect>>
        /\ page' = [page EXCEPT ![spare] = Erased, ![bad] = Erased]
    BY <1>12 DEF rtk_remapBBT_erase_fail, Finish, tables, request, history
  <2>2. Handling /\ ~Updating
    BY <2>1 DEF Handling, Updating
  <2>3. \A v \in Mapped : v # virt => page'[Chase(bbt, v2r[v])] = page[Chase(bbt, v2r[v])]
    BY <1>2, <2>1, <2>2, Replaced DEF rtkn_bbt_get_realpage
  <2>4. expect[virt] = Unknown /\ at = 1
    BY <1>2, <2>1 DEF Doing
  <2>5. Holds(bbt)'
    BY <1>2, <2>1, <2>3, <2>4, HoldsStill
  <2>6. CopiesAgree' /\ CopiesInUpdate'
    BY <1>2, <2>1, <2>2, CopiesStay DEF Updating
  <2>7. ~ \E p \in 1 .. at' - 1 : TRUE
    BY <2>1, <2>4
  <2>8. Doing' /\ Written'
    BY <2>1, <2>4, <2>7 DEF Doing, Written, Handling
  <2> QED
    BY <2>5, <2>6, <2>8
<1>13. CASE rtk_remapBBT_read_fail
  BY <1>2, <1>13 DEF rtk_remapBBT_read_fail, Doing
<1>14. CASE EraseCopy
  <2>1. /\ pc = "copy_erase" /\ pc' = "copy_write" /\ copy' = [copy EXCEPT ![k] = Blank]
        /\ UNCHANGED <<page, bbt, v2r, virt, data, at, job, bad, spare, k, expect, harm>>
    BY <1>14 DEF EraseCopy, tables, request, update, history
  <2>2. Holds(bbt)'
    BY <1>2, <2>1, HoldsAnyway
  <2>3. Doing' /\ Written' /\ CopiesAgree'
    BY <1>2, <2>1 DEF Doing, Written, CopiesAgree, Handling, Updating, Listed, real, rtkn_bbt_get_realpage
  <2>4. /\ k \in 1 .. 3 /\ Copy = 1 .. 3
        /\ \A i \in Copy : i # k => copy'[i] = copy[i]
    BY <2>1 DEF NandInv, NandTypeOK, Copy, BACKUP_BBT
  <2>5. Updating /\ Whole(bbt)' = Whole(bbt)
    BY <2>1 DEF Updating, Whole
  <2>6. \A i \in Copy : i < k => copy'[i] = copy[i]
    BY <2>4
  <2>7. ASSUME harm = 0, NEW i \in Copy, i >= k
        PROVE  Beyond(i)' \/ (IsTable(copy[i])' /\ Holds(copy[i].table)')
    <3>1. CASE i = k
      BY <2>1, <3>1 DEF Beyond
    <3>2. CASE i # k
      <4>1. IsTable(copy[i]) /\ Holds(copy[i].table) /\ copy'[i] = copy[i]
        BY <1>2, <2>4, <2>5, <2>7, <3>2 DEF CopiesInUpdate, Beyond
      <4>2. PICK t : t = copy[i].table
        OBVIOUS
      <4>3. Holds(t)'
        BY <2>1, <4>1, <4>2, HoldsAnyway
      <4> QED
        BY <4>1, <4>2, <4>3 DEF IsTable
    <3> QED
      BY <3>1, <3>2
  <2>8. CopiesInUpdate'
    BY <1>2, <2>1, <2>5, <2>6, <2>7 DEF CopiesInUpdate
  <2> QED
    BY <2>2, <2>3, <2>8
<1>15. CASE EraseCopyFails
  BY <1>15 DEF EraseCopyFails, Fine
<1>16. CASE WriteCopy
  <2>1. /\ Updating /\ UNCHANGED <<page, tables, request, expect, harm>> /\ NextCopy(0)
        /\ copy' = [copy EXCEPT ![k] = Whole(bbt)]
    BY <1>16 DEF WriteCopy, Updating, history
  <2>2. Whole(bbt) # Bad
    BY DEF Whole, Bad
  <2> QED
    BY <1>2, <2>1, <2>2, CopyEnds
<1>17. CASE WriteCopyFails
  <2>1. /\ Updating /\ UNCHANGED <<page, tables, request, expect>> /\ NextCopy(1)
        /\ copy' = [copy EXCEPT ![k] = Bad] /\ harm' = harm + 1
    BY <1>17 DEF WriteCopyFails, Updating
  <2>2. harm' # 0
    BY <2>1 DEF CopiesLeft
  <2> QED
    BY <1>2, <2>1, <2>2, CopyEnds
<1>18. CASE PowerOff
  <2>1. /\ pc # "off" /\ ~Updating /\ pc' = "off" /\ job' = "none"
        /\ UNCHANGED <<page, bbt, v2r, copy, expect, harm>>
    BY <1>18 DEF PowerOff, Off, tables, history
  <2>2. Holds(bbt)'
    BY <1>2, <2>1, HoldsAnyway
  <2>3. Doing' /\ Written' /\ CopiesInUpdate'
    BY <2>1 DEF Doing, Written, CopiesInUpdate, Handling, Updating
  <2>4. \A i \in Copy : First(i)' => copy'[i] = Whole(bbt)
    BY <1>2, <2>1 DEF CopiesAgree, First, IsTable
  <2>5. \A i \in Copy : First(i)' => Holds(copy[i].table)'
    BY <2>1, <2>2, <2>4 DEF Whole
  <2>6. CopiesAgree'
    BY <1>2, <2>1, <2>5 DEF CopiesAgree, Whole
  <2> QED
    BY <2>2, <2>3, <2>6
<1>19. CASE PowerOffInUpdate
  <2>1. /\ Updating /\ pc' = "off" /\ job' = "none" /\ harm' = harm + 1
        /\ UNCHANGED <<page, bbt, v2r, expect>>
    BY <1>19 DEF PowerOffInUpdate, Off, tables
  <2>2. harm = 0 /\ harm' # 0
    BY <2>1 DEF CopiesLeft, Fine
  <2>3. Holds(bbt)'
    BY <1>2, <2>1, HoldsAnyway
  <2>4. Doing' /\ Written' /\ CopiesInUpdate'
    BY <2>1 DEF Doing, Written, CopiesInUpdate, Handling, Updating
  <2>5. ASSUME NEW i \in Copy, IsTable(copy'[i])
        PROVE  Holds(copy[i].table)'
    <3>1. ~Beyond(i) /\ copy'[i] = copy[i]
      BY <1>19, <2>5 DEF PowerOffInUpdate, NandInv, NandTypeOK, Beyond, IsTable, Blank, Torn
    <3>2. k \in 1 .. 3 /\ i \in 1 .. 3
      BY DEF NandInv, NandTypeOK, Copy, BACKUP_BBT
    <3>3. CASE i < k
      <4>1. copy[i] = Whole(bbt)
        BY <1>2, <2>1, <2>2, <3>3 DEF CopiesInUpdate
      <4>2. copy'[i].table = bbt'
        BY <2>1, <3>1, <4>1 DEF Whole
      <4> QED
        BY <2>3, <4>2
    <3>4. CASE i >= k
      <4>1. Holds(copy[i].table)
        BY <1>2, <2>1, <2>2, <3>1, <3>4 DEF CopiesInUpdate
      <4>2. PICK t : t = copy[i].table
        OBVIOUS
      <4>3. Holds(t)'
        BY <2>1, <4>1, <4>2, HoldsAnyway
      <4> QED
        BY <3>1, <4>2, <4>3
    <3> QED
      BY <3>2, <3>3, <3>4
  <2>6. \A i \in Copy : First(i)' => Holds(copy[i].table)'
    BY <2>5 DEF First, IsTable
  <2>7. CopiesAgree'
    BY <2>1, <2>2, <2>6 DEF CopiesAgree, Updating
  <2> QED
    BY <2>3, <2>4, <2>7
<1>20. CASE UNCHANGED nandVars
  <2>1. UNCHANGED <<page, copy, v2r, bbt, pc, job, virt, data, at, bad, spare, k, errors, expect, harm>>
    BY <1>20 DEF nandVars, tables, request, update, history
  <2>2. Holds(bbt)'
    BY <1>2, <2>1, HoldsAnyway
  <2>3. Doing' /\ Written'
    BY <1>2, <2>1 DEF Doing, Written, Handling, Listed, real, rtkn_bbt_get_realpage
  <2>4. \A i \in Copy : Holds(copy[i].table) => Holds(copy[i].table)'
    <3>1. SUFFICES ASSUME NEW i \in Copy, Holds(copy[i].table) PROVE Holds(copy[i].table)'
      OBVIOUS
    <3>2. PICK t : t = copy[i].table
      OBVIOUS
    <3> QED
      BY <2>1, <3>1, <3>2, HoldsAnyway
  <2>5. CopiesAgree'
    BY <1>2, <2>1, <2>4 DEF CopiesAgree, Updating, First, IsTable, Whole
  <2>6. CopiesInUpdate'
    BY <1>2, <2>1, <2>4 DEF CopiesInUpdate, Updating, Beyond, IsTable, Whole
  <2> QED
    BY <2>2, <2>3, <2>5, <2>6
<1> QED
  BY <1>4, <1>5, <1>6, <1>7, <1>8, <1>9, <1>10, <1>11, <1>12, <1>13, <1>14, <1>15, <1>16, <1>17,
     <1>18, <1>19, <1>20 DEF NandNext

\* What was written is what is read, while one update at most was cut short
\* or lost a copy, none refused to be erased, and no read failed.
THEOREM AlwaysReadBack == NandSpec => []ReadBack
<1>1. DataInv => ReadBack
  BY DEF DataInv, Fine, Holds, Filled, ReadBack, rtkn_bbt_get_realpage
<1>2. NandInit => NandInv /\ CopiesLeft /\ DataInv
  BY NandInvInit, CopiesLeftInit, DataInvInit
<1>3. NandInv /\ CopiesLeft /\ DataInv /\ [NandNext]_nandVars => (NandInv /\ CopiesLeft /\ DataInv)'
  BY NandInvNext, CopiesLeftNext, DataInvNext
<1> QED
  BY <1>1, <1>2, <1>3, PTL DEF NandSpec
=============================================================================
