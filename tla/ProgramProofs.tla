--------------------------- MODULE ProgramProofs ----------------------------
(***************************************************************************)
(* Proofs about modules Process, UserMode and Elf, for tables,             *)
(* distances between stacks, programs and numbers of frames of any size.   *)
(***************************************************************************)
EXTENDS UserMode, Elf, FiniteSetTheorems, WellFoundedInduction, TLAPS

\* Zenon, which knows no arithmetic, is tried first; a leaf beyond it names SMT.
USE ZenonT(60), SMTT(60)

-----------------------------------------------------------------------------
(* The process table.                                                      *)

Record == [pid : Pids, state : {"READY", "TERMINATED"}, parent_pid : Pids, child_count : Nat]

Table ==
  /\ processes \in [Pids -> Record]
  /\ current_pid \in Pids
  /\ Terminated(0)
  /\ \A p \in Live : processes[p].pid = p

Counted ==
  /\ process_count \in 0 .. MAX_PROCESSES
  /\ process_count = Cardinality(Live)

\* The search of process_create ends at a free slot.
LEMMA FirstFreeIsFree ==
  ASSUME FreeSlots # {}
  PROVE  FirstFree \in FreeSlots
<1>1. FreeSlots \in SUBSET Nat
  BY ProcessConstants, SMTT(60) DEF FreeSlots, Pids
<1>2. PICK x \in FreeSlots : \A y \in FreeSlots : ~(<<y, x>> \in OpToRel(<, Nat))
  BY <1>1, NatLessThanWellFounded, WFMin
<1>3. \A y \in FreeSlots : ~(y < x)
  BY <1>1, <1>2 DEF OpToRel
<1>4. \A y \in FreeSlots : x <= y
  BY <1>1, <1>3, SMTT(60)
<1>. QED
  BY <1>4 DEF FirstFree

\* The live processes are finitely many.
LEMMA LiveFinite == IsFiniteSet(Live) /\ Cardinality(Live) \in Nat
<1>1. IsFiniteSet(Pids)
  BY ProcessConstants, FS_Interval, SMTT(60) DEF Pids
<1>2. IsFiniteSet(Live)
  BY <1>1, FS_Subset DEF Live
<1>. QED
  BY <1>2, FS_CardinalityType

\* What process_create makes of the table.
LEMMA CreatedTable ==
  ASSUME Table, NEW n \in Pids
  PROVE  /\ Created(n) \in [Pids -> Record]
         /\ Created(n)[n].pid = n /\ Created(n)[n].state = "READY"
         /\ \A p \in Pids \ {n} : /\ Created(n)[p].pid = processes[p].pid
                                  /\ Created(n)[p].state = processes[p].state
<1> DEFINE rec == [pid |-> n, state |-> "READY", parent_pid |-> current_pid, child_count |-> 0]
           new == [processes EXCEPT ![n] = rec]
           old == new[current_pid]
           par == [old EXCEPT !.child_count = old.child_count + 1]
<1>1. rec \in Record /\ rec.pid = n /\ rec.state = "READY"
  BY DEF Table, Record
<1> HIDE DEF rec
<1>2. /\ new \in [Pids -> Record] /\ new[n] = rec
      /\ \A p \in Pids \ {n} : new[p] = processes[p]
  BY <1>1 DEF Table
<1> HIDE DEF new
<1>3. old \in Record
  BY <1>2 DEF Table
<1> HIDE DEF old
<1>4. par \in Record /\ par.pid = old.pid /\ par.state = old.state
  BY <1>3, SMTT(60) DEF Record
<1> HIDE DEF par
<1>5. Created(n) = IF current_pid = 0 THEN new ELSE [new EXCEPT ![current_pid] = par]
  BY DEF Created, new, rec, par, old
<1>6. CASE current_pid = 0
  BY <1>1, <1>2, <1>5, <1>6
<1>7. CASE current_pid # 0
  <2>1. Created(n) = [new EXCEPT ![current_pid] = par]
    BY <1>5, <1>7
  <2>2. Created(n) \in [Pids -> Record]
    BY <1>2, <1>4, <2>1 DEF Table
  <2>3. \A p \in Pids : Created(n)[p].pid = new[p].pid /\ Created(n)[p].state = new[p].state
    BY <1>2, <1>4, <2>1 DEF Table, old
  <2>. QED
    BY <1>1, <1>2, <2>2, <2>3
<1>. QED
  BY <1>6, <1>7

\* A creation adds its slot to the live ones.
LEMMA CreateKeepsTable ==
  ASSUME Table, Counted, NEW refused, process_create(refused)
  PROVE  /\ Table' /\ Counted'
         /\ FirstFree \in Pids \ {0} /\ FirstFree \notin Live
         /\ Live' = Live \cup {FirstFree}
<1> DEFINE n == FirstFree
<1>1. n \in Pids \ {0} /\ Terminated(n)
  BY FirstFreeIsFree DEF process_create, FreeSlots
<1>2. /\ processes' = Created(n) /\ current_pid' = current_pid
      /\ process_count' = process_count + 1 /\ process_count < MAX_PROCESSES
  BY DEF process_create
<1> HIDE DEF n
<1>3. /\ processes' \in [Pids -> Record]
      /\ processes'[n].pid = n /\ processes'[n].state = "READY"
      /\ \A p \in Pids \ {n} : /\ processes'[p].pid = processes[p].pid
                               /\ processes'[p].state = processes[p].state
  BY <1>1, <1>2, CreatedTable
<1>4. Live' = Live \cup {n}
  BY <1>1, <1>3 DEF Live, Terminated
<1>5. n \notin Live
  BY <1>1 DEF Live
<1>6. Table'
  <2>1. Terminated(0)'
    BY <1>1, <1>3, ProcessConstants, SMTT(60) DEF Table, Terminated, Pids
  <2>2. ASSUME NEW p \in Live' PROVE processes'[p].pid = p
    <3>1. CASE p = n
      BY <1>3, <3>1
    <3>2. CASE p # n
      BY <1>3, <1>4, <2>2, <3>2 DEF Table, Live
    <3>. QED
      BY <3>1, <3>2
  <2>. QED
    BY <1>2, <1>3, <2>1, <2>2 DEF Table
<1>7. Counted'
  <2>1. Cardinality(Live') = Cardinality(Live) + 1
    BY <1>4, <1>5, LiveFinite, FS_AddElement
  <2>. QED
    BY <1>2, <2>1, LiveFinite, ProcessConstants, SMTT(60) DEF Counted
<1>. QED
  BY <1>1, <1>4, <1>5, <1>6, <1>7 DEF n

\* An exit takes its slot from them.
LEMMA ExitKeepsTable ==
  ASSUME Table, Counted, NEW p \in Pids, process_exit(p)
  PROVE  Table' /\ Counted' /\ Live' \subseteq Live
<1>1. /\ ~Terminated(p)
      /\ processes' = [processes EXCEPT ![p].state = "TERMINATED"]
      /\ process_count' = process_count - 1 /\ current_pid' = current_pid
  BY DEF process_exit
<1>2. /\ processes' \in [Pids -> Record]
      /\ \A q \in Pids : processes'[q].pid = processes[q].pid
      /\ processes'[p].state = "TERMINATED"
      /\ \A q \in Pids \ {p} : processes'[q].state = processes[q].state
  <2> DEFINE rec == [processes[p] EXCEPT !.state = "TERMINATED"]
  <2>1. rec \in Record /\ rec.pid = processes[p].pid /\ rec.state = "TERMINATED"
    BY SMTT(60) DEF Table, Record
  <2>2. processes' = [processes EXCEPT ![p] = rec]
    BY <1>1
  <2> HIDE DEF rec
  <2>. QED
    BY <2>1, <2>2 DEF Table
<1>3. Live' = Live \ {p} /\ p \in Live
  BY <1>1, <1>2 DEF Live, Terminated
<1>4. Table'
  BY <1>1, <1>2, <1>3, SMTT(60) DEF Table, Terminated, Live
<1>5. Counted'
  <2>1. Cardinality(Live') = Cardinality(Live) - 1
    BY <1>3, LiveFinite, FS_RemoveElement
  <2>2. Cardinality(Live') \in Nat
    BY <1>3, LiveFinite, FS_RemoveElement, FS_CardinalityType
  <2>. QED
    BY <1>1, <2>1, <2>2, ProcessConstants, SMTT(60) DEF Counted
<1>. QED
  BY <1>3, <1>4, <1>5

-----------------------------------------------------------------------------
(* The stacks.                                                             *)

\* The tops of two stacks are a whole stride apart.
LEMMA TopsApart ==
  ASSUME NEW p \in Nat, NEW q \in Nat, p < q
  PROVE  p * STRIDE \in Nat /\ q * STRIDE \in Nat /\ p * STRIDE + STRIDE <= q * STRIDE
<1>1. STRIDE \in Nat
  BY ProcessConstants
<1>2. (q - p - 1) * STRIDE \in Nat
  <2>1. q - p - 1 \in Nat
    BY SMTT(60)
  <2>. QED
    BY <1>1, <2>1, SMTT(60)
<1>3. (q - p - 1) * STRIDE = q * STRIDE - p * STRIDE - STRIDE
  BY <1>1, SMTT(60)
<1>. QED
  BY <1>1, <1>2, <1>3, SMTT(60)

\* Where a stack ends.
LEMMA Tops ==
  ASSUME NEW kind \in {"kernel", "user"}, NEW p \in Pids
  PROVE  /\ StackTop(kind, p) \in Nat
         /\ kind = "user" /\ p # 0 => StackTop(kind, p) >= STRIDE
         /\ \A q \in Pids : p < q => StackTop(kind, p) + STRIDE <= StackTop(kind, q)
<1>1. p \in Nat /\ p + 1 \in Nat /\ STRIDE \in Nat
  BY ProcessConstants, SMTT(60) DEF Pids
<1>2. StackTop(kind, p) \in Nat
  BY <1>1, SMTT(60) DEF StackTop
<1>3. ASSUME kind = "user", p # 0 PROVE StackTop(kind, p) >= STRIDE
  <2>1. 0 * STRIDE + STRIDE <= p * STRIDE
    BY <1>1, <1>3, TopsApart, SMTT(60)
  <2>2. 0 * STRIDE = 0 /\ p * STRIDE \in Nat
    BY <1>1, SMTT(60)
  <2>. QED
    BY <1>1, <1>3, <2>1, <2>2, SMTT(60) DEF StackTop
<1>4. ASSUME NEW q \in Pids, p < q PROVE StackTop(kind, p) + STRIDE <= StackTop(kind, q)
  <2>1. q \in Nat /\ q + 1 \in Nat /\ p + 1 < q + 1
    BY <1>1, <1>4, SMTT(60) DEF Pids
  <2>2. p * STRIDE + STRIDE <= q * STRIDE
    BY <1>1, <1>4, <2>1, TopsApart
  <2>3. (p + 1) * STRIDE + STRIDE <= (q + 1) * STRIDE
    BY <1>1, <2>1, TopsApart
  <2>. QED
    BY <2>2, <2>3 DEF StackTop
<1>. QED
  BY <1>2, <1>3, <1>4

\* A page of a stack, by its kind and its distance from the top.
LEMMA Page ==
  ASSUME NEW p \in Pids, NEW pg \in StackPages(p)
  PROVE  /\ pg = <<pg[1], pg[2]>>
         /\ pg[1] \in {"kernel", "user"} /\ pg[2] \in Int
         /\ \/ pg[2] = StackTop(pg[1], p) - 1
            \/ pg[2] = StackTop(pg[1], p) - 2
<1>1. PICK kind \in {"kernel", "user"}, n \in {1, 2} : pg = <<kind, StackTop(kind, p) - n>>
  BY SMTT(60) DEF StackPages
<1>2. pg[1] = kind /\ pg[2] = StackTop(kind, p) - n
  BY <1>1
<1>3. StackTop(kind, p) \in Nat
  BY Tops
<1>. QED
  BY <1>1, <1>2, <1>3, SMTT(60)

\* The stacks of two processes have no page in common, nor have they with
\* that of enter_user_mode.
LEMMA StacksApart ==
  ASSUME NEW p \in Pids \ {0}
  PROVE  /\ \A q \in Pids \ {p} : StackPages(p) \cap StackPages(q) = {}
         /\ StackPages(p) \cap UserStack = {}
<1>1. ASSUME NEW q \in Pids \ {p}, NEW pg \in StackPages(p), pg \in StackPages(q) PROVE FALSE
  <2> DEFINE a == StackTop(pg[1], p)
             b == StackTop(pg[1], q)
  <2>1. pg[1] \in {"kernel", "user"} /\ (pg[2] = a - 1 \/ pg[2] = a - 2)
    BY Page
  <2>2. pg[2] = b - 1 \/ pg[2] = b - 2
    BY <1>1, Page
  <2>3. a \in Nat /\ b \in Nat /\ STRIDE \in Nat /\ STRIDE >= 4
    BY <2>1, Tops, ProcessConstants
  <2>4. p < q \/ q < p
    BY SMTT(60) DEF Pids
  <2>5. a + STRIDE <= b \/ b + STRIDE <= a
    BY <2>1, <2>4, Tops
  <2> HIDE DEF a, b
  <2>. QED
    BY <2>1, <2>2, <2>3, <2>5, SMTT(60)
<1>2. ASSUME NEW pg \in StackPages(p), pg \in UserStack PROVE FALSE
  <2> DEFINE a == StackTop("user", p)
  <2>1. pg[1] = "user" /\ pg[2] \in {0, 1}
    BY <1>2, SMTT(60) DEF UserStack
  <2>2. pg[2] = a - 1 \/ pg[2] = a - 2
    BY <2>1, Page
  <2>3. a \in Nat /\ a >= STRIDE /\ STRIDE \in Nat /\ STRIDE >= 4
    BY Tops, ProcessConstants
  <2> HIDE DEF a
  <2>. QED
    BY <2>1, <2>2, <2>3, SMTT(60)
<1>. QED
  BY <1>1, <1>2

\* The four pages get four frames.
LEMMA Offsets ==
  ASSUME NEW p \in Pids
  PROVE  /\ \A g \in StackPages(p) : Offset(p, g) \in 0 .. 3
         /\ \A g, h \in StackPages(p) : Offset(p, g) = Offset(p, h) => g = h
<1>1. ASSUME NEW g \in StackPages(p)
      PROVE  /\ g[1] = "kernel" => Offset(p, g) \in 0 .. 1 /\ g[2] = StackTop("kernel", p) + Offset(p, g) - 2
             /\ g[1] # "kernel" => /\ g[1] = "user" /\ Offset(p, g) \in 2 .. 3
                                    /\ g[2] = StackTop("user", p) + Offset(p, g) - 4
  <2>1. StackTop("kernel", p) \in Nat /\ StackTop("user", p) \in Nat
    BY Tops
  <2>2. /\ g[1] \in {"kernel", "user"}
        /\ g[2] = StackTop(g[1], p) - 1 \/ g[2] = StackTop(g[1], p) - 2
    BY Page
  <2>3. CASE g[1] = "kernel"
    BY <2>1, <2>2, <2>3, SMTT(60) DEF Offset
  <2>4. CASE g[1] = "user"
    BY <2>1, <2>2, <2>4, SMTT(60) DEF Offset
  <2>. QED
    BY <2>2, <2>3, <2>4
<1>2. ASSUME NEW g \in StackPages(p), NEW h \in StackPages(p), Offset(p, g) = Offset(p, h)
      PROVE  g = h
  <2>1. (g[1] = "kernel") <=> (h[1] = "kernel")
    BY <1>1, <1>2, SMTT(60)
  <2>2. g[1] = h[1] /\ g[2] = h[2]
    BY <1>1, <1>2, <2>1
  <2>. QED
    BY <2>2, Page
<1>. QED
  BY <1>1, <1>2, SMTT(60)

-----------------------------------------------------------------------------
(* The inductive invariant: with the table, that every page has a frame    *)
(* of its own below the bump pointer, and the function's stack is mapped.  *)

Frames ==
  /\ DOMAIN ptes \subseteq {"kernel", "user"} \X Int
  /\ next_free_page \in 0 .. MaxFrames
  /\ \A g \in DOMAIN ptes : ptes[g] \in Nat /\ ptes[g] < next_free_page
  /\ \A g, h \in DOMAIN ptes : ptes[g] = ptes[h] => g = h

UserRuns ==
  user.at # "none" => user.rsp = 2 /\ UserStack \subseteq DOMAIN ptes

IInv == Table /\ Counted /\ Frames /\ UserRuns

\* New pages with frames from the pointer on keep the frames apart.
LEMMA NewFrames ==
  ASSUME Frames, NEW new \in SUBSET ({"kernel", "user"} \X Int), NEW f, NEW n \in Nat,
         \A g \in new : f[g] \in next_free_page .. (next_free_page + n - 1),
         \A g, h \in new : f[g] = f[h] => g = h,
         ptes' = [g \in DOMAIN ptes \cup new |-> IF g \in new THEN f[g] ELSE ptes[g]],
         next_free_page' = next_free_page + n, next_free_page + n <= MaxFrames
  PROVE  Frames' /\ DOMAIN ptes' = DOMAIN ptes \cup new
<1>1. DOMAIN ptes' = DOMAIN ptes \cup new
  OBVIOUS
<1>2. next_free_page \in Nat /\ MaxFrames \in Nat /\ next_free_page' \in 0 .. MaxFrames
  BY ProcessConstants, SMTT(60) DEF Frames
<1>3. ASSUME NEW g \in new
      PROVE  ptes'[g] = f[g] /\ ptes'[g] \in Nat /\ ptes'[g] >= next_free_page /\ ptes'[g] < next_free_page'
  BY <1>2, SMTT(60)
<1>4. ASSUME NEW g \in DOMAIN ptes, g \notin new
      PROVE  ptes'[g] = ptes[g] /\ ptes'[g] \in Nat /\ ptes'[g] < next_free_page
  BY <1>4 DEF Frames
<1>5. ASSUME NEW g \in DOMAIN ptes', NEW h \in DOMAIN ptes', ptes'[g] = ptes'[h]
      PROVE  g = h
  <2>1. CASE g \in new /\ h \in new
    BY <1>3, <1>5, <2>1
  <2>2. CASE g \notin new /\ h \notin new
    BY <1>1, <1>4, <1>5, <2>2 DEF Frames
  <2>3. CASE g \in new /\ h \notin new
    BY <1>1, <1>2, <1>3, <1>4, <1>5, <2>3, SMTT(60)
  <2>4. CASE g \notin new /\ h \in new
    BY <1>1, <1>2, <1>3, <1>4, <1>5, <2>4, SMTT(60)
  <2>. QED
    BY <2>1, <2>2, <2>3, <2>4
<1>6. ASSUME NEW g \in DOMAIN ptes' PROVE ptes'[g] \in Nat /\ ptes'[g] < next_free_page'
  <2>1. CASE g \in new
    BY <1>3, <2>1
  <2>2. CASE g \notin new
    <3>1. ptes'[g] \in Nat /\ ptes'[g] < next_free_page
      BY <1>1, <1>4, <2>2
    <3>. QED
      BY <1>2, <3>1, SMTT(60)
  <2>. QED
    BY <2>1, <2>2
<1>. QED
  BY <1>1, <1>2, <1>5, <1>6 DEF Frames

\* The mapping loops of process_create.
LEMMA CreateKeepsFrames ==
  ASSUME Frames, NEW p \in Pids, NEW refused, MapStacks(p, refused)
  PROVE  /\ Frames' /\ DOMAIN ptes \subseteq DOMAIN ptes'
         /\ \A g \in DOMAIN ptes \ StackPages(p) : ptes'[g] = ptes[g]
<1> DEFINE done == {pg \in StackPages(p) : pg[1] \notin refused}
           f == [g \in StackPages(p) |-> next_free_page + Offset(p, g)]
<1>1. /\ next_free_page + 4 <= MaxFrames /\ next_free_page' = next_free_page + 4
      /\ ptes' = [g \in DOMAIN ptes \cup done |-> IF g \in done THEN next_free_page + Offset(p, g) ELSE ptes[g]]
  BY DEF MapStacks
<1>2. ptes' = [g \in DOMAIN ptes \cup done |-> IF g \in done THEN f[g] ELSE ptes[g]]
  BY <1>1
<1>3. done \in SUBSET ({"kernel", "user"} \X Int)
  <2>1. ASSUME NEW g \in done PROVE g \in {"kernel", "user"} \X Int
    <3>1. g = <<g[1], g[2]>> /\ g[1] \in {"kernel", "user"} /\ g[2] \in Int
      BY Page
    <3>. QED
      BY <3>1
  <2>. QED
    BY <2>1
<1>4. next_free_page \in Nat
  BY SMTT(60) DEF Frames
<1>5. \A g \in done : f[g] \in next_free_page .. (next_free_page + 4 - 1)
  <2>1. ASSUME NEW g \in done PROVE f[g] \in next_free_page .. (next_free_page + 4 - 1)
    <3>1. Offset(p, g) \in 0 .. 3 /\ f[g] = next_free_page + Offset(p, g)
      BY Offsets
    <3>. QED
      BY <1>4, <3>1, SMTT(60)
  <2>. QED
    BY <2>1
<1>6. \A g, h \in done : f[g] = f[h] => g = h
  <2>1. ASSUME NEW g \in done, NEW h \in done, f[g] = f[h] PROVE g = h
    <3>1. Offset(p, g) \in 0 .. 3 /\ Offset(p, h) \in 0 .. 3
      BY Offsets
    <3>2. next_free_page + Offset(p, g) = next_free_page + Offset(p, h)
      BY <2>1
    <3>3. Offset(p, g) = Offset(p, h)
      BY <1>4, <3>1, <3>2, SMTT(60)
    <3>. QED
      BY <3>3, Offsets
  <2>. QED
    BY <2>1
<1>7. done \subseteq StackPages(p)
  OBVIOUS
<1> HIDE DEF done, f
<1>8. Frames' /\ DOMAIN ptes' = DOMAIN ptes \cup done
  BY <1>1, <1>2, <1>3, <1>5, <1>6, NewFrames, SMTT(60)
<1>. QED
  BY <1>2, <1>7, <1>8

\* And that of enter_user_mode.
LEMMA EnterKeepsFrames ==
  ASSUME Frames, EnterMapped
  PROVE  /\ Frames' /\ DOMAIN ptes' = DOMAIN ptes \cup UserStack
         /\ \A g \in DOMAIN ptes \ UserStack : ptes'[g] = ptes[g]
<1> DEFINE f == [g \in UserStack |-> next_free_page + 1 + g[2]]
<1>1. /\ next_free_page + 3 <= MaxFrames /\ next_free_page' = next_free_page + 3
      /\ ptes' = [g \in DOMAIN ptes \cup UserStack |-> IF g \in UserStack THEN f[g] ELSE ptes[g]]
  BY DEF EnterMapped
<1>2. next_free_page \in Nat
  BY SMTT(60) DEF Frames
<1>3. UserStack \in SUBSET ({"kernel", "user"} \X Int)
  BY SMTT(60) DEF UserStack
<1>4. \A g \in UserStack : f[g] \in next_free_page .. (next_free_page + 3 - 1)
  BY <1>2, SMTT(60) DEF UserStack
<1>5. \A g, h \in UserStack : f[g] = f[h] => g = h
  BY <1>2, SMTT(60) DEF UserStack
<1> HIDE DEF f
<1>6. Frames' /\ DOMAIN ptes' = DOMAIN ptes \cup UserStack
  BY <1>1, <1>3, <1>4, <1>5, NewFrames
<1>. QED
  BY <1>1, <1>6

-----------------------------------------------------------------------------
(* The steps.                                                              *)

\* The table is empty, nothing is mapped.
LEMMA InitHolds == UserModeInit => IInv
<1> SUFFICES ASSUME UserModeInit PROVE IInv
  OBVIOUS
<1> USE DEF UserModeInit, Init
<1>1. 0 \in Pids
  BY ProcessConstants, SMTT(60) DEF Pids
<1>2. Live = {}
  BY DEF Live, Terminated
<1>3. Table
  BY <1>1, <1>2 DEF Table, Record, Terminated
<1>4. Counted
  BY <1>2, FS_EmptySet, ProcessConstants, SMTT(60) DEF Counted
<1>5. Frames
  BY ProcessConstants, SMTT(60) DEF Frames
<1>6. UserRuns
  BY DEF UserRuns
<1>. QED
  BY <1>3, <1>4, <1>5, <1>6 DEF IInv

\* What is said of a step: the invariant, and the stacks in use.
Kept == \A pg \in InUse \cap InUse' \cap DOMAIN ptes : ptes'[pg] = ptes[pg]

\* A creation takes a slot whose stacks are not in use.
LEMMA CreateStep ==
  ASSUME IInv, NEW refused, process_create(refused), UNCHANGED userVars
  PROVE  IInv' /\ Kept
<1> DEFINE n == FirstFree
<1>1. Table' /\ Counted' /\ n \in Pids \ {0} /\ n \notin Live
  BY CreateKeepsTable DEF IInv
<1>2. /\ Frames' /\ DOMAIN ptes \subseteq DOMAIN ptes'
      /\ \A g \in DOMAIN ptes \ StackPages(n) : ptes'[g] = ptes[g]
  BY <1>1, CreateKeepsFrames DEF process_create, IInv
<1> HIDE DEF n
<1>3. UserRuns'
  BY <1>2 DEF IInv, UserRuns, userVars
<1>4. InUse \cap StackPages(n) = {}
  <2>1. \A q \in Live : StackPages(q) \cap StackPages(n) = {}
    BY <1>1, StacksApart DEF Live
  <2>2. UserStack \cap StackPages(n) = {}
    BY <1>1, StacksApart
  <2>. QED
    BY <2>1, <2>2 DEF InUse
<1>5. Kept
  BY <1>2, <1>4 DEF Kept
<1>. QED
  BY <1>1, <1>2, <1>3, <1>5 DEF IInv

\* An exit and a switch leave the mappings alone.
LEMMA ExitStep ==
  ASSUME IInv, NEW p \in Pids, process_exit(p), UNCHANGED userVars
  PROVE  IInv' /\ Kept
<1>1. Table' /\ Counted'
  BY ExitKeepsTable DEF IInv
<1>2. ptes' = ptes /\ next_free_page' = next_free_page
  BY DEF process_exit
<1>3. Frames' /\ UserRuns'
  BY <1>2, SMTT(60) DEF IInv, Frames, UserRuns, userVars
<1>. QED
  BY <1>1, <1>2, <1>3 DEF IInv, Kept

LEMMA SwitchStep ==
  ASSUME IInv, NEW p \in Pids, process_switch(p), UNCHANGED userVars
  PROVE  IInv' /\ Kept
<1>1. current_pid' = processes[p].pid /\ UNCHANGED <<processes, process_count, ptes, next_free_page>>
  BY DEF process_switch
<1>2. current_pid' \in Pids
  BY <1>1 DEF IInv, Table, Record
<1>3. Table' /\ Counted'
  BY <1>1, <1>2 DEF IInv, Table, Counted, Live, Terminated
<1>4. Frames' /\ UserRuns'
  BY <1>1, SMTT(60) DEF IInv, Frames, UserRuns, userVars
<1>. QED
  BY <1>1, <1>3, <1>4 DEF IInv, Kept

\* user_mode_init
LEMMA SegmentStep ==
  ASSUME IInv, setup_user_segments
  PROVE  IInv' /\ Kept
<1>1. UNCHANGED <<processes, process_count, current_pid, ptes, next_free_page, user>>
  BY DEF setup_user_segments, vars
<1>2. Table' /\ Counted' /\ Frames' /\ UserRuns'
  BY <1>1 DEF IInv, Table, Counted, Live, Terminated, Frames, UserRuns
<1>. QED
  BY <1>1, <1>2 DEF IInv, Kept

\* The function's stack is not that of a process.
LEMMA EnterStep ==
  ASSUME IInv, enter_user_mode
  PROVE  IInv' /\ Kept
<1>1. /\ UNCHANGED <<processes, process_count, current_pid, gdt_entries>>
      /\ user.at = "none"
  BY DEF enter_user_mode
<1>2. Table' /\ Counted'
  BY <1>1, SMTT(60) DEF IInv, Table, Counted, Live, Terminated
<1>3. CASE EnterMapped
  <2>1. /\ Frames' /\ DOMAIN ptes' = DOMAIN ptes \cup UserStack
        /\ \A g \in DOMAIN ptes \ UserStack : ptes'[g] = ptes[g]
    BY <1>3, EnterKeepsFrames DEF IInv
  <2>2. user'.rsp = 2
    BY <1>3, SMTT(60) DEF EnterMapped, switch_to_user_mode
  <2>3. UserRuns'
    BY <2>1, <2>2 DEF UserRuns
  <2>4. InUse \cap UserStack = {}
    <3>1. Live \subseteq Pids \ {0}
      BY DEF IInv, Table, Live
    <3>2. \A q \in Live : StackPages(q) \cap UserStack = {}
      BY <3>1, StacksApart
    <3>. QED
      BY <1>1, <3>2 DEF InUse, Running
  <2>5. Kept
    BY <2>1, <2>4 DEF Kept
  <2>. QED
    BY <1>2, <2>1, <2>3, <2>5 DEF IInv
<1>4. CASE EnterRefused
  <2>1. ptes' = ptes /\ user' = user /\ next_free_page' = next_free_page + 2 /\ next_free_page + 2 <= MaxFrames
    BY <1>4 DEF EnterRefused
  <2>2. Frames'
    BY <2>1, ProcessConstants, SMTT(60) DEF IInv, Frames
  <2>3. UserRuns'
    BY <2>1 DEF IInv, UserRuns
  <2>. QED
    BY <1>2, <2>1, <2>2, <2>3 DEF IInv, Kept
<1>. QED
  BY <1>3, <1>4 DEF enter_user_mode

\* Every step.
LEMMA Step == IInv /\ [UserModeNext]_allVars => IInv' /\ Kept
<1> SUFFICES ASSUME IInv PROVE [UserModeNext]_allVars => IInv' /\ Kept
  OBVIOUS
<1>1. ASSUME Next, UNCHANGED userVars PROVE IInv' /\ Kept
  <2>1. ASSUME sys_exit PROVE IInv' /\ Kept
    <3>1. processes[current_pid].pid \in Pids
      BY DEF IInv, Table, Record
    <3>. QED
      BY <1>1, <2>1, <3>1, ExitStep DEF sys_exit, process_get_current
  <2>. QED
    BY <1>1, <2>1, CreateStep, ExitStep, SwitchStep DEF Next
<1>2. ASSUME UNCHANGED allVars PROVE IInv' /\ Kept
  <2>1. UNCHANGED <<processes, process_count, current_pid, ptes, next_free_page, gdt_entries, user>>
    BY <1>2 DEF allVars, vars, userVars
  <2>2. Table' /\ Counted' /\ Frames' /\ UserRuns'
    BY <2>1, SMTT(60) DEF IInv, Table, Counted, Live, Terminated, Frames, UserRuns
  <2>. QED
    BY <2>1, <2>2 DEF IInv, Kept
<1>. QED
  BY <1>1, <1>2, SegmentStep, EnterStep DEF UserModeNext

\* The invariant says what the properties say.
LEMMA IInvImplies == IInv => StacksReady /\ CountMatches
<1> SUFFICES ASSUME IInv PROVE StacksReady /\ CountMatches
  OBVIOUS
<1>1. user.at # "none" => <<"user", user.rsp - 1>> \in DOMAIN ptes
  <2>1. <<"user", 1>> \in UserStack /\ 2 - 1 = 1
    BY SMTT(60) DEF UserStack
  <2>. QED
    BY <2>1 DEF IInv, UserRuns
<1>2. StacksReady
  BY <1>1 DEF IInv, Frames, UserRuns, StacksReady
<1>3. TypeOK
  BY DEF IInv, Table, Record, Counted, Frames, TypeOK
<1>. QED
  BY <1>2, <1>3 DEF IInv, Table, Counted, CountMatches

-----------------------------------------------------------------------------
(* The theorems.                                                           *)

\* IInv always holds.
LEMMA Invariant == UserModeSpec => []IInv
<1>1. IInv /\ [UserModeNext]_allVars => IInv'
  BY Step
<1>. QED
  BY <1>1, InitHolds, PTL DEF UserModeSpec

\* process_count is the number of live processes, and pids name their slots,
\* with any number of slots (process_create, process_exit).
THEOREM ProcessCountExact == UserModeSpec => []CountMatches
<1>1. IInv => CountMatches
  BY IInvImplies
<1>. QED
  BY <1>1, Invariant, PTL

\* No frame is in two stacks, and enter_user_mode switches to a mapped one
\* (process_create, enter_user_mode).
THEOREM StacksHaveOwnFrames == UserModeSpec => []StacksReady
<1>1. IInv => StacksReady
  BY IInvImplies
<1>. QED
  BY <1>1, Invariant, PTL

\* No call replaces a stack in use, for any number of processes and any
\* distance of four pages or more between their stacks (process_create,
\* enter_user_mode).
THEOREM StacksStay == UserModeSpec => StacksKept
<1>1. IInv /\ [UserModeNext]_allVars => [Kept]_allVars
  BY Step
<1>2. UserModeSpec => [][Kept]_allVars
  BY <1>1, Invariant, PTL DEF UserModeSpec
<1>. QED
  BY <1>2 DEF StacksKept, Kept

-----------------------------------------------------------------------------
(* The loader.                                                             *)

Phdr == [load : BOOLEAN, vaddr : Nat, offset : Nat, filesz : Nat, memsz : Nat]
Contents == [0 .. (PAGE_SIZE - 1) -> Int]

\* The segment of header i is being loaded.
InSegment == elf_pc \in {"map", "buffer", "read"}

\* What elf_load holds, and how far it is, at each place.
ElfPlace ==
  /\ elf_pc \in {"open", "header", "alloc", "headers", "segment", "map", "buffer", "read", "done"}
  /\ held = CASE elf_pc \in {"open", "done"}    -> {}
              [] elf_pc \in {"header", "alloc"} -> {"file"}
              [] elf_pc = "read"                -> {"file", "phdrs", "buffer"}
              [] OTHER                          -> {"file", "phdrs"}
  /\ ret = -1 <=> elf_pc # "done"
  /\ elf_pc \in {"alloc", "headers", "segment", "map", "buffer", "read"} \/ ret = 1 => entered
  /\ InSegment =>
       /\ i \in DOMAIN phdrs /\ phdrs[i].load
       /\ page <= num_pages(phdrs[i])
       /\ elf_pc # "map" => page = num_pages(phdrs[i])
  /\ ret = 1 => i = Len(phdrs) + 1

\* Pages are mapped to frames of their own.
Mapping ==
  /\ mem \in Seq(Contents)
  /\ pt \in [DOMAIN pt -> 1 .. Len(mem)]
  /\ \A p, q \in DOMAIN pt : pt[p] = pt[q] => p = q
  /\ InSegment => \A n \in 0 .. (page - 1) : start_page(phdrs[i]) + n \in DOMAIN pt

\* The segments before header i are mapped and in memory.
Behind ==
  Separate(phdrs) =>
    \A j \in 1 .. (i - 1) :
      phdrs[j].load => Pages(phdrs[j]) \subseteq DOMAIN pt /\ InPlace(phdrs[j])

ElfInv == ElfTypeOK /\ ElfPlace /\ Mapping /\ Behind

\* Numbers are quotient and remainder.
LEMMA Parts ==
  ASSUME NEW d \in Nat \ {0}, NEW a \in Nat
  PROVE  a = (a \div d) * d + (a % d) /\ a \div d \in Nat /\ a % d \in 0 .. (d - 1)
BY SMTT(60)

\* A quotient is the largest multiple that fits.
LEMMA QuotientLeast ==
  ASSUME NEW d \in Nat \ {0}, NEW a \in Nat, NEW k \in Nat, k * d <= a
  PROVE  k <= a \div d
<1> DEFINE q == a \div d
<1>1. a = q * d + (a % d) /\ q \in Nat /\ a % d \in 0 .. (d - 1)
  BY Parts
<1> HIDE DEF q
<1>2. CASE k >= q + 1
  <2>1. k * d >= (q + 1) * d
    BY <1>1, <1>2, SMTT(60)
  <2>2. (q + 1) * d = q * d + d /\ q * d \in Nat /\ k * d \in Nat
    BY <1>1, SMTT(60)
  <2>. QED
    BY <1>1, <2>1, <2>2, SMTT(60)
<1>. QED
  BY <1>1, <1>2, SMTT(60) DEF q

\* The bytes of a segment are in its pages.
LEMMA BytesInPages ==
  ASSUME ElfConstants, NEW ph \in Phdr
  PROVE  /\ start_page(ph) \in Nat /\ end_page(ph) \in Nat /\ num_pages(ph) \in Nat
         /\ \A a \in ph.vaddr .. (ph.vaddr + ph.memsz - 1) : a \div PAGE_SIZE \in Pages(ph)
<1> DEFINE v == ph.vaddr
           n == ph.memsz
           e == v + n + PAGE_SIZE - 1
<1>1. v \in Nat /\ n \in Nat /\ PAGE_SIZE \in Nat \ {0} /\ e \in Nat
  BY SMTT(60) DEF Phdr, ElfConstants
<1>2. start_page(ph) = v \div PAGE_SIZE /\ end_page(ph) = e \div PAGE_SIZE
  BY DEF start_page, end_page
<1> HIDE DEF v, n
<1>3. /\ v = (v \div PAGE_SIZE) * PAGE_SIZE + (v % PAGE_SIZE)
      /\ v \div PAGE_SIZE \in Nat /\ v % PAGE_SIZE \in 0 .. (PAGE_SIZE - 1)
  BY <1>1, Parts
<1>4. e \div PAGE_SIZE \in Nat
  <2> HIDE DEF e
  <2>. QED
    BY <1>1, Parts
<1>5. (v \div PAGE_SIZE) * PAGE_SIZE <= e
  <2> DEFINE m == (v \div PAGE_SIZE) * PAGE_SIZE
  <2>1. m \in Nat
    BY <1>1, <1>3, SMTT(60)
  <2> HIDE DEF m
  <2>2. v = m + (v % PAGE_SIZE)
    BY <1>3 DEF m
  <2>3. m <= e
    BY <1>1, <1>3, <2>1, <2>2, SMTT(60)
  <2>. QED
    BY <2>3 DEF m
<1>6. v \div PAGE_SIZE <= e \div PAGE_SIZE
  <2> HIDE DEF e
  <2>. QED
    BY <1>1, <1>3, <1>5, QuotientLeast
<1>7. ASSUME NEW a \in v .. (v + n - 1) PROVE a \div PAGE_SIZE \in Pages(ph)
  <2> DEFINE q == a \div PAGE_SIZE
  <2>1. a \in Nat
    BY <1>1, SMTT(60)
  <2>2. a = q * PAGE_SIZE + (a % PAGE_SIZE) /\ q \in Nat /\ a % PAGE_SIZE \in 0 .. (PAGE_SIZE - 1)
    BY <1>1, <2>1, Parts
  <2>3. v \div PAGE_SIZE <= q
    <3> DEFINE m == (v \div PAGE_SIZE) * PAGE_SIZE
    <3>1. m \in Nat
      BY <1>1, <1>3, SMTT(60)
    <3> HIDE DEF m
    <3>2. v = m + (v % PAGE_SIZE)
      BY <1>3 DEF m
    <3>3. m <= a
      BY <1>1, <1>3, <3>1, <3>2, SMTT(60)
    <3>. QED
      BY <1>1, <1>3, <2>1, <3>3, QuotientLeast DEF m
  <2> HIDE DEF q
  <2>4. (q + 1) * PAGE_SIZE <= e
    <3>1. q * PAGE_SIZE \in Nat /\ (q + 1) * PAGE_SIZE = q * PAGE_SIZE + PAGE_SIZE
      BY <1>1, <2>2, SMTT(60)
    <3>2. q * PAGE_SIZE <= a
      BY <2>1, <2>2, <3>1, SMTT(60)
    <3>. QED
      BY <1>1, <1>7, <2>1, <3>1, <3>2, SMTT(60)
  <2>5. q + 1 <= e \div PAGE_SIZE
    <3> DEFINE k == q + 1
    <3>1. k \in Nat /\ k * PAGE_SIZE <= e
      BY <2>2, <2>4, SMTT(60)
    <3> HIDE DEF e, k
    <3>2. k <= e \div PAGE_SIZE
      BY <1>1, <3>1, QuotientLeast
    <3>. QED
      BY <3>2 DEF k
  <2>6. q \in start_page(ph) .. (end_page(ph) - 1)
    BY <1>2, <1>3, <1>4, <2>2, <2>3, <2>5, SMTT(60)
  <2>. QED
    BY <2>6 DEF q, Pages
<1>8. num_pages(ph) \in Nat
  BY <1>2, <1>3, <1>4, <1>6, SMTT(60) DEF num_pages
<1>. QED
  BY <1>2, <1>3, <1>4, <1>7, <1>8 DEF v, n

\* A copy to memory that is mapped: every address has the byte copied to it,
\* or what it had before.
LEMMA WrittenAt ==
  ASSUME ElfConstants, Mapping, NEW m \in Seq(Contents), Len(m) = Len(mem),
         NEW bytes, DOMAIN bytes \subseteq Nat, \A a \in DOMAIN bytes : bytes[a] \in Int,
         \A a \in DOMAIN bytes : a \div PAGE_SIZE \in DOMAIN pt
  PROVE  /\ Written(m, bytes) \in Seq(Contents) /\ Len(Written(m, bytes)) = Len(mem)
         /\ \A a \in Nat : a \div PAGE_SIZE \in DOMAIN pt =>
              Written(m, bytes)[pt[a \div PAGE_SIZE]][a % PAGE_SIZE] =
                IF a \in DOMAIN bytes THEN bytes[a] ELSE m[pt[a \div PAGE_SIZE]][a % PAGE_SIZE]
<1> DEFINE at(f, k) == {a \in DOMAIN bytes : pt[a \div PAGE_SIZE] = f /\ a % PAGE_SIZE = k}
           byte(f, k) == IF at(f, k) = {} THEN m[f][k] ELSE bytes[CHOOSE a \in at(f, k) : TRUE]
           w == Written(m, bytes)
<1>1. w = [f \in DOMAIN m |-> [k \in 0 .. (PAGE_SIZE - 1) |-> byte(f, k)]]
  BY DEF Written
<1>2. DOMAIN m = 1 .. Len(mem) /\ Len(mem) \in Nat /\ PAGE_SIZE \in Nat \ {0}
  BY SMTT(60) DEF Mapping, ElfConstants
<1>3. ASSUME NEW f \in DOMAIN m, NEW k \in 0 .. (PAGE_SIZE - 1) PROVE byte(f, k) \in Int
  <2>1. CASE at(f, k) = {}
    <3>1. m[f] \in Contents
      BY <1>3, SMTT(60)
    <3>. QED
      BY <2>1, <3>1 DEF Contents
  <2>2. CASE at(f, k) # {}
    <3>1. (CHOOSE a \in at(f, k) : TRUE) \in at(f, k)
      BY <2>2
    <3>2. (CHOOSE a \in at(f, k) : TRUE) \in DOMAIN bytes
      BY <3>1
    <3>. QED
      BY <2>2, <3>2
  <2>. QED
    BY <2>1, <2>2
<1>4. w \in [1 .. Len(mem) -> Contents]
  <2> HIDE DEF byte, w
  <2>. QED
    BY <1>1, <1>2, <1>3 DEF Contents
<1>5. w \in Seq(Contents) /\ Len(w) = Len(mem)
  <2> HIDE DEF w
  <2>. QED
    BY <1>2, <1>4, SMTT(60)
<1>6. ASSUME NEW a \in Nat, a \div PAGE_SIZE \in DOMAIN pt
      PROVE  w[pt[a \div PAGE_SIZE]][a % PAGE_SIZE] =
               IF a \in DOMAIN bytes THEN bytes[a] ELSE m[pt[a \div PAGE_SIZE]][a % PAGE_SIZE]
  <2> DEFINE f == pt[a \div PAGE_SIZE]
             k == a % PAGE_SIZE
  <2>1. f \in DOMAIN m /\ k \in 0 .. (PAGE_SIZE - 1)
    <3>1. f \in DOMAIN m
      BY <1>2, <1>6 DEF Mapping
    <3>2. k \in 0 .. (PAGE_SIZE - 1)
      BY <1>2, Parts
    <3>. QED
      BY <3>1, <3>2
  <2>2. w[f][k] = byte(f, k)
    <3> HIDE DEF byte, w, f, k
    <3>. QED
      BY <1>1, <2>1
  <2>3. ASSUME NEW b \in at(f, k) PROVE b = a
    <3>1. b \in DOMAIN bytes /\ pt[b \div PAGE_SIZE] = f /\ b % PAGE_SIZE = k /\ b \in Nat
      BY <2>3
    <3>2. b \div PAGE_SIZE \in DOMAIN pt
      BY <3>1
    <3>3. b \div PAGE_SIZE = a \div PAGE_SIZE
      BY <1>6, <3>1, <3>2 DEF Mapping
    <3>4. b = (b \div PAGE_SIZE) * PAGE_SIZE + (b % PAGE_SIZE)
      BY <1>2, <3>1, Parts
    <3>5. a = (a \div PAGE_SIZE) * PAGE_SIZE + (a % PAGE_SIZE)
      BY <1>2, Parts
    <3>. QED
      BY <3>1, <3>3, <3>4, <3>5
  <2>4. CASE a \in DOMAIN bytes
    <3>1. a \in at(f, k)
      BY <2>4
    <3>2. at(f, k) # {} /\ (CHOOSE b \in at(f, k) : TRUE) \in at(f, k)
      BY <3>1
    <3>3. (CHOOSE b \in at(f, k) : TRUE) = a
      BY <2>3, <3>2
    <3>. QED
      BY <2>2, <2>4, <3>2, <3>3
  <2>5. CASE a \notin DOMAIN bytes
    <3>1. at(f, k) = {}
      BY <2>3, <2>5
    <3>. QED
      BY <2>2, <2>5, <3>1
  <2>. QED
    BY <2>4, <2>5
<1>. QED
  BY <1>5, <1>6

\* The bytes of file and zeros of one segment.
FileBytes(ph) == [a \in ph.vaddr .. (ph.vaddr + ph.filesz - 1) |-> ph.offset + (a - ph.vaddr)]
ZeroBytes(ph) == [a \in (ph.vaddr + ph.filesz) .. (ph.vaddr + ph.memsz - 1) |-> Zero]

\* What the memory m has to be before the rest of segment i is zeroed.
Copied(m) ==
  LET ph == phdrs[i] IN
  /\ m \in Seq(Contents) /\ Len(m) = Len(mem)
  /\ \A a \in Nat : a \div PAGE_SIZE \in DOMAIN pt =>
       m[pt[a \div PAGE_SIZE]][a % PAGE_SIZE] =
         IF a \in ph.vaddr .. (ph.vaddr + ph.filesz - 1) THEN ph.offset + (a - ph.vaddr) ELSE At(a)

\* Header j of a program.
LEMMA HeaderType ==
  ASSUME ElfConstants, ElfTypeOK, NEW j \in DOMAIN phdrs
  PROVE  phdrs \in Seq(Phdr) /\ phdrs[j] \in Phdr /\ phdrs[j].filesz <= phdrs[j].memsz
<1>1. phdrs \in Seq(Phdr)
  BY DEF ElfConstants, ElfTypeOK, Phdr
<1>2. phdrs[j] \in Phdr
  BY <1>1, SMTT(60)
<1>. QED
  BY <1>1, <1>2 DEF ElfConstants, ElfTypeOK

\* When all pages of segment i are mapped, its bytes are.
LEMMA SegmentMapped ==
  ASSUME ElfConstants, ElfInv, InSegment, page = num_pages(phdrs[i])
  PROVE  /\ Pages(phdrs[i]) \subseteq DOMAIN pt
         /\ \A a \in phdrs[i].vaddr .. (phdrs[i].vaddr + phdrs[i].memsz - 1) :
              a \div PAGE_SIZE \in Pages(phdrs[i])
<1> DEFINE ph == phdrs[i]
<1>1. ph \in Phdr
  BY HeaderType DEF ElfInv, ElfPlace
<1>2. \A n \in 0 .. (page - 1) : start_page(ph) + n \in DOMAIN pt
  BY DEF ElfInv, Mapping
<1> HIDE DEF ph
<1>3. /\ start_page(ph) \in Nat /\ end_page(ph) \in Nat /\ num_pages(ph) \in Nat
      /\ \A a \in ph.vaddr .. (ph.vaddr + ph.memsz - 1) : a \div PAGE_SIZE \in Pages(ph)
  BY <1>1, BytesInPages
<1>4. ASSUME NEW p \in Pages(ph) PROVE p \in DOMAIN pt
  <2>1. p \in start_page(ph) .. (end_page(ph) - 1)
    BY DEF Pages
  <2>2. page = end_page(ph) - start_page(ph)
    BY DEF ph, num_pages
  <2> DEFINE n == p - start_page(ph)
  <2>3. n \in 0 .. (page - 1) /\ p = start_page(ph) + n
    BY <1>3, <2>1, <2>2, SMTT(60)
  <2>. QED
    BY <1>2, <2>3
<1>. QED
  BY <1>3, <1>4 DEF ph

\* Once the rest is zeroed, segment i is in memory, and so are those before.
LEMMA ZeroKeeps ==
  ASSUME ElfConstants, ElfInv, InSegment, page = num_pages(phdrs[i]),
         NEW m, Copied(m), ZeroRest(m)
  PROVE  Mapping' /\ Behind'
<1>0. PICK ph : ph = phdrs[i]
  OBVIOUS
<1> DEFINE z == ZeroBytes(ph)
<1>1. /\ mem' = Written(m, z) /\ elf_pc' = "segment" /\ i' = i + 1
      /\ phdrs' = phdrs /\ pt' = pt
  BY <1>0 DEF ZeroRest, ZeroBytes
<1>2. i \in DOMAIN phdrs /\ ph.load /\ Mapping /\ Behind /\ ElfTypeOK
  BY <1>0 DEF ElfInv, ElfPlace
<1>3. /\ ph \in Phdr /\ ph.vaddr \in Nat /\ ph.filesz \in Nat /\ ph.memsz \in Nat
      /\ ph.filesz <= ph.memsz /\ phdrs \in Seq(Phdr)
  BY <1>0, <1>2, HeaderType DEF Phdr
<1>4. /\ Pages(ph) \subseteq DOMAIN pt
      /\ \A a \in ph.vaddr .. (ph.vaddr + ph.memsz - 1) : a \div PAGE_SIZE \in Pages(ph)
  BY <1>0, SegmentMapped
<1>5. /\ DOMAIN z = (ph.vaddr + ph.filesz) .. (ph.vaddr + ph.memsz - 1)
      /\ \A a \in DOMAIN z : z[a] = Zero
  BY DEF ZeroBytes
<1> HIDE DEF z
<1>6. /\ DOMAIN z \subseteq Nat /\ DOMAIN z \subseteq ph.vaddr .. (ph.vaddr + ph.memsz - 1)
      /\ \A a \in DOMAIN z : z[a] \in Int
  BY <1>3, <1>5, SMTT(60) DEF Zero
<1>7. \A a \in DOMAIN z : a \div PAGE_SIZE \in DOMAIN pt
  BY <1>4, <1>6
<1>8. m \in Seq(Contents) /\ Len(m) = Len(mem)
  BY DEF Copied
<1>9. /\ mem' \in Seq(Contents) /\ Len(mem') = Len(mem)
      /\ \A a \in Nat : a \div PAGE_SIZE \in DOMAIN pt =>
           mem'[pt[a \div PAGE_SIZE]][a % PAGE_SIZE] =
             IF a \in DOMAIN z THEN z[a] ELSE m[pt[a \div PAGE_SIZE]][a % PAGE_SIZE]
  BY <1>1, <1>2, <1>6, <1>7, <1>8, WrittenAt, SMTT(60)
<1>10. Mapping'
  BY <1>1, <1>2, <1>9 DEF Mapping, InSegment
<1>11. ASSUME NEW a \in Nat, a \div PAGE_SIZE \in DOMAIN pt
       PROVE  At(a)' = IF a \in ph.vaddr .. (ph.vaddr + ph.filesz - 1)
                       THEN ph.offset + (a - ph.vaddr)
                       ELSE IF a \in (ph.vaddr + ph.filesz) .. (ph.vaddr + ph.memsz - 1)
                            THEN Zero ELSE At(a)
  <2>1. At(a)' = mem'[pt[a \div PAGE_SIZE]][a % PAGE_SIZE]
    BY <1>1 DEF At
  <2>2. At(a)' = IF a \in DOMAIN z THEN z[a] ELSE m[pt[a \div PAGE_SIZE]][a % PAGE_SIZE]
    BY <1>9, <1>11, <2>1
  <2>3. m[pt[a \div PAGE_SIZE]][a % PAGE_SIZE] =
          IF a \in ph.vaddr .. (ph.vaddr + ph.filesz - 1) THEN ph.offset + (a - ph.vaddr) ELSE At(a)
    BY <1>0, <1>11 DEF Copied
  <2>4. a \in ph.vaddr .. (ph.vaddr + ph.filesz - 1) => a \notin DOMAIN z
    BY <1>3, <1>5, SMTT(60)
  <2>. QED
    BY <1>5, <2>2, <2>3, <2>4
<1>12. InPlace(ph)'
  <2>1. ASSUME NEW k \in 0 .. (ph.memsz - 1)
        PROVE  At(ph.vaddr + k)' = IF k < ph.filesz THEN ph.offset + k ELSE Zero
    <3> DEFINE a == ph.vaddr + k
    <3>1. a \in Nat /\ a \in ph.vaddr .. (ph.vaddr + ph.memsz - 1)
      BY <1>3, SMTT(60)
    <3>2. a \div PAGE_SIZE \in DOMAIN pt
      BY <1>4, <3>1
    <3>3. /\ k < ph.filesz <=> a \in ph.vaddr .. (ph.vaddr + ph.filesz - 1)
          /\ ~(k < ph.filesz) => a \in (ph.vaddr + ph.filesz) .. (ph.vaddr + ph.memsz - 1)
          /\ a - ph.vaddr = k
      BY <1>3, <3>1, SMTT(60)
    <3> HIDE DEF a
    <3>4. At(a)' = IF k < ph.filesz THEN ph.offset + k ELSE Zero
      BY <1>11, <3>1, <3>2, <3>3
    <3>. QED
      BY <3>4 DEF a
  <2>. QED
    BY <2>1 DEF InPlace
<1>13. ASSUME Separate(phdrs), NEW j \in 1 .. (i - 1), phdrs[j].load
       PROVE  Pages(phdrs[j]) \subseteq DOMAIN pt /\ InPlace(phdrs[j])'
  <2>0. PICK pj : pj = phdrs[j]
    OBVIOUS
  <2>1. j \in DOMAIN phdrs /\ j # i
    BY <1>2, <1>3, SMTT(60) DEF ElfTypeOK
  <2>2. pj \in Phdr /\ pj.vaddr \in Nat /\ pj.memsz \in Nat
    BY <1>2, <2>0, <2>1, HeaderType DEF Phdr
  <2>3. \A a \in pj.vaddr .. (pj.vaddr + pj.memsz - 1) : a \div PAGE_SIZE \in Pages(pj)
    BY <2>2, BytesInPages
  <2>4. Pages(pj) \subseteq DOMAIN pt /\ InPlace(pj)
    BY <1>2, <1>13, <2>0 DEF Behind
  <2>5. Pages(pj) \cap Pages(ph) = {}
    BY <1>0, <1>2, <1>13, <2>0, <2>1 DEF Separate
  <2>6. ASSUME NEW k \in 0 .. (pj.memsz - 1) PROVE At(pj.vaddr + k)' = At(pj.vaddr + k)
    <3> DEFINE a == pj.vaddr + k
    <3>1. a \in Nat /\ a \in pj.vaddr .. (pj.vaddr + pj.memsz - 1)
      BY <2>2, SMTT(60)
    <3>2. a \div PAGE_SIZE \in Pages(pj)
      BY <2>3, <3>1
    <3>3. a \notin ph.vaddr .. (ph.vaddr + ph.memsz - 1)
      BY <1>4, <2>5, <3>2
    <3>0. a \in Nat
      BY <3>1
    <3> HIDE DEF a
    <3>4. /\ a \notin ph.vaddr .. (ph.vaddr + ph.filesz - 1)
          /\ a \notin (ph.vaddr + ph.filesz) .. (ph.vaddr + ph.memsz - 1)
      <4>1. a < ph.vaddr \/ a > ph.vaddr + ph.memsz - 1
        BY <1>3, <3>0, <3>3, SMTT(60)
      <4>. QED
        BY <1>3, <3>0, <4>1, SMTT(60)
    <3>5. a \div PAGE_SIZE \in DOMAIN pt
      BY <2>4, <3>2
    <3>6. At(a)' = At(a)
      BY <1>11, <3>1, <3>4, <3>5
    <3>. QED
      BY <3>6 DEF a
  <2>7. InPlace(pj)'
    BY <2>4, <2>6 DEF InPlace
  <2>. QED
    BY <1>1, <2>0, <2>4, <2>7
<1>14. Behind'
  <2>1. ASSUME Separate(phdrs'), NEW j \in 1 .. (i' - 1), phdrs'[j].load
        PROVE  Pages(phdrs'[j]) \subseteq DOMAIN pt' /\ InPlace(phdrs[j])'
    <3>1. i \in Nat /\ (j = i \/ j \in 1 .. (i - 1))
      BY <1>1, <1>2, SMTT(60) DEF ElfTypeOK
    <3>2. CASE j = i
      <4>1. phdrs'[j] = ph
        BY <1>0, <1>1, <3>2
      <4>. QED
        BY <1>1, <1>4, <1>12, <4>1
    <3>3. CASE j \in 1 .. (i - 1)
      BY <1>1, <1>13, <2>1, <3>3
    <3>. QED
      BY <3>1, <3>2, <3>3
  <2>. QED
    BY <2>1 DEF Behind
<1>. QED
  BY <1>10, <1>14

\* The file's part of segment i, copied to memory.
LEMMA FileCopied ==
  ASSUME ElfConstants, ElfInv, InSegment, page = num_pages(phdrs[i])
  PROVE  Copied(Written(mem, FileBytes(phdrs[i])))
<1> DEFINE ph == phdrs[i]
           b == FileBytes(ph)
<1>1. i \in DOMAIN phdrs /\ Mapping /\ ElfTypeOK /\ mem \in Seq(Contents)
  BY DEF ElfInv, ElfPlace, Mapping
<1>2. /\ ph \in Phdr /\ ph.vaddr \in Nat /\ ph.filesz \in Nat /\ ph.memsz \in Nat
      /\ ph.filesz <= ph.memsz /\ ph.offset \in Nat
  BY <1>1, HeaderType DEF Phdr
<1>3. /\ Pages(ph) \subseteq DOMAIN pt
      /\ \A a \in ph.vaddr .. (ph.vaddr + ph.memsz - 1) : a \div PAGE_SIZE \in Pages(ph)
  BY SegmentMapped
<1> HIDE DEF ph
<1>4. /\ DOMAIN b = ph.vaddr .. (ph.vaddr + ph.filesz - 1)
      /\ \A a \in DOMAIN b : b[a] = ph.offset + (a - ph.vaddr)
  BY DEF FileBytes
<1> HIDE DEF b
<1>5. /\ DOMAIN b \subseteq Nat /\ DOMAIN b \subseteq ph.vaddr .. (ph.vaddr + ph.memsz - 1)
      /\ \A a \in DOMAIN b : b[a] \in Int
  BY <1>2, <1>4, SMTT(60)
<1>6. \A a \in DOMAIN b : a \div PAGE_SIZE \in DOMAIN pt
  BY <1>3, <1>5
<1>7. /\ Written(mem, b) \in Seq(Contents) /\ Len(Written(mem, b)) = Len(mem)
      /\ \A a \in Nat : a \div PAGE_SIZE \in DOMAIN pt =>
           Written(mem, b)[pt[a \div PAGE_SIZE]][a % PAGE_SIZE] =
             IF a \in DOMAIN b THEN b[a] ELSE mem[pt[a \div PAGE_SIZE]][a % PAGE_SIZE]
  BY <1>1, <1>5, <1>6, WrittenAt, SMTT(60)
<1>8. Copied(Written(mem, b))
  <2> DEFINE w == Written(mem, b)
  <2> HIDE DEF w
  <2>1. w \in Seq(Contents) /\ Len(w) = Len(mem)
    BY <1>7 DEF w
  <2>2. ASSUME NEW a \in Nat, a \div PAGE_SIZE \in DOMAIN pt
        PROVE  w[pt[a \div PAGE_SIZE]][a % PAGE_SIZE] =
                 IF a \in ph.vaddr .. (ph.vaddr + ph.filesz - 1)
                 THEN ph.offset + (a - ph.vaddr) ELSE At(a)
    BY <1>4, <1>7, <2>2 DEF w, At
  <2>. QED
    BY <2>1, <2>2 DEF Copied, w, ph
<1>. QED
  BY <1>8 DEF b, ph

\* A segment with no part in the file needs no copy.
LEMMA NothingCopied ==
  ASSUME ElfConstants, ElfInv, InSegment, phdrs[i].filesz = 0
  PROVE  Copied(mem)
<1>1. mem \in Seq(Contents) /\ i \in DOMAIN phdrs /\ ElfTypeOK
  BY DEF ElfInv, ElfPlace, Mapping
<1>2. phdrs[i].vaddr \in Nat
  BY <1>1, HeaderType DEF Phdr
<1>3. phdrs[i].vaddr .. (phdrs[i].vaddr + phdrs[i].filesz - 1) = {}
  BY <1>2, SMTT(60)
<1>. QED
  BY <1>1, <1>3 DEF Copied, At

\* A new frame for one more page of segment i: the segments before it are
\* in other pages.
LEMMA MapKeeps ==
  ASSUME ElfConstants, ElfInv, MapPage
  PROVE  Mapping' /\ Behind'
<1>0. PICK ph : ph = phdrs[i]
  OBVIOUS
<1> DEFINE v == start_page(ph) + page
           f == Len(mem) + 1
           new == [k \in 0 .. (PAGE_SIZE - 1) |-> Junk]
<1>1. /\ elf_pc = "map" /\ page < num_pages(ph)
      /\ mem' = Append(mem, new)
      /\ pt' = [p \in DOMAIN pt \cup {v} |-> IF p = v THEN f ELSE pt[p]]
      /\ page' = page + 1 /\ phdrs' = phdrs /\ i' = i /\ elf_pc' = elf_pc
  BY <1>0 DEF MapPage
<1>2. i \in DOMAIN phdrs /\ ph.load /\ Mapping /\ Behind /\ ElfTypeOK /\ InSegment
  BY <1>0, <1>1 DEF ElfInv, ElfPlace, InSegment
<1>3. ph \in Phdr
  BY <1>0, <1>2, HeaderType
<1>4. start_page(ph) \in Nat /\ end_page(ph) \in Nat /\ num_pages(ph) \in Nat /\ page \in Nat
  BY <1>2, <1>3, BytesInPages DEF ElfTypeOK
<1>5. v \in Pages(ph)
  BY <1>1, <1>4, SMTT(60) DEF num_pages, Pages
<1>6. new \in Contents
  BY SMTT(60) DEF Contents, Junk
<1> HIDE DEF new
<1>7. /\ mem \in Seq(Contents) /\ mem' \in Seq(Contents) /\ Len(mem') = Len(mem) + 1
      /\ \A n \in 1 .. Len(mem) : mem'[n] = mem[n]
  BY <1>1, <1>2, <1>6, SMTT(60) DEF Mapping
<1>8. DOMAIN pt' = DOMAIN pt \cup {v} /\ pt'[v] = f /\ \A p \in DOMAIN pt \ {v} : pt'[p] = pt[p]
  BY <1>1
<1>9. \A p \in DOMAIN pt : pt[p] \in 1 .. Len(mem)
  BY <1>2 DEF Mapping
<1>10. \A n \in 0 .. (page - 1) : start_page(ph) + n \in DOMAIN pt
  BY <1>0, <1>2 DEF Mapping
<1>11. Mapping'
  <2>1. pt' \in [DOMAIN pt' -> 1 .. Len(mem')]
    <3>1. \A p \in DOMAIN pt' : pt'[p] \in 1 .. Len(mem')
      BY <1>7, <1>8, <1>9, SMTT(60)
    <3>2. pt' = [p \in DOMAIN pt' |-> pt'[p]]
      BY <1>1
    <3>. QED
      BY <3>1, <3>2
  <2>2. ASSUME NEW p \in DOMAIN pt', NEW q \in DOMAIN pt', pt'[p] = pt'[q] PROVE p = q
    <3>1. CASE p = v \/ q = v
      BY <1>7, <1>8, <1>9, <2>2, <3>1, SMTT(60)
    <3>2. CASE p # v /\ q # v
      BY <1>2, <1>8, <2>2, <3>2 DEF Mapping
    <3>. QED
      BY <3>1, <3>2
  <2>3. ASSUME NEW n \in 0 .. (page' - 1) PROVE start_page(ph) + n \in DOMAIN pt'
    <3>1. n = page \/ n \in 0 .. (page - 1)
      BY <1>1, <1>4, SMTT(60)
    <3>2. CASE n = page
      BY <1>8, <3>2
    <3>3. CASE n \in 0 .. (page - 1)
      BY <1>8, <1>10, <3>3
    <3>. QED
      BY <3>1, <3>2, <3>3
  <2>4. phdrs'[i'] = ph
    BY <1>0, <1>1
  <2>. QED
    BY <1>7, <2>1, <2>2, <2>3, <2>4 DEF Mapping
<1> HIDE DEF v, f
<1>12. ASSUME Separate(phdrs), NEW j \in 1 .. (i - 1), phdrs[j].load
       PROVE  Pages(phdrs[j]) \subseteq DOMAIN pt' /\ InPlace(phdrs[j])'
  <2>0. PICK pj : pj = phdrs[j]
    OBVIOUS
  <2>1. j \in DOMAIN phdrs /\ j # i
    BY <1>2, HeaderType, SMTT(60) DEF ElfTypeOK
  <2>2. pj \in Phdr /\ pj.vaddr \in Nat /\ pj.memsz \in Nat
    BY <1>2, <2>0, <2>1, HeaderType DEF Phdr
  <2>3. \A a \in pj.vaddr .. (pj.vaddr + pj.memsz - 1) : a \div PAGE_SIZE \in Pages(pj)
    BY <2>2, BytesInPages
  <2>4. Pages(pj) \subseteq DOMAIN pt /\ InPlace(pj)
    BY <1>2, <1>12, <2>0 DEF Behind
  <2>5. v \notin Pages(pj)
    BY <1>0, <1>2, <1>5, <1>12, <2>0, <2>1 DEF Separate
  <2>6. ASSUME NEW k \in 0 .. (pj.memsz - 1) PROVE At(pj.vaddr + k)' = At(pj.vaddr + k)
    <3> DEFINE a == pj.vaddr + k
    <3>1. a \in pj.vaddr .. (pj.vaddr + pj.memsz - 1)
      BY <2>2, SMTT(60)
    <3>2. a \div PAGE_SIZE \in Pages(pj)
      BY <2>3, <3>1
    <3> HIDE DEF a
    <3>3. pt'[a \div PAGE_SIZE] = pt[a \div PAGE_SIZE] /\ pt[a \div PAGE_SIZE] \in 1 .. Len(mem)
      BY <1>8, <1>9, <2>4, <2>5, <3>2
    <3>4. At(a)' = At(a)
      BY <1>7, <3>3 DEF At
    <3>. QED
      BY <3>4 DEF a
  <2>7. InPlace(pj)'
    BY <2>4, <2>6 DEF InPlace
  <2>. QED
    BY <1>1, <1>8, <2>0, <2>4, <2>7
<1>13. Behind'
  BY <1>1, <1>12 DEF Behind
<1>. QED
  BY <1>11, <1>13

\* A step that maps and writes nothing, and passes no segment.
LEMMA MemoryStays ==
  ASSUME ElfConstants, ElfInv, phdrs' = phdrs, pt' = pt,
         mem' \in Seq(Contents), Len(mem') >= Len(mem),
         \A n \in 1 .. Len(mem) : mem'[n] = mem[n],
         i' = i \/ (i' = i + 1 /\ ~phdrs[i].load),
         InSegment' => i' = i /\ (page' = 0 \/ (InSegment /\ page' = page))
  PROVE  Mapping' /\ Behind'
<1>1. Mapping /\ Behind /\ ElfTypeOK /\ mem \in Seq(Contents)
  BY DEF ElfInv, Mapping
<1>2. \A p \in DOMAIN pt : pt[p] \in 1 .. Len(mem)
  BY <1>1 DEF Mapping
<1>3. Mapping'
  <2>1. pt' \in [DOMAIN pt' -> 1 .. Len(mem')]
    BY <1>1, <1>2, SMTT(60) DEF Mapping
  <2>2. InSegment' => \A n \in 0 .. (page' - 1) : start_page(phdrs'[i']) + n \in DOMAIN pt'
    <3>1. CASE InSegment' /\ page' = 0
      BY <3>1, SMTT(60)
    <3>2. CASE InSegment' /\ InSegment /\ page' = page
      BY <1>1, <3>2 DEF Mapping
    <3>. QED
      BY <3>1, <3>2
  <2>. QED
    BY <1>1, <2>1, <2>2 DEF Mapping
<1>4. ASSUME Separate(phdrs), NEW j \in 1 .. (i - 1), phdrs[j].load
      PROVE  Pages(phdrs[j]) \subseteq DOMAIN pt' /\ InPlace(phdrs[j])'
  <2>0. PICK pj : pj = phdrs[j]
    OBVIOUS
  <2>1. j \in DOMAIN phdrs
    <3>1. phdrs \in Seq(Phdr)
      BY <1>1 DEF ElfConstants, ElfTypeOK, Phdr
    <3>. QED
      BY <1>1, <3>1, SMTT(60) DEF ElfTypeOK
  <2>2. pj \in Phdr /\ pj.vaddr \in Nat /\ pj.memsz \in Nat
    BY <1>1, <2>0, <2>1, HeaderType DEF Phdr
  <2>3. \A a \in pj.vaddr .. (pj.vaddr + pj.memsz - 1) : a \div PAGE_SIZE \in Pages(pj)
    BY <2>2, BytesInPages
  <2>4. Pages(pj) \subseteq DOMAIN pt /\ InPlace(pj)
    BY <1>1, <1>4, <2>0 DEF Behind
  <2>5. ASSUME NEW k \in 0 .. (pj.memsz - 1) PROVE At(pj.vaddr + k)' = At(pj.vaddr + k)
    <3> DEFINE a == pj.vaddr + k
    <3>1. a \in pj.vaddr .. (pj.vaddr + pj.memsz - 1)
      BY <2>2, SMTT(60)
    <3>2. a \div PAGE_SIZE \in DOMAIN pt
      BY <2>3, <2>4, <3>1
    <3> HIDE DEF a
    <3>3. At(a)' = At(a)
      BY <1>2, <3>2 DEF At
    <3>. QED
      BY <3>3 DEF a
  <2>6. InPlace(pj)'
    BY <2>4, <2>5 DEF InPlace
  <2>. QED
    BY <2>0, <2>4, <2>6
<1>5. Behind'
  <2>1. ASSUME Separate(phdrs'), NEW j \in 1 .. (i' - 1), phdrs'[j].load
        PROVE  Pages(phdrs'[j]) \subseteq DOMAIN pt' /\ InPlace(phdrs[j])'
    <3>1. j \in 1 .. (i - 1)
      BY <1>1, <2>1, SMTT(60) DEF ElfTypeOK
    <3>. QED
      BY <1>4, <2>1, <3>1
  <2>. QED
    BY <2>1 DEF Behind
<1>. QED
  BY <1>3, <1>5

\* The start.
LEMMA ElfStart == ElfConstants /\ ElfInit => ElfInv
<1> SUFFICES ASSUME ElfConstants, ElfInit PROVE ElfInv
  OBVIOUS
<1>1. phdrs \in Seq(Phdr)
  BY DEF ElfInit, ElfConstants, Phdr
<1>2. ElfTypeOK
  <2>1. entered \in BOOLEAN
    BY DEF ElfInit
  <2>2. i \in 1 .. (Len(phdrs) + 1) /\ page \in Nat
    BY <1>1, SMTT(60) DEF ElfInit
  <2>. QED
    BY <2>1, <2>2, SMTT(60) DEF ElfInit, ElfTypeOK
<1>3. ElfPlace
  BY SMTT(60) DEF ElfInit, ElfPlace, InSegment
<1>4. Mapping /\ Behind
  BY SMTT(60) DEF ElfInit, Mapping, Behind, InSegment
<1>. QED
  BY <1>2, <1>3, <1>4 DEF ElfInv

\* The steps up to the loop.
LEMMA HeaderSteps ==
  ASSUME ElfConstants, ElfInv, Open \/ Header \/ AllocHeaders \/ ReadHeaders \/ AllocBuffer
  PROVE  ElfInv'
<1>0. ElfTypeOK /\ ElfPlace /\ mem \in Seq(Contents)
  BY DEF ElfInv, Mapping
<1>1. /\ phdrs' = phdrs /\ pt' = pt /\ mem' = mem /\ i' = i /\ page' = page
      /\ InSegment' => InSegment
  BY <1>0 DEF Open, Header, AllocHeaders, ReadHeaders, AllocBuffer, Goto, GiveBack, memory,
     InSegment, ElfPlace
<1>2. Mapping' /\ Behind'
  BY <1>0, <1>1, MemoryStays, SMTT(60)
<1>3. entered' \in BOOLEAN
  <2>1. entered' = entered \/ entered' = TRUE
    BY DEF Open, Header, AllocHeaders, ReadHeaders, AllocBuffer
  <2>. QED
    BY <1>0, <2>1 DEF ElfTypeOK
<1>4. ElfPlace'
  <2>1. CASE Open
    BY <1>0, <2>1, SMTT(60) DEF Open, Goto, GiveBack, ElfPlace, InSegment
  <2>2. CASE Header
    BY <1>0, <2>2, SMTT(60) DEF Header, Goto, GiveBack, ElfPlace, InSegment
  <2>3. CASE AllocHeaders
    BY <1>0, <2>3, SMTT(60) DEF AllocHeaders, Goto, GiveBack, ElfPlace, InSegment
  <2>4. CASE ReadHeaders
    BY <1>0, <2>4, SMTT(60) DEF ReadHeaders, Goto, GiveBack, ElfPlace, InSegment
  <2>5. CASE AllocBuffer
    BY <1>0, <1>1, <2>5, SMTT(60) DEF AllocBuffer, Goto, GiveBack, ElfPlace, InSegment
  <2>. QED
    BY <2>1, <2>2, <2>3, <2>4, <2>5
<1>5. held' \subseteq {"file", "phdrs", "buffer"} /\ ret' \in {-1, 0, 1}
  BY <1>0 DEF Open, Header, AllocHeaders, ReadHeaders, AllocBuffer, Goto, GiveBack, ElfTypeOK
<1>6. ElfTypeOK'
  BY <1>0, <1>1, <1>3, <1>5 DEF ElfTypeOK
<1>. QED
  BY <1>2, <1>4, <1>6 DEF ElfInv

\* The head of the loop.
LEMMA LoopSteps ==
  ASSUME ElfConstants, ElfInv, Segment
  PROVE  ElfInv'
<1>0. ElfTypeOK /\ ElfPlace /\ mem \in Seq(Contents) /\ elf_pc = "segment"
  BY DEF ElfInv, Mapping, Segment
<1>1. phdrs \in Seq(Phdr) /\ Len(phdrs) \in Nat /\ i \in 1 .. (Len(phdrs) + 1)
  BY <1>0, SMTT(60) DEF ElfConstants, ElfTypeOK, Phdr
<1>2. phdrs' = phdrs /\ pt' = pt /\ mem' = mem /\ entered' = entered
  BY DEF Segment, GiveBack, memory
<1>3. entered' \in BOOLEAN
  BY <1>0, <1>2 DEF ElfTypeOK
<1>4. CASE i > Len(phdrs)
  <2>1. /\ elf_pc' = "done" /\ held' = held \ {"phdrs", "file"} /\ ret' = 1
        /\ i' = i /\ page' = page
    BY <1>1, <1>4, SMTT(60) DEF Segment, GiveBack
  <2>2. ~InSegment'
    BY <2>1 DEF InSegment
  <2>3. Mapping' /\ Behind'
    BY <1>0, <1>2, <2>1, <2>2, MemoryStays, SMTT(60)
  <2>4. ElfPlace'
    BY <1>0, <1>1, <1>2, <1>4, <2>1, <2>2, SMTT(60) DEF ElfPlace
  <2>5. ElfTypeOK'
    BY <1>0, <1>2, <1>3, <2>1 DEF ElfTypeOK
  <2>. QED
    BY <2>3, <2>4, <2>5 DEF ElfInv
<1>5. CASE i <= Len(phdrs) /\ phdrs[i].load
  <2>1. elf_pc' = "map" /\ page' = 0 /\ i' = i /\ held' = held /\ ret' = ret
    BY <1>1, <1>5, SMTT(60) DEF Segment
  <2>2. Mapping' /\ Behind'
    BY <1>0, <1>2, <2>1, MemoryStays, SMTT(60)
  <2>3. i \in DOMAIN phdrs /\ num_pages(phdrs[i]) \in Nat
    BY <1>0, <1>1, <1>5, HeaderType, BytesInPages, SMTT(60)
  <2>4. ElfPlace'
    BY <1>0, <1>2, <1>5, <2>1, <2>3, SMTT(60) DEF ElfPlace, InSegment
  <2>5. ElfTypeOK'
    BY <1>0, <1>2, <1>3, <2>1 DEF ElfTypeOK
  <2>. QED
    BY <2>2, <2>4, <2>5 DEF ElfInv
<1>6. CASE i <= Len(phdrs) /\ ~phdrs[i].load
  <2>1. elf_pc' = elf_pc /\ page' = page /\ i' = i + 1 /\ held' = held /\ ret' = ret
    BY <1>1, <1>6, SMTT(60) DEF Segment
  <2>2. ~InSegment'
    BY <1>0, <2>1 DEF InSegment
  <2>3. Mapping' /\ Behind'
    BY <1>0, <1>2, <1>6, <2>1, <2>2, MemoryStays, SMTT(60)
  <2>4. ElfPlace'
    BY <1>0, <1>2, <2>1, <2>2, SMTT(60) DEF ElfPlace
  <2>5. ElfTypeOK'
    BY <1>0, <1>1, <1>2, <1>3, <1>6, <2>1, SMTT(60) DEF ElfTypeOK
  <2>. QED
    BY <2>3, <2>4, <2>5 DEF ElfInv
<1>. QED
  BY <1>1, <1>4, <1>5, <1>6, SMTT(60)

\* The pages of a segment.
LEMMA PageSteps ==
  ASSUME ElfConstants, ElfInv, MapPage \/ MapFails
  PROVE  ElfInv'
<1>0. /\ ElfTypeOK /\ ElfPlace /\ mem \in Seq(Contents) /\ elf_pc = "map"
      /\ i \in DOMAIN phdrs /\ page \in Nat /\ page < num_pages(phdrs[i])
      /\ InSegment
  BY DEF ElfInv, Mapping, MapPage, MapFails, ElfTypeOK, ElfPlace, InSegment
<1>1. phdrs' = phdrs /\ i' = i /\ entered' = entered
  BY DEF MapPage, MapFails, GiveBack
<1>2. entered' \in BOOLEAN
  BY <1>0, <1>1 DEF ElfTypeOK
<1>3. num_pages(phdrs[i]) \in Nat
  BY <1>0, HeaderType, BytesInPages
<1>4. CASE MapPage
  <2>1. page' = page + 1 /\ elf_pc' = elf_pc /\ held' = held /\ ret' = ret
    BY <1>4 DEF MapPage
  <2>2. Mapping' /\ Behind'
    BY <1>4, MapKeeps
  <2>3. ElfPlace'
    BY <1>0, <1>1, <1>3, <2>1, SMTT(60) DEF ElfPlace, InSegment
  <2>4. \A p \in DOMAIN pt' : pt'[p] \in DOMAIN mem'
    BY <2>2, SMTT(60) DEF Mapping
  <2>5. ElfTypeOK'
    BY <1>0, <1>1, <1>2, <2>1, <2>4, SMTT(60) DEF ElfTypeOK
  <2>. QED
    BY <2>2, <2>3, <2>5 DEF ElfInv
<1>5. CASE MapFails
  <2> DEFINE new == [k \in 0 .. (PAGE_SIZE - 1) |-> Junk]
  <2>1. /\ mem' = Append(mem, new) /\ pt' = pt /\ page' = page
        /\ elf_pc' = "done" /\ held' = held \ {"phdrs", "file"} /\ ret' = 0
    BY <1>5 DEF MapFails, GiveBack
  <2>2. new \in Contents
    BY SMTT(60) DEF Contents, Junk
  <2> HIDE DEF new
  <2>3. /\ mem' \in Seq(Contents) /\ Len(mem') >= Len(mem)
        /\ \A n \in 1 .. Len(mem) : mem'[n] = mem[n]
    BY <1>0, <2>1, <2>2, SMTT(60)
  <2>4. ~InSegment'
    BY <2>1 DEF InSegment
  <2>5. Mapping' /\ Behind'
    BY <1>1, <2>1, <2>3, <2>4, MemoryStays
  <2>6. ElfPlace'
    BY <1>0, <1>1, <2>1, <2>4, SMTT(60) DEF ElfPlace
  <2>7. \A p \in DOMAIN pt' : pt'[p] \in DOMAIN mem'
    BY <2>3, <2>5, SMTT(60) DEF Mapping
  <2>8. ElfTypeOK'
    BY <1>0, <1>1, <1>2, <2>1, <2>7 DEF ElfTypeOK
  <2>. QED
    BY <2>5, <2>6, <2>8 DEF ElfInv
<1>. QED
  BY <1>4, <1>5

\* Out of the middle of a segment, with everything given back.
LEMMA FailsInSegment ==
  ASSUME ElfConstants, ElfInv, InSegment, NEW r, held \subseteq r, GiveBack(r, 0),
         UNCHANGED <<memory, entered>>
  PROVE  ElfInv'
<1>0. ElfTypeOK /\ ElfPlace /\ mem \in Seq(Contents)
  BY DEF ElfInv, Mapping
<1>1. /\ phdrs' = phdrs /\ pt' = pt /\ mem' = mem /\ i' = i /\ page' = page
      /\ elf_pc' = "done" /\ held' = {} /\ ret' = 0 /\ entered' = entered
  BY DEF GiveBack, memory
<1>2. entered' \in BOOLEAN
  BY <1>0, <1>1 DEF ElfTypeOK
<1>3. ~InSegment'
  BY <1>1 DEF InSegment
<1>4. Mapping' /\ Behind'
  BY <1>0, <1>1, <1>3, MemoryStays, SMTT(60)
<1>5. ElfPlace'
  BY <1>0, <1>1, <1>3, SMTT(60) DEF ElfPlace
<1>6. ElfTypeOK'
  BY <1>0, <1>1, <1>2 DEF ElfTypeOK
<1>. QED
  BY <1>4, <1>5, <1>6 DEF ElfInv

\* The last step of a segment.
LEMMA ZeroStep ==
  ASSUME ElfConstants, ElfInv, InSegment, page = num_pages(phdrs[i]),
         NEW m, Copied(m), ZeroRest(m), held' = {"file", "phdrs"}
  PROVE  ElfInv'
<1>0. ElfTypeOK /\ ElfPlace /\ i \in DOMAIN phdrs
  BY DEF ElfInv, ElfPlace
<1>1. /\ phdrs' = phdrs /\ pt' = pt /\ i' = i + 1 /\ page' = page
      /\ elf_pc' = "segment" /\ ret' = ret /\ entered' = entered
  BY DEF ZeroRest
<1>2. entered' \in BOOLEAN
  BY <1>0, <1>1 DEF ElfTypeOK
<1>3. Mapping' /\ Behind'
  BY ZeroKeeps
<1>4. ~InSegment'
  BY <1>1 DEF InSegment
<1>5. ElfPlace'
  BY <1>0, <1>1, <1>4, SMTT(60) DEF ElfPlace, InSegment
<1>6. \A p \in DOMAIN pt' : pt'[p] \in DOMAIN mem'
  BY <1>3, SMTT(60) DEF Mapping
<1>7. i' \in 1 .. (Len(phdrs') + 1)
  <2>1. phdrs \in Seq(Phdr)
    BY <1>0, HeaderType
  <2>. QED
    BY <1>0, <1>1, <2>1, SMTT(60)
<1>8. ElfTypeOK'
  BY <1>0, <1>1, <1>2, <1>6, <1>7 DEF ElfTypeOK
<1>. QED
  BY <1>3, <1>5, <1>8 DEF ElfInv

\* The data of a segment.
LEMMA DataSteps ==
  ASSUME ElfConstants, ElfInv, Seek \/ ReadSegment
  PROVE  ElfInv'
<1>0. ElfTypeOK /\ ElfPlace /\ mem \in Seq(Contents)
  BY DEF ElfInv, Mapping
<1>1. CASE Seek
  <2>1. elf_pc = "map" /\ page = num_pages(phdrs[i])
    BY <1>1 DEF Seek
  <2>2. held = {"file", "phdrs"} /\ InSegment
    BY <1>0, <2>1 DEF ElfPlace, InSegment
  <2>3. CASE Goto("buffer", held) /\ UNCHANGED <<memory, entered>>
    <3>1. /\ phdrs' = phdrs /\ pt' = pt /\ mem' = mem /\ i' = i /\ page' = page
          /\ elf_pc' = "buffer" /\ held' = held /\ ret' = ret /\ entered' = entered
      BY <2>3 DEF Goto, memory
    <3>2. entered' \in BOOLEAN
      BY <1>0, <3>1 DEF ElfTypeOK
    <3>3. Mapping' /\ Behind'
      BY <1>0, <2>2, <3>1, MemoryStays, SMTT(60)
    <3>4. ElfPlace'
      BY <1>0, <2>1, <2>2, <3>1 DEF ElfPlace, InSegment
    <3>5. ElfTypeOK'
      BY <1>0, <3>1, <3>2 DEF ElfTypeOK
    <3>. QED
      BY <3>3, <3>4, <3>5 DEF ElfInv
  <2>4. CASE phdrs[i].filesz = 0 /\ ZeroRest(mem) /\ UNCHANGED held
    BY <2>1, <2>2, <2>4, NothingCopied, ZeroStep
  <2>5. CASE GiveBack({"phdrs", "file"}, 0) /\ UNCHANGED <<memory, entered>>
    BY <2>2, <2>5, FailsInSegment
  <2>. QED
    BY <1>1, <2>3, <2>4, <2>5 DEF Seek
<1>2. CASE ReadSegment
  <2>1. /\ elf_pc = "read" /\ InSegment /\ page = num_pages(phdrs[i])
        /\ held = {"file", "phdrs", "buffer"}
    BY <1>0, <1>2 DEF ReadSegment, ElfPlace, InSegment
  <2>2. CASE ZeroRest(Written(mem, FileBytes(phdrs[i]))) /\ held' = held \ {"buffer"}
    <3>1. held' = {"file", "phdrs"}
      BY <2>1, <2>2
    <3>. QED
      BY <2>1, <2>2, <3>1, FileCopied, ZeroStep
  <2>3. CASE GiveBack({"buffer", "phdrs", "file"}, 0) /\ UNCHANGED <<memory, entered>>
    BY <2>1, <2>3, FailsInSegment
  <2>. QED
    BY <1>2, <2>2, <2>3 DEF ReadSegment, FileBytes
<1>. QED
  BY <1>1, <1>2

\* Every step keeps the invariant of the loader.
LEMMA ElfStep == ElfConstants /\ ElfInv /\ [elf_load]_elfVars => ElfInv'
<1> SUFFICES ASSUME ElfConstants, ElfInv, [elf_load]_elfVars PROVE ElfInv'
  OBVIOUS
<1>1. CASE UNCHANGED elfVars
  <2>1. /\ phdrs' = phdrs /\ pt' = pt /\ mem' = mem /\ i' = i /\ page' = page
        /\ elf_pc' = elf_pc /\ held' = held /\ ret' = ret /\ entered' = entered
    BY <1>1 DEF elfVars
  <2>2. entered' \in BOOLEAN
    BY <2>1 DEF ElfInv, ElfTypeOK
  <2>3. ElfTypeOK' /\ ElfPlace'
    BY <2>1, <2>2 DEF ElfInv, ElfTypeOK, ElfPlace, InSegment
  <2>4. Mapping' /\ Behind'
    BY <2>1, MemoryStays, SMTT(60) DEF ElfInv, Mapping, InSegment
  <2>. QED
    BY <2>3, <2>4 DEF ElfInv
<1>2. CASE elf_load
  BY <1>2, HeaderSteps, LoopSteps, PageSteps, DataSteps DEF elf_load
<1>. QED
  BY <1>1, <1>2

\* For programs and pages of any size: elf_load has closed the file and freed
\* both allocations on every way out, whichever of its calls fails.
THEOREM LoaderGivesBack == ElfConstants => (ElfSpec => []GivesBack)
<1> SUFFICES ASSUME ElfConstants PROVE ElfSpec => []GivesBack
  OBVIOUS
<1>1. ElfInit => ElfInv
  BY ElfStart
<1>2. ElfInv /\ [elf_load]_elfVars => ElfInv'
  BY ElfStep
<1>3. ElfInv => GivesBack
  BY DEF ElfInv, ElfPlace, GivesBack
<1>. QED
  BY <1>1, <1>2, <1>3, PTL DEF ElfSpec

\* For programs and pages of any size: no two pages share a frame, and after
\* a success of elf_load the segments of a program are in memory, each byte
\* of the file at its address and zeros behind them.
THEOREM SegmentsInMemory == ElfConstants => (ElfSpec => []Loaded)
<1> SUFFICES ASSUME ElfConstants PROVE ElfSpec => []Loaded
  OBVIOUS
<1>1. ElfInit => ElfInv
  BY ElfStart
<1>2. ElfInv /\ [elf_load]_elfVars => ElfInv'
  BY ElfStep
<1>3. ElfInv => Loaded
  <2> SUFFICES ASSUME ElfInv PROVE Loaded
    OBVIOUS
  <2>1. \A p, q \in DOMAIN pt : pt[p] = pt[q] => p = q
    BY DEF ElfInv, Mapping
  <2>2. ret = 1 => entered /\ i = Len(phdrs) + 1
    BY DEF ElfInv, ElfPlace
  <2>3. phdrs \in Seq(Phdr)
    BY DEF ElfInv, ElfConstants, ElfTypeOK, Phdr
  <2>4. ASSUME ret = 1, Separate(phdrs), NEW j \in DOMAIN phdrs, phdrs[j].load
        PROVE  InPlace(phdrs[j])
    <3>1. j \in 1 .. (i - 1)
      BY <2>2, <2>3, <2>4, SMTT(60)
    <3>. QED
      BY <2>4, <3>1 DEF ElfInv, Behind
  <2>. QED
    BY <2>1, <2>2, <2>4 DEF Loaded
<1>. QED
  BY <1>1, <1>2, <1>3, PTL DEF ElfSpec
=============================================================================
