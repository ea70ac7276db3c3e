---------------------------- MODULE PagingProofs ----------------------------
(***************************************************************************)
(* Proofs about module Paging, for tables of any size, any pool and any    *)
(* set of pages, where the pool lies at a page boundary (OFFSET = 0; the   *)
(* run table_alignment shows what happens otherwise).                      *)
(***************************************************************************)
EXTENDS Paging, TLAPS

\* Zenon, which knows no arithmetic, is tried first; a leaf beyond it names SMT.
USE ZenonT(60), SMTT(60)

-----------------------------------------------------------------------------
(* The invariant.  The root, the boot loader's three tables and those the  *)
(* pool has handed out each have a level; an entry above the last level    *)
(* leads to a table one level down that no other entry leads to, and an    *)
(* entry of the last level to a frame.                                     *)

Tables(u) == {n * SPAN : n \in 0 .. (SPAN + 2 + u)}
Quads == Index \X Index \X Index \X Index

\* The entry grants what a caller may ask for.
Asked(e) == e.addr \in Frames /\ \E fl \in FlagSets : {"W"} \cap e.flags = Space!Granted(fl)

Down(m, u, lev) ==
  \A t \in Tables(u), i \in Index : m[t + i].present =>
    /\ lev[t] < 3 => /\ m[t + i].addr \in Tables(u)
                     /\ lev[m[t + i].addr] = lev[t] + 1
                     /\ m[t + i].flags = {"W"}
    /\ lev[t] = 3 => Asked(m[t + i])

Linked(m, u, lev) ==
  \A t \in Tables(u) \ {ROOT} : \E s \in Tables(u), i \in Index :
    lev[s] < 3 /\ m[s + i].present /\ m[s + i].addr = t

OneParent(m, u, lev) ==
  \A s, t \in Tables(u), i, j \in Index :
    (/\ lev[s] < 3 /\ m[s + i].present
     /\ lev[t] < 3 /\ m[t + j].present /\ m[s + i].addr = m[t + j].addr) => s = t /\ i = j

Levels(m, u, lev) ==
  /\ m \in [Words -> Entry] /\ u \in 0 .. POOL
  /\ lev \in [Tables(u) -> 0 .. 3] /\ lev[ROOT] = 0
  /\ Down(m, u, lev) /\ Linked(m, u, lev) /\ OneParent(m, u, lev)

\* The tables are a tree, and what the processor holds is what they say.
IInv ==
  /\ TlbCoherent /\ DOMAIN tlb \subseteq Pages /\ ret \in {0, -1}
  /\ \E lev : Levels(mem, used, lev)

-----------------------------------------------------------------------------
(* Addresses.                                                              *)

\* Different multiples of SPAN are at least SPAN apart.
LEMMA Apart ==
  ASSUME NEW m \in Nat, NEW n \in Nat, m < n
  PROVE  m * SPAN + SPAN <= n * SPAN
<1>1. SPAN \in Nat /\ m + 1 <= n
  BY PagingConstants, SMTT(60)
<1>2. PICK d \in Nat : n = m + 1 + d
  <2>1. n - m - 1 \in Nat /\ n = m + 1 + (n - m - 1)
    BY <1>1, SMTT(60)
  <2>. QED
    BY <2>1
<1>3. n * SPAN = m * SPAN + SPAN + d * SPAN
  BY <1>1, <1>2, SMTT(60)
<1>4. d * SPAN \in Nat /\ m * SPAN \in Nat /\ n * SPAN \in Nat
  BY <1>1, SMTT(60)
<1>. QED
  BY <1>1, <1>3, <1>4, SMTT(60)

\* An address belongs to one entry of one table.
LEMMA EntryApart ==
  ASSUME NEW s \in Tables(POOL), NEW t \in Tables(POOL), NEW i \in Index, NEW j \in Index,
         s + i = t + j
  PROVE  s = t /\ i = j
<1>0. SPAN \in Nat \ {0} /\ POOL \in Nat
  BY PagingConstants
<1>1. PICK m \in 0 .. (SPAN + 2 + POOL) : s = m * SPAN
  BY DEF Tables
<1>2. PICK n \in 0 .. (SPAN + 2 + POOL) : t = n * SPAN
  BY DEF Tables
<1>3. s \in Nat /\ t \in Nat /\ i \in 0 .. (SPAN - 1) /\ j \in 0 .. (SPAN - 1)
  BY <1>0, <1>1, <1>2, SMTT(60) DEF Index
<1>4. ~ (m < n)
  <2> SUFFICES ASSUME m < n PROVE FALSE
    OBVIOUS
  <2>1. s + SPAN <= t
    BY <1>0, <1>1, <1>2, Apart, SMTT(60)
  <2>. QED
    BY <2>1, <1>0, <1>3, SMTT(60)
<1>5. ~ (n < m)
  <2> SUFFICES ASSUME n < m PROVE FALSE
    OBVIOUS
  <2>1. t + SPAN <= s
    BY <1>0, <1>1, <1>2, Apart, SMTT(60)
  <2>. QED
    BY <2>1, <1>0, <1>3, SMTT(60)
<1>6. m = n
  BY <1>0, <1>4, <1>5, SMTT(60)
<1>. QED
  BY <1>0, <1>1, <1>2, <1>3, <1>6, SMTT(60)

\* The rest of an address is the index of the entry in its table.
LEMMA EntryMod ==
  ASSUME NEW n \in Nat, NEW i \in Index
  PROVE  (n * SPAN + i) % SPAN = i /\ Aligned(n * SPAN + i) = n * SPAN
<1>0. SPAN \in Nat \ {0} /\ i \in 0 .. (SPAN - 1) /\ n * SPAN \in Nat
  BY PagingConstants, SMTT(60) DEF Index
<1> DEFINE x == n * SPAN + i
           q == x \div SPAN
           r == x % SPAN
<1>1. x \in Nat
  BY <1>0, SMTT(60)
<1>2. x = SPAN * q + r /\ r \in 0 .. (SPAN - 1) /\ q \in Int
  BY <1>0, <1>1, SMTT(60)
<1>3. q \in Nat
  <2> SUFFICES ASSUME q <= -1 PROVE FALSE
    BY <1>2, SMTT(60)
  <2>1. SPAN * q <= SPAN * (-1)
    BY <1>0, <1>2, SMTT(60)
  <2>. QED
    BY <1>0, <1>1, <1>2, <2>1, SMTT(60)
<1>4. x = q * SPAN + r /\ q * SPAN \in Nat
  BY <1>0, <1>2, <1>3, SMTT(60)
<1>5. x = n * SPAN + i
  OBVIOUS
<1> HIDE DEF q, r, x
<1>6. ~ (n < q)
  <2> SUFFICES ASSUME n < q PROVE FALSE
    OBVIOUS
  <2>1. n * SPAN + SPAN <= q * SPAN
    BY <1>3, Apart
  <2>. QED
    BY <1>0, <1>2, <1>4, <1>5, <2>1, SMTT(60)
<1>7. ~ (q < n)
  <2> SUFFICES ASSUME q < n PROVE FALSE
    OBVIOUS
  <2>1. q * SPAN + SPAN <= n * SPAN
    BY <1>3, Apart
  <2>. QED
    BY <1>0, <1>2, <1>4, <1>5, <2>1, SMTT(60)
<1>8. n = q
  BY <1>3, <1>6, <1>7, SMTT(60)
<1>9. r = i
  <2>1. n * SPAN + i = n * SPAN + r
    BY <1>4, <1>5, <1>8
  <2>. QED
    BY <1>0, <1>2, <2>1, SMTT(60)
<1>10. x % SPAN = i
  BY <1>9 DEF r
<1>11. x - i = n * SPAN
  BY <1>0, <1>5, SMTT(60)
<1>. QED
  BY <1>5, <1>10, <1>11 DEF Aligned

\* Every table lies in the memory, at a page boundary.
LEMMA TableWords ==
  ASSUME OFFSET = 0, NEW t \in Tables(POOL)
  PROVE  /\ t \in Nat /\ Aligned(t) = t
         /\ \A i \in Index : t + i \in Words
<1>0. SPAN \in Nat \ {0} /\ POOL \in Nat
  BY PagingConstants
<1>1. PICK n \in 0 .. (SPAN + 2 + POOL) : t = n * SPAN
  BY DEF Tables
<1>2. t \in Nat
  BY <1>0, <1>1, SMTT(60)
<1>3. t % SPAN = 0
  <2>1. 0 \in Index /\ n \in Nat /\ n * SPAN + 0 = t
    BY <1>0, <1>1, <1>2, SMTT(60) DEF Index
  <2>. QED
    BY <2>1, EntryMod
<1>4. t + SPAN <= (SPAN + 3 + POOL) * SPAN
  BY <1>0, <1>1, Apart, SMTT(60)
<1>5. (SPAN + 3 + POOL) * SPAN = PoolTable(POOL)
  BY <1>0, SMTT(60) DEF PoolTable
<1>6. PoolTable(POOL) \in Nat
  BY <1>0, SMTT(60) DEF PoolTable
<1>. QED
  BY <1>0, <1>2, <1>3, <1>4, <1>5, <1>6, SMTT(60) DEF Aligned, Words, ROOT, Index

\* The pool hands out the table after the last one.
LEMMA NextTable ==
  ASSUME OFFSET = 0, NEW u \in 0 .. POOL
  PROVE  /\ Tables(u) \subseteq Tables(POOL) /\ ROOT \in Tables(u)
         /\ u # POOL => /\ Tables(u + 1) = Tables(u) \cup {PoolTable(u)}
                       /\ PoolTable(u) \notin Tables(u)
                       /\ PoolTable(u) \in Tables(POOL)
<1>0. SPAN \in Nat \ {0} /\ POOL \in Nat /\ u \in Nat
  BY PagingConstants, SMTT(60)
<1>1. PoolTable(u) = (SPAN + 3 + u) * SPAN
  BY <1>0, SMTT(60) DEF PoolTable
<1>2. Tables(u) \subseteq Tables(POOL)
  <2>1. 0 .. (SPAN + 2 + u) \subseteq 0 .. (SPAN + 2 + POOL)
    BY <1>0, SMTT(60)
  <2>. QED
    BY <2>1 DEF Tables
<1>3. ROOT \in Tables(u)
  <2>1. ROOT = 0 * SPAN
    BY <1>0, SMTT(60) DEF ROOT
  <2>. QED
    BY <1>0, <2>1, SMTT(60) DEF Tables
<1>4. ASSUME u # POOL
      PROVE  /\ Tables(u + 1) = Tables(u) \cup {PoolTable(u)}
             /\ PoolTable(u) \notin Tables(u)
             /\ PoolTable(u) \in Tables(POOL)
  <2>1. 0 .. (SPAN + 2 + (u + 1)) = (0 .. (SPAN + 2 + u)) \cup {SPAN + 3 + u}
    BY <1>0, SMTT(60)
  <2>2. Tables(u + 1) = Tables(u) \cup {PoolTable(u)}
    BY <1>1, <2>1 DEF Tables
  <2>3. ASSUME PoolTable(u) \in Tables(u)
        PROVE  FALSE
    <3>1. PICK n \in 0 .. (SPAN + 2 + u) : PoolTable(u) = n * SPAN
      BY <2>3 DEF Tables
    <3>2. n * SPAN + SPAN <= (SPAN + 3 + u) * SPAN
      BY <1>0, Apart, SMTT(60)
    <3>3. n * SPAN \in Nat
      BY <1>0, SMTT(60)
    <3>. QED
      BY <1>0, <1>1, <3>1, <3>2, <3>3, SMTT(60)
  <2>4. PoolTable(u) \in Tables(POOL)
    <3>1. SPAN + 3 + u \in 0 .. (SPAN + 2 + POOL)
      BY <1>0, <1>4, SMTT(60)
    <3>. QED
      BY <1>1, <3>1 DEF Tables
  <2>. QED
    BY <2>2, <2>3, <2>4
<1>. QED
  BY <1>2, <1>3, <1>4

-----------------------------------------------------------------------------
(* A table is added to the tree.                                           *)

\* The memory of the tables with a fresh one, n, linked at entry i of a.
Grown(m, u, a, i) == SetEntry(Zeroed(m, PoolTable(u)), a, i, Present(PoolTable(u), {"W"}))

\* The fresh table is empty, its parent's entry leads to it, and nothing else
\* has changed.
LEMMA GrownMemory ==
  ASSUME OFFSET = 0, NEW m \in [Words -> Entry], NEW u \in 0 .. POOL, u # POOL,
         NEW a \in Tables(u), NEW i \in Index
  PROVE  /\ Grown(m, u, a, i) \in [Words -> Entry]
         /\ Grown(m, u, a, i)[a + i] = Present(PoolTable(u), {"W"})
         /\ \A j \in Index : Grown(m, u, a, i)[PoolTable(u) + j] = Absent
         /\ \A t \in Tables(u), j \in Index :
              <<t, j>> # <<a, i>> => Grown(m, u, a, i)[t + j] = m[t + j]
<1> DEFINE n == PoolTable(u)
           e == Present(n, {"W"})
           z == Zeroed(m, n)
<1>1. n \in Tables(POOL) /\ n \notin Tables(u) /\ Tables(u) \subseteq Tables(POOL)
  BY NextTable
<1>2. /\ n \in Nat /\ a \in Nat /\ a + i \in Words
      /\ \A t \in Tables(POOL), j \in Index : t \in Nat /\ t + j \in Words
  BY <1>1, TableWords
<1>3. e \in Entry /\ Absent \in Entry
  BY <1>2 DEF Present, Absent, Entry, Rights
<1>4. z \in [Words -> Entry] /\ Grown(m, u, a, i) = [z EXCEPT ![a + i] = e]
  BY <1>3 DEF Grown, SetEntry, Zeroed
<1>5. \A j \in Index : n + j \in Words /\ z[n + j] = Absent
  <2> SUFFICES ASSUME NEW j \in Index PROVE n + j \in Words /\ z[n + j] = Absent
    OBVIOUS
  <2>1. n + j \in Words
    BY <1>1, <1>2
  <2>2. (n + j) - n = j
    BY <1>2, PagingConstants, SMTT(60) DEF Index
  <2>. QED
    BY <2>1, <2>2 DEF Zeroed
<1>6. \A t \in Tables(u), j \in Index : t + j \in Words /\ z[t + j] = m[t + j]
  <2> SUFFICES ASSUME NEW t \in Tables(u), NEW j \in Index
               PROVE  t + j \in Words /\ z[t + j] = m[t + j]
    OBVIOUS
  <2>1. t \in Tables(POOL) /\ t + j \in Words /\ t \in Nat
    BY <1>1, <1>2
  <2>2. ASSUME (t + j) - n \in Index PROVE FALSE
    <3> DEFINE k == (t + j) - n
    <3>1. k \in Index /\ n + k = t + j
      BY <1>2, <2>1, <2>2, PagingConstants, SMTT(60) DEF Index
    <3>2. n = t
      BY <1>1, <2>1, <3>1, EntryApart
    <3>. QED
      BY <3>2, <1>1
  <2>. QED
    BY <2>1, <2>2 DEF Zeroed
<1>7. \A t \in Tables(POOL), j \in Index : t + j = a + i => t = a /\ j = i
  BY <1>1, EntryApart, SMTT(60)
<1> HIDE DEF n, e, z
<1>. QED
  <2>1. Grown(m, u, a, i) \in [Words -> Entry] /\ Grown(m, u, a, i)[a + i] = e
    BY <1>2, <1>3, <1>4
  <2>2. \A j \in Index : Grown(m, u, a, i)[n + j] = Absent
    BY <1>1, <1>4, <1>5, <1>7
  <2>3. \A t \in Tables(u), j \in Index :
          <<t, j>> # <<a, i>> => Grown(m, u, a, i)[t + j] = m[t + j]
    BY <1>1, <1>4, <1>6, <1>7
  <2>. QED
    BY <2>1, <2>2, <2>3 DEF n, e

\* The level of the fresh table is one below its parent's.
LevelsGrown(lev, u, a) ==
  [t \in Tables(u + 1) |-> IF t = PoolTable(u) THEN lev[a] + 1 ELSE lev[t]]

\* With the fresh table the tables are still a tree.
LEMMA GrownTree ==
  ASSUME OFFSET = 0, NEW m, NEW u, NEW lev, Levels(m, u, lev), u # POOL,
         NEW a \in Tables(u), lev[a] < 3, NEW i \in Index, ~ m[a + i].present
  PROVE  Levels(Grown(m, u, a, i), u + 1, LevelsGrown(lev, u, a))
<1> DEFINE n == PoolTable(u)
           g == Grown(m, u, a, i)
           lv == LevelsGrown(lev, u, a)
<1>1. m \in [Words -> Entry] /\ u \in 0 .. POOL /\ lev \in [Tables(u) -> 0 .. 3]
  BY DEF Levels
<1>2. Tables(u + 1) = Tables(u) \cup {n} /\ n \notin Tables(u) /\ ROOT \in Tables(u)
  BY <1>1, NextTable
<1>3. /\ g \in [Words -> Entry]
      /\ g[a + i] = Present(n, {"W"})
      /\ \A j \in Index : g[n + j] = Absent
      /\ \A t \in Tables(u), j \in Index : <<t, j>> # <<a, i>> => g[t + j] = m[t + j]
  BY <1>1, GrownMemory, SMTT(60)
<1>4. /\ lv \in [Tables(u + 1) -> 0 .. 3] /\ lv[n] = lev[a] + 1
      /\ \A t \in Tables(u) : lv[t] = lev[t]
  BY <1>1, <1>2, SMTT(60) DEF LevelsGrown
<1>5. u + 1 \in 0 .. POOL
  BY <1>1, PagingConstants, SMTT(60)
<1>6. /\ g[a + i].present /\ g[a + i].addr = n /\ g[a + i].flags = {"W"}
      /\ \A j \in Index : ~ g[n + j].present
  BY <1>3, SMTT(60) DEF Present, Absent
<1> HIDE DEF n, g, lv
<1>7. Down(g, u + 1, lv)
  <2> SUFFICES ASSUME NEW t \in Tables(u + 1), NEW j \in Index, g[t + j].present
               PROVE  /\ lv[t] < 3 => /\ g[t + j].addr \in Tables(u + 1)
                                      /\ lv[g[t + j].addr] = lv[t] + 1
                                      /\ g[t + j].flags = {"W"}
                      /\ lv[t] = 3 => Asked(g[t + j])
    BY DEF Down
  <2>1. t \in Tables(u)
    BY <1>2, <1>6
  <2>2. CASE <<t, j>> = <<a, i>>
    BY <2>1, <2>2, <1>2, <1>4, <1>6, SMTT(60)
  <2>3. CASE <<t, j>> # <<a, i>>
    BY <2>1, <2>3, <1>2, <1>3, <1>4, SMTT(60) DEF Levels, Down
  <2>. QED
    BY <2>2, <2>3
<1>8. Linked(g, u + 1, lv)
  <2> SUFFICES ASSUME NEW t \in Tables(u + 1) \ {ROOT}
               PROVE  \E s \in Tables(u + 1), j \in Index :
                        lv[s] < 3 /\ g[s + j].present /\ g[s + j].addr = t
    BY DEF Linked
  <2>1. CASE t = n
    BY <2>1, <1>2, <1>4, <1>6
  <2>2. CASE t # n
    <3>1. PICK s \in Tables(u), j \in Index :
            lev[s] < 3 /\ m[s + j].present /\ m[s + j].addr = t
      BY <1>2, <2>2 DEF Levels, Linked
    <3>2. <<s, j>> # <<a, i>>
      BY <3>1
    <3>3. lv[s] < 3 /\ g[s + j].present /\ g[s + j].addr = t
      BY <1>3, <1>4, <3>1, <3>2
    <3>. QED
      BY <1>2, <3>3
  <2>. QED
    BY <2>1, <2>2
<1>9. OneParent(g, u + 1, lv)
  <2> SUFFICES ASSUME NEW s \in Tables(u + 1), NEW t \in Tables(u + 1),
                      NEW j \in Index, NEW k \in Index,
                      lv[s] < 3, g[s + j].present, lv[t] < 3, g[t + k].present,
                      g[s + j].addr = g[t + k].addr
               PROVE  s = t /\ j = k
    BY SMTT(60) DEF OneParent
  <2>1. s \in Tables(u) /\ t \in Tables(u)
    BY <1>2, <1>6
  <2>2. \A v \in Tables(u), l \in Index :
          (lev[v] < 3 /\ m[v + l].present) => m[v + l].addr # n
    BY <1>2, SMTT(60) DEF Levels, Down
  <2>3. CASE <<s, j>> = <<a, i>> \/ <<t, k>> = <<a, i>>
    BY <2>1, <2>2, <2>3, <1>3, <1>4, <1>6, SMTT(60)
  <2>4. CASE <<s, j>> # <<a, i>> /\ <<t, k>> # <<a, i>>
    BY <2>1, <2>4, <1>3, <1>4, SMTT(60) DEF Levels, OneParent
  <2>. QED
    BY <2>3, <2>4
<1>. QED
  BY <1>2, <1>3, <1>4, <1>5, <1>7, <1>8, <1>9 DEF Levels, lv, g

-----------------------------------------------------------------------------
(* The walk through a tree.                                                *)

\* A walk that has got to the table or frame at a, with the rights F.
At(a, F) == {[addr |-> a, flags |-> F]}

\* The entry of a table, with the rights that led there.
LEMMA FollowOne ==
  ASSUME NEW m, NEW a, NEW F, NEW i
  PROVE  /\ Follow(m, {}, i) = {}
         /\ Follow(m, At(a, F), i) =
              IF m[a + i].present
              THEN At(Aligned(m[a + i].addr), F \cap m[a + i].flags)
              ELSE {}
<1>1. Follow(m, {}, i) = {}
  BY DEF Follow
<1> DEFINE r == [addr |-> a, flags |-> F]
<1>2. r.addr = a /\ r.flags = F
  OBVIOUS
<1> HIDE DEF r
<1>3. {v \in {r} : m[v.addr + i].present} = IF m[a + i].present THEN {r} ELSE {}
  BY <1>2
<1>4. Follow(m, {r}, i) =
        {[addr |-> Aligned(m[t.addr + i].addr), flags |-> t.flags \cap m[t.addr + i].flags] :
           t \in (IF m[a + i].present THEN {r} ELSE {})}
  BY <1>3 DEF Follow
<1>5. Follow(m, {r}, i) = IF m[a + i].present
        THEN {[addr |-> Aligned(m[a + i].addr), flags |-> F \cap m[a + i].flags]} ELSE {}
  BY <1>2, <1>4
<1>. QED
  BY <1>1, <1>5 DEF At, r

\* Memories that agree on an entry agree on where it leads.
LEMMA FollowSame ==
  ASSUME NEW m, NEW g, NEW a, NEW F, NEW i, m[a + i] = g[a + i]
  PROVE  Follow(m, At(a, F), i) = Follow(g, At(a, F), i)
<1>1. CASE m[a + i].present
  <2>1. Follow(m, At(a, F), i) = At(Aligned(m[a + i].addr), F \cap m[a + i].flags)
    BY <1>1, FollowOne
  <2>2. Follow(g, At(a, F), i) = At(Aligned(g[a + i].addr), F \cap g[a + i].flags)
    BY <1>1, FollowOne
  <2>. QED
    BY <2>1, <2>2
<1>2. CASE ~ m[a + i].present
  <2>1. Follow(m, At(a, F), i) = {}
    BY <1>2, FollowOne
  <2>2. Follow(g, At(a, F), i) = {}
    BY <1>2, FollowOne
  <2>. QED
    BY <2>1, <2>2
<1>. QED
  BY <1>1, <1>2

\* Frames are page-aligned.
LEMMA FrameAligned == \A f \in Frames : f \in Nat /\ Aligned(f) = f
BY PagingConstants, SMTT(60) DEF Aligned

\* An entry above the last level leads to the table it names, with the right
\* to write.
LEMMA FollowTable ==
  ASSUME OFFSET = 0, NEW m, NEW u, NEW lev, Levels(m, u, lev), NEW a \in Tables(u),
         lev[a] < 3, NEW F, "W" \in F, NEW i \in Index
  PROVE  /\ m[a + i].present => /\ Follow(m, At(a, F), i) = At(m[a + i].addr, {"W"})
                                /\ m[a + i].addr \in Tables(u)
                                /\ lev[m[a + i].addr] = lev[a] + 1
         /\ ~ m[a + i].present => Follow(m, At(a, F), i) = {}
<1>1. u \in 0 .. POOL /\ Tables(u) \subseteq Tables(POOL)
  BY NextTable DEF Levels
<1>2. m[a + i].present => /\ m[a + i].addr \in Tables(u) /\ m[a + i].flags = {"W"}
                          /\ lev[m[a + i].addr] = lev[a] + 1
  BY DEF Levels, Down
<1>3. m[a + i].present => Aligned(m[a + i].addr) = m[a + i].addr
  BY <1>1, <1>2, TableWords
<1>4. F \cap {"W"} = {"W"}
  OBVIOUS
<1>. QED
  BY <1>2, <1>3, <1>4, FollowOne

\* The walk, step by step.
LEMMA WalkSteps ==
  ASSUME NEW m, NEW p
  PROVE  /\ pt_of(m, p) =
              Follow(m, Follow(m, Follow(m, At(ROOT, {"W", "U"}), p[1]), p[2]), p[3])
         /\ Walk(m, p) = Follow(m, pt_of(m, p), p[4])
BY DEF pt_of, Walk, At

\* The tables a walk for p goes through.
Path(m, p, a1, a2, a3) ==
  /\ m[ROOT + p[1]].present /\ m[ROOT + p[1]].addr = a1
  /\ m[a1 + p[2]].present /\ m[a1 + p[2]].addr = a2
  /\ m[a2 + p[3]].present /\ m[a2 + p[3]].addr = a3

\* The tables of a path are at the levels 1, 2 and 3, and the walk ends at the
\* last one.
LEMMA PathWalk ==
  ASSUME OFFSET = 0, NEW m, NEW u, NEW lev, Levels(m, u, lev), NEW p \in Quads,
         NEW a1, NEW a2, NEW a3, Path(m, p, a1, a2, a3)
  PROVE  /\ a1 \in Tables(u) /\ lev[a1] = 1
         /\ a2 \in Tables(u) /\ lev[a2] = 2
         /\ a3 \in Tables(u) /\ lev[a3] = 3
         /\ pt_of(m, p) = At(a3, {"W"})
<1>1. p[1] \in Index /\ p[2] \in Index /\ p[3] \in Index
  BY DEF Quads
<1>2. ROOT \in Tables(u) /\ lev[ROOT] = 0
  BY NextTable DEF Levels
<1>3. a1 \in Tables(u) /\ lev[a1] = 1
  BY <1>1, <1>2, SMTT(60) DEF Path, Levels, Down
<1>4. a2 \in Tables(u) /\ lev[a2] = 2
  BY <1>1, <1>3, SMTT(60) DEF Path, Levels, Down
<1>5. a3 \in Tables(u) /\ lev[a3] = 3
  BY <1>1, <1>4, SMTT(60) DEF Path, Levels, Down
<1>6. Follow(m, At(ROOT, {"W", "U"}), p[1])
        = At(a1, {"W"})
  BY <1>1, <1>2, FollowTable, SMTT(60) DEF Path
<1>7. Follow(m, At(a1, {"W"}), p[2]) = At(a2, {"W"})
  BY <1>1, <1>3, FollowTable, SMTT(60) DEF Path
<1>8. Follow(m, At(a2, {"W"}), p[3]) = At(a3, {"W"})
  BY <1>1, <1>4, FollowTable, SMTT(60) DEF Path
<1>. QED
  BY <1>3, <1>4, <1>5, <1>6, <1>7, <1>8, WalkSteps

\* A walk that gets to a page table has gone along a path.
LEMMA WalkPath ==
  ASSUME OFFSET = 0, NEW m, NEW u, NEW lev, Levels(m, u, lev), NEW p \in Quads,
         pt_of(m, p) # {}
  PROVE  \E a1, a2, a3 \in Tables(u) : Path(m, p, a1, a2, a3)
<1>1. p[1] \in Index /\ p[2] \in Index /\ p[3] \in Index
  BY DEF Quads
<1>2. ROOT \in Tables(u) /\ lev[ROOT] = 0
  BY NextTable DEF Levels
<1> DEFINE T1 == Follow(m, At(ROOT, {"W", "U"}), p[1])
           T2 == Follow(m, T1, p[2])
<1>3. pt_of(m, p) = Follow(m, T2, p[3])
  BY WalkSteps
<1>4. T2 # {} /\ T1 # {}
  BY <1>3, FollowOne
<1>5. PICK a1 \in Tables(u) :
        /\ m[ROOT + p[1]].present /\ m[ROOT + p[1]].addr = a1
        /\ lev[a1] = 1 /\ T1 = At(a1, {"W"})
  BY <1>1, <1>2, <1>4, FollowTable, SMTT(60)
<1> HIDE DEF T1
<1>6. PICK a2 \in Tables(u) :
        /\ m[a1 + p[2]].present /\ m[a1 + p[2]].addr = a2
        /\ lev[a2] = 2 /\ T2 = At(a2, {"W"})
  BY <1>1, <1>4, <1>5, FollowTable, SMTT(60)
<1> HIDE DEF T2
<1>7. m[a2 + p[3]].present /\ m[a2 + p[3]].addr \in Tables(u)
  BY <1>1, <1>3, <1>6, FollowTable, SMTT(60)
<1>. QED
  BY <1>5, <1>6, <1>7 DEF Path

\* Two pages whose walks end at the same table differ in the last index only.
LEMMA PathUnique ==
  ASSUME OFFSET = 0, NEW m, NEW u, NEW lev, Levels(m, u, lev), NEW p \in Quads, NEW q \in Quads,
         NEW a1, NEW a2, NEW a3, Path(m, p, a1, a2, a3),
         NEW b1, NEW b2, NEW b3, Path(m, q, b1, b2, b3), a3 = b3
  PROVE  p[1] = q[1] /\ p[2] = q[2] /\ p[3] = q[3]
<1>1. /\ p[1] \in Index /\ p[2] \in Index /\ p[3] \in Index
      /\ q[1] \in Index /\ q[2] \in Index /\ q[3] \in Index
  BY DEF Quads
<1>2. ROOT \in Tables(u) /\ lev[ROOT] = 0
  BY NextTable DEF Levels
<1>3. a1 \in Tables(u) /\ lev[a1] = 1 /\ a2 \in Tables(u) /\ lev[a2] = 2
  BY PathWalk, SMTT(60)
<1>4. b1 \in Tables(u) /\ lev[b1] = 1 /\ b2 \in Tables(u) /\ lev[b2] = 2
  BY PathWalk, SMTT(60)
<1>5. a2 = b2 /\ p[3] = q[3]
  BY <1>1, <1>3, <1>4, SMTT(60) DEF Path, Levels, OneParent
<1>6. a1 = b1 /\ p[2] = q[2]
  BY <1>1, <1>3, <1>4, <1>5, SMTT(60) DEF Path, Levels, OneParent
<1>7. p[1] = q[1]
  BY <1>1, <1>2, <1>6, SMTT(60) DEF Path, Levels, OneParent
<1>. QED
  BY <1>5, <1>6, <1>7

\* A fresh table changes no translation.
LEMMA GrownWalk ==
  ASSUME OFFSET = 0, NEW m, NEW u, NEW lev, Levels(m, u, lev), u # POOL,
         NEW a \in Tables(u), lev[a] < 3, NEW i \in Index, ~ m[a + i].present,
         NEW q \in Quads
  PROVE  Walk(Grown(m, u, a, i), q) = Walk(m, q)
<1> DEFINE n == PoolTable(u)
           g == Grown(m, u, a, i)
           lv == LevelsGrown(lev, u, a)
<1>1. m \in [Words -> Entry] /\ u \in 0 .. POOL /\ ROOT \in Tables(u) /\ lev[ROOT] = 0
  BY NextTable DEF Levels
<1>2. Levels(g, u + 1, lv)
  BY GrownTree
<1>3. /\ g[a + i] = Present(n, {"W"})
      /\ \A j \in Index : g[n + j] = Absent
      /\ \A t \in Tables(u), j \in Index : <<t, j>> # <<a, i>> => g[t + j] = m[t + j]
  BY <1>1, GrownMemory, SMTT(60)
<1>4. g[a + i].addr = n /\ \A j \in Index : ~ g[n + j].present
  BY <1>3, SMTT(60) DEF Present, Absent
<1>5. q[1] \in Index /\ q[2] \in Index /\ q[3] \in Index /\ q[4] \in Index
  BY DEF Quads
<1>9. /\ Walk(m, q) = Follow(m, pt_of(m, q), q[4])
      /\ Walk(g, q) = Follow(g, pt_of(g, q), q[4])
  BY DEF Walk
<1> HIDE DEF n, g, lv
<1>10. Follow(m, {}, q[4]) = {} /\ Follow(g, {}, q[4]) = {}
  BY FollowOne
<1>6. CASE pt_of(m, q) # {}
  <2>1. PICK a1, a2, a3 \in Tables(u) : Path(m, q, a1, a2, a3)
    BY <1>6, WalkPath
  <2>2. pt_of(m, q) = At(a3, {"W"}) /\ lev[a3] = 3
    BY <2>1, PathWalk, SMTT(60)
  <2>3. Path(g, q, a1, a2, a3)
    BY <1>1, <1>3, <1>5, <2>1, SMTT(60) DEF Path
  <2>4. pt_of(g, q) = At(a3, {"W"})
    BY <1>2, <2>3, PathWalk
  <2>5. g[a3 + q[4]] = m[a3 + q[4]]
    BY <1>3, <1>5, <2>2, SMTT(60)
  <2>6. Follow(m, At(a3, {"W"}), q[4]) = Follow(g, At(a3, {"W"}), q[4])
    BY <2>5, FollowSame, SMTT(60)
  <2>. QED
    BY <1>9, <2>2, <2>4, <2>6 DEF g
<1>7. CASE pt_of(m, q) = {} /\ pt_of(g, q) = {}
  BY <1>7, <1>9, <1>10 DEF g
<1>8. CASE pt_of(m, q) = {} /\ pt_of(g, q) # {}
  <2>1. PICK b1, b2, b3 \in Tables(u + 1) : Path(g, q, b1, b2, b3)
    BY <1>2, <1>8, WalkPath
  <2>2. <<ROOT, q[1]>> # <<a, i>>
    BY <1>4, <1>5, <2>1 DEF Path
  <2>3. m[ROOT + q[1]].present /\ m[ROOT + q[1]].addr = b1
    BY <1>1, <1>3, <1>5, <2>1, <2>2 DEF Path
  <2>4. b1 \in Tables(u) /\ lev[b1] = 1
    BY <1>1, <1>5, <2>3, SMTT(60) DEF Levels, Down
  <2>5. <<b1, q[2]>> # <<a, i>>
    BY <1>4, <1>5, <2>1 DEF Path
  <2>6. m[b1 + q[2]].present /\ m[b1 + q[2]].addr = b2
    BY <1>3, <1>5, <2>1, <2>4, <2>5 DEF Path
  <2>7. b2 \in Tables(u) /\ lev[b2] = 2
    BY <1>5, <2>4, <2>6, SMTT(60) DEF Levels, Down
  <2>8. ~ Path(m, q, b1, b2, b3)
    <3>1. ASSUME Path(m, q, b1, b2, b3) PROVE FALSE
      <4>1. pt_of(m, q) = At(b3, {"W"})
        BY <3>1, PathWalk
      <4>. QED
        BY <1>8, <4>1 DEF At
    <3>. QED
      BY <3>1
  <2>9. <<b2, q[3]>> = <<a, i>>
    BY <1>3, <1>5, <2>1, <2>3, <2>6, <2>7, <2>8 DEF Path
  <2>10. b3 = n /\ ~ g[b3 + q[4]].present
    BY <1>4, <1>5, <2>1, <2>9 DEF Path
  <2>11. pt_of(g, q) = At(b3, {"W"})
    BY <1>2, <2>1, PathWalk
  <2>12. Follow(g, At(b3, {"W"}), q[4]) = {}
    BY <2>10, FollowOne
  <2>. QED
    BY <1>8, <1>9, <1>10, <2>11, <2>12 DEF g
<1>. QED
  BY <1>6, <1>7, <1>8

-----------------------------------------------------------------------------
(* map_page goes down one level.                                           *)

\* The state of the descent: the tables are a tree and, unless the pool has
\* run out, the table the descent has got to is at level k.
Stage(s, lev, k) ==
  /\ s = [mem |-> s.mem, used |-> s.used, tlb |-> s.tlb, at |-> s.at, ok |-> s.ok]
  /\ s.ok \in BOOLEAN
  /\ Levels(s.mem, s.used, lev)
  /\ s.ok => s.at \in Tables(s.used) /\ lev[s.at] = k

\* What a descent from s to r leaves alone.
Same(s, r) ==
  /\ \A q \in Quads : Walk(r.mem, q) = Walk(s.mem, q)
  /\ Tables(s.used) \subseteq Tables(r.used)
  /\ \A t \in Tables(s.used), j \in Index : s.mem[t + j].present => r.mem[t + j] = s.mem[t + j]
  /\ r.tlb \in {s.tlb, flush_tlb}
  /\ r.ok => s.ok

\* What Ensure does in each of its cases.
LEMMA EnsureCases ==
  ASSUME NEW s, NEW i,
         s = [mem |-> s.mem, used |-> s.used, tlb |-> s.tlb, at |-> s.at, ok |-> s.ok]
  PROVE  /\ ~ s.ok => Ensure(s, i) = s
         /\ s.ok /\ s.mem[s.at + i].present =>
              Ensure(s, i) = [mem |-> s.mem, used |-> s.used, tlb |-> s.tlb,
                              at |-> Aligned(s.mem[s.at + i].addr), ok |-> s.ok]
         /\ s.ok /\ ~ s.mem[s.at + i].present /\ s.used = POOL =>
              Ensure(s, i) = [mem |-> s.mem, used |-> s.used, tlb |-> s.tlb,
                              at |-> s.at, ok |-> FALSE]
         /\ s.ok /\ ~ s.mem[s.at + i].present /\ s.used # POOL =>
              Ensure(s, i) = [mem |-> Grown(s.mem, s.used, s.at, i), used |-> s.used + 1,
                              tlb |-> flush_tlb, at |-> PoolTable(s.used), ok |-> TRUE]
<1>1. ~ s.ok => Ensure(s, i) = s
  BY DEF Ensure
<1>2. ASSUME s.ok, s.mem[s.at + i].present
      PROVE  Ensure(s, i) = [mem |-> s.mem, used |-> s.used, tlb |-> s.tlb,
                              at |-> Aligned(s.mem[s.at + i].addr), ok |-> s.ok]
  <2>1. Ensure(s, i) = [s EXCEPT !.at = Aligned(s.mem[s.at + i].addr)]
    BY <1>2 DEF Ensure
  <2>. QED
    BY <2>1
<1>3. ASSUME s.ok, ~ s.mem[s.at + i].present, s.used = POOL
      PROVE  Ensure(s, i) = [mem |-> s.mem, used |-> s.used, tlb |-> s.tlb,
                              at |-> s.at, ok |-> FALSE]
  <2>1. Ensure(s, i) = [s EXCEPT !.ok = FALSE]
    BY <1>3 DEF Ensure
  <2>. QED
    BY <2>1
<1>4. ASSUME s.ok, ~ s.mem[s.at + i].present, s.used # POOL
      PROVE  Ensure(s, i) = [mem |-> Grown(s.mem, s.used, s.at, i), used |-> s.used + 1,
                              tlb |-> flush_tlb, at |-> PoolTable(s.used), ok |-> TRUE]
  BY <1>4 DEF Ensure, Grown
<1>. QED
  BY <1>1, <1>2, <1>3, <1>4

\* One level of the descent: the tables stay a tree, the next table is one
\* level down, behind entry i of the last one, and no translation changes.
LEMMA EnsureKeeps ==
  ASSUME OFFSET = 0, NEW s, NEW lev, NEW k \in 0 .. 2, Stage(s, lev, k), NEW i \in Index
  PROVE  /\ \E lv : Stage(Ensure(s, i), lv, k + 1)
         /\ Same(s, Ensure(s, i))
         /\ Ensure(s, i).ok => /\ Ensure(s, i).mem[s.at + i].present
                               /\ Ensure(s, i).mem[s.at + i].addr = Ensure(s, i).at
<1> DEFINE r == Ensure(s, i)
<1>0. s = [mem |-> s.mem, used |-> s.used, tlb |-> s.tlb, at |-> s.at, ok |-> s.ok]
  BY DEF Stage
<1>1. CASE ~ s.ok
  <2>1. r = s
    BY <1>0, <1>1, EnsureCases
  <2>. QED
    BY <1>1, <2>1 DEF Stage, Same
<1>2. CASE s.ok /\ s.mem[s.at + i].present
  <2>1. /\ s.at \in Tables(s.used) /\ lev[s.at] = k /\ Levels(s.mem, s.used, lev)
        /\ s.used \in 0 .. POOL
    BY <1>2 DEF Stage, Levels
  <2>2. /\ s.mem[s.at + i].addr \in Tables(s.used)
        /\ lev[s.mem[s.at + i].addr] = k + 1
    BY <1>2, <2>1, SMTT(60) DEF Levels, Down
  <2>3. Aligned(s.mem[s.at + i].addr) = s.mem[s.at + i].addr
    BY <2>1, <2>2, NextTable, TableWords
  <2>4. r = [mem |-> s.mem, used |-> s.used, tlb |-> s.tlb,
             at |-> Aligned(s.mem[s.at + i].addr), ok |-> s.ok]
    BY <1>0, <1>2, EnsureCases
  <2> HIDE DEF r
  <2>5. /\ r.mem = s.mem /\ r.used = s.used /\ r.tlb = s.tlb /\ r.ok = s.ok
        /\ r.at = s.mem[s.at + i].addr
        /\ r = [mem |-> r.mem, used |-> r.used, tlb |-> r.tlb, at |-> r.at, ok |-> r.ok]
    BY <2>3, <2>4
  <2>6. Stage(r, lev, k + 1)
    BY <1>2, <2>1, <2>2, <2>5 DEF Stage
  <2>7. Same(s, r)
    BY <2>5 DEF Same
  <2>. QED
    BY <1>2, <2>5, <2>6, <2>7 DEF r
<1>3. CASE s.ok /\ ~ s.mem[s.at + i].present /\ s.used = POOL
  <2>1. r = [mem |-> s.mem, used |-> s.used, tlb |-> s.tlb, at |-> s.at, ok |-> FALSE]
    BY <1>0, <1>3, EnsureCases
  <2> HIDE DEF r
  <2>2. /\ r.mem = s.mem /\ r.used = s.used /\ r.tlb = s.tlb /\ r.ok = FALSE
        /\ r = [mem |-> r.mem, used |-> r.used, tlb |-> r.tlb, at |-> r.at, ok |-> r.ok]
    BY <2>1
  <2>3. Stage(r, lev, k + 1) /\ Same(s, r)
    BY <2>2 DEF Stage, Same
  <2>. QED
    BY <2>2, <2>3 DEF r
<1>4. CASE s.ok /\ ~ s.mem[s.at + i].present /\ s.used # POOL
  <2> DEFINE n == PoolTable(s.used)
             g == Grown(s.mem, s.used, s.at, i)
             lv == LevelsGrown(lev, s.used, s.at)
  <2>1. /\ s.at \in Tables(s.used) /\ lev[s.at] = k /\ Levels(s.mem, s.used, lev)
        /\ s.used \in 0 .. POOL /\ s.mem \in [Words -> Entry]
    BY <1>4 DEF Stage, Levels
  <2>2. Levels(g, s.used + 1, lv)
    BY <1>4, <2>1, GrownTree, SMTT(60)
  <2>3. /\ g[s.at + i] = Present(n, {"W"})
        /\ \A t \in Tables(s.used), j \in Index :
             <<t, j>> # <<s.at, i>> => g[t + j] = s.mem[t + j]
    BY <1>4, <2>1, GrownMemory, SMTT(60)
  <2>4. /\ Tables(s.used + 1) = Tables(s.used) \cup {n}
        /\ n \notin Tables(s.used)
    BY <1>4, <2>1, NextTable
  <2>5. lv[n] = k + 1
    BY <2>1, <2>4 DEF LevelsGrown
  <2>6. \A q \in Quads : Walk(g, q) = Walk(s.mem, q)
    BY <1>4, <2>1, GrownWalk, SMTT(60)
  <2>7. r = [mem |-> g, used |-> s.used + 1, tlb |-> flush_tlb, at |-> n, ok |-> TRUE]
    BY <1>0, <1>4, EnsureCases
  <2>8. g[s.at + i].present /\ g[s.at + i].addr = n
    BY <2>3, SMTT(60) DEF Present
  <2> HIDE DEF r, n, g, lv
  <2>9. /\ r.mem = g /\ r.used = s.used + 1 /\ r.tlb = flush_tlb /\ r.ok = TRUE /\ r.at = n
        /\ r = [mem |-> r.mem, used |-> r.used, tlb |-> r.tlb, at |-> r.at, ok |-> r.ok]
    BY <2>7
  <2>10. Stage(r, lv, k + 1)
    BY <2>2, <2>4, <2>5, <2>9 DEF Stage
  <2>11. \A t \in Tables(s.used), j \in Index : s.mem[t + j].present => g[t + j] = s.mem[t + j]
    BY <1>4, <2>3
  <2>12. Same(s, r)
    BY <1>4, <2>4, <2>6, <2>9, <2>11 DEF Same
  <2>. QED
    BY <2>8, <2>9, <2>10, <2>12 DEF r
<1>. QED
  BY <1>1, <1>2, <1>3, <1>4 DEF Stage

\* The whole descent: it changes no translation, and if it does not fail it
\* ends at the page table a walk for p ends at.
LEMMA DescendKeeps ==
  ASSUME OFFSET = 0, NEW lev, Levels(mem, used, lev), NEW p \in Quads
  PROVE  /\ \E lv : Stage(Descend(p), lv, 3)
         /\ \A q \in Quads : Walk(Descend(p).mem, q) = Walk(mem, q)
         /\ Descend(p).tlb \in {tlb, flush_tlb}
         /\ Descend(p).ok => pt_of(Descend(p).mem, p) = At(Descend(p).at, {"W"})
<1> DEFINE s0 == [mem |-> mem, used |-> used, tlb |-> tlb, at |-> ROOT, ok |-> TRUE]
           s1 == Ensure(s0, p[1])
           s2 == Ensure(s1, p[2])
           s3 == Ensure(s2, p[3])
<1>0. Descend(p) = s3
  BY DEF Descend
<1>1. p[1] \in Index /\ p[2] \in Index /\ p[3] \in Index
  BY DEF Quads
<1>2. ROOT \in Tables(used) /\ lev[ROOT] = 0
  BY NextTable DEF Levels
<1>3. /\ s0.mem = mem /\ s0.used = used /\ s0.tlb = tlb /\ s0.at = ROOT /\ s0.ok = TRUE
      /\ s0 = [mem |-> s0.mem, used |-> s0.used, tlb |-> s0.tlb, at |-> s0.at, ok |-> s0.ok]
  OBVIOUS
<1> HIDE DEF s0
<1>4. Stage(s0, lev, 0)
  BY <1>2, <1>3 DEF Stage
<1>5. /\ \E lv : Stage(s1, lv, 0 + 1)
      /\ Same(s0, s1)
      /\ s1.ok => s1.mem[s0.at + p[1]].present /\ s1.mem[s0.at + p[1]].addr = s1.at
  BY <1>1, <1>4, EnsureKeeps, SMTT(60)
<1> HIDE DEF s1
<1>6. PICK lev1 : Stage(s1, lev1, 1)
  BY <1>5, SMTT(60)
<1>7. /\ \E lv : Stage(s2, lv, 1 + 1)
      /\ Same(s1, s2)
      /\ s2.ok => s2.mem[s1.at + p[2]].present /\ s2.mem[s1.at + p[2]].addr = s2.at
  BY <1>1, <1>6, EnsureKeeps, SMTT(60)
<1> HIDE DEF s2
<1>8. PICK lev2 : Stage(s2, lev2, 2)
  BY <1>7, SMTT(60)
<1>9. /\ \E lv : Stage(s3, lv, 2 + 1)
      /\ Same(s2, s3)
      /\ s3.ok => s3.mem[s2.at + p[3]].present /\ s3.mem[s2.at + p[3]].addr = s3.at
  BY <1>1, <1>8, EnsureKeeps, SMTT(60)
<1> HIDE DEF s3
<1>10. PICK lev3 : Stage(s3, lev3, 3)
  BY <1>9, SMTT(60)
<1>11. \A q \in Quads : Walk(s3.mem, q) = Walk(mem, q)
  BY <1>3, <1>5, <1>7, <1>9 DEF Same
<1>12. s3.tlb \in {tlb, flush_tlb}
  BY <1>3, <1>5, <1>7, <1>9 DEF Same
<1>13. ASSUME s3.ok
       PROVE  pt_of(s3.mem, p) = At(s3.at, {"W"})
  <2>1. s2.ok /\ s1.ok
    BY <1>7, <1>9, <1>13 DEF Same
  <2>2. s1.mem[ROOT + p[1]].present /\ s1.mem[ROOT + p[1]].addr = s1.at
    BY <1>3, <1>5, <2>1
  <2>3. ROOT \in Tables(s1.used) /\ ROOT \in Tables(s2.used)
    BY <1>2, <1>3, <1>5, <1>7 DEF Same
  <2>4. s3.mem[ROOT + p[1]].present /\ s3.mem[ROOT + p[1]].addr = s1.at
    BY <1>1, <1>7, <1>9, <2>2, <2>3 DEF Same
  <2>5. s1.at \in Tables(s2.used)
    BY <1>6, <1>7, <2>1 DEF Stage, Same
  <2>6. s3.mem[s1.at + p[2]].present /\ s3.mem[s1.at + p[2]].addr = s2.at
    BY <1>1, <1>7, <1>9, <2>1, <2>5 DEF Same
  <2>7. Path(s3.mem, p, s1.at, s2.at, s3.at)
    BY <1>9, <1>13, <2>4, <2>6 DEF Path
  <2>. QED
    BY <1>10, <2>7, PathWalk, SMTT(60) DEF Stage
<1>. QED
  BY <1>0, <1>10, <1>11, <1>12, <1>13

-----------------------------------------------------------------------------
(* An entry of a page table is written.                                    *)

\* The entry changes, and the tables stay the tree they were.
LEMMA LeafTree ==
  ASSUME OFFSET = 0, NEW m, NEW u, NEW lev, Levels(m, u, lev), NEW t \in Tables(u), lev[t] = 3,
         NEW j \in Index, NEW e \in Entry, e.present => Asked(e)
  PROVE  /\ Levels(SetEntry(m, t, j, e), u, lev)
         /\ SetEntry(m, t, j, e)[t + j] = e
         /\ \A v \in Tables(u), l \in Index :
              <<v, l>> # <<t, j>> => SetEntry(m, t, j, e)[v + l] = m[v + l]
<1> DEFINE g == SetEntry(m, t, j, e)
<1>1. m \in [Words -> Entry] /\ u \in 0 .. POOL /\ lev \in [Tables(u) -> 0 .. 3]
  BY DEF Levels
<1>2. /\ Tables(u) \subseteq Tables(POOL)
      /\ \A v \in Tables(u), l \in Index : v + l \in Words
  BY <1>1, NextTable, TableWords
<1>3. \A v \in Tables(u), l \in Index : v + l = t + j => v = t /\ l = j
  BY <1>2, EntryApart
<1>4. /\ g \in [Words -> Entry] /\ g[t + j] = e
      /\ \A v \in Tables(u), l \in Index : <<v, l>> # <<t, j>> => g[v + l] = m[v + l]
  BY <1>1, <1>2, <1>3 DEF SetEntry
<1> HIDE DEF g
<1>5. \A v \in Tables(u), l \in Index : lev[v] < 3 => g[v + l] = m[v + l]
  BY <1>4, SMTT(60)
<1>6. Down(g, u, lev)
  <2> SUFFICES ASSUME NEW v \in Tables(u), NEW l \in Index, g[v + l].present
               PROVE  /\ lev[v] < 3 => /\ g[v + l].addr \in Tables(u)
                                       /\ lev[g[v + l].addr] = lev[v] + 1
                                       /\ g[v + l].flags = {"W"}
                      /\ lev[v] = 3 => Asked(g[v + l])
    BY DEF Down
  <2>1. CASE <<v, l>> = <<t, j>>
    BY <1>4, <2>1, SMTT(60)
  <2>2. CASE <<v, l>> # <<t, j>>
    BY <1>4, <2>2, SMTT(60) DEF Levels, Down
  <2>. QED
    BY <2>1, <2>2
<1>7. Linked(g, u, lev)
  BY <1>5, SMTT(60) DEF Levels, Linked
<1>8. OneParent(g, u, lev)
  <2> SUFFICES ASSUME NEW s \in Tables(u), NEW v \in Tables(u), NEW i \in Index, NEW l \in Index,
                      lev[s] < 3, g[s + i].present, lev[v] < 3, g[v + l].present,
                      g[s + i].addr = g[v + l].addr
               PROVE  s = v /\ i = l
    BY DEF OneParent
  <2>1. g[s + i] = m[s + i] /\ g[v + l] = m[v + l]
    BY <1>5
  <2>. QED
    BY <2>1, SMTT(60) DEF Levels, OneParent
<1>. QED
  BY <1>1, <1>4, <1>6, <1>7, <1>8 DEF Levels, g

\* The translation of the page that is written becomes what the entry says,
\* and no other page has that entry.
LEMMA LeafWalk ==
  ASSUME OFFSET = 0, NEW m, NEW u, NEW lev, Levels(m, u, lev), NEW p \in Quads, NEW t,
         pt_of(m, p) = At(t, {"W"}), NEW e \in Entry, e.present => Asked(e)
  PROVE  /\ Levels(SetEntry(m, t, p[4], e), u, lev)
         /\ \A q \in Quads : q # p => Walk(SetEntry(m, t, p[4], e), q) = Walk(m, q)
         /\ e.present => Walk(SetEntry(m, t, p[4], e), p) = At(e.addr, {"W"} \cap e.flags)
         /\ ~ e.present => Walk(SetEntry(m, t, p[4], e), p) = {}
<1> DEFINE g == SetEntry(m, t, p[4], e)
<1>1. p[4] \in Index
  BY DEF Quads
<1>2. PICK a1, a2, a3 \in Tables(u) : Path(m, p, a1, a2, a3)
  <2>1. pt_of(m, p) # {}
    BY DEF At
  <2>. QED
    BY <2>1, WalkPath
<1>3. a3 = t /\ t \in Tables(u) /\ lev[t] = 3
  <2>1. pt_of(m, p) = At(a3, {"W"}) /\ lev[a3] = 3
    BY <1>2, PathWalk, SMTT(60)
  <2>2. [addr |-> a3, flags |-> {"W"}] = [addr |-> t, flags |-> {"W"}]
    BY <2>1 DEF At
  <2>3. a3 = t
    BY <2>2
  <2>. QED
    BY <2>1, <2>3
<1>4. /\ Levels(g, u, lev) /\ g[t + p[4]] = e
      /\ \A v \in Tables(u), l \in Index : <<v, l>> # <<t, p[4]>> => g[v + l] = m[v + l]
  BY <1>1, <1>3, LeafTree, SMTT(60)
<1> HIDE DEF g
<1>5. \A v \in Tables(u), l \in Index : lev[v] < 3 => g[v + l] = m[v + l]
  BY <1>3, <1>4, SMTT(60)
<1>6. \A q \in Quads, b1, b2, b3 \in Tables(u) : Path(m, q, b1, b2, b3) <=> Path(g, q, b1, b2, b3)
  <2> SUFFICES ASSUME NEW q \in Quads, NEW b1 \in Tables(u), NEW b2 \in Tables(u), NEW b3 \in Tables(u)
               PROVE  Path(m, q, b1, b2, b3) <=> Path(g, q, b1, b2, b3)
    OBVIOUS
  <2>1. q[1] \in Index /\ q[2] \in Index /\ q[3] \in Index /\ ROOT \in Tables(u) /\ lev[ROOT] = 0
    BY NextTable DEF Quads, Levels
  <2>2. g[ROOT + q[1]] = m[ROOT + q[1]]
    BY <1>5, <2>1, SMTT(60)
  <2>3. ASSUME Path(m, q, b1, b2, b3) PROVE Path(g, q, b1, b2, b3)
    <3>1. lev[b1] = 1 /\ lev[b2] = 2
      BY <2>3, PathWalk, SMTT(60)
    <3>2. g[b1 + q[2]] = m[b1 + q[2]] /\ g[b2 + q[3]] = m[b2 + q[3]]
      BY <1>5, <2>1, <3>1, SMTT(60)
    <3>. QED
      BY <2>2, <2>3, <3>2 DEF Path
  <2>4. ASSUME Path(g, q, b1, b2, b3) PROVE Path(m, q, b1, b2, b3)
    <3>1. lev[b1] = 1 /\ lev[b2] = 2
      BY <1>4, <2>4, PathWalk, SMTT(60)
    <3>2. g[b1 + q[2]] = m[b1 + q[2]] /\ g[b2 + q[3]] = m[b2 + q[3]]
      BY <1>5, <2>1, <3>1, SMTT(60)
    <3>. QED
      BY <2>2, <2>4, <3>2 DEF Path
  <2>. QED
    BY <2>3, <2>4
<1>7. ASSUME NEW q \in Quads, q # p
      PROVE  Walk(g, q) = Walk(m, q)
  <2>0. /\ Walk(m, q) = Follow(m, pt_of(m, q), q[4])
        /\ Walk(g, q) = Follow(g, pt_of(g, q), q[4])
        /\ Follow(m, {}, q[4]) = {} /\ Follow(g, {}, q[4]) = {} /\ q[4] \in Index
    BY FollowOne DEF Walk, Quads
  <2>1. ASSUME NEW b1 \in Tables(u), NEW b2 \in Tables(u), NEW b3 \in Tables(u),
               Path(m, q, b1, b2, b3)
        PROVE  Walk(g, q) = Walk(m, q)
    <3>1. pt_of(m, q) = At(b3, {"W"})
      BY <2>1, PathWalk
    <3>2. pt_of(g, q) = At(b3, {"W"})
      BY <1>4, <1>6, <2>1, PathWalk, SMTT(60)
    <3>3. <<b3, q[4]>> # <<t, p[4]>>
      <4> SUFFICES ASSUME b3 = a3, q[4] = p[4] PROVE FALSE
        BY <1>3
      <4>1. p[1] = q[1] /\ p[2] = q[2] /\ p[3] = q[3]
        BY <1>2, <2>1, PathUnique
      <4>. QED
        BY <1>7, <4>1, SMTT(60) DEF Quads
    <3>4. g[b3 + q[4]] = m[b3 + q[4]]
      BY <1>4, <2>0, <3>3
    <3>5. Follow(g, At(b3, {"W"}), q[4]) = Follow(m, At(b3, {"W"}), q[4])
      BY <3>4, FollowSame, SMTT(60)
    <3>. QED
      BY <2>0, <3>1, <3>2, <3>5
  <2>2. CASE pt_of(m, q) # {}
    BY <2>1, <2>2, WalkPath
  <2>3. CASE pt_of(g, q) # {}
    BY <1>4, <1>6, <2>1, <2>3, WalkPath, SMTT(60)
  <2>4. CASE pt_of(m, q) = {} /\ pt_of(g, q) = {}
    BY <2>0, <2>4
  <2>. QED
    BY <2>2, <2>3, <2>4
<1>8. pt_of(g, p) = At(t, {"W"})
  BY <1>2, <1>3, <1>4, <1>6, PathWalk, SMTT(60)
<1>9. Walk(g, p) = Follow(g, At(t, {"W"}), p[4])
  BY <1>8 DEF Walk
<1>10. ASSUME e.present PROVE Walk(g, p) = At(e.addr, {"W"} \cap e.flags)
  <2>1. Aligned(e.addr) = e.addr
    BY <1>10, FrameAligned DEF Asked
  <2>2. Follow(g, At(t, {"W"}), p[4]) = At(Aligned(e.addr), {"W"} \cap e.flags)
    BY <1>4, <1>10, FollowOne
  <2>. QED
    BY <1>9, <2>1, <2>2
<1>11. ASSUME ~ e.present PROVE Walk(g, p) = {}
  <2>1. Follow(g, At(t, {"W"}), p[4]) = {}
    BY <1>4, <1>11, FollowOne
  <2>. QED
    BY <1>9, <2>1
<1>. QED
  BY <1>4, <1>7, <1>10, <1>11 DEF g

\* What a walk finds is a frame with rights a caller may ask for.
LEMMA WalkValue ==
  ASSUME OFFSET = 0, NEW m, NEW u, NEW lev, Levels(m, u, lev), NEW p \in Quads,
         Walk(m, p) # {}
  PROVE  \E t \in Tables(u) :
           /\ pt_of(m, p) = At(t, {"W"}) /\ m[t + p[4]].present /\ Asked(m[t + p[4]])
           /\ Walk(m, p) = At(m[t + p[4]].addr, {"W"} \cap m[t + p[4]].flags)
<1>0. /\ Walk(m, p) = Follow(m, pt_of(m, p), p[4])
      /\ Follow(m, {}, p[4]) = {} /\ p[4] \in Index
  BY FollowOne DEF Walk, Quads
<1>1. PICK a1, a2, a3 \in Tables(u) : Path(m, p, a1, a2, a3)
  BY <1>0, WalkPath
<1>2. pt_of(m, p) = At(a3, {"W"}) /\ lev[a3] = 3
  BY <1>1, PathWalk, SMTT(60)
<1>3. m[a3 + p[4]].present
  BY <1>0, <1>2, FollowOne
<1>4. Asked(m[a3 + p[4]])
  BY <1>0, <1>2, <1>3 DEF Levels, Down
<1>5. Aligned(m[a3 + p[4]].addr) = m[a3 + p[4]].addr
  BY <1>4, FrameAligned DEF Asked
<1>6. Follow(m, At(a3, {"W"}), p[4])
        = At(Aligned(m[a3 + p[4]].addr), {"W"} \cap m[a3 + p[4]].flags)
  BY <1>3, FollowOne
<1>. QED
  BY <1>0, <1>2, <1>3, <1>4, <1>5, <1>6

-----------------------------------------------------------------------------
(* The actions.                                                            *)

\* A call on p leaves the translations of other pages alone.
Others(p) == \A q \in Quads : q # p => Walk(mem', q) = Walk(mem, q)

\* Which translations the processor drops.
LEMMA Dropped ==
  ASSUME NEW c, NEW p
  PROVE  /\ DOMAIN flush_tlb = {}
         /\ DOMAIN flush_tlb_single(c, p) = DOMAIN c \ {p}
         /\ \A q \in DOMAIN c \ {p} : flush_tlb_single(c, p)[q] = c[q]
BY DEF flush_tlb, flush_tlb_single

\* Dropping the translation of the page that changed keeps the others right.
LEMMA FlushKeeps ==
  ASSUME TlbCoherent, DOMAIN tlb \subseteq Pages, NEW p, Others(p),
         NEW c \in {tlb, flush_tlb}, tlb' = flush_tlb_single(c, p)
  PROVE  TlbCoherent' /\ DOMAIN tlb' \subseteq Pages
<1>1. DOMAIN c \subseteq DOMAIN tlb /\ \A q \in DOMAIN c : c[q] = tlb[q]
  <2>1. CASE c = tlb
    BY <2>1
  <2>2. CASE c = flush_tlb
    BY <2>2, Dropped
  <2>. QED
    BY <2>1, <2>2
<1>2. DOMAIN tlb' = DOMAIN c \ {p} /\ \A q \in DOMAIN c \ {p} : tlb'[q] = c[q]
  BY Dropped
<1>3. \A q \in DOMAIN tlb' : q \in Quads /\ q # p /\ q \in DOMAIN tlb /\ tlb'[q] = tlb[q]
  BY <1>1, <1>2, PagingConstants DEF Quads
<1>. QED
  BY <1>1, <1>2, <1>3 DEF TlbCoherent, Others

\* map_page gives the page the frame and the right to write if it was asked
\* for, or fails and changes no translation.
LEMMA MapEffect ==
  ASSUME OFFSET = 0, IInv, NEW p \in Pages, NEW f \in Frames, NEW fl \in FlagSets,
         map_page(p, f, fl)
  PROVE  /\ IInv' /\ Others(p)
         /\ \/ ret' = 0 /\ Walk(mem', p) = At(f, Space!Granted(fl))
            \/ ret' = -1 /\ Walk(mem', p) = Walk(mem, p)
<1> DEFINE s == Descend(p)
           e == Present(f, fl)
<1>0. p \in Quads /\ f \in Nat /\ fl \in Rights
  BY PagingConstants DEF Quads, Rights
<1>1. PICK lev : Levels(mem, used, lev)
  BY DEF IInv
<1>2. PICK lv : Stage(s, lv, 3)
  BY <1>0, <1>1, DescendKeeps
<1>3. /\ \A q \in Quads : Walk(s.mem, q) = Walk(mem, q)
      /\ s.tlb \in {tlb, flush_tlb}
      /\ s.ok => pt_of(s.mem, p) = At(s.at, {"W"})
  BY <1>0, <1>1, DescendKeeps
<1>4. /\ used' = s.used
      /\ s.ok => /\ mem' = SetEntry(s.mem, s.at, p[4], e)
                 /\ tlb' = flush_tlb_single(s.tlb, p) /\ ret' = 0
      /\ ~ s.ok => mem' = s.mem /\ tlb' = s.tlb /\ ret' = -1
  BY DEF map_page
<1>5. /\ e \in Entry /\ e.present /\ e.addr = f /\ {"W"} \cap e.flags = Space!Granted(fl)
      /\ Asked(e)
  BY <1>0 DEF Present, Entry, Asked, Space!Granted
<1> HIDE DEF s, e
<1>6. CASE s.ok
  <2>1. Levels(s.mem, s.used, lv)
    BY <1>2 DEF Stage
  <2>2. /\ Levels(mem', used', lv)
        /\ \A q \in Quads : q # p => Walk(mem', q) = Walk(s.mem, q)
        /\ Walk(mem', p) = At(f, Space!Granted(fl))
    <3> DEFINE g == SetEntry(s.mem, s.at, p[4], e)
    <3>1. pt_of(s.mem, p) = At(s.at, {"W"})
      BY <1>3, <1>6
    <3>2. /\ Levels(g, s.used, lv)
          /\ \A q \in Quads : q # p => Walk(g, q) = Walk(s.mem, q)
          /\ e.present => Walk(g, p) = At(e.addr, {"W"} \cap e.flags)
      <4>1. p \in Quads /\ e \in Entry /\ (e.present => Asked(e))
        BY <1>0, <1>5
      <4>. QED
        BY <2>1, <3>1, <4>1, LeafWalk, SMTT(60)
    <3> HIDE DEF g
    <3>3. mem' = g /\ used' = s.used
      BY <1>4, <1>6 DEF g
    <3>. QED
      BY <1>5, <3>2, <3>3
  <2>3. Others(p)
    BY <1>3, <2>2 DEF Others
  <2>4. TlbCoherent' /\ DOMAIN tlb' \subseteq Pages
    BY <1>3, <1>4, <1>6, <2>3, FlushKeeps DEF IInv
  <2>. QED
    BY <1>4, <1>6, <2>2, <2>3, <2>4 DEF IInv
<1>7. CASE ~ s.ok
  <2>1. Levels(mem', used', lv)
    BY <1>2, <1>4, <1>7 DEF Stage
  <2>2. \A q \in Quads : Walk(mem', q) = Walk(mem, q)
    BY <1>3, <1>4, <1>7
  <2>3. TlbCoherent' /\ DOMAIN tlb' \subseteq Pages
    <3>1. DOMAIN tlb' \subseteq DOMAIN tlb /\ \A q \in DOMAIN tlb' : tlb'[q] = tlb[q]
      BY <1>3, <1>4, <1>7, Dropped
    <3>. QED
      BY <2>2, <3>1, PagingConstants DEF TlbCoherent, IInv, Quads
  <2>. QED
    BY <1>0, <1>4, <1>7, <2>1, <2>2, <2>3 DEF IInv, Others
<1>. QED
  BY <1>6, <1>7

\* unmap_page and set_page_flags rewrite the entry of a page that is mapped,
\* or fail.
LEMMA RewriteEffect ==
  ASSUME OFFSET = 0, IInv, NEW p \in Pages, NEW e \in Entry, e.present => Asked(e),
         Rewrite(p, e)
  PROVE  /\ IInv' /\ Others(p)
         /\ \/ /\ ret' = 0 /\ Walk(mem, p) # {}
               /\ e.present => Walk(mem', p) = At(e.addr, {"W"} \cap e.flags)
               /\ ~ e.present => Walk(mem', p) = {}
            \/ ret' = -1 /\ Walk(mem', p) = Walk(mem, p)
<1>0. p \in Quads
  BY PagingConstants DEF Quads
<1>1. PICK lev : Levels(mem, used, lev)
  BY DEF IInv
<1>2. ASSUME NEW t \in pt_of(mem, p), mem[t.addr + p[4]].present,
             mem' = SetEntry(mem, t.addr, p[4], e), tlb' = flush_tlb_single(tlb, p),
             ret' = 0, UNCHANGED used
      PROVE  /\ IInv' /\ Others(p) /\ ret' = 0 /\ Walk(mem, p) # {}
             /\ e.present => Walk(mem', p) = At(e.addr, {"W"} \cap e.flags)
             /\ ~ e.present => Walk(mem', p) = {}
  <2>1. PICK a3 \in Tables(used) : pt_of(mem, p) = At(a3, {"W"})
    BY <1>0, <1>1, <1>2, WalkPath, PathWalk, SMTT(60)
  <2>2. t.addr = a3
    BY <1>2, <2>1, SMTT(60) DEF At
  <2>3. Walk(mem, p) # {}
    <3>1. Walk(mem, p) = Follow(mem, At(a3, {"W"}), p[4])
      BY <2>1 DEF Walk
    <3>2. Walk(mem, p) = At(Aligned(mem[a3 + p[4]].addr), {"W"} \cap mem[a3 + p[4]].flags)
      BY <1>2, <2>2, <3>1, FollowOne
    <3>. QED
      BY <3>2 DEF At
  <2>4. /\ Levels(mem', used, lev) /\ Others(p)
        /\ e.present => Walk(mem', p) = At(e.addr, {"W"} \cap e.flags)
        /\ ~ e.present => Walk(mem', p) = {}
    <3> DEFINE g == SetEntry(mem, a3, p[4], e)
    <3>1. /\ Levels(g, used, lev)
          /\ \A q \in Quads : q # p => Walk(g, q) = Walk(mem, q)
          /\ e.present => Walk(g, p) = At(e.addr, {"W"} \cap e.flags)
          /\ ~ e.present => Walk(g, p) = {}
      BY <1>0, <1>1, <2>1, LeafWalk
    <3> HIDE DEF g
    <3>2. mem' = g
      BY <1>2, <2>2 DEF g
    <3>. QED
      BY <3>1, <3>2 DEF Others
  <2>5. TlbCoherent' /\ DOMAIN tlb' \subseteq Pages
    BY <1>2, <2>4, FlushKeeps DEF IInv
  <2>. QED
    BY <1>2, <2>3, <2>4, <2>5 DEF IInv
<1>3. ASSUME Walk(mem, p) = {}, ret' = -1, UNCHANGED <<mem, used, tlb>>
      PROVE  IInv' /\ Others(p) /\ ret' = -1 /\ Walk(mem', p) = Walk(mem, p)
  BY <1>3 DEF IInv, Others, TlbCoherent
<1>. QED
  BY <1>2, <1>3 DEF Rewrite

\* The entries of the boot loader's tables: two tables with one entry each, one
\* with an entry for every page table, and page tables that map frames.
LEMMA BootEntries ==
  ASSUME OFFSET = 0, PagingInit
  PROVE  /\ mem \in [Words -> Entry]
         /\ \A n \in 0 .. 1, i \in Index :
              mem[n * SPAN + i] = IF i = 0 THEN Present(n * SPAN + SPAN, {"W"}) ELSE Absent
         /\ \A i \in Index : mem[2 * SPAN + i] = Present((3 + i) * SPAN, {"W"})
         /\ \A n \in 3 .. (SPAN + 2), i \in Index :
              mem[n * SPAN + i].present => Asked(mem[n * SPAN + i])
<1>0. SPAN \in Nat \ {0} /\ POOL \in Nat /\ 0 \in 0 .. POOL /\ 0 \in Index
  BY PagingConstants, SMTT(60) DEF Index
<1>1. PICK frame \in [{i \in Index : 2 * i < SPAN} -> Frames], left \in [Unset -> Leftovers] :
        mem = paging_setup(frame, left)
  BY DEF PagingInit
<1>2. \A m, n \in Nat : BootTable(m) = BootTable(n) => m = n
  <2> SUFFICES ASSUME NEW m \in Nat, NEW n \in Nat, m * SPAN = n * SPAN PROVE m = n
    BY DEF BootTable
  <2>1. m * SPAN \in Nat /\ (m < n => m * SPAN + SPAN <= n * SPAN) /\ (n < m => n * SPAN + SPAN <= m * SPAN)
    BY <1>0, Apart, SMTT(60)
  <2>. QED
    BY <1>0, <2>1, SMTT(60)
<1>3. \A n \in 0 .. (SPAN + 2), i \in Index :
        /\ n \in Nat /\ n * SPAN + i \in Words
        /\ Aligned(n * SPAN + i) = BootTable(n) /\ (n * SPAN + i) % SPAN = i
  <2> SUFFICES ASSUME NEW n \in 0 .. (SPAN + 2), NEW i \in Index
               PROVE  /\ n \in Nat /\ n * SPAN + i \in Words
                      /\ Aligned(n * SPAN + i) = BootTable(n) /\ (n * SPAN + i) % SPAN = i
    OBVIOUS
  <2>1. n \in Nat /\ n \in 0 .. (SPAN + 2 + 0)
    BY <1>0, SMTT(60)
  <2>2. n * SPAN \in Tables(0)
    BY <2>1 DEF Tables
  <2>3. n * SPAN + i \in Words
    BY <1>0, <2>2, NextTable, TableWords
  <2>. QED
    BY <2>1, <2>3, EntryMod DEF BootTable
<1>4. \A n \in 4 .. (SPAN + 2), i \in Index : n * SPAN + i \in Unset
  <2> SUFFICES ASSUME NEW n \in 4 .. (SPAN + 2), NEW j \in Index PROVE n * SPAN + j \in Unset
    OBVIOUS
  <2>1. BootTable(n) + j \in Unset
    BY DEF Unset
  <2>. QED
    BY <2>1 DEF BootTable
<1>5. /\ BootTable(0) # BootTable(2) /\ BootTable(0) # BootTable(3)
      /\ BootTable(1) # BootTable(2) /\ BootTable(1) # BootTable(3)
      /\ BootTable(2) # BootTable(3)
  BY <1>2, SMTT(60)
<1>6. \A a \in Unset : Aligned(a) \notin {BootTable(0), BootTable(1), BootTable(2), BootTable(3)}
  <2> SUFFICES ASSUME NEW k \in 4 .. (SPAN + 2), NEW j \in Index
               PROVE  Aligned(k * SPAN + j) \notin {BootTable(0), BootTable(1), BootTable(2), BootTable(3)}
    BY DEF Unset, BootTable
  <2>1. k \in 0 .. (SPAN + 2) /\ k \in Nat /\ k # 0 /\ k # 1 /\ k # 2 /\ k # 3
    BY <1>0, SMTT(60)
  <2>2. Aligned(k * SPAN + j) = BootTable(k)
    BY <1>3, <2>1
  <2>. QED
    BY <1>2, <2>1, <2>2, SMTT(60)
<1> DEFINE t(a) == Aligned(a)
           i(a) == a % SPAN
<1>7. ASSUME NEW a \in Words
      PROVE  /\ t(a) \in {BootTable(0), BootTable(1)} =>
                  mem[a] = IF i(a) = 0 THEN Present(t(a) + SPAN, {"W"}) ELSE Absent
             /\ t(a) = BootTable(2) => mem[a] = Present(BootTable(3 + i(a)), {"W"})
             /\ t(a) = BootTable(3) =>
                  mem[a] = IF 2 * i(a) < SPAN THEN Present(frame[i(a)], {"W"}) ELSE Absent
             /\ a \in Unset => mem[a] = left[a]
             /\ (t(a) \notin {BootTable(0), BootTable(1), BootTable(2), BootTable(3)} /\ a \notin Unset) =>
                  mem[a] = Absent
  BY <1>1, <1>5, <1>6 DEF paging_setup
<1> HIDE DEF t, i
<1>8. ASSUME NEW j \in Index, 2 * j < SPAN PROVE frame[j] \in Frames /\ frame[j] \in Nat
  BY <1>8, PagingConstants
<1>9. ASSUME NEW a \in Unset
      PROVE  left[a] \in Leftovers /\ left[a] \in [present : BOOLEAN, addr : Frames, flags : FlagSets]
  BY PagingConstants
<1>10. mem \in [Words -> Entry]
  <2>1. Absent \in Entry /\ \A b \in Nat : Present(b, {"W"}) \in Entry
    BY DEF Absent, Present, Entry, Rights
  <2>2. ASSUME NEW a \in Words PROVE mem[a] \in Entry
    <3>1. a \in Nat /\ i(a) \in Index
      BY <1>0, SMTT(60) DEF Words, ROOT, Index, i
    <3>2. CASE t(a) \in {BootTable(0), BootTable(1)}
      <4>1. t(a) + SPAN \in Nat
        BY <1>0, <3>2, SMTT(60) DEF BootTable
      <4>. QED
        BY <1>7, <2>1, <3>2, <4>1
    <3>3. CASE t(a) = BootTable(2)
      <4>1. BootTable(3 + i(a)) \in Nat
        BY <1>0, <3>1, SMTT(60) DEF BootTable, Index
      <4>. QED
        BY <1>7, <2>1, <3>3, <4>1
    <3>4. CASE t(a) = BootTable(3)
      BY <1>7, <1>8, <2>1, <3>1, <3>4
    <3>5. CASE a \in Unset
      <4>1. left[a] \in Entry
        BY <1>9, <3>5, PagingConstants, SMTT(60) DEF Entry, Rights
      <4>. QED
        BY <1>7, <3>5, <4>1
    <3>6. CASE t(a) \notin {BootTable(0), BootTable(1), BootTable(2), BootTable(3)} /\ a \notin Unset
      BY <1>7, <2>1, <3>6
    <3>. QED
      BY <3>2, <3>3, <3>4, <3>5, <3>6
  <2>3. mem = [a \in Words |-> mem[a]]
    BY <1>1, SMTT(60) DEF paging_setup
  <2>. QED
    BY <2>2, <2>3
<1>11. ASSUME NEW n \in 0 .. (SPAN + 2), NEW j \in Index
       PROVE  n * SPAN + j \in Words /\ t(n * SPAN + j) = BootTable(n) /\ i(n * SPAN + j) = j
  BY <1>3 DEF t, i
<1>12. ASSUME NEW n \in 0 .. 1, NEW j \in Index
       PROVE  mem[n * SPAN + j] = IF j = 0 THEN Present(n * SPAN + SPAN, {"W"}) ELSE Absent
  <2>1. n \in 0 .. (SPAN + 2) /\ (n = 0 \/ n = 1)
    BY <1>0, SMTT(60)
  <2>2. BootTable(n) \in {BootTable(0), BootTable(1)} /\ BootTable(n) = n * SPAN
    BY <2>1 DEF BootTable
  <2>. QED
    BY <1>7, <1>11, <2>1, <2>2, SMTT(60)
<1>13. ASSUME NEW j \in Index PROVE mem[2 * SPAN + j] = Present((3 + j) * SPAN, {"W"})
  <2>1. 2 \in 0 .. (SPAN + 2)
    BY <1>0, SMTT(60)
  <2>. QED
    BY <1>7, <1>11, <2>1 DEF BootTable
<1>14. ASSUME NEW n \in 3 .. (SPAN + 2), NEW j \in Index, mem[n * SPAN + j].present
       PROVE  Asked(mem[n * SPAN + j])
  <2>1. n \in 0 .. (SPAN + 2) /\ (n = 3 \/ n \in 4 .. (SPAN + 2))
    BY <1>0, SMTT(60)
  <2>2. CASE n = 3
    <3>1. mem[n * SPAN + j] = IF 2 * j < SPAN THEN Present(frame[j], {"W"}) ELSE Absent
      BY <1>7, <1>11, <2>1, <2>2, SMTT(60)
    <3>2. 2 * j < SPAN /\ mem[n * SPAN + j] = Present(frame[j], {"W"})
      BY <1>14, <3>1, SMTT(60) DEF Absent
    <3>3. mem[n * SPAN + j].addr \in Frames /\ mem[n * SPAN + j].flags = {"W"}
      BY <1>8, <3>2, SMTT(60) DEF Present
    <3>4. PICK fl \in FlagSets : "W" \in fl
      BY PagingConstants
    <3>5. {"W"} \cap {"W"} = Space!Granted(fl)
      BY <3>4 DEF Space!Granted
    <3>. QED
      BY <3>3, <3>5 DEF Asked
  <2>3. CASE n \in 4 .. (SPAN + 2)
    <3>1. n * SPAN + j \in Unset /\ mem[n * SPAN + j] = left[n * SPAN + j]
      BY <1>4, <1>7, <1>11, <2>1, <2>3
    <3>2. mem[n * SPAN + j].addr \in Frames /\ mem[n * SPAN + j].flags \in FlagSets
      BY <1>9, <3>1, SMTT(60)
    <3>3. {"W"} \cap mem[n * SPAN + j].flags = Space!Granted(mem[n * SPAN + j].flags)
      BY DEF Space!Granted
    <3>. QED
      BY <3>2, <3>3 DEF Asked
  <2>. QED
    BY <2>1, <2>2, <2>3
<1>. QED
  BY <1>10, <1>12, <1>13, <1>14

\* The boot loader's tables are a tree.
LEMMA InitHolds ==
  ASSUME OFFSET = 0, PagingInit
  PROVE  IInv
<1>0. SPAN \in Nat \ {0} /\ POOL \in Nat /\ 0 \in Index
  BY PagingConstants DEF Index
<1> DEFINE T(n) == n * SPAN
           lev == [t \in Tables(0) |-> IF t = T(0) THEN 0 ELSE IF t = T(1) THEN 1
                                       ELSE IF t = T(2) THEN 2 ELSE 3]
<1>1. /\ \A t \in Tables(0) : \E n \in 0 .. (SPAN + 2) : t = T(n)
      /\ \A n \in 0 .. (SPAN + 2) : T(n) \in Tables(0) /\ n \in Nat
      /\ ROOT = T(0)
  BY <1>0, SMTT(60) DEF Tables, ROOT
<1>2. \A m, n \in Nat : T(m) = T(n) => m = n
  <2> SUFFICES ASSUME NEW m \in Nat, NEW n \in Nat, m * SPAN = n * SPAN PROVE m = n
    OBVIOUS
  <2>1. m * SPAN \in Nat /\ (m < n => m * SPAN + SPAN <= n * SPAN) /\ (n < m => n * SPAN + SPAN <= m * SPAN)
    BY <1>0, Apart, SMTT(60)
  <2>. QED
    BY <1>0, <2>1, SMTT(60)
<1>3. /\ \A i \in Index : mem[T(0) + i] = IF i = 0 THEN Present(T(1), {"W"}) ELSE Absent
      /\ \A i \in Index : mem[T(1) + i] = IF i = 0 THEN Present(T(2), {"W"}) ELSE Absent
      /\ \A i \in Index : mem[T(2) + i] = Present(T(3 + i), {"W"})
      /\ \A n \in 3 .. (SPAN + 2), i \in Index : mem[T(n) + i].present => Asked(mem[T(n) + i])
  <2>1. 0 * SPAN + SPAN = 1 * SPAN /\ 1 * SPAN + SPAN = 2 * SPAN /\ 0 \in 0 .. 1 /\ 1 \in 0 .. 1
    BY <1>0, SMTT(60)
  <2>. QED
    BY <2>1, BootEntries
<1> HIDE DEF T
<1>4. /\ lev \in [Tables(0) -> 0 .. 3]
      /\ \A n \in 0 .. (SPAN + 2) : lev[T(n)] = IF n < 3 THEN n ELSE 3
  <2>1. lev \in [Tables(0) -> 0 .. 3]
    BY SMTT(60)
  <2>2. ASSUME NEW n \in 0 .. (SPAN + 2) PROVE lev[T(n)] = IF n < 3 THEN n ELSE 3
    <3>1. T(n) \in Tables(0) /\ n \in Nat
      BY <1>1
    <3>2. /\ T(n) = T(0) <=> n = 0
          /\ T(n) = T(1) <=> n = 1
          /\ T(n) = T(2) <=> n = 2
      BY <1>2, <3>1, SMTT(60)
    <3>. QED
      BY <3>1, <3>2, SMTT(60)
  <2>. QED
    BY <2>1, <2>2
<1> HIDE DEF lev
\* An entry of the first three levels, by the table it is in.
<1>5. ASSUME NEW n \in 0 .. (SPAN + 2), NEW i \in Index, mem[T(n) + i].present, n < 3
      PROVE  \E k \in 1 .. (SPAN + 2) :
               /\ mem[T(n) + i].addr = T(k) /\ mem[T(n) + i].flags = {"W"}
               /\ n = 0 => k = 1 /\ i = 0
               /\ n = 1 => k = 2 /\ i = 0
               /\ n = 2 => k = 3 + i
  <2>1. CASE n = 0 \/ n = 1
    <3>1. i = 0 /\ mem[T(n) + i] = Present(T(n + 1), {"W"}) /\ n + 1 \in 1 .. (SPAN + 2)
      BY <1>0, <1>3, <1>5, <2>1, SMTT(60) DEF Absent
    <3>. QED
      BY <2>1, <3>1, SMTT(60) DEF Present
  <2>2. CASE n = 2
    <3>1. mem[T(n) + i] = Present(T(3 + i), {"W"}) /\ 3 + i \in 1 .. (SPAN + 2)
      BY <1>0, <1>3, <2>2, SMTT(60) DEF Index
    <3>. QED
      BY <2>2, <3>1, SMTT(60) DEF Present
  <2>. QED
    BY <1>0, <1>5, <2>1, <2>2, SMTT(60)
<1>6. Down(mem, 0, lev)
  <2> SUFFICES ASSUME NEW t \in Tables(0), NEW i \in Index, mem[t + i].present
               PROVE  /\ lev[t] < 3 => /\ mem[t + i].addr \in Tables(0)
                                       /\ lev[mem[t + i].addr] = lev[t] + 1
                                       /\ mem[t + i].flags = {"W"}
                      /\ lev[t] = 3 => Asked(mem[t + i])
    BY DEF Down
  <2>1. PICK n \in 0 .. (SPAN + 2) : t = T(n)
    BY <1>1
  <2>2. CASE n < 3
    <3>1. PICK k \in 1 .. (SPAN + 2) :
            /\ mem[T(n) + i].addr = T(k) /\ mem[T(n) + i].flags = {"W"}
            /\ n = 0 => k = 1
            /\ n = 1 => k = 2
            /\ n = 2 => k = 3 + i
      BY <1>5, <2>1, <2>2, SMTT(60)
    <3>2. k \in 0 .. (SPAN + 2) /\ (k < 3 => k = n + 1) /\ (~ (k < 3) => n = 2)
      BY <1>0, <2>2, <3>1, SMTT(60) DEF Index
    <3>3. lev[T(n)] = n /\ lev[T(k)] = n + 1 /\ T(k) \in Tables(0)
      BY <1>0, <1>1, <1>4, <2>2, <3>2, SMTT(60)
    <3>4. n # 3
      BY <2>2, SMTT(60)
    <3>. QED
      BY <2>1, <3>1, <3>3, <3>4
  <2>3. CASE ~ (n < 3)
    <3>1. n \in 3 .. (SPAN + 2) /\ lev[T(n)] = 3 /\ ~ (3 < 3)
      BY <1>0, <1>4, <2>3, SMTT(60)
    <3>. QED
      BY <1>3, <2>1, <3>1
  <2>. QED
    BY <2>2, <2>3
<1>7. Linked(mem, 0, lev)
  <2> SUFFICES ASSUME NEW t \in Tables(0) \ {ROOT}
               PROVE  \E s \in Tables(0), i \in Index :
                        lev[s] < 3 /\ mem[s + i].present /\ mem[s + i].addr = t
    BY DEF Linked
  <2>1. PICK n \in 0 .. (SPAN + 2) : t = T(n)
    BY <1>1
  <2>2. n # 0 /\ n \in Nat
    BY <1>1, <2>1
  <2>3. PICK m \in 0 .. 2, i \in Index : mem[T(m) + i] = Present(T(n), {"W"})
    <3>1. CASE n = 1 \/ n = 2
      BY <1>0, <1>3, <3>1, SMTT(60)
    <3>2. CASE ~ (n = 1 \/ n = 2)
      <4>1. n - 3 \in Index /\ 3 + (n - 3) = n
        BY <1>0, <2>2, <3>2, SMTT(60) DEF Index
      <4>2. mem[T(2) + (n - 3)] = Present(T(n), {"W"})
        BY <1>3, <4>1
      <4>. QED
        BY <4>1, <4>2, SMTT(60)
    <3>. QED
      BY <3>1, <3>2
  <2>4. m \in 0 .. (SPAN + 2) /\ m < 3
    BY <1>0, SMTT(60)
  <2>5. T(m) \in Tables(0) /\ lev[T(m)] < 3
    BY <1>1, <1>4, <2>4, SMTT(60)
  <2>6. mem[T(m) + i].present /\ mem[T(m) + i].addr = t
    BY <2>1, <2>3, SMTT(60) DEF Present
  <2>. QED
    BY <2>5, <2>6
<1>8. OneParent(mem, 0, lev)
  <2> SUFFICES ASSUME NEW s \in Tables(0), NEW t \in Tables(0), NEW i \in Index, NEW j \in Index,
                      lev[s] < 3, mem[s + i].present, lev[t] < 3, mem[t + j].present,
                      mem[s + i].addr = mem[t + j].addr
               PROVE  s = t /\ i = j
    BY DEF OneParent
  <2>1. PICK m \in 0 .. (SPAN + 2) : s = T(m)
    BY <1>1
  <2>2. PICK n \in 0 .. (SPAN + 2) : t = T(n)
    BY <1>1
  <2>3. m < 3 /\ n < 3
    BY <1>4, <2>1, <2>2, SMTT(60)
  <2>4. PICK k \in 1 .. (SPAN + 2) :
          /\ mem[T(m) + i].addr = T(k)
          /\ m = 0 => k = 1 /\ i = 0
          /\ m = 1 => k = 2 /\ i = 0
          /\ m = 2 => k = 3 + i
    BY <1>5, <2>1, <2>3, SMTT(60)
  <2>5. PICK l \in 1 .. (SPAN + 2) :
          /\ mem[T(n) + j].addr = T(l)
          /\ n = 0 => l = 1 /\ j = 0
          /\ n = 1 => l = 2 /\ j = 0
          /\ n = 2 => l = 3 + j
    BY <1>5, <2>2, <2>3, SMTT(60)
  <2>6. k \in Nat /\ l \in Nat
    BY <1>0, SMTT(60)
  <2>7. k = l
    BY <1>2, <2>1, <2>2, <2>4, <2>5, <2>6
  <2>8. m = n /\ i = j
    BY <1>0, <2>3, <2>4, <2>5, <2>7, SMTT(60) DEF Index
  <2>. QED
    BY <2>1, <2>2, <2>8
<1>9. Levels(mem, used, lev)
  <2>1. mem \in [Words -> Entry]
    BY BootEntries
  <2>2. used = 0 /\ 0 \in 0 .. POOL
    BY <1>0, SMTT(60) DEF PagingInit
  <2>3. lev[ROOT] = 0
    BY <1>0, <1>1, <1>4, SMTT(60)
  <2>. QED
    BY <1>4, <1>6, <1>7, <1>8, <2>1, <2>2, <2>3 DEF Levels
<1>. QED
  BY <1>9, Dropped DEF IInv, PagingInit, TlbCoherent

\* A page whose translation stays, as those of the others do.
LEMMA NothingChanges ==
  ASSUME NEW p \in Pages, Others(p), Walk(mem', p) = Walk(mem, p)
  PROVE  \A q \in Pages : Walk(mem', q) = Walk(mem, q)
BY PagingConstants DEF Others, Quads

\* What a call may do to the translation of its page.
Served(p) ==
  \/ \E f \in Frames, fl \in FlagSets : Walk(mem', p) = At(f, Space!Granted(fl))
  \/ Walk(mem, p) # {} /\ Walk(mem', p) = {}

\* A step gives up and changes no translation, or serves one page, or is the
\* processor's.
LEMMA StepEffect ==
  ASSUME OFFSET = 0, IInv, PagingNext
  PROVE  /\ IInv'
         /\ \/ UNCHANGED <<mem, ret>>
            \/ ret' = -1 /\ \A q \in Pages : Walk(mem', q) = Walk(mem, q)
            \/ ret' = 0 /\ \E p \in Pages : Others(p) /\ Served(p)
<1> USE DEF Served
<1>1. PICK p \in Pages :
        \/ \E f \in Frames, fl \in FlagSets : map_page(p, f, fl)
        \/ unmap_page(p)
        \/ \E fl \in FlagSets : set_page_flags(p, fl)
        \/ TlbFill(p)
  BY DEF PagingNext
<1>2. Absent \in Entry /\ ~ Absent.present
  BY DEF Absent, Entry, Rights
<1>3. PICK lev : Levels(mem, used, lev)
  BY DEF IInv
<1>4. p \in Quads
  BY PagingConstants DEF Quads
<1>5. CASE \E f \in Frames, fl \in FlagSets : map_page(p, f, fl)
  BY <1>5, MapEffect, NothingChanges
<1>6. CASE Rewrite(p, Absent)
  BY <1>2, <1>6, RewriteEffect, NothingChanges
<1>7. ASSUME NEW fl \in FlagSets, NEW e \in Walk(mem, p), Rewrite(p, Present(e.addr, fl))
      PROVE  /\ IInv'
             /\ \/ ret' = -1 /\ \A q \in Pages : Walk(mem', q) = Walk(mem, q)
                \/ ret' = 0 /\ \E q \in Pages : Others(q) /\ Served(q)
  <2>1. PICK t \in Tables(used) :
          /\ Asked(mem[t + p[4]])
          /\ Walk(mem, p) = At(mem[t + p[4]].addr, {"W"} \cap mem[t + p[4]].flags)
    BY <1>3, <1>4, <1>7, WalkValue, SMTT(60)
  <2>2. e.addr \in Frames /\ e.addr = mem[t + p[4]].addr
    BY <1>7, <2>1, SMTT(60) DEF Asked, At
  <2> DEFINE n == Present(e.addr, fl)
  <2>3. /\ n \in Entry /\ n.present /\ Asked(n) /\ n.addr = e.addr
        /\ {"W"} \cap n.flags = Space!Granted(fl)
    BY <2>2, PagingConstants DEF Present, Entry, Rights, Asked, Space!Granted
  <2> HIDE DEF n
  <2>4. Rewrite(p, n)
    BY <1>7 DEF n
  <2>5. /\ IInv' /\ Others(p)
        /\ \/ ret' = 0 /\ Walk(mem', p) = At(e.addr, Space!Granted(fl))
           \/ ret' = -1 /\ Walk(mem', p) = Walk(mem, p)
    BY <2>3, <2>4, RewriteEffect
  <2>. QED
    BY <2>1, <2>2, <2>5, NothingChanges
<1>8. CASE TlbFill(p)
  <2>1. /\ tlb' = [q \in DOMAIN tlb \cup {p} |-> IF q = p THEN Walk(mem, p) ELSE tlb[q]]
        /\ UNCHANGED <<mem, used, ret>>
    BY <1>8 DEF TlbFill
  <2>2. DOMAIN tlb' = DOMAIN tlb \cup {p} /\ TlbCoherent'
    BY <2>1 DEF TlbCoherent, IInv
  <2>. QED
    BY <2>1, <2>2, <1>3 DEF IInv
<1>. QED
  BY <1>1, <1>5, <1>6, <1>7, <1>8 DEF unmap_page, set_page_flags

\* The invariant holds.
LEMMA Invariance ==
  ASSUME OFFSET = 0
  PROVE  PagingSpec => []IInv
<1>1. PagingInit => IInv
  BY InitHolds
<1>2. IInv /\ [PagingNext]_pagingVars => IInv'
  <2>1. CASE UNCHANGED pagingVars
    BY <2>1 DEF pagingVars, IInv, TlbCoherent
  <2>. QED
    BY <2>1, StepEffect
<1>. QED
  BY <1>1, <1>2, PTL DEF PagingSpec

-----------------------------------------------------------------------------
(* From levels to the properties of module Paging.                         *)

\* The tables of one level are the children of those above.
LEMMA ChildrenLevel ==
  ASSUME OFFSET = 0, NEW lev, Levels(mem, used, lev), NEW k \in 0 .. 2
  PROVE  Children({t \in Tables(used) : lev[t] = k}) = {t \in Tables(used) : lev[t] = k + 1}
<1> DEFINE S == {t \in Tables(used) : lev[t] = k}
           C == {t \in Tables(used) : lev[t] = k + 1}
<1>1. used \in 0 .. POOL /\ lev \in [Tables(used) -> 0 .. 3] /\ lev[ROOT] = 0
  BY DEF Levels
<1>2. ASSUME NEW l \in Links(S)
      PROVE  Target(l) \in C
  <2>1. l[1] \in Tables(used) /\ lev[l[1]] = k /\ l[2] \in Index /\ mem[l[1] + l[2]].present
    BY <1>2 DEF Links
  <2>2. mem[l[1] + l[2]].addr \in C
    BY <2>1, SMTT(60) DEF Levels, Down
  <2>3. Aligned(mem[l[1] + l[2]].addr) = mem[l[1] + l[2]].addr
    BY <1>1, <2>2, NextTable, TableWords
  <2>. QED
    BY <2>2, <2>3 DEF Target
<1>3. ASSUME NEW t \in C
      PROVE  \E l \in Links(S) : Target(l) = t
  <2>1. t # ROOT
    BY <1>1, SMTT(60)
  <2>2. PICK s \in Tables(used), i \in Index : lev[s] < 3 /\ mem[s + i].present /\ mem[s + i].addr = t
    BY <2>1 DEF Levels, Linked
  <2>3. lev[s] = k
    BY <1>1, <2>2, SMTT(60) DEF Levels, Down
  <2>4. <<s, i>> \in Links(S)
    BY <2>2, <2>3 DEF Links
  <2>5. Target(<<s, i>>) = t
    BY <1>1, <2>2, NextTable, TableWords DEF Target
  <2>. QED
    BY <2>4, <2>5
<1> HIDE DEF S, C
<1>4. Children(S) = C
  BY <1>2, <1>3 DEF Children
<1>. QED
  BY <1>4 DEF S, C

\* The tables below the root are the boot loader's and the pool's.
LEMMA TablesBelow ==
  ASSUME OFFSET = 0, used \in 0 .. POOL
  PROVE  Tables(used) \ {ROOT}
           = {BootTable(n) : n \in 1 .. (SPAN + 2)} \cup {PoolTable(n) : n \in 0 .. used - 1}
<1>0. SPAN \in Nat \ {0} /\ used \in Nat
  BY PagingConstants, SMTT(60)
<1>1. \A n \in Nat : PoolTable(n) = (SPAN + 3 + n) * SPAN /\ BootTable(n) = n * SPAN
  BY <1>0, SMTT(60) DEF PoolTable, BootTable
<1>2. \A n \in Nat : n # 0 => n * SPAN # ROOT
  <2> SUFFICES ASSUME NEW n \in Nat, n # 0 PROVE n * SPAN # ROOT
    OBVIOUS
  <2>1. 0 * SPAN + SPAN <= n * SPAN
    BY Apart, SMTT(60)
  <2>. QED
    BY <1>0, <2>1, SMTT(60) DEF ROOT
<1>3. 0 * SPAN = ROOT
  BY <1>0, SMTT(60) DEF ROOT
<1>4. ASSUME NEW t \in Tables(used) \ {ROOT}
      PROVE  t \in {BootTable(n) : n \in 1 .. (SPAN + 2)} \cup {PoolTable(n) : n \in 0 .. used - 1}
  <2>1. PICK n \in 0 .. (SPAN + 2 + used) : t = n * SPAN
    BY DEF Tables
  <2>2. n # 0
    BY <1>3, <1>4, <2>1
  <2>3. CASE n \in 1 .. (SPAN + 2)
    BY <1>1, <2>1, <2>3, SMTT(60)
  <2>4. CASE n \in (SPAN + 3) .. (SPAN + 2 + used)
    <3>1. n - SPAN - 3 \in 0 .. used - 1 /\ n = SPAN + 3 + (n - SPAN - 3)
      BY <1>0, <2>4, SMTT(60)
    <3>2. t = PoolTable(n - SPAN - 3)
      BY <1>0, <1>1, <2>1, <3>1, SMTT(60)
    <3>. QED
      BY <3>1, <3>2
  <2>. QED
    BY <1>0, <2>2, <2>3, <2>4, SMTT(60)
<1>5. ASSUME NEW n \in 1 .. (SPAN + 2) PROVE BootTable(n) \in Tables(used) \ {ROOT}
  <2>1. n \in 0 .. (SPAN + 2 + used) /\ n \in Nat /\ n # 0
    BY <1>0, SMTT(60)
  <2>. QED
    BY <1>1, <1>2, <2>1 DEF Tables
<1>6. ASSUME NEW n \in 0 .. used - 1 PROVE PoolTable(n) \in Tables(used) \ {ROOT}
  <2>1. SPAN + 3 + n \in 0 .. (SPAN + 2 + used) /\ SPAN + 3 + n \in Nat /\ SPAN + 3 + n # 0 /\ n \in Nat
    BY <1>0, SMTT(60)
  <2>2. PoolTable(n) = (SPAN + 3 + n) * SPAN
    BY <1>1, <2>1
  <2>. QED
    BY <1>2, <2>1, <2>2 DEF Tables
<1>. QED
  BY <1>4, <1>5, <1>6

\* The types, from the levels and from what walks find.
LEMMA TypesHold ==
  ASSUME OFFSET = 0, IInv
  PROVE  PagingTypeOK
<1>1. PICK lev : Levels(mem, used, lev)
  BY DEF IInv
<1>2. ASSUME NEW p \in DOMAIN tlb, NEW e \in tlb[p]
      PROVE  e.addr \in Nat /\ e.flags \in Rights
  <2>1. p \in Quads /\ tlb[p] = Walk(mem, p)
    BY PagingConstants DEF IInv, TlbCoherent, Quads
  <2>2. PICK t \in Tables(used) :
          /\ Asked(mem[t + p[4]])
          /\ Walk(mem, p) = At(mem[t + p[4]].addr, {"W"} \cap mem[t + p[4]].flags)
    BY <1>1, <1>2, <2>1, WalkValue, SMTT(60)
  <2>3. e.addr = mem[t + p[4]].addr /\ e.flags = {"W"} \cap mem[t + p[4]].flags
    BY <1>2, <2>1, <2>2, SMTT(60) DEF At
  <2>. QED
    BY <2>2, <2>3, FrameAligned DEF Asked, Rights
<1>. QED
  BY <1>1, <1>2 DEF PagingTypeOK, IInv, Levels

\* Levels give a tree.
LEMMA LevelsAreATree ==
  ASSUME OFFSET = 0, IInv
  PROVE  TableTree
<1>1. PICK lev : Levels(mem, used, lev)
  BY DEF IInv
<1> DEFINE Level(k) == {t \in Tables(used) : lev[t] = k}
<1>2. /\ used \in 0 .. POOL /\ lev \in [Tables(used) -> 0 .. 3] /\ lev[ROOT] = 0
      /\ ROOT \in Tables(used) /\ Tables(used) \subseteq Tables(POOL)
  BY <1>1, NextTable DEF Levels
<1>3. Level(0) = {ROOT}
  <2>1. ASSUME NEW t \in Tables(used), t # ROOT PROVE lev[t] # 0
    <3>1. PICK s \in Tables(used), i \in Index :
            lev[s] < 3 /\ mem[s + i].present /\ mem[s + i].addr = t
      BY <1>1, <2>1 DEF Levels, Linked
    <3>2. lev[t] = lev[s] + 1
      BY <1>1, <3>1 DEF Levels, Down
    <3>. QED
      BY <1>2, <3>2, SMTT(60)
  <2>. QED
    BY <1>2, <2>1
<1>4. L3 = Level(1)
  <2>1. Children(Level(0)) = Level(0 + 1)
    BY <1>1, ChildrenLevel, SMTT(60)
  <2>. QED
    BY <1>3, <2>1, SMTT(60) DEF L3
<1>5. L2 = Level(2)
  <2>1. Children(Level(1)) = Level(1 + 1)
    BY <1>1, ChildrenLevel, SMTT(60)
  <2>. QED
    BY <1>4, <2>1, SMTT(60) DEF L2
<1>6. L1 = Level(3)
  <2>1. Children(Level(2)) = Level(2 + 1)
    BY <1>1, ChildrenLevel, SMTT(60)
  <2>. QED
    BY <1>5, <2>1, SMTT(60) DEF L1
<1>7. L3 \cup L2 \cup L1 = Tables(used) \ {ROOT}
  BY <1>2, <1>3, <1>4, <1>5, <1>6, SMTT(60)
<1>8. ASSUME NEW k \in Links({ROOT} \cup L3 \cup L2), NEW l \in Links({ROOT} \cup L3 \cup L2),
             Target(k) = Target(l)
      PROVE  k = l
  <2>1. /\ k[1] \in Tables(used) /\ lev[k[1]] < 3 /\ k[2] \in Index /\ mem[k[1] + k[2]].present
        /\ l[1] \in Tables(used) /\ lev[l[1]] < 3 /\ l[2] \in Index /\ mem[l[1] + l[2]].present
        /\ k = <<k[1], k[2]>> /\ l = <<l[1], l[2]>>
    BY <1>2, <1>4, <1>5, SMTT(60) DEF Links
  <2>2. mem[k[1] + k[2]].addr \in Tables(used) /\ mem[l[1] + l[2]].addr \in Tables(used)
    BY <1>1, <2>1 DEF Levels, Down
  <2>3. mem[k[1] + k[2]].addr = mem[l[1] + l[2]].addr
    BY <1>2, <1>8, <2>2, TableWords DEF Target
  <2>4. k[1] = l[1] /\ k[2] = l[2]
    BY <1>1, <2>1, <2>3, SMTT(60) DEF Levels, OneParent
  <2>. QED
    BY <2>1, <2>4
<1>9. /\ ROOT \notin L3 \cup L2 \cup L1
      /\ L3 \cap L2 = {} /\ L3 \cap L1 = {} /\ L2 \cap L1 = {}
  BY <1>2, <1>4, <1>5, <1>6, SMTT(60)
<1>. QED
  BY <1>2, <1>7, <1>8, <1>9, TypesHold, TablesBelow DEF TableTree

\* However map_page, unmap_page and set_page_flags are called, and also when
\* the pool runs out between two levels of a call, the page tables stay a
\* tree of every table handed out.
THEOREM TablesStayATree == OFFSET = 0 => (PagingSpec => []TableTree)
<1> SUFFICES ASSUME OFFSET = 0 PROVE PagingSpec => []TableTree
  OBVIOUS
<1>1. IInv => TableTree
  BY LevelsAreATree
<1>. QED
  BY <1>1, Invariance, PTL

\* The processor never holds a translation that the tables do not: a change
\* to one page's entry cannot change what another page's walk finds.
THEOREM TranslationsNeverStale == OFFSET = 0 => (PagingSpec => []TlbCoherent)
<1> SUFFICES ASSUME OFFSET = 0 PROVE PagingSpec => []TlbCoherent
  OBVIOUS
<1>1. IInv => TlbCoherent
  BY DEF IInv
<1>. QED
  BY <1>1, Invariance, PTL

-----------------------------------------------------------------------------
(* The refinement.                                                         *)

\* What a walk finds is a translation of the address space.
LEMMA WalkIsTranslation ==
  ASSUME OFFSET = 0, IInv, NEW p \in Pages
  PROVE  Walk(mem, p) \in {{}} \cup {{e} : e \in Space!Translations}
<1>1. PICK lev : Levels(mem, used, lev)
  BY DEF IInv
<1>2. p \in Quads
  BY PagingConstants DEF Quads
<1>3. CASE Walk(mem, p) # {}
  <2>1. PICK t \in Tables(used) :
          /\ Asked(mem[t + p[4]])
          /\ Walk(mem, p) = At(mem[t + p[4]].addr, {"W"} \cap mem[t + p[4]].flags)
    BY <1>1, <1>2, <1>3, WalkValue, SMTT(60)
  <2> DEFINE e == [addr |-> mem[t + p[4]].addr, flags |-> {"W"} \cap mem[t + p[4]].flags]
  <2>2. e \in Space!Translations
    BY <2>1 DEF Asked, Space!Translations
  <2>3. Walk(mem, p) = {e}
    BY <2>1 DEF At
  <2>. QED
    BY <2>2, <2>3
<1>. QED
  BY <1>3

\* Every step is one of the address space, or changes nothing of it.
LEMMA StepRefines ==
  ASSUME OFFSET = 0, IInv, PagingNext
  PROVE  Space!Next \/ UNCHANGED <<Translations, ret>>
<1>1. /\ \A q \in Pages : Translations[q] = Walk(mem, q) /\ Translations'[q] = Walk(mem', q)
      /\ mem' = mem => Translations' = Translations
  BY DEF Translations
<1>2. CASE UNCHANGED <<mem, ret>>
  BY <1>1, <1>2
<1>3. CASE ret' = -1 /\ \A q \in Pages : Walk(mem', q) = Walk(mem, q)
  BY <1>1, <1>3 DEF Space!Next
<1>4. CASE ret' = 0 /\ \E p \in Pages : Others(p) /\ Served(p)
  <2>1. PICK p \in Pages : Others(p) /\ Served(p)
    BY <1>4
  <2>2. {q \in Pages : Translations'[q] # Translations[q]} \subseteq {p}
    BY <1>1, <2>1, PagingConstants DEF Others, Quads
  <2>3. CASE Walk(mem, p) # {} /\ Walk(mem', p) = {}
    <3>1. Space!Unmap(p)
      BY <1>1, <2>3 DEF Space!Unmap
    <3>. QED
      BY <1>4, <2>2, <3>1 DEF Space!Next
  <2>4. ASSUME NEW f \in Frames, NEW fl \in FlagSets, Walk(mem', p) = At(f, Space!Granted(fl))
        PROVE  Space!Next
    <3> DEFINE e == [addr |-> f, flags |-> Space!Granted(fl)]
    <3>1. e \in Space!Translations
      BY DEF Space!Translations
    <3>2. Translations'[p] = {e}
      BY <1>1, <2>4 DEF At
    <3>3. Space!Map(p)
      BY <3>1, <3>2 DEF Space!Map
    <3>. QED
      BY <1>4, <2>2, <3>3 DEF Space!Next
  <2>. QED
    BY <2>1, <2>3, <2>4 DEF Served
<1>. QED
  BY <1>2, <1>3, <1>4, StepEffect

\* For any tables, pool and pages: the page tables implement the address
\* space that callers of map_page, unmap_page and set_page_flags rely on.
THEOREM TablesImplementTheSpace == OFFSET = 0 => (PagingSpec => ImplementsAddressSpace)
<1> SUFFICES ASSUME OFFSET = 0 PROVE PagingSpec => ImplementsAddressSpace
  OBVIOUS
<1>1. PagingInit => Space!Init
  <2> SUFFICES ASSUME PagingInit PROVE Space!Init
    OBVIOUS
  <2>1. IInv
    BY InitHolds
  <2>2. Translations \in [Pages -> {{}} \cup {{e} : e \in Space!Translations}]
    BY <2>1, WalkIsTranslation DEF Translations
  <2>. QED
    BY <2>2 DEF Space!Init, PagingInit
<1>2. IInv /\ [PagingNext]_pagingVars => [Space!Next]_<<Translations, ret>>
  <2> SUFFICES ASSUME IInv, [PagingNext]_pagingVars PROVE [Space!Next]_<<Translations, ret>>
    OBVIOUS
  <2>1. CASE UNCHANGED pagingVars
    BY <2>1 DEF pagingVars, Translations
  <2>2. CASE PagingNext
    BY <2>2, StepRefines
  <2>. QED
    BY <2>1, <2>2
<1>. QED
  BY <1>1, <1>2, Invariance, PTL DEF PagingSpec, ImplementsAddressSpace, Space!Spec
=============================================================================
