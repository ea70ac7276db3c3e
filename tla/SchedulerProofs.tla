--------------------------- MODULE SchedulerProofs ---------------------------
(***************************************************************************)
(* Proofs about module Scheduler, for tables of any size and sleeps of any *)
(* length.                                                                 *)
(***************************************************************************)
EXTENDS Scheduler, WellFoundedInduction, TLAPS

-----------------------------------------------------------------------------
(* The loop of scheduler_schedule.                                         *)

\* The index of the k-th iteration, without the division.
LEMMA VisitValue ==
  ASSUME NEW n \in Nat \ {0}, NEW old \in 0 .. (n - 1), NEW k \in 1 .. n
  PROVE  Visit(old, k, n) = IF old + k < n THEN old + k ELSE old + k - n
<1>1. CASE old + k < n
  <2>1. old + k \in Nat /\ old + k < n
    BY <1>1
  <2>2. (old + k) % n = old + k
    BY <2>1
  <2>. QED
    BY <1>1, <2>2 DEF Visit
<1>2. CASE old + k >= n
  <2> DEFINE q == (old + k) \div n
             m == (old + k) % n
  <2>1. old + k = n * q + m /\ m \in 0 .. (n - 1) /\ q \in Int
    OBVIOUS
  <2>2. q = 1
    <3>1. CASE q >= 2
      <4>1. n * q >= n * 2
        BY <2>1, <3>1
      <4>. QED
        BY <2>1, <4>1
    <3>2. CASE q <= 0
      <4>1. n * q <= 0
        BY <2>1, <3>2
      <4>. QED
        BY <1>2, <2>1, <4>1
    <3>. QED
      BY <2>1, <3>1, <3>2
  <2>3. m = old + k - n
    BY <2>1, <2>2
  <2>. QED
    BY <1>2, <2>3 DEF Visit
<1>. QED
  BY <1>1, <1>2

\* Natural numbers have minima.
LEMMA Minimum ==
  ASSUME NEW T \in SUBSET Nat, T # {}
  PROVE  \E x \in T : \A y \in T : x <= y
<1>1. PICK x \in T : \A y \in T : ~(<<y, x>> \in OpToRel(<, Nat))
  BY NatLessThanWellFounded, WFMin
<1>2. \A y \in T : ~(y < x)
  BY <1>1 DEF OpToRel
<1>. QED
  BY <1>2

\* The loop ends, after one iteration for every task at the most.
LEMMA LoopEnds ==
  ASSUME NEW st, NEW ticks, NEW n \in Nat \ {0}, NEW old \in 0 .. (n - 1)
  PROVE  /\ Iterations(st, ticks, old, n) \in 1 .. n
         /\ Stops(st, ticks, old, Iterations(st, ticks, old, n), n)
         /\ \A j \in 1 .. (Iterations(st, ticks, old, n) - 1) : ~Stops(st, ticks, old, j, n)
<1> DEFINE T == {k \in 1 .. n : Stops(st, ticks, old, k, n)}
<1>1. n \in T
  BY DEF Stops
<1>2. T \in SUBSET Nat /\ T # {}
  BY <1>1
<1>3. PICK k \in T : \A j \in T : k <= j
  BY <1>2, Minimum
<1>4. k \in 1 .. n /\ Stops(st, ticks, old, k, n)
  OBVIOUS
<1>5. \A j \in 1 .. (k - 1) : ~Stops(st, ticks, old, j, n)
  <2> SUFFICES ASSUME NEW j \in 1 .. (k - 1), Stops(st, ticks, old, j, n)
               PROVE  FALSE
    OBVIOUS
  <2>1. j \in T
    BY <1>4
  <2>. QED
    BY <1>3, <1>4, <2>1
<1>6. \E l \in 1 .. n : /\ Stops(st, ticks, old, l, n)
                        /\ \A j \in 1 .. (l - 1) : ~Stops(st, ticks, old, j, n)
  BY <1>4, <1>5
<1>. QED
  BY <1>6 DEF Iterations

\* The loop picks a task.
LEMMA ChosenIsATask ==
  ASSUME NEW st, NEW ticks, NEW n \in Nat \ {0}, NEW old \in 0 .. (n - 1)
  PROVE  Chosen(st, ticks, old, n) \in 0 .. (n - 1)
<1>1. PICK k \in 1 .. n : Chosen(st, ticks, old, n) = Visit(old, k, n)
  BY LoopEnds DEF Chosen
<1>. QED
  BY <1>1, VisitValue

\* The iteration at which the loop ends is the first that stops.
LEMMA LoopCount ==
  ASSUME NEW st, NEW ticks, NEW n \in Nat \ {0}, NEW old \in 0 .. (n - 1), NEW k \in 1 .. n,
         Stops(st, ticks, old, k, n), \A j \in 1 .. (k - 1) : ~Stops(st, ticks, old, j, n)
  PROVE  Iterations(st, ticks, old, n) = k
<1> DEFINE First(l) == /\ Stops(st, ticks, old, l, n)
                       /\ \A j \in 1 .. (l - 1) : ~Stops(st, ticks, old, j, n)
           l == Iterations(st, ticks, old, n)
<1>1. l = CHOOSE i \in 1 .. n : First(i)
  BY DEF Iterations
<1>2. \E i \in 1 .. n : First(i)
  OBVIOUS
<1>3. l \in 1 .. n /\ First(l)
  BY <1>1, <1>2
<1> HIDE DEF l
<1>4. l < k => l \in 1 .. (k - 1)
  BY <1>3
<1>5. k < l => k \in 1 .. (l - 1)
  BY <1>3
<1>6. l = k
  BY <1>3, <1>4, <1>5
<1>. QED
  BY <1>6 DEF l

\* The loop visits a slot once, and the one it started from last.
LEMMA VisitOnce ==
  ASSUME NEW n \in Nat \ {0}, NEW old \in 0 .. (n - 1)
  PROVE  /\ Visit(old, 0, n) = old
         /\ \A k \in 1 .. n : /\ Visit(old, k, n) \in 0 .. (n - 1)
                              /\ Visit(old, k, n) = old <=> k = n
         /\ \A j, k \in 1 .. n : Visit(old, j, n) = Visit(old, k, n) => j = k
         /\ \A k \in 0 .. (n - 1) : Visit(Visit(old, k, n), 1, n) = Visit(old, k + 1, n)
<1>1. Visit(old, 0, n) = old
  BY DEF Visit
<1>2. \A k \in 1 .. n : Visit(old, k, n) = IF old + k < n THEN old + k ELSE old + k - n
  BY VisitValue
<1>3. \A k \in 1 .. n : /\ Visit(old, k, n) \in 0 .. (n - 1)
                        /\ Visit(old, k, n) = old <=> k = n
  BY <1>2
<1>4. \A j, k \in 1 .. n : Visit(old, j, n) = Visit(old, k, n) => j = k
  BY <1>2
<1>5. ASSUME NEW k \in 0 .. (n - 1)
      PROVE  Visit(Visit(old, k, n), 1, n) = Visit(old, k + 1, n)
  <2> DEFINE v == Visit(old, k, n)
  <2>1. v = IF old + k < n THEN old + k ELSE old + k - n
    BY <1>1, <1>2
  <2>2. v \in 0 .. (n - 1) /\ 1 \in 1 .. n /\ k + 1 \in 1 .. n
    BY <2>1
  <2> HIDE DEF v
  <2>3. Visit(v, 1, n) = IF v + 1 < n THEN v + 1 ELSE v + 1 - n
    BY <2>2, VisitValue
  <2>4. Visit(old, k + 1, n) = IF old + (k + 1) < n THEN old + (k + 1) ELSE old + (k + 1) - n
    BY <1>2, <2>2
  <2>5. Visit(v, 1, n) = Visit(old, k + 1, n)
    BY <2>1, <2>3, <2>4
  <2>. QED
    BY <2>5 DEF v
<1>. QED
  BY <1>1, <1>3, <1>4, <1>5

\* Visiting one more slot is visiting one more slot of the old table.
LEMMA VisitMore ==
  ASSUME NEW st \in [Slots -> {"READY", "SLEEPING", "ZOMBIE"}], NEW ticks \in [Slots -> Nat],
         NEW seen, NEW c, c \notin seen
  PROVE  /\ StatesAfter(StatesAfter(st, ticks, seen), TicksAfter(st, ticks, seen), {c})
              = StatesAfter(st, ticks, seen \cup {c})
         /\ TicksAfter(StatesAfter(st, ticks, seen), TicksAfter(st, ticks, seen), {c})
              = TicksAfter(st, ticks, seen \cup {c})
<1> DEFINE sa == StatesAfter(st, ticks, seen)
           ta == TicksAfter(st, ticks, seen)
<1>1. \A i \in Slots :
        /\ sa[i] = IF i \in seen /\ WakesUp(st, ticks, i) THEN "READY" ELSE st[i]
        /\ ta[i] = IF i \in seen /\ st[i] = "SLEEPING" /\ ticks[i] > 0
                   THEN ticks[i] - 1 ELSE ticks[i]
  BY DEF StatesAfter, TicksAfter
<1> HIDE DEF sa, ta
<1>2. ASSUME NEW i \in Slots
      PROVE  /\ (IF i \in {c} /\ WakesUp(sa, ta, i) THEN "READY" ELSE sa[i])
                  = (IF i \in seen \cup {c} /\ WakesUp(st, ticks, i) THEN "READY" ELSE st[i])
             /\ (IF i \in {c} /\ sa[i] = "SLEEPING" /\ ta[i] > 0 THEN ta[i] - 1 ELSE ta[i])
                  = (IF i \in seen \cup {c} /\ st[i] = "SLEEPING" /\ ticks[i] > 0
                     THEN ticks[i] - 1 ELSE ticks[i])
  <2>1. CASE i = c
    BY <1>1, <2>1 DEF WakesUp
  <2>2. CASE i # c
    BY <1>1, <2>2 DEF WakesUp
  <2>. QED
    BY <2>1, <2>2
<1>3. StatesAfter(sa, ta, {c}) = StatesAfter(st, ticks, seen \cup {c})
  BY <1>2 DEF StatesAfter
<1>4. TicksAfter(sa, ta, {c}) = TicksAfter(st, ticks, seen \cup {c})
  BY <1>2 DEF TicksAfter
<1>. QED
  BY <1>3, <1>4 DEF sa, ta

\* Whether the loop stops is a question of the tasks it visits.
LEMMA SameStops ==
  ASSUME NEW st, NEW ticks, NEW ms, NEW mt, NEW n \in Nat \ {0}, NEW old \in 0 .. (n - 1),
         \A i \in 0 .. (n - 1) : ms[i] = st[i] /\ mt[i] = ticks[i], NEW k \in 1 .. n
  PROVE  Stops(ms, mt, old, k, n) <=> Stops(st, ticks, old, k, n)
<1>1. Visit(old, k, n) \in 0 .. (n - 1)
  BY VisitOnce
<1>. QED
  BY <1>1 DEF Stops, Eligible, WakesUp

-----------------------------------------------------------------------------
(* The invariant.  A slot that is not in use has not been waiting, and     *)
(* current_task names slot 0 until there is a task.                        *)

IInv ==
  /\ RoundRobin
  /\ \A i \in Slots : i >= task_count => unseen[i] = 0
  /\ task_count = 0 => current_task = 0

\* Sets of states and ticks that agree with each other and with task_count.
Consistent(st, ticks) ==
  /\ st \in [Slots -> {"READY", "SLEEPING", "ZOMBIE"}]
  /\ ticks \in [Slots -> Nat]
  /\ \A i \in Slots : (i < task_count) <=> (st[i] # "ZOMBIE")
  /\ \A i \in Slots : st[i] = "READY" => ticks[i] = 0

\* scheduler_schedule keeps the table consistent, whatever it visits.
LEMMA VisitsKeepConsistent ==
  ASSUME NEW st, NEW ticks, NEW seen, Consistent(st, ticks), task_count \in Nat
  PROVE  Consistent(StatesAfter(st, ticks, seen), TicksAfter(st, ticks, seen))
<1> DEFINE sa == StatesAfter(st, ticks, seen)
           ta == TicksAfter(st, ticks, seen)
<1>1. Slots \subseteq Int
  BY DEF Slots
<1>2. sa \in [Slots -> {"READY", "SLEEPING", "ZOMBIE"}]
  BY DEF StatesAfter, Consistent
<1>3. ta \in [Slots -> Nat]
  BY DEF TicksAfter, Consistent
<1>4. ASSUME NEW i \in Slots
      PROVE  /\ (i < task_count) <=> (sa[i] # "ZOMBIE")
             /\ sa[i] = "READY" => ta[i] = 0
  <2>1. sa[i] = IF i \in seen /\ WakesUp(st, ticks, i) THEN "READY" ELSE st[i]
    BY DEF StatesAfter
  <2>2. ta[i] = IF i \in seen /\ st[i] = "SLEEPING" /\ ticks[i] > 0
                THEN ticks[i] - 1 ELSE ticks[i]
    BY DEF TicksAfter
  <2>3. /\ (i < task_count) <=> (st[i] # "ZOMBIE")
        /\ st[i] = "READY" => ticks[i] = 0
        /\ ticks[i] \in Nat
    BY DEF Consistent
  <2>. QED
    BY <2>1, <2>2, <2>3 DEF WakesUp
<1>. QED
  BY <1>2, <1>3, <1>4 DEF Consistent

\* A pass brings current_task nearer to every slot it does not visit.
LEMMA PassKeepsWaitDistance ==
  ASSUME IInv, SchedulerConstants, NEW st, NEW ticks, Noted, task_count' = task_count,
         IF task_count <= 1 THEN UNCHANGED current_task
         ELSE current_task' = Chosen(st, ticks, current_task, task_count)
  PROVE  /\ WaitDistance' /\ unseen' \in [Slots -> Nat] /\ current_task' \in Slots
         /\ task_count > 0 => current_task' < task_count
         /\ \A i \in Slots : i >= task_count => unseen'[i] = 0
<1> DEFINE n == task_count
           c == current_task
           d == current_task'
<1>0. /\ MAX_TASKS \in Nat \ {0} /\ n \in 0 .. MAX_TASKS /\ c \in Slots
      /\ unseen \in [Slots -> Nat] /\ Slots = 0 .. (MAX_TASKS - 1)
      /\ n > 0 => c < n
  BY DEF IInv, RoundRobin, TypeOK, TableConsistent, SchedulerConstants, Slots
<1>1. unseen' \in [Slots -> Nat] /\ \A i \in Slots : i >= n => unseen'[i] = 0
  BY <1>0 DEF Noted
<1>2. CASE n <= 1
  <2>1. \A i \in Slots : unseen'[i] = 0
    BY <1>2 DEF Noted
  <2>2. d = c
    BY <1>2
  <2>3. WaitDistance'
    BY <1>0, <1>2, <2>1, <2>2 DEF WaitDistance, Distance, Tasks
  <2>. QED
    BY <1>0, <1>1, <2>2, <2>3
<1>3. CASE n > 1
  <2>1. n \in Nat \ {0} /\ c \in 0 .. (n - 1)
    BY <1>0, <1>3
  <2>2. PICK k \in 1 .. n : d = IF c + k < n THEN c + k ELSE c + k - n
    <3>1. PICK k \in 1 .. n : Chosen(st, ticks, c, n) = Visit(c, k, n)
      BY <2>1, LoopEnds DEF Chosen
    <3>2. d = Chosen(st, ticks, c, n)
      BY <1>0, <1>3
    <3>3. Visit(c, k, n) = IF c + k < n THEN c + k ELSE c + k - n
      BY <2>1, VisitValue
    <3>. QED
      BY <3>1, <3>2, <3>3
  <2>3. d \in 0 .. (n - 1) /\ d \in Slots
    BY <1>0, <2>1, <2>2
  <2>4. ASSUME NEW i \in 0 .. (n - 1)
        PROVE  /\ unseen'[i] + Distance(d, i) <= n
               /\ i = d => unseen'[i] = 0
    <3>1. i \in Slots /\ i \in Int
      BY <1>0
    <3>2. unseen'[i] = IF i \in Passed THEN 0 ELSE unseen[i] + 1
      BY <1>0, <1>3, <3>1 DEF Noted
    <3>3. /\ unseen[i] + Distance(c, i) <= n
          /\ i = c => unseen[i] = 0
          /\ unseen[i] \in Nat
      BY <1>0, <3>1 DEF IInv, RoundRobin, WaitDistance, Tasks
    <3>4. Passed = IF d > c THEN (c + 1) .. d ELSE ((c + 1) .. (n - 1)) \cup (0 .. d)
      BY DEF Passed
    <3>5. Distance(c, i) = IF i >= c THEN i - c ELSE i - c + n
      BY DEF Distance
    <3>6. Distance(d, i) = IF i >= d THEN i - d ELSE i - d + n
      BY DEF Distance
    <3>. QED
      BY <2>1, <2>3, <3>1, <3>2, <3>3, <3>4, <3>5, <3>6
  <2>5. WaitDistance'
    BY <2>4 DEF WaitDistance, Tasks, Distance
  <2>. QED
    BY <1>1, <2>1, <2>3, <2>5
<1>. QED
  BY <1>0, <1>2, <1>3

\* A pass from a consistent table ends in one, with the invariant.
LEMMA PassKeepsInvariant ==
  ASSUME IInv, SchedulerConstants, NEW st, NEW ticks, Consistent(st, ticks),
         Pass(st, ticks), UNCHANGED task_count, Noted
  PROVE  IInv'
<1>1. task_count \in Nat /\ task_count' = task_count
  BY DEF IInv, RoundRobin, TypeOK, SchedulerConstants
<1>2. IF task_count <= 1 THEN UNCHANGED current_task
      ELSE current_task' = Chosen(st, ticks, current_task, task_count)
  BY DEF Pass
<1>3. /\ WaitDistance' /\ unseen' \in [Slots -> Nat] /\ current_task' \in Slots
      /\ task_count > 0 => current_task' < task_count
      /\ \A i \in Slots : i >= task_count => unseen'[i] = 0
  BY <1>1, <1>2, PassKeepsWaitDistance
<1>4. Consistent(state', sleep_ticks')
  <2>1. CASE task_count <= 1
    BY <2>1 DEF Pass
  <2>2. CASE ~(task_count <= 1)
    BY <1>1, <2>2, VisitsKeepConsistent DEF Pass
  <2>. QED
    BY <2>1, <2>2
<1>5. TypeOK'
  BY <1>1, <1>3, <1>4 DEF Consistent, TypeOK, IInv, RoundRobin
<1>6. TableConsistent'
  BY <1>1, <1>3, <1>4 DEF Consistent, TableConsistent
<1>7. task_count' = 0 => current_task' = 0
  BY <1>1, <1>2 DEF IInv
<1>. QED
  BY <1>1, <1>3, <1>5, <1>6, <1>7 DEF IInv, RoundRobin

\* The table is consistent in the sense of Consistent.
LEMMA InvariantConsistent == IInv => Consistent(state, sleep_ticks)
BY DEF IInv, RoundRobin, TypeOK, TableConsistent, Consistent

\* scheduler_add_task makes everybody's round longer by one.
LEMMA AddKeepsInvariant ==
  ASSUME IInv, SchedulerConstants, Add
  PROVE  IInv'
<1>0. /\ MAX_TASKS \in Nat \ {0} /\ Slots = 0 .. (MAX_TASKS - 1)
      /\ task_count \in 0 .. MAX_TASKS /\ task_count < MAX_TASKS
      /\ task_count \in Slots /\ current_task \in Slots
      /\ task_count > 0 => current_task < task_count
      /\ task_count' = task_count + 1 /\ current_task' = current_task /\ unseen' = unseen
      /\ unseen \in [Slots -> Nat]
  BY DEF IInv, RoundRobin, TypeOK, TableConsistent, SchedulerConstants, Slots, Add,
         scheduler_add_task
<1>1. TypeOK'
  BY <1>0 DEF IInv, RoundRobin, TypeOK, Add, scheduler_add_task
<1>2. task_count = 0 => current_task = 0
  BY DEF IInv
<1>3. TableConsistent'
  <2>1. state' = [state EXCEPT ![task_count] = "READY"]
        /\ sleep_ticks' = [sleep_ticks EXCEPT ![task_count] = 0]
    BY DEF Add, scheduler_add_task
  <2>2. current_task' < task_count'
    BY <1>0, <1>2
  <2>3. ASSUME NEW i \in Slots
        PROVE  /\ (i < task_count') <=> (state'[i] # "ZOMBIE")
               /\ state'[i] = "READY" => sleep_ticks'[i] = 0
    BY <1>0, <2>1 DEF IInv, RoundRobin, TypeOK, TableConsistent
  <2>. QED
    BY <2>2, <2>3 DEF TableConsistent
<1>4. WaitDistance'
  <2> SUFFICES ASSUME NEW i \in 0 .. task_count
               PROVE  /\ unseen[i] + (IF i >= current_task THEN i - current_task
                                      ELSE i - current_task + task_count + 1) <= task_count + 1
                      /\ i = current_task => unseen[i] = 0
    BY <1>0 DEF WaitDistance, Tasks, Distance
  <2>1. CASE i = task_count
    BY <1>0, <1>2, <2>1 DEF IInv
  <2>2. CASE i \in 0 .. (task_count - 1)
    <3>1. unseen[i] + (IF i >= current_task THEN i - current_task
                       ELSE i - current_task + task_count) <= task_count
          /\ (i = current_task => unseen[i] = 0)
      BY <2>2 DEF IInv, RoundRobin, WaitDistance, Tasks, Distance
    <3>2. unseen[i] \in Nat
      BY <1>0, <2>2
    <3>. QED
      BY <1>0, <2>2, <3>1, <3>2
  <2>. QED
    BY <1>0, <2>1, <2>2
<1>. QED
  BY <1>0, <1>1, <1>3, <1>4 DEF IInv, RoundRobin

\* The invariant is inductive.
LEMMA SchedulerStep ==
  ASSUME SchedulerConstants, IInv, [Next]_vars
  PROVE  IInv'
<1>1. CASE Add
  BY <1>1, AddKeepsInvariant
<1>2. CASE Yield
  BY <1>2, InvariantConsistent, PassKeepsInvariant DEF Yield, scheduler_schedule
<1>3. CASE Sleep
  <2>1. PICK t \in Naps : scheduler_sleep(t) /\ Noted
    BY <1>3 DEF Sleep
  <2> DEFINE st == [state EXCEPT ![current_task] = "SLEEPING"]
             ticks == [sleep_ticks EXCEPT ![current_task] = t]
  <2>2. Consistent(st, ticks)
    <3>1. t \in Nat
      BY DEF SchedulerConstants
    <3>2. task_count \in Nat /\ task_count # 0 /\ current_task < task_count /\ current_task \in Slots
      BY <2>1 DEF scheduler_sleep, IInv, RoundRobin, TypeOK, TableConsistent, SchedulerConstants
    <3>. QED
      BY <3>1, <3>2, InvariantConsistent DEF Consistent
  <2>3. Pass(st, ticks) /\ UNCHANGED task_count
    BY <2>1 DEF scheduler_sleep
  <2>. QED
    BY <2>1, <2>2, <2>3, PassKeepsInvariant
<1>4. CASE UNCHANGED vars
  BY <1>4 DEF vars, table, IInv, RoundRobin, TypeOK, TableConsistent, WaitDistance, Tasks, Distance
<1>. QED
  BY <1>1, <1>2, <1>3, <1>4 DEF Next

\* The table scheduler_init leaves.
LEMMA SchedulerInit ==
  ASSUME SchedulerConstants, Init
  PROVE  IInv
BY DEF SchedulerConstants, Init, TableInit, IInv, RoundRobin, TypeOK, TableConsistent,
       WaitDistance, Tasks, Slots

\* No task is passed over, in a table of any size and whatever the tasks do:
\* between two visits of scheduler_schedule to a slot there are at most as
\* many passes as there are tasks.
THEOREM NoTaskPassedOver == SchedulerConstants => (CallSpec => []RoundRobin)
<1> SUFFICES ASSUME SchedulerConstants PROVE CallSpec => []RoundRobin
  OBVIOUS
<1>1. Init => IInv
  BY SchedulerInit
<1>2. IInv /\ [Next]_vars => IInv'
  BY SchedulerStep
<1>3. IInv => RoundRobin
  BY DEF IInv
<1>. QED
  BY <1>1, <1>2, <1>3, PTL DEF CallSpec
=============================================================================
