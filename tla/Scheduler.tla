------------------------------ MODULE Scheduler ------------------------------
(***************************************************************************)
(* The round-robin scheduler of kernel/scheduler.c, with every call as one *)
(* step: the task table, current_task, and which task scheduler_schedule   *)
(* picks.  What happens when a timer interrupt falls into a call is the    *)
(* subject of module Preemption.                                           *)
(*                                                                         *)
(* TASK_RUNNING and TASK_BLOCKED are never assigned by the code: the       *)
(* running task is the one current_task names, and its state is READY.     *)
(***************************************************************************)
EXTENDS Integers

CONSTANTS
  MAX_TASKS,   \* slots of the task table
  Naps         \* the arguments of scheduler_sleep

SchedulerConstants == MAX_TASKS \in Nat \ {0} /\ Naps \subseteq Nat

VARIABLES
  state,         \* slot -> "READY", "SLEEPING" or "ZOMBIE"
  sleep_ticks,   \* slot -> remaining passes
  task_count,
  current_task,
  unseen         \* history: passes since the slot was last visited

table == <<state, sleep_ticks, task_count, current_task>>
vars  == <<table, unseen>>

Slots == 0 .. (MAX_TASKS - 1)
Tasks == 0 .. (task_count - 1)

-----------------------------------------------------------------------------
(* The loop of scheduler_schedule over n slots, from slot old on: its k-th *)
(* iteration visits slot Visit(old, k, n).                                 *)

Visit(old, k, n) == (old + k) % n

\* Fault: off by one.
WakesEarly(st, ticks, i) == st[i] = "SLEEPING" /\ ticks[i] <= 2

\* A visit takes one off a sleeper's ticks and wakes it when none are left.
WakesUp(st, ticks, i) == st[i] = "SLEEPING" /\ ticks[i] <= 1
Eligible(st, ticks, i) == st[i] = "READY" \/ WakesUp(st, ticks, i)

\* The loop ends at the first eligible slot, or back at old.
Stops(st, ticks, old, k, n) == k = n \/ Eligible(st, ticks, Visit(old, k, n))

Iterations(st, ticks, old, n) ==
  CHOOSE k \in 1 .. n :
    /\ Stops(st, ticks, old, k, n)
    /\ \A j \in 1 .. (k - 1) : ~Stops(st, ticks, old, j, n)

Visited(st, ticks, old, n) ==
  {Visit(old, k, n) : k \in 1 .. Iterations(st, ticks, old, n)}

Chosen(st, ticks, old, n) == Visit(old, Iterations(st, ticks, old, n), n)

StatesAfter(st, ticks, seen) ==
  [i \in Slots |-> IF i \in seen /\ WakesUp(st, ticks, i) THEN "READY" ELSE st[i]]

\* Fault: a sleeper with several passes to go is not counted down.
TicksStay(st, ticks, seen) ==
  [i \in Slots |-> IF i \in seen /\ WakesUp(st, ticks, i) THEN 0 ELSE ticks[i]]

TicksAfter(st, ticks, seen) ==
  [i \in Slots |-> IF i \in seen /\ st[i] = "SLEEPING" /\ ticks[i] > 0
                   THEN ticks[i] - 1 ELSE ticks[i]]

-----------------------------------------------------------------------------
\* scheduler_init
TableInit ==
  /\ state = [i \in Slots |-> "ZOMBIE"]
  /\ sleep_ticks = [i \in Slots |-> 0]
  /\ task_count = 0
  /\ current_task = 0

scheduler_add_task ==
  /\ task_count < MAX_TASKS
  /\ state' = [state EXCEPT ![task_count] = "READY"]
  /\ sleep_ticks' = [sleep_ticks EXCEPT ![task_count] = 0]
  /\ task_count' = task_count + 1
  /\ UNCHANGED current_task

\* scheduler_schedule on a table whose states and ticks are st and ticks.
Pass(st, ticks) ==
  IF task_count <= 1
  THEN state' = st /\ sleep_ticks' = ticks /\ UNCHANGED current_task
  ELSE LET seen == Visited(st, ticks, current_task, task_count) IN
       /\ state' = StatesAfter(st, ticks, seen)
       /\ sleep_ticks' = TicksAfter(st, ticks, seen)
       /\ current_task' = Chosen(st, ticks, current_task, task_count)

\* Called by scheduler_yield and by every fifth timer tick.
scheduler_schedule == Pass(state, sleep_ticks) /\ UNCHANGED task_count

scheduler_sleep(ticks) ==
  /\ task_count # 0
  /\ Pass([state EXCEPT ![current_task] = "SLEEPING"],
          [sleep_ticks EXCEPT ![current_task] = ticks])
  /\ UNCHANGED task_count

-----------------------------------------------------------------------------
(* The table together with a count of the passes a slot has waited.  A     *)
(* pass visits the slots behind the old current_task up to the new one.    *)

Passed == IF current_task' > current_task
          THEN (current_task + 1) .. current_task'
          ELSE ((current_task + 1) .. (task_count - 1)) \cup (0 .. current_task')

Noted == unseen' = [i \in Slots |-> IF task_count <= 1 \/ i >= task_count \/ i \in Passed
                                   THEN 0 ELSE unseen[i] + 1]

Init == TableInit /\ unseen = [i \in Slots |-> 0]

Add   == scheduler_add_task /\ UNCHANGED unseen
Yield == scheduler_schedule /\ Noted
Sleep == \E ticks \in Naps : scheduler_sleep(ticks) /\ Noted

Next == Add \/ Yield \/ Sleep

\* What the scheduler promises: every call is one step on the table.  Nothing
\* here says that there will be another call: that depends on who runs (see
\* module Preemption).
CallSpec == Init /\ [][Next]_vars

-----------------------------------------------------------------------------
(* Properties.                                                             *)

\* Every variable has its type.
TypeOK ==
  /\ state \in [Slots -> {"READY", "SLEEPING", "ZOMBIE"}]
  /\ sleep_ticks \in [Slots -> Nat]
  /\ task_count \in 0 .. MAX_TASKS
  /\ current_task \in Slots
  /\ unseen \in [Slots -> Nat]

\* The slots below task_count, and no others, hold tasks, current_task is
\* one of them, and a task that is READY has no ticks left to sleep.
TableConsistent ==
  /\ \A i \in Slots : (i < task_count) <=> (state[i] # "ZOMBIE")
  /\ task_count > 0 => current_task < task_count
  /\ \A i \in Slots : state[i] = "READY" => sleep_ticks[i] = 0

\* How far the loop has to go from slot c to slot i.
Distance(c, i) == IF i >= c THEN i - c ELSE i - c + task_count

\* Each pass that does not visit a slot brings current_task nearer to it.
WaitDistance ==
  \A i \in Tasks : /\ unseen[i] + Distance(current_task, i) <= task_count
                   /\ i = current_task => unseen[i] = 0

\* The table is consistent and no task is passed over: between two visits to
\* a slot there are at most as many passes as there are tasks, whoever sleeps
\* and whoever is added.  So a READY task is run within that many passes, and
\* a sleeping one is counted down at least that often.
RoundRobin == TypeOK /\ TableConsistent /\ WaitDistance
=============================================================================
