----------------------------- MODULE Preemption -----------------------------
(***************************************************************************)
(* Timer interrupts (kernel/timer.c), the calls of kernel/scheduler.c they *)
(* fall into, and the contexts context_switch saves and restores.          *)
(*                                                                         *)
(* Three kinds of threads share the processor: kernel_main ("main"), which *)
(* adds the tasks, and the tasks themselves, thread i being the function   *)
(* of the i-th scheduler_add_task.  ctx[s] is the thread whose registers   *)
(* tasks[s] holds.  context_switch is taken at its word here: it saves the *)
(* running thread into one TCB and resumes the one in the other, where it  *)
(* was saved (module ContextLayout looks into it).                         *)
(*                                                                         *)
(* A call of scheduler_schedule by a task runs with interrupts on, and so  *)
(* in steps; as compiled (-O2) it loads current_task and task_count once   *)
(* and stores current_task once, after its loop.  In the timer interrupt   *)
(* interrupts are off, and timer_callback is one step up to the point      *)
(* where context_switch leaves the thread; the thread sends the EOI, and   *)
(* lets the next timer interrupt in, when it is resumed.                   *)
(*                                                                         *)
(* Once a thread has been saved into the TCB of another one, nothing that  *)
(* follows is defined: two contexts share a stack.  The model stops there. *)
(***************************************************************************)
EXTENDS Integers, FiniteSets

CONSTANTS
  NTASKS,   \* tasks kernel_main adds (2)
  SLICE,    \* scheduler_schedule is called every SLICE ticks (5)
  Naps      \* arguments of scheduler_sleep

ASSUME PreemptionConstants ==
  NTASKS \in Nat \ {0} /\ SLICE \in Nat \ {0} /\ Naps \subseteq Nat

VARIABLES
  state, sleep_ticks, task_count, current_task,  \* as in module Scheduler
  ctx,         \* slot -> thread
  running,     \* the thread on the processor
  frame,       \* thread -> where it is in scheduler.c, and its locals
  in_isr,      \* the threads that were switched away inside timer_callback
  tick,        \* tick_count % SLICE
  in_service,  \* the timer interrupt has not been acknowledged yet
  corrupt,     \* a thread was saved into a TCB that is not its own
  before,      \* history: the table when the running task made its call
  unseen       \* history: as in module Scheduler

table == <<state, sleep_ticks, task_count, current_task>>
timer == <<in_isr, tick, in_service>>
cpu   == <<ctx, running, corrupt>>
vars  == <<table, timer, cpu, frame, before, unseen>>

Slots == 0 .. (NTASKS - 1)
Main  == NTASKS
Nobody == -1
Threads == Slots \cup {Main}

\* The TCB a thread is meant to live in.  kernel_main has none of its own:
\* it runs while current_task is 0, and takes the one of task 0.
own(t) == IF t = Main THEN 0 ELSE t

\* Where the running task is.
at(pc) == running # Main /\ frame[running].pc = pc

\* The table as the callers of the scheduler see it: a task is there once it
\* is counted, and a call that is under way has not happened yet.
UnderWay == \E pc \in {"ticks", "enter", "loop", "store"} : at(pc)
Settled(now, then, none) ==
  [i \in Slots |-> IF i >= task_count THEN none ELSE IF UnderWay THEN then[i] ELSE now[i]]

\* The scheduler with every call as one step, on that table.  The steps below
\* use its reading of the loop, on the table as it is.
Atomic == INSTANCE Scheduler WITH
  MAX_TASKS <- NTASKS,
  state <- Settled(state, before.state, "ZOMBIE"),
  sleep_ticks <- Settled(sleep_ticks, before.sleep_ticks, 0)

-----------------------------------------------------------------------------
Init ==
  /\ state = [i \in Slots |-> "ZOMBIE"]
  /\ sleep_ticks = [i \in Slots |-> 0]
  /\ task_count = 0 /\ current_task = 0
  /\ ctx = [i \in Slots |-> Nobody]
  /\ running = Main
  /\ frame = [t \in Threads |->
                [pc |-> IF t = Main THEN "add" ELSE "run", old |-> 0, cur |-> 0, n |-> 0]]
  /\ in_isr = {} /\ tick = 0 /\ in_service = FALSE
  /\ corrupt = FALSE
  /\ before = [state |-> state, sleep_ticks |-> sleep_ticks]
  /\ unseen = [i \in Slots |-> 0]

Goto(pc) == frame' = [frame EXCEPT ![running].pc = pc]

\* context_switch(&tasks[old], &tasks[new]).  A thread that was saved inside
\* timer_callback goes on with apic_eoi and iretq, with interrupts off.
context_switch(old, new) ==
  /\ ctx' = [ctx EXCEPT ![old] = running]
  /\ running' = ctx[new]
  /\ corrupt' = (old # own(running))

Acknowledge(new) == in_service' = (in_service /\ ctx[new] \notin in_isr)

-----------------------------------------------------------------------------
(* kernel_main: scheduler_add_task, NTASKS times.                          *)

\* Fault: the task is counted before its registers are set up.
AddCountsFirst ==
  /\ running = Main /\ frame[Main].pc = "add" /\ task_count < NTASKS
  /\ state' = [state EXCEPT ![task_count] = "READY"]
  /\ sleep_ticks' = [sleep_ticks EXCEPT ![task_count] = 0]
  /\ task_count' = task_count + 1
  /\ Goto("regs")
  /\ UNCHANGED <<current_task, timer, cpu>>

AddState ==
  /\ running = Main /\ frame[Main].pc = "add" /\ task_count < NTASKS
  /\ state' = [state EXCEPT ![task_count] = "READY"]
  /\ sleep_ticks' = [sleep_ticks EXCEPT ![task_count] = 0]
  /\ Goto("regs")
  /\ UNCHANGED <<task_count, current_task, timer, cpu>>

AddRegs ==
  /\ running = Main /\ frame[Main].pc = "regs"
  /\ ctx' = [ctx EXCEPT ![task_count] = task_count]
  /\ Goto("count")
  /\ UNCHANGED <<table, timer, running, corrupt>>

AddCount ==
  /\ running = Main /\ frame[Main].pc = "count"
  /\ task_count' = task_count + 1
  /\ Goto("add")
  /\ UNCHANGED <<state, sleep_ticks, current_task, timer, cpu>>

scheduler_add_task == (AddState \/ AddRegs \/ AddCount) /\ UNCHANGED <<before, unseen>>

-----------------------------------------------------------------------------
(* A task in scheduler_yield or scheduler_sleep.                           *)

Remember == before' = [state |-> state, sleep_ticks |-> sleep_ticks]

\* scheduler_sleep marks the task and goes on in two stores.
SleepState ==
  /\ at("run") /\ task_count # 0 /\ Naps # {}
  /\ state' = [state EXCEPT ![current_task] = "SLEEPING"]
  /\ frame' = [frame EXCEPT ![running] = [@ EXCEPT !.pc = "ticks", !.old = current_task]]
  /\ Remember
  /\ UNCHANGED <<sleep_ticks, task_count, current_task, timer, cpu>>

SleepTicks(ticks) ==
  /\ at("ticks")
  /\ sleep_ticks' = [sleep_ticks EXCEPT ![frame[running].old] = ticks]
  /\ Goto("enter")
  /\ UNCHANGED <<state, task_count, current_task, timer, cpu>>

\* The first lines of scheduler_schedule.
Enter ==
  /\ at("enter")
  /\ frame' = [frame EXCEPT ![running] =
                 [pc |-> IF task_count <= 1 THEN "run" ELSE "loop",
                  old |-> current_task, cur |-> current_task, n |-> task_count]]
  /\ UNCHANGED <<table, timer, cpu>>

\* Fault: the loop goes by the state from before the wake-up.
IterateStale ==
  LET f == frame[running]
      c == Atomic!Visit(f.cur, 1, f.n)
  IN
  /\ at("loop")
  /\ state' = Atomic!StatesAfter(state, sleep_ticks, {c})
  /\ sleep_ticks' = Atomic!TicksAfter(state, sleep_ticks, {c})
  /\ frame' = [frame EXCEPT ![running] =
                 [@ EXCEPT !.cur = c,
                           !.pc = IF state[c] = "READY" \/ c = f.old
                                  THEN "store" ELSE "loop"]]
  /\ UNCHANGED <<task_count, current_task, timer, cpu>>

\* One iteration of its loop.
Iterate ==
  LET f == frame[running]
      c == Atomic!Visit(f.cur, 1, f.n)
  IN
  /\ at("loop")
  /\ state' = Atomic!StatesAfter(state, sleep_ticks, {c})
  /\ sleep_ticks' = Atomic!TicksAfter(state, sleep_ticks, {c})
  /\ frame' = [frame EXCEPT ![running] =
                 [@ EXCEPT !.cur = c,
                           !.pc = IF state'[c] = "READY" \/ c = f.old
                                  THEN "store" ELSE "loop"]]
  /\ UNCHANGED <<task_count, current_task, timer, cpu>>

\* Fault: the new task is recorded and never switched to.
StoreOnly ==
  /\ at("store")
  /\ current_task' = frame[running].cur
  /\ Goto("run")
  /\ UNCHANGED <<state, sleep_ticks, task_count, timer, cpu>>

\* Behind the loop.
Store ==
  LET f == frame[running] IN
  /\ at("store")
  /\ current_task' = f.cur
  /\ Goto(IF f.cur # f.old THEN "switch" ELSE "run")
  /\ UNCHANGED <<state, sleep_ticks, task_count, timer, cpu>>

Switch ==
  LET f == frame[running] IN
  /\ at("switch")
  /\ context_switch(f.old, f.cur)
  /\ Acknowledge(f.cur)
  /\ in_isr' = in_isr \ {ctx[f.cur]}
  /\ Goto("run")
  /\ UNCHANGED <<table, tick>>

scheduler_yield ==
  at("run") /\ Goto("enter") /\ Remember /\ UNCHANGED <<table, timer, cpu, unseen>>

scheduler_sleep ==
  /\ \/ SleepState
     \/ \E ticks \in Naps : SleepTicks(ticks) /\ UNCHANGED before
  /\ UNCHANGED unseen

\* A pass is over when current_task is stored.
scheduler_schedule ==
  /\ \/ (Enter \/ Iterate \/ Switch) /\ UNCHANGED unseen
     \/ Store /\ Atomic!Noted
  /\ UNCHANGED before

-----------------------------------------------------------------------------
(* timer_callback.                                                         *)

\* A tick that does not switch: the EOI ends it.
TickOnly ==
  /\ ~in_service
  /\ tick' = (tick + 1) % SLICE
  /\ tick' # 0 \/ task_count <= 1
  /\ UNCHANGED <<table, cpu, frame, in_isr, in_service>>

\* Fault: the EOI is sent before scheduler_schedule is called.
TickEoiFirst ==
  LET seen == Atomic!Visited(state, sleep_ticks, current_task, task_count)
      new  == Atomic!Chosen(state, sleep_ticks, current_task, task_count)
  IN
  /\ ~in_service
  /\ tick' = (tick + 1) % SLICE
  /\ tick' = 0 /\ task_count > 1
  /\ state' = Atomic!StatesAfter(state, sleep_ticks, seen)
  /\ sleep_ticks' = Atomic!TicksAfter(state, sleep_ticks, seen)
  /\ current_task' = new
  /\ IF new = current_task THEN UNCHANGED cpu ELSE context_switch(current_task, new)
  /\ UNCHANGED <<task_count, frame, in_isr, in_service>>

\* A tick that calls scheduler_schedule, from within whatever was running.
TickSchedule ==
  LET seen == Atomic!Visited(state, sleep_ticks, current_task, task_count)
      new  == Atomic!Chosen(state, sleep_ticks, current_task, task_count)
  IN
  /\ ~in_service
  /\ tick' = (tick + 1) % SLICE
  /\ tick' = 0 /\ task_count > 1
  /\ state' = Atomic!StatesAfter(state, sleep_ticks, seen)
  /\ sleep_ticks' = Atomic!TicksAfter(state, sleep_ticks, seen)
  /\ current_task' = new
  /\ IF new = current_task
     THEN UNCHANGED <<cpu, in_isr, in_service>>
     ELSE /\ context_switch(current_task, new)
          /\ in_service' = (ctx[new] \notin in_isr)
          /\ in_isr' = (in_isr \cup {running}) \ {ctx[new]}
  /\ UNCHANGED <<task_count, frame>>

timer_callback ==
  /\ \/ TickOnly /\ UNCHANGED unseen
     \/ TickSchedule /\ Atomic!Noted
  /\ UNCHANGED before

-----------------------------------------------------------------------------
Thread == scheduler_add_task \/ scheduler_schedule \/ scheduler_sleep

\* A task may yield or sleep, or go on for as long as it likes.
Next ==
  /\ ~corrupt
  /\ Thread \/ scheduler_yield \/ timer_callback

Spec == Init /\ [][Next]_vars

\* The timer goes off whenever it is allowed to, and the tasks of kernel_main,
\* loops that print and call scheduler_sleep, do call it.
FairSpec == Spec /\ WF_vars(~corrupt /\ Thread) /\ WF_vars(~corrupt /\ timer_callback)

-----------------------------------------------------------------------------
(* Properties.                                                             *)

\* Every variable has its type.
TypeOK ==
  /\ state \in [Slots -> {"READY", "SLEEPING", "ZOMBIE"}]
  /\ sleep_ticks \in [Slots -> Nat]
  /\ task_count \in 0 .. NTASKS
  /\ current_task \in Slots
  /\ ctx \in [Slots -> Threads \cup {Nobody}]
  /\ running \in Threads
  /\ in_isr \subseteq Threads
  /\ tick \in 0 .. (SLICE - 1)
  /\ in_service \in BOOLEAN /\ corrupt \in BOOLEAN

\* A timer tick between any two steps of scheduler_add_task never resumes a
\* TCB that is still being filled in: task_count is raised last.
OnlyInitialisedRuns == running # Nobody /\ \A i \in 0 .. (task_count - 1) : ctx[i] # Nobody

\* context_switch saves a thread into the TCB of that thread, although no
\* call of scheduler_schedule is protected against the timer.  Why that is
\* so: timer_callback sends the EOI after scheduler_schedule, so that no tick
\* comes before kernel_main, the one thread that never calls the scheduler,
\* has the processor back.  Until then it owes the EOI, and is waiting in the
\* TCB it was saved in.
TicksOnlyInMain ==
  /\ TypeOK
  /\ ~corrupt
  /\ in_service <=> running # Main
  /\ in_isr = IF in_service THEN {Main} ELSE {}
  /\ in_service => ctx[own(Main)] = Main

\* Although every call runs in steps with interrupts on, and ticks come at
\* any moment, the table changes as if each scheduler_add_task,
\* scheduler_yield, scheduler_sleep and tick were one step of it.
ImplementsScheduler == Atomic!CallSpec

\* No task is passed over, wherever ticks fall into the calls: the table as
\* callers see it is consistent, and between two visits to a slot there are
\* at most as many passes as there are tasks.
RoundRobin == Atomic!RoundRobin

\* Ticks go on: the timer will call scheduler_schedule again.
TicksGoOn == \A k \in 0 .. (SLICE - 1) : []<>(tick = k)

\* Every task that was added, but for the first, is on the processor again and
\* again, after sleeps of any length: on the processor, and not just in
\* current_task.  The first never is: kernel_main was saved over its registers.
TasksRun ==
  /\ \A t \in Slots \ {0} : t < task_count ~> running = t
  /\ [](running # 0)
=============================================================================
