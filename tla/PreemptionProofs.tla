-------------------------- MODULE PreemptionProofs --------------------------
(***************************************************************************)
(* Proofs about module Preemption, for any number of tasks, any time slice *)
(* and sleeps of any length.                                               *)
(***************************************************************************)
EXTENDS Preemption, TLAPS

\* Zenon, which knows no arithmetic, is tried first; a leaf beyond it names SMT.
USE ZenonT(60), SMTT(60)

\* One iteration goes on to another task.
LEMMA NextIsATask ==
  ASSUME NEW n \in Nat \ {0}, NEW c \in 0 .. (n - 1)
  PROVE  Atomic!Visit(c, 1, n) \in 0 .. (n - 1)
BY SMTT(60) DEF Atomic!Visit

-----------------------------------------------------------------------------
(* The invariant: kernel_main runs while current_task is 0, and thread 0   *)
(* never does, since its TCB is kernel_main's; a task runs while           *)
(* current_task names it, until it has stored the next one and is about to *)
(* switch; and whoever was switched away is outside scheduler.c.           *)

Inside == {"loop", "store", "switch"}

\* The locals of the task that runs.
Locals ==
  LET f == frame[running] IN
  /\ f.pc \in {"run", "ticks", "enter"} \cup Inside
  /\ f.pc = "switch" => current_task = f.cur /\ f.cur # f.old
  /\ f.pc # "switch" => current_task = running
  /\ f.pc \in Inside \cup {"ticks"} => f.old = running
  /\ f.pc \in Inside => f.n = task_count /\ f.cur \in 0 .. (task_count - 1)

Places == {"run", "ticks", "enter", "add", "regs", "count"} \cup Inside
Frame == [pc : Places, old : Slots, cur : Slots, n : 0 .. NTASKS]

Frames ==
  /\ frame \in [Threads -> Frame]
  /\ frame[Main].pc \in {"add", "regs", "count"}
  /\ frame[Main].pc # "add" => task_count < NTASKS
  /\ frame[Main].pc = "count" => ctx[task_count] = task_count
  /\ \A t \in Slots : t # running => frame[t].pc = "run"

IInv ==
  /\ TicksOnlyInMain
  /\ Frames
  /\ \A i \in 1 .. (task_count - 1) : ctx[i] = i
  /\ task_count > 0 => ctx[0] \in {0, Main}
  /\ running = Main => current_task = 0
  /\ running # Main => running \in 1 .. (task_count - 1) /\ Locals

\* The constants, and who is who.
LEMMA Names ==
  /\ NTASKS \in Nat \ {0} /\ SLICE \in Nat \ {0} /\ Naps \subseteq Nat
  /\ Slots = 0 .. (NTASKS - 1) /\ Main = NTASKS /\ Nobody = -1
  /\ Threads = 0 .. NTASKS /\ own(Main) = 0
  /\ \A t \in Slots : t # Main /\ own(t) = t
BY PreemptionConstants, SMTT(60) DEF Slots, Main, Nobody, Threads, own

\* Visits leave states and counters of their types.
LEMMA VisitTypes ==
  ASSUME NEW seen, TypeOK
  PROVE  /\ Atomic!StatesAfter(state, sleep_ticks, seen) \in [Slots -> {"READY", "SLEEPING", "ZOMBIE"}]
         /\ Atomic!TicksAfter(state, sleep_ticks, seen) \in [Slots -> Nat]
<1>1. Atomic!Slots = Slots
  BY DEF Atomic!Slots, Slots
<1>2. state \in [Slots -> {"READY", "SLEEPING", "ZOMBIE"}] /\ sleep_ticks \in [Slots -> Nat]
  BY DEF TypeOK
<1>. QED
  BY <1>1, <1>2, SMTT(60) DEF Atomic!StatesAfter, Atomic!TicksAfter

\* Going on in the code changes where the thread is, and nobody else.
LEMMA GotoFrame ==
  ASSUME frame \in [Threads -> Frame], running \in Threads, NEW l \in Places, Goto(l)
  PROVE  /\ frame' \in [Threads -> Frame]
         /\ frame'[running].pc = l
         /\ frame'[running].old = frame[running].old
         /\ frame'[running].cur = frame[running].cur
         /\ frame'[running].n = frame[running].n
         /\ \A t \in Threads : t # running => frame'[t] = frame[t]
<1> DEFINE g == [frame[running] EXCEPT !.pc = l]
<1>1. frame' = [frame EXCEPT ![running] = g]
  BY DEF Goto
<1>2. frame[running] \in Frame
  OBVIOUS
<1>3. /\ g \in Frame /\ g.pc = l /\ g.old = frame[running].old
      /\ g.cur = frame[running].cur /\ g.n = frame[running].n
  BY <1>2 DEF Frame
<1> HIDE DEF g
<1>. QED
  BY <1>1, <1>3

\* kernel_main's steps of scheduler_add_task.
LEMMA AddStep ==
  ASSUME IInv, AddState \/ AddRegs \/ AddCount
  PROVE  IInv'
<1>0. running = Main /\ running' = Main /\ corrupt' = corrupt /\ current_task' = current_task
      /\ in_isr' = in_isr /\ tick' = tick /\ in_service' = in_service
  BY DEF AddState, AddRegs, AddCount, timer, cpu, table
<1>1. TypeOK /\ ~corrupt /\ current_task = 0 /\ ~in_service /\ in_isr = {}
  BY <1>0 DEF IInv, TicksOnlyInMain
<1>2. /\ \A i \in 1 .. (task_count - 1) : ctx[i] = i
      /\ task_count > 0 => ctx[0] \in {0, Main}
      /\ ctx \in [Slots -> Threads \cup {Nobody}] /\ task_count \in 0 .. NTASKS
  BY <1>1 DEF IInv, TypeOK
<1>3. /\ frame[Main].pc # "add" => task_count < NTASKS
      /\ frame[Main].pc = "count" => ctx[task_count] = task_count
  BY DEF IInv, Frames
<1>4. ASSUME NEW l \in {"add", "regs", "count"}, Goto(l)
      PROVE  /\ frame' \in [Threads -> Frame]
             /\ frame'[Main].pc = l
             /\ \A t \in Slots : frame'[t].pc = "run"
  <2>1. frame \in [Threads -> Frame] /\ running \in Threads /\ l \in Places
    BY <1>1 DEF IInv, Frames, TypeOK, Places
  <2>2. \A t \in Slots : t \in Threads /\ t # Main /\ frame[t].pc = "run"
    BY <1>0, Names, SMTT(60) DEF IInv, Frames
  <2>. QED
    BY <1>0, <1>4, <2>1, <2>2, GotoFrame
<1>5. ASSUME task_count' \in 0 .. NTASKS, ctx' \in [Slots -> Threads \cup {Nobody}],
             state' \in [Slots -> {"READY", "SLEEPING", "ZOMBIE"}],
             sleep_ticks' \in [Slots -> Nat], Frames',
             \A i \in 1 .. (task_count' - 1) : ctx'[i] = i,
             task_count' > 0 => ctx'[0] \in {0, Main}
      PROVE  IInv'
  BY <1>0, <1>1, <1>5 DEF IInv, TicksOnlyInMain, TypeOK
<1>6. CASE AddState
  <2>1. task_count \in Slots /\ task_count < NTASKS
    BY <1>2, <1>6, Names, SMTT(60) DEF AddState
  <2>2. /\ state' \in [Slots -> {"READY", "SLEEPING", "ZOMBIE"}]
        /\ sleep_ticks' \in [Slots -> Nat]
    BY <1>1, <1>6, <2>1 DEF AddState, TypeOK
  <2>3. task_count' = task_count /\ ctx' = ctx
    BY <1>6 DEF AddState, cpu
  <2>4. Frames'
    BY <1>0, <1>4, <1>6, <2>1, <2>3 DEF AddState, Frames
  <2>. QED
    BY <1>2, <1>5, <2>2, <2>3, <2>4
<1>7. CASE AddRegs
  <2>1. task_count < NTASKS /\ task_count \in Slots /\ task_count \in Threads
    BY <1>2, <1>3, <1>7, Names, SMTT(60) DEF AddRegs
  <2>2. /\ task_count' = task_count /\ ctx' = [ctx EXCEPT ![task_count] = task_count]
        /\ state' = state /\ sleep_ticks' = sleep_ticks
    BY <1>7 DEF AddRegs, table
  <2>3. ctx'[task_count] = task_count /\ \A i \in Slots : i # task_count => ctx'[i] = ctx[i]
    BY <1>2, <2>1, <2>2
  <2>4. ctx' \in [Slots -> Threads \cup {Nobody}]
    BY <1>2, <2>1, <2>2
  <2>5. ASSUME NEW i \in 1 .. (task_count' - 1) PROVE ctx'[i] = i
    <3>1. i \in 1 .. (task_count - 1) /\ i \in Slots /\ i # task_count
      BY <1>2, <2>1, <2>2, Names, SMTT(60)
    <3>. QED
      BY <1>2, <2>3, <3>1
  <2>6. task_count' > 0 => ctx'[0] \in {0, Main}
    BY <1>2, <2>2, <2>3, Names, SMTT(60)
  <2>7. Frames'
    BY <1>0, <1>4, <1>7, <2>1, <2>2, <2>3 DEF AddRegs, Frames
  <2>. QED
    BY <1>1, <1>2, <1>5, <2>2, <2>4, <2>5, <2>6, <2>7 DEF TypeOK
<1>8. CASE AddCount
  <2>1. task_count < NTASKS /\ task_count \in Slots /\ ctx[task_count] = task_count
    BY <1>2, <1>3, <1>8, Names, SMTT(60) DEF AddCount
  <2>2. /\ task_count' = task_count + 1 /\ ctx' = ctx
        /\ state' = state /\ sleep_ticks' = sleep_ticks
    BY <1>8 DEF AddCount, cpu
  <2>3. task_count' \in 0 .. NTASKS
    BY <1>2, <2>1, <2>2, Names, SMTT(60)
  <2>4. ASSUME NEW i \in 1 .. (task_count' - 1) PROVE ctx'[i] = i
    <3>1. i \in 1 .. (task_count - 1) \/ i = task_count
      BY <1>2, <2>2, SMTT(60)
    <3>. QED
      BY <1>2, <2>1, <2>2, <3>1
  <2>5. ctx'[0] \in {0, Main}
    <3>1. task_count = 0 \/ task_count > 0
      BY <1>2, SMTT(60)
    <3>. QED
      BY <1>2, <2>1, <2>2, <3>1
  <2>6. Frames'
    BY <1>0, <1>4, <1>8 DEF AddCount, Frames
  <2>. QED
    BY <1>1, <1>2, <1>5, <2>2, <2>3, <2>4, <2>5, <2>6 DEF TypeOK
<1>. QED
  BY <1>6, <1>7, <1>8

-----------------------------------------------------------------------------
(* The steps of a task.                                                    *)

\* What holds while a task runs.
LEMMA TaskFacts ==
  ASSUME IInv, running # Main
  PROVE  /\ running \in 1 .. (task_count - 1) /\ running \in Slots /\ running \in Threads
         /\ task_count \in Nat \ {0, 1} /\ task_count \in 0 .. NTASKS
         /\ 0 .. (task_count - 1) \subseteq Slots
         /\ current_task \in Slots
         /\ in_service /\ in_isr = {Main} /\ ctx[0] = Main /\ ~corrupt
         /\ frame \in [Threads -> Frame] /\ Locals /\ TypeOK
<1>1. running \in 1 .. (task_count - 1) /\ TypeOK /\ Locals /\ frame \in [Threads -> Frame]
  BY DEF IInv, TicksOnlyInMain, Frames
<1>2. task_count \in 0 .. NTASKS /\ current_task \in Slots
  BY <1>1 DEF TypeOK
<1>3. in_service /\ in_isr = {Main} /\ ctx[0] = Main /\ ~corrupt
  BY Names DEF IInv, TicksOnlyInMain
<1>4. running \in Slots /\ running \in Threads /\ task_count \in Nat \ {0, 1}
      /\ 0 .. (task_count - 1) \subseteq Slots
  BY <1>1, <1>2, Names, SMTT(60)
<1>. QED
  BY <1>1, <1>2, <1>3, <1>4

\* A task's step that does not switch changes the invariant's parts only
\* through its own locals.
LEMMA TaskStays ==
  ASSUME IInv, running # Main, UNCHANGED <<task_count, timer, cpu>>,
         state' \in [Slots -> {"READY", "SLEEPING", "ZOMBIE"}],
         sleep_ticks' \in [Slots -> Nat], current_task' \in Slots,
         frame' \in [Threads -> Frame],
         \A t \in Threads : t # running => frame'[t] = frame[t],
         Locals'
  PROVE  IInv'
<1>1. /\ task_count' = task_count /\ in_isr' = in_isr /\ tick' = tick
      /\ in_service' = in_service /\ ctx' = ctx /\ running' = running /\ corrupt' = corrupt
  BY DEF timer, cpu
<1>2. TypeOK'
  BY <1>1, TaskFacts DEF TypeOK
<1>3. TicksOnlyInMain'
  BY <1>1, <1>2 DEF IInv, TicksOnlyInMain
<1>4. Frames'
  <2>1. frame'[Main] = frame[Main] /\ \A t \in Slots : t # running => frame'[t] = frame[t]
    BY Names, SMTT(60)
  <2>. QED
    BY <1>1, <2>1 DEF IInv, Frames
<1>. QED
  BY <1>1, <1>3, <1>4 DEF IInv

\* scheduler_yield, and the two stores of scheduler_sleep.
LEMMA CallStep ==
  ASSUME IInv, scheduler_yield \/ SleepState \/ (\E ticks \in Naps : SleepTicks(ticks))
  PROVE  IInv'
<1>0. running # Main
  BY DEF scheduler_yield, SleepState, SleepTicks, at
<1>1. /\ running \in Slots /\ running \in Threads /\ current_task \in Slots
      /\ frame \in [Threads -> Frame] /\ Locals
      /\ state \in [Slots -> {"READY", "SLEEPING", "ZOMBIE"}] /\ sleep_ticks \in [Slots -> Nat]
  BY <1>0, TaskFacts DEF TypeOK
<1>2. CASE scheduler_yield
  <2>1. /\ frame[running].pc = "run" /\ Goto("enter")
        /\ UNCHANGED <<task_count, timer, cpu>> /\ running' = running
        /\ state' = state /\ sleep_ticks' = sleep_ticks /\ current_task' = current_task
    BY <1>2 DEF scheduler_yield, at, table, cpu
  <2>2. /\ frame' \in [Threads -> Frame] /\ frame'[running].pc = "enter"
        /\ \A t \in Threads : t # running => frame'[t] = frame[t]
    BY <1>1, <2>1, GotoFrame DEF Places
  <2>3. Locals'
    BY <1>1, <2>1, <2>2 DEF Locals, Inside
  <2>. QED
    BY <1>0, <1>1, <2>1, <2>2, <2>3, TaskStays
<1>3. CASE SleepState
  <2> DEFINE g == [frame[running] EXCEPT !.pc = "ticks", !.old = current_task]
  <2>1. /\ frame[running].pc = "run" /\ frame' = [frame EXCEPT ![running] = g]
        /\ UNCHANGED <<task_count, timer, cpu>> /\ running' = running
        /\ state' = [state EXCEPT ![current_task] = "SLEEPING"]
        /\ sleep_ticks' = sleep_ticks /\ current_task' = current_task
    BY <1>3 DEF SleepState, at, cpu
  <2>2. g \in Frame /\ g.pc = "ticks" /\ g.old = current_task
    BY <1>1 DEF Frame, Places
  <2> HIDE DEF g
  <2>3. frame' \in [Threads -> Frame] /\ frame'[running] = g
        /\ \A t \in Threads : t # running => frame'[t] = frame[t]
    BY <1>1, <2>1, <2>2
  <2>4. Locals'
    BY <1>1, <2>1, <2>2, <2>3 DEF Locals, Inside
  <2>5. state' \in [Slots -> {"READY", "SLEEPING", "ZOMBIE"}]
    BY <1>1, <2>1
  <2>. QED
    BY <1>0, <1>1, <2>1, <2>3, <2>4, <2>5, TaskStays
<1>4. CASE \E ticks \in Naps : SleepTicks(ticks)
  <2>0. PICK ticks \in Naps : SleepTicks(ticks)
    BY <1>4
  <2>1. /\ frame[running].pc = "ticks" /\ Goto("enter")
        /\ UNCHANGED <<task_count, timer, cpu>> /\ running' = running
        /\ state' = state /\ current_task' = current_task
        /\ sleep_ticks' = [sleep_ticks EXCEPT ![frame[running].old] = ticks]
    BY <2>0 DEF SleepTicks, at, cpu
  <2>2. /\ frame' \in [Threads -> Frame] /\ frame'[running].pc = "enter"
        /\ \A t \in Threads : t # running => frame'[t] = frame[t]
    BY <1>1, <2>1, GotoFrame DEF Places
  <2>3. Locals'
    BY <1>1, <2>1, <2>2 DEF Locals, Inside
  <2>4. sleep_ticks' \in [Slots -> Nat]
    BY <1>1, <2>1, Names
  <2>. QED
    BY <1>0, <1>1, <2>1, <2>2, <2>3, <2>4, TaskStays
<1>. QED
  BY <1>2, <1>3, <1>4

\* scheduler_schedule up to the store of current_task.
LEMMA LoopStep ==
  ASSUME IInv, Enter \/ Iterate \/ Store
  PROVE  IInv'
<1>0. running # Main
  BY DEF Enter, Iterate, Store, at
<1>1. /\ running \in Slots /\ running \in Threads /\ current_task \in Slots
      /\ task_count \in Nat \ {0, 1} /\ task_count \in 0 .. NTASKS
      /\ 0 .. (task_count - 1) \subseteq Slots /\ running \in 1 .. (task_count - 1)
      /\ frame \in [Threads -> Frame] /\ Locals /\ TypeOK
  BY <1>0, TaskFacts
<1>2. state \in [Slots -> {"READY", "SLEEPING", "ZOMBIE"}] /\ sleep_ticks \in [Slots -> Nat]
  BY <1>1 DEF TypeOK
<1>3. CASE Enter
  <2> DEFINE g == [pc |-> IF task_count <= 1 THEN "run" ELSE "loop",
                   old |-> current_task, cur |-> current_task, n |-> task_count]
  <2>1. /\ frame[running].pc = "enter" /\ frame' = [frame EXCEPT ![running] = g]
        /\ UNCHANGED <<task_count, timer, cpu>> /\ running' = running /\ task_count' = task_count
        /\ state' = state /\ sleep_ticks' = sleep_ticks /\ current_task' = current_task
    BY <1>3 DEF Enter, at, table, cpu
  <2>2. g \in Frame /\ g.pc = "loop" /\ g.old = current_task /\ g.cur = current_task /\ g.n = task_count
    BY <1>1, SMTT(60) DEF Frame, Places, Inside
  <2> HIDE DEF g
  <2>3. frame' \in [Threads -> Frame] /\ frame'[running] = g
        /\ \A t \in Threads : t # running => frame'[t] = frame[t]
    BY <1>1, <2>1, <2>2
  <2>4. Locals'
    BY <1>1, <2>1, <2>2, <2>3, SMTT(60) DEF Locals, Inside
  <2>. QED
    BY <1>0, <1>1, <1>2, <2>1, <2>3, <2>4, TaskStays
<1>4. CASE Iterate
  <2> DEFINE f == frame[running]
             c == Atomic!Visit(f.cur, 1, f.n)
             g == [f EXCEPT !.cur = c, !.pc = IF state'[c] = "READY" \/ c = f.old
                                             THEN "store" ELSE "loop"]
  <2>1. /\ f.pc = "loop" /\ frame' = [frame EXCEPT ![running] = g]
        /\ UNCHANGED <<task_count, timer, cpu>> /\ running' = running /\ task_count' = task_count
        /\ state' = Atomic!StatesAfter(state, sleep_ticks, {c})
        /\ sleep_ticks' = Atomic!TicksAfter(state, sleep_ticks, {c})
        /\ current_task' = current_task
    BY <1>4 DEF Iterate, at, cpu
  <2>2. /\ f \in Frame /\ f.old = running /\ f.n = task_count /\ f.cur \in 0 .. (task_count - 1)
        /\ current_task = running
    BY <1>1, <2>1 DEF Locals, Inside
  <2>3. c \in 0 .. (task_count - 1) /\ c \in Slots
    BY <1>1, <2>2, NextIsATask
  <2> HIDE DEF c
  <2>4. /\ g \in Frame /\ g.pc \in {"store", "loop"} /\ g.old = running
        /\ g.n = task_count /\ g.cur = c
    BY <2>2, <2>3 DEF Frame, Places, Inside
  <2> HIDE DEF g
  <2>5. frame' \in [Threads -> Frame] /\ frame'[running] = g
        /\ \A t \in Threads : t # running => frame'[t] = frame[t]
    BY <1>1, <2>1, <2>4
  <2>6. Locals'
    BY <2>1, <2>2, <2>3, <2>4, <2>5 DEF Locals, Inside
  <2>7. state' \in [Slots -> {"READY", "SLEEPING", "ZOMBIE"}] /\ sleep_ticks' \in [Slots -> Nat]
    BY <1>1, <2>1, VisitTypes
  <2>. QED
    BY <1>0, <1>1, <2>1, <2>5, <2>6, <2>7, TaskStays
<1>5. CASE Store
  <2> DEFINE f == frame[running]
             l == IF f.cur # f.old THEN "switch" ELSE "run"
  <2>1. /\ f.pc = "store" /\ Goto(l)
        /\ UNCHANGED <<task_count, timer, cpu>> /\ running' = running /\ task_count' = task_count
        /\ state' = state /\ sleep_ticks' = sleep_ticks /\ current_task' = f.cur
    BY <1>5 DEF Store, at, cpu
  <2>2. /\ f \in Frame /\ f.old = running /\ f.n = task_count /\ f.cur \in 0 .. (task_count - 1)
    BY <1>1, <2>1 DEF Locals, Inside
  <2>3. /\ frame' \in [Threads -> Frame] /\ frame'[running].pc = l
        /\ frame'[running].old = f.old /\ frame'[running].cur = f.cur /\ frame'[running].n = f.n
        /\ \A t \in Threads : t # running => frame'[t] = frame[t]
    BY <1>1, <2>1, GotoFrame DEF Places, Inside
  <2>4. Locals'
    BY <2>1, <2>2, <2>3 DEF Locals, Inside
  <2>5. current_task' \in Slots
    BY <1>1, <2>1, <2>2
  <2>. QED
    BY <1>0, <1>1, <1>2, <2>1, <2>3, <2>4, <2>5, TaskStays
<1>. QED
  BY <1>3, <1>4, <1>5

\* The switch saves the task in its own TCB.  Whoever is resumed, another
\* task or kernel_main inside timer_callback, was saved in its own too.
LEMMA SwitchStep ==
  ASSUME IInv, Switch
  PROVE  IInv'
<1> DEFINE f == frame[running]
<1>0. running # Main
  BY DEF Switch, at
<1>1. /\ running \in 1 .. (task_count - 1) /\ running \in Slots /\ running \in Threads
      /\ task_count \in Nat \ {0, 1} /\ task_count \in 0 .. NTASKS
      /\ 0 .. (task_count - 1) \subseteq Slots
      /\ in_service /\ in_isr = {Main} /\ ctx[0] = Main /\ ~corrupt
      /\ frame \in [Threads -> Frame] /\ Locals /\ TypeOK
  BY <1>0, TaskFacts
<1>2. /\ f.pc = "switch" /\ context_switch(f.old, f.cur) /\ Acknowledge(f.cur)
      /\ in_isr' = in_isr \ {ctx[f.cur]} /\ Goto("run") /\ tick' = tick
      /\ state' = state /\ sleep_ticks' = sleep_ticks /\ task_count' = task_count
      /\ current_task' = current_task
  BY DEF Switch, at, table
<1>3. f.old = running /\ f.cur \in 0 .. (task_count - 1) /\ current_task = f.cur /\ f.cur # f.old
  BY <1>1, <1>2 DEF Locals, Inside
<1>4. /\ frame' \in [Threads -> Frame] /\ frame'[running].pc = "run"
      /\ \A t \in Threads : t # running => frame'[t] = frame[t]
  BY <1>1, <1>2, GotoFrame DEF Places
<1>5. /\ ctx \in [Slots -> Threads \cup {Nobody}]
      /\ \A i \in 1 .. (task_count - 1) : ctx[i] = i
  BY <1>1 DEF TypeOK, IInv
<1>6. /\ ctx' = [ctx EXCEPT ![running] = running] /\ running' = ctx[f.cur]
      /\ corrupt' = FALSE
  BY <1>1, <1>2, <1>3, Names DEF context_switch
<1>7. ctx' = ctx
  BY <1>1, <1>5, <1>6
<1>8. running' = IF f.cur = 0 THEN Main ELSE f.cur
  BY <1>1, <1>3, <1>5, <1>6, SMTT(60)
<1>9. /\ running' \in Threads
      /\ running' # Main => running' = f.cur /\ f.cur \in 1 .. (task_count - 1)
      /\ running' = Main => f.cur = 0
  BY <1>1, <1>3, <1>8, Names, SMTT(60)
<1>10. in_service' = (running' # Main) /\ in_isr' = IF running' = Main THEN {} ELSE {Main}
  BY <1>1, <1>2, <1>6 DEF Acknowledge
<1>11. TypeOK'
  <2>1. in_isr' \subseteq Threads /\ in_service' \in BOOLEAN
    BY <1>10, Names, SMTT(60)
  <2>. QED
    BY <1>1, <1>2, <1>6, <1>7, <1>9, <2>1 DEF TypeOK
<1>12. TicksOnlyInMain'
  BY <1>1, <1>6, <1>7, <1>10, <1>11, Names DEF TicksOnlyInMain
<1>13. Frames'
  <2>1. frame'[Main] = frame[Main]
    BY <1>0, <1>4, Names, SMTT(60)
  <2>2. ASSUME NEW t \in Slots PROVE frame'[t].pc = "run"
    <3>1. t \in Threads
      BY Names, SMTT(60)
    <3>2. t # running => frame[t].pc = "run"
      BY DEF IInv, Frames
    <3>. QED
      BY <1>4, <3>1, <3>2
  <2>. QED
    BY <1>2, <1>4, <1>7, <2>1, <2>2 DEF IInv, Frames
<1>14. running' # Main => Locals'
  <2>1. running' # Main => running' \in Slots /\ running' = f.cur
    BY <1>1, <1>9, SMTT(60)
  <2>2. \A t \in Slots : frame'[t].pc = "run"
    <3> SUFFICES ASSUME NEW t \in Slots PROVE frame'[t].pc = "run"
      OBVIOUS
    <3>1. t # running => frame[t].pc = "run"
      BY DEF IInv, Frames
    <3>. QED
      BY <1>4, <3>1, Names, SMTT(60)
  <2>. QED
    BY <1>2, <1>3, <2>1, <2>2 DEF Locals, Inside
<1>. QED
  BY <1>1, <1>2, <1>3, <1>5, <1>7, <1>9, <1>12, <1>13, <1>14 DEF IInv

-----------------------------------------------------------------------------
(* Timer ticks: kernel_main is on the processor.                           *)

\* What SchedulerProofs shows of the loop, and of the table callers see.
Proved == INSTANCE SchedulerProofs WITH
  MAX_TASKS <- NTASKS,
  state <- Settled(state, before.state, "ZOMBIE"),
  sleep_ticks <- Settled(sleep_ticks, before.sleep_ticks, 0)

\* The loop picks a task.
LEMMA ChosenIsATask ==
  ASSUME NEW st, NEW ticks, NEW n \in Nat \ {0}, NEW old \in 0 .. (n - 1)
  PROVE  Atomic!Chosen(st, ticks, old, n) \in 0 .. (n - 1)
<1>1. Proved!Chosen(st, ticks, old, n) \in 0 .. (n - 1)
  BY Proved!ChosenIsATask
<1>. QED
  BY <1>1 DEF Atomic!Chosen, Proved!Chosen, Atomic!Iterations, Proved!Iterations, Atomic!Visit,
     Proved!Visit, Atomic!Stops, Proved!Stops, Atomic!Eligible, Proved!Eligible,
     Atomic!WakesUp, Proved!WakesUp

\* A tick that does not switch, and one that may.
LEMMA TickStep ==
  ASSUME IInv, TickOnly \/ TickSchedule
  PROVE  IInv'
<1>0. ~in_service /\ tick' = (tick + 1) % SLICE
  BY DEF TickOnly, TickSchedule
<1>1. running = Main /\ current_task = 0 /\ in_isr = {} /\ ~corrupt /\ TypeOK
  BY <1>0 DEF IInv, TicksOnlyInMain
<1>2. tick' \in 0 .. (SLICE - 1)
  <2>1. tick + 1 \in Nat /\ SLICE \in Nat \ {0}
    BY <1>1, Names, SMTT(60) DEF TypeOK
  <2>. QED
    BY <1>0, <2>1, SMTT(60)
<1>3. CASE TickOnly
  <2>1. /\ state' = state /\ sleep_ticks' = sleep_ticks /\ task_count' = task_count
        /\ current_task' = current_task /\ ctx' = ctx /\ running' = running
        /\ corrupt' = corrupt /\ frame' = frame /\ in_isr' = in_isr /\ in_service' = in_service
    BY <1>3 DEF TickOnly, table, cpu
  <2>2. TicksOnlyInMain'
    BY <1>1, <1>2, <2>1 DEF IInv, TicksOnlyInMain, TypeOK
  <2>3. Frames'
    BY <2>1 DEF IInv, Frames
  <2>. QED
    BY <1>1, <2>1, <2>2, <2>3 DEF IInv
<1>4. CASE TickSchedule
  <2> DEFINE new == Atomic!Chosen(state, sleep_ticks, current_task, task_count)
             seen == Atomic!Visited(state, sleep_ticks, current_task, task_count)
  <2>1. /\ task_count > 1
        /\ state' = Atomic!StatesAfter(state, sleep_ticks, seen)
        /\ sleep_ticks' = Atomic!TicksAfter(state, sleep_ticks, seen)
        /\ current_task' = new /\ task_count' = task_count /\ frame' = frame
        /\ IF new = current_task
           THEN UNCHANGED <<cpu, in_isr, in_service>>
           ELSE /\ context_switch(current_task, new)
                /\ in_service' = (ctx[new] \notin in_isr)
                /\ in_isr' = (in_isr \cup {running}) \ {ctx[new]}
    BY <1>4 DEF TickSchedule
  <2>2. task_count \in Nat \ {0, 1} /\ task_count \in 0 .. NTASKS
    BY <1>1, <2>1, Names, SMTT(60) DEF TypeOK
  <2>3. new \in 0 .. (task_count - 1)
    BY <1>1, <2>2, ChosenIsATask, SMTT(60)
  <2>4. state' \in [Slots -> {"READY", "SLEEPING", "ZOMBIE"}] /\ sleep_ticks' \in [Slots -> Nat]
    BY <1>1, <2>1, VisitTypes
  <2> HIDE DEF new, seen
  <2>5. new \in Slots
    BY <2>2, <2>3, Names, SMTT(60)
  <2>6. /\ ctx \in [Slots -> Threads \cup {Nobody}]
        /\ \A i \in 1 .. (task_count - 1) : ctx[i] = i
        /\ frame \in [Threads -> Frame]
        /\ \A t \in Slots : frame[t].pc = "run"
    BY <1>1, Names DEF IInv, TypeOK, Frames
  <2>7. CASE new = 0
    <3>1. ctx' = ctx /\ running' = running /\ corrupt' = corrupt /\ in_isr' = in_isr
          /\ in_service' = in_service /\ current_task' = current_task
      BY <1>1, <2>1, <2>7 DEF cpu
    <3>2. TicksOnlyInMain'
      BY <1>1, <1>2, <2>1, <2>4, <3>1 DEF IInv, TicksOnlyInMain, TypeOK
    <3>3. Frames'
      BY <2>1, <3>1 DEF IInv, Frames
    <3>. QED
      BY <1>1, <2>1, <3>1, <3>2, <3>3 DEF IInv
  <2>8. CASE new # 0
    <3>1. /\ ctx' = [ctx EXCEPT ![0] = Main] /\ running' = ctx[new] /\ corrupt' = FALSE
          /\ in_service' = (ctx[new] \notin {}) /\ in_isr' = {Main} \ {ctx[new]}
      BY <1>1, <2>1, <2>8, Names DEF context_switch
    <3>2. new \in 1 .. (task_count - 1) /\ ctx[new] = new /\ new # Main /\ new \in Threads
      BY <2>2, <2>3, <2>5, <2>6, <2>8, Names, SMTT(60)
    <3>3. running' = new /\ in_service' = TRUE /\ in_isr' = {Main}
      BY <3>1, <3>2
    <3>4. /\ ctx' \in [Slots -> Threads \cup {Nobody}] /\ ctx'[0] = Main
          /\ \A i \in Slots : i # 0 => ctx'[i] = ctx[i]
      BY <2>6, <3>1, Names, SMTT(60)
    <3>5. TypeOK'
      <4>1. /\ task_count' \in 0 .. NTASKS /\ current_task' \in Slots /\ running' \in Threads
            /\ corrupt' \in BOOLEAN /\ in_service' \in BOOLEAN
        BY <2>1, <2>2, <2>5, <3>1, <3>2, <3>3
      <4>2. in_isr' \subseteq Threads
        BY <3>3, Names, SMTT(60)
      <4>. QED
        BY <1>2, <2>4, <3>4, <4>1, <4>2 DEF TypeOK
    <3>6. TicksOnlyInMain'
      BY <3>1, <3>2, <3>3, <3>4, <3>5, Names DEF TicksOnlyInMain
    <3>7. \A i \in 1 .. (task_count - 1) : ctx'[i] = i
      <4> SUFFICES ASSUME NEW i \in 1 .. (task_count - 1) PROVE ctx'[i] = i
        OBVIOUS
      <4>1. i \in Slots /\ i # 0
        BY <2>2, Names, SMTT(60)
      <4>. QED
        BY <2>6, <3>4, <4>1
    <3>8. Frames'
      <4>1. frame[Main].pc = "count" => ctx'[task_count] = task_count
        <5>1. frame[Main].pc = "count" => task_count \in Slots /\ task_count # 0
                                          /\ ctx[task_count] = task_count
          BY <2>2, Names, SMTT(60) DEF IInv, Frames
        <5>. QED
          BY <3>4, <5>1
      <4>. QED
        BY <2>1, <2>6, <4>1 DEF IInv, Frames
    <3>9. Locals'
      BY <2>1, <2>5, <2>6, <3>3 DEF Locals, Inside
    <3>. QED
      BY <2>1, <3>2, <3>3, <3>4, <3>6, <3>7, <3>8, <3>9 DEF IInv
  <2>. QED
    BY <2>7, <2>8
<1>. QED
  BY <1>3, <1>4

\* The invariant is inductive.
LEMMA PreemptionStep == IInv /\ [Next]_vars => IInv'
<1> SUFFICES ASSUME IInv, [Next]_vars PROVE IInv'
  OBVIOUS
<1>1. CASE scheduler_add_task
  BY <1>1, AddStep DEF scheduler_add_task
<1>2. CASE scheduler_schedule
  BY <1>2, LoopStep, SwitchStep DEF scheduler_schedule
<1>3. CASE scheduler_sleep \/ scheduler_yield
  BY <1>3, CallStep DEF scheduler_sleep
<1>4. CASE timer_callback
  BY <1>4, TickStep DEF timer_callback
<1>5. CASE UNCHANGED vars
  <2>1. UNCHANGED <<state, sleep_ticks, task_count, current_task, in_isr, tick, in_service,
                    ctx, running, corrupt, frame>>
    BY <1>5 DEF vars, table, timer, cpu
  <2>. QED
    BY <2>1 DEF IInv, TicksOnlyInMain, TypeOK, Frames, Locals
<1>. QED
  BY <1>1, <1>2, <1>3, <1>4, <1>5 DEF Next, Thread

\* It holds of the table that scheduler_init leaves.
LEMMA PreemptionInit == Init => IInv
<1> SUFFICES ASSUME Init PROVE IInv
  OBVIOUS
<1>1. /\ task_count = 0 /\ current_task = 0 /\ running = Main /\ in_isr = {} /\ tick = 0
      /\ in_service = FALSE /\ corrupt = FALSE
      /\ state = [i \in Slots |-> "ZOMBIE"] /\ sleep_ticks = [i \in Slots |-> 0]
      /\ ctx = [i \in Slots |-> Nobody]
      /\ frame = [t \in Threads |->
                   [pc |-> IF t = Main THEN "add" ELSE "run", old |-> 0, cur |-> 0, n |-> 0]]
  BY DEF Init
<1>2. TypeOK
  <2>1. /\ task_count \in 0 .. NTASKS /\ current_task \in Slots /\ running \in Threads
        /\ tick \in 0 .. (SLICE - 1)
    BY <1>1, Names, SMTT(60)
  <2>2. /\ state \in [Slots -> {"READY", "SLEEPING", "ZOMBIE"}] /\ sleep_ticks \in [Slots -> Nat]
        /\ ctx \in [Slots -> Threads \cup {Nobody}] /\ in_isr \subseteq Threads
        /\ in_service \in BOOLEAN /\ corrupt \in BOOLEAN
    BY <1>1
  <2>. QED
    BY <2>1, <2>2 DEF TypeOK
<1>3. TicksOnlyInMain
  BY <1>1, <1>2 DEF TicksOnlyInMain
<1>4. Frames
  <2>1. 0 \in Slots /\ 0 \in 0 .. NTASKS /\ Main \in Threads /\ Slots \subseteq Threads
    BY Names, SMTT(60)
  <2>2. frame \in [Threads -> Frame]
    BY <1>1, <2>1 DEF Frame, Places
  <2>. QED
    BY <1>1, <2>1, <2>2, Names DEF Frames
<1>. QED
  BY <1>1, <1>3, <1>4, SMTT(60) DEF IInv

-----------------------------------------------------------------------------
(* The theorems.                                                           *)

\* For any number of tasks and any slice: scheduler_schedule needs no
\* protection against the timer.  A tick finds kernel_main on the processor,
\* and context_switch saves every thread into its own TCB.
THEOREM SchedulerNeedsNoLock == Spec => []TicksOnlyInMain
<1>1. IInv => TicksOnlyInMain
  BY DEF IInv
<1>. QED
  BY <1>1, PreemptionInit, PreemptionStep, PTL DEF Spec

\* A tick between any two steps of scheduler_add_task never resumes a TCB
\* that is still being filled in.
THEOREM NoHalfAddedTaskRuns == Spec => []OnlyInitialisedRuns
<1>1. IInv => OnlyInitialisedRuns
  <2> SUFFICES ASSUME IInv, NEW i \in 0 .. (task_count - 1)
               PROVE  running # Nobody /\ ctx[i] # Nobody
    <3>1. IInv => running # Nobody
      BY Names, SMTT(60) DEF IInv, TicksOnlyInMain, TypeOK
    <3>. QED
      BY <3>1 DEF OnlyInitialisedRuns
  <2>1. running # Nobody /\ task_count \in 0 .. NTASKS
    BY Names, SMTT(60) DEF IInv, TicksOnlyInMain, TypeOK
  <2>2. i = 0 \/ i \in 1 .. (task_count - 1)
    BY SMTT(60)
  <2>3. ctx[i] \in {0, Main} \/ ctx[i] = i
    BY <2>1, <2>2, SMTT(60) DEF IInv
  <2>. QED
    BY <2>1, <2>3, Names, SMTT(60)
<1>. QED
  BY <1>1, PreemptionInit, PreemptionStep, PTL DEF Spec

-----------------------------------------------------------------------------
(* The refinement.  While a task is in a call, the table is the one it     *)
(* found, with what the call has done to it so far: first the two stores   *)
(* of scheduler_sleep, then the visits of the loop.                        *)

Table == [state : [Slots -> {"READY", "SLEEPING", "ZOMBIE"}], sleep_ticks : [Slots -> Nat]]

\* The table scheduler_schedule is entered with.
Called(st, ticks) ==
  \/ st = before.state /\ ticks = before.sleep_ticks
  \/ \E nap \in Naps : /\ st = [before.state EXCEPT ![running] = "SLEEPING"]
                       /\ ticks = [before.sleep_ticks EXCEPT ![running] = nap]

Seen(old, k, n) == {Atomic!Visit(old, j, n) : j \in 1 .. k}

\* The loop has visited k slots of that table, and has not stopped before.
Scanned(st, ticks, k) ==
  /\ Called(st, ticks)
  /\ state = Atomic!StatesAfter(st, ticks, Seen(running, k, task_count))
  /\ sleep_ticks = Atomic!TicksAfter(st, ticks, Seen(running, k, task_count))
  /\ frame[running].cur = Atomic!Visit(running, k, task_count)
  /\ \A j \in 1 .. (k - 1) : ~Atomic!Stops(st, ticks, running, j, task_count)

\* The table of a call that is under way.
Progress ==
  LET f == frame[running] IN
  /\ f.pc = "ticks" => /\ state = [before.state EXCEPT ![running] = "SLEEPING"]
                       /\ sleep_ticks = before.sleep_ticks
  /\ f.pc = "enter" => Called(state, sleep_ticks)
  /\ f.pc = "loop" =>
       \E st \in [Slots -> {"READY", "SLEEPING", "ZOMBIE"}], ticks \in [Slots -> Nat],
          k \in 0 .. (task_count - 1) :
         Scanned(st, ticks, k) /\ (k > 0 => ~Atomic!Stops(st, ticks, running, k, task_count))
  /\ f.pc = "store" =>
       \E st \in [Slots -> {"READY", "SLEEPING", "ZOMBIE"}], ticks \in [Slots -> Nat],
          k \in 1 .. task_count :
         Scanned(st, ticks, k) /\ Atomic!Stops(st, ticks, running, k, task_count)

\* A task that is not counted yet is complete before it is.
RInv ==
  /\ before \in Table
  /\ frame[Main].pc # "add" => state[task_count] = "READY" /\ sleep_ticks[task_count] = 0
  /\ running # Main => Progress

\* SchedulerProofs is about the same loop.
LEMMA SameLoop ==
  ASSUME NEW st, NEW ticks, NEW old, NEW n, NEW k, NEW seen
  PROVE  /\ Atomic!Visit(old, k, n) = Proved!Visit(old, k, n)
         /\ Atomic!Stops(st, ticks, old, k, n) <=> Proved!Stops(st, ticks, old, k, n)
         /\ Atomic!StatesAfter(st, ticks, seen) = Proved!StatesAfter(st, ticks, seen)
         /\ Atomic!TicksAfter(st, ticks, seen) = Proved!TicksAfter(st, ticks, seen)
         /\ Atomic!Slots = Slots /\ Proved!Slots = Slots
<1>1. Atomic!Slots = Slots /\ Proved!Slots = Slots
  BY DEF Atomic!Slots, Proved!Slots, Slots
<1>2. Atomic!Visit(old, k, n) = Proved!Visit(old, k, n)
  BY DEF Atomic!Visit, Proved!Visit
<1>3. Atomic!Stops(st, ticks, old, k, n) <=> Proved!Stops(st, ticks, old, k, n)
  BY DEF Atomic!Stops, Proved!Stops, Atomic!Eligible, Proved!Eligible, Atomic!WakesUp,
     Proved!WakesUp,
         Atomic!Visit, Proved!Visit
<1>4. Atomic!StatesAfter(st, ticks, seen) = Proved!StatesAfter(st, ticks, seen)
  BY <1>1 DEF Atomic!StatesAfter, Proved!StatesAfter, Atomic!WakesUp, Proved!WakesUp
<1>5. Atomic!TicksAfter(st, ticks, seen) = Proved!TicksAfter(st, ticks, seen)
  BY <1>1 DEF Atomic!TicksAfter, Proved!TicksAfter
<1>. QED
  BY <1>1, <1>2, <1>3, <1>4, <1>5

\* A further visit.
LEMMA VisitMore ==
  ASSUME NEW st \in [Slots -> {"READY", "SLEEPING", "ZOMBIE"}], NEW ticks \in [Slots -> Nat],
         NEW seen, NEW c, c \notin seen
  PROVE  /\ Atomic!StatesAfter(Atomic!StatesAfter(st, ticks, seen), Atomic!TicksAfter(st, ticks, seen), {c})
              = Atomic!StatesAfter(st, ticks, seen \cup {c})
         /\ Atomic!TicksAfter(Atomic!StatesAfter(st, ticks, seen), Atomic!TicksAfter(st, ticks, seen), {c})
              = Atomic!TicksAfter(st, ticks, seen \cup {c})
<1>1. st \in [Proved!Slots -> {"READY", "SLEEPING", "ZOMBIE"}] /\ ticks \in [Proved!Slots -> Nat]
  BY SameLoop
<1>2. /\ Proved!StatesAfter(Proved!StatesAfter(st, ticks, seen), Proved!TicksAfter(st, ticks, seen), {c})
           = Proved!StatesAfter(st, ticks, seen \cup {c})
      /\ Proved!TicksAfter(Proved!StatesAfter(st, ticks, seen), Proved!TicksAfter(st, ticks, seen), {c})
           = Proved!TicksAfter(st, ticks, seen \cup {c})
  BY <1>1, Proved!VisitMore, SMTT(60)
<1>. QED
  BY <1>2, SameLoop, SMTT(60)

\* And about the same number of iterations.
LEMMA SameCount ==
  ASSUME NEW st, NEW ticks, NEW old, NEW n
  PROVE  /\ Atomic!Iterations(st, ticks, old, n) = Proved!Iterations(st, ticks, old, n)
         /\ Proved!Visited(st, ticks, old, n) = Atomic!Visited(st, ticks, old, n)
         /\ Proved!Chosen(st, ticks, old, n) = Atomic!Chosen(st, ticks, old, n)
BY DEF Atomic!Iterations, Proved!Iterations, Atomic!Stops, Proved!Stops, Atomic!Eligible,
       Proved!Eligible, Atomic!WakesUp, Proved!WakesUp, Atomic!Visit, Proved!Visit,
       Atomic!Visited, Proved!Visited, Atomic!Chosen, Proved!Chosen

\* The slots the loop visits.
LEMMA Visits ==
  ASSUME NEW n \in Nat \ {0}, NEW old \in 0 .. (n - 1)
  PROVE  /\ Atomic!Visit(old, 0, n) = old
         /\ \A k \in 1 .. n : /\ Atomic!Visit(old, k, n) \in 0 .. (n - 1)
                              /\ Atomic!Visit(old, k, n) = old <=> k = n
                              /\ Seen(old, k, n) \subseteq 0 .. (n - 1)
         /\ Seen(old, 0, n) = {}
         /\ \A k \in 0 .. (n - 1) :
              /\ Atomic!Visit(Atomic!Visit(old, k, n), 1, n) = Atomic!Visit(old, k + 1, n)
              /\ Atomic!Visit(old, k + 1, n) \notin Seen(old, k, n)
              /\ Seen(old, k + 1, n) = Seen(old, k, n) \cup {Atomic!Visit(old, k + 1, n)}
<1>1. /\ Atomic!Visit(old, 0, n) = old
      /\ \A k \in 1 .. n : /\ Atomic!Visit(old, k, n) \in 0 .. (n - 1)
                           /\ Atomic!Visit(old, k, n) = old <=> k = n
      /\ \A j, k \in 1 .. n : Atomic!Visit(old, j, n) = Atomic!Visit(old, k, n) => j = k
      /\ \A k \in 0 .. (n - 1) :
            Atomic!Visit(Atomic!Visit(old, k, n), 1, n) = Atomic!Visit(old, k + 1, n)
  <2>1. /\ Proved!Visit(old, 0, n) = old
        /\ \A k \in 1 .. n : /\ Proved!Visit(old, k, n) \in 0 .. (n - 1)
                             /\ Proved!Visit(old, k, n) = old <=> k = n
        /\ \A j, k \in 1 .. n : Proved!Visit(old, j, n) = Proved!Visit(old, k, n) => j = k
        /\ \A k \in 0 .. (n - 1) :
              Proved!Visit(Proved!Visit(old, k, n), 1, n) = Proved!Visit(old, k + 1, n)
    BY Proved!VisitOnce
  <2>. QED
    BY <2>1 DEF Atomic!Visit, Proved!Visit
<1>2. \A k \in 1 .. n : Seen(old, k, n) \subseteq 0 .. (n - 1)
  BY <1>1, SMTT(60) DEF Seen
<1>3. Seen(old, 0, n) = {}
  BY SMTT(60) DEF Seen
<1>4. ASSUME NEW k \in 0 .. (n - 1)
      PROVE  /\ Atomic!Visit(old, k + 1, n) \notin Seen(old, k, n)
             /\ Seen(old, k + 1, n) = Seen(old, k, n) \cup {Atomic!Visit(old, k + 1, n)}
  <2>1. 1 .. (k + 1) = (1 .. k) \cup {k + 1} /\ k + 1 \in 1 .. n
    BY SMTT(60)
  <2>2. \A j \in 1 .. k : j \in 1 .. n /\ j # k + 1
    BY SMTT(60)
  <2>3. Atomic!Visit(old, k + 1, n) \notin Seen(old, k, n)
    BY <1>1, <2>1, <2>2, SMTT(60) DEF Seen
  <2>4. Seen(old, k + 1, n) = Seen(old, k, n) \cup {Atomic!Visit(old, k + 1, n)}
    BY <2>1 DEF Seen
  <2>. QED
    BY <2>3, <2>4
<1>. QED
  BY <1>1, <1>2, <1>3, <1>4

\* No visit leaves a table as it is.
LEMMA NoVisit ==
  ASSUME NEW st \in [Slots -> {"READY", "SLEEPING", "ZOMBIE"}], NEW ticks \in [Slots -> Nat]
  PROVE  Atomic!StatesAfter(st, ticks, {}) = st /\ Atomic!TicksAfter(st, ticks, {}) = ticks
<1>1. Atomic!Slots = Slots
  BY DEF Atomic!Slots, Slots
<1>. QED
  BY <1>1 DEF Atomic!StatesAfter, Atomic!TicksAfter

\* Slots that are not visited stay as they are.
LEMMA NotVisited ==
  ASSUME NEW st, NEW ticks, NEW seen, NEW i \in Slots, i \notin seen
  PROVE  Atomic!StatesAfter(st, ticks, seen)[i] = st[i] /\ Atomic!TicksAfter(st, ticks, seen)[i] = ticks[i]
<1>1. Atomic!Slots = Slots
  BY DEF Atomic!Slots, Slots
<1>. QED
  BY <1>1 DEF Atomic!StatesAfter, Atomic!TicksAfter

\* A task's step that changes neither the entry of a task that is being added
\* nor who runs.
LEMMA TaskProgress ==
  ASSUME IInv, RInv, running # Main, before' \in Table, UNCHANGED <<task_count, running>>,
         frame'[Main] = frame[Main],
         \A i \in Slots : i >= task_count => state'[i] = state[i] /\ sleep_ticks'[i] = sleep_ticks[i],
         Progress'
  PROVE  RInv'
<1>1. frame[Main].pc # "add" => task_count \in Slots
  <2>1. task_count \in Nat /\ (frame[Main].pc # "add" => task_count < NTASKS)
    BY TaskFacts DEF IInv, Frames
  <2>. QED
    BY <2>1, Names, SMTT(60)
<1>2. task_count \in Nat
  BY TaskFacts
<1>. QED
  BY <1>1, <1>2, SMTT(60) DEF RInv

\* The steps of a call, up to its loop.
LEMMA CallProgress ==
  ASSUME IInv, RInv, scheduler_yield \/ scheduler_sleep \/ (Enter /\ UNCHANGED before)
  PROVE  RInv'
<1>0. running # Main
  BY DEF scheduler_yield, scheduler_sleep, SleepState, SleepTicks, Enter, at
<1>1. /\ running \in Slots /\ running \in Threads /\ current_task \in Slots
      /\ task_count \in Nat \ {0, 1} /\ running \in 1 .. (task_count - 1)
      /\ frame \in [Threads -> Frame] /\ Locals
      /\ state \in [Slots -> {"READY", "SLEEPING", "ZOMBIE"}] /\ sleep_ticks \in [Slots -> Nat]
  BY <1>0, TaskFacts DEF TypeOK
<1>2. before \in Table /\ Progress
  BY <1>0 DEF RInv
<1>3. Main \in Threads /\ Main # running
  BY <1>0, Names, SMTT(60)
<1>4. CASE scheduler_yield
  <2>1. /\ frame[running].pc = "run" /\ Goto("enter") /\ Remember /\ running' = running
        /\ state' = state /\ sleep_ticks' = sleep_ticks /\ task_count' = task_count
    BY <1>4 DEF scheduler_yield, at, table, cpu
  <2>2. frame'[running].pc = "enter" /\ frame'[Main] = frame[Main]
    BY <1>1, <1>3, <2>1, GotoFrame DEF Places
  <2>3. before' = [state |-> state, sleep_ticks |-> sleep_ticks]
    BY <2>1 DEF Remember
  <2>4. before' \in Table /\ before'.state = state /\ before'.sleep_ticks = sleep_ticks
    BY <1>1, <2>3 DEF Table
  <2>5. Progress'
    BY <2>1, <2>2, <2>4 DEF Progress, Called
  <2>. QED
    BY <1>0, <2>1, <2>2, <2>4, <2>5, TaskProgress
<1>5. CASE SleepState
  <2> DEFINE g == [frame[running] EXCEPT !.pc = "ticks", !.old = current_task]
  <2>1. /\ frame[running].pc = "run" /\ frame' = [frame EXCEPT ![running] = g]
        /\ running' = running /\ task_count' = task_count /\ Remember
        /\ state' = [state EXCEPT ![current_task] = "SLEEPING"] /\ sleep_ticks' = sleep_ticks
    BY <1>5 DEF SleepState, at, cpu
  <2>2. g.pc = "ticks"
    BY <1>1 DEF Frame
  <2> HIDE DEF g
  <2>3. frame'[running].pc = "ticks" /\ frame'[Main] = frame[Main]
    BY <1>1, <1>3, <2>1, <2>2
  <2>4. current_task = running
    BY <1>1, <2>1 DEF Locals
  <2>5. before' = [state |-> state, sleep_ticks |-> sleep_ticks]
    BY <2>1 DEF Remember
  <2>6. before' \in Table /\ before'.state = state /\ before'.sleep_ticks = sleep_ticks
    BY <1>1, <2>5 DEF Table
  <2>7. Progress'
    BY <2>1, <2>3, <2>4, <2>6 DEF Progress
  <2>8. \A i \in Slots : i >= task_count => state'[i] = state[i]
    BY <1>1, <2>1, <2>4, Names, SMTT(60)
  <2>. QED
    BY <1>0, <2>1, <2>3, <2>6, <2>7, <2>8, TaskProgress
<1>6. CASE \E ticks \in Naps : SleepTicks(ticks) /\ UNCHANGED before
  <2>0. PICK ticks \in Naps : SleepTicks(ticks) /\ UNCHANGED before
    BY <1>6
  <2>1. /\ frame[running].pc = "ticks" /\ Goto("enter") /\ before' = before
        /\ running' = running /\ task_count' = task_count /\ state' = state
        /\ sleep_ticks' = [sleep_ticks EXCEPT ![frame[running].old] = ticks]
    BY <2>0 DEF SleepTicks, at, cpu
  <2>2. frame'[running].pc = "enter" /\ frame'[Main] = frame[Main]
    BY <1>1, <1>3, <2>1, GotoFrame DEF Places
  <2>3. frame[running].old = running
    BY <1>1, <2>1 DEF Locals
  <2>4. /\ state = [before.state EXCEPT ![running] = "SLEEPING"]
        /\ sleep_ticks = before.sleep_ticks
    BY <1>2, <2>1 DEF Progress
  <2>5. Called(state, sleep_ticks)'
    BY <2>1, <2>3, <2>4 DEF Called
  <2>6. Progress'
    BY <2>1, <2>2, <2>5 DEF Progress
  <2>7. \A i \in Slots : i >= task_count => sleep_ticks'[i] = sleep_ticks[i]
    BY <1>1, <2>1, <2>3, Names, SMTT(60)
  <2>. QED
    BY <1>0, <1>2, <2>1, <2>2, <2>6, <2>7, TaskProgress
<1>7. CASE Enter /\ UNCHANGED before
  <2> DEFINE g == [pc |-> IF task_count <= 1 THEN "run" ELSE "loop",
                   old |-> current_task, cur |-> current_task, n |-> task_count]
  <2>1. /\ frame[running].pc = "enter" /\ frame' = [frame EXCEPT ![running] = g]
        /\ running' = running /\ task_count' = task_count /\ before' = before
        /\ state' = state /\ sleep_ticks' = sleep_ticks
    BY <1>7 DEF Enter, at, table, cpu
  <2>2. g.pc = "loop" /\ g.cur = current_task
    BY <1>1, SMTT(60)
  <2> HIDE DEF g
  <2>3. frame'[running].pc = "loop" /\ frame'[running].cur = current_task /\ frame'[Main] = frame[Main]
    BY <1>1, <1>3, <2>1, <2>2
  <2>4. current_task = running
    BY <1>1, <2>1 DEF Locals
  <2>5. Called(state, sleep_ticks)
    BY <1>2, <2>1 DEF Progress
  <2>6. /\ Atomic!Visit(running, 0, task_count) = running
        /\ Seen(running, 0, task_count) = {}
    BY <1>1, Visits, SMTT(60)
  <2>7. /\ state = Atomic!StatesAfter(state, sleep_ticks, {})
        /\ sleep_ticks = Atomic!TicksAfter(state, sleep_ticks, {})
    BY <1>1, NoVisit
  <2>8. Scanned(state, sleep_ticks, 0)'
    <3>1. 1 .. (0 - 1) = {}
      BY SMTT(60)
    <3>2. Called(state, sleep_ticks)'
      BY <2>1, <2>5 DEF Called
    <3>. QED
      BY <2>1, <2>3, <2>4, <2>6, <2>7, <3>1, <3>2 DEF Scanned
  <2>9. 0 \in 0 .. (task_count' - 1)
    BY <1>1, <2>1, SMTT(60)
  <2>10. Progress'
    <3>1. \E st \in [Slots -> {"READY", "SLEEPING", "ZOMBIE"}], ticks \in [Slots -> Nat],
             k \in 0 .. (task_count' - 1) :
            Scanned(st, ticks, k)' /\ (k > 0 => ~Atomic!Stops(st, ticks, running', k, task_count'))
      <4>1. state' \in [Slots -> {"READY", "SLEEPING", "ZOMBIE"}] /\ sleep_ticks' \in [Slots -> Nat]
        BY <1>1, <2>1
      <4>. QED
        BY <2>8, <2>9, <4>1, SMTT(60)
    <3>. QED
      BY <2>1, <2>3, <3>1 DEF Progress
  <2>. QED
    BY <1>0, <1>2, <2>1, <2>3, <2>10, TaskProgress
<1>. QED
  BY <1>4, <1>5, <1>6, <1>7 DEF scheduler_sleep

\* An iteration visits the next slot of the table the call was made with, and
\* ends the loop exactly if the loop on that table ends there.
LEMMA IterateProgress ==
  ASSUME IInv, RInv, Iterate, UNCHANGED before
  PROVE  RInv'
<1> DEFINE f == frame[running]
           c == Atomic!Visit(f.cur, 1, f.n)
           g == [f EXCEPT !.cur = c, !.pc = IF state'[c] = "READY" \/ c = f.old
                                           THEN "store" ELSE "loop"]
<1>0. running # Main
  BY DEF Iterate, at
<1>1. /\ running \in Slots /\ running \in Threads /\ task_count \in Nat \ {0, 1}
      /\ running \in 0 .. (task_count - 1) /\ 0 .. (task_count - 1) \subseteq Slots
      /\ frame \in [Threads -> Frame] /\ Locals /\ task_count \in Nat \ {0}
  BY <1>0, TaskFacts, SMTT(60)
<1>2. /\ f.pc = "loop" /\ frame' = [frame EXCEPT ![running] = g]
      /\ running' = running /\ task_count' = task_count /\ before' = before
      /\ state' = Atomic!StatesAfter(state, sleep_ticks, {c})
      /\ sleep_ticks' = Atomic!TicksAfter(state, sleep_ticks, {c})
  BY DEF Iterate, at, cpu
<1>3. f \in Frame /\ f.old = running /\ f.n = task_count
  BY <1>1, <1>2 DEF Locals, Inside
<1>4. /\ g.cur = c
      /\ g.pc = IF state'[c] = "READY" \/ c = running THEN "store" ELSE "loop"
  BY <1>3 DEF Frame
<1>5. before \in Table /\ Progress
  BY <1>0 DEF RInv
<1>6. PICK st \in [Slots -> {"READY", "SLEEPING", "ZOMBIE"}], ticks \in [Slots -> Nat],
           k \in 0 .. (task_count - 1) :
        Scanned(st, ticks, k) /\ (k > 0 => ~Atomic!Stops(st, ticks, running, k, task_count))
  BY <1>2, <1>5 DEF Progress
<1> DEFINE seen == Seen(running, k, task_count)
           more == Seen(running, k + 1, task_count)
           Stop == Atomic!Stops(st, ticks, running, k + 1, task_count)
<1>7. /\ c = Atomic!Visit(running, k + 1, task_count)
      /\ c \notin seen /\ more = seen \cup {c}
      /\ k + 1 \in 1 .. task_count /\ c \in 0 .. (task_count - 1)
      /\ c = running <=> k + 1 = task_count
  <2>1. f.cur = Atomic!Visit(running, k, task_count)
    BY <1>6 DEF Scanned
  <2>2. c = Atomic!Visit(Atomic!Visit(running, k, task_count), 1, task_count)
    BY <1>3, <2>1
  <2>3. k + 1 \in 1 .. task_count
    BY <1>1, SMTT(60)
  <2> HIDE DEF c, f, g
  <2>4. /\ \A j \in 1 .. task_count :
             /\ Atomic!Visit(running, j, task_count) \in 0 .. (task_count - 1)
             /\ Atomic!Visit(running, j, task_count) = running <=> j = task_count
        /\ Atomic!Visit(Atomic!Visit(running, k, task_count), 1, task_count)
             = Atomic!Visit(running, k + 1, task_count)
        /\ Atomic!Visit(running, k + 1, task_count) \notin seen
        /\ more = seen \cup {Atomic!Visit(running, k + 1, task_count)}
    BY <1>1, Visits
  <2>. QED
    BY <2>2, <2>3, <2>4
<1> HIDE DEF f, g, c
<1>8. /\ state' = Atomic!StatesAfter(st, ticks, more)
      /\ sleep_ticks' = Atomic!TicksAfter(st, ticks, more)
  <2>1. /\ state = Atomic!StatesAfter(st, ticks, seen)
        /\ sleep_ticks = Atomic!TicksAfter(st, ticks, seen)
    BY <1>6 DEF Scanned
  <2> HIDE DEF seen, more
  <2>2. c \notin seen
    BY <1>7
  <2>4. /\ Atomic!StatesAfter(Atomic!StatesAfter(st, ticks, seen), Atomic!TicksAfter(st, ticks, seen), {c})
             = Atomic!StatesAfter(st, ticks, seen \cup {c})
        /\ Atomic!TicksAfter(Atomic!StatesAfter(st, ticks, seen), Atomic!TicksAfter(st, ticks, seen), {c})
             = Atomic!TicksAfter(st, ticks, seen \cup {c})
    BY <2>2, VisitMore, SMTT(60)
  <2>. QED
    BY <1>2, <1>7, <2>1, <2>4
<1>9. g.pc = IF Stop THEN "store" ELSE "loop"
  <2>1. c \in Slots /\ c \in more
    BY <1>1, <1>7
  <2>2. state'[c] = IF Atomic!WakesUp(st, ticks, c) THEN "READY" ELSE st[c]
    BY <1>8, <2>1, SameLoop DEF Atomic!StatesAfter
  <2>3. Stop <=> (k + 1 = task_count \/ st[c] = "READY" \/ Atomic!WakesUp(st, ticks, c))
    BY <1>7 DEF Atomic!Stops, Atomic!Eligible
  <2>. QED
    BY <1>4, <1>7, <2>2, <2>3
<1>10. frame'[running].pc = g.pc /\ frame'[running].cur = c /\ frame'[Main] = frame[Main]
  <2>1. frame'[running] = g /\ frame'[Main] = frame[Main]
    BY <1>0, <1>1, <1>2, Names, SMTT(60)
  <2>. QED
    BY <1>4, <2>1
<1>11. Scanned(st, ticks, k + 1)'
  <2>1. Called(st, ticks)'
    BY <1>2, <1>6 DEF Scanned, Called
  <2>2. \A j \in 1 .. ((k + 1) - 1) : ~Atomic!Stops(st, ticks, running, j, task_count)
    <3>1. \A j \in 1 .. (k - 1) : ~Atomic!Stops(st, ticks, running, j, task_count)
      BY <1>6 DEF Scanned
    <3>2. \A j \in 1 .. ((k + 1) - 1) : j \in 1 .. (k - 1) \/ (j = k /\ k > 0)
      BY SMTT(60)
    <3>. QED
      BY <1>6, <3>1, <3>2
  <2>. QED
    BY <1>2, <1>7, <1>8, <1>10, <2>1, <2>2 DEF Scanned
<1>12. Progress'
  <2>1. CASE Stop
    BY <1>2, <1>7, <1>9, <1>10, <1>11, <2>1 DEF Progress
  <2>2. CASE ~Stop
    <3>1. k + 1 # task_count
      BY <2>2 DEF Atomic!Stops
    <3>2. k + 1 \in 0 .. (task_count - 1)
      BY <1>1, <1>7, <3>1, SMTT(60)
    <3>. QED
      BY <1>2, <1>9, <1>10, <1>11, <2>2, <3>2 DEF Progress
  <2>. QED
    BY <2>1, <2>2
<1>13. \A i \in Slots : i >= task_count => state'[i] = state[i] /\ sleep_ticks'[i] = sleep_ticks[i]
  <2> SUFFICES ASSUME NEW i \in Slots, i >= task_count
               PROVE  state'[i] = state[i] /\ sleep_ticks'[i] = sleep_ticks[i]
    OBVIOUS
  <2>1. i \notin {c}
    BY <1>1, <1>7, Names, SMTT(60)
  <2>. QED
    BY <1>2, <2>1, NotVisited, SMTT(60)
<1>. QED
  BY <1>0, <1>2, <1>5, <1>10, <1>12, <1>13, TaskProgress

\* The other steps.
LEMMA OtherProgress ==
  ASSUME IInv, RInv,
         AddState \/ AddRegs \/ AddCount \/ Store \/ Switch \/ TickOnly \/ TickSchedule,
         UNCHANGED before
  PROVE  RInv'
<1>0. before' \in Table /\ before' = before
  BY DEF RInv
<1>1. /\ frame \in [Threads -> Frame] /\ task_count \in 0 .. NTASKS /\ running \in Threads
      /\ state \in [Slots -> {"READY", "SLEEPING", "ZOMBIE"}] /\ sleep_ticks \in [Slots -> Nat]
      /\ frame[Main].pc # "add" => task_count < NTASKS
      /\ \A t \in Slots : t # running => frame[t].pc = "run"
  BY DEF IInv, TicksOnlyInMain, TypeOK, Frames
<1>2. frame[Main].pc # "add" => task_count \in Slots
  BY <1>1, Names, SMTT(60)
<1>3. CASE AddState
  <2>1. /\ running' = Main /\ Goto("regs") /\ task_count' = task_count /\ task_count \in Slots
        /\ state' = [state EXCEPT ![task_count] = "READY"]
        /\ sleep_ticks' = [sleep_ticks EXCEPT ![task_count] = 0]
    BY <1>1, <1>3, Names, SMTT(60) DEF AddState, cpu
  <2>. QED
    BY <1>0, <1>1, <2>1 DEF RInv
<1>4. CASE AddRegs
  <2>1. /\ running' = Main /\ frame[Main].pc = "regs" /\ task_count' = task_count
        /\ state' = state /\ sleep_ticks' = sleep_ticks
    BY <1>4 DEF AddRegs, table
  <2>. QED
    BY <1>0, <2>1 DEF RInv
<1>5. CASE AddCount
  <2>1. running' = Main /\ running = Main /\ Goto("add")
    BY <1>5 DEF AddCount, cpu
  <2>2. frame'[Main].pc = "add"
    BY <1>1, <2>1, GotoFrame DEF Places
  <2>. QED
    BY <1>0, <2>1, <2>2 DEF RInv
<1>6. CASE Store
  <2> DEFINE l == IF frame[running].cur # frame[running].old THEN "switch" ELSE "run"
  <2>1. /\ running # Main /\ running' = running /\ Goto(l) /\ task_count' = task_count
        /\ state' = state /\ sleep_ticks' = sleep_ticks
    BY <1>6 DEF Store, at, cpu
  <2>2. frame'[running].pc = l /\ frame'[Main] = frame[Main]
    BY <1>1, <2>1, GotoFrame, Names, SMTT(60) DEF Places, Inside
  <2>3. Progress'
    BY <2>1, <2>2 DEF Progress
  <2>. QED
    BY <1>0, <2>1, <2>2, <2>3, TaskProgress
<1>7. CASE Switch
  <2>1. /\ running # Main /\ Goto("run") /\ task_count' = task_count
        /\ state' = state /\ sleep_ticks' = sleep_ticks
    BY <1>7 DEF Switch, at, table
  <2>2. /\ frame'[running].pc = "run" /\ frame'[Main] = frame[Main]
        /\ \A t \in Slots : frame'[t].pc = "run"
    BY <1>1, <2>1, GotoFrame, Names, SMTT(60) DEF Places
  <2>3. running' # Main => running' \in Slots
    <3>1. IInv'
      BY <1>7, SwitchStep
    <3>2. running' \in Threads
      BY <3>1 DEF IInv, TicksOnlyInMain, TypeOK
    <3>. QED
      BY <3>2 DEF Threads
  <2>4. running' # Main => Progress'
    BY <2>2, <2>3 DEF Progress
  <2>. QED
    BY <1>0, <2>1, <2>2, <2>4 DEF RInv
<1>8. CASE TickOnly
  <2>1. /\ task_count' = task_count /\ running' = running /\ frame' = frame
        /\ state' = state /\ sleep_ticks' = sleep_ticks /\ ~in_service
    BY <1>8 DEF TickOnly, table, cpu
  <2>2. running = Main
    BY <2>1 DEF IInv, TicksOnlyInMain
  <2>. QED
    BY <1>0, <2>1, <2>2 DEF RInv
<1>9. CASE TickSchedule
  <2> DEFINE seen == Atomic!Visited(state, sleep_ticks, current_task, task_count)
  <2>1. /\ task_count' = task_count /\ frame' = frame /\ task_count > 1 /\ ~in_service
        /\ state' = Atomic!StatesAfter(state, sleep_ticks, seen)
        /\ sleep_ticks' = Atomic!TicksAfter(state, sleep_ticks, seen)
    BY <1>9 DEF TickSchedule
  <2>2. running = Main /\ current_task = 0 /\ task_count \in Nat \ {0}
    BY <1>1, <2>1, Names, SMTT(60) DEF IInv, TicksOnlyInMain
  <2>3. seen \subseteq 0 .. (task_count - 1)
    <3>1. Atomic!Iterations(state, sleep_ticks, 0, task_count) \in 1 .. task_count
      <4>1. 0 \in 0 .. (task_count - 1)
        BY <2>2, SMTT(60)
      <4>. QED
        BY <2>2, <4>1, Proved!LoopEnds, SameCount, SMTT(60)
    <3>2. seen = Seen(0, Atomic!Iterations(state, sleep_ticks, 0, task_count), task_count)
      BY <2>2 DEF Atomic!Visited, Seen
    <3>3. 0 \in 0 .. (task_count - 1)
      BY <2>2, SMTT(60)
    <3>. QED
      BY <2>2, <3>1, <3>2, <3>3, Visits, SMTT(60)
  <2> HIDE DEF seen
  <2>4. frame'[Main].pc # "add" => state'[task_count] = state[task_count]
                                   /\ sleep_ticks'[task_count] = sleep_ticks[task_count]
    <3>1. task_count \notin seen
      BY <1>1, <2>2, <2>3, SMTT(60)
    <3>. QED
      BY <1>2, <2>1, <3>1, NotVisited, SMTT(60)
  <2>5. running' # Main => Progress'
    <3>1. IInv'
      BY <1>9, TickStep
    <3>2. running' \in Threads
      BY <3>1 DEF IInv, TicksOnlyInMain, TypeOK
    <3>3. running' # Main => frame'[running'].pc = "run"
      BY <1>1, <2>1, <2>2, <3>2 DEF Threads
    <3>. QED
      BY <3>3 DEF Progress
  <2>. QED
    BY <1>0, <2>1, <2>4, <2>5 DEF RInv
<1>. QED
  BY <1>3, <1>4, <1>5, <1>6, <1>7, <1>8, <1>9

\* It holds initially, and of every step.
LEMMA RefinementInvariant ==
  /\ Init => RInv
  /\ IInv /\ RInv /\ [Next]_vars => RInv'
<1>1. ASSUME Init PROVE RInv
  <2>1. /\ before = [state |-> [i \in Slots |-> "ZOMBIE"], sleep_ticks |-> [i \in Slots |-> 0]]
        /\ running = Main /\ Main \in Threads /\ frame[Main].pc = "add"
    BY <1>1, Names, SMTT(60) DEF Init
  <2>2. before \in Table
    BY <2>1 DEF Table
  <2>. QED
    BY <2>1, <2>2 DEF RInv
<1>2. ASSUME IInv, RInv, [Next]_vars PROVE RInv'
  <2>1. CASE scheduler_add_task \/ timer_callback
    BY <1>2, <2>1, OtherProgress DEF scheduler_add_task, timer_callback
  <2>2. CASE scheduler_schedule
    BY <1>2, <2>2, OtherProgress, IterateProgress, CallProgress DEF scheduler_schedule
  <2>3. CASE scheduler_sleep \/ scheduler_yield
    BY <1>2, <2>3, CallProgress
  <2>4. CASE UNCHANGED vars
    <3>1. UNCHANGED <<state, sleep_ticks, task_count, running, frame, before>>
      BY <2>4 DEF vars, table, cpu
    <3>2. ASSUME NEW st, NEW ticks PROVE Called(st, ticks)' <=> Called(st, ticks)
      BY <3>1 DEF Called
    <3>3. ASSUME NEW st, NEW ticks, NEW k PROVE Scanned(st, ticks, k)' <=> Scanned(st, ticks, k)
      BY <3>1, <3>2 DEF Scanned
    <3>4. Called(state, sleep_ticks)' <=> Called(state, sleep_ticks)
      BY <3>1 DEF Called
    <3>5. Progress => Progress'
      BY <3>1, <3>3, <3>4 DEF Progress
    <3>. QED
      BY <1>2, <3>1, <3>5 DEF RInv
  <2>. QED
    BY <1>2, <2>1, <2>2, <2>3, <2>4 DEF Next, Thread
<1>. QED
  BY <1>1, <1>2

\* The part of a table callers see: its first n slots.
Masked(n, f, none) == [i \in Slots |-> IF i >= n THEN none ELSE f[i]]

MState == Settled(state, before.state, "ZOMBIE")
MTicks == Settled(sleep_ticks, before.sleep_ticks, 0)

\* What callers see of a table, during a call and outside of one.
LEMMA Seeing ==
  /\ UnderWay => /\ MState = Masked(task_count, before.state, "ZOMBIE")
                 /\ MTicks = Masked(task_count, before.sleep_ticks, 0)
  /\ ~UnderWay => /\ MState = Masked(task_count, state, "ZOMBIE")
                  /\ MTicks = Masked(task_count, sleep_ticks, 0)
BY DEF MState, MTicks, Settled, Masked

\* The same of the next state.
LEMMA SeeingNext ==
  /\ UnderWay' => /\ MState' = Masked(task_count', before'.state, "ZOMBIE")
                  /\ MTicks' = Masked(task_count', before'.sleep_ticks, 0)
  /\ ~UnderWay' => /\ MState' = Masked(task_count', state', "ZOMBIE")
                   /\ MTicks' = Masked(task_count', sleep_ticks', 0)
BY DEF MState, MTicks, Settled, Masked

\* A pass over the part of a table callers see does to it what the pass over
\* all of it does.
LEMMA MaskedPass ==
  ASSUME NEW n \in 1 .. NTASKS, NEW old \in 0 .. (n - 1), NEW k \in 1 .. n,
         NEW st, NEW ticks, NEW ms, NEW mt,
         ms = Masked(n, st, "ZOMBIE"), mt = Masked(n, ticks, 0),
         Atomic!Stops(st, ticks, old, k, n),
         \A j \in 1 .. (k - 1) : ~Atomic!Stops(st, ticks, old, j, n)
  PROVE  /\ Atomic!Visited(ms, mt, old, n) = Seen(old, k, n)
         /\ Atomic!Chosen(ms, mt, old, n) = Atomic!Visit(old, k, n)
         /\ Atomic!StatesAfter(ms, mt, Seen(old, k, n))
              = Masked(n, Atomic!StatesAfter(st, ticks, Seen(old, k, n)), "ZOMBIE")
         /\ Atomic!TicksAfter(ms, mt, Seen(old, k, n))
              = Masked(n, Atomic!TicksAfter(st, ticks, Seen(old, k, n)), 0)
<1>1. /\ n \in Nat \ {0} /\ 0 .. (n - 1) \subseteq Slots
      /\ \A i \in 0 .. (n - 1) : ms[i] = st[i] /\ mt[i] = ticks[i]
  BY Names, SMTT(60) DEF Masked
<1>2. \A j \in 1 .. n : Proved!Stops(ms, mt, old, j, n) <=> Proved!Stops(st, ticks, old, j, n)
  BY <1>1, Proved!SameStops
<1>3. /\ Proved!Stops(ms, mt, old, k, n)
      /\ \A j \in 1 .. (k - 1) : ~Proved!Stops(ms, mt, old, j, n)
  BY <1>2, SameLoop, SMTT(60)
<1>4. Atomic!Iterations(ms, mt, old, n) = k
  BY <1>1, <1>3, Proved!LoopCount, SameCount
<1>5. Atomic!Visited(ms, mt, old, n) = Seen(old, k, n) /\ Atomic!Chosen(ms, mt, old, n) = Atomic!Visit(old, k, n)
  BY <1>4 DEF Atomic!Visited, Atomic!Chosen, Seen
<1>6. Seen(old, k, n) \subseteq 0 .. (n - 1)
  BY <1>1, Visits
<1>7. ASSUME NEW seen, seen \subseteq 0 .. (n - 1)
      PROVE  /\ Atomic!StatesAfter(ms, mt, seen) = Masked(n, Atomic!StatesAfter(st, ticks, seen), "ZOMBIE")
             /\ Atomic!TicksAfter(ms, mt, seen) = Masked(n, Atomic!TicksAfter(st, ticks, seen), 0)
  <2>1. Atomic!Slots = Slots /\ \A i \in Slots : i \in Nat /\ (i < n => i \in 0 .. (n - 1))
    BY Names, SameLoop, SMTT(60)
  <2>2. \A i \in Slots : /\ i >= n => ms[i] = "ZOMBIE" /\ mt[i] = 0 /\ i \notin seen
                         /\ ~(i >= n) => ms[i] = st[i] /\ mt[i] = ticks[i]
    BY <1>1, <1>7, <2>1, SMTT(60) DEF Masked
  <2>3. Atomic!StatesAfter(ms, mt, seen) = Masked(n, Atomic!StatesAfter(st, ticks, seen), "ZOMBIE")
    BY <2>1, <2>2 DEF Atomic!StatesAfter, Atomic!WakesUp, Masked
  <2>4. Atomic!TicksAfter(ms, mt, seen) = Masked(n, Atomic!TicksAfter(st, ticks, seen), 0)
    BY <2>1, <2>2 DEF Atomic!TicksAfter, Masked
  <2>. QED
    BY <2>3, <2>4
<1>. QED
  BY <1>5, <1>6, <1>7, SameLoop, SameCount

\* The steps that callers do not see.
LEMMA Unseen ==
  ASSUME IInv, RInv, ~UnderWay, ~UnderWay', task_count' = task_count,
         \A i \in Slots : i < task_count => state'[i] = state[i] /\ sleep_ticks'[i] = sleep_ticks[i]
  PROVE  MState' = MState /\ MTicks' = MTicks
<1>1. task_count \in Nat /\ \A i \in Slots : i \in Nat
  BY Names, SMTT(60) DEF IInv, TicksOnlyInMain, TypeOK
<1>. QED
  BY <1>1, Seeing, SeeingNext, SMTT(60) DEF Masked

\* The steps that they do see.
Visible ==
  \/ AddCount /\ UNCHANGED unseen
  \/ Store /\ Atomic!Noted /\ UNCHANGED before
  \/ TickSchedule /\ Atomic!Noted

\* And what the others leave alone.
Kept ==
  /\ MState' = MState /\ MTicks' = MTicks
  /\ task_count' = task_count /\ current_task' = current_task /\ unseen' = unseen

\* A step of a call that is not its last.
LEMMA Stutters ==
  ASSUME IInv, RInv, [Next]_vars, ~Visible
  PROVE  Kept
<1>0. /\ frame \in [Threads -> Frame] /\ task_count \in 0 .. NTASKS /\ running \in Threads
      /\ state \in [Slots -> {"READY", "SLEEPING", "ZOMBIE"}] /\ sleep_ticks \in [Slots -> Nat]
      /\ \A t \in Slots : t # running => frame[t].pc = "run"
      /\ \A i \in Slots : i \in Nat
  BY Names, SMTT(60) DEF IInv, TicksOnlyInMain, TypeOK, Frames
<1>1. CASE scheduler_add_task
  <2>1. /\ running = Main /\ running' = Main /\ task_count' = task_count
        /\ current_task' = current_task /\ unseen' = unseen
        /\ \/ state' = state /\ sleep_ticks' = sleep_ticks
           \/ /\ state' = [state EXCEPT ![task_count] = "READY"]
              /\ sleep_ticks' = [sleep_ticks EXCEPT ![task_count] = 0]
    BY <1>1 DEF scheduler_add_task, AddState, AddRegs, cpu, table, Visible
  <2>2. ~UnderWay /\ ~UnderWay'
    BY <2>1 DEF UnderWay, at
  <2>3. \A i \in Slots : i < task_count => state'[i] = state[i] /\ sleep_ticks'[i] = sleep_ticks[i]
    BY <1>0, <2>1, SMTT(60)
  <2>. QED
    BY <2>1, <2>2, <2>3, Unseen DEF Kept
<1>2. CASE timer_callback
  <2>1. /\ ~in_service /\ running' = running /\ frame' = frame /\ task_count' = task_count
        /\ current_task' = current_task /\ unseen' = unseen /\ state' = state
        /\ sleep_ticks' = sleep_ticks
    BY <1>2 DEF timer_callback, TickOnly, cpu, table, Visible
  <2>2. running = Main
    BY <2>1 DEF IInv, TicksOnlyInMain
  <2>3. ~UnderWay /\ ~UnderWay'
    BY <2>1, <2>2 DEF UnderWay, at
  <2>. QED
    BY <2>1, <2>3, Unseen DEF Kept
<1>3. CASE scheduler_yield \/ (SleepState /\ UNCHANGED unseen)
  <2>1. /\ at("run") /\ Remember /\ running' = running /\ task_count' = task_count
        /\ current_task' = current_task /\ unseen' = unseen
    BY <1>3 DEF scheduler_yield, SleepState, cpu, table
  <2>2. ~UnderWay
    BY <2>1 DEF UnderWay, at
  <2>3. UnderWay'
    <3>1. frame'[running].pc \in {"enter", "ticks"}
      <4>1. CASE scheduler_yield
        BY <1>0, <4>1, GotoFrame DEF scheduler_yield, Places
      <4>2. CASE SleepState
        <5> DEFINE g == [frame[running] EXCEPT !.pc = "ticks", !.old = current_task]
        <5>1. frame' = [frame EXCEPT ![running] = g]
          BY <4>2 DEF SleepState
        <5>2. g.pc = "ticks"
          BY <1>0 DEF Frame
        <5> HIDE DEF g
        <5>. QED
          BY <1>0, <5>1, <5>2
      <4>. QED
        BY <1>3, <4>1, <4>2
    <3>. QED
      BY <2>1, <3>1 DEF UnderWay, at
  <2>4. before'.state = state /\ before'.sleep_ticks = sleep_ticks
    BY <2>1 DEF Remember
  <2>. QED
    BY <2>1, <2>2, <2>3, <2>4, Seeing, SeeingNext DEF Kept
<1>4. CASE \/ (\E ticks \in Naps : SleepTicks(ticks) /\ UNCHANGED <<before, unseen>>)
           \/ ((Enter \/ Iterate) /\ UNCHANGED <<before, unseen>>)
  <2>1. /\ UnderWay /\ running' = running /\ task_count' = task_count /\ running # Main
        /\ current_task' = current_task /\ unseen' = unseen /\ before' = before
    BY <1>4 DEF SleepTicks, Enter, Iterate, UnderWay, at, cpu, table
  <2>2. frame'[running].pc \in {"enter", "loop", "store"}
    <3>1. CASE \E ticks \in Naps : SleepTicks(ticks)
      BY <1>0, <3>1, GotoFrame DEF SleepTicks, Places
    <3>2. CASE Enter
      <4>1. task_count > 1
        BY <2>1, TaskFacts, SMTT(60)
      <4>. QED
        BY <1>0, <3>2, <4>1, SMTT(60) DEF Enter
    <3>3. CASE Iterate
      <4> DEFINE f == frame[running]
                 c == Atomic!Visit(f.cur, 1, f.n)
                 g == [f EXCEPT !.cur = c, !.pc = IF state'[c] = "READY" \/ c = f.old
                                                 THEN "store" ELSE "loop"]
      <4>1. frame' = [frame EXCEPT ![running] = g]
        BY <3>3 DEF Iterate
      <4>2. f \in Frame
        BY <1>0
      <4>3. g.pc \in {"store", "loop"}
        BY <4>2 DEF Frame
      <4> HIDE DEF g
      <4>. QED
        BY <1>0, <4>1, <4>3
    <3>. QED
      BY <1>4, <3>1, <3>2, <3>3
  <2>3. UnderWay'
    BY <2>1, <2>2 DEF UnderWay, at
  <2>. QED
    BY <2>1, <2>3, Seeing, SeeingNext DEF Kept
<1>5. CASE Switch /\ UNCHANGED unseen
  <2>1. /\ running # Main /\ Goto("run") /\ task_count' = task_count /\ at("switch")
        /\ state' = state /\ sleep_ticks' = sleep_ticks /\ current_task' = current_task
        /\ unseen' = unseen
    BY <1>5 DEF Switch, at, table
  <2>2. \A t \in Slots : frame'[t].pc = "run"
    BY <1>0, <2>1, GotoFrame, Names, SMTT(60) DEF Places
  <2>3. running' \in Threads
    <3>1. IInv'
      BY <1>5, SwitchStep
    <3>. QED
      BY <3>1 DEF IInv, TicksOnlyInMain, TypeOK
  <2>4. ~UnderWay /\ ~UnderWay'
    BY <2>1, <2>2, <2>3 DEF UnderWay, at, Threads
  <2>. QED
    BY <2>1, <2>4, Unseen DEF Kept
<1>6. CASE UNCHANGED vars
  <2>1. UNCHANGED <<state, sleep_ticks, task_count, current_task, running, frame, before, unseen>>
    BY <1>6 DEF vars, table, cpu
  <2>. QED
    BY <2>1 DEF Kept, MState, MTicks, Settled, UnderWay, at
<1>7. CASE scheduler_schedule
  <2>1. (Enter \/ Iterate \/ Switch) /\ UNCHANGED <<before, unseen>>
    BY <1>7 DEF scheduler_schedule, Visible
  <2>. QED
    BY <1>4, <1>5, <2>1
<1>8. CASE scheduler_sleep
  <2>1. \/ SleepState /\ UNCHANGED unseen
        \/ \E ticks \in Naps : SleepTicks(ticks) /\ UNCHANGED <<before, unseen>>
    BY <1>8 DEF scheduler_sleep
  <2>. QED
    BY <1>3, <1>4, <2>1
<1>9. \/ scheduler_add_task \/ timer_callback \/ scheduler_yield \/ scheduler_schedule
      \/ scheduler_sleep \/ UNCHANGED vars
  BY DEF Next, Thread
<1>. QED
  BY <1>1, <1>2, <1>3, <1>6, <1>7, <1>8, <1>9

\* The last store of scheduler_add_task adds the task.
LEMMA AddRefines ==
  ASSUME IInv, RInv, AddCount, UNCHANGED unseen
  PROVE  Atomic!Add
<1>1. /\ running = Main /\ running' = Main /\ frame[Main].pc = "count"
      /\ task_count' = task_count + 1 /\ state' = state /\ sleep_ticks' = sleep_ticks
      /\ current_task' = current_task
  BY DEF AddCount, cpu
<1>2. ~UnderWay /\ ~UnderWay'
  BY <1>1 DEF UnderWay, at
<1>3. task_count \in Nat /\ task_count < NTASKS /\ \A i \in Slots : i \in Nat
  BY <1>1, Names, SMTT(60) DEF IInv, Frames, TicksOnlyInMain, TypeOK
<1>4. state[task_count] = "READY" /\ sleep_ticks[task_count] = 0
  BY <1>1 DEF RInv
<1>5. /\ MState' = [MState EXCEPT ![task_count] = "READY"]
      /\ MTicks' = [MTicks EXCEPT ![task_count] = 0]
  BY <1>1, <1>2, <1>3, <1>4, Seeing, SeeingNext, SMTT(60) DEF Masked
<1>. QED
  BY <1>1, <1>3, <1>5 DEF Atomic!Add, Atomic!scheduler_add_task, MState, MTicks

\* A pass the callers see.
LEMMA PassRefines ==
  ASSUME IInv, NEW st, NEW ticks, NEW ms, NEW mt, NEW k \in 1 .. task_count,
         task_count > 1, current_task \in 0 .. (task_count - 1),
         ms = Masked(task_count, st, "ZOMBIE"), mt = Masked(task_count, ticks, 0),
         Atomic!Stops(st, ticks, current_task, k, task_count),
         \A j \in 1 .. (k - 1) : ~Atomic!Stops(st, ticks, current_task, j, task_count),
         ~UnderWay', task_count' = task_count,
         state' = Atomic!StatesAfter(st, ticks, Seen(current_task, k, task_count)),
         sleep_ticks' = Atomic!TicksAfter(st, ticks, Seen(current_task, k, task_count)),
         current_task' = Atomic!Visit(current_task, k, task_count)
  PROVE  Atomic!Pass(ms, mt)
<1> DEFINE seen == Seen(current_task, k, task_count)
<1>1. task_count \in 1 .. NTASKS
  BY Names, SMTT(60) DEF IInv, TicksOnlyInMain, TypeOK
<1>2. /\ Atomic!Visited(ms, mt, current_task, task_count) = seen
      /\ Atomic!Chosen(ms, mt, current_task, task_count) = Atomic!Visit(current_task, k, task_count)
      /\ Atomic!StatesAfter(ms, mt, seen) = Masked(task_count, Atomic!StatesAfter(st, ticks, seen), "ZOMBIE")
      /\ Atomic!TicksAfter(ms, mt, seen) = Masked(task_count, Atomic!TicksAfter(st, ticks, seen), 0)
  BY <1>1, MaskedPass, SMTT(60)
<1> HIDE DEF seen
<1>3. /\ MState' = Masked(task_count, Atomic!StatesAfter(st, ticks, seen), "ZOMBIE")
      /\ MTicks' = Masked(task_count, Atomic!TicksAfter(st, ticks, seen), 0)
  BY SeeingNext DEF seen
<1>4. ~(task_count <= 1)
  BY <1>1, SMTT(60)
<1>. QED
  BY <1>2, <1>3, <1>4 DEF Atomic!Pass, MState, MTicks

\* A call that stores current_task is a yield or a sleep.
LEMMA StoreRefines ==
  ASSUME IInv, RInv, Store, Atomic!Noted, UNCHANGED before
  PROVE  Atomic!Yield \/ Atomic!Sleep
<1>0. running # Main
  BY DEF Store, at
<1>1. /\ running \in Slots /\ running \in Threads /\ task_count \in Nat \ {0, 1}
      /\ running \in 1 .. (task_count - 1) /\ frame \in [Threads -> Frame] /\ Locals
  BY <1>0, TaskFacts
<1>2. /\ frame[running].pc = "store" /\ current_task' = frame[running].cur
      /\ Goto(IF frame[running].cur # frame[running].old THEN "switch" ELSE "run")
      /\ UNCHANGED <<state, sleep_ticks, task_count, running>>
  BY DEF Store, at, cpu
<1>3. current_task = running
  BY <1>1, <1>2 DEF Locals
<1>4. UnderWay /\ ~UnderWay'
  <2>1. frame'[running].pc \in {"switch", "run"}
    BY <1>1, <1>2, GotoFrame DEF Places, Inside
  <2>. QED
    BY <1>0, <1>2, <2>1 DEF UnderWay, at
<1>5. PICK st \in [Slots -> {"READY", "SLEEPING", "ZOMBIE"}], ticks \in [Slots -> Nat],
           k \in 1 .. task_count :
        Scanned(st, ticks, k) /\ Atomic!Stops(st, ticks, running, k, task_count)
  BY <1>0, <1>2 DEF RInv, Progress
<1>6. /\ state' = Atomic!StatesAfter(st, ticks, Seen(current_task, k, task_count))
      /\ sleep_ticks' = Atomic!TicksAfter(st, ticks, Seen(current_task, k, task_count))
      /\ current_task' = Atomic!Visit(current_task, k, task_count)
      /\ Atomic!Stops(st, ticks, current_task, k, task_count)
      /\ \A j \in 1 .. (k - 1) : ~Atomic!Stops(st, ticks, current_task, j, task_count)
      /\ Called(st, ticks) /\ task_count' = task_count /\ task_count > 1
      /\ current_task \in 0 .. (task_count - 1)
  BY <1>1, <1>2, <1>3, <1>5, SMTT(60) DEF Scanned
<1>7. Atomic!Pass(Masked(task_count, st, "ZOMBIE"), Masked(task_count, ticks, 0))
  BY <1>4, <1>6, PassRefines
<1>8. MState = Masked(task_count, before.state, "ZOMBIE") /\ MTicks = Masked(task_count, before.sleep_ticks, 0)
  BY <1>4, Seeing
<1>9. CASE st = before.state /\ ticks = before.sleep_ticks
  <2>1. Atomic!Pass(MState, MTicks)
    BY <1>7, <1>8, <1>9
  <2>. QED
    BY <1>6, <2>1 DEF Atomic!Yield, Atomic!scheduler_schedule, MState, MTicks
<1>10. ASSUME NEW nap \in Naps, st = [before.state EXCEPT ![running] = "SLEEPING"],
              ticks = [before.sleep_ticks EXCEPT ![running] = nap]
       PROVE  Atomic!Sleep
  <2>1. before.state \in [Slots -> {"READY", "SLEEPING", "ZOMBIE"}] /\ before.sleep_ticks \in [Slots -> Nat]
    BY DEF RInv, Table
  <2>2. /\ Masked(task_count, st, "ZOMBIE") = [MState EXCEPT ![current_task] = "SLEEPING"]
        /\ Masked(task_count, ticks, 0) = [MTicks EXCEPT ![current_task] = nap]
    <3> DEFINE n == task_count
               ms == before.state
               mt == before.sleep_ticks
    <3>1. /\ current_task \in Slots /\ ~(current_task >= n)
          /\ st = [ms EXCEPT ![current_task] = "SLEEPING"] /\ ticks = [mt EXCEPT ![current_task] = nap]
          /\ MState = Masked(n, ms, "ZOMBIE") /\ MTicks = Masked(n, mt, 0)
      BY <1>1, <1>3, <1>8, <1>10, SMTT(60)
    <3> HIDE DEF n, ms, mt
    <3>2. Masked(n, st, "ZOMBIE") = [Masked(n, ms, "ZOMBIE") EXCEPT ![current_task] = "SLEEPING"]
      BY <2>1, <3>1 DEF Masked, ms
    <3>3. Masked(n, ticks, 0) = [Masked(n, mt, 0) EXCEPT ![current_task] = nap]
      BY <2>1, <3>1 DEF Masked, mt
    <3>. QED
      BY <3>1, <3>2, <3>3 DEF n
  <2>3. Atomic!Pass([MState EXCEPT ![current_task] = "SLEEPING"], [MTicks EXCEPT ![current_task] = nap])
    BY <1>7, <2>2
  <2>4. Atomic!scheduler_sleep(nap)
    BY <1>1, <1>6, <2>3 DEF Atomic!scheduler_sleep, MState, MTicks
  <2>. QED
    BY <2>4 DEF Atomic!Sleep
<1>. QED
  BY <1>6, <1>9, <1>10 DEF Called

\* A tick that schedules is a yield.
LEMMA TickRefines ==
  ASSUME IInv, TickSchedule, Atomic!Noted
  PROVE  Atomic!Yield
<1> DEFINE k == Atomic!Iterations(state, sleep_ticks, current_task, task_count)
           seen == Atomic!Visited(state, sleep_ticks, current_task, task_count)
<1>1. /\ task_count' = task_count /\ frame' = frame /\ task_count > 1 /\ ~in_service
      /\ state' = Atomic!StatesAfter(state, sleep_ticks, seen)
      /\ sleep_ticks' = Atomic!TicksAfter(state, sleep_ticks, seen)
      /\ current_task' = Atomic!Chosen(state, sleep_ticks, current_task, task_count)
  BY DEF TickSchedule
<1>2. /\ running = Main /\ current_task = 0 /\ task_count \in Nat \ {0}
      /\ current_task \in 0 .. (task_count - 1)
  BY <1>1, Names, SMTT(60) DEF IInv, TicksOnlyInMain, TypeOK
<1>3. /\ k \in 1 .. task_count /\ Atomic!Stops(state, sleep_ticks, current_task, k, task_count)
      /\ \A j \in 1 .. (k - 1) : ~Atomic!Stops(state, sleep_ticks, current_task, j, task_count)
  <2> DEFINE l == Proved!Iterations(state, sleep_ticks, current_task, task_count)
  <2>1. /\ l \in 1 .. task_count /\ Proved!Stops(state, sleep_ticks, current_task, l, task_count)
        /\ \A j \in 1 .. (l - 1) : ~Proved!Stops(state, sleep_ticks, current_task, j, task_count)
    BY <1>2, Proved!LoopEnds
  <2>2. k = l
    BY SameCount
  <2> HIDE DEF k, l
  <2>. QED
    BY <2>1, <2>2, SameLoop
<1>4. /\ seen = Seen(current_task, k, task_count)
      /\ current_task' = Atomic!Visit(current_task, k, task_count)
  BY <1>1 DEF Atomic!Visited, Atomic!Chosen, Seen
<1>5. ~UnderWay /\ ~UnderWay'
  <2>1. \A t \in Slots : frame[t].pc = "run"
    BY <1>2, Names DEF IInv, Frames
  <2>2. running' \in Threads
    <3>1. IInv'
      BY TickStep
    <3>. QED
      BY <3>1 DEF IInv, TicksOnlyInMain, TypeOK
  <2>. QED
    BY <1>1, <1>2, <2>1, <2>2 DEF UnderWay, at, Threads
<1>6. MState = Masked(task_count, state, "ZOMBIE") /\ MTicks = Masked(task_count, sleep_ticks, 0)
  BY <1>5, Seeing
<1> HIDE DEF k, seen
<1>7. Atomic!Pass(MState, MTicks)
  BY <1>1, <1>2, <1>3, <1>4, <1>5, <1>6, PassRefines
<1>. QED
  BY <1>1, <1>7 DEF Atomic!Yield, Atomic!scheduler_schedule, MState, MTicks

\* Every step is a step of the scheduler on the table callers see, or none.
LEMMA StepRefines ==
  ASSUME IInv, RInv, [Next]_vars
  PROVE  [Atomic!Next]_(Atomic!vars)
<1>1. CASE AddCount /\ UNCHANGED unseen
  BY <1>1, AddRefines DEF Atomic!Next
<1>2. CASE Store /\ Atomic!Noted /\ UNCHANGED before
  BY <1>2, StoreRefines DEF Atomic!Next
<1>3. CASE TickSchedule /\ Atomic!Noted
  BY <1>3, TickRefines DEF Atomic!Next
<1>4. CASE ~Visible
  <2>1. Kept
    BY <1>4, Stutters
  <2>. QED
    BY <2>1 DEF Kept, Atomic!vars, Atomic!table, MState, MTicks
<1>. QED
  BY <1>1, <1>2, <1>3, <1>4 DEF Visible

\* The table scheduler_init leaves is Scheduler's, too.
LEMMA InitRefines ==
  ASSUME Init
  PROVE  Atomic!Init
<1>1. /\ task_count = 0 /\ current_task = 0 /\ unseen = [i \in Slots |-> 0]
  BY DEF Init
<1>2. /\ MState = [i \in Slots |-> "ZOMBIE"] /\ MTicks = [i \in Slots |-> 0]
  BY <1>1, Names, SMTT(60) DEF MState, MTicks, Settled
<1>. QED
  BY <1>1, <1>2, SameLoop DEF Atomic!Init, Atomic!TableInit, MState, MTicks

\* For any number of tasks, any slice and any lengths of sleep: the calls of
\* scheduler.c are atomic to their callers, although they run in steps and
\* with interrupts on.
THEOREM CallsAreAtomic == Spec => ImplementsScheduler
<1>1. IInv /\ RInv /\ [Next]_vars => [Atomic!Next]_(Atomic!vars)
  BY StepRefines
<1>2. Init => Atomic!Init
  BY InitRefines
<1>3. Init => IInv /\ RInv
  BY PreemptionInit, RefinementInvariant
<1>4. IInv /\ RInv /\ [Next]_vars => IInv' /\ RInv'
  BY PreemptionStep, RefinementInvariant
<1>. QED
  BY <1>1, <1>2, <1>3, <1>4, PTL DEF Spec, ImplementsScheduler, Atomic!CallSpec

\* The steps that SchedulerProofs is about are the ones callers see.
LEMMA SameSteps ==
  ASSUME [Atomic!Next]_(Atomic!vars)
  PROVE  [Proved!Next]_(Proved!vars)
<1>1. Atomic!Add => Proved!Add
  BY DEF Atomic!Add, Proved!Add, Atomic!scheduler_add_task, Proved!scheduler_add_task
<1>2. ASSUME NEW st, NEW ticks, Atomic!Pass(st, ticks) PROVE Proved!Pass(st, ticks)
  <2>1. /\ Atomic!Visited(st, ticks, current_task, task_count)
             = Proved!Visited(st, ticks, current_task, task_count)
        /\ Atomic!Chosen(st, ticks, current_task, task_count)
             = Proved!Chosen(st, ticks, current_task, task_count)
    BY SameCount
  <2>2. \A seen : /\ Atomic!StatesAfter(st, ticks, seen) = Proved!StatesAfter(st, ticks, seen)
                  /\ Atomic!TicksAfter(st, ticks, seen) = Proved!TicksAfter(st, ticks, seen)
    BY SameLoop
  <2>. QED
    BY <1>2, <2>1, <2>2 DEF Atomic!Pass, Proved!Pass
<1>3. Atomic!Noted => Proved!Noted
  BY DEF Atomic!Noted, Proved!Noted, Atomic!Passed, Proved!Passed, Atomic!Slots, Proved!Slots
<1>4. Atomic!Yield => Proved!Yield
  BY <1>2, <1>3 DEF Atomic!Yield, Proved!Yield, Atomic!scheduler_schedule, Proved!scheduler_schedule
<1>5. Atomic!Sleep => Proved!Sleep
  BY <1>2, <1>3 DEF Atomic!Sleep, Proved!Sleep, Atomic!scheduler_sleep, Proved!scheduler_sleep
<1>6. Atomic!vars = Proved!vars /\ (UNCHANGED Atomic!vars => UNCHANGED Proved!vars)
  BY DEF Atomic!vars, Proved!vars, Atomic!table, Proved!table
<1>. QED
  BY <1>1, <1>4, <1>5, <1>6 DEF Atomic!Next, Proved!Next

\* What SchedulerProofs shows of atomic calls therefore holds with the timer
\* interrupting them: no task is passed over.
THEOREM NoTaskPassedOverByTicks == Spec => []RoundRobin
<1>1. Proved!SchedulerConstants
  BY PreemptionConstants DEF Proved!SchedulerConstants
<1>2. Init => Proved!IInv
  <2>1. Atomic!Init => Proved!Init
    BY SameLoop DEF Atomic!Init, Proved!Init, Atomic!TableInit, Proved!TableInit
  <2>. QED
    BY <1>1, <2>1, InitRefines, Proved!SchedulerInit
<1>3. Proved!IInv /\ [Atomic!Next]_(Atomic!vars) => Proved!IInv'
  BY <1>1, SameSteps, Proved!SchedulerStep
<1>4. Proved!IInv => RoundRobin
  <2>1. Atomic!RoundRobin <=> Proved!RoundRobin
    BY DEF Atomic!RoundRobin, Proved!RoundRobin, Atomic!TypeOK, Proved!TypeOK,
       Atomic!TableConsistent,
           Proved!TableConsistent, Atomic!WaitDistance, Proved!WaitDistance, Atomic!Tasks,
           Proved!Tasks, Atomic!Distance, Proved!Distance, Atomic!Slots, Proved!Slots
  <2>. QED
    BY <2>1 DEF RoundRobin, Proved!IInv
<1>. QED
  BY <1>2, <1>3, <1>4, CallsAreAtomic, PTL DEF Spec, ImplementsScheduler, Atomic!CallSpec
=============================================================================
