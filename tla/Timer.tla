-------------------------------- MODULE Timer --------------------------------
(***************************************************************************)
(* The tick counter of kernel/timer.c and the function sleep, which halts  *)
(* until enough ticks have gone by.  The counter is a word that wraps      *)
(* round.  sleep reads it without locking while the interrupt handler      *)
(* counts on, and may be late: ticks come between two of its looks.        *)
(*                                                                         *)
(* Who calls sleep makes a difference.  timer_callback acknowledges the    *)
(* tick that switched to a task only when kernel_main has the processor    *)
(* back (TicksOnlyInMain of module Preemption), and a task in sleep does   *)
(* not give it back: no tick comes until its sleep is over.                *)
(***************************************************************************)
EXTENDS Integers

CONSTANTS
  TICK_WORD,   \* values of tick_count (2^32)
  MsPerTick,   \* 1000 / TIMER_FREQUENCY (10)
  Delays,      \* the milliseconds callers ask for
  MaxLate      \* bound: ticks a sleeper may miss before it halts or looks

Words == 0 .. (TICK_WORD - 1)

TimerConstants ==
  /\ TICK_WORD \in Nat \ {0} /\ MsPerTick \in Nat \ {0} /\ MaxLate \in Nat \ {0}
  /\ Delays \subseteq Words
  /\ \A ms \in Delays : ms \div MsPerTick + MaxLate + 1 < TICK_WORD

VARIABLES
  tick_count,
  sleeper,                  \* who is in sleep: "nobody", "main" or "task"
  sleep_pc, start, ticks,   \* sleep: where it is, and its locals
  slept,                    \* history: ticks since sleep was called
  late                      \* history: ticks since sleep last looked

timerVars == <<tick_count, sleeper, sleep_pc, start, ticks, slept, late>>

TimerInit ==
  /\ tick_count \in Words
  /\ sleeper = "nobody" /\ sleep_pc = "idle" /\ start = 0 /\ ticks = 0 /\ slept = 0 /\ late = 0

\* History: a tick during sleep, which is not too late for its next look.
CountSlept ==
  IF sleep_pc = "idle" THEN UNCHANGED <<slept, late>>
  ELSE (sleep_pc = "halted" \/ late < MaxLate) /\ slept' = slept + 1 /\ late' = late + 1

\* Fault: hlt goes on after the interrupt.
TickNoWake ==
  /\ sleeper # "task"
  /\ tick_count' = (tick_count + 1) % TICK_WORD
  /\ IF sleep_pc = "halted" THEN UNCHANGED <<slept, late>> ELSE CountSlept
  /\ UNCHANGED <<sleeper, sleep_pc, start, ticks>>

\* timer_callback's part in it: tick_count++, and hlt ends.
TickCounted ==
  /\ sleeper # "task"
  /\ tick_count' = (tick_count + 1) % TICK_WORD
  /\ sleep_pc' = IF sleep_pc = "halted" THEN "look" ELSE sleep_pc
  /\ CountSlept
  /\ UNCHANGED <<sleeper, start, ticks>>

sleep(ms, who) ==
  /\ sleep_pc = "idle" /\ sleeper' = who
  /\ start' = tick_count
  /\ ticks' = ms \div MsPerTick
  /\ sleep_pc' = "look" /\ slept' = 0 /\ late' = 0
  /\ UNCHANGED tick_count

\* The condition of the loop, in unsigned arithmetic.
Elapsed == (tick_count - start) % TICK_WORD

\* Fault: the counter is compared with the time to wake up at.
LookAbsolute ==
  /\ sleep_pc = "look"
  /\ sleep_pc' = IF tick_count < (start + ticks) % TICK_WORD THEN "hlt" ELSE "done"
  /\ late' = 0
  /\ UNCHANGED <<tick_count, sleeper, start, ticks, slept>>

Look ==
  /\ sleep_pc = "look"
  /\ sleep_pc' = IF Elapsed < ticks THEN "hlt" ELSE "done"
  /\ late' = 0
  /\ UNCHANGED <<tick_count, sleeper, start, ticks, slept>>

SleepHlt ==
  /\ sleep_pc = "hlt"
  /\ sleep_pc' = "halted"
  /\ UNCHANGED <<tick_count, sleeper, start, ticks, slept, late>>

SleepReturn ==
  /\ sleep_pc = "done"
  /\ sleeper' = "nobody" /\ sleep_pc' = "idle" /\ start' = 0 /\ ticks' = 0 /\ slept' = 0 /\ late' = 0
  /\ UNCHANGED tick_count

Sleeper == Look \/ SleepHlt \/ SleepReturn

SleepCalled == \E ms \in Delays, who \in {"main", "task"} : sleep(ms, who)

TimerNext == TickCounted \/ SleepCalled \/ Sleeper

\* Where ticks may come they do (TicksGoOn of module Preemption), and sleep goes
\* on when it can.
TimerSpec ==
  /\ TimerInit /\ [][TimerNext]_timerVars
  /\ WF_timerVars(TickCounted) /\ WF_timerVars(Sleeper)

-----------------------------------------------------------------------------
(* Properties.                                                             *)

\* Every variable has its type.
TimerTypeOK ==
  /\ sleeper \in {"nobody", "main", "task"}
  /\ tick_count \in Words /\ start \in Words /\ ticks \in Words
  /\ sleep_pc \in {"idle", "look", "hlt", "halted", "done"}
  /\ slept \in Nat /\ late \in 0 .. (MaxLate + 1)

\* sleep does not return early, also when tick_count wraps round meanwhile,
\* and goes back to hlt only if at its last look the time was not over.  In a
\* task it returns only if there was nothing to wait for.
SleepExact ==
  /\ TimerTypeOK
  /\ sleep_pc = "done" => slept >= ticks
  /\ sleep_pc \in {"hlt", "halted"} => slept - late < ticks
  /\ sleep_pc = "done" /\ sleeper = "task" => ticks = 0

\* A sleep in kernel_main returns, although a tick may come between its look
\* and its hlt, and so does one of no ticks in a task.  (A longer one in a task
\* never does.)
SleepReturns == sleep_pc = "look" /\ (sleeper = "main" \/ ticks = 0) ~> sleep_pc = "idle"
=============================================================================
