------------------------------- MODULE MCTasks -------------------------------
(***************************************************************************)
(* The scheduler's calls in steps, with timer ticks between them; the      *)
(* sleep of the timer; and the console, of one caller and shared with the  *)
(* tasks.  They share no state: part says which of them this behaviour is  *)
(* about, and the others stay as they begin.                               *)
(*                                                                         *)
(* Four tasks that never give up the processor, yield, or sleep for zero,  *)
(* one or three passes.  A counter of four bits, which wraps round during  *)
(* most sleeps.  A screen of two lines of three cells, and two lines that  *)
(* scroll off.                                                             *)
(***************************************************************************)
EXTENDS Preemption, Timer, Console, ConsoleShared

MCNaps == {0, 1, 3}

VARIABLE part

mcVars == <<part, vars, timerVars, consoleVars, sharedVars>>

ASSUME TasksConstants == TimerConstants /\ ConsoleConstants /\ ConsoleSharedConstants

MCInit ==
  /\ part \in {"tasks", "sleep", "console", "shared"}
  /\ Init /\ TimerInit /\ ConsoleInit /\ SharedInit
  /\ part # "sleep" => tick_count = 0

OnlyTasks == part = "tasks" /\ ~corrupt /\ UNCHANGED <<part, timerVars, consoleVars, sharedVars>>

MCThread == OnlyTasks /\ Thread
MCYield  == OnlyTasks /\ scheduler_yield
MCTick   == OnlyTasks /\ timer_callback

OnlySleep == part = "sleep" /\ UNCHANGED <<part, vars, consoleVars, sharedVars>>

MCSleep       == OnlySleep /\ SleepCalled
MCTickCounted == OnlySleep /\ TickCounted
MCSleeper     == OnlySleep /\ Sleeper

MCConsole == part = "console" /\ ConsoleNext /\ UNCHANGED <<part, vars, timerVars, sharedVars>>
MCShared == part = "shared" /\ SharedNext /\ UNCHANGED <<part, vars, timerVars, consoleVars>>

MCNext ==
  \/ MCThread \/ MCYield \/ MCTick
  \/ MCSleep \/ MCTickCounted \/ MCSleeper
  \/ MCConsole \/ MCShared

\* The fairness of Preemption and of Timer.
MCSpec ==
  /\ MCInit /\ [][MCNext]_mcVars
  /\ WF_mcVars(MCThread) /\ WF_mcVars(MCTick)
  /\ WF_mcVars(MCTickCounted) /\ WF_mcVars(MCSleeper)

-----------------------------------------------------------------------------
(* Properties: those of the four modules, and liveness of the tasks.       *)

\* Ticks go on: see Preemption.
MCTicksGoOn == part = "tasks" => TicksGoOn
=============================================================================
