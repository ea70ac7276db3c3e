------------------------------ MODULE MCMachine ------------------------------
(***************************************************************************)
(* The kernel on the machine: the memory map from the firmware to init_pmm, *)
(* interrupts from the controllers to the handlers, the stubs step by step, *)
(* and the keyboard's ring buffer.  They share no state: part says which of *)
(* them this behaviour is about, and the others stay as they begin.         *)
(*                                                                          *)
(* Room for three entries, words of three bits, entries of every kind that  *)
(* init_pmm tells apart, lengths whose sum wraps round, and more entries    *)
(* asked for than there is room.  Slices of two ticks: with and without a   *)
(* switch.  All the vectors with a gate.  A ring of four slots, which wraps *)
(* round and fills up; two keys with characters, one without, one beyond    *)
(* the table, one released.                                                 *)
(***************************************************************************)
EXTENDS Boot, Interrupts, IsrFrame, Keyboard

Kind(base, base_high, length, type) ==
  [base |-> base, base_high |-> base_high, length |-> length, length_high |-> 0, type |-> type]

MCEntries == {Kind(0, 0, 4, 1), Kind(1, 0, 5, 1), Kind(6, 0, 1, 2), Kind(0, 1, 4, 1), Kind(2, 0, 0, 1)}
MCGateVectors == 0 .. 47
MCTable == [sc \in 0 .. 3 |-> IF sc \in {2, 3} THEN 47 + sc ELSE 0]

VARIABLE part

mcVars == <<part, bootVars, vars, stubVars, keyboardVars>>

ASSUME MachineConstants == BootConstants /\ FrameConstants /\ KeyboardConstants

\* Memory read as a map: three different entries, in any order.
Maps ==
  {m \in [0 .. (MAX_MEMORY_MAP_ENTRIES - 1) -> Entries] :
     \A j, k \in DOMAIN m : m[j] = m[k] => j = k}
NoMap == CHOOSE m \in Maps : TRUE

MCInit ==
  /\ part \in {"boot", "controllers", "stubs", "keyboard"}
  /\ BootInit /\ Init /\ StubInit /\ KeyboardInit
  /\ low \in IF part = "boot" THEN Maps ELSE {NoMap}
  /\ part # "stubs" => vec = 0

OnlyBoot == part = "boot" /\ UNCHANGED <<part, vars, stubVars, keyboardVars>>
Quiet == part = "controllers" /\ UNCHANGED <<part, bootVars, stubVars, keyboardVars>>
OnlyStubs == part = "stubs" /\ UNCHANGED <<part, bootVars, vars, keyboardVars>>
OnlyKeyboard == part = "keyboard" /\ UNCHANGED <<part, bootVars, vars, stubVars>>

MCNext ==
  \/ OnlyBoot /\ BootNext
  \/ Quiet /\ Next
  \/ OnlyStubs /\ StubNext
  \/ OnlyKeyboard /\ KeyboardNext

\* The fairness of the modules.
MCSpec ==
  /\ MCInit /\ [][MCNext]_mcVars
  /\ WF_mcVars(OnlyBoot /\ (Firmware \/ Loader \/ Kernel))
  /\ WF_mcVars(Quiet /\ KernelMain) /\ WF_mcVars(Quiet /\ Handler)
  /\ WF_mcVars(Quiet /\ SwitchBack) /\ WF_mcVars(Quiet /\ LocalTimer)
  /\ WF_mcVars(Quiet /\ Interrupt)
  /\ WF_mcVars(OnlyKeyboard /\ MainLoop) /\ WF_mcVars(OnlyKeyboard /\ OtherInterrupt)

-----------------------------------------------------------------------------
(* Properties: those of the four modules, and liveness of two.             *)

\* The kernel gets through memory_init: see Boot.
MCBootGoesOn == part = "boot" => BootGoesOn

\* Interrupts go on for ever: see Interrupts.
MCTimerGoesOn == part = "controllers" => TimerGoesOn
=============================================================================
