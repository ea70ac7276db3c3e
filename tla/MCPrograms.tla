----------------------------- MODULE MCPrograms -----------------------------
(***************************************************************************)
(* What the kernel does for programs: processes with the user stack, and   *)
(* the ELF loader.  The two share no state: part says which of them this   *)
(* behaviour is about.                                                     *)
(*                                                                         *)
(* Three usable slots and frames for three creations, so that all are in   *)
(* use or one is used again, or for two and a function.  Programs of up to *)
(* three headers for pages of four bytes.                                  *)
(***************************************************************************)
EXTENDS UserMode, Elf

VARIABLE part

Load(v, o, f, m) == [load |-> TRUE, vaddr |-> v, offset |-> o, filesz |-> f, memsz |-> m]
Note == [load |-> FALSE, vaddr |-> 0, offset |-> 0, filesz |-> 0, memsz |-> 0]

\* Pairs of segments, the first within pages 0 and 1, the second from page 1
\* or 2 on: unaligned, empty, only zeros, up to and across a page boundary,
\* with a page in common or not.
Segments ==
  {<<>>} \cup
  {<<Load(v, 10, f, f + z), Note, Load(w, 30, g, g + y)>> :
     v \in {0, 1, 3}, f \in {0, 1, 4}, z \in {0, 1},
     w \in {5, 8, 11}, g \in {0, 5}, y \in {0, 4}}

ASSUME ProgramsConstants == ElfConstants

MCInit ==
  /\ part \in {"processes", "loader"}
  /\ UserModeInit /\ ElfInit
  /\ part # "loader" => phdrs = <<>>

Processes == part = "processes" /\ UserModeNext /\ UNCHANGED <<part, elfVars>>
Loader == part = "loader" /\ elf_load /\ UNCHANGED <<part, allVars>>

MCNext == Processes \/ Loader

MCSpec == MCInit /\ [][MCNext]_<<part, allVars, elfVars>>
=============================================================================
