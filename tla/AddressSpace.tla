---------------------------- MODULE AddressSpace ----------------------------
(***************************************************************************)
(* What map_page, unmap_page and set_page_flags promise their callers: a   *)
(* table from pages to frames with flags, of which a call changes the      *)
(* entry of one page when it returns 0, and nothing when it returns -1.    *)
(* Of the flags asked for, a page gets the right to be written.            *)
(***************************************************************************)
EXTENDS Integers

CONSTANTS Pages, Frames, FlagSets

VARIABLES
  space,  \* page -> set with its one translation, {} if it is not mapped
  ret     \* what the last call returned

Granted(fl) == fl \cap {"W"}
Translations == [addr : Frames, flags : {Granted(fl) : fl \in FlagSets}]

Init ==
  /\ space \in [Pages -> {{}} \cup {{e} : e \in Translations}]
  /\ ret = 0

\* What a call that succeeds makes of the entry of page p.
Map(p) == space'[p] \in {{e} : e \in Translations}
Unmap(p) == space[p] # {} /\ space'[p] = {}
SetFlags(p) ==
  space'[p] \in {{[o EXCEPT !.flags = Granted(fl)]} : o \in space[p], fl \in FlagSets}

\* A call gives up and changes nothing, or changes no page but its own.
Next ==
  LET changed == {q \in Pages : space'[q] # space[q]} IN
  \/ ret' = -1 /\ changed = {}
  \/ ret' = 0 /\ \E p \in Pages : changed \subseteq {p} /\ (Map(p) \/ Unmap(p) \/ SetFlags(p))

Spec == Init /\ [][Next]_<<space, ret>>
=============================================================================
