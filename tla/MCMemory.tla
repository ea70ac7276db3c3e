------------------------------ MODULE MCMemory ------------------------------
(***************************************************************************)
(* The kernel heap and the page tables, which share no state here (Heap    *)
(* has its own view of the pages it maps): part says which of the two this *)
(* behaviour is about.                                                     *)
(*                                                                         *)
(* A heap with pages of 64 bytes, two of them mapped by the first kmalloc, *)
(* and frames for two more, by extensions or after a failure.  Pages that  *)
(* share some and none of their tables, and a pool that runs out at the    *)
(* second or the third level, in whichever order they come.                *)
(***************************************************************************)
EXTENDS Heap, Paging

MCRequests == {0, 40, 70}

MCPages == {<<0, 0, 0, 0>>, <<0, 0, 1, 0>>, <<1, 0, 0, 0>>, <<1, 1, 0, 0>>}
MCFrames == {100, 102}
MCFlagSets == {{}, {"W", "U"}}
MCLeftovers == {[present |-> FALSE, addr |-> 100, flags |-> {}],
                [present |-> TRUE, addr |-> 102, flags |-> {"W", "U"}]}

VARIABLE part

\* The heap's behaviours start from one state of the tables, which they leave
\* as it is.
MCInit ==
  /\ part \in {"heap", "tables"}
  /\ Init
  /\ PagingInit
  /\ part = "heap" => \A a \in Words : mem[a].addr # 102

MCNext ==
  \/ part = "heap" /\ Next /\ UNCHANGED <<part, pagingVars>>
  \/ part = "tables" /\ PagingNext /\ UNCHANGED <<part, vars>>

MCSpec == MCInit /\ [][MCNext]_<<part, vars, pagingVars>>
=============================================================================
