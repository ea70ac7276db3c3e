---------------------------- MODULE MCKernelSpace ----------------------------
(* The layout of the source, with two tasks and one process. *)
EXTENDS KernelSpace
=============================================================================
