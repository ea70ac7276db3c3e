--------------------------------- MODULE Vga ---------------------------------
(***************************************************************************)
(* The size of the text screen (kernel/drivers/vga.h), which the two       *)
(* models of the console share.                                            *)
(***************************************************************************)
EXTENDS Integers

CONSTANTS VGA_WIDTH, VGA_HEIGHT   \* 80 and 25
=============================================================================
