---------------------------- MODULE MCInterrupts ----------------------------
(***************************************************************************)
(* Small instances of Interrupts: two modules raising, two lists.          *)
(***************************************************************************)
EXTENDS Interrupts
=============================================================================
