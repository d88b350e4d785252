----------------------------- MODULE MCSteplist -----------------------------
(***************************************************************************)
(* Small instances of Steplist: each cfg names the chunks and the lists as *)
(* model values.                                                           *)
(***************************************************************************)
EXTENDS Steplist
=============================================================================
