--------------------------- MODULE MCSteplistRun ---------------------------
(***************************************************************************)
(* Small instances of SteplistRun: few modules, few instructions, and one  *)
(* instruction that is a no-operation.                                     *)
(***************************************************************************)
EXTENDS SteplistRun

MCNoops == {2}
=============================================================================
