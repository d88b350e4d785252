-------------------------- MODULE MCThreadBarrier --------------------------
(***************************************************************************)
(* Small instances of ThreadBarrier.  Each cfg names the threads as model  *)
(* values; the constructor's argument is their number.                     *)
(***************************************************************************)
EXTENDS ThreadBarrier, TLC

MCCount == Cardinality(Threads)
MCCounts == {Cardinality(Threads)}
MCNoCounts == {}

(* The threads are interchangeable: no action or invariant names one.      *)
MCSymmetry == Permutations(Threads)
=============================================================================
