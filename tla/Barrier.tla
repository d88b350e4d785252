------------------------------ MODULE Barrier ------------------------------
(***************************************************************************)
(* What a reusable thread barrier promises, without saying how.  Thread t  *)
(* arrives for the arrived[t]-th time and may only pass once every other   *)
(* thread has arrived as often.  This is the contract Cam8InterpModule     *)
(* relies on at its "Wait for all thread to hit this point" comment.       *)
(***************************************************************************)
EXTENDS Naturals

CONSTANTS
  Threads,   (* the threads that meet at the barrier                       *)
  Rounds     (* how often each of them meets the others                    *)

VARIABLES arrived, passed

barrierVars == <<arrived, passed>>

Init ==
  /\ arrived = [t \in Threads |-> 0]
  /\ passed  = [t \in Threads |-> 0]

(* A thread that is outside the barrier reaches it.                        *)
Arrive(t) ==
  /\ arrived[t] = passed[t]
  /\ passed[t] < Rounds
  /\ arrived' = [arrived EXCEPT ![t] = @ + 1]
  /\ UNCHANGED passed

(* A thread leaves when nobody is still missing from its round.            *)
Pass(t) ==
  /\ passed[t] < arrived[t]
  /\ \A u \in Threads : arrived[t] <= arrived[u]
  /\ passed' = [passed EXCEPT ![t] = @ + 1]
  /\ UNCHANGED arrived

Next == \E t \in Threads : Arrive(t) \/ Pass(t)

Fairness == \A t \in Threads : WF_barrierVars(Arrive(t)) /\ WF_barrierVars(Pass(t))

SafeSpec == Init /\ [][Next]_barrierVars

Spec == SafeSpec /\ Fairness
=============================================================================
