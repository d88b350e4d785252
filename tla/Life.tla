-------------------------------- MODULE Life --------------------------------
(***************************************************************************)
(* Conway's game of life on a torus, the cellular automaton the examples   *)
(* of stage0 run: what a generation is, with no machine, table or kick.    *)
(***************************************************************************)
EXTENDS Integers, FiniteSets

CONSTANTS
  Width, Height,   (* of the space                                         *)
  Generations,     (* bound: how many are computed                         *)
  Seeds            (* the sets of sites that may be alive at first         *)

Sites == (0 .. Width - 1) \X (0 .. Height - 1)

Beside(s, d) == <<(s[1] + d[1]) % Width, (s[2] + d[2]) % Height>>

Directions == ((-1 .. 1) \X (-1 .. 1)) \ {<<0, 0>>}

LiveAround(alive, s) == Cardinality({d \in Directions : Beside(s, d) \in alive})

NextGeneration(alive) ==
  {s \in Sites : LiveAround(alive, s) = 3 \/ (LiveAround(alive, s) = 2 /\ s \in alive)}

VARIABLES grid, age

lifeVars == <<grid, age>>

Init == grid \in Seeds /\ age = 0

Tick ==
  /\ age < Generations
  /\ grid' = NextGeneration(grid)
  /\ age' = age + 1

SafeSpec == Init /\ [][Tick]_lifeVars

Spec == SafeSpec /\ WF_lifeVars(Tick)
=============================================================================
