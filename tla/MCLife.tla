------------------------------- MODULE MCLife -------------------------------
(***************************************************************************)
(* Patterns on a torus of five by four sites: with a height of four the    *)
(* sites a glider leaves behind are beside it again.                       *)
(***************************************************************************)
EXTENDS LifeExample

Glider == {<<1, 0>>, <<2, 1>>, <<0, 2>>, <<1, 2>>, <<2, 2>>}
Triples == {p \in SUBSET ((0 .. 2) \X (0 .. 2)) : Cardinality(p) = 3}
MCSeeds == Triples \cup {Glider}
=============================================================================
