------------------------------- MODULE MCScan -------------------------------
(***************************************************************************)
(* A small instance of Scan: a plane of four words.  The masks make one,   *)
(* two and three dimensions, with rows of four words, two words and one.   *)
(***************************************************************************)
EXTENDS Scan

MCCuts == {{4}, {3, 4}, {2, 4}}
MCKicks == {{1, 3}, {0, 1, 2, 3, 4}}
MCLengths == {3, 5}
MCStarts == {0, 8, 20}
Rule(sds, sdm, las, ecs, dds) == [sds |-> sds, sdm |-> sdm, las |-> las, ecs |-> ecs, dds |-> dds]
MCRules == {
  Rule("tbus", MAP_S, "site", "none", "tbus"),
  Rule("tbus", 6, "tbus", "none", "tbus"),
  Rule("lut", MAP_S, "site", "site", "tbus"),
  Rule("site", MAP_S, "site", "site", "site"),
  Rule("site", MAP_NOTG, "tbus", "none", "tbus")}
One(c) == [b \in Cells |-> b = c]
MCPlanes == {One(9), [c \in Cells |-> c \in {2, 6, 12, 19, 29}]}
MCHost == {0, 3, 9}
MCLut == [t \in 0..1 |-> [b \in BOOLEAN |-> IF t = 0 THEN b ELSE ~b]]
=============================================================================
