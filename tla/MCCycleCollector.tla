-------------------------- MODULE MCCycleCollector --------------------------
(* The cycle collector with a few boxes of each kind.                      *)
EXTENDS CycleCollector, TLC

CONSTANTS o1, o2, v1, h1, r1, r2

(* Boxes of a kind are alike, and so are the program's places.             *)
Alike == Permutations(Objs) \cup Permutations(Roots)

=============================================================================
