---------------------------- MODULE MCCollector ----------------------------
(***************************************************************************)
(* Collector for TLC: collector processes as model values, alike but for   *)
(* their names.                                                            *)
(***************************************************************************)
EXTENDS Collector, TLC

CONSTANTS c1, c2

Symmetry == Permutations(Collectors)
=============================================================================
