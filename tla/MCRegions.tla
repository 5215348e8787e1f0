------------------------------ MODULE MCRegions ------------------------------
(* Small instances of Regions. Slugs, instances and requests are interchangeable, *)
(* which the run that checks no liveness makes use of.                            *)
EXTENDS Regions, TLC

CONSTANTS s1, s2, v1, v2, r1, r2

Symmetry == Permutations(Slugs) \cup Permutations(Vms) \cup Permutations(Requests)
==============================================================================
