----------------------------- MODULE MCRegionCalls -----------------------------
(* A small region: two calls at a time, two names, no provisioned peers (PEERS=0 in the *)
(* region's compose file).                                                              *)
EXTENDS RegionCalls

CONSTANTS ann, bob, t1, t2

NoProvisioned == <<>>
Same == [n \in Names |-> {n}]
================================================================================
