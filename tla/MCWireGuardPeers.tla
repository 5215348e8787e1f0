--------------------------- MODULE MCWireGuardPeers ---------------------------
(* Small instances of WireGuardPeers. "abc" and "abcd" are both legal names (3 or 4 *)
(* characters); "peer1" stands for the peers the container provisions.             *)
EXTENDS WireGuardPeers

CONSTANTS t1, t2

MCNames == {"abc", "abcd", "peer1"}
MCProvisioned == <<"peer1">>
NoPrefixPairs == [n \in MCNames |-> {n}]
PrefixPair == [n \in MCNames |-> IF n = "abc" THEN {"abc", "abcd"} ELSE {n}]
===============================================================================
