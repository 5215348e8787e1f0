------------------------------ MODULE PeerRegistry ------------------------------
(***************************************************************************)
(* What the WireGuard peer manager promises, without locks, files or       *)
(* commands: a durable set of registrations, the part of it the tunnel     *)
(* serves at the moment, and the number of keys handed out so far.         *)
(*                                                                         *)
(*  - a registration gets a key never used before and an address that no   *)
(*    registration holds and that the tunnel serves to nobody;             *)
(*  - unregistering a name drops every registration under that name;       *)
(*  - the tunnel serves the registrations of the moment it was last        *)
(*    published, all of them, or nothing while it is down.                 *)
(***************************************************************************)
EXTENDS Integers

CONSTANTS Names,     \* the names a peer can have
          Addresses  \* the last octets a peer's tunnel address can have

VARIABLES registered, \* set of [name, key, ip]: the durable registrations
          served,     \* set of [key, ip]: what the tunnel forwards for
          nextKey     \* the key the next registration gets

vars == <<registered, served, nextKey>>

Peer == [name : Names, key : Nat, ip : Addresses]
Claim(p) == [key |-> p.key, ip |-> p.ip]
Claims(P) == {Claim(p) : p \in P}

TakenAddresses == {p.ip : p \in registered} \cup {s.ip : s \in served}

(* Keys are numbered in the order they are issued; those below nextKey are used up. *)
Init == /\ registered \in SUBSET Peer
        /\ \A p, q \in registered : p.ip = q.ip \/ p.key = q.key => p = q
        /\ \A p \in registered : p.key < nextKey
        /\ nextKey \in Nat
        /\ served = Claims(registered)

Register(n) ==
  /\ \E i \in Addresses \ TakenAddresses :
       registered' = registered \cup {[name |-> n, key |-> nextKey, ip |-> i]}
  /\ nextKey' = nextKey + 1
  /\ UNCHANGED served

Unregister(n) ==
  /\ registered' = {p \in registered : p.name # n}
  /\ UNCHANGED <<served, nextKey>>

Rename(old, new) ==
  /\ registered' = {IF p.name = old THEN [p EXCEPT !.name = new] ELSE p : p \in registered}
  /\ UNCHANGED <<served, nextKey>>

Clear ==
  /\ registered' = {}
  /\ UNCHANGED <<served, nextKey>>

Publish ==
  /\ served' = Claims(registered)
  /\ UNCHANGED <<registered, nextKey>>

TunnelDown ==
  /\ served' = {}
  /\ UNCHANGED <<registered, nextKey>>

Next ==
  \/ \E n \in Names : Register(n) \/ Unregister(n)
  \/ \E old, new \in Names : Rename(old, new)
  \/ Clear
  \/ Publish
  \/ TunnelDown

Spec == Init /\ [][Next]_vars
=================================================================================
