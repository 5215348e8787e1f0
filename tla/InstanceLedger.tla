---------------------------- MODULE InstanceLedger ----------------------------
(***************************************************************************)
(* What the dashboard promises about the machines it rents from Oracle     *)
(* Cloud, without tables, tasks or requests: at every moment each machine  *)
(* is free, on its way to a region, owned by a region, being given back,   *)
(* given back, or reported to the administrator as impossible to give      *)
(* back. There is no phase for a running machine nobody knows of.          *)
(***************************************************************************)
CONSTANT Vms       \* the machines Oracle can rent out
VARIABLE phase     \* [Vms -> Phases]

Phases == {"free", "rented", "owned", "leaving", "reported", "returned"}

Init == phase = [v \in Vms |-> "free"]

Move(v, from, to) ==
  /\ phase[v] \in from
  /\ phase' = [phase EXCEPT ![v] = to]

Rent(v)    == Move(v, {"free"}, "rented")
Assign(v)  == Move(v, {"rented"}, "owned")
Release(v) == Move(v, {"owned"}, "leaving")
Report(v)  == Move(v, {"leaving"}, "reported")

(* Given back, or taken back by Oracle. *)
Return(v)  == Move(v, {"rented", "owned", "leaving", "reported"}, "returned")

Next == \E v \in Vms : Rent(v) \/ Assign(v) \/ Release(v) \/ Report(v) \/ Return(v)

Spec == Init /\ [][Next]_phase
===============================================================================
