-------------------------- MODULE WireGuardPeersProofs --------------------------
(***************************************************************************)
(* Theorems about WireGuardPeers for every set of names and requests,      *)
(* every number of provisioned peers and every bound.                      *)
(*                                                                         *)
(* The argument: the lock makes the requests that suspend mutually         *)
(* exclusive (LockDiscipline), so the addresses a create has read from the *)
(* conf files are still all of them when it chooses (SeenStillAll); every  *)
(* block of wg0.conf is vouched for by a conf file of its own name with an *)
(* address at least as high, or is served, which a provisioned peer is and *)
(* wg show tells (Vouched); so the highest address read, plus one, is      *)
(* above every block's.                                                    *)
(***************************************************************************)
EXTENDS WireGuardPeers, MaxTheorems, TLAPS

(* The address NextIp chooses is above every address seen, and at most one above the bound. *)
LEMMA NextIpIsFresh ==
  ASSUME NEW S, NEW b \in Nat \ {0}, S \subseteq 0..b
  PROVE  /\ NextIp(S) \in 2..(b + 1)
         /\ \A i \in S : i < NextIp(S)
<1> DEFINE U == S \cup {1}
<1>1. U \subseteq 0..b /\ U # {}
  OBVIOUS
<1>2. Max(U) \in U /\ \A y \in U : Max(U) >= y
  BY <1>1, MaxIsGreatest
<1>3. Max(U) \in 0..b /\ Max(U) >= 1
  BY <1>1, <1>2
<1> QED BY <1>1, <1>2, <1>3 DEF NextIp
-----------------------------------------------------------------------------
(* A request that suspends holds the lock, and the key bound it was let in under holds. *)
LockDiscipline ==
  \A t \in Tasks : /\ ~AtRest(t) => lock = t
                   /\ task[t].pc = "allocate" => nextKey <= MaxKey

(* Keys in use have been issued, and addresses never outrun the keys. *)
Issued(S) == \A p \in S : p.key < nextKey /\ p.ip <= nextKey
Bounded ==
  /\ Issued(confs) /\ Issued(blocks) /\ Issued(live)
  /\ \A t \in Tasks : task[t].pc = "allocate" => \A i \in task[t].ips : i <= nextKey

TypeInv == TypeOK /\ LockDiscipline /\ Bounded

(* What wg syncconf leaves on the interface are claims of the file's blocks. *)
LEMMA SyncedClaims ==
  ASSUME NEW B \in SUBSET Peer
  PROVE  /\ Synced(B) \subseteq [key : Nat, ip : Nat]
         /\ \A s \in Synced(B) : \E b \in B : s.key = b.key /\ s.ip = b.ip
BY DEF Synced, Claim, Peer

LEMMA TypeInvInit == Init => TypeInv
<1> SUFFICES ASSUME Init PROVE TypeInv
  OBVIOUS
<1>1. Len(Provisioned) \in Nat /\ DOMAIN Provisioned = 1..Len(Provisioned)
  BY NamesAssumption
<1>2. \A b \in blocks : b \in Peer /\ b.key < nextKey /\ b.ip <= nextKey
  BY <1>1, NamesAssumption DEF Init, Peer
<1>3. live \subseteq [key : Nat, ip : Nat] /\ Issued(live)
  BY <1>2, SyncedClaims DEF Init, Issued
<1>4. routes \subseteq Nat
  BY <1>2 DEF Init, IpsOf, Peer
<1>5. TypeOK
  BY <1>1, <1>2, <1>3, <1>4, BoundsAssumption
     DEF Init, TypeOK, TaskState, Rest, Resting
<1>6. LockDiscipline
  BY DEF Init, LockDiscipline, AtRest, Rest, Resting
<1>7. Bounded
  BY <1>2, <1>3 DEF Init, Bounded, Issued, Rest
<1> QED BY <1>5, <1>6, <1>7 DEF TypeInv

(* A task suspended in a create works on a peer; one in a delete on addresses. *)
LEMMA SuspendedTypes ==
  ASSUME TypeOK, NEW t \in Tasks
  PROVE  /\ task[t].pc \in Creating => task[t].peer \in Peer /\ task[t].ips \in SUBSET Nat
         /\ task[t].pc \in Deleting => task[t].ips \in SUBSET Nat
         /\ task[t].pc \in Creating \cup Deleting => ~AtRest(t)
BY DEF TypeOK, TaskState, Creating, Deleting, Resting, AtRest

(* Answering a request keeps the tasks typed and the lock discipline. *)
LEMMA FinishKeeps ==
  ASSUME TypeOK, LockDiscipline, NEW t \in Tasks, NEW a \in Resting, Finish(t, a),
         AtRest(t) => lock = NoTask, ~AtRest(t) => lock = t
  PROVE  /\ task' \in [Tasks -> TaskState]
         /\ lock' = NoTask
         /\ \A u \in Tasks : task'[u].pc \in Resting
<1>1. task' \in [Tasks -> TaskState]
  BY DEF Finish, TypeOK, TaskState, Rest
<1>2. \A u \in Tasks : u # t => AtRest(u)
  BY TasksAssumption DEF LockDiscipline
<1>3. \A u \in Tasks : task'[u].pc \in Resting
  BY <1>2 DEF Finish, Rest, AtRest, TypeOK
<1> QED BY <1>1, <1>3 DEF Finish

LEMMA TypeInvStep == TypeInv /\ [Next]_vars => TypeInv'
<1> SUFFICES ASSUME TypeInv, [Next]_vars PROVE TypeInv'
  OBVIOUS
<1> USE DEF TypeInv
<1>0. nextKey \in Nat /\ nextKey >= 1
  BY BoundsAssumption DEF TypeOK
<1>1. ASSUME NEW t \in Tasks, NEW n \in Names, Create(t, n) PROVE TypeInv'
  <2> USE <1>1 DEF Create
  <2>1. CASE up
    <3>1. IpsOf(confs) \in SUBSET Nat /\ \A i \in IpsOf(confs) : i <= nextKey
      BY DEF IpsOf, TypeOK, Bounded, Issued, Peer
    <3>2. task' \in [Tasks -> TaskState]
      BY <2>1, <3>1 DEF TypeOK, TaskState, Creating, Peer
    <3>3. \A u \in Tasks : AtRest(u)
      BY TasksAssumption DEF LockFree, LockDiscipline
    <3>4. LockDiscipline'
      BY <2>1, <3>3 DEF LockDiscipline, AtRest, Resting, TypeOK
    <3>5. Bounded'
      BY <2>1, <3>1, <3>3 DEF Bounded, Issued, AtRest, Resting, TypeOK
    <3> QED BY <2>1, <3>2, <3>4, <3>5 DEF TypeOK
  <2>2. CASE ~up
    <3>1. Finish(t, "error") /\ "error" \in Resting
      BY <2>2 DEF Resting
    <3>2. AtRest(t) /\ lock = NoTask
      BY DEF LockFree
    <3>3. task' \in [Tasks -> TaskState] /\ lock' = NoTask
            /\ \A u \in Tasks : task'[u].pc \in Resting
      BY <3>1, <3>2, FinishKeeps
    <3> QED BY <3>3 DEF TypeOK, LockDiscipline, AtRest, Bounded, Issued, Resting
  <2> QED BY <2>1, <2>2
<1>2. ASSUME NEW t \in Tasks, Allocate(t) PROVE TypeInv'
  <2> USE DEF Allocate
  <2>1. task[t].pc = "allocate" /\ task[t].peer \in Peer /\ task[t].ips \in SUBSET Nat
        /\ lock = t /\ nextKey <= MaxKey /\ \A i \in task[t].ips : i <= nextKey
    BY <1>2, SuspendedTypes DEF LockDiscipline, Creating, Bounded
  <2>2. PICK shown \in Shown :
          LET p == [name |-> task[t].peer.name, key |-> nextKey,
                    ip |-> NextIp(task[t].ips \cup shown)]
          IN /\ confs' = WriteConf(p)
             /\ blocks' = blocks \cup {p}
             /\ task' = [task EXCEPT ![t] = [pc |-> "publish", peer |-> p, ips |-> {}]]
    BY <1>2
  <2> DEFINE p == [name |-> task[t].peer.name, key |-> nextKey,
                   ip |-> NextIp(task[t].ips \cup shown)]
  <2>3. shown \subseteq 0..nextKey
    BY <1>0 DEF Shown, IpsOf, TypeOK, Bounded, Issued
  <2>4. p.ip \in 2..(nextKey + 1)
    <3>1. task[t].ips \cup shown \subseteq 0..nextKey
      <4> HIDE DEF p
      <4>1. task[t].ips \subseteq 0..nextKey
        BY <1>0, <2>1
      <4> QED BY <2>3, <4>1
    <3>2. NextIp(task[t].ips \cup shown) \in 2..(nextKey + 1)
      BY <1>0, <3>1, NextIpIsFresh
    <3> QED BY <3>2
  <2>5. p \in Peer /\ p.key = nextKey
    BY <1>0, <2>1, <2>4 DEF Peer
  <2>6. /\ confs' = WriteConf(p)
        /\ blocks' = blocks \cup {p}
        /\ task' = [task EXCEPT ![t] = [pc |-> "publish", peer |-> p, ips |-> {}]]
        /\ nextKey' = nextKey + 1
        /\ UNCHANGED <<live, routes, up, lock>>
    BY <1>2, <2>2
  <2> HIDE DEF p
  <2>7. TypeOK'
    <3>1. task' \in [Tasks -> TaskState]
      BY <2>5, <2>6 DEF TypeOK, TaskState, Creating
    <3>2. confs' \subseteq Peer /\ blocks' \subseteq Peer
      BY <2>5, <2>6 DEF TypeOK, WriteConf
    <3>3. nextKey' \in 1..(MaxKey + 1)
      BY <1>0, <2>1, <2>6, BoundsAssumption
    <3> QED BY <2>6, <3>1, <3>2, <3>3 DEF TypeOK
  <2>8. LockDiscipline'
    BY <2>1, <2>6, TasksAssumption DEF LockDiscipline, AtRest, Resting, TypeOK
  <2>9. Bounded'
    <3>1. Issued(confs)'
      BY <1>0, <2>4, <2>5, <2>6 DEF Bounded, Issued, WriteConf, TypeOK, Peer
    <3>2. Issued(blocks)'
      BY <1>0, <2>4, <2>5, <2>6 DEF Bounded, Issued, TypeOK, Peer
    <3>3. Issued(live)'
      BY <1>0, <2>6 DEF Bounded, Issued, TypeOK
    <3>4. \A u \in Tasks : task'[u].pc # "allocate"
      BY <2>1, <2>6, TasksAssumption DEF LockDiscipline, AtRest, Resting, TypeOK
    <3> QED BY <3>1, <3>2, <3>3, <3>4 DEF Bounded
  <2> QED BY <2>7, <2>8, <2>9
<1>3. ASSUME NEW t \in Tasks, NEW next \in {"route", "unroute"},
             task[t].pc = IF next = "route" THEN "publish" ELSE "unpublish",
             \/ SyncOk /\ SyncLive(t, next)
             \/ SyncFails(t),
             UNCHANGED <<confs, blocks, routes, up, nextKey>>
      PROVE  TypeInv'
  <2>1. ~AtRest(t) /\ lock = t
    BY <1>3 DEF LockDiscipline, AtRest, Resting
  <2>2. CASE SyncLive(t, next)
    <3>1. live' \subseteq [key : Nat, ip : Nat] /\ Issued(live)'
      BY <1>3, <2>2, SyncedClaims DEF SyncLive, Issued, Bounded, TypeOK
    <3>2. task' \in [Tasks -> TaskState]
      BY <1>3, <2>2 DEF SyncLive, TypeOK, TaskState, Creating, Deleting, Resting
    <3>3. LockDiscipline'
      BY <1>3, <2>1, <2>2 DEF SyncLive, LockDiscipline, AtRest, Resting, TypeOK
    <3>4. Bounded'
      BY <1>3, <2>2, <3>1 DEF SyncLive, Bounded, Issued, TypeOK
    <3>5. UNCHANGED lock
      BY <2>2 DEF SyncLive
    <3> QED BY <1>3, <3>1, <3>2, <3>3, <3>4, <3>5 DEF TypeOK
  <2>3. CASE SyncFails(t)
    <3>1. Finish(t, "error") /\ "error" \in Resting /\ UNCHANGED live
      BY <2>3 DEF SyncFails, Resting
    <3>2. task' \in [Tasks -> TaskState] /\ lock' = NoTask
            /\ \A u \in Tasks : task'[u].pc \in Resting
      BY <2>1, <3>1, FinishKeeps
    <3> QED BY <1>3, <3>1, <3>2 DEF TypeOK, LockDiscipline, AtRest, Bounded, Issued, Resting
  <2> QED BY <1>3, <2>2, <2>3
<1>4. ASSUME NEW t \in Tasks, Publish(t) PROVE TypeInv'
  BY <1>3, <1>4 DEF Publish
<1>5. ASSUME NEW t \in Tasks, Unpublish(t) PROVE TypeInv'
  BY <1>3, <1>5 DEF Unpublish
<1>6. ASSUME NEW t \in Tasks, NEW a \in Resting, ~AtRest(t), Finish(t, a),
             UNCHANGED <<confs, blocks, live, up, nextKey>>, routes' \subseteq Nat
      PROVE  TypeInv'
  <2>1. lock = t
    BY <1>6 DEF LockDiscipline
  <2>2. task' \in [Tasks -> TaskState] /\ lock' = NoTask
          /\ \A u \in Tasks : task'[u].pc \in Resting
    BY <1>6, <2>1, FinishKeeps
  <2> QED BY <1>6, <2>2 DEF TypeOK, LockDiscipline, AtRest, Bounded, Issued, Resting
<1>7. ASSUME NEW t \in Tasks, AddRoute(t) PROVE TypeInv'
  <2>1. task[t].pc = "route" /\ task[t].peer \in Peer /\ ~AtRest(t) /\ lock = t
    BY <1>7, SuspendedTypes DEF AddRoute, Creating, LockDiscipline
  <2>2. CASE /\ routes' = routes \cup {task[t].peer.ip}
             /\ task' = [task EXCEPT ![t].pc = "verify"]
             /\ UNCHANGED lock
    <3>1. routes' \subseteq Nat
      BY <2>1, <2>2 DEF TypeOK, Peer
    <3>2. task' \in [Tasks -> TaskState]
      BY <2>1, <2>2 DEF TypeOK, TaskState, Creating, Deleting, Resting
    <3>3. LockDiscipline'
      BY <2>1, <2>2 DEF LockDiscipline, AtRest, Resting, TypeOK
    <3>4. Bounded'
      BY <1>7, <2>1, <2>2 DEF AddRoute, Bounded, Issued, TypeOK
    <3> QED BY <1>7, <2>2, <3>1, <3>2, <3>3, <3>4 DEF AddRoute, TypeOK
  <2>3. CASE Finish(t, "error") /\ UNCHANGED routes
    BY <1>6, <1>7, <2>1, <2>3 DEF AddRoute, Resting, TypeOK
  <2> QED BY <1>7, <2>2, <2>3 DEF AddRoute
<1>8. ASSUME NEW t \in Tasks, Verify(t) PROVE TypeInv'
  <2>1. ~AtRest(t) /\ UNCHANGED <<confs, blocks, live, up, nextKey>> /\ routes' \subseteq Nat
    BY <1>8 DEF Verify, AtRest, Resting, TypeOK
  <2>2. PICK a \in Resting : Finish(t, a)
    BY <1>8 DEF Verify, Resting
  <2> QED BY <1>6, <2>1, <2>2
<1>9. ASSUME NEW t \in Tasks, NEW n \in Names, Delete(t, n) PROVE TypeInv'
  <2>1. IpsOf(Tagged(blocks, n)) \in SUBSET Nat
    BY DEF IpsOf, Tagged, TypeOK, Peer
  <2>2. task' \in [Tasks -> TaskState]
    BY <1>9, <2>1 DEF Delete, TypeOK, TaskState, Deleting
  <2>3. \A u \in Tasks : AtRest(u)
    BY <1>9, TasksAssumption DEF Delete, LockFree, LockDiscipline
  <2>4. LockDiscipline'
    BY <1>9, <2>3 DEF Delete, LockDiscipline, AtRest, Resting, TypeOK
  <2>5. Bounded'
    BY <1>9, <2>3 DEF Delete, Bounded, Issued, AtRest, Resting, TypeOK
  <2> QED BY <1>9, <2>2, <2>4, <2>5 DEF Delete, TypeOK
<1>10. ASSUME NEW t \in Tasks, DelRoutes(t) PROVE TypeInv'
  <2>1. ~AtRest(t) /\ Finish(t, "ok") /\ "ok" \in Resting
        /\ UNCHANGED <<confs, blocks, live, up, nextKey>> /\ routes' \subseteq Nat
    BY <1>10 DEF DelRoutes, AtRest, Resting, TypeOK
  <2> QED BY <1>6, <2>1
<1>11. ASSUME NEW t \in Tasks, NEW old \in Names, NEW new \in Names, Rename(t, old, new)
       PROVE  TypeInv'
  <2>1. \E a \in Resting : Finish(t, a)
    BY <1>11 DEF Rename, Resting
  <2>2. AtRest(t) /\ lock = NoTask /\ UNCHANGED <<live, routes, up, nextKey>>
    BY <1>11 DEF Rename, LockFree
  <2>3. task' \in [Tasks -> TaskState] /\ lock' = NoTask
          /\ \A u \in Tasks : task'[u].pc \in Resting
    BY <2>1, <2>2, FinishKeeps
  <2>4. \A S \in SUBSET Peer : Retag(S, old, new) \subseteq Peer
          /\ (Issued(S) => Issued(Retag(S, old, new)))
    BY DEF Retag, Peer, Issued
  <2>5. confs' \subseteq Peer /\ blocks' \subseteq Peer /\ Issued(confs)' /\ Issued(blocks)'
    <3>1. CASE CanRename(old, new)
      BY <1>11, <2>2, <2>4, <3>1 DEF Rename, TypeOK, Bounded, Issued
    <3>2. CASE ~CanRename(old, new)
      BY <1>11, <2>2, <3>2 DEF Rename, TypeOK, Bounded, Issued
    <3> QED BY <3>1, <3>2
  <2> QED BY <2>2, <2>3, <2>5 DEF TypeOK, LockDiscipline, AtRest, Bounded, Issued, Resting
<1>12. ASSUME NEW t \in Tasks, RemoveAll(t) PROVE TypeInv'
  <2> USE <1>12 DEF RemoveAll
  <2>1. task' \in [Tasks -> TaskState]
    BY DEF TypeOK, TaskState, Rest, Resting
  <2>2. LockDiscipline'
    BY DEF LockDiscipline, AtRest, Rest, Resting, TypeOK
  <2>3. Bounded'
    BY DEF Bounded, Issued, Rest, TypeOK
  <2> QED BY <2>1, <2>2, <2>3 DEF TypeOK
<1>13. ASSUME DropRequests, UNCHANGED <<confs, blocks, nextKey>>, up' \in BOOLEAN,
              live' \subseteq [key : Nat, ip : Nat], Issued(live)', routes' \subseteq Nat
       PROVE  TypeInv'
  <2>1. task' \in [Tasks -> TaskState]
    BY <1>13 DEF DropRequests, TaskState, Rest, Resting
  <2>2. LockDiscipline' /\ Bounded'
    BY <1>13 DEF DropRequests, LockDiscipline, AtRest, Rest, Resting, Bounded, Issued
  <2> QED BY <1>13, <2>1, <2>2 DEF TypeOK, DropRequests
<1>14. CASE ApiRestart
  BY <1>13, <1>14 DEF ApiRestart, TypeOK, Bounded, Issued
<1>15. CASE HostRestart
  <2>1. live' \subseteq [key : Nat, ip : Nat] /\ Issued(live)'
    BY <1>15, SyncedClaims DEF HostRestart, Issued, Bounded, TypeOK
  <2>2. routes' \subseteq Nat /\ up' \in BOOLEAN
    BY <1>15, <2>1 DEF HostRestart, IpsOf, Parsable
  <2> QED BY <1>13, <1>15, <2>1, <2>2 DEF HostRestart
<1>16. CASE UNCHANGED vars
  BY <1>16 DEF vars, TypeOK, LockDiscipline, AtRest, Bounded, Issued
<1> QED
  BY <1>1, <1>2, <1>4, <1>5, <1>7, <1>8, <1>9, <1>10, <1>11, <1>12, <1>14, <1>15, <1>16
     DEF Next, Step, Request

LEMMA TypeInvariant == Spec => []TypeInv
BY TypeInvInit, TypeInvStep, PTL DEF Spec

(* Every reachable state is well typed: in particular the lock never has a foreign *)
(* owner, and keys and addresses stay numbers within the bounds.                   *)
THEOREM TypeCorrect == Spec => []TypeOK
BY TypeInvariant, PTL DEF TypeInv
-----------------------------------------------------------------------------
(* While a create is between reading the conf files and choosing an address, nothing *)
(* but a remove-all touches the files: what it read is still all there is.           *)
SeenStillAll ==
  \A t \in Tasks : task[t].pc = "allocate" => up /\ IpsOf(confs) \subseteq task[t].ips

(* A block of wg0.conf has a conf file of its own name with an address at least as high, *)
(* or else the container provisioned peers and the interface serves it.                  *)
Vouched ==
  \A b \in blocks : \/ \E c \in confs : c.name = b.name /\ b.ip <= c.ip
                    \/ Provisioned # <<>> /\ (up => Claim(b) \in live)

AddressInv == SeenStillAll /\ Vouched /\ UniqueAddresses

(* Where the container provisions no peers every block has had a conf file, so the files *)
(* alone tell a create which addresses are taken; otherwise "wg show" has to answer.     *)
AddressesKnown == "show" \notin Faults \/ Provisioned = <<>>

(* Without shared addresses wg syncconf drops nobody. *)
LEMMA SyncedIsAll ==
  ASSUME TypeOK, UniqueAddresses
  PROVE  \A b \in blocks : Claim(b) \in Synced(blocks)
BY DEF Synced, UniqueAddresses, TypeOK, Peer

(* A step that leaves the wait for "wg show", or answers, makes no task wait for it. *)
LEMMA NoneStartsWaiting ==
  ASSUME TypeOK, NEW t \in Tasks, NEW next, next # "allocate",
         \/ task' = [task EXCEPT ![t].pc = next]
         \/ \E a \in Resting : Finish(t, a)
  PROVE  \A u \in Tasks : task'[u].pc = "allocate" => task'[u] = task[u]
<1>1. CASE task' = [task EXCEPT ![t].pc = next]
  BY <1>1 DEF TypeOK, TaskState
<1>2. CASE \E a \in Resting : Finish(t, a)
  BY <1>2 DEF Finish, Rest, Resting, TypeOK
<1> QED BY <1>1, <1>2

LEMMA AddressInvInit == Init => AddressInv
<1> SUFFICES ASSUME Init PROVE AddressInv
  OBVIOUS
<1>1. UniqueAddresses
  BY NamesAssumption DEF Init, UniqueAddresses
<1>2. TypeOK
  BY TypeInvInit DEF TypeInv
<1>3. Vouched
  <2>1. Provisioned = <<>> => blocks = {}
    BY DEF Init
  <2> QED BY <1>1, <1>2, <2>1, SyncedIsAll DEF Vouched, Init
<1>4. SeenStillAll
  BY DEF Init, SeenStillAll, Rest
<1> QED BY <1>1, <1>3, <1>4 DEF AddressInv

LEMMA AddressInvStep ==
  ASSUME AddressesKnown, TypeInv, AddressInv, [Next]_vars
  PROVE  AddressInv'
<1> USE DEF TypeInv, AddressInv
<1>0. nextKey \in Nat /\ nextKey >= 1
  BY BoundsAssumption DEF TypeOK
<1>1. ASSUME NEW t \in Tasks, NEW n \in Names, Create(t, n) PROVE AddressInv'
  <2>1. SeenStillAll'
    BY <1>1 DEF Create, SeenStillAll, Finish, Rest, TypeOK, IpsOf
  <2>2. Vouched' /\ UniqueAddresses'
    BY <1>1 DEF Create, Vouched, UniqueAddresses
  <2> QED BY <2>1, <2>2
<1>2. ASSUME NEW t \in Tasks, Allocate(t) PROVE AddressInv'
  <2>1. task[t].pc = "allocate" /\ task[t].peer \in Peer /\ lock = t
        /\ up /\ IpsOf(confs) \subseteq task[t].ips
        /\ task[t].ips \in SUBSET Nat /\ \A i \in task[t].ips : i <= nextKey
    BY <1>2, SuspendedTypes DEF Allocate, LockDiscipline, Creating, Bounded, SeenStillAll
  <2>2. PICK shown \in Shown :
          LET q == [name |-> task[t].peer.name, key |-> nextKey,
                    ip |-> NextIp(task[t].ips \cup shown)]
          IN /\ confs' = WriteConf(q)
             /\ blocks' = blocks \cup {q}
             /\ task' = [task EXCEPT ![t] = [pc |-> "publish", peer |-> q, ips |-> {}]]
    BY <1>2 DEF Allocate
  <2> DEFINE seen == task[t].ips \cup shown
             p == [name |-> task[t].peer.name, key |-> nextKey, ip |-> NextIp(seen)]
  <2>3. /\ confs' = WriteConf(p)
        /\ blocks' = blocks \cup {p}
        /\ task' = [task EXCEPT ![t] = [pc |-> "publish", peer |-> p, ips |-> {}]]
        /\ UNCHANGED <<live, routes, up, lock>>
    BY <1>2, <2>2 DEF Allocate
  <2>4. seen \subseteq 0..nextKey
    BY <1>0, <2>1 DEF Shown, IpsOf, TypeOK, Bounded, Issued
  <2>5. NextIp(seen) \in Nat /\ \A i \in seen : i < NextIp(seen)
    BY <1>0, <2>4, NextIpIsFresh
  <2>6. p.ip \in Nat /\ p.name \in Names
    BY <2>1, <2>5 DEF Peer
  <2>7. \A c \in confs : c.ip < p.ip
    BY <2>1, <2>5 DEF IpsOf
  <2>8. "show" \notin Faults => \A s \in live : s.ip < p.ip
    BY <2>5 DEF Shown, Failable, IpsOf
  <2> HIDE DEF p, seen
  <2>9. \A b \in blocks : b.ip < p.ip
    <3> SUFFICES ASSUME NEW b \in blocks PROVE b.ip < p.ip
      OBVIOUS
    <3>1. CASE Provisioned # <<>> /\ (up => Claim(b) \in live)
      BY <2>1, <2>8, <3>1 DEF Claim, AddressesKnown
    <3>2. CASE \E c \in confs : c.name = b.name /\ b.ip <= c.ip
      BY <2>6, <2>7, <3>2 DEF TypeOK, Peer
    <3> QED BY <3>1, <3>2 DEF Vouched
  <2>10. UniqueAddresses'
    BY <2>3, <2>6, <2>9 DEF UniqueAddresses, TypeOK, Peer
  <2>11. Vouched'
    <3> SUFFICES ASSUME NEW b \in blocks'
                 PROVE  \/ \E c \in WriteConf(p) : c.name = b.name /\ b.ip <= c.ip
                        \/ Provisioned # <<>> /\ (up => Claim(b) \in live)
      BY <2>3 DEF Vouched
    <3>1. p \in WriteConf(p)
      BY DEF WriteConf
    <3>2. CASE b.name = p.name
      BY <2>3, <2>6, <2>9, <3>1, <3>2 DEF TypeOK, Peer
    <3>3. CASE b.name # p.name
      BY <2>1, <2>3, <3>3 DEF Vouched, WriteConf
    <3> QED BY <3>2, <3>3
  <2>12. SeenStillAll'
    BY <2>1, <2>3, TasksAssumption DEF SeenStillAll, LockDiscipline, AtRest, Resting, TypeOK
  <2> QED BY <2>10, <2>11, <2>12
<1>3. ASSUME NEW t \in Tasks, NEW next \in {"route", "unroute"},
             SyncLive(t, next) \/ SyncFails(t), SyncOk \/ SyncFails(t),
             UNCHANGED <<confs, blocks, routes, up, nextKey>>
      PROVE  AddressInv'
  <2>1. \A u \in Tasks : task'[u].pc = "allocate" => task'[u] = task[u]
    <3>1. next # "allocate" /\ "error" \in Resting
      BY DEF Resting
    <3>2. task' = [task EXCEPT ![t].pc = next] \/ Finish(t, "error")
      BY <1>3 DEF SyncLive, SyncFails
    <3> QED BY <3>1, <3>2, NoneStartsWaiting
  <2>2. SeenStillAll'
    BY <1>3, <2>1 DEF SeenStillAll
  <2>3. UniqueAddresses'
    BY <1>3 DEF UniqueAddresses
  <2>4. Vouched'
    BY <1>3, SyncedIsAll DEF SyncLive, SyncFails, Vouched
  <2> QED BY <2>2, <2>3, <2>4
<1>4. ASSUME NEW t \in Tasks, Publish(t) PROVE AddressInv'
  BY <1>3, <1>4 DEF Publish
<1>5. ASSUME NEW t \in Tasks, Unpublish(t) PROVE AddressInv'
  BY <1>3, <1>5 DEF Unpublish
<1>6. ASSUME NEW t \in Tasks, AddRoute(t) \/ Verify(t) \/ DelRoutes(t) PROVE AddressInv'
  <2>1. UNCHANGED <<confs, blocks, live, up>>
    BY <1>6 DEF AddRoute, Verify, DelRoutes
  <2>2. \A u \in Tasks : task'[u].pc = "allocate" => task'[u] = task[u]
    <3>1. \/ task' = [task EXCEPT ![t].pc = "verify"]
          \/ \E a \in Resting : Finish(t, a)
      BY <1>6 DEF AddRoute, Verify, DelRoutes, Resting
    <3> QED BY <3>1, NoneStartsWaiting
  <2> QED BY <2>1, <2>2 DEF SeenStillAll, Vouched, UniqueAddresses
<1>7. ASSUME NEW t \in Tasks, NEW n \in Names, Delete(t, n) PROVE AddressInv'
  <2>1. SeenStillAll'
    BY <1>7 DEF Delete, SeenStillAll, TypeOK, IpsOf
  <2>2. UniqueAddresses'
    BY <1>7 DEF Delete, UniqueAddresses
  <2>3. \A b \in blocks' : b.name # n
    BY <1>7, NamesAssumption DEF Delete, Tagged
  <2>4. Vouched'
    BY <1>7, <2>3 DEF Delete, Vouched
  <2> QED BY <2>1, <2>2, <2>4
<1>8. ASSUME NEW t \in Tasks, NEW old \in Names, NEW new \in Names, Rename(t, old, new)
      PROVE  AddressInv'
  <2>1. UNCHANGED <<live, up>>
    BY <1>8 DEF Rename
  <2>2. SeenStillAll'
    <3>1. \A u \in Tasks : AtRest(u)
      BY <1>8, TasksAssumption DEF Rename, LockFree, LockDiscipline
    <3> QED BY <1>8, <3>1 DEF Rename, Finish, Rest, SeenStillAll, AtRest, Resting, TypeOK
  <2>3. CASE ~CanRename(old, new)
    BY <1>8, <2>1, <2>2, <2>3 DEF Rename, Vouched, UniqueAddresses
  <2>4. CASE CanRename(old, new)
    <3>1. confs' = Retag(confs, old, new) /\ blocks' = Retag(blocks, old, new)
      BY <1>8, <2>4 DEF Rename
    <3>2. UniqueAddresses'
      BY <3>1 DEF Retag, UniqueAddresses, TypeOK, Peer
    <3>3. Vouched'
      <4> SUFFICES ASSUME NEW d \in blocks'
                   PROVE  \/ \E c \in confs' : c.name = d.name /\ d.ip <= c.ip
                          \/ Provisioned # <<>> /\ (up' => Claim(d) \in live')
        BY DEF Vouched
      <4>1. PICK b \in blocks : d = IF b.name = old THEN [b EXCEPT !.name = new] ELSE b
        BY <3>1 DEF Retag
      <4>2. Claim(d) = Claim(b)
        BY <4>1 DEF Claim, TypeOK, Peer
      <4>3. CASE Provisioned # <<>> /\ (up => Claim(b) \in live)
        BY <2>1, <4>2, <4>3
      <4>4. ASSUME NEW c \in confs, c.name = b.name, b.ip <= c.ip
            PROVE  \E e \in confs' : e.name = d.name /\ d.ip <= e.ip
        <5> DEFINE e == IF c.name = old THEN [c EXCEPT !.name = new] ELSE c
        <5>1. e \in confs'
          BY <3>1 DEF Retag
        <5>2. e.name = d.name /\ d.ip <= e.ip
          BY <4>1, <4>4 DEF TypeOK, Peer
        <5> QED BY <5>1, <5>2
      <4> QED BY <4>3, <4>4 DEF Vouched
    <3> QED BY <2>2, <3>2, <3>3
  <2> QED BY <2>3, <2>4
<1>9. ASSUME NEW t \in Tasks, RemoveAll(t) PROVE AddressInv'
  BY <1>9 DEF RemoveAll, SeenStillAll, Vouched, UniqueAddresses, Rest, IpsOf, TypeOK
<1>10. CASE ApiRestart
  BY <1>10 DEF ApiRestart, DropRequests, Rest, SeenStillAll, Vouched, UniqueAddresses
<1>11. CASE HostRestart
  <2>1. SeenStillAll'
    BY <1>11 DEF HostRestart, DropRequests, Rest, SeenStillAll
  <2>2. UniqueAddresses'
    BY <1>11 DEF HostRestart, UniqueAddresses
  <2>3. Vouched'
    BY <1>11, SyncedIsAll DEF HostRestart, Vouched
  <2> QED BY <2>1, <2>2, <2>3
<1>12. CASE UNCHANGED vars
  BY <1>12 DEF vars, SeenStillAll, Vouched, UniqueAddresses
<1> QED
  BY <1>1, <1>2, <1>4, <1>5, <1>6, <1>7, <1>8, <1>9, <1>10, <1>11, <1>12
     DEF Next, Step, Request

LEMMA AddressInvariant ==
  ASSUME AddressesKnown
  PROVE  Spec => []AddressInv
BY TypeInvariant, AddressInvInit, AddressInvStep, PTL DEF Spec

(* No two registrations ever share an address, for every number of names, requests,    *)
(* restarts and remove-alls, and whatever command fails: on a box without provisioned  *)
(* peers "wg show" too, on another one as long as it answers when an address is chosen. *)
THEOREM AddressesUnique ==
  ASSUME "show" \notin Faults \/ Provisioned = <<>>
  PROVE  Spec => []UniqueAddresses
<1>1. AddressesKnown
  BY DEF AddressesKnown
<1> QED BY <1>1, AddressInvariant, PTL DEF AddressInv
-----------------------------------------------------------------------------
(* A peer that is registered anew gets an address nobody is served at, and whatever the *)
(* interface takes over from the file is a claim of the file.                           *)
LEMMA ServedToOwnerStep ==
  ASSUME "show" \notin Faults, TypeInv, AddressInv, ServedToOwner, [Next]_vars
  PROVE  ServedToOwner'
<1>0. TypeOK /\ UniqueAddresses /\ nextKey \in Nat
  BY BoundsAssumption DEF TypeInv, TypeOK, AddressInv
<1>1. ASSUME live' = Synced(blocks), blocks' = blocks
      PROVE  ServedToOwner'
  <2> SUFFICES ASSUME NEW s \in live', NEW b \in blocks, s.ip = b.ip
               PROVE  s = Claim(b)
    BY <1>1 DEF ServedToOwner
  <2>1. PICK c \in blocks : s = Claim(c)
    BY <1>1 DEF Synced
  <2>2. c.ip = b.ip
    BY <2>1 DEF Claim
  <2> QED BY <1>0, <2>1, <2>2 DEF UniqueAddresses
<1>2. ASSUME live' \subseteq live, blocks' \subseteq blocks
      PROVE  ServedToOwner'
  BY <1>2 DEF ServedToOwner
<1>3. ASSUME NEW t \in Tasks, Allocate(t)
      PROVE  ServedToOwner'
  <2>1. task[t].ips \in SUBSET Nat /\ \A i \in task[t].ips : i <= nextKey
    BY <1>3, SuspendedTypes DEF TypeInv, Allocate, Creating, Bounded
  <2> DEFINE seen == task[t].ips \cup IpsOf(live)
             p == [name |-> task[t].peer.name, key |-> nextKey, ip |-> NextIp(seen)]
  <2>2. blocks' = blocks \cup {p} /\ live' = live
    BY <1>3 DEF Allocate, Shown, Failable
  <2>3. seen \subseteq 0..nextKey
    BY <1>0, <2>1 DEF IpsOf, TypeOK, TypeInv, Bounded, Issued
  <2>4. \A i \in seen : i < NextIp(seen)
    <3>1. nextKey \in Nat \ {0}
      BY <1>0 DEF TypeOK
    <3> QED BY <2>3, <3>1, NextIpIsFresh
  <2>5. \A s \in live : s.ip # p.ip
    <3>1. \A s \in live : s.ip \in seen /\ s.ip \in Nat
      BY <1>0 DEF IpsOf, TypeOK
    <3> QED BY <2>4, <3>1
  <2> HIDE DEF p, seen
  <2> QED BY <2>2, <2>5 DEF ServedToOwner
<1>4. ASSUME NEW t \in Tasks, Publish(t) \/ Unpublish(t)
      PROVE  ServedToOwner'
  <2>1. blocks' = blocks /\ (live' = Synced(blocks) \/ live' = live)
    BY <1>4 DEF Publish, Unpublish, SyncLive, SyncFails
  <2> QED BY <1>1, <1>2, <2>1
<1>5. ASSUME NEW t \in Tasks, NEW old \in Names, NEW new \in Names, Rename(t, old, new)
      PROVE  ServedToOwner'
  <2>1. live' = live /\ (blocks' = blocks \/ blocks' = Retag(blocks, old, new))
    BY <1>5 DEF Rename
  <2>2. \A d \in Retag(blocks, old, new) : \E b \in blocks : Claim(d) = Claim(b) /\ d.ip = b.ip
    BY <1>0 DEF Retag, Claim, TypeOK, Peer
  <2> QED BY <1>2, <2>1, <2>2 DEF ServedToOwner
<1>6. CASE HostRestart
  <2>1. blocks' = blocks /\ (live' = Synced(blocks) \/ live' = {})
    BY <1>6 DEF HostRestart
  <2> QED BY <1>1, <1>2, <2>1
<1> QED
  BY <1>2, <1>3, <1>4, <1>5, <1>6
     DEF Next, Step, Request, Create, AddRoute, Verify, DelRoutes, Delete, RemoveAll, ApiRestart, vars

(* Traffic for a registered address reaches the registered peer or nobody, however many *)
(* deletes fail half-way, remove-alls and restarts there are, as long as "wg show"      *)
(* answers when an address is chosen.                                                   *)
THEOREM AddressesServeTheirOwner ==
  ASSUME "show" \notin Faults
  PROVE  Spec => []ServedToOwner
<1>1. AddressesKnown
  BY DEF AddressesKnown
<1>2. Init => ServedToOwner
  <2> SUFFICES ASSUME Init, NEW s \in live, NEW b \in blocks, s.ip = b.ip
               PROVE  s = Claim(b)
    BY DEF ServedToOwner
  <2>1. UniqueAddresses
    BY AddressInvInit DEF AddressInv
  <2>2. PICK c \in blocks : s = Claim(c)
    BY DEF Init, Synced
  <2>3. c.ip = b.ip
    BY <2>2 DEF Claim
  <2> QED BY <2>1, <2>2, <2>3 DEF UniqueAddresses
<1> QED BY <1>1, <1>2, AddressInvariant, TypeInvariant, ServedToOwnerStep, PTL DEF Spec
-----------------------------------------------------------------------------
(* The files agree at every await when no name is the beginning of another one: the   *)
(* textual match of delete then hits exactly the blocks of the deleted name.          *)
LEMMA FilesAgreeStep ==
  ASSUME \A n \in Names : Extensions[n] = {n}, TypeInv, FilesAgree, [Next]_vars
  PROVE  FilesAgree'
<1> USE DEF FilesAgree
<1>1. ASSUME NEW t \in Tasks, Step(t) PROVE FilesAgree'
  <2>1. CASE Allocate(t)
    BY <2>1 DEF Allocate, WriteConf
  <2>2. CASE Publish(t) \/ AddRoute(t) \/ Verify(t) \/ Unpublish(t) \/ DelRoutes(t)
    BY <2>2 DEF Publish, AddRoute, Verify, Unpublish, DelRoutes
  <2> QED BY <1>1, <2>1, <2>2 DEF Step
<1>2. ASSUME NEW t \in Tasks, NEW n \in Names, Create(t, n) PROVE FilesAgree'
  BY <1>2 DEF Create
<1>3. ASSUME NEW t \in Tasks, NEW n \in Names, Delete(t, n) PROVE FilesAgree'
  BY <1>3 DEF Delete, Tagged
<1>4. ASSUME NEW t \in Tasks, NEW old \in Names, NEW new \in Names, Rename(t, old, new)
      PROVE  FilesAgree'
  BY <1>4 DEF Rename, Retag
<1>5. ASSUME NEW t \in Tasks, RemoveAll(t) PROVE FilesAgree'
  BY <1>5 DEF RemoveAll
<1>6. CASE ApiRestart \/ HostRestart \/ UNCHANGED vars
  BY <1>6 DEF ApiRestart, HostRestart, vars
<1> QED BY <1>1, <1>2, <1>3, <1>4, <1>5, <1>6 DEF Next, Request

(* Every conf file is registered in wg0.conf, provided no peer name is a prefix of *)
(* another (the run peers_prefix shows that the proviso cannot be dropped).        *)
THEOREM FilesAlwaysAgree ==
  ASSUME \A n \in Names : Extensions[n] = {n}
  PROVE  Spec => []FilesAgree
<1>1. Init => FilesAgree
  BY DEF Init, FilesAgree
<1> QED BY <1>1, TypeInvariant, FilesAgreeStep, PTL DEF Spec
-----------------------------------------------------------------------------
(* The step the registry takes for each step of the manager. *)
LEMMA StepRefines ==
  ASSUME \A n \in Names : Extensions[n] = {n}, "show" \notin Faults,
         TypeInv, AddressInv, [Next]_vars
  PROVE  [Registry!Next]_(Registry!vars)
<1> USE DEF TypeInv, AddressInv
<1> SUFFICES Registry!Next \/ UNCHANGED <<blocks, live, nextKey>>
  BY DEF Registry!vars
<1>0. nextKey \in Nat /\ nextKey >= 1 /\ MaxKey \in Nat
  BY BoundsAssumption DEF TypeOK
<1>1. Synced(blocks) = Registry!Claims(blocks)
  <2>1. \A b \in blocks : Claim(b) \in Synced(blocks) /\ Claim(b) = Registry!Claim(b)
    BY SyncedIsAll DEF Claim, Registry!Claim
  <2>2. \A s \in Synced(blocks) : \E b \in blocks : s = Registry!Claim(b)
    BY DEF Synced, Claim, Registry!Claim
  <2> QED BY <2>1, <2>2 DEF Registry!Claims
<1>2. ASSUME NEW t \in Tasks, Allocate(t)
      PROVE  \E n \in Names : Registry!Register(n)
  <2> DEFINE seen == task[t].ips \cup IpsOf(live)
             p == [name |-> task[t].peer.name, key |-> nextKey, ip |-> NextIp(seen)]
  <2>1. task[t].pc = "allocate" /\ task[t].peer \in Peer /\ up
        /\ IpsOf(confs) \subseteq task[t].ips /\ nextKey <= MaxKey
        /\ task[t].ips \in SUBSET Nat /\ \A i \in task[t].ips : i <= nextKey
    BY <1>2, SuspendedTypes DEF Allocate, LockDiscipline, Creating, Bounded, SeenStillAll
  <2>2. Shown = {IpsOf(live)}
    BY DEF Shown, Failable
  <2>3. blocks' = blocks \cup {p} /\ nextKey' = nextKey + 1 /\ live' = live
    BY <1>2, <2>2 DEF Allocate
  <2>4. seen \subseteq 0..nextKey
    BY <1>0, <2>1 DEF IpsOf, TypeOK, Bounded, Issued
  <2>5. NextIp(seen) \in 2..(nextKey + 1) /\ \A i \in seen : i < NextIp(seen)
    BY <1>0, <2>4, NextIpIsFresh
  <2>6. NextIp(seen) \in 2..(MaxKey + 1)
    BY <1>0, <2>1, <2>5
  <2>7. \A c \in confs : c.ip < NextIp(seen)
    BY <2>1, <2>5 DEF IpsOf
  <2>8. \A s \in live : s.ip < NextIp(seen)
    BY <2>5 DEF IpsOf
  <2> HIDE DEF seen
  <2>9. \A b \in blocks : b.ip < NextIp(seen)
    <3> SUFFICES ASSUME NEW b \in blocks PROVE b.ip < NextIp(seen)
      OBVIOUS
    <3>1. CASE up => Claim(b) \in live
      BY <2>1, <2>8, <3>1 DEF Claim
    <3>2. CASE \E c \in confs : c.name = b.name /\ b.ip <= c.ip
      BY <2>6, <2>7, <3>2 DEF TypeOK, Peer
    <3> QED BY <2>1, <3>1, <3>2 DEF Vouched
  <2>10. NextIp(seen) \notin Registry!TakenAddresses
    BY <2>6, <2>8, <2>9 DEF Registry!TakenAddresses, TypeOK, Peer
  <2>11. task[t].peer.name \in Names
    BY <2>1 DEF Peer
  <2>12. Registry!Register(task[t].peer.name)
    BY <2>3, <2>6, <2>10 DEF Registry!Register
  <2> QED BY <2>11, <2>12
<1>3. ASSUME NEW t \in Tasks, Publish(t) \/ Unpublish(t)
      PROVE  Registry!Publish \/ UNCHANGED <<blocks, live, nextKey>>
  BY <1>1, <1>3 DEF Publish, Unpublish, SyncLive, SyncFails, Registry!Publish
<1>4. ASSUME NEW t \in Tasks, AddRoute(t) \/ Verify(t) \/ DelRoutes(t)
      PROVE  UNCHANGED <<blocks, live, nextKey>>
  BY <1>4 DEF AddRoute, Verify, DelRoutes
<1>5. ASSUME NEW t \in Tasks, NEW n \in Names, Create(t, n)
      PROVE  UNCHANGED <<blocks, live, nextKey>>
  BY <1>5 DEF Create
<1>6. ASSUME NEW t \in Tasks, NEW n \in Names, Delete(t, n)
      PROVE  Registry!Unregister(n)
  BY <1>6 DEF Delete, Tagged, Registry!Unregister
<1>7. ASSUME NEW t \in Tasks, NEW old \in Names, NEW new \in Names, Rename(t, old, new)
      PROVE  Registry!Rename(old, new) \/ UNCHANGED <<blocks, live, nextKey>>
  BY <1>7 DEF Rename, Retag, Registry!Rename
<1>8. ASSUME NEW t \in Tasks, RemoveAll(t) PROVE Registry!Clear
  BY <1>8 DEF RemoveAll, Registry!Clear
<1>9. ASSUME HostRestart PROVE Registry!Publish \/ Registry!TunnelDown
  BY <1>1, <1>9 DEF HostRestart, Registry!Publish, Registry!TunnelDown
<1>10. ASSUME ApiRestart \/ UNCHANGED vars PROVE UNCHANGED <<blocks, live, nextKey>>
  BY <1>10 DEF ApiRestart, vars
<1> QED
  BY <1>2, <1>3, <1>4, <1>5, <1>6, <1>7, <1>8, <1>9, <1>10
     DEF Next, Step, Request, Registry!Next

LEMMA InitRefines == Init => Registry!Init
<1> SUFFICES ASSUME Init PROVE Registry!Init
  OBVIOUS
<1>1. Len(Provisioned) \in Nat /\ DOMAIN Provisioned = 1..Len(Provisioned)
      /\ MaxKey \in Nat /\ Len(Provisioned) <= MaxKey
  BY NamesAssumption, BoundsAssumption
<1>2. blocks \subseteq Registry!Peer
  BY <1>1, NamesAssumption DEF Init, Registry!Peer
<1>3. \A p, q \in blocks : p.ip = q.ip \/ p.key = q.key => p = q
  BY <1>1 DEF Init
<1>4. \A p \in blocks : p.key < nextKey
  BY <1>1 DEF Init
<1>5. live = Registry!Claims(blocks)
  <2>1. TypeOK /\ UniqueAddresses
    BY TypeInvInit, AddressInvInit DEF TypeInv, AddressInv
  <2>2. \A b \in blocks : Claim(b) \in Synced(blocks) /\ Claim(b) = Registry!Claim(b)
    BY <2>1, SyncedIsAll DEF Claim, Registry!Claim
  <2>3. \A s \in Synced(blocks) : \E b \in blocks : s = Registry!Claim(b)
    BY DEF Synced, Claim, Registry!Claim
  <2>4. live = Synced(blocks)
    BY DEF Init
  <2> QED BY <2>2, <2>3, <2>4 DEF Registry!Claims
<1>6. nextKey \in Nat
  BY <1>1 DEF Init
<1> QED BY <1>2, <1>3, <1>4, <1>5, <1>6 DEF Registry!Init

(* The manager implements the registry: seen through wg0.conf and the interface, its *)
(* many-step creates and deletes are atomic registrations of fresh addresses followed *)
(* by publications, under the two provisos of the theorems above.                     *)
THEOREM ImplementsRegistry ==
  ASSUME \A n \in Names : Extensions[n] = {n}, "show" \notin Faults
  PROVE  Spec => RefinesRegistry
<1>1. Spec => [](TypeInv /\ AddressInv)
  <2>1. AddressesKnown
    BY DEF AddressesKnown
  <2> QED BY <2>1, TypeInvariant, AddressInvariant, PTL
<1>2. Spec => [][Registry!Next]_(Registry!vars)
  BY <1>1, StepRefines, PTL DEF Spec
<1>3. Spec => Registry!Init
  BY InitRefines DEF Spec
<1> QED BY <1>2, <1>3, PTL DEF RefinesRegistry, Registry!Spec
-----------------------------------------------------------------------------
(* What the lock gives its holder: until its own next step only a remove-all, which takes *)
(* all files and blocks at once, or a restart, which ends the request, gets in between.   *)
LEMMA HolderUndisturbed ==
  ASSUME TypeInv, NEW t \in Tasks, ~AtRest(t), [Next]_vars, ~Step(t), ~AtRest(t)'
  PROVE  /\ task'[t] = task[t]
         /\ UNCHANGED <<live, routes>>
         /\ \/ UNCHANGED <<confs, blocks>>
            \/ confs' = {} /\ blocks' = {}
<1> DEFINE Kept == /\ task'[t] = task[t]
                   /\ UNCHANGED <<live, routes>>
                   /\ \/ UNCHANGED <<confs, blocks>>
                      \/ confs' = {} /\ blocks' = {}
<1>1. lock = t /\ lock # NoTask /\ task \in [Tasks -> TaskState]
  BY TasksAssumption DEF TypeInv, LockDiscipline, TypeOK
<1>2. \A u \in Tasks : u # t => AtRest(u)
  BY <1>1 DEF TypeInv, LockDiscipline
<1>3. ASSUME NEW u \in Tasks, Step(u) PROVE FALSE
  <2>1. AtRest(u)
    BY <1>2, <1>3
  <2> QED BY <1>3, <2>1 DEF Step, Allocate, Publish, AddRoute, Verify, Unpublish, DelRoutes,
                            AtRest, Resting
<1>4. ASSUME NEW u \in Tasks, Request(u) PROVE Kept
  <2>1. RemoveAll(u)
    BY <1>1, <1>4 DEF Request, Create, Delete, Rename, LockFree
  <2>2. u # t
    BY <2>1 DEF RemoveAll
  <2> QED BY <1>1, <2>1, <2>2 DEF RemoveAll
<1>5. ASSUME DropRequests PROVE FALSE
  BY <1>5 DEF DropRequests, AtRest, Rest, Resting
<1>6. CASE UNCHANGED vars
  BY <1>6 DEF vars
<1> QED BY <1>3, <1>4, <1>5, <1>6 DEF Next, ApiRestart, HostRestart

(* How a task at rest gets to work. *)
LEMMA RequestBegins ==
  ASSUME TypeInv, NEW t \in Tasks, AtRest(t), [Next]_vars
  PROVE  \/ task'[t].pc \in Resting \cup {"allocate"}
         \/ \E n \in Names : Delete(t, n)
<1> DEFINE Begun == \/ task'[t].pc \in Resting \cup {"allocate"}
                    \/ \E n \in Names : Delete(t, n)
<1>1. task \in [Tasks -> TaskState] /\ task[t].pc \in Resting
  BY DEF TypeInv, TypeOK, AtRest
<1>2. ASSUME NEW u \in Tasks, Step(u) PROVE Begun
  <2>1. u # t
    BY <1>1, <1>2 DEF Step, Allocate, Publish, AddRoute, Verify, Unpublish, DelRoutes, Resting
  <2>2. task'[t] = task[t]
    BY <1>1, <1>2, <2>1 DEF Step, Allocate, Publish, AddRoute, Verify, Unpublish, DelRoutes,
                            SyncLive, SyncFails, Finish
  <2> QED BY <1>1, <2>2
<1>3. ASSUME NEW u \in Tasks, Request(u) PROVE Begun
  <2>1. CASE u = t /\ \E n \in Names : Delete(u, n)
    BY <2>1
  <2>2. CASE u # t /\ \E n \in Names : Delete(u, n)
    BY <1>1, <2>2 DEF Delete
  <2>3. CASE \E n \in Names : Create(u, n)
    BY <1>1, <2>3 DEF Create, Finish, Rest, Resting
  <2>4. CASE \E old, new \in Names : Rename(u, old, new)
    BY <1>1, <2>4 DEF Rename, Finish, Rest, Resting
  <2>5. CASE RemoveAll(u)
    BY <1>1, <2>5 DEF RemoveAll, Rest, Resting
  <2> QED BY <1>3, <2>1, <2>2, <2>3, <2>4, <2>5 DEF Request
<1>4. CASE ApiRestart \/ HostRestart
  BY <1>4 DEF ApiRestart, HostRestart, DropRequests, Rest, Resting
<1>5. CASE UNCHANGED vars
  BY <1>1, <1>5 DEF vars
<1> QED BY <1>2, <1>3, <1>4, <1>5 DEF Next

(* A request is answered by its own last step. *)
LEMMA AnsweredBy ==
  ASSUME TypeInv, NEW t \in Tasks, [Next]_vars, task'[t].pc = "ok"
  PROVE  /\ task[t].pc = "verify" => Verify(t)
         /\ task[t].pc = "unroute" => DelRoutes(t)
<1> SUFFICES ASSUME task[t].pc \in {"verify", "unroute"}
             PROVE  Verify(t) \/ DelRoutes(t)
  BY DEF Verify, DelRoutes
<1>1. task \in [Tasks -> TaskState] /\ ~AtRest(t)
  BY DEF TypeInv, TypeOK, AtRest, Resting
<1>2. CASE Step(t)
  BY <1>2 DEF Step, Allocate, Publish, AddRoute, Unpublish
<1>3. CASE ~Step(t)
  <2>1. lock = t /\ NoTask # t /\ \A u \in Tasks : u # t => AtRest(u)
    BY <1>1, TasksAssumption DEF TypeInv, LockDiscipline
  <2>2. ASSUME NEW u \in Tasks, Step(u) PROVE FALSE
    <3>1. AtRest(u)
      BY <1>3, <2>1, <2>2
    <3> QED BY <2>2, <3>1 DEF Step, Allocate, Publish, AddRoute, Verify, Unpublish, DelRoutes,
                              AtRest, Resting
  <2>3. ASSUME NEW u \in Tasks, Request(u) PROVE task'[t] = task[t]
    BY <1>1, <2>1, <2>3 DEF Request, Create, Delete, Rename, LockFree, RemoveAll
  <2>4. ~DropRequests
    BY DEF DropRequests, Rest
  <2>5. task'[t] = task[t]
    BY <2>2, <2>3, <2>4 DEF Next, vars, ApiRestart, HostRestart
  <2> QED BY <2>5
<1> QED BY <1>2, <1>3
-----------------------------------------------------------------------------
(* What a create under way has achieved, as long as no remove-all has taken its file: *)
(* the block is written, then read by wg syncconf, then routed.                       *)
CreateInv ==
  \A t \in Tasks : LET p == task[t].peer IN
    /\ task[t].pc \in {"publish", "route", "verify"} /\ p \in confs => p \in blocks
    /\ task[t].pc \in {"route", "verify"} /\ p \in confs => p.ip <= LastOctet
    /\ task[t].pc = "verify" => p.ip \in routes

LEMMA CreateInvStep == TypeInv /\ CreateInv /\ [Next]_vars => CreateInv'
<1> SUFFICES ASSUME TypeInv, CreateInv, [Next]_vars, NEW t \in Tasks,
                    task'[t].pc \in {"publish", "route", "verify"}
             PROVE  LET p == task'[t].peer IN
                      /\ p \in confs' => p \in blocks'
                      /\ task'[t].pc \in {"route", "verify"} /\ p \in confs' => p.ip <= LastOctet
                      /\ task'[t].pc = "verify" => p.ip \in routes'
  BY DEF CreateInv
<1> DEFINE Goal == LET p == task'[t].peer IN
                      /\ p \in confs' => p \in blocks'
                      /\ task'[t].pc \in {"route", "verify"} /\ p \in confs' => p.ip <= LastOctet
                      /\ task'[t].pc = "verify" => p.ip \in routes'
<1>1. task \in [Tasks -> TaskState] /\ ~AtRest(t)'
  BY DEF TypeInv, TypeOK, AtRest, Resting
<1>2. ~AtRest(t)
  <2>1. \A n \in Names : ~Delete(t, n)
    BY <1>1 DEF Delete
  <2> QED BY <2>1, RequestBegins DEF Resting
<1>3. CASE ~Step(t)
  <2>1. task'[t] = task[t] /\ routes' = routes /\ (UNCHANGED <<confs, blocks>> \/ confs' = {})
    BY <1>1, <1>2, <1>3, HolderUndisturbed
  <2> QED BY <2>1 DEF CreateInv
<1>4. CASE Allocate(t)
  <2>1. PICK p : confs' = WriteConf(p) /\ blocks' = blocks \cup {p}
                 /\ task' = [task EXCEPT ![t] = [pc |-> "publish", peer |-> p, ips |-> {}]]
    BY <1>4 DEF Allocate
  <2> QED BY <1>1, <2>1
<1>5. CASE Publish(t)
  <2>1. SyncOk /\ task' = [task EXCEPT ![t].pc = "route"] /\ UNCHANGED <<confs, blocks>>
    BY <1>1, <1>5 DEF Publish, SyncLive, SyncFails, Finish, Rest
  <2>2. task'[t].pc = "route" /\ task'[t].peer = task[t].peer /\ task[t].pc = "publish"
    BY <1>1, <1>5, <2>1 DEF Publish, TaskState
  <2> QED BY <2>1, <2>2 DEF CreateInv, SyncOk, Parsable
<1>6. CASE AddRoute(t)
  <2>1. /\ routes' = routes \cup {task[t].peer.ip}
        /\ task' = [task EXCEPT ![t].pc = "verify"] /\ UNCHANGED <<confs, blocks>>
    BY <1>1, <1>6 DEF AddRoute, Finish, Rest
  <2>2. task'[t].peer = task[t].peer /\ task[t].pc = "route"
    BY <1>1, <1>6, <2>1 DEF AddRoute, TaskState
  <2> QED BY <2>1, <2>2 DEF CreateInv
<1>7. CASE Verify(t) \/ Unpublish(t) \/ DelRoutes(t)
  <2>1. \/ task' = [task EXCEPT ![t].pc = "unroute"]
        \/ task' = [task EXCEPT ![t] = Rest("ok")]
        \/ task' = [task EXCEPT ![t] = Rest("error")]
    BY <1>7 DEF Verify, Unpublish, DelRoutes, SyncLive, SyncFails, Finish
  <2>2. task'[t].pc \in {"unroute", "ok", "error"}
    BY <1>1, <2>1 DEF Rest, TaskState
  <2> QED BY <2>2
<1> QED BY <1>3, <1>4, <1>5, <1>6, <1>7 DEF Step

(* A create that answers ok has produced a working configuration: whatever fails, restarts *)
(* or shares a prefix, and whatever address it was given.                                  *)
THEOREM CreatesUsable == Spec => CreateOkUsable
<1>1. Init => CreateInv
  BY DEF Init, CreateInv, Rest
<1>2. ASSUME TypeInv, CreateInv, Next, NEW t \in Tasks, Answers(t, {"verify"}, "ok"),
             task[t].peer \in confs
      PROVE  LET p == task[t].peer IN
               p \in blocks /\ Claim(p) \in live /\ p.ip \in routes /\ p.ip <= LastOctet
  <2>1. Verify(t) /\ task'[t].pc = "ok"
    BY <1>2, AnsweredBy DEF Answers
  <2>2. Claim(task[t].peer) \in live
    BY <1>2, <2>1 DEF Verify, Finish, Rest, TypeInv, TypeOK
  <2> QED BY <1>2, <2>1, <2>2 DEF CreateInv, Verify
<1>3. TypeInv /\ CreateInv /\ [Next]_vars
        => [\A t \in Tasks : LET p == task[t].peer IN
              Answers(t, {"verify"}, "ok") /\ p \in confs
                => p \in blocks /\ Claim(p) \in live /\ p.ip \in routes /\ p.ip <= LastOctet]_vars
  BY <1>2
<1> QED BY <1>1, <1>3, CreateInvStep, TypeInvariant, PTL DEF Spec, CreateOkUsable
-----------------------------------------------------------------------------
(* What a delete under way has achieved: the addresses it removes are registered for    *)
(* nobody else, and after its wg syncconf the interface serves exactly who is left.     *)
DeleteInv ==
  \A t \in Tasks :
    /\ task[t].pc = "unpublish" => task[t].ips \cap IpsOf(blocks) = {}
    /\ task[t].pc = "unroute" =>
         /\ \A s \in live : s.ip \notin task[t].ips
         /\ \A c \in confs : Claim(c) \in live

LEMMA DeleteInvStep ==
  ASSUME TypeInv, UniqueAddresses, FilesAgree, DeleteInv, [Next]_vars
  PROVE  DeleteInv'
<1> SUFFICES ASSUME NEW t \in Tasks, task'[t].pc \in Deleting
             PROVE  /\ task'[t].pc = "unpublish" => task'[t].ips \cap IpsOf(blocks)' = {}
                    /\ task'[t].pc = "unroute" =>
                         /\ \A s \in live' : s.ip \notin task'[t].ips
                         /\ \A c \in confs' : Claim(c) \in live'
  BY DEF DeleteInv, Deleting
<1>1. task \in [Tasks -> TaskState] /\ ~AtRest(t)'
  BY DEF TypeInv, TypeOK, AtRest, Resting, Deleting
<1>2. ASSUME NEW n \in Names, Delete(t, n)
      PROVE  task'[t].pc = "unpublish" /\ task'[t].ips \cap IpsOf(blocks') = {}
  <2>1. /\ blocks' = blocks \ Tagged(blocks, n)
        /\ task'[t] = [pc |-> "unpublish", peer |-> NoPeer, ips |-> IpsOf(Tagged(blocks, n))]
    BY <1>1, <1>2 DEF Delete
  <2>2. \A b \in blocks', c \in Tagged(blocks, n) : b.ip # c.ip
    BY <2>1 DEF UniqueAddresses, Tagged
  <2> QED BY <2>1, <2>2 DEF IpsOf
<1>3. CASE AtRest(t)
  BY <1>2, <1>3, RequestBegins DEF Resting, Deleting
<1>4. CASE ~AtRest(t) /\ ~Step(t)
  <2>1. /\ task'[t] = task[t] /\ live' = live
        /\ UNCHANGED <<confs, blocks>> \/ (confs' = {} /\ blocks' = {})
    BY <1>1, <1>4, HolderUndisturbed
  <2> QED BY <2>1 DEF DeleteInv, IpsOf
<1>5. CASE Unpublish(t)
  <2>1. SyncLive(t, "unroute") /\ UNCHANGED <<confs, blocks>>
    BY <1>1, <1>5 DEF Unpublish, SyncFails, Finish, Rest, Deleting
  <2>2. live' = Synced(blocks) /\ task'[t].pc = "unroute" /\ task'[t].ips = task[t].ips
    BY <1>1, <2>1 DEF SyncLive, TaskState
  <2>3. task[t].ips \cap IpsOf(blocks) = {}
    BY <1>5 DEF Unpublish, DeleteInv
  <2>4. \A s \in live' : \E b \in blocks : s.ip = b.ip
    BY <2>2 DEF Synced, Claim
  <2>5. \A c \in confs' : Claim(c) \in live'
    BY <2>1, <2>2, SyncedIsAll DEF FilesAgree, TypeInv
  <2> QED BY <2>2, <2>3, <2>4, <2>5 DEF IpsOf
<1>6. CASE Allocate(t) \/ Publish(t) \/ AddRoute(t) \/ Verify(t) \/ DelRoutes(t)
  <2>1. \/ \E p : task' = [task EXCEPT ![t] = [pc |-> "publish", peer |-> p, ips |-> {}]]
        \/ \E next \in {"route", "verify"} : task' = [task EXCEPT ![t].pc = next]
        \/ \E a \in Resting : task' = [task EXCEPT ![t] = Rest(a)]
    BY <1>6 DEF Allocate, Publish, AddRoute, Verify, DelRoutes, SyncLive, SyncFails, Finish,
                Resting
  <2>2. task'[t].pc \notin Deleting
    BY <1>1, <2>1 DEF Rest, Resting, Deleting, TaskState
  <2> QED BY <2>2
<1> QED BY <1>3, <1>4, <1>5, <1>6 DEF Step

(* A delete that answers ok has cut off exactly its own addresses, if addresses are unique *)
(* and no name is a prefix of another (the run peers_prefix shows why the latter).         *)
THEOREM DeletesExact ==
  ASSUME \A n \in Names : Extensions[n] = {n}, "show" \notin Faults \/ Provisioned = <<>>
  PROVE  Spec => DeleteExact
<1>1. Init => DeleteInv
  BY DEF Init, DeleteInv, Rest
<1>2. Spec => [](TypeInv /\ UniqueAddresses /\ FilesAgree)
  BY TypeInvariant, AddressesUnique, FilesAlwaysAgree, PTL
<1>3. TypeInv /\ UniqueAddresses /\ FilesAgree /\ DeleteInv /\ [Next]_vars => DeleteInv'
  BY DeleteInvStep
<1>4. ASSUME TypeInv, DeleteInv, Next, NEW t \in Tasks, Answers(t, {"unroute"}, "ok")
      PROVE  /\ \A s \in live' : s.ip \notin task[t].ips
             /\ \A c \in confs' : Claim(c) \in live'
  <2>1. DelRoutes(t)
    BY <1>4, AnsweredBy DEF Answers
  <2> QED BY <1>4, <2>1 DEF DelRoutes, DeleteInv
<1>5. TypeInv /\ DeleteInv /\ [Next]_vars
        => [\A t \in Tasks : Answers(t, {"unroute"}, "ok") =>
              /\ \A s \in live' : s.ip \notin task[t].ips
              /\ \A c \in confs' : Claim(c) \in live']_vars
  BY <1>4
<1> QED BY <1>1, <1>2, <1>3, <1>5, PTL DEF Spec, DeleteExact
-----------------------------------------------------------------------------
(* The safety half of RequestsFinish: who holds the lock is at work, and work shrinks. *)
LockAtWork == \A t \in Tasks : lock = t => ~AtRest(t)

LEMMA LockAtWorkStep == TypeInv /\ LockAtWork /\ [Next]_vars => LockAtWork'
<1> SUFFICES ASSUME TypeInv, LockAtWork, [Next]_vars, NEW t \in Tasks, lock' = t
             PROVE  task'[t].pc \notin Resting
  BY DEF LockAtWork, AtRest
<1>1. task \in [Tasks -> TaskState] /\ lock' # NoTask
  BY TasksAssumption DEF TypeInv, TypeOK
<1>2. ASSUME NEW u \in Tasks, Step(u) PROVE task'[t].pc \notin Resting
  <2>1. ~AtRest(u)
    BY <1>2 DEF Step, Allocate, Publish, AddRoute, Verify, Unpublish, DelRoutes, AtRest, Resting
  <2>2. lock = u /\ lock' = lock
    BY <1>1, <1>2, <2>1 DEF TypeInv, LockDiscipline, Step, Allocate, Publish, AddRoute, Verify,
                            Unpublish, DelRoutes, SyncLive, SyncFails, Finish
  <2>3. \/ \E p : task' = [task EXCEPT ![t] = [pc |-> "publish", peer |-> p, ips |-> {}]]
        \/ \E next \in {"route", "verify", "unroute"} : task' = [task EXCEPT ![t].pc = next]
    BY <1>1, <1>2, <2>2 DEF Step, Allocate, Publish, AddRoute, Verify, Unpublish, DelRoutes,
                            SyncLive, SyncFails, Finish
  <2> QED BY <1>1, <2>3 DEF Resting, TaskState
<1>3. ASSUME NEW u \in Tasks, Request(u) PROVE task'[t].pc \notin Resting
  <2>1. CASE \E n \in Names : Create(u, n) \/ Delete(u, n)
    <3>1. u = t /\ (task'[u].pc = "allocate" \/ task'[u].pc = "unpublish")
      BY <1>1, <2>1 DEF Create, Delete, Finish
    <3> QED BY <3>1 DEF Resting
  <2>2. CASE \E old, new \in Names : Rename(u, old, new)
    BY <1>1, <2>2 DEF Rename, Finish
  <2>3. CASE RemoveAll(u)
    <3>1. lock = t /\ u # t
      BY <2>3 DEF RemoveAll, LockAtWork
    <3> QED BY <1>1, <2>3, <3>1 DEF RemoveAll, LockAtWork, AtRest
  <2> QED BY <1>3, <2>1, <2>2, <2>3 DEF Request
<1>4. ~DropRequests
  BY <1>1 DEF DropRequests
<1>5. CASE UNCHANGED vars
  BY <1>5 DEF vars, LockAtWork, AtRest
<1> QED BY <1>2, <1>3, <1>4, <1>5 DEF Next, ApiRestart, HostRestart

(* The lock never stays with a request that has been answered: no failing command, *)
(* restart or remove-all makes every later create, rename and delete wait for ever. *)
THEOREM LockNeverLeaks == Spec => []LockAtWork
<1>1. Init => LockAtWork
  BY TasksAssumption DEF Init, LockAtWork
<1> QED BY <1>1, LockAtWorkStep, TypeInvariant, PTL DEF Spec

(* How many steps a request is from its answer at most. *)
StepsLeft(pc) ==
  CASE pc = "allocate" -> 4
    [] pc = "publish" -> 3
    [] pc \in {"route", "unpublish"} -> 2
    [] pc \in {"verify", "unroute"} -> 1
    [] pc \in Resting -> 0

(* A suspended request moves only towards its answer, whatever the others do meanwhile. *)
WorkShrinks ==
  [][\A t \in Tasks : ~AtRest(t) /\ task'[t] # task[t]
       => StepsLeft(task'[t].pc) < StepsLeft(task[t].pc)]_vars

THEOREM WorkAlwaysShrinks == Spec => WorkShrinks
<1>1. ASSUME TypeInv, Next, NEW t \in Tasks, ~AtRest(t), task'[t] # task[t]
      PROVE  StepsLeft(task'[t].pc) < StepsLeft(task[t].pc)
  <2>1. task \in [Tasks -> TaskState]
    BY <1>1 DEF TypeInv, TypeOK
  <2>2. CASE Step(t)
    <3>1. CASE Allocate(t)
      BY <2>1, <3>1 DEF Allocate, StepsLeft, Resting
    <3>2. CASE Publish(t)
      <4>1. task[t].pc = "publish" /\ task'[t].pc \in {"route", "error"}
        BY <2>1, <3>2 DEF Publish, SyncLive, SyncFails, Finish, Rest, TaskState
      <4> QED BY <4>1 DEF StepsLeft, Resting
    <3>3. CASE AddRoute(t)
      <4>1. task[t].pc = "route" /\ task'[t].pc \in {"verify", "error"}
        BY <2>1, <3>3 DEF AddRoute, Finish, Rest, TaskState
      <4> QED BY <4>1 DEF StepsLeft, Resting
    <3>4. CASE Verify(t)
      <4>1. task[t].pc = "verify" /\ task'[t].pc \in {"ok", "error"}
        BY <2>1, <3>4 DEF Verify, Finish, Rest
      <4> QED BY <4>1 DEF StepsLeft, Resting
    <3>5. CASE Unpublish(t)
      <4>1. task[t].pc = "unpublish" /\ task'[t].pc \in {"unroute", "error"}
        BY <2>1, <3>5 DEF Unpublish, SyncLive, SyncFails, Finish, Rest, TaskState
      <4> QED BY <4>1 DEF StepsLeft, Resting
    <3>6. CASE DelRoutes(t)
      <4>1. task[t].pc = "unroute" /\ task'[t].pc = "ok"
        BY <2>1, <3>6 DEF DelRoutes, Finish, Rest
      <4> QED BY <4>1 DEF StepsLeft, Resting
    <3> QED BY <2>2, <3>1, <3>2, <3>3, <3>4, <3>5, <3>6 DEF Step
  <2>3. CASE ~Step(t)
    <3>1. AtRest(t)'
      BY <1>1, <2>3, HolderUndisturbed
    <3>2. task[t].pc \in Creating \cup Deleting /\ task[t].pc \notin Resting
      BY <1>1, <2>1 DEF TaskState, AtRest
    <3>3. StepsLeft(task'[t].pc) = 0
      BY <3>1 DEF StepsLeft, AtRest, Resting
    <3>4. StepsLeft(task[t].pc) \in 1..4
      BY <3>2 DEF StepsLeft, Creating, Deleting, Resting
    <3> QED BY <3>3, <3>4
  <2> QED BY <2>2, <2>3
<1>2. TypeInv /\ [Next]_vars
        => [\A t \in Tasks : ~AtRest(t) /\ task'[t] # task[t]
              => StepsLeft(task'[t].pc) < StepsLeft(task[t].pc)]_vars
  BY <1>1
<1> QED BY <1>2, TypeInvariant, PTL DEF Spec, WorkShrinks
===============================================================================
