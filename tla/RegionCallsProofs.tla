---------------------------- MODULE RegionCallsProofs ----------------------------
(***************************************************************************)
(* Theorems about RegionCalls for every set of names and calls.            *)
(*                                                                         *)
(* The argument: a handler of the agent does to the box what a request of  *)
(* WireGuardPeers does or nothing, so what is proved of WireGuardPeers     *)
(* holds here. What is said of the calls themselves needs to know besides  *)
(* that a delete's name is free while its handler is between its awaits,   *)
(* which the lock sees to.                                                 *)
(***************************************************************************)
EXTENDS RegionCalls, TLAPS

AgentProofs == INSTANCE WireGuardPeersProofs

LEMMA AgentIsAssumed ==
  AgentProofs!NamesAssumption /\ AgentProofs!TasksAssumption /\ AgentProofs!BoundsAssumption
BY AgentAssumption
   DEF Agent!NamesAssumption, Agent!TasksAssumption, Agent!BoundsAssumption,
       AgentProofs!NamesAssumption, AgentProofs!TasksAssumption, AgentProofs!BoundsAssumption

(* The agent the calls drive is the agent WireGuardPeersProofs is about: two instances *)
(* of one module, whose definitions are the same when expanded.                        *)
LEMMA SameNext == [Agent!Next]_(Agent!vars) <=> [AgentProofs!Next]_(AgentProofs!vars)
<1>1. ASSUME NEW t PROVE Agent!Allocate(t) <=> AgentProofs!Allocate(t)
  BY DEF Agent!Allocate, AgentProofs!Allocate, Agent!Shown, AgentProofs!Shown,
         Agent!Failable, AgentProofs!Failable, Agent!IpsOf, AgentProofs!IpsOf,
         Agent!NextIp, AgentProofs!NextIp, Agent!WriteConf, AgentProofs!WriteConf,
         Agent!Max, AgentProofs!Max
<1>2. ASSUME NEW t PROVE Agent!Publish(t) <=> AgentProofs!Publish(t)
  BY DEF Agent!Publish, AgentProofs!Publish, Agent!SyncOk, AgentProofs!SyncOk,
         Agent!Parsable, AgentProofs!Parsable, Agent!SyncLive, AgentProofs!SyncLive,
         Agent!SyncFails, AgentProofs!SyncFails, Agent!Synced, AgentProofs!Synced,
         Agent!Claim, AgentProofs!Claim, Agent!Finish, AgentProofs!Finish,
         Agent!Rest, AgentProofs!Rest, Agent!Failable, AgentProofs!Failable
<1>3. ASSUME NEW t PROVE Agent!AddRoute(t) <=> AgentProofs!AddRoute(t)
  BY DEF Agent!AddRoute, AgentProofs!AddRoute, Agent!Failable, AgentProofs!Failable,
         Agent!Finish, AgentProofs!Finish, Agent!Rest, AgentProofs!Rest
<1>4. ASSUME NEW t PROVE Agent!Verify(t) <=> AgentProofs!Verify(t)
  BY DEF Agent!Verify, AgentProofs!Verify, Agent!Claim, AgentProofs!Claim,
         Agent!Failable, AgentProofs!Failable, Agent!Finish, AgentProofs!Finish,
         Agent!Rest, AgentProofs!Rest
<1>5. ASSUME NEW t PROVE Agent!Unpublish(t) <=> AgentProofs!Unpublish(t)
  BY DEF Agent!Unpublish, AgentProofs!Unpublish, Agent!SyncOk, AgentProofs!SyncOk,
         Agent!Parsable, AgentProofs!Parsable, Agent!SyncLive, AgentProofs!SyncLive,
         Agent!SyncFails, AgentProofs!SyncFails, Agent!Synced, AgentProofs!Synced,
         Agent!Claim, AgentProofs!Claim, Agent!Finish, AgentProofs!Finish,
         Agent!Rest, AgentProofs!Rest, Agent!Failable, AgentProofs!Failable
<1>6. ASSUME NEW t PROVE Agent!DelRoutes(t) <=> AgentProofs!DelRoutes(t)
  BY DEF Agent!DelRoutes, AgentProofs!DelRoutes, Agent!Failable,
         AgentProofs!Failable, Agent!Finish, AgentProofs!Finish, Agent!Rest,
         AgentProofs!Rest
<1>7. ASSUME NEW t, NEW n PROVE Agent!Create(t, n) <=> AgentProofs!Create(t, n)
  BY DEF Agent!Create, AgentProofs!Create, Agent!AtRest, AgentProofs!AtRest,
         Agent!Resting, AgentProofs!Resting, Agent!LockFree, AgentProofs!LockFree,
         Agent!IpsOf, AgentProofs!IpsOf, Agent!Finish, AgentProofs!Finish,
         Agent!Rest, AgentProofs!Rest
<1>8. ASSUME NEW t, NEW n PROVE Agent!Delete(t, n) <=> AgentProofs!Delete(t, n)
  BY DEF Agent!Delete, AgentProofs!Delete, Agent!AtRest, AgentProofs!AtRest,
         Agent!Resting, AgentProofs!Resting, Agent!LockFree, AgentProofs!LockFree,
         Agent!Tagged, AgentProofs!Tagged, Agent!IpsOf, AgentProofs!IpsOf
<1>9. ASSUME NEW t, NEW n, NEW m PROVE Agent!Rename(t, n, m) <=> AgentProofs!Rename(t, n, m)
  BY DEF Agent!Rename, AgentProofs!Rename, Agent!AtRest, AgentProofs!AtRest,
         Agent!Resting, AgentProofs!Resting, Agent!LockFree, AgentProofs!LockFree,
         Agent!CanRename, AgentProofs!CanRename, Agent!Retag, AgentProofs!Retag,
         Agent!Finish, AgentProofs!Finish, Agent!Rest, AgentProofs!Rest
<1>10. ASSUME NEW t PROVE Agent!RemoveAll(t) <=> AgentProofs!RemoveAll(t)
  BY DEF Agent!RemoveAll, AgentProofs!RemoveAll, Agent!AtRest, AgentProofs!AtRest,
         Agent!Resting, AgentProofs!Resting, Agent!Rest, AgentProofs!Rest
<1>11. Agent!ApiRestart <=> AgentProofs!ApiRestart
  BY DEF Agent!ApiRestart, AgentProofs!ApiRestart, Agent!DropRequests,
         AgentProofs!DropRequests, Agent!Rest, AgentProofs!Rest
<1>12. Agent!HostRestart <=> AgentProofs!HostRestart
  BY DEF Agent!HostRestart, AgentProofs!HostRestart, Agent!DropRequests,
         AgentProofs!DropRequests, Agent!Rest, AgentProofs!Rest, Agent!Parsable,
         AgentProofs!Parsable, Agent!Synced, AgentProofs!Synced, Agent!Claim,
         AgentProofs!Claim, Agent!IpsOf, AgentProofs!IpsOf
<1> QED BY <1>1, <1>2, <1>3, <1>4, <1>5, <1>6, <1>7, <1>8, <1>9, <1>10, <1>11, <1>12
           DEF Agent!Next, AgentProofs!Next, Agent!Step, AgentProofs!Step,
               Agent!Request, AgentProofs!Request, Agent!vars, AgentProofs!vars

LEMMA SameInit == Agent!Init <=> AgentProofs!Init
BY DEF Agent!Init, AgentProofs!Init, Agent!Synced, AgentProofs!Synced, Agent!Claim,
       AgentProofs!Claim, Agent!IpsOf, AgentProofs!IpsOf, Agent!Rest,
       AgentProofs!Rest

LEMMA SameSpec == Agent!Spec <=> AgentProofs!Spec
BY SameNext, SameInit, PTL DEF Agent!Spec, AgentProofs!Spec

LEMMA SameTypes == Agent!TypeOK <=> AgentProofs!TypeOK
BY DEF Agent!TypeOK, AgentProofs!TypeOK, Agent!Peer, AgentProofs!Peer,
       Agent!TaskState, AgentProofs!TaskState, Agent!Resting, AgentProofs!Resting,
       Agent!Creating, AgentProofs!Creating, Agent!Deleting, AgentProofs!Deleting
-----------------------------------------------------------------------------
CallsTyped == call \in [Tasks -> Call] /\ fails \in 0..AuthLimit /\ keyOk \in BOOLEAN

TypeInv == AgentProofs!TypeInv /\ CallsTyped

(* The agent does what its handlers ask of it, and nothing else. *)
LEMMA StepDrives ==
  ASSUME CallsTyped, [Next]_vars
  PROVE  [Agent!Next]_(Agent!vars)
<1> USE DEF Agent!Next, Agent!Step, Agent!Request
<1>0. ASSUME UNCHANGED box PROVE UNCHANGED Agent!vars
  BY <1>0 DEF box, Agent!vars
<1>1. ASSUME NEW t \in Tasks, Begin(t) PROVE Agent!Next
  <2>1. call[t].op \in Ops
    <3>1. call[t].op \in Ops \cup {Idle.op} /\ call[t].op.kind \in {"create", "delete", "rename"}
      BY <1>1 DEF CallsTyped, Call, Begin, CreatePeer, DeletePeer, UpdatePeer, Locked
    <3> QED BY <3>1 DEF Idle, Op
  <2>2. call[t].op.name \in Names /\ call[t].op.new \in Names
    BY <2>1 DEF Ops, Op
  <2> QED BY <1>1, <2>2 DEF Begin, CreatePeer, DeletePeer, UpdatePeer
<1>2. ASSUME NEW t \in Tasks, Handle(t) PROVE Agent!Next \/ UNCHANGED box
  BY <1>2 DEF Handle, ReadFile, NextPeerIp, AddPeerToServer, RemovePeerFromServer, Reply
<1>3. ASSUME NEW t \in Tasks,
             \/ AskCreate(t) \/ AskUpdate(t) \/ AskDelete(t)
             \/ ListPeers(t) \/ Health(t) \/ PeerStats(t) \/ GetPeerConfig(t)
      PROVE  UNCHANGED box
  BY <1>3 DEF AskCreate, AskUpdate, AskDelete, Ask, ListPeers, Health, PeerStats, GetPeerConfig,
              Read
<1>4. ASSUME WrongKey \/ FixKey \/ Expire PROVE UNCHANGED box
  BY <1>4 DEF WrongKey, FixKey, Expire
<1>5. ASSUME AgentRestart \/ BoxRestart PROVE Agent!Next
  BY <1>5 DEF AgentRestart, BoxRestart
<1>6. ASSUME UNCHANGED vars PROVE UNCHANGED box
  BY <1>6 DEF vars, box
<1> QED BY <1>0, <1>1, <1>2, <1>3, <1>4, <1>5, <1>6 DEF Next

LEMMA ReadTyped ==
  ASSUME CallsTyped, NEW t \in Tasks, NEW kind, NEW files \in SUBSET Names, Read(t, kind, files)
  PROVE  CallsTyped'
BY DEF CallsTyped, Call, Read, Idle

LEMMA AskTyped ==
  ASSUME CallsTyped, NEW t \in Tasks, NEW op \in Ops, Ask(t, op)
  PROVE  CallsTyped'
BY DEF CallsTyped, Call, Ask

LEMMA CallsStayTyped ==
  ASSUME CallsTyped, Agent!TypeOK, [Next]_vars
  PROVE  CallsTyped'
<1> USE AuthLimitAssumption
<1>0. Listed \in SUBSET Names
  BY DEF Listed, Agent!TypeOK, Agent!Peer
<1>1. ASSUME NEW t \in Tasks, AskCreate(t) \/ AskUpdate(t) \/ AskDelete(t) PROVE CallsTyped'
  <2>1. PICK op \in Ops : Ask(t, op)
    BY <1>1 DEF AskCreate, AskUpdate, AskDelete, Ops
  <2> QED BY <2>1, AskTyped
<1>2. ASSUME NEW t \in Tasks, ListPeers(t) \/ Health(t) \/ PeerStats(t) \/ GetPeerConfig(t)
      PROVE  CallsTyped'
  <2>1. PICK kind \in {"list", "health", "stats", "show"}, files \in SUBSET Names :
                Read(t, kind, files)
    BY <1>0, <1>2 DEF ListPeers, Health, PeerStats, GetPeerConfig
  <2> QED BY <2>1, ReadTyped
<1>3. ASSUME NEW t \in Tasks, Begin(t) PROVE CallsTyped'
  <2>1. \E kind : Locked(t, kind)
    BY <1>3 DEF Begin, CreatePeer, DeletePeer, UpdatePeer
  <2> QED BY <2>1 DEF Locked, CallsTyped, Call
<1>4. ASSUME NEW t \in Tasks, Handle(t) PROVE CallsTyped'
  <2>1. CASE ReadFile(t)
    <3>1. PICK todo \in SUBSET Names : call' = [call EXCEPT ![t].todo = todo]
      <4>1. PICK n \in call[t].todo :
              call' = [call EXCEPT ![t].todo = IF n \in Listed THEN @ \ {n} ELSE {}]
        BY <2>1 DEF ReadFile
      <4>2. call[t].todo \in SUBSET Names
        BY DEF CallsTyped, Call
      <4>3. CASE n \in Listed
        BY <4>1, <4>2, <4>3 DEF CallsTyped, Call
      <4>4. CASE n \notin Listed
        BY <4>1, <4>2, <4>4
      <4> QED BY <4>3, <4>4
    <3> QED BY <2>1, <3>1 DEF ReadFile, CallsTyped, Call
  <2>2. CASE Reply(t)
    BY <2>2 DEF Reply, Answered, CallsTyped, Call, Idle
  <2>3. CASE UNCHANGED <<call, fails, keyOk>>
    BY <2>3 DEF CallsTyped
  <2> QED BY <1>4, <2>1, <2>2, <2>3 DEF Handle, NextPeerIp, AddPeerToServer, RemovePeerFromServer
<1>5. CASE WrongKey \/ FixKey \/ Expire
  <2>0. call' = call
    BY <1>5 DEF WrongKey, FixKey, Expire
  <2>1. \/ fails' = fails
        \/ fails < AuthLimit /\ fails' = fails + 1
        \/ fails > 0 /\ fails' = fails - 1
    BY <1>5 DEF WrongKey, FixKey, Expire
  <2>2. keyOk' \in BOOLEAN
    BY <1>5 DEF WrongKey, FixKey, Expire, CallsTyped
  <2>3. fails' \in 0..AuthLimit
    BY <2>1 DEF CallsTyped
  <2> QED BY <2>0, <2>2, <2>3 DEF CallsTyped
<1>6. CASE AgentRestart \/ BoxRestart
  BY <1>6 DEF AgentRestart, BoxRestart, DropHandlers, CallsTyped, Call, Idle
<1>7. CASE UNCHANGED vars
  BY <1>7 DEF vars, CallsTyped
<1> QED BY <1>1, <1>2, <1>3, <1>4, <1>5, <1>6, <1>7 DEF Next

LEMMA TypeInvInit == Init => TypeInv
<1> SUFFICES ASSUME Init PROVE TypeInv
  OBVIOUS
<1>1. AgentProofs!TypeInv
  BY AgentIsAssumed, SameInit, AgentProofs!TypeInvInit DEF Init
<1>2. CallsTyped
  BY AuthLimitAssumption DEF Init, CallsTyped, Call, Idle
<1> QED BY <1>1, <1>2 DEF TypeInv

LEMMA TypeInvStep == TypeInv /\ [Next]_vars => TypeInv'
<1> SUFFICES ASSUME TypeInv, [Next]_vars PROVE TypeInv'
  OBVIOUS
<1>1. [AgentProofs!Next]_(AgentProofs!vars)
  BY StepDrives, SameNext DEF TypeInv
<1>2. AgentProofs!TypeInv'
  BY <1>1, AgentIsAssumed, AgentProofs!TypeInvStep DEF TypeInv
<1>3. Agent!TypeOK
  BY SameTypes DEF TypeInv, AgentProofs!TypeInv
<1>4. CallsTyped'
  BY <1>3, CallsStayTyped DEF TypeInv
<1> QED BY <1>2, <1>4 DEF TypeInv

LEMMA TypeInvariant == Spec => []TypeInv
BY TypeInvInit, TypeInvStep, PTL DEF Spec

(* Handlers, limiter and box are well formed in every reachable state. *)
THEOREM TypeCorrect == Spec => []TypeOK
<1>1. TypeInv => TypeOK
  BY SameTypes DEF TypeInv, TypeOK, CallsTyped, AgentProofs!TypeInv
<1> QED BY <1>1, TypeInvariant, PTL

-----------------------------------------------------------------------------
(* The steps of a region are made of the box's own, so its behaviours are behaviours of *)
(* the box. This says nothing new of a region; it is the way over which what is proved  *)
(* of the box reaches every agent.                                                      *)
LEMMA RunsBox == Spec => Agent!Spec
<1>1. Init => Agent!Init
  BY DEF Init
<1>2. TypeInv /\ [Next]_vars => [Agent!Next]_(Agent!vars)
  BY StepDrives DEF TypeInv
<1> QED BY <1>1, <1>2, TypeInvariant, PTL DEF Spec, Agent!Spec

LEMMA RunsAgent == Spec => AgentProofs!Spec
BY RunsBox, SameSpec, PTL

(* Where the container provisions no peers of its own, as in a region's compose file, every *)
(* registered key is listed under its name, whatever was given up, retried or renamed: a    *)
(* conf file vouches for every block.                                                       *)
THEOREM AlwaysReachable ==
  ASSUME Provisioned = <<>>
  PROVE  Spec => []Reachable
<1>1. AgentProofs!AddressesKnown
  BY DEF AgentProofs!AddressesKnown
<1>2. AgentProofs!Spec => []AgentProofs!AddressInv
  BY <1>1, AgentIsAssumed, AgentProofs!AddressInvariant
<1>3. AgentProofs!AddressInv => Reachable
  BY DEF AgentProofs!AddressInv, AgentProofs!Vouched, Reachable, Listed
<1> QED BY <1>2, <1>3, RunsAgent, PTL
-----------------------------------------------------------------------------
(* No two peers share an address (AddressesUnique), so what wg syncconf puts on the *)
(* interface is every registered peer.                                              *)
LEMMA AgentServesAll ==
  ASSUME TypeInv, AgentProofs!UniqueAddresses
  PROVE  \A b \in blocks : Agent!Claim(b) \in Agent!Synced(blocks)
<1>1. \A b \in blocks : AgentProofs!Claim(b) \in AgentProofs!Synced(blocks)
  BY AgentIsAssumed, AgentProofs!SyncedIsAll DEF TypeInv, AgentProofs!TypeInv
<1> QED BY <1>1
        DEF Agent!Claim, AgentProofs!Claim, Agent!Synced, AgentProofs!Synced

LEMMA ServedStaysStep ==
  ASSUME TypeInv, AgentProofs!UniqueAddresses, [Agent!Next]_(Agent!vars), up'
  PROVE  \A b \in blocks' : Agent!Claim(b) \in live => Agent!Claim(b) \in live'
<1> DEFINE Kept == \A b \in blocks' : Agent!Claim(b) \in live => Agent!Claim(b) \in live'
<1>1. CASE live' = live
  BY <1>1
<1>2. CASE live' = Agent!Synced(blocks) /\ blocks' = blocks
  BY <1>2, AgentServesAll
<1>3. ASSUME NEW t \in Tasks, Agent!Step(t) PROVE Kept
  BY <1>1, <1>2, <1>3
     DEF Agent!Step, Agent!Allocate, Agent!Publish, Agent!SyncLive, Agent!SyncFails,
         Agent!AddRoute, Agent!Verify, Agent!Unpublish, Agent!DelRoutes
<1>4. ASSUME NEW t \in Tasks, Agent!Request(t) PROVE Kept
  BY <1>1, <1>4 DEF Agent!Request, Agent!Create, Agent!Delete, Agent!Rename, Agent!RemoveAll
<1>5. CASE Agent!ApiRestart
  BY <1>1, <1>5 DEF Agent!ApiRestart
<1>6. CASE Agent!HostRestart
  BY <1>2, <1>6 DEF Agent!HostRestart
<1>7. CASE UNCHANGED Agent!vars
  BY <1>1, <1>7 DEF Agent!vars
<1> QED BY <1>3, <1>4, <1>5, <1>6, <1>7 DEF Agent!Next

(* No call cuts a registered peer off: neither another call nor a retry of one that was *)
(* given up takes its address. On a box with provisioned peers "wg show" has to answer,  *)
(* on a region's, which has none, any command may fail.                                  *)
THEOREM ServedAlwaysStays ==
  ASSUME "show" \notin Faults \/ Provisioned = <<>>
  PROVE  Spec => ServedStays
<1>1. Spec => []AgentProofs!UniqueAddresses
  <2>1. AgentProofs!Spec => []AgentProofs!UniqueAddresses
    BY AgentIsAssumed, AgentProofs!AddressesUnique
  <2> QED BY <2>1, RunsAgent, PTL
<1>2. TypeInv /\ AgentProofs!UniqueAddresses /\ [Next]_vars
        => [up' => \A b \in blocks' : Agent!Claim(b) \in live => Agent!Claim(b) \in live']_vars
  BY StepDrives, ServedStaysStep DEF TypeInv
<1> QED BY <1>1, <1>2, TypeInvariant, PTL DEF Spec, ServedStays
-----------------------------------------------------------------------------
(* Between the awaits of a delete its name is free in files and blocks: the lock keeps *)
(* every other change away.                                                            *)
Removing(t) == task[t].pc \in {"unpublish", "unroute"}
NameGone(t) == \A b \in blocks \cup confs : b.name # call[t].op.name

DeletesHold ==
  \A t \in Tasks : Removing(t) =>
    call[t].pc = "running" /\ (call[t].op.kind = "delete" => NameGone(t))

(* A handler between its awaits has the lock. *)
LEMMA Exclusive ==
  ASSUME TypeInv
  PROVE  /\ NoTask \notin Tasks /\ task \in [Tasks -> Agent!TaskState]
         /\ \A t \in Tasks : task[t].pc \notin {"ok", "error"} => lock = t
<1>1. NoTask \notin Tasks
  BY AgentAssumption DEF Agent!TasksAssumption
<1>2. task \in [Tasks -> Agent!TaskState]
  BY SameTypes DEF TypeInv, AgentProofs!TypeInv, Agent!TypeOK
<1> QED BY <1>1, <1>2
        DEF TypeInv, AgentProofs!TypeInv, AgentProofs!LockDiscipline, AgentProofs!AtRest,
            AgentProofs!Resting

(* A step that leaves files, blocks and the other tasks' calls alone, and does not start *)
(* a delete, keeps what the deletes under way rely on.                                   *)
LEMMA DeletesUndisturbed ==
  ASSUME DeletesHold, UNCHANGED <<confs, blocks>>,
         \A u \in Tasks : Removing(u)' =>
           Removing(u) /\ call'[u].op = call[u].op /\ call'[u].pc = call[u].pc
  PROVE  DeletesHold'
BY DEF DeletesHold, NameGone, Removing

LEMMA DeletesHoldStep == TypeInv /\ DeletesHold /\ [Next]_vars => DeletesHold'
<1> SUFFICES ASSUME TypeInv, DeletesHold, [Next]_vars PROVE DeletesHold'
  OBVIOUS
<1>0. /\ NoTask \notin Tasks /\ task \in [Tasks -> Agent!TaskState]
      /\ \A t \in Tasks : Removing(t) => lock = t
      /\ \A t \in Tasks : task[t].pc = "allocate" => lock = t
      /\ call \in [Tasks -> Call]
  BY Exclusive DEF Removing, TypeInv, CallsTyped
<1>a. ASSUME NEW t \in Tasks, UNCHANGED box, call[t].pc # "running",
             \E rec : call' = [call EXCEPT ![t] = rec]
      PROVE  DeletesHold'
  <2>1. ~Removing(t) /\ task' = task /\ UNCHANGED <<confs, blocks>>
    BY <1>a DEF DeletesHold, box
  <2> QED BY <1>a, <1>0, <2>1, DeletesUndisturbed DEF Removing
<1>1. ASSUME NEW t \in Tasks, AskCreate(t) \/ AskUpdate(t) \/ AskDelete(t) PROVE DeletesHold'
  BY <1>1, <1>a DEF AskCreate, AskUpdate, AskDelete, Ask, Admitted, At
<1>2. ASSUME NEW t \in Tasks, ListPeers(t) \/ Health(t) \/ PeerStats(t) \/ GetPeerConfig(t)
      PROVE  DeletesHold'
  BY <1>2, <1>a DEF ListPeers, Health, PeerStats, GetPeerConfig, Read, Admitted, At
<1>3. ASSUME NEW t \in Tasks, Begin(t) PROVE DeletesHold'
  <2>1. lock = NoTask
    BY <1>3 DEF Begin, CreatePeer, DeletePeer, UpdatePeer, Agent!Create, Agent!Delete,
                Agent!Rename, Agent!LockFree
  <2>2. \A u \in Tasks : ~Removing(u)
    BY <1>0, <2>1
  <2>3. CASE CreatePeer(t)
    BY <1>0, <2>2, <2>3 DEF CreatePeer, Agent!Create, Agent!Finish, Agent!Rest, Removing, DeletesHold
  <2>4. CASE UpdatePeer(t)
    BY <1>0, <2>2, <2>4 DEF UpdatePeer, Agent!Rename, Agent!Finish, Agent!Rest, Removing, DeletesHold
  <2>5. CASE DeletePeer(t)
    <3> DEFINE n == call[t].op.name
    <3>1. /\ confs' = {c \in confs : c.name # n} /\ blocks' = blocks \ Agent!Tagged(blocks, n)
          /\ \A u \in Tasks \ {t} : task'[u] = task[u]
          /\ call'[t].pc = "running" /\ call'[t].op = call[t].op
      BY <1>0, <2>5 DEF DeletePeer, Locked, Agent!Delete, Call
    <3>2. n \in Names
      BY <1>0, <2>5 DEF DeletePeer, Locked, Call, Ops, Op, Idle
    <3>3. NameGone(t)'
      BY <3>1, <3>2, AgentAssumption DEF Agent!NamesAssumption, Agent!Tagged, NameGone
    <3>4. \A u \in Tasks \ {t} : ~Removing(u)'
      BY <3>1, <2>2 DEF Removing
    <3> QED BY <3>1, <3>3, <3>4 DEF DeletesHold
  <2> QED BY <1>3, <2>3, <2>4, <2>5 DEF Begin
<1>4. ASSUME NEW t \in Tasks, Handle(t) PROVE DeletesHold'
  <2>1. CASE ReadFile(t)
    <3>1. PICK todo : call' = [call EXCEPT ![t].todo = todo]
      <4>1. PICK n \in call[t].todo :
              call' = [call EXCEPT ![t].todo = IF n \in Listed THEN @ \ {n} ELSE {}]
        BY <2>1 DEF ReadFile
      <4>2. call' = [call EXCEPT ![t].todo =
                       IF n \in Listed THEN call[t].todo \ {n} ELSE {}]
        BY <4>1
      <4> QED BY <4>2
    <3>2. \A u \in Tasks : call'[u].op = call[u].op /\ call'[u].pc = call[u].pc
      BY <1>0, <3>1 DEF Call
    <3>3. task' = task /\ UNCHANGED <<confs, blocks>>
      BY <2>1 DEF ReadFile, box
    <3> QED BY <3>2, <3>3, DeletesUndisturbed DEF Removing
  <2>2. CASE Reply(t)
    <3>1. ~Removing(t) /\ UNCHANGED <<confs, blocks>> /\ task' = task
      BY <2>2 DEF Reply, Agent!AtRest, Agent!Resting, Removing, box
    <3> QED BY <1>0, <2>2, <3>1, DeletesUndisturbed DEF Reply, Answered, Removing
  <2>3. CASE NextPeerIp(t)
    <3>1. lock = t /\ \A u \in Tasks : Removing(u) => u = t
      BY <1>0, <2>3 DEF NextPeerIp, Agent!Allocate
    <3>2. \A u \in Tasks : ~Removing(u)'
      BY <1>0, <2>3, <3>1 DEF NextPeerIp, Agent!Allocate, Removing
    <3> QED BY <3>2 DEF DeletesHold
  <2>4. CASE AddPeerToServer(t) \/ RemovePeerFromServer(t)
    <3>1. UNCHANGED <<confs, blocks>> /\ call' = call
      BY <2>4 DEF AddPeerToServer, RemovePeerFromServer, Agent!Publish, Agent!AddRoute,
                  Agent!Verify, Agent!Unpublish, Agent!DelRoutes
    <3>2. \A u \in Tasks : Removing(u)' => Removing(u)
      BY <1>0, <2>4 DEF AddPeerToServer, RemovePeerFromServer, Agent!Publish, Agent!AddRoute,
                  Agent!Verify, Agent!Unpublish, Agent!DelRoutes, Agent!SyncLive,
                  Agent!SyncFails, Agent!Finish, Agent!Rest, Removing, Agent!TaskState
    <3> QED BY <3>1, <3>2, DeletesUndisturbed
  <2> QED BY <1>4, <2>1, <2>2, <2>3, <2>4 DEF Handle
<1>5. CASE WrongKey \/ FixKey \/ Expire \/ UNCHANGED vars
  <2>1. UNCHANGED <<confs, blocks>> /\ call' = call /\ task' = task
    BY <1>5 DEF WrongKey, FixKey, Expire, box, vars
  <2> QED BY <2>1, DeletesUndisturbed DEF Removing
<1>6. CASE AgentRestart \/ BoxRestart
  <2>1. \A u \in Tasks : ~Removing(u)'
    BY <1>6 DEF AgentRestart, BoxRestart, Agent!ApiRestart, Agent!HostRestart,
                Agent!DropRequests, Agent!Rest, Removing
  <2> QED BY <2>1 DEF DeletesHold
<1> QED BY <1>1, <1>2, <1>3, <1>4, <1>5, <1>6 DEF Next

(* A delete that comes to its end leaves no file and no key under its name, whatever *)
(* abandoned creates and retries had put there.                                      *)
THEOREM DeletesSettle == Spec => DeleteSettles
<1>1. Init => DeletesHold
  BY DEF Init, Agent!Init, Agent!Rest, DeletesHold, Removing
<1>2. ASSUME DeletesHold, NEW t \in Tasks, call[t].op.kind = "delete", Agent!DelRoutes(t)
      PROVE  \A b \in blocks' \cup confs' : b.name # call[t].op.name
  BY <1>2 DEF DeletesHold, Removing, NameGone, Agent!DelRoutes
<1>3. DeletesHold /\ [Next]_vars
        => [\A t \in Tasks : call[t].op.kind = "delete" /\ Agent!DelRoutes(t) =>
              \A b \in blocks' \cup confs' : b.name # call[t].op.name]_vars
  BY <1>2
<1> QED BY <1>1, <1>3, DeletesHoldStep, TypeInvariant, PTL DEF Spec, DeleteSettles
-----------------------------------------------------------------------------
(* An agent's peers never share an address, its region's container having none of its own. *)
THEOREM AgentAddressesUnique ==
  ASSUME Provisioned = <<>>
  PROVE  Spec => []AgentProofs!UniqueAddresses
<1>1. AgentProofs!Spec => []AgentProofs!UniqueAddresses
  BY AgentIsAssumed, AgentProofs!AddressesUnique
<1> QED BY <1>1, RunsAgent, PTL

(* A create that ends well at the agent has made a peer that works, also when the dashboard *)
(* gave it up long ago and has asked for the same peer again.                               *)
THEOREM AgentCreatesUsable == Spec => AgentProofs!CreateOkUsable
BY AgentIsAssumed, AgentProofs!CreatesUsable, RunsAgent, PTL

(* A delete that ends well at the agent has cut off its own addresses only, unless a name *)
(* is a prefix of another.                                                                *)
THEOREM AgentDeletesExact ==
  ASSUME \A n \in Names : Extensions[n] = {n}, Provisioned = <<>>
  PROVE  Spec => AgentProofs!DeleteExact
<1>1. AgentProofs!Spec => AgentProofs!DeleteExact
  BY AgentIsAssumed, AgentProofs!DeletesExact
<1> QED BY <1>1, RunsAgent, PTL

(* What an agent serves at a registered address is the registered peer, not one that an *)
(* abandoned or failed call has left on the interface.                                  *)
THEOREM AgentServesOwners ==
  ASSUME "show" \notin Faults
  PROVE  Spec => []AgentProofs!ServedToOwner
<1>1. AgentProofs!Spec => []AgentProofs!ServedToOwner
  BY AgentIsAssumed, AgentProofs!AddressesServeTheirOwner
<1> QED BY <1>1, RunsAgent, PTL

(* Seen from the dashboard a region is a registry of peers: calls that are given up, asked *)
(* again or overtaken leave the atomic registrations and publications of PeerRegistry.     *)
THEOREM AgentImplementsRegistry ==
  ASSUME \A n \in Names : Extensions[n] = {n}, "show" \notin Faults
  PROVE  Spec => AgentProofs!RefinesRegistry
<1>1. AgentProofs!Spec => AgentProofs!RefinesRegistry
  BY AgentIsAssumed, AgentProofs!ImplementsRegistry
<1> QED BY <1>1, RunsAgent, PTL
-----------------------------------------------------------------------------
(* The safety half of HandlersEnd: the lock that queued handlers wait for belongs to a *)
(* handler that is running and between its awaits.                                     *)
AwaitingRuns == \A t \in Tasks : ~Agent!AtRest(t) => At(t, "running")

LEMMA AwaitingRunsStep == TypeInv /\ AwaitingRuns /\ [Next]_vars => AwaitingRuns'
<1> SUFFICES ASSUME TypeInv, AwaitingRuns, [Next]_vars, NEW u \in Tasks, ~Agent!AtRest(u)'
             PROVE  call'[u].pc = "running"
  BY DEF AwaitingRuns, At
<1>0. call \in [Tasks -> Call] /\ task \in [Tasks -> Agent!TaskState]
  BY Exclusive DEF TypeInv, CallsTyped
<1>i. ~Agent!AtRest(u) => call[u].pc = "running"
  BY DEF AwaitingRuns, At
<1>a. ASSUME NEW t \in Tasks, UNCHANGED box, ~At(t, "running"),
             \E rec : call' = [call EXCEPT ![t] = rec]
      PROVE  call'[u].pc = "running"
  <2>1. ~Agent!AtRest(u)
    BY <1>a DEF box, Agent!AtRest
  <2>2. u # t
    BY <1>i, <1>a, <2>1 DEF At
  <2> QED BY <1>0, <1>i, <1>a, <2>1, <2>2
<1>1. ASSUME NEW t \in Tasks, AskCreate(t) \/ AskUpdate(t) \/ AskDelete(t)
      PROVE  call'[u].pc = "running"
  BY <1>1, <1>a DEF AskCreate, AskUpdate, AskDelete, Ask, Admitted, At
<1>2. ASSUME NEW t \in Tasks, ListPeers(t) \/ Health(t) \/ PeerStats(t) \/ GetPeerConfig(t)
      PROVE  call'[u].pc = "running"
  BY <1>2, <1>a DEF ListPeers, Health, PeerStats, GetPeerConfig, Read, Admitted, At
<1>3. ASSUME NEW t \in Tasks, Begin(t) PROVE call'[u].pc = "running"
  <2>1. call' = [call EXCEPT ![t].pc = "running"]
    BY <1>3 DEF Begin, CreatePeer, DeletePeer, UpdatePeer, Locked
  <2>2. \E rec : task' = [task EXCEPT ![t] = rec]
    BY <1>3 DEF Begin, CreatePeer, DeletePeer, UpdatePeer, Agent!Create, Agent!Delete,
                Agent!Rename, Agent!Finish
  <2>3. CASE u = t
    BY <1>0, <2>1, <2>3 DEF Call
  <2>4. CASE u # t
    BY <1>0, <1>i, <2>1, <2>2, <2>4 DEF Agent!AtRest
  <2> QED BY <2>3, <2>4
<1>4. ASSUME NEW t \in Tasks, Handle(t) PROVE call'[u].pc = "running"
  <2>1. CASE ReadFile(t)
    <3>1. PICK todo : call' = [call EXCEPT ![t].todo = todo]
      <4>1. PICK n \in call[t].todo :
              call' = [call EXCEPT ![t].todo = IF n \in Listed THEN @ \ {n} ELSE {}]
        BY <2>1 DEF ReadFile
      <4>2. call' = [call EXCEPT ![t].todo =
                       IF n \in Listed THEN call[t].todo \ {n} ELSE {}]
        BY <4>1
      <4> QED BY <4>2
    <3>2. call'[u].pc = call[u].pc /\ task' = task
      BY <1>0, <2>1, <3>1 DEF ReadFile, Call, box
    <3> QED BY <1>i, <3>2 DEF Agent!AtRest
  <2>2. CASE Reply(t)
    <3>1. task' = task /\ Agent!AtRest(t)
      BY <2>2 DEF Reply, box
    <3>2. ~Agent!AtRest(u) /\ u # t
      BY <3>1 DEF Agent!AtRest
    <3> QED BY <1>0, <1>i, <2>2, <3>2 DEF Reply, Answered
  <2>3. CASE NextPeerIp(t) \/ AddPeerToServer(t) \/ RemovePeerFromServer(t)
    <3>1. call' = call /\ ~Agent!AtRest(t)
      BY <2>3 DEF NextPeerIp, AddPeerToServer, RemovePeerFromServer, Agent!Allocate,
                  Agent!Publish, Agent!AddRoute, Agent!Verify, Agent!Unpublish,
                  Agent!DelRoutes, Agent!AtRest, Agent!Resting
    <3>2. \A v \in Tasks \ {t} : task'[v] = task[v]
      BY <1>0, <2>3 DEF NextPeerIp, AddPeerToServer, RemovePeerFromServer, Agent!Allocate,
                  Agent!Publish, Agent!AddRoute, Agent!Verify, Agent!Unpublish,
                  Agent!DelRoutes, Agent!SyncLive, Agent!SyncFails, Agent!Finish
    <3>3. ~Agent!AtRest(u)
      BY <3>1, <3>2 DEF Agent!AtRest
    <3> QED BY <1>i, <3>1, <3>3
  <2> QED BY <1>4, <2>1, <2>2, <2>3 DEF Handle
<1>5. CASE WrongKey \/ FixKey \/ Expire \/ UNCHANGED vars
  <2>1. call' = call /\ task' = task
    BY <1>5 DEF WrongKey, FixKey, Expire, box, vars
  <2> QED BY <1>i, <2>1 DEF Agent!AtRest
<1>6. CASE AgentRestart \/ BoxRestart
  <2>1. Agent!AtRest(u)'
    BY <1>6 DEF AgentRestart, BoxRestart, Agent!ApiRestart, Agent!HostRestart,
                Agent!DropRequests, Agent!Rest, Agent!AtRest, Agent!Resting
  <2> QED BY <2>1
<1> QED BY <1>1, <1>2, <1>3, <1>4, <1>5, <1>6 DEF Next

(* A call queued at the agent waits for a handler that is at work, never for one that has *)
(* been answered, was given up and forgotten, or ended in an error.                       *)
THEOREM QueueIsServed ==
  Spec => [](\A t \in Tasks : lock = t => At(t, "running") /\ ~Agent!AtRest(t))
<1>1. Init => AwaitingRuns
  BY DEF Init, Agent!Init, Agent!Rest, Agent!AtRest, Agent!Resting, AwaitingRuns
<1>2. Spec => []AwaitingRuns
  BY <1>1, AwaitingRunsStep, TypeInvariant, PTL DEF Spec
<1>3. Spec => []AgentProofs!LockAtWork
  BY AgentIsAssumed, AgentProofs!LockNeverLeaks, RunsAgent, PTL
<1>4. AwaitingRuns /\ AgentProofs!LockAtWork
        => \A t \in Tasks : lock = t => At(t, "running") /\ ~Agent!AtRest(t)
  BY DEF AwaitingRuns, AgentProofs!LockAtWork, AgentProofs!AtRest, Agent!AtRest,
         AgentProofs!Resting, Agent!Resting
<1> QED BY <1>2, <1>3, <1>4, PTL
=================================================================================
