------------------------------- MODULE RegionCalls -------------------------------
(***************************************************************************)
(* The dashboard's calls to the agent of a remote region: the routes of    *)
(* src/api/main.py 2489-2634, RegionClient (src/api/region_client.py) and  *)
(* the agent's own API (src/region-agent/agent.py), composed with the      *)
(* agent's WireGuard peers (src/region-agent/wireguard_core.py), which are *)
(* WireGuardPeers again.                                                   *)
(*                                                                         *)
(* A call is a handler of the agent, from the moment the request arrives.  *)
(* The dashboard gives a request up after 15 seconds, or never learns of   *)
(* the answer, while the handler, which nothing cancels, works on: what it *)
(* asks next, a retry among it, may arrive at any moment of the calls that *)
(* are still here. A request that gets lost does not arrive. A handler is  *)
(* a task of WireGuardPeers that waits for the lock first.                 *)
(***************************************************************************)
EXTENDS Integers, Sequences, FiniteSets

CONSTANTS
  Names, Extensions, Provisioned, Tasks, NoTask, NoPeer, LastOctet, MaxKey, Faults,
  AuthLimit  \* AUTH_RATE_LIMIT_MAX_ATTEMPTS

ASSUME AuthLimitAssumption == AuthLimit \in Nat \ {0}

VARIABLES
  confs, blocks, live, routes, up, lock, nextKey, task,  \* the box, as in WireGuardPeers
  call,   \* the agent's handlers
  fails,  \* _failed_auth_attempts: wrong keys of the dashboard within the window
  keyOk   \* the key in the region's row is the agent's

Agent == INSTANCE WireGuardPeers

ASSUME AgentAssumption ==
  Agent!NamesAssumption /\ Agent!TasksAssumption /\ Agent!BoundsAssumption

vars == <<confs, blocks, live, routes, up, lock, nextKey, task, call, fails, keyOk>>
box == <<confs, blocks, live, routes, up, lock, nextKey, task>>

Op(kind, name, new) == [kind |-> kind, name |-> name, new |-> new]
Ops ==
  {Op(kind, n, n) : kind \in {"create", "delete"}, n \in Names}
    \cup {Op("rename", n, m) : n, m \in Names}

Idle == [pc |-> "idle", op |-> Op("read", NoPeer, NoPeer), todo |-> {}]

Init ==
  /\ Agent!Init
  /\ call = [t \in Tasks |-> Idle]
  /\ fails = 0
  /\ keyOk = TRUE

Listed == {c.name : c \in confs}
At(t, pc) == call[t].pc = pc
Answered(t) == call' = [call EXCEPT ![t] = Idle]
-----------------------------------------------------------------------------
(* A request of the dashboard's: the region is known and active, _auth_rate_limit_check *)
(* and the key are passed, without an await between them. /health asks for no key.      *)
Admitted(t, kind) ==
  /\ At(t, "idle")
  /\ kind = "health" \/ (fails < AuthLimit /\ keyOk)

(* The creates that have still to take their key pair. *)
Pending ==
  {t \in Tasks : call[t].op.kind = "create" /\ (At(t, "queued") \/ task[t].pc = "allocate")}

(* A request that changes something waits for the lock. *)
Ask(t, op) ==
  /\ Admitted(t, op.kind)
  /\ op.kind = "create" => nextKey + Cardinality(Pending) <= MaxKey
  /\ call' = [call EXCEPT ![t] = [pc |-> "queued", op |-> op, todo |-> {}]]
  /\ UNCHANGED <<box, fails, keyOk>>

(* POST, PUT and DELETE /vpn/wireguard/peers. *)
AskCreate(t) == \E n \in Names : Ask(t, Op("create", n, n))
AskUpdate(t) == \E n, m \in Names : Ask(t, Op("rename", n, m))
AskDelete(t) == \E n \in Names : Ask(t, Op("delete", n, n))

(* Reading takes no lock. *)
Read(t, kind, files) ==
  /\ Admitted(t, kind)
  /\ call' = [call EXCEPT ![t] = [pc |-> "running", op |-> Idle.op, todo |-> files]]
  /\ UNCHANGED <<box, fails, keyOk>>

(* list_peers awaits "wg pubkey" for each of the files it found. *)
ListPeers(t) == Read(t, "list", Listed)

(* /health lists the peers, to count them. *)
Health(t) == Read(t, "health", Listed)

(* get_wireguard_peer_stats reads all files before its only await. *)
PeerStats(t) == Read(t, "stats", {})

(* get_peer_config, get_peer_qrcode: one file. *)
GetPeerConfig(t) == \E n \in Names : Read(t, "show", {n})

(* A wrong key is counted, unless the limiter refuses the request before it looks. *)
WrongKeyAlways ==
  /\ ~keyOk
  /\ fails' = IF fails < AuthLimit THEN fails + 1 ELSE AuthLimit + 1
  /\ UNCHANGED <<box, call, keyOk>>

WrongKey ==
  /\ ~keyOk
  /\ fails < AuthLimit
  /\ fails' = fails + 1
  /\ UNCHANGED <<box, call, keyOk>>

(* PUT /regions/{slug}: the right key is entered. *)
FixKey ==
  /\ ~keyOk
  /\ keyOk' = TRUE
  /\ UNCHANGED <<box, call, fails>>
-----------------------------------------------------------------------------
Locked(t, kind) ==
  /\ At(t, "queued")
  /\ call[t].op.kind = kind
  /\ call' = [call EXCEPT ![t].pc = "running"]
  /\ UNCHANGED <<fails, keyOk>>

(* create_peer: the lock, the keys, the server's key. *)
CreatePeer(t) == Locked(t, "create") /\ Agent!Create(t, call[t].op.name)

DeletePeer(t) == Locked(t, "delete") /\ Agent!Delete(t, call[t].op.name)

UpdatePeer(t) == Locked(t, "rename") /\ Agent!Rename(t, call[t].op.name, call[t].op.new)

(* The next file is read; one that is gone ends the handler with an error. *)
ReadFile(t) ==
  /\ At(t, "running")
  /\ \E n \in call[t].todo :
       call' = [call EXCEPT ![t].todo = IF n \in Listed THEN @ \ {n} ELSE {}]
  /\ UNCHANGED <<box, fails, keyOk>>

(* _get_next_peer_ip, then the conf file and the block. *)
NextPeerIp(t) == Agent!Allocate(t) /\ UNCHANGED <<call, fails, keyOk>>

(* _add_peer_to_server: syncconf, route, verification. *)
AddPeerToServer(t) ==
  (Agent!Publish(t) \/ Agent!AddRoute(t) \/ Agent!Verify(t)) /\ UNCHANGED <<call, fails, keyOk>>

(* _remove_peer_from_server: syncconf, routes. *)
RemovePeerFromServer(t) ==
  (Agent!Unpublish(t) \/ Agent!DelRoutes(t)) /\ UNCHANGED <<call, fails, keyOk>>

(* The handler returns, to a dashboard that may have stopped listening. *)
Reply(t) ==
  /\ At(t, "running")
  /\ call[t].todo = {} /\ Agent!AtRest(t)
  /\ Answered(t)
  /\ UNCHANGED <<box, fails, keyOk>>

(* A wrong key becomes older than the window. *)
Expire ==
  /\ fails > 0
  /\ fails' = fails - 1
  /\ UNCHANGED <<box, call, keyOk>>

(* The agent restarts, with the process or the whole machine, perhaps with another key: *)
(* handlers, lock and failures are forgotten.                                           *)
DropHandlers ==
  /\ call' = [t \in Tasks |-> Idle]
  /\ fails' = 0
  /\ keyOk' \in BOOLEAN

AgentRestart == DropHandlers /\ Agent!ApiRestart

BoxRestart == DropHandlers /\ Agent!HostRestart

Begin(t) == CreatePeer(t) \/ DeletePeer(t) \/ UpdatePeer(t)

Handle(t) ==
  ReadFile(t) \/ NextPeerIp(t) \/ AddPeerToServer(t) \/ RemovePeerFromServer(t) \/ Reply(t)

Next ==
  \/ \E t \in Tasks :
       \/ AskCreate(t) \/ AskUpdate(t) \/ AskDelete(t)
       \/ ListPeers(t) \/ Health(t) \/ PeerStats(t) \/ GetPeerConfig(t)
       \/ Begin(t) \/ Handle(t)
  \/ WrongKey \/ FixKey \/ Expire
  \/ AgentRestart \/ BoxRestart

Spec == Init /\ [][Next]_vars

(* asyncio.Lock is first come, first served, and commands end. Nothing is assumed of the *)
(* network or of the dashboard.                                                          *)
FairSpec ==
  /\ Spec
  /\ \A t \in Tasks : SF_vars(Begin(t)) /\ WF_vars(Handle(t))
  /\ WF_vars(Expire)
-----------------------------------------------------------------------------
Call == [pc : {"idle", "queued", "running"}, op : Ops \cup {Idle.op},
         todo : SUBSET Names]

TypeOK ==
  /\ Agent!TypeOK
  /\ call \in [Tasks -> Call]
  /\ fails \in 0..AuthLimit
  /\ keyOk \in BOOLEAN

(* Whatever was given up, retried and renamed, every registered key is under a name that *)
(* the listing shows, so that a delete can reach it.                                     *)
Reachable == \A b \in blocks : b.name \in Listed

(* A peer that is served stays served for as long as it is registered and the interface *)
(* is there: no call takes the address of another call's peer, no retry that of the     *)
(* attempt before it.                                                                   *)
ServedStays ==
  [][up' => \A b \in blocks' : Agent!Claim(b) \in live => Agent!Claim(b) \in live']_vars

(* When a delete ends well nothing of that name is registered any more, however many *)
(* abandoned creates have left a key under it.                                       *)
DeleteSettles ==
  [][\A t \in Tasks : call[t].op.kind = "delete" /\ Agent!DelRoutes(t) =>
       \A b \in blocks' \cup confs' : b.name # call[t].op.name]_vars

(* A handler nobody waits for ends all the same, and so does everyone behind it. *)
HandlersEnd == \A t \in Tasks : call[t].pc \in {"queued", "running"} ~> At(t, "idle")

(* The dashboard is not locked out for ever by what it keeps asking with a wrong key. *)
LockoutEnds == fails >= AuthLimit ~> fails < AuthLimit
=================================================================================
