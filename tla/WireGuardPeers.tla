----------------------------- MODULE WireGuardPeers -----------------------------
(***************************************************************************)
(* Lifecycle of the WireGuard peers of one box: VPNManager's WireGuard     *)
(* methods in src/api/main.py, which every region agent runs as a copy     *)
(* (src/region-agent/wireguard_core.py).                                   *)
(*                                                                         *)
(* A peer exists in four places that no transaction ties together: its     *)
(* .conf file, its [Peer] block in wg_confs/wg0.conf, the running          *)
(* interface, and the kernel's route table. A request is a coroutine that  *)
(* can be interrupted at every await, here the subprocess calls; between   *)
(* two awaits it is one action. An asyncio lock serialises create, rename  *)
(* and delete, and nothing else.                                           *)
(*                                                                         *)
(* A peer is [name, key, ip]: the name is its file name and the "# name"   *)
(* tag of its block, the key stands for the key pair (keys are numbered as *)
(* they are generated, so a larger key is a later block of wg0.conf), the  *)
(* ip is the last octet of its tunnel address.                             *)
(***************************************************************************)
EXTENDS Integers, Sequences, FiniteSets, FiniteSetsExt

CONSTANTS
  Names,        \* peer names
  Extensions,   \* Extensions[n]: the names that start with n, n included
  Provisioned,  \* names of the peers the container itself put into wg0.conf (PEERS=...)
  Tasks,        \* concurrent HTTP requests
  NoTask,       \* value of the lock when nobody holds it
  NoPeer,       \* what a task at rest works on
  LastOctet,    \* the largest octet wg can parse (255)
  MaxKey,       \* bound: how many keys are ever generated
  Faults        \* which commands may fail for no reason of the model's: "show", "sync", "route"

ASSUME NamesAssumption ==
  /\ Provisioned \in Seq(Names)
  /\ Extensions \in [Names -> SUBSET Names]
  /\ \A n \in Names : n \in Extensions[n]
ASSUME TasksAssumption == NoTask \notin Tasks
ASSUME BoundsAssumption ==
  /\ LastOctet \in Nat
  /\ MaxKey \in Nat
  /\ MaxKey >= Len(Provisioned)
  /\ Faults \subseteq {"show", "sync", "route"}

VARIABLES
  confs,    \* the files peers/NAME.conf
  blocks,   \* the [Peer] blocks of wg_confs/wg0.conf
  live,     \* the running interface: which key owns which allowed address
  routes,   \* addresses with a route to wg0
  up,       \* the interface exists
  lock,     \* wireguard_peer_lock: who holds it
  nextKey,  \* the next key pair
  task      \* what every request is doing

vars == <<confs, blocks, live, routes, up, lock, nextKey, task>>

Peer == [name : Names, key : Nat, ip : Nat]
Claim(p) == [key |-> p.key, ip |-> p.ip]
IpsOf(S) == {p.ip : p \in S}

(* "ok" and "error" are tasks at rest: the answer to the task's last request. The other *)
(* values are the await a request is suspended at.                                      *)
Resting == {"ok", "error"}
Creating == {"allocate", "publish", "route", "verify"}
Deleting == {"unpublish", "unroute"}
AtRest(t) == task[t].pc \in Resting

Rest(answer) == [pc |-> answer, peer |-> NoPeer, ips |-> {}]
(* Leave the critical section and answer the request. *)
FinishUncleared(t, answer) ==
  /\ task' = [task EXCEPT ![t].pc = answer]
  /\ lock' = NoTask

Finish(t, answer) ==
  /\ task' = [task EXCEPT ![t] = Rest(answer)]
  /\ lock' = NoTask

Failable(command) == command \in Faults

(* An off-by-one: the highest address seen, not the one after it. *)
LastIp(seen) == Max(seen \cup {1})

(* The address after the highest one seen, 10.13.13.1 being the server's own. *)
NextIp(seen) == Max(seen \cup {1}) + 1

(* wg syncconf reads the whole file or none of it. *)
Parsable(B) == \A b \in B : b.ip <= LastOctet

(* The interface after wg syncconf: exactly the file's peers. An allowed address *)
(* belongs to one peer, and a later block takes it from an earlier one.          *)
Synced(B) == {Claim(b) : b \in {c \in B : \A d \in B : d.ip = c.ip => d.key <= c.key}}

(* Blocks that a delete of n removes: those whose text contains "# n". *)
Tagged(B, n) == {b \in B : b.name \in Extensions[n]}

Retag(S, old, new) == {IF p.name = old THEN [p EXCEPT !.name = new] ELSE p : p \in S}

Init ==
  /\ confs = {}
  /\ blocks = {[name |-> Provisioned[i], key |-> i, ip |-> i + 1] : i \in DOMAIN Provisioned}
  /\ live = Synced(blocks)
  /\ routes = IpsOf(blocks)
  /\ up = TRUE
  /\ lock = NoTask
  /\ nextKey = Len(Provisioned) + 1
  /\ task = [t \in Tasks |-> Rest("ok")]
-----------------------------------------------------------------------------
(* create_wireguard_peer: take the lock, generate the keys, read the live server *)
(* key (503 without an interface), and read the addresses of the conf files.     *)
NoLock == TRUE
LockFree == lock = NoTask

Create(t, n) ==
  /\ AtRest(t)
  /\ LockFree
  /\ nextKey <= MaxKey
  /\ IF up
     THEN /\ lock' = t
          /\ task' = [task EXCEPT ![t] = [pc |-> "allocate",
                                          peer |-> [name |-> n, key |-> 0, ip |-> 0],
                                          ips |-> IpsOf(confs)]]
     ELSE Finish(t, "error")
  /\ UNCHANGED <<confs, blocks, live, routes, up, nextKey>>

(* "wg show allowed-ips" answers, or fails and is ignored; the address is chosen, *)
(* the conf file written (over one of the same name) and the block appended.      *)
ShownNothing == {{}}
Shown == {IpsOf(live)} \cup (IF Failable("show") THEN {{}} ELSE {})

WriteConf(p) == {c \in confs : c.name # p.name} \cup {p}

Allocate(t) ==
  /\ task[t].pc = "allocate"
  /\ \E shown \in Shown :
       LET p == [name |-> task[t].peer.name, key |-> nextKey,
                 ip |-> NextIp(task[t].ips \cup shown)]
       IN /\ confs' = WriteConf(p)
          /\ blocks' = blocks \cup {p}
          /\ task' = [task EXCEPT ![t] = [pc |-> "publish", peer |-> p, ips |-> {}]]
  /\ nextKey' = nextKey + 1
  /\ UNCHANGED <<live, routes, up, lock>>

(* wg syncconf: succeeds on a parsable file when the interface is up. *)
SyncOk == up /\ Parsable(blocks)

SyncLive(t, next) ==
  /\ live' = Synced(blocks)
  /\ task' = [task EXCEPT ![t].pc = next]
  /\ UNCHANGED lock

SyncFailsHoldingLock(t) ==
  /\ ~SyncOk \/ Failable("sync")
  /\ task' = [task EXCEPT ![t] = Rest("error")]
  /\ UNCHANGED <<live, lock>>

SyncFails(t) ==
  /\ ~SyncOk \/ Failable("sync")
  /\ Finish(t, "error")
  /\ UNCHANGED live

Publish(t) ==
  /\ task[t].pc = "publish"
  /\ \/ SyncOk /\ SyncLive(t, "route")
     \/ SyncFails(t)
  /\ UNCHANGED <<confs, blocks, routes, up, nextKey>>

(* "ip route add": an existing route counts as success. *)
AddRouteUnchecked(t) ==
  /\ task[t].pc = "route"
  /\ \E added \in {{}, {task[t].peer.ip}} : routes' = routes \cup added
  /\ task' = [task EXCEPT ![t].pc = "verify"]
  /\ UNCHANGED <<confs, blocks, live, up, lock, nextKey>>

AddRoute(t) ==
  /\ task[t].pc = "route"
  /\ \/ /\ routes' = routes \cup {task[t].peer.ip}
        /\ task' = [task EXCEPT ![t].pc = "verify"]
        /\ UNCHANGED lock
     \/ /\ Failable("route")
        /\ task[t].peer.ip \notin routes
        /\ Finish(t, "error")
        /\ UNCHANGED routes
  /\ UNCHANGED <<confs, blocks, live, up, nextKey>>

(* The second "wg show allowed-ips": the new key must own the address it was given. *)
Verify(t) ==
  /\ task[t].pc = "verify"
  /\ \/ Claim(task[t].peer) \in live /\ Finish(t, "ok")
     \/ /\ Claim(task[t].peer) \notin live \/ Failable("show")
        /\ Finish(t, "error")
  /\ UNCHANGED <<confs, blocks, live, routes, up, nextKey>>
-----------------------------------------------------------------------------
(* delete_wireguard_peer: the file goes first, then the blocks of wg0.conf. Unknown *)
(* names are not refused.                                                           *)
Delete(t, n) ==
  /\ AtRest(t)
  /\ LockFree
  /\ lock' = t
  /\ confs' = {c \in confs : c.name # n}
  /\ blocks' = blocks \ Tagged(blocks, n)
  /\ task' = [task EXCEPT ![t] = [pc |-> "unpublish", peer |-> NoPeer,
                                  ips |-> IpsOf(Tagged(blocks, n))]]
  /\ UNCHANGED <<live, routes, up, nextKey>>

(* On failure the file and the blocks are already gone. *)
UnpublishUnchecked(t) ==
  /\ task[t].pc = "unpublish"
  /\ task' = [task EXCEPT ![t].pc = "unroute"]
  /\ live' = IF SyncOk THEN Synced(blocks) ELSE live
  /\ UNCHANGED <<confs, blocks, routes, up, lock, nextKey>>

Unpublish(t) ==
  /\ task[t].pc = "unpublish"
  /\ \/ SyncOk /\ SyncLive(t, "unroute")
     \/ SyncFails(t)
  /\ UNCHANGED <<confs, blocks, routes, up, nextKey>>

(* "ip route del" of every removed block, best effort. *)
DelRoutes(t) ==
  /\ task[t].pc = "unroute"
  /\ \E left \in IF Failable("route") THEN SUBSET task[t].ips ELSE {{}} :
       routes' = routes \ (task[t].ips \ left)
  /\ Finish(t, "ok")
  /\ UNCHANGED <<confs, blocks, live, up, nextKey>>

(* update_wireguard_peer: no await inside, so one step under the lock. Changing only *)
(* the client's own AllowedIPs changes nothing of this state.                        *)
CanRename(old, new) ==
  /\ \E c \in confs : c.name = old
  /\ old # new => \A c \in confs : c.name # new

RenameFileOnly(t, old, new) ==
  /\ AtRest(t)
  /\ LockFree
  /\ CanRename(old, new)
  /\ confs' = Retag(confs, old, new)
  /\ Finish(t, "ok")
  /\ UNCHANGED <<blocks, live, routes, up, nextKey>>

Rename(t, old, new) ==
  /\ AtRest(t)
  /\ LockFree
  /\ IF CanRename(old, new)
     THEN /\ confs' = Retag(confs, old, new)
          /\ blocks' = Retag(blocks, old, new)
          /\ Finish(t, "ok")
     ELSE /\ Finish(t, "error")
          /\ UNCHANGED <<confs, blocks>>
  /\ UNCHANGED <<live, routes, up, nextKey>>

(* remove_all_wireguard_peers: no lock and no syncconf. *)
RemoveAll(t) ==
  /\ AtRest(t)
  /\ confs' = {}
  /\ blocks' = {}
  /\ task' = [task EXCEPT ![t] = Rest("ok")]
  /\ UNCHANGED <<live, routes, up, lock, nextKey>>
-----------------------------------------------------------------------------
(* The API process restarts (uvicorn --reload, a crash): requests and lock are gone, *)
(* files and interface stay.                                                         *)
DropRequests ==
  /\ task' = [t \in Tasks |-> Rest("error")]
  /\ lock' = NoTask

ApiRestart ==
  /\ DropRequests
  /\ UNCHANGED <<confs, blocks, live, routes, up, nextKey>>

(* The host restarts: wg-quick brings the interface up from wg0.conf, with a route *)
(* for every served address, or not at all.                                       *)
HostRestart ==
  /\ DropRequests
  /\ up' = Parsable(blocks)
  /\ live' = IF up' THEN Synced(blocks) ELSE {}
  /\ routes' = IpsOf(live')
  /\ UNCHANGED <<confs, blocks, nextKey>>

Step(t) ==
  \/ Allocate(t) \/ Publish(t) \/ AddRoute(t) \/ Verify(t)
  \/ Unpublish(t) \/ DelRoutes(t)

Request(t) ==
  \/ \E n \in Names : Create(t, n) \/ Delete(t, n)
  \/ \E old, new \in Names : Rename(t, old, new)
  \/ RemoveAll(t)

Next ==
  \/ \E t \in Tasks : Step(t) \/ Request(t)
  \/ ApiRestart
  \/ HostRestart

Spec == Init /\ [][Next]_vars

(* A command the API started ends, and asyncio resumes the coroutine. *)
FairSpec == Spec /\ \A t \in Tasks : WF_vars(Step(t))
-----------------------------------------------------------------------------
TaskState ==
  [pc : Resting, peer : {NoPeer}, ips : {{}}]
    \cup [pc : Creating, peer : Peer, ips : SUBSET Nat]
    \cup [pc : Deleting, peer : {NoPeer}, ips : SUBSET Nat]

TypeOK ==
  /\ confs \subseteq Peer
  /\ blocks \subseteq Peer
  /\ live \subseteq [key : Nat, ip : Nat]
  /\ routes \subseteq Nat
  /\ up \in BOOLEAN
  /\ lock \in Tasks \cup {NoTask}
  /\ nextKey \in 1..(MaxKey + 1)
  /\ task \in [Tasks -> TaskState]

(* No two peers of wg0.conf claim the same tunnel address, whatever creates, deletes,  *)
(* renames and remove-alls interleave, commands fail or processes restart: the address *)
(* chosen before an await is still free when it is written after it.                   *)
UniqueAddresses == \A b, c \in blocks : b.ip = c.ip => b = c

(* What the interface serves at a registered address is the registered peer: a key that *)
(* was deleted or removed but is still served, because a syncconf failed or was never    *)
(* called, never receives the traffic of a peer created since.                           *)
ServedToOwner == \A s \in live, b \in blocks : s.ip = b.ip => s = Claim(b)

(* Every conf file an administrator can download names a key and an address that       *)
(* wg0.conf registers under the same name, at every await and after every crash at one. *)
FilesAgree == confs \subseteq blocks

Answers(t, pcs, answer) == task[t].pc \in pcs /\ task'[t].pc = answer

(* A create that answers with a configuration has produced one that works: unless a    *)
(* remove-all took the file meanwhile, the key is registered, served at the address in *)
(* the file, and return traffic has a route.                                           *)
CreateOkUsable ==
  [][\A t \in Tasks : LET p == task[t].peer IN
       Answers(t, {"verify"}, "ok") /\ p \in confs
         => p \in blocks /\ Claim(p) \in live /\ p.ip \in routes /\ p.ip <= LastOctet]_vars

(* A delete that answers ok has cut off every address it removed and nobody else: the  *)
(* peers that still have a conf file are still served.                                 *)
DeleteExact ==
  [][\A t \in Tasks : Answers(t, {"unroute"}, "ok") =>
       /\ \A s \in live' : s.ip \notin task[t].ips
       /\ \A c \in confs' : Claim(c) \in live']_vars

(* When remove-all has answered ok and nothing else is in progress, no removed peer is *)
(* served any more: what the interface runs is what wg0.conf says.                     *)
RemoveAllTakesEffect ==
  [][\A t \in Tasks : RemoveAll(t) /\ lock = NoTask => live' \subseteq Synced(blocks')]_vars

(* Every request is answered and gives the lock back, whichever command fails on the way. *)
RequestsFinish ==
  \A t \in Tasks : (~AtRest(t) \/ lock = t) ~> (AtRest(t) /\ lock # t)

(* The refinement: files and blocks are one durable registration, the interface what *)
(* the tunnel serves.                                                                *)
Registry == INSTANCE PeerRegistry
              WITH Addresses <- 2..(MaxKey + 1), registered <- blocks, served <- live
RefinesRegistry == Registry!Spec
=================================================================================
