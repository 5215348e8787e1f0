-------------------------- MODULE OpenVPNClientsProofs --------------------------
(***************************************************************************)
(* Theorems about OpenVPNClients for every set of names and requests, any  *)
(* number of scripts and certificates, and every fault.                    *)
(*                                                                         *)
(* The argument: a script that is waited for belongs to exactly one        *)
(* request, a key pair to exactly one name; work on a name that meets a    *)
(* removal of it is noted as a disturbance at the latest when a            *)
(* certificate is signed; so a removal that meets nothing finds the        *)
(* certificate it revoked, publishes it, and only then takes the files.    *)
(***************************************************************************)
EXTENDS OpenVPNClients, MaxTheorems, FiniteSetTheorems, TLAPS

(* A script that is waited for is what its request waits for, and the only one. *)
Waits(kind) == IF kind = "sign" THEN "build" ELSE kind
Ownership ==
  /\ \A s \in Slots : script[s].owner \in Tasks =>
       /\ task[script[s].owner].pc = Waits(script[s].kind)
       /\ task[script[s].owner].name = script[s].name
       /\ task[script[s].owner].exit = "none"
  /\ \A r, s \in Slots : script[r].owner \in Tasks /\ script[r].owner = script[s].owner => r = s

LEMMA MinIsIn ==
  ASSUME NEW T \in SUBSET Slots, T # {}
  PROVE  Min(T) \in T
<1>1. T \subseteq Nat
  BY BoundsAssumption DEF Slots
<1>2. PICK m \in T : \A y \in T : m <= y
  BY <1>1, LeastElement
<1> QED BY <1>2 DEF Min

Kinds == {"build", "revoke", "crl"}

ScriptState ==
  [kind : {"none", "build", "sign", "revoke", "crl"}, name : Names, owner : Tasks \cup {NoTask}]
RequestState ==
  [pc : {"idle", "status", "build", "revoke", "crl"}, name : Names, exit : {"none", "ok", "failed"}]
Scripts == [Slots -> ScriptState]
Requests == [Tasks -> RequestState]

(* What an action does to scripts and requests, point by point. *)
Started(t, kind, n) ==
  /\ \E s \in Slots :
       /\ script[s].kind = "none"
       /\ script'[s] = [kind |-> kind, name |-> n, owner |-> t]
       /\ \A r \in Slots \ {s} : script'[r] = script[r]
  /\ task'[t] = [pc |-> kind, name |-> n, exit |-> "none"]
  /\ \A u \in Tasks \ {t} : task'[u] = task[u]

Ended(s, code) ==
  /\ script'[s].kind = "none" /\ script'[s].owner = NoTask
  /\ \A r \in Slots \ {s} : script'[r] = script[r]
  /\ \A u \in Tasks : /\ task'[u].pc = task[u].pc /\ task'[u].name = task[u].name
                      /\ task'[u].exit = IF u = script[s].owner THEN code ELSE task[u].exit

LEMMA ExecFacts ==
  ASSUME TypeOK, NEW t \in Tasks, NEW n \in Names, NEW kind \in Kinds, Exec(t, kind, n)
  PROVE  Started(t, kind, n) /\ script' \in Scripts /\ task' \in Requests
<1> DEFINE free == {s \in Slots : script[s].kind = "none"}
           s == Min(free)
           new == [kind |-> kind, name |-> n, owner |-> t]
           now == [pc |-> kind, name |-> n, exit |-> "none"]
<1>1. free # {} /\ script' = [script EXCEPT ![s] = new] /\ task' = [task EXCEPT ![t] = now]
  BY DEF Exec
<1>2. s \in free
  BY <1>1, MinIsIn
<1>3. new \in ScriptState /\ now \in RequestState
  BY DEF Kinds, ScriptState, RequestState
<1>4. s \in Slots /\ script[s].kind = "none"
  BY <1>2
<1> HIDE DEF s, new, now
<1>5. script' \in Scripts /\ script'[s] = new /\ \A r \in Slots \ {s} : script'[r] = script[r]
  BY <1>1, <1>3, <1>4 DEF TypeOK, Scripts, ScriptState
<1>6. task' \in Requests /\ task'[t] = now /\ \A u \in Tasks \ {t} : task'[u] = task[u]
  BY <1>1, <1>3 DEF TypeOK, Requests, RequestState
<1> QED BY <1>4, <1>5, <1>6 DEF new, now, Started

LEMMA RestFacts ==
  ASSUME TypeOK, NEW t \in Tasks, task' = [task EXCEPT ![t] = Rest]
  PROVE  /\ task'[t] = Rest /\ Rest.pc = "idle" /\ Rest.exit = "none"
         /\ \A u \in Tasks \ {t} : task'[u] = task[u]
         /\ task' \in Requests
BY NamesAssumption DEF TypeOK, Rest, Requests, RequestState

LEMMA ExitFacts ==
  ASSUME TypeOK, NEW s \in Slots, NEW code \in {"ok", "failed"}, Exit(s, code)
  PROVE  Ended(s, code) /\ script' \in Scripts /\ task' \in Requests
<1>1. /\ script'[s].kind = "none" /\ script'[s].owner = NoTask
      /\ \A r \in Slots \ {s} : script'[r] = script[r]
      /\ script' \in Scripts
  BY NamesAssumption DEF TypeOK, Exit, NoScript, Scripts, ScriptState
<1>2. task \in Requests
  BY DEF TypeOK, Requests, RequestState
<1>3. CASE script[s].owner = NoTask
  <2>1. task' = task /\ NoTask \notin Tasks
    BY <1>3, NamesAssumption DEF Exit
  <2>2. \A u \in Tasks : u # script[s].owner
    BY <1>3, <2>1
  <2> QED BY <1>1, <1>2, <2>1, <2>2 DEF Ended
<1>4. CASE script[s].owner # NoTask
  <2>1. script[s].owner \in Tasks /\ task' = [task EXCEPT ![script[s].owner].exit = code]
    BY <1>4 DEF Exit, TypeOK
  <2>2. task' \in Requests
    BY <1>2, <2>1 DEF Requests, RequestState
  <2>3. \A u \in Tasks : /\ task'[u].pc = task[u].pc /\ task'[u].name = task[u].name
                         /\ task'[u].exit = IF u = script[s].owner THEN code ELSE task[u].exit
    BY <1>2, <2>1 DEF Requests, RequestState
  <2> QED BY <1>1, <2>2, <2>3 DEF Ended
<1> QED BY <1>3, <1>4

LEMMA AbandonFacts ==
  ASSUME TypeOK, NEW t \in Tasks, Abandon(t)
  PROVE  /\ \A s \in Slots : /\ script'[s].kind = script[s].kind /\ script'[s].name = script[s].name
                             /\ script'[s].owner = IF script[s].owner = t THEN NoTask
                                                   ELSE script[s].owner
         /\ script' \in Scripts
BY DEF TypeOK, Abandon, Scripts, ScriptState

(* What is disturbed stays so, and so is what is said to be. *)
Notes(names) ==
  \A n \in names : {ovpn[n], pki[n].id} \ {0} \subseteq disturbed'

LEMMA DisturbFacts ==
  ASSUME TypeOK, NEW names \in SUBSET Names, Disturb(names)
  PROVE  /\ disturbed \subseteq disturbed' /\ revoked \ crl \subseteq disturbed'
         /\ disturbed' \subseteq Ids
         /\ Notes(names)
BY DEF TypeOK, Disturb, Notes

LEMMA MeetsFacts ==
  ASSUME TypeOK, NEW n \in Names, NEW kinds, Meets(n, kinds)
  PROVE  /\ disturbed \subseteq disturbed' /\ disturbed' \subseteq Ids
         /\ At(n) \cap kinds # {} => Notes({n})
BY DisturbFacts DEF Meets, TypeOK

LEMMA AtFacts ==
  ASSUME NEW n
  PROVE  /\ \A t \in Tasks : task[t].name = n => task[t].pc \in At(n)
         /\ \A s \in Slots : script[s].name = n => script[s].kind \in At(n)
BY DEF At
-----------------------------------------------------------------------------
(* A key pair is one name's, and signed when easyrsa says so. *)
KeysApart ==
  /\ \A n \in Names :
       /\ pki[n].id < nextId /\ ovpn[n] < nextId
       /\ pki[n].crt => pki[n].id # 0
       /\ pki[n].id # 0 => (pki[n].crt <=> pki[n].id \in issued)
       /\ ovpn[n] # 0 => ovpn[n] \in issued
  /\ \A n, m \in Names :
       n # m => pki[n].id = 0 \/ (pki[n].id # pki[m].id /\ pki[n].id # ovpn[m])
  /\ \A id \in issued : id < nextId

(* A revocation nobody waits for meets disturbed certificates only. *)
OrphansHarmless ==
  \A s \in Slots : script[s].kind = "revoke" /\ script[s].owner = NoTask
                     /\ pki[script[s].name].crt
    => pki[script[s].name].id \in disturbed

(* A revoked certificate that can still be read is being deleted. *)
RevokedGoing ==
  \A n \in Names :
    /\ pki[n].crt /\ pki[n].id \in revoked => Deleting(n) \/ pki[n].id \in disturbed
    /\ ovpn[n] \in revoked => Deleting(n) \/ ovpn[n] \in disturbed

(* A create that has what it wants, and a removal, have met. *)
BuiltMeets ==
  \A t, u \in Tasks :
    task[t].pc = "build" /\ task[t].exit = "ok" /\ task[u].pc \in Removing
      /\ task[u].name = task[t].name /\ pki[task[t].name].crt
    => pki[task[t].name].id \in disturbed

(* What a delete is about to remove is revoked. *)
RemovedRevoked ==
  \A t \in Tasks :
    /\ (task[t].pc = "revoke" /\ task[t].exit # "none") \/ task[t].pc = "crl"
    /\ pki[task[t].name].crt
    => pki[task[t].name].id \in revoked \cup disturbed

(* A revocation is published, or about to be. *)
Publishing ==
  \A id \in revoked \ (crl \cup disturbed) :
    \E t \in Tasks : \/ task[t].pc = "revoke" /\ task[t].exit = "ok"
                     \/ task[t].pc = "crl" /\ task[t].exit = "none"

(* A certificate that nobody revoked has its files. *)
Kept ==
  \A id \in issued \ (revoked \cup disturbed) : \E n \in Names : pki[n] = [id |-> id, crt |-> TRUE]

Inv ==
  /\ TypeOK /\ Ownership /\ KeysApart /\ OrphansHarmless /\ RevokedGoing
  /\ BuiltMeets /\ RemovedRevoked /\ Publishing /\ Kept

LEMMA FilesKept ==
  ASSUME Inv, UNCHANGED files, disturbed \subseteq disturbed'
  PROVE  KeysApart' /\ Kept'
BY DEF Inv, files, KeysApart, Kept

(* A request that asks for a script: it begins a create or a delete, or goes on with one. *)
Asks(t, kind, n) ==
  \/ task[t].pc = "idle" /\ kind = "build"
  \/ task[t].pc = "idle" /\ kind = "revoke" /\ Meets(n, Working)
  \/ task[t].pc = "status" /\ kind = "revoke" /\ n = task[t].name
  \/ task[t].pc = "revoke" /\ task[t].exit = "ok" /\ kind = "crl" /\ n = task[t].name

LEMMA ExecKeeps ==
  ASSUME Inv, NEW t \in Tasks, NEW n \in Names, NEW kind \in Kinds,
         Exec(t, kind, n), Asks(t, kind, n),
         UNCHANGED files, disturbed \subseteq disturbed', disturbed' \subseteq Ids
  PROVE  Inv'
<1>0. TypeOK /\ NoTask \notin Tasks /\ kind \in {"build", "revoke", "crl"}
  BY NamesAssumption DEF Inv, Kinds
<1>e. Started(t, kind, n) /\ script' \in Scripts /\ task' \in Requests
  BY <1>0, ExecFacts
<1>1. PICK s \in Slots :
        /\ script[s].kind = "none"
        /\ script'[s] = [kind |-> kind, name |-> n, owner |-> t]
        /\ \A r \in Slots \ {s} : script'[r] = script[r]
  BY <1>e DEF Started
<1>2. /\ task'[t] = [pc |-> kind, name |-> n, exit |-> "none"]
      /\ \A u \in Tasks \ {t} : task'[u] = task[u]
  BY <1>e DEF Started
<1>3. TypeOK'
  BY <1>0, <1>e DEF TypeOK, files, Scripts, ScriptState, Requests, RequestState
<1>4. \A r \in Slots : script[r].owner # t
  <2>1. \A r \in Slots : script[r].kind \in {"none", "build", "sign", "revoke", "crl"}
    BY <1>0 DEF TypeOK
  <2> QED BY <2>1 DEF Inv, Ownership, Waits, Asks
<1>5. Ownership'
  <2>1. \A r \in Slots : script'[r].owner = t => r = s
    BY <1>1, <1>4
  <2>2. ASSUME NEW r \in Slots, script'[r].owner \in Tasks
        PROVE  /\ task'[script'[r].owner].pc = Waits(script'[r].kind)
               /\ task'[script'[r].owner].name = script'[r].name
               /\ task'[script'[r].owner].exit = "none"
    <3>1. CASE r = s
      BY <1>0, <1>1, <1>2, <3>1 DEF Waits
    <3>2. CASE r # s
      <4>1. script'[r] = script[r] /\ script[r].owner \in Tasks \ {t}
        BY <1>1, <1>4, <2>2, <3>2
      <4> QED BY <1>2, <4>1 DEF Inv, Ownership
    <3> QED BY <3>1, <3>2
  <2>3. ASSUME NEW r \in Slots, NEW q \in Slots, script'[r].owner \in Tasks,
               script'[r].owner = script'[q].owner
        PROVE  r = q
    BY <1>1, <1>4, <2>1, <2>3 DEF Inv, Ownership
  <2> QED BY <2>2, <2>3 DEF Ownership
<1>6. KeysApart' /\ Kept'
  BY FilesKept
<1>7. OrphansHarmless'
  BY <1>0, <1>1 DEF Inv, OrphansHarmless, files
<1>8. \A m \in Names : Deleting(m) => Deleting(m)'
  <2> SUFFICES ASSUME NEW m \in Names, NEW u \in Tasks,
                      task[u].pc \in {"revoke", "crl"}, task[u].name = m
               PROVE  Deleting(m)'
    BY DEF Deleting
  <2>1. CASE u = t
    BY <1>2, <2>1 DEF Asks, Deleting
  <2>2. CASE u # t
    BY <1>2, <2>2 DEF Deleting
  <2> QED BY <2>1, <2>2
<1>9. RevokedGoing'
  BY <1>8 DEF Inv, RevokedGoing, files
<1>10. BuiltMeets'
  <2> SUFFICES ASSUME NEW b \in Tasks, NEW u \in Tasks,
                      task'[b].pc = "build", task'[b].exit = "ok", task'[u].pc \in Removing,
                      task'[u].name = task'[b].name, pki[task'[b].name].crt
               PROVE  pki[task'[b].name].id \in disturbed'
    BY DEF BuiltMeets, files
  <2>1. b # t /\ task'[b] = task[b]
    BY <1>2
  <2>2. CASE u # t
    BY <1>2, <2>1, <2>2 DEF Inv, BuiltMeets
  <2>3. CASE u = t /\ task[t].pc \in Removing /\ n = task[t].name
    BY <1>2, <2>1, <2>3 DEF Inv, BuiltMeets
  <2>4. CASE u = t /\ task[t].pc = "idle" /\ Meets(n, Working)
    <3>1. task[b].name = n /\ "build" \in At(n) \cap Working
      BY <1>2, <2>1, <2>4, AtFacts DEF Working
    <3>2. Notes({n})
      BY <1>0, <2>4, <3>1, MeetsFacts
    <3>3. pki[n].id # 0
      BY <2>1, <3>1 DEF Inv, KeysApart
    <3> QED BY <2>1, <3>1, <3>2, <3>3 DEF Notes
  <2> QED BY <1>2, <2>2, <2>3, <2>4 DEF Asks, Removing
<1>11. RemovedRevoked'
  <2> SUFFICES ASSUME NEW u \in Tasks,
                      (task'[u].pc = "revoke" /\ task'[u].exit # "none") \/ task'[u].pc = "crl",
                      pki[task'[u].name].crt
               PROVE  pki[task'[u].name].id \in revoked \cup disturbed'
    BY DEF RemovedRevoked, files
  <2>1. CASE u # t
    BY <1>2, <2>1 DEF Inv, RemovedRevoked
  <2>2. CASE u = t
    BY <1>2, <2>2 DEF Inv, RemovedRevoked, Asks
  <2> QED BY <2>1, <2>2
<1>12. Publishing'
  <2> SUFFICES ASSUME NEW id \in revoked \ (crl \cup disturbed')
               PROVE  \E u \in Tasks : \/ task'[u].pc = "revoke" /\ task'[u].exit = "ok"
                                       \/ task'[u].pc = "crl" /\ task'[u].exit = "none"
    BY DEF Publishing, files
  <2>1. PICK u \in Tasks : \/ task[u].pc = "revoke" /\ task[u].exit = "ok"
                           \/ task[u].pc = "crl" /\ task[u].exit = "none"
    BY DEF Inv, Publishing
  <2>2. CASE u = t
    BY <1>2, <2>1, <2>2 DEF Asks
  <2>3. CASE u # t
    BY <1>2, <2>1, <2>3
  <2> QED BY <2>2, <2>3
<1> QED BY <1>3, <1>5, <1>6, <1>7, <1>9, <1>10, <1>11, <1>12 DEF Inv

LEMMA OwnersStay ==
  ASSUME Inv,
         \A s \in Slots : script'[s].owner \in Tasks =>
           /\ script'[s].owner = script[s].owner /\ script'[s].name = script[s].name
           /\ Waits(script'[s].kind) = Waits(script[s].kind)
           /\ task'[script[s].owner].pc = task[script[s].owner].pc
           /\ task'[script[s].owner].name = task[script[s].owner].name
           /\ task'[script[s].owner].exit = task[script[s].owner].exit
  PROVE  Ownership'
BY DEF Inv, Ownership

(* Nobody waits for a request that is at rest, or whose script has ended. *)
LEMMA NotWaitedFor ==
  ASSUME Inv, NEW t \in Tasks, task[t].pc \in {"idle", "status"} \/ task[t].exit # "none"
  PROVE  \A s \in Slots : script[s].owner # t
<1>1. \A s \in Slots : script[s].kind \in {"none", "build", "sign", "revoke", "crl"}
  BY DEF Inv, TypeOK
<1> QED BY <1>1 DEF Inv, Ownership, Waits

(* A request stops waiting for anything, while the files stay. *)
LEMMA LeaveKeeps ==
  ASSUME Inv, NEW t \in Tasks, task[t].pc \in {"idle", "status"}, UNCHANGED files,
         script' = script, disturbed \subseteq disturbed', disturbed' \subseteq Ids,
         task' \in Requests, \A u \in Tasks \ {t} : task'[u] = task[u],
         \/ task'[t].pc = "idle"
         \/ task'[t].pc = "status" /\ Meets(task'[t].name, Working)
  PROVE  Inv'
<1>0. TypeOK
  BY DEF Inv
<1>1. TypeOK'
  BY <1>0 DEF TypeOK, files, Requests, RequestState
<1>2. Ownership'
  BY NotWaitedFor, OwnersStay
<1>3. KeysApart' /\ Kept'
  BY FilesKept
<1>4. OrphansHarmless'
  BY DEF Inv, OrphansHarmless, files
<1>5. \A m \in Names : Deleting(m) => Deleting(m)'
  BY DEF Deleting
<1>6. RevokedGoing'
  BY <1>5 DEF Inv, RevokedGoing, files
<1>7. BuiltMeets'
  <2> SUFFICES ASSUME NEW b \in Tasks, NEW u \in Tasks,
                      task'[b].pc = "build", task'[b].exit = "ok", task'[u].pc \in Removing,
                      task'[u].name = task'[b].name, pki[task'[b].name].crt
               PROVE  pki[task'[b].name].id \in disturbed'
    BY DEF BuiltMeets, files
  <2>1. b # t /\ task'[b] = task[b]
    OBVIOUS
  <2>2. CASE u # t
    BY <2>1, <2>2 DEF Inv, BuiltMeets
  <2>3. CASE u = t
    <3> DEFINE n == task'[t].name
    <3>1. Meets(n, Working) /\ n \in Names
      BY <2>3 DEF Removing, Requests, RequestState
    <3>2. task[b].name = n /\ "build" \in At(n) \cap Working
      BY <2>1, <2>3, AtFacts DEF Working
    <3>3. Notes({n})
      BY <1>0, <3>1, <3>2, MeetsFacts
    <3>4. pki[n].id # 0
      BY <2>1, <3>1, <3>2 DEF Inv, KeysApart
    <3> QED BY <2>1, <3>2, <3>3, <3>4 DEF Notes
  <2> QED BY <2>2, <2>3
<1>8. RemovedRevoked'
  <2> SUFFICES ASSUME NEW u \in Tasks,
                      (task'[u].pc = "revoke" /\ task'[u].exit # "none") \/ task'[u].pc = "crl",
                      pki[task'[u].name].crt
               PROVE  pki[task'[u].name].id \in revoked \cup disturbed'
    BY DEF RemovedRevoked, files
  <2>1. u # t /\ task'[u] = task[u]
    OBVIOUS
  <2> QED BY <2>1 DEF Inv, RemovedRevoked
<1>9. Publishing'
  <2> SUFFICES ASSUME NEW id \in revoked \ (crl \cup disturbed')
               PROVE  \E u \in Tasks : \/ task'[u].pc = "revoke" /\ task'[u].exit = "ok"
                                       \/ task'[u].pc = "crl" /\ task'[u].exit = "none"
    BY DEF Publishing, files
  <2>1. PICK u \in Tasks : \/ task[u].pc = "revoke" /\ task[u].exit = "ok"
                           \/ task[u].pc = "crl" /\ task[u].exit = "none"
    BY DEF Inv, Publishing
  <2> QED BY <2>1
<1> QED BY <1>1, <1>2, <1>3, <1>4, <1>6, <1>7, <1>8, <1>9 DEF Inv

LEMMA CreatedKeeps ==
  ASSUME Inv, NEW t \in Tasks, Created(t)
  PROVE  Inv'
<1> DEFINE n == task[t].name
<1>0. /\ TypeOK /\ n \in Names
      /\ UNCHANGED <<pki, issued, revoked, crl, nextId, disturbed, script>>
      /\ task[t].pc = "build" /\ task[t].exit # "none"
      /\ task' = [task EXCEPT ![t] = Rest]
  BY DEF Inv, TypeOK, Created, Exited
<1>1. /\ task'[t].pc = "idle" /\ task' \in Requests
      /\ \A u \in Tasks \ {t} : task'[u] = task[u]
  BY <1>0, RestFacts
<1>2. /\ \A m \in Names : m # n => ovpn'[m] = ovpn[m]
      /\ ovpn'[n] = ovpn[n] \/ (ovpn'[n] = pki[n].id /\ pki[n].crt /\ task[t].exit = "ok")
      /\ ovpn' \in [Names -> {0} \cup Ids]
  BY <1>0 DEF Created, TypeOK
<1>3. TypeOK'
  BY <1>0, <1>1, <1>2 DEF TypeOK, Requests, RequestState
<1>4. Ownership'
  BY <1>0, <1>1, NotWaitedFor, OwnersStay
<1>5. KeysApart'
  BY <1>0, <1>2 DEF Inv, KeysApart
<1>6. OrphansHarmless' /\ Kept'
  BY <1>0 DEF Inv, OrphansHarmless, Kept
<1>7. \A m \in Names : Deleting(m) => Deleting(m)'
  BY <1>0, <1>1 DEF Deleting
<1>8. RevokedGoing'
  BY <1>0, <1>2, <1>7 DEF Inv, RevokedGoing
<1>9. BuiltMeets'
  BY <1>0, <1>1 DEF Inv, BuiltMeets, Removing
<1>10. RemovedRevoked'
  BY <1>0, <1>1 DEF Inv, RemovedRevoked
<1>11. Publishing'
  <2> SUFFICES ASSUME NEW id \in revoked \ (crl \cup disturbed)
               PROVE  \E u \in Tasks : \/ task'[u].pc = "revoke" /\ task'[u].exit = "ok"
                                       \/ task'[u].pc = "crl" /\ task'[u].exit = "none"
    BY <1>0 DEF Publishing
  <2>1. PICK u \in Tasks : \/ task[u].pc = "revoke" /\ task[u].exit = "ok"
                           \/ task[u].pc = "crl" /\ task[u].exit = "none"
    BY DEF Inv, Publishing
  <2> QED BY <1>0, <1>1, <2>1
<1> QED BY <1>3, <1>4, <1>5, <1>6, <1>8, <1>9, <1>10, <1>11 DEF Inv

(* The files of a name go: at the end of a delete, or because a revocation took too long, *)
(* which is a disturbance.                                                                *)
LEMMA RemoveKeeps ==
  ASSUME Inv, NEW t \in Tasks, RemoveFiles(t), task[t].pc \in {"revoke", "crl"},
         \/ Deleted(t)
         \/ Abandon(t) /\ Disturb({task[t].name})
  PROVE  Inv'
<1> DEFINE n == task[t].name
<1>0. /\ TypeOK /\ n \in Names
      /\ UNCHANGED <<issued, revoked, crl, nextId>>
      /\ task' = [task EXCEPT ![t] = Rest]
  BY DEF Inv, TypeOK, RemoveFiles
<1>1. /\ task'[t].pc = "idle" /\ task' \in Requests
      /\ \A u \in Tasks \ {t} : task'[u] = task[u]
  BY <1>0, RestFacts
<1>2. /\ \A m \in Names : m # n => ovpn'[m] = ovpn[m] /\ pki'[m] = pki[m]
      /\ ovpn'[n] = 0 /\ pki'[n].id = 0 /\ ~pki'[n].crt
      /\ ovpn' \in [Names -> {0} \cup Ids] /\ pki' \in [Names -> [id : {0} \cup Ids, crt : BOOLEAN]]
  BY <1>0 DEF RemoveFiles, TypeOK, NoFiles
<1>3. /\ script' \in Scripts /\ disturbed \subseteq disturbed' /\ disturbed' \subseteq Ids
      /\ \A s \in Slots : /\ script'[s].kind = script[s].kind /\ script'[s].name = script[s].name
                          /\ script'[s].owner = script[s].owner
                               \/ (script[s].owner = t /\ script'[s].owner = NoTask)
  <2>1. CASE Deleted(t)
    <3>1. script' = script /\ disturbed' = disturbed
      BY <2>1 DEF Deleted
    <3> QED BY <1>0, <3>1 DEF TypeOK, Scripts, ScriptState
  <2>2. CASE Abandon(t) /\ Disturb({n})
    BY <1>0, <2>2, AbandonFacts, DisturbFacts
  <2> QED BY <2>1, <2>2
<1>4. \/ Deleted(t) /\ (task[t].pc = "crl" \/ task[t].exit # "none") /\ task[t].exit # "none"
        /\ (task[t].pc = "revoke" => task[t].exit = "failed") /\ script' = script
      \/ revoked \ crl \subseteq disturbed' /\ Notes({n})
         /\ \A s \in Slots : script'[s].owner # t
  <2>1. CASE Deleted(t)
    BY <2>1 DEF Deleted, Exited
  <2>2. CASE Abandon(t) /\ Disturb({n})
    BY <1>0, <2>2, AbandonFacts, DisturbFacts, NamesAssumption
  <2> QED BY <2>1, <2>2
<1>5. TypeOK'
  BY <1>0, <1>1, <1>2, <1>3 DEF TypeOK, Scripts, ScriptState, Requests, RequestState
<1>6. \A s \in Slots : script'[s].owner # t /\ (script'[s].owner \in Tasks => script'[s].owner = script[s].owner)
  BY <1>3, <1>4, NotWaitedFor, NamesAssumption
<1>7. Ownership'
  BY <1>1, <1>3, <1>6, OwnersStay
<1>8. KeysApart'
  <2>1. nextId > 0
    BY <1>0 DEF TypeOK
  <2> QED BY <1>0, <1>2, <2>1 DEF Inv, KeysApart
<1>9. OrphansHarmless'
  <2> SUFFICES ASSUME NEW s \in Slots, script'[s].kind = "revoke", script'[s].owner = NoTask,
                      pki'[script'[s].name].crt
               PROVE  pki'[script'[s].name].id \in disturbed'
    BY DEF OrphansHarmless
  <2>1. script[s].name \in Names /\ script[s].name # n
    BY <1>0, <1>2, <1>3 DEF TypeOK
  <2>2. script[s].owner # t
    <3>1. script[s].owner = t => script[s].name = n
      BY DEF Inv, Ownership
    <3> QED BY <2>1, <3>1
  <2> QED BY <1>2, <1>3, <2>1, <2>2 DEF Inv, OrphansHarmless
<1>10. \A m \in Names : m # n /\ Deleting(m) => Deleting(m)'
  BY <1>1 DEF Deleting
<1>11. RevokedGoing'
  <2> SUFFICES ASSUME NEW m \in Names
               PROVE  /\ pki'[m].crt /\ pki'[m].id \in revoked => Deleting(m)' \/ pki'[m].id \in disturbed'
                      /\ ovpn'[m] \in revoked => Deleting(m)' \/ ovpn'[m] \in disturbed'
    BY <1>0 DEF RevokedGoing
  <2>1. CASE m = n
    <3>1. 0 \notin revoked
      BY <1>0 DEF TypeOK, Ids
    <3> QED BY <1>2, <2>1, <3>1
  <2>2. CASE m # n
    BY <1>2, <1>3, <1>10, <2>2 DEF Inv, RevokedGoing
  <2> QED BY <2>1, <2>2
<1>12. BuiltMeets'
  <2> SUFFICES ASSUME NEW b \in Tasks, NEW u \in Tasks,
                      task'[b].pc = "build", task'[b].exit = "ok", task'[u].pc \in Removing,
                      task'[u].name = task'[b].name, pki'[task'[b].name].crt
               PROVE  pki'[task'[b].name].id \in disturbed'
    BY DEF BuiltMeets
  <2>1. b # t /\ u # t /\ task'[b] = task[b] /\ task'[u] = task[u]
    BY <1>1 DEF Removing
  <2>2. task[b].name \in Names /\ task[b].name # n
    BY <1>0, <1>2, <2>1 DEF TypeOK
  <2> QED BY <1>2, <1>3, <2>1, <2>2 DEF Inv, BuiltMeets
<1>13. RemovedRevoked'
  <2> SUFFICES ASSUME NEW u \in Tasks,
                      (task'[u].pc = "revoke" /\ task'[u].exit # "none") \/ task'[u].pc = "crl",
                      pki'[task'[u].name].crt
               PROVE  pki'[task'[u].name].id \in revoked \cup disturbed'
    BY <1>0 DEF RemovedRevoked
  <2>1. u # t /\ task'[u] = task[u]
    BY <1>1
  <2>2. task[u].name \in Names /\ task[u].name # n
    BY <1>0, <1>2, <2>1 DEF TypeOK
  <2> QED BY <1>2, <1>3, <2>1, <2>2 DEF Inv, RemovedRevoked
<1>14. Publishing'
  <2> SUFFICES ASSUME NEW id \in revoked \ (crl \cup disturbed')
               PROVE  \E u \in Tasks : \/ task'[u].pc = "revoke" /\ task'[u].exit = "ok"
                                       \/ task'[u].pc = "crl" /\ task'[u].exit = "none"
    BY <1>0 DEF Publishing
  <2>1. PICK u \in Tasks : \/ task[u].pc = "revoke" /\ task[u].exit = "ok"
                           \/ task[u].pc = "crl" /\ task[u].exit = "none"
    BY <1>3 DEF Inv, Publishing
  <2>2. u # t
    BY <1>4, <2>1
  <2> QED BY <1>1, <2>1, <2>2
<1>15. Kept'
  <2> SUFFICES ASSUME NEW id \in issued \ (revoked \cup disturbed')
               PROVE  \E m \in Names : pki'[m] = [id |-> id, crt |-> TRUE]
    BY <1>0 DEF Kept
  <2>1. PICK m \in Names : pki[m] = [id |-> id, crt |-> TRUE]
    BY <1>3 DEF Inv, Kept
  <2>2. m # n
    <3> SUFFICES ASSUME m = n PROVE FALSE
      OBVIOUS
    <3>1. pki[n].crt /\ pki[n].id = id /\ id # 0
      BY <2>1 DEF Inv, KeysApart
    <3>2. CASE task[t].pc = "crl" \/ (task[t].pc = "revoke" /\ task[t].exit # "none")
      BY <1>3, <3>1, <3>2 DEF Inv, RemovedRevoked
    <3>3. CASE Notes({n})
      BY <3>1, <3>3 DEF Notes
    <3> QED BY <1>4, <3>2, <3>3
  <2> QED BY <1>2, <2>1, <2>2
<1> QED BY <1>5, <1>7, <1>8, <1>9, <1>11, <1>12, <1>13, <1>14, <1>15 DEF Inv

-----------------------------------------------------------------------------
(* A script ends and leaves the files as they are; a new list may be published. *)
LEMMA EndKeeps ==
  ASSUME Inv, NEW s \in Slots, NEW code \in {"ok", "failed"}, Exit(s, code),
         UNCHANGED <<ovpn, pki, issued, revoked, nextId>>,
         disturbed \subseteq disturbed', disturbed' \subseteq Ids,
         crl \subseteq crl', crl' \subseteq revoked,
         script[s].kind \in {"build", "sign"} => code = "failed",
         script[s].kind = "revoke" =>
           /\ code = "failed"
           /\ pki[script[s].name].crt => pki[script[s].name].id \in revoked \cup disturbed',
         script[s].kind = "crl" => revoked \subseteq crl' \cup disturbed',
         script[s].kind # "none"
  PROVE  Inv'
<1>0. TypeOK /\ NoTask \notin Tasks
  BY NamesAssumption DEF Inv
<1>1. Ended(s, code) /\ script' \in Scripts /\ task' \in Requests
  BY <1>0, ExitFacts
<1>2. /\ script'[s].kind = "none" /\ script'[s].owner = NoTask
      /\ \A r \in Slots \ {s} : script'[r] = script[r]
  BY <1>1 DEF Ended
<1>3. \A u \in Tasks : /\ task'[u].pc = task[u].pc /\ task'[u].name = task[u].name
                       /\ u # script[s].owner => task'[u].exit = task[u].exit
                       /\ u = script[s].owner => task'[u].exit = code
  BY <1>1 DEF Ended
<1>4. \A u \in Tasks : u = script[s].owner =>
        task[u].pc = Waits(script[s].kind) /\ task[u].name = script[s].name /\ task[u].exit = "none"
  BY DEF Inv, Ownership
<1>5. TypeOK'
  BY <1>0, <1>1 DEF TypeOK, Scripts, ScriptState, Requests, RequestState
<1>6. Ownership'
  BY <1>0, <1>2, <1>3, OwnersStay DEF Inv, Ownership
<1>7. KeysApart' /\ Kept'
  BY DEF Inv, KeysApart, Kept
<1>8. OrphansHarmless'
  BY <1>2 DEF Inv, OrphansHarmless
<1>9. RevokedGoing'
  <2>1. \A m \in Names : Deleting(m) => Deleting(m)'
    BY <1>3 DEF Deleting
  <2> QED BY <2>1 DEF Inv, RevokedGoing
<1>k. script[s].kind \in {"build", "sign", "revoke", "crl"}
  BY <1>0 DEF TypeOK
<1>10. BuiltMeets'
  <2> SUFFICES ASSUME NEW b \in Tasks, NEW u \in Tasks,
                      task'[b].pc = "build", task'[b].exit = "ok", task'[u].pc \in Removing,
                      task'[u].name = task'[b].name, pki[task'[b].name].crt
               PROVE  pki[task'[b].name].id \in disturbed'
    BY DEF BuiltMeets
  <2>1. b # script[s].owner
    BY <1>3, <1>4, <1>k DEF Waits
  <2> QED BY <1>3, <2>1 DEF Inv, BuiltMeets
<1>11. RemovedRevoked'
  <2> SUFFICES ASSUME NEW u \in Tasks,
                      (task'[u].pc = "revoke" /\ task'[u].exit # "none") \/ task'[u].pc = "crl",
                      pki[task'[u].name].crt
               PROVE  pki[task'[u].name].id \in revoked \cup disturbed'
    BY DEF RemovedRevoked
  <2>1. CASE u = script[s].owner /\ task[u].pc = "revoke"
    BY <1>3, <1>4, <1>k, <2>1 DEF Waits
  <2>2. CASE u # script[s].owner \/ task[u].pc = "crl"
    BY <1>3, <2>2 DEF Inv, RemovedRevoked
  <2> QED BY <1>3, <2>1, <2>2
<1>12. Publishing'
  <2> SUFFICES ASSUME NEW id \in revoked \ (crl' \cup disturbed')
               PROVE  \E u \in Tasks : \/ task'[u].pc = "revoke" /\ task'[u].exit = "ok"
                                       \/ task'[u].pc = "crl" /\ task'[u].exit = "none"
    BY DEF Publishing
  <2>1. PICK u \in Tasks : \/ task[u].pc = "revoke" /\ task[u].exit = "ok"
                           \/ task[u].pc = "crl" /\ task[u].exit = "none"
    BY DEF Inv, Publishing
  <2>2. u # script[s].owner
    BY <1>4, <1>k, <2>1 DEF Waits
  <2> QED BY <1>3, <2>1, <2>2
<1> QED BY <1>5, <1>6, <1>7, <1>8, <1>9, <1>10, <1>11, <1>12 DEF Inv

(* The certificate is signed. *)
Signed(s, n) ==
  /\ pki[n] # NoFiles /\ ~pki[n].crt
  /\ pki' = [pki EXCEPT ![n].crt = TRUE]
  /\ issued' = issued \cup {pki[n].id}
  /\ Exit(s, "ok") /\ Meets(n, Removing)
  /\ UNCHANGED <<ovpn, revoked, crl, nextId>>

LEMMA SignedKeeps ==
  ASSUME Inv, NEW s \in Slots, NEW n \in Names, script[s].kind = "sign", script[s].name = n,
         Signed(s, n)
  PROVE  Inv'
<1> DEFINE id == pki[n].id
<1>0. TypeOK /\ NoTask \notin Tasks
  BY NamesAssumption DEF Inv
<1>1. Ended(s, "ok") /\ script' \in Scripts /\ task' \in Requests
  BY <1>0, ExitFacts DEF Signed
<1>2. /\ script'[s].kind = "none" /\ script'[s].owner = NoTask
      /\ \A r \in Slots \ {s} : script'[r] = script[r]
  BY <1>1 DEF Ended
<1>3. \A u \in Tasks : /\ task'[u].pc = task[u].pc /\ task'[u].name = task[u].name
                       /\ u # script[s].owner => task'[u].exit = task[u].exit
  BY <1>1 DEF Ended
<1>4. \A u \in Tasks : u = script[s].owner => task[u].pc = "build" /\ task[u].name = n
  BY DEF Inv, Ownership, Waits
<1>5. /\ id \in Ids /\ id # 0 /\ ~pki[n].crt
      /\ pki'[n].id = id /\ pki'[n].crt /\ pki'[n] = [id |-> id, crt |-> TRUE]
      /\ \A m \in Names : m # n => pki'[m] = pki[m]
      /\ pki' \in [Names -> [id : {0} \cup Ids, crt : BOOLEAN]]
      /\ issued' = issued \cup {id} /\ UNCHANGED <<ovpn, revoked, crl, nextId>>
  <2>1. pki[n] \in [id : {0} \cup Ids, crt : BOOLEAN] /\ ~pki[n].crt /\ pki[n] # NoFiles
    BY <1>0 DEF Signed, TypeOK
  <2>2. pki[n].id # 0
    BY <2>1 DEF NoFiles
  <2>3. 0 \notin Ids
    BY DEF Ids
  <2>4. pki'[n] = [pki[n] EXCEPT !.crt = TRUE]
    BY <1>0 DEF Signed, TypeOK
  <2>5. pki'[n] = [id |-> pki[n].id, crt |-> TRUE]
    BY <2>1, <2>4
  <2>6. \A m \in Names : m # n => pki'[m] = pki[m]
    BY <1>0 DEF Signed, TypeOK
  <2>7. pki' \in [Names -> [id : {0} \cup Ids, crt : BOOLEAN]]
    BY <1>0 DEF Signed, TypeOK
  <2> QED BY <2>1, <2>2, <2>3, <2>5, <2>6, <2>7 DEF Signed
<1>6. /\ disturbed \subseteq disturbed' /\ disturbed' \subseteq Ids
      /\ At(n) \cap Removing # {} => id \in disturbed'
  BY <1>0, <1>5, MeetsFacts DEF Signed, Notes
<1>7. id \notin issued /\ id \notin revoked
  BY <1>0, <1>5 DEF Inv, KeysApart, TypeOK
<1> HIDE DEF id
<1>8. TypeOK'
  BY <1>0, <1>1, <1>5, <1>6 DEF TypeOK, Scripts, ScriptState, Requests, RequestState
<1>9. Ownership'
  <2>1. \A u \in Tasks : u = script[s].owner => \A r \in Slots : script'[r].owner # u
    BY <1>0, <1>2 DEF Inv, Ownership
  <2> QED BY <1>0, <1>2, <1>3, <2>1, OwnersStay
<1>10. KeysApart'
  <2>1. id < nextId
    BY DEF Inv, KeysApart, id
  <2>2. ASSUME NEW m \in Names
        PROVE  /\ pki'[m].id < nextId /\ ovpn[m] < nextId
               /\ pki'[m].crt => pki'[m].id # 0
               /\ pki'[m].id # 0 => (pki'[m].crt <=> pki'[m].id \in issued')
               /\ ovpn[m] # 0 => ovpn[m] \in issued'
    <3>1. CASE m = n
      BY <1>5, <2>1, <3>1 DEF Inv, KeysApart
    <3>2. CASE m # n
      <4>1. pki[m].id = 0 \/ pki[m].id # id
        BY <3>2 DEF Inv, KeysApart, id
      <4> QED BY <1>5, <3>2, <4>1 DEF Inv, KeysApart
    <3> QED BY <3>1, <3>2
  <2>3. \A m \in Names : pki'[m].id = pki[m].id
    BY <1>5 DEF id
  <2>4. \A m, k \in Names :
          m # k => pki'[m].id = 0 \/ (pki'[m].id # pki'[k].id /\ pki'[m].id # ovpn'[k])
    BY <1>5, <2>3 DEF Inv, KeysApart
  <2>5. \A i \in issued' : i < nextId
    BY <1>5, <2>1 DEF Inv, KeysApart
  <2> QED BY <1>5, <2>2, <2>4, <2>5 DEF KeysApart
<1>11. OrphansHarmless'
  <2> SUFFICES ASSUME NEW r \in Slots, script'[r].kind = "revoke", script'[r].owner = NoTask,
                      pki'[script'[r].name].crt
               PROVE  pki'[script'[r].name].id \in disturbed'
    BY DEF OrphansHarmless
  <2>1. r # s /\ script'[r] = script[r] /\ script[r].name \in Names
    BY <1>0, <1>2 DEF TypeOK
  <2>2. CASE script[r].name = n
    <3>1. "revoke" \in At(n) \cap Removing
      BY <2>1, <2>2, AtFacts DEF Removing
    <3> QED BY <1>5, <1>6, <2>1, <2>2, <3>1
  <2>3. CASE script[r].name # n
    BY <1>5, <1>6, <2>1, <2>3 DEF Inv, OrphansHarmless
  <2> QED BY <2>2, <2>3
<1>12. RevokedGoing'
  <2>1. \A m \in Names : Deleting(m) => Deleting(m)'
    BY <1>3 DEF Deleting
  <2> QED BY <1>5, <1>6, <1>7, <2>1 DEF Inv, RevokedGoing
<1>13. \A u \in Tasks : task[u].name = n /\ task[u].pc \in Removing => id \in disturbed'
  BY <1>6, AtFacts
<1>14. BuiltMeets'
  <2> SUFFICES ASSUME NEW b \in Tasks, NEW u \in Tasks,
                      task'[b].pc = "build", task'[b].exit = "ok", task'[u].pc \in Removing,
                      task'[u].name = task'[b].name, pki'[task'[b].name].crt
               PROVE  pki'[task'[b].name].id \in disturbed'
    BY DEF BuiltMeets
  <2>1. task[b].name \in Names
    BY <1>0 DEF TypeOK
  <2>2. CASE task[b].name = n
    BY <1>3, <1>5, <1>13, <2>2
  <2>3. CASE task[b].name # n
    BY <1>3, <1>4, <1>5, <1>6, <2>1, <2>3 DEF Inv, BuiltMeets
  <2> QED BY <2>2, <2>3
<1>15. RemovedRevoked'
  <2> SUFFICES ASSUME NEW u \in Tasks,
                      (task'[u].pc = "revoke" /\ task'[u].exit # "none") \/ task'[u].pc = "crl",
                      pki'[task'[u].name].crt
               PROVE  pki'[task'[u].name].id \in revoked \cup disturbed'
    BY <1>5 DEF RemovedRevoked
  <2>1. task[u].name \in Names /\ u # script[s].owner
    BY <1>0, <1>3, <1>4 DEF TypeOK
  <2>2. CASE task[u].name = n
    BY <1>3, <1>5, <1>13, <2>2 DEF Removing
  <2>3. CASE task[u].name # n
    BY <1>3, <1>5, <1>6, <2>1, <2>3 DEF Inv, RemovedRevoked
  <2> QED BY <2>2, <2>3
<1>16. Publishing'
  <2> SUFFICES ASSUME NEW i \in revoked \ (crl \cup disturbed')
               PROVE  \E u \in Tasks : \/ task'[u].pc = "revoke" /\ task'[u].exit = "ok"
                                       \/ task'[u].pc = "crl" /\ task'[u].exit = "none"
    BY <1>5 DEF Publishing
  <2>1. PICK u \in Tasks : \/ task[u].pc = "revoke" /\ task[u].exit = "ok"
                           \/ task[u].pc = "crl" /\ task[u].exit = "none"
    BY <1>6 DEF Inv, Publishing
  <2> QED BY <1>3, <1>4, <2>1
<1>17. Kept'
  <2> SUFFICES ASSUME NEW i \in issued' \ (revoked \cup disturbed')
               PROVE  \E m \in Names : pki'[m] = [id |-> i, crt |-> TRUE]
    BY <1>5 DEF Kept
  <2>1. CASE i = id
    BY <1>5, <2>1
  <2>2. CASE i # id
    <3>1. PICK m \in Names : pki[m] = [id |-> i, crt |-> TRUE]
      BY <1>5, <1>6, <2>2 DEF Inv, Kept
    <3>2. m # n
      BY <1>5, <3>1
    <3> QED BY <1>5, <3>1, <3>2
  <2> QED BY <2>1, <2>2
<1> QED BY <1>8, <1>9, <1>10, <1>11, <1>12, <1>14, <1>15, <1>16, <1>17 DEF Inv

(* A certificate is revoked. *)
LEMMA RevokedKeeps ==
  ASSUME Inv, NEW s \in Slots, NEW n \in Names, script[s].kind = "revoke", script[s].name = n,
         pki[n].crt, revoked' = revoked \cup {pki[n].id},
         NEW left \in {NoFiles, pki[n]}, pki' = [pki EXCEPT ![n] = left],
         Exit(s, "ok"), UNCHANGED <<ovpn, issued, crl, nextId, disturbed>>
  PROVE  Inv'
<1> DEFINE id == pki[n].id
<1>0. TypeOK /\ NoTask \notin Tasks
  BY NamesAssumption DEF Inv
<1>1. Ended(s, "ok") /\ script' \in Scripts /\ task' \in Requests
  BY <1>0, ExitFacts
<1>2. /\ script'[s].kind = "none" /\ script'[s].owner = NoTask
      /\ \A r \in Slots \ {s} : script'[r] = script[r]
  BY <1>1 DEF Ended
<1>3. \A u \in Tasks : /\ task'[u].pc = task[u].pc /\ task'[u].name = task[u].name
                       /\ u # script[s].owner => task'[u].exit = task[u].exit
                       /\ u = script[s].owner => task'[u].exit = "ok"
  BY <1>1 DEF Ended
<1>4. \A u \in Tasks : u = script[s].owner =>
        task[u].pc = "revoke" /\ task[u].name = n /\ task[u].exit = "none"
  BY DEF Inv, Ownership, Waits
<1>5. /\ id \in issued /\ id # 0
      /\ pki'[n] = pki[n] \/ (pki'[n].id = 0 /\ ~pki'[n].crt)
      /\ \A m \in Names : m # n => pki'[m] = pki[m]
      /\ pki' \in [Names -> [id : {0} \cup Ids, crt : BOOLEAN]]
      /\ revoked' = revoked \cup {id}
  <2>1. id \in issued /\ id # 0
    BY DEF Inv, KeysApart
  <2>2. NoFiles.id = 0 /\ ~NoFiles.crt /\ NoFiles \in [id : {0} \cup Ids, crt : BOOLEAN]
    BY DEF NoFiles
  <2>3. pki'[n] = left /\ \A m \in Names : m # n => pki'[m] = pki[m]
    BY <1>0 DEF TypeOK
  <2>4. left \in [id : {0} \cup Ids, crt : BOOLEAN]
    BY <1>0, <2>2 DEF TypeOK
  <2>5. pki' \in [Names -> [id : {0} \cup Ids, crt : BOOLEAN]]
    BY <1>0, <2>4 DEF TypeOK
  <2> QED BY <2>1, <2>2, <2>3, <2>5
<1>6. script[s].owner \in Tasks \/ id \in disturbed
  BY <1>0 DEF Inv, OrphansHarmless, TypeOK
<1> HIDE DEF id
<1>8. TypeOK'
  BY <1>0, <1>1, <1>5 DEF TypeOK, Scripts, ScriptState, Requests, RequestState
<1>9. Ownership'
  <2>1. \A u \in Tasks : u = script[s].owner => \A r \in Slots : script'[r].owner # u
    BY <1>0, <1>2 DEF Inv, Ownership
  <2> QED BY <1>0, <1>2, <1>3, <2>1, OwnersStay
<1>10. KeysApart'
  <2>1. nextId > 0
    BY <1>0 DEF TypeOK
  <2> QED BY <1>5, <2>1 DEF Inv, KeysApart
<1>11. OrphansHarmless'
  <2> SUFFICES ASSUME NEW r \in Slots, script'[r].kind = "revoke", script'[r].owner = NoTask,
                      pki'[script'[r].name].crt
               PROVE  pki'[script'[r].name].id \in disturbed
    BY DEF OrphansHarmless
  <2>1. r # s /\ script'[r] = script[r] /\ script[r].name \in Names
    BY <1>0, <1>2 DEF TypeOK
  <2> QED BY <1>5, <2>1 DEF Inv, OrphansHarmless
<1>12. RevokedGoing'
  <2>1. \A m \in Names : Deleting(m) => Deleting(m)'
    BY <1>3 DEF Deleting
  <2>2. Deleting(n) \/ id \in disturbed
    BY <1>4, <1>6 DEF Deleting
  <2>3. ASSUME NEW m \in Names, m # n
        PROVE  (pki[m].id = 0 \/ pki[m].id # id) /\ ovpn[m] # id
    BY <1>5, <2>3 DEF Inv, KeysApart, id
  <2>4. 0 \notin revoked'
    BY <1>0, <1>5 DEF TypeOK, Ids
  <2> SUFFICES ASSUME NEW m \in Names
               PROVE  /\ pki'[m].crt /\ pki'[m].id \in revoked' => Deleting(m)' \/ pki'[m].id \in disturbed
                      /\ ovpn[m] \in revoked' => Deleting(m)' \/ ovpn[m] \in disturbed
    BY DEF RevokedGoing
  <2>5. CASE m = n
    BY <1>5, <2>1, <2>2, <2>5 DEF Inv, RevokedGoing, id
  <2>6. CASE m # n
    BY <1>5, <2>1, <2>3, <2>4, <2>6 DEF Inv, RevokedGoing
  <2> QED BY <2>5, <2>6
<1>13. BuiltMeets'
  <2> SUFFICES ASSUME NEW b \in Tasks, NEW u \in Tasks,
                      task'[b].pc = "build", task'[b].exit = "ok", task'[u].pc \in Removing,
                      task'[u].name = task'[b].name, pki'[task'[b].name].crt
               PROVE  pki'[task'[b].name].id \in disturbed
    BY DEF BuiltMeets
  <2>1. task[b].name \in Names /\ b # script[s].owner
    BY <1>0, <1>3, <1>4 DEF TypeOK
  <2> QED BY <1>3, <1>5, <2>1 DEF Inv, BuiltMeets
<1>14. RemovedRevoked'
  <2> SUFFICES ASSUME NEW u \in Tasks,
                      (task'[u].pc = "revoke" /\ task'[u].exit # "none") \/ task'[u].pc = "crl",
                      pki'[task'[u].name].crt
               PROVE  pki'[task'[u].name].id \in revoked' \cup disturbed
    BY DEF RemovedRevoked
  <2>1. task[u].name \in Names
    BY <1>0 DEF TypeOK
  <2>2. CASE task[u].name = n
    BY <1>3, <1>5, <2>2 DEF id
  <2>3. CASE task[u].name # n
    BY <1>3, <1>4, <1>5, <2>1, <2>3 DEF Inv, RemovedRevoked
  <2> QED BY <2>2, <2>3
<1>15. Publishing'
  <2> SUFFICES ASSUME NEW i \in revoked' \ (crl \cup disturbed)
               PROVE  \E u \in Tasks : \/ task'[u].pc = "revoke" /\ task'[u].exit = "ok"
                                       \/ task'[u].pc = "crl" /\ task'[u].exit = "none"
    BY DEF Publishing
  <2>1. CASE i = id
    BY <1>3, <1>4, <1>6, <2>1
  <2>2. CASE i # id
    <3>1. PICK u \in Tasks : \/ task[u].pc = "revoke" /\ task[u].exit = "ok"
                             \/ task[u].pc = "crl" /\ task[u].exit = "none"
      BY <1>5, <2>2 DEF Inv, Publishing
    <3> QED BY <1>3, <1>4, <3>1
  <2> QED BY <2>1, <2>2
<1>16. Kept'
  <2> SUFFICES ASSUME NEW i \in issued \ (revoked' \cup disturbed)
               PROVE  \E m \in Names : pki'[m] = [id |-> i, crt |-> TRUE]
    BY DEF Kept
  <2>1. PICK m \in Names : pki[m] = [id |-> i, crt |-> TRUE]
    BY <1>5 DEF Inv, Kept
  <2>2. m # n
    BY <1>5, <2>1 DEF id
  <2> QED BY <1>5, <2>1, <2>2
<1> QED BY <1>8, <1>9, <1>10, <1>11, <1>12, <1>13, <1>14, <1>15, <1>16 DEF Inv

(* A key pair is made. *)
LEMMA KeyKeeps ==
  ASSUME Inv, NEW s \in Slots, NEW n \in Names, script[s].kind = "build", script[s].name = n,
         pki[n] = NoFiles, nextId <= MaxCerts,
         pki' = [pki EXCEPT ![n] = [id |-> nextId, crt |-> FALSE]],
         nextId' = nextId + 1,
         script' = [script EXCEPT ![s].kind = "sign"],
         UNCHANGED <<ovpn, issued, revoked, crl, disturbed, task>>
  PROVE  Inv'
<1>0. TypeOK /\ nextId \in Ids
  BY BoundsAssumption DEF Inv, TypeOK, Ids
<1>1. /\ script' \in Scripts /\ script'[s].kind = "sign"
      /\ script'[s].owner = script[s].owner /\ script'[s].name = script[s].name
      /\ \A r \in Slots : r # s => script'[r] = script[r]
  BY <1>0 DEF TypeOK, Scripts, ScriptState
<1>2. /\ pki'[n].id = nextId /\ ~pki'[n].crt /\ ~pki[n].crt
      /\ \A m \in Names : m # n => pki'[m] = pki[m]
      /\ pki' \in [Names -> [id : {0} \cup Ids, crt : BOOLEAN]]
  BY <1>0 DEF TypeOK, NoFiles
<1>3. TypeOK'
  <2>1. nextId' \in 1..(MaxCerts + 1)
    BY <1>0, BoundsAssumption DEF Ids
  <2> QED BY <1>0, <1>1, <1>2, <2>1 DEF TypeOK, Scripts, ScriptState
<1>4. Ownership'
  <2>1. Waits(script'[s].kind) = Waits(script[s].kind)
    BY <1>1 DEF Waits
  <2> QED BY <1>1, <2>1, OwnersStay
<1>5. KeysApart'
  <2>1. /\ nextId # 0 /\ nextId \in Nat /\ nextId \notin issued
        /\ \A m \in Names : /\ ovpn[m] # nextId /\ pki[m].id # nextId
                            /\ pki[m].id \in Nat /\ ovpn[m] \in Nat
    BY <1>0, BoundsAssumption DEF Inv, KeysApart, TypeOK, Ids
  <2>2. ASSUME NEW m \in Names
        PROVE  /\ pki'[m].id < nextId' /\ ovpn[m] < nextId'
               /\ pki'[m].crt => pki'[m].id # 0
               /\ pki'[m].id # 0 => (pki'[m].crt <=> pki'[m].id \in issued)
               /\ ovpn[m] # 0 => ovpn[m] \in issued
    <3>1. CASE m = n
      <4>1. ovpn[m] < nextId
        BY DEF Inv, KeysApart
      <4> QED BY <1>2, <2>1, <3>1, <4>1 DEF Inv, KeysApart
    <3>2. CASE m # n
      <4>1. pki[m].id < nextId /\ ovpn[m] < nextId
        BY DEF Inv, KeysApart
      <4> QED BY <1>2, <2>1, <3>2, <4>1 DEF Inv, KeysApart
    <3> QED BY <3>1, <3>2
  <2>3. \A m, k \in Names :
          m # k => pki'[m].id = 0 \/ (pki'[m].id # pki'[k].id /\ pki'[m].id # ovpn[k])
    BY <1>2, <2>1 DEF Inv, KeysApart
  <2>4. \A id \in issued : id \in Nat /\ id < nextId'
    BY <1>0, <2>1 DEF Inv, KeysApart, TypeOK, Ids
  <2> QED BY <2>2, <2>3, <2>4 DEF KeysApart
<1>6. OrphansHarmless'
  <2> SUFFICES ASSUME NEW r \in Slots, script'[r].kind = "revoke", script'[r].owner = NoTask,
                      pki'[script'[r].name].crt
               PROVE  pki'[script'[r].name].id \in disturbed
    BY DEF OrphansHarmless
  <2>1. r # s /\ script'[r] = script[r] /\ script[r].name \in Names
    BY <1>0, <1>1 DEF TypeOK
  <2> QED BY <1>2, <2>1 DEF Inv, OrphansHarmless
<1>7. RevokedGoing'
  BY <1>2 DEF Inv, RevokedGoing, Deleting
<1>8. \A u \in Tasks : task[u].name \in Names
  BY <1>0 DEF TypeOK
<1>9. BuiltMeets' /\ RemovedRevoked'
  BY <1>2, <1>8 DEF Inv, BuiltMeets, RemovedRevoked
<1>10. Publishing'
  BY DEF Inv, Publishing
<1>11. Kept'
  <2> SUFFICES ASSUME NEW i \in issued \ (revoked \cup disturbed)
               PROVE  \E m \in Names : pki'[m] = [id |-> i, crt |-> TRUE]
    BY DEF Kept
  <2>1. PICK m \in Names : pki[m] = [id |-> i, crt |-> TRUE]
    BY DEF Inv, Kept
  <2>2. m # n
    BY <1>2, <2>1
  <2> QED BY <1>2, <2>1, <2>2
<1> QED BY <1>3, <1>4, <1>5, <1>6, <1>7, <1>9, <1>10, <1>11 DEF Inv

(* A create is given up: its script works on. *)
LEMMA BuildGivenUpKeeps ==
  ASSUME Inv, NEW t \in Tasks, Abandon(t), task[t].pc = "build",
         task' = [task EXCEPT ![t] = Rest], UNCHANGED <<files, disturbed>>
  PROVE  Inv'
<1>0. TypeOK /\ NoTask \notin Tasks
  BY NamesAssumption DEF Inv
<1>1. /\ task'[t].pc = "idle" /\ task' \in Requests
      /\ \A u \in Tasks \ {t} : task'[u] = task[u]
  BY <1>0, RestFacts
<1>2. /\ \A s \in Slots : /\ script'[s].kind = script[s].kind /\ script'[s].name = script[s].name
                          /\ script'[s].owner = IF script[s].owner = t THEN NoTask
                                                ELSE script[s].owner
      /\ script' \in Scripts
  BY <1>0, AbandonFacts
<1>3. TypeOK'
  BY <1>0, <1>1, <1>2 DEF TypeOK, files, Scripts, ScriptState, Requests, RequestState
<1>4. Ownership'
  BY <1>0, <1>1, <1>2, OwnersStay
<1>5. KeysApart' /\ Kept'
  BY FilesKept
<1>6. OrphansHarmless'
  <2>1. \A s \in Slots : script[s].owner = t => script[s].kind # "revoke"
    BY DEF Inv, Ownership, Waits
  <2> QED BY <1>2, <2>1 DEF Inv, OrphansHarmless, files
<1>7. RevokedGoing'
  <2>1. \A m \in Names : Deleting(m) => Deleting(m)'
    BY <1>1 DEF Deleting
  <2> QED BY <2>1 DEF Inv, RevokedGoing, files
<1>8. BuiltMeets'
  BY <1>1 DEF Inv, BuiltMeets, files, Removing
<1>9. RemovedRevoked'
  BY <1>1 DEF Inv, RemovedRevoked, files
<1>10. Publishing'
  <2> SUFFICES ASSUME NEW id \in revoked \ (crl \cup disturbed)
               PROVE  \E u \in Tasks : \/ task'[u].pc = "revoke" /\ task'[u].exit = "ok"
                                       \/ task'[u].pc = "crl" /\ task'[u].exit = "none"
    BY DEF Publishing, files
  <2>1. PICK u \in Tasks : \/ task[u].pc = "revoke" /\ task[u].exit = "ok"
                           \/ task[u].pc = "crl" /\ task[u].exit = "none"
    BY DEF Inv, Publishing
  <2> QED BY <1>1, <2>1
<1> QED BY <1>3, <1>4, <1>5, <1>6, <1>7, <1>8, <1>9, <1>10 DEF Inv

LEMMA RestartKeeps ==
  ASSUME Inv, ApiRestart
  PROVE  Inv'
<1>0. /\ TypeOK /\ NoTask \notin Tasks /\ UNCHANGED files
      /\ Disturb({n \in Names : Deleting(n)})
  BY NamesAssumption DEF Inv, ApiRestart
<1>1. /\ task' \in Requests /\ \A u \in Tasks : task'[u].pc = "idle"
      /\ script' \in Scripts
      /\ \A s \in Slots : /\ script'[s].kind = script[s].kind /\ script'[s].name = script[s].name
                          /\ script'[s].owner = NoTask
  BY <1>0, NamesAssumption
     DEF ApiRestart, Rest, TypeOK, Scripts, ScriptState, Requests, RequestState
<1>2. /\ disturbed \subseteq disturbed' /\ revoked \ crl \subseteq disturbed'
      /\ disturbed' \subseteq Ids
      /\ \A n \in Names : Deleting(n) => {ovpn[n], pki[n].id} \ {0} \subseteq disturbed'
  BY <1>0, DisturbFacts DEF Notes
<1>3. TypeOK'
  BY <1>0, <1>1, <1>2 DEF TypeOK, files, Scripts, ScriptState, Requests, RequestState
<1>4. Ownership'
  BY <1>0, <1>1 DEF Ownership
<1>5. KeysApart' /\ Kept'
  BY <1>0, <1>2, FilesKept
<1>6. OrphansHarmless'
  <2> SUFFICES ASSUME NEW s \in Slots, script[s].kind = "revoke", pki[script[s].name].crt
               PROVE  pki[script[s].name].id \in disturbed'
    BY <1>0, <1>1 DEF OrphansHarmless, files
  <2>1. script[s].name \in Names /\ pki[script[s].name].id # 0
    BY <1>0 DEF TypeOK, Inv, KeysApart
  <2>2. CASE script[s].owner = NoTask
    BY <1>2, <2>2 DEF Inv, OrphansHarmless
  <2>3. CASE script[s].owner \in Tasks
    <3>1. Deleting(script[s].name)
      BY <2>3 DEF Inv, Ownership, Waits, Deleting
    <3> QED BY <1>2, <2>1, <3>1
  <2> QED BY <1>0, <2>2, <2>3 DEF TypeOK
<1>7. RevokedGoing'
  <2> SUFFICES ASSUME NEW m \in Names
               PROVE  /\ pki[m].crt /\ pki[m].id \in revoked => pki[m].id \in disturbed'
                      /\ ovpn[m] \in revoked => ovpn[m] \in disturbed'
    BY <1>0 DEF RevokedGoing, files
  <2>1. 0 \notin revoked
    BY <1>0 DEF TypeOK, Ids
  <2> QED BY <1>2, <2>1 DEF Inv, RevokedGoing
<1>8. BuiltMeets' /\ RemovedRevoked'
  BY <1>1 DEF BuiltMeets, RemovedRevoked
<1>9. Publishing'
  BY <1>0, <1>2 DEF Publishing, files
<1> QED BY <1>3, <1>4, <1>5, <1>6, <1>7, <1>8, <1>9 DEF Inv
-----------------------------------------------------------------------------
(* Every build that has been let in finds a number for its key pair. *)
Room == nextId + Cardinality(Builds) <= MaxCerts + 1

LEMMA BuildsFinite == IsFiniteSet(Builds) /\ Cardinality(Builds) \in Nat
<1>1. IsFiniteSet(Slots)
  BY FS_Interval, BoundsAssumption DEF Slots
<1> QED BY <1>1, FS_Subset, FS_CardinalityType DEF Builds

LEMMA BuildsFewer ==
  ASSUME Room, TypeOK, nextId' = nextId,
         \A s \in Slots : script'[s].kind = "build" => script[s].kind = "build"
  PROVE  Room'
<1>1. Builds' \subseteq Builds
  BY DEF Builds
<1>2. Cardinality(Builds') <= Cardinality(Builds) /\ Cardinality(Builds') \in Nat
  BY <1>1, BuildsFinite, FS_Subset, FS_CardinalityType
<1> QED BY <1>2, BuildsFinite, BoundsAssumption DEF Room, TypeOK

LEMMA InvInit == Init => Inv /\ Room
<1> SUFFICES ASSUME Init
             PROVE  Inv /\ Room
  OBVIOUS
<1>1. TypeOK
  BY NamesAssumption, BoundsAssumption DEF Init, TypeOK, NoFiles, NoScript, Rest
<1>2. Ownership
  BY NamesAssumption DEF Init, Ownership, NoScript
<1>3. KeysApart
  BY DEF Init, KeysApart, NoFiles
<1>4. OrphansHarmless /\ RevokedGoing /\ Publishing /\ Kept
  BY DEF Init, OrphansHarmless, RevokedGoing, Publishing, Kept, NoScript, NoFiles
<1>5. BuiltMeets /\ RemovedRevoked
  BY DEF Init, BuiltMeets, RemovedRevoked, Rest
<1>6. Room
  <2>1. Builds = {}
    BY DEF Init, Builds, NoScript
  <2>2. Cardinality(Builds) = 0
    BY <2>1, FS_EmptySet
  <2> QED BY <2>2, BoundsAssumption DEF Init, Room
<1> QED BY <1>1, <1>2, <1>3, <1>4, <1>5, <1>6 DEF Inv

(* The requests, and what the API does for them. *)
LEMMA BeginKeeps ==
  ASSUME Inv, Room, NEW t \in Tasks, NEW n \in Names,
         Create(t, n) \/ Delete(t, n) \/ Disconnect(t, n)
  PROVE  Inv' /\ Room'
<1>0. TypeOK /\ task[t].pc = "idle"
  BY DEF Inv, Create, Delete, Disconnect, AtRest
<1>1. CASE Create(t, n)
  <2>1. /\ Exec(t, "build", n) /\ UNCHANGED files /\ "build" \in Kinds
        /\ disturbed \subseteq disturbed' /\ disturbed' \subseteq Ids
    BY <1>0, <1>1, MeetsFacts DEF Create, Kinds
  <2>2. Inv'
    BY <1>0, <2>1, ExecKeeps DEF Asks
  <2>3. Started(t, "build", n)
    BY <1>0, <2>1, ExecFacts
  <2>4. PICK s \in Slots : \A r \in Slots \ {s} : script'[r] = script[r]
    BY <2>3 DEF Started
  <2>5. Builds' \subseteq Builds \cup {s}
    BY <2>4 DEF Builds
  <2>6. /\ IsFiniteSet(Builds \cup {s})
        /\ Cardinality(Builds \cup {s}) \in {Cardinality(Builds), Cardinality(Builds) + 1}
    BY BuildsFinite, FS_AddElement
  <2>7. Cardinality(Builds') \in Nat /\ Cardinality(Builds') <= Cardinality(Builds \cup {s})
    BY <2>5, <2>6, FS_Subset, FS_CardinalityType
  <2>8. nextId + Cardinality(Builds) <= MaxCerts /\ nextId' = nextId
    BY <1>1 DEF Create, files
  <2>9. Room'
    BY <1>0, <2>6, <2>7, <2>8, BuildsFinite, BoundsAssumption DEF Room, TypeOK
  <2> QED BY <2>2, <2>9
<1>2. CASE Delete(t, n)
  <2>1. /\ Exec(t, "revoke", n) /\ UNCHANGED files /\ "revoke" \in Kinds /\ Meets(n, Working)
        /\ disturbed \subseteq disturbed' /\ disturbed' \subseteq Ids
    BY <1>0, <1>2, MeetsFacts DEF Delete, Kinds
  <2>2. Inv'
    BY <1>0, <2>1, ExecKeeps DEF Asks
  <2>3. Started(t, "revoke", n)
    BY <1>0, <2>1, ExecFacts
  <2>4. \A s \in Slots : script'[s].kind = "build" => script[s].kind = "build"
    BY <2>3 DEF Started
  <2> QED BY <1>0, <2>1, <2>2, <2>4, BuildsFewer DEF files
<1>3. CASE Disconnect(t, n)
  <2> DEFINE now == [pc |-> "status", name |-> n, exit |-> "none"]
  <2>1. /\ UNCHANGED files /\ script' = script /\ Meets(n, Working)
        /\ disturbed \subseteq disturbed' /\ disturbed' \subseteq Ids
        /\ task' = [task EXCEPT ![t] = now]
    BY <1>0, <1>3, MeetsFacts DEF Disconnect
  <2>2. now \in RequestState /\ now.pc = "status" /\ now.name = n
    BY DEF RequestState
  <2> HIDE DEF now
  <2>3. task' \in Requests /\ task'[t] = now /\ \A u \in Tasks \ {t} : task'[u] = task[u]
    BY <1>0, <2>1, <2>2 DEF TypeOK, Requests, RequestState
  <2>4. Inv'
    BY <1>0, <2>1, <2>2, <2>3, LeaveKeeps
  <2> QED BY <1>0, <2>1, <2>4, BuildsFewer DEF files
<1> QED BY <1>1, <1>2, <1>3

LEMMA StepKeeps ==
  ASSUME Inv, Room, NEW t \in Tasks, Step(t) \/ GiveUp(t)
  PROVE  Inv' /\ Room'
<1> DEFINE n == task[t].name
<1>0. TypeOK /\ n \in Names
  BY DEF Inv, TypeOK
<1>1. CASE Created(t)
  BY <1>0, <1>1, CreatedKeeps, BuildsFewer DEF Created
<1>2. CASE Revoked(t)
  <2>1. Exec(t, "crl", n) /\ UNCHANGED <<files, disturbed>> /\ "crl" \in Kinds
    BY <1>2 DEF Revoked, Kinds
  <2>2. Asks(t, "crl", n) /\ disturbed' \subseteq Ids
    BY <1>0, <1>2, <2>1 DEF Revoked, Exited, Asks, TypeOK
  <2>3. Inv'
    BY <1>0, <2>1, <2>2, ExecKeeps
  <2>4. Started(t, "crl", n)
    BY <1>0, <2>1, ExecFacts
  <2>5. \A s \in Slots : script'[s].kind = "build" => script[s].kind = "build"
    BY <2>4 DEF Started
  <2> QED BY <1>0, <2>1, <2>3, <2>5, BuildsFewer DEF files
<1>3. CASE Deleted(t)
  <2>1. RemoveFiles(t) /\ task[t].pc \in {"revoke", "crl"} /\ script' = script
    BY <1>3 DEF Deleted, Exited
  <2>2. Inv'
    BY <1>3, <2>1, RemoveKeeps
  <2> QED BY <1>0, <2>1, <2>2, BuildsFewer DEF RemoveFiles
<1>4. CASE Disconnected(t)
  <2>1. task[t].pc = "status" /\ UNCHANGED <<files, disturbed>> /\ disturbed' \subseteq Ids
    BY <1>0, <1>4 DEF Disconnected, TypeOK
  <2>2. CASE Exec(t, "revoke", n)
    <3>1. Asks(t, "revoke", n) /\ "revoke" \in Kinds
      BY <2>1 DEF Asks, Kinds
    <3>2. Inv'
      BY <1>0, <2>1, <2>2, <3>1, ExecKeeps
    <3>3. Started(t, "revoke", n)
      BY <1>0, <2>2, <3>1, ExecFacts
    <3>4. \A s \in Slots : script'[s].kind = "build" => script[s].kind = "build"
      BY <3>3 DEF Started
    <3> QED BY <1>0, <2>1, <3>2, <3>4, BuildsFewer DEF files
  <2>3. CASE task' = [task EXCEPT ![t] = Rest] /\ UNCHANGED script
    <3>1. Inv'
      BY <1>0, <2>1, <2>3, RestFacts, LeaveKeeps
    <3> QED BY <1>0, <2>1, <2>3, <3>1, BuildsFewer DEF files
  <2> QED BY <1>4, <2>2, <2>3 DEF Disconnected
<1>5. CASE GiveUp(t)
  <2>1. Abandon(t) /\ \A s \in Slots : script'[s].kind = script[s].kind
    BY <1>0, <1>5, AbandonFacts DEF GiveUp
  <2>2. CASE /\ task[t].pc = "build" /\ task' = [task EXCEPT ![t] = Rest]
             /\ UNCHANGED <<files, disturbed>>
    <3>1. Inv'
      BY <2>1, <2>2, BuildGivenUpKeeps
    <3> QED BY <1>0, <2>1, <2>2, <3>1, BuildsFewer DEF files
  <2>3. CASE task[t].pc \in {"revoke", "crl"} /\ RemoveFiles(t) /\ Disturb({n})
    <3>1. Inv'
      BY <2>1, <2>3, RemoveKeeps
    <3> QED BY <1>0, <2>1, <2>3, <3>1, BuildsFewer DEF RemoveFiles
  <2> QED BY <1>5, <2>2, <2>3 DEF GiveUp
<1> QED BY <1>1, <1>2, <1>3, <1>4, <1>5 DEF Step

(* A script that ends without result builds nothing. *)
LEMMA EndRoom ==
  ASSUME TypeOK, Room, NEW s \in Slots, NEW code \in {"ok", "failed"}, Exit(s, code),
         nextId' = nextId
  PROVE  Room'
<1>1. \A r \in Slots : script'[r].kind = "build" => script[r].kind = "build"
  BY ExitFacts DEF Ended
<1> QED BY <1>1, BuildsFewer

LEMMA MakeKeyKeeps ==
  ASSUME Inv, Room, NEW s \in Slots, MakeKey(s)
  PROVE  Inv' /\ Room'
<1> DEFINE n == script[s].name
<1>0. /\ TypeOK /\ n \in Names /\ script[s].kind = "build"
      /\ UNCHANGED <<ovpn, issued, revoked, crl, disturbed>> /\ disturbed' \subseteq Ids
  BY DEF Inv, TypeOK, MakeKey
<1>1. CASE pki[n] # NoFiles
  <2>1. Exit(s, "failed") /\ UNCHANGED <<pki, nextId>>
    BY <1>1 DEF MakeKey
  <2>2. Inv'
    BY <1>0, <2>1, EndKeeps DEF TypeOK
  <2> QED BY <1>0, <2>1, <2>2, EndRoom
<1>2. CASE pki[n] = NoFiles
  <2>1. /\ pki' = [pki EXCEPT ![n] = [id |-> nextId, crt |-> FALSE]]
        /\ nextId' = nextId + 1 /\ script' = [script EXCEPT ![s].kind = "sign"]
        /\ task' = task
    BY <1>2 DEF MakeKey
  <2>2. Builds' = Builds \ {s} /\ s \in Builds
    BY <1>0, <2>1 DEF Builds, TypeOK
  <2>3. Cardinality(Builds') = Cardinality(Builds) - 1 /\ Cardinality(Builds') \in Nat
    BY <2>2, BuildsFinite, FS_RemoveElement, FS_CardinalityType
  <2>4. nextId <= MaxCerts /\ Room'
    BY <1>0, <2>1, <2>3, BuildsFinite, BoundsAssumption DEF Room, TypeOK
  <2>5. Inv'
    BY <1>0, <1>2, <2>1, <2>4, KeyKeeps
  <2> QED BY <2>4, <2>5
<1> QED BY <1>1, <1>2

LEMMA ScriptKeeps ==
  ASSUME Inv, Room, NEW s \in Slots, Script(s) \/ Fails(s)
  PROVE  Inv' /\ Room'
<1> DEFINE n == script[s].name
<1>0. /\ TypeOK /\ n \in Names /\ crl \subseteq revoked /\ disturbed \subseteq Ids
  BY DEF Inv, TypeOK
<1>1. CASE Sign(s)
  <2>1. /\ script[s].kind = "sign" /\ Meets(n, Removing) /\ UNCHANGED <<ovpn, revoked, crl, nextId>>
        /\ disturbed \subseteq disturbed' /\ disturbed' \subseteq Ids
    BY <1>0, <1>1, MeetsFacts DEF Sign
  <2>2. CASE pki[n] # NoFiles /\ ~pki[n].crt
    <3>1. Signed(s, n) /\ Exit(s, "ok")
      BY <1>1, <2>1, <2>2 DEF Sign, Signed
    <3>2. Inv'
      BY <1>0, <2>1, <3>1, SignedKeeps
    <3> QED BY <1>0, <2>1, <3>1, <3>2, EndRoom
  <2>3. CASE ~(pki[n] # NoFiles /\ ~pki[n].crt)
    <3>1. Exit(s, "failed") /\ UNCHANGED <<pki, issued>>
      BY <1>1, <2>3 DEF Sign
    <3>2. Inv'
      BY <1>0, <2>1, <3>1, EndKeeps
    <3> QED BY <1>0, <2>1, <3>1, <3>2, EndRoom
  <2> QED BY <2>2, <2>3
<1>2. CASE Revoke(s)
  <2>1. script[s].kind = "revoke" /\ UNCHANGED <<ovpn, issued, crl, nextId, disturbed>>
    BY <1>2 DEF Revoke
  <2>2. CASE pki[n].crt /\ pki[n].id \notin revoked
    <3>1. PICK left \in {NoFiles, pki[n]} : pki' = [pki EXCEPT ![n] = left]
      BY <1>2, <2>2 DEF Revoke
    <3>2. revoked' = revoked \cup {pki[n].id} /\ Exit(s, "ok")
      BY <1>2, <2>2 DEF Revoke
    <3>3. Inv'
      BY <1>0, <2>1, <2>2, <3>1, <3>2, RevokedKeeps
    <3> QED BY <1>0, <2>1, <3>2, <3>3, EndRoom
  <2>3. CASE ~(pki[n].crt /\ pki[n].id \notin revoked)
    <3>1. Exit(s, "failed") /\ UNCHANGED <<pki, revoked>>
      BY <1>2, <2>3 DEF Revoke
    <3>2. Inv'
      BY <1>0, <2>1, <2>3, <3>1, EndKeeps
    <3> QED BY <1>0, <2>1, <3>1, <3>2, EndRoom
  <2> QED BY <2>2, <2>3
<1>3. CASE GenCrl(s)
  <2>1. /\ script[s].kind = "crl" /\ crl' = revoked /\ Exit(s, "ok")
        /\ UNCHANGED <<ovpn, pki, issued, revoked, nextId, disturbed>>
    BY <1>3 DEF GenCrl
  <2>2. Inv'
    BY <1>0, <2>1, EndKeeps
  <2> QED BY <1>0, <2>1, <2>2, EndRoom
<1>4. CASE Fails(s)
  <2>1. Exit(s, "failed") /\ UNCHANGED <<ovpn, pki, issued, revoked, crl, nextId>>
    BY <1>4 DEF Fails, files
  <2>2. CASE script[s].kind \in {"build", "sign"} /\ UNCHANGED disturbed
    <3>1. Inv'
      BY <1>0, <2>1, <2>2, EndKeeps
    <3> QED BY <1>0, <2>1, <3>1, EndRoom
  <2>3. CASE script[s].kind \in {"revoke", "crl"} /\ Disturb({n})
    <3>1. /\ disturbed \subseteq disturbed' /\ disturbed' \subseteq Ids
          /\ revoked \ crl \subseteq disturbed' /\ {ovpn[n], pki[n].id} \ {0} \subseteq disturbed'
      BY <1>0, <2>3, DisturbFacts DEF Notes
    <3>2. pki[n].crt => pki[n].id # 0
      BY <1>0 DEF Inv, KeysApart
    <3>3. Inv'
      BY <1>0, <2>1, <2>3, <3>1, <3>2, EndKeeps
    <3> QED BY <1>0, <2>1, <3>3, EndRoom
  <2> QED BY <1>4, <2>2, <2>3 DEF Fails
<1> QED BY <1>1, <1>2, <1>3, <1>4, MakeKeyKeeps DEF Script

LEMMA InvStep == Inv /\ Room /\ [Next]_vars => Inv' /\ Room'
<1> SUFFICES ASSUME Inv, Room, [Next]_vars
             PROVE  Inv' /\ Room'
  OBVIOUS
<1>1. ASSUME NEW t \in Tasks, NEW n \in Names, Create(t, n) \/ Delete(t, n) \/ Disconnect(t, n)
      PROVE  Inv' /\ Room'
  BY <1>1, BeginKeeps
<1>2. ASSUME NEW t \in Tasks, RemoveAll(t)
      PROVE  Inv' /\ Room'
  BY <1>2, BeginKeeps, NamesAssumption DEF RemoveAll
<1>3. ASSUME NEW t \in Tasks, Step(t) \/ GiveUp(t)
      PROVE  Inv' /\ Room'
  BY <1>3, StepKeeps
<1>4. ASSUME NEW s \in Slots, Script(s) \/ Fails(s)
      PROVE  Inv' /\ Room'
  BY <1>4, ScriptKeeps
<1>5. CASE ApiRestart
  <2>1. TypeOK /\ nextId' = nextId
    BY <1>5 DEF Inv, ApiRestart, files
  <2>2. \A s \in Slots : script'[s].kind = script[s].kind
    BY <1>5, <2>1 DEF ApiRestart, TypeOK
  <2> QED BY <1>5, <2>1, <2>2, RestartKeeps, BuildsFewer
<1>6. CASE UNCHANGED vars
  BY <1>6 DEF vars, Inv, TypeOK, Ownership, KeysApart, OrphansHarmless, RevokedGoing, Deleting,
              BuiltMeets, RemovedRevoked, Publishing, Kept, Room, Builds
<1> QED BY <1>1, <1>2, <1>3, <1>4, <1>5, <1>6 DEF Next

LEMMA Invariant == Spec => [](Inv /\ Room)
BY InvInit, InvStep, PTL DEF Spec

(* Every reachable state is typed; no key pair is made beyond the bound. *)
THEOREM TypeCorrect == Spec => []TypeOK
<1>1. Inv => TypeOK
  BY DEF Inv
<1> QED BY <1>1, Invariant, PTL

(* A certificate the server accepts can still be revoked, whatever is given up, fails to *)
(* build or restarts, unless the removal of that certificate itself was disturbed.       *)
THEOREM AcceptedStaysRevocable == Spec => []AcceptedRevocable
<1>1. Inv => AcceptedRevocable
  <2> SUFFICES ASSUME Inv, NEW id \in issued \ (crl \cup disturbed)
               PROVE  \E n \in Names : \/ pki[n] = [id |-> id, crt |-> TRUE]
                                       \/ id \in revoked /\ Deleting(n)
    BY DEF AcceptedRevocable
  <2>1. CASE id \in revoked
    <3>1. PICK t \in Tasks : task[t].pc \in {"revoke", "crl"}
      BY <2>1 DEF Inv, Publishing
    <3>2. Deleting(task[t].name) /\ task[t].name \in Names
      BY <3>1 DEF Deleting, Inv, TypeOK
    <3> QED BY <2>1, <3>2
  <2>2. CASE id \notin revoked
    BY <2>2 DEF Inv, Kept
  <2> QED BY <2>1, <2>2
<1> QED BY <1>1, Invariant, PTL

(* No configuration of a revoked certificate stays behind an undisturbed delete. *)
THEOREM NoConfigIsDead == Spec => []NoDeadConfigs
<1>1. Inv => NoDeadConfigs
  BY DEF Inv, NoDeadConfigs, RevokedGoing, KeysApart
<1> QED BY <1>1, Invariant, PTL

(* A name's file is filled by a create that found a certificate, and by nothing else. *)
LEMMA OnlyCreatesFill ==
  ASSUME Inv, [Next]_vars, NEW n \in Names, ovpn'[n] \notin {0, ovpn[n]}
  PROVE  \E t \in Tasks :
           /\ UNCHANGED <<pki, issued, revoked, crl, disturbed>> /\ task[t].pc = "build"
           /\ n = task[t].name /\ task[t].exit = "ok" /\ pki[n].crt /\ ovpn'[n] = pki[n].id
<1>1. TypeOK
  BY DEF Inv
<1>2. ASSUME NEW t \in Tasks, RemoveFiles(t)
      PROVE  ovpn'[n] \in {0, ovpn[n]}
  BY <1>1, <1>2 DEF RemoveFiles, TypeOK
<1>3. PICK t \in Tasks : Created(t)
  <2>1. ovpn' # ovpn
    BY <1>1 DEF TypeOK
  <2>2. \A t \in Tasks, m \in Names : ~Create(t, m) /\ ~Delete(t, m) /\ ~Disconnect(t, m)
    BY <2>1 DEF Create, Delete, Disconnect, files
  <2>3. \A t \in Tasks : ~RemoveAll(t)
    BY <2>1 DEF RemoveAll, Delete, files
  <2>4. \A t \in Tasks : ~Revoked(t) /\ ~Disconnected(t) /\ ~Deleted(t) /\ ~GiveUp(t)
    BY <1>2, <2>1 DEF Revoked, Disconnected, Deleted, GiveUp, files
  <2>5. \A s \in Slots : ~Script(s) /\ ~Fails(s)
    BY <2>1 DEF Script, MakeKey, Sign, Revoke, GenCrl, Fails, files
  <2>6. ~ApiRestart /\ ~UNCHANGED vars
    BY <2>1 DEF ApiRestart, files, vars
  <2> QED BY <2>2, <2>3, <2>4, <2>5, <2>6 DEF Next, Step
<1>4. task[t].pc = "build" /\ UNCHANGED <<pki, issued, revoked, crl, disturbed>>
  BY <1>3 DEF Created, Exited
<1>5. task[t].exit = "ok" /\ pki[task[t].name].crt
      /\ ovpn' = [ovpn EXCEPT ![task[t].name] = pki[task[t].name].id]
  BY <1>3 DEF Created
<1> QED BY <1>1, <1>4, <1>5 DEF TypeOK

(* What a create answers with is the certificate easyrsa has, and the server accepts it. *)
THEOREM CreatedIsUsable == Spec => CreatedUsable
<1> DEFINE Usable(n) == ovpn'[n] \notin {0, ovpn[n]} =>
                          ovpn'[n] = pki'[n].id /\ ovpn'[n] \in issued' \ (crl' \ disturbed')
<1>1. Inv /\ [Next]_vars => \A n \in Names : Usable(n)
  <2> SUFFICES ASSUME Inv, [Next]_vars, NEW n \in Names, ovpn'[n] \notin {0, ovpn[n]}
               PROVE  ovpn'[n] = pki'[n].id /\ ovpn'[n] \in issued' \ (crl' \ disturbed')
    OBVIOUS
  <2>1. TypeOK
    BY DEF Inv
  <2>4. PICK t \in Tasks :
          /\ UNCHANGED <<pki, issued, revoked, crl, disturbed>> /\ task[t].pc = "build"
          /\ n = task[t].name /\ task[t].exit = "ok" /\ pki[n].crt /\ ovpn'[n] = pki[n].id
    BY OnlyCreatesFill
  <2>5. pki[n].id \in issued
    BY <2>4 DEF Inv, KeysApart
  <2>6. ASSUME pki[n].id \in crl
        PROVE  pki[n].id \in disturbed
    <3>1. Deleting(n) \/ pki[n].id \in disturbed
      BY <2>1, <2>4, <2>6 DEF Inv, RevokedGoing, TypeOK
    <3> QED BY <2>4, <3>1 DEF Deleting, Inv, BuiltMeets, Removing
  <2> QED BY <2>4, <2>5, <2>6
<1> QED BY <1>1, Invariant, PTL DEF CreatedUsable, Spec
-----------------------------------------------------------------------------
(* The safety half of RequestsAnswered. A request that waits for an exit waits for its own *)
(* script: no restart, time-out or failing script leaves it waiting for nobody.            *)
Waiting(t) == task[t].pc \in Kinds /\ task[t].exit = "none"
NobodyWaitsInVain ==
  \A t \in Tasks : Waiting(t) =>
    \E s \in Slots : script[s].owner = t /\ script[s].name = task[t].name
                      /\ Waits(script[s].kind) = task[t].pc

Heard == \A t \in Tasks : Waiting(t) => \E s \in Slots : script[s].owner = t

LEMMA ExecHeard ==
  ASSUME Inv, Heard, NEW t \in Tasks, NEW n \in Names, NEW kind \in Kinds, Exec(t, kind, n)
  PROVE  Heard'
<1>1. PICK s \in Slots :
        /\ script[s].kind = "none"
        /\ script'[s] = [kind |-> kind, name |-> n, owner |-> t]
        /\ \A r \in Slots \ {s} : script'[r] = script[r]
  BY ExecFacts DEF Started, Inv
<1>2. \A u \in Tasks \ {t} : task'[u] = task[u] /\ script[s].owner # u
  <2>1. \A u \in Tasks \ {t} : task'[u] = task[u]
    BY ExecFacts DEF Started, Inv
  <2>2. \A u \in Tasks : task[u].pc # "none"
    BY DEF Inv, TypeOK
  <2> QED BY <1>1, <2>1, <2>2 DEF Inv, Ownership, Waits
<1> SUFFICES ASSUME NEW u \in Tasks, Waiting(u)' PROVE \E r \in Slots : script'[r].owner = u
  BY DEF Heard
<1>3. CASE u = t
  BY <1>1, <1>3
<1>4. CASE u # t
  BY <1>1, <1>2, <1>4 DEF Heard, Waiting
<1> QED BY <1>3, <1>4

LEMMA ExitHeard ==
  ASSUME Inv, Heard, NEW s \in Slots, NEW code \in {"ok", "failed"}, Exit(s, code)
  PROVE  Heard'
<1>1. Ended(s, code)
  BY ExitFacts DEF Inv
<1> SUFFICES ASSUME NEW u \in Tasks, Waiting(u)' PROVE \E r \in Slots : script'[r].owner = u
  BY DEF Heard
<1>2. u # script[s].owner /\ Waiting(u)
  BY <1>1 DEF Ended, Waiting
<1>3. PICK r \in Slots : script[r].owner = u
  BY <1>2 DEF Heard
<1> QED BY <1>1, <1>2, <1>3 DEF Ended

LEMMA HeardStep == Inv /\ Heard /\ [Next]_vars => Heard'
<1> SUFFICES ASSUME Inv, Heard, [Next]_vars PROVE Heard'
  OBVIOUS
<1>0. task \in Requests /\ TypeOK
  BY DEF Inv, TypeOK, Requests, RequestState
<1>l. ASSUME NEW t \in Tasks, task'[t].pc \notin Kinds, \A u \in Tasks \ {t} : task'[u] = task[u],
             \A s \in Slots : script'[s].owner = script[s].owner \/ script[s].owner = t
      PROVE  Heard'
  BY <1>l DEF Heard, Waiting
<1>1. ASSUME NEW t \in Tasks, NEW n \in Names, Create(t, n) \/ Delete(t, n)
      PROVE  Heard'
  BY <1>1, ExecHeard DEF Create, Delete, Kinds
<1>2. ASSUME NEW t \in Tasks, NEW n \in Names, Disconnect(t, n)
      PROVE  Heard'
  BY <1>0, <1>2, <1>l DEF Disconnect, Requests, Kinds
<1>3. ASSUME NEW t \in Tasks, RemoveAll(t) PROVE Heard'
  BY <1>1, <1>3, NamesAssumption DEF RemoveAll
<1>4. ASSUME NEW t \in Tasks, task' = [task EXCEPT ![t] = Rest],
             \A s \in Slots : script'[s].owner = script[s].owner \/ script[s].owner = t
      PROVE  Heard'
  BY <1>0, <1>4, <1>l DEF Rest, Kinds, Requests
<1>5. ASSUME NEW t \in Tasks, Step(t) PROVE Heard'
  <2>1. task[t].name \in Names
    BY <1>0 DEF Requests, RequestState
  <2>2. CASE Created(t) \/ Deleted(t)
    BY <1>4, <2>2 DEF Created, Deleted, RemoveFiles
  <2>3. CASE Revoked(t)
    BY <2>1, <2>3, ExecHeard DEF Revoked, Kinds
  <2>4. CASE Disconnected(t)
    BY <1>4, <2>1, <2>4, ExecHeard DEF Disconnected, Kinds
  <2> QED BY <1>5, <2>2, <2>3, <2>4 DEF Step
<1>6. ASSUME NEW t \in Tasks, GiveUp(t) PROVE Heard'
  <2>1. task' = [task EXCEPT ![t] = Rest]
    BY <1>6 DEF GiveUp, RemoveFiles
  <2>2. \A s \in Slots : script'[s].owner = script[s].owner \/ script[s].owner = t
    BY <1>0, <1>6, AbandonFacts DEF GiveUp
  <2> QED BY <1>4, <2>1, <2>2
<1>7. ASSUME NEW s \in Slots, Script(s) \/ Fails(s) PROVE Heard'
  <2>1. CASE \E code \in {"ok", "failed"} : Exit(s, code)
    BY <2>1, ExitHeard
  <2>2. CASE script' = [script EXCEPT ![s].kind = "sign"] /\ UNCHANGED task
    <3>1. \A r \in Slots : script'[r].owner = script[r].owner
      BY <1>0, <2>2 DEF TypeOK
    <3> QED BY <2>2, <3>1 DEF Heard, Waiting
  <2> QED BY <1>7, <2>1, <2>2 DEF Script, MakeKey, Sign, Revoke, GenCrl, Fails
<1>8. CASE ApiRestart
  BY <1>8 DEF ApiRestart, Heard, Waiting, Rest, Kinds
<1>9. CASE UNCHANGED vars
  BY <1>9 DEF vars, Heard, Waiting
<1> QED BY <1>1, <1>2, <1>3, <1>5, <1>6, <1>7, <1>8, <1>9 DEF Next

THEOREM EveryWaitIsHeard == Spec => []NobodyWaitsInVain
<1>1. Init => Heard
  BY DEF Init, Heard, Waiting, Rest, Kinds
<1>2. Inv /\ Heard => NobodyWaitsInVain
  BY DEF Heard, NobodyWaitsInVain, Waiting, Inv, Ownership
<1> QED BY <1>1, <1>2, HeardStep, Invariant, PTL DEF Spec
-----------------------------------------------------------------------------
(* Towards DeleteCutsOff: what a request does to its own record, and who fills a file. *)
Others(t) == \A u \in Tasks \ {t} : task'[u] = task[u]
Begun(t) == Others(t) /\ task'[t].pc # "idle" /\ task'[t].exit = "none"
Over(t) == Others(t) /\ task'[t].pc = "idle"
Heeded(s, code) ==
  \A u \in Tasks : /\ task'[u].pc = task[u].pc /\ task'[u].name = task[u].name
                   /\ task'[u].exit = IF u = script[s].owner THEN code ELSE task[u].exit

(* Every step, by what it does to the requests. *)
LEMMA StepsByRequest ==
  ASSUME Inv, [Next]_vars
  PROVE  \/ task' = task
         \/ \E t \in Tasks : Begun(t)
         \/ \E t \in Tasks : Over(t) /\ (Created(t) \/ Deleted(t) \/ Disconnected(t) \/ GiveUp(t))
         \/ \E s \in Slots : Heeded(s, "ok") /\ (Sign(s) \/ Revoke(s) \/ GenCrl(s))
         \/ \E s \in Slots : Heeded(s, "failed")
         \/ ApiRestart
<1>0. task \in Requests /\ TypeOK
  BY DEF Inv, TypeOK, Requests, RequestState
<1>e. ASSUME NEW t \in Tasks, NEW n \in Names, NEW kind \in Kinds, Exec(t, kind, n)
      PROVE  Begun(t)
  <2>1. Started(t, kind, n)
    BY <1>0, <1>e, ExecFacts
  <2>2. kind # "idle"
    BY DEF Kinds
  <2> QED BY <2>1, <2>2 DEF Started, Begun, Others
<1>r. ASSUME NEW t \in Tasks, task' = [task EXCEPT ![t] = Rest]
      PROVE  Over(t)
  BY <1>0, <1>r, RestFacts DEF Over, Others
<1>x. ASSUME NEW s \in Slots, NEW code \in {"ok", "failed"}, Exit(s, code)
      PROVE  Heeded(s, code)
  BY <1>0, <1>x, ExitFacts DEF Ended, Heeded
<1>1. ASSUME NEW t \in Tasks, NEW n \in Names, Create(t, n) \/ Delete(t, n)
      PROVE  Begun(t)
  BY <1>1, <1>e DEF Create, Delete, Kinds
<1>2. ASSUME NEW t \in Tasks, NEW n \in Names, Disconnect(t, n)
      PROVE  Begun(t)
  BY <1>0, <1>2 DEF Disconnect, Requests, Begun, Others
<1>3. ASSUME NEW t \in Tasks, RemoveAll(t) PROVE Begun(t)
  BY <1>1, <1>3, NamesAssumption DEF RemoveAll
<1>4. ASSUME NEW t \in Tasks, Created(t) \/ Deleted(t) \/ GiveUp(t) PROVE Over(t)
  BY <1>4, <1>r DEF Created, Deleted, GiveUp, RemoveFiles
<1>5. ASSUME NEW t \in Tasks, Revoked(t) PROVE Begun(t)
  <2>1. task[t].name \in Names
    BY <1>0 DEF Requests, RequestState
  <2> QED BY <1>5, <2>1, <1>e DEF Revoked, Kinds
<1>6. ASSUME NEW t \in Tasks, Disconnected(t) PROVE Begun(t) \/ Over(t)
  <2>1. task[t].name \in Names
    BY <1>0 DEF Requests, RequestState
  <2> QED BY <1>6, <2>1, <1>e, <1>r DEF Disconnected, Kinds
<1>7. ASSUME NEW s \in Slots, Sign(s) \/ Revoke(s) \/ GenCrl(s)
      PROVE  Heeded(s, "ok") \/ Heeded(s, "failed")
  BY <1>7, <1>x DEF Sign, Revoke, GenCrl
<1>8. ASSUME NEW s \in Slots, MakeKey(s) \/ Fails(s)
      PROVE  Heeded(s, "failed") \/ task' = task
  BY <1>8, <1>x DEF MakeKey, Fails
<1>9. UNCHANGED vars => task' = task
  BY DEF vars
<1> QED BY <1>1, <1>2, <1>3, <1>4, <1>5, <1>6, <1>7, <1>8, <1>9 DEF Next, Step, Script

(* What is published stays published. *)
LEMMA ListsGrow ==
  ASSUME Inv, [Next]_vars
  PROVE  crl \subseteq crl' /\ disturbed \subseteq disturbed'
<1>0. TypeOK /\ crl \subseteq revoked
  BY DEF Inv, TypeOK
<1>d. ASSUME NEW names \in SUBSET Names, Disturb(names) PROVE disturbed \subseteq disturbed'
  BY <1>d DEF Disturb
<1>m. ASSUME NEW n \in Names, NEW kinds, Meets(n, kinds) PROVE disturbed \subseteq disturbed'
  BY <1>m DEF Meets, Disturb
<1>1. ASSUME NEW t \in Tasks, NEW n \in Names, Create(t, n) \/ Delete(t, n) \/ Disconnect(t, n)
      PROVE  crl' = crl /\ disturbed \subseteq disturbed'
  BY <1>1, <1>m DEF Create, Delete, Disconnect, files
<1>2. ASSUME NEW t \in Tasks, RemoveAll(t)
      PROVE  crl' = crl /\ disturbed \subseteq disturbed'
  BY <1>1, <1>2, NamesAssumption DEF RemoveAll
<1>3. ASSUME NEW t \in Tasks, Step(t) \/ GiveUp(t)
      PROVE  crl' = crl /\ disturbed \subseteq disturbed'
  <2>1. {task[t].name} \in SUBSET Names
    BY <1>0 DEF TypeOK
  <2> QED BY <1>3, <1>d, <2>1 DEF Step, Created, Revoked, Deleted, Disconnected, GiveUp, RemoveFiles,
                                  files
<1>4. ASSUME NEW s \in Slots, Script(s) \/ Fails(s)
      PROVE  crl \subseteq crl' /\ disturbed \subseteq disturbed'
  <2>1. script[s].name \in Names /\ {script[s].name} \in SUBSET Names
    BY <1>0 DEF TypeOK
  <2> QED BY <1>0, <1>4, <1>d, <1>m, <2>1 DEF Script, MakeKey, Sign, Revoke, GenCrl, Fails, files
<1>5. CASE ApiRestart
  <2>1. {n \in Names : Deleting(n)} \in SUBSET Names
    OBVIOUS
  <2> QED BY <1>5, <1>d, <2>1 DEF ApiRestart, files
<1>6. CASE UNCHANGED vars
  BY <1>6 DEF vars
<1> QED BY <1>1, <1>2, <1>3, <1>4, <1>5, <1>6 DEF Next

(* A delete whose list has been generated has published the certificate it removes. *)
CutOff(n) == ovpn[n] \in {0} \cup crl \cup disturbed
Published ==
  \A t \in Tasks : task[t].pc = "crl" /\ task[t].exit = "ok" => CutOff(task[t].name)

(* A delete that generates the list has revoked the certificate it removes. *)
LEMMA RemovedIsRevoked ==
  ASSUME Inv, NEW t \in Tasks, task[t].pc = "crl"
  PROVE  ovpn[task[t].name] \in {0} \cup revoked \cup disturbed
<1> DEFINE n == task[t].name
           id == ovpn[n]
<1> SUFFICES ASSUME id # 0, id \notin revoked \cup disturbed PROVE FALSE
  OBVIOUS
<1>1. n \in Names /\ id \in issued
  BY DEF Inv, TypeOK, KeysApart
<1>2. PICK m \in Names : pki[m] = [id |-> id, crt |-> TRUE]
  BY <1>1 DEF Inv, Kept
<1>3. m = n
  BY <1>1, <1>2 DEF Inv, KeysApart
<1> QED BY <1>2, <1>3 DEF Inv, RemovedRevoked

LEMMA CutOffStays ==
  ASSUME Inv, [Next]_vars, NEW t \in Tasks, task[t].pc = "crl", CutOff(task[t].name)
  PROVE  ovpn'[task[t].name] \in {0} \cup crl' \cup disturbed'
<1> DEFINE n == task[t].name
<1>1. n \in Names /\ crl \subseteq crl' /\ disturbed \subseteq disturbed'
  BY ListsGrow DEF Inv, TypeOK
<1>2. CASE ovpn'[n] \in {0, ovpn[n]}
  BY <1>1, <1>2 DEF CutOff
<1>3. CASE ovpn'[n] \notin {0, ovpn[n]}
  <2>1. PICK b \in Tasks : /\ task[b].pc = "build" /\ n = task[b].name /\ task[b].exit = "ok"
                           /\ pki[n].crt /\ ovpn'[n] = pki[n].id
    BY <1>1, <1>3, OnlyCreatesFill
  <2>2. pki[n].id \in disturbed
    BY <2>1 DEF Inv, BuiltMeets, Removing
  <2> QED BY <1>1, <2>1, <2>2
<1> QED BY <1>2, <1>3

LEMMA PublishedStep == Inv /\ Published /\ [Next]_vars => Published'
<1> SUFFICES ASSUME Inv, Published, [Next]_vars, NEW t \in Tasks,
                    task'[t].pc = "crl", task'[t].exit = "ok"
             PROVE  ovpn'[task'[t].name] \in {0} \cup crl' \cup disturbed'
  BY DEF Published, CutOff
<1>1. CASE task'[t].pc = task[t].pc /\ task'[t].name = task[t].name /\ task'[t].exit = task[t].exit
  BY <1>1, CutOffStays DEF Published
<1>2. CASE \E s \in Slots : Heeded(s, "ok") /\ (Sign(s) \/ Revoke(s) \/ GenCrl(s))
  <2>1. PICK s \in Slots : Heeded(s, "ok") /\ (Sign(s) \/ Revoke(s) \/ GenCrl(s))
    BY <1>2
  <2>2. CASE t # script[s].owner
    BY <1>1, <2>1, <2>2 DEF Heeded
  <2>3. CASE t = script[s].owner
    <3>1. task[t].pc = "crl" /\ task'[t].name = task[t].name
      BY <2>1 DEF Heeded
    <3>2. Waits(script[s].kind) = "crl"
      BY <2>3, <3>1 DEF Inv, Ownership
    <3>3. GenCrl(s)
      BY <2>1, <3>2 DEF Sign, Revoke, Waits
    <3>4. crl' = revoked /\ UNCHANGED <<ovpn, disturbed>>
      BY <3>3 DEF GenCrl
    <3>5. ovpn[task[t].name] \in {0} \cup revoked \cup disturbed
      BY <3>1, RemovedIsRevoked
    <3> QED BY <3>1, <3>4, <3>5 DEF CutOff
  <2> QED BY <2>2, <2>3
<1>3. CASE \E u \in Tasks : Begun(u) \/ Over(u)
  BY <1>1, <1>3 DEF Begun, Over, Others
<1>4. CASE \E s \in Slots : Heeded(s, "failed")
  BY <1>1, <1>4 DEF Heeded
<1>5. ~ApiRestart
  BY DEF ApiRestart, Rest
<1>6. CASE task' = task
  BY <1>1, <1>6
<1> QED BY <1>2, <1>3, <1>4, <1>5, <1>6, StepsByRequest

(* A delete that revoked answers only when the server refuses the certificate it removed, *)
(* whatever creates, scripts given up and other deletes do to the name meanwhile; a delete *)
(* that was cut short is noted.                                                            *)
THEOREM DeletesCutOff == Spec => DeleteCutsOff
<1> DEFINE Done(t) == task[t].pc \in {"revoke", "crl"} /\ task[t].exit = "ok"
                        /\ task'[t].pc = "idle"
           Cut(t) == ovpn[task[t].name] \in {0} \cup crl' \cup disturbed'
<1>1. Init => Published
  BY DEF Init, Published, Rest
<1>2. Inv /\ Published /\ [Next]_vars => \A t \in Tasks : Done(t) => Cut(t)
  <2> SUFFICES ASSUME Inv, Published, [Next]_vars, NEW t \in Tasks, Done(t)
               PROVE  Cut(t)
    OBVIOUS
  <2>0. TypeOK /\ task[t].name \in Names /\ crl \subseteq crl' /\ disturbed \subseteq disturbed'
    BY ListsGrow DEF Inv, TypeOK
  <2>n. ASSUME NEW names \in SUBSET Names, Disturb(names), task[t].name \in names PROVE Cut(t)
    BY <2>0, <2>n, DisturbFacts DEF Notes
  <2>1. CASE Deleted(t)
    <3>1. task[t].pc = "crl" /\ task[t].exit = "ok"
      BY <2>1 DEF Deleted, Exited
    <3> QED BY <2>0, <3>1 DEF Published, CutOff
  <2>2. CASE GiveUp(t)
    <3>1. Disturb({task[t].name})
      BY <2>2 DEF GiveUp
    <3> QED BY <2>0, <2>n, <3>1
  <2>3. CASE ApiRestart
    <3>1. Disturb({n \in Names : Deleting(n)}) /\ Deleting(task[t].name)
      BY <2>3 DEF ApiRestart, Deleting
    <3> QED BY <2>0, <2>n, <3>1
  <2>4. ~Created(t) /\ ~Disconnected(t)
    BY DEF Created, Disconnected, Exited
  <2>5. \A s \in Slots : \A code : ~Heeded(s, code)
    BY DEF Heeded
  <2>6. \A u \in Tasks : ~Begun(u) /\ (Over(u) => u = t)
    BY DEF Begun, Over, Others
  <2>7. task' # task
    OBVIOUS
  <2> QED BY <2>1, <2>2, <2>3, <2>4, <2>5, <2>6, <2>7, StepsByRequest
<1> QED BY <1>1, <1>2, PublishedStep, Invariant, PTL DEF DeleteCutsOff, Spec
=================================================================================
