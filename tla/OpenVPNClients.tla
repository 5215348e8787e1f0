------------------------------ MODULE OpenVPNClients ------------------------------
(***************************************************************************)
(* The OpenVPN clients of the dashboard (src/api/main.py 777-1067,         *)
(* 1840-1859, 2688-2782) and the certificates behind them.                 *)
(*                                                                         *)
(* A client is its .ovpn file and what easyrsa keeps for it in the openvpn *)
(* container: key, request and, once signed, certificate. The API reaches  *)
(* easyrsa through docker exec and waits 30 seconds; the script itself is  *)
(* never stopped, so one that was given up works on beside whatever is     *)
(* asked next. No lock serialises anything.                                *)
(*                                                                         *)
(* easyrsa is external: build-client-full refuses a name that has files,   *)
(* then makes the key and signs the request; revoke needs a certificate    *)
(* and, depending on its version, moves the files away; gen-crl publishes  *)
(* what was revoked, and the server refuses what is published.             *)
(***************************************************************************)
EXTENDS Integers, FiniteSets, FiniteSetsExt

CONSTANTS
  Names,       \* client names
  AllName,     \* "all", a legal client name
  Tasks,       \* concurrent requests of the dashboard
  NoTask,      \* whoever has given a script up
  MaxScripts,  \* bound: scripts at work at once
  MaxCerts,    \* bound: key pairs ever made
  Faults       \* "build", "revoke": these scripts may fail or be given up; "restart": the API
               \* may

ASSUME NamesAssumption == AllName \in Names /\ NoTask \notin Tasks
ASSUME BoundsAssumption == MaxScripts \in Nat /\ MaxCerts \in Nat
ASSUME FaultsAssumption == Faults \subseteq {"build", "revoke", "restart"}

VARIABLES
  ovpn,     \* clients/NAME.ovpn: the certificate in it, 0 without the file
  pki,      \* the files of a name: the key pair, 0 without files, and whether it is signed
  issued,   \* the certificates signed so far
  revoked,  \* the certificates easyrsa's index has as revoked
  crl,      \* the certificates in the published list
  nextId,   \* the next key pair
  disturbed, \* the certificates whose removal met a failure, a timeout, a restart or other
             \* work on the same name
  script,   \* the scripts in the container
  task      \* what every request is doing

vars == <<ovpn, pki, issued, revoked, crl, nextId, disturbed, script, task>>
files == <<ovpn, pki, issued, revoked, crl, nextId>>

Slots == 1..MaxScripts
NoFiles == [id |-> 0, crt |-> FALSE]
NoScript == [kind |-> "none", name |-> AllName, owner |-> NoTask]
Rest == [pc |-> "idle", name |-> AllName, exit |-> "none"]

AtRest(t) == task[t].pc = "idle"
Exited(t, pc) == task[t].pc = pc /\ task[t].exit # "none"

(* What requests and scripts, given up or not, are doing to name n. *)
Removing == {"status", "revoke", "crl"}
At(n) == {task[t].pc : t \in {u \in Tasks : task[u].name = n}}
           \cup {script[s].kind : s \in {r \in Slots : script[r].name = n}}

Deleting(n) == \E t \in Tasks : task[t].pc \in {"revoke", "crl"} /\ task[t].name = n

Init ==
  /\ ovpn = [n \in Names |-> 0]
  /\ pki = [n \in Names |-> NoFiles]
  /\ issued = {} /\ revoked = {} /\ crl = {} /\ disturbed = {}
  /\ nextId = 1
  /\ script = [s \in Slots |-> NoScript]
  /\ task = [t \in Tasks |-> Rest]

(* From here on nothing is promised of the certificates of these names, nor of the *)
(* revocations not published yet.                                                  *)
Disturb(names) ==
  disturbed' = disturbed \cup (revoked \ crl)
                 \cup UNION {{ovpn[n], pki[n].id} \ {0} : n \in names}

(* Work on n that meets other work of these kinds on n disturbs it. *)
Meets(n, kinds) ==
  IF At(n) \cap kinds # {} THEN Disturb({n}) ELSE UNCHANGED disturbed
-----------------------------------------------------------------------------
(* _docker_exec: the script starts, and the request waits for its exit. *)
Exec(t, kind, n) ==
  LET free == {s \in Slots : script[s].kind = "none"}
  IN /\ free # {}
     /\ script' = [script EXCEPT ![Min(free)] = [kind |-> kind, name |-> n, owner |-> t]]
     /\ task' = [task EXCEPT ![t] = [pc |-> kind, name |-> n, exit |-> "none"]]

Working == {"status", "build", "sign", "revoke", "crl"}
Builds == {s \in Slots : script[s].kind = "build"}

(* create_openvpn_client, as far as build-client-full. *)
Create(t, n) ==
  /\ AtRest(t)
  /\ nextId + Cardinality(Builds) <= MaxCerts
  /\ Exec(t, "build", n)
  /\ Meets(n, Removing)
  /\ UNCHANGED files

CreatedUnchecked(t) ==
  /\ Exited(t, "build")
  /\ ovpn' = [ovpn EXCEPT ![task[t].name] = pki[task[t].name].id]
  /\ task' = [task EXCEPT ![t] = Rest]
  /\ UNCHANGED <<pki, issued, revoked, crl, nextId, disturbed, script>>

(* The files are read after the script's exit was asked for; a file that is missing, like *)
(* a script that failed, ends the request with an error.                                  *)
Created(t) ==
  /\ Exited(t, "build")
  /\ LET n == task[t].name
         ok == task[t].exit = "ok" /\ pki[n].crt
     IN /\ ovpn' = IF ok THEN [ovpn EXCEPT ![n] = pki[n].id] ELSE ovpn
        /\ task' = [task EXCEPT ![t] = Rest]
  /\ UNCHANGED <<pki, issued, revoked, crl, nextId, disturbed, script>>

(* delete_openvpn_client: revoke first, while the certificate is still there. *)
DeleteFilesFirst(t, n) ==
  /\ AtRest(t)
  /\ Exec(t, "revoke", n)
  /\ Meets(n, Working)
  /\ pki' = [pki EXCEPT ![n] = NoFiles]
  /\ UNCHANGED <<ovpn, issued, revoked, crl, nextId>>

Delete(t, n) ==
  /\ AtRest(t)
  /\ Exec(t, "revoke", n)
  /\ Meets(n, Working)
  /\ UNCHANGED files

(* DELETE /vpn/openvpn/clients/all is answered by the route for {client_name}, which is *)
(* declared before the one for all: remove_all_openvpn_clients is never called.         *)
RemoveAll(t) == Delete(t, AllName)

(* disconnect_client: a client on the status log is deleted; any other name is taken for *)
(* a WireGuard peer.                                                                     *)
Disconnect(t, n) ==
  /\ AtRest(t)
  /\ Meets(n, Working)
  /\ task' = [task EXCEPT ![t] = [pc |-> "status", name |-> n, exit |-> "none"]]
  /\ UNCHANGED <<files, script>>

Disconnected(t) ==
  /\ task[t].pc = "status"
  /\ \/ ovpn[task[t].name] # 0 /\ Exec(t, "revoke", task[t].name)
     \/ task' = [task EXCEPT ![t] = Rest] /\ UNCHANGED script
  /\ UNCHANGED <<files, disturbed>>

(* A revocation that is never published. *)
RevokedUnpublished(t) ==
  /\ Exited(t, "revoke") /\ task[t].exit = "ok"
  /\ ovpn' = [ovpn EXCEPT ![task[t].name] = 0]
  /\ pki' = [pki EXCEPT ![task[t].name] = NoFiles]
  /\ task' = [task EXCEPT ![t] = Rest]
  /\ UNCHANGED <<issued, revoked, crl, nextId, disturbed, script>>

(* A new list is generated only after a revocation that worked. *)
Revoked(t) ==
  /\ Exited(t, "revoke") /\ task[t].exit = "ok"
  /\ Exec(t, "crl", task[t].name)
  /\ UNCHANGED <<files, disturbed>>

(* The files go, whatever became of the revocation. *)
RemoveLeavingOvpn(t) ==
  /\ pki' = [pki EXCEPT ![task[t].name] = NoFiles]
  /\ task' = [task EXCEPT ![t] = Rest]
  /\ UNCHANGED <<ovpn, issued, revoked, crl, nextId>>

RemoveFiles(t) ==
  /\ ovpn' = [ovpn EXCEPT ![task[t].name] = 0]
  /\ pki' = [pki EXCEPT ![task[t].name] = NoFiles]
  /\ task' = [task EXCEPT ![t] = Rest]
  /\ UNCHANGED <<issued, revoked, crl, nextId>>

Deleted(t) ==
  /\ Exited(t, "crl") \/ (Exited(t, "revoke") /\ task[t].exit = "failed")
  /\ RemoveFiles(t)
  /\ UNCHANGED <<disturbed, script>>

(* The 30 seconds are over, or an exit code cannot be had: the script works on. *)
Abandon(t) == script' = [s \in Slots |-> IF script[s].owner = t
                                         THEN [script[s] EXCEPT !.owner = NoTask] ELSE script[s]]

GiveUpNever(t) == FALSE /\ UNCHANGED vars

GiveUp(t) ==
  /\ Abandon(t)
  /\ \/ /\ "build" \in Faults /\ task[t].pc = "build"
        /\ task' = [task EXCEPT ![t] = Rest]
        /\ UNCHANGED <<files, disturbed>>
     \/ /\ "revoke" \in Faults /\ task[t].pc \in {"revoke", "crl"}
        /\ RemoveFiles(t)
        /\ Disturb({task[t].name})
-----------------------------------------------------------------------------
(* The scripts. One that ends tells its owner, if it still has one. *)
Exit(s, code) ==
  /\ script' = [script EXCEPT ![s] = NoScript]
  /\ task' = IF script[s].owner = NoTask THEN task
             ELSE [task EXCEPT ![script[s].owner].exit = code]

(* easyrsa build-client-full, the key. *)
MakeKey(s) ==
  /\ script[s].kind = "build"
  /\ LET n == script[s].name
     IN IF pki[n] = NoFiles
        THEN /\ pki' = [pki EXCEPT ![n] = [id |-> nextId, crt |-> FALSE]]
             /\ nextId' = nextId + 1
             /\ script' = [script EXCEPT ![s].kind = "sign"]
             /\ UNCHANGED task
        ELSE Exit(s, "failed") /\ UNCHANGED <<pki, nextId>>
  /\ UNCHANGED <<ovpn, issued, revoked, crl, disturbed>>

(* The certificate, for the request that is there now. *)
Sign(s) ==
  /\ script[s].kind = "sign"
  /\ LET n == script[s].name
     IN IF pki[n] # NoFiles /\ ~pki[n].crt
        THEN /\ pki' = [pki EXCEPT ![n].crt = TRUE]
             /\ issued' = issued \cup {pki[n].id}
             /\ Exit(s, "ok")
        ELSE Exit(s, "failed") /\ UNCHANGED <<pki, issued>>
  /\ Meets(script[s].name, Removing)
  /\ UNCHANGED <<ovpn, revoked, crl, nextId>>

(* easyrsa revoke. *)
RevokeAnything(s) ==
  /\ script[s].kind = "revoke"
  /\ revoked' = revoked \cup {pki[script[s].name].id}
  /\ Exit(s, "ok")
  /\ UNCHANGED <<ovpn, pki, issued, crl, nextId, disturbed>>

Revoke(s) ==
  /\ script[s].kind = "revoke"
  /\ LET n == script[s].name
     IN IF pki[n].crt /\ pki[n].id \notin revoked
        THEN /\ revoked' = revoked \cup {pki[n].id}
             /\ \E left \in {NoFiles, pki[n]} : pki' = [pki EXCEPT ![n] = left]
             /\ Exit(s, "ok")
        ELSE Exit(s, "failed") /\ UNCHANGED <<pki, revoked>>
  /\ UNCHANGED <<ovpn, issued, crl, nextId, disturbed>>

(* easyrsa gen-crl. *)
GenCrl(s) ==
  /\ script[s].kind = "crl"
  /\ crl' = revoked
  /\ Exit(s, "ok")
  /\ UNCHANGED <<ovpn, pki, issued, revoked, nextId, disturbed>>

Fails(s) ==
  /\ \/ /\ "build" \in Faults /\ script[s].kind \in {"build", "sign"}
        /\ UNCHANGED disturbed
     \/ /\ "revoke" \in Faults /\ script[s].kind \in {"revoke", "crl"}
        /\ Disturb({script[s].name})
  /\ Exit(s, "failed")
  /\ UNCHANGED files

(* The API restarts: its requests are gone, the scripts are not. *)
ApiRestart ==
  /\ "restart" \in Faults
  /\ task' = [t \in Tasks |-> Rest]
  /\ script' = [s \in Slots |-> [script[s] EXCEPT !.owner = NoTask]]
  /\ Disturb({n \in Names : Deleting(n)})
  /\ UNCHANGED files

Script(s) == MakeKey(s) \/ Sign(s) \/ Revoke(s) \/ GenCrl(s)

Step(t) == Created(t) \/ Revoked(t) \/ Deleted(t) \/ Disconnected(t)

Next ==
  \/ \E t \in Tasks :
       \/ \E n \in Names : Create(t, n) \/ Delete(t, n) \/ Disconnect(t, n)
       \/ RemoveAll(t)
       \/ Step(t) \/ GiveUp(t)
  \/ \E s \in Slots : Script(s) \/ Fails(s)
  \/ ApiRestart

Spec == Init /\ [][Next]_vars

(* asyncio resumes a request whose script has ended, and its timeout ends the wait for one *)
(* that has not. Nothing is assumed of the scripts: any of them may hang.                  *)
FairSpec == Spec /\ \A t \in Tasks : WF_vars(Step(t) \/ GiveUp(t))
-----------------------------------------------------------------------------
Ids == 1..MaxCerts

TypeOK ==
  /\ ovpn \in [Names -> {0} \cup Ids]
  /\ pki \in [Names -> [id : {0} \cup Ids, crt : BOOLEAN]]
  /\ crl \subseteq revoked /\ revoked \subseteq issued /\ issued \subseteq Ids
  /\ nextId \in 1..(MaxCerts + 1) /\ disturbed \subseteq Ids
  /\ script \in [Slots -> [kind : {"none", "build", "sign", "revoke", "crl"}, name : Names,
                           owner : Tasks \cup {NoTask}]]
  /\ task \in [Tasks -> [pc : {"idle", "status", "build", "revoke", "crl"}, name : Names,
                         exit : {"none", "ok", "failed"}]]

(* Every certificate the server accepts can still be revoked: its files are there, or the *)
(* list is just being made. A build that was given up leaves no certificate that nobody   *)
(* can take back; only a revocation that fails does.                                      *)
AcceptedRevocable ==
  \A id \in issued \ (crl \cup disturbed) :
    \E n \in Names : pki[n] = [id |-> id, crt |-> TRUE] \/ (id \in revoked /\ Deleting(n))

(* No client is offered a configuration whose certificate is revoked, unless its delete is *)
(* under way or was cut short.                                                             *)
NoDeadConfigs ==
  \A n \in Names : ovpn[n] \in {0} \cup disturbed \cup (issued \ revoked) \/ Deleting(n)

(* The configuration a create answers with is that of the certificate that easyrsa has for *)
(* the name, and the server accepts it.                                                    *)
CreatedUsable ==
  [][\A n \in Names : ovpn'[n] \notin {0, ovpn[n]} =>
       ovpn'[n] = pki'[n].id /\ ovpn'[n] \in issued' \ (crl' \ disturbed')]_vars

(* When a delete that revoked answers, the server refuses the certificate of the client it *)
(* removed: the list is published before the last trace of the client goes.                *)
DeleteCutsOff ==
  [][\A t \in Tasks : task[t].pc \in {"revoke", "crl"} /\ task[t].exit = "ok"
       /\ task'[t].pc = "idle" => ovpn[task[t].name] \in {0} \cup crl' \cup disturbed']_vars

(* A request is answered, however long its script takes. *)
RequestsAnswered == \A t \in Tasks : ~AtRest(t) ~> AtRest(t)

(* When remove-all has answered and nothing else was going on, no client is left. *)
RemoveAllEmpties ==
  [][\A t \in Tasks : (\A u \in Tasks \ {t} : AtRest(u)) /\ task[t].name = AllName
       /\ task[t].pc \in {"revoke", "crl"} /\ task'[t].pc = "idle"
       => \A n \in Names : ovpn'[n] = 0]_vars
=================================================================================
