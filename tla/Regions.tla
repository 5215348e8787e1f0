-------------------------------- MODULE Regions --------------------------------
(***************************************************************************)
(* The regions table and everything that writes to it: the region requests *)
(* of src/api/main.py, the detached task that provisions a region on       *)
(* Oracle Cloud (src/api/oracle_service.py), the health checks and the     *)
(* background poller (src/api/region_service.py).                          *)
(*                                                                         *)
(* All of them are coroutines of one process without any lock. A database  *)
(* transaction is one step, and so are consecutive ones; a coroutine is    *)
(* suspended while it waits for Oracle or for an agent. What it read       *)
(* before is what it goes on with after. Row ids are SQLite's: the largest *)
(* id in use plus one, so the id of a deleted region comes back.           *)
(***************************************************************************)
EXTENDS Integers, FiniteSets, FiniteSetsExt

CONSTANTS
  Slugs,        \* region slugs
  Vms,          \* the instances Oracle can launch
  Vps,          \* a server an administrator set up by hand
  NoMachine,    \* NULL in agent_url or in oracle_instance_id
  NoRow,        \* an id that is not in the table
  Requests,     \* concurrent HTTP requests that wait for something
  Poller,       \* the worker that is not a request: region_health_poller
  MaxRegions,   \* bound: how many regions are ever created
  Faults,       \* "restart": the API process; "lost": an OCI call whose answer never
                \* arrives; "reclaim": Oracle ends an instance by itself
  Admin         \* "switch", "repoint": PUT /regions changes is_active, or
                \* the agent's URL and key; "impatient": a region is deleted while
                \* its provisioning task is still running

ASSUME MachinesAssumption ==
  /\ Vps \notin Vms
  /\ NoMachine \notin Vms \cup {Vps}
ASSUME WorkersAssumption == Poller \notin Requests
ASSUME BoundsAssumption ==
  /\ MaxRegions \in Nat
  /\ Faults \subseteq {"restart", "lost", "reclaim"}
  /\ Admin \subseteq {"switch", "repoint", "impatient"}

Machines == Vms \cup {Vps}
Ids == 2..(MaxRegions + 1)      \* 1 is the local region
Creations == 1..MaxRegions
Workers == Requests \cup {Poller}

(* A row: nth is no column, it tells the regions that get the same id apart. *)
Statuses == {"healthy", "unreachable", "provisioning", "failed"}
Row == [nth : Creations, slug : Slugs, status : Statuses,
        active : BOOLEAN, agent : Machines \cup {NoMachine}, vm : Vms \cup {NoMachine}]
ASSUME NoRowAssumption == NoRow \notin Row

VARIABLES
  rows,      \* the regions table, without the local region
  created,   \* how many regions were created
  vms,       \* Oracle's side: the state of every instance
  tasks,     \* provision_oracle_region of the n-th region created
  work,      \* what every request, and the poller, is waiting for
  todo,      \* the regions left in this round of the poller
  reported   \* instances an answer named as not terminated

vars == <<rows, created, vms, tasks, work, todo, reported>>

Idle == [pc |-> "idle"]
NoTask == [pc |-> "done"]

Exists(i) == rows[i] # NoRow
Present == {i \in Ids : Exists(i)}
SlugFree(s) == \A i \in Present : rows[i].slug # s
Running(n) == tasks[n].pc # "done"
Up(m) == m = Vps \/ (m \in Vms /\ vms[m] = "running")

Init ==
  /\ rows = [i \in Ids |-> NoRow]
  /\ created = 0
  /\ vms = [v \in Vms |-> "unused"]
  /\ tasks = [n \in Creations |-> NoTask]
  /\ work = [w \in Workers |-> Idle]
  /\ todo = {}
  /\ reported = {}
-----------------------------------------------------------------------------
(* INSERT: SQLite picks the id, UNIQUE guards the slug. *)
FreshIdWithoutLocal == Max({0} \cup Present) + 1
FreshId == Max({1} \cup Present) + 1

NewRow(s, status, active, agent) ==
  [nth |-> created + 1, slug |-> s, status |-> status, active |-> active,
   agent |-> agent, vm |-> NoMachine]

InsertUnguarded(row) ==
  /\ created < MaxRegions
  /\ rows' = [rows EXCEPT ![FreshId] = row]
  /\ created' = created + 1

Insert(row) ==
  /\ created < MaxRegions
  /\ SlugFree(row.slug)
  /\ rows' = [rows EXCEPT ![FreshId] = row]
  /\ created' = created + 1

(* create_region looks for the slug, then waits for the agent's /health, *)
(* then inserts or answers an error.                                     *)
Register(r, s) ==
  /\ work[r] = Idle
  /\ SlugFree(s)
  /\ work' = [work EXCEPT ![r] = [pc |-> "register", slug |-> s]]
  /\ UNCHANGED <<rows, created, vms, tasks, todo, reported>>

Registered(r) ==
  /\ work[r].pc = "register"
  /\ \/ Insert(NewRow(work[r].slug, "healthy", TRUE, Vps))
     \/ UNCHANGED <<rows, created>>
  /\ work' = [work EXCEPT ![r] = Idle]
  /\ UNCHANGED <<vms, tasks, todo, reported>>

(* create_oracle_region: a row without agent, and the task that will fill it. *)
Provision(s) ==
  /\ Insert(NewRow(s, "provisioning", FALSE, NoMachine))
  /\ tasks' = [tasks EXCEPT ![created + 1] = [pc |-> "launch", id |-> FreshId, vm |-> NoMachine]]
  /\ UNCHANGED <<vms, work, todo, reported>>

(* update_region: switched on or off, or pointed at another agent. *)
Update(i) ==
  /\ Exists(i)
  /\ LET row == rows[i]
     IN \/ "switch" \in Admin /\ rows' = [rows EXCEPT ![i] = [row EXCEPT !.active = ~row.active]]
        \/ "repoint" \in Admin /\ rows' = [rows EXCEPT ![i] = [row EXCEPT !.agent = Vps]]
  /\ UNCHANGED <<created, vms, tasks, work, todo, reported>>

(* delete_region: the row first, then the instance the row named. *)
MayDelete(i) == "impatient" \in Admin \/ \A n \in Creations : Running(n) => tasks[n].id # i

DeleteKeepsRow(r, i) ==
  /\ work[r] = Idle
  /\ Exists(i)
  /\ MayDelete(i)
  /\ work' = [work EXCEPT ![r] = IF rows[i].vm = NoMachine THEN Idle
                                 ELSE [pc |-> "terminate", vm |-> rows[i].vm]]
  /\ UNCHANGED <<rows, created, vms, tasks, todo, reported>>

Delete(r, i) ==
  /\ work[r] = Idle
  /\ Exists(i)
  /\ MayDelete(i)
  /\ rows' = [rows EXCEPT ![i] = NoRow]
  /\ work' = [work EXCEPT ![r] = IF rows[i].vm = NoMachine THEN Idle
                                 ELSE [pc |-> "terminate", vm |-> rows[i].vm]]
  /\ UNCHANGED <<created, vms, tasks, todo, reported>>

(* terminate_instance. A refusal by Oracle goes into the answer; any other exception *)
(* ends the request, whether the instance was terminated or not.                     *)
TerminateQuietly(r) ==
  /\ work[r].pc = "terminate"
  /\ vms' \in {vms, [vms EXCEPT ![work[r].vm] = "terminated"]}
  /\ work' = [work EXCEPT ![r] = Idle]
  /\ UNCHANGED <<rows, created, tasks, todo, reported>>

Terminate(r) ==
  /\ work[r].pc = "terminate"
  /\ LET v == work[r].vm
         terminated == [vms EXCEPT ![v] = "terminated"]
     IN \/ vms' = terminated /\ UNCHANGED reported
        \/ reported' = reported \cup {v} /\ UNCHANGED vms
        \/ "lost" \in Faults /\ vms' \in {vms, terminated} /\ UNCHANGED reported
  /\ work' = [work EXCEPT ![r] = Idle]
  /\ UNCHANGED <<rows, created, tasks, todo>>
-----------------------------------------------------------------------------
(* health_check_region loads the row, asks Oracle and the agent, then writes the status *)
(* if it differs from the one loaded, to whatever row has the id by then.               *)
Load(w, i) == work' = [work EXCEPT ![w] = [pc |-> "check", id |-> i,
                                           status |-> rows[i].status, agent |-> rows[i].agent]]

(* check_region_health, the Check button, turns away regions in provisioning. *)
Check(r, i) ==
  /\ work[r] = Idle
  /\ Exists(i)
  /\ rows[i].agent # NoMachine
  /\ rows[i].status # "provisioning"
  /\ Load(r, i)
  /\ UNCHANGED <<rows, created, vms, tasks, todo, reported>>

(* A round of region_health_poller: the active regions, one at a time. *)
PollRound ==
  /\ work[Poller] = Idle
  /\ todo = {}
  /\ todo' = {i \in Present : rows[i].active}
  /\ UNCHANGED <<rows, created, vms, tasks, work, reported>>

PollNext(i) ==
  /\ work[Poller] = Idle
  /\ i \in todo
  /\ todo' = todo \ {i}
  /\ IF Exists(i) THEN Load(Poller, i) ELSE UNCHANGED work
  /\ UNCHANGED <<rows, created, vms, tasks, reported>>

(* An agent may fail to answer at any time, and can only answer on a machine *)
(* that runs.                                                                       *)
Findings(agent) == {"unreachable"} \cup (IF Up(agent) THEN {"healthy"} ELSE {})

(* The UPDATE of a row that is gone raises StaleDataError: an error for a request, the *)
(* end of the round for the poller.                                                    *)
StaleKillsPoller(w) ==
  /\ UNCHANGED <<rows, todo>>
  /\ IF w = Poller THEN UNCHANGED work ELSE work' = [work EXCEPT ![w] = Idle]

Stale(w) ==
  /\ todo' = IF w = Poller THEN {} ELSE todo
  /\ work' = [work EXCEPT ![w] = Idle]
  /\ UNCHANGED rows

Write(w, i, found) ==
  /\ rows' = IF found = work[w].status THEN rows ELSE [rows EXCEPT ![i] = [@ EXCEPT !.status = found]]
  /\ work' = [work EXCEPT ![w] = Idle]
  /\ UNCHANGED todo

Checked(w) ==
  /\ work[w].pc = "check"
  /\ IF Exists(work[w].id)
     THEN \E found \in Findings(work[w].agent) : Write(w, work[w].id, found)
     ELSE Stale(w)
  /\ UNCHANGED <<created, vms, tasks, reported>>
-----------------------------------------------------------------------------
(* provision_oracle_region. _set_fields finds its row by id, and does nothing when no *)
(* row has it.                                                                        *)
SetFields(i, row) == rows' = IF Exists(i) THEN [rows EXCEPT ![i] = row] ELSE rows

Goto(n, pc) == tasks' = [tasks EXCEPT ![n].pc = pc]
End(n) == tasks' = [tasks EXCEPT ![n] = NoTask]

(* Network, image, and launch_instance in one availability domain after the other. *)
Launch(n) ==
  /\ tasks[n].pc = "launch"
  /\ \E v \in Vms :
       /\ vms[v] = "unused"
       /\ vms' = [vms EXCEPT ![v] = "running"]
       /\ tasks' = [tasks EXCEPT ![n] = [pc |-> "record", id |-> tasks[n].id, vm |-> v]]
  /\ UNCHANGED <<rows, created, work, todo, reported>>

(* The instance id is stored before anything else that could fail. *)
RecordLater(n) ==
  /\ tasks[n].pc = "record"
  /\ Goto(n, "address")
  /\ UNCHANGED <<rows, created, vms, work, todo, reported>>

Record(n) ==
  /\ tasks[n].pc = "record"
  /\ SetFields(tasks[n].id, [rows[tasks[n].id] EXCEPT !.vm = tasks[n].vm])
  /\ Goto(n, "address")
  /\ UNCHANGED <<created, vms, work, todo, reported>>

(* _wait_for_public_ip has found it. *)
StoreAgent(n) ==
  /\ tasks[n].pc = "address"
  /\ SetFields(tasks[n].id, [rows[tasks[n].id] EXCEPT !.agent = tasks[n].vm])
  /\ Goto(n, "poll")
  /\ UNCHANGED <<created, vms, work, todo, reported>>

(* _wait_for_agent_healthy: the agent answers its first poll. *)
AgentHealthy(n) ==
  /\ tasks[n].pc = "poll"
  /\ Up(tasks[n].vm)
  /\ SetFields(tasks[n].id, [rows[tasks[n].id] EXCEPT !.status = "healthy", !.active = TRUE])
  /\ End(n)
  /\ UNCHANGED <<created, vms, work, todo, reported>>

(* An error from Oracle, or one of the two deadlines. *)
FailSilently(n) ==
  /\ tasks[n].pc \in {"launch", "address", "poll"}
  /\ End(n)
  /\ UNCHANGED <<rows, created, vms, work, todo, reported>>

FailWithoutDeadline(n) ==
  /\ tasks[n].pc \in {"launch", "address"}
  /\ SetFields(tasks[n].id, [rows[tasks[n].id] EXCEPT !.status = "failed"])
  /\ End(n)
  /\ UNCHANGED <<created, vms, work, todo, reported>>

Fail(n) ==
  /\ tasks[n].pc \in {"launch", "address", "poll"}
  /\ SetFields(tasks[n].id, [rows[tasks[n].id] EXCEPT !.status = "failed"])
  /\ End(n)
  /\ UNCHANGED <<created, vms, work, todo, reported>>

(* launch_instance raises although Oracle has launched. *)
LaunchLost(n) ==
  /\ "lost" \in Faults
  /\ tasks[n].pc = "launch"
  /\ \E v \in Vms : vms[v] = "unused" /\ vms' = [vms EXCEPT ![v] = "running"]
  /\ SetFields(tasks[n].id, [rows[tasks[n].id] EXCEPT !.status = "failed"])
  /\ End(n)
  /\ UNCHANGED <<created, work, todo, reported>>
-----------------------------------------------------------------------------
(* The process restarts (uvicorn --reload): tasks and requests are gone, nothing *)
(* resumes them.                                                                 *)
ApiRestart ==
  /\ "restart" \in Faults
  /\ tasks' = [n \in Creations |-> NoTask]
  /\ work' = [w \in Workers |-> Idle]
  /\ todo' = {}
  /\ UNCHANGED <<rows, created, vms, reported>>

(* Oracle ends an instance (idle Always Free instances are reclaimed). *)
Reclaim(v) ==
  /\ "reclaim" \in Faults
  /\ vms[v] = "running"
  /\ vms' = [vms EXCEPT ![v] = "terminated"]
  /\ UNCHANGED <<rows, created, tasks, work, todo, reported>>

TaskStep(n) == Launch(n) \/ Record(n) \/ StoreAgent(n) \/ AgentHealthy(n) \/ Fail(n) \/ LaunchLost(n)
PollStep == PollRound \/ (\E i \in Ids : PollNext(i)) \/ Checked(Poller)
Answer(r) == Registered(r) \/ Terminate(r) \/ Checked(r)

Ask(r) ==
  \/ \E s \in Slugs : Register(r, s)
  \/ \E i \in Ids : Delete(r, i) \/ Check(r, i)

Next ==
  \/ \E r \in Requests : Ask(r) \/ Answer(r)
  \/ \E s \in Slugs : Provision(s)
  \/ \E i \in Ids : Update(i)
  \/ \E n \in Creations : TaskStep(n)
  \/ PollStep
  \/ ApiRestart
  \/ \E v \in Vms : Reclaim(v)

Spec == Init /\ [][Next]_vars

(* Waits end: OCI calls and agent requests have timeouts, both polling loops deadlines, *)
(* and the poller sleeps 60 seconds between rounds.                                     *)
FairSpec ==
  /\ Spec
  /\ \A n \in Creations : WF_vars(TaskStep(n))
  /\ \A r \in Requests : WF_vars(Answer(r))
  /\ WF_vars(PollStep)
-----------------------------------------------------------------------------
Waiting ==
  {Idle} \cup [pc : {"register"}, slug : Slugs] \cup [pc : {"terminate"}, vm : Vms]
    \cup [pc : {"check"}, id : Ids, status : Statuses, agent : Machines \cup {NoMachine}]

TaskState ==
  {NoTask} \cup [pc : {"launch"}, id : Ids, vm : {NoMachine}]
    \cup [pc : {"record", "address", "poll"}, id : Ids, vm : Vms]

TypeOK ==
  /\ rows \in [Ids -> Row \cup {NoRow}]
  /\ created \in 0..MaxRegions
  /\ vms \in [Vms -> {"unused", "running", "terminated"}]
  /\ tasks \in [Creations -> TaskState]
  /\ work \in [Workers -> Waiting]
  /\ todo \subseteq Ids
  /\ reported \subseteq Vms

(* Two regions never answer to one slug, although create_region looks for it *)
(* long before it inserts.                                                   *)
SlugsUnique == \A i, j \in Present : rows[i].slug = rows[j].slug => i = j

Recorded(v) == \E i \in Present : rows[i].vm = v
OnItsWay(v) == \E n \in Creations : tasks[n].pc = "record" /\ tasks[n].vm = v
BeingTerminated(v) == \E r \in Requests : work[r] = [pc |-> "terminate", vm |-> v]

(* A delete never terminates the instance of another region: an instance is recorded  *)
(* by one region at most, and by none once a task still has to record it or a request *)
(* is about to terminate it.                                                          *)
TerminationSafe ==
  /\ \A i, j \in Present : rows[i].vm = rows[j].vm /\ rows[i].vm # NoMachine => i = j
  /\ \A v \in Vms : OnItsWay(v) \/ BeingTerminated(v) => ~Recorded(v)

(* A region shown as provisioning has a task at work on it, which is what the Check    *)
(* button answers when it turns the administrator away.                               *)
ProvisioningOwned ==
  \A i \in Present : rows[i].status = "provisioning" =>
    \E n \in Creations : Running(n) /\ tasks[n].id = i

(* No instance runs that nobody knows of. *)
NoOrphans ==
  \A v \in Vms : vms[v] = "running" =>
    Recorded(v) \/ OnItsWay(v) \/ BeingTerminated(v) \/ v \in reported

(* A provisioning task works on the region it was started for, or on none. *)
TaskKeepsItsRegion ==
  \A n \in Creations : Running(n) /\ Exists(tasks[n].id) => rows[tasks[n].id].nth = n

(* Every region leaves "provisioning", whatever Oracle does. *)
ProvisioningResolves ==
  \A i \in Ids : LET Provisioning == Exists(i) /\ rows[i].status = "provisioning"
                 IN Provisioning ~> ~Provisioning

(* The poller notices an active region whose machine is gone, although checks and *)
(* deletes run beside it and each write depends on an earlier read.               *)
Unnoticed(i) ==
  /\ Exists(i)
  /\ rows[i].active
  /\ rows[i].status = "healthy"
  /\ ~Up(rows[i].agent)
DeadRegionNoticed == \A i \in Ids : Unnoticed(i) ~> ~Unnoticed(i)

(* The refinement: where every instance is in its life. *)
Phase(v) ==
  IF vms[v] = "unused" THEN "free"
  ELSE IF vms[v] = "terminated" THEN "returned"
  ELSE IF OnItsWay(v) THEN "rented"
  ELSE IF Recorded(v) THEN "owned"
  ELSE IF BeingTerminated(v) THEN "leaving"
  ELSE IF v \in reported THEN "reported"
  ELSE "orphaned"

Ledger == INSTANCE InstanceLedger WITH phase <- [v \in Vms |-> Phase(v)]
RefinesLedger == Ledger!Spec
================================================================================
