----------------------------- MODULE RegionsProofs -----------------------------
(***************************************************************************)
(* Theorems about Regions for every number of regions, instances and       *)
(* requests.                                                               *)
(***************************************************************************)
EXTENDS Regions, MaxTheorems, FiniteSetTheorems, TLAPS

(* Rows and running tasks belong to regions that were created, so an id that is *)
(* still to come is within the bound.                                           *)
Counted ==
  /\ \A i \in Present : i <= created + 1
  /\ \A n \in Creations : Running(n) => n <= created

TypeInv == TypeOK /\ Counted

(* The id SQLite picks is in no use, and one above those in use at most. *)
LEMMA FreshIdIsFree ==
  ASSUME TypeInv
  PROVE  /\ FreshId \in Int /\ FreshId >= 2 /\ FreshId <= created + 2
         /\ \A i \in Present : i < FreshId
<1> DEFINE U == {1} \cup Present
<1>1. created \in Nat
  BY BoundsAssumption DEF TypeInv, TypeOK
<1>2. U \subseteq 0..(created + 1) /\ U # {} /\ 1 \in U
  BY <1>1, BoundsAssumption DEF TypeInv, Counted, Present, Ids
<1>3. Max(U) \in U /\ \A y \in U : Max(U) >= y
  BY <1>1, <1>2, MaxIsGreatest
<1>4. Max(U) \in Int /\ Max(U) >= 1 /\ Max(U) <= created + 1
  BY <1>1, <1>2, <1>3
<1>5. FreshId = Max(U) + 1
  BY DEF FreshId
<1>6. \A i \in Present : i \in Int /\ Max(U) >= i
  BY <1>3, BoundsAssumption DEF Present, Ids
<1> QED BY <1>1, <1>4, <1>5, <1>6

(* INSERT adds one row, under an id that was free. *)
LEMMA InsertAdds ==
  ASSUME TypeInv, NEW row \in Row, Insert(row)
  PROVE  /\ FreshId \in Ids /\ FreshId \notin Present
         /\ created' \in 0..MaxRegions /\ created' = created + 1
         /\ rows' \in [Ids -> Row \cup {NoRow}]
         /\ \A i \in Ids : rows'[i] = IF i = FreshId THEN row ELSE rows[i]
         /\ \A i \in Present' : i <= created' + 1
<1>1. created \in Nat /\ MaxRegions \in Nat /\ created < MaxRegions
  BY BoundsAssumption DEF TypeInv, TypeOK, Insert
<1>2. FreshId \in Ids /\ FreshId \notin Present
  BY <1>1, FreshIdIsFree DEF Ids
<1>3. created' = created + 1 /\ created' \in 0..MaxRegions
  BY <1>1 DEF Insert
<1>4. rows' = [rows EXCEPT ![FreshId] = row]
  BY DEF Insert
<1>5. rows' \in [Ids -> Row \cup {NoRow}]
  BY <1>4 DEF TypeInv, TypeOK
<1>6. \A i \in Ids : rows'[i] = IF i = FreshId THEN row ELSE rows[i]
  BY <1>4 DEF TypeInv, TypeOK
<1>7. ASSUME NEW i \in Present' PROVE i <= created' + 1
  <2>1. i \in Ids /\ rows'[i] # NoRow
    BY DEF Present, Exists
  <2>2. CASE i = FreshId
    BY <2>2, <1>1, <1>3, FreshIdIsFree
  <2>3. CASE i # FreshId
    <3>1. i \in Present
      BY <2>1, <2>3, <1>6 DEF Present, Exists
    <3>2. i <= created + 1 /\ i \in Int
      BY <3>1, <1>1 DEF TypeInv, Counted, Present, Ids
    <3> QED BY <3>2, <1>1, <1>3
  <2> QED BY <2>2, <2>3
<1> QED BY <1>2, <1>3, <1>5, <1>6, <1>7

(* What a statement that adds no row does to the table keeps it typed and counted. *)
NoNewRows ==
  /\ rows' \in [Ids -> Row \cup {NoRow}]
  /\ \A i \in Ids : rows'[i] # NoRow => rows[i] # NoRow
  /\ UNCHANGED created

LEMMA NoNewRowsCounted ==
  ASSUME TypeInv, NoNewRows
  PROVE  \A i \in Present' : i <= created' + 1
BY DEF NoNewRows, TypeInv, Counted, Present, Exists

LEMMA SetFieldsKeeps ==
  ASSUME TypeOK, NEW i \in Ids, NEW row, rows[i] # NoRow => row \in Row, SetFields(i, row)
  PROVE  /\ rows' \in [Ids -> Row \cup {NoRow}]
         /\ \A j \in Ids : rows'[j] # NoRow => rows[j] # NoRow
         /\ \A j \in Ids : j # i => rows'[j] = rows[j]
         /\ rows[i] # NoRow => rows'[i] = row
         /\ rows[i] = NoRow => rows'[i] = NoRow
BY DEF TypeOK, SetFields, Exists

(* A running task has an id, and an instance once one is launched. *)
LEMMA TaskTypes ==
  ASSUME TypeOK, NEW n \in Creations
  PROVE  /\ Running(n) => tasks[n].id \in Ids
         /\ tasks[n].pc \in {"record", "address", "poll"} => tasks[n].vm \in Vms
         /\ Running(n) <=> tasks[n].pc \in {"launch", "record", "address", "poll"}
BY DEF TypeOK, TaskState, Running, NoTask

(* Moving a task on, or ending it, starts none. *)
LEMMA GotoKeeps ==
  ASSUME TypeInv, NEW n \in Creations,
         \/ Goto(n, "address") /\ tasks[n].pc = "record"
         \/ Goto(n, "poll") /\ tasks[n].pc = "address"
         \/ End(n)
  PROVE  /\ tasks' \in [Creations -> TaskState]
         /\ \A m \in Creations : (Running(m))' => Running(m)
         /\ \A m \in Creations : m # n => tasks'[m] = tasks[m]
<1>1. CASE End(n)
  BY <1>1 DEF TypeInv, TypeOK, End, NoTask, Running, TaskState
<1>2. CASE Goto(n, "address") /\ tasks[n].pc = "record"
  BY <1>2 DEF TypeInv, TypeOK, Goto, NoTask, Running, TaskState
<1>3. CASE Goto(n, "poll") /\ tasks[n].pc = "address"
  BY <1>3 DEF TypeInv, TypeOK, Goto, NoTask, Running, TaskState
<1> QED BY <1>1, <1>2, <1>3

(* A worker's wait is described by its kind. *)
LEMMA WorkTypes ==
  ASSUME TypeOK, NEW w \in Workers
  PROVE  /\ work[w].pc = "register" => work[w].slug \in Slugs
         /\ work[w].pc = "terminate" => work[w].vm \in Vms
         /\ work[w].pc = "check" => work[w].id \in Ids
BY DEF TypeOK, Waiting, Idle

LEMMA TypeInvInit == Init => TypeInv
BY BoundsAssumption DEF Init, TypeInv, TypeOK, Counted, Present, Exists, Running, NoTask,
   TaskState, Waiting, Creations

LEMMA TypeInvStep == TypeInv /\ [Next]_vars => TypeInv'
<1> SUFFICES ASSUME TypeInv, [Next]_vars PROVE TypeInv'
  OBVIOUS
<1> USE DEF TypeInv
<1>0. TypeOK /\ created \in Nat
  BY BoundsAssumption DEF TypeOK
(* A step that touches no row, and starts no task. *)
<1>q. ASSUME UNCHANGED <<rows, created>>,
             tasks' \in [Creations -> TaskState],
             \A m \in Creations : (Running(m))' => Running(m),
             vms' \in [Vms -> {"unused", "running", "terminated"}],
             work' \in [Workers -> Waiting], todo' \subseteq Ids, reported' \subseteq Vms
      PROVE  TypeInv'
  BY <1>q, <1>0 DEF TypeOK, Counted, Present, Exists
(* A step that adds no row, and starts no task. *)
<1>r. ASSUME NoNewRows,
             tasks' \in [Creations -> TaskState],
             \A m \in Creations : (Running(m))' => Running(m),
             vms' \in [Vms -> {"unused", "running", "terminated"}],
             work' \in [Workers -> Waiting], todo' \subseteq Ids, reported' \subseteq Vms
      PROVE  TypeInv'
  BY <1>r, <1>0, NoNewRowsCounted DEF TypeOK, Counted, NoNewRows
<1>1. CASE UNCHANGED vars
  BY <1>1, <1>0, <1>q DEF vars, TypeOK, Running
<1>2. ASSUME NEW r \in Requests, NEW s \in Slugs, Register(r, s) PROVE TypeInv'
  <2>1. work' \in [Workers -> Waiting]
    BY <1>2, <1>0 DEF Register, TypeOK, Waiting, Workers
  <2> QED BY <2>1, <1>2, <1>0, <1>q DEF Register, TypeOK, Running
<1>3. ASSUME NEW r \in Requests, NEW i \in Ids, Delete(r, i) PROVE TypeInv'
  <2>1. rows[i] \in Row
    BY <1>3, <1>0 DEF Delete, Exists, TypeOK
  <2>2. rows[i].vm # NoMachine => rows[i].vm \in Vms
    BY <2>1 DEF Row
  <2>3. work' \in [Workers -> Waiting]
    BY <1>3, <1>0, <2>2 DEF Delete, TypeOK, Waiting, Workers
  <2>4. NoNewRows
    BY <1>3, <1>0 DEF Delete, NoNewRows, TypeOK
  <2> QED BY <2>3, <2>4, <1>3, <1>0, <1>r DEF Delete, TypeOK, Running
<1>4. ASSUME NEW w \in Workers, NEW i \in Ids, Exists(i), Load(w, i)
      PROVE  work' \in [Workers -> Waiting]
  <2>1. rows[i].status \in Statuses /\ rows[i].agent \in Machines \cup {NoMachine}
    BY <1>4, <1>0 DEF Exists, TypeOK, Row
  <2> QED BY <1>4, <1>0, <2>1 DEF Load, TypeOK, Waiting
<1>5. ASSUME NEW r \in Requests, NEW i \in Ids, Check(r, i) PROVE TypeInv'
  BY <1>5, <1>0, <1>4, <1>q DEF Check, TypeOK, Workers, Running
<1>6. ASSUME NEW r \in Requests, Registered(r) PROVE TypeInv'
  <2>0. work' \in [Workers -> Waiting]
    BY <1>6, <1>0 DEF Registered, TypeOK, Waiting, Workers
  <2>1. CASE UNCHANGED <<rows, created>>
    BY <2>0, <2>1, <1>6, <1>0, <1>q DEF Registered, TypeOK, Running
  <2>2. CASE Insert(NewRow(work[r].slug, "healthy", TRUE, Vps))
    <3>1. created + 1 \in Creations
      BY <2>2, <1>0, BoundsAssumption DEF Insert, Creations
    <3>2. NewRow(work[r].slug, "healthy", TRUE, Vps) \in Row
      BY <3>1, <1>6, <1>0, WorkTypes DEF Registered, Workers, NewRow, Row, Statuses, Machines
    <3>3. /\ created' \in 0..MaxRegions /\ created' = created + 1
          /\ rows' \in [Ids -> Row \cup {NoRow}]
          /\ \A i \in Present' : i <= created' + 1
      BY <3>2, <2>2, InsertAdds
    <3>4. \A n \in Creations : (Running(n))' => n <= created'
      BY <3>3, <1>6, <1>0 DEF Registered, Running, Counted, Creations
    <3> QED BY <2>0, <3>3, <3>4, <1>6, <1>0 DEF Registered, TypeOK, Counted
  <2> QED BY <2>1, <2>2, <1>6 DEF Registered
<1>7. ASSUME NEW s \in Slugs, Provision(s) PROVE TypeInv'
  <2>1. created + 1 \in Creations
    BY <1>7, <1>0, BoundsAssumption DEF Provision, Insert, Creations
  <2>2. NewRow(s, "provisioning", FALSE, NoMachine) \in Row
    BY <2>1 DEF NewRow, Row, Statuses
  <2>3. /\ created' \in 0..MaxRegions /\ created' = created + 1
        /\ rows' \in [Ids -> Row \cup {NoRow}]
        /\ FreshId \in Ids
        /\ \A i \in Present' : i <= created' + 1
    BY <2>2, <1>7, InsertAdds DEF Provision
  <2>4. tasks' \in [Creations -> TaskState]
    BY <2>3, <1>7, <1>0 DEF Provision, TypeOK, TaskState
  <2>5. \A n \in Creations : (Running(n))' => n <= created'
    BY <2>3, <1>7, <1>0, <2>1 DEF Provision, Running, Counted, Creations, TypeOK
  <2> QED BY <2>3, <2>4, <2>5, <1>7, <1>0 DEF Provision, TypeOK, Counted
<1>8. ASSUME NEW i \in Ids, Update(i) PROVE TypeInv'
  <2>1. rows[i] \in Row
    BY <1>8, <1>0 DEF Update, Exists, TypeOK
  <2>2. /\ [rows[i] EXCEPT !.active = ~rows[i].active] \in Row
        /\ [rows[i] EXCEPT !.agent = Vps] \in Row
    BY <2>1 DEF Row, Machines
  <2>3. NoNewRows
    BY <2>2, <1>8, <1>0 DEF Update, Exists, NoNewRows, TypeOK
  <2> QED BY <2>3, <1>8, <1>0, <1>r DEF Update, TypeOK, Running
<1>9. ASSUME NEW r \in Requests, Terminate(r) PROVE TypeInv'
  <2>1. work' \in [Workers -> Waiting]
    BY <1>9, <1>0 DEF Terminate, TypeOK, Waiting, Workers
  <2>2. work[r].vm \in Vms
    BY <1>9, <1>0, WorkTypes DEF Terminate, Workers
  <2>3. /\ vms' \in [Vms -> {"unused", "running", "terminated"}]
        /\ reported' \subseteq Vms
    BY <2>2, <1>9, <1>0 DEF Terminate, TypeOK
  <2> QED BY <2>1, <2>3, <1>9, <1>0, <1>q DEF Terminate, TypeOK, Running
<1>10. CASE PollRound
  BY <1>10, <1>0, <1>q DEF PollRound, Present, TypeOK, Running
<1>11. ASSUME NEW i \in Ids, PollNext(i) PROVE TypeInv'
  <2>1. work' \in [Workers -> Waiting]
    BY <1>11, <1>0, <1>4 DEF PollNext, TypeOK, Workers
  <2> QED BY <2>1, <1>11, <1>0, <1>q DEF PollNext, TypeOK, Running
<1>12. ASSUME NEW w \in Workers, Checked(w) PROVE TypeInv'
  <2>1. work[w].id \in Ids
    BY <1>12, <1>0, WorkTypes DEF Checked
  <2>2. CASE ~Exists(work[w].id)
    <3>1. Stale(w)
      BY <1>12, <2>2 DEF Checked
    <3>2. work' \in [Workers -> Waiting] /\ todo' \subseteq Ids
      BY <3>1, <1>0 DEF Stale, TypeOK, Waiting
    <3> QED BY <3>1, <3>2, <1>12, <1>0, <1>q DEF Checked, Stale, TypeOK, Running
  <2>3. ASSUME Exists(work[w].id), NEW found \in Findings(work[w].agent),
               Write(w, work[w].id, found)
        PROVE  TypeInv'
    <3>1. rows[work[w].id] \in Row /\ found \in Statuses
      BY <2>1, <2>3, <1>0 DEF Exists, TypeOK, Findings, Statuses
    <3>2. [rows[work[w].id] EXCEPT !.status = found] \in Row
      BY <3>1 DEF Row
    <3>3. NoNewRows
      BY <3>2, <2>1, <2>3, <1>12, <1>0 DEF Write, Exists, Checked, NoNewRows, TypeOK
    <3>4. work' \in [Workers -> Waiting]
      BY <2>3, <1>0 DEF Write, TypeOK, Waiting
    <3> QED BY <3>3, <3>4, <2>3, <1>12, <1>0, <1>r DEF Checked, Write, TypeOK, Running
  <2> QED BY <2>2, <2>3, <1>12 DEF Checked
<1>13. ASSUME NEW n \in Creations, Launch(n) PROVE TypeInv'
  <2>1. tasks[n].id \in Ids
    BY <1>13, <1>0, TaskTypes DEF Launch
  <2>2. tasks' \in [Creations -> TaskState]
    BY <2>1, <1>13, <1>0 DEF Launch, TypeOK, TaskState, NoTask
  <2>3. \A m \in Creations : (Running(m))' => Running(m)
    BY <1>13, <1>0 DEF Launch, Running, TypeOK
  <2> QED BY <2>2, <2>3, <1>13, <1>0, <1>q DEF Launch, TypeOK
(* The writes of a provisioning task. *)
<1>14. ASSUME NEW n \in Creations, Running(n), NEW row,
              rows[tasks[n].id] # NoRow => row \in Row,
              SetFields(tasks[n].id, row), UNCHANGED created
       PROVE  NoNewRows
  <2>1. tasks[n].id \in Ids
    BY <1>14, <1>0, TaskTypes
  <2> QED BY <2>1, <1>14, <1>0, SetFieldsKeeps DEF NoNewRows
<1>15. ASSUME NEW n \in Creations, Running(n)
       PROVE  rows[tasks[n].id] # NoRow =>
                /\ \A v \in Vms : /\ [rows[tasks[n].id] EXCEPT !.vm = v] \in Row
                                 /\ [rows[tasks[n].id] EXCEPT !.agent = v] \in Row
                /\ [rows[tasks[n].id] EXCEPT !.status = "healthy", !.active = TRUE] \in Row
                /\ [rows[tasks[n].id] EXCEPT !.status = "failed"] \in Row
  <2>1. tasks[n].id \in Ids
    BY <1>15, <1>0, TaskTypes
  <2>2. rows[tasks[n].id] # NoRow => rows[tasks[n].id] \in Row
    BY <2>1, <1>0 DEF TypeOK
  <2> QED BY <2>2 DEF Row, Statuses, Machines
<1>16. ASSUME NEW n \in Creations, Record(n) PROVE TypeInv'
  <2>1. Running(n) /\ tasks[n].vm \in Vms
    BY <1>16, <1>0, TaskTypes DEF Record
  <2>2. NoNewRows
    BY <2>1, <1>14, <1>15, <1>16 DEF Record
  <2> QED BY <2>2, <1>16, <1>0, <1>r, GotoKeeps DEF Record, TypeOK
<1>17. ASSUME NEW n \in Creations, StoreAgent(n) PROVE TypeInv'
  <2>1. Running(n) /\ tasks[n].vm \in Vms
    BY <1>17, <1>0, TaskTypes DEF StoreAgent
  <2>2. NoNewRows
    BY <2>1, <1>14, <1>15, <1>17 DEF StoreAgent
  <2> QED BY <2>2, <1>17, <1>0, <1>r, GotoKeeps DEF StoreAgent, TypeOK
<1>18. ASSUME NEW n \in Creations, AgentHealthy(n) PROVE TypeInv'
  <2>1. Running(n)
    BY <1>18, <1>0, TaskTypes DEF AgentHealthy
  <2>2. NoNewRows
    BY <2>1, <1>14, <1>15, <1>18 DEF AgentHealthy
  <2> QED BY <2>2, <1>18, <1>0, <1>r, GotoKeeps DEF AgentHealthy, TypeOK
<1>19. ASSUME NEW n \in Creations, Fail(n) PROVE TypeInv'
  <2>1. Running(n)
    BY <1>19, <1>0, TaskTypes DEF Fail
  <2>2. NoNewRows
    BY <2>1, <1>14, <1>15, <1>19 DEF Fail
  <2> QED BY <2>2, <1>19, <1>0, <1>r, GotoKeeps DEF Fail, TypeOK
<1>20. ASSUME NEW n \in Creations, LaunchLost(n) PROVE TypeInv'
  <2>1. Running(n)
    BY <1>20, <1>0, TaskTypes DEF LaunchLost
  <2>2. NoNewRows
    BY <2>1, <1>14, <1>15, <1>20 DEF LaunchLost
  <2>3. vms' \in [Vms -> {"unused", "running", "terminated"}]
    BY <1>20, <1>0 DEF LaunchLost, TypeOK
  <2> QED BY <2>2, <2>3, <1>20, <1>0, <1>r, GotoKeeps DEF LaunchLost, TypeOK
<1>21. CASE ApiRestart
  BY <1>21, <1>0, <1>q DEF ApiRestart, TypeOK, TaskState, Waiting, Running, NoTask
<1>22. ASSUME NEW v \in Vms, Reclaim(v) PROVE TypeInv'
  BY <1>22, <1>0, <1>q DEF Reclaim, TypeOK, Running
<1> QED
  BY <1>1, <1>2, <1>3, <1>5, <1>6, <1>7, <1>8, <1>9, <1>10, <1>11, <1>12, <1>13,
     <1>16, <1>17, <1>18, <1>19, <1>20, <1>21, <1>22
     DEF Next, Ask, Answer, TaskStep, PollStep, Workers

(* Every reachable state is typed, and no id outruns the regions created. *)
THEOREM TypeCorrect == Spec => []TypeOK
<1>1. Spec => []TypeInv
  BY TypeInvInit, TypeInvStep, PTL DEF Spec
<1> QED BY <1>1, PTL DEF TypeInv
-----------------------------------------------------------------------------
(* The statements that change rows in place change neither slug nor identity. *)
RowsEdited ==
  /\ \A i \in Ids : rows'[i] = NoRow <=> rows[i] = NoRow
  /\ \A i \in Ids : rows[i] # NoRow =>
       rows'[i].slug = rows[i].slug /\ rows'[i].nth = rows[i].nth

LEMMA EditIsRow ==
  ASSUME TypeOK, NEW i \in Ids, rows[i] # NoRow, NEW row \in Row,
         row.slug = rows[i].slug, row.nth = rows[i].nth, rows' = [rows EXCEPT ![i] = row]
  PROVE  RowsEdited
BY NoRowAssumption DEF TypeOK, RowsEdited

(* Every statement of a running task on its region. *)
LEMMA TaskEdits ==
  ASSUME TypeInv, NEW n \in Creations, Running(n)
  PROVE  /\ \A v \in Vms : SetFields(tasks[n].id, [rows[tasks[n].id] EXCEPT !.vm = v]) => RowsEdited
         /\ \A v \in Vms : SetFields(tasks[n].id, [rows[tasks[n].id] EXCEPT !.agent = v]) => RowsEdited
         /\ SetFields(tasks[n].id, [rows[tasks[n].id] EXCEPT !.status = "failed"]) => RowsEdited
         /\ SetFields(tasks[n].id, [rows[tasks[n].id] EXCEPT !.status = "healthy", !.active = TRUE])
              => RowsEdited
<1> DEFINE i == tasks[n].id
<1>1. i \in Ids
  BY TaskTypes DEF TypeInv
<1>2. ASSUME NEW row, SetFields(i, row),
             rows[i] \in Row => row \in Row /\ row.slug = rows[i].slug /\ row.nth = rows[i].nth
      PROVE  RowsEdited
  <2>1. CASE rows[i] = NoRow
    BY <2>1, <1>2 DEF SetFields, Exists, RowsEdited
  <2>2. CASE rows[i] # NoRow
    <3>1. rows[i] \in Row
      BY <2>2, <1>1 DEF TypeInv, TypeOK
    <3> QED BY <3>1, <2>2, <1>1, <1>2, EditIsRow DEF SetFields, Exists, TypeInv
  <2> QED BY <2>1, <2>2
<1>3. ASSUME NEW v \in Vms, NEW row, row = [rows[i] EXCEPT !.vm = v], SetFields(i, row)
      PROVE  RowsEdited
  <2>1. rows[i] \in Row => row \in Row /\ row.slug = rows[i].slug /\ row.nth = rows[i].nth
    BY <1>3 DEF Row
  <2> QED BY <2>1, <1>3, <1>2
<1>4. ASSUME NEW v \in Vms, NEW row, row = [rows[i] EXCEPT !.agent = v], SetFields(i, row)
      PROVE  RowsEdited
  <2>1. rows[i] \in Row => row \in Row /\ row.slug = rows[i].slug /\ row.nth = rows[i].nth
    BY <1>4 DEF Row, Machines
  <2> QED BY <2>1, <1>4, <1>2
<1>5. ASSUME NEW row, row = [rows[i] EXCEPT !.status = "failed"], SetFields(i, row)
      PROVE  RowsEdited
  <2>1. rows[i] \in Row => row \in Row /\ row.slug = rows[i].slug /\ row.nth = rows[i].nth
    BY <1>5 DEF Row, Statuses
  <2> QED BY <2>1, <1>5, <1>2
<1>6. ASSUME NEW row, row = [rows[i] EXCEPT !.status = "healthy", !.active = TRUE], SetFields(i, row)
      PROVE  RowsEdited
  <2>1. rows[i] \in Row => row \in Row /\ row.slug = rows[i].slug /\ row.nth = rows[i].nth
    BY <1>6 DEF Row, Statuses
  <2> QED BY <2>1, <1>6, <1>2
<1> QED BY <1>3, <1>4, <1>5, <1>6

LEMMA EditedInsertedOrDeleted ==
  ASSUME TypeInv, [Next]_vars
  PROVE  \/ RowsEdited
         \/ \E row \in Row : Insert(row)
         \/ \E r \in Requests, i \in Ids : Delete(r, i)
<1> USE DEF TypeInv
<1>1. CASE UNCHANGED rows
  BY <1>1 DEF RowsEdited
<1>2. ASSUME NEW r \in Requests, Registered(r), ~UNCHANGED rows PROVE \E row \in Row : Insert(row)
  <2>1. Insert(NewRow(work[r].slug, "healthy", TRUE, Vps))
    BY <1>2 DEF Registered
  <2>2. created + 1 \in Creations
    BY <2>1, BoundsAssumption DEF Insert, Creations, TypeOK
  <2>3. NewRow(work[r].slug, "healthy", TRUE, Vps) \in Row
    BY <2>2, <1>2, WorkTypes DEF Registered, Workers, NewRow, Row, Statuses, Machines
  <2> QED BY <2>1, <2>3
<1>3. ASSUME NEW s \in Slugs, Provision(s) PROVE \E row \in Row : Insert(row)
  <2>1. created + 1 \in Creations
    BY <1>3, BoundsAssumption DEF Provision, Insert, Creations, TypeOK
  <2>2. NewRow(s, "provisioning", FALSE, NoMachine) \in Row
    BY <2>1 DEF NewRow, Row, Statuses
  <2> QED BY <2>2, <1>3 DEF Provision
<1>4. ASSUME NEW i \in Ids, Update(i) PROVE RowsEdited
  <2>1. rows[i] \in Row /\ rows[i] # NoRow
    BY <1>4 DEF Update, Exists, TypeOK
  <2>2. PICK row \in Row : /\ rows' = [rows EXCEPT ![i] = row]
                           /\ row.slug = rows[i].slug /\ row.nth = rows[i].nth
    <3>1. /\ [rows[i] EXCEPT !.active = ~rows[i].active] \in Row
          /\ [rows[i] EXCEPT !.agent = Vps] \in Row
          /\ [rows[i] EXCEPT !.active = ~rows[i].active].slug = rows[i].slug
          /\ [rows[i] EXCEPT !.active = ~rows[i].active].nth = rows[i].nth
          /\ [rows[i] EXCEPT !.agent = Vps].slug = rows[i].slug
          /\ [rows[i] EXCEPT !.agent = Vps].nth = rows[i].nth
      BY <2>1 DEF Row, Machines
    <3> QED BY <3>1, <1>4 DEF Update
  <2> QED BY <2>1, <2>2, EditIsRow
<1>5. ASSUME NEW w \in Workers, Checked(w), ~UNCHANGED rows PROVE RowsEdited
  <2>1. work[w].id \in Ids
    BY <1>5, WorkTypes DEF Checked
  <2>2. PICK found \in Findings(work[w].agent) :
          /\ Exists(work[w].id)
          /\ rows' = [rows EXCEPT ![work[w].id] = [rows[work[w].id] EXCEPT !.status = found]]
    BY <1>5 DEF Checked, Stale, Write
  <2>3. rows[work[w].id] \in Row /\ rows[work[w].id] # NoRow /\ found \in Statuses
    BY <2>1, <2>2 DEF Exists, TypeOK, Findings, Statuses
  <2>4. PICK row \in Row :
          /\ rows' = [rows EXCEPT ![work[w].id] = row]
          /\ row.slug = rows[work[w].id].slug /\ row.nth = rows[work[w].id].nth
    <3>1. /\ [rows[work[w].id] EXCEPT !.status = found] \in Row
          /\ [rows[work[w].id] EXCEPT !.status = found].slug = rows[work[w].id].slug
          /\ [rows[work[w].id] EXCEPT !.status = found].nth = rows[work[w].id].nth
      BY <2>3 DEF Row
    <3> QED BY <3>1, <2>2
  <2> QED BY <2>1, <2>3, <2>4, EditIsRow
<1>6. ASSUME NEW n \in Creations, TaskStep(n) PROVE RowsEdited
  <2>1. Running(n)
    BY <1>6, TaskTypes DEF TaskStep, Launch, Record, StoreAgent, AgentHealthy, Fail, LaunchLost
  <2>2. CASE Launch(n)
    BY <2>2 DEF Launch, RowsEdited
  <2>3. CASE Record(n)
    BY <2>1, <2>3, TaskTypes, TaskEdits DEF Record
  <2>4. CASE StoreAgent(n)
    BY <2>1, <2>4, TaskTypes, TaskEdits DEF StoreAgent
  <2>5. CASE AgentHealthy(n)
    BY <2>1, <2>5, TaskEdits DEF AgentHealthy
  <2>6. CASE Fail(n) \/ LaunchLost(n)
    BY <2>1, <2>6, TaskEdits DEF Fail, LaunchLost
  <2> QED BY <2>2, <2>3, <2>4, <2>5, <2>6, <1>6 DEF TaskStep
<1>7. CASE UNCHANGED vars
  BY <1>7, <1>1 DEF vars
<1> QED
  BY <1>1, <1>2, <1>3, <1>4, <1>5, <1>6, <1>7
     DEF Next, Ask, Answer, PollStep, Register, Check, Terminate, PollRound, PollNext,
         ApiRestart, Reclaim, Workers

(* No two regions ever share a slug, whatever requests and tasks interleave. *)
THEOREM SlugsStayUnique == Spec => []SlugsUnique
<1>1. Init => SlugsUnique
  BY DEF Init, SlugsUnique, Present, Exists
<1>2. ASSUME TypeInv, SlugsUnique, [Next]_vars PROVE SlugsUnique'
  <2>1. CASE RowsEdited
    BY <2>1, <1>2 DEF RowsEdited, SlugsUnique, Present, Exists
  <2>2. ASSUME NEW row \in Row, Insert(row) PROVE SlugsUnique'
    <3>1. \A i \in Ids : rows'[i] = IF i = FreshId THEN row ELSE rows[i]
      BY <2>2, <1>2, InsertAdds
    <3>2. \A i \in Present : rows[i].slug # row.slug
      BY <2>2 DEF Insert, SlugFree
    <3> QED BY <3>1, <3>2, <1>2 DEF SlugsUnique, Present, Exists
  <2>3. ASSUME NEW r \in Requests, NEW i \in Ids, Delete(r, i) PROVE SlugsUnique'
    BY <2>3, <1>2 DEF Delete, SlugsUnique, Present, Exists, TypeInv, TypeOK
  <2> QED BY <2>1, <2>2, <2>3, <1>2, EditedInsertedOrDeleted
<1>3. Spec => []TypeInv
  BY TypeInvInit, TypeInvStep, PTL DEF Spec
<1> QED BY <1>1, <1>2, <1>3, PTL DEF Spec
-----------------------------------------------------------------------------
(* An instance with a claim on it was launched, only one task has it on the way, *)
(* and none has when a request is terminating it.                                *)
ClaimInv ==
  /\ TerminationSafe
  /\ \A v \in Vms : Recorded(v) \/ OnItsWay(v) \/ BeingTerminated(v) => vms[v] # "unused"
  /\ \A m, n \in Creations :
       tasks[m].pc = "record" /\ tasks[n].pc = "record" /\ tasks[m].vm = tasks[n].vm => m = n
  /\ \A v \in Vms : ~(OnItsWay(v) /\ BeingTerminated(v))

(* A step without a new claim. *)
RowClaimsKept ==
  \A i \in Ids : rows'[i] # NoRow /\ rows'[i].vm # NoMachine =>
    rows[i] # NoRow /\ rows[i].vm = rows'[i].vm
TaskClaimsKept ==
  \A n \in Creations : tasks'[n].pc = "record" => tasks[n] = tasks'[n]
WorkClaimsKept ==
  \A r \in Requests : work'[r].pc = "terminate" => work[r] = work'[r]
LaunchedKept ==
  \A v \in Vms : vms'[v] = "unused" => vms[v] = "unused"

LEMMA NoNewClaims ==
  ASSUME TypeInv, ClaimInv, RowClaimsKept, TaskClaimsKept, WorkClaimsKept, LaunchedKept
  PROVE  ClaimInv'
<1>1. \A v \in Vms : Recorded(v)' => Recorded(v)
  BY MachinesAssumption DEF RowClaimsKept, Recorded, Present, Exists
<1>2. \A v \in Vms : OnItsWay(v)' => OnItsWay(v)
  BY DEF TaskClaimsKept, OnItsWay
<1>3. \A v \in Vms : BeingTerminated(v)' => BeingTerminated(v)
  BY DEF WorkClaimsKept, BeingTerminated
<1>4. \A i, j \in Present' :
        rows'[i].vm = rows'[j].vm /\ rows'[i].vm # NoMachine => i = j
  BY DEF RowClaimsKept, ClaimInv, TerminationSafe, Present, Exists
<1>5. \A m, n \in Creations :
        tasks'[m].pc = "record" /\ tasks'[n].pc = "record" /\ tasks'[m].vm = tasks'[n].vm => m = n
  BY DEF TaskClaimsKept, ClaimInv
<1>6. \A v \in Vms : Recorded(v)' \/ OnItsWay(v)' \/ BeingTerminated(v)' => vms'[v] # "unused"
  BY <1>1, <1>2, <1>3 DEF LaunchedKept, ClaimInv
<1>7. \A v \in Vms : ~(OnItsWay(v)' /\ BeingTerminated(v)')
  BY <1>2, <1>3 DEF ClaimInv
<1>8. \A v \in Vms : OnItsWay(v)' \/ BeingTerminated(v)' => ~Recorded(v)'
  BY <1>1, <1>2, <1>3 DEF ClaimInv, TerminationSafe
<1> QED BY <1>4, <1>5, <1>6, <1>7, <1>8 DEF ClaimInv, TerminationSafe

(* The instance a row claims. *)
VmOf(i) == IF rows[i] = NoRow THEN NoMachine ELSE rows[i].vm

(* A step that moves no claim and no instance. *)
Quiet ==
  /\ \A i \in Ids : VmOf(i)' = VmOf(i)
  /\ \A n \in Creations :
       tasks[n].pc = "record" \/ tasks'[n].pc = "record" => tasks'[n] = tasks[n]
  /\ \A r \in Requests :
       work[r].pc = "terminate" \/ work'[r].pc = "terminate" => work'[r] = work[r]
  /\ UNCHANGED <<vms, reported>>

(* The steps that do. *)
Moving ==
  \/ \E r \in Requests, i \in Ids : Delete(r, i) /\ rows[i].vm # NoMachine
  \/ \E r \in Requests : Terminate(r)
  \/ \E n \in Creations : Launch(n) \/ Record(n) \/ LaunchLost(n)
  \/ ApiRestart
  \/ \E v \in Vms : Reclaim(v)

(* A statement of a task that does not touch oracle_instance_id. *)
LEMMA OtherFieldsKeepClaims ==
  ASSUME TypeInv, NEW n \in Creations, Running(n), NEW row, SetFields(tasks[n].id, row),
         rows[tasks[n].id] \in Row => row \in Row /\ row.vm = rows[tasks[n].id].vm
  PROVE  \A i \in Ids : VmOf(i)' = VmOf(i)
<1>1. tasks[n].id \in Ids
  BY TaskTypes DEF TypeInv
<1> QED BY <1>1, NoRowAssumption DEF SetFields, Exists, VmOf, TypeInv, TypeOK

LEMMA QuietOrMoving ==
  ASSUME TypeInv, [Next]_vars
  PROVE  Quiet \/ Moving
<1> USE DEF TypeInv
<1>0. /\ UNCHANGED rows => \A i \in Ids : VmOf(i)' = VmOf(i)
      /\ UNCHANGED <<tasks, work, vms, reported>> /\ (\A i \in Ids : VmOf(i)' = VmOf(i)) => Quiet
  BY DEF VmOf, Quiet
<1>1. CASE UNCHANGED vars
  BY <1>0, <1>1 DEF vars
(* A worker that starts or ends a wait that is not a termination. *)
<1>2. ASSUME NEW w \in Workers, \A u \in Workers : u # w => work'[u] = work[u],
             work[w].pc # "terminate", work'[w].pc # "terminate",
             UNCHANGED <<tasks, vms, reported>>, \A i \in Ids : VmOf(i)' = VmOf(i)
      PROVE  Quiet
  BY <1>2 DEF Quiet, TypeOK, Workers
<1>3. ASSUME NEW r \in Requests, NEW s \in Slugs, Register(r, s) PROVE Quiet
  BY <1>3, <1>0, <1>2 DEF Register, Workers, Idle, TypeOK
<1>4. ASSUME NEW r \in Requests, NEW i \in Ids, Delete(r, i), rows[i].vm = NoMachine PROVE Quiet
  <2>1. \A j \in Ids : VmOf(j)' = VmOf(j)
    BY <1>4 DEF Delete, VmOf, TypeOK
  <2> QED BY <2>1, <1>4, <1>2 DEF Delete, Workers, Idle, TypeOK
<1>5. ASSUME NEW w \in Workers, NEW i \in Ids, Load(w, i), work[w] = Idle,
             UNCHANGED <<rows, tasks, vms, reported>>
      PROVE  Quiet
  BY <1>5, <1>0, <1>2 DEF Load, Idle, TypeOK
<1>6. ASSUME NEW r \in Requests, NEW i \in Ids, Check(r, i) PROVE Quiet
  BY <1>6, <1>5 DEF Check, Workers
<1>7. ASSUME NEW row \in Row, Insert(row), row.vm = NoMachine
      PROVE  \A i \in Ids : VmOf(i)' = VmOf(i)
  <2>1. \A i \in Ids : rows'[i] = IF i = FreshId THEN row ELSE rows[i]
    BY <1>7, InsertAdds
  <2>2. FreshId \in Ids => rows[FreshId] = NoRow
    BY <1>7, InsertAdds DEF Present, Exists
  <2> QED BY <2>1, <2>2, <1>7 DEF VmOf
<1>8. ASSUME NEW r \in Requests, Registered(r) PROVE Quiet
  <2>1. CASE UNCHANGED rows
    BY <2>1, <1>0, <1>2, <1>8 DEF Registered, Workers, Idle, TypeOK
  <2>2. CASE Insert(NewRow(work[r].slug, "healthy", TRUE, Vps))
    <3>1. created + 1 \in Creations
      BY <2>2, BoundsAssumption DEF Insert, Creations, TypeOK
    <3>2. NewRow(work[r].slug, "healthy", TRUE, Vps) \in Row
      BY <3>1, <1>8, WorkTypes DEF Registered, Workers, NewRow, Row, Statuses, Machines
    <3>3. \A i \in Ids : VmOf(i)' = VmOf(i)
      BY <3>2, <2>2, <1>7 DEF NewRow
    <3> QED BY <3>3, <1>2, <1>8 DEF Registered, Workers, Idle, TypeOK
  <2> QED BY <2>1, <2>2, <1>8 DEF Registered
<1>9. ASSUME NEW s \in Slugs, Provision(s) PROVE Quiet
  <2>1. created + 1 \in Creations
    BY <1>9, BoundsAssumption DEF Provision, Insert, Creations, TypeOK
  <2>2. NewRow(s, "provisioning", FALSE, NoMachine) \in Row
    BY <2>1 DEF NewRow, Row, Statuses
  <2>3. \A i \in Ids : VmOf(i)' = VmOf(i)
    BY <2>2, <1>9, <1>7 DEF Provision, NewRow
  <2>4. ~Running(created + 1)
    BY <2>1, BoundsAssumption DEF Counted, TypeOK
  <2> QED BY <2>1, <2>3, <2>4, <1>9 DEF Provision, Quiet, TypeOK, Running
<1>10. ASSUME NEW i \in Ids, Update(i) PROVE Quiet
  <2>1. rows[i] \in Row
    BY <1>10 DEF Update, Exists, TypeOK
  <2>2. PICK row \in Row : rows' = [rows EXCEPT ![i] = row] /\ row.vm = rows[i].vm
    <3>1. /\ [rows[i] EXCEPT !.active = ~rows[i].active] \in Row
          /\ [rows[i] EXCEPT !.agent = Vps] \in Row
          /\ [rows[i] EXCEPT !.active = ~rows[i].active].vm = rows[i].vm
          /\ [rows[i] EXCEPT !.agent = Vps].vm = rows[i].vm
      BY <2>1 DEF Row, Machines
    <3> QED BY <3>1, <1>10 DEF Update
  <2>3. \A j \in Ids : VmOf(j)' = VmOf(j)
    BY <2>1, <2>2, NoRowAssumption DEF VmOf, TypeOK
  <2> QED BY <2>3, <1>0, <1>10 DEF Update
<1>11. CASE PollRound
  BY <1>11, <1>0 DEF PollRound
<1>12. ASSUME NEW i \in Ids, PollNext(i) PROVE Quiet
  BY <1>12, <1>5, <1>0 DEF PollNext, Workers
<1>13. ASSUME NEW w \in Workers, Checked(w) PROVE Quiet
  <2>1. work[w].id \in Ids
    BY <1>13, WorkTypes DEF Checked
  <2>2. work' = [work EXCEPT ![w] = Idle] /\ work[w].pc = "check"
    BY <1>13 DEF Checked, Stale, Write
  <2>3. CASE UNCHANGED rows
    BY <2>2, <2>3, <1>0, <1>2, <1>13 DEF Checked, Idle, TypeOK
  <2>4. ASSUME NEW found \in Findings(work[w].agent), Exists(work[w].id),
               rows' = [rows EXCEPT ![work[w].id] = [rows[work[w].id] EXCEPT !.status = found]]
        PROVE  Quiet
    <3>1. rows[work[w].id] \in Row /\ found \in Statuses
      BY <2>1, <2>4 DEF Exists, TypeOK, Findings, Statuses
    <3>2. PICK row \in Row : /\ rows' = [rows EXCEPT ![work[w].id] = row]
                             /\ row.vm = rows[work[w].id].vm
      <4>1. /\ [rows[work[w].id] EXCEPT !.status = found] \in Row
            /\ [rows[work[w].id] EXCEPT !.status = found].vm = rows[work[w].id].vm
        BY <3>1 DEF Row
      <4> QED BY <4>1, <2>4
    <3>3. \A i \in Ids : VmOf(i)' = VmOf(i)
      BY <3>1, <3>2, <2>1, NoRowAssumption DEF VmOf, TypeOK
    <3> QED BY <3>3, <2>2, <1>2, <1>13 DEF Checked, Idle, TypeOK
  <2> QED BY <2>3, <2>4, <1>13 DEF Checked, Stale, Write
(* A task that goes from a state that is not "record" to another one. *)
<1>14. ASSUME NEW n \in Creations, \A m \in Creations : m # n => tasks'[m] = tasks[m],
              tasks[n].pc # "record", tasks'[n].pc # "record",
              UNCHANGED <<work, vms, reported>>, \A i \in Ids : VmOf(i)' = VmOf(i)
       PROVE  Quiet
  BY <1>14 DEF Quiet, TypeOK
<1>15. ASSUME NEW n \in Creations, StoreAgent(n) PROVE Quiet
  <2>1. Running(n) /\ tasks[n].vm \in Vms /\ tasks[n] \in TaskState
    BY <1>15, TaskTypes DEF StoreAgent, TypeOK
  <2>2. rows[tasks[n].id] \in Row =>
          /\ [rows[tasks[n].id] EXCEPT !.agent = tasks[n].vm] \in Row
          /\ [rows[tasks[n].id] EXCEPT !.agent = tasks[n].vm].vm = rows[tasks[n].id].vm
    BY <2>1 DEF Row, Machines
  <2>3. \A i \in Ids : VmOf(i)' = VmOf(i)
    BY <2>1, <2>2, <1>15, OtherFieldsKeepClaims DEF StoreAgent
  <2> QED BY <2>1, <2>3, <1>15 DEF StoreAgent, Goto, Quiet, TypeOK
<1>16. ASSUME NEW n \in Creations, AgentHealthy(n) PROVE Quiet
  <2>1. Running(n)
    BY <1>16, TaskTypes DEF AgentHealthy
  <2>2. PICK row : /\ row = [rows[tasks[n].id] EXCEPT !.status = "healthy", !.active = TRUE]
                   /\ SetFields(tasks[n].id, row)
    BY <1>16 DEF AgentHealthy
  <2>3. rows[tasks[n].id] \in Row => row \in Row /\ row.vm = rows[tasks[n].id].vm
    BY <2>2 DEF Row, Statuses
  <2>4. \A i \in Ids : VmOf(i)' = VmOf(i)
    BY <2>1, <2>2, <2>3, OtherFieldsKeepClaims
  <2> QED BY <2>4, <1>14, <1>16 DEF AgentHealthy, End, NoTask, TypeOK
<1>17. ASSUME NEW n \in Creations, Fail(n) PROVE Quiet
  <2>1. Running(n)
    BY <1>17, TaskTypes DEF Fail
  <2>2. rows[tasks[n].id] \in Row =>
          /\ [rows[tasks[n].id] EXCEPT !.status = "failed"] \in Row
          /\ [rows[tasks[n].id] EXCEPT !.status = "failed"].vm = rows[tasks[n].id].vm
    BY DEF Row, Statuses
  <2>3. \A i \in Ids : VmOf(i)' = VmOf(i)
    BY <2>1, <2>2, <1>17, OtherFieldsKeepClaims DEF Fail
  <2> QED BY <2>3, <1>14, <1>17 DEF Fail, End, NoTask, TypeOK
<1> QED
  BY <1>1, <1>3, <1>4, <1>6, <1>8, <1>9, <1>10, <1>11, <1>12, <1>13, <1>15, <1>16, <1>17
     DEF Next, Ask, Answer, TaskStep, PollStep, Workers, Moving

LEMMA ClaimInvInit == Init => ClaimInv
BY DEF Init, ClaimInv, TerminationSafe, Recorded, OnItsWay, BeingTerminated, Present, Exists,
   NoTask, Idle, Workers

LEMMA ClaimInvStep == TypeInv /\ ClaimInv /\ [Next]_vars => ClaimInv'
<1> SUFFICES ASSUME TypeInv, ClaimInv, [Next]_vars PROVE ClaimInv'
  OBVIOUS
<1> USE DEF TypeInv
<1>0. /\ UNCHANGED rows => RowClaimsKept
      /\ UNCHANGED tasks => TaskClaimsKept
      /\ UNCHANGED work => WorkClaimsKept
      /\ UNCHANGED vms => LaunchedKept
  BY DEF RowClaimsKept, TaskClaimsKept, WorkClaimsKept, LaunchedKept
<1>1. CASE Quiet
  <2>1. RowClaimsKept
    BY <1>1, MachinesAssumption DEF Quiet, VmOf, RowClaimsKept
  <2>2. TaskClaimsKept /\ WorkClaimsKept /\ LaunchedKept
    BY <1>1 DEF Quiet, TaskClaimsKept, WorkClaimsKept, LaunchedKept
  <2> QED BY <2>1, <2>2, NoNewClaims
(* What the row's instance is, becomes the request's. *)
<1>2. ASSUME NEW r \in Requests, NEW i \in Ids, Delete(r, i), rows[i].vm # NoMachine
      PROVE  ClaimInv'
  <2>1. /\ rows' = [rows EXCEPT ![i] = NoRow]
        /\ UNCHANGED <<tasks, vms>>
        /\ rows[i] # NoRow /\ rows[i] \in Row
        /\ i \in Present
    BY <1>2 DEF Delete, Exists, TypeOK, Present
  <2>2. RowClaimsKept
    BY <2>1 DEF RowClaimsKept, TypeOK
  <2> DEFINE u == rows[i].vm
  <2>3. u \in Vms /\ Recorded(u)
    BY <2>1, <1>2 DEF Row, Recorded
  <2>4. work' = [work EXCEPT ![r] = [pc |-> "terminate", vm |-> u]]
    BY <1>2, <1>2 DEF Delete
  <2>5. \A v \in Vms : BeingTerminated(v)' => v = u \/ BeingTerminated(v)
    BY <2>4 DEF BeingTerminated, TypeOK, Workers
  <2>6. \A v \in Vms : Recorded(v)' => Recorded(v) /\ v # u
    BY <2>1, <1>2, <2>3 DEF Recorded, Present, Exists, ClaimInv, TerminationSafe, TypeOK
  <2>7. \A v \in Vms : OnItsWay(v)' <=> OnItsWay(v)
    BY <2>1 DEF OnItsWay
  <2>8. \A j, k \in Present' : rows'[j].vm = rows'[k].vm /\ rows'[j].vm # NoMachine => j = k
    BY <2>1, <2>2 DEF RowClaimsKept, ClaimInv, TerminationSafe, Present, Exists
  <2>9. \A v \in Vms : OnItsWay(v)' \/ BeingTerminated(v)' => ~Recorded(v)'
    BY <2>5, <2>6, <2>7 DEF ClaimInv, TerminationSafe
  <2>10. \A v \in Vms : ~(OnItsWay(v)' /\ BeingTerminated(v)')
    BY <2>3, <2>5, <2>7 DEF ClaimInv, TerminationSafe
  <2>11. \A v \in Vms : Recorded(v)' \/ OnItsWay(v)' \/ BeingTerminated(v)' => vms'[v] # "unused"
    BY <2>3, <2>5, <2>6, <2>7, <2>1 DEF ClaimInv
  <2>12. \A m, n \in Creations :
      tasks'[m].pc = "record" /\ tasks'[n].pc = "record" /\ tasks'[m].vm = tasks'[n].vm => m = n
    BY <2>1 DEF ClaimInv
  <2> QED BY <2>8, <2>9, <2>10, <2>11, <2>12 DEF ClaimInv, TerminationSafe
<1>3. ASSUME NEW r \in Requests, Terminate(r) PROVE ClaimInv'
  <2>1. WorkClaimsKept
    BY <1>3 DEF Terminate, WorkClaimsKept, TypeOK, Idle
  <2>2. LaunchedKept
    BY <1>3 DEF Terminate, LaunchedKept, TypeOK
  <2> QED BY <2>1, <2>2, <1>0, <1>3, NoNewClaims DEF Terminate
(* A launched instance was unused, so nobody has a claim on it. *)
<1>4. ASSUME NEW n \in Creations, Launch(n) PROVE ClaimInv'
  <2>1. PICK v \in Vms : /\ vms[v] = "unused"
                         /\ vms' = [vms EXCEPT ![v] = "running"]
                         /\ tasks' = [tasks EXCEPT ![n] = [pc |-> "record", id |-> tasks[n].id, vm |-> v]]
    BY <1>4 DEF Launch
  <2>2. UNCHANGED <<rows, work>>
    BY <1>4 DEF Launch
  <2>3. ~Recorded(v) /\ ~OnItsWay(v) /\ ~BeingTerminated(v)
    BY <2>1 DEF ClaimInv
  <2>4. \A u \in Vms : /\ Recorded(u)' <=> Recorded(u)
                       /\ BeingTerminated(u)' <=> BeingTerminated(u)
    BY <2>2 DEF Recorded, BeingTerminated, Present, Exists
  <2>5. \A u \in Vms : OnItsWay(u)' => u = v \/ OnItsWay(u)
    BY <2>1 DEF OnItsWay, TypeOK
  <2>6. \A m \in Creations : tasks'[m].pc = "record" => m = n \/ tasks'[m] = tasks[m]
    BY <2>1 DEF TypeOK
  <2>7. \A m \in Creations : tasks[m].pc = "record" => tasks[m].vm # v
    BY <2>3 DEF OnItsWay
  <2>8. tasks'[n].vm = v
    BY <2>1 DEF TypeOK
  <2>9. \A m, k \in Creations :
        tasks'[m].pc = "record" /\ tasks'[k].pc = "record" /\ tasks'[m].vm = tasks'[k].vm => m = k
    BY <2>6, <2>7, <2>8 DEF ClaimInv
  <2>10. \A u \in Vms : Recorded(u)' \/ OnItsWay(u)' \/ BeingTerminated(u)' => vms'[u] # "unused"
    BY <2>1, <2>4, <2>5 DEF ClaimInv, TypeOK
  <2>11. \A u \in Vms : ~(OnItsWay(u)' /\ BeingTerminated(u)')
    BY <2>3, <2>4, <2>5 DEF ClaimInv
  <2>12. \A u \in Vms : OnItsWay(u)' \/ BeingTerminated(u)' => ~Recorded(u)'
    BY <2>3, <2>4, <2>5 DEF ClaimInv, TerminationSafe
  <2>13. \A i, j \in Present' : rows'[i].vm = rows'[j].vm /\ rows'[i].vm # NoMachine => i = j
    BY <2>2 DEF ClaimInv, TerminationSafe, Present, Exists
  <2> QED BY <2>9, <2>10, <2>11, <2>12, <2>13 DEF ClaimInv, TerminationSafe
(* The task's claim becomes the row's. *)
<1>5. ASSUME NEW n \in Creations, Record(n) PROVE ClaimInv'
  <2> DEFINE i == tasks[n].id
             u == tasks[n].vm
  <2>1. /\ i \in Ids /\ u \in Vms
        /\ tasks[n].pc = "record"
        /\ UNCHANGED <<vms, work>>
        /\ tasks' = [tasks EXCEPT ![n].pc = "address"]
        /\ OnItsWay(u)
    BY <1>5, TaskTypes DEF Record, Goto, OnItsWay, Running
  <2>2. TaskClaimsKept /\ WorkClaimsKept /\ LaunchedKept
    BY <2>1, <1>0 DEF TaskClaimsKept, TypeOK
  <2>3. CASE rows[i] = NoRow
    <3>1. UNCHANGED rows
      BY <2>3, <1>5 DEF Record, SetFields, Exists
    <3> QED BY <3>1, <2>2, <1>0, NoNewClaims
  <2>4. CASE rows[i] # NoRow
    <3>1. rows[i] \in Row
      BY <2>1, <2>4 DEF TypeOK
    <3>2. rows' = [rows EXCEPT ![i] = [rows[i] EXCEPT !.vm = u]]
      BY <2>4, <1>5 DEF Record, SetFields, Exists
    <3>3. /\ rows'[i] # NoRow /\ rows'[i].vm = u
          /\ \A j \in Ids : j # i => rows'[j] = rows[j]
      <4>1. [rows[i] EXCEPT !.vm = u] \in Row
        BY <3>1, <2>1 DEF Row
      <4>2. [rows[i] EXCEPT !.vm = u].vm = u
        BY <3>1 DEF Row
      <4> QED BY <4>1, <4>2, <3>2, <2>1, NoRowAssumption DEF TypeOK
    <3>4. \A v \in Vms : Recorded(v)' => v = u \/ Recorded(v)
      BY <3>3, <2>1 DEF Recorded, Present, Exists
    <3>5. \A v \in Vms : OnItsWay(v)' => OnItsWay(v) /\ v # u
      BY <2>1 DEF OnItsWay, ClaimInv, TypeOK
    <3>6. \A v \in Vms : BeingTerminated(v)' <=> BeingTerminated(v)
      BY <2>1 DEF BeingTerminated
    <3>7. ~Recorded(u) /\ ~BeingTerminated(u) /\ vms[u] # "unused"
      BY <2>1 DEF ClaimInv, TerminationSafe
    <3>8. \A j, k \in Present' : rows'[j].vm = rows'[k].vm /\ rows'[j].vm # NoMachine => j = k
      <4>1. \A j \in Present' : j # i => j \in Present /\ rows'[j].vm = rows[j].vm /\ rows[j].vm # u
        BY <3>3, <3>7 DEF Present, Exists, Recorded
      <4> QED BY <4>1, <3>3 DEF ClaimInv, TerminationSafe
    <3>9. \A v \in Vms : OnItsWay(v)' \/ BeingTerminated(v)' => ~Recorded(v)'
      BY <3>4, <3>5, <3>6, <3>7 DEF ClaimInv, TerminationSafe
    <3>10. \A v \in Vms : ~(OnItsWay(v)' /\ BeingTerminated(v)')
      BY <3>5, <3>6 DEF ClaimInv
    <3>11. \A v \in Vms : Recorded(v)' \/ OnItsWay(v)' \/ BeingTerminated(v)' => vms'[v] # "unused"
      BY <3>4, <3>5, <3>6, <3>7, <2>1 DEF ClaimInv
    <3>12. \A m, k \in Creations :
        tasks'[m].pc = "record" /\ tasks'[k].pc = "record" /\ tasks'[m].vm = tasks'[k].vm => m = k
      BY <2>2 DEF TaskClaimsKept, ClaimInv
    <3> QED BY <3>8, <3>9, <3>10, <3>11, <3>12 DEF ClaimInv, TerminationSafe
  <2> QED BY <2>3, <2>4
<1>6. ASSUME NEW n \in Creations, LaunchLost(n) PROVE ClaimInv'
  <2>1. Running(n)
    BY <1>6, TaskTypes DEF LaunchLost
  <2>2. rows[tasks[n].id] \in Row =>
          /\ [rows[tasks[n].id] EXCEPT !.status = "failed"] \in Row
          /\ [rows[tasks[n].id] EXCEPT !.status = "failed"].vm = rows[tasks[n].id].vm
    BY DEF Row, Statuses
  <2>3. \A i \in Ids : VmOf(i)' = VmOf(i)
    BY <2>1, <2>2, <1>6, OtherFieldsKeepClaims DEF LaunchLost
  <2>4. RowClaimsKept
    BY <2>3 DEF VmOf, RowClaimsKept
  <2>5. TaskClaimsKept /\ LaunchedKept
    BY <1>6 DEF LaunchLost, End, TaskClaimsKept, LaunchedKept, TypeOK, NoTask
  <2> QED BY <2>4, <2>5, <1>0, <1>6, NoNewClaims DEF LaunchLost
<1>7. CASE ApiRestart
  <2>1. TaskClaimsKept /\ WorkClaimsKept
    BY <1>7 DEF ApiRestart, TaskClaimsKept, WorkClaimsKept, NoTask, Idle, Workers
  <2> QED BY <2>1, <1>0, <1>7, NoNewClaims DEF ApiRestart
<1>8. ASSUME NEW v \in Vms, Reclaim(v) PROVE ClaimInv'
  <2>1. LaunchedKept
    BY <1>8 DEF Reclaim, LaunchedKept, TypeOK
  <2> QED BY <2>1, <1>0, <1>8, NoNewClaims DEF Reclaim
<1> QED
  BY <1>1, <1>2, <1>3, <1>4, <1>5, <1>6, <1>7, <1>8, QuietOrMoving DEF Moving

(* However deletes, provisioning tasks, restarts and lost answers interleave, deleting  *)
(* a region terminates no instance that another region records.                         *)
THEOREM DeletesAreSafe == Spec => []TerminationSafe
<1>1. Spec => [](TypeInv /\ ClaimInv)
  BY ClaimInvInit, TypeInvInit, TypeInvStep, ClaimInvStep, PTL DEF Spec
<1> QED BY <1>1, PTL DEF ClaimInv
-----------------------------------------------------------------------------
(* Only a running task keeps a region in provisioning; it leaves it a task at a time. *)
LEMMA ProvisioningOwnedStep ==
  ASSUME "restart" \notin Faults, TypeInv, ProvisioningOwned, [Next]_vars
  PROVE  ProvisioningOwned'
<1> USE DEF TypeInv
(* A step that ends no task and sends no region to provisioning. *)
<1>1. ASSUME \A n \in Creations : Running(n) => (Running(n))' /\ tasks'[n].id = tasks[n].id,
             \A i \in Ids : rows'[i] # NoRow /\ rows'[i].status = "provisioning" =>
               rows[i] # NoRow /\ rows[i].status = "provisioning"
      PROVE  ProvisioningOwned'
  BY <1>1 DEF ProvisioningOwned, Present, Exists
<1>2. UNCHANGED tasks => \A n \in Creations : Running(n) => (Running(n))' /\ tasks'[n].id = tasks[n].id
  BY DEF Running
<1>3. CASE UNCHANGED <<rows, tasks>>
  BY <1>1, <1>2, <1>3
<1>4. ASSUME NEW r \in Requests, NEW i \in Ids, Delete(r, i) PROVE ProvisioningOwned'
  <2>1. \A j \in Ids : rows'[j] # NoRow => rows'[j] = rows[j]
    BY <1>4 DEF Delete, TypeOK
  <2> QED BY <2>1, <1>4, <1>1, <1>2 DEF Delete
<1>5. ASSUME NEW r \in Requests, Registered(r) PROVE ProvisioningOwned'
  <2>1. CASE UNCHANGED rows
    BY <2>1, <1>3, <1>5 DEF Registered
  <2>2. CASE Insert(NewRow(work[r].slug, "healthy", TRUE, Vps))
    <3>1. created + 1 \in Creations
      BY <2>2, BoundsAssumption DEF Insert, Creations, TypeOK
    <3>2. NewRow(work[r].slug, "healthy", TRUE, Vps) \in Row
      BY <3>1, <1>5, WorkTypes DEF Registered, Workers, NewRow, Row, Statuses, Machines
    <3>3. \A i \in Ids : rows'[i] = IF i = FreshId THEN NewRow(work[r].slug, "healthy", TRUE, Vps) ELSE rows[i]
      BY <3>2, <2>2, InsertAdds
    <3> QED BY <3>3, <1>5, <1>1, <1>2 DEF Registered, NewRow
  <2> QED BY <2>1, <2>2, <1>5 DEF Registered
<1>6. ASSUME NEW s \in Slugs, Provision(s) PROVE ProvisioningOwned'
  <2>1. PICK n \in Creations : n = created + 1 /\ created \in Nat
    BY <1>6, BoundsAssumption DEF Provision, Insert, Creations, TypeOK
  <2>2. NewRow(s, "provisioning", FALSE, NoMachine) \in Row
    BY <2>1 DEF NewRow, Row, Statuses
  <2>3. \A i \in Ids : i # FreshId => rows'[i] = rows[i]
    BY <2>2, <1>6, InsertAdds DEF Provision
  <2>4. tasks' = [tasks EXCEPT ![n] = [pc |-> "launch", id |-> FreshId, vm |-> NoMachine]]
    BY <1>6, <2>1 DEF Provision
  <2>5. (Running(n))' /\ tasks'[n].id = FreshId
    BY <2>1, <2>4 DEF Running, TypeOK
  <2>6. ~Running(n)
    BY <2>1 DEF Counted
  <2>7. \A m \in Creations : Running(m) => (Running(m))' /\ tasks'[m].id = tasks[m].id
    BY <2>4, <2>6 DEF Running, TypeOK
  <2> QED BY <2>1, <2>3, <2>5, <2>7 DEF ProvisioningOwned, Present, Exists
<1>7. ASSUME NEW i \in Ids, Update(i) PROVE ProvisioningOwned'
  <2>1. rows[i] \in Row
    BY <1>7 DEF Update, Exists, TypeOK
  <2>2. \A j \in Ids : rows'[j] # NoRow => rows[j] # NoRow /\ rows'[j].status = rows[j].status
    BY <2>1, <1>7 DEF Update, TypeOK, Row, Exists
  <2> QED BY <2>2, <1>7, <1>1, <1>2 DEF Update
<1>8. ASSUME NEW w \in Workers, Checked(w) PROVE ProvisioningOwned'
  <2>1. work[w].id \in Ids
    BY <1>8, WorkTypes DEF Checked
  <2>2. CASE UNCHANGED rows
    BY <2>2, <1>3, <1>8 DEF Checked
  <2>3. ASSUME NEW found \in Findings(work[w].agent), Exists(work[w].id),
               rows' = [rows EXCEPT ![work[w].id] = [rows[work[w].id] EXCEPT !.status = found]]
        PROVE  ProvisioningOwned'
    <3>1. rows[work[w].id] \in Row /\ found # "provisioning"
      BY <2>1, <2>3 DEF Exists, TypeOK, Findings
    <3>2. \A j \in Ids : rows'[j] # NoRow /\ rows'[j].status = "provisioning" =>
            rows[j] # NoRow /\ rows[j].status = "provisioning"
      BY <3>1, <2>1, <2>3 DEF TypeOK, Row, Exists
    <3> QED BY <3>2, <1>8, <1>1, <1>2 DEF Checked
  <2> QED BY <2>2, <2>3, <1>8 DEF Checked, Stale, Write
(* A task that goes on leaves the status of its region alone. *)
<1>9. ASSUME NEW n \in Creations, Running(n), NEW row, SetFields(tasks[n].id, row),
             rows[tasks[n].id] \in Row => row.status = rows[tasks[n].id].status,
             \A m \in Creations : Running(m) => (Running(m))' /\ tasks'[m].id = tasks[m].id
      PROVE  ProvisioningOwned'
  <2>1. tasks[n].id \in Ids
    BY <1>9, TaskTypes
  <2>2. \A j \in Ids : rows'[j] # NoRow => rows[j] # NoRow /\ rows'[j].status = rows[j].status
    BY <2>1, <1>9 DEF SetFields, Exists, TypeOK
  <2> QED BY <2>2, <1>9, <1>1
<1>10. ASSUME NEW n \in Creations, Launch(n) PROVE ProvisioningOwned'
  <2>1. \A m \in Creations : Running(m) => (Running(m))' /\ tasks'[m].id = tasks[m].id
    BY <1>10 DEF Launch, Running, TypeOK
  <2> QED BY <2>1, <1>10, <1>1 DEF Launch
<1>11. ASSUME NEW n \in Creations, NEW pc \in {"address", "poll"}, Running(n), Goto(n, pc)
       PROVE  \A m \in Creations : Running(m) => (Running(m))' /\ tasks'[m].id = tasks[m].id
  <2>1. tasks[n] \in TaskState /\ tasks[n] # NoTask
    BY <1>11 DEF TypeOK, Running, NoTask
  <2>2. [tasks[n] EXCEPT !.pc = pc].id = tasks[n].id /\ [tasks[n] EXCEPT !.pc = pc].pc = pc
    BY <2>1 DEF TaskState
  <2>3. tasks' = [tasks EXCEPT ![n] = [tasks[n] EXCEPT !.pc = pc]]
    BY <1>11 DEF Goto
  <2> QED BY <2>2, <2>3 DEF Running, TypeOK
<1>12. ASSUME NEW n \in Creations, Record(n) PROVE ProvisioningOwned'
  <2>1. Running(n)
    BY <1>12, TaskTypes DEF Record
  <2>2. rows[tasks[n].id] \in Row =>
          [rows[tasks[n].id] EXCEPT !.vm = tasks[n].vm].status = rows[tasks[n].id].status
    BY DEF Row
  <2> QED BY <2>1, <2>2, <1>9, <1>11, <1>12 DEF Record
<1>13. ASSUME NEW n \in Creations, StoreAgent(n) PROVE ProvisioningOwned'
  <2>1. Running(n)
    BY <1>13, TaskTypes DEF StoreAgent
  <2>2. rows[tasks[n].id] \in Row =>
          [rows[tasks[n].id] EXCEPT !.agent = tasks[n].vm].status = rows[tasks[n].id].status
    BY DEF Row
  <2> QED BY <2>1, <2>2, <1>9, <1>11, <1>13 DEF StoreAgent
(* A task that ends has settled the status of the region with its id. *)
<1>14. ASSUME NEW n \in Creations, Running(n), End(n), NEW row, SetFields(tasks[n].id, row),
              rows[tasks[n].id] \in Row => row.status # "provisioning"
       PROVE  ProvisioningOwned'
  <2>1. tasks[n].id \in Ids
    BY <1>14, TaskTypes
  <2>2. \A m \in Creations : m # n => tasks'[m] = tasks[m]
    BY <1>14 DEF End, TypeOK
  <2>3. \A j \in Ids : rows'[j] # NoRow /\ rows'[j].status = "provisioning" =>
          j # tasks[n].id /\ rows'[j] = rows[j]
    BY <2>1, <1>14 DEF SetFields, Exists, TypeOK
  <2> QED BY <2>2, <2>3 DEF ProvisioningOwned, Present, Exists, Running
<1>15. ASSUME NEW n \in Creations, AgentHealthy(n) PROVE ProvisioningOwned'
  <2>1. Running(n)
    BY <1>15, TaskTypes DEF AgentHealthy
  <2>2. PICK row : /\ row = [rows[tasks[n].id] EXCEPT !.status = "healthy", !.active = TRUE]
                   /\ SetFields(tasks[n].id, row)
    BY <1>15 DEF AgentHealthy
  <2>3. rows[tasks[n].id] \in Row => row.status # "provisioning"
    BY <2>2 DEF Row
  <2> QED BY <2>1, <2>2, <2>3, <1>14, <1>15 DEF AgentHealthy
<1>16. ASSUME NEW n \in Creations, Fail(n) \/ LaunchLost(n) PROVE ProvisioningOwned'
  <2>1. Running(n)
    BY <1>16, TaskTypes DEF Fail, LaunchLost
  <2>2. rows[tasks[n].id] \in Row => [rows[tasks[n].id] EXCEPT !.status = "failed"].status # "provisioning"
    BY DEF Row
  <2> QED BY <2>1, <2>2, <1>14, <1>16 DEF Fail, LaunchLost
<1> QED
  BY <1>3, <1>4, <1>5, <1>6, <1>7, <1>8, <1>10, <1>12, <1>13, <1>15, <1>16
     DEF Next, Ask, Answer, TaskStep, PollStep, Workers, vars, Register, Check, Terminate,
         PollRound, PollNext, ApiRestart, Reclaim

(* While the process does not restart, a region shown as provisioning has a task at work *)
(* on it, whoever deletes, edits or checks regions meanwhile.                            *)
THEOREM ProvisioningHasTask ==
  ASSUME "restart" \notin Faults
  PROVE  Spec => []ProvisioningOwned
<1>1. Init => ProvisioningOwned
  BY DEF Init, ProvisioningOwned, Present, Exists
<1>2. TypeInv /\ ProvisioningOwned /\ [Next]_vars => ProvisioningOwned'
  BY ProvisioningOwnedStep
<1> QED BY <1>1, <1>2, TypeInvInit, TypeInvStep, PTL DEF Spec
-----------------------------------------------------------------------------
(* As long as nobody deletes a region under its task, a running task finds its own *)
(* region under its id, without an instance until it records one.                  *)
OwnRegion ==
  \A n \in Creations : Running(n) =>
    /\ rows[tasks[n].id] # NoRow
    /\ rows[tasks[n].id].nth = n
    /\ tasks[n].pc \in {"launch", "record"} => VmOf(tasks[n].id) = NoMachine

(* A step that starts no task and sends none back to an earlier stage. *)
TasksOn ==
  \A n \in Creations : (Running(n))' =>
    /\ Running(n)
    /\ tasks'[n].id = tasks[n].id
    /\ tasks'[n].pc \in {"launch", "record"} => tasks[n].pc \in {"launch", "record"}

LEMMA TasksOnOrStarted ==
  ASSUME TypeInv, [Next]_vars
  PROVE  TasksOn \/ \E s \in Slugs : Provision(s)
<1> USE DEF TypeInv
<1>1. CASE UNCHANGED tasks
  BY <1>1 DEF TasksOn, Running
<1>2. CASE ApiRestart
  BY <1>2 DEF ApiRestart, TasksOn, Running, NoTask
<1>3. ASSUME NEW n \in Creations, Launch(n) PROVE TasksOn
  BY <1>3 DEF Launch, TasksOn, Running, TypeOK
<1>4. ASSUME NEW n \in Creations, End(n) PROVE TasksOn
  BY <1>4 DEF End, TasksOn, Running, TypeOK, NoTask
<1>5. ASSUME NEW n \in Creations, NEW pc \in {"address", "poll"}, Goto(n, pc), Running(n)
      PROVE  TasksOn
  <2>1. tasks[n] \in TaskState /\ tasks[n] # NoTask
    BY <1>5 DEF TypeOK, Running, NoTask
  <2>2. [tasks[n] EXCEPT !.pc = pc].id = tasks[n].id /\ [tasks[n] EXCEPT !.pc = pc].pc = pc
    BY <2>1 DEF TaskState
  <2>3. tasks' = [tasks EXCEPT ![n] = [tasks[n] EXCEPT !.pc = pc]]
    BY <1>5 DEF Goto
  <2> QED BY <2>2, <2>3, <1>5 DEF TasksOn, Running, TypeOK
<1>6. ASSUME NEW n \in Creations, Record(n) \/ StoreAgent(n) PROVE TasksOn
  BY <1>6, <1>5, TaskTypes DEF Record, StoreAgent
<1> QED
  BY <1>1, <1>2, <1>3, <1>4, <1>6
     DEF Next, Ask, Answer, PollStep, TaskStep, Registered, Register, Delete, Check, Terminate,
         PollRound, PollNext, Checked, Update, AgentHealthy, Fail, LaunchLost, Reclaim, vars

LEMMA OwnRegionStep ==
  ASSUME "impatient" \notin Admin, TypeInv, ClaimInv, OwnRegion, [Next]_vars
  PROVE  OwnRegion'
<1> USE DEF TypeInv
<1>0. \A n \in Creations : Running(n) => tasks[n].id \in Ids
  BY TaskTypes
<1>1. ASSUME RowsEdited, TasksOn, \A i \in Ids : VmOf(i)' = VmOf(i) PROVE OwnRegion'
  <2>1. SUFFICES ASSUME NEW n \in Creations, (Running(n))'
                 PROVE  /\ rows'[tasks'[n].id] # NoRow
                        /\ rows'[tasks'[n].id].nth = n
                        /\ tasks'[n].pc \in {"launch", "record"} => VmOf(tasks[n].id)' = NoMachine
    BY DEF OwnRegion
  <2>2. Running(n) /\ tasks'[n].id = tasks[n].id /\ tasks[n].id \in Ids
    BY <2>1, <1>0, <1>1 DEF TasksOn
  <2> QED BY <2>1, <2>2, <1>1 DEF OwnRegion, RowsEdited, TasksOn
<1>2. ASSUME NEW r \in Requests, NEW i \in Ids, Delete(r, i) PROVE OwnRegion'
  <2>1. \A n \in Creations : Running(n) => tasks[n].id # i
    BY <1>2 DEF Delete, MayDelete
  <2>2. \A j \in Ids : j # i => rows'[j] = rows[j]
    BY <1>2 DEF Delete, TypeOK
  <2>3. UNCHANGED tasks
    BY <1>2 DEF Delete
  <2> QED BY <2>1, <2>2, <2>3, <1>0 DEF OwnRegion, Running, VmOf
<1>3. ASSUME NEW s \in Slugs, Provision(s) PROVE OwnRegion'
  <2>1. PICK m \in Creations : m = created + 1
    BY <1>3, BoundsAssumption DEF Provision, Insert, Creations, TypeOK
  <2> DEFINE row == NewRow(s, "provisioning", FALSE, NoMachine)
  <2>2. row \in Row /\ row.nth = m /\ row.vm = NoMachine
    BY <2>1 DEF NewRow, Row, Statuses
  <2>3. PICK i \in Ids : /\ i = FreshId /\ rows[i] = NoRow
                         /\ rows'[i] = row
                         /\ \A j \in Ids : j # i => rows'[j] = rows[j]
    BY <2>2, <1>3, InsertAdds DEF Provision, Present, Exists
  <2>4. tasks' = [tasks EXCEPT ![m] = [pc |-> "launch", id |-> i, vm |-> NoMachine]]
    BY <2>1, <2>3, <1>3 DEF Provision
  <2>5. rows'[i] # NoRow /\ rows'[i].nth = m /\ rows'[i].vm = NoMachine
    BY <2>2, <2>3, NoRowAssumption
  <2>6. tasks'[m].id = i
    BY <2>4 DEF TypeOK
  <2>7. \A n \in Creations : n # m => tasks'[n] = tasks[n]
    BY <2>4 DEF TypeOK
  <2>8. \A n \in Creations : Running(n) => tasks[n].id # i
    BY <2>3 DEF OwnRegion
  <2>9. SUFFICES ASSUME NEW n \in Creations, (Running(n))'
                 PROVE  /\ rows'[tasks'[n].id] # NoRow
                        /\ rows'[tasks'[n].id].nth = n
                        /\ tasks'[n].pc \in {"launch", "record"} => rows'[tasks'[n].id].vm = NoMachine
    BY DEF OwnRegion, VmOf
  <2>10. CASE n = m
    BY <2>5, <2>6, <2>10
  <2>11. CASE n # m
    <3>1. Running(n) /\ tasks'[n] = tasks[n]
      BY <2>7, <2>9, <2>11 DEF Running
    <3>2. rows'[tasks[n].id] = rows[tasks[n].id]
      BY <3>1, <2>3, <2>8, <1>0
    <3> QED BY <3>1, <3>2 DEF OwnRegion, VmOf
  <2> QED BY <2>10, <2>11
<1>4. ASSUME NEW row \in Row, Insert(row), TasksOn PROVE OwnRegion'
  <2>1. \A i \in Ids : rows[i] # NoRow => rows'[i] = rows[i]
    BY <1>4, InsertAdds DEF Present, Exists
  <2>2. SUFFICES ASSUME NEW n \in Creations, (Running(n))'
                 PROVE  /\ rows'[tasks'[n].id] # NoRow
                        /\ rows'[tasks'[n].id].nth = n
                        /\ tasks'[n].pc \in {"launch", "record"} => VmOf(tasks[n].id)' = NoMachine
    BY DEF OwnRegion
  <2>3. Running(n) /\ tasks'[n].id = tasks[n].id /\ tasks[n].id \in Ids
    BY <2>2, <1>0, <1>4 DEF TasksOn
  <2> QED BY <2>1, <2>2, <2>3, <1>4 DEF OwnRegion, VmOf, TasksOn
<1>5. ASSUME NEW m \in Creations, Record(m) PROVE OwnRegion'
  <2> DEFINE i == tasks[m].id
  <2>1. /\ Running(m) /\ i \in Ids /\ tasks[m].vm \in Vms /\ tasks[m].pc = "record"
        /\ rows[i] # NoRow /\ rows[i].nth = m
    BY <1>5, TaskTypes DEF Record, OwnRegion
  <2>2. RowsEdited
    BY <2>1, <1>5, TaskEdits DEF Record
  <2>3. \A j \in Ids : j # i => rows'[j] = rows[j]
    BY <2>1, <1>5 DEF Record, SetFields, Exists, TypeOK
  <2>4. /\ \A n \in Creations : n # m => tasks'[n] = tasks[n]
        /\ tasks'[m].pc = "address"
        /\ tasks'[m].id = tasks[m].id
    <3>1. tasks' = [tasks EXCEPT ![m] = [tasks[m] EXCEPT !.pc = "address"]]
      BY <1>5 DEF Record, Goto
    <3>2. tasks[m] \in TaskState /\ tasks[m] # NoTask
      BY <2>1 DEF TypeOK, NoTask
    <3>3. /\ [tasks[m] EXCEPT !.pc = "address"].id = tasks[m].id
          /\ [tasks[m] EXCEPT !.pc = "address"].pc = "address"
      BY <3>2 DEF TaskState
    <3> QED BY <3>1, <3>3 DEF TypeOK
  <2>5. \A n \in Creations : n # m /\ Running(n) => tasks[n].id # i
    BY <2>1 DEF OwnRegion
  <2>6. ASSUME NEW n \in Creations, n # m, (Running(n))'
        PROVE  /\ rows'[tasks'[n].id] = rows[tasks[n].id]
               /\ tasks'[n] = tasks[n] /\ Running(n)
    BY <2>3, <2>4, <2>5, <2>6, <1>0 DEF Running
  <2>7. rows'[i] # NoRow /\ rows'[i].nth = m
    BY <2>1, <2>2 DEF RowsEdited
  <2> QED BY <2>4, <2>6, <2>7 DEF OwnRegion, VmOf
<1>6. ASSUME NEW n \in Creations, LaunchLost(n) PROVE \A i \in Ids : VmOf(i)' = VmOf(i)
  <2>1. Running(n)
    BY <1>6, TaskTypes DEF LaunchLost
  <2>2. rows[tasks[n].id] \in Row =>
          /\ [rows[tasks[n].id] EXCEPT !.status = "failed"] \in Row
          /\ [rows[tasks[n].id] EXCEPT !.status = "failed"].vm = rows[tasks[n].id].vm
    BY DEF Row, Statuses
  <2> QED BY <2>1, <2>2, <1>6, OtherFieldsKeepClaims DEF LaunchLost
<1>7. CASE RowsEdited /\ TasksOn
  <2>1. CASE Quiet
    BY <2>1, <1>1, <1>7 DEF Quiet
  <2>2. CASE Moving
    <3>1. CASE UNCHANGED rows
      BY <3>1, <1>1, <1>7 DEF VmOf
    <3> QED BY <2>2, <3>1, <1>1, <1>2, <1>5, <1>6, <1>7
               DEF Moving, Terminate, Launch, ApiRestart, Reclaim
  <2> QED BY <2>1, <2>2, QuietOrMoving
<1> QED BY <1>2, <1>3, <1>4, <1>7, EditedInsertedOrDeleted, TasksOnOrStarted

(* As long as nobody deletes a region under its task, a                                 *)
(* provisioning task only ever writes to the region it was started for.                 *)
THEOREM TasksKeepTheirRegion ==
  ASSUME "impatient" \notin Admin
  PROVE  Spec => []TaskKeepsItsRegion
<1>1. Init => ClaimInv /\ OwnRegion
  BY ClaimInvInit DEF Init, OwnRegion, Running, NoTask
<1>2. TypeInv /\ ClaimInv /\ OwnRegion /\ [Next]_vars => OwnRegion'
  BY OwnRegionStep
<1>3. Spec => []OwnRegion
  BY <1>1, <1>2, TypeInvInit, TypeInvStep, ClaimInvStep, PTL DEF Spec
<1>4. OwnRegion => TaskKeepsItsRegion
  BY DEF OwnRegion, TaskKeepsItsRegion
<1> QED BY <1>3, <1>4, PTL
-----------------------------------------------------------------------------
(* What decides the phase of an instance is as it was. *)
Kept(u) ==
  /\ vms'[u] = vms[u]
  /\ OnItsWay(u)' <=> OnItsWay(u)
  /\ Recorded(u)' <=> Recorded(u)
  /\ BeingTerminated(u)' <=> BeingTerminated(u)
  /\ u \in reported' <=> u \in reported

LEMMA KeptPhase ==
  ASSUME NEW u \in Vms, Kept(u)
  PROVE  Phase(u)' = Phase(u)
BY DEF Kept, Phase

LEMMA NothingMoves ==
  ASSUME \A u \in Vms : Phase(u)' = Phase(u)
  PROVE  UNCHANGED [v \in Vms |-> Phase(v)]
OBVIOUS

LEMMA OneMoves ==
  ASSUME NEW v \in Vms, NEW from, NEW to, Phase(v) \in from, Phase(v)' = to,
         \A u \in Vms \ {v} : Phase(u)' = Phase(u)
  PROVE  Ledger!Move(v, from, to)
BY DEF Ledger!Move

LEMMA QuietKeeps ==
  ASSUME TypeInv, Quiet
  PROVE  \A u \in Vms : Kept(u)
<1> SUFFICES ASSUME NEW u \in Vms PROVE Kept(u)
  OBVIOUS
<1>1. Recorded(u)' <=> Recorded(u)
  <2>1. Recorded(u) <=> \E i \in Ids : VmOf(i) = u
    BY MachinesAssumption DEF Recorded, Present, Exists, VmOf
  <2>2. Recorded(u)' <=> \E i \in Ids : VmOf(i)' = u
    BY MachinesAssumption DEF Recorded, Present, Exists, VmOf
  <2> QED BY <2>1, <2>2 DEF Quiet
<1>2. OnItsWay(u)' <=> OnItsWay(u)
  BY DEF Quiet, OnItsWay
<1>3. BeingTerminated(u)' <=> BeingTerminated(u)
  BY DEF Quiet, BeingTerminated
<1> QED BY <1>1, <1>2, <1>3 DEF Quiet, Kept

(* Every step moves one instance from phase to phase, or none. *)
LEMMA LedgerStep ==
  ASSUME "restart" \notin Faults, "lost" \notin Faults, "impatient" \notin Admin,
         TypeInv, ClaimInv, OwnRegion, NoOrphans, [Next]_vars
  PROVE  /\ NoOrphans'
         /\ [Ledger!Next]_[v \in Vms |-> Phase(v)]
<1> USE DEF TypeInv
<1>1. \A v \in Vms : vms[v] \in {"unused", "running", "terminated"}
  BY DEF TypeOK
<1>2. ASSUME \A u \in Vms : Kept(u) PROVE NoOrphans' /\ UNCHANGED [v \in Vms |-> Phase(v)]
  <2>1. NoOrphans'
    BY <1>2 DEF Kept, NoOrphans
  <2> QED BY <2>1, <1>2, KeptPhase
<1>3. ASSUME NEW v \in Vms, \A u \in Vms \ {v} : Kept(u),
             vms'[v] = "running" =>
               Recorded(v)' \/ OnItsWay(v)' \/ BeingTerminated(v)' \/ v \in reported'
      PROVE  NoOrphans'
  BY <1>3 DEF Kept, NoOrphans
(* The region that owned an instance is deleted. *)
<1>4. ASSUME NEW r \in Requests, NEW i \in Ids, Delete(r, i), rows[i].vm # NoMachine
      PROVE  NoOrphans' /\ [Ledger!Next]_[v \in Vms |-> Phase(v)]
  <2>1. /\ rows[i] # NoRow /\ rows[i] \in Row /\ i \in Present
        /\ rows' = [rows EXCEPT ![i] = NoRow]
        /\ work[r] = Idle
        /\ work' = [work EXCEPT ![r] = [pc |-> "terminate", vm |-> rows[i].vm]]
        /\ UNCHANGED <<tasks, vms, reported>>
    BY <1>4 DEF Delete, Exists, Present, TypeOK
  <2>2. PICK u \in Vms : u = rows[i].vm /\ Recorded(u)
    BY <2>1, <1>4 DEF Row, Recorded
  <2>3. ~OnItsWay(u) /\ ~BeingTerminated(u) /\ vms[u] # "unused"
    BY <2>2 DEF ClaimInv, TerminationSafe
  <2>4. work'[r] = [pc |-> "terminate", vm |-> u] /\ \A q \in Requests \ {r} : work'[q] = work[q]
    BY <2>1, <2>2 DEF TypeOK, Workers
  <2>5. BeingTerminated(u)' /\ ~OnItsWay(u)'
    BY <2>1, <2>3, <2>4 DEF BeingTerminated, OnItsWay
  <2>6. ~Recorded(u)'
    BY <2>1, <2>2, <1>4 DEF Recorded, Present, Exists, ClaimInv, TerminationSafe, TypeOK
  <2>7. ASSUME NEW x \in Vms \ {u} PROVE Kept(x)
    <3>1. Recorded(x)' <=> Recorded(x)
      BY <2>1, <2>2 DEF Recorded, Present, Exists, TypeOK
    <3>2. BeingTerminated(x)' <=> BeingTerminated(x)
      BY <2>1, <2>2, <2>4 DEF BeingTerminated, Idle
    <3> QED BY <3>1, <3>2, <2>1 DEF Kept, OnItsWay
  <2>8. NoOrphans'
    BY <2>5, <2>7, <1>3
  <2>9. CASE vms[u] = "terminated"
    <3>1. Phase(u)' = Phase(u)
      BY <2>9, <2>1 DEF Phase
    <3> QED BY <3>1, <2>7, <2>8, KeptPhase
  <2>10. CASE vms[u] = "running"
    <3>1. Phase(u) = "owned" /\ Phase(u)' = "leaving"
      BY <2>1, <2>2, <2>3, <2>5, <2>6, <2>10 DEF Phase
    <3>2. Ledger!Release(u)
      BY <3>1, <2>7, KeptPhase, OneMoves DEF Ledger!Release
    <3> QED BY <3>2, <2>8 DEF Ledger!Next
  <2> QED BY <2>3, <2>9, <2>10, <1>1
(* Oracle terminates the instance, or refuses. *)
<1>5. ASSUME NEW r \in Requests, Terminate(r)
      PROVE  NoOrphans' /\ [Ledger!Next]_[v \in Vms |-> Phase(v)]
  <2>1. /\ work[r].pc = "terminate" /\ work[r].vm \in Vms
        /\ work' = [work EXCEPT ![r] = Idle]
        /\ UNCHANGED <<rows, tasks>>
    BY <1>5, WorkTypes DEF Terminate, Workers
  <2>2. PICK u \in Vms : u = work[r].vm
    BY <2>1
  <2>3. BeingTerminated(u)
    <3>1. work[r] \in Waiting
      BY DEF TypeOK, Workers
    <3>2. work[r] = [pc |-> "terminate", vm |-> u]
      BY <3>1, <2>1, <2>2 DEF Waiting, Idle
    <3> QED BY <3>2 DEF BeingTerminated
  <2>4. ~OnItsWay(u) /\ ~Recorded(u) /\ vms[u] # "unused"
    BY <2>3 DEF ClaimInv, TerminationSafe
  <2>5. ~OnItsWay(u)' /\ ~Recorded(u)'
    BY <2>1, <2>4 DEF OnItsWay, Recorded, Present, Exists
  <2>6. \/ vms' = [vms EXCEPT ![u] = "terminated"] /\ UNCHANGED reported
        \/ reported' = reported \cup {u} /\ UNCHANGED vms
    BY <2>2, <1>5 DEF Terminate
  <2>7. ASSUME NEW x \in Vms \ {u} PROVE Kept(x)
    <3>1. BeingTerminated(x)' <=> BeingTerminated(x)
      BY <2>1, <2>2 DEF BeingTerminated, Idle, TypeOK, Workers
    <3>2. vms'[x] = vms[x] /\ (x \in reported' <=> x \in reported)
      BY <2>6 DEF TypeOK
    <3> QED BY <3>1, <3>2, <2>1 DEF Kept, OnItsWay, Recorded, Present, Exists
  <2>8. NoOrphans'
    BY <2>6, <2>7, <1>3 DEF TypeOK
  <2>9. CASE vms[u] = "terminated"
    <3>1. vms'[u] = "terminated"
      BY <2>6, <2>9 DEF TypeOK
    <3>2. Phase(u)' = Phase(u)
      BY <2>9, <3>1 DEF Phase
    <3> QED BY <3>2, <2>7, <2>8, KeptPhase
  <2>10. CASE vms[u] = "running" /\ vms' = [vms EXCEPT ![u] = "terminated"]
    <3>1. Phase(u) = "leaving" /\ Phase(u)' = "returned"
      BY <2>3, <2>4, <2>10 DEF Phase, TypeOK
    <3>2. Ledger!Return(u)
      BY <3>1, <2>7, KeptPhase, OneMoves DEF Ledger!Return
    <3> QED BY <3>2, <2>8 DEF Ledger!Next
  <2>11. CASE vms[u] = "running" /\ reported' = reported \cup {u} /\ UNCHANGED vms
    <3>1. Phase(u) = "leaving" /\ Phase(u)' \in {"leaving", "reported"}
      BY <2>3, <2>4, <2>5, <2>11 DEF Phase
    <3>2. CASE Phase(u)' = "leaving"
      <4>1. Phase(u)' = Phase(u)
        BY <3>1, <3>2
      <4> QED BY <4>1, <2>7, <2>8, KeptPhase
    <3>3. CASE Phase(u)' = "reported"
      <4>1. Ledger!Report(u)
        BY <3>1, <3>3, <2>7, KeptPhase, OneMoves DEF Ledger!Report
      <4> QED BY <4>1, <2>8 DEF Ledger!Next
    <3> QED BY <3>1, <3>2, <3>3
  <2> QED BY <2>4, <2>6, <2>9, <2>10, <2>11, <1>1
(* A launched instance was free; its task has the id in hand. *)
<1>6. ASSUME NEW n \in Creations, Launch(n)
      PROVE  NoOrphans' /\ [Ledger!Next]_[v \in Vms |-> Phase(v)]
  <2>1. PICK u \in Vms : /\ vms[u] = "unused"
                         /\ vms' = [vms EXCEPT ![u] = "running"]
                         /\ tasks' = [tasks EXCEPT ![n] = [pc |-> "record", id |-> tasks[n].id, vm |-> u]]
    BY <1>6 DEF Launch
  <2>2. tasks[n].pc = "launch" /\ UNCHANGED <<rows, work, reported>>
    BY <1>6 DEF Launch
  <2>3. tasks'[n].pc = "record" /\ tasks'[n].vm = u /\ \A m \in Creations \ {n} : tasks'[m] = tasks[m]
    BY <2>1 DEF TypeOK
  <2>4. ASSUME NEW x \in Vms \ {u} PROVE Kept(x)
    <3>1. OnItsWay(x)' <=> OnItsWay(x)
      BY <2>2, <2>3 DEF OnItsWay
    <3>2. vms'[x] = vms[x]
      BY <2>1 DEF TypeOK
    <3> QED BY <3>1, <3>2, <2>2 DEF Kept, Recorded, BeingTerminated, Present, Exists
  <2>5. OnItsWay(u)'
    BY <2>3 DEF OnItsWay
  <2>6. NoOrphans'
    BY <2>4, <2>5, <1>3
  <2>7. Phase(u) = "free" /\ Phase(u)' = "rented"
    BY <2>1, <2>5 DEF Phase, TypeOK
  <2>8. Ledger!Rent(u)
    BY <2>4, <2>7, KeptPhase, OneMoves DEF Ledger!Rent
  <2> QED BY <2>6, <2>8 DEF Ledger!Next
(* The task finds its own region, and no instance recorded there. *)
<1>7. ASSUME NEW n \in Creations, Record(n)
      PROVE  NoOrphans' /\ [Ledger!Next]_[v \in Vms |-> Phase(v)]
  <2>1. /\ Running(n) /\ tasks[n].id \in Ids /\ tasks[n].vm \in Vms /\ tasks[n].pc = "record"
        /\ rows[tasks[n].id] # NoRow /\ VmOf(tasks[n].id) = NoMachine
        /\ UNCHANGED <<vms, work, reported>>
    BY <1>7, TaskTypes DEF Record, OwnRegion
  <2>2. PICK i \in Ids, u \in Vms : i = tasks[n].id /\ u = tasks[n].vm
    BY <2>1
  <2>3. /\ rows'[i] # NoRow /\ rows'[i].vm = u
        /\ \A j \in Ids \ {i} : rows'[j] = rows[j]
    <3>1. rows[i] \in Row
      BY <2>1, <2>2 DEF TypeOK
    <3>2. rows' = [rows EXCEPT ![i] = [rows[i] EXCEPT !.vm = u]]
      BY <2>1, <2>2, <1>7 DEF Record, SetFields, Exists
    <3>3. [rows[i] EXCEPT !.vm = u] \in Row /\ [rows[i] EXCEPT !.vm = u].vm = u
      BY <3>1 DEF Row
    <3> QED BY <3>2, <3>3, NoRowAssumption DEF TypeOK
  <2>4. tasks'[n].pc = "address" /\ \A m \in Creations \ {n} : tasks'[m] = tasks[m]
    <3>1. tasks' = [tasks EXCEPT ![n] = [tasks[n] EXCEPT !.pc = "address"]]
      BY <1>7 DEF Record, Goto
    <3>2. tasks[n] \in TaskState /\ tasks[n] # NoTask
      BY <2>1 DEF TypeOK, NoTask
    <3>3. [tasks[n] EXCEPT !.pc = "address"].pc = "address"
      BY <3>2 DEF TaskState
    <3> QED BY <3>1, <3>3 DEF TypeOK
  <2>5. OnItsWay(u)
    BY <2>1, <2>2 DEF OnItsWay
  <2>6. vms[u] # "unused" /\ ~OnItsWay(u)'
    BY <2>1, <2>2, <2>4, <2>5 DEF ClaimInv, OnItsWay
  <2>7. Recorded(u)'
    BY <2>3 DEF Recorded, Present, Exists
  <2>8. ASSUME NEW x \in Vms \ {u} PROVE Kept(x)
    <3>1. OnItsWay(x)' <=> OnItsWay(x)
      BY <2>2, <2>4 DEF OnItsWay
    <3>2. rows[i].vm = NoMachine /\ NoMachine # x
      BY <2>1, <2>2, MachinesAssumption DEF VmOf
    <3>3. Recorded(x)' <=> Recorded(x)
      BY <2>3, <3>2 DEF Recorded, Present, Exists
    <3> QED BY <3>1, <3>3, <2>1 DEF Kept, BeingTerminated
  <2>9. NoOrphans'
    BY <2>7, <2>8, <1>3
  <2>10. CASE vms[u] = "terminated"
    <3>1. Phase(u)' = Phase(u)
      BY <2>10, <2>1 DEF Phase
    <3> QED BY <3>1, <2>8, <2>9, KeptPhase
  <2>11. CASE vms[u] = "running"
    <3>1. Phase(u) = "rented" /\ Phase(u)' = "owned"
      BY <2>1, <2>5, <2>6, <2>7, <2>11 DEF Phase
    <3>2. Ledger!Assign(u)
      BY <3>1, <2>8, KeptPhase, OneMoves DEF Ledger!Assign
    <3> QED BY <3>2, <2>9 DEF Ledger!Next
  <2> QED BY <2>6, <2>10, <2>11, <1>1
<1>8. ASSUME NEW u \in Vms, Reclaim(u)
      PROVE  NoOrphans' /\ [Ledger!Next]_[v \in Vms |-> Phase(v)]
  <2>1. /\ vms[u] = "running" /\ vms'[u] = "terminated"
        /\ \A x \in Vms \ {u} : vms'[x] = vms[x]
        /\ UNCHANGED <<rows, tasks, work, reported>>
    BY <1>8 DEF Reclaim, TypeOK
  <2>2. \A x \in Vms \ {u} : Kept(x)
    BY <2>1 DEF Kept, OnItsWay, Recorded, BeingTerminated, Present, Exists
  <2>3. NoOrphans'
    BY <2>1, <2>2, <1>3
  <2>4. Phase(u) \in {"rented", "owned", "leaving", "reported"} /\ Phase(u)' = "returned"
    BY <2>1 DEF Phase, NoOrphans
  <2>5. Ledger!Return(u)
    BY <2>2, <2>4, KeptPhase, OneMoves DEF Ledger!Return
  <2> QED BY <2>3, <2>5 DEF Ledger!Next
<1>9. CASE Quiet
  BY <1>9, <1>2, QuietKeeps
<1>10. ~ApiRestart /\ \A n \in Creations : ~LaunchLost(n)
  BY DEF ApiRestart, LaunchLost
<1> QED BY <1>4, <1>5, <1>6, <1>7, <1>8, <1>9, <1>10, QuietOrMoving DEF Moving

(* Regions implements the ledger, as long as the process is not restarted, no answer of *)
(* Oracle is lost and nobody deletes a region under its task: every instance goes from  *)
(* one holder to the next, in the order the code intends.                               *)
THEOREM ImplementsLedger ==
  ASSUME "restart" \notin Faults, "lost" \notin Faults, "impatient" \notin Admin
  PROVE  Spec => RefinesLedger
<1>1. Init => Ledger!Init
  BY DEF Init, Ledger!Init, Phase
<1>2. Init => TypeInv /\ ClaimInv /\ OwnRegion /\ NoOrphans
  BY TypeInvInit, ClaimInvInit DEF Init, OwnRegion, NoOrphans, Running, NoTask
<1>3. TypeInv /\ ClaimInv /\ OwnRegion /\ NoOrphans /\ [Next]_vars
        => NoOrphans' /\ [Ledger!Next]_[v \in Vms |-> Phase(v)]
  BY LedgerStep
<1>4. TypeInv /\ ClaimInv /\ OwnRegion /\ [Next]_vars => OwnRegion'
  BY OwnRegionStep
<1> QED BY <1>1, <1>2, <1>3, <1>4, TypeInvStep, ClaimInvStep, PTL
        DEF Spec, RefinesLedger, Ledger!Spec

(* Under the same conditions no instance runs that no region, task, request or answer *)
(* names.                                                                             *)
THEOREM NothingOrphaned ==
  ASSUME "restart" \notin Faults, "lost" \notin Faults, "impatient" \notin Admin
  PROVE  Spec => []NoOrphans
<1>1. Init => TypeInv /\ ClaimInv /\ OwnRegion /\ NoOrphans
  BY TypeInvInit, ClaimInvInit DEF Init, OwnRegion, NoOrphans, Running, NoTask
<1>2. TypeInv /\ ClaimInv /\ OwnRegion /\ NoOrphans /\ [Next]_vars => NoOrphans'
  BY LedgerStep
<1>3. TypeInv /\ ClaimInv /\ OwnRegion /\ [Next]_vars => OwnRegion'
  BY OwnRegionStep
<1> QED BY <1>1, <1>2, <1>3, TypeInvStep, ClaimInvStep, PTL DEF Spec
-----------------------------------------------------------------------------
(* The safety half of ProvisioningResolves, which ProvisioningHasTask begins: the task of *)
(* a region is started once, with the region, and every later step brings it nearer to    *)
(* its end, whatever becomes of the row.                                                  *)
StagesLeft(pc) ==
  CASE pc = "launch" -> 4
    [] pc = "record" -> 3
    [] pc = "address" -> 2
    [] pc = "poll" -> 1
    [] pc = "done" -> 0

TasksAdvance ==
  [][\A n \in Creations : tasks'[n] # tasks[n] =>
       \/ StagesLeft(tasks'[n].pc) < StagesLeft(tasks[n].pc)
       \/ n \notin 1..created /\ n \in 1..created']_vars

THEOREM TasksOnlyAdvance == Spec => TasksAdvance
<1> DEFINE Advances(n) ==
      \/ StagesLeft(tasks'[n].pc) < StagesLeft(tasks[n].pc)
      \/ n \notin 1..created /\ n \in 1..created'
<1>1. ASSUME TypeInv, Next, NEW n \in Creations, tasks'[n] # tasks[n]
      PROVE  Advances(n)
  <2>0. tasks \in [Creations -> TaskState] /\ created \in Nat /\ Creations \subseteq Nat
    BY <1>1, BoundsAssumption DEF TypeInv, TypeOK, Creations
  <2>1. ASSUME NEW m \in Creations, TaskStep(m)
        PROVE  Advances(n)
    <3>1. \/ tasks[m].pc = "launch" /\ \E id, v : tasks' = [tasks EXCEPT ![m] = [pc |-> "record", id |-> id, vm |-> v]]
          \/ tasks[m].pc = "record" /\ tasks' = [tasks EXCEPT ![m].pc = "address"]
          \/ tasks[m].pc = "address" /\ tasks' = [tasks EXCEPT ![m].pc = "poll"]
          \/ tasks[m].pc \in {"launch", "address", "poll"} /\ tasks' = [tasks EXCEPT ![m] = NoTask]
      BY <2>1 DEF TaskStep, Launch, Record, StoreAgent, AgentHealthy, Fail, LaunchLost, Goto, End
    <3>2. m = n
      BY <1>1, <2>0, <3>1
    <3>3. \/ tasks[n].pc = "launch" /\ tasks'[n].pc = "record"
          \/ tasks[n].pc = "record" /\ tasks'[n].pc = "address"
          \/ tasks[n].pc = "address" /\ tasks'[n].pc = "poll"
          \/ tasks[n].pc \in {"launch", "address", "poll"} /\ tasks'[n].pc = "done"
      BY <2>0, <3>1, <3>2 DEF NoTask, TaskState
    <3> QED BY <3>3 DEF StagesLeft
  <2>2. ASSUME NEW s \in Slugs, Provision(s)
        PROVE  Advances(n)
    <3>1. created' = created + 1 /\ n = created + 1
      BY <1>1, <2>0, <2>2 DEF Provision, Insert
    <3> QED BY <2>0, <3>1
  <2>3. CASE ApiRestart
    <3>1. tasks'[n] = NoTask /\ tasks[n].pc \in {"launch", "record", "address", "poll"}
      BY <1>1, <2>0, <2>3, TaskTypes DEF ApiRestart, TypeInv, Running, TaskState, NoTask
    <3> QED BY <3>1 DEF StagesLeft, NoTask
  <2>4. CASE UNCHANGED tasks
    BY <1>1, <2>4
  <2> QED BY <1>1, <2>1, <2>2, <2>3, <2>4
          DEF Next, Ask, Answer, PollStep, Register, Registered, Update, Delete, Terminate, Check,
              PollRound, PollNext, Checked, Reclaim
<1>2. TypeInv /\ [Next]_vars => [\A n \in Creations : tasks'[n] # tasks[n] => Advances(n)]_vars
  BY <1>1
<1> QED BY <1>2, TypeInvInit, TypeInvStep, PTL DEF Spec, TasksAdvance

(* The safety half of DeadRegionNoticed: a round of the poller never grows and is never *)
(* disturbed. Of what is left of it, the regions to load and the answer it waits for,   *)
(* each of its steps takes something away, and no request, task or deleted row adds     *)
(* anything; a StaleDataError only ends it earlier.                                     *)
RoundLeft == 2 * Cardinality(todo) + (IF work[Poller] = Idle THEN 0 ELSE 1)
RoundShrinks ==
  [][RoundLeft # 0 => RoundLeft' < RoundLeft \/ UNCHANGED <<todo, work[Poller]>>]_vars

LEMMA RoundCounted ==
  ASSUME TypeOK
  PROVE  IsFiniteSet(todo) /\ Cardinality(todo) \in Nat
<1>1. IsFiniteSet(Ids) /\ todo \in SUBSET Ids
  <2>1. 2 \in Int /\ MaxRegions + 1 \in Int
    BY BoundsAssumption
  <2> QED BY <2>1, FS_Interval DEF Ids, TypeOK
<1> QED BY <1>1, FS_Subset, FS_CardinalityType

THEOREM RoundsAlwaysShrink == Spec => RoundShrinks
<1> DEFINE Shrinks == RoundLeft' < RoundLeft \/ UNCHANGED <<todo, work[Poller]>>
<1>1. ASSUME TypeInv, Next, RoundLeft # 0
      PROVE  Shrinks
  <2> DEFINE size == Cardinality(todo)
  <2>0. work \in [Workers -> Waiting] /\ Poller \in Workers /\ Poller \notin Requests /\ TypeOK
    BY <1>1, WorkersAssumption DEF TypeInv, TypeOK, Workers
  <2>1. IsFiniteSet(todo) /\ size \in Nat
    BY <2>0, RoundCounted
  <2>2. ASSUME NEW r \in Requests, NEW w, work' = [work EXCEPT ![r] = w], UNCHANGED todo
        PROVE  Shrinks
    BY <2>0, <2>2
  <2>3. ASSUME todo' = {}, work'[Poller] = Idle
        PROVE  Shrinks
    <3>1. RoundLeft' = 0
      BY <2>3, FS_EmptySet DEF RoundLeft
    <3>2. RoundLeft \in Nat
      BY <2>1 DEF RoundLeft
    <3> QED BY <1>1, <3>1, <3>2
  <2>4. ASSUME NEW i \in Ids, PollNext(i)
        PROVE  Shrinks
    <3>1. i \in todo /\ todo' = todo \ {i} /\ work[Poller] = Idle
      BY <2>4 DEF PollNext
    <3>2. Cardinality(todo') = size - 1
      BY <2>1, <3>1, FS_RemoveElement
    <3> HIDE DEF size
    <3>3. RoundLeft = 2 * size + 0
      BY <3>1 DEF RoundLeft, size
    <3>4. RoundLeft' = 2 * (size - 1) + 0 \/ RoundLeft' = 2 * (size - 1) + 1
      BY <3>2 DEF RoundLeft
    <3> QED BY <2>1, <3>3, <3>4
  <2>5. CASE Checked(Poller)
    <3>1. work[Poller] # Idle /\ work'[Poller] = Idle
      <4>1. work[Poller].pc = "check"
        BY <2>5 DEF Checked
      <4>2. work' = [work EXCEPT ![Poller] = Idle]
        BY <2>5 DEF Checked, Write, Stale
      <4> QED BY <2>0, <4>1, <4>2 DEF Idle
    <3>2. todo' = todo \/ todo' = {}
      BY <2>5 DEF Checked, Write, Stale
    <3>3. CASE todo' = todo
      <4>1. RoundLeft' = 2 * size + 0 /\ RoundLeft = 2 * size + 1
        BY <3>1, <3>3 DEF RoundLeft
      <4> HIDE DEF size
      <4> QED BY <2>1, <4>1
    <3> QED BY <2>3, <3>1, <3>2, <3>3
  <2>6. CASE PollRound
    <3>1. RoundLeft = 0
      BY <2>6, FS_EmptySet DEF PollRound, RoundLeft
    <3> QED BY <1>1, <3>1
  <2>7. ASSUME NEW r \in Requests, Ask(r) \/ Answer(r)
        PROVE  Shrinks
    <3>1. r # Poller
      BY <2>0
    <3> QED BY <2>2, <2>7, <3>1 DEF Ask, Answer, Register, Registered, Delete, Check, Load,
                                    Terminate, Checked, Write, Stale
  <2>8. CASE ApiRestart
    BY <2>0, <2>3, <2>8 DEF ApiRestart
  <2>9. CASE UNCHANGED <<todo, work>>
    BY <2>9
  <2> QED BY <1>1, <2>4, <2>5, <2>6, <2>7, <2>8, <2>9
          DEF Next, PollStep, Provision, Update, Reclaim, TaskStep, Launch, Record, StoreAgent,
              AgentHealthy, Fail, LaunchLost
<1>2. TypeInv /\ [Next]_vars => [RoundLeft # 0 => Shrinks]_vars
  BY <1>1
<1> QED BY <1>2, TypeInvInit, TypeInvStep, PTL DEF Spec, RoundShrinks
================================================================================
