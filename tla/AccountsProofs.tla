----------------------------- MODULE AccountsProofs -----------------------------
(***************************************************************************)
(* Theorems about Accounts for every set of names, clients and requests    *)
(* and every limit.                                                        *)
(*                                                                         *)
(* The argument: a row that waits to be inserted is complete, so the table *)
(* stays typed; what is written is unique at the moment of the write,      *)
(* whatever was looked up before, and an update writes what it was asked   *)
(* to and, of roles, only what an administrator asked for; the failures of *)
(* a client and the logins that may still add to them only grow when a     *)
(* login is let in, and then the former are below the limit and the latter *)
(* are requests.                                                           *)
(***************************************************************************)
EXTENDS Accounts, MaxTheorems, FiniteSetTheorems, TLAPS

(* What waits to be inserted is a whole row, and an update that is about to be committed *)
(* sets a role only for an administrator.                                                *)
Whole(rec) == rec.pc \in {"lookup", "insert"} => rec.row \in Row
RoleAllowed(rec) == rec.pc = "write" => rec.row.role = Keep \/ rec.admin

RowsWhole == \A r \in Requests : Whole(req[r])
RolesAllowed == \A r \in Requests : RoleAllowed(req[r])

TypeInv == TypeOK /\ RowsWhole /\ RolesAllowed

(* The id SQLite picks is in no use. *)
LEMMA FreshIdIsFree ==
  ASSUME TypeOK
  PROVE  FreshId \in Nat \ {0} /\ FreshId \notin DOMAIN users
<1> DEFINE U == DOMAIN users \cup {0}
<1>1. MaxId \in Nat /\ U \subseteq 0..MaxId /\ U # {}
  BY BoundsAssumption DEF TypeOK
<1>2. Max(U) \in U /\ \A y \in U : Max(U) >= y
  BY <1>1, MaxIsGreatest
<1>3. Max(U) \in Nat
  BY <1>1, <1>2
<1>4. FreshId = Max(U) + 1
  BY DEF FreshId
<1>5. \A i \in DOMAIN users : i \in Nat /\ Max(U) >= i
  BY <1>2 DEF TypeOK
<1> QED BY <1>3, <1>4, <1>5

(* A row more, or one less, leaves the table typed. *)
LEMMA TablesTyped ==
  ASSUME TypeOK, NEW id \in 1..MaxId, NEW row \in Row
  PROVE  /\ DOMAIN With(id, row) = DOMAIN users \cup {id}
         /\ DOMAIN With(id, row) \in SUBSET (1..MaxId)
         /\ With(id, row) \in [DOMAIN With(id, row) -> Row]
         /\ With(id, row)[id] = row
         /\ \A i \in DOMAIN users : i # id => With(id, row)[i] = users[i]
BY DEF TypeOK, With

LEMMA WithoutTyped ==
  ASSUME TypeOK, NEW id
  PROVE  /\ DOMAIN Without(id) = DOMAIN users \ {id}
         /\ DOMAIN Without(id) \in SUBSET (1..MaxId)
         /\ Without(id) \in [DOMAIN Without(id) -> Row]
         /\ \A i \in DOMAIN Without(id) : Without(id)[i] = users[i]
BY DEF TypeOK, Without

LEMMA RestTyped ==
  /\ Rest \in Request /\ Rest.pc = "rest" /\ Rest.client = NoClient
  /\ Rest.row \in Row /\ Rest.old \in Row
BY NamesAssumption DEF Rest, NoRow, Row, Roles, Request

(* What a step does to the table: it inserts, updates, deletes, or seeds user 1. *)
Inserts(r) ==
  /\ req[r].pc = "insert"
  /\ ~NameTaken(req[r].row.name) /\ FreshId <= MaxId
  /\ users' = With(FreshId, req[r].row)
Updates(r) ==
  /\ req[r].pc = "write"
  /\ req[r].target \in DOMAIN users /\ NameFree(req[r].target, Merged(r).name)
  /\ users' = With(req[r].target, Merged(r))
Deletes(r) == req[r].pc = "delete" /\ users' = Without(req[r].target)
Reseeds == 1 \notin DOMAIN users /\ ~NameTaken(SeedName) /\ users' = With(1, Seed)

LEMMA TableSteps ==
  ASSUME [Next]_vars
  PROVE  \/ users' = users
         \/ \E r \in Requests : Inserts(r) \/ Updates(r) \/ Deletes(r)
         \/ Reseeds
<1>1. ASSUME NEW r \in Requests, Step(r)
      PROVE  users' = users \/ Inserts(r) \/ Updates(r) \/ Deletes(r)
  BY <1>1 DEF Step, CreateLookup, Lookup, Insert, UpdateFind, UpdateLookup,
              SetFields, UpdateWrite, DeleteRow,
              ApiLoginBody, LoginFailed, LoginSucceeded, Inserts, Updates, Deletes
<1>2. ASSUME NEW r \in Requests, Arrive(r) PROVE users' = users
  BY <1>2 DEF Arrive, RegisterUser, ApiRegister, Lookup, CreateUser, UpdateUser, DeleteUser,
              Login, ApiLogin, StartLogin
<1>3. ASSUME NEW c \in Clients, Expire(c) PROVE users' = users
  BY <1>3 DEF Expire
<1>4. ASSUME Restart PROVE users' = users \/ Reseeds
  BY <1>4 DEF Restart, Reseeds
<1>5. CASE UNCHANGED vars
  BY <1>5 DEF vars
<1> QED BY <1>1, <1>2, <1>3, <1>4, <1>5 DEF Next

(* What an update writes is a whole row. *)
LEMMA MergedTyped ==
  ASSUME TypeInv, NEW r \in Requests, Updates(r)
  PROVE  Merged(r) \in Row /\ req[r].target \in 1..MaxId
<1>1. users[req[r].target] \in Row /\ req[r] \in Request
  BY DEF TypeInv, TypeOK, Updates
<1>2. /\ req[r].row.name \in Names \cup {Keep} /\ req[r].row.role \in Roles \cup {Keep}
      /\ users[req[r].target].name \in Names /\ users[req[r].target].role \in Roles
  BY <1>1 DEF Request, Row
<1> QED BY <1>2 DEF Merged, Column, Row, Updates, TypeInv, TypeOK

LEMMA TableStaysTyped ==
  ASSUME TypeInv, [Next]_vars
  PROVE  DOMAIN users' \in SUBSET (1..MaxId) /\ users' \in [DOMAIN users' -> Row]
<1>1. CASE users' = users
  BY <1>1 DEF TypeInv, TypeOK
<1>2. ASSUME NEW r \in Requests, Inserts(r)
      PROVE  DOMAIN users' \in SUBSET (1..MaxId) /\ users' \in [DOMAIN users' -> Row]
  <2>1. FreshId \in 1..MaxId /\ req[r].row \in Row
    BY <1>2, FreshIdIsFree, BoundsAssumption DEF TypeInv, RowsWhole, Whole, Inserts
  <2> QED BY <2>1, <1>2, TablesTyped DEF TypeInv, Inserts
<1>3. ASSUME NEW r \in Requests, Updates(r)
      PROVE  DOMAIN users' \in SUBSET (1..MaxId) /\ users' \in [DOMAIN users' -> Row]
  BY <1>3, MergedTyped, TablesTyped DEF TypeInv, Updates
<1>4. ASSUME NEW r \in Requests, Deletes(r)
      PROVE  DOMAIN users' \in SUBSET (1..MaxId) /\ users' \in [DOMAIN users' -> Row]
  BY <1>4, WithoutTyped DEF TypeInv, Deletes
<1>5. ASSUME Reseeds
      PROVE  DOMAIN users' \in SUBSET (1..MaxId) /\ users' \in [DOMAIN users' -> Row]
  <2>1. Seed \in Row /\ 1 \in 1..MaxId
    BY NamesAssumption, BoundsAssumption DEF Seed, Row, Roles
  <2> QED BY <2>1, <1>5, TablesTyped DEF TypeInv, Reseeds
<1> QED BY <1>1, <1>2, <1>3, <1>4, <1>5, TableSteps

-----------------------------------------------------------------------------
(* What a request may be doing after a step. *)
Fits(rec) == rec \in Request /\ Whole(rec) /\ RoleAllowed(rec)
Fitting == req \in [Requests -> Request] /\ RowsWhole /\ RolesAllowed

LEMMA FitsAll ==
  ASSUME TypeInv, NEW r \in Requests, NEW rec, Fits(rec), Become(r, rec)
  PROVE  Fitting'
BY DEF TypeInv, TypeOK, RowsWhole, RolesAllowed, Fits, Fitting, Become

LEMMA LookupFits ==
  ASSUME TypeInv, NEW r \in Requests, NEW n \in Names, NEW role \in Roles, Lookup(r, n, role)
  PROVE  Fitting'
<1> DEFINE rec == [Rest EXCEPT !.pc = "insert", !.row = [name |-> n, role |-> role]]
<1>1. Fits(rec)
  BY RestTyped DEF Fits, Whole, RoleAllowed, Request, Row
<1> QED BY <1>1, FitsAll DEF Lookup

LEMMA SetFieldsFits ==
  ASSUME TypeInv, NEW r \in Requests, NEW loaded \in Row, SetFields(r, loaded)
  PROVE  Fitting'
<1>t. req[r] \in Request
  BY DEF TypeInv, TypeOK
<1>1. CASE Answer(r)
  <2>1. Fits(Rest)
    BY RestTyped DEF Fits, Whole, RoleAllowed
  <2> QED BY <1>1, <2>1, FitsAll DEF Answer
<1>2. CASE ~Answer(r)
  <2> DEFINE rec == [req[r] EXCEPT !.pc = "write", !.old = loaded]
  <2>1. Become(r, rec) /\ (req[r].row.role = Keep \/ req[r].admin)
    BY <1>2 DEF SetFields
  <2>2. rec \in Request /\ rec.pc = "write" /\ rec.row = req[r].row /\ rec.admin = req[r].admin
    BY <1>t DEF Request
  <2>3. Fits(rec)
    BY <2>1, <2>2 DEF Fits, Whole, RoleAllowed
  <2> QED BY <2>1, <2>3, FitsAll
<1> QED BY <1>1, <1>2

LEMMA RequestsStayTyped ==
  ASSUME TypeInv, [Next]_vars
  PROVE  Fitting'
<1> DEFINE Goal == Fitting'
<1>r. ASSUME NEW r \in Requests, Answer(r) PROVE Goal
  <2>1. Fits(Rest)
    BY RestTyped DEF Fits, Whole, RoleAllowed
  <2> QED BY <1>r, <2>1, FitsAll DEF Answer
<1>u. ASSUME UNCHANGED req PROVE Goal
  BY <1>u DEF TypeInv, TypeOK, RowsWhole, RolesAllowed, Fitting
<1>t. \A r \in Requests : req[r] \in Request
  BY DEF TypeInv, TypeOK
<1>1. ASSUME NEW r \in Requests, Step(r) PROVE Goal
  <2>1. CASE CreateLookup(r)
    <3>1. CASE Answer(r)
      BY <3>1, <1>r
    <3>2. CASE req[r].pc = "lookup" /\ Lookup(r, req[r].row.name, req[r].row.role)
      <4>1. req[r].row.name \in Names /\ req[r].row.role \in Roles
        BY <3>2 DEF TypeInv, RowsWhole, Whole, Row
      <4> QED BY <3>2, <4>1, LookupFits
    <3> QED BY <2>1, <3>1, <3>2 DEF CreateLookup
  <2>2. CASE Insert(r) \/ UpdateWrite(r) \/ DeleteRow(r) \/ LoginFailed(r) \/ LoginSucceeded(r)
    <3>1. Answer(r)
      BY <2>2 DEF Insert, UpdateWrite, DeleteRow, LoginFailed, LoginSucceeded
    <3> QED BY <3>1, <1>r
  <2>3. CASE UpdateFind(r)
    <3>1. CASE Answer(r)
      BY <3>1, <1>r
    <3>2. CASE ~Answer(r)
      <4> DEFINE loaded == users[req[r].target]
                 rec == [req[r] EXCEPT !.pc = "taken", !.old = loaded]
      <4>1. req[r].target \in DOMAIN users /\ (SetFields(r, loaded) \/ Become(r, rec))
        BY <2>3, <3>2 DEF UpdateFind
      <4>2. loaded \in Row
        BY <4>1 DEF TypeInv, TypeOK
      <4> HIDE DEF loaded
      <4>3. Fits(rec)
        BY <1>t, <4>2 DEF Fits, Whole, RoleAllowed, Request
      <4> QED BY <4>1, <4>2, <4>3, FitsAll, SetFieldsFits
    <3> QED BY <3>1, <3>2
  <2>5. CASE UpdateLookup(r)
    <3>1. req[r].old \in Row
      BY <1>t DEF Request
    <3> QED BY <2>5, <3>1, <1>r, SetFieldsFits DEF UpdateLookup
  <2>4. CASE ApiLoginBody(r)
    <3>1. CASE Answer(r)
      BY <3>1, <1>r
    <3>2. CASE Become(r, [req[r] EXCEPT !.pc = "login"])
      <4>1. Fits([req[r] EXCEPT !.pc = "login"])
        BY <1>t DEF Fits, Whole, RoleAllowed, Request
      <4> QED BY <3>2, <4>1, FitsAll
    <3> QED BY <2>4, <3>1, <3>2 DEF ApiLoginBody
  <2> QED BY <1>1, <2>1, <2>2, <2>3, <2>4, <2>5 DEF Step
<1>2. ASSUME NEW r \in Requests, Arrive(r) PROVE Goal
  <2>1. ASSUME NEW n \in Names, NEW role \in Roles, RegisterUser(r, n, role) PROVE Goal
    BY <2>1, LookupFits DEF RegisterUser
  <2>2. ASSUME NEW n \in Names, ApiRegister(r, n) PROVE Goal
    BY <2>2, LookupFits DEF ApiRegister, Roles
  <2>3. ASSUME NEW by, NEW n \in Names, NEW role \in Roles, CreateUser(r, by, n, role) PROVE Goal
    <3> DEFINE rec == [Rest EXCEPT !.pc = "lookup", !.row = [name |-> n, role |-> role]]
    <3>1. Fits(rec)
      BY RestTyped DEF Fits, Whole, RoleAllowed, Request, Row
    <3> QED BY <2>3, <3>1, FitsAll DEF CreateUser
  <2>4. ASSUME NEW by, NEW target \in 1..MaxId, NEW n \in Names \cup {Keep},
               NEW role \in Roles \cup {Keep}, UpdateUser(r, by, target, n, role)
        PROVE  Goal
    <3> DEFINE may == role # Keep /\ IsAdmin(by)
               rec == [Rest EXCEPT !.pc = "find", !.target = target, !.admin = may,
                                   !.row = [name |-> n, role |-> role]]
    <3>0. target \in Nat /\ may \in BOOLEAN
      BY BoundsAssumption
    <3> HIDE DEF may
    <3>1. Fits(rec)
      BY <3>0, RestTyped DEF Fits, Whole, RoleAllowed, Request, Row
    <3> QED BY <2>4, <3>1, FitsAll DEF UpdateUser, may
  <2>5. ASSUME NEW by, NEW target \in 1..MaxId, DeleteUser(r, by, target) PROVE Goal
    <3> DEFINE rec == [Rest EXCEPT !.pc = "delete", !.target = target]
    <3>0. target \in Nat
      BY BoundsAssumption
    <3>1. Fits(rec)
      BY <3>0, RestTyped DEF Fits, Whole, RoleAllowed, Request, Row
    <3> QED BY <2>5, <3>1, FitsAll DEF DeleteUser
  <2>6. ASSUME NEW c \in Clients, NEW pc \in {"login", "body"}, StartLogin(r, c, pc) PROVE Goal
    <3> DEFINE rec == [Rest EXCEPT !.pc = pc, !.client = c]
    <3>1. Fits(rec)
      BY RestTyped DEF Fits, Whole, RoleAllowed, Request
    <3> QED BY <2>6, <3>1, FitsAll DEF StartLogin
  <2> QED BY <1>2, <2>1, <2>2, <2>3, <2>4, <2>5, <2>6 DEF Arrive, Login, ApiLogin
<1>3. ASSUME NEW c \in Clients, Expire(c) PROVE Goal
  BY <1>3, <1>u DEF Expire
<1>4. ASSUME Restart PROVE Goal
  BY <1>4, RestTyped DEF Restart, RowsWhole, RolesAllowed, Whole, RoleAllowed, Fitting
<1>5. CASE UNCHANGED vars
  BY <1>5, <1>u DEF vars
<1> QED BY <1>1, <1>2, <1>3, <1>4, <1>5 DEF Next

LEMMA CountersStayTyped ==
  ASSUME TypeOK, [Next]_vars
  PROVE  fails' \in [Clients -> Nat] /\ up' \in BOOLEAN
<1>1. ASSUME NEW r \in Requests, Step(r) PROVE fails' \in [Clients -> Nat] /\ up' = up
  BY <1>1 DEF TypeOK, Step, CreateLookup, Lookup, Insert, UpdateFind, UpdateLookup,
              SetFields, UpdateWrite, DeleteRow,
              ApiLoginBody, LoginFailed, LoginSucceeded
<1>2. ASSUME NEW r \in Requests, Arrive(r) PROVE fails' = fails /\ up' = up
  BY <1>2 DEF Arrive, RegisterUser, ApiRegister, Lookup, CreateUser, UpdateUser, DeleteUser,
              Login, ApiLogin, StartLogin
<1>3. ASSUME NEW c \in Clients, Expire(c) PROVE fails' \in [Clients -> Nat] /\ up' = up
  BY <1>3 DEF TypeOK, Expire
<1>4. ASSUME Restart PROVE fails' \in [Clients -> Nat] /\ up' \in BOOLEAN
  BY <1>4 DEF Restart
<1>5. CASE UNCHANGED vars
  BY <1>5 DEF vars, TypeOK
<1> QED BY <1>1, <1>2, <1>3, <1>4, <1>5 DEF Next, TypeOK

LEMMA TypeInvInit == Init => TypeInv
<1> SUFFICES ASSUME Init PROVE TypeInv
  OBVIOUS
<1>1. users \in [DOMAIN users -> Row] /\ DOMAIN users \in SUBSET (1..MaxId)
  BY NamesAssumption, BoundsAssumption DEF Init, Seed, Row, Roles
<1>2. fails \in [Clients -> Nat] /\ up \in BOOLEAN /\ req \in [Requests -> Request]
  BY RestTyped DEF Init
<1> QED BY <1>1, <1>2, RestTyped
   DEF Init, TypeInv, TypeOK, RowsWhole, RolesAllowed, Whole, RoleAllowed

LEMMA TypeInvStep == TypeInv /\ [Next]_vars => TypeInv'
<1> SUFFICES ASSUME TypeInv, [Next]_vars PROVE TypeInv'
  OBVIOUS
<1>1. DOMAIN users' \in SUBSET (1..MaxId) /\ users' \in [DOMAIN users' -> Row]
  BY TableStaysTyped
<1>2. Fitting'
  BY RequestsStayTyped
<1>3. fails' \in [Clients -> Nat] /\ up' \in BOOLEAN
  BY CountersStayTyped DEF TypeInv
<1> QED BY <1>1, <1>2, <1>3 DEF TypeInv, TypeOK, Fitting

LEMMA TypeInvariant == Spec => []TypeInv
BY TypeInvInit, TypeInvStep, PTL DEF Spec

(* The users table and everything under way around it are well formed in every reachable *)
(* state.                                                                                *)
THEOREM TypeCorrect == Spec => []TypeOK
<1>1. TypeInv => TypeOK
  BY DEF TypeInv
<1> QED BY <1>1, TypeInvariant, PTL
-----------------------------------------------------------------------------
(* A row whose name no other has keeps the names unique. *)
LEMMA WithKeepsNamesUnique ==
  ASSUME TypeOK, NamesUnique, NEW id \in 1..MaxId, NEW row \in Row,
         NameFree(id, row.name), users' = With(id, row)
  PROVE  NamesUnique'
<1> SUFFICES ASSUME NEW i \in DOMAIN users', NEW j \in DOMAIN users',
                    users'[i].name = users'[j].name
             PROVE  i = j
  BY DEF NamesUnique
<1>1. DOMAIN users' = DOMAIN users \cup {id} /\ users'[id] = row
        /\ \A k \in DOMAIN users : k # id => users'[k] = users[k]
  BY TablesTyped
<1>2. CASE i = id /\ j # id
  BY <1>1, <1>2 DEF NameFree
<1>3. CASE i # id /\ j = id
  BY <1>1, <1>3 DEF NameFree
<1>4. CASE i # id /\ j # id
  BY <1>1, <1>4 DEF NamesUnique
<1> QED BY <1>2, <1>3, <1>4

LEMMA NamesUniqueStep == TypeInv /\ NamesUnique /\ [Next]_vars => NamesUnique'
<1> SUFFICES ASSUME TypeInv, NamesUnique, [Next]_vars PROVE NamesUnique'
  OBVIOUS
<1>0. TypeOK
  BY DEF TypeInv
<1>1. CASE users' = users
  BY <1>1 DEF NamesUnique
<1>2. ASSUME NEW r \in Requests, Inserts(r) PROVE NamesUnique'
  <2>1. FreshId \in 1..MaxId /\ req[r].row \in Row
    BY <1>2, FreshIdIsFree, BoundsAssumption DEF TypeInv, RowsWhole, Whole, Inserts
  <2>2. NameFree(FreshId, req[r].row.name) /\ users' = With(FreshId, req[r].row)
    BY <1>2 DEF Inserts, NameFree, NameTaken
  <2> QED BY <1>0, <2>1, <2>2, WithKeepsNamesUnique
<1>3. ASSUME NEW r \in Requests, Updates(r) PROVE NamesUnique'
  BY <1>0, <1>3, MergedTyped, WithKeepsNamesUnique DEF Updates
<1>4. ASSUME NEW r \in Requests, Deletes(r) PROVE NamesUnique'
  <2> SUFFICES ASSUME NEW i \in DOMAIN users', NEW j \in DOMAIN users',
                      users'[i].name = users'[j].name
               PROVE  i = j
    BY DEF NamesUnique
  <2>1. i \in DOMAIN users /\ j \in DOMAIN users /\ users'[i] = users[i] /\ users'[j] = users[j]
    BY <1>0, <1>4, WithoutTyped DEF Deletes
  <2> QED BY <2>1 DEF NamesUnique
<1>5. ASSUME Reseeds PROVE NamesUnique'
  <2>1. Seed \in Row /\ 1 \in 1..MaxId /\ Seed.name = SeedName
    BY NamesAssumption, BoundsAssumption DEF Seed, Row, Roles
  <2>2. NameFree(1, Seed.name) /\ users' = With(1, Seed)
    BY <1>5, <2>1 DEF Reseeds, NameFree, NameTaken
  <2> QED BY <1>0, <2>1, <2>2, WithKeepsNamesUnique
<1> QED BY <1>1, <1>2, <1>3, <1>4, <1>5, TableSteps

(* No two users share a name, however the look-ups and the writes of concurrent requests *)
(* are interleaved.                                                                      *)
THEOREM NamesStayUnique == Spec => []NamesUnique
<1>1. Init => NamesUnique
  BY DEF Init, NamesUnique
<1> QED BY <1>1, NamesUniqueStep, TypeInvariant, PTL DEF Spec

-----------------------------------------------------------------------------
(* What a step may do to the row of a user who stays. *)
Ordered(id) ==
  users'[id] # users[id] =>
    \E r \in Requests :
      /\ req[r].pc = "write" /\ req[r].target = id
      /\ users'[id].name \in {users[id].name, req[r].row.name}
      /\ users'[id].role = users[id].role \/ (req[r].admin /\ users'[id].role = req[r].row.role)

LEMMA WithKeepsRows ==
  ASSUME TypeOK, NEW id \in 1..MaxId, NEW row \in Row, users' = With(id, row),
         NEW i \in DOMAIN users, i # id
  PROVE  users'[i] = users[i]
<1>1. With(id, row)[i] = users[i]
  BY TablesTyped
<1> QED BY <1>1

LEMMA StepsOrdered ==
  ASSUME TypeInv, [Next]_vars, NEW id \in DOMAIN users, id \in DOMAIN users'
  PROVE  Ordered(id)
<1>0. TypeOK
  BY DEF TypeInv
<1>1. CASE users' = users
  BY <1>1 DEF Ordered
<1>2. ASSUME NEW r \in Requests, Inserts(r) PROVE Ordered(id)
  <2>1. FreshId \in 1..MaxId /\ req[r].row \in Row /\ FreshId # id
    BY <1>0, <1>2, FreshIdIsFree, BoundsAssumption DEF TypeInv, RowsWhole, Whole, Inserts
  <2> QED BY <1>0, <1>2, <2>1, WithKeepsRows DEF Inserts, Ordered
<1>3. ASSUME NEW r \in Requests, Updates(r) PROVE Ordered(id)
  <2>1. Merged(r) \in Row /\ req[r].target \in 1..MaxId /\ users' = With(req[r].target, Merged(r))
    BY <1>3, MergedTyped DEF Updates
  <2>2. CASE id # req[r].target
    BY <1>0, <2>1, <2>2, WithKeepsRows DEF Ordered
  <2>3. CASE id = req[r].target
    <3>1. users'[id] = Merged(r) /\ req[r].pc = "write"
      BY <1>0, <1>3, <2>1, <2>3, TablesTyped DEF Updates
    <3>2. req[r].row.role = Keep \/ req[r].admin
      BY <3>1 DEF TypeInv, RolesAllowed, RoleAllowed
    <3>3. /\ Merged(r).name \in {users[id].name, req[r].row.name}
          /\ \/ Merged(r).role = users[id].role
             \/ req[r].row.role # Keep /\ Merged(r).role = req[r].row.role
      BY <2>3 DEF Merged, Column
    <3> QED BY <2>3, <3>1, <3>2, <3>3 DEF Ordered
  <2> QED BY <2>2, <2>3
<1>4. ASSUME NEW r \in Requests, Deletes(r) PROVE Ordered(id)
  BY <1>0, <1>4, WithoutTyped DEF Deletes, Ordered
<1>5. ASSUME Reseeds PROVE Ordered(id)
  <2>1. Seed \in Row /\ 1 \in 1..MaxId
    BY NamesAssumption, BoundsAssumption DEF Seed, Row, Roles
  <2>2. 1 # id /\ users' = With(1, Seed)
    BY <1>5 DEF Reseeds
  <2> QED BY <1>0, <2>1, <2>2, WithKeepsRows DEF Ordered
<1> QED BY <1>1, <1>2, <1>3, <1>4, <1>5, TableSteps

(* No update is lost to another and no role is set without an administrator's order, *)
(* however loads and commits of concurrent requests mix and whichever ids are reused. *)
THEOREM ChangesStayOrdered == Spec => ChangesAsOrdered
<1>1. TypeInv /\ [Next]_vars => \A id \in DOMAIN users \cap DOMAIN users' : Ordered(id)
  BY StepsOrdered
<1>2. TypeInv /\ [Next]_vars
        => [\A id \in DOMAIN users \cap DOMAIN users' : users'[id] # users[id] =>
              \E r \in Requests :
                /\ req[r].pc = "write" /\ req[r].target = id
                /\ users'[id].name \in {users[id].name, req[r].row.name}
                /\ \/ users'[id].role = users[id].role
                   \/ req[r].admin /\ users'[id].role = req[r].row.role]_vars
  BY <1>1 DEF Ordered
<1> QED BY <1>2, TypeInvariant, PTL DEF Spec, ChangesAsOrdered
-----------------------------------------------------------------------------
(* What a step does to the failures of c and to the logins under way for it: one is let *)
(* in below the limit, one is over and counted, or neither of the two grows.            *)
LetIn(c) == fails[c] < Limit /\ fails'[c] = fails[c]
Counted(c) ==
  \E r \in LoggingIn(c) : fails'[c] = fails[c] + 1 /\ LoggingIn(c)' \subseteq LoggingIn(c) \ {r}
NotMore(c) == fails'[c] <= fails[c] /\ LoggingIn(c)' \subseteq LoggingIn(c)

LEMMA LimiterSteps ==
  ASSUME TypeInv, [Next]_vars, NEW c \in Clients
  PROVE  LetIn(c) \/ Counted(c) \/ NotMore(c)
<1> DEFINE Shrinks == LoggingIn(c)' \subseteq LoggingIn(c)
<1>0. fails \in [Clients -> Nat] /\ req \in [Requests -> Request]
  BY DEF TypeInv, TypeOK
<1>b. ASSUME NEW r \in Requests, NEW rec, Become(r, rec), rec.client # c \/ rec.client = req[r].client
      PROVE  Shrinks
  BY <1>b, <1>0 DEF Become, LoggingIn
<1>r. ASSUME NEW r \in Requests, Answer(r) PROVE LoggingIn(c)' \subseteq LoggingIn(c) \ {r}
  <2>1. req' = [req EXCEPT ![r] = Rest] /\ Rest.client # c
    BY <1>r, RestTyped, ClientsAssumption DEF Answer, Become
  <2> QED BY <2>1, <1>0 DEF LoggingIn
<1>q. ASSUME fails' = fails, Shrinks PROVE NotMore(c)
  BY <1>q, <1>0 DEF NotMore
<1>n. ASSUME NEW r \in Requests, NEW rec, Become(r, rec), rec.client = NoClient, fails' = fails
      PROVE  NotMore(c)
  BY <1>n, <1>b, <1>q, ClientsAssumption
<1>l. ASSUME NEW r \in Requests, NEW n, NEW role, Lookup(r, n, role) PROVE NotMore(c)
  <2>1. [Rest EXCEPT !.pc = "insert", !.row = [name |-> n, role |-> role]].client = NoClient
    BY RestTyped DEF Request
  <2> QED BY <1>l, <2>1, <1>n DEF Lookup
<1>k. ASSUME NEW r \in Requests, NEW pc, NEW old, fails' = fails,
             Become(r, [req[r] EXCEPT !.pc = pc, !.old = old])
      PROVE  NotMore(c)
  <2>1. [req[r] EXCEPT !.pc = pc, !.old = old].client = req[r].client
    BY <1>0 DEF Request
  <2> QED BY <1>k, <2>1, <1>b, <1>q
<1>a. ASSUME NEW r \in Requests, Answer(r), fails' = fails PROVE NotMore(c)
  BY <1>a, <1>r, <1>q
<1>1. ASSUME NEW r \in Requests, Step(r) PROVE Counted(c) \/ NotMore(c)
  <2>1. CASE CreateLookup(r)
    BY <2>1, <1>l, <1>a DEF CreateLookup
  <2>2. CASE Insert(r) \/ UpdateWrite(r) \/ DeleteRow(r)
    BY <2>2, <1>a DEF Insert, UpdateWrite, DeleteRow
  <2>3. CASE UpdateFind(r)
    <3>1. fails' = fails
      BY <2>3 DEF UpdateFind
    <3>2. CASE Answer(r)
      BY <3>1, <3>2, <1>a
    <3>3. ASSUME NEW pc, NEW old, Become(r, [req[r] EXCEPT !.pc = pc, !.old = old])
          PROVE  NotMore(c)
      BY <3>1, <3>3, <1>k
    <3> QED BY <2>3, <3>2, <3>3 DEF UpdateFind, SetFields
  <2>7. CASE UpdateLookup(r)
    <3>1. fails' = fails
      BY <2>7 DEF UpdateLookup
    <3>2. CASE Answer(r)
      BY <3>1, <3>2, <1>a
    <3>3. CASE Become(r, [req[r] EXCEPT !.pc = "write", !.old = req[r].old])
      BY <3>1, <3>3, <1>k
    <3> QED BY <2>7, <3>2, <3>3 DEF UpdateLookup, SetFields
  <2>4. CASE ApiLoginBody(r)
    <3>1. fails' = fails
      BY <2>4 DEF ApiLoginBody
    <3>2. CASE Answer(r)
      BY <3>1, <3>2, <1>a
    <3>3. CASE Become(r, [req[r] EXCEPT !.pc = "login"])
      <4>1. [req[r] EXCEPT !.pc = "login"].client = req[r].client
        BY <1>0 DEF Request
      <4> QED BY <3>1, <3>3, <4>1, <1>b, <1>q
    <3> QED BY <2>4, <3>2, <3>3 DEF ApiLoginBody
  <2>5. CASE LoginFailed(r)
    <3>1. Answer(r) /\ fails' = [fails EXCEPT ![req[r].client] = @ + 1]
      BY <2>5 DEF LoginFailed
    <3>2. CASE req[r].client = c
      <4>1. r \in LoggingIn(c) /\ fails'[c] = fails[c] + 1
        BY <3>1, <3>2, <1>0 DEF LoggingIn
      <4> QED BY <4>1, <3>1, <1>r DEF Counted
    <3>3. CASE req[r].client # c
      <4>1. fails'[c] = fails[c]
        BY <3>1, <3>3, <1>0
      <4> QED BY <4>1, <3>1, <1>r, <1>0 DEF NotMore
    <3> QED BY <3>2, <3>3
  <2>6. CASE LoginSucceeded(r)
    <3>1. Answer(r) /\ fails' = [fails EXCEPT ![req[r].client] = 0]
      BY <2>6 DEF LoginSucceeded
    <3>2. fails'[c] <= fails[c]
      BY <3>1, <1>0
    <3> QED BY <3>1, <3>2, <1>r DEF NotMore
  <2> QED BY <1>1, <2>1, <2>2, <2>3, <2>4, <2>5, <2>6, <2>7 DEF Step
<1>2. ASSUME NEW r \in Requests, Arrive(r) PROVE LetIn(c) \/ NotMore(c)
  <2>1. ASSUME NEW n, NEW role, RegisterUser(r, n, role) \/ ApiRegister(r, n) PROVE NotMore(c)
    BY <2>1, <1>l DEF RegisterUser, ApiRegister
  <2>2. ASSUME NEW by, NEW n, NEW role, CreateUser(r, by, n, role) PROVE NotMore(c)
    <3>1. [Rest EXCEPT !.pc = "lookup", !.row = [name |-> n, role |-> role]].client = NoClient
      BY RestTyped DEF Request
    <3> QED BY <2>2, <3>1, <1>n DEF CreateUser
  <2>3. ASSUME NEW by, NEW target, NEW n, NEW role, UpdateUser(r, by, target, n, role)
        PROVE  NotMore(c)
    <3> DEFINE may == role # Keep /\ IsAdmin(by)
    <3>1. [Rest EXCEPT !.pc = "find", !.target = target, !.admin = may,
                       !.row = [name |-> n, role |-> role]].client = NoClient
      BY RestTyped DEF Request
    <3> QED BY <2>3, <3>1, <1>n DEF UpdateUser
  <2>4. ASSUME NEW by, NEW target, DeleteUser(r, by, target) PROVE NotMore(c)
    <3>1. [Rest EXCEPT !.pc = "delete", !.target = target].client = NoClient
      BY RestTyped DEF Request
    <3> QED BY <2>4, <3>1, <1>n DEF DeleteUser
  <2>5. ASSUME NEW d \in Clients, NEW pc, StartLogin(r, d, pc) PROVE LetIn(c) \/ NotMore(c)
    <3>1. fails' = fails /\ fails[d] < Limit /\ Become(r, [Rest EXCEPT !.pc = pc, !.client = d])
      BY <2>5 DEF StartLogin, Allowed
    <3>2. CASE d = c
      BY <3>1, <3>2 DEF LetIn
    <3>3. CASE d # c
      <4>1. [Rest EXCEPT !.pc = pc, !.client = d].client = d
        BY RestTyped DEF Request
      <4> QED BY <3>1, <3>3, <4>1, <1>b, <1>q
    <3> QED BY <3>2, <3>3
  <2> QED BY <1>2, <2>1, <2>2, <2>3, <2>4, <2>5 DEF Arrive, Login, ApiLogin
<1>3. ASSUME NEW d \in Clients, Expire(d) PROVE NotMore(c)
  BY <1>3, <1>0 DEF Expire, NotMore, LoggingIn
<1>4. ASSUME Restart PROVE NotMore(c)
  <2>1. fails'[c] = 0 /\ LoggingIn(c)' = {}
    BY <1>4, RestTyped, ClientsAssumption DEF Restart, LoggingIn
  <2> QED BY <2>1, <1>0 DEF NotMore
<1>5. CASE UNCHANGED vars
  BY <1>5, <1>0 DEF vars, NotMore, LoggingIn
<1> QED BY <1>1, <1>2, <1>3, <1>4, <1>5 DEF Next

LEMMA LoggingInCounted ==
  ASSUME NEW c
  PROVE  /\ IsFiniteSet(LoggingIn(c)) /\ Cardinality(LoggingIn(c)) \in Nat
         /\ Cardinality(Requests) \in Nat
         /\ Cardinality(LoggingIn(c)) <= Cardinality(Requests)
<1>1. LoggingIn(c) \in SUBSET Requests
  BY DEF LoggingIn
<1> QED BY <1>1, LimiterAssumption, FS_Subset, FS_CardinalityType

LEMMA OvershootInit == Init => OvershootBounded
<1> SUFFICES ASSUME Init, NEW c \in Clients
             PROVE  fails[c] + Cardinality(LoggingIn(c)) < Limit + Cardinality(Requests)
  BY DEF OvershootBounded
<1>1. fails[c] = 0
  BY DEF Init
<1> QED BY <1>1, LoggingInCounted, LimiterAssumption

LEMMA OvershootStep == TypeInv /\ OvershootBounded /\ [Next]_vars => OvershootBounded'
<1> SUFFICES ASSUME TypeInv, OvershootBounded, [Next]_vars, NEW c \in Clients
             PROVE  fails'[c] + Cardinality(LoggingIn(c)') < Limit + Cardinality(Requests)
  BY DEF OvershootBounded
<1> DEFINE was == LoggingIn(c)
           now == LoggingIn(c)'
<1>0. fails[c] \in Nat /\ fails'[c] \in Nat /\ Limit \in Nat
  BY CountersStayTyped, LimiterAssumption DEF TypeInv, TypeOK
<1>1. IsFiniteSet(was) /\ Cardinality(was) \in Nat /\ Cardinality(Requests) \in Nat
  BY LoggingInCounted
<1>2. now \in SUBSET Requests
  BY DEF LoggingIn
<1>3. Cardinality(now) \in Nat /\ Cardinality(now) <= Cardinality(Requests)
  BY <1>2, LimiterAssumption, FS_Subset, FS_CardinalityType
<1>4. fails[c] + Cardinality(was) < Limit + Cardinality(Requests)
  BY DEF OvershootBounded
<1> DEFINE Goal == fails'[c] + Cardinality(now) < Limit + Cardinality(Requests)
<1>5. ASSUME LetIn(c) PROVE Goal
  <2> HIDE DEF was, now
  <2>1. fails'[c] < Limit
    BY <1>5 DEF LetIn
  <2> QED BY <1>0, <1>1, <1>3, <2>1
<1>6. ASSUME Counted(c) PROVE Goal
  <2>1. PICK r \in was : fails'[c] = fails[c] + 1 /\ now \subseteq was \ {r}
    BY <1>6 DEF Counted
  <2> HIDE DEF was, now
  <2>2. IsFiniteSet(was \ {r}) /\ Cardinality(was \ {r}) = Cardinality(was) - 1
    BY <1>1, FS_RemoveElement
  <2>3. Cardinality(now) <= Cardinality(was \ {r})
    BY <2>1, <2>2, FS_Subset
  <2> QED BY <1>0, <1>1, <1>3, <1>4, <2>1, <2>2, <2>3
<1>7. ASSUME NotMore(c) PROVE Goal
  <2>1. fails'[c] <= fails[c] /\ now \subseteq was
    BY <1>7 DEF NotMore
  <2> HIDE DEF was, now
  <2>2. Cardinality(now) <= Cardinality(was)
    BY <2>1, <1>1, FS_Subset
  <2> QED BY <1>0, <1>1, <1>3, <1>4, <2>1, <2>2
<1> QED BY <1>5, <1>6, <1>7, LimiterSteps

(* The login limiter lets more failures through than its limit, but never more than one *)
(* for every other request the API handles at the same time.                            *)
THEOREM OvershootStaysBounded == Spec => []OvershootBounded
BY OvershootInit, OvershootStep, TypeInvariant, PTL DEF Spec

(* The safety half of LockoutEnds: while a client is locked out its failures and logins *)
(* under way only become fewer together, however often it tries again; and there is a   *)
(* failure that grows old.                                                              *)
Pressure(c) == fails[c] + Cardinality(LoggingIn(c))
LockoutWanes ==
  [][\A c \in Clients : ~Allowed(c) => fails[c] > 0 /\ Pressure(c)' <= Pressure(c)]_vars

THEOREM LockoutAlwaysWanes == Spec => LockoutWanes
<1>1. ASSUME TypeInv, [Next]_vars, NEW c \in Clients, ~Allowed(c)
      PROVE  fails[c] > 0 /\ Pressure(c)' <= Pressure(c)
  <2> DEFINE was == LoggingIn(c)
             now == LoggingIn(c)'
  <2>1. /\ fails[c] \in Nat /\ fails'[c] \in Nat
        /\ Limit \in Nat \ {0} /\ fails[c] >= Limit
    BY <1>1, CountersStayTyped, LimiterAssumption DEF TypeInv, TypeOK, Allowed
  <2>2. IsFiniteSet(was) /\ Cardinality(was) \in Nat
    BY LoggingInCounted
  <2>3. ~LetIn(c)
    BY <2>1 DEF LetIn
  <2> SUFFICES fails'[c] + Cardinality(now) <= fails[c] + Cardinality(was)
    BY <2>1 DEF Pressure
  <2>4. CASE Counted(c)
    <3>1. PICK r \in was : fails'[c] = fails[c] + 1 /\ now \subseteq was \ {r}
      BY <2>4 DEF Counted
    <3> HIDE DEF was, now
    <3>2. IsFiniteSet(was \ {r}) /\ Cardinality(was \ {r}) = Cardinality(was) - 1
      BY <2>2, FS_RemoveElement
    <3>3. Cardinality(now) <= Cardinality(was \ {r}) /\ Cardinality(now) \in Nat
      BY <3>1, <3>2, FS_Subset, FS_CardinalityType
    <3> QED BY <2>1, <2>2, <3>1, <3>2, <3>3
  <2>5. CASE NotMore(c)
    <3>1. fails'[c] <= fails[c] /\ now \subseteq was
      BY <2>5 DEF NotMore
    <3> HIDE DEF was, now
    <3>2. Cardinality(now) <= Cardinality(was) /\ Cardinality(now) \in Nat
      BY <3>1, <2>2, FS_Subset, FS_CardinalityType
    <3> QED BY <2>1, <2>2, <3>1, <3>2
  <2> QED BY <1>1, <2>3, <2>4, <2>5, LimiterSteps
<1>2. TypeInv /\ [Next]_vars
        => [\A c \in Clients : ~Allowed(c) => fails[c] > 0 /\ Pressure(c)' <= Pressure(c)]_vars
  BY <1>1
<1> QED BY <1>2, TypeInvariant, PTL DEF Spec, LockoutWanes
=================================================================================
