-------------------------------- MODULE Accounts --------------------------------
(***************************************************************************)
(* The users table of the dashboard, the requests that change it, and the  *)
(* login limiter (src/api/main.py 1370-1399, 2044-2429, src/api/database.py *)
(* 16, 243).                                                               *)
(*                                                                         *)
(* A route reads in one await and commits in a later one; other requests   *)
(* run in between, and only the UNIQUE column of the table stands against  *)
(* them. The limiter lives in the memory of the process: it is consulted   *)
(* before the awaits of a login and told of a failure after them.          *)
(*                                                                         *)
(* A row is [name, role]; the password is right or wrong as a login finds  *)
(* it. Times are left out: a failure leaves the window of the limiter at   *)
(* some moment.                                                            *)
(***************************************************************************)
EXTENDS Integers, FiniteSets, FiniteSetsExt

CONSTANTS
  Names,     \* user names
  SeedName,  \* settings.web_username, the name of the administrator made at startup
  Keep,      \* a field an update does not mention
  Requests,  \* concurrent HTTP requests
  Clients,   \* client addresses, the keys of the limiter
  NoClient,  \* the client of a request that is no login
  Limit,     \* LOGIN_RATE_LIMIT_MAX_ATTEMPTS
  MaxId      \* bound: the largest row id ever used

ASSUME NamesAssumption == SeedName \in Names /\ Keep \notin Names
ASSUME ClientsAssumption == NoClient \notin Clients
ASSUME LimiterAssumption == Limit \in Nat \ {0} /\ IsFiniteSet(Requests) /\ Requests # {}
ASSUME BoundsAssumption == MaxId \in Nat \ {0}

VARIABLES
  users,  \* the table, a function from the ids in use to rows
  fails,  \* _failed_login_attempts: how many failures of a client are in the window
  up,     \* the API has started
  req     \* what every request is doing

vars == <<users, fails, up, req>>

Roles == {"admin", "user"}
Row == [name : Names, role : Roles]
NoRow == [name |-> SeedName, role |-> "user"]

Rest == [pc |-> "rest", target |-> 0, row |-> NoRow, old |-> NoRow, admin |-> FALSE,
         client |-> NoClient]
Resting(r) == up /\ req[r].pc = "rest"
Become(r, rec) == req' = [req EXCEPT ![r] = rec]
Answer(r) == Become(r, Rest)

(* get_current_user: the caller's own row, read before anything else of the request. *)
Caller(id) == id \in DOMAIN users
IsAdmin(id) == Caller(id) /\ users[id].role = "admin"

NameTaken(n) == \E id \in DOMAIN users : users[id].name = n
(* The UNIQUE username: may row id be called n? *)
NameFree(id, n) == \A other \in DOMAIN users \ {id} : users[other].name # n

(* SQLite's INTEGER PRIMARY KEY without AUTOINCREMENT. *)
FreshId == Max(DOMAIN users \cup {0}) + 1

With(id, row) == [i \in DOMAIN users \cup {id} |-> IF i = id THEN row ELSE users[i]]
Without(id) == [i \in DOMAIN users \ {id} |-> users[i]]
-----------------------------------------------------------------------------
(* create_default_admin: user 1 is made when there is none. *)
Seed == [name |-> SeedName, role |-> "admin"]

Init ==
  /\ users = [i \in {1} |-> Seed]
  /\ fails = [c \in Clients |-> 0]
  /\ up = TRUE
  /\ req = [r \in Requests |-> Rest]

(* POST /auth/register: the name is looked up, then the row is inserted. *)
Lookup(r, n, role) ==
  /\ ~NameTaken(n)
  /\ Become(r, [Rest EXCEPT !.pc = "insert", !.row = [name |-> n, role |-> role]])
  /\ UNCHANGED <<users, fails, up>>

RegisterUser(r, n, role) == Resting(r) /\ Lookup(r, n, role)

(* POST /api/auth/register registers ordinary users only. *)
ApiRegister(r, n) == Resting(r) /\ Lookup(r, n, "user")

(* POST /users: the caller must be an administrator; then as above. *)
CreateUser(r, by, n, role) ==
  /\ Resting(r)
  /\ IsAdmin(by)
  /\ Become(r, [Rest EXCEPT !.pc = "lookup", !.row = [name |-> n, role |-> role]])
  /\ UNCHANGED <<users, fails, up>>

CreateLookup(r) ==
  /\ req[r].pc = "lookup"
  /\ \/ Lookup(r, req[r].row.name, req[r].row.role)
     \/ /\ NameTaken(req[r].row.name)
        /\ Answer(r)
        /\ UNCHANGED <<users, fails, up>>

(* The INSERT, refused by the table when the name (or the email) was taken meanwhile. *)
InsertUnguarded(r) ==
  /\ req[r].pc = "insert"
  /\ FreshId <= MaxId
  /\ users' = With(FreshId, req[r].row)
  /\ Answer(r)
  /\ UNCHANGED <<fails, up>>

Insert(r) ==
  /\ req[r].pc = "insert"
  /\ \/ /\ ~NameTaken(req[r].row.name)
        /\ FreshId <= MaxId
        /\ users' = With(FreshId, req[r].row)
     \/ UNCHANGED users
  /\ Answer(r)
  /\ UNCHANGED <<fails, up>>

(* PUT /api/users/{id}: an administrator, or the user himself. Whether the caller may set *)
(* a role is decided by his own role as it is now, however long the request takes.        *)
UpdateUser(r, by, target, n, role) ==
  /\ Resting(r)
  /\ IsAdmin(by) \/ (Caller(by) /\ by = target)
  /\ Become(r, [Rest EXCEPT !.pc = "find", !.target = target, !.admin = role # Keep /\ IsAdmin(by),
                            !.row = [name |-> n, role |-> role]])
  /\ UNCHANGED <<users, fails, up>>

(* The loaded row is given the fields of the request; only administrators set a role (403). *)
SetFields(r, loaded) ==
  IF req[r].row.role # Keep /\ ~req[r].admin
  THEN Answer(r)
  ELSE Become(r, [req[r] EXCEPT !.pc = "write", !.old = loaded])

(* The row is loaded (404); a name that is not the loaded one is looked up first. *)
UpdateFind(r) ==
  /\ req[r].pc = "find"
  /\ LET id == req[r].target
     IN IF id \notin DOMAIN users
        THEN Answer(r)
        ELSE IF req[r].row.name \in {Keep, users[id].name}
             THEN SetFields(r, users[id])
             ELSE Become(r, [req[r] EXCEPT !.pc = "taken", !.old = users[id]])
  /\ UNCHANGED <<users, fails, up>>

UpdateLookup(r) ==
  /\ req[r].pc = "taken"
  /\ IF NameTaken(req[r].row.name) THEN Answer(r) ELSE SetFields(r, req[r].old)
  /\ UNCHANGED <<users, fails, up>>

(* A column that is set to null when the request does not mention it. *)
ColumnAlways(new, old, now) == new

(* A column that is always written, as it was loaded when the request does not mention it. *)
ColumnOverwritten(new, old, now) == IF new = Keep THEN old ELSE new

(* The UPDATE names a column only when its field was given a value other than the loaded. *)
Column(new, old, now) == IF new \in {Keep, old} THEN now ELSE new

(* The UPDATE fails when the row is gone (StaleDataError) or the name, or the email, *)
(* another's (IntegrityError).                                                       *)
Merged(r) ==
  LET now == users[req[r].target]
      new == req[r].row
      old == req[r].old
  IN [name |-> Column(new.name, old.name, now.name), role |-> Column(new.role, old.role, now.role)]

UpdateWrite(r) ==
  /\ req[r].pc = "write"
  /\ \/ /\ req[r].target \in DOMAIN users
        /\ NameFree(req[r].target, Merged(r).name)
        /\ users' = With(req[r].target, Merged(r))
     \/ UNCHANGED users
  /\ Answer(r)
  /\ UNCHANGED <<fails, up>>

(* DELETE /api/users/{id}: administrators only, and not oneself. *)
DeleteUser(r, by, target) ==
  /\ Resting(r)
  /\ IsAdmin(by)
  /\ by # target
  /\ Become(r, [Rest EXCEPT !.pc = "delete", !.target = target])
  /\ UNCHANGED <<users, fails, up>>

DeleteRow(r) ==
  /\ req[r].pc = "delete"
  /\ users' = Without(req[r].target)
  /\ Answer(r)
  /\ UNCHANGED <<fails, up>>
-----------------------------------------------------------------------------
(* An off-by-one: the window may hold one failure too many. *)
AllowedOneMore(c) == fails[c] <= Limit

(* _login_rate_limit_check: 429 when the window is full; the refusal is not counted. *)
Allowed(c) == fails[c] < Limit

StartLogin(r, c, pc) ==
  /\ Resting(r)
  /\ Allowed(c)
  /\ Become(r, [Rest EXCEPT !.pc = pc, !.client = c])
  /\ UNCHANGED <<users, fails, up>>

(* A limiter that also counts the attempts it refuses. *)
LoginCountingRefusals(r, c) ==
  \/ StartLogin(r, c, "login")
  \/ /\ Resting(r) /\ ~Allowed(c)
     /\ fails' = [fails EXCEPT ![c] = Limit + 1]
     /\ UNCHANGED <<users, up, req>>

Login(r, c) == StartLogin(r, c, "login")

(* /api/auth/login waits for the body of the request after the check; an incomplete one *)
(* is a 400 that the limiter does not hear of.                                          *)
ApiLogin(r, c) == StartLogin(r, c, "body")

ApiLoginBody(r) ==
  /\ req[r].pc = "body"
  /\ Answer(r) \/ Become(r, [req[r] EXCEPT !.pc = "login"])
  /\ UNCHANGED <<users, fails, up>>

(* No such user or a wrong password: the failure is recorded. *)
LoginFailed(r) ==
  /\ req[r].pc = "login"
  /\ fails' = [fails EXCEPT ![req[r].client] = @ + 1]
  /\ Answer(r)
  /\ UNCHANGED <<users, up>>

(* A right password clears the client's failures. *)
LoginSucceeded(r) ==
  /\ req[r].pc = "login"
  /\ DOMAIN users # {}
  /\ fails' = [fails EXCEPT ![req[r].client] = 0]
  /\ Answer(r)
  /\ UNCHANGED <<users, up>>

(* A failure becomes older than the window. *)
Expire(c) ==
  /\ fails[c] > 0
  /\ fails' = [fails EXCEPT ![c] = @ - 1]
  /\ UNCHANGED <<users, up, req>>
-----------------------------------------------------------------------------
(* The process starts anew: requests and failures are forgotten, user 1 is seeded. The *)
(* startup fails when another user has the name the seed needs.                        *)
Restart ==
  /\ req' = [r \in Requests |-> Rest]
  /\ fails' = [c \in Clients |-> 0]
  /\ IF 1 \in DOMAIN users
     THEN up' = TRUE /\ UNCHANGED users
     ELSE IF NameTaken(SeedName)
          THEN up' = FALSE /\ UNCHANGED users
          ELSE up' = TRUE /\ users' = With(1, Seed)

Step(r) ==
  \/ CreateLookup(r) \/ Insert(r)
  \/ UpdateFind(r) \/ UpdateLookup(r) \/ UpdateWrite(r)
  \/ DeleteRow(r)
  \/ ApiLoginBody(r) \/ LoginFailed(r) \/ LoginSucceeded(r)

Arrive(r) ==
  \/ \E n \in Names, role \in Roles : RegisterUser(r, n, role)
  \/ \E n \in Names : ApiRegister(r, n)
  \/ \E by \in 1..MaxId, n \in Names, role \in Roles : CreateUser(r, by, n, role)
  \/ \E by, target \in 1..MaxId, n \in Names \cup {Keep}, role \in Roles \cup {Keep} :
       UpdateUser(r, by, target, n, role)
  \/ \E by, target \in 1..MaxId : DeleteUser(r, by, target)
  \/ \E c \in Clients : Login(r, c) \/ ApiLogin(r, c)

Next ==
  \/ \E r \in Requests : Step(r) \/ Arrive(r)
  \/ \E c \in Clients : Expire(c)
  \/ Restart

Spec == Init /\ [][Next]_vars

(* Time passes. *)
FairSpec == Spec /\ \A c \in Clients : WF_vars(Expire(c))
-----------------------------------------------------------------------------
Request ==
  [pc : {"rest", "lookup", "insert", "find", "taken", "write", "delete", "body", "login"},
   target : Nat,
   row : [name : Names \cup {Keep}, role : Roles \cup {Keep}],
   old : Row,
   admin : BOOLEAN,
   client : Clients \cup {NoClient}]

TypeOK ==
  /\ DOMAIN users \in SUBSET (1..MaxId)
  /\ users \in [DOMAIN users -> Row]
  /\ fails \in [Clients -> Nat]
  /\ up \in BOOLEAN
  /\ req \in [Requests -> Request]

(* No two users have one name, although every route looks the name up in one await and *)
(* writes it in another.                                                               *)
NamesUnique == \A i, j \in DOMAIN users : users[i].name = users[j].name => i = j

LoggingIn(c) == {r \in Requests : req[r].client = c}

(* The limiter is consulted before the awaits of a login and told after them, so it can *)
(* count more failures than its limit, but at most one more per concurrent request: the *)
(* logins under way are part of the sum.                                                *)
OvershootBounded ==
  \A c \in Clients : fails[c] + Cardinality(LoggingIn(c)) < Limit + Cardinality(Requests)

(* A client that was locked out is let in again, whatever it goes on trying. *)
LockoutEnds == \A c \in Clients : ~Allowed(c) ~> Allowed(c)

(* No update is lost to another: a user's name or role changes only to what the update *)
(* being committed asks for, and the role only on behalf of an administrator. A rename  *)
(* that loaded the row before a demotion does not bring the old role back when it       *)
(* commits after it, nor does it when the id was given to another user in between.      *)
ChangesAsOrdered ==
  [][\A id \in DOMAIN users \cap DOMAIN users' : users'[id] # users[id] =>
       \E r \in Requests :
         /\ req[r].pc = "write" /\ req[r].target = id
         /\ users'[id].name \in {users[id].name, req[r].row.name}
         /\ \/ users'[id].role = users[id].role
            \/ req[r].admin /\ users'[id].role = req[r].row.role]_vars
=================================================================================
