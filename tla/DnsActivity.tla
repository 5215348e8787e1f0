------------------------------- MODULE DnsActivity -------------------------------
(***************************************************************************)
(* The Activity tab: the poller that copies the DNS servers' log lines     *)
(* into dns_query_logs (src/api/dns_activity.py), the page of recent       *)
(* queries and the leak check that read them (src/api/main.py 1892-2042).  *)
(*                                                                         *)
(* A poll fetches the lines behind each container's cursor, moves the      *)
(* cursor in memory, and commits all of them at the end. A failed fetch is *)
(* tried again from the same cursor, a failed commit is not, and a restart *)
(* forgets the cursors and looks back a minute.                            *)
(*                                                                         *)
(* A line is [at, query]: whether it is the log of a query or one that the *)
(* parser drops. Lines of one moment are written before the poller sees    *)
(* that moment: two lines of one microsecond with a fetch between them are *)
(* left out. So is a container that gets another name, which the cache of  *)
(* _resolve_sibling_container would never notice.                          *)
(***************************************************************************)
EXTENDS Integers, Sequences, FiniteSets, FiniteSetsExt

CONSTANTS
  Sources,   \* DNS_SOURCE_SERVICES in their order
  LookBack,  \* how far the first poll of a process looks back (60 seconds)
  Window,    \* DNS_LEAK_CHECK_WINDOW_MINUTES
  PageSize,  \* DNS_QUERIES_PAGE_SIZE
  MaxPages,  \* DNS_QUERIES_MAX_PAGES
  MaxNow,    \* bound: the last moment
  MaxLines,  \* bound: lines of all containers
  MaxLives   \* bound: starts of the API

ASSUME SourcesAssumption == Sources \in Seq(STRING) /\ Sources # <<>>
ASSUME TimesAssumption == LookBack \in Nat /\ Window \in Nat
ASSUME PagesAssumption == PageSize \in Nat \ {0} /\ MaxPages \in Nat \ {0}
ASSUME BoundsAssumption == MaxNow \in Nat /\ MaxLines \in Nat /\ MaxLives \in Nat

VARIABLES
  now,    \* the time
  log,    \* the lines of each container
  since,  \* _last_since_epoch: the time of the last query seen, or Unknown
  from,   \* where the reading of each container began in this life of the process
  got,    \* all_entries: the lines of this poll, as <<source, index>>
  rows,   \* dns_query_logs: how many rows each line has
  lost,   \* the lines of polls whose commit failed
  pc,     \* 0: asleep; k: source k is next; Len(Sources) + 1: the commit
  lives   \* starts of the API so far

vars == <<now, log, since, from, got, rows, lost, pc, lives>>

S == DOMAIN Sources
Unknown == -1
DoneEarly == Len(Sources)
Done == Len(Sources) + 1
LinesOf(s) == DOMAIN log[s]

Init ==
  /\ now = 0
  /\ log = [s \in S |-> <<>>]
  /\ since = [s \in S |-> Unknown]
  /\ from = [s \in S |-> 0]
  /\ got = {}
  /\ rows = [s \in S |-> <<>>]
  /\ lost = {}
  /\ pc = 0
  /\ lives = 1

Tick ==
  /\ now < MaxNow
  /\ now' = now + 1
  /\ UNCHANGED <<log, since, from, got, rows, lost, pc, lives>>

(* CoreDNS answers a query, or logs something else. *)
Write(s, query) ==
  /\ Cardinality(UNION {{<<c, i>> : i \in LinesOf(c)} : c \in S}) < MaxLines
  /\ now > since[s]
  /\ log' = [log EXCEPT ![s] = Append(@, [at |-> now, query |-> query])]
  /\ rows' = [rows EXCEPT ![s] = Append(@, 0)]
  /\ UNCHANGED <<now, since, from, got, lost, pc, lives>>
-----------------------------------------------------------------------------
(* dns_activity_poller: the next round. *)
Wake ==
  /\ pc = 0
  /\ pc' = 1
  /\ UNCHANGED <<now, log, since, from, got, rows, lost, lives>>

(* The container cannot be resolved, or the log proxy does not answer. *)
MissMoving(s) ==
  /\ pc = s
  /\ pc' = pc + 1
  /\ since' = [since EXCEPT ![s] = now]
  /\ UNCHANGED <<now, log, from, got, rows, lost, lives>>

MissDropping(s) ==
  /\ pc = s
  /\ pc' = 0
  /\ got' = {}
  /\ UNCHANGED <<now, log, since, from, rows, lost, lives>>

Miss(s) ==
  /\ pc = s
  /\ pc' = pc + 1
  /\ UNCHANGED <<now, log, since, from, got, rows, lost, lives>>

(* The lines docker returns: behind the cursor, or of the last minute. *)
BehindAgain(s) ==
  {i \in LinesOf(s) : log[s][i].at >= IF since[s] = Unknown THEN now - LookBack ELSE since[s]}

Behind(s) ==
  {i \in LinesOf(s) : IF since[s] = Unknown THEN log[s][i].at >= now - LookBack
                                            ELSE log[s][i].at > since[s]}
Queries(s) == {i \in Behind(s) : log[s][i].query}

(* _poll_container: the cursor goes to the last query of the text, and stays unknown as *)
(* long as none was seen.                                                               *)
Fetch(s) ==
  /\ pc = s
  /\ pc' = pc + 1
  /\ got' = got \cup {<<s, i>> : i \in Queries(s)}
  /\ since' = [since EXCEPT ![s] = Max({@} \cup {log[s][i].at : i \in Queries(s)})]
  /\ from' = [from EXCEPT ![s] = IF since[s] = Unknown THEN now - LookBack ELSE @]
  /\ UNCHANGED <<now, log, rows, lost, lives>>

(* poll_dns_queries_once stores everything in one transaction, or nothing of it. *)
Commit ==
  /\ pc = Done
  /\ pc' = 0
  /\ rows' = [s \in S |-> [i \in LinesOf(s) |-> IF <<s, i>> \in got THEN rows[s][i] + 1
                                                                  ELSE rows[s][i]]]
  /\ got' = {}
  /\ UNCHANGED <<now, log, since, from, lost, lives>>

(* The exception ends the round; the cursors are where the fetches left them. *)
CommitFails ==
  /\ pc = Done /\ got # {}
  /\ pc' = 0
  /\ lost' = lost \cup got
  /\ got' = {}
  /\ UNCHANGED <<now, log, since, from, rows, lives>>

Restart ==
  /\ lives < MaxLives
  /\ lives' = lives + 1
  /\ since' = [s \in S |-> Unknown]
  /\ got' = {}
  /\ pc' = 0
  /\ UNCHANGED <<now, log, from, rows, lost>>

Next ==
  \/ Tick
  \/ \E s \in S :
       \/ \E query \in BOOLEAN : Write(s, query)
       \/ Miss(s)
       \/ Fetch(s)
  \/ Wake \/ Commit \/ CommitFails
  \/ Restart

Spec == Init /\ [][Next]_vars

(* The poller is never cancelled, and the log proxy answers every now and then. *)
FairSpec ==
  /\ Spec
  /\ \A s \in S : SF_vars(Fetch(s))
  /\ WF_vars(Wake \/ Commit)
-----------------------------------------------------------------------------
(* get_dns_leak_check: a peer behind source s that moves data is suspected when none of *)
(* its queries is among the rows of the window.                                         *)
RecentInZone(s) == \E i \in LinesOf(s) : rows[s][i] > 0 /\ log[s][i].at >= now + 1 - Window
Recent(s) == \E i \in LinesOf(s) : rows[s][i] > 0 /\ log[s][i].at >= now - Window
Suspected(s) == ~Recent(s)

(* get_dns_queries: the newest rows first, at most MaxPages pages of them. *)
RowIds == {<<s, i, n>> : s \in S, i \in 1..MaxLines, n \in 1..MaxLives}
Total ==
  Cardinality({r \in RowIds : r[2] \in LinesOf(r[1]) /\ r[3] <= rows[r[1]][r[2]]})
Capped == IF Total < MaxPages * PageSize THEN Total ELSE MaxPages * PageSize
TotalPagesFloor == Max({1, Capped \div PageSize})
TotalPages == Max({1, -((-Capped) \div PageSize)})

(* The row numbers a request for page p gets. *)
Page(p) ==
  LET page == IF p > MaxPages THEN MaxPages ELSE Max({p, 1})
      offset == (page - 1) * PageSize
  IN {k \in offset..(offset + PageSize - 1) : k < Total}
-----------------------------------------------------------------------------
Line == [at : 0..MaxNow, query : BOOLEAN]

TypeOK ==
  /\ now \in 0..MaxNow
  /\ log \in [S -> Seq(Line)]
  /\ since \in [S -> -1..MaxNow]
  /\ from \in [S -> Int]
  /\ got \subseteq {<<s, i>> : s \in S, i \in 1..MaxLines}
  /\ lost \subseteq {<<s, i>> : s \in S, i \in 1..MaxLines}
  /\ rows \in [S -> Seq(Nat)]
  /\ \A s \in S : Len(rows[s]) = Len(log[s])
  /\ pc \in 0..Done
  /\ lives \in Nat

(* A query the cursor has passed is in the table, or on its way there in this poll, unless *)
(* the commit of its poll failed or it is older than what this process looked back to:     *)
(* missed fetches, the other container's failures and restarts lose nothing.               *)
NothingSkipped ==
  \A s \in S : \A i \in LinesOf(s) :
    log[s][i].query /\ from[s] <= log[s][i].at /\ log[s][i].at <= since[s]
      => rows[s][i] > 0 \/ <<s, i>> \in got \cup lost

(* A line is stored at most once by every life of the process. *)
NoDuplicates == \A s \in S : \A i \in LinesOf(s) : rows[s][i] <= lives

(* A query ahead of the cursor gets into the table, unless its commit fails or the process *)
(* restarts.                                                                               *)
Ahead(s, i) ==
  i \in LinesOf(s) /\ log[s][i].query /\ since[s] # Unknown /\ log[s][i].at > since[s]
Settled(s, i) ==
  i \in LinesOf(s) /\ (rows[s][i] > 0 \/ <<s, i>> \in lost \/ since[s] = Unknown)
EventuallyStored == \A s \in S, i \in 1..MaxLines : Ahead(s, i) ~> Settled(s, i)

(* No peer is suspected of a leak whose query within the window the poller has dealt with. *)
NoFalseAlarm ==
  \A s \in S : Suspected(s) =>
    ~ \E i \in LinesOf(s) :
        /\ log[s][i].query /\ log[s][i].at >= now - Window
        /\ from[s] <= log[s][i].at /\ log[s][i].at <= since[s]
        /\ <<s, i>> \notin got \cup lost

(* The pages show the newest rows, each on one page, as far as MaxPages reach, and there *)
(* is no empty page behind them.                                                         *)
PagesCover ==
  /\ \A k \in 0..(Capped - 1) : Cardinality({p \in 1..TotalPages : k \in Page(p)}) = 1
  /\ Total > 0 => Page(TotalPages) # {}
=================================================================================
