# BartoloVPN in TLA+

TLA+ modules for the parts of BartoloVPN where the order of steps matters, TLC
configurations that check them on small instances, and TLAPS proofs of the main
results for every size of instance. File and line references are to the
repository (`src/`).

## 1. The system

One asyncio process, the API (`src/api/main.py`), with a SQLite database, serves
the dashboard and changes a box's VPN servers through files, subprocesses and
`docker exec`. A remote WireGuard server runs a small *region agent* that the API
calls over HTTPS. Coroutines interleave at every `await`; nothing else runs in
parallel inside a process. uvicorn runs with `--reload`, so a restart may come at
any `await`.

| component | state | operations | interacts with | hard behaviour | what makes it correct |
|---|---|---|---|---|---|
| **WireGuard peers** of a box (`VPNManager`, main.py 403-714, 1220-1263) | `peers/*.conf`, `wg_confs/wg0.conf`, the interface, routes, an asyncio lock | create, rename, delete, remove-all | `wg`, `wg-quick`, `ip` as subprocesses | four stores without a transaction, failing commands, restarts, one operation outside the lock | addresses exclusive, files = registrations, an "ok" is true, a delete hits its peer only, the lock comes back |
| **Regions and Oracle provisioning** (main.py 2950-3168, oracle_service.py, database.py 123) | `regions` table, detached tasks, instances at Oracle | register, provision, update, delete, terminate | OCI, agents, poller | a task that outlives its request and its row; ids that are reused; lost answers; restarts | no instance lost or terminated for another region, provisioning ends, slugs unique |
| **Region health** (region_service.py) | `health_status` | Check button, 60 s poller | Oracle, agents, the same rows | status read, two awaits, then written | a dead region is noticed, the poller survives deleted rows |
| **Region agent** (region-agent/) | like WireGuard peers; failed-key counts | peers, `/health` | API | fork of the code above; time-window limiter | as above; a lockout ends |
| **Peer requests to a region** (region_client.py, main.py 2532-2634) | none of its own | create, update, delete, list | agent | a 15 s timeout while the agent goes on; retries | nothing out of a delete's reach, nobody's address taken |
| **DNS activity** (dns_activity.py, main.py 1892-2042) | cursor per container, log table | poll, page of queries, leak check | docker log proxy | cursor moves before the commit; look-back after a restart | no line skipped, none stored twice, no false alarm |
| **Users and login** (main.py 2044-2429) | users, failure counts | register, login, update, delete | dashboard | check-then-write and load-then-commit across awaits | unique names, no update lost to another, the limiter's overshoot is bounded |
| **OpenVPN clients** (main.py 289-336, 777-1067) | PKI, `.ovpn` files | create, delete, disconnect, remove-all | docker exec | a script that works on after its request gave up, half-done revocation | what the server accepts can be revoked, what is offered works |
| **Uninstall** (main.py 1069-1218) | the configuration trees | uninstall WireGuard, OpenVPN, IKEv2 | all of the above | removes the trees without the lock | nothing is promised afterwards |
| **Settings export and import** (manage_settings.py) | tables | export, import | - | replace of many rows | round trip |
| **IP rotation** (ip_rotation.py) | endpoints, one task | rotate, start, stop | - | detached objects in a background task | stop stops |
| **Oracle network set-up** (oracle_service.py 191-325) | VCN, gateway, routes, subnet | `_ensure_network` | OCI | two provisionings at once | one network |
| Monitoring, IKEv2, dashboard JS, scripts | - | mostly reading, rendering, shell set-up | - | - | - |

`PROJECT.json` lists the same components with their status, and under `hazards`
every place found where this code could go wrong in a way a test would hardly
reach, with the properties that watch it.

## 2. Modules

| module | what it is |
|---|---|
| `PeerRegistry` | abstract: what the peer manager promises - durable registrations with exclusive addresses, and the part of them the tunnel serves |
| `WireGuardPeers` | the peer manager of one box, one action per stretch of code between two awaits |
| `MCWireGuardPeers` | its small instances |
| `WireGuardPeersProofs` | its theorems |
| `InstanceLedger` | abstract: the life of a rented machine, with no phase for "running and unknown" |
| `Regions` | regions table, provisioning tasks, health checks, poller, Oracle |
| `MCRegions`, `RegionsProofs` | small instances, theorems |
| `Accounts` | users table, the requests around it, login limiter, seeded administrator |
| `RegionCalls` | the dashboard's calls to a region's agent, composed with `WireGuardPeers` as the agent's box |
| `DnsActivity` | the DNS log poller with its cursors, the page and the leak check that read its table |
| `OpenVPNClients` | OpenVPN clients, the easyrsa scripts behind `docker exec`, certificates and revocation list |
| `MCAccounts`, ... and `AccountsProofs`, ... | small instances and theorems of these four |
| `MaxTheorems` | what `Max` returns, for everything that allocates "largest in use + 1", and least elements |

Abstract specifications: `WireGuardPeers` implements `PeerRegistry` and `Regions`
implements `InstanceLedger`. `RegionCalls` is made of the steps of `WireGuardPeers`,
so what is proved of the box holds of every agent.

A few definitions (`NoLock`, `FinishUncleared`, `RenameFileOnly`, `RecordLater`,
`DeleteKeepsRow`, ...) stand directly before the definition they vary and are
used by no action. They are the plausible mistakes each property is tested against: put in place of the
original, the run finds the property violated (`mutants` in `PROJECT.json`).

### 2.1 WireGuardPeers and the code

A peer is `[name, key, ip]`. `confs` are the conf files, `blocks` the `[Peer]`
blocks of `wg0.conf`, `live` the peers of the interface, `routes` the routes,
`up` whether the interface exists, `lock` is `wireguard_peer_lock`, and `task[t]`
says at which await request `t` is suspended.

| action | code |
|---|---|
| `Create` | lock, genkey, pubkey, live server key (503 without interface), reading the conf files up to the `await` of `wg show` (main.py 405-490) |
| `Allocate` | its answer, the address, conf file, block (485-540) |
| `Publish` / `AddRoute` / `Verify` | syncconf, `ip route add`, the second `wg show` (542-589), each with its error exit |
| `Delete` | lock, file, blocks by tag (643-692) |
| `Unpublish` / `DelRoutes` | syncconf, best-effort `ip route del` (694-714) |
| `Rename` | no await inside: file and tag in one step (603-639) |
| `RemoveAll` | no lock, no syncconf, no await (1220-1263) |
| `ApiRestart`, `HostRestart` | requests and lock are gone; after a host restart wg-quick loads `wg0.conf`, or nothing when it does not parse |

Choices. Keys are numbered as they are generated, which is their order in the
file; `Synced` uses that order, because `wg syncconf` gives an address claimed
twice to the later block. An octet above `LastOctet` makes the file unparsable.
The names a name is a prefix of are a constant (`Extensions`), since that is all
the tag match `"# NAME" in block` tells apart. The consecutive `ip route del`
calls of a delete are one step: nobody reads routes in between. Which commands
may fail for reasons outside the model is the constant `Faults`. Left out: QR
image, the `VPNConfig` row (the code deletes such rows and never inserts one),
the client's own AllowedIPs, creation of a missing `wg0.conf`.

`region-agent/wireguard_core.py` (119-389) is a fork of the same methods with the
same lock, awaits and edits, so `RegionCalls` takes the module for an agent's box.

### 2.2 Regions and the code

`rows` maps ids to rows (the local region has id 1 and is not modelled), `tasks`
are the detached `provision_oracle_region` coroutines by the number of the
region they were started for, `vms` are Oracle's instances, `work` what each
request and the poller wait for, `todo` the rest of the poller's round,
`reported` the instances an answer named as not terminated. `nth` in a row is
no column: it tells apart two regions that successively have the same id.
Ids are SQLite's for `INTEGER PRIMARY KEY` without AUTOINCREMENT: the largest
in use plus one.

| action | code |
|---|---|
| `Register`, `Registered` | create_region: slug lookup, `/health` of the agent, insert (main.py 2957-2993) |
| `Provision` | create_oracle_region (3002-3066) |
| `Update` | update_region: `is_active`, agent (3068-3091) |
| `Delete`, `Terminate` | delete_region: row, then instance (3093-3125, oracle_service.py 395-408) |
| `Check`, `PollRound`, `PollNext` | check_region_health, health_check_all_regions: load the row |
| `Checked` | the answer: `Write` only if the status differs from the loaded one (SQLAlchemy writes changed columns), `Stale` when the row is gone (StaleDataError) |
| `Launch`, `Record`, `StoreAgent`, `AgentHealthy`, `Fail`, `LaunchLost` | provision_oracle_region between its awaits (oracle_service.py 499-600) |
| `ApiRestart`, `Reclaim` | restart; Oracle ends an instance |

Choices. Database transactions, and consecutive ones with no other await between
them, are one step. Refused requests (400, 403, 404, 409) change nothing and are
no steps. The peer-count guard of the delete is left out with `peer_count`: the
dashboard offers to repeat a refused delete with `force`, which skips it. Health columns other than the status are
left out. `Faults` and `Admin` name what the environment may do: restart, lose
an OCI answer, reclaim an instance; switch a region on or off, point it at
another agent, delete a region while its task is running.

`Admin` matters: the code does not protect a running task from a delete. Runs
and theorems that need an administrator who waits leave "impatient" out, and two
violation runs show what happens otherwise.

### 2.3 Accounts and the code

`users` maps ids to `[name, role]`, `fails` counts the failures of a client within
the limiter's window, `req[r]` says between which awaits request `r` is, `up`
whether the API has started.

| action | code |
|---|---|
| `RegisterUser`, `ApiRegister` | both registrations up to the look-up of the name (main.py 2068-2091, 2204-2243) |
| `CreateUser`, `CreateLookup` | create_user: the caller's role, then the look-up (2300-2321) |
| `Insert` | the INSERT, refused by the UNIQUE column when the name was taken meanwhile (2093-2107) |
| `UpdateUser`, `UpdateFind`, `UpdateLookup`, `UpdateWrite` | update_user: rights, the row, the look-up of a new name, UPDATE of the changed columns (2359-2409) |
| `DeleteUser`, `DeleteRow` | delete_user: rights, then the row (2411-2429) |
| `Login`, `ApiLogin`, `ApiLoginBody` | limiter check, body, both login routes (2051-2059, 2109-2173) |
| `LoginFailed`, `LoginSucceeded` | counted, cleared (2127-2183) |
| `Expire`, `Restart` | the window; the process with create_default_admin (database.py 242-270) |

Choices. The loading of the row, the look-up of a new name and the commit of an
update are three steps. `old` is the row as loaded, and `Column` is SQLAlchemy's
change tracking: the UPDATE names a column only when its field was set to something
other than the loaded value, so two updates of one user write over each other only
where both mean to. `admin` is what an update keeps of its caller: a role is asked
for, and the caller was an administrator when the request began.

Administrators may demote and delete each other, all at once and in the middle of
each other's requests; a request keeps the rights it began with. So the dashboard
can end without an administrator. The code guards against none of this and nothing
in the repository promises that it does, so no property says otherwise. A restart
that finds user 1 gone and its name taken makes the INSERT of the seed fail, and
with it the start (database.py:251): `up` becomes FALSE. No property excludes that
either. E-mail addresses only make a write fail; `is_active` is read by no route.

### 2.4 RegionCalls and the code

`call[t]` is a handler of the agent, `fails` and `keyOk` its key limiter and
whether the dashboard has the right key; all other variables are the box of
`WireGuardPeers`, which `Agent == INSTANCE WireGuardPeers` takes over.

| action | code |
|---|---|
| `AskCreate`, `AskUpdate`, `AskDelete` | the dashboard's routes and RegionClient (main.py 2532-2634, region_client.py 45-67), admitted by require_agent_key (agent.py 36-58) |
| `ListPeers`, `Health`, `PeerStats`, `GetPeerConfig` | the reading handlers, one file per await (wireguard_core.py 60-117, 391-440) |
| `CreatePeer`, `DeletePeer`, `UpdatePeer`, `NextPeerIp`, `AddPeerToServer`, `RemovePeerFromServer` | the handlers under the lock, by the actions of `WireGuardPeers` (119-389) |
| `ReadFile`, `Reply` | the next file, or the error when it is gone; the answer |
| `WrongKey`, `FixKey`, `Expire` | the limiter |
| `AgentRestart`, `BoxRestart` | restarts of process and machine, perhaps with a new key |

Choices. The client's 15 s timeout is no action: a handler is not cancelled by it,
so giving up changes nothing at the agent, and what the dashboard asks next may
arrive at any moment of the handlers still at work. A request that is lost does not
arrive. So retries, duplicates and reordering are all interleavings of handlers.

### 2.5 DnsActivity and the code

`log[s]` are the lines of container `s`, `since[s]` the cursor, `from[s]` where this
life of the process began to read, `got` the lines of the poll under way, `rows` how
often each line is in the table, `lost` the lines of failed commits.

| action | code |
|---|---|
| `Write`, `Tick` | CoreDNS and the clock (external) |
| `Wake`, `Fetch`, `Miss` | the round; `_poll_container` with its cursor; a container or proxy that does not answer (dns_activity.py 45-186) |
| `Commit`, `CommitFails` | one transaction for all containers (188-205) |
| `Restart` | the cursors are forgotten, the first poll looks back 60 s |

`Recent`/`Suspected` is the leak check (main.py 1900-1952), `Page`, `Capped`,
`TotalPages` the page of queries (1968-2026). Left out: lines of one microsecond
with a fetch between them, a container that changes its name, a tie in the sort
order, rows added between the requests for two pages.

There is one clock, `now`. The code has two: the leak check takes `datetime.now()`,
local time (main.py:1900), and the rows are UTC without a zone (dns_activity.py:193).
They agree in the shipped API container, whose image and compose file set no zone, and
there `NoFalseAlarm` says what the leak check does. In a zone east of UTC the window
starts after every row, and the property fails as it does for its mutant
`RecentInZone`.

### 2.6 OpenVPNClients and the code

`ovpn[n]` is the certificate in `clients/n.ovpn`, `pki[n]` the key pair easyrsa has
for the name and whether it is signed, `issued`, `revoked` and `crl` are its index
and the published list, `script[s]` a script in the container with the request that
waits for it, if one still does, and `task[t]` what request `t` waits for.
`disturbed` is a history variable: the certificates whose removal met a failing or
abandoned script, a restart, or other work on the same name. The code promises
nothing of these, and the properties leave exactly these out.

| action | code |
|---|---|
| `Create`, `Created` | create_openvpn_client up to build-client-full, and from its exit (main.py 878-1018) |
| `Delete`, `Revoked`, `Deleted` | revoke, gen-crl if it worked, removal of the files in any case (1022-1067) |
| `Disconnect`, `Disconnected` | disconnect_client: status log, then the same delete (1840-1860) |
| `RemoveAll` | what DELETE .../clients/all really does (2712, 2774) |
| `GiveUp` | the 30 s of `_docker_exec` are over, the script works on (859-868) |
| `MakeKey`, `Sign`, `Revoke`, `GenCrl`, `Fails` | easyrsa (external), as the calls expect it |
| `ApiRestart` | requests are gone, scripts are not |

## 3. Runs

| run | expected | states | shows |
|---|---|---|---|
| `peers` | pass | 115,031 | type, `UniqueAddresses`, `ServedToOwner`, `FilesAgree`, `CreateOkUsable`, `DeleteExact`, `RequestsFinish`, refinement of `PeerRegistry` |
| `peers_prefix` | violation | - | deleting `abc` cuts off `abcd` (main.py:685) |
| `peers_remove_all` | violation | - | remove-all answers success and the peers are still served (main.py:1236) |
| `regions` | pass | 160,645 | type, `ProvisioningOwned`, `NoOrphans`, `ProvisioningResolves`, `DeadRegionNoticed`, refinement of `InstanceLedger` |
| `regions_faults` | pass | 653,585 | `SlugsUnique`, `TerminationSafe` under every fault and an impatient administrator |
| `regions_orphan` | violation | - | a delete during launch leaves an unknown running instance (main.py:3110) |
| `regions_stranger` | violation | - | the task of a deleted region writes to the region that got its id (oracle_service.py:490) |
| `accounts` | pass | 2,057,396 | type, `NamesUnique`, `OvershootBounded`, `ChangesAsOrdered`, `LockoutEnds` |
| `region_calls` | pass | 158,976 | type, `Reachable`, `ServedStays`, `DeleteSettles`, `HandlersEnd`, `LockoutEnds` |
| `dns` | pass | 395,538 | type, `NothingSkipped`, `NoDuplicates`, `NoFalseAlarm`, `PagesCover`, `EventuallyStored` |
| `openvpn` | pass | 707,343 | type, `AcceptedRevocable`, `NoDeadConfigs`, `CreatedUsable`, `DeleteCutsOff`, `RequestsAnswered` |
| `openvpn_remove_all` | violation | - | removing all clients removes none (main.py:2774) |

Properties, where the name does not say it. `CreateOkUsable` and `DeleteExact`
are about the step that answers "ok": what the answer claims is true of the
interface, the routes and the files at that moment. `DeleteExact` also says that
everybody who keeps a conf file keeps being served. `ServedToOwner` is about what
a failed syncconf or a remove-all leaves on the interface: a key that no file names
any more is still served, but never at an address given out since.
`TerminationSafe` relates
rows, tasks and pending terminations: an instance id is held in one place.
`ProvisioningOwned` is what the Check button tells the administrator.
`NoOrphans` is the purpose of storing the instance id first (the incident in
oracle_service.py 560-568). `DeadRegionNoticed` depends on a chain that a stale
write or a StaleDataError could break in every round. `OvershootBounded` is the
limiter's real bound: its check and its count are awaits apart. `ChangesAsOrdered` is
about lost updates: a rename that loaded the row before a demotion and commits after
it leaves the user demoted, also when the id has another owner by then. It does not
say that the right user is changed, which id reuse can prevent. `ServedStays`
compares each step's registrations with the interface before and after, so a retry
that takes an address shows. `NothingSkipped` says of every query behind the cursor
where it is. `AcceptedRevocable` says of every certificate the server accepts that
a delete still finds it; builds that hang, fail or are given up do not break it.
`DeleteCutsOff` is the other end: when a delete that revoked answers, the server
refuses the client's certificate, however the steps of two requests and abandoned
scripts mix.

### Bounds

- `peers`: two requests (three would add only waiting for the lock; `RemoveAll`,
  the one operation outside it, runs beside a locked one with two), three names,
  one provisioned peer, `MaxKey = 4` so three creates, `LastOctet = 4` so the
  third create overflows. Creates of one name, overwrites, deletes of an
  overflowing peer and every restart point occur.
- The crash of a process between the conf file and the block (main.py 448-540) is not
  in `peers`: there is no await between them, and they are one step.
- `regions`: two regions ever created, which is what id reuse needs; one
  instance, so the second launch finds no capacity; one request beside two tasks
  and the poller. Liveness needs this small an instance.
- `regions_faults`: two requests, two instances, two regions, all three faults;
  slugs, instances and requests are symmetric, which is sound because the run
  checks invariants only.
- `accounts`: two requests, which is every race of two look-ups; two names of which
  one is the seed's; ids up to 3, so ids are reused; `Limit = 2` with one client, so
  two logins overshoot it. Demotions, crossing deletes and restarts occur everywhere.
- `region_calls`: two handlers, two names, two keys, no provisioned peers, so only
  octets 2 and 3 are given out and `LastOctet = 3` is never passed: overflow is left to
  `peers` and to the proofs. `AuthLimit = 1`; `wg show` and `wg syncconf` may fail. A
  retry is a second create of the same name beside or after the first one.
- `dns`: two containers, three lines, three moments, two lives; look-back and window
  of one moment, pages of two rows, at most two of them, so a third row on a second
  page, and rows stored again after a restart, occur.
- `openvpn`: two requests, two scripts, two names, two key pairs, so a script that
  was given up works beside a request for the same name, and a name is created
  again after its delete.
- The violation runs use the same sizes with only the fault they need.

`MaxKey`, `MaxRegions`, `MaxId`, `MaxNow`, `MaxLines`, `MaxLives`, `MaxScripts` and
`MaxCerts` are the only bounds on counters; each is a guard of the action that
counts, and the proofs hold for every value.

### Fairness

`WireGuardPeers!FairSpec`: a subprocess that was started ends and its coroutine
is resumed (the code sets no timeout; it relies on `wg` and `ip` ending). No
request is ever forced to start. `Regions!FairSpec`: a task's wait, a request's
wait and the poller go on, since OCI calls and agent requests have timeouts, both
polling loops have deadlines and the poller sleeps 60 s. Which of the outcomes
occurs is left open. Restarts are excluded from the liveness run of regions,
because a dropped task is gone for good: a region that was being provisioned stays
in `provisioning`, the Check button refuses it (main.py:3151), and it can only be
deleted.

`Accounts!FairSpec`: time passes. `RegionCalls!FairSpec`: `asyncio.Lock` is first
come, first served, hence strong fairness for `Begin`; a handler's awaits end; time
passes. `DnsActivity!FairSpec`: the poller catches every exception and is never
cancelled; a log proxy that is asked again and again answers some time (strong
fairness of `Fetch`; ticks and lines are bounded, fetches are not).
`OpenVPNClients!FairSpec`: a request goes on when its script has ended, or gives up
when its 30 s are over. Nothing is assumed of the scripts; any of them may hang.

## 4. Proofs

All theorems hold for every number of requests, names, regions, instances and
every bound; `NamesAssumption`, `TasksAssumption`, `MachinesAssumption`,
`WorkersAssumption`, `BoundsAssumption`, `NoRowAssumption` and their like only say
that sentinels differ from values and that bounds are naturals; `LimiterAssumption`
adds that requests are finitely many, `SourcesAssumption` that the containers are a
sequence. TLC evaluates all of them in the runs.

`WireGuardPeersProofs`
- `TypeCorrect`.
- `AddressesUnique` (if `wg show` never fails, or no peers are provisioned).
  Uniqueness is not inductive: it needs to know why the next address is free. The
  strengthening `AddressInv` says that a create waiting for `wg show` has already
  read the address of every conf file there is (`SeenStillAll`), and that every
  registered address has a conf file of the same name with an address at least as
  high, or, on a box with provisioned peers, is served (`Vouched`). So the largest
  address seen plus one is above every registered one, whatever a remove-all does
  meanwhile. Provisioned peers have no conf file: they are why a failing `wg show`
  matters on their box and not on an agent's.
- `AddressesServeTheirOwner` (if `wg show` never fails): what is served at a
  registered address is the registered peer. After a remove-all the interface still
  serves peers that no file knows, so here the hypothesis cannot be traded.
- `FilesAlwaysAgree` (if no name is a prefix of another, which `peers_prefix`
  shows to be necessary).
- `CreatesUsable`, without hypotheses, from `CreateInv`: as long as no remove-all
  has taken its file, a create has at each await written, published and routed its
  peer as far as the code says.
- `DeletesExact`, under the conditions of uniqueness and of `FilesAlwaysAgree`, from
  `DeleteInv`: the addresses a delete removes are nobody else's, and once it has
  called syncconf the interface serves exactly who is left.
- `ImplementsRegistry`, if `wg show` never fails and no name is a prefix of another,
  step by step from the same invariants. The registry gives out only addresses nobody
  is served at, hence the first hypothesis.
- `LockNeverLeaks` and `WorkAlwaysShrinks`: the lock is held by a request at work, and
  a request at work only comes nearer to its answer.

`RegionsProofs`
- `TypeCorrect`, with `Counted` (ids and tasks never outrun the regions
  created), which bounds the id SQLite picks.
- `SlugsStayUnique`, from a summary lemma: every step edits rows in place,
  inserts one with a free slug, or deletes one.
- `TasksOnlyAdvance` and `RoundsAlwaysShrink`: tasks and rounds of the poller have a
  measure that each of their steps lowers and nobody else raises.
- `DeletesAreSafe` (`TerminationSafe`), under every fault. The inductive
  `ClaimInv` follows the claim on an instance from task to row to request: never
  two at once, and none on an instance not launched. Steps are split into those
  that move a claim and those that move none (`QuietOrMoving`).
- `ProvisioningHasTask` (no restarts).
- `TasksKeepTheirRegion` (no delete under a task), through `OwnRegion`.
- `NothingOrphaned` and `ImplementsLedger` (no restart, no lost answer, no delete
  under a task): with `ClaimInv` and `OwnRegion` every step moves one
  instance one phase on, or none.

`AccountsProofs`
- `TypeCorrect`, with `RowsWhole`: a request about to write has a complete row.
- `NamesStayUnique`, from a summary of every step on the table: an insert of a free
  name, a rename to a free one, a delete, the seed.
- `OvershootStaysBounded`. Inductive as stated, because the logins under way are part
  of the sum: a login starts below the limit, and one that fails moves its client
  from one summand to the other. The work is in the cardinalities.
- `LockoutAlwaysWanes`, with the same cardinalities: a locked-out client's count can
  only fall.
- `ChangesStayOrdered`, from `RolesAllowed`, that an update about to commit sets a role
  only for an administrator, and from the same summary: of the rows that stay, only
  an UPDATE changes one, and `Column` leaves what the request did not set.

`RegionCallsProofs`
- `TypeCorrect`. Every step is by construction a step of `WireGuardPeers` or leaves its
  variables alone; the lemma `RunsBox` says so, and is no result about the agent.
  Through it the theorems of `WireGuardPeersProofs`, which is
  instantiated, hold of every agent: `AgentAddressesUnique`, `AgentCreatesUsable`,
  `AgentDeletesExact`, `AgentServesOwners`, and `AgentImplementsRegistry`, the
  refinement composed of both.
- `AlwaysReachable` (no provisioned peers, as in a region's compose file).
- `ServedAlwaysStays` (if `wg show` never fails, or no peers are provisioned): uses the
  uniqueness of addresses proved of the box.
- `QueueIsServed`: the lock is held by a running handler between its awaits.
- `DeletesSettle`, from `DeletesHold`: between the steps of a delete nobody else holds
  the lock, so what it removed under its name stays away until its last step.

`DnsActivityProofs`
- `TypeCorrect`, `CursorSkipsNothing`, from it `AlarmsAreTrue`, and `NoLineTwice`,
  whose strengthening `OneRowPerLife` separates what is behind the cursor from what is
  ahead of it: a line ahead, or in this poll, has no row of this life yet.
- `PagesAlwaysCover`: no induction, but division. `PageSize` is unknown, and the
  solver has no products of unknowns, so `Scaled` and `PageOf` supply the few
  facts about multiples that the pages need.
- `QueriesAreNeverDropped`.

`OpenVPNClientsProofs`
- One inductive invariant `Inv` with a conjunct per idea: a script that is waited
  for has one owner (`Ownership`), a key pair one name (`KeysApart`), abandoned
  revocations only touch disturbed certificates (`OrphansHarmless`), what is revoked
  and still readable is being deleted (`RevokedGoing`), a create and a removal have
  met (`BuiltMeets`), files are removed of revoked certificates only
  (`RemovedRevoked`), and revocations are published (`Publishing`) or not needed
  (`Kept`); `Room` bounds the key pairs by the builds let in. From it `TypeCorrect`,
  `AcceptedStaysRevocable`, `NoConfigIsDead` and `CreatedIsUsable`.
- `DeletesCutOff`, with one more invariant, `Published`: a delete that has generated
  the list has published what it removes. It holds because what is removed was
  revoked (`RemovedIsRevoked`, from `Kept`, `KeysApart` and `RemovedRevoked`) and
  because a create that would put a new certificate in between is noted (`BuiltMeets`).
- `EveryWaitIsHeard`: a request that waits owns a script.

Only model-checked: liveness, because ENABLED and fairness are beyond the installed
provers. Every other property of the passing runs is proved. Of each liveness
property the half that is safety is proved as well, that whatever is waited for is
there and that nothing moves away from the goal; fairness, which only TLC uses, is
what remains:

| liveness, model-checked | its safety half, proved |
|---|---|
| `RequestsFinish` | `LockNeverLeaks`, `WorkAlwaysShrinks` |
| `HandlersEnd` | `QueueIsServed` |
| `ProvisioningResolves` | `ProvisioningHasTask`, `TasksOnlyAdvance` |
| `DeadRegionNoticed` | `RoundsAlwaysShrink` |
| `LockoutEnds` (both) | `LockoutAlwaysWanes` (of `Accounts`) |
| `EventuallyStored` | `QueriesAreNeverDropped` |
| `RequestsAnswered` | `EveryWaitIsHeard` |

## 5. Where the code and its own words disagree

Each is a violation run; `findings` in `PROJECT.json` quotes the lines.

1. Deleting a peer also deletes those whose names start with its name.
2. Remove-all reports success without touching the interface.
3. Deleting a region in provisioning orphans the instance its delete is meant to
   terminate.
4. A provisioning task may update another region than "that row".
5. Removing all OpenVPN clients removes at most a client called "all": the route for
   one client is declared first.

Met while modelling, and stated by nobody, so no run claims them: a restart leaves
a region in provisioning for ever; administrators can delete or demote each other at
the same moment, and the last one himself, until none is left; the API does not start
when user 1 is gone and its name is taken; a failed commit loses the DNS lines behind
the moved cursor; with a failing `wg show` a create may take the address of a
provisioned peer, or one at which a removed peer is still served. `hazards` lists each
at its line.

## 6. Plan

Done: 1 `PeerRegistry`/`WireGuardPeers`, 2 `InstanceLedger`/`Regions`, 3 `RegionCalls`,
4 `DnsActivity`, 5 `Accounts`, 6 `OpenVPNClients`, each with proofs.
What could follow:

7. `OracleNetwork`: look-up-or-create of VCN, gateway, route and subnet by two
   provisionings at once.
8. Settings import as one transaction beside other requests.

## 7. Not modelled

- Oracle network set-up (oracle_service.py 191-325): its steps would be a module of
  their own; `Regions` starts at the launch.
- Uninstalling a service (main.py 1069-1218): after attempts to stop the container,
  which the code itself calls a no-op in the shipped image, the configuration tree is
  removed, without the peer lock. What a request beside it or after it finds is
  promised nowhere. All modules and theorems assume that nobody uninstalls.
- IKEv2: status reading and a bulk file removal.
- Settings export and import: a sequence of row writes in one transaction.
- IP rotation: a placeholder by its own words; it changes a counter in memory.
- Statistics, WebSocket, rendering, QR codes, the dashboard's JavaScript: reading
  and formatting.
- Scripts and installers (`vpn-setup.py`, `scripts/`): sequential set-up of a machine.
- Cryptography of keys, passwords and tokens.
- Other tables of the database: written once or never.
