# A TLA+ model of openvpn-server

This directory holds TLA+ specifications of the concurrent and fault-exposed
parts of the repository, TLC configurations that check them on small instances,
and TLAPS proofs of the most important invariants for every value of the
constants. Everything is translated from the source; `PROJECT.json` maps each
definition to its lines.

    tlc -workers 2 -config MCCollector.cfg MCCollector   # model-check one run
    tlapm CollectorProofs.tla                            # check one proof module

## The system

| Part | Source | What it holds and who calls it | Module |
|---|---|---|---|
| Relay: authorization | `relay/auth.go` | the policy map and check slots; called by every handler and watcher | `Authorizer`, `RelayAuth` |
| Relay: admission and books | `relay/main.go`, `limits.go`, `activity.go`, `sessions.go`, `clients.go` | slots, quotas, session and client tables | `RelayFlow` |
| Relay: watch | `relay/main.go` | one ticker per open flow | `RelayWatch` |
| Relay: dialling | `relay/policy.go`, `responses.go` | a race of dials per destination | `RelayDial` |
| Relay: proxying | `relay/http2.go` | three goroutines per stream | `RelayStream` |
| OpenVPN and its hooks | `bin/client-access.sh`, `bin/oath.sh` | lease files, used and wrong codes; OpenVPN runs the hooks one at a time | `ClientAccess`, `OneTimeCode` |
| Supervisor | `docker-entrypoint.sh`, `bin/healthcheck.sh` | `STOP`, `OVPN_PID`, `UNHEALTHY`; traps, a minute loop, the lease reaper, log rotation | `Supervisor`, `ClientAccess`, `Collector` |
| Certificates and access | `ui/app/main.py`, `pki.py`, `relay.py`, `bin/*.sh` | `pki/`, relay credentials, portal accounts, share links | `ClientLifecycle` |
| Addresses and server configuration | `ui/app/network.py`, `settings.py`, `pki.py` | `server.conf`, `settings.conf`, `proxies.conf`, static IPs, guests | `AddressPlan` |
| Profiles | `ui/app/pki.py`, `main.py`, `bin/mkovpn.sh` | `.ovpn` files and what they are built from | `Profiles` |
| Sign-in | `ui/app/auth.py`, `main.py` | sessions, live streams, the throttle | `WebSessions`, `LoginLimiter` |
| Profile signer | `signer/service.py`, `ui/app/relay_services.py` | a cached certificate, connection and request slots | `ProfileSigner` |
| Collector | `ui/app/collector.py`, `db.py`, `mgmt.py` | one thread; sessions, traffic and the log position | `Collector`, `Traffic`, `Visits` |
| Relay history | `ui/app/relay_history.py` | one thread; rows of the relay's sessions | `RelayHistory` |
| Management client | `ui/app/mgmt.py` | one socket shared under a lock | `Management` |
| Watchdog | `ui/app/watchdog.py`, `collector.py` | the heartbeat, `/healthz`, the end of the process | `Watchdog` |
| Backups | `ui/app/backup.py` | archives, made and pruned | `Archives` |
| Operator tools | `ui/app/migrate_db.py`, `bin/recover-checkout.py` | cut short and run again | `Migration`, `Recovery` |
| Front end, metrics, portal page, one-shot tools | `ui/app/static`, `relay/metrics.go`, `relay/portal.go`, `bin/*.py` | no state the server depends on | none |

A relay request passes `RelayFlow`'s admission, is authorized through
`RelayAuth`'s cache (whose contract is `Authorizer`), dials its destination
(`RelayDial`), and lives under `RelayWatch`'s ticker while `RelayStream` copies
its data. An OpenVPN connection shows its code (`OneTimeCode`), gets an address
in `ClientAccess` out of the plan of `AddressPlan`, lives in a process that
`Supervisor` keeps running, and is recorded by `Collector`, which reads the
status file and log that OpenVPN writes and the supervisor rotates.

## Modules

A definition in front of one of the same form (`CountedAgain` before `Counted`)
is a seeded fault: the specification does not use it. Put in place of the
definition that follows, it makes a property fail, which shows that the property
depends on that code. `PROJECT.json` lists them under `mutants`.

The modules whose state is really shared are composed for that reason:
`RelayWatch` runs on `Authorizer`, `ClientAccess` holds hooks, reaper and
administrator, `Collector` holds OpenVPN, its files and the supervisor's
rotation, `ClientLifecycle` the scripts, the handlers and the policy service.
The MC modules (`MCConnections`, `MCAccess`, `MCAdministration`, `MCServices`,
`MCCollector`) only put components without common state into one run: `scene` is chosen at first, and a behaviour is one of that
component. Each component keeps its type invariant (`TypeOK`, `DialTypeOK`, …);
they hold, and can be added to the `.cfg` of the run.

### Authorizer, RelayAuth: one policy check for many callers

`Authorizer` is the abstract promise of `relayServer.authorize`: a call returns
within `CheckTimeout`; a policy it returns was valid at most `PolicyAge` before
(less than `CheckTimeout + TTL`, or `CheckTimeout` when nothing is cached, `TTL =
0`); a denial is at most `CheckTimeout` old. `RelayAuth` is `auth.go`:
`AuthorizeShared`, `AuthorizeNew` and `AuthorizeUncached` are the branches of
`authorize`; `CheckStart` … `Timeout` are `authorizeBackend` with its slots,
retries and deadline; `Wake` and `CancelWaiting` are the two branches of the
selects in which `authorize` waits for an entry. Entries are pointers, so waiters keep an entry that the map has dropped, and unreferenced
entries are collected and reused. The policy service is a variable that an
administrator changes at any time; it is read (`Evaluate`) and its answer
received (`Receive`) in separate steps. `checkReadiness`, and `waitForPolicy`
which polls it before the listener opens, change no state.
Policies with an empty client name are not distinguished.

### RelayWatch: how long a flow outlives its permission

Built on `Authorizer`, so it uses nothing of the cache but what the refinement
shows. A handler is authorized (`Request`, `Authorized`, `Admit`/`Reject`), sets
up its destination (`Dialled`/`End`), and its watcher re-authorizes it at every
tick (`Fire`, `Keep`/`Close`). Time is in whole seconds and does not pass while
a timer is due or a goroutine can run.

### RelayFlow: admission and books

`ServeHTTP` as a sequence of stages per handler with its early returns, and the
deferred calls in reverse order as separate steps (`ReleaseQuota`,
`ReleaseSlot`, `Finish`). `begin`, `record`, `connected` and `finish` update the
session and client tables, including the eviction of history. The outcomes of
authorization, policy and dialling are choices. Because `finish` runs last, the
diagnostics can show more open flows than `MaxFlows` for a moment; no property
denies that. Byte counts are left out.

### RelayDial: the race of dials

`dialTCP` and `connectTCP`: a goroutine per address that waits for its turn,
dials and offers the result (`StartDial`, `Connects`, `DialFails`,
`LoserLeaves`), and the caller that takes results (`TakeConn`, `TakeError`),
hangs up with its context or races once more after a refusal. In which order the
staggered timers are served is left open, which admits more than the code does.

### RelayStream: how a stream ends

`watchHTTP2`, `proxyHTTP2TCP` and `proxyHTTP2UDP`: the handler, the upload and
the watcher share the connection, the body and the ResponseWriter; `abort` is
`sync.Once` in steps, so a second caller waits for the first. The peers may end,
vanish or block at any time. A destination that has answered in full and then
resets the connection can still have its stream reset by the upload's write
error; `StreamClean` allows that, as the destination broke the connection.

### ClientAccess: one address per device

`Connect`, `TurnAway` and `Disconnect` are the hooks; each is one step because
OpenVPN runs them synchronously. `ReapLeases` is the reaper's decision (its test of
the status file's age, the read of the client list and the `find` over old
leases) and `Release` each removal after it: devices may connect in between.
`OpenVPNExits` and `OpenVPNStarts` are its end and `prepare_access`; the
administrator changes guests and static addresses at any time. Two devices never share a
source port; a lease of a connection OpenVPN turned away belongs to `Nobody`.
IPv6 pushes and an exhausted dynamic pool are left out. That static addresses
lie outside the pool and the guest range is assumed here and is what
`AddressPlan` shows.

### OneTimeCode: used and wrong codes

`oath.sh` for one client, in the 30-second steps of TOTP. The state files are in
`/tmp`; a container that is created anew starts without them, which is not
modelled.

### ClientLifecycle: a client's certificates and access

One client name from creation to deletion: `create`, `renew`, `revoke`,
`revoke-previous`, `delete`, the relay profile, the portal account, the one-time
link. Handlers are sequences of steps between which other requests run, and any
step may be the last. `index.txt`, `issued/`, `renewed/`, the CRL, hidden
certificates, the credential and the account are variables; easy-rsa's commands
are atomic, `revoke.sh` is not. People are told apart: each certificate carries
the person it was first made for.

`AccessStaysBehind` is about behaviours in which no handler had its certificate
changed while it was at work (`raced`). With a race it fails: the renewal's last statement (`main.py:887`) moves the portal account to
whatever certificate now has the name, also when the client was deleted and
created again meanwhile, although the comment at `main.py:735` says that access
of an earlier client stays behind. Two faults in a row are exempt as well
(`link.left`): a revocation cut short before it drops the links
(`main.py:865`) leaves one in place, and when the creation that follows is cut
short after `genclient.sh` and before it drops them (`main.py:737`), the old
link yields the new client's profile. The proof attempt found this; with one
fault it cannot happen. Killing the live connection after a
revocation, and the uniqueness of account names, are not modelled.

### AddressPlan: static IPs, guests and three files

`save_settings` validates, then locks, then replaces `server.conf`,
`settings.conf` and `proxies.conf`; the editor, `set_static_ip`, `set_guest`,
`create` and `delete` run in between. `StaticsUsable` exempts a plan overtaken
between validation and lock (`network.py:366`) and changes by the editor.
`ConfigSurvives` holds for one crash: the edit that repairs an empty
`server.conf` copies the empty file over the backup first.

### Profiles: what a downloaded profile is built from

Protocols and control channel of `server.conf`, remotes of `client.conf`, the
2FA secret. Handlers change these under `pki.lock` and rebuild profiles one at a
time, partly without the lock. A control channel changed in the editor does not
rebuild them; the property says so.

### WebSessions, LoginLimiter: signing in

`WebSessions` has one account: `login` (verify, rehash, insert), `logout`,
`change_password`, removal, sliding expiry, and streams that recheck their
session. A sign-in that verified the old password before a change and inserts
its session after it (`main.py:468`) is exempt (`crossed`). `LoginLimiter` is
the throttle over the keys `address` and `address|user`, with forgetting and the
bound on keys.

### ProfileSigner: signed relay profiles

`sign_profile` and the service: connections, slots, the cached identity, a store
that Traefik rewrites at any moment, the UI's own timeout and verification. Each
rewrite is assumed to change the store's inode, time or size.

### Collector: sessions and traffic

`PollFile`, `PollManagement`, `PollDown` and `PollFails` are the outcomes of one
`poll` in `run`; `ReadLogs`, `ReadLogsFails` and `Describe` those of
`read_logs`; `Run` and `Crash` the start and death of the UI. A transaction is
one step, applied or rolled back, while `_active`, `_pending`, `_status_time`
and `_resync` keep what the code leaves in memory. OpenVPN, its status file, its
log and the supervisor's truncation of the log run concurrently (`Server`). The
log position is in lines; the two logs are one. `MidWrite` says whether
`read_status_file` may find the file half written three times in a row, so that
`poll` turns to the management interface although the file is current.

After a poll that raised an exception, the next one also closes the rows that are
not in `_active` (`Synced`). With nobody connected that statement ends in `id NOT
IN ()`, which PostgreSQL refuses (`Refused`), and the poll is rolled back as well
(`RollBack`): `ResyncCloses` fails. `_describe_sessions` takes a handshake out of
`_pending` when its session has a row or when it is older than `PENDING_MAX_AGE`
(`Age`); a failed transaction stops it part way.

A handshake is lost (`lost`) when an earlier transaction has read its line, so
that it is not read again, and it is then dropped from memory without a row: the
UI ends, the transaction that reads the last line of the connection fails after
taking the handshake out of `_pending`, or it grew too old. `LinesApplied`
excepts exactly these; `ShortSessionsRecorded`, the sentence of the repository's
README, does not and fails.

Two things the model shows that no property denies: a short session recorded
from the log gets a second row if a status file that still lists it is polled
afterwards (`collector.py:228`), and sessions that `run` fails to close at start
stay open until the next failed write or restart (`leftover`,
`collector.py:149`).

### Traffic, Visits, RelayHistory: what is made of the rows

`Traffic` has minute, hour and day buckets with `rollup`,
`archive_client_history`, `totals`, `series` and the browser's ranges and
charts, checked against the bytes that were really added, second by second. Time
is finer than a bucket: `poll` adds to the bucket of the running minute, while the
24 h range starts at any second, so that range has the bytes from the first whole
minute in it. `Visits` compares `session_group`, applied at each connection, with
`group_sessions`, applied to all rows. Sessions are stored in any order; the two
agree when those of one address are stored in turn, and when they are not, a visit
can hold sessions that are hours apart (`VisitsWithinGap`). `RelayHistory` is the
thread that copies the relay's bounded list of sessions, with restarts on either
side and failing writes, for one client with one credential. Rows of the relay
that name no client or credential, which `record` skips, and the deletion of rows
after a year are left out.

### Supervisor: the loop around OpenVPN

The commands of the loop between which a trap can run, the trap (`OnTerm`),
`maintain`'s health check (`Maintain`) and OpenVPN itself, which may come up,
hang or exit at any time. Time passes in minutes. The health check is the one
for a configuration with a `status` directive (without it, it only looks for the
process). Docker's kill after the grace period is not modelled, so `ProcessesEnd`
does not rely on it.

### Management, Watchdog: the UI's connection and its heartbeat

`Management` is the one socket behind `mgmt.command`: sent, read, and sent once
more on a new connection when anything failed; OpenVPN answers in order, late or
not at all. A command whose answer is lost is carried out twice, never three
times. `Watchdog` is `alive`, `/healthz`, the watchdog's count and grace period
and Docker's restart, in intervals of 30 seconds.

### Archives, Migration, Recovery: files and restarts

`Archives` is `backup.create`: the copy under `pki.lock`, the partial file, the
rename and the pruning, overlapping and failing; the clock does not go back.
`Migration` is `import_sqlite`, `restore_dump` and the start of the UI, run twice
at once and cut short. A cut between `pg_restore` and the marker makes the next
run refuse (`migrate_db.py:101`); the rows are complete then. `Recovery` is
`recover-checkout.py`, interrupted anywhere and run again; interrupted between
the merge (line 159) and the restore (line 160), the next run finds an empty plan
and leaves the stash alone. A file the operator edits between plan and restore is
overwritten (line 127); its owner is not an actor of the model.

## Runs

| Run | Checks | Result |
|---|---|---|
| `connections` | `CacheSound`, `WaitersServed`, refinement `ImplementsAuthorizer`; `AdmissionExact`, `BooksExact`, `VisitsApart`; `SignedFresh` | hold |
| `access` | `FlowsEnd`, `StaleFlowsEnd`; `NoSharedAddress`, `LeasesReleased`; `CodesGuarded` | hold |
| `administration` | `AccessStaysBehind`, `LinkSpentOnce`, `CertificatesAccounted`, `RenewalKeepsAccess`; `ProfilesFollow`; `StaticsUsable`, `ConfigKept`; `SessionsEnd`; `BacksOff` | hold |
| `services` | `CallsReturn`; `GivesUpHonestly`, `DialsSettle`; `StreamClean`, `StreamEnds`; `NoOrphan`, `KillsOnlySilent`, `ProcessesEnd`; `UiRestarts`; `AnswersMatch`; `ImportedWhole`; `RecoveryKeeps`; `BackupsWhole` | hold |
| `collector` | `CountedOnce`, `OpenRowsFollowed`, `LinesApplied`; `RangesExact`; `VisitsAgree`; `RelayRowsStored` | hold |
| `relay_watch_documented` | `DocumentedBound` ("within ~9 seconds") | violated |
| `client_access_limit` | `DeviceLimit` (`OVPN_MAX_DEVICES`) | violated |
| `collector_mid_write` | `TrafficTransferred` | violated |
| `collector_rotation` | `RotatedReadFromStart` | violated |
| `collector_resync` | `ResyncCloses` | violated |
| `collector_short` | `ShortSessionsRecorded` | violated |
| `visits_order` | `VisitsWithinGap` | violated |

Semicolons separate the components of a run. What each property says, and of
which code, is in the comment above it.

The seven violated properties are statements of the repository that the code does
not quite keep; `findings` in `PROJECT.json` quotes them and describes the
counterexample. Most are narrow: a policy service that answers slowly; a lease
rewritten during one pass of the reaper; a status file that stays half written
for a tenth of a second; a log rotated and grown again while the UI is down; a
transaction that fails, or a UI that ends, between the two lines of a short
connection; a short connection made while the UI was down, stored after the
present one. The widest is `ResyncCloses`: any failed write followed by an empty
server leaves the rows of the connections that ended open until somebody connects.

### Bounds, and why they are enough

- `connections`. Cache: two callers, one shared entry in the map and one slot, so
  that the full map, a refused check and a caller with its own check all occur;
  three entries so that a dropped, a current and a new one coexist; one policy
  change; clock to 3 with both timeouts 1, so a policy can expire and be checked
  again; one attempt per check (the second attempt is in `services`). Books: three
  handlers for two slots, two clients with quota one, a client history of one and
  a session history of two, so every limit is met, with four requests, idle time 0
  and one clock step to separate visits. Signer: three requests for two
  connections and one slot, and two rewrites of the store. Tokens, callers,
  entries, handlers and clients are symmetric and share their model values; only
  safety is checked there.
- `access`. Flows: the code's own 1, 3, 5 and 10 seconds; one caller, since flows
  do not interact except through the policy; the clock reaches past the bound
  after the last revocation (`Administer`). Devices: two devices, one certificate,
  two guest addresses, one static and one pool address; ages up to one minute and
  more (a lease older than a minute is treated alike). Codes: the code's five kept
  codes and 120 seconds; two wrong codes and a wait of three steps, for five and
  ten.
- `administration`: two requests at once, three certificates of the name (two
  clients in turn and a renewal), one link, two faults (a race and a fault are
  combined only while there is no link and no access, `OneTrouble`: what is
  claimed of access ends with a race, and no certificate depends on it, so only
  a link with both is left out); two profiles, two editors, one restart or failed
  build; two sound plans whose ranges exclude each other's static addresses and
  one that is refused, two concurrent saves, one fault; two web requests, two
  tokens, a changed password and time beyond two lifetimes of a session; two names
  and two visitors against limits 2 and 3 with a delay that doubles once before
  its maximum. Handlers, editors, savers, web requests and visitors are symmetric.
- `services`: no symmetry, as liveness is checked. The policy service may never
  answer; three addresses, so that two losers of a race coexist, and both rounds;
  one stream, since streams share nothing; the code's constants for the supervisor
  and for the watchdog's counts; two threads, three commands and four connections;
  two runs of each tool and enough interruptions to meet a second one in what the
  first left; two backups that keep one archive.
- `collector`: two connections, so that a poll after a failed write also meets a
  server on which somebody is connected, two bytes, one rejected attempt, one
  truncation; a minute of two seconds, an hour of two minutes and a day of two
  hours, and time for both roll-ups; four rows of two addresses in any order; two
  relay sessions, and time for a sample to grow old and a session to go idle.
- `client_access_limit` has two certificates with limit 1; the other violated runs
  have the smallest instance with a counterexample.

The passing runs take two and a half to three and a half minutes each with two
workers, `administration` with two million distinct states.

### Fairness

Liveness is only model-checked. `RelayAuth` and `RelayWatch` assume that Go runs
ready goroutines and fires due timers (weak fairness per goroutine) and that time
passes; the clock is disabled while something is due, hence strong fairness for
it. Nothing is assumed of the policy service. `RelayDial` assumes that the five
seconds pass, that the caller runs and that a dial whose context is done ends (a
guarantee of `DialContext`). `RelayStream` assumes that its three goroutines run
and nothing of the peers, so a copy may stay blocked as long as nothing closes
what it waits for. `ClientAccess` assumes that OpenVPN writes its status file (it
does so by timer), that the supervisor restarts it, and that one of the reaper's
minutes meets a fresh status file (strong fairness of `ReapLeases`). `Supervisor`
assumes that the script runs, that time passes, and that an OpenVPN that is not
hung obeys SIGTERM. `Watchdog` assumes that a collector that runs finishes its
turns, that time passes (strong fairness, as time waits for a turn that is due)
and that Docker restarts a process that ended; a collector that raises in every
turn still sets its heartbeat (`collector.py:153`), so `UiRestarts` is not about
it. `Collector` states fairness only for `ResyncCloses`: the thread goes on,
OpenVPN writes its status file, and a poll that OpenVPN could answer again and
again does not fail every time (strong fairness of `PollFile` and
`PollManagement`, of which a refused one is a case). Nobody has to connect.

## Proofs

Each theorem has the form `Spec => []P`; the proof finds an inductive invariant,
shows that every action keeps it, one lemma per action or group of actions, and
that it implies `P`. The properties are the ones the runs check; here they hold
for every set of callers, handlers, devices, files or connections and all values
of the constants that the named `ASSUME`s admit.

| Module | Theorem | Argument |
|---|---|---|
| `RelayProofs`, `AuthorizerProofs` | `CacheSoundTheorem`, `WaitersServedTheorem`, `AuthTypeCorrect` | `AuthInv`: the map, the entries and the checks name each other (`MapLinked`), a call has a check or an entry of its own token (`CallsLinked`), the slots are the running checks (`Counted`), and what a check or a published entry says was true since a moment the clock bounds (`ChecksTimed`, `PoliciesTimed`). `RelayProofs` has the steps of the callers, `AuthorizerProofs` those of the checks and of time. |
| `AuthorizerProofs` | `ImplementsAuthorizerTheorem` | Step by step from `AuthInv`: a call that returns does so with an answer that is young enough, a tick passes no deadline, and all else is a stutter of `Authorizer`. |
| `RelayWatchProofs` | `FlowsEndTheorem` from `OpenFlowsEndTheorem` and `AnyFlowEndsTheorem`; `WatchTypeCorrect` | `WatchInv`: each flow's tick, check and last good answer are tied to the clock and to the end of the permission; the bounds are not inductive without that. Assumes `CheckTimeout <= Recheck`. |
| | `StreamCleanTheorem` | `StreamInv`: where the three goroutines can be at once, and for each reason to abort the event that gave it. |
| | `SessionsEndTheorem` | `SessionInv`: a request that is still at work knows the password it started from, or a sign-in crossed a change (`PasswordsKept`); an open stream was looked at within the recheck time, and no session it has seen ended before that look (`StreamsLooked`, `EndsLater`). |
| `RelayProofs` | `GivesUpHonestlyTheorem` | `DialInv`: the caller has taken one result per attempt that is gone, so it counts to the number of addresses only when all are. |
| | `BackupsWholeTheorem` | `ArchiveInv`: a job that reads the PKI began with its present version, as the lock keeps changes out, and whatever a job means to remove is behind `BackupKeep` newer archives (`Spare`). That stays true while others finish and prune, because `made` only grows. `SmallestOf` shows that `Min` is an element. |
| `RelayFlowProofs` | `AdmissionExactTheorem`, `BooksExactTheorem`, `VisitsApartTheorem` | `FlowInv`: every counter is the cardinality of the set of handlers it stands for, an open flow is in the tables (so eviction spares it), the current session of a key is its latest. A step of one handler adds it to such a set or takes it out. |
| `ClientAccessProofs` | `NoSharedAddressTheorem`, `AccessTypeCorrect` | `AccessInv`: reserved addresses in use have a lease of their device, a status file younger than a held lease lists its address, so no condemned lease of a reserved address is held. |
| | `CodesGuardedTheorem` | `UsedInv`: the codes in the file differ, are in the order in which they were accepted, and include every accepted code that is still valid; five suffice, as at most five codes lie between two that are valid a step apart. `WrongInv`: the count is that of the latest wrong codes, and the one before the first of them is `LockFor` earlier. |
| | `ProfilesFollowTheorem` | `ProfileInv`: each profile is current or a request still has to rebuild it (`ProfilesInv`); the remotes are those of `server.conf` or a request is about to compare them (`RemotesInv`); what nobody edited by hand can be built. |
| | `StaticsUsableTheorem`, `ConfigKeptTheorem` | `AddressInv`: what a save is known to have done at each of its steps (`SaveKnown`) and that only the holder of `pki.lock` is past validation (`SaversInv`); which of `server.conf`, its `.bak` and the two settings files are complete and agree (`ConfigInv`); that the addresses given out fit the plan in force (`StaticsInv`) and any plan validated since (`Fits`). |
| `LifecycleProofs` | `CertificatesAccountedTheorem`, `LinkSpentOnceTheorem`, `AccessStaysBehindTheorem`, `RenewalKeepsAccessTheorem` | `LifecycleInv`: the certificate in `issued/` is the newest and a deletion only knows revoked ones (`PkiInv`); an unused link has yielded nothing (`LinkInv`); while nothing raced, every binding and every request is of the person its certificate is for (`AccessInv`); what is not yet bound to the new certificate is what a renewal under way will carry over (`RenewalInv`). |
| `SupervisorProofs` | `NoOrphanTheorem`, `KillsOnlySilentTheorem`, `SupervisorTypeCorrect` | `SupervisorInv`: the counter is never ahead of the silence of the present process, except while the status file is so young that the next check resets it. |
| | `AnswersMatchTheorem` | `ManagementInv`: one thread speaks at a time, and what is on the line of a connection still in use is the command or the answer of that thread. |
| | `ImportedWholeTheorem`, `RecoveryKeepsTheorem` | Each tool's place determines what its transaction or its plan has left in place. |
| | `SignedFreshTheorem` | `SignerInv`: the state of the store and the certificate in it grow together (`StoreInv`), so a kept certificate is no older than the state it is kept for (`KeptInv`), and a request finds the store no older than what it was asked against (`Recent`). Needs that the state is read before the certificate. |
| | `RelayRowsStoredTheorem` | `HistoryInv`, of each session: its row is not ahead of it and is of the same relay process, what the thread remembers is in the row, and a row that says active when its session is not was sampled before the last flow ended (`Stored`). |
| `CollectorProofs` | `OpenRowsFollowedTheorem`, `CountedOnceTheorem` | `FollowInv`: a connection has one row from polls, no other is ever open, and `_active` names it. `CountInv`: its bytes are the traffic stored, and a current status file is never behind them (`NotBehind`); this needs `~MidWrite`. |
| | `LinesAppliedTheorem` | `LinesInv`: everything read lies before the place where the next read begins, whether the saved position is of the present file or of a truncated one (`ReadInv`); the log has a connection's start before its end (`LogInv`), and a start that was read and not lost is waiting or has a row (`KnownInv`). The theorem is about what `LinesApplied` says, so not about a handshake lost from memory. |

`OpenBound` is `PolicyAge + Recheck + CheckTimeout`, 11 seconds with the code's
values in whole seconds.

Two attempts failed for a good reason and changed the model. With `TTL = 0` the
refinement does not hold for the bound `CheckTimeout + TTL - 1`: an uncached
answer may be a full `CheckTimeout` old, hence `PolicyAge`. And
`AccessStaysBehind` was not invariant with two faults (above); the run had
allowed only one.

Only model-checked: the properties not in this table. All liveness (`CallsReturn`,
`DialsSettle`, `StreamEnds`, `StaleFlowsEnd`, `LeasesReleased`, `ProcessesEnd`,
`UiRestarts`), as the prover has no fairness or ENABLED; `RangesExact` and
`VisitsAgree`, whose definitions sum and fold over rows and would need induction
over data; and `BacksOff`, for the same reason: the limiter filters its list of
failures with `SelectSeq`, which is defined by recursion. Every other invariant
and action property that a run checks is a theorem.

What the proofs take for granted of the constants is in named `ASSUME`s, which
the runs evaluate. Most say that a time or a limit is a natural number, positive
where the code divides or counts by it, and that a placeholder such as `Nobody`
is no element of its set. Those that say more:

- `CheckTimeout <= Recheck` (`RelayWatch`; 3 s and 5 s in `relay/main.go`);
- the guest range, the static addresses and the pool are apart (`ClientAccess`);
  that the administration keeps them apart is `StaticsUsable` of `AddressPlan`;
- `StatusMinutes > 1` (`Supervisor`; 3 in `healthcheck.sh`);
- at least five one-time codes are kept, for two steps of 30 s or more
  (`OneTimeCode`; five and four in `oath.sh`). With four, `CodesGuarded` fails;
- the handlers and the addresses of one dial are finite sets (`RelayFlow`,
  `RelayDial`), and UDP alone is a possible set of protocols (`Profiles`).

A leaf that needs no arithmetic names `Zenon`: the prover's SMT translation slows
down over a long module, and with the pragma each module takes two to four
minutes.

## Not modelled

- Relay: the HTTP/3 path and the listener's drain at shutdown (`serveHTTP2`);
  resolution and the destination policy, pure functions whose verdict is a
  choice in `RelayFlow`; metrics and the portal page.
- `docker-entrypoint.sh` before its loop, the firewall and gateway scripts, and
  network discovery: sequences of commands without state of their own.
- `main.py`: handlers that only read, notes, relay policy fields and the event
  log. The collector's rates, device names and snapshots for browsers.
- `export-relay-cert.py` replaces certificate and key one after the other (line
  69); who reads them in between is outside the repository. `setup-env.py` and
  `docker-compose.yml` in the plan of `recover-checkout.py` are left out too.
- The front end, and anything rendered for it.

## Plan

1. `ClientLifecycle` with the kill of live connections.
2. The drain of streams at shutdown (`serveHTTP2`).
