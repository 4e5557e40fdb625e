# Verification of the PKI / mTLS / Zero Trust lab

TLA+ models of the lab's controller and node software, the TLC runs that check
them on small instances, and TLAPS proofs for all instances. Line numbers are
those of the repository beside this directory.

## 1. The system

| Component | State | Operations | Talks to |
|---|---|---|---|
| **Controller API** (`controller/app/api`, `core/security.py`, `core/audit.py`, `db/`) | tables `nodes`, `audit_events` (SQLite, WAL); log lines on stdout; counters in memory | register, heartbeat, get, list, audit, whoami | nginx in front (headers), SQLite behind |
| **Revocation cache** (`core/revocation.py`) | `_revoked_serials`, in memory | periodic fetch; `is_revoked` per request | step-ca's `/crl` |
| **Gauge refresh** (`core/metrics_hooks.py`) | Prometheus gauges | clear and refill every 30 s | SQLite; `/metrics` scrapes in a thread |
| **Node agent** (`node-agent/app`) | registration attempt, loaded TLS context | start gate, register with backoff, beat forever | controller through nginx; systemd restarts it |
| **Node certificate renewal** (`node-agent/deploy`, `ansible/20-enroll.yml`) | certificate and key on disk | renew every 8 h, restart the agent, re-enrol by hand | step-ca; systemd |
| **Service certificate renewal** (`scripts/renew-certs.sh`) | controller and Prometheus certificates, nginx's copies | renew or re-issue, post-actions | step-ca; docker |
| **nginx** (`nginx/conf.d/mtls.conf`) | none | verifies client certificates, forwards verify / DN / serial | controller |
| **step-ca** (external) | certificates, revocations, published CRL | issue, renew, revoke, publish | everyone |
| **Provisioning, firewall, monitoring** (`ansible/`, `docs/setup-notes`, `monitoring/`) | configuration | run by hand | all hosts |

Interactions. An agent calls the controller through nginx, which vouches for the
certificate; the controller checks the serial against the cache the refresh task
fills, authorizes, and writes the node and its audit row in one SQLite
transaction. One asyncio process serves all requests: handlers interleave at
every `await`, and only there. A `SELECT` runs outside any transaction; the first
`INSERT`/`UPDATE` of a session begins one and takes the database's single write
lock; a second writer waits for the busy timeout and fails.

What is hard: checks made before an `await` and used after it; three records of
one event (row, log line, counter) of which only one is transactional; a crash
between flush and commit; a revocation travelling through a CRL, a periodic
fetch and a cache that dies with the process; retries of calls that succeeded;
a renewed certificate that nobody loads. Each is a hazard in `PROJECT.json`,
with its line and the properties that would catch it going wrong.

What makes each component correct:

- Controller: the two tables change together, whatever interleaves, fails or
  crashes; the audit trail, the log and the counter agree as far as each can;
  the client's status code tells what is durable; the write lock is given back.
- Revocation cache: bounded staleness, no forgetting short of a restart, every
  revocation arrives.
- Gauges: a scrape may meet the refill and show a part of the fleet, or none of
  it, but no node twice; counts and ages lag by a known number of rounds.
- Agent: it beats only once known; no outage of the controller uses up systemd's
  start limit; a crash or a stop request ends the process, and it comes back.
- Node renewal: the certificate expires only when nothing could renew it for the
  whole window; certificate and key belong together; the process holds the newest.
- Service renewal: a renewed certificate reaches its user before the old one
  expires, and what a failed command left undone is made up for.

## 2. Modules

| Module | Models |
|---|---|
| `Registry` | Abstract: nodes and audit rows change atomically, one request at a time, each request leaving at most one row. |
| `Controller` | The identity and revocation dependencies, every handler, `record_event`, the write lock, failures, crashes. |
| `MCController` | Small instances: a contended `node_id` and a second one, their nodes' CNs, the controller's, the development bypass. |
| `ControllerProofs` | Type correctness and `AuditedRegistration` of `Controller`. |
| `ControllerRefinement` | `Controller` implements `Registry`, proved. |
| `ControllerAuditProofs` | What audit table, log, counter and answers say of one another, proved. |
| `CrlCache`, `MCCrlCache` | Revocation, CRL generation, the refresh task, restarts, with discrete time; the deployed periods. |
| `CrlCacheProofs` | Theorems about `CrlCache`. |
| `GaugeRefresh`, `MCGaugeRefresh` | The gauge task against a scrape in another thread; the deployed period. |
| `GaugeRefreshProofs` | Theorems about `GaugeRefresh`. |
| `NodeAgent`, `MCNodeAgent` | The agent's process, tasks and start gate; the systemd unit that restarts it; the deployed periods. |
| `NodeAgentProofs` | Theorems about `NodeAgent`. |
| `NodeRenewal`, `MCNodeRenewal` | A node's certificate and key on disk and in the agent, `renew-cert.sh`, enrolment, power. |
| `NodeRenewalProofs` | Theorems about `NodeRenewal`. |
| `ServiceRenewal`, `MCServiceRenewal` | `renew-certs.sh`, the files it writes, nginx and Prometheus that use them. |
| `ServiceRenewalProofs` | Theorems about `ServiceRenewal`. |

### Controller

| Code | Model |
|---|---|
| tables | `nodes` by unique `node_id`; `audit_events` in id order (rows are never deleted, so an id is a position, and SQLite gives a rolled-back id out again) |
| a session's transaction | `writer` (who holds the lock) and `txn` (what it sees); `txn` equals the committed tables when nobody writes |
| a request in a handler | `pc`: `select`, `insert`, `record`, `commit`, `refresh` are the awaits; `event` is the audit event decided but not yet written |
| answer | `status`; `pc = "lost"` when the process died first |
| structlog, Prometheus, `_revoked_serials` | `log` (survives a crash), `counter`, `revoked_serials` (do not) |

Actions: `RefuseUnidentified`, `DenyRevoked`, `DenyUnauthorized`, `Admit`,
`Whoami` are the synchronous prefix of a request (identity, revocation and
registration authorization, with no `await` between the last two). `Read`,
`LookUpForRegister`, `LookUpForHeartbeat` are the first `SELECT`; `InsertNode` /
`DuplicateInsert` the flush of a new node; `RecordEvent` is `record_event`;
`CommitEvent`, `CommitFreshness`, `Refresh` the end. `Busy` is the busy timeout,
`DbError` any other failing statement, `Crash` a restart of the process,
`CrlUpdated` a new revoked set. `IntegrityError` is answered 500, as in the code,
not 409. A node with its own CN and another's `node_id` gets a 409 without an audit
row: `register_node` authorizes on the CN alone, although the comment at
`nodes.py:68-72` has the mismatch caught before.

Abstracted: timestamps become "has a heartbeat"; role, notes and address are
left out since nothing reads them; listing nodes and querying the audit log
(`ListNodes`, `ListAuditEvents`) differ in the table they read, not in what they
leave behind. A payload that fails validation is answered 422 by FastAPI before
the handler runs and changes nothing: not modelled. A registration payload may name any `NodeState`, as `NodeCreate`
allows; the agent sends none, which is `onboarding`.

### CrlCache

`age[s]` is the time since the revocation, `crl`/`crlAge` what the CA publishes,
`phase`/`timer`/`reply` the refresh task, `cache` the set requests read,
`failures` and `bootAge` history. A fetch ends in `Install` or `FetchFails`; the
task sleeps exactly `Interval` between fetches. step-ca is external: a CA that is
down is a fetch that fails, and a CRL it serves is at most `Gen` old. The evidence of
step 11 sets `generationInterval: 30s` and `cacheDuration: 1m`; a CA that goes by the
second alone, renewing after two thirds of it, has a period of 40 s. The run takes
40 s, which covers both, for `Generate` may come earlier.

### NodeAgent

| Code | Model |
|---|---|
| `assert_cert_usable` | `agent = "gate"`; `GatePasses`, `GateRefuses` (any `sys.exit(1)`) |
| the two asyncio tasks | `hb` and `ms`, each with its position or `"crashed"`; `attempt`, `delay` as in `_attempt_register` |
| `register` | `Serve` (the controller has handled the POST), then `Registered` (its answer arrives) or `RegisterFails` (an error, or the answer is lost) |
| `asyncio.wait(FIRST_COMPLETED)` and what follows | `WakesMain`, `CleanAfterCrash`, `MainEnds` |
| SIGTERM | `Terminate`: kills the process before the handlers exist, sets `stop` afterwards |
| the unit | `unit`, `job` (a stop or restart waiting for the process), `Launch` with the start-limit window `starts` / `windowAge` |
| `systemctl` (operator, Ansible, `renew-cert.sh`) | `Stop`, `Restart`, `StartAgain`, at most `MaxRequests` |
| controller, files, port | `known`, `reachable`, `fault`, changing at any time |

systemd's part is the documented behaviour of `Restart=on-failure` and of the
start limit: a window opens at a start, and within it at most `Burst` starts
succeed, automatic or asked for. A failed call may have reached the controller
(`known` becomes true). Time passes in calls, the gate, sleeps and `RestartSec`;
a heartbeat's pause is not counted and an interruption of a sleep counts as its
start, so windows look younger than they are, the worse case for the limit.

### GaugeRefresh

| Code | Model |
|---|---|
| `periodic_gauge_refresh` | `phase` and `timer`: `Select`, `Clear`, the refill, `AgesDone`, `Wake`; `RefreshFails` is the `except` branch |
| `nodes_total.clear()`, `.labels(...)`, `.set(...)` | `Clear`, `MakeCount`, `SetCount` on `total`: three steps, for the scrape runs in another thread and sees each |
| `node_last_heartbeat_seconds` | `ages`, with `MakeAge` / `SetAge`; never cleared |
| `GET /metrics` | `Copy` takes the map of series in one step (`held`); `live` says whether they still are the gauge's own, so that a later `set` shows through; `Answer` |
| the handlers' writes | `Register`, `Heartbeat`; on the same event loop, hence not during the refill |

Role and state form one label; a row never changes its role, so the state
stands for both. Of the states only `onboarding` and `active` are here: the
controller has no operation that moves a node to another (a registration may name
another, and the node then stays there).

### NodeRenewal

| Code | Model |
|---|---|
| the pair on disk | `crt` (key and remaining lifetime), `key` |
| the agent | `unit`, and `loaded`, the certificate in its SSL contexts; `StartAgent` loads a usable pair or exits |
| `renew-cert.sh` | `NotNeeded`, `CheckFails`, `BeginRenewal` (`step` has read the pair), `RenewalSucceeds` / `RenewalFails`, `RestartAgent` with its `is-active` test and the restart that may fail |
| `thesis-cert-renew.timer` | `next`: `Period` after each run, 0 after a boot |
| `20-enroll.yml`, `30-agent.yml`, the runbook | `Sign`, `InstallCrt`, `InstallKey`, `RestartEnrolled`; `Abort` anywhere |
| power | `PowerOff`, `Boot` |

`unserved`, `owed` and `torn` are history: how long no run has found or made the
certificate good; whether a certificate was installed that no start followed;
whether an enrolment broke off between its two files or met a renewal in
flight. `step certificate needs-renewal --expires-in 48h` is `left < Threshold`.
`Persistent=true` in the timers has no effect on their monotonic triggers, so a
missed run is made up for by `OnBootSec`.

### ServiceRenewal

| Code | Model |
|---|---|
| `step-ca/issued/<name>` | `issued` |
| `nginx/certs/server.{crt,key}` | `copy` |
| nginx, Prometheus | `loaded`; `NoCert` while the container is down |
| `renew_cert` | `Skip`, `Renew`, `Reissue`, `ReissueFails`: the `if`, the renewal, the fallback |
| `post_controller`, `post_prometheus` | `CopyCrt`, `CopyKey`, `Reload` |
| the loop, the timer | `NextCert`, `RunStarts` |

Each command may fail, and the next one runs all the same: `renew_cert ... || log`
switches `set -e` off inside the function. `ContainerStops`, `ContainerStarts`,
`PowerOff` and `Boot` come between any two commands. `troubled[c]` is history: a
command for `c` failed since its user last took a certificate that was not yet to
be renewed. `lapse[c]` measures how long an expired one has been in use.

## 3. What the runs check

| Run | Instance | Shows |
|---|---|---|
| `controller_safety` | 3 requests out of 16 kinds, 2 node_ids, 4 CNs, 1 serial, the bypass on, any failure and any number of crashes | the safety properties below |
| `controller_service` | 3 requests out of register / own heartbeat / foreign heartbeat, fairness | refinement of `Registry`; `Answered` |
| `controller_one_activation` | the same | violated: two `NODE_STATE_CHANGE` rows for one activation |
| `crl_bound` | `Gen`/`Interval`/`FetchTime` = 40/60/30 s in units of 10 s, up to 2 failed fetches in a row, 1 restart, 1 serial | staleness bound, no forgetting, arrival |
| `crl_next_call` | the same periods, no failure, no restart | violated: a revoked node's next call can be accepted |
| `gauges` | period and query of 30 s each, 2 nodes of which one beats, 1 failed refresh in a row, 1 restart | what a scrape sees; how far counts and ages lag |
| `agent_outage` | the deployed periods in ms, calls that take no time, 2 requests to systemd, fairness | the agent's safety and liveness properties |
| `agent_runbook` | the deployed periods | violated: the runbook's restart can be refused by the start limit |
| `node_renewal` | 168 h / 48 h / 8 h in units of 4 h, power-offs up to 52 h, 2 failures, 2 enrolments, fairness | the node renewal properties |
| `node_weekly` | the same periods, power-offs up to 72 h, no failure, no enrolment | violated: a node that is on several times a week can lose its certificate |
| `service_renewal` | 24 h / 8 h / 8 h and a slack of 4 h in units of 4 h, 2 faults, fairness | the service renewal properties |
| `service_issued` | the same | violated: a re-issue that failed is logged as a fresh certificate |

Controller properties. `AuditedRegistration`: a node row exists exactly when one
`node.register` row names it. `StateChangesAreAudited`: a state other than the
registered one has a later activation row by the node's own CN.
`OutcomeMatchesRecord`: each status code means what it says about the database.
`RowsAreLoggedAndCounted`: no committed row without its log line (same id) and its
count since boot. `UnmatchedLog`: a log line without a row belongs to a request in
flight, answered 500, or lost. `ImplementsRegistry`: refinement. `Answered`: a
request in a handler is answered or lost, and does not keep the lock.

CrlCache properties. `StalenessBounded`: with `k` failed fetches since the last
good one, a serial revoked more than `Gen + FetchTime + (k+1)(Interval +
FetchTime)` ago is refused, once the process is older than `FetchTime +
k(Interval + FetchTime)`. Both bounds are tight: `>=` in place of either `>` is
violated. With the periods of the run and no failure the first is 160 s.
`NeverForgets`: a refused serial is accepted again only after its certificate
expired or the process restarted. `EventuallyRefused`: every revocation arrives.
`NextCallIsRefused` is what `revocation.py:8-9` says ("takes effect on its next call");
`crl_next_call` shows a node beating on for more than a heartbeat interval after its
revocation, and the bound above is what the code gives instead.

NodeAgent properties. `OutageIsSurvived`: a unit put out by the start limit has no
run in the window that gave up registering. `BeatsOnlyWhenKnown`: no heartbeat
before the controller has the row. `StaysUp`: outside the start limit the unit is
down only on request. `ProcessEnds`: a crashed worker or a stop request ends the
process. `Recovers`: with nothing wrong any more, the agent gets back to beating.

GaugeRefresh properties. `NoNodeTwice`: the counts a scrape holds never add up to
more than the registered nodes, so it never mixes the counts before and after a
state change. `CountsCatchUp`: between refills, a node that has been in its state
for longer than `QueryTime + (k+1)(Interval + QueryTime)`, with `k` failed rounds
since the last good one, is counted there. `AgesLag`: a dead node looks fresher
than it is by at most `(k+1)(Interval + QueryTime)`. Both bounds are tight: one unit
less is violated. `FleetIsShown`: the fleet is counted in the end.

NodeRenewal properties. `LapsesOnlyUnserved`: an expired certificate on disk means
48 h without a working run. `PairMatches`: certificate and key belong together
unless an enrolment is between its two files, broke off there, or met a renewal
in flight, which then writes a certificate for the old key beside the new key; the
next whole enrolment mends it. The exceptions are what the code allows: nothing keeps
script and enrolment apart, and `renew-cert.sh:45` then logs "fresh cert installed (key
reused)" for a pair that does not match. What an agent makes of a pair that does not match is `fault = "pair"` in
`NodeAgent`: the process ends and, the pair once right, comes back (`Recovers`).
`HoldsNewest`: the running agent has the certificate on disk unless its restart is
still to come, failed with the warning, or was left out by an enrolment that broke
off. `NeverExpiresInUse`: on a node that stays on and has a usable pair time and
again, the running agent ends up with certificates that do not expire on it.

ServiceRenewal properties. `LapseBounded`: an expired certificate is in use for
longer than `MaxLapse` (the slack, with the deployed periods: the threshold equals
the period, so a run that just does not renew leaves the next one at expiry) only
if a command for that very certificate failed. `Heals`: on a host that stays on,
both users come to run with valid certificates and lapses come to stay in bounds,
although a run after a failed post-action finds a fresh certificate and skips it.

Why the bounds are enough. Three requests are the most that one race needs: two
that race and one that prepared or observes the row they race for; requests
interact only through one row, the lock and the audit table, and the second
`node_id` shows that the table keeps two nodes apart. Requests are interchangeable
in the safety run (symmetry; the liveness run has none). Serials do not interact,
so one is enough; two failures in a row show how the bound grows; the horizon of
the clocks is one past the largest bound used. For the agent, time matters only up
to the end of the start-limit window; calls that take no time leave it youngest, the
worse case for the limit, and the theorems cover all durations. Two requests let a
stop be followed by a start. For the gauges, two nodes are what it takes
to count one of them twice. For the renewals, a power-off of 52 h is longer than
the renewal window and two failures are more than one run; two enrolments let a
broken-off one be repaired by the next, and three keys keep two consecutive
re-issues apart from what they replace. The theorems cover what the instances
leave open.

Fairness. `Controller`: weak fairness of each request's own handler steps, the
busy timeout included: the event loop runs every ready coroutine and SQLite
answers or times out. Nothing obliges a client to send, a statement to fail or
the process to crash. `CrlCache`: time passes, the CA renews its CRL, every fetch
ends (httpx bounds connecting, the TLS handshake and each read by 10 s; a CRL is
taken to arrive in one read), the sleep ends. The cap on consecutive failures is the
assumption under which a revocation arrives. Restarts are bounded. `GaugeRefresh`:
a refresh ends one way or the other, the sleep ends, time passes. `NodeAgent`:
systemd acts, the event loop runs ready tasks, calls and sleeps end; neither the
controller nor the node's files are ever obliged to work. `NodeRenewal`: systemd
restarts what it owes, the script and an enrolment under way come to an end, time
passes; nobody has to enrol or to switch the node on. `ServiceRenewal`: the timer
fires, the script goes on, docker restarts what stopped, time passes.

The five violations. `service_issued` is a bug of the script: with `set -e` off
inside `renew_cert`, a re-issue that fails is logged as "fresh cert issued" and the
function returns 0, so the caller's "FAILED" is not logged. The other four are
differences between a comment or a runbook and the code. `PROJECT.json` "findings"
quotes them.

## 4. What is proved

`ControllerProofs` proves, for every set of requests, inputs, nodes, names and
serials, `Spec => []TypeOK` (`TypeCorrect`) and `Spec => []AuditedRegistration`
(`RegistrationsAudited`).

`AuditedRegistration` is not inductive: between the flush of a node and the
flush of its audit row the open transaction is one row ahead of its own audit
table. `IInv` adds what is needed: `Positioned`, what a handler's position says
of its request (it has an identity, its event has the data its row needs, a
heartbeat's node still exists because rows are never deleted, and only the
lock's owner is past its `INSERT`); and `Transaction`, what the open transaction
holds (nothing without a writer; exactly one new node, not yet recorded, before
the audit row; matching tables before the commit). `MatchesOther` and
`MatchesRegistration` say how appending an audit row affects the match;
`QuietStep` covers the steps that touch neither tables nor lock. Assumptions: the
named `ASSUME`s of `Controller`, which TLC evaluates in every run.

`ControllerRefinement` proves `Spec => ImplementsRegistry` (`Refinement`) for the
same constants, with the identity as the mapping of the two tables. The commit
of an event is a `Register`, `Activate` or `Deny` of `Registry`, a routine heartbeat's
commit a `Beat`, and every other step a stutter. What makes it true is decided
several steps before the commit, so `RInv` carries it there. `Grounds`: a
registration in flight was authorized; the node an activation has found is still
its own and not past active, whoever else committed since; a request that may
still write has no audit row. `Pending`: what the transaction holds is exactly the
committed tables with the request's own effect and row. `RowKept` is what every
commit does to the rows other requests have read.

`ControllerAuditProofs` proves the other four safety invariants of `Controller`, each
on top of `RInv` and for the same constants. `StepKinds` sorts the steps: a move
that neither writes nor holds the lock, the four that write, the failures, the
crash; `CommitAppends` and `OnlyCommitsAppend` say which of them touch the audit table.

- `[]UnmatchedLog` (`LogAgrees`). By itself it is not inductive: a request in flight may
  have a line whose row will never come only as long as it holds the lock. `LogInv`
  says that a line has its row, belongs to a request that was lost or answered 500,
  or is the very line (`NextLine`) of the row the open transaction is about to commit.
- `[]RowsAreLoggedAndCounted` (`RowsLoggedAndCounted`). `RowsLogged` and `RowsCounted` add
  that imminent row: its line is in the log, and the counter is one ahead for it.
- `[]StateChangesAreAudited` (`StatesAudited`). A registration meets no earlier row of its
  node (`AuditedRegistration`), an activation's row carries the owner's CN (`Own`), and a
  request that has a row never changes what it asked for (`RowRequestKept`).
- `[]OutcomeMatchesRecord` (`OutcomesRecorded`). `OneRow`: no two rows of one request.
  `Path`: what a handler's position, and then its answer (`Told`), says of the tables.
  It survives the steps of the others because no step deletes a node, forgets its
  heartbeat or takes it back to onboarding (`Ripening`).

`CrlCacheProofs` proves, for all periods, bounds and serials, `[]TypeOK`
(`CacheTypeCorrect`), `[]StalenessBounded` (`StalenessIsBounded`) and `NeverForgets`
(`NothingForgotten`). The staleness bound adds up along the way of a revocation:
the CRL misses what is younger than itself (`CrlMisses`), an answer under way what
is younger than a generation and the fetch (`ReplyMisses`), the cache what is younger
than that and the loop's own clock `Elapsed`, which counts the failed rounds and the
time in the current one; or else the process is younger than that clock says it
must be to have fetched (`CacheMisses`). `NeverForgets` rests on `InOrder`: each copy
of the revoked set is at least as old as the one it was made from.

`GaugeRefreshProofs` proves, for every fleet, period and bound, `[]TypeOK`
(`GaugesTypeCorrect`), `[]AgesLag` (`AgesLagBounded`), `[]CountsCatchUp` (`CountsCaughtUp`) and
`[]NoNodeTwice` (`ScrapeShowsNoNodeTwice`). `TypeOK` needs `AtRest`: series are to be set
only during the refill. `AgeInv`: what was read is no fresher than the table, what
was set is what was read, and a set age falls behind no faster than the loop's
clock. `CountInv`: what was read is right for every node that has not moved since the
query began, the refill leaves exactly those counts, and later only nodes that
moved since are missing from them. `ScrapeInv`: while a scrape's copy is the gauge's
own it is behind the gauge, whose counts are of different nodes of the table; once
`clear()` has cut it off, it stays and the fleet only grows.

`NodeAgentProofs` proves, for all periods and limits, `[]TypeOK`
(`AgentTypeCorrect`), `[]BeatsOnlyWhenKnown` (`KnownBeforeBeating`) and `[]StaysUp`
(`DownOnlyOnRequest`) from one invariant, `Shape`: no tasks without a running
process, an untouched backoff before the first attempt, jobs only on an active
unit, and an answer under way only from a controller that has the row
(`AnsweredWhenKnown`). `OutageNeverExhaustsTheLimit` proves `[]OutageIsSurvived` for the
deployed backoff (the hypothesis `Deployed`) and every burst, restart delay, call
duration and window below 322.53 s: `OnSchedule` says that after `a` failed
attempts the run has slept at least `Rung`'s time, so that a run which gives up
has outlived the window it started in. The margin is 22.53 s over the 300 s of
the unit; a backoff that does not grow breaks it.

`NodeRenewalProofs` proves, for all lifetimes, thresholds, periods and bounds,
`[]TypeOK` (`RenewalTypeCorrect`), `[]LapsesOnlyUnserved` (`LapseNeedsAWindow`),
`[]PairMatches` (`PairsMatch`) and `[]HoldsNewest` (`AgentHoldsNewest`). `Window` says
that remaining lifetime and time without a working run add up to the threshold at
least: a run that renews nothing has found at least that much. `Paired` adds to
`PairMatches` the key a renewal in flight authenticates with (`InFlight`) and the
key of a half-installed enrolment (`HalfWay`). The period of the timer plays no part
in these three, only the threshold does.

`ServiceRenewalProofs` proves `[]TypeOK` (`ServiceTypeCorrect`) and `[]LapseBounded`
(`LapsesBounded`) for all lifetimes, thresholds, periods and slacks. `Healthy` says
of a certificate none of whose commands failed that, outside its own pass, files
and user agree (`InStep`), inside it the files are as far as the script's position
says (`HalfDone`), and lifetime and lapse keep to the timer (`OnSchedule`: remaining
lifetime plus time since the last run is at least `Earliest`).

Assumptions are the named `ASSUME`s of each component, which TLC evaluates in
every run. Every inductive invariant was model-checked on its component's instance
before it was proved. All invariants and action properties of the runs are proved;
only model-checked are the liveness properties (`Answered`, `EventuallyRefused`,
`FleetIsShown`, `ProcessEnds`, `Recovers`, `NeverExpiresInUse`, `Heals`), for liveness under
fairness and `ENABLED` are outside the prover. That the bounds are tight is a result
of TLC as well.

## 5. Plan

1. `Registry`, `Controller`, `CrlCache`, `NodeAgent` (done).
2. `NodeRenewal`, `ServiceRenewal`, `GaugeRefresh` (done).
3. Proofs: `Controller` implements `Registry`; the safety invariants of every
   component (done).
4. To come: what the proofs suggest of stronger statements, above all what follows
   for every implementation of `Registry` from its specification alone.

A composition of agent, controller and revocation was planned and dropped. Each
component has the other side as its environment, in the most general form that
side can take (a controller that is reachable or not, a cache that changes at any
await, a client that sends anything), so the product would check weaker
environments than the components already do.

## 6. Not modelled

- nginx: declarative; what it forwards is the input of `Controller`.
- The requests of the agent's metrics endpoint: one allow-list guard in front of
  values read from psutil. Its start is in `NodeAgent`.
- The health answer and the format of log lines: no state.
- Provisioning and the monitoring stack: one-shot configuration of third-party
  programs. The restart at the end of `30-agent.yml` is in `NodeRenewal`.
- CA backup and restore: a procedure run by hand (setup note 07).
- The renewal scripts' exits for missing files: the timers are installed after the
  enrolment. A host without `server.crt` at the first run.
- Power loss under the controller's database: with `synchronous=NORMAL` SQLite may
  lose the last commits then; a crash in the model is a crash of the process,
  which loses none.
