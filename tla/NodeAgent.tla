----------------------------- MODULE NodeAgent -----------------------------
(***************************************************************************)
(* The node agent and the systemd unit that keeps it running.  One asyncio *)
(* process has a heartbeat task (register with backoff, then beat), a      *)
(* metrics server task, and a main coroutine that ends the process when    *)
(* the first of them crashes or when SIGTERM arrives.  systemd starts it   *)
(* again after a failure, at most Burst times in a window.                 *)
(*                                                                         *)
(* Time is in milliseconds and passes in the steps that wait; what happens *)
(* during a wait is taken to happen at its start, so the model never       *)
(* thinks a window older than it is.  Within a window only "past its end"  *)
(* matters above StartLimitInterval.                                       *)
(***************************************************************************)
EXTENDS Naturals

CONSTANTS
    Attempts,            \* registration attempts of one run
    FirstDelay,          \* the first backoff
    MaxDelay,            \* its cap
    RestartSec,          \* the unit's RestartSec
    StartLimitInterval,  \* the unit's StartLimitIntervalSec
    Burst,               \* the unit's StartLimitBurst
    Durations,           \* how long an HTTP call or the start gate may take
    MaxRequests          \* bounds the stops and restarts asked of systemd

ASSUME AgentAssumption ==
    /\ Attempts \in Nat \ {0}
    /\ FirstDelay \in Nat \ {0} /\ MaxDelay \in Nat /\ FirstDelay <= MaxDelay
ASSUME UnitAssumption ==
    RestartSec \in Nat /\ StartLimitInterval \in Nat /\ Burst \in Nat \ {0}
ASSUME BoundsAssumption == Durations \subseteq Nat /\ MaxRequests \in Nat

Past == StartLimitInterval + 1
After(age, wait) == IF age + wait < Past THEN age + wait ELSE Past

VARIABLES
    unit,       \* systemd's state of the unit
    job,        \* a stop or restart that waits for the process to end
    asked,      \* history: whether the last request was to run or to stop
    requests,   \* how many there were
    starts,     \* starts counted against the limit in the current window
    windowAge,  \* time since the window's first start
    agent,      \* the process: "none", in the start "gate", or "running"
    hb,         \* the heartbeat task
    ms,         \* the metrics server task
    stop,       \* stop_event
    attempt,    \* failed registration attempts of this run
    delay,      \* the next backoff
    gaveUp,     \* history: a run of this window used up its attempts
    known,      \* the controller has a row for this node
    reachable,  \* the controller answers
    fault       \* what would fail at a start: the certificate gate, loading
                \* the pair of certificate and key, binding the metrics port

system  == <<unit, job, asked, requests, starts, windowAge, gaveUp>>
process == <<agent, hb, ms, stop, attempt, delay>>
world   == <<known, reachable, fault>>
vars    == <<unit, job, asked, requests, starts, windowAge, agent, hb, ms, stop,
             attempt, delay, gaveUp, known, reachable, fault>>

Faults == {"none", "gate", "pair", "port"}

\* A process that has just been started, or none: no task yet.
NoTasks ==
    /\ hb' = "none" /\ ms' = "none" /\ stop' = FALSE
    /\ attempt' = 0 /\ delay' = FirstDelay

\* Just booted.
Init ==
    /\ unit = "active" /\ job = "none" /\ asked = "run" /\ requests = 0
    /\ starts = 1 /\ windowAge = 0
    /\ agent = "gate" /\ hb = "none" /\ ms = "none" /\ stop = FALSE
    /\ attempt = 0 /\ delay = FirstDelay /\ gaveUp = FALSE
    /\ known \in BOOLEAN /\ reachable \in BOOLEAN /\ fault \in Faults

Pass(wait) == windowAge' = After(windowAge, wait)

-----------------------------------------------------------------------------
(* systemd *)

\* A start when the window is age old: it opens a new window, is counted in the
\* current one, or is refused.
Launch(age) ==
    \/ /\ age > StartLimitInterval
       /\ unit' = "active" /\ agent' = "gate"
       /\ starts' = 1 /\ windowAge' = 0 /\ gaveUp' = FALSE
    \/ /\ age <= StartLimitInterval /\ starts < Burst
       /\ unit' = "active" /\ agent' = "gate"
       /\ starts' = starts + 1 /\ windowAge' = age /\ UNCHANGED gaveUp
    \/ /\ age <= StartLimitInterval /\ starts >= Burst
       /\ unit' = "start-limit-hit" /\ agent' = "none"
       /\ windowAge' = age /\ UNCHANGED <<starts, gaveUp>>

\* Restart=on-failure: a failed process is started again after RestartSec.
AutoRestart ==
    /\ unit = "auto-restart"
    /\ Launch(After(windowAge, RestartSec))
    /\ NoTasks
    /\ UNCHANGED <<job, asked, requests, world>>

\* The process has ended, after wait, with the given outcome.
Exit(clean, wait) ==
    /\ NoTasks
    /\ job' = "none"
    /\ UNCHANGED <<asked, requests>>
    /\ \/ /\ job = "restart"
          /\ Launch(After(windowAge, wait))
       \/ /\ job # "restart"
          /\ agent' = "none"
          /\ unit' = IF job = "none" THEN IF clean THEN "inactive" ELSE "auto-restart"
                                     ELSE IF clean THEN "inactive" ELSE "failed"
          /\ Pass(wait)
          /\ UNCHANGED <<starts, gaveUp>>

Asked(what) == requests < MaxRequests /\ requests' = requests + 1 /\ asked' = what

\* systemctl stop and restart (renew-cert.sh, Ansible, the runbook).  An active
\* unit gets SIGTERM; otherwise a restart is a start, now or much later.
Stop ==
    /\ unit \in {"active", "auto-restart"} /\ job = "none"
    /\ Asked("stop")
    /\ IF unit = "active"
         THEN job' = "stop" /\ UNCHANGED unit
         ELSE unit' = "inactive" /\ UNCHANGED job
    /\ UNCHANGED <<starts, windowAge, gaveUp, process, world>>

Restart ==
    /\ unit = "active" /\ job = "none"
    /\ Asked("run") /\ job' = "restart"
    /\ UNCHANGED <<unit, starts, windowAge, gaveUp, process, world>>

StartAgain(wait) ==
    /\ unit # "active"
    /\ Asked("run")
    /\ Launch(After(windowAge, wait))
    /\ NoTasks
    /\ UNCHANGED <<job, world>>

\* SIGTERM: until the handlers are installed it kills the process, which systemd
\* takes for a clean end; then it sets stop_event.
Terminate ==
    /\ job # "none"
    /\ \/ agent = "gate" /\ Exit(TRUE, 0)
       \/ /\ agent = "running" /\ ~stop
          /\ stop' = TRUE
          /\ UNCHANGED <<system, agent, hb, ms, attempt, delay>>
    /\ UNCHANGED world

-----------------------------------------------------------------------------
(* assert_cert_usable, main *)

\* The certificate is readable and not expired: the tasks are created.
GatePasses(wait) ==
    /\ agent = "gate" /\ fault # "gate"
    /\ agent' = "running" /\ hb' = "new" /\ ms' = "new"
    /\ Pass(wait)
    /\ UNCHANGED <<unit, job, asked, requests, starts, gaveUp, stop, attempt, delay, world>>

\* sys.exit(1)
GateRefuses(wait) ==
    /\ agent = "gate" /\ fault = "gate"
    /\ Exit(FALSE, wait)
    /\ UNCHANGED world

\* Mutants: FIRST_EXCEPTION does not see the stopper; ALL_COMPLETED waits for
\* both workers.
WakesOnException == "crashed" \in {hb, ms}
WakesWhenAllEnd  == stop \/ {hb, ms} = {"crashed"}

\* asyncio.wait(..., FIRST_COMPLETED)
WakesMain == stop \/ "crashed" \in {hb, ms}

\* Mutant: the worker's exception is logged, not raised.
SwallowsException == TRUE

\* Whether the process ends without an error when a worker has crashed.
CleanAfterCrash == FALSE

\* A signal ends the process cleanly, a crashed worker with its exception.  When
\* both happened, the stopper may or may not have run before main looks.
MainEnds ==
    /\ agent = "running"
    /\ WakesMain
    /\ \/ stop /\ Exit(TRUE, 0)
       \/ "crashed" \in {hb, ms} /\ Exit(CleanAfterCrash, 0)
    /\ UNCHANGED world

-----------------------------------------------------------------------------
(* The heartbeat task *)

\* build_client loads the pair; an SSLError is not an httpx.HTTPError.
BuildClient ==
    /\ hb = "new"
    /\ hb' = IF fault = "pair" THEN "crashed" ELSE "registering"
    /\ UNCHANGED <<system, agent, ms, stop, attempt, delay, world>>

\* The POST is in flight and the controller handles it: 201, or 409 for a node it
\* already knows.
Serve ==
    /\ hb = "registering" /\ reachable
    /\ known' = TRUE
    /\ hb' = "answered"
    /\ UNCHANGED <<system, agent, ms, stop, attempt, delay, reachable, fault>>

\* The answer arrives.
Registered(wait) ==
    /\ hb = "answered"
    /\ hb' = "beating"
    /\ Pass(wait)
    /\ UNCHANGED <<unit, job, asked, requests, starts, gaveUp, agent, ms, stop, attempt, delay,
                   world>>

\* Mutant: without raise_for_status a 5xx passes for "already known".
NoRaise == "beating"

\* What the task does after a failed attempt: the HTTPError is caught.
AfterFailure == "sleeping"

\* No connection, a timeout or an error status, which may come after the row was
\* committed; or the answer is lost on its way.
RegisterFails(wait) ==
    /\ hb \in {"registering", "answered"} /\ ~reachable
    /\ known' \in {known, TRUE}
    /\ hb' = AfterFailure
    /\ attempt' = attempt + 1
    /\ Pass(wait)
    /\ UNCHANGED <<unit, job, asked, requests, starts, gaveUp, agent, ms, stop, delay,
                   reachable, fault>>

\* Mutants: a backoff that does not grow; one that grows without a cap.
ConstantDelay(d) == d
UncappedDelay(d) == (d * 18) \div 10

NextDelay(d) == IF (d * 18) \div 10 < MaxDelay THEN (d * 18) \div 10 ELSE MaxDelay

\* The sleep ends (there is one after the last attempt too): the next attempt, or
\* the RuntimeError.  It outlasts what takes no time: a server that comes up, a
\* signal or a crash that ends the process.
SleepEnds ==
    /\ hb = "sleeping" /\ ms = "listening" /\ job = "none"
    /\ Pass(delay)
    /\ delay' = NextDelay(delay)
    /\ \/ attempt < Attempts /\ hb' = "registering" /\ UNCHANGED gaveUp
       \/ attempt = Attempts /\ hb' = "crashed" /\ gaveUp' = TRUE
    /\ UNCHANGED <<unit, job, asked, requests, starts, agent, ms, stop, attempt, world>>

\* A heartbeat, successful or not: the loop goes on.  Its pause is not counted,
\* which makes windows look younger, the worse case for the start limit.
Beat(wait) ==
    /\ hb = "beating"
    /\ Pass(wait)
    /\ UNCHANGED <<unit, job, asked, requests, starts, gaveUp, process, world>>

-----------------------------------------------------------------------------
(* The metrics server task, the environment *)

\* build_ssl_context loads the pair, site.start binds the port.
ServeMetrics ==
    /\ ms = "new"
    /\ ms' = IF fault \in {"pair", "port"} THEN "crashed" ELSE "listening"
    /\ UNCHANGED <<system, agent, hb, stop, attempt, delay, world>>

Change ==
    /\ \/ reachable' = ~reachable /\ UNCHANGED fault
       \/ fault' \in Faults \ {fault} /\ UNCHANGED reachable
    /\ UNCHANGED <<system, process, known>>

HeartbeatTask ==
    \/ BuildClient
    \/ Serve
    \/ SleepEnds
    \/ \E d \in Durations : Registered(d) \/ RegisterFails(d) \/ Beat(d)

Gate == \E d \in Durations : GatePasses(d) \/ GateRefuses(d)

Next ==
    \/ AutoRestart
    \/ Stop \/ Restart \/ \E d \in {0, Past} : StartAgain(d)
    \/ Terminate
    \/ Gate
    \/ MainEnds
    \/ HeartbeatTask
    \/ ServeMetrics
    \/ Change

\* systemd acts, the event loop runs what is ready, every call and sleep ends.
Fairness ==
    /\ WF_vars(AutoRestart) /\ WF_vars(Terminate)
    /\ WF_vars(Gate) /\ WF_vars(MainEnds)
    /\ WF_vars(HeartbeatTask) /\ WF_vars(ServeMetrics)

Spec == Init /\ [][Next]_vars
FairSpec == Spec /\ Fairness

-----------------------------------------------------------------------------
(* Properties *)

UnitTyped ==
    /\ unit \in {"active", "auto-restart", "inactive", "failed", "start-limit-hit"}
    /\ job \in {"none", "stop", "restart"} /\ asked \in {"run", "stop"}
    /\ requests \in 0..MaxRequests
    /\ starts \in 1..Burst /\ windowAge \in 0..Past

ProcessTyped ==
    /\ agent \in {"none", "gate", "running"}
    /\ hb \in {"none", "new", "registering", "answered", "sleeping", "beating", "crashed"}
    /\ ms \in {"none", "new", "listening", "crashed"}
    /\ attempt \in 0..Attempts /\ delay \in FirstDelay..MaxDelay

FlagsTyped ==
    /\ stop \in BOOLEAN /\ gaveUp \in BOOLEAN /\ known \in BOOLEAN /\ reachable \in BOOLEAN
    /\ fault \in Faults

\* The shape of the state; the backoff stays under its cap.
TypeOK == UnitTyped /\ ProcessTyped /\ FlagsTyped

\* An outage of the controller, however long, does not put the unit out: runs that
\* give up registering are too long to be counted together (300 s, 10 starts).
OutageIsSurvived == unit = "start-limit-hit" => ~gaveUp

\* heartbeat.py: "The agent refuses to start beating before it's known to the
\* controller", lost answers and restarts included.
BeatsOnlyWhenKnown == hb = "beating" => known

\* The unit stays down only because it was asked to, or at the start limit.
StaysUp == unit \in {"inactive", "failed"} => asked = "stop"

\* A crashed worker, or a stop request, ends the process although the other
\* tasks would go on for ever.
ProcessEnds ==
    /\ "crashed" \in {hb, ms} ~> hb \in {"none", "new"}
    /\ job # "none" ~> job = "none"

\* Once nothing is wrong any more and the unit is meant to run, the agent gets
\* back to beating, whatever failed before; the start limit is the exception.
Recovers ==
    <>[](reachable /\ fault = "none" /\ asked = "run")
        => []<>(hb = "beating" \/ unit = "start-limit-hit")

\* RUNBOOK-reenroll.md: after the new certificate, "Restart the agent (it
\* re-registers idempotently and resumes heartbeats)".
RestartStartsTheAgent ==
    [][requests' # requests /\ asked' = "run" /\ fault = "none"
        => unit' = "active"]_vars
=============================================================================
