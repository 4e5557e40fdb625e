----------------------------- MODULE NodeRenewal -----------------------------
(***************************************************************************)
(* The certificate of one node: the pair of certificate and key on disk,   *)
(* the copy the agent loaded when it started, renew-cert.sh with its timer, *)
(* and enrolment from the controller (20-enroll.yml, 30-agent.yml or the   *)
(* runbook).  Hours pass in Tick; the script, a start of the agent and an  *)
(* enrolment take minutes and happen between two ticks, in any order.      *)
(*                                                                         *)
(* Abstracted: a certificate to the key it certifies and its remaining     *)
(* lifetime; the agent's run to "active with what it loaded" (NodeAgent.tla *)
(* has the rest, the counting of the start limit included).  `step` writes *)
(* a file in one piece.  The files exist: the timer is installed after the *)
(* enrolment.                                                              *)
(***************************************************************************)
EXTENDS Naturals

CONSTANTS
    Life,         \* lifetime of a node certificate (168h)
    Threshold,    \* RENEW_THRESHOLD (48h)
    Period,       \* the timer's OnUnitActiveSec (8h)
    MaxOff,       \* the longest the node stays powered off
    MaxFailures,  \* bounds the failures of step, the CA and systemctl
    MaxEnrols,    \* bounds the enrolments after the first
    NoCert

ASSUME RenewalAssumption ==
    /\ Life \in Nat /\ Threshold \in Nat /\ Period \in Nat \ {0}
    /\ Threshold < Life
ASSUME FaultsAssumption == MaxOff \in Nat /\ MaxFailures \in Nat /\ MaxEnrols \in Nat

Keys == 1..(MaxEnrols + 1)
Cert == [key : Keys, left : 0..Life]
ASSUME NoCertAssumption == NoCert \notin Cert

VARIABLES
    power,      \* whether the node is on
    offFor,     \* how long it has been off
    crt, key,   \* THESIS_CLIENT_CERT and THESIS_CLIENT_KEY on disk
    unit,       \* the agent's unit: "active", "auto-restart" or "down"
    loaded,     \* the certificate in the running agent's SSL contexts
    script,     \* renew-cert.sh: "idle", "renewing", "renewed"
    auth,       \* the key `step ca renew` authenticates with, 0 if it cannot
    next,       \* time to the timer's next run
    enrol,      \* the enrolment: "none", "signed", "crt" or "key" installed
    enrols,
    failures,
    unserved,   \* history: time since a run that found or made the certificate good
    owed,       \* history: a certificate was installed that no start followed, by
                \* an enrolment or by a renewal whose restart failed
    torn        \* history: an enrolment broke off between its two files, or met
                \* a renewal in flight

node   == <<power, offFor>>
files  == <<crt, key>>
agent  == <<unit, loaded>>
run    == <<script, auth, next>>
enrolment == <<enrol, enrols>>
vars   == <<power, offFor, crt, key, unit, loaded, script, auth, next, enrol, enrols,
            failures, unserved, owed, torn>>

\* Enrolled, and just started.
Init ==
    /\ power = "on" /\ offFor = 0
    /\ crt = [key |-> 1, left |-> Life] /\ key = 1
    /\ unit = "active" /\ loaded = crt
    /\ script = "idle" /\ auth = 0 /\ next = 0
    /\ enrol = "none" /\ enrols = 0 /\ failures = 0
    /\ unserved = 0 /\ owed = FALSE /\ torn = FALSE

Fail == failures < MaxFailures /\ failures' = failures + 1

-----------------------------------------------------------------------------
(* The agent *)

Usable == crt.left > 0 /\ crt.key = key

\* A start: cert_guard refuses an expired certificate, load_cert_chain a pair
\* that does not match; either ends the process.
StartAgent ==
    /\ unit' = IF Usable THEN "active" ELSE "auto-restart"
    /\ loaded' = IF Usable THEN crt ELSE NoCert
    /\ owed' = FALSE

\* Mutant: a refused restart that leaves the old process running.
RefusedBeforeStop == unit' = "down" /\ UNCHANGED <<loaded, owed>>

\* systemd has refused the start: its limit is reached.
Refused == unit' = "down" /\ loaded' = NoCert /\ UNCHANGED owed

AutoRestart ==
    /\ unit = "auto-restart"
    /\ StartAgent \/ Refused
    /\ UNCHANGED <<node, files, run, enrolment, failures, unserved, torn>>

\* A worker crashes, for example after ten failed registrations.  A heartbeat
\* that fails, an expired certificate included, crashes nothing.
Crash ==
    /\ unit = "active"
    /\ unit' = "auto-restart" /\ loaded' = NoCert
    /\ UNCHANGED <<node, files, run, enrolment, failures, unserved, owed, torn>>

-----------------------------------------------------------------------------
(* renew-cert.sh *)

Due == power = "on" /\ script = "idle" /\ next = 0

\* Mutant: half the threshold.
LateRenewal  == crt.left < Threshold \div 2

\* step certificate needs-renewal --expires-in
NeedsRenewal == crt.left < Threshold

\* Outside the window: exit 0.
NotNeeded ==
    /\ Due /\ ~NeedsRenewal
    /\ next' = Period /\ unserved' = 0
    /\ UNCHANGED <<node, files, agent, script, auth, enrolment, failures, owed, torn>>

\* A needs-renewal that fails is taken for "no renewal needed".
CheckFails ==
    /\ Due /\ Fail
    /\ next' = Period
    /\ UNCHANGED <<node, files, agent, script, auth, enrolment, unserved, owed, torn>>

\* `step ca renew` reads the pair and calls the CA.
BeginRenewal ==
    /\ Due /\ NeedsRenewal
    /\ script' = "renewing" /\ next' = Period
    /\ auth' = IF Usable THEN key ELSE 0
    /\ UNCHANGED <<node, files, agent, enrolment, failures, unserved, owed, torn>>

\* Mutant: a renewal with a new key, which is not written to the key file.
Rekeyed(k) == [key |-> IF k = 1 THEN 2 ELSE 1, left |-> Life]

\* The renewed certificate: same key, a whole lifetime.
Renewed(k) == [key |-> k, left |-> Life]

RenewalSucceeds ==
    /\ script = "renewing" /\ auth # 0
    /\ crt' = Renewed(auth)
    /\ script' = "renewed" /\ auth' = 0 /\ unserved' = 0
    /\ UNCHANGED <<node, key, agent, next, enrolment, failures, owed, torn>>

\* Refused for want of a valid certificate, or failed: exit 1, and no fallback.
RenewalFails ==
    /\ script = "renewing"
    /\ \/ auth = 0 /\ UNCHANGED failures
       \/ auth # 0 /\ Fail
    /\ script' = "idle" /\ auth' = 0
    /\ UNCHANGED <<node, files, agent, next, enrolment, unserved, owed, torn>>

\* Mutants: only units that are not active are restarted; a health probe over
\* mTLS in place of is-active, which an expired certificate fails.
IsInactive == unit # "active"
IsHealthy  == unit = "active" /\ loaded.left > 0

\* systemctl is-active --quiet
IsActive == unit = "active"

\* The agent is restarted if it is active; a restart that fails (sudo, the
\* start limit) is a warning.
RestartAgent ==
    /\ script = "renewed" /\ script' = "idle"
    /\ \/ ~IsActive /\ UNCHANGED <<agent, owed, failures>>
       \/ IsActive /\ StartAgent /\ UNCHANGED failures
       \/ IsActive /\ Fail /\ owed' = TRUE /\ UNCHANGED agent
       \/ IsActive /\ Fail /\ Refused
    /\ UNCHANGED <<node, files, auth, next, enrolment, unserved, torn>>

-----------------------------------------------------------------------------
(* Enrolment *)

\* A new key on the node, its CSR signed by the CA.
Sign ==
    /\ power = "on" /\ enrol = "none" /\ enrols < MaxEnrols
    /\ enrol' = "signed" /\ enrols' = enrols + 1
    /\ UNCHANGED <<node, files, agent, run, failures, unserved, owed, torn>>

\* The certificate first, ...
InstallCrt ==
    /\ enrol = "signed" /\ enrol' = "crt"
    /\ crt' = [key |-> enrols + 1, left |-> Life]
    /\ owed' = TRUE /\ torn' = (script = "renewing")
    /\ UNCHANGED <<node, key, agent, run, enrols, failures, unserved>>

\* ... then the key ...
InstallKey ==
    /\ enrol = "crt" /\ enrol' = "key"
    /\ key' = enrols + 1
    /\ torn' = (torn \/ script = "renewing")
    /\ UNCHANGED <<node, crt, agent, run, enrols, failures, unserved, owed>>

\* ... and then the agent is restarted (30-agent.yml, the runbook).
RestartEnrolled ==
    /\ enrol = "key" /\ enrol' = "none"
    /\ StartAgent \/ Refused
    /\ UNCHANGED <<node, files, run, enrols, failures, unserved, torn>>

\* A task fails, the host is lost: the play ends there.
BreakOff == enrol' = "none" /\ torn' = (torn \/ enrol = "crt")

Abort ==
    /\ enrol # "none" /\ BreakOff
    /\ UNCHANGED <<node, files, agent, run, enrols, failures, unserved, owed>>

-----------------------------------------------------------------------------
(* Power and time *)

\* Power lost before the script has run, or while it runs, counts as a failure.
PowerOff ==
    /\ power = "on" /\ power' = "off" /\ offFor' = 0
    /\ IF Due \/ script # "idle" THEN Fail ELSE UNCHANGED failures
    /\ unit' = "down" /\ loaded' = NoCert
    /\ script' = "idle" /\ auth' = 0
    /\ BreakOff
    /\ UNCHANGED <<files, next, enrols, unserved, owed>>

\* The agent starts at boot, the script two minutes later (OnBootSec).
Boot ==
    /\ power = "off" /\ power' = "on" /\ offFor' = 0
    /\ next' = 0
    /\ StartAgent
    /\ UNCHANGED <<files, script, auth, enrolment, failures, unserved, torn>>

\* notAfter comes closer.
Aged(c) == IF c = NoCert \/ c.left = 0 THEN c ELSE [c EXCEPT !.left = @ - 1]

\* An hour or more passes, once nothing is under way that takes minutes.
Tick ==
    /\ script = "idle" /\ enrol = "none" /\ unit # "auto-restart"
    /\ \/ power = "on" /\ next > 0 /\ next' = next - 1 /\ UNCHANGED offFor
       \/ power = "off" /\ offFor < MaxOff /\ offFor' = offFor + 1 /\ UNCHANGED next
    /\ crt' = Aged(crt) /\ loaded' = Aged(loaded)
    /\ unserved' = IF unserved < Threshold THEN unserved + 1 ELSE unserved
    /\ UNCHANGED <<power, key, unit, script, auth, enrolment, failures, owed, torn>>

Script == NotNeeded \/ CheckFails \/ BeginRenewal \/ RenewalSucceeds \/ RenewalFails \/ RestartAgent
Enrolment == Sign \/ InstallCrt \/ InstallKey \/ RestartEnrolled \/ Abort

Next ==
    \/ AutoRestart \/ Crash
    \/ Script
    \/ Enrolment
    \/ PowerOff \/ Boot
    \/ Tick

\* systemd acts, the script and an enrolment under way come to an end, time passes.
Fairness ==
    /\ WF_vars(AutoRestart) /\ WF_vars(Script) /\ WF_vars(Tick)
    /\ WF_vars(InstallCrt \/ InstallKey \/ RestartEnrolled \/ Abort)

Spec == Init /\ [][Next]_vars
FairSpec == Spec /\ Fairness

-----------------------------------------------------------------------------
(* Properties *)

CertsTyped == crt \in Cert /\ key \in Keys /\ loaded \in Cert \cup {NoCert} /\ auth \in Keys \cup {0}

ControlTyped ==
    /\ power \in {"on", "off"} /\ unit \in {"active", "auto-restart", "down"}
    /\ script \in {"idle", "renewing", "renewed"} /\ enrol \in {"none", "signed", "crt", "key"}

CountsTyped ==
    /\ next \in 0..Period /\ offFor \in 0..MaxOff
    /\ enrols \in 0..MaxEnrols /\ failures \in 0..MaxFailures /\ unserved \in 0..Threshold

\* The shape of the state; an agent is active exactly with a certificate loaded.
TypeOK ==
    /\ CertsTyped /\ ControlTyped /\ CountsTyped
    /\ owed \in BOOLEAN /\ torn \in BOOLEAN
    /\ unit = "active" <=> loaded # NoCert

\* A certificate lapses only after Threshold without a working run of the
\* script: the node was off, or step and the CA failed, for that long.
LapsesOnlyUnserved == crt.left = 0 => unserved = Threshold

\* Certificate and key on disk belong together, unless an enrolment is between
\* its two files, broke off there, or met a `step ca renew` in flight: the
\* renewal then writes a certificate for the old key beside the new key.
PairMatches == crt.key # key => enrol = "crt" \/ torn

\* renew-cert.sh: "Agent caches its SSLContext at startup; restart to load the
\* new cert".  The running agent holds the certificate on disk, unless its
\* restart is still to come, failed with the warning, or was left out by an
\* enrolment that broke off.
HoldsNewest == unit = "active" /\ loaded # crt => script = "renewed" \/ owed

\* On a node that stays on, with a usable pair time and again, the running agent
\* ends up with a certificate that never expires on it, failed restarts
\* notwithstanding: a later renewal makes up for them.
NeverExpiresInUse ==
    <>[](power = "on") /\ []<>Usable => <>[](unit = "active" => loaded.left > 0)

\* RUNBOOK-reenroll.md: "The 7-day cert lifetime is sized so that a power-on at
\* least once per week lets `step ca renew` (timer + renew-on-boot) keep the
\* cert alive indefinitely".
WeeklyPowerOnSuffices == MaxOff < Life /\ failures = 0 => crt.left > 0
=============================================================================
