--------------------------- MODULE ServiceRenewal ---------------------------
(***************************************************************************)
(* renew-certs.sh on the controller host: every Period, and after a boot,  *)
(* it renews the controller's and Prometheus's certificates and brings     *)
(* them to their users, nginx by a copy and a reload, Prometheus by SIGHUP. *)
(*                                                                         *)
(* `renew_cert ... || log` switches errexit off inside renew_cert: no      *)
(* command that fails ends the pass, the next one runs.  Hours pass in     *)
(* Tick; a run of the script takes minutes, and a power loss or a          *)
(* container's stop or start may come between any two of its commands.     *)
(*                                                                         *)
(* Abstracted: a certificate to its key and remaining lifetime; `step` (in *)
(* a container of its own) writes certificate and key together; chmod and  *)
(* the test that docker runs the user are part of the command they guard.  *)
(***************************************************************************)
EXTENDS Naturals

CONSTANTS
    Life,       \* LIFETIME (24h)
    Threshold,  \* RENEW_THRESHOLD (8h)
    Period,     \* the timer's OnUnitActiveSec (8h)
    Slack,      \* how late a due run may start, and how long it takes
    Keys,       \* keys are told apart modulo this
    MaxFaults,  \* bounds failing commands, interrupted runs and stopping containers
    NoCert

ASSUME TimesAssumption ==
    /\ Life \in Nat /\ Threshold \in Nat \ {0} /\ Period \in Nat \ {0} /\ Slack \in Nat
    /\ Threshold <= Life
ASSUME BoundsAssumption == Keys \in Nat \ {0} /\ MaxFaults \in Nat

Names == {"controller", "prometheus"}
Cert  == [key : 0..(Keys - 1), left : 0..Life]
ASSUME NoCertAssumption == NoCert \notin Cert

\* The longest an expired certificate is in use when no command fails: after a
\* boot the run is at most Slack away; a run that just does not renew leaves
\* Threshold, and the next comes within Period + Slack.
MaxLapse == IF Period > Threshold THEN Period + Slack - Threshold ELSE Slack

VARIABLES
    power,
    issued,    \* step-ca/issued/<name>/<name>.crt with its key
    copy,      \* nginx/certs/server.crt, and the key of server.key
    loaded,    \* what nginx and Prometheus use; NoCert while one is down
    timer,     \* time since the last run
    at,        \* the script's next command
    cur,       \* the certificate it is about
    said,      \* what it has logged of this certificate
    faults,
    troubled,  \* history: a command for this certificate failed since its user
               \* last took one that was not yet to be renewed
    lapse      \* history: how long an expired one has been in use

script == <<timer, at, cur, said>>
vars   == <<power, issued, copy, loaded, timer, at, cur, said, faults, troubled, lapse>>

Fresh == [key |-> 0, left |-> Life]

Init ==
    /\ power = "on"
    /\ issued = [c \in Names |-> Fresh] /\ copy = [crt |-> Fresh, key |-> 0]
    /\ loaded = issued
    /\ timer = 0 /\ at = "idle" /\ cur = "controller" /\ said = "none"
    /\ faults = 0 /\ troubled = [c \in Names |-> FALSE] /\ lapse = [c \in Names |-> 0]

\* A command for c fails.
Fault(c) ==
    /\ faults < MaxFaults /\ faults' = faults + 1
    /\ troubled' = [troubled EXCEPT ![c] = TRUE]

Works == UNCHANGED <<faults, troubled>>

\* Mutant: a failed certificate ends the run.
StopsAtTrouble ==
    /\ cur' = "prometheus" /\ said' = "none"
    /\ at' = IF cur = "controller" /\ ~troubled[cur] THEN "check" ELSE "idle"

\* The loop over CERTS: controller, then prometheus.
NextCert ==
    /\ cur' = "prometheus" /\ said' = "none"
    /\ at' = IF cur = "controller" THEN "check" ELSE "idle"

-----------------------------------------------------------------------------
(* renew_cert *)

RunStarts ==
    /\ power = "on" /\ at = "idle" /\ timer >= Period
    /\ at' = "check" /\ cur' = "controller" /\ timer' = 0
    /\ UNCHANGED <<power, issued, copy, loaded, said, faults, troubled, lapse>>

\* Mutant: a failed pass leaves a marker behind that later ones respect.
SkipsTroubled == ~troubled[cur] /\ issued[cur].left < Threshold

\* step certificate needs-renewal --expires-in
NeedsRenewal == issued[cur].left < Threshold

\* "still outside renewal window, skipping", also when the check itself fails.
Skip ==
    /\ at = "check"
    /\ \/ ~NeedsRenewal /\ Works
       \/ Fault(cur)
    /\ NextCert
    /\ UNCHANGED <<power, issued, copy, loaded, timer, lapse>>

Logged(what) == said' = what /\ at' = "post" /\ UNCHANGED <<power, copy, loaded, timer, cur, lapse>>

\* Mutant: the new lifetime is added to what is left.
Extended(c) == [c EXCEPT !.left = @ + Life]

\* What step ca renew writes: the same key, a whole lifetime.
Renewed(c) == [c EXCEPT !.left = Life]

\* Cert-to-cert renewal, which needs a valid certificate.
Renew ==
    /\ at = "check" /\ NeedsRenewal
    /\ issued[cur].left > 0
    /\ issued' = [issued EXCEPT ![cur] = Renewed(@)]
    /\ Works
    /\ Logged("renewed")

\* What step ca certificate writes: a new key, a whole lifetime.
Reissued(c) == [key |-> (c.key + 1) % Keys, left |-> Life]

\* The fallback for a failed renewal: expired, or the call failed.
Reissue ==
    /\ at = "check" /\ NeedsRenewal
    /\ \/ issued[cur].left = 0 /\ Works
       \/ issued[cur].left > 0 /\ Fault(cur)
    /\ issued' = [issued EXCEPT ![cur] = Reissued(@)]
    /\ Logged("issued")

\* Both fail; the pass goes on all the same.
ReissueFails ==
    /\ at = "check" /\ NeedsRenewal
    /\ Fault(cur)
    /\ Logged("issued") /\ UNCHANGED issued

-----------------------------------------------------------------------------
(* post_controller, post_prometheus *)

CopyCrt ==
    /\ at = "post" /\ cur = "controller"
    /\ \/ copy' = [copy EXCEPT !.crt = issued[cur]] /\ Works
       \/ Fault(cur) /\ UNCHANGED copy
    /\ at' = "copy key"
    /\ UNCHANGED <<power, issued, loaded, timer, cur, said, lapse>>

CopyKey ==
    /\ at = "copy key"
    /\ \/ copy' = [copy EXCEPT !.key = issued[cur].key] /\ Works
       \/ Fault(cur) /\ UNCHANGED copy
    /\ at' = "reload"
    /\ UNCHANGED <<power, issued, loaded, timer, cur, said, lapse>>

\* Not yet to be renewed.
Ample(c) == c.left >= Threshold

\* Files that their user can start with or reload.
Material(c) == IF c = "controller" THEN copy.crt ELSE issued[c]
Loadable(c) == c = "controller" => copy.crt.key = copy.key

\* c's user takes its files.
Load(c) ==
    /\ loaded' = [loaded EXCEPT ![c] = Material(c)]
    /\ lapse' = [lapse EXCEPT ![c] = IF Material(c).left > 0 THEN 0 ELSE @]
    /\ troubled' = [troubled EXCEPT ![c] = @ /\ ~(Material(c) = issued[c] /\ Ample(issued[c]))]

\* docker ps --filter status=running
Running(c) == loaded[c] # NoCert

\* nginx -s reload, which keeps the old configuration when the new one is bad;
\* kill -HUP 1.
Reload ==
    /\ at = IF cur = "controller" THEN "reload" ELSE "post"
    /\ \/ Running(cur) /\ Loadable(cur) /\ Load(cur) /\ UNCHANGED faults
       \/ ~(Running(cur) /\ Loadable(cur)) /\ Works /\ UNCHANGED <<loaded, lapse>>
       \/ Fault(cur) /\ UNCHANGED <<loaded, lapse>>
    /\ NextCert
    /\ UNCHANGED <<power, issued, copy, timer>>

-----------------------------------------------------------------------------
(* The host *)

\* A container stops (a crash, an operator): no fault of its certificate.
ContainerStops(c) ==
    /\ power = "on" /\ Running(c)
    /\ loaded' = [loaded EXCEPT ![c] = NoCert]
    /\ faults < MaxFaults /\ faults' = faults + 1
    /\ UNCHANGED <<power, issued, copy, script, troubled, lapse>>

\* restart: unless-stopped.  nginx does not start with a pair that does not match.
ContainerStarts(c) ==
    /\ power = "on" /\ ~Running(c) /\ Loadable(c)
    /\ Load(c)
    /\ UNCHANGED <<power, issued, copy, script, faults>>

\* A power loss in the middle of a certificate is a fault of that certificate.
PowerOff ==
    /\ power = "on" /\ power' = "off"
    /\ IF at \in {"idle", "check"} THEN Works ELSE Fault(cur)
    /\ loaded' = [c \in Names |-> NoCert] /\ lapse' = [c \in Names |-> 0]
    /\ at' = "idle" /\ said' = "none"
    /\ UNCHANGED <<issued, copy, timer, cur>>

\* The stack comes up; the script is due (OnBootSec).
Boot ==
    /\ power = "off" /\ power' = "on"
    /\ timer' = Period
    /\ UNCHANGED <<issued, copy, loaded, at, cur, said, faults, troubled, lapse>>

\* notAfter comes closer.
Aged(c) == IF c = NoCert \/ c.left = 0 THEN c ELSE [c EXCEPT !.left = @ - 1]

\* c's user works with an expired certificate.
Expired(c) == Running(c) /\ loaded[c].left = 0

\* Hours pass, once the script is done and docker has started what it can.
Tick ==
    /\ at = "idle"
    /\ power = "on" => \A c \in Names : Loadable(c) => Running(c)
    /\ \/ power = "on" /\ timer < Period + Slack /\ timer' = timer + 1
       \/ power = "off" /\ UNCHANGED timer
    /\ issued' = [c \in Names |-> Aged(issued[c])]
    /\ copy' = [copy EXCEPT !.crt = Aged(@)]
    /\ loaded' = [c \in Names |-> Aged(loaded[c])]
    /\ lapse' = [c \in Names |-> IF ~Expired(c) THEN 0
                                 ELSE IF lapse[c] <= MaxLapse THEN lapse[c] + 1 ELSE lapse[c]]
    /\ UNCHANGED <<power, at, cur, said, faults, troubled>>

Script == RunStarts \/ Skip \/ Renew \/ Reissue \/ ReissueFails \/ CopyCrt \/ CopyKey \/ Reload

Next ==
    \/ Script
    \/ \E c \in Names : ContainerStops(c) \/ ContainerStarts(c)
    \/ PowerOff \/ Boot
    \/ Tick

\* The timer fires, the script goes on, docker restarts what stopped, time passes.
Fairness ==
    /\ WF_vars(Script) /\ WF_vars(Tick)
    /\ \A c \in Names : WF_vars(ContainerStarts(c))

Spec == Init /\ [][Next]_vars
FairSpec == Spec /\ Fairness

-----------------------------------------------------------------------------
(* Properties *)

CertsTyped ==
    /\ issued \in [Names -> Cert] /\ loaded \in [Names -> Cert \cup {NoCert}]
    /\ copy \in [crt : Cert, key : 0..(Keys - 1)]

\* The shape of the state.
TypeOK ==
    /\ CertsTyped
    /\ power \in {"on", "off"} /\ timer \in 0..(Period + Slack)
    /\ at \in {"idle", "check", "post", "copy key", "reload"} /\ cur \in Names
    /\ said \in {"none", "renewed", "issued"}
    /\ faults \in 0..MaxFaults
    /\ troubled \in [Names -> BOOLEAN] /\ lapse \in [Names -> 0..(MaxLapse + 1)]

\* An expired certificate is in use for longer than MaxLapse only if a command
\* for that very certificate failed: power cuts, container restarts and what
\* goes wrong with the other certificate do not make it so.
LapseBounded == \A c \in Names : lapse[c] > MaxLapse => troubled[c]

\* Failures are made up for by later runs although the run after a failed
\* post-action finds a fresh certificate and skips it: on a host that stays on,
\* both users come to run with valid certificates, and lapses to stay in bounds.
Heals ==
    <>[](power = "on") =>
        \A c \in Names : /\ []<>(Running(c) /\ ~Expired(c))
                         /\ <>[](lapse[c] <= MaxLapse)

\* renew-certs.sh: "fresh cert issued via $provisioner".
IssuedIsFresh == said = "issued" => issued[cur].left = Life
=============================================================================
