------------------------------ MODULE CrlCache ------------------------------
(***************************************************************************)
(* How a revocation reaches the controller: step-ca publishes a CRL every  *)
(* Gen time units, one background task of the controller fetches it,       *)
(* installs the serials and sleeps, and the cache it fills dies with the   *)
(* process.  Requests read the cache (Controller.tla's revoked_serials).   *)
(*                                                                         *)
(* Time is discrete.  Ages stop growing at Horizon, past every bound the   *)
(* properties use.  step-ca is external: what the controller sees of it is *)
(* a CRL at most Gen old, or a failed fetch (CA down, TLS, bad DER).       *)
(***************************************************************************)
EXTENDS Naturals

CONSTANTS
    Serials,
    Gen,          \* step-ca's CRL generation interval
    Interval,     \* settings.crl_refresh_seconds
    FetchTime,    \* the longest a fetch is in flight: httpx bounds connecting,
                  \* the TLS handshake and each read, and a CRL is one read
    MaxFailures,  \* bounds the consecutive failed fetches
    MaxRestarts   \* bounds the restarts of the controller

ASSUME TimesAssumption ==
    Gen \in Nat \ {0} /\ Interval \in Nat \ {0} /\ FetchTime \in Nat \ {0}
ASSUME BoundsAssumption == MaxFailures \in Nat /\ MaxRestarts \in Nat

\* One round of the loop, and how old a cache can be after k failed rounds.
Round       == Interval + FetchTime
MaxLag(k)   == FetchTime + (k + 1) * Round
\* How long after a boot, with k failures, the first fetch can still be missing.
BootLag(k)  == FetchTime + k * Round
Horizon     == Gen + MaxLag(MaxFailures) + 1

Older(t) == IF t < Horizon THEN t + 1 ELSE t

VARIABLES
    revoked,    \* serials revoked at the CA and not expired
    age,        \* per serial, time since its revocation
    expired,    \* revoked serials whose certificate has expired since
    crl,        \* the published CRL
    crlAge,     \* time since it was generated
    phase,      \* the refresh task: "fetching", "answered", "sleeping"
    timer,      \* time since the fetch or the sleep began
    reply,      \* the CRL the CA has answered with, not yet installed
    cache,      \* revocation._revoked_serials
    failures,   \* history: failed fetches since the last good one or the boot
    bootAge,    \* history: time since the process started
    restarts

ca   == <<revoked, age, expired, crl, crlAge>>
task == <<phase, timer, reply, cache, failures>>
vars == <<revoked, age, expired, crl, crlAge, phase, timer, reply, cache, failures,
          bootAge, restarts>>

Init ==
    /\ revoked = {} /\ expired = {} /\ age = [s \in Serials |-> 0]
    /\ crl = {} /\ crlAge = 0
    /\ phase = "fetching" /\ timer = 0 /\ reply = {}
    /\ cache = {} /\ failures = 0
    /\ bootAge = 0 /\ restarts = 0

-----------------------------------------------------------------------------
(* The certificate authority *)

\* step ca revoke: known to the CA at once, to nobody else yet.
Revoke(s) ==
    /\ s \notin revoked \cup expired
    /\ revoked' = revoked \cup {s}
    /\ age' = [age EXCEPT ![s] = 0]
    /\ UNCHANGED <<expired, crl, crlAge, task, bootAge, restarts>>

\* A revoked certificate reaches its notAfter: the CRL drops it, nginx refuses it.
Expire(s) ==
    /\ s \in revoked
    /\ revoked' = revoked \ {s}
    /\ expired' = expired \cup {s}
    /\ UNCHANGED <<age, crl, crlAge, task, bootAge, restarts>>

\* A new CRL, at the latest Gen after the previous one.
Generate ==
    /\ crlAge > 0
    /\ crl' = revoked
    /\ crlAge' = 0
    /\ UNCHANGED <<revoked, age, expired, task, bootAge, restarts>>

-----------------------------------------------------------------------------
(* periodic_crl_refresh *)

\* The CA answers the GET with the CRL it publishes at that moment.
Serve ==
    /\ phase = "fetching"
    /\ phase' = "answered"
    /\ reply' = crl
    /\ UNCHANGED <<ca, timer, cache, failures, bootAge, restarts>>

Sleep == phase' = "sleeping" /\ timer' = 0 /\ reply' = {}

\* The answer is parsed and replaces the cache.
Install ==
    /\ phase = "answered"
    /\ cache' = reply
    /\ failures' = 0
    /\ Sleep
    /\ UNCHANGED <<ca, bootAge, restarts>>

\* Mutant: a failed fetch is treated as an empty list.
FailOpen == {}

\* What stays in the cache after a failed fetch: the last good one.
LastGood == cache

\* Any exception, before or after the CA's answer: timeout, TLS, status, DER.
FetchFails ==
    /\ phase \in {"fetching", "answered"}
    /\ failures < MaxFailures
    /\ failures' = failures + 1
    /\ cache' = LastGood
    /\ Sleep
    /\ UNCHANGED <<ca, bootAge, restarts>>

\* Mutant: an exception ends the task, for nothing restarts it.
WakesIfHealthy == failures = 0

\* The loop goes round after a failure as after a success.
WakesUp == TRUE

Wake ==
    /\ phase = "sleeping"
    /\ timer = Interval
    /\ WakesUp
    /\ phase' = "fetching" /\ timer' = 0
    /\ UNCHANGED <<ca, reply, cache, failures, bootAge, restarts>>

-----------------------------------------------------------------------------
(* The process and the clock *)

\* The controller restarts: the cache is empty until the first good fetch, and
\* requests are served meanwhile.
Restart ==
    /\ restarts < MaxRestarts
    /\ restarts' = restarts + 1
    /\ phase' = "fetching" /\ timer' = 0 /\ reply' = {}
    /\ cache' = {} /\ failures' = 0 /\ bootAge' = 0
    /\ UNCHANGED ca

\* Mutant: the fetch has no timeout.
NoTimeout == IF phase = "sleeping" THEN Interval ELSE Horizon

PhaseLimit == IF phase = "sleeping" THEN Interval ELSE FetchTime

\* Time passes unless something is due.
Tick ==
    /\ crlAge < Gen
    /\ timer < PhaseLimit
    /\ crlAge' = crlAge + 1
    /\ timer' = timer + 1
    /\ age' = [s \in Serials |-> IF s \in revoked THEN Older(age[s]) ELSE age[s]]
    /\ bootAge' = Older(bootAge)
    /\ UNCHANGED <<revoked, expired, crl, phase, reply, cache, failures, restarts>>

Next ==
    \/ \E s \in Serials : Revoke(s) \/ Expire(s)
    \/ Generate
    \/ Serve \/ Install \/ FetchFails \/ Wake
    \/ Restart
    \/ Tick

\* Time passes, the CA renews its CRL, and each fetch ends one way or the other.
Fairness ==
    /\ WF_vars(Tick) /\ WF_vars(Generate)
    /\ WF_vars(Serve) /\ WF_vars(Install \/ FetchFails) /\ WF_vars(Wake)

Spec == Init /\ [][Next]_vars
FairSpec == Spec /\ Fairness

-----------------------------------------------------------------------------
(* Properties *)

\* The shape of the state; the clocks stay within their limits.
TypeOK ==
    /\ revoked \subseteq Serials /\ expired \subseteq Serials
    /\ age \in [Serials -> 0..Horizon]
    /\ crl \subseteq Serials /\ cache \subseteq Serials
    /\ crlAge \in 0..Gen
    /\ phase \in {"fetching", "answered", "sleeping"}
    /\ timer \in 0..(IF phase = "sleeping" THEN Interval ELSE FetchTime)
    /\ reply \subseteq Serials
    /\ failures \in 0..MaxFailures
    /\ bootAge \in 0..Horizon /\ restarts \in 0..MaxRestarts

\* A serial revoked longer ago than a CRL generation and the loop's rounds since
\* its last good fetch account for is refused, unless the process is too young
\* to have completed a fetch.
StalenessBounded ==
    \A s \in revoked :
        age[s] > Gen + MaxLag(failures) /\ bootAge > BootLag(failures) => s \in cache

\* A serial the controller refuses stays refused until its certificate expires
\* or the process restarts: failed fetches and late answers never bring it back.
NeverForgets ==
    [][\A s \in cache \ cache' : s \in expired \/ restarts' # restarts]_vars

\* Once revoked at the CA, a serial is refused in the end, or expires.
EventuallyRefused == \A s \in Serials : s \in revoked ~> s \in cache \cup expired
=============================================================================
