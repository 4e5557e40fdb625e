--------------------------- MODULE CrlCacheProofs ---------------------------
(* Type correctness, the staleness bound and NeverForgets of CrlCache, for     *)
(* every set of serials, every period and any number of failures and restarts. *)
EXTENDS CrlCache, TLAPS

(***************************************************************************)
(* What each copy of the revocations can miss.  The CRL misses what is     *)
(* younger than itself; an answer on its way what is younger than the CRL  *)
(* it was taken from and the fetch; the cache what is younger than that    *)
(* and the loop's time since, or anything while the process has not had    *)
(* the time to fetch.                                                      *)
(***************************************************************************)
CrlMisses   == \A s \in revoked : s \in crl \/ age[s] <= crlAge
ReplyMisses == phase = "answered" => \A s \in revoked : s \in reply \/ age[s] <= Gen + timer

\* The time the loop has spent since its last good fetch, had that taken none.
Elapsed == failures * Round + timer + (IF phase = "sleeping" THEN 0 ELSE Interval)

CacheMisses ==
    \A s \in revoked :
        \/ s \in cache
        \/ age[s] <= Gen + FetchTime + Elapsed
        \/ bootAge + Interval <= Elapsed

SInv == TypeOK /\ CrlMisses /\ ReplyMisses /\ CacheMisses

(***************************************************************************)
(* Serials leave the CA's list only by expiring, and each copy is at least *)
(* as old as the one it was made from.                                     *)
(***************************************************************************)
InOrder ==
    /\ crl \subseteq revoked \cup expired
    /\ reply \subseteq crl \cup expired
    /\ cache \subseteq crl \cup expired
    /\ phase = "answered" => cache \subseteq reply \cup expired

-----------------------------------------------------------------------------
(* Times *)

LEMMA TimesTyped ==
    /\ Round \in Nat /\ Round = Interval + FetchTime /\ Interval \in Nat /\ FetchTime \in Nat
    /\ Gen \in Nat /\ Gen > 0 /\ Interval > 0 /\ FetchTime > 0
  BY TimesAssumption DEF Round

\* A round more is a failure more.
LEMMA RoundsAdd ==
    ASSUME NEW k \in Nat
    PROVE  /\ k * Round \in Nat
           /\ (k + 1) * Round = k * Round + Round
  BY TimesTyped

LEMMA HorizonTyped == Horizon \in Nat /\ Horizon > Gen
  <1>1. (MaxFailures + 1) * Round \in Nat
    BY RoundsAdd, TimesTyped, BoundsAssumption
  <1> QED BY <1>1, TimesTyped DEF Horizon, MaxLag

LEMMA OlderTyped ==
    ASSUME NEW t \in 0..Horizon
    PROVE  Older(t) \in 0..Horizon /\ Older(t) <= t + 1
  BY HorizonTyped DEF Older

-----------------------------------------------------------------------------
(* Types *)

LEMMA TypeInit == Init => TypeOK
  BY HorizonTyped, TimesTyped, BoundsAssumption DEF Init, TypeOK

LEMMA TypeStep ==
    ASSUME TypeOK, [Next]_vars
    PROVE  TypeOK'
  <1> USE HorizonTyped, TimesTyped, BoundsAssumption DEF TypeOK, ca, task
  <1> USE DEF Sleep
  <1>1. ASSUME NEW s \in Serials, Revoke(s) PROVE TypeOK'
    BY <1>1 DEF Revoke
  <1>2. ASSUME NEW s \in Serials, Expire(s) PROVE TypeOK'
    BY <1>2 DEF Expire
  <1>3. CASE Generate
    BY <1>3 DEF Generate
  <1>4. CASE Serve
    BY <1>4 DEF Serve
  <1>5. CASE Install
    BY <1>5 DEF Install
  <1>6. CASE FetchFails
    BY <1>6 DEF FetchFails, LastGood
  <1>7. CASE Wake
    BY <1>7 DEF Wake
  <1>8. CASE Restart
    BY <1>8 DEF Restart
  <1>9. CASE Tick
    <2>1. age' \in [Serials -> 0..Horizon] /\ bootAge' \in 0..Horizon
      BY <1>9, OlderTyped DEF Tick
    <2>2. timer' \in 0..(IF phase' = "sleeping" THEN Interval ELSE FetchTime)
          /\ crlAge' \in 0..Gen
      BY <1>9 DEF Tick, PhaseLimit
    <2> QED BY <1>9, <2>1, <2>2 DEF Tick
  <1>10. CASE UNCHANGED vars
    BY <1>10 DEF vars
  <1> QED BY <1>1, <1>2, <1>3, <1>4, <1>5, <1>6, <1>7, <1>8, <1>9, <1>10 DEF Next

\* The published list, the refresh task and the clocks keep their types.
THEOREM CacheTypeCorrect == Spec => []TypeOK
  BY TypeInit, TypeStep, PTL DEF Spec

-----------------------------------------------------------------------------
(* The staleness bound *)

\* The loop's time is a number, and at most a round per failure and one more.
LEMMA ElapsedBound ==
    ASSUME TypeOK
    PROVE  /\ failures * Round \in Nat /\ Elapsed \in Nat
           /\ Elapsed <= failures * Round + Round
  <1>1. failures \in Nat /\ failures * Round \in Nat
    BY RoundsAdd, BoundsAssumption DEF TypeOK
  <1> QED BY <1>1, TimesTyped DEF Elapsed, TypeOK

LEMMA BoundInit == Init => SInv
  BY TypeInit DEF Init, SInv, CrlMisses, ReplyMisses, CacheMisses

\* The CA's side: a new revocation is young, a new CRL has everything.
LEMMA BoundCA ==
    ASSUME SInv, TypeOK',
           (\E s \in Serials : Revoke(s) \/ Expire(s)) \/ Generate
    PROVE  SInv'
  <1> USE TimesTyped DEF SInv, ca, task
  <1>0. Elapsed \in Nat /\ crlAge \in Nat /\ timer \in Nat
    BY ElapsedBound DEF TypeOK
  <1>1. ASSUME NEW s \in Serials, Revoke(s) PROVE SInv'
    <2>1. /\ revoked' = revoked \cup {s} /\ age'[s] = 0 /\ Elapsed' = Elapsed
          /\ \A y \in revoked : age'[y] = age[y]
          /\ UNCHANGED <<crl, crlAge, phase, timer, reply, cache, bootAge>>
      BY <1>1 DEF Revoke, TypeOK, Elapsed
    <2>2. CrlMisses'
      BY <1>0, <2>1 DEF CrlMisses
    <2>3. ReplyMisses'
      BY <1>0, <2>1 DEF ReplyMisses
    <2>4. CacheMisses'
      BY <1>0, <2>1 DEF CacheMisses
    <2> QED BY <2>2, <2>3, <2>4
  <1>2. ASSUME NEW s \in Serials, Expire(s) PROVE SInv'
    <2>1. revoked' \subseteq revoked /\ Elapsed' = Elapsed
          /\ UNCHANGED <<age, crl, crlAge, phase, timer, reply, cache, bootAge>>
      BY <1>2 DEF Expire, Elapsed
    <2> QED BY <2>1 DEF CrlMisses, ReplyMisses, CacheMisses
  <1>3. CASE Generate
    <2>1. crl' = revoked /\ Elapsed' = Elapsed
          /\ UNCHANGED <<revoked, age, phase, timer, reply, cache, bootAge>>
      BY <1>3 DEF Generate, Elapsed
    <2> QED BY <2>1 DEF CrlMisses, ReplyMisses, CacheMisses
  <1> QED BY <1>1, <1>2, <1>3

\* A fetch: what the answer misses is what the cache will miss.
LEMMA BoundFetch ==
    ASSUME SInv, TypeOK', Serve \/ Install \/ FetchFails \/ Wake
    PROVE  SInv'
  <1> USE TimesTyped DEF SInv, ca
  <1>0. /\ Elapsed \in Nat /\ Elapsed <= failures * Round + Round /\ failures * Round \in Nat
        /\ failures \in Nat /\ bootAge \in Nat /\ age \in [Serials -> Nat]
        /\ revoked \subseteq Serials
    BY ElapsedBound, HorizonTyped, BoundsAssumption DEF TypeOK
  <1>1. CASE Serve
    <2>1. /\ reply' = crl /\ Elapsed' = Elapsed
          /\ UNCHANGED <<revoked, age, crl, crlAge, timer, cache, bootAge>>
      BY <1>1 DEF Serve, Elapsed
    <2>2. ReplyMisses'
      BY <1>0, <2>1 DEF ReplyMisses, CrlMisses, TypeOK
    <2> QED BY <2>1, <2>2 DEF CrlMisses, CacheMisses
  <1>2. CASE Install
    <2>1. /\ phase = "answered" /\ phase' = "sleeping" /\ cache' = reply
          /\ failures' = 0 /\ timer' = 0
          /\ UNCHANGED <<revoked, age, crl, crlAge, bootAge>>
      BY <1>2 DEF Install, Sleep
    <2>2. Elapsed' = 0
      BY <2>1 DEF Elapsed
    <2>3. CacheMisses'
      BY <1>0, <2>1, <2>2 DEF CacheMisses, ReplyMisses, TypeOK
    <2> QED BY <2>1, <2>3 DEF CrlMisses, ReplyMisses
  <1>3. CASE FetchFails
    <2>1. /\ phase' = "sleeping" /\ cache' = cache
          /\ failures' = failures + 1 /\ timer' = 0
          /\ UNCHANGED <<revoked, age, crl, crlAge, bootAge>>
      BY <1>3 DEF FetchFails, LastGood, Sleep
    <2>2. Elapsed' \in Nat /\ Elapsed' >= Elapsed
      <3>1. Elapsed' = (failures + 1) * Round
        BY <1>0, <2>1, RoundsAdd DEF Elapsed
      <3> QED BY <1>0, <3>1, RoundsAdd
    <2>3. CacheMisses'
      BY <1>0, <2>1, <2>2 DEF CacheMisses
    <2> QED BY <2>1, <2>3 DEF CrlMisses, ReplyMisses
  <1>4. CASE Wake
    <2>1. /\ phase = "sleeping" /\ phase' = "fetching" /\ timer = Interval /\ timer' = 0
          /\ UNCHANGED <<revoked, age, crl, crlAge, cache, failures, bootAge>>
      BY <1>4 DEF Wake
    <2>2. Elapsed' = Elapsed
      BY <1>0, <2>1 DEF Elapsed
    <2> QED BY <2>1, <2>2 DEF CrlMisses, ReplyMisses, CacheMisses
  <1> QED BY <1>1, <1>2, <1>3, <1>4

\* Time makes everything older by the same amount.
LEMMA BoundTime ==
    ASSUME SInv, TypeOK', Restart \/ Tick
    PROVE  SInv'
  <1> USE TimesTyped DEF SInv, ca
  <1>1. CASE Restart
    <2>1. /\ phase' = "fetching" /\ timer' = 0 /\ failures' = 0 /\ bootAge' = 0
          /\ UNCHANGED <<revoked, age, crl, crlAge>>
      BY <1>1 DEF Restart
    <2>2. Elapsed' = Interval
      BY <2>1 DEF Elapsed
    <2> QED BY <2>1, <2>2 DEF CrlMisses, ReplyMisses, CacheMisses
  <1>2. CASE Tick
    <2>1. /\ crlAge' = crlAge + 1 /\ timer' = timer + 1
          /\ bootAge \in 0..Horizon /\ bootAge' = Older(bootAge)
          /\ age' = [s \in Serials |-> IF s \in revoked THEN Older(age[s]) ELSE age[s]]
          /\ UNCHANGED <<revoked, crl, phase, reply, cache, failures>>
      BY <1>2 DEF Tick, TypeOK
    <2>2. \A s \in revoked : age[s] \in Nat /\ age'[s] \in Nat /\ age'[s] <= age[s] + 1
      BY <2>1, OlderTyped, HorizonTyped DEF TypeOK
    <2>3. bootAge \in Nat /\ bootAge' \in Nat /\ bootAge' <= bootAge + 1
      BY <2>1, OlderTyped, HorizonTyped
    <2>4. crlAge \in Nat /\ timer \in Nat /\ Elapsed \in Nat /\ failures * Round \in Nat
      BY ElapsedBound DEF TypeOK
    <2>5. Elapsed' = Elapsed + 1
      BY <2>1, <2>4 DEF Elapsed
    <2>6. CrlMisses'
      BY <2>1, <2>2, <2>4 DEF CrlMisses
    <2>7. ReplyMisses'
      BY <2>1, <2>2, <2>4 DEF ReplyMisses
    <2>8. CacheMisses'
      BY <2>1, <2>2, <2>3, <2>4, <2>5 DEF CacheMisses
    <2> QED BY <2>6, <2>7, <2>8
  <1> QED BY <1>1, <1>2

LEMMA BoundStep ==
    ASSUME SInv, [Next]_vars
    PROVE  SInv'
  <1>1. TypeOK'
    BY TypeStep DEF SInv
  <1>2. CASE UNCHANGED vars
    BY <1>2 DEF vars, SInv, TypeOK, CrlMisses, ReplyMisses, CacheMisses, Elapsed
  <1> QED BY <1>1, <1>2, BoundCA, BoundFetch, BoundTime DEF Next

\* periodic_crl_refresh: for every period of the CA and of the loop and any
\* number of failed fetches, a serial revoked longer ago than a CRL generation
\* and the loop's rounds since its last good fetch is refused, once the process
\* is old enough to have fetched.
THEOREM StalenessIsBounded == Spec => []StalenessBounded
  <1>1. SInv => StalenessBounded
    <2> SUFFICES ASSUME SInv, NEW s \in revoked,
                        age[s] > Gen + MaxLag(failures), bootAge > BootLag(failures)
                 PROVE  s \in cache
      BY DEF StalenessBounded
    <2>1. /\ failures \in Nat /\ age[s] \in Nat /\ bootAge \in Nat
      BY HorizonTyped, BoundsAssumption DEF SInv, TypeOK
    <2>2. /\ Elapsed \in Nat /\ failures * Round \in Nat
          /\ Elapsed <= failures * Round + Round
      BY ElapsedBound DEF SInv
    <2>3. /\ MaxLag(failures) = FetchTime + failures * Round + Round
          /\ BootLag(failures) = FetchTime + failures * Round
      BY <2>1, <2>2, RoundsAdd, TimesTyped DEF MaxLag, BootLag
    <2>4. ~(age[s] <= Gen + FetchTime + Elapsed) /\ ~(bootAge + Interval <= Elapsed)
      BY <2>1, <2>2, <2>3, TimesTyped
    <2> QED BY <2>4 DEF SInv, CacheMisses
  <1> QED BY BoundInit, BoundStep, <1>1, PTL DEF Spec

-----------------------------------------------------------------------------
(* Nothing is forgotten *)

LEMMA OrderStep ==
    ASSUME InOrder, [Next]_vars
    PROVE  InOrder'
  <1> USE DEF InOrder, ca, task, Sleep
  <1>1. ASSUME NEW s \in Serials, Revoke(s) \/ Expire(s) PROVE InOrder'
    BY <1>1 DEF Revoke, Expire
  <1>2. CASE Generate
    BY <1>2 DEF Generate
  <1>3. CASE Serve
    BY <1>3 DEF Serve
  <1>4. CASE Install
    BY <1>4 DEF Install
  <1>5. CASE FetchFails
    BY <1>5 DEF FetchFails, LastGood
  <1>6. CASE Wake \/ Restart \/ Tick \/ UNCHANGED vars
    BY <1>6 DEF Wake, Restart, Tick, vars
  <1> QED BY <1>1, <1>2, <1>3, <1>4, <1>5, <1>6 DEF Next

\* A serial leaves the cache only when its certificate has expired or the
\* process restarts: no failed fetch and no late answer brings it back.
THEOREM NothingForgotten == Spec => NeverForgets
  <1>1. Init => InOrder
    BY DEF Init, InOrder
  <1>2. TypeOK /\ InOrder /\ [Next]_vars =>
            [\A s \in cache \ cache' : s \in expired \/ restarts' # restarts]_vars
    <2> SUFFICES ASSUME TypeOK, InOrder, Next, NEW s \in cache \ cache', restarts' = restarts
                 PROVE  s \in expired
      OBVIOUS
    <2>1. CASE Install
      BY <2>1 DEF Install, InOrder
    <2>2. CASE ~Install
      <3>1. cache' = cache \/ Restart
        BY <2>2 DEF Next, Revoke, Expire, Generate, Serve, FetchFails, LastGood, Wake, Tick, task
      <3>2. ~Restart
        BY BoundsAssumption DEF Restart, TypeOK
      <3> QED BY <3>1, <3>2
    <2> QED BY <2>1, <2>2
  <1> QED BY <1>1, <1>2, OrderStep, CacheTypeCorrect, PTL DEF Spec, NeverForgets
=============================================================================
