------------------------ MODULE ServiceRenewalProofs ------------------------
(* Type correctness and LapseBounded of ServiceRenewal, for every lifetime,    *)
(* threshold, timer period and slack, and any number of faults.                *)
EXTENDS ServiceRenewal, TLAPS

\* When an untroubled certificate can expire at the earliest, in the timer's time:
\* Threshold after a run that left it alone, or Period, which a boot sets.
Earliest == IF Period > Threshold THEN Threshold ELSE Period

\* The script is between the new certificate of c and its user, or still has c
\* to deal with.
Between(c) == cur = c /\ at \in {"post", "copy key", "reload"}
Pending(c) == at # "idle" /\ (c = "prometheus" \/ cur = "controller")

\* nginx has its own copy of the pair.
Copied(c) == c = "controller" => copy.crt = issued[c] /\ copy.key = issued[c].key

\* Outside that, files and user agree, and a user with a valid one has no lapse.
InStep(c) ==
    ~Between(c) =>
        /\ Copied(c)
        /\ Running(c) => loaded[c] = issued[c] /\ (issued[c].left > 0 => lapse[c] = 0)

\* In between, the files are as far as the script's position says.
HalfDone(c) ==
    Between(c) =>
        /\ issued[c].left >= Threshold
        /\ at \in {"copy key", "reload"} => copy.crt = issued[c]
        /\ at = "reload" => copy.key = issued[c].key

\* How long a lapse can have lasted by the timer.  A stopped container's lapse
\* is over once it starts with a valid certificate.
InTime(c) ==
    \/ lapse[c] = 0
    \/ lapse[c] + Earliest <= timer
    \/ ~Running(c) /\ issued[c].left > 0

OnSchedule(c) ==
    /\ lapse[c] <= MaxLapse
    /\ ~Pending(c) /\ power = "on" => issued[c].left + timer >= Earliest /\ InTime(c)

Healthy(c) == InStep(c) /\ HalfDone(c) /\ OnSchedule(c)

\* Only the controller's certificate is copied.
Position == at \in {"copy key", "reload"} => cur = "controller"

\* Without power nothing runs.
Dark == power = "off" => at = "idle" /\ \A c \in Names : loaded[c] = NoCert /\ lapse[c] = 0

LapseInv ==
    /\ TypeOK
    /\ Position
    /\ Dark
    /\ \A c \in Names : ~troubled[c] => Healthy(c)

-----------------------------------------------------------------------------
(* Types *)

USE DEF Names

LEMMA AgedTyped ==
    ASSUME NEW c \in Cert
    PROVE  /\ Aged(c) \in Cert /\ c # NoCert /\ Aged(c) # NoCert
           /\ Aged(c).key = c.key
           /\ Aged(c).left + 1 >= c.left
           /\ c.left = 0 => Aged(c).left = 0
  <1>1. c # NoCert /\ c.left \in 0..Life /\ c.key \in 0..(Keys - 1)
    BY NoCertAssumption DEF Cert
  <1>2. CASE c.left = 0
    BY <1>1, <1>2 DEF Aged
  <1>3. CASE c.left # 0
    <2>1. Aged(c) = [c EXCEPT !.left = c.left - 1]
      BY <1>1, <1>3 DEF Aged
    <2>2. c.left - 1 \in 0..Life
      BY <1>1, <1>3, TimesAssumption
    <2>3. Aged(c) \in Cert /\ Aged(c).left = c.left - 1 /\ Aged(c).key = c.key
      BY <1>1, <2>1, <2>2 DEF Cert
    <2> QED BY <1>1, <1>3, <2>3, NoCertAssumption
  <1> QED BY <1>2, <1>3

LEMMA AgedAbsent ==
    /\ Aged(NoCert) = NoCert
    /\ \A c \in Cert \cup {NoCert} : Aged(c) \in Cert \cup {NoCert}
  <1>1. Aged(NoCert) = NoCert
    BY DEF Aged
  <1> QED BY <1>1, AgedTyped

\* What step writes.
LEMMA WrittenTyped ==
    ASSUME NEW c \in Cert
    PROVE  /\ Renewed(c) \in Cert /\ Renewed(c).left = Life
           /\ Reissued(c) \in Cert /\ Reissued(c).left = Life
  <1>1. (c.key + 1) % Keys \in 0..(Keys - 1)
    BY BoundsAssumption DEF Cert
  <1> QED BY <1>1, TimesAssumption DEF Renewed, Reissued, Cert

LEMMA MaxLapseIs == MaxLapse \in Nat /\ MaxLapse = Period + Slack - Earliest /\ Earliest \in Nat
                    /\ Earliest <= Threshold /\ Earliest <= Period
  BY TimesAssumption DEF MaxLapse, Earliest

ScriptState ==
    /\ timer \in 0..(Period + Slack)
    /\ at \in {"idle", "check", "post", "copy key", "reload"} /\ cur \in Names
    /\ said \in {"none", "renewed", "issued"}

Counts == faults \in 0..MaxFaults /\ lapse \in [Names -> 0..(MaxLapse + 1)]

LEMMA TypeParts ==
    TypeOK <=> CertsTyped /\ ScriptState /\ Counts
               /\ power \in {"on", "off"} /\ troubled \in [Names -> BOOLEAN]
  BY Zenon DEF TypeOK, ScriptState, Counts

LEMMA FaultTyped ==
    ASSUME TypeOK, NEW c \in Names, Fault(c) \/ Works
    PROVE  faults' \in 0..MaxFaults /\ troubled' \in [Names -> BOOLEAN]
  <1>1. faults \in 0..MaxFaults /\ troubled \in [Names -> BOOLEAN]
    BY Zenon DEF TypeOK
  <1>2. faults' \in 0..MaxFaults
    BY <1>1, BoundsAssumption DEF Fault, Works
  <1>3. CASE Fault(c)
    <2>1. troubled' = [troubled EXCEPT ![c] = TRUE]
      BY <1>3 DEF Fault
    <2> QED BY <1>1, <1>2, <2>1
  <1>4. CASE Works
    BY <1>1, <1>2, <1>4, Zenon DEF Works
  <1> QED BY <1>3, <1>4

LEMMA NextCertTyped ==
    ASSUME TypeOK, NextCert, UNCHANGED timer
    PROVE  ScriptState'
  BY DEF TypeOK, NextCert, ScriptState

LEMMA LoadTyped ==
    ASSUME TypeOK, NEW c \in Names, Load(c)
    PROVE  /\ loaded' \in [Names -> Cert \cup {NoCert}]
           /\ lapse' \in [Names -> 0..(MaxLapse + 1)]
           /\ troubled' \in [Names -> BOOLEAN]
  <1>1. Material(c) \in Cert
    BY DEF TypeOK, CertsTyped, Material
  <1>2. loaded' \in [Names -> Cert \cup {NoCert}]
    BY <1>1 DEF TypeOK, CertsTyped, Load
  <1>3. lapse' \in [Names -> 0..(MaxLapse + 1)]
    <2>0. 0 \in 0..(MaxLapse + 1)
      BY MaxLapseIs
    <2>1. lapse \in [Names -> 0..(MaxLapse + 1)]
      BY Zenon DEF TypeOK
    <2>2. lapse' = [lapse EXCEPT ![c] = IF Material(c).left > 0 THEN 0 ELSE lapse[c]]
      BY DEF Load
    <2> QED BY <2>0, <2>1, <2>2
  <1>4. troubled' \in [Names -> BOOLEAN]
    <2>1. troubled \in [Names -> BOOLEAN]
      BY Zenon DEF TypeOK
    <2>2. PICK b \in BOOLEAN : troubled' = [troubled EXCEPT ![c] = b]
      BY <2>1 DEF Load
    <2> QED BY <2>1, <2>2
  <1> QED BY <1>2, <1>3, <1>4

LEMMA RenewCertTyped ==
    ASSUME TypeOK, RunStarts \/ Skip \/ Renew \/ Reissue \/ ReissueFails
    PROVE  TypeOK'
  <1>0. CertsTyped /\ ScriptState /\ Counts /\ power \in {"on", "off"}
        /\ troubled \in [Names -> BOOLEAN]
    BY TypeParts
  <1>1. CASE RunStarts
    <2>1. ScriptState'
      BY <1>0, <1>1, TimesAssumption DEF RunStarts, ScriptState
    <2> QED BY <1>0, <1>1, <2>1, TypeParts, Zenon DEF RunStarts, TypeOK, CertsTyped, ScriptState
  <1>2. CASE Skip
    <2>1. ScriptState'
      BY <1>2, NextCertTyped DEF Skip
    <2>2. Fault(cur) \/ Works
      BY <1>2 DEF Skip
    <2>3. faults' \in 0..MaxFaults /\ troubled' \in [Names -> BOOLEAN]
      BY <1>0, <2>2, FaultTyped DEF ScriptState
    <2> QED BY <1>0, <1>2, <2>1, <2>3, Zenon DEF Skip, TypeOK, CertsTyped, Counts, ScriptState
  <1>3. CASE Renew \/ Reissue \/ ReissueFails
    <2>1. /\ said' \in {"renewed", "issued"} /\ at' = "post"
          /\ UNCHANGED <<power, copy, loaded, timer, cur, lapse>>
      BY <1>3 DEF Renew, Reissue, ReissueFails, Logged
    <2>2. Fault(cur) \/ Works
      BY <1>3 DEF Renew, Reissue, ReissueFails
    <2>3. faults' \in 0..MaxFaults /\ troubled' \in [Names -> BOOLEAN]
      BY <1>0, <2>2, FaultTyped DEF ScriptState
    <2>4. issued' \in [Names -> Cert]
      <3>1. issued \in [Names -> Cert] /\ cur \in Names /\ issued[cur] \in Cert
        BY <1>0 DEF CertsTyped, ScriptState
      <3>2. Renewed(issued[cur]) \in Cert /\ Reissued(issued[cur]) \in Cert
        BY <3>1, WrittenTyped
      <3> QED BY <1>3, <3>1, <3>2 DEF Renew, Reissue, ReissueFails
    <2> QED BY <1>0, <2>1, <2>3, <2>4, Zenon DEF TypeOK, CertsTyped, Counts, ScriptState
  <1> QED BY <1>1, <1>2, <1>3

LEMMA PostTyped ==
    ASSUME TypeOK, CopyCrt \/ CopyKey \/ Reload
    PROVE  TypeOK'
  <1>0. CertsTyped /\ ScriptState /\ Counts /\ power \in {"on", "off"}
        /\ troubled \in [Names -> BOOLEAN] /\ cur \in Names
    BY TypeParts DEF ScriptState
  <1>1. CASE CopyCrt \/ CopyKey
    <2>1. /\ at' \in {"copy key", "reload"}
          /\ UNCHANGED <<power, issued, loaded, timer, cur, said, lapse>>
      BY <1>1 DEF CopyCrt, CopyKey
    <2>2. Fault(cur) \/ Works
      BY <1>1 DEF CopyCrt, CopyKey
    <2>3. faults' \in 0..MaxFaults /\ troubled' \in [Names -> BOOLEAN]
      BY <1>0, <2>2, FaultTyped
    <2>4. copy' \in [crt : Cert, key : 0..(Keys - 1)]
      <3>1. issued[cur] \in Cert /\ issued[cur].key \in 0..(Keys - 1)
        BY <1>0 DEF CertsTyped, Cert
      <3>2. copy \in [crt : Cert, key : 0..(Keys - 1)]
        BY <1>0 DEF CertsTyped
      <3> QED BY <1>1, <3>1, <3>2 DEF CopyCrt, CopyKey
    <2> QED BY <1>0, <2>1, <2>3, <2>4, Zenon DEF TypeOK, CertsTyped, Counts, ScriptState
  <1>2. CASE Reload
    <2>1. ScriptState'
      BY <1>2, NextCertTyped DEF Reload
    <2>2. UNCHANGED <<power, issued, copy>>
      BY <1>2 DEF Reload
    <2>3. CASE Load(cur) /\ UNCHANGED faults
      BY <1>0, <2>1, <2>2, <2>3, LoadTyped, Zenon DEF TypeOK, CertsTyped, Counts, ScriptState
    <2>4. CASE (Works \/ Fault(cur)) /\ UNCHANGED <<loaded, lapse>>
      <3>1. faults' \in 0..MaxFaults /\ troubled' \in [Names -> BOOLEAN]
        BY <1>0, <2>4, FaultTyped
      <3> QED BY <1>0, <2>1, <2>2, <2>4, <3>1, Zenon DEF TypeOK, CertsTyped, Counts, ScriptState
    <2> QED BY <1>2, <2>3, <2>4 DEF Reload
  <1> QED BY <1>1, <1>2

LEMMA HostTyped ==
    ASSUME TypeOK,
           \/ \E c \in Names : ContainerStops(c) \/ ContainerStarts(c)
           \/ PowerOff \/ Boot \/ Tick
    PROVE  TypeOK'
  <1>0. CertsTyped /\ ScriptState /\ Counts /\ power \in {"on", "off"}
        /\ troubled \in [Names -> BOOLEAN] /\ cur \in Names
    BY TypeParts DEF ScriptState
  <1>1. ASSUME NEW c \in Names, ContainerStops(c)
        PROVE  TypeOK'
    <2>1. loaded' \in [Names -> Cert \cup {NoCert}]
      BY <1>0, <1>1 DEF ContainerStops, CertsTyped
    <2>2. faults' \in 0..MaxFaults
      BY <1>0, <1>1, BoundsAssumption DEF ContainerStops, Counts
    <2> QED BY <1>0, <1>1, <2>1, <2>2, Zenon
            DEF ContainerStops, script, TypeOK, CertsTyped, Counts, ScriptState
  <1>2. ASSUME NEW c \in Names, ContainerStarts(c)
        PROVE  TypeOK'
    BY <1>0, <1>2, LoadTyped, Zenon
    DEF ContainerStarts, script, TypeOK, CertsTyped, Counts, ScriptState
  <1>3. CASE PowerOff
    <2>1. Fault(cur) \/ Works
      BY <1>3 DEF PowerOff
    <2>2. faults' \in 0..MaxFaults /\ troubled' \in [Names -> BOOLEAN]
      BY <1>0, <2>1, FaultTyped
    <2>3. loaded' \in [Names -> Cert \cup {NoCert}] /\ lapse' \in [Names -> 0..(MaxLapse + 1)]
      BY <1>3, MaxLapseIs DEF PowerOff
    <2> QED BY <1>0, <1>3, <2>2, <2>3, Zenon DEF PowerOff, TypeOK, CertsTyped, Counts, ScriptState
  <1>4. CASE Boot
    <2>1. timer' \in 0..(Period + Slack)
      BY <1>4, TimesAssumption DEF Boot
    <2> QED BY <1>0, <1>4, <2>1, Zenon DEF Boot, TypeOK, CertsTyped, Counts, ScriptState
  <1>5. CASE Tick
    <2>1. timer' \in 0..(Period + Slack)
      BY <1>0, <1>5, TimesAssumption DEF Tick, ScriptState
    <2>2. issued' \in [Names -> Cert]
      BY <1>0, <1>5, AgedTyped DEF Tick, CertsTyped
    <2>3. copy' \in [crt : Cert, key : 0..(Keys - 1)]
      <3>1. copy.crt \in Cert /\ copy \in [crt : Cert, key : 0..(Keys - 1)]
        BY <1>0 DEF CertsTyped
      <3>2. Aged(copy.crt) \in Cert
        BY <3>1, AgedTyped
      <3>3. copy' = [copy EXCEPT !.crt = Aged(copy.crt)]
        BY <1>5 DEF Tick
      <3> QED BY <3>1, <3>2, <3>3
    <2>4. loaded' \in [Names -> Cert \cup {NoCert}]
      BY <1>0, <1>5, AgedAbsent DEF Tick, CertsTyped
    <2>5. lapse' \in [Names -> 0..(MaxLapse + 1)]
      BY <1>0, <1>5, MaxLapseIs DEF Tick, Counts
    <2> QED BY <1>0, <1>5, <2>1, <2>2, <2>3, <2>4, <2>5, Zenon
            DEF Tick, TypeOK, CertsTyped, Counts, ScriptState
  <1> QED BY <1>1, <1>2, <1>3, <1>4, <1>5

LEMMA TypeStep == TypeOK /\ [Next]_vars => TypeOK'
  <1> SUFFICES ASSUME TypeOK, [Next]_vars PROVE TypeOK'
    OBVIOUS
  <1>1. CASE UNCHANGED vars
    BY <1>1, Zenon DEF vars, TypeOK, CertsTyped
  <1> QED BY <1>1, RenewCertTyped, PostTyped, HostTyped DEF Next, Script

LEMMA TypeInit == Init => TypeOK
  <1> SUFFICES ASSUME Init PROVE TypeOK
    OBVIOUS
  <1>1. Fresh \in Cert /\ 0 \in 0..(Keys - 1)
    BY TimesAssumption, BoundsAssumption DEF Fresh, Cert
  <1>2. CertsTyped
    BY <1>1 DEF Init, CertsTyped
  <1>3. Counts /\ ScriptState
    BY MaxLapseIs, TimesAssumption, BoundsAssumption DEF Init, Counts, ScriptState
  <1>4. troubled \in [Names -> BOOLEAN]
    BY DEF Init
  <1> QED BY <1>2, <1>3, <1>4, TypeParts DEF Init

\* The shape of the state, for all periods and any number of faults.
THEOREM ServiceTypeCorrect == Spec => []TypeOK
  BY TypeInit, TypeStep, PTL DEF Spec

-----------------------------------------------------------------------------
(* An untroubled certificate stays healthy *)

LEMMA Vitals ==
    ASSUME TypeOK, NEW c \in Names
    PROVE  /\ issued[c] \in Cert /\ issued[c] # NoCert /\ issued[c].left \in Nat
           /\ loaded[c] \in Cert \cup {NoCert}
           /\ copy.crt \in Cert /\ lapse[c] \in Nat
           /\ timer \in Nat /\ timer <= Period + Slack
           /\ issued \in [Names -> Cert] /\ loaded \in [Names -> Cert \cup {NoCert}]
           /\ copy \in [crt : Cert, key : 0..(Keys - 1)] /\ DOMAIN lapse = Names
           /\ cur \in Names
  <1>1. CertsTyped /\ ScriptState /\ Counts
    BY TypeParts
  <1>2. issued[c] \in Cert /\ copy.crt \in Cert /\ loaded[c] \in Cert \cup {NoCert}
    BY <1>1 DEF CertsTyped
  <1>3. issued[c] # NoCert /\ issued[c].left \in Nat
    BY <1>2, NoCertAssumption, TimesAssumption DEF Cert
  <1>4. lapse[c] \in Nat /\ DOMAIN lapse = Names
    BY <1>1, MaxLapseIs DEF Counts
  <1>5. timer \in 0..(Period + Slack) /\ cur \in Names
    BY <1>1, Zenon DEF ScriptState
  <1>6. timer \in Nat /\ timer <= Period + Slack
    BY <1>5, TimesAssumption
  <1> QED BY <1>1, <1>2, <1>3, <1>4, <1>5, <1>6 DEF CertsTyped

\* A fault troubles the certificate it is about and no other.
LEMMA Spared ==
    ASSUME TypeOK, NEW c \in Names, NEW d \in Names, ~troubled'[c]
    PROVE  /\ Works => ~troubled[c]
           /\ Fault(d) => c # d /\ ~troubled[c]
  <1>1. troubled \in [Names -> BOOLEAN]
    BY TypeParts
  <1>2. Fault(d) => troubled' = [troubled EXCEPT ![d] = TRUE]
    BY DEF Fault
  <1>3. Works => troubled' = troubled
    BY DEF Works
  <1> QED BY <1>1, <1>2, <1>3

\* What a load does to c: nothing, unless c is what is loaded.
LEMMA Loaded ==
    ASSUME TypeOK, NEW c \in Names, NEW d \in Names, Load(d), ~troubled'[c]
    PROVE  /\ c # d => loaded'[c] = loaded[c] /\ lapse'[c] = lapse[c] /\ ~troubled[c]
           /\ c = d => /\ loaded'[c] = Material(c)
                       /\ lapse'[c] = IF Material(c).left > 0 THEN 0 ELSE lapse[c]
                       /\ ~troubled[c] \/ (Material(c) = issued[c] /\ Ample(issued[c]))
  <1>1. troubled \in [Names -> BOOLEAN]
    BY TypeParts
  <1>2. /\ loaded' = [loaded EXCEPT ![d] = Material(d)]
        /\ lapse' = [lapse EXCEPT ![d] = IF Material(d).left > 0 THEN 0 ELSE lapse[d]]
    BY DEF Load
  <1>3. troubled' = [troubled EXCEPT ![d] =
            troubled[d] /\ ~(Material(d) = issued[d] /\ Ample(issued[d]))]
    BY DEF Load
  <1>4. c # d => ~troubled[c]
    BY <1>1, <1>3
  <1>5. c = d => ~troubled[c] \/ (Material(c) = issued[c] /\ Ample(issued[c]))
    BY <1>1, <1>3
  <1> QED BY <1>2, <1>4, <1>5, Vitals

\* The check and what it leads to.
LEMMA CheckHealthy ==
    ASSUME LapseInv, NEW c \in Names, ~troubled'[c],
           RunStarts \/ Skip \/ Renew \/ Reissue \/ ReissueFails
    PROVE  Healthy(c)'
  <1>0. TypeOK /\ cur \in Names
    BY Vitals DEF LapseInv
  <1>1. CASE RunStarts
    <2>1. Healthy(c)
      BY <1>1 DEF LapseInv, RunStarts
    <2> QED BY <1>1, <2>1
            DEF RunStarts, Healthy, InStep, HalfDone, OnSchedule, Between, Pending, Copied, Running
  <1>2. CASE Skip
    <2>1. Healthy(c)
      BY <1>0, <1>2, Spared DEF LapseInv, Skip
    <2>2. /\ at = "check" /\ at' \in {"check", "idle"} /\ cur' = "prometheus"
          /\ at' = "check" <=> cur = "controller"
          /\ UNCHANGED <<power, issued, copy, loaded, timer, lapse>>
      BY <1>2 DEF Skip, NextCert
    <2>3. InStep(c)' /\ HalfDone(c)'
      BY <2>1, <2>2 DEF Healthy, InStep, HalfDone, Between, Copied, Running
    <2>4. CASE c = cur
      <3>1. issued[c].left >= Threshold
        <4>1. ~NeedsRenewal
          BY <1>0, <1>2, <2>4, Spared DEF Skip
        <4> QED BY <1>0, <2>4, <4>1, Vitals, TimesAssumption DEF NeedsRenewal
      <3>2. issued[c].left + timer >= Earliest /\ issued[c].left > 0
        BY <1>0, <3>1, Vitals, MaxLapseIs, TimesAssumption
      <3>3. Running(c) => lapse[c] = 0
        BY <2>1, <2>2, <3>2 DEF Healthy, InStep, Between
      <3> QED BY <2>1, <2>2, <2>3, <3>2, <3>3 DEF Healthy, OnSchedule, InTime, Running
    <2>5. CASE c # cur
      BY <1>0, <2>1, <2>2, <2>3, <2>5 DEF Healthy, OnSchedule, Pending, InTime, Running
    <2> QED BY <2>4, <2>5
  <1>3. CASE Renew \/ Reissue \/ ReissueFails
    <2>1. /\ at = "check" /\ at' = "post"
          /\ UNCHANGED <<power, copy, loaded, timer, cur, lapse>>
      BY <1>3 DEF Renew, Reissue, ReissueFails, Logged
    <2>2. Healthy(c)
      BY <1>0, <1>3, Spared DEF LapseInv, Renew, Reissue, ReissueFails
    <2>3. CASE c = cur
      <3>1. issued'[c].left = Life
        BY <1>0, <1>3, <2>3, Spared, Vitals, WrittenTyped DEF Renew, Reissue, ReissueFails
      <3>2. issued'[c].left >= Threshold
        BY <3>1, TimesAssumption
      <3> QED BY <1>0, <2>1, <2>2, <2>3, <3>2
              DEF Healthy, InStep, HalfDone, OnSchedule, Between, Pending
    <2>4. CASE c # cur
      <3>1. issued'[c] = issued[c]
        BY <1>0, <1>3, <2>4, Vitals DEF Renew, Reissue, ReissueFails
      <3> QED BY <2>1, <2>2, <2>4, <3>1
              DEF Healthy, InStep, HalfDone, OnSchedule, Between, Pending, Copied, InTime, Running
    <2> QED BY <2>3, <2>4
  <1> QED BY <1>1, <1>2, <1>3

\* The copies for nginx.
LEMMA CopyHealthy ==
    ASSUME LapseInv, NEW c \in Names, ~troubled'[c], CopyCrt \/ CopyKey
    PROVE  Healthy(c)'
  <1>0. TypeOK /\ cur \in Names
    BY Vitals DEF LapseInv
  <1>1. /\ cur = "controller" /\ at \in {"post", "copy key"} /\ at' \in {"copy key", "reload"}
        /\ at' = "reload" <=> at = "copy key"
        /\ UNCHANGED <<power, issued, loaded, timer, cur, lapse>>
    BY DEF CopyCrt, CopyKey, LapseInv, Position
  <1>2. Healthy(c)
    BY <1>0, Spared DEF LapseInv, CopyCrt, CopyKey
  <1>3. CASE c = "controller"
    <2>1. Works
      BY <1>0, <1>1, <1>3, Spared DEF CopyCrt, CopyKey
    <2>2. copy'.crt = issued[c] /\ (at' = "reload" => copy'.key = issued[c].key)
      <3>1. CASE CopyCrt
        BY <1>0, <1>1, <1>3, <3>1, Vitals, Spared DEF CopyCrt
      <3>2. CASE CopyKey
        <4>1. copy.crt = issued[c]
          BY <1>1, <1>2, <1>3, <3>2 DEF CopyKey, Healthy, HalfDone, Between
        <4> QED BY <1>0, <1>1, <1>3, <3>2, <4>1, Vitals, Spared DEF CopyKey
      <3> QED BY <3>1, <3>2
    <2> QED BY <1>1, <1>2, <1>3, <2>2
            DEF Healthy, InStep, HalfDone, OnSchedule, Between, Pending
  <1>4. CASE c = "prometheus"
    BY <1>1, <1>2, <1>4
    DEF Healthy, InStep, HalfDone, OnSchedule, Between, Pending, Copied, InTime, Running
  <1> QED BY <1>3, <1>4

\* The reload, or the user that is not running.
LEMMA ReloadHealthy ==
    ASSUME LapseInv, NEW c \in Names, ~troubled'[c], Reload
    PROVE  Healthy(c)'
  <1>0. TypeOK /\ cur \in Names /\ Threshold > 0
    BY Vitals, TimesAssumption DEF LapseInv
  <1>1. /\ at = IF cur = "controller" THEN "reload" ELSE "post"
        /\ at' \in {"check", "idle"} /\ cur' = "prometheus"
        /\ at' = "check" <=> cur = "controller"
        /\ UNCHANGED <<power, issued, copy, timer>>
    BY DEF Reload, NextCert
  <1>2. CASE c # cur
    <2>1. ~troubled[c] /\ loaded'[c] = loaded[c] /\ lapse'[c] = lapse[c]
      BY <1>0, <1>2, Spared, Loaded DEF Reload
    <2>2. Healthy(c)
      BY <2>1 DEF LapseInv
    <2> QED BY <1>0, <1>1, <1>2, <2>1, <2>2
            DEF Healthy, InStep, HalfDone, OnSchedule, Between, Pending, Copied, InTime, Running
  <1>3. CASE c = cur
    <2>1. ~troubled[c] => /\ issued[c].left >= Threshold /\ Copied(c) /\ lapse[c] <= MaxLapse
                          /\ Material(c) = issued[c] /\ Loadable(c)
      BY <1>0, <1>1, <1>3
      DEF LapseInv, Healthy, HalfDone, OnSchedule, Between, Copied, Material, Loadable
    <2>2. issued[c].left >= Threshold /\ Copied(c) /\ lapse'[c] <= MaxLapse
          /\ (Running(c)' => loaded'[c] = issued[c] /\ lapse'[c] = 0)
      <3>1. CASE Loadable(c) /\ Load(c)
        <4>1. Material(c) = issued[c] /\ issued[c].left >= Threshold /\ Copied(c)
          BY <1>0, <2>1, <3>1, Loaded DEF Ample, Material, Loadable, Copied
        <4>2. issued[c].left > 0
          BY <1>0, <4>1, Vitals, TimesAssumption
        <4>3. loaded'[c] = issued[c] /\ lapse'[c] = 0
          BY <1>0, <3>1, <4>1, <4>2, Loaded
        <4> QED BY <4>1, <4>3, MaxLapseIs
      <3>2. CASE ~(Running(c) /\ Loadable(c)) /\ Works /\ UNCHANGED <<loaded, lapse>>
        <4>1. ~troubled[c]
          BY <1>0, <3>2, Spared
        <4> QED BY <2>1, <3>2, <4>1 DEF Running
      <3>3. ~Fault(c)
        BY <1>0, Spared
      <3> QED BY <1>3, <3>1, <3>2, <3>3 DEF Reload
    <2>3. issued[c].left + timer >= Earliest /\ issued[c].left > 0
      BY <1>0, <2>2, Vitals, MaxLapseIs, TimesAssumption
    <2> QED BY <1>1, <2>2, <2>3
            DEF Healthy, InStep, HalfDone, OnSchedule, Between, Copied, InTime, Running
  <1> QED BY <1>2, <1>3

\* Containers that stop and start.
LEMMA ContainerHealthy ==
    ASSUME LapseInv, NEW c \in Names, NEW d \in Names, ~troubled'[c],
           ContainerStops(d) \/ ContainerStarts(d)
    PROVE  Healthy(c)'
  <1>0. TypeOK /\ cur \in Names
    BY Vitals DEF LapseInv
  <1>1. UNCHANGED <<power, issued, copy, timer, at, cur>>
    BY DEF ContainerStops, ContainerStarts, script
  <1>2. CASE ContainerStops(d)
    <2>1. ~troubled[c] /\ UNCHANGED lapse /\ loaded'[c] \in {loaded[c], NoCert} /\ (c # d => loaded'[c] = loaded[c])
          /\ (c = d => Running(c) /\ loaded'[c] = NoCert)
      BY <1>0, <1>2, Vitals DEF ContainerStops
    <2>2. Healthy(c)
      BY <2>1 DEF LapseInv
    <2> QED BY <1>1, <2>1, <2>2
            DEF Healthy, InStep, HalfDone, OnSchedule, Between, Pending, Copied, InTime, Running
  <1>3. CASE ContainerStarts(d) /\ c # d
    <2>1. ~troubled[c] /\ loaded'[c] = loaded[c] /\ lapse'[c] = lapse[c]
      BY <1>0, <1>3, Loaded DEF ContainerStarts
    <2>2. Healthy(c)
      BY <2>1 DEF LapseInv
    <2> QED BY <1>1, <2>1, <2>2
            DEF Healthy, InStep, HalfDone, OnSchedule, Between, Pending, Copied, InTime, Running
  <1>4. CASE ContainerStarts(d) /\ c = d
    <2>1. /\ ~Running(c) /\ Loadable(c) /\ loaded'[c] = Material(c)
          /\ lapse'[c] = IF Material(c).left > 0 THEN 0 ELSE lapse[c]
          /\ ~troubled[c] \/ (Material(c) = issued[c] /\ Ample(issued[c]))
      BY <1>0, <1>4, Loaded DEF ContainerStarts
    <2>2. CASE troubled[c]
      <3>1. issued[c].left >= Threshold /\ Copied(c) /\ loaded'[c] = issued[c]
        BY <2>1, <2>2 DEF Ample, Material, Loadable, Copied
      <3>2. issued[c].left > 0 /\ issued[c].left + timer >= Earliest
        BY <1>0, <3>1, Vitals, MaxLapseIs, TimesAssumption
      <3>3. lapse'[c] = 0 /\ lapse'[c] <= MaxLapse
        BY <2>1, <2>2, <3>2, MaxLapseIs
      <3>4. at \in {"copy key", "reload"} /\ cur = c => c = "controller"
        BY DEF LapseInv, Position
      <3> QED BY <1>1, <3>1, <3>2, <3>3, <3>4
              DEF Healthy, InStep, HalfDone, OnSchedule, Between, Copied, InTime, Running
    <2>3. CASE ~troubled[c]
      <3>1. Healthy(c)
        BY <2>3 DEF LapseInv
      <3>2. lapse'[c] <= MaxLapse
        BY <2>1, <3>1, MaxLapseIs DEF Healthy, OnSchedule
      <3>3. HalfDone(c)'
        BY <1>1, <3>1 DEF Healthy, HalfDone, Between
      <3>4. CASE Between(c)
        BY <1>0, <1>1, <3>2, <3>3, <3>4 DEF Healthy, InStep, OnSchedule, Between, Pending
      <3>5. CASE ~Between(c)
        <4>1. Copied(c) /\ Material(c) = issued[c]
          BY <3>1, <3>5 DEF Healthy, InStep, Copied, Material
        <4>2. InStep(c)'
          BY <1>1, <2>1, <4>1 DEF InStep, Copied
        <4>3. InTime(c) => InTime(c)'
          BY <1>0, <1>1, <2>1, <4>1, Vitals DEF InTime
        <4> QED BY <1>1, <3>1, <3>2, <3>3, <4>2, <4>3 DEF Healthy, OnSchedule, Pending
      <3> QED BY <3>4, <3>5
    <2> QED BY <2>2, <2>3
  <1> QED BY <1>2, <1>3, <1>4

\* Power and time.
LEMMA PowerHealthy ==
    ASSUME LapseInv, NEW c \in Names, ~troubled'[c], PowerOff \/ Boot
    PROVE  Healthy(c)'
  <1>0. TypeOK /\ cur \in Names
    BY Vitals DEF LapseInv
  <1>1. CASE PowerOff
    <2>1. ~troubled[c] /\ ~Between(c)
      BY <1>0, <1>1, Spared DEF PowerOff, Between
    <2>2. Copied(c)
      BY <2>1 DEF LapseInv, Healthy, InStep
    <2> QED BY <1>1, <2>2, MaxLapseIs
            DEF PowerOff, Healthy, InStep, HalfDone, OnSchedule, Between, Copied, Running
  <1>2. CASE Boot
    <2>1. ~troubled[c] /\ at = "idle" /\ lapse[c] = 0 /\ loaded[c] = NoCert
      BY <1>2 DEF Boot, LapseInv, Dark
    <2>2. Healthy(c)
      BY <2>1 DEF LapseInv
    <2>3. issued[c].left + Period >= Earliest
      BY <1>0, Vitals, MaxLapseIs, TimesAssumption
    <2> QED BY <1>2, <2>1, <2>2, <2>3
            DEF Boot, Healthy, InStep, HalfDone, OnSchedule, Between, Copied, InTime, Running
  <1> QED BY <1>1, <1>2

LEMMA TickHealthy ==
    ASSUME LapseInv, NEW c \in Names, ~troubled'[c], Tick
    PROVE  Healthy(c)'
  <1>0. TypeOK
    BY DEF LapseInv
  <1>1. ~troubled[c] /\ at = "idle" /\ UNCHANGED <<power, at, cur>>
    BY DEF Tick
  <1>2. Healthy(c) /\ ~Between(c)
    BY <1>1 DEF LapseInv, Between
  <1>3. Copied(c) /\ (Running(c) => loaded[c] = issued[c])
    BY <1>2 DEF Healthy, InStep
  <1>4. /\ issued'[c] = Aged(issued[c]) /\ loaded'[c] = Aged(loaded[c])
        /\ copy'.crt = Aged(copy.crt) /\ copy'.key = copy.key
        /\ lapse'[c] = IF ~Expired(c) THEN 0
                       ELSE IF lapse[c] <= MaxLapse THEN lapse[c] + 1 ELSE lapse[c]
    BY <1>0, Vitals DEF Tick
  <1>5. /\ issued'[c].key = issued[c].key /\ issued'[c].left + 1 >= issued[c].left
        /\ issued[c].left = 0 => issued'[c].left = 0
    BY <1>0, <1>4, AgedTyped, Vitals
  <1>6. Running(c)' => Running(c)
    BY <1>4, AgedAbsent DEF Running
  <1>7. Expired(c) => Running(c) /\ issued[c].left = 0
    BY <1>3 DEF Expired
  <1>8. InStep(c)' /\ HalfDone(c)'
    BY <1>1, <1>3, <1>4, <1>5, <1>6, <1>7 DEF InStep, HalfDone, Between, Copied
  <1>9. OnSchedule(c)'
    <2>0. /\ issued[c].left \in Nat /\ issued'[c].left \in Nat /\ lapse[c] \in Nat
          /\ timer \in Nat /\ timer' \in Nat /\ timer' <= Period + Slack
      <3>1. /\ issued[c] \in Cert /\ issued[c].left \in Nat /\ lapse[c] \in Nat
            /\ timer \in Nat /\ timer <= Period + Slack
        BY <1>0, Vitals
      <3>2. issued'[c].left \in Nat
        BY <1>4, <3>1, AgedTyped, TimesAssumption DEF Cert
      <3>3. timer' \in Nat /\ timer' <= Period + Slack
        BY <3>1, TimesAssumption DEF Tick
      <3> QED BY <3>1, <3>2, <3>3
    <2>1. CASE power = "off"
      <3>1. ~Expired(c)
        BY <2>1 DEF LapseInv, Dark, Expired, Running
      <3> QED BY <1>1, <1>4, <2>1, <3>1, MaxLapseIs DEF OnSchedule
    <2>2. CASE power = "on"
      <3>1. timer' = timer + 1
        BY <2>2 DEF Tick
      <3>2. issued[c].left + timer >= Earliest /\ InTime(c)
        BY <1>1, <1>2, <2>2 DEF Healthy, OnSchedule, Pending
      <3>3. issued'[c].left + timer' >= Earliest
        BY <1>5, <2>0, <3>1, <3>2, MaxLapseIs
      <3>4. lapse'[c] = 0 \/ lapse'[c] + Earliest <= timer'
        <4>1. CASE ~Expired(c)
          BY <1>4, <4>1
        <4>2. CASE Expired(c)
          <5>1. lapse[c] + Earliest <= timer
            BY <1>7, <2>0, <3>2, <4>2, MaxLapseIs DEF InTime
          <5>2. lapse'[c] \in {lapse[c], lapse[c] + 1}
            BY <1>4, <4>2
          <5> QED BY <2>0, <3>1, <5>1, <5>2, MaxLapseIs
        <4> QED BY <4>1, <4>2
      <3>5. lapse'[c] \in Nat
        BY <1>4, <2>0
      <3>6. lapse'[c] <= MaxLapse
        BY <2>0, <3>4, <3>5, MaxLapseIs, TimesAssumption
      <3> QED BY <3>3, <3>4, <3>6 DEF OnSchedule, InTime
    <2>3. power \in {"on", "off"}
      BY <1>0, TypeParts
    <2> QED BY <2>1, <2>2, <2>3
  <1> QED BY <1>8, <1>9 DEF Healthy

-----------------------------------------------------------------------------
(* The bound *)

LEMMA DarkStep ==
    ASSUME LapseInv, Next
    PROVE  Dark' /\ Position'
  <1>0. TypeOK /\ power \in {"on", "off"} /\ cur \in Names
    BY TypeParts, Vitals DEF LapseInv
  <1>1. CASE Script
    <2>1. power = "on" /\ UNCHANGED power
      BY <1>0, <1>1
      DEF LapseInv, Dark, Script, RunStarts, Skip, Renew, Reissue, ReissueFails, Logged, CopyCrt,
          CopyKey, Reload
    <2>2. Position'
      BY <1>1 DEF LapseInv, Position, Script, RunStarts, Skip, Renew, Reissue, ReissueFails,
          Logged, CopyCrt, CopyKey, Reload, NextCert
    <2> QED BY <2>1, <2>2 DEF Dark
  <1>2. ASSUME NEW c \in Names, ContainerStops(c) \/ ContainerStarts(c)
        PROVE  Dark' /\ Position'
    BY <1>2 DEF LapseInv, Dark, Position, ContainerStops, ContainerStarts, script
  <1>3. CASE PowerOff
    BY <1>3 DEF PowerOff, Dark, Position
  <1>4. CASE Boot
    BY <1>4 DEF Boot, Dark, Position, LapseInv
  <1>5. CASE Tick
    <2>1. Position' /\ at' = "idle" /\ power' = power
      BY <1>5 DEF Tick, Position
    <2>2. power = "off" => \A c \in Names : loaded'[c] = NoCert /\ lapse'[c] = 0
      BY <1>5, AgedAbsent DEF Tick, LapseInv, Dark, Expired, Running
    <2> QED BY <2>1, <2>2 DEF Dark
  <1> QED BY <1>1, <1>2, <1>3, <1>4, <1>5 DEF Next

LEMMA LapseStep == LapseInv /\ [Next]_vars => LapseInv'
  <1> SUFFICES ASSUME LapseInv, [Next]_vars PROVE LapseInv'
    OBVIOUS
  <1>1. TypeOK'
    BY TypeStep DEF LapseInv
  <1>2. CASE UNCHANGED vars
    <2>1. Dark' /\ Position'
      BY <1>2 DEF LapseInv, vars, Dark, Position
    <2>2. ASSUME NEW c \in Names, ~troubled'[c]
          PROVE  Healthy(c)'
      <3>1. Healthy(c)
        BY <1>2, <2>2 DEF LapseInv, vars
      <3> QED BY <1>2, <3>1
              DEF vars, Healthy, InStep, HalfDone, OnSchedule, Between, Pending, Copied, InTime, Running
    <2> QED BY <1>1, <2>1, <2>2 DEF LapseInv
  <1>3. CASE Next
    <2>1. Dark' /\ Position'
      BY <1>3, DarkStep
    <2>2. ASSUME NEW c \in Names, ~troubled'[c]
          PROVE  Healthy(c)'
      BY <1>3, <2>2, CheckHealthy, CopyHealthy, ReloadHealthy, ContainerHealthy, PowerHealthy,
         TickHealthy DEF Next, Script
    <2> QED BY <1>1, <2>1, <2>2 DEF LapseInv
  <1> QED BY <1>2, <1>3

LEMMA LapseInit == Init => LapseInv
  <1> SUFFICES ASSUME Init PROVE LapseInv
    OBVIOUS
  <1>1. Fresh.left = Life /\ Fresh.key = 0 /\ Life >= Earliest /\ Life + 0 >= Earliest
    BY TimesAssumption, MaxLapseIs DEF Fresh
  <1>2. ASSUME NEW c \in Names
        PROVE  Healthy(c)
    BY <1>1, <1>2, MaxLapseIs
    DEF Init, Healthy, InStep, HalfDone, OnSchedule, Between, Copied, InTime, Running
  <1>3. Dark /\ Position
    BY DEF Init, Dark, Position
  <1> QED BY <1>2, <1>3, TypeInit DEF LapseInv

\* An expired service certificate is in use for longer than MaxLapse only if a
\* command of renew-certs.sh for that very certificate failed, for all periods,
\* any number of faults of the other one, power cuts and container restarts.
THEOREM LapsesBounded == Spec => []LapseBounded
  <1>1. LapseInv => LapseBounded
    <2> SUFFICES ASSUME LapseInv, NEW c \in Names, lapse[c] > MaxLapse
                 PROVE  troubled[c]
      BY DEF LapseBounded
    <2>1. lapse[c] \in Nat
      BY Vitals DEF LapseInv
    <2>2. ~(lapse[c] <= MaxLapse)
      BY <2>1, MaxLapseIs
    <2> QED BY <2>2 DEF LapseInv, Healthy, OnSchedule
  <1> QED BY <1>1, LapseInit, LapseStep, PTL DEF Spec

=============================================================================
