-------------------------- MODULE NodeRenewalProofs --------------------------
(* The safety properties of NodeRenewal, for every lifetime, threshold and     *)
(* timer period, and any number of failures and enrolments.                    *)
EXTENDS NodeRenewal, TLAPS

-----------------------------------------------------------------------------
(* Types *)

LEMMA AgedTyped ==
    ASSUME NEW c \in Cert
    PROVE  /\ Aged(c) \in Cert
           /\ Aged(c).left \in {c.left, c.left - 1} /\ Aged(c).key = c.key
           /\ c.left = 0 => Aged(c).left = 0
           /\ c # NoCert /\ Aged(c) # NoCert
  <1>1. c # NoCert /\ c.left \in 0..Life /\ c.key \in Keys
    BY NoCertAssumption DEF Cert
  <1>2. CASE c.left = 0
    BY <1>1, <1>2 DEF Aged
  <1>3. CASE c.left # 0
    <2>1. Aged(c) = [c EXCEPT !.left = c.left - 1]
      BY <1>1, <1>3 DEF Aged
    <2>2. c.left - 1 \in 0..Life
      BY <1>1, <1>3, RenewalAssumption
    <2>3. Aged(c) \in Cert /\ Aged(c).left = c.left - 1 /\ Aged(c).key = c.key
      BY <1>1, <2>1, <2>2 DEF Cert
    <2> QED BY <1>1, <1>3, <2>3, NoCertAssumption
  <1> QED BY <1>2, <1>3

\* An hour leaves the absence of a certificate alone.
LEMMA AgedAbsent ==
    /\ Aged(NoCert) = NoCert
    /\ \A c \in Cert \cup {NoCert} :
          Aged(c) \in Cert \cup {NoCert} /\ (Aged(c) # NoCert <=> c # NoCert)
  <1>1. Aged(NoCert) = NoCert
    BY DEF Aged
  <1> QED BY <1>1, AgedTyped

LEMMA FreshTyped ==
    ASSUME NEW k \in Keys
    PROVE  [key |-> k, left |-> Life] \in Cert
  BY RenewalAssumption DEF Cert

\* What a start of the agent, refused or not, leaves behind.
LEMMA StartTyped ==
    ASSUME TypeOK, StartAgent \/ Refused
    PROVE  /\ unit' \in {"active", "auto-restart", "down"}
           /\ loaded' \in Cert \cup {NoCert}
           /\ unit' = "active" <=> loaded' # NoCert
           /\ owed' \in BOOLEAN
  <1> USE DEF TypeOK, CertsTyped
  <1>1. crt # NoCert
    BY NoCertAssumption
  <1>2. CASE StartAgent
    BY <1>1, <1>2 DEF StartAgent
  <1>3. CASE Refused
    BY <1>3 DEF Refused
  <1> QED BY <1>2, <1>3

-----------------------------------------------------------------------------
(* Type correctness *)

LEMMA AgentTyped ==
    ASSUME TypeOK, AutoRestart \/ Crash
    PROVE  TypeOK'
  <1> USE DEF TypeOK, CertsTyped, ControlTyped, CountsTyped
  <1>1. CASE AutoRestart
    <2>1. StartAgent \/ Refused
      BY <1>1 DEF AutoRestart
    <2>2. /\ unit' \in {"active", "auto-restart", "down"} /\ loaded' \in Cert \cup {NoCert}
          /\ unit' = "active" <=> loaded' # NoCert
          /\ owed' \in BOOLEAN
      BY <2>1, StartTyped
    <2> QED BY <1>1, <2>2, Zenon DEF AutoRestart, node, files, run, enrolment
  <1>2. CASE Crash
    BY <1>2 DEF Crash, node, files, run, enrolment
  <1> QED BY <1>1, <1>2

LEMMA ScriptTyped ==
    ASSUME TypeOK, Script
    PROVE  TypeOK'
  <1> USE DEF TypeOK, CertsTyped, ControlTyped, CountsTyped
  <1>0. 0 \in 0..Threshold /\ Period \in 0..Period
    BY RenewalAssumption
  <1>f. Fail => failures' \in 0..MaxFailures
    BY FaultsAssumption DEF Fail
  <1>1. CASE NotNeeded
    BY <1>0, <1>1, Zenon DEF NotNeeded, node, files, agent, enrolment
  <1>2. CASE CheckFails
    BY <1>0, <1>f, <1>2, Zenon DEF CheckFails, node, files, agent, enrolment
  <1>3. CASE BeginRenewal
    <2>1. auth' \in Keys \cup {0}
      BY <1>3 DEF BeginRenewal
    <2> QED BY <1>0, <1>3, <2>1, Zenon DEF BeginRenewal, node, files, agent, enrolment
  <1>4. CASE RenewalSucceeds
    <2>1. crt' \in Cert
      BY <1>4, FreshTyped DEF RenewalSucceeds, Renewed
    <2> QED BY <1>0, <1>4, <2>1, Zenon DEF RenewalSucceeds, node, agent, enrolment
  <1>5. CASE RenewalFails
    <2>1. failures' \in 0..MaxFailures
      BY <1>f, <1>5 DEF RenewalFails
    <2> QED BY <1>5, <2>1, Zenon DEF RenewalFails, node, files, agent, enrolment
  <1>6. CASE RestartAgent
    <2>1. /\ unit' \in {"active", "auto-restart", "down"} /\ loaded' \in Cert \cup {NoCert}
          /\ unit' = "active" <=> loaded' # NoCert
          /\ owed' \in BOOLEAN
      <3>1. CASE UNCHANGED <<agent, owed>>
        BY <3>1, Zenon DEF agent
      <3>2. CASE StartAgent \/ Refused
        BY <3>2, StartTyped
      <3>3. CASE owed' = TRUE /\ UNCHANGED agent
        BY <3>3, Zenon DEF agent
      <3> QED BY <1>6, <3>1, <3>2, <3>3 DEF RestartAgent, agent
    <2>2. failures' \in 0..MaxFailures
      BY <1>f, <1>6 DEF RestartAgent
    <2> QED BY <1>6, <2>1, <2>2, Zenon DEF RestartAgent, node, files, enrolment
  <1> QED BY <1>1, <1>2, <1>3, <1>4, <1>5, <1>6 DEF Script

LEMMA EnrolmentTyped ==
    ASSUME TypeOK, Enrolment
    PROVE  TypeOK'
  <1> USE DEF TypeOK, CertsTyped, ControlTyped, CountsTyped
  <1>0. enrols + 1 \in Keys
    BY FaultsAssumption DEF Keys
  <1>1. CASE Sign
    <2>1. enrols' \in 0..MaxEnrols
      BY <1>1, FaultsAssumption DEF Sign
    <2> QED BY <1>1, <2>1, Zenon DEF Sign, node, files, agent, run
  <1>2. CASE InstallCrt
    <2>1. crt' \in Cert
      BY <1>0, <1>2, FreshTyped DEF InstallCrt
    <2> QED BY <1>2, <2>1, Zenon DEF InstallCrt, node, agent, run
  <1>3. CASE InstallKey
    BY <1>0, <1>3, Zenon DEF InstallKey, node, agent, run
  <1>4. CASE RestartEnrolled
    <2>1. StartAgent \/ Refused
      BY <1>4 DEF RestartEnrolled
    <2>2. /\ unit' \in {"active", "auto-restart", "down"} /\ loaded' \in Cert \cup {NoCert}
          /\ unit' = "active" <=> loaded' # NoCert
          /\ owed' \in BOOLEAN
      BY <2>1, StartTyped
    <2> QED BY <1>4, <2>2, Zenon DEF RestartEnrolled, node, files, run
  <1>5. CASE Abort
    BY <1>5, Zenon DEF Abort, BreakOff, node, files, agent, run
  <1> QED BY <1>1, <1>2, <1>3, <1>4, <1>5 DEF Enrolment

LEMMA EnvironmentTyped ==
    ASSUME TypeOK, PowerOff \/ Boot \/ Tick
    PROVE  TypeOK'
  <1> USE DEF TypeOK, CertsTyped, ControlTyped, CountsTyped
  <1>0. 0 \in 0..Period /\ 0 \in 0..MaxOff
    BY RenewalAssumption, FaultsAssumption
  <1>1. CASE PowerOff
    <2>1. failures' \in 0..MaxFailures
      BY <1>1, FaultsAssumption DEF PowerOff, Fail
    <2> QED BY <1>0, <1>1, <2>1, Zenon DEF PowerOff, BreakOff, files
  <1>2. CASE Boot
    <2>1. StartAgent
      BY <1>2 DEF Boot
    <2>2. /\ unit' \in {"active", "auto-restart", "down"} /\ loaded' \in Cert \cup {NoCert}
          /\ unit' = "active" <=> loaded' # NoCert
          /\ owed' \in BOOLEAN
      BY <2>1, StartTyped
    <2> QED BY <1>0, <1>2, <2>2, Zenon DEF Boot, files, enrolment
  <1>3. CASE Tick
    <2>1. next' \in 0..Period /\ offFor' \in 0..MaxOff /\ unserved' \in 0..Threshold
      BY <1>3, RenewalAssumption, FaultsAssumption DEF Tick
    <2>2. crt' \in Cert /\ loaded' \in Cert \cup {NoCert} /\ (loaded' # NoCert <=> loaded # NoCert)
      BY <1>3, AgedTyped, AgedAbsent DEF Tick
    <2> QED BY <1>3, <2>1, <2>2, Zenon DEF Tick, enrolment
  <1> QED BY <1>1, <1>2, <1>3

LEMMA TypeInit == Init => TypeOK
  <1> SUFFICES ASSUME Init PROVE TypeOK
    OBVIOUS
  <1>1. 1 \in Keys
    BY FaultsAssumption DEF Keys
  <1>2. crt \in Cert /\ crt # NoCert
    BY <1>1, FreshTyped, NoCertAssumption DEF Init
  <1>3. CountsTyped
    BY RenewalAssumption, FaultsAssumption DEF Init, CountsTyped
  <1> QED BY <1>1, <1>2, <1>3, Zenon DEF Init, TypeOK, CertsTyped, ControlTyped

LEMMA TypeStep == TypeOK /\ [Next]_vars => TypeOK'
  <1> SUFFICES ASSUME TypeOK, [Next]_vars PROVE TypeOK'
    OBVIOUS
  <1>1. CASE UNCHANGED vars
    BY <1>1, Zenon DEF vars, TypeOK, CertsTyped, ControlTyped, CountsTyped
  <1> QED BY <1>1, AgentTyped, ScriptTyped, EnrolmentTyped, EnvironmentTyped DEF Next

\* The shape of the state, for all periods and any number of failures and
\* enrolments; an agent is active exactly with a certificate loaded.
THEOREM RenewalTypeCorrect == Spec => []TypeOK
  BY TypeInit, TypeStep, PTL DEF Spec

-----------------------------------------------------------------------------
(* A lapse takes a whole window without a working run *)

\* What is left of the certificate and the time nobody looked at it make up the
\* window: a working run leaves Threshold or more, and an hour moves one to the
\* other.
Window == crt.left + unserved >= Threshold

LEMMA WindowStep ==
    ASSUME TypeOK, Window, Next
    PROVE  Window'
  <1>0. /\ crt.left \in 0..Life /\ unserved \in 0..Threshold
        /\ Life \in Nat /\ Threshold \in Nat /\ Threshold < Life
    BY RenewalAssumption DEF TypeOK, CertsTyped, CountsTyped, Cert
  <1>1. CASE UNCHANGED <<crt, unserved>>
    BY <1>1 DEF Window
  <1>2. CASE NotNeeded
    BY <1>0, <1>2 DEF NotNeeded, NeedsRenewal, Window, files
  <1>3. CASE RenewalSucceeds
    BY <1>0, <1>3 DEF RenewalSucceeds, Renewed, Window
  <1>4. CASE InstallCrt
    BY <1>0, <1>4 DEF InstallCrt, Window
  <1>5. CASE Tick
    <2>1. /\ Aged(crt).left \in {crt.left, crt.left - 1}
          /\ crt.left = 0 => Aged(crt).left = 0
      BY AgedTyped DEF TypeOK, CertsTyped
    <2>2. crt' = Aged(crt) /\ unserved' = IF unserved < Threshold THEN unserved + 1 ELSE unserved
      BY <1>5 DEF Tick
    <2>3. CASE unserved < Threshold
      BY <1>0, <2>1, <2>2, <2>3 DEF Window
    <2>4. CASE unserved = Threshold
      BY <1>0, <2>1, <2>2, <2>4 DEF Window
    <2> QED BY <1>0, <2>3, <2>4
  <1> QED
    BY <1>1, <1>2, <1>3, <1>4, <1>5
    DEF Next, Script, Enrolment, AutoRestart, Crash, CheckFails, BeginRenewal, RenewalFails,
        RestartAgent, Sign, InstallKey, RestartEnrolled, Abort, PowerOff, Boot, files

\* A node's certificate lapses only after Threshold without a working run of
\* renew-cert.sh, for every lifetime above the threshold, every timer period and
\* any number of failures and power cuts.
THEOREM LapseNeedsAWindow == Spec => []LapsesOnlyUnserved
  <1>1. Init => Window
    BY RenewalAssumption DEF Init, Window
  <1>2. TypeOK /\ Window /\ [Next]_vars => Window'
    <2>1. UNCHANGED vars /\ Window => Window'
      BY DEF vars, Window
    <2> QED BY <2>1, WindowStep
  <1>3. TypeOK /\ Window => LapsesOnlyUnserved
    BY RenewalAssumption DEF TypeOK, CountsTyped, Window, LapsesOnlyUnserved
  <1> QED BY <1>1, <1>2, <1>3, RenewalTypeCorrect, PTL DEF Spec

-----------------------------------------------------------------------------
(* Certificate and key on disk *)

\* A renewal in flight authenticates with the pair on disk, unless an enrolment
\* came between.
InFlight == script = "renewing" /\ auth # 0 => torn \/ (crt.key = auth /\ key = auth)

\* Between its two files an enrolment has installed the certificate for the key
\* that it installs next.
HalfWay == enrol = "crt" => torn \/ crt.key = enrols + 1

Paired == PairMatches /\ InFlight /\ HalfWay

LEMMA PairedStep ==
    ASSUME TypeOK, Paired, Next
    PROVE  Paired'
  <1> USE DEF Paired, PairMatches, InFlight, HalfWay
  <1>1. CASE UNCHANGED <<files, script, auth, enrol, enrols, torn>>
    BY <1>1 DEF files
  <1>2. CASE BeginRenewal
    BY <1>2 DEF BeginRenewal, Usable, files, enrolment
  <1>3. CASE RenewalSucceeds
    BY <1>3 DEF RenewalSucceeds, Renewed, enrolment
  <1>4. CASE RenewalFails
    BY <1>4 DEF RenewalFails, files, enrolment
  <1>5. CASE RestartAgent
    BY <1>5 DEF RestartAgent, files, enrolment
  <1>6. CASE Sign
    BY <1>6 DEF Sign, files, run
  <1>7. CASE InstallCrt
    BY <1>7 DEF InstallCrt, run
  <1>8. CASE InstallKey
    BY <1>8 DEF InstallKey, run
  <1>9. CASE RestartEnrolled
    BY <1>9 DEF RestartEnrolled, files, run
  <1>10. CASE Abort
    BY <1>10 DEF Abort, BreakOff, files, run
  <1>11. CASE PowerOff
    BY <1>11 DEF PowerOff, BreakOff, files
  <1>12. CASE Tick
    <2>1. crt' = Aged(crt) /\ script = "idle" /\ enrol = "none"
      BY <1>12 DEF Tick
    <2>2. crt'.key = crt.key
      BY <2>1, AgedTyped DEF TypeOK, CertsTyped
    <2> QED BY <1>12, <2>1, <2>2 DEF Tick, enrolment
  <1> QED
    BY <1>1, <1>2, <1>3, <1>4, <1>5, <1>6, <1>7, <1>8, <1>9, <1>10, <1>11, <1>12
    DEF Next, Script, Enrolment, AutoRestart, Crash, NotNeeded, CheckFails, Boot,
        files, run, enrolment

\* Certificate and key on disk belong together, whatever fails, unless an
\* enrolment is between its two files, broke off there, or met a renewal in flight.
THEOREM PairsMatch == Spec => []PairMatches
  <1>1. Init => Paired
    BY DEF Init, Paired, PairMatches, InFlight, HalfWay
  <1>2. TypeOK /\ Paired /\ [Next]_vars => Paired'
    <2>1. UNCHANGED vars /\ Paired => Paired'
      BY DEF vars, Paired, PairMatches, InFlight, HalfWay
    <2> QED BY <2>1, PairedStep
  <1>3. Paired => PairMatches
    BY DEF Paired
  <1> QED BY <1>1, <1>2, <1>3, RenewalTypeCorrect, PTL DEF Spec

-----------------------------------------------------------------------------
(* The certificate in the process *)

LEMMA HoldsNewestStep ==
    ASSUME HoldsNewest, Next
    PROVE  HoldsNewest'
  <1> USE DEF HoldsNewest
  <1>0. StartAgent /\ UNCHANGED crt => HoldsNewest'
    BY DEF StartAgent
  <1>1. Refused => HoldsNewest'
    BY DEF Refused
  <1>2. CASE AutoRestart
    BY <1>0, <1>1, <1>2 DEF AutoRestart, files
  <1>3. CASE Crash \/ PowerOff
    BY <1>3 DEF Crash, PowerOff
  <1>4. CASE NotNeeded \/ CheckFails \/ BeginRenewal \/ RenewalFails
    BY <1>4 DEF NotNeeded, CheckFails, BeginRenewal, RenewalFails, Due, files, agent
  <1>5. CASE RenewalSucceeds
    BY <1>5 DEF RenewalSucceeds
  <1>6. CASE RestartAgent
    BY <1>0, <1>1, <1>6 DEF RestartAgent, IsActive, files, agent
  <1>7. CASE Sign \/ InstallKey \/ Abort
    BY <1>7 DEF Sign, InstallKey, Abort, files, agent, run
  <1>8. CASE InstallCrt
    BY <1>8 DEF InstallCrt
  <1>9. CASE RestartEnrolled
    BY <1>0, <1>1, <1>9 DEF RestartEnrolled, files
  <1>10. CASE Boot
    BY <1>0, <1>10 DEF Boot, files
  <1>11. CASE Tick
    BY <1>11 DEF Tick
  <1> QED
    BY <1>2, <1>3, <1>4, <1>5, <1>6, <1>7, <1>8, <1>9, <1>10, <1>11 DEF Next, Script, Enrolment

\* The running agent holds the certificate on disk, unless its restart is still
\* to come, failed, or was left out by an enrolment.
THEOREM AgentHoldsNewest == Spec => []HoldsNewest
  <1>1. Init => HoldsNewest
    BY DEF Init, HoldsNewest
  <1>2. HoldsNewest /\ [Next]_vars => HoldsNewest'
    <2>1. UNCHANGED vars /\ HoldsNewest => HoldsNewest'
      BY DEF vars, HoldsNewest
    <2> QED BY <2>1, HoldsNewestStep
  <1> QED BY <1>1, <1>2, PTL DEF Spec

=============================================================================
