------------------------- MODULE GaugeRefreshProofs -------------------------
(* What the gauges of GaugeRefresh show, and how late, for every fleet, period *)
(* and number of failed refreshes.                                             *)
EXTENDS GaugeRefresh, FiniteSetTheorems, TLAPS

Reading == phase \in {"close", "count", "age"}

\* k rounds, and the time since the last good refresh closed its session.
Rounds(k) == k * Round
Elapsed   == Rounds(failures) + (IF phase = "sleep" THEN timer ELSE Interval + timer)

AtRest == Yielding => todo = {}

-----------------------------------------------------------------------------
(* The ages: what is read is no fresher than the table, what is set was read,  *)
(* and what was set ages with the clock of the loop.                           *)

ReadAges ==
    Reading => \A n \in Nodes : read[n].beat # Absent =>
                  beat[n] # Absent /\ beat[n] <= read[n].beat

AgesKnown ==
    \A n \in Nodes : ages[n] # Absent =>
        beat[n] # Absent /\ (Reading => read[n].beat # Absent)

AgesSet ==
    phase = "age" => \A n \in Nodes :
        IF n \in todo THEN read[n].beat # Absent
        ELSE ages[n] # Absent => ages[n] = read[n].beat

AgesBound ==
    \A n \in Nodes : ages[n] # Absent /\ ~(phase = "age" /\ made = n) =>
        beat[n] <= ages[n] + Elapsed

AgeInv == TypeOK /\ AtRest /\ ReadAges /\ AgesKnown /\ AgesSet /\ AgesBound

-----------------------------------------------------------------------------
(* The counts: what is read was so when the query began, unless it changed     *)
(* since; the refill leaves what was read.                                     *)

ReadStates ==
    Reading => \A n \in Nodes :
        /\ state[n] # Absent /\ since[n] > timer => read[n].state = state[n]
        /\ read[n].state # Absent => state[n] # Absent

Filling ==
    /\ phase = "count" => \A s \in States :
          Value(total[s]) = IF s \in todo THEN 0 ELSE Count(s)
    /\ phase = "age" => \A s \in States : Value(total[s]) = Count(s)

\* The nodes that have been in a state for longer than t.
Settled(s, t) == {n \in Nodes : state[n] = s /\ since[n] > t}

CountsBound ==
    phase # "count" /\ filled =>
        \A s \in States : Value(total[s]) >= Cardinality(Settled(s, QueryTime + Elapsed))

CountInv == TypeOK /\ AtRest /\ ReadStates /\ Filling /\ CountsBound

-----------------------------------------------------------------------------
(* The scrape: while its copy is the gauge's own, it is behind the gauge.      *)

HeldBehind == live => \A s \in States : Value(held[s]) <= Value(total[s])
Fits       == Sum(total) <= Cardinality(Registered) /\ NoNodeTwice

ScrapeInv == CountInv /\ HeldBehind /\ Fits

-----------------------------------------------------------------------------
(* Times and counts *)

LEMMA Times ==
    /\ Interval \in Nat /\ QueryTime \in Nat /\ Interval > 0 /\ QueryTime > 0
    /\ Round \in Nat /\ Round = Interval + QueryTime
    /\ Rounds(0) = 0
    /\ \A k \in Nat : /\ Rounds(k) \in Nat
                      /\ Rounds(k + 1) = Rounds(k) + Round
                      /\ AgeLag(k) = Rounds(k) + Round
                      /\ CountLag(k) = QueryTime + Rounds(k) + Round
    /\ Horizon \in Nat
  <1>1. /\ Interval \in Nat /\ QueryTime \in Nat /\ Interval > 0 /\ QueryTime > 0
        /\ Round \in Nat /\ Round = Interval + QueryTime
    BY PeriodsAssumption DEF Round
  <1>2. Rounds(0) = 0
    BY <1>1 DEF Rounds
  <1>3. ASSUME NEW k \in Nat
        PROVE  /\ Rounds(k) \in Nat /\ Rounds(k + 1) = Rounds(k) + Round
               /\ AgeLag(k) = Rounds(k) + Round /\ CountLag(k) = QueryTime + Rounds(k) + Round
    <2> HIDE DEF Round
    <2>1. k * Round \in Nat /\ (k + 1) * Round = k * Round + Round
      BY <1>1
    <2> QED BY <1>1, <2>1 DEF Rounds, AgeLag, CountLag
  <1>4. Horizon \in Nat
    BY <1>1, <1>3, BoundsAssumption DEF Horizon
  <1> QED BY <1>1, <1>2, <1>3, <1>4

\* Part of the fleet is at most the fleet.
LEMMA PartOfFleet ==
    ASSUME NEW A \in SUBSET Nodes
    PROVE  IsFiniteSet(A) /\ Cardinality(A) \in Nat /\ Cardinality(A) <= Cardinality(Nodes)
           /\ Cardinality(Nodes) \in Nat
  <1>1. IsFiniteSet(A) /\ Cardinality(A) <= Cardinality(Nodes)
    BY NodesAssumption, FS_Subset
  <1> QED BY <1>1, NodesAssumption, FS_CardinalityType

LEMMA PartOfPart ==
    ASSUME NEW A \in SUBSET Nodes, NEW B \in SUBSET A
    PROVE  Cardinality(B) <= Cardinality(A)
  BY PartOfFleet, FS_Subset

LEMMA CountTyped ==
    ASSUME NEW s
    PROVE  Count(s) \in 0..Cardinality(Nodes)
  <1> DEFINE A == {n \in Nodes : read[n].state = s}
  <1>1. A \in SUBSET Nodes
    OBVIOUS
  <1> HIDE DEF A
  <1>2. Cardinality(A) \in Nat /\ Cardinality(A) <= Cardinality(Nodes) /\ Cardinality(Nodes) \in Nat
    BY <1>1, PartOfFleet
  <1> QED BY <1>2 DEF Count, A

LEMMA OlderTyped ==
    ASSUME NEW t \in (0..Horizon) \cup {Absent}
    PROVE  /\ Older(t) \in (0..Horizon) \cup {Absent}
           /\ Older(t) = Absent <=> t = Absent
           /\ t # Absent => Older(t) \in 0..Horizon /\ t <= Older(t) /\ Older(t) <= t + 1
  BY Times, AbsentAssumption DEF Older

\* Older keeps the order.
LEMMA OlderMonotone ==
    ASSUME NEW t \in 0..Horizon, NEW u \in 0..Horizon, t <= u
    PROVE  Older(t) <= Older(u)
  BY Times, AbsentAssumption DEF Older

-----------------------------------------------------------------------------
(* Types *)

LEMMA InitTyped == Init => TypeOK
  <1> SUFFICES ASSUME Init PROVE TypeOK
    OBVIOUS
  <1>1. TableTyped
    BY Times DEF Init, TableTyped
  <1>2. TaskTyped
    BY Times DEF Init, TaskTyped, NoRows
  <1>3. GaugesTyped
    BY DEF Init, GaugesTyped, NoSeries, Series
  <1>4. HistoryTyped
    BY BoundsAssumption DEF Init, HistoryTyped
  <1>5. FlagsTyped
    BY Zenon DEF Init, FlagsTyped
  <1> QED BY <1>1, <1>2, <1>3, <1>4, <1>5 DEF TypeOK

\* The handlers of requests.
LEMMA RequestTyped ==
    ASSUME TypeOK, (\E n \in Nodes, s \in States : Register(n, s)) \/ \E n \in Beating : Heartbeat(n)
    PROVE  TypeOK'
  <1>1. UNCHANGED <<task, gauges, scrape, failures, filled, restarts>>
    BY DEF Register, Heartbeat
  <1>2. (TaskTyped /\ GaugesTyped /\ FlagsTyped /\ HistoryTyped)'
    BY <1>1 DEF TypeOK, TaskTyped, GaugesTyped, FlagsTyped, HistoryTyped, task, gauges, scrape, Series
  <1>3. TableTyped'
    <2> USE Times DEF TypeOK, TableTyped
    <2>1. ASSUME NEW n \in Nodes, NEW s \in States, Move(n, s)
          PROVE  state' \in [Nodes -> States \cup {Absent}] /\ since' \in [Nodes -> 0..Horizon]
      BY <2>1 DEF Move
    <2>2. ASSUME NEW n \in Nodes, NEW s \in States, Register(n, s) PROVE TableTyped'
      BY <2>1, <2>2 DEF Register
    <2>3. ASSUME NEW n \in Beating, Heartbeat(n) PROVE TableTyped'
      <3>1. n \in Nodes /\ "active" \in States
        BY NodesAssumption DEF States
      <3>2. beat' \in [Nodes -> (0..Horizon) \cup {Absent}]
        BY <2>3, <3>1 DEF Heartbeat
      <3>3. Move(n, "active") \/ UNCHANGED <<state, since>>
        BY <2>3 DEF Heartbeat
      <3> QED BY <2>1, <3>1, <3>2, <3>3
    <2> QED BY <2>2, <2>3
  <1> QED BY <1>2, <1>3 DEF TypeOK

\* The steps of the task that leave the gauges alone.
LEMMA TaskStepTyped ==
    ASSUME TypeOK, Select \/ CountsDone \/ AgesDone \/ RefreshFails \/ Wake
    PROVE  TypeOK'
  <1>1. UNCHANGED <<table, gauges, scrape, restarts>>
    BY DEF Select, CountsDone, AgesDone, RefreshFails, Wake
  <1>2. (TableTyped /\ GaugesTyped)'
    BY <1>1 DEF TypeOK, TableTyped, GaugesTyped, table, gauges, scrape, Series
  <1>3. (FlagsTyped /\ HistoryTyped)'
    <2>1. live' = live /\ (filled' = filled \/ filled' = TRUE)
      BY <1>1, Zenon DEF Select, CountsDone, AgesDone, RefreshFails, Wake, scrape
    <2>2. failures' = failures \/ failures' = 0 \/ (failures < MaxFailures /\ failures' = failures + 1)
      BY DEF Select, CountsDone, AgesDone, RefreshFails, Wake
    <2>3. FlagsTyped'
      BY <2>1, Zenon DEF TypeOK, FlagsTyped
    <2> QED BY <1>1, <2>2, <2>3, BoundsAssumption DEF TypeOK, HistoryTyped
  <1>4. TaskTyped'
    <2> USE Times DEF TypeOK, TableTyped, TaskTyped
    <2>1. CASE Select
      BY <2>1 DEF Select
    <2>2. CASE CountsDone
      BY <2>2 DEF CountsDone
    <2>3. CASE AgesDone
      BY <2>3 DEF AgesDone, NoRows
    <2>4. CASE RefreshFails
      BY <2>4 DEF RefreshFails, NoRows
    <2>5. CASE Wake
      BY <2>5 DEF Wake
    <2> QED BY <2>1, <2>2, <2>3, <2>4, <2>5
  <1> QED BY <1>2, <1>3, <1>4 DEF TypeOK

\* The refill.
LEMMA RefillTyped ==
    ASSUME TypeOK, AtRest,
           \/ Clear \/ SetCount \/ SetAge
           \/ (\E s \in States : MakeCount(s)) \/ \E n \in Nodes : MakeAge(n)
    PROVE  TypeOK'
  <1>1. UNCHANGED <<table, timer, read, failures, filled, restarts>>
    BY DEF Clear, SetCount, SetAge, MakeCount, MakeAge
  <1>2. TableTyped'
    BY <1>1 DEF TypeOK, TableTyped, table
  <1>3. (FlagsTyped /\ HistoryTyped)'
    <2>1. live' = live \/ live' = FALSE
      BY Zenon DEF Clear, SetCount, SetAge, MakeCount, MakeAge, scrape
    <2>2. FlagsTyped'
      BY <1>1, <2>1, Zenon DEF TypeOK, FlagsTyped
    <2> QED BY <1>1, <2>2 DEF TypeOK, HistoryTyped
  <1>4. TaskTyped'
    <2> USE <1>1 DEF TypeOK, TaskTyped
    <2>1. CASE Clear
      BY <2>1 DEF Clear, AtRest, Yielding
    <2>2. CASE SetCount \/ SetAge
      BY <2>2 DEF SetCount, SetAge
    <2>3. CASE (\E s \in States : MakeCount(s)) \/ \E n \in Nodes : MakeAge(n)
      BY <2>3 DEF MakeCount, MakeAge
    <2> QED BY <2>1, <2>2, <2>3
  <1>5. GaugesTyped'
    <2> USE DEF TypeOK, GaugesTyped, Series
    <2>0. Cardinality(Nodes) \in Nat
      BY NodesAssumption, FS_CardinalityType
    <2>1. CASE Clear
      BY <2>1 DEF Clear, Cleared, NoSeries
    <2>2. CASE SetCount
      <3>1. made \in States /\ Count(made) \in 0..Cardinality(Nodes)
        BY <2>2, CountTyped DEF SetCount, TaskTyped
      <3> QED BY <2>2, <3>1 DEF SetCount
    <2>3. CASE SetAge
      <3>1. made \in Nodes /\ Age(made) \in (0..Horizon) \cup {Absent}
        BY <2>3 DEF SetAge, TaskTyped, Age
      <3> QED BY <2>3, <3>1 DEF SetAge, scrape
    <2>4. ASSUME NEW s \in States, MakeCount(s) PROVE GaugesTyped'
      BY <2>0, <2>4 DEF MakeCount, scrape
    <2>5. ASSUME NEW n \in Nodes, MakeAge(n) PROVE GaugesTyped'
      BY <2>5, Times DEF MakeAge, scrape
    <2> QED BY <2>1, <2>2, <2>3, <2>4, <2>5
  <1> QED BY <1>2, <1>3, <1>4, <1>5 DEF TypeOK

\* The scrape, the process and the clock.
LEMMA OutsideTyped ==
    ASSUME TypeOK, Copy \/ Answer \/ Restart \/ Tick
    PROVE  TypeOK'
  <1>0. NoSeries \in Series
    BY DEF NoSeries, Series
  <1>1. CASE Copy \/ Answer
    BY <1>0, <1>1 DEF TypeOK, TableTyped, TaskTyped, GaugesTyped, FlagsTyped, HistoryTyped,
       Copy, Answer, NoScrape, table, task, gauges
  <1>2. CASE Restart
    <2>1. (TableTyped /\ TaskTyped)'
      BY <1>2, Times DEF TypeOK, Restart, TableTyped, TaskTyped, table, NoRows
    <2>2. (GaugesTyped /\ HistoryTyped)'
      BY <1>0, <1>2, BoundsAssumption DEF TypeOK, Restart, GaugesTyped, HistoryTyped, NoScrape
    <2>3. FlagsTyped'
      BY <1>2, Zenon DEF Restart, FlagsTyped, NoScrape
    <2> QED BY <2>1, <2>2, <2>3 DEF TypeOK
  <1>3. CASE Tick
    <2>1. TableTyped'
      <3>1. \A n \in Nodes : since[n] \in 0..Horizon /\ beat[n] \in (0..Horizon) \cup {Absent}
        BY DEF TypeOK, TableTyped
      <3>2. \A n \in Nodes : since[n] # Absent
        BY <3>1, AbsentAssumption, Times
      <3>3. \A n \in Nodes : Older(since[n]) \in 0..Horizon
        BY <3>1, <3>2, OlderTyped
      <3>4. \A n \in Nodes : Older(beat[n]) \in (0..Horizon) \cup {Absent}
        BY <3>1, OlderTyped
      <3> HIDE DEF Older
      <3> QED BY <1>3, <3>3, <3>4, Times DEF TypeOK, TableTyped, Tick
    <2>2. TaskTyped'
      <3>1. \A n \in Nodes :
                read[n] \in [state : States \cup {Absent}, beat : (0..Horizon) \cup {Absent}]
        BY DEF TypeOK, TaskTyped
      <3>2. \A n \in Nodes : Older(read[n].beat) \in (0..Horizon) \cup {Absent}
        BY <3>1, OlderTyped
      <3>3. read' \in [Nodes -> [state : States \cup {Absent}, beat : (0..Horizon) \cup {Absent}]]
        BY <1>3, <3>1, <3>2 DEF Tick
      <3> QED BY <1>3, <3>3, Times DEF TypeOK, TaskTyped, Tick
    <2>3. (GaugesTyped /\ FlagsTyped /\ HistoryTyped)'
      BY <1>0, <1>3 DEF TypeOK, GaugesTyped, FlagsTyped, HistoryTyped, Tick, NoScrape, gauges
    <2> QED BY <2>1, <2>2, <2>3 DEF TypeOK
  <1> QED BY <1>1, <1>2, <1>3

\* A series is to be set only during the refill, which waits for nobody.
LEMMA StepTyped ==
    ASSUME TypeOK, AtRest, [Next]_vars
    PROVE  TypeOK' /\ AtRest'
  <1>1. CASE UNCHANGED vars
    BY <1>1 DEF TypeOK, TableTyped, TaskTyped, GaugesTyped, FlagsTyped, HistoryTyped, AtRest,
       Yielding, vars
  <1>2. CASE Next
    <2>1. TypeOK'
      BY <1>2, RequestTyped, TaskStepTyped, RefillTyped, OutsideTyped DEF Next, Refresh
    <2>2. AtRest'
      BY <1>2 DEF AtRest, Yielding, Next, Refresh, Register, Heartbeat, Select, Clear, MakeCount,
         SetCount, CountsDone, MakeAge, SetAge, AgesDone, RefreshFails, Wake, Copy, Answer,
         Restart, Tick, task
    <2> QED BY <2>1, <2>2
  <1> QED BY <1>1, <1>2

\* The task, the gauges and a scrape's copy keep their types; ages and counts stay
\* in their ranges.
THEOREM GaugesTypeCorrect == Spec => []TypeOK
  <1>1. Init => TypeOK /\ AtRest
    BY InitTyped DEF Init, AtRest
  <1>2. (TypeOK /\ AtRest) /\ [Next]_vars => (TypeOK /\ AtRest)'
    BY StepTyped
  <1> QED BY <1>1, <1>2, PTL DEF Spec

-----------------------------------------------------------------------------
(* The loop's clock *)

LEMMA ElapsedTyped ==
    ASSUME TypeOK
    PROVE  Elapsed \in Nat /\ timer \in Nat /\ timer <= Elapsed /\ Elapsed <= AgeLag(failures)
           /\ (phase # "sleep" => timer <= QueryTime)
  <1>1. /\ failures \in Nat /\ timer \in Nat
        /\ timer <= IF phase = "sleep" THEN Interval ELSE QueryTime
    BY Times, BoundsAssumption DEF TypeOK, TaskTyped, HistoryTyped
  <1> HIDE DEF Rounds, Round, AgeLag
  <1> QED BY <1>1, Times DEF Elapsed

LEMMA ElapsedTypedNext ==
    ASSUME TypeOK'
    PROVE  Elapsed' \in Nat
  <1>1. failures' \in Nat /\ timer' \in Nat
    BY Times, BoundsAssumption DEF TypeOK, TaskTyped, HistoryTyped
  <1> HIDE DEF Rounds
  <1> QED BY <1>1, Times DEF Elapsed

\* Only a good refresh, or the next process, starts it anew.
LEMMA ElapsedSteps ==
    ASSUME TypeOK
    PROVE  /\ Tick => Elapsed' = Elapsed + 1
           /\ AgesDone => Elapsed' = 0
           /\ RefreshFails => Elapsed' >= Elapsed
           /\ Wake => Elapsed' = Elapsed
  <1> HIDE DEF Rounds, Round
  <1>0. failures \in Nat /\ timer \in Nat
        /\ timer <= IF phase = "sleep" THEN Interval ELSE QueryTime
    BY Times, BoundsAssumption, ElapsedTyped DEF TypeOK, TaskTyped, HistoryTyped
  <1>1. Tick => Elapsed' = Elapsed + 1
    <2>1. Tick => UNCHANGED <<phase, failures>> /\ timer' = timer + 1
      BY DEF Tick
    <2>2. Rounds(failures) \in Nat
      BY <1>0, Times
    <2> QED BY <1>0, <2>1, <2>2, Times DEF Elapsed
  <1>2. AgesDone => Elapsed' = 0
    BY <1>0, Times DEF AgesDone, Elapsed
  <1>3. RefreshFails => Elapsed' >= Elapsed
    BY <1>0, Times DEF RefreshFails, Elapsed
  <1>4. Wake => Elapsed' = Elapsed
    BY <1>0, Times DEF Wake, Elapsed
  <1> QED BY <1>1, <1>2, <1>3, <1>4

-----------------------------------------------------------------------------
(* The ages *)

\* The ages and the heartbeats are times, or absent.
LEMMA AgesAreTimes ==
    ASSUME TypeOK, NEW n \in Nodes
    PROVE  /\ beat[n] \in Nat \cup {Absent} /\ ages[n] \in Nat \cup {Absent}
           /\ read[n].beat \in Nat \cup {Absent}
           /\ 0 # Absent /\ made \in todo \cup {Absent}
           /\ todo \subseteq (IF phase = "age" THEN Nodes ELSE States)
  BY Times, AbsentAssumption DEF TypeOK, TableTyped, TaskTyped, GaugesTyped

LEMMA AgeStep ==
    ASSUME AgeInv, [Next]_vars
    PROVE  AgeInv'
  <1>0. TypeOK /\ TypeOK' /\ AtRest' /\ Elapsed \in Nat /\ Elapsed' \in Nat
    BY StepTyped, ElapsedTyped, ElapsedTypedNext DEF AgeInv
  <1> SUFFICES ReadAges' /\ AgesKnown' /\ AgesSet' /\ AgesBound'
    BY <1>0 DEF AgeInv
  <1> USE DEF AgeInv
  \* While the ages stay and the clock goes on, they keep their bound.
  <1>1. ASSUME UNCHANGED <<beat, ages>>, Elapsed' >= Elapsed,
               phase = "age" => phase' = "age" /\ made' = made
        PROVE  AgesBound'
    BY <1>0, <1>1, AgesAreTimes DEF AgesBound, AgesKnown
  <1>2. ASSUME UNCHANGED <<beat, read, ages, phase, todo, made>>, Elapsed' >= Elapsed
        PROVE  ReadAges' /\ AgesKnown' /\ AgesSet' /\ AgesBound'
    BY <1>1, <1>2 DEF ReadAges, AgesKnown, AgesSet, Reading
  <1>3. ASSUME NEW n \in Beating, Heartbeat(n)
        PROVE  ReadAges' /\ AgesKnown' /\ AgesSet' /\ AgesBound'
    <2>1. /\ UNCHANGED <<phase, timer, read, todo, made, ages, failures>>
          /\ phase # "age" /\ beat' = [beat EXCEPT ![n] = 0]
      BY <1>3 DEF Heartbeat, Yielding, task, gauges
    <2>2. Elapsed' = Elapsed
      BY <2>1 DEF Elapsed
    <2>3. \A m \in Nodes : beat'[m] = IF m = n THEN 0 ELSE beat[m]
      BY <1>0, <2>1 DEF TypeOK, TableTyped
    <2>4. ReadAges' /\ AgesKnown' /\ AgesSet'
      BY <1>0, <2>1, <2>3, AgesAreTimes DEF ReadAges, AgesKnown, AgesSet, Reading
    <2>5. AgesBound'
      BY <1>0, <2>1, <2>2, <2>3, AgesAreTimes DEF AgesBound
    <2> QED BY <2>4, <2>5
  <1>4. CASE Select
    <2>1. /\ UNCHANGED <<beat, timer, ages, failures>> /\ phase = "select" /\ phase' = "close"
          /\ \A n \in Nodes : read'[n].beat = beat[n]
      BY <1>4 DEF Select, table, gauges
    <2>2. Elapsed' = Elapsed
      BY <2>1 DEF Elapsed
    <2>3. ReadAges' /\ AgesKnown' /\ AgesSet'
      BY <1>0, <2>1, AgesAreTimes DEF ReadAges, AgesKnown, AgesSet, Reading
    <2> QED BY <2>1, <2>2, <2>3 DEF AgesBound
  <1>5. CASE Clear \/ SetCount \/ (\E s \in States : MakeCount(s)) \/ RefreshFails \/ Wake
    <2>1. /\ UNCHANGED <<beat, ages>> /\ phase # "age" /\ phase' # "age"
          /\ read' = read \/ ~Reading'
          /\ Reading' => Reading
      BY <1>5 DEF Clear, SetCount, MakeCount, RefreshFails, Wake, Reading, table, gauges
    <2>2. Elapsed' >= Elapsed
      <3>1. CASE RefreshFails \/ Wake
        BY <1>0, <3>1, ElapsedSteps
      <3>2. CASE Clear \/ SetCount \/ (\E s \in States : MakeCount(s))
        <4>1. UNCHANGED <<failures, timer>> /\ phase # "sleep" /\ phase' # "sleep"
          BY <3>2 DEF Clear, SetCount, MakeCount
        <4>2. Elapsed' = Elapsed
          BY <4>1 DEF Elapsed
        <4> QED BY <1>0, <4>2
      <3> QED BY <1>5, <3>1, <3>2
    <2>3. ReadAges' /\ AgesKnown' /\ AgesSet'
      BY <2>1 DEF ReadAges, AgesKnown, AgesSet
    <2> QED BY <1>1, <2>1, <2>2, <2>3
  <1>6. CASE CountsDone
    <2>1. /\ UNCHANGED <<beat, timer, read, made, ages, failures>> /\ phase = "count" /\ phase' = "age"
          /\ todo' = {n \in Nodes : read[n].beat # Absent}
      BY <1>6 DEF CountsDone, table, gauges
    <2>2. Elapsed' = Elapsed
      BY <2>1 DEF Elapsed
    <2>3. ReadAges' /\ AgesKnown' /\ AgesSet'
      BY <2>1 DEF ReadAges, AgesKnown, AgesSet, Reading
    <2> QED BY <2>1, <2>2, <2>3 DEF AgesBound
  <1>7. ASSUME NEW n \in Nodes, MakeAge(n)
        PROVE  ReadAges' /\ AgesKnown' /\ AgesSet' /\ AgesBound'
    <2>1. /\ UNCHANGED <<beat, phase, timer, read, todo, failures>> /\ phase = "age" /\ n \in todo
          /\ made' = n /\ made = Absent
          /\ ages' = [ages EXCEPT ![n] = IF @ = Absent THEN 0 ELSE @]
      BY <1>7 DEF MakeAge, table
    <2>2. Elapsed' = Elapsed
      BY <2>1 DEF Elapsed
    <2>3. \A m \in Nodes \ {n} : ages'[m] = ages[m]
      BY <2>1, <1>0 DEF TypeOK, GaugesTyped
    <2>4. read[n].beat # Absent /\ beat[n] # Absent
      BY <2>1 DEF AgesSet, ReadAges, Reading
    <2>5. ReadAges' /\ AgesKnown' /\ AgesSet'
      BY <2>1, <2>3, <2>4 DEF ReadAges, AgesKnown, AgesSet, Reading
    <2>6. AgesBound'
      <3> SUFFICES ASSUME NEW m \in Nodes, ages'[m] # Absent, m # n
                   PROVE  beat[m] <= ages'[m] + Elapsed
        BY <2>1, <2>2 DEF AgesBound
      <3>1. made # m
        BY <2>1, AbsentAssumption
      <3> QED BY <2>3, <3>1 DEF AgesBound
    <2> QED BY <2>5, <2>6
  <1>8. CASE SetAge
    <2>1. /\ UNCHANGED <<beat, phase, timer, read, failures>> /\ phase = "age" /\ made # Absent
          /\ made \in Nodes /\ made \in todo /\ made' = Absent /\ todo' = todo \ {made}
          /\ ages' = [ages EXCEPT ![made] = read[made].beat]
      BY <1>0, <1>8 DEF SetAge, Age, table, TypeOK, TaskTyped
    <2>2. Elapsed' = Elapsed
      BY <2>1 DEF Elapsed
    <2>3. ages'[made] = read[made].beat /\ \A m \in Nodes \ {made} : ages'[m] = ages[m]
      BY <2>1, <1>0 DEF TypeOK, GaugesTyped
    <2>4. read[made].beat # Absent /\ beat[made] # Absent /\ beat[made] <= read[made].beat
      BY <2>1 DEF AgesSet, ReadAges, Reading
    <2>5. ReadAges' /\ AgesKnown' /\ AgesSet'
      BY <2>1, <2>3, <2>4 DEF ReadAges, AgesKnown, AgesSet, Reading
    <2>6. AgesBound'
      <3> SUFFICES ASSUME NEW m \in Nodes, ages'[m] # Absent PROVE beat[m] <= ages'[m] + Elapsed
        BY <2>1, <2>2 DEF AgesBound
      <3>1. CASE m = made
        BY <1>0, <2>1, <2>3, <2>4, <3>1, AgesAreTimes
      <3>2. CASE m # made
        BY <2>3, <3>2 DEF AgesBound
      <3> QED BY <3>1, <3>2
    <2> QED BY <2>5, <2>6
  <1>9. CASE AgesDone
    <2>1. /\ UNCHANGED <<beat, ages>> /\ phase = "age" /\ todo = {} /\ phase' = "sleep"
      BY <1>9 DEF AgesDone, table, gauges
    <2>2. ReadAges' /\ AgesKnown' /\ AgesSet'
      BY <2>1 DEF ReadAges, AgesKnown, AgesSet, Reading
    <2>3. ASSUME NEW n \in Nodes, ages[n] # Absent PROVE beat[n] <= ages[n]
      BY <2>1, <2>3 DEF AgesSet, ReadAges, AgesKnown, Reading
    <2>4. Elapsed' = 0
      BY <1>0, <1>9, ElapsedSteps
    <2>5. AgesBound'
      BY <1>0, <2>1, <2>3, <2>4, AgesAreTimes DEF AgesBound, AgesKnown
    <2> QED BY <2>2, <2>5
  <1>10. CASE Restart
    BY <1>10 DEF Restart, ReadAges, AgesKnown, AgesSet, AgesBound, Reading
  <1>11. CASE Tick
    <2>1. /\ UNCHANGED <<phase, ages, made>> /\ phase # "age"
          /\ \A n \in Nodes : beat'[n] = Older(beat[n]) /\ read'[n].beat = Older(read[n].beat)
      <3>1. \A n \in Nodes :
                read[n] \in [state : States \cup {Absent}, beat : (0..Horizon) \cup {Absent}]
        BY <1>0 DEF TypeOK, TaskTyped
      <3> QED BY <1>11, <3>1 DEF Tick, Yielding, gauges
    <2>2. ASSUME NEW n \in Nodes
          PROVE  /\ beat[n] \in (0..Horizon) \cup {Absent}
                 /\ read[n].beat \in (0..Horizon) \cup {Absent}
      BY <1>0 DEF TypeOK, TableTyped, TaskTyped
    <2>3. ReadAges'
      <3> SUFFICES ASSUME Reading, NEW n \in Nodes, Older(read[n].beat) # Absent
                   PROVE  Older(beat[n]) # Absent /\ Older(beat[n]) <= Older(read[n].beat)
        BY <2>1 DEF ReadAges, Reading
      <3>1. read[n].beat # Absent
        BY <2>2, OlderTyped
      <3>2. beat[n] # Absent /\ beat[n] <= read[n].beat
        BY <3>1 DEF ReadAges
      <3> QED BY <2>2, <3>1, <3>2, OlderTyped, OlderMonotone
    <2>4. AgesKnown' /\ AgesSet'
      BY <2>1, <2>2, OlderTyped DEF AgesKnown, AgesSet, Reading
    <2>5. Elapsed' = Elapsed + 1
      BY <1>0, <1>11, ElapsedSteps
    <2>6. AgesBound'
      <3> SUFFICES ASSUME NEW n \in Nodes, ages[n] # Absent
                   PROVE  Older(beat[n]) <= ages[n] + (Elapsed + 1)
        BY <2>1, <2>5 DEF AgesBound
      <3>1. beat[n] # Absent /\ beat[n] <= ages[n] + Elapsed
        BY <2>1 DEF AgesKnown, AgesBound
      <3>2. Older(beat[n]) \in Nat /\ Older(beat[n]) <= beat[n] + 1 /\ beat[n] \in Nat
        BY <2>2, <3>1, OlderTyped, Times
      <3>3. ages[n] \in Nat
        BY <1>0, AgesAreTimes
      <3> QED BY <1>0, <3>1, <3>2, <3>3
    <2> QED BY <2>3, <2>4, <2>6
  <1>12. CASE (\E n \in Nodes, s \in States : Register(n, s)) \/ Copy \/ Answer \/ UNCHANGED vars
    <2>1. UNCHANGED <<beat, read, ages, phase, todo, made, failures, timer>>
      BY <1>12 DEF Register, Copy, Answer, vars, task, gauges, table
    <2>2. Elapsed' = Elapsed
      BY <2>1 DEF Elapsed
    <2> QED BY <1>0, <1>2, <2>1, <2>2
  <1> QED BY <1>3, <1>4, <1>5, <1>6, <1>7, <1>8, <1>9, <1>10, <1>11, <1>12 DEF Next, Refresh

\* However many refreshes failed, a dead node's age is behind by no more than their
\* rounds and one.
THEOREM AgesLagBounded == Spec => []AgesLag
  <1>1. Init => AgeInv
    <2> SUFFICES ASSUME Init PROVE AgeInv
      OBVIOUS
    <2>1. TypeOK
      BY InitTyped
    <2> QED BY <2>1 DEF Init, AgeInv, AtRest, ReadAges, AgesKnown, AgesSet, AgesBound, Reading
  <1>2. AgeInv /\ [Next]_vars => AgeInv'
    BY AgeStep
  <1>3. AgeInv => AgesLag
    <2> SUFFICES ASSUME AgeInv, NEW n \in Nodes, ages[n] # Absent, made # n
                 PROVE  beat[n] <= ages[n] + AgeLag(failures)
      BY DEF AgesLag
    <2>1. beat[n] <= ages[n] + Elapsed /\ beat[n] # Absent /\ TypeOK
      BY DEF AgeInv, AgesBound, AgesKnown
    <2>2. Elapsed \in Nat /\ Elapsed <= AgeLag(failures) /\ AgeLag(failures) \in Nat
      <3>1. failures \in Nat
        BY <2>1, BoundsAssumption DEF TypeOK, HistoryTyped
      <3> QED BY <2>1, <3>1, ElapsedTyped, Times
    <2>3. beat[n] \in Nat /\ ages[n] \in Nat
      BY <2>1, AgesAreTimes
    <2> HIDE DEF AgeLag
    <2> QED BY <2>1, <2>2, <2>3
  <1> QED BY <1>1, <1>2, <1>3, PTL DEF Spec

-----------------------------------------------------------------------------
(* The counts *)

\* The steps that move the fleet.
Moves == \/ \E n \in Nodes, s \in States : Register(n, s)
         \/ \E n \in Beating : Heartbeat(n)

\* A node that moves has just arrived; nobody leaves.
LEMMA MovesFacts ==
    ASSUME TypeOK, Moves
    PROVE  /\ \E n \in Nodes : /\ state'[n] # Absent
                               /\ since'[n] = 0 \/ (state'[n] = state[n] /\ since'[n] = since[n])
                               /\ \A m \in Nodes \ {n} : state'[m] = state[m] /\ since'[m] = since[m]
           /\ UNCHANGED <<phase, timer, read, todo, made, total, held, live, failures, filled>>
  <1>1. UNCHANGED <<phase, timer, read, todo, made, total, held, live, failures, filled>>
    BY DEF Moves, Register, Heartbeat, task, gauges, scrape
  <1>2. ASSUME NEW n \in Nodes, NEW s \in States, Move(n, s)
        PROVE  /\ state'[n] # Absent /\ since'[n] = 0
               /\ \A m \in Nodes \ {n} : state'[m] = state[m] /\ since'[m] = since[m]
    BY <1>2, AbsentAssumption DEF TypeOK, TableTyped, Move
  <1>3. ASSUME NEW n \in Beating, Heartbeat(n)
        PROVE  n \in Nodes /\ state[n] # Absent /\ (Move(n, "active") \/ UNCHANGED <<state, since>>)
    BY <1>3, NodesAssumption DEF Heartbeat
  <1>4. "active" \in States
    BY DEF States
  <1> QED BY <1>1, <1>2, <1>3, <1>4 DEF Moves, Register

LEMMA CountsAreNumbers ==
    ASSUME TypeOK, NEW s \in States
    PROVE  /\ Value(total[s]) \in Nat /\ Value(held[s]) \in Nat /\ Count(s) \in Nat
           /\ Value(Count(s)) = Count(s) /\ Value(0) = 0 /\ Value(Absent) = 0
  <1>1. Count(s) \in Nat
    BY CountTyped, NodesAssumption, FS_CardinalityType
  <1>2. Cardinality(Nodes) \in Nat
    BY NodesAssumption, FS_CardinalityType
  <1>3. total[s] \in Nat \cup {Absent} /\ held[s] \in Nat \cup {Absent}
    BY <1>2 DEF TypeOK, GaugesTyped, Series
  <1> QED BY <1>1, <1>3, AbsentAssumption DEF Value

LEMMA ReadStatesStep ==
    ASSUME TypeOK, ReadStates, [Next]_vars
    PROVE  ReadStates'
  <1>1. CASE Moves
    <2>1. \A n \in Nodes : since[n] \in Nat /\ timer \in Nat
      BY Times, ElapsedTyped DEF TypeOK, TableTyped
    <2> QED BY <1>1, <2>1, MovesFacts DEF ReadStates, Reading
  <1>2. CASE Select
    BY <1>2 DEF Select, ReadStates, table
  <1>3. CASE Tick
    <2>1. timer \in Nat /\ timer' = timer + 1 /\ UNCHANGED <<phase, state>>
      BY <1>3, ElapsedTyped DEF Tick
    <2>2. ASSUME NEW n \in Nodes
          PROVE  read'[n].state = read[n].state /\ (state[n] # Absent => since'[n] <= since[n] + 1)
                 /\ since[n] \in Nat /\ since'[n] \in Nat
      <3>1. /\ read[n] \in [state : States \cup {Absent}, beat : (0..Horizon) \cup {Absent}]
            /\ since[n] \in 0..Horizon
        BY DEF TypeOK, TaskTyped, TableTyped
      <3>2. since[n] # Absent
        BY <3>1, AbsentAssumption, Times
      <3>3. Older(since[n]) \in 0..Horizon /\ Older(since[n]) <= since[n] + 1
        BY <3>1, <3>2, OlderTyped
      <3>4. since'[n] = IF state[n] = Absent THEN 0 ELSE Older(since[n])
        BY <1>3 DEF Tick
      <3>5. read'[n].state = read[n].state
        BY <1>3, <3>1 DEF Tick
      <3> QED BY <3>1, <3>3, <3>4, <3>5, Times
    <2> QED BY <2>1, <2>2 DEF ReadStates, Reading
  <1>4. CASE Clear \/ SetCount \/ CountsDone \/ SetAge \/ (\E s \in States : MakeCount(s))
             \/ (\E n \in Nodes : MakeAge(n)) \/ Copy \/ Answer \/ UNCHANGED vars
    <2>1. UNCHANGED <<state, since, read, timer>> /\ (Reading' => Reading)
      BY <1>4 DEF Clear, SetCount, CountsDone, SetAge, MakeCount, MakeAge, Copy, Answer, vars,
         table, task, Reading
    <2> QED BY <2>1 DEF ReadStates
  <1>5. CASE AgesDone \/ RefreshFails \/ Wake \/ Restart
    BY <1>5 DEF AgesDone, RefreshFails, Wake, Restart, ReadStates, Reading
  <1> QED BY <1>1, <1>2, <1>3, <1>4, <1>5 DEF Next, Refresh, Moves

LEMMA FillingStep ==
    ASSUME TypeOK, AtRest, Filling, [Next]_vars
    PROVE  Filling'
  <1>1. CASE Clear
    <2>1. phase' = "count" /\ read' = read /\ todo' = {s \in States : Count(s) > 0}
          /\ \A s \in States : total'[s] = Absent
      BY <1>1 DEF Clear, Cleared, NoSeries
    <2>2. \A s \in States : Count(s)' = Count(s)
      BY <2>1 DEF Count
    <2>3. ASSUME NEW s \in States PROVE Value(total'[s]) = IF s \in todo' THEN 0 ELSE Count(s)
      BY <2>1, CountsAreNumbers
    <2> QED BY <2>1, <2>2, <2>3 DEF Filling
  <1>2. ASSUME NEW r \in States, MakeCount(r) PROVE Filling'
    <2>1. phase = "count" /\ phase' = "count" /\ UNCHANGED <<read, todo>>
          /\ total' = [total EXCEPT ![r] = IF @ = Absent THEN 0 ELSE @]
      BY <1>2 DEF MakeCount
    <2>2. \A s \in States : Value(total'[s]) = Value(total[s])
      <3>1. \A s \in States : total'[s] = IF s = r /\ total[s] = Absent THEN 0 ELSE total[s]
        BY <2>1 DEF TypeOK, GaugesTyped, Series
      <3> QED BY <3>1, CountsAreNumbers
    <2>3. \A s \in States : Count(s)' = Count(s)
      BY <2>1 DEF Count
    <2> QED BY <2>1, <2>2, <2>3 DEF Filling
  <1>3. CASE SetCount
    <2>1. phase = "count" /\ phase' = "count" /\ read' = read /\ made \in States /\ made \in todo
          /\ total' = [total EXCEPT ![made] = Count(made)] /\ todo' = todo \ {made}
      BY <1>3 DEF SetCount, TypeOK, TaskTyped
    <2>2. \A s \in States : total'[s] = IF s = made THEN Count(s) ELSE total[s]
      BY <2>1 DEF TypeOK, GaugesTyped, Series
    <2>3. \A s \in States : Count(s)' = Count(s)
      BY <2>1 DEF Count
    <2>4. ASSUME NEW s \in States PROVE Value(total'[s]) = IF s \in todo' THEN 0 ELSE Count(s)
      BY <2>1, <2>2, CountsAreNumbers DEF Filling
    <2> QED BY <2>1, <2>3, <2>4 DEF Filling
  <1>4. CASE CountsDone
    <2>1. phase = "count" /\ phase' = "age" /\ UNCHANGED <<read, total>> /\ todo = {}
      BY <1>4 DEF CountsDone, gauges
    <2>2. \A s \in States : Count(s)' = Count(s)
      BY <2>1 DEF Count
    <2> QED BY <2>1, <2>2 DEF Filling
  <1>5. CASE SetAge \/ (\E n \in Nodes : MakeAge(n)) \/ Copy \/ Answer \/ UNCHANGED vars
    <2>1. UNCHANGED <<phase, read, total>> /\ (phase = "age" \/ todo' = todo)
      BY <1>5 DEF SetAge, MakeAge, Copy, Answer, vars, task, gauges
    <2>2. \A s \in States : Count(s)' = Count(s)
      BY <2>1 DEF Count
    <2> QED BY <2>1, <2>2 DEF Filling
  <1>6. CASE Moves \/ Select \/ AgesDone \/ RefreshFails \/ Wake \/ Restart \/ Tick
    <2>1. phase' \notin {"count", "age"}
      BY <1>6 DEF Moves, Register, Heartbeat, Select, AgesDone, RefreshFails, Wake, Restart, Tick,
         Yielding, task
    <2> QED BY <2>1 DEF Filling
  <1> QED BY <1>1, <1>2, <1>3, <1>4, <1>5, <1>6 DEF Next, Refresh, Moves

\* A count that was large enough stays so while the nodes it owes are as few.
LEMMA CountsKept ==
    ASSUME CountsBound, TypeOK, UNCHANGED <<total, filled>>, phase # "count",
           \A s \in States : Settled(s, QueryTime + Elapsed)' \subseteq Settled(s, QueryTime + Elapsed)
    PROVE  CountsBound'
  <1> SUFFICES ASSUME NEW s \in States, filled
               PROVE  Value(total[s]) >= Cardinality(Settled(s, QueryTime + Elapsed)')
    BY DEF CountsBound
  <1> DEFINE A == Settled(s, QueryTime + Elapsed)
             B == Settled(s, QueryTime + Elapsed)'
  <1>1. Value(total[s]) >= Cardinality(A)
    BY DEF CountsBound
  <1>2. A \in SUBSET Nodes /\ B \in SUBSET A
    BY DEF Settled
  <1> HIDE DEF A, B
  <1>3. Cardinality(B) <= Cardinality(A) /\ Cardinality(A) \in Nat /\ Cardinality(B) \in Nat
    BY <1>2, PartOfPart, PartOfFleet
  <1>4. Value(total[s]) \in Nat
    BY CountsAreNumbers
  <1> QED BY <1>1, <1>3, <1>4 DEF B

\* What was read counts every node settled for longer than the query.
LEMMA CountsWhatSettled ==
    ASSUME TypeOK, ReadStates, Reading, NEW s \in States, NEW t \in Nat, timer <= t
    PROVE  Count(s) >= Cardinality(Settled(s, t))
  <1> DEFINE A == {n \in Nodes : read[n].state = s}
             B == Settled(s, t)
  <1>1. s # Absent /\ timer \in Nat /\ \A n \in Nodes : since[n] \in Nat
    BY AbsentAssumption, ElapsedTyped, Times DEF TypeOK, TableTyped
  <1>2. A \in SUBSET Nodes /\ B \in SUBSET A
    BY <1>1 DEF Settled, ReadStates
  <1>3. Count(s) = Cardinality(A)
    BY DEF Count
  <1> HIDE DEF A, B
  <1>4. Cardinality(B) <= Cardinality(A) /\ Cardinality(A) \in Nat /\ Cardinality(B) \in Nat
    BY <1>2, PartOfPart, PartOfFleet
  <1> QED BY <1>3, <1>4 DEF B

LEMMA CountsBoundStep ==
    ASSUME CountInv, [Next]_vars
    PROVE  CountsBound'
  <1>0. /\ TypeOK /\ Elapsed \in Nat /\ Elapsed' \in Nat /\ timer \in Nat
        /\ \A n \in Nodes : since[n] \in Nat /\ since'[n] \in Nat
    <2>1. TypeOK /\ TypeOK'
      BY StepTyped DEF CountInv
    <2>2. \A n \in Nodes : since[n] \in Nat /\ since'[n] \in Nat
      BY <2>1, Times DEF TypeOK, TableTyped
    <2> QED BY <2>1, <2>2, ElapsedTyped, ElapsedTypedNext
  <1> USE DEF CountInv
  <1>1. CASE Moves
    <2>1. PICK n \in Nodes :
              /\ since'[n] = 0 \/ (state'[n] = state[n] /\ since'[n] = since[n])
              /\ \A m \in Nodes \ {n} : state'[m] = state[m] /\ since'[m] = since[m]
      BY <1>0, <1>1, MovesFacts
    <2>2. UNCHANGED <<phase, timer, total, failures, filled>>
      BY <1>0, <1>1, MovesFacts
    <2>3. Elapsed' = Elapsed
      BY <2>2 DEF Elapsed
    <2>4. \A s \in States : Settled(s, QueryTime + Elapsed)' \subseteq Settled(s, QueryTime + Elapsed)
      <3> SUFFICES ASSUME NEW s \in States, NEW m \in Nodes, state'[m] = s,
                          since'[m] > QueryTime + Elapsed
                   PROVE  state[m] = s /\ since[m] > QueryTime + Elapsed
        BY <2>3 DEF Settled
      <3>1. since'[m] # 0
        BY <1>0, Times
      <3> QED BY <2>1, <3>1
    <2>5. phase # "count"
      BY <1>1 DEF Moves, Register, Heartbeat, Yielding
    <2> QED BY <2>2, <2>4, <2>5, CountsKept
  <1>2. ASSUME UNCHANGED <<state, since, total, filled>>, Elapsed' >= Elapsed, phase # "count"
        PROVE  CountsBound'
    <2>1. \A s \in States : Settled(s, QueryTime + Elapsed)' \subseteq Settled(s, QueryTime + Elapsed)
      BY <1>0, <1>2, Times DEF Settled
    <2> QED BY <1>2, <2>1, CountsKept
  <1>3. CASE RefreshFails \/ Wake
    <2>1. UNCHANGED <<state, since, total, filled>> /\ phase # "count"
      BY <1>3 DEF RefreshFails, Wake, table, gauges
    <2>2. Elapsed' >= Elapsed
      BY <1>0, <1>3, ElapsedSteps
    <2> QED BY <1>2, <2>1, <2>2
  <1>4. CASE Select \/ SetAge \/ (\E n \in Nodes : MakeAge(n))
    <2>1. UNCHANGED <<state, since, total, filled, failures, timer>> /\ phase # "count"
          /\ phase # "sleep" /\ phase' # "sleep"
      BY <1>4 DEF Select, SetAge, MakeAge, table, gauges
    <2>2. Elapsed' = Elapsed
      BY <2>1 DEF Elapsed
    <2> QED BY <1>0, <1>2, <2>1, <2>2
  <1>5. CASE Copy \/ Answer \/ UNCHANGED vars
    <2>1. UNCHANGED <<state, since, total, filled, failures, timer, phase>>
      BY <1>5 DEF Copy, Answer, vars, table, task, gauges
    <2>2. Elapsed' = Elapsed
      BY <2>1 DEF Elapsed
    <2>3. CASE phase = "count"
      BY <2>1, <2>3 DEF CountsBound
    <2>4. CASE phase # "count"
      BY <1>0, <1>2, <2>1, <2>2, <2>4
    <2> QED BY <2>3, <2>4
  <1>6. CASE Tick
    <2>1. UNCHANGED <<state, phase, total, filled>> /\ phase # "count" /\ Elapsed' = Elapsed + 1
      BY <1>0, <1>6, ElapsedSteps DEF Tick, Yielding, gauges
    <2>2. ASSUME NEW n \in Nodes PROVE state[n] # Absent => since'[n] <= since[n] + 1
      <3>1. since[n] \in (0..Horizon) \cup {Absent} /\ since[n] # Absent
        BY <1>0, AbsentAssumption DEF TypeOK, TableTyped
      <3>2. Older(since[n]) <= since[n] + 1
        BY <3>1, OlderTyped
      <3> QED BY <1>6, <3>2 DEF Tick
    <2>3. \A s \in States : s # Absent
      BY AbsentAssumption
    <2>4. \A s \in States : Settled(s, QueryTime + Elapsed)' \subseteq Settled(s, QueryTime + Elapsed)
      <3> SUFFICES ASSUME NEW s \in States, NEW m \in Nodes, state[m] = s,
                          since'[m] > QueryTime + (Elapsed + 1)
                   PROVE  since[m] > QueryTime + Elapsed
        BY <2>1 DEF Settled
      <3>1. since'[m] <= since[m] + 1 /\ since[m] \in Nat /\ since'[m] \in Nat
        BY <1>0, <2>2, <2>3
      <3>2. QueryTime \in Nat
        BY Times
      <3> QED BY <1>0, <3>1, <3>2
    <2> QED BY <2>1, <2>4, CountsKept
  <1>7. CASE CountsDone
    <2>1. UNCHANGED <<state, since, total, failures, timer>> /\ phase = "count" /\ phase' = "age"
          /\ todo = {}
      BY <1>7 DEF CountsDone, table, gauges
    <2>2. Elapsed' = Elapsed
      BY <2>1 DEF Elapsed
    <2>3. ASSUME NEW s \in States
          PROVE  Value(total[s]) >= Cardinality(Settled(s, QueryTime + Elapsed))
      <3>1. Value(total[s]) = Count(s) /\ Reading
        BY <2>1 DEF Filling, Reading
      <3>2. timer <= QueryTime + Elapsed /\ QueryTime + Elapsed \in Nat
        BY <1>0, ElapsedTyped, Times
      <3> QED BY <3>1, <3>2, CountsWhatSettled
    <2>4. \A s \in States : Settled(s, QueryTime + Elapsed)' = Settled(s, QueryTime + Elapsed)
      BY <2>1, <2>2 DEF Settled
    <2> QED BY <2>1, <2>3, <2>4 DEF CountsBound
  <1>8. CASE AgesDone
    <2>1. UNCHANGED <<state, since, total>> /\ phase = "age"
      BY <1>8 DEF AgesDone, table, gauges
    <2>2. Elapsed' = 0
      BY <1>0, <1>8, ElapsedSteps
    <2>3. ASSUME NEW s \in States
          PROVE  Value(total[s]) >= Cardinality(Settled(s, QueryTime))
      <3>1. Value(total[s]) = Count(s) /\ Reading
        BY <2>1 DEF Filling, Reading
      <3>2. timer <= QueryTime /\ QueryTime \in Nat
        BY <1>0, <2>1, ElapsedTyped, Times
      <3> QED BY <3>1, <3>2, CountsWhatSettled
    <2>4. \A s \in States : Settled(s, QueryTime + Elapsed)' = Settled(s, QueryTime)
      BY <2>1, <2>2, Times DEF Settled
    <2> QED BY <2>1, <2>3, <2>4 DEF CountsBound
  <1>9. CASE Clear \/ SetCount \/ (\E s \in States : MakeCount(s)) \/ Restart
    <2>1. phase' = "count" \/ ~filled'
      BY <1>9 DEF Clear, SetCount, MakeCount, Restart
    <2> QED BY <2>1 DEF CountsBound
  <1> QED BY <1>1, <1>3, <1>4, <1>5, <1>6, <1>7, <1>8, <1>9 DEF Next, Refresh, Moves

LEMMA CountInitially == Init => CountInv
  <1> SUFFICES ASSUME Init PROVE CountInv
    OBVIOUS
  <1>1. TypeOK
    BY InitTyped
  <1> QED BY <1>1 DEF Init, CountInv, AtRest, ReadStates, Filling, CountsBound, Reading

LEMMA CountStep ==
    ASSUME CountInv, [Next]_vars
    PROVE  CountInv'
  BY StepTyped, ReadStatesStep, FillingStep, CountsBoundStep DEF CountInv

\* Once filled, nodes_total counts in its state every node that has been there
\* for longer than a query and the rounds since the last good refresh.
THEOREM CountsCaughtUp == Spec => []CountsCatchUp
  <1>1. CountInv => CountsCatchUp
    <2> SUFFICES ASSUME CountInv, phase # "count", filled, NEW s \in States
                 PROVE  Value(total[s]) >= Cardinality(Settled(s, CountLag(failures)))
      BY DEF CountsCatchUp, Settled
    <2> DEFINE A == Settled(s, QueryTime + Elapsed)
               B == Settled(s, CountLag(failures))
    <2>1. Value(total[s]) >= Cardinality(A) /\ TypeOK
      BY DEF CountInv, CountsBound
    <2>2. failures \in Nat /\ \A n \in Nodes : since[n] \in Nat
      BY <2>1, BoundsAssumption, Times DEF TypeOK, HistoryTyped, TableTyped
    <2>3. Elapsed \in Nat /\ QueryTime + Elapsed <= CountLag(failures) /\ CountLag(failures) \in Nat
      <3> HIDE DEF CountLag, AgeLag, Rounds, Round
      <3> QED BY <2>1, <2>2, ElapsedTyped, Times
    <2>4. A \in SUBSET Nodes /\ B \in SUBSET A
      <3> HIDE DEF CountLag, Elapsed
      <3> QED BY <2>2, <2>3, Times DEF Settled
    <2>5. Value(total[s]) \in Nat
      BY <2>1, CountsAreNumbers
    <2> HIDE DEF A, B
    <2>6. Cardinality(B) <= Cardinality(A) /\ Cardinality(A) \in Nat /\ Cardinality(B) \in Nat
      BY <2>4, PartOfPart, PartOfFleet
    <2> QED BY <2>1, <2>5, <2>6 DEF B
  <1>2. CountInv /\ [Next]_vars => CountInv'
    BY CountStep
  <1> QED BY <1>1, <1>2, CountInitially, PTL DEF Spec

-----------------------------------------------------------------------------
(* The scrape *)

LEMMA FleetGrows ==
    ASSUME TypeOK, [Next]_vars
    PROVE  /\ Cardinality(Registered) \in Nat /\ Cardinality(Registered') \in Nat
           /\ Cardinality(Registered) <= Cardinality(Registered')
  <1> DEFINE A == Registered'
             B == Registered
  <1>1. Moves => \A n \in Nodes : state[n] # Absent => state'[n] # Absent
    BY MovesFacts
  <1>2. ~Moves => state' = state
    BY DEF Next, Moves, Refresh, Wake, Select, Clear, MakeCount, SetCount, CountsDone, MakeAge,
       SetAge, AgesDone, RefreshFails, Copy, Answer, Restart, Tick, vars, table
  <1>3. A \in SUBSET Nodes /\ B \in SUBSET A
    BY <1>1, <1>2 DEF Registered
  <1> HIDE DEF A, B
  <1>4. Cardinality(B) <= Cardinality(A) /\ Cardinality(A) \in Nat /\ Cardinality(B) \in Nat
    BY <1>3, PartOfPart, PartOfFleet
  <1> QED BY <1>4 DEF A, B

\* The rows read are of different nodes, all in the table.
LEMMA CountsFit ==
    ASSUME TypeOK, ReadStates, Reading
    PROVE  Count("onboarding") + Count("active") <= Cardinality(Registered)
  <1> DEFINE A == {n \in Nodes : read[n].state = "onboarding"}
             B == {n \in Nodes : read[n].state = "active"}
             C == A \cup B
             R == Registered
  <1>1. A \in SUBSET Nodes /\ B \in SUBSET Nodes /\ R \in SUBSET Nodes /\ A \cap B = {}
    BY DEF Registered
  <1>2. C \in SUBSET R
    BY AbsentAssumption DEF Registered, ReadStates, States
  <1>3. Count("onboarding") = Cardinality(A) /\ Count("active") = Cardinality(B)
    BY DEF Count
  <1> HIDE DEF A, B, R
  <1>4. IsFiniteSet(A) /\ IsFiniteSet(B) /\ Cardinality(A) \in Nat /\ Cardinality(B) \in Nat
    BY <1>1, PartOfFleet
  <1>5. Cardinality(C) = Cardinality(A) + Cardinality(B)
    BY <1>1, <1>4, FS_Union, FS_EmptySet
  <1> HIDE DEF C
  <1>6. Cardinality(C) <= Cardinality(R)
    BY <1>1, <1>2, PartOfPart
  <1> QED BY <1>3, <1>5, <1>6 DEF R

LEMMA ScrapeStep ==
    ASSUME ScrapeInv, [Next]_vars
    PROVE  ScrapeInv'
  <1>0. CountInv /\ CountInv' /\ TypeOK /\ TypeOK' /\ HeldBehind /\ Fits
    BY CountStep DEF ScrapeInv, CountInv
  <1>1. /\ Cardinality(Registered) \in Nat /\ Cardinality(Registered') \in Nat
        /\ Cardinality(Registered) <= Cardinality(Registered')
    BY <1>0, FleetGrows
  <1>2. "onboarding" \in States /\ "active" \in States /\ Value(Absent) = 0 /\ Value(0) = 0
    BY <1>0, CountsAreNumbers DEF States
  <1>3. \A s \in States : /\ Value(total[s]) \in Nat /\ Value(held[s]) \in Nat
    BY <1>0, CountsAreNumbers
  <1>4. Sum(NoSeries) = 0
    BY <1>2 DEF Sum, NoSeries
  <1>5. Sum(total) \in Nat /\ Sum(held) \in Nat
    BY <1>2, <1>3 DEF Sum
  <1> SUFFICES HeldBehind' /\ Sum(total') <= Cardinality(Registered')
                           /\ Sum(held') <= Cardinality(Registered')
    BY <1>0 DEF ScrapeInv, Fits, NoNodeTwice, Sum
  <1>6. Sum(total) <= Cardinality(Registered) /\ Sum(held) <= Cardinality(Registered)
    BY <1>0 DEF Fits, NoNodeTwice
  <1> HIDE DEF Sum, Registered
  <1>7. CASE UNCHANGED <<total, held, live>>
    BY <1>0, <1>1, <1>5, <1>6, <1>7 DEF HeldBehind
  <1>8. CASE Clear
    BY <1>1, <1>4, <1>5, <1>6, <1>8 DEF Clear, Cleared, HeldBehind
  <1>9. ASSUME NEW r \in States, MakeCount(r)
        PROVE  HeldBehind' /\ Sum(total') <= Cardinality(Registered')
                           /\ Sum(held') <= Cardinality(Registered')
    <2>1. /\ total' = [total EXCEPT ![r] = IF @ = Absent THEN 0 ELSE @] /\ UNCHANGED <<held, live>>
      BY <1>9 DEF MakeCount, scrape
    <2>2. \A s \in States : total'[s] = IF s = r /\ total[s] = Absent THEN 0 ELSE total[s]
      BY <1>0, <2>1 DEF TypeOK, GaugesTyped, Series
    <2>3. \A s \in States : Value(total'[s]) = Value(total[s])
      BY <1>2, <2>2
    <2>4. Sum(total') = Sum(total)
      BY <1>2, <2>3 DEF Sum
    <2> QED BY <1>0, <1>1, <1>5, <1>6, <2>1, <2>3, <2>4 DEF HeldBehind
  <1>10. CASE SetCount
    <2>1. /\ phase = "count" /\ phase' = "count" /\ made \in States /\ made # Absent
          /\ total' = [total EXCEPT ![made] = Count(made)] /\ live' = live
          /\ held' = IF live /\ held[made] # Absent THEN [held EXCEPT ![made] = Count(made)] ELSE held
      BY <1>0, <1>10 DEF SetCount, TypeOK, TaskTyped
    <2>2. \A s \in States : total'[s] = IF s = made THEN Count(s) ELSE total[s]
      BY <1>0, <2>1 DEF TypeOK, GaugesTyped, Series
    <2>3. live => \A s \in States :
              held'[s] = IF s = made /\ held[made] # Absent THEN Count(s) ELSE held[s]
      BY <1>0, <2>1 DEF TypeOK, GaugesTyped, Series
    <2>4. \A s \in States : Value(Count(s)) = Count(s) /\ Count(s) \in Nat
      BY <1>0, CountsAreNumbers
    <2>5. HeldBehind'
      <3> SUFFICES ASSUME live, NEW s \in States PROVE Value(held'[s]) <= Value(total'[s])
        BY <2>1 DEF HeldBehind
      <3>1. CASE s = made
        BY <1>2, <2>2, <2>3, <2>4, <3>1
      <3>2. CASE s # made
        BY <1>0, <2>2, <2>3, <3>2 DEF HeldBehind
      <3> QED BY <3>1, <3>2
    <2>6. ReadStates' /\ Reading' /\ Filling'
      BY <1>0, <2>1 DEF CountInv, Reading
    <2>7. \A s \in States : Value(total'[s]) \in Nat /\ Value(total'[s]) <= Count(s)
      <3>1. \A s \in States : Value(total[s]) <= Count(s)
        BY <1>0, <2>1, <2>4 DEF CountInv, Filling
      <3> QED BY <1>3, <2>2, <2>4, <3>1
    <2>8. Count("onboarding") + Count("active") <= Cardinality(Registered)
      BY <1>0, <2>1, CountsFit DEF CountInv, Reading
    <2>9. Sum(total') <= Cardinality(Registered') /\ Sum(total') \in Nat
      BY <1>1, <1>2, <2>4, <2>7, <2>8 DEF Sum
    <2>10. CASE live
      <3>1. \A s \in States : Value(held'[s]) \in Nat
        BY <1>2, <1>3, <2>3, <2>4, <2>10
      <3>2. \A s \in States : Value(held'[s]) <= Value(total'[s])
        BY <2>1, <2>5, <2>10 DEF HeldBehind
      <3>3. Sum(held') <= Sum(total') /\ Sum(held') \in Nat
        BY <1>2, <2>7, <3>1, <3>2 DEF Sum
      <3> QED BY <1>1, <2>5, <2>9, <3>3
    <2>11. CASE ~live
      <3>1. held' = held
        BY <2>1, <2>11
      <3> QED BY <1>1, <1>5, <1>6, <2>5, <2>9, <3>1
    <2> QED BY <2>10, <2>11
  <1>11. CASE Copy
    <2>1. held' = total /\ total' = total
      BY <1>11 DEF Copy, gauges
    <2> QED BY <1>1, <1>3, <1>5, <1>6, <2>1 DEF HeldBehind
  <1>12. CASE Answer \/ Tick \/ Restart
    <2>1. held' = NoSeries /\ ~live' /\ (total' = total \/ total' = NoSeries)
      BY <1>12 DEF Answer, Tick, Restart, NoScrape, gauges
    <2> QED BY <1>1, <1>4, <1>5, <1>6, <2>1 DEF HeldBehind
  <1>13. CASE Moves \/ Select \/ CountsDone \/ SetAge \/ AgesDone \/ RefreshFails \/ Wake
              \/ (\E n \in Nodes : MakeAge(n)) \/ UNCHANGED vars
    <2>1. UNCHANGED <<total, held, live>>
      BY <1>13 DEF Moves, Register, Heartbeat, Select, CountsDone, SetAge, AgesDone, RefreshFails,
         Wake, MakeAge, vars, gauges, scrape
    <2> QED BY <1>7, <2>1
  <1> QED BY <1>8, <1>9, <1>10, <1>11, <1>12, <1>13 DEF Next, Refresh, Moves

\* A scrape that meets clear() and the refill shows no node twice, whichever
\* series it copied and whichever were set since.
THEOREM ScrapeShowsNoNodeTwice == Spec => []NoNodeTwice
  <1>1. Init => ScrapeInv
    <2> SUFFICES ASSUME Init PROVE ScrapeInv
      OBVIOUS
    <2>1. CountInv /\ TypeOK
      BY CountInitially, InitTyped
    <2>2. ~live /\ total = NoSeries /\ held = NoSeries /\ Registered = {}
      BY DEF Init, Registered
    <2>3. Sum(NoSeries) = 0
      BY <2>1, CountsAreNumbers DEF Sum, NoSeries, States
    <2> QED BY <2>1, <2>2, <2>3, FS_EmptySet DEF ScrapeInv, HeldBehind, Fits, NoNodeTwice
  <1>2. ScrapeInv /\ [Next]_vars => ScrapeInv'
    BY ScrapeStep
  <1>3. ScrapeInv => NoNodeTwice
    BY DEF ScrapeInv, Fits
  <1> QED BY <1>1, <1>2, <1>3, PTL DEF Spec
=============================================================================
