---------------------------- MODULE GaugeRefresh ----------------------------
(***************************************************************************)
(* The controller's gauges.  A background task of the event loop reads the *)
(* node table, clears nodes_total and fills it again, sets the heartbeat   *)
(* age of every node and sleeps.  GET /metrics is served by a thread of    *)
(* its own, so a scrape meets the refill at any point: it copies the map   *)
(* of a gauge's series in one step and reads their values one by one.      *)
(*                                                                         *)
(* Abstracted: the labels (state, role) to the state, for a row never      *)
(* changes its role; the controller's writes to the two that move a node   *)
(* (Controller.tla has them).  Time is discrete, and stops at Horizon for  *)
(* ages; the refill takes none.  prometheus_client is external: labels()   *)
(* makes a series with value 0, set() gives it its value, clear() replaces *)
(* the map and leaves the old series to whoever copied it.                 *)
(***************************************************************************)
EXTENDS Naturals, FiniteSets

CONSTANTS
    Nodes,
    Beating,      \* those whose agent runs; the others are only registered
    Interval,     \* interval_seconds
    QueryTime,    \* the longest the SELECT and the session's close take
    MaxFailures,  \* bounds the consecutive failed refreshes
    MaxRestarts,  \* bounds the restarts of the controller
    Absent        \* no such row, heartbeat or series

ASSUME PeriodsAssumption == Interval \in Nat \ {0} /\ QueryTime \in Nat \ {0}
ASSUME NodesAssumption == IsFiniteSet(Nodes) /\ Beating \subseteq Nodes
ASSUME BoundsAssumption == MaxFailures \in Nat /\ MaxRestarts \in Nat

States == {"onboarding", "active"}

ASSUME AbsentAssumption == Absent \notin Nat \cup States \cup Nodes

\* One round of the loop; how old the counts and the ages can be after k failed rounds.
Round       == Interval + QueryTime
CountLag(k) == QueryTime + (k + 1) * Round
AgeLag(k)   == (k + 1) * Round
Horizon     == CountLag(MaxFailures) + 1

VARIABLES
    state,     \* the committed table: each node's state, or Absent
    since,     \* time since the state last changed
    beat,      \* time since last_heartbeat_at, or Absent
    phase,     \* the task: "select", "close", "count", "age", "sleep"
    timer,     \* time since the query or the sleep began
    read,      \* the rows it has read: state, and age of the heartbeat
    todo,      \* series it has still to set
    made,      \* the one it has made and not set yet, or Absent
    total,     \* nodes_total: value of each series, or Absent
    ages,      \* node_last_heartbeat_seconds, likewise
    held,      \* a scrape's copy of nodes_total's series
    live,      \* whether they still are the gauge's own
    failures,  \* history: failed refreshes since the last good one or the boot
    filled,    \* history: a refresh has succeeded since the boot
    restarts

table  == <<state, since, beat>>
gauges == <<total, ages>>
scrape == <<held, live>>
task   == <<phase, timer, read, todo, made>>
vars   == <<state, since, beat, phase, timer, read, todo, made, total, ages,
            held, live, failures, filled, restarts>>

NoSeries == [s \in States |-> Absent]
NoRows   == [n \in Nodes |-> [state |-> Absent, beat |-> Absent]]

Init ==
    /\ state = [n \in Nodes |-> Absent] /\ since = [n \in Nodes |-> 0]
    /\ beat = [n \in Nodes |-> Absent]
    /\ phase = "select" /\ timer = 0 /\ read = NoRows /\ todo = {} /\ made = Absent
    /\ total = NoSeries /\ ages = [n \in Nodes |-> Absent]
    /\ held = NoSeries /\ live = FALSE
    /\ failures = 0 /\ filled = FALSE /\ restarts = 0

-----------------------------------------------------------------------------
(* The node table, as the request handlers change it *)

\* The handlers run on the task's event loop: not during the refill.
Yielding == phase \notin {"count", "age"}

Move(n, s) == state' = [state EXCEPT ![n] = s] /\ since' = [since EXCEPT ![n] = 0]

Register(n, s) ==
    /\ Yielding /\ state[n] = Absent
    /\ Move(n, s)
    /\ UNCHANGED <<beat, task, gauges, scrape, failures, filled, restarts>>

Heartbeat(n) ==
    /\ Yielding /\ state[n] # Absent
    /\ IF state[n] = "onboarding" THEN Move(n, "active") ELSE UNCHANGED <<state, since>>
    /\ beat' = [beat EXCEPT ![n] = 0]
    /\ UNCHANGED <<task, gauges, scrape, failures, filled, restarts>>

-----------------------------------------------------------------------------
(* refresh_node_gauges, periodic_gauge_refresh *)

Select ==
    /\ phase = "select" /\ phase' = "close"
    /\ read' = [n \in Nodes |-> [state |-> state[n], beat |-> beat[n]]]
    /\ UNCHANGED <<table, timer, todo, made, gauges, scrape, failures, filled, restarts>>

\* Mutant: nodes without a heartbeat are left out.
CountBeating(s) == Cardinality({n \in Nodes : read[n].state = s /\ read[n].beat # Absent})

\* The number of rows read in this state.
Count(s) == Cardinality({n \in Nodes : read[n].state = s})

\* Mutant: the series are overwritten, and those without a node stay.
Overwritten == total

\* nodes_total.clear()
Cleared == NoSeries

\* The session is closed; from here to the sleep the task does not wait.
Clear ==
    /\ phase = "close" /\ phase' = "count"
    /\ total' = Cleared /\ live' = FALSE
    /\ todo' = {s \in States : Count(s) > 0}
    /\ UNCHANGED <<table, timer, read, made, ages, held, failures, filled, restarts>>

\* labels(): the series exists, with value 0 if it is new.
MakeCount(s) ==
    /\ phase = "count" /\ made = Absent /\ s \in todo
    /\ made' = s
    /\ total' = [total EXCEPT ![s] = IF @ = Absent THEN 0 ELSE @]
    /\ UNCHANGED <<table, phase, timer, read, todo, ages, scrape, failures, filled, restarts>>

\* set(): also seen through a copy of the map that has the series.
SetCount ==
    /\ phase = "count" /\ made # Absent
    /\ total' = [total EXCEPT ![made] = Count(made)]
    /\ held' = IF live /\ held[made] # Absent THEN [held EXCEPT ![made] = Count(made)] ELSE held
    /\ made' = Absent /\ todo' = todo \ {made}
    /\ UNCHANGED <<table, phase, timer, read, ages, live, failures, filled, restarts>>

\* Mutants: a series is set only once; a naive time taken for local time.
AgeAtFirst(n) == IF made = n /\ ages[n] = 0 THEN read[n].beat ELSE ages[n]
AgeInLocalTime(n) == read[n].beat + Horizon + 1

\* now - last_heartbeat_at
Age(n) == read[n].beat

\* Next the ages, of the nodes that ever sent a heartbeat; these series are
\* never cleared.
CountsDone ==
    /\ phase = "count" /\ todo = {}
    /\ phase' = "age" /\ todo' = {n \in Nodes : read[n].beat # Absent}
    /\ UNCHANGED <<table, timer, read, made, gauges, scrape, failures, filled, restarts>>

MakeAge(n) ==
    /\ phase = "age" /\ made = Absent /\ n \in todo
    /\ made' = n
    /\ ages' = [ages EXCEPT ![n] = IF @ = Absent THEN 0 ELSE @]
    /\ UNCHANGED <<table, phase, timer, read, todo, total, scrape, failures, filled, restarts>>

SetAge ==
    /\ phase = "age" /\ made # Absent
    /\ ages' = [ages EXCEPT ![made] = Age(made)]
    /\ made' = Absent /\ todo' = todo \ {made}
    /\ UNCHANGED <<table, phase, timer, read, total, scrape, failures, filled, restarts>>

AgesDone ==
    /\ phase = "age" /\ todo = {}
    /\ phase' = "sleep" /\ timer' = 0 /\ failures' = 0 /\ read' = NoRows /\ filled' = TRUE
    /\ UNCHANGED <<table, todo, made, gauges, scrape, restarts>>

\* The SELECT or the close raises: logged, and the gauges stay as they are.
RefreshFails ==
    /\ phase \in {"select", "close"}
    /\ failures < MaxFailures /\ failures' = failures + 1
    /\ phase' = "sleep" /\ timer' = 0 /\ read' = NoRows
    /\ UNCHANGED <<table, todo, made, gauges, scrape, filled, restarts>>

\* Mutant: an exception ends the task.
WakesIfHealthy == failures = 0

\* The loop goes round after a failure too.
WakesUp == TRUE

Wake ==
    /\ phase = "sleep" /\ timer = Interval /\ WakesUp
    /\ phase' = "select" /\ timer' = 0
    /\ UNCHANGED <<table, read, todo, made, gauges, scrape, failures, filled, restarts>>

-----------------------------------------------------------------------------
(* GET /metrics, in its thread *)

NoScrape == held' = NoSeries /\ live' = FALSE

Copy ==
    /\ held = NoSeries
    /\ held' = total /\ live' = TRUE
    /\ UNCHANGED <<table, task, gauges, failures, filled, restarts>>

\* The values are read one by one meanwhile; a value only changes from 0.
Answer ==
    /\ held # NoSeries /\ NoScrape
    /\ UNCHANGED <<table, task, gauges, failures, filled, restarts>>

-----------------------------------------------------------------------------
(* The process and the clock *)

\* The gauges are the process's memory; the table is not.
Restart ==
    /\ Yielding /\ restarts < MaxRestarts /\ restarts' = restarts + 1
    /\ phase' = "select" /\ timer' = 0 /\ read' = NoRows /\ todo' = {} /\ made' = Absent
    /\ total' = NoSeries /\ ages' = [n \in Nodes |-> Absent]
    /\ NoScrape
    /\ failures' = 0 /\ filled' = FALSE
    /\ UNCHANGED table

Older(t) == IF t = Absent THEN t ELSE IF t < Horizon THEN t + 1 ELSE t

\* A scrape does not last that long.
Tick ==
    /\ Yielding
    /\ timer < (IF phase = "sleep" THEN Interval ELSE QueryTime)
    /\ timer' = timer + 1
    /\ since' = [n \in Nodes |-> IF state[n] = Absent THEN 0 ELSE Older(since[n])]
    /\ beat' = [n \in Nodes |-> Older(beat[n])]
    /\ read' = [n \in Nodes |-> [read[n] EXCEPT !.beat = Older(@)]]
    /\ NoScrape
    /\ UNCHANGED <<state, phase, todo, made, gauges, failures, filled, restarts>>

Refresh ==
    \/ Select \/ Clear \/ SetCount \/ CountsDone \/ SetAge \/ AgesDone \/ RefreshFails
    \/ \E s \in States : MakeCount(s)
    \/ \E n \in Nodes : MakeAge(n)

Next ==
    \/ \E n \in Nodes, s \in States : Register(n, s)
    \/ \E n \in Beating : Heartbeat(n)
    \/ Refresh \/ Wake
    \/ Copy \/ Answer
    \/ Restart
    \/ Tick

\* A refresh ends one way or the other, the sleep ends, time passes.
Fairness == WF_vars(Refresh) /\ WF_vars(Wake) /\ WF_vars(Tick)

Spec == Init /\ [][Next]_vars
FairSpec == Spec /\ Fairness

-----------------------------------------------------------------------------
(* Properties *)

Registered == {n \in Nodes : state[n] # Absent}
Value(v)   == IF v = Absent THEN 0 ELSE v
Sum(g)     == Value(g["onboarding"]) + Value(g["active"])
Series     == [States -> (0..Cardinality(Nodes)) \cup {Absent}]

TableTyped ==
    /\ state \in [Nodes -> States \cup {Absent}] /\ since \in [Nodes -> 0..Horizon]
    /\ beat \in [Nodes -> (0..Horizon) \cup {Absent}]

TaskTyped ==
    /\ phase \in {"select", "close", "count", "age", "sleep"}
    /\ timer \in 0..(IF phase = "sleep" THEN Interval ELSE QueryTime)
    /\ read \in [Nodes -> [state : States \cup {Absent}, beat : (0..Horizon) \cup {Absent}]]
    /\ todo \subseteq (IF phase = "age" THEN Nodes ELSE States) /\ made \in todo \cup {Absent}

GaugesTyped ==
    /\ total \in Series /\ held \in Series
    /\ ages \in [Nodes -> (0..Horizon) \cup {Absent}]

FlagsTyped   == live \in BOOLEAN /\ filled \in BOOLEAN
HistoryTyped == failures \in 0..MaxFailures /\ restarts \in 0..MaxRestarts

\* The shape of the state.
TypeOK == TableTyped /\ TaskTyped /\ GaugesTyped /\ FlagsTyped /\ HistoryTyped

\* A scrape that meets the refill may show a part of the fleet, or none of it,
\* but no node twice: it never mixes the counts before and after a state change.
NoNodeTwice == Sum(held) <= Cardinality(Registered)

\* metrics_hooks.py: "Gauges represent current state".  Once filled, and between
\* refills, a node
\* that has been in a state for longer than the loop's rounds since its last
\* good one account for is counted there.
CountsCatchUp ==
    phase # "count" /\ filled =>
        \A s \in States :
            Value(total[s]) >= Cardinality({n \in Nodes : state[n] = s /\ since[n] > CountLag(failures)})

\* A dead node looks fresher than it is by no more than the rounds since the
\* last good refresh, the instant between labels() and set() excepted.
AgesLag == \A n \in Nodes : ages[n] # Absent /\ made # n => beat[n] <= ages[n] + AgeLag(failures)

\* However many nodes there are, nodes_total comes to count that many: a
\* cleared gauge does not stay cleared, a failed refresh is repeated.
FleetIsShown ==
    \A k \in 1..Cardinality(Nodes) : Cardinality(Registered) = k ~> Sum(total) >= k
=============================================================================
