-------------------------- MODULE NodeAgentProofs --------------------------
(* Safety of NodeAgent: for every period and limit, and, for the deployed      *)
(* backoff, that an outage does not exhaust the start limit.                   *)
EXTENDS NodeAgent, TLAPS

(***************************************************************************)
(* How the unit, the process and its tasks fit together.                   *)
(***************************************************************************)
ProcessShape ==
    /\ unit = "active" <=> agent # "none"
    /\ agent # "running" => hb = "none" /\ ms = "none" /\ ~stop
    /\ hb \in {"none", "new"} => attempt = 0 /\ delay = FirstDelay
    /\ hb \in {"registering", "answered"} => attempt < Attempts

JobShape ==
    /\ stop => job # "none"
    /\ job # "none" => unit = "active"
    /\ job = "stop" => asked = "stop"

\* An answer under way comes from a controller that has the row.
AnsweredWhenKnown == hb = "answered" => known

Shape ==
    /\ TypeOK
    /\ ProcessShape
    /\ JobShape
    /\ AnsweredWhenKnown
    /\ BeatsOnlyWhenKnown
    /\ StaysUp

USE AgentAssumption, UnitAssumption, BoundsAssumption

-----------------------------------------------------------------------------
(* The window's clock, the backoff *)

\* After stays within the clock's range and does not go back.
LEMMA AfterTyped ==
    ASSUME NEW age \in 0..Past, NEW wait \in Nat
    PROVE  After(age, wait) \in 0..Past /\ After(age, wait) >= age
  BY DEF After, Past

\* The backoff stays between its first value and its cap.
LEMMA NextDelayTyped ==
    ASSUME NEW d \in FirstDelay..MaxDelay
    PROVE  NextDelay(d) \in FirstDelay..MaxDelay
  <1>1. (d * 18) \div 10 \in Nat /\ (d * 18) \div 10 >= d
    OBVIOUS
  <1> QED BY <1>1 DEF NextDelay

-----------------------------------------------------------------------------
(* Starts and ends of the process *)

\* What a start or the end of a process leaves behind.
LEMMA LaunchShape ==
    ASSUME Shape, NEW age \in 0..Past, Launch(age), NoTasks,
           job' = "none", asked' \in {"run", "stop"}, requests' \in 0..MaxRequests,
           UNCHANGED world
    PROVE  Shape'
  <1>1. UnitTyped'
    BY DEF Shape, TypeOK, UnitTyped, Launch, Past
  <1>2. ProcessTyped'
    BY DEF ProcessTyped, Launch, NoTasks
  <1>3. FlagsTyped'
    BY Zenon DEF Shape, TypeOK, FlagsTyped, Launch, NoTasks, world
  <1>4. ProcessShape' /\ JobShape' /\ AnsweredWhenKnown' /\ BeatsOnlyWhenKnown' /\ StaysUp'
    BY DEF ProcessShape, JobShape, AnsweredWhenKnown, BeatsOnlyWhenKnown, StaysUp, Launch, NoTasks
  <1> QED BY <1>1, <1>2, <1>3, <1>4 DEF Shape, TypeOK

LEMMA ExitShape ==
    ASSUME Shape, NEW clean \in BOOLEAN, NEW wait \in Nat, Exit(clean, wait), UNCHANGED world,
           agent # "none", clean => job # "none"
    PROVE  Shape'
  <1>1. After(windowAge, wait) \in 0..Past
    BY AfterTyped DEF Shape, TypeOK, UnitTyped
  <1>2. CASE job = "restart"
    BY <1>1, <1>2, LaunchShape DEF Exit, Shape, TypeOK, UnitTyped
  <1>3. CASE job # "restart"
    <2>1. UnitTyped'
      BY <1>1, <1>3 DEF Shape, TypeOK, UnitTyped, Exit, Pass
    <2>2. ProcessTyped'
      BY <1>3 DEF ProcessTyped, Exit, NoTasks
    <2>3. FlagsTyped'
      BY <1>3, Zenon DEF Shape, TypeOK, FlagsTyped, Exit, NoTasks, world
    <2>4. ProcessShape' /\ JobShape' /\ AnsweredWhenKnown' /\ BeatsOnlyWhenKnown'
      BY <1>3 DEF ProcessShape, JobShape, AnsweredWhenKnown, BeatsOnlyWhenKnown, Exit, NoTasks
    <2>5. StaysUp'
      BY <1>3 DEF Shape, TypeOK, UnitTyped, JobShape, StaysUp, Exit
    <2> QED BY <2>1, <2>2, <2>3, <2>4, <2>5 DEF Shape, TypeOK
  <1> QED BY <1>2, <1>3

-----------------------------------------------------------------------------
(* systemd's steps *)

\* What a step that changes neither the flags' types nor the process keeps.
LEMMA RequestShape ==
    ASSUME Shape, Stop \/ Restart
    PROVE  Shape'
  <1>1. UnitTyped'
    BY DEF Shape, TypeOK, UnitTyped, Stop, Restart, Asked
  <1>2. ProcessTyped'
    BY DEF Shape, TypeOK, ProcessTyped, Stop, Restart, process
  <1>3. FlagsTyped'
    BY Zenon DEF Shape, TypeOK, FlagsTyped, Stop, Restart, process, world
  <1>4. ProcessShape' /\ JobShape' /\ AnsweredWhenKnown' /\ BeatsOnlyWhenKnown' /\ StaysUp'
    <2>1. UNCHANGED <<agent, hb, ms, stop, attempt, delay, known>>
      BY DEF Stop, Restart, process, world
    <2>2. CASE Stop
      BY <2>1, <2>2 DEF Shape, TypeOK, ProcessTyped, ProcessShape, JobShape,
                        AnsweredWhenKnown, BeatsOnlyWhenKnown, StaysUp, Stop, Asked
    <2>3. CASE Restart
      BY <2>1, <2>3 DEF Shape, ProcessShape, JobShape, AnsweredWhenKnown, BeatsOnlyWhenKnown,
                        StaysUp, Restart, Asked
    <2> QED BY <2>2, <2>3
  <1> QED BY <1>1, <1>2, <1>3, <1>4 DEF Shape, TypeOK

LEMMA StartShape ==
    ASSUME Shape, AutoRestart \/ \E d \in {0, Past} : StartAgain(d)
    PROVE  Shape'
  <1>1. windowAge \in 0..Past /\ job \in {"none", "stop", "restart"}
        /\ asked \in {"run", "stop"} /\ requests \in 0..MaxRequests
    BY DEF Shape, TypeOK, UnitTyped
  <1>2. CASE AutoRestart
    <2>1. job = "none"
      BY <1>2 DEF AutoRestart, Shape, JobShape
    <2> QED BY <1>1, <1>2, <2>1, AfterTyped, LaunchShape DEF AutoRestart
  <1>3. ASSUME NEW d \in {0, Past}, StartAgain(d) PROVE Shape'
    <2>1. d \in Nat
      BY DEF Past
    <2>2. job = "none"
      BY <1>3 DEF StartAgain, Shape, JobShape
    <2>3. After(windowAge, d) \in 0..Past
      BY <1>1, <2>1, AfterTyped
    <2> QED BY <1>1, <1>3, <2>2, <2>3, LaunchShape DEF StartAgain, Asked
  <1> QED BY <1>2, <1>3

LEMMA TerminateShape ==
    ASSUME Shape, Terminate
    PROVE  Shape'
  <1>1. CASE agent = "gate" /\ Exit(TRUE, 0)
    BY <1>1, ExitShape DEF Terminate
  <1>2. CASE /\ agent = "running" /\ stop' = TRUE
             /\ UNCHANGED <<system, agent, hb, ms, attempt, delay>>
    <2>1. UnitTyped' /\ ProcessTyped'
      BY <1>2 DEF Shape, TypeOK, UnitTyped, ProcessTyped, system
    <2>2. FlagsTyped'
      BY <1>2, Zenon DEF Shape, TypeOK, FlagsTyped, Terminate, system, world
    <2>3. ProcessShape' /\ JobShape' /\ AnsweredWhenKnown' /\ BeatsOnlyWhenKnown' /\ StaysUp'
      BY <1>2 DEF Shape, ProcessShape, JobShape, AnsweredWhenKnown, BeatsOnlyWhenKnown, StaysUp,
                  Terminate, system, world
    <2> QED BY <2>1, <2>2, <2>3 DEF Shape, TypeOK
  <1> QED BY <1>1, <1>2 DEF Terminate

-----------------------------------------------------------------------------
(* The process's steps *)

LEMMA GateShape ==
    ASSUME Shape, Gate
    PROVE  Shape'
  <1>1. PICK d \in Durations : GatePasses(d) \/ GateRefuses(d)
    BY DEF Gate
  <1>2. d \in Nat
    OBVIOUS
  <1>3. CASE GatePasses(d)
    <2>1. UnitTyped' /\ ProcessTyped'
      BY <1>2, <1>3, AfterTyped
         DEF Shape, TypeOK, UnitTyped, ProcessTyped, GatePasses, Pass
    <2>2. FlagsTyped'
      BY <1>3, Zenon DEF Shape, TypeOK, FlagsTyped, GatePasses, world
    <2>3. ProcessShape' /\ JobShape' /\ AnsweredWhenKnown' /\ BeatsOnlyWhenKnown' /\ StaysUp'
      BY <1>3 DEF Shape, ProcessShape, JobShape, AnsweredWhenKnown, BeatsOnlyWhenKnown, StaysUp,
                  GatePasses, world
    <2> QED BY <2>1, <2>2, <2>3 DEF Shape, TypeOK
  <1>4. CASE GateRefuses(d)
    BY <1>2, <1>4, ExitShape DEF GateRefuses
  <1> QED BY <1>1, <1>3, <1>4

LEMMA MainShape ==
    ASSUME Shape, MainEnds
    PROVE  Shape'
  BY ExitShape DEF MainEnds, CleanAfterCrash, Shape, JobShape

LEMMA ServeShape ==
    ASSUME Shape, ServeMetrics
    PROVE  Shape'
  <1>1. UnitTyped' /\ ProcessTyped'
    BY DEF Shape, TypeOK, UnitTyped, ProcessTyped, ServeMetrics, system
  <1>2. FlagsTyped'
    BY Zenon DEF Shape, TypeOK, FlagsTyped, ServeMetrics, system, world
  <1>3. ProcessShape' /\ JobShape' /\ AnsweredWhenKnown' /\ BeatsOnlyWhenKnown' /\ StaysUp'
    BY DEF Shape, ProcessShape, JobShape, AnsweredWhenKnown, BeatsOnlyWhenKnown, StaysUp,
           ServeMetrics, system, world
  <1> QED BY <1>1, <1>2, <1>3 DEF Shape, TypeOK

\* A step of the heartbeat task: it may move hb, count an attempt and let time pass.
LEMMA HeartbeatShape ==
    ASSUME Shape, HeartbeatTask
    PROVE  Shape'
  <1>1. CASE BuildClient
    <2>1. UnitTyped' /\ ProcessTyped'
      BY <1>1 DEF Shape, TypeOK, UnitTyped, ProcessTyped, BuildClient, system
    <2>2. FlagsTyped'
      BY <1>1, Zenon DEF Shape, TypeOK, FlagsTyped, BuildClient, system, world
    <2>3. ProcessShape' /\ JobShape' /\ AnsweredWhenKnown' /\ BeatsOnlyWhenKnown' /\ StaysUp'
      BY <1>1 DEF Shape, ProcessShape, JobShape, AnsweredWhenKnown, BeatsOnlyWhenKnown, StaysUp,
                  BuildClient, system, world
    <2> QED BY <2>1, <2>2, <2>3 DEF Shape, TypeOK
  <1>2. CASE SleepEnds
    <2>1. UnitTyped'
      BY <1>2, AfterTyped DEF Shape, TypeOK, UnitTyped, ProcessTyped, SleepEnds, Pass
    <2>2. ProcessTyped'
      BY <1>2, NextDelayTyped DEF Shape, TypeOK, ProcessTyped, SleepEnds
    <2>3. FlagsTyped'
      BY <1>2, Zenon DEF Shape, TypeOK, FlagsTyped, SleepEnds, world
    <2>4. ProcessShape' /\ JobShape' /\ AnsweredWhenKnown' /\ BeatsOnlyWhenKnown' /\ StaysUp'
      BY <1>2 DEF Shape, ProcessShape, JobShape, AnsweredWhenKnown, BeatsOnlyWhenKnown, StaysUp,
                  SleepEnds, world
    <2> QED BY <2>1, <2>2, <2>3, <2>4 DEF Shape, TypeOK
  <1>3. ASSUME NEW d \in Durations, Registered(d) PROVE Shape'
    <2>1. UnitTyped' /\ ProcessTyped'
      BY <1>3, AfterTyped DEF Shape, TypeOK, UnitTyped, ProcessTyped, Registered, Pass
    <2>2. FlagsTyped'
      BY <1>3, Zenon DEF Shape, TypeOK, FlagsTyped, Registered, world
    <2>3. ProcessShape' /\ JobShape' /\ AnsweredWhenKnown' /\ BeatsOnlyWhenKnown' /\ StaysUp'
      BY <1>3 DEF Shape, ProcessShape, JobShape, AnsweredWhenKnown, BeatsOnlyWhenKnown,
                  StaysUp, Registered, world
    <2> QED BY <2>1, <2>2, <2>3 DEF Shape, TypeOK
  <1>4. ASSUME NEW d \in Durations, RegisterFails(d) PROVE Shape'
    <2>1. UnitTyped' /\ ProcessTyped'
      BY <1>4, AfterTyped DEF Shape, TypeOK, UnitTyped, ProcessTyped, ProcessShape,
                              RegisterFails, AfterFailure, Pass
    <2>2. FlagsTyped'
      BY <1>4, Zenon DEF Shape, TypeOK, FlagsTyped, RegisterFails
    <2>3. ProcessShape' /\ JobShape' /\ AnsweredWhenKnown' /\ BeatsOnlyWhenKnown' /\ StaysUp'
      BY <1>4 DEF Shape, ProcessShape, JobShape, AnsweredWhenKnown, BeatsOnlyWhenKnown, StaysUp,
                  RegisterFails, AfterFailure
    <2> QED BY <2>1, <2>2, <2>3 DEF Shape, TypeOK
  <1>5. ASSUME NEW d \in Durations, Beat(d) PROVE Shape'
    <2>1. UnitTyped' /\ ProcessTyped'
      BY <1>5, AfterTyped DEF Shape, TypeOK, UnitTyped, ProcessTyped, Beat, Pass, process
    <2>2. FlagsTyped'
      BY <1>5, Zenon DEF Shape, TypeOK, FlagsTyped, Beat, process, world
    <2>3. ProcessShape' /\ JobShape' /\ AnsweredWhenKnown' /\ BeatsOnlyWhenKnown' /\ StaysUp'
      BY <1>5 DEF Shape, ProcessShape, JobShape, AnsweredWhenKnown, BeatsOnlyWhenKnown,
                  StaysUp, Beat, process, world
    <2> QED BY <2>1, <2>2, <2>3 DEF Shape, TypeOK
  <1>6. CASE Serve
    <2>1. UnitTyped' /\ ProcessTyped'
      BY <1>6 DEF Shape, TypeOK, UnitTyped, ProcessTyped, Serve, system
    <2>2. FlagsTyped'
      BY <1>6, Zenon DEF Shape, TypeOK, FlagsTyped, Serve, system
    <2>3. ProcessShape' /\ JobShape' /\ AnsweredWhenKnown' /\ BeatsOnlyWhenKnown' /\ StaysUp'
      BY <1>6 DEF Shape, ProcessShape, JobShape, AnsweredWhenKnown, BeatsOnlyWhenKnown, StaysUp,
                  Serve, system
    <2> QED BY <2>1, <2>2, <2>3 DEF Shape, TypeOK
  <1> QED BY <1>1, <1>2, <1>3, <1>4, <1>5, <1>6 DEF HeartbeatTask

\* The environment changes, or nothing does.
LEMMA ChangeShape ==
    ASSUME Shape, Change \/ UNCHANGED vars
    PROVE  Shape'
  <1>1. UNCHANGED <<unit, job, asked, requests, starts, windowAge, agent, hb, ms, stop,
                    attempt, delay, gaveUp, known>>
    BY DEF Change, vars, system, process
  <1>2. reachable' \in BOOLEAN /\ fault' \in Faults
    BY Zenon DEF Shape, TypeOK, FlagsTyped, Change, vars
  <1>3. TypeOK'
    BY <1>1, <1>2 DEF Shape, TypeOK, UnitTyped, ProcessTyped, FlagsTyped
  <1> QED BY <1>1, <1>3 DEF Shape, ProcessShape, JobShape, AnsweredWhenKnown, BeatsOnlyWhenKnown, StaysUp

LEMMA InitShape ==
    ASSUME Init
    PROVE  Shape
  <1>1. UnitTyped
    BY DEF Init, UnitTyped, Past
  <1>2. ProcessTyped
    BY DEF Init, ProcessTyped
  <1>3. FlagsTyped
    BY Zenon DEF Init, FlagsTyped
  <1>4. ProcessShape /\ JobShape /\ AnsweredWhenKnown /\ BeatsOnlyWhenKnown /\ StaysUp
    BY DEF Init, ProcessShape, JobShape, AnsweredWhenKnown, BeatsOnlyWhenKnown, StaysUp
  <1> QED BY <1>1, <1>2, <1>3, <1>4 DEF Shape, TypeOK

LEMMA NextShape == Shape /\ [Next]_vars => Shape'
  BY StartShape, RequestShape, TerminateShape, GateShape, MainShape, HeartbeatShape,
     ServeShape, ChangeShape DEF Next

-----------------------------------------------------------------------------
(* Theorems for every period and limit *)

THEOREM ShapeInvariant == Spec => []Shape
  BY InitShape, NextShape, PTL DEF Spec

\* Type correctness of the unit, the process and its tasks.
THEOREM AgentTypeCorrect == Spec => []TypeOK
  <1>1. Shape => TypeOK
    BY DEF Shape
  <1> QED BY <1>1, ShapeInvariant, PTL

\* heartbeat.py: no heartbeat before the controller has the node's row, whatever
\* answers are lost and however often the process is restarted.
THEOREM KnownBeforeBeating == Spec => []BeatsOnlyWhenKnown
  <1>1. Shape => BeatsOnlyWhenKnown
    BY DEF Shape
  <1> QED BY <1>1, ShapeInvariant, PTL

\* main.py, Restart=on-failure: outside the start limit only a stop request takes
\* the unit down.
THEOREM DownOnlyOnRequest == Spec => []StaysUp
  <1>1. Shape => StaysUp
    BY DEF Shape
  <1> QED BY <1>1, ShapeInvariant, PTL

-----------------------------------------------------------------------------
(***************************************************************************)
(* The deployed backoff: ten attempts, 2 s growing by 1.8 to 60 s.  Before *)
(* each attempt the run has slept at least as long as the schedule says,   *)
(* so ten failures take 322.53 s, and any window shorter than that is over *)
(* when the run ends.                                                      *)
(***************************************************************************)
Deployed ==
    /\ Attempts = 10 /\ FirstDelay = 2000 /\ MaxDelay = 60000
    /\ StartLimitInterval < 322530

Slept(t) == windowAge >= t \/ windowAge > StartLimitInterval

\* After a failed attempts the next backoff is d.
Rung(a, d) ==
    \/ a = 0 /\ d = 2000  /\ Slept(0)
    \/ a = 1 /\ d = 3600  /\ Slept(2000)
    \/ a = 2 /\ d = 6480  /\ Slept(5600)
    \/ a = 3 /\ d = 11664 /\ Slept(12080)
    \/ a = 4 /\ d = 20995 /\ Slept(23744)
    \/ a = 5 /\ d = 37791 /\ Slept(44739)
    \/ a = 6 /\ d = 60000 /\ Slept(82530)
    \/ a = 7 /\ d = 60000 /\ Slept(142530)
    \/ a = 8 /\ d = 60000 /\ Slept(202530)
    \/ a = 9 /\ d = 60000 /\ Slept(262530)

OnSchedule ==
    /\ hb \in {"registering", "answered"} => Rung(attempt, delay)
    /\ hb = "sleeping" => Rung(attempt - 1, delay)
    /\ gaveUp => windowAge > StartLimitInterval
    /\ OutageIsSurvived

\* One sleep leads to the next rung, the tenth out of the window.
LEMMA NextRung ==
    ASSUME Deployed, NEW a \in Nat, Rung(a, delay), windowAge \in 0..Past, Pass(delay),
           delay' = NextDelay(delay)
    PROVE  /\ a < 9 => Rung(a + 1, delay)'
           /\ a = 9 => windowAge' > StartLimitInterval
  <1> USE DEF Deployed, Slept, Pass, After, Past
  <1>1. ASSUME NEW d \in Nat, NEW t \in Nat, delay = d, Slept(t)
        PROVE  Slept(t + d)'
    BY <1>1
  <1>2. a \in 0..9
    BY DEF Rung
  <1>3. CASE a < 6
    BY <1>1, <1>3 DEF Rung, NextDelay
  <1>4. CASE a >= 6 /\ a < 9
    BY <1>1, <1>4 DEF Rung, NextDelay
  <1>5. CASE a = 9
    BY <1>1, <1>5 DEF Rung
  <1> QED BY <1>2, <1>3, <1>4, <1>5

\* A start keeps the account: a new window forgets the runs of the last one.
LEMMA LaunchSchedule ==
    ASSUME Shape, OnSchedule, NEW age \in 0..Past, age >= windowAge, Launch(age), NoTasks
    PROVE  OnSchedule'
  <1>1. windowAge \in 0..Past
    BY DEF Shape, TypeOK, UnitTyped
  <1>2. gaveUp' => windowAge' > StartLimitInterval
    <2>1. CASE age > StartLimitInterval
      BY <2>1 DEF Launch
    <2>2. CASE age <= StartLimitInterval
      <3>1. ~gaveUp
        BY <1>1, <2>2 DEF OnSchedule, Past
      <3> QED BY <2>2, <3>1 DEF Launch
    <2> QED BY <2>1, <2>2 DEF Past
  <1>3. OutageIsSurvived'
    BY <1>1 DEF OnSchedule, OutageIsSurvived, Launch, Past
  <1> QED BY <1>2, <1>3 DEF OnSchedule, NoTasks

LEMMA ExitSchedule ==
    ASSUME Shape, OnSchedule, NEW clean, NEW wait \in Nat, Exit(clean, wait)
    PROVE  OnSchedule'
  <1>1. windowAge \in 0..Past
    BY DEF Shape, TypeOK, UnitTyped
  <1>2. After(windowAge, wait) \in 0..Past /\ After(windowAge, wait) >= windowAge
    BY <1>1, AfterTyped
  <1>3. CASE job = "restart"
    BY <1>2, <1>3, LaunchSchedule DEF Exit
  <1>4. CASE job # "restart"
    BY <1>1, <1>2, <1>4 DEF Exit, NoTasks, Pass, OnSchedule, OutageIsSurvived, Past
  <1> QED BY <1>3, <1>4

\* Steps of the task that sleep no more than the call takes.
LEMMA CallSchedule ==
    ASSUME Shape, OnSchedule, NEW wait \in Nat, Pass(wait), UNCHANGED <<gaveUp, unit>>,
           \/ hb' \notin {"registering", "answered", "sleeping"}
           \/ hb' = hb /\ attempt' = attempt /\ delay' = delay
           \/ /\ hb \in {"registering", "answered"} /\ hb' = "sleeping"
              /\ attempt' = attempt + 1 /\ delay' = delay
    PROVE  OnSchedule'
  <1>1. windowAge \in 0..Past /\ windowAge' \in 0..Past /\ windowAge' >= windowAge
    BY AfterTyped DEF Shape, TypeOK, UnitTyped, Pass
  <1>2. windowAge \in Nat /\ windowAge' \in Nat /\ attempt \in Nat
    BY <1>1 DEF Past, Shape, TypeOK, ProcessTyped
  <1>3. (gaveUp => windowAge > StartLimitInterval)' /\ OutageIsSurvived'
    BY <1>1, <1>2 DEF OnSchedule, OutageIsSurvived
  <1>4. hb' \in {"registering", "answered"} => Rung(attempt, delay)'
    BY <1>1, <1>2 DEF OnSchedule, Rung, Slept
  <1>5. hb' = "sleeping" => Rung(attempt - 1, delay)'
    BY <1>1, <1>2 DEF OnSchedule, Rung, Slept
  <1> QED BY <1>3, <1>4, <1>5 DEF OnSchedule

LEMMA SleepSchedule ==
    ASSUME Deployed, Shape, OnSchedule, SleepEnds
    PROVE  OnSchedule'
  <1>1. windowAge \in 0..Past /\ attempt \in Nat /\ delay \in Nat
    BY DEF Shape, TypeOK, UnitTyped, ProcessTyped
  <1>2. Rung(attempt - 1, delay) /\ attempt - 1 \in 0..9
    BY DEF SleepEnds, OnSchedule, Rung
  <1>3. /\ attempt - 1 < 9 => Rung(attempt - 1 + 1, delay)'
        /\ attempt - 1 = 9 => windowAge' > StartLimitInterval
    <2>1. ASSUME NEW a \in Nat, a = attempt - 1
          PROVE  /\ a < 9 => Rung(a + 1, delay)'
                 /\ a = 9 => windowAge' > StartLimitInterval
      BY <1>1, <1>2, <2>1, NextRung DEF SleepEnds
    <2> QED BY <1>2, <2>1 DEF Rung, Slept, SleepEnds
  <1>4. windowAge' >= windowAge /\ windowAge' \in 0..Past
    BY <1>1, AfterTyped DEF SleepEnds, Pass
  <1>5. unit = "active"
    BY DEF SleepEnds, Shape, ProcessShape, TypeOK, ProcessTyped
  <1>6. OutageIsSurvived'
    BY <1>5 DEF SleepEnds, OutageIsSurvived
  <1>7. CASE attempt < Attempts
    <2>1. Rung(attempt, delay)'
      BY <1>1, <1>3, <1>7 DEF Deployed, Rung, Slept, SleepEnds
    <2>2. gaveUp' => windowAge' > StartLimitInterval
      <3>1. attempt # Attempts
        BY <1>1, <1>7
      <3>2. gaveUp' = gaveUp
        BY <3>1, Zenon DEF SleepEnds
      <3>3. gaveUp => windowAge' > StartLimitInterval
        BY <1>1, <1>4 DEF OnSchedule, Past
      <3> QED BY <3>2, <3>3
    <2> QED BY <1>6, <1>7, <2>1, <2>2 DEF SleepEnds, OnSchedule
  <1>8. CASE attempt = Attempts
    BY <1>3, <1>6, <1>8 DEF Deployed, SleepEnds, OnSchedule
  <1> QED BY <1>7, <1>8 DEF SleepEnds

LEMMA HeartbeatSchedule ==
    ASSUME Deployed, Shape, OnSchedule, HeartbeatTask
    PROVE  OnSchedule'
  <1>1. CASE BuildClient
    <2>1. (hb' = "registering" => Rung(0, 2000)') /\ hb' \notin {"answered", "sleeping"}
          /\ attempt' = 0 /\ delay' = 2000
      BY <1>1 DEF BuildClient, Deployed, Shape, ProcessShape, TypeOK, UnitTyped, Rung,
                  Slept, system, Past
    <2>2. UNCHANGED <<gaveUp, windowAge, unit>>
      BY <1>1 DEF BuildClient, system
    <2> QED BY <2>1, <2>2 DEF OnSchedule, OutageIsSurvived, Rung, Slept
  <1>2. CASE SleepEnds
    BY <1>2, SleepSchedule
  <1>3. ASSUME NEW d \in Durations, Registered(d) \/ RegisterFails(d) \/ Beat(d)
        PROVE  OnSchedule'
    BY <1>3, CallSchedule DEF Registered, RegisterFails, AfterFailure, Beat, process
  <1>4. CASE Serve
    BY <1>4 DEF Serve, OnSchedule, OutageIsSurvived, Rung, Slept, system
  <1> QED BY <1>1, <1>2, <1>3, <1>4 DEF HeartbeatTask

LEMMA NextSchedule ==
    ASSUME Deployed, Shape, OnSchedule, [Next]_vars
    PROVE  OnSchedule'
  <1>1. windowAge \in 0..Past
    BY DEF Shape, TypeOK, UnitTyped
  <1>2. CASE AutoRestart
    BY <1>1, <1>2, AfterTyped, LaunchSchedule DEF AutoRestart
  <1>3. CASE Stop \/ Restart
    <2>1. UNCHANGED <<hb, attempt, delay, windowAge, gaveUp>> /\ unit' # "start-limit-hit"
      BY <1>3 DEF Stop, Restart, process
    <2> QED BY <2>1 DEF OnSchedule, OutageIsSurvived, Rung, Slept
  <1>4. ASSUME NEW d \in {0, Past}, StartAgain(d) PROVE OnSchedule'
    BY <1>1, <1>4, AfterTyped, LaunchSchedule DEF StartAgain, Past
  <1>5. CASE Terminate
    <2>1. CASE agent = "gate" /\ Exit(TRUE, 0)
      BY <2>1, ExitSchedule
    <2>2. CASE UNCHANGED <<system, agent, hb, ms, attempt, delay>>
      BY <2>2 DEF system, OnSchedule, OutageIsSurvived, Rung, Slept
    <2> QED BY <1>5, <2>1, <2>2 DEF Terminate
  <1>6. ASSUME NEW d \in Durations, GatePasses(d) \/ GateRefuses(d) PROVE OnSchedule'
    <2>1. CASE GatePasses(d)
      BY <2>1, CallSchedule DEF GatePasses
    <2>2. CASE GateRefuses(d)
      BY <2>2, ExitSchedule DEF GateRefuses
    <2> QED BY <1>6, <2>1, <2>2
  <1>7. CASE MainEnds
    BY <1>7, ExitSchedule DEF MainEnds
  <1>8. CASE HeartbeatTask
    BY <1>8, HeartbeatSchedule
  <1>9. CASE ServeMetrics \/ Change \/ UNCHANGED vars
    <2>1. UNCHANGED <<unit, hb, attempt, delay, windowAge, gaveUp>>
      BY <1>9 DEF ServeMetrics, Change, vars, system, process
    <2> QED BY <2>1 DEF OnSchedule, OutageIsSurvived, Rung, Slept
  <1> QED BY <1>2, <1>3, <1>4, <1>5, <1>6, <1>7, <1>8, <1>9 DEF Next, Gate

\* heartbeat.py:20-29 against StartLimitIntervalSec and StartLimitBurst: with the
\* deployed backoff and any shorter window, whatever the limit, RestartSec and
\* the duration of the calls, no run that gave up registering is among those that
\* put the unit out.
THEOREM OutageNeverExhaustsTheLimit ==
    ASSUME Deployed
    PROVE  Spec => []OutageIsSurvived
  <1>1. Init => OnSchedule
    BY DEF Init, OnSchedule, OutageIsSurvived
  <1>2. Shape /\ OnSchedule /\ [Next]_vars => OnSchedule'
    BY NextSchedule
  <1>3. OnSchedule => OutageIsSurvived
    BY DEF OnSchedule
  <1> QED BY <1>1, <1>2, <1>3, ShapeInvariant, PTL DEF Spec
=============================================================================
