------------------------ MODULE ControllerAuditProofs ------------------------
(* What the audit trail, the log, the counter and the answers of Controller say *)
(* of one another, for every set of requests, inputs, nodes and names.          *)
EXTENDS ControllerRefinement, FiniteSetTheorems

\* The line of the row that r's commit will add.
NextLine(r) == [id |-> Len(audit_events) + 1, row |-> AuditEvent(r)]

AtCommit == writer # NoRequest /\ pc[writer] = "commit"

(***************************************************************************)
(* The log is ahead of the table by the row the open transaction is about  *)
(* to commit, and by rows whose commit never came.                         *)
(***************************************************************************)
Matched(line)   == line.id \in DOMAIN audit_events /\ audit_events[line.id] = line.row
Forsaken(line)  == \/ pc[line.row.by] = "lost"
                   \/ pc[line.row.by] = "done" /\ status[line.row.by] = 500
Imminent(line)  == AtCommit /\ line.row.by = writer /\ line = NextLine(writer)

LogInv == \A line \in log :
    line.row.by \in Requests /\ (Matched(line) \/ Forsaken(line) \/ Imminent(line))

\* Every row is logged, the imminent one too.
RowsLogged ==
    /\ \A i \in DOMAIN audit_events : [id |-> i, row |-> audit_events[i]] \in log
    /\ AtCommit => NextLine(writer) \in log

\* The rows of an action committed since the boot; the counter has them and the
\* imminent one.
Since(a) == {i \in DOMAIN audit_events : i > booted /\ ActionOf(audit_events[i].event) = a}

RowsCounted ==
    \A a \in Actions :
        /\ IsFiniteSet(Since(a))
        /\ counter[a] >= Cardinality(Since(a))
        /\ AtCommit /\ ActionOf(event[writer]) = a => counter[a] >= Cardinality(Since(a)) + 1

-----------------------------------------------------------------------------
(* Each request leaves at most one row. *)

OneRow == \A i, j \in DOMAIN audit_events : audit_events[i].by = audit_events[j].by => i = j

\* StateChangesAreAudited, and that a registration names a node.
StateInv ==
    /\ \A i \in DOMAIN audit_events :
           audit_events[i].event = "registered" => audit_events[i].target \in NodeIds
    /\ StateChangesAreAudited

-----------------------------------------------------------------------------
(* The way of a request: what its position, and then its answer, say of the   *)
(* tables.                                                                     *)

RowOf(r, events) ==
    \E i \in DOMAIN audit_events : audit_events[i].by = r /\ audit_events[i].event \in events

Exists(r) == nodes[req[r].node] # NoNode
Beaten(r) == /\ Exists(r)
             /\ nodes[req[r].node].last_heartbeat
             /\ nodes[req[r].node].state # "onboarding"

Told(r) ==
    \/ status[r] = 201 /\ RowOf(r, {"registered"}) /\ Exists(r)
    \/ status[r] = 403 /\ Identified(req[r]) /\ RowOf(r, Denials)
    \/ /\ status[r] = 200 /\ req[r].op = "heartbeat" /\ Beaten(r)
       /\ Unaccounted(r) \/ RowOf(r, {"activated"})
    \/ status[r] = 500
    \/ /\ status[r] \notin {201, 500} /\ Unaccounted(r)
       /\ status[r] = 403 => ~Identified(req[r])
       /\ status[r] = 200 => req[r].op # "heartbeat"

Path(r) ==
    /\ pc[r] \in Working \cup {"done"} => req[r] \in Inputs
    /\ pc[r] \in Working => Identified(req[r])
    /\ pc[r] = "insert" => req[r].op = "register"
    /\ pc[r] \in {"record", "commit", "refresh"} =>
          /\ event[r] = "registered" => req[r].op = "register"
          /\ event[r] \in {"activated", "none"} => req[r].op = "heartbeat"
    /\ pc[r] = "commit" /\ event[r] = "none" =>
          Exists(r) /\ nodes[req[r].node].state # "onboarding"
    /\ pc[r] = "refresh" =>
          \/ event[r] = "registered" /\ RowOf(r, {"registered"}) /\ Exists(r)
          \/ event[r] = "activated" /\ RowOf(r, {"activated"}) /\ Beaten(r)
          \/ event[r] = "none" /\ Unaccounted(r) /\ Beaten(r)
    /\ pc[r] = "done" => Told(r)

Paths == \A r \in Requests : Path(r)

-----------------------------------------------------------------------------
(* The kinds of steps *)

\* One request that does not write moves; the others, the tables, the lock and
\* the trail stay.
QuietMove(r) ==
    /\ pc[r] \in {"idle", "select", "insert", "refresh"} /\ r # writer
    /\ UNCHANGED <<store, lock, trail>>
    /\ OthersStay(r)
    /\ \A x \in Requests \ {r} : status'[x] = status[x]
    /\ pc[r] # "idle" => UNCHANGED req

Still == UNCHANGED <<store, lock, control, trail>>

LEMMA ReceiveQuiet ==
    ASSUME IInv, NEW r \in Requests, Receive(r)
    PROVE  QuietMove(r)
  <1>1. PICK q \in Inputs :
            \/ RefuseUnidentified(r, q) \/ DenyRevoked(r, q) \/ DenyUnauthorized(r, q)
            \/ Admit(r, q) \/ Whoami(r, q)
    BY DEF Receive
  <1>2. HandlersTyped /\ pc[r] = "idle" /\ req' = [req EXCEPT ![r] = q]
        /\ UNCHANGED <<store, lock, trail>>
    BY <1>1 DEF IInv, TypeOK, RefuseUnidentified, DenyRevoked, DenyUnauthorized, Admit, Whoami, Arrive
  <1>3. r # writer
    BY <1>2, WriterPosition
  <1>4. /\ \E p : pc' = [pc EXCEPT ![r] = p]
        /\ UNCHANGED event \/ \E e : event' = [event EXCEPT ![r] = e]
        /\ UNCHANGED status \/ \E k : status' = [status EXCEPT ![r] = k]
    BY <1>1 DEF RefuseUnidentified, DenyRevoked, DenyUnauthorized, Admit, Whoami, Answer
  <1>5. OthersStay(r) /\ \A x \in Requests \ {r} : status'[x] = status[x]
    BY <1>2, <1>4 DEF HandlersTyped, OthersStay
  <1> QED BY <1>2, <1>3, <1>5 DEF QuietMove

LEMMA ReadQuiet ==
    ASSUME IInv, NEW r \in Requests,
           \/ Read(r) \/ LookUpForRegister(r) \/ LookUpForHeartbeat(r)
           \/ DuplicateInsert(r) \/ Refresh(r)
    PROVE  QuietMove(r)
  <1>1. HandlersTyped /\ pc[r] \in {"select", "insert", "refresh"} /\ req' = req
        /\ UNCHANGED <<store, lock, trail>>
    BY DEF IInv, TypeOK, Read, ListNodes, ListAuditEvents, GetNode,
           LookUpForRegister, LookUpForHeartbeat, DuplicateInsert, Refresh
  <1>2. r # writer
    BY <1>1, WriterPosition
  <1>3. /\ \E p : pc' = [pc EXCEPT ![r] = p]
        /\ UNCHANGED event \/ \E e : event' = [event EXCEPT ![r] = e]
        /\ UNCHANGED status \/ \E k : status' = [status EXCEPT ![r] = k]
    BY DEF Read, ListNodes, ListAuditEvents, GetNode,
           LookUpForRegister, LookUpForHeartbeat, DuplicateInsert, Refresh, Answer, Goto
  <1>4. OthersStay(r) /\ \A x \in Requests \ {r} : status'[x] = status[x]
    BY <1>1, <1>3 DEF HandlersTyped, OthersStay
  <1> QED BY <1>1, <1>2, <1>4 DEF QuietMove

LEMMA StepKinds ==
    ASSUME IInv, [Next]_vars
    PROVE  \/ Still
           \/ Crash
           \/ \E r \in Requests :
                 \/ QuietMove(r) \/ InsertNode(r) \/ RecordEvent(r)
                 \/ CommitEvent(r) \/ CommitFreshness(r)
                 \/ Busy(r) \/ DbError(r)
  <1>1. CASE CrlUpdated \/ UNCHANGED vars
    BY <1>1 DEF CrlUpdated, vars, Still, store, lock, control, trail
  <1>2. CASE \E r \in Requests : Receive(r) \/ Handle(r) \/ DbError(r)
    BY <1>2, ReceiveQuiet, ReadQuiet DEF Handle
  <1> QED BY <1>1, <1>2 DEF Next

\* What a failed statement leaves behind.
LEMMA FailureFacts ==
    ASSUME IInv, NEW r \in Requests, Busy(r) \/ DbError(r)
    PROVE  /\ UNCHANGED <<store, trail>> /\ OthersStay(r)
           /\ pc'[r] = "done" /\ status'[r] = 500 /\ req' = req
           /\ \A x \in Requests \ {r} : status'[x] = status[x]
           /\ writer = r => writer' = NoRequest
           /\ writer # r => writer' = writer
           /\ pc[r] \in Working
  <1>1. HandlersTyped /\ UNCHANGED <<store, trail>> /\ req' = req /\ event' = event
        /\ pc' = [pc EXCEPT ![r] = "done"] /\ status' = [status EXCEPT ![r] = 500]
        /\ Rollback(r) /\ pc[r] \in Working
    BY DEF IInv, TypeOK, Busy, DbError, Answer, Working
  <1> QED BY <1>1 DEF HandlersTyped, OthersStay, Rollback, lock

\* The moves of the steps that write.
LEMMA WriteFacts ==
    ASSUME IInv, NEW r \in Requests,
           InsertNode(r) \/ RecordEvent(r) \/ CommitEvent(r) \/ CommitFreshness(r)
    PROVE  /\ req' = req /\ OthersStay(r) /\ \A x \in Requests \ {r} : status'[x] = status[x]
           /\ UNCHANGED booted /\ r # NoRequest
           /\ InsertNode(r) => /\ pc[r] = "insert" /\ pc'[r] = "record" /\ event'[r] = "registered"
                               /\ writer = NoRequest /\ writer' = r /\ UNCHANGED <<store, trail>>
           /\ RecordEvent(r) => /\ pc[r] = "record" /\ pc'[r] = "commit" /\ event'[r] = event[r]
                                /\ writer \in {NoRequest, r} /\ writer' = r /\ UNCHANGED store
           /\ CommitEvent(r) => /\ pc[r] = "commit" /\ writer = r /\ writer' = NoRequest
                                /\ UNCHANGED trail
                                /\ event'[r] = event[r]
                                /\ IF event[r] \in Denials THEN pc'[r] = "done" /\ status'[r] = 403
                                   ELSE pc'[r] = "refresh"
           /\ CommitFreshness(r) => /\ pc[r] = "commit" /\ event[r] = "none" /\ event'[r] = "none"
                                    /\ writer = NoRequest /\ writer' = NoRequest
                                    /\ pc'[r] = "refresh"
                                    /\ UNCHANGED <<audit_events, trail>>
  <1>0. HandlersTyped /\ r # NoRequest
    BY NullsAssumption DEF IInv, TypeOK
  <1> USE DEF HandlersTyped, OthersStay
  <1>1. CASE InsertNode(r)
    BY <1>0, <1>1 DEF InsertNode, RecordEvent, CommitEvent, CommitFreshness, Goto, trail
  <1>2. CASE RecordEvent(r)
    BY <1>0, <1>2 DEF InsertNode, RecordEvent, CommitEvent, CommitFreshness, Goto, MayWrite
  <1>3. CASE CommitEvent(r)
    <2>1. /\ pc[r] = "commit" /\ event[r] # "none" /\ writer = r /\ writer' = NoRequest
          /\ req' = req /\ UNCHANGED trail
      BY <1>3 DEF CommitEvent
    <2>2. CASE event[r] \in Denials /\ Answer(r, 403) /\ UNCHANGED event
      BY <1>0, <2>1, <2>2 DEF Answer, InsertNode, RecordEvent, CommitFreshness, trail
    <2>3. CASE event[r] \notin Denials /\ Goto(r, "refresh", event[r]) /\ UNCHANGED status
      BY <1>0, <2>1, <2>3 DEF Goto, InsertNode, RecordEvent, CommitFreshness, trail
    <2> QED BY <1>3, <2>2, <2>3 DEF CommitEvent
  <1>4. CASE CommitFreshness(r)
    BY <1>0, <1>4 DEF InsertNode, RecordEvent, CommitEvent, CommitFreshness, Goto, trail
  <1> QED BY <1>1, <1>2, <1>3, <1>4

\* What a commit adds to the table: one row, at its end, of a request that had none.
LEMMA CommitAppends ==
    ASSUME RInv, NEW r \in Requests, CommitEvent(r)
    PROVE  /\ Len(audit_events) \in Nat /\ DOMAIN audit_events = 1..Len(audit_events)
           /\ Len(audit_events') = Len(audit_events) + 1
           /\ DOMAIN audit_events' = DOMAIN audit_events \cup {Len(audit_events) + 1}
           /\ \A i \in DOMAIN audit_events : audit_events'[i] = audit_events[i]
           /\ audit_events'[Len(audit_events) + 1] = AuditEvent(r)
           /\ AuditEvent(r).by = r /\ AuditEvent(r).event = event[r]
           /\ Unaccounted(r)
  <1>1. audit_events \in Seq(AuditRow)
    BY DEF RInv, IInv, TypeOK, TablesTyped
  <1>2. audit_events' = Append(audit_events, AuditEvent(r)) /\ Unaccounted(r)
        /\ AuditEvent(r) \in AuditRow
    BY CommitEffect
  <1>3. AuditEvent(r).by = r /\ AuditEvent(r).event = event[r]
    BY DEF AuditEvent
  <1> HIDE DEF AuditEvent
  <1> QED BY <1>1, <1>2, <1>3

\* Every other step leaves the rows alone.
LEMMA OnlyCommitsAppend ==
    ASSUME IInv, [Next]_vars, \A r \in Requests : ~CommitEvent(r)
    PROVE  UNCHANGED audit_events
  BY StepKinds, WriteFacts, FailureFacts DEF Still, Crash, QuietMove, store

-----------------------------------------------------------------------------
(* One row per request *)

LEMMA OneRowStep ==
    ASSUME RInv, OneRow, [Next]_vars
    PROVE  OneRow'
  <1>1. CASE \E r \in Requests : CommitEvent(r)
    BY <1>1, CommitAppends DEF OneRow, Unaccounted
  <1>2. CASE \A r \in Requests : ~CommitEvent(r)
    BY <1>2, OnlyCommitsAppend DEF OneRow, RInv
  <1> QED BY <1>1, <1>2

-----------------------------------------------------------------------------
(* The log and the table *)

\* The id the flush gives is the next of the committed table.
LEMMA RecordedLine ==
    ASSUME RInv, NEW r \in Requests, RecordEvent(r)
    PROVE  /\ LogLine(r) = NextLine(r) /\ NextLine(r)' = NextLine(r)
           /\ log' = log \cup {NextLine(r)}
           /\ counter' = [counter EXCEPT ![ActionOf(event[r])] = @ + 1]
  <1>1. pc[r] = "record" /\ writer \in {NoRequest, r} /\ r # NoRequest
    BY WriteFacts DEF RInv
  <1>2. txn.audit = audit_events
    BY <1>1 DEF RInv, IInv, Transaction, Committed, Pending
  <1>3. req' = req /\ event'[r] = event[r] /\ audit_events' = audit_events
    BY WriteFacts DEF RInv, store
  <1> QED BY <1>2, <1>3 DEF RecordEvent, LogLine, NextLine, AuditEvent, AuditTarget

\* A line of a request that does not move stays what it is.
LEMMA LineKept ==
    ASSUME NEW line, NEW b, line.row.by = b,
           pc'[b] = pc[b], status'[b] = status[b], event'[b] = event[b], req'[b] = req[b],
           UNCHANGED audit_events, writer = b => writer' = b,
           Matched(line) \/ Forsaken(line) \/ Imminent(line)
    PROVE  (Matched(line) \/ Forsaken(line) \/ Imminent(line))'
  BY DEF Matched, Forsaken, Imminent, AtCommit, NextLine, AuditEvent, AuditTarget

LEMMA LogStep ==
    ASSUME RInv, LogInv, [Next]_vars
    PROVE  LogInv'
  <1> DEFINE Fine(line) == Matched(line) \/ Forsaken(line) \/ Imminent(line)
  <1>0. IInv /\ HandlersTyped /\ writer \in Requests \cup {NoRequest}
    BY DEF RInv, IInv, TypeOK, TablesTyped
  <1>1. CASE Still
    <2>1. UNCHANGED <<audit_events, writer, req, pc, event, status, log>>
      BY <1>1 DEF Still, store, lock, control, trail
    <2> QED BY <2>1, LineKept DEF LogInv
  <1>2. CASE Crash
    <2>1. UNCHANGED <<audit_events, status, log>>
      BY <1>2 DEF Crash, store
    <2> SUFFICES ASSUME NEW line \in log PROVE line.row.by \in Requests /\ Fine(line)'
      BY <2>1 DEF LogInv
    <2>2. line.row.by \in Requests /\ Fine(line)
      BY DEF LogInv
    <2>3. Matched(line) => Matched(line)'
      BY <2>1 DEF Matched
    <2>4. Forsaken(line) \/ Imminent(line) => Forsaken(line)'
      BY <1>2, <2>1, <2>2 DEF Forsaken, Imminent, AtCommit, Crash
    <2> QED BY <2>2, <2>3, <2>4
  <1>3. ASSUME NEW r \in Requests,
               \/ QuietMove(r) \/ InsertNode(r) \/ RecordEvent(r) \/ CommitFreshness(r)
        PROVE  LogInv'
    <2>1. /\ UNCHANGED audit_events
          /\ pc[r] \in {"idle", "select", "insert", "record", "commit", "refresh"}
          /\ pc[r] = "commit" => writer # r
          /\ writer' = writer \/ writer \in {NoRequest, r}
          /\ \A x \in Requests \ {r} : /\ pc'[x] = pc[x] /\ status'[x] = status[x]
                                       /\ event'[x] = event[x] /\ req'[x] = req[x]
      BY <1>0, <1>3, WriteFacts DEF QuietMove, OthersStay, store, lock
    <2>2. ASSUME NEW line \in log PROVE line.row.by \in Requests /\ Fine(line)'
      <3>1. line.row.by \in Requests /\ Fine(line)
        BY <2>2 DEF LogInv
      <3>2. CASE line.row.by = r
        <4>1. Matched(line)
          BY <2>1, <3>1, <3>2 DEF Forsaken, Imminent, AtCommit
        <4> QED BY <2>1, <3>1, <4>1 DEF Matched
      <3>3. CASE line.row.by # r
        <4>1. writer = line.row.by => writer' = line.row.by
          BY <2>1, <3>1, <3>3, NullsAssumption
        <4> QED BY <2>1, <3>1, <3>3, <4>1, LineKept
      <3> QED BY <3>2, <3>3
    <2>3. CASE log' = log
      BY <2>2, <2>3 DEF LogInv
    <2>4. CASE RecordEvent(r)
      <3>1. log' = log \cup {NextLine(r)} /\ NextLine(r)' = NextLine(r)
        BY <2>4, RecordedLine
      <3>2. NextLine(r).row.by = r
        BY DEF NextLine, AuditEvent
      <3>3. AtCommit' /\ writer' = r
        BY <1>0, <2>4, WriteFacts DEF AtCommit
      <3>4. Imminent(NextLine(r))'
        BY <3>1, <3>2, <3>3 DEF Imminent
      <3> QED BY <2>2, <3>1, <3>2, <3>4 DEF LogInv
    <2> QED BY <1>0, <1>3, <2>3, <2>4, WriteFacts DEF QuietMove, trail
  <1>4. ASSUME NEW r \in Requests, CommitEvent(r) PROVE LogInv'
    <2>1. /\ log' = log /\ pc[r] = "commit" /\ writer = r /\ r # NoRequest
          /\ \A x \in Requests \ {r} : pc'[x] = pc[x] /\ status'[x] = status[x]
      BY <1>0, <1>4, WriteFacts DEF OthersStay, trail
    <2> SUFFICES ASSUME NEW line \in log PROVE line.row.by \in Requests /\ Fine(line)'
      BY <2>1 DEF LogInv
    <2>2. line.row.by \in Requests /\ Fine(line)
      BY DEF LogInv
    <2>3. Matched(line) => Matched(line)'
      BY <1>4, CommitAppends DEF Matched
    <2>4. Imminent(line) => Matched(line)'
      <3>1. SUFFICES ASSUME Imminent(line) PROVE Matched(line)'
        OBVIOUS
      <3>2. line.id = Len(audit_events) + 1 /\ line.row = AuditEvent(r)
        BY <2>1, <3>1 DEF Imminent, NextLine
      <3> QED BY <1>4, <3>2, CommitAppends DEF Matched
    <2>5. Forsaken(line) => Forsaken(line)'
      BY <2>1, <2>2 DEF Forsaken
    <2> QED BY <2>2, <2>3, <2>4, <2>5
  <1>5. ASSUME NEW r \in Requests, Busy(r) \/ DbError(r) PROVE LogInv'
    <2>1. /\ UNCHANGED <<audit_events, log>> /\ OthersStay(r)
          /\ pc'[r] = "done" /\ status'[r] = 500
          /\ \A x \in Requests \ {r} : status'[x] = status[x]
          /\ writer # r => writer' = writer
      BY <1>0, <1>5, FailureFacts DEF store, trail
    <2> SUFFICES ASSUME NEW line \in log PROVE line.row.by \in Requests /\ Fine(line)'
      BY <2>1 DEF LogInv
    <2>2. line.row.by \in Requests /\ Fine(line)
      BY DEF LogInv
    <2>3. CASE line.row.by = r
      BY <2>1, <2>2, <2>3 DEF Forsaken
    <2>4. CASE line.row.by # r
      <3>1. pc'[line.row.by] = pc[line.row.by] /\ event'[line.row.by] = event[line.row.by]
            /\ req'[line.row.by] = req[line.row.by] /\ status'[line.row.by] = status[line.row.by]
        BY <2>1, <2>2, <2>4 DEF OthersStay
      <3>2. writer = line.row.by => writer' = line.row.by
        BY <2>1, <2>4
      <3> QED BY <2>1, <2>2, <3>1, <3>2, LineKept
    <2> QED BY <2>3, <2>4
  <1> QED BY <1>0, <1>1, <1>2, <1>3, <1>4, <1>5, StepKinds

\* Lines, rows and the row about to be committed change in two steps only.
LEMMA TrailKept ==
    ASSUME IInv, [Next]_vars, \A r \in Requests : ~CommitEvent(r) /\ ~RecordEvent(r)
    PROVE  /\ UNCHANGED <<audit_events, log>>
           /\ AtCommit' => /\ AtCommit /\ writer' = writer /\ event'[writer] = event[writer]
                           /\ NextLine(writer)' = NextLine(writer)
           /\ Crash \/ UNCHANGED <<counter, booted>>
  <1>0. HandlersTyped /\ writer \in Requests \cup {NoRequest}
    BY DEF IInv, TypeOK, TablesTyped
  <1>1. UNCHANGED audit_events
    BY OnlyCommitsAppend
  <1>2. ASSUME writer' = writer, writer # NoRequest, pc'[writer] = pc[writer],
               event'[writer] = event[writer], req'[writer] = req[writer]
        PROVE  AtCommit' => AtCommit /\ NextLine(writer)' = NextLine(writer)
    BY <1>1, <1>2 DEF AtCommit, NextLine, AuditEvent, AuditTarget
  <1>3. CASE Still
    <2>1. UNCHANGED <<writer, pc, event, req, log, counter, booted>>
      BY <1>3 DEF Still, lock, control, trail
    <2> QED BY <1>1, <1>2, <2>1 DEF AtCommit
  <1>4. CASE Crash
    BY <1>1, <1>4 DEF AtCommit, Crash
  <1>5. ASSUME NEW r \in Requests, QuietMove(r)
        PROVE  /\ UNCHANGED <<log, counter, booted>>
               /\ AtCommit' => /\ AtCommit /\ writer' = writer /\ event'[writer] = event[writer]
                               /\ NextLine(writer)' = NextLine(writer)
    <2>1. r # writer /\ writer' = writer /\ UNCHANGED <<log, counter, booted>> /\ OthersStay(r)
      BY <1>5 DEF QuietMove, lock, trail
    <2>2. CASE writer = NoRequest
      BY <2>1, <2>2 DEF AtCommit
    <2>3. CASE writer \in Requests /\ writer # NoRequest
      BY <1>2, <2>1, <2>3 DEF OthersStay
    <2> QED BY <1>0, <2>1, <2>2, <2>3
  <1>6. ASSUME NEW r \in Requests, InsertNode(r) \/ CommitFreshness(r)
        PROVE  UNCHANGED <<log, counter, booted>> /\ ~AtCommit'
    BY <1>6, WriteFacts DEF AtCommit, trail
  <1>7. ASSUME NEW r \in Requests, Busy(r) \/ DbError(r)
        PROVE  /\ UNCHANGED <<log, counter, booted>>
               /\ AtCommit' => /\ AtCommit /\ writer' = writer /\ event'[writer] = event[writer]
                               /\ NextLine(writer)' = NextLine(writer)
    <2>1. /\ UNCHANGED <<log, counter, booted>> /\ OthersStay(r)
          /\ writer = r => writer' = NoRequest
          /\ writer # r => writer' = writer
      BY <1>7, FailureFacts DEF trail
    <2>2. CASE writer' = NoRequest
      BY <2>1, <2>2 DEF AtCommit
    <2>3. CASE writer \in Requests \ {r} /\ writer' = writer /\ writer # NoRequest
      BY <1>2, <2>1, <2>3 DEF OthersStay
    <2> QED BY <1>0, <2>1, <2>2, <2>3
  <1> QED BY <1>1, <1>3, <1>4, <1>5, <1>6, <1>7, StepKinds

LEMMA LoggedStep ==
    ASSUME RInv, RowsLogged, [Next]_vars
    PROVE  RowsLogged'
  <1>0. IInv
    BY DEF RInv
  <1>1. CASE \A r \in Requests : ~CommitEvent(r) /\ ~RecordEvent(r)
    BY <1>0, <1>1, TrailKept DEF RowsLogged
  <1>2. ASSUME NEW r \in Requests, RecordEvent(r) PROVE RowsLogged'
    <2>1. /\ log' = log \cup {NextLine(r)} /\ NextLine(r)' = NextLine(r)
          /\ audit_events' = audit_events /\ writer' = r
      BY <1>0, <1>2, RecordedLine, WriteFacts DEF store
    <2> QED BY <2>1 DEF RowsLogged
  <1>3. ASSUME NEW r \in Requests, CommitEvent(r) PROVE RowsLogged'
    <2>1. log' = log /\ writer' = NoRequest /\ AtCommit /\ writer = r
      BY <1>0, <1>3, WriteFacts DEF AtCommit, trail
    <2>2. [id |-> Len(audit_events) + 1, row |-> AuditEvent(r)] \in log
      BY <2>1 DEF RowsLogged, NextLine
    <2>3. ASSUME NEW i \in DOMAIN audit_events' PROVE [id |-> i, row |-> audit_events'[i]] \in log
      <3>1. CASE i \in DOMAIN audit_events
        BY <1>3, <3>1, CommitAppends DEF RowsLogged
      <3>2. CASE i = Len(audit_events) + 1
        BY <1>3, <2>2, <3>2, CommitAppends
      <3> QED BY <1>3, <2>3, <3>1, <3>2, CommitAppends
    <2> QED BY <2>1, <2>3 DEF RowsLogged, AtCommit
  <1> QED BY <1>1, <1>2, <1>3

LEMMA AtMostOneMore ==
    ASSUME NEW S, NEW x, IsFiniteSet(S), NEW T \in SUBSET (S \cup {x})
    PROVE  IsFiniteSet(T) /\ Cardinality(T) \in Nat /\ Cardinality(T) <= Cardinality(S) + 1
  <1> DEFINE U == S \cup {x}
  <1>1. IsFiniteSet(U) /\ Cardinality(U) = IF x \in S THEN Cardinality(S) ELSE Cardinality(S) + 1
    BY FS_AddElement
  <1> HIDE DEF U
  <1>2. IsFiniteSet(T) /\ Cardinality(T) <= Cardinality(U)
    BY <1>1, FS_Subset DEF U
  <1>3. Cardinality(T) \in Nat /\ Cardinality(S) \in Nat
    BY <1>2, FS_CardinalityType
  <1> QED BY <1>1, <1>2, <1>3

LEMMA CountedStep ==
    ASSUME RInv, RowsCounted, [Next]_vars
    PROVE  RowsCounted'
  <1> SUFFICES ASSUME NEW a \in Actions
               PROVE  /\ IsFiniteSet(Since(a)')
                      /\ counter'[a] >= Cardinality(Since(a)')
                      /\ AtCommit' /\ ActionOf(event'[writer']) = a =>
                            counter'[a] >= Cardinality(Since(a)') + 1
    BY DEF RowsCounted
  <1>0. IInv /\ counter \in [Actions -> Nat] /\ booted \in Nat
    BY DEF RInv, IInv, TypeOK, TrailTyped
  <1>1. IsFiniteSet(Since(a)) /\ counter[a] >= Cardinality(Since(a)) /\ Cardinality(Since(a)) \in Nat
    BY FS_CardinalityType DEF RowsCounted
  <1>2. CASE Crash
    <2>1. audit_events \in Seq(AuditRow)
      BY DEF RInv, IInv, TypeOK, TablesTyped
    <2>2. Since(a)' = {}
      BY <1>2, <2>1 DEF Crash, store, Since
    <2>3. counter'[a] = 0 /\ ~AtCommit'
      BY <1>2 DEF Crash, AtCommit
    <2> QED BY <2>2, <2>3, FS_EmptySet
  <1>3. CASE ~Crash /\ \A r \in Requests : ~CommitEvent(r) /\ ~RecordEvent(r)
    <2>1. /\ UNCHANGED <<audit_events, counter, booted>>
          /\ AtCommit' => AtCommit /\ writer' = writer /\ event'[writer] = event[writer]
      BY <1>0, <1>3, TrailKept
    <2>2. Since(a)' = Since(a)
      BY <2>1 DEF Since
    <2> QED BY <1>1, <2>1, <2>2 DEF RowsCounted
  <1>4. ASSUME NEW r \in Requests, RecordEvent(r)
        PROVE  /\ IsFiniteSet(Since(a)')
               /\ counter'[a] >= Cardinality(Since(a)')
               /\ AtCommit' /\ ActionOf(event'[writer']) = a =>
                            counter'[a] >= Cardinality(Since(a)') + 1
    <2>1. /\ UNCHANGED <<audit_events, booted>> /\ event'[r] = event[r] /\ writer' = r
          /\ counter' = [counter EXCEPT ![ActionOf(event[r])] = @ + 1]
      BY <1>0, <1>4, WriteFacts, RecordedLine DEF store
    <2>2. Since(a)' = Since(a)
      BY <2>1 DEF Since
    <2>3. counter'[a] = IF ActionOf(event[r]) = a THEN counter[a] + 1 ELSE counter[a]
      BY <1>0, <2>1
    <2> QED BY <1>0, <1>1, <2>1, <2>2, <2>3
  <1>5. ASSUME NEW r \in Requests, CommitEvent(r)
        PROVE  /\ IsFiniteSet(Since(a)')
               /\ counter'[a] >= Cardinality(Since(a)')
               /\ AtCommit' /\ ActionOf(event'[writer']) = a =>
                            counter'[a] >= Cardinality(Since(a)') + 1
    <2> DEFINE new == Len(audit_events) + 1
    <2>1. /\ UNCHANGED <<counter, booted>> /\ AtCommit /\ writer = r /\ ~AtCommit'
      BY <1>0, <1>5, WriteFacts DEF AtCommit, trail
    <2>2. CASE ActionOf(event[r]) = a
      <3>1. Since(a)' \in SUBSET (Since(a) \cup {new})
        BY <1>5, <2>1, CommitAppends DEF Since
      <3>2. counter[a] >= Cardinality(Since(a)) + 1
        BY <2>1, <2>2 DEF RowsCounted
      <3>3. IsFiniteSet(Since(a)') /\ Cardinality(Since(a)') \in Nat
            /\ Cardinality(Since(a)') <= Cardinality(Since(a)) + 1
        BY <1>1, <3>1, AtMostOneMore
      <3> QED BY <1>0, <1>1, <2>1, <3>2, <3>3
    <2>3. CASE ActionOf(event[r]) # a
      <3>1. Since(a)' = Since(a)
        BY <1>5, <2>1, <2>3, CommitAppends DEF Since
      <3> QED BY <1>1, <2>1, <3>1
    <2> QED BY <2>2, <2>3
  <1> QED BY <1>2, <1>3, <1>4, <1>5

\* Every committed row is in the log under its id, and every row committed since
\* the boot is in the counter: record_event writes both before the commit, so a
\* failure or a crash in between leaves them ahead of the table, never behind.
THEOREM RowsLoggedAndCounted == Spec => []RowsAreLoggedAndCounted
  <1>1. Init => RowsLogged /\ RowsCounted
    <2> SUFFICES ASSUME Init PROVE RowsLogged /\ RowsCounted
      OBVIOUS
    <2>1. RowsLogged /\ ~AtCommit
      BY DEF Init, RowsLogged, AtCommit
    <2>2. \A a \in Actions : Since(a) = {} /\ counter[a] = 0
      BY DEF Init, Since
    <2> QED BY <2>1, <2>2, FS_EmptySet DEF RowsCounted
  <1>2. RInv /\ (RowsLogged /\ RowsCounted) /\ [Next]_vars => (RowsLogged /\ RowsCounted)'
    BY LoggedStep, CountedStep
  <1>3. RowsLogged /\ RowsCounted => RowsAreLoggedAndCounted
    BY DEF RowsLogged, RowsCounted, RowsAreLoggedAndCounted, Since
  <1> QED BY <1>1, <1>2, <1>3, RefinementInvariant, PTL DEF Spec

\* A log line without its row belongs to a request in flight, answered 500 or
\* lost in a crash: no other answer is given while the log is ahead of the table.
THEOREM LogAgrees == Spec => []UnmatchedLog
  <1>1. Init => LogInv
    BY DEF Init, LogInv
  <1>2. RInv /\ LogInv /\ [Next]_vars => LogInv'
    BY LogStep
  <1>3. LogInv => UnmatchedLog
    BY DEF LogInv, UnmatchedLog, Matched, Forsaken, Imminent, AtCommit, InFlight
  <1> QED BY <1>1, <1>2, <1>3, RefinementInvariant, PTL DEF Spec

-----------------------------------------------------------------------------
(* State changes *)

\* A row's request is past its arrival: what it asked for stays.
LEMMA RowRequestKept ==
    ASSUME RInv, [Next]_vars, NEW i \in DOMAIN audit_events
    PROVE  req'[audit_events[i].by] = req[audit_events[i].by]
  <1> DEFINE b == audit_events[i].by
  <1>1. IInv /\ b \in Requests
    <2>1. IInv /\ audit_events \in Seq(AuditRow)
      BY DEF RInv, IInv, TypeOK, TablesTyped
    <2>2. audit_events[i] \in AuditRow
      BY <2>1
    <2> QED BY <2>1, <2>2 DEF AuditRow
  <1>2. pc[b] # "idle"
    BY <1>1 DEF RInv, Grounds, Unaccounted
  <1>3. ASSUME NEW r \in Requests, QuietMove(r) PROVE req'[b] = req[b]
    BY <1>1, <1>2, <1>3 DEF QuietMove, OthersStay
  <1>4. Still \/ Crash => req' = req
    BY DEF Still, Crash, control
  <1> QED BY <1>1, <1>3, <1>4, StepKinds, WriteFacts, FailureFacts

\* A routine heartbeat changes neither a node's state nor its owner.
LEMMA FreshnessKeepsState ==
    ASSUME RInv, NEW r \in Requests, CommitFreshness(r), NEW n \in NodeIds
    PROVE  /\ nodes'[n].state = nodes[n].state
           /\ nodes'[n].common_name = nodes[n].common_name
           /\ nodes'[n] = NoNode <=> nodes[n] = NoNode
  <1>1. /\ nodes \in [NodeIds -> NodeRow \cup {NoNode}]
        /\ nodes' = [nodes EXCEPT ![req[r].node] = BeatenRow(@)]
    BY DEF RInv, IInv, TypeOK, TablesTyped, CommitFreshness
  <1>2. nodes[req[r].node] # NoNode /\ req[r] \in Inputs
    BY DEF RInv, IInv, Positioned, Working, CommitFreshness
  <1>3. CASE n = req[r].node
    <2>1. nodes[n] \in NodeRow /\ nodes'[n] = BeatenRow(nodes[n])
      BY <1>1, <1>2, <1>3
    <2>2. BeatenRow(nodes[n]) \in NodeRow
      BY <2>1, RowsTyped
    <2>3. BeatenRow(nodes[n]).state = nodes[n].state
          /\ BeatenRow(nodes[n]).common_name = nodes[n].common_name
      BY <2>1 DEF BeatenRow, NodeRow
    <2> QED BY <2>1, <2>2, <2>3, NoNodeAssumption
  <1>4. CASE n # req[r].node
    BY <1>1, <1>4
  <1> QED BY <1>3, <1>4

LEMMA StateStep ==
    ASSUME RInv, StateInv, [Next]_vars
    PROVE  StateInv'
  <1>0. IInv /\ nodes \in [NodeIds -> NodeRow \cup {NoNode}] /\ audit_events \in Seq(AuditRow)
    BY DEF RInv, IInv, TypeOK, TablesTyped
  <1> DEFINE Registered(i) == audit_events[i].event = "registered"
             t(i) == audit_events[i].target
  <1>1. ASSUME UNCHANGED audit_events,
               \A n \in NodeIds : /\ nodes'[n].state = nodes[n].state
                                  /\ nodes'[n].common_name = nodes[n].common_name
        PROVE  StateInv'
    BY <1>1, RowRequestKept DEF StateInv, StateChangesAreAudited
  <1>2. CASE \A r \in Requests : ~CommitEvent(r) /\ ~CommitFreshness(r)
    <2>1. UNCHANGED store
      BY <1>0, <1>2, StepKinds, WriteFacts, FailureFacts DEF Still, Crash, QuietMove
    <2> QED BY <1>1, <2>1 DEF store
  <1>3. ASSUME NEW r \in Requests, CommitFreshness(r) PROVE StateInv'
    BY <1>0, <1>1, <1>3, FreshnessKeepsState, WriteFacts
  <1>4. ASSUME NEW r \in Requests, CommitEvent(r) PROVE StateInv'
    <2> DEFINE new == Len(audit_events) + 1
               n == req[r].node
    <2>1. /\ Len(audit_events) \in Nat /\ DOMAIN audit_events = 1..Len(audit_events)
          /\ DOMAIN audit_events' = DOMAIN audit_events \cup {new}
          /\ \A i \in DOMAIN audit_events : audit_events'[i] = audit_events[i]
          /\ audit_events'[new] = AuditEvent(r)
      BY <1>4, CommitAppends
    <2>2. /\ AuditEvent(r).by = r /\ AuditEvent(r).event = event[r]
          /\ AuditEvent(r).actor = IdentityCN(req[r])
          /\ event[r] # "revoked" => AuditEvent(r).target = n
      BY DEF AuditEvent, AuditTarget
    <2>3. n \in NodeIds /\ nodes' = Effect(r) /\ event[r] \in Events /\ req' = req
      BY <1>0, <1>4, CommitEffect, InputFields, WriteFacts
    <2>4. ASSUME NEW i \in DOMAIN audit_events', audit_events'[i].event = "registered"
          PROVE  audit_events'[i].target \in NodeIds
      BY <2>1, <2>2, <2>3, <2>4 DEF StateInv
    <2>5. ASSUME NEW i \in DOMAIN audit_events, Registered(i), nodes'[t(i)] = nodes[t(i)],
                 nodes'[t(i)].state # req'[audit_events[i].by].state
          PROVE  /\ nodes'[t(i)].state = "active"
                 /\ \E j \in DOMAIN audit_events' :
                       /\ i < j /\ audit_events'[j].event = "activated"
                       /\ audit_events'[j].target = t(i)
                       /\ audit_events'[j].actor = nodes'[t(i)].common_name
      BY <2>1, <2>3, <2>5 DEF StateInv, StateChangesAreAudited
    <2>6. CASE event[r] = "registered"
      <3>1. nodes[n] = NoNode /\ nodes' = [nodes EXCEPT ![n] = NewRow(r)]
        BY <1>4, <2>3, <2>6, CommitEffect DEF Effect
      <3>2. ASSUME NEW i \in DOMAIN audit_events, Registered(i) PROVE nodes'[t(i)] = nodes[t(i)]
        <4>1. t(i) \in NodeIds
          BY <3>2 DEF StateInv
        <4>2. t(i) # n
          BY <2>3, <3>1, <3>2 DEF RInv, IInv, AuditedRegistration, Matches, Registrations
        <4> QED BY <1>0, <3>1, <4>1, <4>2
      <3>3. nodes'[n].state = req'[r].state
        BY <1>0, <2>3, <3>1 DEF NewRow
      <3>4. ASSUME NEW i \in DOMAIN audit_events', audit_events'[i].event = "registered",
                   nodes'[audit_events'[i].target].state # req'[audit_events'[i].by].state
            PROVE  i \in DOMAIN audit_events
        BY <2>1, <2>2, <2>6, <3>3, <3>4
      <3>5. StateChangesAreAudited'
        BY <2>1, <2>5, <3>2, <3>4 DEF StateChangesAreAudited
      <3> QED BY <2>4, <3>5 DEF StateInv
    <2>7. CASE event[r] = "activated"
      <3>1. Own(r) /\ nodes' = [nodes EXCEPT ![n] = ActivatedRow(@)]
        BY <1>4, <2>7, CommitEffect DEF Effect
      <3>2. nodes[n] \in NodeRow /\ nodes[n].common_name = IdentityCN(req[r])
        BY <1>0, <2>3, <3>1 DEF Own
      <3>3. nodes'[n].state = "active" /\ nodes'[n].common_name = IdentityCN(req[r])
        BY <1>0, <2>3, <3>1, <3>2 DEF ActivatedRow, NodeRow
      <3>4. ASSUME NEW i \in DOMAIN audit_events, Registered(i),
                   nodes'[t(i)].state # req'[audit_events[i].by].state
            PROVE  /\ nodes'[t(i)].state = "active"
                   /\ \E j \in DOMAIN audit_events' :
                         /\ i < j /\ audit_events'[j].event = "activated"
                         /\ audit_events'[j].target = t(i)
                         /\ audit_events'[j].actor = nodes'[t(i)].common_name
        <4>1. CASE t(i) = n
          <5>1. /\ i < new /\ new \in DOMAIN audit_events' /\ audit_events'[new].event = "activated"
                /\ audit_events'[new].target = t(i)
                /\ audit_events'[new].actor = nodes'[t(i)].common_name
            BY <2>1, <2>2, <2>7, <3>3, <4>1
          <5> QED BY <3>3, <4>1, <5>1
        <4>2. CASE t(i) # n
          <5>1. t(i) \in NodeIds
            BY <3>4 DEF StateInv
          <5>2. nodes'[t(i)] = nodes[t(i)]
            BY <1>0, <3>1, <4>2, <5>1
          <5> QED BY <2>5, <3>4, <5>2
        <4> QED BY <4>1, <4>2
      <3>5. \A i \in DOMAIN audit_events' :
                audit_events'[i].event = "registered" => i \in DOMAIN audit_events
        BY <2>1, <2>2, <2>7
      <3>6. StateChangesAreAudited'
        BY <2>1, <3>4, <3>5 DEF StateChangesAreAudited
      <3> QED BY <2>4, <3>6 DEF StateInv
    <2>8. CASE event[r] \in Denials
      <3>1. nodes' = nodes
        BY <2>3, <2>8 DEF Effect, Denials
      <3>2. \A i \in DOMAIN audit_events' :
                audit_events'[i].event = "registered" => i \in DOMAIN audit_events
        BY <2>1, <2>2, <2>8 DEF Denials
      <3>3. StateChangesAreAudited'
        BY <2>1, <2>5, <3>1, <3>2 DEF StateChangesAreAudited
      <3> QED BY <2>4, <3>3 DEF StateInv
    <2> QED BY <2>3, <2>6, <2>7, <2>8 DEF Events
  <1> QED BY <1>2, <1>3, <1>4

\* A node whose state is not its registered one became active by an audited state
\* change of its own CN, later than the registration: no late heartbeat, failed
\* commit or crash changes a state unrecorded.
THEOREM StatesAudited == Spec => []StateChangesAreAudited
  <1>1. Init => StateInv
    BY DEF Init, StateInv, StateChangesAreAudited
  <1>2. RInv /\ StateInv /\ [Next]_vars => StateInv'
    BY StateStep
  <1>3. StateInv => StateChangesAreAudited
    BY DEF StateInv
  <1> QED BY <1>1, <1>2, <1>3, RefinementInvariant, PTL DEF Spec

-----------------------------------------------------------------------------
(* The answers *)

\* Rows stay, under their ids.
LEMMA RowsStay ==
    ASSUME RInv, [Next]_vars, NEW i \in DOMAIN audit_events
    PROVE  i \in DOMAIN audit_events' /\ audit_events'[i] = audit_events[i]
  <1>1. CASE \E r \in Requests : CommitEvent(r)
    BY <1>1, CommitAppends
  <1>2. CASE \A r \in Requests : ~CommitEvent(r)
    BY <1>2, OnlyCommitsAppend DEF RInv
  <1> QED BY <1>1, <1>2

LEMMA StaysUnaccounted ==
    ASSUME RInv, [Next]_vars, NEW x \in Requests, Unaccounted(x), ~CommitEvent(x)
    PROVE  Unaccounted(x)'
  <1>1. ASSUME NEW r \in Requests, CommitEvent(r) PROVE Unaccounted(x)'
    BY <1>1, CommitAppends DEF Unaccounted
  <1>2. CASE \A r \in Requests : ~CommitEvent(r)
    BY <1>2, OnlyCommitsAppend DEF RInv, Unaccounted
  <1> QED BY <1>1, <1>2

\* No step deletes a node, forgets its heartbeat or takes it back to onboarding.
Ripens(n) ==
    nodes[n] # NoNode =>
        /\ nodes'[n] # NoNode
        /\ nodes[n].last_heartbeat => nodes'[n].last_heartbeat
        /\ nodes[n].state # "onboarding" => nodes'[n].state # "onboarding"

\* What the three writes of the handlers leave on a node.
LEMMA WrittenRows ==
    ASSUME NEW row \in NodeRow
    PROVE  /\ ActivatedRow(row) # NoNode /\ BeatenRow(row) # NoNode
           /\ ActivatedRow(row).last_heartbeat /\ ActivatedRow(row).state = "active"
           /\ BeatenRow(row).last_heartbeat /\ BeatenRow(row).state = row.state
  <1>1. ActivatedRow(row) # NoNode /\ BeatenRow(row) # NoNode
    BY RowsTyped, NoNodeAssumption
  <1> QED BY <1>1 DEF ActivatedRow, BeatenRow, NodeRow

LEMMA Ripening ==
    ASSUME RInv, [Next]_vars, NEW n \in NodeIds
    PROVE  Ripens(n)
  <1>0. IInv /\ nodes \in [NodeIds -> NodeRow \cup {NoNode}]
    BY DEF RInv, IInv, TypeOK, TablesTyped
  <1>1. CASE \A r \in Requests : ~CommitEvent(r) /\ ~CommitFreshness(r)
    <2>1. UNCHANGED store
      BY <1>0, <1>1, StepKinds, WriteFacts, FailureFacts DEF Still, Crash, QuietMove
    <2> QED BY <2>1 DEF store, Ripens
  <1>2. ASSUME NEW r \in Requests, CommitFreshness(r) PROVE Ripens(n)
    <2>1. nodes' = [nodes EXCEPT ![req[r].node] = BeatenRow(@)]
      BY <1>2 DEF CommitFreshness
    <2>2. CASE n = req[r].node /\ nodes[n] # NoNode
      <3>1. nodes[n] \in NodeRow /\ nodes'[n] = BeatenRow(nodes[n])
        BY <1>0, <2>1, <2>2
      <3> QED BY <3>1, WrittenRows DEF Ripens
    <2>3. CASE n # req[r].node
      BY <1>0, <2>1, <2>3 DEF Ripens
    <2> QED BY <2>2, <2>3 DEF Ripens
  <1>3. ASSUME NEW r \in Requests, CommitEvent(r) PROVE Ripens(n)
    <2>1. nodes' = Effect(r) /\ (event[r] = "registered" => nodes[req[r].node] = NoNode)
      BY <1>3, CommitEffect
    <2>2. CASE n = req[r].node /\ nodes[n] # NoNode /\ event[r] = "activated"
      <3>1. nodes[n] \in NodeRow /\ nodes'[n] = ActivatedRow(nodes[n])
        BY <1>0, <2>1, <2>2 DEF Effect
      <3> QED BY <3>1, WrittenRows DEF Ripens
    <2>3. CASE nodes'[n] = nodes[n]
      BY <2>3 DEF Ripens
    <2> QED BY <1>0, <2>1, <2>2, <2>3 DEF Effect, Ripens
  <1> QED BY <1>1, <1>2, <1>3

\* A request that does not move stays on its way.
LEMMA PathOfOthers ==
    ASSUME RInv, [Next]_vars, NEW x \in Requests, Path(x), ~CommitEvent(x),
           pc'[x] = pc[x], event'[x] = event[x], req'[x] = req[x], status'[x] = status[x]
    PROVE  Path(x)'
  <1>1. CASE pc[x] \in {"idle", "lost"}
    BY <1>1 DEF Path, Working
  <1>2. CASE pc[x] \in Working \cup {"done"}
    <2>1. req[x].node \in NodeIds
      BY <1>2, InputFields DEF Path
    <2>2. Ripens(req[x].node)
      BY <2>1, Ripening
    <2>3. /\ Exists(x) => Exists(x)'
          /\ Beaten(x) => Beaten(x)'
          /\ Exists(x) /\ nodes[req[x].node].state # "onboarding" =>
                 nodes'[req[x].node].state # "onboarding"
      BY <2>2 DEF Ripens, Exists, Beaten
    <2>4. Unaccounted(x) => Unaccounted(x)'
      BY StaysUnaccounted
    <2>5. /\ RowOf(x, {"registered"}) => RowOf(x, {"registered"})'
          /\ RowOf(x, {"activated"}) => RowOf(x, {"activated"})'
          /\ RowOf(x, Denials) => RowOf(x, Denials)'
      BY RowsStay DEF RowOf
    <2>6. Told(x) => Told(x)'
      BY <2>3, <2>4, <2>5 DEF Told
    <2> QED BY <2>3, <2>4, <2>5, <2>6 DEF Path
  <1>3. pc[x] \in Working \cup {"done", "idle", "lost"}
    BY DEF RInv, IInv, TypeOK, HandlersTyped, Working
  <1> QED BY <1>1, <1>2, <1>3

\* A refusal at the door, a denial to be recorded, or a handler's start.
LEMMA ReceivePath ==
    ASSUME RInv, NEW r \in Requests, Receive(r)
    PROVE  Path(r)'
  <1>1. PICK q \in Inputs :
            \/ RefuseUnidentified(r, q) \/ DenyRevoked(r, q) \/ DenyUnauthorized(r, q)
            \/ Admit(r, q) \/ Whoami(r, q)
    BY DEF Receive
  <1>2. HandlersTyped /\ pc[r] = "idle" /\ req' = [req EXCEPT ![r] = q] /\ UNCHANGED store
    BY <1>1 DEF RInv, IInv, TypeOK, RefuseUnidentified, DenyRevoked, DenyUnauthorized, Admit,
       Whoami, Arrive
  <1>3. Unaccounted(r)' /\ req'[r] = q
    BY <1>2 DEF RInv, Grounds, Unaccounted, store, HandlersTyped
  <1>4. CASE RefuseUnidentified(r, q)
    <2>1. pc'[r] = "done" /\ status'[r] \in {400, 401, 403} /\ ~Identified(q)
      BY <1>2, <1>4, StatusTyped DEF RefuseUnidentified, Answer, HandlersTyped, Identified
    <2>2. Told(r)'
      BY <1>3, <2>1 DEF Told
    <2> QED BY <1>3, <2>1, <2>2 DEF Path, Working
  <1>5. CASE Whoami(r, q)
    <2>1. pc'[r] = "done" /\ status'[r] = 200 /\ q.op = "whoami"
      BY <1>2, <1>5 DEF Whoami, Answer, HandlersTyped
    <2>2. Told(r)'
      BY <1>3, <2>1 DEF Told
    <2> QED BY <1>3, <2>1, <2>2 DEF Path, Working
  <1>6. CASE DenyRevoked(r, q) \/ DenyUnauthorized(r, q)
    <2>1. pc'[r] = "record" /\ event'[r] \in {"revoked", "unauthorized"} /\ Identified(q)
      BY <1>2, <1>6 DEF DenyRevoked, DenyUnauthorized, HandlersTyped
    <2> QED BY <1>3, <2>1 DEF Path
  <1>7. CASE Admit(r, q)
    <2>1. pc'[r] = "select" /\ Identified(q)
      BY <1>2, <1>7 DEF Admit, HandlersTyped
    <2> QED BY <1>3, <2>1 DEF Path
  <1> QED BY <1>1, <1>4, <1>5, <1>6, <1>7

\* What a SELECT decides, and what a handler answers without writing.
LEMMA ReadPath ==
    ASSUME RInv, NEW r \in Requests, Path(r),
           \/ Read(r) \/ LookUpForRegister(r) \/ LookUpForHeartbeat(r)
           \/ DuplicateInsert(r) \/ Refresh(r)
    PROVE  Path(r)'
  <1> USE DEF Answer, Goto
  <1>1. HandlersTyped /\ req' = req /\ UNCHANGED store /\ pc[r] \in Working
    BY DEF RInv, IInv, TypeOK, Read, ListNodes, ListAuditEvents, GetNode,
           LookUpForRegister, LookUpForHeartbeat, DuplicateInsert,
       Refresh, Working
  <1>2. req'[r] \in Inputs /\ Identified(req'[r])
    BY <1>1 DEF Path
  <1>3. pc[r] = "select" => Unaccounted(r)'
    BY <1>1 DEF RInv, Grounds, Unaccounted, store
  <1>4. CASE pc'[r] = "done" /\ status'[r] = 500
    BY <1>2, <1>4 DEF Path, Told, Working
  <1>5. CASE /\ pc[r] = "select" /\ pc'[r] = "done" /\ status'[r] \in {200, 404, 409}
             /\ status'[r] = 200 => req[r].op # "heartbeat"
    <2>1. Told(r)'
      BY <1>1, <1>3, <1>5 DEF Told
    <2> QED BY <1>2, <1>5, <2>1 DEF Path, Working
  <1>6. CASE Read(r)
    BY <1>1, <1>5, <1>6 DEF Read, ListNodes, ListAuditEvents, GetNode, HandlersTyped
  <1>7. CASE LookUpForRegister(r)
    <2>1. CASE pc' = [pc EXCEPT ![r] = "done"]
      BY <1>1, <1>5, <1>7, <2>1 DEF LookUpForRegister, HandlersTyped
    <2>2. CASE pc' = [pc EXCEPT ![r] = "insert"]
      <3>1. pc'[r] = "insert" /\ req'[r].op = "register"
        BY <1>1, <1>7, <2>2 DEF LookUpForRegister, HandlersTyped
      <3> QED BY <1>2, <3>1 DEF Path
    <2> QED BY <1>7, <2>1, <2>2 DEF LookUpForRegister
  <1>8. CASE LookUpForHeartbeat(r)
    <2>1. CASE pc' = [pc EXCEPT ![r] = "done"] /\ status' = [status EXCEPT ![r] = 404]
      BY <1>1, <1>5, <1>8, <2>1 DEF LookUpForHeartbeat, HandlersTyped
    <2>2. CASE /\ pc' = [pc EXCEPT ![r] = "record"]
               /\ \E e \in {"mismatch", "activated"} : event' = [event EXCEPT ![r] = e]
      <3>1. pc'[r] = "record" /\ event'[r] \in {"mismatch", "activated"}
            /\ req'[r].op = "heartbeat"
        BY <1>1, <1>8, <2>2 DEF LookUpForHeartbeat, HandlersTyped
      <3> QED BY <1>2, <3>1 DEF Path
    <2>3. CASE /\ pc' = [pc EXCEPT ![r] = "commit"] /\ event' = [event EXCEPT ![r] = "none"]
               /\ nodes[req[r].node] # NoNode /\ nodes[req[r].node].state # "onboarding"
      <3>1. pc'[r] = "commit" /\ event'[r] = "none" /\ req'[r].op = "heartbeat"
        BY <1>1, <1>8, <2>3 DEF LookUpForHeartbeat, HandlersTyped
      <3>2. Exists(r)' /\ nodes'[req'[r].node].state # "onboarding"
        BY <1>1, <2>3 DEF Exists, store
      <3> QED BY <1>2, <3>1, <3>2 DEF Path
    <2> QED BY <1>8, <2>1, <2>2, <2>3 DEF LookUpForHeartbeat
  <1>9. CASE DuplicateInsert(r)
    BY <1>1, <1>4, <1>9 DEF DuplicateInsert, HandlersTyped
  <1>10. CASE Refresh(r)
    <2>1. /\ pc[r] = "refresh" /\ pc'[r] = "done"
          /\ status'[r] = IF req[r].op = "register" THEN 201 ELSE 200
      BY <1>1, <1>10 DEF Refresh, HandlersTyped
    <2>2. /\ RowOf(r, {"registered"})' <=> RowOf(r, {"registered"})
          /\ RowOf(r, {"activated"})' <=> RowOf(r, {"activated"})
          /\ Unaccounted(r)' <=> Unaccounted(r)
          /\ Exists(r)' <=> Exists(r)
          /\ Beaten(r)' <=> Beaten(r)
      BY <1>1 DEF RowOf, Unaccounted, Exists, Beaten, store
    <2>3. \/ event[r] = "registered" /\ RowOf(r, {"registered"}) /\ Exists(r) /\ req[r].op = "register"
          \/ event[r] = "activated" /\ RowOf(r, {"activated"}) /\ Beaten(r) /\ req[r].op = "heartbeat"
          \/ event[r] = "none" /\ Unaccounted(r) /\ Beaten(r) /\ req[r].op = "heartbeat"
      BY <2>1 DEF Path
    <2>4. Told(r)'
      BY <1>1, <2>1, <2>2, <2>3 DEF Told
    <2> QED BY <1>2, <2>1, <2>4 DEF Path, Working
  <1> QED BY <1>6, <1>7, <1>8, <1>9, <1>10

\* The writes: a commit leaves the row, and the node, its answer will speak of.
LEMMA WritePath ==
    ASSUME RInv, [Next]_vars, NEW r \in Requests, Path(r),
           InsertNode(r) \/ RecordEvent(r) \/ CommitEvent(r) \/ CommitFreshness(r)
    PROVE  Path(r)'
  <1>0. IInv /\ nodes \in [NodeIds -> NodeRow \cup {NoNode}] /\ req' = req
        /\ pc[r] \in {"insert", "record", "commit"}
    BY WriteFacts DEF RInv, IInv, TypeOK, TablesTyped
  <1>1. req'[r] \in Inputs /\ Identified(req'[r]) /\ req[r].node \in NodeIds
    BY <1>0, InputFields DEF Path, Working
  <1>2. CASE InsertNode(r)
    BY <1>0, <1>1, <1>2, WriteFacts DEF Path
  <1>3. CASE RecordEvent(r)
    <2>1. pc[r] = "record" /\ pc'[r] = "commit" /\ event'[r] = event[r]
      BY <1>0, <1>3, WriteFacts
    <2>2. event[r] # "none"
      BY <1>0, <2>1 DEF IInv, Positioned, Events, Denials
    <2> QED BY <1>0, <1>1, <2>1, <2>2 DEF Path
  <1>4. CASE CommitEvent(r)
    <2>1. /\ pc[r] = "commit" /\ event'[r] = event[r]
          /\ IF event[r] \in Denials THEN pc'[r] = "done" /\ status'[r] = 403
             ELSE pc'[r] = "refresh"
      BY <1>0, <1>4, WriteFacts
    <2>2. event[r] \in Events /\ nodes' = Effect(r)
      BY <1>4, CommitEffect
    <2>3. \E i \in DOMAIN audit_events' : audit_events'[i].by = r /\ audit_events'[i].event = event[r]
      BY <1>4, CommitAppends
    <2>4. CASE event[r] \in Denials
      <3>1. RowOf(r, Denials)'
        BY <2>3, <2>4 DEF RowOf
      <3>2. Told(r)'
        BY <1>1, <2>1, <2>4, <3>1 DEF Told
      <3> QED BY <1>1, <2>1, <2>4, <3>2 DEF Path, Working
    <2>5. CASE event[r] = "registered"
      <3>1. RowOf(r, {"registered"})'
        BY <2>3, <2>5 DEF RowOf
      <3>2. NewRow(r) \in NodeRow
        BY <1>0, <1>1, InputFields DEF NewRow, NodeRow
      <3>3. nodes'[req[r].node] = NewRow(r)
        BY <1>0, <1>1, <2>2, <2>5 DEF Effect
      <3>4. Exists(r)'
        BY <1>0, <3>2, <3>3, NoNodeAssumption DEF Exists
      <3>5. pc'[r] = "refresh"
        BY <2>1, <2>5 DEF Denials
      <3> QED BY <1>0, <1>1, <2>1, <2>5, <3>1, <3>4, <3>5 DEF Path
    <2>6. CASE event[r] = "activated"
      <3>1. RowOf(r, {"activated"})'
        BY <2>3, <2>6 DEF RowOf
      <3>2. nodes[req[r].node] \in NodeRow
        BY <1>0, <1>1, <1>4, <2>6, CommitEffect DEF Own
      <3>3. nodes'[req[r].node] = ActivatedRow(nodes[req[r].node])
        BY <1>0, <1>1, <2>2, <2>6 DEF Effect
      <3>4. Beaten(r)'
        BY <1>0, <3>2, <3>3, WrittenRows DEF Beaten, Exists
      <3>5. pc'[r] = "refresh"
        BY <2>1, <2>6 DEF Denials
      <3> QED BY <1>0, <1>1, <2>1, <2>6, <3>1, <3>4, <3>5 DEF Path
    <2> QED BY <2>2, <2>4, <2>5, <2>6 DEF Events
  <1>5. CASE CommitFreshness(r)
    <2>1. /\ pc[r] = "commit" /\ event[r] = "none" /\ event'[r] = "none" /\ pc'[r] = "refresh"
          /\ audit_events' = audit_events
          /\ nodes' = [nodes EXCEPT ![req[r].node] = BeatenRow(@)]
      BY <1>0, <1>5, WriteFacts DEF CommitFreshness
    <2>2. Exists(r) /\ nodes[req[r].node].state # "onboarding" /\ req[r].op = "heartbeat"
      BY <2>1 DEF Path
    <2>3. nodes[req[r].node] \in NodeRow /\ nodes'[req[r].node] = BeatenRow(nodes[req[r].node])
      BY <1>0, <1>1, <2>1, <2>2 DEF Exists
    <2>4. Beaten(r)'
      BY <1>0, <2>2, <2>3, WrittenRows DEF Beaten, Exists
    <2>5. Unaccounted(r)'
      BY <2>1 DEF RInv, Grounds, Unaccounted
    <2> QED BY <1>0, <1>1, <2>1, <2>2, <2>4, <2>5 DEF Path
  <1> QED BY <1>2, <1>3, <1>4, <1>5

LEMMA PathsStep ==
    ASSUME RInv, Paths, [Next]_vars
    PROVE  Paths'
  <1>0. IInv
    BY DEF RInv
  <1>1. ASSUME NEW r \in Requests, Receive(r) \/ Handle(r) \/ DbError(r) PROVE Paths'
    <2>1. Path(r)'
      <3>1. CASE Busy(r) \/ DbError(r)
        <4>1. pc'[r] = "done" /\ status'[r] = 500 /\ req' = req /\ pc[r] \in Working
          BY <1>0, <3>1, FailureFacts
        <4> QED BY <4>1 DEF Paths, Path, Told, Working
      <3> QED BY <1>1, <3>1, ReceivePath, ReadPath, WritePath DEF Paths, Handle
    <2>2. /\ OthersStay(r)
          /\ \A x \in Requests \ {r} : status'[x] = status[x]
      BY <1>0, <1>1, ReceiveQuiet, ReadQuiet, WriteFacts, FailureFacts DEF Handle, QuietMove
    <2>3. ASSUME NEW x \in Requests, x # r PROVE Path(x)'
      <3>1. ~CommitEvent(x)
        <4>1. CommitEvent(x) => pc'[x] # pc[x]
          BY <1>0, WriteFacts
        <4> QED BY <2>2, <2>3, <4>1 DEF OthersStay
      <3> QED BY <2>2, <2>3, <3>1, PathOfOthers DEF Paths, OthersStay
    <2> QED BY <2>1, <2>3 DEF Paths
  <1>2. CASE Crash
    <2>1. ASSUME NEW x \in Requests PROVE Path(x)'
      <3>1. pc'[x] \in {"idle", "lost"} \/ (pc'[x] = "done" /\ pc[x] = "done")
        BY <1>2 DEF Crash
      <3>2. UNCHANGED <<nodes, audit_events, req, event, status>>
        BY <1>2 DEF Crash, store
      <3>3. CASE pc'[x] \in {"idle", "lost"}
        BY <3>3 DEF Path, Working
      <3>4. CASE pc'[x] = "done" /\ pc[x] = "done"
        <4>1. Told(x) => Told(x)'
          BY <3>2 DEF Told, RowOf, Exists, Beaten, Unaccounted
        <4> QED BY <3>2, <3>4, <4>1 DEF Paths, Path, Working
      <3> QED BY <3>1, <3>3, <3>4
    <2> QED BY <2>1 DEF Paths
  <1>3. CASE CrlUpdated \/ UNCHANGED vars
    <2>1. UNCHANGED <<req, pc, event, status>>
      BY <1>3 DEF CrlUpdated, vars, control
    <2>2. ASSUME NEW x \in Requests PROVE Path(x)'
      <3>1. ~CommitEvent(x)
        <4>1. CommitEvent(x) => pc'[x] # pc[x]
          BY <1>0, WriteFacts
        <4> QED BY <2>1, <4>1
      <3> QED BY <2>1, <3>1, PathOfOthers DEF Paths
    <2> QED BY <2>2 DEF Paths
  <1> QED BY <1>1, <1>2, <1>3 DEF Next

\* A request with a row has exactly that one.
LEMMA TheRow ==
    ASSUME OneRow, NEW r \in Requests, NEW E, RowOf(r, E)
    PROVE  Outcome(r, E)
  <1>1. PICK i \in DOMAIN audit_events : audit_events[i].by = r /\ audit_events[i].event \in E
    BY DEF RowOf
  <1>2. RowsBy(r) = {i}
    BY <1>1 DEF RowsBy, OneRow
  <1> QED BY <1>1, <1>2, FS_Singleton DEF Outcome

LEMMA PathsTell ==
    ASSUME RInv, OneRow, Paths
    PROVE  OutcomeMatchesRecord
  <1> SUFFICES ASSUME NEW r \in Requests, pc[r] = "done"
               PROVE  LET q == req[r] IN
                      CASE status[r] = 201 -> Outcome(r, {"registered"}) /\ nodes[q.node] # NoNode
                        [] status[r] = 403 /\ Identified(q) -> Outcome(r, Denials)
                        [] status[r] = 200 /\ q.op = "heartbeat" ->
                               /\ nodes[q.node].last_heartbeat
                               /\ nodes[q.node].state # "onboarding"
                               /\ RowsBy(r) # {} => Outcome(r, {"activated"})
                        [] status[r] = 500 -> RowsBy(r) # {} => Outcome(r, Events)
                        [] OTHER -> RowsBy(r) = {}
    BY DEF OutcomeMatchesRecord
  <1>1. Told(r)
    BY DEF Paths, Path
  <1>2. Unaccounted(r) => RowsBy(r) = {}
    BY DEF Unaccounted, RowsBy
  <1>3. /\ RowOf(r, {"registered"}) => Outcome(r, {"registered"})
        /\ RowOf(r, {"activated"}) => Outcome(r, {"activated"})
        /\ RowOf(r, Denials) => Outcome(r, Denials)
        /\ RowOf(r, Events) => Outcome(r, Events)
    BY TheRow
  <1>4. RowsBy(r) # {} => RowOf(r, Events)
    <2>1. audit_events \in Seq(AuditRow)
      BY DEF RInv, IInv, TypeOK, TablesTyped
    <2>2. \A i \in DOMAIN audit_events : audit_events[i] \in AuditRow
      BY <2>1
    <2>3. \A i \in DOMAIN audit_events : audit_events[i].event \in Events
      BY <2>2 DEF AuditRow
    <2> QED BY <2>3 DEF RowsBy, RowOf
  <1>5. CASE status[r] = 201
    BY <1>1, <1>2, <1>3, <1>5 DEF Told, Exists
  <1>6. CASE status[r] = 403
    BY <1>1, <1>2, <1>3, <1>6 DEF Told
  <1>7. CASE status[r] = 200
    BY <1>1, <1>2, <1>3, <1>7 DEF Told, Beaten
  <1>8. CASE status[r] = 500
    BY <1>3, <1>4, <1>8
  <1>9. CASE status[r] \notin {200, 201, 403, 500}
    BY <1>1, <1>2, <1>9 DEF Told
  <1> QED BY <1>5, <1>6, <1>7, <1>8, <1>9

\* What a client was told is what the tables hold, from its answer on: whichever
\* way the handlers interleave, fail, time out or crash.
THEOREM OutcomesRecorded == Spec => []OutcomeMatchesRecord
  <1>1. Init => OneRow /\ Paths
    BY DEF Init, OneRow, Paths, Path, Working
  <1>2. RInv /\ (OneRow /\ Paths) /\ [Next]_vars => (OneRow /\ Paths)'
    BY OneRowStep, PathsStep
  <1>3. RInv /\ (OneRow /\ Paths) => OutcomeMatchesRecord
    BY PathsTell
  <1> QED BY <1>1, <1>2, <1>3, RefinementInvariant, PTL DEF Spec
=============================================================================
