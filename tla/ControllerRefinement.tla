------------------------ MODULE ControllerRefinement ------------------------
(* Controller implements Registry: every step of the statements, the lock, the  *)
(* failures and the crashes is a step of the abstract tables, or none.          *)
EXTENDS ControllerProofs

Unaccounted(r) == \A i \in DOMAIN audit_events : audit_events[i].by # r

\* The node a heartbeat has found, as it is by now: its own, and not past active.
Own(r) ==
    LET row == nodes[req[r].node] IN
    row # NoNode /\ row.common_name = IdentityCN(req[r]) /\ row.state \in {"onboarding", "active"}

(***************************************************************************)
(* What a pending write stands on: it was authorized, what it was decided  *)
(* on still allows it, and its request has written no audit row before.    *)
(***************************************************************************)
Grounds(r) ==
    /\ pc[r] = "select" /\ req[r].op = "register" => MayRegister(req[r])
    /\ pc[r] = "insert" => MayRegister(req[r])
    /\ pc[r] \in {"record", "commit"} =>
          /\ event[r] = "registered" => MayRegister(req[r])
          /\ event[r] = "activated" => Own(r)
    /\ pc[r] = "commit" /\ event[r] # "none" => AuditEvent(r) \in AuditRow
    /\ pc[r] \in {"idle", "select", "insert", "record", "commit"} => Unaccounted(r)

NewRow(r) == [common_name |-> req[r].cn, state |-> req[r].state, last_heartbeat |-> FALSE]

\* The node table r's commit will leave.
Effect(r) ==
    IF event[r] = "registered" THEN [nodes EXCEPT ![req[r].node] = NewRow(r)]
    ELSE IF event[r] = "activated" THEN [nodes EXCEPT ![req[r].node] = ActivatedRow(@)]
    ELSE nodes

\* What the writer's transaction holds, exactly.
Pending ==
    writer # NoRequest =>
        /\ event[writer] = "registered" => nodes[req[writer].node] = NoNode
        /\ pc[writer] = "record" => txn.nodes = Effect(writer) /\ txn.audit = audit_events
        /\ pc[writer] = "commit" =>
              /\ txn.nodes = Effect(writer)
              /\ txn.audit = Append(audit_events, AuditEvent(writer))

RInv ==
    /\ IInv
    /\ \A r \in Requests : Grounds(r)
    /\ Pending

-----------------------------------------------------------------------------
(* The grounds of a request survive the steps of the others *)

LEMMA InitGrounds == Init => RInv
  <1> SUFFICES ASSUME Init PROVE RInv
    OBVIOUS
  <1>1. \A r \in Requests : Grounds(r)
    BY DEF Init, Grounds, Unaccounted
  <1>2. Pending
    BY DEF Init, Pending
  <1> QED BY <1>1, <1>2, InitInvariant DEF RInv

\* A request that does not move keeps its grounds while the tables stay.
LEMMA GroundsKept ==
    ASSUME NEW x \in Requests, Grounds(x), UNCHANGED store,
           pc'[x] = pc[x], event'[x] = event[x], req'[x] = req[x]
    PROVE  Grounds(x)'
  BY DEF Grounds, Own, Unaccounted, AuditEvent, AuditTarget, store

\* A step that leaves tables and lock alone, of a request that holds no lock:
\* what is left to show are its own grounds.
LEMMA QuietGrounds ==
    ASSUME RInv, NEW r \in Requests, r # writer, IInv', UNCHANGED <<store, lock>>,
           OthersStay(r), Grounds(r)'
    PROVE  RInv'
  <1>1. \A x \in Requests : Grounds(x)'
    <2> SUFFICES ASSUME NEW x \in Requests, x # r PROVE Grounds(x)'
      OBVIOUS
    <2>1. pc'[x] = pc[x] /\ event'[x] = event[x] /\ req'[x] = req[x] /\ Grounds(x)
      BY DEF OthersStay, RInv
    <2> QED BY <2>1, GroundsKept
  <1>2. Pending'
    <2>1. writer \in Requests \cup {NoRequest} /\ Pending
      BY DEF RInv, IInv, TypeOK, TablesTyped
    <2>2. writer # NoRequest => pc'[writer] = pc[writer] /\ event'[writer] = event[writer]
                                /\ req'[writer] = req[writer]
      BY <2>1 DEF OthersStay
    <2> QED BY <2>1, <2>2 DEF Pending, Effect, NewRow, AuditEvent, AuditTarget, store, lock
  <1> QED BY <1>1, <1>2 DEF RInv

LEMMA ReceiveGrounds ==
    ASSUME RInv, NEW r \in Requests, Receive(r), IInv'
    PROVE  RInv'
  <1>1. PICK q \in Inputs :
            \/ RefuseUnidentified(r, q) \/ DenyRevoked(r, q) \/ DenyUnauthorized(r, q)
            \/ Admit(r, q) \/ Whoami(r, q)
    BY DEF Receive
  <1>2. HandlersTyped /\ pc[r] = "idle" /\ req' = [req EXCEPT ![r] = q]
        /\ UNCHANGED <<store, lock>>
    BY <1>1 DEF RInv, IInv, TypeOK, RefuseUnidentified, DenyRevoked, DenyUnauthorized,
       Admit, Whoami, Arrive
  <1>3. r # writer /\ Unaccounted(r)'
    BY <1>2, WriterPosition DEF RInv, Grounds, Unaccounted, store
  <1>4. \/ pc' = [pc EXCEPT ![r] = "done"] /\ UNCHANGED event
        \/ /\ pc' = [pc EXCEPT ![r] = "record"]
           /\ \E e \in {"revoked", "unauthorized"} : event' = [event EXCEPT ![r] = e]
        \/ /\ pc' = [pc EXCEPT ![r] = "select"] /\ UNCHANGED event
           /\ q.op = "register" => MayRegister(q)
    BY <1>1 DEF RefuseUnidentified, DenyRevoked, DenyUnauthorized, Admit, Whoami, Answer
  <1>5. req'[r] = q /\ OthersStay(r)
    BY <1>2, <1>4 DEF HandlersTyped, OthersStay
  <1>6. \/ pc'[r] = "done"
        \/ pc'[r] = "record" /\ event'[r] \in {"revoked", "unauthorized"}
        \/ pc'[r] = "select" /\ (q.op = "register" => MayRegister(q))
    BY <1>2, <1>4 DEF HandlersTyped
  <1>7. Grounds(r)'
    BY <1>3, <1>5, <1>6 DEF Grounds, MayRegister, IdentityCN, Bypassed
  <1> QED BY <1>2, <1>3, <1>5, <1>7, QuietGrounds

\* The handler steps that only read, decide or answer.
LEMMA ReadGrounds ==
    ASSUME RInv, NEW r \in Requests, IInv',
           \/ Read(r) \/ LookUpForRegister(r) \/ LookUpForHeartbeat(r)
           \/ DuplicateInsert(r) \/ Refresh(r)
    PROVE  RInv'
  <1> USE DEF Answer, Goto
  <1>1. HandlersTyped /\ Grounds(r) /\ pc[r] \in {"select", "insert", "refresh"}
        /\ req' = req /\ UNCHANGED <<store, lock>>
    BY DEF RInv, IInv, TypeOK, Read, ListNodes, ListAuditEvents, GetNode,
           LookUpForRegister, LookUpForHeartbeat, DuplicateInsert, Refresh
  <1>2. r # writer
    BY <1>1, WriterPosition DEF RInv
  <1>3. \/ pc' = [pc EXCEPT ![r] = "done"] /\ UNCHANGED event
        \/ LookUpForRegister(r) /\ pc' = [pc EXCEPT ![r] = "insert"]
                                /\ event' = [event EXCEPT ![r] = "none"]
        \/ LookUpForHeartbeat(r) /\ pc' = [pc EXCEPT ![r] = "record"]
                                 /\ event' = [event EXCEPT ![r] = "mismatch"]
        \/ /\ LookUpForHeartbeat(r) /\ pc' = [pc EXCEPT ![r] = "record"]
           /\ event' = [event EXCEPT ![r] = "activated"]
           /\ Own(r)
        \/ LookUpForHeartbeat(r) /\ pc' = [pc EXCEPT ![r] = "commit"]
                                 /\ event' = [event EXCEPT ![r] = "none"]
    BY DEF Read, ListNodes, ListAuditEvents, GetNode,
           LookUpForRegister, LookUpForHeartbeat, DuplicateInsert, Refresh, Own
  <1>4. OthersStay(r)
    BY <1>1, <1>3 DEF HandlersTyped, OthersStay
  <1>5. \/ pc'[r] = "done"
        \/ pc'[r] = "insert" /\ pc[r] = "select" /\ req[r].op = "register"
        \/ /\ pc'[r] \in {"record", "commit"} /\ pc[r] = "select"
           /\ event'[r] = "mismatch" \/ event'[r] = "none" \/ (event'[r] = "activated" /\ Own(r))
           /\ pc'[r] = "commit" => event'[r] = "none"
    BY <1>1, <1>3 DEF HandlersTyped, LookUpForRegister, LookUpForHeartbeat
  <1>6. Own(r) => Own(r)'
    BY <1>1 DEF Own, store
  <1>7. Unaccounted(r) => Unaccounted(r)'
    BY <1>1 DEF Unaccounted, store
  <1>8. Grounds(r)'
    BY <1>1, <1>5, <1>6, <1>7 DEF Grounds, MayRegister, IdentityCN, Bypassed
  <1> QED BY <1>1, <1>2, <1>4, <1>8, QuietGrounds

\* The INSERT: the transaction holds the new row and nothing else.
LEMMA InsertGrounds ==
    ASSUME RInv, NEW r \in Requests, InsertNode(r), IInv'
    PROVE  RInv'
  <1>1. HandlersTyped /\ TablesTyped /\ Grounds(r) /\ pc[r] = "insert" /\ req' = req
        /\ UNCHANGED store /\ writer' = r /\ nodes[req[r].node] = NoNode
    BY DEF RInv, IInv, TypeOK, InsertNode, UniqueNodeId
  <1>2. pc'[r] = "record" /\ event'[r] = "registered" /\ OthersStay(r)
    BY <1>1 DEF InsertNode, Goto, HandlersTyped, OthersStay
  <1>3. \A x \in Requests : Grounds(x)'
    <2>1. Grounds(r)'
      BY <1>1, <1>2 DEF Grounds, Unaccounted, MayRegister, store
    <2>2. ASSUME NEW x \in Requests, x # r PROVE Grounds(x)'
      BY <1>1, <1>2, <2>2, GroundsKept DEF OthersStay, RInv
    <2> QED BY <2>1, <2>2
  <1>4. Pending'
    <2>1. txn'.nodes = [nodes EXCEPT ![req[r].node] = NewRow(r)] /\ txn'.audit = audit_events
      BY <1>1 DEF InsertNode, NewRow, Committed
    <2>2. Effect(r)' = [nodes EXCEPT ![req[r].node] = NewRow(r)]
      BY <1>1, <1>2 DEF Effect, NewRow, store
    <2> QED BY <1>1, <1>2, <2>1, <2>2 DEF Pending, store
  <1> QED BY <1>3, <1>4 DEF RInv

\* record_event: the transaction holds the request's effect and its row.
LEMMA RecordGrounds ==
    ASSUME RInv, NEW r \in Requests, RecordEvent(r), IInv'
    PROVE  RInv'
  <1>1. HandlersTyped /\ TablesTyped /\ Grounds(r) /\ pc[r] = "record" /\ req' = req
        /\ UNCHANGED store /\ writer' = r /\ writer \in {NoRequest, r} /\ r # NoRequest
    BY NullsAssumption DEF RInv, IInv, TypeOK, RecordEvent, MayWrite
  <1>2. pc'[r] = "commit" /\ event'[r] = event[r] /\ OthersStay(r)
    BY <1>1 DEF RecordEvent, Goto, HandlersTyped, OthersStay
  <1>3. AuditEvent(r) \in AuditRow
    BY <1>1, AuditEventTyped DEF RInv
  <1>4. AuditEvent(r)' = AuditEvent(r) /\ Effect(r)' = Effect(r)
    BY <1>1, <1>2 DEF AuditEvent, AuditTarget, Effect, NewRow, store
  <1>5. \A x \in Requests : Grounds(x)'
    <2>1. Grounds(r)'
      BY <1>1, <1>2, <1>3, <1>4 DEF Grounds, Own, Unaccounted, MayRegister, store
    <2>2. ASSUME NEW x \in Requests, x # r PROVE Grounds(x)'
      BY <1>1, <1>2, <2>2, GroundsKept DEF OthersStay, RInv
    <2> QED BY <2>1, <2>2
  <1>6. txn'.nodes = Effect(r) /\ txn'.audit = Append(audit_events, AuditEvent(r))
        /\ (event[r] = "registered" => nodes[req[r].node] = NoNode)
    <2>1. CASE writer = r
      <3>1. event[r] = "registered"
        BY <1>1, <2>1 DEF RInv, IInv, Transaction
      <3>2. txn.nodes = Effect(r) /\ txn.audit = audit_events /\ nodes[req[r].node] = NoNode
        BY <1>1, <2>1, <3>1 DEF RInv, Pending
      <3> QED BY <3>1, <3>2 DEF RecordEvent
    <2>2. CASE writer # r
      <3>1. txn = Committed /\ event[r] # "registered"
        BY <1>1, <2>2 DEF RInv, IInv, Transaction, Positioned
      <3> QED BY <3>1 DEF RecordEvent, Committed, Effect
    <2> QED BY <2>1, <2>2
  <1>7. Pending'
    BY <1>1, <1>2, <1>4, <1>6 DEF Pending, store
  <1> QED BY <1>5, <1>7 DEF RInv

-----------------------------------------------------------------------------
(* The steps that change the tables, and the failures *)

\* A row that stays its owner's, and that no step takes past active, keeps a
\* pending activation's grounds.
RowKept(n) ==
    nodes[n] # NoNode =>
        /\ nodes'[n] # NoNode
        /\ nodes'[n].common_name = nodes[n].common_name
        /\ nodes[n].state \in {"onboarding", "active"} => nodes'[n].state \in {"onboarding", "active"}

LEMMA GroundsOfOthers ==
    ASSUME NEW x \in Requests, Grounds(x), RowKept(req[x].node),
           Unaccounted(x) => Unaccounted(x)',
           pc'[x] = pc[x], event'[x] = event[x], req'[x] = req[x]
    PROVE  Grounds(x)'
  <1>1. Own(x) => Own(x)'
    BY DEF Own, RowKept
  <1>2. AuditEvent(x)' = AuditEvent(x)
    BY DEF AuditEvent, AuditTarget
  <1> QED BY <1>1, <1>2 DEF Grounds

\* What a COMMIT installs: the effect of its own request, and its row.
LEMMA CommitEffect ==
    ASSUME RInv, NEW r \in Requests, CommitEvent(r)
    PROVE  /\ nodes' = Effect(r)
           /\ audit_events' = Append(audit_events, AuditEvent(r))
           /\ AuditEvent(r) \in AuditRow
           /\ req[r] \in Inputs /\ IdentityCN(req[r]) \in CommonNames
           /\ Unaccounted(r)
           /\ event[r] \in Events
           /\ event[r] = "registered" => nodes[req[r].node] = NoNode /\ MayRegister(req[r])
           /\ event[r] = "activated" => Own(r)
  <1>1. pc[r] = "commit" /\ event[r] # "none" /\ writer = r /\ r # NoRequest
    BY NullsAssumption DEF CommitEvent
  <1>2. Pending /\ Grounds(r) /\ Positioned(r) /\ HandlersTyped
    BY DEF RInv, IInv, TypeOK
  <1>3. nodes' = Effect(r) /\ audit_events' = Append(audit_events, AuditEvent(r))
    BY <1>1, <1>2 DEF Pending, CommitEvent, Durable
  <1>4. event[r] \in Events
    BY <1>1, <1>2 DEF HandlersTyped
  <1>5. req[r] \in Inputs /\ IdentityCN(req[r]) \in CommonNames
    BY <1>1, <1>2 DEF Positioned, Working
  <1>6. /\ AuditEvent(r) \in AuditRow /\ Unaccounted(r)
        /\ event[r] = "registered" => nodes[req[r].node] = NoNode /\ MayRegister(req[r])
        /\ event[r] = "activated" => Own(r)
    BY <1>1, <1>2 DEF Pending, Grounds
  <1> QED BY <1>3, <1>4, <1>5, <1>6

LEMMA CommitGrounds ==
    ASSUME RInv, NEW r \in Requests, CommitEvent(r), IInv'
    PROVE  RInv'
  <1>1. HandlersTyped /\ TablesTyped /\ req' = req /\ writer' = NoRequest
    BY DEF RInv, IInv, TypeOK, CommitEvent
  <1>2. pc'[r] \in {"done", "refresh"} /\ OthersStay(r)
    <2>1. CASE pc' = [pc EXCEPT ![r] = "done"] /\ UNCHANGED event
      BY <1>1, <2>1 DEF HandlersTyped, OthersStay
    <2>2. CASE pc' = [pc EXCEPT ![r] = "refresh"] /\ event' = [event EXCEPT ![r] = event[r]]
      BY <1>1, <2>2 DEF HandlersTyped, OthersStay
    <2> QED BY <2>1, <2>2 DEF CommitEvent, Answer, Goto
  <1>3. ASSUME NEW n \in NodeIds PROVE RowKept(n)
    <2>1. req[r].node \in NodeIds
      BY CommitEffect, InputFields
    <2>2. nodes[n] \in NodeRow \cup {NoNode}
      BY <1>1 DEF TablesTyped
    <2>3. CASE nodes'[n] = nodes[n]
      BY <2>3 DEF RowKept
    <2>4. CASE event[r] = "activated" /\ n = req[r].node /\ nodes'[n] = ActivatedRow(nodes[n])
      <3>1. nodes[n] \in NodeRow
        BY <2>2, <2>4, CommitEffect DEF Own
      <3>2. ActivatedRow(nodes[n]) # NoNode
        BY <3>1, RowsTyped, NoNodeAssumption
      <3>3. /\ ActivatedRow(nodes[n]).common_name = nodes[n].common_name
            /\ ActivatedRow(nodes[n]).state = "active"
        BY <3>1 DEF ActivatedRow, NodeRow
      <3> QED BY <2>4, <3>2, <3>3 DEF RowKept
    <2>5. CASE event[r] = "registered" /\ n = req[r].node
      BY <2>5, CommitEffect DEF RowKept
    <2> QED BY <1>1, <2>1, <2>3, <2>4, <2>5, CommitEffect DEF Effect, TablesTyped
  <1>4. ASSUME NEW x \in Requests, x # r PROVE Unaccounted(x) => Unaccounted(x)'
    <2>1. audit_events' = Append(audit_events, AuditEvent(r)) /\ AuditEvent(r).by = r
          /\ AuditEvent(r) \in AuditRow /\ audit_events \in Seq(AuditRow)
      BY <1>1, CommitEffect DEF AuditEvent, TablesTyped
    <2> QED BY <1>4, <2>1 DEF Unaccounted
  <1>5. ASSUME NEW x \in Requests PROVE Grounds(x)'
    <2>1. CASE x = r
      BY <1>2, <2>1 DEF Grounds
    <2>2. CASE x # r
      <3>1. pc'[x] = pc[x] /\ event'[x] = event[x] /\ req'[x] = req[x] /\ Grounds(x)
        BY <1>2, <2>2 DEF OthersStay, RInv
      <3>2. CASE pc[x] \in Working
        <4>1. req[x].node \in NodeIds
          BY <3>2, InputFields DEF RInv, IInv, Positioned
        <4> QED BY <1>3, <1>4, <2>2, <3>1, <4>1, GroundsOfOthers
      <3>3. CASE pc[x] \notin Working
        BY <1>4, <2>2, <3>1, <3>3 DEF Grounds, Working
      <3> QED BY <3>2, <3>3
    <2> QED BY <2>1, <2>2
  <1>6. Pending'
    BY <1>1 DEF Pending
  <1> QED BY <1>5, <1>6 DEF RInv

LEMMA FreshnessGrounds ==
    ASSUME RInv, NEW r \in Requests, CommitFreshness(r), IInv'
    PROVE  RInv'
  <1>1. HandlersTyped /\ TablesTyped /\ req' = req /\ writer' = NoRequest
        /\ audit_events' = audit_events /\ nodes' = [nodes EXCEPT ![req[r].node] = BeatenRow(@)]
    BY DEF RInv, IInv, TypeOK, CommitFreshness
  <1>2. pc'[r] = "refresh" /\ OthersStay(r)
    BY <1>1 DEF CommitFreshness, Goto, HandlersTyped, OthersStay
  <1>3. req[r].node \in NodeIds /\ nodes[req[r].node] # NoNode
    BY InputFields DEF RInv, IInv, Positioned, Working, CommitFreshness
  <1>4. ASSUME NEW n \in NodeIds PROVE RowKept(n)
    <2>1. CASE n = req[r].node
      <3>1. nodes[n] \in NodeRow /\ nodes'[n] = BeatenRow(nodes[n])
        BY <1>1, <1>3, <2>1 DEF TablesTyped
      <3>2. BeatenRow(nodes[n]) # NoNode
        BY <3>1, RowsTyped, NoNodeAssumption
      <3> QED BY <3>1, <3>2 DEF RowKept, BeatenRow, NodeRow
    <2>2. CASE n # req[r].node
      BY <1>1, <2>2 DEF RowKept, TablesTyped
    <2> QED BY <2>1, <2>2
  <1>5. ASSUME NEW x \in Requests PROVE Grounds(x)'
    <2>1. CASE x = r
      BY <1>2, <2>1 DEF Grounds
    <2>2. CASE x # r
      <3>1. pc'[x] = pc[x] /\ event'[x] = event[x] /\ req'[x] = req[x] /\ Grounds(x)
            /\ (Unaccounted(x) => Unaccounted(x)')
        BY <1>1, <1>2, <2>2 DEF OthersStay, RInv, Unaccounted
      <3>2. CASE pc[x] \in Working
        <4>1. req[x].node \in NodeIds
          BY <3>2, InputFields DEF RInv, IInv, Positioned
        <4> QED BY <1>4, <3>1, <4>1, GroundsOfOthers
      <3>3. CASE pc[x] \notin Working
        BY <3>1, <3>3 DEF Grounds, Working
      <3> QED BY <3>2, <3>3
    <2> QED BY <2>1, <2>2
  <1>6. Pending'
    BY <1>1 DEF Pending
  <1> QED BY <1>5, <1>6 DEF RInv

\* A rollback forgets the request's transaction, or it had none.
LEMMA FailureGrounds ==
    ASSUME RInv, NEW r \in Requests, Busy(r) \/ DbError(r), IInv'
    PROVE  RInv'
  <1>1. HandlersTyped /\ TablesTyped /\ req' = req /\ event' = event /\ UNCHANGED store
        /\ pc' = [pc EXCEPT ![r] = "done"] /\ Rollback(r)
    BY DEF RInv, IInv, TypeOK, Busy, DbError, Answer
  <1>2. pc'[r] = "done" /\ OthersStay(r)
    BY <1>1 DEF HandlersTyped, OthersStay
  <1>3. Grounds(r)'
    BY <1>2 DEF Grounds
  <1>4. CASE writer = r
    <2>1. writer' = NoRequest
      BY <1>1, <1>4 DEF Rollback
    <2>2. ASSUME NEW x \in Requests, x # r PROVE Grounds(x)'
      BY <1>1, <1>2, <2>2, GroundsKept DEF OthersStay, RInv
    <2> QED BY <1>3, <2>1, <2>2 DEF RInv, Pending
  <1>5. CASE writer # r
    BY <1>1, <1>2, <1>3, <1>5, QuietGrounds DEF Rollback
  <1> QED BY <1>4, <1>5

LEMMA CrashGrounds ==
    ASSUME RInv, Crash, IInv'
    PROVE  RInv'
  <1>1. writer' = NoRequest /\ UNCHANGED store
    BY DEF Crash
  <1>2. ASSUME NEW x \in Requests PROVE Grounds(x)'
    <2>1. pc'[x] \in {"done", "lost"} \/ (pc'[x] = "idle" /\ pc[x] = "idle")
      BY DEF Crash
    <2> QED BY <1>1, <2>1 DEF RInv, Grounds, Unaccounted, store
  <1> QED BY <1>1, <1>2 DEF RInv, Pending

LEMMA StutterGrounds ==
    ASSUME RInv, CrlUpdated \/ UNCHANGED vars, IInv'
    PROVE  RInv'
  <1>1. UNCHANGED <<nodes, audit_events, txn, writer, req, pc, event>>
    BY DEF CrlUpdated, vars, store, lock, control
  <1>2. ASSUME NEW x \in Requests PROVE Grounds(x)'
    BY <1>1, GroundsKept DEF RInv, store
  <1>3. Pending'
    BY <1>1 DEF RInv, Pending, Effect, NewRow, AuditEvent, AuditTarget
  <1> QED BY <1>2, <1>3 DEF RInv

\* Every pending write keeps its grounds, in every reachable state.
LEMMA RefinementInvariant == Spec => []RInv
  <1>1. RInv /\ [Next]_vars => RInv'
    <2> SUFFICES ASSUME RInv, [Next]_vars PROVE RInv'
      OBVIOUS
    <2>1. IInv'
      BY StepInvariant DEF RInv
    <2>2. CASE \E r \in Requests : Receive(r) \/ Handle(r) \/ DbError(r)
      BY <2>1, <2>2, ReceiveGrounds, ReadGrounds, InsertGrounds, RecordGrounds,
         CommitGrounds, FreshnessGrounds, FailureGrounds DEF Handle
    <2>3. CASE Crash
      BY <2>1, <2>3, CrashGrounds
    <2>4. CASE CrlUpdated \/ UNCHANGED vars
      BY <2>1, <2>4, StutterGrounds
    <2> QED BY <2>2, <2>3, <2>4 DEF Next
  <1> QED BY InitGrounds, <1>1, PTL DEF Spec

-----------------------------------------------------------------------------
(* The refinement *)

\* The COMMIT of an event is one step of the abstract tables.
LEMMA CommitImplements ==
    ASSUME RInv, NEW r \in Requests, CommitEvent(r)
    PROVE  Registry!Next
  <1> DEFINE q == req[r]
             who == IdentityCN(req[r])
  <1>1. /\ nodes' = Effect(r) /\ Unaccounted(r)
        /\ audit_events' = Append(audit_events, AuditEvent(r))
        /\ AuditEvent(r) \in AuditRow /\ event[r] \in Events
        /\ who \in CommonNames /\ nodes \in [NodeIds -> NodeRow \cup {NoNode}]
    BY CommitEffect DEF RInv, IInv, TypeOK, TablesTyped
  <1>2. q.node \in NodeIds /\ q.cn \in CommonNames /\ q.state \in States
    BY CommitEffect, InputFields
  <1>3. Registry!Note(r, event[r], who, AuditTarget(r))
    BY <1>1 DEF Registry!Note, Registry!Unaccounted, Unaccounted, AuditEvent
  <1>4. CASE event[r] = "registered"
    <2>1. nodes[q.node] = NoNode /\ (who = q.cn \/ who \in ControllerCNs)
      BY <1>4, CommitEffect DEF MayRegister
    <2>2. nodes' = [nodes EXCEPT ![q.node] =
                      [common_name |-> q.cn, state |-> q.state, last_heartbeat |-> FALSE]]
      BY <1>1, <1>4 DEF Effect, NewRow
    <2>3. AuditTarget(r) = q.node
      BY <1>4 DEF AuditTarget
    <2>4. Registry!Register(r, who, q.node, q.cn, q.state)
      BY <1>3, <1>4, <2>1, <2>2, <2>3 DEF Registry!Register
    <2> QED BY <1>1, <1>2, <2>4 DEF Registry!Next
  <1>5. CASE event[r] = "activated"
    <2>1. nodes[q.node] # NoNode /\ nodes[q.node].common_name = who
          /\ nodes[q.node].state \in {"onboarding", "active"}
      BY <1>5, CommitEffect DEF Own
    <2>2. nodes' = [nodes EXCEPT ![q.node].state = "active", ![q.node].last_heartbeat = TRUE]
      <3>1. nodes' = [nodes EXCEPT ![q.node] = ActivatedRow(@)]
        BY <1>1, <1>5 DEF Effect
      <3> QED BY <1>1, <1>2, <3>1 DEF ActivatedRow
    <2>3. AuditTarget(r) = q.node
      BY <1>5 DEF AuditTarget
    <2>4. Registry!Activate(r, q.node)
      BY <1>3, <1>5, <2>1, <2>2, <2>3 DEF Registry!Activate
    <2> QED BY <1>2, <2>4 DEF Registry!Next
  <1>6. CASE event[r] \in Denials
    <2>1. nodes' = nodes
      BY <1>1, <1>6 DEF Effect, Denials
    <2>2. AuditTarget(r) \in NodeIds \cup Serials
      BY <1>1 DEF AuditEvent, AuditRow
    <2>3. Registry!Deny(r, event[r], who, AuditTarget(r))
      BY <1>3, <2>1 DEF Registry!Deny
    <2> QED BY <1>1, <1>6, <2>2, <2>3 DEF Registry!Next, Registry!Denials, Denials
  <1> QED BY <1>1, <1>4, <1>5, <1>6 DEF Events

LEMMA FreshnessImplements ==
    ASSUME RInv, NEW r \in Requests, CommitFreshness(r)
    PROVE  Registry!Next
  <1>1. req[r].node \in NodeIds /\ nodes[req[r].node] # NoNode
        /\ nodes \in [NodeIds -> NodeRow \cup {NoNode}]
    BY InputFields DEF RInv, IInv, TypeOK, TablesTyped, Positioned, Working, CommitFreshness
  <1>2. nodes' = [nodes EXCEPT ![req[r].node].last_heartbeat = TRUE] /\ UNCHANGED audit_events
    BY <1>1 DEF CommitFreshness, BeatenRow
  <1> QED BY <1>1, <1>2 DEF Registry!Next, Registry!Beat

\* The controller's tables, whatever the interleaving of statements, the
\* failures and the crashes, behave as Registry says: a node row and its audit
\* row appear together, one request at a time, one row per request at most.
THEOREM Refinement == Spec => ImplementsRegistry
  <1>1. Init => Registry!Init
    BY DEF Init, Registry!Init
  <1>2. RInv /\ [Next]_vars => [Registry!Next]_(Registry!rvars)
    <2> SUFFICES ASSUME RInv, [Next]_vars, ~UNCHANGED store PROVE Registry!Next
      BY DEF Registry!rvars, store
    <2>1. ~Crash /\ ~CrlUpdated /\ ~UNCHANGED vars
      BY DEF Crash, CrlUpdated, vars, store
    <2>2. PICK r \in Requests : Receive(r) \/ Handle(r) \/ DbError(r)
      BY <2>1 DEF Next
    <2>3. CommitEvent(r) \/ CommitFreshness(r)
      BY <2>2 DEF Receive, RefuseUnidentified, DenyRevoked, DenyUnauthorized, Admit, Whoami,
         Handle, Read, ListNodes, ListAuditEvents, GetNode,
         LookUpForRegister, LookUpForHeartbeat, InsertNode, DuplicateInsert,
         RecordEvent, Refresh, Busy, DbError
    <2> QED BY <2>3, CommitImplements, FreshnessImplements
  <1> QED BY RefinementInvariant, <1>1, <1>2, PTL DEF Spec, ImplementsRegistry, Registry!Spec
=============================================================================
