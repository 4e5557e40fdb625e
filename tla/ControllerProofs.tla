-------------------------- MODULE ControllerProofs --------------------------
(* Type correctness and AuditedRegistration of Controller, for every set of   *)
(* requests, inputs, nodes and names.                                          *)
EXTENDS Controller, TLAPS

Working == {"select", "insert", "record", "commit", "refresh"}

(***************************************************************************)
(* What a handler's position says.  A request past its arrival has an      *)
(* identity; a pending event has the data its row needs; a heartbeat that  *)
(* found its node still has it, since rows are never deleted.              *)
(***************************************************************************)
Positioned(r) ==
    /\ pc[r] \in Working => req[r] \in Inputs /\ IdentityCN(req[r]) \in CommonNames
    /\ pc[r] = "record" =>
          /\ event[r] \in Events
          /\ event[r] = "revoked" => req[r].serial \in Serials
          /\ event[r] = "activated" => nodes[req[r].node] # NoNode
          /\ event[r] = "registered" => writer = r
    /\ pc[r] = "commit" /\ event[r] = "none" => nodes[req[r].node] # NoNode

(***************************************************************************)
(* What the open transaction holds: between the INSERT of a node and its   *)
(* audit row it is one row ahead of the committed tables, and at its       *)
(* commit it is consistent again.                                          *)
(***************************************************************************)
Ahead(r) ==
    /\ nodes[req[r].node] = NoNode
    /\ txn.audit = audit_events
    /\ \E row \in NodeRow : txn.nodes = [nodes EXCEPT ![req[r].node] = row]

Transaction ==
    /\ writer = NoRequest => txn = Committed
    /\ \A n \in NodeIds : nodes[n] # NoNode => txn.nodes[n] # NoNode
    /\ writer # NoRequest => pc[writer] \in {"record", "commit"} /\ event[writer] # "none"
    /\ writer # NoRequest /\ pc[writer] = "record" =>
          event[writer] = "registered" /\ Ahead(writer)
    /\ writer # NoRequest /\ pc[writer] = "commit" => Matches(txn.nodes, txn.audit)

IInv ==
    /\ TypeOK
    /\ \A r \in Requests : Positioned(r)
    /\ Transaction
    /\ AuditedRegistration

-----------------------------------------------------------------------------
(* Audit rows and registrations *)

\* A row that is not a registration leaves every node's registrations alone.
LEMMA AppendOther ==
    ASSUME NEW rows \in Seq(AuditRow), NEW row \in AuditRow, NEW n,
           row.event # "registered" \/ row.target # n
    PROVE  Registrations(Append(rows, row), n) = Registrations(rows, n)
  BY DEF Registrations

\* A registration of n is the one at the end when there was none.
LEMMA AppendRegistration ==
    ASSUME NEW rows \in Seq(AuditRow), NEW row \in AuditRow, NEW n,
           row.event = "registered", row.target = n,
           Registrations(rows, n) = {}
    PROVE  Registrations(Append(rows, row), n) = {Len(rows) + 1}
  BY DEF Registrations

\* Appending a row that is no registration keeps tables matched, as long as the
\* same nodes exist.
LEMMA MatchesOther ==
    ASSUME NEW ns, NEW ms, NEW rows \in Seq(AuditRow), NEW row \in AuditRow,
           row.event # "registered",
           \A n \in NodeIds : (ms[n] = NoNode) <=> (ns[n] = NoNode),
           Matches(ns, rows)
    PROVE  Matches(ms, Append(rows, row))
  <1> SUFFICES ASSUME NEW n \in NodeIds
               PROVE  /\ ms[n] = NoNode => Registrations(Append(rows, row), n) = {}
                      /\ ms[n] # NoNode => \E i \in DOMAIN Append(rows, row) :
                                             Registrations(Append(rows, row), n) = {i}
    BY DEF Matches
  <1>1. Registrations(Append(rows, row), n) = Registrations(rows, n)
    BY AppendOther
  <1>2. DOMAIN rows \subseteq DOMAIN Append(rows, row)
    OBVIOUS
  <1> QED BY <1>1, <1>2 DEF Matches

\* Appending the registration of a node that has just been added, too.
LEMMA MatchesRegistration ==
    ASSUME NEW ns, NEW ms, NEW rows \in Seq(AuditRow), NEW row \in AuditRow,
           NEW k \in NodeIds,
           row.event = "registered", row.target = k,
           ns[k] = NoNode, ms[k] # NoNode,
           \A n \in NodeIds \ {k} : ms[n] = ns[n],
           Matches(ns, rows)
    PROVE  Matches(ms, Append(rows, row))
  <1> SUFFICES ASSUME NEW n \in NodeIds
               PROVE  /\ ms[n] = NoNode => Registrations(Append(rows, row), n) = {}
                      /\ ms[n] # NoNode => \E i \in DOMAIN Append(rows, row) :
                                             Registrations(Append(rows, row), n) = {i}
    BY DEF Matches
  <1>0. /\ Len(rows) + 1 \in DOMAIN Append(rows, row)
        /\ DOMAIN rows \subseteq DOMAIN Append(rows, row)
    OBVIOUS
  <1>1. CASE n = k
    <2>1. Registrations(rows, k) = {}
      BY DEF Matches
    <2>2. Registrations(Append(rows, row), k) = {Len(rows) + 1}
      BY <2>1, AppendRegistration
    <2> QED BY <1>0, <1>1, <2>2
  <1>2. CASE n # k
    <2>1. Registrations(Append(rows, row), n) = Registrations(rows, n)
      BY <1>2, AppendOther
    <2> QED BY <1>0, <1>2, <2>1 DEF Matches
  <1> QED BY <1>1, <1>2

-----------------------------------------------------------------------------
(* Typing of what the handlers write *)

LEMMA InputFields ==
    ASSUME NEW q \in Inputs
    PROVE  /\ q.node \in NodeIds /\ q.cn \in CommonNames /\ q.state \in States
           /\ q.op \in Ops /\ q.serial \in Serials \cup {NoSerial}
           /\ q.verify \in {"absent", "SUCCESS", "FAILED"}
           /\ q.dn \in CommonNames \cup {"absent", "no_cn"}
  BY InputsAssumption DEF InputType

LEMMA IdentityTyped ==
    ASSUME NEW q \in Inputs, Identified(q)
    PROVE  IdentityCN(q) \in CommonNames
  BY InputFields, NamesAssumption DEF Identified, RefusalStatus, IdentityCN, Bypassed

LEMMA StatusTyped ==
    ASSUME NEW q \in Inputs
    PROVE  RefusalStatus(q) \in {0, 400, 401, 403}
  BY DEF RefusalStatus

LEMMA RowsTyped ==
    ASSUME NEW row \in NodeRow
    PROVE  ActivatedRow(row) \in NodeRow /\ BeatenRow(row) \in NodeRow
  BY DEF ActivatedRow, BeatenRow, NodeRow, States

LEMMA AuditEventTyped ==
    ASSUME IInv, NEW r \in Requests, pc[r] = "record"
    PROVE  AuditEvent(r) \in AuditRow
  BY InputFields DEF IInv, Positioned, Working, AuditEvent, AuditTarget, AuditRow

-----------------------------------------------------------------------------
(* The inductive invariant *)

LEMMA InitInvariant == Init => IInv
  <1> SUFFICES ASSUME Init PROVE IInv
    OBVIOUS
  <1>1. TypeOK
    BY DEF Init, TypeOK, TablesTyped, HandlersTyped, TrailTyped, Committed
  <1>2. \A r \in Requests : Positioned(r)
    BY DEF Init, Positioned, Working
  <1>3. Transaction
    BY DEF Init, Transaction, Committed
  <1>4. AuditedRegistration
    BY DEF Init, AuditedRegistration, Matches, Registrations
  <1> QED BY <1>1, <1>2, <1>3, <1>4 DEF IInv

OthersStay(r) ==
    \A x \in Requests \ {r} :
        pc'[x] = pc[x] /\ event'[x] = event[x] /\ req'[x] = req[x]

\* A step of one request that neither holds the lock nor touches the tables:
\* what is left to show is its own position and answer.
LEMMA QuietStep ==
    ASSUME IInv, NEW r \in Requests, r # writer,
           UNCHANGED <<store, lock, counter, booted, revoked_serials>>,
           OthersStay(r), TypeOK', Positioned(r)'
    PROVE  IInv'
  <1>1. ASSUME NEW x \in Requests, x # r
        PROVE  pc'[x] = pc[x] /\ event'[x] = event[x] /\ req'[x] = req[x]
    BY <1>1 DEF OthersStay
  <1>2. \A x \in Requests : Positioned(x)'
    <2> SUFFICES ASSUME NEW x \in Requests, x # r PROVE Positioned(x)'
      OBVIOUS
    <2>1. Positioned(x)
      BY DEF IInv
    <2> QED BY <1>1, <2>1 DEF Positioned, store, lock
  <1>3. writer \in Requests \cup {NoRequest}
    BY DEF IInv, TypeOK, TablesTyped, HandlersTyped
  <1>4. Transaction'
    <2>1. Transaction
      BY DEF IInv
    <2> QED BY <1>1, <1>3, <2>1 DEF Transaction, Ahead, Committed, store, lock
  <1>5. AuditedRegistration'
    BY DEF IInv, AuditedRegistration, store
  <1> QED BY <1>2, <1>4, <1>5 DEF IInv

\* Only a request between its INSERT or its audit row and its commit writes.
LEMMA WriterPosition ==
    ASSUME IInv, NEW r \in Requests, pc[r] \notin {"record", "commit"}
    PROVE  r # writer
  BY NullsAssumption DEF IInv, Transaction

LEMMA ReceiveInvariant ==
    ASSUME IInv, NEW r \in Requests, Receive(r)
    PROVE  IInv'
  <1>1. PICK q \in Inputs :
            \/ RefuseUnidentified(r, q) \/ DenyRevoked(r, q) \/ DenyUnauthorized(r, q)
            \/ Admit(r, q) \/ Whoami(r, q)
    BY DEF Receive
  <1>2. TypeOK /\ r # writer /\ pc[r] = "idle"
    BY <1>1, WriterPosition DEF IInv, RefuseUnidentified, DenyRevoked, DenyUnauthorized,
       Admit, Whoami, Arrive
  <1> USE DEF Arrive, Answer, OthersStay
  <1>3. CASE RefuseUnidentified(r, q)
    <2>1. TypeOK' /\ Positioned(r)' /\ OthersStay(r)
      BY <1>2, <1>3, StatusTyped DEF RefuseUnidentified, TypeOK, TablesTyped, HandlersTyped, TrailTyped, Positioned, Working, store, lock, trail
    <2> QED BY <1>2, <1>3, <2>1, QuietStep DEF RefuseUnidentified, trail
  <1>4. CASE DenyRevoked(r, q)
    <2>1. TypeOK'
      BY <1>2, <1>4 DEF DenyRevoked, TypeOK, TablesTyped, HandlersTyped, TrailTyped, store, lock, trail, Events, Denials
    <2>2. q.serial \in Serials
      BY <1>2, <1>4 DEF DenyRevoked, Revoked, IdentitySerial, TypeOK, TablesTyped, HandlersTyped, TrailTyped
    <2>3. Positioned(r)' /\ OthersStay(r)
      BY <1>2, <1>4, <2>2, IdentityTyped
      DEF DenyRevoked, TypeOK, TablesTyped, HandlersTyped, Positioned, Working, Events, Denials, store, lock
    <2> QED BY <1>2, <1>4, <2>1, <2>3, QuietStep DEF DenyRevoked, trail
  <1>5. CASE DenyUnauthorized(r, q)
    <2>1. TypeOK'
      BY <1>2, <1>5 DEF DenyUnauthorized, TypeOK, TablesTyped, HandlersTyped, TrailTyped, store, lock, trail, Events, Denials
    <2>2. Positioned(r)' /\ OthersStay(r)
      BY <1>2, <1>5, IdentityTyped
      DEF DenyUnauthorized, TypeOK, TablesTyped, HandlersTyped, Positioned, Working, Events, Denials, store, lock
    <2> QED BY <1>2, <1>5, <2>1, <2>2, QuietStep DEF DenyUnauthorized, trail
  <1>6. CASE Admit(r, q)
    <2>1. TypeOK' /\ Positioned(r)' /\ OthersStay(r)
      BY <1>2, <1>6, IdentityTyped
      DEF Admit, TypeOK, TablesTyped, HandlersTyped, TrailTyped, Positioned, Working, store, lock, trail
    <2> QED BY <1>2, <1>6, <2>1, QuietStep DEF Admit, trail
  <1>7. CASE Whoami(r, q)
    <2>1. TypeOK' /\ Positioned(r)' /\ OthersStay(r)
      BY <1>2, <1>7 DEF Whoami, TypeOK, TablesTyped, HandlersTyped, TrailTyped, Positioned, Working, store, lock, trail
    <2> QED BY <1>2, <1>7, <2>1, QuietStep DEF Whoami, trail
  <1> QED BY <1>1, <1>3, <1>4, <1>5, <1>6, <1>7

\* The handler steps that only read, decide or answer.
LEMMA ReadInvariant ==
    ASSUME IInv, NEW r \in Requests,
           \/ Read(r) \/ LookUpForRegister(r) \/ LookUpForHeartbeat(r)
           \/ DuplicateInsert(r) \/ Refresh(r)
    PROVE  IInv'
  <1> USE DEF Answer, Goto, OthersStay
  <1>1. TypeOK /\ Positioned(r) /\ pc[r] \in {"select", "insert", "refresh"}
    BY DEF IInv, Read, LookUpForRegister, LookUpForHeartbeat, DuplicateInsert, Refresh
  <1>2. r # writer
    BY <1>1, WriterPosition
  <1>3. CASE Read(r)
    <2>1. UNCHANGED <<store, lock, req, event, trail, revoked_serials>>
      BY <1>3 DEF Read
    <2>2. PICK code \in {200, 404} : Answer(r, code)
      BY <1>3 DEF Read, ListNodes, ListAuditEvents, GetNode
    <2>3. TypeOK' /\ Positioned(r)' /\ OthersStay(r)
      BY <1>1, <2>1, <2>2 DEF TypeOK, TablesTyped, HandlersTyped, TrailTyped, Positioned,
                              Working, store, lock, trail
    <2> QED BY <1>2, <2>1, <2>3, QuietStep DEF trail
  <1>4. CASE LookUpForRegister(r)
    <2>1. UNCHANGED <<store, lock, counter, booted, revoked_serials>> /\ req' = req
      BY <1>4 DEF LookUpForRegister, trail
    <2>2. TypeOK'
      <3>1. TablesTyped' /\ TrailTyped'
        BY <1>1, <2>1 DEF TypeOK, TablesTyped, TrailTyped, store, lock
      <3>2. HandlersTyped'
        <4>1. CASE pc' = [pc EXCEPT ![r] = "done"] /\ UNCHANGED event
          BY <1>1, <1>4, <2>1, <4>1 DEF LookUpForRegister, TypeOK, HandlersTyped
        <4>2. CASE pc' = [pc EXCEPT ![r] = "insert"] /\ UNCHANGED status
          BY <1>1, <1>4, <2>1, <4>2 DEF LookUpForRegister, TypeOK, HandlersTyped
        <4> QED BY <1>4, <4>1, <4>2 DEF LookUpForRegister
      <3> QED BY <3>1, <3>2 DEF TypeOK
    <2>3. pc'[r] \in {"done", "insert"}
      BY <1>1, <1>4 DEF LookUpForRegister, TypeOK, TablesTyped, HandlersTyped
    <2>4. Positioned(r)'
      BY <1>1, <2>1, <2>3 DEF Positioned, Working
    <2>5. OthersStay(r)
      BY <1>1, <1>4, <2>1 DEF LookUpForRegister, TypeOK, TablesTyped, HandlersTyped
    <2> QED BY <1>2, <2>1, <2>2, <2>4, <2>5, QuietStep
  <1>5. CASE LookUpForHeartbeat(r)
    <2>1. UNCHANGED <<store, lock, counter, booted, revoked_serials>> /\ req' = req
      BY <1>5 DEF LookUpForHeartbeat, trail
    <2>2. TypeOK'
      <3>1. TablesTyped' /\ TrailTyped'
        BY <1>1, <2>1 DEF TypeOK, TablesTyped, TrailTyped, store, lock
      <3>2. HandlersTyped'
        <4>1. CASE pc' = [pc EXCEPT ![r] = "done"] /\ UNCHANGED event
          BY <1>1, <1>5, <2>1, <4>1 DEF LookUpForHeartbeat, TypeOK, HandlersTyped
        <4>2. CASE /\ UNCHANGED status
                   /\ \E p \in {"record", "commit"}, e \in {"mismatch", "activated", "none"} :
                        /\ pc' = [pc EXCEPT ![r] = p]
                        /\ event' = [event EXCEPT ![r] = e]
          BY <1>1, <2>1, <4>2 DEF TypeOK, HandlersTyped, Events, Denials
        <4> QED BY <1>5, <4>1, <4>2 DEF LookUpForHeartbeat
      <3> QED BY <3>1, <3>2 DEF TypeOK
    <2>3. \/ pc'[r] = "done"
          \/ pc'[r] = "record" /\ event'[r] = "mismatch"
          \/ pc'[r] = "record" /\ event'[r] = "activated" /\ nodes[req[r].node] # NoNode
          \/ pc'[r] = "commit" /\ nodes[req[r].node] # NoNode
      BY <1>1, <1>5 DEF LookUpForHeartbeat, TypeOK, TablesTyped, HandlersTyped
    <2>4. Positioned(r)'
      BY <1>1, <2>1, <2>3 DEF Positioned, Working, Events, Denials, store
    <2>5. OthersStay(r)
      BY <1>1, <1>5, <2>1 DEF LookUpForHeartbeat, TypeOK, TablesTyped, HandlersTyped
    <2> QED BY <1>2, <2>1, <2>2, <2>4, <2>5, QuietStep
  <1>6. CASE DuplicateInsert(r)
    <2>1. TypeOK' /\ Positioned(r)' /\ OthersStay(r)
      BY <1>1, <1>6 DEF DuplicateInsert, TypeOK, TablesTyped, HandlersTyped, TrailTyped, Positioned, Working, store, lock, trail
    <2> QED BY <1>2, <1>6, <2>1, QuietStep DEF DuplicateInsert, trail
  <1>7. CASE Refresh(r)
    <2>1. TypeOK' /\ Positioned(r)' /\ OthersStay(r)
      BY <1>1, <1>7 DEF Refresh, TypeOK, TablesTyped, HandlersTyped, TrailTyped, Positioned, Working, store, lock, trail
    <2> QED BY <1>2, <1>7, <2>1, QuietStep DEF Refresh, trail
  <1> QED BY <1>3, <1>4, <1>5, <1>6, <1>7

\* The INSERT opens the transaction: one node ahead of the committed tables.
LEMMA InsertInvariant ==
    ASSUME IInv, NEW r \in Requests, InsertNode(r)
    PROVE  IInv'
  <1> DEFINE n == req[r].node
             row == [common_name |-> req[r].cn, state |-> req[r].state, last_heartbeat |-> FALSE]
  <1>1. TypeOK /\ Transaction /\ AuditedRegistration /\ req[r] \in Inputs
    BY DEF IInv, InsertNode, Positioned, Working
  <1>2. n \in NodeIds /\ row \in NodeRow /\ nodes[n] = NoNode
    BY <1>1, InputFields DEF InsertNode, UniqueNodeId, NodeRow
  <1>3. txn' = [nodes |-> [nodes EXCEPT ![n] = row], audit |-> audit_events]
    BY DEF InsertNode, Committed
  <1>4. TypeOK'
    <2>1. TablesTyped'
      <3>1. nodes \in [NodeIds -> NodeRow \cup {NoNode}] /\ audit_events \in Seq(AuditRow)
        BY <1>1 DEF TypeOK, TablesTyped
      <3>2. writer' \in Requests /\ nodes' = nodes /\ audit_events' = audit_events
        BY DEF InsertNode, store
      <3> HIDE DEF n, row
      <3>3. [nodes EXCEPT ![n] = row] \in [NodeIds -> NodeRow \cup {NoNode}]
        BY <1>2, <3>1
      <3> QED BY <1>3, <3>1, <3>2, <3>3 DEF TablesTyped
    <2>2. HandlersTyped'
      BY <1>1 DEF TypeOK, HandlersTyped, InsertNode, Goto, Events
    <2>3. TrailTyped'
      BY <1>1 DEF TypeOK, TrailTyped, InsertNode, trail
    <2> QED BY <2>1, <2>2, <2>3 DEF TypeOK
  <1>5. ASSUME NEW x \in Requests PROVE Positioned(x)'
    <2>1. Positioned(x) /\ Positioned(r)
      BY DEF IInv
    <2>2. writer = NoRequest /\ writer' = r /\ nodes' = nodes /\ req' = req
      BY DEF InsertNode, store
    <2>3. CASE x = r
      <3>1. pc'[x] = "record" /\ event'[x] = "registered"
        BY <1>1, <2>3 DEF InsertNode, Goto, TypeOK, TablesTyped, HandlersTyped
      <3> QED BY <1>1, <2>1, <2>2, <2>3, <3>1 DEF Positioned, InsertNode, Working, Events
    <2>4. CASE x # r
      <3>1. pc'[x] = pc[x] /\ event'[x] = event[x]
        BY <1>1, <2>4 DEF InsertNode, Goto, TypeOK, TablesTyped, HandlersTyped
      <3> QED BY <2>1, <2>2, <3>1, NullsAssumption DEF Positioned
    <2> QED BY <2>3, <2>4
  <1>6. Transaction'
    <2>1. pc'[r] = "record" /\ event'[r] = "registered" /\ writer' = r /\ req' = req
      BY <1>1 DEF InsertNode, Goto, TypeOK, TablesTyped, HandlersTyped
    <2>2. Ahead(r)'
      BY <1>2, <1>3, <2>1 DEF Ahead, InsertNode, store
    <2>3. \A m \in NodeIds : nodes'[m] # NoNode => txn'.nodes[m] # NoNode
      BY <1>1, <1>2, <1>3, NoNodeAssumption DEF InsertNode, store, TypeOK, TablesTyped, HandlersTyped
    <2> QED BY <2>1, <2>2, <2>3, NullsAssumption DEF Transaction
  <1>7. AuditedRegistration'
    BY <1>1 DEF AuditedRegistration, InsertNode, store
  <1> QED BY <1>4, <1>5, <1>6, <1>7 DEF IInv

\* The audit row: with it the transaction is consistent again.
LEMMA RecordInvariant ==
    ASSUME IInv, NEW r \in Requests, RecordEvent(r)
    PROVE  IInv'
  <1> DEFINE n == req[r].node
             row == AuditEvent(r)
  <1>1. TypeOK /\ Transaction /\ AuditedRegistration /\ req[r] \in Inputs
        /\ pc[r] = "record" /\ event[r] \in Events /\ writer \in {NoRequest, r}
    BY DEF IInv, RecordEvent, MayWrite, Positioned, Working
  <1>2. n \in NodeIds /\ row \in AuditRow
    BY <1>1, InputFields, AuditEventTyped
  <1>3. Matches(txn'.nodes, txn'.audit)
    <2>1. CASE event[r] = "registered"
      <3>1. writer = r /\ r # NoRequest
        BY <1>1, <2>1, NullsAssumption DEF IInv, Positioned
      <3>2. Ahead(r)
        BY <1>1, <3>1 DEF Transaction
      <3>3. row.event = "registered" /\ row.target = n
        BY <2>1 DEF AuditEvent, AuditTarget
      <3>4. PICK new \in NodeRow : txn.nodes = [nodes EXCEPT ![n] = new]
        BY <3>2 DEF Ahead
      <3>5. txn.nodes[n] # NoNode /\ \A m \in NodeIds \ {n} : txn.nodes[m] = nodes[m]
        BY <1>1, <1>2, <3>4, NoNodeAssumption DEF TypeOK, TablesTyped, HandlersTyped
      <3>6. txn' = [nodes |-> txn.nodes, audit |-> Append(audit_events, row)]
        BY <2>1, <3>2 DEF RecordEvent, Ahead
      <3>7. nodes[n] = NoNode /\ audit_events \in Seq(AuditRow) /\ Matches(nodes, audit_events)
        BY <1>1, <3>2 DEF Ahead, TypeOK, TablesTyped, HandlersTyped, AuditedRegistration
      <3> HIDE DEF row, n
      <3>8. Matches(txn.nodes, Append(audit_events, row))
        BY <1>2, <3>3, <3>5, <3>7, MatchesRegistration
      <3> QED BY <3>6, <3>8
    <2>2. CASE event[r] # "registered"
      <3>1. txn = Committed
        BY <1>1, <2>2, NullsAssumption DEF Transaction
      <3>2. row.event # "registered"
        BY <2>2 DEF AuditEvent
      <3>3. txn'.audit = Append(audit_events, row)
        BY <3>1 DEF RecordEvent, Committed
      <3>4. \A m \in NodeIds : (txn'.nodes[m] = NoNode) <=> (nodes[m] = NoNode)
        <4>1. event[r] = "activated" => nodes[n] \in NodeRow
          BY <1>1, <1>2 DEF IInv, Positioned, TypeOK, TablesTyped, HandlersTyped
        <4> HIDE DEF n
        <4>2. CASE event[r] = "activated"
          <5>1. txn'.nodes = [nodes EXCEPT ![n] = ActivatedRow(@)]
            BY <3>1, <4>2 DEF RecordEvent, Committed, n
          <5>2. ActivatedRow(nodes[n]) \in NodeRow
            BY <4>1, <4>2, RowsTyped
          <5> QED BY <1>1, <1>2, <4>1, <4>2, <5>1, <5>2, NoNodeAssumption DEF TypeOK, TablesTyped
        <4>3. CASE event[r] # "activated"
          BY <3>1, <4>3 DEF RecordEvent, Committed
        <4> QED BY <4>2, <4>3
      <3>5. audit_events \in Seq(AuditRow) /\ Matches(nodes, audit_events)
        BY <1>1 DEF TypeOK, TablesTyped, HandlersTyped, AuditedRegistration
      <3> HIDE DEF row, n
      <3>6. Matches(txn'.nodes, Append(audit_events, row))
        BY <1>2, <3>2, <3>4, <3>5, MatchesOther
      <3> QED BY <3>3, <3>6
    <2> QED BY <2>1, <2>2
  <1>4. TypeOK'
    <2>1. TablesTyped'
      <3>1. /\ nodes \in [NodeIds -> NodeRow \cup {NoNode}] /\ audit_events \in Seq(AuditRow)
            /\ txn.nodes \in [NodeIds -> NodeRow \cup {NoNode}] /\ txn.audit \in Seq(AuditRow)
        BY <1>1 DEF TypeOK, TablesTyped
      <3>2. writer' \in Requests /\ nodes' = nodes /\ audit_events' = audit_events
        BY DEF RecordEvent, store
      <3>3. txn'.nodes \in [NodeIds -> NodeRow \cup {NoNode}]
        <4>1. CASE event[r] = "activated"
          <5>1. txn.nodes[n] \in NodeRow
            BY <1>1, <1>2, <3>1, <4>1 DEF IInv, Positioned, Transaction
          <5>2. txn'.nodes = [txn.nodes EXCEPT ![n] = ActivatedRow(@)]
            BY <4>1 DEF RecordEvent
          <5> QED BY <1>2, <3>1, <5>1, <5>2, RowsTyped
        <4>2. CASE event[r] # "activated"
          BY <3>1, <4>2 DEF RecordEvent
        <4> QED BY <4>1, <4>2
      <3>4. txn' = [nodes |-> txn'.nodes, audit |-> Append(txn.audit, row)]
        BY DEF RecordEvent
      <3> HIDE DEF row
      <3>5. Append(txn.audit, row) \in Seq(AuditRow)
        BY <1>2, <3>1
      <3>6. txn' \in [nodes : [NodeIds -> NodeRow \cup {NoNode}], audit : Seq(AuditRow)]
        BY <3>3, <3>4, <3>5
      <3> QED BY <3>1, <3>2, <3>6 DEF TablesTyped
    <2>2. HandlersTyped'
      BY <1>1 DEF TypeOK, HandlersTyped, RecordEvent, Goto
    <2>3. TrailTyped'
      <3>1. ActionOf(event[r]) \in Actions
        BY DEF ActionOf, Actions
      <3>2. /\ counter' = [counter EXCEPT ![ActionOf(event[r])] = @ + 1]
            /\ UNCHANGED <<booted, revoked_serials>>
        BY DEF RecordEvent
      <3> QED BY <1>1, <3>1, <3>2 DEF TypeOK, TrailTyped
    <2> QED BY <2>1, <2>2, <2>3 DEF TypeOK
  <1>5. ASSUME NEW x \in Requests PROVE Positioned(x)'
    <2>1. Positioned(x) /\ Positioned(r)
      BY DEF IInv
    <2>2. writer' = r /\ nodes' = nodes /\ req' = req
      BY DEF RecordEvent, store
    <2>3. CASE x = r
      <3>1. pc'[x] = "commit" /\ event'[x] # "none"
        BY <1>1, <2>3 DEF RecordEvent, Goto, TypeOK, HandlersTyped, Events, Denials
      <3> QED BY <1>1, <2>1, <2>2, <2>3, <3>1 DEF Positioned, Working
    <2>4. CASE x # r
      <3>1. pc'[x] = pc[x] /\ event'[x] = event[x]
        BY <1>1, <2>4 DEF RecordEvent, Goto, TypeOK, HandlersTyped
      <3> QED BY <1>1, <2>1, <2>2, <2>4, <3>1, NullsAssumption DEF Positioned
    <2> QED BY <2>3, <2>4
  <1>6. Transaction'
    <2>1. pc'[r] = "commit" /\ event'[r] # "none" /\ writer' = r /\ nodes' = nodes
      BY <1>1 DEF RecordEvent, Goto, TypeOK, HandlersTyped, Events, Denials, store
    <2>2. \A m \in NodeIds : nodes'[m] # NoNode => txn'.nodes[m] # NoNode
      <3>1. \A m \in NodeIds : nodes[m] # NoNode => txn.nodes[m] # NoNode
        BY <1>1 DEF Transaction
      <3>2. CASE event[r] = "activated"
        <4>1. txn'.nodes = [txn.nodes EXCEPT ![n] = ActivatedRow(@)]
          BY <3>2 DEF RecordEvent
        <4>2. txn.nodes[n] \in NodeRow
          BY <1>1, <1>2, <3>1, <3>2 DEF IInv, Positioned, TypeOK, TablesTyped
        <4>3. ActivatedRow(txn.nodes[n]) # NoNode
          BY <4>2, RowsTyped, NoNodeAssumption
        <4> QED BY <1>1, <1>2, <2>1, <3>1, <4>1, <4>3 DEF TypeOK, TablesTyped
      <3>3. CASE event[r] # "activated"
        BY <2>1, <3>1, <3>3 DEF RecordEvent
      <3> QED BY <3>2, <3>3
    <2> QED BY <1>3, <2>1, <2>2, NullsAssumption DEF Transaction
  <1>7. AuditedRegistration'
    BY <1>1 DEF AuditedRegistration, RecordEvent, store
  <1> QED BY <1>4, <1>5, <1>6, <1>7 DEF IInv

\* A COMMIT installs tables that match, and gives the lock back.
LEMMA CommitInvariant ==
    ASSUME IInv, NEW r \in Requests, CommitEvent(r)
    PROVE  IInv'
  <1>1. TypeOK /\ Transaction /\ pc[r] = "commit" /\ writer = r /\ r # NoRequest
    BY NullsAssumption DEF IInv, CommitEvent
  <1>2. nodes' = txn.nodes /\ audit_events' = txn.audit /\ writer' = NoRequest /\ txn' = txn
        /\ req' = req
    BY DEF CommitEvent, Durable
  <1>3. \/ pc' = [pc EXCEPT ![r] = "done"] /\ UNCHANGED event
        \/ /\ pc' = [pc EXCEPT ![r] = "refresh"]
           /\ event' = [event EXCEPT ![r] = event[r]] /\ UNCHANGED status
    BY DEF CommitEvent, Answer, Goto
  <1>4. TypeOK'
    <2>1. TablesTyped'
      BY <1>1, <1>2 DEF TypeOK, TablesTyped
    <2>2. HandlersTyped'
      <3>1. CASE pc' = [pc EXCEPT ![r] = "done"] /\ UNCHANGED event
        BY <1>1, <1>2, <3>1 DEF TypeOK, HandlersTyped, CommitEvent, Answer, Goto
      <3>2. CASE /\ pc' = [pc EXCEPT ![r] = "refresh"]
                 /\ event' = [event EXCEPT ![r] = event[r]] /\ UNCHANGED status
        BY <1>1, <1>2, <3>2 DEF TypeOK, HandlersTyped
      <3> QED BY <1>3, <3>1, <3>2
    <2>3. TrailTyped'
      BY <1>1 DEF TypeOK, TrailTyped, CommitEvent, trail
    <2> QED BY <2>1, <2>2, <2>3 DEF TypeOK
  <1>5. ASSUME NEW x \in Requests PROVE Positioned(x)'
    <2>1. Positioned(x) /\ (x # r => pc'[x] = pc[x] /\ event'[x] = event[x])
          /\ pc'[r] \in {"done", "refresh"}
      BY <1>1, <1>3 DEF IInv, TypeOK, HandlersTyped
    <2>2. \A n \in NodeIds : nodes[n] # NoNode => nodes'[n] # NoNode
      BY <1>1, <1>2 DEF Transaction
    <2>3. pc[x] \in Working => req[x].node \in NodeIds
      BY <2>1, InputFields DEF Positioned
    <2>4. CASE x = r
      BY <1>1, <1>2, <2>1, <2>4 DEF Positioned, Working
    <2>5. CASE x # r
      BY <1>1, <1>2, <2>1, <2>2, <2>3, <2>5 DEF Positioned, Working
    <2> QED BY <2>4, <2>5
  <1>6. Transaction'
    BY <1>1, <1>2 DEF Transaction, Committed, TypeOK, TablesTyped
  <1>7. AuditedRegistration'
    BY <1>1, <1>2 DEF AuditedRegistration, Transaction
  <1> QED BY <1>4, <1>5, <1>6, <1>7 DEF IInv

\* A routine heartbeat's commit changes no row's existence.
LEMMA FreshnessInvariant ==
    ASSUME IInv, NEW r \in Requests, CommitFreshness(r)
    PROVE  IInv'
  <1> DEFINE n == req[r].node
  <1>1. TypeOK /\ Transaction /\ AuditedRegistration /\ req[r] \in Inputs
        /\ writer = NoRequest /\ txn = Committed /\ nodes[n] # NoNode /\ pc[r] = "commit"
    BY DEF IInv, CommitFreshness, Positioned, Working, Transaction
  <1>2. n \in NodeIds /\ BeatenRow(nodes[n]) \in NodeRow
    BY <1>1, InputFields, RowsTyped DEF TypeOK, TablesTyped
  <1>3. /\ nodes' = [nodes EXCEPT ![n] = BeatenRow(@)]
        /\ txn' = [nodes |-> nodes', audit |-> audit_events]
        /\ audit_events' = audit_events /\ writer' = NoRequest /\ req' = req
    BY <1>1 DEF CommitFreshness, Committed
  <1>4. \A m \in NodeIds : (nodes'[m] = NoNode) <=> (nodes[m] = NoNode)
    BY <1>1, <1>2, <1>3, NoNodeAssumption DEF TypeOK, TablesTyped
  <1>5. TypeOK'
    <2>1. TablesTyped'
      <3>1. nodes' \in [NodeIds -> NodeRow \cup {NoNode}]
        BY <1>1, <1>2, <1>3 DEF TypeOK, TablesTyped
      <3> QED BY <1>1, <1>3, <3>1 DEF TypeOK, TablesTyped
    <2>2. HandlersTyped'
      BY <1>1 DEF TypeOK, HandlersTyped, CommitFreshness, Goto
    <2>3. TrailTyped'
      BY <1>1 DEF TypeOK, TrailTyped, CommitFreshness, trail
    <2> QED BY <2>1, <2>2, <2>3 DEF TypeOK
  <1>6. ASSUME NEW x \in Requests PROVE Positioned(x)'
    <2>1. Positioned(x) /\ (x # r => pc'[x] = pc[x] /\ event'[x] = event[x])
          /\ pc'[r] = "refresh"
      BY <1>1 DEF IInv, TypeOK, HandlersTyped, CommitFreshness, Goto
    <2>2. pc[x] \in Working => req[x].node \in NodeIds
      BY <2>1, InputFields DEF Positioned
    <2>3. CASE x = r
      BY <1>1, <1>3, <2>1, <2>3 DEF Positioned, Working
    <2>4. CASE x # r
      BY <1>1, <1>3, <1>4, <2>1, <2>2, <2>4 DEF Positioned, Working
    <2> QED BY <2>3, <2>4
  <1>7. Transaction'
    BY <1>3 DEF Transaction, Committed
  <1>8. AuditedRegistration'
    BY <1>1, <1>3, <1>4 DEF AuditedRegistration, Matches
  <1> QED BY <1>5, <1>6, <1>7, <1>8 DEF IInv

\* A failed statement rolls back and answers; the committed tables stay.
LEMMA FailureInvariant ==
    ASSUME IInv, NEW r \in Requests, Busy(r) \/ DbError(r)
    PROVE  IInv'
  <1>1. TypeOK /\ Transaction /\ AuditedRegistration
    BY DEF IInv
  <1>2. /\ nodes' = nodes /\ audit_events' = audit_events /\ req' = req /\ event' = event
        /\ pc' = [pc EXCEPT ![r] = "done"] /\ status' = [status EXCEPT ![r] = 500]
        /\ Rollback(r) /\ UNCHANGED <<trail, revoked_serials>>
    BY DEF Busy, DbError, Answer, store
  <1>3. TypeOK'
    <2>1. TablesTyped'
      BY <1>1, <1>2 DEF TypeOK, TablesTyped, Rollback, Committed, lock
    <2>2. HandlersTyped'
      BY <1>1, <1>2 DEF TypeOK, HandlersTyped
    <2>3. TrailTyped'
      BY <1>1, <1>2 DEF TypeOK, TrailTyped, trail
    <2> QED BY <2>1, <2>2, <2>3 DEF TypeOK
  <1>4. ASSUME NEW x \in Requests PROVE Positioned(x)'
    <2>1. Positioned(x) /\ (x # r => pc'[x] = pc[x]) /\ pc'[r] = "done"
      BY <1>1, <1>2 DEF IInv, TypeOK, HandlersTyped
    <2>2. x # r /\ writer = x => writer' = x
      BY <1>2 DEF Rollback, lock
    <2> QED BY <1>2, <2>1, <2>2 DEF Positioned, Working
  <1>5. Transaction'
    <2>1. CASE writer = r
      BY <1>2, <2>1 DEF Transaction, Rollback, Committed
    <2>2. CASE writer # r
      <3>1. writer' = writer /\ txn' = txn
        BY <1>2, <2>2 DEF Rollback, lock
      <3>2. writer # NoRequest => pc'[writer] = pc[writer]
        BY <1>1, <1>2, <2>2 DEF TypeOK, TablesTyped, HandlersTyped
      <3> QED BY <1>1, <1>2, <3>1, <3>2 DEF Transaction, Ahead, Committed
    <2> QED BY <2>1, <2>2
  <1>6. AuditedRegistration'
    BY <1>1, <1>2 DEF AuditedRegistration
  <1> QED BY <1>3, <1>4, <1>5, <1>6 DEF IInv

\* A crash keeps the committed tables and nothing else.
LEMMA CrashInvariant ==
    ASSUME IInv, Crash
    PROVE  IInv'
  <1>1. TypeOK /\ AuditedRegistration
    BY DEF IInv
  <1>2. nodes' = nodes /\ audit_events' = audit_events /\ writer' = NoRequest
        /\ txn' = Committed
    BY DEF Crash, store
  <1>3. \A x \in Requests : pc'[x] \in {"idle", "done", "lost"}
    BY DEF Crash
  <1>4. TypeOK'
    <2>1. TablesTyped'
      BY <1>1, <1>2 DEF TypeOK, TablesTyped, Committed
    <2>2. HandlersTyped'
      BY <1>1 DEF TypeOK, HandlersTyped, Crash
    <2>3. TrailTyped'
      BY <1>1 DEF TypeOK, TablesTyped, TrailTyped, Crash
    <2> QED BY <2>1, <2>2, <2>3 DEF TypeOK
  <1>5. ASSUME NEW x \in Requests PROVE Positioned(x)'
    BY <1>3 DEF Positioned, Working
  <1>6. Transaction'
    BY <1>2 DEF Transaction, Committed
  <1>7. AuditedRegistration'
    BY <1>1, <1>2 DEF AuditedRegistration
  <1> QED BY <1>4, <1>5, <1>6, <1>7 DEF IInv

\* Anything else leaves every variable the invariant reads as it was.
LEMMA StutterInvariant ==
    ASSUME IInv, CrlUpdated \/ UNCHANGED vars
    PROVE  IInv'
  <1>1. UNCHANGED <<nodes, audit_events, txn, writer, req, pc, event, status, counter, booted>>
        /\ (revoked_serials' = revoked_serials \/ revoked_serials' \subseteq Serials)
    BY DEF CrlUpdated, vars, store, lock, control, trail
  <1>2. TypeOK'
    BY <1>1 DEF IInv, TypeOK, TablesTyped, HandlersTyped, TrailTyped
  <1>3. ASSUME NEW x \in Requests PROVE Positioned(x)'
    BY <1>1 DEF IInv, Positioned
  <1>4. Transaction' /\ AuditedRegistration'
    BY <1>1 DEF IInv, Transaction, Ahead, Committed, AuditedRegistration
  <1> QED BY <1>2, <1>3, <1>4 DEF IInv

\* Every step of the controller preserves the invariant.
LEMMA StepInvariant ==
    ASSUME IInv, [Next]_vars
    PROVE  IInv'
  <1>1. CASE \E r \in Requests : Receive(r) \/ Handle(r) \/ DbError(r)
    BY <1>1, ReceiveInvariant, ReadInvariant, InsertInvariant, RecordInvariant,
       CommitInvariant, FreshnessInvariant, FailureInvariant DEF Handle
  <1>2. CASE Crash
    BY <1>2, CrashInvariant
  <1>3. CASE CrlUpdated \/ UNCHANGED vars
    BY <1>3, StutterInvariant
  <1> QED BY <1>1, <1>2, <1>3 DEF Next

-----------------------------------------------------------------------------
(* The theorems *)

\* IInv holds in every reachable state.
THEOREM Invariance == Spec => []IInv
  BY InitInvariant, StepInvariant, PTL DEF Spec

\* Type correctness of the tables, the handlers and the process memory.
THEOREM TypeCorrect == Spec => []TypeOK
  <1>1. IInv => TypeOK
    BY DEF IInv
  <1> QED BY Invariance, <1>1, PTL

\* register_node: whatever the races, failures and crashes, a node is in the
\* table exactly when one node.register row names it.
THEOREM RegistrationsAudited == Spec => []AuditedRegistration
  <1>1. IInv => AuditedRegistration
    BY DEF IInv
  <1> QED BY Invariance, <1>1, PTL
=============================================================================
