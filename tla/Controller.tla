----------------------------- MODULE Controller -----------------------------
(***************************************************************************)
(* The controller's request handling: the mTLS identity dependency, the    *)
(* revocation gate, the node endpoints and the audit triple-write, over one *)
(* SQLite database in WAL mode.                                            *)
(*                                                                         *)
(* One step is what a handler does between two awaits.  A SELECT reads the *)
(* last committed tables and holds nothing; the first INSERT or UPDATE of  *)
(* a session opens its transaction and takes the database's only write     *)
(* lock, which a commit or a rollback gives back.  Requests interleave at  *)
(* every await.                                                            *)
(*                                                                         *)
(* Abstracted: timestamps to "has a heartbeat", roles, notes and addresses *)
(* (nothing reads them), the body of the answer to its status code, and    *)
(* the CRL fetch to an arbitrary change of the cache (CrlCache.tla models  *)
(* it).  Row ids are positions: rows are never deleted, and SQLite gives a *)
(* rolled-back id out again.  A payload that fails validation is answered  *)
(* 422 by FastAPI before the handler runs and changes nothing: left out.   *)
(***************************************************************************)
EXTENDS Naturals, Sequences, FiniteSets

CONSTANTS
    Requests,       \* one-shot request identities
    Inputs,         \* the requests clients may send (bounds the model)
    NodeIds, CommonNames, NodeCNs, ControllerCNs, Serials,
    AllowUnauthenticated,  \* settings.allow_unauthenticated
    DevBypass,      \* the CN "dev-bypass"
    NoRequest, NoNode, NoSerial, NoInput

States == {"onboarding", "active", "stale", "revoked", "decommissioned"}
Ops    == {"register", "heartbeat", "get", "list", "audit", "whoami"}

\* A request: the headers nginx forwards and the endpoint with its payload.
InputType ==
    [verify : {"absent", "SUCCESS", "FAILED"},
     dn     : CommonNames \cup {"absent", "no_cn"},
     serial : Serials \cup {NoSerial},
     op     : Ops,
     node   : NodeIds,
     cn     : CommonNames,
     state  : States]

ASSUME InputsAssumption == Inputs \subseteq InputType
ASSUME NamesAssumption ==
    /\ NodeCNs \cap ControllerCNs = {}
    /\ NodeCNs \cup ControllerCNs \cup {DevBypass} \subseteq CommonNames
    /\ DevBypass \notin NodeCNs \cup ControllerCNs
    /\ CommonNames \cap {"absent", "no_cn"} = {}
ASSUME NullsAssumption ==
    /\ NoRequest \notin Requests
    /\ NoInput \notin InputType
    /\ NoSerial \notin Serials
    /\ AllowUnauthenticated \in BOOLEAN

NodeRow  == [common_name : CommonNames, state : States, last_heartbeat : BOOLEAN]
ASSUME NoNodeAssumption == NoNode \notin NodeRow

Denials  == {"revoked", "unauthorized", "mismatch"}
Events   == Denials \cup {"registered", "activated"}
AuditRow == [by : Requests, event : Events, actor : CommonNames, target : NodeIds \cup Serials]

\* AuditAction of each event: the label of the Prometheus counter.
Actions  == {"node.register", "node.state_change", "auth.failure"}
ActionOf(e) == IF e = "registered" THEN "node.register"
               ELSE IF e = "activated" THEN "node.state_change" ELSE "auth.failure"

VARIABLES
    nodes, audit_events,    \* the committed tables
    txn, writer,            \* the open write transaction's view, and its request
    req, pc, event, status, \* per request: input, handler position, pending event, answer
    log,                    \* structlog audit lines (on stdout, survive a crash)
    counter,                \* audit_events_total (process memory)
    booted,                 \* history: rows committed when the process started
    revoked_serials         \* revocation._revoked_serials (process memory)

store   == <<nodes, audit_events>>
lock    == <<txn, writer>>
control == <<req, pc, event, status>>
trail   == <<log, counter, booted>>
vars    == <<nodes, audit_events, txn, writer, req, pc, event, status,
             log, counter, booted, revoked_serials>>

Registry == INSTANCE Registry WITH nodes <- nodes, audit_events <- audit_events

Committed == [nodes |-> nodes, audit |-> audit_events]

Init ==
    /\ nodes = [n \in NodeIds |-> NoNode]
    /\ audit_events = <<>>
    /\ txn = Committed
    /\ writer = NoRequest
    /\ req = [r \in Requests |-> NoInput]
    /\ pc = [r \in Requests |-> "idle"]
    /\ event = [r \in Requests |-> "none"]
    /\ status = [r \in Requests |-> 0]
    /\ log = {}
    /\ counter = [a \in Actions |-> 0]
    /\ booted = 0
    /\ revoked_serials = {}

-----------------------------------------------------------------------------
(* Identity: get_mtls_identity, require_live_identity *)

Bypassed(q) == AllowUnauthenticated /\ q.verify = "absent"

\* The status an unidentified request is refused with, 0 when it has an identity.
RefusalStatus(q) ==
    IF Bypassed(q) THEN 0
    ELSE IF "absent" \in {q.verify, q.dn} THEN 401
    ELSE IF q.verify # "SUCCESS" THEN 403
    ELSE IF q.dn = "no_cn" THEN 400
    ELSE 0

Identified(q)   == RefusalStatus(q) = 0
IdentityCN(q)   == IF Bypassed(q) THEN DevBypass ELSE q.dn

\* identity.serial: the bypass has none, and neither has a header that is missing
\* or not a hexadecimal number.
IdentitySerial(q) == IF Bypassed(q) THEN NoSerial ELSE q.serial

\* identity.serial is not None and is_revoked(identity.serial)
Revoked(q)      == IdentitySerial(q) # NoSerial /\ IdentitySerial(q) \in revoked_serials

MayRegister(q)  == \/ IdentityCN(q) \in NodeCNs /\ IdentityCN(q) = q.cn
                   \/ IdentityCN(q) \in ControllerCNs

Answer(r, code) ==
    /\ pc' = [pc EXCEPT ![r] = "done"]
    /\ status' = [status EXCEPT ![r] = code]

Arrive(r, q) == pc[r] = "idle" /\ req' = [req EXCEPT ![r] = q]

\* Missing headers, failed verification, no CN: refused without an audit row.
RefuseUnidentified(r, q) ==
    /\ Arrive(r, q)
    /\ ~Identified(q)
    /\ Answer(r, RefusalStatus(q))
    /\ UNCHANGED <<store, lock, event, trail, revoked_serials>>

\* A serial on the cached CRL: the refusal is audited before it is answered.
DenyRevoked(r, q) ==
    /\ Arrive(r, q)
    /\ Identified(q)
    /\ Revoked(q)
    /\ pc' = [pc EXCEPT ![r] = "record"]
    /\ event' = [event EXCEPT ![r] = "revoked"]
    /\ UNCHANGED <<store, lock, status, trail, revoked_serials>>

\* register_node's own authorization, with no await since the revocation check.
DenyUnauthorized(r, q) ==
    /\ Arrive(r, q)
    /\ Identified(q) /\ ~Revoked(q)
    /\ q.op = "register" /\ ~MayRegister(q)
    /\ pc' = [pc EXCEPT ![r] = "record"]
    /\ event' = [event EXCEPT ![r] = "unauthorized"]
    /\ UNCHANGED <<store, lock, status, trail, revoked_serials>>

\* The handler runs up to its first SELECT.
Admit(r, q) ==
    /\ Arrive(r, q)
    /\ Identified(q) /\ ~Revoked(q)
    /\ q.op # "whoami"
    /\ q.op = "register" => MayRegister(q)
    /\ pc' = [pc EXCEPT ![r] = "select"]
    /\ UNCHANGED <<store, lock, event, status, trail, revoked_serials>>

\* whoami answers from the identity alone.
Whoami(r, q) ==
    /\ Arrive(r, q)
    /\ Identified(q) /\ ~Revoked(q)
    /\ q.op = "whoami"
    /\ Answer(r, 200)
    /\ UNCHANGED <<store, lock, event, trail, revoked_serials>>

-----------------------------------------------------------------------------
(* The handlers, from their SELECT to their answer *)

Goto(r, where, what) ==
    /\ pc' = [pc EXCEPT ![r] = where]
    /\ event' = [event EXCEPT ![r] = what]

\* One SELECT, then the answer; reading the audit log leaves no row in it.
ListNodes(r) ==
    /\ req[r].op = "list"
    /\ Answer(r, 200)

ListAuditEvents(r) ==
    /\ req[r].op = "audit"
    /\ Answer(r, 200)

GetNode(r) ==
    /\ req[r].op = "get"
    /\ Answer(r, IF nodes[req[r].node] = NoNode THEN 404 ELSE 200)

Read(r) ==
    /\ pc[r] = "select"
    /\ ListNodes(r) \/ ListAuditEvents(r) \/ GetNode(r)
    /\ UNCHANGED <<store, lock, req, event, trail, revoked_serials>>

\* register_node looks for the node_id; a duplicate is answered without a row.
LookUpForRegister(r) ==
    /\ pc[r] = "select"
    /\ req[r].op = "register"
    /\ \/ /\ nodes[req[r].node] # NoNode
          /\ Answer(r, 409)
          /\ UNCHANGED event
       \/ /\ nodes[req[r].node] = NoNode
          /\ Goto(r, "insert", "none")
          /\ UNCHANGED status
    /\ UNCHANGED <<store, lock, req, trail, revoked_serials>>

\* heartbeat reads the row and decides on it; what it decides is written later.
LookUpForHeartbeat(r) ==
    LET row == nodes[req[r].node] IN
    /\ pc[r] = "select"
    /\ req[r].op = "heartbeat"
    /\ \/ /\ row = NoNode
          /\ Answer(r, 404)
          /\ UNCHANGED event
       \/ /\ row # NoNode
          /\ \/ row.common_name # IdentityCN(req[r]) /\ Goto(r, "record", "mismatch")
             \/ /\ row.common_name = IdentityCN(req[r])
                /\ \/ row.state = "onboarding" /\ Goto(r, "record", "activated")
                   \/ row.state # "onboarding" /\ Goto(r, "commit", "none")
          /\ UNCHANGED status
    /\ UNCHANGED <<store, lock, req, trail, revoked_serials>>

\* Mutant: a table without the UNIQUE index on node_id.
NoUniqueIndex(r) == TRUE

\* UNIQUE(node_id), against the tables as they are when the INSERT runs.
UniqueNodeId(r) == nodes[req[r].node] = NoNode

\* session.add(node); flush(): BEGIN, and the INSERT takes the write lock.
InsertNode(r) ==
    LET q == req[r] IN
    /\ pc[r] = "insert"
    /\ writer = NoRequest
    /\ UniqueNodeId(r)
    /\ writer' = r
    /\ txn' = [Committed EXCEPT !.nodes[q.node] =
                  [common_name |-> q.cn, state |-> q.state, last_heartbeat |-> FALSE]]
    /\ Goto(r, "record", "registered")
    /\ UNCHANGED <<store, req, status, trail, revoked_serials>>

\* The INSERT meets the UNIQUE index: IntegrityError, rollback, 500 (not 409).
DuplicateInsert(r) ==
    /\ pc[r] = "insert"
    /\ writer = NoRequest
    /\ ~UniqueNodeId(r)
    /\ Answer(r, 500)
    /\ UNCHANGED <<store, lock, req, event, trail, revoked_serials>>

\* Mutant: the payload's CN where the node_id belongs.
TargetByCN(r) == req[r].cn

AuditTarget(r) == IF event[r] = "revoked" THEN req[r].serial ELSE req[r].node

AuditEvent(r) ==
    [by |-> r, event |-> event[r], actor |-> IdentityCN(req[r]), target |-> AuditTarget(r)]

\* Mutant: the line is written before the flush has populated event.id.
LogBeforeFlush(r) == [id |-> 0, row |-> AuditEvent(r)]

LogLine(r) == [id |-> Len(txn.audit) + 1, row |-> AuditEvent(r)]

\* Mutant: two sessions write at once.
NoWriteLock(r) == TRUE

\* One write transaction per database.
MayWrite(r) == writer \in {NoRequest, r}

\* The columns an ONBOARDING row's heartbeat updates.
ActivatedRow(row) == [row EXCEPT !.state = "active", !.last_heartbeat = TRUE]

\* record_event: flush (with the pending node UPDATE of an activation), then
\* the log line with the id the flush gave, then the counter.  No commit.
RecordEvent(r) ==
    /\ pc[r] = "record"
    /\ MayWrite(r)
    /\ writer' = r
    /\ txn' = [nodes |-> IF event[r] = "activated"
                         THEN [txn.nodes EXCEPT ![req[r].node] = ActivatedRow(@)]
                         ELSE txn.nodes,
               audit |-> Append(txn.audit, AuditEvent(r))]
    /\ log' = log \cup {LogLine(r)}
    /\ counter' = [counter EXCEPT ![ActionOf(event[r])] = @ + 1]
    /\ Goto(r, "commit", event[r])
    /\ UNCHANGED <<store, req, status, booted, revoked_serials>>

\* Mutant: a denial raises before its commit, and get_session rolls it back.
RaiseBeforeCommit(r) == IF event[r] \in Denials THEN Committed ELSE txn

\* What session.commit() makes durable.
Durable(r) == txn

\* The COMMIT of a recorded event; a denial raises its 403 here.
CommitEvent(r) ==
    /\ pc[r] = "commit"
    /\ event[r] # "none"
    /\ writer = r
    /\ nodes' = Durable(r).nodes
    /\ audit_events' = Durable(r).audit
    /\ writer' = NoRequest
    /\ txn' = Durable(r)
    /\ \/ event[r] \in Denials /\ Answer(r, 403) /\ UNCHANGED event
       \/ event[r] \notin Denials /\ Goto(r, "refresh", event[r]) /\ UNCHANGED status
    /\ UNCHANGED <<req, trail, revoked_serials>>

\* Mutant: a routine heartbeat brings any node back to active.
RevivedRow(row) == [row EXCEPT !.last_heartbeat = TRUE, !.state = "active"]

\* The columns any other heartbeat updates.
BeatenRow(row) == [row EXCEPT !.last_heartbeat = TRUE]

\* A routine heartbeat's commit: BEGIN, UPDATE and COMMIT of the freshness columns.
CommitFreshness(r) ==
    /\ pc[r] = "commit"
    /\ event[r] = "none"
    /\ writer = NoRequest
    /\ nodes' = [nodes EXCEPT ![req[r].node] = BeatenRow(@)]
    /\ txn' = [txn EXCEPT !.nodes = nodes']
    /\ Goto(r, "refresh", "none")
    /\ UNCHANGED <<audit_events, writer, req, status, trail, revoked_serials>>

\* session.refresh(node), then the answer.
Refresh(r) ==
    /\ pc[r] = "refresh"
    /\ Answer(r, IF req[r].op = "register" THEN 201 ELSE 200)
    /\ UNCHANGED <<store, lock, req, event, trail, revoked_serials>>

-----------------------------------------------------------------------------
(* Failures and the environment *)

\* Mutant: the session is dropped with its transaction open.
KeepLock(r) == UNCHANGED lock

\* get_session's except branch: whatever was flushed is rolled back.
Rollback(r) ==
    IF writer = r THEN writer' = NoRequest /\ txn' = Committed ELSE UNCHANGED lock

\* sqlite3's busy timeout: another request kept the write lock for 5 seconds.
Busy(r) ==
    /\ pc[r] \in {"insert", "record", "commit"}
    /\ writer \notin {NoRequest, r}
    /\ Rollback(r)
    /\ Answer(r, 500)
    /\ UNCHANGED <<store, req, event, trail, revoked_serials>>

\* Any statement may fail (no pooled connection within 30 s, I/O error).
DbError(r) ==
    /\ pc[r] \in {"select", "insert", "record", "commit", "refresh"}
    /\ Rollback(r)
    /\ Answer(r, 500)
    /\ UNCHANGED <<store, req, event, trail, revoked_serials>>

\* The process dies and comes back: requests in flight get no answer, the open
\* transaction is gone, counters and the revoked set start empty.
Crash ==
    /\ pc' = [r \in Requests |-> IF pc[r] \in {"idle", "done"} THEN pc[r] ELSE "lost"]
    /\ writer' = NoRequest
    /\ txn' = Committed
    /\ counter' = [a \in Actions |-> 0]
    /\ booted' = Len(audit_events)
    /\ revoked_serials' = {}
    /\ UNCHANGED <<store, req, event, status, log>>

\* periodic_crl_refresh replaces the set, at an await of every request.
CrlUpdated ==
    /\ revoked_serials' \in SUBSET Serials
    /\ revoked_serials' # revoked_serials
    /\ UNCHANGED <<store, lock, control, trail>>

Receive(r) == \E q \in Inputs :
    \/ RefuseUnidentified(r, q)
    \/ DenyRevoked(r, q)
    \/ DenyUnauthorized(r, q)
    \/ Admit(r, q)
    \/ Whoami(r, q)

Handle(r) ==
    \/ Read(r) \/ LookUpForRegister(r) \/ LookUpForHeartbeat(r)
    \/ InsertNode(r) \/ DuplicateInsert(r)
    \/ RecordEvent(r)
    \/ CommitEvent(r) \/ CommitFreshness(r)
    \/ Refresh(r)
    \/ Busy(r)

Next ==
    \/ \E r \in Requests : Receive(r) \/ Handle(r) \/ DbError(r)
    \/ Crash
    \/ CrlUpdated

Spec == Init /\ [][Next]_vars

\* The event loop runs every ready handler and SQLite answers or times out;
\* nobody has to send, to fail or to crash.
FairSpec == Spec /\ \A r \in Requests : WF_vars(Handle(r))

-----------------------------------------------------------------------------
(* Properties *)

InFlight(r) == pc[r] \in {"select", "insert", "record", "commit", "refresh"}
RowsBy(r)   == {i \in DOMAIN audit_events : audit_events[i].by = r}

TablesTyped ==
    /\ nodes \in [NodeIds -> NodeRow \cup {NoNode}]
    /\ audit_events \in Seq(AuditRow)
    /\ txn \in [nodes : [NodeIds -> NodeRow \cup {NoNode}], audit : Seq(AuditRow)]
    /\ writer \in Requests \cup {NoRequest}

HandlersTyped ==
    /\ req \in [Requests -> Inputs \cup {NoInput}]
    /\ pc \in [Requests -> {"idle", "select", "insert", "record", "commit", "refresh",
                            "done", "lost"}]
    /\ event \in [Requests -> Events \cup {"none"}]
    /\ status \in [Requests -> {0, 200, 201, 400, 401, 403, 404, 409, 500}]

TrailTyped ==
    /\ counter \in [Actions -> Nat]
    /\ booted \in Nat
    /\ revoked_serials \subseteq Serials

\* The shape of the state.
TypeOK == TablesTyped /\ HandlersTyped /\ TrailTyped

Registrations(rows, n) ==
    {i \in DOMAIN rows : rows[i].event = "registered" /\ rows[i].target = n}

Matches(ns, rows) ==
    \A n \in NodeIds :
        /\ ns[n] = NoNode => Registrations(rows, n) = {}
        /\ ns[n] # NoNode => \E i \in DOMAIN rows : Registrations(rows, n) = {i}

\* A node is in the table exactly when one node.register row names it: races of
\* two registrations, failures between the flushes and crashes leave neither a
\* node without its row, nor a row without its node, nor two rows.
AuditedRegistration == Matches(nodes, audit_events)

\* A node whose state is not the one it was registered with got there by an
\* audited state change, recorded after the registration, by its own CN.
StateChangesAreAudited ==
    \A i \in DOMAIN audit_events :
        LET row == audit_events[i] IN
        row.event = "registered" /\ nodes[row.target].state # req[row.by].state =>
            /\ nodes[row.target].state = "active"
            /\ \E j \in DOMAIN audit_events :
                  /\ i < j
                  /\ audit_events[j].event = "activated"
                  /\ audit_events[j].target = row.target
                  /\ audit_events[j].actor = nodes[row.target].common_name

Outcome(r, events) ==
    /\ Cardinality(RowsBy(r)) = 1
    /\ \A i \in RowsBy(r) : audit_events[i].event \in events

\* What the client was told is what the database holds: 201 has its node and its
\* row, an identified 403 has its denial row, an accepted heartbeat shows on the
\* node, 4xx answers leave nothing, and a 500 leaves at most one row.
OutcomeMatchesRecord ==
    \A r \in Requests : pc[r] = "done" =>
        LET q == req[r] IN
        CASE status[r] = 201 -> Outcome(r, {"registered"}) /\ nodes[q.node] # NoNode
          [] status[r] = 403 /\ Identified(q) -> Outcome(r, Denials)
          [] status[r] = 200 /\ q.op = "heartbeat" ->
                 /\ nodes[q.node].last_heartbeat
                 /\ nodes[q.node].state # "onboarding"
                 /\ RowsBy(r) # {} => Outcome(r, {"activated"})
          [] status[r] = 500 -> RowsBy(r) # {} => Outcome(r, Events)
          [] OTHER -> RowsBy(r) = {}

\* Every committed row has its log line, under the same id, and the counter has
\* every row committed since the process started (alerts miss no event).
RowsAreLoggedAndCounted ==
    /\ \A i \in DOMAIN audit_events : [id |-> i, row |-> audit_events[i]] \in log
    /\ \A a \in Actions :
          counter[a] >= Cardinality({i \in DOMAIN audit_events :
                            i > booted /\ ActionOf(audit_events[i].event) = a})

\* A log line without its row belongs to a request still in flight, answered
\* 500 or lost in a crash; every other answer leaves log and table in agreement.
UnmatchedLog ==
    \A line \in log :
        \/ line.id \in DOMAIN audit_events /\ audit_events[line.id] = line.row
        \/ InFlight(line.row.by)
        \/ pc[line.row.by] = "lost"
        \/ status[line.row.by] = 500

\* The committed tables behave as Registry.tla says.
ImplementsRegistry == Registry!Spec

\* A request that entered a handler gets its answer, or is lost in a crash, and
\* the write lock does not stay with it.
Answered == \A r \in Requests : InFlight(r) ~> (pc[r] \in {"done", "lost"} /\ writer # r)

\* nodes.py: "Keeping the audit table clean: only state changes get a row".
OneActivationRow ==
    \A i, j \in DOMAIN audit_events :
        /\ audit_events[i].event = "activated" /\ audit_events[j].event = "activated"
        /\ audit_events[i].target = audit_events[j].target
        => i = j
=============================================================================
