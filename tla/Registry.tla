------------------------------ MODULE Registry ------------------------------
(***************************************************************************)
(* What the controller promises of its database, whatever the number of    *)
(* requests in flight and whenever it crashes: the node table and the      *)
(* audit table change together, one request at a time, and each request    *)
(* leaves at most one audit row.  Controller.tla, which has the statements, *)
(* the write lock and the crashes, is checked to implement this module.    *)
(***************************************************************************)
EXTENDS Naturals, Sequences

CONSTANTS
    Requests,       \* one-shot request identities
    NodeIds,        \* values of Node.node_id
    CommonNames,    \* certificate subject CNs
    ControllerCNs,  \* those that start with "controller."
    Serials,        \* certificate serials
    States,         \* NodeState
    NoNode          \* no row with this node_id

VARIABLES
    nodes,          \* the nodes table, by its unique key
    audit_events    \* the audit_events table, in id order

rvars == <<nodes, audit_events>>

Denials == {"revoked", "unauthorized", "mismatch"}

Init == nodes = [n \in NodeIds |-> NoNode] /\ audit_events = <<>>

\* A request that has not written its audit row yet.
Unaccounted(r) == \A i \in DOMAIN audit_events : audit_events[i].by # r

Note(r, what, who, on) ==
    /\ Unaccounted(r)
    /\ audit_events' = Append(audit_events,
           [by |-> r, event |-> what, actor |-> who, target |-> on])

\* A node row appears with its audit row, at the hand of its own CN or of the controller.
Register(r, who, n, cn, state) ==
    /\ nodes[n] = NoNode
    /\ who = cn \/ who \in ControllerCNs
    /\ nodes' = [nodes EXCEPT ![n] =
           [common_name |-> cn, state |-> state, last_heartbeat |-> FALSE]]
    /\ Note(r, "registered", who, n)

\* A heartbeat that found the node onboarding: two of them may race, so the
\* row may be active already when the second one lands.
Activate(r, n) ==
    /\ nodes[n] # NoNode
    /\ nodes[n].state \in {"onboarding", "active"}
    /\ nodes' = [nodes EXCEPT ![n].state = "active", ![n].last_heartbeat = TRUE]
    /\ Note(r, "activated", nodes[n].common_name, n)

\* A routine heartbeat: freshness only, no audit row.
Beat(n) ==
    /\ nodes[n] # NoNode
    /\ nodes' = [nodes EXCEPT ![n].last_heartbeat = TRUE]
    /\ UNCHANGED audit_events

\* A refusal that is audited changes no node.
Deny(r, what, who, on) ==
    /\ Note(r, what, who, on)
    /\ UNCHANGED nodes

Next ==
    \/ \E r \in Requests, who, cn \in CommonNames, n \in NodeIds, s \in States :
           Register(r, who, n, cn, s)
    \/ \E r \in Requests, n \in NodeIds : Activate(r, n)
    \/ \E n \in NodeIds : Beat(n)
    \/ \E r \in Requests, what \in Denials, who \in CommonNames, on \in NodeIds \cup Serials :
           Deny(r, what, who, on)

Spec == Init /\ [][Next]_rvars
=============================================================================
