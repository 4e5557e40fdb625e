---------------------------- MODULE MCController ----------------------------
(* Small instances of Controller: a contended node_id and a second one, their *)
(* nodes' CNs, the controller's and the development bypass.                   *)
EXTENDS Controller, TLC

CONSTANTS n1, n2, pi1, pi2, ctl, dev, s1

MCNodeIds       == {n1, n2}
MCNodeCNs       == {pi1, pi2}
MCControllerCNs == {ctl}
MCCommonNames   == {pi1, pi2, ctl, dev}
MCSerials       == {s1}

Call(op, dn, cn, state) ==
    [verify |-> "SUCCESS", dn |-> dn, serial |-> NoSerial, op |-> op, node |-> n1,
     cn |-> cn, state |-> state]

SelfRegister == Call("register", pi1, pi1, "onboarding")
Heartbeat    == Call("heartbeat", pi1, pi1, "onboarding")

\* A register payload may name any state; pi2 is a node whose agent.env says n1.
Writes ==
    {[SelfRegister EXCEPT !.serial = s1],
     Call("register", ctl, pi1, "stale"),
     Call("register", pi2, pi2, "onboarding"),
     Call("register", pi2, pi1, "onboarding"),
     Heartbeat,
     Call("heartbeat", pi2, pi2, "onboarding")}

\* pi2's own node.
Second ==
    {[Call("register", pi2, pi2, "onboarding") EXCEPT !.node = n2],
     [Call("heartbeat", pi2, pi2, "onboarding") EXCEPT !.node = n2]}

\* No headers: the bypass where settings allow it.
Headerless == {[SelfRegister EXCEPT !.verify = "absent"], [Heartbeat EXCEPT !.verify = "absent"]}

Reads ==
    {Call("get", pi2, pi2, "onboarding"),
     Call("list", ctl, ctl, "onboarding"),
     Call("audit", pi1, pi1, "onboarding"),
     Call("whoami", pi1, pi1, "onboarding"),
     [Heartbeat EXCEPT !.dn = "absent"],
     [Heartbeat EXCEPT !.verify = "FAILED"],
     [Heartbeat EXCEPT !.dn = "no_cn"]}

Mixed == Writes \cup Second \cup Headerless \cup Reads
Races == {[SelfRegister EXCEPT !.serial = s1], Heartbeat, Call("heartbeat", pi2, pi2, "onboarding")}

Symmetry == Permutations(Requests)
=============================================================================
