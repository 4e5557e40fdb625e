CONSTANTS
    NodeIds <- MCNodeIds
    CommonNames <- MCCommonNames
    NodeCNs <- MCNodeCNs
    ControllerCNs <- MCControllerCNs
    Serials <- MCSerials
    AllowUnauthenticated = FALSE
    DevBypass = dev
    NoRequest = NoRequest
    NoNode = NoNode
    NoSerial = NoSerial
    NoInput = NoInput
    n1 = n1
    n2 = n2
    pi1 = pi1
    pi2 = pi2
    ctl = ctl
    dev = dev
    s1 = s1
    Inputs <- Races
    Requests = {r1, r2, r3}
SPECIFICATION Spec
SYMMETRY Symmetry
INVARIANT OneActivationRow
