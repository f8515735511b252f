CONSTANTS
    n1 = n1
    n2 = n2
    n3 = n3
    none = none
    a = a
    b = b
    s1 = s1
    s2 = s2
    s3 = s3
    t1 = t1
    t2 = t2
    Apps = {a, b}
    Nodes = {n1, n2, n3}
    NoNode = none
    Links <- MCLinks
    Services <- MCServices
    Needs <- MCNeeds
    Flows <- MCFlows
    Registered <- MCRegistered
    Static <- MCStatic
    Capacities = {1, 3}
    MaxLatency = 100
    MaxChanges = 2
SPECIFICATION Spec
CHECK_DEADLOCK FALSE
INVARIANTS
    TypeOK
    NoOverload
    LinksCarry
    ResidualSound
PROPERTY
    MarkHasCause
