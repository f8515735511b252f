SPECIFICATION Spec
CHECK_DEADLOCK FALSE
CONSTANTS
    Hosts <- MCHosts
    Routers <- MCRouters
    Links <- MCLinks
    Symmetric <- MCSymmetric
    Flows <- MCFlows
    AppOrder <- MCApps
    Placements <- MCPlacements
    MaxBurst = 2
    MaxPackets <- MCPackets
    MaxAge = 2
    MaxDue = 2
    MaxChanges = 2
INVARIANTS TypeOK PacketsConserved RoutesLeadOn BytesQueued InOrder
