SPECIFICATION Spec
CHECK_DEADLOCK FALSE
CONSTANTS
    Order <- MCOrder
    Nodes = {n1, n2}
    ServicesOf <- MCServices
    MaxRounds = 3
    MaxFaults = 2
INVARIANTS TypeOK BooksAgree AliveIsDeployed CleanEnd ThreadsServe
