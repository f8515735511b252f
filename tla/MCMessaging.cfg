SPECIFICATION Spec
CHECK_DEADLOCK FALSE
CONSTANTS
    Services = {"a", "b"}
    Nodes = {"n1", "n2"}
    Mappings <- MCMappings
    Neighbors <- MCNeighbors
    MaxSends = 1
INVARIANTS TypeOK 
PROPERTIES  RequestsEnd RoundsComplete
