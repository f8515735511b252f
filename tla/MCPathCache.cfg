CONSTANTS
    n1 = n1
    n2 = n2
    n3 = n3
    Nodes = {n1, n2, n3}
    Links <- MCLinks
    Later <- MCLater
    Queries <- MCQueries
    LinkAssets <- MCAssets
    Times = {0, 1}
    FirstTimes <- MCTimes
    MaxChanges = 2
SPECIFICATION Spec
INVARIANTS
    TypeOK
    CachedPathsFresh
    CachedSumsFresh
