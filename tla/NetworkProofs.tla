---------------------------- MODULE NetworkProofs ----------------------------
(***************************************************************************)
(* What Network.tla guarantees for any hosts, routers, links, flows and    *)
(* placements, and any number of packets, failures and repairs.            *)
(***************************************************************************)
EXTENDS Network, DataProofs, FunctionTheorems

N == Cardinality(Nodes)

-----------------------------------------------------------------------------
(* The forwarding table.                                                   *)

Weight(ls)     == [e \in ls |-> Links[e].cost]
Best(ls, n, d) == ShortestPath(Nodes, Weight(ls), n, d)
Far(ls, n, d)  == PathCost(Best(ls, n, d), Weight(ls))

\* The nodes that are nearer to d than n, and how many they are; none if there
\* is no way.
Nearer(ls, n, d) == {m \in Nodes : Best(ls, m, d) # NoPath /\ Far(ls, m, d) < Far(ls, n, d)}
Distance(ls, n, d)   == IF <<n, d>> \in DOMAIN Table[ls] THEN Cardinality(Nearer(ls, n, d)) ELSE 0

LEMMA NodesFinite == IsFiniteSet(Nodes) /\ N \in Nat
<1>1. IsFiniteSet(ToSet(Hosts)) /\ IsFiniteSet(ToSet(Routers))
  BY NetworkAssumption, ToSetFinite
<1>2. IsFiniteSet(Nodes)
  BY <1>1, FS_Union DEF Nodes
<1> QED
  BY <1>2, FS_CardinalityType DEF N

LEMMA NodesNotEmpty == ASSUME NEW n \in Nodes PROVE N - 1 \in Nat
<1>1. N # 0
  BY NodesFinite, FS_EmptySet DEF N
<1> QED
  BY <1>1, NodesFinite

LEMMA WeightsPositive ==
    ASSUME NEW ls \in SUBSET DOMAIN Links
    PROVE  /\ DOMAIN Weight(ls) = ls
           /\ Weights(Weight(ls)) /\ \A e \in DOMAIN Weight(ls) : Weight(ls)[e] # 0
<1>1. \A e \in ls : Links[e].cost \in Nat \ {0}
  BY NetworkAssumption
<1> QED
  BY <1>1 DEF Weight, Weights

\* The table has an entry for every other node that can be reached: the second
\* node of the path chosen.
IsTable(T, ls) ==
    /\ \A x : x \in DOMAIN T <=> /\ x \in Nodes \X Nodes /\ x[1] # x[2]
                                 /\ Best(ls, x[1], x[2]) # NoPath
    /\ \A x \in DOMAIN T : T[x] = Best(ls, x[1], x[2])[2]

LEMMA TableFacts == ASSUME NEW ls \in SUBSET DOMAIN Links PROVE IsTable(Table[ls], ls)
<1> DEFINE paths == SimplePaths(Nodes, Weight(ls))
           pairs == {<<p[1], Last(p)>> : p \in {q \in paths : Len(q) > 1}}
           T == Table[ls]
<1>1. T = [x \in pairs |-> Best(ls, x[1], x[2])[2]]
  BY DEF Table, Best, Weight, ShortestPath
<1>2. \A p \in paths : p \in [1..Len(p) -> Nodes] /\ IsInjective(p) /\ Len(p) \in Nat \ {0}
  BY NodesFinite, PathIsSeq
<1>3. \A s, t \in Nodes : Best(ls, s, t) # NoPath <=> \E p \in paths : p[1] = s /\ Last(p) = t
  BY NodesFinite, WeightsPositive, ShortestFacts DEF Best, ShortestPath
<1>4. \A p \in paths : p[1] \in Nodes /\ Last(p) \in Nodes /\ (Len(p) > 1 <=> p[1] # Last(p))
  <2> TAKE p \in paths
  <2>1. p \in [1..Len(p) -> Nodes] /\ IsInjective(p) /\ Len(p) \in Nat \ {0} /\ Last(p) = p[Len(p)]
    BY <1>2 DEF Last
  <2>2. 1 \in 1..Len(p) /\ Len(p) \in 1..Len(p)
    BY <2>1
  <2>3. p[1] = p[Len(p)] => 1 = Len(p)
    BY <2>1, <2>2 DEF IsInjective
  <2>4. Len(p) > 1 <=> 1 # Len(p)
    BY <2>1
  <2> QED
    BY <2>1, <2>2, <2>3, <2>4
<1> HIDE DEF paths
<1>5. \A x : x \in pairs <=> x \in Nodes \X Nodes /\ x[1] # x[2] /\ Best(ls, x[1], x[2]) # NoPath
  <2>1. ASSUME NEW x \in pairs
        PROVE  x \in Nodes \X Nodes /\ x[1] # x[2] /\ Best(ls, x[1], x[2]) # NoPath
    <3>1. PICK p \in paths : Len(p) > 1 /\ x = <<p[1], Last(p)>>
      OBVIOUS
    <3>2. p[1] \in Nodes /\ Last(p) \in Nodes /\ p[1] # Last(p)
      BY <1>4, <3>1
    <3> QED
      BY <1>3, <3>1, <3>2
  <2>2. ASSUME NEW x \in Nodes \X Nodes, x[1] # x[2], Best(ls, x[1], x[2]) # NoPath
        PROVE  x \in pairs
    <3>1. x[1] \in Nodes /\ x[2] \in Nodes /\ x = <<x[1], x[2]>>
      OBVIOUS
    <3>2. PICK p \in paths : p[1] = x[1] /\ Last(p) = x[2]
      BY <1>3, <2>2, <3>1
    <3>3. Len(p) > 1
      BY <1>4, <2>2, <3>2
    <3> QED
      BY <3>1, <3>2, <3>3
  <2> QED
    BY <2>1, <2>2
<1> HIDE DEF pairs, T
<1>6. IsTable(T, ls)
  BY <1>1, <1>5 DEF IsTable
<1> QED
  BY <1>6 DEF T

LEMMA TableIsNoNoFib == ASSUME NEW ls \in SUBSET DOMAIN Links PROVE Table[ls] # NoFib
<1>1. <<NoNode, NoNode>> \notin DOMAIN Table[ls]
  BY TableFacts DEF IsTable
<1>2. <<NoNode, NoNode>> \in DOMAIN NoFib
  BY DEF NoFib
<1> QED
  BY <1>1, <1>2

LEMMA DistanceIsNat ==
    ASSUME NEW ls \in SUBSET DOMAIN Links, NEW n \in Nodes, NEW d
    PROVE  Distance(ls, n, d) \in Nat /\ Distance(ls, n, d) <= N - 1
<1>1. Nearer(ls, n, d) \subseteq Nodes \ {n} \/ <<n, d>> \notin DOMAIN Table[ls]
  <2> SUFFICES ASSUME <<n, d>> \in DOMAIN Table[ls] PROVE n \notin Nearer(ls, n, d)
    BY DEF Nearer
  <2>1. Best(ls, n, d) # NoPath /\ n # d
    BY TableFacts DEF IsTable
  <2>2. Far(ls, n, d) \in Nat
    BY <2>1, NodesFinite, WeightsPositive, NextIsNearer DEF Best, Far
  <2>3. ~(Far(ls, n, d) < Far(ls, n, d))
    BY <2>2
  <2> QED
    BY <2>3 DEF Nearer
<1>2. /\ IsFiniteSet(Nodes \ {n}) /\ Cardinality(Nodes \ {n}) = N - 1
      /\ N - 1 \in Nat
  <2>1. N - 1 = Cardinality(Nodes \ {n}) /\ IsFiniteSet(Nodes \ {n})
    BY NodesFinite, FS_RemoveElement DEF N
  <2> QED
    BY <2>1, FS_CardinalityType
<1>3. CASE <<n, d>> \in DOMAIN Table[ls]
  <2>1. Cardinality(Nearer(ls, n, d)) \in Nat /\ Cardinality(Nearer(ls, n, d)) <= N - 1
    BY <1>1, <1>2, <1>3, FS_Subset, FS_CardinalityType
  <2> QED
    BY <1>3, <2>1 DEF Distance
<1>4. CASE <<n, d>> \notin DOMAIN Table[ls]
  BY <1>2, <1>4 DEF Distance
<1> QED
  BY <1>3, <1>4

\* An entry of the table is a link, to the destination or to a node that has an
\* entry for it and is nearer.
LeadsOn(T, ls, x) ==
    /\ x = <<x[1], x[2]>> /\ x[1] \in Nodes /\ x[2] \in Nodes /\ x[1] # x[2]
    /\ T[x] \in Nodes /\ <<x[1], T[x]>> \in ls
    /\ T[x] = x[2] \/ <<T[x], x[2]>> \in DOMAIN T
    /\ Distance(ls, T[x], x[2]) < Distance(ls, x[1], x[2])

LEMMA EntryLeadsOn ==
    ASSUME NEW ls \in SUBSET DOMAIN Links, NEW x \in DOMAIN Table[ls]
    PROVE  LeadsOn(Table[ls], ls, x)
<1> DEFINE T == Table[ls]
           s == x[1]
           d == x[2]
           m == T[x]
<1>1. /\ x \in Nodes \X Nodes /\ s # d /\ Best(ls, s, d) # NoPath
      /\ m = Best(ls, s, d)[2]
  BY TableFacts DEF IsTable
<1>2. x = <<s, d>> /\ s \in Nodes /\ d \in Nodes
  BY <1>1
<1>3. /\ <<s, m>> \in ls /\ m \in Nodes /\ Best(ls, m, d) # NoPath
      /\ Far(ls, m, d) \in Nat /\ Far(ls, s, d) \in Nat /\ Far(ls, m, d) < Far(ls, s, d)
  BY <1>1, <1>2, NodesFinite, WeightsPositive, NextIsNearer DEF Best, Far
<1> HIDE DEF T, s, d, m
<1>4. m = d \/ <<m, d>> \in DOMAIN T
  <2>1. <<m, d>> \in Nodes \X Nodes
    BY <1>2, <1>3
  <2> QED
    BY <1>3, <2>1, TableFacts DEF IsTable, T
<1>5. IsFiniteSet(Nearer(ls, s, d)) /\ m \in Nearer(ls, s, d)
  BY <1>3, NodesFinite, FS_Subset DEF Nearer
<1>6. Distance(ls, s, d) = Cardinality(Nearer(ls, s, d))
  BY <1>2 DEF Distance, T
<1>7. CASE <<m, d>> \in DOMAIN T
  <2>1. Nearer(ls, m, d) \subseteq Nearer(ls, s, d)
    <3> SUFFICES ASSUME NEW v \in Nodes, Best(ls, v, d) # NoPath, Far(ls, v, d) < Far(ls, m, d)
                 PROVE  Far(ls, v, d) < Far(ls, s, d)
      BY DEF Nearer
    <3>1. Best(ls, v, d) \in SimplePaths(Nodes, Weight(ls))
      BY <1>2, NodesFinite, WeightsPositive, ShortestPathFacts DEF Best
    <3>2. Far(ls, v, d) \in Nat
      BY <3>1, NodesFinite, WeightsPositive, CostIsNat DEF Far
    <3> QED
      BY <1>3, <3>2
  <2>2. m \notin Nearer(ls, m, d)
    BY <1>3 DEF Nearer
  <2>3. Cardinality(Nearer(ls, m, d)) < Cardinality(Nearer(ls, s, d))
    <3>1. IsFiniteSet(Nearer(ls, m, d)) /\ Nearer(ls, m, d) # Nearer(ls, s, d)
      BY <1>5, <2>1, <2>2, FS_Subset
    <3>2. /\ Cardinality(Nearer(ls, m, d)) <= Cardinality(Nearer(ls, s, d))
          /\ Cardinality(Nearer(ls, m, d)) # Cardinality(Nearer(ls, s, d))
      BY <1>5, <2>1, <3>1, FS_Subset
    <3>3. Cardinality(Nearer(ls, m, d)) \in Nat /\ Cardinality(Nearer(ls, s, d)) \in Nat
      BY <1>5, <3>1, FS_CardinalityType
    <3> QED
      BY <3>2, <3>3
  <2>4. Distance(ls, m, d) = Cardinality(Nearer(ls, m, d))
    BY <1>7 DEF Distance, T
  <2> QED
    BY <1>1, <1>2, <1>3, <1>4, <1>6, <2>3, <2>4 DEF LeadsOn, T, s, d, m
<1>8. CASE <<m, d>> \notin DOMAIN T
  <2>1. Cardinality(Nearer(ls, s, d)) \in Nat /\ Cardinality(Nearer(ls, s, d)) # 0
    BY <1>5, FS_CardinalityType, FS_EmptySet
  <2>2. Distance(ls, m, d) = 0
    BY <1>8 DEF Distance, T
  <2>3. 0 < Distance(ls, s, d)
    BY <1>6, <2>1
  <2> QED
    BY <1>1, <1>2, <1>3, <1>4, <2>2, <2>3 DEF LeadsOn, T, s, d, m
<1> QED
  BY <1>7, <1>8

-----------------------------------------------------------------------------
(* Where a table leads.                                                    *)

IsTrail(t, T, n, d, k) ==
    t = [i \in 0..k |-> IF i = 0 THEN n ELSE IF t[i - 1] = d THEN d ELSE T[<<t[i - 1], d>>]]

\* There is a trail of any length.
LEMMA TrailExists == ASSUME NEW T, NEW n, NEW d, NEW k \in Nat PROVE \E t : IsTrail(t, T, n, d, k)
<1> DEFINE C == {j \in Nat : ~ \E t : IsTrail(t, T, n, d, j)}
<1> SUFFICES ASSUME C # {} PROVE FALSE
  OBVIOUS
<1>1. PICK m \in C : \A j \in C : m <= j
  <2>1. C \subseteq Nat
    OBVIOUS
  <2> HIDE DEF C
  <2> QED
    BY <2>1, LeastMember
<1>2. m \in Nat /\ ~ \E t : IsTrail(t, T, n, d, m)
  OBVIOUS
<1>3. CASE m = 0
  <2> DEFINE t == [i \in 0..0 |-> n]
  <2>1. t = [i \in 0..0 |-> IF i = 0 THEN n ELSE IF t[i - 1] = d THEN d ELSE T[<<t[i - 1], d>>]]
    OBVIOUS
  <2>2. IsTrail(t, T, n, d, 0)
    <3> HIDE DEF t
    <3> QED
      BY <2>1 DEF IsTrail
  <2> QED
    BY <1>2, <1>3, <2>2
<1>4. CASE m # 0
  <2>1. m - 1 \in Nat /\ ~(m <= m - 1)
    BY <1>2, <1>4
  <2>2. m - 1 \notin C
    <3> HIDE DEF C
    <3> QED
      BY <1>1, <2>1
  <2>3. PICK t : IsTrail(t, T, n, d, m - 1)
    BY <2>1, <2>2
  <2> DEFINE last == IF t[m - 1] = d THEN d ELSE T[<<t[m - 1], d>>]
             u == [i \in 0..m |-> IF i = m THEN last ELSE t[i]]
  <2>4. \A i \in 0..(m - 1) :
           t[i] = IF i = 0 THEN n ELSE IF t[i - 1] = d THEN d ELSE T[<<t[i - 1], d>>]
    <3>1. t = [i \in 0..(m - 1) |->
                 IF i = 0 THEN n ELSE IF t[i - 1] = d THEN d ELSE T[<<t[i - 1], d>>]]
      BY <2>3 DEF IsTrail
    <3> QED
      BY <3>1
  <2>5. ASSUME NEW i \in 0..m
        PROVE  u[i] = IF i = 0 THEN n ELSE IF u[i - 1] = d THEN d ELSE T[<<u[i - 1], d>>]
    <3>1. CASE i = m
      <4>1. m - 1 \in 0..m /\ m - 1 # m
        BY <1>2, <1>4
      <4>2. u[m - 1] = t[m - 1] /\ u[i] = last
        BY <3>1, <4>1
      <4> QED
        BY <1>4, <3>1, <4>2
    <3>2. CASE i # m
      <4>1. i \in 0..(m - 1) /\ (i # 0 => i - 1 \in 0..m /\ i - 1 # m)
        BY <1>2, <3>2
      <4>2. u[i] = t[i] /\ (i # 0 => u[i - 1] = t[i - 1])
        BY <3>2, <4>1
      <4> HIDE DEF u
      <4> QED
        BY <2>4, <4>1, <4>2
    <3> QED
      BY <3>1, <3>2
  <2>6. u = [i \in 0..m |-> IF i = 0 THEN n ELSE IF u[i - 1] = d THEN d ELSE T[<<u[i - 1], d>>]]
    <3>1. u = [i \in 0..m |-> u[i]]
      OBVIOUS
    <3> HIDE DEF u
    <3> QED
      BY <2>5, <3>1
  <2>7. IsTrail(u, T, n, d, m)
    <3> HIDE DEF u
    <3> QED
      BY <2>6 DEF IsTrail
  <2> QED
    BY <1>2, <2>7
<1> QED
  BY <1>3, <1>4

\* A trail starts at its node; it stays at the destination, and follows the
\* table elsewhere.
LEMMA TrailStep ==
    ASSUME NEW T, NEW n, NEW d
    PROVE  /\ Trail(T, n, d)[0] = n
           /\ \A i \in 1..N : Trail(T, n, d)[i] =
                IF Trail(T, n, d)[i - 1] = d THEN d ELSE T[<<Trail(T, n, d)[i - 1], d>>]
<1> DEFINE t == Trail(T, n, d)
<1>1. t = CHOOSE u : IsTrail(u, T, n, d, N)
  BY DEF Trail, IsTrail, N
<1>2. IsTrail(t, T, n, d, N)
  BY <1>1, TrailExists, NodesFinite
<1>3. ASSUME NEW u, IsTrail(u, T, n, d, N)
      PROVE  u[0] = n /\ \A i \in 1..N : u[i] = IF u[i - 1] = d THEN d ELSE T[<<u[i - 1], d>>]
  <2>1. u = [i \in 0..N |-> IF i = 0 THEN n ELSE IF u[i - 1] = d THEN d ELSE T[<<u[i - 1], d>>]]
    BY <1>3 DEF IsTrail
  <2>2. 0 \in 0..N /\ \A i \in 1..N : i \in 0..N /\ i # 0
    BY NodesFinite
  <2>3. u[0] = n
    BY <2>1, <2>2
  <2>4. ASSUME NEW i \in 1..N
        PROVE  u[i] = IF u[i - 1] = d THEN d ELSE T[<<u[i - 1], d>>]
    BY <2>1, <2>2
  <2> QED
    BY <2>3, <2>4
<1> QED
  BY ONLY <1>2, <1>3

\* Each hop leads nearer, so the trail from an entry ends at the destination.
LEMMA TrailEnds ==
    ASSUME NEW ls \in SUBSET DOMAIN Links, NEW n, NEW d, <<n, d>> \in DOMAIN Table[ls]
    PROVE  Trail(Table[ls], n, d)[N] = d
<1> DEFINE T == Table[ls]
           t == Trail(T, n, d)
           Near(i) == \/ t[i] = d
                      \/ /\ <<t[i], d>> \in DOMAIN T
                         /\ t[i] \in Nodes
                         /\ Distance(ls, t[i], d) + i <= N - 1
           C == {i \in 0..N : ~Near(i)}
<1>1. /\ t[0] = n
      /\ \A i \in 1..N : t[i] = IF t[i - 1] = d THEN d ELSE T[<<t[i - 1], d>>]
  BY TrailStep
<1>2. \A x \in DOMAIN T : LeadsOn(T, ls, x)
  BY EntryLeadsOn
<1>3. Near(0)
  <2>1. n \in Nodes
    BY <1>2 DEF LeadsOn
  <2>2. Distance(ls, n, d) \in Nat /\ Distance(ls, n, d) <= N - 1
    BY <2>1, DistanceIsNat
  <2> QED
    BY <1>1, <2>1, <2>2
<1> HIDE DEF t, T
<1>4. ASSUME NEW i \in 1..N, Near(i - 1) PROVE Near(i)
  <2>1. CASE t[i - 1] = d
    BY <1>1, <2>1
  <2>2. CASE t[i - 1] # d
    <3> DEFINE x == <<t[i - 1], d>>
    <3>1. x \in DOMAIN T /\ Distance(ls, t[i - 1], d) + (i - 1) <= N - 1 /\ t[i - 1] \in Nodes
      BY <1>4, <2>2
    <3>2. /\ T[x] \in Nodes /\ (T[x] = d \/ <<T[x], d>> \in DOMAIN T)
          /\ Distance(ls, T[x], d) < Distance(ls, t[i - 1], d)
      BY <1>2, <3>1 DEF LeadsOn
    <3>3. t[i] = T[x]
      BY <1>1, <2>2
    <3>4. Distance(ls, t[i - 1], d) \in Nat /\ Distance(ls, T[x], d) \in Nat
      BY <3>1, <3>2, DistanceIsNat
    <3>5. Distance(ls, T[x], d) + i <= N - 1
      BY <3>1, <3>2, <3>4, NodesFinite
    <3> QED
      BY <3>2, <3>3, <3>5
  <2> QED
    BY <2>1, <2>2
<1> HIDE DEF Near
<1>5. C = {}
  <2> SUFFICES ASSUME C # {} PROVE FALSE
    OBVIOUS
  <2>1. PICK m \in C : \A j \in C : m <= j
    <3>1. C \subseteq Nat
      OBVIOUS
    <3> HIDE DEF C
    <3> QED
      BY <3>1, LeastMember
  <2>2. m \in 0..N /\ ~Near(m)
    OBVIOUS
  <2>3. m # 0
    BY <1>3, <2>2
  <2>4. m \in 1..N /\ m - 1 \in 0..N /\ ~(m <= m - 1)
    BY <2>2, <2>3, NodesFinite
  <2>5. m - 1 \notin C
    <3> HIDE DEF C
    <3> QED
      BY <2>1, <2>4
  <2>6. Near(m - 1)
    BY <2>4, <2>5
  <2> QED
    BY <1>4, <2>2, <2>4, <2>6
<1>6. Near(N)
  BY <1>5, NodesFinite
<1>7. t[N] \in Nodes => Distance(ls, t[N], d) \in Nat
  BY DistanceIsNat
<1> QED
  BY <1>6, <1>7, NodesFinite DEF Near, t, T

\* What RoutesLeadOn says of a table.
IsRouteTable(T) == \E ls \in SUBSET DOMAIN Links : T = Table[ls]

LinksOf(T)       == CHOOSE ls \in SUBSET DOMAIN Links : T = Table[ls]
ToGo(T, n, d)    == Distance(LinksOf(T), n, d)

LEMMA RouteTable ==
    ASSUME NEW T, IsRouteTable(T)
    PROVE  /\ T # NoFib
           /\ \A x \in DOMAIN T : /\ x = <<x[1], x[2]>> /\ x[1] \in Nodes /\ x[2] \in Nodes
                                  /\ x[1] # x[2] /\ T[x] \in Nodes
                                  /\ T[x] = x[2] \/ <<T[x], x[2]>> \in DOMAIN T
                                  /\ ToGo(T, T[x], x[2]) < ToGo(T, x[1], x[2])
                                  /\ Trail(T, x[1], x[2])[N] = x[2]
           /\ \A n \in Nodes : \A d : ToGo(T, n, d) \in Nat /\ ToGo(T, n, d) <= N - 1
<1> DEFINE ls == LinksOf(T)
<1>1. ls \in SUBSET DOMAIN Links /\ T = Table[ls]
  BY DEF IsRouteTable, LinksOf
<1> HIDE DEF ls
<1>2. T # NoFib
  BY <1>1, TableIsNoNoFib
<1>3. \A x \in DOMAIN T : LeadsOn(T, ls, x)
  BY <1>1, EntryLeadsOn
<1>4. \A n, d : <<n, d>> \in DOMAIN T => Trail(T, n, d)[N] = d
  BY <1>1, TrailEnds
<1>5. \A n \in Nodes : \A d : ToGo(T, n, d) \in Nat /\ ToGo(T, n, d) <= N - 1
  BY <1>1, DistanceIsNat DEF ToGo, ls
<1>6. \A n, d : ToGo(T, n, d) = Distance(ls, n, d)
  BY DEF ToGo, ls
<1>7. ASSUME NEW x \in DOMAIN T
      PROVE  /\ x = <<x[1], x[2]>> /\ x[1] \in Nodes /\ x[2] \in Nodes
             /\ x[1] # x[2] /\ T[x] \in Nodes
             /\ T[x] = x[2] \/ <<T[x], x[2]>> \in DOMAIN T
             /\ ToGo(T, T[x], x[2]) < ToGo(T, x[1], x[2])
             /\ Trail(T, x[1], x[2])[N] = x[2]
  <2>1. LeadsOn(T, ls, x)
    BY <1>3
  <2>2. Trail(T, x[1], x[2])[N] = x[2]
    BY <1>4, <2>1 DEF LeadsOn
  <2>3. ToGo(T, T[x], x[2]) < ToGo(T, x[1], x[2])
    BY <1>6, <2>1 DEF LeadsOn
  <2> QED
    BY <2>1, <2>2, <2>3 DEF LeadsOn
<1> QED
  BY <1>2, <1>5, <1>7

-----------------------------------------------------------------------------
(* Deques: what the first packets of one add up to.                        *)

LEMMA PrefixType ==
    ASSUME NEW q \in Seq(Nat), NEW k \in 0..Len(q) PROVE Prefix(q, k) \in Nat /\ Prefix(q, 0) = 0
<1>1. IsFiniteSet(1..k) /\ 1..0 = {}
  BY FS_Interval
<1>2. \A i \in 1..k : q[i] \in Nat
  BY ElementOfSeq
<1> QED
  BY <1>1, <1>2, SumNat, SumEmpty DEF Prefix

LEMMA PrefixEmpty == Prefix(<<>>, Len(<<>>)) = 0 /\ Len(<<>>) = 0
<1>1. <<>> \in Seq(Nat) /\ Len(<<>>) = 0
  BY EmptySeq
<1>2. 1..0 = {}
  OBVIOUS
<1> QED
  BY <1>1, <1>2, SumEmpty DEF Prefix

\* One packet more.
LEMMA PrefixStep ==
    ASSUME NEW q \in Seq(Nat), NEW k \in 1..Len(q) PROVE Prefix(q, k) = Prefix(q, k - 1) + q[k]
<1>1. /\ IsFiniteSet(1..k) /\ k \in 1..k /\ (1..k) \ {k} = 1..(k - 1)
      /\ k - 1 \in 0..Len(q)
  <2>1. Len(q) \in Nat /\ k \in Nat /\ k # 0
    BY LenProperties
  <2>2. IsFiniteSet(1..k)
    BY <2>1, FS_Interval
  <2> QED
    BY <2>1, <2>2
<1>2. \A i \in 1..k : q[i] \in Int
  BY ElementOfSeq
<1>3. Prefix(q, k) = q[k] + Prefix(q, k - 1)
  BY <1>1, <1>2, SumRemove DEF Prefix
<1> QED
  BY SMTT(20), <1>1, <1>2, <1>3, PrefixType

\* Only the packets counted matter.
LEMMA PrefixAgree ==
    ASSUME NEW q, NEW r, NEW k \in Nat, \A i \in 1..k : q[i] = r[i]
    PROVE  Prefix(q, k) = Prefix(r, k)
<1>1. IsFiniteSet(1..k)
  BY FS_Interval
<1> QED
  BY <1>1, SumAgree DEF Prefix

LEMMA PrefixAppend ==
    ASSUME NEW q \in Seq(Nat), NEW x \in Nat
    PROVE  Prefix(Append(q, x), Len(q) + 1) = Prefix(q, Len(q)) + x
<1> DEFINE r == Append(q, x)
           n == Len(q)
<1>1. /\ r \in Seq(Nat) /\ Len(r) = n + 1 /\ n \in Nat
      /\ r[n + 1] = x /\ \A i \in 1..n : r[i] = q[i]
  BY AppendProperties, LenProperties
<1>2. Prefix(q, n) \in Nat
  BY <1>1, PrefixType
<1> HIDE DEF r, n
<1>3. n + 1 \in 1..Len(r) /\ (n + 1) - 1 = n
  BY <1>1
<1>4. Prefix(r, n + 1) = Prefix(r, (n + 1) - 1) + r[n + 1]
  BY <1>1, <1>3, PrefixStep
<1>5. Prefix(r, n) = Prefix(q, n)
  BY <1>1, PrefixAgree
<1>6. Prefix(r, n + 1) = Prefix(q, n) + x
  BY <1>1, <1>3, <1>4, <1>5
<1> QED
  BY <1>6 DEF r, n

\* What is left once the first k packets are gone.
LEMMA PrefixRest ==
    ASSUME NEW q \in Seq(Nat), NEW k \in 0..Len(q)
    PROVE  LET rest == SubSeq(q, k + 1, Len(q))
           IN  /\ rest \in Seq(Nat) /\ Len(rest) = Len(q) - k
               /\ Prefix(q, Len(q)) = Prefix(q, k) + Prefix(rest, Len(rest))
<1> DEFINE rest == SubSeq(q, k + 1, Len(q))
           Adds(j) == Prefix(q, k + j) = Prefix(q, k) + Prefix(rest, j)
           C == {j \in 0..(Len(q) - k) : ~Adds(j)}
<1>1. /\ Len(q) \in Nat /\ k \in Nat /\ Len(q) - k \in Nat
      /\ rest \in Seq(Nat) /\ Len(rest) = Len(q) - k
      /\ \A i \in 1..(Len(q) - k) : rest[i] = q[k + i]
  <2>1. Len(q) \in Nat /\ k \in Nat /\ k + 1 \in Int /\ \A i \in (k + 1)..Len(q) : q[i] \in Nat
    BY LenProperties, ElementOfSeq
  <2>2. /\ rest \in Seq(Nat) /\ Len(rest) = (IF k + 1 <= Len(q) THEN Len(q) - (k + 1) + 1 ELSE 0)
        /\ \A i \in 1..(Len(q) - (k + 1) + 1) : rest[i] = q[(k + 1) + i - 1]
    BY SMTT(20), <2>1, SubSeqProperties
  <2> HIDE DEF rest
  <2>3. Len(rest) = Len(q) - k /\ Len(q) - k \in Nat /\ Len(q) - (k + 1) + 1 = Len(q) - k
    BY <2>1, <2>2
  <2>4. \A i \in 1..(Len(q) - k) : rest[i] = q[k + i]
    BY SMTT(20), <2>1, <2>2, <2>3
  <2> QED
    BY <2>1, <2>2, <2>3, <2>4
<1> HIDE DEF rest
<1>2. Adds(0)
  <2>1. Prefix(q, k) \in Nat /\ Prefix(rest, 0) = 0
    BY <1>1, PrefixType
  <2> QED
    BY <1>1, <2>1
<1>3. ASSUME NEW j \in 1..(Len(q) - k), Adds(j - 1) PROVE Adds(j)
  <2>1. /\ k + j \in 1..Len(q) /\ j \in 1..Len(rest) /\ (k + j) - 1 = k + (j - 1)
        /\ j - 1 \in 0..Len(rest)
    BY <1>1
  <2>2. Prefix(q, k + j) = Prefix(q, k + (j - 1)) + q[k + j]
    BY <2>1, PrefixStep
  <2>3. Prefix(rest, j) = Prefix(rest, j - 1) + q[k + j]
    BY <1>1, <2>1, PrefixStep
  <2>4. Prefix(q, k) \in Nat /\ Prefix(rest, j - 1) \in Nat /\ q[k + j] \in Nat
    BY <1>1, <2>1, PrefixType, ElementOfSeq
  <2> QED
    BY <1>3, <2>2, <2>3, <2>4
<1> HIDE DEF Adds
<1>4. C = {}
  <2> SUFFICES ASSUME C # {} PROVE FALSE
    OBVIOUS
  <2>1. PICK m \in C : \A j \in C : m <= j
    <3>1. C \subseteq Nat
      OBVIOUS
    <3> HIDE DEF C
    <3> QED
      BY <3>1, LeastMember
  <2>2. m \in 0..(Len(q) - k) /\ ~Adds(m)
    OBVIOUS
  <2>3. m # 0
    BY <1>2, <2>2
  <2>4. m \in 1..(Len(q) - k) /\ m - 1 \in 0..(Len(q) - k) /\ ~(m <= m - 1)
    BY <1>1, <2>2, <2>3
  <2>5. m - 1 \notin C
    <3> HIDE DEF C
    <3> QED
      BY <2>1, <2>4
  <2>6. Adds(m - 1)
    BY <2>4, <2>5
  <2> QED
    BY <1>3, <2>2, <2>4, <2>6
<1>5. Adds(Len(q) - k) /\ k + (Len(q) - k) = Len(q)
  BY <1>1, <1>4
<1>6. Prefix(q, Len(q)) = Prefix(q, k) + Prefix(rest, Len(q) - k)
  BY <1>5 DEF Adds
<1>7. rest \in Seq(Nat) /\ Len(rest) = Len(q) - k
      /\ Prefix(q, Len(q)) = Prefix(q, k) + Prefix(rest, Len(rest))
  BY <1>1, <1>6
<1> QED
  BY <1>7 DEF rest

-----------------------------------------------------------------------------
(* Links and their deques.                                                 *)

LinksOK ==
    /\ nodes \subseteq Nodes
    /\ DOMAIN wire \subseteq (nodes \X nodes) \cap DOMAIN Links
    /\ \A e \in DOMAIN wire : /\ e \in wire[e] /\ wire[e] \in {{e}, {e, Opposite(e)}}
                              /\ wire[e] # {e} => e \in Symmetric
    /\ queue \in [Range(wire) -> Seq(Nat)]
    /\ \A e \in DOMAIN wire : Len(queue[wire[e]]) <= Links[e].max
    /\ bytes \in [DOMAIN wire -> Int]
    /\ age \in [DOMAIN wire -> 0..MaxAge]

\* There is no table, or every entry of it is a link present.
TableOK ==
    \/ fib = NoFib
    \/ IsRouteTable(fib) /\ \A x \in DOMAIN fib : <<x[1], fib[x]>> \in DOMAIN wire

\* Links over one deque have the same attributes.
LEMMA OneDeque ==
    ASSUME LinksOK, NEW e \in DOMAIN wire, NEW g \in DOMAIN wire, wire[e] = wire[g]
    PROVE  Links[e] = Links[g]
<1>1. g = e \/ (g = Opposite(e) /\ e \in Symmetric)
  BY DEF LinksOK
<1> QED
  BY <1>1, NetworkAssumption

\* The links over a deque: the two of a pair, or one.
LEMMA DequeFinite ==
    ASSUME LinksOK, NEW w \in Range(wire) PROVE IsFiniteSet(w)
<1>1. PICK e \in DOMAIN wire : w \in {{e}, {e, Opposite(e)}}
  BY DEF LinksOK, Range
<1>2. IsFiniteSet({e}) /\ IsFiniteSet({e, Opposite(e)})
  <2>1. IsFiniteSet({e}) /\ IsFiniteSet({e} \cup {Opposite(e)}) 
    BY FS_Singleton, FS_AddElement
  <2>2. {e} \cup {Opposite(e)} = {e, Opposite(e)}
    OBVIOUS
  <2> QED
    BY <2>1, <2>2
<1> QED
  BY <1>1, <1>2

LEMMA LinksInit == ASSUME Init PROVE LinksOK /\ TableOK /\ BytesQueued
<1>1. DOMAIN wire = DOMAIN Links /\ \A e \in DOMAIN wire : wire[e] = MadeFor(e)
  BY DEF Init
<1>2. Range(wire) = {MadeFor(e) : e \in DOMAIN Links}
  BY DEF Init, Range
<1>3. DOMAIN queue = Range(wire) /\ \A w \in Range(wire) : queue[w] = <<>>
  BY <1>2 DEF Init
<1>4. queue \in [Range(wire) -> Seq(Nat)]
  <2>1. queue = [w \in {MadeFor(e) : e \in DOMAIN Links} |-> <<>>]
    BY DEF Init
  <2> QED
    BY <1>2, <2>1
<1>5. \A e \in DOMAIN wire : Len(queue[wire[e]]) <= Links[e].max
  <2> TAKE e \in DOMAIN wire
  <2>1. queue[wire[e]] = <<>>
    BY <1>3 DEF Range
  <2>2. Links[e].max \in Nat
    BY <1>1, NetworkAssumption
  <2> QED
    BY <2>1, <2>2
<1>6. bytes \in [DOMAIN wire -> Int] /\ age \in [DOMAIN wire -> 0..MaxAge]
  BY <1>1, NetworkAssumption DEF Init
<1>7. LinksOK
  BY <1>1, <1>4, <1>5, <1>6, NetworkAssumption DEF LinksOK, Init, MadeFor
<1>8. TableOK
  BY DEF Init, TableOK
<1>9. BytesQueued
  <2> SUFFICES ASSUME NEW w \in Range(wire), \A e \in w : e \in DOMAIN wire /\ wire[e] = w
               PROVE  SumFunctionOnSet(bytes, w) = Prefix(queue[w], Len(queue[w]))
    BY DEF BytesQueued
  <2>1. queue[w] = <<>>
    BY <1>3
  <2>2. \A e \in w : bytes[e] = 0
    BY <1>1 DEF Init
  <2>3. SumFunctionOnSet(bytes, w) = 0
    BY <1>7, <2>2, DequeFinite, SumZero
  <2> QED
    BY <2>1, <2>3, PrefixEmpty
<1> QED
  BY <1>7, <1>8, <1>9

LEMMA LinksGenerate ==
    ASSUME LinksOK, BytesQueued, Generate PROVE LinksOK' /\ BytesQueued'
<1>1. /\ nodes' = nodes /\ wire' = wire /\ queue' = queue /\ bytes' = bytes
      /\ age' = [e \in DOMAIN wire |-> Min({age[e] + 1, MaxAge})]
  BY DEF Generate, topology
<1>2. \A e \in DOMAIN wire : Min({age[e] + 1, MaxAge}) \in 0..MaxAge
  <2> TAKE e \in DOMAIN wire
  <2>1. age[e] + 1 \in Nat /\ MaxAge \in Nat
    BY NetworkAssumption DEF LinksOK
  <2>2. Min({age[e] + 1, MaxAge}) = IF age[e] + 1 <= MaxAge THEN age[e] + 1 ELSE MaxAge
    BY <2>1 DEF Min
  <2> QED
    BY <2>1, <2>2
<1>3. age' \in [DOMAIN wire -> 0..MaxAge]
  BY <1>1, <1>2
<1>4. LinksOK'
  BY <1>1, <1>3 DEF LinksOK
<1>5. BytesQueued'
  BY <1>1 DEF BytesQueued
<1> QED
  BY <1>4, <1>5

\* Draining a deque and filling it: what leaves it is taken off the link that
\* drains it, what enters is added there.
LEMMA LinksOver ==
    ASSUME LinksOK, BytesQueued, nodes' = nodes, wire' = wire,
           NEW e \in DOMAIN wire, NEW p, p.flow \in DOMAIN Flows, Over(e, p)
    PROVE  LinksOK' /\ BytesQueued'
<1> DEFINE q == queue[wire[e]]
           size == Flows[p.flow].size
<1>1. PICK k \in 0..Len(q) :
        LET rest == SubSeq(q, k + 1, Len(q))
        IN  /\ age' = [age EXCEPT ![e] = 0]
            /\ \/ /\ queue' = [queue EXCEPT ![wire[e]] = rest]
                  /\ bytes' = [bytes EXCEPT ![e] = BytesLeft(e, k)]
               \/ /\ ~Full(rest, e)
                  /\ queue' = [queue EXCEPT ![wire[e]] = Append(rest, size)]
                  /\ bytes' = [bytes EXCEPT ![e] = BytesLeft(e, k) + size]
  BY DEF Over
<1> DEFINE rest == SubSeq(q, k + 1, Len(q))
<1>2. /\ wire[e] \in Range(wire) /\ q \in Seq(Nat) /\ Len(q) \in Nat
      /\ bytes[e] \in Int /\ size \in Nat /\ Links[e].max \in Nat /\ Len(q) <= Links[e].max
  <2>1. wire[e] \in Range(wire)
    BY DEF Range
  <2>2. e \in DOMAIN Links
    BY DEF LinksOK
  <2> QED
    BY <2>1, <2>2, LenProperties, NetworkAssumption DEF LinksOK
<1>3. /\ rest \in Seq(Nat) /\ Len(rest) = Len(q) - k
      /\ Prefix(q, Len(q)) = Prefix(q, k) + Prefix(rest, Len(rest))
  BY <1>2, PrefixRest
<1>4. Prefix(q, k) \in Nat /\ Prefix(rest, Len(rest)) \in Nat
  <2>1. Len(rest) \in 0..Len(rest)
    BY <1>3, LenProperties
  <2> QED
    BY <1>2, <1>3, <2>1, PrefixType
<1>5. BytesLeft(e, k) = bytes[e] - Prefix(q, k)
  BY DEF BytesLeft
<1> HIDE DEF q, size, rest
<1>6. PICK new, more :
        /\ queue' = [queue EXCEPT ![wire[e]] = new]
        /\ bytes' = [bytes EXCEPT ![e] = more]
        /\ new \in Seq(Nat) /\ Len(new) <= Links[e].max
        /\ more = bytes[e] - Prefix(q, Len(q)) + Prefix(new, Len(new))
  <2>1. CASE /\ queue' = [queue EXCEPT ![wire[e]] = rest]
             /\ bytes' = [bytes EXCEPT ![e] = BytesLeft(e, k)]
    <3>1. Len(rest) <= Links[e].max
      BY <1>2, <1>3
    <3>2. BytesLeft(e, k) = bytes[e] - Prefix(q, Len(q)) + Prefix(rest, Len(rest))
      BY <1>2, <1>3, <1>4, <1>5
    <3> QED
      BY <2>1, <3>1, <3>2, <1>3
  <2>2. CASE /\ ~Full(rest, e)
             /\ queue' = [queue EXCEPT ![wire[e]] = Append(rest, size)]
             /\ bytes' = [bytes EXCEPT ![e] = BytesLeft(e, k) + size]
    <3> DEFINE new == Append(rest, size)
    <3>1. new \in Seq(Nat) /\ Len(new) = Len(rest) + 1 /\ Len(rest) \in Nat
      BY <1>2, <1>3, AppendProperties, LenProperties
    <3>2. Prefix(new, Len(rest) + 1) = Prefix(rest, Len(rest)) + size
      BY <1>2, <1>3, PrefixAppend
    <3> HIDE DEF new
    <3>3. Len(new) <= Links[e].max
      BY <1>2, <2>2, <3>1 DEF Full
    <3>4. BytesLeft(e, k) + size = bytes[e] - Prefix(q, Len(q)) + Prefix(new, Len(new))
      BY SMTT(20), <1>2, <1>3, <1>4, <1>5, <3>1, <3>2
    <3> QED
      BY <2>2, <3>1, <3>3, <3>4 DEF new
  <2> QED
    BY <1>1, <2>1, <2>2 DEF q, size, rest
<1>7. more \in Int
  <2>1. Prefix(q, Len(q)) \in Nat /\ Prefix(new, Len(new)) \in Nat
    BY <1>2, <1>6, PrefixType, LenProperties
  <2> QED
    BY <1>2, <1>6, <2>1
<1>8. queue' \in [Range(wire) -> Seq(Nat)] /\ bytes' \in [DOMAIN wire -> Int]
  BY <1>6, <1>7 DEF LinksOK
<1>9. age' \in [DOMAIN wire -> 0..MaxAge]
  BY <1>1, NetworkAssumption DEF LinksOK
<1>10. \A g \in DOMAIN wire : Len(queue'[wire[g]]) <= Links[g].max
  <2> TAKE g \in DOMAIN wire
  <2>1. CASE wire[g] = wire[e]
    <3>1. queue'[wire[g]] = new
      BY <1>2, <1>6, <2>1 DEF LinksOK
    <3>2. Links[g] = Links[e]
      BY <2>1, OneDeque
    <3> QED
      BY <1>6, <3>1, <3>2
  <2>2. CASE wire[g] # wire[e]
    <3>1. wire[g] \in Range(wire)
      BY DEF Range
    <3>2. queue'[wire[g]] = queue[wire[g]]
      BY <1>6, <2>2, <3>1 DEF LinksOK
    <3> QED
      BY <3>2 DEF LinksOK
  <2> QED
    BY <2>1, <2>2
<1>11. LinksOK'
  BY <1>8, <1>9, <1>10 DEF LinksOK
<1>12. BytesQueued'
  <2> SUFFICES ASSUME NEW w \in Range(wire), \A g \in w : g \in DOMAIN wire /\ wire[g] = w
               PROVE  SumFunctionOnSet(bytes', w) = Prefix(queue'[w], Len(queue'[w]))
    BY DEF BytesQueued
  <2>1. SumFunctionOnSet(bytes, w) = Prefix(queue[w], Len(queue[w]))
    BY DEF BytesQueued
  <2>2. IsFiniteSet(w) /\ \A g \in w : bytes[g] \in Int /\ bytes'[g] \in Int
    BY <1>8, DequeFinite DEF LinksOK
  <2>3. \A g \in w \ {e} : bytes'[g] = bytes[g]
    BY <1>6 DEF LinksOK
  <2>4. CASE e \in w
    <3>1. w = wire[e] /\ queue'[w] = new /\ queue[w] = q
      BY <1>2, <1>6, <2>4 DEF LinksOK, q
    <3>2. SumFunctionOnSet(bytes', w) = SumFunctionOnSet(bytes, w) - bytes[e] + bytes'[e]
      BY <2>2, <2>3, <2>4, SumUpdate
    <3>3. bytes'[e] = more
      BY <1>6 DEF LinksOK
    <3>4. Prefix(q, Len(q)) \in Nat /\ Prefix(new, Len(new)) \in Nat
      BY <1>2, <1>6, PrefixType, LenProperties
    <3>5. SumFunctionOnSet(bytes', w) =
             Prefix(q, Len(q)) - bytes[e] + (bytes[e] - Prefix(q, Len(q)) + Prefix(new, Len(new)))
      BY <1>6, <2>1, <3>1, <3>2, <3>3
    <3>6. SumFunctionOnSet(bytes', w) = Prefix(new, Len(new))
      BY <1>2, <3>4, <3>5
    <3> QED
      BY <3>1, <3>6
  <2>5. CASE e \notin w
    <3>1. w # wire[e]
      BY <2>5 DEF LinksOK
    <3>2. queue'[w] = queue[w]
      BY <1>6, <3>1 DEF LinksOK
    <3>3. SumFunctionOnSet(bytes', w) = SumFunctionOnSet(bytes, w)
      BY <2>2, <2>3, <2>5, SumAgree
    <3> QED
      BY <2>1, <3>2, <3>3
  <2> QED
    BY <2>4, <2>5
<1> QED
  BY <1>11, <1>12

\* A link that goes takes its attributes with it; the deque stays under the
\* other direction.
LEMMA LinksWithout ==
    ASSUME LinksOK, BytesQueued, NEW es, Without(es), nodes' \subseteq nodes,
           DOMAIN wire \ es \subseteq nodes' \X nodes'
    PROVE  LinksOK' /\ BytesQueued'
<1> DEFINE left == [e \in DOMAIN wire \ es |-> wire[e]]
<1>1. /\ wire' = left
      /\ queue' = [w \in Range(left) |-> queue[w]]
      /\ bytes' = [e \in DOMAIN left |-> bytes[e]]
      /\ age' = [e \in DOMAIN left |-> age[e]]
  BY DEF Without
<1>2. DOMAIN left = DOMAIN wire \ es /\ \A e \in DOMAIN left : left[e] = wire[e]
  OBVIOUS
<1> HIDE DEF left
<1>3. Range(left) \subseteq Range(wire)
  BY <1>2 DEF Range
<1>4. queue' \in [Range(left) -> Seq(Nat)] /\ \A w \in Range(left) : queue'[w] = queue[w]
  <2>1. \A w \in Range(left) : queue[w] \in Seq(Nat)
    BY <1>3 DEF LinksOK
  <2> QED
    BY <1>1, <2>1
<1>5. /\ bytes' \in [DOMAIN left -> Int] /\ age' \in [DOMAIN left -> 0..MaxAge]
      /\ \A e \in DOMAIN left : bytes'[e] = bytes[e]
  BY <1>1, <1>2 DEF LinksOK
<1>6. \A e \in DOMAIN left : left[e] \in Range(left)
  BY DEF Range
<1>7. \A e \in DOMAIN left : Len(queue'[left[e]]) <= Links[e].max
  BY <1>2, <1>4, <1>6 DEF LinksOK
<1>8. LinksOK'
  BY <1>1, <1>2, <1>4, <1>5, <1>7 DEF LinksOK
<1>9. BytesQueued'
  <2> SUFFICES ASSUME NEW w \in Range(left), \A e \in w : e \in DOMAIN left /\ left[e] = w
               PROVE  SumFunctionOnSet(bytes', w) = Prefix(queue'[w], Len(queue'[w]))
    BY <1>1 DEF BytesQueued
  <2>1. w \in Range(wire) /\ \A e \in w : e \in DOMAIN wire /\ wire[e] = w
    BY <1>2, <1>3
  <2>2. SumFunctionOnSet(bytes, w) = Prefix(queue[w], Len(queue[w])) /\ IsFiniteSet(w)
    BY <2>1, DequeFinite DEF BytesQueued
  <2>3. SumFunctionOnSet(bytes', w) = SumFunctionOnSet(bytes, w)
    BY <1>5, <2>2, SumAgree
  <2> QED
    BY <1>4, <2>2, <2>3
<1> QED
  BY <1>8, <1>9

\* A new link has a deque of its own, and it is empty.
LEMMA LinksAdd ==
    ASSUME LinksOK, BytesQueued, NEW e \in DOMAIN Links \ DOMAIN wire, {e[1], e[2]} \subseteq nodes,
           AddLink(e)
    PROVE  LinksOK' /\ BytesQueued' /\ (TableOK => TableOK')
<1>1. /\ wire' = With(wire, e, {e}) /\ queue' = With(queue, {e}, <<>>)
      /\ bytes' = With(bytes, e, 0) /\ age' = With(age, e, 0)
      /\ nodes' = nodes /\ fib' = fib
  BY DEF AddLink
<1>2. /\ DOMAIN wire' = DOMAIN wire \cup {e} /\ wire'[e] = {e}
      /\ \A g \in DOMAIN wire : wire'[g] = wire[g] /\ g # e
  BY <1>1 DEF With
<1>3. Range(wire') = Range(wire) \cup {{e}}
  BY <1>2 DEF Range
<1>4. {e} \notin Range(wire)
  BY DEF LinksOK, Range
<1>5. /\ queue' \in [Range(wire') -> Seq(Nat)] /\ queue'[{e}] = <<>>
      /\ \A w \in Range(wire) : queue'[w] = queue[w]
  <2>1. DOMAIN queue = Range(wire) /\ \A w \in Range(wire) : queue[w] \in Seq(Nat)
    BY DEF LinksOK
  <2>2. queue' = [w \in Range(wire') |-> IF w = {e} THEN <<>> ELSE queue[w]]
    BY <1>1, <1>3, <2>1 DEF With
  <2>3. \A w \in Range(wire') : (IF w = {e} THEN <<>> ELSE queue[w]) \in Seq(Nat)
    BY <1>3, <2>1
  <2> QED
    BY <1>3, <1>4, <2>2, <2>3
<1>6. /\ bytes' \in [DOMAIN wire' -> Int] /\ bytes'[e] = 0
      /\ \A g \in DOMAIN wire : bytes'[g] = bytes[g]
  BY <1>1, <1>2 DEF With, LinksOK
<1>7. age' \in [DOMAIN wire' -> 0..MaxAge]
  <2>1. 0 \in 0..MaxAge
    BY NetworkAssumption
  <2> QED
    BY <1>1, <1>2, <2>1 DEF With, LinksOK
<1>8. e = <<e[1], e[2]>> /\ Links[e].max \in Nat
  BY NetworkAssumption
<1>9. \A g \in DOMAIN wire' : Len(queue'[wire'[g]]) <= Links[g].max
  <2> TAKE g \in DOMAIN wire'
  <2>1. CASE g = e
    <3>1. queue'[wire'[g]] = <<>>
      BY <1>2, <1>5, <2>1
    <3> QED
      BY <1>8, <2>1, <3>1, PrefixEmpty
  <2>2. CASE g # e
    <3>1. g \in DOMAIN wire /\ wire[g] \in Range(wire)
      BY <1>2, <2>2 DEF Range
    <3> QED
      BY <1>2, <1>5, <3>1 DEF LinksOK
  <2> QED
    BY <2>1, <2>2
<1>10. LinksOK'
  <2>1. DOMAIN wire' \subseteq (nodes' \X nodes') \cap DOMAIN Links
    BY <1>1, <1>2, <1>8 DEF LinksOK
  <2>2. \A g \in DOMAIN wire' : /\ g \in wire'[g] /\ wire'[g] \in {{g}, {g, Opposite(g)}}
                                /\ wire'[g] # {g} => g \in Symmetric
    BY <1>2 DEF LinksOK
  <2>3. nodes' \subseteq Nodes
    BY <1>1 DEF LinksOK
  <2> QED
    BY <1>5, <1>6, <1>7, <1>9, <2>1, <2>2, <2>3 DEF LinksOK
<1>11. BytesQueued'
  <2> SUFFICES ASSUME NEW w \in Range(wire'), \A g \in w : g \in DOMAIN wire' /\ wire'[g] = w
               PROVE  SumFunctionOnSet(bytes', w) = Prefix(queue'[w], Len(queue'[w]))
    BY DEF BytesQueued
  <2>1. CASE w = {e}
    <3>1. SumFunctionOnSet(bytes', w) = 0
      BY <1>6, <2>1, SumSingle
    <3>2. queue'[w] = <<>>
      BY <1>5, <2>1
    <3> QED
      BY <3>1, <3>2, PrefixEmpty
  <2>2. CASE w # {e}
    <3>1. w \in Range(wire) /\ e \notin w
      BY <1>2, <1>3, <2>2
    <3>2. \A g \in w : g \in DOMAIN wire /\ wire[g] = w
      BY <1>2, <3>1
    <3>3. SumFunctionOnSet(bytes, w) = Prefix(queue[w], Len(queue[w])) /\ IsFiniteSet(w)
      BY <3>1, <3>2, DequeFinite DEF BytesQueued
    <3>4. SumFunctionOnSet(bytes', w) = SumFunctionOnSet(bytes, w)
      BY <1>6, <3>2, <3>3, SumAgree
    <3> QED
      BY <1>5, <3>1, <3>3, <3>4
  <2> QED
    BY <2>1, <2>2
<1>12. TableOK => TableOK'
  BY <1>1, <1>2 DEF TableOK
<1> QED
  BY <1>10, <1>11, <1>12

-----------------------------------------------------------------------------
(* Packets: the boxes they wait in.                                        *)

Packets == [flow : DOMAIN Flows, num : Nat]
Flying  == [flow : DOMAIN Flows, num : Nat, dst : Nodes, prev : Nodes \cup {NoNode}, hops : Nat]

PacketsOK ==
    /\ at \in Placements
    /\ generated \in [Apps -> Seq(Packets)]
    /\ local \in [Nodes -> Seq(Flying)]
    /\ buffer \in [Nodes -> Seq(Flying)]
    /\ next \in [Nodes -> Seq(Flying)]
    /\ due \in 0..MaxDue
    /\ routing \in Seq(Apps)
    /\ phase \in {"idle", "inject", "forward"}
    /\ (phase = "idle") = (routing = <<>>)
    /\ sent \in [DOMAIN Flows -> Nat]
    /\ \A f \in DOMAIN Flows : sent[f] <= MaxPackets[f]
    /\ delivered \in [DOMAIN Flows -> Seq(Nat)]
    /\ ended \in [Fates -> SUBSET Packets]
    /\ changes \in 0..MaxChanges

\* Only hosts have packets of their own, nothing waits at a node that is gone,
\* and outside a routing nothing has been passed on.
EmptyOK ==
    /\ \A n \in Nodes \ ToSet(Hosts) : local[n] = <<>>
    /\ \A n \in Nodes \ nodes : local[n] = <<>> /\ buffer[n] = <<>> /\ next[n] = <<>>
    /\ phase # "forward" => next = Empty

GeneratedOK ==
    \A a \in Apps : \A p \in ToSet(generated[a]) : Flows[p.flow].app = a

LEMMA SetToSeqFacts ==
    ASSUME NEW S, IsFiniteSet(S)
    PROVE  /\ Len(SetToSeq(S)) \in Nat /\ DOMAIN SetToSeq(S) = 1..Len(SetToSeq(S))
           /\ \A x : x \in S <=> \E i \in 1..Len(SetToSeq(S)) : SetToSeq(S)[i] = x
           /\ \A i, j \in 1..Len(SetToSeq(S)) : SetToSeq(S)[i] = SetToSeq(S)[j] => i = j
<1> DEFINE n == Cardinality(S)
           f == SetToSeq(S)
<1>1. n \in Nat /\ ExistsBijection(1..n, S)
  BY FS_CardinalityType
<1>2. f \in [1..n -> S] /\ IsInjective(f)
  <2>1. PICK g : g \in Bijection(1..n, S)
    BY <1>1 DEF ExistsBijection
  <2>2. g \in [1..n -> S] /\ IsInjective(g)
    BY <2>1 DEF Bijection, Injection, IsInjective
  <2> QED
    BY <2>2 DEF SetToSeq
<1> HIDE DEF f
<1>3. f \in Injection(1..n, S) /\ IsFiniteSet(1..n) /\ Cardinality(1..n) = n
  BY <1>1, <1>2, FS_Interval DEF Injection, IsInjective
<1>4. f \in Surjection(1..n, S)
  BY <1>3, FS_Injection
<1>5. Len(f) = n /\ DOMAIN f = 1..n
  BY <1>1, <1>2
<1>6. \A x : x \in S <=> \E i \in 1..n : f[i] = x
  BY <1>2, <1>4 DEF Surjection
<1>7. \A i, j \in 1..n : f[i] = f[j] => i = j
  BY <1>2 DEF IsInjective
<1>8. /\ Len(f) \in Nat /\ DOMAIN f = 1..Len(f)
      /\ \A x : x \in S <=> \E i \in 1..Len(f) : f[i] = x
      /\ \A i, j \in 1..Len(f) : f[i] = f[j] => i = j
  BY <1>1, <1>5, <1>6, <1>7
<1> QED
  BY <1>8 DEF f

\* The packets of a flow, in the order of their numbers.
InNumber == {x \in Packets \X Packets : x[1].flow = x[2].flow => x[1].num < x[2].num}

LEMMA DrawnFacts ==
    ASSUME PacketsOK, NEW a \in Apps, NEW count \in [DOMAIN Flows -> Nat]
    PROVE  /\ Drawn(a, count) \in Seq(Packets)
           /\ \A p : p \in ToSet(Drawn(a, count)) <=>
                       /\ p \in Packets /\ Flows[p.flow].app = a
                       /\ sent[p.flow] < p.num /\ p.num <= sent[p.flow] + count[p.flow]
           /\ Ranked(Drawn(a, count), InNumber)
<1> DEFINE flows == SetToSeq(FlowsOf(a))
           Burst(f) == [i \in 1..count[f] |-> [flow |-> f, num |-> sent[f] + i]]
           ss == [i \in DOMAIN flows |-> Burst(flows[i])]
<1>1. IsFiniteSet(FlowsOf(a)) /\ FlowsOf(a) \subseteq DOMAIN Flows
  BY NetworkAssumption, FS_Subset DEF FlowsOf
<1>2. /\ Len(flows) \in Nat /\ DOMAIN flows = 1..Len(flows)
      /\ \A x : x \in FlowsOf(a) <=> \E i \in 1..Len(flows) : flows[i] = x
      /\ \A i, j \in 1..Len(flows) : flows[i] = flows[j] => i = j
  BY <1>1, SetToSeqFacts
<1> HIDE DEF flows
<1>3. \A f \in DOMAIN Flows : sent[f] \in Nat /\ count[f] \in Nat
  BY DEF PacketsOK
<1>4. ASSUME NEW f \in DOMAIN Flows
      PROVE  /\ Burst(f) \in Seq(Packets) /\ Ranked(Burst(f), InNumber)
             /\ \A p : p \in ToSet(Burst(f)) <=>
                  /\ p \in Packets /\ p.flow = f
                  /\ sent[f] < p.num /\ p.num <= sent[f] + count[f]
  <2> DEFINE b == Burst(f)
  <2>1. sent[f] \in Nat /\ count[f] \in Nat
    BY <1>3
  <2>2. \A i \in 1..count[f] : sent[f] + i \in Nat /\ [flow |-> f, num |-> sent[f] + i] \in Packets
    BY <2>1 DEF Packets
  <2>3. /\ b \in Seq(Packets) /\ Len(b) = count[f]
        /\ \A i \in 1..count[f] : b[i] = [flow |-> f, num |-> sent[f] + i]
    BY <2>1, <2>2
  <2> HIDE DEF b
  <2>4. Ranked(b, InNumber)
    <3> SUFFICES ASSUME NEW i \in 1..count[f], NEW j \in 1..count[f], i < j
                 PROVE  <<b[i], b[j]>> \in InNumber
      BY <2>3 DEF Ranked
    <3>1. b[i] \in Packets /\ b[j] \in Packets /\ b[i].num < b[j].num
      BY <2>1, <2>2, <2>3
    <3> QED
      BY <3>1 DEF InNumber
  <2>5. ASSUME NEW p
        PROVE  p \in ToSet(b) <=> /\ p \in Packets /\ p.flow = f
                                  /\ sent[f] < p.num /\ p.num <= sent[f] + count[f]
    <3>1. p \in ToSet(b) <=> \E i \in 1..count[f] : b[i] = p
      BY <2>3, MemberOf
    <3>2. ASSUME p \in Packets, p.flow = f, sent[f] < p.num, p.num <= sent[f] + count[f]
          PROVE  p \in ToSet(b)
      <4>1. p.num \in Nat /\ p = [flow |-> f, num |-> p.num]
        BY <3>2 DEF Packets
      <4>2. p.num - sent[f] \in 1..count[f] /\ sent[f] + (p.num - sent[f]) = p.num
        BY <2>1, <3>2, <4>1
      <4>3. b[p.num - sent[f]] = p
        BY <2>3, <4>1, <4>2
      <4> QED
        BY <3>1, <4>2, <4>3
    <3>3. ASSUME NEW i \in 1..count[f], b[i] = p
          PROVE  p \in Packets /\ p.flow = f /\ sent[f] < p.num /\ p.num <= sent[f] + count[f]
      <4>1. p = [flow |-> f, num |-> sent[f] + i] /\ p \in Packets
        BY <2>2, <2>3, <3>3
      <4> QED
        BY <2>1, <4>1
    <3> QED
      BY <3>1, <3>2, <3>3
  <2> QED
    BY <2>3, <2>4, <2>5 DEF b
<1> HIDE DEF Burst
<1>5. Len(ss) = Len(flows) /\ \A m \in 1..Len(flows) : ss[m] = Burst(flows[m])
  BY <1>2
<1>6. \A m \in 1..Len(flows) : flows[m] \in DOMAIN Flows /\ flows[m] \in FlowsOf(a)
  BY <1>1, <1>2
<1>7. Drawn(a, count) = Joined(ss)
  BY DEF Drawn, flows, Burst
<1> HIDE DEF ss
<1>8. \A m \in 1..Len(ss) : ss[m] \in Seq(Packets) /\ Ranked(ss[m], InNumber)
  BY <1>4, <1>5, <1>6
<1>9. ASSUME NEW l \in 1..Len(ss), NEW m \in 1..Len(ss), l < m,
             NEW x \in ToSet(ss[l]), NEW y \in ToSet(ss[m])
      PROVE  <<x, y>> \in InNumber
  <2>1. flows[l] # flows[m]
    BY <1>2, <1>5, <1>9
  <2>2. x \in Packets /\ x.flow = flows[l] /\ y \in Packets /\ y.flow = flows[m]
    BY <1>4, <1>5, <1>6
  <2> QED
    BY <2>1, <2>2 DEF InNumber
<1>10. /\ Joined(ss) \in Seq(Packets) /\ Ranked(Joined(ss), InNumber)
       /\ \A x : x \in ToSet(Joined(ss)) <=> \E m \in 1..Len(ss) : x \in ToSet(ss[m])
  <2>1. Len(ss) \in Nat
    BY <1>2, <1>5
  <2> QED
    BY <1>8, <1>9, <2>1, JoinedFacts
<1>11. ASSUME NEW p
       PROVE  p \in ToSet(Joined(ss)) <=>
                       /\ p \in Packets /\ Flows[p.flow].app = a
                       /\ sent[p.flow] < p.num /\ p.num <= sent[p.flow] + count[p.flow]
  <2>1. ASSUME NEW m \in 1..Len(ss), p \in ToSet(ss[m])
        PROVE  /\ p \in Packets /\ Flows[p.flow].app = a
               /\ sent[p.flow] < p.num /\ p.num <= sent[p.flow] + count[p.flow]
    <3>1. p \in ToSet(Burst(flows[m])) /\ flows[m] \in DOMAIN Flows /\ flows[m] \in FlowsOf(a)
      BY <1>5, <1>6, <2>1
    <3> QED
      BY <1>4, <3>1 DEF FlowsOf
  <2>2. ASSUME p \in Packets, Flows[p.flow].app = a,
               sent[p.flow] < p.num, p.num <= sent[p.flow] + count[p.flow]
        PROVE  \E m \in 1..Len(ss) : p \in ToSet(ss[m])
    <3>1. p.flow \in DOMAIN Flows /\ p.flow \in FlowsOf(a)
      BY <2>2 DEF Packets, FlowsOf
    <3>2. PICK m \in 1..Len(flows) : flows[m] = p.flow
      BY <1>2, <3>1
    <3>3. p \in ToSet(Burst(p.flow))
      BY <1>4, <2>2, <3>1
    <3> QED
      BY <1>5, <3>2, <3>3
  <2> QED
    BY <1>10, <2>1, <2>2
<1> QED
  BY <1>7, <1>10, <1>11

\* Any order of the generated packets that stamping them respects.
KeepsOrder(a, ps, n) ==
    \A R, Q : /\ Ranked(generated[a], R)
              /\ \A p, q \in ToSet(generated[a]) :
                   /\ <<p, q>> \in R
                   /\ Injects(p) /\ Injects(q) /\ Src(p) = n /\ Src(q) = n
                   => <<Stamped(p), Stamped(q)>> \in Q
              => Ranked(Injected(a, ps, n), Q)

\* Injection keeps the packets that start at the node, in their order.
LEMMA InjectedFacts ==
    ASSUME PacketsOK, NEW a \in Apps, NEW ps \in SUBSET ToSet(generated[a]), NEW n \in Nodes
    PROVE  /\ Injected(a, ps, n) \in Seq(Flying)
           /\ \A q : q \in ToSet(Injected(a, ps, n)) <=>
                       \E p \in ps : Injects(p) /\ Src(p) = n /\ q = Stamped(p)
           /\ KeepsOrder(a, ps, n)
<1> DEFINE S == {p \in ps : Injects(p) /\ Src(p) = n}
           mine == Sublist(generated[a], S)
           r == Injected(a, ps, n)
<1>1. generated[a] \in Seq(Packets)
  BY DEF PacketsOK
<1>2. /\ mine \in Seq(Packets) /\ ToSet(mine) = ToSet(generated[a]) \cap S
      /\ \A R : Ranked(generated[a], R) => Ranked(mine, R)
  BY <1>1, SublistOrdered
<1>3. r = [i \in DOMAIN mine |-> Stamped(mine[i])]
  BY DEF Injected
<1> HIDE DEF mine, r
<1>4. /\ Len(mine) \in Nat /\ DOMAIN mine = 1..Len(mine)
      /\ \A x : x \in ToSet(mine) <=> \E i \in 1..Len(mine) : mine[i] = x
      /\ ToSet(generated[a]) \subseteq Packets
  BY <1>1, <1>2, MemberOf
<1>5. \A p \in S : Stamped(p) \in Flying
  <2> TAKE p \in S
  <2>1. p \in Packets /\ Injects(p)
    BY <1>4
  <2>2. Dst(p) \in Nodes
    <3>1. Dst(p) \in Nodes \cup {Unmapped}
      BY <2>1, NetworkAssumption DEF Dst, PacketsOK, Packets
    <3> QED
      BY <2>1, <3>1 DEF Injects
  <2> QED
    BY <2>1, <2>2 DEF Stamped, Flying, Packets
<1>6. \A i \in 1..Len(mine) : mine[i] \in S
  BY <1>2, <1>4
<1>7. /\ r \in Seq(Flying) /\ Len(r) = Len(mine)
      /\ \A i \in 1..Len(mine) : r[i] = Stamped(mine[i])
  BY <1>3, <1>4, <1>5, <1>6
<1>8. \A q : q \in ToSet(r) <=> \E i \in 1..Len(mine) : r[i] = q
  BY <1>7, MemberOf
<1>9. ASSUME NEW q
      PROVE  q \in ToSet(r) <=>
               \E p \in ps : Injects(p) /\ Src(p) = n /\ q = Stamped(p)
  <2>1. ASSUME q \in ToSet(r)
        PROVE  \E p \in ps : Injects(p) /\ Src(p) = n /\ q = Stamped(p)
    BY <1>6, <1>7, <1>8, <2>1
  <2>2. ASSUME NEW p \in ps, Injects(p), Src(p) = n, q = Stamped(p)
        PROVE  q \in ToSet(r)
    <3>1. p \in ToSet(mine)
      BY <1>2, <2>2
    <3> QED
      BY <1>4, <1>7, <1>8, <2>2, <3>1
  <2> QED
    BY <2>1, <2>2
<1>10. ASSUME NEW R, NEW Q, Ranked(generated[a], R),
              \A p, q \in ToSet(generated[a]) :
                 /\ <<p, q>> \in R
                 /\ Injects(p) /\ Injects(q) /\ Src(p) = n /\ Src(q) = n
                 => <<Stamped(p), Stamped(q)>> \in Q
       PROVE  Ranked(r, Q)
  <2> SUFFICES ASSUME NEW i \in 1..Len(mine), NEW j \in 1..Len(mine), i < j
               PROVE  <<r[i], r[j]>> \in Q
    BY <1>7 DEF Ranked
  <2>1. <<mine[i], mine[j]>> \in R
    BY <1>2, <1>10 DEF Ranked
  <2>2. mine[i] \in S /\ mine[j] \in S
    BY <1>6
  <2>3. <<Stamped(mine[i]), Stamped(mine[j])>> \in Q
    BY <1>10, <2>1, <2>2
  <2> QED
    BY <1>7, <2>3
<1>11. /\ r \in Seq(Flying)
       /\ \A q : q \in ToSet(r) <=>
                   \E p \in ps : Injects(p) /\ Src(p) = n /\ q = Stamped(p)
  BY <1>7, <1>9
<1> HIDE DEF S
<1>12. KeepsOrder(a, ps, n)
  BY <1>10 DEF r, KeepsOrder
<1> QED
  BY <1>11, <1>12 DEF r

LEMMA InjectedOnly ==
    ASSUME PacketsOK, NEW a \in Apps, NEW ps \in SUBSET ToSet(generated[a]), NEW n \in Nodes
    PROVE  /\ Injected(a, ps, n) \in Seq(Flying)
           /\ \A q \in ToSet(Injected(a, ps, n)) : \E p \in ps : Injects(p) /\ Src(p) = n /\ q = Stamped(p)
           /\ Injected(a, ps, n) # <<>> => \E q : q \in ToSet(Injected(a, ps, n))
<1> DEFINE r == Injected(a, ps, n)
<1>1. /\ r \in Seq(Flying)
      /\ \A q : q \in ToSet(r) <=> \E p \in ps : Injects(p) /\ Src(p) = n /\ q = Stamped(p)
  BY InjectedFacts
<1> HIDE DEF r
<1>2. r # <<>> => \E q : q \in ToSet(r)
  <2> SUFFICES ASSUME r # <<>> PROVE \E q : q \in ToSet(r)
    OBVIOUS
  <2>1. Len(r) \in Nat \ {0}
    BY <1>1, EmptySeq
  <2>2. 1 \in 1..Len(r)
    BY <2>1
  <2> QED
    BY <1>1, <2>2, MemberOf
<1> QED
  BY <1>1, <1>2 DEF r

-----------------------------------------------------------------------------
(* What the steps do to the boxes.                                         *)

NetInv == LinksOK /\ TableOK /\ BytesQueued /\ PacketsOK /\ EmptyOK /\ GeneratedOK

Linked   == <<nodes, wire, queue, bytes, age, fib>>
Onward(p, n) ==
    [flow |-> p.flow, num |-> p.num, dst |-> p.dst, prev |-> n, hops |-> p.hops + 1]
NextHop(n, p) == fib[<<n, p.dst>>]

\* The i-th packet of n's work leaves it.
Leaves(n, i) ==
    \/ /\ n \in ToSet(Hosts) /\ i \in 1..Len(local[n])
       /\ local' = [local EXCEPT ![n] = RemoveAt(local[n], i)] /\ buffer' = buffer
    \/ /\ n \notin ToSet(Hosts) /\ i \in 1..Len(buffer[n])
       /\ buffer' = [buffer EXCEPT ![n] = RemoveAt(buffer[n], i)] /\ local' = local

\* Where a packet that leaves n gets to.
Fares(n, p) ==
    \/ \E t \in {"lost", "dropped"} : ended' = End(t, p) /\ next' = next /\ delivered' = delivered
    \/ /\ <<n, p.dst>> \in DOMAIN fib /\ NextHop(n, p) = p.dst
       /\ delivered' = [delivered EXCEPT ![p.flow] = Append(delivered[p.flow], p.num)]
       /\ next' = next /\ ended' = ended
    \/ /\ <<n, p.dst>> \in DOMAIN fib /\ NextHop(n, p) # p.dst /\ NextHop(n, p) \in nodes
       /\ next' = [next EXCEPT ![NextHop(n, p)] = Append(next[NextHop(n, p)], Onward(p, n))]
       /\ delivered' = delivered /\ ended' = ended

LEMMA RoutingFacts ==
    ASSUME PacketsOK, phase \in {"inject", "forward"}
    PROVE  /\ routing # <<>> /\ Head(routing) \in Apps /\ Tail(routing) \in Seq(Apps)
           /\ ToSet(routing) = {Head(routing)} \cup ToSet(Tail(routing))
<1>1. routing # <<>> /\ routing \in Seq(Apps)
  BY DEF PacketsOK
<1>2. /\ Head(routing) \in Apps /\ Tail(routing) \in Seq(Apps) /\ Len(Tail(routing)) = Len(routing) - 1
      /\ \A i \in 1..Len(Tail(routing)) : Tail(routing)[i] = routing[i + 1]
  BY <1>1, HeadTailProperties
<1>3. Len(routing) \in Nat \ {0} /\ Head(routing) = routing[1]
  BY <1>1, EmptySeq
<1> DEFINE t == Tail(routing)
           h == Head(routing)
<1>4. /\ \A x : x \in ToSet(routing) <=> \E i \in 1..Len(routing) : routing[i] = x
      /\ \A x : x \in ToSet(t) <=> \E i \in 1..Len(t) : t[i] = x
  BY <1>1, <1>2, MemberOf
<1> HIDE DEF t, h
<1>5. ASSUME NEW i \in 1..Len(routing) PROVE routing[i] \in {h} \cup ToSet(t)
  <2>1. CASE i = 1
    BY <1>3, <2>1 DEF h
  <2>2. CASE i # 1
    <3>1. i - 1 \in 1..Len(t) /\ (i - 1) + 1 = i
      BY <1>2, <1>3, <2>2 DEF t
    <3>2. t[i - 1] = routing[i]
      BY <1>2, <3>1 DEF t
    <3> QED
      BY <1>4, <3>1, <3>2
  <2> QED
    BY <2>1, <2>2
<1>6. ASSUME NEW i \in 1..Len(t) PROVE t[i] \in ToSet(routing)
  <2>1. i + 1 \in 1..Len(routing) /\ t[i] = routing[i + 1]
    BY <1>2, <1>3 DEF t
  <2> QED
    BY <1>4, <2>1
<1>7. h \in ToSet(routing)
  BY <1>3, <1>4 DEF h
<1>8. ToSet(routing) = {h} \cup ToSet(t)
  BY <1>4, <1>5, <1>6, <1>7
<1> QED
  BY <1>1, <1>2, <1>8 DEF t, h

LEMMA WorkFacts ==
    ASSUME PacketsOK, NEW n \in Nodes
    PROVE  /\ Work(n) \in Seq(Flying) /\ DOMAIN Work(n) = 1..Len(Work(n))
           /\ \A i \in DOMAIN Work(n) : Work(n)[i] \in Flying /\ Work(n)[i] \in ToSet(Work(n))
<1>1. Work(n) \in Seq(Flying)
  BY DEF Work, PacketsOK
<1> QED
  BY <1>1, LenProperties, ElementOfSeq DEF ToSet

LEMMA HopFacts ==
    ASSUME NetInv, NEW n \in nodes, NEW i \in DOMAIN Work(n), Hop(n, i)
    PROVE  LET p == Work(n)[i]
           IN  /\ phase = "forward" /\ IsRouteTable(fib) /\ n \in Nodes /\ p \in Flying
               /\ i = NextFrom(n, p.prev)
               /\ Leaves(n, i) /\ Fares(n, p)
               /\ LinksOK' /\ TableOK' /\ BytesQueued'
               /\ UNCHANGED <<nodes, wire, fib, at, generated, due, routing, phase, sent, changes>>
<1> DEFINE p == Work(n)[i]
<1>1. n \in Nodes
  BY DEF NetInv, LinksOK
<1>2. p \in Flying /\ DOMAIN Work(n) = 1..Len(Work(n))
  BY <1>1, WorkFacts DEF NetInv
<1>3. Takes(n, i)
  BY DEF Hop
<1>4. /\ phase = "forward" /\ fib # NoFib /\ i = NextFrom(n, p.prev)
      /\ UNCHANGED <<nodes, wire, fib, at, generated, due, routing, sent, changes>>
  BY <1>3 DEF Takes, topology
<1>5. Leaves(n, i)
  BY <1>2, <1>3 DEF Takes, Leaves, Work
<1>6. IsRouteTable(fib) /\ \A x \in DOMAIN fib : <<x[1], fib[x]>> \in DOMAIN wire
  BY <1>4 DEF NetInv, TableOK
<1>7. TableOK'
  BY <1>4 DEF NetInv, TableOK
<1> HIDE DEF p
<1>8. CASE NoRoute(n, p)
  <2>1. /\ ended' = End("lost", p) /\ next' = next /\ delivered' = delivered /\ phase' = phase
        /\ queue' = queue /\ bytes' = bytes /\ age' = age
    BY <1>8 DEF NoRoute, links
  <2>2. LinksOK' /\ BytesQueued'
    BY <1>4, <2>1 DEF NetInv, LinksOK, BytesQueued
  <2>3. Fares(n, p)
    BY <2>1 DEF Fares
  <2> QED
    BY <1>1, <1>2, <1>4, <1>5, <1>6, <1>7, <2>1, <2>2, <2>3 DEF p
<1>9. ASSUME NEW e \in DOMAIN wire, <<n, p.dst>> \in DOMAIN fib, e = <<n, fib[<<n, p.dst>>]>>, Over(e, p)
      PROVE  Fares(n, p) /\ LinksOK' /\ BytesQueued' /\ phase' = phase
  <2>1. p.flow \in DOMAIN Flows
    BY <1>2 DEF Flying
  <2>2. LinksOK' /\ BytesQueued'
    BY <1>4, <1>9, <2>1, LinksOver DEF NetInv
  <2>3. e[1] = n /\ e[2] = NextHop(n, p) /\ e[2] \in nodes
    BY <1>9 DEF NextHop, NetInv, LinksOK
  <2>4. Moved(p, e) = Onward(p, n)
    BY <2>3 DEF Moved, Onward
  <2>5. /\ phase' = phase
        /\ \/ ended' = End("dropped", p) /\ next' = next /\ delivered' = delivered
           \/ /\ IF e[2] = p.dst
                 THEN /\ delivered' = [delivered EXCEPT ![p.flow] = Append(@, p.num)]
                      /\ UNCHANGED next
                 ELSE /\ next' = [next EXCEPT ![e[2]] = Append(@, Moved(p, e))]
                      /\ UNCHANGED delivered
              /\ ended' = ended
    BY <1>9 DEF Over
  <2>6. Fares(n, p)
    <3>1. CASE ended' = End("dropped", p) /\ next' = next /\ delivered' = delivered
      BY <3>1 DEF Fares
    <3>2. CASE /\ e[2] = p.dst /\ ended' = ended /\ next' = next
               /\ delivered' = [delivered EXCEPT ![p.flow] = Append(@, p.num)]
      <4>1. delivered' = [delivered EXCEPT ![p.flow] = Append(delivered[p.flow], p.num)]
        BY <3>2
      <4> QED
        BY <1>9, <2>3, <3>2, <4>1 DEF Fares
    <3>3. CASE /\ e[2] # p.dst /\ ended' = ended /\ delivered' = delivered
               /\ next' = [next EXCEPT ![e[2]] = Append(@, Moved(p, e))]
      <4>1. next' = [next EXCEPT ![NextHop(n, p)] = Append(next[NextHop(n, p)], Onward(p, n))]
        BY <2>3, <2>4, <3>3
      <4> QED
        BY <1>9, <2>3, <3>3, <4>1 DEF Fares
    <3> QED
      BY <2>5, <3>1, <3>2, <3>3
  <2> QED
    BY <2>2, <2>5, <2>6
<1>10. NoRoute(n, p) \/ \E e \in DOMAIN wire : /\ <<n, p.dst>> \in DOMAIN fib
                                               /\ e = <<n, fib[<<n, p.dst>>]>>
                                               /\ Over(e, p)
  BY DEF Hop, p
<1> QED
  BY <1>1, <1>2, <1>4, <1>5, <1>6, <1>7, <1>8, <1>9, <1>10 DEF p

-----------------------------------------------------------------------------
(* Types, step by step.                                                    *)

LEMMA EmptyFacts == /\ Empty \in [Nodes -> Seq(Flying)] /\ \A n \in Nodes : Empty[n] = <<>>
                    /\ ToSet(<<>>) = {}
BY DEF Empty, ToSet

LEMMA InitNet == ASSUME Init PROVE NetInv
<1>1. LinksOK /\ TableOK /\ BytesQueued
  BY LinksInit
<1>2. PacketsOK
  <2>1. \A f \in DOMAIN Flows : MaxPackets[f] \in Nat
    BY NetworkAssumption
  <2>2. ended \in [Fates -> SUBSET Packets]
    BY DEF Init
  <2> QED
    BY <2>1, <2>2, EmptyFacts, NetworkAssumption DEF Init, PacketsOK
<1>3. EmptyOK
  BY EmptyFacts DEF Init, EmptyOK
<1>4. GeneratedOK
  <2>1. \A a \in Apps : generated[a] = <<>>
    BY DEF Init
  <2> QED
    BY <2>1, EmptyFacts DEF GeneratedOK
<1> QED
  BY <1>1, <1>2, <1>3, <1>4 DEF NetInv

LEMMA GenerateNet == ASSUME NetInv, Generate PROVE NetInv'
<1>1. LinksOK' /\ BytesQueued'
  BY LinksGenerate DEF NetInv
<1>2. /\ due < MaxDue /\ due' = due + 1 /\ ended' = Clearing
      /\ UNCHANGED <<nodes, wire, fib, at, local, buffer, next, routing, phase, delivered, changes>>
  BY DEF Generate, topology
<1>3. PICK count \in [DOMAIN Flows -> 0..MaxBurst] :
         /\ \A f \in DOMAIN Flows : sent[f] + count[f] <= MaxPackets[f]
         /\ generated' = [a \in Apps |-> Drawn(a, count)]
         /\ sent' = [f \in DOMAIN Flows |-> sent[f] + count[f]]
  BY DEF Generate
<1>4. count \in [DOMAIN Flows -> Nat]
  BY NetworkAssumption
<1>5. \A a \in Apps : /\ Drawn(a, count) \in Seq(Packets)
                      /\ \A p \in ToSet(Drawn(a, count)) : Flows[p.flow].app = a
  BY <1>4, DrawnFacts DEF NetInv
<1>6. TableOK'
  BY <1>2 DEF NetInv, TableOK
<1>7. due' \in 0..MaxDue /\ ended' \in [Fates -> SUBSET Packets]
  <2>1. due' \in 0..MaxDue
    BY <1>2, NetworkAssumption DEF NetInv, PacketsOK
  <2>2. \A a \in Apps : ToSet(generated[a]) \subseteq Packets
    BY MemberOf DEF NetInv, PacketsOK
  <2>3. UNION {ToSet(generated[a]) : a \in Apps} \subseteq Packets
    BY <2>2
  <2>4. ended' \in [Fates -> SUBSET Packets]
    BY <1>2, <2>3 DEF Clearing, NetInv, PacketsOK
  <2> QED
    BY <2>1, <2>4
<1>8. PacketsOK'
  <2>1. generated' \in [Apps -> Seq(Packets)]
    BY <1>3, <1>5
  <2>2. sent' \in [DOMAIN Flows -> Nat] /\ \A f \in DOMAIN Flows : sent'[f] <= MaxPackets[f]
    BY <1>3, <1>4 DEF NetInv, PacketsOK
  <2> QED
    BY <1>2, <1>7, <2>1, <2>2 DEF NetInv, PacketsOK
<1>9. EmptyOK'
  BY <1>2 DEF NetInv, EmptyOK
<1>10. GeneratedOK'
  BY <1>3, <1>5 DEF GeneratedOK
<1> QED
  BY <1>1, <1>6, <1>8, <1>9, <1>10 DEF NetInv

LEMMA RouteNet == ASSUME NetInv, Route PROVE NetInv'
<1>1. /\ phase = "idle" /\ phase' = "inject" /\ due > 0 /\ due' = due - 1 /\ routing' = AppOrder
      /\ UNCHANGED <<nodes, wire, queue, bytes, age, fib, at, generated, local, buffer, next,
                     sent, delivered, ended, changes>>
  BY DEF Route, topology, links, buffers, history
<1>2. LinksOK' /\ BytesQueued' /\ TableOK'
  BY <1>1 DEF NetInv, LinksOK, BytesQueued, TableOK
<1>3. AppOrder \in Seq(Apps) /\ AppOrder # <<>> /\ due' \in 0..MaxDue
  <2>1. AppOrder \in Seq(Apps) /\ AppOrder # <<>>
    BY NetworkAssumption DEF Apps
  <2> QED
    BY <1>1, <2>1, NetworkAssumption DEF NetInv, PacketsOK
<1>4. PacketsOK'
  BY <1>1, <1>3 DEF NetInv, PacketsOK
<1>5. EmptyOK' /\ GeneratedOK'
  BY <1>1 DEF NetInv, EmptyOK, GeneratedOK
<1> QED
  BY <1>2, <1>4, <1>5 DEF NetInv

\* The packets in M leave what application a generated: for their nodes, or for
\* good; rest stays.
Enters(a, M, rest) ==
    /\ a \in Apps /\ M \in SUBSET ToSet(generated[a]) /\ \A p \in M : ~Strays(p)
    /\ rest \in Seq(Packets) /\ ToSet(rest) = ToSet(generated[a]) \ M
    /\ \A R : Ranked(generated[a], R) => Ranked(rest, R)
    /\ local' = [n \in Nodes |-> local[n] \o Injected(a, M, n)]
    /\ ended' = [ended EXCEPT !["discarded"] = @ \cup {p \in M : ~Injects(p)}]
    /\ generated' = [generated EXCEPT ![a] = rest]
    /\ UNCHANGED <<nodes, wire, queue, bytes, age, fib, at, buffer, next, due, sent,
                   delivered, changes>>

\* Both outcomes of _inject_generated_packets are such a step.
LEMMA Injecting ==
    ASSUME NetInv, Inject \/ InjectRaises
    PROVE  /\ \E a, M, rest : Enters(a, M, rest)
           /\ phase = "inject"
           /\ \/ phase' = "forward" /\ routing' = routing
              \/ phase' = "idle" /\ routing' = <<>>
<1> DEFINE a == Head(routing)
<1>1. phase = "inject"
  BY DEF Inject, InjectRaises
<1>2. a \in Apps
  BY <1>1, RoutingFacts DEF NetInv
<1>3. generated[a] \in Seq(Packets)
  BY <1>2 DEF NetInv, PacketsOK
<1>4. CASE Inject
  <2> DEFINE M == ToSet(generated[a])
  <2>1. /\ \A p \in M : ~Strays(p)
        /\ local' = [n \in Nodes |-> local[n] \o Injected(a, M, n)]
        /\ ended' = [ended EXCEPT !["discarded"] = @ \cup {p \in M : ~Injects(p)}]
        /\ generated' = [generated EXCEPT ![a] = <<>>]
        /\ UNCHANGED <<nodes, wire, queue, bytes, age, fib, at, buffer, next, due, sent,
                       delivered, changes>>
        /\ phase' = "forward" /\ routing' = routing
    BY <1>4 DEF Inject, Cleared, topology, links
  <2>2. <<>> \in Seq(Packets) /\ ToSet(<<>>) = M \ M /\ \A R : Ranked(<<>>, R)
    BY EmptyFacts, EmptySeq DEF Ranked
  <2> HIDE DEF a
  <2>3. Enters(a, M, <<>>)
    BY <1>2, <2>1, <2>2 DEF Enters
  <2> QED
    BY <1>1, <2>1, <2>3
<1>5. CASE InjectRaises
  <2>1. PICK k \in DOMAIN generated[a] :
          LET tried == {generated[a][i] : i \in 1..(k - 1)}
          IN  /\ \A p \in tried : ~Strays(p)
              /\ local' = [n \in Nodes |-> local[n] \o Injected(a, tried, n)]
              /\ generated' = [generated EXCEPT ![a] =
                     Sublist(@, ToSet(@) \ {p \in tried : Injects(p)})]
    BY <1>5 DEF InjectRaises
  <2>2. /\ UNCHANGED <<nodes, wire, queue, bytes, age, fib, at, buffer, next, due, sent,
                       delivered, ended, changes>>
        /\ phase' = "idle" /\ routing' = <<>>
    BY <1>5 DEF InjectRaises, topology, links, history
  <2> DEFINE tried == {generated[a][i] : i \in 1..(k - 1)}
             M == {p \in tried : Injects(p)}
             rest == Sublist(generated[a], ToSet(generated[a]) \ M)
  <2>3. /\ \A p \in tried : ~Strays(p)
        /\ local' = [n \in Nodes |-> local[n] \o Injected(a, tried, n)]
        /\ generated' = [generated EXCEPT ![a] = rest]
    <3>1. generated' = [generated EXCEPT ![a] = Sublist(@, ToSet(@) \ M)]
      BY <2>1
    <3>2. [generated EXCEPT ![a] = Sublist(@, ToSet(@) \ M)] = [generated EXCEPT ![a] = rest]
      OBVIOUS
    <3> QED
      BY <2>1, <3>1, <3>2
  <2>4. tried \subseteq ToSet(generated[a])
    <3>1. /\ Len(generated[a]) \in Nat /\ DOMAIN generated[a] = 1..Len(generated[a])
          /\ \A i \in 1..Len(generated[a]) : generated[a][i] \in ToSet(generated[a])
      BY <1>3, MemberOf
    <3> QED
      BY <3>1
  <2> HIDE DEF tried, a
  <2>5. M \in SUBSET ToSet(generated[a]) /\ \A p \in M : ~Strays(p) /\ Injects(p)
    BY <2>3, <2>4
  <2>6. \A n \in Nodes : Injected(a, tried, n) = Injected(a, M, n)
    <3> TAKE n \in Nodes
    <3>1. {p \in tried : Injects(p) /\ Src(p) = n} = {p \in M : Injects(p) /\ Src(p) = n}
      OBVIOUS
    <3> QED
      BY <3>1 DEF Injected
  <2>7. local' = [n \in Nodes |-> local[n] \o Injected(a, M, n)]
    BY <2>3, <2>6
  <2>8. /\ rest \in Seq(Packets) /\ ToSet(rest) = ToSet(generated[a]) \ M
        /\ \A R : Ranked(generated[a], R) => Ranked(rest, R)
    <3> HIDE DEF M
    <3>1. /\ rest \in Seq(Packets) /\ ToSet(rest) = ToSet(generated[a]) \cap (ToSet(generated[a]) \ M)
          /\ \A R : Ranked(generated[a], R) => Ranked(rest, R)
      BY <1>3, SublistOrdered
    <3> QED
      BY <3>1
  <2>9. ended' = [ended EXCEPT !["discarded"] = @ \cup {p \in M : ~Injects(p)}]
    <3>1. {p \in M : ~Injects(p)} = {}
      BY <2>5
    <3>2. ended \in [Fates -> SUBSET Packets]
      BY DEF NetInv, PacketsOK
    <3> HIDE DEF M
    <3> QED
      BY <2>2, <3>1, <3>2
  <2> HIDE DEF M, rest
  <2>10. Enters(a, M, rest)
    BY <1>2, <2>2, <2>3, <2>5, <2>7, <2>8, <2>9 DEF Enters
  <2> QED
    BY <1>1, <2>2, <2>10
<1> QED
  BY <1>4, <1>5

LEMMA InjectNet == ASSUME NetInv, Inject \/ InjectRaises PROVE NetInv'
<1>1. PICK a, M, rest : Enters(a, M, rest)
  BY Injecting
<1>2. /\ a \in Apps /\ M \in SUBSET ToSet(generated[a]) /\ \A p \in M : ~Strays(p)
      /\ rest \in Seq(Packets) /\ ToSet(rest) = ToSet(generated[a]) \ M
      /\ local' = [n \in Nodes |-> local[n] \o Injected(a, M, n)]
      /\ ended' = [ended EXCEPT !["discarded"] = @ \cup {p \in M : ~Injects(p)}]
      /\ generated' = [generated EXCEPT ![a] = rest]
      /\ UNCHANGED <<nodes, wire, queue, bytes, age, fib, at, buffer, next, due, sent,
                     delivered, changes>>
  BY <1>1 DEF Enters
<1>3. LinksOK' /\ BytesQueued' /\ TableOK'
  BY <1>2 DEF NetInv, LinksOK, BytesQueued, TableOK
<1>4. \A n \in Nodes : Injected(a, M, n) \in Seq(Flying) /\ local[n] \o Injected(a, M, n) \in Seq(Flying)
  <2> TAKE n \in Nodes
  <2>1. Injected(a, M, n) \in Seq(Flying) /\ local[n] \in Seq(Flying)
    BY <1>2, InjectedFacts DEF NetInv, PacketsOK
  <2> QED
    BY <2>1, ConcatProperties
<1>5. M \subseteq Packets
  BY <1>2, MemberOf DEF NetInv, PacketsOK
<1>6. PacketsOK'
  <2>1. local' \in [Nodes -> Seq(Flying)]
    BY <1>2, <1>4
  <2>2. ended' \in [Fates -> SUBSET Packets]
    BY <1>2, <1>5 DEF NetInv, PacketsOK, Fates
  <2>3. generated' \in [Apps -> Seq(Packets)]
    BY <1>2 DEF NetInv, PacketsOK
  <2>4. phase' \in {"idle", "inject", "forward"} /\ routing' \in Seq(Apps)
        /\ (phase' = "idle") = (routing' = <<>>)
    <3>1. phase = "inject" /\ routing \in Seq(Apps) /\ routing # <<>> /\ <<>> \in Seq(Apps)
      BY Injecting, RoutingFacts, EmptySeq DEF NetInv, PacketsOK
    <3> QED
      BY <3>1, Injecting
  <2> QED
    BY <1>2, <2>1, <2>2, <2>3, <2>4 DEF NetInv, PacketsOK
<1>7. \A n \in Nodes : Injected(a, M, n) # <<>> => n \in nodes /\ n \in ToSet(Hosts)
  <2> SUFFICES ASSUME NEW n \in Nodes, Injected(a, M, n) # <<>> PROVE n \in nodes /\ n \in ToSet(Hosts)
    OBVIOUS
  <2>1. PICK q : q \in ToSet(Injected(a, M, n))
    BY <1>2, InjectedOnly DEF NetInv
  <2>2. PICK p \in M : Injects(p) /\ Src(p) = n
    BY <1>2, <2>1, InjectedOnly DEF NetInv
  <2> QED
    BY <1>2, <2>2 DEF Injects, Strays
<1>8. \A n \in Nodes : Injected(a, M, n) = <<>> => local'[n] = local[n]
  <2> TAKE n \in Nodes
  <2>1. local[n] \in Seq(Flying)
    BY DEF NetInv, PacketsOK
  <2>2. local[n] \o <<>> = local[n]
    BY <2>1, ConcatEmptySeq
  <2> QED
    BY <1>2, <2>2
<1>9. EmptyOK'
  <2>1. next = Empty
    BY Injecting DEF NetInv, EmptyOK
  <2> QED
    BY <1>2, <1>7, <1>8, <2>1 DEF NetInv, EmptyOK
<1>10. GeneratedOK'
  <2>1. \A b \in Apps : ToSet(generated'[b]) \subseteq ToSet(generated[b])
    BY <1>2 DEF NetInv, PacketsOK
  <2> QED
    BY <2>1 DEF NetInv, GeneratedOK
<1> QED
  BY <1>3, <1>6, <1>9, <1>10 DEF NetInv

LEMMA BuildNet == ASSUME NetInv, Build PROVE NetInv' /\ IsRouteTable(fib')
<1>1. /\ fib' = Table[DOMAIN wire]
      /\ UNCHANGED <<nodes, wire, queue, bytes, age, at, generated, local, buffer, next,
                     due, routing, sent, delivered, ended, changes, phase>>
  BY DEF Build, topology, links, buffers, history
<1>2. DOMAIN wire \in SUBSET DOMAIN Links
  BY DEF NetInv, LinksOK
<1>3. IsRouteTable(fib') /\ \A x \in DOMAIN fib' : <<x[1], fib'[x]>> \in DOMAIN wire
  BY <1>1, <1>2, EntryLeadsOn DEF IsRouteTable, LeadsOn
<1>4. LinksOK' /\ BytesQueued' /\ TableOK' /\ PacketsOK'
  BY <1>1, <1>3 DEF NetInv, LinksOK, BytesQueued, TableOK, PacketsOK
<1>5. EmptyOK' /\ GeneratedOK'
  BY <1>1 DEF NetInv, EmptyOK, GeneratedOK
<1> QED
  BY <1>3, <1>4, <1>5 DEF NetInv
LEMMA OnwardType ==
    ASSUME NEW p \in Flying, NEW n \in Nodes
    PROVE  /\ Onward(p, n) \in Flying
           /\ Onward(p, n).flow = p.flow /\ Onward(p, n).num = p.num /\ Onward(p, n).dst = p.dst
           /\ Onward(p, n).prev = n /\ Onward(p, n).hops = p.hops + 1
BY DEF Onward, Flying

LEMMA LeavesType ==
    ASSUME PacketsOK, NEW n \in Nodes, NEW i, Leaves(n, i)
    PROVE  /\ local' \in [Nodes -> Seq(Flying)] /\ buffer' \in [Nodes -> Seq(Flying)]
           /\ \A m \in Nodes : /\ ToSet(local'[m]) \subseteq ToSet(local[m])
                               /\ ToSet(buffer'[m]) \subseteq ToSet(buffer[m])
                               /\ local[m] = <<>> => local'[m] = <<>>
                               /\ buffer[m] = <<>> => buffer'[m] = <<>>
<1>1. local \in [Nodes -> Seq(Flying)] /\ buffer \in [Nodes -> Seq(Flying)]
  BY DEF PacketsOK
<1>2. CASE /\ i \in 1..Len(local[n])
           /\ local' = [local EXCEPT ![n] = RemoveAt(local[n], i)] /\ buffer' = buffer
  <2>1. local[n] \in Seq(Flying)
    BY <1>1
  <2>2. /\ RemoveAt(local[n], i) \in Seq(Flying) /\ ToSet(RemoveAt(local[n], i)) \subseteq ToSet(local[n])
        /\ local[n] # <<>>
    BY <1>2, <2>1, RemoveAtFacts
  <2> QED
    BY <1>1, <1>2, <2>2
<1>3. CASE /\ i \in 1..Len(buffer[n])
           /\ buffer' = [buffer EXCEPT ![n] = RemoveAt(buffer[n], i)] /\ local' = local
  <2>1. buffer[n] \in Seq(Flying)
    BY <1>1
  <2>2. /\ RemoveAt(buffer[n], i) \in Seq(Flying) /\ ToSet(RemoveAt(buffer[n], i)) \subseteq ToSet(buffer[n])
        /\ buffer[n] # <<>>
    BY <1>3, <2>1, RemoveAtFacts
  <2> QED
    BY <1>1, <1>3, <2>2
<1> QED
  BY <1>2, <1>3 DEF Leaves

LEMMA FaresType ==
    ASSUME PacketsOK, NEW n \in Nodes, NEW p \in Flying, Fares(n, p), nodes \subseteq Nodes
    PROVE  /\ next' \in [Nodes -> Seq(Flying)]
           /\ delivered' \in [DOMAIN Flows -> Seq(Nat)]
           /\ ended' \in [Fates -> SUBSET Packets]
           /\ \A m \in Nodes \ nodes : next'[m] = next[m]
           /\ \A m \in Nodes : ToSet(next'[m]) \subseteq ToSet(next[m]) \cup
                                 (IF m = NextHop(n, p) /\ <<n, p.dst>> \in DOMAIN fib
                                  THEN {Onward(p, n)} ELSE {})
<1>1. /\ next \in [Nodes -> Seq(Flying)]
      /\ delivered \in [DOMAIN Flows -> Seq(Nat)]
      /\ ended \in [Fates -> SUBSET Packets]
  BY DEF PacketsOK
<1>2. p.flow \in DOMAIN Flows /\ p.num \in Nat /\ Key(p) \in Packets
  BY DEF Flying, Key, Packets
<1>3. CASE \E t \in {"lost", "dropped"} : ended' = End(t, p) /\ next' = next /\ delivered' = delivered
  BY <1>1, <1>2, <1>3 DEF End, Fates
<1>4. CASE /\ delivered' = [delivered EXCEPT ![p.flow] = Append(delivered[p.flow], p.num)]
           /\ next' = next /\ ended' = ended
  <2>1. delivered[p.flow] \in Seq(Nat)
    BY <1>1, <1>2
  <2>2. Append(delivered[p.flow], p.num) \in Seq(Nat)
    BY <1>2, <2>1, AppendProperties
  <2> QED
    BY <1>1, <1>4, <2>2
<1>5. CASE /\ <<n, p.dst>> \in DOMAIN fib /\ NextHop(n, p) \in nodes
           /\ next' = [next EXCEPT ![NextHop(n, p)] = Append(next[NextHop(n, p)], Onward(p, n))]
           /\ delivered' = delivered /\ ended' = ended
  <2> DEFINE m == NextHop(n, p)
  <2>1. m \in nodes /\ m \in Nodes /\ next[m] \in Seq(Flying) /\ Onward(p, n) \in Flying
    BY <1>1, <1>5, OnwardType
  <2>2. /\ Append(next[m], Onward(p, n)) \in Seq(Flying)
        /\ ToSet(Append(next[m], Onward(p, n))) = ToSet(next[m]) \cup {Onward(p, n)}
    BY <2>1, AppendFacts
  <2> HIDE DEF m
  <2> QED
    BY <1>1, <1>5, <2>1, <2>2 DEF m
<1> QED
  BY <1>3, <1>4, <1>5 DEF Fares

LEMMA HopNet == ASSUME NetInv, NEW n \in nodes, NEW i \in DOMAIN Work(n), Hop(n, i) PROVE NetInv'
<1> DEFINE p == Work(n)[i]
<1>1. /\ phase = "forward" /\ n \in Nodes /\ p \in Flying /\ Leaves(n, i) /\ Fares(n, p)
      /\ LinksOK' /\ TableOK' /\ BytesQueued'
      /\ UNCHANGED <<nodes, wire, fib, at, generated, due, routing, phase, sent, changes>>
  BY HopFacts
<1> HIDE DEF p
<1>2. PacketsOK /\ EmptyOK /\ GeneratedOK /\ nodes \subseteq Nodes
  BY DEF NetInv, LinksOK
<1>3. /\ local' \in [Nodes -> Seq(Flying)] /\ buffer' \in [Nodes -> Seq(Flying)]
      /\ \A m \in Nodes : /\ local[m] = <<>> => local'[m] = <<>>
                          /\ buffer[m] = <<>> => buffer'[m] = <<>>
  BY <1>1, <1>2, LeavesType
<1>4. /\ next' \in [Nodes -> Seq(Flying)]
      /\ delivered' \in [DOMAIN Flows -> Seq(Nat)]
      /\ ended' \in [Fates -> SUBSET Packets]
      /\ \A m \in Nodes \ nodes : next'[m] = next[m]
  BY <1>1, <1>2, FaresType
<1>5. PacketsOK'
  BY <1>1, <1>2, <1>3, <1>4 DEF PacketsOK
<1>6. EmptyOK'
  BY <1>1, <1>2, <1>3, <1>4 DEF EmptyOK
<1>7. GeneratedOK'
  BY <1>1, <1>2 DEF GeneratedOK
<1> QED
  BY <1>1, <1>5, <1>6, <1>7 DEF NetInv

\* When nobody has work left, no host has packets of its own.
LEMMA NothingLocal ==
    ASSUME NetInv, phase = "forward", Busy = {} PROVE \A n \in Nodes : local[n] = <<>>
BY DEF NetInv, EmptyOK, Busy, Work, LinksOK

LEMMA EndNet == ASSUME NetInv, EndRouting PROVE NetInv'
<1>1. /\ phase = "forward" /\ Busy = {}
      /\ buffer' = [n \in Nodes |-> buffer[n] \o next[n]]
      /\ next' = Empty
      /\ routing' = Tail(routing)
      /\ phase' = IF Tail(routing) = <<>> THEN "idle" ELSE "inject"
      /\ UNCHANGED <<nodes, wire, queue, bytes, age, fib, at, generated, local, due, sent,
                     delivered, ended, changes>>
  BY DEF EndRouting, topology, links, history
<1>2. LinksOK' /\ BytesQueued' /\ TableOK'
  BY <1>1 DEF NetInv, LinksOK, BytesQueued, TableOK
<1>3. Tail(routing) \in Seq(Apps)
  BY <1>1, RoutingFacts DEF NetInv
<1>4. \A n \in Nodes : buffer[n] \o next[n] \in Seq(Flying)
  <2> TAKE n \in Nodes
  <2>1. buffer[n] \in Seq(Flying) /\ next[n] \in Seq(Flying)
    BY DEF NetInv, PacketsOK
  <2> QED
    BY <2>1, ConcatProperties
<1>5. PacketsOK'
  <2>1. buffer' \in [Nodes -> Seq(Flying)]
    BY <1>1, <1>4
  <2> QED
    BY <1>1, <1>3, <2>1, EmptyFacts DEF NetInv, PacketsOK
<1>7. EmptyOK'
  <2>1. \A n \in Nodes \ nodes : buffer'[n] = <<>>
    <3> TAKE n \in Nodes \ nodes
    <3>1. buffer[n] = <<>> /\ next[n] = <<>>
      BY DEF NetInv, EmptyOK
    <3>2. <<>> \o <<>> = <<>>
      OBVIOUS
    <3> QED
      BY <1>1, <3>1, <3>2
  <2> QED
    BY <1>1, <2>1, EmptyFacts DEF EmptyOK, NetInv
<1>8. GeneratedOK'
  BY <1>1 DEF NetInv, GeneratedOK
<1> QED
  BY <1>2, <1>5, <1>7, <1>8 DEF NetInv

LEMMA BetweenNet == ASSUME NetInv, Between PROVE NetInv'
<1>1. phase = "idle" /\ changes' = changes + 1 /\ changes' \in 0..MaxChanges
  BY NetworkAssumption DEF Between, Change, NetInv, PacketsOK
<1>2. nodes \subseteq Nodes /\ DOMAIN wire \subseteq nodes \X nodes
  BY DEF NetInv, LinksOK
<1>3. ASSUME NEW e \in DOMAIN wire, RemoveLink(e) PROVE NetInv'
  <2>1. /\ Without({e}) /\ fib' = NoFib
        /\ UNCHANGED <<nodes, at, generated, local, buffer, next, due, routing, phase, sent, delivered, ended>>
    BY <1>3 DEF RemoveLink, ResetFib, buffers, history
  <2>2. LinksOK' /\ BytesQueued'
    <3>1. nodes' \subseteq nodes /\ DOMAIN wire \ {e} \subseteq nodes' \X nodes'
      BY <1>2, <2>1
    <3> QED
      BY <2>1, <3>1, LinksWithout DEF NetInv
  <2>3. TableOK'
    BY <2>1 DEF TableOK
  <2>4. PacketsOK' /\ EmptyOK' /\ GeneratedOK'
    BY <1>1, <2>1 DEF NetInv, PacketsOK, EmptyOK, GeneratedOK
  <2> QED
    BY <2>2, <2>3, <2>4 DEF NetInv
<1>4. ASSUME NEW n \in nodes, RemoveNode(n) PROVE NetInv'
  <2> DEFINE es == {e \in DOMAIN wire : n \in {e[1], e[2]}}
  <2>1. /\ nodes' = nodes \ {n} /\ Without(es) /\ fib' = NoFib
        /\ local' = [local EXCEPT ![n] = <<>>] /\ buffer' = [buffer EXCEPT ![n] = <<>>]
        /\ ended' = [ended EXCEPT !["removed"] =
                       @ \cup {Key(p) : p \in ToSet(local[n]) \cup ToSet(buffer[n])}]
        /\ UNCHANGED <<at, generated, next, due, routing, phase, sent, delivered>>
    BY <1>4 DEF RemoveNode, ResetFib
  <2>2. LinksOK' /\ BytesQueued'
    <3>1. nodes' \subseteq nodes /\ DOMAIN wire \ es \subseteq nodes' \X nodes'
      BY <1>2, <2>1
    <3> HIDE DEF es
    <3> QED
      BY <2>1, <3>1, LinksWithout DEF NetInv
  <2>3. TableOK'
    BY <2>1 DEF TableOK
  <2>4. ToSet(local[n]) \cup ToSet(buffer[n]) \subseteq Flying /\ n \in Nodes
    BY <1>2, MemberOf DEF NetInv, PacketsOK
  <2>5. PacketsOK'
    <3>1. local' \in [Nodes -> Seq(Flying)] /\ buffer' \in [Nodes -> Seq(Flying)]
      BY <2>1, EmptySeq DEF NetInv, PacketsOK
    <3>2. \A p \in ToSet(local[n]) \cup ToSet(buffer[n]) : Key(p) \in Packets
      BY <2>4 DEF Key, Flying, Packets
    <3>3. ended' \in [Fates -> SUBSET Packets]
      BY <2>1, <3>2 DEF NetInv, PacketsOK, Fates
    <3> QED
      BY <1>1, <2>1, <3>1, <3>3 DEF NetInv, PacketsOK
  <2>6. EmptyOK'
    <3>1. next = Empty
      BY <1>1 DEF NetInv, EmptyOK
    <3>2. /\ \A m \in Nodes \ nodes' : local'[m] = <<>> /\ buffer'[m] = <<>>
          /\ \A m \in Nodes \ ToSet(Hosts) : local'[m] = <<>>
      BY <2>1, <2>4 DEF NetInv, EmptyOK, PacketsOK
    <3> QED
      BY <1>1, <2>1, <3>1, <3>2, EmptyFacts DEF EmptyOK
  <2>7. GeneratedOK'
    BY <2>1 DEF NetInv, GeneratedOK
  <2> QED
    BY <2>2, <2>3, <2>5, <2>6, <2>7 DEF NetInv
<1>5. ASSUME NEW e \in DOMAIN Links \ DOMAIN wire, {e[1], e[2]} \subseteq nodes, AddLink(e) PROVE NetInv'
  <2>1. LinksOK' /\ BytesQueued' /\ TableOK'
    BY <1>5, LinksAdd DEF NetInv
  <2>2. UNCHANGED <<nodes, at, generated, local, buffer, next, due, routing, phase, sent, delivered, ended>>
    BY <1>5 DEF AddLink, buffers, history
  <2>3. PacketsOK' /\ EmptyOK' /\ GeneratedOK'
    BY <1>1, <2>2 DEF NetInv, PacketsOK, EmptyOK, GeneratedOK
  <2> QED
    BY <2>1, <2>3 DEF NetInv
<1>6. ASSUME Enact PROVE NetInv'
  <2>1. /\ at' \in Placements
        /\ UNCHANGED <<nodes, wire, queue, bytes, age, fib, generated, local, buffer, next,
                       due, routing, phase, sent, delivered, ended>>
    BY <1>6 DEF Enact, topology, links, buffers, history
  <2>2. LinksOK' /\ BytesQueued' /\ TableOK'
    BY <2>1 DEF NetInv, LinksOK, BytesQueued, TableOK
  <2>3. PacketsOK' /\ EmptyOK' /\ GeneratedOK'
    BY <1>1, <2>1 DEF NetInv, PacketsOK, EmptyOK, GeneratedOK
  <2> QED
    BY <2>2, <2>3 DEF NetInv
<1> QED
  BY <1>3, <1>4, <1>5, <1>6 DEF Between

LEMMA StutterNet == ASSUME NetInv, UNCHANGED vars PROVE NetInv'
<1>1. UNCHANGED <<nodes, wire, queue, bytes, age, fib, at, generated, local, buffer, next,
                  due, routing, phase, sent, delivered, ended, changes>>
  BY DEF vars, topology, links, buffers, history
<1>2. LinksOK' /\ BytesQueued' /\ TableOK' /\ PacketsOK'
  BY <1>1 DEF NetInv, LinksOK, BytesQueued, TableOK, PacketsOK
<1>3. EmptyOK' /\ GeneratedOK'
  BY <1>1 DEF NetInv, EmptyOK, GeneratedOK
<1> QED
  BY <1>2, <1>3 DEF NetInv

LEMMA NetStep == NetInv /\ [Next]_vars => NetInv'
BY GenerateNet, RouteNet, InjectNet, BuildNet, HopNet, EndNet, BetweenNet, StutterNet
   DEF Next, Routes

LEMMA NetInvariant == Spec => []NetInv
BY InitNet, NetStep, PTL DEF Spec
-----------------------------------------------------------------------------
(* Where packets are, and how far they have come.                          *)

Present(n) == ToSet(local[n]) \cup ToSet(buffer[n]) \cup ToSet(next[n])

\* A packet comes nearer with each hop, until the routes change.
Travelled(n, p) ==
    IF fib = NoFib THEN p.hops <= (N - 1) * changes
    ELSE p.hops + ToGo(fib, n, p.dst) <= (N - 1) * (changes + 1)

TravelOK ==
    /\ \A a \in Apps : \A p \in ToSet(generated[a]) : p.num \in 1..sent[p.flow]
    /\ \A n \in Nodes : \A p \in Present(n) : p.num \in 1..sent[p.flow] /\ Travelled(n, p)

LEMMA PresentType ==
    ASSUME PacketsOK, NEW n \in Nodes PROVE Present(n) \subseteq Flying
<1>1. local[n] \in Seq(Flying) /\ buffer[n] \in Seq(Flying) /\ next[n] \in Seq(Flying)
  BY DEF PacketsOK
<1> QED
  BY <1>1, MemberOf DEF Present

LEMMA Rounds ==
    ASSUME NEW m \in Nat, NEW c \in Nat
    PROVE  m * c \in Nat /\ m * (c + 1) \in Nat /\ m * (c + 1) = m * c + m
OBVIOUS

LEMMA InitTravel == ASSUME Init PROVE TravelOK
<1>1. \A a \in Apps : generated[a] = <<>>
  BY DEF Init
<1>2. \A n \in Nodes : Present(n) = {}
  BY EmptyFacts DEF Init, Present
<1> QED
  BY <1>1, <1>2, EmptyFacts DEF TravelOK

LEMMA GenerateTravel == ASSUME NetInv, TravelOK, Generate PROVE TravelOK'
<1>1. /\ fib' = fib /\ local' = local /\ buffer' = buffer /\ next' = next /\ changes' = changes
  BY DEF Generate, topology
<1>2. PICK count \in [DOMAIN Flows -> 0..MaxBurst] :
         /\ generated' = [a \in Apps |-> Drawn(a, count)]
         /\ sent' = [f \in DOMAIN Flows |-> sent[f] + count[f]]
  BY DEF Generate
<1>3. count \in [DOMAIN Flows -> Nat] /\ sent \in [DOMAIN Flows -> Nat]
  BY NetworkAssumption DEF NetInv, PacketsOK
<1>4. ASSUME NEW a \in Apps, NEW p \in ToSet(generated'[a]) PROVE p.num \in 1..sent'[p.flow]
  <2>1. p \in Packets /\ sent[p.flow] < p.num /\ p.num <= sent[p.flow] + count[p.flow]
    BY <1>2, <1>3, DrawnFacts DEF NetInv
  <2>2. p.flow \in DOMAIN Flows /\ p.num \in Nat
    BY <2>1 DEF Packets
  <2> QED
    BY <1>2, <1>3, <2>1, <2>2
<1>5. ASSUME NEW n \in Nodes, NEW p \in Present(n)' PROVE p.num \in 1..sent'[p.flow] /\ Travelled(n, p)'
  <2>1. p \in Present(n) /\ p \in Flying
    BY <1>1, PresentType DEF NetInv, Present
  <2>2. p.flow \in DOMAIN Flows /\ p.num \in 1..sent[p.flow]
    BY <2>1 DEF TravelOK, Flying
  <2>3. Travelled(n, p)'
    BY <1>1, <2>1 DEF TravelOK, Travelled
  <2>4. p.num \in 1..sent'[p.flow]
    BY <1>2, <1>3, <2>2
  <2> QED
    BY <2>3, <2>4
<1> QED
  BY <1>4, <1>5 DEF TravelOK

LEMMA InjectTravel == ASSUME NetInv, TravelOK, Inject \/ InjectRaises PROVE TravelOK'
<1>0. PICK a, M, rest : Enters(a, M, rest)
  BY Injecting
<1>1. /\ local' = [n \in Nodes |-> local[n] \o Injected(a, M, n)]
      /\ generated' = [generated EXCEPT ![a] = rest]
      /\ UNCHANGED <<fib, buffer, next, sent, changes>>
  BY <1>0 DEF Enters
<1>2. a \in Apps /\ M \in SUBSET ToSet(generated[a]) /\ ToSet(rest) \subseteq ToSet(generated[a])
  BY <1>0 DEF Enters
<1>3. \A b \in Apps : ToSet(generated'[b]) \subseteq ToSet(generated[b])
  BY <1>1, <1>2 DEF NetInv, PacketsOK
<1>4. ASSUME NEW n \in Nodes, NEW p \in Present(n)' PROVE p.num \in 1..sent[p.flow] /\ Travelled(n, p)
  <2>1. p \in Present(n) \/ p \in ToSet(Injected(a, M, n))
    <3>1. local[n] \in Seq(Flying) /\ Injected(a, M, n) \in Seq(Flying)
      BY <1>2, InjectedFacts DEF NetInv, PacketsOK
    <3>2. ToSet(local[n] \o Injected(a, M, n)) = ToSet(local[n]) \cup ToSet(Injected(a, M, n))
      BY <3>1, ConcatFacts
    <3> QED
      BY <1>1, <3>2 DEF Present
  <2>2. CASE p \in Present(n)
    BY <2>2 DEF TravelOK
  <2>3. CASE p \in ToSet(Injected(a, M, n))
    <3>1. PICK q \in M : p = Stamped(q)
      BY <1>2, <2>3, InjectedOnly DEF NetInv
    <3>2. p.flow = q.flow /\ p.num = q.num /\ p.hops = 0
      BY <3>1 DEF Stamped
    <3>3. p.num \in 1..sent[p.flow]
      BY <1>2, <3>1, <3>2 DEF TravelOK
    <3>4. N - 1 \in Nat
      BY NodesNotEmpty
    <3>5. changes \in Nat
      BY NetworkAssumption DEF NetInv, PacketsOK
    <3>6. Travelled(n, p)
      <4> DEFINE m == N - 1
      <4>1. m * changes \in Nat /\ m * (changes + 1) \in Nat /\ m * (changes + 1) = m * changes + m
        BY <3>4, <3>5, Rounds
      <4>2. fib # NoFib => ToGo(fib, n, p.dst) \in Nat /\ ToGo(fib, n, p.dst) <= m
        BY RouteTable DEF NetInv, TableOK
      <4>3. m \in Nat
        BY <3>4
      <4>4. fib = NoFib => p.hops <= m * changes
        BY <3>2, <4>1
      <4>5. fib # NoFib => p.hops + ToGo(fib, n, p.dst) <= m * (changes + 1)
        BY <3>2, <4>1, <4>2, <4>3
      <4> QED
        BY <4>4, <4>5 DEF Travelled
    <3> QED
      BY <3>3, <3>6
  <2> QED
    BY <2>1, <2>2, <2>3
<1>5. ASSUME NEW n \in Nodes, NEW p \in Present(n)' PROVE p.num \in 1..sent'[p.flow] /\ Travelled(n, p)'
  BY <1>1, <1>4 DEF Travelled
<1>6. \A b \in Apps : \A p \in ToSet(generated'[b]) : p.num \in 1..sent'[p.flow]
  BY <1>1, <1>3 DEF TravelOK
<1> QED
  BY <1>5, <1>6 DEF TravelOK

\* A table built is the first one since the last change.
LEMMA BuildTravel == ASSUME NetInv, TravelOK, Build PROVE TravelOK'
<1>1. /\ fib = NoFib
      /\ UNCHANGED <<generated, local, buffer, next, sent, changes>>
  BY DEF Build, buffers, history
<1>2. IsRouteTable(fib')
  BY BuildNet
<1>3. ASSUME NEW n \in Nodes, NEW p \in Present(n)' PROVE p.num \in 1..sent'[p.flow] /\ Travelled(n, p)'
  <2>1. p \in Present(n) /\ p \in Flying
    BY <1>1, PresentType DEF NetInv, Present
  <2>2. p.num \in 1..sent[p.flow] /\ p.hops <= (N - 1) * changes /\ p.hops \in Nat
    BY <1>1, <2>1 DEF TravelOK, Travelled, Flying
  <2>3. fib' # NoFib /\ ToGo(fib', n, p.dst) \in Nat /\ ToGo(fib', n, p.dst) <= N - 1
    BY <1>2, RouteTable
  <2>4. N - 1 \in Nat /\ changes \in Nat
    BY NodesFinite, <2>3, NetworkAssumption DEF NetInv, PacketsOK
  <2>5. p.hops + ToGo(fib', n, p.dst) <= (N - 1) * (changes + 1)
    <3> DEFINE m == N - 1
               x == m * changes
               y == m * (changes + 1)
    <3>1. x \in Nat /\ y \in Nat /\ y = x + m /\ m \in Nat
      BY <2>4, Rounds
    <3>2. p.hops <= x /\ ToGo(fib', n, p.dst) <= m
      BY <2>2, <2>3
    <3> HIDE DEF x, y, m
    <3>3. p.hops + ToGo(fib', n, p.dst) <= y
      BY <2>2, <2>3, <3>1, <3>2
    <3> QED
      BY <3>3 DEF y, m
  <2> QED
    BY <1>1, <2>2, <2>3, <2>5 DEF Travelled
<1>4. \A b \in Apps : \A p \in ToSet(generated'[b]) : p.num \in 1..sent'[p.flow]
  BY <1>1 DEF TravelOK
<1> QED
  BY <1>3, <1>4 DEF TravelOK

\* What is present after a hop was there before it, but for the packet itself.
LEMMA HopPresent ==
    ASSUME NetInv, NEW n \in nodes, NEW i \in DOMAIN Work(n), Hop(n, i), NEW m \in Nodes,
           NEW q \in Present(m)'
    PROVE  LET p == Work(n)[i]
           IN  \/ q \in Present(m)
               \/ q = Onward(p, n) /\ m = NextHop(n, p) /\ <<n, p.dst>> \in DOMAIN fib
<1> DEFINE p == Work(n)[i]
<1>1. n \in Nodes /\ p \in Flying /\ Leaves(n, i) /\ Fares(n, p)
  BY HopFacts
<1> HIDE DEF p
<1>2. PacketsOK /\ nodes \subseteq Nodes
  BY DEF NetInv, LinksOK
<1>3. ToSet(local'[m]) \subseteq ToSet(local[m]) /\ ToSet(buffer'[m]) \subseteq ToSet(buffer[m])
  BY <1>1, <1>2, LeavesType
<1>4. ToSet(next'[m]) \subseteq ToSet(next[m]) \cup
         (IF m = NextHop(n, p) /\ <<n, p.dst>> \in DOMAIN fib THEN {Onward(p, n)} ELSE {})
  BY <1>1, <1>2, FaresType
<1> QED
  BY <1>3, <1>4 DEF Present, p

LEMMA WorkPresent == ASSUME NEW n \in Nodes PROVE ToSet(Work(n)) \subseteq Present(n)
BY DEF Work, Present

LEMMA HopTravel ==
    ASSUME NetInv, TravelOK, NEW n \in nodes, NEW i \in DOMAIN Work(n), Hop(n, i) PROVE TravelOK'
<1> DEFINE p == Work(n)[i]
<1>1. /\ IsRouteTable(fib) /\ n \in Nodes /\ p \in Flying
      /\ UNCHANGED <<fib, generated, sent, changes>>
  BY HopFacts
<1>2. p \in Present(n)
  BY <1>1, WorkFacts, WorkPresent DEF NetInv
<1>3. p.num \in 1..sent[p.flow] /\ p.hops + ToGo(fib, n, p.dst) <= (N - 1) * (changes + 1)
  BY <1>1, <1>2, RouteTable DEF TravelOK, Travelled
<1> HIDE DEF p
<1>4. ASSUME NEW m \in Nodes, NEW q \in Present(m)' PROVE q.num \in 1..sent'[q.flow] /\ Travelled(m, q)'
  <2>1. CASE q \in Present(m)
    BY <1>1, <2>1 DEF TravelOK, Travelled
  <2>2. CASE q = Onward(p, n) /\ m = NextHop(n, p) /\ <<n, p.dst>> \in DOMAIN fib
    <3>1. q.flow = p.flow /\ q.num = p.num /\ q.dst = p.dst /\ q.hops = p.hops + 1
      BY <1>1, <2>2, OnwardType
    <3>2. /\ ToGo(fib, m, p.dst) < ToGo(fib, n, p.dst)
          /\ ToGo(fib, m, p.dst) \in Nat /\ ToGo(fib, n, p.dst) \in Nat
      <4> DEFINE x == <<n, p.dst>>
      <4>1. x \in DOMAIN fib /\ x[1] = n /\ x[2] = p.dst /\ fib[x] = m
        BY <2>2 DEF NextHop
      <4>2. p.dst \in Nodes
        BY <1>1 DEF Flying
      <4> HIDE DEF x
      <4>3. ToGo(fib, fib[x], x[2]) < ToGo(fib, x[1], x[2])
        BY <1>1, <4>1, RouteTable
      <4>4. ToGo(fib, m, p.dst) \in Nat /\ ToGo(fib, n, p.dst) \in Nat
        BY <1>1, <4>2, RouteTable
      <4> QED
        BY <4>1, <4>3, <4>4
    <3>3. p.hops \in Nat /\ N - 1 \in Int /\ changes \in Nat
      BY <1>1, NodesFinite, NetworkAssumption DEF Flying, NetInv, PacketsOK
    <3>4. q.hops + ToGo(fib, m, q.dst) <= (N - 1) * (changes + 1)
      <4> DEFINE y == (N - 1) * (changes + 1)
      <4>1. p.hops + ToGo(fib, n, p.dst) <= y /\ y \in Int
        BY <1>3, <3>3
      <4> HIDE DEF y
      <4>2. q.hops + ToGo(fib, m, q.dst) <= y
        BY <3>1, <3>2, <3>3, <4>1
      <4> QED
        BY <4>2 DEF y
    <3> QED
      BY <1>1, <1>3, <3>1, <3>4, RouteTable DEF Travelled
  <2> QED
    BY <2>1, <2>2, HopPresent DEF p
<1>5. \A b \in Apps : \A q \in ToSet(generated'[b]) : q.num \in 1..sent'[q.flow]
  BY <1>1 DEF TravelOK
<1> QED
  BY <1>4, <1>5 DEF TravelOK

LEMMA EndPresent ==
    ASSUME NetInv, EndRouting, NEW n \in Nodes PROVE Present(n)' \subseteq Present(n)
<1>1. buffer[n] \in Seq(Flying) /\ next[n] \in Seq(Flying)
  BY DEF NetInv, PacketsOK
<1>2. ToSet(buffer[n] \o next[n]) = ToSet(buffer[n]) \cup ToSet(next[n])
  BY <1>1, ConcatFacts
<1> QED
  BY <1>2, EmptyFacts DEF EndRouting, Present

LEMMA EndTravel == ASSUME NetInv, TravelOK, EndRouting PROVE TravelOK'
<1>1. UNCHANGED <<fib, generated, sent, changes>>
  BY DEF EndRouting, history
<1>2. ASSUME NEW n \in Nodes, NEW p \in Present(n)' PROVE p.num \in 1..sent'[p.flow] /\ Travelled(n, p)'
  BY <1>1, EndPresent DEF TravelOK, Travelled
<1> QED
  BY <1>1, <1>2 DEF TravelOK

\* A change of the routes allows every packet another round.
LEMMA BetweenTravel == ASSUME NetInv, TravelOK, Between PROVE TravelOK'
<1>1. changes' = changes + 1 /\ generated' = generated /\ sent' = sent /\ (fib' = fib \/ fib' = NoFib)
  BY DEF Between, Change, RemoveLink, RemoveNode, AddLink, Enact, ResetFib, buffers, history
<1>2. \A n \in Nodes : Present(n)' \subseteq Present(n)
  <2>1. next' = next /\ \A n \in Nodes : /\ local'[n] \in {local[n], <<>>}
                                        /\ buffer'[n] \in {buffer[n], <<>>}
    <3>1. local \in [Nodes -> Seq(Flying)] /\ buffer \in [Nodes -> Seq(Flying)]
      BY DEF NetInv, PacketsOK
    <3> QED
      BY <3>1 DEF Between, RemoveLink, RemoveNode, AddLink, Enact, buffers
  <2> QED
    BY <2>1, EmptyFacts DEF Present
<1>3. ASSUME NEW n \in Nodes, NEW p \in Present(n)' PROVE p.num \in 1..sent'[p.flow] /\ Travelled(n, p)'
  <2> DEFINE m == N - 1
             g == ToGo(fib, n, p.dst)
  <2>1. p \in Present(n) /\ p \in Flying
    BY <1>2, PresentType DEF NetInv
  <2>2. p.num \in 1..sent[p.flow] /\ p.hops \in Nat /\ changes \in Nat /\ Travelled(n, p)
    BY SMTT(20), <2>1, NetworkAssumption DEF TravelOK, Flying, NetInv, PacketsOK
  <2>3. m \in Nat
    BY NodesNotEmpty, NodesFinite
  <2>4. fib # NoFib => g \in Nat
    BY RouteTable DEF NetInv, TableOK
  <2> DEFINE x == m * changes
             y == m * (changes + 1)
             z == m * ((changes + 1) + 1)
  <2>5. x \in Nat /\ y \in Nat /\ z \in Nat /\ y = x + m /\ z = y + m
    <3>1. changes + 1 \in Nat
      BY <2>2
    <3> QED
      BY <2>2, <2>3, <3>1, Rounds
  <2>6. (fib = NoFib => p.hops <= x) /\ (fib # NoFib => p.hops + g <= y)
    BY <2>2 DEF Travelled
  <2>7. (fib' = NoFib => p.hops <= y) /\ (fib' # NoFib => p.hops + g <= z)
    <3> HIDE DEF x, y, z, m, g
    <3> QED
      BY <1>1, <2>2, <2>3, <2>4, <2>5, <2>6
  <2>8. fib' # NoFib => fib' = fib
    BY <1>1
  <2>9. Travelled(n, p)'
    BY <1>1, <2>7, <2>8 DEF Travelled
  <2> QED
    BY <1>1, <2>2, <2>9
<1> QED
  BY <1>1, <1>3 DEF TravelOK

LEMMA RestTravel == ASSUME NetInv, TravelOK, Route \/ UNCHANGED vars PROVE TravelOK'
<1>1. UNCHANGED <<fib, generated, local, buffer, next, sent, changes>>
  BY DEF Route, vars, buffers, history
<1> QED
  BY <1>1 DEF TravelOK, Travelled, Present

LEMMA TravelStep == NetInv /\ TravelOK /\ [Next]_vars => TravelOK'
BY GenerateTravel, InjectTravel, BuildTravel, HopTravel, EndTravel, BetweenTravel, RestTravel
   DEF Next, Routes

-----------------------------------------------------------------------------
(* The types and the bounds, the routes, and the bytes of a deque.         *)

LEMMA TypesHold == ASSUME NetInv, TravelOK PROVE TypeOK
<1>1. PacketsOK /\ LinksOK /\ EmptyOK
  BY DEF NetInv
<1>2. fib = NoFib \/ Range(fib) \subseteq Nodes
  <2>1. CASE fib # NoFib
    <3>1. IsRouteTable(fib)
      BY <2>1 DEF NetInv, TableOK
    <3>2. \A x \in DOMAIN fib : fib[x] \in Nodes
      BY <3>1, RouteTable
    <3> QED
      BY <3>2 DEF Range
  <2> QED
    BY <2>1
<1>3. \A n \in Nodes \ nodes : local[n] = <<>> /\ buffer[n] = <<>> /\ next[n] = <<>>
  BY <1>1 DEF EmptyOK
<1>4. ASSUME NEW n \in Nodes, NEW p \in ToSet(local[n]) \cup ToSet(buffer[n]) \cup ToSet(next[n])
      PROVE  /\ p.flow \in DOMAIN Flows /\ p.num \in 1..sent[p.flow]
             /\ p.hops <= (Cardinality(Nodes) - 1) * (changes + 1)
  <2>1. p \in Present(n) /\ p \in Flying
    BY <1>1, <1>4, PresentType DEF Present
  <2>2. p.flow \in DOMAIN Flows /\ p.num \in 1..sent[p.flow] /\ p.hops \in Nat /\ Travelled(n, p)
    BY <2>1 DEF TravelOK, Flying
  <2> DEFINE m == N - 1
             x == m * changes
             y == m * (changes + 1)
             g == ToGo(fib, n, p.dst)
  <2>3. m \in Nat /\ changes \in Nat
    BY NodesNotEmpty, NodesFinite, NetworkAssumption, <1>1 DEF PacketsOK
  <2>4. x \in Nat /\ y \in Nat /\ y = x + m
    BY <2>3, Rounds
  <2>5. fib # NoFib => g \in Nat
    BY RouteTable DEF NetInv, TableOK
  <2>6. (fib = NoFib => p.hops <= x) /\ (fib # NoFib => p.hops + g <= y)
    BY <2>2 DEF Travelled
  <2>7. p.hops <= y
    <3> HIDE DEF x, y, m, g
    <3> QED
      BY <2>2, <2>3, <2>4, <2>5, <2>6
  <2> QED
    BY <2>2, <2>7 DEF N
<1>5. /\ nodes \subseteq Nodes
      /\ DOMAIN wire \subseteq (nodes \X nodes) \cap DOMAIN Links
      /\ \A e \in DOMAIN wire : e \in wire[e] /\ wire[e] \in {{e}, {e, Opposite(e)}}
      /\ DOMAIN queue = Range(wire)
      /\ \A e \in DOMAIN wire :
           /\ Len(queue[wire[e]]) <= Links[e].max
           /\ bytes[e] \in Int /\ age[e] \in 0..MaxAge
  BY <1>1 DEF LinksOK
<1>6. /\ at \in Placements
      /\ due \in 0..MaxDue
      /\ phase \in {"idle", "inject", "forward"}
      /\ (phase = "idle") = (routing = <<>>)
      /\ changes \in 0..MaxChanges
  BY <1>1 DEF PacketsOK
<1>7. \A f \in DOMAIN Flows : sent[f] \in 0..MaxPackets[f]
  BY <1>1, NetworkAssumption DEF PacketsOK
<1> QED
  BY <1>2, <1>3, <1>4, <1>5, <1>6, <1>7 DEF TypeOK

\* The variables have their types, no deque is longer than its link allows,
\* nothing waits at a node that was removed, and no packet circulates: it comes
\* nearer with each hop the table leads it (forward_one_hop), so between two
\* changes of the routes it makes fewer hops than there are nodes.
THEOREM Types == Spec => []TypeOK
<1>1. Init => NetInv /\ TravelOK
  BY InitNet, InitTravel
<1>2. (NetInv /\ TravelOK) /\ [Next]_vars => (NetInv /\ TravelOK)'
  BY NetStep, TravelStep
<1>3. NetInv /\ TravelOK => TypeOK
  BY TypesHold
<1> QED
  BY <1>1, <1>2, <1>3, PTL DEF Spec

\* Whatever failed or was added since the table was built (build_routing_tables),
\* every next hop of it is a link, and following the hops leads to the destination.
THEOREM TableLeadsOn == Spec => []RoutesLeadOn
<1>1. NetInv => RoutesLeadOn
  BY RouteTable DEF NetInv, TableOK, RoutesLeadOn, N
<1> QED
  BY <1>1, NetInvariant, PTL

\* Over the links a deque was made for, queue_bytes add up to the bytes in it,
\* whichever direction drains it (forward_one_hop, add_edge, remove_edge).
THEOREM BytesAreQueued == Spec => []BytesQueued
<1>1. NetInv => BytesQueued
  BY DEF NetInv
<1> QED
  BY <1>1, NetInvariant, PTL
-----------------------------------------------------------------------------
(* Each packet created is in one place.                                    *)

\* The places of packets, and the packets in each.
Rows == Boxes \cup ({"delivered"} \X DOMAIN Flows) \cup ({"ended"} \X Fates)
Numbered(f, i) == [flow |-> f, num |-> i]
Keys(s) == {Key(p) : p \in ToSet(s)}
Held(b) == IF b[1] = "ended" THEN ended[b[2]]
           ELSE IF b[1] = "delivered" THEN {Numbered(b[2], i) : i \in ToSet(delivered[b[2]])}
           ELSE Keys(Content(b))
Created == {k \in Packets : k.num \in 1..sent[k.flow]}

Placed ==
    /\ \A b \in Rows : Held(b) \subseteq Created
    /\ \A b, c \in Rows : \A k : k \in Held(b) /\ k \in Held(c) => b = c
    /\ \A k \in Created : \E b \in Rows : k \in Held(b)

\* No box has a packet twice.
Differ == {x \in (Packets \cup Flying) \X (Packets \cup Flying) : Key(x[1]) # Key(x[2])}
Unlike == {x \in Nat \X Nat : x[1] # x[2]}
Separate ==
    /\ \A a \in Apps : Ranked(generated[a], Differ)
    /\ \A n \in Nodes : /\ Ranked(local[n], Differ)
                        /\ Ranked(buffer[n], Differ)
                        /\ Ranked(next[n], Differ)
    /\ \A f \in DOMAIN Flows : Ranked(delivered[f], Unlike)

Conserved == Placed /\ Separate

LEMMA ContentIs ==
    /\ \A a : Content(<<"generated", a>>) = generated[a]
    /\ \A n : /\ Content(<<"local", n>>) = local[n]
              /\ Content(<<"buffer", n>>) = buffer[n]
              /\ Content(<<"next", n>>) = next[n]
BY DEF Content

LEMMA HeldIs ==
    /\ \A a : Held(<<"generated", a>>) = Keys(generated[a])
    /\ \A n : /\ Held(<<"local", n>>) = Keys(local[n])
              /\ Held(<<"buffer", n>>) = Keys(buffer[n])
              /\ Held(<<"next", n>>) = Keys(next[n])
    /\ \A f : Held(<<"delivered", f>>) = {Numbered(f, i) : i \in ToSet(delivered[f])}
    /\ \A t : Held(<<"ended", t>>) = ended[t]
BY ContentIs DEF Held

LEMMA HeldWillBe ==
    /\ \A a : Held(<<"generated", a>>)' = Keys(generated'[a])
    /\ \A n : /\ Held(<<"local", n>>)' = Keys(local'[n])
              /\ Held(<<"buffer", n>>)' = Keys(buffer'[n])
              /\ Held(<<"next", n>>)' = Keys(next'[n])
    /\ \A f : Held(<<"delivered", f>>)' = {Numbered(f, i) : i \in ToSet(delivered'[f])}
    /\ \A t : Held(<<"ended", t>>)' = ended'[t]
<1>1. /\ \A a : Content(<<"generated", a>>)' = generated'[a]
      /\ \A n : /\ Content(<<"local", n>>)' = local'[n]
                /\ Content(<<"buffer", n>>)' = buffer'[n]
                /\ Content(<<"next", n>>)' = next'[n]
  BY DEF Content
<1> QED
  BY <1>1 DEF Held

LEMMA RowKinds ==
    ASSUME NEW b \in Rows
    PROVE  \/ \E a \in Apps : b = <<"generated", a>>
           \/ \E n \in Nodes : b \in {<<"local", n>>, <<"buffer", n>>, <<"next", n>>}
           \/ \E f \in DOMAIN Flows : b = <<"delivered", f>>
           \/ \E t \in Fates : b = <<"ended", t>>
BY DEF Rows, Boxes

LEMMA Apart ==
    ASSUME Placed, NEW b \in Rows, NEW c \in Rows, NEW k, k \in Held(b), k \in Held(c) PROVE b = c
BY DEF Placed

LEMMA Relocated ==
    ASSUME Placed, NEW M, NEW To \in [M -> Rows], Created' = Created \cup M,
           \A b \in Rows : \A k :
              k \in Held(b)' <=> ((k \in Held(b) /\ k \notin M) \/ (k \in M /\ To[k] = b))
    PROVE  Placed'
<1>1. ASSUME NEW b \in Rows PROVE Held(b)' \subseteq Created'
  BY DEF Placed
<1>2. ASSUME NEW b \in Rows, NEW c \in Rows, NEW k, k \in Held(b)', k \in Held(c)' PROVE b = c
  BY <1>2 DEF Placed
<1>3. ASSUME NEW k \in Created' PROVE \E b \in Rows : k \in Held(b)'
  BY <1>3 DEF Placed
<1> QED
  BY <1>1, <1>2, <1>3 DEF Placed
LEMMA KeyFacts ==
    /\ \A p \in Flying : Key(p) \in Packets /\ Key(p).flow = p.flow /\ Key(p).num = p.num
    /\ \A p \in Packets : Key(p) = p
    /\ \A f \in DOMAIN Flows, i \in Nat : Numbered(f, i) \in Packets
    /\ \A k \in Packets : k = Numbered(k.flow, k.num)
BY DEF Key, Packets, Flying, Numbered

LEMMA KeysOf ==
    ASSUME NEW T \in {Packets, Flying}, NEW s \in Seq(T)
    PROVE  /\ Keys(s) \subseteq Packets
           /\ \A x \in T : Append(s, x) \in Seq(T) /\ Keys(Append(s, x)) = Keys(s) \cup {Key(x)}
           /\ \A t \in Seq(T) : s \o t \in Seq(T) /\ Keys(s \o t) = Keys(s) \cup Keys(t)
<1>1. ToSet(s) \subseteq T
  BY MemberOf
<1>2. Keys(s) \subseteq Packets
  BY <1>1, KeyFacts DEF Keys
<1>3. \A x \in T : Append(s, x) \in Seq(T) /\ Keys(Append(s, x)) = Keys(s) \cup {Key(x)}
  BY AppendFacts DEF Keys
<1>4. \A t \in Seq(T) : s \o t \in Seq(T) /\ Keys(s \o t) = Keys(s) \cup Keys(t)
  BY ConcatFacts DEF Keys
<1> QED
  BY <1>2, <1>3, <1>4

LEMMA KeysRemoveAt ==
    ASSUME NEW s \in Seq(Flying), NEW i \in 1..Len(s), Ranked(s, Differ)
    PROVE  /\ RemoveAt(s, i) \in Seq(Flying) /\ Ranked(RemoveAt(s, i), Differ)
           /\ Key(s[i]) \in Keys(s) /\ Keys(RemoveAt(s, i)) = Keys(s) \ {Key(s[i])}
<1> DEFINE r == RemoveAt(s, i)
<1>1. /\ r \in Seq(Flying) /\ Ranked(r, Differ)
      /\ ToSet(s) = ToSet(r) \cup {s[i]}
      /\ \A x \in ToSet(r) : \E j \in 1..Len(s) : j # i /\ s[j] = x
  BY RemoveAtFacts
<1>2. Len(s) \in Nat
  BY LenProperties
<1>3. \A j, l \in 1..Len(s) : j < l => Key(s[j]) # Key(s[l])
  BY DEF Ranked, Differ
<1>4. \A j \in 1..Len(s) : j # i => Key(s[j]) # Key(s[i])
  BY <1>2, <1>3
<1> HIDE DEF r
<1>5. \A x \in ToSet(r) : Key(x) # Key(s[i])
  BY <1>1, <1>4
<1>6. Key(s[i]) \in Keys(s) /\ Keys(r) = Keys(s) \ {Key(s[i])}
  BY <1>1, <1>5 DEF Keys
<1> QED
  BY <1>1, <1>6 DEF r

LEMMA KeysEmpty == Keys(<<>>) = {}
BY EmptyFacts DEF Keys

\* A packet that is in no other place can join a box.
LEMMA DifferAcross ==
    ASSUME NEW T \in {Packets, Flying}, NEW s \in Seq(T), NEW t \in Seq(T),
           Ranked(s, Differ), Ranked(t, Differ), Keys(s) \cap Keys(t) = {}
    PROVE  Ranked(s \o t, Differ)
<1>1. ToSet(s) \subseteq T /\ ToSet(t) \subseteq T
  BY MemberOf
<1>2. \A x \in ToSet(s), y \in ToSet(t) : <<x, y>> \in Differ
  BY <1>1 DEF Keys, Differ
<1> QED
  BY <1>2, ConcatFacts

LEMMA DifferOneMore ==
    ASSUME NEW s \in Seq(Flying), NEW x \in Flying, Ranked(s, Differ), Key(x) \notin Keys(s)
    PROVE  Ranked(Append(s, x), Differ)
<1>1. ToSet(s) \subseteq Flying
  BY MemberOf
<1>2. \A y \in ToSet(s) : <<y, x>> \in Differ
  BY <1>1 DEF Keys, Differ
<1> QED
  BY <1>2, AppendFacts
LEMMA CreatedFacts ==
    /\ \A k : k \in Created <=> k \in Packets /\ k.num \in 1..sent[k.flow]
    /\ \A k : k \in Created' <=> k \in Packets /\ k.num \in 1..sent'[k.flow]
BY DEF Created

\* Nothing moved.
LEMMA Unmoved ==
    ASSUME Conserved, UNCHANGED <<generated, local, buffer, next, sent, delivered, ended>>
    PROVE  Conserved'
<1>1. \A b \in Rows : Held(b)' = Held(b)
  <2> TAKE b \in Rows
  <2> QED
    BY RowKinds, HeldIs, HeldWillBe
<1>2. Created' = Created
  BY DEF Created
<1>3. Placed'
  BY <1>1, <1>2 DEF Conserved, Placed
<1>4. Separate'
  BY DEF Conserved, Separate
<1> QED
  BY <1>3, <1>4 DEF Conserved

LEMMA EmptyRanked == \A R : Ranked(<<>>, R)
BY DEF Ranked

LEMMA InitConserved == ASSUME Init PROVE Conserved
<1>1. /\ \A a \in Apps : generated[a] = <<>>
      /\ \A n \in Nodes : local[n] = <<>> /\ buffer[n] = <<>> /\ next[n] = <<>>
      /\ \A f \in DOMAIN Flows : delivered[f] = <<>> /\ sent[f] = 0
      /\ \A t \in Fates : ended[t] = {}
  BY EmptyFacts DEF Init
<1>2. \A b \in Rows : Held(b) = {}
  <2> TAKE b \in Rows
  <2>1. CASE \E f \in DOMAIN Flows : b = <<"delivered", f>>
    BY <1>1, <2>1, HeldIs, EmptyFacts
  <2>2. CASE ~(\E f \in DOMAIN Flows : b = <<"delivered", f>>)
    BY <1>1, <2>2, RowKinds, HeldIs, KeysEmpty
  <2> QED
    BY <2>1, <2>2
<1>3. Created = {}
  BY <1>1 DEF Created, Packets
<1>4. Placed
  BY <1>2, <1>3 DEF Placed
<1>5. Separate
  BY <1>1, EmptyRanked DEF Separate
<1> QED
  BY <1>4, <1>5 DEF Conserved

LEMMA GenerateConserved == ASSUME NetInv, Conserved, Generate PROVE Conserved'
<1>1. /\ local' = local /\ buffer' = buffer /\ next' = next
      /\ delivered' = delivered /\ ended' = Clearing
  BY DEF Generate
<1>2. PICK count \in [DOMAIN Flows -> 0..MaxBurst] :
         /\ \A f \in DOMAIN Flows : sent[f] + count[f] <= MaxPackets[f]
         /\ generated' = [a \in Apps |-> Drawn(a, count)]
         /\ sent' = [f \in DOMAIN Flows |-> sent[f] + count[f]]
  BY DEF Generate
<1>3. \A f \in DOMAIN Flows : count[f] \in Nat /\ sent[f] \in Nat /\ sent'[f] = sent[f] + count[f]
  BY <1>2, NetworkAssumption DEF NetInv, PacketsOK
<1>4. count \in [DOMAIN Flows -> Nat]
  BY <1>3
<1> DEFINE New == {k \in Packets : sent[k.flow] < k.num /\ k.num <= sent[k.flow] + count[k.flow]}
           Old == UNION {ToSet(generated[a]) : a \in Apps}
           M == New \cup Old
           To == [k \in M |-> IF k \in New THEN <<"generated", Flows[k.flow].app>>
                              ELSE <<"ended", "cleared">>]
<1>5. ASSUME NEW a \in Apps
      PROVE  /\ Keys(generated[a]) = ToSet(generated[a]) /\ ToSet(generated[a]) \subseteq Packets
             /\ Ranked(generated'[a], Differ)
             /\ \A k : k \in Keys(generated'[a]) <=> k \in New /\ Flows[k.flow].app = a
  <2>1. Keys(generated[a]) = ToSet(generated[a]) /\ ToSet(generated[a]) \subseteq Packets
    <3>1. ToSet(generated[a]) \subseteq Packets
      BY MemberOf DEF NetInv, PacketsOK
    <3> QED
      BY <3>1, KeyFacts DEF Keys
  <2>2. generated'[a] = Drawn(a, count)
    BY <1>2
  <2>3. /\ Drawn(a, count) \in Seq(Packets)
        /\ \A p : p \in ToSet(Drawn(a, count)) <=>
                       /\ p \in Packets /\ Flows[p.flow].app = a
                       /\ sent[p.flow] < p.num /\ p.num <= sent[p.flow] + count[p.flow]
        /\ Ranked(Drawn(a, count), InNumber)
    BY <1>4, DrawnFacts DEF NetInv
  <2>4. \A k : k \in Keys(Drawn(a, count)) <=> k \in New /\ Flows[k.flow].app = a
    BY <2>3, KeyFacts DEF Keys
  <2>5. ASSUME NEW x \in InNumber PROVE x \in Differ
    <3>1. /\ x \in Packets \X Packets /\ x[1] \in Packets /\ x[2] \in Packets
          /\ x[1].flow = x[2].flow => x[1].num < x[2].num
      BY DEF InNumber
    <3>2. x[1].num \in Nat /\ x[2].num \in Nat
      BY <3>1 DEF Packets
    <3>3. x[1] # x[2]
      BY <3>1, <3>2
    <3>4. x \in (Packets \cup Flying) \X (Packets \cup Flying) /\ Key(x[1]) # Key(x[2])
      BY <3>1, <3>3, KeyFacts
    <3> QED
      BY <3>4 DEF Differ
  <2>6. Ranked(Drawn(a, count), Differ)
    BY <2>3, <2>5 DEF Ranked
  <2> HIDE DEF New
  <2> QED
    BY <2>1, <2>2, <2>4, <2>6
<1> HIDE DEF New
<1>6. New \subseteq Packets /\ \A k \in New : k.flow \in DOMAIN Flows /\ Flows[k.flow].app \in Apps
  BY NetworkAssumption DEF New, Packets, Apps
<1>7. ASSUME NEW k \in Packets PROVE k \in Created' <=> (k \in Created \/ k \in New)
  <2>1. k.flow \in DOMAIN Flows /\ k.num \in Nat
    BY DEF Packets
  <2>2. sent[k.flow] \in Nat /\ count[k.flow] \in Nat /\ sent'[k.flow] = sent[k.flow] + count[k.flow]
    BY <1>3, <2>1
  <2>3. k \in New <=> sent[k.flow] < k.num /\ k.num <= sent[k.flow] + count[k.flow]
    BY DEF New
  <2> QED
    BY <2>1, <2>2, <2>3, CreatedFacts
<1>8. ASSUME NEW k \in New PROVE k \notin Created
  <2>1. k \in Packets /\ k.flow \in DOMAIN Flows /\ sent[k.flow] < k.num
    BY <1>6 DEF New
  <2>2. sent[k.flow] \in Nat
    BY <1>3, <2>1
  <2> QED
    BY <2>1, <2>2, CreatedFacts
<1>9. ASSUME NEW k \in Old
      PROVE  /\ k \in Created
             /\ \E a \in Apps : k \in Held(<<"generated", a>>)
             /\ \A b \in Rows : k \in Held(b) => \E a \in Apps : b = <<"generated", a>>
  <2>1. PICK a \in Apps : k \in ToSet(generated[a])
    OBVIOUS
  <2>2. <<"generated", a>> \in Rows /\ k \in Held(<<"generated", a>>)
    BY <1>5, <2>1, HeldIs DEF Rows, Boxes
  <2> QED
    BY <2>2, Apart DEF Conserved, Placed
<1>10. \A a \in Apps : \A k : k \in Held(<<"generated", a>>) => k \in Old
  BY <1>5, HeldIs
<1>11. \A t \in Fates : ended'[t] = IF t = "cleared" THEN ended[t] \cup Old ELSE ended[t]
  <2>1. ended \in [Fates -> SUBSET Packets]
    BY DEF NetInv, PacketsOK
  <2>2. ended' = [ended EXCEPT !["cleared"] = @ \cup Old]
    BY <1>1 DEF Clearing
  <2> HIDE DEF Old
  <2> QED
    BY <2>1, <2>2
<1> HIDE DEF Old
<1>12. "cleared" \in Fates /\ <<"ended", "cleared">> \in Rows
       /\ \A a \in Apps : <<"generated", a>> \in Rows
  BY DEF Rows, Boxes, Fates
<1>13. /\ \A k \in New : k \in M /\ k \notin Old /\ To[k] = <<"generated", Flows[k.flow].app>>
       /\ \A k \in Old : k \in M /\ k \notin New /\ To[k] = <<"ended", "cleared">>
       /\ \A k \in M : k \in New \/ k \in Old
  BY <1>8, <1>9
<1>14. To \in [M -> Rows]
  <2>1. DOMAIN To = M /\ To = [k \in M |-> To[k]]
    OBVIOUS
  <2> HIDE DEF M, To
  <2>2. \A k \in New : <<"generated", Flows[k.flow].app>> \in Rows
    BY <1>6, <1>12
  <2>3. \A k \in M : To[k] \in Rows
    BY <1>12, <1>13, <2>2
  <2> QED
    BY <2>1, <2>3
<1> HIDE DEF M, To
<1>15. Created' = Created \cup M
  <2>1. Created' \subseteq Packets /\ Created \subseteq Packets
    BY CreatedFacts
  <2>2. \A k \in Packets : k \in Created' <=> k \in Created \cup M
    BY <1>7, <1>9, <1>13
  <2>3. M \subseteq Packets
    BY <1>6, <1>9, <1>13, <2>1
  <2> QED
    BY <2>1, <2>2, <2>3
<1>16. ASSUME NEW b \in Rows, NEW k
       PROVE  k \in Held(b)' <=> ((k \in Held(b) /\ k \notin M) \/ (k \in M /\ To[k] = b))
  <2>1. CASE \E a \in Apps : b = <<"generated", a>>
    <3>1. PICK a \in Apps : b = <<"generated", a>>
      BY <2>1
    <3>2. k \in Held(b)' <=> k \in New /\ Flows[k.flow].app = a
      BY <1>5, <3>1, HeldWillBe
    <3>3. k \in Held(b) => k \in Old
      BY <1>10, <3>1
    <3> QED
      BY <1>13, <3>1, <3>2, <3>3
  <2>2. ASSUME NEW t \in Fates, b = <<"ended", t>>
        PROVE  k \in Held(b)' <=> ((k \in Held(b) /\ k \notin M) \/ (k \in M /\ To[k] = b))
    <3>1. k \in Held(b)' <=> k \in Held(b) \/ (t = "cleared" /\ k \in Old)
      <4>1. Held(b) = ended[t]
        BY <2>2, HeldIs
      <4>2. Held(b)' = ended'[t]
        BY <2>2, HeldWillBe
      <4> QED
        BY <1>11, <4>1, <4>2
    <3>2. k \in Held(b) => k \notin M
      BY <1>8, <1>9, <1>13, <2>2 DEF Conserved, Placed
    <3> QED
      BY <1>13, <2>2, <3>1, <3>2
  <2>3. ASSUME ~\E a \in Apps : b = <<"generated", a>>, \A t \in Fates : b # <<"ended", t>>
        PROVE  k \in Held(b)' <=> ((k \in Held(b) /\ k \notin M) \/ (k \in M /\ To[k] = b))
    <3>1. Held(b)' = Held(b)
      <4>1. ASSUME NEW n \in Nodes, b \in {<<"local", n>>, <<"buffer", n>>, <<"next", n>>}
            PROVE  Held(b)' = Held(b)
        BY <1>1, <4>1, HeldIs, HeldWillBe
      <4>2. ASSUME NEW f \in DOMAIN Flows, b = <<"delivered", f>> PROVE Held(b)' = Held(b)
        BY ZenonT(30), <1>1, <4>2, HeldIs, HeldWillBe
      <4> QED
        BY <2>3, <4>1, <4>2, RowKinds
    <3>2. k \in Held(b) => k \notin M
      BY <1>8, <1>9, <1>13, <2>3 DEF Conserved, Placed
    <3>3. k \in M => To[k] # b
      BY <1>6, <1>12, <1>13, <2>3
    <3> QED
      BY <3>1, <3>2, <3>3
  <2> QED
    BY <2>1, <2>2, <2>3
<1>17. Placed'
  BY <1>14, <1>15, <1>16, Relocated DEF Conserved
<1>18. Separate'
  BY <1>1, <1>5 DEF Conserved, Separate
<1> QED
  BY <1>17, <1>18 DEF Conserved

LEMMA StampedFacts ==
    ASSUME PacketsOK, NEW p \in Packets, Injects(p)
    PROVE  /\ Stamped(p) \in Flying /\ Key(Stamped(p)) = p
           /\ Src(p) \in Nodes /\ Dst(p) \in Nodes
<1>1. Src(p) \in Nodes
  BY DEF Injects, Nodes
<1>2. Dst(p) \in Nodes \cup {Unmapped}
  BY NetworkAssumption DEF Dst, PacketsOK, Packets
<1>3. Dst(p) \in Nodes
  BY <1>2 DEF Injects
<1>4. Stamped(p) \in Flying
  BY <1>3 DEF Stamped, Flying, Packets
<1>5. Key(Stamped(p)) = p
  BY KeyFacts DEF Stamped, Key
<1> QED
  BY <1>1, <1>3, <1>4, <1>5

LEMMA InjectConserved == ASSUME NetInv, Conserved, Inject \/ InjectRaises PROVE Conserved'
<1>0. PICK a, M, rest : Enters(a, M, rest)
  BY Injecting
<1> DEFINE To == [k \in M |-> IF Injects(k) THEN <<"local", Src(k)>> ELSE <<"ended", "discarded">>]
<1>1. /\ local' = [n \in Nodes |-> local[n] \o Injected(a, M, n)]
      /\ ended' = [ended EXCEPT !["discarded"] = @ \cup {p \in M : ~Injects(p)}]
      /\ generated' = [generated EXCEPT ![a] = rest]
      /\ buffer' = buffer /\ next' = next /\ sent' = sent /\ delivered' = delivered
  BY <1>0 DEF Enters
<1>2. /\ a \in Apps /\ M \in SUBSET ToSet(generated[a]) /\ rest \in Seq(Packets)
      /\ ToSet(rest) = ToSet(generated[a]) \ M
      /\ \A R : Ranked(generated[a], R) => Ranked(rest, R)
  BY <1>0 DEF Enters
<1>3. /\ Keys(generated[a]) = ToSet(generated[a]) /\ Keys(rest) = ToSet(rest)
      /\ ToSet(generated[a]) \subseteq Packets /\ M \subseteq Packets
  <2>1. generated[a] \in Seq(Packets)
    BY <1>2 DEF NetInv, PacketsOK
  <2>2. ToSet(generated[a]) \subseteq Packets
    BY <2>1, MemberOf
  <2> QED
    BY <1>2, <2>2, KeyFacts DEF Keys
<1>4. Ranked(generated[a], Differ) /\ M \subseteq Created
      /\ \A b \in Rows : b # <<"generated", a>> => Held(b) \cap M = {}
  <2>1. <<"generated", a>> \in Rows /\ M \subseteq Held(<<"generated", a>>)
    BY <1>2, <1>3, HeldIs DEF Rows, Boxes
  <2> QED
    BY <1>2, <2>1 DEF Conserved, Placed, Separate
<1>5. ASSUME NEW n \in Nodes
      PROVE  /\ \A k : k \in Keys(local'[n]) <=>
                         (k \in Keys(local[n]) \/ (k \in M /\ Injects(k) /\ Src(k) = n))
             /\ Ranked(local'[n], Differ)
  <2>1. /\ local[n] \in Seq(Flying) /\ Ranked(local[n], Differ)
        /\ local'[n] = local[n] \o Injected(a, M, n)
    BY <1>1 DEF NetInv, PacketsOK, Conserved, Separate
  <2>2. /\ Injected(a, M, n) \in Seq(Flying)
        /\ \A q : q \in ToSet(Injected(a, M, n)) <=>
                       \E p \in M : Injects(p) /\ Src(p) = n /\ q = Stamped(p)
    BY <1>2, <1>3, InjectedFacts DEF NetInv
  <2>3. \A p, q \in ToSet(generated[a]) :
           /\ <<p, q>> \in Differ
           /\ Injects(p) /\ Injects(q) /\ Src(p) = n /\ Src(q) = n
           => <<Stamped(p), Stamped(q)>> \in Differ
    BY <1>3, StampedFacts, KeyFacts DEF NetInv, Differ
  <2>4. Ranked(Injected(a, M, n), Differ)
    BY <1>2, <1>4, <2>3, InjectedFacts DEF NetInv, KeepsOrder
  <2>5. \A k : k \in Keys(Injected(a, M, n)) <=> (k \in M /\ Injects(k) /\ Src(k) = n)
    <3>1. \A p \in M : Injects(p) => Key(Stamped(p)) = p
      BY <1>3, StampedFacts DEF NetInv
    <3> QED
      BY <2>2, <3>1 DEF Keys
  <2>6. Keys(local[n]) \cap M = {}
    <3>1. <<"local", n>> \in Rows /\ Held(<<"local", n>>) = Keys(local[n])
      BY HeldIs DEF Rows, Boxes
    <3> QED
      BY <1>4, <3>1
  <2>7. Keys(local'[n]) = Keys(local[n]) \cup Keys(Injected(a, M, n))
    BY <2>1, <2>2, KeysOf
  <2>8. Keys(local[n]) \cap Keys(Injected(a, M, n)) = {}
    BY <2>5, <2>6
  <2>9. Ranked(local'[n], Differ)
    BY <2>1, <2>2, <2>4, <2>8, DifferAcross
  <2> QED
    BY <2>5, <2>7, <2>9
<1>6. /\ \A c \in Apps : generated'[c] = IF c = a THEN rest ELSE generated[c]
      /\ \A t \in Fates : \A k : k \in ended'[t] <=>
            (k \in ended[t] \/ (t = "discarded" /\ k \in M /\ ~Injects(k)))
  <2>1. \A c \in Apps : generated'[c] = IF c = a THEN rest ELSE generated[c]
    BY <1>1 DEF NetInv, PacketsOK
  <2>2. ended \in [Fates -> SUBSET Packets] /\ "discarded" \in Fates
    BY DEF NetInv, PacketsOK, Fates
  <2>3. ended' = [ended EXCEPT !["discarded"] = ended["discarded"] \cup {p \in M : ~Injects(p)}]
    BY <1>1
  <2> QED
    BY <2>1, <2>2, <2>3
<1>7. \A k \in M : /\ Injects(k) => Src(k) \in Nodes /\ To[k] = <<"local", Src(k)>>
                   /\ ~Injects(k) => To[k] = <<"ended", "discarded">>
  BY <1>3, StampedFacts DEF NetInv
<1>8. To \in [M -> Rows]
  <2>1. \A n \in Nodes : <<"local", n>> \in Rows
    BY DEF Rows, Boxes
  <2>2. <<"ended", "discarded">> \in Rows
    BY DEF Rows, Fates
  <2>3. DOMAIN To = M /\ To = [k \in M |-> To[k]]
    OBVIOUS
  <2> HIDE DEF To
  <2> QED
    BY <1>7, <2>1, <2>2, <2>3
<1> HIDE DEF To
<1>9. Created' = Created \cup M
  BY <1>1, <1>4 DEF Created
<1>10. ASSUME NEW b \in Rows, NEW k
       PROVE  k \in Held(b)' <=> ((k \in Held(b) /\ k \notin M) \/ (k \in M /\ To[k] = b))
  <2>1. CASE b = <<"generated", a>>
    <3>1. Held(b)' = ToSet(generated[a]) \ M
      BY <1>2, <1>3, <1>6, <2>1, HeldWillBe
    <3>2. Held(b) = ToSet(generated[a])
      BY <1>3, <2>1, HeldIs
    <3> QED
      BY <1>7, <2>1, <3>1, <3>2
  <2>2. ASSUME NEW n \in Nodes, b = <<"local", n>>
        PROVE  k \in Held(b)' <=> ((k \in Held(b) /\ k \notin M) \/ (k \in M /\ To[k] = b))
    <3>1. k \in Held(b)' <=> (k \in Held(b) \/ (k \in M /\ Injects(k) /\ Src(k) = n))
      BY <1>5, <2>2, HeldIs, HeldWillBe
    <3>2. k \in Held(b) => k \notin M
      BY <1>4, <2>2
    <3> QED
      BY <1>7, <2>2, <3>1, <3>2
  <2>3. ASSUME NEW t \in Fates, b = <<"ended", t>>
        PROVE  k \in Held(b)' <=> ((k \in Held(b) /\ k \notin M) \/ (k \in M /\ To[k] = b))
    <3>1. k \in Held(b)' <=> (k \in Held(b) \/ (t = "discarded" /\ k \in M /\ ~Injects(k)))
      BY <1>6, <2>3, HeldIs, HeldWillBe
    <3>2. k \in Held(b) => k \notin M
      BY <1>4, <2>3
    <3> QED
      BY <1>7, <2>3, <3>1, <3>2
  <2>4. ASSUME b # <<"generated", a>>, \A n \in Nodes : b # <<"local", n>>,
               \A t \in Fates : b # <<"ended", t>>
        PROVE  k \in Held(b)' <=> ((k \in Held(b) /\ k \notin M) \/ (k \in M /\ To[k] = b))
    <3>1. Held(b)' = Held(b)
      <4>1. ASSUME NEW c \in Apps, b = <<"generated", c>> PROVE Held(b)' = Held(b)
        <5>1. c # a
          BY <2>4, <4>1
        <5>2. generated'[c] = generated[c]
          BY <1>6, <5>1
        <5> QED
          BY <4>1, <5>2, HeldIs, HeldWillBe
      <4>2. ASSUME NEW n \in Nodes, b \in {<<"buffer", n>>, <<"next", n>>} PROVE Held(b)' = Held(b)
        BY <1>1, <4>2, HeldIs, HeldWillBe
      <4>3. ASSUME NEW f \in DOMAIN Flows, b = <<"delivered", f>> PROVE Held(b)' = Held(b)
        BY ZenonT(30), <1>1, <4>3, HeldIs, HeldWillBe
      <4> QED
        BY <2>4, <4>1, <4>2, <4>3, RowKinds
    <3>2. k \in Held(b) => k \notin M
      BY <1>4, <2>4
    <3>3. k \in M => To[k] # b
      BY <1>7, <2>4 DEF Fates
    <3> QED
      BY <3>1, <3>2, <3>3
  <2> QED
    BY <2>1, <2>2, <2>3, <2>4
<1>11. Placed'
  BY <1>8, <1>9, <1>10, Relocated DEF Conserved
<1>12. Separate'
  BY <1>1, <1>2, <1>4, <1>5, <1>6 DEF Conserved, Separate
<1> QED
  BY <1>11, <1>12 DEF Conserved
\* The rows a packet leaves from, and the rows it gets to.
Sources == {"local", "buffer"} \X Nodes
Targets == ({"next"} \X Nodes) \cup ({"delivered"} \X DOMAIN Flows) \cup ({"ended"} \X Fates)

LEMMA RowSplit == Rows = ({"generated"} \X Apps) \cup Sources \cup Targets
BY DEF Rows, Boxes, Sources, Targets

LEMMA LeavesKeys ==
    ASSUME NetInv, Separate, NEW n \in Nodes, NEW i \in DOMAIN Work(n), Leaves(n, i)
    PROVE  /\ \E from \in Sources : /\ Key(Work(n)[i]) \in Held(from)
                                    /\ \A b \in Sources :
                                         Held(b)' = IF b = from THEN Held(b) \ {Key(Work(n)[i])}
                                                    ELSE Held(b)
           /\ \A m \in Nodes : Ranked(local'[m], Differ) /\ Ranked(buffer'[m], Differ)
<1> DEFINE p == Work(n)[i]
<1>1. /\ local \in [Nodes -> Seq(Flying)] /\ buffer \in [Nodes -> Seq(Flying)]
      /\ \A m \in Nodes : Ranked(local[m], Differ) /\ Ranked(buffer[m], Differ)
  BY DEF NetInv, PacketsOK, Separate
<1>2. CASE n \in ToSet(Hosts)
  <2>1. /\ i \in 1..Len(local[n]) /\ buffer' = buffer /\ p = local[n][i]
        /\ local' = [local EXCEPT ![n] = RemoveAt(local[n], i)]
    BY <1>2 DEF Leaves, Work
  <2>2. /\ Ranked(RemoveAt(local[n], i), Differ) /\ Key(p) \in Keys(local[n])
        /\ Keys(RemoveAt(local[n], i)) = Keys(local[n]) \ {Key(p)}
    BY <1>1, <2>1, KeysRemoveAt
  <2>3. \A m \in Nodes : local'[m] = IF m = n THEN RemoveAt(local[n], i) ELSE local[m]
    BY <1>1, <2>1
  <2> HIDE DEF p
  <2>4. \A b \in Sources : Held(b)' = IF b = <<"local", n>> THEN Held(b) \ {Key(p)} ELSE Held(b)
    <3> TAKE b \in Sources
    <3>1. PICK m \in Nodes : b = <<"local", m>> \/ b = <<"buffer", m>>
      BY DEF Sources
    <3>2. CASE b = <<"buffer", m>>
      BY <2>1, <3>2, HeldIs, HeldWillBe
    <3>3. CASE b = <<"local", m>>
      BY <2>2, <2>3, <3>3, HeldIs, HeldWillBe
    <3> QED
      BY <3>1, <3>2, <3>3
  <2>5. <<"local", n>> \in Sources /\ Key(p) \in Held(<<"local", n>>)
    BY <2>2, HeldIs DEF Sources
  <2> QED
    BY <1>1, <2>1, <2>2, <2>3, <2>4, <2>5 DEF p
<1>3. CASE n \notin ToSet(Hosts)
  <2>1. /\ i \in 1..Len(buffer[n]) /\ local' = local /\ p = buffer[n][i]
        /\ buffer' = [buffer EXCEPT ![n] = RemoveAt(buffer[n], i)]
    BY <1>3 DEF Leaves, Work
  <2>2. /\ Ranked(RemoveAt(buffer[n], i), Differ) /\ Key(p) \in Keys(buffer[n])
        /\ Keys(RemoveAt(buffer[n], i)) = Keys(buffer[n]) \ {Key(p)}
    BY <1>1, <2>1, KeysRemoveAt
  <2>3. \A m \in Nodes : buffer'[m] = IF m = n THEN RemoveAt(buffer[n], i) ELSE buffer[m]
    BY <1>1, <2>1
  <2> HIDE DEF p
  <2>4. \A b \in Sources : Held(b)' = IF b = <<"buffer", n>> THEN Held(b) \ {Key(p)} ELSE Held(b)
    <3> TAKE b \in Sources
    <3>1. PICK m \in Nodes : b = <<"local", m>> \/ b = <<"buffer", m>>
      BY DEF Sources
    <3>2. CASE b = <<"local", m>>
      BY <2>1, <3>2, HeldIs, HeldWillBe
    <3>3. CASE b = <<"buffer", m>>
      BY <2>2, <2>3, <3>3, HeldIs, HeldWillBe
    <3> QED
      BY <3>1, <3>2, <3>3
  <2>5. <<"buffer", n>> \in Sources /\ Key(p) \in Held(<<"buffer", n>>)
    BY <2>2, HeldIs DEF Sources
  <2> QED
    BY <1>1, <2>1, <2>2, <2>3, <2>4, <2>5 DEF p
<1> QED
  BY <1>2, <1>3

\* A row takes in the packet: the others of its kind keep what they have.
LEMMA FaresKeys ==
    ASSUME NetInv, Separate, NEW n \in Nodes, NEW p \in Flying, Fares(n, p),
           \A b \in Targets : Key(p) \notin Held(b)
    PROVE  /\ \E to \in Targets : \A b \in Targets :
                Held(b)' = IF b = to THEN Held(b) \cup {Key(p)} ELSE Held(b)
           /\ \A m \in Nodes : Ranked(next'[m], Differ)
           /\ \A f \in DOMAIN Flows : Ranked(delivered'[f], Unlike)
<1>1. /\ next \in [Nodes -> Seq(Flying)] /\ delivered \in [DOMAIN Flows -> Seq(Nat)]
      /\ ended \in [Fates -> SUBSET Packets] /\ nodes \subseteq Nodes
      /\ \A m \in Nodes : Ranked(next[m], Differ)
      /\ \A f \in DOMAIN Flows : Ranked(delivered[f], Unlike)
  BY DEF NetInv, PacketsOK, LinksOK, Separate
<1>2. p.flow \in DOMAIN Flows /\ p.num \in Nat /\ Key(p) = Numbered(p.flow, p.num)
  BY KeyFacts DEF Flying, Key, Numbered
<1>3. ASSUME NEW t \in {"lost", "dropped"}, ended' = End(t, p), next' = next, delivered' = delivered
      PROVE  \E to \in Targets : \A b \in Targets :
                Held(b)' = IF b = to THEN Held(b) \cup {Key(p)} ELSE Held(b)
  <2>1. t \in Fates /\ <<"ended", t>> \in Targets
    BY DEF Fates, Targets
  <2>2. \A u \in Fates : ended'[u] = IF u = t THEN ended[u] \cup {Key(p)} ELSE ended[u]
    BY <1>1, <1>3, <2>1 DEF End
  <2>3. \A b \in Targets : Held(b)' = IF b = <<"ended", t>> THEN Held(b) \cup {Key(p)} ELSE Held(b)
    <3> TAKE b \in Targets
    <3>1. ASSUME NEW u \in Fates, b = <<"ended", u>>
          PROVE  Held(b)' = IF u = t THEN Held(b) \cup {Key(p)} ELSE Held(b)
      BY <2>2, <3>1, HeldIs, HeldWillBe
    <3>2. ASSUME NEW m \in Nodes, b = <<"next", m>> PROVE Held(b)' = Held(b)
      BY <1>3, <3>2, HeldIs, HeldWillBe
    <3>3. ASSUME NEW f \in DOMAIN Flows, b = <<"delivered", f>> PROVE Held(b)' = Held(b)
      BY <1>3, <3>3, HeldIs, HeldWillBe
    <3> QED
      BY <3>1, <3>2, <3>3 DEF Targets
  <2> QED
    BY <2>1, <2>3
<1>4. ASSUME delivered' = [delivered EXCEPT ![p.flow] = Append(delivered[p.flow], p.num)],
             next' = next, ended' = ended
      PROVE  /\ \E to \in Targets : \A b \in Targets :
                  Held(b)' = IF b = to THEN Held(b) \cup {Key(p)} ELSE Held(b)
             /\ \A f \in DOMAIN Flows : Ranked(delivered'[f], Unlike)
  <2> DEFINE to == <<"delivered", p.flow>>
             s == delivered[p.flow]
  <2>1. to \in Targets
    BY <1>2 DEF Targets
  <2>2. s \in Seq(Nat) /\ Ranked(s, Unlike)
    BY <1>1, <1>2
  <2>3. \A f \in DOMAIN Flows : delivered'[f] = IF f = p.flow THEN Append(s, p.num) ELSE delivered[f]
    BY <1>1, <1>2, <1>4
  <2>4. Held(to) = {Numbered(p.flow, j) : j \in ToSet(s)} /\ Key(p) \notin Held(to)
    BY <2>1, HeldIs
  <2> HIDE DEF s
  <2>5. /\ ToSet(Append(s, p.num)) = ToSet(s) \cup {p.num}
        /\ (\A y \in ToSet(s) : <<y, p.num>> \in Unlike) => Ranked(Append(s, p.num), Unlike)
    BY <1>2, <2>2, AppendFacts
  <2>6. \A y \in ToSet(s) : <<y, p.num>> \in Unlike
    <3>1. ToSet(s) \subseteq Nat
      BY <2>2, MemberOf
    <3>2. p.num \notin ToSet(s)
      BY <1>2, <2>4
    <3> QED
      BY <1>2, <3>1, <3>2 DEF Unlike
  <2>7. \A b \in Targets : Held(b)' = IF b = to THEN Held(b) \cup {Key(p)} ELSE Held(b)
    <3>1. Held(to)' = {Numbered(p.flow, j) : j \in ToSet(Append(s, p.num))}
      BY <1>2, <2>3, HeldWillBe
    <3>2. Held(to)' = Held(to) \cup {Key(p)}
      BY <1>2, <2>4, <2>5, <3>1
    <3> TAKE b \in Targets
    <3>3. ASSUME NEW u \in Fates, b = <<"ended", u>> PROVE Held(b)' = Held(b)
      BY <1>4, <3>3, HeldIs, HeldWillBe
    <3>4. ASSUME NEW m \in Nodes, b = <<"next", m>> PROVE Held(b)' = Held(b)
      BY <1>4, <3>4, HeldIs, HeldWillBe
    <3>5. ASSUME NEW f \in DOMAIN Flows, f # p.flow, b = <<"delivered", f>> PROVE Held(b)' = Held(b)
      <4>1. delivered'[f] = delivered[f]
        BY <2>3, <3>5
      <4>2. Held(<<"delivered", f>>) = {Numbered(f, i) : i \in ToSet(delivered[f])}
        BY HeldIs
      <4>3. Held(<<"delivered", f>>)' = {Numbered(f, i) : i \in ToSet(delivered'[f])}
        BY HeldWillBe
      <4> QED
        BY <3>5, <4>1, <4>2, <4>3
    <3> QED
      BY <3>2, <3>3, <3>4, <3>5 DEF Targets
  <2> HIDE DEF to
  <2>8. \A f \in DOMAIN Flows : Ranked(delivered'[f], Unlike)
    BY <1>1, <2>3, <2>5, <2>6
  <2> QED
    BY <2>1, <2>7, <2>8
<1>5. ASSUME NEW m \in Nodes, next' = [next EXCEPT ![m] = Append(next[m], Onward(p, n))],
             delivered' = delivered, ended' = ended
      PROVE  /\ \E to \in Targets : \A b \in Targets :
                  Held(b)' = IF b = to THEN Held(b) \cup {Key(p)} ELSE Held(b)
             /\ \A l \in Nodes : Ranked(next'[l], Differ)
  <2> DEFINE to == <<"next", m>>
  <2>1. to \in Targets /\ Held(to) = Keys(next[m])
    BY HeldIs DEF Targets
  <2>2. Onward(p, n) \in Flying /\ Key(Onward(p, n)) = Key(p)
    BY OnwardType DEF Key
  <2>3. /\ Keys(Append(next[m], Onward(p, n))) = Keys(next[m]) \cup {Key(p)}
        /\ Ranked(Append(next[m], Onward(p, n)), Differ)
    BY <1>1, <2>1, <2>2, KeysOf, DifferOneMore
  <2>4. \A l \in Nodes : next'[l] = IF l = m THEN Append(next[m], Onward(p, n)) ELSE next[l]
    BY <1>1, <1>5
  <2>5. \A b \in Targets : Held(b)' = IF b = to THEN Held(b) \cup {Key(p)} ELSE Held(b)
    <3>1. Held(to)' = Held(to) \cup {Key(p)}
      BY <2>1, <2>3, <2>4, HeldWillBe
    <3> TAKE b \in Targets
    <3>2. ASSUME NEW u \in Fates, b = <<"ended", u>> PROVE Held(b)' = Held(b)
      BY <1>5, <3>2, HeldIs, HeldWillBe
    <3>3. ASSUME NEW f \in DOMAIN Flows, b = <<"delivered", f>> PROVE Held(b)' = Held(b)
      BY <1>5, <3>3, HeldIs, HeldWillBe
    <3>4. ASSUME NEW l \in Nodes, l # m, b = <<"next", l>> PROVE Held(b)' = Held(b)
      BY <2>4, <3>4, HeldIs, HeldWillBe
    <3> QED
      BY <3>1, <3>2, <3>3, <3>4 DEF Targets
  <2> HIDE DEF to
  <2>6. \A l \in Nodes : Ranked(next'[l], Differ)
    BY <1>1, <2>3, <2>4
  <2> QED
    BY <2>1, <2>5, <2>6
<1> QED
  BY <1>1, <1>3, <1>4, <1>5 DEF Fares
LEMMA HopConserved ==
    ASSUME NetInv, Conserved, NEW n \in nodes, NEW i \in DOMAIN Work(n), Hop(n, i) PROVE Conserved'
<1> DEFINE p == Work(n)[i]
           k == Key(p)
<1>1. /\ n \in Nodes /\ p \in Flying /\ Leaves(n, i) /\ Fares(n, p)
      /\ generated' = generated /\ sent' = sent
  BY HopFacts
<1>2. /\ Separate /\ Placed
      /\ \A m \in Nodes : Ranked(local'[m], Differ) /\ Ranked(buffer'[m], Differ)
  BY <1>1, LeavesKeys DEF Conserved
<1>3. PICK from \in Sources : /\ k \in Held(from)
                              /\ \A b \in Sources :
                                   Held(b)' = IF b = from THEN Held(b) \ {k} ELSE Held(b)
  BY <1>1, <1>2, LeavesKeys
<1>4. \A b \in Targets : b # from /\ b \in Rows
  BY RowSplit DEF Sources, Targets
<1> HIDE DEF p, k
<1>5. \A b \in Rows : k \in Held(b) => b = from
  BY <1>2, <1>3, RowSplit DEF Placed
<1>6. \A b \in Targets : k \notin Held(b)
  BY <1>4, <1>5
<1>7. /\ \A m \in Nodes : Ranked(next'[m], Differ)
      /\ \A f \in DOMAIN Flows : Ranked(delivered'[f], Unlike)
  BY <1>1, <1>2, <1>6, FaresKeys DEF k
<1>8. PICK to \in Targets : \A b \in Targets :
                Held(b)' = IF b = to THEN Held(b) \cup {k} ELSE Held(b)
  BY <1>1, <1>2, <1>6, FaresKeys DEF k
<1> DEFINE M == {k}
           To == [x \in M |-> to]
<1>9. To \in [M -> Rows] /\ k \in M /\ To[k] = to
  BY <1>4
<1>10. Created' = Created \cup M
  <2>1. Created' = Created
    BY <1>1 DEF Created
  <2>2. k \in Created
    BY <1>2, <1>3, RowSplit DEF Placed
  <2> QED
    BY <2>1, <2>2
<1>11. ASSUME NEW b \in Rows, NEW x
       PROVE  x \in Held(b)' <=> ((x \in Held(b) /\ x \notin M) \/ (x \in M /\ To[x] = b))
  <2>1. x \in M => To[x] = to
    OBVIOUS
  <2> HIDE DEF To
  <2>2. CASE b \in Sources
    <3>1. b # to
      BY <2>2 DEF Sources, Targets
    <3>2. Held(b)' = Held(b) \ {k}
      BY <1>3, <1>5, <2>2
    <3> QED
      BY <2>1, <3>1, <3>2
  <2>3. CASE b \in Targets
    <3>1. Held(b)' = IF b = to THEN Held(b) \cup {k} ELSE Held(b)
      BY <1>8, <2>3
    <3> QED
      BY <1>6, <2>1, <2>3, <3>1
  <2>4. ASSUME NEW a \in Apps, b = <<"generated", a>>
        PROVE  x \in Held(b)' <=> ((x \in Held(b) /\ x \notin M) \/ (x \in M /\ To[x] = b))
    <3>1. Held(b)' = Held(b)
      BY <1>1, <2>4, HeldIs, HeldWillBe
    <3>2. b # from /\ b # to
      BY <2>4 DEF Sources, Targets
    <3> QED
      BY <1>5, <2>1, <3>1, <3>2
  <2> QED
    BY <2>2, <2>3, <2>4, RowSplit
<1> HIDE DEF M, To
<1>12. Placed'
  BY <1>2, <1>9, <1>10, <1>11, Relocated
<1>13. Separate'
  BY <1>1, <1>2, <1>7 DEF Separate
<1> QED
  BY <1>12, <1>13 DEF Conserved

LEMMA EndConserved == ASSUME NetInv, Conserved, EndRouting PROVE Conserved'
<1>1. /\ buffer' = [n \in Nodes |-> buffer[n] \o next[n]] /\ next' = Empty
      /\ UNCHANGED <<generated, local, sent, delivered, ended>>
  BY DEF EndRouting, history
<1> DEFINE M == {k \in Created : \E n \in Nodes : k \in Keys(next[n])}
           At(k) == CHOOSE n \in Nodes : k \in Keys(next[n])
           To == [k \in M |-> <<"buffer", At(k)>>]
<1>2. \A n \in Nodes : <<"next", n>> \in Rows /\ <<"buffer", n>> \in Rows
  BY DEF Rows, Boxes
<1>3. /\ \A n, m \in Nodes : \A k : k \in Keys(next[n]) /\ k \in Keys(next[m]) => n = m
      /\ \A n \in Nodes : \A k \in Keys(next[n]) : k \in Created
      /\ \A n, m \in Nodes : Keys(buffer[n]) \cap Keys(next[m]) = {}
  <2>1. ASSUME NEW n \in Nodes, NEW m \in Nodes, NEW k, k \in Keys(next[n]), k \in Keys(next[m])
        PROVE  n = m
    <3>1. <<"next", n>> = <<"next", m>>
      <4>1. k \in Held(<<"next", n>>)
        BY <2>1, HeldIs
      <4>2. k \in Held(<<"next", m>>)
        BY <2>1, HeldIs
      <4> QED
        BY <1>2, <4>1, <4>2, Apart DEF Conserved
    <3> QED
      BY <3>1
  <2>2. ASSUME NEW n \in Nodes, NEW k \in Keys(next[n]) PROVE k \in Created
    <3>1. k \in Held(<<"next", n>>)
      BY <2>2, HeldIs
    <3> QED
      BY <1>2, <3>1 DEF Conserved, Placed
  <2>3. ASSUME NEW n \in Nodes, NEW m \in Nodes, NEW k, k \in Keys(buffer[n]), k \in Keys(next[m])
        PROVE  FALSE
    <3>1. <<"buffer", n>> = <<"next", m>>
      <4>1. k \in Held(<<"buffer", n>>)
        BY <2>3, HeldIs
      <4>2. k \in Held(<<"next", m>>)
        BY <2>3, HeldIs
      <4> QED
        BY <1>2, <4>1, <4>2, Apart DEF Conserved
    <3> QED
      BY <3>1
  <2> QED
    BY <2>1, <2>2, <2>3
<1>4. ASSUME NEW n \in Nodes, NEW k \in Keys(next[n])
      PROVE  k \in M /\ To[k] = <<"buffer", n>>
  <2>1. k \in M
    BY <1>3
  <2>2. At(k) = n
    BY <1>3
  <2> HIDE DEF At
  <2> QED
    BY <2>1, <2>2
<1>5. \A k \in M : k \in Created /\ \E n \in Nodes : k \in Keys(next[n])
  OBVIOUS
<1>6. To \in [M -> Rows]
  <2>1. DOMAIN To = M /\ To = [k \in M |-> To[k]]
    OBVIOUS
  <2> HIDE DEF M, To
  <2>2. \A k \in M : To[k] \in Rows
    BY <1>2, <1>4, <1>5
  <2> QED
    BY <2>1, <2>2
<1> HIDE DEF M, To, At
<1>7. ASSUME NEW n \in Nodes
      PROVE  /\ Keys(buffer'[n]) = Keys(buffer[n]) \cup Keys(next[n])
             /\ Ranked(buffer'[n], Differ)
             /\ next'[n] = <<>>
  <2>1. /\ buffer[n] \in Seq(Flying) /\ next[n] \in Seq(Flying)
        /\ Ranked(buffer[n], Differ) /\ Ranked(next[n], Differ)
        /\ buffer'[n] = buffer[n] \o next[n]
    BY <1>1 DEF NetInv, PacketsOK, Conserved, Separate
  <2> QED
    BY <1>1, <1>3, <2>1, KeysOf, DifferAcross, EmptyFacts
<1>8. Created' = Created \cup M
  BY <1>1, <1>5 DEF Created
<1>9. ASSUME NEW b \in Rows, NEW k
      PROVE  k \in Held(b)' <=> ((k \in Held(b) /\ k \notin M) \/ (k \in M /\ To[k] = b))
  <2>1. k \in M => \E n \in Nodes : k \in Keys(next[n]) /\ To[k] = <<"buffer", n>>
    BY <1>4, <1>5
  <2>2. ASSUME NEW n \in Nodes, b = <<"next", n>>
        PROVE  k \in Held(b)' <=> ((k \in Held(b) /\ k \notin M) \/ (k \in M /\ To[k] = b))
    <3>1. Held(b)' = {} /\ Held(b) = Keys(next[n])
      BY <1>7, <2>2, HeldIs, HeldWillBe, KeysEmpty
    <3>2. k \in Held(b) => k \in M
      BY <1>4, <3>1
    <3> QED
      BY <2>1, <2>2, <3>1, <3>2
  <2>3. ASSUME NEW n \in Nodes, b = <<"buffer", n>>
        PROVE  k \in Held(b)' <=> ((k \in Held(b) /\ k \notin M) \/ (k \in M /\ To[k] = b))
    <3>1. Held(b)' = Keys(buffer[n]) \cup Keys(next[n]) /\ Held(b) = Keys(buffer[n])
      BY <1>7, <2>3, HeldIs, HeldWillBe
    <3>2. k \in Held(b) => k \notin M
      BY <1>3, <2>1, <3>1
    <3>3. k \in M /\ To[k] = b <=> k \in Keys(next[n])
      BY <1>4, <2>1, <2>3
    <3> QED
      BY <3>1, <3>2, <3>3
  <2>4. ASSUME \A n \in Nodes : b # <<"next", n>> /\ b # <<"buffer", n>>
        PROVE  k \in Held(b)' <=> ((k \in Held(b) /\ k \notin M) \/ (k \in M /\ To[k] = b))
    <3>1. Held(b)' = Held(b)
      <4>1. ASSUME NEW c \in Apps, b = <<"generated", c>> PROVE Held(b)' = Held(b)
        BY <1>1, <4>1, HeldIs, HeldWillBe
      <4>2. ASSUME NEW n \in Nodes, b = <<"local", n>> PROVE Held(b)' = Held(b)
        BY <1>1, <4>2, HeldIs, HeldWillBe
      <4>3. ASSUME NEW f \in DOMAIN Flows, b = <<"delivered", f>> PROVE Held(b)' = Held(b)
        BY <1>1, <4>3, HeldIs, HeldWillBe
      <4>4. ASSUME NEW u \in Fates, b = <<"ended", u>> PROVE Held(b)' = Held(b)
        BY <1>1, <4>4, HeldIs, HeldWillBe
      <4> QED
        BY <2>4, <4>1, <4>2, <4>3, <4>4, RowKinds
    <3>2. ASSUME k \in M, k \in Held(b) PROVE FALSE
      <4>1. PICK n \in Nodes : k \in Keys(next[n])
        BY <2>1, <3>2
      <4>2. k \in Held(<<"next", n>>)
        BY <4>1, HeldIs
      <4>3. b = <<"next", n>>
        BY <1>2, <3>2, <4>2, Apart DEF Conserved
      <4> QED
        BY <2>4, <4>3
    <3> QED
      BY <2>1, <2>4, <3>1, <3>2
  <2> QED
    BY <2>2, <2>3, <2>4
<1>10. Placed'
  BY <1>6, <1>8, <1>9, Relocated DEF Conserved
<1>11. Separate'
  <2>1. \A n \in Nodes : next'[n] = <<>> /\ Ranked(buffer'[n], Differ)
    BY <1>7
  <2> QED
    BY <1>1, <2>1, EmptyRanked DEF Conserved, Separate
<1> QED
  BY <1>10, <1>11 DEF Conserved
LEMMA RemoveConserved ==
    ASSUME NetInv, Conserved, NEW n \in nodes, RemoveNode(n) PROVE Conserved'
<1> DEFINE M == Keys(local[n]) \cup Keys(buffer[n])
           To == [k \in M |-> <<"ended", "removed">>]
<1>1. /\ local' = [local EXCEPT ![n] = <<>>] /\ buffer' = [buffer EXCEPT ![n] = <<>>]
      /\ ended' = [ended EXCEPT !["removed"] =
                     @ \cup {Key(p) : p \in ToSet(local[n]) \cup ToSet(buffer[n])}]
      /\ UNCHANGED <<generated, next, sent, delivered>>
  BY DEF RemoveNode
<1>2. n \in Nodes /\ {<<"local", n>>, <<"buffer", n>>} \subseteq Rows /\ <<"ended", "removed">> \in Rows /\ "removed" \in Fates
  BY DEF NetInv, LinksOK, Rows, Boxes, Fates
<1>3. Held(<<"local", n>>) \cup Held(<<"buffer", n>>) = M
  BY HeldIs
<1>4. M \subseteq Created /\ \A b \in Rows : b \notin {<<"local", n>>, <<"buffer", n>>} => Held(b) \cap M = {}
  <2> HIDE DEF M
  <2> QED
    BY <1>2, <1>3 DEF Conserved, Placed
<1>5. /\ \A m \in Nodes : local'[m] = IF m = n THEN <<>> ELSE local[m]
      /\ \A m \in Nodes : buffer'[m] = IF m = n THEN <<>> ELSE buffer[m]
      /\ \A t \in Fates : ended'[t] = IF t = "removed" THEN ended[t] \cup M ELSE ended[t]
  <2>1. /\ \A m \in Nodes : local'[m] = IF m = n THEN <<>> ELSE local[m]
        /\ \A m \in Nodes : buffer'[m] = IF m = n THEN <<>> ELSE buffer[m]
    BY <1>1, <1>2 DEF NetInv, PacketsOK
  <2>2. ended' = [ended EXCEPT !["removed"] = ended["removed"] \cup M]
    <3>1. {Key(p) : p \in ToSet(local[n]) \cup ToSet(buffer[n])} = M
      BY DEF Keys
    <3> QED
      BY <1>1, <3>1
  <2>3. ended \in [Fates -> SUBSET Packets]
    BY DEF NetInv, PacketsOK
  <2> HIDE DEF M
  <2>4. \A t \in Fates : ended'[t] = IF t = "removed" THEN ended[t] \cup M ELSE ended[t]
    BY <1>2, <2>2, <2>3
  <2> QED
    BY <2>1, <2>4
<1>6. To \in [M -> Rows] /\ \A k \in M : To[k] = <<"ended", "removed">>
  BY <1>2
<1> HIDE DEF M, To
<1>7. Created' = Created \cup M
  BY <1>1, <1>4 DEF Created
<1>8. ASSUME NEW b \in Rows, NEW k
      PROVE  k \in Held(b)' <=> ((k \in Held(b) /\ k \notin M) \/ (k \in M /\ To[k] = b))
  <2>1. CASE b \in {<<"local", n>>, <<"buffer", n>>}
    <3>1. Held(b)' = {}
      <4>1. local'[n] = <<>> /\ buffer'[n] = <<>>
        BY <1>2, <1>5
      <4>2. Held(<<"local", n>>)' = Keys(local'[n]) /\ Held(<<"buffer", n>>)' = Keys(buffer'[n])
        BY HeldWillBe
      <4> QED
        BY <2>1, <4>1, <4>2, KeysEmpty
    <3>2. b # <<"ended", "removed">>
      BY <2>1
    <3>3. Held(b) \subseteq M
      BY <1>3, <2>1
    <3>4. k \notin Held(b)'
      BY <3>1
    <3>5. ~(k \in Held(b) /\ k \notin M)
      BY <3>3
    <3>6. ~(k \in M /\ To[k] = b)
      BY <1>6, <3>2
    <3> QED
      BY <3>4, <3>5, <3>6
  <2>2. ASSUME NEW t \in Fates, b = <<"ended", t>>
        PROVE  k \in Held(b)' <=> ((k \in Held(b) /\ k \notin M) \/ (k \in M /\ To[k] = b))
    <3>1. Held(b)' = IF t = "removed" THEN Held(b) \cup M ELSE Held(b)
      <4>1. Held(b) = ended[t]
        BY <2>2, HeldIs
      <4>2. Held(b)' = ended'[t]
        BY <2>2, HeldWillBe
      <4>3. ended'[t] = IF t = "removed" THEN ended[t] \cup M ELSE ended[t]
        BY <1>5
      <4> QED
        BY <4>1, <4>2, <4>3
    <3>2. k \in Held(b) => k \notin M
      BY <1>4, <2>2
    <3> QED
      BY <1>6, <2>2, <3>1, <3>2
  <2>3. ASSUME b \notin {<<"local", n>>, <<"buffer", n>>}, \A t \in Fates : b # <<"ended", t>>
        PROVE  k \in Held(b)' <=> ((k \in Held(b) /\ k \notin M) \/ (k \in M /\ To[k] = b))
    <3>1. Held(b)' = Held(b)
      <4>1. ASSUME NEW c \in Apps, b = <<"generated", c>> PROVE Held(b)' = Held(b)
        BY <1>1, <4>1, HeldIs, HeldWillBe
      <4>2. ASSUME NEW m \in Nodes, b = <<"next", m>> PROVE Held(b)' = Held(b)
        BY <1>1, <4>2, HeldIs, HeldWillBe
      <4>3. ASSUME NEW m \in Nodes, b \in {<<"local", m>>, <<"buffer", m>>} PROVE Held(b)' = Held(b)
        <5>1. local'[m] = local[m] /\ buffer'[m] = buffer[m]
          <6>1. m # n
            BY <2>3, <4>3
          <6> QED
            BY <1>5, <6>1
        <5> QED
          BY <4>3, <5>1, HeldIs, HeldWillBe
      <4>4. ASSUME NEW f \in DOMAIN Flows, b = <<"delivered", f>> PROVE Held(b)' = Held(b)
        BY ZenonT(30), <1>1, <4>4, HeldIs, HeldWillBe
      <4> QED
        BY <2>3, <4>1, <4>2, <4>3, <4>4, RowKinds
    <3>2. k \in Held(b) => k \notin M
      BY <1>4, <2>3
    <3> QED
      BY <1>2, <1>6, <2>3, <3>1, <3>2
  <2> QED
    BY <2>1, <2>2, <2>3
<1>9. Placed'
  BY <1>6, <1>7, <1>8, Relocated DEF Conserved
<1>10. Separate'
  BY <1>1, <1>5, EmptyRanked DEF Conserved, Separate
<1> QED
  BY <1>9, <1>10 DEF Conserved

LEMMA BetweenConserved == ASSUME NetInv, Conserved, Between PROVE Conserved'
<1>1. ASSUME NEW e \in DOMAIN wire, RemoveLink(e) PROVE Conserved'
  BY <1>1, Unmoved DEF RemoveLink, buffers, history
<1>2. ASSUME NEW e \in DOMAIN Links \ DOMAIN wire, AddLink(e) PROVE Conserved'
  BY <1>2, Unmoved DEF AddLink, buffers, history
<1>3. ASSUME Enact PROVE Conserved'
  BY <1>3, Unmoved DEF Enact, buffers, history
<1> QED
  BY <1>1, <1>2, <1>3, RemoveConserved DEF Between

LEMMA RestConserved ==
    ASSUME Conserved, Route \/ Build \/ UNCHANGED vars PROVE Conserved'
BY Unmoved DEF Route, Build, vars, buffers, history

LEMMA ConservedStep == NetInv /\ Conserved /\ [Next]_vars => Conserved'
BY GenerateConserved, InjectConserved, HopConserved, EndConserved, BetweenConserved, RestConserved
   DEF Next, Routes

LEMMA ConservedInvariant == Spec => []Conserved
<1>1. Init => NetInv /\ Conserved
  BY InitNet, InitConserved
<1>2. (NetInv /\ Conserved) /\ [Next]_vars => (NetInv /\ Conserved)'
  BY NetStep, ConservedStep
<1> QED
  BY <1>1, <1>2, PTL DEF Spec

\* A packet in one row only, and there once, is in one place.
LEMMA OnePlace ==
    ASSUME NetInv, Conserved, NEW f \in DOMAIN Flows, NEW i \in 1..sent[f]
    PROVE  Cardinality(Whereabouts([flow |-> f, num |-> i])) = 1
<1> DEFINE k == [flow |-> f, num |-> i]
           Places(s) == {j \in DOMAIN s : Key(s[j]) = k}
           InBox(b) == {<<b, j>> : j \in Places(Content(b))}
           InFlow == {<<<<"delivered", k.flow>>, j>> :
                        j \in {l \in DOMAIN delivered[k.flow] : delivered[k.flow][l] = k.num}}
           InFate == {<<<<"ended", t>>, 1>> : t \in {u \in Fates : k \in ended[u]}}
<1>1. k \in Created /\ k.flow = f /\ k.num = i
  BY DEF Created, Packets, NetInv, PacketsOK
<1>2. Whereabouts(k) = (UNION {InBox(b) : b \in Boxes}) \cup InFlow \cup InFate
  BY DEF Whereabouts
<1> DEFINE W == Whereabouts(k)
<1>3. \A x : x \in W <=> \/ \E b \in Boxes : \E j \in DOMAIN Content(b) : Key(Content(b)[j]) = k /\ x = <<b, j>>
                         \/ \E j \in DOMAIN delivered[f] : delivered[f][j] = i /\ x = <<<<"delivered", f>>, j>>
                         \/ \E t \in Fates : k \in ended[t] /\ x = <<<<"ended", t>>, 1>>
  <2> TAKE x
  <2> HIDE DEF k
  <2>1. x \in UNION {InBox(b) : b \in Boxes} <=> \E b \in Boxes : x \in InBox(b)
    OBVIOUS
  <2>2. \A b : x \in InBox(b) <=> \E j \in DOMAIN Content(b) : Key(Content(b)[j]) = k /\ x = <<b, j>>
    OBVIOUS
  <2>3. x \in InFlow <=> \E j \in DOMAIN delivered[f] : delivered[f][j] = i /\ x = <<<<"delivered", f>>, j>>
    BY <1>1
  <2>4. x \in InFate <=> \E t \in Fates : k \in ended[t] /\ x = <<<<"ended", t>>, 1>>
    OBVIOUS
  <2> HIDE DEF InBox, InFlow, InFate
  <2>5. x \in W <=> x \in UNION {InBox(b) : b \in Boxes} \/ x \in InFlow \/ x \in InFate
    BY <1>2
  <2>6. (\E b \in Boxes : x \in InBox(b)) <=>
          \E b \in Boxes : \E j \in DOMAIN Content(b) : Key(Content(b)[j]) = k /\ x = <<b, j>>
    BY <2>2
  <2> HIDE DEF W
  <2> QED
    BY <2>1, <2>3, <2>4, <2>5, <2>6
<1> HIDE DEF W, k
<1>4. ASSUME NEW b \in Boxes
      PROVE  /\ b \in Rows /\ Held(b) = Keys(Content(b))
             /\ Content(b) \in Seq(Packets) \/ Content(b) \in Seq(Flying)
             /\ Ranked(Content(b), Differ)
  <2>1. CASE \E a \in Apps : b = <<"generated", a>>
    BY <2>1, ContentIs, HeldIs DEF Rows, Conserved, Separate, NetInv, PacketsOK
  <2>2. CASE \E n \in Nodes : b \in {<<"local", n>>, <<"buffer", n>>, <<"next", n>>}
    BY <2>2, ContentIs, HeldIs DEF Rows, Conserved, Separate, NetInv, PacketsOK
  <2> QED
    BY <2>1, <2>2 DEF Boxes
<1>5. ASSUME NEW b \in Boxes
      PROVE  /\ \A j \in DOMAIN Content(b) : Key(Content(b)[j]) = k => k \in Held(b)
             /\ k \in Held(b) => \E j \in DOMAIN Content(b) : Key(Content(b)[j]) = k
             /\ \A j, l \in DOMAIN Content(b) : Key(Content(b)[j]) = k /\ Key(Content(b)[l]) = k => j = l
  <2> DEFINE s == Content(b)
  <2>1. /\ Held(b) = Keys(s) /\ Ranked(s, Differ)
        /\ s \in Seq(Packets) \/ s \in Seq(Flying)
    BY <1>4
  <2> HIDE DEF s
  <2>2. /\ Len(s) \in Nat /\ DOMAIN s = 1..Len(s)
        /\ \A x : x \in ToSet(s) <=> \E j \in 1..Len(s) : s[j] = x
    BY <2>1, MemberOf
  <2>3. \A j, l \in 1..Len(s) : j < l => Key(s[j]) # Key(s[l])
    BY <2>1 DEF Ranked, Differ
  <2>4. \A j, l \in 1..Len(s) : Key(s[j]) = Key(s[l]) => j = l
    BY <2>2, <2>3
  <2>5. \A x : x \in Held(b) <=> \E j \in 1..Len(s) : Key(s[j]) = x
    BY <2>1, <2>2 DEF Keys
  <2> QED
    BY <2>2, <2>4, <2>5 DEF s
<1>6. /\ <<"delivered", f>> \in Rows
      /\ k \in Held(<<"delivered", f>>) <=> \E j \in DOMAIN delivered[f] : delivered[f][j] = i
      /\ \A j, l \in DOMAIN delivered[f] : delivered[f][j] = delivered[f][l] => j = l
  <2> DEFINE s == delivered[f]
  <2>1. s \in Seq(Nat) /\ Ranked(s, Unlike)
    BY DEF NetInv, PacketsOK, Conserved, Separate
  <2> HIDE DEF s
  <2>2. /\ Len(s) \in Nat /\ DOMAIN s = 1..Len(s)
        /\ \A x : x \in ToSet(s) <=> \E j \in 1..Len(s) : s[j] = x
    BY <2>1, MemberOf
  <2>3. \A j, l \in 1..Len(s) : j < l => s[j] # s[l]
    BY <2>1 DEF Ranked, Unlike
  <2>4. \A j, l \in 1..Len(s) : s[j] = s[l] => j = l
    BY <2>2, <2>3
  <2>5. Held(<<"delivered", f>>) = {Numbered(f, j) : j \in ToSet(s)}
    BY HeldIs DEF s
  <2>6. k = Numbered(f, i) /\ \A j : Numbered(f, j).num = j
    BY DEF k, Numbered
  <2>7. k \in Held(<<"delivered", f>>) <=> i \in ToSet(s)
    BY <2>5, <2>6
  <2>8. <<"delivered", f>> \in Rows
    BY DEF Rows
  <2> QED
    BY <2>2, <2>4, <2>7, <2>8 DEF s
<1>7. ASSUME NEW t \in Fates PROVE <<"ended", t>> \in Rows /\ Held(<<"ended", t>>) = ended[t]
  BY HeldIs DEF Rows
<1>8. PICK r \in Rows : k \in Held(r)
  BY <1>1 DEF Conserved, Placed
<1>9. \A c \in Rows : k \in Held(c) => c = r
  BY <1>8 DEF Conserved, Placed
<1>10. \A x \in W : x[1] \in Rows /\ k \in Held(x[1])
  <2> TAKE x \in W
  <2>1. ASSUME NEW b \in Boxes, NEW j \in DOMAIN Content(b), Key(Content(b)[j]) = k, x = <<b, j>>
        PROVE  x[1] \in Rows /\ k \in Held(x[1])
    BY <1>4, <1>5, <2>1
  <2>2. ASSUME NEW j \in DOMAIN delivered[f], delivered[f][j] = i, x = <<<<"delivered", f>>, j>>
        PROVE  x[1] \in Rows /\ k \in Held(x[1])
    BY <1>6, <2>2
  <2>3. ASSUME NEW t \in Fates, k \in ended[t], x = <<<<"ended", t>>, 1>>
        PROVE  x[1] \in Rows /\ k \in Held(x[1])
    BY <1>7, <2>3
  <2> QED
    BY <1>3, <2>1, <2>2, <2>3
<1>11. \E y \in W : \A x \in W : x = y
  <2>1. CASE r \in Boxes
    <3>1. PICK j \in DOMAIN Content(r) : Key(Content(r)[j]) = k
      BY <1>5, <1>8, <2>1
    <3>2. <<r, j>> \in W
      BY <1>3, <2>1, <3>1
    <3>3. ASSUME NEW x \in W PROVE x = <<r, j>>
      <4>1. x[1] = r
        BY <1>9, <1>10
      <4>2. r[1] \notin {"delivered", "ended"}
        BY <2>1 DEF Boxes
      <4>3. PICK l \in DOMAIN Content(r) : Key(Content(r)[l]) = k /\ x = <<r, l>>
        BY <1>3, <4>1, <4>2
      <4> QED
        BY <1>5, <2>1, <3>1, <4>3
    <3> QED
      BY <3>2, <3>3
  <2>2. CASE \E g \in DOMAIN Flows : r = <<"delivered", g>>
    <3>1. PICK g \in DOMAIN Flows : r = <<"delivered", g>>
      BY <2>2
    <3>2. g = f
      <4>1. PICK j \in ToSet(delivered[g]) : k = Numbered(g, j)
        BY <1>8, <3>1, HeldIs
      <4> QED
        BY <1>1, <4>1 DEF Numbered
    <3>3. PICK j \in DOMAIN delivered[f] : delivered[f][j] = i
      BY <1>6, <1>8, <3>1, <3>2
    <3>4. <<r, j>> \in W
      BY <1>3, <3>1, <3>2, <3>3
    <3>5. ASSUME NEW x \in W PROVE x = <<r, j>>
      <4>1. x[1] = r
        BY <1>9, <1>10
      <4>2. r \notin Boxes /\ r[1] # "ended"
        BY <3>1 DEF Boxes
      <4>3. PICK l \in DOMAIN delivered[f] : delivered[f][l] = i /\ x = <<r, l>>
        BY <1>3, <3>1, <3>2, <4>1, <4>2
      <4> QED
        BY <1>6, <3>3, <4>3
    <3> QED
      BY <3>4, <3>5
  <2>3. CASE \E t \in Fates : r = <<"ended", t>>
    <3>1. PICK t \in Fates : r = <<"ended", t>>
      BY <2>3
    <3>2. k \in ended[t]
      BY <1>7, <1>8, <3>1
    <3>3. <<r, 1>> \in W
      BY <1>3, <3>1, <3>2
    <3>4. ASSUME NEW x \in W PROVE x = <<r, 1>>
      <4>1. x[1] = r
        BY <1>9, <1>10
      <4>2. r \notin Boxes /\ r[1] # "delivered"
        BY <3>1 DEF Boxes
      <4> QED
        BY <1>3, <4>1, <4>2
    <3> QED
      BY <3>3, <3>4
  <2> QED
    BY <2>1, <2>2, <2>3 DEF Rows
<1>12. PICK y : W = {y}
  BY <1>11
<1>13. Cardinality({y}) = 1
  BY FS_Singleton
<1> QED
  BY <1>12, <1>13 DEF W, k

\* Whatever fails, is dropped or cannot be placed: each packet created is in one
\* buffer of one node, delivered once, or ended in one of the ways there are.
THEOREM NothingLostOrDoubled == Spec => []PacketsConserved
<1>1. NetInv /\ Conserved => PacketsConserved
  BY OnePlace DEF PacketsConserved
<1> QED
  BY <1>1, NetInvariant, ConservedInvariant, PTL
-----------------------------------------------------------------------------
(* While nothing changes, the packets of a flow keep their order.          *)

\* The table leads a packet through no node twice.
LEMMA TrailOnce ==
    ASSUME NEW T, IsRouteTable(T), NEW n, NEW d, <<n, d>> \in DOMAIN T
    PROVE  /\ \A i \in 0..N : Trail(T, n, d)[i] # d =>
                /\ Trail(T, n, d)[i] \in Nodes /\ <<Trail(T, n, d)[i], d>> \in DOMAIN T
           /\ \A i, j \in 0..N : i < j /\ Trail(T, n, d)[j] # d =>
                Trail(T, n, d)[i] # d /\ Trail(T, n, d)[i] # Trail(T, n, d)[j]
<1> DEFINE t == Trail(T, n, d)
           g(m) == ToGo(T, m, d)
           Fresh(j) == t[j] # d => /\ t[j] \in Nodes /\ <<t[j], d>> \in DOMAIN T
                                   /\ \A i \in 0..(j - 1) : t[i] # d /\ t[i] \in Nodes /\ g(t[j]) < g(t[i])
           C == {j \in 0..N : ~Fresh(j)}
<1>1. /\ t[0] = n
      /\ \A i \in 1..N : t[i] = IF t[i - 1] = d THEN d ELSE T[<<t[i - 1], d>>]
  BY TrailStep
<1>2. \A m : <<m, d>> \in DOMAIN T =>
          /\ m \in Nodes /\ m # d /\ T[<<m, d>>] \in Nodes
          /\ T[<<m, d>>] = d \/ <<T[<<m, d>>], d>> \in DOMAIN T
          /\ g(T[<<m, d>>]) < g(m)
  <2> TAKE m
  <2> DEFINE x == <<m, d>>
  <2>1. x[1] = m /\ x[2] = d
    OBVIOUS
  <2> HIDE DEF x
  <2>2. x \in DOMAIN T => /\ x[1] \in Nodes /\ x[1] # x[2] /\ T[x] \in Nodes
                          /\ T[x] = x[2] \/ <<T[x], x[2]>> \in DOMAIN T
                          /\ ToGo(T, T[x], x[2]) < ToGo(T, x[1], x[2])
    BY RouteTable
  <2> QED
    BY <2>1, <2>2 DEF x
<1>3. \A m \in Nodes : g(m) \in Nat
  BY RouteTable
<1> HIDE DEF t, g
<1>4. Fresh(0)
  <2>1. n \in Nodes
    BY <1>2
  <2>2. \A i \in 0..(0 - 1) : FALSE
    OBVIOUS
  <2> QED
    BY <1>1, <2>1, <2>2
<1>5. ASSUME NEW j \in 1..N, Fresh(j - 1) PROVE Fresh(j)
  <2> SUFFICES ASSUME t[j] # d
               PROVE  /\ t[j] \in Nodes /\ <<t[j], d>> \in DOMAIN T
                      /\ \A i \in 0..(j - 1) : t[i] # d /\ t[i] \in Nodes /\ g(t[j]) < g(t[i])
    OBVIOUS
  <2>1. t[j - 1] # d /\ t[j] = T[<<t[j - 1], d>>]
    BY <1>1
  <2>2. /\ t[j - 1] \in Nodes /\ <<t[j - 1], d>> \in DOMAIN T
        /\ \A i \in 0..(j - 1 - 1) : t[i] # d /\ t[i] \in Nodes /\ g(t[j - 1]) < g(t[i])
    BY <1>5, <2>1
  <2>3. t[j] \in Nodes /\ <<t[j], d>> \in DOMAIN T /\ g(t[j]) < g(t[j - 1])
    BY <1>2, <2>1, <2>2
  <2>4. ASSUME NEW i \in 0..(j - 1) PROVE t[i] # d /\ t[i] \in Nodes /\ g(t[j]) < g(t[i])
    <3>1. i = j - 1 \/ i \in 0..(j - 1 - 1)
      BY NodesFinite
    <3>2. CASE i = j - 1
      BY <2>1, <2>2, <2>3, <3>2
    <3>3. CASE i \in 0..(j - 1 - 1)
      <4>1. t[i] # d /\ t[i] \in Nodes /\ g(t[j - 1]) < g(t[i])
        BY <2>2, <3>3
      <4>2. g(t[j]) \in Nat /\ g(t[j - 1]) \in Nat /\ g(t[i]) \in Nat
        BY <1>3, <2>2, <2>3, <4>1
      <4> QED
        BY <2>3, <4>1, <4>2
    <3> QED
      BY <3>1, <3>2, <3>3
  <2> QED
    BY <2>3, <2>4
<1> HIDE DEF Fresh
<1>6. C = {}
  <2> SUFFICES ASSUME C # {} PROVE FALSE
    OBVIOUS
  <2>1. PICK m \in C : \A j \in C : m <= j
    <3>1. C \subseteq Nat
      OBVIOUS
    <3> HIDE DEF C
    <3> QED
      BY <3>1, LeastMember
  <2>2. m \in 0..N /\ ~Fresh(m)
    OBVIOUS
  <2>3. m # 0
    BY <1>4, <2>2
  <2>4. m \in 1..N /\ m - 1 \in 0..N /\ ~(m <= m - 1)
    BY <2>2, <2>3, NodesFinite
  <2>5. m - 1 \notin C
    <3> HIDE DEF C
    <3> QED
      BY <2>1, <2>4
  <2>6. Fresh(m - 1)
    BY <2>4, <2>5
  <2> QED
    BY <1>5, <2>2, <2>4, <2>6
<1>7. \A j \in 0..N : Fresh(j)
  BY <1>6
<1>8. \A i \in 0..N : t[i] # d => t[i] \in Nodes /\ <<t[i], d>> \in DOMAIN T
  BY <1>7 DEF Fresh
<1>9. ASSUME NEW i \in 0..N, NEW j \in 0..N, i < j, t[j] # d
      PROVE  t[i] # d /\ t[i] # t[j]
  <2>1. i \in 0..(j - 1)
    BY <1>9
  <2>2. t[j] \in Nodes /\ t[i] # d /\ t[i] \in Nodes /\ g(t[j]) < g(t[i])
    BY <1>7, <1>9, <2>1 DEF Fresh
  <2>3. g(t[j]) \in Nat
    BY <1>3, <2>2
  <2> QED
    BY <2>2, <2>3
<1> QED
  BY <1>8, <1>9 DEF t

\* The packet p, which is at node n, is on the way its table leads it.
Way(p) == Trail(fib, Src(p), p.dst)
OnWay(n, p) ==
    /\ p.dst = Dst(p)
    /\ p.hops = 0 => n = Src(p) /\ p.prev = NoNode
    /\ p.hops # 0 => /\ fib # NoFib /\ <<Src(p), p.dst>> \in DOMAIN fib
                     /\ n # p.dst /\ p.hops \in 1..N
                     /\ n = Way(p)[p.hops] /\ p.prev = Way(p)[p.hops - 1]
Ways ==
    \A n \in Nodes : /\ \A p \in ToSet(local[n]) : p.hops = 0 /\ OnWay(n, p)
                     /\ \A p \in ToSet(buffer[n]) \cup ToSet(next[n]) : p.hops # 0 /\ OnWay(n, p)

\* Every box has the packets of a flow by their numbers.
InLine    == {x \in Flying \X Flying : x[1].flow = x[2].flow => x[1].num < x[2].num}
Ascending == {x \in Nat \X Nat : x[1] < x[2]}
Lined ==
    /\ \A a \in Apps : Ranked(generated[a], InNumber)
    /\ \A n \in Nodes : /\ Ranked(local[n], InLine)
                        /\ Ranked(buffer[n], InLine)
                        /\ Ranked(next[n], InLine)
    /\ \A f \in DOMAIN Flows : Ranked(delivered[f], Ascending)

\* No packet is further than one created before it; what was passed on is
\* further than what still waits behind it.
Before(p, q) == p.flow = q.flow /\ p.num < q.num
Paced ==
    \A n, m \in Nodes :
        /\ \A p \in Present(n), q \in Present(m) : Before(p, q) => q.hops <= p.hops
        /\ \A p \in ToSet(next[n]), q \in ToSet(buffer[m]) : Before(p, q) => q.hops < p.hops

\* The packets delivered come before those on their way, and these before the
\* packets not yet injected.
Older ==
    /\ \A a \in Apps, n \in Nodes : \A p \in Present(n), q \in ToSet(generated[a]) :
         p.flow = q.flow => p.num < q.num
    /\ \A f \in DOMAIN Flows : \A d \in ToSet(delivered[f]) :
         /\ \A n \in Nodes : \A p \in Present(n) : p.flow = f => d < p.num
         /\ \A a \in Apps : \A q \in ToSet(generated[a]) : q.flow = f => d < q.num

OrderOK == changes = 0 => Lined /\ Ways /\ Paced /\ Older

\* The whole of what holds of packets in every state.
AllOK == NetInv /\ TravelOK /\ Conserved /\ (changes = 0 => nodes = Nodes)

LEMMA BoxTypes ==
    ASSUME PacketsOK, NEW n \in Nodes
    PROVE  /\ local[n] \in Seq(Flying) /\ buffer[n] \in Seq(Flying) /\ next[n] \in Seq(Flying)
           /\ Present(n) \subseteq Flying
           /\ \A p \in Present(n) : /\ p.flow \in DOMAIN Flows /\ p.num \in Nat /\ p.hops \in Nat
                                    /\ p.dst \in Nodes
BY PresentType DEF PacketsOK, Flying

\* While nothing changes a packet makes fewer hops than there are nodes.
LEMMA FewHops ==
    ASSUME NetInv, TravelOK, changes = 0, NEW n \in Nodes, NEW p \in Present(n)
    PROVE  p.hops \in Nat /\ p.hops <= N - 1 /\ (fib = NoFib => p.hops = 0)
<1>1. p.hops \in Nat /\ p.dst \in Nodes
  BY BoxTypes DEF NetInv
<1>2. Travelled(n, p) /\ N - 1 \in Nat
  BY NodesNotEmpty DEF TravelOK
<1>3. CASE fib = NoFib
  <2>1. p.hops <= (N - 1) * 0
    BY <1>2, <1>3 DEF Travelled
  <2>2. (N - 1) * 0 = 0
    BY <1>2
  <2> QED
    BY <1>1, <1>2, <2>1, <2>2
<1>4. CASE fib # NoFib
  <2>1. p.hops + ToGo(fib, n, p.dst) <= (N - 1) * (0 + 1)
    BY <1>2, <1>4 DEF Travelled
  <2>2. ToGo(fib, n, p.dst) \in Nat
    BY <1>4, RouteTable DEF NetInv, TableOK
  <2>3. (N - 1) * (0 + 1) = N - 1
    BY <1>2
  <2> QED
    BY <1>1, <1>2, <1>4, <2>1, <2>2, <2>3
<1> QED
  BY <1>3, <1>4
\* Two packets of a flow are on one way: the hops tell the node, and the node the hops.
LEMMA SamePlace ==
    ASSUME NetInv, Ways, NEW n \in Nodes, NEW m \in Nodes,
           NEW p \in Present(n), NEW q \in Present(m), p.flow = q.flow
    PROVE  /\ p.hops = q.hops => n = m /\ p.prev = q.prev
           /\ n = m /\ p.hops # 0 /\ q.hops # 0 => p.hops = q.hops
<1>1. OnWay(n, p) /\ OnWay(m, q)
  BY DEF Ways, Present
<1>2. Src(p) = Src(q) /\ Dst(p) = Dst(q)
  BY DEF Src, Dst
<1>3. p.dst = q.dst /\ Way(p) = Way(q)
  BY <1>1, <1>2 DEF OnWay, Way
<1>4. ASSUME p.hops = q.hops PROVE n = m /\ p.prev = q.prev
  BY <1>1, <1>2, <1>3, <1>4 DEF OnWay
<1>5. ASSUME n = m, p.hops # 0, q.hops # 0 PROVE p.hops = q.hops
  <2>1. /\ fib # NoFib /\ <<Src(p), p.dst>> \in DOMAIN fib /\ n # p.dst
        /\ p.hops \in 1..N /\ q.hops \in 1..N /\ n = Way(p)[p.hops] /\ n = Way(p)[q.hops]
    BY <1>1, <1>2, <1>3, <1>5 DEF OnWay
  <2>2. IsRouteTable(fib)
    BY <2>1 DEF NetInv, TableOK
  <2>3. \A i, j \in 0..N : i < j /\ Way(p)[j] # p.dst => Way(p)[i] # Way(p)[j]
    BY <2>1, <2>2, TrailOnce DEF Way
  <2>4. p.hops \in 0..N /\ q.hops \in 0..N
    BY <2>1, NodesFinite
  <2> DEFINE h == p.hops
             l == q.hops
             t == Way(p)
  <2>5. h \in 0..N /\ l \in 0..N /\ t[h] = n /\ t[l] = n /\ n # p.dst
    BY <2>1, <2>4
  <2>6. \A i, j \in 0..N : i < j /\ t[j] # p.dst => t[i] # t[j]
    BY <2>3
  <2> HIDE DEF h, l, t
  <2>7. ~(h < l) /\ ~(l < h)
    BY <2>5, <2>6
  <2>8. h = l
    BY <2>5, <2>7, NodesFinite
  <2> QED
    BY <2>8 DEF h, l
<1> QED
  BY <1>4, <1>5

\* The next hop of a packet is the next node on its way.
LEMMA NextOnWay ==
    ASSUME NetInv, TravelOK, Ways, changes = 0, fib # NoFib, NEW n \in Nodes, NEW p \in Present(n),
           <<n, p.dst>> \in DOMAIN fib
    PROVE  /\ p.hops \in 0..N /\ p.hops + 1 \in 1..N /\ p.dst = Dst(p)
           /\ <<Src(p), p.dst>> \in DOMAIN fib
           /\ Way(p)[p.hops] = n /\ Way(p)[p.hops + 1] = NextHop(n, p)
<1>1. IsRouteTable(fib) /\ OnWay(n, p)
  BY DEF NetInv, TableOK, Ways, Present
<1>2. p.hops \in Nat /\ p.hops <= N - 1 /\ N \in Nat
  BY FewHops, NodesFinite
<1>3. p.hops \in 0..N /\ p.hops + 1 \in 1..N /\ (p.hops + 1) - 1 = p.hops
  BY <1>2
<1>4. n # p.dst
  <2> DEFINE x == <<n, p.dst>>
  <2>1. x[1] = n /\ x[2] = p.dst /\ x \in DOMAIN fib
    OBVIOUS
  <2> HIDE DEF x
  <2> QED
    BY <1>1, <2>1, RouteTable
<1>5. /\ Way(p)[0] = Src(p)
      /\ \A i \in 1..N : Way(p)[i] = IF Way(p)[i - 1] = p.dst THEN p.dst
                                     ELSE fib[<<Way(p)[i - 1], p.dst>>]
  BY TrailStep DEF Way
<1>6. Way(p)[p.hops] = n /\ <<Src(p), p.dst>> \in DOMAIN fib
  BY <1>1, <1>5 DEF OnWay
<1>7. Way(p)[p.hops + 1] = fib[<<n, p.dst>>]
  BY <1>3, <1>4, <1>5, <1>6
<1> QED
  BY <1>1, <1>3, <1>6, <1>7 DEF NextHop, OnWay

\* What a node takes is the first of its flow still as far as it.
LEMMA FirstOut ==
    ASSUME NetInv, Lined, Ways, Paced, NEW n \in Nodes, NEW i \in DOMAIN Work(n),
           i = NextFrom(n, Work(n)[i].prev),
           NEW m \in Nodes, NEW q \in Present(m), Before(q, Work(n)[i])
    PROVE  Work(n)[i].hops + 1 <= q.hops
<1> DEFINE w == Work(n)
           p == w[i]
<1>1. /\ w \in Seq(Flying) /\ DOMAIN w = 1..Len(w) /\ p \in ToSet(w) /\ p \in Flying
      /\ p \in Present(n)
  BY WorkFacts, WorkPresent DEF NetInv
<1>2. p.hops \in Nat /\ p.num \in Nat /\ q.hops \in Nat /\ q.num \in Nat
  BY <1>1, BoxTypes DEF NetInv, Flying
<1>3. q.flow = p.flow /\ q.num < p.num
  BY DEF Before
<1>4. p.hops <= q.hops
  BY <1>1 DEF Paced
<1>5. Len(w) \in Nat
  BY <1>1, LenProperties
<1>6. Ranked(w, InLine)
  BY DEF Lined, Work
<1>0. i = Min({l \in DOMAIN w : w[l].prev = p.prev})
  BY DEF NextFrom
<1>10. i \in DOMAIN w /\ p = w[i]
  OBVIOUS
<1> HIDE DEF w, p
<1>7. q \notin ToSet(w) \/ q.prev # p.prev
  <2> SUFFICES ASSUME q \in ToSet(w), q.prev = p.prev PROVE FALSE
    OBVIOUS
  <2>1. PICK j \in 1..Len(w) : w[j] = q
    BY <1>1, MemberOf
  <2>2. ~(i < j)
    <3> SUFFICES ASSUME i < j PROVE FALSE
      OBVIOUS
    <3>1. <<p, q>> \in InLine
      BY <1>10, <1>1, <1>6, <2>1 DEF Ranked
    <3>2. p.num < q.num
      <4> DEFINE x == <<p, q>>
      <4>1. x[1] = p /\ x[2] = q
        OBVIOUS
      <4> HIDE DEF x
      <4>2. x[1].flow = x[2].flow => x[1].num < x[2].num
        BY <3>1 DEF InLine, x
      <4> QED
        BY <1>3, <4>1, <4>2
    <3> QED
      BY <1>2, <1>3, <3>2
  <2>3. i # j
    BY <1>10, <1>2, <1>3, <2>1
  <2>4. j < i
    BY <1>1, <1>5, <2>2, <2>3
  <2>5. i <= j
    <3> DEFINE S == {l \in DOMAIN w : w[l].prev = p.prev}
    <3>1. j \in DOMAIN w /\ w[j].prev = p.prev
      BY <1>1, <2>1
    <3>2. j \in S
      BY <3>1
    <3>3. DOMAIN w \subseteq Nat
      BY <1>1, <1>5
    <3>4. S \subseteq Nat
      BY <3>3
    <3>5. i = Min(S)
      BY <1>0
    <3> HIDE DEF S
    <3>6. \E x \in S : \A y \in S : x <= y
      BY <3>2, <3>4, LeastMember
    <3>7. \A y \in S : Min(S) <= y
      BY <3>6 DEF Min
    <3> QED
      BY <3>2, <3>5, <3>7
  <2> QED
    BY <1>1, <1>5, <1>10, <2>4, <2>5
<1>8. p.hops # q.hops
  <2> SUFFICES ASSUME p.hops = q.hops PROVE FALSE
    OBVIOUS
  <2>1. q.hops = p.hops /\ p.flow = q.flow /\ p \in Present(n)
    BY <1>1, <1>3
  <2>4. n = m /\ p.prev = q.prev
    <3>1. \A u, v \in Nodes : \A x \in Present(u), y \in Present(v) :
            x.flow = y.flow /\ x.hops = y.hops => u = v /\ x.prev = y.prev
      BY SamePlace
    <3> QED
      BY <2>1, <3>1
  <2>5. m = n /\ q.prev = p.prev
    BY <2>4
  <2>2. CASE n \in ToSet(Hosts)
    <3>1. w = local[n] /\ p.hops = 0
      BY <1>1, <2>2 DEF w, Work, Ways
    <3>2. q \in ToSet(local[n])
      <4>1. q.hops = 0
        BY <2>1, <3>1
      <4>2. q \in Present(n)
        BY <2>5
      <4> QED
        BY <4>1, <4>2 DEF Ways, Present
    <3> QED
      BY <1>7, <2>5, <3>1, <3>2
  <2>3. CASE n \notin ToSet(Hosts)
    <3>1. w = buffer[n] /\ p.hops # 0 /\ p \in ToSet(buffer[n])
      BY <1>1, <2>3 DEF w, Work, Ways
    <3>2. q \in ToSet(buffer[n]) \cup ToSet(next[n])
      BY <2>1, <2>5, <3>1 DEF Ways, Present
    <3>3. q \notin ToSet(next[n])
      <4> SUFFICES ASSUME q \in ToSet(next[n]) PROVE FALSE
        OBVIOUS
      <4>1. p.hops < q.hops
        BY <3>1, <1>3 DEF Paced, Before
      <4> QED
        BY <1>2, <4>1
    <3> QED
      BY <1>7, <2>5, <3>1, <3>2, <3>3
  <2> QED
    BY <2>2, <2>3
<1>9. p.hops + 1 <= q.hops
  BY <1>2, <1>4, <1>8
<1> QED
  BY <1>9 DEF p, w
LEMMA InLineIs ==
    \A x, y \in Flying : <<x, y>> \in InLine <=> (x.flow = y.flow => x.num < y.num)
<1> TAKE x, y \in Flying
<1> DEFINE z == <<x, y>>
<1>1. z[1] = x /\ z[2] = y /\ z \in Flying \X Flying
  OBVIOUS
<1> HIDE DEF z
<1>2. z \in InLine <=> (z[1].flow = z[2].flow => z[1].num < z[2].num)
  BY <1>1 DEF InLine
<1> QED
  BY <1>1, <1>2 DEF z

\* A packet passed on or delivered waits nowhere else.
Singly ==
    \A n \in Nodes :
        /\ \A m \in Nodes : \A x \in ToSet(next[m]), y \in ToSet(local[n]) \cup ToSet(buffer[n]) :
             x.flow = y.flow => x.num # y.num
        /\ \A f \in DOMAIN Flows : \A d \in ToSet(delivered[f]), y \in Present(n) :
             y.flow = f => d # y.num

LEMMA NotTwice == NetInv /\ Placed => Singly
<1> SUFFICES ASSUME NetInv, Placed, NEW n \in Nodes
    PROVE  /\ \A m \in Nodes : \A x \in ToSet(next[m]), y \in ToSet(local[n]) \cup ToSet(buffer[n]) :
                x.flow = y.flow => x.num # y.num
           /\ \A f \in DOMAIN Flows : \A d \in ToSet(delivered[f]), y \in Present(n) :
                y.flow = f => d # y.num
  BY DEF Singly
<1>1. ASSUME NEW m \in Nodes, NEW x \in ToSet(next[m]), NEW y \in ToSet(local[n]) \cup ToSet(buffer[n]),
             x.flow = y.flow, x.num = y.num
      PROVE  FALSE
  <2> DEFINE k == Key(x)
             c == <<"next", m>>
  <2>1. k = Key(y)
    BY <1>1 DEF Key
  <2>2. c \in Rows /\ k \in Held(c)
    BY <1>1, HeldIs DEF Rows, Boxes, Keys
  <2>3. PICK b \in {<<"local", n>>, <<"buffer", n>>} : k \in Held(b)
    BY <1>1, <2>1, HeldIs DEF Keys
  <2>4. b \in Rows /\ b # c
    BY <2>3 DEF Rows, Boxes
  <2> HIDE DEF k, c
  <2> QED
    BY <2>2, <2>3, <2>4, Apart
<1>2. ASSUME NEW f \in DOMAIN Flows, NEW d \in ToSet(delivered[f]), NEW y \in Present(n),
             y.flow = f, d = y.num
      PROVE  FALSE
  <2> DEFINE k == Key(y)
             c == <<"delivered", f>>
  <2>1. k = Numbered(f, d)
    BY <1>2 DEF Key, Numbered
  <2>2. c \in Rows /\ k \in Held(c)
    BY <1>2, <2>1, HeldIs DEF Rows
  <2>3. PICK b \in {<<"local", n>>, <<"buffer", n>>, <<"next", n>>} : k \in Held(b)
    BY <1>2, HeldIs DEF Keys, Present
  <2>4. b \in Rows /\ b # c
    BY <2>3 DEF Rows, Boxes
  <2> HIDE DEF k, c
  <2> QED
    BY <2>2, <2>3, <2>4, Apart
<1> QED
  BY <1>1, <1>2

LEMMA InitOrder == ASSUME Init PROVE OrderOK
<1>1. /\ generated = [a \in Apps |-> <<>>] /\ local = Empty /\ buffer = Empty /\ next = Empty
      /\ delivered = [f \in DOMAIN Flows |-> <<>>]
  BY DEF Init
<1>2. \A n \in Nodes : /\ local[n] = <<>> /\ buffer[n] = <<>> /\ next[n] = <<>>
                       /\ Present(n) = {}
  BY <1>1, EmptyFacts DEF Present
<1>3. \A a \in Apps : generated[a] = <<>>
  BY <1>1
<1>4. \A f \in DOMAIN Flows : delivered[f] = <<>>
  BY <1>1
<1>5. Lined
  BY <1>2, <1>3, <1>4, EmptyRanked DEF Lined
<1>6. Ways
  BY <1>2, EmptyFacts DEF Ways
<1>7. Paced
  BY <1>2, EmptyFacts DEF Paced
<1>8. Older
  BY <1>2, <1>3, <1>4, EmptyFacts DEF Older
<1> QED
  BY <1>5, <1>6, <1>7, <1>8 DEF OrderOK

\* The packets drawn are newer than all others of their flow.
LEMMA GenerateOrder ==
    ASSUME NetInv, TravelOK, Placed, OrderOK, Generate PROVE OrderOK'
<1> SUFFICES ASSUME changes' = 0 PROVE Lined' /\ Ways' /\ Paced' /\ Older'
  BY DEF OrderOK
<1>1. /\ fib' = fib /\ at' = at /\ local' = local /\ buffer' = buffer /\ next' = next
      /\ delivered' = delivered /\ changes' = changes
  BY DEF Generate, topology
<1>2. Lined /\ Ways /\ Paced /\ Older
  BY <1>1 DEF OrderOK
<1>3. PICK count \in [DOMAIN Flows -> 0..MaxBurst] : generated' = [a \in Apps |-> Drawn(a, count)]
  BY DEF Generate
<1>4. count \in [DOMAIN Flows -> Nat] /\ sent \in [DOMAIN Flows -> Nat]
  BY <1>3, NetworkAssumption DEF NetInv, PacketsOK
<1>5. \A a \in Apps : /\ Ranked(generated'[a], InNumber)
                      /\ \A q \in ToSet(generated'[a]) : q \in Packets /\ sent[q.flow] < q.num
  BY <1>3, <1>4, DrawnFacts DEF NetInv
<1>6. Lined'
  BY <1>1, <1>2, <1>5 DEF Lined
<1>7. Ways'
  BY SMTT(20), <1>1, <1>2 DEF Ways, OnWay, Way, Src, Dst
<1>8. Paced'
  BY <1>1, <1>2 DEF Paced, Present
<1>9. ASSUME NEW a \in Apps, NEW n \in Nodes, NEW p \in Present(n), NEW q \in ToSet(generated'[a]),
             p.flow = q.flow
      PROVE  p.num < q.num
  <2>1. q \in Packets /\ sent[q.flow] < q.num /\ q.flow \in DOMAIN Flows /\ q.num \in Nat
    BY <1>5 DEF Packets
  <2>2. p.num \in 1..sent[q.flow]
    BY <1>9 DEF TravelOK
  <2> QED
    BY <1>4, <2>1, <2>2
<1>10. ASSUME NEW f \in DOMAIN Flows, NEW d \in ToSet(delivered[f]), NEW a \in Apps,
              NEW q \in ToSet(generated'[a]), q.flow = f
       PROVE  d < q.num
  <2>1. q \in Packets /\ sent[f] < q.num /\ q.num \in Nat /\ sent[f] \in Nat
    BY <1>4, <1>5, <1>10 DEF Packets
  <2>2. d \in 1..sent[f]
    <3> DEFINE k == Numbered(f, d)
               b == <<"delivered", f>>
    <3>1. k \in Held(b) /\ b \in Rows
      BY HeldIs DEF Rows
    <3>2. k.flow = f /\ k.num = d
      BY DEF Numbered
    <3> HIDE DEF k, b
    <3>3. k \in Created
      BY <3>1 DEF Placed
    <3> QED
      BY <3>2, <3>3 DEF Created
  <2> QED
    BY <2>1, <2>2
<1>11. Older'
  BY <1>1, <1>2, <1>9, <1>10 DEF Older, Present
<1> QED
  BY <1>6, <1>7, <1>8, <1>11
\* What is injected is newer than what is on its way, and older than what is
\* injected later.
LEMMA InjectOrder == ASSUME NetInv, OrderOK, Inject PROVE OrderOK'
<1> SUFFICES ASSUME changes' = 0 PROVE Lined' /\ Ways' /\ Paced' /\ Older'
  BY DEF OrderOK
<1> DEFINE a == Head(routing)
<1>1. /\ phase = "inject"
      /\ local' = [n \in Nodes |-> local[n] \o Injected(a, ToSet(generated[a]), n)]
      /\ generated' = [generated EXCEPT ![a] = <<>>]
      /\ UNCHANGED <<fib, at, buffer, next, delivered, changes>>
  BY DEF Inject, Cleared
<1>2. Lined /\ Ways /\ Paced /\ Older
  BY <1>1 DEF OrderOK
<1>3. a \in Apps /\ PacketsOK
  BY <1>1, RoutingFacts DEF NetInv
<1> HIDE DEF a
<1>4. \A b \in Apps : generated'[b] = IF b = a THEN <<>> ELSE generated[b]
  BY <1>1, <1>3 DEF PacketsOK
<1> DEFINE New(n, q) == \E p \in ToSet(generated[a]) : Injects(p) /\ Src(p) = n /\ q = Stamped(p)
<1>5. ASSUME NEW n \in Nodes
      PROVE  /\ local[n] \in Seq(Flying) /\ Injected(a, ToSet(generated[a]), n) \in Seq(Flying)
             /\ local'[n] = local[n] \o Injected(a, ToSet(generated[a]), n)
             /\ ToSet(local'[n]) = ToSet(local[n]) \cup ToSet(Injected(a, ToSet(generated[a]), n))
             /\ \A q \in ToSet(Injected(a, ToSet(generated[a]), n)) : New(n, q)
  <2>1. /\ Injected(a, ToSet(generated[a]), n) \in Seq(Flying)
        /\ \A q \in ToSet(Injected(a, ToSet(generated[a]), n)) : New(n, q)
    <3> DEFINE ps == ToSet(generated[a])
    <3>1. ps \in SUBSET ToSet(generated[a])
      OBVIOUS
    <3> HIDE DEF ps
    <3>2. /\ Injected(a, ps, n) \in Seq(Flying)
          /\ \A q \in ToSet(Injected(a, ps, n)) : \E p \in ps : Injects(p) /\ Src(p) = n /\ q = Stamped(p)
      BY <1>3, <3>1, InjectedOnly
    <3> QED
      BY <3>2 DEF ps
  <2> HIDE DEF New
  <2>2. local[n] \in Seq(Flying) /\ local'[n] = local[n] \o Injected(a, ToSet(generated[a]), n)
    BY <1>1, <1>3 DEF PacketsOK
  <2> QED
    BY <2>1, <2>2, ConcatFacts
<1>6. ASSUME NEW n \in Nodes, NEW q \in ToSet(Injected(a, ToSet(generated[a]), n))
      PROVE  /\ q.hops = 0 /\ q.prev = NoNode /\ q.dst = Dst(q) /\ n = Src(q) /\ q \in Flying
             /\ \E p \in ToSet(generated[a]) : p \in Packets /\ p.flow = q.flow /\ p.num = q.num
  <2>1. PICK p \in ToSet(generated[a]) : Injects(p) /\ Src(p) = n /\ q = Stamped(p)
    BY <1>5, <1>6
  <2>2. generated[a] \in Seq(Packets)
    BY <1>3 DEF PacketsOK
  <2>3. p \in Packets
    BY <2>2, MemberOf
  <2>4. q.flow = p.flow /\ q.num = p.num /\ q.hops = 0 /\ q.prev = NoNode /\ q.dst = Dst(p)
    BY <2>1 DEF Stamped
  <2>5. Src(q) = Src(p) /\ Dst(q) = Dst(p)
    BY <2>4 DEF Src, Dst
  <2>6. q \in Flying
    BY <1>5, MemberOf
  <2> QED
    BY <2>1, <2>3, <2>4, <2>5, <2>6
<1> HIDE DEF New
<1>7. ASSUME NEW n \in Nodes, NEW m \in Nodes, NEW x \in Present(m), NEW q \in ToSet(Injected(a, ToSet(generated[a]), n)),
             x.flow = q.flow
      PROVE  x.num < q.num
  BY <1>2, <1>3, <1>6, <1>7 DEF Older
<1>8. ASSUME NEW n \in Nodes PROVE Ranked(local'[n], InLine)
  <2>1. Ranked(local[n], InLine) /\ Ranked(generated[a], InNumber)
    BY <1>2, <1>3 DEF Lined
  <2>2. ASSUME NEW p \in ToSet(generated[a]), NEW q \in ToSet(generated[a]), <<p, q>> \in InNumber,
               Injects(p), Injects(q), Src(p) = n, Src(q) = n
        PROVE  <<Stamped(p), Stamped(q)>> \in InLine
    <3>1. p \in Packets /\ q \in Packets /\ (p.flow = q.flow => p.num < q.num)
      <4> DEFINE z == <<p, q>>
      <4>1. z[1] = p /\ z[2] = q /\ z \in InNumber
        BY <2>2
      <4> HIDE DEF z
      <4> QED
        BY <4>1 DEF InNumber
    <3>2. Stamped(p) \in Flying /\ Stamped(q) \in Flying
      BY <1>3, <2>2, <3>1, StampedFacts
    <3>3. /\ Stamped(p).flow = p.flow /\ Stamped(p).num = p.num
          /\ Stamped(q).flow = q.flow /\ Stamped(q).num = q.num
      BY DEF Stamped
    <3> QED
      BY <3>1, <3>2, <3>3, InLineIs
  <2>3. Ranked(Injected(a, ToSet(generated[a]), n), InLine)
    BY <1>3, <2>1, <2>2, InjectedFacts DEF KeepsOrder
  <2>4. ASSUME NEW x \in ToSet(local[n]), NEW y \in ToSet(Injected(a, ToSet(generated[a]), n)) PROVE <<x, y>> \in InLine
    <3>1. x \in Present(n) /\ x \in Flying /\ y \in Flying
      BY <1>3, <1>6, BoxTypes DEF Present
    <3> QED
      BY <1>7, <3>1, InLineIs
  <2> DEFINE l == local[n]
             j == Injected(a, ToSet(generated[a]), n)
  <2>5. l \in Seq(Flying) /\ j \in Seq(Flying) /\ local'[n] = l \o j
    BY <1>5
  <2>6. Ranked(l, InLine) /\ Ranked(j, InLine) /\ \A x \in ToSet(l), y \in ToSet(j) : <<x, y>> \in InLine
    BY <2>1, <2>3, <2>4
  <2> HIDE DEF l, j
  <2> QED
    BY <2>5, <2>6, ConcatFacts
<1>9. Lined'
  BY <1>1, <1>2, <1>4, <1>8, EmptyRanked DEF Lined
<1>10. Ways'
  <2>1. ASSUME NEW n \in Nodes, NEW p \in ToSet(local'[n]) PROVE p.hops = 0 /\ OnWay(n, p)
    <3>1. p \in ToSet(local[n]) \/ p \in ToSet(Injected(a, ToSet(generated[a]), n))
      BY <1>5, <2>1
    <3>2. p \in ToSet(Injected(a, ToSet(generated[a]), n)) => p.hops = 0 /\ OnWay(n, p)
      BY <1>6 DEF OnWay
    <3> QED
      BY <1>2, <3>1, <3>2 DEF Ways
  <2>2. ASSUME NEW n, NEW p, OnWay(n, p) PROVE OnWay(n, p)'
    BY <1>1, <2>2 DEF OnWay, Way, Src, Dst
  <2> QED
    BY <1>1, <1>2, <2>1, <2>2 DEF Ways
<1>11. ASSUME NEW n \in Nodes, NEW q \in Present(n)'
       PROVE  q \in Present(n) \/ q \in ToSet(Injected(a, ToSet(generated[a]), n))
  BY <1>1, <1>5, <1>11 DEF Present
<1>12. Paced'
  <2>1. ASSUME NEW n \in Nodes, NEW m \in Nodes, NEW p \in Present(n)', NEW q \in Present(m)', Before(p, q)
        PROVE  q.hops <= p.hops
    <3>1. p.hops \in Nat /\ p.num \in Nat /\ q.num \in Nat
      BY <1>3, <1>6, <1>11, BoxTypes DEF Flying
    <3>2. CASE q \in ToSet(Injected(a, ToSet(generated[a]), m))
      BY <1>6, <3>1, <3>2
    <3>3. CASE q \in Present(m) /\ p \in Present(n)
      BY <1>2, <2>1, <3>3 DEF Paced
    <3>4. CASE q \in Present(m) /\ p \in ToSet(Injected(a, ToSet(generated[a]), n))
      <4>1. q.num < p.num
        BY <1>7, <2>1, <3>4 DEF Before
      <4> QED
        BY <2>1, <3>1, <4>1 DEF Before
    <3> QED
      BY <1>11, <3>2, <3>3, <3>4
  <2> QED
    BY <1>1, <1>2, <2>1 DEF Paced, Before
<1>13. Older'
  <2>1. ASSUME NEW b \in Apps, NEW n \in Nodes, NEW p \in Present(n)', NEW q \in ToSet(generated'[b]),
               p.flow = q.flow
        PROVE  p.num < q.num
    <3>1. b # a /\ q \in ToSet(generated[b])
      BY <1>4, <2>1, EmptyFacts
    <3>2. p \notin ToSet(Injected(a, ToSet(generated[a]), n))
      <4> SUFFICES ASSUME p \in ToSet(Injected(a, ToSet(generated[a]), n)) PROVE FALSE
        OBVIOUS
      <4>1. PICK g \in ToSet(generated[a]) : g.flow = p.flow
        BY <1>6
      <4>2. Flows[g.flow].app = a /\ Flows[q.flow].app = b
        BY <1>3, <3>1, <4>1 DEF NetInv, GeneratedOK
      <4> QED
        BY <2>1, <3>1, <4>1, <4>2
    <3> QED
      BY <1>2, <1>11, <2>1, <3>1, <3>2 DEF Older
  <2>2. ASSUME NEW f \in DOMAIN Flows, NEW d \in ToSet(delivered[f]), NEW n \in Nodes,
               NEW p \in Present(n)', p.flow = f
        PROVE  d < p.num
    <3>1. CASE p \in Present(n)
      BY <1>2, <2>2, <3>1 DEF Older
    <3>2. CASE p \in ToSet(Injected(a, ToSet(generated[a]), n))
      <4>1. PICK g \in ToSet(generated[a]) : g.flow = p.flow /\ g.num = p.num
        BY <1>6, <3>2
      <4>2. d < g.num
        BY <1>2, <1>3, <2>2, <4>1 DEF Older
      <4> QED
        BY <4>1, <4>2
    <3> QED
      BY <1>11, <2>2, <3>1, <3>2
  <2>3. \A b \in Apps : ToSet(generated'[b]) \subseteq ToSet(generated[b])
    BY <1>4, EmptyFacts
  <2> QED
    BY <1>1, <1>2, <2>1, <2>2, <2>3 DEF Older
<1> QED
  BY <1>9, <1>10, <1>12, <1>13

\* Before there is a table, nothing has left its first node.
LEMMA BuildOrder == ASSUME NetInv, TravelOK, OrderOK, Build PROVE OrderOK'
<1> SUFFICES ASSUME changes' = 0 PROVE Lined' /\ Ways' /\ Paced' /\ Older'
  BY DEF OrderOK
<1>1. /\ UNCHANGED <<at, generated, local, buffer, next, delivered, changes>>
      /\ fib = NoFib
  BY DEF Build, buffers, history
<1>2. Lined /\ Ways /\ Paced /\ Older /\ changes = 0
  BY <1>1 DEF OrderOK
<1>3. \A n \in Nodes : \A p \in Present(n) : p.hops = 0
  BY <1>1, <1>2, FewHops
<1>4. Ways'
  BY <1>1, <1>2, <1>3 DEF Ways, OnWay, Present, Src, Dst
<1> QED
  BY <1>1, <1>2, <1>4 DEF Lined, Paced, Older, Present
\* Nothing of its flow is behind a packet that arrives.
LEMMA NoneAhead ==
    ASSUME NetInv, TravelOK, Lined, Ways, Paced, changes = 0, fib # NoFib,
           NEW n \in Nodes, NEW i \in DOMAIN Work(n), i = NextFrom(n, Work(n)[i].prev),
           <<n, Work(n)[i].dst>> \in DOMAIN fib, NextHop(n, Work(n)[i]) = Work(n)[i].dst,
           NEW m \in Nodes, NEW q \in Present(m), q.flow = Work(n)[i].flow
    PROVE  ~(q.num < Work(n)[i].num)
<1> SUFFICES ASSUME q.num < Work(n)[i].num PROVE FALSE
  OBVIOUS
<1> DEFINE p == Work(n)[i]
<1>1. p.hops + 1 <= q.hops
  BY FirstOut DEF Before
<1>2. p \in Present(n)
  BY WorkFacts, WorkPresent DEF NetInv
<1> HIDE DEF p
<1>3. <<n, p.dst>> \in DOMAIN fib /\ NextHop(n, p) = p.dst /\ q.flow = p.flow
  BY DEF p
<1>4. /\ p.hops \in 0..N /\ p.hops + 1 \in 1..N /\ p.dst = Dst(p)
      /\ <<Src(p), p.dst>> \in DOMAIN fib /\ Way(p)[p.hops + 1] = p.dst
  BY <1>2, <1>3, NextOnWay
<1>5. q.hops # 0 /\ OnWay(m, q)
  <2>1. OnWay(m, q)
    BY DEF Ways, Present
  <2>2. q.hops # 0
    BY <1>1, <1>4
  <2> QED
    BY <2>1, <2>2
<1>6. Src(q) = Src(p) /\ q.dst = p.dst
  BY <1>3, <1>4, <1>5 DEF OnWay, Src, Dst
<1>7. q.hops \in 1..N /\ m = Way(p)[q.hops] /\ m # p.dst
  BY <1>5, <1>6 DEF OnWay, Way
<1> DEFINE t == Way(p)
           h == p.hops + 1
           l == q.hops
<1>8. \A a, b \in 0..N : a < b /\ t[b] # p.dst => t[a] # p.dst
  <2>1. IsRouteTable(fib)
    BY DEF NetInv, TableOK
  <2> QED
    BY <1>4, <2>1, TrailOnce DEF Way
<1>9. /\ h \in 0..N /\ l \in 0..N /\ h <= l /\ h \in Int /\ l \in Int
      /\ t[h] = p.dst /\ t[l] # p.dst
  BY <1>1, <1>4, <1>7, NodesFinite
<1> HIDE DEF t, h, l
<1>10. h # l
  BY <1>9
<1>11. h < l
  BY <1>9, <1>10
<1> QED
  BY <1>8, <1>9, <1>11

\* A packet that is passed on comes after those of its flow passed on before.
LEMMA ComesAfter ==
    ASSUME NetInv, TravelOK, Placed, Lined, Ways, Paced, changes = 0, fib # NoFib,
           NEW n \in Nodes, NEW i \in DOMAIN Work(n), i = NextFrom(n, Work(n)[i].prev),
           <<n, Work(n)[i].dst>> \in DOMAIN fib, NextHop(n, Work(n)[i]) # Work(n)[i].dst,
           NextHop(n, Work(n)[i]) \in Nodes,
           NEW q \in ToSet(next[NextHop(n, Work(n)[i])]), q.flow = Work(n)[i].flow
    PROVE  q.num < Work(n)[i].num
<1> DEFINE p == Work(n)[i]
           m == NextHop(n, p)
<1>1. p \in Present(n) /\ p \in ToSet(local[n]) \cup ToSet(buffer[n])
  BY WorkFacts, WorkPresent DEF NetInv, Work
<1> HIDE DEF p, m
<1>2. /\ <<n, p.dst>> \in DOMAIN fib /\ NextHop(n, p) = m /\ m # p.dst /\ m \in Nodes
      /\ q \in ToSet(next[m]) /\ q.flow = p.flow
  BY DEF p, m
<1>3. q \in Present(m)
  BY <1>2 DEF Present
<1>4. p.num \in Nat /\ q.num \in Nat /\ q.hops \in Nat
  BY <1>1, <1>2, <1>3, BoxTypes DEF NetInv
<1>5. q.num # p.num
  BY <1>1, <1>2, NotTwice DEF Singly
<1>6. ~(p.num < q.num)
  <2> SUFFICES ASSUME p.num < q.num PROVE FALSE
    OBVIOUS
  <2>1. q.hops <= p.hops
    BY <1>1, <1>2, <1>3 DEF Paced, Before
  <2>2. /\ p.hops \in 0..N /\ p.hops + 1 \in 1..N /\ p.dst = Dst(p)
        /\ <<Src(p), p.dst>> \in DOMAIN fib /\ Way(p)[p.hops + 1] = m
    BY <1>1, <1>2, NextOnWay
  <2>3. q.hops # 0 /\ OnWay(m, q)
    BY <1>2 DEF Ways
  <2>4. Src(q) = Src(p) /\ q.dst = p.dst
    BY <1>2, <2>2, <2>3 DEF OnWay, Src, Dst
  <2>5. q.hops \in 1..N /\ m = Way(p)[q.hops]
    BY <2>3, <2>4 DEF OnWay, Way
  <2> DEFINE t == Way(p)
             h == p.hops + 1
             l == q.hops
  <2>6. \A a, b \in 0..N : a < b /\ t[b] # p.dst => t[a] # t[b]
    <3>1. IsRouteTable(fib)
      BY DEF NetInv, TableOK
    <3> QED
      BY <2>2, <3>1, TrailOnce DEF Way
  <2>7. h \in 0..N /\ l \in 0..N /\ l < h /\ t[h] = m /\ t[l] = m
    BY <2>1, <2>2, <2>5, NodesFinite
  <2> HIDE DEF t, h, l
  <2> QED
    BY <1>2, <2>6, <2>7
<1>7. q.num < p.num
  BY <1>4, <1>5, <1>6
<1> QED
  BY <1>7 DEF p
\* What is where after a hop: each box has some of what it had, and the next
\* node what was passed on to it.
LEMMA HopBoxes ==
    ASSUME NetInv, NEW n \in nodes, NEW i \in DOMAIN Work(n), Hop(n, i), NEW m \in Nodes
    PROVE  LET p == Work(n)[i]
               h == NextHop(n, p)
               Passed == <<n, p.dst>> \in DOMAIN fib /\ h # p.dst /\ m = h
           IN  /\ ToSet(local'[m]) \subseteq ToSet(local[m])
               /\ ToSet(buffer'[m]) \subseteq ToSet(buffer[m])
               /\ \A R : /\ Ranked(local[m], R) => Ranked(local'[m], R)
                         /\ Ranked(buffer[m], R) => Ranked(buffer'[m], R)
               /\ \/ next'[m] = next[m]
                  \/ next'[m] = Append(next[m], Onward(p, n)) /\ Passed
               /\ \A q \in ToSet(next'[m]) : q \in ToSet(next[m]) \/ (q = Onward(p, n) /\ Passed)
<1> DEFINE p == Work(n)[i]
           h == NextHop(n, p)
           Passed == <<n, p.dst>> \in DOMAIN fib /\ h # p.dst /\ m = h
<1>1. n \in Nodes /\ p \in Flying /\ Leaves(n, i) /\ Fares(n, p) /\ PacketsOK
  BY HopFacts DEF NetInv
<1> HIDE DEF p
<1>2. ToSet(local'[m]) \subseteq ToSet(local[m]) /\ ToSet(buffer'[m]) \subseteq ToSet(buffer[m])
  BY <1>1, LeavesType
<1>3. ASSUME NEW R PROVE /\ Ranked(local[m], R) => Ranked(local'[m], R)
                         /\ Ranked(buffer[m], R) => Ranked(buffer'[m], R)
  <2>1. /\ local \in [Nodes -> Seq(Flying)] /\ buffer \in [Nodes -> Seq(Flying)]
    BY <1>1 DEF PacketsOK
  <2>2. CASE /\ i \in 1..Len(local[n])
             /\ local' = [local EXCEPT ![n] = RemoveAt(local[n], i)] /\ buffer' = buffer
    <3>1. local'[m] = IF m = n THEN RemoveAt(local[n], i) ELSE local[m]
      BY <2>1, <2>2
    <3>2. Ranked(local[n], R) => Ranked(RemoveAt(local[n], i), R)
      BY <1>1, <2>1, <2>2, RemoveAtFacts
    <3> QED
      BY <2>2, <3>1, <3>2
  <2>3. CASE /\ i \in 1..Len(buffer[n])
             /\ buffer' = [buffer EXCEPT ![n] = RemoveAt(buffer[n], i)] /\ local' = local
    <3>1. buffer'[m] = IF m = n THEN RemoveAt(buffer[n], i) ELSE buffer[m]
      BY <2>1, <2>3
    <3>2. Ranked(buffer[n], R) => Ranked(RemoveAt(buffer[n], i), R)
      BY <1>1, <2>1, <2>3, RemoveAtFacts
    <3> QED
      BY <2>3, <3>1, <3>2
  <2> QED
    BY <1>1, <2>2, <2>3 DEF Leaves
<1>4. \/ next'[m] = next[m]
      \/ next'[m] = Append(next[m], Onward(p, n)) /\ Passed
  <2>1. next \in [Nodes -> Seq(Flying)]
    BY <1>1 DEF PacketsOK
  <2>2. CASE /\ <<n, p.dst>> \in DOMAIN fib /\ h # p.dst
             /\ next' = [next EXCEPT ![h] = Append(next[h], Onward(p, n))]
    <3>1. next'[m] = IF m = h THEN Append(next[h], Onward(p, n)) ELSE next[m]
      BY <2>1, <2>2
    <3> HIDE DEF h
    <3> QED
      BY <2>2, <3>1
  <2> QED
    BY <1>1, <2>2 DEF Fares
<1>5. \A q \in ToSet(next'[m]) : q \in ToSet(next[m]) \/ (q = Onward(p, n) /\ Passed)
  <2>1. next[m] \in Seq(Flying) /\ Onward(p, n) \in Flying
    BY <1>1, OnwardType DEF PacketsOK
  <2>2. ToSet(Append(next[m], Onward(p, n))) = ToSet(next[m]) \cup {Onward(p, n)}
    BY <2>1, AppendFacts
  <2> HIDE DEF Passed
  <2> QED
    BY <1>4, <2>2
<1> QED
  BY <1>2, <1>3, <1>4, <1>5 DEF p

\* A hop leaves the packets of a flow in line: a router takes of each source the
\* first, and all packets of a flow come from the same source.
LEMMA HopOrder ==
    ASSUME NetInv, TravelOK, Conserved, OrderOK,
           NEW n \in nodes, NEW i \in DOMAIN Work(n), Hop(n, i)
    PROVE  OrderOK'
<1> SUFFICES ASSUME changes' = 0 PROVE Lined' /\ Ways' /\ Paced' /\ Older'
  BY DEF OrderOK
<1> DEFINE p == Work(n)[i]
           h == NextHop(n, p)
           new == Onward(p, n)
           Passed == <<n, p.dst>> \in DOMAIN fib /\ h # p.dst
<1>1. /\ IsRouteTable(fib) /\ fib # NoFib /\ n \in Nodes /\ p \in Flying /\ p \in Present(n)
      /\ i = NextFrom(n, p.prev) /\ Fares(n, p)
      /\ UNCHANGED <<fib, at, generated, sent, changes>>
  BY HopFacts, RouteTable, WorkFacts, WorkPresent DEF NetInv
<1>2. Lined /\ Ways /\ Paced /\ Older /\ changes = 0
  BY <1>1 DEF OrderOK
<1>3. /\ new.flow = p.flow /\ new.num = p.num /\ new.dst = p.dst /\ new.prev = n
      /\ new.hops = p.hops + 1 /\ new \in Flying
  BY <1>1, OnwardType
<1>4. /\ p.hops \in Nat /\ p.num \in Nat /\ p.flow \in DOMAIN Flows /\ p.dst \in Nodes
  BY <1>1 DEF Flying
<1>5. ASSUME NEW m \in Nodes, NEW q \in Present(m), Before(q, p) PROVE p.hops + 1 <= q.hops
  BY <1>1, <1>2, <1>5, FirstOut
<1>6. ASSUME NEW m \in Nodes
      PROVE  /\ ToSet(local'[m]) \subseteq ToSet(local[m])
             /\ ToSet(buffer'[m]) \subseteq ToSet(buffer[m])
             /\ \A R : /\ Ranked(local[m], R) => Ranked(local'[m], R)
                       /\ Ranked(buffer[m], R) => Ranked(buffer'[m], R)
             /\ \/ next'[m] = next[m]
                \/ next'[m] = Append(next[m], new) /\ Passed /\ m = h
             /\ \A q \in ToSet(next'[m]) : q \in ToSet(next[m]) \/ (q = new /\ Passed /\ m = h)
  BY ZenonT(30), <1>6, HopBoxes
<1>7. Passed => /\ p.hops + 1 \in 1..N /\ <<Src(p), p.dst>> \in DOMAIN fib /\ p.dst = Dst(p)
                /\ Way(p)[p.hops] = n /\ Way(p)[p.hops + 1] = h
  BY <1>1, <1>2, NextOnWay
<1>8. ASSUME Passed, h \in Nodes, NEW q \in ToSet(next[h]), q.flow = p.flow PROVE q.num < p.num
  BY <1>1, <1>2, <1>8, ComesAfter DEF Conserved
<1>9. ASSUME <<n, p.dst>> \in DOMAIN fib, h = p.dst, NEW m \in Nodes, NEW q \in Present(m),
             q.flow = p.flow
      PROVE  ~(q.num < p.num)
  BY <1>1, <1>2, <1>9, NoneAhead
<1>10. \/ delivered' = delivered
       \/ /\ <<n, p.dst>> \in DOMAIN fib /\ h = p.dst
          /\ delivered' = [delivered EXCEPT ![p.flow] = Append(delivered[p.flow], p.num)]
  BY <1>1 DEF Fares
<1>16. Singly'
  <2>1. (NetInv /\ Placed => Singly)'
    BY NotTwice, PTL
  <2>2. NetInv' /\ Conserved'
    BY HopNet, HopConserved
  <2> QED
    BY <2>1, <2>2 DEF Conserved
<1> HIDE DEF p, h, new, Passed
<1>11. ASSUME NEW m \in Nodes, NEW q \in Present(m)'
       PROVE  q \in Present(m) \/ (q = new /\ Passed /\ m = h)
  BY <1>6, <1>11 DEF Present
<1>12. Lined'
  <2>1. ASSUME NEW m \in Nodes PROVE Ranked(next'[m], InLine)
    <3>1. Ranked(next[m], InLine) /\ next[m] \in Seq(Flying)
      BY <1>2 DEF Lined, NetInv, PacketsOK
    <3>2. CASE next'[m] = Append(next[m], new) /\ Passed /\ m = h
      <4>1. ASSUME NEW x \in ToSet(next[m]) PROVE <<x, new>> \in InLine
        <5>1. x \in Flying
          BY <3>1, MemberOf
        <5>2. x.flow = p.flow => x.num < p.num
          BY <1>8, <3>2
        <5> QED
          BY <1>3, <5>1, <5>2, InLineIs
      <4> QED
        BY <1>3, <3>1, <3>2, <4>1, AppendFacts
    <3> QED
      BY <1>6, <3>1, <3>2
  <2>2. ASSUME NEW f \in DOMAIN Flows PROVE Ranked(delivered'[f], Ascending)
    <3>1. Ranked(delivered[f], Ascending) /\ delivered \in [DOMAIN Flows -> Seq(Nat)]
      BY <1>2 DEF Lined, NetInv, PacketsOK
    <3>2. CASE delivered' = [delivered EXCEPT ![p.flow] = Append(delivered[p.flow], p.num)]
      <4>1. delivered'[f] = IF f = p.flow THEN Append(delivered[f], p.num) ELSE delivered[f]
        BY <3>1, <3>2
      <4>2. ASSUME f = p.flow, NEW d \in ToSet(delivered[f]) PROVE <<d, p.num>> \in Ascending
        <5>1. d \in Nat
          BY <3>1, MemberOf
        <5>2. d < p.num
          BY <1>1, <1>2, <4>2 DEF Older
        <5> DEFINE x == <<d, p.num>>
        <5>3. x[1] = d /\ x[2] = p.num /\ x \in Nat \X Nat
          BY <1>4, <5>1
        <5> HIDE DEF x
        <5>4. x \in Ascending
          BY <5>2, <5>3 DEF Ascending
        <5> QED
          BY <5>4 DEF x
      <4>3. f = p.flow => Ranked(Append(delivered[f], p.num), Ascending)
        BY <1>4, <3>1, <4>2, AppendFacts
      <4> QED
        BY <3>1, <4>1, <4>3
    <3> QED
      BY <1>10, <3>1, <3>2
  <2> QED
    BY <1>1, <1>2, <1>6, <2>1, <2>2 DEF Lined
<1>13. Ways'
  <2>1. ASSUME NEW m, NEW q, OnWay(m, q) PROVE OnWay(m, q)'
    BY <1>1, <2>1 DEF OnWay, Way, Src, Dst
  <2>2. ASSUME Passed PROVE new.hops # 0 /\ OnWay(h, new)
    <3>1. new.hops # 0 /\ new.hops - 1 = p.hops /\ new.hops \in 1..N
      BY <1>3, <1>4, <1>7, <2>2
    <3>2. Src(new) = Src(p) /\ Dst(new) = Dst(p) /\ Way(new) = Way(p)
      BY <1>3 DEF Src, Dst, Way
    <3>3. h # new.dst
      BY <1>3, <2>2 DEF Passed
    <3>4. OnWay(h, new)
      <4>1. new.dst = Dst(new) /\ fib # NoFib /\ <<Src(new), new.dst>> \in DOMAIN fib
        BY <1>1, <1>3, <1>7, <2>2, <3>2
      <4>2. h = Way(new)[new.hops] /\ new.prev = Way(new)[new.hops - 1]
        BY <1>3, <1>7, <2>2, <3>1, <3>2
      <4> QED
        BY <3>1, <3>3, <4>1, <4>2 DEF OnWay
    <3> QED
      BY <3>1, <3>4
  <2>3. ASSUME NEW m \in Nodes, NEW q \in ToSet(local'[m]) PROVE q.hops = 0 /\ OnWay(m, q)'
    BY <1>2, <1>6, <2>1, <2>3 DEF Ways
  <2>4. ASSUME NEW m \in Nodes, NEW q \in ToSet(buffer'[m]) \cup ToSet(next'[m])
        PROVE  q.hops # 0 /\ OnWay(m, q)'
    <3>1. q \in ToSet(buffer[m]) \cup ToSet(next[m]) \/ (q = new /\ Passed /\ m = h)
      BY <1>6, <2>4
    <3>2. q.hops # 0 /\ OnWay(m, q)
      BY <1>2, <2>2, <3>1 DEF Ways
    <3> QED
      BY <2>1, <3>2
  <2> QED
    BY <2>3, <2>4 DEF Ways
<1>14. Paced'
  <2>1. ASSUME NEW l \in Nodes, NEW m \in Nodes, NEW x \in Present(l)', NEW y \in Present(m)', Before(x, y)
        PROVE  y.hops <= x.hops
    <3>1. CASE x \in Present(l) /\ y \in Present(m)
      BY <1>2, <2>1, <3>1 DEF Paced
    <3>2. CASE x = new /\ y \in Present(m)
      <4>1. y.hops <= p.hops /\ y.hops \in Nat
        BY <1>1, <1>2, <1>3, <2>1, <3>2, BoxTypes DEF Paced, Before, NetInv
      <4> QED
        BY <1>3, <1>4, <3>2, <4>1
    <3>3. CASE x \in Present(l) /\ y = new
      BY <1>3, <1>5, <2>1, <3>3 DEF Before
    <3>4. CASE x = new /\ y = new
      BY <1>3, <1>4, <2>1, <3>4 DEF Before
    <3> QED
      BY <1>11, <3>1, <3>2, <3>3, <3>4
  <2>2. ASSUME NEW l \in Nodes, NEW m \in Nodes, NEW x \in ToSet(next'[l]), NEW y \in ToSet(buffer'[m]),
               Before(x, y)
        PROVE  y.hops < x.hops
    <3>1. y \in ToSet(buffer[m]) /\ y \in Present(m)
      BY <1>6, <2>2 DEF Present
    <3>2. CASE x \in ToSet(next[l])
      BY <1>2, <2>2, <3>1, <3>2 DEF Paced
    <3>3. CASE x = new
      <4>1. y.hops <= p.hops /\ y.hops \in Nat
        BY <1>1, <1>2, <1>3, <2>2, <3>1, <3>3, BoxTypes DEF Paced, Before, NetInv
      <4> QED
        BY <1>3, <1>4, <3>3, <4>1
    <3> QED
      BY <1>6, <3>2, <3>3
  <2> QED
    BY <2>1, <2>2 DEF Paced, Before
<1>15. Older'
  <2>1. ASSUME NEW a \in Apps, NEW m \in Nodes, NEW x \in Present(m)', NEW y \in ToSet(generated[a]),
               x.flow = y.flow
        PROVE  x.num < y.num
    BY <1>1, <1>2, <1>3, <1>11, <2>1 DEF Older
  <2>2. ASSUME NEW f \in DOMAIN Flows, NEW d \in ToSet(delivered'[f])
        PROVE  \/ d \in ToSet(delivered[f])
               \/ <<n, p.dst>> \in DOMAIN fib /\ h = p.dst /\ f = p.flow /\ d = p.num
    <3>1. delivered[f] \in Seq(Nat) /\ delivered \in [DOMAIN Flows -> Seq(Nat)]
      BY DEF NetInv, PacketsOK
    <3>2. CASE delivered' = [delivered EXCEPT ![p.flow] = Append(delivered[p.flow], p.num)]
      <4>1. delivered'[f] = IF f = p.flow THEN Append(delivered[f], p.num) ELSE delivered[f]
        BY <3>1, <3>2
      <4>2. ToSet(Append(delivered[f], p.num)) = ToSet(delivered[f]) \cup {p.num}
        <5>1. \A s \in Seq(Nat), x \in Nat : ToSet(Append(s, x)) = ToSet(s) \cup {x}
          BY AppendFacts
        <5> QED
          BY <1>4, <3>1, <5>1
      <4>3. \/ delivered' = delivered
            \/ <<n, p.dst>> \in DOMAIN fib /\ h = p.dst
        BY <1>10
      <4> QED
        BY <2>2, <4>1, <4>2, <4>3
    <3> QED
      BY <1>10, <2>2, <3>2
  <2>3. ASSUME NEW f \in DOMAIN Flows, NEW d \in ToSet(delivered'[f]), NEW m \in Nodes,
               NEW x \in Present(m)', x.flow = f
        PROVE  d < x.num
    <3>1. CASE d \in ToSet(delivered[f])
      BY <1>1, <1>2, <1>3, <1>11, <2>3, <3>1 DEF Older
    <3>2. CASE <<n, p.dst>> \in DOMAIN fib /\ h = p.dst /\ f = p.flow /\ d = p.num
      <4>1. x \in Present(m)
        BY <1>11, <3>2 DEF Passed
      <4>2. ~(x.num < p.num) /\ x.num \in Nat
        BY <1>9, <2>3, <3>2, <4>1, BoxTypes DEF NetInv
      <4>3. x.num # d
        BY <1>16, <2>3 DEF Singly
      <4> QED
        BY <1>4, <3>2, <4>2, <4>3
    <3> QED
      BY <2>2, <3>1, <3>2
  <2>4. ASSUME NEW f \in DOMAIN Flows, NEW d \in ToSet(delivered'[f]), NEW a \in Apps,
               NEW y \in ToSet(generated[a]), y.flow = f
        PROVE  d < y.num
    BY <1>1, <1>2, <2>2, <2>4 DEF Older
  <2> QED
    BY <1>1, <2>1, <2>3, <2>4 DEF Older
<1> QED
  BY <1>12, <1>13, <1>14, <1>15
\* When the buffers take what was passed on, it comes behind what still waits.
LEMMA EndOrder == ASSUME NetInv, Placed, OrderOK, EndRouting PROVE OrderOK'
<1> SUFFICES ASSUME changes' = 0 PROVE Lined' /\ Ways' /\ Paced' /\ Older'
  BY DEF OrderOK
<1>1. /\ buffer' = [n \in Nodes |-> buffer[n] \o next[n]] /\ next' = Empty
      /\ UNCHANGED <<fib, at, generated, local, delivered, changes>>
  BY DEF EndRouting, history
<1>2. Lined /\ Ways /\ Paced /\ Older
  BY <1>1 DEF OrderOK
<1>3. ASSUME NEW n \in Nodes
      PROVE  /\ buffer[n] \in Seq(Flying) /\ next[n] \in Seq(Flying)
             /\ buffer'[n] = buffer[n] \o next[n] /\ next'[n] = <<>>
             /\ ToSet(buffer'[n]) = ToSet(buffer[n]) \cup ToSet(next[n]) /\ ToSet(next'[n]) = {}
             /\ Present(n)' \subseteq Present(n)
  BY <1>1, ConcatFacts, EmptyFacts, EndPresent DEF NetInv, PacketsOK
<1>4. ASSUME NEW n \in Nodes, NEW x \in ToSet(buffer[n]), NEW y \in ToSet(next[n])
      PROVE  <<x, y>> \in InLine
  <2>1. x \in Flying /\ y \in Flying /\ x \in Present(n) /\ y \in Present(n)
    BY BoxTypes DEF NetInv, Present
  <2>2. ASSUME x.flow = y.flow PROVE x.num < y.num
    <3>1. x.num # y.num
      BY <2>2, NotTwice DEF Singly
    <3>2. x.hops = y.hops
      BY <1>2, <2>1, <2>2, SamePlace DEF Ways
    <3>3. ~(y.num < x.num)
      <4> SUFFICES ASSUME y.num < x.num PROVE FALSE
        OBVIOUS
      <4>1. x.hops < y.hops
        BY <1>2, <2>2 DEF Paced, Before
      <4> QED
        BY <2>1, <3>2, <4>1 DEF Flying
    <3> QED
      BY <2>1, <3>1, <3>3 DEF Flying
  <2> QED
    BY <2>1, <2>2, InLineIs
<1>5. Lined'
  <2>1. ASSUME NEW n \in Nodes PROVE Ranked(buffer'[n], InLine) /\ Ranked(next'[n], InLine)
    <3> DEFINE b == buffer[n]
               x == next[n]
    <3>1. /\ b \in Seq(Flying) /\ x \in Seq(Flying) /\ buffer'[n] = b \o x
          /\ Ranked(b, InLine) /\ Ranked(x, InLine)
          /\ \A y \in ToSet(b), z \in ToSet(x) : <<y, z>> \in InLine
      BY <1>2, <1>3, <1>4 DEF Lined
    <3> HIDE DEF b, x
    <3>2. Ranked(b \o x, InLine)
      BY <3>1, ConcatFacts
    <3> QED
      BY <1>3, <3>1, <3>2, EmptyRanked
  <2> QED
    BY <1>1, <1>2, <2>1 DEF Lined
<1>6. Ways'
  <2>1. ASSUME NEW n, NEW p, OnWay(n, p) PROVE OnWay(n, p)'
    BY <1>1, <2>1 DEF OnWay, Way, Src, Dst
  <2>2. ASSUME NEW n \in Nodes, NEW p \in ToSet(local'[n]) PROVE p.hops = 0 /\ OnWay(n, p)'
    BY <1>1, <1>2, <2>1, <2>2 DEF Ways
  <2>3. ASSUME NEW n \in Nodes, NEW p \in ToSet(buffer'[n]) \cup ToSet(next'[n])
        PROVE  p.hops # 0 /\ OnWay(n, p)'
    BY <1>2, <1>3, <2>1, <2>3 DEF Ways
  <2> QED
    BY <2>2, <2>3 DEF Ways
<1>7. Paced'
  <2>1. ASSUME NEW n \in Nodes, NEW m \in Nodes, NEW p \in Present(n)', NEW q \in Present(m)', Before(p, q)
        PROVE  q.hops <= p.hops
    BY <1>2, <1>3, <2>1 DEF Paced
  <2> QED
    BY <1>3, <2>1 DEF Paced, Before
<1>8. Older'
  BY <1>1, <1>2, <1>3 DEF Older
<1> QED
  BY <1>5, <1>6, <1>7, <1>8

\* While nothing changes every placement is on a node, and no injection raises.
LEMMA NoneStrays == ASSUME NetInv, nodes = Nodes PROVE ~InjectRaises
<1> SUFFICES ASSUME InjectRaises PROVE FALSE
  OBVIOUS
<1> DEFINE a == Head(routing)
<1>1. phase = "inject"
  BY DEF InjectRaises
<1>2. a \in Apps
  BY <1>1, RoutingFacts DEF NetInv
<1>3. PICK k \in DOMAIN generated[a] : Strays(generated[a][k])
  BY DEF InjectRaises
<1> DEFINE p == generated[a][k]
<1>4. p \in Packets
  <2>1. generated[a] \in Seq(Packets)
    BY <1>2 DEF NetInv, PacketsOK
  <2> HIDE DEF a
  <2> QED
    BY <2>1, MemberOf
<1>5. Src(p) \in Nodes \cup {Unmapped}
  BY <1>4, NetworkAssumption DEF Src, NetInv, PacketsOK, Packets
<1> QED
  BY <1>3, <1>5 DEF Strays

LEMMA RestOrder ==
    ASSUME NetInv, OrderOK, Route \/ Between \/ UNCHANGED vars PROVE OrderOK'
<1>1. CASE Route \/ UNCHANGED vars
  <2>1. UNCHANGED <<fib, at, generated, local, buffer, next, delivered, changes>>
    BY <1>1 DEF Route, vars, buffers, history
  <2> QED
    BY SMTT(20), <2>1 DEF OrderOK, Lined, Ways, OnWay, Way, Src, Dst, Paced, Older, Present
<1>2. CASE Between
  <2>1. changes' = changes + 1 /\ changes \in Nat
    BY <1>2, NetworkAssumption DEF Between, Change, NetInv, PacketsOK
  <2> QED
    BY <2>1 DEF OrderOK
<1> QED
  BY <1>1, <1>2

LEMMA RaisesOrder ==
    ASSUME NetInv, changes = 0 => nodes = Nodes, InjectRaises PROVE OrderOK'
<1>1. changes' = changes
  BY DEF InjectRaises
<1> QED
  BY <1>1, NoneStrays DEF OrderOK

LEMMA AllThere ==
    ASSUME NetInv, changes = 0 => nodes = Nodes, [Next]_vars PROVE (changes = 0 => nodes = Nodes)'
<1>1. CASE Between
  <2>1. changes' = changes + 1 /\ changes \in Nat
    BY <1>1, NetworkAssumption DEF Between, Change, NetInv, PacketsOK
  <2> QED
    BY <2>1
<1>2. ASSUME nodes' = nodes, changes' = changes PROVE (changes = 0 => nodes = Nodes)'
  BY <1>2
<1> QED
  BY <1>1, <1>2, HopFacts DEF Next, Routes, Generate, Route, Inject, InjectRaises, Build,
     EndRouting, topology, vars

LEMMA OrderStep == AllOK /\ OrderOK /\ [Next]_vars => (AllOK /\ OrderOK)'
<1> SUFFICES ASSUME AllOK, OrderOK, [Next]_vars PROVE (AllOK /\ OrderOK)'
  OBVIOUS
<1>1. NetInv /\ TravelOK /\ Conserved /\ Placed /\ (changes = 0 => nodes = Nodes)
  BY DEF AllOK, Conserved
<1>2. AllOK'
  BY <1>1, NetStep, TravelStep, ConservedStep, AllThere DEF AllOK
<1>3. OrderOK'
  BY <1>1, GenerateOrder, InjectOrder, RaisesOrder, BuildOrder, HopOrder, EndOrder, RestOrder
     DEF Next, Routes
<1> QED
  BY <1>2, <1>3

\* As long as nothing fails, is added or is placed elsewhere, the packets of a
\* flow are delivered in the order they were created in.
THEOREM ArriveInOrder == Spec => []InOrder
<1>1. Init => AllOK /\ OrderOK
  <2>1. Init => nodes = Nodes
    BY DEF Init
  <2> QED
    BY <2>1, InitNet, InitTravel, InitConserved, InitOrder DEF AllOK
<1>2. AllOK /\ OrderOK => InOrder
  <2> SUFFICES ASSUME NetInv, OrderOK, changes = 0, NEW f \in DOMAIN Flows,
                      NEW i \in DOMAIN delivered[f], NEW j \in DOMAIN delivered[f], i < j
               PROVE  delivered[f][i] < delivered[f][j]
    BY DEF AllOK, InOrder
  <2>1. delivered[f] \in Seq(Nat) /\ Ranked(delivered[f], Ascending)
    BY DEF OrderOK, Lined, NetInv, PacketsOK
  <2>2. DOMAIN delivered[f] = 1..Len(delivered[f])
    BY <2>1, MemberOf
  <2> DEFINE x == <<delivered[f][i], delivered[f][j]>>
  <2>3. x \in Ascending
    BY <2>1, <2>2 DEF Ranked
  <2>4. x[1] = delivered[f][i] /\ x[2] = delivered[f][j]
    OBVIOUS
  <2> HIDE DEF x
  <2>5. x[1] < x[2]
    BY <2>3 DEF Ascending
  <2> QED
    BY <2>4, <2>5
<1> QED
  BY <1>1, <1>2, OrderStep, PTL DEF Spec
=============================================================================
