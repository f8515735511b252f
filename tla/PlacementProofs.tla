-------------------------- MODULE PlacementProofs ---------------------------
(***************************************************************************)
(* What a round of audit() and enact() leaves, for any applications, any   *)
(* infrastructure and any order.  The view is the sum of what the          *)
(* placements in it need: exactly on the nodes, between that of those kept *)
(* and that of all on the links.  With AllMarked this makes what validate  *)
(* says of the view a fact about the placements.                           *)
(***************************************************************************)
EXTENDS Placement, DataProofs

\* The infrastructure as routes depend on it.
Net == <<nodes \cap up, Latencies(link)>>

\* What the definitions of Placement say, of any infrastructure and mappings.
RouteIn(net, a, m, i) ==
    ShortestPath(net[1], net[2], m[Flows[a][i].from], m[Flows[a][i].to])

Bandwidths(a) == [i \in DOMAIN Flows[a] |-> Flows[a][i].bw]
Over(net, a, m, e) == {i \in Crossing(a, m) : e \in Hops(RouteIn(net, a, m, i))}
LoadOn(net, a, m, e) == SumFunctionOnSet(Bandwidths(a), Over(net, a, m, e))

NodeLoadOf(mp, apps, n)      == SumFunction([a \in apps |-> Load(mp[a], n)])
LinkLoadOf(net, mp, apps, e) == SumFunction([a \in apps |-> LoadOn(net, a, mp[a], e)])

RoutedIn(net, a, m)     == \A i \in Crossing(a, m) : RouteIn(net, a, m, i) # NoPath
AllRouted(net, mp, apps) == \A a \in apps : RoutedIn(net, a, mp[a])

CauseIn(net, ns, have, ls, mp, apps) ==
    \/ \E n \in ns : NodeLoadOf(mp, apps, n) > have[n]
    \/ \E e \in DOMAIN ls : LinkLoadOf(net, mp, apps, e) > ls[e].bw
    \/ \E a \in apps : \E i \in Crossing(a, mp[a]) :
         \/ RouteIn(net, a, mp[a], i) = NoPath
         \/ PathLatency(RouteIn(net, a, mp[a], i), ls) > Flows[a][i].lat

\* Where the latency lat of the pair e in the view comes from: no requirement on
\* a hop, what a flow requires between the ends of its path.
Origin(net, a, m, e, lat) ==
    \E i \in Crossing(a, m) :
        LET p == RouteIn(net, a, m, i)
        IN  /\ p # NoPath
            /\ \/ e \in Hops(p) /\ lat = MaxLatency
               \/ e = <<p[1], Last(p)>> /\ lat = Flows[a][i].lat

Bw(asked, e) == IF e \in DOMAIN asked THEN asked[e].bw ELSE 0

-----------------------------------------------------------------------------
(* The inductive invariant.                                                *)

Bad == NotRespected(needed, linkNeeded)

\* The placements that are in the view, and those of them that are not marked.
Entered == PlacedApps \ pending
Kept    == {a \in Entered : ~toReset[a]}

\* The placements in the view are the users of every node: node_service_mapping
\* lists them all.
UsersKnown ==
    phase = "audit" =>
        /\ DOMAIN usedBy = nodes
        /\ \A n \in nodes : usedBy[n] = Entered

\* A view that is not respected has marked every placement in it.
AllMarked ==
    phase = "audit" /\ Bad \cap nodes # {} => \A a \in Entered : toReset[a]

\* The view and the infrastructure have their types.
ViewTyped ==
    /\ \A e \in DOMAIN link : link[e] = Links[e]
    /\ \A n \in DOMAIN needed : needed[n] \in Nat
    /\ \A e \in DOMAIN linkNeeded : linkNeeded[e] \in [lat : Nat, bw : Nat]
    /\ \A n \in DOMAIN residual : residual[n] \in Int

\* The view of the nodes is the load of the placements in it.
NodeView ==
    phase = "audit" =>
        /\ DOMAIN needed = nodes /\ DOMAIN residual = nodes
        /\ \A n \in nodes : /\ needed[n] = NodeLoadOf(mapping, Entered, n)
                            /\ residual[n] = cpu[n] - NodeLoadOf(mapping, Entered, n)

\* That of the links is at most the load of the placements in it, and at least
\* that of those that are kept: the flows after one without a path are left out,
\* and their placement is marked.
LinkView ==
    phase = "audit" =>
        /\ \A e \in DOMAIN linkNeeded :
             /\ Bw(linkNeeded, e) <= LinkLoadOf(Net, mapping, Entered, e)
             /\ \E a \in Entered : Origin(Net, a, mapping[a], e, linkNeeded[e].lat)
        /\ \A e \in DOMAIN link : LinkLoadOf(Net, mapping, Kept, e) <= Bw(linkNeeded, e)
        /\ AllRouted(Net, mapping, Kept)

\* What the view leaves on the links is no more than there is.
LinkRest ==
    phase = "audit" =>
        /\ DOMAIN linkResidual = DOMAIN link
        /\ \A e \in DOMAIN link : linkResidual[e] \in Int
        /\ AllRouted(Net, mapping, Entered) =>
             \A e \in DOMAIN link :
                 linkResidual[e] <= link[e].bw - LinkLoadOf(Net, mapping, Entered, e)

\* What enact() leaves.
Fits ==
    phase = "enacted" =>
        /\ \A n \in nodes : NodeLoadOf(mapping, PlacedApps, n) <= cpu[n]
        /\ AllRouted(Net, mapping, PlacedApps)
        /\ \A e \in DOMAIN link : LinkLoadOf(Net, mapping, PlacedApps, e) <= link[e].bw

Core ==
    /\ StateOK
    /\ UsersKnown
    /\ AllMarked
    /\ ViewRespected

Inv ==
    /\ Core
    /\ ViewTyped
    /\ NodeView
    /\ LinkView
    /\ LinkRest
    /\ Fits

-----------------------------------------------------------------------------
(* Loads, as functions of the mappings.                                    *)

MappingsOK(mp) == \A a \in Apps : DOMAIN mp[a] \in {{}, ServicesOf(a)}

LEMMA LoadNat ==
    ASSUME NEW a \in Apps, NEW m, DOMAIN m \in {{}, ServicesOf(a)}, NEW n
    PROVE  Load(m, n) \in Nat
<1>1. Services[a] \in Seq(DOMAIN Needs) /\ \A s \in DOMAIN Needs : Needs[s] \in Nat
  BY PlacementAssumption DEF PlacementAssumption
<1>2. IsFiniteSet(ServicesOf(a)) /\ ServicesOf(a) \subseteq DOMAIN Needs
  BY <1>1, ToSetFinite DEF ServicesOf
<1> DEFINE here == {s \in DOMAIN m : m[s] = n}
<1>3. here \subseteq ServicesOf(a)
  OBVIOUS
<1>4. IsFiniteSet(here) /\ \A s \in here : Needs[s] \in Nat
  BY <1>1, <1>2, <1>3, FS_Subset
<1> QED
  BY <1>4, SumNat DEF Load

\* An application more adds what it requires.
LEMMA NodeLoadGrow ==
    ASSUME NEW mp, MappingsOK(mp), NEW mq, MappingsOK(mq), NEW apps \in SUBSET Apps,
           NEW a \in Apps, a \notin apps, \A b \in apps : mq[b] = mp[b], NEW n
    PROVE  NodeLoadOf(mq, apps \cup {a}, n) = NodeLoadOf(mp, apps, n) + Load(mq[a], n)
<1> DEFINE f == [b \in apps |-> Load(mp[b], n)]
           g == [b \in apps \cup {a} |-> Load(mq[b], n)]
<1>1. IsFiniteSet(apps)
  BY PlacementAssumption, FS_Subset DEF PlacementAssumption
<1>2. /\ DOMAIN f = apps /\ DOMAIN g = apps \cup {a} /\ g[a] = Load(mq[a], n)
      /\ \A x \in apps : g[x] = f[x] /\ f[x] = Load(mp[x], n)
  OBVIOUS
<1>3. ASSUME NEW b \in Apps PROVE Load(mp[b], n) \in Nat /\ Load(mq[b], n) \in Nat
  <2>1. DOMAIN mp[b] \in {{}, ServicesOf(b)} /\ DOMAIN mq[b] \in {{}, ServicesOf(b)}
    BY DEF MappingsOK
  <2> QED
    BY <2>1, LoadNat
<1>4. g[a] \in Int /\ \A x \in apps : f[x] \in Int
  BY <1>2, <1>3
<1> HIDE DEF f, g
<1>5. SumFunction(g) = SumFunction(f) + g[a]
  <2>1. \A x \in apps : g[x] = f[x] /\ f[x] \in Int
    BY <1>2, <1>4
  <2>2. DOMAIN f = apps /\ DOMAIN g = apps \cup {a} /\ g[a] \in Int
    BY <1>2, <1>4
  <2> QED
    BY <1>1, <2>1, <2>2, SumGrow
<1> QED
  BY <1>2, <1>5 DEF f, g, NodeLoadOf

\* More applications require no less.
LEMMA NodeLoadMore ==
    ASSUME NEW mp, NEW mq, MappingsOK(mq), NEW bs \in SUBSET Apps, NEW apps \in SUBSET bs,
           \A b \in apps : mp[b] = mq[b], NEW n
    PROVE  /\ NodeLoadOf(mp, apps, n) \in Nat /\ NodeLoadOf(mq, bs, n) \in Nat
           /\ NodeLoadOf(mp, apps, n) <= NodeLoadOf(mq, bs, n)
<1> DEFINE f == [b \in apps |-> Load(mp[b], n)]
           g == [b \in bs |-> Load(mq[b], n)]
<1>1. IsFiniteSet(bs)
  BY PlacementAssumption, FS_Subset DEF PlacementAssumption
<1>2. ASSUME NEW b \in Apps PROVE Load(mq[b], n) \in Nat
  <2>1. DOMAIN mq[b] \in {{}, ServicesOf(b)}
    BY DEF MappingsOK
  <2> QED
    BY <2>1, LoadNat
<1>3. DOMAIN f = apps /\ DOMAIN g = bs /\ \A b \in apps : f[b] = g[b]
  OBVIOUS
<1>4. \A b \in bs : g[b] \in Nat
  BY <1>2
<1> HIDE DEF f, g
<1>5. SumFunction(f) \in Nat /\ SumFunction(g) \in Nat /\ SumFunction(f) <= SumFunction(g)
  BY <1>1, <1>3, <1>4, SumMore
<1> QED
  BY <1>5 DEF f, g, NodeLoadOf

LEMMA NodeLoadNone == ASSUME NEW mp, NEW n PROVE NodeLoadOf(mp, {}, n) = 0
<1>1. DOMAIN [a \in {} |-> Load(mp[a], n)] = {}
  OBVIOUS
<1> QED
  BY <1>1, SumEmpty DEF NodeLoadOf, SumFunction

LEMMA NodeLoadIs == ASSUME NEW apps, NEW n PROVE NodeLoad(apps, n) = NodeLoadOf(mapping, apps, n)
BY DEF NodeLoad, NodeLoadOf

-----------------------------------------------------------------------------
(* The flows of an application, and what they take of a link.              *)

LEMMA FlowsTyped ==
    ASSUME NEW a \in Apps
    PROVE  /\ Len(Flows[a]) \in Nat /\ DOMAIN Flows[a] = 1..Len(Flows[a])
           /\ IsFiniteSet(DOMAIN Flows[a])
           /\ \A i \in DOMAIN Flows[a] : /\ Flows[a][i].bw \in Nat /\ Flows[a][i].lat \in Nat
                                         /\ Bandwidths(a)[i] = Flows[a][i].bw
<1> DEFINE F == [from : ServicesOf(a), to : ServicesOf(a), lat : Nat, bw : Nat]
<1>1. Flows[a] \in Seq(F)
  BY PlacementAssumption DEF PlacementAssumption
<1> HIDE DEF F
<1>2. Len(Flows[a]) \in Nat /\ DOMAIN Flows[a] = 1..Len(Flows[a])
  BY <1>1, LenProperties
<1>3. \A i \in DOMAIN Flows[a] : Flows[a][i] \in F
  BY <1>1, <1>2, ElementOfSeq
<1>4. IsFiniteSet(DOMAIN Flows[a])
  BY <1>2, FS_Interval
<1> QED
  BY <1>2, <1>3, <1>4 DEF F, Bandwidths

LEMMA OverFinite ==
    ASSUME NEW net, NEW a \in Apps, NEW m, NEW e
    PROVE  /\ IsFiniteSet(Over(net, a, m, e))
           /\ \A i \in Over(net, a, m, e) : Bandwidths(a)[i] \in Nat
<1>1. Over(net, a, m, e) \subseteq DOMAIN Flows[a]
  BY DEF Over, Crossing
<1> QED
  BY <1>1, FlowsTyped, FS_Subset

LEMMA LoadOnNat ==
    ASSUME NEW net, NEW a \in Apps, NEW m, NEW e PROVE LoadOn(net, a, m, e) \in Nat
BY OverFinite, SumNat DEF LoadOn

\* An application more adds what its flows take.
LEMMA LinkLoadGrow ==
    ASSUME NEW net, NEW mp, NEW mq, NEW apps \in SUBSET Apps,
           NEW a \in Apps, a \notin apps, \A b \in apps : mq[b] = mp[b], NEW e
    PROVE  LinkLoadOf(net, mq, apps \cup {a}, e)
             = LinkLoadOf(net, mp, apps, e) + LoadOn(net, a, mq[a], e)
<1> DEFINE f == [b \in apps |-> LoadOn(net, b, mp[b], e)]
           g == [b \in apps \cup {a} |-> LoadOn(net, b, mq[b], e)]
<1>1. IsFiniteSet(apps)
  BY PlacementAssumption, FS_Subset DEF PlacementAssumption
<1>2. /\ DOMAIN f = apps /\ DOMAIN g = apps \cup {a} /\ g[a] = LoadOn(net, a, mq[a], e)
      /\ \A x \in apps : g[x] = f[x] /\ f[x] = LoadOn(net, x, mp[x], e)
  OBVIOUS
<1>3. ASSUME NEW b \in Apps PROVE LoadOn(net, b, mp[b], e) \in Nat /\ LoadOn(net, b, mq[b], e) \in Nat
  BY LoadOnNat
<1>4. g[a] \in Int /\ \A x \in apps : f[x] \in Int
  BY <1>2, <1>3
<1> HIDE DEF f, g
<1>5. SumFunction(g) = SumFunction(f) + g[a]
  <2>1. \A x \in apps : g[x] = f[x] /\ f[x] \in Int
    BY <1>2, <1>4
  <2>2. DOMAIN f = apps /\ DOMAIN g = apps \cup {a} /\ g[a] \in Int
    BY <1>2, <1>4
  <2> QED
    BY <1>1, <2>1, <2>2, SumGrow
<1> QED
  BY <1>2, <1>5 DEF f, g, LinkLoadOf

\* More applications take no less.
LEMMA LinkLoadMore ==
    ASSUME NEW net, NEW mp, NEW mq, NEW bs \in SUBSET Apps, NEW apps \in SUBSET bs,
           \A b \in apps : mp[b] = mq[b], NEW e
    PROVE  /\ LinkLoadOf(net, mp, apps, e) \in Nat /\ LinkLoadOf(net, mq, bs, e) \in Nat
           /\ LinkLoadOf(net, mp, apps, e) <= LinkLoadOf(net, mq, bs, e)
<1> DEFINE f == [b \in apps |-> LoadOn(net, b, mp[b], e)]
           g == [b \in bs |-> LoadOn(net, b, mq[b], e)]
<1>1. IsFiniteSet(bs)
  BY PlacementAssumption, FS_Subset DEF PlacementAssumption
<1>2. ASSUME NEW b \in Apps PROVE LoadOn(net, b, mq[b], e) \in Nat
  BY LoadOnNat
<1>3. DOMAIN f = apps /\ DOMAIN g = bs /\ \A b \in apps : f[b] = g[b]
  OBVIOUS
<1>4. \A b \in bs : g[b] \in Nat
  BY <1>2
<1> HIDE DEF f, g
<1>5. SumFunction(f) \in Nat /\ SumFunction(g) \in Nat /\ SumFunction(f) <= SumFunction(g)
  BY <1>1, <1>3, <1>4, SumMore
<1> QED
  BY <1>5 DEF f, g, LinkLoadOf

LEMMA LinkLoadNone == ASSUME NEW net, NEW mp, NEW e PROVE LinkLoadOf(net, mp, {}, e) = 0
<1>1. DOMAIN [a \in {} |-> LoadOn(net, a, mp[a], e)] = {}
  OBVIOUS
<1> QED
  BY <1>1, SumEmpty DEF LinkLoadOf, SumFunction

\* A link that is taken of is a hop of a flow's path.
LEMMA LinkLoadUsed ==
    ASSUME NEW net, NEW mp, NEW apps \in SUBSET Apps, NEW e, LinkLoadOf(net, mp, apps, e) # 0
    PROVE  \E a \in apps : \E i \in Crossing(a, mp[a]) : e \in Hops(RouteIn(net, a, mp[a], i))
<1> SUFFICES ASSUME \A a \in apps : Over(net, a, mp[a], e) = {} PROVE FALSE
  BY DEF Over
<1> DEFINE f == [b \in apps |-> LoadOn(net, b, mp[b], e)]
<1>1. ASSUME NEW a \in apps PROVE LoadOn(net, a, mp[a], e) = 0
  BY SumEmpty DEF LoadOn
<1>2. DOMAIN f = apps /\ \A b \in apps : f[b] = 0
  BY <1>1
<1>3. IsFiniteSet(apps)
  BY PlacementAssumption, FS_Subset DEF PlacementAssumption
<1> HIDE DEF f
<1>4. SumFunctionOnSet(f, apps) = 0
  BY <1>2, <1>3, SumZero
<1> QED
  BY <1>2, <1>4 DEF f, LinkLoadOf, SumFunction

-----------------------------------------------------------------------------
(* What _update_view makes of the flows.                                   *)

Asked == [lat : Nat, bw : Nat]

Ends(path)        == <<path[1], Last(path)>>
Takes(f, path, e) == IF e \in Hops(path) THEN f.bw ELSE 0

\* What r holds once f took the path p, over what acc held: the hops carry its
\* bandwidth, the ends its latency.
Carried(acc, f, p, r) ==
    /\ r = [asked |-> r.asked, left |-> r.left, found |-> r.found] /\ r.found = TRUE
    /\ \A e \in DOMAIN r.asked : r.asked[e] \in Asked
    /\ \A e : Bw(r.asked, e) = Bw(acc.asked, e) + Takes(f, p, e)
    /\ DOMAIN r.left = DOMAIN acc.left
    /\ \A e \in DOMAIN acc.left :
         r.left[e] \in Int /\ r.left[e] <= acc.left[e] - Takes(f, p, e)
    /\ \A e \in DOMAIN r.asked :
         \/ e \in DOMAIN acc.asked /\ r.asked[e].lat = acc.asked[e].lat
         \/ e \in Hops(p) /\ r.asked[e].lat = MaxLatency
         \/ e = Ends(p) /\ r.asked[e].lat = f.lat

LEMMA CarryFacts ==
    ASSUME NEW acc, \A e \in DOMAIN acc.asked : acc.asked[e] \in Asked,
           \A e \in DOMAIN acc.left : acc.left[e] \in Int,
           NEW f, f.bw \in Nat, f.lat \in Nat, NEW p
    PROVE  Carried(acc, f, p, Carry(acc, f, p))
<1> DEFINE hops == Hops(p)
           pair == <<p[1], Last(p)>>
           old  == acc.asked
           on   == [e \in DOMAIN old \cup hops |->
                      IF e \in hops THEN [Required(old, e) EXCEPT !.bw = @ + f.bw] ELSE old[e]]
           new  == With(on, pair, [lat |-> f.lat, bw |-> Required(on, pair).bw])
           left == [e \in DOMAIN acc.left |-> acc.left[e] - (IF e \in hops THEN on[e].bw ELSE 0)]
           r    == Carry(acc, f, p)
<1>1. r.asked = new /\ r.left = left /\ r.found = TRUE
      /\ r = [asked |-> r.asked, left |-> r.left, found |-> TRUE]
  BY DEF Carry
<1>2. MaxLatency \in Nat
  BY PlacementAssumption DEF PlacementAssumption
<1>3. \A e : /\ Required(old, e) \in Asked /\ Required(old, e).bw = Bw(old, e)
             /\ e \in DOMAIN old => Required(old, e) = old[e]
             /\ e \notin DOMAIN old => Required(old, e).lat = MaxLatency
  BY <1>2 DEF Required, Asked, Bw
<1> HIDE DEF hops, pair, old, r
<1>4. /\ DOMAIN on = DOMAIN old \cup hops
      /\ \A e \in hops : on[e] = [lat |-> Required(old, e).lat, bw |-> Bw(old, e) + f.bw]
      /\ \A e \in DOMAIN old \ hops : on[e] = old[e]
  <2>1. DOMAIN on = DOMAIN old \cup hops /\ \A e \in DOMAIN old \ hops : on[e] = old[e]
    OBVIOUS
  <2>2. ASSUME NEW e \in hops
        PROVE  on[e] = [lat |-> Required(old, e).lat, bw |-> Bw(old, e) + f.bw]
    <3>1. on[e] = [Required(old, e) EXCEPT !.bw = @ + f.bw]
      BY <2>2
    <3> HIDE DEF on
    <3> QED
      BY <1>3, <3>1 DEF Asked
  <2> QED
    BY <2>1, <2>2
<1> HIDE DEF on
<1>5. \A e : Bw(on, e) = Bw(old, e) + (IF e \in hops THEN f.bw ELSE 0)
  <2> SUFFICES ASSUME NEW e PROVE Bw(on, e) = Bw(old, e) + (IF e \in hops THEN f.bw ELSE 0)
    OBVIOUS
  <2>1. Bw(old, e) \in Nat
    BY <1>3 DEF Asked
  <2>2. CASE e \in hops
    <3>1. Bw(on, e) = on[e].bw /\ on[e].bw = Bw(old, e) + f.bw
      BY <1>4, <2>2 DEF Bw
    <3> QED
      BY <2>2, <3>1
  <2>3. CASE e \notin hops
    <3>1. Bw(on, e) = Bw(old, e)
      BY <1>4, <2>3 DEF Bw
    <3> QED
      BY <2>1, <2>3, <3>1
  <2> QED
    BY <2>2, <2>3
<1>6. \A e \in DOMAIN on : on[e] \in Asked
  <2> SUFFICES ASSUME NEW e \in DOMAIN on PROVE on[e] \in Asked
    OBVIOUS
  <2>1. Required(old, e).lat \in Nat /\ Bw(old, e) + f.bw \in Nat
    BY <1>3 DEF Asked
  <2>2. CASE e \in hops
    BY <1>4, <2>1, <2>2 DEF Asked
  <2>3. CASE e \notin hops
    BY <1>4, <2>3 DEF old
  <2> QED
    BY <2>2, <2>3
<1>7. Required(on, pair).bw = Bw(on, pair) /\ Bw(on, pair) \in Nat
  BY <1>6 DEF Required, Bw, Asked
<1>8. /\ DOMAIN new = DOMAIN on \cup {pair}
      /\ new[pair] = [lat |-> f.lat, bw |-> Bw(on, pair)]
      /\ \A e \in DOMAIN on \ {pair} : new[e] = on[e]
  BY <1>7 DEF With
<1> HIDE DEF new
<1>9. \A e \in DOMAIN new : new[e] \in Asked
  <2>1. new[pair] \in Asked
    BY <1>7, <1>8 DEF Asked
  <2> QED
    BY <1>6, <1>8, <2>1
<1>10. \A e : Bw(new, e) = Bw(on, e)
  <2>1. Bw(new, pair) = Bw(on, pair)
    BY <1>8 DEF Bw
  <2>2. \A e : e # pair => Bw(new, e) = Bw(on, e)
    BY <1>8 DEF Bw
  <2> QED
    BY <2>1, <2>2
<1>11. DOMAIN left = DOMAIN acc.left
       /\ \A e \in DOMAIN acc.left :
            left[e] \in Int /\ left[e] <= acc.left[e] - (IF e \in hops THEN f.bw ELSE 0)
  <2>1. DOMAIN left = DOMAIN acc.left
    OBVIOUS
  <2>2. ASSUME NEW e \in DOMAIN acc.left
        PROVE  left[e] \in Int /\ left[e] <= acc.left[e] - (IF e \in hops THEN f.bw ELSE 0)
    <3>1. left[e] = acc.left[e] - (IF e \in hops THEN on[e].bw ELSE 0)
      BY <2>2
    <3>2. e \in hops => on[e].bw \in Nat /\ f.bw <= on[e].bw
      <4>1. Bw(old, e) \in Nat
        BY <1>3 DEF Asked
      <4> QED
        BY <1>4, <4>1
    <3> HIDE DEF left
    <3> QED
      BY <2>2, <3>1, <3>2
  <2> QED
    BY <2>1, <2>2
<1>12. \A e \in DOMAIN new :
         \/ e \in DOMAIN old /\ new[e].lat = old[e].lat
         \/ e \in hops /\ new[e].lat = MaxLatency
         \/ e = pair /\ new[e].lat = f.lat
  <2> SUFFICES ASSUME NEW e \in DOMAIN new, e # pair
               PROVE  \/ e \in DOMAIN old /\ new[e].lat = old[e].lat
                      \/ e \in hops /\ new[e].lat = MaxLatency
    BY <1>8
  <2>1. new[e] = on[e] /\ e \in DOMAIN on
    BY <1>8
  <2>2. CASE e \in hops
    BY <1>3, <1>4, <2>1, <2>2
  <2>3. CASE e \notin hops
    BY <1>4, <2>1, <2>3
  <2> QED
    BY <2>2, <2>3
<1> HIDE DEF left
<1> QED
  BY <1>1, <1>5, <1>9, <1>10, <1>11, <1>12 DEF r, old, hops, pair, Takes, Ends, Carried

\* The flows up to the k-th that take of e.
Upto(a, m, e, k) ==
    SumFunctionOnSet(Bandwidths(a), {i \in Over(Net, a, m, e) : i <= k})

Start == [asked |-> linkNeeded, left |-> linkResidual, found |-> TRUE]

\* What acc holds after the first k flows.
After(a, m, k, acc) ==
    /\ acc = [asked |-> acc.asked, left |-> acc.left, found |-> acc.found]
    /\ acc.found \in BOOLEAN
    /\ acc.found <=> \A i \in Crossing(a, m) : i <= k => RouteIn(Net, a, m, i) # NoPath
    /\ \A e \in DOMAIN acc.asked : acc.asked[e] \in Asked
    /\ DOMAIN acc.left = DOMAIN linkResidual
    /\ \A e \in DOMAIN linkResidual : acc.left[e] \in Int
    /\ \A e : /\ Bw(linkNeeded, e) <= Bw(acc.asked, e)
              /\ Bw(acc.asked, e) <= Bw(linkNeeded, e) + Upto(a, m, e, k)
    /\ acc.found =>
         /\ \A e : Bw(acc.asked, e) = Bw(linkNeeded, e) + Upto(a, m, e, k)
         /\ \A e \in DOMAIN linkResidual : acc.left[e] <= linkResidual[e] - Upto(a, m, e, k)
    /\ \A e \in DOMAIN acc.asked :
         \/ e \in DOMAIN linkNeeded /\ acc.asked[e].lat = linkNeeded[e].lat
         \/ Origin(Net, a, m, e, acc.asked[e].lat)

LEMMA RouteIs == ASSUME NEW a, NEW m, NEW i PROVE Route(a, m, i) = RouteIn(Net, a, m, i)
BY DEF Route, Path, RouteIn, Net

\* The sum grows by the k-th flow, where it crosses nodes over e.
LEMMA UptoGrows ==
    ASSUME NEW a \in Apps, NEW m, NEW e, NEW k \in DOMAIN Flows[a]
    PROVE  /\ Upto(a, m, e, k - 1) \in Nat /\ Upto(a, m, e, k) \in Nat
           /\ Upto(a, m, e, k) = Upto(a, m, e, k - 1)
                + (IF k \in Over(Net, a, m, e) THEN Flows[a][k].bw ELSE 0)
<1> DEFINE all   == Over(Net, a, m, e)
           S(j)  == {i \in all : i <= j}
           bw    == Bandwidths(a)
<1>1. all \subseteq DOMAIN Flows[a]
  BY DEF Over, Crossing
<1>2. /\ DOMAIN Flows[a] \subseteq Nat /\ k \in Nat
      /\ bw[k] = Flows[a][k].bw /\ Flows[a][k].bw \in Nat
  BY FlowsTyped
<1>3. IsFiniteSet(all) /\ \A i \in all : bw[i] \in Nat
  BY OverFinite
<1>0. all \subseteq Nat /\ k \in Nat
  BY <1>1, <1>2
<1> HIDE DEF all, bw
<1>4. \A j : IsFiniteSet(S(j)) /\ S(j) \subseteq all
  BY <1>3, FS_Subset
<1>5. SumFunctionOnSet(bw, S(k - 1)) \in Nat /\ SumFunctionOnSet(bw, S(k)) \in Nat
  BY <1>3, <1>4, SumNat
<1>6. CASE k \in all
  <2>1. k \in S(k) /\ S(k) \ {k} = S(k - 1)
    <3>1. k <= k /\ \A i \in Nat : i <= k - 1 <=> i <= k /\ i # k
      BY <1>0
    <3> QED
      BY <1>0, <1>6, <3>1
  <2>2. \A i \in S(k) : bw[i] \in Int
    BY <1>3
  <2>3. SumFunctionOnSet(bw, S(k)) = bw[k] + SumFunctionOnSet(bw, S(k) \ {k})
    BY <1>4, <2>1, <2>2, SumRemove
  <2>4. SumFunctionOnSet(bw, S(k)) = bw[k] + SumFunctionOnSet(bw, S(k - 1))
    BY <2>1, <2>3
  <2> HIDE DEF S
  <2>5. SumFunctionOnSet(bw, S(k)) = SumFunctionOnSet(bw, S(k - 1)) + Flows[a][k].bw
    BY <1>2, <1>5, <2>4
  <2> QED
    BY <1>5, <1>6, <2>5 DEF Upto, S, all, bw
<1>7. CASE k \notin all
  <2>1. S(k) = S(k - 1)
    <3>1. \A i \in Nat : i # k => (i <= k - 1 <=> i <= k)
      BY <1>0
    <3>2. \A i \in all : i # k /\ i \in Nat
      BY <1>0, <1>7
    <3> QED
      BY <3>1, <3>2
  <2>2. SumFunctionOnSet(bw, S(k)) = SumFunctionOnSet(bw, S(k - 1))
    BY <2>1
  <2> HIDE DEF S
  <2>3. SumFunctionOnSet(bw, S(k)) = SumFunctionOnSet(bw, S(k - 1)) + 0
    BY <1>5, <2>2
  <2> QED
    BY <1>5, <1>7, <2>3 DEF Upto, S, all, bw
<1> QED
  BY <1>6, <1>7

LEMMA UptoNone ==
    ASSUME NEW a \in Apps, NEW m, NEW e PROVE Upto(a, m, e, 0) = 0
<1>1. {i \in Over(Net, a, m, e) : i <= 0} = {}
  <2>1. \A i \in Over(Net, a, m, e) : i \in 1..Len(Flows[a]) /\ Len(Flows[a]) \in Nat
    BY FlowsTyped DEF Over, Crossing
  <2> QED
    BY <2>1
<1> QED
  BY <1>1, SumEmpty DEF Upto

LEMMA UptoAll ==
    ASSUME NEW a \in Apps, NEW m, NEW e
    PROVE  Upto(a, m, e, Len(Flows[a])) = LoadOn(Net, a, m, e)
<1>1. {i \in Over(Net, a, m, e) : i <= Len(Flows[a])} = Over(Net, a, m, e)
  <2>1. \A i \in Over(Net, a, m, e) : i \in 1..Len(Flows[a]) /\ Len(Flows[a]) \in Nat
    BY FlowsTyped DEF Over, Crossing
  <2> QED
    BY <2>1
<1> QED
  BY <1>1 DEF Upto, LoadOn

\* One flow more.
LEMMA AddFlowFacts ==
    ASSUME NEW a \in Apps, NEW m, NEW k \in DOMAIN Flows[a], NEW acc, After(a, m, k - 1, acc),
           \A e \in DOMAIN linkNeeded : linkNeeded[e] \in Asked,
           \A e \in DOMAIN linkResidual : linkResidual[e] \in Int
    PROVE  After(a, m, k, AddFlow(a, m, acc, k))
<1> DEFINE f == Flows[a][k]
           p == RouteIn(Net, a, m, k)
           r == AddFlow(a, m, acc, k)
           U(e, j) == Upto(a, m, e, j)
           old(e)  == Bw(linkNeeded, e)
<1>1. /\ f.bw \in Nat /\ f.lat \in Nat /\ k \in Nat /\ DOMAIN Flows[a] \subseteq Nat
  BY FlowsTyped
<1>2. \A i \in Nat : i <= k <=> i <= k - 1 \/ i = k
  BY <1>1
<1>3. Crossing(a, m) \subseteq Nat
  BY <1>1 DEF Crossing
<1>4. \A e : /\ U(e, k - 1) \in Nat /\ U(e, k) \in Nat /\ U(e, k - 1) <= U(e, k)
             /\ k \in Over(Net, a, m, e) => U(e, k) = U(e, k - 1) + f.bw
             /\ k \notin Over(Net, a, m, e) => U(e, k) = U(e, k - 1)
  BY <1>1, UptoGrows
<1>5. /\ \A e : old(e) \in Nat
      /\ \A e : Bw(acc.asked, e) \in Nat
  BY DEF After, Bw, Asked
<1>6. CASE ~acc.found
  <2>1. r = acc
    BY <1>6 DEF AddFlow
  <2>2. ~ \A i \in Crossing(a, m) : i <= k => RouteIn(Net, a, m, i) # NoPath
    BY <1>2, <1>3, <1>6 DEF After
  <2>3. \A e : Bw(acc.asked, e) <= old(e) + U(e, k)
    BY <1>4, <1>5 DEF After
  <2> HIDE DEF r, U, old
  <2> QED
    BY <1>6, <2>1, <2>2, <2>3 DEF After, r, U, old
<1>7. CASE acc.found /\ k \notin Crossing(a, m)
  <2>1. r = acc
    BY <1>7 DEF AddFlow
  <2>2. \A i \in Crossing(a, m) : i <= k => RouteIn(Net, a, m, i) # NoPath
    BY <1>2, <1>3, <1>7 DEF After
  <2>3. \A e : U(e, k) = U(e, k - 1)
    BY <1>4, <1>7 DEF Over
  <2> HIDE DEF r
  <2> QED
    BY <1>7, <2>1, <2>2, <2>3 DEF After, r
<1>8. CASE acc.found /\ k \in Crossing(a, m) /\ p = NoPath
  <2>1. r = [acc EXCEPT !.found = FALSE]
    BY <1>8, RouteIs DEF AddFlow
  <2>2. r = [asked |-> acc.asked, left |-> acc.left, found |-> FALSE]
    BY <2>1 DEF After
  <2>3. ~ \A i \in Crossing(a, m) : i <= k => RouteIn(Net, a, m, i) # NoPath
    BY <1>1, <1>8
  <2>4. \A e : Bw(acc.asked, e) <= old(e) + U(e, k)
    BY <1>4, <1>5 DEF After
  <2> HIDE DEF r, U, old
  <2>5. r.asked = acc.asked /\ r.left = acc.left /\ r.found = FALSE
    BY <2>2
  <2> QED
    BY <2>2, <2>3, <2>4, <2>5 DEF After, r, U, old
<1>9. CASE acc.found /\ k \in Crossing(a, m) /\ p # NoPath
  <2> DEFINE on(e) == Takes(f, p, e)
  <2>1. r = Carry(acc, f, p)
    BY <1>9, RouteIs DEF AddFlow
  <2>2. /\ \A e \in DOMAIN acc.asked : acc.asked[e] \in Asked
        /\ \A e \in DOMAIN acc.left : acc.left[e] \in Int
    BY DEF After
  <2>3. Carried(acc, f, p, r)
    <3>1. f.bw \in Nat /\ f.lat \in Nat
      BY <1>1
    <3> HIDE DEF f, p, r
    <3> QED
      BY <2>1, <2>2, <3>1, CarryFacts
  <2>4. \A e : U(e, k) = U(e, k - 1) + on(e) /\ on(e) \in Nat
    <3> SUFFICES ASSUME NEW e PROVE U(e, k) = U(e, k - 1) + on(e) /\ on(e) \in Nat
      OBVIOUS
    <3>1. k \in Over(Net, a, m, e) <=> e \in Hops(p)
      BY <1>9 DEF Over
    <3> HIDE DEF U, f, p
    <3> QED
      BY <1>1, <1>4, <3>1 DEF Takes
  <2>5. \A i \in Crossing(a, m) : i <= k => RouteIn(Net, a, m, i) # NoPath
    BY <1>2, <1>3, <1>9 DEF After
  <2>6. \A e \in DOMAIN r.asked :
          \/ e \in DOMAIN linkNeeded /\ r.asked[e].lat = linkNeeded[e].lat
          \/ Origin(Net, a, m, e, r.asked[e].lat)
    <3> SUFFICES ASSUME NEW e \in DOMAIN r.asked
                 PROVE  \/ e \in DOMAIN linkNeeded /\ r.asked[e].lat = linkNeeded[e].lat
                        \/ Origin(Net, a, m, e, r.asked[e].lat)
      OBVIOUS
    <3> HIDE DEF r
    <3>1. CASE e \in DOMAIN acc.asked /\ r.asked[e].lat = acc.asked[e].lat
      BY <3>1 DEF After
    <3>2. CASE \/ e \in Hops(p) /\ r.asked[e].lat = MaxLatency
               \/ e = Ends(p) /\ r.asked[e].lat = f.lat
      BY <1>9, <3>2 DEF Origin, Ends
    <3> QED
      BY <2>3, <3>1, <3>2 DEF Carried
  <2>7. \A e : /\ Bw(r.asked, e) = old(e) + U(e, k)
               /\ old(e) <= Bw(r.asked, e)
    <3> SUFFICES ASSUME NEW e
                 PROVE  Bw(r.asked, e) = old(e) + U(e, k) /\ old(e) <= Bw(r.asked, e)
      OBVIOUS
    <3>1. Bw(acc.asked, e) = old(e) + U(e, k - 1)
      BY <1>9 DEF After
    <3>2. Bw(r.asked, e) = Bw(acc.asked, e) + on(e)
      BY <2>3 DEF Carried
    <3>3. U(e, k) = U(e, k - 1) + on(e) /\ on(e) \in Nat
      BY <2>4
    <3> HIDE DEF r, U, old, on
    <3> QED
      BY <1>4, <1>5, <3>1, <3>2, <3>3
  <2>8. /\ DOMAIN r.left = DOMAIN linkResidual
        /\ \A e \in DOMAIN linkResidual :
             r.left[e] \in Int /\ r.left[e] <= linkResidual[e] - U(e, k)
    <3>1. DOMAIN acc.left = DOMAIN linkResidual
      BY DEF After
    <3> SUFFICES ASSUME NEW e \in DOMAIN linkResidual
                 PROVE  r.left[e] \in Int /\ r.left[e] <= linkResidual[e] - U(e, k)
      BY <2>3, <3>1 DEF Carried
    <3>2. acc.left[e] \in Int /\ acc.left[e] <= linkResidual[e] - U(e, k - 1)
      BY <1>9 DEF After
    <3>3. r.left[e] \in Int /\ r.left[e] <= acc.left[e] - on(e)
      BY <2>3, <3>1 DEF Carried
    <3>4. U(e, k) = U(e, k - 1) + on(e) /\ on(e) \in Nat
      BY <2>4
    <3> HIDE DEF r, U, on
    <3> QED
      BY <1>4, <3>2, <3>3, <3>4
  <2> HIDE DEF r, U, old, on
  <2>9. \A e : Bw(r.asked, e) <= old(e) + U(e, k)
    BY <1>4, <1>5, <2>7
  <2> QED
    BY <2>3, <2>5, <2>6, <2>7, <2>8, <2>9 DEF After, Carried, U, old, r
<1> QED
  BY <1>6, <1>7, <1>8, <1>9 DEF After

\* FlowsOf is the last value of its recursive function.
IsRun(g, a, m, n) ==
    g = [i \in 0..n |-> IF i = 0 THEN Start ELSE AddFlow(a, m, g[i - 1], i)]

LEMMA FlowsDef ==
    ASSUME NEW a, NEW m
    PROVE  FlowsOf(a, m) = (CHOOSE g : IsRun(g, a, m, Len(Flows[a])))[Len(Flows[a])]
BY DEF FlowsOf, IsRun, Start

LEMMA RunExists ==
    ASSUME NEW a, NEW m, NEW n \in Nat PROVE \E g : IsRun(g, a, m, n)
<1> DEFINE T == {j \in Nat : ~ \E g : IsRun(g, a, m, j)}
<1> SUFFICES ASSUME T # {} PROVE FALSE
  OBVIOUS
<1>1. T \subseteq Nat
  OBVIOUS
<1>2. PICK k \in T : \A j \in T : k <= j
  <2> HIDE DEF T
  <2> QED
    BY <1>1, LeastMember
<1>3. k \in Nat /\ ~ \E g : IsRun(g, a, m, k)
  OBVIOUS
<1>4. CASE k = 0
  <2> DEFINE g == [i \in 0..0 |-> Start]
  <2>1. g = [i \in 0..0 |-> IF i = 0 THEN Start ELSE AddFlow(a, m, g[i - 1], i)]
    OBVIOUS
  <2>2. IsRun(g, a, m, 0)
    <3> HIDE DEF g
    <3> QED
      BY <2>1 DEF IsRun
  <2> QED
    BY <1>3, <1>4, <2>2
<1>5. CASE k # 0
  <2>1. k - 1 \in Nat /\ ~(k <= k - 1)
    BY <1>3, <1>5
  <2>2. k - 1 \notin T
    <3> HIDE DEF T
    <3> QED
      BY <1>2, <2>1
  <2>3. PICK g : IsRun(g, a, m, k - 1)
    BY <2>1, <2>2
  <2> DEFINE h == [i \in 0..k |-> IF i = k THEN AddFlow(a, m, g[k - 1], k) ELSE g[i]]
  <2>4. \A i \in 0..(k - 1) : g[i] = IF i = 0 THEN Start ELSE AddFlow(a, m, g[i - 1], i)
    <3>1. g = [i \in 0..(k - 1) |-> IF i = 0 THEN Start ELSE AddFlow(a, m, g[i - 1], i)]
      BY <2>3 DEF IsRun
    <3> QED
      BY <3>1
  <2>5. ASSUME NEW i \in 0..k
        PROVE  h[i] = IF i = 0 THEN Start ELSE AddFlow(a, m, h[i - 1], i)
    <3>1. CASE i = k
      <4>1. k - 1 \in 0..k /\ k - 1 # k
        BY <1>3, <1>5
      <4>2. h[k - 1] = g[k - 1] /\ h[i] = AddFlow(a, m, g[k - 1], k)
        BY <3>1, <4>1
      <4> QED
        BY <1>5, <3>1, <4>2
    <3>2. CASE i # k
      <4>1. i \in 0..(k - 1) /\ (i # 0 => i - 1 \in 0..k /\ i - 1 # k)
        BY <1>3, <3>2
      <4>2. h[i] = g[i] /\ (i # 0 => h[i - 1] = g[i - 1])
        BY <3>2, <4>1
      <4> HIDE DEF h
      <4> QED
        BY <2>4, <4>1, <4>2
    <3> QED
      BY <3>1, <3>2
  <2>6. h = [i \in 0..k |-> IF i = 0 THEN Start ELSE AddFlow(a, m, h[i - 1], i)]
    <3>1. h = [i \in 0..k |-> h[i]]
      OBVIOUS
    <3> HIDE DEF h
    <3> QED
      BY <2>5, <3>1
  <2>7. IsRun(h, a, m, k)
    <3> HIDE DEF h
    <3> QED
      BY <2>6 DEF IsRun
  <2> QED
    BY <1>3, <2>7
<1> QED
  BY <1>4, <1>5

\* The view after the flows of a.
LEMMA FlowsFacts ==
    ASSUME NEW a \in Apps, NEW m,
           \A e \in DOMAIN linkNeeded : linkNeeded[e] \in Asked,
           \A e \in DOMAIN linkResidual : linkResidual[e] \in Int
    PROVE  After(a, m, Len(Flows[a]), FlowsOf(a, m))
<1> DEFINE n == Len(Flows[a])
           g == CHOOSE h : IsRun(h, a, m, n)
           T == {j \in 0..n : ~After(a, m, j, g[j])}
<1>1. n \in Nat /\ DOMAIN Flows[a] = 1..n
  BY FlowsTyped
<1>2. FlowsOf(a, m) = g[n]
  BY FlowsDef
<1> HIDE DEF n
<1>3. IsRun(g, a, m, n)
  BY <1>1, RunExists
<1> HIDE DEF g
<1>4. \A i \in 0..n : g[i] = IF i = 0 THEN Start ELSE AddFlow(a, m, g[i - 1], i)
  <2>1. g = [i \in 0..n |-> IF i = 0 THEN Start ELSE AddFlow(a, m, g[i - 1], i)]
    BY <1>3 DEF IsRun
  <2> QED
    BY <2>1
<1>5. After(a, m, 0, Start)
  <2>1. \A i \in Crossing(a, m) : ~(i <= 0)
    BY <1>1 DEF Crossing
  <2>2. \A e : Upto(a, m, e, 0) = 0
    BY UptoNone
  <2>3. \A e : Bw(linkNeeded, e) \in Nat
    BY DEF Bw, Asked
  <2>4. Start.asked = linkNeeded /\ Start.left = linkResidual /\ Start.found = TRUE
        /\ Start = [asked |-> Start.asked, left |-> Start.left, found |-> Start.found]
    BY DEF Start
  <2>5. \A e : Bw(linkNeeded, e) <= Bw(linkNeeded, e) /\ Bw(linkNeeded, e) = Bw(linkNeeded, e) + 0
               /\ Bw(linkNeeded, e) <= Bw(linkNeeded, e) + 0
    BY <2>3
  <2>6. \A e \in DOMAIN linkResidual : linkResidual[e] <= linkResidual[e] - 0
    OBVIOUS
  <2> QED
    BY <2>1, <2>2, <2>4, <2>5, <2>6 DEF After
<1>6. T = {}
  <2> SUFFICES ASSUME T # {} PROVE FALSE
    OBVIOUS
  <2>1. T \subseteq Nat
    BY <1>1
  <2>2. PICK k \in T : \A j \in T : k <= j
    <3> HIDE DEF T
    <3> QED
      BY <2>1, LeastMember
  <2>3. k \in 0..n /\ ~After(a, m, k, g[k])
    OBVIOUS
  <2>4. k # 0
    <3> SUFFICES ASSUME k = 0 PROVE FALSE
      OBVIOUS
    <3>1. g[0] = Start
      BY <1>4, <2>3
    <3> QED
      BY <1>5, <2>3, <3>1
  <2>5. k - 1 \in 0..n /\ ~(k <= k - 1) /\ k \in 1..n
    BY <1>1, <2>3, <2>4
  <2>6. After(a, m, k - 1, g[k - 1])
    <3>1. k - 1 \notin T
      <4> HIDE DEF T
      <4> QED
        BY <2>2, <2>5
    <3> QED
      BY <2>5, <3>1
  <2>7. After(a, m, k, AddFlow(a, m, g[k - 1], k))
    BY <1>1, <2>5, <2>6, AddFlowFacts
  <2>8. g[k] = AddFlow(a, m, g[k - 1], k)
    BY <1>4, <2>3, <2>4
  <2> QED
    BY <2>3, <2>7, <2>8
<1>7. n \in 0..n
  BY <1>1
<1> QED
  BY <1>2, <1>6, <1>7 DEF n

-----------------------------------------------------------------------------
(* Lemmas.                                                                 *)

\* What validate() returns depends on the view and the infrastructure alone.
LEMMA ValidateFrame ==
    ASSUME UNCHANGED infrastructure
    PROVE  Bad' = NotRespected(needed', linkNeeded')
BY DEF infrastructure, Bad, NotRespected, Overloaded, Unmet, Satisfied, Path

\* A mapping is empty or has every service of its application.
LEMMA MappedIsComplete ==
    ASSUME StateOK, NEW a \in Apps, NEW m \in Mapped(a)
    PROVE  DOMAIN m \in {{}, ServicesOf(a)}
<1>1. CASE mapping[a] # NoMapping
  BY <1>1 DEF Mapped, StateOK
<1>2. CASE mapping[a] = NoMapping
  <2>1. PICK p \in Placed(a) : m = Complete(a, p)
    BY <1>2 DEF Mapped
  <2>2. DOMAIN NoMapping = {}
    BY DEF NoMapping
  <2> QED
    BY <2>1, <2>2 DEF Complete
<1> QED
  BY <1>1, <1>2

-----------------------------------------------------------------------------
(* One lemma per action.                                                   *)

LEMMA StartAuditCore == ASSUME Core, StartAudit PROVE Core'
<1>1. /\ phase' = "audit" /\ pending' = Apps
      /\ usedBy' = [n \in nodes |-> {}]
      /\ UNCHANGED <<strategy, nodes, up, cpu, link, mapping, toReset, changes>>
  BY DEF StartAudit, infrastructure
<1>2. Entered' = {}
  BY <1>1 DEF Entered, PlacedApps
<1>3. StateOK'
  BY <1>1 DEF Core, StateOK, Phases
<1>4. UsersKnown'
  BY <1>1, <1>2 DEF UsersKnown
<1>5. AllMarked'
  BY <1>2 DEF AllMarked
<1>6. ViewRespected'
  BY <1>1 DEF ViewRespected
<1> QED
  BY <1>3, <1>4, <1>5, <1>6 DEF Core

LEMMA AuditCore == ASSUME Core, NEW a \in Apps, Audit(a) PROVE Core'
<1> DEFINE marked == Users(usedBy', NotRespected(needed', linkNeeded'))
<1>1. PICK m \in Mapped(a) :
        /\ mapping' = [mapping EXCEPT ![a] = m]
        /\ IF m = NoMapping THEN UNCHANGED view ELSE Enter(a, m)
        /\ \A b \in marked \cap Apps : toReset'[b] = TRUE
        /\ toReset' \in [Apps -> BOOLEAN]
        /\ \A b \in Apps : toReset'[b] =>
              \/ b \in marked
              \/ b = a /\ m # NoMapping
              \/ b # a /\ toReset[b]
  <2>1. PICK m \in Mapped(a) :
         /\ mapping' = [mapping EXCEPT ![a] = m]
         /\ IF m = NoMapping THEN UNCHANGED view ELSE Enter(a, m)
         /\ LET cut == m # NoMapping /\ ~FlowsOf(a, m).found
            IN  toReset' = [b \in Apps |->
                    \/ b \in marked
                    \/ IF b = a THEN cut \/ (toReset[a] /\ m # NoMapping) ELSE toReset[b]]
    BY DEF Audit
  <2> HIDE DEF marked
  <2>2. \A b \in marked \cap Apps : toReset'[b] = TRUE
    BY <2>1
  <2>3. toReset' \in [Apps -> BOOLEAN]
    BY <2>1 DEF Core, StateOK
  <2>4. \A b \in Apps : toReset'[b] =>
          \/ b \in marked
          \/ b = a /\ m # NoMapping
          \/ b # a /\ toReset[b]
    BY <2>1
  <2> QED
    BY <2>1, <2>2, <2>3, <2>4
<1>2. /\ phase = "audit" /\ phase' = "audit" /\ a \in pending
      /\ pending' = pending \ {a}
      /\ UNCHANGED <<strategy, nodes, up, cpu, link, changes>>
      /\ UNCHANGED infrastructure
  BY DEF Audit, infrastructure
<1>3. DOMAIN mapping' = Apps /\ mapping'[a] = m /\ \A b \in Apps \ {a} : mapping'[b] = mapping[b]
  BY <1>1 DEF Core, StateOK
<1>4. Entered' = IF m = NoMapping THEN Entered ELSE Entered \cup {a}
  BY <1>2, <1>3 DEF Entered, PlacedApps
<1>5. DOMAIN usedBy' = nodes /\ \A n \in nodes : usedBy'[n] = Entered'
  <2>1. DOMAIN usedBy = nodes /\ \A n \in nodes : usedBy[n] = Entered
    BY <1>2 DEF Core, UsersKnown
  <2>2. CASE m = NoMapping
    BY <1>1, <1>4, <2>1, <2>2 DEF view
  <2>3. CASE m # NoMapping
    <3>1. usedBy' = [n \in nodes |-> usedBy[n] \cup {a}]
      BY <1>1, <2>3 DEF Enter
    <3> QED
      BY <1>4, <2>1, <2>3, <3>1
  <2> QED
    BY <2>2, <2>3
<1>6. UsersKnown'
  BY <1>2, <1>5 DEF UsersKnown
<1>7. \A b \in Apps : toReset'[b] => mapping'[b] # NoMapping
  <2> SUFFICES ASSUME NEW b \in Apps, toReset'[b] PROVE mapping'[b] # NoMapping
    OBVIOUS
  <2>1. CASE b \in marked
    <3>1. b \in Entered'
      BY <1>5, <2>1 DEF Users
    <3> QED
      BY <3>1 DEF Entered, PlacedApps
  <2>2. CASE b = a /\ m # NoMapping
    BY <1>3, <2>2
  <2>3. CASE b # a /\ toReset[b]
    BY <1>3, <2>3 DEF Core, StateOK
  <2> QED
    BY <1>1, <2>1, <2>2, <2>3
<1>8. AllMarked'
  <2> SUFFICES ASSUME Bad' \cap nodes' # {}, NEW b \in Entered' PROVE toReset'[b]
    BY DEF AllMarked
  <2>1. PICK n \in nodes : n \in NotRespected(needed', linkNeeded')
    BY <1>2, ValidateFrame
  <2>2. b \in usedBy'[n] /\ b \in Apps
    BY <1>5 DEF Entered, PlacedApps
  <2>3. b \in marked
    BY <1>5, <2>1, <2>2 DEF Users
  <2> QED
    BY <1>1, <2>2, <2>3
<1>9. StateOK'
  <2>1. \A b \in Apps : DOMAIN mapping'[b] \in {{}, ServicesOf(b)}
    BY <1>3, MappedIsComplete DEF Core, StateOK
  <2>2. \A n \in DOMAIN usedBy' : usedBy'[n] \subseteq Apps
    BY <1>5 DEF Entered, PlacedApps
  <2> QED
    BY <1>1, <1>2, <1>3, <1>7, <2>1, <2>2 DEF Core, StateOK, Phases
<1>10. ViewRespected'
  BY <1>2 DEF ViewRespected
<1> QED
  BY <1>6, <1>8, <1>9, <1>10 DEF Core

LEMMA AuditRaisesCore == ASSUME Core, NEW a \in Apps, AuditRaises(a) PROVE Core'
<1>1. /\ phase' = "raised"
      /\ UNCHANGED <<strategy, nodes, up, cpu, link, toReset, usedBy, pending, changes>>
  BY DEF AuditRaises, infrastructure, view
<1> DEFINE Mappings == /\ DOMAIN mapping' = Apps
                       /\ \A b \in Apps : DOMAIN mapping'[b] \in {{}, ServicesOf(b)}
                       /\ \A b \in Apps : toReset[b] => mapping'[b] # NoMapping
<1>2. Mappings
  <2>1. ASSUME mapping' = mapping PROVE Mappings
    BY <2>1 DEF Core, StateOK
  <2>2. ASSUME mapping[a] = NoMapping, NEW m \in Misnamed(a), mapping' = [mapping EXCEPT ![a] = m]
        PROVE  Mappings
    <3>1. DOMAIN m = ServicesOf(a)
      BY <2>2 DEF Misnamed
    <3> QED
      BY <2>2, <3>1 DEF Core, StateOK
  <2> QED
    BY <2>1, <2>2 DEF AuditRaises
<1>3. StateOK'
  BY <1>1, <1>2 DEF Core, StateOK, Phases
<1> QED
  BY <1>1, <1>3 DEF Core, UsersKnown, AllMarked, ViewRespected

LEMMA EnactCore == ASSUME Core, Enact PROVE Core'
<1>1. /\ phase = "audit" /\ pending = {} /\ phase' = "enacted"
      /\ mapping' = [a \in Apps |-> IF toReset[a] THEN NoMapping ELSE mapping[a]]
      /\ toReset' = [a \in Apps |-> FALSE]
      /\ UNCHANGED <<strategy, nodes, up, cpu, link, needed, linkNeeded, usedBy, pending, changes>>
      /\ UNCHANGED infrastructure
  BY DEF Enact, MarksCleared, infrastructure, view
<1>2. StateOK'
  <2>1. DOMAIN NoMapping = {}
    BY DEF NoMapping
  <2> QED
    BY <1>1, <2>1 DEF Core, StateOK, Phases
<1>3. UsersKnown' /\ AllMarked'
  BY <1>1 DEF UsersKnown, AllMarked
<1>4. ViewRespected'
  <2> SUFFICES ASSUME NEW a \in PlacedApps' PROVE NotRespected(needed, linkNeeded)' \cap nodes' = {}
    BY DEF ViewRespected
  <2>1. a \in Entered /\ ~toReset[a]
    BY <1>1 DEF Core, StateOK, PlacedApps, Entered
  <2>2. Bad \cap nodes = {}
    BY <1>1, <2>1 DEF Core, AllMarked
  <2>3. NotRespected(needed, linkNeeded)' = Bad
    BY <1>1, ValidateFrame DEF Bad
  <2> QED
    BY <1>1, <2>2, <2>3
<1> QED
  BY <1>2, <1>3, <1>4 DEF Core

InfraOK ==
    /\ nodes \subseteq Nodes /\ up \subseteq Nodes
    /\ cpu \in [Nodes -> Nat]
    /\ DOMAIN link \subseteq DOMAIN Links

LEMMA EvolveCore == ASSUME Core, Evolve PROVE Core'
<1>1. /\ phase' = "idle"
      /\ changes < MaxChanges /\ changes' = changes + 1
      /\ UNCHANGED <<strategy, mapping, toReset, usedBy, pending>>
  BY DEF Evolve, view
<1>2. InfraOK'
  <2>1. ASSUME NEW n \in nodes, NEW c \in Capacities, Degrade(n, c) PROVE InfraOK'
    BY <2>1, PlacementAssumption DEF Degrade, PlacementAssumption, Core, StateOK, InfraOK
  <2>2. ASSUME NEW n \in nodes, KillOrRevive(n) PROVE InfraOK'
    BY <2>2 DEF KillOrRevive, Core, StateOK, InfraOK
  <2>3. ASSUME NEW e \in DOMAIN link, CutLink(e) PROVE InfraOK'
    BY <2>3 DEF CutLink, Core, StateOK, InfraOK
  <2>4. ASSUME NEW e \in DOMAIN Links, AddLink(e) PROVE InfraOK'
    BY <2>4 DEF AddLink, With, Core, StateOK, InfraOK
  <2>5. ASSUME NEW n \in nodes, RemoveNode(n) PROVE InfraOK'
    BY <2>5 DEF RemoveNode, Core, StateOK, InfraOK
  <2>6. ASSUME NEW n \in Nodes, AddNode(n) PROVE InfraOK'
    BY <2>6 DEF AddNode, Core, StateOK, InfraOK
  <2> QED
    BY <2>1, <2>2, <2>3, <2>4, <2>5, <2>6 DEF Evolve
<1>3. changes' \in 0..MaxChanges
  BY <1>1, PlacementAssumption DEF PlacementAssumption, Core, StateOK
<1>4. StateOK'
  BY <1>1, <1>2, <1>3 DEF Core, StateOK, Phases, InfraOK
<1>5. UsersKnown' /\ AllMarked' /\ ViewRespected'
  BY <1>1 DEF UsersKnown, AllMarked, ViewRespected
<1> QED
  BY <1>4, <1>5 DEF Core

-----------------------------------------------------------------------------
(* What validate() finds has a cause in the loads.                         *)

InfraKnown ==
    /\ IsFiniteSet(Net[1]) /\ Net[1] \subseteq nodes /\ nodes \subseteq Nodes
    /\ Weights(Net[2]) /\ DOMAIN Net[2] = DOMAIN link
    /\ \A e \in DOMAIN link : /\ link[e].lat \in 0..MaxLatency /\ link[e].bw \in Nat
                              /\ Net[2][e] = link[e].lat
    /\ \A n \in nodes : cpu[n] \in Nat
    /\ MaxLatency \in Nat

LEMMA InfraFacts ==
    ASSUME StateOK, \A e \in DOMAIN link : link[e] = Links[e] PROVE InfraKnown
<1>1. /\ nodes \subseteq Nodes /\ DOMAIN link \subseteq DOMAIN Links
      /\ \A n \in nodes : cpu[n] \in Nat
  BY DEF StateOK
<1>2. /\ IsFiniteSet(Nodes) /\ MaxLatency \in Nat
      /\ \A e \in DOMAIN Links : Links[e] \in [lat : 0..MaxLatency, bw : Nat]
  BY PlacementAssumption DEF PlacementAssumption
<1>3. Net[1] = nodes \cap up /\ Net[2] = Latencies(link)
  BY DEF Net
<1>4. IsFiniteSet(Net[1]) /\ Net[1] \subseteq nodes
  BY <1>1, <1>2, <1>3, FS_Subset
<1>5. \A e \in DOMAIN link : link[e].lat \in 0..MaxLatency /\ link[e].bw \in Nat
  BY <1>1, <1>2
<1>6. DOMAIN Net[2] = DOMAIN link /\ \A e \in DOMAIN link : Net[2][e] = link[e].lat
  BY <1>3 DEF Latencies
<1>7. Weights(Net[2])
  BY <1>2, <1>5, <1>6 DEF Weights
<1> QED
  BY <1>1, <1>2, <1>4, <1>5, <1>6, <1>7 DEF InfraKnown

LEMMA LeastIs ==
    ASSUME NEW T, T \subseteq Nat, T # {} PROVE Min(T) \in T
<1>1. \E x \in T : \A y \in T : x <= y
  BY LeastMember
<1> QED
  BY <1>1 DEF Min

\* A hop of a path that was found is found again between its ends.
LEMMA HopFacts ==
    ASSUME InfraKnown, NEW s, NEW t,
           NEW e \in Hops(ShortestPath(Net[1], Net[2], s, t)),
           ShortestPath(Net[1], Net[2], s, t) # NoPath
    PROVE  /\ Path(e[1], e[2]) # NoPath
           /\ PathBandwidth(Path(e[1], e[2]), link) = link[e].bw
           /\ PathLatency(Path(e[1], e[2]), link) = link[e].lat
           /\ e \in DOMAIN link /\ e[1] \in nodes /\ e[2] \in nodes
<1>1. Path(e[1], e[2]) = ShortestPath(Net[1], Net[2], e[1], e[2])
  BY DEF Path, Net
<1>2. /\ Path(e[1], e[2]) = <<e[1], e[2]>>
      /\ e = <<e[1], e[2]>> /\ Hops(e) = {e}
      /\ e[1] \in Net[1] /\ e[2] \in Net[1] /\ e \in DOMAIN Net[2]
  BY <1>1, HopIsShortest DEF InfraKnown
<1>3. Path(e[1], e[2]) = e
  BY <1>2
<1>4. e \in DOMAIN link /\ link[e].bw \in Nat /\ Net[2][e] = link[e].lat /\ link[e].lat \in Int
  BY <1>2 DEF InfraKnown
<1>5. PathBandwidth(e, link) = link[e].bw
  <2>1. {link[d].bw : d \in Hops(e)} = {link[e].bw}
    BY <1>2
  <2>2. Min({link[e].bw}) \in {link[e].bw}
    BY <1>4, LeastIs
  <2> QED
    BY <2>1, <2>2 DEF PathBandwidth
<1>6. PathLatency(e, link) = link[e].lat
  <2>1. Net[2] = Latencies(link)
    BY DEF Net
  <2> QED
    BY <1>2, <1>4, <2>1, SumSingle DEF PathLatency, PathCost
<1>7. e # NoPath
  <2>1. <<e[1], e[2]>> # <<>>
    OBVIOUS
  <2> QED
    BY <1>2, <2>1 DEF NoPath
<1> QED
  BY <1>2, <1>3, <1>4, <1>5, <1>6, <1>7 DEF InfraKnown

\* The path of a flow that leaves its node has a hop.
LEMMA RouteFacts ==
    ASSUME InfraKnown, NEW a \in Apps, NEW m, NEW i \in Crossing(a, m),
           RouteIn(Net, a, m, i) # NoPath
    PROVE  LET p == RouteIn(Net, a, m, i)
           IN  /\ Path(p[1], Last(p)) = p
               /\ PathBandwidth(p, link) \in Nat
<1> DEFINE s == m[Flows[a][i].from]
           t == m[Flows[a][i].to]
           p == RouteIn(Net, a, m, i)
<1>1. p = ShortestPath(Net[1], Net[2], s, t)
  BY DEF RouteIn
<1>2. p \in SimplePaths(Net[1], Net[2]) /\ p[1] = s /\ Last(p) = t /\ p \in Seq(Net[1])
  BY <1>1, ShortestPathFacts DEF InfraKnown
<1>3. Path(p[1], Last(p)) = p
  BY <1>1, <1>2 DEF Path, Net
<1>4. s # t
  BY DEF Crossing
<1> HIDE DEF s, t, p
<1>5. Len(p) \in Nat /\ Len(p) > 1
  <2>1. p # <<>>
    BY <1>2, PathIsSeq DEF InfraKnown
  <2>2. Len(p) \in Nat /\ Len(p) # 0
    BY <1>2, <2>1, EmptySeq, LenProperties
  <2>3. Len(p) # 1
    BY <1>2, <1>4 DEF Last
  <2>4. \A l \in Nat : l # 0 /\ l # 1 => l > 1
    OBVIOUS
  <2> QED
    BY <2>2, <2>3, <2>4
<1>6. Hops(p) # {} /\ Hops(p) \subseteq DOMAIN link
  <2>1. 1 \in 1..(Len(p) - 1)
    BY <1>5
  <2>2. <<p[1], p[1 + 1]>> \in Hops(p)
    BY <2>1 DEF Hops
  <2>3. Hops(p) \subseteq DOMAIN Net[2]
    BY <1>2, PathIsSeq DEF InfraKnown
  <2> QED
    BY <2>2, <2>3 DEF InfraKnown
<1>7. PathBandwidth(p, link) \in Nat
  <2> DEFINE T == {link[e].bw : e \in Hops(p)}
  <2>1. T \subseteq Nat /\ T # {}
    BY <1>6 DEF InfraKnown
  <2> HIDE DEF T
  <2>2. Min(T) \in Nat
    BY <2>1, LeastIs
  <2> QED
    BY <2>2 DEF T, PathBandwidth
<1> QED
  BY <1>3, <1>7 DEF p

\* A pair of nodes that does not have what the view asks of it: the placements
\* ask too much of a link, or a flow has too slow a path.
LEMMA UnmetHasCause ==
    ASSUME InfraKnown, NEW mp, NEW apps \in SUBSET Apps, NEW e, NEW req \in Asked,
           req.bw <= LinkLoadOf(Net, mp, apps, e),
           NEW a \in apps, Origin(Net, a, mp[a], e, req.lat), ~Satisfied(e, req)
    PROVE  CauseIn(Net, nodes, cpu, link, mp, apps)
<1> DEFINE L == LinkLoadOf(Net, mp, apps, e)
<1>1. PICK i \in Crossing(a, mp[a]) :
        LET p == RouteIn(Net, a, mp[a], i)
        IN  /\ p # NoPath
            /\ \/ e \in Hops(p) /\ req.lat = MaxLatency
               \/ e = Ends(p) /\ req.lat = Flows[a][i].lat
  BY DEF Origin, Ends
<1> DEFINE p == RouteIn(Net, a, mp[a], i)
<1>2. req.bw \in Nat /\ L \in Nat
  BY LinkLoadMore DEF Asked
<1>3. ASSUME NEW b \in apps, NEW j \in Crossing(b, mp[b]), e \in Hops(RouteIn(Net, b, mp[b], j))
      PROVE  /\ Path(e[1], e[2]) # NoPath /\ e \in DOMAIN link
             /\ PathBandwidth(Path(e[1], e[2]), link) = link[e].bw
             /\ PathLatency(Path(e[1], e[2]), link) = link[e].lat
             /\ link[e].bw \in Nat /\ link[e].lat \in 0..MaxLatency /\ MaxLatency \in Nat
  <2>1. RouteIn(Net, b, mp[b], j) # NoPath
    <3> SUFFICES ASSUME RouteIn(Net, b, mp[b], j) = <<>> PROVE FALSE
      BY DEF NoPath
    <3>1. \A k : ~(k \in 1..(Len(<<>>) - 1))
      OBVIOUS
    <3> QED
      BY <1>3, <3>1 DEF Hops
  <2> QED
    BY <1>3, <2>1, HopFacts DEF RouteIn, InfraKnown
<1>4. ASSUME e \in DOMAIN link, link[e].bw < req.bw, link[e].bw \in Nat
      PROVE  CauseIn(Net, nodes, cpu, link, mp, apps)
  <2>1. L > link[e].bw
    <3> HIDE DEF L
    <3> QED
      BY <1>2, <1>4 DEF L
  <2> QED
    BY <1>4, <2>1 DEF CauseIn
<1> HIDE DEF p, L
<1>5. CASE e \in Hops(p) /\ req.lat = MaxLatency
  <2>1. /\ Path(e[1], e[2]) # NoPath /\ e \in DOMAIN link
        /\ PathBandwidth(Path(e[1], e[2]), link) = link[e].bw
        /\ PathLatency(Path(e[1], e[2]), link) = link[e].lat
        /\ link[e].bw \in Nat /\ link[e].lat \in 0..MaxLatency /\ MaxLatency \in Nat
    BY <1>3, <1>5 DEF p
  <2>2. ~(link[e].bw >= req.bw)
    BY <1>5, <2>1 DEF Satisfied
  <2> QED
    BY <1>2, <1>4, <2>1, <2>2
<1>6. CASE e = Ends(p) /\ req.lat = Flows[a][i].lat
  <2>1. Path(e[1], e[2]) = p /\ PathBandwidth(p, link) \in Nat /\ p # NoPath
    BY <1>1, <1>6, RouteFacts DEF p, Ends
  <2>2. \/ ~(PathBandwidth(p, link) >= req.bw)
        \/ ~(PathLatency(p, link) <= req.lat)
    BY <2>1 DEF Satisfied
  <2>3. CASE ~(PathLatency(p, link) <= req.lat)
    <3>1. PathLatency(p, link) \in Nat
      <4>1. PathLatency(p, link) = PathCost(p, Net[2])
        BY DEF PathLatency, Net
      <4>2. p \in SimplePaths(Net[1], Net[2])
        BY <1>1, ShortestPathFacts DEF p, RouteIn, InfraKnown
      <4> QED
        BY <4>1, <4>2, CostIsNat DEF InfraKnown
    <3>2. PathLatency(p, link) > Flows[a][i].lat
      BY <1>6, <2>3, <3>1 DEF Asked
    <3> QED
      BY <3>2 DEF CauseIn, p
  <2>4. CASE ~(PathBandwidth(p, link) >= req.bw)
    <3>1. L # 0
      BY <1>2, <2>1, <2>4 DEF L
    <3>2. PICK b \in apps : \E j \in Crossing(b, mp[b]) : e \in Hops(RouteIn(Net, b, mp[b], j))
      BY <3>1, LinkLoadUsed DEF L
    <3>3. /\ PathBandwidth(p, link) = link[e].bw /\ e \in DOMAIN link /\ link[e].bw \in Nat
      BY <1>3, <2>1, <3>2
    <3>4. link[e].bw < req.bw
      BY <1>2, <2>4, <3>3
    <3> QED
      BY <1>4, <3>3, <3>4
  <2> QED
    BY <2>2, <2>3, <2>4
<1> QED
  BY <1>1, <1>5, <1>6 DEF p

\* A view that is not respected has a cause in the placements it holds.
LEMMA ViewHasCause ==
    ASSUME InfraKnown, NEW mp, NEW apps \in SUBSET Apps, NEW need, NEW asked,
           DOMAIN need = nodes, \A n \in nodes : need[n] = NodeLoadOf(mp, apps, n),
           MappingsOK(mp),
           \A e \in DOMAIN asked : /\ asked[e] \in Asked
                                   /\ Bw(asked, e) <= LinkLoadOf(Net, mp, apps, e)
                                   /\ \E a \in apps : Origin(Net, a, mp[a], e, asked[e].lat),
           NotRespected(need, asked) # {}
    PROVE  CauseIn(Net, nodes, cpu, link, mp, apps)
<1>1. CASE Overloaded(need) # {}
  <2>1. PICK n \in nodes : cpu[n] < need[n]
    BY <1>1 DEF Overloaded
  <2>2. NodeLoadOf(mp, apps, n) \in Nat /\ cpu[n] \in Nat
    BY NodeLoadMore DEF InfraKnown
  <2>3. NodeLoadOf(mp, apps, n) > cpu[n]
    BY <2>1, <2>2
  <2> QED
    BY <2>3 DEF CauseIn
<1>2. CASE Unmet(asked) # {}
  <2>1. PICK e \in DOMAIN asked : ~Satisfied(e, asked[e])
    BY <1>2 DEF Unmet
  <2>2. /\ asked[e] \in Asked /\ asked[e].bw <= LinkLoadOf(Net, mp, apps, e)
        /\ \E a \in apps : Origin(Net, a, mp[a], e, asked[e].lat)
    BY DEF Bw
  <2> QED
    BY <2>1, <2>2, UnmetHasCause
<1> QED
  BY <1>1, <1>2 DEF NotRespected

\* The placements audited later do not remove a cause.
LEMMA CauseStays ==
    ASSUME InfraKnown, NEW mp, NEW mq, MappingsOK(mq), NEW bs \in SUBSET Apps,
           NEW apps \in SUBSET bs, \A b \in apps : mp[b] = mq[b],
           CauseIn(Net, nodes, cpu, link, mp, apps)
    PROVE  CauseIn(Net, nodes, cpu, link, mq, bs)
<1>1. ASSUME NEW n \in nodes, NodeLoadOf(mp, apps, n) > cpu[n]
      PROVE  NodeLoadOf(mq, bs, n) > cpu[n]
  <2>1. /\ NodeLoadOf(mp, apps, n) \in Nat /\ NodeLoadOf(mq, bs, n) \in Nat
        /\ NodeLoadOf(mp, apps, n) <= NodeLoadOf(mq, bs, n)
    BY NodeLoadMore
  <2> QED
    BY <1>1, <2>1 DEF InfraKnown
<1>2. ASSUME NEW e \in DOMAIN link, LinkLoadOf(Net, mp, apps, e) > link[e].bw
      PROVE  LinkLoadOf(Net, mq, bs, e) > link[e].bw
  <2>1. /\ LinkLoadOf(Net, mp, apps, e) \in Nat /\ LinkLoadOf(Net, mq, bs, e) \in Nat
        /\ LinkLoadOf(Net, mp, apps, e) <= LinkLoadOf(Net, mq, bs, e)
    BY LinkLoadMore
  <2> QED
    BY <1>2, <2>1 DEF InfraKnown
<1> QED
  BY <1>1, <1>2 DEF CauseIn

-----------------------------------------------------------------------------
(* The sums of the view, action by action.                                 *)

Sums ==
    /\ ViewTyped
    /\ NodeView
    /\ LinkView
    /\ LinkRest
    /\ Fits

LEMMA StartAuditSums == ASSUME Inv, StartAudit PROVE Sums'
<1>1. /\ phase' = "audit" /\ pending' = Apps
      /\ needed' = [n \in nodes |-> 0]
      /\ linkNeeded' = <<>>
      /\ residual' = [n \in nodes |-> cpu[n]]
      /\ linkResidual' = [e \in DOMAIN link |-> link[e].bw]
      /\ UNCHANGED <<nodes, up, cpu, link, mapping, toReset>>
  BY DEF StartAudit, FreshResidual, infrastructure
<1>2. Entered' = {} /\ Kept' = {}
  BY <1>1 DEF Entered, Kept, PlacedApps
<1>3. InfraKnown
  BY InfraFacts DEF Inv, Core, ViewTyped
<1>4. \A mp, n : NodeLoadOf(mp, {}, n) = 0
  BY NodeLoadNone
<1>5. \A net, mp, e : LinkLoadOf(net, mp, {}, e) = 0
  BY LinkLoadNone
<1>6. DOMAIN linkNeeded' = {}
  BY <1>1
<1>7. ViewTyped'
  BY <1>1, <1>3, <1>6 DEF ViewTyped, Inv, InfraKnown
<1>8. NodeView'
  <2>1. \A n \in nodes : cpu[n] = cpu[n] - 0
    BY <1>3 DEF InfraKnown
  <2> QED
    BY <1>1, <1>2, <1>4, <2>1 DEF NodeView
<1>9. LinkView'
  <2>1. \A e : Bw(linkNeeded', e) = 0
    BY <1>6 DEF Bw
  <2>2. \A e \in DOMAIN link' : LinkLoadOf(Net', mapping', Kept', e) <= Bw(linkNeeded', e)
    BY <1>2, <1>5, <2>1
  <2>3. AllRouted(Net', mapping', Kept')
    BY <1>2 DEF AllRouted
  <2> QED
    BY <1>6, <2>2, <2>3 DEF LinkView
<1>10. LinkRest'
  <2>1. \A e \in DOMAIN link : link[e].bw \in Int /\ link[e].bw <= link[e].bw - 0
    BY <1>3 DEF InfraKnown
  <2> QED
    BY <1>1, <1>2, <1>5, <2>1 DEF LinkRest
<1>11. Fits'
  BY <1>1 DEF Fits
<1> QED
  BY <1>7, <1>8, <1>9, <1>10, <1>11 DEF Sums

LEMMA AuditRaisesSums == ASSUME Inv, NEW a \in Apps, AuditRaises(a) PROVE Sums'
<1>1. phase' = "raised" /\ UNCHANGED <<link, needed, linkNeeded, residual>>
  BY DEF AuditRaises, infrastructure, view
<1>2. ViewTyped'
  BY <1>1 DEF Inv, ViewTyped
<1> QED
  BY <1>1, <1>2 DEF Sums, NodeView, LinkView, LinkRest, Fits

LEMMA EvolveSums == ASSUME Inv, Evolve PROVE Sums'
<1>1. phase' = "idle" /\ UNCHANGED <<needed, linkNeeded, residual>>
  BY DEF Evolve, view
<1>2. \A e \in DOMAIN link' : link'[e] = Links[e]
  <2> DEFINE Known == \A e \in DOMAIN link' : link'[e] = Links[e]
  <2>0. \A e \in DOMAIN link : link[e] = Links[e]
    BY DEF Inv, ViewTyped
  <2>1. ASSUME NEW n \in nodes, NEW c \in Capacities, Degrade(n, c) PROVE Known
    BY <2>0, <2>1 DEF Degrade
  <2>2. ASSUME NEW n \in nodes, KillOrRevive(n) PROVE Known
    BY <2>0, <2>2 DEF KillOrRevive
  <2>3. ASSUME NEW e \in DOMAIN link, CutLink(e) PROVE Known
    BY <2>0, <2>3 DEF CutLink
  <2>4. ASSUME NEW e \in DOMAIN Links, AddLink(e) PROVE Known
    BY <2>0, <2>4 DEF AddLink, With
  <2>5. ASSUME NEW n \in nodes, RemoveNode(n) PROVE Known
    BY <2>0, <2>5 DEF RemoveNode
  <2>6. ASSUME NEW n \in Nodes, AddNode(n) PROVE Known
    BY <2>0, <2>6 DEF AddNode
  <2> QED
    BY <2>1, <2>2, <2>3, <2>4, <2>5, <2>6 DEF Evolve
<1>3. ViewTyped'
  BY <1>1, <1>2 DEF Inv, ViewTyped
<1> QED
  BY <1>1, <1>3 DEF Sums, NodeView, LinkView, LinkRest, Fits

LEMMA EnactSums == ASSUME Inv, Enact PROVE Sums'
<1>1. /\ phase = "audit" /\ pending = {} /\ phase' = "enacted"
      /\ mapping' = [a \in Apps |-> IF toReset[a] THEN NoMapping ELSE mapping[a]]
      /\ UNCHANGED <<nodes, up, cpu, link, needed, linkNeeded, residual>>
  BY DEF Enact, infrastructure, view
<1>2. /\ PlacedApps' = Kept /\ Entered = PlacedApps /\ Kept \subseteq Entered /\ Entered \subseteq Apps
      /\ \A a \in Kept : mapping'[a] = mapping[a]
  BY <1>1 DEF PlacedApps, Entered, Kept
<1>3. InfraKnown /\ Net' = Net
  BY <1>1, InfraFacts DEF Inv, Core, ViewTyped, Net
<1>4. ViewTyped'
  BY <1>1 DEF Inv, ViewTyped
<1>5. MappingsOK(mapping)
  BY DEF MappingsOK, Inv, Core, StateOK
<1>6. Kept # {} => Bad \cap nodes = {}
  BY <1>1 DEF Inv, Core, AllMarked, Kept
<1>7. \A n \in nodes : NodeLoadOf(mapping', Kept, n) <= cpu[n]
  <2> SUFFICES ASSUME NEW n \in nodes PROVE NodeLoadOf(mapping', Kept, n) <= cpu[n]
    OBVIOUS
  <2>1. /\ NodeLoadOf(mapping', Kept, n) \in Nat /\ NodeLoadOf(mapping, Entered, n) \in Nat
        /\ NodeLoadOf(mapping', Kept, n) <= NodeLoadOf(mapping, Entered, n)
    BY <1>2, <1>5, NodeLoadMore
  <2>2. DOMAIN needed = nodes /\ needed[n] = NodeLoadOf(mapping, Entered, n)
    BY <1>1 DEF Inv, NodeView
  <2>3. CASE Kept = {}
    BY <1>3, <2>3, NodeLoadNone DEF InfraKnown
  <2>4. CASE Kept # {}
    <3>1. ~(cpu[n] < needed[n])
      BY <1>6, <2>2, <2>4 DEF Bad, NotRespected, Overloaded
    <3> QED
      BY <1>3, <2>1, <2>2, <3>1 DEF InfraKnown
  <2> QED
    BY <2>3, <2>4
<1>8. AllRouted(Net, mapping', Kept)
  BY <1>1, <1>2 DEF Inv, LinkView, AllRouted
<1>9. \A e \in DOMAIN link : LinkLoadOf(Net, mapping', Kept, e) <= link[e].bw
  <2> SUFFICES ASSUME NEW e \in DOMAIN link PROVE LinkLoadOf(Net, mapping', Kept, e) <= link[e].bw
    OBVIOUS
  <2> DEFINE L == LinkLoadOf(Net, mapping, Kept, e)
  <2>1. LinkLoadOf(Net, mapping', Kept, e) <= L /\ LinkLoadOf(Net, mapping', Kept, e) \in Nat /\ L \in Nat
    <3>1. Kept \in SUBSET Apps
      BY <1>2
    <3> QED
      BY <1>2, <3>1, LinkLoadMore
  <2>2. link[e].bw \in Nat /\ L <= Bw(linkNeeded, e)
    BY <1>1, <1>3 DEF Inv, LinkView, InfraKnown
  <2> HIDE DEF L
  <2>3. CASE L = 0
    BY <2>1, <2>2, <2>3
  <2>4. CASE L # 0
    <3>1. PICK a \in Kept : \E i \in Crossing(a, mapping[a]) : e \in Hops(RouteIn(Net, a, mapping[a], i))
      <4>1. Kept \in SUBSET Apps
        BY <1>2
      <4> QED
        BY <2>4, <4>1, LinkLoadUsed DEF L
    <3>2. PICK i \in Crossing(a, mapping[a]) : e \in Hops(RouteIn(Net, a, mapping[a], i))
      BY <3>1
    <3>3. RouteIn(Net, a, mapping[a], i) # NoPath
      BY <1>1 DEF Inv, LinkView, AllRouted, RoutedIn
    <3>4. /\ Path(e[1], e[2]) # NoPath /\ PathBandwidth(Path(e[1], e[2]), link) = link[e].bw
          /\ e[1] \in nodes
      BY <1>3, <3>2, <3>3, HopFacts DEF RouteIn
    <3>5. e \in DOMAIN linkNeeded /\ Bw(linkNeeded, e) = linkNeeded[e].bw
      <4>1. Bw(linkNeeded, e) # 0
        <5>1. \A b : L \in Nat /\ L # 0 /\ L <= b => b # 0
          OBVIOUS
        <5> QED
          BY <2>1, <2>2, <2>4, <5>1
      <4> QED
        BY <4>1 DEF Bw
    <3>6. Satisfied(e, linkNeeded[e])
      <4> SUFFICES ASSUME ~Satisfied(e, linkNeeded[e]) PROVE FALSE
        OBVIOUS
      <4>1. e[1] \in Unmet(linkNeeded)
        BY <3>5 DEF Unmet
      <4> QED
        BY <1>6, <3>1, <3>4, <4>1 DEF Bad, NotRespected
    <3>7. link[e].bw >= linkNeeded[e].bw
      BY <3>4, <3>6 DEF Satisfied
    <3>8. linkNeeded[e].bw \in Nat
      BY <3>5 DEF Inv, ViewTyped
    <3> QED
      BY <2>1, <2>2, <3>5, <3>7, <3>8
  <2> QED
    BY <2>3, <2>4
<1>10. Fits'
  BY <1>1, <1>2, <1>3, <1>7, <1>8, <1>9 DEF Fits
<1> QED
  BY <1>1, <1>4, <1>10 DEF Sums, NodeView, LinkView, LinkRest

LEMMA LinkLoadSame ==
    ASSUME NEW net, NEW mp, NEW mq, NEW apps, \A b \in apps : mp[b] = mq[b], NEW e
    PROVE  LinkLoadOf(net, mp, apps, e) = LinkLoadOf(net, mq, apps, e)
<1>1. [b \in apps |-> LoadOn(net, b, mp[b], e)] = [b \in apps |-> LoadOn(net, b, mq[b], e)]
  OBVIOUS
<1> QED
  BY <1>1 DEF LinkLoadOf

LEMMA NodeLoadSame ==
    ASSUME NEW mp, NEW mq, NEW apps, \A b \in apps : mp[b] = mq[b], NEW n
    PROVE  NodeLoadOf(mp, apps, n) = NodeLoadOf(mq, apps, n)
<1>1. [b \in apps |-> Load(mp[b], n)] = [b \in apps |-> Load(mq[b], n)]
  OBVIOUS
<1> QED
  BY <1>1 DEF NodeLoadOf

\* One turn of audit()'s loop, with the mapping m it finds for a.
Turn(a, m) ==
    /\ phase = "audit" /\ phase' = "audit" /\ a \in pending /\ pending' = pending \ {a}
    /\ UNCHANGED <<nodes, up, cpu, link>>
    /\ m \in Mapped(a)
    /\ DOMAIN mapping' = Apps /\ mapping'[a] = m
    /\ \A b \in Apps \ {a} : mapping'[b] = mapping[b]
    /\ IF m = NoMapping THEN UNCHANGED view ELSE Enter(a, m)
    /\ toReset' = [b \in Apps |->
          \/ b \in Users(usedBy', NotRespected(needed', linkNeeded'))
          \/ IF b = a THEN \/ m # NoMapping /\ ~FlowsOf(a, m).found
                           \/ toReset[a] /\ m # NoMapping
                      ELSE toReset[b]]

LEMMA AuditIsTurn ==
    ASSUME Inv, NEW a \in Apps, Audit(a) PROVE \E m : Turn(a, m)
<1>1. PICK m \in Mapped(a) :
         /\ mapping' = [mapping EXCEPT ![a] = m]
         /\ IF m = NoMapping THEN UNCHANGED view ELSE Enter(a, m)
         /\ toReset' = [b \in Apps |->
               \/ b \in Users(usedBy', NotRespected(needed', linkNeeded'))
               \/ IF b = a THEN \/ m # NoMapping /\ ~FlowsOf(a, m).found
                                \/ toReset[a] /\ m # NoMapping
                           ELSE toReset[b]]
  BY DEF Audit
<1>2. /\ phase = "audit" /\ phase' = "audit" /\ a \in pending /\ pending' = pending \ {a}
      /\ UNCHANGED <<nodes, up, cpu, link>>
  BY DEF Audit, infrastructure
<1>3. /\ DOMAIN mapping' = Apps /\ mapping'[a] = m
      /\ \A b \in Apps \ {a} : mapping'[b] = mapping[b]
  BY <1>1 DEF Inv, Core, StateOK
<1> QED
  BY <1>1, <1>2, <1>3 DEF Turn

\* What the turn leaves as it is, and who is in the view after it.
TurnKept(a, m) ==
    /\ InfraKnown /\ Net' = Net
    /\ MappingsOK(mapping) /\ MappingsOK(mapping')
    /\ Entered \subseteq Apps /\ a \notin Entered /\ Kept \subseteq Entered
    /\ \A b \in Entered : mapping'[b] = mapping[b]
    /\ Entered' = IF m = NoMapping THEN Entered ELSE Entered \cup {a}
    /\ Kept' \subseteq IF m = NoMapping THEN Kept ELSE Kept \cup {a}
    /\ m # NoMapping /\ a \in Kept' => FlowsOf(a, m).found

LEMMA TurnFacts ==
    ASSUME Inv, NEW a \in Apps, NEW m, Turn(a, m) PROVE TurnKept(a, m)
<1>1. /\ phase = "audit" /\ a \in pending /\ pending' = pending \ {a}
      /\ UNCHANGED <<nodes, up, cpu, link>>
      /\ m \in Mapped(a) /\ DOMAIN mapping' = Apps /\ mapping'[a] = m
      /\ \A b \in Apps \ {a} : mapping'[b] = mapping[b]
  BY DEF Turn
<1>2. InfraKnown /\ Net' = Net
  BY <1>1, InfraFacts DEF Inv, Core, ViewTyped, Net
<1>3. MappingsOK(mapping)
  BY DEF MappingsOK, Inv, Core, StateOK
<1>4. MappingsOK(mapping')
  <2>1. DOMAIN m \in {{}, ServicesOf(a)}
    BY <1>1, MappedIsComplete DEF Inv, Core
  <2> QED
    BY <1>1, <1>3, <2>1 DEF MappingsOK
<1>5. /\ Entered \subseteq Apps /\ a \notin Entered /\ Kept \subseteq Entered
      /\ \A b \in Entered : mapping'[b] = mapping[b]
      /\ Entered' = IF m = NoMapping THEN Entered ELSE Entered \cup {a}
  BY <1>1 DEF Entered, Kept, PlacedApps
<1>6. \A b \in Apps \ {a} : toReset[b] => toReset'[b]
  BY DEF Turn
<1>7. Kept' \subseteq IF m = NoMapping THEN Kept ELSE Kept \cup {a}
  BY <1>5, <1>6 DEF Kept
<1>8. m # NoMapping /\ ~FlowsOf(a, m).found => toReset'[a]
  BY DEF Turn
<1>9. m # NoMapping /\ a \in Kept' => FlowsOf(a, m).found
  BY <1>8 DEF Kept
<1> QED
  BY <1>2, <1>3, <1>4, <1>5, <1>7, <1>9 DEF TurnKept

LEMMA TurnNodes ==
    ASSUME Inv, NEW a \in Apps, NEW m, Turn(a, m), TurnKept(a, m)
    PROVE  /\ NodeView'
           /\ \A n \in DOMAIN needed' : needed'[n] \in Nat
           /\ \A n \in DOMAIN residual' : residual'[n] \in Int
<1>1. /\ phase = "audit" /\ nodes' = nodes /\ cpu' = cpu /\ mapping'[a] = m
  BY DEF Turn
<1>2. /\ DOMAIN needed = nodes /\ DOMAIN residual = nodes
      /\ \A n \in nodes : /\ needed[n] = NodeLoadOf(mapping, Entered, n)
                          /\ residual[n] = cpu[n] - NodeLoadOf(mapping, Entered, n)
  BY <1>1 DEF Inv, NodeView
<1>3. \A n \in nodes : cpu[n] \in Nat
  BY DEF TurnKept, InfraKnown
<1>4. ASSUME NEW n \in nodes
      PROVE  /\ NodeLoadOf(mapping, Entered, n) \in Nat
             /\ NodeLoadOf(mapping', Entered, n) = NodeLoadOf(mapping, Entered, n)
  <2>1. MappingsOK(mapping) /\ Entered \in SUBSET Apps /\ Entered \in SUBSET Entered
        /\ \A b \in Entered : mapping'[b] = mapping[b]
    BY DEF TurnKept
  <2>2. NodeLoadOf(mapping, Entered, n) \in Nat
    BY <2>1, NodeLoadMore
  <2> QED
    BY <2>1, <2>2, NodeLoadSame
<1>5. CASE m = NoMapping
  <2>1. UNCHANGED <<needed, residual>> /\ Entered' = Entered
    BY <1>5 DEF Turn, TurnKept, view
  <2> QED
    BY <1>1, <1>2, <1>4, <2>1 DEF NodeView, Inv, ViewTyped
<1>6. CASE m # NoMapping
  <2>1. /\ needed' = [n \in nodes |-> needed[n] + Load(m, n)]
        /\ residual' = [n \in nodes |-> residual[n] - Load(m, n)]
        /\ Entered' = Entered \cup {a}
    BY <1>6 DEF Turn, TurnKept, Enter
  <2>2. ASSUME NEW n \in nodes
        PROVE  /\ Load(m, n) \in Nat
               /\ NodeLoadOf(mapping', Entered', n) = NodeLoadOf(mapping, Entered, n) + Load(m, n)
    <3>1. NodeLoadOf(mapping', Entered \cup {a}, n) = NodeLoadOf(mapping, Entered, n) + Load(mapping'[a], n)
      BY NodeLoadGrow DEF TurnKept
    <3>2. Load(m, n) \in Nat
      <4>1. DOMAIN m \in {{}, ServicesOf(a)}
        BY <1>1 DEF TurnKept, MappingsOK
      <4> QED
        BY <4>1, LoadNat
    <3> QED
      BY <1>1, <2>1, <3>1, <3>2
  <2>3. ASSUME NEW n \in nodes
        PROVE  /\ needed'[n] = NodeLoadOf(mapping', Entered', n) /\ needed'[n] \in Nat
               /\ residual'[n] = cpu[n] - NodeLoadOf(mapping', Entered', n) /\ residual'[n] \in Int
    <3>1. needed'[n] = needed[n] + Load(m, n) /\ residual'[n] = residual[n] - Load(m, n)
      BY <2>1
    <3> QED
      BY <1>2, <1>3, <1>4, <2>2, <3>1
  <2> QED
    BY <1>1, <2>1, <2>3 DEF NodeView
<1> QED
  BY <1>5, <1>6

\* What the flows of a, of the mapping m, make of the links in the view.
LEMMA TurnFlows ==
    ASSUME Inv, NEW a \in Apps, NEW m, Turn(a, m), m # NoMapping
    PROVE  /\ linkNeeded' = FlowsOf(a, m).asked /\ linkResidual' = FlowsOf(a, m).left
           /\ DOMAIN linkResidual' = DOMAIN link
           /\ \A e \in DOMAIN link : linkResidual'[e] \in Int
           /\ \A e \in DOMAIN linkNeeded' : linkNeeded'[e] \in Asked
           /\ \A e : /\ Bw(linkNeeded, e) \in Nat
                     /\ Bw(linkNeeded, e) <= Bw(linkNeeded', e)
                     /\ Bw(linkNeeded', e) <= Bw(linkNeeded, e) + LoadOn(Net, a, m, e)
           /\ FlowsOf(a, m).found <=> RoutedIn(Net, a, m)
           /\ FlowsOf(a, m).found =>
                /\ \A e : Bw(linkNeeded', e) = Bw(linkNeeded, e) + LoadOn(Net, a, m, e)
                /\ \A e \in DOMAIN link :
                     linkResidual'[e] <= linkResidual[e] - LoadOn(Net, a, m, e)
           /\ \A e \in DOMAIN linkNeeded' :
                \/ e \in DOMAIN linkNeeded /\ linkNeeded'[e].lat = linkNeeded[e].lat
                \/ Origin(Net, a, m, e, linkNeeded'[e].lat)
<1> DEFINE r == FlowsOf(a, m)
<1>1. linkNeeded' = r.asked /\ linkResidual' = r.left /\ phase = "audit"
  BY DEF Turn, Enter
<1>2. /\ \A e \in DOMAIN linkNeeded : linkNeeded[e] \in Asked
      /\ DOMAIN linkResidual = DOMAIN link
      /\ \A e \in DOMAIN linkResidual : linkResidual[e] \in Int
  BY <1>1 DEF Inv, ViewTyped, LinkRest, Asked
<1>3. After(a, m, Len(Flows[a]), r)
  BY <1>2, FlowsFacts
<1>4. \A e : Upto(a, m, e, Len(Flows[a])) = LoadOn(Net, a, m, e)
  BY UptoAll
<1>5. \A i \in Crossing(a, m) : i <= Len(Flows[a])
  <2>1. Len(Flows[a]) \in Nat /\ DOMAIN Flows[a] = 1..Len(Flows[a])
    BY FlowsTyped
  <2> QED
    BY <2>1 DEF Crossing
<1>6. \A e : Bw(linkNeeded, e) \in Nat
  BY <1>2 DEF Bw, Asked
<1> HIDE DEF r
<1>7. r.found <=> RoutedIn(Net, a, m)
  BY <1>3, <1>5 DEF After, RoutedIn
<1>8. /\ \A e : /\ Bw(linkNeeded, e) <= Bw(r.asked, e)
                /\ Bw(r.asked, e) <= Bw(linkNeeded, e) + LoadOn(Net, a, m, e)
      /\ r.found =>
           /\ \A e : Bw(r.asked, e) = Bw(linkNeeded, e) + LoadOn(Net, a, m, e)
           /\ \A e \in DOMAIN link : r.left[e] <= linkResidual[e] - LoadOn(Net, a, m, e)
  BY <1>2, <1>3, <1>4 DEF After
<1>9. /\ \A e \in DOMAIN r.asked :
           /\ r.asked[e] \in Asked
           /\ \/ e \in DOMAIN linkNeeded /\ r.asked[e].lat = linkNeeded[e].lat
              \/ Origin(Net, a, m, e, r.asked[e].lat)
      /\ DOMAIN r.left = DOMAIN link /\ \A e \in DOMAIN link : r.left[e] \in Int
  BY <1>2, <1>3 DEF After
<1> QED
  BY <1>1, <1>6, <1>7, <1>8, <1>9 DEF r

LEMMA TurnLinks ==
    ASSUME Inv, NEW a \in Apps, NEW m, Turn(a, m), TurnKept(a, m)
    PROVE  /\ LinkView' /\ LinkRest'
           /\ \A e \in DOMAIN linkNeeded' : linkNeeded'[e] \in Asked
<1> DEFINE all(e)  == LinkLoadOf(Net, mapping, Entered, e)
           kept(e) == LinkLoadOf(Net, mapping, Kept, e)
<1>1. /\ phase = "audit" /\ phase' = "audit" /\ link' = link /\ mapping'[a] = m /\ Net' = Net
      /\ Entered \in SUBSET Apps /\ Kept \in SUBSET Entered /\ a \notin Entered
      /\ \A b \in Entered : mapping'[b] = mapping[b]
  BY DEF Turn, TurnKept
<1>2. /\ \A e \in DOMAIN linkNeeded :
           /\ Bw(linkNeeded, e) <= all(e)
           /\ \E b \in Entered : Origin(Net, b, mapping[b], e, linkNeeded[e].lat)
      /\ \A e \in DOMAIN link : kept(e) <= Bw(linkNeeded, e)
      /\ AllRouted(Net, mapping, Kept)
  BY <1>1 DEF Inv, LinkView
<1>3. /\ DOMAIN linkResidual = DOMAIN link
      /\ \A e \in DOMAIN link : linkResidual[e] \in Int
      /\ AllRouted(Net, mapping, Entered) =>
           \A e \in DOMAIN link : linkResidual[e] <= link[e].bw - all(e)
  BY <1>1 DEF Inv, LinkRest
<1>4. \A e \in DOMAIN link : link[e].bw \in Nat
  BY DEF TurnKept, InfraKnown
<1>5. ASSUME NEW e
      PROVE  /\ all(e) \in Nat /\ kept(e) \in Nat
             /\ LinkLoadOf(Net, mapping', Entered, e) = all(e)
  <2>1. LinkLoadOf(Net, mapping', Entered, e) = all(e)
    BY <1>1, LinkLoadSame
  <2>2. all(e) \in Nat
    <3>1. Entered \in SUBSET Entered
      OBVIOUS
    <3> QED
      BY <1>1, <3>1, LinkLoadMore
  <2>3. kept(e) \in Nat
    BY <1>1, LinkLoadMore
  <2> QED
    BY <2>1, <2>2, <2>3
<1>6. AllRouted(Net, mapping', Entered) <=> AllRouted(Net, mapping, Entered)
  BY <1>1 DEF AllRouted
<1>7. CASE m = NoMapping
  <2>1. UNCHANGED <<linkNeeded, linkResidual>> /\ Entered' = Entered /\ Kept' \in SUBSET Kept
    BY <1>7 DEF Turn, TurnKept, view
  <2>2. ASSUME NEW e \in DOMAIN link PROVE LinkLoadOf(Net, mapping', Kept', e) <= Bw(linkNeeded, e)
    <3>1. /\ LinkLoadOf(Net, mapping', Kept', e) \in Nat
          /\ LinkLoadOf(Net, mapping', Kept', e) <= kept(e)
      BY <1>1, <2>1, LinkLoadMore
    <3>2. Bw(linkNeeded, e) \in Nat
      BY DEF Inv, ViewTyped, Bw
    <3> HIDE DEF kept
    <3> QED
      BY <1>2, <1>5, <3>1, <3>2
  <2>3. AllRouted(Net, mapping', Kept')
    BY <1>1, <1>2, <2>1 DEF AllRouted
  <2>4. \A e \in DOMAIN linkNeeded :
           /\ Bw(linkNeeded, e) <= LinkLoadOf(Net, mapping', Entered, e)
           /\ \E b \in Entered : Origin(Net, b, mapping'[b], e, linkNeeded[e].lat)
    BY <1>1, <1>2, <1>5
  <2>5. LinkView'
    BY <1>1, <2>1, <2>2, <2>3, <2>4 DEF LinkView
  <2>6. LinkRest'
    BY <1>1, <1>3, <1>5, <1>6, <2>1 DEF LinkRest
  <2> QED
    BY <2>1, <2>5, <2>6 DEF Inv, ViewTyped, Asked
<1>8. CASE m # NoMapping
  <2>1. Entered' = Entered \cup {a} /\ Kept' \subseteq Kept \cup {a}
    BY <1>8 DEF TurnKept
  <2>2. /\ DOMAIN linkResidual' = DOMAIN link
        /\ \A e \in DOMAIN link : linkResidual'[e] \in Int
        /\ \A e \in DOMAIN linkNeeded' : linkNeeded'[e] \in Asked
    BY <1>8, TurnFlows
  <2>3. FlowsOf(a, m).found <=> RoutedIn(Net, a, m)
    BY <1>8, TurnFlows
  <2>4. ASSUME NEW e
        PROVE  /\ LoadOn(Net, a, m, e) \in Nat
               /\ LinkLoadOf(Net, mapping', Entered', e) = all(e) + LoadOn(Net, a, m, e)
    <3>1. LinkLoadOf(Net, mapping', Entered \cup {a}, e) = all(e) + LoadOn(Net, a, mapping'[a], e)
      BY <1>1, LinkLoadGrow
    <3> QED
      BY <1>1, <2>1, <3>1, LoadOnNat
  <2>5. ASSUME NEW e \in DOMAIN linkNeeded'
        PROVE  Bw(linkNeeded', e) <= LinkLoadOf(Net, mapping', Entered', e)
    <3>1. /\ Bw(linkNeeded, e) \in Nat /\ Bw(linkNeeded', e) \in Nat
          /\ Bw(linkNeeded', e) <= Bw(linkNeeded, e) + LoadOn(Net, a, m, e)
      <4>1. Bw(linkNeeded, e) \in Nat /\ Bw(linkNeeded', e) <= Bw(linkNeeded, e) + LoadOn(Net, a, m, e)
        BY <1>8, TurnFlows
      <4> QED
        BY <2>2, <4>1 DEF Bw, Asked
    <3>2. Bw(linkNeeded, e) <= all(e)
      <4>1. CASE e \in DOMAIN linkNeeded
        BY <1>2, <4>1
      <4>2. CASE e \notin DOMAIN linkNeeded
        <5>1. Bw(linkNeeded, e) = 0
          BY <4>2 DEF Bw
        <5> HIDE DEF all
        <5> QED
          BY <1>5, <5>1
      <4> QED
        BY <4>1, <4>2
    <3> HIDE DEF all
    <3> QED
      BY <1>5, <2>4, <3>1, <3>2
  <2>6. ASSUME NEW e \in DOMAIN linkNeeded'
        PROVE  \E b \in Entered' : Origin(Net, b, mapping'[b], e, linkNeeded'[e].lat)
    <3>1. CASE e \in DOMAIN linkNeeded /\ linkNeeded'[e].lat = linkNeeded[e].lat
      <4>1. PICK b \in Entered : Origin(Net, b, mapping[b], e, linkNeeded[e].lat)
        BY <1>2, <3>1
      <4>2. b \in Entered' /\ mapping'[b] = mapping[b]
        BY <1>1, <2>1
      <4> QED
        BY <3>1, <4>1, <4>2
    <3>2. CASE Origin(Net, a, m, e, linkNeeded'[e].lat)
      BY <1>1, <2>1, <3>2
    <3> QED
      BY <1>8, <3>1, <3>2, TurnFlows
  <2>7. ASSUME NEW e \in DOMAIN link
        PROVE  LinkLoadOf(Net, mapping', Kept', e) <= Bw(linkNeeded', e)
    <3> DEFINE new == LinkLoadOf(Net, mapping', Kept', e)
    <3>1. /\ Bw(linkNeeded, e) \in Nat /\ Bw(linkNeeded, e) <= Bw(linkNeeded', e)
          /\ Bw(linkNeeded', e) <= Bw(linkNeeded, e) + LoadOn(Net, a, m, e)
          /\ FlowsOf(a, m).found => Bw(linkNeeded', e) = Bw(linkNeeded, e) + LoadOn(Net, a, m, e)
      BY <1>8, TurnFlows
    <3>2. Bw(linkNeeded', e) \in Nat
      BY <2>2, <3>1 DEF Bw, Asked
    <3>3. kept(e) <= Bw(linkNeeded, e)
      BY <1>2
    <3>4. CASE a \in Kept'
      <4>1. FlowsOf(a, m).found
        BY <1>8, <3>4 DEF TurnKept
      <4>2. LinkLoadOf(Net, mapping', Kept \cup {a}, e) = kept(e) + LoadOn(Net, a, mapping'[a], e)
        <5>1. Kept \in SUBSET Apps /\ a \notin Kept /\ \A b \in Kept : mapping'[b] = mapping[b]
          BY <1>1
        <5> QED
          BY <5>1, LinkLoadGrow
      <4>3. new <= LinkLoadOf(Net, mapping', Kept \cup {a}, e) /\ new \in Nat
        <5>1. Kept \cup {a} \in SUBSET Apps /\ Kept' \in SUBSET (Kept \cup {a})
          BY <1>1, <2>1
        <5> QED
          BY <5>1, LinkLoadMore
      <4> HIDE DEF new, kept
      <4> QED
        BY <1>1, <1>5, <2>4, <3>1, <3>2, <3>3, <4>1, <4>2, <4>3 DEF new
    <3>5. CASE a \notin Kept'
      <4>1. new <= kept(e) /\ new \in Nat
        <5>1. Kept \in SUBSET Apps /\ Kept' \in SUBSET Kept /\ \A b \in Kept' : mapping'[b] = mapping[b]
          BY <1>1, <2>1, <3>5
        <5> QED
          BY <5>1, LinkLoadMore
      <4> HIDE DEF new, kept
      <4> QED
        BY <1>5, <3>1, <3>2, <3>3, <4>1 DEF new
    <3> QED
      BY <3>4, <3>5
  <2>8. AllRouted(Net, mapping', Kept')
    <3> SUFFICES ASSUME NEW b \in Kept' PROVE RoutedIn(Net, b, mapping'[b])
      BY DEF AllRouted
    <3>1. CASE b = a
      BY <1>1, <1>8, <2>3, <3>1 DEF TurnKept
    <3>2. CASE b # a
      BY <1>1, <1>2, <2>1, <3>2 DEF AllRouted
    <3> QED
      BY <3>1, <3>2
  <2>9. LinkView'
    BY <1>1, <2>5, <2>6, <2>7, <2>8 DEF LinkView
  <2>10. ASSUME AllRouted(Net, mapping', Entered'), NEW e \in DOMAIN link
         PROVE  linkResidual'[e] <= link[e].bw - LinkLoadOf(Net, mapping', Entered', e)
    <3>1. RoutedIn(Net, a, m) /\ AllRouted(Net, mapping, Entered)
      BY <1>1, <1>6, <2>1, <2>10 DEF AllRouted
    <3>2. linkResidual'[e] \in Int /\ linkResidual'[e] <= linkResidual[e] - LoadOn(Net, a, m, e)
      BY <1>8, <2>2, <2>3, <3>1, TurnFlows
    <3>3. linkResidual[e] \in Int /\ linkResidual[e] <= link[e].bw - all(e)
      BY <1>3, <3>1
    <3> HIDE DEF all
    <3> QED
      BY <1>4, <1>5, <2>4, <3>2, <3>3
  <2>11. LinkRest'
    BY <1>1, <2>2, <2>10 DEF LinkRest
  <2> QED
    BY <2>2, <2>9, <2>11
<1> QED
  BY <1>7, <1>8

\* The marks a turn sets have a cause among the placements in the view.
LEMMA TurnMarks ==
    ASSUME Inv, NEW a \in Apps, NEW m, Turn(a, m), TurnKept(a, m), NodeView', LinkView',
           \A e \in DOMAIN linkNeeded' : linkNeeded'[e] \in Asked,
           NEW b \in Apps, toReset'[b], ~toReset[b]
    PROVE  CauseIn(Net', nodes', cpu', link', mapping', Entered')
<1> DEFINE C == CauseIn(Net, nodes, cpu, link, mapping', Entered')
<1>1. /\ phase' = "audit"
      /\ UNCHANGED <<nodes, cpu, link>> /\ Net' = Net /\ mapping'[a] = m
      /\ InfraKnown /\ MappingsOK(mapping') /\ DOMAIN mapping' = Apps
      /\ pending' = pending \ {a}
  BY DEF Turn, TurnKept
<1>2. ASSUME NotRespected(needed', linkNeeded') # {} PROVE C
  <2>1. Entered' \in SUBSET Apps
    BY <1>1 DEF Entered, PlacedApps
  <2>2. /\ DOMAIN needed' = nodes /\ \A n \in nodes : needed'[n] = NodeLoadOf(mapping', Entered', n)
    BY <1>1 DEF NodeView
  <2>3. \A e \in DOMAIN linkNeeded' :
          /\ linkNeeded'[e] \in Asked
          /\ Bw(linkNeeded', e) <= LinkLoadOf(Net, mapping', Entered', e)
          /\ \E c \in Entered' : Origin(Net, c, mapping'[c], e, linkNeeded'[e].lat)
    BY <1>1 DEF LinkView
  <2> QED
    BY <1>1, <1>2, <2>1, <2>2, <2>3, ViewHasCause
<1>3. ASSUME m # NoMapping, ~FlowsOf(a, m).found PROVE C
  <2>1. PICK i \in Crossing(a, m) : RouteIn(Net, a, m, i) = NoPath
    BY <1>3, TurnFlows DEF RoutedIn
  <2>2. a \in Entered'
    BY <1>1, <1>3 DEF Entered, PlacedApps
  <2> QED
    BY <1>1, <2>1, <2>2 DEF CauseIn
<1>4. \/ b \in Users(usedBy', NotRespected(needed', linkNeeded'))
      \/ m # NoMapping /\ ~FlowsOf(a, m).found
  BY DEF Turn
<1>5. ASSUME b \in Users(usedBy', NotRespected(needed', linkNeeded'))
      PROVE  NotRespected(needed', linkNeeded') # {}
  BY <1>5 DEF Users
<1> QED
  BY <1>1, <1>2, <1>3, <1>4, <1>5

LEMMA AuditSums == ASSUME Inv, NEW a \in Apps, Audit(a) PROVE Sums'
<1>1. PICK m : Turn(a, m)
  BY AuditIsTurn
<1>2. TurnKept(a, m)
  BY <1>1, TurnFacts
<1>3. /\ NodeView'
      /\ \A n \in DOMAIN needed' : needed'[n] \in Nat
      /\ \A n \in DOMAIN residual' : residual'[n] \in Int
  BY <1>1, <1>2, TurnNodes
<1>4. LinkView' /\ LinkRest' /\ \A e \in DOMAIN linkNeeded' : linkNeeded'[e] \in Asked
  BY <1>1, <1>2, TurnLinks
<1>6. link' = link /\ phase' = "audit"
  BY <1>1 DEF Turn
<1>7. ViewTyped'
  BY <1>3, <1>4, <1>6 DEF ViewTyped, Inv, Asked
<1> QED
  BY <1>3, <1>4, <1>6, <1>7 DEF Sums, Fits

-----------------------------------------------------------------------------
(* The theorems.                                                           *)

\* The part of the invariant that does not depend on the sums: during an audit
\* every placement in the view is a user of every node, so that one node too few
\* marks them all.
LEMMA InitCore == ASSUME Init PROVE Core
<1>1. DOMAIN NoMapping = {}
  BY DEF NoMapping
<1>2. cpu \in [Nodes -> Nat]
  BY PlacementAssumption DEF Init, PlacementAssumption
<1>3. changes \in 0..MaxChanges
  BY PlacementAssumption DEF Init, PlacementAssumption
<1>4. StateOK
  BY <1>1, <1>2, <1>3 DEF Init, StateOK, Phases
<1> QED
  BY <1>4 DEF Init, Core, UsersKnown, AllMarked, ViewRespected

LEMMA NextCore == ASSUME Core, [Next]_vars PROVE Core'
<1>1. CASE StartAudit
  BY <1>1, StartAuditCore
<1>2. ASSUME NEW a \in Apps, Audit(a) \/ AuditRaises(a) PROVE Core'
  BY <1>2, AuditCore, AuditRaisesCore
<1>3. CASE Enact
  BY <1>3, EnactCore
<1>4. CASE Evolve
  BY <1>4, EvolveCore
<1>5. CASE UNCHANGED vars
  <2>1. UNCHANGED <<strategy, infrastructure, mapping, toReset, view, pending, phase, changes>>
    BY <1>5 DEF vars
  <2>2. UNCHANGED <<nodes, up, cpu, link, needed, linkNeeded, usedBy>>
    BY <2>1 DEF infrastructure, view
  <2>3. Bad' = Bad /\ NotRespected(needed, linkNeeded)' = Bad
    BY <2>1, <2>2, ValidateFrame DEF Bad
  <2>4. PlacedApps' = PlacedApps /\ Entered' = Entered
    BY <2>1 DEF PlacedApps, Entered
  <2>5. StateOK' /\ UsersKnown' /\ AllMarked'
    BY <2>1, <2>2, <2>3, <2>4 DEF Core, StateOK, UsersKnown, AllMarked
  <2>6. ViewRespected'
    BY <2>1, <2>2, <2>3, <2>4 DEF Core, ViewRespected, Bad
  <2> QED
    BY <2>5, <2>6 DEF Core
<1> QED
  BY <1>1, <1>2, <1>3, <1>4, <1>5 DEF Next

\* The invariant the sums follow from: in an audit the view holds the loads of the
\* placements entered so far, exactly on the nodes; on the links between those of
\* the placements that are kept and those of all.
THEOREM Invariance == Spec => []Inv
<1>1. Init => Inv
  <2> SUFFICES ASSUME Init PROVE Inv
    OBVIOUS
  <2>1. Core
    BY InitCore
  <2>2. /\ \A n \in Nodes : cpu[n] \in Int
        /\ DOMAIN linkNeeded = {}
    <3>1. cpu \in [Nodes -> Nat]
      BY PlacementAssumption DEF Init, PlacementAssumption
    <3>2. linkNeeded = <<>>
      BY DEF Init
    <3> QED
      BY <3>1, <3>2
  <2>3. ViewTyped
    BY <2>2 DEF Init, ViewTyped
  <2> QED
    BY <2>1, <2>3 DEF Init, Inv, NodeView, LinkView, LinkRest, Fits
<1>2. Inv /\ [Next]_vars => Inv'
  <2> SUFFICES ASSUME Inv, [Next]_vars PROVE Inv'
    OBVIOUS
  <2>1. Core'
    BY NextCore DEF Inv
  <2>2. Sums'
    <3>1. CASE StartAudit
      BY <3>1, StartAuditSums
    <3>2. ASSUME NEW a \in Apps, Audit(a) \/ AuditRaises(a) PROVE Sums'
      BY <3>2, AuditSums, AuditRaisesSums
    <3>3. CASE Enact
      BY <3>3, EnactSums
    <3>4. CASE Evolve
      BY <3>4, EvolveSums
    <3>5. CASE UNCHANGED vars
      <4>1. UNCHANGED <<nodes, up, cpu, link, mapping, toReset, needed, linkNeeded,
                        residual, linkResidual, pending, phase>>
        BY <3>5 DEF vars, infrastructure, view
      <4>2. /\ PlacedApps' = PlacedApps /\ Entered' = Entered /\ Kept' = Kept /\ Net' = Net
        BY <4>1 DEF PlacedApps, Entered, Kept, Net
      <4> QED
        BY <4>1, <4>2 DEF Inv, Sums, ViewTyped, NodeView, LinkView, LinkRest, Fits
    <3> QED
      BY <3>1, <3>2, <3>3, <3>4, <3>5 DEF Next
  <2> QED
    BY <2>1, <2>2 DEF Inv, Sums
<1> QED
  BY <1>1, <1>2, PTL DEF Spec

\* The properties of Placement in terms of the definitions above.
LEMMA LinkLoadIs ==
    ASSUME NEW apps, NEW e PROVE LinkLoad(apps, e) = LinkLoadOf(Net, mapping, apps, e)
BY DEF LinkLoad, FlowLoad, LinkLoadOf, LoadOn, Over, Bandwidths, Route, Path, RouteIn, Net

LEMMA RoutedIs ==
    ASSUME NEW apps
    PROVE  /\ \A x \in Routed(apps) : /\ x[1] \in apps /\ x[2] \in Crossing(x[1], mapping[x[1]])
                                      /\ FlowPath(x) = RouteIn(Net, x[1], mapping[x[1]], x[2])
           /\ \A a \in apps : \A i \in Crossing(a, mapping[a]) :
                /\ <<a, i>> \in Routed(apps)
                /\ FlowPath(<<a, i>>) = RouteIn(Net, a, mapping[a], i)
BY RouteIs DEF Routed, FlowPath

LEMMA CauseIs ==
    ASSUME NEW apps, CauseIn(Net, nodes, cpu, link, mapping, apps) PROVE Cause(apps)
<1>1. CASE \E n \in nodes : NodeLoadOf(mapping, apps, n) > cpu[n]
  BY <1>1, NodeLoadIs DEF Cause
<1>2. CASE \E e \in DOMAIN link : LinkLoadOf(Net, mapping, apps, e) > link[e].bw
  BY <1>2, LinkLoadIs DEF Cause
<1>3. ASSUME NEW b \in apps, NEW i \in Crossing(b, mapping[b]),
             \/ RouteIn(Net, b, mapping[b], i) = NoPath
             \/ PathLatency(RouteIn(Net, b, mapping[b], i), link) > Flows[b][i].lat
      PROVE  Cause(apps)
  <2>1. <<b, i>> \in Routed(apps) /\ FlowPath(<<b, i>>) = RouteIn(Net, b, mapping[b], i)
    BY RoutedIs
  <2>2. <<b, i>>[1] = b /\ <<b, i>>[2] = i
    OBVIOUS
  <2> QED
    BY <1>3, <2>1, <2>2 DEF Cause
<1> QED
  BY <1>1, <1>2, <1>3 DEF CauseIn

\* Every variable has its type, the sums of the view included.
THEOREM TypeCorrect == Spec => []TypeOK
<1>1. Inv => TypeOK
  BY DEF Inv, Core, ViewTyped, TypeOK
<1> QED
  BY <1>1, Invariance, PTL

\* After enact() no node hosts more than its cpu: the view holds at least what the
\* placements that are kept require, and one node too few marks them all.
THEOREM PlacementsFit == Spec => []NoOverload
<1>1. Inv => NoOverload
  BY NodeLoadIs DEF Inv, Fits, NoOverload
<1> QED
  BY <1>1, Invariance, PTL

\* After enact() every flow of a placed application has a path and no link
\* carries more than its bandwidth: a hop of a shortest path is found again as
\* the path between its ends, so that validate() tests the link itself.
THEOREM PlacedFlowsAreCarried == Spec => []LinksCarry
<1>1. Inv => LinksCarry
  <2> SUFFICES ASSUME Inv, phase = "enacted"
               PROVE  /\ \A x \in Routed(PlacedApps) : FlowPath(x) # NoPath
                      /\ \A e \in DOMAIN link : LinkLoad(PlacedApps, e) <= link[e].bw
    BY DEF LinksCarry
  <2>1. /\ AllRouted(Net, mapping, PlacedApps)
        /\ \A e \in DOMAIN link : LinkLoadOf(Net, mapping, PlacedApps, e) <= link[e].bw
    BY DEF Inv, Fits
  <2>2. ASSUME NEW x \in Routed(PlacedApps) PROVE FlowPath(x) # NoPath
    BY <2>1, RoutedIs DEF AllRouted, RoutedIn
  <2> QED
    BY <2>1, <2>2, LinkLoadIs
<1> QED
  BY <1>1, Invariance, PTL

\* In an audit a strategy is offered exactly the rest of each node and at most
\* that of each link.
THEOREM RestIsSound == Spec => []ResidualSound
<1>1. Inv => ResidualSound
  <2> SUFFICES ASSUME Inv, phase = "audit"
               PROVE  /\ \A n \in nodes : residual[n] = cpu[n] - NodeLoad(Entered, n)
                      /\ (\A x \in Routed(Entered) : FlowPath(x) # NoPath) =>
                           \A e \in DOMAIN link :
                               linkResidual[e] <= link[e].bw - LinkLoad(Entered, e)
    BY DEF ResidualSound, Entered
  <2>1. \A n \in nodes : residual[n] = cpu[n] - NodeLoad(Entered, n)
    BY NodeLoadIs DEF Inv, NodeView
  <2>2. (\A x \in Routed(Entered) : FlowPath(x) # NoPath) => AllRouted(Net, mapping, Entered)
    <3> SUFFICES ASSUME \A x \in Routed(Entered) : FlowPath(x) # NoPath,
                        NEW a \in Entered, NEW i \in Crossing(a, mapping[a])
                 PROVE  RouteIn(Net, a, mapping[a], i) # NoPath
      BY DEF AllRouted, RoutedIn
    <3>1. /\ <<a, i>> \in Routed(Entered)
          /\ FlowPath(<<a, i>>) = RouteIn(Net, a, mapping[a], i)
      BY RoutedIs
    <3> QED
      BY <3>1
  <2>3. AllRouted(Net, mapping, Entered) =>
          \A e \in DOMAIN link :
              linkResidual[e] <= link[e].bw - LinkLoadOf(Net, mapping, Entered, e)
    BY DEF Inv, LinkRest
  <2> QED
    BY <2>1, <2>2, <2>3, LinkLoadIs
<1> QED
  BY <1>1, Invariance, PTL

\* A turn of audit() marks a placement only for a cause among those it has come
\* to: they ask for more than a node or a link has, or a flow has no path or too
\* slow a one.
THEOREM MarksHaveCauses == Spec => MarkHasCause
<1> DEFINE Blamed == \A a \in Apps : toReset'[a] /\ ~toReset[a] => Cause(PlacedApps \ pending)'
<1> DEFINE Found == CauseIn(Net, nodes, cpu, link, mapping, Entered) => Cause(PlacedApps \ pending)
<1>a. Found
  BY CauseIs DEF Entered
<1>b. Found'
  BY <1>a, PTL
<1>1. Inv /\ Inv' /\ [Next]_vars => [Blamed]_vars
  <2> SUFFICES ASSUME Inv, Inv', Next, NEW b \in Apps, toReset'[b], ~toReset[b]
               PROVE  Cause(PlacedApps \ pending)'
    OBVIOUS
  <2>1. PICK a \in Apps : Audit(a)
    BY DEF Next, StartAudit, AuditRaises, Enact, MarksCleared, Evolve
  <2>2. PICK m : Turn(a, m)
    BY <2>1, AuditIsTurn
  <2>3. TurnKept(a, m)
    BY <2>2, TurnFacts
  <2>4. NodeView' /\ LinkView' /\ \A e \in DOMAIN linkNeeded' : linkNeeded'[e] \in Asked
    BY DEF Inv, ViewTyped, Asked
  <2>5. CauseIn(Net, nodes, cpu, link, mapping, Entered)'
    BY <2>2, <2>3, <2>4, TurnMarks
  <2> QED
    BY <1>b, <2>5
<1>2. Spec => [][Blamed]_vars
  BY <1>1, Invariance, PTL DEF Spec
<1> QED
  BY <1>2 DEF MarkHasCause

\* What the manager decides by has its type, no placement is partial, and
\* enact() leaves no mark.
THEOREM StateCorrect == Spec => []StateOK
<1>1. Inv => StateOK
  BY DEF Inv, Core
<1> QED
  BY <1>1, Invariance, PTL

\* After enact() the view is respected or nothing is placed: audit() marks every
\* placement in the view, not only those of the node that is short.
THEOREM RespectedOrEmpty == Spec => []ViewRespected
<1>1. Inv => ViewRespected
  BY DEF Inv, Core
<1> QED
  BY <1>1, Invariance, PTL
=============================================================================
