------------------------------- MODULE Network ------------------------------
(***************************************************************************)
(* eclypse/network: packets that travel hop by hop over links with         *)
(* drop-tail queues.                                                       *)
(*                                                                         *)
(* A step triggers PacketGenerationEvent, which draws the packets of each  *)
(* application, and then RoutingEvent, which runs once for each: it injects*)
(* that application's packets and moves every packet in the network by one *)
(* hop.  The two are queued: when steps triggered by hand nest in their    *)
(* cascades, several generations come before the first routing.  Between   *)
(* two events links and nodes may fail.                                    *)
(*                                                                         *)
(* A queue does not hold its packets back: it only measures delay.  So a   *)
(* queue is kept as the sizes of its packets.  A deque may be shared: an   *)
(* edge added as symmetric puts one deque under both directions.  It is    *)
(* named by the set of links it was made for.                              *)
(***************************************************************************)
EXTENDS Routing, Lists

CONSTANTS
    Hosts, Routers,  \* the nodes, in the order they were added
    Links,           \* the links there may be: [cost, rate, max]
    Symmetric,       \* the links added in both directions at once
    Flows,           \* the edges of all applications: [app, from, to, size]
    AppOrder,        \* the order the applications are routed in
    Placements,      \* the mappings of services to nodes that may be enacted
    MaxBurst,        \* bound: packets of a flow in one step
    MaxPackets,      \* bound: packets of each flow in all
    MaxAge,          \* bound: steps that empty any queue
    MaxDue,          \* bound: generations whose routing is still queued
    MaxChanges       \* bound: failures, repairs and new placements

Opposite(e) == <<e[2], e[1]>>

Nodes    == ToSet(Hosts) \cup ToSet(Routers)
NoNode   == "none"
Unmapped == "unmapped"

\* An edge added as symmetric has the same attributes in both directions.
ASSUME NetworkAssumption ==
    /\ {Hosts, Routers} \subseteq Seq(Nodes)
    /\ ToSet(Hosts) \cap ToSet(Routers) = {}
    /\ {NoNode, Unmapped} \cap Nodes = {}
    /\ DOMAIN Links \subseteq Nodes \X Nodes
    /\ \A e \in DOMAIN Links : Links[e] \in [cost : Nat \ {0}, rate : Nat \ {0}, max : Nat]
    /\ \A e \in Symmetric : /\ {e, Opposite(e)} \subseteq DOMAIN Links \cap Symmetric
                            /\ Links[Opposite(e)] = Links[e]
    /\ \A f \in DOMAIN Flows : Flows[f].size \in Nat \ {0}
    /\ IsFiniteSet(DOMAIN Flows)
    /\ \A f \in DOMAIN Flows : Flows[f].app \in ToSet(AppOrder)
    /\ AppOrder \in Seq(ToSet(AppOrder)) \ {<<>>}
    /\ \A m \in Placements : \A f \in DOMAIN Flows :
         {m[Flows[f].from], m[Flows[f].to]} \subseteq Nodes \cup {Unmapped}
    /\ MaxBurst \in Nat
    /\ MaxPackets \in [DOMAIN Flows -> Nat]
    /\ MaxAge \in Nat
    /\ MaxDue \in Nat
    /\ MaxChanges \in Nat

MadeFor(e)  == IF e \in Symmetric THEN {e, Opposite(e)} ELSE {e}

VARIABLES
    nodes,      \* the nodes present
    wire,       \* the links present, and the deque under each
    queue,      \* the sizes of the packets in each deque
    bytes,      \* queue_bytes of each link
    age,        \* steps since each link's step_time
    fib,        \* the next hop from node to destination; NoFib before it is built
    at,         \* where each service is placed
    generated,  \* app.generated_packets
    local,      \* local_injections of each node
    buffer,     \* router_buffer of each node
    next,       \* next_step_buffers of the routing under way
    due,        \* routing events queued
    routing,    \* applications still to be routed by the one under way
    phase,      \* of it; idle between two events
    sent,       \* packets of each flow created so far
    delivered,  \* history: numbers of the packets of each flow delivered, in order
    ended,      \* history: packets that ended otherwise, by their fate
    changes

topology == <<nodes, wire>>
links    == <<queue, bytes, age>>
buffers  == <<generated, local, buffer, next>>
history  == <<sent, delivered, ended>>
vars     == <<topology, links, fib, at, buffers, due, routing, phase, history, changes>>

NoFib  == [x \in {<<NoNode, NoNode>>} |-> NoNode]
Fates  == {"cleared", "discarded", "dropped", "lost", "removed"}
Empty  == [n \in Nodes |-> <<>>]
Apps   == ToSet(AppOrder)

Init ==
    /\ nodes = Nodes
    /\ wire = [e \in DOMAIN Links |-> MadeFor(e)]
    /\ queue = [w \in {MadeFor(e) : e \in DOMAIN Links} |-> <<>>]
    /\ bytes = [e \in DOMAIN Links |-> 0]
    /\ age = [e \in DOMAIN Links |-> 0]
    /\ fib = NoFib
    /\ at \in Placements
    /\ generated = [a \in Apps |-> <<>>]
    /\ local = Empty /\ buffer = Empty /\ next = Empty
    /\ due = 0
    /\ routing = <<>>
    /\ phase = "idle"
    /\ sent = [f \in DOMAIN Flows |-> 0]
    /\ delivered = [f \in DOMAIN Flows |-> <<>>]
    /\ ended = [t \in Fates |-> {}]
    /\ changes = 0

-----------------------------------------------------------------------------
(* The forwarding table                                                    *)

\* build_routing_tables with the links ls: Dijkstra over their cost.  Which of
\* two equal paths it finds is left open (CHOOSE).
Table == [ls \in SUBSET DOMAIN Links |->
    LET weight == [e \in ls |-> Links[e].cost]
        paths  == SimplePaths(Nodes, weight)
        pairs  == {<<p[1], Last(p)>> : p \in {q \in paths : Len(q) > 1}}
    IN  [x \in pairs |-> Shortest(paths, weight, x[1], x[2])[2]]]

\* Mutants: a removal keeps the table; it mends the entries whose link is gone.
KeptFib == fib
MendedFib ==
    LET table == Table[DOMAIN wire']
    IN  IF fib = NoFib THEN NoFib
        ELSE [x \in DOMAIN table |->
                IF x \in DOMAIN fib /\ <<x[1], fib[x]>> \in DOMAIN wire' THEN fib[x]
                ELSE table[x]]

\* remove_node, remove_edge: fib = None.
ResetFib == NoFib

-----------------------------------------------------------------------------
(* PacketGenerationEvent, and RoutingEvent for each application            *)

FlowsOf(a) == {f \in DOMAIN Flows : Flows[f].app = a}

\* The packets app a creates when it draws count[f] of each flow, one flow
\* after the other.
Drawn(a, count) ==
    LET flows == SetToSeq(FlowsOf(a))
        Burst(f) == [i \in 1..count[f] |-> [flow |-> f, num |-> sent[f] + i]]
    IN  Joined([i \in DOMAIN flows |-> Burst(flows[i])])

\* generated_packets.clear() takes those no routing has injected.
Clearing ==
    [ended EXCEPT !["cleared"] = @ \cup UNION {ToSet(generated[a]) : a \in Apps}]

\* generate_traffic_for_step of every application.
Generate ==
    /\ phase = "idle"
    /\ due < MaxDue
    /\ \E count \in [DOMAIN Flows -> 0..MaxBurst] :
         /\ \A f \in DOMAIN Flows : sent[f] + count[f] <= MaxPackets[f]
         /\ generated' = [a \in Apps |-> Drawn(a, count)]
         /\ sent' = [f \in DOMAIN Flows |-> sent[f] + count[f]]
    /\ age' = [e \in DOMAIN wire |-> Min({age[e] + 1, MaxAge})]
    /\ ended' = Clearing
    /\ due' = due + 1
    /\ UNCHANGED <<topology, queue, bytes, fib, at, local, buffer, next,
                   routing, phase, delivered, changes>>

\* RoutingEvent fires.
Route ==
    /\ phase = "idle"
    /\ due > 0
    /\ due' = due - 1
    /\ routing' = AppOrder
    /\ phase' = "inject"
    /\ UNCHANGED <<topology, links, fib, at, buffers, history, changes>>

Src(p) == at[Flows[p.flow].from]
Dst(p) == at[Flows[p.flow].to]

\* A packet is injected when both services are placed and it starts at a host.
Injects(p) == Unmapped \notin {Src(p), Dst(p)} /\ Src(p) \in ToSet(Hosts)

\* Mutant: the generated packets are not cleared.
Kept(a) == generated

Cleared(a) == [generated EXCEPT ![a] = <<>>]

\* A packet at its first node.
Stamped(p) == [flow |-> p.flow, num |-> p.num, dst |-> Dst(p), prev |-> NoNode, hops |-> 0]

\* What application a injects at node n of its packets in ps.
Injected(a, ps, n) ==
    LET mine == Sublist(generated[a], {p \in ps : Injects(p) /\ Src(p) = n})
    IN  [i \in DOMAIN mine |-> Stamped(mine[i])]

\* infra.nodes[src_node] raises on a node removed since the placement was enacted.
Strays(p) == Unmapped \notin {Src(p), Dst(p)} /\ Src(p) \notin nodes

\* _inject_generated_packets, for the application whose turn it is.
Inject ==
    LET a  == Head(routing)
        ps == ToSet(generated[a])
    IN  /\ phase = "inject"
        /\ \A p \in ps : ~Strays(p)
        /\ local' = [n \in Nodes |-> local[n] \o Injected(a, ps, n)]
        /\ ended' = [ended EXCEPT !["discarded"] = @ \cup {p \in ps : ~Injects(p)}]
        /\ generated' = Cleared(a)
        /\ phase' = "forward"
        /\ UNCHANGED <<topology, links, fib, at, buffer, next, due, routing,
                       sent, delivered, changes>>

\* It raises: the event fails, the applications after a are not routed, and the
\* simulation stops once the queue is empty.  The packets before the stray one
\* are injected; the list is not cleared, and a later pass over it finds them
\* again, with a node for the source, and passes over them: they are left out.
InjectRaises ==
    LET a == Head(routing)
    IN  /\ phase = "inject"
        /\ \E k \in DOMAIN generated[a] :
             LET tried == {generated[a][i] : i \in 1..(k - 1)} IN
             /\ Strays(generated[a][k])
             /\ \A p \in tried : ~Strays(p)
             /\ local' = [n \in Nodes |-> local[n] \o Injected(a, tried, n)]
             /\ generated' = [generated EXCEPT ![a] =
                    Sublist(@, ToSet(@) \ {p \in tried : Injects(p)})]
        /\ routing' = <<>>
        /\ phase' = "idle"
        /\ UNCHANGED <<topology, links, fib, at, buffer, next, due, history, changes>>

-----------------------------------------------------------------------------
(* Forwarding                                                              *)

\* What a node forwards: a host what was injected there, a router its buffer.
\* Nobody forwards what is in the buffer of a host.
Work(n) == IF n \in ToSet(Hosts) THEN local[n] ELSE buffer[n]

\* Hosts come before routers, each kind in the order of the graph.
InTurn == Hosts \o Routers
Rank   == [n \in Nodes |-> CHOOSE i \in DOMAIN InTurn : InTurn[i] = n]
Busy   == {n \in nodes : Work(n) # <<>>}
Turn   == CHOOSE n \in Busy : \A m \in Busy : Rank[n] <= Rank[m]

\* Mutant: the multiplexer takes the last packet of a source.
LastFrom(n, prev) == Max({i \in DOMAIN Work(n) : Work(n)[i].prev = prev})

\* The multiplexer takes the first packet of the source it draws.
NextFrom(n, prev) == Min({i \in DOMAIN Work(n) : Work(n)[i].prev = prev})

\* Size of the first k packets of a deque.
Prefix(q, k) == SumFunctionOnSet(q, 1..k)

\* The packets of its deque a link has transmitted since its step_time.
Sent(q, e) == Max({k \in 0..Len(q) : Prefix(q, k) <= age[e] * Links[e].rate})

\* Mutant: the bytes sent are not subtracted.
BytesKept(e, k) == bytes[e]

Full(rest, e)   == Len(rest) >= Links[e].max
BytesLeft(e, k) == bytes[e] - Prefix(queue[wire[e]], k)

Key(p) == [flow |-> p.flow, num |-> p.num]
End(fate, p) == [ended EXCEPT ![fate] = @ \cup {Key(p)}]

\* get_next_hop builds the table it does not have.
Build ==
    /\ phase = "forward"
    /\ Busy # {}
    /\ fib = NoFib
    /\ fib' = Table[DOMAIN wire]
    /\ UNCHANGED <<topology, links, at, buffers, due, routing, phase, history, changes>>

\* The node n whose turn it is takes the i-th packet it has, the next one of
\* its source.
Takes(n, i) ==
    /\ phase = "forward"
    /\ Busy # {}
    /\ n = Turn
    /\ fib # NoFib
    /\ i = NextFrom(n, Work(n)[i].prev)
    /\ IF n \in ToSet(Hosts)
       THEN local' = [local EXCEPT ![n] = RemoveAt(@, i)] /\ UNCHANGED buffer
       ELSE buffer' = [buffer EXCEPT ![n] = RemoveAt(@, i)] /\ UNCHANGED local
    /\ UNCHANGED <<topology, fib, at, generated, due, routing, sent, changes>>

\* No route: the packet is lost, without a trace in dropped_packets.  So is one
\* whose services share a node.
NoRoute(n, p) ==
    /\ <<n, p.dst>> \notin DOMAIN fib
    /\ ended' = End("lost", p)
    /\ UNCHANGED <<links, next, delivered, phase>>

Moved(p, e) ==
    [flow |-> p.flow, num |-> p.num, dst |-> p.dst, prev |-> e[1], hops |-> p.hops + 1]

\* forward_one_hop over link e: the deque is drained, then it drops the packet
\* or takes it.  A packet whose link ends at its destination is delivered.
Over(e, p) ==
    \E k \in 0..Len(queue[wire[e]]) :
        LET rest == SubSeq(queue[wire[e]], k + 1, Len(queue[wire[e]])) IN
        /\ k = Sent(queue[wire[e]], e)
        /\ age' = [age EXCEPT ![e] = 0]
        /\ phase' = phase
        /\ \/ /\ Full(rest, e)
              /\ queue' = [queue EXCEPT ![wire[e]] = rest]
              /\ bytes' = [bytes EXCEPT ![e] = BytesLeft(e, k)]
              /\ ended' = End("dropped", p)
              /\ UNCHANGED <<next, delivered>>
           \/ /\ ~Full(rest, e)
              /\ queue' = [queue EXCEPT ![wire[e]] = Append(rest, Flows[p.flow].size)]
              /\ bytes' = [bytes EXCEPT ![e] = BytesLeft(e, k) + Flows[p.flow].size]
              /\ IF e[2] = p.dst
                 THEN /\ delivered' = [delivered EXCEPT ![p.flow] = Append(@, p.num)]
                      /\ UNCHANGED next
                 ELSE /\ next' = [next EXCEPT ![e[2]] = Append(@, Moved(p, e))]
                      /\ UNCHANGED delivered
              /\ UNCHANGED ended

\* The next hop is a link: if it were not, self[u][v] would raise (RoutesLeadOn).
Hop(n, i) ==
    /\ Takes(n, i)
    /\ \/ NoRoute(n, Work(n)[i])
       \/ \E e \in DOMAIN wire :
            /\ <<n, Work(n)[i].dst>> \in DOMAIN fib
            /\ e = <<n, fib[<<n, Work(n)[i].dst>>]>>
            /\ Over(e, Work(n)[i])

\* The routing of an application ends: what was passed on becomes the buffers
\* of the next.
EndRouting ==
    /\ phase = "forward"
    /\ Busy = {}
    /\ buffer' = [n \in Nodes |-> buffer[n] \o next[n]]
    /\ next' = Empty
    /\ routing' = Tail(routing)
    /\ phase' = IF Tail(routing) = <<>> THEN "idle" ELSE "inject"
    /\ UNCHANGED <<topology, links, fib, at, generated, local, due, history, changes>>

-----------------------------------------------------------------------------
(* Between two events                                                      *)

Change == phase = "idle" /\ changes < MaxChanges /\ changes' = changes + 1

\* The link's attributes go with it; the deque stays under another direction.
Without(es) ==
    LET left == [e \in DOMAIN wire \ es |-> wire[e]]
    IN  /\ wire' = left
        /\ queue' = [w \in Range(left) |-> queue[w]]
        /\ bytes' = [e \in DOMAIN left |-> bytes[e]]
        /\ age' = [e \in DOMAIN left |-> age[e]]

RemoveLink(e) ==
    /\ Without({e})
    /\ fib' = ResetFib
    /\ UNCHANGED <<nodes, at, buffers, due, routing, phase, history>>

\* The buffers of the node go with it.
RemoveNode(n) ==
    /\ nodes' = nodes \ {n}
    /\ Without({e \in DOMAIN wire : n \in {e[1], e[2]}})
    /\ local' = [local EXCEPT ![n] = <<>>]
    /\ buffer' = [buffer EXCEPT ![n] = <<>>]
    /\ ended' = [ended EXCEPT !["removed"] =
                   @ \cup {Key(p) : p \in ToSet(local[n]) \cup ToSet(buffer[n])}]
    /\ fib' = ResetFib
    /\ UNCHANGED <<at, generated, next, due, routing, phase, sent, delivered>>

\* add_edge, in one direction, with a new deque; the table is not rebuilt.
AddLink(e) ==
    /\ wire' = With(wire, e, {e})
    /\ queue' = With(queue, {e}, <<>>)
    /\ bytes' = With(bytes, e, 0)
    /\ age' = With(age, e, 0)
    /\ UNCHANGED <<nodes, fib, at, buffers, due, routing, phase, history>>

\* The placement manager enacts another mapping.
Enact ==
    /\ at' \in {m \in Placements : Range(m) \subseteq nodes \cup {Unmapped}}
    /\ UNCHANGED <<topology, links, fib, buffers, due, routing, phase, history>>

Between ==
    /\ Change
    /\ \/ \E e \in DOMAIN wire : RemoveLink(e)
       \/ \E n \in nodes : RemoveNode(n)
       \/ \E e \in DOMAIN Links \ DOMAIN wire : {e[1], e[2]} \subseteq nodes /\ AddLink(e)
       \/ Enact

Routes ==
    \/ Route
    \/ Inject
    \/ InjectRaises
    \/ Build
    \/ \E n \in nodes : \E i \in DOMAIN Work(n) : Hop(n, i)
    \/ EndRouting

Next == Generate \/ Routes \/ Between

Spec == Init /\ [][Next]_vars

-----------------------------------------------------------------------------
(* Properties                                                              *)

\* The variables have their types; no deque is longer than its link allows,
\* nothing waits at a node that was removed, and the hops of a packet are bounded
\* by the nodes and the changes.
TypeOK ==
    /\ nodes \subseteq Nodes
    /\ DOMAIN wire \subseteq (nodes \X nodes) \cap DOMAIN Links
    /\ \A e \in DOMAIN wire : e \in wire[e] /\ wire[e] \in {{e}, {e, Opposite(e)}}
    /\ DOMAIN queue = Range(wire)
    /\ \A e \in DOMAIN wire :
         /\ Len(queue[wire[e]]) <= Links[e].max
         /\ bytes[e] \in Int /\ age[e] \in 0..MaxAge
    /\ fib = NoFib \/ Range(fib) \subseteq Nodes
    /\ at \in Placements
    /\ \A n \in Nodes \ nodes : local[n] = <<>> /\ buffer[n] = <<>> /\ next[n] = <<>>
    /\ \A n \in Nodes : \A p \in ToSet(local[n]) \cup ToSet(buffer[n]) \cup ToSet(next[n]) :
         /\ p.flow \in DOMAIN Flows /\ p.num \in 1..sent[p.flow]
         /\ p.hops <= (Cardinality(Nodes) - 1) * (changes + 1)
    /\ due \in 0..MaxDue
    /\ phase \in {"idle", "inject", "forward"}
    /\ (phase = "idle") = (routing = <<>>)
    /\ \A f \in DOMAIN Flows : sent[f] \in 0..MaxPackets[f]
    /\ changes \in 0..MaxChanges

\* The sequences a packet may wait in.
Boxes      == ({"generated"} \X Apps) \cup ({"local", "buffer", "next"} \X Nodes)
Content(b) == [generated |-> generated, local |-> local, buffer |-> buffer, next |-> next][b[1]][b[2]]

\* Where the packet k is: its places in them, its deliveries and its fates.
Whereabouts(k) ==
    LET Places(s)  == {i \in DOMAIN s : Key(s[i]) = k}
        Deliveries == {i \in DOMAIN delivered[k.flow] : delivered[k.flow][i] = k.num}
    IN  (UNION {{<<b, i>> : i \in Places(Content(b))} : b \in Boxes})
        \cup {<<<<"delivered", k.flow>>, i>> : i \in Deliveries}
        \cup {<<<<"ended", t>>, 1>> : t \in {u \in Fates : k \in ended[u]}}

\* No packet is lost or doubled: each one created is in one buffer, delivered,
\* or ended in one of the ways the code has for it, whatever event raised.
PacketsConserved ==
    \A f \in DOMAIN Flows : \A i \in 1..sent[f] :
        Cardinality(Whereabouts([flow |-> f, num |-> i])) = 1

\* The nodes that table T leads a packet for d through from n.
Trail(T, n, d) ==
    LET led[i \in 0..Cardinality(Nodes)] ==
          IF i = 0 THEN n ELSE IF led[i - 1] = d THEN d ELSE T[<<led[i - 1], d>>]
    IN  led

\* Whatever failed or was added since the table was built, every next hop is a
\* link, and following the hops leads to the destination.
RoutesLeadOn ==
    fib # NoFib =>
        \A x \in DOMAIN fib :
          /\ <<x[1], fib[x]>> \in DOMAIN wire
          /\ Trail(fib, x[1], x[2])[Cardinality(Nodes)] = x[2]

\* The delay is computed from queue_bytes.  Over the links a deque was made
\* for, they add up to the bytes in it, whichever direction drains it.
BytesQueued ==
    \A w \in Range(wire) :
        (\A e \in w : e \in DOMAIN wire /\ wire[e] = w) =>
            SumFunctionOnSet(bytes, w) = Prefix(queue[w], Len(queue[w]))

\* While nothing changes, the packets of a flow arrive in the order they were
\* created in, though the routers mix their sources at random.
InOrder ==
    changes = 0 =>
        \A f \in DOMAIN Flows : \A i, j \in DOMAIN delivered[f] :
            i < j => delivered[f][i] < delivered[f][j]

\* "This event is called exactly once per step by the simulation engine.  It is
\* responsible for taking generated packets" (traffic_event.py:20-21): no generation
\* finds packets that no routing has taken.  Violated: two generations may come
\* before the first routing.
AllTaken == ended["cleared"] = {}
=============================================================================
