----------------------------- MODULE MuxRouting -----------------------------
(***************************************************************************)
(* Message forwarding between swbusds (swbus-core, mux/multiplexer.rs,     *)
(* nexthop.rs and conn_worker.rs): one request of a local service, and     *)
(* every response it gives rise to, routed over arbitrary route tables.    *)
(*                                                                         *)
(* A path is <<node, service>>, service "none" for the swbusd itself; the  *)
(* resource part plays no role in a lookup.  A route table maps prefixes   *)
(* to next hops; it can hold what register() puts there, a prefix of a     *)
(* directly connected remote path, and set_my_routes' local entry.         *)
(***************************************************************************)
EXTENDS Naturals, FiniteSets

CONSTANTS
    Nodes,          \* swbusds that run
    Absent,         \* nodes that paths name but nobody runs
    Services,       \* service names
    ClusterOf,      \* ClusterOf[n], RegionOf[n]: where a node lives
    RegionOf,
    Bodies,         \* request bodies: "Ping", "Trace", "Data", and the management
                    \* requests "Routes" and "Actors" (SWBUSD_GET_ROUTES and
                    \* HAMGRD_GET_ACTOR_STATE)
    DefaultTtl,     \* 64 in the code
    MaxTtl,         \* 2^32 - 1 in the code: the ttl is a u32
    MayDetach       \* TRUE: a service may lose its connection at any time

Places == Nodes \cup Absent
Paths == Places \X (Services \cup {"none"})

ASSUME MuxRoutingAssumption ==
    /\ Nodes \cap Absent = {} /\ "none" \notin Services
    /\ "local" \notin Places /\ "none" \notin Places
    /\ DOMAIN ClusterOf = Places /\ DOMAIN RegionOf = Places
    /\ Bodies \subseteq {"Ping", "Routes", "Actors", "Trace", "Data"}
    /\ MaxTtl \in Nat /\ DefaultTtl \in 3..MaxTtl
    /\ MayDetach \in BOOLEAN

VARIABLES
    tables,         \* routes of the swbusds, tables[n][k]: next hop, None without an entry
    msgs,           \* messages a node still has to route
    answers,        \* codes of the responses the requester has got
    request         \* the request

routingVars == <<tables, msgs, answers, request>>

\* to_service_prefix, to_node_prefix, to_cluster_prefix, to_regional_prefix.
Prefix(stage, p) ==
    CASE stage = 1 -> <<"service", p[1], p[2]>>
      [] stage = 2 -> <<"node", p[1], "none">>
      [] stage = 3 -> <<"cluster", ClusterOf[p[1]], "none">>
      [] stage = 4 -> <<"region", RegionOf[p[1]], "none">>

Stages == 1..4                          \* ROUTE_STAGES: Local to Global
Keys == {Prefix(s, p) : s \in Stages, p \in Paths}
Swbusd(n) == <<n, "none">>              \* get_my_service_path
Local == <<"local", "none">>            \* SwbusNextHop::new_local
None == <<"none", "none">>              \* no entry

\* A message at node "at", in the hands of the worker of the connection from
\* "by"; "fresh" when it came over that connection, else it is the mux's own.
Message == [at : Nodes, by : Paths, fresh : BOOLEAN, src : Paths, dst : Paths,
            ttl : 0..MaxTtl, body : Bodies \cup {"Response"},
            code : {"none", "Ok", "NoRoute", "Unreachable"}]

\* The next hops register() and set_my_routes can have put under a key at n: a
\* connected service, the swbusd itself, or a directly connected swbusd.
NextHops(n, k) ==
    IF k = Prefix(2, Swbusd(n)) THEN {Local}
    ELSE {None} \cup {<<n, t>> : t \in {t \in Services : k = Prefix(1, <<n, t>>)}}
                \cup {Swbusd(m) : m \in {m \in Nodes \ {n} :
                                         \E st \in 2..4 : k = Prefix(st, Swbusd(m))}}

\* Type invariant: what the tables and messages can hold.
RoutingTypeOK ==
    /\ tables \in [Nodes -> [Keys -> Paths \cup {Local, None}]]
    /\ \A n \in Nodes, k \in Keys : tables[n][k] \in NextHops(n, k)
    /\ msgs \subseteq Message
    /\ answers \subseteq {"Ok", "NoRoute", "Unreachable"}
    /\ request \in Message

RouteTables(n) ==
    LET open == {k \in Keys : Cardinality(NextHops(n, k)) > 1}
    IN {[k \in Keys |-> IF k \in open THEN f[k] ELSE CHOOSE h \in NextHops(n, k) : TRUE] :
          f \in {g \in [open -> UNION {NextHops(n, k) : k \in open}] :
                   \A k \in open : g[k] \in NextHops(n, k)}}

\* Any tables, and any request of a service that is connected to its swbusd.
\* swbus-cli's traceroute sets the ttl to any u32, everybody else leaves the
\* default.
RoutingInit ==
    /\ tables \in {f \in [Nodes -> UNION {RouteTables(n) : n \in Nodes}] :
                     \A n \in Nodes : f[n] \in RouteTables(n)}
    /\ \E src \in {p \in Nodes \X Services : tables[p[1]][Prefix(1, p)] # None},
          dst \in Paths, body \in Bodies, ttl \in 0..MaxTtl :
         /\ body = "Trace" \/ ttl = DefaultTtl
         /\ request = [at |-> src[1], by |-> src, fresh |-> TRUE, src |-> src, dst |-> dst,
                       ttl |-> ttl, body |-> body, code |-> "none"]
    /\ msgs = {request}
    /\ answers = {}

-----------------------------------------------------------------------------
\* SwbusMessage::new_response: to the sender, with a full ttl.
NewResponse(m, source, code) ==
    [at |-> m.at, by |-> m.by, fresh |-> FALSE, src |-> source, dst |-> m.src,
     ttl |-> DefaultTtl, body |-> "Response", code |-> code]

\* The first stage with an entry, 0 without one.
FirstStage(n, dst) ==
    LET hits == {s \in Stages : tables[n][Prefix(s, dst)] # None} IN
    IF hits = {} THEN 0 ELSE CHOOSE s \in hits : \A t \in hits : s <= t

Replace(m, new) ==
    /\ msgs' = (msgs \ {m}) \cup new
    /\ UNCHANGED <<tables, answers, request>>

\* process_data_message: a traceroute is answered by each swbusd it passes,
\* and goes on unless it has arrived.
TraceHop(m) ==
    /\ m.fresh /\ m.body = "Trace"
    /\ LET response == NewResponse(m, Swbusd(m.at), "Ok")
           onward == IF m.dst # Swbusd(m.at) THEN {[m EXCEPT !.fresh = FALSE]} ELSE {}
       IN Replace(m, {response} \cup onward)

Routable(m) == ~(m.fresh /\ m.body = "Trace")

\* route_message without an entry at any stage.
NoRoute(m) ==
    /\ Routable(m)
    /\ FirstStage(m.at, m.dst) = 0
    /\ Replace(m, {NewResponse(m, Swbusd(m.at), "NoRoute")})

\* Mutant: a ping is dropped like any other message.
LocalResponsesNoPing(m) ==
    CASE m.dst[2] # "none" -> {NewResponse(m, m.dst, "NoRoute")}
      [] m.dst[2] = "none" /\ m.body = "Routes" -> {NewResponse(m, m.dst, "Ok")}
      [] OTHER -> {}

\* process_local_message.  A management request that is not swbusd's makes the
\* worker panic (WorkerPanics of MuxConnections): it is gone like what is dropped.
LocalResponses(m) ==
    CASE m.dst[2] # "none" -> {NewResponse(m, m.dst, "NoRoute")}
      [] m.dst[2] = "none" /\ m.body \in {"Ping", "Routes"} -> {NewResponse(m, m.dst, "Ok")}
      [] OTHER -> {}

\* route_message to the local next hop.
RouteLocal(m) ==
    /\ Routable(m)
    /\ FirstStage(m.at, m.dst) # 0
    /\ tables[m.at][Prefix(FirstStage(m.at, m.dst), m.dst)] = Local
    /\ Replace(m, LocalResponses(m))

\* The service at the far end of a local connection: a response is the end of
\* the story, a request is answered (simple_client.rs, driver.rs).
Deliver(m) ==
    /\ answers' = answers \cup {c \in {m.code} : m.body = "Response" /\ m.dst = request.src}
    /\ msgs' = (msgs \ {m}) \cup
               {[NewResponse(m, m.dst, "Ok") EXCEPT !.by = m.dst, !.fresh = TRUE] : b \in {m.body} \cap Bodies}
    /\ UNCHANGED <<tables, request>>

\* Mutant: the ttl does not go down.
RouteRemoteForever(m) ==
    /\ Routable(m)
    /\ FirstStage(m.at, m.dst) # 0
    /\ LET hop == tables[m.at][Prefix(FirstStage(m.at, m.dst), m.dst)] IN
         /\ hop # Local
         /\ \/ m.ttl = 0 /\ Replace(m, {NewResponse(m, Swbusd(m.at), "Unreachable")})
            \/ m.ttl > 0 /\ hop[2] = "none" /\ Replace(m, {[m EXCEPT !.at = hop[1], !.by = Swbusd(m.at), !.fresh = TRUE]})
            \/ m.ttl > 0 /\ hop[2] # "none" /\ Deliver(m)

\* Mutant: the ttl is a signed number.
LessOneSigned(ttl) == ttl - 1

\* header.ttl -= 1 of a u32: a release build wraps around.
LessOne(ttl) == IF ttl = 0 THEN MaxTtl ELSE ttl - 1

\* queue_message on a remote next hop.  A debug build panics where a release
\* build wraps the ttl, and the message is gone.
RouteRemote(m) ==
    /\ Routable(m)
    /\ FirstStage(m.at, m.dst) # 0
    /\ LET hop == tables[m.at][Prefix(FirstStage(m.at, m.dst), m.dst)]
           ttl == LessOne(m.ttl)
       IN
         /\ hop # Local
         /\ \/ m.ttl = 0 /\ Replace(m, {})
            \/ ttl = 0 /\ Replace(m, {NewResponse(m, Swbusd(m.at), "Unreachable")})
            \/ /\ ttl # 0
               /\ hop[2] = "none"
               /\ Replace(m, {[m EXCEPT !.at = hop[1], !.by = Swbusd(m.at), !.fresh = TRUE, !.ttl = ttl]})
            \/ ttl # 0 /\ hop[2] # "none" /\ Deliver(m)

\* A service's connection ends: its worker, done with the messages that came
\* over it, unregisters the route.
Detach(n, s) ==
    /\ MayDetach
    /\ \A m \in msgs : m.by # <<n, s>>
    /\ tables[n][Prefix(1, <<n, s>>)] # None
    /\ tables' = [tables EXCEPT ![n][Prefix(1, <<n, s>>)] = None]
    /\ UNCHANGED <<msgs, answers, request>>

RoutingNext ==
    \/ \E m \in msgs : TraceHop(m)
    \/ \E m \in msgs : NoRoute(m)
    \/ \E m \in msgs : RouteLocal(m)
    \/ \E m \in msgs : RouteRemote(m)
    \/ \E n \in Nodes, s \in Services : Detach(n, s)

RoutingSpec == RoutingInit /\ [][RoutingNext]_routingVars

\* Connection workers go on with what they have received.
FairRoutingSpec ==
    RoutingSpec /\ WF_routingVars(\E m \in msgs : TraceHop(m) \/ NoRoute(m) \/ RouteLocal(m) \/ RouteRemote(m))

-----------------------------------------------------------------------------
Connected == tables[request.at][Prefix(1, request.src)] # None

\* Whoever is the next hop of a cluster or a region has a route of its own to
\* every other swbusd there (always so when there are only two swbusds).
Gateways ==
    \A n, g, m \in Nodes :
        (m \notin {n, g} /\ \E st \in 3..4 : tables[n][Prefix(st, Swbusd(m))] = Swbusd(g))
            => tables[g][Prefix(2, Swbusd(m))] = Swbusd(m)

\* A request of a service that stays connected, and all it gives rise to, leave
\* the bus after finitely many steps (the ttl, the local drop), also where
\* messages to who is not there go round in circles.  Without Gateways they may
\* not: errors about errors, each with a full ttl, can go round for ever.
Drains == Gateways /\ []Connected => <>[](msgs = {})

\* Where every two swbusds are connected, a requester that stays connected gets
\* an answer, whatever wider routes exist and whoever is or is not there to
\* answer.  (A swbusd drops a data request to itself, and panics on a management
\* request that it does not know.)
Answered ==
    []Connected =>
      ((/\ \A n, m \in Nodes : n # m => tables[n][Prefix(2, Swbusd(m))] = Swbusd(m)
        /\ ~(request.body \in {"Data", "Actors"} /\ request.dst \in {Swbusd(n) : n \in Nodes}))
       ~> answers # {})
=============================================================================
