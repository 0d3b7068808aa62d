--------------------------- MODULE MuxConnections ---------------------------
(***************************************************************************)
(* Connections and routes of one swbusd (swbus-core, mux/): the connect    *)
(* tasks and the tracker table of SwbusConnStore, the connection workers,  *)
(* the server's stream_messages handler, the route table of                *)
(* SwbusMultiplexer and the shutdown of the store, as tasks that           *)
(* interleave between two accesses to a shared map.                        *)
(*                                                                         *)
(* A link is a SwbusConnInfo: a configured peer this swbusd dials, or a    *)
(* socket it accepts.  Every connect task and every accepted stream is a   *)
(* generation of its link, with a worker and a send queue of its own.      *)
(* Remote routes all have hop count 1.                                     *)
(***************************************************************************)
EXTENDS Naturals, Sequences, FiniteSets

CONSTANTS
    Clients,        \* links in client mode (the configured peers)
    Servers,        \* links in server mode (accepted sockets)
    RouteKeys,      \* route prefixes
    PeerKey,        \* PeerKey[c]: route key of the path and type configured for c
    MaxGen          \* bound: generations

Links == Clients \cup Servers

ASSUME MuxConnectionsAssumption ==
    /\ Clients \cap Servers = {}
    /\ PeerKey \in [Clients -> RouteKeys]
    /\ IsFiniteSet(Clients) /\ MaxGen \in Nat /\ Cardinality(Clients) <= MaxGen

VARIABLES
    link,           \* link[g]: the link of generation g
    key,            \* key[g]: route key of its remote path and type
    task,           \* task[g]: "connecting", "connected", "registered", "done"
    worker,         \* worker[g]: "none", "live", "lost", "unregistered",
                    \* "dead" or "panicked"
    unlisted,       \* connect tasks spawned, tracker not inserted yet
    connections,    \* connections[l]: [kind, gen], kind "none", "conn", "task"
    routes,         \* routes[k]: generation whose queue serves k, 0 for none
    cancelled,      \* trackers whose token is cancelled
    early,          \* history: keys of the streams that failed before
                    \* conn_established had run
    store,          \* "up", "stopping" (in SwbusConnStore::shutdown), "down"
    passed          \* links whose place in the map shutdown's iterator has passed

vars == <<link, key, task, worker, unlisted, connections, routes, cancelled, early, store, passed>>

Gens == 1..Len(link)
Tracker == [kind : {"conn", "task"}, gen : Gens]
NoConn == [kind |-> "none", gen |-> 0]
Conn(g) == [kind |-> "conn", gen |-> g]
Task(g) == [kind |-> "task", gen |-> g]

\* Type invariant of the connect tasks, workers, trackers and routes.
TypeOK ==
    /\ link \in Seq(Links) /\ Len(link) <= MaxGen
    /\ key \in [Gens -> RouteKeys]
    /\ \A g \in Gens : link[g] \in Clients => key[g] = PeerKey[link[g]]
    /\ task \in [Gens -> {"connecting", "connected", "registered", "done"}]
    /\ worker \in [Gens -> {"none", "live", "lost", "unregistered", "dead", "panicked"}]
    /\ unlisted \subseteq {g \in Gens : link[g] \in Clients}
    /\ connections \in [Links -> Tracker \cup {NoConn}]
    /\ \A l \in Links : connections[l] # NoConn => link[connections[l].gen] = l
    /\ routes \in [RouteKeys -> 0..Len(link)]
    /\ cancelled \subseteq Tracker
    /\ early \subseteq RouteKeys
    /\ store \in {"up", "stopping", "down"}
    /\ passed \subseteq Links

-----------------------------------------------------------------------------
\* A new generation of l, with route key k, whose task and worker are in the
\* states t and w; ws are the workers so far.
NewGen(l, k, t, w, ws) ==
    /\ Len(link) < MaxGen
    /\ link' = Append(link, l)
    /\ key' = Append(key, k)
    /\ task' = Append(task, t)
    /\ worker' = Append(ws, w)

\* SwbusServiceHost::start: add_peer for each peer.  Its start_connect_task
\* has spawned the task, the tracker follows in ListTask.
Init ==
    /\ link \in {f \in [1..Cardinality(Clients) -> Clients] :
                    \A c \in Clients : \E g \in DOMAIN f : f[g] = c}
    /\ key = [g \in Gens |-> PeerKey[link[g]]]
    /\ task = [g \in Gens |-> "connecting"]
    /\ worker = [g \in Gens |-> "none"]
    /\ unlisted = Gens
    /\ connections = [l \in Links |-> NoConn]
    /\ routes = [k \in RouteKeys |-> 0]
    /\ cancelled = {}
    /\ early = {}
    /\ store = "up"
    /\ passed = {}

\* start_connect_task, after the spawn: connections.insert(.., Task(token)).
ListTask(g) ==
    /\ g \in unlisted
    /\ unlisted' = unlisted \ {g}
    /\ connections' = [connections EXCEPT ![link[g]] = Task(g)]
    /\ UNCHANGED <<link, key, task, worker, routes, cancelled, early, store, passed>>

\* The connect task sees its token cancelled before it dials (again).
TaskCancelled(g) ==
    /\ task[g] = "connecting"
    /\ Task(g) \in cancelled
    /\ task' = [task EXCEPT ![g] = "done"]
    /\ UNCHANGED <<link, key, worker, unlisted, connections, routes, cancelled, early, store, passed>>

\* Mutant: the task dials again after it has connected.
ConnectTwice(g) ==
    /\ task[g] = "connecting"
    /\ NewGen(link[g], key[g], "connected", "live", worker)
    /\ UNCHANGED <<unlisted, connections, routes, cancelled, early, store, passed>>

\* SwbusConn::connect succeeds: the worker runs before the task goes on.  A
\* token cancelled since the last look does not stop it.
Connect(g) ==
    /\ task[g] = "connecting"
    /\ task' = [task EXCEPT ![g] = "connected"]
    /\ worker' = [worker EXCEPT ![g] = "live"]
    /\ UNCHANGED <<link, key, unlisted, connections, routes, cancelled, early, store, passed>>

\* stream_messages: the worker of an accepted stream runs before the handler
\* goes on.  Each accepted socket is a link of its own; its route key comes
\* from the path and the type in the request's headers.  serve_with_shutdown
\* accepts on until the shutdown of the store has ended.
Accept(s) ==
    /\ store # "down"
    /\ \A g \in Gens : link[g] # s
    /\ \E k \in RouteKeys : NewGen(s, k, "connected", "live", worker)
    /\ UNCHANGED <<unlisted, connections, routes, cancelled, early, store, passed>>

\* conn_established, first half: mux.register.  update_route keeps an entry
\* whose hop count is not larger, so an entry that exists stays.
Register(g) ==
    /\ task[g] = "connected"
    /\ task' = [task EXCEPT ![g] = "registered"]
    /\ routes' = [routes EXCEPT ![key[g]] = IF @ = 0 THEN g ELSE @]
    /\ UNCHANGED <<link, key, worker, unlisted, connections, cancelled, early, store, passed>>

\* conn_established, second half: connections.insert(.., SwbusConn(conn)).
ListConn(g) ==
    /\ task[g] = "registered"
    /\ task' = [task EXCEPT ![g] = "done"]
    /\ connections' = [connections EXCEPT ![link[g]] = Conn(g)]
    /\ UNCHANGED <<link, key, worker, unlisted, routes, cancelled, early, store, passed>>

-----------------------------------------------------------------------------
\* run_worker_loop: the stream fails or the peer closes it.
StreamLost(g) ==
    /\ worker[g] = "live"
    /\ worker' = [worker EXCEPT ![g] = "lost"]
    /\ early' = IF task[g] = "done" THEN early ELSE early \cup {key[g]}
    /\ UNCHANGED <<link, key, task, unlisted, connections, routes, cancelled, store, passed>>

\* Mutant: the route stays when the worker ends.
UnregisterNothing(g) ==
    /\ worker[g] = "lost"
    /\ worker' = [worker EXCEPT ![g] = "unregistered"]
    /\ UNCHANGED <<link, key, task, unlisted, connections, routes, cancelled, early, store, passed>>

\* run, after the loop: mux.unregister removes the entry of the route key,
\* whichever connection it points to.
Unregister(g) ==
    /\ worker[g] = "lost"
    /\ worker' = [worker EXCEPT ![g] = "unregistered"]
    /\ routes' = [routes EXCEPT ![key[g]] = 0]
    /\ UNCHANGED <<link, key, task, unlisted, connections, cancelled, early, store, passed>>

\* Mutant: a lost link is dialled again only if it is still tracked.
ConnLostIfTracked(g) ==
    /\ worker[g] = "unregistered"
    /\ connections' = [connections EXCEPT ![link[g]] = NoConn]
    /\ \/ /\ link[g] \in Clients /\ connections[link[g]] = Conn(g)
          /\ NewGen(link[g], key[g], "connecting", "none", [worker EXCEPT ![g] = "dead"])
          /\ unlisted' = unlisted \cup {Len(link) + 1}
       \/ /\ link[g] \in Servers \/ connections[link[g]] # Conn(g)
          /\ worker' = [worker EXCEPT ![g] = "dead"]
          /\ UNCHANGED <<link, key, task, unlisted>>
    /\ UNCHANGED <<routes, cancelled, early, store, passed>>

\* Mutant: every lost link is dialled again.
ConnLostRedialsAll(g) ==
    /\ worker[g] = "unregistered"
    /\ connections' = [connections EXCEPT ![link[g]] = NoConn]
    /\ NewGen(link[g], key[g], "connecting", "none", [worker EXCEPT ![g] = "dead"])
    /\ unlisted' = unlisted \cup {Len(link) + 1}
    /\ UNCHANGED <<routes, cancelled, early, store, passed>>

\* conn_lost: the tracker is removed; a client link is dialled again, its
\* tracker follows in ListTask.
ConnLost(g) ==
    /\ worker[g] = "unregistered"
    /\ connections' = [connections EXCEPT ![link[g]] = NoConn]
    /\ \/ /\ link[g] \in Clients
          /\ NewGen(link[g], key[g], "connecting", "none", [worker EXCEPT ![g] = "dead"])
          /\ unlisted' = unlisted \cup {Len(link) + 1}
       \/ /\ link[g] \in Servers
          /\ worker' = [worker EXCEPT ![g] = "dead"]
          /\ UNCHANGED <<link, key, task, unlisted>>
    /\ UNCHANGED <<routes, cancelled, early, store, passed>>

\* run_worker_loop sees the token cancelled: unregister, no conn_lost.
WorkerCancelled(g) ==
    /\ worker[g] = "live"
    /\ Conn(g) \in cancelled
    /\ worker' = [worker EXCEPT ![g] = "dead"]
    /\ routes' = [routes EXCEPT ![key[g]] = 0]
    /\ UNCHANGED <<link, key, task, unlisted, connections, cancelled, early, store, passed>>

\* The worker of g routes a message to a queue that is full, or whose
\* receiver is gone, or a management request to this swbusd that it does not
\* know: route_message or process_local_message unwraps the error and the
\* worker task panics, past unregister and conn_lost.
WorkerPanics(g) ==
    /\ worker[g] = "live"
    /\ worker' = [worker EXCEPT ![g] = "panicked"]
    /\ UNCHANGED <<link, key, task, unlisted, connections, routes, cancelled, early, store, passed>>

-----------------------------------------------------------------------------
\* SwbusConnStore::shutdown: one pass over the trackers, in the order of the
\* map, cancels each; then the table is cleared.  A tracker inserted where the
\* iterator has passed is cleared without being cancelled.
Shutdown ==
    /\ store = "up"
    /\ store' = "stopping"
    /\ UNCHANGED <<link, key, task, worker, unlisted, connections, routes, cancelled, early, passed>>

CancelTracked(l) ==
    /\ store = "stopping"
    /\ l \notin passed
    /\ passed' = passed \cup {l}
    /\ cancelled' = cancelled \cup ({connections[l]} \ {NoConn})
    /\ UNCHANGED <<link, key, task, worker, unlisted, connections, routes, early, store>>

ClearTracked ==
    /\ store = "stopping"
    /\ passed = Links
    /\ store' = "down"
    /\ connections' = [l \in Links |-> NoConn]
    /\ UNCHANGED <<link, key, task, worker, unlisted, routes, cancelled, early, passed>>

Next ==
    \/ \E g \in Gens : ListTask(g)
    \/ \E g \in Gens : TaskCancelled(g)
    \/ \E g \in Gens : Connect(g)
    \/ \E g \in Gens : Register(g)
    \/ \E g \in Gens : ListConn(g)
    \/ \E g \in Gens : StreamLost(g)
    \/ \E g \in Gens : Unregister(g)
    \/ \E g \in Gens : ConnLost(g)
    \/ \E g \in Gens : WorkerCancelled(g)
    \/ \E g \in Gens : WorkerPanics(g)
    \/ \E s \in Servers : Accept(s)
    \/ Shutdown
    \/ \E l \in Links : CancelTracked(l)
    \/ ClearTracked

Spec == Init /\ [][Next]_vars

\* A spawned task that is not waiting for anybody runs on; a peer that keeps
\* being dialled answers at last.
Fairness ==
    \A g \in 1..MaxGen :
        WF_vars(g \in Gens /\ (\/ ListTask(g) \/ Connect(g) \/ Register(g) \/ ListConn(g)
                               \/ Unregister(g) \/ ConnLost(g)))

FairSpec == Spec /\ Fairness

-----------------------------------------------------------------------------
Live(l) == {g \in Gens : link[g] = l /\ worker[g] = "live"}
Busy(g) == task[g] = "connecting" \/ worker[g] \in {"live", "lost", "unregistered"}

\* A peer is never served by two connections of this swbusd, or dialled while
\* one is up: over any interleaving of losses, reconnects and shutdown, at
\* most one generation of a client link dials or has a worker.
OneDialler ==
    \A c \in Clients : Cardinality({g \in Gens : link[g] = c /\ Busy(g)}) <= 1

\* Keys that only one link has used, whose streams so far have not failed
\* before conn_established had run.
Orderly ==
    {k \in RouteKeys \ early : \A g, h \in Gens :
        key[g] = k /\ key[h] = k => link[g] = link[h]}

\* conn_established and unregister keep the route table in step: while no other
\* connection claims its key, an established connection owns its route as long
\* as its worker runs, and the route points to the latest generation, whose
\* worker has not unregistered (a panicked worker leaves its route behind).
RoutesInStep ==
    \A k \in Orderly :
        /\ \A g \in Gens :
             key[g] = k /\ task[g] \in {"registered", "done"} /\ worker[g] \in {"live", "lost"}
                => routes[k] = g
        /\ LET g == routes[k] IN
           g # 0 => /\ worker[g] \in {"live", "lost", "panicked"}
                    /\ \A h \in Gens : key[h] = k => h <= g

\* A client link that is down is brought up again, unless the store is shut
\* down or a worker of the link panicked.
Reconnects ==
    \A c \in Clients :
        Live(c) = {} ~> \/ Live(c) # {}
                        \/ store # "up"
                        \/ Len(link) = MaxGen
                        \/ \E g \in Gens : link[g] = c /\ worker[g] = "panicked"
=============================================================================
