----------------------------- MODULE MuxProofs -----------------------------
(***************************************************************************)
(* Proofs about the multiplexer of swbusd: its connections and the routes  *)
(* they give (MuxConnections), and the messages that are routed by such    *)
(* tables (MuxRouting).                                                    *)
(*                                                                         *)
(* MuxConnections, for any number of peers, sockets, route keys and        *)
(* generations: no peer is dialled twice at a time, and the route of a key *)
(* that one link uses in order is that of its connection.  Both rest on    *)
(* what is left of a generation when the next one of its link begins       *)
(* (SuccessorInv): its worker is dead, and unless its stream failed early, *)
(* its connect task is done (StagesInv), so that it touches neither routes *)
(* nor trackers any more.                                                  *)
(*                                                                         *)
(* MuxRouting, for any number of swbusds, services and route tables with   *)
(* gateways: whatever a message gives rise to is nearer to its end than it *)
(* is.  Where a response is, with what ttl, follows from who sent it       *)
(* (Underway), so that only its first swbusd can have no route for it.     *)
(***************************************************************************)
EXTENDS MuxConnections, MuxRouting, FiniteSetTheorems, TLAPS

-----------------------------------------------------------------------------
\* Connections and routes of one swbusd.

\* The worker is spawned when the task has connected, and outlives the task
\* unless the stream fails early.
StagesInv ==
    \A g \in Gens :
        /\ task[g] = "connecting" => worker[g] = "none"
        /\ task[g] \in {"connected", "registered"} => worker[g] # "none"
        /\ worker[g] \in {"lost", "unregistered", "dead"} /\ key[g] \notin early => task[g] = "done"

\* A connection is listed, or cancelled, when its task is done.
ListedInv ==
    /\ \A l \in Links, g \in Gens : connections[l] = Conn(g) => task[g] = "done"
    /\ \A g \in Gens : Conn(g) \in cancelled => task[g] = "done"

\* Only a client link has a second generation, and then the first is over.
SuccessorInv ==
    \A g, h \in Gens :
        g < h /\ link[g] = link[h] =>
            link[g] \in Clients /\ worker[g] = "dead" /\ task[g] # "connecting"

\* A route is that of a connection with its key which has been registered.
RouteInv ==
    \A k \in Orderly : routes[k] # 0 =>
        key[routes[k]] = k /\ task[routes[k]] \in {"registered", "done"}

\* The inductive invariant.
ConnInv == TypeOK /\ StagesInv /\ ListedInv /\ SuccessorInv /\ RouteInv /\ RoutesInStep

TaskStates == {"connecting", "connected", "registered", "done"}
WorkerStates == {"none", "live", "lost", "unregistered", "dead", "panicked"}

-----------------------------------------------------------------------------
\* A sequence is a function on 1..Len(s) whose values are in its set.
LEMMA SeqRange ==
    ASSUME NEW S, NEW s \in Seq(S)
    PROVE  Len(s) \in Nat /\ DOMAIN s = 1..Len(s) /\ \A i \in 1..Len(s) : s[i] \in S
  OBVIOUS

\* A sequence with an element put at its end.
LEMMA SeqAppend ==
    ASSUME NEW S, NEW s \in Seq(S), NEW x \in S
    PROVE  /\ Append(s, x) \in Seq(S) /\ Append(s, x) # <<>> /\ Len(Append(s, x)) = Len(s) + 1
           /\ Append(s, x)[Len(s) + 1] = x /\ \A i \in 1..Len(s) : Append(s, x)[i] = s[i]
  OBVIOUS

\* A function on 1..n is a sequence of length n.
LEMMA GenSeq ==
    ASSUME NEW n \in Nat, NEW S, NEW f, f \in [1..n -> S]
    PROVE  f \in Seq(S) /\ Len(f) = n
  <1>1. f \in Seq(S) /\ DOMAIN f = 1..n
    BY DEF Seq
  <1> QED
    BY <1>1, SeqRange

\* NewGen leaves the generations so far alone.
LEMMA NewGenStep ==
    ASSUME TypeOK, NEW l \in Links, NEW k \in RouteKeys, NEW t \in TaskStates,
           NEW w \in WorkerStates, NEW ws \in [Gens -> WorkerStates], NewGen(l, k, t, w, ws)
    PROVE  LET n == Len(link) + 1 IN
           /\ n \in Nat \ {0} /\ n \notin Gens /\ Gens' = Gens \cup {n} /\ \A g \in Gens : g < n
           /\ link' \in Seq(Links) /\ Len(link') = n /\ n <= MaxGen
           /\ key' \in [Gens' -> RouteKeys]
           /\ task' \in [Gens' -> TaskStates]
           /\ worker' \in [Gens' -> WorkerStates]
           /\ link'[n] = l /\ key'[n] = k /\ task'[n] = t /\ worker'[n] = w
           /\ \A g \in Gens : /\ link'[g] = link[g] /\ key'[g] = key[g]
                              /\ task'[g] = task[g] /\ worker'[g] = ws[g]
  <1> DEFINE n == Len(link) + 1
  <1>1. /\ link \in Seq(Links) /\ Len(link) \in Nat /\ MaxGen \in Nat /\ Len(link) < MaxGen
        /\ link' = Append(link, l) /\ key' = Append(key, k)
        /\ task' = Append(task, t) /\ worker' = Append(ws, w)
    BY MuxConnectionsAssumption, SeqRange, Zenon DEF TypeOK, NewGen
  <1>2. /\ key \in [1..Len(link) -> RouteKeys] /\ task \in [1..Len(link) -> TaskStates]
        /\ ws \in [1..Len(link) -> WorkerStates]
    BY Zenon DEF TypeOK, Gens, TaskStates
  <1>3. /\ link' \in Seq(Links) /\ Len(link') = n /\ link'[n] = l
        /\ \A g \in 1..Len(link) : link'[g] = link[g]
    BY <1>1, SeqAppend
  <1>4. /\ key' \in [1..n -> RouteKeys] /\ key'[n] = k
        /\ \A g \in 1..Len(link) : key'[g] = key[g]
    <2>1. key \in Seq(RouteKeys) /\ Len(key) = Len(link)
      BY <1>1, <1>2, GenSeq, Zenon
    <2>2. /\ key' \in Seq(RouteKeys) /\ Len(key') = n /\ key'[n] = k
          /\ \A g \in 1..Len(link) : key'[g] = key[g]
      BY <1>1, <2>1, SeqAppend
    <2> QED
      BY <2>2, SeqRange
  <1>5. /\ task' \in [1..n -> TaskStates] /\ task'[n] = t
        /\ \A g \in 1..Len(link) : task'[g] = task[g]
    <2>1. task \in Seq(TaskStates) /\ Len(task) = Len(link)
      BY <1>1, <1>2, GenSeq, Zenon
    <2>2. /\ task' \in Seq(TaskStates) /\ Len(task') = n /\ task'[n] = t
          /\ \A g \in 1..Len(link) : task'[g] = task[g]
      BY <1>1, <2>1, SeqAppend
    <2> QED
      BY <2>2, SeqRange
  <1>6. /\ worker' \in [1..n -> WorkerStates] /\ worker'[n] = w
        /\ \A g \in 1..Len(link) : worker'[g] = ws[g]
    <2>1. ws \in Seq(WorkerStates) /\ Len(ws) = Len(link)
      BY <1>1, <1>2, GenSeq, Zenon
    <2>2. /\ worker' \in Seq(WorkerStates) /\ Len(worker') = n /\ worker'[n] = w
          /\ \A g \in 1..Len(link) : worker'[g] = ws[g]
      BY <1>1, <2>1, SeqAppend
    <2> QED
      BY <2>2, SeqRange
  <1>7. /\ Gens = 1..Len(link) /\ Gens' = 1..n
        /\ n \in Nat \ {0} /\ n \notin Gens /\ 1..n = (1..Len(link)) \cup {n}
        /\ \A g \in Gens : g < n
    BY <1>1, <1>3 DEF Gens
  <1> HIDE DEF n
  <1>8. n <= MaxGen
    BY <1>1 DEF n
  <1> QED
    BY <1>3, <1>4, <1>5, <1>6, <1>7, <1>8, Zenon DEF n

-----------------------------------------------------------------------------
\* An orderly key is used by the generations of one link, one after another.
LEMMA EarlierDone ==
    ASSUME ConnInv, NEW k \in Orderly, NEW g \in Gens, NEW h \in Gens,
           g < h, key[g] = k, key[h] = k
    PROVE  worker[g] = "dead" /\ task[g] = "done"
  <1>1. link[g] = link[h] /\ key[g] \notin early
    BY Zenon DEF Orderly
  <1> QED
    BY <1>1, Zenon DEF ConnInv, SuccessorInv, StagesInv

\* So a generation whose worker is not dead is the latest with its key.
LEMMA BusyIsLatest ==
    ASSUME ConnInv, NEW k \in Orderly, NEW g \in Gens, key[g] = k, worker[g] # "dead"
    PROVE  \A h \in Gens : key[h] = k => h <= g
  <1> SUFFICES ASSUME NEW h \in Gens, key[h] = k, ~ (h <= g)
               PROVE  FALSE
    BY Zenon
  <1>1. g < h
    BY SeqRange DEF Gens, ConnInv, TypeOK
  <1> QED
    BY <1>1, EarlierDone, Zenon

\* The route, if there is one, is that of the latest generation.
LEMMA RouteOfLatest ==
    ASSUME ConnInv, NEW k \in Orderly, NEW g \in Gens, key[g] = k, worker[g] # "dead",
           routes[k] # 0
    PROVE  /\ routes[k] = g
           /\ task[g] \in {"registered", "done"}
           /\ worker[g] \in {"live", "lost", "panicked"}
  <1>1. routes[k] \in Gens /\ Gens \subseteq Int
    BY SeqRange DEF ConnInv, TypeOK, Gens, Orderly
  <1>2. key[routes[k]] = k /\ task[routes[k]] \in {"registered", "done"}
    BY Zenon DEF ConnInv, RouteInv
  <1>3. g <= routes[k] /\ worker[routes[k]] \in {"live", "lost", "panicked"}
    BY Zenon DEF ConnInv, RoutesInStep
  <1>4. routes[k] <= g
    BY <1>1, <1>2, BusyIsLatest, Zenon
  <1>5. routes[k] \in Int /\ g \in Int
    BY <1>1, Zenon
  <1>6. routes[k] = g
    BY <1>3, <1>4, <1>5
  <1> QED
    BY <1>2, <1>3, <1>6, Zenon

-----------------------------------------------------------------------------
\* The initial state has the invariant.
LEMMA InitConnInv == Init => ConnInv
  <1> SUFFICES ASSUME Init
               PROVE  ConnInv
    BY Zenon
  <1> DEFINE n == Cardinality(Clients)
  <1>1. n \in Nat /\ n <= MaxGen
    BY MuxConnectionsAssumption, FS_CardinalityType, Zenon
  <1>2. link \in [1..n -> Clients] /\ \A c \in Clients : \E g \in 1..n : link[g] = c
    BY Zenon DEF Init
  <1> HIDE DEF n
  <1>3. link \in Seq(Clients) /\ Len(link) = n
    BY <1>1, <1>2, GenSeq, Zenon
  <1>4. Gens = 1..n /\ link \in Seq(Links)
    <2>1. link \in [1..n -> Links]
      BY <1>2, Zenon DEF Links
    <2> QED
      BY <1>1, <1>3, <2>1, GenSeq, Zenon DEF Gens
  <1>5. \A g, h \in Gens : g < h => link[g] # link[h]
    <2>1. IsFiniteSet(1..n) /\ Cardinality(1..n) = n
      BY <1>1, FS_Interval
    <2>2. link \in Surjection(1..n, Clients)
      BY <1>2, Zenon DEF Surjection
    <2>3. link \in Injection(1..n, Clients)
      BY <2>1, <2>2, FS_SurjSameCardinalityImpliesInj, Zenon DEF n
    <2> QED
      BY <1>1, <1>4, <2>3 DEF Injection, IsInjective
  <1>6. TypeOK
    <2>1. key \in [Gens -> RouteKeys] /\ \A g \in Gens : key[g] = PeerKey[link[g]]
      BY <1>2, <1>4, MuxConnectionsAssumption, Zenon DEF Init
    <2>2. unlisted \subseteq {g \in Gens : link[g] \in Clients}
      BY <1>2, <1>4, Zenon DEF Init
    <2>3. /\ connections \in [Links -> Tracker \cup {NoConn}]
          /\ \A l \in Links : connections[l] = NoConn
      BY Zenon DEF Init
    <2>4. routes \in [RouteKeys -> 0..Len(link)]
      BY <1>1, <1>3 DEF Init
    <2> QED
      BY <1>1, <1>3, <1>4, <2>1, <2>2, <2>3, <2>4, Zenon DEF Init, TypeOK
  <1>7. StagesInv /\ ListedInv /\ SuccessorInv
    BY <1>4, <1>5, Zenon DEF Init, StagesInv, ListedInv, SuccessorInv, NoConn, Conn
  <1>8. RouteInv /\ RoutesInStep
    BY Zenon DEF Init, RouteInv, RoutesInStep, Orderly
  <1> QED
    BY <1>6, <1>7, <1>8, Zenon DEF ConnInv

\* While no generation begins, no key becomes orderly.
LEMMA OrderlyKept ==
    ASSUME link' = link, key' = key, early \subseteq early'
    PROVE  Gens' = Gens /\ Orderly' \subseteq Orderly
  BY Zenon DEF Gens, Orderly

\* The generations are positive integers.
LEMMA GensNat ==
    ASSUME TypeOK
    PROVE  Len(link) \in Nat /\ Gens = 1..Len(link) /\ \A g \in Gens : g \in Nat \ {0}
  BY SeqRange DEF TypeOK, Gens

\* A route belongs to a connection that was made.
LEMMA RouteGen ==
    ASSUME TypeOK
    PROVE  \A k \in Orderly : routes[k] # 0 => routes[k] \in Gens
  BY GensNat DEF TypeOK, Orderly

\* The trackers of different connections and tasks are different.
LEMMA TrackersType ==
    ASSUME NEW g \in Gens
    PROVE  /\ Conn(g) \in Tracker /\ Task(g) \in Tracker
           /\ Conn(g) # NoConn /\ Task(g) # NoConn
           /\ Conn(g).gen = g /\ Task(g).gen = g
           /\ \A h \in Gens : (Conn(g) = Conn(h) <=> g = h) /\ Task(g) # Conn(h)
  BY Zenon DEF Conn, Task, NoConn, Tracker

\* A connect task is entered in the list.
LEMMA ListTaskStep ==
    ASSUME ConnInv, NEW g \in Gens, ListTask(g)
    PROVE  ConnInv'
  <1>1. Gens' = Gens /\ Orderly' = Orderly /\ Tracker' = Tracker
    BY DEF ListTask, Gens, Orderly, Tracker
  <1>2. link[g] \in Links
    BY SeqRange, Zenon DEF ConnInv, TypeOK, Gens
  <1>3. TypeOK'
    <2>1. connections' \in [Links -> Tracker \cup {NoConn}]
      BY <1>2, TrackersType, Zenon DEF ConnInv, TypeOK, ListTask
    <2>2. \A l \in Links : connections'[l] # NoConn => link[connections'[l].gen] = l
      BY <1>2, TrackersType, Zenon DEF ConnInv, TypeOK, ListTask
    <2> QED
      BY <1>1, <2>1, <2>2, Zenon DEF ConnInv, TypeOK, ListTask
  <1>4. StagesInv' /\ SuccessorInv' /\ RouteInv' /\ RoutesInStep'
    BY <1>1 DEF ConnInv, ListTask, StagesInv, SuccessorInv, RouteInv, RoutesInStep
  <1>5. ListedInv'
    BY <1>1, <1>2, TrackersType DEF ConnInv, TypeOK, ListedInv, ListTask
  <1> QED
    BY <1>3, <1>4, <1>5, Zenon DEF ConnInv

\* A connect task is cancelled.
LEMMA TaskCancelledStep ==
    ASSUME ConnInv, NEW g \in Gens, TaskCancelled(g)
    PROVE  ConnInv'
  <1>1. Gens' = Gens /\ Orderly' = Orderly /\ Tracker' = Tracker
    BY DEF TaskCancelled, Gens, Orderly, Tracker
  <1>2. /\ task' \in [Gens -> TaskStates] /\ task'[g] = "done" /\ worker[g] = "none"
        /\ \A h \in Gens : h # g => task'[h] = task[h]
    BY Zenon DEF ConnInv, TypeOK, StagesInv, TaskCancelled, TaskStates
  <1>3. TypeOK'
    BY <1>1, <1>2, Zenon DEF ConnInv, TypeOK, TaskCancelled, TaskStates
  <1>4. StagesInv' /\ SuccessorInv' /\ ListedInv'
    BY <1>1, <1>2 DEF ConnInv, TaskCancelled, StagesInv, SuccessorInv, ListedInv, Conn
  <1>5. RouteInv' /\ RoutesInStep'
    BY <1>1, <1>2, RouteGen DEF ConnInv, TaskCancelled, RouteInv, RoutesInStep
  <1> QED
    BY <1>3, <1>4, <1>5, Zenon DEF ConnInv

\* A connect task connects.
LEMMA ConnectStep ==
    ASSUME ConnInv, NEW g \in Gens, Connect(g)
    PROVE  ConnInv'
  <1>1. Gens' = Gens /\ Orderly' = Orderly /\ Tracker' = Tracker
    BY DEF Connect, Gens, Orderly, Tracker
  <1>2. /\ task' \in [Gens -> TaskStates] /\ task'[g] = "connected" /\ task[g] = "connecting"
        /\ worker' \in [Gens -> WorkerStates] /\ worker'[g] = "live" /\ worker[g] = "none"
        /\ \A h \in Gens : h # g => task'[h] = task[h] /\ worker'[h] = worker[h]
    BY Zenon DEF ConnInv, TypeOK, StagesInv, Connect, TaskStates, WorkerStates
  <1>3. TypeOK'
    BY <1>1, <1>2, Zenon DEF ConnInv, TypeOK, Connect, TaskStates, WorkerStates
  <1>4. StagesInv' /\ SuccessorInv' /\ ListedInv'
    BY <1>1, <1>2 DEF ConnInv, Connect, StagesInv, SuccessorInv, ListedInv, Conn
  <1>5. RouteInv' /\ RoutesInStep'
    <2>1. \A k \in Orderly : routes[k] # 0 => routes[k] \in Gens /\ routes[k] # g
      BY <1>2, RouteGen, Zenon DEF ConnInv, RouteInv
    <2> QED
      BY <1>1, <1>2, <2>1 DEF ConnInv, Connect, RouteInv, RoutesInStep
  <1> QED
    BY <1>3, <1>4, <1>5, Zenon DEF ConnInv

\* The route of a new connection is registered.
LEMMA RegisterStep ==
    ASSUME ConnInv, NEW g \in Gens, Register(g)
    PROVE  ConnInv'
  <1>1. Gens' = Gens /\ Orderly' = Orderly /\ Tracker' = Tracker
    BY DEF Register, Gens, Orderly, Tracker
  <1>2. /\ task' \in [Gens -> TaskStates] /\ task'[g] = "registered" /\ task[g] = "connected"
        /\ \A h \in Gens : h # g => task'[h] = task[h]
        /\ worker[g] # "none"
    BY Zenon DEF ConnInv, TypeOK, StagesInv, Register, TaskStates
  <1>3. /\ key[g] \in RouteKeys
        /\ routes' \in [RouteKeys -> 0..Len(link)]
        /\ \A k \in RouteKeys : k # key[g] => routes'[k] = routes[k]
        /\ routes[key[g]] = 0 => routes'[key[g]] = g
    BY GensNat DEF ConnInv, TypeOK, Register
  <1>4. TypeOK'
    BY <1>1, <1>2, <1>3, Zenon DEF ConnInv, TypeOK, Register, TaskStates
  <1>5. StagesInv' /\ SuccessorInv' /\ ListedInv'
    BY <1>1, <1>2 DEF ConnInv, Register, StagesInv, SuccessorInv, ListedInv, Conn
  <1>6. ASSUME NEW k \in Orderly
        PROVE  /\ \A h \in Gens : key[h] = k /\ task'[h] \in {"registered", "done"}
                                    /\ worker[h] \in {"live", "lost"} => routes'[k] = h
               /\ routes'[k] # 0 => /\ worker[routes'[k]] \in {"live", "lost", "panicked"}
                                    /\ \A h \in Gens : key[h] = k => h <= routes'[k]
                                    /\ key[routes'[k]] = k
                                    /\ task'[routes'[k]] \in {"registered", "done"}
    <2>0. k \in RouteKeys
      BY Zenon DEF Orderly
    <2>1. CASE k # key[g]
      BY <1>2, <1>3, <2>0, <2>1, RouteGen DEF ConnInv, RouteInv, RoutesInStep
    <2>2. CASE k = key[g]
      <3>1. worker[g] \in {"live", "panicked"}
        BY <1>2, <2>2, Zenon DEF ConnInv, TypeOK, StagesInv, Orderly
      <3>2. routes[k] = 0 /\ routes'[k] = g
        BY <1>2, <1>3, <2>2, <3>1, RouteOfLatest, Zenon
      <3>3. \A h \in Gens : key[h] = k => h <= g
        BY <2>2, <3>1, BusyIsLatest, Zenon
      <3>4. \A h \in Gens : key[h] = k /\ worker[h] \in {"live", "lost"} => h = g
        <4> SUFFICES ASSUME NEW h \in Gens, key[h] = k, worker[h] \in {"live", "lost"}
                     PROVE  h = g
          BY Zenon
        <4>1. g <= h
          BY <2>2, BusyIsLatest, Zenon
        <4> QED
          BY <3>3, <4>1, GensNat DEF ConnInv
      <3> QED
        BY <1>2, <2>2, <3>1, <3>2, <3>3, <3>4, Zenon
    <2> QED
      BY <2>1, <2>2, Zenon
  <1>7. RouteInv' /\ RoutesInStep'
    BY <1>1, <1>6 DEF Register, RouteInv, RoutesInStep
  <1> QED
    BY <1>4, <1>5, <1>7, Zenon DEF ConnInv

\* A connection is entered in the list.
LEMMA ListConnStep ==
    ASSUME ConnInv, NEW g \in Gens, ListConn(g)
    PROVE  ConnInv'
  <1>1. Gens' = Gens /\ Orderly' = Orderly /\ Tracker' = Tracker
    BY DEF ListConn, Gens, Orderly, Tracker
  <1>2. /\ task' \in [Gens -> TaskStates] /\ task'[g] = "done" /\ task[g] = "registered"
        /\ \A h \in Gens : h # g => task'[h] = task[h]
    BY Zenon DEF ConnInv, TypeOK, ListConn, TaskStates
  <1>3. link[g] \in Links
    BY SeqRange, Zenon DEF ConnInv, TypeOK, Gens
  <1>4. TypeOK'
    <2>1. connections' \in [Links -> Tracker \cup {NoConn}]
      BY <1>3, TrackersType, Zenon DEF ConnInv, TypeOK, ListConn
    <2>2. \A l \in Links : connections'[l] # NoConn => link[connections'[l].gen] = l
      BY <1>3, TrackersType, Zenon DEF ConnInv, TypeOK, ListConn
    <2> QED
      BY <1>1, <1>2, <2>1, <2>2, Zenon DEF ConnInv, TypeOK, ListConn, TaskStates
  <1>5. StagesInv' /\ SuccessorInv'
    BY <1>1, <1>2, Zenon DEF ConnInv, ListConn, StagesInv, SuccessorInv
  <1>6. ListedInv'
    <2>1. \A l \in Links, h \in Gens : connections'[l] = Conn(h) => task'[h] = "done"
      BY <1>2, <1>3, TrackersType DEF ConnInv, TypeOK, ListedInv, ListConn
    <2> QED
      BY <1>1, <1>2, <2>1, Zenon DEF ConnInv, ListedInv, ListConn, Conn
  <1>7. RouteInv' /\ RoutesInStep'
    BY <1>1, <1>2, RouteGen DEF ConnInv, ListConn, RouteInv, RoutesInStep
  <1> QED
    BY <1>4, <1>5, <1>6, <1>7, Zenon DEF ConnInv

\* A stream breaks.
LEMMA StreamLostStep ==
    ASSUME ConnInv, NEW g \in Gens, StreamLost(g)
    PROVE  ConnInv'
  <1>1. Gens' = Gens /\ Orderly' \subseteq Orderly /\ Tracker' = Tracker /\ early \subseteq early'
    BY OrderlyKept, Zenon DEF StreamLost, Gens, Tracker
  <1>2. /\ worker' \in [Gens -> WorkerStates] /\ worker'[g] = "lost" /\ worker[g] = "live"
        /\ \A h \in Gens : h # g => worker'[h] = worker[h]
    BY Zenon DEF ConnInv, TypeOK, StreamLost, WorkerStates
  <1>3. early' \subseteq RouteKeys /\ (task[g] # "done" => key[g] \in early')
    BY DEF ConnInv, TypeOK, StreamLost
  <1>4. TypeOK'
    BY <1>1, <1>2, <1>3, Zenon DEF ConnInv, TypeOK, StreamLost, WorkerStates
  <1>5. StagesInv' /\ SuccessorInv' /\ ListedInv'
    BY <1>1, <1>2, <1>3 DEF ConnInv, StreamLost, StagesInv, SuccessorInv, ListedInv, Conn
  <1>6. RouteInv' /\ RoutesInStep'
    BY <1>1, <1>2, RouteGen DEF ConnInv, StreamLost, RouteInv, RoutesInStep
  <1> QED
    BY <1>4, <1>5, <1>6, Zenon DEF ConnInv

\* unregister by a worker that runs: no other worker with an orderly key does.
LEMMA RouteRemoved ==
    ASSUME ConnInv, NEW g \in Gens, worker[g] \in {"live", "lost"},
           NEW w \in {"unregistered", "dead"}, worker' = [worker EXCEPT ![g] = w],
           routes' = [routes EXCEPT ![key[g]] = 0],
           UNCHANGED <<link, key, task, early>>
    PROVE  RouteInv' /\ RoutesInStep'
  <1>1. Gens' = Gens /\ Orderly' = Orderly
    BY DEF Gens, Orderly
  <1>2. worker'[g] = w /\ \A h \in Gens : h # g => worker'[h] = worker[h]
    BY Zenon DEF ConnInv, TypeOK
  <1>3. routes'[key[g]] = 0 /\ \A k \in RouteKeys : k # key[g] => routes'[k] = routes[k]
    BY Zenon DEF ConnInv, TypeOK
  <1>4. ASSUME NEW k \in Orderly
        PROVE  /\ \A h \in Gens : key[h] = k /\ task[h] \in {"registered", "done"}
                                    /\ worker'[h] \in {"live", "lost"} => routes'[k] = h
               /\ routes'[k] # 0 => /\ worker'[routes'[k]] \in {"live", "lost", "panicked"}
                                    /\ \A h \in Gens : key[h] = k => h <= routes'[k]
                                    /\ key[routes'[k]] = k
                                    /\ task[routes'[k]] \in {"registered", "done"}
    <2>0. k \in RouteKeys
      BY Zenon DEF Orderly
    <2>1. CASE k # key[g]
      <3>1. routes'[k] = routes[k] /\ (routes[k] # 0 => routes[k] \in Gens /\ key[routes[k]] = k)
        BY <1>3, <2>0, <2>1, RouteGen, Zenon DEF ConnInv, RouteInv
      <3> QED
        BY <1>2, <2>1, <3>1 DEF ConnInv, RouteInv, RoutesInStep
    <2>2. CASE k = key[g]
      <3> SUFFICES ASSUME NEW h \in Gens, key[h] = k, worker'[h] \in {"live", "lost"}
                   PROVE  FALSE
        BY <1>3, <2>2, Zenon
      <3>1. h # g /\ worker[h] \in {"live", "lost"}
        BY <1>2, Zenon
      <3>2. g <= h /\ h <= g
        BY <2>2, <3>1, BusyIsLatest, Zenon
      <3> QED
        BY <3>1, <3>2, GensNat DEF ConnInv
    <2> QED
      BY <2>1, <2>2, Zenon
  <1> QED
    BY <1>1, <1>4 DEF RouteInv, RoutesInStep

\* A worker takes its route back.
LEMMA UnregisterStep ==
    ASSUME ConnInv, NEW g \in Gens, Unregister(g)
    PROVE  ConnInv'
  <1>1. Gens' = Gens /\ Tracker' = Tracker
    BY Zenon DEF Unregister, Gens, Tracker
  <1>2. /\ worker' \in [Gens -> WorkerStates] /\ worker'[g] = "unregistered" /\ worker[g] = "lost"
        /\ \A h \in Gens : h # g => worker'[h] = worker[h]
        /\ routes' \in [RouteKeys -> 0..Len(link)]
    BY GensNat DEF ConnInv, TypeOK, Unregister, WorkerStates
  <1>3. TypeOK'
    BY <1>1, <1>2, Zenon DEF ConnInv, TypeOK, Unregister, WorkerStates
  <1>4. StagesInv' /\ SuccessorInv' /\ ListedInv'
    BY <1>1, <1>2 DEF ConnInv, Unregister, StagesInv, SuccessorInv, ListedInv, Conn
  <1>5. RouteInv' /\ RoutesInStep'
    BY RouteRemoved, Zenon DEF Unregister
  <1> QED
    BY <1>3, <1>4, <1>5, Zenon DEF ConnInv

\* A worker is cancelled.
LEMMA WorkerCancelledStep ==
    ASSUME ConnInv, NEW g \in Gens, WorkerCancelled(g)
    PROVE  ConnInv'
  <1>1. Gens' = Gens /\ Tracker' = Tracker
    BY Zenon DEF WorkerCancelled, Gens, Tracker
  <1>2. /\ worker' \in [Gens -> WorkerStates] /\ worker'[g] = "dead" /\ worker[g] = "live"
        /\ \A h \in Gens : h # g => worker'[h] = worker[h]
        /\ routes' \in [RouteKeys -> 0..Len(link)]
        /\ task[g] = "done"
    BY GensNat DEF ConnInv, TypeOK, ListedInv, WorkerCancelled, WorkerStates
  <1>3. TypeOK'
    BY <1>1, <1>2, Zenon DEF ConnInv, TypeOK, WorkerCancelled, WorkerStates
  <1>4. StagesInv' /\ SuccessorInv' /\ ListedInv'
    BY <1>1, <1>2 DEF ConnInv, WorkerCancelled, StagesInv, SuccessorInv, ListedInv, Conn
  <1>5. RouteInv' /\ RoutesInStep'
    BY RouteRemoved, Zenon DEF WorkerCancelled
  <1> QED
    BY <1>3, <1>4, <1>5, Zenon DEF ConnInv

\* A worker panics.
LEMMA WorkerPanicsStep ==
    ASSUME ConnInv, NEW g \in Gens, WorkerPanics(g)
    PROVE  ConnInv'
  <1>1. Gens' = Gens /\ Orderly' = Orderly /\ Tracker' = Tracker
    BY DEF WorkerPanics, Gens, Orderly, Tracker
  <1>2. /\ worker' \in [Gens -> WorkerStates] /\ worker'[g] = "panicked" /\ worker[g] = "live"
        /\ \A h \in Gens : h # g => worker'[h] = worker[h]
    BY Zenon DEF ConnInv, TypeOK, WorkerPanics, WorkerStates
  <1>3. TypeOK'
    BY <1>1, <1>2, Zenon DEF ConnInv, TypeOK, WorkerPanics, WorkerStates
  <1>4. StagesInv' /\ SuccessorInv' /\ ListedInv'
    BY <1>1, <1>2 DEF ConnInv, WorkerPanics, StagesInv, SuccessorInv, ListedInv, Conn
  <1>5. RouteInv' /\ RoutesInStep'
    BY <1>1, <1>2, RouteGen DEF ConnInv, WorkerPanics, RouteInv, RoutesInStep
  <1> QED
    BY <1>3, <1>4, <1>5, Zenon DEF ConnInv

\* The connection store cancels or clears what it tracks.
LEMMA StoreStep ==
    ASSUME ConnInv, Shutdown \/ (\E l \in Links : CancelTracked(l)) \/ ClearTracked
    PROVE  ConnInv'
  <1>1. /\ UNCHANGED <<link, key, task, worker, unlisted, routes, early>>
        /\ Gens' = Gens /\ Orderly' = Orderly /\ Tracker' = Tracker
    <2>1. UNCHANGED <<link, key, task, worker, unlisted, routes, early>>
      BY Zenon DEF Shutdown, CancelTracked, ClearTracked
    <2> QED
      BY <2>1 DEF Gens, Orderly, Tracker
  <1>2. StagesInv' /\ SuccessorInv' /\ RouteInv' /\ RoutesInStep'
    BY <1>1 DEF ConnInv, StagesInv, SuccessorInv, RouteInv, RoutesInStep
  <1>3. CASE Shutdown
    <2>1. TypeOK' /\ ListedInv'
      BY <1>1, <1>3 DEF ConnInv, TypeOK, ListedInv, Shutdown, Conn
    <2> QED
      BY <1>2, <2>1, Zenon DEF ConnInv
  <1>4. ASSUME NEW l \in Links, CancelTracked(l)
        PROVE  ConnInv'
    <2>1. TypeOK' /\ ListedInv'
      BY <1>1, <1>4 DEF ConnInv, TypeOK, ListedInv, CancelTracked, Conn
    <2> QED
      BY <1>2, <2>1, Zenon DEF ConnInv
  <1>5. CASE ClearTracked
    <2>1. TypeOK'
      BY <1>1, <1>5, Zenon DEF ConnInv, TypeOK, ClearTracked, NoConn
    <2>2. ListedInv'
      BY <1>1, <1>5, TrackersType, Zenon DEF ConnInv, ListedInv, ClearTracked, Conn
    <2> QED
      BY <1>2, <2>1, <2>2, Zenon DEF ConnInv
  <1> QED
    BY <1>3, <1>4, <1>5, Zenon

\* A server link is not dialled again.
LEMMA ServerLostStep ==
    ASSUME ConnInv, NEW g \in Gens, ConnLost(g), link[g] \notin Clients
    PROVE  ConnInv'
  <1>0. link[g] \in Links
    BY SeqRange, Zenon DEF ConnInv, TypeOK, Gens
  <1>1. /\ worker[g] = "unregistered" /\ worker' = [worker EXCEPT ![g] = "dead"]
        /\ connections' = [connections EXCEPT ![link[g]] = NoConn]
        /\ UNCHANGED <<link, key, task, unlisted, routes, cancelled, early, store, passed>>
    BY Zenon DEF ConnLost
  <1>2. Gens' = Gens /\ Orderly' = Orderly /\ Tracker' = Tracker
    BY <1>1 DEF Gens, Orderly, Tracker
  <1>3. /\ worker' \in [Gens -> WorkerStates] /\ worker'[g] = "dead"
        /\ \A h \in Gens : h # g => worker'[h] = worker[h]
    BY <1>1, Zenon DEF ConnInv, TypeOK, WorkerStates
  <1>4. /\ connections' \in [Links -> Tracker \cup {NoConn}]
        /\ \A l \in Links : connections'[l] \in {connections[l], NoConn}
    BY <1>0, <1>1, Zenon DEF ConnInv, TypeOK
  <1>5. TypeOK'
    BY <1>1, <1>2, <1>3, <1>4, Zenon DEF ConnInv, TypeOK, WorkerStates
  <1>6. StagesInv' /\ SuccessorInv'
    BY <1>1, <1>2, <1>3, Zenon DEF ConnInv, StagesInv, SuccessorInv
  <1>7. ListedInv'
    BY <1>1, <1>2, <1>4, TrackersType DEF ConnInv, ListedInv, Conn
  <1>8. RouteInv' /\ RoutesInStep'
    BY <1>1, <1>2, <1>3, RouteGen DEF ConnInv, RouteInv, RoutesInStep
  <1> QED
    BY <1>5, <1>6, <1>7, <1>8, Zenon DEF ConnInv

\* A generation begins while the generations of its link before it are over,
\* and its key, if it is orderly then, has no route.
Begins(l, k, t, w, ws) ==
    /\ l \in Links /\ k \in RouteKeys
    /\ ws \in [Gens -> WorkerStates]
    /\ NewGen(l, k, t, w, ws)
    /\ (t = "connecting" /\ w = "none") \/ (t = "connected" /\ w = "live")
    /\ l \in Clients => k = PeerKey[l]
    /\ \A g \in Gens : link[g] = l => l \in Clients /\ ws[g] = "dead" /\ task[g] # "connecting"
    /\ \A g \in Gens : ws[g] = worker[g] \/ (worker[g] = "unregistered" /\ ws[g] = "dead")
    /\ k \in Orderly' => routes[k] = 0
    /\ unlisted' \subseteq unlisted \cup {Len(link) + 1} /\ (l \notin Clients => unlisted' = unlisted)
    /\ connections' \in [Links -> Tracker \cup {NoConn}]
    /\ \A m \in Links : connections'[m] \in {connections[m], NoConn}
    /\ UNCHANGED <<routes, cancelled, early, store, passed>>

\* A connect task or a connection more.
LEMMA NewGenConnInv ==
    ASSUME ConnInv, NEW l, NEW k, NEW t, NEW w, NEW ws, Begins(l, k, t, w, ws)
    PROVE  ConnInv'
  <1> DEFINE n == Len(link) + 1
  <1>0. /\ l \in Links /\ k \in RouteKeys /\ ws \in [Gens -> WorkerStates]
        /\ (t = "connecting" /\ w = "none") \/ (t = "connected" /\ w = "live")
        /\ routes' = routes /\ cancelled' = cancelled /\ early' = early /\ store' = store /\ passed' = passed
    BY Zenon DEF Begins
  <1>a. /\ \A g \in Gens : link[g] = l => l \in Clients /\ ws[g] = "dead" /\ task[g] # "connecting"
        /\ \A g \in Gens : ws[g] = worker[g] \/ (worker[g] = "unregistered" /\ ws[g] = "dead")
    BY Zenon DEF Begins
  <1>b. /\ connections' \in [Links -> Tracker \cup {NoConn}]
        /\ \A m \in Links : connections'[m] \in {connections[m], NoConn}
    BY Zenon DEF Begins
  <1>c. (l \in Clients => k = PeerKey[l]) /\ (k \in Orderly' => routes[k] = 0)
    BY Zenon DEF Begins
  <1>d. /\ n \in Nat \ {0} /\ n \notin Gens /\ Gens' = Gens \cup {n} /\ \A g \in Gens : g < n
        /\ link' \in Seq(Links) /\ Len(link') = n /\ n <= MaxGen
        /\ key' \in [Gens' -> RouteKeys]
        /\ task' \in [Gens' -> TaskStates]
        /\ worker' \in [Gens' -> WorkerStates]
        /\ link'[n] = l /\ key'[n] = k /\ task'[n] = t /\ worker'[n] = w
        /\ \A g \in Gens : /\ link'[g] = link[g] /\ key'[g] = key[g]
                           /\ task'[g] = task[g] /\ worker'[g] = ws[g]
    <2>1. t \in TaskStates /\ w \in WorkerStates
      BY <1>0, Zenon DEF TaskStates, WorkerStates
    <2>2. TypeOK /\ NewGen(l, k, t, w, ws)
      BY Zenon DEF ConnInv, Begins
    <2> QED
      BY <1>0, <2>1, <2>2, NewGenStep
  <1>2. unlisted' \subseteq unlisted \cup {n} /\ (l \notin Clients => unlisted' = unlisted)
    BY Zenon DEF Begins
  <1>3. \A r \in 0..Len(link) : r \in 0..n /\ (r # 0 => r \in Gens)
    BY GensNat DEF ConnInv
  <1> HIDE DEF n
  <1>1. /\ n \notin Gens /\ Gens' = Gens \cup {n}
        /\ link'[n] = l /\ key'[n] = k /\ task'[n] = t /\ worker'[n] = w
        /\ \A g \in Gens : /\ link'[g] = link[g] /\ key'[g] = key[g]
                           /\ task'[g] = task[g] /\ worker'[g] = ws[g]
    BY <1>d, Zenon
  <1>4. Orderly' \subseteq Orderly
    BY <1>0, <1>1 DEF Orderly
  <1>5. TypeOK'
    <2>0. /\ unlisted \subseteq {g \in Gens : link[g] \in Clients}
          /\ \A g \in Gens : link[g] \in Clients => key[g] = PeerKey[link[g]]
      BY Zenon DEF ConnInv, TypeOK
    <2>1. /\ unlisted' \subseteq {g \in Gens' : link'[g] \in Clients}
          /\ \A g \in Gens' : link'[g] \in Clients => key'[g] = PeerKey[link'[g]]
      BY <1>c, <1>1, <1>2, <2>0, Zenon
    <2>2. Tracker \subseteq Tracker' /\ \A c \in Tracker : c.gen \in Gens
      BY <1>1, Zenon DEF Tracker
    <2>3. /\ connections' \in [Links -> Tracker' \cup {NoConn}]
          /\ \A m \in Links : connections'[m] # NoConn => link'[connections'[m].gen] = m
      <3>1. connections' \in [Links -> Tracker' \cup {NoConn}]
        BY <1>b, <2>2, Zenon
      <3>2. ASSUME NEW m \in Links, connections'[m] # NoConn
            PROVE  link'[connections'[m].gen] = m
        <4>1. connections'[m] = connections[m] /\ connections[m] \in Tracker
          BY <1>b, <3>2 DEF ConnInv, TypeOK
        <4>2. connections[m].gen \in Gens /\ link[connections[m].gen] = m
          BY <2>2, <3>2, <4>1, Zenon DEF ConnInv, TypeOK
        <4> QED
          BY <1>1, <4>1, <4>2, Zenon
      <3> QED
        BY <3>1, <3>2, Zenon
    <2>4. routes' \in [RouteKeys -> 0..n] /\ cancelled' \subseteq Tracker'
      BY <1>0, <1>3, <2>2, Zenon DEF ConnInv, TypeOK
    <2> QED
      BY <1>0, <1>d, <2>1, <2>3, <2>4, Zenon DEF ConnInv, TypeOK, TaskStates, WorkerStates
  <1>6. StagesInv'
    <2> SUFFICES ASSUME NEW g \in Gens'
                 PROVE  /\ task'[g] = "connecting" => worker'[g] = "none"
                        /\ task'[g] \in {"connected", "registered"} => worker'[g] # "none"
                        /\ worker'[g] \in {"lost", "unregistered", "dead"} /\ key'[g] \notin early
                             => task'[g] = "done"
      BY <1>0, Zenon DEF StagesInv
    <2>1. CASE g \in Gens
      BY <1>a, <1>1, <2>1 DEF ConnInv, StagesInv
    <2>2. CASE g = n
      BY <1>0, <1>1, <2>2, Zenon
    <2> QED
      BY <1>1, <2>1, <2>2, Zenon
  <1>7. SuccessorInv'
    <2> SUFFICES ASSUME NEW g \in Gens', NEW h \in Gens', g < h, link'[g] = link'[h]
                 PROVE  link'[g] \in Clients /\ worker'[g] = "dead" /\ task'[g] # "connecting"
      BY Zenon DEF SuccessorInv
    <2>1. g \in Gens
      BY <1>d, GensNat DEF ConnInv
    <2>2. CASE h \in Gens
      BY <1>a, <1>1, <2>1, <2>2, Zenon DEF ConnInv, SuccessorInv
    <2>3. CASE h = n
      BY <1>a, <1>1, <2>1, <2>3, Zenon
    <2> QED
      BY <1>1, <2>2, <2>3, Zenon
  <1>8. ListedInv'
    <2>1. \A m \in Links : connections[m] # Conn(n)
      BY <1>1 DEF ConnInv, TypeOK, Tracker, Conn, NoConn
    <2>2. Conn(n) \notin cancelled
      BY <1>1, Zenon DEF ConnInv, TypeOK, Tracker, Conn
    <2>3. NoConn # Conn(n) /\ \A g \in Gens : NoConn # Conn(g)
      BY Zenon DEF NoConn, Conn
    <2>4. \A m \in Links, g \in Gens' : connections'[m] = Conn(g) => task'[g] = "done"
      BY <1>b, <1>1, <2>1, <2>3 DEF ConnInv, ListedInv
    <2>5. \A g \in Gens' : Conn(g) \in cancelled => task'[g] = "done"
      BY <1>1, <2>2, Zenon DEF ConnInv, ListedInv
    <2> QED
      BY <1>0, <2>4, <2>5, Zenon DEF ListedInv, Conn
  <1>9. RouteInv' /\ RoutesInStep'
    <2>1. ASSUME NEW j \in Orderly'
          PROVE  /\ \A g \in Gens' : key'[g] = j /\ task'[g] \in {"registered", "done"}
                                       /\ worker'[g] \in {"live", "lost"} => routes[j] = g
                 /\ routes[j] # 0 => /\ worker'[routes[j]] \in {"live", "lost", "panicked"}
                                     /\ \A g \in Gens' : key'[g] = j => g <= routes[j]
                                     /\ key'[routes[j]] = j
                                     /\ task'[routes[j]] \in {"registered", "done"}
      <3>1. j \in Orderly
        BY <1>4, Zenon
      <3>2. \A g \in Gens' : key'[g] = j /\ task'[g] \in {"registered", "done"}
                               /\ worker'[g] \in {"live", "lost"} => routes[j] = g
        <4> SUFFICES ASSUME NEW g \in Gens', key'[g] = j, task'[g] \in {"registered", "done"},
                            worker'[g] \in {"live", "lost"}
                     PROVE  routes[j] = g
          BY Zenon
        <4>1. g \in Gens
          BY <1>0, <1>1, Zenon
        <4>2. key[g] = j /\ task[g] \in {"registered", "done"} /\ worker[g] \in {"live", "lost"}
          BY <1>a, <1>1, <4>1, Zenon
        <4> QED
          BY <3>1, <4>1, <4>2, Zenon DEF ConnInv, RoutesInStep
      <3>3. ASSUME routes[j] # 0
            PROVE  /\ worker'[routes[j]] \in {"live", "lost", "panicked"}
                   /\ \A g \in Gens' : key'[g] = j => g <= routes[j]
                   /\ key'[routes[j]] = j
                   /\ task'[routes[j]] \in {"registered", "done"}
        <4>1. routes[j] \in Gens /\ j # k
          BY <1>c, <3>1, <3>3, RouteGen, Zenon DEF ConnInv
        <4>2. /\ worker[routes[j]] \in {"live", "lost", "panicked"}
              /\ \A g \in Gens : key[g] = j => g <= routes[j]
              /\ key[routes[j]] = j /\ task[routes[j]] \in {"registered", "done"}
          BY <3>1, <3>3, Zenon DEF ConnInv, RouteInv, RoutesInStep
        <4>3. worker'[routes[j]] = worker[routes[j]]
          BY <1>a, <1>1, <4>1, <4>2, Zenon
        <4> QED
          BY <1>1, <4>1, <4>2, <4>3, Zenon
      <3> QED
        BY <3>2, <3>3, Zenon
    <2> QED
      BY <1>0, <2>1, Zenon DEF RouteInv, RoutesInStep
  <1> QED
    BY <1>5, <1>6, <1>7, <1>8, <1>9, Zenon DEF ConnInv

\* A peer is dialled again when its worker has unregistered: no other
\* generation of the link is left.
LEMMA PeerLostStep ==
    ASSUME ConnInv, NEW g \in Gens, ConnLost(g), link[g] \in Clients
    PROVE  ConnInv'
  <1> DEFINE ws == [worker EXCEPT ![g] = "dead"]
  <1>0. link[g] \in Links /\ key[g] \in RouteKeys /\ key[g] = PeerKey[link[g]]
    BY Zenon DEF ConnInv, TypeOK, Links
  <1>1. /\ worker[g] = "unregistered" /\ NewGen(link[g], key[g], "connecting", "none", ws)
        /\ unlisted' = unlisted \cup {Len(link) + 1}
        /\ connections' = [connections EXCEPT ![link[g]] = NoConn]
        /\ UNCHANGED <<routes, cancelled, early, store, passed>>
    BY MuxConnectionsAssumption, Zenon DEF ConnLost
  <1>2. /\ ws \in [Gens -> WorkerStates] /\ ws[g] = "dead"
        /\ \A h \in Gens : h # g => ws[h] = worker[h]
    BY Zenon DEF ConnInv, TypeOK, WorkerStates
  <1> HIDE DEF ws
  <1>3. /\ connections' \in [Links -> Tracker \cup {NoConn}]
        /\ \A m \in Links : connections'[m] \in {connections[m], NoConn}
    BY <1>0, <1>1, Zenon DEF ConnInv, TypeOK
  <1>4. ASSUME NEW h \in Gens, link[h] = link[g]
        PROVE  ws[h] = "dead" /\ task[h] # "connecting"
    <2>1. CASE h = g
      BY <1>1, <1>2, <2>1, Zenon DEF ConnInv, StagesInv
    <2>2. CASE h < g
      BY <1>2, <1>4, <2>2, Zenon DEF ConnInv, SuccessorInv
    <2>3. CASE g < h
      BY <1>1, <1>4, <2>3, Zenon DEF ConnInv, SuccessorInv
    <2> QED
      BY <2>1, <2>2, <2>3, GensNat DEF ConnInv
  <1>5. key[g] \in Orderly' => routes[key[g]] = 0
    <2>0. "connecting" \in TaskStates /\ "none" \in WorkerStates /\ TypeOK
      BY Zenon DEF ConnInv, TaskStates, WorkerStates
    <2>1. /\ Gens \subseteq Gens' /\ \A h \in Gens : link'[h] = link[h] /\ key'[h] = key[h]
      BY <1>0, <1>1, <1>2, <2>0, NewGenStep
    <2>2. Orderly' \subseteq Orderly
      BY <1>1, <2>1 DEF Orderly
    <2> QED
      BY <1>1, <2>2, RouteOfLatest, Zenon
  <1>6. Begins(link[g], key[g], "connecting", "none", ws)
    <2>1. \A h \in Gens : ws[h] = worker[h] \/ (worker[h] = "unregistered" /\ ws[h] = "dead")
      <3>1. worker[g] = "unregistered"
        BY <1>1, Zenon
      <3> QED
        BY <1>2, <3>1, Zenon
    <2> QED
      BY <1>0, <1>1, <1>2, <1>3, <1>4, <1>5, <2>1, Zenon DEF Begins
  <1> QED
    BY <1>6, NewGenConnInv, Zenon

\* A socket is a link of its own: a key it shares with a generation before is
\* not orderly any more.
LEMMA AcceptStep ==
    ASSUME ConnInv, NEW s \in Servers, Accept(s)
    PROVE  ConnInv'
  <1>0. s \in Links /\ s \notin Clients
    BY MuxConnectionsAssumption, Zenon DEF Links
  <1>1. PICK k \in RouteKeys : NewGen(s, k, "connected", "live", worker)
    BY Zenon DEF Accept
  <1>2. /\ \A g \in Gens : link[g] # s
        /\ UNCHANGED <<unlisted, connections, routes, cancelled, early, store, passed>>
    BY Zenon DEF Accept
  <1>3. "connected" \in TaskStates /\ "live" \in WorkerStates /\ worker \in [Gens -> WorkerStates]
    BY Zenon DEF ConnInv, TypeOK, TaskStates, WorkerStates
  <1>4. k \in Orderly' => routes[k] = 0
    <2>1. /\ Gens \subseteq Gens' /\ Len(link) + 1 \in Gens'
          /\ link'[Len(link) + 1] = s /\ key'[Len(link) + 1] = k
          /\ \A h \in Gens : link'[h] = link[h] /\ key'[h] = key[h]
      BY <1>0, <1>1, <1>3, NewGenStep DEF ConnInv
    <2>2. Orderly' \subseteq Orderly
      BY <1>2, <2>1 DEF Orderly
    <2>3. k \in Orderly' => \A h \in Gens : key[h] # k
      BY <1>2, <2>1, Zenon DEF Orderly
    <2> QED
      BY <2>2, <2>3, RouteGen, Zenon DEF ConnInv, RouteInv
  <1>5. /\ connections' \in [Links -> Tracker \cup {NoConn}]
        /\ \A m \in Links : connections'[m] \in {connections[m], NoConn}
    BY <1>2, Zenon DEF ConnInv, TypeOK
  <1>6. Begins(s, k, "connected", "live", worker)
    BY <1>0, <1>1, <1>2, <1>3, <1>4, <1>5, Zenon DEF Begins
  <1> QED
    BY <1>6, NewGenConnInv, Zenon

-----------------------------------------------------------------------------
\* Every step keeps the inductive invariant.
LEMMA NextConnInv == ConnInv /\ [Next]_vars => ConnInv'
  <1> SUFFICES ASSUME ConnInv, [Next]_vars
               PROVE  ConnInv'
    BY Zenon
  <1>1. ASSUME NEW g \in Gens, ConnLost(g)
        PROVE  ConnInv'
    BY <1>1, PeerLostStep, ServerLostStep, Zenon
  <1>2. CASE UNCHANGED vars
    <2>1. Gens' = Gens /\ Orderly' = Orderly /\ Tracker' = Tracker
      BY <1>2 DEF vars, Gens, Orderly, Tracker
    <2>2. TypeOK'
      BY <1>2, <2>1, Zenon DEF vars, ConnInv, TypeOK
    <2>3. StagesInv' /\ ListedInv' /\ SuccessorInv'
      BY <1>2, <2>1, Zenon DEF vars, ConnInv, StagesInv, ListedInv, SuccessorInv, Conn
    <2>4. RouteInv' /\ RoutesInStep'
      BY <1>2, <2>1 DEF vars, ConnInv, RouteInv, RoutesInStep
    <2> QED
      BY <2>2, <2>3, <2>4, Zenon DEF ConnInv
  <1> QED
    BY <1>1, <1>2, ListTaskStep, TaskCancelledStep, ConnectStep, RegisterStep, ListConnStep,
       StreamLostStep, UnregisterStep, WorkerCancelledStep, WorkerPanicsStep, AcceptStep, StoreStep, Zenon
       DEF Next

\* The connections, trackers and routes of a swbusd satisfy the inductive
\* invariant, however its connect tasks, workers and shutdown interleave.
THEOREM ConnInvariant == Spec => []ConnInv
  BY InitConnInv, NextConnInv, PTL DEF Spec

\* The state of the connection store and of the routes is typed; a tracker is
\* that of a generation of its link.
THEOREM TypeCorrect == Spec => []TypeOK
  <1>1. ConnInv => TypeOK
    BY Zenon DEF ConnInv
  <1> QED
    BY <1>1, ConnInvariant, PTL

\* conn_established, conn_lost and unregister keep the route of an orderly key
\* in step with its connection.
THEOREM RoutesInStepAlways == Spec => []RoutesInStep
  <1>1. ConnInv => RoutesInStep
    BY Zenon DEF ConnInv
  <1> QED
    BY <1>1, ConnInvariant, PTL

\* conn_lost dials a peer only when nothing is left of the generation before:
\* at most one generation of a peer dials or has a worker.
THEOREM OneDiallerAlways == Spec => []OneDialler
  <1>1. ASSUME ConnInv
        PROVE  OneDialler
    <2> SUFFICES ASSUME NEW c \in Clients
                 PROVE  Cardinality({g \in Gens : link[g] = c /\ Busy(g)}) <= 1
      BY Zenon DEF OneDialler
    <2> DEFINE S == {g \in Gens : link[g] = c /\ Busy(g)}
    <2>1. \A g, h \in S : g = h
      <3>1. \A g \in S : g \in Gens /\ link[g] = c /\ worker[g] # "dead"
        BY <1>1, Zenon DEF Busy, ConnInv, StagesInv
      <3> QED
        BY <1>1, <3>1, GensNat DEF ConnInv, SuccessorInv
    <2> HIDE DEF S
    <2>2. CASE S = {}
      BY <2>2, FS_EmptySet DEF S
    <2>3. CASE S # {}
      <3>1. PICK g \in S : S = {g}
        BY <2>1, <2>3, Zenon
      <3> QED
        BY <3>1, FS_Singleton DEF S
    <2> QED
      BY <2>2, <2>3, Zenon
  <1> QED
    BY <1>1, ConnInvariant, PTL

-----------------------------------------------------------------------------
\* Messages routed by the tables of several swbusds.

\* Where swbusd n sends a message for dst.
Entry(n, dst) == tables[n][Prefix(FirstStage(n, dst), dst)]

\* How far a message is from its end: the request, its answers, the errors about
\* answers, and those about errors.  An error about an error goes back to the swbusd
\* that made it.
IsError(m) == m.body = "Response" /\ m.dst # request.src
Level(m) ==
    CASE m.body # "Response" -> 7
      [] m.body = "Response" /\ m.dst = request.src -> 6
      [] IsError(m) /\ m.src[2] = "none" /\ m.dst[2] # "none" -> IF m.src[1] = m.dst[1] THEN 3 ELSE 5
      [] IsError(m) /\ m.src[2] # "none" /\ m.dst[2] = "none" -> IF m.src[1] = m.dst[1] THEN 2 ELSE 4
      [] IsError(m) /\ m.src[2] = "none" /\ m.dst[2] = "none" -> IF m.src[1] = m.dst[1] THEN 1 ELSE 2

Nearer(x, m) ==
    \/ Level(x) < Level(m)
    \/ Level(x) = Level(m) /\ LessOne(x.ttl) < LessOne(m.ttl)
    \/ Level(x) = Level(m) /\ x.ttl = m.ttl /\ m.fresh /\ ~x.fresh

\* A routed message is replaced by messages nearer to their end, or by none.
NearsEnd ==
    [][Gateways /\ Connected /\ msgs' # msgs =>
         \E m \in msgs : msgs \ msgs' = {m} /\ \A x \in msgs' \ msgs : Nearer(x, m)]_routingVars

\* A response is at the swbusd it comes from, where it goes to, or at a gateway between.
Underway(m) ==
    /\ m.at = m.src[1] => m.ttl = DefaultTtl
    /\ \/ m.at \in {m.src[1], m.dst[1]}
       \/ /\ m.src[1] # m.dst[1] /\ m.ttl = DefaultTtl - 1
          /\ tables[m.at][Prefix(2, m.dst)] = Swbusd(m.dst[1])

\* Who sends a response to whom: a service only answers the request, or a swbusd.
Parties(m) ==
    \/ m.src[2] = "none"
    \/ m.dst = request.src
    \/ m.dst[2] = "none" /\ m.src # request.src

RequestInv ==
    /\ request.src \in Nodes \X Services /\ request.at = request.src[1]
    /\ \A m \in msgs :
         IF m.body = "Response"
         THEN m.code # "none" /\ m.src[1] \in Nodes /\ m.dst[1] \in Nodes
         ELSE m.src = request.src

ResponseInv == \A m \in msgs : m.body = "Response" => Parties(m) /\ Underway(m)

\* The inductive invariant of routing.
RoutingInv == RoutingTypeOK /\ RequestInv /\ (Gateways /\ Connected => ResponseInv)

\* What becomes of a message: it goes on, or it is answered where it is.
Onward(x, m) ==
    /\ x \in Message /\ x.src = m.src /\ x.dst = m.dst /\ x.body = m.body /\ x.code = m.code
    /\ \/ m.body # "Response" /\ m.fresh /\ ~x.fresh /\ x.ttl = m.ttl
       \/ /\ x.ttl = LessOne(m.ttl) /\ x.ttl # 0 /\ FirstStage(m.at, m.dst) # 0
          /\ Entry(m.at, m.dst) = Swbusd(x.at)

Answer(x, m) ==
    /\ x \in Message /\ x.body = "Response" /\ x.code # "none"
    /\ x.at = m.at /\ x.ttl = DefaultTtl /\ x.dst = m.src /\ x.src[1] = m.at
    /\ \/ x.src = Swbusd(m.at) /\ m.body # "Response"
       \/ x.src = Swbusd(m.at) /\ FirstStage(m.at, m.dst) = 0
       \/ /\ x.src = Swbusd(m.at) /\ m.ttl = 1 /\ FirstStage(m.at, m.dst) # 0
          /\ Entry(m.at, m.dst) # Local
       \/ x.src = m.dst /\ m.body # "Response"
       \/ /\ x.src = m.dst /\ m.dst[2] # "none" /\ FirstStage(m.at, m.dst) # 0
          /\ Entry(m.at, m.dst) = Local

-----------------------------------------------------------------------------
\* The four prefixes of a path.
LEMMA PrefixIs ==
    ASSUME NEW p
    PROVE  /\ Prefix(1, p) = <<"service", p[1], p[2]>> /\ Prefix(2, p) = <<"node", p[1], "none">>
           /\ Prefix(3, p) = <<"cluster", ClusterOf[p[1]], "none">>
           /\ Prefix(4, p) = <<"region", RegionOf[p[1]], "none">>
  BY DEF Prefix

\* Prefixes of different stages differ.
LEMMA PrefixStage ==
    ASSUME NEW s \in Stages, NEW t \in Stages, NEW p, NEW q, Prefix(s, p) = Prefix(t, q)
    PROVE  s = t /\ (s = 1 => p[1] = q[1] /\ p[2] = q[2]) /\ (s = 2 => p[1] = q[1])
  <1>1. s \in {1, 2, 3, 4} /\ t \in {1, 2, 3, 4}
    BY DEF Stages
  <1>2. s = 1 => t = 1 /\ p[1] = q[1] /\ p[2] = q[2]
    BY <1>1 DEF Prefix
  <1>3. s = 2 => t = 2 /\ p[1] = q[1]
    BY <1>1 DEF Prefix
  <1>4. s = 3 => t = 3
    BY <1>1, Zenon DEF Prefix
  <1>5. s = 4 => t = 4
    BY <1>1, Zenon DEF Prefix
  <1> QED
    BY <1>1, <1>2, <1>3, <1>4, <1>5, Zenon

\* The prefixes of a swbusd and its services are the same from the node on.
LEMMA PrefixSwbusd ==
    ASSUME NEW s \in 2..4, NEW p
    PROVE  Prefix(s, p) = Prefix(s, Swbusd(p[1]))
  <1>1. s \in {2, 3, 4}
    OBVIOUS
  <1>2. Swbusd(p[1])[1] = p[1]
    BY Zenon DEF Swbusd
  <1> QED
    BY <1>1, <1>2, PrefixIs, Zenon

\* Every prefix of a path is a key.
LEMMA PrefixKey ==
    ASSUME NEW s \in Stages, NEW p \in Paths
    PROVE  Prefix(s, p) \in Keys
  BY DEF Keys

\* The stage a lookup ends with.
LEMMA FirstStageIs ==
    ASSUME NEW n, NEW dst
    PROVE  \/ FirstStage(n, dst) = 0 /\ \A s \in Stages : tables[n][Prefix(s, dst)] = None
           \/ /\ FirstStage(n, dst) \in Stages /\ Entry(n, dst) # None
              /\ \A s \in Stages : s < FirstStage(n, dst) => tables[n][Prefix(s, dst)] = None
  <1> DEFINE hits == {s \in Stages : tables[n][Prefix(s, dst)] # None}
  <1>1. CASE hits = {}
    BY <1>1, Zenon DEF FirstStage
  <1>2. CASE hits # {}
    <2>1. hits \subseteq 1..4
      BY Zenon DEF Stages
    <2> HIDE DEF hits
    <2>2. \E s \in hits : \A t \in hits : s <= t
      <3>1. \A n1 \in hits : n1 \in {1, 2, 3, 4}
        BY <2>1
      <3>2. CASE 1 \in hits
        BY <3>1, <3>2
      <3>3. CASE 1 \notin hits /\ 2 \in hits
        BY <3>1, <3>3
      <3>4. CASE 1 \notin hits /\ 2 \notin hits /\ 3 \in hits
        BY <3>1, <3>4
      <3>5. CASE hits = {4}
        BY <3>5
      <3> QED
        BY <1>2, <3>1, <3>2, <3>3, <3>4, <3>5, Zenon
    <2>3. FirstStage(n, dst) = CHOOSE s \in hits : \A t \in hits : s <= t
      BY <1>2, Zenon DEF FirstStage, hits
    <2>4. FirstStage(n, dst) \in hits /\ \A t \in hits : FirstStage(n, dst) <= t
      BY <2>2, <2>3, Zenon
    <2> QED
      BY <2>4 DEF hits, Entry, Stages
  <1> QED
    BY <1>1, <1>2, Zenon

\* Paths are pairs, and None and Local are nobody's.
LEMMA PathPair ==
    /\ \A p \in Paths : p = <<p[1], p[2]>> /\ p[1] \in Places /\ p[2] \in Services \cup {"none"}
    /\ None \notin Paths /\ Local \notin Paths /\ None # Local
    /\ \A n \in Places : Swbusd(n) \in Paths /\ Swbusd(n)[1] = n /\ Swbusd(n)[2] = "none"
  BY MuxRoutingAssumption DEF Paths, None, Local, Swbusd

\* What can be under a prefix at n: n itself, one of its services, or another swbusd
\* with that prefix.
LEMMA HopUnder ==
    ASSUME NEW n \in Nodes, NEW s \in Stages, NEW p \in Paths,
           NEW h \in NextHops(n, Prefix(s, p)), h # None
    PROVE  \/ h = Local /\ s = 2 /\ p[1] = n
           \/ h = p /\ s = 1 /\ p[1] = n /\ p[2] \in Services
           \/ s # 1 /\ \E g \in Nodes \ {n} : h = Swbusd(g) /\ Prefix(s, p) = Prefix(s, Swbusd(g))
  <1>1. CASE Prefix(s, p) = Prefix(2, Swbusd(n))
    <2>1. h = Local
      BY <1>1, Zenon DEF NextHops
    <2>2. s = 2 /\ p[1] = Swbusd(n)[1]
      BY <1>1, PrefixStage DEF Stages
    <2> QED
      BY <2>1, <2>2, Zenon DEF Swbusd
  <1>2. CASE Prefix(s, p) # Prefix(2, Swbusd(n))
    <2>1. \/ \E t \in Services : h = <<n, t>> /\ Prefix(s, p) = Prefix(1, <<n, t>>)
          \/ \E g \in Nodes \ {n} : h = Swbusd(g) /\ \E st \in 2..4 : Prefix(s, p) = Prefix(st, Swbusd(g))
      BY <1>2, Zenon DEF NextHops
    <2>2. ASSUME NEW t \in Services, h = <<n, t>>, Prefix(s, p) = Prefix(1, <<n, t>>)
          PROVE  h = p /\ s = 1 /\ p[1] = n /\ p[2] \in Services
      <3>1. s = 1 /\ p[1] = <<n, t>>[1] /\ p[2] = <<n, t>>[2]
        BY <2>2, PrefixStage DEF Stages
      <3>2. p = <<p[1], p[2]>>
        BY PathPair, Zenon
      <3> QED
        BY <2>2, <3>1, <3>2, Zenon
    <2>3. ASSUME NEW g \in Nodes \ {n}, NEW st \in 2..4, h = Swbusd(g),
                 Prefix(s, p) = Prefix(st, Swbusd(g))
          PROVE  s # 1 /\ h = Swbusd(g) /\ Prefix(s, p) = Prefix(s, Swbusd(g))
      <3>1. st \in Stages /\ st # 1
        BY DEF Stages
      <3>2. s = st
        BY <2>3, <3>1, PrefixStage
      <3> QED
        BY <2>3, <3>1, <3>2, Zenon
    <2> QED
      BY <2>1, <2>2, <2>3, Zenon
  <1> QED
    BY <1>1, <1>2, Zenon

\* The next hop of a message: itself, the service it is for, or another swbusd.
LEMMA Hop ==
    ASSUME RoutingTypeOK, NEW n \in Nodes, NEW dst \in Paths, FirstStage(n, dst) # 0
    PROVE  \/ Entry(n, dst) = Local /\ dst[1] = n
           \/ Entry(n, dst) = dst /\ dst[1] = n /\ dst[2] \in Services
           \/ \E g \in Nodes \ {n} : /\ Entry(n, dst) = Swbusd(g)
                                     /\ FirstStage(n, dst) \in 2..4
                                     /\ Prefix(FirstStage(n, dst), dst) = Prefix(FirstStage(n, dst), Swbusd(g))
  <1> DEFINE s == FirstStage(n, dst)
  <1>1. s \in Stages /\ Entry(n, dst) # None
    BY FirstStageIs, Zenon
  <1>2. Entry(n, dst) \in NextHops(n, Prefix(s, dst))
    BY <1>1, PrefixKey, Zenon DEF RoutingTypeOK, Entry
  <1>3. s # 1 => s \in 2..4
    BY <1>1 DEF Stages
  <1> HIDE DEF s
  <1>4. \/ Entry(n, dst) = Local /\ s = 2 /\ dst[1] = n
        \/ Entry(n, dst) = dst /\ s = 1 /\ dst[1] = n /\ dst[2] \in Services
        \/ s # 1 /\ \E g \in Nodes \ {n} : Entry(n, dst) = Swbusd(g) /\ Prefix(s, dst) = Prefix(s, Swbusd(g))
    BY <1>1, <1>2, HopUnder
  <1> QED
    BY <1>3, <1>4, Zenon DEF s

\* What is under the prefixes of a path at its own swbusd and at others.
LEMMA Entries ==
    ASSUME RoutingTypeOK, NEW n \in Nodes, NEW dst \in Paths
    PROVE  /\ dst[1] = n => tables[n][Prefix(2, dst)] = Local
           /\ tables[n][Prefix(1, dst)] # None =>
                  dst[1] = n /\ dst[2] \in Services /\ tables[n][Prefix(1, dst)] = dst
  <1>1. 1 \in Stages /\ 2 \in Stages
    BY DEF Stages
  <1>2. ASSUME dst[1] = n PROVE tables[n][Prefix(2, dst)] = Local
    <2>1. Prefix(2, dst) = Prefix(2, Swbusd(n))
      BY <1>2, PrefixSwbusd
    <2>2. tables[n][Prefix(2, dst)] \in NextHops(n, Prefix(2, dst))
      BY <1>1, PrefixKey, Zenon DEF RoutingTypeOK
    <2> QED
      BY <2>1, <2>2, Zenon DEF NextHops
  <1>3. ASSUME tables[n][Prefix(1, dst)] # None
        PROVE  dst[1] = n /\ dst[2] \in Services /\ tables[n][Prefix(1, dst)] = dst
    <2>1. tables[n][Prefix(1, dst)] \in NextHops(n, Prefix(1, dst))
      BY <1>1, PrefixKey, Zenon DEF RoutingTypeOK
    <2>2. 1 # 2
      OBVIOUS
    <2> QED
      BY <1>1, <1>3, <2>1, <2>2, HopUnder, Zenon
  <1> QED
    BY <1>2, <1>3, Zenon

\* A message at home is for the swbusd itself, or for a service that is there or not.
LEMMA HopHome ==
    ASSUME RoutingTypeOK, NEW n \in Nodes, NEW dst \in Paths, dst[1] = n
    PROVE  /\ FirstStage(n, dst) # 0
           /\ IF tables[n][Prefix(1, dst)] # None THEN Entry(n, dst) = dst
                                                  ELSE Entry(n, dst) = Local
           /\ Entry(n, dst) # Local => Entry(n, dst) = dst /\ dst[2] # "none"
  <1>1. tables[n][Prefix(2, dst)] = Local /\ Local # None
    BY Entries, PathPair, Zenon
  <1>2. FirstStage(n, dst) # 0
    BY <1>1, FirstStageIs DEF Stages
  <1>3. FirstStage(n, dst) \in Stages /\ Entry(n, dst) # None
        /\ \A s \in Stages : s < FirstStage(n, dst) => tables[n][Prefix(s, dst)] = None
    BY <1>2, FirstStageIs, Zenon
  <1>4. FirstStage(n, dst) \in {1, 2}
    BY <1>1, <1>3 DEF Stages
  <1>5. CASE FirstStage(n, dst) = 1
    <2>1. Entry(n, dst) = tables[n][Prefix(1, dst)]
      BY <1>5, Zenon DEF Entry
    <2>2. dst # Local /\ dst[2] \in Services /\ "none" \notin Services
      BY <1>3, <2>1, Entries, PathPair, MuxRoutingAssumption, Zenon
    <2>3. tables[n][Prefix(1, dst)] # None /\ tables[n][Prefix(1, dst)] = dst
      BY <1>3, <2>1, Entries, Zenon
    <2>4. Entry(n, dst) = dst /\ dst[2] # "none"
      BY <2>1, <2>2, <2>3, Zenon
    <2> QED
      BY <1>2, <2>3, <2>4, Zenon
  <1>6. CASE FirstStage(n, dst) = 2
    <2>1. Entry(n, dst) = Local
      BY <1>1, <1>6, Zenon DEF Entry
    <2>2. tables[n][Prefix(1, dst)] = None
      BY <1>3, <1>6 DEF Stages
    <2> QED
      BY <1>2, <2>1, <2>2, Zenon
  <1> QED
    BY <1>4, <1>5, <1>6, Zenon

\* A swbusd with a route to the one a message is for sends it there.
LEMMA HopDirect ==
    ASSUME RoutingTypeOK, NEW n \in Nodes, NEW dst \in Paths, dst[1] \in Nodes, dst[1] # n,
           tables[n][Prefix(2, dst)] = Swbusd(dst[1])
    PROVE  FirstStage(n, dst) # 0 /\ Entry(n, dst) = Swbusd(dst[1])
  <1>1. tables[n][Prefix(1, dst)] = None
    BY Entries, Zenon
  <1>2. Swbusd(dst[1]) # None
    BY PathPair, Zenon DEF Places
  <1>3. FirstStage(n, dst) # 0
    BY <1>2, FirstStageIs DEF Stages
  <1>4. FirstStage(n, dst) = 2
    BY <1>1, <1>2, <1>3, FirstStageIs DEF Stages, Entry
  <1> QED
    BY <1>3, <1>4, Zenon DEF Entry

\* With gateways, a message for elsewhere goes to where it is for or one hop from there.
LEMMA HopAway ==
    ASSUME RoutingTypeOK, Gateways, NEW n \in Nodes, NEW dst \in Paths, dst[1] \in Nodes, dst[1] # n,
           FirstStage(n, dst) # 0
    PROVE  \E g \in Nodes \ {n} : /\ Entry(n, dst) = Swbusd(g)
                                  /\ g # dst[1] => tables[g][Prefix(2, dst)] = Swbusd(dst[1])
  <1> DEFINE s == FirstStage(n, dst)
  <1>1. PICK g \in Nodes \ {n} : /\ Entry(n, dst) = Swbusd(g) /\ s \in 2..4
                                 /\ Prefix(s, dst) = Prefix(s, Swbusd(g))
    BY Hop
  <1>2. ASSUME g # dst[1] PROVE tables[g][Prefix(2, dst)] = Swbusd(dst[1])
    <2>1. Prefix(s, dst) = Prefix(s, Swbusd(dst[1])) /\ Prefix(2, dst) = Prefix(2, Swbusd(dst[1]))
      BY <1>1, PrefixSwbusd
    <2>2. s # 2
      <3>1. SUFFICES ASSUME s = 2 PROVE FALSE
        BY Zenon
      <3>2. dst[1] = Swbusd(g)[1]
        BY <1>1, <3>1, PrefixStage DEF Stages
      <3> QED
        BY <1>2, <3>2, Zenon DEF Swbusd
    <2>3. s \in 3..4
      BY <1>1, <2>2
    <2>4. tables[n][Prefix(s, Swbusd(dst[1]))] = Swbusd(g)
      BY <1>1, <2>1, Zenon DEF Entry
    <2> HIDE DEF s
    <2>5. dst[1] \notin {n, g}
      BY <1>2, Zenon
    <2>6. tables[g][Prefix(2, Swbusd(dst[1]))] = Swbusd(dst[1])
      BY <2>3, <2>4, <2>5, Zenon DEF Gateways
    <2> QED
      BY <2>1, <2>6, Zenon
  <1> QED
    BY <1>1, <1>2, Zenon

-----------------------------------------------------------------------------
\* A response to a message, sent from where the message is.
LEMMA ResponseType ==
    ASSUME NEW m \in Message, NEW source \in Paths, NEW code \in {"Ok", "NoRoute", "Unreachable"},
           source[1] = m.at
    PROVE  LET x == NewResponse(m, source, code) IN
           /\ x \in Message /\ x.body = "Response" /\ x.code # "none" /\ x.src = source
           /\ x.at = m.at /\ x.ttl = DefaultTtl /\ x.dst = m.src /\ x.src[1] = m.at
  BY MuxRoutingAssumption DEF NewResponse, Message

\* A swbusd is a path of its node.
LEMMA SwbusdPath ==
    ASSUME NEW n \in Nodes
    PROVE  Swbusd(n) \in Paths /\ Swbusd(n)[1] = n
  BY PathPair, Zenon DEF Places

\* The ttl one hop on, and what it is when it goes on once more.
LEMMA OneLess ==
    ASSUME NEW ttl \in 0..MaxTtl
    PROVE  /\ LessOne(ttl) \in 0..MaxTtl /\ (LessOne(ttl) = 0 => ttl = 1)
           /\ LessOne(ttl) # 0 => LessOne(LessOne(ttl)) < LessOne(ttl)
  BY MuxRoutingAssumption DEF LessOne

\* What every step of a message leaves alone, and what it puts in its place.
Becomes(m) ==
    /\ tables' = tables /\ request' = request
    /\ \E new : /\ msgs' = (msgs \ {m}) \cup new
                /\ \A x \in new : Onward(x, m) \/ Answer(x, m)

\* Replacing a message by ones that go on or answer it.
LEMMA ReplaceBecomes ==
    ASSUME NEW m, NEW new, Replace(m, new), \A x \in new : Onward(x, m) \/ Answer(x, m)
    PROVE  Becomes(m) /\ answers' = answers
  BY Zenon DEF Becomes, Replace

\* TraceHop: the answer of the swbusd, and the request that goes on.
LEMMA TraceHopBecomes ==
    ASSUME NEW m \in Message, TraceHop(m)
    PROVE  Becomes(m) /\ answers' = answers
  <1> DEFINE response == NewResponse(m, Swbusd(m.at), "Ok")
             on == [m EXCEPT !.fresh = FALSE]
  <1>1. m.at \in Nodes
    BY Zenon DEF Message
  <1>2. Answer(response, m)
    <2>1. m.body # "Response"
      BY Zenon DEF TraceHop
    <2> QED
      BY <1>1, <2>1, ResponseType, SwbusdPath DEF Answer
  <1>3. Onward(on, m)
    BY Zenon DEF Onward, Message, TraceHop
  <1>4. Replace(m, {response} \cup IF m.dst # Swbusd(m.at) THEN {on} ELSE {})
    BY Zenon DEF TraceHop
  <1> HIDE DEF response, on
  <1>5. \A x \in {response} \cup (IF m.dst # Swbusd(m.at) THEN {on} ELSE {}) : x = response \/ x = on
    BY Zenon
  <1> QED
    BY <1>2, <1>3, <1>4, <1>5, ReplaceBecomes, Zenon

\* NoRoute: the error of the swbusd.
LEMMA NoRouteBecomes ==
    ASSUME NEW m \in Message, NoRoute(m)
    PROVE  Becomes(m) /\ answers' = answers
  <1> DEFINE response == NewResponse(m, Swbusd(m.at), "NoRoute")
  <1>1. m.at \in Nodes
    BY DEF Message
  <1>2. Answer(response, m)
    <2>1. FirstStage(m.at, m.dst) = 0
      BY Zenon DEF NoRoute
    <2> QED
      BY <1>1, <2>1, ResponseType, SwbusdPath DEF Answer
  <1>3. Replace(m, {response})
    BY Zenon DEF NoRoute
  <1> HIDE DEF response
  <1>4. \A x \in {response} : Answer(x, m)
    BY <1>2, Zenon
  <1> QED
    BY <1>3, <1>4, ReplaceBecomes

\* RouteLocal: the answer of the swbusd to what is for itself, or none.
LEMMA RouteLocalBecomes ==
    ASSUME RoutingTypeOK, NEW m \in Message, RouteLocal(m)
    PROVE  Becomes(m) /\ answers' = answers
  <1>1. m.at \in Nodes /\ m.dst \in Paths
    BY Zenon DEF Message
  <1>2. FirstStage(m.at, m.dst) # 0 /\ Entry(m.at, m.dst) = Local /\ Replace(m, LocalResponses(m))
    BY Zenon DEF RouteLocal, Entry
  <1>3. m.dst[1] = m.at
    <2>1. m.dst # Local /\ \A g \in Nodes : Swbusd(g) # Local
      BY <1>1, PathPair, Zenon DEF Places
    <2> QED
      BY <1>1, <1>2, <2>1, Hop, Zenon
  <1>4. ASSUME NEW x \in LocalResponses(m) PROVE Answer(x, m)
    <2>1. CASE m.dst[2] # "none"
      <3>1. x = NewResponse(m, m.dst, "NoRoute")
        BY <1>4, <2>1, Zenon DEF LocalResponses
      <3> QED
        BY <1>1, <1>2, <1>3, <2>1, <3>1, ResponseType DEF Answer
    <2>2. CASE m.dst[2] = "none"
      <3>1. x = NewResponse(m, m.dst, "Ok") /\ m.body # "Response"
        BY <1>4, <2>2, Zenon DEF LocalResponses
      <3> QED
        BY <1>1, <1>2, <1>3, <3>1, ResponseType DEF Answer
    <2> QED
      BY <2>1, <2>2, Zenon
  <1> QED
    BY <1>2, <1>4, ReplaceBecomes, Zenon

\* RouteRemote: the error of an expired ttl, the message at the next swbusd, or what
\* the service answers.  Only responses are counted as answers.
LEMMA RouteRemoteBecomes ==
    ASSUME RoutingTypeOK, NEW m \in Message, RouteRemote(m)
    PROVE  /\ Becomes(m)
           /\ \A c \in answers' : c \in answers \/ (c = m.code /\ m.body = "Response")
  <1> DEFINE hop == Entry(m.at, m.dst)
             ttl == LessOne(m.ttl)
             expired == NewResponse(m, Swbusd(m.at), "Unreachable")
             on == [m EXCEPT !.at = hop[1], !.by = Swbusd(m.at), !.fresh = TRUE, !.ttl = ttl]
  <1>1. m.at \in Nodes /\ m.dst \in Paths /\ m.ttl \in 0..MaxTtl
    BY Zenon DEF Message
  <1>0. ttl \in 0..MaxTtl /\ (ttl = 0 => m.ttl = 1)
    BY <1>1, OneLess
  <1> HIDE DEF ttl
  <1>2. /\ FirstStage(m.at, m.dst) # 0 /\ hop # Local
        /\ \/ m.ttl = 0 /\ Replace(m, {})
           \/ ttl = 0 /\ Replace(m, {expired})
           \/ ttl # 0 /\ hop[2] = "none" /\ Replace(m, {on})
           \/ ttl # 0 /\ hop[2] # "none" /\ Deliver(m)
    BY Zenon DEF RouteRemote, Entry, ttl
  <1>3. \/ hop = m.dst /\ m.dst[1] = m.at /\ m.dst[2] \in Services
        \/ \E g \in Nodes : hop = Swbusd(g)
    BY <1>1, <1>2, Hop, Zenon
  <1>7. CASE m.ttl = 0 /\ Replace(m, {})
    <2>1. \A x \in {} : Answer(x, m)
      OBVIOUS
    <2> QED
      BY <1>7, <2>1, ReplaceBecomes
  <1>4. CASE ttl = 0 /\ Replace(m, {expired})
    <2>1. Answer(expired, m)
      BY <1>0, <1>1, <1>2, <1>4, ResponseType, SwbusdPath DEF Answer
    <2> HIDE DEF expired
    <2>2. \A x \in {expired} : Answer(x, m)
      BY <2>1, Zenon
    <2> QED
      BY <1>4, <2>2, ReplaceBecomes
  <1>5. CASE ttl # 0 /\ hop[2] = "none" /\ Replace(m, {on})
    <2>1. PICK g \in Nodes : hop = Swbusd(g)
      BY <1>3, <1>5, MuxRoutingAssumption, Zenon
    <2>2. hop[1] = g
      BY <2>1 DEF Swbusd
    <2>3. on = [m EXCEPT !.at = g, !.by = Swbusd(m.at), !.fresh = TRUE, !.ttl = ttl]
      BY <2>2, Zenon DEF Message
    <2>5. /\ on \in Message /\ on.src = m.src /\ on.dst = m.dst /\ on.body = m.body
          /\ on.code = m.code /\ on.at = g /\ on.ttl = ttl
      BY <1>0, <1>1, <2>3, SwbusdPath, Zenon DEF Message
    <2>6. Onward(on, m)
      BY <1>2, <1>5, <2>1, <2>5, Zenon DEF Onward, ttl
    <2> HIDE DEF on
    <2>7. \A x \in {on} : Onward(x, m)
      BY <2>6, Zenon
    <2> QED
      BY <1>5, <2>7, ReplaceBecomes
  <1>6. CASE ttl # 0 /\ hop[2] # "none" /\ Deliver(m)
    <2>1. hop = m.dst /\ m.dst[1] = m.at
      BY <1>3, <1>6 DEF Swbusd
    <2> DEFINE answer == [NewResponse(m, m.dst, "Ok") EXCEPT !.by = m.dst, !.fresh = TRUE]
               new == {answer : b \in {m.body} \cap Bodies}
    <2>2. m.body \in Bodies => Answer(answer, m)
      <3>1. "Response" \notin Bodies
        BY MuxRoutingAssumption, Zenon
      <3> DEFINE y == NewResponse(m, m.dst, "Ok")
      <3>2. /\ y \in Message /\ y.body = "Response" /\ y.code # "none" /\ y.src = m.dst
            /\ y.at = m.at /\ y.ttl = DefaultTtl /\ y.dst = m.src
        BY <1>1, <2>1, ResponseType
      <3> HIDE DEF y
      <3>3. LET z == [y EXCEPT !.by = m.dst, !.fresh = TRUE] IN
            /\ z \in Message /\ z.body = y.body /\ z.code = y.code /\ z.src = y.src
            /\ z.at = y.at /\ z.ttl = y.ttl /\ z.dst = y.dst
        BY <1>1, <3>2, Zenon DEF Message
      <3>4. /\ answer \in Message /\ answer.body = "Response" /\ answer.code # "none"
            /\ answer.src = m.dst /\ answer.at = m.at /\ answer.ttl = DefaultTtl /\ answer.dst = m.src
        BY <3>2, <3>3, Zenon DEF y
      <3> QED
        BY <2>1, <3>1, <3>4, Zenon DEF Answer
    <2>3. \A x \in new : Answer(x, m)
      BY <2>2, Zenon
    <2>4. msgs' = (msgs \ {m}) \cup new /\ UNCHANGED <<tables, request>>
      BY <1>6, Zenon DEF Deliver
    <2>5. \A c \in answers' : c \in answers \/ (c = m.code /\ m.body = "Response")
      BY <1>6, Zenon DEF Deliver
    <2> HIDE DEF new, answer
    <2> QED
      BY <2>3, <2>4, <2>5, Zenon DEF Becomes
  <1> QED
    BY <1>2, <1>4, <1>5, <1>6, <1>7, Zenon

-----------------------------------------------------------------------------
\* Where a response is when there is no route for it, its ttl has expired, or it is at
\* the end of its way.
LEMMA Where ==
    ASSUME RoutingInv, Gateways, Connected, NEW m \in msgs, m.body = "Response"
    PROVE  /\ FirstStage(m.at, m.dst) = 0 => m.at = m.src[1] /\ m.at # m.dst[1]
           /\ FirstStage(m.at, m.dst) # 0 /\ Entry(m.at, m.dst) # Local /\ m.ttl = 1 =>
                  m.at = m.dst[1] /\ m.at # m.src[1] /\ m.dst[2] # "none"
           /\ FirstStage(m.at, m.dst) # 0 /\ Entry(m.at, m.dst) = Local =>
                  m.at = m.dst[1] /\ m.dst # request.src
  <1>1. /\ RoutingTypeOK /\ m \in Message /\ m.at \in Nodes /\ m.dst \in Paths
        /\ m.src[1] \in Nodes /\ m.dst[1] \in Nodes /\ Underway(m)
    BY Zenon DEF RoutingInv, RoutingTypeOK, RequestInv, ResponseInv, Message
  <1>2. m.at \notin {m.src[1], m.dst[1]} => FirstStage(m.at, m.dst) # 0 /\ m.ttl = DefaultTtl - 1
    BY <1>1, HopDirect, Zenon DEF Underway
  <1>3. ASSUME FirstStage(m.at, m.dst) = 0 PROVE m.at = m.src[1] /\ m.at # m.dst[1]
    BY <1>1, <1>2, <1>3, HopHome, Zenon
  <1>4. ASSUME FirstStage(m.at, m.dst) # 0, Entry(m.at, m.dst) # Local, m.ttl = 1
        PROVE  m.at = m.dst[1] /\ m.at # m.src[1] /\ m.dst[2] # "none"
    <2>1. m.ttl # DefaultTtl /\ m.ttl # DefaultTtl - 1
      BY <1>4, MuxRoutingAssumption
    <2>2. m.at = m.dst[1] /\ m.at # m.src[1]
      BY <1>1, <1>2, <2>1, Zenon DEF Underway
    <2> QED
      BY <1>1, <1>4, <2>2, HopHome, Zenon
  <1>5. ASSUME FirstStage(m.at, m.dst) # 0, Entry(m.at, m.dst) = Local
        PROVE  m.at = m.dst[1] /\ m.dst # request.src
    <2>1. m.dst # Local /\ \A g \in Nodes : Swbusd(g) # Local
      BY <1>1, PathPair, Zenon DEF Places
    <2>2. m.dst[1] = m.at
      BY <1>1, <1>5, <2>1, Hop
    <2>3. m.dst = request.src => tables[m.at][Prefix(1, m.dst)] # None
      BY <2>2, Zenon DEF Connected, RoutingInv, RequestInv
    <2> QED
      BY <1>1, <1>5, <2>1, <2>2, <2>3, HopHome, Zenon
  <1> QED
    BY <1>3, <1>4, <1>5, Zenon

\* A response that goes on is underway, and what is answered keeps to the parties.
LEMMA ResponseNext ==
    ASSUME RoutingInv, Gateways, Connected, NEW m \in msgs, NEW x, x.body = "Response",
           Onward(x, m) \/ Answer(x, m)
    PROVE  Parties(x) /\ Underway(x)
  <1>1. /\ RoutingTypeOK /\ m \in Message /\ m.at \in Nodes /\ m.dst \in Paths /\ m.src \in Paths
        /\ request.src \in Nodes \X Services /\ (m.body # "Response" => m.src = request.src)
        /\ (m.body = "Response" => /\ m.src[1] \in Nodes /\ m.dst[1] \in Nodes
                                   /\ Parties(m) /\ Underway(m))
    BY Zenon DEF RoutingInv, RoutingTypeOK, RequestInv, ResponseInv, Message
  <1>2. ASSUME Onward(x, m) PROVE Parties(x) /\ Underway(x)
    <2>1. /\ x \in Message /\ x.at \in Nodes /\ x.src = m.src /\ x.dst = m.dst /\ m.body = "Response"
          /\ x.ttl = LessOne(m.ttl)
          /\ FirstStage(m.at, m.dst) # 0 /\ Entry(m.at, m.dst) = Swbusd(x.at)
      BY <1>2, Zenon DEF Onward, Message
    <2>0. m.ttl = DefaultTtl => x.ttl = DefaultTtl - 1
      BY <2>1, MuxRoutingAssumption DEF LessOne
    <2>2. Parties(x)
      BY <1>1, <2>1, Zenon DEF Parties
    <2>3. m.at # m.dst[1]
      <3>1. SUFFICES ASSUME m.at = m.dst[1] PROVE FALSE
        BY Zenon
      <3>2. Swbusd(x.at) # Local /\ Swbusd(x.at)[2] = "none"
        BY <2>1, PathPair, Zenon DEF Places
      <3> QED
        BY <1>1, <2>1, <3>1, <3>2, HopHome
    <2>4. PICK g \in Nodes \ {m.at} : /\ Entry(m.at, m.dst) = Swbusd(g)
                                      /\ g # m.dst[1] => tables[g][Prefix(2, m.dst)] = Swbusd(m.dst[1])
      BY <1>1, <2>1, <2>3, HopAway, Zenon
    <2>5. g = x.at
      BY <2>1, <2>4 DEF Swbusd
    <2>6. CASE m.at = m.src[1]
      BY <1>1, <2>0, <2>1, <2>2, <2>3, <2>4, <2>5, <2>6, Zenon DEF Underway
    <2>7. CASE m.at # m.src[1]
      <3>1. m.src[1] # m.dst[1] /\ tables[m.at][Prefix(2, m.dst)] = Swbusd(m.dst[1])
        BY <1>1, <2>1, <2>3, <2>7, Zenon DEF Underway
      <3>2. Entry(m.at, m.dst) = Swbusd(m.dst[1])
        BY <1>1, <2>1, <2>3, <3>1, HopDirect, Zenon
      <3>3. x.at = m.dst[1]
        BY <2>1, <3>2 DEF Swbusd
      <3> QED
        BY <2>1, <2>2, <3>1, <3>3, Zenon DEF Underway
    <2> QED
      BY <2>6, <2>7, Zenon
  <1>3. ASSUME Answer(x, m) PROVE Parties(x) /\ Underway(x)
    <2>1. x.at = x.src[1] /\ x.ttl = DefaultTtl /\ x.dst = m.src
      BY <1>3, Zenon DEF Answer
    <2>2. Underway(x)
      BY <2>1, Zenon DEF Underway
    <2>3. CASE m.body # "Response"
      BY <1>1, <2>1, <2>2, <2>3, Zenon DEF Parties
    <2>4. CASE m.body = "Response" /\ x.src = Swbusd(m.at)
      BY <1>1, <2>2, <2>4, PathPair DEF Parties, Places
    <2>5. CASE /\ m.body = "Response" /\ x.src = m.dst /\ m.dst[2] # "none"
               /\ FirstStage(m.at, m.dst) # 0 /\ Entry(m.at, m.dst) = Local
      <3>1. m.dst # request.src
        BY <2>5, Where, Zenon
      <3> QED
        BY <1>1, <2>1, <2>2, <2>5, <3>1, Zenon DEF Parties
    <2> QED
      BY <1>3, <2>3, <2>4, <2>5, Zenon DEF Answer
  <1> QED
    BY <1>2, <1>3, Zenon

\* The levels of a request, and of a response by its parties.
LEMMA Levels ==
    ASSUME NEW m
    PROVE  /\ m.body # "Response" => Level(m) = 7
           /\ m.body = "Response" /\ m.dst = request.src => Level(m) = 6
           /\ (IsError(m) /\ m.src[2] = "none" /\ m.dst[2] # "none") =>
                  Level(m) = IF m.src[1] = m.dst[1] THEN 3 ELSE 5
           /\ (IsError(m) /\ m.src[2] # "none" /\ m.dst[2] = "none") =>
                  Level(m) = IF m.src[1] = m.dst[1] THEN 2 ELSE 4
           /\ (IsError(m) /\ m.src[2] = "none" /\ m.dst[2] = "none") =>
                  Level(m) = IF m.src[1] = m.dst[1] THEN 1 ELSE 2
  <1>1. m.body # "Response" => Level(m) = 7
    BY Zenon DEF Level, IsError
  <1>2. m.body = "Response" /\ m.dst = request.src => Level(m) = 6
    BY Zenon DEF Level, IsError
  <1>3. (IsError(m) /\ m.src[2] = "none" /\ m.dst[2] # "none") =>
            Level(m) = IF m.src[1] = m.dst[1] THEN 3 ELSE 5
    BY Zenon DEF Level, IsError
  <1>4. (IsError(m) /\ m.src[2] # "none" /\ m.dst[2] = "none") =>
            Level(m) = IF m.src[1] = m.dst[1] THEN 2 ELSE 4
    BY Zenon DEF Level, IsError
  <1>5. (IsError(m) /\ m.src[2] = "none" /\ m.dst[2] = "none") =>
            Level(m) = IF m.src[1] = m.dst[1] THEN 1 ELSE 2
    BY Zenon DEF Level, IsError
  <1> QED
    BY <1>1, <1>2, <1>3, <1>4, <1>5, Zenon

\* What a message becomes is nearer to its end.
LEMMA NearerNext ==
    ASSUME RoutingInv, Gateways, Connected, NEW m \in msgs, NEW x, Onward(x, m) \/ Answer(x, m)
    PROVE  Nearer(x, m)
  <1>1. /\ RoutingTypeOK /\ m \in Message /\ m.at \in Nodes /\ m.dst \in Paths /\ m.src \in Paths
        /\ m.ttl \in 0..MaxTtl
        /\ request.src \in Nodes \X Services /\ (m.body # "Response" => m.src = request.src)
        /\ (m.body = "Response" => m.src[1] \in Nodes /\ m.dst[1] \in Nodes /\ Parties(m))
    BY Zenon DEF RoutingInv, RoutingTypeOK, RequestInv, ResponseInv, Message
  <1>2. ASSUME Onward(x, m) PROVE Nearer(x, m)
    <2>1. Level(x) = Level(m)
      BY <1>2 DEF Onward, Level
    <2>2. CASE m.fresh /\ ~x.fresh /\ x.ttl = m.ttl
      BY <2>1, <2>2, Zenon DEF Nearer
    <2>3. CASE x.ttl = LessOne(m.ttl) /\ x.ttl # 0
      <3>1. LessOne(x.ttl) < LessOne(m.ttl)
        BY <1>1, <2>3, OneLess
      <3> QED
        BY <2>1, <3>1, Zenon DEF Nearer
    <2> QED
      BY <1>2, <2>2, <2>3, Zenon DEF Onward
  <1>3. ASSUME Answer(x, m) PROVE Level(x) < Level(m)
    <2>0. request.src[2] # "none"
      BY <1>1, MuxRoutingAssumption, Zenon
    <2>1. x.body = "Response" /\ x.dst = m.src /\ x.src[1] = m.at
      BY <1>3, Zenon DEF Answer
    <2>3. CASE m.body # "Response"
      <3>1. Level(m) = 7 /\ Level(x) = 6
        BY <1>1, <2>1, <2>3, Levels, Zenon DEF IsError
      <3> QED
        BY <3>1
    <2>4. CASE /\ m.body = "Response" /\ x.src = Swbusd(m.at)
               /\ \/ FirstStage(m.at, m.dst) = 0
                  \/ /\ m.ttl = 1 /\ FirstStage(m.at, m.dst) # 0
                     /\ Entry(m.at, m.dst) # Local
      <3>1. \/ m.at = m.src[1] /\ m.at # m.dst[1]
            \/ m.at = m.dst[1] /\ m.at # m.src[1] /\ m.dst[2] # "none"
        BY <2>4, Where, Zenon
      <3>2. x.src[2] = "none" /\ x.src[1] = m.at
        BY <1>1, <2>4 DEF Swbusd
      <3>3. CASE m.dst = request.src
        <4>1. x.dst # request.src
          BY <2>1, <3>1, <3>3, Zenon
        <4>2. Level(m) = 6 /\ Level(x) \in {1, 2, 3, 5}
          BY <2>1, <2>4, <3>2, <3>3, <4>1, Levels, Zenon DEF IsError
        <4> QED
          BY <4>2
      <3>4. CASE m.dst # request.src /\ m.src[2] = "none"
        <4>1. x.dst # request.src /\ x.dst[2] = "none"
          BY <2>0, <2>1, <3>4, Zenon
        <4>2. m.dst[2] # "none" => Level(m) \in {3, 5} /\ Level(x) \in {1, 2}
          BY <2>1, <2>4, <3>2, <3>4, <4>1, Levels, Zenon DEF IsError
        <4>3. m.dst[2] = "none" => Level(m) = 2 /\ Level(x) = 1
          BY <2>1, <2>4, <3>1, <3>2, <3>4, <4>1, Levels, Zenon DEF IsError
        <4> QED
          BY <4>2, <4>3
      <3>5. CASE m.dst # request.src /\ m.src[2] # "none"
        <4>1. m.dst[2] = "none" /\ m.src # request.src
          BY <1>1, <2>4, <3>5, Zenon DEF Parties
        <4>2. x.dst # request.src /\ x.dst[2] # "none" /\ m.at = m.src[1] /\ m.src[1] # m.dst[1]
          BY <2>1, <3>1, <3>5, <4>1, Zenon
        <4>3. Level(m) = 4 /\ Level(x) = 3
          BY <2>1, <2>4, <3>2, <3>5, <4>1, <4>2, Levels, Zenon DEF IsError
        <4> QED
          BY <4>3
      <3> QED
        BY <3>3, <3>4, <3>5, Zenon
    <2>5. CASE /\ m.body = "Response" /\ x.src = m.dst /\ m.dst[2] # "none"
               /\ FirstStage(m.at, m.dst) # 0 /\ Entry(m.at, m.dst) = Local
      <3>1. m.dst # request.src
        BY <2>5, Where, Zenon
      <3>2. m.src[2] = "none"
        BY <1>1, <2>5, <3>1, Zenon DEF Parties
      <3>3. x.dst # request.src
        BY <2>0, <2>1, <3>2, Zenon
      <3>4. /\ Level(m) = IF m.src[1] = m.dst[1] THEN 3 ELSE 5
            /\ Level(x) = IF m.src[1] = m.dst[1] THEN 2 ELSE 4
        BY <2>1, <2>5, <3>1, <3>2, <3>3, Levels, Zenon DEF IsError
      <3> QED
        BY <3>4
    <2> QED
      BY <1>3, <2>3, <2>4, <2>5, Zenon DEF Answer
  <1> QED
    BY <1>2, <1>3, Zenon DEF Nearer

-----------------------------------------------------------------------------
\* Under every key something can be, and it is a path, Local or None.
LEMMA HopsType ==
    ASSUME NEW n \in Nodes, NEW k
    PROVE  NextHops(n, k) # {} /\ NextHops(n, k) \subseteq Paths \cup {Local, None}
  <1>1. \A t \in Services : <<n, t>> \in Paths
    BY Zenon DEF Paths, Places
  <1>2. \A m \in Nodes : Swbusd(m) \in Paths
    BY SwbusdPath, Zenon
  <1> QED
    BY <1>1, <1>2, Zenon DEF NextHops

\* The tables a swbusd can have.
LEMMA TablesType ==
    ASSUME NEW n \in Nodes, NEW f \in RouteTables(n)
    PROVE  f \in [Keys -> Paths \cup {Local, None}] /\ \A k \in Keys : f[k] \in NextHops(n, k)
  <1> DEFINE open == {k \in Keys : Cardinality(NextHops(n, k)) > 1}
  <1>1. PICK g : /\ \A k \in open : g[k] \in NextHops(n, k)
                 /\ f = [k \in Keys |-> IF k \in open THEN g[k] ELSE CHOOSE h \in NextHops(n, k) : TRUE]
    BY Zenon DEF RouteTables
  <1> HIDE DEF open
  <1>2. ASSUME NEW k \in Keys PROVE (CHOOSE h \in NextHops(n, k) : TRUE) \in NextHops(n, k)
    BY HopsType, Zenon
  <1>3. ASSUME NEW k \in Keys PROVE f[k] \in NextHops(n, k)
    BY <1>1, <1>2, Zenon
  <1>4. ASSUME NEW k \in Keys PROVE f[k] \in Paths \cup {Local, None}
    BY <1>3, HopsType, Zenon
  <1> QED
    BY <1>1, <1>3, <1>4, Zenon

\* Any tables and any request of a connected service satisfy the invariant.
LEMMA InitRoutingInv == RoutingInit => RoutingInv
  <1> SUFFICES ASSUME RoutingInit PROVE RoutingInv
    OBVIOUS
  <1>1. tables \in [Nodes -> [Keys -> Paths \cup {Local, None}]]
        /\ \A n \in Nodes, k \in Keys : tables[n][k] \in NextHops(n, k)
    <2>1. DOMAIN tables = Nodes /\ tables = [n \in Nodes |-> tables[n]]
          /\ \A n \in Nodes : tables[n] \in RouteTables(n)
      BY Zenon DEF RoutingInit
    <2> QED
      BY <2>1, TablesType, Zenon
  <1>2. PICK src \in Nodes \X Services, dst \in Paths, body \in Bodies, ttl \in 0..MaxTtl :
          request = [at |-> src[1], by |-> src, fresh |-> TRUE, src |-> src, dst |-> dst,
                     ttl |-> ttl, body |-> body, code |-> "none"]
    BY Zenon DEF RoutingInit
  <1>3. src \in Paths /\ src[1] \in Nodes
    BY Zenon DEF Paths, Places
  <1>4. request \in Message
    BY <1>2, <1>3, Zenon DEF Message
  <1>5. /\ request.src = src /\ request.at = src[1] /\ request.body # "Response"
        /\ msgs = {request} /\ answers = {}
    BY <1>2, MuxRoutingAssumption, Zenon DEF RoutingInit
  <1>6. RoutingTypeOK
    BY <1>1, <1>4, <1>5, Zenon DEF RoutingTypeOK
  <1>7. RequestInv /\ ResponseInv
    BY <1>5, Zenon DEF RequestInv, ResponseInv
  <1> QED
    BY <1>6, <1>7, Zenon DEF RoutingInv

\* A step of a message keeps the invariant.
LEMMA BecomesInv ==
    ASSUME RoutingInv, NEW m \in msgs, Becomes(m),
           \A c \in answers' : c \in answers \/ (c = m.code /\ m.body = "Response")
    PROVE  RoutingInv'
  <1>1. PICK new : /\ msgs' = (msgs \ {m}) \cup new
                   /\ \A x \in new : Onward(x, m) \/ Answer(x, m)
    BY Zenon DEF Becomes
  <1>2. tables' = tables /\ request' = request /\ RoutingTypeOK /\ RequestInv
    BY Zenon DEF Becomes, RoutingInv
  <1>3. \A x \in new : x \in Message
    BY <1>1, Zenon DEF Onward, Answer
  <1>4. RoutingTypeOK'
    <2>1. msgs' \subseteq Message
      BY <1>1, <1>2, <1>3, Zenon DEF RoutingTypeOK
    <2>2. answers' \subseteq {"Ok", "NoRoute", "Unreachable"}
      BY <1>2, Zenon DEF RoutingTypeOK, RequestInv, Message
    <2>3. (\A n \in Nodes, k \in Keys : tables[n][k] \in NextHops(n, k))'
      BY <1>2, Zenon DEF RoutingTypeOK
    <2> QED
      BY <1>2, <2>1, <2>2, <2>3, Zenon DEF RoutingTypeOK
  <1>5. RequestInv'
    <2>1. ASSUME NEW x \in new
          PROVE  IF x.body = "Response"
                 THEN x.code # "none" /\ x.src[1] \in Nodes /\ x.dst[1] \in Nodes
                 ELSE x.src = request.src
      <3>1. /\ m.at \in Nodes
            /\ IF m.body = "Response"
               THEN m.code # "none" /\ m.src[1] \in Nodes /\ m.dst[1] \in Nodes
               ELSE m.src = request.src
        BY <1>2, Zenon DEF RoutingTypeOK, RequestInv, Message
      <3>2. m.src[1] \in Nodes
        BY <1>2, <3>1, Zenon DEF RequestInv
      <3>3. CASE Onward(x, m)
        BY <3>1, <3>3, Zenon DEF Onward
      <3>4. CASE Answer(x, m)
        BY <3>1, <3>2, <3>4, Zenon DEF Answer
      <3> QED
        BY <1>1, <3>3, <3>4, Zenon
    <2> QED
      BY <1>1, <1>2, <2>1, Zenon DEF RequestInv
  <1>6. ASSUME Gateways', Connected' PROVE ResponseInv'
    <2>1. Gateways /\ Connected
      <3>1. Gateways
        BY <1>2, <1>6 DEF Gateways
      <3>2. Connected
        BY <1>2, <1>6, Zenon DEF Connected
      <3> QED
        BY <3>1, <3>2, Zenon
    <2>2. \A x \in new : x.body = "Response" => Parties(x) /\ Underway(x)
      BY <1>1, <2>1, ResponseNext, Zenon
    <2>3. \A x \in msgs' : x.body = "Response" => Parties(x) /\ Underway(x)
      BY <1>1, <2>1, <2>2, Zenon DEF RoutingInv, ResponseInv
    <2> QED
      BY <1>2, <2>3, Zenon DEF ResponseInv, Parties, Underway
  <1> QED
    BY <1>4, <1>5, <1>6, Zenon DEF RoutingInv

\* The end of a service's connection keeps the invariant: only that route goes.
LEMMA DetachInv ==
    ASSUME RoutingInv, NEW n \in Nodes, NEW s \in Services, Detach(n, s)
    PROVE  RoutingInv'
  <1> DEFINE k == Prefix(1, <<n, s>>)
  <1>1. /\ tables' = [tables EXCEPT ![n][k] = None]
        /\ msgs' = msgs /\ answers' = answers /\ request' = request
    BY Zenon DEF Detach
  <1>2. /\ tables \in [Nodes -> [Keys -> Paths \cup {Local, None}]]
        /\ \A i \in Nodes, j \in Keys : tables[i][j] \in NextHops(i, j)
        /\ RoutingTypeOK /\ RequestInv
    BY Zenon DEF RoutingInv, RoutingTypeOK
  <1>3. 1 \in Stages /\ 2 \in Stages
    BY DEF Stages
  <1>4. None \in NextHops(n, k)
    <2>1. k # Prefix(2, Swbusd(n))
      BY <1>3, PrefixStage
    <2> QED
      BY <2>1, Zenon DEF NextHops
  <1>5. \A t \in Stages : \A p : t # 1 => Prefix(t, p) # k
    BY <1>3, PrefixStage
  <1> HIDE DEF k
  <1>6. tables' \in [Nodes -> [Keys -> Paths \cup {Local, None}]]
    BY <1>1, <1>2, Zenon
  <1>7. \A i \in Nodes, j \in Keys : tables'[i][j] = tables[i][j] \/ (i = n /\ j = k /\ tables'[i][j] = None)
    BY <1>1, <1>2, Zenon
  <1>8. RoutingTypeOK' /\ RequestInv'
    <2>1. \A i \in Nodes, j \in Keys : tables'[i][j] \in NextHops(i, j)
      BY <1>2, <1>4, <1>7, Zenon
    <2> QED
      BY <1>1, <1>2, <1>6, <2>1, Zenon DEF RoutingTypeOK, RequestInv
  <1>9. \A i \in Nodes, t \in 2..4, p \in Paths : tables'[i][Prefix(t, p)] = tables[i][Prefix(t, p)]
    <2>1. \A t \in 2..4 : t \in Stages /\ t # 1
      BY DEF Stages
    <2> QED
      BY <1>5, <1>7, <2>1, PrefixKey
  <1>10. ASSUME Gateways', Connected' PROVE ResponseInv'
    <2>1. Gateways
      <3>1. \A m \in Nodes : Swbusd(m) \in Paths
        BY SwbusdPath, Zenon
      <3>2. 2 \in 2..4 /\ \A t \in 3..4 : t \in 2..4
        OBVIOUS
      <3> QED
        BY <1>9, <1>10, <3>1, <3>2 DEF Gateways
    <2>2. Connected
      <3>1. request.at \in Nodes /\ Prefix(1, request.src) \in Keys
        BY <1>2, <1>3, PrefixKey, Zenon DEF RoutingTypeOK, Message
      <3>2. tables[request.at][Prefix(1, request.src)] = None =>
              tables'[request.at][Prefix(1, request.src)] = None
        BY <1>7, <3>1, Zenon
      <3> QED
        BY <1>1, <1>10, <3>2, Zenon DEF Connected
    <2>3. ASSUME NEW m \in msgs, m.body = "Response" PROVE Parties(m)' /\ Underway(m)'
      <3>1. Parties(m) /\ Underway(m) /\ m.at \in Nodes /\ m.dst \in Paths
        BY <1>2, <2>1, <2>2, <2>3, Zenon DEF RoutingInv, ResponseInv, RoutingTypeOK, Message
      <3>2. tables'[m.at][Prefix(2, m.dst)] = tables[m.at][Prefix(2, m.dst)]
        BY <1>9, <3>1
      <3> QED
        BY <1>1, <3>1, <3>2, Zenon DEF Parties, Underway
    <2> QED
      BY <1>1, <2>3, Zenon DEF ResponseInv
  <1> QED
    BY <1>8, <1>10, Zenon DEF RoutingInv

\* A step of the bus is one of a message, or the end of a connection.
LEMMA RoutingSteps ==
    ASSUME RoutingInv, RoutingNext
    PROVE  \/ \E m \in msgs : /\ Becomes(m)
                              /\ \A c \in answers' : c \in answers \/ (c = m.code /\ m.body = "Response")
           \/ \E n \in Nodes, s \in Services : Detach(n, s)
  <1>1. RoutingTypeOK /\ \A m \in msgs : m \in Message
    BY Zenon DEF RoutingInv, RoutingTypeOK
  <1> QED
    BY <1>1, TraceHopBecomes, NoRouteBecomes, RouteLocalBecomes, RouteRemoteBecomes, Zenon DEF RoutingNext

\* RoutingInv holds in every reachable state.
THEOREM RoutingInvariant == RoutingSpec => []RoutingInv
  <1>1. RoutingInv /\ [RoutingNext]_routingVars => RoutingInv'
    <2> SUFFICES ASSUME RoutingInv, [RoutingNext]_routingVars PROVE RoutingInv'
      OBVIOUS
    <2>1. CASE RoutingNext
      BY <2>1, RoutingSteps, BecomesInv, DetachInv, Zenon
    <2>2. CASE UNCHANGED routingVars
      <3>1. UNCHANGED <<tables, msgs, answers, request>>
        BY <2>2 DEF routingVars
      <3>2. RoutingTypeOK'
        BY <3>1, Zenon DEF RoutingInv, RoutingTypeOK
      <3>3. RequestInv'
        BY <3>1, Zenon DEF RoutingInv, RequestInv
      <3>4. (Gateways /\ Connected => ResponseInv)'
        <4> SUFFICES ASSUME Gateways', Connected' PROVE ResponseInv'
          OBVIOUS
        <4>1. Gateways
          BY <3>1 DEF Gateways
        <4>2. Connected
          BY <3>1 DEF Connected
        <4>3. ResponseInv
          BY <4>1, <4>2, Zenon DEF RoutingInv
        <4> QED
          BY <3>1, <4>3, Zenon DEF ResponseInv, Parties, Underway
      <3> QED
        BY <3>2, <3>3, <3>4 DEF RoutingInv
    <2> QED
      BY <2>1, <2>2, Zenon
  <1> QED
    BY InitRoutingInv, <1>1, PTL DEF RoutingSpec

\* The tables, messages and answers have their types in every reachable state: a next
\* hop is always a swbusd or service that its key stands for, and a ttl stays a u32
\* (register, route_message, queue_message).
THEOREM RoutingTypeCorrect == RoutingSpec => []RoutingTypeOK
  <1>1. RoutingInv => RoutingTypeOK
    BY Zenon DEF RoutingInv
  <1> QED
    BY RoutingInvariant, <1>1, PTL

\* Whatever becomes of a message is nearer to its end, if the requester is connected and
\* wide routes lead to gateways: neither a ttl nor errors about errors can go on for
\* ever, for any number of swbusds (queue_message, new_response, process_local_message).
THEOREM NearsEndAlways == RoutingSpec => NearsEnd
  <1> DEFINE Step == Gateways /\ Connected /\ msgs' # msgs =>
                       \E m \in msgs : msgs \ msgs' = {m} /\ \A x \in msgs' \ msgs : Nearer(x, m)
  <1>1. RoutingInv /\ [RoutingNext]_routingVars => [Step]_routingVars
    <2> SUFFICES ASSUME RoutingInv, RoutingNext, Gateways, Connected, msgs' # msgs
                 PROVE  \E m \in msgs : msgs \ msgs' = {m} /\ \A x \in msgs' \ msgs : Nearer(x, m)
      BY Zenon
    <2>1. ~\E n \in Nodes, s \in Services : Detach(n, s)
      BY Zenon DEF Detach
    <2>2. PICK m \in msgs : Becomes(m)
      BY <2>1, RoutingSteps, Zenon
    <2>3. PICK new : /\ msgs' = (msgs \ {m}) \cup new
                     /\ \A x \in new : Onward(x, m) \/ Answer(x, m)
      BY <2>2, Zenon DEF Becomes
    <2>4. \A x \in new : Nearer(x, m)
      BY <2>3, NearerNext, Zenon
    <2>5. ~Nearer(m, m)
      <3>1. LessOne(m.ttl) \in Nat
        <4>1. m.ttl \in 0..MaxTtl
          BY Zenon DEF RoutingInv, RoutingTypeOK, Message
        <4> QED
          BY <4>1, OneLess
      <3>2. m.body # "Response" \/ Parties(m)
        BY Zenon DEF RoutingInv, ResponseInv
      <3>3. Level(m) \in Nat
        BY <3>2, Levels DEF IsError, Parties
      <3> QED
        BY <3>1, <3>3 DEF Nearer
    <2>6. msgs \ msgs' = {m} /\ \A x \in msgs' \ msgs : Nearer(x, m)
      BY <2>3, <2>4, <2>5, Zenon
    <2> QED
      BY <2>6, Zenon
  <1> QED
    BY RoutingInvariant, <1>1, PTL DEF NearsEnd, RoutingSpec
=============================================================================
