---------------------------- MODULE EdgeRuntime ----------------------------
(***************************************************************************)
(* The message router of an edge runtime (swbus-edge) with the actor       *)
(* creator of one actor type (hamgrd/src/actors.rs), the consumer bridge   *)
(* of its configuration table and the sink of main.rs: how an update of a  *)
(* row finds its actor, and spawns it when there is none.                  *)
(*                                                                         *)
(* Router, creator, bridge, sink and actors are tasks joined by bounded    *)
(* channels; a full channel makes its sender wait, and the router, while   *)
(* it waits, takes nothing from its queues.  A route is a channel's        *)
(* Sender: a handler whose route is replaced gets what was queued, and     *)
(* then None for ever.  Routes are never removed, so messages for an actor *)
(* that has stopped are dropped by the router.                             *)
(***************************************************************************)
EXTENDS Naturals, Sequences, FiniteSets

CONSTANTS
    Keys,           \* rows of the configuration table: one actor each
    MayDelete,      \* rows may be deleted
    LocalCap,       \* SWBUS_RECV_QUEUE_SIZE, of the router's queues and inboxes
    CreatorCap,     \* channel size of the creator
    MaxUpdates,     \* bound: changes of the table
    MaxRequests,    \* bound: requests of other actors
    MaxSpawned      \* bound: actors spawned

Gens == 1..MaxSpawned
Ops == {"Set", "Del", "Request", "Response"}

ASSUME EdgeRuntimeAssumption ==
    /\ MayDelete \in BOOLEAN
    /\ LocalCap \in Nat \ {0} /\ CreatorCap \in Nat \ {0}
    /\ Keys # {}
    /\ MaxUpdates \in Nat \ {0} /\ MaxRequests \in Nat /\ MaxSpawned \in Nat

VARIABLES
    row,            \* the table: version of each row, 0 if there is none
    dirty,          \* keys with a notification the bridge has not read
    local, remote,  \* queues of the router
    held,           \* the message the router has taken: <<>> or <<message>>
    handler,        \* the actor it is routed to, 0: the creator or the sink
    privacy,        \* of that message: only a private one can go to the creator
    creatorQ,       \* queue of the creator
    forwarding,     \* what the creator is about to send: <<>> or <<message>>
    sinkQ,          \* queue of the sink
    route,          \* route of each actor's full path: an actor, or 0
    actor,          \* actors spawned: their key, life and configuration
    inbox,          \* queue of each actor
    raced,          \* history: keys with an update sent while their actor was
                    \* being created for an earlier one
    updates, requests, spawned

table == <<row, dirty, updates>>
router == <<held, handler, privacy>>
creator == <<creatorQ, forwarding>>
actors == <<route, actor, inbox, spawned>>
vars == <<table, local, remote, router, creator, sinkQ, actors, raced, requests>>

Message == [to : Keys, op : Ops, version : 0..MaxUpdates]
Request(k) == [to |-> k, op |-> "Request", version |-> 0]
Response(k) == [to |-> k, op |-> "Response", version |-> 0]

\* Type invariant, with the capacity of every channel.
TypeOK ==
    /\ row \in [Keys -> 0..MaxUpdates]
    /\ dirty \subseteq Keys
    /\ updates \in 1..MaxUpdates /\ requests \in 0..MaxRequests
    /\ local \in Seq(Message) /\ Len(local) <= LocalCap
    /\ remote \in Seq(Message) /\ Len(remote) <= LocalCap
    /\ held \in Seq(Message) /\ Len(held) <= 1
    /\ handler \in Gens \cup {0} /\ privacy \in {"Private", "Public"}
    /\ creatorQ \in Seq(Message) /\ Len(creatorQ) <= CreatorCap
    /\ forwarding \in Seq(Message) /\ Len(forwarding) <= 1
    /\ sinkQ \in Seq(Message) /\ Len(sinkQ) <= LocalCap
    /\ route \in [Keys -> Gens \cup {0}]
    /\ actor \in [Gens -> [key : Keys, life : {"none", "live", "stopped"},
                           config : 0..MaxUpdates]]
    /\ inbox \in [Gens -> Seq(Message)] /\ \A g \in Gens : Len(inbox[g]) <= LocalCap
    /\ spawned \in Gens \cup {0} /\ raced \subseteq Keys

\* The bridge starts by rehydrating the rows there are.
Init ==
    /\ row \in [Keys -> {0, 1}]
    /\ dirty = {k \in Keys : row[k] # 0}
    /\ updates = 1
    /\ local = <<>> /\ remote = <<>> /\ creatorQ = <<>> /\ forwarding = <<>> /\ sinkQ = <<>>
    /\ held = <<>> /\ handler = 0 /\ privacy = "Private"
    /\ route = [k \in Keys |-> 0]
    /\ actor = [g \in Gens |-> [key |-> CHOOSE k \in Keys : TRUE, life |-> "none", config |-> 0]]
    /\ inbox = [g \in Gens |-> <<>>]
    /\ raced = {} /\ requests = 0 /\ spawned = 0

\* Messages of the table about a key that are somewhere on their way.
Updates(q, k) == {i \in DOMAIN q : q[i].to = k /\ q[i].op \in {"Set", "Del"}}
Quiet(k) ==
    /\ k \notin dirty
    /\ \A q \in {local, held, creatorQ, forwarding} \cup {inbox[g] : g \in Gens} : Updates(q, k) = {}

\* An update of the key is on its way to the creator, or the creator has not sent
\* it on to the actor yet.
Creating(k) ==
    \/ route[k] = 0 /\ Updates(local, k) # {}
    \/ handler = 0 /\ Updates(held, k) # {}
    \/ Updates(creatorQ, k) # {} \/ Updates(forwarding, k) # {}

-----------------------------------------------------------------------------
\* The table and its consumer bridge.

Change(k) ==
    /\ updates < MaxUpdates
    /\ updates' = updates + 1
    /\ \/ row' = [row EXCEPT ![k] = updates']
       \/ MayDelete /\ row[k] # 0 /\ row' = [row EXCEPT ![k] = 0]
    /\ dirty' = dirty \cup {k}
    /\ UNCHANGED <<local, remote, router, creator, sinkQ, actors, raced, requests>>

\* Mutant: the bridge does not wait for room.
BridgeSendUnbounded(k) ==
    /\ k \in dirty
    /\ dirty' = dirty \ {k}
    /\ local' = Append(local, [to |-> k, op |-> IF row[k] = 0 THEN "Del" ELSE "Set",
                               version |-> row[k]])
    /\ raced' = IF Creating(k) THEN raced \cup {k} ELSE raced
    /\ UNCHANGED <<row, updates, remote, router, creator, sinkQ, actors, requests>>

\* send_kfv of the present state of the row.
BridgeSend(k) ==
    /\ k \in dirty /\ Len(local) < LocalCap
    /\ dirty' = dirty \ {k}
    /\ local' = Append(local, [to |-> k, op |-> IF row[k] = 0 THEN "Del" ELSE "Set",
                               version |-> row[k]])
    /\ raced' = IF Creating(k) THEN raced \cup {k} ELSE raced
    /\ UNCHANGED <<row, updates, remote, router, creator, sinkQ, actors, requests>>

\* Other actors, of this runtime or of another one, send requests to the actor.
Ask(k) ==
    /\ requests < MaxRequests
    /\ requests' = requests + 1
    /\ \/ Len(local) < LocalCap /\ local' = Append(local, Request(k)) /\ UNCHANGED remote
       \/ Len(remote) < LocalCap /\ remote' = Append(remote, Request(k)) /\ UNCHANGED local
    /\ UNCHANGED <<table, router, creator, sinkQ, actors, raced>>

-----------------------------------------------------------------------------
\* SwbusMessageRouter.

\* The select loop takes a message of this runtime and looks its handler up: that
\* of the full path, or else of the path without the resource id (the creator,
\* which is private) or without the resource type (the sink).  A response goes to
\* the bridge, which ignores it, to the actor that asked, or to swbusd; that is
\* the end of it here.
RouteLocal ==
    /\ held = <<>> /\ local # <<>>
    /\ local' = Tail(local)
    /\ LET m == Head(local) IN
         \/ m.op = "Response" /\ UNCHANGED router
         \/ m.op # "Response" /\ held' = <<m>> /\ handler' = route[m.to] /\ privacy' = "Private"
    /\ UNCHANGED <<table, remote, creator, sinkQ, actors, raced, requests>>

RouteRemote ==
    /\ held = <<>> /\ remote # <<>>
    /\ remote' = Tail(remote)
    /\ held' = <<Head(remote)>> /\ handler' = route[Head(remote).to] /\ privacy' = "Public"
    /\ UNCHANGED <<table, local, creator, sinkQ, actors, raced, requests>>

\* Mutant: the channel of a stopped actor still takes messages.
ToActorStopped(g) ==
    /\ g # 0
    /\ Len(inbox[g]) < LocalCap
    /\ inbox' = [inbox EXCEPT ![g] = Append(@, Head(held))]
    /\ UNCHANGED <<creatorQ, sinkQ>>

\* The channel of an actor, or nobody's.
ToActor(g) ==
    /\ g # 0
    /\ IF actor[g].life = "live"
       THEN /\ Len(inbox[g]) < LocalCap
            /\ inbox' = [inbox EXCEPT ![g] = Append(@, Head(held))]
       ELSE UNCHANGED inbox
    /\ UNCHANGED <<creatorQ, sinkQ>>

ToCreator ==
    /\ handler = 0 /\ privacy = "Private"
    /\ Len(creatorQ) < CreatorCap
    /\ creatorQ' = Append(creatorQ, Head(held))
    /\ UNCHANGED <<sinkQ, inbox>>

ToSink ==
    /\ handler = 0 /\ privacy = "Public"
    /\ Len(sinkQ) < LocalCap
    /\ sinkQ' = Append(sinkQ, Head(held))
    /\ UNCHANGED <<creatorQ, inbox>>

\* try_route: the handler's send.
TryRoute ==
    /\ held # <<>>
    /\ ToActor(handler) \/ ToCreator \/ ToSink
    /\ held' = <<>> /\ handler' = 0 /\ privacy' = "Private"
    /\ UNCHANGED <<table, local, remote, forwarding, route, actor, spawned, raced, requests>>

\* The sink answers NoRoute.
Sink ==
    /\ sinkQ # <<>> /\ Len(local) < LocalCap
    /\ sinkQ' = Tail(sinkQ)
    /\ local' = Append(local, Response(Head(sinkQ).to))
    /\ UNCHANGED <<table, remote, router, creator, actors, raced, requests>>

-----------------------------------------------------------------------------
\* ActorCreator.

\* Mutant: the message that spawned the actor is used up by that.
CreatorHandleNoForward ==
    /\ forwarding = <<>> /\ creatorQ # <<>>
    /\ creatorQ' = Tail(creatorQ)
    /\ LET m == Head(creatorQ) IN
         IF m.op = "Set"
         THEN /\ spawned < MaxSpawned
              /\ spawned' = spawned + 1
              /\ route' = [route EXCEPT ![m.to] = spawned']
              /\ actor' = [actor EXCEPT ![spawned'] = [key |-> m.to, life |-> "live", config |-> 0]]
              /\ forwarding' = <<Response(m.to)>>
         ELSE forwarding' = <<Response(m.to)>> /\ UNCHANGED <<spawned, route, actor>>
    /\ UNCHANGED <<table, local, remote, router, sinkQ, inbox, raced, requests>>

\* handle_received_message: only a Set of the bridge spawns an actor, whose
\* route takes the place of any other.  The message, or the error, is sent in
\* a step of its own: the creator may have to wait.
CreatorHandle ==
    /\ forwarding = <<>> /\ creatorQ # <<>>
    /\ creatorQ' = Tail(creatorQ)
    /\ LET m == Head(creatorQ) IN
         IF m.op = "Set"
         THEN /\ spawned < MaxSpawned
              /\ spawned' = spawned + 1
              /\ route' = [route EXCEPT ![m.to] = spawned']
              /\ actor' = [actor EXCEPT ![spawned'] = [key |-> m.to, life |-> "live", config |-> 0]]
              /\ forwarding' = <<m>>
         ELSE forwarding' = <<Response(m.to)>> /\ UNCHANGED <<spawned, route, actor>>
    /\ UNCHANGED <<table, local, remote, router, sinkQ, inbox, raced, requests>>

CreatorSend ==
    /\ forwarding # <<>> /\ Len(local) < LocalCap
    /\ local' = local \o forwarding
    /\ forwarding' = <<>>
    /\ UNCHANGED <<table, remote, router, creatorQ, sinkQ, actors, raced, requests>>

\* The driver of an actor: the response, then the handler.  A Del stops the
\* actor, and what is still queued goes with it.
ActorHandle(g) ==
    /\ actor[g].life = "live" /\ inbox[g] # <<>> /\ Len(local) < LocalCap
    /\ local' = Append(local, Response(actor[g].key))
    /\ LET m == Head(inbox[g]) IN
         /\ actor' = CASE m.op = "Set" -> [actor EXCEPT ![g].config = m.version]
                       [] m.op = "Del" -> [actor EXCEPT ![g].life = "stopped"]
                       [] OTHER -> actor
         /\ inbox' = [inbox EXCEPT ![g] = IF m.op = "Del" THEN <<>> ELSE Tail(@)]
    /\ UNCHANGED <<table, remote, router, creator, sinkQ, route, spawned, raced, requests>>

\* What the tasks of the runtime do.
Work ==
    \/ \E k \in Keys : BridgeSend(k)
    \/ RouteLocal
    \/ RouteRemote
    \/ TryRoute
    \/ Sink
    \/ CreatorHandle
    \/ CreatorSend
    \/ \E g \in Gens : ActorHandle(g)

Next ==
    \/ \E k \in Keys : Change(k)
    \/ \E k \in Keys : Ask(k)
    \/ Work

Spec == Init /\ [][Next]_vars

\* Some task goes on while one can.
Fairness == WF_vars(Work)

FairSpec == Spec /\ Fairness

-----------------------------------------------------------------------------
Live(k) == {g \in Gens : actor[g].key = k /\ actor[g].life = "live"}
Stopped(k) == {g \in Gens : actor[g].key = k /\ actor[g].life = "stopped"}

\* The actor of a row follows it, unless an update was sent while the actor was
\* being created for an earlier one (raced).  Two actors for one row would both
\* act for it, and the first one, without a route, could not be stopped: there is
\* never more than one.  Once the updates of the row are through, a deleted row's
\* actor is gone (no late request or forwarded update keeps it or brings it back),
\* and the actor of a row that is there has its last version, through any burst
\* of changes and also when the creator forwarded the first, unless an actor of
\* the row was stopped before.
ActorFollowsRow ==
    \A k \in Keys \ raced :
        /\ Cardinality(Live(k)) <= 1
        /\ Quiet(k) /\ row[k] = 0 => Live(k) = {}
        /\ Quiet(k) /\ row[k] # 0 /\ Stopped(k) = {} =>
               \E g \in Live(k) : route[k] = g /\ actor[g].config = row[k]

\* The creator is there "to handle messages to actor but actor do not exist", and
\* "will create the actor when it receives the first message to the actor"
\* (main.rs): a row has no two actors.
OneActor == \A k \in Keys : Cardinality(Live(k)) <= 1

\* Nobody can go on: the router waits for the handler of the message it has taken,
\* and everyone else for the router to take one from its full queue.
Jammed ==
    /\ held # <<>> /\ Len(local) = LocalCap
    /\ IF handler # 0 THEN Len(inbox[handler]) = LocalCap
       ELSE IF privacy = "Private" THEN Len(creatorQ) = CreatorCap /\ forwarding # <<>>
       ELSE Len(sinkQ) = LocalCap

\* All queues empty themselves again, unless that has filled the router's queue:
\* in no other way do router, creator, sink and actors wait for each other for
\* ever.
Drained ==
    /\ dirty = {} /\ local = <<>> /\ remote = <<>> /\ held = <<>> /\ creatorQ = <<>>
    /\ forwarding = <<>> /\ sinkQ = <<>> /\ \A g \in Gens : inbox[g] = <<>>
Drains == []<>Drained \/ <>[]Jammed
=============================================================================
