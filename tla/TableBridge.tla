---------------------------- MODULE TableBridge ----------------------------
(***************************************************************************)
(* Consumer bridges (swss-common-bridge/src/consumer.rs) between one Redis *)
(* table and the actors that spawned them (spawn_consumer_bridge_for_actor *)
(* of hamgrd/src/actors.rs).  A bridge subscribes, rehydrates by reading   *)
(* the table row by row, and then sends every row it is notified of,       *)
(* merged into its copy of the table.                                      *)
(*                                                                         *)
(* All bridges of a table use the same service path, so the last one       *)
(* spawned has the route; one that has lost it receives None and quits.    *)
(***************************************************************************)
EXTENDS Naturals, Sequences

CONSTANTS
    Bridges,        \* bridges that may be spawned for the table
    RowKeys,           \* rows of the table
    Fields,         \* fields of a row
    MaxChanges      \* bound: changes of the table

ASSUME TableBridgeAssumption == MaxChanges \in Nat \ {0}

VARIABLES
    table,          \* the table: the fields of each row, none if it does not exist
    changes,        \* number of changes, used as field values
    phase,          \* of each bridge: "none", "reading", "running", "quit"
    events,         \* its subscription: notifications not yet popped
    toRead,         \* keys rehydrate() has still to read
    batch,          \* key and fields of the rows it has read
    cache,          \* TableCache
    view,           \* what the actor was sent last of each row
    route           \* the bridge that has the route of the table's path

bridge == <<phase, events, toRead, batch, cache, view, route>>
bridgeVars == <<table, changes, bridge>>

NoFields == <<>>
Rows == UNION {[S -> 1..MaxChanges] : S \in SUBSET Fields}
Event == [key : RowKeys, op : {"Set", "Del"}]

\* new takes the place of what old has of the same fields or keys.
Over(new, old) ==
    [x \in DOMAIN new \cup DOMAIN old |-> IF x \in DOMAIN new THEN new[x] ELSE old[x]]

\* Type invariant; a bridge that does not run holds no rows to send.
BridgeTypeOK ==
    /\ table \in [RowKeys -> Rows]
    /\ changes \in 0..MaxChanges
    /\ phase \in [Bridges -> {"none", "reading", "running", "quit"}]
    /\ events \in [Bridges -> Seq(Event)]
    /\ toRead \in [Bridges -> SUBSET RowKeys]
    /\ batch \in [Bridges -> UNION {[S -> Rows] : S \in SUBSET RowKeys}]
    /\ \A b \in Bridges : phase[b] # "reading" => toRead[b] = {} /\ batch[b] = <<>>
    /\ cache \in [Bridges -> [RowKeys -> Rows]]
    /\ view \in [Bridges -> [RowKeys -> Rows]]
    /\ route \subseteq Bridges

BridgeInit ==
    /\ table \in [RowKeys -> {NoFields, [f \in Fields |-> 1]}]
    /\ changes = 1
    /\ phase = [b \in Bridges |-> "none"]
    /\ events = [b \in Bridges |-> <<>>]
    /\ toRead = [b \in Bridges |-> {}]
    /\ batch = [b \in Bridges |-> <<>>]
    /\ cache = [b \in Bridges |-> [k \in RowKeys |-> NoFields]]
    /\ view = [b \in Bridges |-> [k \in RowKeys |-> NoFields]]
    /\ route = {}

Subscribed == {b \in Bridges : phase[b] \in {"reading", "running"}}

-----------------------------------------------------------------------------
\* The database: a write of some fields of a row, or its deletion, and the
\* notification of all subscribers.
Notify(k, op) ==
    events' = [b \in Bridges |-> IF b \in Subscribed
                                 THEN Append(events[b], [key |-> k, op |-> op])
                                 ELSE events[b]]

Write(k, S) ==
    /\ changes < MaxChanges /\ S # {}
    /\ changes' = changes + 1
    /\ table' = [table EXCEPT ![k] = Over([f \in S |-> changes'], @)]
    /\ Notify(k, "Set")
    /\ UNCHANGED <<phase, toRead, batch, cache, view, route>>

Delete(k) ==
    /\ changes < MaxChanges /\ table[k] # NoFields
    /\ changes' = changes + 1
    /\ table' = [table EXCEPT ![k] = NoFields]
    /\ Notify(k, "Del")
    /\ UNCHANGED <<phase, toRead, batch, cache, view, route>>

-----------------------------------------------------------------------------
\* Mutant: no rehydration.
SpawnNoRehydration(b) ==
    /\ phase[b] = "none"
    /\ phase' = [phase EXCEPT ![b] = "reading"]
    /\ route' = {b}
    /\ UNCHANGED <<table, changes, events, toRead, batch, cache, view>>

\* The subscription is made, the route takes the place of another bridge's, and
\* the task starts.
Spawn(b) ==
    /\ phase[b] = "none"
    /\ phase' = [phase EXCEPT ![b] = "reading"]
    /\ route' = {b}
    /\ toRead' = [toRead EXCEPT ![b] = {k \in RowKeys : table[k] # NoFields}]
    /\ UNCHANGED <<table, changes, events, batch, cache, view>>

\* One Table::get of rehydrate(): a row deleted since the keys were listed
\* counts as a row without fields.
ReadRow(b, k) ==
    /\ phase[b] = "reading" /\ k \in toRead[b]
    /\ toRead' = [toRead EXCEPT ![b] = @ \ {k}]
    /\ batch' = [batch EXCEPT ![b] = Over([x \in {k} |-> table[x]], @)]
    /\ UNCHANGED <<table, changes, phase, events, cache, view, route>>

\* Mutant: the rows read are kept.
SendBatchKeeps(b) ==
    /\ phase[b] = "reading" /\ toRead[b] = {}
    /\ phase' = [phase EXCEPT ![b] = "running"]
    /\ cache' = [cache EXCEPT ![b] = Over(batch[b], @)]
    /\ view' = [view EXCEPT ![b] = Over(batch[b], @)]
    /\ UNCHANGED <<table, changes, events, toRead, batch, route>>

\* The rows read are merged and sent, and the loop starts.
SendBatch(b) ==
    /\ phase[b] = "reading" /\ toRead[b] = {}
    /\ phase' = [phase EXCEPT ![b] = "running"]
    /\ cache' = [cache EXCEPT ![b] = Over(batch[b], @)]
    /\ view' = [view EXCEPT ![b] = Over(batch[b], @)]
    /\ batch' = [batch EXCEPT ![b] = <<>>]
    /\ UNCHANGED <<table, changes, events, toRead, route>>

\* TableCache::merge_kfv.  The subscription reads a row that was set when the
\* notification is popped.
Merge(old, e) ==
    IF e.op = "Set" THEN Over(table[e.key], old) ELSE NoFields

\* pops(), and send_kfv of what it returns; a row that was set and is gone by
\* now is not returned.
Pop(b) ==
    /\ phase[b] = "running" /\ events[b] # <<>>
    /\ events' = [events EXCEPT ![b] = Tail(@)]
    /\ LET e == Head(events[b]) IN
         IF e.op = "Set" /\ table[e.key] = NoFields
         THEN UNCHANGED <<cache, view>>
         ELSE /\ cache' = [cache EXCEPT ![b][e.key] = Merge(@, e)]
              /\ view' = [view EXCEPT ![b][e.key] = IF e.op = "Del" THEN NoFields
                                                    ELSE Merge(cache[b][e.key], e)]
    /\ UNCHANGED <<table, changes, phase, toRead, batch, route>>

\* recv() returns None: the bridge has no route any more, and quits.
Quit(b) ==
    /\ phase[b] = "running" /\ b \notin route
    /\ phase' = [phase EXCEPT ![b] = "quit"]
    /\ events' = [events EXCEPT ![b] = <<>>]
    /\ UNCHANGED <<table, changes, toRead, batch, cache, view, route>>

BridgeNext ==
    \/ \E k \in RowKeys, S \in SUBSET Fields : Write(k, S)
    \/ \E k \in RowKeys : Delete(k)
    \/ \E b \in Bridges : Spawn(b)
    \/ \E b \in Bridges, k \in RowKeys : ReadRow(b, k)
    \/ \E b \in Bridges : SendBatch(b)
    \/ \E b \in Bridges : Pop(b)
    \/ \E b \in Bridges : Quit(b)

BridgeSpec == BridgeInit /\ [][BridgeNext]_bridgeVars

-----------------------------------------------------------------------------
\* Once a bridge that runs has nothing left to pop, its actor has every row as
\* it is in the table, whatever was written or deleted while it rehydrated and
\* whatever other bridge was spawned.  So has its cache: the next partial
\* update is completed with the fields of this incarnation of the row.
ViewCurrent ==
    \A b \in Bridges : phase[b] = "running" /\ events[b] = <<>> => view[b] = table /\ cache[b] = table
=============================================================================
