----------------------------- MODULE DpuNetwork -----------------------------
(***************************************************************************)
(* How hamgrd follows the DPU network of its NPU: the swbus configuration  *)
(* it loads from CONFIG_DB when it starts (SwbusConfig), the actor creator *)
(* of DPU actors, and the DPU actor of the slot it manages, which keeps a  *)
(* BFD session to every NPU of the network (crates/hamgrd/src/main.rs,     *)
(* crates/hamgrd/src/actors/dpu.rs).                                       *)
(*                                                                         *)
(* Four tables change while all this runs: DPU, REMOTE_DPU,                *)
(* DASH_HA_GLOBAL_CONFIG in CONFIG_DB, and the BFD session table of the    *)
(* DPU, which only hamgrd writes.  A consumer bridge (TableBridge) hands   *)
(* the rows that exist when it is spawned, then the changed ones, to its   *)
(* actor.  The address of a bridge in the process is the name of its       *)
(* table: a second bridge on a table takes the address of the first one,   *)
(* which then quits.                                                       *)
(***************************************************************************)
EXTENDS Naturals, Sequences, SwbusConfig

CONSTANTS Slot,        \* the slot this hamgrd manages
          Keys, Mine,  \* the keys of the DPU table; the row of the actor
          Ids,         \* the keys of the REMOTE_DPU table
          Addresses,   \* the addresses of all NPUs
          Loopbacks,   \* the sets of addresses Loopback0 may have
          DpuRows,     \* the rows the DPU table may have
          RemoteRows,  \* the rows the REMOTE_DPU table may have
          MaxEvents    \* bound: changes of CONFIG_DB and exits of hamgrd

ASSUME DpuNetworkAssumption ==
    /\ MaxEvents \in Nat /\ Mine \in Keys
    /\ \A addrs \in Loopbacks \cup {r.addrs : r \in RemoteRows} : addrs \subseteq Addresses

VARIABLES loopback,  \* the addresses of Loopback0
          dpus,      \* the DPU table: each key has {} or one row
          remotes,   \* the REMOTE_DPU table, alike
          global,    \* DASH_HA_GLOBAL_CONFIG: {} or one version
          config,    \* hamgrd: {} when it is down, else its swbus configuration
          bridges,   \* its consumer bridges
          remoteActors, \* the remote DPU actors, each with its REMOTE_DPU row
          dpu,       \* the DPU actor: "absent", "none" (no data), "managed", "other", "stopped"
          steady,    \* its slot has been ours since its first row (history)
          spawning,  \* the bridge handle_dpu_message spawns next, 0 when it does not run
          inbox,     \* the messages the DPU actor has not handled
          told,      \* its incoming table: the last global config and REMOTE_DPU rows
          sessions,  \* the BFD session table: {} or the global config of each peer
          events     \* changes of CONFIG_DB and exits so far

db == <<loopback, dpus, remotes, global>>
actor == <<dpu, steady, spawning, inbox, told>>
vars == <<db, config, bridges, remoteActors, actor, sessions, events>>

\* A global config, version 0 the one a deleted row decodes to: no field set.
Globals == [version : 0..MaxEvents + 1]
Deleted == [version |-> 0]

\* handle_dpu_message spawns two more bridges after "remote", which bring the
\* state of the DPU; HaActors models what becomes of it.
Bridges == {"dpu", "creator", "global", "remote"}
Sequence == <<"global", "remote">>

\* A bridge: not spawned ("off"), running ("on"), running without its address
\* ("replaced"), or ended ("quit"); the rows it found when it was spawned, and
\* the changed ones, yet to be forwarded.
Off == [run |-> "off", found |-> {}, changed |-> {}]
On(found) == [run |-> "on", found |-> found, changed |-> {}]
Running(b) == b.run \in {"on", "replaced"}
Replaced(b) == IF b.run = "on" THEN [b EXCEPT !.run = "replaced"] ELSE b

Site == [meta |-> TRUE, loopback |-> loopback, dpus |-> UNION {dpus[k] : k \in Keys},
         remotes |-> UNION {remotes[i] : i \in Ids}]

TableOf(b) == CASE b = "dpu" -> "DPU"
                [] b \in {"creator", "remote"} -> "REMOTE_DPU"
                [] b = "global" -> "GLOBAL"

\* What a table has under a key, in the form of the messages.
RowOf(table, k) == CASE table = "DPU" -> dpus[k]
                     [] table = "REMOTE_DPU" -> remotes[k]
                     [] OTHER -> global

KeysOf(table) == CASE table = "DPU" -> {k \in {Mine} : dpus[k] # {}}
                   [] table = "REMOTE_DPU" -> {i \in Ids : remotes[i] # {}}
                   [] table = "GLOBAL" -> {k \in {"global"} : global # {}}

\* The REMOTE_DPU rows hamgrd can decode: npu_ipv4 and swbus_port are needed.
Decodes(row) == row.addrs \cap V4 # {} /\ row.port # NoPort
Npu(addrs) == CHOOSE a \in addrs : a \in V4

NoActor == [state |-> "absent", row |-> {}]
FreshTold == [global |-> {}, remote |-> [i \in Ids |-> {}]]

Init ==
    /\ loopback \in Loopbacks
    /\ \E r \in {row \in DpuRows : row.dpu_id = Slot} : dpus = [k \in Keys |-> IF k = Mine THEN {r} ELSE {}]
    /\ remotes \in [Ids -> {{}} \cup {{r} : r \in RemoteRows}]
    /\ global \in {{}, {[version |-> 1]}}
    /\ config = {} /\ bridges = [b \in Bridges |-> Off]
    /\ remoteActors = [i \in Ids |-> NoActor]
    /\ dpu = "absent" /\ steady = FALSE /\ spawning = 0 /\ inbox = <<>> /\ told = FreshTold
    /\ sessions = [a \in Addresses |-> {}]
    /\ events = 0

-----------------------------------------------------------------------------
(* CONFIG_DB changes.  A running bridge on the table learns of the key.    *)

Notify(table, k) ==
    /\ events < MaxEvents
    /\ events' = events + 1
    /\ bridges' = [b \in Bridges |->
          IF TableOf(b) = table /\ Running(bridges[b])
          THEN [bridges[b] EXCEPT !.changed = @ \cup {k}] ELSE bridges[b]]
    /\ UNCHANGED <<loopback, config, remoteActors, actor, sessions>>

\* The row of another slot has no reader while hamgrd runs but its own actor,
\* so it changes while hamgrd is down.
WriteDpu(k, row) ==
    /\ row # dpus[k]
    /\ k = Mine \/ config = {}
    /\ \A r \in row, other \in Keys \ {k} : \A o \in dpus[other] : o.dpu_id # r.dpu_id
    /\ dpus' = [dpus EXCEPT ![k] = row]
    /\ IF k = Mine THEN Notify("DPU", k) ELSE Notify("none", k)
    /\ UNCHANGED <<remotes, global>>

WriteRemote(i, row) ==
    /\ row # remotes[i]
    /\ remotes' = [remotes EXCEPT ![i] = row]
    /\ Notify("REMOTE_DPU", i)
    /\ UNCHANGED <<dpus, global>>

WriteGlobal(row) ==
    /\ row # global
    /\ global' = row
    /\ Notify("GLOBAL", "global")
    /\ UNCHANGED <<dpus, remotes>>

Operator ==
    \/ \E k \in Keys, row \in {{}} \cup {{r} : r \in DpuRows} : WriteDpu(k, row)
    \/ \E i \in Ids, row \in {{}} \cup {{r} : r \in RemoteRows} : WriteRemote(i, row)
    \/ \E row \in {{}, {[version |-> events + 2]}} : WriteGlobal(row)

-----------------------------------------------------------------------------
(* hamgrd starts: main loads the configuration and start_actor_creator     *)
(* spawns the creator's bridge on DPU, then, after it has connected to the *)
(* database once more, the one on REMOTE_DPU.                              *)

Start ==
    /\ config = {}
    /\ Loads(Site, Slot)
    /\ config' = {Config(Site, Slot)}
    /\ bridges' = [bridges EXCEPT !["dpu"] = On(KeysOf("DPU"))]
    /\ UNCHANGED <<db, remoteActors, actor, sessions, events>>

\* The bridge takes the address of the DPU actor's bridge on the table, if
\* that one is faster.
StartRemote ==
    /\ config # {} /\ bridges["creator"].run = "off"
    /\ bridges' = [bridges EXCEPT !["creator"] = On(KeysOf("REMOTE_DPU")),
                                  !["remote"] = Replaced(@)]
    /\ UNCHANGED <<db, config, remoteActors, actor, sessions, events>>

\* hamgrd exits (a failed unwrap of main, Ctrl+C) and keeps nothing; the
\* sessions stay in the DPU.
Exit ==
    /\ config # {} /\ events < MaxEvents
    /\ events' = events + 1
    /\ config' = {} /\ bridges' = [b \in Bridges |-> Off]
    /\ remoteActors' = [i \in Ids |-> NoActor]
    /\ dpu' = "absent" /\ steady' = FALSE /\ spawning' = 0 /\ inbox' = <<>> /\ told' = FreshTold
    /\ UNCHANGED <<db, sessions>>

-----------------------------------------------------------------------------
(* The bridges.                                                            *)

\* What the bridge has left to forward when it forwards k: it goes through
\* the rows it found before it looks at changes.
Forwarded(b, k) ==
    IF k \in b.found THEN [b EXCEPT !.found = @ \ {k}] ELSE [b EXCEPT !.changed = @ \ {k}]

CanForward(b, k) == Running(b) /\ (k \in b.found \/ (b.found = {} /\ k \in b.changed))

\* A row found and deleted since is forwarded as a Set of no field, a changed
\* one that is gone as a Del.
Message(b, k) ==
    LET row == RowOf(TableOf(b), k)
    IN  [from |-> b, key |-> k, row |-> row,
         op |-> IF row = {} /\ k \notin bridges[b].found THEN "Del" ELSE "Set"]

\* The bridge of the creator forwards to the DPU actor, which is created for
\* a Set, and the actor's own bridges to it.  The route of an actor that has
\* stopped stays, so the creator does not hear of a later row.
Forward(b, k) ==
    /\ b # "creator"
    /\ CanForward(bridges[b], k)
    /\ bridges' = [bridges EXCEPT ![b] = Forwarded(@, k)]
    /\ LET m == Message(b, k)
       IN  IF dpu = "stopped" \/ (dpu = "absent" /\ m.op = "Del") THEN UNCHANGED <<dpu, inbox>>
           ELSE /\ inbox' = Append(inbox, m)
                /\ dpu' = IF dpu = "absent" THEN "none" ELSE dpu
    /\ UNCHANGED <<db, config, remoteActors, steady, spawning, told, sessions, events>>

\* The creator's bridge on REMOTE_DPU forwards to the actor of the remote
\* DPU: it is created for a Set, takes the row if it can decode it, and stops
\* for good on a Del.
ForwardRemote(i) ==
    /\ CanForward(bridges["creator"], i)
    /\ bridges' = [bridges EXCEPT !["creator"] = Forwarded(@, i)]
    /\ LET op == Message("creator", i).op
           a == remoteActors[i]
           lost == a.state = "stopped" \/ (a.state = "absent" /\ op = "Del")
       IN  remoteActors' = [remoteActors EXCEPT ![i] =
             IF lost THEN a
             ELSE IF op = "Del" THEN [state |-> "stopped", row |-> {}]
             ELSE [state |-> "live",
                   row |-> IF \E r \in remotes[i] : Decodes(r) THEN remotes[i] ELSE a.row]]
    /\ UNCHANGED <<db, config, actor, sessions, events>>

\* The select loop of a bridge without address ends it, whatever is left.
Quit(b) ==
    /\ bridges[b].run = "replaced" /\ bridges[b].found = {}
    /\ bridges' = [bridges EXCEPT ![b] = [Off EXCEPT !.run = "quit"]]
    /\ UNCHANGED <<db, config, remoteActors, actor, sessions, events>>

\* The HA set actor spawns its own bridge on DASH_HA_GLOBAL_CONFIG.
HaSetBridge ==
    /\ bridges["global"].run = "on" /\ bridges["creator"].run # "off"
    /\ bridges' = [bridges EXCEPT !["global"] = Replaced(@)]
    /\ UNCHANGED <<db, config, remoteActors, actor, sessions, events>>

-----------------------------------------------------------------------------
(* The DPU actor of Mine.  It handles a message to the end before it takes *)
(* the next one; only handle_dpu_message waits in between.                 *)

Takes(table) ==
    /\ inbox # <<>> /\ spawning = 0
    /\ TableOf(Head(inbox).from) = table
    /\ UNCHANGED <<db, config, remoteActors, events>>

\* handle_dpu_message of a Del: the actor stops, its bridges with it.
HandleDpuDel ==
    /\ Takes("DPU") /\ Head(inbox).op = "Del"
    /\ dpu' = "stopped" /\ steady' = FALSE /\ inbox' = <<>> /\ told' = FreshTold
    /\ bridges' = [b \in Bridges |-> IF b \in {"dpu", "creator"} THEN bridges[b] ELSE Off]
    /\ UNCHANGED <<spawning, sessions>>

\* Mutant: the slot of the row is not compared with ours before the bridges
\* are spawned.
HandleDpuAnySlot ==
    /\ Takes("DPU") /\ Head(inbox).op = "Set"
    /\ inbox' = Tail(inbox)
    /\ LET fails == Head(inbox).row = {} \/ loopback \cap V4 = {}
           managed == \A r \in Head(inbox).row : r.dpu_id = Slot
       IN  IF fails THEN UNCHANGED <<dpu, steady, spawning>>
           ELSE /\ dpu' = IF managed THEN "managed" ELSE "other"
                /\ steady' = (managed /\ (dpu = "none" \/ steady))
                /\ spawning' = IF dpu = "none" THEN 1 ELSE 0
    /\ UNCHANGED <<bridges, told, sessions>>

\* handle_dpu_message of a Set: it fails on a row without fields and on an NPU
\* without IPv4 address; the first row with our slot spawns the bridges.
HandleDpu ==
    /\ Takes("DPU") /\ Head(inbox).op = "Set"
    /\ inbox' = Tail(inbox)
    /\ LET fails == Head(inbox).row = {} \/ loopback \cap V4 = {}
           managed == \A r \in Head(inbox).row : r.dpu_id = Slot
       IN  IF fails THEN UNCHANGED <<dpu, steady, spawning>>
           ELSE /\ dpu' = IF managed THEN "managed" ELSE "other"
                /\ steady' = (managed /\ (dpu = "none" \/ steady))
                /\ spawning' = IF managed /\ dpu = "none" THEN 1 ELSE 0
    /\ UNCHANGED <<bridges, told, sessions>>

\* Mutant: the bridge does not rehydrate.
SpawnBridgeEmpty ==
    /\ spawning # 0
    /\ LET b == Sequence[spawning]
       IN  bridges' = [bridges EXCEPT ![b] = On({}),
                                      !["creator"] = IF b = "remote" THEN Replaced(@) ELSE @]
    /\ spawning' = IF spawning = Len(Sequence) THEN 0 ELSE spawning + 1
    /\ UNCHANGED <<db, config, remoteActors, dpu, steady, inbox, told, sessions, events>>

\* The next bridge of the first handle_dpu_message; it takes the address of
\* the creator's bridge on REMOTE_DPU.
SpawnBridge ==
    /\ spawning # 0
    /\ LET b == Sequence[spawning]
       IN  bridges' = [bridges EXCEPT ![b] = On(KeysOf(TableOf(b))),
                                      !["creator"] = IF b = "remote" THEN Replaced(@) ELSE @]
    /\ spawning' = IF spawning = Len(Sequence) THEN 0 ELSE spawning + 1
    /\ UNCHANGED <<db, config, remoteActors, dpu, steady, inbox, told, sessions, events>>

\* The database cannot be reached: the handler ends with the error and the
\* bridges that are left are never spawned.
SpawnFails ==
    /\ spawning # 0
    /\ spawning' = 0
    /\ UNCHANGED <<db, config, bridges, remoteActors, dpu, steady, inbox, told, sessions, events>>

\* update_bfd_session for each of the peers.
SetSessions(peers, cfg) == [a \in Addresses |-> IF a \in peers THEN {cfg} ELSE sessions[a]]

\* handle_remote_dpu_message_to_local_dpu: the row is stored; without a global
\* config, or if it cannot be decoded, there is no session.
HandleRemote ==
    /\ Takes("REMOTE_DPU")
    /\ inbox' = Tail(inbox)
    /\ told' = [told EXCEPT !.remote[Head(inbox).key] = Head(inbox).row]
    /\ sessions' = LET rows == {r \in Head(inbox).row : Decodes(r)}
                   IN  IF rows = {} \/ told.global = {} THEN sessions
                       ELSE SetSessions({Npu(r.addrs) : r \in rows}, CHOOSE g \in told.global : TRUE)
    /\ UNCHANGED <<bridges, dpu, steady, spawning>>

\* The peers of update_bfd_sessions: every REMOTE_DPU row that decodes, and
\* our own NPU.
Peers(rows) == {Npu(r.addrs) : r \in {x \in rows : Decodes(x)}} \cup {Npu(loopback)}

\* Mutant: a new global config only reaches the session of our own NPU.
HandleGlobalOwnOnly ==
    /\ Takes("GLOBAL")
    /\ inbox' = Tail(inbox)
    /\ LET cfg == IF Head(inbox).row = {} THEN Deleted ELSE CHOOSE g \in Head(inbox).row : TRUE
       IN  /\ told' = [told EXCEPT !.global = {cfg}]
           /\ sessions' = IF dpu # "managed" THEN sessions ELSE SetSessions(Peers({}), cfg)
    /\ UNCHANGED <<bridges, dpu, steady, spawning>>

\* handle_dash_ha_global_config.
HandleGlobal ==
    /\ Takes("GLOBAL")
    /\ inbox' = Tail(inbox)
    /\ LET cfg == IF Head(inbox).row = {} THEN Deleted ELSE CHOOSE g \in Head(inbox).row : TRUE
       IN  /\ told' = [told EXCEPT !.global = {cfg}]
           /\ sessions' = IF dpu # "managed" THEN sessions
                          ELSE SetSessions(Peers(UNION {told.remote[i] : i \in Ids}), cfg)
    /\ UNCHANGED <<bridges, dpu, steady, spawning>>

-----------------------------------------------------------------------------
DpuActor == HandleDpuDel \/ HandleDpu \/ SpawnBridge \/ SpawnFails \/ HandleRemote \/ HandleGlobal

BridgeTasks ==
    \/ \E b \in Bridges : (\E k \in {Mine, "global"} \cup Ids : Forward(b, k)) \/ Quit(b)
    \/ \E i \in Ids : ForwardRemote(i)

Next == Operator \/ Start \/ StartRemote \/ Exit \/ BridgeTasks \/ HaSetBridge \/ DpuActor

Spec == Init /\ [][Next]_vars

\* hamgrd is restarted by its supervisor, tokio runs every task that can run.
FairSpec == Spec /\ WF_vars(Start) /\ WF_vars(StartRemote) /\ WF_vars(BridgeTasks) /\ WF_vars(DpuActor)

-----------------------------------------------------------------------------
RowsOrNone(rows) == {{}} \cup {{r} : r \in rows}

\* Types.  The handler only waits for a bridge while the actor has a row with
\* our slot; nothing of hamgrd exists when it is down.
TypeOK ==
    /\ loopback \in Loopbacks
    /\ dpus \in [Keys -> RowsOrNone(DpuRows)]
    /\ remotes \in [Ids -> RowsOrNone(RemoteRows)]
    /\ global \in RowsOrNone(Globals)
    /\ \A b \in Bridges : bridges[b].run = "on" => config # {}
    /\ remoteActors \in [Ids -> [state : {"absent", "live", "stopped"}, row : RowsOrNone(RemoteRows)]]
    /\ dpu \in {"absent", "none", "managed", "other", "stopped"}
    /\ steady => dpu = "managed"
    /\ spawning \in 0..Len(Sequence) /\ (spawning # 0 => dpu = "managed")
    /\ inbox # <<>> => dpu \notin {"absent", "stopped"}
    /\ told.global \in RowsOrNone(Globals) /\ told.remote \in [Ids -> RowsOrNone(RemoteRows)]
    /\ sessions \in [Addresses -> RowsOrNone(Globals)]
    /\ events \in 0..MaxEvents

Watches(b) == bridges[b].run = "on"
Silent(b) == bridges[b].found = {} /\ bridges[b].changed = {}

\* The sessions are those of the tables: one to every NPU of a REMOTE_DPU row
\* that decodes and one to our own, each with the present global config.
SessionsOfTables ==
    \A a \in Peers(UNION {remotes[i] : i \in Ids}), g \in global : sessions[a] = {g}

\* Whatever the order of the global config, of the REMOTE_DPU rows and of the
\* bridges that bring them, a managed DPU actor whose two bridges keep their
\* address has, once they and the actor have caught up, the sessions of the
\* tables: a row that came before the global config is not forgotten, and a
\* new global config reaches the sessions of every NPU.  (dpu.rs
\* handle_remote_dpu_message_to_local_dpu, update_bfd_sessions)
SessionsCurrent ==
    (/\ dpu = "managed" /\ steady /\ spawning = 0 /\ inbox = <<>>
     /\ Watches("global") /\ Watches("remote") /\ Silent("global") /\ Silent("remote"))
    => SessionsOfTables

\* If two NPUs are configured alike, each swbusd that loads its configuration
\* dials the other where it listens and under the path of its services, so a
\* response finds its way whichever of them connected first; the same holds of
\* the swbusds of two slots of one NPU.  (swbus-config lib.rs,
\* swbus_config_from_db and get_swbusd_service_path)
PeersMutual ==
    \A s \in {r.dpu_id : r \in Site.dpus} : Loads(Site, s) =>
        /\ \A r \in Site.remotes :
             LET there == Mirror(Site, r) IN
             Loads(there, r.dpu_id) =>
               /\ Dials(Config(Site, s), Config(there, r.dpu_id))
               /\ Dials(Config(there, r.dpu_id), Config(Site, s))
        /\ \A r \in Site.dpus :
             (r.dpu_id # s /\ Loads(Site, r.dpu_id))
               => Dials(Config(Site, s), Config(Site, r.dpu_id))

\* When CONFIG_DB stops changing, the sessions come to be those of the tables
\* and stay so, unless a bridge could not be spawned, lost its address or the
\* slot of the row was changed.  (dpu.rs handle_dpu_message and the handlers
\* of its bridges)
EventuallyMonitored ==
    <>[](dpu = "managed" /\ steady /\ Watches("global") /\ Watches("remote")
           => SessionsOfTables)

\* "dpu actor is spawned for both local dpu and remote dpu": when CONFIG_DB
\* stops changing, every REMOTE_DPU row that decodes has its actor.
\* (dpu.rs:90, start_actor_creator)
RemoteActors ==
    <>[](config # {} => \A i \in Ids : \A r \in remotes[i] : Decodes(r) => remoteActors[i].row = {r})
=============================================================================
