------------------------------ MODULE HaActors ------------------------------
(***************************************************************************)
(* How the state of the DPUs gets to the HA set in hamgrd: DPU actors      *)
(* (actors/dpu.rs), vDPU actors (actors/vdpu.rs) and an HA set actor       *)
(* (actors/ha_set.rs), each registered with the one before it, and an HA   *)
(* scope registered with the HA set.                                       *)
(*                                                                         *)
(* Whoever is registered is sent every change, and is sent the present     *)
(* state in answer to a registration; both are the same kind of message.   *)
(* Messages between two actors keep their order (ActorChannel shows when a *)
(* resend breaks it).  They are resent to an actor that does not exist yet *)
(* until they are an hour old or their sender stops, and are then given    *)
(* up.  Actors come up, and are configured, in any order.                  *)
(***************************************************************************)
EXTENDS Naturals, Sequences, FiniteSets

CONSTANTS
    Dpus,           \* DPUs, with one row in DPU or in REMOTE_DPU
    Managed,        \* the DPU of this hamgrd's slot
    VDpus,          \* vDPUs
    Mains,          \* the DPUs each vDPU may have as its main one
    SetIds,         \* values of vdpu_ids of the HA set: sequences of VDpus
    Preferred,      \* values of preferred_vdpu_ids: sequences of VDpus
    MaxChanges,     \* bound: changes of rows after the first
    MayDelete       \* rows may be deleted

\* Only two vDPUs per HA set are supported (ha_set.rs indexes vdpus[1]).
ASSUME HaActorsAssumption ==
    /\ Dpus \cap VDpus = {} /\ "set" \notin Dpus \cup VDpus
    /\ Managed \in Dpus
    /\ Mains \in [VDpus -> SUBSET Dpus]
    /\ SetIds \subseteq {s \in Seq(VDpus) : Len(s) = 2}
    /\ Preferred \subseteq Seq(VDpus)
    /\ MaxChanges \in Nat /\ MayDelete \in BOOLEAN

VARIABLES
    life,           \* of each actor: "absent" without its row, "live", "stopped"
    dpuRow,         \* version of each DPU's row
    pmon, bfd,      \* last DPU_STATE and DASH_BFD_PROBE_STATE of the managed DPU
    dpuRegs,        \* registrations a DPU actor has received
    main,           \* main DPU of each vDPU
    vdpuDpu,        \* DpuActorStates a vDPU actor has received
    vdpuRegs,       \* whether the HA set is registered with each vDPU actor
    setConfig,      \* configuration of the HA set
    global,         \* DASH_HA_GLOBAL_CONFIG, as the HA set actor has it
    setVdpu,        \* VDpuActorStates the HA set actor has received
    setRegs,        \* whether the HA scope is registered with the HA set
    haSetTable,     \* what was sent to DASH_HA_SET_TABLE last
    vnetRoute,      \* what was written to VNET_ROUTE_TUNNEL_TABLE last
    scopeView,      \* what was sent to the HA scope last
    net,            \* messages on their way between each two actors
    spawned,        \* actors that exist or have stopped
    lost,           \* links whose last message was given up
    changes

dpuVars == <<dpuRow, pmon, bfd, dpuRegs>>
vdpuVars == <<main, vdpuDpu, vdpuRegs>>
setVars == <<setConfig, global, setVdpu, setRegs, haSetTable, vnetRoute, scopeView>>
vars == <<life, dpuVars, vdpuVars, setVars, net, spawned, lost, changes>>

Actors == Dpus \cup VDpus \cup {"set"}
Pairs == (Dpus \X VDpus) \cup (VDpus \X Dpus) \cup (VDpus \X {"set"}) \cup ({"set"} \X VDpus)
Versions == 0..MaxChanges + 1
Health == {"none", "down", "up"}

\* DpuActorState, which VDpuActorState wraps; Unknown where none was received.
\* Registrations are Booleans, all other messages states.
DpuState == [dpu : Dpus, row : Versions \ {0}, up : BOOLEAN]
Unknown == [dpu |-> Managed, row |-> 0, up |-> FALSE]
Carried(p) == IF p[1] \in Dpus \/ p[2] = "set" THEN DpuState ELSE BOOLEAN
Config == [version : Versions, ids : SetIds, preferred : Preferred]
NoConfig == [version |-> 0, ids |-> <<>>, preferred |-> <<>>]
NoGlobal == [version |-> 0, vnet |-> FALSE]

\* Type invariant.
TypeOK ==
    /\ life \in [Actors -> {"absent", "live", "stopped"}]
    /\ dpuRow \in [Dpus -> Versions]
    /\ pmon \in Health /\ bfd \in Health
    /\ dpuRegs \in [Dpus -> SUBSET VDpus]
    /\ main \in [VDpus -> Dpus]
    /\ vdpuDpu \in [VDpus -> [Dpus -> DpuState \cup {Unknown}]]
    /\ vdpuRegs \in [VDpus -> BOOLEAN]
    /\ setConfig \in Config \cup {NoConfig}
    /\ global \in [version : Versions, vnet : BOOLEAN]
    /\ setVdpu \in [VDpus -> DpuState \cup {Unknown}]
    /\ setRegs \in BOOLEAN
    /\ spawned \subseteq Actors /\ lost \subseteq Pairs
    /\ changes \in 0..MaxChanges
    /\ DOMAIN net = Pairs
    /\ \A p \in Pairs : net[p] \in Seq(Carried(p))
    /\ \A a \in Dpus : (life[a] = "absent") = (dpuRow[a] = 0)
    /\ (life["set"] = "absent") = (setConfig = NoConfig)

Init ==
    /\ life = [a \in Actors |-> "absent"]
    /\ dpuRow = [d \in Dpus |-> 0]
    /\ pmon = "none" /\ bfd = "none"
    /\ dpuRegs = [d \in Dpus |-> {}]
    /\ main = [v \in VDpus |-> Managed]
    /\ vdpuDpu = [v \in VDpus |-> [d \in Dpus |-> Unknown]]
    /\ vdpuRegs = [v \in VDpus |-> FALSE]
    /\ setConfig = NoConfig
    /\ global = NoGlobal
    /\ setVdpu = [v \in VDpus |-> Unknown]
    /\ setRegs = FALSE
    /\ haSetTable = <<>> /\ vnetRoute = <<>> /\ scopeView = <<>>
    /\ net = [p \in Pairs |-> <<>>]
    /\ spawned = {} /\ lost = {}
    /\ changes = 0

-----------------------------------------------------------------------------
\* Messages.

\* The first row of an actor and the first good health of a DPU are free; every
\* other one is a change.
Change(first) ==
    /\ first \/ changes < MaxChanges
    /\ changes' = IF first THEN changes ELSE changes + 1

Sent(n, pairs, m) == [p \in Pairs |-> IF p \in pairs THEN Append(n[p], m) ELSE n[p]]
Received(n, p) == [n EXCEPT ![p] = Tail(@)]

\* A message can be received by an actor that was spawned for a row and does not
\* have the row yet: it is kept in the incoming table, and that is all.
Receives(p) ==
    /\ net[p] # <<>> /\ life[p[2]] # "stopped"
    /\ spawned' = spawned \cup {p[2]}

\* The router has a route to nowhere for an actor that has stopped.
Lost(p) ==
    /\ net[p] # <<>> /\ life[p[2]] = "stopped"
    /\ net' = Received(net, p)
    /\ UNCHANGED <<life, dpuVars, vdpuVars, setVars, spawned, lost, changes>>

\* drive_resend_loop, for an actor that does not exist: the message has not been
\* acknowledged for an hour, or the sender has stopped and sends nothing again.
GiveUp(p) ==
    /\ net[p] # <<>> /\ p[2] \notin spawned
    /\ net' = Received(net, p)
    /\ lost' = IF net'[p] = <<>> THEN lost \cup {p} ELSE lost
    /\ UNCHANGED <<life, dpuVars, vdpuVars, setVars, spawned, changes>>

\* A message is sent on links of registrations.
Registers(pairs, active) ==
    /\ net' = Sent(net, pairs, active)
    /\ lost' = lost \ pairs

-----------------------------------------------------------------------------
\* DPU actor.

\* calculate_dpu_state: only the managed DPU has the bridges that bring pmon
\* and BFD state.
StateOf(d, row, pm, bf) == [dpu |-> d, row |-> row, up |-> d = Managed /\ pm = "up" /\ bf = "up"]

\* Mutant: only those are told whose registration comes later.
DpuConfigSilent(d) ==
    /\ life[d] # "stopped"
    /\ Change(life[d] = "absent")
    /\ life' = [life EXCEPT ![d] = "live"]
    /\ dpuRow' = [dpuRow EXCEPT ![d] = @ + 1]
    /\ spawned' = spawned \cup {d}
    /\ UNCHANGED <<net, pmon, bfd, dpuRegs, vdpuVars, setVars, lost>>

\* handle_dpu_message and handle_remote_dpu_message_to_remote_dpu: everyone
\* registered is told.
DpuConfig(d) ==
    /\ life[d] # "stopped"
    /\ Change(life[d] = "absent")
    /\ life' = [life EXCEPT ![d] = "live"]
    /\ dpuRow' = [dpuRow EXCEPT ![d] = @ + 1]
    /\ net' = Sent(net, {d} \X dpuRegs[d], StateOf(d, dpuRow'[d], pmon, bfd))
    /\ spawned' = spawned \cup {d}
    /\ UNCHANGED <<pmon, bfd, dpuRegs, vdpuVars, setVars, lost>>

\* DPU_STATE or DASH_BFD_PROBE_STATE: update_dpu_state to all.
DpuHealth(pm, bf) ==
    /\ life[Managed] = "live"
    /\ \/ pm # pmon /\ bf = bfd /\ Change(pmon = "none" /\ pm = "up")
       \/ bf # bfd /\ pm = pmon /\ Change(bfd = "none" /\ bf = "up")
    /\ pmon' = pm /\ bfd' = bf
    /\ net' = Sent(net, {Managed} \X dpuRegs[Managed], StateOf(Managed, dpuRow[Managed], pm, bf))
    /\ UNCHANGED <<life, dpuRow, dpuRegs, vdpuVars, setVars, spawned, lost>>

\* A Del stops the actor; nobody is told.
DpuDelete(d) ==
    /\ MayDelete /\ life[d] = "live"
    /\ Change(FALSE)
    /\ life' = [life EXCEPT ![d] = "stopped"]
    /\ UNCHANGED <<dpuVars, vdpuVars, setVars, net, spawned, lost>>

\* Mutant: the answer does not wait for the row.
DpuRegisterAtOnce(d, v) ==
    /\ Receives(<<v, d>>)
    /\ LET active == Head(net[<<v, d>>]) IN
         /\ dpuRegs' = [dpuRegs EXCEPT ![d] = IF active THEN @ \cup {v} ELSE @ \ {v}]
         /\ net' = Sent(Received(net, <<v, d>>), IF active THEN {<<d, v>>} ELSE {},
                        StateOf(d, dpuRow[d], pmon, bfd))
    /\ UNCHANGED <<life, dpuRow, pmon, bfd, vdpuVars, setVars, lost, changes>>

\* handle_dpu_state_registration.
DpuRegister(d, v) ==
    /\ Receives(<<v, d>>)
    /\ LET active == Head(net[<<v, d>>]) IN
         /\ dpuRegs' = [dpuRegs EXCEPT ![d] = IF active THEN @ \cup {v} ELSE @ \ {v}]
         /\ net' = Sent(Received(net, <<v, d>>),
                        IF active /\ life[d] = "live" THEN {<<d, v>>} ELSE {},
                        StateOf(d, dpuRow[d], pmon, bfd))
    /\ UNCHANGED <<life, dpuRow, pmon, bfd, vdpuVars, setVars, lost, changes>>

-----------------------------------------------------------------------------
\* vDPU actor.

\* handle_vdpu_message: it registers with its main DPU, and stays registered
\* with the one before.
VdpuConfig(v, d) ==
    /\ life[v] # "stopped"
    /\ Change(life[v] = "absent")
    /\ life' = [life EXCEPT ![v] = "live"]
    /\ main' = [main EXCEPT ![v] = d]
    /\ Registers({<<v, d>>}, TRUE)
    /\ spawned' = spawned \cup {v}
    /\ UNCHANGED <<dpuVars, vdpuDpu, vdpuRegs, setVars>>

\* Mutant: the actor stops without a word.
VdpuDeleteSilent(v) ==
    /\ MayDelete /\ life[v] = "live"
    /\ Change(FALSE)
    /\ life' = [life EXCEPT ![v] = "stopped"]
    /\ UNCHANGED <<net, dpuVars, vdpuVars, setVars, spawned, lost>>

VdpuDelete(v) ==
    /\ MayDelete /\ life[v] = "live"
    /\ Change(FALSE)
    /\ life' = [life EXCEPT ![v] = "stopped"]
    /\ Registers({<<v, main[v]>>}, FALSE)
    /\ UNCHANGED <<dpuVars, vdpuVars, setVars, spawned>>

\* handle_dpu_state_update: whichever DPU it is from, the state of the main DPU
\* goes to the registered HA set.
VdpuDpuUpdate(v, d) ==
    /\ Receives(<<d, v>>)
    /\ vdpuDpu' = [vdpuDpu EXCEPT ![v][d] = Head(net[<<d, v>>])]
    /\ LET state == vdpuDpu'[v][main[v]]
           tell == life[v] = "live" /\ state # Unknown /\ vdpuRegs[v]
       IN net' = Sent(Received(net, <<d, v>>), IF tell THEN {<<v, "set">>} ELSE {}, state)
    /\ UNCHANGED <<life, dpuVars, main, vdpuRegs, setVars, lost, changes>>

\* handle_vdpu_state_registration.
VdpuRegister(v) ==
    /\ Receives(<<"set", v>>)
    /\ vdpuRegs' = [vdpuRegs EXCEPT ![v] = Head(net[<<"set", v>>])]
    /\ LET state == vdpuDpu[v][main[v]]
           tell == life[v] = "live" /\ state # Unknown /\ vdpuRegs'[v]
       IN net' = Sent(Received(net, <<"set", v>>), IF tell THEN {<<v, "set">>} ELSE {}, state)
    /\ UNCHANGED <<life, dpuVars, main, vdpuDpu, setVars, lost, changes>>

-----------------------------------------------------------------------------
\* HA set actor.

\* get_vdpus: the preferred ones first, then the others.
Vdpus(c) ==
    c.preferred \o SelectSeq(c.ids, LAMBDA v : \A i \in DOMAIN c.preferred : c.preferred[i] # v)

\* The preferred vDPUs are vDPUs of the HA set ("followed by backups"), and
\* prepare_dash_ha_set_table_data finds two.
ASSUME VdpusAssumption ==
    \A c \in Config :
        /\ {1, 2} \subseteq DOMAIN Vdpus(c)
        /\ \A i \in DOMAIN Vdpus(c) : \E j \in DOMAIN c.ids : Vdpus(c)[i] = c.ids[j]

\* get_vdpus_if_ready.
Ready(c, view) == c # NoConfig /\ \A i \in DOMAIN Vdpus(c) : view[Vdpus(c)[i]] # Unknown

\* Addresses of a DPU come from its row.
Address(state) == <<state.dpu, state.row>>

\* prepare_dash_ha_set_table_data: only the first two vDPUs count, and there is
\* nothing to send unless one of them is managed and the global configuration
\* is known.
HasSetData(c, view, g) ==
    /\ Ready(c, view)
    /\ \E i \in 1..2 : view[Vdpus(c)[i]].dpu = Managed
    /\ g # NoGlobal

SetData(c, view, g) ==
    LET first == view[Vdpus(c)[1]]
        second == view[Vdpus(c)[2]]
        local == IF first.dpu = Managed THEN first ELSE second
        peer == IF first.dpu = Managed THEN second ELSE first
    IN [config |-> c.version, local |-> Address(local), peer |-> Address(peer),
        global |-> g.version]

\* update_vnet_route_tunnel_table: the entry of the internal state, of which there is
\* one.  The row of the database is named after the vip, so that a configuration
\* with another vip leaves the row of the earlier one there.
RouteData(c, view, g) ==
    [vip |-> c.version,
     endpoints |-> [i \in DOMAIN Vdpus(c) |-> Address(view[Vdpus(c)[i]])],
     primaries |-> Len(c.preferred),
     timers |-> g.version]

\* update_dash_ha_set_table: the table, and everyone registered.
UpdateSetTable(c, view, g) ==
    /\ haSetTable' = IF HasSetData(c, view, g) THEN SetData(c, view, g) ELSE haSetTable
    /\ scopeView' = IF HasSetData(c, view, g) /\ setRegs THEN SetData(c, view, g) ELSE scopeView

\* A callback that fails, here for want of a vnet_name, sends nothing.
UpdateAll(view, g) ==
    IF Ready(setConfig, view) /\ (g.vnet \/ g = NoGlobal)
    THEN /\ UpdateSetTable(setConfig, view, g)
         /\ vnetRoute' = IF g = NoGlobal THEN vnetRoute ELSE RouteData(setConfig, view, g)
    ELSE UNCHANGED <<haSetTable, vnetRoute, scopeView>>

\* handle_dash_ha_set_config_table_message: it registers with its vDPUs every
\* time, which makes them send what the route needs; the route itself is left.
SetConfigure(ids, preferred) ==
    /\ life["set"] # "stopped"
    /\ Change(life["set"] = "absent")
    /\ life' = [life EXCEPT !["set"] = "live"]
    /\ setConfig' = [version |-> setConfig.version + 1, ids |-> ids, preferred |-> preferred]
    /\ Registers({<<"set", ids[i]>> : i \in DOMAIN ids}, TRUE)
    /\ UpdateSetTable(setConfig', setVdpu, global)
    /\ spawned' = spawned \cup {"set"}
    /\ UNCHANGED <<dpuVars, vdpuVars, global, setVdpu, setRegs, vnetRoute>>

SetDelete ==
    /\ MayDelete /\ life["set"] = "live"
    /\ Change(FALSE)
    /\ life' = [life EXCEPT !["set"] = "stopped"]
    /\ Registers({<<"set", setConfig.ids[i]>> : i \in DOMAIN setConfig.ids}, FALSE)
    /\ UNCHANGED <<dpuVars, vdpuVars, setVars, spawned>>

\* handle_dash_ha_global_config; the bridge was spawned by the first SetConfigure.
GlobalUpdate(vnet) ==
    /\ life["set"] = "live"
    /\ Change(global = NoGlobal)
    /\ global' = [version |-> global.version + 1, vnet |-> vnet]
    /\ UpdateAll(setVdpu, global')
    /\ UNCHANGED <<life, dpuVars, vdpuVars, setConfig, setVdpu, setRegs, net, spawned, lost>>

\* handle_vdpu_state_update.
SetVdpuUpdate(v) ==
    /\ Receives(<<v, "set">>)
    /\ setVdpu' = [setVdpu EXCEPT ![v] = Head(net[<<v, "set">>])]
    /\ net' = Received(net, <<v, "set">>)
    /\ UpdateAll(setVdpu', global)
    /\ UNCHANGED <<life, dpuVars, vdpuVars, setConfig, global, setRegs, lost, changes>>

\* handle_haset_state_registration, from the HA scope.
SetRegister ==
    /\ life["set"] # "stopped" /\ ~setRegs
    /\ setRegs' = TRUE
    /\ spawned' = spawned \cup {"set"}
    /\ scopeView' = IF HasSetData(setConfig, setVdpu, global)
                    THEN SetData(setConfig, setVdpu, global) ELSE scopeView
    /\ UNCHANGED <<life, dpuVars, vdpuVars, setConfig, global, setVdpu, haSetTable, vnetRoute,
                   net, lost, changes>>

-----------------------------------------------------------------------------
Next ==
    \/ \E p \in Pairs : Lost(p) \/ GiveUp(p)
    \/ \E d \in Dpus : DpuConfig(d)
    \/ \E h \in Health \ {"none"} : DpuHealth(h, bfd) \/ DpuHealth(pmon, h)
    \/ \E d \in Dpus : DpuDelete(d)
    \/ \E d \in Dpus, v \in VDpus : DpuRegister(d, v)
    \/ \E v \in VDpus : \E d \in Mains[v] : VdpuConfig(v, d)
    \/ \E v \in VDpus : VdpuDelete(v)
    \/ \E v \in VDpus, d \in Dpus : VdpuDpuUpdate(v, d)
    \/ \E v \in VDpus : VdpuRegister(v)
    \/ \E ids \in SetIds, preferred \in Preferred : SetConfigure(ids, preferred)
    \/ SetDelete
    \/ \E vnet \in BOOLEAN : GlobalUpdate(vnet)
    \/ \E v \in VDpus : SetVdpuUpdate(v)
    \/ SetRegister

Spec == Init /\ [][Next]_vars

-----------------------------------------------------------------------------
Quiet == \A p \in Pairs : net[p] = <<>>
Now(d) == StateOf(d, dpuRow[d], pmon, bfd)

\* The links of the registrations that the HA set is built on.
Links ==
    UNION {{<<"set", setConfig.ids[i]>>, <<setConfig.ids[i], main[setConfig.ids[i]]>>} :
           i \in DOMAIN setConfig.ids}

\* Once no message is on its way, the HA set has the present state of the main
\* DPU of each of its vDPUs, and DASH_HA_SET_TABLE, the route and the HA scope
\* have what follows from the present rows, in whatever order the actors were
\* created, registered, configured and updated: no change falls between a
\* registration and its answer.  Only a registration that was given up, and not
\* sent again by a later configuration, leaves the HA set without the state.
\* (HaSetActor, VDpuActor, DpuActor.)
Consistent ==
    LET view == [v \in VDpus |-> Now(main[v])]
        all == {"set"} \cup {setConfig.ids[i] : i \in DOMAIN setConfig.ids}
                       \cup {main[setConfig.ids[i]] : i \in DOMAIN setConfig.ids}
    IN (Quiet /\ Links \cap lost = {} /\ \A a \in all : life[a] = "live") =>
          /\ \A i \in DOMAIN setConfig.ids : setVdpu[setConfig.ids[i]] = view[setConfig.ids[i]]
          /\ global.vnet => vnetRoute = RouteData(setConfig, view, global)
          /\ global.vnet /\ HasSetData(setConfig, view, global) =>
                /\ haSetTable = SetData(setConfig, view, global)
                /\ setRegs => scopeView = haSetTable

\* Once no message is on its way, nobody sends updates to a vDPU or an HA set
\* that was deleted, as far as its last configuration goes: its unregistration
\* comes after every registration it sent, and is not given up without them.
\* (Registrations that an earlier configuration made are never withdrawn.)
DeletedUnregistered ==
    Quiet =>
       /\ \A v \in VDpus : life[v] = "stopped" /\ life[main[v]] # "stopped" =>
             v \notin dpuRegs[main[v]]
       /\ life["set"] = "stopped" =>
             \A i \in DOMAIN setConfig.ids :
                life[setConfig.ids[i]] # "stopped" => ~vdpuRegs[setConfig.ids[i]]
=============================================================================
