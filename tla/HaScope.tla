------------------------------ MODULE HaScope ------------------------------
(***************************************************************************)
(* The HA scope actor of hamgrd (actors/ha_scope.rs): the approval cycle   *)
(* of the operations a DPU asks for.  The DPU reports pending operations   *)
(* in DPU_STATE_DB, the actor lists them under fresh ids in STATE_DB, the  *)
(* SDN controller approves ids in CONFIG_DB, the actor requests them from  *)
(* the DPU and takes them off the list.                                    *)
(*                                                                         *)
(* A handler and the commit of the internal table are one step, since      *)
(* nobody sees the table in between; the queued message is sent in a step  *)
(* of its own.  hamgrd may die at any time: CONFIG_DB, STATE_DB and the    *)
(* DPU's state survive, the actor and its tables do not.                   *)
(***************************************************************************)
EXTENDS Naturals, FiniteSets

CONSTANTS
    Types,          \* operation types a DPU asks for
    Flags,          \* those of them with a request flag in DASH_HA_SCOPE_TABLE
    Roles,          \* HA roles a DPU reports
    MaxOps,         \* bound: operation ids (a Uuid each)
    MaxDpu,         \* bound: changes of the DPU's state
    MaxRestarts,    \* bound: deaths of hamgrd
    MaxDbErrors     \* bound: failed connections to a database

Ids == 1..MaxOps

ASSUME HaScopeAssumption ==
    /\ Flags \subseteq Types /\ IsFiniteSet(Types)
    /\ "none" \notin Roles
    /\ MaxOps \in Nat /\ MaxDpu \in Nat /\ MaxRestarts \in Nat /\ MaxDbErrors \in Nat

VARIABLES
    up,             \* "up", "stopped" or "panicked" (the actor), "down" (hamgrd)
    config,         \* self.dash_ha_scope_config: approved ids, or {0} for None
    dpuSeen,        \* self.dpu_ha_scope_state
    bridge,         \* ~self.bridges.is_empty()
    vdpu, haset, dpu,       \* incoming entries: there and managed?, there?, state
    entry,          \* the internal table has the NPU state entry
    npu,            \* that entry: [pop, ops, role]
    backup,         \* its backup_fvs: what it was before the last handler that
                    \* changed it; kept as long as a handler can fail (~bridge)
    out,            \* outgoing queue: set of requested flags per message, or {}
    configDb,       \* CONFIG_DB: approved ids, or None
    stateDb,        \* STATE_DB: the NPU state
    dpuDb,          \* DPU_STATE_DB: [role, pend]
    configNews, dpuNews,    \* updates the consumer bridges still have to bring
    nextId, dpuChanges, restarts, dbErrors,
    approved        \* history: ids the controller has approved, with their type

actor == <<config, dpuSeen, bridge, vdpu, haset, dpu, entry, npu, backup>>
dbs == <<configDb, dpuDb, approved>>
counters == <<dpuChanges, restarts, dbErrors>>
vars == <<up, actor, out, dbs, stateDb, configNews, dpuNews, nextId, counters>>

None == {0}                             \* no config received
NoDpu == [role |-> "none", pend |-> {}] \* DpuDashHaScopeState::default()
NoOps == [i \in {} |-> "none"]
NoNpu == [pop |-> FALSE, ops |-> NoOps, role |-> "none"]

Ops == UNION {[S -> Types] : S \in SUBSET Ids}
Npu == [pop : BOOLEAN, ops : Ops, role : Roles \cup {"none"}]
Dpu == [role : Roles \cup {"none"}, pend : SUBSET Types]

\* Type invariant of the actor, its tables and the databases.
TypeOK ==
    /\ up \in {"up", "stopped", "panicked", "down"}
    /\ config \in (SUBSET Ids) \cup {None}
    /\ dpuSeen \in Dpu /\ dpu \in Dpu /\ dpuDb \in Dpu
    /\ bridge \in BOOLEAN /\ vdpu \in BOOLEAN /\ haset \in BOOLEAN /\ entry \in BOOLEAN
    /\ npu \in Npu /\ backup \in Npu /\ stateDb \in Npu
    /\ npu.pop => entry
    /\ out \subseteq SUBSET Flags
    /\ configDb \in (SUBSET Ids) \cup {None}
    /\ configNews \in BOOLEAN /\ dpuNews \in BOOLEAN
    /\ nextId \in 1..MaxOps + 1
    /\ dpuChanges \in 0..MaxDpu /\ restarts \in 0..MaxRestarts /\ dbErrors \in 0..MaxDbErrors
    /\ approved \in Ops

Init ==
    /\ up = "up"
    /\ config = None /\ dpuSeen = NoDpu /\ bridge = FALSE
    /\ vdpu = FALSE /\ haset = FALSE /\ dpu = NoDpu
    /\ entry = FALSE /\ npu = NoNpu /\ backup = NoNpu
    /\ out = {}
    /\ configDb = {} /\ stateDb = NoNpu /\ dpuDb = NoDpu
    /\ configNews = TRUE /\ dpuNews = FALSE
    /\ nextId = 1 /\ dpuChanges = 0 /\ restarts = 0 /\ dbErrors = 0
    /\ approved = NoOps

\* The driver takes the next message when the last one's output is sent.
Ready == up = "up" /\ out = {}

-----------------------------------------------------------------------------
\* Helpers of the actor, on the values of its tables.

\* The operations of new and of old; where both have an id, that of new.
With(new, old) ==
    [i \in DOMAIN new \cup DOMAIN old |-> IF i \in DOMAIN new THEN new[i] ELSE old[i]]

\* commit_changes: every successful handler writes the entry n, if there is one.
Commit(has, n) == stateDb' = IF has THEN n ELSE stateDb

\* fvs_mut keeps the values n for drop_changes.
Backup(n) == backup' = IF bridge THEN backup ELSE n

\* update_npu_ha_scope_state_base, for a managed vDPU: the list and the roles
\* are those of the old state.
Base(n, hs) == IF hs THEN [n EXCEPT !.pop = TRUE] ELSE n

\* update_npu_ha_scope_state_ha_state.
HaState(n, d) == IF n.pop /\ d # NoDpu THEN [n EXCEPT !.role = d.role] ELSE n

\* Mutant: approved operations stay in the list.
PendingOperationsKept(n, new, gone) ==
    IF n.pop THEN [n EXCEPT !.ops = With(new, @)] ELSE n

\* Mutant: nothing to do unless something was approved.
PendingOperationsIfApproved(n, new, gone) ==
    IF n.pop /\ gone # {} THEN [n EXCEPT !.ops = With(new, [i \in DOMAIN @ \ gone |-> @[i]])]
    ELSE n

\* update_npu_ha_scope_state_pending_operations.
PendingOperations(n, new, gone) ==
    IF n.pop THEN [n EXCEPT !.ops = With(new, [i \in DOMAIN @ \ gone |-> @[i]])]
    ELSE n                              \* not populated: only an error is logged

\* Mutant: all that is pending is requested, approved or not.
RequestedAll(n, ids) == {n.ops[i] : i \in DOMAIN n.ops} \cap Flags

\* update_dpu_ha_scope_table: the flags for the approved ids still pending.
Requested(n, ids) == {n.ops[i] : i \in ids \cap DOMAIN n.ops} \cap Flags

-----------------------------------------------------------------------------
\* Mutant: the list is updated before the request is derived from it.
HandleConfigListFirst ==
    /\ Ready /\ configNews /\ configDb # None
    /\ configNews' = FALSE
    /\ config' = configDb
    /\ \/ ~vdpu /\ Commit(entry, npu) /\ UNCHANGED <<up, npu, backup, out>>
       \/ vdpu /\ ~entry /\ up' = "panicked" /\ UNCHANGED <<npu, backup, stateDb, out>>
       \/ /\ vdpu /\ entry
          /\ npu' = HaState(PendingOperations(npu, NoOps, configDb), dpu)
          /\ IF npu' = npu THEN UNCHANGED backup ELSE Backup(npu)
          /\ out' = {Requested(npu', configDb)}
          /\ Commit(entry, npu')
          /\ UNCHANGED up
    /\ UNCHANGED <<dpuSeen, bridge, vdpu, haset, dpu, entry, dbs, dpuNews, nextId, counters>>

\* handle_dash_ha_scope_config_table_message on a Set.  The first one registers
\* with the vDPU and HA set actors, so that their updates can come.  Without
\* the internal entry, internal.get panics.
HandleConfig ==
    /\ Ready /\ configNews /\ configDb # None
    /\ configNews' = FALSE
    /\ config' = configDb
    /\ \/ /\ ~vdpu                      \* vdpu_is_managed
          /\ Commit(entry, npu)
          /\ UNCHANGED <<up, npu, backup, out>>
       \/ /\ vdpu /\ ~entry
          /\ up' = "panicked"
          /\ UNCHANGED <<npu, backup, stateDb, out>>
       \/ /\ vdpu /\ entry
          /\ out' = {Requested(npu, configDb)}
          /\ npu' = PendingOperations(HaState(npu, dpu), NoOps, configDb)
          /\ IF npu' = npu THEN UNCHANGED backup ELSE Backup(npu)
          /\ Commit(entry, npu')
          /\ UNCHANGED up
    /\ UNCHANGED <<dpuSeen, bridge, vdpu, haset, dpu, entry, dbs, dpuNews, nextId, counters>>

\* Mutant: the internal table outlives the actor's entry.
ForgetKeepsNpu ==
    /\ config' = None /\ dpuSeen' = NoDpu /\ bridge' = FALSE
    /\ vdpu' = FALSE /\ haset' = FALSE /\ dpu' = NoDpu
    /\ entry' = FALSE /\ npu' = npu /\ backup' = NoNpu
    /\ out' = {} /\ configNews' = FALSE /\ dpuNews' = FALSE

\* Everything the actor has in memory.
Forget ==
    /\ config' = None /\ dpuSeen' = NoDpu /\ bridge' = FALSE
    /\ vdpu' = FALSE /\ haset' = FALSE /\ dpu' = NoDpu
    /\ entry' = FALSE /\ npu' = NoNpu /\ backup' = NoNpu
    /\ out' = {} /\ configNews' = FALSE /\ dpuNews' = FALSE

\* The same handler on a Del: the actor unregisters and stops.  The rows in
\* STATE_DB and in the DPU stay.
HandleConfigDel ==
    /\ Ready /\ configNews /\ configDb = None
    /\ up' = "stopped"
    /\ Forget
    /\ UNCHANGED <<dbs, stateDb, nextId, counters>>

\* Mutant: the entry is only made once the HA set is known.
HandleVdpuLateEntry ==
    /\ Ready /\ config # None
    /\ vdpu' = TRUE
    /\ entry' = (entry \/ haset)
    /\ LET loaded == IF entry THEN npu ELSE stateDb IN
         /\ out' = {Requested(loaded, config)}
         /\ npu' = IF entry' THEN Base(loaded, haset) ELSE npu
    /\ bridge' = TRUE /\ backup' = NoNpu
    /\ dpuNews' = (dpuNews \/ ~bridge)
    /\ Commit(entry', npu')
    /\ UNCHANGED <<up, config, dpuSeen, haset, dpu, dbs, configNews, nextId, counters>>

\* handle_vdpu_state_update of a managed vDPU: the entry, which add() loads from
\* STATE_DB, the bridge, which brings the DPU's present state, then the request
\* and the base of the NPU state.
HandleVdpu ==
    /\ Ready /\ config # None
    /\ vdpu' = TRUE
    /\ entry' = TRUE
    /\ LET loaded == IF entry THEN npu ELSE stateDb IN
         /\ out' = {Requested(loaded, config)}
         /\ npu' = Base(loaded, haset)
    /\ bridge' = TRUE /\ backup' = NoNpu
    /\ dpuNews' = (dpuNews \/ ~bridge)
    /\ Commit(entry', npu')
    /\ UNCHANGED <<up, config, dpuSeen, haset, dpu, dbs, configNews, nextId, counters>>

\* The same of a vDPU whose main DPU is another NPU's: the actor is dormant, but
\* keeps its entry and its bridge.
HandleVdpuUnmanaged ==
    /\ Ready /\ config # None
    /\ vdpu' = FALSE
    /\ Commit(entry, npu)
    /\ UNCHANGED <<up, config, dpuSeen, bridge, haset, dpu, entry, npu, backup, out, dbs,
                   configNews, dpuNews, nextId, counters>>

\* The same with no connection to the database, for the entry or for the
\* bridge: the handler fails, the vDPU and a new entry stay, and drop_changes
\* sets an entry there was back to its backup.
HandleVdpuFails ==
    /\ Ready /\ config # None
    /\ dbErrors < MaxDbErrors
    /\ dbErrors' = dbErrors + 1
    /\ vdpu' = TRUE
    /\ \/ ~entry /\ UNCHANGED <<entry, npu, backup>>
       \/ /\ ~entry /\ ~bridge
          /\ entry' = TRUE /\ npu' = stateDb /\ backup' = stateDb
       \/ /\ entry /\ ~bridge
          /\ npu' = backup
          /\ UNCHANGED <<entry, backup>>
    /\ UNCHANGED <<up, config, dpuSeen, bridge, haset, dpu, out, dbs, stateDb, configNews,
                   dpuNews, nextId, dpuChanges, restarts>>

\* handle_haset_state_update.
HandleHaset ==
    /\ Ready /\ config # None
    /\ haset' = TRUE
    /\ \/ /\ ~vdpu
          /\ Commit(entry, npu)
          /\ UNCHANGED <<up, npu, backup>>
       \/ /\ vdpu /\ ~entry
          /\ up' = "panicked"
          /\ UNCHANGED <<npu, backup, stateDb>>
       \/ /\ vdpu /\ entry
          /\ npu' = Base(npu, TRUE)
          /\ Backup(npu)
          /\ Commit(entry, npu')
          /\ UNCHANGED up
    /\ UNCHANGED <<config, dpuSeen, bridge, vdpu, dpu, entry, out, dbs, configNews, dpuNews,
                   nextId, counters>>

\* handle_dpu_ha_scope_state_update: an operation is new when it is pending now
\* and was not in the state before (the default after a restart).
HandleDpu ==
    /\ Ready /\ dpuNews
    /\ dpuNews' = FALSE
    /\ dpu' = dpuDb /\ dpuSeen' = dpuDb
    /\ LET new == dpuDb.pend \ dpuSeen.pend IN
         /\ nextId' = nextId + Cardinality(new)
         /\ nextId' <= MaxOps + 1
         /\ \E f \in [nextId..nextId' - 1 -> new] :
              /\ {f[i] : i \in DOMAIN f} = new
              /\ npu' = PendingOperations(HaState(npu, dpuDb), f, {})
    /\ Commit(entry, npu')
    /\ UNCHANGED <<up, config, bridge, vdpu, haset, entry, backup, out, dbs, configNews, counters>>

\* The queued message reaches the producer bridge of DASH_HA_SCOPE_TABLE.
SendQueued ==
    /\ up = "up" /\ out # {}
    /\ out' = {}
    /\ UNCHANGED <<up, actor, dbs, stateDb, configNews, dpuNews, nextId, counters>>

-----------------------------------------------------------------------------
\* The SDN controller approves operations it sees in STATE_DB.
Approve(ids) ==
    /\ configDb # None
    /\ ids # {} /\ ids \subseteq DOMAIN stateDb.ops
    /\ configDb' = ids
    /\ approved' = With([i \in ids |-> stateDb.ops[i]], approved)
    /\ configNews' = (up = "up")
    /\ configDb' # configDb
    /\ UNCHANGED <<up, actor, out, dpuDb, stateDb, dpuNews, nextId, counters>>

\* The HA scope is configured, or its configuration deleted.  An actor that has
\* stopped is not spawned again before hamgrd restarts (see EdgeRuntime).
Configure ==
    /\ ~configNews
    /\ configDb' = IF configDb = None THEN {} ELSE None
    /\ configNews' = (up = "up")
    /\ UNCHANGED <<up, actor, out, dpuDb, approved, stateDb, dpuNews, nextId, counters>>

\* The DPU changes its mind about its role and pending operations.
DpuChange(d) ==
    /\ dpuChanges < MaxDpu
    /\ dpuChanges' = dpuChanges + 1
    /\ d # dpuDb
    /\ dpuDb' = d
    /\ dpuNews' = bridge
    /\ UNCHANGED <<up, actor, out, configDb, approved, stateDb, configNews, nextId, restarts,
                   dbErrors>>

\* hamgrd dies, and starts again: the config bridge rehydrates.
Crash ==
    /\ up # "down"
    /\ restarts < MaxRestarts
    /\ restarts' = restarts + 1
    /\ up' = "down"
    /\ Forget
    /\ UNCHANGED <<dbs, stateDb, nextId, dpuChanges, dbErrors>>

Restart ==
    /\ up = "down"
    /\ up' = "up"
    /\ configNews' = (configDb # None)
    /\ UNCHANGED <<actor, out, dbs, stateDb, dpuNews, nextId, counters>>

Next ==
    \/ HandleConfig
    \/ HandleConfigDel
    \/ HandleVdpu
    \/ HandleVdpuUnmanaged
    \/ HandleVdpuFails
    \/ HandleHaset
    \/ HandleDpu
    \/ SendQueued
    \/ \E ids \in SUBSET Ids : Approve(ids)
    \/ Configure
    \/ \E d \in [role : Roles, pend : SUBSET Types] : DpuChange(d)
    \/ Crash
    \/ Restart

Spec == Init /\ [][Next]_vars

\* The bridges bring what is new, the driver gets to it, and hamgrd is started
\* again.
Fairness ==
    /\ WF_vars(SendQueued) /\ WF_vars(Restart)
    /\ SF_vars(HandleConfig) /\ SF_vars(HandleDpu)

FairSpec == Spec /\ Fairness

-----------------------------------------------------------------------------
\* What the actor asks of the DPU, the controller has approved: over restarts
\* and however config, vDPU and DPU updates interleave, a request flag stands
\* for an operation of that type that was listed and approved.
RequestApproved ==
    \A m \in out : m \subseteq {approved[i] : i \in DOMAIN approved}

\* A listed operation stays in STATE_DB until the controller approves it,
\* whichever handler rewrites the row and however often hamgrd restarts, and the
\* very handler that takes it off the list requests it from the DPU.
LeavesListRequested ==
    [][\A i \in DOMAIN stateDb.ops \ DOMAIN stateDb'.ops :
         /\ i \in DOMAIN approved
         /\ stateDb.ops[i] \in Flags => \E m \in out' : stateDb.ops[i] \in m]_vars

\* internal.get never misses: as long as the database can be reached, no
\* handler uses the NPU state before its entry exists.
NoPanic == dbErrors = 0 => up # "panicked"

\* An approval that finds the vDPU managed and its entry made takes the operation
\* off the list in the end, whatever else is handled first.  (One that is read
\* while the vDPU is not known or not managed leaves it there: HandleConfig
\* returns early.)
ApprovedLeavesList ==
    \A i \in Ids :
        i \in configDb /\ i \in DOMAIN stateDb.ops /\ configNews /\ vdpu /\ entry
            ~> i \notin DOMAIN stateDb.ops \/ i \notin configDb \/ ~vdpu \/ up # "up"

\* An operation the DPU comes to ask for while the NPU state is populated is
\* listed in the end, unless the DPU takes it back first.  (Before the state is
\* populated new operations are dropped, and not new any more afterwards.)
NewOperationListed ==
    \A t \in Types :
        t \in dpuDb.pend \ dpuSeen.pend /\ dpuNews /\ npu.pop
            ~> \/ t \notin dpuDb.pend
               \/ \E i \in DOMAIN stateDb.ops : stateDb.ops[i] = t
               \/ nextId + Cardinality(Types) > MaxOps + 1
               \/ up # "up"

\* "If these have been notified to sdn controller prior to hamgrd restart, they
\* will be no change to dash_ha_scope_state": the first report of the DPU after a
\* restart lists no operation that is on the list already.  (ha_scope.rs:524-527,
\* handle_dpu_ha_scope_state_update)
NotifiedOnce ==
    [][restarts > 0 /\ dpuSeen = NoDpu
         => \A i \in DOMAIN stateDb'.ops \ DOMAIN stateDb.ops :
              \A j \in DOMAIN stateDb.ops : stateDb.ops[j] # stateDb'.ops[i]]_vars
=============================================================================
