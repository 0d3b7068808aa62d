---------------------------- MODULE HaScopeProofs ----------------------------
(***************************************************************************)
(* Proofs about HaScope: for every set of operation types and any number   *)
(* of operations, changes of the DPU, restarts and database errors, what   *)
(* the actor requests was approved, what leaves the list is requested, and *)
(* the actor does not panic while the databases can be reached.            *)
(*                                                                         *)
(* An id means the same in the actor's table, in its backup, in STATE_DB   *)
(* and to the controller (IdsInv): it is handed out once, and over a       *)
(* restart the actor has the list back from STATE_DB before it looks at it *)
(* (EntryInv).  A failed handler can bring operations back that were taken *)
(* off the list, but takes none off.                                       *)
(***************************************************************************)
EXTENDS HaScope, FiniteSetTheorems, TLAPS

\* The operations of n are among those of m.
Within(n, m) ==
    \A i \in DOMAIN n.ops : i \in DOMAIN m.ops /\ n.ops[i] = m.ops[i]

\* The internal entry has at least the list of STATE_DB, and its backup that of
\* the entry; both are equal once the bridge is there that brings the DPU's
\* state.  The vDPU is known without the entry only if a database could not be
\* reached.
EntryInv ==
    /\ ~entry => npu = NoNpu
    /\ ~entry \/ bridge => backup = NoNpu
    /\ entry => Within(stateDb, npu)
    /\ entry /\ ~bridge => Within(npu, backup)
    /\ bridge => npu = stateDb
    /\ dpuNews => bridge
    /\ bridge => entry
    /\ dbErrors = 0 => (vdpu => entry) /\ up # "panicked"

\* The ids of n are handed out, and have the type they were approved with.
Known(n) ==
    \A i \in DOMAIN n.ops : i < nextId /\ (i \in DOMAIN approved => approved[i] = n.ops[i])

\* Ids are not used again, and have one type; the ids a configuration names
\* have been approved.
IdsInv ==
    /\ Known(stateDb) /\ Known(npu) /\ Known(backup)
    /\ \A i \in DOMAIN approved : i < nextId
    /\ config # None => config \subseteq DOMAIN approved
    /\ configDb # None => configDb \subseteq DOMAIN approved

\* The inductive invariant.
ScopeInv == TypeOK /\ EntryInv /\ IdsInv /\ RequestApproved

-----------------------------------------------------------------------------
\* Lists of operations.
LEMMA OpsElim ==
    ASSUME NEW f \in Ops
    PROVE  DOMAIN f \in SUBSET Ids /\ f \in [DOMAIN f -> Types]
  BY Zenon DEF Ops

\* A function from ids to types is a list of operations.
LEMMA OpsIntro ==
    ASSUME NEW D \in SUBSET Ids, NEW f \in [D -> Types]
    PROVE  f \in Ops
  BY Zenon DEF Ops

\* The empty list.
LEMMA NoOpsType == NoOps \in Ops /\ DOMAIN NoOps = {}
  <1>1. NoOps \in [{} -> Types] /\ DOMAIN NoOps = {}
    BY Zenon DEF NoOps
  <1> QED
    BY <1>1, OpsIntro, Zenon

\* Two lists put together are a list.
LEMMA WithOps ==
    ASSUME NEW new \in Ops, NEW old \in Ops
    PROVE  /\ With(new, old) \in Ops
           /\ DOMAIN With(new, old) = DOMAIN new \cup DOMAIN old
           /\ \A i \in DOMAIN new : With(new, old)[i] = new[i]
           /\ \A i \in DOMAIN old \ DOMAIN new : With(new, old)[i] = old[i]
  <1>1. /\ DOMAIN new \in SUBSET Ids /\ \A i \in DOMAIN new : new[i] \in Types
        /\ DOMAIN old \in SUBSET Ids /\ \A i \in DOMAIN old : old[i] \in Types
    BY OpsElim, Zenon
  <1>2. With(new, old) \in [DOMAIN new \cup DOMAIN old -> Types]
    BY <1>1, Zenon DEF With
  <1>3. With(new, old) \in Ops
    BY <1>1, <1>2, OpsIntro, Zenon
  <1> QED
    BY <1>3, Zenon DEF With

\* update_npu_ha_scope_state_pending_operations adds new and takes off gone.
LEMMA PendingOps ==
    ASSUME NEW n \in Npu, NEW new \in Ops, NEW gone
    PROVE  LET p == PendingOperations(n, new, gone)
           IN  /\ p \in Npu /\ p.pop = n.pop
               /\ ~n.pop => p = n
               /\ n.pop => /\ DOMAIN p.ops = DOMAIN new \cup (DOMAIN n.ops \ gone)
                           /\ \A i \in DOMAIN new : p.ops[i] = new[i]
                           /\ \A i \in (DOMAIN n.ops \ gone) \ DOMAIN new : p.ops[i] = n.ops[i]
  <1> DEFINE old == [i \in DOMAIN n.ops \ gone |-> n.ops[i]]
             p == PendingOperations(n, new, gone)
  <1>1. n.ops \in Ops
    BY Zenon DEF Npu
  <1>2. DOMAIN n.ops \in SUBSET Ids /\ n.ops \in [DOMAIN n.ops -> Types]
    BY <1>1, OpsElim, Zenon
  <1>3. old \in [DOMAIN n.ops \ gone -> Types] /\ \A i \in DOMAIN n.ops \ gone : old[i] = n.ops[i]
    BY <1>2, Zenon
  <1>4. old \in Ops
    BY <1>2, <1>3, OpsIntro, Zenon
  <1>5. p = IF n.pop THEN [n EXCEPT !.ops = With(new, old)] ELSE n
    BY Zenon DEF PendingOperations
  <1> HIDE DEF old, p
  <1>6. /\ With(new, old) \in Ops
        /\ DOMAIN With(new, old) = DOMAIN new \cup DOMAIN old
        /\ \A i \in DOMAIN new : With(new, old)[i] = new[i]
        /\ \A i \in DOMAIN old \ DOMAIN new : With(new, old)[i] = old[i]
    BY <1>4, WithOps, Zenon
  <1>7. p \in Npu /\ p.pop = n.pop /\ (~n.pop => p = n) /\ (n.pop => p.ops = With(new, old))
    BY <1>5, <1>6, Zenon DEF Npu
  <1> QED
    BY <1>3, <1>6, <1>7 DEF p

\* What update_npu_ha_scope_state_pending_operations makes of new operations.
LEMMA PendingOpsAdd ==
    ASSUME NEW n \in Npu, NEW new \in Ops
    PROVE  LET p == PendingOperations(n, new, {})
           IN  /\ p \in Npu /\ p.pop = n.pop
               /\ ~n.pop => p = n
               /\ n.pop => /\ DOMAIN p.ops = DOMAIN new \cup DOMAIN n.ops
                           /\ \A i \in DOMAIN n.ops \ DOMAIN new : p.ops[i] = n.ops[i]
  <1> DEFINE none == {}
  <1>1. DOMAIN n.ops \ none = DOMAIN n.ops
    BY Zenon
  <1> HIDE DEF none
  <1>2. LET p == PendingOperations(n, new, none)
        IN  /\ p \in Npu /\ p.pop = n.pop
            /\ ~n.pop => p = n
            /\ n.pop => /\ DOMAIN p.ops = DOMAIN new \cup (DOMAIN n.ops \ none)
                        /\ \A i \in (DOMAIN n.ops \ none) \ DOMAIN new : p.ops[i] = n.ops[i]
    BY PendingOps
  <1> QED
    BY <1>1, <1>2, Zenon DEF none

\* Operations under ids that are handed out one after the other.
LEMMA IdRange ==
    ASSUME NEW a \in 1..MaxOps + 1, NEW b \in 1..MaxOps + 1, NEW f \in [a..(b - 1) -> Types]
    PROVE  f \in Ops
  <1>1. a..(b - 1) \subseteq Ids
    BY HaScopeAssumption DEF Ids
  <1> QED
    BY <1>1, OpsIntro, Zenon

\* update_npu_ha_scope_state_base keeps the type and the list.
LEMMA BaseType ==
    ASSUME NEW n \in Npu, NEW hs \in BOOLEAN
    PROVE  Base(n, hs) \in Npu /\ Base(n, hs).ops = n.ops
  BY Zenon DEF Base, Npu

\* update_npu_ha_scope_state_ha_state keeps the type and the list.
LEMMA HaStateType ==
    ASSUME NEW n \in Npu, NEW d \in Dpu
    PROVE  HaState(n, d) \in Npu /\ HaState(n, d).ops = n.ops /\ HaState(n, d).pop = n.pop
  BY Zenon DEF HaState, Npu, Dpu

\* The initial state has the invariant.
LEMMA InitScopeInv == Init => ScopeInv
  <1> SUFFICES ASSUME Init PROVE ScopeInv
    BY Zenon
  <1>1. NoNpu \in Npu /\ NoNpu.ops = NoOps /\ NoNpu.pop = FALSE /\ NoDpu \in Dpu
    BY NoOpsType, Zenon DEF NoNpu, NoDpu, Npu, Dpu
  <1>2. TypeOK
    <2>1. /\ npu \in Npu /\ backup \in Npu /\ stateDb \in Npu /\ (npu.pop => entry)
          /\ dpuSeen \in Dpu /\ dpu \in Dpu /\ dpuDb \in Dpu /\ approved \in Ops
      BY <1>1, NoOpsType, Zenon DEF Init
    <2>2. /\ nextId \in 1..MaxOps + 1
          /\ dpuChanges \in 0..MaxDpu /\ restarts \in 0..MaxRestarts /\ dbErrors \in 0..MaxDbErrors
      BY HaScopeAssumption DEF Init
    <2>3. /\ up \in {"up", "stopped", "panicked", "down"}
          /\ config \in (SUBSET Ids) \cup {None} /\ configDb \in (SUBSET Ids) \cup {None}
          /\ bridge \in BOOLEAN /\ vdpu \in BOOLEAN /\ haset \in BOOLEAN /\ entry \in BOOLEAN
          /\ out \subseteq SUBSET Flags /\ configNews \in BOOLEAN /\ dpuNews \in BOOLEAN
      BY Zenon DEF Init
    <2> QED
      BY <2>1, <2>2, <2>3, Zenon DEF TypeOK
  <1>3. EntryInv /\ IdsInv /\ RequestApproved
    BY <1>1, NoOpsType, Zenon DEF Init, EntryInv, IdsInv, Known, Within, RequestApproved, None
  <1> QED
    BY <1>2, <1>3, Zenon DEF ScopeInv

-----------------------------------------------------------------------------
\* What is requested for ids that were approved, was approved.
LEMMA RequestedApproved ==
    ASSUME NEW n \in Npu, Known(n), NEW ids, ids \subseteq DOMAIN approved
    PROVE  /\ Requested(n, ids) \subseteq Flags
           /\ Requested(n, ids) \subseteq {approved[i] : i \in DOMAIN approved}
           /\ \A i \in ids \cap DOMAIN n.ops : n.ops[i] \in Flags => n.ops[i] \in Requested(n, ids)
  BY Zenon DEF Known, Requested

\* Before the entry is loaded there are no operations.
LEMMA NoNpuOps == NoNpu \in Npu /\ DOMAIN NoNpu.ops = {}
  BY NoOpsType DEF NoNpu, Npu

\* What a handler that neither asks the DPU nor changes the entry commits.
LEMMA CommitStep ==
    ASSUME ScopeInv, stateDb' = (IF entry THEN npu ELSE stateDb), vdpu' \in {vdpu, FALSE},
           config' \in {config, configDb}, haset' \in BOOLEAN, configNews' \in BOOLEAN,
           UNCHANGED <<up, dpuSeen, bridge, dpu, entry, npu, backup, out, configDb, dpuDb, approved,
                       dpuNews, nextId, dpuChanges, restarts, dbErrors>>
    PROVE  ScopeInv' /\ DOMAIN stateDb.ops \subseteq DOMAIN stateDb'.ops
  <1> USE DEF ScopeInv
  <1>1. stateDb' \in Npu /\ DOMAIN stateDb.ops \subseteq DOMAIN stateDb'.ops
    BY Zenon DEF TypeOK, EntryInv, Within
  <1>2. TypeOK'
    BY <1>1, Zenon DEF TypeOK
  <1>3. EntryInv'
    <2>1. (vdpu' => entry') \/ ~(vdpu => entry)
      BY Zenon DEF TypeOK
    <2> QED
      BY <2>1, Zenon DEF EntryInv, Within
  <1>4. IdsInv' /\ RequestApproved'
    BY Zenon DEF IdsInv, Known, RequestApproved
  <1> QED
    BY <1>1, <1>2, <1>3, <1>4, Zenon

\* HandleConfig: the operations that are requested leave the list.
LEMMA HandleConfigStep ==
    ASSUME ScopeInv, HandleConfig
    PROVE  ScopeInv'
  <1> USE DEF ScopeInv
  <1>1. configDb \subseteq DOMAIN approved /\ configDb # None
    BY Zenon DEF HandleConfig, IdsInv
  <1>2. CASE ~vdpu
    BY <1>2, CommitStep, Zenon DEF HandleConfig, Commit, dbs, counters, TypeOK
  <1>3. CASE vdpu /\ ~entry
    <2>1. /\ UNCHANGED <<npu, backup, stateDb, out, entry, bridge, dpuNews, vdpu, nextId, approved, configDb>>
          /\ UNCHANGED counters /\ config' = configDb
      BY <1>3, Zenon DEF HandleConfig, dbs
    <2>2. TypeOK'
      BY <1>3 DEF HandleConfig, TypeOK, dbs, counters
    <2>3. EntryInv'
      <3>1. dbErrors' # 0
        BY <1>3, <2>1, Zenon DEF EntryInv, counters
      <3> QED
        BY <2>1, <3>1, Zenon DEF EntryInv, Within
    <2>4. IdsInv' /\ RequestApproved'
      BY <1>1, <2>1, Zenon DEF IdsInv, Known, RequestApproved
    <2> QED
      BY <2>2, <2>3, <2>4, Zenon
  <1>4. CASE vdpu /\ entry
    <2> DEFINE n == HaState(npu, dpu)
               p == PendingOperations(n, NoOps, configDb)
    <2>1. /\ npu' = p /\ stateDb' = p /\ out' = {Requested(npu, configDb)} /\ config' = configDb
          /\ UNCHANGED <<up, dpuSeen, bridge, vdpu, haset, dpu, entry, configDb, dpuDb, approved, dpuNews, nextId>>
          /\ UNCHANGED counters /\ configNews' = FALSE
          /\ IF npu' = npu THEN UNCHANGED backup ELSE backup' = IF bridge THEN backup ELSE npu
      BY <1>4, Zenon DEF HandleConfig, Commit, Backup, dbs
    <2>2. npu \in Npu /\ dpu \in Dpu /\ backup \in Npu
      BY Zenon DEF TypeOK
    <2>3. n \in Npu /\ n.ops = npu.ops /\ n.pop = npu.pop
      BY <2>2, HaStateType, Zenon
    <2> HIDE DEF n
    <2>4. p \in Npu /\ p.pop = n.pop /\ Within(p, npu)
      <3>1. /\ p \in Npu /\ p.pop = n.pop /\ DOMAIN p.ops \subseteq DOMAIN n.ops
            /\ \A i \in DOMAIN p.ops : p.ops[i] = n.ops[i]
        BY <2>3, NoOpsType, PendingOps
      <3> QED
        BY <2>3, <3>1, Zenon DEF Within
    <2> HIDE DEF p
    <2>5. /\ Requested(npu, configDb) \subseteq Flags
          /\ Requested(npu, configDb) \subseteq {approved[i] : i \in DOMAIN approved}
      BY <1>1, <2>2, RequestedApproved, Zenon DEF IdsInv
    <2>6. backup' \in {backup, npu} /\ (bridge => backup' = backup) /\ (~bridge => npu' = npu \/ backup' = npu)
      BY <2>1, Zenon
    <2>7. TypeOK'
      BY <1>4, <2>1, <2>2, <2>4, <2>5, <2>6, Zenon DEF TypeOK, counters
    <2>8. EntryInv'
      <3>1. Within(stateDb, npu)'
        BY <2>1, Zenon DEF Within
      <3>2. ~bridge => Within(npu, backup)'
        BY <1>4, <2>1, <2>4, <2>6, Zenon DEF EntryInv, Within
      <3> QED
        BY <1>4, <2>1, <2>6, <3>1, <3>2, Zenon DEF EntryInv, counters
    <2>9. IdsInv'
      <3>1. Known(p)
        BY <2>4, Zenon DEF IdsInv, Known, Within
      <3> QED
        BY <1>1, <2>1, <2>6, <3>1, Zenon DEF IdsInv, Known
    <2>10. RequestApproved'
      BY <2>1, <2>5, Zenon DEF RequestApproved
    <2> QED
      BY <2>7, <2>8, <2>9, <2>10, Zenon
  <1> QED
    BY <1>2, <1>3, <1>4, Zenon

\* HandleVdpu: the list is that of STATE_DB, loaded now, or what has become of it.
LEMMA HandleVdpuStep ==
    ASSUME ScopeInv, HandleVdpu
    PROVE  ScopeInv' /\ DOMAIN stateDb.ops \subseteq DOMAIN stateDb'.ops
  <1> USE DEF ScopeInv
  <1> DEFINE loaded == IF entry THEN npu ELSE stateDb
             b == Base(loaded, haset)
  <1>1. /\ npu' = b /\ stateDb' = b /\ out' = {Requested(loaded, config)}
        /\ vdpu' = TRUE /\ entry' = TRUE /\ bridge' = TRUE /\ backup' = NoNpu /\ config # None
        /\ dpuNews' \in BOOLEAN
        /\ UNCHANGED <<up, config, dpuSeen, haset, dpu, configDb, dpuDb, approved, configNews, nextId>>
        /\ UNCHANGED counters
    BY Zenon DEF HandleVdpu, Commit, dbs
  <1>2. /\ loaded \in Npu /\ haset \in BOOLEAN /\ Known(loaded)
        /\ DOMAIN stateDb.ops \subseteq DOMAIN loaded.ops
    BY Zenon DEF EntryInv, TypeOK, IdsInv, Within
  <1> HIDE DEF loaded
  <1>3. b \in Npu /\ b.ops = loaded.ops
    BY <1>2, BaseType, Zenon
  <1> HIDE DEF b
  <1>4. /\ Requested(loaded, config) \subseteq Flags
        /\ Requested(loaded, config) \subseteq {approved[i] : i \in DOMAIN approved}
    <2>1. config \subseteq DOMAIN approved
      BY <1>1, Zenon DEF IdsInv
    <2> QED
      BY <1>2, <2>1, RequestedApproved, Zenon
  <1>5. NoNpu \in Npu /\ DOMAIN NoNpu.ops = {}
    BY NoNpuOps, Zenon
  <1>6. TypeOK'
    BY <1>1, <1>3, <1>4, <1>5, Zenon DEF TypeOK, counters
  <1>7. EntryInv'
    BY <1>1, Zenon DEF EntryInv, Within, counters
  <1>8. IdsInv' /\ RequestApproved'
    BY <1>1, <1>2, <1>3, <1>4, <1>5, Zenon DEF IdsInv, Known, RequestApproved
  <1> QED
    BY <1>1, <1>2, <1>3, <1>6, <1>7, <1>8, Zenon

\* An update of a vDPU that is not managed.
LEMMA HandleVdpuUnmanagedStep ==
    ASSUME ScopeInv, HandleVdpuUnmanaged
    PROVE  ScopeInv' /\ DOMAIN stateDb.ops \subseteq DOMAIN stateDb'.ops
  <1>1. haset' \in BOOLEAN /\ configNews' \in BOOLEAN
    BY Zenon DEF HandleVdpuUnmanaged, ScopeInv, TypeOK
  <1> QED
    BY <1>1, CommitStep, Zenon DEF HandleVdpuUnmanaged, Commit, dbs, counters

\* The vDPU update that fails to reach the database.
LEMMA HandleVdpuFailsStep ==
    ASSUME ScopeInv, HandleVdpuFails
    PROVE  ScopeInv'
  <1> USE DEF ScopeInv
  <1>1. /\ UNCHANGED <<up, config, dpuSeen, bridge, haset, dpu, out, configDb, dpuDb, approved, stateDb,
                        configNews, dpuNews, nextId, dpuChanges, restarts>>
        /\ dbErrors' = dbErrors + 1 /\ dbErrors < MaxDbErrors /\ vdpu' = TRUE
        /\ \/ ~entry /\ UNCHANGED <<entry, npu, backup>>
           \/ ~entry /\ ~bridge /\ entry' = TRUE /\ npu' = stateDb /\ backup' = stateDb
           \/ entry /\ ~bridge /\ npu' = backup /\ UNCHANGED <<entry, backup>>
    BY Zenon DEF HandleVdpuFails, dbs
  <1>2. dbErrors \in Nat /\ dbErrors' \in 0..MaxDbErrors /\ dbErrors' # 0
    BY <1>1, HaScopeAssumption DEF TypeOK
  <1>3. npu' \in Npu /\ backup' \in Npu /\ (npu'.pop => entry') /\ entry' \in BOOLEAN
    <2>1. npu \in Npu /\ backup \in Npu /\ stateDb \in Npu /\ (npu.pop => entry) /\ entry \in BOOLEAN
      BY Zenon DEF TypeOK
    <2>2. CASE UNCHANGED <<entry, npu, backup>>
      BY <2>1, <2>2, Zenon
    <2>3. CASE entry' = TRUE /\ npu' = stateDb /\ backup' = stateDb
      BY <2>1, <2>3, Zenon
    <2>4. CASE entry /\ npu' = backup /\ UNCHANGED <<entry, backup>>
      BY <2>1, <2>4, Zenon
    <2> QED
      BY <1>1, <2>2, <2>3, <2>4, Zenon
  <1>4. TypeOK'
    BY <1>1, <1>2, <1>3, Zenon DEF TypeOK
  <1>5. EntryInv'
    <2>1. entry' => Within(stateDb, npu)'
      BY <1>1, Zenon DEF EntryInv, Within
    <2>2. entry' /\ ~bridge' => Within(npu, backup)'
      BY <1>1, Zenon DEF EntryInv, Within
    <2>3. (~entry' => npu' = NoNpu) /\ (~entry' \/ bridge' => backup' = NoNpu)
      BY <1>1 DEF EntryInv
    <2>4. (bridge' => entry' /\ npu' = stateDb') /\ (dpuNews' => bridge')
      BY <1>1 DEF EntryInv
    <2> QED
      BY <1>2, <2>1, <2>2, <2>3, <2>4, Zenon DEF EntryInv
  <1>6. IdsInv' /\ RequestApproved'
    BY <1>1, Zenon DEF IdsInv, Known, RequestApproved
  <1> QED
    BY <1>4, <1>5, <1>6, Zenon

\* The HA set update leaves the list of the entry alone.
LEMMA HandleHasetStep ==
    ASSUME ScopeInv, HandleHaset
    PROVE  ScopeInv' /\ DOMAIN stateDb.ops \subseteq DOMAIN stateDb'.ops
  <1> USE DEF ScopeInv
  <1>0. configNews' \in BOOLEAN
    BY Zenon DEF HandleHaset, TypeOK
  <1>1. CASE ~vdpu
    BY <1>0, <1>1, CommitStep, Zenon DEF HandleHaset, Commit, dbs, counters
  <1> DEFINE b == Base(npu, TRUE)
  <1>2. /\ UNCHANGED <<config, dpuSeen, bridge, vdpu, dpu, entry, out, configDb, dpuDb, approved,
                        configNews, dpuNews, nextId>>
        /\ UNCHANGED counters /\ haset' = TRUE
    BY Zenon DEF HandleHaset, dbs
  <1>3. CASE vdpu /\ ~entry
    <2>1. up' = "panicked" /\ UNCHANGED <<npu, backup, stateDb>>
      BY <1>3, Zenon DEF HandleHaset
    <2>2. TypeOK'
      BY <1>2, <2>1, Zenon DEF TypeOK, counters
    <2>3. EntryInv' /\ IdsInv' /\ RequestApproved'
      BY <1>2, <1>3, <2>1, Zenon DEF EntryInv, Within, IdsInv, Known, RequestApproved, counters
    <2> QED
      BY <2>1, <2>2, <2>3, Zenon
  <1>4. CASE vdpu /\ entry
    <2>1. /\ npu' = b /\ stateDb' = b /\ UNCHANGED up
          /\ backup' = IF bridge THEN backup ELSE npu
      BY <1>4, Zenon DEF HandleHaset, Commit, Backup
    <2>2. npu \in Npu /\ backup' \in Npu
      BY <2>1, Zenon DEF TypeOK
    <2>3. b \in Npu /\ b.ops = npu.ops
      BY <2>2, BaseType, Zenon
    <2> HIDE DEF b
    <2>4. TypeOK'
      BY <1>2, <1>4, <2>1, <2>2, <2>3, Zenon DEF TypeOK, counters
    <2>5. EntryInv'
      BY <1>2, <1>4, <2>1, <2>3, Zenon DEF EntryInv, Within, counters
    <2>6. IdsInv' /\ RequestApproved'
      BY <1>2, <2>1, <2>3, Zenon DEF IdsInv, Known, RequestApproved
    <2> QED
      BY <1>4, <2>1, <2>3, <2>4, <2>5, <2>6, Zenon DEF EntryInv, Within
  <1> QED
    BY <1>1, <1>3, <1>4, Zenon

\* HandleDpu: operations are added, under ids nobody has used.
LEMMA HandleDpuStep ==
    ASSUME ScopeInv, HandleDpu
    PROVE  ScopeInv' /\ DOMAIN stateDb.ops \subseteq DOMAIN stateDb'.ops
  <1> USE DEF ScopeInv
  <1> DEFINE new == dpuDb.pend \ dpuSeen.pend
             n == HaState(npu, dpuDb)
  <1>1. new \subseteq Types /\ dpuDb \in Dpu /\ entry /\ bridge /\ npu = stateDb /\ npu \in Npu
    BY Zenon DEF TypeOK, Dpu, HandleDpu, EntryInv
  <1>2. Cardinality(new) \in Nat
    <2>1. IsFiniteSet(new)
      BY <1>1, HaScopeAssumption, FS_Subset, Zenon
    <2> QED
      BY <2>1, FS_CardinalityType, Zenon
  <1>3. n \in Npu /\ n.ops = npu.ops /\ n.pop = npu.pop
    BY <1>1, HaStateType, Zenon
  <1>4. nextId' = nextId + Cardinality(new) /\ nextId' <= MaxOps + 1
    BY Zenon DEF HandleDpu
  <1>5. nextId \in 1..MaxOps + 1 /\ nextId' \in 1..MaxOps + 1 /\ nextId <= nextId'
    BY <1>2, <1>4, HaScopeAssumption DEF TypeOK
  <1>6. PICK f \in [nextId..nextId' - 1 -> new] : npu' = PendingOperations(n, f, {})
    BY Zenon DEF HandleDpu
  <1>7. /\ UNCHANGED <<up, config, bridge, vdpu, haset, entry, backup, out, configDb, dpuDb, approved, configNews>>
        /\ UNCHANGED counters /\ dpuNews' = FALSE /\ dpu' = dpuDb /\ dpuSeen' = dpuDb /\ stateDb' = npu'
    BY <1>1, Zenon DEF HandleDpu, Commit, dbs
  <1>8. f \in Ops
    <2>1. f \in [nextId..(nextId' - 1) -> Types]
      BY <1>1, <1>6, Zenon
    <2> QED
      BY <1>5, <2>1, IdRange, Zenon
  <1>9. /\ npu' \in Npu /\ npu'.pop = n.pop
        /\ ~n.pop => npu' = n
        /\ n.pop => /\ DOMAIN npu'.ops = DOMAIN f \cup DOMAIN n.ops
                    /\ \A i \in DOMAIN n.ops \ DOMAIN f : npu'.ops[i] = n.ops[i]
    <2> HIDE DEF n
    <2> QED
      BY <1>3, <1>6, <1>8, PendingOpsAdd
  <1>10. DOMAIN f = nextId..nextId' - 1
    BY <1>6, Zenon
  <1> HIDE DEF n, new
  <1>11. TypeOK'
    BY <1>1, <1>3, <1>5, <1>7, <1>9 DEF TypeOK, counters
  <1>12. EntryInv'
    BY <1>1, <1>7, Zenon DEF EntryInv, Within, counters
  <1>13. DOMAIN stateDb.ops \subseteq DOMAIN stateDb'.ops
    BY <1>1, <1>3, <1>7, <1>9, Zenon
  <1>14. IdsInv'
    <2>1. \A i \in DOMAIN stateDb.ops \cup DOMAIN approved : i < nextId /\ i \in Nat
      BY OpsElim DEF IdsInv, Known, TypeOK, Npu, Ids
    <2>2. \A i \in DOMAIN stateDb'.ops : i \in DOMAIN stateDb.ops \/ (i >= nextId /\ i < nextId' /\ i \in Nat)
      BY <1>1, <1>3, <1>5, <1>7, <1>9, <1>10
    <2>3. \A i \in DOMAIN stateDb.ops : stateDb'.ops[i] = stateDb.ops[i]
      BY <1>1, <1>3, <1>5, <1>7, <1>9, <1>10, <2>1
    <2>4. DOMAIN backup.ops = {}
      BY <1>1, NoNpuOps, Zenon DEF EntryInv
    <2>5. Known(stateDb)' /\ \A i \in DOMAIN approved : i < nextId'
      BY <1>5, <1>7, <2>1, <2>2, <2>3 DEF IdsInv, Known
    <2> QED
      BY <1>7, <2>4, <2>5, Zenon DEF IdsInv, Known
  <1>15. RequestApproved'
    BY <1>7, Zenon DEF RequestApproved
  <1> QED
    BY <1>11, <1>12, <1>13, <1>14, <1>15, Zenon

\* Approve: the controller approves what it sees in STATE_DB.
LEMMA ApproveStep ==
    ASSUME ScopeInv, NEW ids \in SUBSET Ids, Approve(ids)
    PROVE  ScopeInv'
  <1> USE DEF ScopeInv
  <1> DEFINE new == [i \in ids |-> stateDb.ops[i]]
  <1>1. /\ configDb' = ids /\ approved' = With(new, approved) /\ ids \subseteq DOMAIN stateDb.ops
        /\ configNews' \in BOOLEAN
        /\ UNCHANGED <<up, actor, out, dpuDb, stateDb, dpuNews, nextId, counters>>
    BY Zenon DEF Approve
  <1>2. stateDb.ops \in Ops /\ approved \in Ops
    BY Zenon DEF TypeOK, Npu
  <1>3. new \in [ids -> Types] /\ \A i \in ids : new[i] = stateDb.ops[i]
    BY <1>1, <1>2, OpsElim, Zenon
  <1>4. new \in Ops /\ DOMAIN new = ids
    BY <1>3, OpsIntro, Zenon
  <1> HIDE DEF new
  <1>5. /\ approved' \in Ops /\ DOMAIN approved' = ids \cup DOMAIN approved
        /\ \A i \in ids : approved'[i] = stateDb.ops[i]
        /\ \A i \in DOMAIN approved \ ids : approved'[i] = approved[i]
    BY <1>1, <1>2, <1>3, <1>4, WithOps
  <1>6. TypeOK'
    BY <1>1, <1>5 DEF TypeOK, actor, counters
  <1>7. EntryInv'
    BY <1>1, Zenon DEF EntryInv, Within, actor, counters
  <1>8. IdsInv'
    <2>1. \A i \in DOMAIN npu.ops : i \in ids => npu.ops[i] = stateDb.ops[i]
      BY <1>1, NoNpuOps DEF EntryInv, Within
    <2>2. \A i \in DOMAIN backup.ops : i \in ids => backup.ops[i] = stateDb.ops[i]
      BY <1>1, NoNpuOps DEF EntryInv, Within
    <2> QED
      BY <1>1, <1>5, <2>1, <2>2, Zenon DEF IdsInv, Known, actor
  <1>9. RequestApproved'
    <2>1. \A i \in DOMAIN approved : approved'[i] = approved[i]
      BY <1>1, <1>5, Zenon DEF IdsInv, Known
    <2>2. {approved[i] : i \in DOMAIN approved} \subseteq {approved'[i] : i \in DOMAIN approved'}
      BY <1>5, <2>1, Zenon
    <2> QED
      BY <1>1, <2>2, Zenon DEF RequestApproved
  <1> QED
    BY <1>6, <1>7, <1>8, <1>9, Zenon

\* Death and Del: nothing is left of the actor.
LEMMA ForgetStep ==
    ASSUME ScopeInv, Forget, UNCHANGED <<dbs, stateDb, nextId, dpuChanges, dbErrors>>,
           up' \in {"stopped", "down"}, restarts' \in 0..MaxRestarts
    PROVE  ScopeInv'
  <1> USE DEF ScopeInv
  <1>1. NoNpu \in Npu /\ NoNpu.pop = FALSE /\ NoDpu \in Dpu
    BY NoOpsType, Zenon DEF NoNpu, NoDpu, Npu, Dpu
  <1>2. TypeOK'
    BY <1>1, Zenon DEF Forget, dbs, TypeOK
  <1>3. EntryInv'
    BY Zenon DEF Forget, dbs, EntryInv
  <1>4. IdsInv' /\ RequestApproved'
    BY NoNpuOps, Zenon DEF Forget, dbs, IdsInv, Known, RequestApproved
  <1> QED
    BY <1>2, <1>3, <1>4, Zenon

\* The rest changes neither the list nor what was approved.
LEMMA OtherStep ==
    ASSUME ScopeInv,
           \/ SendQueued \/ Configure \/ Restart \/ UNCHANGED vars
           \/ \E d \in [role : Roles, pend : SUBSET Types] : DpuChange(d)
    PROVE  ScopeInv' /\ UNCHANGED stateDb
  <1> USE DEF ScopeInv
  <1>1. UNCHANGED <<actor, stateDb, approved, nextId, restarts, dbErrors>> /\ (out' = out \/ out' = {})
    BY Zenon DEF SendQueued, Configure, Restart, DpuChange, vars, dbs, counters
  <1>2. up' \in {up, "up"} /\ (dpuNews' = dpuNews \/ dpuNews' = bridge)
    BY Zenon DEF SendQueued, Configure, Restart, DpuChange, vars
  <1>3. configDb' \in {configDb, {}, None} /\ configNews' \in BOOLEAN
    BY Zenon DEF SendQueued, Configure, Restart, DpuChange, vars, dbs, TypeOK
  <1>4. dpuDb' \in Dpu /\ dpuChanges' \in 0..MaxDpu
    BY HaScopeAssumption DEF SendQueued, Configure, Restart, DpuChange, vars, dbs, counters, TypeOK, Dpu
  <1>5. TypeOK'
    BY <1>1, <1>2, <1>3, <1>4 DEF TypeOK, actor
  <1>6. EntryInv'
    BY <1>1, <1>2 DEF EntryInv, Within, actor
  <1>7. IdsInv' /\ RequestApproved'
    BY <1>1, <1>3, Zenon DEF IdsInv, Known, RequestApproved, actor
  <1> QED
    BY <1>1, <1>5, <1>6, <1>7, Zenon

\* Every step keeps the inductive invariant.
LEMMA NextScopeInv ==
    ASSUME ScopeInv, [Next]_vars
    PROVE  ScopeInv'
  <1>1. ASSUME HandleConfigDel PROVE ScopeInv'
    BY <1>1, ForgetStep, Zenon DEF HandleConfigDel, counters, ScopeInv, TypeOK
  <1>2. ASSUME Crash PROVE ScopeInv'
    <2>1. restarts' \in 0..MaxRestarts
      BY <1>2, HaScopeAssumption DEF Crash, ScopeInv, TypeOK
    <2> QED
      BY <1>2, <2>1, ForgetStep, Zenon DEF Crash
  <1>3. ASSUME \/ HandleConfig \/ HandleVdpu \/ HandleVdpuUnmanaged \/ HandleVdpuFails
               \/ HandleHaset \/ HandleDpu
        PROVE  ScopeInv'
    BY <1>3, HandleConfigStep, HandleVdpuStep, HandleVdpuUnmanagedStep, HandleVdpuFailsStep,
       HandleHasetStep, HandleDpuStep, Zenon
  <1>4. ASSUME NEW ids \in SUBSET Ids, Approve(ids) PROVE ScopeInv'
    BY <1>4, ApproveStep, Zenon
  <1>5. ASSUME \/ SendQueued \/ Configure \/ Restart \/ UNCHANGED vars
               \/ \E d \in [role : Roles, pend : SUBSET Types] : DpuChange(d)
        PROVE  ScopeInv'
    BY <1>5, OtherStep, Zenon
  <1> QED
    BY <1>1, <1>2, <1>3, <1>4, <1>5, Zenon DEF Next

\* What one step takes off the list.
LEMMA StepLeavesList ==
    ASSUME ScopeInv, [Next]_vars, NEW i \in DOMAIN stateDb.ops \ DOMAIN stateDb'.ops
    PROVE  /\ i \in DOMAIN approved
           /\ stateDb.ops[i] \in Flags => \E m \in out' : stateDb.ops[i] \in m
  <1>0. CASE HandleConfig /\ ~vdpu
    <2>1. haset' \in BOOLEAN /\ configNews' \in BOOLEAN
      BY <1>0, Zenon DEF HandleConfig, ScopeInv, TypeOK
    <2> QED
      BY <1>0, <2>1, CommitStep, Zenon DEF HandleConfig, Commit, dbs, counters
  <1>1. CASE HandleConfig /\ vdpu
    <2> DEFINE n == HaState(npu, dpu)
               p == PendingOperations(n, NoOps, configDb)
    <2>1. entry /\ stateDb' = p /\ out' = {Requested(npu, configDb)} /\ configDb # None
      BY <1>1, Zenon DEF HandleConfig, Commit
    <2>2. /\ npu \in Npu /\ dpu \in Dpu /\ configDb \subseteq DOMAIN approved /\ Known(npu)
          /\ i \in DOMAIN npu.ops /\ npu.ops[i] = stateDb.ops[i]
      BY <2>1, Zenon DEF ScopeInv, EntryInv, Within, TypeOK, IdsInv
    <2>3. n \in Npu /\ n.ops = npu.ops /\ n.pop = npu.pop
      BY <2>2, HaStateType, Zenon
    <2> HIDE DEF n
    <2>4. (~n.pop => p = n) /\ (n.pop => DOMAIN n.ops \ configDb \subseteq DOMAIN p.ops)
      BY <2>3, NoOpsType, PendingOps
    <2> HIDE DEF p
    <2>5. i \in configDb
      BY <2>1, <2>2, <2>3, <2>4, Zenon
    <2>6. npu.ops[i] \in Flags => npu.ops[i] \in Requested(npu, configDb)
      BY <2>2, <2>5, RequestedApproved, Zenon
    <2> QED
      BY <2>1, <2>2, <2>5, <2>6, Zenon
  <1>2. CASE HandleVdpu \/ HandleVdpuUnmanaged \/ HandleHaset \/ HandleDpu
    BY <1>2, HandleVdpuStep, HandleVdpuUnmanagedStep, HandleHasetStep, HandleDpuStep, Zenon
  <1>3. CASE HandleConfigDel \/ HandleVdpuFails \/ Crash \/ \E ids \in SUBSET Ids : Approve(ids)
    BY <1>3, Zenon DEF HandleConfigDel, HandleVdpuFails, Crash, Approve
  <1>4. CASE \/ SendQueued \/ Configure \/ Restart \/ UNCHANGED vars
             \/ \E d \in [role : Roles, pend : SUBSET Types] : DpuChange(d)
    BY <1>4, OtherStep, Zenon
  <1> QED
    BY <1>0, <1>1, <1>2, <1>3, <1>4, Zenon DEF Next

-----------------------------------------------------------------------------
\* The inductive invariant behind the theorems that follow: an operation id has
\* one meaning, and nothing that STATE_DB lists is missing in the actor's list.
THEOREM ScopeInvariant == Spec => []ScopeInv
  BY InitScopeInv, NextScopeInv, PTL DEF Spec

\* Type correctness of the HA scope actor, its tables and the databases.
THEOREM TypeCorrect == Spec => []TypeOK
  <1>1. ScopeInv => TypeOK
    BY Zenon DEF ScopeInv
  <1> QED
    BY <1>1, ScopeInvariant, PTL

\* update_dpu_ha_scope_table asks the DPU for approved operations only, over any
\* number of restarts, database errors and changes of mind of the DPU.
THEOREM RequestApprovedAlways == Spec => []RequestApproved
  <1>1. ScopeInv => RequestApproved
    BY Zenon DEF ScopeInv
  <1> QED
    BY <1>1, ScopeInvariant, PTL

\* While the databases can be reached, internal.get finds the NPU state entry in
\* every handler that uses it.
THEOREM NoPanicEver == Spec => []NoPanic
  <1>1. ScopeInv => NoPanic
    BY Zenon DEF ScopeInv, EntryInv, NoPanic
  <1> QED
    BY <1>1, ScopeInvariant, PTL

\* No step takes an operation off the list in STATE_DB that was not approved, or
\* without asking the DPU for it in the same step.
THEOREM LeavesListRequestedAlways == Spec => LeavesListRequested
  <1>1. ASSUME ScopeInv, [Next]_vars
        PROVE  [\A i \in DOMAIN stateDb.ops \ DOMAIN stateDb'.ops :
                  /\ i \in DOMAIN approved
                  /\ stateDb.ops[i] \in Flags => \E m \in out' : stateDb.ops[i] \in m]_vars
    BY <1>1, StepLeavesList, Zenon
  <1> QED
    BY <1>1, ScopeInvariant, PTL DEF Spec, LeavesListRequested
=============================================================================
