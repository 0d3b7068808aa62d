--------------------------- MODULE InternalTable ---------------------------
(***************************************************************************)
(* The internal state table of one actor (swbus-actor, state/internal.rs)  *)
(* under its driver (driver.rs).  A table key is bound to one row of a     *)
(* Redis table; the actor's callback reads and rewrites the cached field   *)
(* values, the driver writes every cached row back when the callback       *)
(* returns Ok and restores the backups when it returns Err.  The process   *)
(* may die at any point, between two rows of a commit included; only the   *)
(* Redis rows survive.  The contents of a row are one abstract value.      *)
(***************************************************************************)
EXTENDS Naturals

CONSTANTS
    TableKeys,  \* keys of the internal table (hamgrd uses the table name)
    RowNames,   \* row names of the Redis table behind a key
    Values,     \* contents of a row (FieldValues)
    Empty,      \* FieldValues::default(), also what an absent row reads as
    NoRow       \* a key not bound to a row: not in the table

ASSUME InternalTableAssumption == Empty \in Values /\ NoRow \notin RowNames

VARIABLES
    pc,         \* driver: "idle", "callback", "commit" or "down"
    row,        \* row[k]: swss_key of the entry, NoRow when k is absent
    fvs,        \* fvs[k]: cached field values
    backup,     \* backup[k]: backup_fvs
    mutated,    \* mutated[k]: the mutated flag
    db,         \* db[k][r]: the Redis row
    toCommit,   \* keys commit_changes has not written yet
    start,      \* history: fvs when the running callback was entered
    written,    \* history: keys the running callback has rewritten
    clean       \* history: contents each row owes to successful callbacks

entries == <<row, fvs, backup, mutated>>
callHistory == <<start, written, clean>>
internalVars == <<pc, entries, db, toCommit, callHistory>>

Present == {k \in TableKeys : row[k] # NoRow}

\* Type invariant; a commit in progress works on entries there are.
InternalTypeOK ==
    /\ pc \in {"idle", "callback", "commit", "down"}
    /\ row \in [TableKeys -> RowNames \cup {NoRow}]
    /\ fvs \in [TableKeys -> Values]
    /\ backup \in [TableKeys -> Values]
    /\ mutated \in [TableKeys -> BOOLEAN]
    /\ db \in [TableKeys -> [RowNames -> Values]]
    /\ toCommit \in SUBSET Present
    /\ pc = "commit" <=> toCommit # {}
    /\ start \in [TableKeys -> Values]
    /\ written \in SUBSET TableKeys
    /\ clean \in [TableKeys -> [RowNames -> SUBSET Values]]

\* Internal::new, then the rows some earlier run of the process left behind.
InternalInit ==
    /\ pc = "idle"
    /\ row = [k \in TableKeys |-> NoRow]
    /\ fvs = [k \in TableKeys |-> Empty]
    /\ backup = [k \in TableKeys |-> Empty]
    /\ mutated = [k \in TableKeys |-> FALSE]
    /\ db \in [TableKeys -> [RowNames -> Values]]
    /\ toCommit = {}
    /\ start = fvs
    /\ written = {}
    /\ clean = [k \in TableKeys |-> [r \in RowNames |-> {db[k][r]}]]

-----------------------------------------------------------------------------
\* ActorDriver::handle_actor_message enters the actor's callback.
EnterCallback ==
    /\ pc = "idle"
    /\ pc' = "callback"
    /\ start' = fvs
    /\ written' = {}
    /\ UNCHANGED <<entries, db, toCommit, clean>>

\* Mutant: fvs_mut refreshes the backup on every mutable access.
FvsMutAlwaysBackup(k, v) ==
    /\ pc = "callback"
    /\ k \in Present
    /\ backup' = [backup EXCEPT ![k] = fvs[k]]
    /\ mutated' = [mutated EXCEPT ![k] = TRUE]
    /\ fvs' = [fvs EXCEPT ![k] = v]
    /\ written' = written \cup {k}
    /\ UNCHANGED <<pc, row, db, toCommit, start, clean>>

\* Internal::add: the entry is created from the row, replacing the entry the
\* key had.  hamgrd calls it only when has_entry says the row is another one.
Add(k, r) ==
    /\ pc = "callback"
    /\ row[k] # r
    /\ row' = [row EXCEPT ![k] = r]
    /\ fvs' = [fvs EXCEPT ![k] = db[k][r]]
    /\ backup' = [backup EXCEPT ![k] = db[k][r]]
    /\ mutated' = [mutated EXCEPT ![k] = FALSE]
    /\ start' = [start EXCEPT ![k] = db[k][r]]
    /\ written' = written \ {k}
    /\ UNCHANGED <<pc, db, toCommit, clean>>

\* Internal::get_mut and InternalTableEntry::fvs_mut, then the assignment
\* through the reference it returns.
FvsMut(k, v) ==
    /\ pc = "callback"
    /\ k \in Present
    /\ backup' = [backup EXCEPT ![k] = IF mutated[k] THEN @ ELSE fvs[k]]
    /\ mutated' = [mutated EXCEPT ![k] = TRUE]
    /\ fvs' = [fvs EXCEPT ![k] = v]
    /\ written' = written \cup {k}
    /\ UNCHANGED <<pc, row, db, toCommit, start, clean>>

\* Mutant: only the entries marked mutated are written.
CallbackCommitsMutated ==
    /\ pc = "callback"
    /\ toCommit' = {k \in Present : mutated[k]}
    /\ pc' = IF toCommit' = {} THEN "idle" ELSE "commit"
    /\ clean' = [k \in TableKeys |-> [r \in RowNames |->
                    clean[k][r] \cup IF k \in written /\ row[k] = r THEN {fvs[k]} ELSE {}]]
    /\ UNCHANGED <<entries, db, start, written>>

\* The callback returns Ok: Internal::commit_changes starts on every entry.
CallbackCommits ==
    /\ pc = "callback"
    /\ pc' = IF Present = {} THEN "idle" ELSE "commit"
    /\ toCommit' = Present
    /\ clean' = [k \in TableKeys |-> [r \in RowNames |->
                    clean[k][r] \cup IF k \in written /\ row[k] = r THEN {fvs[k]} ELSE {}]]
    /\ UNCHANGED <<entries, db, start, written>>

\* InternalTableEntry::commit_changes on one entry, in HashMap order (any).
CommitEntry(k) ==
    /\ pc = "commit"
    /\ k \in toCommit
    /\ mutated' = [mutated EXCEPT ![k] = FALSE]
    /\ db' = [db EXCEPT ![k][row[k]] = fvs[k]]
    /\ toCommit' = toCommit \ {k}
    /\ pc' = IF toCommit' = {} THEN "idle" ELSE "commit"
    /\ UNCHANGED <<row, fvs, backup, callHistory>>

\* Mutant: drop_changes clears the flag but keeps the values.
CallbackFailsKeepsValues ==
    /\ pc = "callback"
    /\ pc' = "idle"
    /\ mutated' = [k \in TableKeys |-> FALSE]
    /\ UNCHANGED <<row, fvs, backup, db, toCommit, callHistory>>

\* The callback returns Err: Internal::drop_changes, with no await inside.
CallbackFails ==
    /\ pc = "callback"
    /\ pc' = "idle"
    /\ mutated' = [k \in TableKeys |-> FALSE]
    /\ fvs' = [k \in TableKeys |-> IF k \in Present THEN backup[k] ELSE fvs[k]]
    /\ UNCHANGED <<row, backup, db, toCommit, callHistory>>

\* Mutant: the commit in progress outlives the table it works on.
CrashKeepsCommit ==
    /\ pc # "down"
    /\ pc' = "down"
    /\ row' = [k \in TableKeys |-> NoRow]
    /\ UNCHANGED <<fvs, backup, mutated, db, toCommit, callHistory>>

\* hamgrd dies, or Context::stop ends the driver loop.
Crash ==
    /\ pc # "down"
    /\ pc' = "down"
    /\ row' = [k \in TableKeys |-> NoRow]
    /\ fvs' = [k \in TableKeys |-> Empty]
    /\ backup' = [k \in TableKeys |-> Empty]
    /\ mutated' = [k \in TableKeys |-> FALSE]
    /\ toCommit' = {}
    /\ start' = [k \in TableKeys |-> Empty]
    /\ written' = {}
    /\ UNCHANGED <<db, clean>>

\* A new driver with Internal::new.
Restart ==
    /\ pc = "down"
    /\ pc' = "idle"
    /\ UNCHANGED <<entries, db, toCommit, callHistory>>

InternalNext ==
    \/ EnterCallback
    \/ \E k \in TableKeys, r \in RowNames : Add(k, r)
    \/ \E k \in TableKeys, v \in Values : FvsMut(k, v)
    \/ CallbackCommits
    \/ \E k \in TableKeys : CommitEntry(k)
    \/ CallbackFails
    \/ Crash
    \/ Restart

InternalSpec == InternalInit /\ [][InternalNext]_internalVars

-----------------------------------------------------------------------------
\* A row only ever holds contents that it had before the process or that a
\* callback which returned Ok gave it: nothing a failed callback wrote reaches
\* Redis, not even through the commit of a later callback or around a crash
\* (internal.rs drop_changes and commit_changes, driver.rs
\* handle_actor_message).
NoDirtyWrite ==
    \A k \in TableKeys, r \in RowNames : db[k][r] \in clean[k][r]

\* When a callback fails, every entry it rewrote is back at what the callback
\* found, however often it was rewritten (fvs_mut takes the backup once).
RewrittenRestored ==
    [][CallbackFails => (\A k \in written : fvs'[k] = start[k])]_internalVars

\* When the driver is through with a successful callback, every row the table
\* is bound to holds what the actor sees, rows the callback left alone included
\* (Internal::commit_changes runs over all entries).
CommitComplete ==
    [][(pc \in {"callback", "commit"} /\ pc' = "idle" /\ ~CallbackFails)
         => (\A k \in Present : db'[k][row[k]] = fvs'[k])]_internalVars

\* lib.rs: "If this returns Err(..), state changes are not committed. Outgoing
\* state messages are not sent, and internal state changes are rolled back."
\* A failed callback leaves the actor with the values it found.
RollbackRestores ==
    [][CallbackFails => (\A k \in Present : fvs'[k] = start[k])]_internalVars
=============================================================================
