---------------------------- MODULE TableProofs ----------------------------
(***************************************************************************)
(* Proofs about the two kinds of copies an actor has of Redis tables: the  *)
(* internal table it writes back (InternalTable), and the view its         *)
(* consumer bridge gives it of a table (TableBridge).                      *)
(*                                                                         *)
(* InternalTable, for every set of keys, rows and values: TableInv says    *)
(* which of the four copies of a row (Redis, cached, backup, cached on     *)
(* entry of the callback) are clean, i.e. owed to a successful callback,   *)
(* in each driver phase.                                                   *)
(*                                                                         *)
(* TableBridge, for every number of bridges, rows and fields: an actor     *)
(* whose bridge has caught up has the table as it is.  ViewCurrent says    *)
(* nothing of a bridge with notifications left to pop.  What leads there   *)
(* is what those notifications say (Tells): the last one about a row tells *)
(* whether the row exists, and unless a Del is among them, the bridge      *)
(* holds no field that the row has not (Current), so that merging the row  *)
(* over what it holds gives the row.                                       *)
(***************************************************************************)
EXTENDS InternalTable, TableBridge, TLAPS

-----------------------------------------------------------------------------
\* The internal table of an actor.

\* Outside a callback no entry is marked mutated except those still to be
\* written; inside one the marked entries are the ones it has rewritten, and
\* their backups are what it found.
FlagsInv ==
    \A k \in TableKeys :
        /\ pc = "callback" => (mutated[k] <=> k \in written)
        /\ pc = "commit" => (mutated[k] => k \in toCommit)
        /\ pc \in {"idle", "down"} => ~mutated[k]
        /\ pc = "callback" /\ k \in written => backup[k] = start[k]
        /\ pc = "callback" /\ k \notin written => fvs[k] = start[k]
        /\ pc = "callback" /\ k \in written => k \in Present

\* Redis rows and backups are always clean; a cached row is clean unless the
\* running callback has rewritten it.
CleanInv ==
    \A k \in TableKeys, r \in RowNames :
        /\ db[k][r] \in clean[k][r]
        /\ row[k] = r => backup[k] \in clean[k][r]
        /\ row[k] = r /\ ~(pc = "callback" /\ k \in written) => fvs[k] \in clean[k][r]

\* During a commit, the rows already visited hold the cached values.
CommitInv ==
    pc = "commit" => \A k \in Present \ toCommit : db[k][row[k]] = fvs[k]

TableInv == InternalTypeOK /\ FlagsInv /\ CleanInv /\ CommitInv

\* The table a process starts with satisfies the invariant.
LEMMA InitTableInv == InternalInit => TableInv
  <1> SUFFICES ASSUME InternalInit PROVE TableInv
    OBVIOUS
  <1> USE InternalTableAssumption DEF InternalInit, Present
  <1>1. InternalTypeOK
    BY DEF InternalTypeOK
  <1>2. FlagsInv
    BY DEF FlagsInv
  <1>3. CleanInv
    BY DEF CleanInv
  <1>4. CommitInv
    BY DEF CommitInv
  <1> QED
    BY <1>1, <1>2, <1>3, <1>4 DEF TableInv

\* Every step of the driver and of the process keeps the types.
LEMMA NextInternalTypeOK == InternalTypeOK /\ [InternalNext]_internalVars => InternalTypeOK'
  <1> SUFFICES ASSUME InternalTypeOK, [InternalNext]_internalVars PROVE InternalTypeOK'
    OBVIOUS
  <1> USE InternalTableAssumption DEF InternalTypeOK, Present
  <1>1. CASE EnterCallback
    BY <1>1 DEF EnterCallback, entries
  <1>2. ASSUME NEW k \in TableKeys, NEW r \in RowNames, Add(k, r) PROVE InternalTypeOK'
    BY <1>2 DEF Add
  <1>3. ASSUME NEW k \in TableKeys, NEW v \in Values, FvsMut(k, v) PROVE InternalTypeOK'
    BY <1>3 DEF FvsMut
  <1>4. CASE CallbackCommits
    BY <1>4 DEF CallbackCommits, entries
  <1>5. ASSUME NEW k \in TableKeys, CommitEntry(k) PROVE InternalTypeOK'
    BY <1>5 DEF CommitEntry, callHistory
  <1>6. CASE CallbackFails
    BY <1>6 DEF CallbackFails, callHistory
  <1>7. CASE Crash
    BY <1>7 DEF Crash
  <1>8. CASE Restart
    BY <1>8 DEF Restart, entries, callHistory
  <1>9. CASE UNCHANGED internalVars
    BY <1>9 DEF internalVars, entries, callHistory
  <1> QED
    BY <1>1, <1>2, <1>3, <1>4, <1>5, <1>6, <1>7, <1>8, <1>9 DEF InternalNext

\* Every step keeps the relation between the flags, the backups and the
\* values the running callback found.
LEMMA NextFlagsInv == InternalTypeOK /\ FlagsInv /\ [InternalNext]_internalVars => FlagsInv'
  <1> SUFFICES ASSUME InternalTypeOK, FlagsInv, [InternalNext]_internalVars PROVE FlagsInv'
    OBVIOUS
  <1> USE InternalTableAssumption DEF InternalTypeOK, FlagsInv, Present
  <1>1. CASE EnterCallback
    BY <1>1 DEF EnterCallback, entries
  <1>2. ASSUME NEW k \in TableKeys, NEW r \in RowNames, Add(k, r) PROVE FlagsInv'
    BY <1>2 DEF Add
  <1>3. ASSUME NEW k \in TableKeys, NEW v \in Values, FvsMut(k, v) PROVE FlagsInv'
    BY <1>3 DEF FvsMut
  <1>4. CASE CallbackCommits
    BY <1>4 DEF CallbackCommits, entries
  <1>5. ASSUME NEW k \in TableKeys, CommitEntry(k) PROVE FlagsInv'
    BY <1>5 DEF CommitEntry, callHistory
  <1>6. CASE CallbackFails
    BY <1>6 DEF CallbackFails, callHistory
  <1>7. CASE Crash
    BY <1>7 DEF Crash
  <1>8. CASE Restart
    BY <1>8 DEF Restart, entries, callHistory
  <1>9. CASE UNCHANGED internalVars
    BY <1>9 DEF internalVars, entries, callHistory
  <1> QED
    BY <1>1, <1>2, <1>3, <1>4, <1>5, <1>6, <1>7, <1>8, <1>9 DEF InternalNext

\* Every step keeps the clean copies clean.
LEMMA NextCleanInv ==
    InternalTypeOK /\ FlagsInv /\ CleanInv /\ [InternalNext]_internalVars => CleanInv'
  <1> SUFFICES ASSUME InternalTypeOK, FlagsInv, CleanInv, [InternalNext]_internalVars PROVE CleanInv'
    OBVIOUS
  <1> USE InternalTableAssumption DEF InternalTypeOK, CleanInv, Present
  <1>1. CASE EnterCallback
    BY <1>1 DEF EnterCallback, entries
  <1>2. ASSUME NEW k \in TableKeys, NEW r \in RowNames, Add(k, r) PROVE CleanInv'
    BY <1>2 DEF Add
  <1>3. ASSUME NEW k \in TableKeys, NEW v \in Values, FvsMut(k, v) PROVE CleanInv'
    BY <1>3 DEF FvsMut, FlagsInv
  <1>4. CASE CallbackCommits
    BY <1>4 DEF CallbackCommits, entries
  <1>5. ASSUME NEW k \in TableKeys, CommitEntry(k) PROVE CleanInv'
    BY <1>5 DEF CommitEntry, callHistory
  <1>6. CASE CallbackFails
    BY <1>6 DEF CallbackFails, callHistory
  <1>7. CASE Crash
    BY <1>7 DEF Crash
  <1>8. CASE Restart
    BY <1>8 DEF Restart, entries, callHistory
  <1>9. CASE UNCHANGED internalVars
    BY <1>9 DEF internalVars, entries, callHistory
  <1> QED
    BY <1>1, <1>2, <1>3, <1>4, <1>5, <1>6, <1>7, <1>8, <1>9 DEF InternalNext

\* Every step keeps what a commit has written so far equal to the cache.
LEMMA NextCommitInv == InternalTypeOK /\ CommitInv /\ [InternalNext]_internalVars => CommitInv'
  <1> SUFFICES ASSUME InternalTypeOK, CommitInv, [InternalNext]_internalVars PROVE CommitInv'
    OBVIOUS
  <1> USE DEF InternalTypeOK, CommitInv, Present
  <1>1. CASE CallbackCommits
    BY <1>1 DEF CallbackCommits, entries
  <1>2. ASSUME NEW k \in TableKeys, CommitEntry(k) PROVE CommitInv'
    BY <1>2 DEF CommitEntry, callHistory
  <1>3. CASE UNCHANGED internalVars
    BY <1>3 DEF internalVars, entries, callHistory
  <1>4. CASE pc' # "commit"
    BY <1>4
  <1> QED
    BY <1>1, <1>2, <1>3, <1>4
    DEF InternalNext, EnterCallback, Add, FvsMut, CallbackFails, Crash, Restart

\* TableInv holds in every reachable state.
THEOREM TableInvariant == InternalSpec => []TableInv
  <1>1. TableInv /\ [InternalNext]_internalVars => TableInv'
    BY NextInternalTypeOK, NextFlagsInv, NextCleanInv, NextCommitInv DEF TableInv
  <1> QED
    BY InitTableInv, <1>1, PTL DEF InternalSpec

\* The types hold in every reachable state (state/internal.rs).
THEOREM InternalTypeCorrect == InternalSpec => []InternalTypeOK
  <1>1. TableInv => InternalTypeOK
    BY DEF TableInv
  <1> QED
    BY TableInvariant, <1>1, PTL

\* No row ever holds what only a failed callback wrote (drop_changes and
\* commit_changes under handle_actor_message), whatever the crashes.
THEOREM NoDirtyWriteEver == InternalSpec => []NoDirtyWrite
  <1>1. TableInv => NoDirtyWrite
    BY DEF TableInv, CleanInv, NoDirtyWrite
  <1> QED
    BY TableInvariant, <1>1, PTL

\* A failing callback restores every entry that it rewrote (fvs_mut and
\* drop_changes).
THEOREM RewrittenRestoredAlways == InternalSpec => RewrittenRestored
  <1>1. TableInv => (CallbackFails => (\A k \in written : fvs'[k] = start[k]))
    BY DEF TableInv, FlagsInv, InternalTypeOK, CallbackFails, Present
  <1> QED
    BY TableInvariant, <1>1, PTL DEF RewrittenRestored

\* A successful callback ends with every bound row equal to the cached values
\* (Internal::commit_changes).
THEOREM CommitCompleteAlways == InternalSpec => CommitComplete
  <1> DEFINE Done == (pc \in {"callback", "commit"} /\ pc' = "idle" /\ ~CallbackFails)
                       => (\A k \in Present : db'[k][row[k]] = fvs'[k])
  <1>1. TableInv /\ [InternalNext]_internalVars => [Done]_internalVars
    <2> SUFFICES ASSUME TableInv, [InternalNext]_internalVars,
                        pc \in {"callback", "commit"}, pc' = "idle", ~CallbackFails,
                        NEW k \in Present
                 PROVE  db'[k][row[k]] = fvs'[k]
      OBVIOUS
    <2> USE DEF TableInv, InternalTypeOK, CommitInv, Present
    <2>1. CASE CallbackCommits
      BY <2>1 DEF CallbackCommits
    <2>2. ASSUME NEW j \in TableKeys, CommitEntry(j) PROVE db'[k][row[k]] = fvs'[k]
      BY <2>2 DEF CommitEntry
    <2>3. CASE UNCHANGED internalVars
      BY <2>3 DEF internalVars
    <2> QED
      BY <2>1, <2>2, <2>3 DEF InternalNext, EnterCallback, Add, FvsMut, Crash, Restart
  <1> QED
    BY TableInvariant, <1>1, PTL DEF CommitComplete, InternalSpec

-----------------------------------------------------------------------------
\* The consumer bridges of a table.

\* The notifications of a subscription that are about a row.
About(s, k) == {n \in DOMAIN s : s[n].key = k}

LastIs(s, k, op) == \E n \in About(s, k) : s[n].op = op /\ \A m \in About(s, k) : m <= n

NoDel(s, k) == \A n \in About(s, k) : s[n].op # "Del"

\* What the bridge has of a row: while it rehydrates, what it has read.
Held(b, k) == IF phase[b] # "reading" THEN cache[b][k]
              ELSE IF k \in DOMAIN batch[b] THEN batch[b][k] ELSE NoFields

Exists(r) == IF r = NoFields THEN "Del" ELSE "Set"

\* s are the notifications left, r is the row k, and h is what the bridge has of it.
Tells(s, k, r) == About(s, k) = {} \/ LastIs(s, k, Exists(r))

Current(s, k, h, r) ==
    /\ About(s, k) = {} => h = r
    /\ NoDel(s, k) => DOMAIN h \subseteq DOMAIN r

\* A row is told of by the last notification about it, and is current once read.
RowInv(b, k) ==
    /\ Tells(events[b], k, table[k])
    /\ k \notin toRead[b] => Current(events[b], k, Held(b, k), table[k])

StartInv ==
    /\ \A b \in Bridges : phase[b] = "none" => events[b] = <<>>
    /\ \A b \in Bridges : phase[b] \in {"none", "reading"} => cache[b] = [k \in RowKeys |-> NoFields]
    /\ view = cache

RowsInv == \A b \in Subscribed, k \in RowKeys : RowInv(b, k)

\* The inductive invariant.
BridgeInv == BridgeTypeOK /\ StartInv /\ RowsInv
-----------------------------------------------------------------------------
\* The empty sequence, and when a sequence is it.
LEMMA SeqEmpty ==
    /\ DOMAIN <<>> = {} /\ Len(<<>>) = 0 /\ \A S : <<>> \in Seq(S)
    /\ \A S : \A s \in Seq(S) : (s = <<>>) <=> (Len(s) = 0)
  OBVIOUS

\* A sequence is a function on 1..Len(s) whose values are in its set.
LEMMA SeqRange ==
    ASSUME NEW S, NEW s \in Seq(S)
    PROVE  Len(s) \in Nat /\ DOMAIN s = 1..Len(s) /\ \A i \in 1..Len(s) : s[i] \in S
  OBVIOUS

\* A sequence with an element put at its end.
LEMMA SeqAppend ==
    ASSUME NEW S, NEW s \in Seq(S), NEW x \in S
    PROVE  /\ Append(s, x) \in Seq(S) /\ Append(s, x) # <<>> /\ Len(Append(s, x)) = Len(s) + 1
           /\ Append(s, x)[Len(s) + 1] = x /\ \A i \in 1..Len(s) : Append(s, x)[i] = s[i]
  OBVIOUS

\* The head and the tail of a sequence that is not empty.
LEMMA SeqTail ==
    ASSUME NEW S, NEW s \in Seq(S), s # <<>>
    PROVE  /\ Head(s) \in S /\ Head(s) = s[1] /\ Tail(s) \in Seq(S) /\ Len(Tail(s)) = Len(s) - 1
           /\ \A i \in 1..Len(Tail(s)) : Tail(s)[i] = s[i + 1]
  OBVIOUS

\* Taking from and putting to a queue.
LEMMA Queue ==
    ASSUME NEW S, NEW s \in Seq(S)
    PROVE  /\ DOMAIN s = 1..Len(s) /\ Len(s) \in Nat
           /\ \A x \in S : /\ Append(s, x) \in Seq(S) /\ DOMAIN Append(s, x) = 1..(Len(s) + 1)
                           /\ \A n \in 1..Len(s) : Append(s, x)[n] = s[n]
                           /\ Append(s, x)[Len(s) + 1] = x
           /\ s # <<>> => /\ Tail(s) \in Seq(S) /\ DOMAIN Tail(s) = 1..(Len(s) - 1) /\ Len(s) >= 1
                          /\ \A n \in 1..(Len(s) - 1) : Tail(s)[n] = s[n + 1]
                          /\ Head(s) = s[1] /\ 1 \in DOMAIN s /\ Head(s) \in S
  <1>1. DOMAIN s = 1..Len(s) /\ Len(s) \in Nat
    BY SeqRange, Zenon
  <1>2. ASSUME NEW x \in S
        PROVE  /\ Append(s, x) \in Seq(S) /\ DOMAIN Append(s, x) = 1..(Len(s) + 1)
               /\ \A n \in 1..Len(s) : Append(s, x)[n] = s[n]
               /\ Append(s, x)[Len(s) + 1] = x
    BY <1>1, SeqAppend, SeqRange
  <1>3. ASSUME s # <<>>
        PROVE  /\ Tail(s) \in Seq(S) /\ DOMAIN Tail(s) = 1..(Len(s) - 1) /\ Len(s) >= 1
               /\ \A n \in 1..(Len(s) - 1) : Tail(s)[n] = s[n + 1]
               /\ Head(s) = s[1] /\ 1 \in DOMAIN s /\ Head(s) \in S
    BY <1>1, <1>3, SeqTail, SeqRange
  <1> QED
    BY <1>1, <1>2, <1>3, Zenon

\* What a new notification changes about a row.
LEMMA AppendEvent ==
    ASSUME NEW s \in Seq(Event), NEW e \in Event, NEW k
    PROVE  LET t == Append(s, e)
           IN  /\ e.key # k => /\ About(t, k) = About(s, k) /\ NoDel(t, k) = NoDel(s, k)
                               /\ \A op : LastIs(s, k, op) => LastIs(t, k, op)
               /\ e.key = k => /\ About(t, k) # {} /\ LastIs(t, k, e.op)
                               /\ NoDel(t, k) => e.op # "Del" /\ NoDel(s, k)
  <1> DEFINE t == Append(s, e)
             l == Len(s) + 1
  <1>1. /\ DOMAIN s = 1..Len(s) /\ Len(s) \in Nat /\ DOMAIN t = 1..l
        /\ \A n \in 1..Len(s) : t[n] = s[n]
        /\ t[l] = e
    BY Queue
  <1> HIDE DEF t
  <1>2. About(t, k) = IF e.key = k THEN About(s, k) \cup {l} ELSE About(s, k)
    BY <1>1 DEF About
  <1>3. \A n \in About(s, k) : n \in Nat /\ n < l /\ t[n] = s[n]
    BY <1>1 DEF About
  <1>4. CASE e.key # k
    BY <1>2, <1>3, <1>4, Zenon DEF NoDel, LastIs, t
  <1>5. CASE e.key = k
    <2>1. LastIs(t, k, e.op)
      BY <1>1, <1>2, <1>3, <1>5 DEF LastIs
    <2>2. NoDel(t, k) => e.op # "Del" /\ NoDel(s, k)
      BY <1>1, <1>2, <1>3, <1>5, Zenon DEF NoDel
    <2> QED
      BY <1>2, <1>5, <2>1, <2>2, Zenon DEF t
  <1> QED
    BY <1>4, <1>5, Zenon DEF t

\* What popping a notification changes about a row.
LEMMA TailEvent ==
    ASSUME NEW s \in Seq(Event), s # <<>>, NEW k
    PROVE  LET h == Head(s)
               t == Tail(s)
           IN  /\ h.key # k =>
                    /\ About(t, k) = {} <=> About(s, k) = {}
                    /\ NoDel(t, k) => NoDel(s, k)
                    /\ \A op : LastIs(s, k, op) => LastIs(t, k, op)
               /\ h.key = k =>
                    /\ About(s, k) # {}
                    /\ NoDel(t, k) /\ h.op # "Del" => NoDel(s, k)
                    /\ \A op : LastIs(s, k, op) => LastIs(t, k, op) \/ (About(t, k) = {} /\ h.op = op)
  <1> DEFINE h == Head(s)
             t == Tail(s)
             l == Len(s)
  <1>1. /\ DOMAIN s = 1..l /\ l \in Nat /\ l >= 1 /\ DOMAIN t = 1..(l - 1)
        /\ \A n \in 1..(l - 1) : t[n] = s[n + 1]
        /\ h = s[1]
    BY Queue
  <1> HIDE DEF h, t, l
  <1>2. \A n \in About(t, k) : n \in Nat /\ n + 1 \in About(s, k) /\ t[n] = s[n + 1]
    BY <1>1 DEF About
  <1>3. \A n \in About(s, k) : n \in Nat /\ (n # 1 => n - 1 \in About(t, k) /\ t[n - 1] = s[n])
    BY <1>1 DEF About
  <1>4. 1 \in About(s, k) <=> h.key = k
    BY <1>1 DEF About
  <1>5. ASSUME NEW op, LastIs(s, k, op)
        PROVE  LastIs(t, k, op) \/ (About(t, k) = {} /\ h.key = k /\ h.op = op)
    <2>1. PICK n \in About(s, k) : s[n].op = op /\ \A m \in About(s, k) : m <= n
      BY <1>5, Zenon DEF LastIs
    <2>2. CASE n # 1
      <3>1. n - 1 \in About(t, k) /\ t[n - 1].op = op
        BY <1>3, <2>1, <2>2, Zenon
      <3>2. \A m \in About(t, k) : m <= n - 1
        BY <1>2, <1>3, <2>1
      <3> QED
        BY <3>1, <3>2, Zenon DEF LastIs
    <2>3. CASE n = 1
      <3>1. ASSUME NEW m \in About(t, k)
            PROVE  FALSE
        <4>1. m \in Nat /\ m + 1 \in About(s, k) /\ m \in 1..(l - 1)
          BY <1>1, <1>2, Zenon DEF About
        <4>2. m + 1 <= 1
          BY <2>1, <2>3, <4>1, Zenon
        <4> QED
          BY <1>1, <4>1, <4>2
      <3> QED
        BY <1>1, <1>4, <2>1, <2>3, <3>1, Zenon
    <2> QED
      BY <2>2, <2>3, Zenon
  <1>6. NoDel(t, k) /\ (h.key = k => h.op # "Del") => NoDel(s, k)
    BY <1>1, <1>3, <1>4, Zenon DEF NoDel
  <1>7. h.key # k => (About(t, k) = {} <=> About(s, k) = {})
    BY <1>2, <1>3, <1>4, Zenon
  <1> QED
    BY <1>4, <1>5, <1>6, <1>7, Zenon DEF h, t

\* The functions from some of the keys, and what has no key.
Partial(K, V) == UNION {[S -> V] : S \in SUBSET K}

\* What has no key is the empty sequence.
LEMMA Nothing ==
    ASSUME NEW K, NEW V
    PROVE  /\ <<>> \in Partial(K, V) /\ DOMAIN <<>> = {}
           /\ \A r \in Partial(K, V) : r = <<>> <=> DOMAIN r = {}
  <1> DEFINE none == <<>>
  <1>1. none \in [{} -> V]
    <2>1. <<>> \in Seq(V) /\ Len(<<>>) = 0
      BY SeqEmpty, Zenon
    <2>2. <<>> \in [1..0 -> V]
      BY <2>1, SeqRange
    <2> QED
      BY <2>2
  <1> HIDE DEF none
  <1>2. ASSUME NEW r \in Partial(K, V), DOMAIN r = {}
        PROVE  r = none
    <2>1. PICK S \in SUBSET K : r \in [S -> V]
      BY <1>2, Zenon DEF Partial
    <2> QED
      BY <1>1, <1>2, <2>1
  <1>3. none \in Partial(K, V)
    BY <1>1, Zenon DEF Partial
  <1> QED
    BY <1>1, <1>2, <1>3, Zenon DEF none

\* A merge leaves nothing of what is replaced.
LEMMA OverPartial ==
    ASSUME NEW K, NEW V, NEW r \in Partial(K, V), NEW old \in Partial(K, V)
    PROVE  /\ Over(r, old) \in Partial(K, V)
           /\ DOMAIN Over(r, old) = DOMAIN r \cup DOMAIN old
           /\ \A x \in DOMAIN r : Over(r, old)[x] = r[x]
           /\ \A x \in DOMAIN old \ DOMAIN r : Over(r, old)[x] = old[x]
           /\ DOMAIN old \subseteq DOMAIN r => Over(r, old) = r
  <1>1. PICK S \in SUBSET K : r \in [S -> V]
    BY Zenon DEF Partial
  <1>2. PICK T \in SUBSET K : old \in [T -> V]
    BY Zenon DEF Partial
  <1>3. Over(r, old) \in [S \cup T -> V]
    BY <1>1, <1>2, Zenon DEF Over
  <1>4. /\ \A x \in S : Over(r, old)[x] = r[x]
        /\ \A x \in T \ S : Over(r, old)[x] = old[x]
    BY <1>1, <1>2, Zenon DEF Over
  <1>5. ASSUME DOMAIN old \subseteq DOMAIN r
        PROVE  Over(r, old) = r
    <2>1. S \cup T = S
      BY <1>1, <1>2, <1>5, Zenon
    <2> QED
      BY <1>1, <1>3, <1>4, <2>1
  <1>6. Over(r, old) \in Partial(K, V)
    BY <1>3, Zenon DEF Partial
  <1> QED
    BY <1>1, <1>2, <1>3, <1>4, <1>5, <1>6, Zenon

\* The rows are such functions, and so are the batches of the bridges.
LEMMA RowsPartial ==
    /\ Rows = Partial(Fields, 1..MaxChanges)
    /\ UNION {[S -> Rows] : S \in SUBSET RowKeys} = Partial(RowKeys, Rows)
    /\ NoFields \in Rows /\ DOMAIN NoFields = {}
    /\ \A r \in Rows : r = NoFields <=> DOMAIN r = {}
  <1>1. Rows = Partial(Fields, 1..MaxChanges)
    BY Zenon DEF Rows, Partial
  <1>2. UNION {[S -> Rows] : S \in SUBSET RowKeys} = Partial(RowKeys, Rows)
    BY Zenon DEF Partial
  <1> QED
    BY <1>1, <1>2, Nothing, Zenon DEF NoFields

\* Over(r, old) has the fields of both rows.
LEMMA OverRows ==
    ASSUME NEW r \in Rows, NEW old \in Rows
    PROVE  /\ Over(r, old) \in Rows
           /\ DOMAIN Over(r, old) = DOMAIN r \cup DOMAIN old
           /\ DOMAIN old \subseteq DOMAIN r => Over(r, old) = r
  <1> DEFINE V == 1..MaxChanges
  <1>1. Rows = Partial(Fields, V)
    BY RowsPartial, Zenon
  <1> HIDE DEF V
  <1>2. r \in Partial(Fields, V) /\ old \in Partial(Fields, V)
    BY <1>1, Zenon
  <1>3. /\ Over(r, old) \in Partial(Fields, V)
        /\ DOMAIN Over(r, old) = DOMAIN r \cup DOMAIN old
        /\ DOMAIN old \subseteq DOMAIN r => Over(r, old) = r
    BY <1>2, OverPartial
  <1> QED
    BY <1>1, <1>3, Zenon

-----------------------------------------------------------------------------
\* The initial state has the invariant.
LEMMA InitBridgeInv == BridgeInit => BridgeInv
  <1> SUFFICES ASSUME BridgeInit PROVE BridgeInv
    BY Zenon
  <1>1. [f \in Fields |-> 1] \in Rows
    BY TableBridgeAssumption DEF Rows
  <1>2. <<>> \in Seq(Event) /\ <<>> \in Partial(RowKeys, Rows)
    BY SeqEmpty, Nothing, Zenon
  <1>3. BridgeTypeOK
    <2>1. table \in [RowKeys -> Rows] /\ changes \in 0..MaxChanges
      <3> HIDE DEF NoFields
      <3> QED
        BY <1>1, RowsPartial, TableBridgeAssumption DEF BridgeInit
    <2>2. events \in [Bridges -> Seq(Event)] /\ \A b \in Bridges : batch[b] = <<>>
      BY <1>2, Zenon DEF BridgeInit
    <2>3. batch \in [Bridges -> UNION {[S -> Rows] : S \in SUBSET RowKeys}]
      <3> DEFINE none == <<>>
      <3>1. batch = [b \in Bridges |-> none] /\ none \in Partial(RowKeys, Rows)
        BY <1>2, Zenon DEF BridgeInit
      <3> HIDE DEF none
      <3> QED
        BY <3>1, RowsPartial, Zenon
    <2>4. cache \in [Bridges -> [RowKeys -> Rows]] /\ view \in [Bridges -> [RowKeys -> Rows]]
      <3> HIDE DEF NoFields
      <3> QED
        BY RowsPartial, Zenon DEF BridgeInit
    <2>5. /\ phase \in [Bridges -> {"none", "reading", "running", "quit"}]
          /\ toRead \in [Bridges -> SUBSET RowKeys] /\ route \subseteq Bridges
          /\ \A b \in Bridges : toRead[b] = {}
      BY Zenon DEF BridgeInit
    <2> QED
      BY <2>1, <2>2, <2>3, <2>4, <2>5, Zenon DEF BridgeTypeOK
  <1>4. StartInv
    BY Zenon DEF BridgeInit, StartInv
  <1>5. RowsInv
    BY Zenon DEF BridgeInit, RowsInv, Subscribed
  <1> QED
    BY <1>3, <1>4, <1>5, Zenon DEF BridgeInv

\* The notification of a change.
LEMMA NotifyEvents ==
    ASSUME BridgeTypeOK, NEW k \in RowKeys, NEW op \in {"Set", "Del"}, Notify(k, op)
    PROVE  /\ events' \in [Bridges -> Seq(Event)]
           /\ \A b \in Bridges : events'[b] = IF b \in Subscribed THEN Append(events[b], [key |-> k, op |-> op])
                                                                 ELSE events[b]
  <1>1. [key |-> k, op |-> op] \in Event
    BY Zenon DEF Event
  <1>2. \A b \in Bridges : events[b] \in Seq(Event) /\ Append(events[b], [key |-> k, op |-> op]) \in Seq(Event)
    BY <1>1, SeqAppend, Zenon DEF BridgeTypeOK
  <1> QED
    BY <1>2, Zenon DEF Notify

\* What a notification that is popped makes of the cache, and of the view.
Put(f, b, k, v) == [f EXCEPT ![b] = [@ EXCEPT ![k] = v]]

\* What Put changes, and what it leaves.
LEMMA PutType ==
    ASSUME NEW f \in [Bridges -> [RowKeys -> Rows]], NEW b \in Bridges, NEW k \in RowKeys, NEW v \in Rows
    PROVE  /\ Put(f, b, k, v) \in [Bridges -> [RowKeys -> Rows]]
           /\ \A c \in Bridges : \A l \in RowKeys :
                 Put(f, b, k, v)[c][l] = IF c = b /\ l = k THEN v ELSE f[c][l]
           /\ \A c \in Bridges \ {b} : Put(f, b, k, v)[c] = f[c]
  <1> DEFINE g == [f[b] EXCEPT ![k] = v]
  <1>1. g \in [RowKeys -> Rows] /\ \A l \in RowKeys : g[l] = IF l = k THEN v ELSE f[b][l]
    BY Zenon
  <1>2. Put(f, b, k, v) = [f EXCEPT ![b] = g]
    BY Zenon DEF Put
  <1> HIDE DEF g
  <1> QED
    BY <1>1, <1>2, Zenon

\* What popping a notification does to the queue, the cache and the view.
LEMMA PopEffect ==
    ASSUME BridgeTypeOK, NEW b \in Bridges, Pop(b)
    PROVE  LET e == Head(events[b])
               v == Merge(cache[b][e.key], e)
           IN  /\ events[b] \in Seq(Event) /\ events[b] # <<>> /\ Tail(events[b]) \in Seq(Event)
               /\ e \in Event /\ e.key \in RowKeys /\ v \in Rows
               /\ IF e.op = "Set" /\ table[e.key] = NoFields THEN UNCHANGED <<cache, view>>
                  ELSE cache' = Put(cache, b, e.key, v) /\ view' = Put(view, b, e.key, v)
  <1> DEFINE e == Head(events[b])
             v == Merge(cache[b][e.key], e)
  <1>1. events[b] \in Seq(Event) /\ events[b] # <<>>
    BY Zenon DEF Pop, BridgeTypeOK
  <1>2. e \in Event /\ Tail(events[b]) \in Seq(Event)
    BY <1>1, Queue, Zenon
  <1>3. e.key \in RowKeys
    BY <1>2, Zenon DEF Event
  <1>4. v \in Rows
    <2>1. table[e.key] \in Rows /\ cache[b][e.key] \in Rows
      BY <1>3 DEF BridgeTypeOK
    <2> HIDE DEF e, NoFields
    <2>2. Over(table[e.key], cache[b][e.key]) \in Rows
      BY <2>1, OverRows, Zenon
    <2> QED
      BY <2>2, RowsPartial, Zenon DEF Merge
  <1>5. ASSUME ~(e.op = "Set" /\ table[e.key] = NoFields)
        PROVE  cache' = Put(cache, b, e.key, v) /\ view' = Put(view, b, e.key, v)
    <2> HIDE DEF e, NoFields
    <2>1. /\ cache' = [cache EXCEPT ![b][e.key] = Merge(@, e)]
          /\ view' = [view EXCEPT ![b][e.key] = IF e.op = "Del" THEN NoFields ELSE Merge(cache[b][e.key], e)]
      BY <1>5, Zenon DEF Pop, e
    <2>2. (IF e.op = "Del" THEN NoFields ELSE Merge(cache[b][e.key], e)) = v
      BY Zenon DEF Merge
    <2>3. view' = Put(view, b, e.key, v)
      BY <2>1, <2>2, Zenon DEF Put
    <2>4. cache' = Put(cache, b, e.key, v)
      BY <2>1, Zenon DEF Put
    <2> QED
      BY <2>3, <2>4, Zenon
  <1>6. e.op = "Set" /\ table[e.key] = NoFields => UNCHANGED <<cache, view>>
    BY Zenon DEF Pop
  <1> QED
    BY <1>1, <1>2, <1>3, <1>4, <1>5, <1>6, Zenon

\* Every step keeps the types.
LEMMA NextTypeOK ==
    ASSUME BridgeTypeOK, [BridgeNext]_bridgeVars
    PROVE  BridgeTypeOK'
  <1> USE TableBridgeAssumption
  <1>1. ASSUME NEW k \in RowKeys, NEW S \in SUBSET Fields, Write(k, S) PROVE BridgeTypeOK'
    <2>1. changes' \in 1..MaxChanges
      BY <1>1 DEF Write, BridgeTypeOK
    <2>2. [f \in S |-> changes'] \in Rows
      BY <2>1 DEF Rows
    <2>3. Over([f \in S |-> changes'], table[k]) \in Rows
      <3> DEFINE new == [f \in S |-> changes']
      <3>1. new \in Rows /\ table[k] \in Rows
        BY <2>2, Zenon DEF BridgeTypeOK
      <3> HIDE DEF new
      <3>2. Over(new, table[k]) \in Rows
        BY <3>1, OverRows, Zenon
      <3> QED
        BY <3>2, Zenon DEF new
    <2>4. table' \in [RowKeys -> Rows]
      BY <1>1, <2>3, Zenon DEF Write, BridgeTypeOK
    <2>5. events' \in [Bridges -> Seq(Event)]
      BY <1>1, NotifyEvents, Zenon DEF Write
    <2> QED
      BY <1>1, <2>1, <2>4, <2>5 DEF Write, BridgeTypeOK
  <1>2. ASSUME NEW k \in RowKeys, Delete(k) PROVE BridgeTypeOK'
    <2>1. table' \in [RowKeys -> Rows]
      BY <1>2, RowsPartial, Zenon DEF Delete, BridgeTypeOK
    <2>2. events' \in [Bridges -> Seq(Event)]
      BY <1>2, NotifyEvents, Zenon DEF Delete
    <2>3. changes' \in 0..MaxChanges
      BY <1>2 DEF Delete, BridgeTypeOK
    <2> QED
      BY <1>2, <2>1, <2>2, <2>3, Zenon DEF Delete, BridgeTypeOK
  <1>3. ASSUME NEW b \in Bridges, Spawn(b) PROVE BridgeTypeOK'
    BY <1>3, Zenon DEF Spawn, BridgeTypeOK
  <1>4. ASSUME NEW b \in Bridges, NEW k \in RowKeys, ReadRow(b, k) PROVE BridgeTypeOK'
    <2>1. [x \in {k} |-> table[x]] \in Partial(RowKeys, Rows)
      <3>1. [x \in {k} |-> table[x]] \in [{k} -> Rows] /\ {k} \in SUBSET RowKeys
        BY Zenon DEF BridgeTypeOK
      <3> QED
        BY <3>1, Zenon DEF Partial
    <2>2. Over([x \in {k} |-> table[x]], batch[b]) \in Partial(RowKeys, Rows)
      BY <2>1, RowsPartial, OverPartial, Zenon DEF BridgeTypeOK
    <2>3. batch' \in [Bridges -> Partial(RowKeys, Rows)]
      BY <1>4, <2>2, RowsPartial, Zenon DEF ReadRow, BridgeTypeOK
    <2> QED
      BY <1>4, <2>3, RowsPartial, Zenon DEF ReadRow, BridgeTypeOK
  <1>5. ASSUME NEW b \in Bridges, SendBatch(b) PROVE BridgeTypeOK'
    <2>1. batch[b] \in Partial(RowKeys, Rows) /\ cache[b] \in [RowKeys -> Rows] /\ view[b] \in [RowKeys -> Rows]
      BY RowsPartial, Zenon DEF BridgeTypeOK
    <2>2. Over(batch[b], cache[b]) \in [RowKeys -> Rows] /\ Over(batch[b], view[b]) \in [RowKeys -> Rows]
      BY <2>1 DEF Over, Partial
    <2>3. batch' \in [Bridges -> Partial(RowKeys, Rows)] /\ batch'[b] = <<>>
      <3> DEFINE none == <<>>
      <3>1. none \in Partial(RowKeys, Rows) /\ batch' = [batch EXCEPT ![b] = none]
        BY <1>5, Nothing, Zenon DEF SendBatch
      <3> HIDE DEF none
      <3>2. batch' \in [Bridges -> Partial(RowKeys, Rows)] /\ batch'[b] = none
        BY <3>1, RowsPartial, Zenon DEF BridgeTypeOK
      <3> QED
        BY <3>2, Zenon DEF none
    <2>4. cache' \in [Bridges -> [RowKeys -> Rows]] /\ view' \in [Bridges -> [RowKeys -> Rows]]
      BY <1>5, <2>2, Zenon DEF SendBatch, BridgeTypeOK
    <2> QED
      BY <1>5, <2>3, <2>4, RowsPartial, Zenon DEF SendBatch, BridgeTypeOK
  <1>6. ASSUME NEW b \in Bridges, Pop(b) PROVE BridgeTypeOK'
    <2>1. events' \in [Bridges -> Seq(Event)]
      BY <1>6, PopEffect, Zenon DEF Pop, BridgeTypeOK
    <2>2. cache' \in [Bridges -> [RowKeys -> Rows]] /\ view' \in [Bridges -> [RowKeys -> Rows]]
      <3> DEFINE e == Head(events[b])
                 v == Merge(cache[b][e.key], e)
      <3>1. /\ e.key \in RowKeys /\ v \in Rows
            /\ \/ cache' = cache /\ view' = view
               \/ cache' = Put(cache, b, e.key, v) /\ view' = Put(view, b, e.key, v)
        BY <1>6, PopEffect, Zenon
      <3> HIDE DEF e, v
      <3>2. cache \in [Bridges -> [RowKeys -> Rows]] /\ view \in [Bridges -> [RowKeys -> Rows]]
        BY Zenon DEF BridgeTypeOK
      <3>3. /\ Put(cache, b, e.key, v) \in [Bridges -> [RowKeys -> Rows]]
            /\ Put(view, b, e.key, v) \in [Bridges -> [RowKeys -> Rows]]
        BY <3>1, <3>2, PutType, Zenon
      <3> QED
        BY <3>1, <3>2, <3>3, Zenon
    <2> QED
      BY <1>6, <2>1, <2>2, Zenon DEF Pop, BridgeTypeOK
  <1>7. ASSUME NEW b \in Bridges, Quit(b) PROVE BridgeTypeOK'
    <2>1. <<>> \in Seq(Event)
      BY SeqEmpty, Zenon
    <2> QED
      BY <1>7, <2>1, Zenon DEF Quit, BridgeTypeOK
  <1>8. CASE UNCHANGED bridgeVars
    BY <1>8, Zenon DEF bridgeVars, bridge, BridgeTypeOK
  <1> QED
    BY <1>1, <1>2, <1>3, <1>4, <1>5, <1>6, <1>7, <1>8, Zenon DEF BridgeNext

\* Every step keeps what a bridge that has not started yet has.
LEMMA NextStartInv ==
    ASSUME BridgeTypeOK, StartInv, [BridgeNext]_bridgeVars
    PROVE  StartInv'
  <1>1. ASSUME NEW k \in RowKeys, NEW op \in {"Set", "Del"}, Notify(k, op), UNCHANGED <<phase, cache, view>>
        PROVE  StartInv'
    BY <1>1, NotifyEvents, Zenon DEF StartInv, Subscribed
  <1>2. ASSUME NEW b \in Bridges, Spawn(b) PROVE StartInv'
    BY <1>2, Zenon DEF Spawn, StartInv, BridgeTypeOK
  <1>3. ASSUME NEW b \in Bridges, NEW k \in RowKeys, ReadRow(b, k) PROVE StartInv'
    BY <1>3, Zenon DEF ReadRow, StartInv
  <1>4. ASSUME NEW b \in Bridges, SendBatch(b) PROVE StartInv'
    BY <1>4, Zenon DEF SendBatch, StartInv, BridgeTypeOK
  <1>5. ASSUME NEW b \in Bridges, Pop(b) PROVE StartInv'
    <2>1. view' = cache'
      BY <1>5, PopEffect DEF StartInv
    <2>2. \A c \in Bridges \ {b} : events'[c] = events[c] /\ cache'[c] = cache[c]
      BY <1>5, Zenon DEF Pop, BridgeTypeOK
    <2> QED
      BY <1>5, <2>1, <2>2 DEF Pop, StartInv
  <1>6. ASSUME NEW b \in Bridges, Quit(b) PROVE StartInv'
    BY <1>6, Zenon DEF Quit, StartInv, BridgeTypeOK
  <1>7. CASE UNCHANGED bridgeVars
    BY <1>7, Zenon DEF bridgeVars, bridge, StartInv
  <1> QED
    BY <1>1, <1>2, <1>3, <1>4, <1>5, <1>6, <1>7, Zenon DEF BridgeNext, Write, Delete

\* A notification keeps what is said of its own row, and of the others.
LEMMA Notified ==
    ASSUME NEW s \in Seq(Event), NEW e \in Event, NEW k, NEW h, NEW old, NEW r,
           IF e.key = k THEN e.op = Exists(r) /\ (e.op # "Del" => DOMAIN old \subseteq DOMAIN r)
           ELSE Tells(s, k, old) /\ old = r
    PROVE  /\ Tells(Append(s, e), k, r)
           /\ Current(s, k, h, old) => Current(Append(s, e), k, h, r)
  <1> HIDE DEF NoFields
  <1>1. CASE e.key = k
    <2>1. /\ About(Append(s, e), k) # {} /\ LastIs(Append(s, e), k, e.op)
          /\ NoDel(Append(s, e), k) => e.op # "Del" /\ NoDel(s, k)
      BY <1>1, AppendEvent, Zenon
    <2> QED
      BY <1>1, <2>1, Zenon DEF Tells, Current
  <1>2. CASE e.key # k
    <2>1. /\ About(Append(s, e), k) = About(s, k) /\ NoDel(Append(s, e), k) = NoDel(s, k)
          /\ LastIs(s, k, Exists(r)) => LastIs(Append(s, e), k, Exists(r))
      BY <1>2, AppendEvent, Zenon
    <2> QED
      BY <1>2, <2>1, Zenon DEF Tells, Current
  <1> QED
    BY <1>1, <1>2, Zenon

\* So does popping one, with what the bridge then has of the row.
LEMMA Popped ==
    ASSUME NEW s \in Seq(Event), s # <<>>, NEW k, NEW h \in Rows, NEW r \in Rows, Tells(s, k, r),
           NEW h1, h1 = IF Head(s).key # k \/ (Head(s).op = "Set" /\ r = NoFields) THEN h
                        ELSE IF Head(s).op = "Set" THEN Over(r, h) ELSE NoFields
    PROVE  /\ Tells(Tail(s), k, r)
           /\ Current(s, k, h, r) => Current(Tail(s), k, h1, r)
  <1> DEFINE e == Head(s)
             t == Tail(s)
             op == Exists(r)
  <1>1. e.op \in {"Set", "Del"}
    <2>1. e \in Event
      BY Queue, Zenon
    <2> QED
      BY <2>1, Zenon DEF Event
  <1>2. CASE e.key # k
    <2>1. /\ About(t, k) = {} <=> About(s, k) = {}
          /\ NoDel(t, k) => NoDel(s, k)
          /\ LastIs(s, k, op) => LastIs(t, k, op)
      BY <1>2, TailEvent, Zenon
    <2> HIDE DEF e, t, NoFields, op
    <2> QED
      BY <1>2, <2>1, Zenon DEF Tells, Current, e, t, op
  <1>3. CASE e.key = k
    <2>1. /\ About(s, k) # {}
          /\ NoDel(t, k) /\ e.op # "Del" => NoDel(s, k)
          /\ LastIs(s, k, op) => LastIs(t, k, op) \/ (About(t, k) = {} /\ e.op = op)
      BY <1>3, TailEvent, Zenon
    <2>2. LastIs(t, k, op) \/ (About(t, k) = {} /\ e.op = op)
      BY <2>1, Zenon DEF Tells
    <2>3. /\ LastIs(t, k, op) => About(t, k) # {} /\ (op = "Del" => ~NoDel(t, k))
          /\ About(t, k) = {} => NoDel(t, k)
      BY Zenon DEF LastIs, NoDel
    <2>4. /\ Over(r, h) \in Rows
          /\ DOMAIN h \subseteq DOMAIN r => Over(r, h) = r
      BY OverRows, Zenon
    <2>5. DOMAIN NoFields = {}
      BY RowsPartial, Zenon
    <2>6. op = IF r = NoFields THEN "Del" ELSE "Set"
      BY Zenon DEF Exists
    <2>7. h1 = IF e.op = "Set" /\ r = NoFields THEN h ELSE IF e.op = "Set" THEN Over(r, h) ELSE NoFields
      BY <1>3, Zenon
    <2> HIDE DEF e, t, NoFields, op
    <2>8. Tells(t, k, r)
      BY <2>2, Zenon DEF Tells, op
    <2>9. ASSUME Current(s, k, h, r) PROVE Current(t, k, h1, r)
      BY <1>1, <2>1, <2>2, <2>3, <2>4, <2>5, <2>6, <2>7, <2>9, Zenon DEF Current
    <2> QED
      BY <2>8, <2>9, Zenon DEF t
  <1> QED
    BY <1>2, <1>3, Zenon

\* A step that changes nothing of what is said of a row.
LEMMA SameRow ==
    ASSUME NEW b \in Bridges, NEW k \in RowKeys, RowInv(b, k),
           events'[b] = events[b], table'[k] = table[k], toRead'[b] = toRead[b], Held(b, k)' = Held(b, k)
    PROVE  RowInv(b, k)'
  BY Zenon DEF RowInv

\* A row that changes together with its notification keeps RowsInv.
LEMMA ChangeRowsInv ==
    ASSUME BridgeTypeOK, RowsInv, NEW k \in RowKeys, NEW op \in {"Set", "Del"}, NEW now \in Rows,
           Notify(k, op), table' = [table EXCEPT ![k] = now],
           op = Exists(now), op # "Del" => DOMAIN table[k] \subseteq DOMAIN now,
           UNCHANGED <<phase, toRead, batch, cache>>
    PROVE  RowsInv'
  <1> SUFFICES ASSUME NEW b \in Subscribed, NEW l \in RowKeys PROVE RowInv(b, l)'
    BY Zenon DEF RowsInv, Subscribed
  <1> DEFINE e == [key |-> k, op |-> op]
  <1>1. b \in Bridges /\ events[b] \in Seq(Event) /\ e \in Event /\ e.key = k /\ e.op = op
    BY Zenon DEF Subscribed, BridgeTypeOK, Event
  <1>2. events'[b] = Append(events[b], e)
    BY <1>1, NotifyEvents, Zenon
  <1>3. table'[l] = IF l = k THEN now ELSE table[l]
    BY Zenon DEF BridgeTypeOK
  <1>4. Held(b, l)' = Held(b, l) /\ toRead'[b] = toRead[b]
    BY Zenon DEF Held
  <1>5. RowInv(b, l)
    BY Zenon DEF RowsInv
  <1> HIDE DEF e
  <1>6. /\ Tells(Append(events[b], e), l, table'[l])
        /\ Current(events[b], l, Held(b, l), table[l])
             => Current(Append(events[b], e), l, Held(b, l), table'[l])
    <2>1. IF e.key = l THEN e.op = Exists(table'[l]) /\ (e.op # "Del" => DOMAIN table[l] \subseteq DOMAIN table'[l])
          ELSE Tells(events[b], l, table[l]) /\ table[l] = table'[l]
      BY <1>1, <1>3, <1>5, Zenon DEF RowInv
    <2> QED
      BY <1>1, <2>1, Notified, Zenon
  <1> QED
    BY <1>2, <1>4, <1>5, <1>6, Zenon DEF RowInv

\* Every step keeps RowsInv.
LEMMA NextRowsInv ==
    ASSUME BridgeTypeOK, StartInv, RowsInv, [BridgeNext]_bridgeVars
    PROVE  RowsInv'
  <1>1. ASSUME NEW k \in RowKeys, NEW S \in SUBSET Fields, Write(k, S) PROVE RowsInv'
    <2> DEFINE new == [f \in S |-> changes']
               now == Over(new, table[k])
    <2>1. changes' \in 1..MaxChanges /\ S # {}
      BY <1>1, TableBridgeAssumption DEF Write, BridgeTypeOK
    <2>2. new \in Rows /\ DOMAIN new = S /\ table[k] \in Rows
      BY <2>1 DEF Rows, BridgeTypeOK
    <2>3. table' = [table EXCEPT ![k] = now] /\ Notify(k, "Set") /\ UNCHANGED <<phase, toRead, batch, cache>>
      BY <1>1, Zenon DEF Write
    <2> HIDE DEF new
    <2>4. now \in Rows /\ DOMAIN now = S \cup DOMAIN table[k]
      BY <2>2, OverRows, Zenon
    <2> HIDE DEF now, NoFields
    <2>5. Exists(now) = "Set"
      BY <2>1, <2>4, RowsPartial, Zenon DEF Exists
    <2> QED
      BY <2>3, <2>4, <2>5, ChangeRowsInv, Zenon
  <1>2. ASSUME NEW k \in RowKeys, Delete(k) PROVE RowsInv'
    <2> HIDE DEF NoFields
    <2>1. NoFields \in Rows /\ Exists(NoFields) = "Del"
      BY RowsPartial, Zenon DEF Exists
    <2>2. table' = [table EXCEPT ![k] = NoFields] /\ Notify(k, "Del") /\ UNCHANGED <<phase, toRead, batch, cache>>
      BY <1>2, Zenon DEF Delete
    <2> QED
      BY <2>1, <2>2, ChangeRowsInv, Zenon
  <1>3. ASSUME NEW b \in Bridges, Spawn(b) PROVE RowsInv'
    <2>1. SUFFICES ASSUME NEW c \in Subscribed', NEW l \in RowKeys PROVE RowInv(c, l)'
      BY Zenon DEF RowsInv
    <2>2. c \in Bridges /\ UNCHANGED <<table, events, batch, cache>>
      BY <1>3, Zenon DEF Subscribed, Spawn
    <2>3. CASE c = b
      <3>1. events'[b] = <<>> /\ phase'[b] = "reading" /\ batch'[b] = <<>>
        BY <1>3, Zenon DEF Spawn, StartInv, BridgeTypeOK
      <3>2. Held(b, l)' = NoFields
        <4>1. l \notin DOMAIN <<>>
          BY SeqEmpty, SeqRange, Zenon
        <4> QED
          BY <3>1, <4>1, Zenon DEF Held
      <3>3. About(<<>>, l) = {}
        BY SeqEmpty, SeqRange, Zenon DEF About
      <3>4. l \notin toRead'[b] => table[l] = NoFields
        BY <1>3, Zenon DEF Spawn, BridgeTypeOK
      <3> HIDE DEF NoFields
      <3> QED
        BY <2>2, <2>3, <3>1, <3>2, <3>3, <3>4, Zenon DEF RowInv, Tells, Current
    <2>4. CASE c # b
      <3>1. phase'[c] = phase[c] /\ toRead'[c] = toRead[c] /\ c \in Subscribed
        BY <1>3, <2>2, <2>4, Zenon DEF Spawn, Subscribed, BridgeTypeOK
      <3> QED
        BY <2>2, <3>1, SameRow, Zenon DEF Held, RowsInv
    <2> QED
      BY <2>3, <2>4, Zenon
  <1>4. ASSUME NEW b \in Bridges, NEW k \in RowKeys, ReadRow(b, k) PROVE RowsInv'
    <2>1. SUFFICES ASSUME NEW c \in Subscribed, NEW l \in RowKeys PROVE RowInv(c, l)'
      BY <1>4, Zenon DEF RowsInv, Subscribed, ReadRow
    <2>2. c \in Bridges /\ RowInv(c, l) /\ UNCHANGED <<table, events, phase, cache>> /\ phase[b] = "reading"
      BY <1>4, Zenon DEF Subscribed, ReadRow, RowsInv
    <2> DEFINE new == [x \in {k} |-> table[x]]
    <2>3. /\ batch'[b] = Over(new, batch[b]) /\ \A d \in Bridges \ {b} : batch'[d] = batch[d]
          /\ toRead'[b] = toRead[b] \ {k} /\ \A d \in Bridges \ {b} : toRead'[d] = toRead[d]
      BY <1>4, Zenon DEF ReadRow, BridgeTypeOK
    <2>4. /\ k \in DOMAIN batch'[b] /\ batch'[b][k] = table[k]
          /\ l # k => /\ l \in DOMAIN batch'[b] <=> l \in DOMAIN batch[b]
                      /\ l \in DOMAIN batch[b] => batch'[b][l] = batch[b][l]
      BY <2>3, Zenon DEF Over
    <2> HIDE DEF NoFields
    <2>5. CASE c = b /\ l = k
      <3>1. Held(b, k)' = table[k]
        BY <2>2, <2>4, Zenon DEF Held
      <3> QED
        BY <2>2, <2>5, <3>1, Zenon DEF RowInv, Current
    <2>6. CASE c = b /\ l # k
      <3>1. Held(b, l)' = Held(b, l) /\ (l \notin toRead'[b] => l \notin toRead[b])
        BY <2>2, <2>3, <2>4, <2>6, Zenon DEF Held
      <3> QED
        BY <2>2, <2>6, <3>1, Zenon DEF RowInv
    <2>7. CASE c # b
      BY <2>2, <2>3, <2>7, SameRow, Zenon DEF Held
    <2> QED
      BY <2>5, <2>6, <2>7, Zenon
  <1>5. ASSUME NEW b \in Bridges, SendBatch(b) PROVE RowsInv'
    <2>1. SUFFICES ASSUME NEW c \in Subscribed, NEW l \in RowKeys PROVE RowInv(c, l)'
      <3>1. Subscribed' = Subscribed
        BY <1>5, Zenon DEF Subscribed, SendBatch, BridgeTypeOK
      <3> QED
        BY <3>1, Zenon DEF RowsInv
    <2>2. c \in Bridges /\ RowInv(c, l) /\ UNCHANGED <<table, events, toRead>>
      BY <1>5, Zenon DEF Subscribed, SendBatch, RowsInv
    <2>3. CASE c = b
      <3>1. /\ phase[b] = "reading" /\ phase'[b] = "running"
            /\ cache'[b] = Over(batch[b], cache[b]) /\ cache[b] = [k \in RowKeys |-> NoFields]
        BY <1>5, Zenon DEF SendBatch, StartInv, BridgeTypeOK
      <3> HIDE DEF NoFields
      <3>2. cache'[b][l] = IF l \in DOMAIN batch[b] THEN batch[b][l] ELSE NoFields
        BY <3>1 DEF Over
      <3>3. Held(b, l)' = Held(b, l)
        BY <3>1, <3>2, Zenon DEF Held
      <3> QED
        BY <2>2, <2>3, <3>3, SameRow, Zenon
    <2>4. CASE c # b
      <3>1. phase'[c] = phase[c] /\ cache'[c] = cache[c] /\ batch'[c] = batch[c]
        BY <1>5, <2>2, <2>4, Zenon DEF SendBatch, BridgeTypeOK
      <3> QED
        BY <2>2, <3>1, SameRow, Zenon DEF Held
    <2> QED
      BY <2>3, <2>4, Zenon
  <1>6. ASSUME NEW b \in Bridges, Pop(b) PROVE RowsInv'
    <2>1. SUFFICES ASSUME NEW c \in Subscribed, NEW l \in RowKeys PROVE RowInv(c, l)'
      BY <1>6, Zenon DEF RowsInv, Subscribed, Pop
    <2>2. c \in Bridges /\ RowInv(c, l) /\ UNCHANGED <<table, phase, batch, toRead>> /\ phase[b] = "running"
      BY <1>6, Zenon DEF Subscribed, Pop, RowsInv
    <2>3. /\ events'[b] = Tail(events[b])
          /\ \A d \in Bridges \ {b} : events'[d] = events[d] /\ cache'[d] = cache[d]
      BY <1>6, Zenon DEF Pop, BridgeTypeOK
    <2>4. CASE c = b
      <3> DEFINE s == events[b]
                 e == Head(s)
                 v == Merge(cache[b][e.key], e)
                 h == cache[b][l]
      <3>1. /\ s \in Seq(Event) /\ s # <<>> /\ e.key \in RowKeys /\ v \in Rows
            /\ IF e.op = "Set" /\ table[e.key] = NoFields THEN cache' = cache
               ELSE cache' = Put(cache, b, e.key, v)
        BY <1>6, PopEffect, Zenon
      <3>2. h \in Rows /\ table[l] \in Rows /\ cache \in [Bridges -> [RowKeys -> Rows]]
        BY Zenon DEF BridgeTypeOK
      <3>3. e.key = l => v = IF e.op = "Set" THEN Over(table[l], h) ELSE NoFields
        BY Zenon DEF Merge
      <3> HIDE DEF e, v, NoFields
      <3>4. Put(cache, b, e.key, v)[b][l] = IF l = e.key THEN v ELSE cache[b][l]
        BY <3>1, <3>2, PutType
      <3>5. cache'[b][l] = IF e.key # l \/ (e.op = "Set" /\ table[l] = NoFields) THEN h
                           ELSE IF e.op = "Set" THEN Over(table[l], h) ELSE NoFields
        BY <3>1, <3>3, <3>4, Zenon
      <3>6. Held(b, l) = h /\ Held(b, l)' = cache'[b][l] /\ Tells(s, l, table[l])
        BY <2>2, <2>4, Zenon DEF Held, RowInv
      <3>7. Tells(Tail(s), l, table[l]) /\ (Current(s, l, h, table[l]) => Current(Tail(s), l, cache'[b][l], table[l]))
        BY <3>1, <3>2, <3>5, <3>6, Popped, Zenon DEF e
      <3> QED
        BY <2>2, <2>3, <2>4, <3>6, <3>7, Zenon DEF RowInv
    <2>5. CASE c # b
      BY <2>2, <2>3, <2>5, SameRow, Zenon DEF Held
    <2> QED
      BY <2>4, <2>5, Zenon
  <1>7. ASSUME NEW b \in Bridges, Quit(b) PROVE RowsInv'
    <2>1. SUFFICES ASSUME NEW c \in Subscribed', NEW l \in RowKeys PROVE RowInv(c, l)'
      BY Zenon DEF RowsInv
    <2>2. c \in Bridges /\ c # b /\ c \in Subscribed
      BY <1>7, Zenon DEF Subscribed, Quit, BridgeTypeOK
    <2>3. /\ UNCHANGED <<table, batch, cache, toRead>>
          /\ phase'[c] = phase[c] /\ events'[c] = events[c] /\ RowInv(c, l)
      BY <1>7, <2>2, Zenon DEF Quit, RowsInv, BridgeTypeOK
    <2> QED
      BY <2>2, <2>3, SameRow, Zenon DEF Held
  <1>8. CASE UNCHANGED bridgeVars
    BY <1>8, Zenon DEF bridgeVars, bridge, RowsInv, RowInv, Subscribed, Held
  <1> QED
    BY <1>1, <1>2, <1>3, <1>4, <1>5, <1>6, <1>7, <1>8, Zenon DEF BridgeNext

-----------------------------------------------------------------------------
\* BridgeInv, the inductive invariant behind the two theorems that follow: the
\* last notification a bridge has yet to pop about a row tells whether the row
\* exists, and what it has of a row it has read has no field too many unless a
\* Del is still to be popped.
THEOREM BridgeInvariant == BridgeSpec => []BridgeInv
  <1>1. ASSUME BridgeInv, [BridgeNext]_bridgeVars
        PROVE  BridgeInv'
    BY <1>1, NextTypeOK, NextStartInv, NextRowsInv, Zenon DEF BridgeInv
  <1> QED
    BY <1>1, InitBridgeInv, PTL DEF BridgeSpec

\* A bridge that does not rehydrate has no row left to read or to send, and
\* what it and its actor hold are rows: BridgeTypeOK, always.
THEOREM TypeCorrect == BridgeSpec => []BridgeTypeOK
  <1>1. BridgeInv => BridgeTypeOK
    BY Zenon DEF BridgeInv
  <1> QED
    BY <1>1, BridgeInvariant, PTL

\* An actor whose bridge runs and has popped every notification has the table
\* as it is, for any number of bridges, rows, fields and changes: no change made
\* while the bridge rehydrated is lost, and no field of a row deleted in between
\* survives the merges of TableCache.
THEOREM ViewCurrentAlways == BridgeSpec => []ViewCurrent
  <1>1. ASSUME BridgeInv PROVE ViewCurrent
    <2> SUFFICES ASSUME NEW b \in Bridges, phase[b] = "running", events[b] = <<>>
                 PROVE  view[b] = table /\ cache[b] = table
      BY Zenon DEF ViewCurrent
    <2>1. BridgeTypeOK /\ view = cache /\ RowsInv
      BY <1>1, Zenon DEF BridgeInv, StartInv
    <2>2. toRead[b] = {} /\ cache[b] \in [RowKeys -> Rows] /\ table \in [RowKeys -> Rows]
      BY <2>1, Zenon DEF BridgeTypeOK
    <2>3. b \in Subscribed
      BY Zenon DEF Subscribed
    <2>4. \A k \in RowKeys : RowInv(b, k)
      BY <2>1, <2>3, Zenon DEF RowsInv
    <2>5. \A k \in RowKeys : About(events[b], k) = {}
      BY SeqEmpty, SeqRange, Zenon DEF About
    <2>6. \A k \in RowKeys : cache[b][k] = table[k]
      BY <2>2, <2>4, <2>5, Zenon DEF RowInv, Current, Held
    <2> QED
      BY <2>1, <2>2, <2>6
  <1> QED
    BY <1>1, BridgeInvariant, PTL
=============================================================================
