-------------------------- MODULE DpuNetworkProofs --------------------------
(***************************************************************************)
(* Proofs about SwbusConfig and DpuNetwork: the configurations that the    *)
(* swbusds of alike configured NPUs compute fit together, and a managed    *)
(* DPU actor that has caught up has the BFD sessions of the tables, for    *)
(* all tables of any size.                                                 *)
(***************************************************************************)
EXTENDS DpuNetwork, TLAPS

\* The bridges of the DPU actor, the keys of every bridge, the row a key has in
\* the table of one of the actor's, and what the actor was last told of it.
Watched == {"global", "remote"}
BridgeKeys(b) == IF b = "dpu" THEN {Mine} ELSE IF b = "global" THEN {"global"} ELSE Ids
Present(b, k) == IF b = "global" THEN global ELSE remotes[k]
Told(b, k) == IF b = "global" THEN told.global ELSE told.remote[k]

AllKeys == {Mine, "global"} \cup Ids
Bridge == [run : {"off", "on", "replaced", "quit"}, found : SUBSET AllKeys, changed : SUBSET AllKeys]
Messages == [from : {"dpu", "global", "remote"}, key : AllKeys,
             row : SUBSET (DpuRows \cup RemoteRows \cup Globals), op : {"Set", "Del"}]

BridgesType ==
    /\ bridges \in [Bridges -> Bridge]
    /\ \A b \in Bridges : bridges[b].found \cup bridges[b].changed \subseteq BridgeKeys(b)

InboxType ==
    /\ inbox \in Seq(Messages)
    /\ \A n \in DOMAIN inbox :
         /\ inbox[n].from = "remote" => inbox[n].key \in Ids /\ inbox[n].row \subseteq RemoteRows
         /\ inbox[n].from = "global" => inbox[n].key = "global" /\ inbox[n].row \subseteq Globals

\* Types, and that every bridge sends what its table can have.
TypeInv ==
    /\ loopback \in Loopbacks
    /\ dpus \in [Keys -> SUBSET DpuRows]
    /\ remotes \in [Ids -> SUBSET RemoteRows]
    /\ global \in SUBSET Globals /\ (global = {} \/ \E g \in Globals : global = {g})
    /\ BridgesType /\ InboxType
    /\ told \in [global : SUBSET Globals, remote : [Ids -> SUBSET RemoteRows]]
    /\ told.global = {} \/ \E g \in Globals : told.global = {g}
    /\ sessions \in [Addresses -> SUBSET Globals]
    /\ spawning \in 0..2 /\ events \in Nat

\* An actor that has not taken a row yet has no bridges, has heard of no table
\* but DPU, and one that has knows an IPv4 address of its NPU.
LifeInv ==
    /\ dpu \in {"absent", "none", "managed", "other", "stopped"}
    /\ dpu \in {"absent", "none", "stopped"} =>
         /\ \A b \in Watched : bridges[b].run = "off"
         /\ \A n \in DOMAIN inbox : inbox[n].from = "dpu"
         /\ told = FreshTold
    /\ dpu \in {"managed", "other"} => loopback \cap V4 # {}
    /\ steady => dpu = "managed"
    /\ spawning # 0 => dpu = "managed"

\* The messages of bridge b about key k that the actor has not handled.
Mentions(b, k) == {n \in DOMAIN inbox : inbox[n].from = b /\ inbox[n].key = k}

\* The row is still to be forwarded, or the last message about it is the row as
\* it is, or there is none and the actor knows the row as it is.
UpToDate(b, k) ==
    \/ k \in bridges[b].found \cup bridges[b].changed
    \/ \E n \in Mentions(b, k) : inbox[n].row = Present(b, k) /\ \A m \in Mentions(b, k) : m <= n
    \/ Mentions(b, k) = {} /\ Told(b, k) = Present(b, k)

BridgesInv ==
    \A b \in Watched : bridges[b].run = "on" =>
        \A k \in BridgeKeys(b) : Present(b, k) # {} => UpToDate(b, k)

\* The sessions are those of what the actor was told.
SessionsInv ==
    steady /\ told.global # {} =>
        \A a \in Peers(UNION {told.remote[i] : i \in Ids}) : sessions[a] = told.global

\* The inductive invariant.  SessionsCurrent alone says nothing while a message
\* or a notification is on its way.
NetworkInv == TypeInv /\ LifeInv /\ BridgesInv /\ SessionsInv

RemoteActorType == [state : {"absent", "live", "stopped"}, row : RowsOrNone(RemoteRows)]

\* Every table, actor and session has one row or none, and so has every message
\* about a REMOTE_DPU row.
RowsInv ==
    /\ dpus \in [Keys -> RowsOrNone(DpuRows)]
    /\ remotes \in [Ids -> RowsOrNone(RemoteRows)]
    /\ remoteActors \in [Ids -> RemoteActorType]
    /\ told.remote \in [Ids -> RowsOrNone(RemoteRows)]
    /\ sessions \in [Addresses -> RowsOrNone(Globals)]
    /\ events <= MaxEvents
    /\ \A n \in DOMAIN inbox : inbox[n].from = "remote" => inbox[n].row \in RowsOrNone(RemoteRows)

\* While hamgrd is down it has neither bridges nor the DPU actor, and an actor
\* that is not there has no messages.
DownInv ==
    /\ config = {} => dpu = "absent" /\ \A b \in Bridges : bridges[b].run = "off"
    /\ dpu \in {"absent", "stopped"} => inbox = <<>>

-----------------------------------------------------------------------------
\* The empty sequence, and when a sequence is it.
LEMMA SeqEmpty ==
    /\ DOMAIN <<>> = {} /\ Len(<<>>) = 0 /\ \A S : <<>> \in Seq(S)
    /\ \A S : \A s \in Seq(S) : (s = <<>>) <=> (Len(s) = 0)
  OBVIOUS

\* A sequence is a function on 1..Len(s) whose values are in its set.
LEMMA SeqRange ==
    ASSUME NEW S, NEW s \in Seq(S)
    PROVE  Len(s) \in Nat /\ DOMAIN s = 1..Len(s) /\ \A i \in 1..Len(s) : s[i] \in S
  OBVIOUS

\* A sequence with an element put at its end.
LEMMA SeqAppend ==
    ASSUME NEW S, NEW s \in Seq(S), NEW x \in S
    PROVE  /\ Append(s, x) \in Seq(S) /\ Append(s, x) # <<>> /\ Len(Append(s, x)) = Len(s) + 1
           /\ Append(s, x)[Len(s) + 1] = x /\ \A i \in 1..Len(s) : Append(s, x)[i] = s[i]
  OBVIOUS

\* The head and the tail of a sequence that is not empty.
LEMMA SeqTail ==
    ASSUME NEW S, NEW s \in Seq(S), s # <<>>
    PROVE  /\ Head(s) \in S /\ Head(s) = s[1] /\ Tail(s) \in Seq(S) /\ Len(Tail(s)) = Len(s) - 1
           /\ \A i \in 1..Len(Tail(s)) : Tail(s)[i] = s[i + 1]
  OBVIOUS

\* The address a swbusd listens on is one of the addresses of its NPU.
LEMMA PreferredIsOne ==
    ASSUME NEW addrs, addrs # {}
    PROVE  Preferred(addrs) \in addrs
  <1>1. CASE addrs \cap V4 # {}
    <2>1. \E a \in addrs \cap V4 : TRUE
      BY <1>1, Zenon
    <2> QED
      BY <1>1, <2>1, Zenon DEF Preferred
  <1>2. CASE addrs \cap V4 = {}
    <2>1. \E a \in addrs : TRUE
      BY Zenon
    <2> QED
      BY <1>2, <2>1, Zenon DEF Preferred
  <1> QED
    BY <1>1, <1>2, Zenon

\* A configuration is that of some row of its slot.
LEMMA ConfigOfRow ==
    ASSUME NEW site, NEW slot, Loads(site, slot)
    PROVE  \E row \in site.dpus :
             /\ row.dpu_id = slot
             /\ Config(site, slot).endpoint = Socket(Preferred(site.loopback), row.port)
             /\ Config(site, slot).path = Path(Preferred(site.loopback), slot)
  <1> DEFINE row == CHOOSE r \in site.dpus : r.dpu_id = slot
  <1>1. row \in site.dpus /\ row.dpu_id = slot
    BY Zenon DEF Loads
  <1>2. /\ Config(site, slot).endpoint = Socket(Preferred(site.loopback), row.port)
        /\ Config(site, slot).path = Path(Preferred(site.loopback), slot)
    BY Zenon DEF Config
  <1> QED
    BY <1>1, <1>2, Zenon

\* Whoever has a row with the slot, port and addresses of a swbusd among its
\* peer rows dials that swbusd.
LEMMA RowDials ==
    ASSUME NEW a, NEW s, NEW row \in PeerRows(a, s),
           NEW b, NEW t, NEW own \in b.dpus,
           b.loopback # {}, row.addrs = b.loopback, row.dpu_id = t, row.port = own.port,
           Config(b, t).endpoint = Socket(Preferred(b.loopback), own.port),
           Config(b, t).path = Path(Preferred(b.loopback), t)
    PROVE  Dials(Config(a, s), Config(b, t))
  <1> DEFINE ip == Preferred(b.loopback)
             peer == [id |-> Path(ip, t), endpoint |-> Socket(ip, own.port)]
  <1>1. ip \in row.addrs
    BY PreferredIsOne, Zenon
  <1>2. peer \in PeerConfig(row)
    BY <1>1, Zenon DEF PeerConfig
  <1>3. Config(a, s).peers = UNION {PeerConfig(r) : r \in PeerRows(a, s)}
    BY Zenon DEF Config
  <1>4. peer \in Config(a, s).peers
    BY <1>2, <1>3, Zenon
  <1>5. peer.id = Config(b, t).path /\ peer.endpoint = Config(b, t).endpoint
    BY Zenon
  <1> QED
    BY <1>4, <1>5, Zenon DEF Dials

\* Two slots of one NPU: each swbusd dials the other one.
LEMMA SlotsDial ==
    ASSUME NEW site, NEW s, NEW t, s # t, Loads(site, t)
    PROVE  Dials(Config(site, s), Config(site, t))
  <1>1. PICK own \in site.dpus :
             /\ own.dpu_id = t
             /\ Config(site, t).endpoint = Socket(Preferred(site.loopback), own.port)
             /\ Config(site, t).path = Path(Preferred(site.loopback), t)
    BY ConfigOfRow, Zenon
  <1> DEFINE row == ToRemoteDpu(own, site.loopback)
  <1>2. row \in PeerRows(site, s)
    BY <1>1, Zenon DEF PeerRows
  <1>3. row.addrs = site.loopback /\ row.dpu_id = t /\ row.port = own.port
    BY <1>1, Zenon DEF ToRemoteDpu
  <1> QED
    BY <1>1, <1>2, <1>3, RowDials, Zenon DEF Loads

\* A swbusd dials those of a REMOTE_DPU row's NPU.
LEMMA DialsRemote ==
    ASSUME NEW site, NEW s, NEW r \in site.remotes, Loads(Mirror(site, r), r.dpu_id)
    PROVE  Dials(Config(site, s), Config(Mirror(site, r), r.dpu_id))
  <1> DEFINE there == Mirror(site, r)
  <1>1. PICK own \in there.dpus :
             /\ own.dpu_id = r.dpu_id
             /\ Config(there, r.dpu_id).endpoint = Socket(Preferred(there.loopback), own.port)
             /\ Config(there, r.dpu_id).path = Path(Preferred(there.loopback), r.dpu_id)
    BY ConfigOfRow, Zenon
  <1>2. there.loopback = r.addrs
    BY Zenon DEF Mirror
  <1>3. PICK row \in site.remotes : row.addrs = r.addrs /\ row.dpu_id = own.dpu_id /\ row.port = own.port
    BY DEF Mirror
  <1>4. row \in PeerRows(site, s)
    BY Zenon DEF PeerRows
  <1> QED
    BY <1>1, <1>2, <1>3, <1>4, RowDials, Zenon DEF Loads

\* And the swbusd of a REMOTE_DPU row's NPU dials ours.
LEMMA RemoteDials ==
    ASSUME NEW site, NEW s, NEW r \in site.remotes, Loads(site, s)
    PROVE  Dials(Config(Mirror(site, r), r.dpu_id), Config(site, s))
  <1> DEFINE there == Mirror(site, r)
  <1>1. PICK own \in site.dpus :
             /\ own.dpu_id = s
             /\ Config(site, s).endpoint = Socket(Preferred(site.loopback), own.port)
             /\ Config(site, s).path = Path(Preferred(site.loopback), s)
    BY ConfigOfRow, Zenon
  <1> DEFINE row == ToRemoteDpu(own, site.loopback)
  <1>2. row \in there.remotes
    BY Zenon DEF Mirror
  <1>3. row \in PeerRows(there, r.dpu_id)
    BY <1>2, Zenon DEF PeerRows
  <1>4. row.addrs = site.loopback /\ row.dpu_id = s /\ row.port = own.port
    BY <1>1, Zenon DEF ToRemoteDpu
  <1> QED
    BY <1>1, <1>3, <1>4, RowDials, Zenon DEF Loads

\* Whatever the DPU and REMOTE_DPU tables and the addresses of Loopback0 are, the
\* configurations of two alike configured NPUs, and of two slots of one NPU, name
\* each other with the endpoint and the path each one uses itself.
THEOREM PeersMutualAlways == Spec => []PeersMutual
  <1>1. PeersMutual
    <2> DEFINE site == Site
    <2> HIDE DEF site
    <2>1. ASSUME NEW s, Loads(site, s), NEW r \in site.remotes, Loads(Mirror(site, r), r.dpu_id)
          PROVE  /\ Dials(Config(site, s), Config(Mirror(site, r), r.dpu_id))
                 /\ Dials(Config(Mirror(site, r), r.dpu_id), Config(site, s))
      BY <2>1, DialsRemote, RemoteDials, Zenon
    <2>2. ASSUME NEW s, NEW r \in site.dpus, r.dpu_id # s, Loads(site, r.dpu_id)
          PROVE  Dials(Config(site, s), Config(site, r.dpu_id))
      BY <2>2, SlotsDial, Zenon
    <2> QED
      BY <2>1, <2>2, Zenon DEF PeersMutual, site
  <1> QED
    BY <1>1, PTL

-----------------------------------------------------------------------------
\* The messages after one was put at the end of the inbox, and after the first
\* one was taken.
LEMMA Queue ==
    ASSUME NEW S, NEW s \in Seq(S)
    PROVE  /\ DOMAIN s = 1..Len(s) /\ Len(s) \in Nat
           /\ \A x \in S : /\ Append(s, x) \in Seq(S) /\ DOMAIN Append(s, x) = 1..(Len(s) + 1)
                           /\ \A n \in 1..Len(s) : Append(s, x)[n] = s[n]
                           /\ Append(s, x)[Len(s) + 1] = x
           /\ s # <<>> => /\ Tail(s) \in Seq(S) /\ DOMAIN Tail(s) = 1..(Len(s) - 1)
                          /\ \A n \in 1..(Len(s) - 1) : Tail(s)[n] = s[n + 1]
                          /\ Head(s) = s[1] /\ 1 \in DOMAIN s
  <1>1. DOMAIN s = 1..Len(s) /\ Len(s) \in Nat
    BY SeqRange, Zenon
  <1>2. ASSUME NEW x \in S
        PROVE  /\ Append(s, x) \in Seq(S) /\ DOMAIN Append(s, x) = 1..(Len(s) + 1)
               /\ \A n \in 1..Len(s) : Append(s, x)[n] = s[n]
               /\ Append(s, x)[Len(s) + 1] = x
    BY <1>1, SeqAppend, SeqRange
  <1>3. ASSUME s # <<>>
        PROVE  /\ Tail(s) \in Seq(S) /\ DOMAIN Tail(s) = 1..(Len(s) - 1)
               /\ \A n \in 1..(Len(s) - 1) : Tail(s)[n] = s[n + 1]
               /\ Head(s) = s[1] /\ 1 \in DOMAIN s
    BY <1>1, <1>3, SeqTail, SeqRange
  <1> QED
    BY <1>1, <1>2, <1>3, Zenon

\* A bridge forwards the row of a key as it is.
LEMMA ForwardUpToDate ==
    ASSUME TypeInv, NEW b \in Watched, NEW k \in BridgeKeys(b), UpToDate(b, k),
           NEW m \in Messages, inbox' = Append(inbox, m),
           m.from = b /\ m.key = k => m.row = Present(b, k),
           \/ m.from = b /\ m.key = k
           \/ k \in bridges[b].found \cup bridges[b].changed
                => k \in bridges'[b].found \cup bridges'[b].changed,
           UNCHANGED <<told, global, remotes>>
    PROVE  UpToDate(b, k)'
  <1> USE DEF TypeInv, InboxType, Present, Told
  <1>0. /\ DOMAIN inbox = 1..Len(inbox) /\ Len(inbox) \in Nat /\ DOMAIN inbox' = 1..(Len(inbox) + 1)
        /\ \A n \in DOMAIN inbox : inbox'[n] = inbox[n]
        /\ inbox'[Len(inbox) + 1] = m
    BY Queue
  <1>1. CASE m.from = b /\ m.key = k
    <2>1. Len(inbox) + 1 \in Mentions(b, k)'
      BY <1>0, <1>1 DEF Mentions
    <2>2. \A n \in Mentions(b, k)' : n <= Len(inbox) + 1
      BY <1>0 DEF Mentions
    <2>3. inbox'[Len(inbox) + 1].row = Present(b, k)'
      BY <1>0, <1>1, Zenon
    <2> QED
      BY <2>1, <2>2, <2>3, Zenon DEF UpToDate
  <1>2. CASE ~(m.from = b /\ m.key = k)
    <2>1. Mentions(b, k)' = Mentions(b, k)
      BY <1>0, <1>2 DEF Mentions
    <2>2. \A n \in Mentions(b, k) : inbox'[n] = inbox[n]
      BY <1>0, Zenon DEF Mentions
    <2>3. Present(b, k)' = Present(b, k) /\ Told(b, k)' = Told(b, k)
      BY Zenon
    <2> QED
      BY <1>2, <2>1, <2>2, <2>3, Zenon DEF UpToDate
  <1> QED
    BY <1>1, <1>2, Zenon

\* The actor handles a message: it knows the row the message brought.
LEMMA HandleUpToDate ==
    ASSUME TypeInv, NEW b \in Watched, NEW k \in BridgeKeys(b), UpToDate(b, k),
           inbox # <<>>, inbox' = Tail(inbox),
           IF Head(inbox).from = b /\ Head(inbox).key = k
             THEN Head(inbox).row = Present(b, k) => Told(b, k)' = Present(b, k)
             ELSE Told(b, k)' = Told(b, k),
           UNCHANGED <<bridges, global, remotes>>
    PROVE  UpToDate(b, k)'
  <1> USE DEF TypeInv, InboxType
  <1>0. /\ DOMAIN inbox = 1..Len(inbox) /\ Len(inbox) \in Nat /\ DOMAIN inbox' = 1..(Len(inbox) - 1)
        /\ \A n \in 1..(Len(inbox) - 1) : inbox'[n] = inbox[n + 1]
        /\ Head(inbox) = inbox[1] /\ 1 \in DOMAIN inbox
    BY Queue
  <1>1. Present(b, k)' = Present(b, k)
    BY Zenon DEF Present
  <1>2. \A n \in Mentions(b, k)' : n \in Nat \ {0} /\ n + 1 \in Mentions(b, k)
    BY <1>0 DEF Mentions
  <1>3. \A n \in Mentions(b, k) : n \in Nat /\ (n # 1 => n - 1 \in Mentions(b, k)' /\ inbox'[n - 1] = inbox[n])
    BY <1>0 DEF Mentions
  <1>4. 1 \in Mentions(b, k) <=> Head(inbox).from = b /\ Head(inbox).key = k
    BY <1>0, Zenon DEF Mentions
  <1>5. CASE k \in bridges[b].found \cup bridges[b].changed
    BY <1>5, Zenon DEF UpToDate
  <1>6. ASSUME NEW n \in Mentions(b, k), inbox[n].row = Present(b, k), \A m \in Mentions(b, k) : m <= n
        PROVE  UpToDate(b, k)'
    <2>1. CASE n = 1
      <3>1. \A m \in Mentions(b, k)' : FALSE
        BY <1>2, <1>6, <2>1
      <3>2. Told(b, k)' = Present(b, k)'
        BY <1>0, <1>1, <1>4, <1>6, <2>1, Zenon
      <3> QED
        BY <3>1, <3>2, Zenon DEF UpToDate
    <2>2. CASE n # 1
      <3>1. n - 1 \in Mentions(b, k)' /\ inbox'[n - 1].row = Present(b, k)'
        BY <1>1, <1>3, <1>6, <2>2, Zenon
      <3>2. \A m \in Mentions(b, k)' : m <= n - 1
        BY <1>2, <1>3, <1>6
      <3> QED
        BY <3>1, <3>2, Zenon DEF UpToDate
    <2> QED
      BY <2>1, <2>2, Zenon
  <1>7. CASE Mentions(b, k) = {} /\ Told(b, k) = Present(b, k)
    <2>1. Mentions(b, k)' = {}
      BY <1>2, <1>7, Zenon
    <2>2. Told(b, k)' = Present(b, k)'
      BY <1>1, <1>4, <1>7, Zenon
    <2> QED
      BY <2>1, <2>2, Zenon DEF UpToDate
  <1> QED
    BY <1>5, <1>6, <1>7, Zenon DEF UpToDate

-----------------------------------------------------------------------------
\* What a bridge sends: the row of the key as it is, typed like its table.
LEMMA ForwardMessage ==
    ASSUME TypeInv, NEW b \in Bridges, NEW k, Forward(b, k)
    PROVE  /\ k \in BridgeKeys(b) /\ b # "creator" /\ Running(bridges[b])
           /\ Message(b, k) \in Messages
           /\ Message(b, k).from = b /\ Message(b, k).key = k
           /\ b \in Watched => Message(b, k).row = Present(b, k)
           /\ b = "remote" => Message(b, k).row \subseteq RemoteRows
           /\ b = "global" => Message(b, k).row \subseteq Globals
  <1>1. k \in BridgeKeys(b) /\ b # "creator" /\ Running(bridges[b])
    BY Zenon DEF TypeInv, BridgesType, Forward, CanForward
  <1>2. Message(b, k).from = b /\ Message(b, k).key = k /\ Message(b, k).row = RowOf(TableOf(b), k)
    BY Zenon DEF Message
  <1>3. Message(b, k).op \in {"Set", "Del"}
    BY Zenon DEF Message
  <1>4. CASE b = "dpu"
    <2>1. RowOf(TableOf(b), k) = dpus[Mine] /\ dpus[Mine] \in SUBSET DpuRows
      BY <1>1, <1>4, DpuNetworkAssumption, Zenon DEF RowOf, TableOf, BridgeKeys, TypeInv
    <2> QED
      BY <1>1, <1>2, <1>3, <1>4, <2>1, Zenon DEF Message, Messages, Watched, AllKeys, BridgeKeys
  <1>5. CASE b = "global"
    <2>1. RowOf(TableOf(b), k) = global /\ global \in SUBSET Globals
      BY <1>5, Zenon DEF RowOf, TableOf, TypeInv
    <2> QED
      BY <1>1, <1>2, <1>3, <1>5, <2>1, Zenon DEF Message, Messages, Present, AllKeys, BridgeKeys
  <1>6. CASE b = "remote"
    <2>1. RowOf(TableOf(b), k) = remotes[k] /\ remotes[k] \in SUBSET RemoteRows
      BY <1>1, <1>6, Zenon DEF RowOf, TableOf, BridgeKeys, TypeInv
    <2> QED
      BY <1>1, <1>2, <1>3, <1>6, <2>1, Zenon DEF Message, Messages, Present, AllKeys, BridgeKeys
  <1> QED
    BY <1>1, <1>4, <1>5, <1>6, Zenon DEF Bridges

\* The keys a new bridge finds are keys of its table, and all that have a row.
LEMMA FoundKeys ==
    ASSUME NEW b \in Bridges
    PROVE  /\ KeysOf(TableOf(b)) \subseteq BridgeKeys(b)
           /\ b \in Watched => \A k \in BridgeKeys(b) : Present(b, k) # {} => k \in KeysOf(TableOf(b))
  BY Zenon DEF Bridges, TableOf, KeysOf, BridgeKeys, Watched, Present

\* Init and the reset of hamgrd.
LEMMA InitNetworkInv == Init => NetworkInv
  <1> SUFFICES ASSUME Init PROVE NetworkInv
    BY Zenon
  <1>1. inbox \in Seq(Messages) /\ DOMAIN inbox = {}
    BY SeqEmpty, Zenon DEF Init
  <1>2. /\ dpus \in [Keys -> SUBSET DpuRows]
        /\ remotes \in [Ids -> SUBSET RemoteRows]
    BY DEF Init
  <1>3. global = {} \/ \E g \in Globals : global = {g}
    BY DpuNetworkAssumption DEF Init, Globals
  <1>4. \A b \in Bridges : bridges[b] = Off
    BY Zenon DEF Init
  <1>5. TypeInv
    <2>1. bridges \in [Bridges -> Bridge] /\ \A b \in Bridges : bridges[b].found \cup bridges[b].changed = {}
      BY <1>4, Zenon DEF Init, Off, Bridge
    <2>2. told \in [global : SUBSET Globals, remote : [Ids -> SUBSET RemoteRows]] /\ told.global = {}
      BY Zenon DEF Init, FreshTold
    <2>3. /\ loopback \in Loopbacks /\ sessions \in [Addresses -> SUBSET Globals]
          /\ spawning \in 0..2 /\ events \in Nat
      BY DEF Init
    <2> QED
      BY <1>1, <1>2, <1>3, <2>1, <2>2, <2>3, Zenon DEF TypeInv, BridgesType, InboxType
  <1>6. LifeInv
    BY <1>1, <1>4, Zenon DEF Init, LifeInv, Watched, Bridges, Off
  <1>7. BridgesInv
    BY <1>4 DEF BridgesInv, Watched, Bridges, Off
  <1>8. SessionsInv
    BY Zenon DEF Init, SessionsInv
  <1> QED
    BY <1>5, <1>6, <1>7, <1>8, Zenon DEF NetworkInv

\* A row changes: its running bridges learn of the key.
LEMMA NotifyBridges ==
    ASSUME BridgesType, NEW table, NEW key, Notify(table, key),
           \A b \in Bridges : TableOf(b) = table => key \in BridgeKeys(b)
    PROVE  BridgesType'
  <1>1. ASSUME NEW b \in Bridges
        PROVE  bridges'[b] \in Bridge /\ bridges'[b].found \cup bridges'[b].changed \subseteq BridgeKeys(b)
    <2>1. CASE TableOf(b) = table /\ Running(bridges[b])
      <3>1. bridges'[b] = [bridges[b] EXCEPT !.changed = @ \cup {key}]
        BY <2>1, Zenon DEF Notify
      <3>2. key \in BridgeKeys(b) /\ key \in AllKeys
        BY <2>1, Zenon DEF BridgeKeys, AllKeys
      <3> QED
        BY <3>1, <3>2 DEF BridgesType, Bridge
    <2>2. CASE ~(TableOf(b) = table /\ Running(bridges[b]))
      BY <2>2, Zenon DEF Notify, BridgesType
    <2> QED
      BY <2>1, <2>2, Zenon
  <1>2. bridges' = [b \in Bridges |-> bridges'[b]]
    BY Zenon DEF Notify
  <1> QED
    BY <1>1, <1>2, Zenon DEF BridgesType

\* One message less in the inbox, or none.
LEMMA InboxShrinks ==
    ASSUME InboxType, inbox' = <<>> \/ (inbox # <<>> /\ inbox' = Tail(inbox))
    PROVE  InboxType'
  <1>1. CASE inbox' = <<>>
    BY <1>1, SeqEmpty, Zenon DEF InboxType
  <1>2. CASE inbox # <<>> /\ inbox' = Tail(inbox)
    <2>1. inbox' \in Seq(Messages)
      BY <1>2, Queue, Zenon DEF InboxType
    <2>2. \A n \in DOMAIN inbox' : n + 1 \in DOMAIN inbox /\ inbox'[n] = inbox[n + 1]
      BY <1>2, Queue DEF InboxType
    <2> QED
      BY <2>1, <2>2 DEF InboxType
  <1> QED
    BY <1>1, <1>2, Zenon

\* Every step keeps the types.
LEMMA NextTypeInv ==
    ASSUME TypeInv, [Next]_vars
    PROVE  TypeInv'
  <1>1. ASSUME NEW k \in Keys, NEW row \in {{}} \cup {{r} : r \in DpuRows}, WriteDpu(k, row)
        PROVE  TypeInv'
    <2>1. \A b \in Bridges : TableOf(b) # "none" /\ (TableOf(b) = "DPU" => b = "dpu")
      BY Zenon DEF Bridges, TableOf
    <2>2. PICK table : Notify(table, k) /\ \A b \in Bridges : TableOf(b) = table => k \in BridgeKeys(b)
      BY <1>1, <2>1, Zenon DEF WriteDpu, BridgeKeys
    <2>3. BridgesType'
      BY <2>2, NotifyBridges, Zenon DEF TypeInv
    <2>4. dpus' \in [Keys -> SUBSET DpuRows] /\ UNCHANGED <<remotes, global>>
      BY <1>1 DEF WriteDpu, TypeInv
    <2> QED
      BY <2>2, <2>3, <2>4 DEF Notify, actor, TypeInv, InboxType
  <1>2. ASSUME NEW i \in Ids, NEW row \in {{}} \cup {{r} : r \in RemoteRows}, WriteRemote(i, row)
        PROVE  TypeInv'
    <2>1. \A b \in Bridges : TableOf(b) = "REMOTE_DPU" => i \in BridgeKeys(b)
      BY Zenon DEF Bridges, TableOf, BridgeKeys
    <2>2. Notify("REMOTE_DPU", i)
      BY <1>2, Zenon DEF WriteRemote
    <2>3. BridgesType'
      BY <2>1, <2>2, NotifyBridges, Zenon DEF TypeInv
    <2>4. remotes' \in [Ids -> SUBSET RemoteRows] /\ UNCHANGED <<dpus, global>>
      BY <1>2 DEF WriteRemote, TypeInv
    <2> QED
      BY <2>2, <2>3, <2>4 DEF Notify, actor, TypeInv, InboxType
  <1>3. ASSUME NEW row \in {{}, {[version |-> events + 2]}}, WriteGlobal(row)
        PROVE  TypeInv'
    <2>1. \A b \in Bridges : TableOf(b) = "GLOBAL" => "global" \in BridgeKeys(b)
      BY Zenon DEF Bridges, TableOf, BridgeKeys
    <2>2. Notify("GLOBAL", "global")
      BY <1>3, Zenon DEF WriteGlobal
    <2>3. BridgesType'
      BY <2>1, <2>2, NotifyBridges, Zenon DEF TypeInv
    <2>4. events \in Nat /\ events < MaxEvents /\ events' = events + 1
      BY <2>2, Zenon DEF Notify, TypeInv
    <2>5. [version |-> events + 2] \in Globals
      BY <2>4, DpuNetworkAssumption DEF Globals
    <2>6. UNCHANGED <<dpus, remotes>> /\ global' \in SUBSET Globals /\ (global' = {} \/ \E g \in Globals : global' = {g})
      BY <1>3, <2>5, Zenon DEF WriteGlobal
    <2> QED
      BY <2>2, <2>3, <2>4, <2>6 DEF Notify, actor, TypeInv, InboxType
  <1>4. ASSUME NEW b \in Bridges, NEW c \in Bridges, NEW new \in Bridge,
               new.found \cup new.changed \subseteq BridgeKeys(b),
               \/ bridges' = [bridges EXCEPT ![b] = new]
               \/ bridges' = [bridges EXCEPT ![b] = new, ![c] = Replaced(@)]
        PROVE  BridgesType'
    <2>1. /\ Replaced(bridges[c]) \in Bridge
          /\ Replaced(bridges[c]).found = bridges[c].found /\ Replaced(bridges[c]).changed = bridges[c].changed
      BY Zenon DEF TypeInv, BridgesType, Bridge, Replaced
    <2>2. Replaced(new) \in Bridge /\ Replaced(new).found = new.found /\ Replaced(new).changed = new.changed
      BY Zenon DEF Bridge, Replaced
    <2>3. bridges' \in [Bridges -> Bridge]
      BY <1>4, <2>1, <2>2, Zenon DEF TypeInv, BridgesType
    <2>4. ASSUME NEW d \in Bridges
          PROVE  bridges'[d].found \cup bridges'[d].changed \subseteq BridgeKeys(d)
      <3>1. bridges'[d] \in {bridges[d], Replaced(bridges[d])} \/ (d = b /\ bridges'[d] \in {new, Replaced(new)})
        BY <1>4, Zenon DEF TypeInv, BridgesType
      <3>2. Replaced(bridges[d]).found = bridges[d].found /\ Replaced(bridges[d]).changed = bridges[d].changed
        BY Zenon DEF TypeInv, BridgesType, Bridge, Replaced
      <3> QED
        BY <1>4, <2>2, <3>1, <3>2, Zenon DEF TypeInv, BridgesType
    <2> QED
      BY <2>3, <2>4, Zenon DEF BridgesType
  <1>5. ASSUME NEW b \in Bridges
        PROVE  /\ On(KeysOf(TableOf(b))) \in Bridge
               /\ On(KeysOf(TableOf(b))).found \cup On(KeysOf(TableOf(b))).changed \subseteq BridgeKeys(b)
               /\ BridgeKeys(b) \subseteq AllKeys
    BY FoundKeys, Zenon DEF On, Bridge, BridgeKeys, AllKeys
  <1>6. CASE Start
    <2>1. TableOf("dpu") = "DPU" /\ "dpu" \in Bridges
      BY Zenon DEF TableOf, Bridges
    <2>2. BridgesType'
      BY <1>4, <1>5, <1>6, <2>1, Zenon DEF Start
    <2> QED
      BY <1>6, <2>2, Zenon DEF Start, db, actor, TypeInv, InboxType
  <1>7. CASE StartRemote
    <2>1. TableOf("creator") = "REMOTE_DPU" /\ "creator" \in Bridges /\ "remote" \in Bridges
      BY Zenon DEF TableOf, Bridges
    <2>2. BridgesType'
      BY <1>4, <1>5, <1>7, <2>1, Zenon DEF StartRemote
    <2> QED
      BY <1>7, <2>2, Zenon DEF StartRemote, db, actor, TypeInv, InboxType
  <1>8. CASE Exit
    <2>1. BridgesType'
      BY <1>8, Zenon DEF Exit, BridgesType, Bridge, Off
    <2>2. InboxType'
      BY <1>8, InboxShrinks, Zenon DEF Exit, TypeInv
    <2>3. told' \in [global : SUBSET Globals, remote : [Ids -> SUBSET RemoteRows]] /\ told'.global = {}
      BY <1>8, Zenon DEF Exit, FreshTold
    <2> QED
      BY <1>8, <2>1, <2>2, <2>3 DEF Exit, db, TypeInv
  <1>9. ASSUME NEW b \in Bridges, NEW k, CanForward(bridges[b], k), bridges' = [bridges EXCEPT ![b] = Forwarded(@, k)]
        PROVE  BridgesType'
    <2>1. /\ Forwarded(bridges[b], k) \in Bridge
          /\ Forwarded(bridges[b], k).found \cup Forwarded(bridges[b], k).changed \subseteq BridgeKeys(b)
      BY DEF Forwarded, TypeInv, BridgesType, Bridge
    <2> QED
      BY <1>4, <1>9, <2>1, Zenon
  <1>10. ASSUME NEW b \in Bridges, NEW k, Forward(b, k)
         PROVE  TypeInv'
    <2>1. BridgesType'
      BY <1>9, <1>10, Zenon DEF Forward
    <2> DEFINE m == Message(b, k)
    <2>2. /\ m \in Messages /\ m.from = b /\ m.key = k /\ k \in BridgeKeys(b)
          /\ b = "remote" => m.row \subseteq RemoteRows
          /\ b = "global" => m.row \subseteq Globals
      BY <1>10, ForwardMessage, Zenon
    <2>3. inbox' = inbox \/ inbox' = Append(inbox, m)
      BY <1>10, Zenon DEF Forward
    <2> HIDE DEF m
    <2>4. InboxType'
      <3>1. CASE inbox' = inbox
        BY <3>1, Zenon DEF TypeInv, InboxType
      <3>2. CASE inbox' = Append(inbox, m)
        <4>1. inbox' \in Seq(Messages) /\ \A n \in DOMAIN inbox' : inbox'[n] = m \/ (n \in DOMAIN inbox /\ inbox'[n] = inbox[n])
          BY <2>2, <3>2, Queue DEF TypeInv, InboxType
        <4> QED
          <5>1. \A n \in DOMAIN inbox' : n \in DOMAIN inbox /\ inbox'[n] = inbox[n] =>
                  /\ inbox'[n].from = "remote" => inbox'[n].key \in Ids /\ inbox'[n].row \subseteq RemoteRows
                  /\ inbox'[n].from = "global" => inbox'[n].key = "global" /\ inbox'[n].row \subseteq Globals
            BY Zenon DEF TypeInv, InboxType
          <5>2. /\ m.from = "remote" => m.key \in Ids /\ m.row \subseteq RemoteRows
                /\ m.from = "global" => m.key = "global" /\ m.row \subseteq Globals
            BY <2>2, Zenon DEF BridgeKeys
          <5> QED
            BY <4>1, <5>1, <5>2, Zenon DEF InboxType
      <3> QED
        BY <2>3, <3>1, <3>2, Zenon
    <2> QED
      BY <1>10, <2>1, <2>4, Zenon DEF Forward, db, TypeInv
  <1>11. ASSUME NEW i \in Ids, ForwardRemote(i)
         PROVE  TypeInv'
    <2>1. BridgesType'
      BY <1>9, <1>11, Zenon DEF ForwardRemote, Bridges
    <2> QED
      BY <1>11, <2>1, Zenon DEF ForwardRemote, db, actor, TypeInv, InboxType
  <1>12. ASSUME NEW b \in Bridges, Quit(b)
         PROVE  TypeInv'
    <2>1. /\ [Off EXCEPT !.run = "quit"] \in Bridge
          /\ [Off EXCEPT !.run = "quit"].found \cup [Off EXCEPT !.run = "quit"].changed \subseteq BridgeKeys(b)
      BY Zenon DEF Off, Bridge
    <2>2. BridgesType'
      BY <1>4, <1>12, <2>1, Zenon DEF Quit
    <2> QED
      BY <1>12, <2>2, Zenon DEF Quit, db, actor, TypeInv, InboxType
  <1>13. CASE HaSetBridge
    <2>1. /\ Replaced(bridges["global"]) \in Bridge
          /\ Replaced(bridges["global"]).found \cup Replaced(bridges["global"]).changed \subseteq BridgeKeys("global")
      BY Zenon DEF TypeInv, BridgesType, Bridge, Replaced, Bridges
    <2>2. BridgesType'
      BY <1>4, <1>13, <2>1, Zenon DEF HaSetBridge, Bridges
    <2> QED
      BY <1>13, <2>2, Zenon DEF HaSetBridge, db, actor, TypeInv, InboxType
  <1>14. CASE HandleDpuDel
    <2>1. BridgesType'
      BY <1>14, Zenon DEF HandleDpuDel, TypeInv, BridgesType, Bridge, Off
    <2>2. InboxType'
      BY <1>14, InboxShrinks, Zenon DEF HandleDpuDel, TypeInv
    <2>3. told' \in [global : SUBSET Globals, remote : [Ids -> SUBSET RemoteRows]] /\ told'.global = {}
      BY <1>14, Zenon DEF HandleDpuDel, FreshTold
    <2> QED
      BY <1>14, <2>1, <2>2, <2>3, Zenon DEF HandleDpuDel, Takes, db, TypeInv
  <1>15. CASE HandleDpu
    <2>1. InboxType'
      BY <1>15, InboxShrinks, Zenon DEF HandleDpu, Takes, TypeInv
    <2>2. UNCHANGED <<db, bridges, told, sessions, events>> /\ spawning' \in {0, 1}
      BY <1>15, Zenon DEF HandleDpu, Takes
    <2> QED
      BY <2>1, <2>2 DEF db, TypeInv, BridgesType
  <1>16. CASE SpawnBridge
    <2>1. PICK b \in Watched : bridges' = [bridges EXCEPT ![b] = On(KeysOf(TableOf(b))),
                                      !["creator"] = IF b = "remote" THEN Replaced(@) ELSE @]
      <3>1. Sequence[spawning] \in Watched
        BY <1>16 DEF SpawnBridge, Sequence, Watched, TypeInv
      <3> QED
        BY <1>16, <3>1, Zenon DEF SpawnBridge
    <2>2. BridgesType'
      <3>1. \/ bridges' = [bridges EXCEPT ![b] = On(KeysOf(TableOf(b)))]
            \/ bridges' = [bridges EXCEPT ![b] = On(KeysOf(TableOf(b))), !["creator"] = Replaced(@)]
        BY <2>1, Zenon DEF TypeInv, BridgesType, Watched
      <3> QED
        BY <1>4, <1>5, <3>1, Zenon DEF Watched, Bridges
    <2>3. spawning' \in 0..2
      BY <1>16 DEF SpawnBridge, Sequence, TypeInv
    <2> QED
      BY <1>16, <2>2, <2>3, Zenon DEF SpawnBridge, db, TypeInv, InboxType
  <1>17. CASE SpawnFails
    BY <1>17 DEF SpawnFails, db, TypeInv, BridgesType, InboxType
  <1>18. ASSUME NEW peers, NEW cfg \in Globals
         PROVE  SetSessions(peers, cfg) \in [Addresses -> SUBSET Globals]
    BY Zenon DEF SetSessions, TypeInv
  <1>19. inbox # <<>> => Head(inbox) = inbox[1] /\ 1 \in DOMAIN inbox /\ Head(inbox) \in Messages
    BY Queue, SeqTail, Zenon DEF TypeInv, InboxType
  <1>20. CASE HandleRemote
    <2>1. InboxType'
      BY <1>20, InboxShrinks, Zenon DEF HandleRemote, Takes, TypeInv
    <2>2. Head(inbox).key \in Ids /\ Head(inbox).row \subseteq RemoteRows
      <3>1. Head(inbox).from = "remote"
        BY <1>19, <1>20, Zenon DEF HandleRemote, Takes, TableOf, Messages
      <3> QED
        BY <1>19, <1>20, <3>1, Zenon DEF HandleRemote, Takes, TypeInv, InboxType
    <2>3. /\ told' \in [global : SUBSET Globals, remote : [Ids -> SUBSET RemoteRows]]
          /\ told'.global = told.global
      BY <1>20, <2>2, Zenon DEF HandleRemote, TypeInv
    <2>4. sessions' \in [Addresses -> SUBSET Globals]
      <3>1. CASE told.global = {}
        BY <1>20, <3>1, Zenon DEF HandleRemote, TypeInv
      <3>2. CASE told.global # {}
        <4>1. (CHOOSE g \in told.global : TRUE) \in Globals
          BY <3>2, Zenon DEF TypeInv
        <4> QED
          BY <1>18, <1>20, <3>2, <4>1, Zenon DEF HandleRemote, TypeInv
      <3> QED
        BY <3>1, <3>2, Zenon
    <2>5. UNCHANGED <<db, bridges, spawning, events>>
      BY <1>20, Zenon DEF HandleRemote, Takes
    <2> QED
      BY <2>1, <2>3, <2>4, <2>5, Zenon DEF db, TypeInv, BridgesType
  <1>21. CASE HandleGlobal
    <2> DEFINE cfg == IF Head(inbox).row = {} THEN Deleted ELSE CHOOSE g \in Head(inbox).row : TRUE
    <2>1. InboxType'
      BY <1>21, InboxShrinks, Zenon DEF HandleGlobal, Takes, TypeInv
    <2>2. cfg \in Globals
      <3>1. Head(inbox).from = "global"
        BY <1>19, <1>21, Zenon DEF HandleGlobal, Takes, TableOf, Messages
      <3>2. Head(inbox).row \subseteq Globals
        BY <1>19, <1>21, <3>1, Zenon DEF HandleGlobal, Takes, TypeInv, InboxType
      <3>3. Deleted \in Globals
        BY DpuNetworkAssumption DEF Deleted, Globals
      <3> QED
        BY <3>2, <3>3, Zenon
    <2>3. told' = [told EXCEPT !.global = {cfg}]
      BY <1>21, Zenon DEF HandleGlobal
    <2>4. \/ sessions' = sessions
          \/ sessions' = SetSessions(Peers(UNION {told.remote[i] : i \in Ids}), cfg)
      BY <1>21, Zenon DEF HandleGlobal
    <2> HIDE DEF cfg
    <2>5. told' \in [global : SUBSET Globals, remote : [Ids -> SUBSET RemoteRows]] /\ told'.global = {cfg}
      BY <2>2, <2>3, Zenon DEF TypeInv
    <2>6. sessions' \in [Addresses -> SUBSET Globals]
      BY <1>18, <2>2, <2>4 DEF TypeInv
    <2>7. UNCHANGED <<db, bridges, spawning, events>>
      BY <1>21, Zenon DEF HandleGlobal, Takes
    <2> QED
      BY <2>1, <2>2, <2>5, <2>6, <2>7, Zenon DEF db, TypeInv, BridgesType
  <1>22. CASE UNCHANGED vars
    BY <1>22, Zenon DEF vars, db, actor, TypeInv, BridgesType, InboxType
  <1> QED
    BY <1>1, <1>2, <1>3, <1>6, <1>7, <1>8, <1>10, <1>11, <1>12, <1>13, <1>14, <1>15, <1>16, <1>17,
       <1>20, <1>21, <1>22, Zenon
    DEF Next, Operator, BridgeTasks, DpuActor

-----------------------------------------------------------------------------
\* The first message, and who sent it.
LEMMA HeadOfInbox ==
    ASSUME TypeInv, NEW table, Takes(table)
    PROVE  /\ Head(inbox) = inbox[1] /\ 1 \in DOMAIN inbox
           /\ TableOf(Head(inbox).from) = table /\ Head(inbox).from \in {"dpu", "global", "remote"}
  <1>1. inbox # <<>> /\ inbox \in Seq(Messages)
    BY Zenon DEF TypeInv, InboxType, Takes
  <1>2. Head(inbox) \in Messages
    BY <1>1, SeqTail, Zenon
  <1>3. Head(inbox) = inbox[1] /\ 1 \in DOMAIN inbox
    BY <1>1, Queue, Zenon
  <1> QED
    BY <1>2, <1>3, Zenon DEF Takes, Messages

\* Every step keeps what belongs to the actor's life.
LEMMA NextLifeInv ==
    ASSUME TypeInv, LifeInv, [Next]_vars
    PROVE  LifeInv'
  <1> DEFINE Stays == /\ \A b \in Watched : bridges[b].run = "off" => bridges'[b].run = "off"
                      /\ UNCHANGED <<actor, loopback>>
  <1>0. Stays => LifeInv'
    BY DEF LifeInv, actor, FreshTold
  <1>1. ASSUME NEW table, NEW k, Notify(table, k)
        PROVE  Stays
    <2>1. \A b \in Bridges : bridges'[b].run = bridges[b].run
      BY <1>1 DEF Notify, TypeInv, BridgesType, Bridge
    <2> QED
      BY <1>1, <2>1, Zenon DEF Notify, Watched, Bridges
  <1>2. CASE Operator
    BY <1>0, <1>1, <1>2, Zenon DEF Operator, WriteDpu, WriteRemote, WriteGlobal
  <1>3. CASE Start \/ StartRemote \/ HaSetBridge
    <2>1. Stays
      BY <1>3 DEF Start, StartRemote, HaSetBridge, Replaced, Watched, Bridges, db, TypeInv, BridgesType, Bridge
    <2> QED
      BY <1>0, <2>1, Zenon
  <1>4. CASE Exit
    <2>1. \A b \in Watched : bridges'[b].run = "off"
      BY <1>4, Zenon DEF Exit, Watched, Bridges, Off
    <2>2. DOMAIN inbox' = {}
      BY <1>4, SeqEmpty, Zenon DEF Exit
    <2> QED
      BY <1>4, <2>1, <2>2, Zenon DEF Exit, LifeInv, FreshTold
  <1>5. ASSUME NEW b \in Bridges, NEW k, Forward(b, k)
        PROVE  LifeInv'
    <2>1. \A c \in Watched : bridges'[c].run = bridges[c].run
      BY <1>5 DEF Forward, Forwarded, Watched, Bridges, TypeInv, BridgesType, Bridge
    <2>2. UNCHANGED <<loopback, told, steady, spawning>>
      BY <1>5, Zenon DEF Forward, db
    <2>3. dpu' = dpu \/ (dpu = "absent" /\ dpu' = "none")
      BY <1>5, Zenon DEF Forward
    <2>4. ASSUME dpu' \in {"absent", "none", "stopped"}
          PROVE  \A n \in DOMAIN inbox' : inbox'[n].from = "dpu"
      <3>1. dpu \in {"absent", "none", "stopped"}
        BY <2>3, <2>4, Zenon
      <3>2. b \notin Watched
        BY <1>5, <3>1, ForwardMessage, Zenon DEF LifeInv, Running
      <3>3. Message(b, k) \in Messages /\ Message(b, k).from = "dpu"
        BY <1>5, <3>2, ForwardMessage DEF Watched, Bridges
      <3>4. inbox' = inbox \/ inbox' = Append(inbox, Message(b, k))
        BY <1>5, Zenon DEF Forward
      <3>5. \A n \in DOMAIN inbox : inbox[n].from = "dpu"
        BY <3>1, Zenon DEF LifeInv
      <3>6. CASE inbox' = Append(inbox, Message(b, k))
        <4>0. inbox \in Seq(Messages)
          BY Zenon DEF TypeInv, InboxType
        <4> DEFINE m == Message(b, k)
        <4>1. /\ DOMAIN inbox = 1..Len(inbox) /\ Len(inbox) \in Nat
              /\ DOMAIN inbox' = 1..(Len(inbox) + 1)
              /\ \A n \in 1..Len(inbox) : inbox'[n] = inbox[n]
              /\ inbox'[Len(inbox) + 1] = m
          <5> HIDE DEF m
          <5>1. m \in Messages /\ inbox' = Append(inbox, m)
            BY <3>3, <3>6, Zenon DEF m
          <5> QED
            BY <4>0, <5>1, Queue
        <4>2. m.from = "dpu"
          BY <3>3, Zenon
        <4> HIDE DEF m
        <4> QED
          BY <3>5, <4>1, <4>2
      <3> QED
        BY <3>4, <3>5, <3>6, Zenon
    <2> QED
      BY <2>1, <2>2, <2>3, <2>4, Zenon DEF LifeInv, FreshTold
  <1>6. ASSUME NEW i \in Ids, ForwardRemote(i)
        PROVE  LifeInv'
    <2>1. Stays
      BY <1>6, Zenon DEF ForwardRemote, Watched, Bridges, db, TypeInv, BridgesType
    <2> QED
      BY <1>0, <2>1, Zenon
  <1>7. ASSUME NEW b \in Bridges, Quit(b)
        PROVE  LifeInv'
    <2>1. Stays
      BY <1>7, Zenon DEF Quit, Watched, Bridges, db, TypeInv, BridgesType
    <2> QED
      BY <1>0, <2>1, Zenon
  <1>8. CASE HandleDpuDel
    <2>1. \A b \in Watched : bridges'[b].run = "off"
      BY <1>8, Zenon DEF HandleDpuDel, Watched, Bridges, Off
    <2>2. DOMAIN inbox' = {}
      BY <1>8, SeqEmpty, Zenon DEF HandleDpuDel
    <2> QED
      BY <1>8, <2>1, <2>2, Zenon DEF HandleDpuDel, Takes, LifeInv, FreshTold
  <1>9. CASE HandleDpu
    <2>1. UNCHANGED <<loopback, bridges, told>>
      BY <1>9, Zenon DEF HandleDpu, Takes, db
    <2>2. \A n \in DOMAIN inbox' : n + 1 \in DOMAIN inbox /\ inbox'[n] = inbox[n + 1]
      BY <1>9, Queue DEF HandleDpu, Takes, TypeInv, InboxType
    <2>3. \/ UNCHANGED <<dpu, steady, spawning>>
          \/ /\ loopback \cap V4 # {} /\ dpu' \in {"managed", "other"}
             /\ steady' => dpu' = "managed"
             /\ spawning' # 0 => dpu' = "managed"
      BY <1>9, Zenon DEF HandleDpu
    <2> QED
      BY <2>1, <2>2, <2>3 DEF LifeInv, FreshTold
  <1>10. CASE SpawnBridge \/ SpawnFails
    BY <1>10, Zenon DEF SpawnBridge, SpawnFails, db, LifeInv
  <1>11. CASE HandleRemote \/ HandleGlobal
    <2>1. Head(inbox) = inbox[1] /\ 1 \in DOMAIN inbox /\ Head(inbox).from # "dpu"
      BY <1>11, HeadOfInbox DEF HandleRemote, HandleGlobal, TableOf
    <2>2. dpu \notin {"absent", "none", "stopped"}
      BY <2>1, Zenon DEF LifeInv
    <2> QED
      BY <1>11, <2>2 DEF HandleRemote, HandleGlobal, Takes, db, LifeInv
  <1>12. CASE UNCHANGED vars
    BY <1>12, Zenon DEF vars, db, actor, LifeInv, FreshTold
  <1> QED
    BY <1>2, <1>3, <1>4, <1>5, <1>6, <1>7, <1>8, <1>9, <1>10, <1>11, <1>12, Zenon
    DEF Next, BridgeTasks, DpuActor

\* Every step keeps the actor's bridges up to date.
LEMMA NextBridgesInv ==
    ASSUME TypeInv, LifeInv, BridgesInv, [Next]_vars
    PROVE  BridgesInv'
  <1> DEFINE Keeps(b) == /\ bridges'[b].run = "on" => bridges[b].run = "on"
                         /\ bridges[b].found \subseteq bridges'[b].found
                         /\ bridges[b].changed \subseteq bridges'[b].changed
  <1>1. ASSUME NEW b \in Watched, bridges'[b].run = "on", NEW k \in BridgeKeys(b), Present(b, k)' # {},
               Keeps(b), UNCHANGED <<inbox, told>>, Present(b, k)' = Present(b, k)
        PROVE  UpToDate(b, k)'
    <2>1. UpToDate(b, k)
      BY <1>1, Zenon DEF BridgesInv
    <2>2. Mentions(b, k)' = Mentions(b, k) /\ Told(b, k)' = Told(b, k)
      BY <1>1, Zenon DEF Mentions, Told
    <2>3. k \in bridges[b].found \cup bridges[b].changed => k \in bridges'[b].found \cup bridges'[b].changed
      BY <1>1, Zenon
    <2>4. inbox' = inbox /\ Present(b, k)' = Present(b, k)
      BY <1>1, Zenon
    <2> QED
      BY <2>1, <2>2, <2>3, <2>4, Zenon DEF UpToDate
  <1>2. ASSUME \A b \in Watched : Keeps(b), UNCHANGED <<inbox, told, global, remotes>>
        PROVE  BridgesInv'
    <2>1. \A b, k : Present(b, k)' = Present(b, k)
      BY <1>2, Zenon DEF Present
    <2> QED
      BY <1>1, <1>2, <2>1, Zenon DEF BridgesInv
  <1>3. ASSUME NEW table, NEW key, Notify(table, key)
        PROVE  /\ \A b \in Watched : Keeps(b)
               /\ \A b \in Watched : bridges'[b].run = "on" /\ TableOf(b) = table => key \in bridges'[b].changed
               /\ UNCHANGED <<inbox, told>>
    BY <1>3 DEF Notify, Watched, Bridges, TypeInv, BridgesType, Bridge, Running, actor
  <1>4. ASSUME NEW k \in Keys, NEW row, WriteDpu(k, row)
        PROVE  BridgesInv'
    BY <1>2, <1>3, <1>4, Zenon DEF WriteDpu
  <1>5. ASSUME NEW i \in Ids, NEW row, WriteRemote(i, row)
        PROVE  BridgesInv'
    <2> SUFFICES ASSUME NEW b \in Watched, bridges'[b].run = "on", NEW k \in BridgeKeys(b), Present(b, k)' # {}
                 PROVE  UpToDate(b, k)'
      BY Zenon DEF BridgesInv
    <2>1. Notify("REMOTE_DPU", i)
      BY <1>5, Zenon DEF WriteRemote
    <2>2. CASE b = "remote" /\ k = i
      BY <1>3, <2>1, <2>2, Zenon DEF UpToDate, TableOf
    <2>3. CASE ~(b = "remote" /\ k = i)
      <3>1. Present(b, k)' = Present(b, k)
        BY <1>5, <2>3, Zenon DEF WriteRemote, Present, Watched, BridgeKeys, TypeInv
      <3> QED
        BY <1>1, <1>3, <2>1, <3>1, Zenon
    <2> QED
      BY <2>2, <2>3, Zenon
  <1>6. ASSUME NEW row, WriteGlobal(row)
        PROVE  BridgesInv'
    <2> SUFFICES ASSUME NEW b \in Watched, bridges'[b].run = "on", NEW k \in BridgeKeys(b), Present(b, k)' # {}
                 PROVE  UpToDate(b, k)'
      BY Zenon DEF BridgesInv
    <2>1. Notify("GLOBAL", "global")
      BY <1>6, Zenon DEF WriteGlobal
    <2>2. CASE b = "global"
      BY <1>3, <2>1, <2>2, Zenon DEF UpToDate, TableOf, BridgeKeys
    <2>3. CASE b = "remote"
      <3>1. Present(b, k)' = Present(b, k)
        BY <1>6, <2>3, Zenon DEF WriteGlobal, Present
      <3> QED
        BY <1>1, <1>3, <2>1, <3>1, Zenon
    <2> QED
      BY <2>2, <2>3, Zenon DEF Watched
  <1>7. CASE Start \/ StartRemote \/ HaSetBridge
    <2>1. \A b \in Watched : Keeps(b)
      <3>1. CASE Start
        BY <3>1, Zenon DEF Start, Watched, Bridges, TypeInv, BridgesType, Bridge
      <3>2. CASE StartRemote
        BY <3>2 DEF StartRemote, Replaced, Watched, Bridges, TypeInv, BridgesType, Bridge
      <3>3. CASE HaSetBridge
        BY <3>3 DEF HaSetBridge, Replaced, Watched, Bridges, TypeInv, BridgesType, Bridge
      <3> QED
        BY <1>7, <3>1, <3>2, <3>3, Zenon
    <2> QED
      BY <1>2, <1>7, <2>1, Zenon DEF Start, StartRemote, HaSetBridge, db, actor
  <1>8. CASE Exit \/ HandleDpuDel
    <2>1. \A b \in Watched : bridges'[b] = Off
      <3>1. CASE Exit
        BY <3>1, Zenon DEF Exit, Watched, Bridges
      <3>2. CASE HandleDpuDel
        BY <3>2, Zenon DEF HandleDpuDel, Watched, Bridges
      <3> QED
        BY <1>8, <3>1, <3>2, Zenon
    <2> QED
      BY <2>1 DEF BridgesInv, Off
  <1>9. ASSUME NEW c \in Bridges, NEW key, Forward(c, key)
        PROVE  BridgesInv'
    <2> SUFFICES ASSUME NEW b \in Watched, bridges'[b].run = "on", NEW k \in BridgeKeys(b), Present(b, k)' # {}
                 PROVE  UpToDate(b, k)'
      BY Zenon DEF BridgesInv
    <2>1. bridges'[b].run = bridges[b].run
      BY <1>9 DEF Forward, Forwarded, Watched, Bridges, TypeInv, BridgesType, Bridge
    <2>2. UNCHANGED <<told, global, remotes>>
      BY <1>9, Zenon DEF Forward, db
    <2>3. UpToDate(b, k)
      BY <2>1, <2>2, Zenon DEF BridgesInv, Present
    <2>4. dpu \notin {"absent", "stopped"}
      BY <2>1, Zenon DEF LifeInv
    <2>5. inbox' = Append(inbox, Message(c, key))
      BY <1>9, <2>4, Zenon DEF Forward
    <2>6. /\ Message(c, key) \in Messages /\ Message(c, key).from = c /\ Message(c, key).key = key
          /\ c \in Watched => Message(c, key).row = Present(c, key)
      BY <1>9, ForwardMessage, Zenon
    <2>7. ~(c = b /\ key = k) =>
            (k \in bridges[b].found \cup bridges[b].changed => k \in bridges'[b].found \cup bridges'[b].changed)
      BY <1>9 DEF Forward, Forwarded, Watched, Bridges, TypeInv, BridgesType, Bridge
    <2> QED
      BY <2>2, <2>3, <2>5, <2>6, <2>7, ForwardUpToDate
  <1>10. ASSUME NEW i \in Ids, ForwardRemote(i)
         PROVE  BridgesInv'
    <2>1. \A b \in Watched : Keeps(b)
      BY <1>10, Zenon DEF ForwardRemote, Watched, Bridges, TypeInv, BridgesType
    <2> QED
      BY <1>2, <1>10, <2>1, Zenon DEF ForwardRemote, db, actor
  <1>11. ASSUME NEW c \in Bridges, Quit(c)
         PROVE  BridgesInv'
    <2> SUFFICES ASSUME NEW b \in Watched, bridges'[b].run = "on", NEW k \in BridgeKeys(b), Present(b, k)' # {}
                 PROVE  UpToDate(b, k)'
      BY Zenon DEF BridgesInv
    <2>1. bridges'[b] = bridges[b]
      BY <1>11, Zenon DEF Quit, Watched, Bridges, TypeInv, BridgesType, Off
    <2> QED
      BY <1>1, <1>11, <2>1, Zenon DEF Quit, db, actor, Present
  <1>12. ASSUME NEW table, Takes(table), inbox' = Tail(inbox), UNCHANGED <<bridges, global, remotes>>,
                \A b \in Watched : \A k \in BridgeKeys(b) :
                  IF Head(inbox).from = b /\ Head(inbox).key = k
                  THEN Head(inbox).row = Present(b, k) /\ Present(b, k) # {} => Told(b, k)' = Present(b, k)
                  ELSE Told(b, k)' = Told(b, k)
         PROVE  BridgesInv'
    <2> SUFFICES ASSUME NEW b \in Watched, bridges'[b].run = "on", NEW k \in BridgeKeys(b), Present(b, k)' # {}
                 PROVE  UpToDate(b, k)'
      BY Zenon DEF BridgesInv
    <2>1. Present(b, k) # {}
      BY <1>12, Zenon DEF Present
    <2>2. UpToDate(b, k)
      BY <1>12, <2>1, Zenon DEF BridgesInv
    <2>3. inbox # <<>>
      BY <1>12, Zenon DEF Takes
    <2>4. IF Head(inbox).from = b /\ Head(inbox).key = k
          THEN Head(inbox).row = Present(b, k) => Told(b, k)' = Present(b, k)
          ELSE Told(b, k)' = Told(b, k)
      BY <1>12, <2>1, Zenon
    <2> QED
      BY <1>12, <2>2, <2>3, <2>4, HandleUpToDate, Zenon
  <1>13. CASE HandleDpu
    <2>1. Takes("DPU") /\ inbox' = Tail(inbox) /\ UNCHANGED <<bridges, told, global, remotes>>
      BY <1>13, Zenon DEF HandleDpu, Takes, db
    <2>2. Head(inbox).from \notin Watched
      BY <2>1, HeadOfInbox DEF TableOf, Watched
    <2>3. \A b \in Watched : \A k \in BridgeKeys(b) : Told(b, k)' = Told(b, k)
      BY <2>1, Zenon DEF Told
    <2> QED
      BY <1>12, <2>1, <2>2, <2>3, Zenon
  <1>14. CASE SpawnBridge
    <2> SUFFICES ASSUME NEW b \in Watched, bridges'[b].run = "on", NEW k \in BridgeKeys(b), Present(b, k)' # {}
                 PROVE  UpToDate(b, k)'
      BY Zenon DEF BridgesInv
    <2>1. UNCHANGED <<inbox, told, global, remotes>>
      BY <1>14, Zenon DEF SpawnBridge, db
    <2>2. Present(b, k)' = Present(b, k)
      BY <2>1, Zenon DEF Present
    <2>3. Sequence[spawning] \in Watched
      BY <1>14 DEF SpawnBridge, Sequence, Watched, TypeInv
    <2>4. bridges'[b] = IF b = Sequence[spawning] THEN On(KeysOf(TableOf(b))) ELSE bridges[b]
      BY <1>14, <2>3, Zenon DEF SpawnBridge, Watched, Bridges, TypeInv, BridgesType
    <2>5. CASE b = Sequence[spawning]
      <3>1. k \in KeysOf(TableOf(b))
        BY <2>2, FoundKeys, Zenon DEF Watched, Bridges
      <3> QED
        BY <2>4, <2>5, <3>1 DEF UpToDate, On
    <2>6. CASE b # Sequence[spawning]
      BY <1>1, <2>1, <2>2, <2>4, <2>6, SMTT(30)
    <2> QED
      BY <2>5, <2>6, Zenon
  <1>15. CASE SpawnFails
    BY <1>2, <1>15, Zenon DEF SpawnFails, db
  <1>16. CASE HandleRemote
    <2>1. /\ Takes("REMOTE_DPU") /\ inbox' = Tail(inbox) /\ UNCHANGED <<bridges, global, remotes>>
          /\ told' = [told EXCEPT !.remote[Head(inbox).key] = Head(inbox).row]
      BY <1>16, Zenon DEF HandleRemote, Takes, db
    <2>2. Head(inbox).from = "remote"
      BY <2>1, HeadOfInbox DEF TableOf
    <2>3. told'.global = told.global /\ told'.remote = [told.remote EXCEPT ![Head(inbox).key] = Head(inbox).row]
      BY <2>1, Zenon DEF TypeInv
    <2>4. \A k \in Ids : told'.remote[k] = IF k = Head(inbox).key THEN Head(inbox).row ELSE told.remote[k]
      BY <2>3, Zenon DEF TypeInv
    <2>5. ASSUME NEW b \in Watched, NEW k \in BridgeKeys(b)
          PROVE  IF Head(inbox).from = b /\ Head(inbox).key = k
                 THEN Head(inbox).row = Present(b, k) /\ Present(b, k) # {} => Told(b, k)' = Present(b, k)
                 ELSE Told(b, k)' = Told(b, k)
      BY <2>2, <2>3, <2>4, Zenon DEF Watched, BridgeKeys, Told
    <2> QED
      BY <1>12, <2>1, <2>5, Zenon
  <1>17. CASE HandleGlobal
    <2> DEFINE cfg == IF Head(inbox).row = {} THEN Deleted ELSE CHOOSE g \in Head(inbox).row : TRUE
    <2>1. /\ Takes("GLOBAL") /\ inbox' = Tail(inbox) /\ UNCHANGED <<bridges, global, remotes>>
          /\ told' = [told EXCEPT !.global = {cfg}]
      BY <1>17, Zenon DEF HandleGlobal, Takes, db
    <2>2. Head(inbox).from = "global"
      BY <2>1, HeadOfInbox DEF TableOf
    <2>3. Head(inbox).row = global /\ global # {} => {cfg} = global
      BY Zenon DEF TypeInv
    <2> HIDE DEF cfg
    <2>4. told'.global = {cfg} /\ told'.remote = told.remote
      BY <2>1, Zenon DEF TypeInv
    <2>5. Head(inbox).key = "global"
      BY <2>1, <2>2, HeadOfInbox, Zenon DEF TypeInv, InboxType
    <2>6. ASSUME NEW b \in Watched, NEW k \in BridgeKeys(b)
          PROVE  IF Head(inbox).from = b /\ Head(inbox).key = k
                 THEN Head(inbox).row = Present(b, k) /\ Present(b, k) # {} => Told(b, k)' = Present(b, k)
                 ELSE Told(b, k)' = Told(b, k)
      BY <2>2, <2>3, <2>4, <2>5, Zenon DEF Watched, BridgeKeys, Told, Present
    <2> QED
      BY <1>12, <2>1, <2>6, Zenon
  <1>18. CASE UNCHANGED vars
    BY <1>2, <1>18, Zenon DEF vars, db, actor
  <1> QED
    BY <1>4, <1>5, <1>6, <1>7, <1>8, <1>9, <1>10, <1>11, <1>13, <1>14, <1>15, <1>16, <1>17, <1>18, Zenon
    DEF Next, Operator, BridgeTasks, DpuActor

\* The peers of an actor that has taken a row have addresses of the network.
LEMMA PeersAddresses ==
    ASSUME TypeInv, NEW rows \in SUBSET RemoteRows
    PROVE  /\ \A r \in rows : Decodes(r) => Npu(r.addrs) \in Addresses
           /\ loopback \cap V4 # {} => Peers(rows) \subseteq Addresses
  <1>1. ASSUME NEW addrs \in Loopbacks \cup {r.addrs : r \in RemoteRows}, addrs \cap V4 # {}
        PROVE  Npu(addrs) \in Addresses
    <2>1. Npu(addrs) \in addrs
      BY <1>1, Zenon DEF Npu
    <2> QED
      BY <2>1, DpuNetworkAssumption, Zenon
  <1>2. \A r \in rows : Decodes(r) => Npu(r.addrs) \in Addresses
    BY <1>1, Zenon DEF Decodes
  <1>3. loopback \cap V4 # {} => Npu(loopback) \in Addresses
    BY <1>1, Zenon DEF TypeInv
  <1> QED
    BY <1>2, <1>3, Zenon DEF Peers

\* Every step keeps the sessions those of what the actor was told.
LEMMA NextSessionsInv ==
    ASSUME TypeInv, LifeInv, SessionsInv, [Next]_vars
    PROVE  SessionsInv'
  <1>1. CASE UNCHANGED <<loopback, steady, told, sessions>>
    BY <1>1 DEF SessionsInv, Peers, Npu
  <1>2. CASE ~steady'
    BY <1>2, Zenon DEF SessionsInv
  <1>3. CASE HandleDpu
    <2>1. UNCHANGED <<loopback, told, sessions>>
      BY <1>3, Zenon DEF HandleDpu, Takes, db
    <2>2. steady' => steady \/ dpu = "none"
      BY <1>3, Zenon DEF HandleDpu
    <2>3. dpu = "none" => told.global = {}
      BY DEF LifeInv, FreshTold
    <2> QED
      BY <2>1, <2>2, <2>3 DEF SessionsInv, Peers, Npu
  <1>4. ASSUME steady
        PROVE  dpu = "managed" /\ loopback \cap V4 # {}
    BY <1>4, Zenon DEF LifeInv
  <1>5. CASE HandleRemote /\ steady /\ told.global # {}
    <2> DEFINE k == Head(inbox).key
               row == Head(inbox).row
               new == {Npu(r.addrs) : r \in {x \in row : Decodes(x)}}
               cfg == CHOOSE g \in told.global : TRUE
    <2>1. Takes("REMOTE_DPU") /\ told' = [told EXCEPT !.remote[k] = row] /\ UNCHANGED <<loopback, steady>>
      BY <1>5, Zenon DEF HandleRemote, Takes, db
    <2>2. Head(inbox).from = "remote"
      BY <2>1, HeadOfInbox DEF TableOf
    <2>3. k \in Ids /\ row \in SUBSET RemoteRows
      BY <2>1, <2>2, HeadOfInbox, Zenon DEF TypeInv, InboxType
    <2>4. told'.global = told.global /\ \A i \in Ids : told'.remote[i] = row \/ told'.remote[i] = told.remote[i]
      BY <2>1, <2>3, Zenon DEF TypeInv
    <2>5. told.global = {cfg}
      BY <1>5, Zenon DEF TypeInv
    <2>6. (sessions' = sessions /\ new = {}) \/ sessions' = SetSessions(new, cfg)
      BY <1>5, Zenon DEF HandleRemote
    <2>7. new \subseteq Addresses
      BY <2>3, PeersAddresses, Zenon
    <2>8. Peers(UNION {told.remote[i] : i \in Ids}) \subseteq Addresses
      <3>1. UNION {told.remote[i] : i \in Ids} \in SUBSET RemoteRows
        BY DEF TypeInv
      <3> QED
        BY <1>4, <1>5, <3>1, PeersAddresses, Zenon
    <2>9. Peers(UNION {told.remote[i] : i \in Ids})' \subseteq Peers(UNION {told.remote[i] : i \in Ids}) \cup new
      BY <2>1, <2>4 DEF Peers, Npu
    <2>10. \A a \in Peers(UNION {told.remote[i] : i \in Ids}) : sessions[a] = told.global
      BY <1>5, Zenon DEF SessionsInv
    <2> HIDE DEF new, cfg, row, k
    <2>11. ASSUME NEW a \in Peers(UNION {told.remote[i] : i \in Ids}) \cup new
           PROVE  sessions'[a] = told.global
      <3>1. a \in Addresses
        BY <2>7, <2>8, Zenon
      <3> QED
        BY <2>5, <2>6, <2>10, <3>1, Zenon DEF SetSessions
    <2> QED
      BY <2>4, <2>9, <2>11, Zenon DEF SessionsInv
  <1>6. CASE HandleRemote /\ told.global = {}
    <2>1. told'.global = told.global
      BY <1>6, Zenon DEF HandleRemote, TypeInv
    <2> QED
      BY <1>6, <2>1, Zenon DEF SessionsInv
  <1>7. CASE HandleGlobal /\ steady
    <2> DEFINE cfg == IF Head(inbox).row = {} THEN Deleted ELSE CHOOSE g \in Head(inbox).row : TRUE
               peers == Peers(UNION {told.remote[i] : i \in Ids})
    <2>1. /\ told' = [told EXCEPT !.global = {cfg}] /\ UNCHANGED <<loopback, steady>>
          /\ sessions' = SetSessions(peers, cfg)
      BY <1>4, <1>7, Zenon DEF HandleGlobal, Takes, db
    <2>2. peers \subseteq Addresses
      <3>1. UNION {told.remote[i] : i \in Ids} \in SUBSET RemoteRows
        BY DEF TypeInv
      <3> QED
        BY <1>4, <1>7, <3>1, PeersAddresses, Zenon
    <2> HIDE DEF cfg
    <2>3. told'.global = {cfg} /\ told'.remote = told.remote
      BY <2>1, Zenon DEF TypeInv
    <2>4. Peers(UNION {told.remote[i] : i \in Ids})' = peers
      BY <2>1, <2>3, Zenon DEF Peers, Npu
    <2>5. \A a \in peers : sessions'[a] = {cfg}
      BY <2>1, <2>2, Zenon DEF SetSessions
    <2> QED
      BY <2>3, <2>4, <2>5, Zenon DEF SessionsInv
  <1>8. CASE (HandleRemote \/ HandleGlobal) /\ ~steady
    BY <1>2, <1>8 DEF HandleRemote, HandleGlobal
  <1> QED
    BY <1>1, <1>2, <1>3, <1>5, <1>6, <1>7, <1>8
    DEF Next, Operator, WriteDpu, WriteRemote, WriteGlobal, Notify, Start, StartRemote, Exit,
        BridgeTasks, Forward, ForwardRemote, Quit, HaSetBridge, DpuActor, HandleDpuDel,
        SpawnBridge, SpawnFails, vars, db, actor

-----------------------------------------------------------------------------
\* The inductive invariant holds in every state.
THEOREM NetworkInvariant == Spec => []NetworkInv
  <1>1. NetworkInv /\ [Next]_vars => NetworkInv'
    BY NextTypeInv, NextLifeInv, NextBridgesInv, NextSessionsInv, Zenon DEF NetworkInv
  <1> QED
    BY <1>1, InitNetworkInv, PTL DEF Spec

\* For any number of NPUs, DPU rows, changes and restarts, and any order of the
\* global config, of the REMOTE_DPU rows and of the bridges, a managed DPU actor
\* that has caught up has a BFD session with the present global config to every
\* NPU of the tables.
THEOREM SessionsCurrentAlways == Spec => []SessionsCurrent
  <1>1. NetworkInv => SessionsCurrent
    <2> SUFFICES ASSUME NetworkInv, steady, inbox = <<>>,
                        Watches("global"), Watches("remote"), Silent("global"), Silent("remote"),
                        NEW g \in global, NEW a \in Peers(UNION {remotes[i] : i \in Ids})
                 PROVE  sessions[a] = {g}
      BY Zenon DEF SessionsCurrent, SessionsOfTables
    <2>1. \A b, k : Mentions(b, k) = {}
      BY SeqEmpty, Zenon DEF Mentions
    <2>2. \A b \in Watched : \A k \in BridgeKeys(b) : Present(b, k) # {} => Told(b, k) = Present(b, k)
      BY <2>1, Zenon DEF NetworkInv, BridgesInv, UpToDate, Watched, Watches, Silent
    <2>3. global = {g} /\ told.global = {g}
      <3>1. told.global = global
        BY <2>2, Zenon DEF Watched, BridgeKeys, Present, Told
      <3>2. \E h \in Globals : global = {h}
        BY Zenon DEF NetworkInv, TypeInv
      <3> QED
        BY <3>1, <3>2, Zenon
    <2>4. \A i \in Ids : remotes[i] = {} \/ told.remote[i] = remotes[i]
      BY <2>2, Zenon DEF Watched, BridgeKeys, Present, Told
    <2>5. a \in Peers(UNION {told.remote[i] : i \in Ids})
      BY <2>4 DEF Peers
    <2> QED
      BY <2>3, <2>5, Zenon DEF NetworkInv, SessionsInv
  <1> QED
    BY <1>1, NetworkInvariant, PTL
-----------------------------------------------------------------------------
\* Every step keeps the rows.
LEMMA NextRowsInv ==
    ASSUME NetworkInv, RowsInv, [Next]_vars
    PROVE  RowsInv'
  <1>0. TypeInv
    BY Zenon DEF NetworkInv
  <1>1. ASSUME NEW k \in Keys, NEW row \in {{}} \cup {{r} : r \in DpuRows}, WriteDpu(k, row)
        PROVE  RowsInv'
    <2>1. dpus' \in [Keys -> RowsOrNone(DpuRows)] /\ UNCHANGED remotes
      BY <1>1, Zenon DEF WriteDpu, RowsInv, RowsOrNone
    <2>2. PICK table : Notify(table, k)
      BY <1>1, Zenon DEF WriteDpu
    <2> QED
      BY <1>0, <2>1, <2>2, DpuNetworkAssumption DEF Notify, actor, RowsInv, TypeInv
  <1>2. ASSUME NEW i \in Ids, NEW row \in {{}} \cup {{r} : r \in RemoteRows}, WriteRemote(i, row)
        PROVE  RowsInv'
    <2>1. remotes' \in [Ids -> RowsOrNone(RemoteRows)] /\ UNCHANGED dpus
      BY <1>2, Zenon DEF WriteRemote, RowsInv, RowsOrNone
    <2>2. Notify("REMOTE_DPU", i)
      BY <1>2, Zenon DEF WriteRemote
    <2> QED
      BY <1>0, <2>1, <2>2, DpuNetworkAssumption DEF Notify, actor, RowsInv, TypeInv
  <1>3. ASSUME NEW row, WriteGlobal(row)
        PROVE  RowsInv'
    <2>1. Notify("GLOBAL", "global") /\ UNCHANGED <<dpus, remotes>>
      BY <1>3, Zenon DEF WriteGlobal
    <2> QED
      BY <1>0, <2>1, DpuNetworkAssumption DEF Notify, actor, RowsInv, TypeInv
  <1>4. FreshTold.remote \in [Ids -> RowsOrNone(RemoteRows)]
    BY Zenon DEF FreshTold, RowsOrNone
  <1>5. CASE Exit
    <2>1. remoteActors' \in [Ids -> RemoteActorType]
      BY <1>5, Zenon DEF Exit, NoActor, RemoteActorType, RowsOrNone
    <2>2. DOMAIN inbox' = {}
      BY <1>5, SeqEmpty, Zenon DEF Exit
    <2>3. told'.remote \in [Ids -> RowsOrNone(RemoteRows)]
      BY <1>4, <1>5, Zenon DEF Exit
    <2>4. UNCHANGED <<dpus, remotes, sessions>> /\ events < MaxEvents /\ events' = events + 1
      BY <1>5, Zenon DEF Exit, db
    <2>5. events' <= MaxEvents
      BY <1>0, <2>4, DpuNetworkAssumption DEF TypeInv
    <2> QED
      BY <2>1, <2>2, <2>3, <2>4, <2>5, Zenon DEF RowsInv
  <1>6. ASSUME NEW i \in Ids, ForwardRemote(i)
        PROVE  RowsInv'
    <2>1. remoteActors[i] \in RemoteActorType /\ remotes[i] \in RowsOrNone(RemoteRows)
      BY Zenon DEF RowsInv
    <2>2. {} \in RowsOrNone(RemoteRows)
      BY Zenon DEF RowsOrNone
    <2>3. remoteActors'[i] \in RemoteActorType /\ \A j \in Ids \ {i} : remoteActors'[j] = remoteActors[j]
      BY <1>6, <2>1, <2>2 DEF ForwardRemote, RowsInv, RemoteActorType
    <2>4. remoteActors' \in [Ids -> RemoteActorType]
      BY <1>6, <2>3 DEF ForwardRemote, RowsInv
    <2> QED
      BY <1>6, <2>4, Zenon DEF ForwardRemote, db, actor, RowsInv
  <1>7. ASSUME NEW b \in Bridges, NEW k, Forward(b, k)
        PROVE  RowsInv'
    <2>1. inbox' = inbox \/ inbox' = Append(inbox, Message(b, k))
      BY <1>7, Zenon DEF Forward
    <2>2. Message(b, k) \in Messages /\ Message(b, k).from = b /\ (b \in Watched => Message(b, k).row = Present(b, k))
          /\ k \in BridgeKeys(b)
      BY <1>0, <1>7, ForwardMessage, Zenon
    <2>3. b = "remote" => Message(b, k).row \in RowsOrNone(RemoteRows)
      BY <2>2, Zenon DEF Watched, Present, BridgeKeys, RowsInv
    <2>4. ASSUME NEW n \in DOMAIN inbox', inbox'[n].from = "remote"
          PROVE  inbox'[n].row \in RowsOrNone(RemoteRows)
      <3>0. inbox \in Seq(Messages) /\ Message(b, k) \in Messages
        BY <1>0, <2>2, Zenon DEF TypeInv, InboxType
      <3>1. inbox'[n] = Message(b, k) \/ (n \in DOMAIN inbox /\ inbox'[n] = inbox[n])
        BY <2>1, <3>0, Queue
      <3> QED
        BY <2>2, <2>3, <2>4, <3>1, Zenon DEF RowsInv
    <2> QED
      BY <1>7, <2>4, Zenon DEF Forward, db, RowsInv
  <1>8. ASSUME inbox # <<>>, inbox' = Tail(inbox)
        PROVE  \A n \in DOMAIN inbox' : inbox'[n].from = "remote" => inbox'[n].row \in RowsOrNone(RemoteRows)
    <2>1. \A n \in DOMAIN inbox' : n + 1 \in DOMAIN inbox /\ inbox'[n] = inbox[n + 1]
      BY <1>0, <1>8, Queue DEF TypeInv, InboxType
    <2> QED
      BY <2>1, Zenon DEF RowsInv
  <1>9. ASSUME inbox # <<>>
        PROVE  1 \in DOMAIN inbox /\ Head(inbox) = inbox[1] /\ inbox[1] \in Messages
    <2>1. inbox \in Seq(Messages)
      BY <1>0, Zenon DEF TypeInv, InboxType
    <2> QED
      BY <1>9, <2>1, SeqTail, SeqRange
  <1>10. ASSUME NEW peers, NEW cfg \in Globals
         PROVE  SetSessions(peers, cfg) \in [Addresses -> RowsOrNone(Globals)]
    <2>1. sessions \in [Addresses -> RowsOrNone(Globals)]
      BY Zenon DEF RowsInv
    <2>2. {cfg} \in RowsOrNone(Globals)
      BY Zenon DEF RowsOrNone
    <2> QED
      BY <2>1, <2>2, Zenon DEF SetSessions
  <1>11. CASE HandleDpuDel
    <2>1. DOMAIN inbox' = {}
      BY <1>11, SeqEmpty, Zenon DEF HandleDpuDel
    <2>2. told'.remote \in [Ids -> RowsOrNone(RemoteRows)]
      BY <1>4, <1>11, Zenon DEF HandleDpuDel
    <2> QED
      BY <1>11, <2>1, <2>2, Zenon DEF HandleDpuDel, Takes, db, RowsInv
  <1>12. CASE HandleDpu
    BY <1>8, <1>12, Zenon DEF HandleDpu, Takes, db, RowsInv
  <1>13. CASE HandleRemote
    <2> DEFINE m == Head(inbox)
    <2>1. m.key \in Ids /\ m.row \in RowsOrNone(RemoteRows)
      <3>1. inbox # <<>> /\ TableOf(m.from) = "REMOTE_DPU"
        BY <1>13, Zenon DEF HandleRemote, Takes
      <3>2. 1 \in DOMAIN inbox /\ m = inbox[1] /\ m \in Messages
        BY <1>9, <3>1, Zenon
      <3>3. m.from = "remote"
        BY <3>1, <3>2, Zenon DEF TableOf, Messages
      <3> QED
        BY <1>0, <3>2, <3>3, Zenon DEF TypeInv, InboxType, RowsInv
    <2>2. told' = [told EXCEPT !.remote[m.key] = m.row] /\ told \in [global : SUBSET Globals, remote : [Ids -> SUBSET RemoteRows]]
      BY <1>0, <1>13, Zenon DEF HandleRemote, TypeInv
    <2>3. told'.remote \in [Ids -> RowsOrNone(RemoteRows)]
      <3> HIDE DEF m
      <3>1. told'.remote = [told.remote EXCEPT ![m.key] = m.row]
        BY <2>2, Zenon
      <3>2. told.remote \in [Ids -> RowsOrNone(RemoteRows)]
        BY Zenon DEF RowsInv
      <3> QED
        BY <2>1, <3>1, <3>2, Zenon
    <2>4. \/ sessions' = sessions
          \/ told.global # {} /\ \E peers : sessions' = SetSessions(peers, CHOOSE g \in told.global : TRUE)
      BY <1>13, Zenon DEF HandleRemote
    <2>5. told.global # {} => (CHOOSE g \in told.global : TRUE) \in Globals
      BY <1>0, Zenon DEF TypeInv
    <2>6. sessions' \in [Addresses -> RowsOrNone(Globals)]
      <3>1. CASE sessions' = sessions
        BY <3>1, Zenon DEF RowsInv
      <3>2. CASE told.global # {} /\ \E peers : sessions' = SetSessions(peers, CHOOSE g \in told.global : TRUE)
        BY <1>10, <2>5, <3>2, Zenon
      <3> QED
        BY <2>4, <3>1, <3>2, Zenon
    <2> QED
      BY <1>8, <1>13, <2>3, <2>6, Zenon DEF HandleRemote, Takes, db, RowsInv
  <1>14. CASE HandleGlobal
    <2> DEFINE m == Head(inbox)
               cfg == IF m.row = {} THEN Deleted ELSE CHOOSE g \in m.row : TRUE
    <2>1. m.row \subseteq Globals
      <3>1. inbox # <<>> /\ TableOf(m.from) = "GLOBAL"
        BY <1>14, Zenon DEF HandleGlobal, Takes
      <3>2. 1 \in DOMAIN inbox /\ m = inbox[1] /\ m \in Messages
        BY <1>9, <3>1, Zenon
      <3>3. m.from = "global"
        BY <3>1, <3>2, Zenon DEF TableOf, Messages
      <3> QED
        BY <1>0, <3>2, <3>3, Zenon DEF TypeInv, InboxType
    <2>2. cfg \in Globals
      BY <2>1, DpuNetworkAssumption DEF Deleted, Globals
    <2>3. told'.remote = told.remote
      BY <1>0, <1>14, Zenon DEF HandleGlobal, TypeInv
    <2>4. sessions' = sessions \/ sessions' = SetSessions(Peers(UNION {told.remote[i] : i \in Ids}), cfg)
      BY <1>14, Zenon DEF HandleGlobal
    <2>5. sessions' \in [Addresses -> RowsOrNone(Globals)]
      <3> HIDE DEF cfg
      <3>1. CASE sessions' = sessions
        BY <3>1, Zenon DEF RowsInv
      <3>2. CASE sessions' = SetSessions(Peers(UNION {told.remote[i] : i \in Ids}), cfg)
        BY <1>10, <2>2, <3>2, Zenon
      <3> QED
        BY <2>4, <3>1, <3>2, Zenon
    <2> QED
      BY <1>8, <1>14, <2>3, <2>5, Zenon DEF HandleGlobal, Takes, db, RowsInv
  <1>15. CASE UNCHANGED <<db, remoteActors, inbox, told, sessions, events>>
    BY <1>15, Zenon DEF db, RowsInv
  <1> QED
    BY <1>1, <1>2, <1>3, <1>5, <1>6, <1>7, <1>11, <1>12, <1>13, <1>14, <1>15, Zenon
    DEF Next, Operator, Start, StartRemote, BridgeTasks, Quit, HaSetBridge, DpuActor,
        SpawnBridge, SpawnFails, vars, actor

\* Every step keeps what is not there when hamgrd is down.
LEMMA NextDownInv ==
    ASSUME NetworkInv, DownInv, [Next]_vars
    PROVE  DownInv'
  <1>1. ASSUME NEW table, NEW k, Notify(table, k)
        PROVE  DownInv'
    <2>1. \A b \in Bridges : bridges'[b].run = bridges[b].run
      BY <1>1, Zenon DEF Notify, NetworkInv, TypeInv, BridgesType, Bridge
    <2> QED
      BY <1>1, <2>1, Zenon DEF Notify, actor, DownInv
  <1>2. CASE Operator
    BY <1>1, <1>2, Zenon DEF Operator, WriteDpu, WriteRemote, WriteGlobal
  <1>3. CASE Start
    BY <1>3, Zenon DEF Start, actor, DownInv
  <1>4. CASE Exit
    BY <1>4, Zenon DEF Exit, DownInv, Off
  <1>5. ASSUME config # {}, UNCHANGED <<config, dpu, inbox>>
        PROVE  DownInv'
    BY <1>5, Zenon DEF DownInv
  <1>6. ASSUME NEW b \in Bridges, bridges[b].run # "off"
        PROVE  config # {}
    BY <1>6, Zenon DEF DownInv
  <1>7. CASE StartRemote \/ HaSetBridge
    BY <1>5, <1>6, <1>7, Zenon DEF StartRemote, HaSetBridge, Bridges, actor
  <1>8. ASSUME NEW b \in Bridges, Quit(b)
        PROVE  DownInv'
    <2>1. bridges[b].run # "off" /\ UNCHANGED <<config, dpu, inbox>>
      BY <1>8, Zenon DEF Quit, actor
    <2> QED
      BY <1>5, <1>6, <2>1, Zenon
  <1>9. ASSUME NEW i \in Ids, ForwardRemote(i)
        PROVE  DownInv'
    BY <1>5, <1>6, <1>9, Zenon DEF ForwardRemote, CanForward, Running, Bridges, actor
  <1>10. ASSUME NEW b \in Bridges, NEW k, Forward(b, k)
         PROVE  DownInv'
    <2>1. config # {} /\ config' = config
      BY <1>6, <1>10, Zenon DEF Forward, CanForward, Running
    <2>2. dpu' \in {"absent", "stopped"} => dpu' = dpu /\ inbox' = inbox
      BY <1>10, Zenon DEF Forward
    <2> QED
      BY <2>1, <2>2, Zenon DEF DownInv
  <1>11. CASE SpawnBridge \/ SpawnFails
    <2>1. dpu = "managed"
      BY <1>11, Zenon DEF SpawnBridge, SpawnFails, NetworkInv, LifeInv
    <2> QED
      BY <1>5, <1>11, <2>1, Zenon DEF SpawnBridge, SpawnFails, DownInv
  <1>12. CASE HandleDpuDel \/ HandleDpu \/ HandleRemote \/ HandleGlobal
    <2>1. config # {} /\ config' = config /\ dpu \notin {"absent", "stopped"}
      BY <1>12, Zenon DEF HandleDpuDel, HandleDpu, HandleRemote, HandleGlobal, Takes, DownInv
    <2>2. dpu' \in {"absent", "stopped"} => inbox' = <<>>
      BY <1>12, <2>1, Zenon DEF HandleDpuDel, HandleDpu, HandleRemote, HandleGlobal
    <2> QED
      BY <2>1, <2>2, Zenon DEF DownInv
  <1>13. CASE UNCHANGED vars
    BY <1>13, Zenon DEF vars, actor, DownInv
  <1> QED
    BY <1>2, <1>3, <1>4, <1>7, <1>8, <1>9, <1>10, <1>11, <1>12, <1>13, Zenon DEF Next, BridgeTasks, DpuActor

\* hamgrd has neither bridges nor a DPU actor while it is down, a handler waits
\* for a bridge only while the actor has a row with our slot, and a table, an
\* actor or a BFD session never has two rows.
THEOREM TypeCorrect == Spec => []TypeOK
  <1>1. Init => RowsInv /\ DownInv
    <2> SUFFICES ASSUME Init
                 PROVE  RowsInv /\ DownInv
      BY Zenon
    <2>1. dpus \in [Keys -> RowsOrNone(DpuRows)] /\ remotes \in [Ids -> RowsOrNone(RemoteRows)]
      BY Zenon DEF Init, RowsOrNone
    <2>2. told.remote \in [Ids -> RowsOrNone(RemoteRows)] /\ remoteActors \in [Ids -> RemoteActorType]
      BY Zenon DEF Init, FreshTold, NoActor, RemoteActorType, RowsOrNone
    <2>3. sessions \in [Addresses -> RowsOrNone(Globals)] /\ events <= MaxEvents /\ DOMAIN inbox = {}
      BY SeqEmpty, DpuNetworkAssumption DEF Init, RowsOrNone
    <2>4. DownInv
      BY Zenon DEF Init, DownInv, Off
    <2> QED
      BY <2>1, <2>2, <2>3, <2>4, Zenon DEF RowsInv
  <1>2. NetworkInv /\ RowsInv /\ DownInv /\ [Next]_vars => RowsInv' /\ DownInv'
    BY NextRowsInv, NextDownInv, Zenon
  <1>3. NetworkInv /\ RowsInv /\ DownInv => TypeOK
    <2> SUFFICES ASSUME NetworkInv, RowsInv, DownInv
                 PROVE  TypeOK
      BY Zenon
    <2>1. global \in RowsOrNone(Globals) /\ told.global \in RowsOrNone(Globals)
      BY Zenon DEF NetworkInv, TypeInv, RowsOrNone
    <2>2. \A b \in Bridges : bridges[b].run = "on" => config # {}
      BY Zenon DEF DownInv
    <2>3. spawning \in 0..Len(Sequence) /\ events \in 0..MaxEvents
      BY DpuNetworkAssumption DEF NetworkInv, TypeInv, RowsInv, Sequence
    <2> QED
      BY <2>1, <2>2, <2>3, Zenon DEF NetworkInv, TypeInv, LifeInv, RowsInv, RemoteActorType, DownInv, TypeOK
  <1> QED
    BY <1>1, <1>2, <1>3, NetworkInvariant, PTL DEF Spec
=============================================================================
