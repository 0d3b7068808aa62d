------------------------- MODULE EdgeRuntimeProofs -------------------------
(***************************************************************************)
(* Proofs about EdgeRuntime: for any number of rows, changes and requests  *)
(* and channels of any size, the channels keep within their capacity, and  *)
(* the actor of a row follows it, unless an update was sent while the      *)
(* actor was being created for an earlier one.                             *)
(*                                                                         *)
(* Where that has not happened, the creator has one update of a row at     *)
(* most, while the row has no actor and no other update (PlaceInv), so     *)
(* that none is spawned twice and none overtaken.  The last update on the  *)
(* way is the row's present state (FreshInv).                              *)
(***************************************************************************)
EXTENDS EdgeRuntime, FiniteSetTheorems, TLAPS

\* The update of a row that is there, or is not, as the table has it.
Present(k) == [to |-> k, op |-> IF row[k] = 0 THEN "Del" ELSE "Set", version |-> row[k]]

IsUpdate(m, k) == m.to = k /\ m.op \in {"Set", "Del"}

Has(q, k) == \E i \in DOMAIN q : IsUpdate(q[i], k)

\* q has one update of k at most.
Once(q, k) == \A i, j \in DOMAIN q : IsUpdate(q[i], k) /\ IsUpdate(q[j], k) => i = j

\* The last update of k in q is m.
Ends(q, k, m) ==
    \E i \in DOMAIN q :
        /\ q[i] = m /\ IsUpdate(m, k)
        /\ \A j \in DOMAIN q : IsUpdate(q[j], k) => j <= i

Fresh(q, k) == Has(q, k) => Ends(q, k, Present(k))

InboxHas(k) == \E g \in Gens : Has(inbox[g], k)

\* Routes, actors and what is sent to them fit together; what comes from elsewhere
\* are requests.
RouteInv ==
    /\ \A k \in Keys : route[k] # 0 => actor[route[k]].key = k /\ actor[route[k]].life # "none"
    /\ \A g \in Gens : actor[g].life # "none" =>
           g <= spawned /\ (actor[g].key \notin raced => route[actor[g].key] = g)
    /\ \A g \in Gens : actor[g].life # "live" => inbox[g] = <<>>
    /\ \A g \in Gens : \A i \in DOMAIN inbox[g] : inbox[g][i].to = actor[g].key

HeldInv ==
    /\ handler # 0 => /\ actor[handler].life # "none"
                      /\ \A i \in DOMAIN held : held[i].to = actor[handler].key
    /\ privacy = "Public" => \A i \in DOMAIN held : held[i].op = "Request"
    /\ \A i \in DOMAIN remote : remote[i].op = "Request"

\* Where updates of a row can be that does not race with its creation.
PlaceInv(k) ==
    /\ route[k] = 0 => Once(local, k)
    /\ Once(creatorQ, k)
    /\ Has(held, k) /\ handler = 0 => route[k] = 0 /\ ~Has(local, k) /\ ~Has(forwarding, k)
    /\ Has(creatorQ, k) =>
           route[k] = 0 /\ ~Has(local, k) /\ ~Has(held, k) /\ ~Has(forwarding, k)
    /\ Has(forwarding, k) => route[k] # 0 /\ ~Has(local, k) /\ ~Has(held, k) /\ ~InboxHas(k)

\* The last update on the way is the present one.
FreshInv(k) ==
    k \notin dirty =>
        /\ Fresh(local, k) /\ Fresh(creatorQ, k) /\ Fresh(forwarding, k)
        /\ ~Has(local, k) => Fresh(held, k)
        /\ ~Has(local, k) /\ ~Has(held, k) => \A g \in Gens : Fresh(inbox[g], k)

\* What the actor of a row is once the updates of the row are through.
Settled(k) ==
    /\ k \notin dirty /\ ~Has(local, k) /\ ~Has(held, k) /\ ~Has(creatorQ, k)
    /\ ~Has(forwarding, k) /\ ~InboxHas(k)

FollowInv(k) ==
    Settled(k) =>
        IF row[k] = 0 THEN Live(k) = {}
        ELSE Stopped(k) # {} \/ (route[k] \in Live(k) /\ actor[route[k]].config = row[k])

KeyInv(k) == PlaceInv(k) /\ FreshInv(k) /\ FollowInv(k)

RowsInv == RouteInv /\ HeldInv /\ \A k \in Keys \ raced : KeyInv(k)

\* The inductive invariant.
RuntimeInv == TypeOK /\ RowsInv

-----------------------------------------------------------------------------
\* The empty sequence, and when a sequence is it.
LEMMA SeqEmpty ==
    /\ DOMAIN <<>> = {} /\ Len(<<>>) = 0 /\ \A S : <<>> \in Seq(S)
    /\ \A S : \A s \in Seq(S) : (s = <<>>) <=> (Len(s) = 0)
  OBVIOUS

\* A sequence is a function on 1..Len(s) whose values are in its set.
LEMMA SeqRange ==
    ASSUME NEW S, NEW s \in Seq(S)
    PROVE  Len(s) \in Nat /\ DOMAIN s = 1..Len(s) /\ \A i \in 1..Len(s) : s[i] \in S
  OBVIOUS

\* A sequence with an element put at its end.
LEMMA SeqAppend ==
    ASSUME NEW S, NEW s \in Seq(S), NEW x \in S
    PROVE  /\ Append(s, x) \in Seq(S) /\ Len(Append(s, x)) = Len(s) + 1
           /\ Append(s, x)[Len(s) + 1] = x /\ \A i \in 1..Len(s) : Append(s, x)[i] = s[i]
  OBVIOUS

\* The head and the tail of a sequence that is not empty.
LEMMA SeqTail ==
    ASSUME NEW S, NEW s \in Seq(S), s # <<>>
    PROVE  /\ Head(s) \in S /\ Head(s) = s[1] /\ Tail(s) \in Seq(S) /\ Len(Tail(s)) = Len(s) - 1
           /\ \A i \in 1..Len(Tail(s)) : Tail(s)[i] = s[i + 1]
  OBVIOUS

\* The sequence of one element.
LEMMA SeqSingle ==
    ASSUME NEW S, NEW x \in S
    PROVE  <<x>> \in Seq(S) /\ Len(<<x>>) = 1 /\ DOMAIN <<x>> = {1} /\ <<x>>[1] = x
  OBVIOUS

\* A sequence of one element, and one put behind another sequence.
LEMMA SeqOne ==
    ASSUME NEW S, NEW s \in Seq(S), NEW r \in Seq(S), r # <<>>, Len(r) <= 1
    PROVE  s \o r = Append(s, Head(r)) /\ Head(r) \in S /\ DOMAIN r = {1} /\ r[1] = Head(r)
  OBVIOUS

\* An empty queue has no updates.
LEMMA EmptyQueue ==
    ASSUME NEW k
    PROVE  ~Has(<<>>, k) /\ Once(<<>>, k)
  BY SeqEmpty, Zenon DEF Has, Once

\* A queue without updates of k has one at most.
LEMMA NoneOnce ==
    ASSUME NEW q, NEW k, ~Has(q, k)
    PROVE  Once(q, k)
  BY Zenon DEF Has, Once

\* A queue with an update only.
LEMMA OnlyUpdate ==
    ASSUME NEW x, NEW k, IsUpdate(x, k)
    PROVE  Has(<<x>>, k) /\ Ends(<<x>>, k, x)
  <1>1. DOMAIN <<x>> = {1} /\ <<x>>[1] = x
    OBVIOUS
  <1>2. \A j \in {1} : j <= 1
    OBVIOUS
  <1> QED
    BY <1>1, <1>2, Zenon DEF Has, Ends

\* A queue with another message only.
LEMMA OnlyOther ==
    ASSUME NEW x, NEW k, ~IsUpdate(x, k)
    PROVE  ~Has(<<x>>, k)
  <1>1. DOMAIN <<x>> = {1} /\ <<x>>[1] = x
    OBVIOUS
  <1> QED
    BY <1>1, Zenon DEF Has

\* The queue r has the updates of k that q has.
Same(q, r, k) ==
    /\ Has(r, k) <=> Has(q, k)
    /\ Once(q, k) => Once(r, k)
    /\ \A m : Ends(q, k, m) => Ends(r, k, m)

\* A queue of which nothing changes.
LEMMA SameQueue ==
    ASSUME NEW q, NEW k
    PROVE  Same(q, q, k)
  BY Zenon DEF Same

\* Two queues without updates of k.
LEMMA SameNone ==
    ASSUME NEW q, NEW r, NEW k, ~Has(q, k), ~Has(r, k)
    PROVE  Same(q, r, k)
  BY NoneOnce, Zenon DEF Same, Has, Ends

\* A message that is no update of k, put at the end of a queue.
LEMMA SameAppend ==
    ASSUME NEW q \in Seq(Message), NEW x \in Message, NEW k, ~IsUpdate(x, k)
    PROVE  Same(q, Append(q, x), k)
  <1>1. /\ DOMAIN q = 1..Len(q) /\ Len(q) \in Nat /\ DOMAIN Append(q, x) = 1..(Len(q) + 1)
        /\ Append(q, x)[Len(q) + 1] = x /\ \A i \in DOMAIN q : Append(q, x)[i] = q[i]
    BY SeqAppend, SeqRange
  <1>2. \A i \in DOMAIN Append(q, x) : IsUpdate(Append(q, x)[i], k) => i \in DOMAIN q
    BY <1>1
  <1>3. DOMAIN q \subseteq DOMAIN Append(q, x)
    BY <1>1
  <1> QED
    BY <1>1, <1>2, <1>3, Zenon DEF Has, Once, Ends, Same

\* An update of k, put at the end of a queue.
LEMMA AppendUpdate ==
    ASSUME NEW q \in Seq(Message), NEW x \in Message, NEW k, IsUpdate(x, k)
    PROVE  /\ Has(Append(q, x), k) /\ Ends(Append(q, x), k, x)
           /\ ~Has(q, k) => Once(Append(q, x), k)
  <1>1. /\ DOMAIN q = 1..Len(q) /\ Len(q) \in Nat /\ DOMAIN Append(q, x) = 1..(Len(q) + 1)
        /\ Append(q, x)[Len(q) + 1] = x /\ \A i \in DOMAIN q : Append(q, x)[i] = q[i]
    BY SeqAppend, SeqRange
  <1>2. \A i \in DOMAIN Append(q, x) : i <= Len(q) + 1 /\ (i \in DOMAIN q \/ i = Len(q) + 1)
    BY <1>1
  <1>3. Len(q) + 1 \in DOMAIN Append(q, x)
    BY <1>1
  <1> QED
    BY <1>1, <1>2, <1>3, Zenon DEF Has, Once, Ends

\* The first message is taken, and is no update of k.
LEMMA SameTail ==
    ASSUME NEW q \in Seq(Message), q # <<>>, NEW k, ~IsUpdate(Head(q), k)
    PROVE  Same(q, Tail(q), k)
  <1>1. /\ DOMAIN q = 1..Len(q) /\ Len(q) \in Nat /\ DOMAIN Tail(q) = 1..(Len(q) - 1)
        /\ Head(q) = q[1] /\ \A i \in DOMAIN Tail(q) : Tail(q)[i] = q[i + 1]
    BY SeqTail, SeqRange
  <1>2. \A i \in DOMAIN Tail(q) : i + 1 \in DOMAIN q /\ i \in Nat
    BY <1>1
  <1>3. \A i \in DOMAIN q : IsUpdate(q[i], k) => i - 1 \in DOMAIN Tail(q) /\ (i - 1) + 1 = i
    BY <1>1
  <1>4. Has(Tail(q), k) <=> Has(q, k)
    BY <1>1, <1>2, <1>3, Zenon DEF Has
  <1>5. ASSUME Once(q, k) PROVE Once(Tail(q), k)
    <2>1. \A i, j \in DOMAIN Tail(q) : IsUpdate(Tail(q)[i], k) /\ IsUpdate(Tail(q)[j], k) => i + 1 = j + 1
      BY <1>1, <1>2, <1>5, Zenon DEF Once
    <2>2. \A i, j \in DOMAIN Tail(q) : i + 1 = j + 1 => i = j
      BY <1>2
    <2> QED
      BY <2>1, <2>2, Zenon DEF Once
  <1>6. ASSUME NEW m, Ends(q, k, m) PROVE Ends(Tail(q), k, m)
    <2>1. PICK i \in DOMAIN q : q[i] = m /\ IsUpdate(m, k) /\ \A j \in DOMAIN q : IsUpdate(q[j], k) => j <= i
      BY <1>6, Zenon DEF Ends
    <2>2. i - 1 \in DOMAIN Tail(q) /\ Tail(q)[i - 1] = m
      BY <1>1, <1>3, <2>1, Zenon
    <2>3. \A j \in DOMAIN Tail(q) : IsUpdate(Tail(q)[j], k) => j + 1 <= i
      BY <1>1, <1>2, <2>1, Zenon
    <2>4. \A j \in DOMAIN Tail(q) : j + 1 <= i => j <= i - 1
      BY <1>1, <1>2
    <2> QED
      BY <2>1, <2>2, <2>3, <2>4, Zenon DEF Ends
  <1> QED
    BY <1>4, <1>5, <1>6, Zenon DEF Same

\* The first message is taken, and is an update of k.
LEMMA TailUpdate ==
    ASSUME NEW q \in Seq(Message), q # <<>>, NEW k, IsUpdate(Head(q), k)
    PROVE  /\ Has(q, k)
           /\ Once(q, k) => ~Has(Tail(q), k)
           /\ \A m : Ends(q, k, m) => IF Has(Tail(q), k) THEN Ends(Tail(q), k, m) ELSE Head(q) = m
  <1>1. /\ DOMAIN q = 1..Len(q) /\ Len(q) \in Nat \ {0} /\ DOMAIN Tail(q) = 1..(Len(q) - 1)
        /\ Head(q) = q[1] /\ \A i \in DOMAIN Tail(q) : Tail(q)[i] = q[i + 1]
    BY SeqTail, SeqRange, SeqEmpty
  <1>2. 1 \in DOMAIN q /\ \A i \in DOMAIN Tail(q) : i + 1 \in DOMAIN q /\ i + 1 # 1
    BY <1>1
  <1>3. Has(q, k) /\ (Once(q, k) => ~Has(Tail(q), k))
    BY <1>1, <1>2, Zenon DEF Has, Once
  <1>4. ASSUME NEW m, Ends(q, k, m) PROVE IF Has(Tail(q), k) THEN Ends(Tail(q), k, m) ELSE Head(q) = m
    <2>1. PICK i \in DOMAIN q : q[i] = m /\ IsUpdate(m, k) /\ \A j \in DOMAIN q : IsUpdate(q[j], k) => j <= i
      BY <1>4, Zenon DEF Ends
    <2>2. CASE i = 1
      <3>1. \A j \in DOMAIN Tail(q) : ~(j + 1 <= 1)
        BY <1>1
      <3>2. ~Has(Tail(q), k)
        BY <1>1, <1>2, <2>1, <2>2, <3>1, Zenon DEF Has
      <3> QED
        BY <1>1, <2>1, <2>2, <3>2, Zenon
    <2>3. CASE i # 1
      <3>1. i - 1 \in DOMAIN Tail(q) /\ (i - 1) + 1 = i
        BY <1>1, <2>3
      <3>2. Tail(q)[i - 1] = m
        BY <1>1, <2>1, <3>1, Zenon
      <3>3. \A j \in DOMAIN Tail(q) : IsUpdate(Tail(q)[j], k) => j + 1 <= i
        BY <1>1, <1>2, <2>1, Zenon
      <3>4. \A j \in DOMAIN Tail(q) : j + 1 <= i => j <= i - 1
        BY <1>1
      <3> QED
        BY <2>1, <3>1, <3>2, <3>3, <3>4, Zenon DEF Ends, Has
    <2> QED
      BY <2>2, <2>3
  <1> QED
    BY <1>3, <1>4, Zenon

-----------------------------------------------------------------------------
\* Requests, responses and the update of a row are messages.
LEMMA MessageTypes ==
    ASSUME TypeOK, NEW k \in Keys
    PROVE  Request(k) \in Message /\ Response(k) \in Message /\ Present(k) \in Message
  <1>1. row[k] \in 0..MaxUpdates /\ 0 \in 0..MaxUpdates
    BY EdgeRuntimeAssumption DEF TypeOK
  <1> QED
    BY <1>1 DEF Request, Response, Present, Message, Ops

\* The runtime starts with the types.
LEMMA InitTypeOK == Init => TypeOK
  <1> SUFFICES ASSUME Init PROVE TypeOK
    OBVIOUS
  <1> USE EdgeRuntimeAssumption
  <1>1. row \in [Keys -> 0..MaxUpdates] /\ dirty \subseteq Keys
    BY DEF Init
  <1>2. updates \in 1..MaxUpdates /\ requests \in 0..MaxRequests
    BY DEF Init
  <1>3. /\ \A q \in {local, remote, held, creatorQ, forwarding, sinkQ} : q = <<>>
        /\ \A g \in Gens : inbox[g] = <<>>
        /\ inbox = [g \in Gens |-> <<>>]
    BY DEF Init
  <1>4. <<>> \in Seq(Message) /\ Len(<<>>) = 0
    BY SeqEmpty
  <1>5. route \in [Keys -> Gens \cup {0}] /\ spawned \in Gens \cup {0}
    BY DEF Init
  <1>6. (CHOOSE k \in Keys : TRUE) \in Keys
    OBVIOUS
  <1>7. actor \in [Gens -> [key : Keys, life : {"none", "live", "stopped"}, config : 0..MaxUpdates]]
    BY <1>6 DEF Init
  <1>8. handler \in Gens \cup {0} /\ privacy \in {"Private", "Public"} /\ raced \subseteq Keys
    BY DEF Init
  <1> QED
    BY <1>1, <1>2, <1>3, <1>4, <1>5, <1>7, <1>8 DEF TypeOK

\* The message the router has taken goes to an actor, to the creator or to the sink.
LEMMA RoutedTypes ==
    ASSUME TypeOK, held # <<>>, ToActor(handler) \/ ToCreator \/ ToSink
    PROVE  /\ creatorQ' \in Seq(Message) /\ Len(creatorQ') <= CreatorCap
           /\ sinkQ' \in Seq(Message) /\ Len(sinkQ') <= LocalCap
           /\ inbox' \in [Gens -> Seq(Message)] /\ \A g \in Gens : Len(inbox'[g]) <= LocalCap
  <1> USE EdgeRuntimeAssumption
  <1> DEFINE m == Head(held)
  <1>0. /\ m \in Message /\ creatorQ \in Seq(Message) /\ Len(creatorQ) <= CreatorCap
        /\ sinkQ \in Seq(Message) /\ Len(sinkQ) <= LocalCap
        /\ inbox \in [Gens -> Seq(Message)] /\ \A g \in Gens : Len(inbox[g]) <= LocalCap
    BY SeqTail DEF TypeOK
  <1> HIDE DEF m
  <1>1. CASE ToActor(handler) /\ inbox' = inbox
    BY <1>0, <1>1 DEF ToActor
  <1>2. CASE ToActor(handler) /\ inbox' # inbox
    <2>1. /\ handler \in Gens /\ Len(inbox[handler]) < LocalCap
          /\ inbox' = [inbox EXCEPT ![handler] = Append(inbox[handler], m)] /\ UNCHANGED <<creatorQ, sinkQ>>
      BY <1>2 DEF ToActor, TypeOK, m
    <2>2. Append(inbox[handler], m) \in Seq(Message) /\ Len(Append(inbox[handler], m)) <= LocalCap
      BY <1>0, <2>1, SeqAppend, SeqRange
    <2> QED
      BY <1>0, <2>1, <2>2
  <1>3. CASE ToCreator
    <2>1. creatorQ' = Append(creatorQ, m) /\ Len(creatorQ) < CreatorCap /\ UNCHANGED <<sinkQ, inbox>>
      BY <1>3, Zenon DEF ToCreator, m
    <2>2. creatorQ' \in Seq(Message) /\ Len(creatorQ') <= CreatorCap
      BY <1>0, <2>1, SeqAppend, SeqRange
    <2> QED
      BY <1>0, <2>1, <2>2, Zenon
  <1>4. CASE ToSink
    <2>1. sinkQ' = Append(sinkQ, m) /\ Len(sinkQ) < LocalCap /\ UNCHANGED <<creatorQ, inbox>>
      BY <1>4, Zenon DEF ToSink, m
    <2>2. sinkQ' \in Seq(Message) /\ Len(sinkQ') <= LocalCap
      BY <1>0, <2>1, SeqAppend, SeqRange
    <2> QED
      BY <1>0, <2>1, <2>2, Zenon
  <1> QED
    BY <1>1, <1>2, <1>3, <1>4, Zenon

\* A message put into the router's queue, which has room for it.
LEMMA LocalTypes ==
    ASSUME TypeOK, NEW m \in Message, Len(local) < LocalCap, local' = Append(local, m)
    PROVE  local' \in Seq(Message) /\ Len(local') <= LocalCap
  BY EdgeRuntimeAssumption, SeqAppend, SeqRange DEF TypeOK

\* What is left of a queue is no longer than it was.
LEMMA TailTypes ==
    ASSUME NEW n \in Nat, NEW q \in Seq(Message), q # <<>>, Len(q) <= n
    PROVE  Tail(q) \in Seq(Message) /\ Len(Tail(q)) <= n /\ Head(q) \in Message
  BY SeqTail, SeqRange

\* Every step of the runtime keeps the types and the capacities.
LEMMA NextTypeOK == TypeOK /\ [Next]_vars => TypeOK'
  <1> SUFFICES ASSUME TypeOK, [Next]_vars PROVE TypeOK'
    OBVIOUS
  <1> USE EdgeRuntimeAssumption
  <1>1. ASSUME NEW k \in Keys, Change(k) PROVE TypeOK'
    <2>1. updates' \in 1..MaxUpdates /\ updates' \in 0..MaxUpdates /\ 0 \in 0..MaxUpdates
      BY <1>1 DEF Change, TypeOK
    <2>2. row' \in [Keys -> 0..MaxUpdates] /\ dirty' \subseteq Keys
      <3>1. row' = [row EXCEPT ![k] = updates'] \/ row' = [row EXCEPT ![k] = 0]
        BY <1>1, Zenon DEF Change
      <3>2. row \in [Keys -> 0..MaxUpdates] /\ dirty \subseteq Keys /\ dirty' = dirty \cup {k}
        BY <1>1, Zenon DEF Change, TypeOK
      <3> QED
        BY <2>1, <3>1, <3>2
    <2>3. UNCHANGED <<local, remote, held, handler, privacy, creatorQ, forwarding, sinkQ, route, actor,
                      inbox, spawned, raced, requests>>
      BY <1>1 DEF Change, router, creator, actors
    <2> QED
      BY <2>1, <2>2, <2>3, Zenon DEF TypeOK
  <1>2. ASSUME NEW k \in Keys, BridgeSend(k) PROVE TypeOK'
    <2>1. /\ local' = Append(local, Present(k)) /\ Len(local) < LocalCap
          /\ dirty' \subseteq Keys /\ raced' \subseteq Keys
      BY <1>2 DEF BridgeSend, Present, TypeOK
    <2>2. local' \in Seq(Message) /\ Len(local') <= LocalCap
      BY <2>1, LocalTypes, MessageTypes
    <2>3. UNCHANGED <<row, updates, remote, held, handler, privacy, creatorQ, forwarding, sinkQ, route,
                      actor, inbox, spawned, requests>>
      BY <1>2 DEF BridgeSend, router, creator, actors
    <2> QED
      BY <2>1, <2>2, <2>3 DEF TypeOK
  <1>3. ASSUME NEW k \in Keys, Ask(k) PROVE TypeOK'
    <2>1. requests' \in 0..MaxRequests
      BY <1>3 DEF Ask, TypeOK
    <2>2. Request(k) \in Message
      BY MessageTypes
    <2>3. local' \in Seq(Message) /\ Len(local') <= LocalCap
      BY <1>3, <2>2, LocalTypes, Zenon DEF Ask, TypeOK
    <2>4. remote' \in Seq(Message) /\ Len(remote') <= LocalCap
      <3>1. remote \in Seq(Message) /\ Len(remote) <= LocalCap
        BY DEF TypeOK
      <3>2. remote' = remote \/ (remote' = Append(remote, Request(k)) /\ Len(remote) < LocalCap)
        BY <1>3 DEF Ask
      <3> QED
        BY <2>2, <3>1, <3>2, SeqAppend, SeqRange
    <2>5. UNCHANGED <<row, dirty, updates, held, handler, privacy, creatorQ, forwarding, sinkQ, route,
                      actor, inbox, spawned, raced>>
      BY <1>3 DEF Ask, table, router, creator, actors
    <2> QED
      BY <2>1, <2>3, <2>4, <2>5 DEF TypeOK
  <1>4. CASE RouteLocal
    <2>1. local \in Seq(Message) /\ local # <<>> /\ local' = Tail(local)
      BY <1>4 DEF RouteLocal, TypeOK
    <2>2. Head(local) \in Message /\ local' \in Seq(Message) /\ Len(local') <= LocalCap
      BY <2>1, TailTypes DEF TypeOK
    <2>3. held' \in Seq(Message) /\ Len(held') <= 1
      <3>1. held' = held \/ held' = <<Head(local)>>
        BY <1>4, Zenon DEF RouteLocal, router
      <3>2. <<Head(local)>> \in Seq(Message) /\ Len(<<Head(local)>>) <= 1
        BY <2>2, SeqSingle
      <3> QED
        BY <3>1, <3>2, Zenon DEF TypeOK
    <2>4. handler' \in Gens \cup {0} /\ privacy' \in {"Private", "Public"}
      <3>1. Head(local).to \in Keys
        BY <2>2 DEF Message
      <3> QED
        BY <1>4, <3>1 DEF RouteLocal, router, TypeOK
    <2>5. UNCHANGED <<row, dirty, updates, remote, creatorQ, forwarding, sinkQ, route, actor, inbox,
                      spawned, raced, requests>>
      BY <1>4 DEF RouteLocal, table, creator, actors
    <2> QED
      BY <2>2, <2>3, <2>4, <2>5, Zenon DEF TypeOK
  <1>5. CASE RouteRemote
    <2>1. remote \in Seq(Message) /\ remote # <<>> /\ remote' = Tail(remote)
      BY <1>5 DEF RouteRemote, TypeOK
    <2>2. Head(remote) \in Message /\ remote' \in Seq(Message) /\ Len(remote') <= LocalCap
      BY <2>1, TailTypes DEF TypeOK
    <2>3. held' \in Seq(Message) /\ Len(held') <= 1
      BY <1>5, <2>2, SeqSingle DEF RouteRemote
    <2>4. handler' \in Gens \cup {0} /\ privacy' \in {"Private", "Public"}
      BY <1>5, <2>2 DEF RouteRemote, TypeOK, Message
    <2>5. UNCHANGED <<row, dirty, updates, local, creatorQ, forwarding, sinkQ, route, actor, inbox,
                      spawned, raced, requests>>
      BY <1>5 DEF RouteRemote, table, creator, actors
    <2> QED
      BY <2>2, <2>3, <2>4, <2>5, Zenon DEF TypeOK
  <1>11. CASE TryRoute
    <2>1. /\ creatorQ' \in Seq(Message) /\ Len(creatorQ') <= CreatorCap
          /\ sinkQ' \in Seq(Message) /\ Len(sinkQ') <= LocalCap
          /\ inbox' \in [Gens -> Seq(Message)] /\ \A g \in Gens : Len(inbox'[g]) <= LocalCap
      BY <1>11, RoutedTypes, Zenon DEF TryRoute
    <2>2. held' \in Seq(Message) /\ Len(held') <= 1 /\ handler' = 0 /\ privacy' = "Private"
      BY <1>11, SeqEmpty DEF TryRoute
    <2>3. UNCHANGED <<row, dirty, updates, local, remote, forwarding, route, actor, spawned, raced, requests>>
      BY <1>11 DEF TryRoute, table
    <2> QED
      BY <2>1, <2>2, <2>3 DEF TypeOK
  <1>6. CASE Sink
    <2>1. sinkQ \in Seq(Message) /\ sinkQ # <<>> /\ sinkQ' = Tail(sinkQ) /\ Len(local) < LocalCap
          /\ local' = Append(local, Response(Head(sinkQ).to))
      BY <1>6 DEF Sink, TypeOK
    <2>2. Head(sinkQ) \in Message /\ sinkQ' \in Seq(Message) /\ Len(sinkQ') <= LocalCap
      BY <2>1, TailTypes DEF TypeOK
    <2>3. Response(Head(sinkQ).to) \in Message
      BY <2>2, MessageTypes DEF Message
    <2>4. local' \in Seq(Message) /\ Len(local') <= LocalCap
      BY <2>1, <2>3, LocalTypes
    <2>5. UNCHANGED <<row, dirty, updates, remote, held, handler, privacy, creatorQ, forwarding, route,
                      actor, inbox, spawned, raced, requests>>
      BY <1>6 DEF Sink, table, router, creator, actors
    <2> QED
      BY <2>2, <2>4, <2>5 DEF TypeOK
  <1>7. CASE CreatorHandle
    <2> DEFINE m == Head(creatorQ)
    <2>1. creatorQ \in Seq(Message) /\ creatorQ # <<>> /\ creatorQ' = Tail(creatorQ)
      BY <1>7 DEF CreatorHandle, TypeOK
    <2>2. m \in Message /\ creatorQ' \in Seq(Message) /\ Len(creatorQ') <= CreatorCap
      BY <2>1, TailTypes DEF TypeOK
    <2>3. m.to \in Keys /\ Response(m.to) \in Message
      BY <2>2, MessageTypes DEF Message
    <2>4. forwarding' = <<m>> \/ forwarding' = <<Response(m.to)>>
      BY <1>7 DEF CreatorHandle
    <2>5. forwarding' \in Seq(Message) /\ Len(forwarding') <= 1
      <3>1. \A x \in Message : <<x>> \in Seq(Message) /\ Len(<<x>>) <= 1
        BY SeqSingle
      <3> QED
        BY <2>2, <2>3, <2>4, <3>1, Zenon
    <2>6. \/ /\ spawned < MaxSpawned /\ spawned' = spawned + 1
             /\ route' = [route EXCEPT ![m.to] = spawned']
             /\ actor' = [actor EXCEPT ![spawned'] = [key |-> m.to, life |-> "live", config |-> 0]]
          \/ UNCHANGED <<spawned, route, actor>>
      BY <1>7 DEF CreatorHandle
    <2> HIDE DEF m
    <2>7. spawned' \in Gens \cup {0} /\ (spawned' # spawned => spawned' \in Gens)
      <3>1. spawned \in 0..MaxSpawned
        BY DEF TypeOK, Gens
      <3> QED
        BY <2>6, <3>1 DEF Gens
    <2>8. route' \in [Keys -> Gens \cup {0}]
      BY <2>3, <2>6, <2>7, Zenon DEF TypeOK
    <2>9. [key |-> m.to, life |-> "live", config |-> 0]
            \in [key : Keys, life : {"none", "live", "stopped"}, config : 0..MaxUpdates]
      BY <2>3
    <2>10. actor' \in [Gens -> [key : Keys, life : {"none", "live", "stopped"}, config : 0..MaxUpdates]]
      BY <2>6, <2>9, Zenon DEF TypeOK
    <2>11. UNCHANGED <<row, dirty, updates, local, remote, held, handler, privacy, sinkQ, inbox, raced, requests>>
      BY <1>7 DEF CreatorHandle, table, router
    <2> QED
      BY <2>2, <2>5, <2>7, <2>8, <2>10, <2>11, Zenon DEF TypeOK
  <1>8. CASE CreatorSend
    <2>1. local' = Append(local, Head(forwarding)) /\ Head(forwarding) \in Message /\ Len(local) < LocalCap
      BY <1>8, SeqOne DEF CreatorSend, TypeOK
    <2>2. local' \in Seq(Message) /\ Len(local') <= LocalCap
      BY <2>1, LocalTypes
    <2>3. forwarding' \in Seq(Message) /\ Len(forwarding') <= 1
      BY <1>8, SeqEmpty DEF CreatorSend
    <2>4. UNCHANGED <<row, dirty, updates, remote, held, handler, privacy, creatorQ, sinkQ, route, actor,
                      inbox, spawned, raced, requests>>
      BY <1>8 DEF CreatorSend, table, router, actors
    <2> QED
      BY <2>2, <2>3, <2>4, Zenon DEF TypeOK
  <1>9. ASSUME NEW g \in Gens, ActorHandle(g) PROVE TypeOK'
    <2> DEFINE m == Head(inbox[g])
    <2>1. inbox[g] \in Seq(Message) /\ inbox[g] # <<>> /\ Len(inbox[g]) <= LocalCap /\ actor[g].key \in Keys
      BY <1>9 DEF ActorHandle, TypeOK
    <2>2. m \in Message /\ Tail(inbox[g]) \in Seq(Message) /\ Len(Tail(inbox[g])) <= LocalCap
      BY <2>1, TailTypes
    <2>3. local' \in Seq(Message) /\ Len(local') <= LocalCap
      BY <1>9, <2>1, MessageTypes, LocalTypes DEF ActorHandle
    <2>4. actor' \in {actor, [actor EXCEPT ![g].config = m.version], [actor EXCEPT ![g].life = "stopped"]}
      BY <1>9 DEF ActorHandle
    <2>5. m.version \in 0..MaxUpdates
      BY <2>2 DEF Message
    <2>6. \E q : inbox' = [inbox EXCEPT ![g] = q] /\ (q = <<>> \/ q = Tail(inbox[g]))
      BY <1>9, Zenon DEF ActorHandle
    <2> HIDE DEF m
    <2>7. actor' \in [Gens -> [key : Keys, life : {"none", "live", "stopped"}, config : 0..MaxUpdates]]
      <3>1. CASE actor' = actor
        BY <3>1 DEF TypeOK
      <3>2. CASE actor' = [actor EXCEPT ![g].config = m.version]
        BY <2>5, <3>2, Zenon DEF TypeOK
      <3>3. CASE actor' = [actor EXCEPT ![g].life = "stopped"]
        BY <3>3, Zenon DEF TypeOK
      <3> QED
        BY <2>4, <3>1, <3>2, <3>3
    <2>8. inbox' \in [Gens -> Seq(Message)] /\ \A h \in Gens : Len(inbox'[h]) <= LocalCap
      <3>1. PICK q : inbox' = [inbox EXCEPT ![g] = q] /\ (q = <<>> \/ q = Tail(inbox[g]))
        BY <2>6, Zenon
      <3>2. q \in Seq(Message) /\ Len(q) <= LocalCap
        <4>1. <<>> \in Seq(Message) /\ Len(<<>>) <= LocalCap
          BY SeqEmpty
        <4> QED
          BY <2>2, <3>1, <4>1, Zenon
      <3>3. inbox \in [Gens -> Seq(Message)] /\ \A h \in Gens : Len(inbox[h]) <= LocalCap
        BY DEF TypeOK
      <3> QED
        BY <3>1, <3>2, <3>3
    <2>9. UNCHANGED <<row, dirty, updates, remote, held, handler, privacy, creatorQ, forwarding, sinkQ,
                      route, spawned, raced, requests>>
      BY <1>9 DEF ActorHandle, table, router, creator
    <2> QED
      BY <2>3, <2>7, <2>8, <2>9, Zenon DEF TypeOK
  <1>10. CASE UNCHANGED vars
    BY <1>10 DEF vars, table, router, creator, actors, TypeOK
  <1> QED
    BY <1>1, <1>2, <1>3, <1>4, <1>5, <1>6, <1>7, <1>8, <1>9, <1>10, <1>11, Zenon
    DEF Next, Work

-----------------------------------------------------------------------------
\* The actors of a row are those its route leads to.
LEMMA RouteActors ==
    ASSUME TypeOK, RouteInv, NEW k \in Keys \ raced
    PROVE  Live(k) \subseteq {route[k]} /\ Stopped(k) \subseteq {route[k]}
           /\ (route[k] = 0 => Live(k) = {} /\ Stopped(k) = {})
  <1>1. \A g \in Gens : g # 0
    BY EdgeRuntimeAssumption DEF Gens
  <1> QED
    BY <1>1 DEF RouteInv, Live, Stopped

\* Where the updates of a row can be, once they are routed to an actor.
LEMMA Addressed ==
    ASSUME TypeOK, RouteInv, HeldInv, NEW k \in Keys
    PROVE  /\ \A g \in Gens : Has(inbox[g], k) => actor[g].key = k /\ actor[g].life = "live"
           /\ \A g \in Gens : k \notin raced /\ Has(inbox[g], k) => g = route[k] /\ route[k] # 0
           /\ k \notin raced /\ Has(held, k) /\ handler # 0 => handler = route[k] /\ actor[handler].key = k
  <1>1. \A g \in Gens : g # 0
    BY EdgeRuntimeAssumption DEF Gens
  <1>2. ASSUME NEW g \in Gens, Has(inbox[g], k)
        PROVE  actor[g].key = k /\ actor[g].life = "live" /\ (k \notin raced => g = route[k] /\ route[k] # 0)
    <2>1. PICK i \in DOMAIN inbox[g] : inbox[g][i].to = k
      BY <1>2, Zenon DEF Has, IsUpdate
    <2>2. inbox[g] # <<>>
      BY <2>1, SeqEmpty, Zenon
    <2>3. actor[g].key = k /\ actor[g].life = "live"
      BY <2>1, <2>2, Zenon DEF RouteInv
    <2>4. actor[g].life # "none"
      BY <2>3
    <2> QED
      BY <1>1, <2>3, <2>4, Zenon DEF RouteInv
  <1>3. ASSUME k \notin raced, Has(held, k), handler # 0
        PROVE  handler = route[k] /\ actor[handler].key = k
    <2>1. PICK i \in DOMAIN held : held[i].to = k
      BY <1>3, Zenon DEF Has, IsUpdate
    <2>2. handler \in Gens /\ actor[handler].key = k /\ actor[handler].life # "none"
      BY <1>3, <2>1 DEF HeldInv, TypeOK
    <2> QED
      BY <1>3, <2>2, Zenon DEF RouteInv
  <1> QED
    BY <1>2, <1>3, Zenon

\* Nothing happens to routes and actors.
LEMMA RouteKept ==
    ASSUME RouteInv, UNCHANGED <<route, actor, inbox, spawned>>, raced \subseteq raced'
    PROVE  RouteInv'
  BY Zenon DEF RouteInv

\* Nothing happens to the message the router has taken.
LEMMA HeldKept ==
    ASSUME HeldInv, UNCHANGED <<held, handler, privacy, remote, actor>>
    PROVE  HeldInv'
  BY Zenon DEF HeldInv

\* The creator spawns an actor for a row.
LEMMA SpawnActor ==
    ASSUME TypeOK, RouteInv, HeldInv, NEW j \in Keys, j \in raced \/ route[j] = 0,
           spawned < MaxSpawned, spawned' = spawned + 1,
           route' = [route EXCEPT ![j] = spawned'],
           actor' = [actor EXCEPT ![spawned'] = [key |-> j, life |-> "live", config |-> 0]],
           UNCHANGED <<inbox, raced, held, handler, privacy, remote>>
    PROVE  /\ RouteInv' /\ HeldInv' /\ route'[j] # 0
           /\ \A k \in Keys : k # j =>
                /\ route'[k] = route[k] /\ Live(k)' = Live(k) /\ Stopped(k)' = Stopped(k)
                /\ route[k] \in Live(k) => actor'[route[k]] = actor[route[k]]
  <1> DEFINE g == spawned + 1
  <1>1. g \in Gens /\ spawned \in Nat /\ \A h \in Gens : h \in Nat /\ h # 0
    BY EdgeRuntimeAssumption DEF TypeOK, Gens
  <1>2. actor[g].life = "none" /\ \A h \in Gens : h <= spawned => h # g /\ h <= g
    BY <1>1 DEF RouteInv
  <1>3. /\ route'[j] = g /\ \A k \in Keys : k # j => route'[k] = route[k]
        /\ actor'[g] = [key |-> j, life |-> "live", config |-> 0]
        /\ \A h \in Gens : h # g => actor'[h] = actor[h]
        /\ \A k \in Keys : route[k] \in Gens \cup {0}
        /\ \A h \in Gens : actor[h].key \in Keys
    <2>1. route \in [Keys -> Gens \cup {0}]
      BY Zenon DEF TypeOK
    <2>2. actor \in [Gens -> [key : Keys, life : {"none", "live", "stopped"}, config : 0..MaxUpdates]]
      BY Zenon DEF TypeOK
    <2>3. route'[j] = g /\ \A k \in Keys : k # j => route'[k] = route[k]
      BY <2>1
    <2>4. /\ actor'[g] = [key |-> j, life |-> "live", config |-> 0]
          /\ \A h \in Gens : h # g => actor'[h] = actor[h]
      BY <1>1, <2>2
    <2>5. \A k \in Keys : route[k] \in Gens \cup {0}
      BY <2>1
    <2>6. \A h \in Gens : actor[h].key \in Keys
      BY <2>2
    <2> QED
      BY <2>3, <2>4, <2>5, <2>6, Zenon
  <1> HIDE DEF g
  <1>4. \A h \in Gens : actor[h].life # "none" => h # g /\ h <= spawned
    BY <1>2, Zenon DEF RouteInv
  <1>5. ASSUME NEW k \in Keys, k # j
        PROVE  /\ route'[k] = route[k] /\ Live(k)' = Live(k) /\ Stopped(k)' = Stopped(k)
               /\ route[k] \in Live(k) => actor'[route[k]] = actor[route[k]]
    <2>1. \A h \in Gens : h # g => actor'[h] = actor[h]
      BY <1>3
    <2>2. actor'[g].key = j
      BY <1>3
    <2>3. Live(k)' = Live(k) /\ Stopped(k)' = Stopped(k)
      BY <1>2, <1>5, <2>1, <2>2 DEF Live, Stopped
    <2>4. route[k] \in Live(k) => route[k] \in Gens /\ route[k] # g
      BY <1>4 DEF Live
    <2> QED
      BY <1>3, <1>5, <2>1, <2>3, <2>4, Zenon
  <1>6. RouteInv'
    <2>1. ASSUME NEW k \in Keys, route'[k] # 0
          PROVE  actor'[route'[k]].key = k /\ actor'[route'[k]].life # "none"
      <3>1. CASE k = j
        BY <1>3, <3>1
      <3>2. CASE k # j
        <4>1. route'[k] = route[k] /\ route[k] \in Gens /\ actor[route[k]].key = k /\ actor[route[k]].life # "none"
          BY <1>3, <2>1, <3>2 DEF RouteInv
        <4> QED
          BY <1>3, <1>4, <4>1
      <3> QED
        BY <3>1, <3>2
    <2>2. ASSUME NEW h \in Gens, actor'[h].life # "none"
          PROVE  h <= spawned' /\ (actor'[h].key \notin raced' => route'[actor'[h].key] = h)
      <3>1. CASE h = g
        BY <1>1, <1>3, <3>1 DEF g
      <3>2. CASE h # g
        <4>1. actor'[h] = actor[h] /\ actor[h].life # "none" /\ actor[h].key \in Keys
          BY <1>3, <2>2, <3>2, Zenon
        <4>2. h <= spawned /\ (actor[h].key \notin raced => route[actor[h].key] = h)
          BY <4>1, Zenon DEF RouteInv
        <4>3. actor[h].key \notin raced => actor[h].key # j
          BY <1>1, <4>2
        <4>4. h <= spawned'
          BY <1>1, <4>2
        <4>5. actor[h].key \notin raced' => route'[actor[h].key] = h
          BY <1>3, <4>1, <4>2, <4>3, Zenon
        <4> QED
          BY <4>1, <4>4, <4>5
      <3> QED
        BY <3>1, <3>2
    <2>3. inbox'[g] = <<>> /\ DOMAIN inbox'[g] = {}
      <3>1. actor[g].life # "live"
        BY <1>2
      <3> QED
        BY <1>1, <3>1, SeqEmpty, Zenon DEF RouteInv
    <2>4. \A h \in Gens : actor'[h].life # "live" => inbox'[h] = <<>>
      BY <1>3, <2>3 DEF RouteInv
    <2>5. \A h \in Gens : \A i \in DOMAIN inbox'[h] : inbox'[h][i].to = actor'[h].key
      BY <1>3, <2>3 DEF RouteInv
    <2> QED
      BY <2>1, <2>2, <2>4, <2>5, Zenon DEF RouteInv
  <1>7. HeldInv'
    <2>1. handler # 0 => actor'[handler] = actor[handler]
      BY <1>3, <1>4 DEF HeldInv, TypeOK
    <2> QED
      BY <2>1, Zenon DEF HeldInv
  <1>8. route'[j] # 0
    BY <1>1, <1>3
  <1> QED
    BY <1>5, <1>6, <1>7, <1>8, Zenon

\* A step that does not touch the updates of a row, its route or its actor.
LEMMA SameKept ==
    ASSUME NEW k, KeyInv(k), row'[k] = row[k], k \in dirty' <=> k \in dirty, route'[k] = route[k],
           Same(local, local', k), Same(held, held', k), Has(held, k) => handler' = handler,
           Same(creatorQ, creatorQ', k), Same(forwarding, forwarding', k),
           \A g \in Gens : Same(inbox[g], inbox'[g], k),
           Live(k)' = Live(k), Stopped(k)' = Stopped(k),
           route[k] \in Live(k) => actor'[route[k]].config = actor[route[k]].config
    PROVE  KeyInv(k)'
  <1>1. Present(k)' = Present(k)
    BY Zenon DEF Present
  <1>2. InboxHas(k)' <=> InboxHas(k)
    BY Zenon DEF InboxHas, Same
  <1>3. /\ Has(local', k) <=> Has(local, k)
        /\ Has(held', k) <=> Has(held, k)
        /\ Has(creatorQ', k) <=> Has(creatorQ, k)
        /\ Has(forwarding', k) <=> Has(forwarding, k)
        /\ \A g \in Gens : Has(inbox'[g], k) <=> Has(inbox[g], k)
        /\ Once(local, k) => Once(local', k)
        /\ Once(creatorQ, k) => Once(creatorQ', k)
    BY Zenon DEF Same
  <1>4. /\ Fresh(local, k) => Fresh(local, k)'
        /\ Fresh(held, k) => Fresh(held, k)'
        /\ Fresh(creatorQ, k) => Fresh(creatorQ, k)'
        /\ Fresh(forwarding, k) => Fresh(forwarding, k)'
        /\ \A g \in Gens : Fresh(inbox[g], k) => Fresh(inbox[g], k)'
    BY <1>1, Zenon DEF Same, Fresh
  <1>5. PlaceInv(k)'
    BY <1>2, <1>3, Zenon DEF KeyInv, PlaceInv
  <1>6. FreshInv(k)'
    BY <1>3, <1>4, Zenon DEF KeyInv, FreshInv
  <1>7. FollowInv(k)'
    <2>1. Settled(k)' <=> Settled(k)
      BY <1>2, <1>3, Zenon DEF Settled
    <2> QED
      BY <2>1, Zenon DEF KeyInv, FollowInv
  <1> QED
    BY <1>5, <1>6, <1>7, Zenon DEF KeyInv

\* The actors of a row are the same when none is spawned or stopped.
LEMMA ActorsKept ==
    ASSUME actor' = actor, NEW k
    PROVE  Live(k)' = Live(k) /\ Stopped(k)' = Stopped(k)
  BY Zenon DEF Live, Stopped

\* The runtime starts with an actor for no row, and rows to be read.
LEMMA InitRuntimeInv == Init => RuntimeInv
  <1> SUFFICES ASSUME Init PROVE RuntimeInv
    OBVIOUS
  <1>1. TypeOK
    BY InitTypeOK
  <1>2. route = [k \in Keys |-> 0] /\ remote = <<>> /\ local = <<>> /\ creatorQ = <<>> /\ forwarding = <<>>
        /\ held = <<>> /\ handler = 0 /\ privacy = "Private"
        /\ inbox = [g \in Gens |-> <<>>] /\ \A g \in Gens : actor[g].life = "none"
    BY DEF Init
  <1>3. \A g \in Gens : inbox[g] = <<>>
    BY <1>2
  <1>4. RouteInv
    BY <1>2, <1>3, SeqEmpty DEF RouteInv
  <1>5. HeldInv
    BY <1>2, SeqEmpty DEF HeldInv
  <1>6. ASSUME NEW k \in Keys PROVE KeyInv(k)
    <2>1. ~InboxHas(k) /\ \A g \in Gens : ~Has(inbox[g], k)
      BY <1>3, EmptyQueue, Zenon DEF InboxHas
    <2>2. ~Has(local, k) /\ ~Has(held, k) /\ ~Has(creatorQ, k) /\ ~Has(forwarding, k)
      BY <1>2, EmptyQueue, Zenon
    <2>3. PlaceInv(k) /\ FreshInv(k)
      BY <2>1, <2>2, NoneOnce, Zenon DEF PlaceInv, FreshInv, Fresh
    <2>4. Live(k) = {}
      BY <1>2 DEF Live
    <2>5. k \notin dirty => row[k] = 0
      BY DEF Init
    <2> QED
      BY <2>3, <2>4, <2>5, Zenon DEF KeyInv, FollowInv, Settled
  <1> QED
    BY <1>1, <1>4, <1>5, <1>6, Zenon DEF RuntimeInv, RowsInv

-----------------------------------------------------------------------------
\* A change of a row, which the bridge has to read then.
LEMMA ChangeInv ==
    ASSUME RuntimeInv, NEW j \in Keys, Change(j)
    PROVE  RowsInv'
  <1> USE DEF RuntimeInv, RowsInv
  <1>1. /\ UNCHANGED <<local, remote, held, handler, privacy, creatorQ, forwarding, route, actor, inbox,
                       spawned, raced>>
        /\ dirty' = dirty \cup {j}
    BY Zenon DEF Change, router, creator, actors
  <1>2. RouteInv' /\ HeldInv'
    BY <1>1, RouteKept, HeldKept, Zenon
  <1>3. ASSUME NEW k \in Keys \ raced', k # j PROVE KeyInv(k)'
    <2>1. row'[k] = row[k]
      BY <1>3 DEF Change, TypeOK
    <2>2. Live(k)' = Live(k) /\ Stopped(k)' = Stopped(k)
      BY <1>1, ActorsKept, Zenon
    <2> QED
      BY <1>1, <1>3, <2>1, <2>2, SameKept, SameQueue, Zenon
  <1>4. ASSUME j \notin raced' PROVE KeyInv(j)'
    <2>1. PlaceInv(j)'
      <3>1. InboxHas(j)' = InboxHas(j)
        BY <1>1, Zenon DEF InboxHas
      <3> QED
        BY <1>1, <1>4, <3>1, Zenon DEF KeyInv, PlaceInv
    <2>2. j \in dirty'
      BY <1>1
    <2> QED
      BY <2>1, <2>2, Zenon DEF KeyInv, FreshInv, FollowInv, Settled
  <1> QED
    BY <1>2, <1>3, <1>4, Zenon

\* Requests and responses are no updates.
LEMMA NotUpdate ==
    \A j, k : ~IsUpdate(Request(j), k) /\ ~IsUpdate(Response(j), k)
  BY DEF IsUpdate, Request, Response

\* The queues have updates as the model says it.
LEMMA HasUpdates ==
    ASSUME NEW q, NEW k
    PROVE  Updates(q, k) = {} <=> ~Has(q, k)
  BY Zenon DEF Updates, Has, IsUpdate

\* The bridge sends the row it has read.
LEMMA BridgeSendInv ==
    ASSUME RuntimeInv, NEW j \in Keys, BridgeSend(j)
    PROVE  RowsInv'
  <1> USE DEF RuntimeInv, RowsInv
  <1>1. /\ UNCHANGED <<row, remote, held, handler, privacy, creatorQ, forwarding, route, actor, inbox, spawned>>
        /\ local' = Append(local, Present(j)) /\ dirty' = dirty \ {j} /\ j \in dirty
        /\ raced' = IF Creating(j) THEN raced \cup {j} ELSE raced
    BY Zenon DEF BridgeSend, router, creator, actors, Present
  <1>2. RouteInv' /\ HeldInv'
    BY <1>1, RouteKept, HeldKept, Zenon
  <1>3. local \in Seq(Message) /\ Present(j) \in Message
    BY MessageTypes DEF TypeOK
  <1>4. IsUpdate(Present(j), j) /\ \A k \in Keys : k # j => ~IsUpdate(Present(j), k)
    BY DEF IsUpdate, Present
  <1>5. ASSUME NEW k \in Keys \ raced', k # j PROVE KeyInv(k)'
    <2>1. Same(local, local', k)
      BY <1>1, <1>3, <1>4, <1>5, SameAppend, Zenon
    <2>2. Live(k)' = Live(k) /\ Stopped(k)' = Stopped(k)
      BY <1>1, ActorsKept, Zenon
    <2>3. k \notin raced /\ (k \in dirty' <=> k \in dirty)
      BY <1>1, <1>5
    <2>4. KeyInv(k)
      BY <2>3, Zenon
    <2> QED
      BY <1>1, <1>5, <2>1, <2>2, <2>3, <2>4, SameKept, SameQueue, Zenon
  <1>6. ASSUME j \notin raced' PROVE KeyInv(j)'
    <2>1. ~Creating(j) /\ j \notin raced
      BY <1>1, <1>6
    <2>2. /\ route[j] = 0 => ~Has(local, j)
          /\ handler = 0 => ~Has(held, j)
          /\ ~Has(creatorQ, j) /\ ~Has(forwarding, j)
      BY <2>1, HasUpdates, Zenon DEF Creating
    <2>3. Has(local', j) /\ Ends(local', j, Present(j)) /\ (~Has(local, j) => Once(local', j))
      BY <1>1, <1>3, <1>4, AppendUpdate, Zenon
    <2>4. Present(j)' = Present(j)
      BY <1>1, Zenon DEF Present
    <2>5. PlaceInv(j)'
      BY <1>1, <2>1, <2>2, <2>3, NoneOnce, Zenon DEF KeyInv, PlaceInv
    <2>6. FreshInv(j)'
      BY <1>1, <2>2, <2>3, <2>4, Zenon DEF FreshInv, Fresh
    <2> QED
      BY <2>3, <2>5, <2>6, Zenon DEF KeyInv, FollowInv, Settled
  <1> QED
    BY <1>2, <1>5, <1>6, Zenon

\* Requests and NoRoute responses come into the router's queues.
LEMMA OtherSendInv ==
    ASSUME RuntimeInv, HeldInv',
           UNCHANGED <<row, dirty, held, handler, creatorQ, forwarding, route, actor, inbox, spawned, raced>>,
           NEW j \in Keys,
           local' \in {local, Append(local, Request(j)), Append(local, Response(j))}
    PROVE  RowsInv'
  <1> USE DEF RuntimeInv, RowsInv
  <1>1. RouteInv'
    BY RouteKept, Zenon
  <1>2. local \in Seq(Message) /\ Request(j) \in Message /\ Response(j) \in Message
    BY MessageTypes DEF TypeOK
  <1>3. ASSUME NEW k \in Keys \ raced' PROVE KeyInv(k)'
    <2>1. Same(local, local', k)
      BY <1>2, NotUpdate, SameAppend, SameQueue, Zenon
    <2>2. Live(k)' = Live(k) /\ Stopped(k)' = Stopped(k)
      BY ActorsKept, Zenon
    <2> QED
      BY <1>3, <2>1, <2>2, SameKept, SameQueue, Zenon
  <1> QED
    BY <1>1, <1>3, Zenon

\* Other actors ask.
LEMMA AskInv ==
    ASSUME RuntimeInv, NEW j \in Keys, Ask(j)
    PROVE  RowsInv'
  <1> USE DEF RuntimeInv, RowsInv
  <1>1. /\ UNCHANGED <<row, dirty, held, handler, privacy, creatorQ, forwarding, route, actor, inbox,
                       spawned, raced>>
        /\ local' \in {local, Append(local, Request(j))}
        /\ remote' \in {remote, Append(remote, Request(j))}
    BY DEF Ask, table, router, creator, actors
  <1>2. remote \in Seq(Message) /\ Request(j) \in Message /\ Request(j).op = "Request"
    BY MessageTypes DEF TypeOK, Request
  <1>3. \A i \in DOMAIN remote' : remote'[i].op = "Request"
    <2>1. CASE remote' = Append(remote, Request(j))
      <3>1. \A i \in DOMAIN remote' : (i \in DOMAIN remote /\ remote'[i] = remote[i]) \/ remote'[i] = Request(j)
        BY <1>2, <2>1, SeqAppend, SeqRange
      <3> QED
        BY <1>2, <3>1, Zenon DEF HeldInv
    <2> QED
      BY <1>1, <2>1, Zenon DEF HeldInv
  <1>4. HeldInv'
    BY <1>1, <1>3, Zenon DEF HeldInv
  <1> QED
    BY <1>1, <1>4, OtherSendInv

\* The sink answers.
LEMMA SinkInv ==
    ASSUME RuntimeInv, Sink
    PROVE  RowsInv'
  <1> USE DEF RuntimeInv, RowsInv
  <1>1. /\ UNCHANGED <<row, dirty, remote, held, handler, privacy, creatorQ, forwarding, route, actor, inbox,
                       spawned, raced>>
        /\ local' = Append(local, Response(Head(sinkQ).to)) /\ sinkQ # <<>>
    BY Zenon DEF Sink, table, router, creator, actors
  <1>2. Head(sinkQ) \in Message
    BY <1>1, SeqTail DEF TypeOK
  <1>3. Head(sinkQ).to \in Keys
    BY <1>2 DEF Message
  <1>4. HeldInv'
    BY <1>1, HeldKept, Zenon
  <1> QED
    BY <1>1, <1>3, <1>4, OtherSendInv

-----------------------------------------------------------------------------
\* The router takes a message of this runtime.
LEMMA RouteLocalInv ==
    ASSUME RuntimeInv, RouteLocal
    PROVE  RowsInv'
  <1> USE DEF RuntimeInv, RowsInv
  <1> DEFINE m == Head(local)
  <1>1. /\ UNCHANGED <<row, dirty, remote, creatorQ, forwarding, route, actor, inbox, spawned, raced>>
        /\ held = <<>> /\ local # <<>> /\ local' = Tail(local)
        /\ \/ m.op = "Response" /\ UNCHANGED <<held, handler, privacy>>
           \/ held' = <<m>> /\ handler' = route[m.to] /\ privacy' = "Private"
    BY Zenon DEF RouteLocal, table, router, creator, actors
  <1>2. local \in Seq(Message) /\ m \in Message /\ m.to \in Keys
    <2>1. local \in Seq(Message)
      BY DEF TypeOK
    <2>2. m \in Message
      BY <1>1, <2>1, SeqTail
    <2> QED
      BY <2>1, <2>2 DEF Message
  <1>3. \A k : ~Has(held, k)
    BY <1>1, EmptyQueue, Zenon
  <1> HIDE DEF m
  <1>4. RouteInv'
    BY <1>1, RouteKept, Zenon
  <1>5. HeldInv'
    <2>1. CASE UNCHANGED <<held, handler, privacy>>
      BY <1>1, <2>1, HeldKept, Zenon
    <2>2. CASE held' = <<m>> /\ handler' = route[m.to] /\ privacy' = "Private"
      <3>1. DOMAIN held' = {1} /\ held'[1] = m
        BY <2>2
      <3> QED
        BY <1>1, <1>2, <2>2, <3>1 DEF HeldInv, RouteInv
    <2> QED
      BY <1>1, <2>1, <2>2, Zenon
  <1>6. ASSUME NEW k \in Keys \ raced', ~IsUpdate(m, k) PROVE KeyInv(k)'
    <2>1. Same(local, local', k)
      BY <1>1, <1>2, <1>6, SameTail, Zenon DEF m
    <2>2. ~Has(held', k)
      BY <1>1, <1>3, <1>6, OnlyOther, Zenon
    <2>3. Same(held, held', k)
      BY <1>3, <2>2, SameNone, Zenon
    <2>4. Live(k)' = Live(k) /\ Stopped(k)' = Stopped(k)
      BY <1>1, ActorsKept, Zenon
    <2> QED
      BY <1>1, <1>3, <1>6, <2>1, <2>3, <2>4, SameKept, SameQueue, Zenon
  <1>7. ASSUME NEW k \in Keys \ raced', IsUpdate(m, k) PROVE KeyInv(k)'
    <2>1. KeyInv(k) /\ m.to = k /\ m.op # "Response"
      BY <1>1, <1>7 DEF IsUpdate
    <2>2. held' = <<m>> /\ handler' = route[k]
      BY <1>1, <2>1, Zenon
    <2>3. Has(held', k) /\ Ends(held', k, m)
      BY <1>7, <2>2, OnlyUpdate, Zenon
    <2>4. /\ Has(local, k) /\ (Once(local, k) => ~Has(local', k))
          /\ \A x : Ends(local, k, x) => IF Has(local', k) THEN Ends(local', k, x) ELSE m = x
      BY <1>1, <1>2, <1>7, TailUpdate, Zenon DEF m
    <2>5. ~Has(creatorQ, k) /\ ~Has(forwarding, k) /\ (route[k] = 0 => ~Has(local', k))
      BY <2>1, <2>4, Zenon DEF KeyInv, PlaceInv
    <2>6. PlaceInv(k)'
      BY <1>1, <2>2, <2>5, NoneOnce, Zenon DEF PlaceInv
    <2>7. FreshInv(k)'
      <3>1. Present(k)' = Present(k)
        BY <1>1, Zenon DEF Present
      <3> QED
        BY <1>1, <2>1, <2>3, <2>4, <2>5, <3>1, Zenon DEF KeyInv, FreshInv, Fresh
    <2> QED
      BY <2>3, <2>6, <2>7, Zenon DEF KeyInv, FollowInv, Settled
  <1> QED
    BY <1>4, <1>5, <1>6, <1>7, Zenon

\* The router takes a message from elsewhere.
LEMMA RouteRemoteInv ==
    ASSUME RuntimeInv, RouteRemote
    PROVE  RowsInv'
  <1> USE DEF RuntimeInv, RowsInv
  <1> DEFINE m == Head(remote)
  <1>1. /\ UNCHANGED <<row, dirty, local, creatorQ, forwarding, route, actor, inbox, spawned, raced>>
        /\ held = <<>> /\ remote # <<>> /\ remote' = Tail(remote)
        /\ held' = <<m>> /\ handler' = route[m.to] /\ privacy' = "Public"
    BY Zenon DEF RouteRemote, table, creator, actors
  <1>2. m \in Message /\ m.op = "Request" /\ \A i \in DOMAIN remote' : remote'[i].op = "Request"
    <2>1. remote \in Seq(Message)
      BY DEF TypeOK
    <2>2. m \in Message /\ 1 \in DOMAIN remote /\ m = remote[1]
          /\ \A i \in DOMAIN remote' : i + 1 \in DOMAIN remote /\ remote'[i] = remote[i + 1]
      BY <1>1, <2>1, SeqTail, SeqRange, SeqEmpty
    <2> QED
      BY <2>1, <2>2 DEF HeldInv
  <1>3. m.to \in Keys
    BY <1>2 DEF Message
  <1> HIDE DEF m
  <1>4. RouteInv'
    BY <1>1, RouteKept, Zenon
  <1>5. HeldInv'
    <2>1. DOMAIN held' = {1} /\ held'[1] = m
      BY <1>1
    <2> QED
      BY <1>1, <1>2, <1>3, <2>1 DEF HeldInv, RouteInv
  <1>6. ASSUME NEW k \in Keys \ raced' PROVE KeyInv(k)'
    <2>1. ~IsUpdate(m, k)
      BY <1>2 DEF IsUpdate
    <2>2. ~Has(held, k) /\ ~Has(held', k)
      BY <1>1, <2>1, EmptyQueue, OnlyOther, Zenon
    <2>3. Same(held, held', k)
      BY <2>2, SameNone, Zenon
    <2>4. Live(k)' = Live(k) /\ Stopped(k)' = Stopped(k)
      BY <1>1, ActorsKept, Zenon
    <2> QED
      BY <1>1, <1>6, <2>2, <2>3, <2>4, SameKept, SameQueue, Zenon
  <1> QED
    BY <1>4, <1>5, <1>6, Zenon

\* The message goes to an actor that takes it, to one that has stopped, or to the
\* creator or the sink.
LEMMA Routed ==
    ASSUME TypeOK, HeldInv, TryRoute
    PROVE  LET m == Head(held) IN
           /\ m \in Message /\ m.to \in Keys /\ held[1] = m /\ DOMAIN held = {1}
           /\ \/ /\ handler \in Gens /\ actor[handler].life = "live"
                 /\ inbox' = [inbox EXCEPT ![handler] = Append(inbox[handler], m)] /\ UNCHANGED creatorQ
              \/ handler \in Gens /\ actor[handler].life = "stopped" /\ UNCHANGED <<inbox, creatorQ>>
              \/ handler = 0 /\ creatorQ' = Append(creatorQ, m) /\ UNCHANGED inbox
              \/ handler = 0 /\ m.op = "Request" /\ UNCHANGED <<inbox, creatorQ>>
  <1> DEFINE m == Head(held)
  <1>1. held \in Seq(Message) /\ held # <<>> /\ Len(held) <= 1
    BY DEF TryRoute, TypeOK
  <1>2. m \in Message /\ held[1] = m /\ DOMAIN held = {1}
    BY <1>1, SeqOne
  <1>3. m.to \in Keys
    BY <1>2 DEF Message
  <1> HIDE DEF m
  <1>4. CASE ToActor(handler)
    <2>1. handler \in Gens /\ actor[handler].life # "none" /\ actor[handler].life \in {"none", "live", "stopped"}
      BY <1>4 DEF ToActor, TypeOK, HeldInv
    <2> QED
      BY <1>2, <1>3, <1>4, <2>1 DEF ToActor, m
  <1>5. CASE ToCreator
    BY <1>2, <1>3, <1>5, Zenon DEF ToCreator, m
  <1>6. CASE ToSink
    <2>1. m.op = "Request"
      BY <1>2, <1>6 DEF ToSink, HeldInv
    <2> QED
      BY <1>2, <1>3, <1>6, <2>1, Zenon DEF ToSink, m
  <1> QED
    BY <1>4, <1>5, <1>6, Zenon DEF TryRoute

\* The router's send to the handler.
LEMMA TryRouteInv ==
    ASSUME RuntimeInv, TryRoute
    PROVE  RowsInv'
  <1> USE DEF RuntimeInv, RowsInv
  <1> DEFINE m == Head(held)
  <1>1. /\ UNCHANGED <<row, dirty, local, remote, forwarding, route, actor, spawned, raced>>
        /\ held' = <<>> /\ handler' = 0 /\ privacy' = "Private"
    BY Zenon DEF TryRoute, table
  <1>2. /\ m \in Message /\ m.to \in Keys /\ held[1] = m /\ DOMAIN held = {1}
        /\ \/ /\ handler \in Gens /\ actor[handler].life = "live"
              /\ inbox' = [inbox EXCEPT ![handler] = Append(inbox[handler], m)] /\ UNCHANGED creatorQ
           \/ handler \in Gens /\ actor[handler].life = "stopped" /\ UNCHANGED <<inbox, creatorQ>>
           \/ handler = 0 /\ creatorQ' = Append(creatorQ, m) /\ UNCHANGED inbox
           \/ handler = 0 /\ m.op = "Request" /\ UNCHANGED <<inbox, creatorQ>>
    BY Routed, Zenon
  <1> HIDE DEF m
  <1>3. inbox \in [Gens -> Seq(Message)] /\ creatorQ \in Seq(Message) /\ \A g \in Gens : g # 0
    BY EdgeRuntimeAssumption DEF TypeOK, Gens
  <1>4. HeldInv'
    <2>1. DOMAIN held' = {}
      BY <1>1, SeqEmpty, Zenon
    <2> QED
      BY <1>1, <2>1 DEF HeldInv
  <1>5. \A k : ~Has(held', k)
    BY <1>1, EmptyQueue, Zenon
  <1>6. RouteInv'
    <2>1. CASE inbox' = inbox
      BY <1>1, <2>1, RouteKept, Zenon
    <2>2. CASE /\ handler \in Gens /\ actor[handler].life = "live"
               /\ inbox' = [inbox EXCEPT ![handler] = Append(inbox[handler], m)]
      <3>1. m.to = actor[handler].key
        BY <1>2, <1>3, <2>2 DEF HeldInv
      <3>2. \A g \in Gens : g # handler => inbox'[g] = inbox[g]
        BY <1>3, <2>2
      <3>3. \A i \in DOMAIN inbox'[handler] : inbox'[handler][i] = m
                \/ (i \in DOMAIN inbox[handler] /\ inbox'[handler][i] = inbox[handler][i])
        BY <1>2, <1>3, <2>2, SeqAppend, SeqRange
      <3>4. \A g \in Gens : actor'[g].life # "live" => inbox'[g] = <<>>
        BY <1>1, <2>2, <3>2, Zenon DEF RouteInv
      <3>5. \A g \in Gens : \A i \in DOMAIN inbox'[g] : inbox'[g][i].to = actor'[g].key
        <4>1. \A i \in DOMAIN inbox'[handler] : inbox'[handler][i].to = actor[handler].key
          BY <2>2, <3>1, <3>3 DEF RouteInv
        <4>2. \A g \in Gens : g # handler => \A i \in DOMAIN inbox'[g] : inbox'[g][i].to = actor[g].key
          BY <3>2, Zenon DEF RouteInv
        <4> QED
          BY <1>1, <4>1, <4>2, Zenon
      <3> QED
        BY <1>1, <3>4, <3>5, Zenon DEF RouteInv
    <2> QED
      BY <1>2, <2>1, <2>2, Zenon
  <1>7. ASSUME NEW k \in Keys \ raced', ~IsUpdate(m, k) PROVE KeyInv(k)'
    <2>1. Same(creatorQ, creatorQ', k)
      BY <1>2, <1>3, <1>7, SameAppend, SameQueue, Zenon
    <2>2. \A g \in Gens : Same(inbox[g], inbox'[g], k)
      <3>1. \A g \in Gens : inbox[g] \in Seq(Message) /\ (inbox'[g] = inbox[g] \/ inbox'[g] = Append(inbox[g], m))
        BY <1>2, <1>3
      <3>2. ASSUME NEW g \in Gens, inbox'[g] = Append(inbox[g], m) PROVE Same(inbox[g], inbox'[g], k)
        <4>1. Same(inbox[g], Append(inbox[g], m), k)
          BY <1>2, <1>7, <3>1, SameAppend
        <4> QED
          BY <3>2, <4>1, Zenon
      <3> QED
        BY <3>1, <3>2, SameQueue, Zenon
    <2>3. ~Has(held, k)
      BY <1>2, <1>7, Zenon DEF Has
    <2>4. Same(held, held', k)
      BY <1>5, <2>3, SameNone, Zenon
    <2>5. Live(k)' = Live(k) /\ Stopped(k)' = Stopped(k)
      BY <1>1, ActorsKept, Zenon
    <2> QED
      BY <1>1, <1>7, <2>1, <2>2, <2>3, <2>4, <2>5, SameKept, SameQueue, Zenon
  <1>8. ASSUME NEW k \in Keys \ raced', IsUpdate(m, k) PROVE KeyInv(k)'
    <2>1. KeyInv(k) /\ Has(held, k) /\ m.op # "Request" /\ k \in Keys \ raced
      BY <1>1, <1>2, <1>8 DEF Has, IsUpdate
    <2>2. ~Has(creatorQ, k) /\ ~Has(forwarding, k)
      BY <2>1, Zenon DEF KeyInv, PlaceInv
    <2>3. Present(k)' = Present(k)
      BY <1>1, Zenon DEF Present
    <2>4. k \notin dirty /\ ~Has(local, k) => m = Present(k)
      <3>1. k \notin dirty /\ ~Has(local, k) => Ends(held, k, Present(k))
        BY <2>1, Zenon DEF KeyInv, FreshInv, Fresh
      <3> QED
        BY <1>2, <3>1 DEF Ends
    <2>5. /\ \A g \in Gens : Has(inbox[g], k) => g = route[k] /\ route[k] # 0
          /\ handler # 0 => handler = route[k] /\ actor[handler].key = k
      BY <2>1, Addressed, Zenon
    <2>6. CASE handler = 0 /\ creatorQ' = Append(creatorQ, m) /\ UNCHANGED inbox
      <3>1. route[k] = 0 /\ ~Has(local, k)
        BY <2>1, <2>6, Zenon DEF KeyInv, PlaceInv
      <3>2. Has(creatorQ', k) /\ Ends(creatorQ', k, m) /\ Once(creatorQ', k)
        BY <1>2, <1>3, <1>8, <2>2, <2>6, AppendUpdate, Zenon
      <3>3. PlaceInv(k)'
        BY <1>1, <1>5, <2>2, <3>1, <3>2, NoneOnce, Zenon DEF PlaceInv
      <3>4. \A g \in Gens : ~Has(inbox'[g], k)
        BY <2>5, <2>6, <3>1, Zenon
      <3>5. FreshInv(k)'
        BY <1>1, <1>5, <2>2, <2>3, <2>4, <3>1, <3>2, <3>4, Zenon DEF FreshInv, Fresh
      <3> QED
        BY <3>2, <3>3, <3>5, Zenon DEF KeyInv, FollowInv, Settled
    <2>7. CASE /\ handler \in Gens /\ actor[handler].life = "live"
               /\ inbox' = [inbox EXCEPT ![handler] = Append(inbox[handler], m)] /\ UNCHANGED creatorQ
      <3>1. /\ inbox'[handler] = Append(inbox[handler], m) /\ inbox[handler] \in Seq(Message)
            /\ \A g \in Gens : g # handler => inbox'[g] = inbox[g]
        BY <1>3, <2>7
      <3>2. Has(inbox'[handler], k) /\ Ends(inbox'[handler], k, m)
        BY <1>2, <1>8, <3>1, AppendUpdate, Zenon
      <3>3. \A g \in Gens : g # handler => ~Has(inbox'[g], k)
        BY <1>3, <2>5, <2>7, <3>1, Zenon
      <3>4. PlaceInv(k)'
        BY <1>1, <1>5, <2>1, <2>2, <2>7, Zenon DEF KeyInv, PlaceInv
      <3>5. FreshInv(k)'
        BY <1>1, <1>5, <2>1, <2>2, <2>3, <2>4, <2>7, <3>2, <3>3, Zenon DEF KeyInv, FreshInv, Fresh
      <3> QED
        BY <2>7, <3>2, <3>4, <3>5, Zenon DEF KeyInv, FollowInv, Settled, InboxHas
    <2>8. CASE handler \in Gens /\ actor[handler].life = "stopped" /\ UNCHANGED <<inbox, creatorQ>>
      <3>1. handler = route[k] /\ actor[handler].key = k /\ actor[handler].life # "live"
        BY <1>3, <2>5, <2>8
      <3>2. \A g \in Gens : ~Has(inbox'[g], k)
        BY <2>5, <2>8, <3>1, EmptyQueue, Zenon DEF RouteInv
      <3>3. PlaceInv(k)'
        BY <1>1, <1>5, <2>1, <2>2, <2>8, Zenon DEF KeyInv, PlaceInv
      <3>4. FreshInv(k)'
        BY <1>1, <1>5, <2>1, <2>2, <2>3, <2>8, <3>2, Zenon DEF KeyInv, FreshInv, Fresh
      <3>5. Live(k) = {} /\ handler \in Stopped(k)
        BY <2>1, <2>8, <3>1, RouteActors DEF Live, Stopped
      <3>6. Live(k)' = {} /\ Stopped(k)' # {}
        BY <1>1, <3>5, ActorsKept, Zenon
      <3> QED
        BY <3>3, <3>4, <3>6, Zenon DEF KeyInv, FollowInv
    <2> QED
      BY <1>2, <2>1, <2>6, <2>7, <2>8, Zenon
  <1> QED
    BY <1>4, <1>6, <1>7, <1>8, Zenon

-----------------------------------------------------------------------------
\* The creator takes a message.
LEMMA CreatorHandleInv ==
    ASSUME RuntimeInv, CreatorHandle
    PROVE  RowsInv'
  <1> USE DEF RuntimeInv, RowsInv
  <1> DEFINE m == Head(creatorQ)
             Spawns == /\ spawned < MaxSpawned /\ spawned' = spawned + 1
                       /\ route' = [route EXCEPT ![m.to] = spawned']
                       /\ actor' = [actor EXCEPT ![spawned'] = [key |-> m.to, life |-> "live", config |-> 0]]
  <1>1. /\ UNCHANGED <<row, dirty, local, remote, held, handler, privacy, inbox, raced>>
        /\ forwarding = <<>> /\ creatorQ # <<>> /\ creatorQ' = Tail(creatorQ)
    BY Zenon DEF CreatorHandle, table, router
  <1>2. IF m.op = "Set" THEN Spawns /\ forwarding' = <<m>>
        ELSE forwarding' = <<Response(m.to)>> /\ UNCHANGED <<spawned, route, actor>>
    BY DEF CreatorHandle
  <1>3. creatorQ \in Seq(Message) /\ m \in Message /\ m.to \in Keys
    <2>1. creatorQ \in Seq(Message)
      BY DEF TypeOK
    <2>2. m \in Message
      BY <1>1, <2>1, SeqTail
    <2> QED
      BY <2>1, <2>2 DEF Message
  <1> HIDE DEF m, Spawns
  <1>4. ASSUME NEW k \in Keys \ raced, IsUpdate(m, k)
        PROVE  /\ m.to = k /\ route[k] = 0 /\ ~Has(local, k) /\ ~Has(held, k) /\ ~Has(creatorQ', k)
               /\ k \notin dirty => m = Present(k)
               /\ \A g \in Gens : ~Has(inbox[g], k)
    <2>1. KeyInv(k) /\ k \in Keys
      BY <1>4, Zenon
    <2>2. /\ Has(creatorQ, k) /\ ~Has(creatorQ', k)
          /\ \A x : Ends(creatorQ, k, x) => m = x
      BY <1>1, <1>3, <1>4, <2>1, TailUpdate, Zenon DEF m, KeyInv, PlaceInv
    <2>3. k \notin dirty => m = Present(k)
      BY <2>1, <2>2, Zenon DEF KeyInv, FreshInv, Fresh
    <2>4. route[k] = 0 /\ ~Has(local, k) /\ ~Has(held, k)
      BY <2>1, <2>2, Zenon DEF KeyInv, PlaceInv
    <2> QED
      BY <1>4, <2>1, <2>2, <2>3, <2>4, Addressed, Zenon DEF IsUpdate
  <1>5. m.op = "Set" => IsUpdate(m, m.to)
    BY DEF IsUpdate
  <1>6. /\ RouteInv' /\ HeldInv' /\ (m.op = "Set" => route'[m.to] # 0)
        /\ \A k \in Keys : k # m.to \/ m.op # "Set" =>
             /\ route'[k] = route[k] /\ Live(k)' = Live(k) /\ Stopped(k)' = Stopped(k)
             /\ route[k] \in Live(k) => actor'[route[k]] = actor[route[k]]
    <2>1. CASE m.op = "Set"
      <3>1. m.to \in raced \/ route[m.to] = 0
        BY <1>3, <1>4, <1>5, <2>1, Zenon
      <3>2. Spawns
        BY <1>2, <2>1, Zenon
      <3> QED
        BY <1>1, <1>3, <2>1, <3>1, <3>2, SpawnActor, Zenon DEF Spawns
    <2>2. CASE m.op # "Set"
      <3>1. UNCHANGED <<spawned, route, actor>>
        BY <1>2, <2>2, Zenon
      <3> QED
        BY <1>1, <2>2, <3>1, ActorsKept, RouteKept, HeldKept, Zenon
    <2> QED
      BY <2>1, <2>2, Zenon
  <1>7. \A k : ~Has(forwarding, k)
    BY <1>1, EmptyQueue, Zenon
  <1>8. ASSUME NEW k \in Keys \ raced', ~IsUpdate(m, k) PROVE KeyInv(k)'
    <2>1. Same(creatorQ, creatorQ', k)
      BY <1>1, <1>3, <1>8, SameTail, Zenon DEF m
    <2>2. ~Has(forwarding', k)
      BY <1>2, <1>8, OnlyOther, NotUpdate, Zenon
    <2>3. Same(forwarding, forwarding', k)
      BY <1>7, <2>2, SameNone, Zenon
    <2>4. /\ route'[k] = route[k] /\ Live(k)' = Live(k) /\ Stopped(k)' = Stopped(k)
          /\ route[k] \in Live(k) => actor'[route[k]] = actor[route[k]]
      BY <1>5, <1>6, <1>8, Zenon
    <2> QED
      BY <1>1, <1>8, <2>1, <2>3, <2>4, SameKept, SameQueue, Zenon
  <1>9. ASSUME NEW k \in Keys \ raced', IsUpdate(m, k) PROVE KeyInv(k)'
    <2>1. /\ m.to = k /\ route[k] = 0 /\ ~Has(local', k) /\ ~Has(held', k) /\ ~Has(creatorQ', k)
          /\ k \notin dirty' => m = Present(k)
          /\ \A g \in Gens : ~Has(inbox'[g], k)
          /\ Present(k)' = Present(k)
      BY <1>1, <1>4, <1>9, Zenon DEF Present
    <2>2. ~InboxHas(k)'
      BY <2>1, Zenon DEF InboxHas
    <2>3. CASE m.op = "Set"
      <3>1. forwarding' = <<m>> /\ route'[k] # 0
        BY <1>2, <1>6, <2>1, <2>3, Zenon
      <3>2. Has(forwarding', k) /\ Ends(forwarding', k, m)
        BY <1>9, <3>1, OnlyUpdate, Zenon
      <3>3. PlaceInv(k)' /\ FreshInv(k)'
        BY <2>1, <2>2, <3>1, <3>2, NoneOnce, Zenon DEF PlaceInv, FreshInv, Fresh
      <3> QED
        BY <3>2, <3>3, Zenon DEF KeyInv, FollowInv, Settled
    <2>4. CASE m.op # "Set"
      <3>1. forwarding' = <<Response(m.to)>>
        BY <1>2, <2>4, Zenon
      <3>2. ~Has(forwarding', k)
        BY <3>1, OnlyOther, NotUpdate, Zenon
      <3>3. PlaceInv(k)' /\ FreshInv(k)'
        BY <2>1, <3>2, NoneOnce, Zenon DEF PlaceInv, FreshInv, Fresh
      <3>4. k \notin dirty' => row'[k] = 0
        BY <1>1, <2>1, <2>4 DEF Present
      <3>5. Live(k)' = {}
        BY <1>1, <1>6, <1>9, <2>1, <2>4, RouteActors, Zenon
      <3> QED
        BY <3>3, <3>4, <3>5, Zenon DEF KeyInv, FollowInv, Settled
    <2> QED
      BY <2>3, <2>4, Zenon
  <1> QED
    BY <1>6, <1>8, <1>9, Zenon

\* The creator sends what it forwards, or the error.
LEMMA CreatorSendInv ==
    ASSUME RuntimeInv, CreatorSend
    PROVE  RowsInv'
  <1> USE DEF RuntimeInv, RowsInv
  <1> DEFINE m == Head(forwarding)
  <1>1. /\ UNCHANGED <<row, dirty, remote, held, handler, privacy, creatorQ, route, actor, inbox, spawned, raced>>
        /\ forwarding # <<>> /\ local' = local \o forwarding /\ forwarding' = <<>>
    BY Zenon DEF CreatorSend, table, router, actors
  <1>2. RouteInv' /\ HeldInv'
    BY <1>1, RouteKept, HeldKept, Zenon
  <1>3. local \in Seq(Message) /\ forwarding \in Seq(Message) /\ Len(forwarding) <= 1
    BY DEF TypeOK
  <1>4. local' = Append(local, m) /\ m \in Message /\ DOMAIN forwarding = {1} /\ forwarding[1] = m
    BY <1>1, <1>3, SeqOne
  <1> HIDE DEF m
  <1>5. \A k : ~Has(forwarding', k)
    BY <1>1, EmptyQueue, Zenon
  <1>6. ASSUME NEW k \in Keys \ raced', ~IsUpdate(m, k) PROVE KeyInv(k)'
    <2>1. Same(local, local', k)
      BY <1>3, <1>4, <1>6, SameAppend, Zenon
    <2>2. ~Has(forwarding, k)
      BY <1>4, <1>6, Zenon DEF Has
    <2>3. Same(forwarding, forwarding', k)
      BY <1>5, <2>2, SameNone, Zenon
    <2>4. Live(k)' = Live(k) /\ Stopped(k)' = Stopped(k)
      BY <1>1, ActorsKept, Zenon
    <2> QED
      BY <1>1, <1>6, <2>1, <2>3, <2>4, SameKept, SameQueue, Zenon
  <1>7. ASSUME NEW k \in Keys \ raced', IsUpdate(m, k) PROVE KeyInv(k)'
    <2>1. KeyInv(k) /\ 1 \in DOMAIN forwarding
      BY <1>1, <1>4, <1>7, Zenon
    <2>2. Has(forwarding, k)
      BY <1>4, <1>7, <2>1, Zenon DEF Has
    <2>3. route[k] # 0 /\ ~Has(held, k) /\ ~Has(creatorQ, k)
      BY <2>1, <2>2, Zenon DEF KeyInv, PlaceInv
    <2>4. k \notin dirty => m = Present(k)
      <3>1. k \notin dirty => Ends(forwarding, k, Present(k))
        BY <2>1, <2>2, Zenon DEF KeyInv, FreshInv, Fresh
      <3> QED
        BY <1>4, <3>1 DEF Ends
    <2>5. Has(local', k) /\ Ends(local', k, m)
      BY <1>3, <1>4, <1>7, AppendUpdate, Zenon
    <2>6. Present(k)' = Present(k)
      BY <1>1, Zenon DEF Present
    <2>7. PlaceInv(k)' /\ FreshInv(k)'
      BY <1>1, <1>5, <2>3, <2>4, <2>5, <2>6, NoneOnce, Zenon DEF PlaceInv, FreshInv, Fresh
    <2> QED
      BY <2>5, <2>7, Zenon DEF KeyInv, FollowInv, Settled
  <1> QED
    BY <1>2, <1>6, <1>7, Zenon

\* An actor handles a message.
LEMMA ActorHandleInv ==
    ASSUME RuntimeInv, NEW g \in Gens, ActorHandle(g)
    PROVE  RowsInv'
  <1> USE DEF RuntimeInv, RowsInv
  <1> DEFINE m == Head(inbox[g])
  <1>1. /\ UNCHANGED <<row, dirty, remote, held, handler, privacy, creatorQ, forwarding, route, spawned, raced>>
        /\ local' = Append(local, Response(actor[g].key))
        /\ actor[g].life = "live" /\ inbox[g] # <<>>
        /\ actor' = CASE m.op = "Set" -> [actor EXCEPT ![g].config = m.version]
                      [] m.op = "Del" -> [actor EXCEPT ![g].life = "stopped"]
                      [] OTHER -> actor
        /\ inbox' = [inbox EXCEPT ![g] = IF m.op = "Del" THEN <<>> ELSE Tail(inbox[g])]
    BY DEF ActorHandle, table, router, creator
  <1>2. /\ inbox[g] \in Seq(Message) /\ inbox \in [Gens -> Seq(Message)]
        /\ actor[g].key \in Keys /\ local \in Seq(Message)
    <2>1. /\ inbox \in [Gens -> Seq(Message)] /\ local \in Seq(Message)
          /\ actor \in [Gens -> [key : Keys, life : {"none", "live", "stopped"}, config : 0..MaxUpdates]]
      BY Zenon DEF TypeOK
    <2> QED
      BY <2>1
  <1>3. m \in Message /\ m.to = actor[g].key
    <2>1. m \in Message /\ m = inbox[g][1] /\ 1 \in DOMAIN inbox[g]
      BY <1>1, <1>2, SeqTail, SeqRange, SeqEmpty
    <2> QED
      BY <2>1, Zenon DEF RouteInv
  <1> HIDE DEF m
  <1>4. /\ inbox'[g] = (IF m.op = "Del" THEN <<>> ELSE Tail(inbox[g]))
        /\ \A h \in Gens : h # g => inbox'[h] = inbox[h]
    BY <1>1, <1>2
  <1>5. /\ \A h \in Gens : h # g => actor'[h] = actor[h]
        /\ actor'[g].key = actor[g].key
        /\ m.op = "Set" => actor'[g].life = "live" /\ actor'[g].config = m.version
        /\ m.op = "Del" => actor'[g].life = "stopped"
        /\ m.op \notin {"Set", "Del"} => actor' = actor
    <2>1. actor \in [Gens -> [key : Keys, life : {"none", "live", "stopped"}, config : 0..MaxUpdates]]
      BY DEF TypeOK
    <2>2. CASE m.op = "Set"
      BY <1>1, <2>1, <2>2
    <2>3. CASE m.op = "Del"
      BY <1>1, <2>1, <2>3
    <2>4. CASE m.op \notin {"Set", "Del"}
      BY <1>1, <2>4
    <2> QED
      BY <2>2, <2>3, <2>4
  <1>6. \A h \in Gens : actor'[h].key = actor[h].key /\ (actor'[h].life = "none" <=> actor[h].life = "none")
    BY <1>1, <1>5
  <1>7. RouteInv'
    <2>1. \A k \in Keys : route[k] \in Gens \cup {0}
      BY DEF TypeOK
    <2>2. \A k \in Keys : route'[k] # 0 => actor'[route'[k]].key = k /\ actor'[route'[k]].life # "none"
      BY <1>1, <1>6, <2>1 DEF RouteInv
    <2>3. \A h \in Gens : actor'[h].life # "none" =>
              h <= spawned' /\ (actor'[h].key \notin raced' => route'[actor'[h].key] = h)
      BY <1>1, <1>6 DEF RouteInv
    <2>4. actor'[g].life # "live" => inbox'[g] = <<>>
      BY <1>1, <1>4, <1>5
    <2>5. \A h \in Gens : actor'[h].life # "live" => inbox'[h] = <<>>
      BY <1>4, <1>5, <2>4, Zenon DEF RouteInv
    <2>6. \A i \in DOMAIN inbox'[g] : i + 1 \in DOMAIN inbox[g] /\ inbox'[g][i] = inbox[g][i + 1]
      BY <1>1, <1>2, <1>4, SeqTail, SeqRange, SeqEmpty
    <2>7. \A h \in Gens : \A i \in DOMAIN inbox'[h] : inbox'[h][i].to = actor'[h].key
      <3>1. \A i \in DOMAIN inbox'[g] : inbox'[g][i].to = actor[g].key
        <4>1. \A i \in DOMAIN inbox[g] : inbox[g][i].to = actor[g].key
          BY Zenon DEF RouteInv
        <4> QED
          BY <2>6, <4>1
      <3>2. \A h \in Gens : h # g => \A i \in DOMAIN inbox'[h] : inbox'[h][i].to = actor[h].key
        BY <1>4, Zenon DEF RouteInv
      <3> QED
        BY <1>6, <3>1, <3>2, Zenon
    <2> QED
      BY <2>2, <2>3, <2>5, <2>7, Zenon DEF RouteInv
  <1>8. HeldInv'
    <2>1. handler # 0 => handler \in Gens
      BY DEF TypeOK
    <2> QED
      BY <1>1, <1>6, <2>1, Zenon DEF HeldInv
  <1>9. \A k \in Keys : Same(local, local', k)
    <2>1. Response(actor[g].key) \in Message
      BY <1>2, MessageTypes
    <2> QED
      BY <1>1, <1>2, <2>1, NotUpdate, SameAppend, Zenon
  <1>10. ASSUME NEW k \in Keys \ raced', ~IsUpdate(m, k) PROVE KeyInv(k)'
    <2>1. KeyInv(k) /\ k \in Keys
      BY <1>1, <1>10, Zenon
    <2>2. m.op \in {"Set", "Del"} => actor[g].key # k
      BY <1>3, <1>10 DEF IsUpdate
    <2>3. m.op \in {"Set", "Del"} => route[k] # g /\ ~Has(inbox[g], k)
      <3>1. \A h \in Gens : h # 0
        BY EdgeRuntimeAssumption DEF Gens
      <3> QED
        BY <2>1, <2>2, <3>1, Addressed, Zenon DEF RouteInv
    <2>4. Same(inbox[g], inbox'[g], k)
      <3>1. CASE m.op = "Del"
        <4>1. ~Has(inbox[g], k) /\ inbox'[g] = <<>>
          BY <1>4, <2>3, <3>1
        <4> QED
          BY <4>1, EmptyQueue, SameNone, Zenon
      <3>2. CASE m.op # "Del"
        BY <1>1, <1>2, <1>4, <1>10, <3>2, SameTail, Zenon DEF m
      <3> QED
        BY <3>1, <3>2
    <2>5. \A h \in Gens : Same(inbox[h], inbox'[h], k)
      BY <1>4, <2>4, SameQueue, Zenon
    <2>6. Live(k)' = Live(k) /\ Stopped(k)' = Stopped(k)
      <3>1. CASE m.op \notin {"Set", "Del"}
        BY <1>5, <3>1, ActorsKept, Zenon
      <3>2. CASE m.op \in {"Set", "Del"}
        BY <1>5, <2>2, <3>2 DEF Live, Stopped
      <3> QED
        BY <3>1, <3>2
    <2>7. route[k] \in Live(k) => actor'[route[k]].config = actor[route[k]].config
      BY <1>5, <2>3 DEF Live
    <2> QED
      BY <1>1, <1>9, <2>1, <2>5, <2>6, <2>7, SameKept, SameQueue, Zenon
  <1>11. ASSUME NEW k \in Keys \ raced', IsUpdate(m, k) PROVE KeyInv(k)'
    <2>1. KeyInv(k) /\ k \in Keys \ raced /\ actor[g].key = k
      BY <1>1, <1>3, <1>11, Zenon DEF IsUpdate
    <2>2. /\ Has(inbox[g], k)
          /\ \A x : Ends(inbox[g], k, x) => IF Has(Tail(inbox[g]), k) THEN Ends(Tail(inbox[g]), k, x) ELSE m = x
      BY <1>1, <1>2, <1>11, TailUpdate, Zenon DEF m
    <2>3. g = route[k] /\ \A h \in Gens : h # g => ~Has(inbox[h], k)
      <3>1. \A h \in Gens : Has(inbox[h], k) => h = route[k]
        BY <2>1, Addressed, Zenon
      <3> QED
        BY <2>2, <3>1, Zenon
    <2>4. ~Has(forwarding, k)
      BY <2>1, <2>2, Zenon DEF KeyInv, PlaceInv, InboxHas
    <2>5. (Has(local', k) <=> Has(local, k)) /\ (Once(local, k) => Once(local', k))
          /\ \A x : Ends(local, k, x) => Ends(local', k, x)
      BY <1>9, <2>1, Zenon DEF Same
    <2>6. PlaceInv(k)'
      BY <1>1, <2>1, <2>4, <2>5, Zenon DEF KeyInv, PlaceInv
    <2>7. \A h \in Gens : h # g => ~Has(inbox'[h], k)
      BY <1>4, <2>3, Zenon
    <2>8. Present(k)' = Present(k)
      BY <1>1, Zenon DEF Present
    <2>9. /\ k \notin dirty => Fresh(local, k)' /\ Fresh(creatorQ, k)' /\ Fresh(forwarding, k)'
          /\ k \notin dirty /\ ~Has(local, k) => Fresh(held, k)'
          /\ k \notin dirty /\ ~Has(local, k) /\ ~Has(held, k) => Ends(inbox[g], k, Present(k))
      BY <1>1, <2>1, <2>2, <2>5, <2>8, Zenon DEF KeyInv, FreshInv, Fresh
    <2>10. m.op \in {"Set", "Del"}
      BY <1>11 DEF IsUpdate
    <2>11. CASE m.op = "Set"
      <3>1. inbox'[g] = Tail(inbox[g])
        BY <1>4, <2>11
      <3>2. FreshInv(k)'
        BY <1>1, <2>2, <2>5, <2>7, <2>8, <2>9, <3>1, Zenon DEF FreshInv, Fresh
      <3>3. Settled(k)' => m = Present(k)
        BY <1>1, <2>2, <2>5, <2>9, <3>1, Zenon DEF Settled, InboxHas
      <3>4. m = Present(k) => row'[k] # 0 /\ actor'[g].config = row'[k]
        BY <1>1, <1>5, <2>11 DEF Present
      <3>5. g \in Live(k)' /\ route'[k] = g
        BY <1>1, <1>5, <2>1, <2>3, <2>11 DEF Live
      <3>6. FollowInv(k)'
        BY <3>3, <3>4, <3>5, Zenon DEF FollowInv
      <3> QED
        BY <2>6, <3>2, <3>6, Zenon DEF KeyInv
    <2>12. CASE m.op = "Del"
      <3>1. ~Has(inbox'[g], k)
        BY <1>4, <2>12, EmptyQueue, Zenon
      <3>2. FreshInv(k)'
        BY <1>1, <2>5, <2>7, <2>9, <3>1, Zenon DEF FreshInv, Fresh
      <3>3. \A h \in Gens : h # g => ~(actor[h].key = k /\ actor[h].life = "live")
        BY <2>1, <2>3, RouteActors DEF Live
      <3>4. Live(k)' = {} /\ g \in Stopped(k)'
        BY <1>5, <2>1, <2>12, <3>3 DEF Live, Stopped
      <3>5. FollowInv(k)'
        BY <3>4, Zenon DEF FollowInv
      <3> QED
        BY <2>6, <3>2, <3>5, Zenon DEF KeyInv
    <2> QED
      BY <2>10, <2>11, <2>12
  <1> QED
    BY <1>7, <1>8, <1>10, <1>11, Zenon

-----------------------------------------------------------------------------
\* The types and the capacities hold in every reachable state, for channels of any
\* size (message_router.rs, actors.rs).
THEOREM TypeCorrect == Spec => []TypeOK
  BY InitTypeOK, NextTypeOK, PTL DEF Spec

\* Every step keeps RuntimeInv.
LEMMA NextRuntimeInv == RuntimeInv /\ [Next]_vars => RuntimeInv'
  <1> SUFFICES ASSUME RuntimeInv, [Next]_vars PROVE RuntimeInv'
    OBVIOUS
  <1>1. TypeOK'
    BY NextTypeOK DEF RuntimeInv
  <1>2. RowsInv'
    <2>1. CASE UNCHANGED vars
      <3>1. UNCHANGED <<row, dirty, local, remote, held, handler, privacy, creatorQ, forwarding, route, actor,
                        inbox, spawned, raced>>
        BY <2>1, Zenon DEF vars, table, router, creator, actors
      <3>2. RouteInv' /\ HeldInv'
        BY <3>1, RouteKept, HeldKept, Zenon DEF RuntimeInv, RowsInv
      <3>3. ASSUME NEW k \in Keys \ raced' PROVE KeyInv(k)'
        <4>1. Live(k)' = Live(k) /\ Stopped(k)' = Stopped(k)
          BY <3>1, ActorsKept, Zenon
        <4> QED
          BY <3>1, <3>3, <4>1, SameKept, SameQueue, Zenon DEF RuntimeInv, RowsInv
      <3> QED
        BY <3>2, <3>3, Zenon DEF RowsInv
    <2> QED
      BY <2>1, ChangeInv, BridgeSendInv, AskInv, RouteLocalInv, RouteRemoteInv, TryRouteInv, SinkInv,
         CreatorHandleInv, CreatorSendInv, ActorHandleInv, Zenon DEF Next, Work
  <1> QED
    BY <1>1, <1>2, Zenon DEF RuntimeInv

\* RuntimeInv holds in every reachable state: an update that does not race with the
\* creation of its actor is in one place, and the last one is the present row.
THEOREM RuntimeInvariant == Spec => []RuntimeInv
  BY InitRuntimeInv, NextRuntimeInv, PTL DEF Spec

\* The actor of a row follows it through any burst of updates, as long as none is
\* sent while the actor is being created for an earlier one: there is never more
\* than one, it is gone when the updates of a deleted row are through, and otherwise
\* has the last version, unless an actor of the row was stopped before
\* (route_message, handle_received_message of the creator, the actor's driver).
THEOREM ActorFollowsRowAlways == Spec => []ActorFollowsRow
  <1>1. RuntimeInv => ActorFollowsRow
    <2> SUFFICES ASSUME RuntimeInv, NEW k \in Keys \ raced
                 PROVE  /\ Cardinality(Live(k)) <= 1
                        /\ Quiet(k) /\ row[k] = 0 => Live(k) = {}
                        /\ Quiet(k) /\ row[k] # 0 /\ Stopped(k) = {} =>
                               \E g \in Live(k) : route[k] = g /\ actor[g].config = row[k]
      BY Zenon DEF ActorFollowsRow
    <2>1. Cardinality(Live(k)) <= 1
      <3>1. Live(k) = {} \/ Live(k) = {route[k]}
        BY RouteActors DEF RuntimeInv, RowsInv
      <3>2. Cardinality({}) = 0 /\ Cardinality({route[k]}) = 1
        BY FS_EmptySet, FS_Singleton, Zenon
      <3> QED
        BY <3>1, <3>2
    <2>2. Quiet(k) => Settled(k)
      BY HasUpdates, Zenon DEF Quiet, Settled, InboxHas
    <2> QED
      BY <2>1, <2>2, Zenon DEF RuntimeInv, RowsInv, KeyInv, FollowInv
  <1> QED
    BY <1>1, RuntimeInvariant, PTL

\* No row gets a second actor, whether its first one lives or has stopped, unless an
\* update was sent while the first was being created: the route of a stopped actor
\* stays, and the creator is not asked again (route_message).
SpawnedOnce ==
    \A g, h \in Gens :
        /\ actor[g].life # "none" /\ actor[h].life # "none"
        /\ actor[g].key = actor[h].key /\ actor[g].key \notin raced
        => g = h

\* An actor is spawned once for a row, unless an update was sent while it was being
\* created.
THEOREM SpawnedOnceAlways == Spec => []SpawnedOnce
  <1>1. RuntimeInv => SpawnedOnce
    <2>1. RuntimeInv =>
            \A g \in Gens : actor[g].life # "none" /\ actor[g].key \notin raced => route[actor[g].key] = g
      BY Zenon DEF RuntimeInv, RowsInv, RouteInv
    <2> QED
      BY <2>1 DEF SpawnedOnce
  <1> QED
    BY <1>1, RuntimeInvariant, PTL
=============================================================================
