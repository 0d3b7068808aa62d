------------------------- MODULE ActorChannelProofs -------------------------
(***************************************************************************)
(* Proofs about ActorChannel for every set of keys, every DropTime and     *)
(* every value of the bounds.  ChannelInv adds to the properties what makes*)
(* them inductive: ids in the queue are fresh and in order, an Ok in flight*)
(* comes from a request the receiver took, and the latest message of a key *)
(* is pending or acked but never both.                                     *)
(***************************************************************************)
EXTENDS ActorChannel, TLAPS

\* Ids are handed out in order: those sent are below nextId, those queued are
\* not sent yet and increase along the queue.
IdsFresh ==
    /\ \A i \in launched : i < nextId
    /\ \A n \in DOMAIN queued : queued[n].id < nextId /\ queued[n].id \notin launched
    /\ \A m, n \in DOMAIN queued : m < n => queued[m].id < queued[n].id

\* Only a request the receiver took is answered Ok.
OkWasDelivered ==
    \A n \in DOMAIN resps : resps[n].code = "Ok" => resps[n].id \in DOMAIN replied

\* An acked message is no longer pending.
AckedNotPending ==
    \A k \in DOMAIN sent : sent[k].acked => sent[k].id \notin DOMAIN unacked

ChannelInv ==
    /\ TypeOK
    /\ IdsFresh
    /\ OkWasDelivered
    /\ AckedNotPending
    /\ UnackedHasSent
    /\ AckedWasDelivered
    /\ NothingForgotten

-----------------------------------------------------------------------------
\* The empty sequence, and when a sequence is it.
LEMMA SeqEmpty ==
    /\ DOMAIN <<>> = {} /\ Len(<<>>) = 0 /\ \A S : <<>> \in Seq(S)
    /\ \A S : \A s \in Seq(S) : (s = <<>>) <=> (Len(s) = 0)
  OBVIOUS

\* A sequence is a function on 1..Len(s) whose values are in its set.
LEMMA SeqRange ==
    ASSUME NEW S, NEW s \in Seq(S)
    PROVE  Len(s) \in Nat /\ DOMAIN s = 1..Len(s) /\ \A i \in 1..Len(s) : s[i] \in S
  OBVIOUS

\* A sequence with an element put at its end.
LEMMA SeqAppend ==
    ASSUME NEW S, NEW s \in Seq(S), NEW x \in S
    PROVE  /\ Append(s, x) \in Seq(S) /\ Append(s, x) # <<>> /\ Len(Append(s, x)) = Len(s) + 1
           /\ Append(s, x)[Len(s) + 1] = x /\ \A i \in 1..Len(s) : Append(s, x)[i] = s[i]
  OBVIOUS

\* The head and the tail of a sequence that is not empty.
LEMMA SeqTail ==
    ASSUME NEW S, NEW s \in Seq(S), s # <<>>
    PROVE  /\ Head(s) \in S /\ Head(s) = s[1] /\ Tail(s) \in Seq(S) /\ Len(Tail(s)) = Len(s) - 1
           /\ \A i \in 1..Len(Tail(s)) : Tail(s)[i] = s[i + 1]
  OBVIOUS

\* Two sequences one after the other, and a part of one.
LEMMA SeqParts ==
    ASSUME NEW S, NEW s \in Seq(S), NEW r \in Seq(S)
    PROVE  /\ s \o r \in Seq(S)
           /\ \A m \in 1..(Len(s) + 1), n \in 0..Len(s) : SubSeq(s, m, n) \in Seq(S)
  OBVIOUS

\* What is left of a sequence when one element is taken out of it.
LEMMA RemoveAtProperties ==
    ASSUME NEW S, NEW s \in Seq(S), NEW i \in DOMAIN s
    PROVE  RemoveAt(s, i) \in Seq(S)
  <1>1. i \in 1..Len(s) /\ Len(s) \in Nat /\ \A j \in 1..Len(s) : s[j] \in S
    BY SeqRange, Zenon
  <1>2. SubSeq(s, 1, i - 1) \in Seq(S)
    <2>1. \A j \in 1..(i - 1) : s[j] \in S
      BY <1>1
    <2> QED
      BY <1>1, <2>1, SeqParts
  <1>3. SubSeq(s, i + 1, Len(s)) \in Seq(S)
    <2>1. \A j \in (i + 1)..Len(s) : s[j] \in S
      BY <1>1
    <2> QED
      BY <1>1, <2>1, SeqParts
  <1> QED
    BY <1>2, <1>3, SeqParts, Zenon DEF RemoveAt

-----------------------------------------------------------------------------
\* The initial state has the invariant.
LEMMA InitChannelInv == Init => ChannelInv
  <1> SUFFICES ASSUME Init PROVE ChannelInv
    BY Zenon
  <1>1. TypeOK
    BY ActorChannelAssumption DEF Init, TypeOK, SenderType, NetworkType, ReceiverType
  <1>2. IdsFresh /\ OkWasDelivered /\ AckedNotPending
    BY DEF Init, IdsFresh, OkWasDelivered, AckedNotPending
  <1>3. UnackedHasSent /\ AckedWasDelivered /\ NothingForgotten
    BY DEF Init, UnackedHasSent, AckedWasDelivered, NothingForgotten
  <1> QED
    BY <1>1, <1>2, <1>3, Zenon DEF ChannelInv

\* Every step of the two drivers, the network and the processes keeps the types.
LEMMA NextTypeOK == TypeOK /\ [Next]_vars => TypeOK'
  <1> SUFFICES ASSUME TypeOK, [Next]_vars PROVE TypeOK'
    BY Zenon
  <1> USE ActorChannelAssumption DEF TypeOK
  <1>1. CASE BeginCallback
    BY <1>1, Zenon DEF BeginCallback, network, receiver, history, SenderType, NetworkType, ReceiverType
  <1>2. ASSUME NEW k \in Keys, Send(k) PROVE TypeOK'
    <2>1. [id |-> nextId, key |-> k, age |-> 0] \in Queued
      BY <1>2 DEF Send, SenderType, Queued, Ids
    <2>2. SenderType'
      BY <1>2, <2>1 DEF Send, SenderType, history
    <2> QED
      BY <1>2, <2>2, Zenon DEF Send, network, receiver, history, NetworkType, ReceiverType
  <1>3. CASE CallbackOk
    BY <1>3, Zenon DEF CallbackOk, network, receiver, history, SenderType, NetworkType, ReceiverType
  <1>4. CASE CallbackErr
    BY <1>4 DEF CallbackErr, network, receiver, history, SenderType, NetworkType, ReceiverType
  <1>5. CASE SendQueued
    <2> DEFINE m == Head(queued)
    <2>1. m \in Queued /\ Tail(queued) \in Seq(Queued)
      BY <1>5, SeqTail, Zenon DEF SendQueued, SenderType
    <2> HIDE DEF m
    <2>2. [id |-> m.id, key |-> m.key] \in Request /\ [key |-> m.key, age |-> m.age] \in Pending
      BY <2>1, Zenon DEF Queued, Request, Pending
    <2>3. SentEntry(m.key, m.id) \in Sent /\ SentEntry(m.key, m.id).id = m.id
      BY <2>1 DEF SentEntry, Sent, Codes, Queued, SenderType
    <2>4. m.id \in Ids /\ m.key \in Keys
      BY <2>1, Zenon DEF Queued
    <2>5. SenderType'
      BY <1>5, <2>1, <2>2, <2>3, <2>4, Zenon DEF SendQueued, Update, SenderType, m
    <2>6. NetworkType'
      BY <1>5, <2>2, SeqAppend, Zenon DEF SendQueued, NetworkType, m
    <2> QED
      BY <1>5, <2>5, <2>6, Zenon DEF SendQueued, receiver, ReceiverType
  <1>6. ASSUME NEW i \in DOMAIN resps, HandleResponse(i) PROVE TypeOK'
    <2>1. resps[i] \in Response
      BY SeqRange, Zenon DEF NetworkType
    <2>2. NetworkType'
      BY <1>6, RemoveAtProperties, Zenon DEF HandleResponse, NetworkType
    <2>3. \A k \in DOMAIN sent : /\ ResponseReceived(sent[k], resps[i]) \in Sent
                                 /\ ResponseReceived(sent[k], resps[i]).id = sent[k].id
      BY <2>1, Zenon DEF ResponseReceived, SenderType, Sent, Response, Codes
    <2>4. SenderType'
      BY <1>6, <2>3 DEF HandleResponse, Without, history, SenderType
    <2> QED
      BY <1>6, <2>2, <2>4, Zenon DEF HandleResponse, receiver, history, ReceiverType
  <1>7. CASE Tick
    BY <1>7, Zenon DEF Tick, Without, network, receiver, SenderType, NetworkType, ReceiverType
  <1>8. ASSUME NEW i \in resending, Resend(i) PROVE TypeOK'
    <2>1. [id |-> i, key |-> unacked[i].key] \in Request
      BY Zenon DEF SenderType, Request, Pending
    <2>2. reqs' \in Seq(Request)
      <3>1. CASE unacked[i].age >= ResendTime
        <4>1. reqs' = Append(reqs, [id |-> i, key |-> unacked[i].key]) /\ reqs \in Seq(Request)
          BY <1>8, <3>1, Zenon DEF Resend, NetworkType
        <4> QED
          BY <2>1, <4>1, SeqAppend, Zenon
      <3>2. CASE ~(unacked[i].age >= ResendTime)
        BY <1>8, <3>2, Zenon DEF Resend, NetworkType
      <3> QED
        BY <3>1, <3>2, Zenon
    <2> QED
      BY <1>8, <2>2, Zenon DEF Resend, receiver, SenderType, NetworkType, ReceiverType
  <1>9. CASE Advance
    <2>1. \A q \in Queued : Older(q) \in Queued
      BY DEF Older, Queued
    <2>2. \A p \in Pending : Older(p) \in Pending
      BY DEF Older, Pending
    <2>3. queued' \in Seq(Queued) /\ (queued # <<>> => queued' # <<>>)
      BY <1>9, <2>1 DEF Advance, SenderType
    <2> QED
      BY <1>9, <2>2, <2>3, Zenon DEF Advance, network, receiver, history, SenderType, NetworkType, ReceiverType
  <1>10. CASE Receive
    <2> DEFINE m == Head(reqs)
    <2>1. m \in Request /\ Tail(reqs) \in Seq(Request)
      BY <1>10, SeqTail, Zenon DEF Receive, NetworkType
    <2> HIDE DEF m
    <2>2. [id |-> m.id, code |-> "Ok"] \in Response
      BY <2>1, Zenon DEF Request, Response, Codes
    <2>3. NetworkType'
      BY <1>10, <2>1, <2>2, SeqAppend, Zenon DEF Receive, NetworkType, m
    <2>4. m.id \in Ids /\ m.key \in Keys
      BY <2>1, Zenon DEF Request
    <2>5. DOMAIN replied' = DOMAIN replied \cup {m.id}
      BY <1>10, Zenon DEF Receive, Update, m
    <2>6. \A k \in DOMAIN incoming' : incoming'[k] \in Sent /\ incoming'[k].id \in DOMAIN replied'
      <3>1. ASSUME NEW k \in DOMAIN incoming, k # m.key
            PROVE  incoming'[k] \in Sent /\ incoming'[k].id \in DOMAIN replied'
        BY <1>10, <2>5, <3>1, Zenon DEF Receive, Update, ReceiverType, m
      <3>2. ASSUME m.key \in DOMAIN incoming
            PROVE  incoming'[m.key] \in Sent /\ incoming'[m.key].id \in DOMAIN replied'
        <4>1. incoming'[m.key] = UpdateReceived(incoming[m.key], m.id)
          BY <1>10, <3>2, Zenon DEF Receive, Update, m
        <4>2. incoming[m.key] \in Sent
          BY <3>2, Zenon DEF ReceiverType
        <4> QED
          BY <2>4, <2>5, <4>1, <4>2 DEF UpdateReceived, Sent
      <3>3. ASSUME m.key \notin DOMAIN incoming
            PROVE  incoming'[m.key] \in Sent /\ incoming'[m.key].id \in DOMAIN replied'
        <4>1. incoming'[m.key] = [id |-> m.id, version |-> 1, acked |-> FALSE, response |-> "none"]
          BY <1>10, <3>3, Zenon DEF Receive, Update, m
        <4> QED
          BY <2>4, <2>5, <4>1 DEF Sent, Codes
      <3>4. DOMAIN incoming' = DOMAIN incoming \cup {m.key}
        BY <1>10, Zenon DEF Receive, Update, m
      <3>5. incoming'[m.key] \in Sent /\ incoming'[m.key].id \in DOMAIN replied'
        BY <3>2, <3>3, Zenon
      <3> QED
        BY <3>1, <3>4, <3>5, Zenon
    <2>7. DOMAIN incoming' = DOMAIN incoming \cup {m.key} /\ current' = m.key /\ rpc' = "handling"
      BY <1>10, Zenon DEF Receive, Update, m
    <2>8. ReceiverType'
      BY <2>4, <2>5, <2>6, <2>7, Zenon DEF ReceiverType
    <2> QED
      BY <1>10, <2>3, <2>8, Zenon DEF Receive, sender, SenderType
  <1>11. ASSUME NEW code \in {"Ok", "Fail"}, Handled(code) PROVE TypeOK'
    <2>1. \A k \in DOMAIN incoming' : incoming'[k] \in Sent /\ incoming'[k].id = incoming[k].id
      <3>1. current \in DOMAIN incoming /\ \A k \in DOMAIN incoming : incoming[k] \in Sent
        BY <1>11, Zenon DEF Handled, ReceiverType
      <3>2. incoming' = [incoming EXCEPT ![current] = [@ EXCEPT !.acked = (code = "Ok"), !.response = code]]
        BY <1>11, <3>1, Zenon DEF Handled, Sent
      <3>3. ASSUME NEW e \in Sent
            PROVE  LET f == [e EXCEPT !.acked = (code = "Ok"), !.response = code]
                   IN  f \in Sent /\ f.id = e.id
        BY <1>11, Zenon DEF Codes, Sent
      <3> QED
        BY <3>1, <3>2, <3>3, Zenon
    <2>2. ReceiverType'
      BY <1>11, <2>1, Zenon DEF Handled, ReceiverType, history
    <2> QED
      BY <1>11, <2>2, Zenon DEF Handled, sender, network, history, SenderType, NetworkType
  <1>12. CASE Bounce
    <2>1. Head(reqs) \in Request /\ Tail(reqs) \in Seq(Request)
      BY <1>12, SeqTail, Zenon DEF Bounce, NetworkType
    <2>2. [id |-> Head(reqs).id, code |-> "NoRoute"] \in Response
      BY <2>1, Zenon DEF Request, Response, Codes
    <2>3. NetworkType'
      BY <1>12, <2>1, <2>2, SeqAppend, Zenon DEF Bounce, NetworkType
    <2> QED
      BY <1>12, <2>3, Zenon DEF Bounce, sender, receiver, history, SenderType, ReceiverType
  <1>13. ASSUME NEW i \in DOMAIN reqs, LoseRequest(i) PROVE TypeOK'
    <2>1. NetworkType'
      BY <1>13, RemoveAtProperties DEF LoseRequest, Fault, NetworkType
    <2> QED
      BY <1>13, <2>1, Zenon DEF LoseRequest, sender, receiver, history, SenderType, ReceiverType
  <1>14. ASSUME NEW i \in DOMAIN resps, LoseResponse(i) PROVE TypeOK'
    <2>1. NetworkType'
      BY <1>14, RemoveAtProperties DEF LoseResponse, Fault, NetworkType
    <2> QED
      BY <1>14, <2>1, Zenon DEF LoseResponse, sender, receiver, history, SenderType, ReceiverType
  <1>15. CASE ClockBack
    <2>1. queued' \in Seq(Queued) /\ (queued # <<>> => queued' # <<>>)
      <3>1. \A q \in Queued : [q EXCEPT !.age = 0] \in Queued
        BY DEF Queued
      <3> QED
        BY <1>15, <3>1 DEF ClockBack, SenderType
    <2>2. \A i \in DOMAIN unacked' : unacked'[i] \in Pending
      BY <1>15 DEF ClockBack, SenderType, Pending
    <2> QED
      BY <1>15, <2>1, <2>2 DEF ClockBack, Fault, receiver, history, SenderType, NetworkType, ReceiverType
  <1>16. CASE SenderCrash
    BY <1>16 DEF SenderCrash, Fault, receiver, SenderType, NetworkType, ReceiverType
  <1>17. CASE SenderRestart
    BY <1>17, Zenon DEF SenderRestart, network, receiver, history, SenderType, NetworkType, ReceiverType
  <1>18. CASE ReceiverCrash
    BY <1>18 DEF ReceiverCrash, Fault, sender, history, SenderType, NetworkType, ReceiverType
  <1>19. CASE ReceiverRestart
    BY <1>19, Zenon DEF ReceiverRestart, sender, network, history, SenderType, NetworkType, ReceiverType
  <1>20. CASE UNCHANGED vars
    BY <1>20, Zenon DEF vars, sender, network, receiver, history, SenderType, NetworkType, ReceiverType
  <1> QED
    BY <1>1, <1>2, <1>3, <1>4, <1>5, <1>6, <1>7, <1>8, <1>9, <1>10, <1>11, <1>12,
       <1>13, <1>14, <1>15, <1>16, <1>17, <1>18, <1>19, <1>20, Zenon DEF Next

\* Ids stay fresh and ordered: the generator only counts up, and the queue is
\* sent from its head.
LEMMA NextIdsFresh == TypeOK /\ IdsFresh /\ [Next]_vars => IdsFresh'
  <1> SUFFICES ASSUME TypeOK, IdsFresh, [Next]_vars PROVE IdsFresh'
    BY Zenon
  <1>0. nextId \in Nat /\ launched \subseteq Nat /\ queued \in Seq(Queued) /\ Len(queued) \in Nat
    BY SeqRange, ActorChannelAssumption DEF TypeOK, SenderType, Ids
  <1>ids. \A n \in DOMAIN queued : queued[n].id \in Nat
    <2>1. \A n \in DOMAIN queued : queued[n] \in Queued
      BY <1>0, SeqRange, Zenon
    <2> QED
      BY <2>1, ActorChannelAssumption DEF Queued, Ids
  <1>1. ASSUME NEW k \in Keys, Send(k) PROVE IdsFresh'
    <2> DEFINE q == [id |-> nextId, key |-> k, age |-> 0]
    <2>1. q \in Queued /\ q.id = nextId
      BY <1>1, ActorChannelAssumption DEF Send, TypeOK, SenderType, Queued, Ids
    <2> HIDE DEF q
    <2>2. /\ Len(queued') = Len(queued) + 1
          /\ \A n \in 1..Len(queued) : queued'[n] = queued[n]
          /\ queued'[Len(queued) + 1] = q
          /\ DOMAIN queued' = 1..(Len(queued) + 1)
          /\ DOMAIN queued = 1..Len(queued)
      BY <1>0, <1>1, <2>1, SeqAppend, SeqRange DEF Send, q
    <2>3. \A n \in DOMAIN queued : queued[n].id \in Nat
      BY <1>ids, Zenon
    <2>4. nextId' = nextId + 1 /\ launched' = launched
      BY <1>1, Zenon DEF Send, history
    <2>5. \A i \in launched' : i < nextId'
      BY <1>0, <2>4 DEF IdsFresh
    <2>6. \A n \in DOMAIN queued' : queued'[n].id < nextId' /\ queued'[n].id \notin launched'
      BY <1>0, <2>1, <2>2, <2>3, <2>4 DEF IdsFresh
    <2>7. \A m, n \in DOMAIN queued' : m < n => queued'[m].id < queued'[n].id
      BY <1>0, <2>1, <2>2, <2>3 DEF IdsFresh
    <2> QED
      BY <2>5, <2>6, <2>7, Zenon DEF IdsFresh
  <1>2. CASE SendQueued
    <2>1. queued # <<>>
      BY <1>2, Zenon DEF SendQueued, TypeOK, SenderType
    <2>2. /\ DOMAIN queued = 1..Len(queued)
          /\ DOMAIN queued' = 1..(Len(queued) - 1)
          /\ \A n \in 1..(Len(queued) - 1) : queued'[n] = queued[n + 1]
      BY <1>0, <1>2, <2>1, SeqTail, SeqRange, Zenon DEF SendQueued
    <2>3. Head(queued) = queued[1] /\ 1 \in DOMAIN queued
      BY <1>0, <2>1, <2>2
    <2>4. \A n \in DOMAIN queued : queued[n].id \in Nat
      BY <1>ids, Zenon
    <2>5. launched' = launched \cup {queued[1].id} /\ nextId' = nextId
      BY <1>2, <2>3, Zenon DEF SendQueued
    <2>6. \A n \in DOMAIN queued' : n + 1 \in DOMAIN queued /\ 1 < n + 1
      BY <1>0, <2>2
    <2>7. \A i \in launched' : i < nextId'
      BY <1>0, <2>3, <2>5, Zenon DEF IdsFresh
    <2>8. \A n \in DOMAIN queued' : queued'[n].id < nextId' /\ queued'[n].id \notin launched'
      <3> SUFFICES ASSUME NEW n \in DOMAIN queued'
                   PROVE  queued'[n].id < nextId' /\ queued'[n].id \notin launched'
        BY Zenon
      <3>1. queued'[n] = queued[n + 1] /\ n + 1 \in DOMAIN queued /\ 1 < n + 1
        BY <2>2, <2>6, Zenon
      <3>2. queued[n + 1].id < nextId /\ queued[n + 1].id \notin launched /\ queued[1].id < queued[n + 1].id
        BY <1>0, <2>3, <3>1, Zenon DEF IdsFresh
      <3> QED
        BY <2>3, <2>4, <2>5, <3>1, <3>2
    <2>9. \A m, n \in DOMAIN queued' : m < n => queued'[m].id < queued'[n].id
      BY <1>0, <2>2, <2>6 DEF IdsFresh
    <2> QED
      BY <2>7, <2>8, <2>9, Zenon DEF IdsFresh
  <1>3. CASE Advance
    <2>1. DOMAIN queued' = DOMAIN queued /\ \A n \in DOMAIN queued : queued'[n].id = queued[n].id
      <3>1. \A n \in DOMAIN queued : queued[n] \in Queued
        BY <1>0, SeqRange, Zenon
      <3> QED
        BY <1>3, <3>1, Zenon DEF Advance, Older, Queued
    <2> QED
      BY <1>3, <2>1 DEF Advance, IdsFresh, history
  <1>4. CASE ClockBack
    <2>1. DOMAIN queued' = DOMAIN queued /\ \A n \in DOMAIN queued : queued'[n].id = queued[n].id
      <3>1. \A n \in DOMAIN queued : queued[n] \in Queued
        BY <1>0, SeqRange, Zenon
      <3> QED
        BY <1>4, <3>1, Zenon DEF ClockBack, Queued
    <2> QED
      BY <1>4, <2>1 DEF ClockBack, IdsFresh, history
  <1>5. CASE queued' = <<>> /\ launched' \subseteq launched /\ nextId' = nextId
    BY <1>5 DEF IdsFresh
  <1>6. CASE UNCHANGED <<queued, launched, nextId>>
    BY <1>6, Zenon DEF IdsFresh
  <1> QED
    BY <1>1, <1>2, <1>3, <1>4, <1>5, <1>6, Zenon
    DEF Next, BeginCallback, CallbackOk, CallbackErr, HandleResponse, Tick, Resend, Receive, Handled,
        Bounce, LoseRequest, LoseResponse, SenderCrash, SenderRestart, ReceiverCrash, ReceiverRestart,
        sender, history, vars

\* Ok responses come from Receive only.
LEMMA NextOkWasDelivered == TypeOK /\ OkWasDelivered /\ [Next]_vars => OkWasDelivered'
  <1> SUFFICES ASSUME TypeOK, OkWasDelivered, [Next]_vars PROVE OkWasDelivered'
    BY Zenon
  <1>0. resps \in Seq(Response) /\ reqs \in Seq(Request) /\ DOMAIN resps = 1..Len(resps)
    BY SeqRange, Zenon DEF TypeOK, NetworkType
  <1>1. ASSUME NEW r \in Response, resps' = Append(resps, r), DOMAIN replied \subseteq DOMAIN replied',
               r.code = "Ok" => r.id \in DOMAIN replied'
        PROVE  OkWasDelivered'
    <2>1. \A n \in DOMAIN resps' : (n \in DOMAIN resps /\ resps'[n] = resps[n]) \/ resps'[n] = r
      BY <1>0, <1>1, SeqAppend, SeqRange
    <2> QED
      BY <1>1, <2>1, Zenon DEF OkWasDelivered
  <1>2. ASSUME NEW i \in DOMAIN resps, resps' = RemoveAt(resps, i), replied' = replied
        PROVE  OkWasDelivered'
    <2> DEFINE Good == {r \in Response : r.code = "Ok" => r.id \in DOMAIN replied}
    <2>1. resps \in Seq(Good)
      BY <1>0 DEF OkWasDelivered
    <2>2. resps' \in Seq(Good)
      BY <1>2, <2>1, RemoveAtProperties, Zenon
    <2>3. \A n \in DOMAIN resps' : resps'[n] \in Good
      BY <2>2, SeqRange
    <2> QED
      BY <1>2, <2>3, Zenon DEF OkWasDelivered
  <1>3. CASE Receive
    <2>1. Head(reqs) \in Request
      BY <1>0, <1>3, SeqTail, Zenon DEF Receive
    <2>2. [id |-> Head(reqs).id, code |-> "Ok"] \in Response
      BY <2>1, Zenon DEF Request, Response, Codes
    <2> QED
      BY <1>1, <1>3, <2>2, Zenon DEF Receive, Update
  <1>4. CASE Bounce
    <2>1. Head(reqs) \in Request
      BY <1>0, <1>4, SeqTail, Zenon DEF Bounce
    <2>2. [id |-> Head(reqs).id, code |-> "NoRoute"] \in Response
      BY <2>1, Zenon DEF Request, Response, Codes
    <2> QED
      BY <1>1, <1>4, <2>2, Zenon DEF Bounce, history
  <1>5. ASSUME NEW i \in DOMAIN resps, HandleResponse(i) PROVE OkWasDelivered'
    BY <1>2, <1>5, Zenon DEF HandleResponse, history
  <1>6. ASSUME NEW i \in DOMAIN resps, LoseResponse(i) PROVE OkWasDelivered'
    BY <1>2, <1>6, Zenon DEF LoseResponse, history
  <1>7. CASE UNCHANGED <<resps, replied>>
    BY <1>7, Zenon DEF OkWasDelivered
  <1> QED
    BY <1>3, <1>4, <1>5, <1>6, <1>7, Zenon
    DEF Next, BeginCallback, Send, CallbackOk, CallbackErr, SendQueued, Tick, Resend, Advance, Handled,
        LoseRequest, ClockBack, SenderCrash, SenderRestart, ReceiverCrash, ReceiverRestart,
        network, history, vars

\* The actions that touch neither the sender's tables nor the history that
\* the sender's invariants mention.
LEMMA SenderUntouched ==
    ASSUME [Next]_vars,
           \A k \in Keys : ~Send(k), ~SendQueued, ~Tick, ~Advance, ~Receive, ~ClockBack, ~SenderCrash,
           \A i \in DOMAIN resps : ~HandleResponse(i)
    PROVE  UNCHANGED <<unacked, sent, launched, expired, replied>>
  BY Zenon DEF Next, BeginCallback, CallbackOk, CallbackErr, Resend, Handled, Bounce, LoseRequest,
         LoseResponse, SenderRestart, ReceiverCrash, ReceiverRestart, sender, history, vars

\* The invariants of the sender's tables: a pending message is recorded, an
\* acked one is delivered and not pending, none is forgotten.
LEMMA NextSenderTables ==
    ASSUME ChannelInv, [Next]_vars
    PROVE  /\ UnackedHasSent'
           /\ AckedNotPending'
           /\ AckedWasDelivered'
           /\ NothingForgotten'
  <1> DEFINE Goal == UnackedHasSent' /\ AckedNotPending' /\ AckedWasDelivered' /\ NothingForgotten'
  <1> USE DEF UnackedHasSent, AckedNotPending, AckedWasDelivered, NothingForgotten
  <1>0. UnackedHasSent /\ AckedNotPending /\ AckedWasDelivered /\ NothingForgotten
    BY Zenon DEF ChannelInv
  <1>1. ASSUME NEW k \in Keys, Send(k) PROVE Goal
    BY <1>0, <1>1, Zenon DEF Send, history
  <1>2. CASE SendQueued
    <2> DEFINE m == Head(queued)
    <2>1. m.id \notin launched /\ m.key \in Keys
      <3>1. queued # <<>> /\ queued \in Seq(Queued)
        BY <1>2, Zenon DEF SendQueued, ChannelInv, TypeOK, SenderType
      <3>2. m = queued[1] /\ 1 \in DOMAIN queued /\ m \in Queued
        BY <3>1, SeqTail, SeqRange
      <3> QED
        BY <3>2, Zenon DEF ChannelInv, IdsFresh, Queued
    <2>2. \A k \in DOMAIN sent : sent[k].id \in launched
      BY Zenon DEF ChannelInv, TypeOK, SenderType
    <2>3. /\ sent' = Update(sent, m.key, SentEntry(m.key, m.id))
          /\ unacked' = Update(unacked, m.id, [key |-> m.key, age |-> m.age])
          /\ launched' = launched \cup {m.id}
          /\ expired' = expired /\ replied' = replied
      BY <1>2, Zenon DEF SendQueued
    <2>4. SentEntry(m.key, m.id).acked = FALSE
      BY Zenon DEF SentEntry
    <2> HIDE DEF m
    <2>5. UnackedHasSent'
      BY <1>0, <2>3, Zenon DEF Update
    <2>6. AckedNotPending'
      BY <1>0, <2>1, <2>2, <2>3, <2>4, Zenon DEF Update
    <2>7. AckedWasDelivered'
      BY <1>0, <2>3, <2>4, Zenon DEF Update
    <2>8. NothingForgotten'
      BY <1>0, <2>3, Zenon DEF Update
    <2> QED
      BY <2>5, <2>6, <2>7, <2>8, Zenon
  <1>3. ASSUME NEW i \in DOMAIN resps, HandleResponse(i) PROVE Goal
    <2> DEFINE r == resps[i]
    <2>1. r.code = "Ok" => r.id \in DOMAIN replied
      BY Zenon DEF ChannelInv, OkWasDelivered
    <2>2. launched' = launched /\ expired' = expired /\ replied' = replied
      BY <1>3, Zenon DEF HandleResponse, history
    <2>3. CASE r.id \notin DOMAIN unacked
      BY <1>0, <1>3, <2>2, <2>3, Zenon DEF HandleResponse
    <2>4. CASE r.id \in DOMAIN unacked
      <3>1. /\ sent' = [sent EXCEPT ![unacked[r.id].key] = ResponseReceived(@, r)]
            /\ unacked' = IF r.code = "Ok" THEN Without(unacked, {r.id}) ELSE unacked
        BY <1>3, <2>4, Zenon DEF HandleResponse
      <3>2. \A k \in DOMAIN sent : sent[k] \in Sent
        BY Zenon DEF ChannelInv, TypeOK, SenderType
      <3> HIDE DEF r
      <3>3. \A k \in DOMAIN sent : ResponseReceived(sent[k], r).id = sent[k].id
        BY <3>2, Zenon DEF ResponseReceived, Sent
      <3>4. \A k \in DOMAIN sent : ResponseReceived(sent[k], r).acked =>
                                     sent[k].acked \/ (r.code = "Ok" /\ r.id = sent[k].id)
        BY <3>2, Zenon DEF ResponseReceived, Sent
      <3>5. /\ DOMAIN sent' = DOMAIN sent
            /\ \A k \in DOMAIN sent : sent'[k] = sent[k] \/ sent'[k] = ResponseReceived(sent[k], r)
        BY <3>1, Zenon
      <3>6. UnackedHasSent'
        BY <1>0, <3>1, <3>5, Zenon DEF Without
      <3>7. AckedNotPending'
        BY <1>0, <3>1, <3>3, <3>4, <3>5 DEF Without
      <3>8. AckedWasDelivered'
        BY <1>0, <2>1, <2>2, <3>3, <3>4, <3>5
      <3>9. NothingForgotten'
        BY <1>0, <2>1, <2>2, <3>1, Zenon DEF Without
      <3> QED
        BY <3>6, <3>7, <3>8, <3>9, Zenon
    <2> QED
      BY <2>3, <2>4, Zenon
  <1>4. CASE Tick
    BY <1>0, <1>4, Zenon DEF Tick, Without
  <1>5. CASE Advance
    <2>1. \A j \in DOMAIN unacked : Older(unacked[j]).key = unacked[j].key
      BY Zenon DEF Older, ChannelInv, TypeOK, SenderType, Pending
    <2> QED
      BY <1>0, <1>5, <2>1, Zenon DEF Advance, history
  <1>6. CASE Receive
    BY <1>0, <1>6, Zenon DEF Receive, Update, sender
  <1>7. CASE ClockBack
    <2>1. \A j \in DOMAIN unacked : unacked[j] \in Pending
      BY Zenon DEF ChannelInv, TypeOK, SenderType
    <2>2. DOMAIN unacked' = DOMAIN unacked /\ \A j \in DOMAIN unacked : unacked'[j].key = unacked[j].key
      BY <1>7, <2>1, Zenon DEF ClockBack, Pending
    <2> QED
      BY <1>0, <1>7, <2>2, Zenon DEF ClockBack, history
  <1>8. CASE SenderCrash
    BY <1>8 DEF SenderCrash
  <1>9. CASE UNCHANGED <<unacked, sent, launched, expired, replied>>
    BY <1>0, <1>9, Zenon
  <1> QED
    BY <1>1, <1>2, <1>3, <1>4, <1>5, <1>6, <1>7, <1>8, <1>9, SenderUntouched, Zenon

\* ChannelInv holds in every reachable state.
THEOREM ChannelInvariant == Spec => []ChannelInv
  <1>1. ChannelInv /\ [Next]_vars => ChannelInv'
    BY NextTypeOK, NextIdsFresh, NextOkWasDelivered, NextSenderTables, Zenon DEF ChannelInv
  <1> QED
    BY InitChannelInv, <1>1, PTL DEF Spec

\* The outgoing and incoming state of the two actors is typed; a resend visits
\* only what is pending, and a request being handled is in the incoming table.
THEOREM TypeCorrect == Spec => []TypeOK
  BY ChannelInvariant, PTL DEF ChannelInv

\* The unwrap() calls on the record of sent messages in handle_response and
\* drive_resend_loop never panic.
THEOREM NoUnwrapPanic == Spec => []UnackedHasSent
  BY ChannelInvariant, PTL DEF ChannelInv

\* What is shown as acked was taken by the receiver (response_received).
THEOREM AckedMeansDelivered == Spec => []AckedWasDelivered
  BY ChannelInvariant, PTL DEF ChannelInv

\* A living sender forgets no message (handle_response, drive_resend_loop).
THEOREM NoMessageForgotten == Spec => []NothingForgotten
  BY ChannelInvariant, PTL DEF ChannelInv

\* An ack is never withdrawn while its message is the latest of its key
\* (handle_response ignores responses to messages that are not pending).
THEOREM AckNeverWithdrawn == Spec => AckSticky
  <1> DEFINE Kept == \A k \in DOMAIN sent \cap DOMAIN sent' :
                       sent[k].acked /\ sent'[k].id = sent[k].id => sent'[k].acked
  <1>1. ChannelInv /\ [Next]_vars => Kept
    <2> SUFFICES ASSUME ChannelInv, [Next]_vars,
                        NEW k \in DOMAIN sent, k \in DOMAIN sent',
                        sent[k].acked, sent'[k].id = sent[k].id
                 PROVE  sent'[k].acked
      BY Zenon
    <2>0. sent[k].id \notin DOMAIN unacked /\ sent[k].id \in launched /\ sent[k] \in Sent
      BY Zenon DEF ChannelInv, AckedNotPending, TypeOK, SenderType
    <2>1. CASE SendQueued
      <3> DEFINE m == Head(queued)
      <3>1. queued # <<>> /\ queued \in Seq(Queued)
        BY <2>1, Zenon DEF SendQueued, ChannelInv, TypeOK, SenderType
      <3>2. m = queued[1] /\ 1 \in DOMAIN queued
        BY <3>1, SeqRange
      <3>3. m.id \notin launched
        BY <3>2, Zenon DEF ChannelInv, IdsFresh
      <3>4. sent' = Update(sent, m.key, SentEntry(m.key, m.id)) /\ SentEntry(m.key, m.id).id = m.id
        BY <2>1, Zenon DEF SendQueued, SentEntry
      <3> HIDE DEF m
      <3> QED
        BY <2>0, <3>3, <3>4, Zenon DEF Update
    <2>2. ASSUME NEW i \in DOMAIN resps, HandleResponse(i) PROVE sent'[k].acked
      BY <2>0, <2>2, Zenon DEF HandleResponse, ResponseReceived
    <2>3. CASE SenderCrash
      BY <2>3 DEF SenderCrash
    <2>4. CASE UNCHANGED sent
      BY <2>4, Zenon
    <2> QED
      BY <2>1, <2>2, <2>3, <2>4, Zenon
      DEF Next, BeginCallback, Send, CallbackOk, CallbackErr, Tick, Resend, Advance, Receive, Handled,
          Bounce, LoseRequest, LoseResponse, ClockBack, SenderRestart, ReceiverCrash, ReceiverRestart,
          sender, vars
  <1> QED
    BY ChannelInvariant, <1>1, PTL DEF AckSticky, Spec

-----------------------------------------------------------------------------
\* What the order of delivery needs beside ChannelInv: an id that is still queued
\* is higher than those that left the queue, and a request that was never resent
\* has a higher id than those before it and than what the receiver has taken.
Abroad == launched \cup {reqs[n].id : n \in DOMAIN reqs} \cup {incoming[k].id : k \in DOMAIN incoming}

QueuedLast ==
    \A i \in Abroad : i < nextId /\ \A n \in DOMAIN queued : i < queued[n].id

FirstInOrder ==
    \A n \in DOMAIN reqs : reqs[n].id \in resent \/
        /\ \A k \in DOMAIN incoming : incoming[k].id < reqs[n].id
        /\ \A m \in DOMAIN reqs : m < n => reqs[m].id < reqs[n].id

\* Taking an element out of a sequence moves those behind it one place forward.
LEMMA RemoveAtMoves ==
    ASSUME NEW S, NEW s \in Seq(S), NEW i \in DOMAIN s, NEW n \in DOMAIN RemoveAt(s, i)
    PROVE  /\ n \in Nat /\ (IF n < i THEN n ELSE n + 1) \in DOMAIN s
           /\ RemoveAt(s, i)[n] = s[IF n < i THEN n ELSE n + 1]
  <1> DEFINE u == SubSeq(s, 1, i - 1)
             v == SubSeq(s, i + 1, Len(s))
  <1>1. Len(s) \in Nat /\ DOMAIN s = 1..Len(s) /\ i \in 1..Len(s)
    BY SeqRange, Zenon
  <1>2. u \in Seq(S) /\ v \in Seq(S)
    BY <1>1, SeqParts
  <1>3. Len(u) = i - 1 /\ \A m \in 1..(i - 1) : u[m] = s[m]
    BY <1>1
  <1>4. Len(v) = Len(s) - i /\ \A m \in 1..(Len(s) - i) : v[m] = s[m + i]
    BY <1>1
  <1> HIDE DEF u, v
  <1>5. RemoveAt(s, i) = u \o v
    BY Zenon DEF RemoveAt, u, v
  <1>6. /\ DOMAIN (u \o v) = 1..(Len(u) + Len(v))
        /\ \A m \in 1..(Len(u) + Len(v)) : (u \o v)[m] = IF m <= Len(u) THEN u[m] ELSE v[m - Len(u)]
    BY <1>2
  <1>7. n \in 1..(Len(s) - 1)
    BY <1>1, <1>3, <1>4, <1>5, <1>6
  <1>8. CASE n < i
    BY <1>1, <1>3, <1>4, <1>5, <1>6, <1>7, <1>8
  <1>9. CASE ~(n < i)
    <2>1. n - (i - 1) \in 1..(Len(s) - i) /\ (n - (i - 1)) + i = n + 1 /\ n + 1 \in 1..Len(s) /\ n \in Nat
      BY <1>1, <1>7, <1>9
    <2>2. v[n - (i - 1)] = s[n + 1]
      BY <1>4, <2>1, Zenon
    <2>3. (u \o v)[n] = v[n - (i - 1)]
      BY <1>1, <1>3, <1>4, <1>6, <1>7, <1>9
    <2> QED
      BY <1>1, <1>5, <1>9, <2>1, <2>2, <2>3, Zenon
  <1> QED
    BY <1>8, <1>9, Zenon

\* What left the queue has lower ids than what is still in it.
LEMMA NextQueuedLast ==
    ASSUME ChannelInv, QueuedLast, [Next]_vars
    PROVE  QueuedLast'
  <1>0. /\ nextId \in Nat /\ queued \in Seq(Queued) /\ DOMAIN queued = 1..Len(queued) /\ Len(queued) \in Nat
        /\ \A n \in DOMAIN queued : queued[n] \in Queued /\ queued[n].id \in Nat /\ queued[n].id < nextId
        /\ \A m, n \in DOMAIN queued : m < n => queued[m].id < queued[n].id
    <2>1. nextId \in Nat /\ queued \in Seq(Queued)
      BY ActorChannelAssumption DEF ChannelInv, TypeOK, SenderType
    <2>2. Len(queued) \in Nat /\ DOMAIN queued = 1..Len(queued) /\ \A n \in DOMAIN queued : queued[n] \in Queued
      BY <2>1, SeqRange, Zenon
    <2>3. \A n \in DOMAIN queued : queued[n].id \in Nat
      BY <2>2, ActorChannelAssumption DEF Queued, Ids
    <2> QED
      BY <2>1, <2>2, <2>3, Zenon DEF ChannelInv, IdsFresh
  <1>1. Abroad \subseteq Nat
    <2>1. launched \subseteq Nat
      BY ActorChannelAssumption DEF ChannelInv, TypeOK, SenderType, Ids
    <2>2. \A n \in DOMAIN reqs : reqs[n].id \in Nat
      <3>1. \A n \in DOMAIN reqs : reqs[n] \in Request
        BY SeqRange, Zenon DEF ChannelInv, TypeOK, NetworkType
      <3> QED
        BY <3>1, ActorChannelAssumption DEF Request, Ids
    <2>3. \A k \in DOMAIN incoming : incoming[k].id \in Nat
      BY ActorChannelAssumption DEF ChannelInv, TypeOK, ReceiverType, Sent, Ids
    <2> QED
      BY <2>1, <2>2, <2>3, Zenon DEF Abroad
  <1>2. ASSUME Abroad' \subseteq Abroad, nextId' = nextId,
               \/ queued' = <<>>
               \/ DOMAIN queued' = DOMAIN queued /\ \A n \in DOMAIN queued : queued'[n].id = queued[n].id
        PROVE  QueuedLast'
    BY <1>2, SeqEmpty, Zenon DEF QueuedLast
  <1>3. ASSUME NEW k \in Keys, Send(k)
        PROVE  QueuedLast'
    <2> DEFINE q == [id |-> nextId, key |-> k, age |-> 0]
    <2>1. q \in Queued /\ q.id = nextId
      BY <1>3, ActorChannelAssumption DEF Send, ChannelInv, TypeOK, SenderType, Queued, Ids
    <2>2. queued' = Append(queued, q) /\ nextId' = nextId + 1
      BY <1>3, Zenon DEF Send
    <2>3. UNCHANGED <<launched, reqs, incoming>>
      BY <1>3, Zenon DEF Send, network, receiver, history
    <2> HIDE DEF q
    <2>4. \A n \in DOMAIN queued' : queued'[n].id = nextId \/ (n \in DOMAIN queued /\ queued'[n] = queued[n])
      BY <1>0, <2>1, <2>2, SeqAppend, SeqRange
    <2>5. Abroad' = Abroad
      BY <2>3, Zenon DEF Abroad
    <2> QED
      BY <1>0, <1>1, <2>2, <2>4, <2>5 DEF QueuedLast
  <1>4. CASE SendQueued
    <2>1. queued # <<>>
      BY <1>4, Zenon DEF SendQueued, ChannelInv, TypeOK, SenderType
    <2>2. Head(queued) = queued[1] /\ 1 \in DOMAIN queued /\ Head(queued).id = queued[1].id
      BY <1>0, <2>1, SeqEmpty, SeqTail
    <2>3. \A n \in DOMAIN queued' : n + 1 \in DOMAIN queued /\ 1 < n + 1 /\ queued'[n] = queued[n + 1]
      BY <1>0, <1>4, <2>1, SeqTail, SeqRange DEF SendQueued
    <2>4. nextId' = nextId /\ incoming' = incoming /\ launched' = launched \cup {queued[1].id}
      BY <1>4, <2>2, Zenon DEF SendQueued, receiver
    <2>5. {reqs'[n].id : n \in DOMAIN reqs'} \subseteq {reqs[n].id : n \in DOMAIN reqs} \cup {queued[1].id}
      <3> DEFINE q == [id |-> queued[1].id, key |-> queued[1].key]
      <3>1. q \in Request /\ q.id = queued[1].id
        BY <1>0, <2>2, Zenon DEF Queued, Request
      <3>2. reqs' = Append(reqs, q) /\ reqs \in Seq(Request)
        BY <1>4, <2>2, Zenon DEF SendQueued, ChannelInv, TypeOK, NetworkType
      <3> HIDE DEF q
      <3>3. \A n \in DOMAIN reqs' : reqs'[n] = q \/ (n \in DOMAIN reqs /\ reqs'[n] = reqs[n])
        BY <3>1, <3>2, SeqAppend, SeqRange
      <3> QED
        BY <3>1, <3>3, Zenon
    <2>6. Abroad' \subseteq Abroad \cup {queued[1].id}
      BY <2>4, <2>5, Zenon DEF Abroad
    <2>7. ASSUME NEW i \in Abroad', NEW n \in DOMAIN queued'
          PROVE  i < queued'[n].id
      <3>1. i \in Abroad => i < queued[n + 1].id
        BY <2>3, Zenon DEF QueuedLast
      <3>2. queued[1].id < queued[n + 1].id
        BY <1>0, <2>2, <2>3, Zenon
      <3> QED
        BY <2>3, <2>6, <3>1, <3>2, Zenon
    <2>8. \A i \in Abroad' : i < nextId'
      BY <1>0, <2>2, <2>4, <2>6, Zenon DEF QueuedLast
    <2> QED
      BY <2>7, <2>8, Zenon DEF QueuedLast
  <1>5. CASE Advance \/ ClockBack
    <2>1. DOMAIN queued' = DOMAIN queued /\ \A n \in DOMAIN queued : queued'[n].id = queued[n].id
      BY <1>0, <1>5 DEF Advance, ClockBack, Older, Queued
    <2>2. nextId' = nextId /\ UNCHANGED <<launched, reqs, incoming>>
      BY <1>5, Zenon DEF Advance, ClockBack, network, receiver, history
    <2> QED
      BY <1>2, <2>1, <2>2, Zenon DEF Abroad
  <1>6. ASSUME NEW i \in resending, Resend(i)
        PROVE  QueuedLast'
    <2>1. i \in launched /\ unacked[i].key \in Keys /\ i \in Ids
      BY <1>6, Zenon DEF ChannelInv, TypeOK, SenderType, Pending
    <2>2. UNCHANGED <<nextId, queued, launched, incoming>>
      BY <1>6, Zenon DEF Resend, receiver
    <2>3. {reqs'[n].id : n \in DOMAIN reqs'} \subseteq {reqs[n].id : n \in DOMAIN reqs} \cup {i}
      <3> DEFINE q == [id |-> i, key |-> unacked[i].key]
      <3>1. q \in Request /\ q.id = i
        BY <2>1, Zenon DEF Request
      <3>2. (reqs' = reqs \/ reqs' = Append(reqs, q)) /\ reqs \in Seq(Request)
        BY <1>6, Zenon DEF Resend, ChannelInv, TypeOK, NetworkType
      <3> HIDE DEF q
      <3>3. \A n \in DOMAIN reqs' : reqs'[n] = q \/ (n \in DOMAIN reqs /\ reqs'[n] = reqs[n])
        BY <3>1, <3>2, SeqAppend, SeqRange
      <3> QED
        BY <3>1, <3>3, Zenon
    <2>4. Abroad' \subseteq Abroad
      BY <2>1, <2>2, <2>3, Zenon DEF Abroad
    <2> QED
      BY <1>2, <2>2, <2>4, Zenon
  <1>7. ASSUME \A n \in DOMAIN reqs' : \E m \in DOMAIN reqs : reqs'[n] = reqs[m],
               \A k \in DOMAIN incoming' : incoming'[k].id \in Abroad,
               launched' \subseteq launched, nextId' = nextId, queued' = queued \/ queued' = <<>>
        PROVE  QueuedLast'
    <2>1. Abroad' \subseteq Abroad
      BY <1>7 DEF Abroad
    <2> QED
      BY <1>2, <1>7, <2>1, Zenon
  <1>8. \A k \in DOMAIN incoming : incoming[k].id \in Abroad
    BY Zenon DEF Abroad
  <1>9. CASE Receive
    <2>1. reqs # <<>> /\ reqs \in Seq(Request)
      BY <1>9, Zenon DEF Receive, ChannelInv, TypeOK, NetworkType
    <2>2. Head(reqs) = reqs[1] /\ 1 \in DOMAIN reqs /\ \A n \in DOMAIN Tail(reqs) : n + 1 \in DOMAIN reqs /\ Tail(reqs)[n] = reqs[n + 1]
      BY <2>1, SeqTail, SeqRange, SeqEmpty
    <2>3. \A k \in DOMAIN incoming' : incoming'[k].id = reqs[1].id \/ (k \in DOMAIN incoming /\ incoming'[k] = incoming[k])
      BY <1>9, <2>2, Zenon DEF Receive, Update, UpdateReceived
    <2>4. reqs[1].id \in Abroad
      BY <2>2, Zenon DEF Abroad
    <2>5. reqs' = Tail(reqs) /\ launched' = launched /\ nextId' = nextId /\ queued' = queued
      BY <1>9, Zenon DEF Receive, sender
    <2> QED
      BY <1>7, <1>8, <2>2, <2>3, <2>4, <2>5, Zenon
  <1>10. CASE Bounce
    <2>1. reqs # <<>> /\ reqs \in Seq(Request)
      BY <1>10, Zenon DEF Bounce, ChannelInv, TypeOK, NetworkType
    <2>2. \A n \in DOMAIN Tail(reqs) : n + 1 \in DOMAIN reqs /\ Tail(reqs)[n] = reqs[n + 1]
      BY <2>1, SeqTail, SeqRange, SeqEmpty
    <2>3. reqs' = Tail(reqs) /\ UNCHANGED <<launched, nextId, queued, incoming>>
      BY <1>10, Zenon DEF Bounce, sender, receiver, history
    <2> QED
      BY <1>7, <1>8, <2>2, <2>3, Zenon
  <1>11. ASSUME NEW i \in DOMAIN reqs, LoseRequest(i)
         PROVE  QueuedLast'
    <2>1. \A n \in DOMAIN RemoveAt(reqs, i) : \E m \in DOMAIN reqs : RemoveAt(reqs, i)[n] = reqs[m]
      BY RemoveAtMoves DEF ChannelInv, TypeOK, NetworkType
    <2>2. reqs' = RemoveAt(reqs, i) /\ UNCHANGED <<launched, nextId, queued, incoming>>
      BY <1>11, Zenon DEF LoseRequest, sender, receiver, history
    <2> QED
      BY <1>7, <1>8, <2>1, <2>2, Zenon
  <1>12. ASSUME NEW code, Handled(code)
         PROVE  QueuedLast'
    <2>1. \A k \in DOMAIN incoming' : k \in DOMAIN incoming /\ incoming'[k].id = incoming[k].id
      BY <1>12, Zenon DEF Handled, ChannelInv, TypeOK, ReceiverType, Sent
    <2>2. UNCHANGED <<reqs, launched, nextId, queued>>
      BY <1>12, Zenon DEF Handled, sender, network, history
    <2> QED
      BY <1>7, <1>8, <2>1, <2>2, Zenon
  <1>13. CASE SenderCrash \/ CallbackErr
    BY <1>7, <1>8, <1>13, Zenon DEF SenderCrash, CallbackErr, network, receiver, history
  <1>14. CASE ReceiverCrash
    BY <1>7, <1>14 DEF ReceiverCrash, sender, history
  <1>15. CASE UNCHANGED <<launched, reqs, incoming, nextId, queued>>
    BY <1>7, <1>8, <1>15, Zenon
  <1> QED
    BY <1>3, <1>4, <1>5, <1>6, <1>9, <1>10, <1>11, <1>12, <1>13, <1>14, <1>15, Zenon
    DEF Next, BeginCallback, CallbackOk, HandleResponse, Tick, LoseResponse, SenderRestart,
        ReceiverRestart, sender, network, receiver, history, vars

\* The place in a sequence of what is at n once the element at i is gone.
Past(i, n) == IF n < i THEN n ELSE n + 1

\* A request less in the queue, whether it was taken or lost, leaves the first
\* transmissions in order.
LEMMA FewerInOrder ==
    ASSUME FirstInOrder, resent' = resent,
           reqs \in Seq(Request), NEW i \in DOMAIN reqs,
           \A n \in DOMAIN reqs' : n \in Nat /\ Past(i, n) \in DOMAIN reqs /\ reqs'[n] = reqs[Past(i, n)],
           \A k \in DOMAIN incoming' : \/ k \in DOMAIN incoming /\ incoming'[k].id = incoming[k].id
                                       \/ i = 1 /\ incoming'[k].id = reqs[1].id
    PROVE  FirstInOrder'
  <1> SUFFICES ASSUME NEW n \in DOMAIN reqs', reqs'[n].id \notin resent
               PROVE  /\ \A k \in DOMAIN incoming' : incoming'[k].id < reqs'[n].id
                      /\ \A m \in DOMAIN reqs' : m < n => reqs'[m].id < reqs'[n].id
    BY Zenon DEF FirstInOrder
  <1>0. i \in Nat /\ n \in Nat /\ 1 <= i
    BY SeqRange
  <1>1. Past(i, n) \in DOMAIN reqs /\ reqs'[n] = reqs[Past(i, n)]
    BY Zenon
  <1>2. /\ \A k \in DOMAIN incoming : incoming[k].id < reqs'[n].id
        /\ \A m \in DOMAIN reqs : m < Past(i, n) => reqs[m].id < reqs'[n].id
    BY <1>1, Zenon DEF FirstInOrder
  <1>3. i = 1 => reqs[1].id < reqs'[n].id
    <2>1. i = 1 => 1 < Past(i, n)
      BY <1>0, <1>1, SeqRange DEF Past
    <2> QED
      BY <1>2, <2>1, Zenon
  <1>4. ASSUME NEW m \in DOMAIN reqs', m < n
        PROVE  reqs'[m].id < reqs'[n].id
    <2>1. m \in Nat /\ Past(i, m) \in DOMAIN reqs /\ reqs'[m] = reqs[Past(i, m)]
      BY Zenon
    <2>2. Past(i, m) < Past(i, n)
      BY <1>0, <1>4, <2>1 DEF Past
    <2> QED
      BY <1>2, <2>1, <2>2, Zenon
  <1> QED
    BY <1>2, <1>3, <1>4, Zenon

\* A request more in the queue: it is resent, or higher than all before it.
LEMMA MoreInOrder ==
    ASSUME FirstInOrder, resent \subseteq resent', incoming' = incoming,
           reqs \in Seq(Request), NEW q \in Request, reqs' = Append(reqs, q),
           q.id \in resent' \/ \A i \in Abroad : i < q.id
    PROVE  FirstInOrder'
  <1>1. /\ DOMAIN reqs = 1..Len(reqs) /\ DOMAIN reqs' = 1..(Len(reqs) + 1) /\ Len(reqs) \in Nat
        /\ \A n \in DOMAIN reqs : reqs'[n] = reqs[n]
        /\ reqs'[Len(reqs) + 1] = q
    BY SeqAppend, SeqRange
  <1>2. /\ \A k \in DOMAIN incoming : incoming[k].id \in Abroad
        /\ \A m \in DOMAIN reqs : reqs[m].id \in Abroad
    BY Zenon DEF Abroad
  <1>3. ASSUME NEW n \in DOMAIN reqs, reqs'[n].id \notin resent'
        PROVE  /\ \A k \in DOMAIN incoming' : incoming'[k].id < reqs'[n].id
               /\ \A m \in DOMAIN reqs' : m < n => reqs'[m].id < reqs'[n].id
    <2>1. /\ \A k \in DOMAIN incoming : incoming[k].id < reqs[n].id
          /\ \A m \in DOMAIN reqs : m < n => reqs[m].id < reqs[n].id
      BY <1>1, <1>3, Zenon DEF FirstInOrder
    <2>2. \A m \in DOMAIN reqs' : m < n => m \in DOMAIN reqs
      BY <1>1
    <2> QED
      BY <1>1, <2>1, <2>2, Zenon
  <1>4. ASSUME q.id \notin resent'
        PROVE  /\ \A k \in DOMAIN incoming' : incoming'[k].id < q.id
               /\ \A m \in DOMAIN reqs' : m < Len(reqs) + 1 => reqs'[m].id < q.id
    <2>1. \A m \in DOMAIN reqs' : m < Len(reqs) + 1 => m \in DOMAIN reqs
      BY <1>1
    <2> QED
      BY <1>1, <1>2, <1>4, <2>1, Zenon
  <1>5. \A n \in DOMAIN reqs' : n \in DOMAIN reqs \/ n = Len(reqs) + 1
    BY <1>1
  <1> QED
    BY <1>1, <1>3, <1>4, <1>5 DEF FirstInOrder

\* Every step leaves the first transmissions in order.
LEMMA NextFirstInOrder ==
    ASSUME ChannelInv, QueuedLast, FirstInOrder, [Next]_vars
    PROVE  FirstInOrder'
  <1>0. reqs \in Seq(Request)
    BY Zenon DEF ChannelInv, TypeOK, NetworkType
  <1>1. CASE SendQueued
    <2> DEFINE q == [id |-> Head(queued).id, key |-> Head(queued).key]
    <2>1. queued # <<>> /\ queued \in Seq(Queued)
      BY <1>1, Zenon DEF SendQueued, ChannelInv, TypeOK, SenderType
    <2>2. Head(queued) \in Queued /\ Head(queued) = queued[1] /\ 1 \in DOMAIN queued
      BY <2>1, SeqEmpty, SeqTail, SeqRange
    <2>3. q \in Request /\ \A i \in Abroad : i < q.id
      BY <2>2, Zenon DEF Queued, Request, QueuedLast
    <2>4. reqs' = Append(reqs, q) /\ UNCHANGED <<incoming, resent>>
      BY <1>1, Zenon DEF SendQueued, receiver
    <2> HIDE DEF q
    <2> QED
      BY <1>0, <2>3, <2>4, MoreInOrder, Zenon
  <1>2. ASSUME NEW i \in resending, Resend(i)
        PROVE  FirstInOrder'
    <2> DEFINE q == [id |-> i, key |-> unacked[i].key]
    <2>1. q \in Request /\ q.id = i
      BY <1>2, Zenon DEF ChannelInv, TypeOK, SenderType, Pending, Request
    <2>2. incoming' = incoming
      BY <1>2, Zenon DEF Resend, receiver
    <2>3. (reqs' = Append(reqs, q) /\ resent' = resent \cup {i}) \/ UNCHANGED <<reqs, resent>>
      BY <1>2, Zenon DEF Resend
    <2> HIDE DEF q
    <2>4. CASE reqs' = Append(reqs, q) /\ resent' = resent \cup {i}
      BY <1>0, <2>1, <2>2, <2>4, MoreInOrder, Zenon
    <2>5. CASE UNCHANGED <<reqs, resent>>
      BY <2>2, <2>5, Zenon DEF FirstInOrder
    <2> QED
      BY <2>3, <2>4, <2>5, Zenon
  <1>3. ASSUME reqs # <<>>, reqs' = Tail(reqs)
        PROVE  /\ 1 \in DOMAIN reqs /\ Head(reqs) = reqs[1]
               /\ \A n \in DOMAIN reqs' : n \in Nat /\ Past(1, n) \in DOMAIN reqs /\ reqs'[n] = reqs[Past(1, n)]
    BY <1>0, <1>3, SeqTail, SeqRange, SeqEmpty DEF Past
  <1>4. CASE Receive
    <2>1. reqs # <<>> /\ reqs' = Tail(reqs) /\ resent' = resent
      BY <1>4, Zenon DEF Receive
    <2>2. \A k \in DOMAIN incoming' : incoming'[k].id = reqs[1].id \/ (k \in DOMAIN incoming /\ incoming'[k] = incoming[k])
      BY <1>3, <1>4, <2>1, Zenon DEF Receive, Update, UpdateReceived
    <2> QED
      BY <1>0, <1>3, <2>1, <2>2, FewerInOrder, Zenon
  <1>5. CASE Bounce
    <2>1. reqs # <<>> /\ reqs' = Tail(reqs) /\ UNCHANGED <<incoming, resent>>
      BY <1>5, Zenon DEF Bounce, receiver, history
    <2> QED
      BY <1>0, <1>3, <2>1, FewerInOrder, Zenon
  <1>6. ASSUME NEW i \in DOMAIN reqs, LoseRequest(i)
        PROVE  FirstInOrder'
    <2>1. reqs' = RemoveAt(reqs, i) /\ UNCHANGED <<incoming, resent>>
      BY <1>6, Zenon DEF LoseRequest, receiver, history
    <2>2. \A n \in DOMAIN reqs' : n \in Nat /\ Past(i, n) \in DOMAIN reqs /\ reqs'[n] = reqs[Past(i, n)]
      BY <1>0, <2>1, RemoveAtMoves, Zenon DEF Past
    <2> QED
      BY <1>0, <2>1, <2>2, FewerInOrder, Zenon
  <1>7. ASSUME UNCHANGED <<reqs, resent>>,
               \A k \in DOMAIN incoming' : k \in DOMAIN incoming /\ incoming'[k].id = incoming[k].id
        PROVE  FirstInOrder'
    BY <1>7, Zenon DEF FirstInOrder
  <1>8. ASSUME NEW code, Handled(code)
        PROVE  FirstInOrder'
    <2>1. \A k \in DOMAIN incoming' : k \in DOMAIN incoming /\ incoming'[k].id = incoming[k].id
      BY <1>8 DEF Handled, ChannelInv, TypeOK, ReceiverType, Sent
    <2> QED
      BY <1>7, <1>8, <2>1, Zenon DEF Handled, network, history
  <1>9. CASE ReceiverCrash
    BY <1>7, <1>9 DEF ReceiverCrash, history
  <1>10. CASE UNCHANGED <<reqs, resent, incoming>>
    BY <1>7, <1>10, Zenon
  <1> QED
    BY <1>1, <1>2, <1>4, <1>5, <1>6, <1>8, <1>9, <1>10, Zenon
    DEF Next, BeginCallback, Send, CallbackOk, CallbackErr, HandleResponse, Tick, Advance, LoseResponse,
        ClockBack, SenderCrash, SenderRestart, ReceiverRestart, network, receiver, history, vars

\* The incoming table never goes back to an older message of a key but through
\* one that was resent: what is sent once is taken in sending order
\* (send_queued_messages drains its queue from the front).
THEOREM OrderKept == Spec => RegressionNeedsResend
  <1> DEFINE Kept == \A k \in DOMAIN incoming \cap DOMAIN incoming' :
                       incoming'[k].id < incoming[k].id => incoming'[k].id \in resent
  <1>1. Init => QueuedLast /\ FirstInOrder
    BY SeqEmpty, Zenon DEF Init, QueuedLast, FirstInOrder, Abroad
  <1>2. ChannelInv /\ QueuedLast /\ FirstInOrder /\ [Next]_vars => QueuedLast' /\ FirstInOrder'
    BY NextQueuedLast, NextFirstInOrder, Zenon
  <1>3. ChannelInv /\ FirstInOrder /\ [Next]_vars => Kept
    <2> SUFFICES ASSUME ChannelInv, FirstInOrder, [Next]_vars,
                        NEW k \in DOMAIN incoming, k \in DOMAIN incoming', incoming'[k].id < incoming[k].id
                 PROVE  incoming'[k].id \in resent
      BY Zenon
    <2>0. incoming[k].id \in Nat
      BY ActorChannelAssumption DEF ChannelInv, TypeOK, ReceiverType, Sent, Ids
    <2>1. CASE Receive
      <3>1. reqs # <<>> /\ reqs \in Seq(Request)
        BY <2>1, Zenon DEF Receive, ChannelInv, TypeOK, NetworkType
      <3>2. Head(reqs) = reqs[1] /\ 1 \in DOMAIN reqs /\ reqs[1] \in Request
        BY <3>1, SeqTail, SeqRange, SeqEmpty
      <3>3. incoming'[k].id = reqs[1].id \/ incoming'[k] = incoming[k]
        BY <2>1, <3>2, Zenon DEF Receive, Update, UpdateReceived
      <3>4. reqs[1].id \in Nat
        BY <3>2, ActorChannelAssumption DEF Request, Ids
      <3> QED
        BY <2>0, <3>2, <3>3, <3>4 DEF FirstInOrder
    <2>2. ASSUME NEW code, Handled(code)
          PROVE  FALSE
      BY <2>0, <2>2 DEF Handled, ChannelInv, TypeOK, ReceiverType, Sent
    <2>3. CASE ReceiverCrash
      BY <2>3 DEF ReceiverCrash
    <2>4. CASE UNCHANGED incoming
      BY <2>0, <2>4
    <2> QED
      BY <2>1, <2>2, <2>3, <2>4, Zenon
      DEF Next, BeginCallback, Send, CallbackOk, CallbackErr, SendQueued, HandleResponse, Tick, Resend, Advance,
          Bounce, LoseRequest, LoseResponse, ClockBack, SenderCrash, SenderRestart, ReceiverRestart,
          receiver, vars
  <1> QED
    BY ChannelInvariant, <1>1, <1>2, <1>3, PTL DEF RegressionNeedsResend, Spec

-----------------------------------------------------------------------------
\* What the refinement needs beside ChannelInv: requests in flight have issued
\* ids, and no two keys have the same latest message.
RefinementInv ==
    /\ \A n \in DOMAIN reqs : reqs[n].id < nextId
    /\ \A k, l \in DOMAIN sent : sent[k].id = sent[l].id => k = l

\* A message in flight was sent, and each is the latest of its own key only.
LEMMA NextRefinementInv ==
    ASSUME ChannelInv, RefinementInv, [Next]_vars
    PROVE  RefinementInv'
  <1> DEFINE Issued == {q \in Request : q.id < nextId}
  <1>0. /\ reqs \in Seq(Request) /\ DOMAIN reqs = 1..Len(reqs)
        /\ nextId \in Nat /\ launched \subseteq Nat
        /\ queued \in Seq(Queued)
        /\ \A k \in DOMAIN sent : sent[k] \in Sent /\ sent[k].id \in launched
        /\ \A i \in DOMAIN unacked : unacked[i] \in Pending /\ i \in launched
        /\ resending \subseteq DOMAIN unacked
    BY SeqRange, ActorChannelAssumption DEF ChannelInv, TypeOK, SenderType, NetworkType, Ids
  <1>n. nextId \in Nat
    BY <1>0, Zenon
  <1>1. reqs \in Seq(Issued)
    BY <1>0 DEF RefinementInv
  <1>2. ASSUME reqs' \in Seq(Issued), nextId' \in Nat, nextId' >= nextId
        PROVE  \A n \in DOMAIN reqs' : reqs'[n].id < nextId'
    <2>1. \A n \in DOMAIN reqs' : reqs'[n] \in Issued
      BY <1>2, SeqRange, Zenon
    <2>2. \A q \in Issued : q.id \in Nat
      BY ActorChannelAssumption DEF Request, Ids
    <2> QED
      BY <1>0, <1>2, <2>1, <2>2
  <1>3. ASSUME DOMAIN sent' = DOMAIN sent, \A k \in DOMAIN sent : sent'[k].id = sent[k].id
        PROVE  \A k, l \in DOMAIN sent' : sent'[k].id = sent'[l].id => k = l
    BY <1>3, Zenon DEF RefinementInv
  <1> HIDE DEF Issued
  <1>4. CASE SendQueued
    <2> DEFINE m == Head(queued)
    <2>1. queued # <<>>
      BY <1>4, Zenon DEF SendQueued, ChannelInv, TypeOK, SenderType
    <2>2. m = queued[1] /\ 1 \in DOMAIN queued /\ m \in Queued
      BY <1>0, <2>1, SeqTail, SeqRange
    <2>3. m.id \notin launched /\ m.id < nextId
      BY <2>2, Zenon DEF ChannelInv, IdsFresh
    <2>4. /\ sent' = Update(sent, m.key, SentEntry(m.key, m.id)) /\ SentEntry(m.key, m.id).id = m.id
          /\ reqs' = Append(reqs, [id |-> m.id, key |-> m.key]) /\ nextId' = nextId
      BY <1>4, Zenon DEF SendQueued, SentEntry
    <2> HIDE DEF m
    <2>5. [id |-> m.id, key |-> m.key] \in Issued
      BY <2>2, <2>3, Zenon DEF Queued, Request, Issued
    <2>6. reqs' \in Seq(Issued)
      BY <1>1, <2>4, <2>5, SeqAppend, Zenon
    <2>7. \A k, l \in DOMAIN sent' : sent'[k].id = sent'[l].id => k = l
      BY <1>0, <2>3, <2>4 DEF Update, RefinementInv
    <2> QED
      BY <1>0, <1>2, <2>4, <2>6, <2>7, SMTT(30) DEF RefinementInv
  <1>5. ASSUME NEW i \in resending, Resend(i) PROVE RefinementInv'
    <2>1. [id |-> i, key |-> unacked[i].key] \in Issued
      <3>1. launched \subseteq Ids /\ \A j \in launched : j < nextId
        BY Zenon DEF ChannelInv, IdsFresh, TypeOK, SenderType
      <3>2. i \in launched /\ unacked[i] \in Pending
        BY <1>0, Zenon
      <3> QED
        BY <3>1, <3>2, Zenon DEF Pending, Request, Issued
    <2>2. reqs' \in Seq(Issued)
      <3>1. CASE unacked[i].age >= ResendTime
        BY <1>1, <1>5, <2>1, <3>1, SeqAppend, SMTT(30) DEF Resend
      <3>2. CASE ~(unacked[i].age >= ResendTime)
        BY <1>1, <1>5, <3>2, SMTT(30) DEF Resend
      <3> QED
        BY <3>1, <3>2, Zenon
    <2> QED
      BY <1>0, <1>2, <1>3, <1>5, <2>2 DEF Resend, RefinementInv
  <1>6. ASSUME NEW i \in DOMAIN resps, HandleResponse(i) PROVE RefinementInv'
    <2>1. DOMAIN sent' = DOMAIN sent /\ \A k \in DOMAIN sent : sent'[k].id = sent[k].id
      <3>1. \A k \in DOMAIN sent : ResponseReceived(sent[k], resps[i]).id = sent[k].id
        BY <1>0, Zenon DEF ResponseReceived, Sent
      <3>2. \/ sent' = sent
            \/ sent' = [sent EXCEPT ![unacked[resps[i].id].key] = ResponseReceived(@, resps[i])]
        BY <1>6, SMTT(30) DEF HandleResponse
      <3> QED
        BY <3>1, <3>2, Zenon
    <2> QED
      BY <1>0, <1>1, <1>2, <1>3, <1>6, <2>1, Zenon DEF HandleResponse, RefinementInv
  <1>7. ASSUME NEW i \in DOMAIN reqs, LoseRequest(i) PROVE RefinementInv'
    <2>1. reqs' \in Seq(Issued)
      BY <1>1, <1>7, RemoveAtProperties, Zenon DEF LoseRequest
    <2> QED
      BY <1>0, <1>2, <1>3, <1>7, <2>1 DEF LoseRequest, sender, RefinementInv
  <1>8. CASE Receive \/ Bounce
    <2>1. reqs # <<>> /\ reqs' = Tail(reqs)
      BY <1>8, Zenon DEF Receive, Bounce
    <2>2. reqs' \in Seq(Issued)
      BY <1>1, <2>1, SeqTail, Zenon
    <2>3. nextId' = nextId /\ sent' = sent
      BY <1>8, Zenon DEF Receive, Bounce, sender
    <2>4. \A n \in DOMAIN reqs' : reqs'[n].id < nextId'
      BY <1>2, <1>n, <2>2, <2>3
    <2> QED
      BY <2>3, <2>4, Zenon DEF RefinementInv
  <1>9. ASSUME NEW k \in Keys, Send(k) PROVE RefinementInv'
    <2>1. reqs' = reqs /\ sent' = sent /\ nextId' = nextId + 1
      BY <1>9, Zenon DEF Send, network
    <2>2. \A n \in DOMAIN reqs' : reqs'[n].id < nextId'
      BY <1>1, <1>2, <1>n, <2>1
    <2> QED
      BY <2>1, <2>2, Zenon DEF RefinementInv
  <1>10. CASE SenderCrash
    <2>1. reqs' = reqs /\ sent' = <<>> /\ nextId' = nextId
      BY <1>10, Zenon DEF SenderCrash
    <2>2. DOMAIN sent' = {}
      BY <2>1, SeqEmpty, Zenon
    <2> QED
      BY <2>1, <2>2, Zenon DEF RefinementInv
  <1>11. CASE UNCHANGED <<reqs, sent, nextId>>
    BY <1>11, Zenon DEF RefinementInv
  <1> QED
    BY <1>4, <1>5, <1>6, <1>7, <1>8, <1>9, <1>10, <1>11, Zenon
    DEF Next, BeginCallback, CallbackOk, CallbackErr, Tick, Advance, Handled, LoseResponse, ClockBack,
        SenderRestart, ReceiverCrash, ReceiverRestart, sender, network, vars

\* The acks that are shown.
Shown == {sent[k].id : k \in {x \in DOMAIN sent : sent[x].acked}}

\* Every step of the channel is a step of AtLeastOnce, or changes nothing of
\* what the sending actor sees.
LEMMA StepDelivers ==
    ASSUME ChannelInv, RefinementInv, [Next]_vars
    PROVE  [Delivery!Next]_(Delivery!vars)
  <1> USE ActorChannelAssumption
  <1>0. /\ nextId \in 1..(MaxId + 1) /\ launched \subseteq Ids
        /\ \A i \in DOMAIN unacked : unacked[i] \in Pending /\ i \in launched
        /\ \A k \in DOMAIN sent : sent[k] \in Sent /\ sent[k].id \in launched
        /\ \A i \in launched : i < nextId
    BY Zenon DEF ChannelInv, IdsFresh, TypeOK, SenderType
  <1>1. ASSUME NEW k \in Keys, Send(k) PROVE Delivery!Next
    <2>1. nextId \in Ids /\ nextId \notin 1..(nextId - 1)
      BY <1>0, <1>1 DEF Send, Ids
    <2>2. 1..(nextId' - 1) = (1..(nextId - 1)) \cup {nextId}
      BY <1>0, <1>1 DEF Send
    <2>3. Delivery!Issue(nextId)
      BY <1>1, <2>1, <2>2, Zenon DEF Send, Delivery!Issue, history
    <2> QED
      BY <2>1, <2>3, Zenon DEF Delivery!Next
  <1>2. CASE SendQueued
    <2> DEFINE m == Head(queued)
    <2>1. queued # <<>> /\ queued \in Seq(Queued)
      BY <1>2, Zenon DEF SendQueued, ChannelInv, TypeOK, SenderType
    <2>2. m = queued[1] /\ 1 \in DOMAIN queued /\ m \in Queued
      BY <2>1, SeqTail, SeqRange
    <2>3. m.id \notin launched /\ m.id < nextId /\ m.id \in Ids
      BY <2>2, Zenon DEF ChannelInv, IdsFresh, Queued
    <2>4. /\ sent' = Update(sent, m.key, SentEntry(m.key, m.id))
          /\ unacked' = Update(unacked, m.id, [key |-> m.key, age |-> m.age])
          /\ nextId' = nextId /\ replied' = replied /\ expired' = expired
          /\ SentEntry(m.key, m.id).acked = FALSE
      BY <1>2, Zenon DEF SendQueued, SentEntry
    <2> HIDE DEF m
    <2>5. m.id \in (1..(nextId - 1)) \ DOMAIN unacked
      BY <1>0, <2>3 DEF Ids
    <2>6. DOMAIN unacked' = DOMAIN unacked \cup {m.id}
      BY <2>4, Zenon DEF Update
    <2>7. Shown' \in {Shown} \cup {Shown \ {j} : j \in Shown}
      <3>1. CASE m.key \in DOMAIN sent /\ sent[m.key].acked
        <4>1. sent[m.key].id \in Shown
          BY <3>1, Zenon DEF Shown
        <4>2. /\ DOMAIN sent' = DOMAIN sent /\ ~sent'[m.key].acked
              /\ \A x \in DOMAIN sent \ {m.key} : sent'[x] = sent[x]
          BY <2>4, <3>1, Zenon DEF Update
        <4>3. \A x \in DOMAIN sent \ {m.key} : sent[x].id # sent[m.key].id
          BY <3>1, Zenon DEF RefinementInv
        <4>4. Shown' = Shown \ {sent[m.key].id}
          BY <3>1, <4>2, <4>3 DEF Shown
        <4> QED
          BY <4>1, <4>4, Zenon
      <3>2. CASE ~(m.key \in DOMAIN sent /\ sent[m.key].acked)
        <4>1. Shown' = Shown
          BY <2>4, <3>2, Zenon DEF Shown, Update
        <4> QED
          BY <4>1, Zenon
      <3> QED
        BY <3>1, <3>2, Zenon
    <2>8. Delivery!Launch(m.id)
      BY <2>4, <2>5, <2>6, <2>7, Zenon DEF Delivery!Launch, Shown
    <2>9. m.id \in Ids
      BY <2>3, Zenon
    <2> QED
      BY <2>8, <2>9, Zenon DEF Delivery!Next, Delivery!Launch
  <1>3. ASSUME NEW i \in DOMAIN resps, HandleResponse(i) PROVE [Delivery!Next]_(Delivery!vars)
    <2> DEFINE r == resps[i]
               k == unacked[r.id].key
    <2>1. nextId' = nextId /\ replied' = replied /\ expired' = expired
      BY <1>3, Zenon DEF HandleResponse, history
    <2>2. CASE r.id \notin DOMAIN unacked
      BY <1>3, <2>1, <2>2, Zenon DEF HandleResponse, Delivery!vars
    <2>3. CASE r.id \in DOMAIN unacked
      <3>1. /\ sent' = [sent EXCEPT ![k] = ResponseReceived(@, r)]
            /\ unacked' = IF r.code = "Ok" THEN Without(unacked, {r.id}) ELSE unacked
        BY <1>3, <2>3, Zenon DEF HandleResponse
      <3>2. k \in DOMAIN sent /\ r.id \in Ids
        BY <1>0, <2>3, Zenon DEF ChannelInv, UnackedHasSent
      <3>3. \A x \in DOMAIN sent : sent[x].acked => sent[x].id # r.id
        BY <2>3, Zenon DEF ChannelInv, AckedNotPending
      <3>4. r.code = "Ok" => r.id \in DOMAIN replied
        BY Zenon DEF ChannelInv, OkWasDelivered
      <3> HIDE DEF r, k
      <3>5. /\ DOMAIN sent' = DOMAIN sent
            /\ \A x \in DOMAIN sent \ {k} : sent'[x] = sent[x]
            /\ sent'[k] = ResponseReceived(sent[k], r)
        BY <3>1, <3>2, Zenon
      <3>6. sent[k] \in Sent
        BY <1>0, <3>2, Zenon
      <3>7. CASE r.code = "Ok"
        <4>1. Shown' = Shown \/ Shown' = Shown \cup {r.id}
          <5>1. CASE sent[k].id = r.id
            <6>1. sent'[k].id = r.id /\ sent'[k].acked /\ ~sent[k].acked
              BY <3>2, <3>3, <3>5, <3>6, <3>7, <5>1, Zenon DEF ResponseReceived, Sent
            <6>2. Shown' = Shown \cup {r.id}
              BY <3>2, <3>5, <6>1 DEF Shown
            <6> QED
              BY <6>2, Zenon
          <5>2. CASE sent[k].id # r.id
            <6>1. sent'[k] = sent[k]
              BY <3>5, <5>2, Zenon DEF ResponseReceived
            <6>2. Shown' = Shown
              BY <3>5, <6>1, Zenon DEF Shown
            <6> QED
              BY <6>2, Zenon
          <5> QED
            BY <5>1, <5>2, Zenon
        <4>2. DOMAIN unacked' = DOMAIN unacked \ {r.id}
          BY <3>1, <3>7, Zenon DEF Without
        <4>3. Delivery!Settle(r.id)
          <5>1. Shown' \in {Shown, Shown \cup {r.id}}
            BY <4>1, Zenon
          <5>2. r.id \in DOMAIN unacked \cap DOMAIN replied
            BY <2>3, <3>4, <3>7, Zenon DEF r
          <5> QED
            BY <2>1, <4>2, <5>1, <5>2, Zenon DEF Delivery!Settle, Shown
        <4>4. r.id \in Ids
          BY <3>2, Zenon
        <4> QED
          BY <4>3, <4>4, Zenon DEF Delivery!Next, Delivery!Settle
      <3>8. CASE r.code # "Ok"
        <4>1. sent'[k].id = sent[k].id /\ sent'[k].acked = sent[k].acked
          BY <3>2, <3>3, <3>5, <3>6, <3>8, Zenon DEF ResponseReceived, Sent
        <4>2. Shown' = Shown
          BY <3>5, <4>1 DEF Shown
        <4> QED
          BY <2>1, <3>1, <3>8, <4>2, Zenon DEF Delivery!vars, Shown
      <3> QED
        BY <3>7, <3>8, Zenon
    <2> QED
      BY <2>2, <2>3, Zenon
  <1>4. CASE Tick
    <2> DEFINE old == {i \in DOMAIN unacked : unacked[i].age >= DropTime}
    <2>1. DOMAIN unacked' = DOMAIN unacked \ old /\ expired' = expired \cup old /\ old \in SUBSET DOMAIN unacked
      BY <1>4, Zenon DEF Tick, Without
    <2> HIDE DEF old
    <2>2. Delivery!GiveUp
      BY <1>4, <2>1, Zenon DEF Tick, Delivery!GiveUp
    <2> QED
      BY <2>2, SMTT(30) DEF Delivery!Next
  <1>5. CASE Receive
    <2> DEFINE m == Head(reqs)
    <2>1. reqs # <<>> /\ reqs \in Seq(Request)
      BY <1>5, Zenon DEF Receive, ChannelInv, TypeOK, NetworkType
    <2>2. m = reqs[1] /\ 1 \in DOMAIN reqs /\ m \in Request
      BY <2>1, SeqTail, SeqRange
    <2>3. m.id \in Ids /\ m.id \in 1..(nextId - 1)
      BY <1>0, <2>2 DEF Request, RefinementInv, Ids
    <2>4. DOMAIN replied' = DOMAIN replied \cup {m.id}
      BY <1>5, SMTT(30) DEF Receive, Update
    <2> HIDE DEF m
    <2>5. Delivery!Take(m.id)
      BY <1>5, <2>3, <2>4, Zenon DEF Receive, sender, Delivery!Take
    <2> QED
      BY <2>3, <2>5, Zenon DEF Delivery!Next
  <1>6. CASE SenderCrash
    <2>1. DOMAIN unacked' = {} /\ Shown' = {}
      BY <1>6 DEF SenderCrash, Shown
    <2>2. Delivery!SenderDies
      BY <1>6, <2>1, Zenon DEF SenderCrash, Delivery!SenderDies, Shown
    <2> QED
      BY <2>2, Zenon DEF Delivery!Next
  <1>7. CASE Advance \/ ClockBack
    <2>1. DOMAIN unacked' = DOMAIN unacked /\ UNCHANGED <<nextId, sent, replied, expired>>
      BY <1>7, Zenon DEF Advance, ClockBack, history
    <2> QED
      BY <2>1, Zenon DEF Delivery!vars
  <1>8. CASE UNCHANGED <<nextId, unacked, sent, replied, expired>>
    BY <1>8, Zenon DEF Delivery!vars
  <1> QED
    BY <1>1, <1>2, <1>3, <1>4, <1>5, <1>6, <1>7, <1>8, Zenon
    DEF Next, BeginCallback, CallbackOk, CallbackErr, Resend, Handled, Bounce, LoseRequest,
        LoseResponse, SenderRestart, ReceiverCrash, ReceiverRestart, sender, history, vars

\* The outgoing and incoming state tables implement at-least-once delivery.
THEOREM ChannelDelivers == Spec => DeliversAtLeastOnce
  <1>1. Init => Delivery!Init
    <2> SUFFICES ASSUME Init PROVE Delivery!Init
      BY Zenon
    <2>1. 1..(nextId - 1) = {} /\ DOMAIN unacked = {} /\ DOMAIN replied = {} /\ DOMAIN sent = {}
      BY DEF Init
    <2> QED
      BY <2>1, Zenon DEF Init, Delivery!Init
  <1>2. Init => RefinementInv
    BY DEF Init, RefinementInv
  <1>3. Spec => []RefinementInv
    BY <1>2, ChannelInvariant, NextRefinementInv, PTL DEF Spec
  <1> QED
    BY <1>1, <1>3, ChannelInvariant, StepDelivers, PTL DEF Spec, DeliversAtLeastOnce, Delivery!Spec
=============================================================================
