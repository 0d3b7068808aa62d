-------------------------- MODULE CoreClientProofs --------------------------
(***************************************************************************)
(* Proofs about CoreClient, for any number of rounds, any channel sizes,   *)
(* answers and broken streams: its types with the capacity of every        *)
(* channel, SendsOnPublished and OkWasReached.                             *)
(***************************************************************************)
EXTENDS CoreClient, SequenceTheorems, TLAPS

\* Every answer on its way to the command, and every request swbusd has still
\* to answer, is that of a request that has reached swbusd.
AnswersReached ==
    /\ incoming \in Seq(reached) /\ remote \in Seq(reached) /\ handler \in Seq(reached)
    /\ router.pc = "delivering" => router.id \in reached
    /\ pending \subseteq reached

\* The inductive invariant.  OkWasReached alone says nothing of the answers
\* that are still in the queues.
CoreInv == TypeOK /\ SendsOnPublished /\ AnswersReached /\ OkWasReached

-----------------------------------------------------------------------------
\* A sequence over a set is one over every larger set.
LEMMA SeqLarger ==
    ASSUME NEW S, NEW T, S \subseteq T, NEW s \in Seq(S)
    PROVE  s \in Seq(T)
  <1>1. PICK n \in Nat : s \in [1..n -> S]
    BY SeqDef
  <1>2. s \in [1..n -> T]
    BY <1>1, Zenon
  <1> QED
    BY <1>2, SeqDef

\* The request of a round has an id, and the same one from then on.
LEMMA IdOfRound ==
    ASSUME NEW r \in 1..Rounds
    PROVE  IdOf(r) \in Ids
  BY CoreClientAssumption DEF IdOf, Ids

\* The head and the tail of a queue that is not empty, and a message put at its
\* end.
LEMMA Queue ==
    ASSUME NEW S, NEW s \in Seq(S)
    PROVE  /\ s # <<>> => Head(s) \in S /\ Tail(s) \in Seq(S) /\ Len(Tail(s)) = Len(s) - 1
           /\ \A x \in S : Append(s, x) \in Seq(S) /\ Len(Append(s, x)) = Len(s) + 1
           /\ Len(s) \in Nat
           /\ \A n \in 0..Len(s) : SubSeq(s, 1, n) \in Seq(S)
  <1>1. s # <<>> => Head(s) \in S /\ Tail(s) \in Seq(S) /\ Len(Tail(s)) = Len(s) - 1
    BY HeadTailProperties, Zenon
  <1>2. \A x \in S : Append(s, x) \in Seq(S) /\ Len(Append(s, x)) = Len(s) + 1
    BY AppendProperties, Zenon
  <1>3. Len(s) \in Nat
    BY LenProperties, Zenon
  <1>4. ASSUME NEW n \in 0..Len(s)
        PROVE  SubSeq(s, 1, n) \in Seq(S)
    BY <1>3, <1>4, SubSeqProperties
  <1> QED
    BY <1>1, <1>2, <1>3, <1>4, Zenon

-----------------------------------------------------------------------------
\* The client starts with everything empty.
LEMMA InitCoreInv == Init => CoreInv
  <1> SUFFICES ASSUME Init PROVE CoreInv
    BY Zenon
  <1> USE CoreClientAssumption
  <1>1. \A S : <<>> \in Seq(S) /\ Len(<<>>) = 0
    BY EmptySeq, Zenon
  <1>2. TypeOK
    <2>1. /\ verdict \in [1..Rounds -> {"none", "ok", "timeout"}] /\ round \in 1..Rounds
          /\ router \in {Idle}
      BY DEF Init
    <2>2. /\ Len(local) <= LocalCap /\ Len(remote) <= RemoteCap /\ Len(handler) <= HandlerCap /\ Len(sendq) <= SendCap
          /\ local \in Seq(Ids) /\ remote \in Seq(Ids) /\ handler \in Seq(Ids)
          /\ sendq \in Seq(Ids) /\ incoming \in Seq(Ids)
      BY <1>1 DEF Init
    <2> QED
      BY <2>1, <2>2, Zenon DEF Init, TypeOK
  <1>3. SendsOnPublished /\ AnswersReached /\ OkWasReached
    BY <1>1, Zenon DEF Init, SendsOnPublished, AnswersReached, OkWasReached, Idle
  <1> QED
    BY <1>2, <1>3, Zenon DEF CoreInv

\* Every step keeps the types and the channels within their capacity.
LEMMA NextTypeOK ==
    ASSUME TypeOK, [Next]_vars
    PROVE  TypeOK'
  <1> USE CoreClientAssumption DEF TypeOK
  <1>0. Len(remote) \in Nat /\ Len(handler) \in Nat /\ Len(sendq) \in Nat
    BY Queue, Zenon
  <1>1. CASE Dial
    <2>1. \A i \in DOMAIN sendq : sendq[i] \in Ids
      BY ElementOfSeq, LenProperties
    <2>2. <<>> \in Seq(Ids) /\ Len(<<>>) = 0
      BY EmptySeq, Zenon
    <2> QED
      BY <1>1, <2>1, <2>2 DEF Dial, cmd, queues, swbusd
  <1>2. CASE DialFails \/ Publish \/ SeeEnd \/ Clear
    BY <1>2 DEF DialFails, Publish, SeeEnd, Clear, cmd, queues, stream, swbusd
  <1>3. CASE Receive
    <2>1. Head(incoming) \in Ids /\ Tail(incoming) \in Seq(Ids)
      BY <1>3, Queue, Zenon DEF Receive
    <2>2. Append(remote, Head(incoming)) \in Seq(Ids) /\ Len(Append(remote, Head(incoming))) = Len(remote) + 1
      BY <2>1, Queue
    <2>3. remote' \in Seq(Ids) /\ Len(remote') <= RemoteCap /\ receiver' \in {"running", "ended"}
      <3>1. CASE UNCHANGED remote
        BY <1>3, <3>1, Zenon DEF Receive
      <3>2. CASE remote' = Append(remote, Head(incoming)) /\ Len(remote) < RemoteCap
        BY <1>0, <1>3, <2>2, <3>2 DEF Receive
      <3> QED
        BY <1>3, <3>1, <3>2, Zenon DEF Receive
    <2>4. /\ incoming' = Tail(incoming)
          /\ UNCHANGED <<cmd, local, handler, router, connect, published, open, sendq, stale, swbusd>>
      BY <1>3, Zenon DEF Receive
    <2> QED
      BY <2>1, <2>3, <2>4 DEF cmd, swbusd
  <1>4. CASE StreamEnds
    BY <1>4 DEF StreamEnds, cmd, queues, swbusd
  <1>5. CASE RouteLocal
    <2>1. Head(local) \in Ids /\ Tail(local) \in Seq(Ids)
      BY <1>5, Queue, Zenon DEF RouteLocal
    <2> QED
      BY <1>5, <2>1 DEF RouteLocal, cmd, stream, swbusd
  <1>6. CASE Send
    <2>1. router.id \in Ids
      BY <1>6 DEF Send, Idle
    <2>2. Append(sendq, router.id) \in Seq(Ids) /\ Len(Append(sendq, router.id)) = Len(sendq) + 1
      BY <2>1, Queue
    <2>3. sendq' \in Seq(Ids) /\ Len(sendq') <= SendCap
      <3>1. CASE UNCHANGED sendq
        BY <1>6, <3>1, Zenon DEF Send
      <3>2. CASE sendq' = Append(sendq, router.id) /\ Len(sendq) < SendCap
        BY <1>0, <1>6, <2>2, <3>2 DEF Send
      <3> QED
        BY <1>6, <3>1, <3>2, Zenon DEF Send
    <2>4. /\ router' = Idle
          /\ UNCHANGED <<cmd, queues, connect, published, receiver, open, incoming, stale, swbusd>>
      BY <1>6, Zenon DEF Send
    <2> QED
      BY <2>3, <2>4 DEF cmd, queues, swbusd
  <1>7. CASE RouteRemote
    <2>1. Head(remote) \in Ids /\ Tail(remote) \in Seq(Ids) /\ Len(Tail(remote)) = Len(remote) - 1
      BY <1>7, Queue, Zenon DEF RouteRemote
    <2> QED
      BY <1>0, <1>7, <2>1 DEF RouteRemote, cmd, stream, swbusd
  <1>8. CASE Deliver
    <2>1. router.id \in Ids
      BY <1>8 DEF Deliver, Idle
    <2>2. Append(handler, router.id) \in Seq(Ids) /\ Len(Append(handler, router.id)) = Len(handler) + 1
      BY <2>1, Queue
    <2>3. handler' \in Seq(Ids) /\ Len(handler') <= HandlerCap
      <3>1. CASE UNCHANGED handler
        BY <1>8, <3>1, Zenon DEF Deliver
      <3>2. CASE handler' = Append(handler, router.id) /\ Len(handler) < HandlerCap
        BY <1>0, <1>8, <2>2, <3>2 DEF Deliver
      <3> QED
        BY <1>8, <3>1, <3>2, Zenon DEF Deliver
    <2>4. /\ router' = Idle
          /\ UNCHANGED <<cmd, local, remote, connect, published, stream, swbusd>>
      BY <1>8, Zenon DEF Deliver
    <2> QED
      BY <2>3, <2>4 DEF cmd, stream, swbusd
  <1>9. CASE AwaitConnection \/ WaitOn \/ Rest
    BY <1>9 DEF AwaitConnection, WaitOn, Rest, queues, stream, swbusd
  <1>10. CASE SendRequest
    <2>1. Append(local, IdOf(round)) \in Seq(Ids)
      BY IdOfRound, Queue, Zenon
    <2> QED
      BY <1>10, <2>1 DEF SendRequest, stream, swbusd
  <1>11. ASSUME NEW v \in {"ok", "timeout"}, EndRound(v)
         PROVE  /\ round' \in 1..Rounds
                /\ verdict' \in [1..Rounds -> {"none", "ok", "timeout"}]
                /\ cli' \in {"waiting", "resting", "done"}
    BY <1>11 DEF EndRound
  <1>12. CASE TakeAnswer
    <2>1. Tail(handler) \in Seq(Ids) /\ Len(Tail(handler)) = Len(handler) - 1
      BY <1>12, Queue, Zenon DEF TakeAnswer
    <2>2. /\ round' \in 1..Rounds
          /\ verdict' \in [1..Rounds -> {"none", "ok", "timeout"}]
          /\ cli' \in {"waiting", "resting", "done", "skipped"}
      BY <1>11, <1>12, Zenon DEF TakeAnswer
    <2> QED
      BY <1>0, <1>12, <2>1, <2>2 DEF TakeAnswer, stream, swbusd
  <1>13. CASE TimeOut
    <2>1. /\ round' \in 1..Rounds
          /\ verdict' \in [1..Rounds -> {"none", "ok", "timeout"}]
          /\ cli' \in {"waiting", "resting", "done"}
      BY <1>11, <1>13, Zenon DEF TimeOut
    <2> QED
      BY <1>13, <2>1 DEF TimeOut, queues, stream, swbusd
  <1>14. CASE Transmit
    <2>1. Head(sendq) \in Ids /\ Tail(sendq) \in Seq(Ids) /\ Len(Tail(sendq)) = Len(sendq) - 1
      BY <1>14, Queue, Zenon DEF Transmit
    <2> QED
      BY <1>0, <1>14, <2>1 DEF Transmit, cmd, queues
  <1>15. ASSUME NEW i \in Ids, TransmitLate(i)
         PROVE  TypeOK'
    BY <1>15 DEF TransmitLate, cmd, queues
  <1>16. ASSUME NEW i \in Ids, Answer(i)
         PROVE  TypeOK'
    <2>1. Append(incoming, i) \in Seq(Ids)
      BY Queue, Zenon
    <2>2. pending' \subseteq Ids
      BY <1>16, Zenon DEF Answer
    <2> QED
      BY <1>16, <2>1, <2>2 DEF Answer, cmd, queues
  <1>17. CASE Break
    <2>1. incoming' \in Seq(Ids)
      BY <1>17, Queue DEF Break
    <2> QED
      BY <1>17, <2>1 DEF Break, cmd, queues, swbusd
  <1>18. CASE Close
    BY <1>18 DEF Close, cmd, queues, swbusd
  <1>19. CASE UNCHANGED vars
    BY <1>19 DEF vars, cmd, queues, stream, swbusd
  <1> QED
    BY <1>1, <1>2, <1>3, <1>4, <1>5, <1>6, <1>7, <1>8, <1>9, <1>10, <1>12, <1>13, <1>14, <1>15,
       <1>16, <1>17, <1>18, <1>19, Zenon
    DEF Next, ConnectTask, ReceiveTask, Router, Command, Outside

\* The lock: the connect task publishes and withdraws only when the router does
\* not wait for room, and the router only waits when a queue is published.
LEMMA NextSendsOnPublished ==
    ASSUME SendsOnPublished, [Next]_vars
    PROVE  SendsOnPublished'
  <1> USE DEF SendsOnPublished
  <1>1. CASE Publish \/ Clear
    BY <1>1, Zenon DEF Publish, Clear
  <1>2. CASE Dial \/ SeeEnd
    BY <1>2 DEF Dial, SeeEnd
  <1>3. CASE RouteLocal \/ Send \/ RouteRemote \/ Deliver
    BY <1>3 DEF RouteLocal, Send, RouteRemote, Deliver, Idle
  <1>4. CASE UNCHANGED <<router, connect, published>>
    BY <1>4, Zenon
  <1> QED
    BY <1>1, <1>2, <1>3, <1>4, Zenon
    DEF Next, ConnectTask, ReceiveTask, Router, Command, Outside, DialFails, Receive, StreamEnds,
        AwaitConnection, SendRequest, TakeAnswer, TimeOut, WaitOn, Rest, Transmit, TransmitLate,
        Answer, Break, Close, vars

\* No step lets an answer to a request into a queue that has not reached swbusd.
LEMMA NextAnswersReached ==
    ASSUME TypeOK, AnswersReached, [Next]_vars
    PROVE  AnswersReached' /\ reached \subseteq reached'
  <1> USE DEF AnswersReached
  <1>1. CASE Dial
    BY <1>1, EmptySeq, Zenon DEF Dial, queues, swbusd
  <1>2. CASE Receive
    <2>1. Head(incoming) \in reached /\ Tail(incoming) \in Seq(reached)
      BY <1>2, Queue, Zenon DEF Receive
    <2>2. Append(remote, Head(incoming)) \in Seq(reached)
      BY <2>1, Queue, Zenon
    <2>3. remote' \in Seq(reached)
      BY <1>2, <2>2, Zenon DEF Receive
    <2> QED
      BY <1>2, <2>1, <2>3, Zenon DEF Receive, swbusd
  <1>3. CASE RouteLocal
    BY <1>3, Zenon DEF RouteLocal, stream, swbusd, Idle
  <1>4. CASE Send
    BY <1>4, Zenon DEF Send, queues, swbusd, Idle
  <1>5. CASE RouteRemote
    <2>1. Head(remote) \in reached /\ Tail(remote) \in Seq(reached)
      BY <1>5, Queue, Zenon DEF RouteRemote
    <2> QED
      BY <1>5, <2>1, Zenon DEF RouteRemote, stream, swbusd
  <1>6. CASE Deliver
    <2>1. Append(handler, router.id) \in Seq(reached)
      BY <1>6, Queue, Zenon DEF Deliver
    <2>2. handler' \in Seq(reached)
      BY <1>6, <2>1, Zenon DEF Deliver
    <2> QED
      BY <1>6, <2>2, Zenon DEF Deliver, stream, swbusd, Idle
  <1>7. CASE TakeAnswer
    <2>1. Tail(handler) \in Seq(reached)
      BY <1>7, Queue, Zenon DEF TakeAnswer
    <2> QED
      BY <1>7, <2>1, Zenon DEF TakeAnswer, stream, swbusd
  <1>8. ASSUME NEW i \in Ids, reached' = reached \cup {i}, pending' = pending \cup {i},
               UNCHANGED <<incoming, queues, router>>
        PROVE  AnswersReached' /\ reached \subseteq reached'
    <2>1. \A s : s \in Seq(reached) => s \in Seq(reached')
      BY <1>8, SeqLarger, Zenon
    <2> QED
      BY <1>8, <2>1, Zenon DEF queues
  <1>9. CASE Transmit
    <2>1. Head(sendq) \in Ids
      BY <1>9, Queue, Zenon DEF Transmit, TypeOK
    <2> QED
      BY <1>8, <1>9, <2>1, Zenon DEF Transmit
  <1>10. ASSUME NEW i \in Ids, TransmitLate(i)
         PROVE  AnswersReached' /\ reached \subseteq reached'
    BY <1>8, <1>10, Zenon DEF TransmitLate
  <1>11. ASSUME NEW i \in Ids, Answer(i)
         PROVE  AnswersReached' /\ reached \subseteq reached'
    <2>1. i \in reached /\ pending' \subseteq reached
      BY <1>11, Zenon DEF Answer
    <2>2. Append(incoming, i) \in Seq(reached)
      BY <2>1, Queue, Zenon
    <2> QED
      BY <1>11, <2>1, <2>2, Zenon DEF Answer, queues
  <1>12. CASE Break
    <2>1. incoming' \in Seq(reached)
      BY <1>12, Queue, Zenon DEF Break
    <2> QED
      BY <1>12, <2>1, Zenon DEF Break, queues, swbusd
  <1>13. CASE UNCHANGED <<incoming, remote, handler, router, pending, reached>>
    BY <1>13, Zenon
  <1> QED
    BY <1>1, <1>2, <1>3, <1>4, <1>5, <1>6, <1>7, <1>9, <1>10, <1>11, <1>12, <1>13
    DEF Next, ConnectTask, ReceiveTask, Router, Command, Outside, DialFails, Publish, SeeEnd, Clear,
        StreamEnds, AwaitConnection, SendRequest, TimeOut, WaitOn, Rest, Close, vars, queues,
        stream, swbusd

\* A round only becomes "ok" by the answer to its own request.
LEMMA NextOkWasReached ==
    ASSUME TypeOK, AnswersReached, OkWasReached, [Next]_vars
    PROVE  OkWasReached'
  <1>0. command' = command /\ reached \subseteq reached'
    BY NextAnswersReached
    DEF Next, ConnectTask, ReceiveTask, Router, Command, Outside, Dial, DialFails, Publish, SeeEnd,
        Clear, Receive, StreamEnds, RouteLocal, Send, RouteRemote, Deliver, AwaitConnection,
        SendRequest, TakeAnswer, TimeOut, WaitOn, Rest, Transmit, TransmitLate, Answer, Break,
        Close, vars, cmd
  <1>1. CASE UNCHANGED verdict
    BY <1>0, <1>1, Zenon DEF OkWasReached, IdOf
  <1>2. CASE TakeAnswer /\ Head(handler) = IdOf(round) /\ EndRound("ok")
    <2>1. IdOf(round) \in reached
      BY <1>2, Queue, Zenon DEF TakeAnswer, AnswersReached
    <2>2. verdict' = [verdict EXCEPT ![round] = "ok"]
      BY <1>2, Zenon DEF EndRound
    <2> QED
      BY <1>0, <2>1, <2>2, Zenon DEF OkWasReached, IdOf, TypeOK
  <1>3. CASE EndRound("timeout")
    <2>1. verdict' = [verdict EXCEPT ![round] = "timeout"]
      BY <1>3, Zenon DEF EndRound
    <2> QED
      BY <1>0, <2>1, Zenon DEF OkWasReached, IdOf, TypeOK
  <1> QED
    BY <1>1, <1>2, <1>3, Zenon
    DEF Next, ConnectTask, ReceiveTask, Router, Command, Outside, Dial, DialFails, Publish, SeeEnd,
        Clear, Receive, StreamEnds, RouteLocal, Send, RouteRemote, Deliver, AwaitConnection,
        SendRequest, TakeAnswer, TimeOut, WaitOn, Rest, Transmit, TransmitLate, Answer, Break,
        Close, vars, cmd

-----------------------------------------------------------------------------
\* The inductive invariant holds in every state of the client.
THEOREM CoreInvariant == Spec => []CoreInv
  <1>1. CoreInv /\ [Next]_vars => CoreInv'
    BY NextTypeOK, NextSendsOnPublished, NextAnswersReached, NextOkWasReached, Zenon DEF CoreInv
  <1> QED
    BY <1>1, InitCoreInv, PTL DEF Spec

\* The queues of the client stay within their capacity and hold requests of the
\* command, whatever breaks.
THEOREM TypeCorrect == Spec => []TypeOK
  BY CoreInvariant, PTL DEF CoreInv

\* The queue in which the router waits for room, with the read lock held, is
\* never withdrawn or replaced by the connect task.
THEOREM SendsOnPublishedAlways == Spec => []SendsOnPublished
  BY CoreInvariant, PTL DEF CoreInv

\* Over reconnects, timeouts, skipped and late answers, a round of ping or
\* traceroute is reported as answered only if its request had reached swbusd.
THEOREM OkWasReachedAlways == Spec => []OkWasReached
  BY CoreInvariant, PTL DEF CoreInv
=============================================================================
