----------------------------- MODULE CoreClient -----------------------------
(***************************************************************************)
(* The core client of an edge runtime (swbus-edge, core_client.rs) between *)
(* the message router and swbusd, with a swbus-cli command on top of it:   *)
(* ping, which sends a request per round, or traceroute, which sends one   *)
(* and waits for an answer per hop.                                        *)
(*                                                                         *)
(* Connect task, receive task, router and command interleave between two   *)
(* awaits.  They share the RwLock around send_queue_tx: the router holds   *)
(* it for reading as long as it waits for room in the send queue, and the  *)
(* connect task needs it for writing to publish or to withdraw a queue.    *)
(* swbusd, the gRPC stream and its flow control are external: what is in a *)
(* send queue reaches swbusd one message after another or never, a stream  *)
(* may break at any time, and a request is answered late, or never.  A     *)
(* message is its request id.  The runtime goes on when the command is     *)
(* done, as it does under hamgrd.                                          *)
(***************************************************************************)
EXTENDS Naturals, Sequences, FiniteSets

CONSTANTS
    Rounds,         \* count of ping, max_hop of traceroute
    LocalCap,       \* SWBUS_RECV_QUEUE_SIZE, of the router's local queue
    SendCap,        \* channel size of the send queue (100)
    RemoteCap,      \* SWBUS_RECV_QUEUE_SIZE, of the router's remote queue
    HandlerCap,     \* channel size of the command's queue (1)
    MaxAnswers,     \* bound: answers swbusd gives
    MaxBreaks       \* bound: streams that break, dials that fail

ASSUME CoreClientAssumption ==
    /\ Rounds \in Nat \ {0}
    /\ LocalCap \in Nat \ {0}
    /\ SendCap \in Nat \ {0} /\ RemoteCap \in Nat \ {0} /\ HandlerCap \in Nat \ {0}
    /\ MaxAnswers \in Nat /\ MaxBreaks \in Nat

Ids == 1..Rounds

VARIABLES
    command,        \* "ping" or "traceroute"
    cli,            \* "starting", "ready", "waiting", "skipped", "resting", "done"
    round,          \* round of the command's loop
    verdict,        \* verdict[i]: "none", "ok" or "timeout"
    local,          \* queue from the command to the router
    router,         \* what the router is at: [pc, id]
    remote,         \* queue from the receive task to the router
    handler,        \* queue from the router to the command
    connect,        \* connect task: "dialling", "publishing", "up", "clearing"
    published,      \* send_queue_tx holds the sender of the last stream
    receiver,       \* receive task of the last stream: "none", "running", "ended"
    open,           \* the last stream still takes from its send queue
    sendq,          \* send queue of the last stream
    incoming,       \* answers on the last stream, not received yet
    stale,          \* what was left in the queues of earlier streams
    pending,        \* requests swbusd has received
    reached,        \* history: requests that have reached swbusd
    answers, breaks

cmd == <<command, cli, round, verdict>>
queues == <<local, remote, handler>>
stream == <<receiver, open, sendq, incoming, stale>>
swbusd == <<pending, reached, answers>>
vars == <<cmd, queues, router, connect, published, stream, swbusd, breaks>>

Idle == [pc |-> "idle", id |-> 0]

\* Type invariant, with the capacity of every channel.
TypeOK ==
    /\ command \in {"ping", "traceroute"}
    /\ cli \in {"starting", "ready", "waiting", "skipped", "resting", "done"}
    /\ round \in 1..Rounds
    /\ verdict \in [1..Rounds -> {"none", "ok", "timeout"}]
    /\ local \in Seq(Ids) /\ Len(local) <= LocalCap
    /\ router \in {Idle} \cup [pc : {"sending", "delivering"}, id : Ids]
    /\ remote \in Seq(Ids) /\ Len(remote) <= RemoteCap
    /\ handler \in Seq(Ids) /\ Len(handler) <= HandlerCap
    /\ connect \in {"dialling", "publishing", "up", "clearing"}
    /\ published \in BOOLEAN /\ open \in BOOLEAN
    /\ receiver \in {"none", "running", "ended"}
    /\ sendq \in Seq(Ids) /\ Len(sendq) <= SendCap
    /\ incoming \in Seq(Ids)
    /\ stale \subseteq Ids /\ pending \subseteq Ids /\ reached \subseteq Ids

\* SwbusEdgeRuntime::new and start, from the main function of swbus-cli.
Init ==
    /\ command \in {"ping", "traceroute"}
    /\ cli = "starting" /\ round = 1
    /\ verdict = [i \in 1..Rounds |-> "none"]
    /\ local = <<>> /\ remote = <<>> /\ handler = <<>>
    /\ router = Idle
    /\ connect = "dialling" /\ published = FALSE
    /\ receiver = "none" /\ open = FALSE
    /\ sendq = <<>> /\ incoming = <<>> /\ stale = {}
    /\ pending = {} /\ reached = {}
    /\ answers = 0 /\ breaks = 0

-----------------------------------------------------------------------------
\* The connect task.

\* connect succeeds: a new send queue, a new stream, a new receive task.  What
\* the queue of the stream before still holds may be on its way yet.
Dial ==
    /\ connect = "dialling"
    /\ connect' = "publishing"
    /\ receiver' = "running" /\ open' = TRUE
    /\ sendq' = <<>> /\ incoming' = <<>>
    /\ stale' = stale \cup (IF open THEN {sendq[i] : i \in DOMAIN sendq} ELSE {})
    /\ UNCHANGED <<cmd, queues, router, published, swbusd, breaks>>

\* connect fails: the task sleeps a second and dials again.
DialFails ==
    /\ connect = "dialling"
    /\ breaks < MaxBreaks
    /\ breaks' = breaks + 1
    /\ UNCHANGED <<cmd, queues, router, connect, published, stream, swbusd>>

\* send_queue_tx.write().await.replace(..), once nobody holds the lock.
Publish ==
    /\ connect = "publishing"
    /\ router.pc # "sending"
    /\ connect' = "up"
    /\ published' = TRUE
    /\ UNCHANGED <<cmd, queues, router, stream, swbusd, breaks>>

\* recv_stream_task.await returns, be it because the task panicked.
SeeEnd ==
    /\ connect = "up"
    /\ receiver = "ended"
    /\ connect' = "clearing"
    /\ UNCHANGED <<cmd, queues, router, published, stream, swbusd, breaks>>

\* Mutant: take() without the lock.
ClearUnlocked ==
    /\ connect = "clearing"
    /\ connect' = "dialling"
    /\ published' = FALSE
    /\ UNCHANGED <<cmd, queues, router, stream, swbusd, breaks>>

\* send_queue_tx.write().await.take(), once nobody holds the lock.
Clear ==
    /\ connect = "clearing"
    /\ router.pc # "sending"
    /\ connect' = "dialling"
    /\ published' = FALSE
    /\ UNCHANGED <<cmd, queues, router, stream, swbusd, breaks>>

-----------------------------------------------------------------------------
\* The receive task.

\* Mutant: the router's queue takes what comes.
ReceiveAll ==
    /\ receiver = "running"
    /\ incoming # <<>>
    /\ incoming' = Tail(incoming)
    /\ remote' = Append(remote, Head(incoming))
    /\ UNCHANGED <<cmd, local, handler, router, connect, published, receiver, open, sendq, stale,
                   swbusd, breaks>>

\* process_incoming_message: try_send to the router; a full queue is a todo!(),
\* which panics and ends the task, with the message lost.
Receive ==
    /\ receiver = "running"
    /\ incoming # <<>>
    /\ incoming' = Tail(incoming)
    /\ \/ /\ Len(remote) < RemoteCap
          /\ remote' = Append(remote, Head(incoming))
          /\ UNCHANGED receiver
       \/ /\ Len(remote) = RemoteCap
          /\ receiver' = "ended"
          /\ UNCHANGED remote
    /\ UNCHANGED <<cmd, local, handler, router, connect, published, open, sendq, stale, swbusd,
                   breaks>>

\* recv_stream.message() returns None or an error.
StreamEnds ==
    /\ receiver = "running"
    /\ ~open /\ incoming = <<>>
    /\ receiver' = "ended"
    /\ UNCHANGED <<cmd, queues, router, connect, published, open, sendq, incoming, stale, swbusd,
                   breaks>>

-----------------------------------------------------------------------------
\* The router: start and route_message.

\* A request of the command has no route here: swbus_client.send takes the read
\* lock, and fails (the error is logged) when no queue is published.
RouteLocal ==
    /\ router = Idle
    /\ local # <<>>
    /\ local' = Tail(local)
    /\ router' = IF published THEN [pc |-> "sending", id |-> Head(local)] ELSE Idle
    /\ UNCHANGED <<cmd, remote, handler, connect, published, stream, swbusd, breaks>>

\* Mutant: the sender waits for room in a queue that nobody reads any more.
SendWhenRoom ==
    /\ router.pc = "sending"
    /\ router' = Idle
    /\ Len(sendq) < SendCap
    /\ sendq' = Append(sendq, router.id)
    /\ UNCHANGED <<cmd, queues, connect, published, receiver, open, incoming, stale, swbusd,
                   breaks>>

\* tx.send(message).await: waits for room, fails once the receiver is dropped.
Send ==
    /\ router.pc = "sending"
    /\ router' = Idle
    /\ \/ /\ open /\ Len(sendq) < SendCap
          /\ sendq' = Append(sendq, router.id)
       \/ /\ ~open
          /\ UNCHANGED sendq
    /\ UNCHANGED <<cmd, queues, connect, published, receiver, open, incoming, stale, swbusd,
                   breaks>>

\* An answer has the route of the command's queue.
RouteRemote ==
    /\ router = Idle
    /\ remote # <<>>
    /\ remote' = Tail(remote)
    /\ router' = [pc |-> "delivering", id |-> Head(remote)]
    /\ UNCHANGED <<cmd, local, handler, connect, published, stream, swbusd, breaks>>

\* handler.send(message).await: waits for room, fails once the command is over.
Deliver ==
    /\ router.pc = "delivering"
    /\ router' = Idle
    /\ \/ /\ cli # "done" /\ Len(handler) < HandlerCap
          /\ handler' = Append(handler, router.id)
       \/ /\ cli = "done"
          /\ UNCHANGED handler
    /\ UNCHANGED <<cmd, local, remote, connect, published, stream, swbusd, breaks>>

-----------------------------------------------------------------------------
\* The command.

\* The request of a round: ping has one per round.
IdOf(r) == IF command = "ping" THEN r ELSE 1

\* main: swbusd_connected, polled for ten seconds.
AwaitConnection ==
    /\ cli = "starting"
    /\ \/ published /\ cli' = "ready"
       \/ ~published /\ cli' = "done"
    /\ UNCHANGED <<command, round, verdict, queues, router, connect, published, stream, swbusd,
                   breaks>>

\* runtime.send(..).await: waits for room, without a time limit.
SendRequest ==
    /\ cli = "ready"
    /\ Len(local) < LocalCap
    /\ cli' = "waiting"
    /\ local' = Append(local, IdOf(round))
    /\ UNCHANGED <<command, round, verdict, remote, handler, router, connect, published, stream,
                   swbusd, breaks>>

\* The end of a round with verdict v: ping sleeps before it goes on; traceroute
\* stops when the answer came from the destination.
EndRound(v) ==
    /\ verdict' = [verdict EXCEPT ![round] = v]
    /\ \/ command = "ping" /\ cli' = "resting" /\ UNCHANGED round
       \/ /\ command = "traceroute"
          /\ \/ round < Rounds /\ cli' = "waiting" /\ round' = round + 1
             \/ (round = Rounds \/ v = "ok") /\ cli' = "done" /\ UNCHANGED round

\* Mutant: any answer will do.
TakeAny ==
    /\ cli = "waiting"
    /\ handler # <<>>
    /\ handler' = Tail(handler)
    /\ EndRound("ok")
    /\ UNCHANGED <<command, local, remote, router, connect, published, stream, swbusd, breaks>>

\* wait_for_response: an answer to another request is skipped.
TakeAnswer ==
    /\ cli = "waiting"
    /\ handler # <<>>
    /\ handler' = Tail(handler)
    /\ \/ Head(handler) = IdOf(round) /\ EndRound("ok")
       \/ Head(handler) # IdOf(round) /\ cli' = "skipped" /\ UNCHANGED <<round, verdict>>
    /\ UNCHANGED <<command, local, remote, router, connect, published, stream, swbusd, breaks>>

\* Mutant: the wait only ends when an answer was skipped.
TimeOutSkipped ==
    /\ cli = "skipped"
    /\ EndRound("timeout")
    /\ UNCHANGED <<command, queues, router, connect, published, stream, swbusd, breaks>>

\* wait_for_response: time::timeout expires on an empty queue, or the time is
\* up after an answer was skipped.
TimeOut ==
    /\ (cli = "waiting" /\ handler = <<>>) \/ cli = "skipped"
    /\ EndRound("timeout")
    /\ UNCHANGED <<command, queues, router, connect, published, stream, swbusd, breaks>>

\* wait_for_response: there is time left after an answer was skipped.
WaitOn ==
    /\ cli = "skipped"
    /\ cli' = "waiting"
    /\ UNCHANGED <<command, round, verdict, queues, router, connect, published, stream, swbusd,
                   breaks>>

\* PingCmd::handle: the sleep is over.
Rest ==
    /\ cli = "resting"
    /\ \/ round < Rounds /\ cli' = "ready" /\ round' = round + 1
       \/ round = Rounds /\ cli' = "done" /\ UNCHANGED round
    /\ UNCHANGED <<command, verdict, queues, router, connect, published, stream, swbusd, breaks>>

-----------------------------------------------------------------------------
\* External: the gRPC stream and swbusd.

Transmit ==
    /\ open /\ sendq # <<>>
    /\ sendq' = Tail(sendq)
    /\ pending' = pending \cup {Head(sendq)}
    /\ reached' = reached \cup {Head(sendq)}
    /\ UNCHANGED <<cmd, queues, router, connect, published, receiver, open, incoming, stale,
                   answers, breaks>>

\* What an earlier stream still held reaches swbusd, after what followed it.
TransmitLate(i) ==
    /\ i \in stale
    /\ stale' = stale \ {i}
    /\ pending' = pending \cup {i}
    /\ reached' = reached \cup {i}
    /\ UNCHANGED <<cmd, queues, router, connect, published, receiver, open, sendq, incoming,
                   answers, breaks>>

\* A traceroute is answered by every hop.
Answer(i) ==
    /\ i \in pending
    /\ answers < MaxAnswers
    /\ answers' = answers + 1
    /\ pending' \in {pending \ {i}} \cup (IF command = "traceroute" THEN {pending} ELSE {})
    /\ incoming' = IF open THEN Append(incoming, i) ELSE incoming
    /\ UNCHANGED <<cmd, queues, router, connect, published, receiver, open, sendq, stale, reached,
                   breaks>>

\* The connection breaks; answers on the way may be lost, the last ones first.
Break ==
    /\ open
    /\ breaks < MaxBreaks
    /\ breaks' = breaks + 1
    /\ open' = FALSE
    /\ \E n \in 0..Len(incoming) : incoming' = SubSeq(incoming, 1, n)
    /\ UNCHANGED <<cmd, queues, router, connect, published, receiver, sendq, stale, swbusd>>

\* The receive task is gone, and with it the client's end of the stream.
Close ==
    /\ open
    /\ receiver = "ended"
    /\ open' = FALSE
    /\ UNCHANGED <<cmd, queues, router, connect, published, receiver, sendq, incoming, stale,
                   swbusd, breaks>>

ConnectTask == Dial \/ DialFails \/ Publish \/ SeeEnd \/ Clear
ReceiveTask == Receive \/ StreamEnds
Router == RouteLocal \/ Send \/ RouteRemote \/ Deliver
Command == AwaitConnection \/ SendRequest \/ TakeAnswer \/ TimeOut \/ WaitOn \/ Rest
Outside == Transmit \/ Break \/ Close \/ \E i \in Ids : TransmitLate(i) \/ Answer(i)

Next == ConnectTask \/ ReceiveTask \/ Router \/ Command \/ Outside

Spec == Init /\ [][Next]_vars

\* Every task runs on when it is not waiting, timers expire and a stream whose
\* client end is dropped closes.  Nothing is asked of swbusd: it may stop
\* reading the stream, and never answer.
Fairness ==
    /\ WF_vars(ConnectTask) /\ WF_vars(ReceiveTask)
    /\ WF_vars(Router) /\ WF_vars(Command)
    /\ WF_vars(Close)

FairSpec == Spec /\ Fairness

-----------------------------------------------------------------------------
Connected == published /\ receiver = "running"

\* The lock around send_queue_tx keeps the router and the connect task apart:
\* the queue the router waits for is the published one, so it is never replaced
\* under the router, and no queue is published while the task dials.
SendsOnPublished ==
    /\ router.pc = "sending" => published
    /\ published => connect \in {"up", "clearing"}

\* wait_for_response never takes a late answer for the one it waits for: a round
\* is only reported as answered if its own request had reached swbusd.
OkWasReached ==
    \A r \in 1..Rounds : verdict[r] = "ok" => IdOf(r) \in reached

\* After a broken stream, or a full remote queue (the todo!() of
\* process_incoming_message), the client connects again, even when the router
\* was waiting for room in the old queue with the lock held.
Reconnects == ~Connected ~> Connected

\* The command waits for room in the router's local queue while the router
\* waits for room in its turn: in a send queue that swbusd does not read, on a
\* stream that stays open, or in the command's own queue.
Blocked ==
    /\ cli = "ready" /\ Len(local) = LocalCap
    /\ \/ router.pc = "sending" /\ open /\ Len(sendq) = SendCap
       \/ router.pc = "delivering" /\ Len(handler) = HandlerCap

\* A command ends, whatever swbusd and the stream do, unless it has more requests
\* waiting than the local queue holds: then, and only then, it can block for ever,
\* as its send has no timeout.
CommandEnds == <>(cli = "done") \/ <>[]Blocked
=============================================================================
