---------------------------- MODULE ActorChannel ----------------------------
(***************************************************************************)
(* Request, response and resend between two actors (swbus-actor).  The     *)
(* sender's side is its outgoing state table (state/outgoing.rs), the      *)
(* receiver's its incoming state table (state/incoming.rs); the drivers    *)
(* (driver.rs) of both interleave.  Messages travel through the edge       *)
(* routers and swbusd, which keep the order of requests on one path but    *)
(* lose them while a connection is down and answer NoRoute when nobody     *)
(* serves the destination; responses of different hops may overtake each   *)
(* other.  Either process may die and come back without its tables.        *)
(*                                                                         *)
(* Time counts in units of RESEND_TIME.  A message is its id and its key.  *)
(***************************************************************************)
EXTENDS Naturals, Sequences

CONSTANTS
    Keys,           \* keys of actor messages
    DropTime,       \* age at which an unacked message is dropped (3600 s)
    MaxId,          \* bound: ids generated
    MaxInFlight,    \* bound: messages in flight when one is resent
    MaxFaults       \* bound: losses, clock steps and process deaths

ASSUME ActorChannelAssumption ==
    /\ DropTime \in Nat \ {0}
    /\ "none" \notin Keys
    /\ MaxId \in Nat /\ MaxInFlight \in Nat /\ MaxFaults \in Nat

ResendTime == 1
Ids == 1..MaxId

VARIABLES
    spc,        \* sender's driver: "idle", "callback", "sending" or "down"
    nextId,     \* MessageIdGenerator; survives a restart (seeded by the clock)
    queued,     \* queued_messages: sequence of [id, key, age]
    unacked,    \* unacked_messages: id -> [key, age]
    sent,       \* sent_messages: key -> [id, version, acked, response]
    due,        \* resend_interval has a tick to deliver
    resending,  \* ids the running resend iteration has still to visit
    reqs,       \* requests in flight, in order: sequence of [id, key]
    resps,      \* responses in flight: sequence of [id, code]
    faults,     \* faults so far
    rpc,        \* receiver's driver: "idle", "handling" or "down"
    current,    \* key the receiver's actor is handling, or "none"
    incoming,   \* incoming table: key -> [id, version, acked, response]
    launched,   \* history: ids this incarnation of the sender has sent
    expired,    \* history: ids dropped by the one-hour failsafe
    resent,     \* history: ids sent more than once
    replied     \* history: id -> code of the receiver's response to it

sender == <<spc, nextId, queued, unacked, sent, due, resending>>
network == <<reqs, resps, faults>>
receiver == <<rpc, current, incoming>>
history == <<launched, expired, resent, replied>>
vars == <<sender, network, receiver, history>>

Codes == {"Ok", "NoRoute", "Fail"}
Update(f, x, v) == [y \in DOMAIN f \cup {x} |-> IF y = x THEN v ELSE f[y]]
Without(f, S) == [y \in DOMAIN f \ S |-> f[y]]
Older(m) == [m EXCEPT !.age = IF @ < DropTime THEN @ + 1 ELSE @]

\* s without its element i.
RemoveAt(s, i) == SubSeq(s, 1, i - 1) \o SubSeq(s, i + 1, Len(s))

Queued == [id : Ids, key : Keys, age : 0..DropTime]
Pending == [key : Keys, age : 0..DropTime]
Sent == [id : Ids, version : Nat, acked : BOOLEAN, response : Codes \cup {"none"}]
Request == [id : Ids, key : Keys]
Response == [id : Ids, code : Codes]

SenderType ==
    /\ spc \in {"idle", "callback", "sending", "down"}
    /\ nextId \in 1..MaxId + 1
    /\ queued \in Seq(Queued)
    /\ spc = "sending" => queued # <<>>
    /\ DOMAIN unacked \subseteq launched
    /\ \A i \in DOMAIN unacked : unacked[i] \in Pending
    /\ DOMAIN sent \subseteq Keys
    /\ \A k \in DOMAIN sent : sent[k] \in Sent /\ sent[k].id \in launched
    /\ due \in BOOLEAN
    /\ resending \subseteq DOMAIN unacked
    /\ launched \subseteq Ids /\ expired \subseteq Ids /\ resent \subseteq Ids

NetworkType ==
    /\ reqs \in Seq(Request)
    /\ resps \in Seq(Response)
    /\ faults \in 0..MaxFaults

ReceiverType ==
    /\ rpc \in {"idle", "handling", "down"}
    /\ current \in Keys \cup {"none"}
    /\ rpc = "handling" <=> current \in DOMAIN incoming
    /\ DOMAIN incoming \subseteq Keys
    /\ \A k \in DOMAIN incoming : incoming[k] \in Sent /\ incoming[k].id \in DOMAIN replied
    /\ DOMAIN replied \subseteq Ids

\* Type invariant; a resend iteration only visits messages still pending
\* (resending), and a request being handled is in the incoming table.
TypeOK == SenderType /\ NetworkType /\ ReceiverType

Init ==
    /\ spc = "idle" /\ nextId = 1 /\ queued = <<>>
    /\ unacked = <<>> /\ sent = <<>>
    /\ due = TRUE /\ resending = {}
    /\ reqs = <<>> /\ resps = <<>> /\ faults = 0
    /\ rpc = "idle" /\ current = "none" /\ incoming = <<>>
    /\ launched = {} /\ expired = {} /\ resent = {} /\ replied = <<>>

-----------------------------------------------------------------------------
\* Sender: the callback of its actor, entered for a message of some third
\* party.  Receiving it drops the resend future (select! in run), so the
\* iteration in progress is abandoned.
BeginCallback ==
    /\ spc = "idle"
    /\ spc' = "callback"
    /\ resending' = {}
    /\ UNCHANGED <<nextId, queued, unacked, sent, due, network, receiver, history>>

\* Outgoing::send.
Send(k) ==
    /\ spc = "callback"
    /\ nextId <= MaxId
    /\ nextId' = nextId + 1
    /\ queued' = Append(queued, [id |-> nextId, key |-> k, age |-> 0])
    /\ UNCHANGED <<spc, unacked, sent, due, resending, network, receiver, history>>

\* The callback returned Ok: send_queued_messages starts.
CallbackOk ==
    /\ spc = "callback"
    /\ spc' = IF queued = <<>> THEN "idle" ELSE "sending"
    /\ UNCHANGED <<nextId, queued, unacked, sent, due, resending, network, receiver, history>>

\* The callback returned Err: drop_queued_messages.
CallbackErr ==
    /\ spc = "callback"
    /\ spc' = "idle"
    /\ queued' = <<>>
    /\ UNCHANGED <<nextId, unacked, sent, due, resending, network, receiver, history>>

\* SentMessageEntry::new and new_message_sent.
SentEntry(k, id) ==
    [id |-> id, version |-> IF k \in DOMAIN sent THEN sent[k].version + 1 ELSE 1,
     acked |-> FALSE, response |-> "none"]

\* Mutant: the queue is drained from its end.
SendQueuedReversed ==
    /\ spc = "sending"
    /\ LET m == queued[Len(queued)] IN
         /\ reqs' = Append(reqs, [id |-> m.id, key |-> m.key])
         /\ sent' = Update(sent, m.key, SentEntry(m.key, m.id))
         /\ unacked' = Update(unacked, m.id, [key |-> m.key, age |-> m.age])
         /\ launched' = launched \cup {m.id}
    /\ queued' = SubSeq(queued, 1, Len(queued) - 1)
    /\ spc' = IF queued' = <<>> THEN "idle" ELSE "sending"
    /\ UNCHANGED <<nextId, due, resending, resps, faults, receiver, expired, resent, replied>>

\* Mutant: the record of sent messages is kept only while nothing is pending.
SendQueuedUnrecorded ==
    /\ spc = "sending"
    /\ LET m == Head(queued) IN
         /\ reqs' = Append(reqs, [id |-> m.id, key |-> m.key])
         /\ sent' = IF DOMAIN unacked = {} THEN Update(sent, m.key, SentEntry(m.key, m.id)) ELSE sent
         /\ unacked' = Update(unacked, m.id, [key |-> m.key, age |-> m.age])
         /\ launched' = launched \cup {m.id}
    /\ queued' = Tail(queued)
    /\ spc' = IF queued' = <<>> THEN "idle" ELSE "sending"
    /\ UNCHANGED <<nextId, due, resending, resps, faults, receiver, expired, resent, replied>>

\* One round of send_queued_messages.
SendQueued ==
    /\ spc = "sending"
    /\ LET m == Head(queued) IN
         /\ reqs' = Append(reqs, [id |-> m.id, key |-> m.key])
         /\ sent' = Update(sent, m.key, SentEntry(m.key, m.id))
         /\ unacked' = Update(unacked, m.id, [key |-> m.key, age |-> m.age])
         /\ launched' = launched \cup {m.id}
    /\ queued' = Tail(queued)
    /\ spc' = IF queued' = <<>> THEN "idle" ELSE "sending"
    /\ UNCHANGED <<nextId, due, resending, resps, faults, receiver, expired, resent, replied>>

\* SentMessageEntry::response_received: only the latest message counts.
ResponseReceived(e, r) ==
    IF r.id = e.id THEN [e EXCEPT !.acked = (r.code = "Ok"), !.response = r.code] ELSE e

\* Mutant: any response ends the resending of its message.
HandleResponseRemovesAlways(i) ==
    /\ spc = "idle"
    /\ resps' = RemoveAt(resps, i)
    /\ resending' = {}
    /\ LET r == resps[i] IN
         IF r.id \notin DOMAIN unacked THEN UNCHANGED <<sent, unacked>>
         ELSE /\ sent' = [sent EXCEPT ![unacked[r.id].key] = ResponseReceived(@, r)]
              /\ unacked' = Without(unacked, {r.id})
    /\ UNCHANGED <<spc, nextId, queued, due, reqs, faults, receiver, history>>

\* Mutant: a response to a message that is no longer pending is recorded too.
HandleResponseLate(i) ==
    /\ spc = "idle"
    /\ resps' = RemoveAt(resps, i)
    /\ resending' = {}
    /\ LET r == resps[i] IN
         /\ sent' = [k \in DOMAIN sent |-> ResponseReceived(sent[k], r)]
         /\ unacked' = IF r.code = "Ok" THEN Without(unacked, {r.id}) ELSE unacked
    /\ UNCHANGED <<spc, nextId, queued, due, reqs, faults, receiver, history>>

\* Mutant: the resend iteration goes on over a response, with a stale message.
HandleResponseKeepsIteration(i) ==
    /\ spc = "idle"
    /\ resps' = RemoveAt(resps, i)
    /\ unacked' = IF resps[i].code = "Ok" THEN Without(unacked, {resps[i].id}) ELSE unacked
    /\ UNCHANGED <<spc, nextId, queued, sent, due, resending, reqs, faults, receiver, history>>

\* Outgoing::handle_response, on a response that arrives now.
HandleResponse(i) ==
    /\ spc = "idle"
    /\ resps' = RemoveAt(resps, i)
    /\ resending' = {}
    /\ LET r == resps[i] IN
         \/ /\ r.id \notin DOMAIN unacked           \* already acked: ignored
            /\ UNCHANGED <<sent, unacked>>
         \/ /\ r.id \in DOMAIN unacked
            /\ LET k == unacked[r.id].key IN
                 sent' = [sent EXCEPT ![k] = ResponseReceived(@, r)]
            /\ unacked' = IF r.code = "Ok" THEN Without(unacked, {r.id}) ELSE unacked
    /\ UNCHANGED <<spc, nextId, queued, due, reqs, faults, receiver, history>>

\* Mutant: the one-hour failsafe is missing.
TickNoFailsafe ==
    /\ spc = "idle" /\ resending = {} /\ due
    /\ due' = FALSE
    /\ resending' = DOMAIN unacked
    /\ UNCHANGED <<spc, nextId, queued, unacked, sent, network, receiver, history>>

\* drive_resend_loop: the tick, and the messages dropped by the failsafe.
Tick ==
    /\ spc = "idle" /\ resending = {} /\ due
    /\ due' = FALSE
    /\ LET old == {i \in DOMAIN unacked : unacked[i].age >= DropTime} IN
         /\ unacked' = Without(unacked, old)
         /\ expired' = expired \cup old
    /\ resending' = DOMAIN unacked'
    /\ UNCHANGED <<spc, nextId, queued, sent, network, receiver, launched, resent, replied>>

\* drive_resend_loop: one message of the iteration, in HashMap order (any).
\* Both the message and its age stay in the table.
Resend(i) ==
    /\ spc = "idle"
    /\ i \in resending
    /\ resending' = resending \ {i}
    /\ IF unacked[i].age >= ResendTime
       THEN /\ Len(reqs) + Len(resps) < MaxInFlight
            /\ reqs' = Append(reqs, [id |-> i, key |-> unacked[i].key])
            /\ resent' = resent \cup {i}
       ELSE UNCHANGED <<reqs, resent>>
    /\ UNCHANGED <<spc, nextId, queued, unacked, sent, due, resps, faults, receiver,
                   launched, expired, replied>>

\* RESEND_TIME goes by.  Missed ticks are skipped, so at most one is due.
Advance ==
    /\ spc # "down"
    /\ queued' = [n \in DOMAIN queued |-> Older(queued[n])]
    /\ unacked' = [i \in DOMAIN unacked |-> Older(unacked[i])]
    /\ due' = TRUE
    /\ UNCHANGED <<spc, nextId, sent, resending, network, receiver, history>>

-----------------------------------------------------------------------------
\* IncomingTableEntry::update_received: what the entry says of the previous
\* request's result stays until the new one is handled.
UpdateReceived(e, i) ==
    [id |-> i, version |-> e.version + 1, acked |-> e.acked, response |-> e.response]

\* Receiver: handle_swbus_message on a request.  The request is in the
\* incoming table and answered Ok before the actor sees it.
Receive ==
    /\ rpc = "idle"
    /\ reqs # <<>>
    /\ LET m == Head(reqs) IN
         /\ incoming' = Update(incoming, m.key,
                IF m.key \in DOMAIN incoming
                THEN UpdateReceived(incoming[m.key], m.id)
                ELSE [id |-> m.id, version |-> 1, acked |-> FALSE, response |-> "none"])
         /\ current' = m.key
         /\ resps' = Append(resps, [id |-> m.id, code |-> "Ok"])
         /\ replied' = Update(replied, m.id, "Ok")
    /\ reqs' = Tail(reqs)
    /\ rpc' = "handling"
    /\ UNCHANGED <<sender, faults, launched, expired, resent>>

\* Receiver: handle_actor_message, the actor's result and request_handled.
Handled(code) ==
    /\ rpc = "handling"
    /\ rpc' = "idle"
    /\ current' = "none"
    /\ incoming' = [incoming EXCEPT ![current].acked = (code = "Ok"), ![current].response = code]
    /\ UNCHANGED <<sender, network, history>>

-----------------------------------------------------------------------------
\* Nobody serves the destination: a router on the way answers NoRoute.
Bounce ==
    /\ rpc = "down"
    /\ reqs # <<>>
    /\ reqs' = Tail(reqs)
    /\ resps' = Append(resps, [id |-> Head(reqs).id, code |-> "NoRoute"])
    /\ UNCHANGED <<sender, faults, receiver, history>>

Fault == faults < MaxFaults /\ faults' = faults + 1

LoseRequest(i) ==
    /\ Fault
    /\ reqs' = RemoveAt(reqs, i)
    /\ UNCHANGED <<sender, resps, receiver, history>>

LoseResponse(i) ==
    /\ Fault
    /\ resps' = RemoveAt(resps, i)
    /\ UNCHANGED <<sender, reqs, receiver, history>>

\* The wall clock is set back: get_elapsed_time reads 0 for what was sent.
ClockBack ==
    /\ Fault
    /\ queued' = [n \in DOMAIN queued |-> [queued[n] EXCEPT !.age = 0]]
    /\ unacked' = [i \in DOMAIN unacked |-> [unacked[i] EXCEPT !.age = 0]]
    /\ UNCHANGED <<spc, nextId, sent, due, resending, reqs, resps, receiver, history>>

\* The sender's process dies; its tables are gone.
SenderCrash ==
    /\ Fault
    /\ spc # "down"
    /\ spc' = "down"
    /\ queued' = <<>> /\ unacked' = <<>> /\ sent' = <<>> /\ resending' = {}
    /\ launched' = {}
    /\ UNCHANGED <<nextId, due, reqs, resps, receiver, expired, resent, replied>>

\* Outgoing::new: the first tick of the interval is immediate.
SenderRestart ==
    /\ spc = "down"
    /\ spc' = "idle"
    /\ due' = TRUE
    /\ UNCHANGED <<nextId, queued, unacked, sent, resending, network, receiver, history>>

ReceiverCrash ==
    /\ Fault
    /\ rpc # "down"
    /\ rpc' = "down"
    /\ current' = "none"
    /\ incoming' = <<>>
    /\ UNCHANGED <<sender, reqs, resps, history>>

ReceiverRestart ==
    /\ rpc = "down"
    /\ rpc' = "idle"
    /\ UNCHANGED <<sender, network, current, incoming, history>>

Next ==
    \/ BeginCallback
    \/ \E k \in Keys : Send(k)
    \/ CallbackOk
    \/ CallbackErr
    \/ SendQueued
    \/ \E i \in DOMAIN resps : HandleResponse(i)
    \/ Tick
    \/ \E i \in resending : Resend(i)
    \/ Advance
    \/ Receive
    \/ \E code \in {"Ok", "Fail"} : Handled(code)
    \/ Bounce
    \/ \E i \in DOMAIN reqs : LoseRequest(i)
    \/ \E i \in DOMAIN resps : LoseResponse(i)
    \/ ClockBack
    \/ SenderCrash
    \/ SenderRestart
    \/ ReceiverCrash
    \/ ReceiverRestart

Spec == Init /\ [][Next]_vars

\* Drivers that can step do, time passes and routers answer.  The two branches
\* of the driver's select! are polled in random order, so a tick that stays due
\* is not passed over forever by a stream of messages (strong fairness).
Fairness ==
    /\ WF_vars(CallbackOk \/ CallbackErr \/ SendQueued)
    /\ WF_vars(Advance)
    /\ SF_vars(Tick)
    /\ SF_vars(\E i \in resending : Resend(i))
    /\ SF_vars(\E i \in DOMAIN resps : HandleResponse(i))
    /\ WF_vars(Receive)
    /\ WF_vars(\E code \in {"Ok", "Fail"} : Handled(code))
    /\ WF_vars(Bounce)

FairSpec == Spec /\ Fairness

-----------------------------------------------------------------------------
\* Every pending message has an entry in the record of sent messages: the
\* unwrap() in handle_response and in drive_resend_loop cannot panic.
UnackedHasSent ==
    \A i \in DOMAIN unacked : unacked[i].key \in DOMAIN sent

\* An entry shown as acked (doc: "Whether the latest message has been acked")
\* belongs to a message the receiver really took into its incoming table.
AckedWasDelivered ==
    \A k \in DOMAIN sent : sent[k].acked => sent[k].id \in DOMAIN replied

\* While the sender lives, no message it sent is forgotten: it reached the
\* receiver, or it is still being resent, or the one-hour failsafe dropped it.
NothingForgotten ==
    launched \subseteq DOMAIN replied \cup DOMAIN unacked \cup expired

\* Once acked, the latest message of a key stays acked, whatever duplicate or
\* late responses (NoRoute included) still arrive for it.
AckSticky ==
    [][\A k \in DOMAIN sent \cap DOMAIN sent' :
         sent[k].acked /\ sent'[k].id = sent[k].id => sent'[k].acked]_vars

\* The incoming table goes back to an older message of a key only through a
\* message that was resent: first transmissions are taken in sending order.
RegressionNeedsResend ==
    [][\A k \in DOMAIN incoming \cap DOMAIN incoming' :
         incoming'[k].id < incoming[k].id => incoming'[k].id \in resent]_vars

\* No message stays pending for ever: it is acked, or the failsafe drops it, or
\* its sender dies, even when the receiver never comes back (drive_resend_loop).
Settles ==
    \A i \in Ids : i \in DOMAIN unacked ~> i \notin DOMAIN unacked

\* The messages as the sending actor sees them.
Delivery == INSTANCE AtLeastOnce WITH
    issued  <- 1..(nextId - 1),
    pending <- DOMAIN unacked,
    taken   <- DOMAIN replied,
    givenUp <- expired,
    acked   <- {sent[k].id : k \in {x \in DOMAIN sent : sent[x].acked}}

\* Through losses, resends, late and duplicate responses, a clock set back and
\* deaths of both processes, the two state tables deliver at least once: a
\* message leaves the pending ones only when the receiver took it or by the
\* failsafe, and only when taken is it shown as acked.  (outgoing.rs,
\* incoming.rs)
DeliversAtLeastOnce == Delivery!Spec
=============================================================================
