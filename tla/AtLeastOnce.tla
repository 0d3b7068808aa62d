----------------------------- MODULE AtLeastOnce -----------------------------
(***************************************************************************)
(* What the messaging of actors promises the actor that sends: a message   *)
(* that was sent is the sender's concern until the receiver has taken it   *)
(* or the failsafe gives it up; it is shown as acked only when taken; it   *)
(* may be taken more than once, and also after the sender's process died.  *)
(* ActorChannel implements it.                                             *)
(***************************************************************************)
CONSTANT Ids   \* message ids

VARIABLES issued,    \* ids the sender has given to messages
          pending,   \* sent, neither known to be taken nor given up
          taken,     \* taken by the receiver at least once
          givenUp,   \* given up by the failsafe
          acked      \* shown as acked

vars == <<issued, pending, taken, givenUp, acked>>

Init == issued = {} /\ pending = {} /\ taken = {} /\ givenUp = {} /\ acked = {}

Issue(i) ==
    /\ i \notin issued
    /\ issued' = issued \cup {i}
    /\ UNCHANGED <<pending, taken, givenUp, acked>>

\* A message is sent.  It may take the place of one that was shown as acked.
Launch(i) ==
    /\ i \in issued \ pending
    /\ pending' = pending \cup {i}
    /\ acked' \in {acked} \cup {acked \ {j} : j \in acked}
    /\ UNCHANGED <<issued, taken, givenUp>>

Take(i) ==
    /\ i \in issued
    /\ taken' = taken \cup {i}
    /\ UNCHANGED <<issued, pending, givenUp, acked>>

\* The sender learns that the message was taken; it is shown as acked unless
\* another one has taken its place.
Settle(i) ==
    /\ i \in pending \cap taken
    /\ pending' = pending \ {i}
    /\ acked' \in {acked, acked \cup {i}}
    /\ UNCHANGED <<issued, taken, givenUp>>

GiveUp ==
    \E S \in SUBSET pending :
        /\ pending' = pending \ S
        /\ givenUp' = givenUp \cup S
        /\ UNCHANGED <<issued, taken, acked>>

SenderDies ==
    /\ pending' = {} /\ acked' = {}
    /\ UNCHANGED <<issued, taken, givenUp>>

Next ==
    \/ \E i \in Ids : Issue(i)
    \/ \E i \in Ids : Launch(i)
    \/ \E i \in Ids : Take(i)
    \/ \E i \in Ids : Settle(i)
    \/ GiveUp
    \/ SenderDies

Spec == Init /\ [][Next]_vars
=============================================================================
