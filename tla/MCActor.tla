------------------------------- MODULE MCActor -------------------------------
(***************************************************************************)
(* The state of an actor for TLC: the messages it sends and receives       *)
(* (ActorChannel), its internal table (InternalTable) and the bridge that  *)
(* brings it a table of the database (TableBridge).  No step of one reads  *)
(* or writes the state of another, so one run takes them one at a time:    *)
(* part says which, and the other two rest in an initial state.            *)
(***************************************************************************)
EXTENDS ActorChannel, InternalTable, TableBridge

VARIABLE part

MCInit ==
    /\ part \in {"channel", "internal", "bridge"}
    /\ Init
    /\ InternalInit
    /\ part # "internal" => db = [k \in TableKeys |-> [r \in RowNames |-> Empty]]
    /\ BridgeInit
    /\ part # "bridge" => table = [k \in RowKeys |-> NoFields]

MCNext ==
    \/ part = "channel" /\ Next /\ UNCHANGED <<part, internalVars, bridgeVars>>
    \/ part = "internal" /\ InternalNext /\ UNCHANGED <<part, vars, bridgeVars>>
    \/ part = "bridge" /\ BridgeNext /\ UNCHANGED <<part, vars, internalVars>>

\* The fairness is that of ActorChannel, the only part with a liveness property;
\* of the others TLC checks what every step and every state must be.
MCSpec == MCInit /\ [][MCNext]_<<part, vars, internalVars, bridgeVars>> /\ Fairness
==============================================================================
