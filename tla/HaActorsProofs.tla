--------------------------- MODULE HaActorsProofs ---------------------------
(***************************************************************************)
(* Proofs about HaActors: for any number of DPUs, vDPUs and changes, once  *)
(* no message is on its way the HA set has the present state of its DPUs,  *)
(* unless a registration was given up, and nobody is left registered that  *)
(* was deleted.                                                            *)
(*                                                                         *)
(* A queue only counts by the value its receiver will have when it has     *)
(* read all of it (Final).  The state of a DPU gets to the HA set over two *)
(* such queues; on each of them either the sender still has to be asked,   *)
(* or what will be received last is what the sender has now.               *)
(***************************************************************************)
EXTENDS HaActors, TLAPS

\* What a receiver that has x now has when it has read all of s.
Final(s, x) == IF s = <<>> THEN x ELSE s[Len(s)]

InSet(v) == \E i \in DOMAIN setConfig.ids : setConfig.ids[i] = v

\* The versions are bounded by the changes.
CountInv ==
    /\ \A d \in Dpus : dpuRow[d] <= changes + 1
    /\ setConfig.version <= changes + 1 /\ global.version <= changes + 1

\* An actor that was not spawned has no row and no registrations.
SpawnInv ==
    /\ \A a \in Actors : a \notin spawned => life[a] = "absent"
    /\ \A d \in Dpus : d \notin spawned => dpuRegs[d] = {}
    /\ \A v \in VDpus : v \notin spawned => vdpuRegs[v] = FALSE

\* What the last registration that a has sent on p says, unless it was given up.
Holds(a, p) == life[a] = "live" /\ p \notin lost

\* A vDPU will be registered with its main DPU, and the HA set with its vDPUs,
\* unless it was deleted or its registration given up.
RegisteredInv ==
    /\ \A v \in VDpus : life[v] # "absent" /\ life[main[v]] # "stopped" =>
          Final(net[<<v, main[v]>>], v \in dpuRegs[main[v]]) = Holds(v, <<v, main[v]>>)
    /\ \A v \in VDpus : InSet(v) /\ life["set"] # "absent" /\ life[v] # "stopped" =>
          Final(net[<<"set", v>>], vdpuRegs[v]) = Holds("set", <<"set", v>>)

\* No registration is on its way to the DPU, and the last one was not given up.
Asked(v) == net[<<v, main[v]>>] = <<>> /\ <<v, main[v]>> \notin lost

\* Then the DPU has sent its present state.
DpuStateInv ==
    \A v \in VDpus : life[v] = "live" /\ life[main[v]] = "live" /\ Asked(v) =>
        Final(net[<<main[v], v>>], vdpuDpu[v][main[v]]) = Now(main[v])

\* All queues that can make the vDPU send to the HA set are empty.
Heard(v) ==
    /\ Asked(v) /\ net[<<main[v], v>>] = <<>>
    /\ net[<<"set", v>>] = <<>> /\ <<"set", v>> \notin lost

\* Then it has sent what it has.
VdpuStateInv ==
    \A v \in VDpus : InSet(v) /\ life["set"] = "live" /\ life[v] = "live" /\ life[main[v]] = "live"
                       /\ Heard(v) =>
        Final(net[<<v, "set">>], setVdpu[v]) = vdpuDpu[v][main[v]]

\* A route that does not fit the state of the vDPUs is still to be written:
\* the new configuration has asked all of them.
RouteInv ==
    Ready(setConfig, setVdpu) /\ global.vnet /\ life["set"] = "live" =>
        \/ vnetRoute = RouteData(setConfig, setVdpu, global)
        \/ \A v \in VDpus : InSet(v) /\ life[v] = "live" /\ life[main[v]] = "live" =>
              ~Heard(v) \/ net[<<v, "set">>] # <<>>

\* The table and the HA scope have the state of the vDPUs.
TableInv ==
    HasSetData(setConfig, setVdpu, global) /\ global.vnet =>
        /\ haSetTable = SetData(setConfig, setVdpu, global)
        /\ setRegs => scopeView = SetData(setConfig, setVdpu, global)

\* The inductive invariant.
ActorsInv ==
    /\ TypeOK /\ CountInv
    /\ RegisteredInv /\ DpuStateInv /\ VdpuStateInv
    /\ RouteInv /\ TableInv

-----------------------------------------------------------------------------
\* Queues.
LEMMA SeqEmpty ==
    ASSUME NEW S
    PROVE  <<>> \in Seq(S) /\ \A s \in Seq(S) : (s = <<>>) <=> (Len(s) = 0)
  OBVIOUS

\* A sequence is a function on 1..Len(s) whose values are in its set.
LEMMA SeqRange ==
    ASSUME NEW S, NEW s \in Seq(S)
    PROVE  Len(s) \in Nat /\ DOMAIN s = 1..Len(s) /\ \A i \in 1..Len(s) : s[i] \in S
  OBVIOUS

\* A sequence with an element put at its end.
LEMMA SeqAppend ==
    ASSUME NEW S, NEW s \in Seq(S), NEW m \in S
    PROVE  /\ Append(s, m) \in Seq(S) /\ Append(s, m) # <<>>
           /\ Len(Append(s, m)) = Len(s) + 1 /\ Append(s, m)[Len(s) + 1] = m
  OBVIOUS

\* The head and the tail of a sequence that is not empty.
LEMMA SeqTail ==
    ASSUME NEW S, NEW s \in Seq(S), s # <<>>
    PROVE  /\ Head(s) \in S /\ Head(s) = s[1] /\ Tail(s) \in Seq(S) /\ Len(Tail(s)) = Len(s) - 1
           /\ \A i \in 1..Len(Tail(s)) : Tail(s)[i] = s[i + 1]
  OBVIOUS

\* The last message on a link is the one put there last.
LEMMA FinalAppend ==
    ASSUME NEW S, NEW s \in Seq(S), NEW m \in S
    PROVE  /\ Append(s, m) \in Seq(S) /\ Append(s, m) # <<>>
           /\ \A x : Final(Append(s, m), x) = m
  <1>1. /\ Append(s, m) \in Seq(S) /\ Append(s, m) # <<>>
        /\ Len(Append(s, m)) = Len(s) + 1 /\ Append(s, m)[Len(s) + 1] = m
    BY SeqAppend, Zenon
  <1> QED
    BY <1>1, Zenon DEF Final

\* The last message stays last when the head is taken, and a head that was alone
\* is it.
LEMMA FinalTail ==
    ASSUME NEW S, NEW s \in Seq(S), s # <<>>
    PROVE  /\ Head(s) \in S /\ Tail(s) \in Seq(S)
           /\ \A x : Final(Tail(s), Head(s)) = Final(s, x)
  <1>1. /\ Head(s) \in S /\ Tail(s) \in Seq(S) /\ Len(Tail(s)) = Len(s) - 1
        /\ \A i \in 1..Len(Tail(s)) : Tail(s)[i] = s[i + 1]
    BY SeqTail, Zenon
  <1>2. Len(s) \in Nat \ {0} /\ Head(s) = s[1]
    BY SeqEmpty, SeqRange
  <1>3. CASE Tail(s) = <<>>
    <2>1. Len(s) = 1
      <3>1. Len(Tail(s)) = 0
        BY <1>3, SeqEmpty, Zenon
      <3>2. Len(s) - 1 = 0
        BY <1>1, <3>1, Zenon
      <3> QED
        BY <1>2, <3>2
    <2>2. Final(Tail(s), Head(s)) = Head(s)
      BY <1>3, Zenon DEF Final
    <2>3. \A x : Final(s, x) = s[1]
      BY <2>1, Zenon DEF Final
    <2> QED
      BY <1>1, <1>2, <2>2, <2>3, Zenon
  <1>4. CASE Tail(s) # <<>>
    <2>1. Len(Tail(s)) # 0
      BY <1>1, <1>4, SeqEmpty, Zenon
    <2>2. Tail(s)[Len(Tail(s))] = s[Len(s)]
      BY <1>1, <1>2, <2>1
    <2> QED
      BY <1>1, <1>4, <2>2, Zenon DEF Final
  <1> QED
    BY <1>3, <1>4, Zenon

\* The pairs of actors that talk to each other, and what they say.
LEMMA PairsApart ==
    ASSUME NEW v \in VDpus, NEW d \in Dpus
    PROVE  /\ <<v, d>> \in Pairs /\ <<d, v>> \in Pairs /\ <<v, "set">> \in Pairs /\ <<"set", v>> \in Pairs
           /\ v # d /\ v # "set" /\ d # "set"
           /\ Carried(<<v, d>>) = BOOLEAN /\ Carried(<<"set", v>>) = BOOLEAN
           /\ Carried(<<d, v>>) = DpuState /\ Carried(<<v, "set">>) = DpuState
           /\ v \in Actors /\ d \in Actors /\ "set" \in Actors
  BY HaActorsAssumption, Zenon DEF Pairs, Carried, Actors

\* The links to and from the HA set.
LEMMA SetPairs ==
    ASSUME NEW v \in VDpus
    PROVE  /\ <<v, "set">> \in Pairs /\ <<"set", v>> \in Pairs
           /\ Carried(<<v, "set">>) = DpuState /\ Carried(<<"set", v>>) = BOOLEAN
  <1>1. Managed \in Dpus
    BY HaActorsAssumption, Zenon
  <1> QED
    BY <1>1, PairsApart, Zenon

NetType == DOMAIN net = Pairs /\ \A p \in Pairs : net[p] \in Seq(Carried(p))

\* Messages are sent.
LEMMA NetSent ==
    ASSUME NetType, NEW pairs \in SUBSET Pairs, NEW m, \A p \in pairs : m \in Carried(p),
           net' = Sent(net, pairs, m)
    PROVE  /\ NetType'
           /\ \A p \in Pairs \ pairs : net'[p] = net[p]
           /\ \A p \in pairs : net'[p] # <<>> /\ \A x : Final(net'[p], x) = m
  <1>1. DOMAIN net' = Pairs
    BY Zenon DEF Sent
  <1>2. ASSUME NEW p \in Pairs
        PROVE  net'[p] = IF p \in pairs THEN Append(net[p], m) ELSE net[p]
    BY Zenon DEF Sent
  <1>3. ASSUME NEW p \in pairs
        PROVE  net'[p] \in Seq(Carried(p)) /\ net'[p] # <<>> /\ \A x : Final(net'[p], x) = m
    <2>1. net[p] \in Seq(Carried(p)) /\ m \in Carried(p) /\ net'[p] = Append(net[p], m)
      BY <1>2, Zenon DEF NetType
    <2> QED
      BY <2>1, FinalAppend
  <1> QED
    BY <1>1, <1>2, <1>3, Zenon DEF NetType

\* The first message of q is received, and others are sent in answer.
Answered(q, pairs, m) ==
    /\ NetType /\ q \in Pairs /\ net[q] # <<>>
    /\ pairs \in SUBSET (Pairs \ {q}) /\ \A p \in pairs : m \in Carried(p)
    /\ net' = Sent(Received(net, q), pairs, m)

\* A message is taken off one link and another one put on each of some others.
LEMMA NetAnswered ==
    ASSUME NEW q, NEW pairs, NEW m, Answered(q, pairs, m)
    PROVE  /\ NetType'
           /\ Head(net[q]) \in Carried(q)
           /\ \A x : Final(net'[q], Head(net[q])) = Final(net[q], x)
           /\ \A p \in Pairs \ (pairs \cup {q}) : net'[p] = net[p]
           /\ \A p \in pairs : net'[p] # <<>> /\ \A x : Final(net'[p], x) = m
  <1>0. /\ NetType /\ q \in Pairs /\ net[q] # <<>>
        /\ pairs \in SUBSET (Pairs \ {q}) /\ \A p \in pairs : m \in Carried(p)
        /\ net' = Sent(Received(net, q), pairs, m)
    BY Zenon DEF Answered
  <1>1. /\ DOMAIN net' = Pairs
        /\ \A p \in Pairs : Received(net, q)[p] = IF p = q THEN Tail(net[q]) ELSE net[p]
    BY <1>0, Zenon DEF Sent, Received, NetType
  <1>2. ASSUME NEW p \in Pairs
        PROVE  net'[p] = IF p \in pairs THEN Append(Received(net, q)[p], m) ELSE Received(net, q)[p]
    BY <1>0, Zenon DEF Sent
  <1>3. ASSUME NEW p \in pairs
        PROVE  net'[p] \in Seq(Carried(p)) /\ net'[p] # <<>> /\ \A x : Final(net'[p], x) = m
    <2>1. net[p] \in Seq(Carried(p)) /\ m \in Carried(p) /\ net'[p] = Append(net[p], m)
      BY <1>0, <1>1, <1>2, Zenon DEF NetType
    <2> QED
      BY <2>1, FinalAppend
  <1>4. net[q] \in Seq(Carried(q)) /\ net'[q] = Tail(net[q])
    BY <1>0, <1>1, <1>2, Zenon DEF NetType
  <1>5. /\ Head(net[q]) \in Carried(q) /\ net'[q] \in Seq(Carried(q))
        /\ \A x : Final(net'[q], Head(net[q])) = Final(net[q], x)
    BY <1>0, <1>4, FinalTail
  <1>6. \A p \in Pairs \ (pairs \cup {q}) : net'[p] = net[p]
    BY <1>0, <1>1, <1>2, Zenon
  <1> QED
    BY <1>0, <1>1, <1>3, <1>5, <1>6, Zenon DEF NetType

\* The first message of q is received, without an answer.
LEMMA NetReceived ==
    ASSUME NetType, NEW q \in Pairs, net[q] # <<>>, net' = Received(net, q)
    PROVE  /\ NetType'
           /\ Head(net[q]) \in Carried(q)
           /\ \A x : Final(net'[q], Head(net[q])) = Final(net[q], x)
           /\ \A p \in Pairs \ {q} : net'[p] = net[p]
  <1>1. /\ DOMAIN net' = Pairs /\ net'[q] = Tail(net[q])
        /\ \A p \in Pairs \ {q} : net'[p] = net[p]
    BY Zenon DEF Received, NetType
  <1>2. net[q] \in Seq(Carried(q))
    BY Zenon DEF NetType
  <1>3. /\ Head(net[q]) \in Carried(q) /\ net'[q] \in Seq(Carried(q))
        /\ \A x : Final(net'[q], Head(net[q])) = Final(net[q], x)
    BY <1>1, <1>2, FinalTail
  <1> QED
    BY <1>1, <1>3, Zenon DEF NetType

-----------------------------------------------------------------------------
\* A state that was received is not Unknown, and the present state of a DPU with
\* a row is one.
LEMMA StatesKnown ==
    /\ Unknown \notin DpuState
    /\ \A d \in Dpus, n \in Versions \ {0} : \A pm, bf : StateOf(d, n, pm, bf) \in DpuState
  BY Zenon DEF Unknown, DpuState, StateOf

\* No actor is configured at first.
LEMMA InitActorsInv == Init => ActorsInv
  <1> SUFFICES ASSUME Init PROVE ActorsInv
    BY Zenon
  <1>0. 0 \in Versions /\ 0 \in 0..MaxChanges /\ Managed \in Dpus
    BY HaActorsAssumption DEF Versions
  <1>1. "set" \in Actors /\ Dpus \subseteq Actors /\ VDpus \subseteq Actors
    BY Zenon DEF Actors
  <1>2. setConfig = NoConfig /\ ~Ready(setConfig, setVdpu) /\ ~HasSetData(setConfig, setVdpu, global)
    BY Zenon DEF Init, Ready, HasSetData
  <1>3. DOMAIN net = Pairs /\ \A p \in Pairs : net[p] \in Seq(Carried(p))
    BY SeqEmpty, Zenon DEF Init
  <1>4. TypeOK
    <2>1. /\ life \in [Actors -> {"absent", "live", "stopped"}] /\ \A a \in Actors : life[a] = "absent"
          /\ dpuRow \in [Dpus -> Versions] /\ \A d \in Dpus : dpuRow[d] = 0
      BY <1>0, Zenon DEF Init
    <2>2. /\ dpuRegs \in [Dpus -> SUBSET VDpus] /\ main \in [VDpus -> Dpus]
          /\ vdpuDpu \in [VDpus -> [Dpus -> DpuState \cup {Unknown}]]
          /\ vdpuRegs \in [VDpus -> BOOLEAN] /\ setVdpu \in [VDpus -> DpuState \cup {Unknown}]
      BY <1>0, Zenon DEF Init
    <2>3. global \in [version : Versions, vnet : BOOLEAN]
      BY <1>0, Zenon DEF Init, NoGlobal
    <2>4. /\ pmon \in Health /\ bfd \in Health /\ setRegs \in BOOLEAN /\ changes \in 0..MaxChanges
          /\ spawned \subseteq Actors /\ lost \subseteq Pairs
      BY <1>0, Zenon DEF Init, Health
    <2> QED
      BY <1>1, <1>2, <1>3, <2>1, <2>2, <2>3, <2>4, Zenon DEF TypeOK
  <1>5. CountInv
    BY DEF Init, CountInv, NoConfig, NoGlobal
  <1>6. \A a \in Actors : life[a] = "absent"
    BY Zenon DEF Init
  <1>7. RegisteredInv /\ DpuStateInv /\ VdpuStateInv
    BY <1>1, <1>6, Zenon DEF RegisteredInv, DpuStateInv, VdpuStateInv
  <1>8. RouteInv /\ TableInv
    BY <1>2, Zenon DEF RouteInv, TableInv
  <1> QED
    BY <1>4, <1>5, <1>7, <1>8, Zenon DEF ActorsInv

-----------------------------------------------------------------------------
\* What a registration that has been read means.
LEMMA Registered ==
    ASSUME ActorsInv, NEW v \in VDpus
    PROVE  /\ main[v] \in Dpus
           /\ life[v] = "live" /\ life[main[v]] # "stopped" /\ Asked(v) => v \in dpuRegs[main[v]]
           /\ InSet(v) /\ life["set"] = "live" /\ life[v] # "stopped" /\ net[<<"set", v>>] = <<>>
                /\ <<"set", v>> \notin lost => vdpuRegs[v]
  BY Zenon DEF ActorsInv, TypeOK, RegisteredInv, Final, Holds, Asked

\* The route while the HA set actor does nothing: none of the vDPUs has been
\* heard since.
LEMMA RouteKept ==
    ASSUME RouteInv, UNCHANGED <<setConfig, setVdpu, global, vnetRoute>>,
           life'["set"] = "live" => life["set"] = "live",
           \A v \in VDpus :
               InSet(v) /\ life'["set"] = "live" /\ life'[v] = "live" /\ life'[main'[v]] = "live"
                 /\ Heard(v)' /\ net'[<<v, "set">>] = <<>>
               => life[v] = "live" /\ life[main[v]] = "live" /\ Heard(v) /\ net[<<v, "set">>] = <<>>
    PROVE  RouteInv'
  BY Zenon DEF RouteInv, InSet

\* TableInv is about the HA set alone.
LEMMA TableKept ==
    ASSUME TableInv, UNCHANGED <<setConfig, setVdpu, global, haSetTable, setRegs, scopeView>>
    PROVE  TableInv'
  BY Zenon DEF TableInv

\* The state of a DPU changes, and those registered are told.
DpuTold(d) ==
    /\ life[d] # "stopped" /\ life'[d] = "live" /\ \A a \in Actors \ {d} : life'[a] = life[a]
    /\ Now(d)' \in DpuState /\ \A e \in Dpus \ {d} : Now(e)' = Now(e)
    /\ net' = Sent(net, {d} \X dpuRegs[d], Now(d)')
    /\ UNCHANGED <<dpuRegs, vdpuVars, setVars, lost>>

\* A DPU actor tells its state to all that registered with it.
LEMMA DpuTells ==
    ASSUME ActorsInv, NEW d \in Dpus, DpuTold(d)
    PROVE  NetType' /\ RegisteredInv' /\ DpuStateInv' /\ VdpuStateInv' /\ RouteInv' /\ TableInv'
  <1>0. dpuRegs[d] \subseteq VDpus /\ main \in [VDpus -> Dpus]
    BY Zenon DEF ActorsInv, TypeOK
  <1>a. life[d] # "stopped" /\ life'[d] = "live" /\ \A a \in Actors \ {d} : life'[a] = life[a]
    BY Zenon DEF DpuTold
  <1>b. Now(d)' \in DpuState /\ \A e \in Dpus \ {d} : Now(e)' = Now(e)
    BY Zenon DEF DpuTold
  <1>1. UNCHANGED <<dpuRegs, main, vdpuDpu, vdpuRegs, setConfig, global, setVdpu, setRegs, haSetTable, vnetRoute,
                    scopeView, lost>>
    BY Zenon DEF DpuTold, vdpuVars, setVars
  <1>2. /\ NetType'
        /\ \A p \in Pairs \ ({d} \X dpuRegs[d]) : net'[p] = net[p]
        /\ \A p \in {d} \X dpuRegs[d] : net'[p] # <<>> /\ \A x : Final(net'[p], x) = Now(d)'
    <2>1. {d} \X dpuRegs[d] \in SUBSET Pairs /\ \A p \in {d} \X dpuRegs[d] : Now(d)' \in Carried(p)
      BY <1>0, <1>b, Zenon DEF Pairs, Carried
    <2>2. NetType
      BY Zenon DEF ActorsInv, TypeOK, NetType
    <2>3. net' = Sent(net, {d} \X dpuRegs[d], Now(d)')
      BY Zenon DEF DpuTold
    <2> QED
      BY <2>1, <2>2, <2>3, NetSent, Zenon
  <1>3. ASSUME NEW v \in VDpus
        PROVE  /\ life'[v] = life[v] /\ life'["set"] = life["set"]
               /\ net'[<<v, main[v]>>] = net[<<v, main[v]>>] /\ net'[<<"set", v>>] = net[<<"set", v>>]
               /\ net'[<<v, "set">>] = net[<<v, "set">>]
               /\ life'[main[v]] # "stopped" => life[main[v]] # "stopped"
               /\ Asked(v)' = Asked(v)
    <2>1. v # d /\ "set" # d /\ v \in Actors /\ main[v] \in Dpus /\ main[v] \in Actors /\ "set" \in Actors
      BY <1>0, PairsApart, Zenon
    <2>2. <<v, main[v]>> \in Pairs /\ <<"set", v>> \in Pairs /\ <<v, "set">> \in Pairs
      BY <2>1, PairsApart, Zenon
    <2> QED
      BY <1>1, <1>2, <1>a, <2>1, <2>2, Zenon DEF Asked
  <1>4. ASSUME NEW v \in VDpus, main[v] # d
        PROVE  /\ net'[<<main[v], v>>] = net[<<main[v], v>>] /\ life'[main[v]] = life[main[v]]
               /\ Now(main[v])' = Now(main[v])
    <2>1. main[v] \in Dpus /\ main[v] \in Actors /\ <<main[v], v>> \in Pairs
      BY <1>0, PairsApart, Zenon
    <2> QED
      BY <1>1, <1>2, <1>4, <1>a, <1>b, <2>1, Zenon
  <1>5. ASSUME NEW v \in VDpus, main[v] = d, life[v] = "live", Asked(v)
        PROVE  net'[<<d, v>>] # <<>> /\ \A x : Final(net'[<<d, v>>], x) = Now(d)'
    <2>1. v \in dpuRegs[d]
      BY <1>5, <1>a, Registered, Zenon
    <2> QED
      BY <1>2, <2>1, Zenon
  <1>6. RegisteredInv'
    <2>1. RegisteredInv /\ UNCHANGED <<main, dpuRegs, vdpuRegs, setConfig, lost>>
      BY <1>1, Zenon DEF ActorsInv
    <2>2. \A v \in VDpus : /\ Holds(v, <<v, main[v]>>)' = Holds(v, <<v, main[v]>>)
                           /\ Holds("set", <<"set", v>>)' = Holds("set", <<"set", v>>)
      BY <1>3, <2>1, Zenon DEF Holds
    <2> QED
      BY <1>3, <2>1, <2>2, Zenon DEF RegisteredInv, InSet
  <1>7. DpuStateInv'
    <2> SUFFICES ASSUME NEW v \in VDpus, life'[v] = "live", life'[main[v]] = "live", Asked(v)'
                 PROVE  Final(net'[<<main[v], v>>], vdpuDpu[v][main[v]]) = Now(main[v])'
      BY <1>1, Zenon DEF DpuStateInv
    <2>1. CASE main[v] = d
      <3>0. life[v] = "live" /\ Asked(v)
        BY <1>3, <2>1, Zenon
      <3>1. Final(net'[<<d, v>>], vdpuDpu[v][d]) = Now(d)'
        BY <1>5, <2>1, <3>0, Zenon
      <3>2. Now(main[v])' = Now(d)'
        BY <1>1, <2>1, Zenon DEF Now
      <3> QED
        BY <2>1, <3>1, <3>2, Zenon
    <2>2. CASE main[v] # d
      <3>1. /\ life[v] = "live" /\ life[main[v]] = "live" /\ Asked(v)
            /\ net'[<<main[v], v>>] = net[<<main[v], v>>] /\ Now(main[v])' = Now(main[v])
        BY <1>3, <1>4, <2>2, Zenon
      <3>2. DpuStateInv
        BY Zenon DEF ActorsInv
      <3> QED
        BY <3>1, <3>2, Zenon DEF DpuStateInv
    <2> QED
      BY <2>1, <2>2, Zenon
  <1>8. ASSUME NEW v \in VDpus, life'[v] = "live", life'[main[v]] = "live", Heard(v)'
        PROVE  life[main[v]] = "live" /\ Heard(v) /\ main[v] # d
    <2>1. main[v] # d
      BY <1>1, <1>3, <1>5, <1>8, Zenon DEF Heard
    <2> QED
      BY <1>1, <1>3, <1>4, <1>8, <2>1, Zenon DEF Heard
  <1>9. VdpuStateInv'
    BY <1>1, <1>3, <1>8, Zenon DEF ActorsInv, VdpuStateInv, InSet
  <1>10. RouteInv'
    <2>1. ASSUME NEW v \in VDpus, life'[v] = "live", life'[main'[v]] = "live", Heard(v)', net'[<<v, "set">>] = <<>>
          PROVE  life[v] = "live" /\ life[main[v]] = "live" /\ Heard(v) /\ net[<<v, "set">>] = <<>>
      BY <1>1, <1>3, <1>8, <2>1, Zenon
    <2>2. RouteInv /\ life'["set"] = life["set"]
      BY <1>a, HaActorsAssumption, Zenon DEF ActorsInv, Actors
    <2> QED
      BY <1>1, <2>1, <2>2, RouteKept, Zenon
  <1>11. TableInv'
    BY <1>1, TableKept, Zenon DEF ActorsInv
  <1> QED
    BY <1>2, <1>6, <1>7, <1>9, <1>10, <1>11, Zenon

\* The next version of a row is in range, and the first change is free.
LEMMA Bumped ==
    ASSUME changes \in 0..MaxChanges, NEW n \in Nat, n <= changes + 1,
           NEW first \in BOOLEAN, first => n = 0, Change(first)
    PROVE  /\ n + 1 \in Versions \ {0} /\ n + 1 <= changes' + 1
           /\ changes' \in 0..MaxChanges /\ changes <= changes'
  BY HaActorsAssumption DEF Change, Versions

\* No version is ahead of the changes counted.
LEMMA Counted ==
    ASSUME ActorsInv, changes' \in 0..MaxChanges, changes <= changes'
    PROVE  /\ \A d \in Dpus : dpuRow[d] \in Nat /\ dpuRow[d] <= changes' + 1
           /\ setConfig.version \in Nat /\ setConfig.version <= changes' + 1
           /\ global.version \in Nat /\ global.version <= changes' + 1
  <1>1. /\ \A d \in Dpus : dpuRow[d] \in Nat
        /\ setConfig.version \in Nat /\ global.version \in Nat /\ changes \in Nat
    BY DEF ActorsInv, TypeOK, Versions, Config, NoConfig
  <1>2. CountInv /\ MaxChanges \in Nat
    BY HaActorsAssumption, Zenon DEF ActorsInv
  <1> QED
    BY <1>1, <1>2 DEF CountInv

\* The row of a DPU comes or changes.
LEMMA DpuConfigInv ==
    ASSUME ActorsInv, NEW d \in Dpus, DpuConfig(d)
    PROVE  ActorsInv'
  <1>0. TypeOK /\ dpuRow[d] \in Nat /\ dpuRow[d] <= changes + 1
    BY HaActorsAssumption DEF ActorsInv, TypeOK, CountInv, Versions
  <1>1. /\ dpuRow[d] + 1 \in Versions \ {0} /\ dpuRow[d] + 1 <= changes' + 1
        /\ changes' \in 0..MaxChanges /\ changes <= changes'
    <2>1. Change(life[d] = "absent") /\ (life[d] = "absent" => dpuRow[d] = 0) /\ changes \in 0..MaxChanges
      BY <1>0, Zenon DEF DpuConfig, TypeOK
    <2> QED
      BY <1>0, <2>1, Bumped, Zenon
  <1>2. /\ life' = [life EXCEPT ![d] = "live"] /\ dpuRow' = [dpuRow EXCEPT ![d] = @ + 1]
        /\ UNCHANGED <<pmon, bfd, dpuRegs, vdpuVars, setVars, lost>> /\ life[d] # "stopped"
        /\ spawned' = spawned \cup {d}
    BY Zenon DEF DpuConfig
  <1>3. /\ d \in Actors /\ life'[d] = "live" /\ \A a \in Actors \ {d} : life'[a] = life[a]
        /\ life' \in [Actors -> {"absent", "live", "stopped"}]
    BY <1>0, <1>2, Zenon DEF TypeOK, Actors
  <1>4. /\ dpuRow' \in [Dpus -> Versions] /\ dpuRow'[d] = dpuRow[d] + 1
        /\ \A e \in Dpus \ {d} : dpuRow'[e] = dpuRow[e]
    BY <1>0, <1>1, <1>2, Zenon DEF TypeOK
  <1>5. /\ Now(d)' = StateOf(d, dpuRow'[d], pmon, bfd) /\ Now(d)' \in DpuState
        /\ \A e \in Dpus \ {d} : Now(e)' = Now(e)
    BY <1>1, <1>2, <1>4, StatesKnown, Zenon DEF Now
  <1>6. net' = Sent(net, {d} \X dpuRegs[d], Now(d)')
    BY <1>5, Zenon DEF DpuConfig
  <1>7. NetType' /\ RegisteredInv' /\ DpuStateInv' /\ VdpuStateInv' /\ RouteInv' /\ TableInv'
    <2>1. DpuTold(d)
      BY <1>2, <1>3, <1>5, <1>6, Zenon DEF DpuTold
    <2> QED
      BY <2>1, DpuTells, Zenon
  <1>8. "set" \in Actors /\ "set" # d /\ Dpus \subseteq Actors
    BY HaActorsAssumption, Zenon DEF Actors
  <1>9. TypeOK'
    <2>1. spawned' \subseteq Actors
      BY <1>0, <1>2, <1>3, Zenon DEF TypeOK
    <2> QED
      BY <1>0, <1>1, <1>2, <1>3, <1>4, <1>7, <1>8, <2>1 DEF TypeOK, NetType, vdpuVars, setVars, Versions
  <1>10. CountInv'
    BY <1>1, <1>2, <1>4, Counted, Zenon DEF CountInv, setVars
  <1> QED
    BY <1>7, <1>9, <1>10, Zenon DEF ActorsInv

\* The DPU or its link goes up or down.
LEMMA DpuHealthInv ==
    ASSUME ActorsInv, NEW pm \in Health, NEW bf \in Health, DpuHealth(pm, bf)
    PROVE  ActorsInv'
  <1>0. TypeOK /\ Managed \in Dpus
    BY HaActorsAssumption, Zenon DEF ActorsInv
  <1>1. changes' \in 0..MaxChanges /\ changes <= changes'
    BY <1>0, HaActorsAssumption DEF DpuHealth, Change, TypeOK
  <1>2. UNCHANGED <<life, dpuRow, dpuRegs, vdpuVars, setVars, spawned, lost>> /\ life[Managed] = "live"
    BY Zenon DEF DpuHealth
  <1>3. /\ Now(Managed)' = StateOf(Managed, dpuRow[Managed], pm, bf)
        /\ \A e \in Dpus \ {Managed} : Now(e)' = Now(e)
    BY <1>2, Zenon DEF DpuHealth, Now, StateOf
  <1>4. Now(Managed)' \in DpuState
    <2>1. dpuRow[Managed] \in Versions \ {0}
      BY <1>0, <1>2, Zenon DEF TypeOK
    <2> QED
      BY <1>0, <1>3, <2>1, StatesKnown, Zenon
  <1>5. net' = Sent(net, {Managed} \X dpuRegs[Managed], Now(Managed)')
    BY <1>3, Zenon DEF DpuHealth
  <1>6. NetType' /\ RegisteredInv' /\ DpuStateInv' /\ VdpuStateInv' /\ RouteInv' /\ TableInv'
    <2>1. DpuTold(Managed)
      BY <1>2, <1>3, <1>4, <1>5, Zenon DEF DpuTold
    <2> QED
      BY <1>0, <2>1, DpuTells, Zenon
  <1>7. TypeOK'
    BY <1>0, <1>1, <1>2, <1>6, Zenon DEF TypeOK, NetType, vdpuVars, setVars, DpuHealth
  <1>8. CountInv'
    BY <1>1, <1>2, Counted, Zenon DEF CountInv, setVars
  <1> QED
    BY <1>6, <1>7, <1>8, Zenon DEF ActorsInv

\* A message to an actor that has stopped is lost.
LEMMA LostMessageInv ==
    ASSUME ActorsInv, NEW p \in Pairs, Lost(p)
    PROVE  ActorsInv'
  <1>0. TypeOK /\ NetType
    BY Zenon DEF ActorsInv, TypeOK, NetType
  <1>1. /\ UNCHANGED <<life, dpuVars, vdpuVars, setVars, spawned, lost, changes>>
        /\ net[p] # <<>> /\ net' = Received(net, p) /\ life[p[2]] = "stopped"
    BY Zenon DEF Lost
  <1>2. UNCHANGED <<dpuRow, pmon, bfd, dpuRegs, main, vdpuDpu, vdpuRegs, setConfig, global, setVdpu,
                    setRegs, haSetTable, vnetRoute, scopeView>>
    BY <1>1, Zenon DEF dpuVars, vdpuVars, setVars
  <1>3. NetType' /\ \A q \in Pairs \ {p} : net'[q] = net[q]
    BY <1>0, <1>1, NetReceived, Zenon
  <1>4. ASSUME NEW v \in VDpus
        PROVE  /\ life[main[v]] # "stopped" => net'[<<v, main[v]>>] = net[<<v, main[v]>>]
               /\ life[v] # "stopped" => /\ net'[<<main[v], v>>] = net[<<main[v], v>>]
                                         /\ net'[<<"set", v>>] = net[<<"set", v>>]
               /\ life["set"] # "stopped" => net'[<<v, "set">>] = net[<<v, "set">>]
    <2>1. main[v] \in Dpus
      BY <1>0, Zenon DEF TypeOK
    <2>2. <<v, main[v]>> \in Pairs /\ <<main[v], v>> \in Pairs /\ <<"set", v>> \in Pairs /\ <<v, "set">> \in Pairs
      BY <2>1, PairsApart, Zenon
    <2> QED
      BY <1>1, <1>3, <2>2
  <1>5. TypeOK' /\ CountInv'
    BY <1>0, <1>1, <1>2, <1>3, Zenon DEF ActorsInv, TypeOK, CountInv, NetType
  <1>6. RegisteredInv'
    BY <1>1, <1>2, <1>4, Zenon DEF ActorsInv, RegisteredInv, InSet, Holds
  <1>7. DpuStateInv'
    <2>1. \A v \in VDpus : Now(main[v])' = Now(main[v])
      BY <1>2, Zenon DEF Now
    <2> QED
      BY <1>1, <1>2, <1>4, <2>1, Zenon DEF ActorsInv, DpuStateInv, Asked
  <1>8. VdpuStateInv'
    BY <1>1, <1>2, <1>4 DEF ActorsInv, VdpuStateInv, InSet, Heard, Asked
  <1>9. RouteInv'
    <2>1. ASSUME NEW v \in VDpus, life'["set"] = "live", life'[v] = "live", life'[main'[v]] = "live", Heard(v)',
                 net'[<<v, "set">>] = <<>>
          PROVE  life[v] = "live" /\ life[main[v]] = "live" /\ Heard(v) /\ net[<<v, "set">>] = <<>>
      BY <1>1, <1>2, <1>4, <2>1, Zenon DEF Heard, Asked
    <2>2. RouteInv
      BY Zenon DEF ActorsInv
    <2> QED
      BY <1>1, <1>2, <2>1, <2>2, RouteKept, Zenon
  <1>10. TableInv'
    BY <1>2, TableKept, Zenon DEF ActorsInv
  <1> QED
    BY <1>5, <1>6, <1>7, <1>8, <1>9, <1>10, Zenon DEF ActorsInv

\* A message to an actor that does not exist is given up.
LEMMA GiveUpInv ==
    ASSUME ActorsInv, SpawnInv, NEW p \in Pairs, GiveUp(p)
    PROVE  ActorsInv'
  <1>0. TypeOK /\ NetType
    BY Zenon DEF ActorsInv, TypeOK, NetType
  <1>1. /\ UNCHANGED <<life, dpuVars, vdpuVars, setVars, spawned, changes>>
        /\ net[p] # <<>> /\ net' = Received(net, p) /\ p[2] \notin spawned
        /\ lost' = IF net'[p] = <<>> THEN lost \cup {p} ELSE lost
    BY Zenon DEF GiveUp
  <1>2. UNCHANGED <<dpuRow, pmon, bfd, dpuRegs, main, vdpuDpu, vdpuRegs, setConfig, global, setVdpu,
                    setRegs, haSetTable, vnetRoute, scopeView>>
    BY <1>1, Zenon DEF dpuVars, vdpuVars, setVars
  <1>3. /\ NetType' /\ \A q \in Pairs \ {p} : net'[q] = net[q]
        /\ net'[p] # <<>> => \A x : Final(net'[p], x) = Final(net[p], x)
    <2>1. /\ NetType' /\ \A q \in Pairs \ {p} : net'[q] = net[q]
          /\ \A x : Final(net'[p], Head(net[p])) = Final(net[p], x)
      BY <1>0, <1>1, NetReceived, Zenon
    <2> QED
      BY <2>1, Zenon DEF Final
  <1>4. /\ lost' \subseteq Pairs /\ \A q : q # p => (q \in lost' <=> q \in lost)
        /\ net'[p] = <<>> => p \in lost'
        /\ net'[p] # <<>> => lost' = lost
    BY <1>0, <1>1, Zenon DEF TypeOK
  <1>5. TypeOK' /\ CountInv'
    BY <1>0, <1>1, <1>2, <1>3, <1>4, Zenon DEF ActorsInv, TypeOK, CountInv, NetType
  <1>6. ASSUME NEW v \in VDpus
        PROVE  /\ v \in Actors /\ main[v] \in Actors /\ main[v] \in Dpus /\ "set" \in Actors
               /\ <<v, main[v]>> \in Pairs /\ <<main[v], v>> \in Pairs
               /\ <<v, "set">> \in Pairs /\ <<"set", v>> \in Pairs
    <2>1. main[v] \in Dpus
      BY <1>0, Zenon DEF TypeOK
    <2> QED
      BY <2>1, PairsApart, Zenon
  <1>7. ASSUME NEW a, NEW b \in Actors, <<a, b>> \in Pairs, life[b] # "absent"
        PROVE  net'[<<a, b>>] = net[<<a, b>>] /\ (<<a, b>> \in lost' <=> <<a, b>> \in lost)
    <2>1. b \in spawned
      BY <1>7, Zenon DEF SpawnInv
    <2>2. <<a, b>> # p
      BY <1>1, <2>1
    <2> QED
      BY <1>3, <1>4, <1>7, <2>2, Zenon
  <1>8. RegisteredInv'
    <2>1. ASSUME NEW v \in VDpus, life[v] # "absent", life[main[v]] # "stopped"
          PROVE  Final(net'[<<v, main[v]>>], v \in dpuRegs[main[v]]) = Holds(v, <<v, main[v]>>)'
      <3>0. Final(net[<<v, main[v]>>], v \in dpuRegs[main[v]]) = Holds(v, <<v, main[v]>>)
        BY <2>1, Zenon DEF ActorsInv, RegisteredInv
      <3>1. CASE <<v, main[v]>> # p
        BY <1>1, <1>2, <1>3, <1>4, <1>6, <3>0, <3>1, Zenon DEF Holds
      <3>2. CASE <<v, main[v]>> = p /\ net'[p] # <<>>
        BY <1>1, <1>2, <1>3, <1>4, <3>0, <3>2, Zenon DEF Holds
      <3>3. CASE <<v, main[v]>> = p /\ net'[p] = <<>>
        <4>1. main[v] \notin spawned
          BY <1>1, <3>3
        <4>2. (v \in dpuRegs[main[v]]) = FALSE
          <5>1. dpuRegs[main[v]] = {}
            BY <1>6, <4>1, Zenon DEF SpawnInv
          <5> QED
            BY <5>1
        <4>3. Holds(v, <<v, main[v]>>)' = FALSE
          <5>1. <<v, main'[v]>> \in lost'
            BY <1>2, <1>4, <3>3
          <5> QED
            BY <5>1, Zenon DEF Holds
        <4>4. net'[<<v, main[v]>>] = <<>>
          BY <3>3
        <4> QED
          BY <4>2, <4>3, <4>4, Zenon DEF Final
      <3> QED
        BY <3>1, <3>2, <3>3, Zenon
    <2>2. ASSUME NEW v \in VDpus, InSet(v), life["set"] # "absent", life[v] # "stopped"
          PROVE  Final(net'[<<"set", v>>], vdpuRegs[v]) = Holds("set", <<"set", v>>)'
      <3>0. Final(net[<<"set", v>>], vdpuRegs[v]) = Holds("set", <<"set", v>>)
        BY <2>2, Zenon DEF ActorsInv, RegisteredInv
      <3>1. CASE <<"set", v>> # p
        BY <1>1, <1>3, <1>4, <1>6, <3>0, <3>1, Zenon DEF Holds
      <3>2. CASE <<"set", v>> = p /\ net'[p] # <<>>
        BY <1>1, <1>3, <1>4, <3>0, <3>2, Zenon DEF Holds
      <3>3. CASE <<"set", v>> = p /\ net'[p] = <<>>
        <4>1. v \notin spawned
          BY <1>1, <3>3
        <4>2. vdpuRegs[v] = FALSE
          BY <4>1, Zenon DEF SpawnInv
        <4> QED
          BY <1>4, <3>3, <4>2, Zenon DEF Holds, Final
      <3> QED
        BY <3>1, <3>2, <3>3, Zenon
    <2> QED
      BY <1>1, <1>2, <2>1, <2>2, Zenon DEF RegisteredInv, InSet
  <1>9. ASSUME NEW v \in VDpus, life[v] = "live", life[main[v]] = "live"
        PROVE  /\ Asked(v)' = Asked(v) /\ net'[<<main[v], v>>] = net[<<main[v], v>>]
               /\ Heard(v)' = Heard(v)
    <2>1. /\ net'[<<v, main[v]>>] = net[<<v, main[v]>>] /\ (<<v, main[v]>> \in lost' <=> <<v, main[v]>> \in lost)
          /\ net'[<<main[v], v>>] = net[<<main[v], v>>]
          /\ net'[<<"set", v>>] = net[<<"set", v>>] /\ (<<"set", v>> \in lost' <=> <<"set", v>> \in lost)
      BY <1>6, <1>7, <1>9, Zenon
    <2> QED
      BY <1>2, <2>1, Zenon DEF Heard, Asked
  <1>10. ASSUME NEW v \in VDpus, life["set"] = "live"
         PROVE  net'[<<v, "set">>] = net[<<v, "set">>]
    BY <1>6, <1>7, <1>10, Zenon
  <1>11. DpuStateInv'
    <2>1. \A v \in VDpus : Now(main[v])' = Now(main[v])
      BY <1>2, Zenon DEF Now
    <2> QED
      BY <1>1, <1>2, <1>9, <2>1, Zenon DEF ActorsInv, DpuStateInv
  <1>12. VdpuStateInv'
    BY <1>1, <1>2, <1>9, <1>10, Zenon DEF ActorsInv, VdpuStateInv, InSet
  <1>13. RouteInv'
    <2>1. ASSUME NEW v \in VDpus, life'["set"] = "live", life'[v] = "live", life'[main'[v]] = "live", Heard(v)',
                 net'[<<v, "set">>] = <<>>
          PROVE  life[v] = "live" /\ life[main[v]] = "live" /\ Heard(v) /\ net[<<v, "set">>] = <<>>
      BY <1>1, <1>2, <1>9, <1>10, <2>1, Zenon
    <2>2. RouteInv
      BY Zenon DEF ActorsInv
    <2> QED
      BY <1>1, <1>2, <2>1, <2>2, RouteKept, Zenon
  <1>14. TableInv'
    BY <1>2, TableKept, Zenon DEF ActorsInv
  <1> QED
    BY <1>5, <1>8, <1>11, <1>12, <1>13, <1>14, Zenon DEF ActorsInv

\* The row of a DPU is deleted.
LEMMA DpuDeleteInv ==
    ASSUME ActorsInv, NEW d \in Dpus, DpuDelete(d)
    PROVE  ActorsInv'
  <1>0. TypeOK
    BY Zenon DEF ActorsInv
  <1>1. /\ UNCHANGED <<dpuVars, vdpuVars, setVars, net, spawned, lost>>
        /\ life[d] = "live" /\ life' = [life EXCEPT ![d] = "stopped"] /\ Change(FALSE)
    BY Zenon DEF DpuDelete
  <1>2. UNCHANGED <<dpuRow, pmon, bfd, dpuRegs, main, vdpuDpu, vdpuRegs, setConfig, global, setVdpu,
                    setRegs, haSetTable, vnetRoute, scopeView, net, lost>>
    BY <1>1, Zenon DEF dpuVars, vdpuVars, setVars
  <1>3. changes' \in 0..MaxChanges /\ changes <= changes'
    BY <1>0, <1>1, HaActorsAssumption DEF Change, TypeOK
  <1>4. /\ life' \in [Actors -> {"absent", "live", "stopped"}]
        /\ "set" \in Actors /\ Dpus \subseteq Actors /\ VDpus \subseteq Actors
        /\ \A a \in Actors : life'[a] = IF a = d THEN "stopped" ELSE life[a]
        /\ life'["set"] = life["set"] /\ \A v \in VDpus : life'[v] = life[v]
    BY <1>0, <1>1, HaActorsAssumption DEF TypeOK, Actors
  <1>5. \A e \in Dpus : life'[e] # "stopped" => life'[e] = life[e]
    BY <1>4, Zenon
  <1>6. \A v \in VDpus : main[v] \in Dpus
    BY <1>0, Zenon DEF TypeOK
  <1>7. TypeOK'
    BY <1>0, <1>1, <1>2, <1>3, <1>4, Zenon DEF TypeOK
  <1>8. CountInv'
    BY <1>2, <1>3, Counted, Zenon DEF CountInv
  <1>9. RegisteredInv'
    BY <1>2, <1>4, <1>5, <1>6, Zenon DEF ActorsInv, RegisteredInv, InSet, Holds
  <1>10. DpuStateInv'
    <2>1. \A v \in VDpus : Now(main[v])' = Now(main[v])
      BY <1>2, Zenon DEF Now
    <2> QED
      BY <1>2, <1>4, <1>5, <1>6, <2>1 DEF ActorsInv, DpuStateInv, Asked
  <1>11. VdpuStateInv'
    BY <1>2, <1>4, <1>5, <1>6 DEF ActorsInv, VdpuStateInv, InSet, Heard, Asked
  <1>12. RouteInv'
    <2>1. ASSUME NEW v \in VDpus, life'["set"] = "live", life'[v] = "live", life'[main'[v]] = "live", Heard(v)',
                 net'[<<v, "set">>] = <<>>
          PROVE  life[v] = "live" /\ life[main[v]] = "live" /\ Heard(v) /\ net[<<v, "set">>] = <<>>
      BY <1>2, <1>4, <1>5, <1>6, <2>1, Zenon DEF Heard, Asked
    <2>2. RouteInv
      BY Zenon DEF ActorsInv
    <2> QED
      BY <1>2, <1>4, <2>1, <2>2, RouteKept, Zenon
  <1>13. TableInv'
    BY <1>2, TableKept, Zenon DEF ActorsInv
  <1> QED
    BY <1>7, <1>8, <1>9, <1>10, <1>11, <1>12, <1>13, Zenon DEF ActorsInv

\* A DPU actor takes a registration.
LEMMA DpuRegisterInv ==
    ASSUME ActorsInv, NEW d \in Dpus, NEW v \in VDpus, DpuRegister(d, v)
    PROVE  ActorsInv'
  <1> DEFINE active == Head(net[<<v, d>>])
             answer == IF active /\ life[d] = "live" THEN {<<d, v>>} ELSE {}
  <1>0. TypeOK /\ NetType /\ \A u \in VDpus : main[u] \in Dpus
    BY Zenon DEF ActorsInv, TypeOK, NetType
  <1>1. /\ net[<<v, d>>] # <<>> /\ life[d] # "stopped"
        /\ dpuRegs' = [dpuRegs EXCEPT ![d] = IF active THEN @ \cup {v} ELSE @ \ {v}]
        /\ net' = Sent(Received(net, <<v, d>>), answer, Now(d))
        /\ UNCHANGED <<life, dpuRow, pmon, bfd, vdpuVars, setVars, lost, changes>>
        /\ spawned' = spawned \cup {d}
    BY Zenon DEF DpuRegister, Receives, Now
  <1>2. UNCHANGED <<main, vdpuDpu, vdpuRegs, setConfig, global, setVdpu, setRegs, haSetTable, vnetRoute, scopeView>>
    BY <1>1, Zenon DEF vdpuVars, setVars
  <1>3. \A e \in Dpus : Now(e)' = Now(e)
    BY <1>1, Zenon DEF Now
  <1>4. /\ NetType' /\ active \in BOOLEAN
        /\ \A x : Final(net'[<<v, d>>], active) = Final(net[<<v, d>>], x)
        /\ \A p \in Pairs \ (answer \cup {<<v, d>>}) : net'[p] = net[p]
        /\ \A p \in answer : net'[p] # <<>> /\ \A x : Final(net'[p], x) = Now(d)
    <2>1. answer \in SUBSET (Pairs \ {<<v, d>>}) /\ <<v, d>> \in Pairs /\ Carried(<<v, d>>) = BOOLEAN
      <3>1. <<d, v>> \in Pairs \ {<<v, d>>} /\ <<v, d>> \in Pairs /\ Carried(<<v, d>>) = BOOLEAN
        BY PairsApart, Zenon
      <3> QED
        BY <3>1, Zenon
    <2>2. \A p \in answer : Now(d) \in Carried(p)
      <3>1. life[d] = "live" => dpuRow[d] \in Versions \ {0}
        BY <1>0, Zenon DEF TypeOK
      <3> QED
        BY <3>1, StatesKnown, PairsApart, Zenon DEF Now
    <2> HIDE DEF answer
    <2>3. net' = Sent(Received(net, <<v, d>>), answer, Now(d)) /\ net[<<v, d>>] # <<>> /\ NetType
      BY <1>0, <1>1, Zenon
    <2>4. Answered(<<v, d>>, answer, Now(d))
      BY <2>1, <2>2, <2>3, Zenon DEF Answered
    <2>5. /\ NetType' /\ active \in BOOLEAN
          /\ \A x : Final(net'[<<v, d>>], active) = Final(net[<<v, d>>], x)
      BY <2>1, <2>4, NetAnswered, Zenon
    <2>6. \A p \in Pairs \ (answer \cup {<<v, d>>}) : net'[p] = net[p]
      BY <2>4, NetAnswered, Zenon
    <2>7. \A p \in answer : net'[p] # <<>> /\ \A x : Final(net'[p], x) = Now(d)
      BY <2>4, NetAnswered
    <2> QED
      BY <2>5, <2>6, <2>7, Zenon
  <1>5. /\ dpuRegs' \in [Dpus -> SUBSET VDpus] /\ (v \in dpuRegs'[d]) = active
        /\ \A u \in VDpus, e \in Dpus : <<u, e>> # <<v, d>> => (u \in dpuRegs'[e]) = (u \in dpuRegs[e])
    <2>1. dpuRegs \in [Dpus -> SUBSET VDpus]
      BY <1>0, Zenon DEF TypeOK
    <2> HIDE DEF active
    <2>2. dpuRegs' \in [Dpus -> SUBSET VDpus]
      BY <1>1, <2>1, Zenon
    <2>3. /\ dpuRegs'[d] = IF active THEN dpuRegs[d] \cup {v} ELSE dpuRegs[d] \ {v}
          /\ \A e \in Dpus \ {d} : dpuRegs'[e] = dpuRegs[e]
      BY <1>1, <2>1, Zenon
    <2> QED
      BY <1>4, <2>2, <2>3
  <1> HIDE DEF active
  <1>6. ASSUME NEW u \in VDpus
        PROVE  net'[<<"set", u>>] = net[<<"set", u>>] /\ net'[<<u, "set">>] = net[<<u, "set">>]
    <2>1. /\ <<"set", u>> \in Pairs \ (answer \cup {<<v, d>>})
          /\ <<u, "set">> \in Pairs \ (answer \cup {<<v, d>>})
      BY PairsApart, Zenon
    <2> HIDE DEF answer
    <2> QED
      BY <1>4, <2>1, Zenon
  <1>7. ASSUME NEW u \in VDpus, NEW e \in Dpus, <<u, e>> # <<v, d>>
        PROVE  net'[<<u, e>>] = net[<<u, e>>] /\ net'[<<e, u>>] = net[<<e, u>>]
    <2>1. /\ <<u, e>> \in Pairs \ (answer \cup {<<v, d>>})
          /\ <<e, u>> \in Pairs \ (answer \cup {<<v, d>>})
      BY <1>7, PairsApart, Zenon
    <2> HIDE DEF answer
    <2> QED
      BY <1>4, <2>1, Zenon
  <1>8. ASSUME main[v] = d, life[v] = "live", life[d] = "live", net'[<<v, d>>] = <<>>, <<v, d>> \notin lost
        PROVE  net'[<<d, v>>] # <<>> /\ \A x : Final(net'[<<d, v>>], x) = Now(d)
    <2>1. Final(net[<<v, d>>], v \in dpuRegs[d]) = TRUE
      BY <1>8, Zenon DEF ActorsInv, RegisteredInv, Holds
    <2>2. active = TRUE
      BY <1>4, <1>8, <2>1, Zenon DEF Final
    <2> QED
      BY <1>4, <1>8, <2>2, Zenon
  <1> HIDE DEF answer
  <1>9. TypeOK' /\ CountInv'
    <2>1. spawned' \subseteq Actors
      BY <1>0, <1>1, Zenon DEF TypeOK, Actors
    <2> QED
      BY <1>0, <1>1, <1>2, <1>4, <1>5, <2>1, Zenon DEF ActorsInv, TypeOK, CountInv, NetType
  <1>10. RegisteredInv'
    <2>1. ASSUME NEW u \in VDpus
          PROVE  Final(net'[<<u, main[u]>>], u \in dpuRegs'[main[u]]) = Final(net[<<u, main[u]>>], u \in dpuRegs[main[u]])
      <3>1. CASE <<u, main[u]>> = <<v, d>>
        BY <1>4, <1>5, <3>1, Zenon
      <3>2. CASE <<u, main[u]>> # <<v, d>>
        BY <1>0, <1>5, <1>7, <3>2, Zenon
      <3> QED
        BY <3>1, <3>2, Zenon
    <2> QED
      BY <1>1, <1>2, <1>6, <2>1, Zenon DEF ActorsInv, RegisteredInv, InSet, Holds
  <1>11. DpuStateInv'
    <2> SUFFICES ASSUME NEW u \in VDpus, life[u] = "live", life[main[u]] = "live", net'[<<u, main[u]>>] = <<>>,
                        <<u, main[u]>> \notin lost
                 PROVE  Final(net'[<<main[u], u>>], vdpuDpu[u][main[u]]) = Now(main[u])
      BY <1>0, <1>1, <1>2, <1>3, Zenon DEF DpuStateInv, Now, Asked
    <2>1. CASE <<u, main[u]>> = <<v, d>>
      BY <1>8, <2>1, Zenon
    <2>2. CASE <<u, main[u]>> # <<v, d>>
      BY <1>0, <1>7, <2>2, Zenon DEF ActorsInv, DpuStateInv, Asked
    <2> QED
      BY <2>1, <2>2, Zenon
  <1>12. ASSUME NEW u \in VDpus, life[u] = "live", life[main[u]] = "live", Heard(u)'
         PROVE  Heard(u)
    <2>1. /\ net'[<<u, main[u]>>] = <<>> /\ net'[<<main[u], u>>] = <<>> /\ net'[<<"set", u>>] = <<>>
          /\ <<u, main[u]>> \notin lost /\ <<"set", u>> \notin lost
      BY <1>1, <1>2, <1>12, Zenon DEF Heard, Asked
    <2>2. <<u, main[u]>> # <<v, d>>
      BY <1>8, <1>12, <2>1, Zenon
    <2> QED
      BY <1>0, <1>6, <1>7, <2>1, <2>2, Zenon DEF Heard, Asked
  <1>13. VdpuStateInv'
    BY <1>1, <1>2, <1>6, <1>12, Zenon DEF ActorsInv, VdpuStateInv, InSet
  <1>14. RouteInv'
    <2>1. RouteInv
      BY Zenon DEF ActorsInv
    <2> QED
      BY <1>1, <1>2, <1>6, <1>12, <2>1, RouteKept, Zenon
  <1>15. TableInv'
    BY <1>2, TableKept, Zenon DEF ActorsInv
  <1> QED
    BY <1>9, <1>10, <1>11, <1>13, <1>14, <1>15, Zenon DEF ActorsInv

-----------------------------------------------------------------------------
\* A vDPU actor comes up, changes its main DPU or stops, and registers with its
\* main DPU or withdraws.
VdpuAsked(v, d, on) ==
    /\ life[v] # "stopped" /\ life'[v] = IF on THEN "live" ELSE "stopped"
    /\ \A a \in Actors \ {v} : life'[a] = life[a]
    /\ main'[v] = d /\ \A u \in VDpus \ {v} : main'[u] = main[u]
    /\ net' = Sent(net, {<<v, d>>}, on) /\ lost' = lost \ {<<v, d>>}
    /\ UNCHANGED <<dpuVars, vdpuDpu, vdpuRegs, setVars>>

\* A vDPU actor registers with its DPUs, or takes its registration back.
LEMMA VdpuAsks ==
    ASSUME ActorsInv, NEW v \in VDpus, NEW d \in Dpus, NEW on \in BOOLEAN, VdpuAsked(v, d, on)
    PROVE  NetType' /\ RegisteredInv' /\ DpuStateInv' /\ VdpuStateInv' /\ RouteInv' /\ TableInv'
  <1>1. UNCHANGED <<dpuRow, pmon, bfd, dpuRegs, vdpuDpu, vdpuRegs, setConfig, global, setVdpu, setRegs,
                    haSetTable, vnetRoute, scopeView>>
    BY Zenon DEF VdpuAsked, dpuVars, setVars
  <1>a. /\ life[v] # "stopped" /\ life'[v] = IF on THEN "live" ELSE "stopped"
        /\ \A a \in Actors \ {v} : life'[a] = life[a]
    BY Zenon DEF VdpuAsked
  <1>b. main'[v] = d /\ \A u \in VDpus \ {v} : main'[u] = main[u]
    BY Zenon DEF VdpuAsked
  <1>c. lost' = lost \ {<<v, d>>}
    BY Zenon DEF VdpuAsked
  <1>2. /\ NetType'
        /\ \A p \in Pairs \ {<<v, d>>} : net'[p] = net[p]
        /\ net'[<<v, d>>] # <<>> /\ \A x : Final(net'[<<v, d>>], x) = on
    <2>1. {<<v, d>>} \in SUBSET Pairs /\ Carried(<<v, d>>) = BOOLEAN
      <3>1. <<v, d>> \in Pairs /\ Carried(<<v, d>>) = BOOLEAN
        BY PairsApart, Zenon
      <3> QED
        BY <3>1, Zenon
    <2>2. NetType
      BY Zenon DEF ActorsInv, TypeOK, NetType
    <2>3. \A p \in {<<v, d>>} : on \in Carried(p)
      BY <2>1, Zenon
    <2>4. net' = Sent(net, {<<v, d>>}, on)
      BY Zenon DEF VdpuAsked
    <2> QED
      BY <2>1, <2>2, <2>3, <2>4, NetSent, Zenon
  <1>3. ASSUME NEW u \in VDpus
        PROVE  /\ life'["set"] = life["set"]
               /\ net'[<<"set", u>>] = net[<<"set", u>>] /\ net'[<<u, "set">>] = net[<<u, "set">>]
               /\ life'[u] # "stopped" => life[u] # "stopped"
               /\ <<"set", u>> \in lost' <=> <<"set", u>> \in lost
    <2>1. "set" \in Actors \ {v} /\ u \in Actors /\ <<"set", u>> \in Pairs /\ <<u, "set">> \in Pairs
      BY PairsApart, Zenon
    <2>2. <<"set", u>> # <<v, d>> /\ <<u, "set">> # <<v, d>>
      BY PairsApart, Zenon
    <2> QED
      BY <1>2, <1>a, <1>c, <2>1, <2>2, Zenon
  <1>4. ASSUME NEW u \in VDpus, u # v
        PROVE  /\ main'[u] = main[u] /\ life'[u] = life[u] /\ life'[main[u]] = life[main[u]]
               /\ net'[<<u, main[u]>>] = net[<<u, main[u]>>] /\ net'[<<main[u], u>>] = net[<<main[u], u>>]
               /\ Now(main[u])' = Now(main[u])
               /\ <<u, main[u]>> \in lost' <=> <<u, main[u]>> \in lost
    <2>1. main[u] \in Dpus
      BY Zenon DEF ActorsInv, TypeOK
    <2>2. /\ u \in Actors \ {v} /\ main[u] \in Actors \ {v}
          /\ <<u, main[u]>> \in Pairs \ {<<v, d>>} /\ <<main[u], u>> \in Pairs \ {<<v, d>>}
      BY <1>4, <2>1, PairsApart, Zenon
    <2>3. Now(main[u])' = Now(main[u])
      BY <1>1, <1>4, <1>b, Zenon DEF Now
    <2> QED
      BY <1>2, <1>4, <1>a, <1>b, <1>c, <2>2, <2>3, Zenon
  <1>5. RegisteredInv'
    <2>1. ASSUME NEW u \in VDpus, life'[u] # "absent", life'[main'[u]] # "stopped"
          PROVE  Final(net'[<<u, main'[u]>>], u \in dpuRegs[main'[u]]) = Holds(u, <<u, main[u]>>)'
      <3>1. CASE u = v
        <4>1. Holds(v, <<v, main[v]>>)' = on
          BY <1>a, <1>b, <1>c, Zenon DEF Holds
        <4> QED
          BY <1>2, <1>b, <3>1, <4>1, Zenon
      <3>2. CASE u # v
        <4>1. /\ main'[u] = main[u] /\ life'[u] = life[u] /\ life'[main[u]] = life[main[u]]
              /\ net'[<<u, main[u]>>] = net[<<u, main[u]>>]
              /\ <<u, main[u]>> \in lost' <=> <<u, main[u]>> \in lost
          BY <1>4, <3>2, Zenon
        <4>2. Final(net[<<u, main[u]>>], u \in dpuRegs[main[u]]) = Holds(u, <<u, main[u]>>)
          BY <2>1, <4>1, Zenon DEF ActorsInv, RegisteredInv
        <4> QED
          BY <4>1, <4>2, Zenon DEF Holds
      <3> QED
        BY <3>1, <3>2, Zenon
    <2>2. ASSUME NEW u \in VDpus, InSet(u), life'["set"] # "absent", life'[u] # "stopped"
          PROVE  Final(net'[<<"set", u>>], vdpuRegs[u]) = Holds("set", <<"set", u>>)'
      BY <1>3, <2>2, Zenon DEF ActorsInv, RegisteredInv, Holds
    <2> QED
      BY <1>1, <2>1, <2>2, Zenon DEF RegisteredInv, InSet
  <1>6. DpuStateInv'
    <2> SUFFICES ASSUME NEW u \in VDpus, life'[u] = "live", life'[main'[u]] = "live", net'[<<u, main'[u]>>] = <<>>,
                        <<u, main'[u]>> \notin lost'
                 PROVE  Final(net'[<<main'[u], u>>], vdpuDpu[u][main'[u]]) = Now(main[u])'
      BY <1>1, Zenon DEF DpuStateInv, Asked
    <2>1. u # v
      BY <1>2, <1>b, Zenon
    <2>2. /\ main'[u] = main[u] /\ life'[u] = life[u] /\ life'[main[u]] = life[main[u]]
          /\ net'[<<u, main[u]>>] = net[<<u, main[u]>>] /\ net'[<<main[u], u>>] = net[<<main[u], u>>]
          /\ Now(main[u])' = Now(main[u])
          /\ <<u, main[u]>> \in lost' <=> <<u, main[u]>> \in lost
      BY <1>4, <2>1, Zenon
    <2>3. Final(net[<<main[u], u>>], vdpuDpu[u][main[u]]) = Now(main[u])
      BY <2>2, Zenon DEF ActorsInv, DpuStateInv, Asked
    <2> QED
      BY <2>2, <2>3, Zenon
  <1>7. ASSUME NEW u \in VDpus, life'[u] = "live", life'[main'[u]] = "live", Heard(u)'
        PROVE  u # v /\ main'[u] = main[u] /\ life[u] = "live" /\ life[main[u]] = "live" /\ Heard(u)
    <2>1. /\ net'[<<u, main'[u]>>] = <<>> /\ net'[<<main'[u], u>>] = <<>> /\ net'[<<"set", u>>] = <<>>
          /\ <<u, main'[u]>> \notin lost' /\ <<"set", u>> \notin lost'
      BY <1>7, Zenon DEF Heard, Asked
    <2>2. u # v
      BY <1>2, <1>b, <2>1, Zenon
    <2> QED
      BY <1>3, <1>4, <1>7, <2>1, <2>2, Zenon DEF Heard, Asked
  <1>8. VdpuStateInv'
    <2>1. VdpuStateInv /\ UNCHANGED <<vdpuDpu, setConfig, setVdpu>>
      BY <1>1, Zenon DEF ActorsInv
    <2>2. ASSUME NEW u \in VDpus, InSet(u), life'["set"] = "live", life'[u] = "live", life'[main'[u]] = "live",
                 Heard(u)'
          PROVE  Final(net'[<<u, "set">>], setVdpu[u]) = vdpuDpu[u][main'[u]]
      <3>1. main'[u] = main[u] /\ life[u] = "live" /\ life[main[u]] = "live" /\ Heard(u)
        BY <1>7, <2>2, Zenon
      <3>2. life["set"] = "live" /\ net'[<<u, "set">>] = net[<<u, "set">>]
        BY <1>3, <2>2, Zenon
      <3> QED
        BY <2>1, <2>2, <3>1, <3>2, Zenon DEF VdpuStateInv
    <2> QED
      BY <2>1, <2>2, Zenon DEF VdpuStateInv, InSet
  <1>9. RouteInv'
    <2>1. RouteInv /\ life'["set"] = life["set"]
      BY <1>3, Zenon DEF ActorsInv
    <2> QED
      BY <1>1, <1>3, <1>7, <2>1, RouteKept, Zenon
  <1>10. TableInv'
    BY <1>1, TableKept, Zenon DEF ActorsInv
  <1> QED
    BY <1>2, <1>5, <1>6, <1>8, <1>9, <1>10, Zenon

\* The row of a vDPU comes.
LEMMA VdpuConfigInv ==
    ASSUME ActorsInv, NEW v \in VDpus, NEW d \in Mains[v], VdpuConfig(v, d)
    PROVE  ActorsInv'
  <1>0. TypeOK /\ d \in Dpus /\ v \in Actors /\ v \notin Dpus /\ v # "set" /\ "set" \in Actors /\ Dpus \subseteq Actors
    BY HaActorsAssumption, Zenon DEF ActorsInv, Actors
  <1>1. /\ life[v] # "stopped" /\ life' = [life EXCEPT ![v] = "live"] /\ main' = [main EXCEPT ![v] = d]
        /\ net' = Sent(net, {<<v, d>>}, TRUE) /\ UNCHANGED <<dpuVars, vdpuDpu, vdpuRegs, setVars>>
        /\ lost' = lost \ {<<v, d>>} /\ spawned' = spawned \cup {v}
    BY Zenon DEF VdpuConfig, Registers
  <1>2. changes' \in 0..MaxChanges /\ changes <= changes'
    BY <1>0, HaActorsAssumption DEF VdpuConfig, Change, TypeOK
  <1>3. /\ life' \in [Actors -> {"absent", "live", "stopped"}] /\ life'[v] = "live"
        /\ \A a \in Actors \ {v} : life'[a] = life[a]
        /\ main' \in [VDpus -> Dpus] /\ main'[v] = d /\ \A u \in VDpus \ {v} : main'[u] = main[u]
    BY <1>0, <1>1, Zenon DEF TypeOK
  <1>4. life'[v] = IF TRUE THEN "live" ELSE "stopped"
    BY <1>3, Zenon
  <1>5. NetType' /\ RegisteredInv' /\ DpuStateInv' /\ VdpuStateInv' /\ RouteInv' /\ TableInv'
    <2>1. VdpuAsked(v, d, TRUE)
      BY <1>1, <1>3, <1>4, Zenon DEF VdpuAsked
    <2> QED
      BY <1>0, <2>1, VdpuAsks, Zenon
  <1>6. TypeOK'
    <2>1. spawned' \subseteq Actors /\ lost' \subseteq Pairs
      BY <1>0, <1>1, Zenon DEF TypeOK
    <2> QED
      BY <1>0, <1>1, <1>2, <1>3, <1>5, <2>1, Zenon DEF TypeOK, NetType, dpuVars, setVars
  <1>7. CountInv'
    BY <1>1, <1>2, Counted, Zenon DEF CountInv, dpuVars, setVars
  <1> QED
    BY <1>5, <1>6, <1>7, Zenon DEF ActorsInv

\* The row of a vDPU is deleted.
LEMMA VdpuDeleteInv ==
    ASSUME ActorsInv, NEW v \in VDpus, VdpuDelete(v)
    PROVE  ActorsInv'
  <1>0. /\ TypeOK /\ v \in Actors /\ v \notin Dpus /\ v # "set" /\ "set" \in Actors /\ Dpus \subseteq Actors
        /\ main[v] \in Dpus
    BY HaActorsAssumption, Zenon DEF ActorsInv, TypeOK, Actors
  <1>1. /\ life[v] = "live" /\ life' = [life EXCEPT ![v] = "stopped"]
        /\ net' = Sent(net, {<<v, main[v]>>}, FALSE) /\ UNCHANGED <<dpuVars, vdpuVars, setVars>>
        /\ lost' = lost \ {<<v, main[v]>>} /\ spawned' = spawned
    BY Zenon DEF VdpuDelete, Registers
  <1>2. changes' \in 0..MaxChanges /\ changes <= changes'
    BY <1>0, HaActorsAssumption DEF VdpuDelete, Change, TypeOK
  <1>3. /\ life' \in [Actors -> {"absent", "live", "stopped"}] /\ life'[v] = "stopped"
        /\ \A a \in Actors \ {v} : life'[a] = life[a]
        /\ main' = main /\ UNCHANGED <<vdpuDpu, vdpuRegs>>
    BY <1>0, <1>1, Zenon DEF TypeOK, vdpuVars
  <1>4. life'[v] = IF FALSE THEN "live" ELSE "stopped"
    BY <1>3, Zenon
  <1>5. NetType' /\ RegisteredInv' /\ DpuStateInv' /\ VdpuStateInv' /\ RouteInv' /\ TableInv'
    <2>1. VdpuAsked(v, main[v], FALSE)
      BY <1>1, <1>3, <1>4, Zenon DEF VdpuAsked
    <2> QED
      BY <1>0, <2>1, VdpuAsks, Zenon
  <1>6. TypeOK'
    <2>1. spawned' \subseteq Actors /\ lost' \subseteq Pairs
      BY <1>0, <1>1, Zenon DEF TypeOK
    <2> QED
      BY <1>0, <1>1, <1>2, <1>3, <1>5, <2>1, Zenon DEF TypeOK, NetType, dpuVars, setVars
  <1>7. CountInv'
    BY <1>1, <1>2, Counted, Zenon DEF CountInv, dpuVars, setVars
  <1> QED
    BY <1>5, <1>6, <1>7, Zenon DEF ActorsInv

\* A vDPU actor hears the state of a DPU and passes its own on.
LEMMA VdpuDpuUpdateInv ==
    ASSUME ActorsInv, NEW v \in VDpus, NEW d \in Dpus, VdpuDpuUpdate(v, d)
    PROVE  ActorsInv'
  <1> DEFINE state == vdpuDpu'[v][main[v]]
             tell == life[v] = "live" /\ state # Unknown /\ vdpuRegs[v]
             answer == IF tell THEN {<<v, "set">>} ELSE {}
  <1>0. TypeOK /\ NetType /\ \A u \in VDpus : main[u] \in Dpus
    BY Zenon DEF ActorsInv, TypeOK, NetType
  <1>1. /\ net[<<d, v>>] # <<>> /\ life[v] # "stopped"
        /\ vdpuDpu' = [vdpuDpu EXCEPT ![v][d] = Head(net[<<d, v>>])]
        /\ net' = Sent(Received(net, <<d, v>>), answer, state)
        /\ UNCHANGED <<life, dpuVars, main, vdpuRegs, setVars, lost, changes>>
        /\ spawned' = spawned \cup {v}
    BY Zenon DEF VdpuDpuUpdate, Receives
  <1>2. UNCHANGED <<dpuRow, pmon, bfd, dpuRegs, setConfig, global, setVdpu, setRegs, haSetTable, vnetRoute, scopeView>>
    BY <1>1, Zenon DEF dpuVars, setVars
  <1>3. <<d, v>> \in Pairs /\ Carried(<<d, v>>) = DpuState /\ net[<<d, v>>] \in Seq(DpuState)
    BY <1>0, PairsApart, Zenon DEF NetType
  <1>4. Head(net[<<d, v>>]) \in DpuState
    BY <1>1, <1>3, FinalTail, Zenon
  <1>5. /\ vdpuDpu' \in [VDpus -> [Dpus -> DpuState \cup {Unknown}]] /\ vdpuDpu'[v][d] = Head(net[<<d, v>>])
        /\ \A u \in VDpus, e \in Dpus : <<u, e>> # <<v, d>> => vdpuDpu'[u][e] = vdpuDpu[u][e]
    <2>1. vdpuDpu \in [VDpus -> [Dpus -> DpuState \cup {Unknown}]]
      BY <1>0, Zenon DEF TypeOK
    <2> QED
      BY <1>1, <1>4, <2>1, Zenon
  <1>6. /\ NetType'
        /\ \A x : Final(net'[<<d, v>>], Head(net[<<d, v>>])) = Final(net[<<d, v>>], x)
        /\ \A p \in Pairs \ (answer \cup {<<d, v>>}) : net'[p] = net[p]
        /\ \A p \in answer : net'[p] # <<>> /\ \A x : Final(net'[p], x) = state
    <2>1. answer \in SUBSET (Pairs \ {<<d, v>>})
      <3>1. <<v, "set">> \in Pairs \ {<<d, v>>}
        BY PairsApart, Zenon
      <3> QED
        BY <3>1, Zenon
    <2>2. \A p \in answer : state \in Carried(p)
      <3>1. Carried(<<v, "set">>) = DpuState
        BY PairsApart, Zenon
      <3>2. state \in DpuState \cup {Unknown}
        <4>1. vdpuDpu' \in [VDpus -> [Dpus -> DpuState \cup {Unknown}]] /\ main[v] \in Dpus
          BY <1>0, <1>5, Zenon
        <4> QED
          BY <4>1, Zenon
      <3> QED
        BY <3>1, <3>2, Zenon
    <2> HIDE DEF answer, state
    <2>3. Answered(<<d, v>>, answer, state)
      BY <1>0, <1>1, <1>3, <2>1, <2>2, Zenon DEF Answered
    <2>4. /\ NetType'
          /\ \A x : Final(net'[<<d, v>>], Head(net[<<d, v>>])) = Final(net[<<d, v>>], x)
      BY <2>3, NetAnswered, Zenon
    <2>5. \A p \in Pairs \ (answer \cup {<<d, v>>}) : net'[p] = net[p]
      BY <2>3, NetAnswered, Zenon
    <2>6. \A p \in answer : net'[p] # <<>> /\ \A x : Final(net'[p], x) = state
      BY <2>3, NetAnswered
    <2> QED
      BY <2>4, <2>5, <2>6, Zenon
  <1>7. ASSUME NEW u \in VDpus
        PROVE  net'[<<u, main[u]>>] = net[<<u, main[u]>>] /\ net'[<<"set", u>>] = net[<<"set", u>>]
    <2>1. /\ <<u, main[u]>> \in Pairs \ (answer \cup {<<d, v>>})
          /\ <<"set", u>> \in Pairs \ (answer \cup {<<d, v>>})
      BY <1>0, PairsApart, Zenon
    <2> HIDE DEF answer
    <2> QED
      BY <1>6, <2>1, Zenon
  <1>8. ASSUME NEW u \in VDpus, NEW e \in Dpus, <<u, e>> # <<v, d>>
        PROVE  net'[<<e, u>>] = net[<<e, u>>]
    <2>1. <<e, u>> \in Pairs \ (answer \cup {<<d, v>>})
      BY <1>8, PairsApart, Zenon
    <2> HIDE DEF answer
    <2> QED
      BY <1>6, <2>1, Zenon
  <1>9. ASSUME NEW u \in VDpus, u # v \/ ~tell
        PROVE  net'[<<u, "set">>] = net[<<u, "set">>]
    <2>1. <<u, "set">> \in Pairs \ (answer \cup {<<d, v>>})
      BY <1>9, PairsApart, Zenon
    <2> HIDE DEF answer
    <2> QED
      BY <1>6, <2>1, Zenon
  <1>10. tell => net'[<<v, "set">>] # <<>> /\ \A x : Final(net'[<<v, "set">>], x) = state
    BY <1>6, Zenon
  <1> HIDE DEF answer
  <1>11. TypeOK' /\ CountInv'
    <2>1. spawned' \subseteq Actors
      BY <1>0, <1>1, Zenon DEF TypeOK, Actors
    <2> QED
      BY <1>0, <1>1, <1>2, <1>5, <1>6, <2>1, Zenon DEF ActorsInv, TypeOK, CountInv, NetType
  <1>12. RegisteredInv'
    <2>1. RegisteredInv /\ UNCHANGED <<life, main, vdpuRegs, setConfig, dpuRegs, lost>>
      BY <1>1, <1>2, Zenon DEF ActorsInv
    <2> QED
      BY <1>7, <2>1, Zenon DEF RegisteredInv, InSet, Holds
  <1>13. DpuStateInv'
    <2> SUFFICES ASSUME NEW u \in VDpus, life[u] = "live", life[main[u]] = "live", net'[<<u, main[u]>>] = <<>>,
                        <<u, main[u]>> \notin lost
                 PROVE  Final(net'[<<main[u], u>>], vdpuDpu'[u][main[u]]) = Now(main[u])
      BY <1>1, <1>2, Zenon DEF DpuStateInv, Now, Asked
    <2>1. Final(net[<<main[u], u>>], vdpuDpu[u][main[u]]) = Now(main[u])
      BY <1>7, Zenon DEF ActorsInv, DpuStateInv, Asked
    <2>2. CASE <<u, main[u]>> = <<v, d>>
      BY <1>5, <1>6, <2>1, <2>2, Zenon
    <2>3. CASE <<u, main[u]>> # <<v, d>>
      BY <1>0, <1>5, <1>8, <2>1, <2>3, Zenon
    <2> QED
      BY <2>2, <2>3, Zenon
  <1>14. ASSUME InSet(v), life["set"] = "live", life[v] = "live", main[v] = d, Heard(v)'
         PROVE  tell
    <2>1. vdpuRegs[v]
      BY <1>1, <1>7, <1>14, Registered, Zenon DEF Heard
    <2> QED
      BY <1>4, <1>5, <1>14, <2>1, StatesKnown, Zenon
  <1>15. ASSUME NEW u \in VDpus, Heard(u)', <<u, main[u]>> # <<v, d>>
         PROVE  Heard(u)
    BY <1>0, <1>1, <1>7, <1>8, <1>15 DEF Heard, Asked
  <1> HIDE DEF tell
  <1>16. VdpuStateInv'
    <2> SUFFICES ASSUME NEW u \in VDpus, InSet(u), life["set"] = "live", life[u] = "live", life[main[u]] = "live",
                        Heard(u)'
                 PROVE  Final(net'[<<u, "set">>], setVdpu[u]) = vdpuDpu'[u][main[u]]
      BY <1>1, <1>2, Zenon DEF VdpuStateInv, InSet
    <2>1. CASE u = v /\ tell
      BY <1>10, <2>1, Zenon
    <2>2. CASE u # v \/ ~tell
      <3>1. <<u, main[u]>> # <<v, d>>
        BY <1>14, <2>2, Zenon
      <3>2. Final(net[<<u, "set">>], setVdpu[u]) = vdpuDpu[u][main[u]]
        BY <1>15, <3>1, Zenon DEF ActorsInv, VdpuStateInv
      <3> QED
        BY <1>0, <1>5, <1>9, <2>2, <3>1, <3>2, Zenon
    <2> QED
      BY <2>1, <2>2, Zenon
  <1>17. RouteInv'
    <2>1. ASSUME NEW u \in VDpus, InSet(u), life'["set"] = "live", life'[u] = "live", life'[main'[u]] = "live",
                 Heard(u)', net'[<<u, "set">>] = <<>>
          PROVE  life[u] = "live" /\ life[main[u]] = "live" /\ Heard(u) /\ net[<<u, "set">>] = <<>>
      <3>1. u # v \/ ~tell
        BY <1>10, <2>1, Zenon
      <3>2. <<u, main[u]>> # <<v, d>>
        BY <1>1, <1>14, <2>1, <3>1, Zenon
      <3> QED
        BY <1>1, <1>9, <1>15, <2>1, <3>1, <3>2, Zenon
    <2>2. RouteInv
      BY Zenon DEF ActorsInv
    <2> QED
      BY <1>1, <1>2, <2>1, <2>2, RouteKept, Zenon
  <1>18. TableInv'
    BY <1>2, TableKept, Zenon DEF ActorsInv
  <1> QED
    BY <1>11, <1>12, <1>13, <1>16, <1>17, <1>18, Zenon DEF ActorsInv

\* A vDPU actor takes a registration of the HA set.
LEMMA VdpuRegisterInv ==
    ASSUME ActorsInv, NEW v \in VDpus, VdpuRegister(v)
    PROVE  ActorsInv'
  <1> DEFINE state == vdpuDpu[v][main[v]]
             tell == life[v] = "live" /\ state # Unknown /\ vdpuRegs'[v]
             answer == IF tell THEN {<<v, "set">>} ELSE {}
  <1>0. TypeOK /\ NetType /\ \A u \in VDpus : main[u] \in Dpus
    BY Zenon DEF ActorsInv, TypeOK, NetType
  <1>1. /\ net[<<"set", v>>] # <<>> /\ life[v] # "stopped"
        /\ vdpuRegs' = [vdpuRegs EXCEPT ![v] = Head(net[<<"set", v>>])]
        /\ net' = Sent(Received(net, <<"set", v>>), answer, state)
        /\ UNCHANGED <<life, dpuVars, main, vdpuDpu, setVars, lost, changes>>
        /\ spawned' = spawned \cup {v}
    BY Zenon DEF VdpuRegister, Receives
  <1>2. UNCHANGED <<dpuRow, pmon, bfd, dpuRegs, setConfig, global, setVdpu, setRegs, haSetTable, vnetRoute, scopeView>>
    BY <1>1, Zenon DEF dpuVars, setVars
  <1>3. <<"set", v>> \in Pairs /\ Carried(<<"set", v>>) = BOOLEAN /\ net[<<"set", v>>] \in Seq(BOOLEAN)
    <2>1. <<"set", v>> \in Pairs /\ Carried(<<"set", v>>) = BOOLEAN
      BY <1>0, PairsApart, Zenon
    <2> QED
      BY <1>0, <2>1, Zenon DEF NetType
  <1>4. Head(net[<<"set", v>>]) \in BOOLEAN
    BY <1>1, <1>3, FinalTail, Zenon
  <1>5. /\ vdpuRegs' \in [VDpus -> BOOLEAN] /\ vdpuRegs'[v] = Head(net[<<"set", v>>])
        /\ \A u \in VDpus : u # v => vdpuRegs'[u] = vdpuRegs[u]
    <2>1. vdpuRegs \in [VDpus -> BOOLEAN]
      BY <1>0, Zenon DEF TypeOK
    <2> QED
      BY <1>1, <1>4, <2>1, Zenon
  <1>6. /\ NetType'
        /\ \A x : Final(net'[<<"set", v>>], Head(net[<<"set", v>>])) = Final(net[<<"set", v>>], x)
        /\ \A p \in Pairs \ (answer \cup {<<"set", v>>}) : net'[p] = net[p]
        /\ \A p \in answer : net'[p] # <<>> /\ \A x : Final(net'[p], x) = state
    <2>1. answer \in SUBSET (Pairs \ {<<"set", v>>})
      <3>1. <<v, "set">> \in Pairs \ {<<"set", v>>}
        BY <1>0, PairsApart, Zenon
      <3> QED
        BY <3>1, Zenon
    <2>2. \A p \in answer : state \in Carried(p)
      <3>1. Carried(<<v, "set">>) = DpuState
        BY <1>0, PairsApart, Zenon
      <3>2. state \in DpuState \cup {Unknown}
        BY <1>0 DEF TypeOK
      <3> QED
        BY <3>1, <3>2, Zenon
    <2> HIDE DEF answer, state
    <2>3. Answered(<<"set", v>>, answer, state)
      BY <1>0, <1>1, <1>3, <2>1, <2>2, Zenon DEF Answered
    <2>4. /\ NetType'
          /\ \A x : Final(net'[<<"set", v>>], Head(net[<<"set", v>>])) = Final(net[<<"set", v>>], x)
      BY <2>3, NetAnswered, Zenon
    <2>5. \A p \in Pairs \ (answer \cup {<<"set", v>>}) : net'[p] = net[p]
      BY <2>3, NetAnswered, Zenon
    <2>6. \A p \in answer : net'[p] # <<>> /\ \A x : Final(net'[p], x) = state
      BY <2>3, NetAnswered
    <2> QED
      BY <2>4, <2>5, <2>6, Zenon
  <1>7. ASSUME NEW u \in VDpus
        PROVE  net'[<<u, main[u]>>] = net[<<u, main[u]>>] /\ net'[<<main[u], u>>] = net[<<main[u], u>>]
    <2>1. /\ <<u, main[u]>> \in Pairs \ (answer \cup {<<"set", v>>})
          /\ <<main[u], u>> \in Pairs \ (answer \cup {<<"set", v>>})
      BY <1>0, PairsApart, Zenon
    <2> HIDE DEF answer
    <2> QED
      BY <1>6, <2>1, Zenon
  <1>8. ASSUME NEW u \in VDpus, u # v
        PROVE  net'[<<"set", u>>] = net[<<"set", u>>] /\ net'[<<u, "set">>] = net[<<u, "set">>]
    <2>1. /\ <<"set", u>> \in Pairs \ (answer \cup {<<"set", v>>})
          /\ <<u, "set">> \in Pairs \ (answer \cup {<<"set", v>>})
      BY <1>0, <1>8, PairsApart, Zenon
    <2> HIDE DEF answer
    <2> QED
      BY <1>6, <2>1, Zenon
  <1>9. tell => net'[<<v, "set">>] # <<>> /\ \A x : Final(net'[<<v, "set">>], x) = state
    BY <1>6, Zenon
  <1> HIDE DEF answer
  <1>10. TypeOK' /\ CountInv'
    <2>1. spawned' \subseteq Actors
      BY <1>0, <1>1, Zenon DEF TypeOK, Actors
    <2> QED
      BY <1>0, <1>1, <1>2, <1>5, <1>6, <2>1, Zenon DEF ActorsInv, TypeOK, CountInv, NetType
  <1>11. RegisteredInv'
    <2>1. RegisteredInv /\ UNCHANGED <<life, main, setConfig, dpuRegs, lost>>
      BY <1>1, <1>2, Zenon DEF ActorsInv
    <2>2. ASSUME NEW u \in VDpus
          PROVE  Final(net'[<<"set", u>>], vdpuRegs'[u]) = Final(net[<<"set", u>>], vdpuRegs[u])
      <3>1. CASE u = v
        BY <1>5, <1>6, <3>1, Zenon
      <3>2. CASE u # v
        BY <1>5, <1>8, <3>2, Zenon
      <3> QED
        BY <3>1, <3>2, Zenon
    <2> QED
      BY <1>7, <2>1, <2>2, Zenon DEF RegisteredInv, InSet, Holds
  <1>12. DpuStateInv'
    <2>1. \A u \in VDpus : Now(main[u])' = Now(main[u])
      BY <1>1, <1>2, Zenon DEF Now
    <2>2. DpuStateInv /\ UNCHANGED <<life, main, vdpuDpu, lost>>
      BY <1>1, Zenon DEF ActorsInv
    <2> QED
      BY <1>7, <2>1, <2>2, Zenon DEF DpuStateInv, Asked
  <1>13. ASSUME InSet(v), life["set"] = "live", life[v] = "live", life[main[v]] = "live", Heard(v)'
         PROVE  tell
    <2>1. /\ net'[<<v, main[v]>>] = <<>> /\ net'[<<main[v], v>>] = <<>> /\ net'[<<"set", v>>] = <<>>
          /\ <<v, main[v]>> \notin lost /\ <<"set", v>> \notin lost
      BY <1>1, <1>13, Zenon DEF Heard, Asked
    <2>2. vdpuRegs'[v]
      <3>1. Final(net[<<"set", v>>], vdpuRegs[v]) = TRUE
        BY <1>13, <2>1, Zenon DEF ActorsInv, RegisteredInv, Holds
      <3> QED
        BY <1>5, <1>6, <2>1, <3>1, Zenon DEF Final
    <2>3. state = Now(main[v])
      BY <1>7, <1>13, <2>1, Zenon DEF ActorsInv, DpuStateInv, Final, Asked
    <2>4. Now(main[v]) # Unknown
      <3>1. main[v] \in Dpus /\ dpuRow[main[v]] \in Versions \ {0}
        BY <1>0, <1>13, Zenon DEF TypeOK
      <3> QED
        BY <3>1, StatesKnown, Zenon DEF Now
    <2> QED
      BY <1>13, <2>2, <2>3, <2>4, Zenon
  <1>14. ASSUME NEW u \in VDpus, Heard(u)', u # v
         PROVE  Heard(u)
    BY <1>0, <1>1, <1>7, <1>8, <1>14, Zenon DEF Heard, Asked
  <1> HIDE DEF tell
  <1>15. VdpuStateInv'
    <2> SUFFICES ASSUME NEW u \in VDpus, InSet(u), life["set"] = "live", life[u] = "live", life[main[u]] = "live",
                        Heard(u)'
                 PROVE  Final(net'[<<u, "set">>], setVdpu[u]) = vdpuDpu[u][main[u]]
      BY <1>1, <1>2, Zenon DEF VdpuStateInv, InSet
    <2>1. CASE u = v
      BY <1>9, <1>13, <2>1, Zenon
    <2>2. CASE u # v
      BY <1>8, <1>14, <2>2, Zenon DEF ActorsInv, VdpuStateInv
    <2> QED
      BY <2>1, <2>2, Zenon
  <1>16. RouteInv'
    <2>1. ASSUME NEW u \in VDpus, InSet(u), life'["set"] = "live", life'[u] = "live", life'[main'[u]] = "live",
                 Heard(u)', net'[<<u, "set">>] = <<>>
          PROVE  life[u] = "live" /\ life[main[u]] = "live" /\ Heard(u) /\ net[<<u, "set">>] = <<>>
      <3>1. u # v
        BY <1>1, <1>9, <1>13, <2>1, Zenon
      <3> QED
        BY <1>1, <1>8, <1>14, <2>1, <3>1, Zenon
    <2>2. RouteInv
      BY Zenon DEF ActorsInv
    <2> QED
      BY <1>1, <1>2, <2>1, <2>2, RouteKept, Zenon
  <1>17. TableInv'
    BY <1>2, TableKept, Zenon DEF ActorsInv
  <1> QED
    BY <1>10, <1>11, <1>12, <1>15, <1>16, <1>17, Zenon DEF ActorsInv

-----------------------------------------------------------------------------
\* The HA set actor registers with its vDPUs or withdraws.
SetAsked(ids, on) ==
    /\ life'["set"] = IF on THEN "live" ELSE "stopped"
    /\ \A a \in Actors \ {"set"} : life'[a] = life[a]
    /\ setConfig'.ids = ids
    /\ net' = Sent(net, {<<"set", ids[i]>> : i \in DOMAIN ids}, on)
    /\ lost' = lost \ {<<"set", ids[i]>> : i \in DOMAIN ids}
    /\ UNCHANGED <<dpuVars, vdpuVars>>

\* The HA set registers with its vDPUs, or takes its registration back.
LEMMA SetAsks ==
    ASSUME ActorsInv, NEW ids \in SetIds, NEW on \in BOOLEAN, SetAsked(ids, on)
    PROVE  /\ NetType' /\ RegisteredInv' /\ DpuStateInv' /\ lost' \subseteq Pairs
           /\ \A v \in VDpus : InSet(v)' => ~Heard(v)'
  <1> DEFINE pairs == {<<"set", ids[i]>> : i \in DOMAIN ids}
  <1>0. UNCHANGED <<dpuRow, pmon, bfd, dpuRegs, main, vdpuDpu, vdpuRegs>>
    BY Zenon DEF SetAsked, dpuVars, vdpuVars
  <1>a. /\ life'["set"] = IF on THEN "live" ELSE "stopped"
        /\ \A a \in Actors \ {"set"} : life'[a] = life[a]
    BY Zenon DEF SetAsked
  <1>1. \A i \in DOMAIN ids : ids[i] \in VDpus
    <2>1. ids \in Seq(VDpus)
      BY HaActorsAssumption, Zenon
    <2> QED
      BY <2>1, SeqRange, Zenon
  <1>2. pairs \in SUBSET Pairs /\ \A p \in pairs : on \in Carried(p)
    <2>1. \A v \in VDpus : <<"set", v>> \in Pairs /\ Carried(<<"set", v>>) = BOOLEAN
      BY SetPairs, Zenon
    <2> QED
      BY <1>1, <2>1
  <1>3. \A v \in VDpus : InSet(v)' => <<"set", v>> \in pairs
    BY Zenon DEF InSet, SetAsked
  <1>l. lost' = lost \ pairs /\ lost' \subseteq Pairs
    BY Zenon DEF SetAsked, ActorsInv, TypeOK
  <1>4. \A p \in pairs : p[1] = "set"
    OBVIOUS
  <1>5. /\ NetType'
        /\ \A p \in Pairs \ pairs : net'[p] = net[p]
        /\ \A p \in pairs : net'[p] # <<>> /\ \A x : Final(net'[p], x) = on
    <2>1. NetType
      BY Zenon DEF ActorsInv, TypeOK, NetType
    <2> HIDE DEF pairs
    <2>2. net' = Sent(net, pairs, on)
      BY Zenon DEF pairs, SetAsked
    <2> QED
      BY <1>2, <2>1, <2>2, NetSent, Zenon
  <1> HIDE DEF pairs
  <1>6. ASSUME NEW v \in VDpus
        PROVE  /\ net'[<<v, main[v]>>] = net[<<v, main[v]>>] /\ net'[<<main[v], v>>] = net[<<main[v], v>>]
               /\ life'[v] = life[v] /\ life'[main[v]] = life[main[v]]
               /\ Now(main[v])' = Now(main[v])
               /\ <<v, main[v]>> \in lost' <=> <<v, main[v]>> \in lost
    <2>1. main[v] \in Dpus
      BY Zenon DEF ActorsInv, TypeOK
    <2>2. /\ <<v, main[v]>> \in Pairs /\ <<main[v], v>> \in Pairs /\ v # "set" /\ main[v] # "set"
          /\ v \in Actors /\ main[v] \in Actors
      BY <2>1, PairsApart, Zenon
    <2>3. <<v, main[v]>> \notin pairs /\ <<main[v], v>> \notin pairs
      BY <1>4, <2>2, Zenon
    <2>4. Now(main[v])' = Now(main[v])
      BY <1>0, Zenon DEF Now
    <2> QED
      BY <1>5, <1>a, <1>l, <2>2, <2>3, <2>4, Zenon
  <1>7. RegisteredInv'
    <2>1. ASSUME NEW v \in VDpus, life'[v] # "absent", life'[main[v]] # "stopped"
          PROVE  Final(net'[<<v, main[v]>>], v \in dpuRegs[main[v]]) = Holds(v, <<v, main[v]>>)'
      <3>1. /\ net'[<<v, main[v]>>] = net[<<v, main[v]>>] /\ life'[v] = life[v]
            /\ life'[main[v]] = life[main[v]] /\ main'[v] = main[v]
            /\ <<v, main[v]>> \in lost' <=> <<v, main[v]>> \in lost
        BY <1>0, <1>6, Zenon
      <3>2. Final(net[<<v, main[v]>>], v \in dpuRegs[main[v]]) = Holds(v, <<v, main[v]>>)
        BY <2>1, <3>1, Zenon DEF ActorsInv, RegisteredInv
      <3> QED
        BY <3>1, <3>2, Zenon DEF Holds
    <2>2. ASSUME NEW v \in VDpus, InSet(v)'
          PROVE  Final(net'[<<"set", v>>], vdpuRegs[v]) = Holds("set", <<"set", v>>)'
      <3>1. Final(net'[<<"set", v>>], vdpuRegs[v]) = on /\ <<"set", v>> \notin lost'
        BY <1>3, <1>5, <1>l, <2>2, Zenon
      <3>2. Holds("set", <<"set", v>>)' = on
        BY <1>a, <3>1, Zenon DEF Holds
      <3> QED
        BY <3>1, <3>2, Zenon
    <2> QED
      BY <1>0, <2>1, <2>2, Zenon DEF RegisteredInv
  <1>8. DpuStateInv'
    BY <1>0, <1>6, Zenon DEF ActorsInv, DpuStateInv, Asked
  <1>9. \A v \in VDpus : InSet(v)' => ~Heard(v)'
    BY <1>3, <1>5, Zenon DEF Heard
  <1> QED
    BY <1>5, <1>7, <1>8, <1>9, <1>l, Zenon

\* The HA set is configured or changed.
LEMMA SetConfigureInv ==
    ASSUME ActorsInv, NEW ids \in SetIds, NEW preferred \in Preferred, SetConfigure(ids, preferred)
    PROVE  ActorsInv'
  <1>0. /\ TypeOK /\ setConfig.version \in Nat /\ setConfig.version <= changes + 1
        /\ life["set"] = "absent" => setConfig.version = 0
    <2>1. TypeOK /\ setConfig.version <= changes + 1
      BY Zenon DEF ActorsInv, CountInv
    <2>2. /\ setConfig \in Config => setConfig.version \in Nat
          /\ setConfig = NoConfig => setConfig.version = 0
      BY HaActorsAssumption DEF Config, Versions, NoConfig
    <2> QED
      BY <2>1, <2>2 DEF TypeOK
  <1>1. /\ setConfig.version + 1 \in Versions \ {0} /\ setConfig.version + 1 <= changes' + 1
        /\ changes' \in 0..MaxChanges /\ changes <= changes'
    <2>1. Change(life["set"] = "absent") /\ changes \in 0..MaxChanges
      BY <1>0, Zenon DEF SetConfigure, TypeOK
    <2> QED
      BY <1>0, <2>1, Bumped, Zenon
  <1>2. /\ life' = [life EXCEPT !["set"] = "live"]
        /\ setConfig' = [version |-> setConfig.version + 1, ids |-> ids, preferred |-> preferred]
        /\ net' = Sent(net, {<<"set", ids[i]>> : i \in DOMAIN ids}, TRUE)
        /\ lost' = lost \ {<<"set", ids[i]>> : i \in DOMAIN ids} /\ spawned' = spawned \cup {"set"}
        /\ UNCHANGED <<dpuVars, vdpuVars, global, setVdpu, setRegs, vnetRoute>>
    BY Zenon DEF SetConfigure, Registers
  <1>3. /\ life' \in [Actors -> {"absent", "live", "stopped"}] /\ life'["set"] = "live"
        /\ \A a \in Actors \ {"set"} : life'[a] = life[a]
        /\ \A d \in Dpus : d \in Actors \ {"set"}
    BY <1>0, <1>2, HaActorsAssumption, Zenon DEF TypeOK, Actors
  <1>4. setConfig' \in Config /\ setConfig' # NoConfig /\ setConfig'.ids = ids /\ setConfig'.version = setConfig.version + 1
    BY <1>1, <1>2, Zenon DEF Config, NoConfig
  <1>5. life'["set"] = IF TRUE THEN "live" ELSE "stopped"
    BY <1>3, Zenon
  <1>6. /\ NetType' /\ RegisteredInv' /\ DpuStateInv' /\ lost' \subseteq Pairs
        /\ \A v \in VDpus : InSet(v)' => ~Heard(v)'
    <2>1. SetAsked(ids, TRUE)
      BY <1>2, <1>3, <1>4, <1>5, Zenon DEF SetAsked
    <2> QED
      BY <2>1, SetAsks, Zenon
  <1>7. TypeOK'
    <2>1. spawned' \subseteq Actors
      BY <1>0, <1>2, Zenon DEF TypeOK, Actors
    <2> QED
      BY <1>0, <1>1, <1>2, <1>3, <1>4, <1>6, <2>1, Zenon DEF TypeOK, NetType, dpuVars, vdpuVars
  <1>8. CountInv'
    BY <1>1, <1>2, <1>4, Counted, Zenon DEF CountInv, dpuVars
  <1>9. VdpuStateInv'
    BY <1>6, Zenon DEF VdpuStateInv
  <1>10. RouteInv'
    BY <1>6, Zenon DEF RouteInv
  <1>11. TableInv'
    <2>1. UpdateSetTable(setConfig', setVdpu, global) /\ UNCHANGED <<global, setVdpu, setRegs>>
      BY Zenon DEF SetConfigure
    <2> QED
      BY <2>1, Zenon DEF TableInv, UpdateSetTable
  <1> QED
    BY <1>6, <1>7, <1>8, <1>9, <1>10, <1>11, Zenon DEF ActorsInv

\* The HA set is deleted.
LEMMA SetDeleteInv ==
    ASSUME ActorsInv, SetDelete
    PROVE  ActorsInv'
  <1>0. TypeOK /\ life["set"] = "live" /\ setConfig \in Config /\ setConfig.ids \in SetIds
    BY Zenon DEF ActorsInv, TypeOK, SetDelete, Config
  <1>1. changes' \in 0..MaxChanges /\ changes <= changes'
    BY <1>0, HaActorsAssumption DEF SetDelete, Change, TypeOK
  <1>2. /\ life' = [life EXCEPT !["set"] = "stopped"]
        /\ net' = Sent(net, {<<"set", setConfig.ids[i]>> : i \in DOMAIN setConfig.ids}, FALSE)
        /\ lost' = lost \ {<<"set", setConfig.ids[i]>> : i \in DOMAIN setConfig.ids}
        /\ UNCHANGED <<dpuVars, vdpuVars, setVars, spawned>>
    BY Zenon DEF SetDelete, Registers
  <1>3. /\ life' \in [Actors -> {"absent", "live", "stopped"}] /\ life'["set"] = "stopped"
        /\ \A a \in Actors \ {"set"} : life'[a] = life[a]
        /\ \A d \in Dpus : d \in Actors \ {"set"}
    BY <1>0, <1>2, HaActorsAssumption, Zenon DEF TypeOK, Actors
  <1>4. UNCHANGED <<setConfig, global, setVdpu, setRegs, haSetTable, vnetRoute, scopeView>>
    BY <1>2, Zenon DEF setVars
  <1>5. life'["set"] = IF FALSE THEN "live" ELSE "stopped"
    BY <1>3, Zenon
  <1>6. NetType' /\ RegisteredInv' /\ DpuStateInv' /\ lost' \subseteq Pairs
    <2>1. setConfig'.ids = setConfig.ids
      BY <1>4, Zenon
    <2> QED
      <3>1. SetAsked(setConfig.ids, FALSE)
        BY <1>2, <1>3, <1>5, <2>1, Zenon DEF SetAsked
      <3> QED
        BY <1>0, <3>1, SetAsks, Zenon
  <1>7. TypeOK'
    <2>1. spawned' \subseteq Actors
      BY <1>0, <1>2, Zenon DEF TypeOK, Actors
    <2> QED
      BY <1>0, <1>1, <1>2, <1>3, <1>4, <1>6, <2>1, Zenon DEF TypeOK, NetType, dpuVars, vdpuVars
  <1>8. CountInv'
    BY <1>1, <1>2, <1>4, Counted, Zenon DEF CountInv, dpuVars
  <1>9. VdpuStateInv' /\ RouteInv'
    BY <1>3, Zenon DEF VdpuStateInv, RouteInv
  <1>10. TableInv'
    BY <1>4, TableKept, Zenon DEF ActorsInv
  <1> QED
    BY <1>6, <1>7, <1>8, <1>9, <1>10, Zenon DEF ActorsInv

\* The steps that leave all queues but those to the HA set, and all actors, alone.
LEMMA OnlySet ==
    ASSUME ActorsInv, UNCHANGED <<life, dpuVars, vdpuVars, setConfig, lost>>,
           \A v \in VDpus, d \in Dpus : /\ net'[<<v, d>>] = net[<<v, d>>] /\ net'[<<d, v>>] = net[<<d, v>>]
                                        /\ net'[<<"set", v>>] = net[<<"set", v>>]
    PROVE  /\ RegisteredInv' /\ DpuStateInv'
           /\ \A v \in VDpus : Heard(v)' => Heard(v)
  <1>1. UNCHANGED <<life, dpuRow, pmon, bfd, dpuRegs, main, vdpuDpu, vdpuRegs, setConfig, lost>>
    BY Zenon DEF dpuVars, vdpuVars
  <1>2. \A v \in VDpus : main[v] \in Dpus
    BY Zenon DEF ActorsInv, TypeOK
  <1>3. RegisteredInv'
    <2>1. \A v \in VDpus : net'[<<v, main[v]>>] = net[<<v, main[v]>>] /\ net'[<<"set", v>>] = net[<<"set", v>>]
      BY <1>2, Zenon
    <2>2. RegisteredInv
      BY Zenon DEF ActorsInv
    <2>3. ASSUME NEW v \in VDpus, life[v] # "absent", life[main[v]] # "stopped"
          PROVE  Final(net'[<<v, main[v]>>], v \in dpuRegs[main[v]]) = Holds(v, <<v, main[v]>>)
      BY <2>1, <2>2, <2>3, Zenon DEF RegisteredInv
    <2>4. ASSUME NEW v \in VDpus, InSet(v), life["set"] # "absent", life[v] # "stopped"
          PROVE  Final(net'[<<"set", v>>], vdpuRegs[v]) = Holds("set", <<"set", v>>)
      BY <2>1, <2>2, <2>4, Zenon DEF RegisteredInv
    <2> QED
      BY <1>1, <2>3, <2>4, Zenon DEF RegisteredInv, InSet, Holds
  <1>4. DpuStateInv'
    <2>1. \A v \in VDpus : Now(main[v])' = Now(main[v])
      BY <1>1, Zenon DEF Now
    <2> QED
      BY <1>1, <1>2, <2>1, Zenon DEF ActorsInv, DpuStateInv, Asked
  <1>5. \A v \in VDpus : Heard(v)' => Heard(v)
    BY <1>1, <1>2, Zenon DEF Heard, Asked
  <1> QED
    BY <1>3, <1>4, <1>5, Zenon

\* The table, the route and the HA scope are written from the new view.
LEMMA AllUpdated ==
    ASSUME UpdateAll(setVdpu', global'), UNCHANGED <<setConfig, setRegs>>
    PROVE  RouteInv' /\ TableInv'
  <1>1. global'.vnet => global' # NoGlobal
    BY DEF NoGlobal
  <1>2. HasSetData(setConfig, setVdpu', global') => Ready(setConfig, setVdpu')
    BY Zenon DEF HasSetData
  <1>3. Ready(setConfig, setVdpu') /\ global'.vnet =>
            /\ vnetRoute' = RouteData(setConfig, setVdpu', global')
            /\ UpdateSetTable(setConfig, setVdpu', global')
    BY <1>1, Zenon DEF UpdateAll
  <1>4. RouteInv'
    BY <1>3, Zenon DEF RouteInv
  <1>5. TableInv'
    BY <1>2, <1>3, Zenon DEF TableInv, UpdateSetTable
  <1> QED
    BY <1>4, <1>5, Zenon

\* The global config comes or changes.
LEMMA GlobalUpdateInv ==
    ASSUME ActorsInv, NEW vnet \in BOOLEAN, GlobalUpdate(vnet)
    PROVE  ActorsInv'
  <1>0. /\ TypeOK /\ global.version \in Nat /\ global.version <= changes + 1
        /\ global = NoGlobal => global.version = 0
    <2>1. TypeOK /\ global.version <= changes + 1
      BY Zenon DEF ActorsInv, CountInv
    <2> QED
      BY <2>1, HaActorsAssumption DEF TypeOK, Versions, NoGlobal
  <1>1. /\ global.version + 1 \in Versions \ {0} /\ global.version + 1 <= changes' + 1
        /\ changes' \in 0..MaxChanges /\ changes <= changes'
    <2>1. Change(global = NoGlobal) /\ changes \in 0..MaxChanges
      BY <1>0, Zenon DEF GlobalUpdate, TypeOK
    <2> QED
      BY <1>0, <2>1, Bumped, Zenon
  <1>2. /\ UNCHANGED <<life, dpuVars, vdpuVars, setConfig, setVdpu, setRegs, net, spawned, lost>>
        /\ global' = [version |-> global.version + 1, vnet |-> vnet] /\ UpdateAll(setVdpu, global')
    BY Zenon DEF GlobalUpdate
  <1>3. TypeOK'
    BY <1>0, <1>1, <1>2, Zenon DEF TypeOK, dpuVars, vdpuVars
  <1>4. CountInv'
    BY <1>1, <1>2, Counted, Zenon DEF CountInv, dpuVars
  <1>5. RegisteredInv' /\ DpuStateInv' /\ \A v \in VDpus : Heard(v)' => Heard(v)
    BY <1>2, OnlySet, Zenon
  <1>6. VdpuStateInv'
    BY <1>2, <1>5, Zenon DEF ActorsInv, VdpuStateInv, InSet, vdpuVars
  <1>7. RouteInv' /\ TableInv'
    BY <1>2, AllUpdated, Zenon
  <1> QED
    BY <1>3, <1>4, <1>5, <1>6, <1>7, Zenon DEF ActorsInv

\* The HA set hears the state of a vDPU.
LEMMA SetVdpuUpdateInv ==
    ASSUME ActorsInv, NEW v \in VDpus, SetVdpuUpdate(v)
    PROVE  ActorsInv'
  <1>0. TypeOK /\ NetType
    BY Zenon DEF ActorsInv, TypeOK, NetType
  <1>1. /\ net[<<v, "set">>] # <<>> /\ net' = Received(net, <<v, "set">>)
        /\ setVdpu' = [setVdpu EXCEPT ![v] = Head(net[<<v, "set">>])]
        /\ UNCHANGED <<life, dpuVars, vdpuVars, setConfig, global, setRegs, lost, changes>>
        /\ spawned' = spawned \cup {"set"}
        /\ UpdateAll(setVdpu', global)
    BY Zenon DEF SetVdpuUpdate, Receives
  <1>2. <<v, "set">> \in Pairs /\ Carried(<<v, "set">>) = DpuState
    BY SetPairs, Zenon
  <1>3. /\ NetType' /\ Head(net[<<v, "set">>]) \in DpuState
        /\ \A x : Final(net'[<<v, "set">>], Head(net[<<v, "set">>])) = Final(net[<<v, "set">>], x)
        /\ \A p \in Pairs \ {<<v, "set">>} : net'[p] = net[p]
    BY <1>0, <1>1, <1>2, NetReceived, Zenon
  <1>4. /\ setVdpu' \in [VDpus -> DpuState \cup {Unknown}] /\ setVdpu'[v] = Head(net[<<v, "set">>])
        /\ \A u \in VDpus : u # v => setVdpu'[u] = setVdpu[u]
    <2>1. setVdpu \in [VDpus -> DpuState \cup {Unknown}]
      BY <1>0, Zenon DEF TypeOK
    <2> QED
      BY <1>1, <1>3, <2>1, Zenon
  <1>5. \A u \in VDpus, d \in Dpus : /\ net'[<<u, d>>] = net[<<u, d>>] /\ net'[<<d, u>>] = net[<<d, u>>]
                                     /\ net'[<<"set", u>>] = net[<<"set", u>>]
    <2> SUFFICES ASSUME NEW u \in VDpus, NEW d \in Dpus
                 PROVE  /\ net'[<<u, d>>] = net[<<u, d>>] /\ net'[<<d, u>>] = net[<<d, u>>]
                        /\ net'[<<"set", u>>] = net[<<"set", u>>]
      BY Zenon
    <2>1. /\ <<u, d>> \in Pairs \ {<<v, "set">>} /\ <<d, u>> \in Pairs \ {<<v, "set">>}
          /\ <<"set", u>> \in Pairs \ {<<v, "set">>}
      BY PairsApart, Zenon
    <2> QED
      BY <1>3, <2>1, Zenon
  <1>6. RegisteredInv' /\ DpuStateInv' /\ \A u \in VDpus : Heard(u)' => Heard(u)
    BY <1>1, <1>5, OnlySet, Zenon
  <1>7. TypeOK' /\ CountInv'
    <2>1. spawned' \subseteq Actors
      BY <1>0, <1>1, Zenon DEF TypeOK, Actors
    <2> QED
      BY <1>0, <1>1, <1>3, <1>4, <2>1, Zenon DEF ActorsInv, TypeOK, NetType, CountInv, dpuVars, vdpuVars
  <1>8. ASSUME NEW u \in VDpus
        PROVE  Final(net'[<<u, "set">>], setVdpu'[u]) = Final(net[<<u, "set">>], setVdpu[u])
    <2>1. CASE u = v
      BY <1>3, <1>4, <2>1, Zenon
    <2>2. CASE u # v
      <3>1. <<u, "set">> \in Pairs \ {<<v, "set">>}
        BY <2>2, Zenon DEF Pairs
      <3> QED
        BY <1>3, <1>4, <2>2, <3>1, Zenon
    <2> QED
      BY <2>1, <2>2, Zenon
  <1>9. VdpuStateInv'
    BY <1>1, <1>6, <1>8, Zenon DEF ActorsInv, VdpuStateInv, InSet, vdpuVars
  <1>10. RouteInv' /\ TableInv'
    BY <1>1, AllUpdated, Zenon
  <1> QED
    BY <1>6, <1>7, <1>9, <1>10, Zenon DEF ActorsInv

\* The HA set takes a registration.
LEMMA SetRegisterInv ==
    ASSUME ActorsInv, SetRegister
    PROVE  ActorsInv'
  <1>1. /\ UNCHANGED <<life, dpuVars, vdpuVars, setConfig, global, setVdpu, haSetTable, vnetRoute, net, lost,
                       changes>>
        /\ setRegs' = TRUE /\ spawned' = spawned \cup {"set"}
    BY Zenon DEF SetRegister
  <1>2. TypeOK' /\ CountInv'
    <2>1. spawned' \subseteq Actors
      BY <1>1, Zenon DEF ActorsInv, TypeOK, Actors
    <2> QED
      BY <1>1, <2>1, Zenon DEF ActorsInv, TypeOK, CountInv, dpuVars, vdpuVars
  <1>3. RegisteredInv' /\ DpuStateInv' /\ \A v \in VDpus : Heard(v)' => Heard(v)
    BY <1>1, OnlySet, Zenon
  <1>4. VdpuStateInv'
    BY <1>1, <1>3, Zenon DEF ActorsInv, VdpuStateInv, InSet, vdpuVars
  <1>5. RouteInv'
    BY <1>1, <1>3, RouteKept, Zenon DEF ActorsInv, vdpuVars
  <1>6. TableInv'
    BY <1>1, Zenon DEF ActorsInv, TableInv, SetRegister
  <1> QED
    BY <1>2, <1>3, <1>4, <1>5, <1>6, Zenon DEF ActorsInv

\* Nothing happens.
LEMMA StutterInv ==
    ASSUME ActorsInv, UNCHANGED vars
    PROVE  ActorsInv'
  <1>1. UNCHANGED <<life, dpuVars, vdpuVars, setVars, net, spawned, lost, changes>>
    BY Zenon DEF vars
  <1>2. UNCHANGED <<setConfig, global, setVdpu, setRegs, haSetTable, vnetRoute, scopeView>>
    BY <1>1, Zenon DEF setVars
  <1>3. TypeOK' /\ CountInv'
    BY <1>1, <1>2, Zenon DEF ActorsInv, TypeOK, CountInv, dpuVars, vdpuVars
  <1>4. RegisteredInv' /\ DpuStateInv' /\ \A v \in VDpus : Heard(v)' => Heard(v)
    BY <1>1, <1>2, OnlySet, Zenon
  <1>5. VdpuStateInv'
    BY <1>1, <1>2, <1>4, Zenon DEF ActorsInv, VdpuStateInv, InSet, vdpuVars
  <1>6. RouteInv'
    BY <1>1, <1>2, <1>4, RouteKept, Zenon DEF ActorsInv, vdpuVars
  <1>7. TableInv'
    BY <1>2, TableKept, Zenon DEF ActorsInv
  <1> QED
    BY <1>3, <1>4, <1>5, <1>6, <1>7, Zenon DEF ActorsInv

\* Every step keeps the inductive invariant.
LEMMA NextActorsInv ==
    ASSUME ActorsInv, SpawnInv, [Next]_vars
    PROVE  ActorsInv'
  <1>1. CASE \E p \in Pairs : Lost(p) \/ GiveUp(p)
    BY <1>1, LostMessageInv, GiveUpInv, Zenon
  <1>2. CASE \E d \in Dpus : DpuConfig(d)
    BY <1>2, DpuConfigInv, Zenon
  <1>3. CASE \E h \in Health \ {"none"} : DpuHealth(h, bfd) \/ DpuHealth(pmon, h)
    <2>1. pmon \in Health /\ bfd \in Health
      BY Zenon DEF ActorsInv, TypeOK
    <2> QED
      BY <1>3, <2>1, DpuHealthInv, Zenon
  <1>4. CASE \E d \in Dpus : DpuDelete(d)
    BY <1>4, DpuDeleteInv, Zenon
  <1>5. CASE \E d \in Dpus, v \in VDpus : DpuRegister(d, v)
    BY <1>5, DpuRegisterInv, Zenon
  <1>6. CASE \E v \in VDpus : \E d \in Mains[v] : VdpuConfig(v, d)
    BY <1>6, VdpuConfigInv, Zenon
  <1>7. CASE \E v \in VDpus : VdpuDelete(v)
    BY <1>7, VdpuDeleteInv, Zenon
  <1>8. CASE \E v \in VDpus, d \in Dpus : VdpuDpuUpdate(v, d)
    BY <1>8, VdpuDpuUpdateInv, Zenon
  <1>9. CASE \E v \in VDpus : VdpuRegister(v)
    BY <1>9, VdpuRegisterInv, Zenon
  <1>10. CASE \E ids \in SetIds, preferred \in Preferred : SetConfigure(ids, preferred)
    BY <1>10, SetConfigureInv, Zenon
  <1>11. CASE SetDelete
    BY <1>11, SetDeleteInv, Zenon
  <1>12. CASE \E vnet \in BOOLEAN : GlobalUpdate(vnet)
    BY <1>12, GlobalUpdateInv, Zenon
  <1>13. CASE \E v \in VDpus : SetVdpuUpdate(v)
    BY <1>13, SetVdpuUpdateInv, Zenon
  <1>14. CASE SetRegister
    BY <1>14, SetRegisterInv, Zenon
  <1>15. CASE UNCHANGED vars
    BY <1>15, StutterInv, Zenon
  <1> QED
    BY <1>1, <1>2, <1>3, <1>4, <1>5, <1>6, <1>7, <1>8, <1>9, <1>10, <1>11, <1>12, <1>13, <1>14, <1>15, Zenon DEF Next

\* Only actors that were spawned come up or take registrations.
LEMMA SpawnKept ==
    ASSUME SpawnInv, spawned \subseteq spawned',
           \A a \in Actors : a \notin spawned' => life'[a] = life[a],
           \A d \in Dpus : d \notin spawned' => dpuRegs'[d] = dpuRegs[d],
           \A v \in VDpus : v \notin spawned' => vdpuRegs'[v] = vdpuRegs[v]
    PROVE  SpawnInv'
  BY Zenon DEF SpawnInv

\* Every step keeps SpawnInv.
LEMMA NextSpawnInv ==
    ASSUME TypeOK, SpawnInv, [Next]_vars
    PROVE  SpawnInv'
  <1>0. /\ DOMAIN life = Actors /\ DOMAIN dpuRegs = Dpus /\ DOMAIN vdpuRegs = VDpus
        /\ life \in [Actors -> {"absent", "live", "stopped"}]
        /\ dpuRegs \in [Dpus -> SUBSET VDpus] /\ vdpuRegs \in [VDpus -> BOOLEAN]
    BY Zenon DEF TypeOK
  <1> USE DEF dpuVars, vdpuVars
  <1>1. ASSUME NEW a, life' = [life EXCEPT ![a] = "live"], spawned' = spawned \cup {a}, UNCHANGED <<dpuRegs, vdpuRegs>>
        PROVE  SpawnInv'
    BY <1>0, <1>1, SpawnKept
  <1>2. ASSUME NEW a, life[a] = "live", life' = [life EXCEPT ![a] = "stopped"], UNCHANGED <<spawned, dpuRegs, vdpuRegs>>
        PROVE  SpawnInv'
    BY <1>0, <1>2 DEF SpawnInv
  <1>3. ASSUME UNCHANGED <<life, dpuRegs, vdpuRegs>>, spawned \subseteq spawned'
        PROVE  SpawnInv'
    BY <1>3, SpawnKept, Zenon
  <1>4. CASE \/ \E d \in Dpus : DpuConfig(d)
             \/ \E v \in VDpus : \E d \in Mains[v] : VdpuConfig(v, d)
             \/ \E ids \in SetIds, preferred \in Preferred : SetConfigure(ids, preferred)
    BY <1>1, <1>4, Zenon DEF DpuConfig, VdpuConfig, SetConfigure
  <1>5. CASE (\E d \in Dpus : DpuDelete(d)) \/ (\E v \in VDpus : VdpuDelete(v)) \/ SetDelete
    BY <1>2, <1>5, Zenon DEF DpuDelete, VdpuDelete, SetDelete
  <1>6. CASE \/ \E p \in Pairs : Lost(p) \/ GiveUp(p)
             \/ \E h \in Health \ {"none"} : DpuHealth(h, bfd) \/ DpuHealth(pmon, h)
             \/ \E vnet \in BOOLEAN : GlobalUpdate(vnet)
             \/ UNCHANGED vars
    BY <1>3, <1>6, Zenon DEF Lost, GiveUp, DpuHealth, GlobalUpdate, vars
  <1>7. CASE \/ \E v \in VDpus, d \in Dpus : VdpuDpuUpdate(v, d)
             \/ \E v \in VDpus : SetVdpuUpdate(v)
             \/ SetRegister
    BY <1>3, <1>7, Zenon DEF VdpuDpuUpdate, SetVdpuUpdate, SetRegister, Receives
  <1>8. CASE \E d \in Dpus, v \in VDpus : DpuRegister(d, v)
    <2>1. PICK d \in Dpus, v \in VDpus : DpuRegister(d, v)
      BY <1>8, Zenon
    <2>2. /\ UNCHANGED <<life, vdpuRegs>> /\ spawned' = spawned \cup {d}
          /\ dpuRegs' = [dpuRegs EXCEPT ![d] = IF Head(net[<<v, d>>]) THEN @ \cup {v} ELSE @ \ {v}]
      BY <2>1, Zenon DEF DpuRegister, Receives
    <2> QED
      BY <1>0, <2>2, SpawnKept, Zenon
  <1>9. CASE \E v \in VDpus : VdpuRegister(v)
    <2>1. PICK v \in VDpus : VdpuRegister(v)
      BY <1>9, Zenon
    <2>2. /\ UNCHANGED <<life, dpuRegs>> /\ spawned' = spawned \cup {v}
          /\ vdpuRegs' = [vdpuRegs EXCEPT ![v] = Head(net[<<"set", v>>])]
      BY <2>1, Zenon DEF VdpuRegister, Receives
    <2> QED
      BY <1>0, <2>2, SpawnKept, Zenon
  <1> QED
    BY <1>4, <1>5, <1>6, <1>7, <1>8, <1>9, Zenon DEF Next

\* Every reachable state of the actors satisfies the inductive invariant.
THEOREM ActorsInvariant == Spec => [](ActorsInv /\ SpawnInv)
  <1>1. Init => ActorsInv /\ SpawnInv
    <2>1. Init => SpawnInv
      BY Zenon DEF Init, SpawnInv
    <2> QED
      BY <2>1, InitActorsInv, Zenon
  <1>2. ActorsInv /\ SpawnInv /\ [Next]_vars => (ActorsInv /\ SpawnInv)'
    <2>1. ActorsInv => TypeOK
      BY Zenon DEF ActorsInv
    <2> QED
      BY <2>1, NextActorsInv, NextSpawnInv, Zenon
  <1> QED
    BY <1>1, <1>2, PTL DEF Spec

\* The variables keep their types; in particular each queue carries one kind of
\* message, and an actor has a row exactly from its first configuration on
\* (DpuActor, VDpuActor, HaSetActor).
THEOREM TypeCorrect == Spec => []TypeOK
  <1>1. ActorsInv => TypeOK
    BY Zenon DEF ActorsInv
  <1> QED
    BY <1>1, ActorsInvariant, PTL

-----------------------------------------------------------------------------
\* What is written depends on the view of the vDPUs of the HA set only.
LEMMA SameView ==
    ASSUME NEW c \in Config, NEW x, NEW y, NEW g,
           \A i \in DOMAIN Vdpus(c) : x[Vdpus(c)[i]] = y[Vdpus(c)[i]]
    PROVE  /\ Ready(c, x) => Ready(c, y)
           /\ HasSetData(c, x, g) => HasSetData(c, y, g)
           /\ SetData(c, x, g) = SetData(c, y, g)
           /\ RouteData(c, x, g) = RouteData(c, y, g)
  <1>1. x[Vdpus(c)[1]] = y[Vdpus(c)[1]] /\ x[Vdpus(c)[2]] = y[Vdpus(c)[2]]
    BY VdpusAssumption, Zenon
  <1>2. Ready(c, x) => Ready(c, y)
    BY Zenon DEF Ready
  <1>3. HasSetData(c, x, g) => HasSetData(c, y, g)
    <2>1. \A i \in 1..2 : i = 1 \/ i = 2
      OBVIOUS
    <2>2. \A i \in 1..2 : x[Vdpus(c)[i]] = y[Vdpus(c)[i]]
      BY <1>1, <2>1, Zenon
    <2> QED
      BY <1>2, <2>2, Zenon DEF HasSetData
  <1>4. SetData(c, x, g) = SetData(c, y, g)
    BY <1>1, Zenon DEF SetData
  <1>5. RouteData(c, x, g) = RouteData(c, y, g)
    <2>1. [i \in DOMAIN Vdpus(c) |-> Address(x[Vdpus(c)[i]])] = [i \in DOMAIN Vdpus(c) |-> Address(y[Vdpus(c)[i]])]
      BY Zenon
    <2> QED
      BY <2>1, Zenon DEF RouteData
  <1> QED
    BY <1>2, <1>3, <1>4, <1>5, Zenon

\* The inductive invariant implies Consistent.
LEMMA ConsistentInv ==
    ASSUME ActorsInv
    PROVE  Consistent
  <1> DEFINE view == [v \in VDpus |-> Now(main[v])]
             all == {"set"} \cup {setConfig.ids[i] : i \in DOMAIN setConfig.ids}
                            \cup {main[setConfig.ids[i]] : i \in DOMAIN setConfig.ids}
  <1> SUFFICES ASSUME Quiet, Links \cap lost = {}, \A a \in all : life[a] = "live"
               PROVE  /\ \A i \in DOMAIN setConfig.ids : setVdpu[setConfig.ids[i]] = view[setConfig.ids[i]]
                      /\ global.vnet => vnetRoute = RouteData(setConfig, view, global)
                      /\ global.vnet /\ HasSetData(setConfig, view, global) =>
                            /\ haSetTable = SetData(setConfig, view, global)
                            /\ setRegs => scopeView = haSetTable
    BY Zenon DEF Consistent
  <1>0. TypeOK /\ VdpuStateInv /\ DpuStateInv /\ RouteInv /\ TableInv
    BY Zenon DEF ActorsInv
  <1>1. life["set"] = "live" /\ setConfig \in Config /\ setConfig # NoConfig
    BY <1>0, Zenon DEF TypeOK
  <1>2. setConfig.ids \in Seq(VDpus) /\ Len(setConfig.ids) = 2
    BY <1>1, HaActorsAssumption, Zenon DEF Config
  <1>3. 1 \in DOMAIN setConfig.ids /\ \A i \in DOMAIN setConfig.ids : setConfig.ids[i] \in VDpus
    BY <1>2, SeqRange
  <1>4. ASSUME NEW i \in DOMAIN setConfig.ids
        PROVE  /\ setConfig.ids[i] \in VDpus /\ InSet(setConfig.ids[i])
               /\ life[setConfig.ids[i]] = "live" /\ life[main[setConfig.ids[i]]] = "live"
               /\ Heard(setConfig.ids[i]) /\ net[<<setConfig.ids[i], "set">>] = <<>>
               /\ setVdpu[setConfig.ids[i]] = view[setConfig.ids[i]] /\ setVdpu[setConfig.ids[i]] # Unknown
    <2>1. PICK v \in VDpus : v = setConfig.ids[i]
      BY <1>3, Zenon
    <2>2. InSet(v) /\ life[v] = "live" /\ life[main[v]] = "live" /\ main[v] \in Dpus
      BY <1>0, <2>1, Zenon DEF InSet, TypeOK
    <2>l. <<v, main[v]>> \notin lost /\ <<"set", v>> \notin lost
      <3>1. <<v, main[v]>> \in Links /\ <<"set", v>> \in Links
        BY <2>1 DEF Links
      <3> QED
        BY <3>1, Zenon
    <2>3. Heard(v) /\ net[<<v, "set">>] = <<>> /\ Asked(v) /\ net[<<main[v], v>>] = <<>>
      BY <2>2, <2>l, PairsApart, Zenon DEF Quiet, Heard, Asked
    <2>4. setVdpu[v] = vdpuDpu[v][main[v]]
      BY <1>0, <1>1, <2>2, <2>3, Zenon DEF VdpuStateInv, Final
    <2>5. vdpuDpu[v][main[v]] = Now(main[v])
      BY <1>0, <2>2, <2>3, Zenon DEF DpuStateInv, Final
    <2>6. Now(main[v]) # Unknown
      <3>1. dpuRow[main[v]] \in Versions \ {0}
        BY <1>0, <2>2, Zenon DEF TypeOK
      <3> QED
        BY <2>2, <3>1, StatesKnown, Zenon DEF Now
    <2> QED
      BY <2>1, <2>2, <2>3, <2>4, <2>5, <2>6, Zenon
  <1>5. ASSUME NEW i \in DOMAIN Vdpus(setConfig)
        PROVE  /\ setVdpu[Vdpus(setConfig)[i]] = view[Vdpus(setConfig)[i]]
               /\ setVdpu[Vdpus(setConfig)[i]] # Unknown
    <2>1. PICK j \in DOMAIN setConfig.ids : Vdpus(setConfig)[i] = setConfig.ids[j]
      BY <1>1, VdpusAssumption, Zenon
    <2> QED
      BY <1>4, <2>1, Zenon
  <1> HIDE DEF view, all
  <1>6. /\ HasSetData(setConfig, view, global) => HasSetData(setConfig, setVdpu, global)
        /\ SetData(setConfig, setVdpu, global) = SetData(setConfig, view, global)
        /\ RouteData(setConfig, setVdpu, global) = RouteData(setConfig, view, global)
    <2>1. \A i \in DOMAIN Vdpus(setConfig) : setVdpu[Vdpus(setConfig)[i]] = view[Vdpus(setConfig)[i]]
      BY <1>5, Zenon
    <2>2. \A i \in DOMAIN Vdpus(setConfig) : view[Vdpus(setConfig)[i]] = setVdpu[Vdpus(setConfig)[i]]
      BY <1>5, Zenon
    <2>3. HasSetData(setConfig, view, global) => HasSetData(setConfig, setVdpu, global)
      BY <1>1, <2>2, SameView, Zenon
    <2> QED
      BY <1>1, <2>1, <2>3, SameView, Zenon
  <1>7. global.vnet => vnetRoute = RouteData(setConfig, setVdpu, global)
    <2>1. Ready(setConfig, setVdpu)
      BY <1>1, <1>5, Zenon DEF Ready
    <2>2. ~\A v \in VDpus : InSet(v) /\ life[v] = "live" /\ life[main[v]] = "live" =>
              ~Heard(v) \/ net[<<v, "set">>] # <<>>
      BY <1>3, <1>4, Zenon
    <2> QED
      BY <1>0, <1>1, <2>1, <2>2, Zenon DEF RouteInv
  <1> QED
    BY <1>0, <1>4, <1>6, <1>7, Zenon DEF TableInv

\* Once no message is on its way, the HA set, the table, the route and the HA
\* scope have the present state of the DPUs, for any number of actors and in
\* whatever order they came up, unless a registration between them was given up
\* and not sent again (HaSetActor, VDpuActor, DpuActor).
THEOREM ConsistentAlways == Spec => []Consistent
  <1>1. ActorsInv => Consistent
    BY ConsistentInv, Zenon
  <1> QED
    BY <1>1, ActorsInvariant, PTL

\* The inductive invariant implies DeletedUnregistered.
LEMMA DeletedUnregisteredInv ==
    ASSUME ActorsInv
    PROVE  DeletedUnregistered
  <1> SUFFICES ASSUME Quiet PROVE DeletedUnregistered
    BY Zenon DEF DeletedUnregistered
  <1>0. TypeOK /\ RegisteredInv
    BY Zenon DEF ActorsInv
  <1>1. \A v \in VDpus : net[<<v, main[v]>>] = <<>> /\ net[<<"set", v>>] = <<>>
    <2>1. \A v \in VDpus : main[v] \in Dpus
      BY <1>0, Zenon DEF TypeOK
    <2> QED
      BY <2>1, PairsApart, Zenon DEF Quiet
  <1>2. ASSUME NEW v \in VDpus, life[v] = "stopped", life[main[v]] # "stopped"
        PROVE  v \notin dpuRegs[main[v]]
    BY <1>0, <1>1, <1>2, Zenon DEF RegisteredInv, Final, Holds
  <1>3. ASSUME life["set"] = "stopped", NEW i \in DOMAIN setConfig.ids, life[setConfig.ids[i]] # "stopped"
        PROVE  ~vdpuRegs[setConfig.ids[i]]
    <2>1. setConfig \in Config
      BY <1>0, <1>3, Zenon DEF TypeOK
    <2>2. setConfig.ids \in Seq(VDpus)
      BY <2>1, HaActorsAssumption, Zenon DEF Config
    <2>3. PICK v \in VDpus : v = setConfig.ids[i]
      BY <2>2, SeqRange, Zenon
    <2>4. Final(net[<<"set", v>>], vdpuRegs[v]) = FALSE
      BY <1>0, <1>3, <2>3, Zenon DEF RegisteredInv, InSet, Holds
    <2> QED
      BY <1>1, <2>3, <2>4, Zenon DEF Final
  <1> QED
    BY <1>2, <1>3, Zenon DEF DeletedUnregistered

\* Once no message is on its way, nobody sends updates to a vDPU or an HA set
\* that was deleted, for any number of actors (the unregistrations of VDpuActor and
\* HaSetActor, the registrations of DpuActor and VDpuActor).
THEOREM DeletedUnregisteredAlways == Spec => []DeletedUnregistered
  <1>1. ActorsInv => DeletedUnregistered
    BY DeletedUnregisteredInv, Zenon
  <1> QED
    BY <1>1, ActorsInvariant, PTL
=============================================================================
