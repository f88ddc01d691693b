----------------------------- MODULE HubProofs ------------------------------
(***************************************************************************)
(* Proofs about Hub, for every number of sessions, streams, channels,      *)
(* gates and messages and all queue capacities: the types and the          *)
(* registry, and then the broadcast pipeline.                              *)
(*                                                                         *)
(* DeliveryExact follows from an invariant about the order of the messages *)
(* on their way: what a gate's loop is sending, the gate's queue, the      *)
(* message Run holds and h.broadcast are, in this order, increasing, and   *)
(* what a gate has sent comes before all that it has still to send. In     *)
(* between, the snapshot of performBroadcast lies between the              *)
(* subscriptions that have lasted since the broadcast (owed) and those     *)
(* there have been since then (may).                                       *)
(***************************************************************************)
EXTENDS Hub, WellFoundedInduction, TLAPS

(* A non-empty set of numbers has a smallest element. *)
LEMMA SmallestElement ==
  ASSUME NEW T \in SUBSET Nat, T # {}
  PROVE  \E x \in T : \A y \in T : x <= y
<1> DEFINE R == {ss \in Nat \X Nat : ss[1] < ss[2]}
<1>1. IsWellFoundedOn(R, Nat)
  BY NatLessThanWellFounded, Zenon DEF OpToRel
<1>2. \E x \in T : \A y \in T : ~(<<y, x>> \in R)
  <2> HIDE DEF R
  <2> QED BY <1>1, WFMin, Zenon
<1>3. PICK x \in T : \A y \in T : ~(<<y, x>> \in R)
  BY <1>2, Zenon
<1>4. ASSUME NEW y \in T PROVE x <= y
  <2>1. x \in Nat /\ y \in Nat
    BY Zenon
  <2>2. ~(y < x)
    BY <1>3, <2>1, Zenon
  <2> QED BY <2>1, <2>2, SMTT(30)
<1> QED BY <1>4, Zenon

(* What RemoveStream leaves is a sequence of records ... *)
LEMMA RemoveStreamType ==
  ASSUME NEW recs \in Seq(Pairs), NEW p
  PROVE  RemoveStream(recs, p) \in Seq(Pairs)
<1>1. CASE ~HasRecord(recs, p)
  BY <1>1, Zenon DEF RemoveStream
<1>2. CASE HasRecord(recs, p)
  <2> DEFINE k == FirstIndex(recs, p)
  <2>1. Len(recs) \in Nat /\ Len(recs) # 0 /\ DOMAIN recs = 1..Len(recs)
    BY <1>2, SMTT(30) DEF HasRecord
  <2>2. DropAt(recs, k) \in [1..(Len(recs) - 1) -> Pairs]
    BY <2>1, SMTT(30) DEF DropAt
  <2>3. Len(recs) - 1 \in Nat
    BY <2>1, SMTT(30)
  <2> QED BY <1>2, <2>2, <2>3, SMTT(30) DEF RemoveStream
<1> QED BY <1>1, <1>2, Zenon

(* ... among them every record other than the removed one. *)
LEMMA RemoveStreamKeeps ==
  ASSUME NEW recs \in Seq(Pairs), NEW p, NEW q, q # p, HasRecord(recs, q)
  PROVE  HasRecord(RemoveStream(recs, p), q)
<1>1. CASE ~HasRecord(recs, p)
  BY <1>1, Zenon DEF RemoveStream
<1>2. CASE HasRecord(recs, p)
  <2> DEFINE k == FirstIndex(recs, p)
  <2>1. Len(recs) \in Nat /\ DOMAIN recs = 1..Len(recs)
    BY SMTT(30)
  <2>2. k \in 1..Len(recs) /\ recs[k] = p
    <3> DEFINE Occ == {i \in 1..Len(recs) : recs[i] = p}
    <3>1. PICK i \in 1..Len(recs) : recs[i] = p
      BY <1>2, <2>1, Zenon DEF HasRecord
    <3>2. Occ \in SUBSET Nat /\ Occ # {}
      BY <2>1, <3>1, SMTT(30)
    <3>3. \E m \in Occ : \A j \in Occ : m <= j
      <4> HIDE DEF Occ
      <4> QED BY <3>2, SmallestElement, Zenon
    <3> QED BY <2>1, <3>3, Zenon DEF FirstIndex
  <2>3. PICK i \in 1..Len(recs) : recs[i] = q
    BY <2>1, Zenon DEF HasRecord
  <2>4. i # k
    BY <2>2, <2>3, Zenon
  <2> DEFINE j == IF i < k THEN i ELSE i - 1
  <2>5. j \in 1..(Len(recs) - 1) /\ DropAt(recs, k)[j] = q
    BY <2>1, <2>2, <2>3, <2>4, SMTT(30) DEF DropAt
  <2>6. j \in DOMAIN DropAt(recs, k)
    BY <2>5, Zenon DEF DropAt
  <2> QED BY <1>2, <2>5, <2>6, Zenon DEF RemoveStream, HasRecord
<1> QED BY <1>1, <1>2, Zenon

\* The value of arg between two calls has its type.
LEMMA NoPairIsPair == NoPair \in Pairs
<1>1. PICK st \in Streams : TRUE
  BY HubAssumption, Zenon
<1>2. PICK ch \in Channels : TRUE
  BY HubAssumption, Zenon
<1>3. <<st, ch>> \in Pairs
  BY Zenon DEF Pairs
<1> QED BY <1>3, Zenon DEF NoPair

(* What a step leaves alone keeps its type. *)
LEMMA UnchangedTypes ==
  ASSUME Types
  PROVE  /\ UNCHANGED registryVars => RegistryType'
         /\ UNCHANGED callVars => CallType'
         /\ UNCHANGED removalVars => RemovalType'
         /\ UNCHANGED run => RunType'
         /\ UNCHANGED pipeVars => PipeType'
         /\ UNCHANGED historyVars => HistoryType'
<1>1. UNCHANGED registryVars => RegistryType'
  BY Zenon DEF registryVars, RegistryType, Types
<1>2. UNCHANGED callVars => CallType'
  BY Zenon DEF callVars, CallType, Types
<1>3. UNCHANGED removalVars => RemovalType'
  BY Zenon DEF removalVars, RemovalType, Types
<1>4. UNCHANGED run => RunType'
  BY Zenon DEF RunType, Types
<1>5. UNCHANGED pipeVars => PipeType'
  BY Zenon DEF pipeVars, PipeType, Types
<1>6. UNCHANGED historyVars => HistoryType'
  BY Zenon DEF historyVars, HistoryType, Types
<1> QED BY <1>1, <1>2, <1>3, <1>4, <1>5, <1>6, Zenon

\* A step that tracks the subscriptions keeps the types of the history variables.
LEMMA TrackType ==
  ASSUME Types, NEW S, Track(S), late' \subseteq Sessions
  PROVE  HistoryType'
BY Zenon DEF Track, Types, HistoryType, SubscribersIn

(* Every variable keeps its type: calls of the command goroutines. *)
LEMMA CommandTypes ==
  ASSUME Types, NEW s \in Sessions, Commands(s) \/ AddSession(s)
  PROVE  Types'
<1>1. CASE AddSession(s)
  <2>1. RegistryType'
    <3>1. streams' \in [Sessions -> Seq(Pairs)]
      BY <1>1, SMTT(30) DEF AddSession, Types, RegistryType
    <3>2. identifiers' \in [Idents -> SUBSET Sessions]
      <4> DEFINE i == IdentOf[s]
      <4>1. i \in Idents /\ identifiers[i] \in SUBSET Sessions
        BY HubAssumption, Zenon DEF Types, RegistryType
      <4> QED BY <1>1, <4>1, Zenon DEF AddSession, Types, RegistryType
    <3> QED BY <1>1, <3>1, <3>2, Zenon DEF AddSession, Types, RegistryType
  <2>2. CallType'
    BY <1>1, Zenon DEF AddSession, Types, CallType
  <2>3. HistoryType'
    BY <1>1, Zenon DEF AddSession, Types, HistoryType
  <2> QED BY <1>1, <2>1, <2>2, <2>3, UnchangedTypes, Zenon DEF AddSession, Types
<1>b. ASSUME NEW op \in {"subscribe", "unsubscribe", "sweep"}, NEW p \in Pairs, Begin(s, op, p)
      PROVE  /\ pc' \in [Sessions -> {"new", "idle", "subscribe", "unsubscribe", "sweep"}]
             /\ arg' \in [Sessions -> Pairs]
             /\ calls' \in [Sessions -> 0..MaxCalls]
  BY <1>b, HubAssumption, SMTT(30) DEF Begin, Types, CallType
<1>2. ASSUME NEW p \in Pairs, SubscribeGate(s, p) PROVE Types'
  <2>1. RegistryType'
    <3>1. p[1] \in Streams /\ p[2] \in Channels
      BY Zenon DEF Pairs
    <3>2. subs' \subseteq Streams \X Sessions \X Channels
      BY <1>2, <3>1, SMTT(30) DEF SubscribeGate, Types, RegistryType
    <3> QED BY <1>2, <3>2, Zenon DEF SubscribeGate, Types, RegistryType
  <2>2. CallType'
    BY <1>2, <1>b, Zenon DEF SubscribeGate, Types, CallType
  <2>3. HistoryType'
    BY <1>2, TrackType, Zenon DEF SubscribeGate, Types, HistoryType
  <2> QED BY <1>2, <2>1, <2>2, <2>3, UnchangedTypes, Zenon DEF SubscribeGate, Types
<1>3. ASSUME NEW p \in Pairs, UnsubscribeGate(s, p) PROVE Types'
  <2>1. RegistryType'
    BY <1>3, Zenon DEF UnsubscribeGate, Types, RegistryType
  <2>2. CallType'
    BY <1>3, <1>b, Zenon DEF UnsubscribeGate, Types, CallType
  <2>3. HistoryType'
    BY <1>3, TrackType, Zenon DEF UnsubscribeGate, Types, HistoryType
  <2> QED BY <1>3, <2>1, <2>2, <2>3, UnchangedTypes, Zenon DEF UnsubscribeGate, Types
<1>4. ASSUME NEW ch \in Channels, SweepStart(s, ch) PROVE Types'
  <2>1. <<NoPair[1], ch>> \in Pairs
    BY NoPairIsPair, Zenon DEF Pairs
  <2>2. CallType'
    <3>1. pos' \in [Sessions -> Nat]
      BY <1>4, Zenon DEF SweepStart, Types, CallType
    <3> QED BY <1>4, <1>b, <2>1, <3>1, Zenon DEF SweepStart, Types, CallType
  <2> QED BY <1>4, <2>2, UnchangedTypes, Zenon DEF SweepStart, Types
<1> QED BY <1>1, <1>2, <1>3, <1>4, Zenon DEF Commands

\* The further steps of a call keep the types.
LEMMA ContinueTypes ==
  ASSUME Types, NEW s \in Sessions, Continue(s)
  PROVE  Types'
<1>r. Return(s) => /\ pc' \in [Sessions -> {"new", "idle", "subscribe", "unsubscribe", "sweep"}]
                   /\ arg' \in [Sessions -> Pairs]
  BY NoPairIsPair, Zenon DEF Return, Types, CallType
<1>1. CASE SubscribeRecord(s)
  <2>1. Append(streams[s], arg[s]) \in Seq(Pairs)
    BY SMTT(30) DEF Types, RegistryType, CallType
  <2>2. RegistryType'
    BY <1>1, <2>1, Zenon DEF SubscribeRecord, Types, RegistryType
  <2>3. CallType'
    BY <1>1, <1>r, Zenon DEF SubscribeRecord, Types, CallType
  <2>4. HistoryType'
    BY <1>1, Zenon DEF SubscribeRecord, Types, HistoryType
  <2> QED BY <1>1, <2>2, <2>3, <2>4, UnchangedTypes, Zenon DEF SubscribeRecord, Types
<1>2. CASE UnsubscribeRecord(s)
  <2>1. RemoveStream(streams[s], arg[s]) \in Seq(Pairs)
    BY RemoveStreamType, Zenon DEF Types, RegistryType
  <2>2. RegistryType'
    BY <1>2, <2>1, Zenon DEF UnsubscribeRecord, Types, RegistryType
  <2>3. CallType'
    BY <1>2, <1>r, Zenon DEF UnsubscribeRecord, Types, CallType
  <2> QED BY <1>2, <2>2, <2>3, UnchangedTypes, Zenon DEF UnsubscribeRecord, Types
<1>3. CASE SweepStep(s)
  <2> DEFINE x == Cells(s)[pos[s]]
  <2>1. RemoveStream(streams[s], x) \in Seq(Pairs)
    BY RemoveStreamType, Zenon DEF Types, RegistryType
  <2>2. RegistryType'
    BY <1>3, <2>1, Zenon DEF SweepStep, Types, RegistryType
  <2>3. tail' \in [Sessions -> Seq(Pairs)]
    <3>1. CASE HasRecord(streams[s], x)
      <4>1. streams[s] \in Seq(Pairs) /\ tail[s] \in Seq(Pairs)
        BY Zenon DEF Types, RegistryType, CallType
      <4>2. streams[s][Len(streams[s])] \in Pairs
        BY <3>1, <4>1, SMTT(30) DEF HasRecord
      <4>3. <<streams[s][Len(streams[s])]>> \o tail[s] \in Seq(Pairs)
        BY <4>1, <4>2, SMTT(30)
      <4> QED BY <1>3, <4>3, Zenon DEF SweepStep, Types, CallType
    <3>2. CASE ~HasRecord(streams[s], x)
      BY <1>3, <3>2, Zenon DEF SweepStep, Types, CallType
    <3> QED BY <3>1, <3>2, Zenon
  <2>4. pos' \in [Sessions -> Nat]
    <3>1. pos' = [pos EXCEPT ![s] = pos[s] + 1] /\ pos \in [Sessions -> Nat]
      BY <1>3, Zenon DEF SweepStep, Types, CallType
    <3> QED BY <3>1, SMTT(30)
  <2>5. CallType'
    BY <1>3, <2>3, <2>4, Zenon DEF SweepStep, Types, CallType
  <2>6. HistoryType'
    BY <1>3, TrackType, Zenon DEF SweepStep, Types, HistoryType
  <2>7. UNCHANGED <<removalVars, run, pipeVars>>
    BY <1>3, Zenon DEF SweepStep
  <2> QED BY <2>2, <2>5, <2>6, <2>7, UnchangedTypes, Zenon DEF Types
<1>4. CASE SweepEnd(s)
  <2>1. CallType'
    <3>1. pos' \in [Sessions -> Nat]
      BY <1>4, Zenon DEF SweepEnd, Types, CallType
    <3>2. tail' \in [Sessions -> Seq(Pairs)]
      BY <1>4, SMTT(30) DEF SweepEnd, Types, CallType
    <3> QED BY <1>4, <1>r, <3>1, <3>2, Zenon DEF SweepEnd, Types, CallType
  <2> QED BY <1>4, <2>1, UnchangedTypes, Zenon DEF SweepEnd, Types
<1> QED BY <1>1, <1>2, <1>3, <1>4, Zenon DEF Continue

\* So do the critical sections of RemoveSession.
LEMMA RemovalTypes ==
  ASSUME Types, NEW s \in Sessions, Removal(s) \/ RemovalSteps(s)
  PROVE  Types'
<1>1. CASE RemoveSessionLater(s)
  <2>1. RemovalType'
    BY <1>1, SMTT(30) DEF RemoveSessionLater, Types, RemovalType
  <2> QED BY <1>1, <2>1, UnchangedTypes, Zenon DEF RemoveSessionLater, Types
<1>2. CASE RemoveSession(s)
  <2>1. RemovalType'
    BY <1>2, Zenon DEF RemoveSession, CheckRegistered, Types, RemovalType
  <2> QED BY <1>2, <2>1, UnchangedTypes, Zenon DEF RemoveSession, Types
<1>3. CASE RemoveSweep(s)
  <2>1. RegistryType'
    BY <1>3, Zenon DEF RemoveSweep, Types, RegistryType
  <2>2. RemovalType'
    BY <1>3, Zenon DEF RemoveSweep, Types, RemovalType
  <2>3. HistoryType'
    BY <1>3, TrackType, Zenon DEF RemoveSweep, Types, HistoryType
  <2> QED BY <1>3, <2>1, <2>2, <2>3, UnchangedTypes, Zenon DEF RemoveSweep, Types
<1>4. CASE RemoveDelete(s)
  <2>1. RegistryType'
    <3>1. streams' \in [Sessions -> Seq(Pairs)]
      BY <1>4, SMTT(30) DEF RemoveDelete, Types, RegistryType
    <3>2. identifiers' \in [Idents -> SUBSET Sessions]
      <4> DEFINE i == IdentOf[s]
      <4>1. i \in Idents /\ identifiers[i] \in SUBSET Sessions
        BY HubAssumption, Zenon DEF Types, RegistryType
      <4> QED BY <1>4, <4>1, Zenon DEF RemoveDelete, Types, RegistryType
    <3> QED BY <1>4, <3>1, <3>2, Zenon DEF RemoveDelete, Types, RegistryType
  <2>2. RemovalType'
    BY <1>4, Zenon DEF RemoveDelete, Types, RemovalType
  <2>3. RunType'
    BY <1>4, Zenon DEF RemoveDelete, Types, RunType
  <2> QED BY <1>4, <2>1, <2>2, <2>3, UnchangedTypes, Zenon DEF RemoveDelete, Types
<1> QED BY <1>1, <1>2, <1>3, <1>4, Zenon DEF Removal, RemovalSteps

\* So do the steps of Hub.Run and Shutdown.
LEMMA RunTypes ==
  ASSUME Types, Run \/ Shutdown
  PROVE  Types'
<1>1. CASE RunRegister
  <2>1. Head(register) \in Sessions /\ Tail(register) \in Seq(Sessions)
    BY <1>1, SMTT(30) DEF RunRegister, Types, RemovalType
  <2>2. RemovalType'
    BY <1>1, <2>1, Zenon DEF RunRegister, CheckRegistered, Types, RemovalType
  <2>3. RunType'
    BY <1>1, <2>1, Zenon DEF RunRegister, Types, RunType
  <2> QED BY <1>1, <2>2, <2>3, UnchangedTypes, Zenon DEF RunRegister, Types
<1>2. CASE RunBroadcast
  <2>1. Head(broadcast) \in MsgIds /\ Tail(broadcast) \in Seq(MsgIds)
    BY <1>2, SMTT(30) DEF RunBroadcast, Types, PipeType
  <2>2. PipeType'
    BY <1>2, <2>1, Zenon DEF RunBroadcast, Types, PipeType
  <2>3. RunType'
    BY <1>2, <2>1, Zenon DEF RunBroadcast, Types, RunType
  <2> QED BY <1>2, <2>2, <2>3, UnchangedTypes, Zenon DEF RunBroadcast, Types
<1>3. CASE RunForward
  <2>1. run.msg \in MsgIds
    BY <1>3, Zenon DEF RunForward, Types, RunType
  <2>2. PipeType'
    <3> DEFINE g == GateOf[log[run.msg].stream]
    <3>1. g \in Gates => Append(sender[g], run.msg) \in Seq(MsgIds)
      BY <2>1, SMTT(30) DEF Types, PipeType
    <3>2. sender' \in [Gates -> Seq(MsgIds)]
      BY <1>3, <3>1, Zenon DEF RunForward, Types, PipeType
    <3> QED BY <1>3, <3>2, Zenon DEF RunForward, Types, PipeType
  <2>3. RunType'
    BY <1>3, Zenon DEF RunForward, Types, RunType
  <2> QED BY <1>3, <2>2, <2>3, UnchangedTypes, Zenon DEF RunForward, Types
<1>4. CASE Shutdown
  <2>1. RunType'
    BY <1>4, Zenon DEF Shutdown, Types, RunType
  <2> QED BY <1>4, <2>1, UnchangedTypes, Zenon DEF Shutdown, Types
<1> QED BY <1>1, <1>2, <1>3, <1>4, Zenon DEF Run

\* So does BroadcastMessage.
LEMMA BroadcastTypes ==
  ASSUME Types, NEW st \in Streams, NEW ex \in Whisperers \cup {NoSession},
         BroadcastMessage(st, ex)
  PROVE  Types'
<1>1. Len(log) + 1 \in MsgIds
  BY HubAssumption, SMTT(30) DEF BroadcastMessage, Types, PipeType, MsgIds
<1>2. [stream |-> st, exclude |-> ex] \in Messages
  BY HubAssumption, Zenon DEF Messages
<1>3. PipeType'
  BY <1>1, <1>2, SMTT(30) DEF BroadcastMessage, Types, PipeType
<1>4. HistoryType'
  BY <1>1, Zenon DEF BroadcastMessage, Types, HistoryType, SubscribersIn
<1> QED BY <1>3, <1>4, UnchangedTypes, Zenon DEF BroadcastMessage, Types

\* So do the steps of a gate loop.
LEMMA GateLoopTypes ==
  ASSUME Types, NEW g \in Gates, GateLoop(g)
  PROVE  Types'
<1>1. CASE GateTake(g)
  <2>1. Head(sender[g]) \in MsgIds /\ Tail(sender[g]) \in Seq(MsgIds)
    BY <1>1, SMTT(30) DEF GateTake, Types, PipeType
  <2>2. PipeType'
    BY <1>1, <2>1, Zenon DEF GateTake, SubscribersIn, Types, PipeType
  <2> QED BY <1>1, <2>2, UnchangedTypes, Zenon DEF GateTake, Types
<1>2. ASSUME NEW p \in Sessions \X Channels, GateSend(g, p) PROVE Types'
  <2>1. <<sending[g], p[2]>> \in MsgIds \X Channels /\ p[1] \in Sessions
    BY <1>2, Zenon DEF GateSend, Types, PipeType
  <2>2. PipeType'
    <3>1. delivered' \in [Sessions -> Seq(MsgIds \X Channels)]
      BY <1>2, <2>1, SMTT(30) DEF GateSend, Types, PipeType
    <3>2. targets' \in [Gates -> SUBSET (Sessions \X Channels)]
      BY <1>2, Zenon DEF GateSend, Types, PipeType
    <3>3. leaving' \in [Gates -> Sessions \cup {NoSession}]
      BY <1>2, <2>1, Zenon DEF GateSend, Types, PipeType
    <3> QED BY <1>2, <3>1, <3>2, <3>3, Zenon DEF GateSend, Types, PipeType
  <2>3. RemovalType'
    BY <1>2, <2>1, Zenon DEF GateSend, Types, RemovalType
  <2> QED BY <1>2, <2>2, <2>3, UnchangedTypes, Zenon DEF GateSend, Types
<1>3. CASE GateDone(g)
  <2>1. PipeType'
    BY <1>3, Zenon DEF GateDone, Types, PipeType
  <2> QED BY <1>3, <2>1, UnchangedTypes, Zenon DEF GateDone, Types
<1>4. CASE GateLeave(g)
  <2>1. leaving[g] \in Sessions
    BY <1>4, Zenon DEF GateLeave, Types, PipeType
  <2>2. PipeType'
    BY <1>4, Zenon DEF GateLeave, Types, PipeType
  <2>3. RemovalType'
    BY <1>4, <2>1, SMTT(30) DEF GateLeave, Types, RemovalType
  <2> QED BY <1>4, <2>2, <2>3, UnchangedTypes, Zenon DEF GateLeave, Types
<1>5. CASE GateResume(g)
  <2>1. PipeType'
    BY <1>5, Zenon DEF GateResume, Types, PipeType
  <2> QED BY <1>5, <2>1, UnchangedTypes, Zenon DEF GateResume, Types
<1> QED BY <1>1, <1>2, <1>3, <1>4, <1>5, Zenon DEF GateLoop

(* Every variable of the hub keeps its type. *)
LEMMA TypesHold == Spec => []Types
<1>1. Init => Types
  <2> SUFFICES ASSUME Init PROVE Types
    BY Zenon
  <2>1. RegistryType
    BY SMTT(30) DEF Init, RegistryType
  <2>2. CallType
    BY NoPairIsPair, HubAssumption, SMTT(30) DEF Init, CallType
  <2>3. RemovalType /\ RunType
    BY SMTT(30) DEF Init, RemovalType, RunType
  <2>4. PipeType /\ HistoryType
    BY SMTT(30) DEF Init, PipeType, HistoryType
  <2> QED BY <2>1, <2>2, <2>3, <2>4, Zenon DEF Types
<1>2. Types /\ [Next]_vars => Types'
  <2> SUFFICES ASSUME Types, [Next]_vars PROVE Types'
    BY Zenon
  <2>1. CASE UNCHANGED vars
    BY <2>1, UnchangedTypes, Zenon DEF vars, Types
  <2> QED BY <2>1, CommandTypes, ContinueTypes, RemovalTypes, RunTypes, BroadcastTypes,
             GateLoopTypes, Zenon DEF Next
<1> QED BY <1>1, <1>2, PTL DEF Spec

(* A send to h.register, h.broadcast or a gate's channel waits for room. *)
LEMMA CapacitiesKept == Types /\ Capacities /\ [Next]_vars => Capacities'
<1> SUFFICES ASSUME Types, Capacities, [Next]_vars PROVE Capacities'
  BY Zenon
<1>t. /\ register \in Seq(Sessions) /\ broadcast \in Seq(MsgIds)
      /\ sender \in [Gates -> Seq(MsgIds)]
      /\ RegisterCap \in Nat /\ BroadcastCap \in Nat /\ SenderCap \in Nat
  BY HubAssumption, Zenon DEF Types, RemovalType, PipeType
<1>1. ASSUME UNCHANGED <<register, broadcast, sender>> PROVE Capacities'
  BY <1>1, Zenon DEF Capacities
<1>2. ASSUME NEW s \in Sessions,
             AddSession(s) \/ Commands(s) \/ Continue(s) \/ RemoveSession(s) \/ RemovalSteps(s)
      PROVE  Capacities'
  BY <1>1, <1>2, Zenon DEF AddSession, Commands, SubscribeGate, UnsubscribeGate, SweepStart,
    Continue, SubscribeRecord, UnsubscribeRecord, SweepStep, SweepEnd, RemoveSession,
    RemovalSteps, RemoveSweep, RemoveDelete, removalVars, pipeVars
<1>3. ASSUME NEW s \in Sessions, RemoveSessionLater(s) PROVE Capacities'
  <2>1. Len(register') = Len(register) + 1 /\ Len(register) \in Nat
    BY <1>3, <1>t, SMTT(30) DEF RemoveSessionLater
  <2> QED BY <1>3, <1>t, <2>1, SMTT(30) DEF RemoveSessionLater, Capacities, pipeVars
<1>4. CASE RunRegister
  <2>1. Len(register') = Len(register) - 1 /\ Len(register) \in Nat
    BY <1>4, <1>t, SMTT(30) DEF RunRegister
  <2> QED BY <1>4, <1>t, <2>1, SMTT(30) DEF RunRegister, Capacities, pipeVars
<1>5. CASE RunBroadcast
  <2>1. Len(broadcast') = Len(broadcast) - 1 /\ Len(broadcast) \in Nat
    BY <1>5, <1>t, SMTT(30) DEF RunBroadcast
  <2> QED BY <1>5, <1>t, <2>1, SMTT(30) DEF RunBroadcast, Capacities, removalVars
<1>6. CASE RunForward
  <2> DEFINE g == GateOf[log[run.msg].stream]
  <2>1. sender' = [sender EXCEPT ![g] = Append(sender[g], run.msg)] /\ Len(sender[g]) < SenderCap
    BY <1>6, Zenon DEF RunForward
  <2>2. run.msg \in MsgIds
    BY <1>6, Zenon DEF RunForward, Types, RunType
  <2> HIDE DEF g
  <2>3. ASSUME NEW h \in Gates PROVE Len(sender'[h]) <= SenderCap
    <3>1. CASE h = g
      <4>1. sender'[h] = Append(sender[h], run.msg) /\ sender[h] \in Seq(MsgIds)
        BY <2>1, <3>1, <1>t, Zenon
      <4>2. Len(sender'[h]) = Len(sender[h]) + 1 /\ Len(sender[h]) \in Nat
        BY <4>1, <2>2, SMTT(30)
      <4> QED BY <2>1, <3>1, <4>2, <1>t, SMTT(30)
    <3>2. CASE h # g
      BY <2>1, <3>2, <1>t, Zenon DEF Capacities
    <3> QED BY <3>1, <3>2, Zenon
  <2> QED BY <1>6, <2>3, Zenon DEF RunForward, Capacities, removalVars
<1>7. ASSUME NEW st \in Streams, NEW ex \in Whisperers \cup {NoSession}, BroadcastMessage(st, ex)
      PROVE  Capacities'
  <2>1. log \in Seq(Messages)
    BY Zenon DEF Types, PipeType
  <2>2. Len(broadcast') = Len(broadcast) + 1 /\ Len(broadcast) \in Nat
    BY <1>7, <1>t, SMTT(30) DEF BroadcastMessage
  <2> QED BY <1>7, <1>t, <2>2, SMTT(30) DEF BroadcastMessage, Capacities, removalVars
<1>8. ASSUME NEW g \in Gates, GateTake(g) PROVE Capacities'
  <2>1. sender' = [sender EXCEPT ![g] = Tail(sender[g])] /\ sender[g] # <<>>
    BY <1>8, Zenon DEF GateTake
  <2>2. ASSUME NEW h \in Gates PROVE Len(sender'[h]) <= SenderCap
    <3>1. CASE h = g
      <4>1. sender'[h] = Tail(sender[h]) /\ sender[h] # <<>> /\ sender[h] \in Seq(MsgIds)
        BY <2>1, <3>1, <1>t, Zenon
      <4>2. Len(sender'[h]) = Len(sender[h]) - 1 /\ Len(sender[h]) \in Nat
        BY <4>1, SMTT(30)
      <4> QED BY <4>2, <1>t, SMTT(30) DEF Capacities
    <3>2. CASE h # g
      BY <2>1, <3>2, <1>t, Zenon DEF Capacities
    <3> QED BY <3>1, <3>2, Zenon
  <2> QED BY <1>8, <2>2, Zenon DEF GateTake, Capacities, removalVars
<1>9. ASSUME NEW g \in Gates, NEW p \in Sessions \X Channels, GateSend(g, p) PROVE Capacities'
  BY <1>1, <1>9, Zenon DEF GateSend
<1>10. ASSUME NEW g \in Gates, GateLeave(g) PROVE Capacities'
  <2>1. leaving[g] \in Sessions
    BY <1>10, Zenon DEF GateLeave, Types, PipeType
  <2>2. Len(register') = Len(register) + 1 /\ Len(register) \in Nat
    BY <1>10, <1>t, <2>1, SMTT(30) DEF GateLeave
  <2> QED BY <1>10, <1>t, <2>2, SMTT(30) DEF GateLeave, Capacities
<1>11. ASSUME NEW g \in Gates, GateResume(g) \/ GateDone(g) PROVE Capacities'
  BY <1>1, <1>11, Zenon DEF GateResume, GateDone, removalVars
<1>12. CASE Shutdown
  BY <1>1, <1>12, Zenon DEF Shutdown, removalVars, pipeVars
<1>13. CASE UNCHANGED vars
  BY <1>1, <1>13, Zenon DEF vars, removalVars, pipeVars
<1> QED BY <1>2, <1>3, <1>4, <1>5, <1>6, <1>7, <1>8, <1>9, <1>10, <1>11, <1>12, <1>13, Zenon
        DEF Next, Removal, Run, GateLoop

(***************************************************************************)
(* Every variable of the hub keeps its type, and h.register, h.broadcast   *)
(* and the gates' channels keep their capacities.                          *)
(***************************************************************************)
THEOREM TypeCorrect == Spec => []TypeOK
<1>1. Init => Capacities
  BY HubAssumption, SMTT(30) DEF Init, Capacities
<1>2. Types /\ Capacities => TypeOK
  BY Zenon DEF TypeOK
<1> QED BY <1>1, <1>2, TypesHold, CapacitiesKept, PTL DEF Spec
-----------------------------------------------------------------------------
(***************************************************************************)
(* The registry invariants are not inductive by themselves.  They need to  *)
(* know what holds between the steps of a call: a session that has not     *)
(* been added yet has left no trace; between the two halves of             *)
(* UnsubscribeSession the gate has no such subscription; a swept session   *)
(* that is not subscribing has no subscription; a session stays registered *)
(* until its removal is done; and h.register holds each session once.      *)
(* SessionInv says it session by session, because a step changes what the  *)
(* hub knows of one session only (SameSession for all the others).         *)
(***************************************************************************)
SubsOf(s) == {p \in Pairs : <<p[1], s, p[2]>> \in subs}

\* the hub knows nothing of the session
NoTrace(s) == s \notin registered /\ SubsOf(s) = {} /\ \A i \in Idents : s \notin identifiers[i]

\* What holds of one session: its subscriptions have records, a removed one
\* has left no trace, and identifiers has it under its own only.
SessionInv(s) ==
  /\ \A p \in SubsOf(s) : \/ HasRecord(streams[s], p)
                          \/ Subscribing(s, p)
                          \/ removal[s] \in {"swept", "done"}
  /\ removal[s] = "done" /\ s \notin late /\ pc[s] # "subscribe" => NoTrace(s)
  /\ \A i \in Idents : s \in identifiers[i] => s \in registered /\ IdentOf[s] = i
  /\ s \in registered /\ s \notin late => s \in identifiers[IdentOf[s]]
  /\ pc[s] = "new" => NoTrace(s) /\ removal[s] \in {"none", "leaving", "queued", "done"}
  /\ pc[s] = "unsubscribe" => arg[s] \notin SubsOf(s)
  /\ removal[s] = "swept" /\ s \notin late /\ pc[s] # "subscribe" => SubsOf(s) = {}
  /\ pc[s] # "new" /\ removal[s] # "done" => s \in registered

\* h.register has a session once, and only one whose removal has not begun.
QueuedOnce ==
  /\ \A k \in DOMAIN register : removal[register[k]] = "queued"
  /\ \A j, k \in DOMAIN register : register[j] = register[k] => j = k

\* the inductive invariant of the registry
RegistryInv == (\A s \in Sessions : SessionInv(s)) /\ QueuedOnce

\* the step leaves what the invariant says of s as it is
SameSession(s) ==
  /\ pc'[s] = pc[s] /\ arg'[s] = arg[s] /\ removal'[s] = removal[s] /\ streams'[s] = streams[s]
  /\ s \in registered' <=> s \in registered
  /\ s \in late' <=> s \in late
  /\ SubsOf(s)' = SubsOf(s)
  /\ \A i \in Idents : s \in identifiers'[i] <=> s \in identifiers[i]

\* Then the invariant still holds of s.
LEMMA SameSessionInv ==
  ASSUME NEW s \in Sessions, SessionInv(s), SameSession(s)
  PROVE  SessionInv(s)'
<1>1. IdentOf[s] \in Idents
  BY HubAssumption, Zenon
<1>2. NoTrace(s) <=> NoTrace(s)'
  BY Zenon DEF SameSession, NoTrace
<1> QED BY <1>1, <1>2, Zenon DEF SessionInv, SameSession, Subscribing

(* The queue of removals is untouched. *)
LEMMA SameQueue ==
  ASSUME QueuedOnce, UNCHANGED removalVars
  PROVE  QueuedOnce'
BY Zenon DEF QueuedOnce, removalVars

(* The removal of a session that is not queued goes on. *)
LEMMA OtherQueued ==
  ASSUME Types, RegistryInv, NEW s \in Sessions, removal[s] # "queued", register' = register,
         \A o \in Sessions \ {s} : removal'[o] = removal[o]
  PROVE  QueuedOnce'
<1>1. QueuedOnce
  BY Zenon DEF RegistryInv
<1>2. \A k \in DOMAIN register : register[k] \in Sessions
  BY SMTT(30) DEF Types, RemovalType
<1>3. \A k \in DOMAIN register : register[k] \in Sessions \ {s}
  BY <1>1, <1>2, Zenon DEF QueuedOnce
<1>4. \A k \in DOMAIN register : removal'[register[k]] = "queued"
  BY <1>1, <1>3, Zenon DEF QueuedOnce
<1> QED BY <1>1, <1>4, Zenon DEF QueuedOnce

(* A step that changes one session only preserves the invariant. *)
LEMMA OneSession ==
  ASSUME RegistryInv, NEW s \in Sessions,
         \A o \in Sessions \ {s} : SameSession(o), SessionInv(s)', QueuedOnce'
  PROVE  RegistryInv'
<1>1. ASSUME NEW o \in Sessions PROVE SessionInv(o)'
  <2>1. CASE o = s
    BY <2>1, Zenon
  <2>2. CASE o # s
    BY <2>2, SameSessionInv, Zenon DEF RegistryInv
  <2> QED BY <2>1, <2>2, Zenon
<1> QED BY <1>1, Zenon DEF RegistryInv

\* AddSession keeps the invariant.
LEMMA AddSessionInv ==
  ASSUME Types, RegistryInv, NEW s \in Sessions, AddSession(s)
  PROVE  RegistryInv'
<1>i. SessionInv(s) /\ QueuedOnce
  BY Zenon DEF RegistryInv
<1> USE DEF AddSession
<1>1. \A o \in Sessions : SubsOf(o)' = SubsOf(o)
  BY Zenon DEF SubsOf
<1>2. identifiers' = [identifiers EXCEPT ![IdentOf[s]] = identifiers[IdentOf[s]] \cup {s}]
      /\ IdentOf[s] \in Idents /\ identifiers \in [Idents -> SUBSET Sessions]
  BY HubAssumption, Zenon DEF Types, RegistryType
<1>3. \A o \in Sessions \ {s} : SameSession(o)
  <2> TAKE o \in Sessions \ {s}
  <2>1. \A i \in Idents : o \in identifiers'[i] <=> o \in identifiers[i]
    BY <1>2, Zenon
  <2> QED BY <1>1, <2>1, Zenon DEF SameSession, Types, RegistryType, CallType, removalVars
<1>4. SessionInv(s)'
  <2>1. \A i \in Idents : s \in identifiers'[i] => IdentOf[s] = i
    BY <1>2, <1>i, Zenon DEF SessionInv
  <2>2. s \in identifiers'[IdentOf[s]]
    BY <1>2, Zenon
  <2>3. SubsOf(s) = {} /\ removal[s] \in {"none", "leaving", "queued", "done"} /\ removal' = removal
    BY <1>i, Zenon DEF SessionInv, NoTrace, removalVars
  <2>4. pc'[s] = "idle" /\ s \in registered' /\ (removal[s] = "done" => s \in late')
    BY Zenon DEF Types, CallType
  <2> QED BY <1>1, <2>1, <2>2, <2>3, <2>4, Zenon DEF SessionInv
<1>5. QueuedOnce'
  BY SameQueue, <1>i, Zenon
<1> QED BY <1>3, <1>4, <1>5, OneSession, Zenon

\* So does the first half of SubscribeSession, in the gate.
LEMMA SubscribeGateInv ==
  ASSUME Types, RegistryInv, NEW s \in Sessions, NEW p \in Pairs, SubscribeGate(s, p)
  PROVE  RegistryInv'
<1>i. SessionInv(s) /\ QueuedOnce
  BY Zenon DEF RegistryInv
<1> USE DEF SubscribeGate, Begin
<1>1. \A o \in Sessions \ {s} : SubsOf(o)' = SubsOf(o)
  BY Zenon DEF SubsOf
<1>2. SubsOf(s)' = SubsOf(s) \cup {p}
  BY SMTT(30) DEF SubsOf, Pairs
<1>3. \A o \in Sessions \ {s} : SameSession(o)
  BY <1>1, Zenon DEF SameSession, Types, CallType, removalVars
<1>4. SessionInv(s)'
  BY <1>2, <1>i, Zenon DEF SessionInv, Subscribing, Types, CallType, removalVars
<1>5. QueuedOnce'
  BY SameQueue, <1>i, Zenon
<1> QED BY <1>3, <1>4, <1>5, OneSession, Zenon

\* So does the first half of UnsubscribeSession.
LEMMA UnsubscribeGateInv ==
  ASSUME Types, RegistryInv, NEW s \in Sessions, NEW p \in Pairs, UnsubscribeGate(s, p)
  PROVE  RegistryInv'
<1>i. SessionInv(s) /\ QueuedOnce
  BY Zenon DEF RegistryInv
<1> USE DEF UnsubscribeGate, Begin
<1>1. \A o \in Sessions \ {s} : SubsOf(o)' = SubsOf(o)
  BY Zenon DEF SubsOf
<1>2. SubsOf(s)' = SubsOf(s) \ {p}
  BY SMTT(30) DEF SubsOf, Pairs
<1>3. \A o \in Sessions \ {s} : SameSession(o)
  BY <1>1, Zenon DEF SameSession, Types, CallType, removalVars
<1>4. SessionInv(s)'
  BY <1>2, <1>i, Zenon DEF SessionInv, NoTrace, Subscribing, Types, CallType, removalVars
<1>5. QueuedOnce'
  BY SameQueue, <1>i, Zenon
<1> QED BY <1>3, <1>4, <1>5, OneSession, Zenon

\* So does the start of UnsubscribeSessionFromChannel.
LEMMA SweepStartInv ==
  ASSUME Types, RegistryInv, NEW s \in Sessions, NEW ch \in Channels, SweepStart(s, ch)
  PROVE  RegistryInv'
<1>i. SessionInv(s) /\ QueuedOnce
  BY Zenon DEF RegistryInv
<1> USE DEF SweepStart, Begin
<1>1. \A o \in Sessions : SubsOf(o)' = SubsOf(o)
  BY Zenon DEF SubsOf, registryVars
<1>2. \A o \in Sessions \ {s} : SameSession(o)
  BY <1>1, Zenon DEF SameSession, Types, CallType, registryVars, removalVars, historyVars
<1>3. SessionInv(s)'
  <2>1. pc[s] = "idle" /\ pc'[s] = "sweep"
    BY Zenon DEF Types, CallType
  <2>2. /\ UNCHANGED <<registered, streams, identifiers, removal, late>>
        /\ NoTrace(s)' = NoTrace(s)
    BY <1>1, Zenon DEF registryVars, removalVars, historyVars, NoTrace
  <2> HIDE DEF SweepStart
  <2> QED BY <1>1, <2>1, <2>2, <1>i, Zenon DEF SessionInv, Subscribing
<1>4. QueuedOnce'
  BY SameQueue, <1>i, Zenon
<1> QED BY <1>2, <1>3, <1>4, OneSession, Zenon

\* So does the second half of SubscribeSession, in the records.
LEMMA SubscribeRecordInv ==
  ASSUME Types, RegistryInv, NEW s \in Sessions, SubscribeRecord(s)
  PROVE  RegistryInv'
<1>i. SessionInv(s) /\ QueuedOnce
  BY Zenon DEF RegistryInv
<1> USE DEF SubscribeRecord, Return
<1>1. \A o \in Sessions : SubsOf(o)' = SubsOf(o)
  BY Zenon DEF SubsOf
<1>2. \A o \in Sessions \ {s} : SameSession(o)
  BY <1>1, Zenon DEF SameSession, Types, CallType, RegistryType, removalVars
<1>3. SessionInv(s)'
  <2>1. \A p \in Pairs : HasRecord(streams[s], p) \/ p = arg[s] => HasRecord(streams'[s], p)
    <3> TAKE p \in Pairs
    <3>1. streams[s] \in Seq(Pairs) /\ arg[s] \in Pairs /\ streams'[s] = Append(streams[s], arg[s])
      BY Zenon DEF Types, RegistryType, CallType
    <3> HIDE DEF SubscribeRecord
    <3>2. CASE HasRecord(streams[s], p)
      <4>1. PICK i \in 1..Len(streams[s]) : streams[s][i] = p
        BY <3>1, <3>2, SMTT(30) DEF HasRecord
      <4> QED BY <3>1, <4>1, SMTT(30) DEF HasRecord
    <3>3. CASE p = arg[s]
      <4>1. Len(streams[s]) + 1 \in DOMAIN streams'[s] /\ streams'[s][Len(streams[s]) + 1] = p
        BY <3>1, <3>3, SMTT(30)
      <4> QED BY <4>1, Zenon DEF HasRecord
    <3> QED BY <3>2, <3>3, Zenon
  <2>2. \A p \in SubsOf(s) : HasRecord(streams'[s], p) \/ removal[s] \in {"swept", "done"}
    BY <2>1, <1>i, Zenon DEF SessionInv, Subscribing, SubsOf
  <2>3. pc[s] = "subscribe" /\ pc'[s] = "idle" /\ s \in registered' /\ removal' = removal
        /\ identifiers' = identifiers
        /\ (removal[s] \in {"swept", "done"} => s \in late')
        /\ (s \notin late' => s \notin late)
    BY Zenon DEF Types, CallType, removalVars
  <2>4. s \notin late' => s \in identifiers[IdentOf[s]]
    BY <2>3, <1>i, Zenon DEF SessionInv
  <2> HIDE DEF SubscribeRecord
  <2> QED BY <1>1, <2>2, <2>3, <2>4, <1>i, Zenon DEF SessionInv
<1>4. QueuedOnce'
  BY SameQueue, <1>i, Zenon
<1> QED BY <1>2, <1>3, <1>4, OneSession, Zenon

\* So does the second half of UnsubscribeSession.
LEMMA UnsubscribeRecordInv ==
  ASSUME Types, RegistryInv, NEW s \in Sessions, UnsubscribeRecord(s)
  PROVE  RegistryInv'
<1>i. SessionInv(s) /\ QueuedOnce
  BY Zenon DEF RegistryInv
<1> USE DEF UnsubscribeRecord, Return
<1>1. \A o \in Sessions : SubsOf(o)' = SubsOf(o)
  BY Zenon DEF SubsOf
<1>2. \A o \in Sessions \ {s} : SameSession(o)
  BY <1>1, Zenon DEF SameSession, Types, CallType, RegistryType, removalVars, historyVars
<1>3. SessionInv(s)'
  <2>1. arg[s] \notin SubsOf(s)
    BY <1>i, Zenon DEF SessionInv
  <2>2. ASSUME NEW p \in SubsOf(s), HasRecord(streams[s], p)
        PROVE  HasRecord(streams'[s], p)
    <3>1. p # arg[s] /\ streams[s] \in Seq(Pairs)
      BY <2>1, Zenon DEF Types, RegistryType
    <3>2. HasRecord(RemoveStream(streams[s], arg[s]), p)
      BY <2>2, <3>1, RemoveStreamKeeps, Zenon
    <3> QED BY <3>2, Zenon DEF Types, RegistryType
  <2>3. \A p \in SubsOf(s) : HasRecord(streams'[s], p) \/ removal[s] \in {"swept", "done"}
    BY <2>2, <1>i, Zenon DEF SessionInv, Subscribing
  <2> QED BY <1>1, <2>3, <1>i, Zenon DEF SessionInv, NoTrace, Types, CallType, removalVars,
                            historyVars
<1>4. QueuedOnce'
  BY SameQueue, <1>i, Zenon
<1> QED BY <1>2, <1>3, <1>4, OneSession, Zenon

\* So does a round of the loop of UnsubscribeSessionFromChannel.
LEMMA SweepStepInv ==
  ASSUME Types, RegistryInv, NEW s \in Sessions, SweepStep(s)
  PROVE  RegistryInv'
<1>i. SessionInv(s) /\ QueuedOnce
  BY Zenon DEF RegistryInv
<1> DEFINE x == Cells(s)[pos[s]]
<1>1. \A o \in Sessions \ {s} : SubsOf(o)' = SubsOf(o)
  BY Zenon DEF SweepStep, SubsOf
<1>2. SubsOf(s)' \subseteq SubsOf(s)
  BY Zenon DEF SweepStep, SubsOf
<1>3. \A o \in Sessions \ {s} : SameSession(o)
  BY <1>1, Zenon DEF SweepStep, SameSession, Types, RegistryType, removalVars
<1>4. SessionInv(s)'
  <2>1. ASSUME NEW p \in SubsOf(s)', HasRecord(streams[s], p)
        PROVE  HasRecord(streams'[s], p)
    <3>1. CASE x[2] = arg[s][2]
      <4>1. p # x
        BY <3>1, Zenon DEF SweepStep, SubsOf
      <4>2. HasRecord(RemoveStream(streams[s], x), p)
        <5> HIDE DEF x
        <5> QED BY <2>1, <4>1, RemoveStreamKeeps, Zenon DEF Types, RegistryType
      <4> QED BY <3>1, <4>2, Zenon DEF SweepStep, Types, RegistryType
    <3>2. CASE x[2] # arg[s][2]
      BY <2>1, <3>2, Zenon DEF SweepStep
    <3> QED BY <3>1, <3>2, Zenon
  <2>2. pc[s] = "sweep" /\ UNCHANGED <<pc, arg, removal, registered, identifiers, late>>
    BY Zenon DEF SweepStep, removalVars
  <2>3. \A p \in SubsOf(s)' : HasRecord(streams'[s], p) \/ removal[s] \in {"swept", "done"}
    BY <1>2, <2>1, <2>2, <1>i, Zenon DEF SessionInv, Subscribing
  <2>4. NoTrace(s) => NoTrace(s)'
    BY <1>2, <2>2, Zenon DEF NoTrace
  <2> QED BY <1>2, <2>2, <2>3, <2>4, <1>i, Zenon DEF SessionInv
<1>5. QueuedOnce'
  BY SameQueue, <1>i, Zenon DEF SweepStep
<1> QED BY <1>3, <1>4, <1>5, OneSession, Zenon

\* So does its end.
LEMMA SweepEndInv ==
  ASSUME Types, RegistryInv, NEW s \in Sessions, SweepEnd(s)
  PROVE  RegistryInv'
<1>i. SessionInv(s) /\ QueuedOnce
  BY Zenon DEF RegistryInv
<1> USE DEF SweepEnd, Return
<1>1. \A o \in Sessions : SubsOf(o)' = SubsOf(o)
  BY Zenon DEF SubsOf, registryVars
<1>2. \A o \in Sessions \ {s} : SameSession(o)
  BY <1>1, Zenon DEF SameSession, Types, CallType, registryVars, removalVars, historyVars
<1>3. SessionInv(s)'
  <2>1. pc[s] = "sweep" /\ pc'[s] = "idle"
    BY Zenon DEF Types, CallType
  <2>2. /\ UNCHANGED <<registered, streams, identifiers, removal, late>>
        /\ NoTrace(s)' = NoTrace(s)
    BY <1>1, Zenon DEF registryVars, removalVars, historyVars, NoTrace
  <2> HIDE DEF SweepEnd
  <2> QED BY <1>1, <2>1, <2>2, <1>i, Zenon DEF SessionInv, Subscribing
<1>4. QueuedOnce'
  BY SameQueue, <1>i, Zenon
<1> QED BY <1>2, <1>3, <1>4, OneSession, Zenon

(* A removal is queued, by RemoveSessionLater or by a gate loop. *)
LEMMA EnqueueInv ==
  ASSUME Types, RegistryInv, NEW s \in Sessions, removal[s] \in {"none", "leaving"},
         removal' = [removal EXCEPT ![s] = "queued"], register' = Append(register, s),
         UNCHANGED <<registryVars, callVars, late>>
  PROVE  RegistryInv'
<1>i. SessionInv(s) /\ QueuedOnce
  BY Zenon DEF RegistryInv
<1>1. UNCHANGED <<registered, streams, identifiers, pc, arg, late>>
      /\ \A o \in Sessions : SubsOf(o)' = SubsOf(o) /\ NoTrace(o)' = NoTrace(o)
  BY Zenon DEF SubsOf, NoTrace, registryVars, callVars
<1>2. \A o \in Sessions \ {s} : SameSession(o)
  BY <1>1, Zenon DEF SameSession, Types, RemovalType
<1>3. removal[s] \in {"none", "leaving"} /\ removal'[s] = "queued"
  BY Zenon DEF Types, RemovalType
<1>4. SessionInv(s)'
  BY <1>1, <1>3, <1>i, Zenon DEF SessionInv, Subscribing
<1>5. QueuedOnce'
  <2>1. register \in Seq(Sessions) /\ register' = Append(register, s)
        /\ removal' = [removal EXCEPT ![s] = "queued"]
        /\ removal \in [Sessions -> {"none", "leaving", "queued", "checked", "swept", "done"}]
    BY Zenon DEF Types, RemovalType
  <2>2. \A k \in 1..Len(register) : register[k] \in Sessions /\ register[k] # s
    BY <1>3, <2>1, <1>i, SMTT(30) DEF QueuedOnce
  <2>3. /\ Len(register) \in Nat /\ DOMAIN register = 1..Len(register)
        /\ DOMAIN register' = 1..(Len(register) + 1)
        /\ register'[Len(register) + 1] = s
        /\ \A k \in 1..Len(register) : register'[k] = register[k]
    <3>1. register \in Seq(Sessions) /\ register' = Append(register, s)
      BY <2>1, Zenon
    <3>2. /\ Len(register) \in Nat /\ Len(register') = Len(register) + 1
          /\ register'[Len(register) + 1] = s
          /\ \A k \in 1..Len(register) : register'[k] = register[k]
      BY <3>1, SMTT(30)
    <3>3. register' \in Seq(Sessions)
      BY <3>1, SMTT(30)
    <3> QED BY <3>1, <3>2, <3>3, SMTT(30)
  <2>4. \A k \in DOMAIN register' : removal'[register'[k]] = "queued"
    BY <2>1, <2>2, <2>3, <1>i, SMTT(30) DEF QueuedOnce
  <2>5. \A j, k \in DOMAIN register' : register'[j] = register'[k] => j = k
    <3> SUFFICES ASSUME NEW j \in DOMAIN register', NEW k \in DOMAIN register',
                        register'[j] = register'[k]
                 PROVE  j = k
      BY Zenon
    <3>1. CASE j \in 1..Len(register) /\ k \in 1..Len(register)
      <4>1. register[j] = register[k]
        BY <2>3, <3>1, Zenon
      <4> QED BY <4>1, <2>3, <3>1, <1>i, Zenon DEF QueuedOnce
    <3>2. CASE j = Len(register) + 1 \/ k = Len(register) + 1
      BY <2>2, <2>3, <3>2, SMTT(30)
    <3> QED BY <2>3, <3>1, <3>2, SMTT(30)
  <2> QED BY <2>4, <2>5, Zenon DEF QueuedOnce
<1> QED BY <1>2, <1>4, <1>5, OneSession, Zenon

(* The first section of RemoveSession, by whomever. *)
LEMMA CheckRegisteredInv ==
  ASSUME Types, RegistryInv, NEW s \in Sessions, removal[s] \in {"none", "leaving", "queued"},
         CheckRegistered(s), UNCHANGED <<registryVars, callVars, historyVars>>
  PROVE  (\A o \in Sessions \ {s} : SameSession(o)) /\ SessionInv(s)'
<1>i. SessionInv(s) /\ QueuedOnce
  BY Zenon DEF RegistryInv
<1>1. UNCHANGED <<registered, streams, identifiers, pc, arg, late>>
      /\ \A o \in Sessions : SubsOf(o)' = SubsOf(o) /\ NoTrace(o)' = NoTrace(o)
  BY Zenon DEF SubsOf, NoTrace, registryVars, callVars, historyVars
<1>2. \A o \in Sessions \ {s} : SameSession(o)
  BY <1>1, Zenon DEF CheckRegistered, SameSession, Types, RemovalType
<1>3. CASE s \in registered
  <2>1. removal'[s] = "checked"
    BY <1>3, Zenon DEF CheckRegistered, Types, RemovalType
  <2> QED BY <1>1, <1>2, <1>3, <2>1, <1>i, Zenon DEF SessionInv, Subscribing, NoTrace
<1>4. CASE s \notin registered
  <2>1. removal'[s] = "done"
    BY <1>4, Zenon DEF CheckRegistered, Types, RemovalType
  <2>2. pc[s] = "new"
    BY <1>4, <1>i, Zenon DEF SessionInv
  <2> QED BY <1>1, <1>2, <1>4, <2>1, <2>2, <1>i, Zenon DEF SessionInv, Subscribing
<1> QED BY <1>3, <1>4, Zenon

\* So does the first section of RemoveSession, called by a session itself.
LEMMA RemoveSessionInv ==
  ASSUME Types, RegistryInv, NEW s \in Sessions, RemoveSession(s)
  PROVE  RegistryInv'
<1>1. (\A o \in Sessions \ {s} : SameSession(o)) /\ SessionInv(s)'
  BY CheckRegisteredInv, Zenon DEF RemoveSession
<1>2. QueuedOnce'
  <2>1. removal[s] # "queued" /\ register' = register
    BY Zenon DEF RemoveSession
  <2>2. \A o \in Sessions \ {s} : removal'[o] = removal[o]
    BY <1>1, Zenon DEF SameSession
  <2> QED BY <2>1, <2>2, OtherQueued, Zenon
<1> QED BY <1>1, <1>2, OneSession, Zenon

\* So does the same section, called by Run.
LEMMA RunRegisterInv ==
  ASSUME Types, RegistryInv, RunRegister
  PROVE  RegistryInv'
<1>i. QueuedOnce
  BY Zenon DEF RegistryInv
<1>0. register \in Seq(Sessions) /\ register # <<>> /\ Head(register) \in Sessions
  BY SMTT(30) DEF RunRegister, Types, RemovalType
<1>s. PICK s \in Sessions : s = Head(register)
  BY <1>0, Zenon
<1>1. register \in Seq(Sessions) /\ register # <<>> /\ s = register[1] /\ removal[s] = "queued"
  BY <1>0, <1>s, <1>i, SMTT(30) DEF QueuedOnce
<1>2. (\A o \in Sessions \ {s} : SameSession(o)) /\ SessionInv(s)'
  BY <1>s, <1>1, CheckRegisteredInv, Zenon DEF RunRegister
<1>3. QueuedOnce'
  <2>1. register' = Tail(register) /\ \A o \in Sessions \ {s} : removal'[o] = removal[o]
    BY <1>2, Zenon DEF RunRegister, SameSession
  <2>2. /\ DOMAIN register = 1..Len(register) /\ DOMAIN register' = 1..(Len(register) - 1)
        /\ \A k \in DOMAIN register' : register'[k] = register[k + 1] /\ k + 1 \in DOMAIN register
                                       /\ k \in Nat
    BY <1>1, <2>1, SMTT(30)
  <2>3. \A k \in DOMAIN register' : register'[k] \in Sessions \ {s}
    BY <1>1, <2>2, <1>0, <1>i, SMTT(30) DEF QueuedOnce
  <2>4. \A k \in DOMAIN register' : removal'[register'[k]] = "queued"
    BY <2>1, <2>2, <2>3, <1>i, SMTT(30) DEF QueuedOnce
  <2>5. \A j, k \in DOMAIN register' : register'[j] = register'[k] => j = k
    BY <2>2, <1>i, SMTT(30) DEF QueuedOnce
  <2> QED BY <2>4, <2>5, Zenon DEF QueuedOnce
<1> QED BY <1>2, <1>3, OneSession, Zenon

\* So does the second section, which unsubscribes the session.
LEMMA RemoveSweepInv ==
  ASSUME Types, RegistryInv, NEW s \in Sessions, RemoveSweep(s)
  PROVE  RegistryInv'
<1>i. SessionInv(s) /\ QueuedOnce
  BY Zenon DEF RegistryInv
<1> USE DEF RemoveSweep
<1>1. UNCHANGED <<registered, streams, identifiers, pc, arg, late, register>>
      /\ removal[s] = "checked" /\ removal'[s] = "swept"
      /\ \A o \in Sessions \ {s} : removal'[o] = removal[o]
  BY Zenon DEF callVars, Types, RemovalType
<1>2. \A o \in Sessions \ {s} : SubsOf(o)' = SubsOf(o)
  BY Zenon DEF SubsOf
<1>3. \A p \in SubsOf(s)' : p \in SubsOf(s) /\ ~HasRecord(streams[s], p)
  <2> TAKE p \in SubsOf(s)'
  <2>1. p \in Pairs /\ <<p[1], s, p[2]>> \in subs'
    BY Zenon DEF SubsOf
  <2>2. p = <<p[1], p[2]>>
    BY <2>1, SMTT(30) DEF Pairs
  <2> QED BY <2>1, <2>2, Zenon DEF SubsOf
<1>4. \A o \in Sessions \ {s} : SameSession(o)
  BY <1>1, <1>2, Zenon DEF SameSession
<1>5. SessionInv(s)'
  <2> HIDE DEF RemoveSweep
  <2>1. \A p \in SubsOf(s)' : Subscribing(s, p)
    BY <1>1, <1>3, <1>i, Zenon DEF SessionInv
  <2>2. pc[s] # "new" /\ s \in registered
    BY <1>1, <1>i, Zenon DEF SessionInv
  <2>3. SubsOf(s)' # {} => pc[s] = "subscribe"
    BY <2>1, Zenon DEF Subscribing
  <2>4. pc[s] = "unsubscribe" => arg[s] \notin SubsOf(s)'
    BY <2>1, Zenon DEF Subscribing
  <2> QED BY <1>1, <2>1, <2>2, <2>3, <2>4, <1>i, Zenon DEF SessionInv
<1>6. QueuedOnce'
  BY <1>1, OtherQueued, Zenon
<1> QED BY <1>4, <1>5, <1>6, OneSession, Zenon

\* So does the third one, which forgets it.
LEMMA RemoveDeleteInv ==
  ASSUME Types, RegistryInv, NEW s \in Sessions, RemoveDelete(s)
  PROVE  RegistryInv'
<1>i. SessionInv(s) /\ QueuedOnce
  BY Zenon DEF RegistryInv
<1> USE DEF RemoveDelete
<1>1. UNCHANGED <<pc, arg, late, register>>
      /\ removal[s] = "swept" /\ removal'[s] = "done" /\ s \notin registered'
      /\ \A o \in Sessions \ {s} : removal'[o] = removal[o] /\ streams'[o] = streams[o]
                                   /\ (o \in registered' <=> o \in registered)
  BY Zenon DEF callVars, historyVars, Types, RemovalType, RegistryType
<1>2. \A o \in Sessions : SubsOf(o)' = SubsOf(o)
  BY Zenon DEF SubsOf
<1>3. \A i \in Idents : identifiers'[i] = IF i = IdentOf[s] THEN identifiers[i] \ {s}
                                                            ELSE identifiers[i]
  BY HubAssumption, Zenon DEF Types, RegistryType
<1> HIDE DEF RemoveDelete
<1>4. \A o \in Sessions \ {s} : SameSession(o)
  <2> TAKE o \in Sessions \ {s}
  <2>1. \A i \in Idents : o \in identifiers'[i] <=> o \in identifiers[i]
    BY <1>3, Zenon
  <2> QED BY <1>1, <1>2, <2>1, Zenon DEF SameSession
<1>5. SessionInv(s)'
  <2>1. \A i \in Idents : s \notin identifiers'[i]
    BY <1>3, <1>i, Zenon DEF SessionInv
  <2>2. pc[s] # "new"
    BY <1>1, <1>i, Zenon DEF SessionInv
  <2>3. s \notin late /\ pc[s] # "subscribe" => SubsOf(s)' = {}
    BY <1>1, <1>2, <1>i, Zenon DEF SessionInv
  <2>4. pc[s] = "unsubscribe" => arg[s] \notin SubsOf(s)'
    BY <1>2, <1>i, Zenon DEF SessionInv
  <2> QED BY <1>1, <2>1, <2>2, <2>3, <2>4, Zenon DEF SessionInv, NoTrace
<1>6. QueuedOnce'
  BY <1>1, OtherQueued, Zenon
<1> QED BY <1>4, <1>5, <1>6, OneSession, Zenon

(* The steps of the broadcast pipeline leave the registry alone. *)
LEMMA PipelineInv ==
  ASSUME RegistryInv, UNCHANGED <<registryVars, callVars, removalVars, late>>
  PROVE  RegistryInv'
<1>1. \A o \in Sessions : SameSession(o)
  BY Zenon DEF SameSession, SubsOf, registryVars, callVars, removalVars
<1>2. QueuedOnce'
  BY SameQueue, Zenon DEF RegistryInv
<1> QED BY <1>1, <1>2, SameSessionInv, Zenon DEF RegistryInv

(* A send buffer overflows: the session leaves, the registry is unchanged. *)
LEMMA GateSendInv ==
  ASSUME Types, RegistryInv, NEW g \in Gates, NEW p \in Sessions \X Channels, GateSend(g, p)
  PROVE  RegistryInv'
<1>1. UNCHANGED <<registryVars, callVars, register, late>>
  BY Zenon DEF GateSend, historyVars
<1>2. CASE removal' = removal
  BY <1>1, <1>2, PipelineInv, Zenon DEF removalVars
<1>3. CASE removal' # removal
  <2>1. PICK s \in Sessions : s = p[1]
    BY Zenon
  <2>2. removal[s] = "none" /\ removal'[s] = "leaving"
        /\ \A o \in Sessions \ {s} : removal'[o] = removal[o]
    BY <1>3, <2>1, Zenon DEF GateSend, Types, RemovalType
  <2>3. UNCHANGED <<registered, streams, identifiers, pc, arg>>
        /\ \A o \in Sessions : SubsOf(o)' = SubsOf(o) /\ NoTrace(o)' = NoTrace(o)
    BY <1>1, Zenon DEF SubsOf, NoTrace, registryVars, callVars
  <2>4. \A o \in Sessions \ {s} : SameSession(o)
    BY <1>1, <2>2, <2>3, Zenon DEF SameSession
  <2>5. SessionInv(s)'
    <3>1. SessionInv(s)
      BY Zenon DEF RegistryInv
    <3> QED BY <1>1, <2>2, <2>3, <3>1, Zenon DEF SessionInv, Subscribing
  <2>6. QueuedOnce'
    BY <1>1, <2>2, OtherQueued, Zenon
  <2> QED BY <2>4, <2>5, <2>6, OneSession, Zenon
<1> QED BY <1>2, <1>3, Zenon

\* So does RemoveSessionLater, called by a gate loop.
LEMMA GateLeaveInv ==
  ASSUME Types, RegistryInv, NEW g \in Gates, GateLeave(g)
  PROVE  RegistryInv'
<1>1. PICK s \in Sessions : s = leaving[g]
  BY Zenon DEF GateLeave, Types, PipeType
<1> QED BY <1>1, EnqueueInv, Zenon DEF GateLeave, historyVars

\* The registry invariant holds.
LEMMA RegistryInvariant == Spec => []RegistryInv
<1>1. Init => RegistryInv
  <2> SUFFICES ASSUME Init PROVE RegistryInv
    BY Zenon
  <2>1. \A s \in Sessions : SubsOf(s) = {}
    BY Zenon DEF Init, SubsOf
  <2>2. \A s \in Sessions : SessionInv(s)
    BY <2>1, HubAssumption, Zenon DEF Init, SessionInv, NoTrace
  <2> QED BY <2>2, SMTT(30) DEF Init, RegistryInv, QueuedOnce
<1>2. Types /\ RegistryInv /\ [Next]_vars => RegistryInv'
  <2> SUFFICES ASSUME Types, RegistryInv, [Next]_vars PROVE RegistryInv'
    BY Zenon
  <2>1. ASSUME NEW s \in Sessions, AddSession(s) \/ Commands(s) \/ Continue(s)
        PROVE RegistryInv'
    BY <2>1, AddSessionInv, SubscribeGateInv, UnsubscribeGateInv, SweepStartInv,
       SubscribeRecordInv, UnsubscribeRecordInv, SweepStepInv, SweepEndInv, Zenon
    DEF Commands, Continue
  <2>2. ASSUME NEW s \in Sessions, Removal(s) \/ RemovalSteps(s) PROVE RegistryInv'
    BY <2>2, EnqueueInv, RemoveSessionInv, RemoveSweepInv, RemoveDeleteInv, Zenon
    DEF Removal, RemovalSteps, RemoveSessionLater, historyVars
  <2>3. ASSUME NEW st \in Streams, NEW ex \in Whisperers \cup {NoSession}, BroadcastMessage(st, ex)
        PROVE RegistryInv'
    BY <2>3, PipelineInv, Zenon DEF BroadcastMessage
  <2>4. CASE Run
    BY <2>4, RunRegisterInv, PipelineInv, Zenon DEF Run, RunBroadcast, RunForward, historyVars
  <2>5. ASSUME NEW g \in Gates, GateLoop(g) PROVE RegistryInv'
    BY <2>5, PipelineInv, GateSendInv, GateLeaveInv, Zenon
    DEF GateLoop, GateTake, GateResume, GateDone, historyVars
  <2>6. CASE Shutdown
    BY <2>6, PipelineInv, Zenon DEF Shutdown, historyVars
  <2>7. CASE UNCHANGED vars
    BY <2>7, PipelineInv, Zenon DEF vars, historyVars
  <2> QED BY <2>1, <2>2, <2>3, <2>4, <2>5, <2>6, <2>7, Zenon DEF Next
<1> QED BY <1>1, <1>2, TypesHold, PTL DEF Spec

\* An element of subs is a subscription of some session.
LEMMA SubscriptionOf ==
  ASSUME Types, NEW t \in subs
  PROVE  t[2] \in Sessions /\ <<t[1], t[3]>> \in SubsOf(t[2])
<1>1. t \in Streams \X Sessions \X Channels
  BY Zenon DEF Types, RegistryType
<1>2. t = <<t[1], t[2], t[3]>> /\ t[1] \in Streams /\ t[2] \in Sessions /\ t[3] \in Channels
  BY <1>1, SMTT(30)
<1>3. <<t[1], t[2], t[3]>> \in subs
  BY <1>2, Zenon
<1> QED BY <1>2, <1>3, Zenon DEF SubsOf, Pairs

(***************************************************************************)
(* SubscribeSession, UnsubscribeSession, UnsubscribeSessionFromChannel and *)
(* RemoveSession, however they interleave, never leave a subscription in a *)
(* gate that the session's HubSessionInfo does not know of, until          *)
(* RemoveSession has swept the session.                                    *)
(***************************************************************************)
THEOREM SubscriptionsAreTracked == Spec => []SubscriptionsTracked
<1>1. Types /\ RegistryInv => SubscriptionsTracked
  <2> SUFFICES ASSUME Types, RegistryInv, NEW t \in subs
               PROVE  \/ HasRecord(streams[t[2]], <<t[1], t[3]>>)
                      \/ Subscribing(t[2], <<t[1], t[3]>>)
                      \/ removal[t[2]] \in {"swept", "done"}
    BY Zenon DEF SubscriptionsTracked
  <2>1. t[2] \in Sessions /\ <<t[1], t[3]>> \in SubsOf(t[2])
    BY SubscriptionOf, Zenon
  <2>2. SessionInv(t[2])
    BY <2>1, Zenon DEF RegistryInv
  <2> QED BY <2>1, <2>2, Zenon DEF SessionInv
<1> QED BY <1>1, TypesHold, RegistryInvariant, PTL

(***************************************************************************)
(* RemoveSession leaves nothing behind unless the session was recorded     *)
(* again after the sweep.                                                  *)
(***************************************************************************)
THEOREM RemovalIsClean == Spec => []CleanRemoval
<1>1. Types /\ RegistryInv => CleanRemoval
  <2> SUFFICES ASSUME Types, RegistryInv, NEW s \in Sessions,
                      removal[s] = "done", s \notin late, pc[s] # "subscribe"
               PROVE  NothingLeft(s)
    BY Zenon DEF CleanRemoval
  <2>1. NoTrace(s)
    BY Zenon DEF RegistryInv, SessionInv
  <2>2. ASSUME NEW t \in subs, t[2] = s PROVE FALSE
    <3>1. <<t[1], t[3]>> \in SubsOf(s)
      BY <2>2, SubscriptionOf, Zenon
    <3> QED BY <2>1, <3>1, Zenon DEF NoTrace
  <2> QED BY <2>1, <2>2, Zenon DEF NoTrace, NothingLeft
<1> QED BY <1>1, TypesHold, RegistryInvariant, PTL

(***************************************************************************)
(* h.identifiers and h.sessions agree, so a remote disconnect reaches the  *)
(* registered sessions of its identifier and no others.                    *)
(***************************************************************************)
THEOREM IdentifiersAgree == Spec => []IdentifiersMatchSessions
<1>1. Types /\ RegistryInv => IdentifiersMatchSessions
  BY Zenon DEF IdentifiersMatchSessions, RegistryInv, SessionInv, Types, RegistryType
<1> QED BY <1>1, TypesHold, RegistryInvariant, PTL

-----------------------------------------------------------------------------
(* The broadcast pipeline.                                               *)

(* a message that Run has not passed to a gate yet comes after m *)
Later(m) ==
  /\ \A i \in DOMAIN broadcast : m < broadcast[i]
  /\ run.op = "send" => m < run.msg

(* a message that the loop of gate g has not taken yet comes after m *)
Behind(g, m) == Later(m) /\ \A i \in DOMAIN sender[g] : m < sender[g][i]

(* on its way, and for gate g *)
ForGate(g, m) == InFlight(m) /\ GateOf[log[m].stream] = g

(* what Run has: its queue is in order *)
RunQueueOK ==
  /\ \A i \in DOMAIN broadcast : InFlight(broadcast[i])
  /\ \A i, j \in DOMAIN broadcast : i < j => broadcast[i] < broadcast[j]
  /\ run.op = "send" => /\ InFlight(run.msg)
                        /\ \A i \in DOMAIN broadcast : run.msg < broadcast[i]

(* what the gates have *)
GateQueueOK(g) ==
  /\ \A i \in DOMAIN sender[g] : ForGate(g, sender[g][i]) /\ Later(sender[g][i])
  /\ \A i, j \in DOMAIN sender[g] : i < j => sender[g][i] < sender[g][j]
  /\ sending[g] # 0 => ForGate(g, sending[g]) /\ Behind(g, sending[g])

(* the history variables bracket the subscriptions *)
BracketOK(m) ==
  InFlight(m) => /\ owed[m] \subseteq SubscribersIn(subs, log[m].stream)
                 /\ SubscribersIn(subs, log[m].stream) \subseteq may[m]

(* the snapshot of performBroadcast, less the sessions served *)
TargetsOK(g) ==
  sending[g] # 0 =>
    /\ \A p \in targets[g] : p \in may[sending[g]] /\ p[1] # log[sending[g]].exclude
    /\ \A p \in owed[sending[g]] : p[1] # log[sending[g]].exclude =>
          p \in targets[g] \/ HasRecord(delivered[p[1]], <<sending[g], p[2]>>)

(* one record of what was delivered to s *)
DeliveredOK(s, x) ==
  LET g == GateOf[log[x[1]].stream]
  IN  /\ x[1] \in DOMAIN log /\ Behind(g, x[1])
      /\ sending[g] # 0 => \/ x[1] < sending[g]
                           \/ (x[1] = sending[g] /\ <<s, x[2]>> \notin targets[g])

(* The inductive invariant. *)
DeliveryInv ==
  /\ RunQueueOK
  /\ \A g \in Gates : GateQueueOK(g) /\ TargetsOK(g)
  /\ \A m \in MsgIds : BracketOK(m)
  /\ \A s \in Sessions : \A i \in DOMAIN delivered[s] : DeliveredOK(s, delivered[s][i])
  /\ finished \subseteq DOMAIN log
  /\ DeliveryExact

(* r is q with e at its end, element by element *)
Added(q, e, r) ==
  /\ DOMAIN r = DOMAIN q \cup {Len(q) + 1}
  /\ \A i \in DOMAIN q : r[i] = q[i] /\ i < Len(q) + 1 /\ i \in Nat
  /\ r[Len(q) + 1] = e /\ Len(q) + 1 \notin DOMAIN q /\ Len(q) + 1 \in Nat

(* What Append does. *)
LEMMA AppendElements ==
  ASSUME NEW T, NEW q \in Seq(T), NEW e \in T
  PROVE  Added(q, e, Append(q, e))
<1>1. Len(q) \in Nat /\ DOMAIN q = 1..Len(q)
  BY SMTT(30)
<1>2. /\ Append(q, e) \in Seq(T) /\ Len(Append(q, e)) = Len(q) + 1
      /\ \A i \in 1..Len(q) : Append(q, e)[i] = q[i]
      /\ Append(q, e)[Len(q) + 1] = e
  BY SMTT(30)
<1>3. DOMAIN Append(q, e) = 1..(Len(q) + 1)
  BY <1>2, SMTT(30)
<1>4. 1..(Len(q) + 1) = 1..Len(q) \cup {Len(q) + 1}
  BY <1>1, SMTT(30)
<1> QED BY <1>1, <1>2, <1>3, <1>4, SMTT(30) DEF Added

(* Tail, element by element. *)
LEMMA TailElements ==
  ASSUME NEW T, NEW q \in Seq(T), q # <<>>
  PROVE  /\ 1 \in DOMAIN q /\ Head(q) = q[1] /\ Head(q) \in T
         /\ \A i \in DOMAIN Tail(q) : /\ i + 1 \in DOMAIN q /\ Tail(q)[i] = q[i + 1]
                                       /\ i \in Nat /\ 1 < i + 1
<1>1. Len(q) \in Nat \ {0} /\ DOMAIN q = 1..Len(q)
  BY SMTT(30)
<1>2. /\ Tail(q) \in Seq(T) /\ Len(Tail(q)) = Len(q) - 1
      /\ \A i \in 1..(Len(q) - 1) : Tail(q)[i] = q[i + 1]
  BY <1>1, SMTT(30)
<1>3. DOMAIN Tail(q) = 1..(Len(q) - 1)
  BY <1>2, SMTT(30)
<1> QED BY <1>1, <1>2, <1>3, SMTT(30)

(* The pipeline is not concerned. *)
LEMMA PipeQuiet ==
  ASSUME DeliveryInv, run' = run \/ (run.op # "send" /\ run'.op # "send"),
         UNCHANGED <<log, broadcast, sender, sending, targets, delivered, finished, owed, may, subs>>
  PROVE  DeliveryInv'
<1>0. /\ log' = log /\ broadcast' = broadcast /\ sender' = sender /\ sending' = sending
      /\ targets' = targets /\ delivered' = delivered /\ finished' = finished
      /\ owed' = owed /\ may' = may /\ subs' = subs
  BY Zenon
<1>a. /\ RunQueueOK
      /\ \A g \in Gates : GateQueueOK(g) /\ TargetsOK(g)
      /\ \A m \in MsgIds : BracketOK(m)
      /\ \A s \in Sessions : \A i \in DOMAIN delivered[s] : DeliveredOK(s, delivered[s][i])
      /\ finished \subseteq DOMAIN log
      /\ DeliveredInOrder /\ SubscribedMissNothing /\ OnlySubscribersReceive
  BY Zenon DEF DeliveryInv, DeliveryExact
<1>1. \A m : Later(m) => Later(m)'
  BY <1>0, Zenon DEF Later
<1>2. \A g, m : Behind(g, m) => Behind(g, m)'
  BY <1>0, <1>1, Zenon DEF Behind
<1>3. RunQueueOK'
  BY <1>0, <1>a, Zenon DEF RunQueueOK, InFlight
<1>4. \A g \in Gates : GateQueueOK(g)'
  BY <1>0, <1>1, <1>2, <1>a, SMTT(30) DEF GateQueueOK, ForGate, InFlight
<1>5. \A g \in Gates : TargetsOK(g)'
  BY <1>0, <1>a, Zenon DEF TargetsOK
<1>6. \A m \in MsgIds : BracketOK(m)'
  BY <1>0, <1>a, Zenon DEF BracketOK, InFlight
<1>7. \A s \in Sessions : \A i \in DOMAIN delivered[s] : DeliveredOK(s, delivered[s][i])'
  BY <1>0, <1>2, <1>a, ZenonT(60) DEF DeliveredOK
<1>8. DeliveryExact'
  BY <1>0, <1>a, Zenon DEF DeliveryExact, DeliveredInOrder, SubscribedMissNothing,
     OnlySubscribersReceive
<1> QED BY <1>0, <1>3, <1>4, <1>5, <1>6, <1>7, <1>8, <1>a, Zenon DEF DeliveryInv

(* Subscriptions change: a message underway is owed to fewer and may be    *)
(* received by more.                                                       *)
LEMMA SubscriptionsChange ==
  ASSUME Types, DeliveryInv, UNCHANGED <<run, pipeVars>>, Track(subs')
  PROVE  DeliveryInv'
<1>0. /\ log' = log /\ broadcast' = broadcast /\ sender' = sender /\ sending' = sending
      /\ targets' = targets /\ delivered' = delivered /\ finished' = finished /\ run' = run
  BY Zenon DEF pipeVars
<1>a. /\ RunQueueOK
      /\ \A g \in Gates : GateQueueOK(g) /\ TargetsOK(g)
      /\ \A m \in MsgIds : BracketOK(m)
      /\ \A s \in Sessions : \A i \in DOMAIN delivered[s] : DeliveredOK(s, delivered[s][i])
      /\ finished \subseteq DOMAIN log
      /\ DeliveredInOrder /\ SubscribedMissNothing /\ OnlySubscribersReceive
  BY Zenon DEF DeliveryInv, DeliveryExact
<1>b. finished \subseteq MsgIds /\ \A g \in Gates : sending[g] \in {0} \cup MsgIds
  BY Zenon DEF Types, PipeType
<1>1. \A m \in MsgIds : owed'[m] \subseteq owed[m] /\ may[m] \subseteq may'[m]
  BY Zenon DEF Track
<1>2. \A g, m : Behind(g, m) => Behind(g, m)'
  BY <1>0, Zenon DEF Behind, Later
<1>3. RunQueueOK'
  BY <1>0, <1>a, Zenon DEF RunQueueOK, InFlight
<1>4. \A g \in Gates : GateQueueOK(g)'
  BY <1>0, <1>2, <1>a, ZenonT(60) DEF GateQueueOK, ForGate, InFlight, Later
<1>5. \A g \in Gates : TargetsOK(g)'
  BY <1>0, <1>1, <1>a, <1>b, Zenon DEF TargetsOK
<1>6. \A m \in MsgIds : BracketOK(m)'
  <2>1. ASSUME NEW m \in MsgIds, InFlight(m)
        PROVE  /\ owed'[m] \subseteq SubscribersIn(subs', log[m].stream)
               /\ SubscribersIn(subs', log[m].stream) \subseteq may'[m]
    BY <2>1, Zenon DEF Track
  <2> QED BY <1>0, <2>1, Zenon DEF BracketOK, InFlight
<1>7. \A s \in Sessions : \A i \in DOMAIN delivered[s] : DeliveredOK(s, delivered[s][i])'
  BY <1>0, <1>2, <1>a, ZenonT(60) DEF DeliveredOK
<1>8. DeliveredInOrder' /\ SubscribedMissNothing'
  BY <1>0, <1>1, <1>a, <1>b, Zenon DEF DeliveredInOrder, SubscribedMissNothing
<1>9. OnlySubscribersReceive'
  <2>1. \A s \in Sessions : \A i \in DOMAIN delivered[s] : delivered[s][i][1] \in MsgIds
    <3>1. \A s \in Sessions : delivered[s] \in Seq(MsgIds \X Channels)
      BY Zenon DEF Types, PipeType
    <3>2. \A s \in Sessions : \A i \in DOMAIN delivered[s] : delivered[s][i] \in MsgIds \X Channels
      BY <3>1, SMTT(30)
    <3> QED BY <3>2, Zenon
  <2> QED BY <1>0, <1>1, <1>a, <2>1, Zenon DEF OnlySubscribersReceive
<1> QED BY <1>0, <1>3, <1>4, <1>5, <1>6, <1>7, <1>8, <1>9, <1>a, Zenon DEF DeliveryInv,
           DeliveryExact

(* What the types say of the elements of the queues. *)
LEMMA PipeElements ==
  ASSUME Types
  PROVE  /\ log \in Seq(Messages) /\ broadcast \in Seq(MsgIds)
         /\ MsgIds \subseteq Nat
         /\ \A i \in DOMAIN broadcast : broadcast[i] \in MsgIds
         /\ \A g \in Gates : sender[g] \in Seq(MsgIds) /\ sending[g] \in {0} \cup MsgIds
         /\ \A g \in Gates : \A i \in DOMAIN sender[g] : sender[g][i] \in MsgIds
         /\ \A s \in Sessions : delivered[s] \in Seq(MsgIds \X Channels)
         /\ \A s \in Sessions : \A i \in DOMAIN delivered[s] :
               delivered[s][i] \in MsgIds \X Channels /\ delivered[s][i][1] \in MsgIds
         /\ run.op = "send" => run.msg \in MsgIds
         /\ \A i \in DOMAIN log : log[i] \in Messages /\ log[i].stream \in Streams
<1>1. /\ log \in Seq(Messages) /\ broadcast \in Seq(MsgIds)
      /\ \A g \in Gates : sender[g] \in Seq(MsgIds) /\ sending[g] \in {0} \cup MsgIds
      /\ \A s \in Sessions : delivered[s] \in Seq(MsgIds \X Channels)
  BY Zenon DEF Types, PipeType
<1>2. MsgIds \subseteq Nat
  BY HubAssumption, SMTT(30) DEF MsgIds
<1>3. \A s \in Sessions : \A i \in DOMAIN delivered[s] : delivered[s][i] \in MsgIds \X Channels
  BY <1>1, SMTT(30)
<1>4. run.op = "send" => run.msg \in MsgIds
  BY Zenon DEF Types, RunType
<1>5. \A i \in DOMAIN log : log[i] \in Messages
  BY <1>1, SMTT(30)
<1>6. \A i \in DOMAIN log : log[i].stream \in Streams
  BY <1>5, Zenon DEF Messages
<1> QED BY <1>1, <1>2, <1>3, <1>4, <1>5, <1>6, SMTT(30)

(* A new message is the last of all. *)
LEMMA BroadcastDelivery ==
  ASSUME Types, Types', DeliveryInv, NEW st \in Streams, NEW ex \in Whisperers \cup {NoSession},
         BroadcastMessage(st, ex)
  PROVE  DeliveryInv'
<1>n. PICK n : n = Len(log) + 1
  BY Zenon
<1>0. /\ sender' = sender /\ sending' = sending /\ targets' = targets /\ delivered' = delivered
      /\ finished' = finished /\ run' = run /\ subs' = subs
      /\ broadcast' = Append(broadcast, n)
      /\ owed' = [owed EXCEPT ![n] = SubscribersIn(subs, st)]
      /\ may' = [may EXCEPT ![n] = SubscribersIn(subs, st)]
  BY <1>n, Zenon DEF BroadcastMessage, registryVars
<1>a. /\ RunQueueOK
      /\ \A g \in Gates : GateQueueOK(g) /\ TargetsOK(g)
      /\ \A m \in MsgIds : BracketOK(m)
      /\ \A s \in Sessions : \A i \in DOMAIN delivered[s] : DeliveredOK(s, delivered[s][i])
      /\ finished \subseteq DOMAIN log
      /\ DeliveredInOrder /\ SubscribedMissNothing /\ OnlySubscribersReceive
  BY Zenon DEF DeliveryInv, DeliveryExact
<1>b. /\ log \in Seq(Messages) /\ broadcast \in Seq(MsgIds) /\ MsgIds \subseteq Nat
      /\ \A g \in Gates : sending[g] \in {0} \cup MsgIds
      /\ \A s \in Sessions : \A i \in DOMAIN delivered[s] : delivered[s][i][1] \in MsgIds
  BY PipeElements, Zenon
<1>c. n \in MsgIds
  <2>1. Len(log) \in Nat /\ Len(log) < MaxMsgs /\ MaxMsgs \in Nat
    BY <1>b, HubAssumption, SMTT(30) DEF BroadcastMessage
  <2> QED BY <1>n, <2>1, SMTT(30) DEF MsgIds
<1>d. PICK e \in Messages : log' = Append(log, e) /\ e.stream = st
  <2>1. [stream |-> st, exclude |-> ex] \in Messages
    BY HubAssumption, Zenon DEF Messages
  <2> QED BY <2>1, Zenon DEF BroadcastMessage
<1>e. /\ DOMAIN log' = DOMAIN log \cup {n} /\ log'[n] = e /\ n \notin DOMAIN log
      /\ \A m \in DOMAIN log : log'[m] = log[m] /\ m < n
  <2>1. Added(log, e, log')
    BY <1>b, <1>d, AppendElements, Zenon
  <2> QED BY <1>n, <2>1, Zenon DEF Added
<1>f. /\ DOMAIN broadcast' = DOMAIN broadcast \cup {Len(broadcast) + 1}
      /\ broadcast'[Len(broadcast) + 1] = n /\ Len(broadcast) + 1 \notin DOMAIN broadcast
      /\ \A i \in DOMAIN broadcast : broadcast'[i] = broadcast[i] /\ i < Len(broadcast) + 1 /\ i \in Nat
      /\ Len(broadcast) + 1 \in Nat
  <2>1. Added(broadcast, n, broadcast')
    BY <1>0, <1>b, <1>c, AppendElements, Zenon
  <2> QED BY <2>1, Zenon DEF Added
<1>g. /\ owed \in [MsgIds -> SUBSET (Sessions \X Channels)]
      /\ may \in [MsgIds -> SUBSET (Sessions \X Channels)]
  BY Zenon DEF Types, HistoryType
<1>h. /\ owed'[n] = SubscribersIn(subs, st) /\ may'[n] = SubscribersIn(subs, st)
      /\ \A m \in MsgIds : m # n => (owed'[m] = owed[m] /\ may'[m] = may[m])
  BY <1>0, <1>c, <1>g, Zenon
<1>1. n \notin finished /\ InFlight(n)' /\ \A m : InFlight(m) => InFlight(m)'
  BY <1>0, <1>a, <1>e, Zenon DEF InFlight
<1>2. \A m \in DOMAIN log : Later(m) => Later(m)'
  BY <1>0, <1>e, <1>f, Zenon DEF Later
<1>3. \A g : \A m \in DOMAIN log : Behind(g, m) => Behind(g, m)'
  BY <1>0, <1>2, Zenon DEF Behind
<1>4. RunQueueOK'
  <2>1. ASSUME NEW i \in DOMAIN broadcast'
        PROVE  InFlight(broadcast[i])'
    <3>1. PICK m : m = broadcast'[i]
      BY Zenon
    <3>2. m = n \/ InFlight(m)
      BY <1>a, <1>f, <3>1, Zenon DEF RunQueueOK
    <3>3. InFlight(m)'
      BY <1>1, <3>2, Zenon
    <3> QED BY <3>1, <3>3, Zenon
  <2>2. ASSUME NEW i \in DOMAIN broadcast', NEW j \in DOMAIN broadcast', i < j
        PROVE  broadcast'[i] < broadcast'[j]
    <3>1. i \in DOMAIN broadcast
      BY <1>f, <2>2, SMTT(30)
    <3>2. CASE j \in DOMAIN broadcast
      BY <1>a, <1>f, <2>2, <3>1, <3>2, Zenon DEF RunQueueOK
    <3>3. CASE j = Len(broadcast) + 1
      BY <1>a, <1>e, <1>f, <3>1, <3>3, Zenon DEF RunQueueOK, InFlight
    <3> QED BY <1>f, <3>2, <3>3, Zenon
  <2>3. ASSUME run'.op = "send"
        PROVE  InFlight(run.msg)' /\ \A i \in DOMAIN broadcast' : run'.msg < broadcast'[i]
    <3>1. InFlight(run.msg) /\ \A i \in DOMAIN broadcast : run.msg < broadcast[i]
      BY <1>0, <1>a, <2>3, Zenon DEF RunQueueOK
    <3>2. run.msg < n
      BY <1>e, <3>1, Zenon DEF InFlight
    <3>3. PICK m : m = run.msg
      BY Zenon
    <3>4. InFlight(m)'
      BY <1>1, <3>1, <3>3, Zenon
    <3>5. InFlight(run.msg)'
      BY <1>0, <3>3, <3>4, Zenon
    <3> QED BY <1>0, <1>f, <3>1, <3>2, <3>5, Zenon
  <2> QED BY <2>1, <2>2, <2>3, Zenon DEF RunQueueOK
<1>5. \A g, m : ForGate(g, m) => ForGate(g, m)'
  BY <1>1, <1>e, Zenon DEF ForGate, InFlight
<1>6. ASSUME NEW g \in Gates
      PROVE  GateQueueOK(g)'
  <2>1. GateQueueOK(g)
    BY <1>a, Zenon
  <2>2. \A m : ForGate(g, m) => m \in DOMAIN log
    BY Zenon DEF ForGate, InFlight
  <2> QED BY <1>0, <1>2, <1>3, <1>5, <2>1, <2>2, Zenon DEF GateQueueOK
<1>7. ASSUME NEW g \in Gates
      PROVE  TargetsOK(g)'
  <2>1. GateQueueOK(g) /\ TargetsOK(g)
    BY <1>a, Zenon
  <2>2. sending[g] # 0 => (sending[g] \in DOMAIN log /\ sending[g] \in MsgIds)
    BY <1>b, <2>1, Zenon DEF GateQueueOK, ForGate, InFlight
  <2>3. sending[g] # 0 => /\ log'[sending[g]] = log[sending[g]]
                          /\ owed'[sending[g]] = owed[sending[g]]
                          /\ may'[sending[g]] = may[sending[g]]
    BY <1>e, <1>h, <2>2, Zenon
  <2> QED BY <1>0, <2>1, <2>3, Zenon DEF TargetsOK
<1>8. ASSUME NEW m \in MsgIds
      PROVE  BracketOK(m)'
  <2>1. CASE m = n
    BY <1>0, <1>d, <1>e, <1>h, <2>1, Zenon DEF BracketOK
  <2>2. CASE m # n
    <3>1. InFlight(m)' => (InFlight(m) /\ log'[m] = log[m])
      BY <1>0, <1>e, <2>2, Zenon DEF InFlight
    <3> QED BY <1>0, <1>a, <1>h, <2>2, <3>1, Zenon DEF BracketOK
  <2> QED BY <2>1, <2>2, Zenon
<1>9. \A s \in Sessions : \A i \in DOMAIN delivered[s] :
        delivered[s][i][1] \in DOMAIN log /\ DeliveredOK(s, delivered[s][i])'
  <2>1. ASSUME NEW s \in Sessions, NEW x, DeliveredOK(s, x)
        PROVE  x[1] \in DOMAIN log /\ DeliveredOK(s, x)'
    <3>1. PICK g : g = GateOf[log[x[1]].stream]
      BY Zenon
    <3>2. x[1] \in DOMAIN log /\ x[1] \in DOMAIN log' /\ log'[x[1]] = log[x[1]] /\ Behind(g, x[1])
      BY <1>e, <2>1, <3>1, Zenon DEF DeliveredOK
    <3>3. Behind(g, x[1])'
      BY <1>3, <3>2, Zenon
    <3> QED BY <1>0, <2>1, <3>1, <3>2, <3>3, Zenon DEF DeliveredOK
  <2>2. ASSUME NEW s \in Sessions, NEW i \in DOMAIN delivered[s]
        PROVE  delivered[s][i][1] \in DOMAIN log /\ DeliveredOK(s, delivered[s][i])'
    <3>1. PICK x : x = delivered[s][i] /\ DeliveredOK(s, x)
      BY <1>a, Zenon
    <3> QED BY <1>0, <2>1, <3>1, Zenon
  <2> QED BY <2>2, Zenon
<1>10. DeliveredInOrder'
  BY <1>0, <1>9, <1>a, <1>e, SMTT(30) DEF DeliveredInOrder
<1>11. SubscribedMissNothing'
  <2>1. \A m \in finished : m \in DOMAIN log /\ m \in MsgIds /\ m # n
    BY <1>a, <1>e, Zenon DEF Types, PipeType
  <2> QED BY <1>0, <1>a, <1>e, <1>h, <2>1, ZenonT(60) DEF SubscribedMissNothing
<1>12. OnlySubscribersReceive'
  <2>1. ASSUME NEW s \in Sessions, NEW i \in DOMAIN delivered[s]
        PROVE  /\ <<s, delivered[s][i][2]>> \in may'[delivered[s][i][1]]
               /\ s # log'[delivered[s][i][1]].exclude
    <3>1. PICK x : x = delivered[s][i]
      BY Zenon
    <3>2. x[1] \in DOMAIN log /\ x[1] \in MsgIds /\ <<s, x[2]>> \in may[x[1]] /\ s # log[x[1]].exclude
      BY <1>9, <1>a, <1>b, <3>1, Zenon DEF OnlySubscribersReceive
    <3>3. may'[x[1]] = may[x[1]] /\ log'[x[1]] = log[x[1]]
      BY <1>e, <1>h, <3>2, Zenon
    <3> QED BY <3>1, <3>2, <3>3, Zenon
  <2> QED BY <1>0, <2>1, Zenon DEF OnlySubscribersReceive
<1> QED BY <1>0, <1>4, <1>6, <1>7, <1>8, <1>9, <1>10, <1>11, <1>12, <1>a, <1>e,
           Zenon DEF DeliveryInv, DeliveryExact

(* Run takes a message from h.broadcast, or drops it. *)
LEMMA RunBroadcastDelivery ==
  ASSUME Types, Types', DeliveryInv, RunBroadcast
  PROVE  DeliveryInv'
<1>0. /\ log' = log /\ sender' = sender /\ sending' = sending /\ targets' = targets
      /\ delivered' = delivered /\ subs' = subs /\ owed' = owed /\ may' = may
      /\ run.op = "select" /\ broadcast # <<>> /\ broadcast' = Tail(broadcast)
  BY Zenon DEF RunBroadcast, registryVars, historyVars
<1>a. /\ RunQueueOK
      /\ \A g \in Gates : GateQueueOK(g) /\ TargetsOK(g)
      /\ \A m \in MsgIds : BracketOK(m)
      /\ \A s \in Sessions : \A i \in DOMAIN delivered[s] : DeliveredOK(s, delivered[s][i])
      /\ finished \subseteq DOMAIN log
      /\ DeliveredInOrder /\ SubscribedMissNothing /\ OnlySubscribersReceive
  BY Zenon DEF DeliveryInv, DeliveryExact
<1>b. PICK m : m = Head(broadcast)
  BY Zenon
<1>c. /\ 1 \in DOMAIN broadcast /\ m = broadcast[1] /\ m \in MsgIds
      /\ \A i \in DOMAIN broadcast' : /\ i + 1 \in DOMAIN broadcast /\ broadcast'[i] = broadcast[i + 1]
                                       /\ i \in Nat /\ 1 < i + 1
  BY <1>0, <1>b, PipeElements, TailElements, Zenon
<1>d. InFlight(m) /\ \A i \in DOMAIN broadcast' : m < broadcast'[i]
  BY <1>a, <1>c, Zenon DEF RunQueueOK
<1>e. \/ run' = [op |-> "send", msg |-> m] /\ finished' = finished
      \/ /\ run' = run /\ finished' = finished \cup {m}
         /\ SubscribersIn(subs, log[m].stream) = {}
  BY <1>b, Zenon DEF RunBroadcast
<1>f. run'.op = "send" => run'.msg = m
  BY <1>0, <1>e, SMTT(30)
<1>g. finished \subseteq finished' /\ finished' \subseteq finished \cup {m}
  BY <1>e, Zenon
<1>h. MsgIds \subseteq Nat
  BY PipeElements, Zenon
<1>i. \A q \in MsgIds : q < m => q # m
  BY <1>c, <1>h, SMTT(30)
<1>1. \A q : Later(q) => (Later(q)' /\ q < m)
  BY <1>c, <1>f, Zenon DEF Later
<1>2. \A g, q : Behind(g, q) => (Behind(g, q)' /\ q < m)
  BY <1>0, <1>1, Zenon DEF Behind
<1>3. \A q : (InFlight(q) /\ q # m) => InFlight(q)'
  BY <1>0, <1>g, Zenon DEF InFlight
<1>4. RunQueueOK'
  <2>1. \A i \in DOMAIN broadcast' : InFlight(broadcast[i])'
    <3>1. ASSUME NEW i \in DOMAIN broadcast'
          PROVE  InFlight(broadcast[i + 1]) /\ broadcast[i + 1] # m
      <4>1. InFlight(broadcast[i + 1]) /\ m < broadcast[i + 1] /\ broadcast[i + 1] \in MsgIds
        BY <1>a, <1>c, <1>d, PipeElements, Zenon DEF RunQueueOK
      <4> QED BY <1>c, <1>h, <4>1, SMTT(30)
    <3>2. ASSUME NEW i \in DOMAIN broadcast'
          PROVE  InFlight(broadcast[i])'
      <4>1. PICK q : q = broadcast[i + 1]
        BY Zenon
      <4>2. InFlight(q)'
        BY <1>3, <3>1, <4>1, Zenon
      <4> QED BY <1>c, <4>1, <4>2, Zenon
    <3> QED BY <3>2, Zenon
  <2>2. \A i, j \in DOMAIN broadcast' : i < j => broadcast'[i] < broadcast'[j]
    BY <1>a, <1>c, SMTT(30) DEF RunQueueOK
  <2>3. run'.op = "send" => (InFlight(run.msg)' /\ \A i \in DOMAIN broadcast' : run'.msg < broadcast'[i])
    <3>1. run'.op = "send" => finished' = finished
      BY <1>0, <1>e, Zenon
    <3> QED BY <1>0, <1>d, <1>f, <3>1, SMTT(30) DEF InFlight
  <2> QED BY <2>1, <2>2, <2>3, Zenon DEF RunQueueOK
<1>5. ASSUME NEW g \in Gates
      PROVE  GateQueueOK(g)'
  <2>1. GateQueueOK(g) /\ sending[g] \in {0} \cup MsgIds
    BY <1>a, PipeElements, Zenon
  <2>2. \A i \in DOMAIN sender[g] : ForGate(g, sender[g][i])' /\ Later(sender[g][i])'
    <3>1. ASSUME NEW i \in DOMAIN sender[g]
          PROVE  ForGate(g, sender[g][i])' /\ Later(sender[g][i])'
      <4>1. PICK q \in MsgIds : q = sender[g][i]
        BY PipeElements, Zenon
      <4>2. ForGate(g, q) /\ Later(q)
        BY <2>1, <4>1, Zenon DEF GateQueueOK
      <4>3. q # m
        BY <1>1, <1>i, <4>2, Zenon
      <4>4. ForGate(g, q)' /\ Later(q)'
        BY <1>0, <1>1, <1>3, <4>2, <4>3, Zenon DEF ForGate
      <4> QED BY <1>0, <4>1, <4>4, Zenon
    <3> QED BY <3>1, Zenon
  <2>3. sending[g] # 0 => (ForGate(g, sending[g])' /\ Behind(g, sending[g])')
    <3>1. ASSUME sending[g] # 0
          PROVE  ForGate(g, sending[g])' /\ Behind(g, sending[g])'
      <4>1. PICK q \in MsgIds : q = sending[g]
        BY <2>1, <3>1, Zenon
      <4>2. ForGate(g, q) /\ Behind(g, q)
        BY <2>1, <3>1, <4>1, Zenon DEF GateQueueOK
      <4>3. q # m
        BY <1>2, <1>i, <4>2, Zenon
      <4>4. ForGate(g, q)' /\ Behind(g, q)'
        BY <1>0, <1>2, <1>3, <4>2, <4>3, Zenon DEF ForGate
      <4> QED BY <1>0, <4>1, <4>4, Zenon
    <3> QED BY <3>1, Zenon
  <2> QED BY <1>0, <2>1, <2>2, <2>3, Zenon DEF GateQueueOK
<1>6. \A g \in Gates : TargetsOK(g)'
  BY <1>0, <1>a, Zenon DEF TargetsOK
<1>7. \A q \in MsgIds : BracketOK(q)'
  BY <1>0, <1>a, <1>g, Zenon DEF BracketOK, InFlight
<1>8. \A s \in Sessions : \A i \in DOMAIN delivered[s] : DeliveredOK(s, delivered[s][i])'
  BY <1>0, <1>2, <1>a, ZenonT(60) DEF DeliveredOK
<1>9. DeliveredInOrder' /\ OnlySubscribersReceive'
  BY <1>0, <1>a, ZenonT(60) DEF DeliveredInOrder, OnlySubscribersReceive
<1>10. SubscribedMissNothing'
  <2>1. CASE finished' = finished
    BY <1>0, <1>a, <2>1, Zenon DEF SubscribedMissNothing
  <2>2. CASE finished' # finished
    <3>1. SubscribersIn(subs, log[m].stream) = {} /\ finished' = finished \cup {m}
      BY <1>e, <2>2, Zenon
    <3>2. owed[m] = {}
      BY <1>a, <1>c, <1>d, <3>1, Zenon DEF BracketOK
    <3> QED BY <1>0, <1>a, <3>1, <3>2, Zenon DEF SubscribedMissNothing
  <2> QED BY <2>1, <2>2, Zenon
<1>11. finished' \subseteq DOMAIN log'
  BY <1>0, <1>a, <1>d, <1>g, Zenon DEF InFlight
<1> QED BY <1>4, <1>5, <1>6, <1>7, <1>0, <1>8, <1>9, <1>10, <1>11, Zenon DEF DeliveryInv,
           DeliveryExact

(* Run passes the message to its gate, after those the gate has. *)
LEMMA RunForwardDelivery ==
  ASSUME Types, Types', DeliveryInv, RunForward
  PROVE  DeliveryInv'
<1>0. /\ log' = log /\ broadcast' = broadcast /\ sending' = sending /\ targets' = targets
      /\ delivered' = delivered /\ finished' = finished
      /\ subs' = subs /\ owed' = owed /\ may' = may /\ run.op = "send" /\ run'.op = "select"
  BY Zenon DEF RunForward, registryVars, historyVars
<1>a. /\ RunQueueOK
      /\ \A g \in Gates : GateQueueOK(g) /\ TargetsOK(g)
      /\ \A m \in MsgIds : BracketOK(m)
      /\ \A s \in Sessions : \A i \in DOMAIN delivered[s] : DeliveredOK(s, delivered[s][i])
      /\ finished \subseteq DOMAIN log
      /\ DeliveredInOrder /\ SubscribedMissNothing /\ OnlySubscribersReceive
  BY Zenon DEF DeliveryInv, DeliveryExact
<1>b. PICK m, h : m = run.msg /\ h = GateOf[log[m].stream]
  BY Zenon
<1>c. InFlight(m) /\ m \in MsgIds /\ \A i \in DOMAIN broadcast : m < broadcast[i]
  BY <1>0, <1>a, <1>b, PipeElements, Zenon DEF RunQueueOK
<1>d. h \in Gates
  BY <1>b, <1>c, PipeElements, HubAssumption, Zenon DEF InFlight
<1>e. sender' = [sender EXCEPT ![h] = Append(sender[h], m)]
  BY <1>b, Zenon DEF RunForward
<1>f. /\ sender \in [Gates -> Seq(MsgIds)] /\ sender[h] \in Seq(MsgIds)
      /\ sender'[h] = Append(sender[h], m)
      /\ \A g \in Gates : g # h => sender'[g] = sender[g]
  BY <1>d, <1>e, Zenon DEF Types, PipeType
<1>g. /\ DOMAIN sender'[h] = DOMAIN sender[h] \cup {Len(sender[h]) + 1}
      /\ sender'[h][Len(sender[h]) + 1] = m /\ Len(sender[h]) + 1 \notin DOMAIN sender[h]
      /\ \A i \in DOMAIN sender[h] : sender'[h][i] = sender[h][i] /\ i < Len(sender[h]) + 1 /\ i \in Nat
      /\ Len(sender[h]) + 1 \in Nat
  <2>1. Added(sender[h], m, sender'[h])
    BY <1>c, <1>f, AppendElements, Zenon
  <2> QED BY <2>1, Zenon DEF Added
<1>1. \A q : Later(q) => (Later(q)' /\ q < m)
  BY <1>0, <1>b, Zenon DEF Later
<1>2. \A g \in Gates : \A q : Behind(g, q) => Behind(g, q)'
  <2>1. ASSUME NEW g \in Gates, NEW q, Behind(g, q)
        PROVE  Behind(g, q)'
    <3>1. Later(q)' /\ q < m /\ \A i \in DOMAIN sender[g] : q < sender[g][i]
      BY <1>1, <2>1, Zenon DEF Behind
    <3>2. CASE g = h
      BY <1>g, <3>1, <3>2, Zenon DEF Behind
    <3>3. CASE g # h
      BY <1>f, <3>1, <3>3, Zenon DEF Behind
    <3> QED BY <3>2, <3>3, Zenon
  <2> QED BY <2>1, Zenon
<1>3. RunQueueOK'
  BY <1>0, <1>a, Zenon DEF RunQueueOK, InFlight
<1>4. \A g, q : ForGate(g, q) => ForGate(g, q)'
  BY <1>0, Zenon DEF ForGate, InFlight
<1>5. ForGate(h, m) /\ Later(m)'
  BY <1>0, <1>b, <1>c, Zenon DEF ForGate, Later
<1>6. ASSUME NEW g \in Gates
      PROVE  GateQueueOK(g)'
  <2>1. GateQueueOK(g)
    BY <1>a, Zenon
  <2>2. sending[g] # 0 => (ForGate(g, sending[g])' /\ Behind(g, sending[g])')
    <3>1. PICK q : q = sending[g]
      BY Zenon
    <3>2. q # 0 => (ForGate(g, q)' /\ Behind(g, q)')
      BY <1>2, <1>4, <2>1, <3>1, Zenon DEF GateQueueOK
    <3> QED BY <1>0, <3>1, <3>2, Zenon
  <2>3. ASSUME NEW i \in DOMAIN sender[g]
        PROVE  /\ sender'[g][i] = sender[g][i]
               /\ ForGate(g, sender[g][i])' /\ Later(sender[g][i])'
    <3>1. PICK q : q = sender[g][i]
      BY Zenon
    <3>2. ForGate(g, q)' /\ Later(q)'
      BY <1>1, <1>4, <2>1, <3>1, Zenon DEF GateQueueOK
    <3>3. sender'[g][i] = sender[g][i]
      BY <1>f, <1>g, Zenon
    <3> QED BY <3>1, <3>2, <3>3, Zenon
  <2>4. CASE g # h
    <3>1. sender'[g] = sender[g]
      BY <1>f, <2>4, Zenon
    <3> QED BY <1>0, <2>1, <2>2, <2>3, <3>1, Zenon DEF GateQueueOK
  <2>5. CASE g = h
    <3>1. PICK k : k = Len(sender[h]) + 1
      BY Zenon
    <3>2. sender'[g][k] = m /\ DOMAIN sender'[g] = DOMAIN sender[g] \cup {k} /\ k \notin DOMAIN sender[g]
      BY <1>g, <2>5, <3>1, Zenon
    <3>3. ForGate(g, sender[g][k])' /\ Later(sender[g][k])'
      <4>1. ForGate(g, m)' /\ Later(m)'
        BY <1>4, <1>5, <2>5, Zenon
      <4> QED BY <3>2, <4>1, Zenon
    <3>4. ASSUME NEW i \in DOMAIN sender'[g], NEW j \in DOMAIN sender'[g], i < j
          PROVE  sender'[g][i] < sender'[g][j]
      <4>1. i \in DOMAIN sender[g]
        BY <1>g, <2>5, <3>1, <3>2, <3>4, SMTT(30)
      <4>2. CASE j \in DOMAIN sender[g]
        BY <2>1, <2>3, <3>4, <4>1, <4>2, Zenon DEF GateQueueOK
      <4>3. CASE j = k
        <5>1. Later(sender[g][i])
          BY <2>1, <4>1, Zenon DEF GateQueueOK
        <5> QED BY <1>1, <2>3, <3>2, <4>1, <4>3, <5>1, Zenon
      <4> QED BY <3>2, <4>2, <4>3, Zenon
    <3> QED BY <1>0, <2>2, <2>3, <3>2, <3>3, <3>4, Zenon DEF GateQueueOK
  <2> QED BY <2>4, <2>5, Zenon
<1>7. \A g \in Gates : TargetsOK(g)'
  BY <1>0, <1>a, Zenon DEF TargetsOK
<1>8. \A q \in MsgIds : BracketOK(q)'
  BY <1>0, <1>a, Zenon DEF BracketOK, InFlight
<1>9. \A s \in Sessions : \A i \in DOMAIN delivered[s] : DeliveredOK(s, delivered[s][i])'
  <2>1. ASSUME NEW s \in Sessions, NEW x, DeliveredOK(s, x)
        PROVE  DeliveredOK(s, x)'
    <3>1. PICK g : g = GateOf[log[x[1]].stream]
      BY Zenon
    <3>2. x[1] \in DOMAIN log /\ Behind(g, x[1])
      BY <2>1, <3>1, Zenon DEF DeliveredOK
    <3>3. g \in Gates
      BY <3>1, <3>2, PipeElements, HubAssumption, Zenon
    <3>4. Behind(g, x[1])'
      BY <1>2, <3>2, <3>3, Zenon
    <3> QED BY <1>0, <2>1, <3>1, <3>2, <3>4, Zenon DEF DeliveredOK
  <2> QED BY <1>0, <1>a, <2>1, Zenon
<1>10. DeliveryExact'
  BY <1>0, <1>a, Zenon DEF DeliveryExact, DeliveredInOrder, SubscribedMissNothing,
     OnlySubscribersReceive
<1> QED BY <1>0, <1>3, <1>6, <1>7, <1>8, <1>9, <1>10, <1>a, Zenon DEF DeliveryInv

(* The loop of a gate takes the next message and a snapshot of the sessions. *)
LEMMA GateTakeDelivery ==
  ASSUME Types, Types', DeliveryInv, NEW h \in Gates, GateTake(h)
  PROVE  DeliveryInv'
<1>0. /\ log' = log /\ broadcast' = broadcast /\ delivered' = delivered /\ finished' = finished
      /\ subs' = subs /\ owed' = owed /\ may' = may /\ run' = run
      /\ sending[h] = 0 /\ sender[h] # <<>>
  BY Zenon DEF GateTake, registryVars, historyVars
<1>a. /\ RunQueueOK
      /\ \A g \in Gates : GateQueueOK(g) /\ TargetsOK(g)
      /\ \A m \in MsgIds : BracketOK(m)
      /\ \A s \in Sessions : \A i \in DOMAIN delivered[s] : DeliveredOK(s, delivered[s][i])
      /\ finished \subseteq DOMAIN log
      /\ DeliveredInOrder /\ SubscribedMissNothing /\ OnlySubscribersReceive
  BY Zenon DEF DeliveryInv, DeliveryExact
<1>b. PICK m : m = Head(sender[h])
  BY Zenon
<1>c. /\ 1 \in DOMAIN sender[h] /\ m = sender[h][1] /\ m \in MsgIds
      /\ \A i \in DOMAIN Tail(sender[h]) :
            /\ i + 1 \in DOMAIN sender[h] /\ Tail(sender[h])[i] = sender[h][i + 1]
            /\ i \in Nat /\ 1 < i + 1
  BY <1>0, <1>b, PipeElements, TailElements, Zenon
<1>d. /\ sender'[h] = Tail(sender[h]) /\ sending'[h] = m
      /\ targets'[h] = {p \in SubscribersIn(subs, log[m].stream) : p[1] # log[m].exclude}
      /\ \A g \in Gates : g # h =>
            (sender'[g] = sender[g] /\ sending'[g] = sending[g] /\ targets'[g] = targets[g])
  BY <1>b, Zenon DEF GateTake, Types, PipeType
<1>e. ForGate(h, m) /\ Later(m) /\ \A i \in DOMAIN Tail(sender[h]) : m < Tail(sender[h])[i]
  BY <1>a, <1>c, Zenon DEF GateQueueOK
<1>f. m # 0
  BY <1>c, SMTT(30) DEF MsgIds
<1>1. \A q : Later(q)' <=> Later(q)
  BY <1>0, Zenon DEF Later
<1>2. \A g \in Gates : \A q : Behind(g, q) => Behind(g, q)'
  <2>1. ASSUME NEW g \in Gates, NEW q, Behind(g, q)
        PROVE  Behind(g, q)'
    <3>1. CASE g = h
      BY <1>1, <1>c, <1>d, <2>1, <3>1, ZenonT(60) DEF Behind
    <3>2. CASE g # h
      BY <1>1, <1>d, <2>1, <3>2, Zenon DEF Behind
    <3> QED BY <3>1, <3>2, Zenon
  <2> QED BY <2>1, Zenon
<1>3. RunQueueOK'
  BY <1>0, <1>a, Zenon DEF RunQueueOK, InFlight
<1>4. \A g, q : ForGate(g, q) => ForGate(g, q)'
  BY <1>0, Zenon DEF ForGate, InFlight
<1>5. ASSUME NEW g \in Gates
      PROVE  GateQueueOK(g)'
  <2>0. GateQueueOK(g)
    BY <1>a, Zenon
  <2>1. CASE g # h
    <3>1. sender'[g] = sender[g] /\ sending'[g] = sending[g]
      BY <1>d, <2>1, Zenon
    <3>2. \A i \in DOMAIN sender[g] : ForGate(g, sender[g][i])' /\ Later(sender[g][i])'
      <4>1. ASSUME NEW i \in DOMAIN sender[g]
            PROVE  ForGate(g, sender[g][i])' /\ Later(sender[g][i])'
        <5>1. PICK q : q = sender[g][i]
          BY Zenon
        <5>2. ForGate(g, q)' /\ Later(q)'
          BY <1>1, <1>4, <2>0, <5>1, Zenon DEF GateQueueOK
        <5> QED BY <3>1, <5>1, <5>2, Zenon
      <4> QED BY <4>1, Zenon
    <3>3. sending[g] # 0 => (ForGate(g, sending[g])' /\ Behind(g, sending[g])')
      <4>1. PICK q : q = sending[g]
        BY Zenon
      <4>2. q # 0 => (ForGate(g, q)' /\ Behind(g, q)')
        BY <1>2, <1>4, <2>0, <4>1, Zenon DEF GateQueueOK
      <4> QED BY <3>1, <4>1, <4>2, Zenon
    <3> QED BY <2>0, <3>1, <3>2, <3>3, Zenon DEF GateQueueOK
  <2>2. CASE g = h
    <3>1. sender'[g] = Tail(sender[g]) /\ sending'[g] = m
      BY <1>d, <2>2, Zenon
    <3>2. ASSUME NEW i \in DOMAIN sender'[g]
          PROVE  ForGate(g, sender[g][i])' /\ Later(sender[g][i])'
      <4>1. PICK q : q = sender[g][i + 1]
        BY Zenon
      <4>2. i + 1 \in DOMAIN sender[g] /\ sender'[g][i] = q
        BY <1>c, <2>2, <3>1, <3>2, <4>1, Zenon
      <4>3. ForGate(g, q)' /\ Later(q)'
        BY <1>1, <1>4, <2>0, <4>1, <4>2, Zenon DEF GateQueueOK
      <4> QED BY <4>2, <4>3, Zenon
    <3>3. \A i, j \in DOMAIN sender'[g] : i < j => sender'[g][i] < sender'[g][j]
      <4>1. ASSUME NEW i \in DOMAIN sender'[g], NEW j \in DOMAIN sender'[g], i < j
            PROVE  sender'[g][i] < sender'[g][j]
        <5>1. /\ i + 1 \in DOMAIN sender[g] /\ sender'[g][i] = sender[g][i + 1]
              /\ j + 1 \in DOMAIN sender[g] /\ sender'[g][j] = sender[g][j + 1] /\ i + 1 < j + 1
          BY <1>c, <2>2, <3>1, <4>1, SMTT(30)
        <5> QED BY <2>0, <5>1, Zenon DEF GateQueueOK
      <4> QED BY <4>1, Zenon
    <3>4. ForGate(g, sending[g])' /\ Behind(g, sending[g])'
      <4>1. ForGate(h, m)' /\ Later(m)'
        BY <1>1, <1>4, <1>e, Zenon
      <4>2. \A i \in DOMAIN sender'[g] : m < sender'[g][i]
        BY <1>e, <2>2, <3>1, Zenon
      <4>3. Behind(g, m)'
        BY <4>1, <4>2, Zenon DEF Behind
      <4> QED BY <2>2, <3>1, <4>1, <4>3, Zenon
    <3> QED BY <3>2, <3>3, <3>4, Zenon DEF GateQueueOK
  <2> QED BY <2>1, <2>2, Zenon
<1>6. ASSUME NEW g \in Gates
      PROVE  TargetsOK(g)'
  <2>1. CASE g # h
    BY <1>0, <1>a, <1>d, <2>1, SMTT(30) DEF TargetsOK
  <2>2. CASE g = h
    <3>1. owed[m] \subseteq SubscribersIn(subs, log[m].stream) /\ SubscribersIn(subs, log[m].stream) \subseteq may[m]
      BY <1>a, <1>c, <1>e, Zenon DEF BracketOK, ForGate
    <3> QED BY <1>0, <1>d, <2>2, <3>1, Zenon DEF TargetsOK
  <2> QED BY <2>1, <2>2, Zenon
<1>7. \A q \in MsgIds : BracketOK(q)'
  BY <1>0, <1>a, Zenon DEF BracketOK, InFlight
<1>8. \A s \in Sessions : \A i \in DOMAIN delivered[s] : DeliveredOK(s, delivered[s][i])'
  <2>1. ASSUME NEW s \in Sessions, NEW x, DeliveredOK(s, x)
        PROVE  DeliveredOK(s, x)'
    <3>1. PICK g : g = GateOf[log[x[1]].stream]
      BY Zenon
    <3>2. x[1] \in DOMAIN log /\ Behind(g, x[1])
      BY <2>1, <3>1, Zenon DEF DeliveredOK
    <3>3. g \in Gates
      BY <3>1, <3>2, PipeElements, HubAssumption, Zenon
    <3>4. Behind(g, x[1])'
      BY <1>2, <3>2, <3>3, Zenon
    <3>5. g = h => x[1] < m
      BY <1>c, <3>2, Zenon DEF Behind
    <3> QED BY <1>0, <1>d, <2>1, <3>1, <3>2, <3>3, <3>4, <3>5, Zenon DEF DeliveredOK
  <2> QED BY <1>0, <1>a, <2>1, Zenon
<1>9. DeliveryExact'
  BY <1>0, <1>a, ZenonT(60) DEF DeliveryExact, DeliveredInOrder, SubscribedMissNothing,
     OnlySubscribersReceive
<1> QED BY <1>0, <1>3, <1>5, <1>6, <1>7, <1>8, <1>9, <1>a, Zenon DEF DeliveryInv

(* The loop of a gate serves one session: it has not been sent the message *)
(* before, and all it was sent on this channel by this gate is older.      *)
LEMMA GateSendDelivery ==
  ASSUME Types, Types', DeliveryInv, NEW h \in Gates, NEW p \in Sessions \X Channels, GateSend(h, p)
  PROVE  DeliveryInv'
<1>0. /\ log' = log /\ broadcast' = broadcast /\ sender' = sender /\ sending' = sending
      /\ finished' = finished /\ subs' = subs /\ owed' = owed /\ may' = may /\ run' = run
      /\ sending[h] # 0 /\ p \in targets[h]
      /\ delivered' = [delivered EXCEPT ![p[1]] = Append(@, <<sending[h], p[2]>>)]
      /\ targets' = [targets EXCEPT ![h] = @ \ {p}]
  BY Zenon DEF GateSend, registryVars, historyVars
<1>a. /\ RunQueueOK
      /\ \A g \in Gates : GateQueueOK(g) /\ TargetsOK(g)
      /\ \A m \in MsgIds : BracketOK(m)
      /\ \A s \in Sessions : \A i \in DOMAIN delivered[s] : DeliveredOK(s, delivered[s][i])
      /\ finished \subseteq DOMAIN log
      /\ DeliveredInOrder /\ SubscribedMissNothing /\ OnlySubscribersReceive
  BY Zenon DEF DeliveryInv, DeliveryExact
<1>b. PICK m, r, c : m = sending[h] /\ r = p[1] /\ c = p[2]
  BY Zenon
<1>c. m \in MsgIds /\ r \in Sessions /\ c \in Channels /\ p = <<r, c>> /\ <<m, c>> \in MsgIds \X Channels
  <2>1. r \in Sessions /\ c \in Channels /\ p = <<r, c>>
    BY <1>b, SMTT(30)
  <2>2. sending[h] \in {0} \cup MsgIds
    BY PipeElements, Zenon
  <2>3. m \in MsgIds
    BY <1>0, <1>b, <2>2, Zenon
  <2> QED BY <2>1, <2>3, Zenon
<1>d. /\ delivered'[r] = Append(delivered[r], <<m, c>>)
      /\ \A s \in Sessions : s # r => delivered'[s] = delivered[s]
      /\ targets'[h] = targets[h] \ {p}
      /\ \A g \in Gates : g # h => targets'[g] = targets[g]
  BY <1>0, <1>b, <1>c, Zenon DEF Types, PipeType
<1>e. PICK k : k = Len(delivered[r]) + 1
  BY Zenon
<1>f. /\ DOMAIN delivered'[r] = DOMAIN delivered[r] \cup {k} /\ k \notin DOMAIN delivered[r]
      /\ delivered'[r][k] = <<m, c>> /\ k \in Nat
      /\ \A i \in DOMAIN delivered[r] : delivered'[r][i] = delivered[r][i] /\ i < k /\ i \in Nat
  <2>1. delivered[r] \in Seq(MsgIds \X Channels)
    BY <1>c, PipeElements, Zenon
  <2>2. PICK q, e, T : q = delivered[r] /\ e = <<m, c>> /\ T = MsgIds \X Channels
    BY Zenon
  <2>3. q \in Seq(T) /\ e \in T
    BY <1>c, <2>1, <2>2, Zenon
  <2>4. Added(q, e, Append(q, e))
    BY <2>3, AppendElements, Zenon
  <2>5. delivered'[r] = Append(q, e) /\ k = Len(q) + 1
    BY <1>d, <1>e, <2>2, Zenon
  <2> QED BY <2>2, <2>4, <2>5, Zenon DEF Added
<1>g. \A s \in Sessions : \A i \in DOMAIN delivered'[s] :
        \/ i \in DOMAIN delivered[s] /\ delivered'[s][i] = delivered[s][i]
        \/ s = r /\ i = k /\ delivered'[s][i] = <<m, c>>
  BY <1>d, <1>f, ZenonT(60)
<1>h. ForGate(h, m) /\ Behind(h, m) /\ p \in may[m] /\ r # log[m].exclude
  BY <1>0, <1>a, <1>b, Zenon DEF GateQueueOK, TargetsOK
<1>1. \A g, q : Behind(g, q) <=> Behind(g, q)'
  BY <1>0, Zenon DEF Behind, Later
<1>2. RunQueueOK'
  BY <1>0, <1>a, Zenon DEF RunQueueOK, InFlight
<1>3. \A g \in Gates : GateQueueOK(g)'
  BY <1>0, <1>1, <1>a, ZenonT(60) DEF GateQueueOK, ForGate, InFlight, Later
<1>4. \A s \in Sessions : \A x : HasRecord(delivered[s], x) => HasRecord(delivered'[s], x)
  BY <1>d, <1>f, ZenonT(60) DEF HasRecord
<1>5. HasRecord(delivered'[r], <<m, c>>)
  BY <1>f, Zenon DEF HasRecord
<1>6. ASSUME NEW g \in Gates
      PROVE  TargetsOK(g)'
  <2>0. TargetsOK(g)
    BY <1>a, Zenon
  <2>1. ASSUME sending[g] # 0
        PROVE  /\ \A q \in targets'[g] : q \in may[sending[g]] /\ q[1] # log[sending[g]].exclude
               /\ \A q \in owed[sending[g]] : q[1] # log[sending[g]].exclude =>
                     q \in targets'[g] \/ HasRecord(delivered'[q[1]], <<sending[g], q[2]>>)
    <3>1. targets'[g] \subseteq targets[g] /\ \A q \in targets[g] \ targets'[g] : g = h /\ q = p
      BY <1>d, Zenon
    <3>2. sending[g] \in MsgIds
      BY <2>1, PipeElements, Zenon
    <3>3. \A q \in owed[sending[g]] : q[1] \in Sessions
      BY <3>2, SMTT(30) DEF Types, HistoryType
    <3>4. ASSUME NEW q \in owed[sending[g]], q[1] # log[sending[g]].exclude
          PROVE  q \in targets'[g] \/ HasRecord(delivered'[q[1]], <<sending[g], q[2]>>)
      <4>1. q \in targets[g] \/ HasRecord(delivered[q[1]], <<sending[g], q[2]>>)
        BY <2>0, <2>1, <3>4, Zenon DEF TargetsOK
      <4>2. CASE HasRecord(delivered[q[1]], <<sending[g], q[2]>>)
        BY <1>4, <3>3, <4>2, Zenon
      <4>3. CASE q \in targets[g] /\ q \notin targets'[g]
        <5>1. g = h /\ q = p
          BY <3>1, <4>3, Zenon
        <5> QED BY <1>5, <1>b, <5>1, Zenon
      <4> QED BY <4>1, <4>2, <4>3, Zenon
    <3> QED BY <2>0, <2>1, <3>1, <3>4, Zenon DEF TargetsOK
  <2> QED BY <1>0, <2>1, Zenon DEF TargetsOK
<1>7. \A q \in MsgIds : BracketOK(q)'
  BY <1>0, <1>a, Zenon DEF BracketOK, InFlight
<1>8. ASSUME NEW s \in Sessions, NEW i \in DOMAIN delivered'[s]
      PROVE  DeliveredOK(s, delivered[s][i])'
  <2>1. PICK x : x = delivered'[s][i]
    BY Zenon
  <2>2. CASE x = delivered[s][i] /\ i \in DOMAIN delivered[s]
    <3>1. DeliveredOK(s, x)
      BY <1>a, <2>2, Zenon
    <3>2. PICK g : g = GateOf[log[x[1]].stream]
      BY Zenon
    <3>3. x[1] \in DOMAIN log /\ Behind(g, x[1])
      BY <3>1, <3>2, Zenon DEF DeliveredOK
    <3>4. g \in Gates
      BY <3>2, <3>3, PipeElements, HubAssumption, Zenon
    <3>5. targets'[g] \subseteq targets[g]
      BY <1>d, <3>4, Zenon
    <3>6. DeliveredOK(s, x)'
      BY <1>0, <1>1, <3>1, <3>2, <3>3, <3>5, Zenon DEF DeliveredOK
    <3> QED BY <2>1, <3>6, Zenon
  <2>3. CASE s = r /\ x = <<m, c>>
    <3>1. x[1] = m /\ x[2] = c /\ GateOf[log[m].stream] = h /\ m \in DOMAIN log
      BY <1>h, <2>3, Zenon DEF ForGate, InFlight
    <3>2. <<s, x[2]>> \notin targets'[h]
      BY <1>c, <1>d, <2>3, <3>1, Zenon
    <3>3. Behind(h, m)'
      BY <1>1, <1>h, Zenon
    <3>4. DeliveredOK(s, x)'
      BY <1>0, <1>b, <3>1, <3>2, <3>3, Zenon DEF DeliveredOK
    <3> QED BY <2>1, <3>4, Zenon
  <2> QED BY <1>g, <2>1, <2>2, <2>3, Zenon
<1>9. DeliveredInOrder'
  <2>1. ASSUME NEW s \in Sessions, NEW i \in DOMAIN delivered'[s], NEW j \in DOMAIN delivered'[s], i < j,
               delivered'[s][i][2] = delivered'[s][j][2],
               log[delivered'[s][i][1]].stream = log[delivered'[s][j][1]].stream
        PROVE  delivered'[s][i][1] < delivered'[s][j][1]
    <3>1. CASE j \in DOMAIN delivered[s] /\ i \in DOMAIN delivered[s]
      <4>1. delivered'[s][i] = delivered[s][i] /\ delivered'[s][j] = delivered[s][j]
        BY <1>d, <1>f, <3>1, Zenon
      <4> QED BY <1>a, <2>1, <3>1, <4>1, Zenon DEF DeliveredInOrder
    <3>2. CASE s = r /\ j = k /\ i \in DOMAIN delivered[s]
      <4>1. PICK x : x = delivered[s][i]
        BY Zenon
      <4>2. delivered'[s][i] = x /\ delivered'[s][j] = <<m, c>> /\ DeliveredOK(s, x)
        BY <1>a, <1>f, <3>2, <4>1, Zenon
      <4>3. x[2] = c /\ log[x[1]].stream = log[m].stream
        BY <2>1, <4>2, SMTT(30)
      <4>4. GateOf[log[x[1]].stream] = h
        BY <1>h, <4>3, Zenon DEF ForGate
      <4>5. x[1] < m \/ <<s, x[2]>> \notin targets[h]
        BY <1>0, <1>b, <4>2, <4>4, Zenon DEF DeliveredOK
      <4>6. <<s, x[2]>> = p
        BY <1>c, <3>2, <4>3, Zenon
      <4>7. x[1] < m
        BY <1>0, <4>5, <4>6, Zenon
      <4> QED BY <4>2, <4>7, SMTT(30)
    <3>3. CASE i = k /\ s = r
      <4>1. j = k \/ j < k
        BY <1>f, <3>3, Zenon
      <4>2. i \in Nat /\ j \in Nat
        BY <1>f, <3>3, Zenon
      <4> QED BY <2>1, <3>3, <4>1, <4>2, SMTT(30)
    <3> QED BY <1>g, <3>1, <3>2, <3>3, Zenon
  <2>2. log' = log
    BY <1>0, Zenon
  <2> QED BY <2>1, <2>2, Zenon DEF DeliveredInOrder
<1>10. SubscribedMissNothing'
  <2>1. \A q \in finished : \A t \in owed[q] : t[1] \in Sessions
    BY SMTT(30) DEF Types, PipeType, HistoryType
  <2> QED BY <1>0, <1>4, <1>a, <2>1, Zenon DEF SubscribedMissNothing
<1>11. OnlySubscribersReceive'
  <2>1. ASSUME NEW s \in Sessions, NEW i \in DOMAIN delivered'[s]
        PROVE  /\ <<s, delivered'[s][i][2]>> \in may[delivered'[s][i][1]]
               /\ s # log[delivered'[s][i][1]].exclude
    <3>1. CASE i \in DOMAIN delivered[s] /\ delivered'[s][i] = delivered[s][i]
      BY <1>a, <3>1, Zenon DEF OnlySubscribersReceive
    <3>2. CASE s = r /\ delivered'[s][i] = <<m, c>>
      <4>1. delivered'[s][i][1] = m /\ delivered'[s][i][2] = c
        BY <3>2, SMTT(30)
      <4> QED BY <1>c, <1>h, <3>2, <4>1, Zenon
    <3> QED BY <1>g, <3>1, <3>2, Zenon
  <2> QED BY <1>0, <2>1, Zenon DEF OnlySubscribersReceive
<1> QED BY <1>0, <1>2, <1>3, <1>6, <1>7, <1>8, <1>9, <1>10, <1>11, <1>a, ZenonT(60)
        DEF DeliveryInv,
           DeliveryExact

(* The loop of a gate is done with a message: nobody is left to be served. *)
LEMMA GateDoneDelivery ==
  ASSUME Types, Types', DeliveryInv, NEW h \in Gates, GateDone(h)
  PROVE  DeliveryInv'
<1>0. /\ log' = log /\ broadcast' = broadcast /\ sender' = sender /\ targets' = targets
      /\ delivered' = delivered /\ subs' = subs /\ owed' = owed /\ may' = may /\ run' = run
      /\ sending[h] # 0 /\ targets[h] = {} /\ finished' = finished \cup {sending[h]}
      /\ sending' = [sending EXCEPT ![h] = 0]
  BY Zenon DEF GateDone, registryVars, historyVars
<1>a. /\ RunQueueOK
      /\ \A g \in Gates : GateQueueOK(g) /\ TargetsOK(g)
      /\ \A m \in MsgIds : BracketOK(m)
      /\ \A s \in Sessions : \A i \in DOMAIN delivered[s] : DeliveredOK(s, delivered[s][i])
      /\ finished \subseteq DOMAIN log
      /\ DeliveredInOrder /\ SubscribedMissNothing /\ OnlySubscribersReceive
  BY Zenon DEF DeliveryInv, DeliveryExact
<1>b. PICK m : m = sending[h]
  BY Zenon
<1>c. m \in MsgIds /\ MsgIds \subseteq Nat
  BY <1>0, <1>b, PipeElements, Zenon
<1>d. sending'[h] = 0 /\ \A g \in Gates : g # h => sending'[g] = sending[g]
  BY <1>0, Zenon DEF Types, PipeType
<1>e. ForGate(h, m) /\ Behind(h, m) /\ InFlight(m)
  BY <1>0, <1>a, <1>b, Zenon DEF GateQueueOK, ForGate
<1>f. \A q \in MsgIds : m < q => q # m
  BY <1>c, SMTT(30)
<1>1. \A g, q : (Behind(g, q) <=> Behind(g, q)') /\ (Later(q) <=> Later(q)')
  BY <1>0, Zenon DEF Behind, Later
<1>2. \A q : (InFlight(q) /\ q # m) => InFlight(q)'
  BY <1>0, <1>b, Zenon DEF InFlight
<1>3. \A g, q : (ForGate(g, q) /\ q # m) => ForGate(g, q)'
  BY <1>0, <1>2, Zenon DEF ForGate
<1>4. RunQueueOK'
  <2>1. ASSUME NEW i \in DOMAIN broadcast
        PROVE  InFlight(broadcast[i])'
    <3>1. PICK q \in MsgIds : q = broadcast[i]
      BY PipeElements, Zenon
    <3>2. InFlight(q) /\ m < q
      BY <1>a, <1>e, <3>1, Zenon DEF RunQueueOK, Behind, Later
    <3>3. InFlight(q)'
      BY <1>2, <1>f, <3>2, Zenon
    <3> QED BY <1>0, <3>1, <3>3, Zenon
  <2>2. ASSUME run.op = "send"
        PROVE  InFlight(run.msg)'
    <3>1. PICK q \in MsgIds : q = run.msg
      BY <2>2, PipeElements, Zenon
    <3>2. InFlight(q) /\ m < q
      BY <1>a, <1>e, <2>2, <3>1, Zenon DEF RunQueueOK, Behind, Later
    <3>3. InFlight(q)'
      BY <1>2, <1>f, <3>2, Zenon
    <3> QED BY <1>0, <3>1, <3>3, Zenon
  <2> QED BY <1>0, <1>a, <2>1, <2>2, Zenon DEF RunQueueOK
<1>5. ASSUME NEW g \in Gates
      PROVE  GateQueueOK(g)'
  <2>0. GateQueueOK(g)
    BY <1>a, Zenon
  <2>1. ASSUME NEW i \in DOMAIN sender[g]
        PROVE  ForGate(g, sender[g][i])' /\ Later(sender[g][i])'
    <3>1. PICK q \in MsgIds : q = sender[g][i]
      BY PipeElements, Zenon
    <3>2. ForGate(g, q) /\ Later(q)
      BY <2>0, <3>1, Zenon DEF GateQueueOK
    <3>3. q # m
      <4>1. CASE g = h
        BY <1>e, <1>f, <3>1, <4>1, Zenon DEF Behind
      <4>2. CASE g # h
        BY <1>e, <3>2, <4>2, Zenon DEF ForGate
      <4> QED BY <4>1, <4>2, Zenon
    <3>4. ForGate(g, q)' /\ Later(q)'
      BY <1>1, <1>3, <3>2, <3>3, Zenon
    <3> QED BY <1>0, <3>1, <3>4, Zenon
  <2>2. ASSUME sending'[g] # 0
        PROVE  ForGate(g, sending[g])' /\ Behind(g, sending[g])'
    <3>1. g # h /\ sending'[g] = sending[g]
      BY <1>d, <2>2, Zenon
    <3>2. PICK q : q = sending[g]
      BY Zenon
    <3>3. ForGate(g, q) /\ Behind(g, q)
      BY <2>0, <2>2, <3>1, <3>2, Zenon DEF GateQueueOK
    <3>4. q # m
      BY <1>e, <3>1, <3>3, Zenon DEF ForGate
    <3>5. ForGate(g, q)' /\ Behind(g, q)'
      BY <1>1, <1>3, <3>3, <3>4, Zenon
    <3> QED BY <3>1, <3>2, <3>5, Zenon
  <2> QED BY <1>0, <2>0, <2>1, <2>2, Zenon DEF GateQueueOK
<1>6. ASSUME NEW g \in Gates
      PROVE  TargetsOK(g)'
  <2>1. sending'[g] # 0 => sending'[g] = sending[g]
    BY <1>d, Zenon
  <2> QED BY <1>0, <1>a, <2>1, Zenon DEF TargetsOK
<1>7. \A q \in MsgIds : BracketOK(q)'
  BY <1>0, <1>a, Zenon DEF BracketOK, InFlight
<1>8. \A s \in Sessions : \A i \in DOMAIN delivered[s] : DeliveredOK(s, delivered[s][i])'
  <2>1. ASSUME NEW s \in Sessions, NEW x, DeliveredOK(s, x)
        PROVE  DeliveredOK(s, x)'
    <3>1. PICK g : g = GateOf[log[x[1]].stream]
      BY Zenon
    <3>2. x[1] \in DOMAIN log /\ Behind(g, x[1])
      BY <2>1, <3>1, Zenon DEF DeliveredOK
    <3>3. g \in Gates
      BY <3>1, <3>2, PipeElements, HubAssumption, Zenon
    <3>4. sending'[g] # 0 => sending'[g] = sending[g]
      BY <1>d, <3>3, Zenon
    <3>5. Behind(g, x[1])'
      BY <1>1, <3>2, Zenon
    <3> QED BY <1>0, <2>1, <3>1, <3>2, <3>4, <3>5, Zenon DEF DeliveredOK
  <2> QED BY <1>0, <1>a, <2>1, Zenon
<1>9. DeliveredInOrder' /\ OnlySubscribersReceive'
  BY <1>0, <1>a, ZenonT(60) DEF DeliveredInOrder, OnlySubscribersReceive
<1>10. SubscribedMissNothing'
  <2>1. \A q \in owed[m] : q[1] # log[m].exclude => HasRecord(delivered[q[1]], <<m, q[2]>>)
    BY <1>0, <1>a, <1>b, Zenon DEF TargetsOK
  <2> QED BY <1>0, <1>a, <1>b, <2>1, Zenon DEF SubscribedMissNothing
<1>11. finished' \subseteq DOMAIN log'
  BY <1>0, <1>a, <1>b, <1>e, Zenon DEF InFlight
<1> QED BY <1>0, <1>4, <1>5, <1>6, <1>7, <1>8, <1>9, <1>10, <1>11, Zenon DEF DeliveryInv,
           DeliveryExact

(* At the start the pipeline is empty. *)
LEMMA DeliveryInit == Init => DeliveryInv
<1> SUFFICES ASSUME Init
             PROVE  DeliveryInv
  BY Zenon
<1>1. /\ DOMAIN log = {} /\ DOMAIN broadcast = {} /\ run.op = "select" /\ finished = {}
      /\ \A g \in Gates : DOMAIN sender[g] = {} /\ sending[g] = 0
      /\ \A s \in Sessions : DOMAIN delivered[s] = {}
  BY SMTT(30) DEF Init
<1>2. RunQueueOK /\ \A g \in Gates : GateQueueOK(g) /\ TargetsOK(g)
  BY <1>1, Zenon DEF RunQueueOK, GateQueueOK, TargetsOK
<1>3. \A m \in MsgIds : BracketOK(m)
  BY <1>1, Zenon DEF BracketOK, InFlight
<1>4. DeliveryExact
  BY <1>1, Zenon
  DEF DeliveryExact, DeliveredInOrder, SubscribedMissNothing, OnlySubscribersReceive
<1> QED BY <1>1, <1>2, <1>3, <1>4, Zenon DEF DeliveryInv

(* Every step keeps DeliveryInv. *)
LEMMA DeliveryStep == Types /\ Types' /\ DeliveryInv /\ [Next]_vars => DeliveryInv'
<1> SUFFICES ASSUME Types, Types', DeliveryInv, [Next]_vars
             PROVE  DeliveryInv'
  BY Zenon
<1>1. ASSUME NEW s \in Sessions, AddSession(s)
      PROVE  DeliveryInv'
  BY <1>1, PipeQuiet, Zenon DEF AddSession, pipeVars
<1>2. ASSUME NEW s \in Sessions, Commands(s)
      PROVE  DeliveryInv'
  <2>1. ASSUME NEW p \in Pairs, SubscribeGate(s, p) \/ UnsubscribeGate(s, p)
        PROVE  DeliveryInv'
    BY <2>1, SubscriptionsChange, Zenon DEF SubscribeGate, UnsubscribeGate
  <2>2. ASSUME NEW ch \in Channels, SweepStart(s, ch)
        PROVE  DeliveryInv'
    BY <2>2, PipeQuiet, Zenon DEF SweepStart, registryVars, pipeVars, historyVars
  <2> QED BY <1>2, <2>1, <2>2, Zenon DEF Commands
<1>3. ASSUME NEW s \in Sessions, Continue(s)
      PROVE  DeliveryInv'
  <2>1. CASE SubscribeRecord(s) \/ UnsubscribeRecord(s)
    BY <2>1, PipeQuiet, Zenon DEF SubscribeRecord, UnsubscribeRecord, pipeVars, historyVars
  <2>2. CASE SweepStep(s)
    BY <2>2, SubscriptionsChange, Zenon DEF SweepStep
  <2>3. CASE SweepEnd(s)
    BY <2>3, PipeQuiet, Zenon DEF SweepEnd, registryVars, pipeVars, historyVars
  <2> QED BY <1>3, <2>1, <2>2, <2>3, Zenon DEF Continue
<1>4. ASSUME NEW s \in Sessions, Removal(s)
      PROVE  DeliveryInv'
  BY <1>4, PipeQuiet, Zenon DEF Removal, RemoveSessionLater, RemoveSession, registryVars,
     pipeVars, historyVars
<1>5. ASSUME NEW s \in Sessions, RemovalSteps(s)
      PROVE  DeliveryInv'
  <2>1. CASE RemoveSweep(s)
    BY <2>1, SubscriptionsChange, Zenon DEF RemoveSweep
  <2>2. CASE RemoveDelete(s)
    <3>1. run' = run \/ (run.op # "send" /\ run'.op # "send")
      BY <2>2, SMTT(30) DEF RemoveDelete
    <3> QED BY <2>2, <3>1, PipeQuiet, Zenon DEF RemoveDelete, pipeVars, historyVars
  <2> QED BY <1>5, <2>1, <2>2, Zenon DEF RemovalSteps
<1>6. ASSUME NEW st \in Streams, NEW ex \in Whisperers \cup {NoSession}, BroadcastMessage(st, ex)
      PROVE  DeliveryInv'
  BY <1>6, BroadcastDelivery, Zenon
<1>7. CASE Run
  <2>1. CASE RunRegister
    <3>1. run' = run \/ (run.op # "send" /\ run'.op # "send")
      BY <2>1, Zenon DEF RunRegister
    <3> QED BY <2>1, <3>1, PipeQuiet, Zenon DEF RunRegister, registryVars, pipeVars, historyVars
  <2> QED BY <1>7, <2>1, RunBroadcastDelivery, RunForwardDelivery, Zenon DEF Run
<1>8. ASSUME NEW g \in Gates, GateLoop(g)
      PROVE  DeliveryInv'
  <2>1. CASE GateLeave(g) \/ GateResume(g)
    BY <2>1, PipeQuiet, Zenon DEF GateLeave, GateResume, registryVars, historyVars
  <2> QED BY <1>8, <2>1, GateTakeDelivery, GateSendDelivery, GateDoneDelivery, Zenon DEF GateLoop
<1>9. CASE Shutdown
  <2>1. run.op # "send" /\ run'.op # "send"
    BY <1>9, Zenon DEF Shutdown
  <2> QED BY <1>9, <2>1, PipeQuiet, Zenon DEF Shutdown, registryVars, pipeVars, historyVars
<1>10. CASE UNCHANGED vars
  BY <1>10, PipeQuiet, Zenon DEF vars, registryVars, pipeVars, historyVars
<1> QED BY <1>1, <1>2, <1>3, <1>4, <1>5, <1>6, <1>7, <1>8, <1>9, <1>10, Zenon DEF Next

(***************************************************************************)
(* What BroadcastMessage promises: whoever stays subscribed is sent the    *)
(* messages of the stream, all, in order and once, and nobody else is.     *)
(***************************************************************************)
THEOREM DeliveryIsExact == Spec => []DeliveryExact
<1>1. DeliveryInv => DeliveryExact
  BY Zenon DEF DeliveryInv
<1> QED BY <1>1, TypesHold, DeliveryInit, DeliveryStep, PTL DEF Spec
=============================================================================
