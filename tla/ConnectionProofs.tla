-------------------------- MODULE ConnectionProofs --------------------------
(***************************************************************************)
(* Proofs about the connections of a node and the end of its process, for  *)
(* every capacity of a session's channel, every way a connection may fail  *)
(* and every number of messages, clients and handlers: a WebSocket session *)
(* leaves the node once and is never left behind in it (Session), the      *)
(* response of a session over SSE is what the session was sent             *)
(* (SseSession), and the process stops in the order it promises (Runner).  *)
(*                                                                         *)
(* A WebSocket session is driven by the steps of its goroutines, so the    *)
(* invariant is about their order (WellOrdered) and about who holds the    *)
(* right to call executor.Disconnect (OneDisconnect): the session itself   *)
(* while it is connected, then the one goroutine that found it so, then    *)
(* nobody. What is in the hub, is closed or is about to be follows from    *)
(* where that right is.                                                    *)
(***************************************************************************)
EXTENDS Session, SseSession, Runner, SequenceTheorems, TLAPS

\* e is somewhere in s
Contains(s, e) == \E i \in 1 .. Len(s) : s[i] = e

\* the steps after which a goroutine has nothing left of its own
Final == {"receive", "write", "writing", "addPing", "pingCheck", "pongCheck",
          "authenticate", "serve", "isClosed", "read"}

\* the steps that a goroutine never puts off
First == {"exec", "connected", "authenticate"}

\* The order of the steps of a goroutine.  A final step is the last one;
\* executor.Disconnect is deferred and runs at once; close() is followed by
\* disconnectFromNode, except at the end of disconnectNow, and so is the check
\* at its beginning.
OrderedAt(s, i) ==
    /\ s[i] \in Final => i = Len(s)
    /\ s[i] \in First => i = 1
    /\ s[i] = "close" => i = Len(s) \/ s[i + 1] = "leave"
    /\ s[i] = "ifConnected" => i < Len(s) /\ s[i + 1] = "leave"

\* the steps of s are in that order
WellOrdered(s) == \A i \in 1 .. Len(s) : OrderedAt(s, i)

\* only the handler authenticates, and the reader starts after it
HandlerFirst ==
    /\ \A t \in Threads \ {"handler"} :
           ~Contains(todo[t], "connected") /\ ~Contains(todo[t], "authenticate")
    /\ Contains(todo["handler"], "serve") \/ Contains(todo["handler"], "authenticate")
           => todo["reader"] = <<>>

\* Authenticated has marked the session as connected, or never will
Registered ==
    ~Contains(todo["handler"], "connected") /\ ~Contains(todo["handler"], "authenticate")

\* the goroutine has found s.Connected set and is about to call executor.Disconnect
Leaving(t) == Contains(todo[t], "exec")

\* Node.Disconnect belongs to whoever finds s.Connected set: there is one
\* right to call it, and it is in one place only.
OneDisconnect ==
    /\ left <= 1
    /\ ~Registered => ~connected
    /\ connected \/ ~Registered => left = 0 /\ \A t \in Threads : ~Leaving(t)
    /\ \A t \in Threads : Leaving(t) => left = 0 /\ \A u \in Threads : Leaving(u) => u = t

\* A session in the hub is connected, or about to be removed, or came early.
HubKept == inHub => connected \/ early \/ \E t \in Threads : Leaving(t)

\* A closed session that is connected is about to be disconnected.
ClosedLeaves == closed /\ connected => LeavePending \/ early

\* the goroutine closes the session last
EndsInClose(s) == s # <<>> /\ s[Len(s)] = "close"

\* Who closes the session last, in disconnectNow, has taken it out of the node.
CloseComesLast ==
    \A t \in Threads : EndsInClose(todo[t]) =>
        \/ Contains(todo[t], "ifConnected")
        \/ Registered /\ (connected => Contains(todo[t], "leave"))

\* nothing in s is the last step of a goroutine
NoneFinal(s) == \A i \in 1 .. Len(s) : s[i] \notin Final

-----------------------------------------------------------------------------
(* The steps a goroutine has left.                                         *)

\* The methods a goroutine calls from within another one (Call).
PlainCalls == {<<>>, Disconnect, <<"send">>, <<"send">> \o Disconnect}
\* and with the deferred executor.Disconnect
Calls == PlainCalls \cup {<<"exec">>}

\* What a goroutine turns to when it has nothing left (Become).
PlainTurns == {<<>>, <<"writeClose">> \o disconnectNow, <<"write">>, <<"writing">>,
               <<"receive">>, <<"addPing">>, disconnectNow, Disconnect, <<"pingCheck">>,
               <<"pongCheck">>, <<"send">> \o Disconnect, <<"isClosed">>, <<"read">>,
               HandleCommand, <<"send">>}
\* and the handler's, which authenticates and serves
Turns == PlainTurns \cup {Authenticated, <<"send">> \o Disconnect \o <<"serve">>}

\* A message and then Session.Disconnect (DisconnectWithMessage, handleNoPong).
LEMMA SendThenDisconnect ==
    LET p == <<"send">> \o Disconnect
    IN  /\ p \in Seq(Steps) /\ WellOrdered(p) /\ ~EndsInClose(p) /\ NoneFinal(p)
        /\ \A e : Contains(p, e) <=> e \in {"send", "sendClose", "close", "leave"}
        /\ p # <<>> /\ p[1] = "send"
  <1> DEFINE p == <<"send">> \o Disconnect
  <1>1. /\ Len(p) = 4 /\ p[1] = "send" /\ p[2] = "sendClose" /\ p[3] = "close"
        /\ p[4] = "leave"
    BY SMTT(30) DEF Disconnect
  <1>2. p \in Seq(Steps)
    <2>1. <<"send">> \in Seq(Steps) /\ Disconnect \in Seq(Steps)
      BY SMTT(30) DEF Disconnect, Steps
    <2> QED
      BY <2>1, SMTT(30)
  <1> HIDE DEF p
  <1>3. WellOrdered(p)
    BY <1>1, SMTT(30) DEF WellOrdered, OrderedAt, Final, First
  <1>4. ~EndsInClose(p) /\ NoneFinal(p)
    BY <1>1, SMTT(30) DEF EndsInClose, NoneFinal, Final
  <1>5. \A e : Contains(p, e) <=> e \in {"send", "sendClose", "close", "leave"}
    BY <1>1, SMTT(30) DEF Contains
  <1> QED
    BY <1>1, <1>2, <1>3, <1>4, <1>5, SMTT(30) DEF p

\* The steps of Session.Disconnect, alone or after a message, are in order.
LEMMA CallsOrdered ==
    ASSUME NEW p \in Calls
    PROVE  p \in Seq(Steps) /\ WellOrdered(p) /\ ~EndsInClose(p) /\ NoneFinal(p)
  <1> USE DEF WellOrdered, OrderedAt, EndsInClose, NoneFinal, Steps, Final, First
  <1>1. CASE p = <<>>
    BY <1>1, SMTT(30)
  <1>2. CASE p = <<"exec">>
    BY <1>2, SMTT(30)
  <1>3. CASE p = <<"send">>
    BY <1>3, SMTT(30)
  <1>4. CASE p = Disconnect
    BY <1>4, SMTT(30) DEF Disconnect
  <1>5. CASE p = <<"send">> \o Disconnect
    BY <1>5, SendThenDisconnect, Zenon
  <1> QED
    BY <1>1, <1>2, <1>3, <1>4, <1>5, Zenon DEF Calls, PlainCalls

\* So are the steps of everything a goroutine turns to; whoever ends with
\* close() is in disconnectNow.
LEMMA TurnsOrdered ==
    ASSUME NEW p \in Turns
    PROVE  /\ p \in Seq(Steps) /\ WellOrdered(p)
           /\ EndsInClose(p) => Contains(p, "ifConnected")
           /\ p # <<>> => p[1] # "exec"
  <1> USE DEF WellOrdered, OrderedAt, EndsInClose, Steps, Final, First
  <1>1. CASE p = <<>>
    BY <1>1, SMTT(30)
  <1>2. CASE \E e \in {"write", "writing", "receive", "addPing", "pingCheck",
                       "pongCheck", "isClosed", "read", "send"} : p = <<e>>
    BY <1>2, SMTT(30)
  <1>3. CASE p = Disconnect
    BY <1>3, SMTT(30) DEF Disconnect
  <1>4. CASE p = Authenticated
    BY <1>4, SMTT(30) DEF Authenticated
  <1>5. CASE p = HandleCommand
    BY <1>5, SMTT(30) DEF HandleCommand
  <1>6. CASE p = disconnectNow
    <2>1. Contains(p, "ifConnected")
      BY <1>6, SMTT(30) DEF Contains, disconnectNow
    <2> QED
      BY <1>6, <2>1, SMTT(30) DEF disconnectNow
  <1>7. CASE p = <<"writeClose">> \o disconnectNow
    <2>1. Len(p) = 6 /\ p[1] = "writeClose" /\ p[2] = "ifConnected" /\ p[3] = "leave"
      BY <1>7, SMTT(30) DEF disconnectNow
    <2>2. p[4] = "writeClose" /\ p[5] = "closeCh" /\ p[6] = "close"
      BY <1>7, SMTT(30) DEF disconnectNow
    <2>3. Contains(p, "ifConnected")
      BY <2>1, SMTT(30) DEF Contains
    <2>4. <<"writeClose">> \in Seq(Steps) /\ disconnectNow \in Seq(Steps)
      BY SMTT(30) DEF disconnectNow
    <2>5. p \in Seq(Steps)
      BY <1>7, <2>4, SMTT(30)
    <2> QED
      BY <2>1, <2>2, <2>3, <2>5, SMTT(30)
  <1>8. CASE p = <<"send">> \o Disconnect
    BY <1>8, SendThenDisconnect, Zenon
  <1>9. CASE p = <<"send">> \o Disconnect \o <<"serve">>
    <2>1. Len(p) = 5 /\ p[1] = "send" /\ p[2] = "sendClose" /\ p[3] = "close"
      BY <1>9, SMTT(30) DEF Disconnect
    <2>2. p[4] = "leave" /\ p[5] = "serve"
      BY <1>9, SMTT(30) DEF Disconnect
    <2>3. p \in Seq(Steps)
      <3>1. <<"serve">> \in Seq(Steps)
        BY SMTT(30)
      <3>2. <<"send">> \o Disconnect \in Seq(Steps)
        BY SendThenDisconnect, Zenon
      <3> QED
        BY <1>9, <3>1, <3>2, SMTT(30)
    <2> QED
      BY <2>1, <2>2, <2>3, SMTT(30)
  <1>10. (\E e \in {"write", "writing", "receive", "addPing", "pingCheck",
                   "pongCheck", "isClosed", "read", "send"} : p = <<e>>)
         \/ p \in {<<>>, Disconnect, Authenticated, HandleCommand, disconnectNow,
                   <<"writeClose">> \o disconnectNow, <<"send">> \o Disconnect,
                   <<"send">> \o Disconnect \o <<"serve">>}
    <2> HIDE DEF WellOrdered, OrderedAt, EndsInClose, Steps, Final, First
    <2> QED
      BY Zenon DEF Turns, PlainTurns
  <1> QED
    BY <1>1, <1>2, <1>3, <1>4, <1>5, <1>6, <1>7, <1>8, <1>9, <1>10, Zenon

\* The order is one of neighbours and of the ends.
LEMMA OrderedShifts ==
    ASSUME NEW s \in Seq(Steps), NEW r, NEW i \in 1 .. Len(s) - 1,
           Len(r) = Len(s) - 1, r[i] = s[i + 1],
           i < Len(s) - 1 => r[i + 1] = s[(i + 1) + 1], OrderedAt(s, i + 1)
    PROVE  OrderedAt(r, i)
  BY SMTT(30) DEF OrderedAt, First

\* The rest of the steps of a goroutine is in order, and has no deferred call.
LEMMA TailOrdered ==
    ASSUME NEW s \in Seq(Steps), s # <<>>, WellOrdered(s)
    PROVE  /\ Tail(s) \in Seq(Steps) /\ WellOrdered(Tail(s))
           /\ \A e \in First : ~Contains(Tail(s), e)
           /\ \A e : Contains(Tail(s), e) => Contains(s, e)
           /\ \A e : Contains(s, e) => e = Head(s) \/ Contains(Tail(s), e)
           /\ EndsInClose(Tail(s)) => EndsInClose(s)
  <1>1. /\ Tail(s) \in Seq(Steps) /\ Len(Tail(s)) = Len(s) - 1 /\ Head(s) = s[1]
        /\ \A i \in 1 .. Len(s) - 1 : Tail(s)[i] = s[i + 1]
        /\ Len(s) \in Nat \ {0}
    BY SMTT(30)
  <1>2. WellOrdered(Tail(s))
    <2> SUFFICES ASSUME NEW i \in 1 .. Len(s) - 1 PROVE OrderedAt(Tail(s), i)
      BY <1>1, Zenon DEF WellOrdered
    <2>1. i + 1 \in 1 .. Len(s) /\ i + 1 # 1 /\ Tail(s)[i] = s[i + 1]
      BY <1>1, SMTT(30)
    <2>2. OrderedAt(s, i + 1)
      BY <2>1, Zenon DEF WellOrdered
    <2>4. Len(Tail(s)) = Len(s) - 1
      BY SMTT(30)
    <2>3. i < Len(s) - 1 => Tail(s)[i + 1] = s[(i + 1) + 1]
      BY <1>1, SMTT(30)
    <2> QED
      BY <2>1, <2>2, <2>3, <2>4, OrderedShifts, Zenon
  <1>6. ASSUME NEW e \in First, Contains(Tail(s), e) PROVE FALSE
    <2>1. PICK i \in 1 .. Len(s) - 1 : Tail(s)[i] = e
      BY <1>1, <1>6, Zenon DEF Contains
    <2>2. i + 1 \in 1 .. Len(s) /\ s[i + 1] = e /\ i + 1 # 1
      BY <1>1, <2>1, SMTT(30)
    <2>3. OrderedAt(s, i + 1)
      BY <2>2, Zenon DEF WellOrdered
    <2> QED
      BY <2>2, <2>3, Zenon DEF OrderedAt
  <1>3. ASSUME NEW e, Contains(Tail(s), e) PROVE Contains(s, e)
    BY <1>1, <1>3, SMTT(30) DEF Contains
  <1>4. ASSUME NEW e, Contains(s, e) PROVE e = Head(s) \/ Contains(Tail(s), e)
    <2>1. PICK i \in 1 .. Len(s) : s[i] = e
      BY <1>4, Zenon DEF Contains
    <2>2. CASE i = 1
      BY <1>1, <2>1, <2>2, Zenon
    <2>3. CASE i # 1
      <3>1. i - 1 \in 1 .. Len(Tail(s)) /\ Tail(s)[i - 1] = e
        BY <1>1, <2>1, <2>3, SMTT(30)
      <3> QED
        BY <3>1, Zenon DEF Contains
    <2> QED
      BY <2>2, <2>3, Zenon
  <1>5. EndsInClose(Tail(s)) => EndsInClose(s)
    BY <1>1, SMTT(30) DEF EndsInClose
  <1> QED
    BY <1>1, <1>2, <1>3, <1>4, <1>5, <1>6, Zenon

\* Steps that are put in front of others: both are in order, and so are all.
LEMMA PrefixOrdered ==
    ASSUME NEW p \in Seq(Steps), NEW s \in Seq(Steps),
           WellOrdered(p), WellOrdered(s), ~EndsInClose(p), NoneFinal(p),
           \A e \in First : ~Contains(s, e)
    PROVE  /\ p \o s \in Seq(Steps) /\ WellOrdered(p \o s)
           /\ \A e : Contains(p \o s, e) <=> Contains(p, e) \/ Contains(s, e)
           /\ EndsInClose(p \o s) => EndsInClose(s)
           /\ p # <<>> => p \o s # <<>> /\ (p \o s)[1] = p[1]
  <1>1. /\ p \o s \in Seq(Steps) /\ Len(p \o s) = Len(p) + Len(s)
        /\ Len(p) \in Nat /\ Len(s) \in Nat
        /\ \A i \in 1 .. Len(p) : (p \o s)[i] = p[i]
        /\ \A i \in Len(p) + 1 .. Len(p) + Len(s) : (p \o s)[i] = s[i - Len(p)]
    BY SMTT(30)
  <1>2. \A e : Contains(p \o s, e) <=> Contains(p, e) \/ Contains(s, e)
    <2> SUFFICES ASSUME NEW e
                 PROVE  Contains(p \o s, e) <=> Contains(p, e) \/ Contains(s, e)
      BY Zenon
    <2>1. ASSUME Contains(p \o s, e) PROVE Contains(p, e) \/ Contains(s, e)
      <3>1. PICK i \in 1 .. Len(p) + Len(s) : (p \o s)[i] = e
        BY <1>1, <2>1, Zenon DEF Contains
      <3>2. CASE i <= Len(p)
        BY <1>1, <3>1, <3>2, SMTT(30) DEF Contains
      <3>3. CASE i > Len(p)
        <4>1. i - Len(p) \in 1 .. Len(s) /\ s[i - Len(p)] = e
          BY <1>1, <3>1, <3>3, SMTT(30)
        <4> QED
          BY <4>1, Zenon DEF Contains
      <3> QED
        BY <1>1, <3>2, <3>3, SMTT(30)
    <2>2. ASSUME Contains(p, e) PROVE Contains(p \o s, e)
      BY <1>1, <2>2, SMTT(30) DEF Contains
    <2>3. ASSUME Contains(s, e) PROVE Contains(p \o s, e)
      <3>1. PICK i \in 1 .. Len(s) : s[i] = e
        BY <2>3, Zenon DEF Contains
      <3>2. i + Len(p) \in 1 .. Len(p \o s) /\ (p \o s)[i + Len(p)] = e
        BY <1>1, <3>1, SMTT(30)
      <3> QED
        BY <3>2, Zenon DEF Contains
    <2> QED
      BY <2>1, <2>2, <2>3, Zenon
  <1>3. EndsInClose(p \o s) => EndsInClose(s)
    <2>1. CASE s = <<>>
      BY <1>1, <2>1, SMTT(30) DEF EndsInClose
    <2>2. CASE s # <<>>
      <3>1. (p \o s)[Len(p \o s)] = s[Len(s)]
        BY <1>1, <2>2, SMTT(30)
      <3> QED
        BY <2>2, <3>1, Zenon DEF EndsInClose
    <2> QED
      BY <2>1, <2>2, Zenon
  <1>4. WellOrdered(p \o s)
    <2> SUFFICES ASSUME NEW i \in 1 .. Len(p) + Len(s) PROVE OrderedAt(p \o s, i)
      BY <1>1, Zenon DEF WellOrdered
    <2>1. CASE i <= Len(p)
      <3>1. i \in 1 .. Len(p) /\ (p \o s)[i] = p[i]
        BY <1>1, <2>1, SMTT(30)
      <3>2. OrderedAt(p, i) /\ p[i] \notin Final
        BY <3>1, Zenon DEF WellOrdered, NoneFinal
      <3>3. i = Len(p) => p[i] # "close"
        BY <1>1, <3>1, SMTT(30) DEF EndsInClose
      <3>4. i < Len(p) => (p \o s)[i + 1] = p[i + 1]
        BY <1>1, <3>1, SMTT(30)
      <3> QED
        BY <1>1, <3>1, <3>2, <3>3, <3>4, SMTT(30) DEF OrderedAt
    <2>2. CASE i > Len(p)
      <3>1. i - Len(p) \in 1 .. Len(s) /\ (p \o s)[i] = s[i - Len(p)]
        BY <1>1, <2>2, SMTT(30)
      <3>2. OrderedAt(s, i - Len(p))
        BY <3>1, Zenon DEF WellOrdered
      <3>3. s[i - Len(p)] \notin First
        BY <3>1, Zenon DEF Contains
      <3>4. i < Len(p) + Len(s) => (p \o s)[i + 1] = s[(i - Len(p)) + 1]
        BY <1>1, <2>2, SMTT(30)
      <3> QED
        BY <1>1, <2>2, <3>1, <3>2, <3>3, <3>4, SMTT(30) DEF OrderedAt
    <2> QED
      BY <1>1, <2>1, <2>2, SMTT(30)
  <1>5. p # <<>> => p \o s # <<>> /\ (p \o s)[1] = p[1]
    BY <1>1, SMTT(30)
  <1> QED
    BY <1>1, <1>2, <1>3, <1>4, <1>5, Zenon

-----------------------------------------------------------------------------
(* The steps of the model, as changes of what one goroutine has left.      *)

TodoOK == todo \in [Threads -> Seq(Steps)] /\ \A t \in Threads : WellOrdered(todo[t])

\* A goroutine that calls a method has its steps to do, and then the rest.
LEMMA CallStep ==
    ASSUME TodoOK, NEW t \in Threads, todo[t] # <<>>, NEW p \in Calls, Call(t, p)
    PROVE  /\ TodoOK' /\ \A u \in Threads \ {t} : todo'[u] = todo[u]
           /\ \A e : Contains(p, e) => Contains(todo'[t], e)
           /\ \A e : Contains(todo[t], e) => e = Head(todo[t]) \/ Contains(todo'[t], e)
           /\ \A e : Contains(todo'[t], e) => Contains(todo[t], e) \/ Contains(p, e)
           /\ \A e \in First : Contains(todo'[t], e) => Contains(p, e)
           /\ EndsInClose(todo'[t]) => EndsInClose(todo[t])
  <1> DEFINE r == Tail(todo[t])
  <1>1. todo[t] \in Seq(Steps) /\ WellOrdered(todo[t])
    BY Zenon DEF TodoOK
  <1>2. /\ r \in Seq(Steps) /\ WellOrdered(r)
        /\ \A e \in First : ~Contains(r, e)
        /\ \A e : Contains(r, e) => Contains(todo[t], e)
        /\ \A e : Contains(todo[t], e) => e = Head(todo[t]) \/ Contains(r, e)
        /\ EndsInClose(r) => EndsInClose(todo[t])
    BY <1>1, TailOrdered, Zenon
  <1>3. p \in Seq(Steps) /\ WellOrdered(p) /\ ~EndsInClose(p) /\ NoneFinal(p)
    BY CallsOrdered, Zenon
  <1>4. todo'[t] = p \o r /\ todo' = [todo EXCEPT ![t] = p \o r]
    BY Zenon DEF Call, TodoOK
  <1> HIDE DEF r
  <1>5. /\ p \o r \in Seq(Steps) /\ WellOrdered(p \o r)
        /\ \A e : Contains(p \o r, e) <=> Contains(p, e) \/ Contains(r, e)
        /\ EndsInClose(p \o r) => EndsInClose(r)
    BY <1>2, <1>3, PrefixOrdered, Zenon
  <1>6. TodoOK' /\ \A u \in Threads \ {t} : todo'[u] = todo[u]
    BY <1>4, <1>5, Zenon DEF TodoOK
  <1> QED
    BY <1>2, <1>4, <1>5, <1>6, Zenon

\* A goroutine at a final step, or with none, has nothing else to lose.
LEMMA FinalIsAll ==
    ASSUME TodoOK, NEW t \in Threads, todo[t] = <<>> \/ Head(todo[t]) \in Final
    PROVE  \A e : Contains(todo[t], e) => e \in Final /\ e = Head(todo[t])
  <1>1. todo[t] \in Seq(Steps) /\ WellOrdered(todo[t])
    BY Zenon DEF TodoOK
  <1>2. CASE todo[t] = <<>>
    BY <1>2, SMTT(30) DEF Contains
  <1>3. CASE todo[t] # <<>>
    <2>1. 1 \in 1 .. Len(todo[t]) /\ Head(todo[t]) = todo[t][1] /\ todo[t][1] \in Final
      BY <1>1, <1>3, SMTT(30)
    <2>2. OrderedAt(todo[t], 1)
      BY <1>1, <2>1, Zenon DEF WellOrdered
    <2>3. Len(todo[t]) = 1
      BY <2>1, <2>2, Zenon DEF OrderedAt
    <2> QED
      BY <2>1, <2>3, SMTT(30) DEF Contains
  <1> QED
    BY <1>2, <1>3, Zenon

\* Nothing comes after a final step.
LEMMA NothingAfterFinal ==
    ASSUME TodoOK, NEW t \in Threads, todo[t] # <<>>, Head(todo[t]) \in Final
    PROVE  Tail(todo[t]) = <<>>
  <1>1. todo[t] \in Seq(Steps) /\ WellOrdered(todo[t])
    BY Zenon DEF TodoOK
  <1>2. 1 \in 1 .. Len(todo[t]) /\ todo[t][1] \in Final
    BY <1>1, SMTT(30)
  <1>3. OrderedAt(todo[t], 1)
    BY <1>1, <1>2, Zenon DEF WellOrdered
  <1>4. Len(todo[t]) = 1
    BY <1>2, <1>3, Zenon DEF OrderedAt
  <1>5. Tail(todo[t]) \in Seq(Steps) /\ Len(Tail(todo[t])) = 0
    BY <1>1, <1>4, SMTT(30)
  <1> QED
    BY <1>5, EmptySeq, Zenon

\* A goroutine that turns to something has that to do, and nothing is lost.
LEMMA BecomeStep ==
    ASSUME TodoOK, NEW t \in Threads, NEW p \in Turns, Become(t, p)
    PROVE  /\ TodoOK' /\ todo'[t] = p /\ \A u \in Threads \ {t} : todo'[u] = todo[u]
           /\ EndsInClose(todo'[t]) => Contains(todo'[t], "ifConnected")
  <1>1. p \in Seq(Steps) /\ WellOrdered(p) /\ (EndsInClose(p) => Contains(p, "ifConnected"))
    BY TurnsOrdered, Zenon
  <1>2. todo'[t] = p /\ \A u \in Threads \ {t} : todo'[u] = todo[u]
    BY Zenon DEF Become, TodoOK
  <1>3. TodoOK'
    BY <1>1, <1>2, Zenon DEF TodoOK, Become
  <1> QED
    BY <1>1, <1>2, <1>3, Zenon

\* LeavePending, said with Contains.
LEMMA LeaveIsPending ==
  /\ LeavePending <=> \E t \in Threads, st \in {"leave", "exec", "ifConnected"} : Contains(todo[t], st)
  /\ LeavePending' <=> \E t \in Threads, st \in {"leave", "exec", "ifConnected"} : Contains(todo'[t], st)
  BY Zenon DEF LeavePending, Contains

\* What nearly every step does to the steps of one goroutine: it takes no part
\* in registering the session, and loses no disconnect that is on its way.
QuietFor(t) ==
    /\ TodoOK' /\ \A u \in Threads \ {t} : todo'[u] = todo[u]
    /\ \A e \in {"exec", "connected", "authenticate", "serve"} :
           Contains(todo'[t], e) => Contains(todo[t], e)
    /\ \A e \in {"leave", "exec", "ifConnected"} :
           Contains(todo[t], e) => Contains(todo'[t], e)
    /\ EndsInClose(todo'[t]) => EndsInClose(todo[t]) \/ Contains(todo'[t], "ifConnected")
    /\ t = "reader" => todo[t] # <<>>

\* where the session is in its life
Life == HandlerFirst /\ OneDisconnect /\ HubKept /\ ClosedLeaves /\ CloseComesLast

\* Such a step takes no part in who disconnects the session.
LEMMA QuietCore ==
    ASSUME SessionTypeOK, TodoOK, Life, NEW t \in Threads, QuietFor(t),
           UNCHANGED <<connected, left>>
    PROVE  /\ HandlerFirst' /\ OneDisconnect' /\ CloseComesLast'
           /\ LeavePending => LeavePending'
           /\ \A u \in Threads : Leaving(u)' <=> Leaving(u)
  <1> USE DEF QuietFor, Threads
  <1>1. HandlerFirst'
    BY Zenon DEF Life, HandlerFirst
  <1>2. \A u \in Threads : Leaving(u)' <=> Leaving(u)
    BY Zenon DEF Leaving
  <1>3. Registered => Registered'
    BY Zenon DEF Registered
  <1>4. OneDisconnect'
    BY <1>2, <1>3, SMT, SMTT(30) DEF Life, OneDisconnect
  <1>5. LeavePending => LeavePending'
    BY LeaveIsPending, Zenon
  <1>6. CloseComesLast'
    BY <1>3, Zenon DEF Life, CloseComesLast
  <1> QED
    BY <1>1, <1>2, <1>4, <1>5, <1>6, Zenon

\* Such a step leaves the session where it is.
LEMMA QuietStep ==
    ASSUME SessionTypeOK, TodoOK, Life, NEW t \in Threads, QuietFor(t), UNCHANGED flags
    PROVE  Life'
  <1>1. /\ HandlerFirst' /\ OneDisconnect' /\ CloseComesLast'
        /\ LeavePending => LeavePending'
        /\ \A u \in Threads : Leaving(u)' <=> Leaving(u)
    BY QuietCore, Zenon DEF flags
  <1>2. HubKept'
    BY <1>1, Zenon DEF Life, HubKept, flags
  <1>3. ClosedLeaves'
    BY <1>1, Zenon DEF Life, ClosedLeaves, flags
  <1> QED
    BY <1>1, <1>2, <1>3, Zenon DEF Life

\* A step that is none of these may be called away from without a trace.
Plain == Steps \ {"exec", "leave", "ifConnected", "connected", "authenticate", "serve"}

\* A call of plain steps, from a plain step, is quiet.
LEMMA QuietCall ==
    ASSUME TodoOK, NEW t \in Threads, NEW p \in PlainCalls, Call(t, p),
           todo[t] # <<>>, Head(todo[t]) \in Plain
    PROVE  QuietFor(t)
  <1>1. /\ TodoOK' /\ \A u \in Threads \ {t} : todo'[u] = todo[u]
        /\ \A e : Contains(todo[t], e) => e = Head(todo[t]) \/ Contains(todo'[t], e)
        /\ \A e : Contains(todo'[t], e) => Contains(todo[t], e) \/ Contains(p, e)
        /\ EndsInClose(todo'[t]) => EndsInClose(todo[t])
    BY CallStep, Zenon DEF Calls
  <1>2. \A e \in {"exec", "connected", "authenticate", "serve"} : ~Contains(p, e)
    <2>1. CASE p = <<"send">> \o Disconnect
      BY <2>1, SendThenDisconnect, Zenon
    <2>2. CASE p \in {<<>>, Disconnect, <<"send">>}
      BY <2>2, SMTT(30) DEF Disconnect, Contains
    <2> QED
      BY <2>1, <2>2, Zenon DEF PlainCalls
  <1> QED
    BY <1>1, <1>2, Zenon DEF QuietFor, Plain

\* What a goroutine turns to, apart from the handler's first turn, has none of
\* the steps of the registration.
LEMMA TurnsPlain ==
    ASSUME NEW p \in PlainTurns,
           NEW e \in {"exec", "connected", "authenticate", "serve"}
    PROVE  ~Contains(p, e)
  <1>1. CASE p = <<>>
    BY <1>1, SMTT(30) DEF Contains
  <1>2. CASE \E x \in {"write", "writing", "receive", "addPing", "pingCheck",
                       "pongCheck", "isClosed", "read", "send"} : p = <<x>>
    BY <1>2, SMTT(30) DEF Contains
  <1>3. CASE p = Disconnect
    BY <1>3, SMTT(30) DEF Disconnect, Contains
  <1>4. CASE p = HandleCommand
    BY <1>4, SMTT(30) DEF HandleCommand, Contains
  <1>5. CASE p = disconnectNow
    BY <1>5, SMTT(30) DEF disconnectNow, Contains
  <1>6. CASE p = <<"writeClose">> \o disconnectNow
    <2>1. Len(p) = 6 /\ p[1] = "writeClose" /\ p[2] = "ifConnected" /\ p[3] = "leave"
      BY <1>6, SMTT(30) DEF disconnectNow
    <2>2. p[4] = "writeClose" /\ p[5] = "closeCh" /\ p[6] = "close"
      BY <1>6, SMTT(30) DEF disconnectNow
    <2> QED
      BY <2>1, <2>2, SMTT(30) DEF Contains
  <1>7. CASE p = <<"send">> \o Disconnect
    BY <1>7, SendThenDisconnect, Zenon
  <1>8. \/ \E x \in {"write", "writing", "receive", "addPing", "pingCheck",
                    "pongCheck", "isClosed", "read", "send"} : p = <<x>>
        \/ p \in {<<>>, Disconnect, HandleCommand, disconnectNow,
                  <<"writeClose">> \o disconnectNow, <<"send">> \o Disconnect}
    BY Zenon DEF PlainTurns
  <1> QED
    BY <1>1, <1>2, <1>3, <1>4, <1>5, <1>6, <1>7, <1>8, Zenon

\* A turn, from a final step that is plain or from nothing, is quiet.
LEMMA QuietTurn ==
    ASSUME TodoOK, NEW t \in Threads, NEW p \in PlainTurns, Become(t, p),
           \/ todo[t] = <<>> /\ t # "reader"
           \/ todo[t] # <<>> /\ Head(todo[t]) \in Final
    PROVE  QuietFor(t)
  <1>1. /\ TodoOK' /\ todo'[t] = p /\ \A u \in Threads \ {t} : todo'[u] = todo[u]
        /\ EndsInClose(todo'[t]) => Contains(todo'[t], "ifConnected")
    BY BecomeStep, Zenon DEF Turns
  <1>2. \A e : Contains(todo[t], e) => e \in Final
    BY FinalIsAll, Zenon
  <1> QED
    BY <1>1, <1>2, TurnsPlain, Zenon DEF QuietFor, Final

\* sendFrame and the writes of frames are quiet.
LEMMA MethodsQuiet ==
    ASSUME TodoOK, NEW t \in Threads,
           \/ sendFrame(t, "send", "data") \/ sendFrame(t, "sendClose", "close")
           \/ writeClose(t) \/ closeCh(t) \/ WriteBegin(t) \/ WriteEnd(t)
    PROVE  QuietFor(t) /\ UNCHANGED flags
  <1>1. ASSUME NEW st \in {"send", "sendClose"}, NEW frame, sendFrame(t, st, frame)
        PROVE  QuietFor(t) /\ UNCHANGED flags
    <2>1. todo[t] # <<>> /\ Head(todo[t]) \in Plain /\ UNCHANGED flags
      BY <1>1, Zenon DEF sendFrame, Locked, At, Plain, Steps
    <2>2. \E p \in PlainCalls : Call(t, p)
      BY <1>1, Zenon DEF sendFrame, PlainCalls
    <2> QED
      BY <2>1, <2>2, QuietCall, Zenon
  <1>2. CASE writeClose(t) \/ closeCh(t)
    <2>1. todo[t] # <<>> /\ Head(todo[t]) \in Plain /\ Call(t, <<>>) /\ UNCHANGED flags
      BY <1>2, Zenon DEF writeClose, closeCh, Locked, At, Plain, Steps
    <2>2. <<>> \in PlainCalls
      BY Zenon DEF PlainCalls
    <2> QED
      BY <2>1, <2>2, QuietCall, Zenon
  <1>3. CASE WriteBegin(t)
    <2>1. todo[t] # <<>> /\ Head(todo[t]) = "write" /\ UNCHANGED flags
      BY <1>3, Zenon DEF WriteBegin, At
    <2>2. Tail(todo[t]) = <<>>
      BY <2>1, NothingAfterFinal, Zenon DEF Final
    <2>3. Become(t, <<"writing">>)
      <3>1. <<"writing">> \in Seq(Steps)
        BY SMTT(30) DEF Steps
      <3>2. <<"writing">> \o Tail(todo[t]) = <<"writing">>
        BY <2>2, <3>1, ConcatEmptySeq, Zenon
      <3> QED
        BY <1>3, <3>2, Zenon DEF WriteBegin, Call, Become, TodoOK
    <2>4. <<"writing">> \in PlainTurns
      BY Zenon DEF PlainTurns
    <2> QED
      BY <2>1, <2>3, <2>4, QuietTurn, Zenon DEF Final
  <1>4. CASE WriteEnd(t)
    <2>1. todo[t] # <<>> /\ Head(todo[t]) \in Final /\ UNCHANGED flags
      BY <1>4, Zenon DEF WriteEnd, At, Final
    <2>2. \E p \in PlainTurns : Become(t, p)
      BY <1>4, Zenon DEF WriteEnd, PlainTurns
    <2> QED
      BY <2>1, <2>2, QuietTurn, Zenon
  <1> QED
    BY <1>1, <1>2, <1>3, <1>4, Zenon

\* So is everything the timers, the reader, the writer's loop and the rest of
\* the server do to the steps of a goroutine.
LEMMA LoopsQuiet ==
    ASSUME TodoOK, SendMessages \/ Reader \/ Ping \/ Pong \/ Environment
    PROVE  \E t \in Threads : QuietFor(t) /\ UNCHANGED flags
  <1>1. CASE SendMessages
    <2>1. todo["writer"] # <<>> /\ Head(todo["writer"]) \in Final /\ UNCHANGED flags
      BY <1>1, Zenon DEF SendMessages, At, Final
    <2>2. \E p \in PlainTurns : Become("writer", p)
      BY <1>1, Zenon DEF SendMessages, PlainTurns
    <2> QED
      BY <2>1, <2>2, QuietTurn, Zenon DEF Threads
  <1>2. CASE ReadLoop \/ ReadError \/ ReadMessage
    <2>1. todo["reader"] # <<>> /\ Head(todo["reader"]) \in Final /\ UNCHANGED flags
      BY <1>2, Zenon DEF ReadLoop, ReadError, ReadMessage, Locked, At, Final
    <2>2. \E p \in PlainTurns : Become("reader", p)
      BY <1>2, Zenon DEF ReadLoop, ReadError, ReadMessage, PlainTurns
    <2> QED
      BY <2>1, <2>2, QuietTurn, Zenon DEF Threads
  <1>3. CASE keepalive \/ Command \/ resetPong
    <2>1. todo["reader"] # <<>> /\ Head(todo["reader"]) \in Plain /\ UNCHANGED flags
      BY <1>3, Zenon DEF keepalive, Command, resetPong, Locked, At, Plain, Steps
    <2>2. \E p \in PlainCalls : Call("reader", p)
      BY <1>3, Zenon DEF keepalive, Command, resetPong, PlainCalls
    <2> QED
      BY <2>1, <2>2, QuietCall, Zenon DEF Threads
  <1>4. CASE Ping
    <2>1. /\ todo["ping"] = <<>> \/ Head(todo["ping"]) \in Final
          /\ UNCHANGED flags
      BY <1>4, Zenon DEF Ping, PingFires, sendPing, addPing, Locked, At, Final
    <2>2. \E p \in PlainTurns : Become("ping", p)
      BY <1>4, Zenon DEF Ping, PingFires, sendPing, addPing, PlainTurns
    <2> QED
      BY <2>1, <2>2, QuietTurn, Zenon DEF Threads
  <1>5. CASE Pong
    <2>1. /\ todo["pong"] = <<>> \/ Head(todo["pong"]) \in Final
          /\ UNCHANGED flags
      BY <1>5, Zenon DEF Pong, PongFires, handleNoPong, Locked, At, Final
    <2>2. \E p \in PlainTurns : Become("pong", p)
      BY <1>5, Zenon DEF Pong, PongFires, handleNoPong, PlainTurns
    <2> QED
      BY <2>1, <2>2, QuietTurn, Zenon DEF Threads
  <1>6. CASE Broadcast
    <2>1. todo["gate"] = <<>> /\ UNCHANGED flags
      BY <1>6, Zenon DEF Broadcast
    <2>2. \E p \in PlainTurns : Become("gate", p)
      BY <1>6, Zenon DEF Broadcast, PlainTurns
    <2> QED
      BY <2>1, <2>2, QuietTurn, Zenon DEF Threads
  <1>7. CASE DisconnectWithMessage
    <2>1. todo["remote"] = <<>> /\ UNCHANGED flags
      BY <1>7, Zenon DEF DisconnectWithMessage
    <2>2. \E p \in PlainTurns : Become("remote", p)
      BY <1>7, Zenon DEF DisconnectWithMessage, PlainTurns
    <2> QED
      BY <2>1, <2>2, QuietTurn, Zenon DEF Threads
  <1>8. CASE ClientGone
    <2>1. UNCHANGED <<todo, flags>>
      BY <1>8, Zenon DEF ClientGone
    <2>2. QuietFor("gate")
      BY <2>1, Zenon DEF QuietFor, TodoOK
    <2> QED
      BY <2>1, <2>2, Zenon DEF Threads
  <1> QED
    BY <1>1, <1>2, <1>3, <1>4, <1>5, <1>6, <1>7, <1>8, Zenon DEF Reader, Environment

-----------------------------------------------------------------------------
(* The steps that register the session, close it and take it out of the    *)
(* node.                                                                   *)

\* Session.close: whoever closes a connected session is going to disconnect it.
LEMMA CloseStep ==
    ASSUME SessionTypeOK, TodoOK, Life, NEW t \in Threads, close(t)
    PROVE  TodoOK' /\ Life'
  <1>1. /\ todo[t] # <<>> /\ Head(todo[t]) = "close" /\ Call(t, <<>>)
        /\ UNCHANGED <<connected, inHub, left, early>>
    BY Zenon DEF close, Locked, At
  <1>2. QuietFor(t)
    <2>1. <<>> \in PlainCalls /\ "close" \in Plain
      BY Zenon DEF PlainCalls, Plain, Steps
    <2> QED
      BY <1>1, <2>1, QuietCall, Zenon
  <1>3. /\ HandlerFirst' /\ OneDisconnect' /\ CloseComesLast'
        /\ \A u \in Threads : Leaving(u)' <=> Leaving(u)
    BY <1>1, <1>2, QuietCore, Zenon
  <1>4. HubKept'
    BY <1>1, <1>3, Zenon DEF Life, HubKept
  <1>5. connected => Contains(todo[t], "leave") \/ Contains(todo[t], "ifConnected")
    <2>1. todo[t] \in Seq(Steps) /\ WellOrdered(todo[t])
      BY Zenon DEF TodoOK
    <2>2. 1 \in 1 .. Len(todo[t]) /\ todo[t][1] = "close"
      BY <1>1, <2>1, SMTT(30)
    <2>3. OrderedAt(todo[t], 1)
      BY <2>1, <2>2, Zenon DEF WellOrdered
    <2>4. CASE Len(todo[t]) = 1
      BY <1>1, <2>2, <2>4, Zenon DEF Life, CloseComesLast, EndsInClose
    <2>5. CASE Len(todo[t]) # 1
      <3>1. todo[t][1 + 1] = "leave"
        BY <2>1, <2>2, <2>3, <2>5, Zenon DEF OrderedAt
      <3>2. Len(todo[t]) \in Nat
        BY <2>1, SMTT(30)
      <3>3. 1 + 1 \in 1 .. Len(todo[t])
        <4>1. ASSUME NEW n \in Nat, 1 \in 1 .. n, n # 1 PROVE 1 + 1 \in 1 .. n
          BY <4>1, SMTT(30)
        <4> QED
          BY <2>2, <2>5, <3>2, <4>1, Zenon
      <3> QED
        BY <3>1, <3>3, Zenon DEF Contains
    <2> QED
      BY <2>4, <2>5, Zenon
  <1>6. ClosedLeaves'
    BY <1>1, <1>2, <1>5, LeaveIsPending, Zenon DEF ClosedLeaves, QuietFor
  <1> QED
    BY <1>2, <1>3, <1>4, <1>6, Zenon DEF Life, QuietFor

\* disconnectFromNode: the one who clears s.Connected is the one who disconnects.
LEMMA LeaveStep ==
    ASSUME SessionTypeOK, TodoOK, Life, NEW t \in Threads, disconnectFromNode(t)
    PROVE  TodoOK' /\ Life'
  <1> DEFINE p == IF connected THEN <<"exec">> ELSE <<>>
  <1>1. /\ todo[t] # <<>> /\ Head(todo[t]) = "leave" /\ Call(t, p)
        /\ ~connected' /\ UNCHANGED <<inHub, left, early>>
    BY Zenon DEF disconnectFromNode, Locked, At
  <1>2. p \in Calls /\ \A e : Contains(p, e) <=> connected /\ e = "exec"
    BY SMTT(30) DEF Calls, PlainCalls, Contains
  <1> HIDE DEF p
  <1>3. /\ TodoOK' /\ \A u \in Threads \ {t} : todo'[u] = todo[u]
        /\ \A e : Contains(p, e) => Contains(todo'[t], e)
        /\ \A e : Contains(todo[t], e) => e = Head(todo[t]) \/ Contains(todo'[t], e)
        /\ \A e : Contains(todo'[t], e) => Contains(todo[t], e) \/ Contains(p, e)
        /\ \A e \in First : Contains(todo'[t], e) => Contains(p, e)
        /\ EndsInClose(todo'[t]) => EndsInClose(todo[t])
    BY <1>1, <1>2, CallStep, Zenon
  <1>4. HandlerFirst'
    BY <1>1, <1>2, <1>3, Zenon DEF Life, HandlerFirst, Threads
  <1>5. Registered => Registered'
    BY <1>2, <1>3, SMTT(30) DEF Registered, Threads
  <1>6. \A u \in Threads : Leaving(u)' => IF connected THEN u = t ELSE Leaving(u)
    BY <1>2, <1>3, Zenon DEF Leaving, First, Life, OneDisconnect
  <1>7. OneDisconnect'
    BY <1>1, <1>5, <1>6, Zenon DEF Life, OneDisconnect
  <1>8. HubKept'
    BY <1>1, <1>2, <1>3, SMTT(30) DEF Life, HubKept, Leaving
  <1>9. ClosedLeaves'
    BY <1>1, Zenon DEF ClosedLeaves
  <1>10. CloseComesLast'
    BY <1>1, <1>3, <1>5, Zenon DEF Life, CloseComesLast
  <1> QED
    BY <1>3, <1>4, <1>7, <1>8, <1>9, <1>10, Zenon DEF Life

\* executor.Disconnect: it is called by the only goroutine that may.
LEMMA ExecStep ==
    ASSUME SessionTypeOK, TodoOK, Life, NEW t \in Threads, ExecutorDisconnect(t)
    PROVE  TodoOK' /\ Life'
  <1>1. /\ todo[t] # <<>> /\ Head(todo[t]) = "exec" /\ Call(t, <<>>)
        /\ ~inHub' /\ left' = left + 1 /\ UNCHANGED <<connected, closed, early>>
    BY Zenon DEF ExecutorDisconnect, At
  <1>2. <<>> \in Calls /\ \A e : ~Contains(<<>>, e)
    BY SMTT(30) DEF Calls, PlainCalls, Contains
  <1>3. /\ TodoOK' /\ \A u \in Threads \ {t} : todo'[u] = todo[u]
        /\ \A e : Contains(todo[t], e) => e = Head(todo[t]) \/ Contains(todo'[t], e)
        /\ \A e : Contains(todo'[t], e) => Contains(todo[t], e) \/ Contains(<<>>, e)
        /\ \A e \in First : Contains(todo'[t], e) => Contains(<<>>, e)
        /\ EndsInClose(todo'[t]) => EndsInClose(todo[t])
    BY <1>1, <1>2, CallStep, Zenon
  <1>4. HandlerFirst'
    BY <1>1, <1>2, <1>3, Zenon DEF Life, HandlerFirst, Threads
  <1>5. Leaving(t)
    <2>1. todo[t] \in Seq(Steps)
      BY Zenon DEF TodoOK
    <2>2. 1 \in 1 .. Len(todo[t]) /\ todo[t][1] = "exec"
      BY <1>1, <2>1, SMTT(30)
    <2> QED
      BY <2>2, Zenon DEF Leaving, Contains
  <1>6. ~connected /\ Registered /\ left = 0 /\ \A u \in Threads : Leaving(u) => u = t
    BY <1>5, Zenon DEF Life, OneDisconnect
  <1>7. Registered'
    BY <1>2, <1>3, <1>6, Zenon DEF Registered, Threads
  <1>8. \A u \in Threads : ~Leaving(u)'
    BY <1>2, <1>3, <1>6, Zenon DEF Leaving, First
  <1>9. OneDisconnect'
    BY <1>1, <1>6, <1>7, <1>8, SMTT(30) DEF OneDisconnect
  <1>10. HubKept' /\ ClosedLeaves'
    BY <1>1, <1>6, Zenon DEF HubKept, ClosedLeaves
  <1>11. CloseComesLast'
    BY <1>1, <1>6, <1>7, Zenon DEF CloseComesLast
  <1> QED
    BY <1>3, <1>4, <1>9, <1>10, <1>11, Zenon DEF Life

\* The check of disconnectNow: a session that is connected is left next.
LEMMA IfConnectedStep ==
    ASSUME SessionTypeOK, TodoOK, Life, NEW t \in Threads, IfConnected(t)
    PROVE  TodoOK' /\ Life'
  <1>1. /\ todo[t] # <<>> /\ Head(todo[t]) = "ifConnected" /\ UNCHANGED flags
        /\ IF connected THEN Call(t, <<>>) ELSE Become(t, <<>>)
    BY Zenon DEF IfConnected, Locked, At
  <1>2. <<>> \in Calls /\ <<>> \in Turns /\ \A e : ~Contains(<<>>, e)
    BY SMTT(30) DEF Calls, PlainCalls, Turns, PlainTurns, Contains
  <1>3. todo[t] \in Seq(Steps) /\ WellOrdered(todo[t])
    BY Zenon DEF TodoOK
  <1>4. 1 \in 1 .. Len(todo[t]) /\ todo[t][1] = "ifConnected"
    BY <1>1, <1>3, SMTT(30)
  <1>5. CASE connected
    <2>1. /\ TodoOK' /\ \A u \in Threads \ {t} : todo'[u] = todo[u]
          /\ \A e : Contains(todo[t], e) => e = Head(todo[t]) \/ Contains(todo'[t], e)
          /\ \A e : Contains(todo'[t], e) => Contains(todo[t], e) \/ Contains(<<>>, e)
          /\ \A e \in First : Contains(todo'[t], e) => Contains(<<>>, e)
          /\ EndsInClose(todo'[t]) => EndsInClose(todo[t])
      BY <1>1, <1>2, <1>5, CallStep, Zenon
    <2>2. HandlerFirst'
      BY <1>1, <1>2, <2>1, Zenon DEF Life, HandlerFirst, Threads
    <2>3. Contains(todo'[t], "leave")
      <3>1. OrderedAt(todo[t], 1)
        BY <1>3, <1>4, Zenon DEF WellOrdered
      <3>2. 1 + 1 \in 1 .. Len(todo[t]) /\ todo[t][1 + 1] = "leave"
        BY <1>3, <1>4, <3>1, SMTT(30) DEF OrderedAt
      <3>3. Contains(todo[t], "leave")
        BY <3>2, Zenon DEF Contains
      <3> QED
        BY <1>1, <2>1, <3>3, Zenon
    <2>4. Registered /\ left = 0 /\ \A u \in Threads : ~Leaving(u)
      BY <1>5, Zenon DEF Life, OneDisconnect
    <2>5. Registered' /\ \A u \in Threads : ~Leaving(u)'
      BY <1>2, <2>1, <2>4, Zenon DEF Registered, Leaving, Threads
    <2>6. OneDisconnect'
      BY <1>1, <2>4, <2>5, SMTT(30) DEF OneDisconnect, flags
    <2>7. HubKept' /\ ClosedLeaves'
      BY <1>1, <1>5, <2>3, LeaveIsPending, Zenon DEF HubKept, ClosedLeaves, flags
    <2>8. CloseComesLast'
      BY <1>1, <2>1, <2>3, <2>5, Zenon DEF Life, CloseComesLast, flags
    <2> QED
      BY <2>1, <2>2, <2>6, <2>7, <2>8, Zenon DEF Life
  <1>6. CASE ~connected
    <2>1. /\ TodoOK' /\ todo'[t] = <<>> /\ \A u \in Threads \ {t} : todo'[u] = todo[u]
      BY <1>1, <1>2, <1>6, BecomeStep, Zenon
    <2>2. HandlerFirst'
      BY <1>2, <2>1, Zenon DEF Life, HandlerFirst, Threads
    <2>3. ~Leaving(t)
      <3>1. ~Contains(Tail(todo[t]), "exec")
        BY <1>1, <1>3, TailOrdered, Zenon DEF First
      <3> QED
        BY <1>1, <1>3, <3>1, TailOrdered, Zenon DEF Leaving
    <2>4. \A u \in Threads : Leaving(u)' <=> Leaving(u)
      BY <1>2, <2>1, <2>3, Zenon DEF Leaving
    <2>5. Registered => Registered'
      BY <1>2, <2>1, Zenon DEF Registered, Threads
    <2>6. OneDisconnect'
      BY <1>1, <2>4, <2>5, Zenon DEF Life, OneDisconnect, flags
    <2>7. HubKept' /\ ClosedLeaves'
      BY <1>1, <1>6, <2>4, Zenon DEF Life, HubKept, ClosedLeaves, flags
    <2>8. CloseComesLast'
      BY <1>1, <1>6, <2>1, <2>5, Zenon DEF Life, CloseComesLast, EndsInClose, flags
    <2> QED
      BY <2>1, <2>2, <2>6, <2>7, <2>8, Zenon DEF Life
  <1> QED
    BY <1>5, <1>6, Zenon

\* The handler's first turn, when the controller has answered.
LEMMA AuthenticateStep ==
    ASSUME SessionTypeOK, TodoOK, Life, Authenticate
    PROVE  TodoOK' /\ Life'
  <1>1. todo["handler"] # <<>> /\ Head(todo["handler"]) = "authenticate" /\ UNCHANGED flags
    BY Zenon DEF Authenticate, At
  <1>2. PICK p \in {Authenticated, <<"send">> \o Disconnect \o <<"serve">>, Disconnect} :
            Become("handler", p)
    BY Zenon DEF Authenticate
  <1>3. p \in Turns
    BY <1>2, Zenon DEF Turns, PlainTurns
  <1>4. /\ TodoOK' /\ todo'["handler"] = p
        /\ \A u \in Threads \ {"handler"} : todo'[u] = todo[u]
        /\ EndsInClose(todo'["handler"]) => Contains(todo'["handler"], "ifConnected")
    BY <1>2, <1>3, BecomeStep, Zenon DEF Threads
  <1>5. ~Contains(p, "exec")
    <2>1. CASE p = Authenticated
      BY <2>1, SMTT(30) DEF Authenticated, Contains
    <2>2. CASE p = Disconnect
      BY <2>2, SMTT(30) DEF Disconnect, Contains
    <2>3. CASE p = <<"send">> \o Disconnect \o <<"serve">>
      <3>1. Len(p) = 5 /\ p[1] = "send" /\ p[2] = "sendClose" /\ p[3] = "close"
        BY <2>3, SMTT(30) DEF Disconnect
      <3>2. p[4] = "leave" /\ p[5] = "serve"
        BY <2>3, SMTT(30) DEF Disconnect
      <3> QED
        BY <3>1, <3>2, SMTT(30) DEF Contains
    <2> QED
      BY <1>2, <2>1, <2>2, <2>3, Zenon
  <1>6. Contains(todo["handler"], "authenticate")
    <2>1. todo["handler"] \in Seq(Steps)
      BY Zenon DEF TodoOK, Threads
    <2>2. 1 \in 1 .. Len(todo["handler"]) /\ todo["handler"][1] = "authenticate"
      BY <1>1, <2>1, SMTT(30)
    <2> QED
      BY <2>2, Zenon DEF Contains
  <1>7. ~Registered /\ todo["reader"] = <<>>
    BY <1>6, Zenon DEF Registered, Life, HandlerFirst
  <1>8. ~connected /\ left = 0 /\ \A u \in Threads : ~Leaving(u)
    BY <1>7, Zenon DEF Life, OneDisconnect
  <1>9. \A u \in Threads : ~Leaving(u)'
    BY <1>4, <1>5, <1>8, Zenon DEF Leaving
  <1>10. HandlerFirst'
    BY <1>4, <1>7, Zenon DEF Life, HandlerFirst, Threads
  <1>11. OneDisconnect'
    BY <1>1, <1>8, <1>9, SMTT(30) DEF OneDisconnect, flags
  <1>12. HubKept' /\ ClosedLeaves'
    BY <1>1, <1>8, Zenon DEF Life, HubKept, ClosedLeaves, flags
  <1>13. CloseComesLast'
    BY <1>1, <1>4, <1>7, <1>8, Zenon DEF Life, CloseComesLast, flags
  <1> QED
    BY <1>4, <1>10, <1>11, <1>12, <1>13, Zenon DEF Life

\* s.Connected is set once, when nobody has left or is leaving.
LEMMA MarkStep ==
    ASSUME SessionTypeOK, TodoOK, Life, MarkConnected
    PROVE  TodoOK' /\ Life'
  <1>1. /\ todo["handler"] # <<>> /\ Head(todo["handler"]) = "connected"
        /\ Call("handler", <<>>) /\ connected' = TRUE /\ UNCHANGED <<closed, inHub, left>>
    BY Zenon DEF MarkConnected, At
  <1>2. early' = (early \/ closed)
    BY Zenon DEF MarkConnected
  <1>3. <<>> \in Calls /\ \A e : ~Contains(<<>>, e)
    BY SMTT(30) DEF Calls, PlainCalls, Contains
  <1>4. /\ TodoOK' /\ \A u \in Threads \ {"handler"} : todo'[u] = todo[u]
        /\ \A e : Contains(todo["handler"], e) =>
               e = Head(todo["handler"]) \/ Contains(todo'["handler"], e)
        /\ \A e : Contains(todo'["handler"], e) =>
               Contains(todo["handler"], e) \/ Contains(<<>>, e)
        /\ \A e \in First : Contains(todo'["handler"], e) => Contains(<<>>, e)
        /\ EndsInClose(todo'["handler"]) => EndsInClose(todo["handler"])
    BY <1>1, <1>3, CallStep, ZenonT(60) DEF Threads
  <1>5. Contains(todo["handler"], "connected")
    <2>1. todo["handler"] \in Seq(Steps)
      BY Zenon DEF TodoOK, Threads
    <2>2. 1 \in 1 .. Len(todo["handler"]) /\ todo["handler"][1] = "connected"
      BY <1>1, <2>1, SMTT(30)
    <2> QED
      BY <2>2, Zenon DEF Contains
  <1>6. ~Registered /\ left = 0 /\ \A u \in Threads : ~Leaving(u)
    BY <1>5, Zenon DEF Registered, Life, OneDisconnect
  <1>7. Registered' /\ \A u \in Threads : ~Leaving(u)'
    BY <1>3, <1>4, <1>6, Zenon DEF Registered, Leaving, First, Threads
  <1>8. HandlerFirst'
    BY <1>3, <1>4, Zenon DEF Life, HandlerFirst, Threads
  <1>9. OneDisconnect'
    BY <1>1, <1>6, <1>7, SMTT(30) DEF OneDisconnect
  <1>10. HubKept' /\ ClosedLeaves'
    BY <1>1, <1>2, Zenon DEF HubKept, ClosedLeaves
  <1>11. CloseComesLast'
    BY <1>1, <1>4, <1>6, Zenon DEF Life, CloseComesLast
  <1> QED
    BY <1>4, <1>8, <1>9, <1>10, <1>11, Zenon DEF Life

\* Hub.AddSession: a session that is not connected any more comes early.
LEMMA AddStep ==
    ASSUME SessionTypeOK, TodoOK, Life, addSession
    PROVE  TodoOK' /\ Life'
  <1>1. /\ todo["handler"] # <<>> /\ Head(todo["handler"]) = "addSession"
        /\ Call("handler", <<>>) /\ UNCHANGED <<connected, closed, left>>
    BY Zenon DEF addSession, At
  <1>2. early' = (early \/ ~connected)
    BY Zenon DEF addSession
  <1>3. QuietFor("handler")
    <2>1. <<>> \in PlainCalls /\ "addSession" \in Plain
      BY Zenon DEF PlainCalls, Plain, Steps
    <2> QED
      BY <1>1, <2>1, QuietCall, Zenon DEF Threads
  <1>4. /\ HandlerFirst' /\ OneDisconnect' /\ CloseComesLast'
        /\ LeavePending => LeavePending'
    BY <1>1, <1>3, QuietCore, Zenon DEF Threads
  <1>5. HubKept'
    BY <1>1, <1>2, Zenon DEF HubKept
  <1>6. ClosedLeaves'
    BY <1>1, <1>2, <1>4, Zenon DEF Life, ClosedLeaves
  <1> QED
    BY <1>3, <1>4, <1>5, <1>6, Zenon DEF Life, QuietFor

\* Serve: the handler has nothing left and the reader begins.
LEMMA ServeStep ==
    ASSUME SessionTypeOK, TodoOK, Life, Serve
    PROVE  TodoOK' /\ Life'
  <1>1. /\ todo["handler"] # <<>> /\ Head(todo["handler"]) = "serve" /\ UNCHANGED flags
        /\ todo' = [todo EXCEPT !["handler"] = <<>>, !["reader"] = <<"isClosed">>]
    BY Zenon DEF Serve, At
  <1>2. \A e : Contains(todo["handler"], e) => e = "serve"
    BY <1>1, FinalIsAll, Zenon DEF Threads, Final
  <1>3. /\ todo'["handler"] = <<>> /\ todo'["reader"] = <<"isClosed">>
        /\ \A u \in Threads \ {"handler", "reader"} : todo'[u] = todo[u]
    BY <1>1, Zenon DEF TodoOK, Threads
  <1>4. Contains(todo["handler"], "serve")
    <2>1. todo["handler"] \in Seq(Steps)
      BY Zenon DEF TodoOK, Threads
    <2>2. 1 \in 1 .. Len(todo["handler"]) /\ todo["handler"][1] = "serve"
      BY <1>1, <2>1, SMTT(30)
    <2> QED
      BY <2>2, Zenon DEF Contains
  <1>5. todo["reader"] = <<>>
    BY <1>4, Zenon DEF Life, HandlerFirst
  <1>6. /\ \A e : ~Contains(<<>>, e)
        /\ \A e : Contains(<<"isClosed">>, e) => e = "isClosed"
        /\ ~EndsInClose(<<>>) /\ ~EndsInClose(<<"isClosed">>)
    BY SMTT(30) DEF Contains, EndsInClose
  <1>7. TodoOK'
    <2>1. <<>> \in Seq(Steps) /\ WellOrdered(<<>>)
      BY SMTT(30) DEF WellOrdered
    <2>2. <<"isClosed">> \in Seq(Steps) /\ WellOrdered(<<"isClosed">>)
      BY SMTT(30) DEF Steps, WellOrdered, OrderedAt, Final, First
    <2> QED
      BY <1>1, <1>3, <2>1, <2>2, Zenon DEF TodoOK
  <1>8. \A u \in Threads : Leaving(u)' <=> Leaving(u)
    BY <1>2, <1>3, <1>5, <1>6, Zenon DEF Leaving
  <1>9. Registered' /\ HandlerFirst'
    BY <1>3, <1>6, Zenon DEF Registered, Life, HandlerFirst, Threads
  <1>10. OneDisconnect'
    BY <1>1, <1>8, <1>9, Zenon DEF Life, OneDisconnect, flags
  <1>11. LeavePending => LeavePending'
    BY <1>2, <1>3, <1>5, <1>6, LeaveIsPending, Zenon
  <1>12. HubKept' /\ ClosedLeaves'
    BY <1>1, <1>8, <1>11, Zenon DEF Life, HubKept, ClosedLeaves, flags
  <1>13. CloseComesLast'
    BY <1>1, <1>3, <1>6, <1>9, Zenon DEF Life, CloseComesLast, flags
  <1> QED
    BY <1>7, <1>9, <1>10, <1>12, <1>13, Zenon DEF Life

\* Every step keeps the order of the steps, and the session's place in its life.
LEMMA LifeStep ==
    ASSUME SessionTypeOK, TodoOK, Life, SessionNext
    PROVE  TodoOK' /\ Life'
  <1>1. ASSUME NEW t \in Threads, Method(t) PROVE TodoOK' /\ Life'
    <2>1. CASE close(t)
      BY <2>1, CloseStep, Zenon
    <2>2. CASE disconnectFromNode(t)
      BY <2>2, LeaveStep, Zenon
    <2>3. CASE ExecutorDisconnect(t)
      BY <2>3, ExecStep, Zenon
    <2>4. CASE IfConnected(t)
      BY <2>4, IfConnectedStep, Zenon
    <2>5. CASE \/ sendFrame(t, "send", "data") \/ sendFrame(t, "sendClose", "close")
               \/ writeClose(t) \/ closeCh(t) \/ WriteBegin(t) \/ WriteEnd(t)
      <3>1. QuietFor(t) /\ UNCHANGED flags
        BY <2>5, MethodsQuiet, Zenon
      <3> QED
        BY <3>1, QuietStep, Zenon DEF QuietFor
    <2> QED
      BY <1>1, <2>1, <2>2, <2>3, <2>4, <2>5, Zenon DEF Method
  <1>2. CASE Handler
    BY <1>2, AuthenticateStep, MarkStep, AddStep, ServeStep, Zenon DEF Handler
  <1>3. CASE SendMessages \/ Reader \/ Ping \/ Pong \/ Environment
    <2>1. PICK t \in Threads : QuietFor(t) /\ UNCHANGED flags
      BY <1>3, LoopsQuiet, Zenon
    <2> QED
      BY <2>1, QuietStep, Zenon DEF QuietFor
  <1> QED
    BY <1>1, <1>2, <1>3, Zenon DEF SessionNext, Goroutine

-----------------------------------------------------------------------------
(* The types, and the channel of the session.                              *)

\* The channel of the session, and the frames in it.
ChannelOK ==
    /\ sendCh \in BOOLEAN /\ buf \in Seq({"data", "close"}) /\ Len(buf) <= SendCap
    /\ closes \in Nat /\ ChannelClosedOnce

\* The flags and the timers of the session, and the state of its connection.
FlagsOK ==
    /\ connected \in BOOLEAN /\ closed \in BOOLEAN /\ broken \in BOOLEAN
    /\ pingTimer \in BOOLEAN /\ pongTimer \in BOOLEAN
    /\ inHub \in BOOLEAN /\ early \in BOOLEAN

\* The connection, the holder of s.mu, and the counters.
CountersOK ==
    /\ conn \in {"up", "gone", "closed"} /\ mu \in Threads \cup {Nobody}
    /\ left \in Nat /\ inputs \in Nat

\* the types of everything else
DataOK == ChannelOK /\ FlagsOK /\ CountersOK

\* The channel is closed only while it is open, and never holds more than
\* its capacity.
LEMMA ChannelStep ==
    ASSUME ChannelOK, SessionNext
    PROVE  ChannelOK'
  <1> USE DEF ChannelOK, ChannelClosedOnce
  <1>1. ASSUME NEW t \in Threads, NEW st, NEW frame \in {"data", "close"},
               sendFrame(t, st, frame)
        PROVE  ChannelOK'
    <2>1. CASE UNCHANGED chanVars
      BY <2>1, Zenon DEF chanVars
    <2>2. CASE /\ sendCh /\ Len(buf) < SendCap
               /\ buf' = Append(buf, frame) /\ UNCHANGED <<sendCh, closes>>
      BY <2>2, SessionAssumption, SMTT(30)
    <2>3. CASE sendCh /\ closes' = closes + 1 /\ sendCh' = FALSE /\ UNCHANGED buf
      <3>1. closes' = 1 /\ buf' = buf
        BY <2>3, SMTT(30)
      <3>2. ~sendCh' /\ sendCh' \in BOOLEAN
        BY <2>3, Zenon
      <3> QED
        BY <3>1, <3>2, SMTT(30)
    <2> QED
      BY <1>1, <2>1, <2>2, <2>3, Zenon DEF sendFrame
  <1>2. ASSUME NEW t \in Threads, closeCh(t) PROVE ChannelOK'
    <2>1. /\ ~sendCh' /\ sendCh' \in BOOLEAN /\ buf' = buf
          /\ closes' = IF sendCh THEN closes + 1 ELSE closes
      BY <1>2, Zenon DEF closeCh
    <2> QED
      BY <2>1, SMTT(30)
  <1>3. CASE SendMessages
    <2>1. sendCh' = sendCh /\ closes' = closes
      BY <1>3, Zenon DEF SendMessages
    <2>2. buf' \in Seq({"data", "close"}) /\ Len(buf') <= SendCap
      BY <1>3, SessionAssumption, SMTT(30) DEF SendMessages
    <2> QED
      BY <2>1, <2>2, Zenon
  <1>4. CASE UNCHANGED chanVars
    BY <1>4, Zenon DEF chanVars
  <1>5. ASSUME NEW t \in Threads, Method(t) PROVE ChannelOK'
    <2>1. CASE \/ close(t) \/ disconnectFromNode(t) \/ ExecutorDisconnect(t)
               \/ IfConnected(t) \/ writeClose(t) \/ WriteBegin(t) \/ WriteEnd(t)
      BY <1>4, <2>1, Zenon DEF close, disconnectFromNode, ExecutorDisconnect, IfConnected,
                  writeClose, WriteBegin, WriteEnd
    <2> QED
      BY <1>1, <1>2, <1>5, <2>1, Zenon DEF Method
  <1>6. CASE Handler \/ Reader
    BY <1>4, <1>6, Zenon DEF Handler, Authenticate, MarkConnected, addSession, Serve,
                  Reader, ReadLoop, ReadError, keepalive, Command, resetPong
  <1>7. CASE Ping \/ Pong \/ Environment
    BY <1>4, <1>7, Zenon DEF Ping, PingFires, sendPing, addPing, Pong, PongFires,
                  handleNoPong, Environment, ReadMessage, Broadcast,
                  DisconnectWithMessage, ClientGone
  <1> QED
    BY <1>3, <1>5, <1>6, <1>7, Zenon DEF SessionNext, Goroutine

\* The flags stay flags.
LEMMA FlagsStep ==
    ASSUME FlagsOK, SessionNext
    PROVE  FlagsOK'
  <1> USE SessionAssumption DEF FlagsOK, flags, connVars, timers
  <1>1. ASSUME NEW t \in Threads, Method(t) PROVE FlagsOK'
    <2>1. CASE sendFrame(t, "send", "data") \/ sendFrame(t, "sendClose", "close")
      BY <2>1, Zenon DEF sendFrame
    <2>2. CASE close(t) \/ disconnectFromNode(t)
      BY <2>2, Zenon DEF close, disconnectFromNode
    <2>3. CASE ExecutorDisconnect(t) \/ IfConnected(t) \/ writeClose(t) \/ closeCh(t)
      BY <2>3, Zenon DEF ExecutorDisconnect, IfConnected, writeClose, closeCh
    <2>4. CASE WriteBegin(t) \/ WriteEnd(t)
      BY <2>4, ZenonT(60) DEF WriteBegin, WriteEnd
    <2> QED
      BY <1>1, <2>1, <2>2, <2>3, <2>4, ZenonT(60) DEF Method
  <1>2. CASE SendMessages \/ Environment
    BY <1>2, ZenonT(60) DEF SendMessages, Environment, ReadMessage, Broadcast,
                  DisconnectWithMessage, ClientGone
  <1>3. CASE Handler
    BY <1>3, ZenonT(60) DEF Handler, Authenticate, MarkConnected, addSession, Serve
  <1>4. CASE Reader
    BY <1>4, ZenonT(60) DEF Reader, ReadLoop, ReadError, keepalive, Command, resetPong
  <1>5. CASE Ping \/ Pong
    BY <1>5, ZenonT(60) DEF Ping, PingFires, sendPing, addPing, Pong, PongFires, handleNoPong
  <1> QED
    BY <1>1, <1>2, <1>3, <1>4, <1>5, ZenonT(60) DEF SessionNext, Goroutine

\* The rest keeps its types too.
LEMMA CountersStep ==
    ASSUME CountersOK, SessionNext
    PROVE  CountersOK'
  <1> USE DEF CountersOK, flags, connVars, Locked
  <1>1. ASSUME NEW t \in Threads, Method(t) PROVE CountersOK'
    <2>1. CASE sendFrame(t, "send", "data") \/ sendFrame(t, "sendClose", "close")
      BY <2>1, Zenon DEF sendFrame
    <2>2. CASE close(t) \/ disconnectFromNode(t)
      BY <2>2, Zenon DEF close, disconnectFromNode
    <2>3. CASE ExecutorDisconnect(t) \/ IfConnected(t) \/ writeClose(t) \/ closeCh(t)
      BY <2>3, SMTT(30) DEF ExecutorDisconnect, IfConnected, writeClose, closeCh
    <2>4. CASE WriteBegin(t) \/ WriteEnd(t)
      BY <2>4, Zenon DEF WriteBegin, WriteEnd
    <2> QED
      BY <1>1, <2>1, <2>2, <2>3, <2>4, Zenon DEF Method
  <1>2. CASE SendMessages \/ Environment
    BY <1>2, SMTT(30) DEF SendMessages, Environment, ReadMessage, Broadcast,
                  DisconnectWithMessage, ClientGone
  <1>3. CASE Handler
    BY <1>3, Zenon DEF Handler, Authenticate, MarkConnected, addSession, Serve
  <1>4. CASE Reader
    BY <1>4, Zenon DEF Reader, ReadLoop, ReadError, keepalive, Command, resetPong
  <1>5. CASE Ping \/ Pong
    BY <1>5, Zenon DEF Ping, PingFires, sendPing, addPing, Pong, PongFires, handleNoPong
  <1> QED
    BY <1>1, <1>2, <1>3, <1>4, <1>5, Zenon DEF SessionNext, Goroutine

\* Every reachable state of Session is well typed, keeps the goroutines' steps
\* in order, and has at most one goroutine that may call executor.Disconnect.
LEMMA SessionInvariant == SessionSpec => [](DataOK /\ TodoOK /\ Life)
  <1> DEFINE IInv == DataOK /\ TodoOK /\ Life
  <1>1. SessionInit => IInv
    <2> SUFFICES ASSUME SessionInit PROVE IInv
      BY Zenon
    <2>1. DataOK
      <3>1. ChannelOK
        BY SessionAssumption, SMTT(30) DEF SessionInit, ChannelOK, ChannelClosedOnce
      <3>2. FlagsOK
        BY SessionAssumption, Zenon DEF SessionInit, FlagsOK
      <3>3. CountersOK
        BY Zenon DEF SessionInit, CountersOK
      <3> QED
        BY <3>1, <3>2, <3>3, Zenon DEF DataOK
    <2>2. /\ todo["handler"] = <<"authenticate">> /\ todo["writer"] = <<"receive">>
          /\ \A t \in Threads \ {"handler", "writer"} : todo[t] = <<>>
          /\ todo \in [Threads -> {<<>>, <<"authenticate">>, <<"receive">>}]
      BY Zenon DEF SessionInit, Threads
    <2>3. \A p \in {<<>>, <<"authenticate">>, <<"receive">>} :
              p \in Seq(Steps) /\ WellOrdered(p) /\ ~EndsInClose(p) /\ ~Contains(p, "exec")
      <3>1. /\ <<>> \in Seq(Steps) /\ WellOrdered(<<>>)
            /\ ~EndsInClose(<<>>) /\ ~Contains(<<>>, "exec")
        BY SMTT(30) DEF WellOrdered, EndsInClose, Contains
      <3>2. ASSUME NEW e \in {"authenticate", "receive"}
            PROVE  /\ <<e>> \in Seq(Steps) /\ WellOrdered(<<e>>)
                   /\ ~EndsInClose(<<e>>) /\ ~Contains(<<e>>, "exec")
        BY SMTT(30) DEF Steps, WellOrdered, OrderedAt, Final, First, EndsInClose, Contains
      <3> QED
        BY <3>1, <3>2, Zenon
    <2>4. TodoOK
      BY <2>2, <2>3, Zenon DEF TodoOK
    <2>5. HandlerFirst
      BY <2>2, SMTT(30) DEF HandlerFirst, Contains, Threads
    <2>6. \A t \in Threads : ~Leaving(t) /\ ~EndsInClose(todo[t])
      BY <2>2, <2>3, Zenon DEF Leaving
    <2>7. OneDisconnect /\ HubKept /\ ClosedLeaves /\ CloseComesLast
      BY <2>6, SMTT(30) DEF SessionInit, OneDisconnect, HubKept, ClosedLeaves, CloseComesLast
    <2> QED
      BY <2>1, <2>4, <2>5, <2>7, Zenon DEF Life
  <1>2. IInv /\ [SessionNext]_sessionVars => IInv'
    <2> SUFFICES ASSUME IInv, [SessionNext]_sessionVars PROVE IInv'
      BY Zenon
    <2>1. CASE SessionNext
      <3>1. SessionTypeOK
        BY Zenon DEF SessionTypeOK, DataOK, ChannelOK, FlagsOK, CountersOK, TodoOK
      <3> QED
        BY <2>1, <3>1, LifeStep, ChannelStep, FlagsStep, CountersStep, Zenon DEF DataOK
    <2>2. CASE UNCHANGED sessionVars
      BY <2>2, SMTT(30) DEF sessionVars, DataOK, ChannelOK, FlagsOK, CountersOK, TodoOK,
                  ChannelClosedOnce, Life, HandlerFirst,
                  OneDisconnect, Registered, Leaving, HubKept, ClosedLeaves, LeavePending,
                  CloseComesLast
    <2> QED
      BY <2>1, <2>2, Zenon
  <1> QED
    BY <1>1, <1>2, PTL DEF SessionSpec

\* A session ends once, for every capacity of its channel and however many of
\* its goroutines close it at the same time.
THEOREM SessionEndsOnce == SessionSpec => []EndedOnce
  <1>1. DataOK /\ TodoOK /\ Life => EndedOnce
    BY Zenon DEF DataOK, ChannelOK, Life, OneDisconnect, EndedOnce, DisconnectedOnce
  <1> QED
    BY <1>1, SessionInvariant, PTL

\* A closed session never stays behind in the hub, unless it was closed before
\* the node had registered it.
THEOREM NoSessionOrphaned == SessionSpec => []NoOrphanedSession
  <1>1. DataOK /\ TodoOK /\ Life => NoOrphanedSession
    BY LeaveIsPending, Zenon DEF Life, HubKept, ClosedLeaves, NoOrphanedSession, Leaving
  <1> QED
    BY <1>1, SessionInvariant, PTL

\* The variables of the session keep their types, and its channel its capacity.
THEOREM SessionTypeCorrect == SessionSpec => []SessionTypeOK
  <1>1. DataOK /\ TodoOK /\ Life => SessionTypeOK
    BY Zenon DEF SessionTypeOK, DataOK, ChannelOK, FlagsOK, CountersOK, TodoOK
  <1> QED
    BY <1>1, SessionInvariant, PTL

-----------------------------------------------------------------------------
(* A session over SSE, and the process.                                    *)

\* The writer may still write a frame to the response, or to the backlog.
Alive == ~done /\ writer \in {"idle", "writing"}

\* how many messages have left sendCh
Written == Len(response) + Len(backlog)

\* There is no close frame among the first i of the queue.
NoClose(i) == \A j \in 1 .. i : queue[j] # CloseFrame

\* the types of the sequences
SequencesOK ==
  /\ queue \in Seq(Nat) /\ response \in Seq(Nat) /\ backlog \in Seq(Nat)
  /\ sent \in Nat /\ Len(queue) <= QueueCap

\* What has been written is what was sent first, in order.
WrittenInOrder ==
  /\ \A i \in 1 .. Len(response) : response[i] = i
  /\ \A i \in 1 .. Len(backlog) : backlog[i] = Len(response) + i
  /\ established => backlog = <<>>

\* The queue goes on where the written messages end, up to the close frame;
\* while the channel is open nothing was dropped.
QueueInOrder ==
  Alive => /\ \A i \in 1 .. Len(queue) : NoClose(i) => queue[i] = Written + i
           /\ chOpen /\ NoClose(Len(queue)) => sent = Written + Len(queue)

\* The frame that is being written is a message.
WritesMessages == writer = "writing" => queue # <<>> /\ queue[1] # CloseFrame

\* The handler returns when the connection is done, or before it has been
\* established, or behind a disconnect of somebody else.
ReturnedLate ==
  /\ established => handler # "subscribe"
  /\ handler = "returned" => done \/ ~established \/ overtook
  /\ misused => handler = "returned" /\ overtook

\* the inductive invariant of an SSE session
EInv ==
  SequencesOK /\ WrittenInOrder /\ QueueInOrder /\ WritesMessages /\ ReturnedLate

\* How the frames of one call get into the queue: the first is the next message
\* or the close frame, the second is the close frame; the messages that a
\* closed or full channel drops are the last ones.
Added ==
  /\ queue' \in Seq(Nat) /\ Len(queue') \in Len(queue) .. Len(queue) + 2
  /\ \A i \in 1 .. Len(queue) : queue'[i] = queue[i]
  /\ Len(queue') > Len(queue) =>
       chOpen /\ queue'[Len(queue) + 1] \in {sent + 1, CloseFrame}
  /\ Len(queue') = Len(queue) + 2 => queue'[Len(queue) + 2] = CloseFrame
  /\ chOpen' => /\ chOpen /\ Len(queue') > Len(queue)
                /\ \/ queue'[Len(queue')] = CloseFrame
                   \/ sent' = sent + 1 /\ Len(queue') = Len(queue) + 1
  /\ sent' \in Nat

\* The first n frames, when that is fewer or more than there are.
LEMMA FirstFrames ==
  ASSUME NEW frames \in Seq(Nat), NEW n \in 0 .. Len(frames)
  PROVE  /\ SubSeq(frames, 1, n) \in Seq(Nat) /\ Len(SubSeq(frames, 1, n)) = n
         /\ \A i \in 1 .. n : SubSeq(frames, 1, n)[i] = frames[i]
  BY SubSeqProperties, SMTT(30)

\* sendFrame, of one frame or of two: it puts all of them into the queue, or
\* the first ones and closes the channel.
LEMMA EnqueuePuts ==
  ASSUME SequencesOK, NEW frames \in Seq(Nat), Enqueue(frames)
  PROVE  \E n \in 0 .. Len(frames) :
           /\ queue' \in Seq(Nat) /\ Len(queue') = Len(queue) + n
           /\ Len(queue') <= QueueCap
           /\ \A i \in 1 .. Len(queue) : queue'[i] = queue[i]
           /\ \A i \in 1 .. n : queue'[Len(queue) + i] = frames[i]
           /\ n > 0 => chOpen
           /\ chOpen' => chOpen /\ n = Len(frames)
  <1> USE SseAssumption DEF SequencesOK
  <1> DEFINE room == QueueCap - Len(queue)
             n == IF ~chOpen THEN 0 ELSE IF Len(frames) <= room THEN Len(frames) ELSE room
  <1>1. Len(frames) \in Nat /\ Len(queue) \in Nat /\ room \in Nat
    BY SMTT(30)
  <1>2. n \in 0 .. Len(frames) /\ Len(queue) + n <= QueueCap
    <2>1. CASE ~chOpen
      BY <1>1, <2>1, SMTT(30)
    <2>2. CASE chOpen /\ Len(frames) <= room
      BY <1>1, <2>2, SMTT(30)
    <2>3. CASE chOpen /\ ~(Len(frames) <= room)
      BY <1>1, <2>3, SMTT(30)
    <2> QED
      BY <2>1, <2>2, <2>3, Zenon
  <1>3. /\ n > 0 => chOpen
        /\ chOpen' => chOpen /\ n = Len(frames)
    <2>1. chOpen' => chOpen /\ Len(frames) <= (IF chOpen THEN room ELSE 0)
      BY Zenon DEF Enqueue
    <2>2. chOpen' => chOpen /\ Len(frames) <= room
      BY <2>1, Zenon
    <2>3. (chOpen /\ Len(frames) <= room) => n = Len(frames)
      BY Zenon
    <2>4. ~chOpen => n = 0
      BY Zenon
    <2> QED
      BY <2>2, <2>3, <2>4, SMTT(30)
  <1>4. queue' = queue \o SubSeq(frames, 1, n)
    <2>1. CASE ~chOpen
      <3>1. SubSeq(frames, 1, n) = <<>>
        BY <1>1, <2>1, SubSeqEmpty, SMTT(30)
      <3> QED
        BY <2>1, <3>1, ConcatEmptySeq, Zenon DEF Enqueue
    <2>2. CASE chOpen
      BY <2>2, Zenon DEF Enqueue
    <2> QED
      BY <2>1, <2>2, Zenon
  <1> HIDE DEF n, room
  <1> DEFINE new == SubSeq(frames, 1, n)
  <1>5. new \in Seq(Nat) /\ Len(new) = n /\ \A i \in 1 .. n : new[i] = frames[i]
    BY <1>2, FirstFrames, Zenon
  <1> HIDE DEF new
  <1>6. queue' = queue \o new
    BY <1>4, Zenon DEF new
  <1>7. /\ queue' \in Seq(Nat) /\ Len(queue') = Len(queue) + n
        /\ \A i \in 1 .. Len(queue) + n :
               queue'[i] = IF i <= Len(queue) THEN queue[i] ELSE new[i - Len(queue)]
    BY <1>5, <1>6, ConcatProperties, ZenonT(60)
  <1>8. n \in Nat
    BY <1>1, <1>2, SMTT(30)
  <1>9. ASSUME NEW i \in 1 .. n PROVE queue'[Len(queue) + i] = frames[i]
    <2>1. Len(queue) + i \in 1 .. Len(queue) + n /\ (Len(queue) + i) - Len(queue) = i
      BY <1>1, <1>8, SMTT(30)
    <2>2. ~(Len(queue) + i <= Len(queue))
      BY <1>1, <1>8, SMTT(30)
    <2> QED
      BY <1>5, <1>7, <2>1, <2>2, Zenon
  <1>10. ASSUME NEW i \in 1 .. Len(queue) PROVE queue'[i] = queue[i]
    <2>1. i \in 1 .. Len(queue) + n /\ i <= Len(queue)
      BY <1>1, <1>8, SMTT(30)
    <2> QED
      BY <1>7, <2>1, Zenon
  <1> QED
    BY <1>2, <1>3, <1>7, <1>9, <1>10, Zenon

\* One message.
LEMMA EnqueueMessage ==
  ASSUME SequencesOK, Enqueue(<<sent + 1>>), sent' = sent + 1
  PROVE  Added /\ Len(queue') <= QueueCap
  <1> USE DEF SequencesOK
  <1>1. <<sent + 1>> \in Seq(Nat) /\ Len(<<sent + 1>>) = 1
    BY SMTT(30)
  <1>2. PICK n \in 0 .. 1 :
           /\ queue' \in Seq(Nat) /\ Len(queue') = Len(queue) + n
           /\ Len(queue') <= QueueCap
           /\ \A i \in 1 .. Len(queue) : queue'[i] = queue[i]
           /\ \A i \in 1 .. n : queue'[Len(queue) + i] = <<sent + 1>>[i]
           /\ n > 0 => chOpen
           /\ chOpen' => chOpen /\ n = 1
    BY <1>1, EnqueuePuts, Zenon
  <1>3. n = 1 => queue'[Len(queue) + 1] = sent + 1
    BY <1>2, SMTT(30)
  <1> QED
    BY <1>2, <1>3, SMTT(30) DEF Added

\* The close frame.
LEMMA EnqueueClose ==
  ASSUME SequencesOK, Enqueue(<<CloseFrame>>), sent' = sent
  PROVE  Added /\ Len(queue') <= QueueCap
  <1> USE DEF SequencesOK
  <1>1. <<CloseFrame>> \in Seq(Nat) /\ Len(<<CloseFrame>>) = 1
    BY SMTT(30) DEF CloseFrame
  <1>2. PICK n \in 0 .. 1 :
           /\ queue' \in Seq(Nat) /\ Len(queue') = Len(queue) + n
           /\ Len(queue') <= QueueCap
           /\ \A i \in 1 .. Len(queue) : queue'[i] = queue[i]
           /\ \A i \in 1 .. n : queue'[Len(queue) + i] = <<CloseFrame>>[i]
           /\ n > 0 => chOpen
           /\ chOpen' => chOpen /\ n = 1
    BY <1>1, EnqueuePuts, Zenon
  <1>3. n = 1 => queue'[Len(queue) + 1] = CloseFrame
    BY <1>2, SMTT(30)
  <1> QED
    BY <1>2, <1>3, SMTT(30) DEF Added

\* The message of a shutdown and the close frame.
LEMMA EnqueueLast ==
  ASSUME SequencesOK, Enqueue(<<sent + 1, CloseFrame>>),
         sent' = sent + 1
  PROVE  Added /\ Len(queue') <= QueueCap
  <1> USE DEF SequencesOK
  <1>1. <<sent + 1, CloseFrame>> \in Seq(Nat) /\ Len(<<sent + 1, CloseFrame>>) = 2
    BY SMTT(30) DEF CloseFrame
  <1>2. PICK n \in 0 .. 2 :
           /\ queue' \in Seq(Nat) /\ Len(queue') = Len(queue) + n
           /\ Len(queue') <= QueueCap
           /\ \A i \in 1 .. Len(queue) : queue'[i] = queue[i]
           /\ \A i \in 1 .. n : queue'[Len(queue) + i] = <<sent + 1, CloseFrame>>[i]
           /\ n > 0 => chOpen
           /\ chOpen' => chOpen /\ n = 2
    BY <1>1, EnqueuePuts, Zenon
  <1>3. /\ n >= 1 => queue'[Len(queue) + 1] = sent + 1
        /\ n = 2 => queue'[Len(queue) + 2] = CloseFrame
    BY <1>2, SMTT(30)
  <1>4. n = 0 \/ n = 1 \/ n = 2
    BY SMTT(30)
  <1>5. chOpen' => queue'[Len(queue')] = CloseFrame
    BY <1>2, <1>3, Zenon
  <1>6. Len(queue') > Len(queue) => n >= 1 /\ chOpen
    BY <1>2, <1>4, SMTT(30)
  <1> QED
    BY <1>2, <1>3, <1>4, <1>5, <1>6, SMTT(30) DEF Added

\* What is put into the queue keeps its order.
LEMMA AddedInOrder ==
  ASSUME SequencesOK, QueueInOrder, WritesMessages, Added,
         UNCHANGED <<response, backlog, writer>>, done => done'
  PROVE  QueueInOrder' /\ WritesMessages'
  <1> USE DEF SequencesOK
  <1> DEFINE n == Len(queue)
             m == Len(queue')
  <1>1. n \in Nat /\ m \in n .. n + 2 /\ Written \in Nat /\ Written' = Written
    BY SMTT(30) DEF Added, Written
  <1>2. /\ \A i \in 1 .. n : queue'[i] = queue[i]
        /\ m > n => chOpen /\ queue'[n + 1] \in {sent + 1, CloseFrame}
        /\ m = n + 2 => queue'[n + 2] = CloseFrame
        /\ chOpen' => /\ chOpen /\ m > n
                      /\ queue'[m] = CloseFrame \/ (sent' = sent + 1 /\ m = n + 1)
    BY Zenon DEF Added
  <1>3. WritesMessages'
    <2>1. queue # <<>> => n > 0
      BY EmptySeq, SMTT(30)
    <2>2. m > 0 => queue' # <<>>
      BY EmptySeq, SMTT(30)
    <2>3. n > 0 => m > 0 /\ 1 \in 1 .. n
      BY <1>1, SMTT(30)
    <2> HIDE DEF n, m
    <2> QED
      BY <1>2, <2>1, <2>2, <2>3, Zenon DEF WritesMessages
  <1>4. QueueInOrder'
    <2>0. Alive' => Alive
      BY Zenon DEF Alive
    <2>1. ASSUME Alive'
          PROVE  /\ \A i \in 1 .. n : (\A j \in 1 .. i : queue[j] # CloseFrame) =>
                        queue[i] = Written + i
                 /\ (chOpen /\ \A j \in 1 .. n : queue[j] # CloseFrame) =>
                        sent = Written + n
      BY <2>0, <2>1, Zenon DEF QueueInOrder, NoClose
    <2> HIDE DEF n, m
    <2>2. ASSUME Alive', NEW i \in 1 .. m, \A j \in 1 .. i : queue'[j] # CloseFrame
          PROVE  queue'[i] = Written + i
      <3>2. CASE i <= n
        <4>1. i \in 1 .. n /\ \A j \in 1 .. i : queue[j] # CloseFrame
          <5>1. i \in 1 .. n /\ \A j \in 1 .. i : j \in 1 .. n
            BY <1>1, <3>2, SMTT(30)
          <5> QED
            BY <1>2, <2>2, <5>1, Zenon
        <4> QED
          BY <1>2, <2>1, <2>2, <4>1, Zenon
      <3>3. CASE i = n + 1
        <4>1. \A j \in 1 .. n : queue[j] # CloseFrame
          <5>1. \A j \in 1 .. n : j \in 1 .. i
            BY <1>1, <3>3, SMTT(30)
          <5> QED
            BY <1>2, <2>2, <5>1, Zenon
        <4>2. chOpen /\ queue'[n + 1] = sent + 1
          <5>1. m > n /\ n + 1 \in 1 .. i
            BY <1>1, <3>3, SMTT(30)
          <5> QED
            BY <1>2, <2>2, <5>1, Zenon
        <4> QED
          BY <1>1, <2>1, <2>2, <3>3, <4>1, <4>2, SMTT(30)
      <3>4. CASE i = n + 2
        <4>1. m = n + 2 /\ n + 2 \in 1 .. i
          BY <1>1, <3>4, SMTT(30)
        <4> QED
          BY <1>2, <2>2, <4>1, Zenon
      <3> QED
        BY <1>1, <3>2, <3>3, <3>4, SMTT(30)
    <2>3. ASSUME Alive', chOpen', \A j \in 1 .. m : queue'[j] # CloseFrame
          PROVE  sent' = Written + m
      <3>1. m > n /\ m \in 1 .. m
        BY <1>1, <1>2, <2>3, SMTT(30)
      <3>2. chOpen /\ sent' = sent + 1 /\ m = n + 1
        BY <1>2, <2>3, <3>1, Zenon
      <3>3. \A j \in 1 .. n : queue[j] # CloseFrame
        <4>1. \A j \in 1 .. n : j \in 1 .. m
          BY <1>1, <3>2, SMTT(30)
        <4> QED
          BY <1>2, <2>3, <4>1, Zenon
      <3> QED
        BY <1>1, <2>1, <2>3, <3>2, <3>3, SMTT(30)
    <2> QED
      BY <1>1, <2>2, <2>3, Zenon DEF QueueInOrder, NoClose, m
  <1> QED
    BY <1>3, <1>4, Zenon

\* When the first message has been written, the rest goes on where it ends.
LEMMA RestInOrder ==
  ASSUME SequencesOK, Alive, QueueInOrder, queue # <<>>, queue[1] # CloseFrame,
         queue' = Tail(queue), Written' = Written + 1, Written \in Nat,
         UNCHANGED <<chOpen, sent>>
  PROVE  QueueInOrder'
  <1> USE DEF SequencesOK
  <1> DEFINE n == Len(queue)
  <1>1. /\ Len(queue') = n - 1 /\ n \in Nat \ {0}
        /\ \A i \in 1 .. n - 1 : queue'[i] = queue[i + 1]
    BY SMTT(30)
  <1>2. /\ \A i \in 1 .. n : (\A j \in 1 .. i : queue[j] # CloseFrame) =>
               queue[i] = Written + i
        /\ (chOpen /\ \A j \in 1 .. n : queue[j] # CloseFrame) => sent = Written + n
    BY Zenon DEF QueueInOrder, NoClose
  <1> HIDE DEF n
  <1>3. ASSUME NEW i \in 0 .. n - 1, \A j \in 1 .. i : queue'[j] # CloseFrame
        PROVE  \A j \in 1 .. i + 1 : queue[j] # CloseFrame
    <2> SUFFICES ASSUME NEW j \in 1 .. i + 1, j # 1 PROVE queue[j] # CloseFrame
      BY Zenon
    <2>1. j - 1 \in 1 .. i /\ j - 1 \in 1 .. n - 1 /\ (j - 1) + 1 = j
      BY <1>1, SMTT(30)
    <2> QED
      BY <1>1, <1>3, <2>1, Zenon
  <1>4. ASSUME NEW i \in 1 .. n - 1, \A j \in 1 .. i : queue'[j] # CloseFrame
        PROVE  queue'[i] = Written + 1 + i
    <2>1. i + 1 \in 1 .. n /\ i \in 0 .. n - 1
      BY <1>1, SMTT(30)
    <2>2. queue[i + 1] = Written + (i + 1)
      BY <1>2, <1>3, <1>4, <2>1, Zenon
    <2> QED
      BY <1>1, <2>2, SMTT(30)
  <1>5. ASSUME chOpen, \A j \in 1 .. n - 1 : queue'[j] # CloseFrame
        PROVE  sent = Written + 1 + (n - 1)
    <2>1. n - 1 \in 0 .. n - 1 /\ (n - 1) + 1 = n
      BY <1>1, SMTT(30)
    <2>2. sent = Written + n
      BY <1>2, <1>3, <1>5, <2>1, Zenon
    <2> QED
      BY <1>1, <2>2, SMTT(30)
  <1> QED
    BY <1>1, <1>4, <1>5, Zenon DEF QueueInOrder, NoClose

\* Connection.Write: the message goes where the last one went, and is the next.
LEMMA WriteInOrder ==
  ASSUME SequencesOK, WrittenInOrder, QueueInOrder, WritesMessages,
         NEW ok \in BOOLEAN, Write(ok)
  PROVE  SequencesOK' /\ WrittenInOrder' /\ QueueInOrder' /\ WritesMessages'
  <1> USE DEF SequencesOK
  <1>1. /\ writer = "writing" /\ queue # <<>> /\ queue[1] # CloseFrame
        /\ queue' = Tail(queue) /\ UNCHANGED <<chOpen, done, established, sent>>
        /\ writer' = IF ok THEN "idle" ELSE "failed"
    BY Zenon DEF Write, WritesMessages
  <1>2. /\ queue' \in Seq(Nat) /\ Len(queue') = Len(queue) - 1 /\ Head(queue) = queue[1]
        /\ Len(queue) \in Nat \ {0} /\ queue[1] \in Nat
    BY <1>1, SMTT(30)
  <1>3. WritesMessages' /\ Len(queue') <= QueueCap
    BY <1>1, <1>2, SseAssumption, SMTT(30) DEF WritesMessages
  <1>4. CASE UNCHANGED <<response, backlog>> /\ ~Alive'
    BY <1>1, <1>2, <1>3, <1>4, Zenon DEF WrittenInOrder, QueueInOrder
  <1>5. Alive => queue[1] = Written + 1
    <2>1. 1 \in 1 .. Len(queue)
      BY <1>2, SMTT(30)
    <2> QED
      BY <1>1, <2>1, SMTT(30) DEF QueueInOrder, NoClose
  <1>6. CASE /\ Alive /\ UNCHANGED response /\ backlog' = Append(backlog, Head(queue))
             /\ ~established
    <2>1. /\ backlog' \in Seq(Nat) /\ Len(backlog') = Len(backlog) + 1
          /\ backlog'[Len(backlog) + 1] = queue[1]
          /\ \A i \in 1 .. Len(backlog) : backlog'[i] = backlog[i]
      BY <1>2, <1>6, AppendProperties, SMTT(30)
    <2>2. WrittenInOrder'
      <3>1. ASSUME NEW i \in 1 .. Len(backlog') PROVE backlog'[i] = Len(response) + i
        <4>1. CASE i <= Len(backlog)
          <5>1. i \in 1 .. Len(backlog)
            BY <2>1, <4>1, SMTT(30)
          <5> QED
            BY <2>1, <5>1, Zenon DEF WrittenInOrder
        <4>2. CASE i = Len(backlog) + 1
          BY <1>5, <1>6, <2>1, <4>2, SMTT(30) DEF Written
        <4> QED
          BY <2>1, <4>1, <4>2, SMTT(30)
      <3> QED
        BY <1>1, <1>6, <3>1, Zenon DEF WrittenInOrder
    <2>3. Written' = Written + 1 /\ Written \in Nat
      BY <1>6, <2>1, SMTT(30) DEF Written
    <2>4. QueueInOrder'
      BY <1>1, <1>6, <2>3, RestInOrder, Zenon
    <2> QED
      BY <1>1, <1>2, <1>3, <1>6, <2>1, <2>2, <2>4, ZenonT(60)
  <1>7. CASE /\ Alive /\ UNCHANGED backlog /\ response' = Append(response, Head(queue))
             /\ established
    <2>1. /\ response' \in Seq(Nat) /\ Len(response') = Len(response) + 1
          /\ response'[Len(response) + 1] = queue[1]
          /\ \A i \in 1 .. Len(response) : response'[i] = response[i]
      BY <1>2, <1>7, AppendProperties, SMTT(30)
    <2>2. backlog = <<>> /\ Len(backlog) = 0
      BY <1>7, Zenon DEF WrittenInOrder
    <2>3. WrittenInOrder'
      <3>1. ASSUME NEW i \in 1 .. Len(response') PROVE response'[i] = i
        <4>1. CASE i <= Len(response)
          <5>1. i \in 1 .. Len(response)
            BY <2>1, <4>1, SMTT(30)
          <5> QED
            BY <2>1, <5>1, Zenon DEF WrittenInOrder
        <4>2. CASE i = Len(response) + 1
          BY <1>5, <1>7, <2>1, <2>2, <4>2, SMTT(30) DEF Written
        <4> QED
          BY <2>1, <4>1, <4>2, SMTT(30)
      <3>2. backlog' = <<>> /\ Len(backlog') = 0
        BY <1>7, <2>2, Zenon
      <3> QED
        BY <3>1, <3>2, SMTT(30) DEF WrittenInOrder
    <2>4. Written' = Written + 1 /\ Written \in Nat
      BY <1>7, <2>1, SMTT(30) DEF Written
    <2>5. QueueInOrder'
      BY <1>1, <1>7, <2>4, RestInOrder, Zenon
    <2> QED
      BY <1>1, <1>2, <1>3, <1>7, <2>1, <2>3, <2>5, Zenon
  <1>8. \/ UNCHANGED <<response, backlog>> /\ ~Alive'
        \/ /\ Alive /\ UNCHANGED response /\ backlog' = Append(backlog, Head(queue))
           /\ ~established
        \/ /\ Alive /\ UNCHANGED backlog /\ response' = Append(response, Head(queue))
           /\ established
    BY <1>1, SMTT(30) DEF Write, Alive
  <1> QED
    BY <1>4, <1>6, <1>7, <1>8, Zenon

\* The other steps of the writer, the handler and the gate.
LEMMA OrderStep ==
  ASSUME SequencesOK, WrittenInOrder, QueueInOrder, WritesMessages, ENext
  PROVE  SequencesOK' /\ WrittenInOrder' /\ QueueInOrder' /\ WritesMessages'
  <1>1. CASE Added /\ Len(queue') <= QueueCap /\ (done => done')
             /\ UNCHANGED <<response, backlog, writer, established>>
    <2>1. SequencesOK' /\ WrittenInOrder'
      BY <1>1, Zenon DEF Added, SequencesOK, WrittenInOrder
    <2> QED
      BY <1>1, <2>1, AddedInOrder, Zenon
  <1>2. CASE /\ UNCHANGED <<queue, response, backlog, writer, established, sent>>
             /\ (done => done') /\ (chOpen' => chOpen)
    BY <1>2, Zenon DEF SequencesOK, WrittenInOrder, QueueInOrder, Alive, NoClose, Written,
                WritesMessages
  <1>3. CASE Send
    BY <1>1, <1>3, EnqueueMessage, Zenon DEF Send
  <1>4. CASE DisconnectElsewhere \/ rejected \/ sessionCompleted
    BY <1>1, <1>4, EnqueueClose, Zenon DEF DisconnectElsewhere, rejected, sessionCompleted,
                ReturnHandler
  <1>5. CASE shutdownReceived
    BY <1>1, <1>5, EnqueueLast, Zenon DEF shutdownReceived
  <1>6. CASE requestTerminated
    <2>1. CASE sseConnected
      BY <1>2, <1>6, <2>1, Zenon DEF requestTerminated, DisconnectNow
    <2>2. CASE ~sseConnected
      BY <1>1, <1>6, <2>2, EnqueueClose, Zenon DEF requestTerminated, ReturnHandler
    <2> QED
      BY <2>1, <2>2, Zenon
  <1>7. CASE takeFrame
    <2>1. CASE /\ writer' = "stopped"
               /\ queue' = queue \/ (queue # <<>> /\ queue' = Tail(queue))
      <3>1. queue' \in Seq(Nat) /\ Len(queue') <= Len(queue)
        <4>1. Len(queue) \in Nat
          BY SMTT(30) DEF SequencesOK
        <4>2. CASE queue' = queue
          BY <4>1, <4>2, SMTT(30) DEF SequencesOK
        <4>3. CASE queue # <<>> /\ queue' = Tail(queue)
          BY <4>1, <4>3, SMTT(30) DEF SequencesOK
        <4> QED
          BY <2>1, <4>2, <4>3, Zenon
      <3>2. UNCHANGED <<response, backlog, established, sent>>
        BY <1>7, Zenon DEF takeFrame
      <3>3. SequencesOK'
        BY <3>1, <3>2, SseAssumption, SMTT(30) DEF SequencesOK
      <3> QED
        BY <2>1, <3>2, <3>3, Zenon DEF WrittenInOrder, QueueInOrder, Alive, WritesMessages
    <2>2. CASE queue # <<>> /\ Head(queue) # CloseFrame
      <3>1. /\ UNCHANGED <<queue, response, backlog, established, sent>>
            /\ writer = "idle" /\ writer' = "writing" /\ queue[1] # CloseFrame
        BY <1>7, <2>2, SMTT(30) DEF takeFrame, SequencesOK
      <3>2. (done => done') /\ (chOpen' => chOpen)
        BY <1>7, <2>2, Zenon DEF takeFrame
      <3> QED
        BY <2>2, <3>1, <3>2, Zenon DEF SequencesOK, WrittenInOrder, QueueInOrder, Alive, NoClose,
                    Written, WritesMessages
    <2> QED
      BY <1>7, <2>1, <2>2, Zenon DEF takeFrame
  <1>8. ASSUME NEW ok \in BOOLEAN, Write(ok)
        PROVE  SequencesOK' /\ WrittenInOrder' /\ QueueInOrder' /\ WritesMessages'
    BY <1>8, WriteInOrder, Zenon
  <1>9. CASE writeFailed
    BY <1>9, Zenon DEF writeFailed, SequencesOK, WrittenInOrder, QueueInOrder, Alive,
                WritesMessages
  <1>10. CASE Established
    <2>1. /\ response' = response \o backlog /\ backlog' = <<>>
          /\ UNCHANGED <<queue, chOpen, writer, done, sent>>
      BY <1>10, Zenon DEF Established
    <2>2. /\ response' \in Seq(Nat) /\ Len(response') = Len(response) + Len(backlog)
          /\ \A i \in 1 .. Len(response) + Len(backlog) : response'[i] =
                IF i <= Len(response) THEN response[i] ELSE backlog[i - Len(response)]
      BY <2>1, ConcatProperties, Zenon DEF SequencesOK
    <2>3. Len(response) \in Nat /\ Len(backlog) \in Nat /\ Len(backlog') = 0
      BY <2>1, SMTT(30) DEF SequencesOK
    <2>4. Written' = Written
      BY <2>1, <2>2, <2>3, SMTT(30) DEF Written
    <2>5. ASSUME NEW i \in 1 .. Len(response') PROVE response'[i] = i
      <3>1. CASE i <= Len(response)
        <4>1. i \in 1 .. Len(response) /\ i \in 1 .. Len(response) + Len(backlog)
          BY <2>2, <2>3, <3>1, SMTT(30)
        <4> QED
          BY <2>2, <3>1, <4>1, Zenon DEF WrittenInOrder
      <3>2. CASE ~(i <= Len(response))
        <4>1. /\ i - Len(response) \in 1 .. Len(backlog)
              /\ i \in 1 .. Len(response) + Len(backlog)
          BY <2>2, <2>3, <3>2, SMTT(30)
        <4>2. backlog[i - Len(response)] = Len(response) + (i - Len(response))
          BY <4>1, Zenon DEF WrittenInOrder
        <4> QED
          BY <2>2, <2>3, <3>2, <4>1, <4>2, SMTT(30)
      <3> QED
        BY <3>1, <3>2, Zenon
    <2>6. SequencesOK' /\ WrittenInOrder'
      BY <2>1, <2>2, <2>3, <2>5, SMTT(30) DEF SequencesOK, WrittenInOrder
    <2>7. QueueInOrder' /\ WritesMessages'
      BY <2>1, <2>4, Zenon DEF QueueInOrder, Alive, NoClose, WritesMessages
    <2> QED
      BY <2>6, <2>7, Zenon
  <1>11. CASE hubSends \/ Outside
    BY <1>2, <1>11, Zenon DEF hubSends, Outside
  <1> QED
    BY <1>3, <1>4, <1>5, <1>6, <1>7, <1>8, <1>9, <1>10, <1>11, ZenonT(60)
       DEF ENext, WriterStep, HandlerStep

\* Nobody writes to the response after the handler has returned, but for the
\* client that left a session disconnected already.
LEMMA ReturnStep ==
  ASSUME ReturnedLate, ENext
  PROVE  ReturnedLate'
  <1> USE DEF ReturnedLate
  <1>1. CASE hubSends \/ Send \/ DisconnectElsewhere \/ Outside
    <2>1. UNCHANGED <<handler, established, done, overtook, misused>>
      BY <1>1, Zenon DEF hubSends, Send, DisconnectElsewhere, Outside
    <2> QED
      BY <2>1, Zenon
  <1>2. CASE takeFrame
    BY <1>2, Zenon DEF takeFrame
  <1>3. ASSUME NEW ok \in BOOLEAN, Write(ok) PROVE ReturnedLate'
    <2>1. /\ misused' => misused \/ (~done /\ established /\ handler = "returned")
          /\ UNCHANGED <<handler, established, done, overtook>>
      BY <1>3, Zenon DEF Write
    <2> QED
      BY <2>1, Zenon
  <1>4. CASE writeFailed
    BY <1>4, Zenon DEF writeFailed, DisconnectNow
  <1>5. CASE Established
    BY <1>5, Zenon DEF Established
  <1>6. CASE rejected \/ sessionCompleted
    BY <1>6, SMTT(30) DEF rejected, sessionCompleted, ReturnHandler
  <1>7. CASE shutdownReceived
    BY <1>7, Zenon DEF shutdownReceived
  <1>8. CASE requestTerminated
    <2>1. handler = "loop" /\ UNCHANGED <<established, misused>>
      BY <1>8, Zenon DEF requestTerminated
    <2>2. overtook' = ~sseConnected
      BY <1>8, Zenon DEF requestTerminated
    <2>3. sseConnected => done'
      BY <1>8, Zenon DEF requestTerminated, DisconnectNow
    <2>4. handler' = "returned"
      BY <1>8, Zenon DEF requestTerminated, ReturnHandler
    <2> QED
      BY <2>1, <2>2, <2>3, <2>4, Zenon
  <1> QED
    BY <1>1, <1>2, <1>3, <1>4, <1>5, <1>6, <1>7, <1>8, ZenonT(60)
    DEF ENext, WriterStep, HandlerStep

\* A client over SSE gets the messages in order and without a gap, and nothing
\* after the end of its request, for every capacity of the channel.
THEOREM SseResponseRight == ESpec => []ResponseRight
  <1>1. EInit => EInv
    BY SseAssumption, SMTT(30)
    DEF EInit, EInv, SequencesOK, WrittenInOrder, QueueInOrder, Written,
       NoClose, WritesMessages, ReturnedLate
  <1>2. EInv /\ [ENext]_evars => EInv'
    <2> SUFFICES ASSUME EInv, [ENext]_evars PROVE EInv'
      BY Zenon
    <2>1. CASE ENext
      BY <2>1, OrderStep, ReturnStep, Zenon DEF EInv
    <2>2. CASE UNCHANGED evars
      BY <2>2, Zenon DEF evars, EInv, SequencesOK, WrittenInOrder, QueueInOrder, Written,
         NoClose, WritesMessages, ReturnedLate, Alive
    <2> QED
      BY <2>1, <2>2, Zenon
  <1>3. EInv => ResponseRight
    <2> SUFFICES ASSUME EInv PROVE ResponseInOrder /\ NoWriteAfterReturn
      BY Zenon DEF ResponseRight
    <2>1. NoWriteAfterReturn
      BY Zenon DEF EInv, ReturnedLate, NoWriteAfterReturn
    <2> DEFINE all == response \o backlog
    <2>2. /\ all \in Seq(Nat) /\ Len(all) = Len(response) + Len(backlog)
          /\ \A i \in 1 .. Len(response) + Len(backlog) : all[i] =
                IF i <= Len(response) THEN response[i] ELSE backlog[i - Len(response)]
      BY ConcatProperties, Zenon DEF EInv, SequencesOK
    <2>3. Len(response) \in Nat /\ Len(backlog) \in Nat
      BY SMTT(30) DEF EInv, SequencesOK
    <2> HIDE DEF all
    <2>4. ASSUME NEW i \in 1 .. Len(all) PROVE all[i] = i
      <3>1. CASE i <= Len(response)
        <4>1. i \in 1 .. Len(response) /\ i \in 1 .. Len(response) + Len(backlog)
          BY <2>2, <2>3, <3>1, SMTT(30)
        <4> QED
          BY <2>2, <3>1, <4>1, Zenon DEF EInv, WrittenInOrder
      <3>2. CASE ~(i <= Len(response))
        <4>1. /\ i - Len(response) \in 1 .. Len(backlog)
              /\ i \in 1 .. Len(response) + Len(backlog)
          BY <2>2, <2>3, <3>2, SMTT(30)
        <4>2. backlog[i - Len(response)] = Len(response) + (i - Len(response))
          BY <4>1, Zenon DEF EInv, WrittenInOrder
        <4> QED
          BY <2>2, <2>3, <3>2, <4>1, <4>2, SMTT(30)
      <3> QED
        BY <3>1, <3>2, Zenon
    <2>5. all = [i \in 1 .. Len(all) |-> i]
      BY <2>2, <2>4, SMTT(30)
    <2> QED
      BY <2>1, <2>5, Zenon DEF all, ResponseInOrder
  <1> QED
    BY <1>1, <1>2, <1>3, PTL DEF ESpec

-----------------------------------------------------------------------------

\* Nothing of a shutdown happens while the components are started.
NoShutdownYet == main = "starting" => ~sigCh /\ step = 0

\* Who sends an error has failed; Serve is closed by Shutdown only, which has
\* set its flag before.
OnlyFailuresReported ==
  /\ senders \subseteq gaveUp \cup {"handlers"}
  /\ serve = "closed" => flagged
  /\ CleanShutdownSucceeds

\* The handlers run in order: the server accepts no connection when the node
\* disconnects its sessions, and Run returns nil after all of them.
HandlersInOrder ==
  /\ step \in 0 .. 7
  /\ step >= 2 => serve # "accepting"
  /\ step >= 3 => nodeDown
  /\ nodeDown => step >= 3
  /\ "handlers" \in senders \/ result = "ok" => step = 7

\* After the node has disconnected its sessions the only ones that are in the
\* node, or can get there, were hijacked before.
OnlyPendingLeft ==
  /\ wsClient \in [Clients -> {"new", "hijacked", "joined", "left"}]
  /\ nodeDown /\ ~cutShort =>
       \A c \in Clients : wsClient[c] \in {"hijacked", "joined"} => c \in pending

\* the inductive invariant of the runner
StopInv == NoShutdownYet /\ OnlyFailuresReported /\ HandlersInOrder /\ OnlyPendingLeft

\* A process stops gracefully, for any number of clients and signals.
THEOREM StopIsGraceful == RSpec => []GracefulStop
  <1> USE DEF NoShutdownYet, OnlyFailuresReported, CleanShutdownSucceeds,
              HandlersInOrder, OnlyPendingLeft
  <1>1. RInit => StopInv
    BY SMTT(30) DEF RInit, StopInv
  <1>2. StopInv /\ [RNext]_rvars => StopInv'
    <2> SUFFICES ASSUME StopInv, [RNext]_rvars PROVE StopInv'
      BY Zenon
    <2> USE DEF StopInv
    <2>1. ASSUME NEW ok \in BOOLEAN, startNext(ok) PROVE StopInv'
      <3>1. CASE ok
        BY <2>1, <3>1, SMTT(30) DEF startNext
      <3>2. CASE ~ok
        <4>1. gaveUp' # {} /\ gaveUp \subseteq gaveUp'
          BY <2>1, <3>2, Zenon DEF startNext
        <4>2. main' = "exited" /\ result' = "error" /\ serve' = serve
          BY <2>1, <3>2, Zenon DEF startNext
        <4> QED
          BY <2>1, <4>1, <4>2, Zenon DEF startNext
      <3> QED
        BY <3>1, <3>2, Zenon
    <2>2. ASSUME NEW ok \in BOOLEAN, serverEnds(ok) PROVE StopInv'
      BY <2>2, Zenon DEF serverEnds
    <2>3. ASSUME NEW p \in Reporting, componentFails(p) PROVE StopInv'
      BY <2>3, Zenon DEF componentFails, Reporting
    <2>4. CASE Receive
      BY <2>4, SMTT(30) DEF Receive, receive
    <2>5. CASE Signal
      BY <2>5, Zenon DEF Signal
    <2>6. CASE exec
      BY <2>6, SMTT(30) DEF exec, Up
    <2>7. CASE notify
      BY <2>7, Zenon DEF notify
    <2>8. CASE stopServer
      BY <2>8, SMTT(30) DEF stopServer, Up
    <2>9. CASE stopNode
      BY <2>9, SMTT(30) DEF stopNode, Up, shutdownables
    <2>10. CASE runHandler
      BY <2>10, SMTT(30) DEF runHandler, Up, shutdownables
    <2>11. CASE deadline
      BY <2>11, Zenon DEF deadline
    <2>12. ASSUME NEW c \in Clients, hijack(c) \/ join(c) PROVE StopInv'
      BY <2>12, SMTT(30) DEF hijack, join
    <2>13. CASE UNCHANGED rvars
      BY <2>13, Zenon DEF rvars
    <2> QED
      BY <2>1, <2>2, <2>3, <2>4, <2>5, <2>6, <2>7, <2>8, <2>9, <2>10, <2>11, <2>12,
         <2>13, ZenonT(60) DEF RNext, ShutdownStep
  <1>3. StopInv => GracefulStop
    BY SMTT(30) DEF StopInv, GracefulStop, NoClientLeftBehind
  <1> QED
    BY <1>1, <1>2, <1>3, PTL DEF RSpec
=============================================================================
