------------------------ MODULE WebSocketClient_proofs ------------------------
(***************************************************************************)
(* The safety of WebSocketClient, and that it implements SignalSocket, for *)
(* any number of calls, frames and retries.                                *)
(***************************************************************************)
EXTENDS MCWebSocketClient, SequenceTheorems, Induction, TLAPS

(* What lws knows of the connection agrees with the client's own fields,   *)
(* and lws_service runs only on a client that is not closed.               *)
Links ==
  /\ link \in {"up", "dead"} <=> state = "Open"
  /\ link = "connecting" => state = "Connecting"
  /\ link # "none" => wsi /\ context
  /\ serving => context /\ ~exiting

LEMMA LinksInit == Init => Links
  BY DEF Init, Links

LEMMA LinksStep == Links /\ [Next]_vars => Links'
<1> SUFFICES ASSUME Links, [Next]_vars
             PROVE  Links'
  OBVIOUS
<1> USE DEF Links, implVars, frameVars, appVars, observerVars
<1>1. CASE AppNext \/ RetryDue \/ disconnect
  BY <1>1 DEF AppNext, ConnectUrl, StartEvtLoop, RetryDue, disconnect
<1>2. CASE TaskNext
  <2>1. CASE DoConnectRefused
    BY <2>1 DEF DoConnectRefused
  <2>2. CASE DoConnectNoContext
    BY <2>2 DEF DoConnectNoContext, NewAttempt, Runs
  <2>3. CASE DoConnectFails
    BY <2>3 DEF DoConnectFails, NewAttempt, Runs
  <2>4. CASE DoConnectFailsInCallback
    BY <2>4 DEF DoConnectFailsInCallback, NewAttempt, Runs
  <2>5. CASE DoConnectStarts
    BY <2>5 DEF DoConnectStarts, NewAttempt, Runs
  <2>7. CASE RunStateChange \/ RunMessage \/ RunError \/ RunRetry
    BY <2>7 DEF RunStateChange, RunMessage, RunError, RunRetry
  <2>8. CASE EvtLoopBegin
    BY <2>8 DEF EvtLoopBegin
  <2> QED
    BY <1>2, <2>1, <2>2, <2>3, <2>4, <2>5, <2>7, <2>8 DEF TaskNext
<1>3. CASE EvtLoopEnd
  BY <1>3 DEF EvtLoopEnd
<1>4. CASE LwsNext
  BY <1>4 DEF LwsNext, Established, Receive, ConnectionError, LinkDies
<1>5. CASE UNCHANGED vars
  BY <1>5 DEF vars
<1> QED BY <1>1, <1>2, <1>3, <1>4, <1>5 DEF Next

LEMMA LinksHold == Spec => []Links
  BY LinksInit, LinksStep, PTL DEF Spec

(* What SendText and SendBinary take for an open connection is one of the  *)
(* context the client has, whatever attempts, errors and closes came       *)
(* before. It need not live any more, for LinkDies leaves the client open. *)
THEOREM OpenSocketHolds == Spec => []OpenHasSocket
<1>1. Links => OpenHasSocket
  BY DEF Links, OpenHasSocket, isConnected, SendText
<1> QED BY <1>1, LinksHold, PTL
-----------------------------------------------------------------------------
(* The queue: what is posted is a task, and stays one.                     *)
LEMMA TaskKinds ==
  /\ \A u \in Urls, n \in Tags : DoConnect(u, n) \in Tasks
  /\ \A s \in States, n \in Tags : StateChange(s, n) \in Tasks
  /\ {EvtLoop, Message, RetriesSpent, Retry} \subseteq Tasks
  /\ \A t \in Tasks : t.op = "StateChange" => t.arg \in States
  /\ \A t \in Tasks : t.op = "DoConnect" => t.of \in Tags
  /\ \A t \in Tasks : t.op = "EvtLoop" <=> t = EvtLoop
<1>1. \A u \in Urls, n \in Tags : DoConnect(u, n) \in Tasks
  BY DEF Tasks
<1>2. \A s \in States, n \in Tags : StateChange(s, n) \in Tasks
  BY DEF Tasks
<1>3. {EvtLoop, Message, RetriesSpent, Retry} \subseteq Tasks
  BY DEF Tasks
<1> USE DEF DoConnect, StateChange, EvtLoop, Message, RetriesSpent, Retry
<1>4. ASSUME NEW t \in Tasks
      PROVE  /\ t.op = "StateChange" => t.arg \in States
             /\ t.op = "DoConnect" => t.of \in Tags
             /\ t.op = "EvtLoop" <=> t = EvtLoop
  <2>1. CASE \E u \in Urls, n \in Tags : t = DoConnect(u, n)
    <3> PICK u \in Urls, n \in Tags : t = DoConnect(u, n)
      BY <2>1
    <3>1. t.op = "DoConnect" /\ t.of = n /\ t # EvtLoop
      OBVIOUS
    <3> QED BY <3>1
  <2>2. CASE \E s \in States, n \in Tags : t = StateChange(s, n)
    <3> PICK s \in States, n \in Tags : t = StateChange(s, n)
      BY <2>2
    <3>1. t.op = "StateChange" /\ t.arg = s /\ t # EvtLoop
      OBVIOUS
    <3> QED BY <3>1
  <2>3. CASE t = EvtLoop
    <3>1. t.op = "EvtLoop"
      BY <2>3
    <3> QED BY <2>3, <3>1
  <2>4. CASE t = Message
    <3>1. t.op = "Message" /\ t # EvtLoop
      BY <2>4
    <3> QED BY <3>1
  <2>5. CASE t = RetriesSpent
    <3>1. t.op = "Error" /\ t # EvtLoop
      BY <2>5
    <3> QED BY <3>1
  <2>6. CASE t = Retry
    <3>1. t.op = "Retry" /\ t # EvtLoop
      BY <2>6
    <3> QED BY <3>1
  <2> HIDE DEF DoConnect, StateChange, EvtLoop, Message, RetriesSpent, Retry
  <2> QED BY <2>1, <2>2, <2>3, <2>4, <2>5, <2>6 DEF Tasks
<1> QED BY <1>1, <1>2, <1>3, <1>4

LEMMA NotifiedTasks ==
  ASSUME NEW q \in Seq(Tasks), NEW s \in States, NEW n \in Tags
  PROVE  Notified(q, s, n) \in Seq(Tasks)
<1>1. StateChange(s, n) \in Tasks
  BY TaskKinds
<1> QED BY <1>1 DEF Notified

(* TryReconnect posts nothing but errors, and counts no further than       *)
(* max_retry_count.                                                        *)
LEMMA RetryEffect ==
  ASSUME NEW q \in Seq(Tasks), NEW n \in 0 .. MaxRetry, NEW k \in Nat,
         timers \in Nat, TryReconnect(q, n, k)
  PROVE  /\ retry_counter' \in 0 .. MaxRetry
         /\ timers' \in Nat
         /\ tasks' \in Seq(Tasks)
         /\ \E r \in Seq({RetriesSpent}) : tasks' = q \o r
<1> DEFINE granted == IF n + k <= MaxRetry THEN k ELSE MaxRetry - n
           r == [i \in 1 .. (k - granted) |-> RetriesSpent]
<1>1. granted \in 0 .. k /\ n + granted \in 0 .. MaxRetry
  BY BoundsAssumption
<1>2. k - granted \in Nat
  BY <1>1
<1> HIDE DEF granted
<1>3. r \in Seq({RetriesSpent})
  BY <1>2
<1>4. Seq({RetriesSpent}) \subseteq Seq(Tasks)
  BY TaskKinds
<1>5. /\ retry_counter' = n + granted
      /\ timers' = timers + granted
      /\ tasks' = q \o r
  BY DEF TryReconnect, granted
<1>6. q \o r \in Seq(Tasks)
  BY <1>3, <1>4
<1>7. retry_counter' \in 0 .. MaxRetry
  BY <1>1, <1>5
<1>8. timers' \in Nat
  BY <1>1, <1>5
<1> QED BY <1>3, <1>5, <1>6, <1>7, <1>8
-----------------------------------------------------------------------------
(* TypeOK in parts that one kind of reasoning decides.                     *)
FlagsOK ==
  /\ wsi \in BOOLEAN /\ context \in BOOLEAN /\ exiting \in BOOLEAN
  /\ serving \in BOOLEAN /\ starting \in BOOLEAN

QueueOK ==
  /\ tasks \in Seq(Tasks) /\ timers \in Nat /\ retry_counter \in 0 .. MaxRetry
  /\ state \in States /\ view \in States /\ attempt \in Tags /\ connects \in Tags
  /\ link \in {"none", "connecting", "up", "dead"}

CountsOK ==
  /\ connects \in Nat /\ closes \in Nat /\ received \in Nat
  /\ msg_buf \in Seq(Nat) /\ delivered \in Seq(Nat)

FateOK == fate \in [Connects -> Fates]

LEMMA TypeParts == TypeOK <=> FlagsOK /\ QueueOK /\ CountsOK /\ FateOK
  BY BoundsAssumption DEF TypeOK, FlagsOK, QueueOK, CountsOK, FateOK, Tags

LEMMA TypeInit == Init => FlagsOK /\ QueueOK /\ CountsOK /\ FateOK
<1> SUFFICES ASSUME Init
             PROVE  FlagsOK /\ QueueOK /\ CountsOK /\ FateOK
  OBVIOUS
<1>1. FlagsOK
  BY DEF Init, FlagsOK
<1>2. QueueOK
  BY BoundsAssumption DEF Init, QueueOK, States, Tags
<1>3. CountsOK
  BY DEF Init, CountsOK
<1>4. FateOK
  BY DEF Init, FateOK, Fates
<1> QED BY <1>1, <1>2, <1>3, <1>4

LEMMA FlagsStep == FlagsOK /\ [Next]_vars => FlagsOK'
<1> SUFFICES ASSUME FlagsOK, [Next]_vars
             PROVE  FlagsOK'
  OBVIOUS
<1> USE DEF FlagsOK, implVars, frameVars, appVars, observerVars
<1>1. CASE AppNext \/ RetryDue \/ EvtLoopEnd \/ disconnect
  BY <1>1 DEF AppNext, ConnectUrl, StartEvtLoop, RetryDue, EvtLoopEnd, disconnect
<1>2. CASE TaskNext
  BY <1>2 DEF TaskNext, DoConnectRefused, DoConnectNoContext, DoConnectFails,
              DoConnectFailsInCallback, DoConnectStarts, NewAttempt,
              RunStateChange, RunMessage, RunError, RunRetry, EvtLoopBegin
<1>3. CASE LwsNext
  BY <1>3 DEF LwsNext, Established, Receive, ConnectionError, LinkDies
<1>4. CASE UNCHANGED vars
  BY <1>4 DEF vars
<1> QED BY <1>1, <1>2, <1>3, <1>4 DEF Next

LEMMA CountsStep == CountsOK /\ [Next]_vars => CountsOK'
<1> SUFFICES ASSUME CountsOK, [Next]_vars
             PROVE  CountsOK'
  OBVIOUS
<1> USE DEF CountsOK, implVars, frameVars, appVars, observerVars
<1>1. CASE AppNext
  <2>1. ASSUME NEW url, ConnectUrl(url) PROVE CountsOK'
    BY <2>1 DEF ConnectUrl
  <2>2. CASE StartEvtLoop
    BY <2>2 DEF StartEvtLoop
  <2> QED BY <1>1, <2>1, <2>2 DEF AppNext
<1>2. CASE RetryDue \/ EvtLoopEnd \/ disconnect
  BY <1>2 DEF RetryDue, EvtLoopEnd, disconnect
<1>3. CASE TaskNext
  <2>1. CASE RunMessage
    <3>1. delivered' \in Seq(Nat) /\ Len(delivered') \in Nat
      BY <2>1 DEF RunMessage
    <3>2. msg_buf' \in Seq(Nat)
      BY <2>1 DEF RunMessage
    <3> QED BY <2>1, <3>1, <3>2 DEF RunMessage
  <2>2. CASE ~RunMessage
    BY <1>3, <2>2 DEF TaskNext, DoConnectRefused, DoConnectNoContext, DoConnectFails,
              DoConnectFailsInCallback, DoConnectStarts, NewAttempt,
              RunStateChange, RunError, RunRetry, EvtLoopBegin
  <2> QED BY <2>1, <2>2
<1>4. CASE LwsNext
  <2>1. ASSUME NEW fin, Receive(fin) PROVE CountsOK'
    <3>1. received' \in Nat
      BY <2>1 DEF Receive
    <3>2. msg_buf' \in Seq(Nat)
      BY <2>1, <3>1 DEF Receive
    <3> QED BY <2>1, <3>1, <3>2 DEF Receive
  <2>2. CASE ConnectionError \/ LinkDies
    BY <2>2 DEF ConnectionError, LinkDies
  <2>3. CASE Established
    BY <2>3 DEF Established
  <2> QED BY <1>4, <2>1, <2>2, <2>3 DEF LwsNext
<1>5. CASE UNCHANGED vars
  BY <1>5 DEF vars
<1> QED BY <1>1, <1>2, <1>3, <1>4, <1>5 DEF Next

LEMMA QueueStep == QueueOK /\ [Next]_vars => QueueOK'
<1> SUFFICES ASSUME QueueOK, [Next]_vars
             PROVE  QueueOK'
  OBVIOUS
<1> USE DEF QueueOK, implVars, frameVars, appVars, observerVars
<1>0. /\ \A t \in Tasks : Append(tasks, t) \in Seq(Tasks)
      /\ tasks # <<>> =>
           /\ Head(tasks) \in Tasks
           /\ Tail(tasks) \in Seq(Tasks)
           /\ \A t \in Tasks : Append(Tail(tasks), t) \in Seq(Tasks)
           /\ \A t, u \in Tasks : Tail(tasks) \o <<t, u>> \in Seq(Tasks)
  OBVIOUS
<1>1. CASE AppNext
  <2>1. ASSUME NEW url \in {"good", "bad"}, ConnectUrl(url) PROVE QueueOK'
    <3>1. connects' \in Tags
      BY <2>1, BoundsAssumption DEF ConnectUrl, Tags
    <3>2. DoConnect(url, connects') \in Tasks
      BY <3>1, TaskKinds DEF Urls
    <3> QED BY <1>0, <2>1, <3>1, <3>2 DEF ConnectUrl
  <2>2. CASE StartEvtLoop
    BY <1>0, <2>2, TaskKinds DEF StartEvtLoop
  <2> QED BY <1>1, <2>1, <2>2 DEF AppNext
<1>2. CASE RetryDue \/ EvtLoopEnd \/ disconnect
  <2>1. CASE RetryDue
    BY <1>0, <2>1, TaskKinds DEF RetryDue
  <2>2. CASE EvtLoopEnd
    BY <1>0, <2>2, TaskKinds DEF EvtLoopEnd
  <2>3. CASE disconnect
    BY <2>3, NotifiedTasks DEF disconnect, States
  <2> QED BY <1>2, <2>1, <2>2, <2>3
<1>3. CASE TaskNext
  <2>0. ASSUME NewAttempt
        PROVE  /\ tasks # <<>> /\ attempt' \in Tags
               /\ \A s \in States : Notified(Tail(tasks), s, attempt') \in Seq(Tasks)
    <3>1. tasks # <<>> /\ attempt' \in Tags
      BY <1>0, <2>0, TaskKinds DEF NewAttempt, Runs
    <3> QED BY <1>0, <3>1, NotifiedTasks
  <2>1. CASE DoConnectRefused
    BY <1>0, <2>1 DEF DoConnectRefused, Runs
  <2>2. CASE DoConnectNoContext
    <3>1. /\ tasks' = Notified(Tail(tasks), "Connecting", attempt')
          /\ state' = "Connecting" /\ link' = "none" /\ retry_counter' = 0
          /\ UNCHANGED <<timers, connects, view>>
      BY <2>2 DEF DoConnectNoContext, NewAttempt
    <3>2. attempt' \in Tags /\ tasks' \in Seq(Tasks)
      BY <2>0, <2>2, <3>1 DEF DoConnectNoContext, States
    <3> QED BY <3>1, <3>2, BoundsAssumption DEF States
  <2>3. CASE DoConnectFails
    <3> DEFINE p == Notified(Tail(tasks), "Connecting", attempt')
    <3>1. /\ TryReconnect(p, 0, 1)
          /\ state' = "Connecting" /\ link' = "none" /\ UNCHANGED <<connects, view>>
      BY <2>3 DEF DoConnectFails, NewAttempt
    <3>2. attempt' \in Tags /\ p \in Seq(Tasks) /\ 0 \in 0 .. MaxRetry
      BY <2>0, <2>3, BoundsAssumption DEF DoConnectFails, States
    <3> HIDE DEF p
    <3>3. /\ tasks' \in Seq(Tasks) /\ timers' \in Nat
          /\ retry_counter' \in 0 .. MaxRetry
      BY <3>1, <3>2, RetryEffect
    <3> QED BY <3>1, <3>2, <3>3 DEF States
  <2>4. CASE DoConnectFailsInCallback
    <3> DEFINE p == Notified(Tail(tasks), "Connecting", attempt')
               t == StateChange("Disconnected", attempt')
    <3>0. p \in Seq(Tasks) /\ attempt' \in Tags
      BY <2>0, <2>4 DEF DoConnectFailsInCallback, States
    <3>1. t \in Tasks
      BY <3>0, TaskKinds DEF States
    <3>2. 0 \in 0 .. MaxRetry
      BY BoundsAssumption
    <3>3. TryReconnect(Append(p, t), 0, 2) /\ timers \in Nat
      BY <2>4 DEF DoConnectFailsInCallback
    <3>4. UNCHANGED <<connects, view>> /\ state' = "Disconnected" /\ link' = "none"
      BY <2>4 DEF DoConnectFailsInCallback, NewAttempt
    <3> HIDE DEF p, t
    <3>5. Append(p, t) \in Seq(Tasks)
      BY <3>0, <3>1
    <3>6. /\ tasks' \in Seq(Tasks) /\ timers' \in Nat
          /\ retry_counter' \in 0 .. MaxRetry
      BY <3>2, <3>3, <3>5, RetryEffect
    <3> QED BY <3>0, <3>4, <3>6 DEF States
  <2>5. CASE DoConnectStarts
    <3>1. /\ tasks' = Notified(Tail(tasks), "Connecting", attempt')
          /\ state' = "Connecting" /\ link' = "connecting" /\ retry_counter' = 0
          /\ UNCHANGED <<timers, connects, view>>
      BY <2>5 DEF DoConnectStarts, NewAttempt
    <3>2. attempt' \in Tags /\ tasks' \in Seq(Tasks)
      BY <2>0, <2>5, <3>1 DEF DoConnectStarts, States
    <3> QED BY <3>1, <3>2, BoundsAssumption DEF States
  <2>7. CASE RunStateChange
    BY <1>0, <2>7, TaskKinds DEF RunStateChange, Runs
  <2>8. CASE RunMessage \/ RunError
    BY <1>0, <2>8 DEF RunMessage, RunError, Runs
  <2>9. CASE RunRetry
    <3>1. DoConnect("url_", 0) \in Tasks /\ EvtLoop \in Tasks
      BY TaskKinds, BoundsAssumption DEF Urls, Tags
    <3> QED BY <1>0, <2>9, <3>1 DEF RunRetry, Runs
  <2>10. CASE EvtLoopBegin
    BY <1>0, <2>10, TaskKinds DEF EvtLoopBegin, Runs
  <2> QED
    BY <1>3, <2>1, <2>2, <2>3, <2>4, <2>5, <2>7, <2>8, <2>9, <2>10 DEF TaskNext
<1>4. CASE LwsNext
  <2>1. CASE Established
    BY <2>1, NotifiedTasks DEF Established, States
  <2>2. CASE \E fin \in BOOLEAN : Receive(fin)
    BY <1>0, <2>2, TaskKinds DEF Receive
  <2>3. CASE ConnectionError
    <3>1. Notified(tasks, "Disconnected", attempt) \in Seq(Tasks)
      BY NotifiedTasks DEF States
    <3> QED BY <2>3, <3>1, RetryEffect DEF ConnectionError, States
  <2>4. CASE LinkDies
    BY <2>4 DEF LinkDies
  <2> QED BY <1>4, <2>1, <2>2, <2>3, <2>4 DEF LwsNext
<1>5. CASE UNCHANGED vars
  BY <1>5 DEF vars
<1> QED BY <1>1, <1>2, <1>3, <1>4, <1>5 DEF Next

(* What becomes of a connect is one of its fates.                          *)
LEMMA FateStep == FateOK /\ [Next]_vars => FateOK'
<1> SUFFICES ASSUME FateOK, [Next]_vars
             PROVE  FateOK'
  OBVIOUS
<1> USE DEF FateOK, implVars, frameVars, appVars, observerVars
<1>0. ASSUME NEW f \in [Connects -> Fates], NEW n, NEW end \in Fates
      PROVE  Settled(f, n, end) \in [Connects -> Fates]
  BY <1>0 DEF Settled
<1>1. {"asked", "told", "overwritten", "closed", "retried"} \subseteq Fates
  BY DEF Fates
<1>2. Overwritten \in [Connects -> Fates]
  BY <1>0, <1>1 DEF Overwritten
<1>3. CASE AppNext \/ RetryDue \/ EvtLoopEnd
  BY <1>1, <1>3 DEF AppNext, ConnectUrl, StartEvtLoop, RetryDue, EvtLoopEnd
<1>4. CASE disconnect
  BY <1>0, <1>1, <1>4 DEF disconnect
<1>5. CASE TaskNext
  <2>1. CASE DoConnectRefused
    BY <1>0, <1>1, <2>1 DEF DoConnectRefused
  <2>2. CASE DoConnectNoContext \/ DoConnectFails \/ DoConnectFailsInCallback \/ DoConnectStarts
    BY <1>0, <1>1, <1>2, <2>2 DEF DoConnectNoContext, DoConnectFails,
              DoConnectFailsInCallback, DoConnectStarts
  <2>3. CASE RunStateChange
    BY <1>0, <1>1, <2>3 DEF RunStateChange
  <2>4. CASE RunMessage \/ RunError \/ RunRetry \/ EvtLoopBegin
    BY <2>4 DEF RunMessage, RunError, RunRetry, EvtLoopBegin
  <2> QED BY <1>5, <2>1, <2>2, <2>3, <2>4 DEF TaskNext
<1>6. CASE LwsNext
  BY <1>6 DEF LwsNext, Established, Receive, ConnectionError, LinkDies
<1>7. CASE UNCHANGED vars
  BY <1>7 DEF vars
<1> QED BY <1>3, <1>4, <1>5, <1>6, <1>7 DEF Next

LEMMA TypesHold == Spec => [](FlagsOK /\ QueueOK /\ CountsOK /\ FateOK)
  BY TypeInit, FlagsStep, QueueStep, CountsStep, FateStep, PTL DEF Spec

(* Every variable keeps its type; in particular the retry counter never    *)
(* passes max_retry_count.                                                 *)
THEOREM TypeCorrect == Spec => []TypeOK
  BY TypesHold, TypeParts, PTL
-----------------------------------------------------------------------------
(* The event loop stays alive. The invariant behind it: a DoConnect, which *)
(* may clear exiting, has an EvtLoop of its own behind it in the queue, or *)
(* ConnectUrl is about to post it.                                         *)
Followed(soon, q) ==
  \A i \in DOMAIN q : q[i].op = "DoConnect" =>
    soon \/ \E j \in DOMAIN q : j > i /\ q[j] = EvtLoop

LEMMA LoopOps ==
  /\ EvtLoop.op = "EvtLoop" /\ Message.op = "Message" /\ RetriesSpent.op = "Error"
  /\ Retry.op = "Retry"
  /\ \A u, n : DoConnect(u, n).op = "DoConnect"
  /\ \A s, n : StateChange(s, n).op = "StateChange" /\ StateChange(s, n).arg = s
<1>1. EvtLoop.op = "EvtLoop"
  BY DEF EvtLoop
<1>2. Message.op = "Message"
  BY DEF Message
<1>3. RetriesSpent.op = "Error"
  BY DEF RetriesSpent
<1>4. Retry.op = "Retry"
  BY DEF Retry
<1>5. \A u, n : DoConnect(u, n).op = "DoConnect"
  BY DEF DoConnect
<1>6. \A s, n : StateChange(s, n).op = "StateChange" /\ StateChange(s, n).arg = s
  BY DEF StateChange
<1> QED BY <1>1, <1>2, <1>3, <1>4, <1>5, <1>6

LEMMA LoopAppend ==
  ASSUME NEW q \in Seq(Tasks), NEW t \in Tasks
  PROVE  /\ HasLoop(q) => HasLoop(Append(q, t))
         /\ t = EvtLoop => HasLoop(Append(q, t))
         /\ \A soon \in BOOLEAN :
              Followed(soon, q) /\ t.op # "DoConnect" => Followed(soon, Append(q, t))
         /\ t = EvtLoop => \A soon \in BOOLEAN : Followed(soon, Append(q, t))
<1>1. /\ Len(Append(q, t)) = Len(q) + 1 /\ Len(q) \in Nat
      /\ \A i \in DOMAIN q : i \in DOMAIN Append(q, t) /\ Append(q, t)[i] = q[i]
      /\ Append(q, t)[Len(q) + 1] = t
      /\ Len(q) + 1 \in DOMAIN Append(q, t)
      /\ \A i \in DOMAIN Append(q, t) : i \in DOMAIN q \/ i = Len(q) + 1
      /\ \A i \in DOMAIN q : i < Len(q) + 1
  OBVIOUS
<1>2. HasLoop(q) => HasLoop(Append(q, t))
  BY <1>1 DEF HasLoop
<1>3. t = EvtLoop => HasLoop(Append(q, t))
  BY <1>1 DEF HasLoop
<1>4. ASSUME NEW soon \in BOOLEAN, Followed(soon, q), t.op # "DoConnect"
      PROVE  Followed(soon, Append(q, t))
  BY <1>1, <1>4 DEF Followed
<1>5. ASSUME t = EvtLoop
      PROVE  \A soon \in BOOLEAN : Followed(soon, Append(q, t))
  BY <1>1, <1>5, LoopOps DEF Followed
<1> QED BY <1>2, <1>3, <1>4, <1>5

LEMMA LoopConcat ==
  ASSUME NEW q \in Seq(Tasks), NEW r \in Seq({RetriesSpent})
  PROVE  /\ HasLoop(q) => HasLoop(q \o r)
         /\ \A soon \in BOOLEAN : Followed(soon, q) => Followed(soon, q \o r)
<1>1. /\ \A i \in DOMAIN q : i \in DOMAIN (q \o r) /\ (q \o r)[i] = q[i]
      /\ \A i \in DOMAIN (q \o r) : i \in DOMAIN q \/ (q \o r)[i] = RetriesSpent
  OBVIOUS
<1>2. HasLoop(q) => HasLoop(q \o r)
  BY <1>1 DEF HasLoop
<1>3. ASSUME NEW soon \in BOOLEAN, Followed(soon, q)
      PROVE  Followed(soon, q \o r)
  BY <1>1, <1>3, LoopOps DEF Followed
<1> QED BY <1>2, <1>3

LEMMA LoopTail ==
  ASSUME NEW q \in Seq(Tasks), q # <<>>
  PROVE  /\ HasLoop(q) /\ Head(q) # EvtLoop => HasLoop(Tail(q))
         /\ \A soon \in BOOLEAN : Followed(soon, q) =>
              /\ Followed(soon, Tail(q))
              /\ Head(q).op = "DoConnect" => soon \/ HasLoop(Tail(q))
<1>1. /\ \A i \in DOMAIN q : i = 1 \/ (i - 1 \in DOMAIN Tail(q) /\ Tail(q)[i - 1] = q[i])
      /\ \A i \in DOMAIN Tail(q) : i + 1 \in DOMAIN q /\ Tail(q)[i] = q[i + 1]
      /\ 1 \in DOMAIN q /\ q[1] = Head(q)
      /\ DOMAIN q \subseteq Nat /\ DOMAIN Tail(q) \subseteq Nat
      /\ \A i \in DOMAIN q : i >= 1
  OBVIOUS
<1>2. HasLoop(q) /\ Head(q) # EvtLoop => HasLoop(Tail(q))
  BY <1>1 DEF HasLoop
<1>3. ASSUME NEW soon \in BOOLEAN, Followed(soon, q)
      PROVE  Followed(soon, Tail(q))
  <2> SUFFICES ASSUME NEW i \in DOMAIN Tail(q), Tail(q)[i].op = "DoConnect", ~soon
               PROVE  \E j \in DOMAIN Tail(q) : j > i /\ Tail(q)[j] = EvtLoop
    BY DEF Followed
  <2>1. PICK j \in DOMAIN q : j > i + 1 /\ q[j] = EvtLoop
    BY <1>1, <1>3 DEF Followed
  <2>2. j - 1 \in DOMAIN Tail(q) /\ j - 1 > i /\ Tail(q)[j - 1] = EvtLoop
    BY <1>1, <2>1
  <2> QED BY <2>2
<1>4. ASSUME NEW soon \in BOOLEAN, Followed(soon, q), Head(q).op = "DoConnect", ~soon
      PROVE  HasLoop(Tail(q))
  <2>1. PICK j \in DOMAIN q : j > 1 /\ q[j] = EvtLoop
    BY <1>1, <1>4 DEF Followed
  <2>2. j - 1 \in DOMAIN Tail(q) /\ Tail(q)[j - 1] = EvtLoop
    BY <1>1, <2>1
  <2> QED BY <2>2 DEF HasLoop
<1> QED BY <1>2, <1>3, <1>4

(* A notification changes neither.                                         *)
LEMMA LoopNotified ==
  ASSUME NEW q \in Seq(Tasks), NEW s \in States, NEW n \in Tags
  PROVE  /\ HasLoop(q) => HasLoop(Notified(q, s, n))
         /\ \A soon \in BOOLEAN : Followed(soon, q) => Followed(soon, Notified(q, s, n))
<1>1. StateChange(s, n) \in Tasks /\ StateChange(s, n).op # "DoConnect"
  BY TaskKinds, LoopOps
<1> QED BY <1>1, LoopAppend DEF Notified

Loops == LoopAlive /\ Followed(starting, tasks)

LEMMA LoopsInit == Init => Loops
  BY DEF Init, Loops, LoopAlive, Followed

(* The queue that an attempt leaves, before its retries are added.         *)
LEMMA LoopsAttempt ==
  ASSUME FlagsOK, QueueOK, Followed(starting, tasks), NewAttempt
  PROVE  /\ attempt' \in Tags
         /\ \A s \in States :
              /\ Notified(Tail(tasks), s, attempt') \in Seq(Tasks)
              /\ starting \/ HasLoop(Notified(Tail(tasks), s, attempt'))
              /\ Followed(starting, Notified(Tail(tasks), s, attempt'))
<1>1. /\ tasks # <<>> /\ Tail(tasks) \in Seq(Tasks) /\ Head(tasks) \in Tasks
      /\ Head(tasks).op = "DoConnect"
  BY DEF NewAttempt, Runs, QueueOK
<1>2. attempt' \in Tags
  BY <1>1, TaskKinds DEF NewAttempt
<1>3. starting \/ HasLoop(Tail(tasks))
  BY <1>1, LoopTail DEF QueueOK, FlagsOK
<1>4. Followed(starting, Tail(tasks))
  BY <1>1, LoopTail DEF QueueOK, FlagsOK
<1> QED BY <1>1, <1>2, <1>3, <1>4, LoopNotified, NotifiedTasks DEF FlagsOK

LEMMA LoopsStep ==
  FlagsOK /\ QueueOK /\ Loops /\ [Next]_vars => Loops'
<1> SUFFICES ASSUME FlagsOK, QueueOK, Loops, [Next]_vars
             PROVE  Loops'
  OBVIOUS
<1> USE DEF Loops, implVars, frameVars, appVars, observerVars
<1>0. tasks \in Seq(Tasks) /\ starting \in BOOLEAN
  BY DEF QueueOK, FlagsOK
<1>1. tasks # <<>> =>
        /\ Tail(tasks) \in Seq(Tasks) /\ Followed(starting, Tail(tasks))
        /\ HasLoop(tasks) /\ Head(tasks) # EvtLoop => HasLoop(Tail(tasks))
  BY <1>0, LoopTail
<1>2. CASE AppNext
  <2>1. ASSUME NEW url, ConnectUrl(url) PROVE Loops'
    BY <2>1 DEF ConnectUrl, LoopAlive, Followed
  <2>2. CASE StartEvtLoop
    <3>1. Followed(FALSE, tasks') /\ HasLoop(tasks')
      BY <1>0, <2>2, LoopAppend, TaskKinds DEF StartEvtLoop
    <3> QED BY <2>2, <3>1 DEF StartEvtLoop, LoopAlive
  <2> QED BY <1>2, <2>1, <2>2 DEF AppNext
<1>8. CASE disconnect
  <2>1. Followed(starting, tasks')
    BY <1>0, <1>8, LoopNotified DEF disconnect, States, QueueOK
  <2> QED BY <1>8, <2>1 DEF disconnect, LoopAlive
<1>3. CASE RetryDue
  <2>1. Followed(starting, tasks') /\ (HasLoop(tasks) => HasLoop(tasks'))
    BY <1>0, <1>3, LoopAppend, LoopOps, TaskKinds DEF RetryDue
  <2> QED BY <1>3, <2>1 DEF RetryDue, LoopAlive
<1>4. CASE TaskNext
  <2>1. CASE DoConnectRefused
    <3>1. Head(tasks) # EvtLoop
      BY <2>1, LoopOps DEF DoConnectRefused, Runs
    <3> QED BY <1>1, <2>1, <3>1 DEF DoConnectRefused, Runs, LoopAlive
  <2>2. CASE DoConnectNoContext
    <3>1. Followed(starting, tasks')
      BY <2>2, LoopsAttempt DEF DoConnectNoContext, NewAttempt, States
    <3> QED BY <2>2, <3>1 DEF DoConnectNoContext, NewAttempt, LoopAlive
  <2>3. CASE DoConnectStarts
    <3>1. Followed(starting, tasks') /\ (starting \/ HasLoop(tasks'))
      BY <2>3, LoopsAttempt DEF DoConnectStarts, NewAttempt, States
    <3> QED BY <2>3, <3>1 DEF DoConnectStarts, NewAttempt, LoopAlive
  <2>4. CASE DoConnectFails
    <3> DEFINE q == Notified(Tail(tasks), "Connecting", attempt')
    <3>1. q \in Seq(Tasks) /\ Followed(starting, q) /\ (starting \/ HasLoop(q))
      BY <2>4, LoopsAttempt DEF DoConnectFails, NewAttempt, States
    <3>2. TryReconnect(q, 0, 1) /\ 0 \in 0 .. MaxRetry /\ timers \in Nat
      BY <2>4, BoundsAssumption DEF DoConnectFails, QueueOK
    <3> HIDE DEF q
    <3>3. PICK r \in Seq({RetriesSpent}) : tasks' = q \o r
      BY <3>1, <3>2, RetryEffect
    <3>4. Followed(starting, tasks') /\ (starting \/ HasLoop(tasks'))
      BY <1>0, <3>1, <3>3, LoopConcat
    <3> QED BY <2>4, <3>4 DEF DoConnectFails, NewAttempt, LoopAlive
  <2>5. CASE DoConnectFailsInCallback
    <3> DEFINE p == Notified(Tail(tasks), "Connecting", attempt')
               t == StateChange("Disconnected", attempt')
               q == Append(p, t)
    <3>1. p \in Seq(Tasks) /\ Followed(starting, p) /\ (starting \/ HasLoop(p))
      BY <2>5, LoopsAttempt DEF DoConnectFailsInCallback, NewAttempt, States
    <3>2. TryReconnect(q, 0, 2)
      BY <2>5 DEF DoConnectFailsInCallback
    <3>3. t \in Tasks /\ t.op # "DoConnect"
      BY <2>5, LoopsAttempt, TaskKinds, LoopOps DEF DoConnectFailsInCallback, States
    <3> HIDE DEF p, t
    <3>4. q \in Seq(Tasks) /\ Followed(starting, q) /\ (starting \/ HasLoop(q))
      BY <1>0, <3>1, <3>3, LoopAppend
    <3> HIDE DEF q
    <3>5. PICK r \in Seq({RetriesSpent}) : tasks' = q \o r
      <4>1. 0 \in 0 .. MaxRetry /\ timers \in Nat
        BY BoundsAssumption DEF QueueOK
      <4> QED BY <3>2, <3>4, <4>1, RetryEffect
    <3>6. Followed(starting, tasks') /\ (starting \/ HasLoop(tasks'))
      BY <1>0, <3>4, <3>5, LoopConcat
    <3> QED BY <2>5, <3>6 DEF DoConnectFailsInCallback, NewAttempt, LoopAlive
  <2>7. CASE RunStateChange \/ RunMessage \/ RunError
    <3>1. Head(tasks) # EvtLoop
      BY <2>7, LoopOps DEF RunStateChange, RunMessage, RunError, Runs
    <3>2. /\ tasks # <<>> /\ tasks' = Tail(tasks)
          /\ UNCHANGED <<context, exiting, serving, starting>>
      BY <2>7 DEF RunStateChange, RunMessage, RunError, Runs
    <3> QED BY <1>1, <3>1, <3>2 DEF LoopAlive
  <2>8. CASE RunRetry
    <3> DEFINE p == Append(Tail(tasks), DoConnect("url_", 0))
    <3>1. Tail(tasks) \in Seq(Tasks) /\ DoConnect("url_", 0) \in Tasks /\ EvtLoop \in Tasks
      BY <1>1, <2>8, TaskKinds, BoundsAssumption
      DEF RunRetry, Runs, Urls, Tags
    <3>2. p \in Seq(Tasks)
      BY <3>1
    <3>3. tasks' = Append(p, EvtLoop)
      BY <2>8, <3>1 DEF RunRetry
    <3> HIDE DEF p
    <3>4. Followed(starting, tasks') /\ HasLoop(tasks')
      BY <1>0, <3>1, <3>2, <3>3, LoopAppend
    <3> QED BY <2>8, <3>4 DEF RunRetry, LoopAlive
  <2>9. CASE EvtLoopBegin
    <3>1. \/ tasks' = Tail(tasks) /\ (exiting \/ serving')
          \/ tasks' = Append(Tail(tasks), EvtLoop)
      BY <2>9 DEF EvtLoopBegin
    <3>2. Tail(tasks) \in Seq(Tasks) /\ Followed(starting, Tail(tasks))
      BY <1>1, <2>9 DEF EvtLoopBegin, Runs
    <3>3. CASE tasks' = Tail(tasks) /\ (exiting \/ serving')
      BY <2>9, <3>2, <3>3 DEF EvtLoopBegin, LoopAlive
    <3>4. CASE tasks' = Append(Tail(tasks), EvtLoop)
      <4>1. Followed(starting, tasks') /\ HasLoop(tasks')
        BY <1>0, <3>2, <3>4, LoopAppend, TaskKinds
      <4> QED BY <2>9, <4>1 DEF EvtLoopBegin, LoopAlive
    <3> QED BY <3>1, <3>3, <3>4
  <2> QED
    BY <1>4, <2>1, <2>2, <2>3, <2>4, <2>5, <2>7, <2>8, <2>9 DEF TaskNext
<1>5. CASE EvtLoopEnd
  <2>1. Followed(starting, tasks') /\ HasLoop(tasks')
    BY <1>0, <1>5, LoopAppend, TaskKinds DEF EvtLoopEnd
  <2> QED BY <1>5, <2>1 DEF EvtLoopEnd, LoopAlive
<1>6. CASE LwsNext
  <2>1. CASE Established
    <3>1. Followed(starting, tasks') /\ serving'
      BY <1>0, <2>1, LoopNotified DEF Established, States, QueueOK
    <3> QED BY <2>1, <3>1 DEF Established, LoopAlive
  <2>2. ASSUME NEW fin \in BOOLEAN, Receive(fin) PROVE Loops'
    <3>1. Followed(starting, tasks') /\ serving'
      BY <1>0, <2>2, LoopAppend, LoopOps, TaskKinds DEF Receive
    <3> QED BY <2>2, <3>1 DEF Receive, LoopAlive
  <2>3. CASE ConnectionError
    <3> DEFINE q == Notified(tasks, "Disconnected", attempt)
    <3>1. q \in Seq(Tasks) /\ Followed(starting, q)
      BY <1>0, NotifiedTasks, LoopNotified DEF States, QueueOK
    <3>2. tasks' = q \/ \E r \in Seq({RetriesSpent}) : tasks' = q \o r
      <4>1. /\ tasks' = q \/ TryReconnect(q, retry_counter, 1)
            /\ retry_counter \in 0 .. MaxRetry /\ timers \in Nat
        BY <2>3 DEF ConnectionError, QueueOK
      <4> QED BY <3>1, <4>1, RetryEffect
    <3> HIDE DEF q
    <3>3. Followed(starting, tasks')
      BY <1>0, <3>1, <3>2, LoopConcat
    <3> QED BY <2>3, <3>3 DEF ConnectionError, LoopAlive
  <2>4. CASE LinkDies
    BY <2>4 DEF LinkDies, LoopAlive
  <2> QED BY <1>6, <2>1, <2>2, <2>3, <2>4 DEF LwsNext
<1>7. CASE UNCHANGED vars
  BY <1>7 DEF vars, LoopAlive
<1> QED BY <1>2, <1>3, <1>4, <1>5, <1>6, <1>7, <1>8 DEF Next

(* A client with a context is served until it is closed, in whatever order *)
(* connects, closes, retries and link failures come. The queue is what     *)
(* makes it so: every DoConnect has an EvtLoop of its own behind it.       *)
THEOREM LoopStaysAlive == Spec => []LoopAlive
<1>1. Loops => LoopAlive
  BY DEF Loops
<1> QED BY <1>1, TypesHold, LoopsInit, LoopsStep, PTL DEF Spec
-----------------------------------------------------------------------------
(* A concatenation grows at its end.                                       *)
LEMMA ConcatAppend ==
  ASSUME NEW s \in Seq(Nat), NEW t \in Seq(Nat), NEW n \in Nat
  PROVE  s \o Append(t, n) = Append(s \o t, n)
<1> DEFINE u == <<n>>
<1>1. u \in Seq(Nat) /\ s \o t \in Seq(Nat)
  OBVIOUS
<1>2. Append(t, n) = t \o u /\ Append(s \o t, n) = (s \o t) \o u
  BY <1>1, AppendIsConcat
<1> HIDE DEF u
<1>3. (s \o t) \o u = s \o (t \o u)
  BY <1>1, ConcatAssociative
<1> QED BY <1>2, <1>3

(* Every frame is delivered once and in order: a frame joins the end of    *)
(* the buffer, and the buffer joins the end of what was delivered.         *)
LEMMA FramesStep ==
  CountsOK /\ FramesInOrder /\ [Next]_vars => FramesInOrder'
<1> SUFFICES ASSUME CountsOK, FramesInOrder, [Next]_vars
             PROVE  FramesInOrder'
  OBVIOUS
<1> USE DEF FramesInOrder, implVars, frameVars, appVars, observerVars
<1>0. delivered \in Seq(Nat) /\ msg_buf \in Seq(Nat) /\ received \in Nat
  BY DEF CountsOK
<1>1. CASE AppNext \/ RetryDue \/ EvtLoopEnd \/ disconnect
  BY <1>1 DEF AppNext, ConnectUrl, StartEvtLoop, RetryDue, EvtLoopEnd, disconnect
<1>2. CASE TaskNext
  <2>1. CASE RunMessage
    <3>1. delivered' \o <<>> = delivered \o msg_buf
      BY <1>0, <2>1 DEF RunMessage
    <3> QED BY <2>1, <3>1 DEF RunMessage
  <2>2. CASE ~RunMessage
    BY <1>2, <2>2 DEF TaskNext, DoConnectRefused, DoConnectNoContext, DoConnectFails,
              DoConnectFailsInCallback, DoConnectStarts, NewAttempt,
              RunStateChange, RunError, RunRetry, EvtLoopBegin
  <2> QED BY <2>1, <2>2
<1>3. CASE LwsNext
  <2>1. ASSUME NEW fin, Receive(fin) PROVE FramesInOrder'
    <3>1. /\ delivered' = delivered /\ received' = received + 1
          /\ msg_buf' = Append(msg_buf, received')
      BY <2>1 DEF Receive
    <3>2. received' \in Nat
      BY <1>0, <3>1
    <3>3. delivered \o Append(msg_buf, received') = Append(delivered \o msg_buf, received')
      BY <1>0, <3>2, ConcatAppend
    <3>4. Append([i \in 1 .. received |-> i], received + 1)
            = [i \in 1 .. (received + 1) |-> i]
      BY <1>0
    <3> QED BY <3>1, <3>3, <3>4
  <2>2. CASE ConnectionError \/ LinkDies
    BY <2>2 DEF ConnectionError, LinkDies
  <2>3. CASE Established
    BY <2>3 DEF Established
  <2> QED BY <1>3, <2>1, <2>2, <2>3 DEF LwsNext
<1>4. CASE UNCHANGED vars
  BY <1>4 DEF vars
<1> QED BY <1>1, <1>2, <1>3, <1>4 DEF Next

(* Whatever tasks run between a frame's arrival and the task that hands it *)
(* over, the observer gets every frame once and in order.                  *)
THEOREM FramesHold == Spec => []FramesInOrder
<1>1. Init => FramesInOrder
  BY DEF Init, FramesInOrder
<1> QED BY <1>1, TypesHold, FramesStep, PTL DEF Spec
-----------------------------------------------------------------------------
(* The observer's view, and what each way to change the queue makes of it. *)
LEMMA EndsAppend ==
  ASSUME NEW q \in Seq(Tasks), NEW t \in Tasks, NEW s, NEW v
  PROVE  /\ t.op # "StateChange" /\ EndsIn(s, v, q) => EndsIn(s, v, Append(q, t))
         /\ t.op = "StateChange" /\ t.arg = s => EndsIn(s, v, Append(q, t))
<1>1. /\ Len(q) \in Nat
      /\ \A i \in DOMAIN q : i \in DOMAIN Append(q, t) /\ Append(q, t)[i] = q[i]
      /\ Append(q, t)[Len(q) + 1] = t
      /\ Len(q) + 1 \in DOMAIN Append(q, t)
      /\ \A i \in DOMAIN Append(q, t) : i \in DOMAIN q \/ i = Len(q) + 1
      /\ \A i \in DOMAIN Append(q, t) : ~(i > Len(q) + 1)
  OBVIOUS
<1>2. ASSUME t.op # "StateChange", EndsIn(s, v, q)
      PROVE  EndsIn(s, v, Append(q, t))
  <2>1. \A i : NoChangeAfter(i, q) => NoChangeAfter(i, Append(q, t))
    BY <1>1, <1>2 DEF NoChangeAfter
  <2> QED BY <1>1, <1>2, <2>1 DEF EndsIn
<1>3. ASSUME t.op = "StateChange", t.arg = s
      PROVE  EndsIn(s, v, Append(q, t))
  <2>1. NoChangeAfter(Len(q) + 1, Append(q, t))
    BY <1>1 DEF NoChangeAfter
  <2> QED BY <1>1, <1>3, <2>1 DEF EndsIn
<1> QED BY <1>2, <1>3

LEMMA EndsConcat ==
  ASSUME NEW q \in Seq(Tasks), NEW r \in Seq({RetriesSpent}), NEW s, NEW v,
         EndsIn(s, v, q)
  PROVE  EndsIn(s, v, q \o r)
<1>1. /\ \A i \in DOMAIN q : i \in DOMAIN (q \o r) /\ (q \o r)[i] = q[i]
      /\ \A i \in DOMAIN (q \o r) : i \in DOMAIN q \/ (q \o r)[i] = RetriesSpent
  OBVIOUS
<1>2. \A i : NoChangeAfter(i, q) => NoChangeAfter(i, q \o r)
  BY <1>1, LoopOps DEF NoChangeAfter
<1> QED BY <1>1, <1>2 DEF EndsIn

LEMMA EndsNotified ==
  ASSUME NEW q \in Seq(Tasks), NEW s \in States, NEW n \in Tags, NEW v, EndsIn(state, v, q)
  PROVE  EndsIn(s, v, Notified(q, s, n))
<1>1. /\ StateChange(s, n) \in Tasks
      /\ StateChange(s, n).op = "StateChange" /\ StateChange(s, n).arg = s
  BY TaskKinds, LoopOps
<1> QED BY <1>1, EndsAppend DEF Notified

LEMMA EndsTail ==
  ASSUME NEW q \in Seq(Tasks), q # <<>>, NEW s, NEW v, EndsIn(s, v, q)
  PROVE  /\ Head(q).op # "StateChange" => EndsIn(s, v, Tail(q))
         /\ Head(q).op = "StateChange" => EndsIn(s, Head(q).arg, Tail(q))
<1>1. /\ \A i \in DOMAIN q : i = 1 \/ (i - 1 \in DOMAIN Tail(q) /\ Tail(q)[i - 1] = q[i])
      /\ \A i \in DOMAIN Tail(q) : i + 1 \in DOMAIN q /\ Tail(q)[i] = q[i + 1]
      /\ 1 \in DOMAIN q /\ q[1] = Head(q)
      /\ DOMAIN q \subseteq Nat /\ DOMAIN Tail(q) \subseteq Nat
      /\ \A i \in DOMAIN q : i >= 1
  OBVIOUS
<1>2. \A i \in DOMAIN q : NoChangeAfter(i, q) => NoChangeAfter(i - 1, Tail(q))
  BY <1>1 DEF NoChangeAfter
<1>3. CASE v = s /\ NoChangeAfter(0, q)
  <2>1. Head(q).op # "StateChange"
    BY <1>1, <1>3 DEF NoChangeAfter
  <2>2. NoChangeAfter(0, Tail(q))
    BY <1>1, <1>3 DEF NoChangeAfter
  <2> QED BY <1>3, <2>1, <2>2 DEF EndsIn
<1>4. CASE \E i \in DOMAIN q : q[i].op = "StateChange" /\ q[i].arg = s /\ NoChangeAfter(i, q)
  <2>1. PICK i \in DOMAIN q : q[i].op = "StateChange" /\ q[i].arg = s /\ NoChangeAfter(i, q)
    BY <1>4
  <2>2. NoChangeAfter(i - 1, Tail(q))
    BY <1>2, <2>1
  <2>3. CASE i = 1
    <3>1. Head(q).op = "StateChange" /\ Head(q).arg = s
      BY <1>1, <2>1, <2>3
    <3>2. NoChangeAfter(0, Tail(q))
      BY <2>2, <2>3
    <3> QED BY <3>1, <3>2 DEF EndsIn
  <2>4. CASE i # 1
    <3>1. /\ i - 1 \in DOMAIN Tail(q)
          /\ Tail(q)[i - 1].op = "StateChange" /\ Tail(q)[i - 1].arg = s
      BY <1>1, <2>1, <2>4
    <3> QED BY <2>2, <3>1 DEF EndsIn
  <2> QED BY <2>3, <2>4
<1> QED BY <1>3, <1>4 DEF EndsIn

LEMMA ViewStep ==
  QueueOK /\ ObserverCatchesUp /\ [Next]_vars => ObserverCatchesUp'
<1> SUFFICES ASSUME QueueOK, ObserverCatchesUp, [Next]_vars
             PROVE  ObserverCatchesUp'
  OBVIOUS
<1> USE DEF ObserverCatchesUp, implVars, frameVars, appVars, observerVars
<1>0. tasks \in Seq(Tasks) /\ state \in States
  BY DEF QueueOK
<1>1. \A t \in Tasks : t.op # "StateChange" => EndsIn(state, view, Append(tasks, t))
  BY <1>0, EndsAppend
<1>2. tasks # <<>> =>
        /\ Tail(tasks) \in Seq(Tasks)
        /\ Head(tasks).op # "StateChange" => EndsIn(state, view, Tail(tasks))
        /\ Head(tasks).op = "StateChange" => EndsIn(state, Head(tasks).arg, Tail(tasks))
  BY <1>0, EndsTail
<1>3. CASE AppNext \/ RetryDue \/ EvtLoopEnd \/ disconnect
  <2>1. ASSUME NEW url \in {"good", "bad"}, ConnectUrl(url) PROVE ObserverCatchesUp'
    <3>1. DoConnect(url, connects') \in Tasks /\ DoConnect(url, connects').op # "StateChange"
      BY <2>1, TaskKinds, LoopOps, BoundsAssumption DEF ConnectUrl, Urls, Tags, QueueOK
    <3> QED BY <1>1, <2>1, <3>1 DEF ConnectUrl
  <2>2. CASE StartEvtLoop
    BY <1>1, <2>2, TaskKinds, LoopOps DEF StartEvtLoop
  <2>3. CASE disconnect
    BY <1>0, <2>3, EndsNotified DEF disconnect, States, QueueOK
  <2>4. CASE RetryDue
    BY <1>1, <2>4, TaskKinds, LoopOps DEF RetryDue
  <2>5. CASE EvtLoopEnd
    BY <1>1, <2>5, TaskKinds, LoopOps DEF EvtLoopEnd
  <2> QED BY <1>3, <2>1, <2>2, <2>3, <2>4, <2>5 DEF AppNext
<1>4. CASE TaskNext
  <2>0. ASSUME NewAttempt, NEW s \in States
        PROVE  /\ Notified(Tail(tasks), s, attempt') \in Seq(Tasks)
               /\ EndsIn(s, view, Notified(Tail(tasks), s, attempt'))
               /\ attempt' \in Tags
    <3>1. Tail(tasks) \in Seq(Tasks) /\ EndsIn(state, view, Tail(tasks))
      BY <1>2, <2>0 DEF NewAttempt, Runs
    <3>2. attempt' \in Tags
      BY <1>0, <2>0, TaskKinds DEF NewAttempt, Runs
    <3> QED BY <3>1, <3>2, NotifiedTasks, EndsNotified
  <2>1. CASE DoConnectRefused \/ RunMessage \/ RunError
    <3>1. /\ tasks # <<>> /\ Head(tasks).op # "StateChange" /\ tasks' = Tail(tasks)
          /\ UNCHANGED <<state, view>>
      BY <2>1 DEF DoConnectRefused, RunMessage, RunError, Runs
    <3> QED BY <1>2, <3>1
  <2>2. CASE DoConnectNoContext \/ DoConnectStarts
    BY <2>0, <2>2 DEF DoConnectNoContext, DoConnectStarts, NewAttempt, States
  <2>3. CASE DoConnectFails
    <3> DEFINE q == Notified(Tail(tasks), "Connecting", attempt')
    <3>1. q \in Seq(Tasks) /\ EndsIn("Connecting", view, q)
      BY <2>0, <2>3 DEF DoConnectFails, NewAttempt, States
    <3>2. /\ TryReconnect(q, 0, 1) /\ 0 \in 0 .. MaxRetry /\ timers \in Nat
          /\ state' = "Connecting" /\ view' = view
      BY <2>3, BoundsAssumption DEF DoConnectFails, NewAttempt, QueueOK
    <3> HIDE DEF q
    <3>3. PICK r \in Seq({RetriesSpent}) : tasks' = q \o r
      BY <3>1, <3>2, RetryEffect
    <3> QED BY <3>1, <3>2, <3>3, EndsConcat
  <2>4. CASE DoConnectFailsInCallback
    <3> DEFINE p == Notified(Tail(tasks), "Connecting", attempt')
               t == StateChange("Disconnected", attempt')
               q == Append(p, t)
    <3>0. p \in Seq(Tasks) /\ attempt' \in Tags
      BY <2>0, <2>4 DEF DoConnectFailsInCallback, States
    <3>1. /\ p \in Seq(Tasks) /\ t \in Tasks
          /\ t.op = "StateChange" /\ t.arg = "Disconnected"
      BY <3>0, TaskKinds, LoopOps DEF States
    <3>2. /\ TryReconnect(q, 0, 2) /\ 0 \in 0 .. MaxRetry /\ timers \in Nat
          /\ state' = "Disconnected" /\ view' = view
      BY <2>4, BoundsAssumption DEF DoConnectFailsInCallback, NewAttempt, QueueOK
    <3> HIDE DEF p, t
    <3>3. q \in Seq(Tasks) /\ EndsIn("Disconnected", view, q)
      BY <3>1, EndsAppend
    <3> HIDE DEF q
    <3>4. PICK r \in Seq({RetriesSpent}) : tasks' = q \o r
      BY <3>2, <3>3, RetryEffect
    <3> QED BY <3>2, <3>3, <3>4, EndsConcat
  <2>6. CASE RunStateChange
    BY <1>2, <2>6 DEF RunStateChange, Runs
  <2>7. CASE RunRetry
    <3>1. /\ Tail(tasks) \in Seq(Tasks) /\ EndsIn(state, view, Tail(tasks))
          /\ DoConnect("url_", 0) \in Tasks /\ DoConnect("url_", 0).op # "StateChange"
          /\ EvtLoop \in Tasks /\ EvtLoop.op # "StateChange"
      BY <1>2, <2>7, TaskKinds, LoopOps, BoundsAssumption
      DEF RunRetry, Runs, Urls, Tags
    <3> DEFINE p == Append(Tail(tasks), DoConnect("url_", 0))
    <3>2. p \in Seq(Tasks) /\ EndsIn(state, view, p)
      <4>1. p \in Seq(Tasks)
        BY <3>1
      <4>2. EndsIn(state, view, p)
        BY <3>1, EndsAppend
      <4> QED BY <4>1, <4>2
    <3>3. tasks' = Append(p, EvtLoop) /\ UNCHANGED <<state, view>>
      BY <2>7, <3>1 DEF RunRetry
    <3> HIDE DEF p
    <3> QED BY <3>1, <3>2, <3>3, EndsAppend
  <2>8. CASE EvtLoopBegin
    <3>1. /\ tasks' = Tail(tasks) \/ tasks' = Append(Tail(tasks), EvtLoop)
          /\ UNCHANGED <<state, view>>
      BY <2>8 DEF EvtLoopBegin
    <3>2. /\ Tail(tasks) \in Seq(Tasks) /\ EndsIn(state, view, Tail(tasks))
          /\ EvtLoop \in Tasks /\ EvtLoop.op # "StateChange"
      BY <1>2, <2>8, TaskKinds, LoopOps DEF EvtLoopBegin, Runs
    <3> QED BY <3>1, <3>2, EndsAppend
  <2> QED BY <1>4, <2>1, <2>2, <2>3, <2>4, <2>6, <2>7, <2>8 DEF TaskNext
<1>5. CASE LwsNext
  <2>1. CASE Established
    BY <1>0, <2>1, EndsNotified DEF Established, States, QueueOK
  <2>2. ASSUME NEW fin \in BOOLEAN, Receive(fin) PROVE ObserverCatchesUp'
    <3>1. /\ tasks' = tasks \/ tasks' = Append(tasks, Message)
          /\ UNCHANGED <<state, view>>
      BY <2>2 DEF Receive
    <3> QED BY <1>1, <3>1, TaskKinds, LoopOps
  <2>3. CASE ConnectionError
    <3> DEFINE q == Notified(tasks, "Disconnected", attempt)
    <3>1. q \in Seq(Tasks) /\ EndsIn("Disconnected", view, q)
      BY <1>0, NotifiedTasks, EndsNotified DEF States, QueueOK
    <3>2. state' = "Disconnected" /\ view' = view
      BY <2>3 DEF ConnectionError
    <3>3. /\ tasks' = q \/ TryReconnect(q, retry_counter, 1)
          /\ retry_counter \in 0 .. MaxRetry /\ timers \in Nat
      BY <2>3 DEF ConnectionError, QueueOK
    <3> HIDE DEF q
    <3>4. tasks' = q \/ \E r \in Seq({RetriesSpent}) : tasks' = q \o r
      BY <3>1, <3>3, RetryEffect
    <3> QED BY <3>1, <3>2, <3>4, EndsConcat
  <2>4. CASE LinkDies
    BY <2>4 DEF LinkDies
  <2> QED BY <1>5, <2>1, <2>2, <2>3, <2>4 DEF LwsNext
<1>6. CASE UNCHANGED vars
  BY <1>6 DEF vars
<1> QED BY <1>3, <1>4, <1>5, <1>6 DEF Next

(* The observer is told of the state the client is in, or will be by the   *)
(* last notification in the queue.                                         *)
THEOREM ObserverHolds == Spec => []ObserverCatchesUp
<1>1. Init => ObserverCatchesUp
  BY DEF Init, ObserverCatchesUp, EndsIn, NoChangeAfter
<1> QED BY <1>1, TypesHold, ViewStep, PTL DEF Spec
-----------------------------------------------------------------------------
(* EventsOf is the value at the end of the function its recursion defines, *)
(* and there is such a function.                                           *)
Extended(events, task) == IF Calls(task) THEN Append(events, Event(task)) ELSE events

UpTo(q) ==
  CHOOSE f : f = [n \in 0 .. Len(q) |->
                    IF n = 0 THEN <<>>
                    ELSE IF Calls(q[n]) THEN Append(f[n - 1], Event(q[n])) ELSE f[n - 1]]

SomeEvents == {Event(t) : t \in Tasks}

LEMMA EventsUpTo ==
  ASSUME NEW q \in Seq(Tasks)
  PROVE  /\ EventsOf(q) = UpTo(q)[Len(q)]
         /\ UpTo(q)[0] = <<>>
         /\ \A n \in 1 .. Len(q) : UpTo(q)[n] = Extended(UpTo(q)[n - 1], q[n])
         /\ \A n \in 0 .. Len(q) : UpTo(q)[n] \in Seq(SomeEvents)
<1> DEFINE S == Seq(SomeEvents)
           Step == [n \in 1 .. Len(q) |-> [e \in S |-> Extended(e, q[n])]]
<1>0. Len(q) \in Nat /\ <<>> \in S
  OBVIOUS
<1>1. \A e \in S, t \in Tasks : Extended(e, t) \in S
  <2> TAKE e \in S, t \in Tasks
  <2>1. Event(t) \in SomeEvents
    BY DEF SomeEvents
  <2> HIDE DEF SomeEvents
  <2> QED BY <2>1 DEF Extended
<1>2. Step \in [1 .. Len(q) -> [S -> S]]
  <2>1. \A n \in 1 .. Len(q) : q[n] \in Tasks
    OBVIOUS
  <2> HIDE DEF S
  <2> QED BY <1>1, <2>1
<1>3. PICK f : Defines(f, S, Len(q), <<>>, Step)
  <2> HIDE DEF S, Step
  <2> QED BY <1>0, <1>2, Recursion
<1>4. \A n \in 1 .. Len(q) : f[n] = Extended(f[n - 1], q[n])
  <2> TAKE n \in 1 .. Len(q)
  <2>1. n - 1 \in 0 .. Len(q)
    OBVIOUS
  <2>2. f[n - 1] \in S /\ f[n] = Step[n][f[n - 1]]
    BY <1>3, <2>1 DEF Defines
  <2> HIDE DEF S
  <2> QED BY <2>2
<1>5. f = [n \in 0 .. Len(q) |->
             IF n = 0 THEN <<>>
             ELSE IF Calls(q[n]) THEN Append(f[n - 1], Event(q[n])) ELSE f[n - 1]]
  <2>1. \A n \in 0 .. Len(q) : f[n] = IF n = 0 THEN <<>> ELSE Extended(f[n - 1], q[n])
    BY <1>0, <1>3, <1>4 DEF Defines
  <2> HIDE DEF S, Step
  <2> QED BY <1>3, <2>1 DEF Extended, Defines
<1>6. UpTo(q) = [n \in 0 .. Len(q) |->
                   IF n = 0 THEN <<>>
                   ELSE IF Calls(q[n]) THEN Append(UpTo(q)[n - 1], Event(q[n]))
                        ELSE UpTo(q)[n - 1]]
  BY <1>5, Zenon DEF UpTo
<1>7. EventsOf(q) = UpTo(q)[Len(q)]
  BY Zenon DEF EventsOf, UpTo
<1> DEFINE u == UpTo(q)
<1> HIDE DEF u, S, Step
<1>8. u[0] = <<>> /\ \A n \in 1 .. Len(q) : u[n] = Extended(u[n - 1], q[n])
  <2>1. u = [n \in 0 .. Len(q) |->
               IF n = 0 THEN <<>>
               ELSE Extended(u[n - 1], q[n])]
    BY <1>6, Zenon DEF u, Extended
  <2>2. u[0] = <<>>
    BY <1>0, <2>1
  <2>3. ASSUME NEW n \in 1 .. Len(q) PROVE u[n] = Extended(u[n - 1], q[n])
    <3>1. n \in 0 .. Len(q) /\ n # 0
      BY <1>0
    <3> HIDE DEF Extended
    <3> QED BY <2>1, <3>1
  <2> QED BY <2>2, <2>3
<1>9. \A n \in 0 .. Len(q) : n \in {m \in 0 .. Len(q) : u[m] \in S}
  <2> DEFINE T == {m \in 0 .. Len(q) : u[m] \in S}
  <2>1. 0 \in T
    BY <1>0, <1>8
  <2>2. ASSUME NEW n \in 0 .. (Len(q) - 1), n \in T
        PROVE  n + 1 \in T
    <3>1. n + 1 \in 1 .. Len(q) /\ (n + 1) - 1 = n /\ q[n + 1] \in Tasks
      BY <1>0
    <3> QED BY <1>1, <1>8, <2>2, <3>1
  <2> HIDE DEF T
  <2>3. \A n \in 0 .. Len(q) : n \in T
    BY <1>0, <2>1, <2>2, BoundedInduction
  <2> QED BY <2>3 DEF T
<1> QED BY <1>7, <1>8, <1>9 DEF u, S

LEMMA EventsEmpty == EventsOf(<<>>) = <<>>
<1>1. <<>> \in Seq(Tasks) /\ Len(<<>>) = 0
  OBVIOUS
<1> QED BY <1>1, EventsUpTo

LEMMA EventsType == \A q \in Seq(Tasks) : EventsOf(q) \in Seq(SomeEvents)
<1> SUFFICES ASSUME NEW q \in Seq(Tasks) PROVE EventsOf(q) \in Seq(SomeEvents)
  OBVIOUS
<1>1. Len(q) \in 0 .. Len(q)
  OBVIOUS
<1> QED BY <1>1, EventsUpTo

(* What is posted last is the last event, if it calls the observer.        *)
LEMMA EventsAppend ==
  ASSUME NEW q \in Seq(Tasks), NEW t \in Tasks
  PROVE  EventsOf(Append(q, t)) = Extended(EventsOf(q), t)
<1> DEFINE a == Append(q, t)
           f == UpTo(q)
           g == UpTo(a)
           N == Len(q)
<1>1. /\ a \in Seq(Tasks) /\ Len(a) = N + 1 /\ N \in Nat
      /\ \A i \in 1 .. N : a[i] = q[i]
      /\ a[N + 1] = t
  OBVIOUS
<1>2. /\ EventsOf(q) = f[N] /\ f[0] = <<>>
      /\ \A n \in 1 .. N : f[n] = Extended(f[n - 1], q[n])
  BY EventsUpTo
<1> HIDE DEF a, f
<1>3. /\ EventsOf(a) = g[N + 1] /\ g[0] = <<>>
      /\ \A n \in 1 .. (N + 1) : g[n] = Extended(g[n - 1], a[n])
  BY <1>1, EventsUpTo
<1> HIDE DEF g, N
<1>4. \A n \in 0 .. N : n \in {m \in 0 .. N : g[m] = f[m]}
  <2> DEFINE T == {m \in 0 .. N : g[m] = f[m]}
  <2>1. 0 \in T
    BY <1>1, <1>2, <1>3
  <2>2. ASSUME NEW n \in 0 .. (N - 1), n \in T
        PROVE  n + 1 \in T
    <3>1. /\ n + 1 \in 1 .. N /\ n + 1 \in 1 .. (N + 1) /\ n + 1 \in 0 .. N
          /\ (n + 1) - 1 = n
      BY <1>1
    <3> QED BY <1>1, <1>2, <1>3, <2>2, <3>1
  <2> HIDE DEF T
  <2>3. \A n \in 0 .. N : n \in T
    BY <1>1, <2>1, <2>2, BoundedInduction
  <2> QED BY <2>3 DEF T
<1>5. g[N] = f[N] /\ N + 1 \in 1 .. (N + 1) /\ (N + 1) - 1 = N
  BY <1>1, <1>4
<1> QED BY <1>1, <1>2, <1>3, <1>5 DEF a

(* What runs first is the first event, if it calls the observer.           *)
LEMMA EventsTail ==
  ASSUME NEW q \in Seq(Tasks), q # <<>>
  PROVE  EventsOf(q) = IF Calls(Head(q)) THEN <<Event(Head(q))>> \o EventsOf(Tail(q))
                       ELSE EventsOf(Tail(q))
<1> DEFINE r == Tail(q)
           f == UpTo(q)
           g == UpTo(r)
           N == Len(r)
           first == IF Calls(Head(q)) THEN <<Event(Head(q))>> ELSE <<>>
<1>1. /\ r \in Seq(Tasks) /\ Len(q) = N + 1 /\ N \in Nat
      /\ \A i \in 1 .. N : r[i] = q[i + 1]
      /\ q[1] = Head(q) /\ Head(q) \in Tasks
  OBVIOUS
<1> HIDE DEF r
<1>2. /\ EventsOf(q) = f[N + 1] /\ f[0] = <<>>
      /\ \A n \in 1 .. (N + 1) : f[n] = Extended(f[n - 1], q[n])
  BY <1>1, EventsUpTo
<1> HIDE DEF f
<1>3. /\ EventsOf(r) = g[N] /\ g[0] = <<>>
      /\ \A n \in 1 .. N : g[n] = Extended(g[n - 1], r[n])
      /\ \A n \in 0 .. N : g[n] \in Seq(SomeEvents)
  BY <1>1, EventsUpTo
<1> HIDE DEF g, N
<1>4. first \in Seq(SomeEvents)
  <2>1. Event(Head(q)) \in SomeEvents
    BY <1>1 DEF SomeEvents
  <2> HIDE DEF SomeEvents
  <2> QED BY <2>1
<1>5. \A t \in Tasks, e \in Seq(SomeEvents) : Extended(first \o e, t) = first \o Extended(e, t)
  <2> TAKE t \in Tasks, e \in Seq(SomeEvents)
  <2>1. CASE ~Calls(t)
    BY <2>1 DEF Extended
  <2>2. CASE Calls(t)
    <3>1. Event(t) \in SomeEvents
      BY DEF SomeEvents
    <3> HIDE DEF SomeEvents, first
    <3> DEFINE u == <<Event(t)>>
    <3>2. u \in Seq(SomeEvents) /\ first \o e \in Seq(SomeEvents)
      BY <1>4, <3>1
    <3>3. Append(e, Event(t)) = e \o u /\ Append(first \o e, Event(t)) = (first \o e) \o u
      BY <3>1, <3>2, AppendIsConcat
    <3> HIDE DEF u
    <3>4. (first \o e) \o u = first \o (e \o u)
      BY <1>4, <3>2, ConcatAssociative
    <3> QED BY <2>2, <3>3, <3>4 DEF Extended
  <2> QED BY <2>1, <2>2
<1>6. f[1] = first
  <2>1. 1 \in 1 .. (N + 1) /\ 1 - 1 = 0
    BY <1>1
  <2>2. f[1] = Extended(<<>>, Head(q))
    BY <1>1, <1>2, <2>1
  <2>3. Append(<<>>, Event(Head(q))) = <<Event(Head(q))>>
    OBVIOUS
  <2> QED BY <2>2, <2>3, Zenon DEF Extended
<1>7. \A n \in 0 .. N : n \in {m \in 0 .. N : f[m + 1] = first \o g[m]}
  <2> DEFINE T == {m \in 0 .. N : f[m + 1] = first \o g[m]}
  <2>1. 0 \in T
    <3> HIDE DEF first
    <3> QED BY <1>1, <1>3, <1>4, <1>6
  <2>2. ASSUME NEW n \in 0 .. (N - 1), n \in T
        PROVE  n + 1 \in T
    <3>1. /\ n + 1 \in 1 .. N /\ n + 2 \in 1 .. (N + 1) /\ n + 1 \in 0 .. N
          /\ (n + 1) - 1 = n /\ (n + 2) - 1 = n + 1 /\ (n + 1) + 1 = n + 2 /\ n \in 0 .. N
      BY <1>1
    <3>2. f[n + 2] = Extended(first \o g[n], q[n + 2])
      BY <1>2, <2>2, <3>1
    <3>3. g[n + 1] = Extended(g[n], q[n + 2])
      BY <1>1, <1>3, <3>1
    <3>4. q[n + 2] \in Tasks /\ g[n] \in Seq(SomeEvents)
      BY <1>1, <1>3, <3>1
    <3> HIDE DEF first
    <3>5. f[(n + 1) + 1] = first \o g[n + 1]
      BY <1>5, <3>1, <3>2, <3>3, <3>4
    <3> QED BY <3>1, <3>5
  <2> HIDE DEF T
  <2>3. \A n \in 0 .. N : n \in T
    BY <1>1, <2>1, <2>2, BoundedInduction
  <2> QED BY <2>3 DEF T
<1>8. EventsOf(q) = first \o EventsOf(r)
  <2>1. N \in 0 .. N
    BY <1>1
  <2> HIDE DEF first
  <2> QED BY <1>2, <1>3, <1>7, <2>1
<1>9. EventsOf(r) \in Seq(SomeEvents)
  BY <1>1, EventsType
<1>10. CASE Calls(Head(q))
  BY <1>8, <1>10 DEF r
<1>11. CASE ~Calls(Head(q))
  <2>1. EventsOf(q) = <<>> \o EventsOf(r)
    BY <1>8, <1>11
  <2>2. <<>> \o EventsOf(r) = EventsOf(r)
    BY <1>9
  <2> QED BY <1>11, <2>1, <2>2 DEF r
<1> QED BY <1>10, <1>11
-----------------------------------------------------------------------------
(* Before the first connect there is nothing to run.                       *)
Quiet ==
  connects = 0 =>
    state = "Disconnected" /\ timers = 0 /\ ~starting /\ ~serving /\ tasks = <<>>

LEMMA QuietStep == QueueOK /\ CountsOK /\ Quiet /\ [Next]_vars => Quiet'
<1> SUFFICES ASSUME QueueOK, CountsOK, Quiet, [Next]_vars, connects' = 0
             PROVE  /\ state' = "Disconnected" /\ timers' = 0 /\ ~starting' /\ ~serving'
                    /\ tasks' = <<>>
  BY DEF Quiet
<1> USE DEF implVars, frameVars, appVars, observerVars
<1>0. connects \in Nat
  BY DEF CountsOK
<1>1. CASE UNCHANGED vars
  BY <1>1 DEF vars, Quiet
<1>2. CASE Next
  <2>1. connects = 0
    <3>1. connects' = connects \/ connects' = connects + 1
      BY <1>2 DEF Next, AppNext, ConnectUrl, StartEvtLoop, disconnect, RetryDue, TaskNext,
           DoConnectRefused, DoConnectNoContext, DoConnectFails, DoConnectFailsInCallback,
           DoConnectStarts, NewAttempt, RunStateChange, RunMessage, RunError,
           RunRetry, EvtLoopBegin, EvtLoopEnd, LwsNext, Established, Receive, ConnectionError,
           LinkDies
    <3> QED BY <1>0, <3>1
  <2>2. /\ state = "Disconnected" /\ timers = 0 /\ ~starting /\ ~serving /\ tasks = <<>>
    BY <2>1 DEF Quiet
  <2>3. ~TaskNext
    BY <2>2 DEF TaskNext, DoConnectRefused, DoConnectNoContext, DoConnectFails,
           DoConnectFailsInCallback, DoConnectStarts, NewAttempt, RunStateChange, RunMessage,
           RunError, RunRetry, EvtLoopBegin, Runs
  <2>4. ~RetryDue /\ ~EvtLoopEnd /\ ~LwsNext
    BY <2>2 DEF RetryDue, EvtLoopEnd, LwsNext, Established, Receive, ConnectionError, LinkDies
  <2>5. ~AppNext
    BY <1>0, <2>1, <2>2 DEF AppNext, ConnectUrl, StartEvtLoop
  <2>6. CASE disconnect
    BY <2>2, <2>6 DEF disconnect, Notified
  <2> QED BY <1>2, <2>3, <2>4, <2>5, <2>6 DEF Next
<1> QED BY <1>1, <1>2

LEMMA QuietHolds == Spec => []Quiet
<1>1. Init => Quiet
  BY DEF Init, Quiet
<1> QED BY <1>1, TypesHold, QuietStep, PTL DEF Spec
-----------------------------------------------------------------------------
(* What the ways to change the queue make of its events                    *)
Posted(path) == [i \in DOMAIN path |-> Socket!StateChange(path[i])]
Moves(s) == IF state = s THEN <<>> ELSE <<s>>

LEMMA CallOps ==
  /\ ~Calls(EvtLoop) /\ ~Calls(Retry)
  /\ \A u, n : ~Calls(DoConnect(u, n))
  /\ Calls(Message) /\ Event(Message) = Socket!Message("")
  /\ Calls(RetriesSpent) /\ Event(RetriesSpent) = Socket!Error
  /\ \A s, n : /\ Calls(StateChange(s, n))
               /\ Event(StateChange(s, n)) = Socket!StateChange(s)
<1>1. /\ ~Calls(EvtLoop) /\ ~Calls(Retry) /\ \A u, n : ~Calls(DoConnect(u, n))
      /\ Calls(Message) /\ Calls(RetriesSpent) /\ \A s, n : Calls(StateChange(s, n))
  BY LoopOps DEF Calls
<1>2. Event(Message) = Socket!Message("")
  BY DEF Event, Message, Socket!Message
<1>3. Event(RetriesSpent) = Socket!Error
  BY DEF Event, RetriesSpent, Socket!Error
<1>4. \A s, n : Event(StateChange(s, n)) = Socket!StateChange(s)
  BY DEF Event, StateChange, Socket!StateChange
<1> QED BY <1>1, <1>2, <1>3, <1>4

LEMMA AppendToOne ==
  ASSUME NEW c, NEW d
  PROVE  Append(<<c>>, d) = <<c, d>>
<1> DEFINE l == Append(<<c>>, d)
           r == <<c, d>>
           S == {c, d}
<1>1. l \in Seq(S) /\ r \in Seq(S) /\ Len(l) = 2 /\ Len(r) = 2
  OBVIOUS
<1>2. l[1] = r[1] /\ l[2] = r[2]
  OBVIOUS
<1> HIDE DEF l, r, S
<1>3. \A i \in 1 .. Len(l) : l[i] = r[i]
  BY <1>1, <1>2
<1>4. Len(l) = Len(r)
  BY <1>1
<1>5. l = r
  BY <1>1, <1>3, <1>4, SeqEqual, Zenon
<1> QED BY <1>5 DEF l, r

LEMMA PostedFacts ==
  /\ Posted(<<>>) = <<>>
  /\ \A s : Posted(<<s>>) = <<Socket!StateChange(s)>>
  /\ \A s, t : Posted(<<s, t>>) = <<Socket!StateChange(s), Socket!StateChange(t)>>
  BY DEF Posted

LEMMA EventsNotified ==
  ASSUME NEW q \in Seq(Tasks), NEW s \in States, NEW n \in Tags
  PROVE  EventsOf(Notified(q, s, n)) = EventsOf(q) \o Posted(Moves(s))
<1>1. EventsOf(q) \in Seq(SomeEvents)
  BY EventsType
<1>2. CASE state = s
  <2>1. Posted(<<>>) = <<>>
    BY PostedFacts
  <2>2. EventsOf(q) \o <<>> = EventsOf(q)
    BY <1>1
  <2> QED BY <1>2, <2>1, <2>2, Zenon DEF Moves, Notified
<1>3. CASE state # s
  <2>1. StateChange(s, n) \in Tasks
    BY TaskKinds
  <2>2. EventsOf(Append(q, StateChange(s, n))) = Append(EventsOf(q), Socket!StateChange(s))
    BY <2>1, EventsAppend, CallOps, Zenon DEF Extended
  <2>3. Posted(<<s>>) = <<Socket!StateChange(s)>>
    BY PostedFacts
  <2>4. Socket!StateChange(s) \in SomeEvents
    BY <2>1, CallOps, Zenon DEF SomeEvents
  <2> HIDE DEF SomeEvents
  <2>5. Append(EventsOf(q), Socket!StateChange(s)) = EventsOf(q) \o <<Socket!StateChange(s)>>
    BY <1>1, <2>4
  <2> QED BY <1>3, <2>2, <2>3, <2>5, Zenon DEF Moves, Notified
<1> QED BY <1>2, <1>3

LEMMA EventsRetry ==
  ASSUME NEW q \in Seq(Tasks), NEW n \in 0 .. MaxRetry, NEW k \in {1, 2}, TryReconnect(q, n, k)
  PROVE  \E errors \in Socket!Errors : EventsOf(tasks') = EventsOf(q) \o errors
<1> DEFINE spent == k - (IF n + k <= MaxRetry THEN k ELSE MaxRetry - n)
           r == [i \in 1 .. spent |-> RetriesSpent]
           e == Socket!Error
<1>1. spent \in 0 .. 2
  BY BoundsAssumption
<1>2. tasks' = q \o r
  BY DEF TryReconnect
<1> HIDE DEF spent
<1>3. /\ EventsOf(q) \in Seq(SomeEvents) /\ RetriesSpent \in Tasks /\ e \in SomeEvents
      /\ Calls(RetriesSpent) /\ Event(RetriesSpent) = e
  BY EventsType, TaskKinds, CallOps, Zenon DEF SomeEvents
<1> HIDE DEF e, SomeEvents
<1>4. CASE spent = 0
  <2>1. q \o r = q
    BY <1>4
  <2>2. EventsOf(q) \o <<>> = EventsOf(q)
    BY <1>3
  <2> QED BY <1>2, <2>1, <2>2, Zenon DEF Socket!Errors
<1>5. CASE spent = 1
  <2>1. q \o r = Append(q, RetriesSpent)
    BY <1>3, <1>5
  <2>2. EventsOf(tasks') = Append(EventsOf(q), e)
    BY <1>2, <1>3, <2>1, EventsAppend, Zenon DEF Extended
  <2>3. Append(EventsOf(q), e) = EventsOf(q) \o <<e>>
    BY <1>3
  <2> QED BY <2>2, <2>3, Zenon DEF Socket!Errors, e
<1>6. CASE spent = 2
  <2>1. q \o r = Append(Append(q, RetriesSpent), RetriesSpent) /\ Append(q, RetriesSpent) \in Seq(Tasks)
    BY <1>3, <1>6
  <2>2. EventsOf(tasks') = Append(Append(EventsOf(q), e), e)
    BY <1>2, <1>3, <2>1, EventsAppend, Zenon DEF Extended
  <2>3. Append(Append(EventsOf(q), e), e) = EventsOf(q) \o <<e, e>>
    BY <1>3
  <2> QED BY <2>2, <2>3, Zenon DEF Socket!Errors, e
<1>7. spent = 0 \/ spent = 1 \/ spent = 2
  BY <1>1
<1> QED BY <1>4, <1>5, <1>6, <1>7, Zenon
-----------------------------------------------------------------------------
(* Every step is one of SignalSocket, or leaves what it speaks of alone.   *)
events == EventsOf(tasks)

Socketed == QueueOK /\ CountsOK /\ Links /\ Quiet

(* A task that is posted or run and does not call the observer             *)
LEMMA PostStep ==
  ASSUME NEW t \in Tasks, QueueOK, tasks' = Append(tasks, t), ~Calls(t)
  PROVE  events' = events
<1>1. events' = EventsOf(Append(tasks, t))
  BY DEF events
<1> QED BY <1>1, EventsAppend DEF events, Extended, QueueOK

LEMMA TakeStep ==
  ASSUME QueueOK, NEW op, Runs(op), op \notin {"StateChange", "Message", "Error"}
  PROVE  Tail(tasks) \in Seq(Tasks) /\ EventsOf(Tail(tasks)) = events
<1>1. tasks \in Seq(Tasks) /\ tasks # <<>> /\ ~Calls(Head(tasks))
  BY DEF Runs, Calls, QueueOK
<1>2. Tail(tasks) \in Seq(Tasks)
  BY <1>1
<1>3. EventsOf(tasks) = EventsOf(Tail(tasks))
  BY <1>1, EventsTail, Zenon
<1> QED BY <1>2, <1>3 DEF events

(* The paths of a handler from state to state                              *)
LEMMA PathFacts ==
  ASSUME NEW r \in States, NEW s \in States, NEW t \in States
  PROVE  /\ {<<>>, <<s>>, <<s, t>>} \subseteq Socket!Paths
         /\ Socket!Follows(r, <<>>, r)
         /\ r # s => Socket!Follows(r, <<s>>, s)
         /\ r # s /\ s # t => Socket!Follows(r, <<s, t>>, t)
<1>1. <<>> \in Socket!Paths /\ <<s>> \in Socket!Paths
  BY DEF Socket!Paths, Socket!States, States
<1>2. <<s, t>> \in Socket!Paths
  BY DEF Socket!Paths, Socket!States, States
<1>5. Socket!Follows(r, <<>>, r)
  BY DEF Socket!Follows
<1>3. r # s => Socket!Follows(r, <<s>>, s)
  BY DEF Socket!Follows
<1>4. r # s /\ s # t => Socket!Follows(r, <<s, t>>, t)
  BY DEF Socket!Follows
<1> QED BY <1>1, <1>2, <1>3, <1>4, <1>5

(* A handler that changes the state along a path and reports errors        *)
LEMMA ChangeStep ==
  ASSUME NEW path \in Socket!Paths, NEW errors \in Socket!Errors,
         Socketed, connects > 0, state' \in States, Socket!Follows(state, path, state'),
         events' = events \o Posted(path) \o errors, connects' = connects, view' = view
  PROVE  Socket!SocketNext
<1>1. Socket!States = States
  BY DEF Socket!States, States
<1>2. Socket!Change(path, errors)
  <2>1. UNCHANGED <<connects > 0, view>>
    OBVIOUS
  <2> QED BY <1>1, <2>1, Zenon DEF Socket!Change, Posted, events
<1> QED BY <1>2, Zenon DEF Socket!SocketNext

LEMMA ErrorsSeq == Socket!Errors \subseteq Seq(SomeEvents)
<1> DEFINE e == Socket!Error
<1>1. e \in SomeEvents
  BY CallOps, TaskKinds, Zenon DEF SomeEvents
<1> HIDE DEF e, SomeEvents
<1>2. {<<>>, <<e>>, <<e, e>>} \subseteq Seq(SomeEvents)
  BY <1>1
<1> QED BY <1>2, Zenon DEF Socket!Errors, e

(* ... of at most one change, to s                                         *)
LEMMA MoveStep ==
  ASSUME Socketed, NEW s \in States, state' = s, connects' = connects, view' = view,
         connects > 0, NEW errors \in Socket!Errors, events' = events \o Posted(Moves(s)) \o errors
  PROVE  Socket!SocketNext
<1>1. state \in States
  BY DEF Socketed, QueueOK
<1>2. Moves(s) \in Socket!Paths /\ Socket!Follows(state, Moves(s), s)
  BY <1>1, PathFacts, Zenon DEF Moves
<1> QED BY <1>2, ChangeStep

(* The observer is called with what was posted first.                      *)
LEMMA DeliverStep ==
  ASSUME Socketed, tasks # <<>>, Calls(Head(tasks)), tasks' = Tail(tasks),
         UNCHANGED <<state, connects>>,
         view' = IF Head(tasks).op = "StateChange" THEN Head(tasks).arg ELSE view
  PROVE  Socket!SocketNext
<1> DEFINE first == Event(Head(tasks))
           rest == EventsOf(Tail(tasks))
<1>1. Head(tasks) \in Tasks /\ Tail(tasks) \in Seq(Tasks) /\ tasks \in Seq(Tasks)
  BY DEF Socketed, QueueOK
<1>2. first \in SomeEvents /\ rest \in Seq(SomeEvents)
  BY <1>1, EventsType, Zenon DEF SomeEvents
<1>3. events = <<first>> \o rest /\ events' = rest
  BY <1>1, EventsTail, Zenon DEF events
<1>4. view' = IF Socket!IsChange(first) THEN first.change ELSE view
  <2>1. Head(tasks).op \in {"StateChange", "Message", "Error"}
    BY DEF Calls
  <2>2. CASE Head(tasks).op = "StateChange"
    <3>1. first = [change |-> Head(tasks).arg]
      BY <2>2 DEF Event
    <3> QED BY <2>2, <3>1 DEF Socket!IsChange
  <2>3. CASE Head(tasks).op = "Message"
    <3>1. first = [data |-> Head(tasks).arg]
      BY <2>3 DEF Event
    <3>2. ~Socket!IsChange(first)
      BY <3>1 DEF Socket!IsChange
    <3> QED BY <2>3, <3>2
  <2>4. CASE Head(tasks).op = "Error"
    <3>1. first = [error |-> TRUE]
      BY <2>4 DEF Event
    <3>2. ~Socket!IsChange(first)
      BY <3>1 DEF Socket!IsChange
    <3> QED BY <2>4, <3>2
  <2> QED BY <2>1, <2>2, <2>3, <2>4
<1> HIDE DEF first, rest, SomeEvents
<1>5. events # <<>> /\ Head(events) = first /\ Tail(events) = rest
  BY <1>2, <1>3
<1>6. Socket!Deliver
  <2>1. UNCHANGED <<state, connects > 0>>
    OBVIOUS
  <2> QED BY <1>3, <1>4, <1>5, <2>1, Zenon DEF Socket!Deliver, events
<1> QED BY <1>6, Zenon DEF Socket!SocketNext

(* A task may connect, or the state be another, only after a connect.      *)
LEMMA AskedFirst ==
  ASSUME Socketed
  PROVE  /\ state # "Disconnected" => connects > 0
         /\ \A op : Runs(op) => connects > 0
<1>1. connects \in Nat
  BY DEF Socketed, CountsOK
<1> QED BY <1>1 DEF Socketed, Quiet, Runs

LEMMA DoConnectStep ==
  ASSUME Socketed,
         DoConnectNoContext \/ DoConnectFails \/ DoConnectFailsInCallback \/ DoConnectStarts
  PROVE  Socket!SocketNext
<1> DEFINE q == Tail(tasks)
           p == Notified(q, "Connecting", attempt')
<1>0. /\ Runs("DoConnect") /\ view' = view /\ connects' = connects
      /\ attempt' = Head(tasks).of
  BY DEF DoConnectNoContext, DoConnectFails, DoConnectFailsInCallback, DoConnectStarts,
         NewAttempt, appVars
<1>8. attempt' \in Tags
  <2>1. Head(tasks) \in Tasks /\ Head(tasks).op = "DoConnect"
    BY <1>0 DEF Runs, Socketed, QueueOK
  <2> QED BY <1>0, <2>1, TaskKinds
<1>1. q \in Seq(Tasks) /\ EventsOf(q) = events /\ connects > 0
  BY <1>0, TakeStep, AskedFirst DEF Socketed
<1>2. "Connecting" \in States /\ "Disconnected" \in States /\ state \in States
  BY DEF States, Socketed, QueueOK
<1> HIDE DEF q
<1>3. p \in Seq(Tasks) /\ EventsOf(p) = events \o Posted(Moves("Connecting"))
  BY <1>1, <1>2, <1>8, NotifiedTasks, EventsNotified
<1>4. EventsOf(p) \in Seq(SomeEvents) /\ events \in Seq(SomeEvents)
  BY <1>1, <1>3, EventsType
<1>5. CASE DoConnectNoContext \/ DoConnectStarts
  <2>1. state' = "Connecting" /\ tasks' = p
    BY <1>5 DEF DoConnectNoContext, DoConnectStarts, q
  <2>2. EventsOf(p) \o <<>> = EventsOf(p) /\ <<>> \in Socket!Errors
    BY <1>4 DEF Socket!Errors
  <2>3. events' = events \o Posted(Moves("Connecting")) \o <<>>
    BY <1>3, <2>1, <2>2, Zenon DEF events
  <2> QED BY <1>0, <1>1, <1>2, <2>1, <2>2, <2>3, MoveStep
<1>6. CASE DoConnectFails
  <2>1. state' = "Connecting" /\ TryReconnect(p, 0, 1) /\ 0 \in 0 .. MaxRetry
    BY <1>6, BoundsAssumption DEF DoConnectFails, q
  <2> HIDE DEF p
  <2>2. PICK errors \in Socket!Errors : EventsOf(tasks') = EventsOf(p) \o errors
    BY <1>3, <2>1, EventsRetry
  <2>3. events' = events \o Posted(Moves("Connecting")) \o errors
    BY <1>3, <2>2, Zenon DEF events
  <2> QED BY <1>0, <1>1, <1>2, <2>1, <2>3, MoveStep
<1>7. CASE DoConnectFailsInCallback
  <2> DEFINE last == StateChange("Disconnected", attempt')
             path == IF state = "Connecting" THEN <<"Disconnected">>
                     ELSE <<"Connecting", "Disconnected">>
  <2>1. state' = "Disconnected" /\ TryReconnect(Append(p, last), 0, 2) /\ 0 \in 0 .. MaxRetry
    BY <1>7, BoundsAssumption DEF DoConnectFailsInCallback, q
  <2>2. path \in Socket!Paths /\ Socket!Follows(state, path, "Disconnected")
    BY <1>2, PathFacts
  <2>3. last \in Tasks /\ Calls(last) /\ Event(last) = Socket!StateChange("Disconnected")
    BY <1>2, <1>8, TaskKinds, CallOps, Zenon
  <2>4. Posted(path) = Append(Posted(Moves("Connecting")), Socket!StateChange("Disconnected"))
    <3> DEFINE d == Socket!StateChange("Disconnected")
               c == Socket!StateChange("Connecting")
    <3>1. Posted(<<>>) = <<>> /\ Posted(<<"Disconnected">>) = <<d>>
          /\ Posted(<<"Connecting">>) = <<c>> /\ Posted(<<"Connecting", "Disconnected">>) = <<c, d>>
      BY PostedFacts
    <3> HIDE DEF c, d
    <3>2. Append(<<>>, d) = <<d>>
      OBVIOUS
    <3>3. Append(<<c>>, d) = <<c, d>>
      BY AppendToOne
    <3> QED BY <3>1, <3>2, <3>3, Zenon DEF Moves, d
  <2>5. Posted(Moves("Connecting")) \in Seq(SomeEvents)
    <3> DEFINE c == Socket!StateChange("Connecting")
    <3>1. c \in SomeEvents
      BY <1>2, <1>8, TaskKinds, CallOps, Zenon DEF SomeEvents
    <3>2. Posted(<<>>) = <<>> /\ Posted(<<"Connecting">>) = <<c>>
      BY PostedFacts
    <3> HIDE DEF c, SomeEvents
    <3>3. <<>> \in Seq(SomeEvents) /\ <<c>> \in Seq(SomeEvents)
      BY <3>1
    <3> QED BY <3>2, <3>3, Zenon DEF Moves
  <2>6. Event(last) \in SomeEvents
    BY <2>3, Zenon DEF SomeEvents
  <2> HIDE DEF last, path, p, SomeEvents
  <2>7. EventsOf(Append(p, last)) = Append(EventsOf(p), Event(last))
    BY <1>3, <2>3, EventsAppend DEF Extended
  <2>8. Append(EventsOf(p), Event(last)) = events \o Posted(path)
    <3> DEFINE m == Posted(Moves("Connecting"))
               u == Event(last)
    <3>1. EventsOf(p) = events \o m /\ Posted(path) = Append(m, u)
      BY <1>3, <2>3, <2>4
    <3>2. m \in Seq(SomeEvents) /\ u \in SomeEvents
      BY <2>5, <2>6
    <3> HIDE DEF m, u
    <3>3. Append(events \o m, u) = events \o Append(m, u)
      <4> DEFINE S == SomeEvents
                 before == events
                 v == <<u>>
      <4>1. before \in Seq(S) /\ m \in Seq(S) /\ u \in S
        BY <1>4, <3>2, Zenon
      <4> HIDE DEF S, before
      <4>2. before \o m \in Seq(S)
        BY ONLY <4>1
      <4>3. v \in Seq(S) /\ Append(m, u) = m \o v /\ Append(before \o m, u) = (before \o m) \o v
        BY <4>1, <4>2
      <4> HIDE DEF v
      <4>4. (before \o m) \o v = before \o (m \o v)
        BY ONLY <4>1, <4>3, ConcatAssociative, SMTT(30)
      <4> QED BY <4>3, <4>4, Zenon DEF before
    <3> QED BY <3>1, <3>3, Zenon DEF u
  <2>9. Append(p, last) \in Seq(Tasks)
    BY <1>3, <2>3
  <2>10. PICK errors \in Socket!Errors : EventsOf(tasks') = EventsOf(Append(p, last)) \o errors
    BY <2>1, <2>9, EventsRetry
  <2>11. events' = events \o Posted(path) \o errors
    BY <2>7, <2>8, <2>10, Zenon DEF events
  <2> QED BY <1>0, <1>1, <1>2, <2>1, <2>2, <2>11, ChangeStep
<1> QED BY <1>5, <1>6, <1>7

(* What the connection makes of the state                                  *)
LEMMA LwsStep ==
  ASSUME Socketed, LwsNext
  PROVE  Socket!SocketNext \/ UNCHANGED <<state, connects, events, view>>
<1> USE DEF appVars, observerVars
<1>0. /\ tasks \in Seq(Tasks) /\ state \in States /\ "Disconnected" \in States /\ "Open" \in States
      /\ events \in Seq(SomeEvents) /\ attempt \in Tags
  BY EventsType DEF Socketed, QueueOK, States, events
<1>1. CASE Established
  <2>1. /\ state' = "Open" /\ tasks' = Notified(tasks, "Open", attempt) /\ UNCHANGED <<connects, view>>
        /\ state = "Connecting"
    BY <1>1 DEF Established, Socketed, Links
  <2>2. connects > 0
    BY <2>1, AskedFirst
  <2>3. EventsOf(tasks') = events \o Posted(Moves("Open"))
    BY <1>0, <2>1, EventsNotified DEF events
  <2>4. EventsOf(tasks') \in Seq(SomeEvents)
    BY <1>0, <2>1, NotifiedTasks, EventsType
  <2>5. events' = events \o Posted(Moves("Open")) \o <<>> /\ <<>> \in Socket!Errors
    BY <2>3, <2>4 DEF events, Socket!Errors
  <2> QED BY <1>0, <2>1, <2>2, <2>5, MoveStep
<1>2. ASSUME NEW fin \in BOOLEAN, Receive(fin)
      PROVE  Socket!SocketNext \/ UNCHANGED <<state, connects, events, view>>
  <2>1. /\ UNCHANGED <<state, connects, view>> /\ state = "Open"
        /\ tasks' = IF fin THEN Append(tasks, Message) ELSE tasks
    BY <1>2 DEF Receive, Socketed, Links, implVars
  <2>2. CASE ~fin
    BY <2>1, <2>2 DEF events
  <2>3. CASE fin
    <3>1. EventsOf(tasks') = Append(EventsOf(tasks), Socket!Message(""))
      BY <1>0, <2>1, <2>3, EventsAppend, TaskKinds, CallOps DEF Extended
    <3>2. UNCHANGED <<state, connects > 0, view>>
      BY <2>1
    <3>3. Socket!Arrive("")
      BY <2>1, <3>1, <3>2, Zenon DEF Socket!Arrive
    <3> QED BY <3>3, Zenon DEF Socket!SocketNext
  <2> QED BY <2>2, <2>3
<1>3. CASE ConnectionError
  <2> DEFINE q == Notified(tasks, "Disconnected", attempt)
  <2>1. state' = "Disconnected" /\ UNCHANGED <<connects, view>> /\ state # "Disconnected"
    BY <1>3 DEF ConnectionError, Socketed, Links
  <2>2. connects > 0
    BY <2>1, AskedFirst
  <2>3. q \in Seq(Tasks) /\ EventsOf(q) = events \o Posted(Moves("Disconnected"))
    BY <1>0, NotifiedTasks, EventsNotified DEF events
  <2>4. tasks' = q \/ TryReconnect(q, retry_counter, 1)
    BY <1>3 DEF ConnectionError
  <2>5. retry_counter \in 0 .. MaxRetry
    BY DEF Socketed, QueueOK
  <2> HIDE DEF q
  <2>6. EventsOf(q) \in Seq(SomeEvents)
    BY <2>3, EventsType
  <2>7. EventsOf(q) \o <<>> = EventsOf(q) /\ <<>> \in Socket!Errors
    BY <2>6 DEF Socket!Errors
  <2>8. \E errors \in Socket!Errors : EventsOf(tasks') = EventsOf(q) \o errors
    BY <2>3, <2>4, <2>5, <2>7, EventsRetry
  <2>9. PICK errors \in Socket!Errors : EventsOf(tasks') = EventsOf(q) \o errors
    BY <2>8
  <2>10. events' = events \o Posted(Moves("Disconnected")) \o errors
    BY <2>3, <2>9, Zenon DEF events
  <2> QED BY <1>0, <2>1, <2>2, <2>10, MoveStep
<1>4. CASE LinkDies
  BY <1>4 DEF LinkDies, implVars, events
<1> QED BY <1>1, <1>2, <1>3, <1>4 DEF LwsNext

LEMMA SocketStep ==
  Socketed /\ [Next]_vars => [Socket!SocketNext]_<<state, connects > 0, EventsOf(tasks), view>>
<1> SUFFICES ASSUME Socketed, [Next]_vars
             PROVE  Socket!SocketNext \/ UNCHANGED <<state, connects > 0, EventsOf(tasks), view>>
  OBVIOUS
<1> USE DEF implVars, frameVars, appVars, observerVars
<1>0. tasks \in Seq(Tasks) /\ QueueOK /\ connects \in Nat
  BY DEF Socketed, QueueOK, CountsOK
<1>1. SUFFICES Socket!SocketNext \/ UNCHANGED <<state, connects, events, view>>
  <2>1. UNCHANGED <<state, connects, events, view>>
          => UNCHANGED <<state, connects > 0, EventsOf(tasks), view>>
    BY DEF events
  <2> QED BY <1>1, <2>1
<1>2. CASE AppNext
  <2>1. ASSUME NEW url \in {"good", "bad"}, ConnectUrl(url) PROVE Socket!SocketNext
    <3>0. connects' \in Tags
      BY <1>0, <2>1, BoundsAssumption DEF ConnectUrl, Tags
    <3>1. DoConnect(url, connects') \in Tasks /\ ~Calls(DoConnect(url, connects'))
      BY <3>0, TaskKinds, CallOps DEF Urls
    <3>2. events' = events
      BY <1>0, <2>1, <3>1, PostStep DEF ConnectUrl
    <3>3. UNCHANGED <<state, events, view>> /\ (connects > 0)' = TRUE
      BY <1>0, <2>1, <3>2 DEF ConnectUrl
    <3>4. Socket!connect
      BY <3>3, Zenon DEF Socket!connect, events
    <3> QED BY <3>4, Zenon DEF Socket!SocketNext
  <2>2. CASE StartEvtLoop
    BY <1>0, <2>2, PostStep, TaskKinds, CallOps DEF StartEvtLoop
  <2> QED BY <1>2, <2>1, <2>2 DEF AppNext
<1>8. CASE disconnect
  <2>1. /\ tasks' = Notified(tasks, "Disconnected", attempt) /\ attempt \in Tags
        /\ state' = "Disconnected" /\ UNCHANGED <<connects, view>>
        /\ "Disconnected" \in States
    BY <1>8 DEF disconnect, Socketed, QueueOK, States
  <2>2. CASE state = "Disconnected"
    BY <2>1, <2>2 DEF Notified, events
  <2>3. CASE state # "Disconnected"
    <3>1. connects > 0
      BY <2>3, AskedFirst
    <3>2. EventsOf(tasks') = events \o Posted(Moves("Disconnected"))
      BY <1>0, <2>1, EventsNotified DEF events
    <3>3. EventsOf(tasks') \in Seq(SomeEvents)
      BY <1>0, <2>1, NotifiedTasks, EventsType
    <3>4. events' = events \o Posted(Moves("Disconnected")) \o <<>> /\ <<>> \in Socket!Errors
      BY <3>2, <3>3 DEF events, Socket!Errors
    <3> QED BY <2>1, <3>1, <3>4, MoveStep
  <2> QED BY <2>2, <2>3
<1>3. CASE RetryDue
  BY <1>0, <1>3, PostStep, TaskKinds, CallOps DEF RetryDue
<1>4. CASE EvtLoopEnd
  BY <1>0, <1>4, PostStep, TaskKinds, CallOps DEF EvtLoopEnd
<1>5. CASE TaskNext
  <2>1. CASE DoConnectRefused
    BY <1>0, <2>1, TakeStep DEF DoConnectRefused, events
  <2>2. CASE DoConnectNoContext \/ DoConnectFails \/ DoConnectFailsInCallback \/ DoConnectStarts
    BY <2>2, DoConnectStep
  <2>4. CASE RunStateChange
    BY <2>4, DeliverStep DEF RunStateChange, Runs, Calls
  <2>5. CASE RunMessage
    BY <2>5, DeliverStep DEF RunMessage, Runs, Calls
  <2>6. CASE RunError
    BY <2>6, DeliverStep DEF RunError, Runs, Calls
  <2>7. CASE RunRetry
    <3> DEFINE q == Tail(tasks)
               d == DoConnect("url_", 0)
    <3>1. q \in Seq(Tasks) /\ EventsOf(q) = events
      BY <1>0, <2>7, TakeStep DEF RunRetry
    <3>2. d \in Tasks /\ ~Calls(d) /\ EvtLoop \in Tasks /\ ~Calls(EvtLoop)
      <4>1. "url_" \in Urls /\ 0 \in Tags
        BY BoundsAssumption DEF Urls, Tags
      <4> QED BY <4>1, TaskKinds, CallOps
    <3>3. tasks' = q \o <<d, EvtLoop>>
      BY <2>7 DEF RunRetry
    <3> HIDE DEF q, d
    <3>4. tasks' = Append(Append(q, d), EvtLoop) /\ Append(q, d) \in Seq(Tasks)
      BY <3>1, <3>2, <3>3
    <3>5. EventsOf(tasks') = EventsOf(q)
      BY <3>1, <3>2, <3>4, EventsAppend, Zenon DEF Extended
    <3> QED BY <2>7, <3>1, <3>5 DEF RunRetry, events
  <2>8. CASE EvtLoopBegin
    <3>1. /\ tasks' = Tail(tasks) \/ tasks' = Append(Tail(tasks), EvtLoop)
          /\ UNCHANGED <<state, connects, view>>
      BY <2>8 DEF EvtLoopBegin
    <3>2. Tail(tasks) \in Seq(Tasks) /\ EventsOf(Tail(tasks)) = events
      BY <1>0, <2>8, TakeStep DEF EvtLoopBegin
    <3>3. EventsOf(Append(Tail(tasks), EvtLoop)) = EventsOf(Tail(tasks))
      BY <3>2, EventsAppend, TaskKinds, CallOps DEF Extended
    <3> QED BY <3>1, <3>2, <3>3 DEF events
  <2> QED BY <1>5, <2>1, <2>2, <2>4, <2>5, <2>6, <2>7, <2>8 DEF TaskNext
<1>6. CASE LwsNext
  BY <1>6, LwsStep
<1>7. CASE UNCHANGED vars
  BY <1>7 DEF vars, events
<1> QED BY <1>2, <1>3, <1>4, <1>5, <1>6, <1>7, <1>8 DEF Next

(* The observer of a WebSocketClient hears what SignalSocket promises: no  *)
(* change of state is lost, overtaken or told twice, and data is posted    *)
(* only while the connection is open, whatever the net thread runs between *)
(* the post and the call. Before the first connect nothing can change the  *)
(* state (Quiet); the handlers' posts, changes and errors map one by one.  *)
THEOREM SocketImplemented == Spec => ImplementsSignalSocket
<1>1. Init => Socket!SocketInit
  <2> SUFFICES ASSUME Init PROVE Socket!SocketInit
    OBVIOUS
  <2>1. (connects > 0) = FALSE
    BY DEF Init
  <2>2. EventsOf(tasks) = <<>>
    BY EventsEmpty DEF Init
  <2> QED BY <2>1, <2>2, Zenon DEF Init, Socket!SocketInit
<1>2. Socketed /\ [Next]_vars => [Socket!SocketNext]_Socket!socketVars
  BY SocketStep, Zenon DEF Socket!socketVars
<1> QED BY <1>1, <1>2, TypesHold, LinksHold, QuietHolds, PTL
        DEF Spec, ImplementsSignalSocket, Socket!SocketSpec, Socketed
=============================================================================
