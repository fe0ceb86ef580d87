--------------------------- MODULE WebSocketClient ---------------------------
(***************************************************************************)
(* client/src/websocket_client.{h,cc}: a WebSocket client on libwebsockets *)
(* (lws) whose work is done by tasks of one SimpleThread, net_thread_.     *)
(*                                                                         *)
(* A task runs to its end before the next one begins, so it is one action; *)
(* only EvtLoop takes several, because lws_service calls LwsCallback once  *)
(* for each event. Tasks posted without a delay run in the order they were *)
(* posted (their `when` is the clock at the post); the retry, posted with  *)
(* a delay, becomes due at any later moment.                               *)
(*                                                                         *)
(* lws is external: a connection attempt fails at once, later, or succeeds;*)
(* an established connection receives frames until it dies. lws calls back *)
(* only from a call on the context it belongs to, so the connections of an *)
(* overwritten context are never heard of again. The end of an established *)
(* connection it reports to a client as LWS_CALLBACK_CLIENT_CLOSED, which  *)
(* LwsCallback passes over: its LWS_CALLBACK_CLOSED is a server's.         *)
(*                                                                         *)
(* Close asserts that it is called on net_thread_. This is the client with *)
(* callers that keep to that; WebSocketClientThreads has those that do not.*)
(***************************************************************************)
EXTENDS Naturals, Sequences

CONSTANTS
  MaxRetry,     (* config.max_retry_count                                  *)
  MaxConnects,  (* BOUND: calls of connect                                 *)
  MaxCloses,    (* BOUND: calls of disconnect                              *)
  MaxFrames     (* BOUND: frames the server sends                          *)

ASSUME BoundsAssumption ==
  MaxRetry \in Nat /\ MaxConnects \in Nat /\ MaxCloses \in Nat /\ MaxFrames \in Nat

VARIABLES
  tasks,          (* the due tasks of net_thread_, in order                *)
  timers,         (* how many retries wait for their delay                 *)
  state,          (* Impl::state                                           *)
  wsi,            (* Impl::wsi is not null                                 *)
  context,        (* Impl::context is not null                             *)
  exiting,        (* Impl::exiting                                         *)
  retry_counter,  (* Impl::retry_counter                                   *)
  msg_buf,        (* Impl::msg_buf, the numbers of the frames in it        *)
  serving,        (* EvtLoop is inside lws_service                         *)
  link,           (* lws: the connection of the current context            *)
  starting,       (* ConnectUrl is between its two posts                   *)
  attempt,        (* the connect that DoConnectUrl last made an attempt for*)
  connects,       (* calls of connect so far                               *)
  closes,         (* calls of disconnect so far                            *)
  received,       (* frames received so far                                *)
  delivered,      (* the frames handed to the observer, in order           *)
  view,           (* the state the observer was told of last               *)
  fate            (* what has become of each connect                       *)

implVars == <<state, wsi, context, exiting, retry_counter>>
frameVars == <<msg_buf, received, delivered>>
appVars == <<starting, connects, closes>>
observerVars == <<view, fate>>
vars == <<tasks, timers, implVars, serving, link, attempt, frameVars, appVars, observerVars>>

States == {"Disconnected", "Connecting", "Open"}

(* A URL that ParseUrl accepts, one it refuses, and the value of url_,     *)
(* which nothing assigns: it is empty, and refused.                        *)
Urls == {"good", "bad", "url_"}
ParseUrl(url) == url = "good"

(* The connects are numbered, and a retry is number 0: `of` is the connect *)
(* a task belongs to.                                                      *)
Connects == 1 .. MaxConnects
Tags == 0 .. MaxConnects

DoConnect(url, n) == [op |-> "DoConnect", arg |-> url, of |-> n]
EvtLoop == [op |-> "EvtLoop", arg |-> ""]
StateChange(s, n) == [op |-> "StateChange", arg |-> s, of |-> n]
Message == [op |-> "Message", arg |-> ""]
RetriesSpent == [op |-> "Error", arg |-> "-2"]
Retry == [op |-> "Retry", arg |-> ""]

Tasks ==
  {DoConnect(u, n) : u \in Urls, n \in Tags}
    \cup {StateChange(s, n) : s \in States, n \in Tags}
    \cup {EvtLoop, Message, RetriesSpent, Retry}

(* A connect is asked for until its observer is told that it opened or     *)
(* failed, or a later attempt or a Close takes its connection away while   *)
(* it is being made, or it fails before lws has one and is left to a retry.*)
Fates == {"none", "asked", "told", "overwritten", "closed", "retried"}
Settled(f, n, end) == IF n \in Connects /\ f[n] = "asked" THEN [f EXCEPT ![n] = end] ELSE f

Init ==
  /\ tasks = <<>>
  /\ timers = 0
  /\ state = "Disconnected"
  /\ wsi = FALSE
  /\ context = FALSE
  /\ exiting = FALSE
  /\ retry_counter = 0
  /\ msg_buf = <<>>
  /\ serving = FALSE
  /\ link = "none"
  /\ starting = FALSE
  /\ connects = 0
  /\ closes = 0
  /\ received = 0
  /\ delivered = <<>>
  /\ view = "Disconnected"
  /\ attempt = 0
  /\ fate = [n \in Connects |-> "none"]

-----------------------------------------------------------------------------
(* An application thread calls connect: ConnectUrl posts twice.            *)
ConnectUrl(url) ==
  /\ ~starting
  /\ connects < MaxConnects
  /\ connects' = connects + 1
  /\ tasks' = Append(tasks, DoConnect(url, connects'))
  /\ fate' = [fate EXCEPT ![connects'] = "asked"]
  /\ starting' = TRUE
  /\ UNCHANGED <<timers, implVars, serving, link, attempt, frameVars, closes, view>>

StartEvtLoop ==
  /\ starting
  /\ tasks' = Append(tasks, EvtLoop)
  /\ starting' = FALSE
  /\ UNCHANGED <<timers, implVars, serving, link, attempt, frameVars, connects, closes,
                 observerVars>>

(* The delay of a retry is over.                                           *)
RetryDue ==
  /\ timers > 0
  /\ timers' = timers - 1
  /\ tasks' = Append(tasks, Retry)
  /\ UNCHANGED <<implVars, serving, link, attempt, frameVars, appVars, observerVars>>

-----------------------------------------------------------------------------
(* The net thread takes the next task, of this kind.                       *)
Runs(op) == ~serving /\ tasks # <<>> /\ Head(tasks).op = op

(* Mutant of Notified: the notification overtakes the tasks that wait.     *)
NotifiedFirst(q, s, n) == IF state = s THEN q ELSE <<StateChange(s, n)>> \o q

(* What SetState(s), in attempt n, makes of the queue q: a change is posted*)
Notified(q, s, n) == IF state = s THEN q ELSE Append(q, StateChange(s, n))

(* Mutant of TryReconnect: max_retry_count is not consulted.               *)
TryReconnectForever(q, n, k) ==
  retry_counter' = n + k /\ timers' = timers + k /\ tasks' = q

(* k calls of TryReconnect in one handler, when the counter is at n and    *)
(* the queue at q: a retry each while max_retry_count allows it, then the  *)
(* error -2.                                                               *)
TryReconnect(q, n, k) ==
  LET granted == IF n + k <= MaxRetry THEN k ELSE MaxRetry - n
  IN  /\ retry_counter' = n + granted
      /\ timers' = timers + granted
      /\ tasks' = q \o [i \in 1 .. (k - granted) |-> RetriesSpent]

(* DoConnectUrl, the URL is refused: OnError(-100), from this task.        *)
DoConnectRefused ==
  /\ Runs("DoConnect")
  /\ ~ParseUrl(Head(tasks).arg)
  /\ tasks' = Tail(tasks)
  /\ fate' = Settled(fate, Head(tasks).of, "told")
  /\ UNCHANGED <<timers, implVars, serving, link, attempt, frameVars, appVars, view>>

(* DoConnectUrl up to lws_create_context. A context and a connection the   *)
(* client has are forgotten, neither closed nor destroyed.                 *)
NewAttempt ==
  /\ Runs("DoConnect")
  /\ ParseUrl(Head(tasks).arg)
  /\ exiting' = FALSE
  /\ attempt' = Head(tasks).of
  /\ UNCHANGED <<serving, frameVars, appVars, view>>

Overwritten == IF link = "connecting" THEN Settled(fate, attempt, "overwritten") ELSE fate

(* Mutant of DoConnectNoContext: the state is set only with a context.     *)
DoConnectNoContextStays ==
  /\ NewAttempt
  /\ tasks' = Tail(tasks)
  /\ retry_counter' = 0 /\ context' = FALSE /\ link' = "none"
  /\ fate' = Settled(Overwritten, attempt', "told")
  /\ UNCHANGED <<timers, wsi, state>>

(* Mutant of DoConnectNoContext: it fails without a word.                  *)
DoConnectNoContextSilently ==
  /\ NewAttempt
  /\ state' = "Connecting"
  /\ tasks' = Notified(Tail(tasks), "Connecting", attempt')
  /\ retry_counter' = 0 /\ context' = FALSE /\ link' = "none"
  /\ fate' = Overwritten
  /\ UNCHANGED <<timers, wsi>>

(* No context: OnError(-101), and wsi keeps its value.                     *)
DoConnectNoContext ==
  /\ NewAttempt
  /\ state' = "Connecting"
  /\ tasks' = Notified(Tail(tasks), "Connecting", attempt')
  /\ retry_counter' = 0
  /\ context' = FALSE
  /\ link' = "none"
  /\ fate' = Settled(Overwritten, attempt', "told")
  /\ UNCHANGED <<timers, wsi>>

(* No connection: lws_client_connect_via_info returns null. The observer   *)
(* hears nothing but what TryReconnect makes of it.                        *)
DoConnectFails ==
  /\ NewAttempt
  /\ state' = "Connecting"
  /\ TryReconnect(Notified(Tail(tasks), "Connecting", attempt'), 0, 1)
  /\ context' = TRUE
  /\ wsi' = FALSE
  /\ link' = "none"
  /\ fate' = Settled(Overwritten, attempt', "retried")

(* The same, after lws has reported the error to LwsCallback.              *)
DoConnectFailsInCallback ==
  /\ NewAttempt
  /\ state' = "Disconnected"
  /\ TryReconnect(Append(Notified(Tail(tasks), "Connecting", attempt'),
                         StateChange("Disconnected", attempt')), 0, 2)
  /\ context' = TRUE
  /\ wsi' = FALSE
  /\ link' = "none"
  /\ fate' = Overwritten

DoConnectStarts ==
  /\ NewAttempt
  /\ state' = "Connecting"
  /\ tasks' = Notified(Tail(tasks), "Connecting", attempt')
  /\ retry_counter' = 0
  /\ context' = TRUE
  /\ wsi' = TRUE
  /\ link' = "connecting"
  /\ fate' = Overwritten
  /\ UNCHANGED timers

(* disconnect, on net_thread_: the observer calls it at the end of a       *)
(* callback, or the application in a task of its own. lws_context_destroy  *)
(* reports a connection that is being made to LwsCallback, which does what *)
(* Close does next, and no retry since exiting is set.                     *)
disconnect ==
  /\ ~serving
  /\ closes < MaxCloses
  /\ closes' = closes + 1
  /\ exiting' = TRUE
  /\ wsi' = FALSE
  /\ context' = FALSE
  /\ link' = "none"
  /\ state' = "Disconnected"
  /\ tasks' = Notified(tasks, "Disconnected", attempt)
  /\ fate' = IF link = "connecting" THEN Settled(fate, attempt, "closed") ELSE fate
  /\ UNCHANGED <<timers, retry_counter, serving, attempt, frameVars, starting, connects, view>>

(* OnStateChange: the observer hears onConnected or onDisconnected.        *)
RunStateChange ==
  /\ Runs("StateChange")
  /\ tasks' = Tail(tasks)
  /\ view' = Head(tasks).arg
  /\ fate' = IF view' = "Connecting" THEN fate ELSE Settled(fate, Head(tasks).of, "told")
  /\ UNCHANGED <<timers, implVars, serving, link, attempt, frameVars, appVars>>

(* Mutant of RunMessage: the buffer is not cleared.                        *)
RunMessageKeepsBuffer ==
  /\ Runs("Message")
  /\ tasks' = Tail(tasks)
  /\ delivered' = delivered \o msg_buf
  /\ UNCHANGED <<timers, implVars, serving, link, attempt, msg_buf, received, appVars, observerVars>>

(* OnTextMessage or OnBinaryMessage: the observer gets the whole buffer.   *)
RunMessage ==
  /\ Runs("Message")
  /\ tasks' = Tail(tasks)
  /\ delivered' = delivered \o msg_buf
  /\ msg_buf' = <<>>
  /\ UNCHANGED <<timers, implVars, serving, link, attempt, received, appVars, observerVars>>

(* OnError(-2).                                                            *)
RunError ==
  /\ Runs("Error")
  /\ tasks' = Tail(tasks)
  /\ UNCHANGED <<timers, implVars, serving, link, attempt, frameVars, appVars, observerVars>>

(* The retry: ConnectUrl(url_, token_).                                    *)
RunRetry ==
  /\ Runs("Retry")
  /\ tasks' = Tail(tasks) \o <<DoConnect("url_", 0), EvtLoop>>
  /\ UNCHANGED <<timers, implVars, serving, link, attempt, frameVars, appVars, observerVars>>

-----------------------------------------------------------------------------
(* Mutant of EvtLoopBegin: it posts itself again although it is exiting.   *)
EvtLoopForever ==
  /\ Runs("EvtLoop")
  /\ tasks' = Append(Tail(tasks), EvtLoop)
  /\ UNCHANGED <<timers, implVars, serving, link, attempt, frameVars, appVars, observerVars>>

(* EvtLoop ends after Close; lws_service does nothing without a context.   *)
EvtLoopBegin ==
  /\ Runs("EvtLoop")
  /\ \/ exiting /\ tasks' = Tail(tasks) /\ UNCHANGED serving
     \/ ~exiting /\ context /\ tasks' = Tail(tasks) /\ serving' = TRUE
     \/ ~exiting /\ ~context /\ tasks' = Append(Tail(tasks), EvtLoop)
        /\ UNCHANGED serving
  /\ UNCHANGED <<timers, implVars, link, attempt, frameVars, appVars, observerVars>>

(* Mutant of EvtLoopEnd: it does not post itself again.                    *)
EvtLoopOnce ==
  /\ serving
  /\ serving' = FALSE
  /\ UNCHANGED <<tasks, timers, implVars, link, attempt, frameVars, appVars, observerVars>>

(* lws_service returns and EvtLoop posts itself again.                     *)
EvtLoopEnd ==
  /\ serving
  /\ serving' = FALSE
  /\ tasks' = Append(tasks, EvtLoop)
  /\ UNCHANGED <<timers, implVars, link, attempt, frameVars, appVars, observerVars>>

(* LWS_CALLBACK_CLIENT_ESTABLISHED.                                        *)
Established ==
  /\ serving
  /\ link = "connecting"
  /\ link' = "up"
  /\ state' = "Open"
  /\ tasks' = Notified(tasks, "Open", attempt)
  /\ UNCHANGED <<timers, wsi, context, exiting, retry_counter, serving, attempt, frameVars,
                 appVars, observerVars>>

(* LWS_CALLBACK_CLIENT_RECEIVE, of a frame that ends its message or not:   *)
(* the task that hands the buffer over is posted with the last one.        *)
Receive(fin) ==
  /\ serving
  /\ link = "up"
  /\ received < MaxFrames
  /\ received' = received + 1
  /\ msg_buf' = Append(msg_buf, received')
  /\ tasks' = IF fin THEN Append(tasks, Message) ELSE tasks
  /\ UNCHANGED <<timers, implVars, serving, link, attempt, delivered, appVars, observerVars>>

(* Mutant of ConnectionError: what was received is flushed to the observer.*)
ConnectionErrorFlushes ==
  /\ serving
  /\ link = "connecting"
  /\ link' = "none" /\ wsi' = FALSE
  /\ state' = "Disconnected"
  /\ TryReconnect(Append(Notified(tasks, "Disconnected", attempt), Message), retry_counter, 1)
  /\ UNCHANGED <<context, exiting, serving, attempt, frameVars, appVars, observerVars>>

(* LWS_CALLBACK_CLIENT_CONNECTION_ERROR.                                   *)
ConnectionError ==
  /\ serving
  /\ link = "connecting"
  /\ link' = "none"
  /\ wsi' = FALSE
  /\ state' = "Disconnected"
  /\ IF exiting
     THEN /\ tasks' = Notified(tasks, "Disconnected", attempt)
          /\ UNCHANGED <<timers, retry_counter>>
     ELSE TryReconnect(Notified(tasks, "Disconnected", attempt), retry_counter, 1)
  /\ UNCHANGED <<context, exiting, serving, attempt, frameVars, appVars, observerVars>>

(* The server closes the connection or the network loses it:               *)
(* LWS_CALLBACK_CLIENT_CLOSED, the default case. lws frees its lws*, and   *)
(* the client keeps wsi and its state.                                     *)
LinkDies ==
  /\ serving
  /\ link = "up"
  /\ link' = "dead"
  /\ UNCHANGED <<tasks, timers, implVars, serving, attempt, frameVars, appVars, observerVars>>

-----------------------------------------------------------------------------
AppNext ==
  (\E url \in {"good", "bad"} : ConnectUrl(url)) \/ StartEvtLoop

TaskNext ==
  \/ DoConnectRefused \/ DoConnectNoContext \/ DoConnectFails
  \/ DoConnectFailsInCallback \/ DoConnectStarts
  \/ RunStateChange \/ RunMessage \/ RunError \/ RunRetry
  \/ EvtLoopBegin

LwsNext ==
  Established \/ (\E fin \in BOOLEAN : Receive(fin)) \/ ConnectionError \/ LinkDies

Next == AppNext \/ disconnect \/ RetryDue \/ TaskNext \/ EvtLoopEnd \/ LwsNext

Spec == Init /\ [][Next]_vars

(* The net thread runs its tasks and lws_service returns; a delay passes;  *)
(* ConnectUrl, begun, is finished; and lws, if it is served again and      *)
(* again, settles a connection attempt (it has a timeout of its own).      *)
Fairness ==
  /\ WF_vars(TaskNext) /\ WF_vars(EvtLoopEnd)
  /\ WF_vars(RetryDue) /\ WF_vars(StartEvtLoop)
  /\ SF_vars(Established \/ ConnectionError)

FairSpec == Spec /\ Fairness

-----------------------------------------------------------------------------
TypeOK ==
  /\ tasks \in Seq(Tasks)
  /\ timers \in Nat
  /\ state \in States
  /\ wsi \in BOOLEAN /\ context \in BOOLEAN /\ exiting \in BOOLEAN
  /\ retry_counter \in 0 .. MaxRetry
  /\ msg_buf \in Seq(Nat)
  /\ serving \in BOOLEAN
  /\ link \in {"none", "connecting", "up", "dead"}
  /\ attempt \in Tags
  /\ starting \in BOOLEAN
  /\ connects \in Tags /\ closes \in Nat /\ received \in Nat
  /\ delivered \in Seq(Nat)
  /\ view \in States
  /\ fate \in [Connects -> Fates]

isConnected == state = "Open"
SendText == isConnected /\ wsi      \* lws_write is called; SendBinary is the same

(* What SendText and SendBinary take for an open connection is one of the  *)
(* context the client has, whatever attempts, errors and closes came       *)
(* before: not of one that an attempt has overwritten, nor of none.        *)
OpenHasSocket == isConnected => SendText /\ context /\ link \in {"up", "dead"}

(* A client with a context that was not closed is served: an EvtLoop runs, *)
(* waits for its turn or is about to be posted. A Close that comes between *)
(* two calls of connect does not leave the second without a loop.          *)
HasLoop(q) == \E i \in DOMAIN q : q[i] = EvtLoop

LoopAlive == context /\ ~exiting => serving \/ starting \/ HasLoop(tasks)

(* The last notification the observer got, or will get, is the state: no   *)
(* change is missed or overtaken by an older one.                          *)
NoChangeAfter(i, q) == \A j \in DOMAIN q : j > i => q[j].op # "StateChange"

EndsIn(s, v, q) ==
  \/ v = s /\ NoChangeAfter(0, q)
  \/ \E i \in DOMAIN q : q[i].op = "StateChange" /\ q[i].arg = s /\ NoChangeAfter(i, q)

ObserverCatchesUp == EndsIn(state, view, tasks)

(* Every frame reaches the observer once and in order, whatever tasks run  *)
(* between its arrival and the task that hands it over.                    *)
FramesInOrder ==
  delivered \o msg_buf = [i \in 1 .. received |-> i]

(* A closed client comes to rest: no EvtLoop is left behind.               *)
CloseStopsLoop ==
  exiting ~> (~exiting \/ \A i \in DOMAIN tasks : tasks[i] # EvtLoop)

(* The observer hears of each connect, that it opened or that it failed,   *)
(* unless its connection was taken away while it was being made or it was  *)
(* left to a retry: an outcome of another connect does not count.          *)
AttemptAnswered == \A n \in Connects : fate[n] = "asked" ~> fate[n] # "asked"

(* TryReconnect logs that it schedules a reconnect: when the delay is over *)
(* the client tries again, unless it was closed.                           *)
RetryConnects ==
  timers > 0 /\ ~exiting ~> state \in {"Connecting", "Open"} \/ exiting
=============================================================================
