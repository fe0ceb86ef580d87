------------------------ MODULE WebSocketClientThreads ------------------------
(***************************************************************************)
(* WebSocketClient with callers that are not on net_thread_: disconnect    *)
(* (Logout of sharertc_base.cc) and ~WebSocketClient call Close at once on *)
(* their own thread. In client/src/main.cc the main thread destroys        *)
(* wssock2 while net_thread2 goes on running its tasks: only net_thread    *)
(* has been stopped. Close is in pieces, with the net thread in between,   *)
(* as in a build without assertions.                                       *)
(***************************************************************************)
EXTENDS WebSocketClient

VARIABLE closer      (* where the caller is in Close                       *)

threadVars == <<vars, closer>>

(* What the caller does in Close, from one place to the next               *)
At(from, to) ==
  /\ closer = from /\ closer' = to
  /\ UNCHANGED <<timers, retry_counter, serving, attempt, frameVars, starting, connects,
                 observerVars>>

(* disconnect or ~WebSocketClient, at any moment of a task.                *)
CloseBegin ==
  /\ At("none", "wsi")
  /\ ~starting
  /\ closes < MaxCloses
  /\ closes' = closes + 1
  /\ exiting' = TRUE
  /\ UNCHANGED <<tasks, state, wsi, context, link>>

CloseWsi ==
  /\ At("wsi", "context")
  /\ wsi' = FALSE
  /\ UNCHANGED <<tasks, state, context, exiting, link, closes>>

(* A connection that is being made is reported to LwsCallback.             *)
CloseContext ==
  /\ At("context", "state")
  /\ context' = FALSE
  /\ link' = "none"
  /\ IF link = "connecting"
     THEN /\ wsi' = FALSE /\ state' = "Disconnected"
          /\ tasks' = Notified(tasks, "Disconnected", attempt)
     ELSE UNCHANGED <<tasks, state, wsi>>
  /\ UNCHANGED <<exiting, closes>>

CloseState ==
  /\ At("state", "none")
  /\ state' = "Disconnected"
  /\ tasks' = Notified(tasks, "Disconnected", attempt)
  /\ UNCHANGED <<wsi, context, exiting, link, closes>>

ThreadsInit == Init /\ closer = "none"

(* The caller makes one call at a time; net_thread_ runs its tasks.        *)
ThreadsNext ==
  \/ AppNext /\ closer = "none" /\ UNCHANGED closer
  \/ (RetryDue \/ TaskNext \/ EvtLoopEnd \/ LwsNext) /\ UNCHANGED closer
  \/ CloseBegin \/ CloseWsi \/ CloseContext \/ CloseState

ThreadsSpec == ThreadsInit /\ [][ThreadsNext]_threadVars

(* lws_service never runs on a context that is gone: Close asserts that it *)
(* is called on net_thread_, where lws_service cannot be under way.        *)
ServiceHasContext == serving => context
=============================================================================
