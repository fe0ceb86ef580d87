--------------------------- MODULE MCWebSocketClient ---------------------------
(***************************************************************************)
(* WebSocketClient for TLC. Two calls of connect give a connection that is *)
(* replaced while it opens, is open or is lost; a close falls between      *)
(* them; two frames are a message in two fragments or two messages.        *)
(***************************************************************************)
EXTENDS WebSocketClient

(* The events of SignalSocket are the tasks that call the observer.        *)
Calls(task) == task.op \in {"StateChange", "Message", "Error"}

Event(task) ==
  CASE task.op = "StateChange" -> [change |-> task.arg]
    [] task.op = "Message" -> [data |-> task.arg]
    [] OTHER -> [error |-> TRUE]

(* Those of a queue, in its order                                          *)
EventsOf(queue) ==
  LET upTo[n \in 0 .. Len(queue)] ==
        IF n = 0 THEN <<>>
        ELSE IF Calls(queue[n]) THEN Append(upTo[n - 1], Event(queue[n])) ELSE upTo[n - 1]
  IN  upTo[Len(queue)]

Socket == INSTANCE SignalSocket WITH
  Data <- {""}, asked <- connects > 0, events <- EventsOf(tasks)

(* A WebSocketClient is an ISignalSocket as the code above it takes it:    *)
(* whatever net_thread_ runs in between, its observer is told every change *)
(* of state, in order, and data is posted only while it is open.           *)
ImplementsSignalSocket == Socket!SocketSpec
=============================================================================
