----------------------------- MODULE SignalSocket ------------------------------
(***************************************************************************)
(* What an ISignalSocket promises its observer (include/sharertc/          *)
(* sharertc.h), as the code above it relies on it: it opens only after a   *)
(* connect, its changes of state are posted, each one, in order, and data  *)
(* is posted only while it is open. WebSocketClient implements it.         *)
(***************************************************************************)
EXTENDS Naturals, Sequences

CONSTANT Data        \* what the server may send

VARIABLES
  state,             \* of the connection: isConnected() is state = "Open"
  asked,             \* connect was called
  events,            \* posted and not yet delivered to the observer
  view               \* the last state the observer was told of

socketVars == <<state, asked, events, view>>

States == {"Disconnected", "Connecting", "Open"}
StateChange(s) == [change |-> s]
Message(d) == [data |-> d]
Error == [error |-> TRUE]
IsChange(e) == "change" \in DOMAIN e

SocketInit ==
  /\ state = "Disconnected" /\ asked = FALSE
  /\ events = <<>> /\ view = "Disconnected"

(* A path of states from s to t in which every step is a change            *)
Follows(s, path, t) ==
  LET all == <<s>> \o path
  IN  all[Len(all)] = t /\ \A i \in 1 .. Len(path) : all[i] # all[i + 1]

(* One handler makes at most two changes and reports at most two errors    *)
Paths == {<<>>} \cup {<<s>> : s \in States} \cup {<<s, t>> : s, t \in States}
Errors == {<<>>, <<Error>>, <<Error, Error>>}

connect == asked' = TRUE /\ UNCHANGED <<state, events, view>>

Change(path, errors) ==
  /\ asked
  /\ \E t \in States : Follows(state, path, t) /\ state' = t
  /\ events' = events \o [i \in DOMAIN path |-> StateChange(path[i])] \o errors
  /\ UNCHANGED <<asked, view>>

Arrive(d) ==
  /\ state = "Open"
  /\ events' = Append(events, Message(d))
  /\ UNCHANGED <<state, asked, view>>

Deliver ==
  /\ events # <<>>
  /\ events' = Tail(events)
  /\ view' = IF IsChange(Head(events)) THEN Head(events).change ELSE view
  /\ UNCHANGED <<state, asked>>

SocketNext ==
  \/ connect
  \/ \E path \in Paths, errors \in Errors : Change(path, errors)
  \/ \E d \in Data : Arrive(d)
  \/ Deliver

SocketSpec == SocketInit /\ [][SocketNext]_socketVars
=============================================================================
