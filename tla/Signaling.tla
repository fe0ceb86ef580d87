------------------------------- MODULE Signaling -------------------------------
(***************************************************************************)
(* ShareRTCBase with its two heirs, ShareRTCClient and ShareRTCControl,    *)
(* and their ShareRTCSignalConnection, above an ISignalSocket              *)
(* (peerconnection/src/sharertc_{base,client,control,signal_connection}).  *)
(* The socket is SignalSocket, its observer is the object modelled here.   *)
(***************************************************************************)
EXTENDS Naturals, Sequences, FiniteSets, SignalMessage

CONSTANTS
  MaxOpens,      \* bound: how often the socket opens
  MaxEvents      \* bound: how many events wait for their delivery

ASSUME BoundsAssumption == MaxOpens \in Nat /\ MaxEvents \in Nat

VARIABLES
  state, asked, events, view,      \* the socket, see SignalSocket
  class,         \* which heir this object is
  inited,        \* ShareRTCControl::inited_
  ret,           \* what Connect returned last
  id,            \* ShareRTCSignalConnection::id_
  connection,    \* how often the socket has opened
  identified,    \* the connections IdentifySelf was sent on
  unsent,        \* those on which the socket failed to send it
  process        \* running, or terminated by an exception nobody catches

facadeVars == <<class, inited, ret>>
signalVars == <<id, identified, unsent>>
vars == <<state, asked, events, view, facadeVars, signalVars, connection, process>>

(* What the server sends: identities, a message no handler takes, one that *)
(* is refused, and one like IdentifySelf's, whose content is a string      *)
FromServer(kind, content) ==
  messageToJson([kind |-> kind, reach |-> "Self", sender |-> "", peerID |-> "", content |-> content])
Identity(name) == FromServer("IdentifySelf", marshalContent("IdentifySelf", [id |-> name]))
Data == {Identity(""), Identity("1"), Identity("2"), Garbage,
         FromServer("Offer", Object([sdp |-> Str("sdp")])), messageToJson(IdentifySelfMessage)}

Socket == INSTANCE SignalSocket

Init ==
  /\ Socket!SocketInit
  /\ class \in {"client", "control"}
  /\ inited = FALSE /\ ret = "none"
  /\ id = "" /\ connection = 0 /\ identified = {} /\ unsent = {}
  /\ process = "running"

-----------------------------------------------------------------------------
(* ShareRTCBase as the observer of its socket                              *)
(* Its code is -1 without a connection, -2 when an open socket fails to    *)
(* send, as one whose peer is gone does; the socket keeps its state then.  *)
SendMessage(code) ==
  /\ IF state = "Open" THEN code \in {"0", "-2"} ELSE code = "-1"
  /\ identified' = IF code = "0" THEN identified \cup {connection} ELSE identified
  /\ unsent' = IF code = "-2" THEN unsent \cup {connection} ELSE unsent

(* Mutants: once in the life of the object; not when an id is known        *)
IdentifySelfOnce ==
  IF identified \cup unsent = {} THEN \E code \in {"0", "-1", "-2"} : SendMessage(code)
  ELSE UNCHANGED <<identified, unsent>>

IdentifySelfUnlessKnown ==
  IF id = "" THEN \E code \in {"0", "-1", "-2"} : SendMessage(code)
  ELSE UNCHANGED <<identified, unsent>>

(* The code SendMessage returns is not looked at                           *)
IdentifySelf == \E code \in {"0", "-1", "-2"} : SendMessage(code)

onConnected ==
  /\ Head(events) = Socket!StateChange("Open")
  /\ IdentifySelf
  /\ UNCHANGED <<id, process>>

onDataReceived ==
  /\ "data" \in DOMAIN Head(events)
  /\ LET root == Head(events).data
         r == HandledByBase(root)
     IN  /\ id' = IF Result(r) = "true" /\ r.value.kind = "IdentifySelf" THEN r.value.content.id ELSE id
         /\ process' = IF r.outcome = "thrown" THEN "terminated" ELSE process
  /\ UNCHANGED <<identified, unsent>>

onOther ==        \* onDisconnected and onError are empty
  /\ Head(events) # Socket!StateChange("Open") /\ "data" \notin DOMAIN Head(events)
  /\ UNCHANGED <<signalVars, process>>

Observe ==
  /\ process = "running"
  /\ Socket!Deliver
  /\ onConnected \/ onDataReceived \/ onOther
  /\ UNCHANGED <<facadeVars, connection>>

(* The connection and its server                                           *)
Opens(path) == Cardinality({i \in DOMAIN path : path[i] = "Open"})
SocketChanges ==
  \E path \in Socket!Paths, errors \in Socket!Errors :
    /\ process = "running"
    /\ Len(events) + Len(path) + Len(errors) <= MaxEvents
    /\ connection + Opens(path) <= MaxOpens
    /\ Socket!Change(path, errors)
    /\ connection' = connection + Opens(path)
    /\ UNCHANGED <<facadeVars, signalVars, process>>

ServerSends ==
  /\ process = "running" /\ Len(events) < MaxEvents
  /\ \A i \in DOMAIN events : "data" \notin DOMAIN events[i]
  /\ \E d \in Data : Socket!Arrive(d)
  /\ UNCHANGED <<facadeVars, signalVars, connection, process>>

-----------------------------------------------------------------------------
(* The application                                                         *)
SocketConnect(token) ==
  IF token = "" THEN UNCHANGED <<state, asked, events, view>> ELSE Socket!connect

ClientLogin(token) ==
  /\ class = "client" /\ process = "running"
  /\ SocketConnect(token)
  /\ UNCHANGED <<facadeVars, signalVars, connection, process>>

(* ShareRTCControl::Connect; parsed: ShareRTCUrl::parse accepts the url.   *)
(* A socket that is open is used as it is; what Login makes of its token   *)
(* is not looked at.                                                       *)
ControlConnect(null, parsed, token) ==
  /\ class = "control" /\ process = "running"
  /\ ret' = IF inited THEN "-3" ELSE IF null THEN "-1" ELSE IF ~parsed THEN "-2" ELSE "0"
  /\ inited' = (inited \/ ret' = "0")
  /\ IF ret' = "0" /\ state # "Open" THEN SocketConnect(token)
     ELSE UNCHANGED <<state, asked, events, view>>
  /\ UNCHANGED <<class, signalVars, connection, process>>

(* Disconnect: Logout: the socket closes; inited_ stays                    *)
ControlDisconnect ==
  /\ class = "control" /\ process = "running" /\ Len(events) < MaxEvents
  /\ state' = "Disconnected"
  /\ events' = IF state = state' THEN events ELSE Append(events, Socket!StateChange(state'))
  /\ UNCHANGED <<asked, view, facadeVars, signalVars, connection, process>>

Next ==
  \/ Observe \/ SocketChanges \/ ServerSends
  \/ \E token \in {"", "token"} :
       \/ ClientLogin(token)
       \/ \E null, parsed \in BOOLEAN : ControlConnect(null, parsed, token)
  \/ ControlDisconnect

Spec == Init /\ [][Next]_vars
FairSpec == Spec /\ WF_vars(Observe)

-----------------------------------------------------------------------------
TypeOK ==
  /\ state \in Socket!States /\ asked \in BOOLEAN /\ view \in Socket!States
  /\ events \in Seq({Socket!StateChange(s) : s \in Socket!States} \cup {Socket!Error}
                      \cup {Socket!Message(d) : d \in Data})
  /\ class \in {"client", "control"} /\ inited \in BOOLEAN
  /\ ret \in {"none", "0", "-1", "-2", "-3"}
  /\ id \in {"", "1", "2"}
  /\ connection \in 0 .. MaxOpens /\ identified \cup unsent \subseteq 1 .. MaxOpens
  /\ process \in {"running", "terminated"}

(* A connection that is open has been identified once its notification is  *)
(* delivered, unless the socket failed to send: those of older connections,*)
(* which may come while it is already open, do not stand in the way. What  *)
(* could not be sent is not sent again.                                    *)
Identified ==
  state = "Open" /\ (\A i \in DOMAIN events : events[i] # Socket!StateChange("Open"))
    => connection \in identified \cup unsent

(* Every connection that opens is identified, unless the socket fails to   *)
(* send, the connection is lost first or the process ends.                 *)
OpenIdentified ==
  \A n \in 1 .. MaxOpens :
    (state = "Open" /\ connection = n)
      ~> \/ n \in identified \cup unsent
         \/ state # "Open" \/ connection # n \/ process = "terminated"
=============================================================================
