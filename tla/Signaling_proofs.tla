---------------------------- MODULE Signaling_proofs ----------------------------
(***************************************************************************)
(* Every open connection is identified or could not be sent to, whatever   *)
(* the socket does and the server sends: for any number of connections and *)
(* of waiting events.                                                      *)
(***************************************************************************)
EXTENDS Signaling, FiniteSetTheorems, TLAPS

Events ==
  {Socket!StateChange(s) : s \in Socket!States} \cup {Socket!Error}
    \cup {Socket!Message(d) : d \in Data}

Queued == events \in Seq(Events)
IInv == Queued /\ connection \in Nat /\ Identified

(* What a delivery takes from the queue                                    *)
LEMMA Delivered ==
  ASSUME Queued, Socket!Deliver
  PROVE  /\ Queued'
         /\ \A i \in DOMAIN events : events[i] # Head(events) => \E j \in DOMAIN events' : events'[j] = events[i]
<1>1. events # <<>> /\ events' = Tail(events)
  BY DEF Socket!Deliver
<1>2. Queued'
  BY <1>1 DEF Queued, Events
<1>3. ASSUME NEW i \in DOMAIN events, events[i] # Head(events)
      PROVE  \E j \in DOMAIN events' : events'[j] = events[i]
  <2>1. i \in 2 .. Len(events)
    BY <1>1, <1>3 DEF Queued
  <2>2. i - 1 \in DOMAIN Tail(events) /\ Tail(events)[i - 1] = events[i]
    BY <1>1, <2>1 DEF Queued
  <2> QED BY <1>1, <2>2
<1> QED BY <1>2, <1>3

(* onConnected sends IdentifySelf on the connection that is open now       *)
LEMMA ObserveStep == ASSUME IInv, Observe PROVE IInv'
<1>1. Queued /\ Socket!Deliver /\ connection' = connection /\ state' = state
  BY DEF IInv, Observe, Socket!Deliver
<1>2. Queued' /\ \A i \in DOMAIN events : events[i] # Head(events) => \E j \in DOMAIN events' : events'[j] = events[i]
  BY <1>1, Delivered
<1>3. CASE Head(events) = Socket!StateChange("Open")
  <2>1. IdentifySelf
    BY <1>3 DEF Observe, onConnected, onOther, onDataReceived, Socket!StateChange
  <2> QED BY <1>1, <1>2, <2>1 DEF IInv, Identified, IdentifySelf, SendMessage
<1>4. CASE Head(events) # Socket!StateChange("Open")
  <2>1. UNCHANGED <<identified, unsent>>
    BY <1>4 DEF Observe, onConnected, onOther, onDataReceived, signalVars
  <2>2. Socket!StateChange("Open")' = Socket!StateChange("Open")
    BY DEF Socket!StateChange
  <2> QED BY <1>1, <1>2, <1>4, <2>1, <2>2 DEF IInv, Identified
<1> QED BY <1>3, <1>4

LEMMA OpensNat == ASSUME NEW path \in Seq(Socket!States) PROVE Opens(path) \in Nat
<1>1. {i \in DOMAIN path : path[i] = "Open"} \subseteq 1 .. Len(path)
  OBVIOUS
<1>2. IsFiniteSet(1 .. Len(path))
  BY FS_Interval
<1>3. IsFiniteSet({i \in DOMAIN path : path[i] = "Open"})
  BY <1>1, <1>2, FS_Subset
<1> QED BY <1>3, FS_CardinalityType DEF Opens

(* A path that ends open brings its notification; one that has no step     *)
(* leaves the connection                                                   *)
LEMMA ChangeStep == ASSUME IInv, SocketChanges PROVE IInv'
<1>1. PICK path \in Socket!Paths, errors \in Socket!Errors :
        /\ Socket!Change(path, errors)
        /\ connection' = connection + Opens(path)
        /\ UNCHANGED <<identified, unsent>>
  BY DEF SocketChanges, signalVars
<1> DEFINE changes == [i \in DOMAIN path |-> Socket!StateChange(path[i])]
<1>2. path \in Seq(Socket!States)
  <2>1. <<>> \in Seq(Socket!States)
    OBVIOUS
  <2>2. \A s \in Socket!States : <<s>> \in Seq(Socket!States)
    OBVIOUS
  <2>3. \A s, t \in Socket!States : <<s, t>> \in Seq(Socket!States)
    OBVIOUS
  <2>4. \/ path = <<>>
        \/ \E s \in Socket!States : path = <<s>>
        \/ \E s, t \in Socket!States : path = <<s, t>>
    <3>1. \/ path = <<>>
          \/ path \in {<<s>> : s \in Socket!States}
          \/ path \in {<<s, t>> : s, t \in Socket!States}
      BY DEF Socket!Paths
    <3> QED BY <3>1
  <2> QED BY <2>1, <2>2, <2>3, <2>4
<1>3. changes \in Seq(Events) /\ Len(changes) = Len(path)
  BY <1>2 DEF Events
<1>4. errors \in Seq(Events)
  <2>1. Socket!Error \in Events
    BY DEF Events
  <2>2. <<>> \in Seq(Events) /\ <<Socket!Error>> \in Seq(Events) /\ <<Socket!Error, Socket!Error>> \in Seq(Events)
    BY <2>1
  <2> QED BY <2>2 DEF Socket!Errors
<1>5. events' = events \o changes \o errors
  BY <1>1 DEF Socket!Change
<1> HIDE DEF changes
<1>6. Queued'
  BY <1>3, <1>4, <1>5 DEF IInv, Queued, Events
<1>7. \A i \in DOMAIN events : i \in DOMAIN events' /\ events'[i] = events[i]
  BY <1>3, <1>4, <1>5 DEF IInv, Queued
<1>8. \A k \in DOMAIN path : Len(events) + k \in DOMAIN events' /\ events'[Len(events) + k] = Socket!StateChange(path[k])
  <2>1. SUFFICES ASSUME NEW k \in DOMAIN path
                 PROVE  /\ Len(events) + k \in DOMAIN events'
                        /\ events'[Len(events) + k] = Socket!StateChange(path[k])
    OBVIOUS
  <2>2. changes[k] = Socket!StateChange(path[k])
    BY DEF changes
  <2>3. k \in 1 .. Len(changes)
    BY <1>2, <1>3
  <2> QED BY <1>3, <1>4, <1>5, <2>2, <2>3 DEF IInv, Queued
<1>9. Identified'
  <2>1. SUFFICES ASSUME state' = "Open", \A i \in DOMAIN events' : events'[i] # Socket!StateChange("Open")
                 PROVE  connection \in identified \cup unsent /\ connection' = connection
    BY <1>1 DEF Identified, Socket!StateChange
  <2>2. path = <<>> \/ (Len(path) \in DOMAIN path /\ path[Len(path)] = "Open")
    <3> DEFINE all == <<state>> \o path
    <3>1. all[Len(all)] = "Open"
      BY <1>1, <2>1 DEF Socket!Change, Socket!Follows
    <3>2. CASE path # <<>>
      <4>1. Len(path) \in 1 .. Len(path) /\ DOMAIN path = 1 .. Len(path)
        BY <1>2, <3>2
      <4>2. Len(all) = Len(path) + 1 /\ all[Len(path) + 1] = path[Len(path)]
        BY <1>2, <4>1
      <4> HIDE DEF all
      <4> QED BY <3>1, <4>1, <4>2
    <3> QED BY <3>2
  <2>3. path = <<>>
    BY <1>8, <2>1, <2>2
  <2>4. state = "Open"
    BY <1>1, <2>1, <2>3 DEF Socket!Change, Socket!Follows
  <2>5. Opens(path) = 0
    <3>1. {i \in DOMAIN path : path[i] = "Open"} = {}
      BY <2>3
    <3> QED BY <3>1, FS_EmptySet DEF Opens
  <2> QED BY <1>1, <1>7, <2>1, <2>4, <2>5 DEF IInv, Identified
<1>10. connection' \in Nat
  BY <1>1, <1>2, OpensNat DEF IInv
<1> QED BY <1>6, <1>9, <1>10 DEF IInv

(* An event that is added is no obstacle                                   *)
LEMMA Added ==
  ASSUME Queued, NEW e \in Events, events' = Append(events, e)
  PROVE  Queued' /\ \A i \in DOMAIN events : i \in DOMAIN events' /\ events'[i] = events[i]
  BY DEF Queued, Events

LEMMA ServerStep == ASSUME IInv, ServerSends PROVE IInv'
<1>1. PICK d \in Data : Socket!Arrive(d)
  BY DEF ServerSends
<1>2. UNCHANGED <<state, connection, identified, unsent>> /\ events' = Append(events, Socket!Message(d))
  BY <1>1 DEF ServerSends, Socket!Arrive, signalVars
<1>3. Socket!Message(d) \in Events
  BY DEF Events
<1>4. Queued' /\ \A i \in DOMAIN events : i \in DOMAIN events' /\ events'[i] = events[i]
  BY <1>2, <1>3, Added DEF IInv
<1> QED BY <1>2, <1>4 DEF IInv, Identified, Socket!StateChange

LEMMA ConnectStep ==
  ASSUME IInv, UNCHANGED <<state, events, connection, identified, unsent>>
  PROVE  IInv'
  BY DEF IInv, Queued, Identified, Socket!StateChange, Events

LEMMA DisconnectStep == ASSUME IInv, ControlDisconnect PROVE IInv'
<1>1. state' = "Disconnected" /\ UNCHANGED <<connection, identified, unsent>>
  BY DEF ControlDisconnect, signalVars
<1>2. Identified'
  BY <1>1 DEF Identified
<1>3. Socket!StateChange("Disconnected") \in Events
  BY DEF Events, Socket!States
<1>4. Queued'
  <2>1. CASE events' = events
    BY <2>1 DEF IInv, Queued, Events
  <2>2. CASE events' = Append(events, Socket!StateChange("Disconnected"))
    BY <1>3, <2>2, Added DEF IInv
  <2> QED BY <1>1, <2>1, <2>2 DEF ControlDisconnect
<1> QED BY <1>1, <1>2, <1>4 DEF IInv

LEMMA NextInv == IInv /\ [Next]_vars => IInv'
<1> SUFFICES ASSUME IInv, [Next]_vars PROVE IInv'
  OBVIOUS
<1>1. CASE Observe \/ SocketChanges \/ ServerSends \/ ControlDisconnect
  BY <1>1, ObserveStep, ChangeStep, ServerStep, DisconnectStep
<1>2. ASSUME NEW token, ClientLogin(token) PROVE IInv'
  BY <1>2, ConnectStep DEF ClientLogin, SocketConnect, Socket!connect, signalVars
<1>3. ASSUME NEW null, NEW parsed, NEW token, ControlConnect(null, parsed, token) PROVE IInv'
  BY <1>3, ConnectStep DEF ControlConnect, SocketConnect, Socket!connect, signalVars
<1>4. CASE UNCHANGED vars
  BY <1>4, ConnectStep DEF vars, signalVars
<1> QED BY <1>1, <1>2, <1>3, <1>4 DEF Next

(* Every connection is identified unless the socket failed to send on it,  *)
(* however often the socket opens, and with any number of old              *)
(* notifications before that of the open one.                              *)
THEOREM IdentifiedHolds == Spec => []Identified
<1>1. Init => IInv
  <2>1. <<>> \in Seq(Events)
    OBVIOUS
  <2>2. Init => connection = 0
    BY DEF Init
  <2>3. Init => events = <<>> /\ state # "Open"
    BY DEF Init, Socket!SocketInit
  <2> QED BY <2>1, <2>2, <2>3 DEF IInv, Queued, Identified
<1>2. IInv => Identified
  BY DEF IInv
<1> QED BY <1>1, <1>2, NextInv, PTL DEF Spec
=============================================================================
