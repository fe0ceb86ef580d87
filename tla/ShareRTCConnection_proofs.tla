----------------------- MODULE ShareRTCConnection_proofs -----------------------
(***************************************************************************)
(* The safety of ShareRTCConnection for any set of peers and any number of *)
(* sign-ins and retries.                                                   *)
(***************************************************************************)
EXTENDS ShareRTCConnection, TLAPS

(* The two sockets are made together.                                      *)
Pair == control = "null" <=> hanging = "null"

(* A name is resolved while nothing else goes on; SignOut, which does not  *)
(* stop the resolver, is the one thing that may have come meanwhile.       *)
Resolving ==
  /\ state = "RESOLVING" => resolver = "pending"
  /\ resolver = "pending" =>
       /\ state \in {"RESOLVING", "SIGNING_OUT"}
       /\ ~resolved
       /\ my_id = 0 /\ peers = {}
       /\ control \notin Open /\ hanging \notin Open

(* SignOut has told the application that the session is over before the    *)
(* answer arrives that lets it go on.                                      *)
LeavingTold ==
  state = "SIGNING_OUT_WAITING" =>
    /\ leaving
    /\ my_id # 0 /\ control \in {"connecting", "waiting"} => ~signedIn /\ seen = {}

IInv ==
  /\ TypeOK /\ Pair /\ Resolving /\ LeavingTold
  /\ RequestReady /\ WaitOnlyConnected /\ Listening /\ CleanWhenDown /\ SessionKnown

-----------------------------------------------------------------------------
(* Two things happen in several actions. Close, with the application told, *)
(* leads to the invariant from wherever it is called.                      *)
LEMMA ClosedHolds ==
  ASSUME IInv, Close, signedIn' = FALSE, seen' = {}, misled' \in BOOLEAN,
         timers' \in 0 .. MaxTimers, assigned' \in Nat,
         leaving' \in BOOLEAN, resolved' \in BOOLEAN
  PROVE  IInv'
BY DEF Close, session, IInv, TypeOK, Pair, Resolving, LeavingTold, RequestReady,
   WaitOnlyConnected, Listening, CleanWhenDown, SessionKnown, States, Sockets,
   Open, Requests

(* So does a new sign-in, once the resolver is at rest, of a client that   *)
(* has no id, or has one and is leaving or signed in as before.            *)
LEMMA SignInHolds ==
  ASSUME IInv, state' = "SIGNING_IN", ConnectControlSocket("sign_in"), hanging' = "closed",
         UNCHANGED <<my_id, nameless, peers, observer, waitFailed, assigned>>,
         resolver' \in {"none", "done"},
         timers' \in 0 .. MaxTimers,
         leaving' \in BOOLEAN, resolved' \in BOOLEAN,
         my_id = 0 \/ leaving' = leaving
  PROVE  IInv'
BY DEF ConnectControlSocket, observer, IInv, TypeOK, Pair, Resolving, LeavingTold,
   RequestReady, WaitOnlyConnected, Listening, CleanWhenDown, SessionKnown,
   States, Sockets, Open, Requests

LEMMA ConnectKeeps == ASSUME IInv, Connect PROVE IInv'
<1>1. CASE Close /\ Told
  <2>1. timers' \in 0 .. MaxTimers /\ assigned' \in Nat
    BY DEF Connect, IInv, TypeOK
  <2>2. leaving' \in BOOLEAN /\ resolved' \in BOOLEAN
    BY DEF Connect
  <2> QED BY <1>1, <2>1, <2>2, ClosedHolds DEF Told
<1>2. CASE ~(Close /\ Told)
  <2>1. /\ state' = "SIGNING_IN" /\ ConnectControlSocket("sign_in") /\ hanging' = "closed"
        /\ UNCHANGED <<my_id, nameless, peers, resolver, observer, waitFailed>>
        /\ UNCHANGED <<timers, assigned>>
        /\ leaving' = FALSE /\ resolved' = TRUE
    BY <1>2 DEF Connect, DoConnect, session
  <2>2. timers' \in 0 .. MaxTimers
    BY <2>1 DEF IInv, TypeOK
  <2>3. resolver' \in {"none", "done"} /\ my_id = 0
    BY <2>1 DEF Connect, IInv, CleanWhenDown
  <2> QED BY <2>1, <2>2, <2>3, SignInHolds
<1> QED BY <1>1, <1>2

(* A Connect that is refused touches nothing but what the application knows*)
LEMMA ConnectRefusedKeeps ==
  ASSUME IInv, NEW given \in BOOLEAN, ConnectRefused(given) PROVE IInv'
<1>1. /\ signedIn' = FALSE /\ seen' = {} /\ misled' = (state # "NOT_CONNECTED")
      /\ UNCHANGED <<state, my_id, nameless, control, hanging, onconnect_data, sent, peers,
                     resolver, waitFailed, timers, assigned, leaving, resolved>>
  BY DEF ConnectRefused, session, sockets, outside
<1>2. my_id # 0 => misled'
  BY <1>1 DEF IInv, CleanWhenDown
<1>3. TypeOK'
  BY <1>1 DEF IInv, TypeOK
<1>4. (Pair /\ Resolving /\ LeavingTold)'
  BY <1>1 DEF IInv, Pair, Resolving, LeavingTold
<1>5. (RequestReady /\ WaitOnlyConnected /\ Listening)'
  BY <1>1 DEF IInv, RequestReady, WaitOnlyConnected, Listening
<1>6. (CleanWhenDown /\ SessionKnown)'
  BY <1>1, <1>2 DEF IInv, CleanWhenDown, SessionKnown
<1> QED BY <1>3, <1>4, <1>5, <1>6 DEF IInv

LEMMA ConnectByNameKeeps == ASSUME IInv, ConnectByName PROVE IInv'
BY DEF ConnectByName, session, sockets, observer, IInv, TypeOK, Pair, Resolving,
   LeavingTold, RequestReady, WaitOnlyConnected, Listening, CleanWhenDown,
   SessionKnown, States, Sockets, Open, Requests

LEMMA ResolveFailsKeeps == ASSUME IInv, ResolveFails PROVE IInv'
BY DEF ResolveFails, Told, session, sockets, outside, IInv, TypeOK, Pair, Resolving,
   LeavingTold, RequestReady, WaitOnlyConnected, Listening, CleanWhenDown,
   SessionKnown, States, Sockets, Open, Requests

LEMMA ResolvedKeeps == ASSUME IInv, Resolved PROVE IInv'
<1>1. CASE Close /\ Told
  <2>1. timers' \in 0 .. MaxTimers /\ assigned' \in Nat
    BY DEF Resolved, IInv, TypeOK
  <2>2. leaving' \in BOOLEAN /\ resolved' \in BOOLEAN
    BY DEF Resolved, IInv, TypeOK
  <2> QED BY <1>1, <2>1, <2>2, ClosedHolds DEF Told
<1>2. CASE ~(Close /\ Told)
  <2>1. /\ state' = "SIGNING_IN" /\ ConnectControlSocket("sign_in") /\ hanging' = "closed"
        /\ UNCHANGED <<my_id, nameless, peers, observer, waitFailed>>
        /\ UNCHANGED <<timers, assigned, leaving>>
        /\ resolver' = "done" /\ resolved' = TRUE
    BY <1>2 DEF Resolved, session
  <2>2. timers' \in 0 .. MaxTimers
    BY <2>1 DEF IInv, TypeOK
  <2>3. leaving' \in BOOLEAN
    BY <2>1 DEF IInv, TypeOK
  <2> QED BY <2>1, <2>2, <2>3, SignInHolds
<1> QED BY <1>1, <1>2

LEMMA RetryDueKeeps == ASSUME IInv, RetryDue PROVE IInv'
<1>1. timers' \in 0 .. MaxTimers /\ assigned' \in Nat
  BY BoundsAssumption DEF RetryDue, IInv, TypeOK
<1>2. leaving' \in BOOLEAN /\ resolved' \in BOOLEAN
  BY DEF RetryDue, IInv, TypeOK
<1>3. CASE Close /\ Told
  BY <1>1, <1>2, <1>3, ClosedHolds DEF Told
<1>4. CASE ~(Close /\ Told)
  <2>1. /\ state' = "SIGNING_IN" /\ ConnectControlSocket("sign_in") /\ hanging' = "closed"
        /\ UNCHANGED <<my_id, nameless, peers, resolver, observer, waitFailed>>
        /\ UNCHANGED <<assigned, leaving>>
    BY <1>4 DEF RetryDue, DoConnect, session
  <2>2. resolver' \in {"none", "done"}
    BY <2>1 DEF RetryDue, IInv, TypeOK, Resolving
  <2> QED BY <1>1, <1>2, <2>1, <2>2, SignInHolds
<1> QED BY <1>3, <1>4

LEMMA SendToPeerKeeps == ASSUME IInv, SendToPeer PROVE IInv'
<1>1. CASE Close /\ Told
  <2>1. timers' \in 0 .. MaxTimers /\ assigned' \in Nat
    BY DEF SendToPeer, outside, IInv, TypeOK
  <2>2. leaving' \in BOOLEAN /\ resolved' \in BOOLEAN
    BY DEF SendToPeer, outside, IInv, TypeOK
  <2> QED BY <1>1, <2>1, <2>2, ClosedHolds DEF Told
<1>2. CASE ~(Close /\ Told)
  <2>1. /\ onconnect_data' = "message" /\ control' = "connecting" /\ sent' = "none"
        /\ UNCHANGED <<state, my_id, nameless, hanging, peers, resolver, waitFailed>>
        /\ UNCHANGED <<signedIn, seen, misled, timers, assigned, leaving, resolved>>
        /\ state = "CONNECTED" /\ control = "closed" /\ my_id # 0
    BY <1>2 DEF SendToPeer, ConnectControlSocket, session, observer, outside
  <2>2. TypeOK'
    BY <2>1 DEF IInv, TypeOK, Sockets, Requests
  <2>3. (Pair /\ Resolving /\ LeavingTold)'
    BY <2>1 DEF IInv, Pair, Resolving, LeavingTold
  <2>4. (RequestReady /\ WaitOnlyConnected /\ Listening /\ CleanWhenDown /\ SessionKnown)'
    BY <2>1 DEF IInv, RequestReady, WaitOnlyConnected, Listening, CleanWhenDown, SessionKnown
  <2> QED BY <2>2, <2>3, <2>4 DEF IInv
<1> QED BY <1>1, <1>2

(* DoSignOut, of a client whose application is told or was told before.    *)
LEMMA DoSignOutKeeps ==
  ASSUME IInv, NEW c \in Sockets, DoSignOut(c),
         hanging # "null", c # "null", my_id # 0 \/ c = control,
         state \notin {"NOT_CONNECTED", "SIGNING_OUT"},
         c \in {"closed", "answered", control},
         signedIn' = FALSE, seen' = {}, misled' \in BOOLEAN,
         leaving',
         timers' \in 0 .. MaxTimers, assigned' \in Nat,
         leaving' \in BOOLEAN, resolved' \in BOOLEAN, resolver = "pending" => ~resolved'
  PROVE  IInv'
<1>1. CASE Close
  BY <1>1, ClosedHolds DEF Told
<1>2. CASE /\ c # "closed"
           /\ state' = "SIGNING_OUT_WAITING" /\ hanging' = "closed" /\ control' = c
           /\ UNCHANGED <<my_id, nameless, onconnect_data, sent, peers, resolver, waitFailed>>
  BY <1>2 DEF IInv, TypeOK, Pair, Resolving, LeavingTold, RequestReady,
     WaitOnlyConnected, Listening, CleanWhenDown, SessionKnown, States, Sockets,
     Open, Requests
<1>3. CASE /\ c = "closed" /\ my_id = 0
           /\ state' = "SIGNING_OUT" /\ hanging' = "closed" /\ control' = c
           /\ UNCHANGED <<my_id, nameless, onconnect_data, sent, peers, resolver, waitFailed>>
  BY <1>3 DEF IInv, TypeOK, Pair, Resolving, LeavingTold, RequestReady,
     WaitOnlyConnected, Listening, CleanWhenDown, SessionKnown, States, Sockets,
     Open, Requests
<1>4. CASE /\ c = "closed" /\ my_id # 0
           /\ state' = "SIGNING_OUT" /\ hanging' = "closed"
           /\ ConnectControlSocket("sign_out")
           /\ UNCHANGED <<my_id, nameless, peers, resolver, waitFailed>>
  BY <1>4 DEF ConnectControlSocket, IInv, TypeOK, Pair, Resolving, LeavingTold,
     RequestReady, WaitOnlyConnected, Listening, CleanWhenDown, SessionKnown,
     States, Sockets, Open, Requests
<1> QED BY <1>1, <1>2, <1>3, <1>4 DEF DoSignOut, session

LEMMA SignOutKeeps == ASSUME IInv, SignOut PROVE IInv'
<1>1. timers' \in 0 .. MaxTimers /\ assigned' \in Nat
  BY DEF SignOut, IInv, TypeOK
<1>2. leaving' \in BOOLEAN /\ resolved' \in BOOLEAN /\ leaving'
  BY DEF SignOut, IInv, TypeOK
<1>3. control \in Sockets /\ control # "null" /\ hanging # "null"
  BY DEF SignOut, IInv, TypeOK, Pair
<1>4. resolver = "pending" => ~resolved'
  BY DEF SignOut, IInv, Resolving
<1>5. signedIn' = FALSE /\ seen' = {} /\ misled' \in BOOLEAN /\ DoSignOut(control)
      /\ state \notin {"NOT_CONNECTED", "SIGNING_OUT"}
  BY DEF SignOut, Told
<1> QED BY <1>1, <1>2, <1>3, <1>4, <1>5, DoSignOutKeeps

LEMMA SignOutAtLastKeeps ==
  ASSUME IInv, NEW close \in BOOLEAN, SignOutAtLast(close) PROVE IInv'
<1>1. control = "waiting" /\ my_id # 0 /\ state = "SIGNING_OUT_WAITING"
  BY DEF SignOutAtLast, Assign
<1>2. ~signedIn /\ seen = {}
  BY <1>1 DEF IInv, LeavingTold
<1>3. signedIn' = FALSE /\ seen' = {} /\ misled' \in BOOLEAN
  BY <1>2 DEF SignOutAtLast, observer, IInv, TypeOK
<1>4. leaving
  BY <1>1 DEF IInv, LeavingTold
<1>5. leaving' /\ leaving' \in BOOLEAN /\ resolved' \in BOOLEAN
  BY <1>4 DEF SignOutAtLast, IInv, TypeOK
<1>6. timers' \in 0 .. MaxTimers
  BY DEF SignOutAtLast, IInv, TypeOK
<1>7. assigned' \in Nat
  BY DEF SignOutAtLast, Assign, IInv, TypeOK
<1>8. hanging # "null"
  BY <1>1 DEF IInv, Pair
<1>9. After(close) \in {"closed", "answered"} /\ After(close) \in Sockets
  BY DEF After, Sockets
<1>10. resolver # "pending"
  BY <1>1 DEF IInv, Resolving
<1> QED BY <1>1, <1>3, <1>5, <1>6, <1>7, <1>8, <1>9, <1>10, DoSignOutKeeps DEF SignOutAtLast

LEMMA OnConnectKeeps == ASSUME IInv, OnConnect PROVE IInv'
BY DEF OnConnect, session, observer, outside, IInv, TypeOK, Pair, Resolving, LeavingTold,
   RequestReady, WaitOnlyConnected, Listening, CleanWhenDown, SessionKnown,
   States, Sockets, Open, Requests

LEMMA OnHangingGetConnectKeeps == ASSUME IInv, OnHangingGetConnect PROVE IInv'
BY DEF OnHangingGetConnect, session, observer, outside, IInv, TypeOK, Pair, Resolving,
   LeavingTold, RequestReady, WaitOnlyConnected, Listening, CleanWhenDown,
   SessionKnown, States, Sockets, Open, Requests

LEMMA ControlRefusedKeeps == ASSUME IInv, ControlRefused PROVE IInv'
BY BoundsAssumption DEF ControlRefused, session, observer, IInv, TypeOK, Pair, Resolving,
   LeavingTold, RequestReady, WaitOnlyConnected, Listening, CleanWhenDown,
   SessionKnown, States, Sockets, Open, Requests

LEMMA ControlClosedKeeps == ASSUME IInv, ControlClosed PROVE IInv'
BY DEF ControlClosed, session, observer, outside, IInv, TypeOK, Pair, Resolving,
   LeavingTold, RequestReady, WaitOnlyConnected, Listening, CleanWhenDown,
   SessionKnown, States, Sockets, Open, Requests

(* A read that ends in Close.                                              *)
LEMMA ReadClosesKeeps ==
  ASSUME IInv, HangingRefused \/ ControlRejected \/ SignedOut \/ HangingRejected
  PROVE  IInv'
<1>1. Close /\ Told
  BY DEF HangingRefused, ControlRejected, SignedOut, HangingRejected
<1>2. timers' \in 0 .. MaxTimers
  BY DEF HangingRefused, ControlRejected, SignedOut, HangingRejected, outside, IInv, TypeOK
<1>3. leaving' \in BOOLEAN /\ resolved' \in BOOLEAN
  BY DEF HangingRefused, ControlRejected, SignedOut, HangingRejected, outside, IInv, TypeOK
<1>4. assigned' \in Nat
  BY DEF HangingRefused, ControlRejected, SignedOut, HangingRejected, Assign, outside,
         IInv, TypeOK
<1> QED BY <1>1, <1>2, <1>3, <1>4, ClosedHolds DEF Told

LEMMA HangingClosedKeeps == ASSUME IInv, HangingClosed PROVE IInv'
<1>1. /\ state = "CONNECTED" /\ hanging \in Open
      /\ UNCHANGED <<state, my_id, nameless, control, onconnect_data, sent, peers, resolver,
                     signedIn, seen, misled, timers, assigned, leaving, resolved>>
  BY DEF HangingClosed, session, observer, outside, IInv, WaitOnlyConnected
<1>2. PICK ok \in BOOLEAN :
        /\ hanging' = IF ok THEN "connecting" ELSE "closed"
        /\ waitFailed' = ~ok
  BY <1>1 DEF HangingClosed, Listen
<1>3. hanging' \in {"connecting", "closed"} /\ waitFailed' \in BOOLEAN
      /\ (hanging' \in Open \/ waitFailed')
  BY <1>2 DEF Open
<1>4. TypeOK'
  BY <1>1, <1>3 DEF IInv, TypeOK, Sockets
<1>5. Pair' /\ Resolving' /\ LeavingTold'
  BY <1>1, <1>3 DEF IInv, Pair, Resolving, LeavingTold, Open
<1>6. RequestReady' /\ WaitOnlyConnected' /\ Listening'
  BY <1>1, <1>3 DEF IInv, RequestReady, WaitOnlyConnected, Listening
<1>7. CleanWhenDown' /\ SessionKnown'
  BY <1>1 DEF IInv, CleanWhenDown, SessionKnown
<1> QED BY <1>4, <1>5, <1>6, <1>7 DEF IInv

LEMMA LaterAnswerKeeps ==
  ASSUME IInv, NEW close \in BOOLEAN, LaterAnswer(close) PROVE IInv'
<1>1. After(close) \in {"closed", "answered"}
  BY DEF After
<1>2. control = "waiting" /\ assigned' \in Nat
  BY DEF LaterAnswer, Assign, IInv, TypeOK
<1>3. CASE state = "SIGNING_IN"
  <2>1. PICK ok \in BOOLEAN :
          /\ hanging' = IF ok THEN "connecting" ELSE "closed"
          /\ waitFailed' = ~ok
    BY <1>3 DEF LaterAnswer, EndOfRead, Listen
  <2>2. state' = "CONNECTED" /\ control' \in {"closed", "answered"}
    BY <1>1, <1>3 DEF LaterAnswer, EndOfRead
  <2>3. my_id # 0
        /\ UNCHANGED <<my_id, nameless, onconnect_data, sent, peers, resolver, timers, signedIn, seen, misled,
                       leaving, resolved>>
    BY DEF LaterAnswer, session, observer
  <2>4. TypeOK'
    BY <1>2, <2>1, <2>2, <2>3 DEF IInv, TypeOK, States, Sockets, Requests
  <2>5. Pair' /\ Resolving' /\ LeavingTold'
    BY <1>2, <1>3, <2>1, <2>2, <2>3 DEF IInv, Pair, Resolving, LeavingTold, Open
  <2>6. RequestReady' /\ WaitOnlyConnected' /\ CleanWhenDown' /\ SessionKnown'
    BY <2>2, <2>3
    DEF IInv, RequestReady, WaitOnlyConnected, CleanWhenDown, SessionKnown
  <2>7. Listening'
    BY <2>1 DEF Listening, Open
  <2> QED BY <2>4, <2>5, <2>6, <2>7 DEF IInv
<1>4. CASE state # "SIGNING_IN"
  <2>1. /\ control' \in {"closed", "answered"} /\ state \notin {"SIGNING_OUT", "SIGNING_OUT_WAITING"}
        /\ UNCHANGED <<state, hanging, waitFailed>>
        /\ UNCHANGED <<my_id, nameless, onconnect_data, sent, peers, resolver, timers, signedIn, seen, misled,
                       leaving, resolved>>
    BY <1>1, <1>4 DEF LaterAnswer, EndOfRead, session, observer
  <2>2. TypeOK'
    BY <1>2, <2>1 DEF IInv, TypeOK, States, Sockets, Requests
  <2>3. Pair' /\ Resolving' /\ LeavingTold'
    BY <1>2, <2>1 DEF IInv, Pair, Resolving, LeavingTold, Open
  <2>4. RequestReady' /\ WaitOnlyConnected' /\ Listening'
    BY <2>1 DEF IInv, RequestReady, WaitOnlyConnected, Listening
  <2>5. CleanWhenDown' /\ SessionKnown'
    BY <1>2, <2>1 DEF IInv, CleanWhenDown, SessionKnown, Open
  <2> QED BY <2>2, <2>3, <2>4, <2>5 DEF IInv
<1> QED BY <1>3, <1>4

(* An answer to a client without an id answers its sign-in, so it brings   *)
(* the id, or leaves the client without one.                               *)
LEMMA FirstAnswerKeeps ==
  ASSUME IInv, NEW close \in BOOLEAN, NEW list \in SUBSET Peers, NEW pragma \in BOOLEAN,
         FirstAnswer(list, close, pragma)
  PROVE  IInv'
<1>1. After(close) \in {"closed", "answered"}
  BY DEF After
<1>2. control = "waiting" /\ my_id = 0 /\ sent = "sign_in"
  BY DEF FirstAnswer, Assign, IInv, RequestReady
<1>3. /\ assigned' = assigned + 1 /\ nameless' = ~pragma
      /\ my_id' = IF pragma THEN assigned' ELSE 0
  BY <1>2 DEF FirstAnswer, Assign
<1>4. assigned' \in Nat /\ my_id' \in Nat /\ (my_id' # 0 \/ nameless') /\ nameless' \in BOOLEAN
  <2>1. assigned' \in Nat /\ assigned' # 0
    BY <1>3 DEF IInv, TypeOK
  <2>2. CASE pragma
    BY <1>3, <2>1, <2>2
  <2>3. CASE ~pragma
    BY <1>3, <2>1, <2>3
  <2> QED BY <2>2, <2>3
<1>5. /\ control' \in {"closed", "answered"}
      /\ peers' = peers \cup list /\ seen' = seen \cup list /\ signedIn' = TRUE /\ misled' = FALSE
      /\ UNCHANGED <<onconnect_data, sent, resolver, timers, leaving, resolved>>
  BY <1>1 DEF FirstAnswer
<1>6. resolver # "pending" /\ state \notin {"NOT_CONNECTED", "RESOLVING"}
  BY <1>2 DEF IInv, Resolving, CleanWhenDown, Open
<1>7. /\ state' \in States \ {"NOT_CONNECTED", "RESOLVING"}
      /\ hanging' \in Sockets \ {"null"} /\ waitFailed' \in BOOLEAN
      /\ hanging' \in Open => state' = "CONNECTED"
      /\ state' = "CONNECTED" => hanging' \in Open \/ waitFailed'
      /\ state' \in {"CONNECTED", state}
  <2>1. CASE state = "SIGNING_IN"
    <3>1. PICK ok \in BOOLEAN :
            /\ hanging' = IF ok THEN "connecting" ELSE "closed"
            /\ waitFailed' = ~ok
      BY <2>1 DEF FirstAnswer, EndOfRead, Listen
    <3>2. state' = "CONNECTED"
      BY <2>1 DEF FirstAnswer, EndOfRead
    <3> QED BY <3>1, <3>2 DEF States, Sockets, Open
  <2>2. CASE state # "SIGNING_IN"
    <3>1. UNCHANGED <<state, hanging, waitFailed>>
      BY <2>2 DEF FirstAnswer, EndOfRead
    <3>2. hanging # "null"
      BY <1>2 DEF IInv, Pair
    <3> QED BY <1>6, <3>1, <3>2 DEF IInv, TypeOK, WaitOnlyConnected, Listening
  <2> QED BY <2>1, <2>2
<1>8. TypeOK'
  BY <1>4, <1>5, <1>7 DEF IInv, TypeOK, States, Sockets, Requests
<1>9. Pair' /\ Resolving' /\ LeavingTold'
  BY <1>5, <1>6, <1>7 DEF IInv, Pair, Resolving, LeavingTold
<1>10. RequestReady' /\ WaitOnlyConnected' /\ Listening'
  BY <1>5, <1>7 DEF RequestReady, WaitOnlyConnected, Listening
<1>11. CleanWhenDown'
  BY <1>4, <1>7 DEF CleanWhenDown
<1>12. SessionKnown'
  BY <1>4, <1>5 DEF IInv, SessionKnown
<1> QED BY <1>8, <1>9, <1>10, <1>11, <1>12 DEF IInv

(* A notification reaches a client whose "wait" request is open, one that  *)
(* is connected therefore.                                                 *)
LEMMA NotificationKeeps ==
  ASSUME IInv, NEW p \in Peers, NEW news \in News, NEW close \in BOOLEAN,
         Notification(p, news, close)
  PROVE  IInv'
<1>1. hanging = "waiting" /\ state = "CONNECTED"
  BY DEF Notification, IInv, WaitOnlyConnected, Open
<1>2. hanging' \in Sockets \ {"null"} /\ waitFailed' \in BOOLEAN
      /\ (hanging' \in Open \/ waitFailed')
  <2>1. CASE close
    <3>1. PICK ok \in BOOLEAN :
            /\ hanging' = IF ok THEN "connecting" ELSE "closed"
            /\ waitFailed' = ~ok
      BY <1>1, <2>1 DEF Notification, Listen
    <3> QED BY <3>1 DEF Sockets, Open
  <2>2. CASE ~close
    BY <2>2 DEF Notification, After, Sockets, Open, IInv, TypeOK
  <2> QED BY <2>1, <2>2
<1>3. UNCHANGED <<state, my_id, nameless, control, onconnect_data, sent, resolver, signedIn, misled,
                  timers, assigned, leaving, resolved>>
  BY DEF Notification, session, outside
<1>4. peers' \subseteq Peers /\ seen' \subseteq peers'
  BY DEF Notification, News, IInv, TypeOK, SessionKnown
<1>5. TypeOK'
  BY <1>2, <1>3, <1>4 DEF IInv, TypeOK, States, Sockets, Requests
<1>6. Pair' /\ Resolving' /\ LeavingTold'
  BY <1>1, <1>2, <1>3 DEF IInv, Pair, Resolving, LeavingTold
<1>7. RequestReady' /\ WaitOnlyConnected' /\ Listening'
  BY <1>1, <1>2, <1>3 DEF IInv, RequestReady, WaitOnlyConnected, Listening
<1>8. CleanWhenDown' /\ SessionKnown'
  BY <1>1, <1>3, <1>4 DEF IInv, CleanWhenDown, SessionKnown
<1> QED BY <1>5, <1>6, <1>7, <1>8 DEF IInv

-----------------------------------------------------------------------------
LEMMA InitHolds == Init => IInv
<1> SUFFICES ASSUME Init PROVE IInv
  OBVIOUS
<1>1. 0 \in 0 .. MaxTimers
  BY BoundsAssumption
<1>2. TypeOK
  BY <1>1 DEF Init, TypeOK, States, Sockets, Requests
<1>3. Pair /\ Resolving /\ LeavingTold /\ RequestReady
  BY DEF Init, Pair, Resolving, LeavingTold, RequestReady
<1>4. WaitOnlyConnected /\ Listening /\ CleanWhenDown
  BY DEF Init, WaitOnlyConnected, Listening, CleanWhenDown, Open
<1>5. SessionKnown
  BY DEF Init, SessionKnown
<1> QED BY <1>2, <1>3, <1>4, <1>5 DEF IInv

LEMMA StepHolds == IInv /\ [Next]_vars => IInv'
<1> SUFFICES ASSUME IInv, [Next]_vars PROVE IInv'
  OBVIOUS
<1>1. CASE CallNext
  BY <1>1, ConnectKeeps, ConnectRefusedKeeps, ConnectByNameKeeps, SendToPeerKeeps, SignOutKeeps DEF CallNext
<1>2. CASE ResolverNext
  BY <1>2, ResolveFailsKeeps, ResolvedKeeps DEF ResolverNext
<1>3. CASE RetryDue
  BY <1>3, RetryDueKeeps
<1>4. CASE SocketNext
  BY <1>4, OnConnectKeeps, OnHangingGetConnectKeeps, ControlRefusedKeeps,
     ControlClosedKeeps, ReadClosesKeeps, HangingClosedKeeps DEF SocketNext
<1>5. CASE ReadNext
  BY <1>5, ReadClosesKeeps, SignOutAtLastKeeps, LaterAnswerKeeps, FirstAnswerKeeps,
     NotificationKeeps DEF ReadNext
<1>6. CASE UNCHANGED vars
  BY <1>6 DEF vars, session, sockets, observer, outside, IInv, TypeOK, Pair, Resolving,
     LeavingTold, RequestReady, WaitOnlyConnected, Listening, CleanWhenDown,
     SessionKnown, States, Sockets, Open, Requests
<1> QED BY <1>1, <1>2, <1>3, <1>4, <1>5, <1>6 DEF Next

(* The invariant that implies the others.                                   *)
THEOREM Inductive == Spec => []IInv
BY InitHolds, StepHolds, PTL DEF Spec

(* The state keeps its types.                                              *)
THEOREM TypeCorrect == Spec => []TypeOK
<1>1. IInv => TypeOK
  BY DEF IInv
<1> QED BY Inductive, <1>1, PTL

(* OnConnect (line 237) always has a request to send, and only a sign-in   *)
(* is ever answered while there is no id.                                  *)
THEOREM RequestHolds == Spec => []RequestReady
<1>1. IInv => RequestReady
  BY DEF IInv
<1> QED BY Inductive, <1>1, PTL

(* The "wait" request is open only while the client is connected, so the   *)
(* end of a sign-in finds its socket closed (line 375).                    *)
THEOREM WaitHolds == Spec => []WaitOnlyConnected
<1>1. IInv => WaitOnlyConnected
  BY DEF IInv
<1> QED BY Inductive, <1>1, PTL

(* A connected client waits for notifications, or the socket refused.      *)
THEOREM ListeningHolds == Spec => []Listening
<1>1. IInv => Listening
  BY DEF IInv
<1> QED BY Inductive, <1>1, PTL

(* Connected means an id, unless the server gave none; not connected means *)
(* that nothing is left of the last session, here and in the application.  *)
THEOREM CleanHolds == Spec => []CleanWhenDown
<1>1. IInv => CleanWhenDown
  BY DEF IInv
<1> QED BY Inductive, <1>1, PTL

(* The application and the client agree on whether there is a session, or  *)
(* a Connect made too early was taken for its end; the peers it knows of   *)
(* are in peers_.                                                          *)
THEOREM SessionHolds == Spec => []SessionKnown
<1>1. IInv => SessionKnown
  BY DEF IInv
<1> QED BY Inductive, <1>1, PTL
=============================================================================
