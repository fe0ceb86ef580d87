------------------------------- MODULE Conductor -------------------------------
(***************************************************************************)
(* The program around a main window: PeerConnectionClient, which signs in  *)
(* at the server, and Conductor, which the window calls through            *)
(* MainWndCallback and which switches the window's user interface. Neither *)
(* is in the repository but for commented-out copies of Conductor (in      *)
(* sharertc_base.cc): an environment, in the calls the windows make to it  *)
(* and those it makes to them.                                             *)
(***************************************************************************)
CONSTANT PeerIds       \* the peers there may be at the server

VARIABLES
  login,      \* at the server: "no", "under way" or "yes"
  active,     \* there is a peer connection
  peers,      \* the peers that are signed in
  want        \* what this step has the window show: a user interface, a
              \* "MessageBox" or "none"

conductorVars == <<login, active, peers, want>>

UI == {"CONNECT_TO_SERVER", "LIST_PEERS", "STREAMING"}

ConductorTypeOK ==
  /\ login \in {"no", "under way", "yes"} /\ active \in BOOLEAN
  /\ peers \subseteq PeerIds /\ want \in UI \cup {"MessageBox", "none"}

(* Create has switched to the first of them                                *)
ConductorInit == login = "no" /\ active = FALSE /\ peers = {} /\ want = "CONNECT_TO_SERVER"

Nothing == want' = "none" /\ UNCHANGED <<login, active, peers>>
If(isWindow, ui) == IF isWindow THEN ui ELSE "none"

(* Called by the window                                                    *)
StartLogin ==
  /\ login' = IF login = "no" THEN "under way" ELSE login
  /\ want' = "none" /\ UNCHANGED <<active, peers>>

ConnectToPeer ==
  /\ want' = IF active THEN "none" ELSE "STREAMING"
  /\ active' = TRUE /\ UNCHANGED <<login, peers>>

DisconnectFromCurrentPeer(isWindow) ==
  /\ active' = FALSE /\ want' = If(isWindow, "LIST_PEERS")
  /\ UNCHANGED <<login, peers>>

DisconnectFromServer == Nothing      \* a request; OnDisconnected follows or not

CloseConductor == active' = FALSE /\ want' = "none" /\ UNCHANGED <<login, peers>>

PeerConnectionClosed(isWindow) ==
  /\ active' = FALSE
  /\ want' = If(isWindow, IF login = "yes" THEN "LIST_PEERS" ELSE "CONNECT_TO_SERVER")
  /\ UNCHANGED <<login, peers>>

(* Brought by the network                                                  *)
OnSignedIn ==
  /\ login = "under way"
  /\ login' = "yes" /\ want' = "LIST_PEERS"
  /\ peers' \in SUBSET PeerIds /\ UNCHANGED active

OnServerConnectionFailure ==
  /\ login = "under way"
  /\ login' = "no" /\ want' = "MessageBox" /\ UNCHANGED <<active, peers>>

OnDisconnected(isWindow) ==
  /\ login = "yes"
  /\ login' = "no" /\ active' = FALSE /\ peers' = {}
  /\ want' = If(isWindow, "CONNECT_TO_SERVER")

OnPeersChanged(ui) ==
  /\ login = "yes"
  /\ peers' \in SUBSET PeerIds \ {peers}
  /\ want' = IF ui = "LIST_PEERS" THEN "LIST_PEERS" ELSE "none"
  /\ UNCHANGED <<login, active>>

OnOffer(isWindow, ui) ==
  /\ login = "yes" /\ ~active
  /\ active' = TRUE /\ UNCHANGED <<login, peers>>
  /\ want' = IF isWindow /\ ui # "STREAMING" THEN "STREAMING" ELSE "none"

FromNetwork(isWindow, ui) ==
  \/ OnSignedIn \/ OnServerConnectionFailure \/ OnDisconnected(isWindow)
  \/ OnPeersChanged(ui) \/ OnOffer(isWindow, ui)
=============================================================================
