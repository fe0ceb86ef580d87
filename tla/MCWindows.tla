------------------------------- MODULE MCWindows -------------------------------
(***************************************************************************)
(* The main windows and the video renderers, for TLC: the first state      *)
(* chooses the one of the four that runs; the others stay as they begin.   *)
(***************************************************************************)
EXTENDS Integers, Sequences, FiniteSets

CONSTANTS PeerIds, MaxIdle, MaxPosted, MaxCalls, MaxFrames

ASSUME WindowAssumption ==
  /\ PeerIds \subseteq Nat \ {0} /\ IsFiniteSet(PeerIds)
  /\ MaxIdle \in Nat /\ MaxPosted \in Nat /\ MaxCalls \in Nat /\ MaxFrames \in Nat

VARIABLES
  part,
  login, active, peers, want, said, life,
  window, vbox, peer_list, draw_area, child, left, sensitive, rows, idle, wait, asked,
  autoconnect, autocall,
  ui, wnd, exists, destroyed, nested_msg, calls, posted, shown, focus, items, sel, quit,
  auto_connect, auto_call,
  size, image, frame, at, frames, redraws, win, capacity, drawn, queued, seen, redraw, area,
  overrun, raced,
  bmi, images, buffer_lock, received, in, counts, streaming, invalid, paint, painted

Sizes == {[w |-> 1, h |-> 1], [w |-> 2, h |-> 2]}

Gtk == INSTANCE GtkMainWnd
Win32 == INSTANCE MainWnd WITH PeerIds <- {1}
GtkVideo == INSTANCE GtkVideoRenderer
Video == INSTANCE VideoRenderer WITH image <- images, frame <- received, at <- in, frames <- counts

gtkVars == <<window, vbox, peer_list, draw_area, child, left, sensitive, rows, idle, wait, asked,
             autoconnect, autocall>>
win32Vars == <<ui, wnd, exists, destroyed, nested_msg, calls, posted, shown, focus, items, sel, quit,
               auto_connect, auto_call>>
gtkVideoVars == <<size, image, frame, at, frames, redraws, win, capacity, drawn, queued, seen,
                  redraw, area, overrun, raced>>
videoVars == <<bmi, images, buffer_lock, received, in, counts, streaming, invalid, paint, painted>>
programVars == <<login, active, peers, want, said, life>>
vars == <<part, programVars, gtkVars, win32Vars, gtkVideoVars, videoVars>>

GtkRuns == part = "gtk" /\ UNCHANGED <<part, win32Vars, gtkVideoVars, videoVars>>
Win32Runs == part = "win32" /\ UNCHANGED <<part, gtkVars, gtkVideoVars, videoVars>>
GtkVideoRuns ==
  part = "gtk video" /\ UNCHANGED <<part, programVars, gtkVars, win32Vars, videoVars>>
VideoRuns ==
  part = "video" /\ UNCHANGED <<part, programVars, gtkVars, win32Vars, gtkVideoVars>>

Init ==
  /\ part \in {"gtk", "win32", "gtk video", "video"}
  /\ Gtk!Init /\ Win32!Init /\ GtkVideo!Init /\ Video!Init
  /\ part # "gtk" => ~autoconnect /\ ~autocall
  /\ part # "win32" => ~auto_connect /\ ~auto_call

Next ==
  \/ GtkRuns /\ Gtk!Next
  \/ Win32Runs /\ Win32!Next
  \/ GtkVideoRuns /\ GtkVideo!Next
  \/ VideoRuns /\ Video!Next

(* The fairness of each of them                                            *)
Fairness ==
  /\ WF_vars(GtkRuns /\ Gtk!Loop)
  /\ WF_vars(Win32Runs /\ Win32!Handle) /\ SF_vars(Win32Runs /\ Win32!Answer)
  /\ WF_vars(GtkVideoRuns /\ GtkVideo!Decoder) /\ WF_vars(GtkVideoRuns /\ GtkVideo!Redraw)
  /\ WF_vars(VideoRuns /\ Video!OnPaint)
  /\ \A r \in Video!Renderers : WF_vars(VideoRuns /\ Video!Decoder(r))

Spec == Init /\ [][Next]_vars /\ Fairness

(* What a window asks of the program fits the state the program is in: a   *)
(* peer that is called, by a click, a key, autocall or a double click that *)
(* was posted long before, is signed in, for no list is left as it was     *)
(* while the peers changed; and Escape leaves the server only when there   *)
(* is no call to leave first.                                              *)
AsksWhatFits ==
  [][/\ said'.op = "ConnectToPeer" => said'.id \in peers
     /\ said'.op = "DisconnectFromServer" => ~active]_vars

(* Both windows show the mode the program asked for last, and no control   *)
(* of another, whatever order switches, sizes and commands come in; GTK's  *)
(* only until SwitchToConnectUI leaves a widget in the window.             *)
ModeShown == Gtk!ShowsWhatWasAsked /\ Win32!OneModeShown

(* GTK makes the widgets of a mode when there are none, as the RTC_DCHECKs *)
(* of SwitchToConnectUI (vbox_, line 261) and SwitchToStreamingUI          *)
(* (draw_area_, line 345) state, whatever modes came before: until a       *)
(* SwitchToConnectUI has left another widget in the window.                *)
WidgetsAreNew ==
  [][part = "gtk" /\ window /\ ~left' =>
       ~(want' = "CONNECT_TO_SERVER" /\ vbox) /\ ~(want' = "STREAMING" /\ draw_area)]_vars

(* No handler of the window finds wnd_ cleared by one that it called, even *)
(* when the window is destroyed in the loop of a MessageBox.               *)
HandlersKeepTheHandle == Win32!HandlersKeepTheHandle

(* A window that is gone ends its program: the GTK loop once the program   *)
(* is signed out, under Windows by the message that quits.                 *)
ProgramEnds == (part = "gtk" => Gtk!ClosedWindowQuits) /\ Win32!DestroyedQuits

(* No image is used with a size that is not its own, by OnFrame, OnPaint   *)
(* or Draw, but where GTK's OnRedraw overlaps a change of the size.        *)
ImagesFit == GtkVideo!OverrunNeedsRace /\ Video!PaintsWholeImages /\ Video!ConvertsInImage

(* A frame that was converted is drawn or painted in the end, or one that  *)
(* came later: no request to redraw is lost, and no stale frame stays.     *)
FramesShown == GtkVideo!FrameDrawn /\ Video!FramePainted
=============================================================================
