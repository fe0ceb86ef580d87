---------------------------- MODULE GtkVideoRenderer ----------------------------
(***************************************************************************)
(* GtkMainWnd::VideoRenderer of the remote video, and the window's         *)
(* OnRedraw and Draw (peerconnection/src/linux/main_wnd.cc). The decoder's *)
(* thread writes width_, height_ and image_, the window's reads them.      *)
(* gdk_threads_enter locks nothing: no code calls gdk_threads_init. Data:  *)
(* frames are numbered, an image is its number of pixels and the frame     *)
(* they show. WebRTC, GTK and cairo are external.                          *)
(***************************************************************************)
EXTENDS Naturals

CONSTANTS
  Sizes,         \* of frames
  MaxFrames      \* bound: frames that are received

VARIABLES
  size,          \* width_ and height_ of the renderer
  image,         \* the length of image_
  frame,         \* the frame OnFrame was called with
  at,            \* where OnFrame is
  frames,        \* the number of the frame
  redraws,       \* idle callbacks of Redraw
  win,           \* width_ and height_ of the window
  capacity,      \* of draw_buffer_
  drawn,         \* the frame in draw_buffer_, 0 when it is none, or parts of two
  queued,        \* draw_area_ is to be drawn
  seen,          \* the frame that Draw has drawn
  redraw,        \* where OnRedraw is
  area,          \* draw_area_ is in the window
  overrun,       \* Draw has read more than draw_buffer_ holds
  raced          \* OnRedraw and SetSize have overlapped

decoderVars == <<size, image, frame, at, frames>>
bufferVars == <<capacity, drawn, queued, seen>>
windowVars == <<win, bufferVars, redraw, area, overrun>>
vars == <<decoderVars, windowVars, redraws, raced>>

NoSize == [w |-> 0, h |-> 0]
Pixels(s) == s.w * s.h
AllSizes == [w : {s.w : s \in Sizes} \cup {0}, h : {s.h : s \in Sizes} \cup {0}]

TypeOK ==
  /\ size \in AllSizes /\ win \in AllSizes /\ frame \in AllSizes
  /\ image \in {Pixels(s) : s \in AllSizes} /\ capacity \in {Pixels(s) : s \in AllSizes}
  /\ at \in {"idle", "SetSize.height", "SetSize.image", "convert", "g_idle_add"}
  /\ redraw \in {"idle", "height", "SetData"}
  /\ frames \in 0 .. MaxFrames /\ redraws \in 0 .. MaxFrames
  /\ drawn \in 0 .. MaxFrames /\ seen \in 0 .. MaxFrames /\ queued \in BOOLEAN
  /\ area \in BOOLEAN /\ overrun \in BOOLEAN /\ raced \in BOOLEAN

Init ==
  /\ size = NoSize /\ image = 0 /\ frame = NoSize /\ at = "idle" /\ frames = 0
  /\ redraws = 0 /\ win = NoSize /\ redraw = "idle" /\ area = TRUE
  /\ capacity = 0 /\ drawn = 0 /\ queued = FALSE /\ seen = 0
  /\ overrun = FALSE /\ raced = FALSE

-----------------------------------------------------------------------------
(* OnFrame and SetSize, one write at a time                                *)
OnFrame ==
  /\ at = "idle" /\ frames < MaxFrames /\ frames' = frames + 1
  /\ frame' \in Sizes
  /\ IF frame' = size THEN at' = "convert" /\ UNCHANGED <<size, raced>>
     ELSE /\ at' = "SetSize.height" /\ size' = [size EXCEPT !.w = frame'.w]
          /\ raced' = (raced \/ redraw # "idle")
  /\ UNCHANGED <<image, redraws, windowVars>>

SetSize ==
  /\ \/ /\ at = "SetSize.height" /\ at' = "SetSize.image"
        /\ size' = [size EXCEPT !.h = frame.h] /\ UNCHANGED image
     \/ /\ at = "SetSize.image" /\ at' = "convert"
        /\ image' = Pixels(frame) /\ UNCHANGED size
  /\ raced' = (raced \/ redraw # "idle")
  /\ UNCHANGED <<frame, frames, redraws, windowVars>>

Convert ==
  /\ at = "convert" /\ at' = "g_idle_add"
  /\ UNCHANGED <<size, image, frame, frames, redraws, windowVars, raced>>

AddRedraw ==
  /\ at = "g_idle_add" /\ at' = "idle" /\ redraws' = redraws + 1
  /\ UNCHANGED <<size, image, frame, frames, windowVars, raced>>

(* StopRemoteRenderer waits for OnFrame to return; StartRemoteRenderer     *)
Restart ==
  /\ at = "idle" /\ redraw = "idle" /\ size' = NoSize /\ image' = 0
  /\ UNCHANGED <<frame, at, frames, redraws, windowVars, raced>>

-----------------------------------------------------------------------------
Overlaps == raced' = (raced \/ at \in {"SetSize.height", "SetSize.image"})

OnRedraw ==
  /\ redraw = "idle" /\ redraws > 0 /\ redraws' = redraws - 1
  /\ IF image = 0 \/ ~area THEN UNCHANGED <<redraw, win>>
     ELSE IF win = size THEN redraw' = "SetData" /\ UNCHANGED win
     ELSE redraw' = "height" /\ win' = [win EXCEPT !.w = size.w]
  /\ Overlaps /\ UNCHANGED <<decoderVars, bufferVars, area, overrun>>

RedrawHeight ==
  /\ redraw = "height" /\ redraw' = "SetData"
  /\ win' = [win EXCEPT !.h = size.h]
  /\ Overlaps /\ UNCHANGED <<decoderVars, redraws, bufferVars, area, overrun>>

(* The frame in image_, of the size in frame, once it is converted         *)
Converted == IF at \in {"idle", "g_idle_add"} /\ image # 0 THEN frames ELSE 0

RedrawData ==
  /\ redraw = "SetData" /\ redraw' = "idle"
  /\ capacity' = IF image > capacity THEN image ELSE capacity
  /\ drawn' = IF win = frame THEN Converted ELSE 0
  /\ queued' = TRUE
  /\ Overlaps /\ UNCHANGED <<decoderVars, redraws, win, seen, area, overrun>>

Draw ==      \* queued by OnRedraw, or the window was uncovered
  /\ redraw = "idle" /\ area
  /\ queued' = FALSE /\ seen' = drawn
  /\ overrun' = (overrun \/ Pixels(win) > capacity)
  /\ UNCHANGED <<decoderVars, redraws, win, capacity, drawn, redraw, area, raced>>

SwitchToPeerList ==      \* draw_buffer_.SetSize(0) keeps the memory
  /\ redraw = "idle" /\ area /\ area' = FALSE
  /\ drawn' = 0 /\ queued' = FALSE /\ seen' = 0
  /\ UNCHANGED <<decoderVars, redraws, win, capacity, redraw, overrun, raced>>

SwitchToStreamingUI ==
  /\ redraw = "idle" /\ ~area /\ area' = TRUE
  /\ UNCHANGED <<decoderVars, redraws, win, bufferVars, redraw, overrun, raced>>

Decoder == SetSize \/ Convert \/ AddRedraw
Redraw == OnRedraw \/ RedrawHeight \/ RedrawData \/ (queued /\ Draw)
Next ==
  \/ OnFrame \/ Decoder \/ Restart
  \/ Redraw \/ Draw \/ SwitchToPeerList \/ SwitchToStreamingUI

Spec == Init /\ [][Next]_vars /\ WF_vars(Decoder) /\ WF_vars(Redraw)

-----------------------------------------------------------------------------
(* Draw reads past draw_buffer_ only after OnRedraw overlapped a change of *)
(* the size: switches, restarts and the buffers alone never make it.       *)
OverrunNeedsRace == overrun => raced

(* A frame that was converted is drawn in the end with its own size, or    *)
(* one that came later, unless the area goes or the renderer is restarted. *)
FrameDrawn ==
  \A n \in 1 .. MaxFrames :
    (at = "g_idle_add" /\ frames = n /\ area) ~> (seen >= n \/ ~area \/ image = 0)
=============================================================================
