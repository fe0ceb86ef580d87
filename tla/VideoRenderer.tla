------------------------------ MODULE VideoRenderer ------------------------------
(***************************************************************************)
(* MainWnd::VideoRenderer, one of the local and one of the remote video,   *)
(* and MainWnd::OnPaint (peerconnection/src/main_wnd.cc), which paints     *)
(* from both. Each renderer has a critical section, which its owner may    *)
(* enter again. Data: frames are numbered; an image is its number of       *)
(* pixels, or none. The window is large enough for the local video to be   *)
(* painted too. WebRTC and GDI are external.                               *)
(***************************************************************************)
EXTENDS Integers

CONSTANTS
  Sizes,         \* of frames
  MaxFrames      \* bound: frames of each renderer

Renderers == {"local", "remote"}

VARIABLES
  bmi,           \* biWidth and biHeight of bmi_, which is negative
  image,         \* the pixels of image_, 0 when it is null
  buffer_lock,   \* the thread that is in buffer_lock_, or "none"
  frame,         \* the frame OnFrame was called with
  at,            \* where OnFrame is
  frames,        \* the number of the frame
  streaming,     \* ui_ is STREAMING, and both renderers are there
  invalid,       \* the window is to be painted
  paint,         \* where OnPaint is
  painted        \* what it painted: the sizes, the images and the frames

vars == <<bmi, image, buffer_lock, frame, at, frames, streaming, invalid, paint, painted>>

Initial == [w |-> 1, h |-> -1]
Bmi(s) == [w |-> s.w, h |-> -s.h]
Pixels(b) == b.w * (-b.h)
AllBmi == {Bmi(s) : s \in Sizes} \cup {Initial}
Mixed == [w : {b.w : b \in AllBmi}, h : {b.h : b \in AllBmi}]
Nothing == [bmi |-> Initial, image |-> 0, frame |-> 0]
Pictures == [bmi : Mixed, image : {0} \cup {Pixels(b) : b \in AllBmi}, frame : 0 .. MaxFrames]

TypeOK ==
  /\ bmi \in [Renderers -> Mixed]
  /\ image \in [Renderers -> {0} \cup {Pixels(b) : b \in AllBmi}]
  /\ buffer_lock \in [Renderers -> {"none", "decoder", "window"}]
  /\ frame \in [Renderers -> Sizes \cup {[w |-> 1, h |-> 1]}]
  /\ at \in [Renderers -> {"idle", "SetSize", "image", "convert", "invalidate"}]
  /\ frames \in [Renderers -> 0 .. MaxFrames]
  /\ streaming \in BOOLEAN /\ invalid \in BOOLEAN
  /\ paint \in {"idle", "local", "remote", "StretchDIBits"}
  /\ painted \in [Renderers -> Pictures]

Init ==
  /\ bmi = [r \in Renderers |-> Initial] /\ image = [r \in Renderers |-> 0]
  /\ buffer_lock = [r \in Renderers |-> "none"]
  /\ frame = [r \in Renderers |-> [w |-> 1, h |-> 1]]
  /\ at = [r \in Renderers |-> "idle"] /\ frames = [r \in Renderers |-> 0]
  /\ streaming = FALSE /\ invalid = TRUE /\ paint = "idle" /\ painted = [r \in Renderers |-> Nothing]

-----------------------------------------------------------------------------
(* OnFrame on the decoder's thread of the renderer r; SetSize compares     *)
(* biHeight, which is negative, so that every frame has a new image.       *)
OnFrame(r) ==
  /\ at[r] = "idle" /\ frames[r] < MaxFrames /\ buffer_lock[r] = "none"
  /\ buffer_lock' = [buffer_lock EXCEPT ![r] = "decoder"]
  /\ \E s \in Sizes : frame' = [frame EXCEPT ![r] = s]
  /\ frames' = [frames EXCEPT ![r] = @ + 1] /\ at' = [at EXCEPT ![r] = "SetSize"]
  /\ UNCHANGED <<bmi, image, streaming, invalid, paint, painted>>

SetSize(r) ==
  /\ at[r] = "SetSize"
  /\ IF frame[r] = bmi[r]
     THEN at' = [at EXCEPT ![r] = "convert"] /\ UNCHANGED bmi
     ELSE at' = [at EXCEPT ![r] = "image"] /\ bmi' = [bmi EXCEPT ![r] = Bmi(frame[r])]
  /\ UNCHANGED <<image, buffer_lock, frame, frames, streaming, invalid, paint, painted>>

NewImage(r) ==
  /\ at[r] = "image" /\ at' = [at EXCEPT ![r] = "convert"]
  /\ image' = [image EXCEPT ![r] = Pixels(bmi[r])]
  /\ UNCHANGED <<bmi, buffer_lock, frame, frames, streaming, invalid, paint, painted>>

Convert(r) ==      \* and the lock is left
  /\ at[r] = "convert" /\ at' = [at EXCEPT ![r] = "invalidate"]
  /\ buffer_lock' = [buffer_lock EXCEPT ![r] = "none"]
  /\ UNCHANGED <<bmi, image, frame, frames, streaming, invalid, paint, painted>>

(* Mutant of Invalidate: the window is not told of the frame.              *)
InvalidateNothing(r) ==
  /\ at[r] = "invalidate" /\ at' = [at EXCEPT ![r] = "idle"]
  /\ UNCHANGED <<bmi, image, buffer_lock, frame, frames, streaming, invalid, paint, painted>>

Invalidate(r) ==
  /\ at[r] = "invalidate" /\ at' = [at EXCEPT ![r] = "idle"]
  /\ invalid' = TRUE
  /\ UNCHANGED <<bmi, image, buffer_lock, frame, frames, streaming, paint, painted>>

-----------------------------------------------------------------------------
BeginPaint ==
  /\ paint = "idle" /\ invalid /\ invalid' = FALSE
  /\ paint' = IF streaming THEN "local" ELSE "idle"
  /\ UNCHANGED <<bmi, image, buffer_lock, frame, at, frames, streaming, painted>>

Switch ==      \* of the user interface; the window is invalidated
  /\ paint = "idle" /\ streaming' = ~streaming /\ invalid' = TRUE
  /\ UNCHANGED <<bmi, image, buffer_lock, frame, at, frames, paint, painted>>

(* Mutant of LockBoth: the remote renderer is not locked.                  *)
LockLocal ==
  /\ paint = "local" /\ buffer_lock["local"] = "none" /\ paint' = "StretchDIBits"
  /\ buffer_lock' = [buffer_lock EXCEPT !["local"] = "window"]
  /\ UNCHANGED <<bmi, image, frame, at, frames, streaming, invalid, painted>>

LockBoth ==      \* the local renderer, then the remote one
  /\ \E r \in Renderers :
       /\ paint = r /\ buffer_lock[r] = "none"
       /\ buffer_lock' = [buffer_lock EXCEPT ![r] = "window"]
       /\ paint' = IF r = "local" THEN "remote" ELSE "StretchDIBits"
  /\ UNCHANGED <<bmi, image, frame, at, frames, streaming, invalid, painted>>

(* The frame in image_, once it is converted                               *)
Converted(r) == IF image[r] # 0 /\ at[r] \in {"invalidate", "idle"} THEN frames[r] ELSE 0

StretchDIBits ==      \* nothing without a remote image; and the locks are left
  /\ paint = "StretchDIBits" /\ paint' = "idle"
  /\ painted' = IF image["remote"] = 0 THEN painted
                ELSE [r \in Renderers |->
                        [bmi |-> bmi[r], image |-> image[r], frame |-> Converted(r)]]
  /\ buffer_lock' = [r \in Renderers |-> "none"]
  /\ UNCHANGED <<bmi, image, frame, at, frames, streaming, invalid>>

Decoder(r) == SetSize(r) \/ NewImage(r) \/ Convert(r) \/ Invalidate(r)
OnPaint == BeginPaint \/ LockBoth \/ StretchDIBits
Next == OnPaint \/ Switch \/ \E r \in Renderers : OnFrame(r) \/ Decoder(r)

Spec == Init /\ [][Next]_vars /\ WF_vars(OnPaint) /\ \A r \in Renderers : WF_vars(Decoder(r))

-----------------------------------------------------------------------------
(* What is painted has the size of its image: no bitmap is read past its   *)
(* end, whatever the decoders do meanwhile. A local renderer may have no   *)
(* image yet.                                                              *)
PaintsWholeImages == \A r \in Renderers : painted[r].image \in {0, Pixels(painted[r].bmi)}

(* A frame that was converted is painted in the end, or one that came      *)
(* later, a local one once there is a remote image to paint it on.         *)
FramePainted ==
  \A r \in Renderers, n \in 1 .. MaxFrames :
    (at[r] = "invalidate" /\ frames[r] = n /\ image["remote"] # 0)
      ~> (painted[r].frame >= n \/ ~streaming)

(* OnFrame never converts into an image that is not there                  *)
(* (RTC_DCHECK(image_.get() != NULL)) or that has another size.            *)
ConvertsInImage == \A r \in Renderers : at[r] = "convert" => image[r] = Pixels(Bmi(frame[r]))
=============================================================================
