------------------------------ MODULE Capture ------------------------------
(***************************************************************************)
(* The live picture: the capture device, the backend that keeps the newest *)
(* callback and converts it lazily, the capture service, and the two       *)
(* buttons that freeze one frame of it: TURN, which takes the frame of the *)
(* press, and NEW MATCH, which takes one that is newer than the press.     *)
(*                                                                         *)
(* Everything but the callback runs on the window's thread.  Time is       *)
(* counted in ticks of half a second; the preview timer, when it runs,     *)
(* fires many times in a tick.                                             *)
(***************************************************************************)
EXTENDS Naturals

CONSTANTS
  MaxTime,      \* bound: ticks
  MaxFrames,    \* bound: admitted callbacks of one run of the camera
  MaxRuns,      \* bound: times the camera is opened
  MaxAge,       \* oldest frame TURN accepts (TURN_SNAPSHOT_MAX_FRAME_AGE_MS)
  FreshFor      \* age at which a frame is stale (DEFAULT_FRAME_FRESHNESS_MS)

ASSUME CaptureAssumption ==
  /\ {MaxTime, MaxFrames, MaxRuns, MaxAge, FreshFor} \subseteq Nat
  /\ MaxAge < FreshFor

VARIABLES
  now,       \* the monotonic clock
  tab,       \* the tab in front; the preview timer runs on "record" only
  backend,   \* QtMultimediaUgreenBackend
  service,   \* CaptureService
  press      \* the button being handled, or handled last

captureVars == <<now, tab, backend, service, press>>

(***************************************************************************)
(* A callback's frame, and the packet made of it.  A packet is named by    *)
(* the run and the callback it comes from, converted at most once.         *)
(***************************************************************************)
NoFrame == [run |-> 0, number |-> 0]
IsFrame(f) == f.number > 0

Stopped(run) ==
  [running |-> FALSE, run |-> run, pending |-> NoFrame, sequence |-> 0,
   attempted |-> 0, latest |-> NoFrame]

NoCanonical == [source |-> NoFrame, canonical |-> NoFrame, status |-> "STOPPED"]

NoPress == [kind |-> "none", at |-> 0, sequence |-> 0, baseline |-> NoFrame,
            frame |-> NoFrame, busy |-> FALSE]

CaptureInit ==
  /\ now = 0
  /\ tab \in {"selection", "record"}
  /\ backend = Stopped(0)
  /\ service = NoCanonical
  /\ press = NoPress

----------------------------------------------------------------------------
(***************************************************************************)
(* get_latest_frame: the newest callback is converted once, whether that   *)
(* works or not; a failure leaves the older packet in place.               *)
(***************************************************************************)
Converted(b) ==
  IF ~IsFrame(b.pending) \/ b.sequence = b.attempted THEN b
  ELSE LET tried == [b EXCEPT !.attempted = b.sequence]
       IN IF b.pending.converts
          THEN [tried EXCEPT !.latest = [run |-> b.run, number |-> b.sequence,
                                         canonical |-> b.pending.canonical,
                                         shown |-> b.pending.shown, stamp |-> now]]
          ELSE tried

Latest(b) == IF IsFrame(b.pending) THEN b.latest ELSE NoFrame

Age(p) == now - p.stamp
StatusOf(p) == IF ~IsFrame(p) THEN "FRAME_UNAVAILABLE"
               ELSE IF Age(p) < FreshFor THEN "AVAILABLE" ELSE "FRAME_STALE"

(* _canonicalize_once: by the name of the packet, failures included. *)
Canonicalized(s, p) ==
  IF ~IsFrame(p) THEN s
  ELSE IF p = s.source THEN s
  ELSE [s EXCEPT !.source = p, !.canonical = IF p.canonical THEN p ELSE NoFrame]

CanonicalOf(s, p) == IF IsFrame(p) THEN s.canonical ELSE NoFrame

(* latest_snapshot: what a button reads, and what reading it leaves behind. *)
Snapshot ==
  IF ~backend.running
  THEN [backend |-> backend, service |-> service, status |-> service.status,
        frame |-> NoFrame]
  ELSE LET b == Converted(backend)
           s == Canonicalized(service, Latest(b))
           status == StatusOf(Latest(b))
       IN [backend |-> b, service |-> [s EXCEPT !.status = status],
           status |-> status, frame |-> CanonicalOf(s, Latest(b))]

Read(snapshot) == backend' = snapshot.backend /\ service' = snapshot.service

----------------------------------------------------------------------------
(***************************************************************************)
(* The device and the clock.                                               *)
(***************************************************************************)
Polled == tab = "record" /\ backend.running => backend.sequence = backend.attempted

Tick ==
  /\ now < MaxTime /\ Polled
  /\ now' = now + 1
  /\ UNCHANGED <<tab, backend, service, press>>

(* A callback the cadence cap admits; the others only count. *)
QtFrame(converts, canonical) ==
  /\ backend.running /\ backend.sequence < MaxFrames
  /\ backend' = [backend EXCEPT
       !.sequence = @ + 1,
       !.pending = [run |-> backend.run, number |-> backend.sequence + 1,
                    shown |-> now, converts |-> converts, canonical |-> canonical]]
  /\ UNCHANGED <<now, tab, service, press>>

OpenResults == {"opened", "DEVICE_UNAVAILABLE", "OPEN_FAILED", "CAPTURE_ERROR"}

(* The service stopped and started, as RECONNECT and the launch do. *)
StopCapture(b) == Stopped(b.run)

Reconnect(result) ==
  /\ ~press.busy /\ backend.run < MaxRuns
  /\ backend.run = 0 \/ tab = "record"
  /\ LET idle == StopCapture(backend) IN
     IF result = "opened"
     THEN /\ backend' = [idle EXCEPT !.running = TRUE, !.run = @ + 1]
          /\ service' = [NoCanonical EXCEPT !.status = "FRAME_UNAVAILABLE"]
     ELSE /\ backend' = idle
          /\ service' = [NoCanonical EXCEPT !.status = result]
  /\ UNCHANGED <<now, tab, press>>

----------------------------------------------------------------------------
(***************************************************************************)
(* The window.                                                             *)
(***************************************************************************)
PollPreview ==
  /\ ~press.busy /\ tab = "record" /\ backend.running
  /\ backend' = Converted(backend)
  /\ service' = [service EXCEPT !.status = StatusOf(Latest(Converted(backend)))]
  /\ UNCHANGED <<now, tab, press>>

(* A change of tab; the preview is drawn at once when its tab comes up. *)
ChangeTab ==
  /\ ~press.busy
  /\ tab' = IF tab = "record" THEN "selection" ELSE "record"
  /\ IF tab' = "record" /\ backend.running
     THEN /\ backend' = Converted(backend)
          /\ service' = [service EXCEPT !.status = StatusOf(Latest(Converted(backend)))]
     ELSE UNCHANGED <<backend, service>>
  /\ UNCHANGED <<now, press>>

(* _freeze_turn_frame: the frame of the press, or none. *)
AcceptsTurnFrame(s) ==
  /\ s.status = "AVAILABLE" /\ IsFrame(s.frame) /\ Age(s.frame) <= MaxAge

PressTurn ==
  /\ ~press.busy /\ tab = "record"
  /\ Read(Snapshot)
  /\ press' = [NoPress EXCEPT
       !.kind = "turn", !.at = now, !.sequence = backend.sequence,
       !.frame = IF AcceptsTurnFrame(Snapshot) THEN Snapshot.frame ELSE NoFrame]
  /\ UNCHANGED <<now, tab>>

(* NEW MATCH reads a baseline, creates the match, and reads again. *)
PressNewMatch ==
  /\ ~press.busy /\ tab = "selection"
  /\ Read(Snapshot)
  /\ press' = [NoPress EXCEPT !.kind = "match", !.at = now, !.busy = TRUE,
                              !.sequence = backend.sequence,
                              !.baseline = Snapshot.frame]
  /\ UNCHANGED <<now, tab>>

(* A mutant: any other frame than the baseline would do, or the same one. *)
IsNotOlder(p, baseline) == ~IsFrame(baseline) \/ p.stamp >= baseline.stamp

(***************************************************************************)
(* is_frame_newer_than.  The clock has nanoseconds: of two packets         *)
(* converted in one tick the later one has the later stamp.                *)
(***************************************************************************)
IsNewer(p, baseline) ==
  \/ ~IsFrame(baseline)
  \/ /\ <<p.run, p.number>> # <<baseline.run, baseline.number>>
     /\ p.stamp >= baseline.stamp

ReacquireFrame ==
  /\ press.busy
  /\ Read(Snapshot)
  /\ press' = [press EXCEPT
       !.busy = FALSE,
       !.frame = IF /\ Snapshot.status = "AVAILABLE" /\ IsFrame(Snapshot.frame)
                    /\ IsNewer(Snapshot.frame, press.baseline)
                 THEN Snapshot.frame ELSE NoFrame]
  /\ UNCHANGED <<now, tab>>

CaptureNext ==
  \/ Tick
  \/ \E converts, canonical \in BOOLEAN : QtFrame(converts, canonical)
  \/ \E result \in OpenResults : Reconnect(result)
  \/ PollPreview \/ ChangeTab
  \/ PressTurn \/ PressNewMatch \/ ReacquireFrame

CaptureSpec == CaptureInit /\ [][CaptureNext]_captureVars

----------------------------------------------------------------------------
(* Every packet in use was made by the backend in its present run or an    *)
(* earlier one, of a callback it counted, and never stamped in the future. *)
CaptureTypeOK ==
  /\ now \in 0..MaxTime /\ tab \in {"selection", "record"}
  /\ backend.sequence \in 0..MaxFrames /\ backend.attempted <= backend.sequence
  /\ service.status \in {"STOPPED", "FRAME_UNAVAILABLE", "AVAILABLE", "FRAME_STALE"}
                        \cup (OpenResults \ {"opened"})
  /\ \A p \in {backend.latest, service.source, service.canonical, press.frame,
               press.baseline} :
       IsFrame(p) => /\ p.run \in 1..backend.run /\ p.number \in 1..MaxFrames
                     /\ p.shown <= p.stamp /\ p.stamp <= now

(* A reconnected camera starts from nothing: no packet of the run before   *)
(* is shown, kept or canonical, also when the new run's first callback     *)
(* does not convert (the failure path returns the packet kept so far).     *)
FramesAreOfThisRun ==
  \A p \in {backend.latest, service.canonical} :
    IsFrame(p) => p.run = backend.run /\ backend.running

(* The screenshot of a new match shows the screen after NEW MATCH was      *)
(* pressed: the callback it was made of came after those of the press,     *)
(* although packets are stamped when converted and not when they come, and *)
(* although there may have been no baseline to compare with.               *)
NewMatchFrameIsNew ==
  press.kind = "match" /\ IsFrame(press.frame) =>
    press.frame.number > press.sequence /\ press.frame.shown >= press.at

(* No picture of an earlier run, or of before the press, is taken for the  *)
(* one on the screen.                                                      *)
FramesAreCurrent == FramesAreOfThisRun /\ NewMatchFrameIsNew

(* The frame TURN froze was on the screen at most MaxAge before the press. *)
(* A camera that stalled on the other tab breaks it: the frame is stamped  *)
(* when the tab comes up and the preview converts it.                      *)
TurnFrameIsOfThePress ==
  press.kind = "turn" /\ IsFrame(press.frame) =>
    press.at - press.frame.shown <= MaxAge
=============================================================================
