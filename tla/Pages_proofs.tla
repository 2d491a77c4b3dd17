---------------------------- MODULE Pages_proofs ----------------------------
(***************************************************************************)
(* What the pages of the window show and what their threads bring there:   *)
(* proofs about Capture, TurnWorkbench, SelectionBoard, TeamBuilds and     *)
(* RoiFeedback, for every number of runs, frames, turns, snapshots,        *)
(* matches, slots, names and images.                                       *)
(***************************************************************************)
EXTENDS Capture, TurnWorkbench, SelectionBoard, TeamBuilds, RoiFeedback, SequenceLemmas,
        TLAPS

-----------------------------------------------------------------------------
(***************************************************************************)
(* Capture: the frame on display is of the camera that is open.            *)
(***************************************************************************)
Statuses == {"STOPPED", "FRAME_UNAVAILABLE", "AVAILABLE", "FRAME_STALE", "DEVICE_UNAVAILABLE",
             "OPEN_FAILED", "CAPTURE_ERROR"}
Callbacks == [run : Nat, number : Nat \ {0}, shown : Nat, converts : BOOLEAN,
              canonical : BOOLEAN]
Packets == [run : Nat, number : Nat \ {0}, canonical : BOOLEAN, shown : Nat, stamp : Nat]
PacketOrNone == Packets \cup {NoFrame}
Backends == [running : BOOLEAN, run : Nat, pending : Callbacks \cup {NoFrame}, sequence : Nat,
             attempted : Nat, latest : PacketOrNone]
Services == [source : PacketOrNone, canonical : PacketOrNone, status : Statuses]
Presses == [kind : {"none", "turn", "match"}, at : Nat, sequence : Nat,
            baseline : PacketOrNone, frame : PacketOrNone, busy : BOOLEAN]

(* A packet of the backend's run, of a callback it has tried to convert.   *)
IsOfRun(p, b) ==
  /\ b.running /\ p.run = b.run /\ p.number <= b.attempted
  /\ p.shown <= p.stamp /\ p.stamp <= now

(* The newest callback is the one counted last.                            *)
BackendOK(b) ==
  /\ b \in Backends
  /\ b.attempted <= b.sequence /\ b.sequence <= MaxFrames
  /\ b.running => b.run >= 1
  /\ IF IsFrame(b.pending)
     THEN /\ b.running /\ b.pending.number = b.sequence /\ b.pending.shown <= now
          /\ b.pending.run = b.run
     ELSE b.sequence = 0
  /\ IsFrame(b.latest) => IsOfRun(b.latest, b)

ServiceOK(s, b) ==
  /\ s \in Services
  /\ IsFrame(s.source) => IsOfRun(s.source, b)
  /\ IsFrame(s.canonical) => s.canonical = s.source

(* A packet a button took, of this run of the camera or an earlier one.    *)
WasTaken(p) ==
  IsFrame(p) => /\ p.run \in 1..backend.run /\ p.number <= MaxFrames
                /\ p.shown <= p.stamp /\ p.stamp <= now

(* While NEW MATCH is handled: every callback of before the press has been *)
(* tried, and the service still holds the baseline for the newest packet.  *)
PressIsOpen ==
  /\ press.kind = "match"
  /\ backend.attempted = press.sequence
  /\ backend.sequence > press.sequence => backend.pending.shown >= press.at
  /\ backend.running /\ IsFrame(backend.latest) =>
       service.source = backend.latest /\ service.canonical = press.baseline

PressOK ==
  /\ press \in Presses /\ press.at <= now
  /\ WasTaken(press.frame) /\ WasTaken(press.baseline)
  /\ press.busy => PressIsOpen /\ press.frame = NoFrame

CaptureInv ==
  /\ now \in 0..MaxTime /\ tab \in {"selection", "record"}
  /\ BackendOK(backend) /\ ServiceOK(service, backend) /\ PressOK
  /\ NewMatchFrameIsNew

LEMMA NoFrameIsNone == ~IsFrame(NoFrame) /\ \A p \in Packets \cup Callbacks : IsFrame(p)
BY DEF IsFrame, NoFrame, Packets, Callbacks

(* Converting the newest callback. *)
LEMMA ConvertedIsOK ==
  ASSUME CaptureAssumption, now \in 0..MaxTime, NEW b, BackendOK(b)
  PROVE  /\ BackendOK(Converted(b))
         /\ Converted(b).attempted = b.sequence
         /\ Converted(b).sequence = b.sequence /\ Converted(b).run = b.run
         /\ Converted(b).running = b.running /\ Converted(b).pending = b.pending
         /\ \/ Converted(b).latest = b.latest
            \/ /\ Converted(b).latest.number = b.sequence
               /\ b.sequence > b.attempted
               /\ Converted(b).latest.shown = b.pending.shown
               /\ IsFrame(Converted(b).latest)
<1> DEFINE p == [run |-> b.run, number |-> b.sequence, canonical |-> b.pending.canonical,
                 shown |-> b.pending.shown, stamp |-> now]
           t == [b EXCEPT !.attempted = b.sequence]
           c == [t EXCEPT !.latest = p]
<1>1. /\ b \in Backends /\ now \in Nat /\ b.sequence \in Nat /\ b.attempted \in Nat
      /\ b.latest \in PacketOrNone /\ b.run \in Nat
  BY DEF BackendOK, Backends, CaptureAssumption
<1>2. CASE ~IsFrame(b.pending) \/ b.sequence = b.attempted
  <2>1. Converted(b) = b /\ b.attempted = b.sequence
    BY <1>1, <1>2 DEF Converted, BackendOK
  <2> QED
    BY <2>1
<1>3. CASE IsFrame(b.pending) /\ b.sequence # b.attempted
  <2>1. b.pending \in Callbacks /\ b.sequence > b.attempted /\ b.sequence # 0
    BY <1>1, <1>3, NoFrameIsNone DEF BackendOK, Backends
  <2>2. p \in Packets /\ p.number = b.sequence /\ p.run = b.run /\ p.shown = b.pending.shown
        /\ p.stamp = now
    BY <1>1, <2>1 DEF Packets, Callbacks
  <2>3. /\ t \in Backends /\ t.attempted = b.sequence /\ t.sequence = b.sequence
        /\ t.run = b.run /\ t.running = b.running /\ t.pending = b.pending
        /\ t.latest = b.latest
    BY <1>1 DEF Backends
  <2>4. Converted(b) = IF b.pending.converts THEN c ELSE t
    BY <1>3 DEF Converted
  <2> HIDE DEF p, t
  <2>5. /\ c \in Backends /\ c.attempted = b.sequence /\ c.sequence = b.sequence
        /\ c.run = b.run /\ c.running = b.running /\ c.pending = b.pending
        /\ c.latest = p
    BY <2>2, <2>3 DEF Backends, PacketOrNone
  <2> HIDE DEF c
  <2>6. BackendOK(t)
    BY <1>1, <1>3, <2>3 DEF BackendOK, IsOfRun, PacketOrNone, Packets, NoFrame, IsFrame
  <2>7. BackendOK(c) /\ IsFrame(p)
    BY <1>1, <1>3, <2>1, <2>2, <2>5, NoFrameIsNone DEF BackendOK, IsOfRun
  <2>8. CASE b.pending.converts
    BY <2>1, <2>2, <2>4, <2>5, <2>7, <2>8
  <2>9. CASE ~b.pending.converts
    BY <2>3, <2>4, <2>6, <2>9
  <2> QED
    BY <2>8, <2>9
<1> QED
  BY <1>2, <1>3

(* A packet of the run stays one when more callbacks are tried. *)
LEMMA LaterIsOK ==
  ASSUME NEW a, NEW b, BackendOK(a), BackendOK(b), b.run = a.run, b.running = a.running,
         a.attempted <= b.attempted
  PROVE  /\ \A p \in Packets : IsOfRun(p, a) => IsOfRun(p, b)
         /\ \A s : ServiceOK(s, a) => ServiceOK(s, b)
<1>1. a.attempted \in Nat /\ b.attempted \in Nat
  BY DEF BackendOK, Backends
<1>2. ASSUME NEW p \in Packets, IsOfRun(p, a)
      PROVE  IsOfRun(p, b)
  <2>1. p.number \in Nat
    BY DEF Packets
  <2>2. p.number <= b.attempted
    BY <1>1, <1>2, <2>1 DEF IsOfRun
  <2> QED
    BY <1>2, <2>2, Zenon DEF IsOfRun
<1>3. ASSUME NEW s, ServiceOK(s, a)
      PROVE  ServiceOK(s, b)
  <2>1. IsFrame(s.source) => s.source \in Packets
    BY <1>3, NoFrameIsNone DEF ServiceOK, Services, PacketOrNone
  <2> QED
    BY <1>2, <1>3, <2>1, Zenon DEF ServiceOK
<1> QED
  BY <1>2, <1>3

(* What the canonical packet becomes for the newest packet. *)
LEMMA CanonicalizedIsOK ==
  ASSUME NEW s, NEW b, ServiceOK(s, b), NEW p \in PacketOrNone, IsFrame(p) => IsOfRun(p, b)
  PROVE  LET c == Canonicalized(s, p) IN
         /\ ServiceOK(c, b)
         /\ IsFrame(p) => c.source = p /\ CanonicalOf(c, p) = c.canonical
         /\ (IsFrame(p) /\ s.source = p) => c = s
         /\ CanonicalOf(c, p) \in PacketOrNone
         /\ IsFrame(CanonicalOf(c, p)) => CanonicalOf(c, p) = p
<1> DEFINE c == Canonicalized(s, p)
           k == IF p.canonical THEN p ELSE NoFrame
<1>1. s \in Services
  BY DEF ServiceOK
<1>2. k \in PacketOrNone /\ (IsFrame(k) => k = p)
  BY NoFrameIsNone DEF PacketOrNone
<1>3. CASE ~IsFrame(p) \/ p = s.source
  <2>1. c = s
    BY <1>3 DEF Canonicalized
  <2> HIDE DEF c
  <2>2. s.canonical \in PacketOrNone /\ NoFrame \in PacketOrNone
    BY <1>1 DEF Services, PacketOrNone
  <2>3. IsFrame(s.canonical) => s.canonical = s.source
    BY DEF ServiceOK
  <2> QED
    BY <1>3, <2>1, <2>2, <2>3, NoFrameIsNone DEF CanonicalOf, c
<1>4. CASE IsFrame(p) /\ p # s.source
  <2>1. c = [s EXCEPT !.source = p, !.canonical = k]
    BY <1>4, Zenon DEF Canonicalized
  <2> HIDE DEF k, c
  <2>2. c \in Services /\ c.source = p /\ c.canonical = k
    BY <1>1, <1>2, <2>1 DEF Services
  <2>3. ServiceOK(c, b) /\ CanonicalOf(c, p) = k
    BY <1>2, <1>4, <2>2 DEF ServiceOK, CanonicalOf
  <2> QED
    BY <1>2, <1>4, <2>2, <2>3 DEF c
<1> QED
  BY <1>3, <1>4

(* The packet returned is the newest one: there is none without a callback. *)
LEMMA LatestIsNewest ==
  ASSUME NEW b, BackendOK(b)
  PROVE  Latest(b) = b.latest /\ b.latest \in PacketOrNone
<1>1. b.latest \in PacketOrNone /\ b.sequence \in Nat /\ b.attempted \in Nat
  BY DEF BackendOK, Backends
<1>2. CASE ~IsFrame(b.pending)
  <2>1. b.attempted = 0
    BY <1>1, <1>2 DEF BackendOK
  <2>2. ~IsFrame(b.latest)
    <3>1. SUFFICES ASSUME b.latest \in Packets
                   PROVE  ~IsFrame(b.latest)
      BY <1>1, NoFrameIsNone DEF PacketOrNone
    <3>2. b.latest.number > 0
      BY <3>1 DEF Packets
    <3> QED
      <4>1. ASSUME IsFrame(b.latest)
            PROVE  FALSE
        BY <1>1, <2>1, <3>1, <3>2, <4>1 DEF BackendOK, IsOfRun, Packets
      <4> QED
        BY <4>1
  <2>3. b.latest = NoFrame
    BY <1>1, <2>2, NoFrameIsNone DEF PacketOrNone
  <2> QED
    BY <1>1, <1>2, <2>3 DEF Latest
<1> QED
  BY <1>1, <1>2 DEF Latest

(* What a button reads, while the camera runs. *)
LEMMA SnapshotIsOK ==
  ASSUME CaptureAssumption, CaptureInv, backend.running
  PROVE  /\ Snapshot.backend = Converted(backend)
         /\ ServiceOK(Snapshot.service, Snapshot.backend)
         /\ Snapshot.frame \in PacketOrNone
         /\ IsFrame(Snapshot.frame) => Snapshot.frame = Snapshot.backend.latest
         /\ IsFrame(Snapshot.backend.latest) =>
              /\ Snapshot.service.source = Snapshot.backend.latest
              /\ Snapshot.service.canonical = Snapshot.frame
         /\ (IsFrame(Snapshot.backend.latest) /\ service.source = Snapshot.backend.latest) =>
              Snapshot.frame = service.canonical
<1>1. PICK b : b = Converted(backend)
  OBVIOUS
<1>2. BackendOK(backend) /\ ServiceOK(service, backend)
  BY DEF CaptureInv
<1>3. BackendOK(b) /\ b.running = backend.running
  BY <1>1, <1>2, ConvertedIsOK DEF CaptureInv
<1>4. ServiceOK(service, b)
  <2>1. b.run = backend.run /\ b.attempted = backend.sequence
    BY <1>1, <1>2, ConvertedIsOK DEF CaptureInv
  <2>2. backend.attempted <= b.attempted
    BY <1>2, <2>1 DEF BackendOK
  <2> QED
    BY <1>2, <1>3, <2>1, <2>2, LaterIsOK
<1>5. PICK p : p = b.latest
  OBVIOUS
<1>6. Latest(b) = p /\ p \in PacketOrNone /\ (IsFrame(p) => IsOfRun(p, b))
  BY <1>3, <1>5, LatestIsNewest DEF BackendOK
<1>7. PICK s : s = Canonicalized(service, p)
  OBVIOUS
<1>8. PICK x : x = StatusOf(p)
  OBVIOUS
<1>9. x \in Statuses
  BY <1>8 DEF StatusOf, Statuses
<1>10. PICK f : f = CanonicalOf(s, p)
  OBVIOUS
<1>11. /\ ServiceOK(s, b) /\ f \in PacketOrNone
       /\ IsFrame(f) => f = p
       /\ IsFrame(p) => s.source = p /\ f = s.canonical
       /\ (IsFrame(p) /\ service.source = p) => s = service
  BY <1>4, <1>6, <1>7, <1>10, CanonicalizedIsOK
<1>12. PICK r : r = [s EXCEPT !.status = x]
  OBVIOUS
<1>13. r.source = s.source /\ r.canonical = s.canonical /\ ServiceOK(r, b)
  <2>1. s \in Services
    BY <1>11 DEF ServiceOK
  <2>2. r \in Services /\ r.source = s.source /\ r.canonical = s.canonical
    BY <1>9, <1>12, <2>1 DEF Services
  <2> QED
    BY <1>11, <2>2 DEF ServiceOK
<1>14. Snapshot = [backend |-> b, service |-> r, status |-> x, frame |-> f]
  BY <1>1, <1>6, <1>7, <1>8, <1>10, <1>12, Zenon DEF Snapshot
<1>15. Snapshot.backend = b /\ Snapshot.service = r /\ Snapshot.frame = f
  BY <1>14
<1> QED
  BY <1>1, <1>5, <1>11, <1>13, <1>15, Zenon

----------------------------------------------------------------------------
(***************************************************************************)
(* The invariant is inductive.                                             *)
(***************************************************************************)
LEMMA TypesOfCapture ==
  ASSUME CaptureAssumption, CaptureInv
  PROVE  /\ now \in Nat /\ now <= MaxTime /\ MaxTime \in Nat /\ MaxFrames \in Nat
         /\ backend \in Backends /\ backend.run \in Nat
         /\ backend.sequence \in Nat /\ backend.attempted \in Nat
         /\ service \in Services /\ press \in Presses
         /\ press.at \in Nat /\ press.sequence \in Nat
         /\ press.frame \in PacketOrNone /\ press.baseline \in PacketOrNone
BY DEF CaptureAssumption, CaptureInv, BackendOK, ServiceOK, PressOK, Backends, Presses

LEMMA ReadingIsKept ==
  ASSUME NEW b, NEW s, now' = now, backend' = b, service' = s, BackendOK(b), ServiceOK(s, b)
  PROVE  BackendOK(backend)' /\ ServiceOK(service, backend)'
BY DEF BackendOK, ServiceOK, IsOfRun

(* A press that is over stays as it was, whatever the camera does next.    *)
LEMMA ClosedPress ==
  ASSUME CaptureAssumption, CaptureInv, ~press.busy, UNCHANGED press, now' \in Nat, now <= now',
         backend'.run \in Nat, backend.run <= backend'.run
  PROVE  PressOK' /\ NewMatchFrameIsNew'
<1>1. ASSUME NEW p \in PacketOrNone, WasTaken(p), IsFrame(p)
      PROVE  /\ p.run \in 1..backend'.run /\ p.number <= MaxFrames
             /\ p.shown <= p.stamp /\ p.stamp <= now'
  <2>1. p \in Packets
    BY <1>1, NoFrameIsNone DEF PacketOrNone
  <2> QED
    BY <1>1, <2>1, TypesOfCapture DEF WasTaken, Packets
<1>2. WasTaken(press.frame)' /\ WasTaken(press.baseline)'
  BY <1>1, TypesOfCapture DEF WasTaken, CaptureInv, PressOK
<1>3. press' \in Presses /\ press'.at <= now'
  BY TypesOfCapture DEF CaptureInv, PressOK
<1> QED
  BY <1>2, <1>3 DEF PressOK, CaptureInv, NewMatchFrameIsNew

LEMMA InitialCapture ==
  ASSUME CaptureAssumption, CaptureInit
  PROVE  CaptureInv
<1>1. now = 0 /\ tab \in {"selection", "record"} /\ 0 \in 0..MaxTime
  BY DEF CaptureInit, CaptureAssumption
<1>2. /\ backend.running = FALSE /\ backend.run = 0 /\ backend.pending = NoFrame
      /\ backend.sequence = 0 /\ backend.attempted = 0 /\ backend.latest = NoFrame
      /\ backend \in Backends
  BY DEF CaptureInit, Stopped, Backends, PacketOrNone
<1>3. BackendOK(backend)
  BY <1>2, NoFrameIsNone DEF BackendOK, CaptureAssumption
<1>4. ServiceOK(service, backend)
  <2>1. service.source = NoFrame /\ service.canonical = NoFrame /\ service \in Services
    BY DEF CaptureInit, NoCanonical, Services, PacketOrNone, Statuses
  <2> QED
    BY <2>1, NoFrameIsNone DEF ServiceOK
<1>5. PressOK /\ NewMatchFrameIsNew
  <2>1. /\ press \in Presses /\ press.at = 0 /\ press.frame = NoFrame
        /\ press.baseline = NoFrame /\ press.busy = FALSE /\ press.kind = "none"
    BY DEF CaptureInit, NoPress, Presses, PacketOrNone
  <2> QED
    BY <1>1, <2>1, NoFrameIsNone DEF PressOK, WasTaken, NewMatchFrameIsNew
<1> QED
  BY <1>1, <1>3, <1>4, <1>5 DEF CaptureInv

LEMMA TickKeepsCapture ==
  ASSUME CaptureAssumption, CaptureInv, Tick
  PROVE  CaptureInv'
<1>1. now' = now + 1 /\ now' \in 0..MaxTime /\ UNCHANGED <<tab, backend, service, press>>
  BY TypesOfCapture DEF Tick
<1>2. ASSUME NEW p \in Packets, IsOfRun(p, backend)
      PROVE  p.stamp <= now'
  BY <1>1, <1>2, TypesOfCapture DEF IsOfRun, Packets
<1>3. BackendOK(backend)'
  <2>1. BackendOK(backend)
    BY DEF CaptureInv
  <2>2. IsFrame(backend.latest) => backend.latest \in Packets
    BY NoFrameIsNone, TypesOfCapture DEF Backends, PacketOrNone
  <2>3. IsFrame(backend.pending) => backend.pending.shown <= now'
    <3>1. IsFrame(backend.pending) => backend.pending \in Callbacks
      BY NoFrameIsNone, TypesOfCapture DEF Backends
    <3> QED
      BY <1>1, <2>1, <3>1, TypesOfCapture DEF BackendOK, Callbacks
  <2> QED
    BY <1>1, <1>2, <2>1, <2>2, <2>3 DEF BackendOK, IsOfRun
<1>4. ServiceOK(service, backend)'
  <2>1. ServiceOK(service, backend)
    BY DEF CaptureInv
  <2>2. IsFrame(service.source) => service.source \in Packets
    BY NoFrameIsNone, TypesOfCapture DEF Services, PacketOrNone
  <2> QED
    BY <1>1, <1>2, <2>1, <2>2 DEF ServiceOK, IsOfRun
<1>5. PressOK' /\ NewMatchFrameIsNew'
  <2>1. CASE ~press.busy
    BY <1>1, <2>1, ClosedPress, TypesOfCapture
  <2>2. CASE press.busy
    <3>1. PressIsOpen' /\ press'.frame = NoFrame
      BY <1>1, <2>2 DEF CaptureInv, PressOK, PressIsOpen
    <3>2. WasTaken(press.baseline)'
      <4>1. SUFFICES ASSUME IsFrame(press.baseline)
                     PROVE  WasTaken(press.baseline)'
        BY <1>1 DEF WasTaken
      <4>2. press.baseline \in Packets /\ WasTaken(press.baseline)
        BY <4>1, NoFrameIsNone, TypesOfCapture DEF PacketOrNone, CaptureInv, PressOK
      <4>3. press.baseline.stamp <= now'
        BY <1>1, <4>1, <4>2, TypesOfCapture DEF WasTaken, Packets
      <4> QED
        BY <1>1, <4>2, <4>3 DEF WasTaken
    <3>3. press'.at <= now' /\ press' \in Presses
      BY <1>1, TypesOfCapture DEF CaptureInv, PressOK
    <3> QED
      BY <1>1, <3>1, <3>2, <3>3, NoFrameIsNone DEF PressOK, WasTaken, NewMatchFrameIsNew
  <2> QED
    BY <2>1, <2>2
<1> QED
  BY <1>1, <1>3, <1>4, <1>5 DEF CaptureInv

LEMMA QtFrameKeepsCapture ==
  ASSUME CaptureAssumption, CaptureInv, NEW converts \in BOOLEAN, NEW canonical \in BOOLEAN,
         QtFrame(converts, canonical)
  PROVE  CaptureInv'
<1> DEFINE c == [run |-> backend.run, number |-> backend.sequence + 1, shown |-> now,
                 converts |-> converts, canonical |-> canonical]
<1>1. /\ backend.running /\ backend.sequence < MaxFrames /\ UNCHANGED <<now, tab, service, press>>
      /\ backend' = [backend EXCEPT !.sequence = backend.sequence + 1, !.pending = c]
  BY Zenon DEF QtFrame
<1>2. /\ c \in Callbacks /\ c.run = backend.run /\ c.number = backend.sequence + 1
      /\ c.shown = now
  BY TypesOfCapture DEF Callbacks
<1> HIDE DEF c
<1>3. IsFrame(c)
  BY <1>2, NoFrameIsNone
<1>4. /\ backend'.sequence = backend.sequence + 1 /\ backend'.pending = c
      /\ backend'.running = backend.running /\ backend'.run = backend.run
      /\ backend'.attempted = backend.attempted /\ backend'.latest = backend.latest
      /\ backend' \in Backends
  <2>1. backend \in Backends /\ backend.sequence + 1 \in Nat
    BY TypesOfCapture
  <2>2. /\ backend'.sequence = backend.sequence + 1 /\ backend'.pending = c
        /\ backend'.run = backend.run /\ backend'.attempted = backend.attempted
        /\ backend'.latest = backend.latest
    BY <1>1, <2>1 DEF Backends
  <2>3. backend'.running = backend.running
    BY <1>1, <2>1 DEF Backends
  <2>4. backend' \in Backends
    BY <1>1, <1>2, <2>1 DEF Backends
  <2> QED
    BY <2>2, <2>3, <2>4
<1>5. BackendOK(backend)'
  <2>1. backend.attempted <= backend.sequence /\ backend.run >= 1
    BY <1>1 DEF CaptureInv, BackendOK
  <2>2. backend'.attempted <= backend'.sequence /\ backend'.sequence <= MaxFrames
    BY <1>1, <1>4, <2>1, TypesOfCapture
  <2>3. IsFrame(backend.latest) => IsOfRun(backend.latest, backend)
    BY DEF CaptureInv, BackendOK
  <2> QED
    BY <1>1, <1>2, <1>3, <1>4, <2>1, <2>2, <2>3, TypesOfCapture DEF BackendOK, IsOfRun
<1>6. ServiceOK(service, backend)'
  <2>1. IsFrame(service.source) => IsOfRun(service.source, backend)'
    BY <1>1, <1>4 DEF CaptureInv, ServiceOK, IsOfRun
  <2>2. service' = service /\ ServiceOK(service, backend)
    BY <1>1 DEF CaptureInv
  <2> QED
    BY <2>1, <2>2 DEF ServiceOK
<1>7. PressOK' /\ NewMatchFrameIsNew'
  <2>1. CASE ~press.busy
    BY <1>1, <1>4, <2>1, ClosedPress, TypesOfCapture
  <2>2. CASE press.busy
    <3>1. PressIsOpen /\ press.frame = NoFrame /\ press.at <= now
      BY <2>2 DEF CaptureInv, PressOK
    <3>2. PressIsOpen'
      BY <1>1, <1>2, <1>4, <3>1 DEF PressIsOpen
    <3>3. WasTaken(press.frame)' /\ WasTaken(press.baseline)'
      BY <1>1, <1>4 DEF CaptureInv, PressOK, WasTaken
    <3>4. press' \in Presses /\ press'.at <= now' /\ NewMatchFrameIsNew'
      BY <1>1, <3>1, TypesOfCapture DEF CaptureInv, NewMatchFrameIsNew
    <3> QED
      BY <1>1, <3>1, <3>2, <3>3, <3>4 DEF PressOK
  <2> QED
    BY <2>1, <2>2
<1> QED
  BY <1>1, <1>5, <1>6, <1>7 DEF CaptureInv

LEMMA ReconnectKeepsCapture ==
  ASSUME CaptureAssumption, CaptureInv, NEW result \in OpenResults, Reconnect(result)
  PROVE  CaptureInv'
<1>1. ~press.busy /\ UNCHANGED <<now, tab, press>>
  BY DEF Reconnect
<1> DEFINE idle == StopCapture(backend)
<1>2. /\ idle \in Backends /\ idle.running = FALSE /\ idle.run = backend.run
      /\ idle.pending = NoFrame /\ idle.sequence = 0 /\ idle.attempted = 0
      /\ idle.latest = NoFrame
  BY TypesOfCapture DEF StopCapture, Stopped, Backends, PacketOrNone
<1>3. \/ backend' = [idle EXCEPT !.running = TRUE, !.run = idle.run + 1]
      \/ backend' = idle
  BY Zenon DEF Reconnect
<1>4. \E x \in Statuses : service' = [NoCanonical EXCEPT !.status = x]
  BY DEF Reconnect, OpenResults, Statuses
<1> HIDE DEF idle
<1>5. /\ backend' \in Backends /\ backend'.pending = NoFrame /\ backend'.sequence = 0
      /\ backend'.attempted = 0 /\ backend'.latest = NoFrame
      /\ backend'.running => backend'.run >= 1
      /\ backend'.run \in Nat /\ backend'.run >= backend.run
  <2>1. CASE backend' = idle
    BY <1>2, <2>1, TypesOfCapture
  <2>2. CASE backend' = [idle EXCEPT !.running = TRUE, !.run = idle.run + 1]
    <3>1. idle.run + 1 \in Nat /\ idle.run + 1 >= backend.run /\ idle.run + 1 >= 1
      BY <1>2, TypesOfCapture
    <3>2. /\ backend'.pending = NoFrame /\ backend'.sequence = 0 /\ backend'.attempted = 0
          /\ backend'.latest = NoFrame /\ backend'.run = idle.run + 1
      BY <1>2, <2>2 DEF Backends
    <3>3. backend' \in Backends
      BY <1>2, <2>2, <3>1 DEF Backends
    <3> QED
      BY <3>1, <3>2, <3>3
  <2> QED
    BY <1>3, <2>1, <2>2
<1>6. service' \in Services /\ service'.source = NoFrame /\ service'.canonical = NoFrame
  BY <1>4 DEF NoCanonical, Services, PacketOrNone
<1>7. BackendOK(backend)'
  BY <1>1, <1>5, NoFrameIsNone, TypesOfCapture DEF BackendOK
<1>8. ServiceOK(service, backend)'
  BY <1>6, NoFrameIsNone DEF ServiceOK
<1>9. PressOK' /\ NewMatchFrameIsNew'
  BY <1>1, <1>5, ClosedPress, TypesOfCapture
<1> QED
  BY <1>1, <1>7, <1>8, <1>9 DEF CaptureInv

(* The preview polls. *)
LEMMA PolledIsOK ==
  ASSUME CaptureAssumption, CaptureInv, now' = now, backend' = Converted(backend),
         service' = [service EXCEPT !.status = StatusOf(Latest(Converted(backend)))]
  PROVE  BackendOK(backend)' /\ ServiceOK(service, backend)' /\ backend'.run = backend.run
<1>1. PICK b : b = Converted(backend)
  OBVIOUS
<1>2. PICK x : x = StatusOf(Latest(b))
  OBVIOUS
<1>3. x \in Statuses
  BY <1>2 DEF StatusOf, Statuses
<1>4. PICK s : s = [service EXCEPT !.status = x]
  OBVIOUS
<1>5. s \in Services /\ s.source = service.source /\ s.canonical = service.canonical
  BY <1>3, <1>4, TypesOfCapture DEF Services
<1>6. BackendOK(backend) /\ ServiceOK(service, backend)
  BY DEF CaptureInv
<1>7. /\ BackendOK(b) /\ b.running = backend.running /\ b.run = backend.run
      /\ backend.attempted <= b.attempted
  BY <1>1, <1>6, ConvertedIsOK DEF CaptureInv, BackendOK
<1>8. ServiceOK(service, b)
  BY <1>6, <1>7, LaterIsOK
<1>9. ServiceOK(s, b)
  BY <1>5, <1>8 DEF ServiceOK
<1> QED
  BY <1>1, <1>2, <1>4, <1>7, <1>9, ReadingIsKept

LEMMA PollKeepsCapture ==
  ASSUME CaptureAssumption, CaptureInv, PollPreview \/ ChangeTab
  PROVE  CaptureInv'
<1>1. ~press.busy /\ UNCHANGED <<now, press>> /\ tab' \in {"selection", "record"}
  BY DEF PollPreview, ChangeTab, CaptureInv
<1>2. \/ /\ backend' = Converted(backend)
         /\ service' = [service EXCEPT !.status = StatusOf(Latest(Converted(backend)))]
      \/ UNCHANGED <<backend, service>>
  BY DEF PollPreview, ChangeTab
<1>3. BackendOK(backend)' /\ ServiceOK(service, backend)' /\ backend'.run = backend.run
  <2>1. CASE UNCHANGED <<backend, service>>
    BY <1>1, <2>1 DEF CaptureInv, BackendOK, ServiceOK, IsOfRun
  <2> QED
    BY <1>1, <1>2, <2>1, PolledIsOK
<1>4. PressOK' /\ NewMatchFrameIsNew'
  BY <1>1, <1>3, ClosedPress, TypesOfCapture
<1> QED
  BY <1>1, <1>3, <1>4 DEF CaptureInv

(* What a button has read, and how far the backend got. *)
LEMMA ReadIsOK ==
  ASSUME CaptureAssumption, CaptureInv, now' = now, Read(Snapshot)
  PROVE  /\ BackendOK(backend)' /\ ServiceOK(service, backend)'
         /\ backend'.run = backend.run /\ backend'.running = backend.running
         /\ backend'.sequence = backend.sequence /\ backend'.attempted = backend.sequence
         /\ backend'.pending = backend.pending
         /\ Snapshot.frame \in PacketOrNone
         /\ IsFrame(Snapshot.frame) =>
              /\ backend.running /\ IsOfRun(Snapshot.frame, backend')
              /\ Snapshot.frame = backend'.latest
         /\ backend.running /\ IsFrame(backend'.latest) =>
              /\ service'.source = backend'.latest /\ service'.canonical = Snapshot.frame
              /\ service.source = backend'.latest => Snapshot.frame = service.canonical
         /\ \/ backend'.latest = backend.latest
            \/ /\ backend'.latest.number = backend.sequence
               /\ backend.sequence > backend.attempted
               /\ backend'.latest.shown = backend.pending.shown
<1>1. BackendOK(backend) /\ ServiceOK(service, backend)
  BY DEF CaptureInv
<1>2. CASE backend.running
  <2>1. PICK b : b = Converted(backend)
    OBVIOUS
  <2>2. PICK s : s = Snapshot.service
    OBVIOUS
  <2>3. backend' = b /\ service' = s
    BY <1>2, <2>1, <2>2, SnapshotIsOK DEF Read
  <2>4. BackendOK(b) /\ ServiceOK(s, b)
    BY <1>1, <1>2, <2>1, <2>2, SnapshotIsOK, ConvertedIsOK DEF CaptureInv
  <2>5. BackendOK(backend)' /\ ServiceOK(service, backend)'
    BY <2>3, <2>4, ReadingIsKept
  <2>6. IsFrame(b.latest) => IsOfRun(b.latest, b)
    BY <2>4 DEF BackendOK
  <2>7. /\ b.run = backend.run /\ b.running = backend.running
        /\ b.sequence = backend.sequence /\ b.attempted = backend.sequence
        /\ b.pending = backend.pending
        /\ \/ b.latest = backend.latest
           \/ /\ b.latest.number = backend.sequence
              /\ backend.sequence > backend.attempted
              /\ b.latest.shown = backend.pending.shown
    BY <1>1, <2>1, ConvertedIsOK DEF CaptureInv
  <2>8. /\ Snapshot.frame \in PacketOrNone
        /\ IsFrame(Snapshot.frame) => Snapshot.frame = b.latest
        /\ IsFrame(b.latest) => s.source = b.latest /\ s.canonical = Snapshot.frame
        /\ (IsFrame(b.latest) /\ service.source = b.latest) =>
              Snapshot.frame = service.canonical
    BY <1>2, <2>1, <2>2, SnapshotIsOK
  <2> QED
    BY <1>2, <2>3, <2>5, <2>6, <2>7, <2>8
<1>3. CASE ~backend.running
  <2>1. Snapshot = [backend |-> backend, service |-> service, status |-> service.status,
                    frame |-> NoFrame]
    BY <1>3 DEF Snapshot
  <2>2. backend' = backend /\ service' = service /\ Snapshot.frame = NoFrame
    BY <2>1 DEF Read
  <2>3. BackendOK(backend)' /\ ServiceOK(service, backend)'
    BY <1>1, <2>2 DEF BackendOK, ServiceOK, IsOfRun
  <2>4. backend.attempted = backend.sequence
    BY <1>1, <1>3, TypesOfCapture DEF BackendOK
  <2> QED
    BY <1>3, <2>2, <2>3, <2>4, NoFrameIsNone DEF PacketOrNone
<1> QED
  BY <1>2, <1>3

(* What is read of the run at hand was taken. *)
LEMMA ReadIsTaken ==
  ASSUME CaptureAssumption, CaptureInv, now' = now, Read(Snapshot)
  PROVE  IsFrame(Snapshot.frame) =>
           /\ Snapshot.frame.run \in 1..backend'.run /\ Snapshot.frame.number <= MaxFrames
           /\ Snapshot.frame.shown <= Snapshot.frame.stamp /\ Snapshot.frame.stamp <= now
<1>1. SUFFICES ASSUME IsFrame(Snapshot.frame)
               PROVE  /\ Snapshot.frame.run \in 1..backend'.run
                      /\ Snapshot.frame.number <= MaxFrames
                      /\ Snapshot.frame.shown <= Snapshot.frame.stamp
                      /\ Snapshot.frame.stamp <= now
  OBVIOUS
<1>2. PICK p : p = Snapshot.frame
  OBVIOUS
<1>3. /\ p \in Packets /\ backend.running /\ p.run = backend'.run
      /\ p.number <= backend.sequence
      /\ p.shown <= p.stamp /\ p.stamp <= now /\ backend'.run = backend.run
  BY <1>1, <1>2, ReadIsOK, NoFrameIsNone DEF IsOfRun, PacketOrNone
<1>4. backend.run >= 1 /\ backend.sequence <= MaxFrames
  BY <1>3 DEF CaptureInv, BackendOK
<1>5. p.number <= MaxFrames /\ p.run \in 1..backend'.run
  BY <1>3, <1>4, TypesOfCapture DEF Packets
<1> QED
  BY <1>2, <1>3, <1>5

LEMMA TurnPressKeepsCapture ==
  ASSUME CaptureAssumption, CaptureInv, PressTurn
  PROVE  CaptureInv'
<1> DEFINE f == IF AcceptsTurnFrame(Snapshot) THEN Snapshot.frame ELSE NoFrame
<1>1. /\ UNCHANGED <<now, tab>> /\ Read(Snapshot)
      /\ press' = [NoPress EXCEPT !.kind = "turn", !.at = now, !.sequence = backend.sequence,
                                  !.frame = f]
  BY Zenon DEF PressTurn
<1>2. Snapshot.frame \in PacketOrNone /\ BackendOK(backend)' /\ ServiceOK(service, backend)'
  BY <1>1, ReadIsOK
<1>3. f \in PacketOrNone /\ (IsFrame(f) => f = Snapshot.frame)
  BY <1>2, NoFrameIsNone DEF PacketOrNone
<1> HIDE DEF f
<1>4. /\ press' \in Presses /\ press'.kind = "turn" /\ press'.at = now /\ press'.frame = f
      /\ press'.baseline = NoFrame /\ press'.busy = FALSE
  BY <1>1, <1>3, TypesOfCapture DEF NoPress, Presses, PacketOrNone
<1>5. WasTaken(press.frame)'
  BY <1>1, <1>3, <1>4, ReadIsTaken DEF WasTaken
<1>6. PressOK' /\ NewMatchFrameIsNew'
  BY <1>1, <1>4, <1>5, NoFrameIsNone, TypesOfCapture DEF PressOK, WasTaken, NewMatchFrameIsNew
<1> QED
  BY <1>1, <1>2, <1>6 DEF CaptureInv

LEMMA NewMatchKeepsCapture ==
  ASSUME CaptureAssumption, CaptureInv, PressNewMatch
  PROVE  CaptureInv'
<1>1. /\ UNCHANGED <<now, tab>> /\ Read(Snapshot)
      /\ press' = [NoPress EXCEPT !.kind = "match", !.at = now, !.busy = TRUE,
                                  !.sequence = backend.sequence, !.baseline = Snapshot.frame]
  BY Zenon DEF PressNewMatch
<1>2. Snapshot.frame \in PacketOrNone /\ BackendOK(backend)' /\ ServiceOK(service, backend)'
  BY <1>1, ReadIsOK
<1>3. PICK f : f = Snapshot.frame
  OBVIOUS
<1>4. /\ press' \in Presses /\ press'.kind = "match" /\ press'.at = now
      /\ press'.frame = NoFrame /\ press'.baseline = f /\ press'.busy = TRUE
      /\ press'.sequence = backend.sequence
  BY <1>1, <1>2, <1>3, TypesOfCapture DEF NoPress, Presses, PacketOrNone
<1>5. WasTaken(press.frame)' /\ WasTaken(press.baseline)'
  BY <1>1, <1>3, <1>4, NoFrameIsNone, ReadIsTaken DEF WasTaken
<1>6. PressIsOpen'
  <2>1. backend'.attempted = press'.sequence /\ backend'.sequence = press'.sequence
        /\ backend'.running = backend.running
    BY <1>1, <1>4, ReadIsOK
  <2>2. ASSUME backend.running, IsFrame(backend'.latest)
        PROVE  service'.source = backend'.latest /\ service'.canonical = press'.baseline
    BY <1>1, <1>3, <1>4, <2>2, ReadIsOK
  <2>3. ~(backend'.sequence > press'.sequence)
    BY <1>4, <2>1, TypesOfCapture
  <2> QED
    BY <1>4, <2>1, <2>2, <2>3 DEF PressIsOpen
<1>7. PressOK' /\ NewMatchFrameIsNew'
  BY <1>1, <1>4, <1>5, <1>6, NoFrameIsNone, TypesOfCapture DEF PressOK, NewMatchFrameIsNew
<1> QED
  BY <1>1, <1>2, <1>7 DEF CaptureInv

(***************************************************************************)
(* What NEW MATCH takes: either a callback that came after the press was   *)
(* converted since, or the newest packet is still the one of the press,    *)
(* which is the baseline or has no canonical form.                         *)
(***************************************************************************)
LEMMA ReacquireKeepsCapture ==
  ASSUME CaptureAssumption, CaptureInv, ReacquireFrame
  PROVE  CaptureInv'
<1> DEFINE f == IF /\ Snapshot.status = "AVAILABLE" /\ IsFrame(Snapshot.frame)
                   /\ IsNewer(Snapshot.frame, press.baseline)
                THEN Snapshot.frame ELSE NoFrame
<1>1. /\ UNCHANGED <<now, tab>> /\ Read(Snapshot) /\ press.busy
      /\ press' = [press EXCEPT !.busy = FALSE, !.frame = f]
  BY Zenon DEF ReacquireFrame
<1>2. Snapshot.frame \in PacketOrNone /\ BackendOK(backend)' /\ ServiceOK(service, backend)'
  BY <1>1, ReadIsOK
<1>3. /\ f \in PacketOrNone
      /\ IsFrame(f) => f = Snapshot.frame /\ IsNewer(f, press.baseline)
  BY <1>2, NoFrameIsNone DEF PacketOrNone
<1> HIDE DEF f
<1>4. press \in Presses
  BY TypesOfCapture
<1>5. /\ press' \in Presses /\ press'.kind = press.kind /\ press'.at = press.at
      /\ press'.frame = f /\ press'.baseline = press.baseline /\ press'.busy = FALSE
      /\ press'.sequence = press.sequence
  BY <1>1, <1>3, <1>4 DEF Presses
<1>6. PressIsOpen /\ press.at <= now /\ WasTaken(press.baseline)
  BY <1>1 DEF CaptureInv, PressOK
<1>7. WasTaken(press.frame)' /\ WasTaken(press.baseline)'
  <2>1. WasTaken(press.frame)'
    BY <1>1, <1>3, <1>5, ReadIsTaken DEF WasTaken
  <2>2. backend'.run = backend.run
    BY <1>1, ReadIsOK
  <2> QED
    BY <1>1, <1>5, <1>6, <2>1, <2>2 DEF WasTaken
<1>8. NewMatchFrameIsNew'
  <2>1. SUFFICES ASSUME IsFrame(f)
                 PROVE  f.number > press.sequence /\ f.shown >= press.at
    BY <1>5 DEF NewMatchFrameIsNew
  <2>2. f = backend'.latest /\ f = Snapshot.frame /\ backend.running
    BY <1>1, <1>3, <2>1, ReadIsOK
  <2>3. CASE backend'.latest = backend.latest
    <3>1. service.source = backend'.latest /\ service.canonical = press.baseline
      BY <1>6, <2>1, <2>2, <2>3 DEF PressIsOpen
    <3>2. f = press.baseline
      BY <1>1, <2>1, <2>2, <3>1, ReadIsOK
    <3> QED
      BY <1>3, <2>1, <3>2 DEF IsNewer
  <2>4. CASE backend'.latest # backend.latest
    <3>1. /\ backend'.latest.number = backend.sequence
          /\ backend.sequence > backend.attempted
          /\ backend'.latest.shown = backend.pending.shown
      BY <1>1, <2>4, ReadIsOK
    <3>2. backend.attempted = press.sequence
      BY <1>6 DEF PressIsOpen
    <3>3. backend.pending.shown >= press.at
      BY <1>6, <3>1, <3>2 DEF PressIsOpen
    <3> QED
      BY <2>2, <3>1, <3>2, <3>3
  <2> QED
    BY <2>3, <2>4
<1>9. PressOK'
  BY <1>1, <1>5, <1>6, <1>7 DEF PressOK
<1> QED
  BY <1>1, <1>2, <1>8, <1>9 DEF CaptureInv

LEMMA CaptureStep ==
  ASSUME CaptureAssumption, CaptureInv, [CaptureNext]_captureVars
  PROVE  CaptureInv'
<1>1. CASE UNCHANGED captureVars
  BY <1>1 DEF captureVars, CaptureInv, BackendOK, ServiceOK, IsOfRun, PressOK, PressIsOpen,
              WasTaken, NewMatchFrameIsNew
<1>2. CASE CaptureNext
  BY <1>2, TickKeepsCapture, QtFrameKeepsCapture, ReconnectKeepsCapture, PollKeepsCapture,
     TurnPressKeepsCapture, NewMatchKeepsCapture, ReacquireKeepsCapture
     DEF CaptureNext
<1> QED
  BY <1>1, <1>2

LEMMA CaptureAlways == CaptureSpec => []CaptureInv
<1>1. CaptureInit => CaptureInv
  BY CaptureAssumption, InitialCapture
<1>2. CaptureInv /\ [CaptureNext]_captureVars => CaptureInv'
  BY CaptureAssumption, CaptureStep
<1> QED
  BY <1>1, <1>2, PTL DEF CaptureSpec

LEMMA CaptureInvImplies ==
  ASSUME CaptureAssumption, CaptureInv
  PROVE  CaptureTypeOK /\ FramesAreCurrent
<1>1. /\ BackendOK(backend) /\ ServiceOK(service, backend) /\ PressOK
  BY DEF CaptureInv
<1>2. ASSUME NEW p \in PacketOrNone, IsFrame(p), IsOfRun(p, backend) \/ WasTaken(p)
      PROVE  /\ p.run \in 1..backend.run /\ p.number \in 1..MaxFrames
             /\ p.shown <= p.stamp /\ p.stamp <= now
  <2>1. p \in Packets
    BY <1>2, NoFrameIsNone DEF PacketOrNone
  <2>2. p.number \in Nat /\ p.number >= 1 /\ p.run \in Nat
    BY <2>1 DEF Packets
  <2>3. CASE IsOfRun(p, backend)
    BY <1>1, <2>2, <2>3, TypesOfCapture DEF IsOfRun, BackendOK
  <2>4. CASE WasTaken(p)
    BY <1>2, <2>2, <2>4, TypesOfCapture DEF WasTaken
  <2> QED
    BY <1>2, <2>3, <2>4
<1>3. /\ {backend.latest, service.source, service.canonical, press.frame, press.baseline}
           \subseteq PacketOrNone
      /\ service.status \in Statuses
  BY TypesOfCapture DEF Backends, Services, Presses
<1>4. ASSUME NEW p \in {backend.latest, service.source, service.canonical}, IsFrame(p)
      PROVE  IsOfRun(p, backend)
  BY <1>1, <1>4 DEF BackendOK, ServiceOK
<1>5. ASSUME NEW p \in {press.frame, press.baseline}
      PROVE  WasTaken(p)
  BY <1>1 DEF PressOK
<1>6. CaptureTypeOK
  <2>1. backend.sequence \in 0..MaxFrames /\ backend.attempted <= backend.sequence
    BY <1>1, TypesOfCapture DEF BackendOK
  <2>2. \A p \in {backend.latest, service.source, service.canonical, press.frame,
                  press.baseline} :
          IsFrame(p) => /\ p.run \in 1..backend.run /\ p.number \in 1..MaxFrames
                        /\ p.shown <= p.stamp /\ p.stamp <= now
    BY <1>2, <1>3, <1>4, <1>5
  <2> QED
    BY <1>3, <2>1, <2>2 DEF CaptureTypeOK, CaptureInv, Statuses, OpenResults
<1>7. FramesAreOfThisRun
  BY <1>4 DEF FramesAreOfThisRun, IsOfRun
<1> QED
  BY <1>6, <1>7 DEF FramesAreCurrent, CaptureInv

----------------------------------------------------------------------------
(* Packets are typed, made by the backend in its present run or an earlier *)
(* one, and never stamped in the future.                                   *)
THEOREM CaptureIsTyped == CaptureSpec => []CaptureTypeOK
BY CaptureAssumption, CaptureAlways, CaptureInvImplies, PTL

(* A reconnected camera shows nothing of the run before, and the picture   *)
(* NEW MATCH takes was on the screen after it was pressed, although it is  *)
(* compared with a baseline by the time of conversion (is_frame_newer_than *)
(* over the lazily converted packets), or with none at all.                *)
THEOREM FramesAreAlwaysCurrent == CaptureSpec => []FramesAreCurrent
BY CaptureAssumption, CaptureAlways, CaptureInvImplies, PTL

-----------------------------------------------------------------------------
(***************************************************************************)
(* TurnWorkbench: the TURN page shows what belongs to its turn.            *)
(***************************************************************************)
BattleStates == {"BATTLE_READY", "TURN_CAPTURE_PENDING", "TURN_REVIEWED", "TURN_RECORDED",
                 "MATCH_ENDED"}
Battles == [state : BattleStates, turn : 0..MaxTurns, draft : Drafts, advised : BOOLEAN]
FieldRecords == [value : {"empty", "human", "draft", "ocr", "facts"}, turn : 0..MaxTurns,
                 origin : Origins, locked : BOOLEAN]
Shots == Identities \cup {NoShot}
Snapshots == [active : Shots, counter : 0..MaxSnapshots, awaited : BOOLEAN]
Bundles == [identity : Shots, read : SUBSET Fields]
Workers == [here : BOOLEAN, pending : Shots, running : Shots]
ReadResults == [identity : Identities, read : SUBSET Fields]

FieldOK(x) == x \in FieldRecords /\ (x.locked <=> x.origin = "HUMAN")

BattleOK ==
  /\ battle \in Battles
  /\ battle.state \notin {"BATTLE_READY", "MATCH_ENDED"} => battle.turn >= 1

FormOK == form = [f \in Fields |-> form[f]] /\ \A f \in Fields : FieldOK(form[f])

(* No snapshot is of a later turn than the one at hand. *)
ShotsOK ==
  /\ snapshot \in Snapshots /\ snapshot.active.turn <= battle.turn
  /\ bundle \in Bundles /\ worker \in Workers /\ results \in Seq(ReadResults)

WorkbenchInv ==
  /\ BattleOK /\ FormOK /\ ShotsOK
  /\ FilledFromThisTurn /\ SnapshotIsOnItsWay

LEMMA WorkbenchTypes ==
  ASSUME WorkbenchAssumption, WorkbenchInv
  PROVE  /\ MaxTurns \in Nat /\ MaxTurns >= 1 /\ MaxSnapshots \in Nat
         /\ battle \in Battles /\ battle.turn \in Nat /\ battle.turn <= MaxTurns
         /\ battle.draft \in Drafts
         /\ snapshot \in Snapshots /\ snapshot.active \in Shots /\ snapshot.counter \in Nat
         /\ bundle \in Bundles /\ worker \in Workers /\ results \in Seq(ReadResults)
BY DEF WorkbenchAssumption, WorkbenchInv, BattleOK, ShotsOK, Battles, Snapshots

LEMMA ShotsAreNumbered ==
  ASSUME WorkbenchAssumption
  PROVE  /\ \A id \in Shots : id.turn \in 0..MaxTurns
         /\ NoShot \notin Identities /\ NoShot \in Shots /\ NoShot.turn = 0
BY DEF Shots, Identities, NoShot, WorkbenchAssumption

(* Binding the draft leaves a field alone or makes a draft's value of it.  *)
LEMMA BoundIsOK ==
  ASSUME WorkbenchAssumption, NEW fields, \A f \in Fields : FieldOK(fields[f]),
         NEW draft \in Drafts, NEW turn \in 0..MaxTurns, NEW f \in Fields
  PROVE  LET x == Bound(fields, draft, turn)[f] IN
         /\ FieldOK(x)
         /\ \/ x = fields[f]
            \/ x.value = "draft" /\ x.origin \in {"CARRY", "RESULT"} /\ ~Claimed(fields[f])
<1> DEFINE d == [value |-> "draft", turn |-> turn, locked |-> FALSE,
                 origin |-> IF draft[f] = "carried" THEN "CARRY" ELSE "RESULT"]
           x == Bound(fields, draft, turn)[f]
<1>1. d \in FieldRecords /\ d.locked = FALSE /\ d.value = "draft"
      /\ d.origin \in {"CARRY", "RESULT"}
  BY DEF FieldRecords, Origins
<1>2. x = IF draft[f] = "unknown" \/ Claimed(fields[f]) THEN fields[f] ELSE d
  BY DEF Bound
<1> HIDE DEF d, x
<1>3. CASE draft[f] = "unknown" \/ Claimed(fields[f])
  BY <1>2, <1>3 DEF x
<1>4. CASE ~(draft[f] = "unknown" \/ Claimed(fields[f]))
  <2>1. x = d
    BY <1>2, <1>4
  <2>2. FieldOK(d)
    BY <1>1 DEF FieldOK
  <2> QED
    BY <1>1, <1>4, <2>1, <2>2 DEF x
<1> QED
  BY <1>3, <1>4

LEMMA BlankIsOK ==
  ASSUME WorkbenchAssumption
  PROVE  \A f \in Fields : FieldOK(Reset[f]) /\ Reset[f].value = "empty"
BY DEF Reset, Blank, FieldOK, FieldRecords, Origins, WorkbenchAssumption

(* What a reopened window shows of a stored fact. *)
LEMMA FactsAreBlank ==
  ASSUME WorkbenchAssumption, NEW t \in 0..MaxTurns, NEW x,
         x = [Blank EXCEPT !.value = "facts", !.turn = t]
  PROVE  FieldOK(x) /\ x.value = "facts" /\ x.origin = "EMPTY"
<1>1. PICK b : b = Blank
  OBVIOUS
<1>2. b \in FieldRecords /\ b.origin = "EMPTY" /\ b.locked = FALSE
  BY <1>1 DEF Blank, FieldRecords, Origins, WorkbenchAssumption
<1>3. x = [b EXCEPT !.value = "facts", !.turn = t]
  BY <1>1
<1>4. x \in FieldRecords
  BY <1>2, <1>3 DEF FieldRecords
<1>5. x.value = "facts" /\ x.origin = "EMPTY"
  BY <1>2, <1>3 DEF FieldRecords
<1>6. x.locked = FALSE
  BY <1>2, <1>3 DEF FieldRecords
<1> QED
  BY <1>4, <1>5, <1>6 DEF FieldOK

(* An emptied form keeps its locks and has no values. *)
LEMMA EmptiedIsOK ==
  ASSUME WorkbenchAssumption, NEW fields, \A f \in Fields : FieldOK(fields[f]),
         NEW f \in Fields
  PROVE  FieldOK(Emptied(fields)[f]) /\ Emptied(fields)[f].value = "empty"
<1>1. PICK x : x = fields[f]
  OBVIOUS
<1>2. x \in FieldRecords /\ FieldOK(x)
  BY <1>1 DEF FieldOK
<1>3. PICK y : y = [x EXCEPT !.value = "empty", !.turn = 0]
  OBVIOUS
<1>4. /\ y \in FieldRecords /\ y.value = "empty" /\ y.origin = x.origin
      /\ y.locked = x.locked
  <2>0. 0 \in 0..MaxTurns
    BY DEF WorkbenchAssumption
  <2>1. y \in FieldRecords
    BY <1>2, <1>3, <2>0 DEF FieldRecords
  <2>2. y.value = "empty" /\ y.origin = x.origin
    BY <1>2, <1>3 DEF FieldRecords
  <2>3. y.locked = x.locked
    BY <1>2, <1>3 DEF FieldRecords
  <2> QED
    BY <2>1, <2>2, <2>3
<1>5. Emptied(fields)[f] = y
  BY <1>1, <1>3 DEF Emptied
<1> QED
  BY <1>2, <1>4, <1>5 DEF FieldOK

----------------------------------------------------------------------------
(***************************************************************************)
(* The conjuncts, one lemma each for the steps that touch them.            *)
(***************************************************************************)
(* A new turn's form: nothing in it came from a snapshot. *)
LEMMA FreshForm ==
  ASSUME WorkbenchAssumption, NEW fields,
         \A f \in Fields : FieldOK(fields[f]) /\ fields[f].value = "empty",
         NEW draft \in Drafts, NEW turn \in 0..MaxTurns, form' = Bound(fields, draft, turn)
  PROVE  FormOK' /\ \A f \in Fields : form'[f].value # "ocr"
<1>1. form' = [f \in Fields |-> form'[f]]
  BY DEF Bound
<1>2. ASSUME NEW f \in Fields
      PROVE  FieldOK(form'[f]) /\ form'[f].value # "ocr"
  BY BoundIsOK
<1> QED
  BY <1>1, <1>2 DEF FormOK

(* Nothing but the form depends on it. *)
LEMMA ShotsKept ==
  ASSUME WorkbenchInv, UNCHANGED <<snapshot, bundle, worker, results>>,
         battle'.turn = battle.turn, battle'.state = battle.state
  PROVE  ShotsOK' /\ SnapshotIsOnItsWay'
<1>1. ShotsOK'
  BY DEF WorkbenchInv, ShotsOK
<1>2. Pending' = Pending
  BY DEF Pending
<1>3. SnapshotIsOnItsWay'
  BY <1>2 DEF WorkbenchInv, SnapshotIsOnItsWay
<1> QED
  BY <1>1, <1>3

LEMMA FormKept ==
  ASSUME WorkbenchInv, UNCHANGED form, battle'.turn = battle.turn,
         Pending' => Pending
  PROVE  FormOK' /\ FilledFromThisTurn'
BY DEF WorkbenchInv, FormOK, FilledFromThisTurn

(* A field written by hand, of a turn in range. *)
LEMMA WrittenByHand ==
  ASSUME WorkbenchAssumption, WorkbenchInv, NEW f \in Fields, NEW x \in FieldRecords,
         x.origin = "HUMAN", x.locked = TRUE, form' = [form EXCEPT ![f] = x], UNCHANGED battle
  PROVE  FormOK' /\ FilledFromThisTurn'
<1>1. form' = [g \in Fields |-> IF g = f THEN x ELSE form[g]]
  BY DEF WorkbenchInv, FormOK
<1>2. FieldOK(x)
  BY DEF FieldOK
<1>3. ASSUME NEW g \in Fields
      PROVE  /\ FieldOK(form'[g])
             /\ g = f \/ form'[g] = form[g]
             /\ g = f => form'[g].origin = "HUMAN"
  BY <1>1, <1>2 DEF WorkbenchInv, FormOK
<1>4. form' = [g \in Fields |-> form'[g]]
  BY <1>1
<1>5. FormOK'
  BY <1>3, <1>4 DEF FormOK
<1>6. FilledFromThisTurn'
  BY <1>3 DEF FilledFromThisTurn, WorkbenchInv, Pending
<1> QED
  BY <1>5, <1>6

(* The identity of the next snapshot. *)
LEMMA SubmitIsOK ==
  ASSUME WorkbenchAssumption, WorkbenchInv, MayFreeze, NEW turn \in 1..MaxTurns,
         NEW frozen \in BOOLEAN, Submit(turn, frozen), battle'.turn = turn, UNCHANGED results
  PROVE  ShotsOK' /\ SnapshotIsOnItsWay'
<1> DEFINE id == [turn |-> turn, shot |-> snapshot.counter + 1]
<1>1. id \in Identities /\ id.turn = turn /\ id.shot = snapshot.counter + 1
  BY WorkbenchTypes DEF Identities, MayFreeze
<1>2. /\ snapshot' = [active |-> id, counter |-> id.shot, awaited |-> frozen /\ worker.here]
      /\ bundle' = NoBundle
      /\ worker' = IF frozen THEN QueuedForOcr(id) ELSE worker
  BY Zenon DEF Submit
<1> HIDE DEF id
<1>3. snapshot' \in Snapshots /\ snapshot'.active = id
  <2>1. id.shot \in 0..MaxSnapshots
    BY <1>1, WorkbenchTypes DEF MayFreeze
  <2>2. (frozen /\ worker.here) \in BOOLEAN
    OBVIOUS
  <2> DEFINE a == frozen /\ worker.here
  <2> HIDE DEF a
  <2>3. a \in BOOLEAN /\ snapshot' = [active |-> id, counter |-> id.shot, awaited |-> a]
    BY <1>2, <2>2 DEF a
  <2> QED
    BY <1>1, <2>1, <2>3 DEF Snapshots, Shots
<1>4. bundle' \in Bundles
  BY <1>2 DEF NoBundle, Bundles, Shots
<1>5. worker' \in Workers /\ (frozen /\ worker.here => worker'.pending = id)
  <2>1. CASE frozen /\ worker.here
    <3>1. worker' = [worker EXCEPT !.pending = id]
      BY <1>2, <2>1 DEF QueuedForOcr
    <3>2. worker \in Workers /\ id \in Shots
      BY <1>1, WorkbenchTypes DEF Shots
    <3> QED
      BY <3>1, <3>2 DEF Workers
  <2>2. CASE ~(frozen /\ worker.here)
    BY <1>2, <2>2, WorkbenchTypes DEF QueuedForOcr
  <2> QED
    BY <2>1, <2>2
<1>6. ShotsOK'
  BY <1>1, <1>3, <1>4, <1>5, WorkbenchTypes DEF ShotsOK
<1>7. SnapshotIsOnItsWay'
  BY <1>2, <1>3, <1>5 DEF SnapshotIsOnItsWay
<1> QED
  BY <1>6, <1>7

(***************************************************************************)
(* The buttons.                                                            *)
(***************************************************************************)
LEMMA StartKeeps ==
  ASSUME WorkbenchAssumption, WorkbenchInv, NEW frozen \in BOOLEAN, StartTurn(frozen)
  PROVE  WorkbenchInv'
<1>1. /\ battle' = [battle EXCEPT !.state = "TURN_CAPTURE_PENDING", !.turn = 1]
      /\ form' = Bound(Reset, battle.draft, 1) /\ Submit(1, frozen) /\ MayFreeze
      /\ UNCHANGED results
  BY Zenon DEF StartTurn
<1>2. battle' \in Battles /\ battle'.turn = 1
  <2>1. battle \in Battles /\ 1 \in 0..MaxTurns
    BY WorkbenchTypes
  <2> QED
    BY <1>1, <2>1 DEF Battles, BattleStates
<1>3. BattleOK'
  BY <1>2 DEF BattleOK
<1>4. FormOK' /\ FilledFromThisTurn'
  <2>1. battle.draft \in Drafts /\ 1 \in 0..MaxTurns
    BY WorkbenchTypes
  <2> QED
    BY <1>1, <2>1, BlankIsOK, FreshForm DEF FilledFromThisTurn
<1>5. ShotsOK' /\ SnapshotIsOnItsWay'
  BY <1>1, <1>2, SubmitIsOK, WorkbenchTypes
<1> QED
  BY <1>3, <1>4, <1>5 DEF WorkbenchInv

LEMMA RetakeKeeps ==
  ASSUME WorkbenchAssumption, WorkbenchInv, NEW frozen \in BOOLEAN, Retake(frozen)
  PROVE  WorkbenchInv'
<1>1. /\ Pending /\ MayFreeze /\ Submit(battle.turn, frozen) /\ UNCHANGED <<battle, results>>
      /\ form' = Bound(form, battle.draft, battle.turn)
  BY Zenon DEF Retake
<1>2. BattleOK' /\ battle.turn \in 1..MaxTurns
  BY <1>1, WorkbenchTypes DEF WorkbenchInv, BattleOK, Pending
<1>3. ASSUME NEW f \in Fields
      PROVE  /\ FieldOK(form'[f])
             /\ form'[f] = form[f] \/ form'[f].value = "draft"
  <2>1. battle.draft \in Drafts /\ battle.turn \in 0..MaxTurns /\ \A g \in Fields : FieldOK(form[g])
    BY WorkbenchTypes DEF WorkbenchInv, FormOK
  <2> QED
    BY <1>1, <2>1, BoundIsOK
<1>4. form' = [f \in Fields |-> form'[f]]
  BY <1>1 DEF Bound
<1>5. FormOK'
  BY <1>3, <1>4 DEF FormOK
<1>6. FilledFromThisTurn'
  BY <1>1, <1>3 DEF FilledFromThisTurn, WorkbenchInv, Pending
<1>7. ShotsOK' /\ SnapshotIsOnItsWay'
  BY <1>1, <1>2, SubmitIsOK
<1> QED
  BY <1>2, <1>5, <1>6, <1>7 DEF WorkbenchInv

LEMMA TypeKeeps ==
  ASSUME WorkbenchAssumption, WorkbenchInv, NEW f \in Fields, NEW value \in {"human", "empty"},
         Type(f, value)
  PROVE  WorkbenchInv'
<1>1. PICK x : x = [value |-> value, turn |-> battle.turn, origin |-> "HUMAN", locked |-> TRUE]
  OBVIOUS
<1>2. /\ form' = [form EXCEPT ![f] = x]
      /\ UNCHANGED <<battle, snapshot, bundle, worker, results>>
  BY <1>1 DEF Type
<1>3. x \in FieldRecords /\ x.origin = "HUMAN" /\ x.locked = TRUE
  BY <1>1, WorkbenchTypes DEF FieldRecords, Origins
<1>4. FormOK' /\ FilledFromThisTurn'
  BY <1>2, <1>3, WrittenByHand
<1>5. ShotsOK' /\ SnapshotIsOnItsWay' /\ BattleOK'
  BY <1>2, ShotsKept DEF WorkbenchInv, BattleOK
<1> QED
  BY <1>4, <1>5 DEF WorkbenchInv

LEMMA AdoptKeeps ==
  ASSUME WorkbenchAssumption, WorkbenchInv, NEW f \in Fields, Adopt(f)
  PROVE  WorkbenchInv'
<1>1. PICK x : x = [value |-> "ocr", turn |-> bundle.identity.turn, origin |-> "HUMAN",
                    locked |-> TRUE]
  OBVIOUS
<1>2. /\ form' = [form EXCEPT ![f] = x]
      /\ UNCHANGED <<battle, snapshot, bundle, worker, results>>
  BY <1>1 DEF Adopt
<1>3. x \in FieldRecords /\ x.origin = "HUMAN" /\ x.locked = TRUE
  <2>1. bundle.identity.turn \in 0..MaxTurns
    BY WorkbenchTypes, ShotsAreNumbered DEF Bundles
  <2> QED
    BY <1>1, <2>1 DEF FieldRecords, Origins
<1>4. FormOK' /\ FilledFromThisTurn'
  BY <1>2, <1>3, WrittenByHand
<1>5. ShotsOK' /\ SnapshotIsOnItsWay' /\ BattleOK'
  BY <1>2, ShotsKept DEF WorkbenchInv, BattleOK
<1> QED
  BY <1>4, <1>5 DEF WorkbenchInv

(* Steps that only move the match on, within its turn and out of capture. *)
LEMMA MoveKeeps ==
  ASSUME WorkbenchAssumption, WorkbenchInv, UNCHANGED <<snapshot, bundle, worker, results>>,
         BattleOK', battle'.turn = battle.turn, ~Pending', FormOK'
  PROVE  WorkbenchInv'
<1>1. ShotsOK'
  BY DEF WorkbenchInv, ShotsOK
<1> QED
  BY <1>1 DEF WorkbenchInv, FilledFromThisTurn, SnapshotIsOnItsWay

LEMMA ConfirmKeeps ==
  ASSUME WorkbenchAssumption, WorkbenchInv, Confirm
  PROVE  WorkbenchInv'
<1>1. /\ battle' = [battle EXCEPT !.state = "TURN_REVIEWED"] /\ Pending
      /\ UNCHANGED <<snapshot, bundle, worker, results>>
      /\ form' = [f \in Fields |-> [form[f] EXCEPT !.value = "facts", !.turn = battle.turn]]
  BY Zenon DEF Confirm
<1>2. battle' \in Battles /\ battle'.turn = battle.turn /\ battle'.state = "TURN_REVIEWED"
  BY <1>1, WorkbenchTypes DEF Battles, BattleStates
<1>3. BattleOK' /\ ~Pending'
  BY <1>1, <1>2 DEF BattleOK, WorkbenchInv, Pending
<1>4. ASSUME NEW f \in Fields
      PROVE  FieldOK(form'[f])
  <2>1. PICK x : x = form[f]
    OBVIOUS
  <2>2. x \in FieldRecords /\ FieldOK(x) /\ battle.turn \in 0..MaxTurns
    BY <2>1, WorkbenchTypes DEF FieldOK, WorkbenchInv, FormOK
  <2>3. PICK y : y = [x EXCEPT !.value = "facts", !.turn = battle.turn]
    OBVIOUS
  <2>4. y \in FieldRecords
    BY <2>2, <2>3 DEF FieldRecords
  <2>5. y.origin = x.origin
    BY <2>2, <2>3 DEF FieldRecords
  <2>6. y.locked = x.locked
    BY <2>2, <2>3 DEF FieldRecords
  <2>7. form'[f] = y
    BY <1>1, <2>1, <2>3
  <2> QED
    BY <2>2, <2>4, <2>5, <2>6, <2>7 DEF FieldOK
<1>5. FormOK'
  <2>1. form' = [f \in Fields |-> form'[f]]
    BY <1>1
  <2> QED
    BY <1>4, <2>1 DEF FormOK
<1> QED
  BY <1>1, <1>2, <1>3, <1>5, MoveKeeps

LEMMA MovesKeep ==
  ASSUME WorkbenchAssumption, WorkbenchInv, Advise \/ CommitOnly \/ EndMatch
  PROVE  WorkbenchInv'
<1>1. UNCHANGED <<form, snapshot, bundle, worker, results>>
  BY DEF Advise, CommitOnly, EndMatch
<1>2. \/ battle' = [battle EXCEPT !.advised = TRUE] /\ battle.state = "TURN_REVIEWED"
      \/ /\ battle' = [battle EXCEPT !.state = "TURN_RECORDED", !.advised = FALSE]
         /\ battle.state = "TURN_REVIEWED"
      \/ battle' = [battle EXCEPT !.state = "MATCH_ENDED"]
  BY Zenon DEF Advise, CommitOnly, EndMatch, Recorded, RecordsAction
<1>3. battle \in Battles
  BY WorkbenchTypes
<1>4. /\ battle' \in Battles /\ battle'.turn = battle.turn
      /\ \/ battle.state = "TURN_REVIEWED" /\ battle'.state \in {"TURN_REVIEWED", "TURN_RECORDED"}
         \/ battle'.state = "MATCH_ENDED"
  <2>1. CASE battle' = [battle EXCEPT !.advised = TRUE] /\ battle.state = "TURN_REVIEWED"
    BY <1>3, <2>1 DEF Battles, BattleStates
  <2>2. CASE /\ battle' = [battle EXCEPT !.state = "TURN_RECORDED", !.advised = FALSE]
             /\ battle.state = "TURN_REVIEWED"
    BY <1>3, <2>2 DEF Battles, BattleStates
  <2>3. CASE battle' = [battle EXCEPT !.state = "MATCH_ENDED"]
    BY <1>3, <2>3 DEF Battles, BattleStates
  <2> QED
    BY <1>2, <2>1, <2>2, <2>3
<1>5. BattleOK' /\ ~Pending'
  BY <1>4 DEF BattleOK, WorkbenchInv, Pending
<1>6. FormOK'
  BY <1>1 DEF WorkbenchInv, FormOK
<1> QED
  BY <1>1, <1>4, <1>5, <1>6, MoveKeeps

LEMMA PageKeeps ==
  ASSUME WorkbenchAssumption, WorkbenchInv, UNCHANGED <<battle, form>>,
         UNCHANGED <<snapshot, bundle, worker, results>>
  PROVE  WorkbenchInv'
BY FormKept, ShotsKept DEF WorkbenchInv, BattleOK, Pending

(* The turn after. *)
LEMMA NextBattleIsOK ==
  ASSUME WorkbenchAssumption, WorkbenchInv, NEW draft \in Drafts, battle.turn < MaxTurns,
         battle' = NextBattle(draft)
  PROVE  /\ BattleOK' /\ battle'.turn = battle.turn + 1
         /\ battle.turn + 1 \in 1..MaxTurns
<1>1. battle.turn + 1 \in 1..MaxTurns
  BY WorkbenchTypes
<1>2. battle' \in Battles /\ battle'.turn = battle.turn + 1
  BY <1>1 DEF NextBattle, Battles, BattleStates
<1> QED
  BY <1>1, <1>2 DEF BattleOK

LEMMA AdvanceKeeps ==
  ASSUME WorkbenchAssumption, WorkbenchInv, NEW draft \in Drafts, CommitAndAdvance(draft)
  PROVE  WorkbenchInv'
<1>1. /\ battle' = NextBattle(draft) /\ battle.turn < MaxTurns
      /\ form' = Bound(Emptied(form), draft, battle.turn + 1)
      /\ UNCHANGED <<snapshot, bundle, worker, results>>
  BY DEF CommitAndAdvance, NewTurnRendered
<1>2. BattleOK' /\ battle'.turn = battle.turn + 1 /\ battle.turn + 1 \in 1..MaxTurns
  BY <1>1, NextBattleIsOK
<1>3. FormOK' /\ FilledFromThisTurn'
  <2>1. \A f \in Fields : FieldOK(Emptied(form)[f]) /\ Emptied(form)[f].value = "empty"
    BY EmptiedIsOK DEF WorkbenchInv, FormOK
  <2>2. battle.turn + 1 \in 0..MaxTurns
    BY <1>2
  <2> QED
    BY <1>1, <2>1, <2>2, FreshForm DEF FilledFromThisTurn
<1>4. snapshot.active.turn <= battle.turn /\ snapshot.active.turn \in Nat
  BY WorkbenchTypes, ShotsAreNumbered DEF WorkbenchInv, ShotsOK
<1>5. ShotsOK' /\ SnapshotIsOnItsWay'
  BY <1>1, <1>2, <1>4, WorkbenchTypes DEF ShotsOK, SnapshotIsOnItsWay
<1> QED
  BY <1>2, <1>3, <1>5 DEF WorkbenchInv

LEMMA NextTurnKeeps ==
  ASSUME WorkbenchAssumption, WorkbenchInv, NEW draft \in Drafts, NEW frozen \in BOOLEAN,
         NextTurn(draft, frozen)
  PROVE  WorkbenchInv'
<1>1. /\ battle' = NextBattle(draft) /\ battle.turn < MaxTurns /\ MayFreeze
      /\ form' = Bound(Reset, draft, battle.turn + 1)
      /\ Submit(battle.turn + 1, frozen) /\ UNCHANGED results
  BY DEF NextTurn
<1>2. BattleOK' /\ battle'.turn = battle.turn + 1 /\ battle.turn + 1 \in 1..MaxTurns
  BY <1>1, NextBattleIsOK
<1>3. FormOK' /\ FilledFromThisTurn'
  <2>1. battle.turn + 1 \in 0..MaxTurns
    BY <1>2
  <2> QED
    BY <1>1, <2>1, BlankIsOK, FreshForm DEF FilledFromThisTurn
<1>4. ShotsOK' /\ SnapshotIsOnItsWay'
  BY <1>1, <1>2, SubmitIsOK
<1> QED
  BY <1>2, <1>3, <1>4 DEF WorkbenchInv

(***************************************************************************)
(* The worker.                                                             *)
(***************************************************************************)
LEMMA TakeKeeps ==
  ASSUME WorkbenchAssumption, WorkbenchInv, Take
  PROVE  WorkbenchInv'
<1>1. /\ worker' = [worker EXCEPT !.running = worker.pending, !.pending = NoShot]
      /\ worker.running = NoShot
      /\ UNCHANGED <<battle, form, snapshot, bundle, results>>
  BY Zenon DEF Take
<1>2. /\ worker' \in Workers /\ worker'.running = worker.pending
  <2>1. worker \in Workers /\ NoShot \in Shots
    BY WorkbenchTypes DEF Shots
  <2> QED
    BY <1>1, <2>1 DEF Workers
<1>3. ShotsOK' /\ BattleOK'
  BY <1>1, <1>2 DEF WorkbenchInv, ShotsOK, BattleOK
<1>4. SnapshotIsOnItsWay'
  <2>1. SUFFICES ASSUME snapshot.awaited, Pending, snapshot.active.turn = battle.turn
                 PROVE  \/ snapshot.active \in {worker'.pending, worker'.running}
                        \/ \E i \in 1..Len(results) : results[i].identity = snapshot.active
    BY <1>1 DEF SnapshotIsOnItsWay, Pending
  <2>2. CASE snapshot.active \in {worker.pending, worker.running}
    <3>1. snapshot.active # NoShot
      <4>1. battle.turn >= 1
        BY <2>1 DEF WorkbenchInv, BattleOK, Pending
      <4> QED
        BY <2>1, <4>1 DEF NoShot
    <3> QED
      BY <1>1, <1>2, <2>2, <3>1
  <2> QED
    BY <2>1, <2>2 DEF WorkbenchInv, SnapshotIsOnItsWay
<1> QED
  BY <1>1, <1>3, <1>4, FormKept DEF WorkbenchInv, Pending

LEMMA EmitKeeps ==
  ASSUME WorkbenchAssumption, WorkbenchInv, NEW read \in SUBSET Fields, Emit(read)
  PROVE  WorkbenchInv'
<1> DEFINE r == [identity |-> worker.running, read |-> read]
<1>1. /\ worker.running # NoShot /\ results' = Append(results, r)
      /\ worker' = [worker EXCEPT !.running = NoShot]
      /\ UNCHANGED <<battle, form, snapshot, bundle>>
  BY Zenon DEF Emit
<1>2. worker \in Workers /\ NoShot \in Shots
  BY WorkbenchTypes DEF Shots
<1>3. worker' \in Workers /\ worker'.pending = worker.pending
  BY <1>1, <1>2 DEF Workers
<1>4. r \in ReadResults /\ r.identity = worker.running
  BY <1>1, <1>2 DEF Workers, Shots, ReadResults
<1> HIDE DEF r
<1>5. /\ results' \in Seq(ReadResults)
      /\ \E j \in 1..Len(results') : results'[j] = r
      /\ \A i \in 1..Len(results) : \E j \in 1..Len(results') : results'[j] = results[i]
  <2>1. results \in Seq(ReadResults) /\ r \in ReadResults
    BY <1>4, WorkbenchTypes
  <2>2. results' = Append(results, r)
    BY <1>1
  <2> QED
    BY <2>1, <2>2, AppendKeeps
<1>6. ShotsOK' /\ BattleOK'
  BY <1>1, <1>3, <1>5 DEF WorkbenchInv, ShotsOK, BattleOK
<1>7. SnapshotIsOnItsWay'
  <2>1. SUFFICES ASSUME snapshot.awaited, Pending, snapshot.active.turn = battle.turn
                 PROVE  \/ snapshot.active = worker'.pending
                        \/ \E i \in 1..Len(results') : results'[i].identity = snapshot.active
    BY <1>1 DEF SnapshotIsOnItsWay, Pending
  <2>2. CASE snapshot.active = worker.running
    BY <1>4, <1>5, <2>2
  <2>3. CASE \E i \in 1..Len(results) : results[i].identity = snapshot.active
    BY <1>5, <2>3
  <2>4. CASE snapshot.active = worker.pending
    BY <1>3, <2>4
  <2> QED
    BY <2>1, <2>2, <2>3, <2>4 DEF WorkbenchInv, SnapshotIsOnItsWay
<1> QED
  BY <1>1, <1>6, <1>7, FormKept DEF WorkbenchInv, Pending

(* The fields a result fills in. *)
LEMMA FilledIsOK ==
  ASSUME WorkbenchAssumption, WorkbenchInv, NEW r \in ReadResults, r.identity.turn = battle.turn,
         UNCHANGED battle,
         form' = [f \in Fields |->
                   IF Fills(f, r.read)
                   THEN [value |-> "ocr", turn |-> r.identity.turn, origin |-> "OCR",
                         locked |-> form[f].locked]
                   ELSE form[f]]
  PROVE  FormOK' /\ FilledFromThisTurn'
<1>1. ASSUME NEW f \in Fields
      PROVE  FieldOK(form'[f]) /\ (form'[f] = form[f] \/ form'[f].turn = battle.turn)
  <2>1. CASE ~Fills(f, r.read)
    <3>1. form'[f] = form[f]
      BY <2>1
    <3> QED
      BY <3>1 DEF WorkbenchInv, FormOK
  <2>2. CASE Fills(f, r.read)
    <3> DEFINE l == form[f].locked
               x == [value |-> "ocr", turn |-> battle.turn, origin |-> "OCR", locked |-> l]
    <3>1. form'[f] = x
      BY <2>2
    <3>2. l = FALSE
      BY <2>2 DEF Fills, WorkbenchInv, FormOK, FieldOK, FieldRecords
    <3> HIDE DEF l
    <3>3. battle.turn \in 0..MaxTurns
      BY WorkbenchTypes
    <3>4. x \in FieldRecords
      BY <3>2, <3>3 DEF FieldRecords, Origins
    <3> QED
      BY <3>1, <3>2, <3>4 DEF FieldOK
  <2> QED
    BY <2>1, <2>2
<1>2. form' = [f \in Fields |-> form'[f]]
  OBVIOUS
<1>3. FormOK'
  BY <1>1, <1>2 DEF FormOK
<1> QED
  BY <1>1, <1>3 DEF FilledFromThisTurn, WorkbenchInv, Pending

LEMMA ReceiveKeeps ==
  ASSUME WorkbenchAssumption, WorkbenchInv, Receive
  PROVE  WorkbenchInv'
<1>1. PICK r : r = Head(results)
  OBVIOUS
<1>2. /\ results # <<>> /\ results' = Tail(results) /\ UNCHANGED <<battle, worker>>
      /\ IF Pending /\ IsCurrent(r.identity)
         THEN /\ bundle' = r
              /\ snapshot' = [snapshot EXCEPT !.awaited = FALSE]
              /\ form' = [f \in Fields |->
                   IF Fills(f, r.read)
                   THEN [value |-> "ocr", turn |-> r.identity.turn, origin |-> "OCR",
                         locked |-> form[f].locked]
                   ELSE form[f]]
         ELSE UNCHANGED <<bundle, form, snapshot>>
  BY <1>1, Zenon DEF Receive
<1>3. /\ r \in ReadResults /\ results' \in Seq(ReadResults)
      /\ \A i \in 1..Len(results) :
           results[i] = r \/ \E j \in 1..Len(results') : results'[j] = results[i]
  BY <1>1, <1>2, TailKeeps, WorkbenchTypes
<1>4. BattleOK'
  BY <1>2 DEF WorkbenchInv, BattleOK
<1>5. CASE Pending /\ IsCurrent(r.identity)
  <2>1. FormOK' /\ FilledFromThisTurn'
    BY <1>2, <1>3, <1>5, FilledIsOK DEF IsCurrent
  <2>2. snapshot \in Snapshots
    BY WorkbenchTypes
  <2>3. snapshot' \in Snapshots /\ snapshot'.active = snapshot.active /\ ~snapshot'.awaited
    BY <1>2, <1>5, <2>2 DEF Snapshots
  <2>4. bundle' \in Bundles
    BY <1>2, <1>3, <1>5 DEF ReadResults, Bundles, Shots
  <2>5. ShotsOK' /\ SnapshotIsOnItsWay'
    BY <1>2, <1>3, <2>3, <2>4 DEF WorkbenchInv, ShotsOK, SnapshotIsOnItsWay
  <2> QED
    BY <1>4, <2>1, <2>5 DEF WorkbenchInv
<1>6. CASE ~(Pending /\ IsCurrent(r.identity))
  <2>1. UNCHANGED <<battle, worker, bundle, form, snapshot>>
    BY <1>2, <1>6
  <2>2. ShotsOK'
    BY <1>3, <2>1 DEF WorkbenchInv, ShotsOK
  <2>3. SnapshotIsOnItsWay'
    <3>1. SUFFICES ASSUME snapshot.awaited, Pending, snapshot.active.turn = battle.turn,
                          ~(snapshot.active \in {worker.pending, worker.running})
                   PROVE  \E i \in 1..Len(results') : results'[i].identity = snapshot.active
      BY <2>1 DEF SnapshotIsOnItsWay, Pending
    <3>2. PICK i \in 1..Len(results) : results[i].identity = snapshot.active
      BY <3>1 DEF WorkbenchInv, SnapshotIsOnItsWay
    <3>3. results[i] # r
      BY <1>6, <3>1, <3>2 DEF IsCurrent
    <3> QED
      BY <1>3, <3>2, <3>3
  <2> QED
    BY <1>4, <2>1, <2>2, <2>3, FormKept DEF WorkbenchInv, Pending
<1> QED
  BY <1>5, <1>6

LEMMA ReopenKeeps ==
  ASSUME WorkbenchAssumption, WorkbenchInv, Reopen
  PROVE  WorkbenchInv'
<1>1. /\ snapshot' = [snapshot EXCEPT !.active = NoShot, !.awaited = FALSE]
      /\ bundle' = NoBundle /\ results' = <<>> /\ UNCHANGED battle
      /\ worker' = [worker EXCEPT !.pending = NoShot, !.running = NoShot]
  BY Zenon DEF Reopen
<1>2. \/ form' = [f \in Fields |-> [Blank EXCEPT !.value = "facts", !.turn = battle.turn]]
      \/ form' = Bound(Reset, battle.draft, battle.turn)
      \/ form' = Reset
  BY DEF Reopen
<1>3. FormOK' /\ \A f \in Fields : form'[f].value # "ocr"
  <2>1. CASE form' = Bound(Reset, battle.draft, battle.turn)
    <3>1. battle.draft \in Drafts /\ battle.turn \in 0..MaxTurns
      BY WorkbenchTypes
    <3> QED
      BY <2>1, <3>1, BlankIsOK, FreshForm
  <2>2. CASE form' = Reset
    <3>1. form' = [f \in Fields |-> form'[f]]
      BY <2>2 DEF Reset
    <3> QED
      BY <2>2, <3>1, BlankIsOK DEF FormOK
  <2>3. CASE form' = [f \in Fields |-> [Blank EXCEPT !.value = "facts", !.turn = battle.turn]]
    <3>1. PICK x : x = [Blank EXCEPT !.value = "facts", !.turn = battle.turn]
      OBVIOUS
    <3>2. battle.turn \in 0..MaxTurns
      BY WorkbenchTypes
    <3>3. FieldOK(x) /\ x.value = "facts"
      BY <3>1, <3>2, FactsAreBlank
    <3>5. form' = [f \in Fields |-> x]
      BY <2>3, <3>1
    <3>6. form' = [f \in Fields |-> form'[f]] /\ \A f \in Fields : form'[f] = x
      BY <3>5
    <3> QED
      BY <3>3, <3>6 DEF FormOK
  <2> QED
    BY <1>2, <2>1, <2>2, <2>3
<1>4. ShotsOK' /\ SnapshotIsOnItsWay'
  <2>1. snapshot \in Snapshots /\ worker \in Workers /\ NoShot \in Shots /\ NoShot.turn = 0
    BY WorkbenchTypes, ShotsAreNumbered
  <2>2. snapshot' \in Snapshots /\ snapshot'.active = NoShot /\ ~snapshot'.awaited
    BY <1>1, <2>1 DEF Snapshots
  <2>3. worker' \in Workers
    BY <1>1, <2>1 DEF Workers
  <2>4. bundle' \in Bundles /\ results' \in Seq(ReadResults)
    BY <1>1 DEF NoBundle, Bundles, Shots
  <2> QED
    BY <1>1, <2>1, <2>2, <2>3, <2>4, WorkbenchTypes DEF ShotsOK, SnapshotIsOnItsWay
<1> QED
  BY <1>1, <1>3, <1>4 DEF WorkbenchInv, BattleOK, FilledFromThisTurn

----------------------------------------------------------------------------
LEMMA WorkbenchInitially ==
  ASSUME WorkbenchAssumption, WorkbenchInit
  PROVE  WorkbenchInv
<1>1. battle \in Battles /\ battle.state = "BATTLE_READY" /\ battle.turn = 0
  BY DEF WorkbenchInit, Battles, BattleStates, NoDraft, Drafts, WorkbenchAssumption
<1>2. /\ snapshot \in Snapshots /\ snapshot.active = NoShot /\ bundle \in Bundles
      /\ worker \in Workers /\ results \in Seq(ReadResults) /\ NoShot.turn <= 0
  BY DEF WorkbenchInit, Snapshots, Bundles, NoBundle, Workers, Shots, NoShot, WorkbenchAssumption
<1>3. FormOK
  <2>1. form = Reset /\ form = [f \in Fields |-> form[f]]
    BY DEF WorkbenchInit, Reset
  <2> QED
    BY <2>1, BlankIsOK DEF FormOK
<1>4. BattleOK /\ ShotsOK /\ ~Pending
  BY <1>1, <1>2 DEF BattleOK, ShotsOK, Pending
<1> QED
  BY <1>3, <1>4 DEF WorkbenchInv, FilledFromThisTurn, SnapshotIsOnItsWay

LEMMA WorkbenchStep ==
  ASSUME WorkbenchAssumption, WorkbenchInv, [WorkbenchNext]_workbenchVars
  PROVE  WorkbenchInv'
<1>1. CASE UNCHANGED workbenchVars
  BY <1>1, PageKeeps DEF workbenchVars
<1>2. CASE TurnPage
  BY <1>2, PageKeeps DEF TurnPage
<1>3. CASE \E frozen \in BOOLEAN : StartTurn(frozen) \/ Retake(frozen)
  BY <1>3, StartKeeps, RetakeKeeps
<1>4. CASE \E f \in Fields : Adopt(f) \/ \E value \in {"human", "empty"} : Type(f, value)
  BY <1>4, AdoptKeeps, TypeKeeps
<1>5. CASE \E draft \in Drafts :
             \/ CommitAndAdvance(draft)
             \/ \E frozen \in BOOLEAN : NextTurn(draft, frozen)
  BY <1>5, AdvanceKeeps, NextTurnKeeps
<1>6. CASE Take \/ \E read \in SUBSET Fields : Emit(read)
  BY <1>6, TakeKeeps, EmitKeeps
<1>7. CASE Confirm \/ Advise \/ CommitOnly \/ EndMatch \/ Receive \/ Reopen
  BY <1>7, ConfirmKeeps, MovesKeep, ReceiveKeeps, ReopenKeeps
<1> QED
  BY <1>1, <1>2, <1>3, <1>4, <1>5, <1>6, <1>7 DEF WorkbenchNext

LEMMA WorkbenchAlways == WorkbenchSpec => []WorkbenchInv
<1>1. WorkbenchInit => WorkbenchInv
  BY WorkbenchAssumption, WorkbenchInitially
<1>2. WorkbenchInv /\ [WorkbenchNext]_workbenchVars => WorkbenchInv'
  BY WorkbenchAssumption, WorkbenchStep
<1> QED
  BY <1>1, <1>2, PTL DEF WorkbenchSpec

LEMMA WorkbenchIsTyped ==
  ASSUME WorkbenchInv
  PROVE  WorkbenchTypeOK
<1>1. battle.turn \in 0..MaxTurns /\ battle.draft \in Drafts
  BY DEF WorkbenchInv, BattleOK, Battles
<1>2. form \in [Fields -> FieldRecords]
  BY DEF WorkbenchInv, FormOK, FieldOK
<1>3. /\ snapshot.counter \in 0..MaxSnapshots
      /\ {snapshot.active, bundle.identity, worker.pending, worker.running} \subseteq Shots
  BY DEF WorkbenchInv, ShotsOK, Snapshots, Bundles, Workers
<1>4. \A f \in Fields : form[f].locked <=> form[f].origin = "HUMAN"
  BY DEF WorkbenchInv, FormOK, FieldOK
<1> QED
  BY <1>1, <1>2, <1>3, <1>4 DEF WorkbenchTypeOK, FieldRecords, Shots

(* A field bound again: a locked one stays, and no candidate is put in.    *)
LEMMA BindingKeeps ==
  ASSUME WorkbenchAssumption, NEW fields, \A f \in Fields : FieldOK(fields[f]),
         NEW draft \in Drafts, NEW turn \in 0..MaxTurns, form' = Bound(fields, draft, turn)
  PROVE  \A f \in Fields :
           \/ form'[f] = fields[f]
           \/ form'[f].origin \in {"CARRY", "RESULT"} /\ ~fields[f].locked
BY BoundIsOK DEF Claimed

LEMMA EmptiedKeepsOrigin ==
  ASSUME WorkbenchAssumption, FormOK, NEW f \in Fields
  PROVE  Emptied(form)[f].origin = form[f].origin
<1>1. PICK x : x = form[f]
  OBVIOUS
<1>2. x \in FieldRecords
  BY <1>1 DEF FormOK, FieldOK
<1>3. Emptied(form)[f] = [x EXCEPT !.value = "empty", !.turn = 0]
  BY <1>1 DEF Emptied
<1> QED
  BY <1>1, <1>2, <1>3 DEF FieldRecords

(* Typing and adopting touch one field, and make it the operator's.        *)
LEMMA HandKeeps ==
  ASSUME FormOK, NEW f \in Fields, Adopt(f) \/ \E value \in {"human", "empty"} : Type(f, value)
  PROVE  \A g \in Fields : form'[g] = form[g] \/ form'[g].origin = "HUMAN"
<1>1. ASSUME NEW v, NEW t,
             form' = [form EXCEPT ![f] = [value |-> v, turn |-> t, origin |-> "HUMAN",
                                          locked |-> TRUE]]
      PROVE  \A g \in Fields : form'[g] = form[g] \/ form'[g].origin = "HUMAN"
  BY <1>1 DEF FormOK
<1>2. CASE Adopt(f)
  BY <1>1, <1>2 DEF Adopt
<1>3. CASE \E value \in {"human", "empty"} : Type(f, value)
  BY <1>1, <1>3 DEF Type
<1> QED
  BY <1>2, <1>3

LEMMA InputIsKept ==
  ASSUME WorkbenchAssumption, WorkbenchInv, [WorkbenchNext]_workbenchVars
  PROVE  KeepsOperatorInput
<1> SUFFICES ASSUME NEW f \in Fields, Pending, form[f].locked, form'[f].origin # "HUMAN",
                    Pending', snapshot'.active # NoShot
             PROVE  form'[f].value = form[f].value
  BY DEF KeepsOperatorInput, Pending
<1>1. battle.state = "TURN_CAPTURE_PENDING" /\ battle'.state = "TURN_CAPTURE_PENDING"
  BY DEF Pending
<1>2. FormOK /\ battle.draft \in Drafts /\ battle.turn \in 0..MaxTurns
  BY WorkbenchTypes DEF WorkbenchInv
<1>3. CASE UNCHANGED form
  BY <1>3
<1>4. CASE \E g \in Fields : Adopt(g) \/ \E value \in {"human", "empty"} : Type(g, value)
  BY <1>2, <1>4, HandKeeps
<1>5. CASE \E frozen \in BOOLEAN : Retake(frozen)
  <2>1. form' = Bound(form, battle.draft, battle.turn)
    BY <1>5 DEF Retake
  <2> QED
    BY <1>2, <2>1, BindingKeeps DEF FormOK
<1>6. CASE Receive
  BY <1>6 DEF Receive, Fills, FormOK
<1>7. CASE Confirm
  BY <1>1, <1>7 DEF Confirm, WorkbenchInv, BattleOK, Battles
<1>8. CASE Reopen
  BY <1>8 DEF Reopen, WorkbenchInv, ShotsOK, Snapshots
<1>9. WorkbenchNext \/ UNCHANGED form
  BY DEF workbenchVars
<1> QED
  BY <1>1, <1>3, <1>4, <1>5, <1>6, <1>7, <1>8, <1>9
     DEF WorkbenchNext, StartTurn, Advise, TurnPage, RecordsAction, CommitAndAdvance, NextTurn,
         CommitOnly, EndMatch, Take, Emit

LEMMA ResultsAreKept ==
  ASSUME WorkbenchAssumption, WorkbenchInv, [WorkbenchNext]_workbenchVars
  PROVE  KeepsResults
<1> SUFFICES ASSUME NEW f \in Fields, form[f].origin = "RESULT", form'[f].origin = "OCR"
             PROVE  form[f].value = "empty"
  BY DEF KeepsResults
<1>1. FormOK /\ battle.draft \in Drafts
  BY WorkbenchTypes DEF WorkbenchInv
<1>2. form'[f] # form[f]
  OBVIOUS
<1>3. CASE \E g \in Fields : Adopt(g) \/ \E value \in {"human", "empty"} : Type(g, value)
  BY <1>1, <1>2, <1>3, HandKeeps
<1>4. CASE \E draft \in Drafts : CommitAndAdvance(draft)
  <2>1. PICK draft \in Drafts : CommitAndAdvance(draft)
    BY <1>4
  <2>2. form' = Bound(Emptied(form), draft, battle.turn + 1) /\ battle.turn + 1 \in 0..MaxTurns
    BY <2>1, WorkbenchTypes DEF CommitAndAdvance, NewTurnRendered
  <2>3. \A g \in Fields : FieldOK(Emptied(form)[g])
    BY <1>1, EmptiedIsOK DEF FormOK
  <2> QED
    BY <1>1, <2>2, <2>3, BindingKeeps, EmptiedKeepsOrigin
<1>5. ASSUME NEW fields, NEW draft \in Drafts, NEW turn \in 0..MaxTurns,
             form' = Bound(fields, draft, turn), fields = Reset \/ fields = form
      PROVE  FALSE
  <2>1. \A g \in Fields : FieldOK(fields[g])
    BY <1>1, <1>5, BlankIsOK DEF FormOK
  <2>2. \/ form'[f] = fields[f]
        \/ form'[f].origin \in {"CARRY", "RESULT"}
    BY <1>5, <2>1, BindingKeeps
  <2> QED
    BY <1>2, <1>5, <2>2 DEF Reset, Blank
<1>6. CASE \E frozen \in BOOLEAN : StartTurn(frozen) \/ Retake(frozen)
  <2>1. form' = Bound(Reset, battle.draft, 1) \/ form' = Bound(form, battle.draft, battle.turn)
    BY <1>6 DEF StartTurn, Retake
  <2>2. 1 \in 0..MaxTurns /\ battle.turn \in 0..MaxTurns
    BY WorkbenchTypes
  <2> QED
    BY <1>1, <1>5, <2>1, <2>2
<1>7. CASE \E draft \in Drafts : \E frozen \in BOOLEAN : NextTurn(draft, frozen)
  <2>1. PICK draft \in Drafts : \E frozen \in BOOLEAN : NextTurn(draft, frozen)
    BY <1>7
  <2>2. form' = Bound(Reset, draft, battle.turn + 1) /\ battle.turn + 1 \in 0..MaxTurns
    BY <2>1, WorkbenchTypes DEF NextTurn
  <2> QED
    BY <1>5, <2>2
<1>8. CASE Receive
  BY <1>2, <1>8 DEF Receive, Fills, FormOK
<1>9. CASE Confirm
  <2>1. PICK x : x = form[f]
    OBVIOUS
  <2>2. x \in FieldRecords
    BY <1>1, <2>1 DEF FormOK, FieldOK
  <2>3. form'[f] = [x EXCEPT !.value = "facts", !.turn = battle.turn]
    BY <1>9, <2>1 DEF Confirm
  <2> QED
    BY <2>1, <2>2, <2>3 DEF FieldRecords
<1>10. CASE Reopen
  <2>1. \/ form' = [g \in Fields |-> [Blank EXCEPT !.value = "facts", !.turn = battle.turn]]
        \/ form' = Bound(Reset, battle.draft, battle.turn)
        \/ form' = Reset
    BY <1>10 DEF Reopen
  <2>2. battle.turn \in 0..MaxTurns
    BY WorkbenchTypes
  <2>3. CASE form' = Bound(Reset, battle.draft, battle.turn)
    BY <1>1, <1>5, <2>2, <2>3
  <2>4. CASE form' = Reset
    BY <2>4 DEF Reset, Blank
  <2>5. CASE form' = [g \in Fields |-> [Blank EXCEPT !.value = "facts", !.turn = battle.turn]]
    <3>1. PICK x : x = [Blank EXCEPT !.value = "facts", !.turn = battle.turn]
      OBVIOUS
    <3>2. x.origin = "EMPTY"
      BY <2>2, <3>1, FactsAreBlank
    <3> QED
      BY <2>5, <3>1, <3>2
  <2> QED
    BY <2>1, <2>3, <2>4, <2>5
<1>11. form' # form
  BY <1>2
<1>12. WorkbenchNext
  BY <1>11 DEF workbenchVars
<1> QED
  BY <1>3, <1>4, <1>6, <1>7, <1>8, <1>9, <1>10, <1>11, <1>12
     DEF WorkbenchNext, Advise, TurnPage, CommitOnly, EndMatch, Take, Emit

----------------------------------------------------------------------------
(* The page's records are typed, and the lock is the operator's mark.      *)
THEOREM PageIsTyped == WorkbenchSpec => []WorkbenchTypeOK
BY WorkbenchAlways, WorkbenchIsTyped, PTL

(* What the page filled in by itself was read from a snapshot of the turn  *)
(* at hand (the identity check of _on_turn_snapshot_result).               *)
THEOREM CandidatesAreOfThisTurn == WorkbenchSpec => []FilledFromThisTurn
BY WorkbenchAlways, PTL DEF WorkbenchInv

(* The snapshot the page waits for is in the worker's slot, in its hands   *)
(* or among the results on their way.                                      *)
THEOREM SnapshotsAreNotLost == WorkbenchSpec => []SnapshotIsOnItsWay
BY WorkbenchAlways, PTL DEF WorkbenchInv

(* No step takes what the operator entered, and no candidate takes the     *)
(* place of a value that a result established.                             *)
THEOREM OperatorInputStays ==
  WorkbenchSpec => [][KeepsOperatorInput /\ KeepsResults]_workbenchVars
<1>1. WorkbenchInv /\ [WorkbenchNext]_workbenchVars
        => [KeepsOperatorInput /\ KeepsResults]_workbenchVars
  BY WorkbenchAssumption, InputIsKept, ResultsAreKept
<1> QED
  BY <1>1, WorkbenchAlways, PTL DEF WorkbenchSpec

-----------------------------------------------------------------------------
(***************************************************************************)
(* SelectionBoard: the selection page shows what belongs to its match.     *)
(***************************************************************************)
MatchNumbers == 0..MaxMatches
Selections == [match : MatchNumbers, state : {"NONE", "SELECTION_OPEN", "CLOSED"},
               facts : Teams \cup {NoTeam}, pending : BOOLEAN]
SlotRecords == [value : Values, origin : SlotOrigins, locked : BOOLEAN, of : MatchNumbers]
ReadingRecords == [of : MatchNumbers, assigned : [Slots -> Values], chips : SUBSET Names,
                   observed : BOOLEAN]
Boards == [reading : ReadingRecords, submitted : MatchNumbers, sends : BOOLEAN, filed : BOOLEAN]
Matchers == [here : BOOLEAN, pending : MatchNumbers, running : MatchNumbers]
Filings ==
  [match : MatchNumbers, of : MatchNumbers, values : Teams, origins : [Slots -> SlotOrigins]]

(* What was matched was matched for a match. *)
ReadingOK(r) == r \in ReadingRecords /\ (r.observed => r.of >= 1)

SlotOK(x) == x \in SlotRecords /\ (x.locked <=> x.origin \in HumanOrigins)

SlotsOK == slots = [s \in Slots |-> slots[s]] /\ \A s \in Slots : SlotOK(slots[s])

BoardOK ==
  /\ selection \in Selections /\ (InSelection => selection.match >= 1)
  /\ board \in Boards /\ ReadingOK(board.reading)
  /\ matcher \in Matchers
  /\ answers \in Seq(ReadingRecords)
  /\ \A i \in 1..Len(answers) : ReadingOK(answers[i])

(* The button is enabled for a complete team only, and a team that was     *)
(* reviewed is the one on display.                                         *)
TeamOnDisplay ==
  /\ board.sends => Shown(slots) \in Teams
  /\ InSelection /\ selection.facts # NoTeam => Shown(slots) = selection.facts

(* What was filed for the match at hand is its reviewed team, and nothing  *)
(* that could be filed for it again is on the page or on its way there.    *)
FiledOnce ==
  \A i \in 1..Len(filings) :
    /\ filings[i].match <= selection.match
    /\ filings[i].match = selection.match =>
         /\ selection.facts \in Teams
         /\ board.filed \/ (~board.reading.observed /\ board.submitted = 0)

BoardInv ==
  /\ SlotsOK /\ BoardOK /\ TeamOnDisplay
  /\ filings \in Seq(Filings) /\ FiledOnce
  /\ SlotsAreOfThisMatch /\ ScreenshotIsOnItsWay /\ FeedbackIsOfItsMatch

----------------------------------------------------------------------------
LEMMA BoardTypes ==
  ASSUME BoardAssumption, BoardInv
  PROVE  /\ MaxMatches \in Nat /\ selection \in Selections
         /\ selection.match \in MatchNumbers /\ selection.match \in Nat
         /\ selection.facts \in Teams \cup {NoTeam}
         /\ board \in Boards /\ board.reading \in ReadingRecords /\ ReadingOK(board.reading)
         /\ board.submitted \in Nat /\ board.submitted \in MatchNumbers
         /\ matcher \in Matchers /\ answers \in Seq(ReadingRecords) /\ filings \in Seq(Filings)
BY DEF BoardAssumption, BoardInv, BoardOK, Selections, Boards, MatchNumbers

LEMMA TeamsAreFull ==
  ASSUME BoardAssumption
  PROVE  /\ NoTeam \notin Teams /\ Shown(EmptySlots) \notin Teams
         /\ \A t \in Teams : t \in [Slots -> Names]
         /\ \A t \in Teams, s \in Slots : t[s] # Nothing
<1>1. PICK s \in Slots : TRUE
  BY DEF BoardAssumption
<1>2. NoTeam[s] = Nothing /\ Shown(EmptySlots)[s] = Nothing
  BY DEF NoTeam, Shown, EmptySlots, EmptySlot
<1> QED
  BY <1>1, <1>2 DEF Teams, Nothing, BoardAssumption

(* The send button set anew. *)
LEMMA SendsSet ==
  ASSUME NEW b \in Boards, NEW y \in BOOLEAN, NEW c, c = [b EXCEPT !.sends = y]
  PROVE  /\ c \in Boards /\ c.reading = b.reading /\ c.submitted = b.submitted
         /\ c.filed = b.filed /\ c.sends = y
<1>1. c \in Boards /\ c.reading = b.reading /\ c.submitted = b.submitted
  BY DEF Boards
<1>2. c.filed = b.filed
  BY DEF Boards
<1>3. c.sends = y
  BY DEF Boards
<1> QED
  BY <1>1, <1>2, <1>3

LEMMA RenderedIsOK ==
  ASSUME NEW b \in Boards, NEW ss, NEW sel, NEW c, c = Rendered(b, ss, sel)
  PROVE  /\ c \in Boards /\ c.reading = b.reading /\ c.submitted = b.submitted
         /\ c.filed = b.filed /\ (c.sends => Shown(ss) \in Teams)
<1> DEFINE y == MaySendRendered(ss, sel)
<1>1. y \in BOOLEAN /\ (y => Shown(ss) \in Teams)
  BY DEF MaySendRendered, MaySend, Confirmed
<1>2. c = [b EXCEPT !.sends = y]
  BY DEF Rendered
<1> HIDE DEF y
<1> QED
  BY <1>1, <1>2, SendsSet

Told(b, ss, sel) == [b EXCEPT !.sends = MaySend(ss, sel)]

LEMMA ToldIsOK ==
  ASSUME NEW b \in Boards, NEW ss, NEW sel, NEW c, c = Told(b, ss, sel)
  PROVE  /\ c \in Boards /\ c.reading = b.reading /\ c.submitted = b.submitted
         /\ c.filed = b.filed /\ (c.sends => Shown(ss) \in Teams)
<1> DEFINE y == MaySend(ss, sel)
<1>1. y \in BOOLEAN /\ (y => Shown(ss) \in Teams)
  BY DEF MaySend
<1>2. c = [b EXCEPT !.sends = y]
  BY DEF Told
<1> HIDE DEF y
<1> QED
  BY <1>1, <1>2, SendsSet

LEMMA EmptySlotsAreOK ==
  ASSUME BoardAssumption
  PROVE  /\ SlotOK(EmptySlot) /\ EmptySlot.value = Nothing
         /\ EmptySlots = [s \in Slots |-> EmptySlots[s]]
         /\ \A s \in Slots : EmptySlots[s] = EmptySlot
BY DEF EmptySlot, EmptySlots, SlotOK, SlotRecords, Values, SlotOrigins, HumanOrigins, MatchNumbers,
       BoardAssumption

(* Slots filled in by the matcher: only empty ones nobody has touched. *)
LEMMA FilledSlots ==
  ASSUME BoardAssumption, SlotsOK, NEW r \in ReadingRecords
  PROVE  /\ Filled(r) = [s \in Slots |-> Filled(r)[s]]
         /\ \A s \in Slots :
              /\ SlotOK(Filled(r)[s])
              /\ \/ Filled(r)[s] = slots[s]
                 \/ /\ slots[s].value = Nothing /\ ~slots[s].locked
                    /\ Filled(r)[s].of = r.of /\ Filled(r)[s].value # Nothing
<1>1. Filled(r) = [s \in Slots |-> Filled(r)[s]]
  BY DEF Filled
<1>2. ASSUME NEW s \in Slots
      PROVE  /\ SlotOK(Filled(r)[s])
             /\ \/ Filled(r)[s] = slots[s]
                \/ /\ slots[s].value = Nothing /\ ~slots[s].locked
                   /\ Filled(r)[s].of = r.of /\ Filled(r)[s].value # Nothing
  <2>1. CASE ~AutoFills(s, r)
    <3>1. Filled(r)[s] = slots[s]
      BY <2>1 DEF Filled
    <3> QED
      BY <3>1 DEF SlotsOK
  <2>2. CASE AutoFills(s, r)
    <3>1. PICK x : x = [value |-> r.assigned[s], origin |-> "OCR_AUTO", locked |-> FALSE,
                        of |-> r.of]
      OBVIOUS
    <3>2. Filled(r)[s] = x
      BY <2>2, <3>1 DEF Filled
    <3>3. r.assigned[s] \in Values /\ r.of \in MatchNumbers
      BY DEF ReadingRecords
    <3>4. x \in SlotRecords /\ x.origin = "OCR_AUTO" /\ x.locked = FALSE
      BY <3>1, <3>3 DEF SlotRecords, SlotOrigins
    <3>5. SlotOK(x)
      BY <3>4 DEF SlotOK, HumanOrigins
    <3>6. /\ slots[s].value = Nothing /\ ~slots[s].locked /\ x.of = r.of
          /\ x.value # Nothing
      BY <2>2, <3>1 DEF AutoFills
    <3> QED
      BY <3>2, <3>5, <3>6
  <2> QED
    BY <2>1, <2>2
<1> QED
  BY <1>1, <1>2

(* A team on display has no slot left to fill. *)
LEMMA FullStaysFull ==
  ASSUME BoardAssumption, SlotsOK, NEW r \in ReadingRecords, Shown(slots) \in Teams
  PROVE  Filled(r) = slots
<1>1. ASSUME NEW s \in Slots
      PROVE  slots[s].value # Nothing
  <2>1. Shown(slots)[s] # Nothing
    BY TeamsAreFull
  <2> QED
    BY <2>1 DEF Shown
<1>2. \A s \in Slots : Filled(r)[s] = slots[s]
  BY <1>1, FilledSlots
<1> QED
  BY <1>2, FilledSlots DEF SlotsOK

----------------------------------------------------------------------------
(***************************************************************************)
(* The steps.                                                              *)
(***************************************************************************)
(* A step that leaves the filings alone, the match as it is reviewed, and  *)
(* of the board what was filed and, if it is the same reading, that.       *)
LEMMA FilingsKept ==
  ASSUME BoardInv, UNCHANGED filings, selection'.match = selection.match,
         selection'.facts = selection.facts,
         board'.filed = board.filed,
         \/ board'.reading = board.reading /\ board'.submitted \in {0, board.submitted}
         \/ \A i \in 1..Len(filings) : filings[i].match = selection.match => board.filed
  PROVE  filings' \in Seq(Filings) /\ FiledOnce' /\ FeedbackIsOfItsMatch'
BY DEF BoardInv, FiledOnce, FeedbackIsOfItsMatch

(* The operator's edit of one slot. *)
LEMMA EditKeeps ==
  ASSUME BoardAssumption, BoardInv, Editable, NEW s \in Slots, NEW value \in Values,
         NEW origin \in {"MANUAL_TEXT", "CANDIDATE_CLICK"}, Edit(s, value, origin)
  PROVE  BoardInv'
<1>1. PICK x : x = [value |-> value, origin |-> origin, locked |-> TRUE,
                    of |-> selection.match]
  OBVIOUS
<1>2. /\ slots' = [slots EXCEPT ![s] = x]
      /\ board' = Told(board, slots', selection)
      /\ UNCHANGED <<selection, matcher, answers, filings>>
  BY <1>1, Zenon DEF Edit, Told
<1>3. SlotOK(x) /\ x.of = selection.match
  <2>1. selection.match \in MatchNumbers
    BY BoardTypes
  <2>2. x \in SlotRecords /\ x.locked = TRUE /\ x.origin \in HumanOrigins
    BY <1>1, <2>1 DEF SlotRecords, SlotOrigins, HumanOrigins
  <2> QED
    BY <1>1, <2>2 DEF SlotOK
<1>4. slots' = [t \in Slots |-> slots'[t]] /\ \A t \in Slots : slots'[t] \in {x, slots[t]}
  BY <1>2 DEF BoardInv, SlotsOK
<1>5. SlotsOK'
  BY <1>3, <1>4 DEF BoardInv, SlotsOK
<1>6. PICK ss : ss = slots'
  OBVIOUS
<1>7. /\ board' \in Boards /\ board'.reading = board.reading
      /\ board'.submitted = board.submitted /\ board'.filed = board.filed
      /\ board'.sends => Shown(ss) \in Teams
  <2>1. board \in Boards /\ board' = Told(board, ss, selection)
    BY <1>2, <1>6, BoardTypes
  <2> QED
    BY <2>1, ToldIsOK
<1>8. BoardOK'
  BY <1>2, <1>7 DEF BoardInv, BoardOK, InSelection
<1>9. TeamOnDisplay'
  BY <1>2, <1>6, <1>7 DEF TeamOnDisplay, Editable
<1>10. SlotsAreOfThisMatch'
  BY <1>2, <1>3, <1>4, <1>7 DEF BoardInv, SlotsAreOfThisMatch, InSelection
<1>11. ScreenshotIsOnItsWay'
  BY <1>2, <1>7 DEF BoardInv, ScreenshotIsOnItsWay
<1>12. filings' \in Seq(Filings) /\ FiledOnce' /\ FeedbackIsOfItsMatch'
  BY <1>2, <1>7, FilingsKept
<1> QED
  BY <1>5, <1>8, <1>9, <1>10, <1>11, <1>12 DEF BoardInv

(* Slots filled in from a reading of the match on the page. *)
LEMMA FillKeeps ==
  ASSUME BoardAssumption, BoardInv, InSelection, NEW r \in ReadingRecords,
         r.of = selection.match, slots' = Filled(r), selection' = selection,
         board'.sends => Shown(slots)' \in Teams
  PROVE  /\ SlotsOK' /\ TeamOnDisplay'
         /\ \A s \in Slots : slots'[s].value # Nothing => slots'[s].of = selection.match
<1>1. SlotsOK
  BY DEF BoardInv
<1>2. SlotsOK'
  BY <1>1, FilledSlots DEF SlotsOK
<1>3. TeamOnDisplay'
  <2>1. ASSUME selection.facts # NoTeam
        PROVE  slots' = slots /\ Shown(slots) = selection.facts
    BY <1>1, <2>1, FullStaysFull, BoardTypes DEF BoardInv, TeamOnDisplay
  <2> QED
    BY <2>1 DEF TeamOnDisplay, InSelection, Shown
<1>4. ASSUME NEW s \in Slots, slots'[s].value # Nothing
      PROVE  slots'[s].of = selection.match
  BY <1>1, <1>4, FilledSlots DEF BoardInv, SlotsAreOfThisMatch
<1> QED
  BY <1>2, <1>3, <1>4

LEMMA ApplyAllKeeps ==
  ASSUME BoardAssumption, BoardInv, ApplyAll
  PROVE  BoardInv'
<1>1. PICK r : r = board.reading
  OBVIOUS
<1>2. /\ slots' = Filled(r) /\ InSelection /\ r.observed
      /\ board' = Told(board, slots', selection)
      /\ UNCHANGED <<selection, matcher, answers, filings>>
  BY <1>1, Zenon DEF ApplyAll, Editable, Told
<1>3. PICK ss : ss = slots'
  OBVIOUS
<1>4. /\ board' \in Boards /\ board'.reading = board.reading
      /\ board'.submitted = board.submitted /\ board'.filed = board.filed
      /\ board'.sends => Shown(ss) \in Teams
  <2>1. board \in Boards /\ board' = Told(board, ss, selection)
    BY <1>2, <1>3, BoardTypes
  <2> QED
    BY <2>1, ToldIsOK
<1>5. r \in ReadingRecords /\ r.of = selection.match
  BY <1>1, <1>2, BoardTypes DEF ReadingOK, BoardInv, SlotsAreOfThisMatch
<1>6. /\ SlotsOK' /\ TeamOnDisplay'
      /\ \A s \in Slots : slots'[s].value # Nothing => slots'[s].of = selection.match
  BY <1>2, <1>3, <1>4, <1>5, FillKeeps
<1>7. BoardOK'
  BY <1>2, <1>4 DEF BoardInv, BoardOK, InSelection
<1>8. SlotsAreOfThisMatch'
  BY <1>2, <1>4, <1>6 DEF BoardInv, SlotsAreOfThisMatch, InSelection
<1>9. ScreenshotIsOnItsWay'
  BY <1>2, <1>4 DEF BoardInv, ScreenshotIsOnItsWay
<1>10. filings' \in Seq(Filings) /\ FiledOnce' /\ FeedbackIsOfItsMatch'
  BY <1>2, <1>4, FilingsKept
<1> QED
  BY <1>6, <1>7, <1>8, <1>9, <1>10 DEF BoardInv

(* The page drawn again, with the match as far on as it is.  What was      *)
(* reviewed stays, and the button is enabled for a team that is shown.     *)
LEMMA RenderKeeps ==
  ASSUME BoardAssumption, BoardInv, UNCHANGED <<slots, matcher, answers, filings>>,
         selection' \in Selections, selection'.match = selection.match,
         selection'.facts = selection.facts, InSelection' => InSelection,
         NEW sel, board' = Rendered(board, slots, sel)
  PROVE  BoardInv'
<1>1. /\ board' \in Boards /\ board'.reading = board.reading
      /\ board'.submitted = board.submitted /\ board'.filed = board.filed
      /\ board'.sends => Shown(slots) \in Teams
  BY BoardTypes, RenderedIsOK
<1>2. SlotsOK' /\ BoardOK'
  BY <1>1 DEF BoardInv, SlotsOK, BoardOK
<1>3. TeamOnDisplay' /\ SlotsAreOfThisMatch' /\ ScreenshotIsOnItsWay'
  BY <1>1 DEF BoardInv, TeamOnDisplay, SlotsAreOfThisMatch, ScreenshotIsOnItsWay, Shown
<1>4. filings' \in Seq(Filings) /\ FiledOnce' /\ FeedbackIsOfItsMatch'
  BY <1>1, FilingsKept
<1> QED
  BY <1>2, <1>3, <1>4 DEF BoardInv

LEMMA RendersKeep ==
  ASSUME BoardAssumption, BoardInv, RenderBoard \/ LeaveSelection \/ PressRefused \/ RequestFails
  PROVE  BoardInv'
<1>1. selection \in Selections
  BY BoardTypes
<1>2. CASE RenderBoard \/ PressRefused
  <2>1. /\ UNCHANGED <<selection, slots, matcher, answers, filings>>
        /\ board' = Rendered(board, slots, selection)
    BY <1>2 DEF RenderBoard, PressRefused
  <2> QED
    BY <1>1, <2>1, RenderKeeps DEF InSelection
<1>3. CASE LeaveSelection
  <2>1. /\ selection' = [selection EXCEPT !.state = "CLOSED", !.pending = FALSE]
        /\ UNCHANGED <<slots, matcher, answers, filings>>
        /\ \E sel : board' = Rendered(board, slots, sel)
    BY <1>3, Zenon DEF LeaveSelection
  <2>2. /\ selection' \in Selections /\ selection'.match = selection.match
        /\ selection'.facts = selection.facts /\ selection'.state = "CLOSED"
    BY <1>1, <2>1 DEF Selections
  <2> QED
    BY <2>1, <2>2, RenderKeeps DEF InSelection
<1>4. CASE RequestFails
  <2>1. /\ selection' = [selection EXCEPT !.pending = FALSE] /\ InSelection
        /\ UNCHANGED <<slots, matcher, answers, filings>>
        /\ \E sel : board' = Rendered(board, slots, sel)
    BY <1>4, Zenon DEF RequestFails
  <2>2. /\ selection' \in Selections /\ selection'.match = selection.match
        /\ selection'.facts = selection.facts
    BY <1>1, <2>1 DEF Selections
  <2> QED
    BY <2>1, <2>2, RenderKeeps
<1> QED
  BY <1>2, <1>3, <1>4

(* The worker's steps leave the page alone. *)
LEMMA PageUntouched ==
  ASSUME BoardAssumption, BoardInv, UNCHANGED <<selection, slots, board, filings>>,
         matcher' \in Matchers, answers' \in Seq(ReadingRecords),
         \A i \in 1..Len(answers') : ReadingOK(answers'[i]),
         ScreenshotIsOnItsWay'
  PROVE  BoardInv'
<1>1. SlotsOK' /\ BoardOK'
  BY DEF BoardInv, SlotsOK, BoardOK, InSelection
<1>2. TeamOnDisplay' /\ SlotsAreOfThisMatch'
  BY DEF BoardInv, TeamOnDisplay, SlotsAreOfThisMatch, InSelection, Shown
<1>3. filings' \in Seq(Filings) /\ FiledOnce' /\ FeedbackIsOfItsMatch'
  BY FilingsKept
<1> QED
  BY <1>1, <1>2, <1>3 DEF BoardInv

LEMMA TakeFrameKeeps ==
  ASSUME BoardAssumption, BoardInv, TakeFrame
  PROVE  BoardInv'
<1>1. /\ matcher' = [matcher EXCEPT !.running = matcher.pending, !.pending = 0]
      /\ matcher.running = 0 /\ UNCHANGED <<selection, slots, board, answers, filings>>
  BY Zenon DEF TakeFrame
<1>2. matcher \in Matchers /\ 0 \in MatchNumbers
  BY BoardTypes DEF MatchNumbers
<1>3. matcher' \in Matchers /\ matcher'.running = matcher.pending
  BY <1>1, <1>2 DEF Matchers
<1>4. ScreenshotIsOnItsWay'
  <2>1. SUFFICES ASSUME board.submitted # 0, board.submitted # matcher'.running
                 PROVE  \E i \in 1..Len(answers) : answers[i].of = board.submitted
    BY <1>1 DEF ScreenshotIsOnItsWay
  <2> QED
    BY <1>1, <1>3, <2>1 DEF BoardInv, ScreenshotIsOnItsWay
<1>5. answers' \in Seq(ReadingRecords) /\ \A i \in 1..Len(answers') : ReadingOK(answers'[i])
  BY <1>1, BoardTypes DEF BoardInv, BoardOK
<1> QED
  BY <1>1, <1>3, <1>4, <1>5, PageUntouched

LEMMA ReadingsAreOK ==
  ASSUME BoardAssumption, NEW m \in MatchNumbers, m # 0, NEW r \in Readings(m)
  PROVE  ReadingOK(r) /\ r.of = m
<1>1. m >= 1 /\ m \in MatchNumbers
  BY DEF MatchNumbers, BoardAssumption
<1>2. CASE r = [NoReading EXCEPT !.of = m]
  <2>1. NoReading \in ReadingRecords /\ NoReading.observed = FALSE
    BY DEF NoReading, ReadingRecords, NoTeam, Values, MatchNumbers, BoardAssumption
  <2>2. r \in ReadingRecords /\ r.of = m
    BY <1>1, <1>2, <2>1 DEF ReadingRecords
  <2> QED
    BY <1>1, <2>2 DEF ReadingOK
<1>3. CASE r \in [of : {m}, assigned : Assignments, chips : {Names}, observed : {TRUE}]
  <2>1. /\ r = [of |-> r.of, assigned |-> r.assigned, chips |-> r.chips,
                observed |-> r.observed]
        /\ r.of = m /\ r.assigned \in [Slots -> Values] /\ r.chips = Names /\ r.observed = TRUE
    BY <1>3 DEF Assignments
  <2>2. r \in ReadingRecords
    BY <1>1, <2>1 DEF ReadingRecords
  <2> QED
    BY <1>1, <2>1, <2>2 DEF ReadingOK
<1> QED
  BY <1>2, <1>3 DEF Readings

LEMMA MatchFrameKeeps ==
  ASSUME BoardAssumption, BoardInv, NEW r, MatchFrame(r)
  PROVE  BoardInv'
<1>1. /\ matcher' = [matcher EXCEPT !.running = 0] /\ answers' = Append(answers, r)
      /\ matcher.running # 0 /\ r \in Readings(matcher.running)
      /\ UNCHANGED <<selection, slots, board, filings>>
  BY Zenon DEF MatchFrame
<1>2. matcher \in Matchers /\ 0 \in MatchNumbers /\ matcher.running \in MatchNumbers
  BY BoardTypes DEF MatchNumbers, Matchers
<1>3. matcher' \in Matchers /\ matcher'.pending = matcher.pending
  BY <1>1, <1>2 DEF Matchers
<1>4. ReadingOK(r) /\ r.of = matcher.running /\ r \in ReadingRecords
  BY <1>1, <1>2, ReadingsAreOK DEF ReadingOK
<1>5. PICK q : q = Append(answers, r)
  OBVIOUS
<1>6. /\ q \in Seq(ReadingRecords)
      /\ \E j \in 1..Len(q) : q[j] = r
      /\ \A i \in 1..Len(answers) : \E j \in 1..Len(q) : q[j] = answers[i]
      /\ \A j \in 1..Len(q) : q[j] = r \/ \E i \in 1..Len(answers) : q[j] = answers[i]
  <2>1. answers \in Seq(ReadingRecords) /\ r \in ReadingRecords
    BY <1>4, BoardTypes
  <2> QED
    BY <1>5, <2>1, AppendKeeps
<1>7. answers' = q
  BY <1>1, <1>5
<1>8. \A i \in 1..Len(answers') : ReadingOK(answers'[i])
  BY <1>4, <1>6, <1>7 DEF BoardInv, BoardOK
<1>9. ScreenshotIsOnItsWay'
  <2>1. SUFFICES ASSUME board.submitted # 0, board.submitted # matcher'.pending
                 PROVE  \E j \in 1..Len(answers') : answers'[j].of = board.submitted
    BY <1>1 DEF ScreenshotIsOnItsWay
  <2>2. CASE board.submitted = matcher.running
    BY <1>4, <1>6, <1>7, <2>2
  <2>3. CASE \E i \in 1..Len(answers) : answers[i].of = board.submitted
    BY <1>6, <1>7, <2>3
  <2> QED
    BY <1>3, <2>1, <2>2, <2>3 DEF BoardInv, ScreenshotIsOnItsWay
<1> QED
  BY <1>1, <1>3, <1>6, <1>7, <1>8, <1>9, PageUntouched

(* An answer: of the frame that was submitted for the match on the page,   *)
(* or only taken off the queue.                                            *)
LEMMA ReceiveReadingKeeps ==
  ASSUME BoardAssumption, BoardInv, ReceiveReading
  PROVE  BoardInv'
<1>1. PICK r : r = Head(answers)
  OBVIOUS
<1>2. PICK n : n = (IF board.submitted = r.of THEN 0 ELSE board.submitted)
  OBVIOUS
<1>3. PICK spent : spent = [board EXCEPT !.submitted = n]
  OBVIOUS
<1>4. /\ answers # <<>> /\ answers' = Tail(answers) /\ UNCHANGED <<selection, matcher, filings>>
      /\ IF Accepts(r)
         THEN /\ slots' = Filled(r)
              /\ board' = Told([spent EXCEPT !.reading = r], slots', selection)
         ELSE board' = spent /\ UNCHANGED slots
  BY <1>1, <1>2, <1>3 DEF ReceiveReading, Told
<1>5. /\ answers' \in Seq(ReadingRecords)
      /\ \E i \in 1..Len(answers) : answers[i] = r
      /\ \A i \in 1..Len(answers) :
           answers[i] = r \/ \E j \in 1..Len(answers') : answers'[j] = answers[i]
      /\ \A j \in 1..Len(answers') : \E i \in 1..Len(answers) : answers'[j] = answers[i]
  <2>1. answers \in Seq(ReadingRecords)
    BY BoardTypes
  <2> QED
    BY <1>1, <1>4, <2>1, TailKeeps
<1>6. ReadingOK(r) /\ r \in ReadingRecords
      /\ \A i \in 1..Len(answers') : ReadingOK(answers'[i])
  BY <1>5 DEF BoardInv, BoardOK, ReadingOK
<1>7. n \in MatchNumbers /\ board \in Boards
  BY <1>2, BoardTypes DEF MatchNumbers
<1>8. /\ spent \in Boards /\ spent.reading = board.reading /\ spent.submitted = n
      /\ spent.filed = board.filed /\ spent.sends = board.sends
  <2>1. spent \in Boards /\ spent.reading = board.reading /\ spent.submitted = n
    BY <1>3, <1>7 DEF Boards
  <2>2. spent.filed = board.filed
    BY <1>3, <1>7 DEF Boards
  <2>3. spent.sends = board.sends
    BY <1>3, <1>7 DEF Boards
  <2> QED
    BY <2>1, <2>2, <2>3
<1>9. board'.submitted = n => ScreenshotIsOnItsWay'
  <2>1. SUFFICES ASSUME board'.submitted = n, n # 0,
                        board.submitted \notin {matcher.pending, matcher.running}
                 PROVE  \E j \in 1..Len(answers') : answers'[j].of = n
    BY <1>2, <1>4 DEF ScreenshotIsOnItsWay
  <2>2. board.submitted = n /\ n # r.of
    BY <1>2, <2>1
  <2>3. PICK i \in 1..Len(answers) : answers[i].of = n
    BY <2>1, <2>2 DEF BoardInv, ScreenshotIsOnItsWay
  <2> QED
    BY <1>5, <2>2, <2>3
<1>10. CASE Accepts(r)
  <2>1. PICK b : b = [spent EXCEPT !.reading = r]
    OBVIOUS
  <2>2. b \in Boards /\ b.reading = r /\ b.submitted = n
    BY <1>6, <1>8, <2>1 DEF Boards
  <2>3. b.filed = board.filed
    BY <1>6, <1>8, <2>1 DEF Boards
  <2>4. PICK ss : ss = slots'
    OBVIOUS
  <2>5. /\ board' \in Boards /\ board'.reading = r /\ board'.submitted = n
        /\ board'.filed = board.filed
        /\ board'.sends => Shown(ss) \in Teams
    <3>1. board' = Told(b, ss, selection)
      BY <1>4, <1>10, <2>1, <2>4
    <3> QED
      BY <2>2, <2>3, <3>1, ToldIsOK
  <2>6. r.of = selection.match /\ InSelection /\ board.submitted = r.of /\ selection.match >= 1
    BY <1>10 DEF Accepts, BoardInv, BoardOK
  <2>7. /\ SlotsOK' /\ TeamOnDisplay'
        /\ \A s \in Slots : slots'[s].value # Nothing => slots'[s].of = selection.match
    BY <1>4, <1>6, <1>10, <2>4, <2>5, <2>6, FillKeeps
  <2>8. BoardOK'
    BY <1>4, <1>5, <1>6, <2>5 DEF BoardInv, BoardOK, InSelection
  <2>9. SlotsAreOfThisMatch'
    BY <1>4, <2>5, <2>6, <2>7 DEF SlotsAreOfThisMatch, InSelection
  <2>10. \A i \in 1..Len(filings) : filings[i].match = selection.match => board.filed
    BY <2>6 DEF BoardInv, FiledOnce
  <2>11. filings' \in Seq(Filings) /\ FiledOnce' /\ FeedbackIsOfItsMatch'
    BY <1>4, <2>5, <2>10, FilingsKept
  <2> QED
    BY <1>9, <2>5, <2>7, <2>8, <2>9, <2>11 DEF BoardInv
<1>11. CASE ~Accepts(r)
  <2>1. board' = spent /\ slots' = slots
    BY <1>4, <1>11
  <2>2. SlotsOK' /\ TeamOnDisplay' /\ SlotsAreOfThisMatch'
    BY <1>4, <1>8, <2>1
       DEF BoardInv, SlotsOK, TeamOnDisplay, SlotsAreOfThisMatch, InSelection, Shown
  <2>3. BoardOK'
    BY <1>4, <1>5, <1>6, <1>8, <2>1 DEF BoardInv, BoardOK, InSelection
  <2>4. filings' \in Seq(Filings) /\ FiledOnce' /\ FeedbackIsOfItsMatch'
    BY <1>2, <1>4, <1>8, <2>1, FilingsKept
  <2> QED
    BY <1>8, <1>9, <2>1, <2>2, <2>3, <2>4 DEF BoardInv
<1> QED
  BY <1>10, <1>11

(***************************************************************************)
(* NEW MATCH and a window opened again: the page is cleared.               *)
(***************************************************************************)
LEMMA ClearedIsOK ==
  ASSUME BoardAssumption
  PROVE  /\ Cleared \in Boards /\ Cleared.reading = NoReading /\ ReadingOK(NoReading)
         /\ Cleared.submitted = 0 /\ Cleared.sends = FALSE /\ Cleared.filed = FALSE
         /\ NoReading.of = 0 /\ NoReading.observed = FALSE
<1>1. NoReading \in ReadingRecords /\ NoReading.observed = FALSE /\ NoReading.of = 0
  BY DEF NoReading, ReadingRecords, NoTeam, Values, MatchNumbers, BoardAssumption
<1>2. 0 \in MatchNumbers
  BY DEF MatchNumbers, BoardAssumption
<1> QED
  BY <1>1, <1>2 DEF Cleared, Boards, ReadingOK

LEMMA NewMatchKeeps ==
  ASSUME BoardAssumption, BoardInv, NEW frozen \in BOOLEAN, NewMatch(frozen)
  PROVE  BoardInv'
<1>1. PICK gen : gen = selection.match + 1
  OBVIOUS
<1>2. /\ selection' = [match |-> gen, state |-> "SELECTION_OPEN", facts |-> NoTeam,
                       pending |-> FALSE]
      /\ slots' = EmptySlots /\ selection.match < MaxMatches
      /\ \/ board' = [Cleared EXCEPT !.submitted = gen]
            /\ matcher' = [matcher EXCEPT !.pending = gen]
         \/ board' = Cleared /\ UNCHANGED matcher
      /\ UNCHANGED <<answers, filings>>
  BY <1>1 DEF NewMatch, QueuedForMatching
<1>3. gen \in MatchNumbers /\ gen >= 1 /\ gen > selection.match
  BY <1>1, <1>2, BoardTypes DEF MatchNumbers
<1>4. selection' \in Selections /\ selection'.match = gen /\ selection'.facts = NoTeam
  BY <1>2, <1>3 DEF Selections
<1>5. /\ board' \in Boards /\ board'.reading = NoReading /\ board'.sends = FALSE
      /\ matcher' \in Matchers
      /\ board'.submitted # 0 => matcher'.pending = board'.submitted
  <2>1. matcher \in Matchers
    BY BoardTypes
  <2>2. CASE board' = Cleared /\ UNCHANGED matcher
    BY <2>1, <2>2, ClearedIsOK
  <2>3. CASE /\ board' = [Cleared EXCEPT !.submitted = gen]
             /\ matcher' = [matcher EXCEPT !.pending = gen]
    <3>1. matcher' \in Matchers /\ matcher'.pending = gen
      BY <1>3, <2>1, <2>3 DEF Matchers
    <3>2. PICK c : c = Cleared
      OBVIOUS
    <3>3. c \in Boards /\ c.reading = NoReading /\ c.sends = FALSE
      BY <3>2, ClearedIsOK
    <3>4. board' = [c EXCEPT !.submitted = gen]
      BY <2>3, <3>2
    <3>5. board' \in Boards /\ board'.reading = NoReading /\ board'.submitted = gen
      BY <1>3, <3>3, <3>4 DEF Boards
    <3>6. board'.sends = FALSE
      BY <1>3, <3>3, <3>4 DEF Boards
    <3> QED
      BY <3>1, <3>5, <3>6
  <2> QED
    BY <1>2, <2>2, <2>3
<1>6. SlotsOK' /\ \A s \in Slots : slots'[s].value = Nothing
  BY <1>2, EmptySlotsAreOK DEF SlotsOK
<1>7. BoardOK'
  BY <1>2, <1>3, <1>4, <1>5, ClearedIsOK DEF BoardInv, BoardOK
<1>8. TeamOnDisplay' /\ SlotsAreOfThisMatch' /\ ScreenshotIsOnItsWay'
  BY <1>4, <1>5, <1>6, ClearedIsOK DEF TeamOnDisplay, SlotsAreOfThisMatch, ScreenshotIsOnItsWay
<1>9. \A i \in 1..Len(filings) : filings[i].match < gen
  <2>1. SUFFICES ASSUME NEW i \in 1..Len(filings)
                 PROVE  filings[i].match < gen
    OBVIOUS
  <2>2. filings[i] \in Filings /\ filings[i].match <= selection.match
    <3>1. filings \in Seq(Filings)
      BY BoardTypes
    <3> QED
      BY <3>1 DEF BoardInv, FiledOnce
  <2>3. filings[i].match \in Nat /\ gen \in Nat
    BY <1>3, <2>2 DEF Filings, MatchNumbers, BoardAssumption
  <2> QED
    BY <1>3, <2>2, <2>3, BoardTypes
<1>10. filings' \in Seq(Filings) /\ FiledOnce' /\ FeedbackIsOfItsMatch'
  <2>1. \A i \in 1..Len(filings) : filings[i].match <= gen /\ filings[i].match # gen
    <3>1. SUFFICES ASSUME NEW i \in 1..Len(filings)
                   PROVE  filings[i].match <= gen /\ filings[i].match # gen
      OBVIOUS
    <3>2. filings[i].match \in Nat /\ gen \in Nat
      <4>1. filings \in Seq(Filings)
        BY BoardTypes
      <4>2. filings[i] \in Filings
        BY <4>1
      <4> QED
        BY <1>3, <4>2 DEF Filings, MatchNumbers, BoardAssumption
    <3> QED
      BY <1>9, <3>2
  <2> QED
    BY <1>2, <1>4, <2>1 DEF BoardInv, FiledOnce, FeedbackIsOfItsMatch
<1> QED
  BY <1>6, <1>7, <1>8, <1>10 DEF BoardInv

LEMMA RestoredSlots ==
  ASSUME BoardAssumption, NEW facts \in Teams \cup {NoTeam}, NEW gen \in MatchNumbers, NEW ss,
         ss = SlotsFor(facts, gen)
  PROVE  /\ ss = [s \in Slots |-> ss[s]] /\ \A s \in Slots : SlotOK(ss[s])
         /\ \A s \in Slots : ss[s].value # Nothing => ss[s].of = gen
         /\ facts # NoTeam => Shown(ss) = facts
<1>1. CASE facts = NoTeam
  <2>1. ss = EmptySlots
    BY <1>1 DEF SlotsFor, EmptySlots
  <2> QED
    BY <1>1, <2>1, EmptySlotsAreOK
<1>2. CASE facts # NoTeam
  <2>1. facts \in [Slots -> Names]
    BY <1>2, TeamsAreFull
  <2>2. ss = [s \in Slots |-> [value |-> facts[s], origin |-> "RESTORED", locked |-> TRUE,
                               of |-> gen]]
    BY <1>2 DEF SlotsFor
  <2>3. ASSUME NEW s \in Slots
        PROVE  SlotOK(ss[s]) /\ ss[s].value = facts[s] /\ ss[s].of = gen
    <3>1. PICK x : x = [value |-> facts[s], origin |-> "RESTORED", locked |-> TRUE,
                        of |-> gen]
      OBVIOUS
    <3>2. ss[s] = x
      BY <2>2, <3>1
    <3>3. x \in SlotRecords /\ x.locked = TRUE /\ x.origin = "RESTORED"
      BY <2>1, <3>1 DEF SlotRecords, SlotOrigins, Values
    <3>4. SlotOK(x) /\ x.value = facts[s] /\ x.of = gen
      BY <3>1, <3>3 DEF SlotOK, HumanOrigins
    <3> QED
      BY <3>2, <3>4
  <2>4. Shown(ss) = facts
    BY <2>1, <2>3 DEF Shown
  <2> QED
    BY <2>2, <2>3, <2>4
<1> QED
  BY <1>1, <1>2

LEMMA ReopenBoardKeeps ==
  ASSUME BoardAssumption, BoardInv, NEW pending \in BOOLEAN, ReopenBoard(pending)
  PROVE  BoardInv'
<1>1. /\ slots' = SlotsFor(selection.facts, selection.match)
      /\ selection' = [selection EXCEPT !.pending = pending]
      /\ board' = Rendered(Cleared, slots', selection')
      /\ matcher' = [matcher EXCEPT !.pending = 0, !.running = 0]
      /\ answers' = <<>> /\ UNCHANGED filings
  BY Zenon DEF ReopenBoard
<1>2. selection \in Selections /\ matcher \in Matchers /\ 0 \in MatchNumbers
  BY BoardTypes DEF MatchNumbers
<1>3. /\ selection' \in Selections /\ selection'.match = selection.match
      /\ selection'.facts = selection.facts /\ selection'.state = selection.state
  BY <1>1, <1>2 DEF Selections
<1>4. PICK ss : ss = slots'
  OBVIOUS
<1>5. PICK sel : sel = selection'
  OBVIOUS
<1>6. /\ board' \in Boards /\ board'.reading = NoReading /\ board'.submitted = 0
      /\ board'.sends => Shown(ss) \in Teams
  <2>1. board' = Rendered(Cleared, ss, sel)
    BY <1>1, <1>4, <1>5
  <2>2. Cleared \in Boards /\ Cleared.reading = NoReading /\ Cleared.submitted = 0
    BY ClearedIsOK
  <2> QED
    BY <2>1, <2>2, RenderedIsOK
<1>7. matcher' \in Matchers
  BY <1>1, <1>2 DEF Matchers
<1>8. /\ ss = [s \in Slots |-> ss[s]] /\ \A s \in Slots : SlotOK(ss[s])
      /\ \A s \in Slots : ss[s].value # Nothing => ss[s].of = selection.match
      /\ selection.facts # NoTeam => Shown(ss) = selection.facts
  <2>1. PICK facts : facts = selection.facts
    OBVIOUS
  <2>2. PICK gen : gen = selection.match
    OBVIOUS
  <2>3. facts \in Teams \cup {NoTeam} /\ gen \in MatchNumbers
    BY <2>1, <2>2, BoardTypes
  <2>4. ss = SlotsFor(facts, gen)
    BY <1>1, <1>4, <2>1, <2>2
  <2> QED
    BY <2>1, <2>2, <2>3, <2>4, RestoredSlots
<1>9. SlotsOK'
  BY <1>4, <1>8 DEF SlotsOK
<1>10. BoardOK'
  <2>1. ReadingOK(NoReading)
    BY ClearedIsOK
  <2>2. answers' \in Seq(ReadingRecords) /\ Len(answers') = 0
    BY <1>1
  <2>3. InSelection' => selection'.match >= 1
    BY <1>3 DEF BoardInv, BoardOK, InSelection
  <2> QED
    BY <1>3, <1>6, <1>7, <2>1, <2>2, <2>3 DEF BoardOK
<1>11. TeamOnDisplay'
  <2>1. Shown(slots)' = Shown(ss)
    BY <1>4 DEF Shown
  <2> QED
    BY <1>3, <1>6, <1>8, <2>1 DEF TeamOnDisplay
<1>12. SlotsAreOfThisMatch' /\ ScreenshotIsOnItsWay'
  <2>1. NoReading.of = 0
    BY DEF NoReading
  <2> QED
    BY <1>3, <1>4, <1>6, <1>8, <2>1 DEF SlotsAreOfThisMatch, ScreenshotIsOnItsWay
<1>13. filings' \in Seq(Filings) /\ FiledOnce' /\ FeedbackIsOfItsMatch'
  <2>1. board'.submitted = 0 /\ ~board'.reading.observed
    BY <1>6, ClearedIsOK
  <2> QED
    BY <1>1, <1>3, <2>1 DEF BoardInv, FiledOnce, FeedbackIsOfItsMatch
<1> QED
  BY <1>9, <1>10, <1>11, <1>12, <1>13 DEF BoardInv

(***************************************************************************)
(* The trusted button.                                                     *)
(***************************************************************************)
LEMMA PressKeeps ==
  ASSUME BoardAssumption, BoardInv, NEW stored \in BOOLEAN, Press(stored)
  PROVE  BoardInv'
<1>1. PICK team : team = Shown(slots)
  OBVIOUS
<1>2. PICK sel : sel = selection'
  OBVIOUS
<1>3. /\ InSelection /\ board.sends /\ UNCHANGED <<slots, matcher, answers>>
      /\ selection' = [selection EXCEPT !.facts = team, !.pending = TRUE]
  BY <1>1, Zenon DEF Press
<1>4. team \in Teams /\ team # NoTeam
  BY <1>1, <1>3, TeamsAreFull DEF BoardInv, TeamOnDisplay
<1>5. /\ selection' \in Selections /\ selection'.match = selection.match
      /\ selection'.facts = team /\ selection'.state = selection.state
  <2>1. selection \in Selections
    BY BoardTypes
  <2> QED
    BY <1>3, <1>4, <2>1 DEF Selections
<1>6. PICK b : b = [board EXCEPT !.filed = TRUE]
  OBVIOUS
<1>7. /\ b \in Boards /\ b.reading = board.reading /\ b.submitted = board.submitted
      /\ b.filed = TRUE
  <2>1. board \in Boards
    BY BoardTypes
  <2>2. b \in Boards /\ b.reading = board.reading /\ b.submitted = board.submitted
    BY <1>6, <2>1 DEF Boards
  <2>3. b.filed = TRUE
    BY <1>6, <2>1 DEF Boards
  <2> QED
    BY <2>2, <2>3
<1>8. /\ board' \in Boards /\ board'.reading = board.reading
      /\ board'.submitted = board.submitted
      /\ board'.sends => Shown(slots) \in Teams
      /\ \/ ~board.filed /\ board.reading.observed /\ board'.filed
            /\ filings' = Append(filings, Feedback)
         \/ board'.filed = board.filed /\ UNCHANGED filings
  <2>1. CASE Files /\ stored
    <3>1. board' = Rendered(b, slots, sel) /\ filings' = Append(filings, Feedback)
      BY <1>2, <1>6, <2>1 DEF Press
    <3> QED
      BY <1>7, <2>1, <3>1, RenderedIsOK DEF Files
  <2>2. CASE ~(Files /\ stored)
    <3>1. board' = Rendered(board, slots, sel) /\ UNCHANGED filings
      BY <1>2, <2>2 DEF Press
    <3> QED
      BY <3>1, BoardTypes, RenderedIsOK
  <2> QED
    BY <2>1, <2>2
<1>9. SlotsOK' /\ BoardOK'
  BY <1>3, <1>5, <1>8 DEF BoardInv, SlotsOK, BoardOK, InSelection
<1>10. TeamOnDisplay' /\ SlotsAreOfThisMatch' /\ ScreenshotIsOnItsWay'
  BY <1>1, <1>3, <1>4, <1>5, <1>8
     DEF BoardInv, TeamOnDisplay, SlotsAreOfThisMatch, ScreenshotIsOnItsWay, InSelection, Shown
<1>11. ASSUME NEW i \in 1..Len(filings), filings[i].match = selection.match
       PROVE  filings[i].values = team
  <2>1. selection.facts \in Teams
    BY <1>11 DEF BoardInv, FiledOnce
  <2>2. selection.facts = team
    BY <1>1, <1>3, <2>1, TeamsAreFull DEF BoardInv, TeamOnDisplay
  <2> QED
    BY <1>11, <2>2 DEF BoardInv, FeedbackIsOfItsMatch
<1>12. CASE board'.filed = board.filed /\ UNCHANGED filings
  <2>1. filings' \in Seq(Filings) /\ FiledOnce' /\ FeedbackIsOfItsMatch'
    BY <1>4, <1>5, <1>8, <1>11, <1>12 DEF BoardInv, FiledOnce, FeedbackIsOfItsMatch
  <2> QED
    BY <1>9, <1>10, <2>1 DEF BoardInv
<1>13. CASE ~board.filed /\ board.reading.observed /\ board'.filed
            /\ filings' = Append(filings, Feedback)
  <2>1. PICK n : n = Len(filings)
    OBVIOUS
  <2>2. PICK f : f = Feedback
    OBVIOUS
  <2>3. f.match = selection.match /\ f.of = selection.match /\ f.values = team /\ f \in Filings
    <3>1. board.reading.of = selection.match
      BY <1>3, <1>13, BoardTypes DEF BoardInv, SlotsAreOfThisMatch, ReadingOK
    <3>2. [s \in Slots |-> slots[s].origin] \in [Slots -> SlotOrigins]
      BY DEF BoardInv, SlotsOK, SlotOK, SlotRecords
    <3>3. selection.match \in MatchNumbers
      BY BoardTypes
    <3> QED
      BY <1>1, <1>4, <2>2, <3>1, <3>2, <3>3 DEF Feedback, Filings
  <2>4. filings \in Seq(Filings) /\ filings' = Append(filings, f)
    BY <1>13, <2>2, BoardTypes
  <2>5. /\ filings' \in Seq(Filings) /\ Len(filings') = n + 1 /\ n \in Nat
        /\ \A i \in 1..n : filings'[i] = filings[i]
        /\ filings'[n + 1] = f
    BY <2>1, <2>3, <2>4, AppendProperties, LenProperties
  <2>6. ASSUME NEW i \in 1..n
        PROVE  filings[i].match < selection.match
    <3>1. filings[i].match # selection.match /\ filings[i].match <= selection.match
      BY <1>13, <2>1, <2>6 DEF BoardInv, FiledOnce
    <3>2. filings[i] \in Filings
      BY <2>1, <2>4
    <3>3. filings[i].match \in Nat /\ selection.match \in Nat
      BY <3>2, BoardTypes DEF Filings, MatchNumbers, BoardAssumption
    <3> QED
      BY <3>1, <3>3
  <2>7. FiledOnce'
    <3>1. SUFFICES ASSUME NEW i \in 1..(n + 1)
                   PROVE  filings'[i].match <= selection.match
      BY <1>4, <1>5, <1>13, <2>5 DEF FiledOnce
    <3>2. CASE i = n + 1
      BY <2>3, <2>5, <3>2, BoardTypes
    <3>3. CASE i \in 1..n
      BY <2>1, <2>5, <3>3 DEF BoardInv, FiledOnce
    <3> QED
      BY <2>5, <3>2, <3>3
  <2>8. FeedbackIsOfItsMatch'
    <3>1. ASSUME NEW i \in 1..(n + 1)
          PROVE  /\ filings'[i].of = filings'[i].match
                 /\ filings'[i].match = selection.match => filings'[i].values = team
      <4>1. CASE i = n + 1
        BY <2>3, <2>5, <4>1
      <4>2. CASE i \in 1..n
        BY <1>11, <2>1, <2>5, <4>2 DEF BoardInv, FeedbackIsOfItsMatch
      <4> QED
        BY <2>5, <4>1, <4>2
    <3>2. ASSUME NEW i \in 1..(n + 1), NEW j \in 1..(n + 1), i < j
          PROVE  filings'[i].match < filings'[j].match
      <4>1. i \in 1..n /\ filings'[i] = filings[i]
        BY <2>5, <3>2
      <4>2. CASE j = n + 1
        BY <2>3, <2>5, <2>6, <4>1, <4>2
      <4>3. CASE j \in 1..n
        BY <2>1, <2>5, <3>2, <4>1, <4>3 DEF BoardInv, FeedbackIsOfItsMatch
      <4> QED
        BY <2>5, <4>2, <4>3
    <3> QED
      BY <1>5, <2>5, <3>1, <3>2 DEF FeedbackIsOfItsMatch
  <2> QED
    BY <1>9, <1>10, <2>5, <2>7, <2>8 DEF BoardInv
<1> QED
  BY <1>8, <1>12, <1>13

----------------------------------------------------------------------------
LEMMA BoardInitially ==
  ASSUME BoardAssumption, BoardInit
  PROVE  BoardInv
<1>1. /\ selection = [match |-> 0, state |-> "NONE", facts |-> NoTeam, pending |-> FALSE]
      /\ slots = EmptySlots /\ board = Cleared /\ answers = <<>> /\ filings = <<>>
  BY DEF BoardInit
<1>2. 0 \in MatchNumbers
  BY DEF MatchNumbers, BoardAssumption
<1>3. selection \in Selections /\ selection.match = 0 /\ selection.facts = NoTeam
      /\ ~InSelection
  BY <1>1, <1>2 DEF Selections, InSelection
<1>4. matcher \in Matchers
  BY <1>2 DEF BoardInit, Matchers
<1>5. SlotsOK
  BY <1>1, EmptySlotsAreOK DEF SlotsOK
<1>6. /\ board \in Boards /\ ReadingOK(board.reading) /\ board.submitted = 0
      /\ board.sends = FALSE
  BY <1>1, ClearedIsOK
<1>7. /\ answers \in Seq(ReadingRecords) /\ Len(answers) = 0
      /\ filings \in Seq(Filings) /\ Len(filings) = 0
  BY <1>1
<1>8. BoardOK
  BY <1>3, <1>4, <1>6, <1>7 DEF BoardOK
<1>9. TeamOnDisplay /\ SlotsAreOfThisMatch /\ ScreenshotIsOnItsWay
  BY <1>3, <1>6 DEF TeamOnDisplay, SlotsAreOfThisMatch, ScreenshotIsOnItsWay
<1>10. FiledOnce /\ FeedbackIsOfItsMatch
  BY <1>7 DEF FiledOnce, FeedbackIsOfItsMatch
<1> QED
  BY <1>5, <1>7, <1>8, <1>9, <1>10 DEF BoardInv

LEMMA BoardIdles ==
  ASSUME BoardInv, UNCHANGED boardVars
  PROVE  BoardInv'
<1>1. UNCHANGED <<selection, slots, board, matcher, answers, filings>>
  BY DEF boardVars
<1>2. SlotsOK' /\ BoardOK'
  BY <1>1 DEF BoardInv, SlotsOK, BoardOK, InSelection
<1>3. TeamOnDisplay' /\ SlotsAreOfThisMatch' /\ ScreenshotIsOnItsWay'
  BY <1>1
     DEF BoardInv, TeamOnDisplay, SlotsAreOfThisMatch, ScreenshotIsOnItsWay, InSelection, Shown
<1>4. filings' \in Seq(Filings) /\ FiledOnce' /\ FeedbackIsOfItsMatch'
  BY <1>1 DEF BoardInv, FiledOnce, FeedbackIsOfItsMatch
<1> QED
  BY <1>2, <1>3, <1>4 DEF BoardInv

(* An edit of a slot, typed or clicked. *)
LEMMA Edits ==
  ASSUME NEW s \in Slots,
         (\E v \in Values : TypeName(s, v)) \/ (\E v \in Names : Chip(s, v))
  PROVE  Editable /\ \E v \in Values, origin \in {"MANUAL_TEXT", "CANDIDATE_CLICK"} :
                        Edit(s, v, origin)
BY DEF TypeName, Chip, Values

LEMMA BoardStep ==
  ASSUME BoardAssumption, BoardInv, [BoardNext]_boardVars
  PROVE  BoardInv'
<1>1. CASE \E frozen \in BOOLEAN : NewMatch(frozen)
  BY <1>1, NewMatchKeeps
<1>2. CASE RenderBoard \/ LeaveSelection \/ PressRefused \/ RequestFails
  BY <1>2, RendersKeep
<1>3. CASE \E s \in Slots : (\E v \in Values : TypeName(s, v)) \/ (\E v \in Names : Chip(s, v))
  BY <1>3, Edits, EditKeeps
<1>4. CASE MatcherStep
  BY <1>4, TakeFrameKeeps, MatchFrameKeeps, ReceiveReadingKeeps DEF MatcherStep
<1>5. CASE ApplyAll
  BY <1>5, ApplyAllKeeps
<1>6. CASE \E stored \in BOOLEAN : Press(stored)
  BY <1>6, PressKeeps
<1>7. CASE \E pending \in BOOLEAN : ReopenBoard(pending)
  BY <1>7, ReopenBoardKeeps
<1>8. CASE UNCHANGED boardVars
  BY <1>8, BoardIdles
<1> QED
  BY <1>1, <1>2, <1>3, <1>4, <1>5, <1>6, <1>7, <1>8 DEF BoardNext

(* The invariant of the selection page, on every behaviour. *)
LEMMA BoardAlways == BoardSpec => []BoardInv
<1>1. BoardInit => BoardInv
  BY BoardInitially, BoardAssumption
<1>2. BoardInv /\ [BoardNext]_boardVars => BoardInv'
  BY BoardStep, BoardAssumption
<1> QED
  BY <1>1, <1>2, PTL DEF BoardSpec

(* The types of the page, of its worker and of what is filed. *)
THEOREM BoardIsTyped == BoardSpec => []BoardTypeOK
<1>1. ASSUME BoardInv
      PROVE  BoardTypeOK
  <2>1. selection.match \in 0..MaxMatches /\ selection.facts \in Teams \cup {NoTeam}
    BY <1>1, BoardTypes, BoardAssumption DEF MatchNumbers
  <2>2. ASSUME NEW s \in Slots
        PROVE  /\ slots[s] \in SlotRecords
               /\ slots[s].origin = "OCR_AUTO" => ~slots[s].locked
    BY <1>1 DEF BoardInv, SlotsOK, SlotOK, HumanOrigins
  <2>3. slots \in [Slots -> SlotRecords]
    BY <1>1, <2>2 DEF BoardInv, SlotsOK
  <2>4. board.submitted \in 0..MaxMatches /\ board.reading.of \in 0..MaxMatches
    BY <1>1, BoardTypes, BoardAssumption DEF MatchNumbers, ReadingRecords
  <2>5. {matcher.pending, matcher.running} \subseteq 0..MaxMatches
    <3>1. matcher \in Matchers
      BY <1>1, BoardTypes, BoardAssumption
    <3> QED
      BY <3>1 DEF Matchers, MatchNumbers
  <2> QED
    BY <2>1, <2>2, <2>3, <2>4, <2>5 DEF BoardTypeOK, SlotRecords, MatchNumbers
<1> QED
  BY <1>1, BoardAlways, PTL

(* Whatever comes when, and out of which thread, the names and the         *)
(* candidates on the page are of the match on the page.                    *)
THEOREM NamesAreOfThisMatch == BoardSpec => []SlotsAreOfThisMatch
<1>1. BoardInv => SlotsAreOfThisMatch
  BY DEF BoardInv
<1> QED
  BY <1>1, BoardAlways, PTL

(* The screenshot the page waits for is never lost between the worker's    *)
(* queue, its thread and the answers posted to the window.                 *)
THEOREM ScreenshotsAreNotLost == BoardSpec => []ScreenshotIsOnItsWay
<1>1. BoardInv => ScreenshotIsOnItsWay
  BY DEF BoardInv
<1> QED
  BY <1>1, BoardAlways, PTL

(* Feedback carries the names that were sent, of the match its images are  *)
(* cut from, and is filed once for a match, however often the button is    *)
(* pressed, the store fails or the window is opened again.                 *)
THEOREM FeedbackIsFiledOnce == BoardSpec => []FeedbackIsOfItsMatch
<1>1. BoardInv => FeedbackIsOfItsMatch
  BY DEF BoardInv
<1> QED
  BY <1>1, BoardAlways, PTL

(* A reading applied to the slots leaves what the operator entered. *)
LEMMA FillKeepsOperatorSlots ==
  ASSUME BoardAssumption, BoardInv, NEW r \in ReadingRecords, slots' = Filled(r)
  PROVE  KeepsOperatorSlots
<1>1. SUFFICES ASSUME NEW s \in Slots,
                      slots[s].origin \in {"MANUAL_TEXT", "CANDIDATE_CLICK"}
               PROVE  slots'[s] = slots[s]
  BY DEF KeepsOperatorSlots
<1>2. SlotsOK
  BY DEF BoardInv
<1>3. slots[s].locked
  BY <1>1, <1>2 DEF SlotsOK, SlotOK, HumanOrigins
<1> QED
  BY <1>2, <1>3, FilledSlots

LEMMA EditKeepsOperatorSlots ==
  ASSUME BoardInv, NEW s \in Slots, NEW v \in Values,
         NEW origin \in {"MANUAL_TEXT", "CANDIDATE_CLICK"}, Edit(s, v, origin)
  PROVE  KeepsOperatorSlots
<1>1. PICK x : x = [value |-> v, origin |-> origin, locked |-> TRUE, of |-> selection.match]
  OBVIOUS
<1>2. slots' = [slots EXCEPT ![s] = x]
  BY <1>1 DEF Edit
<1>3. \A t \in Slots : slots'[t] = IF t = s THEN x ELSE slots[t]
  BY <1>2 DEF BoardInv, SlotsOK
<1>4. x.origin \in {"MANUAL_TEXT", "CANDIDATE_CLICK"}
  BY <1>1
<1> QED
  BY <1>3, <1>4 DEF KeepsOperatorSlots

LEMMA StepKeepsOperatorSlots ==
  ASSUME BoardAssumption, BoardInv, BoardNext
  PROVE  KeepsOperatorSlots
<1>1. CASE \E frozen \in BOOLEAN : NewMatch(frozen)
  <2>1. selection'.match = selection.match + 1
    BY <1>1 DEF NewMatch
  <2> QED
    BY <2>1, BoardTypes DEF KeepsOperatorSlots
<1>2. CASE UNCHANGED slots
  BY <1>2 DEF KeepsOperatorSlots
<1>3. CASE \E s \in Slots : (\E v \in Values : TypeName(s, v)) \/ (\E v \in Names : Chip(s, v))
  BY <1>3, Edits, EditKeepsOperatorSlots
<1>4. CASE ReceiveReading /\ slots' # slots
  <2>1. slots' = Filled(Head(answers)) /\ answers # <<>>
    BY <1>4 DEF ReceiveReading
  <2>2. Head(answers) \in ReadingRecords
    <3>1. answers \in Seq(ReadingRecords)
      BY BoardTypes
    <3> QED
      BY <2>1, <3>1
  <2> QED
    BY <2>1, <2>2, FillKeepsOperatorSlots
<1>5. CASE ApplyAll
  <2>1. slots' = Filled(board.reading) /\ board.reading \in ReadingRecords
    BY <1>5, BoardTypes DEF ApplyAll
  <2> QED
    BY <2>1, FillKeepsOperatorSlots
<1>6. CASE \E pending \in BOOLEAN : ReopenBoard(pending)
  BY <1>6 DEF KeepsOperatorSlots, ReopenBoard
<1>7. CASE LeaveSelection \/ PressRefused \/ RequestFails \/ RenderBoard
           \/ (\E stored \in BOOLEAN : Press(stored))
  BY <1>2, <1>7 DEF LeaveSelection, PressRefused, RequestFails, RenderBoard, Press
<1>8. CASE MatcherStep
  BY <1>2, <1>4, <1>8 DEF MatcherStep, TakeFrame, MatchFrame
<1> QED
  BY <1>1, <1>3, <1>5, <1>6, <1>7, <1>8 DEF BoardNext

(* What the operator typed or clicked is never overwritten by the matcher, *)
(* at whatever moment its answer arrives.                                  *)
THEOREM OperatorSlotsStay == BoardSpec => [][KeepsOperatorSlots]_boardVars
<1>1. BoardInv /\ [BoardNext]_boardVars => [KeepsOperatorSlots]_boardVars
  BY StepKeepsOperatorSlots, BoardAssumption
<1> QED
  BY <1>1, BoardAlways, PTL DEF BoardSpec

-----------------------------------------------------------------------------
(***************************************************************************)
(* TeamBuilds: the details of a team stay with their team.                 *)
(***************************************************************************)
TeamRows == [team : OwnTeams, build : Builds \cup {NoBuild}]
TeamPages == [fields : Typed, build : Builds \cup {NoBuild}]

(* The facts of a match are typed like a row, once they are confirmed.     *)
MatchTypeOK ==
  /\ match \in [state : {"none", "open", "confirmed"}, team : Typed,
                build : Builds \cup {NoBuild}]
  /\ match.state # "confirmed" => match.build = NoBuild

(* What the controller holds is what the window shows, or nothing.         *)
DraftIsShown == drafted \in {NoBuild, teamPage.build}

TeamInv == TeamTypeOK /\ MatchTypeOK /\ KeptBuildsFit /\ DraftIsShown

-----------------------------------------------------------------------------
(* Blank fields can be typed, and a row is never the mark of no row. *)
LEMMA BlankIsTyped == BlankFields \in Typed
  BY DEF BlankFields, Typed

(* What is kept of details for given names is nothing, or the details of   *)
(* those names.                                                            *)
LEMMA NamedBuild ==
  ASSUME NEW b \in Builds \cup {NoBuild}, NEW t
  PROVE  /\ OnlyIfNamed(b, t) \in Builds \cup {NoBuild}
         /\ OnlyIfNamed(b, t) = NoBuild \/ OnlyIfNamed(b, t).names = t
  BY DEF OnlyIfNamed, NamesMatch

(* Rendering shows the details it is given, or leaves the window's.        *)
LEMMA ShowsIsPage ==
  ASSUME NEW p \in TeamPages, NEW view \in Builds \cup {NoBuild},
         NEW m \in [state : {"none", "open", "confirmed"}, team : Typed,
                    build : Builds \cup {NoBuild}]
  PROVE  /\ Shows(p, view, m) \in TeamPages
         /\ m.state # "confirmed" => view \in {NoBuild, Shows(p, view, m).build}
         /\ m.state = "confirmed" => Shows(p, view, m).build = m.build
  BY DEF Shows, TeamPages

LEMMA TeamInitKeeps == TeamInit => TeamInv
<1> SUFFICES ASSUME TeamInit PROVE TeamInv
  OBVIOUS
<1>1. TeamTypeOK
  BY BlankIsTyped DEF TeamInit, TeamTypeOK, NoMatch
<1>2. MatchTypeOK
  BY BlankIsTyped DEF TeamInit, MatchTypeOK, NoMatch
<1>3. KeptBuildsFit
  BY DEF TeamInit, KeptBuildsFit, Exported, NoPreset, NoMatch, OnlyIfNamed, NamesMatch
<1>4. DraftIsShown
  BY DEF TeamInit, DraftIsShown
<1> QED
  BY <1>1, <1>2, <1>3, <1>4 DEF TeamInv

(* The file of a page holds only details of its names. *)
LEMMA ExportFits == ASSUME teamPage \in TeamPages
                    PROVE  Exported.build = NoBuild \/ Exported.build.names = Exported.team
<1>1. CASE FieldsAreEditable /\ IsTeam(teamPage.fields)
  <2>1. /\ Exported.team = teamPage.fields
        /\ Exported.build = OnlyIfNamed(teamPage.build, teamPage.fields)
    BY <1>1 DEF Exported
  <2> QED
    BY <2>1, NamedBuild DEF TeamPages
<1>2. CASE ~ (FieldsAreEditable /\ IsTeam(teamPage.fields))
  BY <1>2 DEF Exported, NoPreset
<1> QED
  BY <1>1, <1>2
-----------------------------------------------------------------------------
(* One lemma per action: what is kept is of its own team.  Each gives the  *)
(* new page and what is stored with its type; the rest is TeamStepKeeps.       *)

(* The parts of the invariant a step has to bring about.                   *)
LEMMA Together ==
  ASSUME presets' \in [PresetNames -> TeamRows \cup {NoPreset}],
         \A n \in PresetNames : presets'[n].build = NoBuild
                               \/ presets'[n].build.names = presets'[n].team,
         lastUsed' \in {n \in PresetNames : presets'[n] # NoPreset} \cup {Missing},
         teamPage' \in TeamPages, drafted' \in Builds \cup {NoBuild},
         drafted' \in {NoBuild, teamPage'.build},
         MatchTypeOK', match'.build = NoBuild \/ match'.build.names = match'.team
  PROVE  TeamInv'
<1>1. TeamTypeOK'
  BY DEF TeamTypeOK, MatchTypeOK, TeamRows, TeamPages
<1>4. Exported'.build = NoBuild \/ Exported'.build.names = Exported'.team
  <2>1. CASE (FieldsAreEditable /\ IsTeam(teamPage.fields))'
    <3>1. /\ Exported'.team = teamPage'.fields
          /\ Exported'.build = OnlyIfNamed(teamPage'.build, teamPage'.fields)
      BY <2>1 DEF Exported
    <3> QED
      BY <3>1, NamedBuild DEF TeamPages
  <2>2. CASE ~ (FieldsAreEditable /\ IsTeam(teamPage.fields))'
    BY <2>2 DEF Exported, NoPreset
  <2> QED
    BY <2>1, <2>2
<1>5. KeptBuildsFit'
  BY <1>4 DEF KeptBuildsFit
<1>6. DraftIsShown'
  BY DEF DraftIsShown
<1> QED
  BY <1>1, <1>5, <1>6 DEF TeamInv

(* What the invariant says of the state before a step.                     *)
LEMMA Before ==
  ASSUME TeamInv
  PROVE  /\ presets \in [PresetNames -> TeamRows \cup {NoPreset}]
         /\ \A n \in PresetNames : presets[n].build = NoBuild
                                  \/ presets[n].build.names = presets[n].team
         /\ lastUsed \in {n \in PresetNames : presets[n] # NoPreset} \cup {Missing}
         /\ teamPage \in TeamPages /\ drafted \in Builds \cup {NoBuild}
         /\ drafted \in {NoBuild, teamPage.build}
         /\ match \in [state : {"none", "open", "confirmed"}, team : Typed,
                       build : Builds \cup {NoBuild}]
  BY DEF TeamInv, TeamTypeOK, MatchTypeOK, KeptBuildsFit, DraftIsShown, TeamRows, TeamPages

(* A step that leaves the match alone.                                     *)
LEMMA MatchStays ==
  ASSUME TeamInv, match' = match
  PROVE  MatchTypeOK' /\ (match'.build = NoBuild \/ match'.build.names = match'.team)
  BY DEF TeamInv, MatchTypeOK, KeptBuildsFit

LEMMA TypeOwnNameKeeps ==
  ASSUME TeamInv, NEW p \in Places, NEW n \in Pokemon \cup {Missing}, TypeOwnName(p, n)
  PROVE  TeamInv'
<1> DEFINE fields == [teamPage.fields EXCEPT ![p] = n]
<1>1. fields \in Typed
  BY Before DEF Typed, TeamPages
<1>2. /\ teamPage' \in TeamPages /\ drafted' \in Builds \cup {NoBuild}
      /\ drafted' \in {NoBuild, teamPage'.build}
  <2> HIDE DEF fields
  <2>1. CASE teamPage.build = NoBuild \/ NamesMatch(teamPage.build, fields)
    <3>1. teamPage' = [fields |-> fields, build |-> teamPage.build] /\ drafted' = drafted
      BY <2>1 DEF TypeOwnName, fields
    <3> QED
      BY <3>1, <1>1, Before DEF TeamPages
  <2>2. CASE ~ (teamPage.build = NoBuild \/ NamesMatch(teamPage.build, fields))
    <3>1. teamPage' = [fields |-> fields, build |-> NoBuild] /\ drafted' = NoBuild
      BY <2>2 DEF TypeOwnName, fields
    <3> QED
      BY <3>1, <1>1 DEF TeamPages
  <2> QED
    BY <2>1, <2>2
<1>3. presets' = presets /\ lastUsed' = lastUsed /\ match' = match
  BY DEF TypeOwnName
<1> QED
  BY <1>2, <1>3, Before, MatchStays, Together

LEMMA EditDetailsKeeps ==
  ASSUME TeamInv, NEW b \in Builds, EditDetails(b)
  PROVE  TeamInv'
<1> DEFINE p == [teamPage EXCEPT !.build = b]
<1>1. p \in TeamPages /\ match.state # "confirmed"
  BY Before DEF TeamPages, EditDetails, FieldsAreEditable
<1>2. teamPage' = Shows(p, b, match) /\ drafted' = b
  BY DEF EditDetails
<1>3. teamPage' \in TeamPages /\ drafted' \in {NoBuild, teamPage'.build}
  <2> HIDE DEF p
  <2> QED
    BY <1>1, <1>2, ShowsIsPage, Before
<1>4. presets' = presets /\ lastUsed' = lastUsed /\ match' = match
  BY DEF EditDetails
<1> QED
  BY <1>2, <1>3, <1>4, Before, MatchStays, Together

(* The row to store, when it fits, is a row whose details are of its team. *)
LEMMA RowFits ==
  ASSUME TeamInv, Fits
  PROVE  /\ RowToStore \in TeamRows
         /\ RowToStore.build = NoBuild \/ RowToStore.build.names = RowToStore.team
  BY Before DEF Fits, RowToStore, TeamRows, TeamPages, BuildFits, NamesMatch, OwnTeams

LEMMA NotBlank == \A r \in TeamRows : r # NoPreset
<1> SUFFICES ASSUME NEW r \in TeamRows PROVE r # NoPreset
  OBVIOUS
<1>1. PICK p \in Places : TRUE
  BY PlacesAssumption
<1>2. r.team \in Typed /\ r.team[p] # Missing
  BY <1>1 DEF TeamRows, OwnTeams, IsTeam, Typed
<1> QED
  BY <1>2 DEF NoPreset, BlankFields

LEMMA SavePresetKeeps ==
  ASSUME TeamInv, NEW n \in PresetNames, SavePreset(n)
  PROVE  TeamInv'
<1>1. match.state # "confirmed" /\ match' = match /\ lastUsed' = lastUsed /\ drafted' = drafted
  BY DEF SavePreset, FieldsAreEditable
<1>2. teamPage' \in TeamPages /\ drafted' \in {NoBuild, teamPage'.build}
  BY <1>1, ShowsIsPage, Before DEF SavePreset
<1>3. CASE Fits /\ presets[n] = NoPreset
  <2>1. presets' = [presets EXCEPT ![n] = RowToStore]
    BY <1>3 DEF SavePreset
  <2>2. /\ presets' \in [PresetNames -> TeamRows \cup {NoPreset}]
        /\ \A m \in PresetNames : presets'[m].build = NoBuild
                                  \/ presets'[m].build.names = presets'[m].team
        /\ lastUsed' \in {m \in PresetNames : presets'[m] # NoPreset} \cup {Missing}
    BY <1>1, <1>3, <2>1, Before, RowFits, NotBlank
  <2> QED
    BY <1>1, <1>2, <2>2, Before, MatchStays, Together
<1>4. CASE ~ (Fits /\ presets[n] = NoPreset)
  <2>1. presets' = presets
    BY <1>4 DEF SavePreset
  <2> QED
    BY <1>1, <1>2, <2>1, Before, MatchStays, Together
<1> QED
  BY <1>3, <1>4

LEMMA UpdatePresetKeeps ==
  ASSUME TeamInv, NEW old \in PresetNames, NEW new \in PresetNames, UpdatePreset(old, new)
  PROVE  TeamInv'
<1> DEFINE stores == Fits /\ (new = old \/ presets[new] = NoPreset)
<1>1. /\ match' = match /\ drafted' = drafted /\ presets[old] # NoPreset
      /\ match.state # "confirmed"
  BY DEF UpdatePreset, FieldsAreEditable
<1>2. teamPage' \in TeamPages /\ drafted' \in {NoBuild, teamPage'.build}
  <2>1. teamPage' = Shows(teamPage, drafted, match)
    BY DEF UpdatePreset
  <2> QED
    BY <1>1, <2>1, ShowsIsPage, Before
<1>3. CASE stores
  <2> DEFINE cleared == [presets EXCEPT ![old] = NoPreset]
  <2>1. /\ presets' = [cleared EXCEPT ![new] = RowToStore]
        /\ lastUsed' = IF lastUsed = old THEN new ELSE lastUsed
    BY <1>3 DEF UpdatePreset
  <2>2. /\ cleared \in [PresetNames -> TeamRows \cup {NoPreset}]
        /\ \A m \in PresetNames : cleared[m] = IF m = old THEN NoPreset ELSE presets[m]
    BY Before
  <2> HIDE DEF cleared
  <2>3. \A m \in PresetNames :
          presets'[m] = IF m = new THEN RowToStore
                        ELSE IF m = old THEN NoPreset ELSE presets[m]
    BY <2>1, <2>2
  <2>4. RowToStore \in TeamRows /\ RowToStore # NoPreset
        /\ (RowToStore.build = NoBuild \/ RowToStore.build.names = RowToStore.team)
    BY <1>3, RowFits, NotBlank
  <2>5. presets' \in [PresetNames -> TeamRows \cup {NoPreset}]
    BY <2>1, <2>2, <2>4
  <2>6. \A m \in PresetNames : presets'[m].build = NoBuild
                              \/ presets'[m].build.names = presets'[m].team
    BY <2>3, <2>4, Before DEF NoPreset
  <2>7. lastUsed' \in {m \in PresetNames : presets'[m] # NoPreset} \cup {Missing}
    BY <2>1, <2>3, <2>4, Before
  <2> QED
    BY <1>1, <1>2, <2>5, <2>6, <2>7, Before, MatchStays, Together
<1>4. CASE ~ stores
  <2>1. presets' = presets /\ lastUsed' = lastUsed
    BY <1>4 DEF UpdatePreset
  <2> QED
    BY <1>1, <1>2, <2>1, Before, MatchStays, Together
<1> QED
  BY <1>3, <1>4

LEMMA UsePresetKeeps ==
  ASSUME TeamInv, NEW n \in PresetNames, NEW stored \in BOOLEAN, UsePreset(n, stored)
  PROVE  TeamInv'
<1>1. /\ match' = match /\ presets' = presets /\ presets[n] # NoPreset
      /\ match.state # "confirmed"
  BY DEF UsePreset, FieldsAreEditable
<1>2. CASE stored
  <2> DEFINE p == [fields |-> presets[n].team, build |-> presets[n].build]
  <2>1. /\ lastUsed' = n /\ drafted' = presets[n].build
        /\ teamPage' = Shows(p, presets[n].build, match)
    BY <1>2 DEF UsePreset
  <2>2. p \in TeamPages /\ presets[n].build \in Builds \cup {NoBuild}
    BY <1>1, Before DEF TeamPages, TeamRows, OwnTeams
  <2> HIDE DEF p
  <2>3. teamPage' \in TeamPages /\ drafted' \in {NoBuild, teamPage'.build}
    BY <1>1, <2>1, <2>2, ShowsIsPage, Before
  <2> QED
    BY <1>1, <2>1, <2>2, <2>3, Before, MatchStays, Together
<1>3. CASE ~ stored
  <2>1. /\ lastUsed' = lastUsed /\ drafted' = drafted
        /\ teamPage' = Shows(teamPage, drafted, match)
    BY <1>3 DEF UsePreset
  <2>2. teamPage' \in TeamPages /\ drafted' \in {NoBuild, teamPage'.build}
    BY <1>1, <2>1, ShowsIsPage, Before
  <2> QED
    BY <1>1, <2>1, <2>2, Before, MatchStays, Together
<1> QED
  BY <1>2, <1>3

LEMMA DeletePresetKeeps ==
  ASSUME TeamInv, NEW n \in PresetNames, NEW stored \in BOOLEAN, DeletePreset(n, stored)
  PROVE  TeamInv'
<1> DEFINE p == [teamPage EXCEPT !.build = NoBuild]
<1>1. /\ match' = match /\ drafted' = NoBuild
      /\ teamPage' = Shows(p, drafted, match)
  BY DEF DeletePreset
<1>2. p \in TeamPages
  BY Before DEF TeamPages
<1> HIDE DEF p
<1>3. teamPage' \in TeamPages
  BY <1>1, <1>2, ShowsIsPage, Before
<1>4. /\ presets' \in [PresetNames -> TeamRows \cup {NoPreset}]
      /\ \A m \in PresetNames : presets'[m].build = NoBuild
                                \/ presets'[m].build.names = presets'[m].team
      /\ lastUsed' \in {m \in PresetNames : presets'[m] # NoPreset} \cup {Missing}
  <2>1. CASE stored
    <3>1. /\ presets' = [presets EXCEPT ![n] = NoPreset]
          /\ lastUsed' = IF lastUsed = n THEN Missing ELSE lastUsed
      BY <2>1 DEF DeletePreset
    <3> QED
      BY <3>1, Before DEF NoPreset
  <2>2. CASE ~ stored
    <3>1. presets' = presets /\ lastUsed' = lastUsed
      BY <2>2 DEF DeletePreset
    <3> QED
      BY <3>1, Before
  <2> QED
    BY <2>1, <2>2
<1> QED
  BY <1>1, <1>3, <1>4, Before, MatchStays, Together

LEMMA ImportTeamKeeps ==
  ASSUME TeamInv, NEW t \in Typed, NEW d \in Details \cup {NoDetails}, ImportTeam(t, d)
  PROVE  TeamInv'
<1> DEFINE build == IF d = NoDetails THEN NoBuild ELSE [names |-> t, details |-> d]
           p == [fields |-> t, build |-> build]
<1>1. /\ match' = match /\ match.state # "confirmed"
      /\ presets' = presets /\ lastUsed' = lastUsed
      /\ drafted' = build /\ teamPage' = Shows(p, build, match)
  BY DEF ImportTeam, FieldsAreEditable
<1>2. build \in Builds \cup {NoBuild}
  BY DEF ImportTeam, IsImportable, Builds, OwnTeams
<1> HIDE DEF build
<1>3. p \in TeamPages
  BY <1>2 DEF TeamPages
<1> HIDE DEF p
<1>4. teamPage' \in TeamPages /\ drafted' \in {NoBuild, teamPage'.build}
  BY <1>1, <1>2, <1>3, ShowsIsPage, Before
<1> QED
  BY <1>1, <1>2, <1>4, Before, MatchStays, Together

(* A match that begins, or ends, has no team and no details.               *)
LEMMA OpenMatchKeeps ==
  ASSUME TeamInv, OpenMatch
  PROVE  TeamInv'
<1>1. match' = [state |-> "open", team |-> BlankFields, build |-> NoBuild]
  BY DEF OpenMatch, NoMatch
<1>2. /\ MatchTypeOK' /\ match'.build = NoBuild /\ match'.state # "confirmed"
      /\ match' \in [state : {"none", "open", "confirmed"}, team : Typed,
                    build : Builds \cup {NoBuild}]
  BY <1>1, BlankIsTyped DEF MatchTypeOK
<1>3. /\ presets' = presets /\ lastUsed' = lastUsed /\ drafted' = drafted
      /\ teamPage' = Shows(teamPage, drafted, match')
  BY DEF OpenMatch
<1>4. teamPage' \in TeamPages /\ drafted' \in {NoBuild, teamPage'.build}
  BY <1>2, <1>3, ShowsIsPage, Before
<1> QED
  BY <1>2, <1>3, <1>4, Before, Together

LEMMA CloseMatchKeeps ==
  ASSUME TeamInv, CloseMatch
  PROVE  TeamInv'
<1>1. /\ match' = NoMatch
      /\ presets' = presets /\ lastUsed' = lastUsed /\ drafted' = drafted
      /\ teamPage' = Shows(teamPage, drafted, NoMatch)
  BY DEF CloseMatch
<1>2. /\ MatchTypeOK' /\ match'.build = NoBuild /\ NoMatch.state # "confirmed"
      /\ NoMatch \in [state : {"none", "open", "confirmed"}, team : Typed,
                      build : Builds \cup {NoBuild}]
  BY <1>1, BlankIsTyped DEF MatchTypeOK, NoMatch
<1>3. teamPage' \in TeamPages /\ drafted' \in {NoBuild, teamPage'.build}
  BY <1>1, <1>2, ShowsIsPage, Before
<1> QED
  BY <1>1, <1>2, <1>3, Before, Together

(* The details confirmed are the window's own, when they are of the names  *)
(* in its fields: those the controller holds are no others.                *)
LEMMA ConfirmedIsShown ==
  ASSUME TeamInv, ConfirmTeam
  PROVE  match' = [state |-> "confirmed", team |-> teamPage.fields,
                   build |-> OnlyIfNamed(teamPage.build, teamPage.fields)]
  BY Before DEF ConfirmTeam, OnlyIfNamed, NamesMatch

LEMMA ConfirmTeamKeeps ==
  ASSUME TeamInv, ConfirmTeam
  PROVE  TeamInv'
<1> DEFINE build == OnlyIfNamed(teamPage.build, teamPage.fields)
<1>1. match' = [state |-> "confirmed", team |-> teamPage.fields, build |-> build]
  BY ConfirmedIsShown
<1>2. /\ build \in Builds \cup {NoBuild} /\ teamPage.fields \in Typed
      /\ build = NoBuild \/ build.names = teamPage.fields
  BY NamedBuild, Before DEF TeamPages
<1> HIDE DEF build
<1>3. /\ MatchTypeOK' /\ (match'.build = NoBuild \/ match'.build.names = match'.team)
      /\ match' \in [state : {"none", "open", "confirmed"}, team : Typed,
                    build : Builds \cup {NoBuild}]
      /\ match'.state = "confirmed" /\ match'.build = build
  BY <1>1, <1>2 DEF MatchTypeOK
<1>4. /\ presets' = presets /\ lastUsed' = lastUsed
      /\ drafted' = match'.build /\ teamPage' = Shows(teamPage, match'.build, match')
  BY DEF ConfirmTeam
<1>5. teamPage' \in TeamPages /\ teamPage'.build = build
  BY SMTT(30), <1>2, <1>3, <1>4, ShowsIsPage, Before
<1> QED
  BY <1>2, <1>3, <1>4, <1>5, Before, Together

LEMMA RestartTeamKeeps ==
  ASSUME TeamInv, RestartTeam
  PROVE  TeamInv'
<1> DEFINE blank == [fields |-> BlankFields, build |-> NoBuild]
           preset == IF lastUsed = Missing THEN NoPreset ELSE presets[lastUsed]
<1>1. /\ match' = match /\ presets' = presets /\ lastUsed' = lastUsed
      /\ teamPage' = IF match.state = "confirmed" THEN Shows(blank, NoBuild, match)
                     ELSE [fields |-> preset.team, build |-> preset.build]
      /\ drafted' = IF match.state = "confirmed" THEN NoBuild ELSE teamPage'.build
  BY DEF RestartTeam, Opened
<1>2. blank \in TeamPages
  BY BlankIsTyped DEF TeamPages
<1>3. preset.team \in Typed /\ preset.build \in Builds \cup {NoBuild}
  BY Before, BlankIsTyped DEF TeamRows, OwnTeams, NoPreset
<1> HIDE DEF blank, preset
<1>4. /\ teamPage' \in TeamPages /\ drafted' \in {NoBuild, teamPage'.build}
      /\ drafted' \in Builds \cup {NoBuild}
  <2>1. CASE match.state = "confirmed"
    BY <1>1, <1>2, <2>1, ShowsIsPage, Before
  <2>2. CASE match.state # "confirmed"
    BY <1>1, <1>3, <2>2 DEF TeamPages
  <2> QED
    BY <2>1, <2>2
<1> QED
  BY <1>1, <1>4, Before, MatchStays, Together
-----------------------------------------------------------------------------
LEMMA TeamStepKeeps == TeamInv /\ [TeamNext]_teamVars => TeamInv'
<1> SUFFICES ASSUME TeamInv, [TeamNext]_teamVars PROVE TeamInv'
  OBVIOUS
<1>1. ASSUME NEW p \in Places, NEW n \in Pokemon \cup {Missing}, TypeOwnName(p, n)
      PROVE  TeamInv'
  BY <1>1, TypeOwnNameKeeps
<1>2. ASSUME NEW b \in Builds, EditDetails(b) PROVE TeamInv'
  BY <1>2, EditDetailsKeeps
<1>3. ASSUME NEW n \in PresetNames, SavePreset(n) PROVE TeamInv'
  BY <1>3, SavePresetKeeps
<1>4. ASSUME NEW n \in PresetNames, NEW m \in PresetNames, UpdatePreset(n, m) PROVE TeamInv'
  BY <1>4, UpdatePresetKeeps
<1>5. ASSUME NEW n \in PresetNames, NEW stored \in BOOLEAN,
             UsePreset(n, stored) \/ DeletePreset(n, stored)
      PROVE  TeamInv'
  BY <1>5, UsePresetKeeps, DeletePresetKeeps
<1>6. ASSUME NEW t \in Typed, NEW d \in Details \cup {NoDetails}, ImportTeam(t, d)
      PROVE  TeamInv'
  BY <1>6, ImportTeamKeeps
<1>7. ASSUME OpenMatch \/ ConfirmTeam \/ CloseMatch \/ RestartTeam PROVE TeamInv'
  BY <1>7, OpenMatchKeeps, ConfirmTeamKeeps, CloseMatchKeeps, RestartTeamKeeps
<1>8. ASSUME UNCHANGED teamVars PROVE TeamInv'
  <2>1. /\ presets' = presets /\ lastUsed' = lastUsed /\ teamPage' = teamPage
        /\ drafted' = drafted /\ match' = match
    BY <1>8 DEF teamVars
  <2> QED
    BY <2>1, Before, MatchStays, Together
<1> QED
  BY <1>1, <1>2, <1>3, <1>4, <1>5, <1>6, <1>7, <1>8 DEF TeamNext

LEMMA TeamHolds == TeamSpec => []TeamInv
  BY TeamInitKeeps, TeamStepKeeps, PTL DEF TeamSpec

(* Presets, page and match are well formed, and the preset used last is    *)
(* one that is still there.                                                *)
THEOREM TeamIsTyped == TeamSpec => []TeamTypeOK
<1>1. TeamInv => TeamTypeOK
  BY DEF TeamInv
<1> QED
  BY <1>1, TeamHolds, PTL

(* Details kept with a team, in a preset, a file or the facts of a match,  *)
(* are those of its own members.                                           *)
THEOREM KeptBuildsAlwaysFit == TeamSpec => []KeptBuildsFit
<1>1. TeamInv => KeptBuildsFit
  BY DEF TeamInv
<1> QED
  BY <1>1, TeamHolds, PTL

(* A match is confirmed with the details its window shows for the names in *)
(* its fields, or with none.                                               *)
THEOREM ConfirmedBuildIsAlwaysShown == TeamSpec => ConfirmedBuildIsShown
<1> DEFINE A == match'.state = "confirmed" /\ match.state # "confirmed" =>
                  match'.build = IF teamPage.build.names = teamPage.fields
                                 THEN teamPage.build ELSE NoBuild
<1>1. TeamInv /\ [TeamNext]_teamVars => [A]_teamVars
  <2> SUFFICES ASSUME TeamInv, [TeamNext]_teamVars,
                      match'.state = "confirmed", match.state # "confirmed"
               PROVE  match'.build = IF teamPage.build.names = teamPage.fields
                                     THEN teamPage.build ELSE NoBuild
    OBVIOUS
  <2>1. ConfirmTeam
    <3>1. match' # match
      OBVIOUS
    <3>2. ~ OpenMatch /\ ~ CloseMatch
      BY DEF OpenMatch, CloseMatch, NoMatch
    <3> QED
      BY <3>1, <3>2 DEF TeamNext, teamVars, TypeOwnName, EditDetails, SavePreset, UpdatePreset,
                        UsePreset, DeletePreset, ImportTeam, RestartTeam
  <2>2. match'.build = OnlyIfNamed(teamPage.build, teamPage.fields)
    BY <2>1, ConfirmedIsShown
  <2> QED
    BY <2>2 DEF OnlyIfNamed, NamesMatch
<1> QED
  BY <1>1, TeamHolds, PTL DEF TeamSpec, ConfirmedBuildIsShown
-----------------------------------------------------------------------------
(***************************************************************************)
(* RoiFeedback: the images filed agree, and trust is earned.               *)
(***************************************************************************)
FilesTyped ==
  /\ trusted \cup provisional \subseteq Images \X Labels /\ given \subseteq Images \X Labels
  /\ quarantine \subseteq Images /\ evidence \subseteq Labels \X (1..MaxFilings)

ScreenTyped ==
  /\ screen.match \in 0..MaxFilings /\ latest \in Frames \cup {NoCrops}
  /\ screen.open => /\ latest = screen.kept /\ latest \in Frames /\ screen.frame \in Frames
                    /\ screen.match \in 1..MaxFilings

FilingTyped ==
  /\ filing \in FilingStates
  /\ IsFiling => screen.open /\ filing.feedback \in Feedbacks
  /\ filing.step = "slots" => filing.slot >= 1

(* A person has given every name that has a trusted image.                 *)
NamesWereGiven == \A p \in trusted : \E q \in given : q[2] = p[2]

(* The images to promote are of a name with a trusted image and evidence.  *)
PromotionIsDue ==
  filing.images # {} =>
    /\ HasEvidence(filing.label) /\ \E p \in trusted : p[2] = filing.label
    /\ \A x \in filing.images : <<x, filing.label>> \in provisional

RoiInv ==
  /\ FilesTyped /\ ScreenTyped /\ FilingTyped
  /\ ReferencesAgree /\ TrustIsEarned /\ CropsAreOfTheScreen
  /\ NamesWereGiven /\ PromotionIsDue

(* Images are alike in both directions, and an image is its own duplicate. *)
LEMMA NearIsSymmetric ==
  ASSUME NEW x \in Images, NEW y \in Images
  PROVE  IsNear(x, x) /\ (IsNear(x, y) => IsNear(y, x))
<1>1. Alike[x][x] = 1000 /\ Alike[x][y] = Alike[y][x]
  BY RoiAssumption
<1> QED
  BY <1>1 DEF IsNear

LEMMA FramesAreImages ==
  ASSUME NEW f \in Frames
  PROVE  f # NoCrops /\ \A i \in 1..SlotCount : f[i] \in Images
<1>1. f \in [1..SlotCount -> Images]
  BY RoiAssumption
<1>2. 1 \in DOMAIN f
  BY <1>1, RoiAssumption
<1>3. DOMAIN <<>> = {}
  OBVIOUS
<1>4. f # <<>>
  BY <1>2, <1>3, Zenon
<1> QED
  BY <1>1, <1>4 DEF NoCrops

(* The evidence for a name only grows when rows are added.                 *)
LEMMA EvidenceGrows ==
  ASSUME evidence \subseteq evidence', evidence' \subseteq Labels \X (1..MaxFilings), NEW label
  PROVE  HasEvidence(label) => HasEvidence(label)'
<1>1. MaxFilings \in Nat /\ Enough \in Nat
  BY RoiAssumption
<1>2. MatchesOf(label) \subseteq MatchesOf(label)' /\ MatchesOf(label)' \subseteq 1..MaxFilings
  BY DEF MatchesOf
<1>3. IsFiniteSet(1..MaxFilings)
  BY <1>1, FS_Interval
<1>4. IsFiniteSet(MatchesOf(label)')
  BY <1>2, <1>3, FS_Subset
<1>5. /\ IsFiniteSet(MatchesOf(label))
      /\ Cardinality(MatchesOf(label)) <= Cardinality(MatchesOf(label)')
  BY <1>2, <1>4, FS_Subset
<1>6. Cardinality(MatchesOf(label)) \in Nat /\ Cardinality(MatchesOf(label)') \in Nat
  BY <1>4, <1>5, FS_CardinalityType
<1> QED
  BY <1>1, <1>5, <1>6 DEF HasEvidence

(* A file is added under the only name that has near duplicates.           *)
LEMMA AddingAgrees ==
  ASSUME NEW files, NEW x \in Images, NEW label \in Labels,
         files \subseteq Images \X Labels,
         \A p, q \in files : IsNear(p[1], q[1]) => p[2] = q[2],
         \A q \in files : IsNear(q[1], x) => q[2] = label
  PROVE  \A p, q \in files \cup {<<x, label>>} : IsNear(p[1], q[1]) => p[2] = q[2]
<1> SUFFICES ASSUME NEW p \in files \cup {<<x, label>>}, NEW q \in files \cup {<<x, label>>},
                    IsNear(p[1], q[1])
             PROVE  p[2] = q[2]
  OBVIOUS
<1>1. p[1] \in Images /\ q[1] \in Images
  OBVIOUS
<1>2. IsNear(q[1], p[1])
  BY <1>1, NearIsSymmetric
<1>3. CASE p \in files /\ q \in files
  BY <1>3
<1>4. CASE p \in files /\ q = <<x, label>>
  BY <1>4
<1>5. CASE p = <<x, label>> /\ q \in files
  BY <1>2, <1>5
<1>6. CASE p = <<x, label>> /\ q = <<x, label>>
  BY <1>6
<1> QED
  BY <1>3, <1>4, <1>5, <1>6

LEMMA RoiInitially == RoiInit => RoiInv
<1> SUFFICES ASSUME RoiInit
             PROVE  RoiInv
  OBVIOUS
<1>1. /\ NotFiling \in FilingStates /\ NotFiling.step = "none" /\ NotFiling.images = {}
      /\ screen.open = FALSE /\ screen.match = 0
  BY RoiAssumption DEF RoiInit, NotFiling, FilingStates, NoScreen
<1>2. ScreenTyped
  BY <1>1, RoiAssumption DEF RoiInit, ScreenTyped
<1>3. FilesTyped /\ FilingTyped /\ PromotionIsDue
  BY <1>1 DEF RoiInit, PromotionIsDue, FilesTyped, FilingTyped, IsFiling
<1>4. ReferencesAgree /\ TrustIsEarned /\ NamesWereGiven
  BY DEF RoiInit, ReferencesAgree, TrustIsEarned, NamesWereGiven
<1>5. CropsAreOfTheScreen
  BY <1>1 DEF CropsAreOfTheScreen
<1> QED
  BY <1>2, <1>3, <1>4, <1>5 DEF RoiInv

LEMMA FilesKept ==
  ASSUME RoiInv, UNCHANGED <<trusted, provisional, quarantine, evidence, given>>
  PROVE  FilesTyped' /\ ReferencesAgree' /\ TrustIsEarned' /\ NamesWereGiven'
  BY DEF RoiInv, FilesTyped, ReferencesAgree, TrustIsEarned, NamesWereGiven, HasEvidence, MatchesOf

LEMMA ScreenKept ==
  ASSUME RoiInv, UNCHANGED <<latest, screen>>
  PROVE  ScreenTyped' /\ CropsAreOfTheScreen'
  BY DEF RoiInv, ScreenTyped, CropsAreOfTheScreen, IsNearFrame

(* While nothing is being filed, nothing is left to promote.               *)
LEMMA NotFilingIsOK ==
  ASSUME NEW fb \in Feedbacks \cup {NoCrops}, NEW step \in {"none", "failed"},
         filing' = [step |-> step, feedback |-> fb, slot |-> 0, guesses |-> {}, images |-> {},
                    label |-> Unknown6]
  PROVE  FilingTyped' /\ PromotionIsDue'
<1>1. 0 \in 0..SlotCount + 1 /\ step \in {"none", "slots", "promote", "failed"}
  BY RoiAssumption
<1>2. filing' \in FilingStates
  BY <1>1 DEF FilingStates
<1>3. filing'.step \in {"none", "failed"} /\ filing'.images = {}
  OBVIOUS
<1> QED
  BY <1>2, <1>3 DEF FilingTyped, PromotionIsDue, IsFiling

(* A reading: the crops kept are those of the screen or near them.         *)
LEMMA ReadingKeeps ==
  ASSUME RoiInv, ProcessFrame
  PROVE  RoiInv'
<1>1. PICK f \in Frames :
        /\ latest' = ObservationOf(f)
        /\ screen' = [match |-> screen.match + 1, frame |-> f, kept |-> ObservationOf(f),
                      names |-> Assigned(f), open |-> TRUE]
  BY DEF ProcessFrame
<1>2. /\ UNCHANGED <<trusted, provisional, quarantine, evidence, given>>
      /\ filing' = NotFiling /\ screen.match < MaxFilings
  BY DEF ProcessFrame
<1>3. /\ screen'.match = screen.match + 1 /\ screen'.frame = f /\ screen'.open = TRUE
      /\ screen'.kept = latest'
  BY <1>1
<1>4. latest \in Frames \cup {NoCrops} /\ screen.match \in 0..MaxFilings
  BY DEF RoiInv, ScreenTyped
<1>5. latest' \in Frames /\ IsNearFrame(latest', f)
  <2>1. CASE IsNearFrame(f, latest)
    <3>1. latest' = latest /\ latest \in Frames
      BY <1>1, <1>4, <2>1 DEF ObservationOf, IsNearFrame
    <3>2. \A i \in 1..SlotCount : IsNear(latest[i], f[i])
      BY <2>1, <3>1, FramesAreImages, NearIsSymmetric DEF IsNearFrame
    <3> QED
      BY <3>1, <3>2, FramesAreImages DEF IsNearFrame
  <2>2. CASE ~IsNearFrame(f, latest)
    <3>1. latest' = f
      BY <1>1, <2>2 DEF ObservationOf
    <3> QED
      BY <3>1, FramesAreImages, NearIsSymmetric DEF IsNearFrame
  <2> QED
    BY <2>1, <2>2
<1>6. screen'.match \in 1..MaxFilings
  BY <1>2, <1>3, <1>4, RoiAssumption
<1>7. ScreenTyped'
  BY <1>3, <1>5, <1>6, RoiAssumption DEF ScreenTyped
<1>8. FilingTyped' /\ PromotionIsDue'
  BY <1>2, NotFilingIsOK DEF NotFiling
<1>9. CropsAreOfTheScreen'
  BY <1>3, <1>5 DEF CropsAreOfTheScreen, IsNearFrame
<1> QED
  BY <1>2, <1>7, <1>8, <1>9, FilesKept DEF RoiInv

LEMMA SendingKeeps ==
  ASSUME RoiInv, RecordSent
  PROVE  RoiInv'
<1>1. PICK fb \in Feedbacks :
        filing' = [NotFiling EXCEPT !.step = "slots", !.feedback = fb, !.slot = 1]
  BY DEF RecordSent
<1>2. UNCHANGED <<trusted, provisional, quarantine, evidence, latest, screen, given>>
      /\ screen.open
  BY DEF RecordSent
<1>3. filing' = [step |-> "slots", feedback |-> fb, slot |-> 1, guesses |-> {}, images |-> {},
                 label |-> Unknown6]
  BY <1>1 DEF NotFiling
<1>4. /\ filing' \in FilingStates /\ filing'.images = {}
      /\ filing'.step = "slots" /\ filing'.feedback \in Feedbacks /\ filing'.slot >= 1
  BY <1>3, RoiAssumption DEF FilingStates
<1>5. FilingTyped' /\ PromotionIsDue'
  BY <1>2, <1>4 DEF FilingTyped, PromotionIsDue
<1> QED
  BY <1>2, <1>5, FilesKept, ScreenKept DEF RoiInv

LEMMA EndKeeps ==
  ASSUME RoiInv, AllFiled \/ StopWhileFiling
  PROVE  RoiInv'
<1>1. /\ UNCHANGED <<trusted, provisional, quarantine, evidence, given>>
      /\ FilingTyped' /\ PromotionIsDue'
      /\ screen' = [NoScreen EXCEPT !.match = screen.match]
      /\ latest' = latest \/ latest' = NoCrops
  BY NotFilingIsOK DEF AllFiled, StopWhileFiling, NotFiling
<1>2. screen'.open = FALSE /\ screen'.match = screen.match
  BY <1>1 DEF NoScreen
<1>3. ScreenTyped' /\ CropsAreOfTheScreen'
  BY <1>1, <1>2 DEF RoiInv, ScreenTyped, CropsAreOfTheScreen
<1> QED
  BY <1>1, <1>3, FilesKept DEF RoiInv

LEMMA FailureKeeps ==
  ASSUME RoiInv, WriteFails
  PROVE  RoiInv'
<1>1. filing.feedback \in Feedbacks
  BY DEF WriteFails, RoiInv, FilingTyped
<1>2. FilingTyped' /\ PromotionIsDue'
  BY <1>1, NotFilingIsOK DEF WriteFails, NotFiling
<1> QED
  BY <1>2, FilesKept, ScreenKept DEF RoiInv, WriteFails

LEMMA TakingKeeps ==
  ASSUME RoiInv, TakeName
  PROVE  RoiInv'
<1> DEFINE label == CHOOSE l \in filing.guesses : TRUE
           eligible == HasEvidence(label) /\ \E p \in trusted : p[2] = label
           listed == IF eligible THEN {x \in Images : <<x, label>> \in provisional} ELSE {}
<1>1. /\ UNCHANGED <<trusted, provisional, quarantine, evidence, latest, screen, given>>
      /\ filing.step = "promote" /\ filing.guesses # {} /\ FilingTyped
      /\ filing' = [filing EXCEPT !.guesses = @ \ {label}, !.label = label, !.images = listed]
  BY DEF TakeName, RoiInv
<1>2. label \in filing.guesses
  BY <1>1
<1>3. label \in Labels /\ listed \subseteq Images
  BY <1>1, <1>2 DEF FilingStates, FilingTyped
<1>4. ASSUME listed # {}
      PROVE  /\ HasEvidence(label) /\ \E p \in trusted : p[2] = label
             /\ \A x \in listed : <<x, label>> \in provisional
  BY <1>4
<1> HIDE DEF label, listed
<1>5. /\ filing' \in FilingStates /\ filing'.step = filing.step
      /\ filing'.feedback = filing.feedback /\ filing'.label = label /\ filing'.images = listed
  BY <1>1, <1>3 DEF FilingStates, FilingTyped
<1>6. FilingTyped'
  BY <1>1, <1>5 DEF FilingTyped, IsFiling
<1>7. PromotionIsDue'
  BY <1>1, <1>4, <1>5 DEF PromotionIsDue, HasEvidence, MatchesOf
<1> QED
  BY <1>1, <1>6, <1>7, FilesKept, ScreenKept DEF RoiInv

LEMMA RowsKeep ==
  ASSUME RoiInv, AppendRows
  PROVE  RoiInv'
<1>1. /\ UNCHANGED <<trusted, provisional, quarantine, latest, screen, given>>
      /\ evidence' = evidence \cup (filing.guesses \X {screen.match})
      /\ filing.step = "slots" /\ FilingTyped
      /\ filing' = [filing EXCEPT !.step = "promote"]
  BY DEF AppendRows, RoiInv
<1>2. screen.open /\ screen.match \in 1..MaxFilings
  BY <1>1 DEF RoiInv, FilingTyped, ScreenTyped, IsFiling
<1>3. evidence \subseteq evidence' /\ evidence' \subseteq Labels \X (1..MaxFilings)
  BY <1>1, <1>2 DEF RoiInv, FilesTyped, FilingTyped, IsFiling, FilingStates
<1>4. /\ filing' \in FilingStates /\ filing'.step = "promote" /\ filing'.feedback = filing.feedback
      /\ filing'.label = filing.label /\ filing'.images = filing.images
  BY <1>1 DEF FilingStates, FilingTyped
<1>5. \A label : HasEvidence(label) => HasEvidence(label)'
  BY <1>3, EvidenceGrows
<1>6. TrustIsEarned'
  BY <1>1, <1>5 DEF RoiInv, TrustIsEarned
<1>7. PromotionIsDue'
  BY <1>1, <1>4, <1>5 DEF RoiInv, PromotionIsDue
<1>8. FilesTyped' /\ FilingTyped'
  BY <1>1, <1>2, <1>3, <1>4 DEF RoiInv, FilesTyped, FilingTyped, IsFiling
<1>9. ReferencesAgree' /\ NamesWereGiven'
  BY <1>1 DEF RoiInv, ReferencesAgree, NamesWereGiven
<1> QED
  BY <1>1, <1>6, <1>7, <1>8, <1>9, ScreenKept DEF RoiInv


(* One crop of a sent team: what is copied has no near duplicate under     *)
(* another name, and a copy that is trusted at once was named by a person. *)
LEMMA SlotKeeps ==
  ASSUME RoiInv, FileSlot
  PROVE  RoiInv'
<1> DEFINE label   == filing.feedback[filing.slot].label
           human   == filing.feedback[filing.slot].human
           x       == screen.kept[filing.slot]
           names   == NamesOf(x)
           guesses == IF names \ {label} # {} \/ human THEN filing.guesses
                      ELSE filing.guesses \cup {label}
<1>1. /\ UNCHANGED <<evidence, latest, screen>> /\ FilingTyped /\ ScreenTyped /\ FilesTyped
      /\ filing.step = "slots" /\ filing.slot <= SlotCount
      /\ quarantine' = IF names \ {label} # {} THEN quarantine \cup {x} ELSE quarantine
      /\ trusted' = IF names = {} /\ human THEN trusted \cup {<<x, label>>} ELSE trusted
      /\ provisional' = IF names = {} /\ ~human THEN provisional \cup {<<x, label>>}
                        ELSE provisional
      /\ given' = IF human THEN given \cup {<<x, label>>} ELSE given
  BY DEF FileSlot, RoiInv
<1>2. filing' = [filing EXCEPT !.slot = @ + 1, !.guesses = guesses]
  BY DEF FileSlot
<1>3. filing.slot \in 1..SlotCount /\ SlotCount \in Nat
  BY <1>1, RoiAssumption DEF FilingTyped, IsFiling, FilingStates
<1>4. x \in Images
  BY <1>1, <1>3, FramesAreImages DEF FilingTyped, IsFiling, ScreenTyped
<1>5. filing.feedback \in [1..SlotCount -> [label : Labels, human : BOOLEAN]]
  BY <1>1 DEF FilingTyped, IsFiling, Feedbacks
<1>6. label \in Labels
  BY <1>3, <1>5
<1>7. \A q \in trusted \cup provisional : IsNear(q[1], x) => q[2] \in names
  BY DEF NamesOf
<1>8. guesses \subseteq Labels
  BY <1>1, <1>6 DEF FilingTyped, IsFiling, FilingStates
<1> HIDE DEF label, human, x, names, guesses
<1>9. /\ filing' \in FilingStates /\ filing'.step = "slots" /\ filing'.feedback = filing.feedback
      /\ filing'.label = filing.label /\ filing'.images = filing.images
      /\ filing'.slot = filing.slot + 1
  <2>1. filing.slot + 1 \in 0..SlotCount + 1
    BY <1>3
  <2>2. filing \in FilingStates
    BY <1>1 DEF FilingTyped, IsFiling
  <2>3. filing' \in FilingStates
    BY <1>2, <1>8, <2>1, <2>2 DEF FilingStates
  <2> QED
    BY <1>1, <1>2, <2>2, <2>3 DEF FilingStates
<1>10. FilingTyped'
  BY <1>1, <1>3, <1>9 DEF FilingTyped, IsFiling
<1>11. /\ trusted \subseteq trusted' /\ given \subseteq given' /\ provisional \subseteq provisional'
       /\ trusted' \subseteq trusted \cup {<<x, label>>}
       /\ (trusted \cup provisional)' \in {trusted \cup provisional,
                                           trusted \cup provisional \cup {<<x, label>>}}
       /\ trusted' # trusted => <<x, label>> \in given'
       /\ given' \subseteq given \cup {<<x, label>>}
  BY <1>1
<1>12. FilesTyped'
  BY <1>1, <1>4, <1>6, <1>11 DEF FilesTyped
<1>13. ReferencesAgree'
  <2>1. CASE names = {}
    <3> DEFINE files == trusted \cup provisional
    <3>1. /\ files \subseteq Images \X Labels
          /\ \A p, q \in files : IsNear(p[1], q[1]) => p[2] = q[2]
          /\ \A q \in files : ~IsNear(q[1], x)
      BY <1>1, <1>7, <2>1 DEF RoiInv, FilesTyped, ReferencesAgree
    <3>2. \A p, q \in files' : IsNear(p[1], q[1]) => p[2] = q[2]
      <4>1. files' \in {files, files \cup {<<x, label>>}}
        BY <1>11
      <4> HIDE DEF files
      <4>2. \A p, q \in files \cup {<<x, label>>} : IsNear(p[1], q[1]) => p[2] = q[2]
        BY <1>4, <1>6, <3>1, AddingAgrees
      <4> QED
        BY <3>1, <4>1, <4>2
    <3> QED
      BY <3>2 DEF ReferencesAgree
  <2>2. CASE names # {}
    BY <1>1, <2>2 DEF RoiInv, ReferencesAgree
  <2> QED
    BY <2>1, <2>2
<1>14. \A l : HasEvidence(l) <=> HasEvidence(l)'
  BY <1>1 DEF HasEvidence, MatchesOf
<1>15. TrustIsEarned' /\ NamesWereGiven'
  BY <1>11, <1>14 DEF RoiInv, TrustIsEarned, NamesWereGiven
<1>16. PromotionIsDue'
  BY <1>9, <1>11, <1>14 DEF RoiInv, PromotionIsDue
<1> QED
  BY <1>1, <1>10, <1>12, <1>13, <1>15, <1>16, ScreenKept DEF RoiInv

(* One image that was filled in: it becomes trusted under a name that is   *)
(* trusted and has its evidence, and agrees with the files as before.      *)
LEMMA PromotionKeeps ==
  ASSUME RoiInv, PromoteImage
  PROVE  RoiInv'
<1> DEFINE x     == CHOOSE i \in filing.images : \A j \in filing.images : i <= j
           label == filing.label
           names == NamesOfTrusted(x)
<1>1. /\ UNCHANGED <<provisional, evidence, latest, screen, given>>
      /\ FilingTyped /\ FilesTyped /\ filing.step = "promote" /\ filing.images # {}
      /\ trusted' = trusted \/ trusted' = trusted \cup {<<x, label>>}
      /\ filing' = [filing EXCEPT !.images = @ \ {x}]
  BY DEF PromoteImage, RoiInv
<1>2. quarantine' = quarantine \/ quarantine' = quarantine \cup {x}
  BY DEF PromoteImage
<1>3. x \in filing.images
  <2>1. filing.images \subseteq Nat
    BY <1>1, RoiAssumption DEF FilingTyped, IsFiling, FilingStates, Images
  <2> QED
    BY <1>1, <2>1, SmallestOf
<1>4. /\ <<x, label>> \in provisional /\ HasEvidence(label)
      /\ \E p \in trusted : p[2] = label
  BY <1>1, <1>3 DEF RoiInv, PromotionIsDue
<1>5. x \in Images /\ label \in Labels
  BY <1>1, <1>4 DEF FilesTyped
<1> HIDE DEF x, label
<1>6. /\ filing' \in FilingStates /\ filing'.step = "promote" /\ filing'.feedback = filing.feedback
      /\ filing'.label = filing.label /\ filing'.images = filing.images \ {x}
  BY <1>1 DEF FilingTyped, IsFiling, FilingStates
<1>7. FilingTyped'
  BY <1>1, <1>6 DEF FilingTyped, IsFiling
<1>8. FilesTyped'
  BY <1>1, <1>2, <1>5 DEF FilesTyped
<1>9. (trusted \cup provisional)' = trusted \cup provisional
  BY <1>1, <1>4
<1>10. ReferencesAgree'
  BY <1>9 DEF RoiInv, ReferencesAgree
<1>11. \A l : HasEvidence(l) <=> HasEvidence(l)'
  BY <1>1 DEF HasEvidence, MatchesOf
<1>12. \E q \in given : q[2] = label
  BY <1>4 DEF RoiInv, NamesWereGiven
<1>13. TrustIsEarned' /\ NamesWereGiven'
  <2>1. \A p \in trusted' : p \in trusted \/ p[2] = label
    BY <1>1
  <2> QED
    BY <1>1, <1>4, <1>11, <1>12, <2>1 DEF RoiInv, TrustIsEarned, NamesWereGiven
<1>14. PromotionIsDue'
  <2>1. trusted \subseteq trusted'
    BY <1>1
  <2> QED
    BY <1>1, <1>6, <1>11, <2>1 DEF RoiInv, PromotionIsDue
<1> QED
  BY <1>1, <1>7, <1>8, <1>10, <1>13, <1>14, ScreenKept DEF RoiInv

LEMMA RoiStep ==
  ASSUME RoiInv, [RoiNext]_roiVars
  PROVE  RoiInv'
<1>1. CASE UNCHANGED roiVars
  BY <1>1, FilesKept, ScreenKept
     DEF roiVars, RoiInv, FilingTyped, IsFiling, PromotionIsDue, HasEvidence, MatchesOf
<1> QED
  BY <1>1, ReadingKeeps, SendingKeeps, SlotKeeps, RowsKeep, TakingKeeps, PromotionKeeps,
     FailureKeeps, EndKeeps DEF RoiNext

LEMMA RoiAlways == RoiSpec => []RoiInv
<1> QED
  BY RoiInitially, RoiStep, PTL DEF RoiSpec

(* The images, the rows of the feedback file, the frame, its crops and the *)
(* state of a filing keep their types for any number of images, names,     *)
(* slots and frames.                                                       *)
LEMMA RoiIsTyped == RoiSpec => []RoiTypeOK
<1>1. RoiInv => RoiTypeOK
  BY DEF RoiInv, RoiTypeOK, FilesTyped, ScreenTyped, FilingTyped, IsFiling
<1> QED
  BY <1>1, RoiAlways, PTL

(* What the selection page learns was seen and named: wherever a filing    *)
(* fails or stops, no two near duplicates stand under different names, a   *)
(* guess is trusted only with a person's name and enough matches behind    *)
(* it, and the crops filed are those of the screen that was read.          *)
THEOREM LearningIsAlwaysSound == RoiSpec => []LearningIsSound
<1>1. RoiInv => LearningIsSound
  BY DEF RoiInv, LearningIsSound
<1> QED
  BY <1>1, RoiAlways, PTL
-----------------------------------------------------------------------------
(***************************************************************************)
(* RoiFeedback: the suggestion is the best team.                           *)
(***************************************************************************)

LabelsOrNone == Labels \cup {Unknown6}

(* A set of numbers up to n that is not empty has a largest.               *)
LEMMA LargestInRange ==
  ASSUME NEW n \in Nat, NEW S, S \subseteq 0..n, S # {}
  PROVE  \E x \in S : \A y \in S : y <= x
<1>1. S \subseteq Nat /\ \A s \in S : s <= n
  OBVIOUS
<1> QED
  BY <1>1, LargestOf

(* A name is worth at most as much as an image to itself.                  *)
Most == 1000

LEMMA WorthIsBounded ==
  ASSUME trusted \subseteq Images \X Labels, NEW x \in Images, NEW l \in LabelsOrNone
  PROVE  Worth(x, l) \in 0..Most /\ Most \in Nat
<1>1. Most \in Nat
  BY DEF Most
<1>2. \A y \in Images : Alike[x][y] \in 0..Most
  BY RoiAssumption DEF Most
<1>3. CASE l = Unknown6
  BY <1>1, <1>3 DEF Worth
<1>4. CASE l # Unknown6
  <2> DEFINE pairs == {p \in trusted : p[2] = l}
             scores == {Alike[x][p[1]] : p \in pairs} \cup {0}
  <2>1. \A p \in pairs : Alike[x][p[1]] \in 0..Most
    BY <1>2
  <2>2. scores \subseteq 0..Most /\ 0 \in scores
    BY <1>1, <2>1
  <2>3. \E n \in scores : \A m \in scores : m <= n
    <3> HIDE DEF scores
    <3> QED
      BY <1>1, <2>2, LargestInRange
  <2>4. (CHOOSE n \in scores : \A m \in scores : m <= n) \in scores
    <3> HIDE DEF scores
    <3> QED
      BY <2>3
  <2>5. Best(x, pairs) \in scores
    BY <2>4 DEF Best
  <2>6. Worth(x, l) = Best(x, pairs)
    BY <1>4 DEF Worth, ScoreOf
  <2> HIDE DEF pairs, scores
  <2> QED
    BY <1>1, <2>2, <2>5, <2>6
<1> QED
  BY <1>1, <1>3, <1>4

(* The values of f stay below some number.                                 *)
Bounded(S, f) == \E bound \in Nat : \A l \in S : f[l] \in 0..bound

(* Of some names with totals and worths one wins.                          *)
LEMMA WinnerExists ==
  ASSUME NEW S, S \subseteq Nat, S # {}, NEW T, NEW W, Bounded(S, T), Bounded(S, W)
  PROVE  \E l \in S : \A k \in S \ {l} :
           \/ T[k] < T[l]
           \/ T[k] = T[l] /\ (W[l] > W[k] \/ (W[l] = W[k] /\ l < k))
<1>0. PICK bound \in Nat : \A l \in S : T[l] \in 0..bound
  BY DEF Bounded
<1>9. PICK most \in Nat : \A l \in S : W[l] \in 0..most
  BY DEF Bounded
<1> DEFINE totals == {T[l] : l \in S}
<1>1. totals \subseteq 0..bound /\ totals # {}
  <2>1. \A l \in S : T[l] \in totals /\ T[l] \in 0..bound
    BY <1>0
  <2>2. \E l \in S : TRUE
    OBVIOUS
  <2> QED
    BY <2>1, <2>2
<1>2. \E t \in totals : \A u \in totals : u <= t
  <2> HIDE DEF totals
  <2> QED
    BY <1>1, LargestInRange
<1>a. PICK t \in totals : \A u \in totals : u <= t
  BY <1>2
<1> DEFINE first == {l \in S : T[l] = t}
           worths == {W[l] : l \in first}
<1>3. worths \subseteq 0..most /\ worths # {}
  <2>1. \A l \in first : W[l] \in worths /\ W[l] \in 0..most
    BY <1>9
  <2>2. \E l \in first : TRUE
    BY <1>a
  <2> QED
    BY <2>1, <2>2
<1>b. \E w \in worths : \A u \in worths : u <= w
  <2> HIDE DEF worths
  <2> QED
    BY <1>3, LargestInRange
<1>4. PICK w \in worths : \A u \in worths : u <= w
  BY <1>b
<1> DEFINE second == {l \in first : W[l] = w}
<1>5. second \subseteq Nat /\ second # {}
  BY <1>4
<1>6. PICK l \in second : \A k \in second : l <= k
  <2> HIDE DEF second
  <2> QED
    BY <1>5, SmallestOf
<1>7. ASSUME NEW k \in S \ {l}
      PROVE  T[k] < T[l] \/ (T[k] = T[l] /\ (W[l] > W[k] \/ (W[l] = W[k] /\ l < k)))
  <2>0. k \in S /\ l \in S /\ k # l
    BY <1>6
  <2>9. /\ T[k] \in Nat /\ T[l] \in Nat /\ W[k] \in Nat /\ W[l] \in Nat
        /\ k \in Nat /\ l \in Nat
    <3> HIDE DEF totals, first, worths, second
    <3>1. k \in Nat /\ l \in Nat
      BY <2>0
    <3>2. T[k] \in 0..bound /\ T[l] \in 0..bound
      BY <1>0, <2>0
    <3>3. W[k] \in 0..most /\ W[l] \in 0..most
      BY <1>9, <2>0
    <3> QED
      BY <3>1, <3>2, <3>3
  <2>1. T[k] <= T[l] /\ T[l] = t /\ W[l] = w
    BY <1>a, <1>6
  <2>2. T[k] = T[l] => k \in first
    BY <2>1
  <2>3. T[k] = T[l] => W[k] <= W[l]
    BY <1>4, <2>1, <2>2
  <2>4. (T[k] = T[l] /\ W[k] = W[l]) => l <= k
    BY <1>6, <2>1, <2>2
  <2> HIDE DEF totals, first, worths, second
  <2> QED
    BY <2>0, <2>1, <2>3, <2>4, <2>9
<1> QED
  BY <1>6, <1>7

(* The totals of a team, slot by slot from the last.                       *)
Sums(frame, names) ==
  CHOOSE total : total = [n \in 0..SlotCount |->
    IF n = 0 THEN 0 ELSE Worth(frame[Slot(n)], names[Slot(n)]) + total[n - 1]]

LEMMA SumsExist ==
  ASSUME NEW frame, NEW names
  PROVE  /\ DOMAIN Sums(frame, names) = 0..SlotCount
         /\ Sums(frame, names)[0] = 0
         /\ \A n \in 1..SlotCount :
              Sums(frame, names)[n] = Worth(frame[Slot(n)], names[Slot(n)])
                                      + Sums(frame, names)[n - 1]
         /\ TotalOf(frame, names) = Sums(frame, names)[SlotCount]
<1> DEFINE v(n) == Worth(frame[Slot(n)], names[Slot(n)])
           P == {m \in Nat : \E f : f = [n \in 0..m |-> IF n = 0 THEN 0 ELSE v(n) + f[n - 1]]}
<1> HIDE DEF v
<1>1. 0 \in P
  <2> DEFINE f == [n \in 0..0 |-> 0]
  <2>1. f = [n \in 0..0 |-> IF n = 0 THEN 0 ELSE v(n) + f[n - 1]]
    OBVIOUS
  <2> QED
    BY <2>1
<1>2. ASSUME NEW m \in Nat, m \in P
      PROVE  m + 1 \in P
  <2>1. PICK f : f = [n \in 0..m |-> IF n = 0 THEN 0 ELSE v(n) + f[n - 1]]
    BY <1>2
  <2> DEFINE g == [n \in 0..(m + 1) |-> IF n = m + 1 THEN v(n) + f[m] ELSE f[n]]
  <2>2. \A n \in 0..m : g[n] = f[n] /\ f[n] = IF n = 0 THEN 0 ELSE v(n) + f[n - 1]
    BY <2>1
  <2>3. g[m + 1] = v(m + 1) + f[m] /\ m \in 0..m
    OBVIOUS
  <2>4. ASSUME NEW n \in 0..(m + 1)
        PROVE  g[n] = IF n = 0 THEN 0 ELSE v(n) + g[n - 1]
    <3>1. CASE n = m + 1
      BY <2>2, <2>3, <3>1
    <3>2. CASE n \in 0..m
      <4> HIDE DEF g
      <4> QED
        BY <2>2, <3>2
    <3> QED
      BY <3>1, <3>2
  <2>5. g = [n \in 0..(m + 1) |-> IF n = 0 THEN 0 ELSE v(n) + g[n - 1]]
    BY <2>4
  <2> HIDE DEF g
  <2>6. \E h : h = [n \in 0..(m + 1) |-> IF n = 0 THEN 0 ELSE v(n) + h[n - 1]]
    BY <2>5
  <2> QED
    BY <2>6
<1>3. SlotCount \in P
  BY <1>1, <1>2, RoiAssumption, SetInduction
<1>4. \E f : f = [n \in 0..SlotCount |-> IF n = 0 THEN 0 ELSE v(n) + f[n - 1]]
  BY <1>3
<1> DEFINE total == Sums(frame, names)
<1>5. total = [n \in 0..SlotCount |-> IF n = 0 THEN 0 ELSE v(n) + total[n - 1]]
  BY <1>4 DEF v, Sums
<1>6. TotalOf(frame, names) = total[SlotCount]
  BY DEF TotalOf, Sums
<1> HIDE DEF total
<1>7. /\ DOMAIN total = 0..SlotCount /\ total[0] = 0
      /\ \A n \in 1..SlotCount : total[n] = v(n) + total[n - 1]
  BY <1>5, RoiAssumption
<1> QED
  BY <1>6, <1>7 DEF v, total

LEMMA SlotsAreLast ==
  ASSUME NEW n \in 1..SlotCount
  PROVE  /\ Slot(n) \in 1..SlotCount /\ n - 1 \in 0..SlotCount /\ n \in Nat /\ n \in 0..SlotCount
         /\ \A i \in 1..SlotCount : i > SlotCount - n <=> (i = Slot(n) \/ i > SlotCount - (n - 1))
         /\ ~(Slot(n) > SlotCount - (n - 1))
  BY RoiAssumption DEF Slot

(* The total of a team is a number.                                        *)
LEMMA SumsAreNat ==
  ASSUME trusted \subseteq Images \X Labels,
         NEW frame \in [1..SlotCount -> Images],
         NEW names \in [1..SlotCount -> LabelsOrNone],
         NEW n \in 0..SlotCount
  PROVE  Sums(frame, names)[n] \in Nat
<1> DEFINE P == {m \in Nat : m \in 0..SlotCount => Sums(frame, names)[m] \in Nat}
<1>1. 0 \in P
  BY SumsExist
<1>2. ASSUME NEW m \in Nat, m \in P
      PROVE  m + 1 \in P
  <2> SUFFICES ASSUME m + 1 \in 0..SlotCount
               PROVE  Sums(frame, names)[m + 1] \in Nat
    BY <1>2
  <2>1. m + 1 \in 1..SlotCount /\ (m + 1) - 1 = m /\ m \in 0..SlotCount
    BY RoiAssumption
  <2>2. Slot(m + 1) \in 1..SlotCount
    BY <2>1, SlotsAreLast
  <2>3. Worth(frame[Slot(m + 1)], names[Slot(m + 1)]) \in 0..Most /\ Most \in Nat
    BY <2>2, WorthIsBounded
  <2>4. Sums(frame, names)[m] \in Nat
    BY <1>2, <2>1
  <2>5. Sums(frame, names)[m + 1]
          = Worth(frame[Slot(m + 1)], names[Slot(m + 1)]) + Sums(frame, names)[(m + 1) - 1]
    BY <2>1, SumsExist
  <2> QED
    BY <2>1, <2>3, <2>4, <2>5
<1>3. n \in Nat
  OBVIOUS
<1> HIDE DEF P
<1>4. n \in P
  BY <1>1, <1>2, <1>3, SetInduction
<1> QED
  BY <1>4 DEF P

AgreeAfter(n, names, others) ==
  \A i \in 1..SlotCount : i > SlotCount - n => names[i] = others[i]

(* The total over the last slots depends on their names alone.             *)
LEMMA SumsAreOfTheRest ==
  ASSUME NEW frame, NEW names, NEW others, NEW n \in 0..SlotCount, AgreeAfter(n, names, others)
  PROVE  Sums(frame, names)[n] = Sums(frame, others)[n]
<1> DEFINE P == {m \in Nat : m \in 0..n => Sums(frame, names)[m] = Sums(frame, others)[m]}
<1>1. 0 \in P
  BY SumsExist
<1>2. ASSUME NEW m \in Nat, m \in P
      PROVE  m + 1 \in P
  <2> SUFFICES ASSUME m + 1 \in 0..n
               PROVE  Sums(frame, names)[m + 1] = Sums(frame, others)[m + 1]
    BY <1>2
  <2>1. m + 1 \in 1..SlotCount /\ (m + 1) - 1 = m /\ m \in 0..n
    BY RoiAssumption
  <2>2. Slot(m + 1) \in 1..SlotCount /\ Slot(m + 1) > SlotCount - n
    BY <2>1, RoiAssumption DEF Slot
  <2>3. names[Slot(m + 1)] = others[Slot(m + 1)]
    BY <2>2 DEF AgreeAfter
  <2>4. Sums(frame, names)[m] = Sums(frame, others)[m]
    BY <1>2, <2>1
  <2>5. /\ Sums(frame, names)[m + 1]
             = Worth(frame[Slot(m + 1)], names[Slot(m + 1)]) + Sums(frame, names)[(m + 1) - 1]
        /\ Sums(frame, others)[m + 1]
             = Worth(frame[Slot(m + 1)], others[Slot(m + 1)]) + Sums(frame, others)[(m + 1) - 1]
    BY <2>1, SumsExist
  <2> QED
    BY <2>1, <2>3, <2>4, <2>5
<1>3. n \in Nat /\ n \in 0..n
  BY RoiAssumption
<1> HIDE DEF P
<1>4. n \in P
  BY <1>1, <1>2, <1>3, SetInduction
<1> QED
  BY <1>3, <1>4 DEF P

(* What the search has found for the last n slots.                         *)
Visited(frame) ==
  CHOOSE visited : visited = [n \in 0..SlotCount |->
    [used \in SUBSET Labels |->
       IF n = 0 THEN NobodyNamed ELSE Visit(frame[Slot(n)], n, visited[n - 1], used)]]

LEMMA VisitedExists ==
  ASSUME NEW frame
  PROVE  /\ \A used \in SUBSET Labels : Visited(frame)[0][used] = NobodyNamed
         /\ \A n \in 1..SlotCount : \A used \in SUBSET Labels :
              Visited(frame)[n][used] = Visit(frame[Slot(n)], n, Visited(frame)[n - 1], used)
         /\ Assigned(frame) = Visited(frame)[SlotCount][{}].names
<1> DEFINE L(n, w) == [used \in SUBSET Labels |->
                        IF n = 0 THEN NobodyNamed ELSE Visit(frame[Slot(n)], n, w, used)]
           P == {m \in Nat : \E f : f = [n \in 0..m |-> L(n, f[n - 1])]}
<1>0. ASSUME NEW v, NEW w
      PROVE  L(0, v) = L(0, w)
  OBVIOUS
<1>5. \A w : \A used \in SUBSET Labels : L(0, w)[used] = NobodyNamed
  OBVIOUS
<1>6. \A n \in 1..SlotCount : \A w : \A used \in SUBSET Labels :
        L(n, w)[used] = Visit(frame[Slot(n)], n, w, used)
  BY RoiAssumption
<1>7. Visited(frame) = CHOOSE f : f = [n \in 0..SlotCount |-> L(n, f[n - 1])]
  BY DEF Visited
<1>8. Assigned(frame) = Visited(frame)[SlotCount][{}].names
  BY DEF Assigned, Visited
<1> HIDE DEF L
<1>1. 0 \in P
  <2> DEFINE f == [n \in 0..0 |-> L(0, 0)]
  <2>1. f = [n \in 0..0 |-> L(n, f[n - 1])]
    BY <1>0
  <2> HIDE DEF f
  <2>2. \E h : h = [n \in 0..0 |-> L(n, h[n - 1])]
    BY <2>1
  <2> QED
    BY <2>2
<1>2. ASSUME NEW m \in Nat, m \in P
      PROVE  m + 1 \in P
  <2>1. PICK f : f = [n \in 0..m |-> L(n, f[n - 1])]
    BY <1>2
  <2> DEFINE g == [n \in 0..(m + 1) |-> IF n = m + 1 THEN L(m + 1, f[m]) ELSE f[n]]
  <2>2. \A n \in 0..m : g[n] = f[n] /\ f[n] = L(n, f[n - 1])
    BY <2>1
  <2>3. g[m + 1] = L(m + 1, f[m]) /\ m \in 0..m
    OBVIOUS
  <2>4. ASSUME NEW n \in 0..(m + 1)
        PROVE  g[n] = L(n, g[n - 1])
    <3>1. CASE n = m + 1
      BY <2>2, <2>3, <3>1
    <3>2. CASE n = 0
      <4> HIDE DEF g
      <4>1. g[0] = L(0, f[0 - 1])
        BY <2>2
      <4>2. L(0, f[0 - 1]) = L(0, g[n - 1])
        BY <1>0
      <4> QED
        BY <3>2, <4>1, <4>2
    <3>3. CASE n \in 1..m
      <4> HIDE DEF g
      <4>1. n \in 0..m /\ n - 1 \in 0..m
        BY <3>3
      <4> QED
        BY <2>2, <4>1
    <3> QED
      BY <3>1, <3>2, <3>3
  <2>5. g = [n \in 0..(m + 1) |-> L(n, g[n - 1])]
    BY <2>4
  <2> HIDE DEF g
  <2>6. \E h : h = [n \in 0..(m + 1) |-> L(n, h[n - 1])]
    BY <2>5
  <2> QED
    BY <2>6
<1>3. SlotCount \in P
  <2> HIDE DEF P
  <2> QED
    BY <1>1, <1>2, RoiAssumption, SetInduction
<1>4. \E f : f = [n \in 0..SlotCount |-> L(n, f[n - 1])]
  BY <1>3
<1> DEFINE visited == Visited(frame)
<1>9. visited = [n \in 0..SlotCount |-> L(n, visited[n - 1])]
  BY <1>4, <1>7
<1> HIDE DEF visited
<1>10. /\ visited[0] = L(0, visited[0 - 1])
       /\ \A n \in 1..SlotCount : visited[n] = L(n, visited[n - 1])
  <2>1. \A n \in 0..SlotCount : visited[n] = L(n, visited[n - 1])
    BY <1>9
  <2>2. 0 \in 0..SlotCount /\ \A n \in 1..SlotCount : n \in 0..SlotCount
    BY RoiAssumption
  <2> QED
    BY <2>1, <2>2, Zenon
<1>11. /\ \A used \in SUBSET Labels : visited[0][used] = NobodyNamed
       /\ \A n \in 1..SlotCount : \A used \in SUBSET Labels :
            visited[n][used] = Visit(frame[Slot(n)], n, visited[n - 1], used)
  BY <1>5, <1>6, <1>10
<1> QED
  BY <1>8, <1>11 DEF visited

(* What is taken when a name is given.                                     *)
Without(used, l) == (used \cup {l}) \ {Unknown6}

LEMMA OptionsAreNames ==
  ASSUME NEW x, NEW used \in SUBSET Labels
  PROVE  /\ Options(x, used) \subseteq LabelsOrNone /\ Unknown6 \in Options(x, used)
         /\ LabelsOrNone \subseteq Nat
         /\ \A l \in Options(x, used) : Without(used, l) \in SUBSET Labels
         /\ \A l \in Options(x, used) : l \notin used
  BY RoiAssumption DEF Options, Candidates, LabelsOrNone, Unknown6, Without

LEMMA ExtendedTotal ==
  ASSUME NEW x, NEW n, NEW l, NEW r
  PROVE  Extended(x, n, l, r).total = Worth(x, l) + r.total
  BY DEF Extended

LEMMA ExtendedNames ==
  ASSUME NEW x, NEW n, NEW l, NEW r
  PROVE  Extended(x, n, l, r).names = [r.names EXCEPT ![Slot(n)] = l]
  BY DEF Extended

(* A slot gets a name with which the greatest total is reached.            *)
LEMMA VisitChooses ==
  ASSUME trusted \subseteq Images \X Labels,
         NEW x \in Images, NEW n, NEW rest, NEW used \in SUBSET Labels,
         NEW b \in Nat, \A u \in SUBSET Labels : rest[u].total \in 0..b
  PROVE  \E l \in Options(x, used) :
           /\ Visit(x, n, rest, used) = Extended(x, n, l, rest[Without(used, l)])
           /\ \A k \in Options(x, used) :
                Worth(x, k) + rest[Without(used, k)].total
                  <= Worth(x, l) + rest[Without(used, l)].total
<1> DEFINE O == Options(x, used)
           with == [l \in O |-> Extended(x, n, l, rest[Without(used, l)])]
           T == [l \in O |-> with[l].total]
           W == [l \in O |-> Worth(x, l)]
           Wins(l) == \A k \in O \ {l} :
                        \/ with[k].total < with[l].total
                        \/ with[k].total = with[l].total /\ Ahead(x, l, k)
<1>1. O \subseteq LabelsOrNone /\ O \subseteq Nat /\ O # {}
      /\ \A l \in O : Without(used, l) \in SUBSET Labels
  BY OptionsAreNames
<1>2. Visit(x, n, rest, used) = with[CHOOSE l \in O : Wins(l)]
  BY DEF Visit, Without
<1> HIDE DEF O
<1>3. \A l \in O : Worth(x, l) \in 0..Most /\ Most \in Nat
  BY <1>1, WorthIsBounded
<1>4. \A l \in O : with[l].total = Worth(x, l) + rest[Without(used, l)].total
  <2>1. \A l \in O : with[l] = Extended(x, n, l, rest[Without(used, l)])
    OBVIOUS
  <2> HIDE DEF with
  <2>2. \A l \in O : Extended(x, n, l, rest[Without(used, l)]).total
                        = Worth(x, l) + rest[Without(used, l)].total
    BY ExtendedTotal
  <2> QED
    BY <2>1, <2>2, Zenon
<1>5. Most \in Nat /\ Most + b \in Nat
  BY DEF Most
<1>6. \A l \in O : T[l] \in 0..(Most + b) /\ W[l] \in 0..Most /\ T[l] = with[l].total
                     /\ W[l] = Worth(x, l)
  <2> SUFFICES ASSUME NEW l \in O
               PROVE  /\ T[l] \in 0..(Most + b) /\ W[l] \in 0..Most
                      /\ T[l] = with[l].total /\ W[l] = Worth(x, l)
    OBVIOUS
  <2>1. T[l] = with[l].total /\ W[l] = Worth(x, l)
    OBVIOUS
  <2> HIDE DEF T, W, with
  <2>2. rest[Without(used, l)].total \in 0..b
    BY <1>1
  <2> QED
    BY <1>3, <1>4, <1>5, <2>1, <2>2
<1> HIDE DEF T, W, with
<1>7. PICK l \in O : \A k \in O \ {l} :
        \/ T[k] < T[l]
        \/ T[k] = T[l] /\ (W[l] > W[k] \/ (W[l] = W[k] /\ l < k))
  <2>1. \A l \in O : T[l] \in 0..(Most + b)
    BY <1>6
  <2>2. \A l \in O : W[l] \in 0..Most
    BY <1>6
  <2>3. Bounded(O, T) /\ Bounded(O, W)
    BY <1>5, <2>1, <2>2, Zenon DEF Bounded
  <2> QED
    BY <1>1, <2>3, WinnerExists
<1>8. Wins(l)
  BY <1>6, <1>7 DEF Ahead
<1>9. PICK m : m = CHOOSE l0 \in O : Wins(l0)
  OBVIOUS
<1>10. m \in O /\ Wins(m)
  <2> HIDE DEF Wins
  <2> QED
    BY <1>8, <1>9
<1>11. \A k \in O : with[k].total <= with[m].total
  <2> SUFFICES ASSUME NEW k \in O PROVE with[k].total <= with[m].total
    OBVIOUS
  <2>1. T[k] \in Nat /\ T[m] \in Nat /\ T[k] = with[k].total /\ T[m] = with[m].total
    BY <1>5, <1>6, <1>10
  <2>2. k # m => T[k] < T[m] \/ T[k] = T[m]
    BY <1>10, <2>1
  <2> QED
    BY <2>1, <2>2
<1>12. Visit(x, n, rest, used) = with[m]
  <2> HIDE DEF Wins
  <2> QED
    BY <1>2, <1>9
<1>13. with[m] = Extended(x, n, m, rest[Without(used, m)])
  BY <1>10 DEF with
<1>14. \A k \in O : Worth(x, k) + rest[Without(used, k)].total
                       <= Worth(x, m) + rest[Without(used, m)].total
  BY <1>4, <1>10, <1>11
<1> QED
  BY <1>10, <1>12, <1>13, <1>14 DEF O

(* The names of the last n slots are a part of a team without those used.  *)
IsTail(frame, n, used, t) ==
  \A i \in 1..SlotCount : i > SlotCount - n =>
    /\ t[i] \in Options(frame[i], used)
    /\ \A j \in 1..SlotCount : (j > SlotCount - n /\ i # j /\ t[i] = t[j]) => t[i] = Unknown6

RestIsBest(frame, n, used, r) ==
  /\ r.names \in [1..SlotCount -> LabelsOrNone]
  /\ IsTail(frame, n, used, r.names)
  /\ r.total = Sums(frame, r.names)[n] /\ r.total \in Nat
  /\ \A t \in [1..SlotCount -> LabelsOrNone] :
       IsTail(frame, n, used, t) => Sums(frame, t)[n] <= r.total

LevelIsBest(frame, n) ==
  /\ \A used \in SUBSET Labels : RestIsBest(frame, n, used, Visited(frame)[n][used])
  /\ \E b \in Nat : \A used \in SUBSET Labels : Visited(frame)[n][used].total \in 0..b

(* A name before the last slots, and the names of those without it.        *)
LEMMA TailGrows ==
  ASSUME NEW frame, NEW used \in SUBSET Labels, NEW n \in 1..SlotCount,
         NEW l \in Options(frame[Slot(n)], used),
         NEW t \in [1..SlotCount -> LabelsOrNone],
         IsTail(frame, n - 1, Without(used, l), t)
  PROVE  /\ [t EXCEPT ![Slot(n)] = l] \in [1..SlotCount -> LabelsOrNone]
         /\ IsTail(frame, n, used, [t EXCEPT ![Slot(n)] = l])
<1> DEFINE k == Slot(n)
           s == [t EXCEPT ![k] = l]
<1>1. /\ k \in 1..SlotCount
      /\ \A i \in 1..SlotCount : i > SlotCount - n <=> (i = k \/ i > SlotCount - (n - 1))
      /\ ~(k > SlotCount - (n - 1))
  BY SlotsAreLast
<1>2. l \in LabelsOrNone
  BY OptionsAreNames
<1> HIDE DEF k
<1>3. /\ s \in [1..SlotCount -> LabelsOrNone] /\ s[k] = l
      /\ \A i \in 1..SlotCount : i # k => s[i] = t[i]
  BY <1>1, <1>2
<1> HIDE DEF s
<1>4. ASSUME NEW i \in 1..SlotCount, i > SlotCount - (n - 1)
      PROVE  s[i] = t[i] /\ s[i] \in Options(frame[i], used) /\ (s[i] = l => l = Unknown6)
  <2>1. s[i] = t[i] /\ t[i] \in Options(frame[i], Without(used, l))
    BY <1>1, <1>3, <1>4 DEF IsTail
  <2> QED
    BY <2>1 DEF Options, Without
<1>5. ASSUME NEW i \in 1..SlotCount, NEW j \in 1..SlotCount,
             i > SlotCount - n, j > SlotCount - n, i # j, s[i] = s[j]
      PROVE  s[i] = Unknown6
  <2>1. CASE i = k
    BY <1>1, <1>3, <1>4, <1>5, <2>1
  <2>2. CASE j = k
    BY <1>1, <1>3, <1>4, <1>5, <2>2
  <2>3. CASE i # k /\ j # k
    <3>1. i > SlotCount - (n - 1) /\ j > SlotCount - (n - 1) /\ t[i] = t[j]
      BY <1>1, <1>3, <1>5, <2>3
    <3>2. t[i] = Unknown6
      BY <1>5, <3>1 DEF IsTail
    <3> QED
      BY <1>3, <2>3, <3>2
  <2> QED
    BY <2>1, <2>2, <2>3
<1>6. ASSUME NEW i \in 1..SlotCount, i > SlotCount - n
      PROVE  s[i] \in Options(frame[i], used)
  <2>1. CASE i = k
    BY <1>3, <2>1 DEF k
  <2>2. CASE i # k
    BY <1>1, <1>4, <1>6, <2>2
  <2> QED
    BY <2>1, <2>2
<1>7. IsTail(frame, n, used, s)
  BY <1>5, <1>6 DEF IsTail
<1> QED
  BY <1>3, <1>7 DEF s, k

LEMMA TailShrinks ==
  ASSUME NEW frame, NEW used \in SUBSET Labels, NEW n \in 1..SlotCount, NEW t,
         IsTail(frame, n, used, t)
  PROVE  /\ t[Slot(n)] \in Options(frame[Slot(n)], used)
         /\ IsTail(frame, n - 1, Without(used, t[Slot(n)]), t)
<1> DEFINE k == Slot(n)
<1>1. /\ k \in 1..SlotCount
      /\ \A i \in 1..SlotCount : i > SlotCount - n <=> (i = k \/ i > SlotCount - (n - 1))
      /\ ~(k > SlotCount - (n - 1))
  BY SlotsAreLast
<1> HIDE DEF k
<1>2. t[k] \in Options(frame[k], used)
  BY <1>1 DEF IsTail
<1>3. ASSUME NEW i \in 1..SlotCount, i > SlotCount - (n - 1)
      PROVE  t[i] \in Options(frame[i], Without(used, t[k]))
  <2>1. t[i] \in Options(frame[i], used) /\ (t[i] = t[k] => t[i] = Unknown6)
    BY <1>1, <1>3 DEF IsTail
  <2> QED
    BY <2>1 DEF Options, Without
<1>4. \A i, j \in 1..SlotCount :
        (i > SlotCount - (n - 1) /\ j > SlotCount - (n - 1) /\ i # j /\ t[i] = t[j])
          => t[i] = Unknown6
  BY <1>1 DEF IsTail
<1> QED
  BY <1>2, <1>3, <1>4 DEF IsTail, k

LEMMA LevelStep ==
  ASSUME trusted \subseteq Images \X Labels,
         NEW frame \in [1..SlotCount -> Images], NEW n \in 1..SlotCount,
         LevelIsBest(frame, n - 1)
  PROVE  LevelIsBest(frame, n)
<1> DEFINE x == frame[Slot(n)]
           rest == Visited(frame)[n - 1]
           level == Visited(frame)[n]
<1>1. /\ Slot(n) \in 1..SlotCount /\ n - 1 \in 0..SlotCount /\ n \in 0..SlotCount
      /\ \A i \in 1..SlotCount : i > SlotCount - (n - 1) => i # Slot(n)
  BY SlotsAreLast
<1>2. x \in Images
  BY <1>1
<1>3. PICK b \in Nat : \A used \in SUBSET Labels : rest[used].total \in 0..b
  BY DEF LevelIsBest
<1>4. \A used \in SUBSET Labels : RestIsBest(frame, n - 1, used, rest[used])
  BY DEF LevelIsBest
<1>5. \A used \in SUBSET Labels : level[used] = Visit(x, n, rest, used)
  BY VisitedExists
<1>6. \A t : Sums(frame, t)[n] = Worth(x, t[Slot(n)]) + Sums(frame, t)[n - 1]
  BY SumsExist
<1> HIDE DEF x, rest, level
<1>7. ASSUME NEW used \in SUBSET Labels
      PROVE  RestIsBest(frame, n, used, level[used]) /\ level[used].total \in 0..(Most + b)
  <2> DEFINE after(l) == rest[Without(used, l)]
  <2>1. PICK l \in Options(x, used) :
          /\ Visit(x, n, rest, used) = Extended(x, n, l, after(l))
          /\ \A k \in Options(x, used) :
               Worth(x, k) + after(k).total <= Worth(x, l) + after(l).total
    BY <1>2, <1>3, VisitChooses
  <2>2. \A k \in Options(x, used) : /\ Without(used, k) \in SUBSET Labels /\ k \in LabelsOrNone
    BY OptionsAreNames
  <2>3. \A k \in Options(x, used) : RestIsBest(frame, n - 1, Without(used, k), after(k))
    BY <1>4, <2>2
  <2>4. after(l).total \in 0..b
    BY <1>3, <2>2
  <2>5. \A k \in Options(x, used) : Worth(x, k) \in 0..Most /\ Most \in Nat
    BY <1>2, <2>2, WorthIsBounded
  <2> HIDE DEF after
  <2>6. level[used] = Extended(x, n, l, after(l))
    BY <1>5, <2>1
  <2> DEFINE r == level[used]
             s == r.names
  <2>7. r.total = Worth(x, l) + after(l).total /\ s = [after(l).names EXCEPT ![Slot(n)] = l]
    BY <2>6, ExtendedTotal, ExtendedNames
  <2> HIDE DEF r, s
  <2>8. /\ after(l).names \in [1..SlotCount -> LabelsOrNone]
        /\ IsTail(frame, n - 1, Without(used, l), after(l).names)
        /\ after(l).total = Sums(frame, after(l).names)[n - 1]
    BY <2>3 DEF RestIsBest
  <2>9. s \in [1..SlotCount -> LabelsOrNone] /\ IsTail(frame, n, used, s)
    BY <2>7, <2>8, TailGrows DEF x
  <2>10. /\ s[Slot(n)] = l
         /\ \A i \in 1..SlotCount : i > SlotCount - (n - 1) => s[i] = after(l).names[i]
    BY <1>1, <2>7, <2>8
  <2>11. Sums(frame, s)[n - 1] = Sums(frame, after(l).names)[n - 1]
    <3>1. AgreeAfter(n - 1, s, after(l).names)
      BY <2>10 DEF AgreeAfter
    <3> QED
      BY <1>1, <3>1, SumsAreOfTheRest
  <2>12. r.total = Sums(frame, s)[n] /\ r.total \in 0..(Most + b) /\ r.total \in Nat
    <3>1. Sums(frame, s)[n] = Worth(x, l) + after(l).total
      BY <1>6, <2>8, <2>10, <2>11
    <3>2. Worth(x, l) \in 0..Most /\ Most \in Nat
      BY <2>5
    <3> QED
      BY <2>4, <2>7, <3>1, <3>2
  <2>13. ASSUME NEW t \in [1..SlotCount -> LabelsOrNone], IsTail(frame, n, used, t)
         PROVE  Sums(frame, t)[n] <= r.total
    <3> DEFINE k == t[Slot(n)]
    <3>1. k \in Options(x, used) /\ IsTail(frame, n - 1, Without(used, k), t)
      BY <2>13, TailShrinks DEF x
    <3>2. Sums(frame, t)[n - 1] <= after(k).total /\ after(k).total \in Nat
      BY <2>3, <2>13, <3>1 DEF RestIsBest
    <3>3. Sums(frame, t)[n - 1] \in Nat
      BY <1>1, SumsAreNat
    <3>4. Sums(frame, t)[n] = Worth(x, k) + Sums(frame, t)[n - 1]
      BY <1>6
    <3>5. Worth(x, k) + after(k).total <= r.total
      BY <2>1, <2>7, <3>1
    <3>6. Worth(x, k) \in Nat
      BY <2>5, <3>1
    <3> HIDE DEF k
    <3> QED
      BY <2>12, <3>2, <3>3, <3>4, <3>5, <3>6
  <2> QED
    BY <2>9, <2>12, <2>13 DEF RestIsBest, r, s
<1>8. Most + b \in Nat
  BY DEF Most
<1> QED
  BY <1>7, <1>8 DEF LevelIsBest, level

(* The search finds a best team.                                           *)
LEMMA SearchFindsTheBest ==
  ASSUME trusted \subseteq Images \X Labels, NEW frame \in [1..SlotCount -> Images]
  PROVE  /\ Assigned(frame) \in TeamsOf(frame)
         /\ \A t \in TeamsOf(frame) : TotalOf(frame, t) <= TotalOf(frame, Assigned(frame))
<1> DEFINE P == {m \in Nat : m \in 0..SlotCount => LevelIsBest(frame, m)}
<1>1. 0 \in P
  <2>1. /\ NobodyNamed.names \in [1..SlotCount -> LabelsOrNone] /\ NobodyNamed.total = 0
    BY DEF NobodyNamed, LabelsOrNone
  <2>2. \A t : Sums(frame, t)[0] = 0
    BY SumsExist
  <2>3. \A used, t : IsTail(frame, 0, used, t)
    BY RoiAssumption DEF IsTail
  <2>4. \A used : RestIsBest(frame, 0, used, NobodyNamed)
    BY <2>1, <2>2, <2>3 DEF RestIsBest
  <2>5. \A used \in SUBSET Labels : Visited(frame)[0][used] = NobodyNamed
    BY VisitedExists
  <2>6. 0 \in Nat /\ \A used \in SUBSET Labels : Visited(frame)[0][used].total \in 0..0
    BY <2>1, <2>5
  <2> QED
    BY <2>4, <2>5, <2>6 DEF LevelIsBest
<1>2. ASSUME NEW m \in Nat, m \in P
      PROVE  m + 1 \in P
  <2> SUFFICES ASSUME m + 1 \in 0..SlotCount
               PROVE  LevelIsBest(frame, m + 1)
    BY <1>2
  <2>1. m + 1 \in 1..SlotCount /\ (m + 1) - 1 = m /\ m \in 0..SlotCount
    BY RoiAssumption
  <2>2. LevelIsBest(frame, (m + 1) - 1)
    BY <1>2, <2>1
  <2> QED
    BY <2>1, <2>2, LevelStep
<1>3. LevelIsBest(frame, SlotCount)
  <2> HIDE DEF P
  <2>1. SlotCount \in P
    BY <1>1, <1>2, RoiAssumption, SetInduction
  <2> QED
    BY <2>1, RoiAssumption DEF P
<1> DEFINE best == Visited(frame)[SlotCount][{}]
<1>4. RestIsBest(frame, SlotCount, {}, best)
  BY <1>3 DEF LevelIsBest
<1>5. Assigned(frame) = best.names /\ \A t : TotalOf(frame, t) = Sums(frame, t)[SlotCount]
  BY VisitedExists, SumsExist
<1> HIDE DEF best
<1>6. ASSUME NEW t \in [1..SlotCount -> LabelsOrNone]
      PROVE  t \in TeamsOf(frame) <=> IsTail(frame, SlotCount, {}, t)
  <2>1. \A i \in 1..SlotCount : i > SlotCount - SlotCount
    BY RoiAssumption
  <2> QED
    BY <2>1 DEF IsTail, TeamsOf, LabelsOrNone
<1>7. \A t \in TeamsOf(frame) : t \in [1..SlotCount -> LabelsOrNone]
  BY DEF TeamsOf, LabelsOrNone
<1> QED
  BY <1>4, <1>5, <1>6, <1>7 DEF RestIsBest

(* The name of a team does not change while nothing is filed.              *)
LEMMA AssignedDependsOnFiles ==
  ASSUME trusted' = trusted, NEW f
  PROVE  /\ Assigned(f)' = Assigned(f) /\ TeamsOf(f)' = TeamsOf(f)
         /\ \A t : TotalOf(f, t)' = TotalOf(f, t)
  BY DEF Assigned, TeamsOf, TotalOf, Visit, Extended, Options, Candidates, Ahead, Worth, ScoreOf

(* While nothing is filed the names on the screen are those the search     *)
(* finds for its frame.                                                    *)
NamesWereSearched ==
  screen.open /\ filing.step = "none" => screen.names = Assigned(screen.frame)

LEMMA SearchKept ==
  ASSUME RoiInv, NamesWereSearched, [RoiNext]_roiVars
  PROVE  NamesWereSearched'
<1>1. filing \in FilingStates
  BY DEF RoiInv, FilingTyped
<1>2. CASE ProcessFrame
  <2>1. PICK f \in Frames : screen' = [match |-> screen.match + 1, frame |-> f,
                                      kept |-> ObservationOf(f), names |-> Assigned(f),
                                      open |-> TRUE]
    BY <1>2 DEF ProcessFrame
  <2>2. screen'.names = Assigned(f) /\ screen'.frame = f
    BY <2>1
  <2>3. trusted' = trusted
    BY <1>2 DEF ProcessFrame
  <2>4. Assigned(f)' = Assigned(f)
    BY <2>3, AssignedDependsOnFiles
  <2> QED
    BY <2>2, <2>4 DEF NamesWereSearched
<1>3. CASE UNCHANGED roiVars
  BY <1>3, AssignedDependsOnFiles DEF NamesWereSearched, roiVars
<1>4. CASE RecordSent
  BY <1>4 DEF RecordSent, NotFiling, NamesWereSearched
<1>5. CASE FileSlot \/ AppendRows \/ TakeName \/ PromoteImage
  <2>1. filing'.step \in {"slots", "promote"}
    BY <1>1, <1>5 DEF FileSlot, AppendRows, TakeName, PromoteImage, FilingStates
  <2> QED
    BY <2>1 DEF NamesWereSearched
<1>6. CASE WriteFails
  BY <1>6 DEF WriteFails, NotFiling, NamesWereSearched
<1>7. CASE AllFiled \/ StopWhileFiling
  BY <1>7 DEF AllFiled, StopWhileFiling, NoScreen, NamesWereSearched
<1> QED
  BY <1>2, <1>3, <1>4, <1>5, <1>6, <1>7 DEF RoiNext

(* The suggestion is the best team of differing names that the matcher     *)
(* offers for the slots, for every number of slots, names and images,      *)
(* however alike they are, whatever was filed before and however a filing  *)
(* failed: the search of assign_unique_team_candidates loses no team.      *)
THEOREM SuggestionIsAlwaysBest == RoiSpec => []SuggestionIsBest
<1>1. RoiInit => NamesWereSearched
  BY DEF RoiInit, NoScreen, NamesWereSearched
<1>2. RoiInv /\ NamesWereSearched /\ [RoiNext]_roiVars => NamesWereSearched'
  BY SearchKept
<1>3. RoiInv /\ NamesWereSearched => SuggestionIsBest
  <2> SUFFICES ASSUME RoiInv, NamesWereSearched, screen.open, filing.step = "none"
               PROVE  /\ screen.names \in TeamsOf(screen.frame)
                      /\ \A t \in TeamsOf(screen.frame) :
                           TotalOf(screen.frame, t) <= TotalOf(screen.frame, screen.names)
    BY DEF SuggestionIsBest
  <2>1. screen.frame \in [1..SlotCount -> Images] /\ trusted \subseteq Images \X Labels
    BY RoiAssumption DEF RoiInv, ScreenTyped, FilesTyped
  <2>2. screen.names = Assigned(screen.frame)
    BY DEF NamesWereSearched
  <2> QED
    BY <2>1, <2>2, SearchFindsTheBest
<1> QED
  BY <1>1, <1>2, <1>3, RoiAlways, PTL DEF RoiSpec
=============================================================================
