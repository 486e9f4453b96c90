------------------------------- MODULE Sensing -------------------------------
(***************************************************************************)
(* The perception side of one process: the camera thread that reconnects   *)
(* and keeps a ring of frames, the vision thread that infers on the newest *)
(* one, the thread that arms the vision when model and camera are ready,   *)
(* an operator who sets the detection mode, and the lookup of frames       *)
(* adjacent to a detection, which comes when its run asks for it.          *)
(*                                                                         *)
(* A session id is the number of the connection; code compares it for      *)
(* equality only.  Detections are handed to the runtime at once; what the  *)
(* runtime does with them is Ingress's.                                    *)
(***************************************************************************)
EXTENDS Integers, Sequences, FiniteSets, Functions

CONSTANTS
  MaxSessions,  \* bound: connections of the camera
  MaxFrames,    \* bound: frames of all connections
  MaxFailures,  \* bound: inferences or callbacks that raise
  Buffer,       \* evidence_buffer_size
  Window,       \* the distance evidence_frames allows
  Offsets,      \* its target offsets, in order
  Limit,        \* the frames a request may have
  Tolerated     \* consecutive failures that pause the vision

ASSUME SensingAssumption ==
  /\ {MaxSessions, MaxFrames, MaxFailures, Window} \subseteq Nat
  /\ {Buffer, Limit, Tolerated} \subseteq Nat \ {0}
  /\ Offsets \in Seq(Int)

VARIABLES
  camera,       \* the connection, _online, _stream_session_id and _frames_total
  ring,         \* _evidence_frames
  latest,       \* the newest decoded frame and, as history, its connection
  vision,       \* the vision thread and its status
  arm,          \* where _auto_arm_vision is
  operator,     \* where set_detection_mode is
  stopping,     \* Application.stop has begun
  events,       \* detections handed to the runtime
  handed        \* the last answer of evidence_frames, and the detection it was for;
                \* the answer is in the order of frame ids, so that its set says it all

vars == <<camera, ring, latest, vision, arm, operator, stopping, events, handed>>

Frame == [id : 0..MaxFrames, from : 0..MaxSessions]

Detection == [id : 1..MaxFrames, from : 1..MaxSessions, session : 1..MaxSessions]

Row == [id : 1..MaxFrames, session : 1..MaxSessions]

NoFrame == [id |-> 0, from |-> 0]

TypeOK ==
  /\ camera \in [open : BOOLEAN, online : BOOLEAN, session : 0..MaxSessions,
                 total : 0..MaxFrames]
  /\ ring \in Seq(Row) /\ Len(ring) <= Buffer
  /\ latest \in Frame
  /\ vision \in [at : {"loading", "warming", "idle", "predict", "note", "report", "gone"},
                 status : {"starting", "ready", "online", "degraded"},
                 active : BOOLEAN, wasActive : BOOLEAN, frame : Frame,
                 failures : 0..MaxFailures]
  /\ vision.status = "starting" => vision.at \in {"loading", "warming"}
  /\ arm \in {"look", "camera", "lock", "set", "gone"}
  /\ operator \in {"none", "lock", "set", "pausing"}
  /\ stopping \in BOOLEAN
  /\ events \subseteq Detection
  /\ handed \in {[for |-> NoFrame, rows |-> {}]} \cup [for : Detection, rows : SUBSET Row]

Init ==
  /\ camera = [open |-> FALSE, online |-> FALSE, session |-> 0, total |-> 0]
  /\ ring = <<>>
  /\ latest = NoFrame
  /\ vision = [at |-> "loading", status |-> "starting", active |-> FALSE,
               wasActive |-> FALSE, frame |-> NoFrame, failures |-> 0]
  /\ arm = "look"
  /\ operator = "none"
  /\ stopping = FALSE
  /\ events = {}
  /\ handed = [for |-> NoFrame, rows |-> {}]
-----------------------------------------------------------------------------
(* The camera thread.                                                       *)

\* Mutant: the frames of a new connection are numbered from one.
ConnectM ==
  /\ ~camera.open /\ camera.session < MaxSessions
  /\ camera' = [open |-> TRUE, online |-> TRUE, session |-> camera.session + 1, total |-> 0]
  /\ ring' = <<>>
  /\ UNCHANGED <<latest, vision, arm, operator, stopping, events, handed>>

\* A connection that opens starts a new evidence namespace.
Connect ==
  /\ ~camera.open /\ camera.session < MaxSessions
  /\ camera' = [camera EXCEPT !.open = TRUE, !.online = TRUE, !.session = @ + 1]
  /\ ring' = <<>>
  /\ UNCHANGED <<latest, vision, arm, operator, stopping, events, handed>>

\* Mutant: a ring without a limit.
ReadM ==
  /\ camera.open /\ camera.total < MaxFrames
  /\ camera' = [camera EXCEPT !.online = TRUE, !.total = @ + 1]
  /\ latest' = [id |-> camera'.total, from |-> camera.session]
  /\ ring' = Append(ring, [id |-> camera'.total, session |-> camera.session])
  /\ UNCHANGED <<vision, arm, operator, stopping, events, handed>>

Read ==
  /\ camera.open /\ camera.total < MaxFrames
  /\ camera' = [camera EXCEPT !.online = TRUE, !.total = @ + 1]
  /\ latest' = [id |-> camera'.total, from |-> camera.session]
  /\ LET rows == Append(ring, [id |-> camera'.total, session |-> camera.session])
     IN ring' = IF Len(rows) > Buffer THEN Tail(rows) ELSE rows
  /\ UNCHANGED <<vision, arm, operator, stopping, events, handed>>

\* read fails, or the encoder raises: the ring and the newest frame stay as they are.
ConnectionLost ==
  /\ camera.open
  /\ camera' = [camera EXCEPT !.open = FALSE, !.online = FALSE]
  /\ UNCHANGED <<ring, latest, vision, arm, operator, stopping, events, handed>>

\* status() of the camera.
Online == camera.online /\ latest # NoFrame
-----------------------------------------------------------------------------
(* The vision thread.                                                       *)

NotStarted == [vision EXCEPT !.at = "gone", !.status = "degraded"]

Load ==
  /\ vision.at = "loading"
  /\ vision' \in {[vision EXCEPT !.at = "warming"], NotStarted}
  /\ UNCHANGED <<camera, ring, latest, arm, operator, stopping, events, handed>>

\* The model is there for activate from here on, and an operator may have used it.
Warm ==
  /\ vision.at = "warming"
  /\ vision' \in {[vision EXCEPT !.at = "idle", !.status = "ready"], NotStarted}
  /\ UNCHANGED <<camera, ring, latest, arm, operator, stopping, events, handed>>

\* latest_frame_snapshot; a frame that was seen before is passed over.
Take ==
  /\ vision.at = "idle" /\ vision.active /\ ~stopping
  /\ latest.id \notin {0, vision.frame.id}
  /\ vision' = [vision EXCEPT !.at = "predict", !.frame = latest]
  /\ UNCHANGED <<camera, ring, latest, arm, operator, stopping, events, handed>>

Predict ==
  /\ vision.at = "predict"
  /\ vision' = [vision EXCEPT !.at = "note", !.wasActive = vision.active /\ ~stopping]
  /\ UNCHANGED <<camera, ring, latest, arm, operator, stopping, events, handed>>

Note ==
  /\ vision.at = "note"
  /\ vision' = [vision EXCEPT !.at = "report", !.failures = 0,
                  !.status = IF vision.wasActive THEN "online" ELSE "ready"]
  /\ UNCHANGED <<camera, ring, latest, arm, operator, stopping, events, handed>>

\* The frame is the one that was inferred on, the session the one of by now.
Report ==
  /\ vision.at = "report"
  /\ events' = events \cup {[id |-> vision.frame.id, from |-> vision.frame.from,
                             session |-> camera.session]}
  /\ vision' = [vision EXCEPT !.at = "idle"]
  /\ UNCHANGED <<camera, ring, latest, arm, operator, stopping, handed>>

\* The inference or the callback raises; failures is reset by Note only.
Fail ==
  /\ vision.at \in {"predict", "report"}
  /\ vision.failures < MaxFailures
  /\ vision' = [vision EXCEPT !.at = "idle", !.status = "degraded", !.failures = @ + 1,
                  !.active = vision.active /\ vision.failures + 1 < Tolerated]
  /\ UNCHANGED <<camera, ring, latest, arm, operator, stopping, events, handed>>

\* stop() wakes the thread, which leaves its loop when its inference is over.
Leave ==
  /\ vision.at = "idle" /\ stopping
  /\ vision' = [vision EXCEPT !.at = "gone"]
  /\ UNCHANGED <<camera, ring, latest, arm, operator, stopping, events, handed>>
-----------------------------------------------------------------------------
(* activate and deactivate, by the arming thread and by operators.          *)

Activatable == vision.at # "loading" /\ vision.status # "degraded"

\* The status is written under the lock, the event is set after it.
SetOnline == vision' = [vision EXCEPT !.status = "online"]
SetActive == vision' = [vision EXCEPT !.active = TRUE]

ArmLook ==
  /\ arm = "look"
  /\ \/ vision.status = "ready" /\ ~stopping /\ arm' = "camera"
     \/ (vision.status = "degraded" \/ stopping) /\ arm' = "gone"
  /\ UNCHANGED <<camera, ring, latest, vision, operator, stopping, events, handed>>

\* Mutant: a camera that is not there yet is an answer.
ArmCameraM ==
  /\ arm = "camera"
  /\ arm' = IF Online THEN "lock" ELSE "gone"
  /\ UNCHANGED <<camera, ring, latest, vision, operator, stopping, events, handed>>

ArmCamera ==
  /\ arm = "camera"
  /\ arm' = IF Online THEN "lock" ELSE "look"
  /\ UNCHANGED <<camera, ring, latest, vision, operator, stopping, events, handed>>

ArmLock ==
  /\ arm = "lock"
  /\ IF Activatable THEN SetOnline /\ arm' = "set"
                    ELSE UNCHANGED vision /\ arm' = "gone"
  /\ UNCHANGED <<camera, ring, latest, operator, stopping, events, handed>>

ArmSet ==
  /\ arm = "set"
  /\ SetActive
  /\ arm' = "gone"
  /\ UNCHANGED <<camera, ring, latest, operator, stopping, events, handed>>

Arm == ArmLook \/ ArmCamera \/ ArmLock \/ ArmSet

\* set_detection_mode("local") asks for the camera, then for activate.
AskLocal ==
  /\ operator = "none" /\ ~stopping
  /\ Online
  /\ operator' = "lock"
  /\ UNCHANGED <<camera, ring, latest, vision, arm, stopping, events, handed>>

LocalLock ==
  /\ operator = "lock"
  /\ IF Activatable THEN SetOnline /\ operator' = "set"
                    ELSE UNCHANGED vision /\ operator' = "none"
  /\ UNCHANGED <<camera, ring, latest, arm, stopping, events, handed>>

LocalSet ==
  /\ operator = "set"
  /\ SetActive
  /\ operator' = "none"
  /\ UNCHANGED <<camera, ring, latest, arm, stopping, events, handed>>

AskPause ==
  /\ operator = "none" /\ ~stopping
  /\ vision' = [vision EXCEPT !.active = FALSE]
  /\ operator' = "pausing"
  /\ UNCHANGED <<camera, ring, latest, arm, stopping, events, handed>>

Paused ==
  /\ operator = "pausing"
  /\ vision' = [vision EXCEPT !.status = IF Activatable THEN "ready" ELSE @]
  /\ operator' = "none"
  /\ UNCHANGED <<camera, ring, latest, arm, stopping, events, handed>>

\* Application.stop: the arming thread is told, the vision is woken up to leave; the
\* camera runs on until that has ended, and perhaps a little longer.
Stop ==
  /\ ~stopping
  /\ stopping' = TRUE
  /\ vision' = [vision EXCEPT !.active = TRUE]
  /\ UNCHANGED <<camera, ring, latest, arm, operator, events, handed>>
-----------------------------------------------------------------------------
(* Adjacent frames.                                                         *)

Distance(a, b) == IF a < b THEN b - a ELSE a - b

\* min over the rows in the order of the ring.
Nearest(rows, target) ==
  CHOOSE r \in rows : \A s \in rows \ {r} :
    \/ Distance(r.id, target) < Distance(s.id, target)
    \/ Distance(r.id, target) = Distance(s.id, target) /\ r.id < s.id

\* An offset is tried as long as fewer than Limit frames were picked before it.
EvidenceFrames(anchor, session) ==
  LET rows == {r \in Range(ring) : r.session = session}
      near == {r \in rows : r.id # anchor /\ Distance(r.id, anchor) <= Window}
      picked(i) == Nearest(near, anchor + Offsets[i])
      tried == {i \in DOMAIN Offsets :
                  Cardinality({picked(j) : j \in 1..(i - 1)}) < Limit}
  IN IF /\ session = camera.session
        /\ \E r \in rows : r.id = anchor
        /\ near # {}
     THEN {picked(i) : i \in tried} ELSE {}

\* AdjacentFrameEvidenceTool.execute for a detection of the local camera, at any time.
Inspect(e) ==
  /\ handed' = [for |-> e, rows |-> EvidenceFrames(e.id, e.session)]
  /\ UNCHANGED <<camera, ring, latest, vision, arm, operator, stopping, events>>
-----------------------------------------------------------------------------
Camera == Connect \/ Read \/ ConnectionLost
Vision == Load \/ Warm \/ Take \/ Predict \/ Note \/ Report \/ Fail \/ Leave
Mode == LocalLock \/ LocalSet \/ Paused

Next ==
  \/ Camera
  \/ Vision \/ Arm \/ AskLocal \/ AskPause \/ Mode \/ Stop
  \/ \E e \in events : Inspect(e)

Spec == Init /\ [][Next]_vars

\* The threads run on and an accepted request is served.  A camera owes no frame and no
\* connection, an operator no request, a run no question.
Fairness == WF_vars(Load \/ Warm) /\ WF_vars(Arm) /\ WF_vars(Mode)

FairSpec == Spec /\ Fairness
-----------------------------------------------------------------------------
\* "Old frame numbers must never be matched to a recovered event" (camera_stream.py):
\* whenever it is asked, and although the session of a detection is read after the
\* inference, a run gets frames of the connection its image was taken from, within the
\* window, and not the image itself.
EvidenceIsOfTheSameStream ==
  \A r \in handed.rows :
    /\ r.session = handed.for.from
    /\ Distance(r.id, handed.for.id) \in 1..Window

\* _auto_arm_vision: with a model that loads and a camera that comes, and goes, and in the
\* end stays, the vision is armed without anybody's help, in whatever order the two get
\* ready and whatever an operator does meanwhile; only a failure or a stop is an excuse.
VisionArmsItself ==
  <>[]Online => <>(vision.active \/ vision.status = "degraded" \/ stopping)
==============================================================================
