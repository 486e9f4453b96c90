---------------------------- MODULE SensingProofs ----------------------------
(***************************************************************************)
(* Theorems about the perception side of a process, for any number of      *)
(* connections, frames and failures, any ring, window and offsets.         *)
(***************************************************************************)
EXTENDS Sensing, TLAPS, SequenceTheorems, WellFoundedInduction

-----------------------------------------------------------------------------
(* The inductive invariant.                                                *)

\* A frame somebody still has: it was counted, its connection was made, and when that
\* connection is over the ring has no row with its number.
Known(x) ==
  /\ x.id <= camera.total
  /\ x.from <= camera.session
  /\ x.id # 0 => x.from # 0
  /\ x.from # camera.session => \A i \in DOMAIN ring : ring[i].id # x.id

\* What the vision thread works on is a frame.
Working == vision.at \in {"predict", "note", "report"} => vision.frame.id # 0

\* The ring is in the order of frame numbers.
Ordered ==
  /\ \A i \in DOMAIN ring : ring[i].id <= camera.total
  /\ \A i, j \in DOMAIN ring : i < j => ring[i].id < ring[j].id

IInv ==
  /\ TypeOK
  /\ Ordered
  /\ camera.open => camera.session # 0
  /\ Known(latest)
  /\ Known(vision.frame)
  /\ Working
  /\ \A e \in events : Known(e)
  /\ EvidenceIsOfTheSameStream

-----------------------------------------------------------------------------
(* Types.                                                                  *)

CameraType == [open : BOOLEAN, online : BOOLEAN, session : 0..MaxSessions,
               total : 0..MaxFrames]

VisionType ==
  [at : {"loading", "warming", "idle", "predict", "note", "report", "gone"},
   status : {"starting", "ready", "online", "degraded"},
   active : BOOLEAN, wasActive : BOOLEAN, frame : Frame, failures : 0..MaxFailures]

LEMMA TypeParts ==
  TypeOK <=>
    /\ camera \in CameraType
    /\ ring \in Seq(Row) /\ Len(ring) <= Buffer
    /\ latest \in Frame
    /\ vision \in VisionType
    /\ vision.status = "starting" => vision.at \in {"loading", "warming"}
    /\ arm \in {"look", "camera", "lock", "set", "gone"}
    /\ operator \in {"none", "lock", "set", "pausing"}
    /\ stopping \in BOOLEAN
    /\ events \subseteq Detection
    /\ handed \in {[for |-> NoFrame, rows |-> {}]} \cup [for : Detection, rows : SUBSET Row]
BY DEF TypeOK, CameraType, VisionType

LEMMA Bounds ==
  /\ MaxSessions \in Nat /\ MaxFrames \in Nat /\ MaxFailures \in Nat /\ Window \in Nat
  /\ Buffer \in Nat /\ Buffer > 0
BY SensingAssumption

LEMMA RingRows ==
  ASSUME TypeOK
  PROVE  \A i \in DOMAIN ring : i \in Nat /\ ring[i] \in Row /\ ring[i].id \in Nat
<1>1. \A i \in DOMAIN ring : i \in Nat /\ ring[i] \in Row
  BY TypeParts
<1>2. \A r \in Row : r.id \in Nat
  BY Bounds DEF Row
<1>3. QED
  BY <1>1, <1>2

-----------------------------------------------------------------------------
(* The frame nearest to a target.                                          *)

\* Every non-empty set of numbers has a least one.
LEMMA Least ==
  ASSUME NEW T \in SUBSET Nat, T # {}
  PROVE  \E x \in T : \A y \in T : x <= y
<1> DEFINE Less == OpToRel(<, Nat)
<1>1. IsWellFoundedOn(Less, Nat)
  BY NatLessThanWellFounded
<1>2. \A x, y \in Nat : <<y, x>> \in Less <=> y < x
  BY DEF OpToRel
<1> HIDE DEF Less
<1>3. PICK x \in T : \A y \in T : ~ (<<y, x>> \in Less)
  BY <1>1, WFMin
<1>4. SUFFICES ASSUME NEW y \in T PROVE x <= y
  OBVIOUS
<1>5. x \in Nat /\ y \in Nat
  OBVIOUS
<1>6. ~ (<<y, x>> \in Less)
  BY <1>3
<1>7. ~ (y < x)
  BY <1>2, <1>5, <1>6
<1>8. QED
  BY <1>5, <1>7

\* Rows of one connection: a number has one row.
OneRowPerId(rows) == \A r, s \in rows : r.id = s.id => r = s

\* min over the rows finds one of them, whatever the target.
LEMMA NearestIsThere ==
  ASSUME NEW rows \in SUBSET Row, rows # {}, OneRowPerId(rows), NEW target \in Int
  PROVE  Nearest(rows, target) \in rows
<1>1. \A r \in rows : r.id \in Nat /\ Distance(r.id, target) \in Nat
  BY DEF Row, Distance
<1>2. PICK d \in {Distance(r.id, target) : r \in rows} :
             \A e \in {Distance(r.id, target) : r \in rows} : d <= e
  <2> DEFINE T == {Distance(r.id, target) : r \in rows}
  <2>1. T \in SUBSET Nat /\ T # {}
    BY <1>1
  <2>2. QED
    BY <2>1, Least
<1>3. PICK n \in {r.id : r \in {s \in rows : Distance(s.id, target) = d}} :
             \A m \in {r.id : r \in {s \in rows : Distance(s.id, target) = d}} : n <= m
  <2> DEFINE T == {r.id : r \in {s \in rows : Distance(s.id, target) = d}}
  <2>1. T \in SUBSET Nat /\ T # {}
    BY <1>1, <1>2
  <2>2. QED
    BY <2>1, Least
<1>4. PICK r \in rows : r.id = n /\ Distance(r.id, target) = d
  BY <1>3
<1>5. ASSUME NEW s \in rows \ {r}
      PROVE  \/ Distance(r.id, target) < Distance(s.id, target)
             \/ Distance(r.id, target) = Distance(s.id, target) /\ r.id < s.id
  <2>1. d <= Distance(s.id, target) /\ d \in Nat /\ Distance(s.id, target) \in Nat
    BY <1>1, <1>2
  <2>2. Distance(s.id, target) = d => n <= s.id
    BY <1>3
  <2>3. s.id # r.id /\ s.id \in Nat /\ r.id \in Nat
    BY <1>1 DEF OneRowPerId
  <2>4. QED
    BY <1>4, <2>1, <2>2, <2>3
<1>6. QED
  BY <1>4, <1>5 DEF Nearest

\* What evidence_frames hands out is of the session asked for, within the window and not
\* the anchor itself; and the anchor is in the ring.
LEMMA EvidenceIsNear ==
  ASSUME TypeOK, Ordered, NEW anchor \in 1..MaxFrames, NEW session,
         NEW r \in EvidenceFrames(anchor, session)
  PROVE  /\ r \in Row
         /\ r.session = session /\ session = camera.session
         /\ Distance(r.id, anchor) \in 1..Window
         /\ \E i \in DOMAIN ring : ring[i].id = anchor
<1> DEFINE rows == {s \in Range(ring) : s.session = session}
           near == {s \in rows : s.id # anchor /\ Distance(s.id, anchor) <= Window}
<1>1. Range(ring) \subseteq Row
  BY TypeParts DEF Range
<1>2. session = camera.session /\ (\E s \in rows : s.id = anchor) /\ near # {}
  BY DEF EvidenceFrames
<1>3. PICK i \in DOMAIN Offsets : r = Nearest(near, anchor + Offsets[i])
  BY DEF EvidenceFrames
<1>4. OneRowPerId(near) /\ near \in SUBSET Row
  <2>1. \A a, b \in DOMAIN ring : ring[a].id = ring[b].id => a = b
    <3>1. \A a \in DOMAIN ring : a \in Int /\ ring[a].id \in Int
      BY RingRows
    <3>2. QED
      BY <3>1 DEF Ordered
  <2>2. QED
    BY <1>1, <2>1 DEF OneRowPerId, Range
<1>5. anchor + Offsets[i] \in Int
  BY SensingAssumption
<1>6. r \in near
  BY <1>2, <1>3, <1>4, <1>5, NearestIsThere
<1>7. Distance(r.id, anchor) \in 1..Window
  <2>1. r.id \in Nat /\ r.id # anchor /\ Distance(r.id, anchor) <= Window
    BY <1>1, <1>6, Bounds DEF Row
  <2> QED BY <2>1, Bounds DEF Distance
<1>8. QED
  BY <1>1, <1>2, <1>6, <1>7 DEF Range

-----------------------------------------------------------------------------
(* Steps that leave camera, ring, newest frame, detections and answers.    *)

Quiet ==
  /\ UNCHANGED <<camera, ring, latest, events, handed>>
  /\ vision'.frame = vision.frame \/ vision'.frame = latest
  /\ Working'
  /\ vision' \in VisionType
  /\ vision'.status = "starting" => vision'.at \in {"loading", "warming"}
  /\ arm' \in {"look", "camera", "lock", "set", "gone"}
  /\ operator' \in {"none", "lock", "set", "pausing"}
  /\ stopping' \in BOOLEAN

LEMMA QuietKeeps ==
  ASSUME IInv, Quiet
  PROVE  IInv'
<1>1. TypeOK'
  BY TypeParts DEF IInv, Quiet, TypeOK, CameraType, VisionType
<1>2. Ordered' /\ Known(latest)' /\ EvidenceIsOfTheSameStream'
        /\ (camera'.open => camera'.session # 0)
  BY DEF IInv, Quiet, Ordered, Known, EvidenceIsOfTheSameStream
<1>3. Known(vision.frame)'
  BY DEF IInv, Quiet, Known
<1>4. \A e \in events' : Known(e)'
  BY DEF IInv, Quiet, Known
<1>5. QED
  BY <1>1, <1>2, <1>3, <1>4 DEF IInv, Quiet

\* The vision thread while it does not hand over a detection.
LEMMA VisionQuiet ==
  ASSUME IInv, Load \/ Warm \/ Take \/ Predict \/ Note \/ Fail \/ Leave
  PROVE  Quiet
<1>1. /\ vision \in VisionType /\ latest \in Frame
      /\ vision.status = "starting" => vision.at \in {"loading", "warming"}
      /\ arm \in {"look", "camera", "lock", "set", "gone"}
      /\ operator \in {"none", "lock", "set", "pausing"}
      /\ stopping \in BOOLEAN /\ Working
  BY TypeParts DEF IInv
<1>2. CASE Load
  BY <1>1, <1>2 DEF Load, NotStarted, Quiet, VisionType, Working
<1>3. CASE Warm
  BY <1>1, <1>3 DEF Warm, NotStarted, Quiet, VisionType, Working
<1>4. CASE Take
  BY <1>1, <1>4 DEF Take, Quiet, VisionType, Working
<1>5. CASE Predict
  BY <1>1, <1>5 DEF Predict, Quiet, VisionType, Working
<1>6. CASE Note
  <2>1. 0 \in 0..MaxFailures /\ vision.wasActive \in BOOLEAN /\ vision.frame.id # 0
    BY <1>1, <1>6, Bounds DEF Note, VisionType, Working
  <2>2. vision' = [vision EXCEPT !.at = "report", !.failures = 0, !.status = "online"]
        \/ vision' = [vision EXCEPT !.at = "report", !.failures = 0, !.status = "ready"]
    BY <1>6, <2>1 DEF Note
  <2>3. /\ vision' \in VisionType /\ vision'.frame = vision.frame
        /\ vision'.status \in {"online", "ready"}
    BY <1>1, <2>1, <2>2 DEF VisionType
  <2>4. QED
    BY <1>1, <1>6, <2>1, <2>3 DEF Note, Quiet, Working
<1>7. CASE Fail
  <2> DEFINE act == vision.active /\ vision.failures + 1 < Tolerated
             n == vision.failures + 1
  <2>1. n \in 0..MaxFailures /\ act \in BOOLEAN
    BY <1>1, <1>7, Bounds DEF Fail, VisionType
  <2>2. vision' = [vision EXCEPT !.at = "idle", !.status = "degraded", !.failures = n,
                          !.active = act]
    BY <1>7 DEF Fail
  <2> HIDE DEF act, n
  <2>3. /\ vision' \in VisionType /\ vision'.frame = vision.frame
        /\ vision'.status = "degraded" /\ vision'.at = "idle"
    BY <1>1, <2>1, <2>2 DEF VisionType
  <2>4. QED
    BY <1>1, <1>7, <2>3 DEF Fail, Quiet, Working
<1>8. CASE Leave
  BY <1>1, <1>8 DEF Leave, Quiet, VisionType, Working
<1>9. QED
  BY <1>2, <1>3, <1>4, <1>5, <1>6, <1>7, <1>8

\* Arming, the operator and the end of the process.
LEMMA ModeQuiet ==
  ASSUME IInv, Arm \/ AskLocal \/ AskPause \/ Mode \/ Stop \/ UNCHANGED vars
  PROVE  Quiet
<1>1. /\ vision \in VisionType
      /\ vision.status = "starting" => vision.at \in {"loading", "warming"}
      /\ arm \in {"look", "camera", "lock", "set", "gone"}
      /\ operator \in {"none", "lock", "set", "pausing"}
      /\ stopping \in BOOLEAN /\ Working
  BY TypeParts DEF IInv
<1>2. CASE ArmLook \/ ArmCamera
  BY <1>1, <1>2 DEF ArmLook, ArmCamera, Quiet, Working
<1>3. CASE ArmLock \/ ArmSet
  BY <1>1, <1>3
  DEF ArmLock, ArmSet, SetOnline, SetActive, Quiet, VisionType, Working
<1>4. CASE AskLocal \/ LocalLock \/ LocalSet
  <2>1. CASE AskLocal
    BY <1>1, <2>1 DEF AskLocal, Quiet, VisionType, Working
  <2>2. CASE LocalLock
    BY <1>1, <2>2 DEF LocalLock, SetOnline, Quiet, VisionType, Working
  <2>3. CASE LocalSet
    BY <1>1, <2>3 DEF LocalSet, SetActive, Quiet, VisionType, Working
  <2> QED BY <1>4, <2>1, <2>2, <2>3
<1>5. CASE AskPause
  BY <1>1, <1>5 DEF AskPause, Quiet, VisionType, Working
<1>6. CASE Paused
  BY <1>1, <1>6 DEF Paused, Activatable, Quiet, VisionType, Working
<1>7. CASE Stop
  BY <1>1, <1>7 DEF Stop, Quiet, VisionType, Working
<1>8. CASE UNCHANGED vars
  BY <1>1, <1>8 DEF vars, Quiet, Working
<1>9. QED
  BY <1>2, <1>3, <1>4, <1>5, <1>6, <1>7, <1>8 DEF Arm, Mode

-----------------------------------------------------------------------------
(* The camera.                                                             *)

LEMMA ConnectKeeps ==
  ASSUME IInv, Connect
  PROVE  IInv'
<1>1. camera \in CameraType /\ camera.session < MaxSessions
  BY TypeParts DEF IInv, Connect
<1>2. camera' \in CameraType /\ camera'.session = camera.session + 1
        /\ camera'.total = camera.total /\ ring' = <<>>
  <2>1. camera.session + 1 \in 0..MaxSessions
    BY <1>1, Bounds DEF CameraType
  <2>2. QED
    BY <1>1, <2>1 DEF Connect, CameraType
<1>3. ring' \in Seq(Row) /\ Len(ring') = 0 /\ DOMAIN ring' = {}
  BY <1>2
<1>4. TypeOK'
  BY <1>2, <1>3, TypeParts, Bounds DEF IInv, Connect, TypeOK, CameraType, VisionType
<1>5. ASSUME NEW x, x.from \in Nat, Known(x) PROVE Known(x)'
  BY <1>1, <1>2, <1>3, <1>5, SensingAssumption DEF Known, CameraType
<1>6. /\ latest.from \in Nat /\ vision.frame.from \in Nat
      /\ \A e \in events : e.from \in Nat
  BY TypeParts, Bounds DEF IInv, VisionType, Frame, Detection
<1>7. Known(latest)' /\ Known(vision.frame)' /\ Working'
  BY <1>5, <1>6 DEF IInv, Connect, Known, Working
<1>8. \A e \in events' : Known(e)'
  BY <1>5, <1>6 DEF IInv, Connect
<1>9. Ordered' /\ EvidenceIsOfTheSameStream' /\ camera'.session # 0
  BY <1>1, <1>2, <1>3 DEF IInv, Connect, Ordered, EvidenceIsOfTheSameStream, CameraType
<1>10. QED
  BY <1>4, <1>7, <1>8, <1>9 DEF IInv

LEMMA LostKeeps ==
  ASSUME IInv, ConnectionLost
  PROVE  IInv'
<1>1. camera \in CameraType
  BY TypeParts DEF IInv
<1>2. camera' \in CameraType /\ camera'.session = camera.session
        /\ camera'.total = camera.total /\ ~ camera'.open
  BY <1>1 DEF ConnectionLost, CameraType
<1>3. TypeOK'
  BY <1>2, TypeParts DEF IInv, ConnectionLost, TypeOK, CameraType, VisionType
<1>4. QED
  BY <1>2, <1>3
  DEF IInv, ConnectionLost, Known, Working, Ordered, EvidenceIsOfTheSameStream

\* The rows after a frame: old ones and one with a new number at the end.
LEMMA ReadRing ==
  ASSUME IInv, Read
  PROVE  /\ camera' \in CameraType
         /\ camera'.total = camera.total + 1 /\ camera'.session = camera.session
         /\ camera.session # 0
         /\ latest' = [id |-> camera'.total, from |-> camera.session]
         /\ ring' \in Seq(Row) /\ Len(ring') <= Buffer
         /\ Ordered'
         /\ \A i \in DOMAIN ring' : \/ \E j \in DOMAIN ring : ring'[i] = ring[j]
                                    \/ ring'[i].id = camera'.total
<1> DEFINE new == [id |-> camera'.total, session |-> camera.session]
           all == Append(ring, new)
<1>1. camera \in CameraType /\ camera.open /\ camera.total < MaxFrames
        /\ ring \in Seq(Row) /\ Len(ring) <= Buffer /\ camera.session # 0
  BY TypeParts DEF IInv, Read
<1>2. camera' \in CameraType /\ camera'.total = camera.total + 1
        /\ camera'.session = camera.session
  <2>1. camera.total + 1 \in 0..MaxFrames
    BY <1>1, Bounds DEF CameraType
  <2>2. QED
    BY <1>1, <2>1 DEF Read, CameraType
<1>3. new \in Row /\ new.id = camera.total + 1 /\ camera.total \in Nat
  BY <1>1, <1>2, SensingAssumption DEF CameraType, Row
<1>4. latest' = [id |-> camera'.total, from |-> camera.session]
        /\ ring' = IF Len(all) > Buffer THEN Tail(all) ELSE all
  BY DEF Read
<1> HIDE DEF new
<1>5. /\ all \in Seq(Row) /\ Len(all) = Len(ring) + 1
      /\ \A i \in 1..Len(ring) : all[i] = ring[i]
      /\ all[Len(ring) + 1] = new
  BY <1>1, <1>3, AppendProperties
<1>6. DOMAIN ring = 1..Len(ring) /\ Len(ring) \in Nat /\ DOMAIN all = 1..(Len(ring) + 1)
  BY <1>1, <1>5
<1> HIDE DEF all
<1>7. \A i \in DOMAIN ring : ring[i].id \in Nat /\ ring[i].id <= camera.total
  BY RingRows DEF IInv, Ordered
<1>8. /\ \A i \in DOMAIN all : all[i].id \in Nat /\ all[i].id <= camera.total + 1
      /\ \A i, j \in DOMAIN all : i < j => all[i].id < all[j].id
  <2>1. \A i \in DOMAIN all : (i \in DOMAIN ring /\ all[i] = ring[i])
                                \/ (i = Len(ring) + 1 /\ all[i] = new)
    BY <1>5, <1>6
  <2>2. \A i, j \in DOMAIN ring : i < j => ring[i].id < ring[j].id
    BY DEF IInv, Ordered
  <2>3. QED
    BY <1>3, <1>6, <1>7, <2>1, <2>2
<1>9. \A i \in DOMAIN all : (\E j \in DOMAIN ring : all[i] = ring[j])
                              \/ all[i].id = camera'.total
  BY <1>2, <1>3, <1>5, <1>6
<1>10. CASE ring' = all /\ Len(all) <= Buffer
  BY <1>1, <1>2, <1>4, <1>5, <1>8, <1>9, <1>10 DEF Ordered
<1>11. CASE ring' = Tail(all) /\ Len(all) > Buffer
  <2>1. all # <<>>
    BY <1>5, <1>6
  <2>2. /\ ring' \in Seq(Row) /\ Len(ring') = Len(all) - 1
        /\ \A i \in 1..Len(ring') : ring'[i] = all[i + 1]
    BY <1>5, <1>11, <2>1, HeadTailProperties
  <2>3. DOMAIN ring' = 1..Len(ring) /\ Len(ring') = Len(ring)
    BY <1>5, <1>6, <2>2
  <2>4. \A i \in DOMAIN ring' : ring'[i] = all[i + 1] /\ i + 1 \in DOMAIN all /\ i \in Nat
    BY <1>6, <2>2, <2>3
  <2>5. Ordered'
    BY <1>2, <1>8, <2>4 DEF Ordered
  <2>6. QED
    BY <1>1, <1>2, <1>4, <1>9, <2>2, <2>3, <2>4, <2>5
<1>12. QED
  BY <1>4, <1>5, <1>6, <1>10, <1>11, Bounds

LEMMA ReadKeeps ==
  ASSUME IInv, Read
  PROVE  IInv'
<1>1. /\ camera' \in CameraType
      /\ camera'.total = camera.total + 1 /\ camera'.session = camera.session
      /\ camera.session # 0
      /\ latest' = [id |-> camera'.total, from |-> camera.session]
      /\ ring' \in Seq(Row) /\ Len(ring') <= Buffer
      /\ Ordered'
      /\ \A i \in DOMAIN ring' : \/ \E j \in DOMAIN ring : ring'[i] = ring[j]
                                 \/ ring'[i].id = camera'.total
  BY ReadRing
<1>2. /\ UNCHANGED <<vision, arm, operator, stopping, events, handed>>
      /\ camera \in CameraType /\ camera.total \in Nat /\ camera.session \in Nat
  BY TypeParts, Bounds DEF IInv, Read, CameraType
<1>3. latest' \in Frame
  BY <1>1, <1>2 DEF Frame, CameraType
<1>4. TypeOK'
  BY <1>1, <1>2, <1>3, TypeParts DEF IInv, TypeOK, CameraType, VisionType
<1>5. ASSUME NEW x, x.id \in Nat, Known(x) PROVE Known(x)'
  BY <1>1, <1>2, <1>5 DEF Known
<1>6. vision.frame.id \in Nat /\ \A e \in events : e.id \in Nat
  BY TypeParts, Bounds DEF IInv, VisionType, Frame, Detection
<1>7. Known(vision.frame)' /\ Working' /\ EvidenceIsOfTheSameStream'
  BY <1>2, <1>5, <1>6 DEF IInv, Known, Working, EvidenceIsOfTheSameStream
<1>8. \A e \in events' : Known(e)'
  BY <1>2, <1>5, <1>6 DEF IInv
<1>9. Known(latest)'
  BY <1>1, <1>2 DEF Known
<1>10. QED
  BY <1>1, <1>4, <1>7, <1>8, <1>9 DEF IInv

-----------------------------------------------------------------------------
(* Detections and the frames adjacent to them.                             *)

LEMMA ReportKeeps ==
  ASSUME IInv, Report
  PROVE  IInv'
<1> DEFINE e == [id |-> vision.frame.id, from |-> vision.frame.from,
                 session |-> camera.session]
<1>1. vision \in VisionType /\ vision.at = "report" /\ vision.frame.id # 0
        /\ camera \in CameraType /\ vision.frame \in Frame
  BY TypeParts DEF IInv, Report, Working, VisionType
<1>2. e \in Detection /\ Known(e)
  BY <1>1, SensingAssumption DEF IInv, Known, Detection, Frame, CameraType
<1>3. events' = events \cup {e} /\ vision' = [vision EXCEPT !.at = "idle"]
        /\ UNCHANGED <<camera, ring, latest, arm, operator, stopping, handed>>
  BY DEF Report
<1>4. vision' \in VisionType /\ vision'.at = "idle" /\ vision'.frame = vision.frame
        /\ vision'.status = vision.status /\ vision.status # "starting"
  BY <1>1, <1>3, TypeParts DEF IInv, VisionType
<1> HIDE DEF e
<1>5. TypeOK'
  BY <1>2, <1>3, <1>4, TypeParts DEF IInv, TypeOK, CameraType, VisionType
<1>6. \A x \in events' : Known(x)'
  BY <1>2, <1>3 DEF IInv, Known
<1>7. QED
  BY <1>3, <1>4, <1>5, <1>6
  DEF IInv, Known, Working, Ordered, EvidenceIsOfTheSameStream

LEMMA InspectKeeps ==
  ASSUME IInv, NEW e \in events, Inspect(e)
  PROVE  IInv'
<1> DEFINE rows == EvidenceFrames(e.id, e.session)
<1>1. e \in Detection /\ e.id \in 1..MaxFrames /\ Known(e)
  BY TypeParts DEF IInv, Detection
<1>2. handed' = [for |-> e, rows |-> rows]
        /\ UNCHANGED <<camera, ring, latest, vision, arm, operator, stopping, events>>
  BY DEF Inspect
<1>3. ASSUME NEW r \in rows
      PROVE  r \in Row /\ r.session = e.from /\ Distance(r.id, e.id) \in 1..Window
  <2>1. /\ r \in Row /\ r.session = e.session /\ e.session = camera.session
        /\ Distance(r.id, e.id) \in 1..Window
        /\ \E i \in DOMAIN ring : ring[i].id = e.id
    BY <1>1, <1>3, EvidenceIsNear DEF IInv
  <2>2. e.from = camera.session
    BY <1>1, <2>1 DEF Known
  <2>3. QED
    BY <2>1, <2>2
<1> HIDE DEF rows
<1>4. handed' \in [for : Detection, rows : SUBSET Row]
  BY <1>1, <1>2, <1>3
<1>5. TypeOK'
  BY <1>2, <1>4, TypeParts DEF IInv, TypeOK, CameraType, VisionType
<1>6. EvidenceIsOfTheSameStream'
  BY <1>2, <1>3 DEF EvidenceIsOfTheSameStream
<1>7. QED
  BY <1>2, <1>5, <1>6 DEF IInv, Known, Working, Ordered

-----------------------------------------------------------------------------
(* The invariant holds.                                                    *)

LEMMA InitInv == Init => IInv
<1> SUFFICES ASSUME Init PROVE IInv
  OBVIOUS
<1>1. TypeOK
  <2>1. NoFrame \in Frame
    BY Bounds DEF NoFrame, Frame
  <2>2. camera \in CameraType /\ vision \in VisionType
    BY <2>1, Bounds DEF Init, CameraType, VisionType
  <2>3. ring \in Seq(Row) /\ Len(ring) <= Buffer
    BY Bounds DEF Init
  <2>4. QED
    BY <2>1, <2>2, <2>3, TypeParts DEF Init
<1>2. QED
  BY <1>1 DEF Init, IInv, Known, Working, Ordered, NoFrame, EvidenceIsOfTheSameStream

LEMMA Inductive == IInv /\ [Next]_vars => IInv'
<1> SUFFICES ASSUME IInv, [Next]_vars PROVE IInv'
  OBVIOUS
<1>1. CASE Camera
  BY <1>1, ConnectKeeps, LostKeeps, ReadKeeps DEF Camera
<1>2. CASE Vision
  BY <1>2, VisionQuiet, QuietKeeps, ReportKeeps DEF Vision
<1>3. CASE Arm \/ AskLocal \/ AskPause \/ Mode \/ Stop \/ UNCHANGED vars
  BY <1>3, ModeQuiet, QuietKeeps
<1>4. CASE \E e \in events : Inspect(e)
  BY <1>4, InspectKeeps
<1>5. QED
  BY <1>1, <1>2, <1>3, <1>4 DEF Next

LEMMA Invariant == Spec => []IInv
BY InitInv, Inductive, PTL DEF Spec

\* The types of the state of camera, vision, arming thread and operator.
THEOREM TypeCorrect == Spec => []TypeOK
<1>1. IInv => TypeOK
  BY DEF IInv
<1>2. QED
  BY <1>1, Invariant, PTL

\* A run is handed frames of the connection its image was taken from, within the window
\* and not the image itself, although the session of a detection is read after the
\* inference and the camera may have reconnected in between: a frame number is never
\* counted twice, and a new connection empties the ring.
THEOREM SameStream == Spec => []EvidenceIsOfTheSameStream
<1>1. IInv => EvidenceIsOfTheSameStream
  BY DEF IInv
<1>2. QED
  BY <1>1, Invariant, PTL
=============================================================================
