----------------------------- MODULE Recognition ----------------------------
(***************************************************************************)
(* One frame through the plate recognition: the lazy loading of detector   *)
(* and OCR, the detection of plates and vehicles, the reading of the best  *)
(* plate and the review policy of the lot (UltralyticsRuntime,             *)
(* PaddleOCRTextRecognition, apply_plate_review_policy).                   *)
(*                                                                         *)
(* What the networks find is chosen freely.  Loading is not locked, so a   *)
(* loader that fails takes the models away under the others; detection and *)
(* reading of a frame are under one lock.  Start-up warms the models up    *)
(* before requests are served.                                             *)
(***************************************************************************)
EXTENDS Workers, Sequences, Functions

CONSTANTS
  OcrEnabled,
  Boxes,        \* what the detector may report: sequences of boxes
  Readings,     \* what the OCR may read in a crop
  ClassThreshold,  \* of the detector, for each vehicle type and the plate
  ReviewThreshold, \* ai.plate_confidence of the lot, NoThreshold if it is not set
  NoThreshold, NoBox, NoScene, NoReading

Labels == {"PLATE", "CAR", "MOTORBIKE", "BICYCLE", "UNKNOWN"}

\* `fits`: the box has an area inside the image; `clear`: its crop has no quality flag;
\* `around`: a vehicle box that holds half of the plate or more.
Box == [label : Labels, conf : Nat, fits : BOOLEAN, clear : BOOLEAN, around : BOOLEAN]

\* A candidate text: its confidence and how many characters normalisation leaves of it.
Text == [conf : Nat, chars : Nat]

\* `square`: two lines are tried first; the candidates of the upper half, the lower half
\* and the whole crop.
Reading == [square : BOOLEAN, upper : Seq(Text), lower : Seq(Text), whole : Seq(Text)]

ASSUME RecognitionAssumption ==
  /\ OcrEnabled \in BOOLEAN /\ Boxes \subseteq Seq(Box) /\ Readings \subseteq Reading
  /\ ClassThreshold \in [Labels -> Nat] /\ ReviewThreshold \in Nat \cup {NoThreshold}
  /\ NoThreshold \notin Nat /\ NoBox \notin Box /\ NoReading \notin Reading
  /\ NoScene \notin Boxes

VARIABLES
  detector,   \* "none" or "loaded"
  ocr,        \* "none", "created" or "ready"
  loadError,  \* recorded for good: no manifest, or the warm-up has failed
  started,    \* start-up is over
  busy,       \* the slot that holds the inference lock
  rcPc, scene, reading,  \* where each slot is, what its frame shows and what was read
  answer      \* what it answers

rcModels == <<detector, ocr, loadError, started>>
rcLocal == <<scene, reading, answer>>
rcVars == <<rcModels, busy, rcPc, rcLocal>>

NoAnswer == [box |-> NoBox, vehicle |-> "UNKNOWN", chars |-> 0, conf |-> 0, flags |-> FALSE,
             review |-> TRUE]

RcPlaces == {"idle", "load", "ocr", "ocrload", "failed", "infer", "read", "answered"}
-----------------------------------------------------------------------------
(* Pure parts.                                                             *)

\* Of the elements of s at these places the first of the most confident ones.
Top(s, places) ==
  s[CHOOSE i \in places : \A j \in places :
      s[j].conf < s[i].conf \/ (s[j].conf = s[i].conf /\ i <= j)]

\* Where the boxes of plates and of vehicles are that reach the threshold of their class.
PlateBoxes(boxes) ==
  {i \in DOMAIN boxes : boxes[i].label = "PLATE" /\ boxes[i].conf >= ClassThreshold["PLATE"]}
VehicleBoxes(boxes) ==
  {i \in DOMAIN boxes :
     boxes[i].label # "PLATE" /\ boxes[i].conf >= ClassThreshold[boxes[i].label]}

\* The vehicle around the plate, else the nearest one, which may be any.
Associated(boxes) ==
  LET vehicles == {boxes[i] : i \in VehicleBoxes(boxes)}
      around == {b \in vehicles : b.around}
  IN IF vehicles = {} THEN {"UNKNOWN"}
     ELSE {b.label : b \in IF around = {} THEN vehicles ELSE around}

Total(numbers) ==
  LET upTo[n \in 0 .. Len(numbers)] == IF n = 0 THEN 0 ELSE upTo[n - 1] + numbers[n]
  IN upTo[Len(numbers)]

Chars(texts) == Total([i \in DOMAIN texts |-> texts[i].chars])
Mean(texts) == Total([i \in DOMAIN texts |-> texts[i].conf]) \div Len(texts)

PlateLike(n) == n \in 6 .. 10
Unread == [chars |-> 0, conf |-> 0]
Joined(texts) == [chars |-> Chars(texts), conf |-> Mean(texts)]
Surest(texts) == Top(texts, DOMAIN texts)

\* recognize: two lines, else all candidates of the crop joined, else the best of them.
Recognized(x) ==
  LET lines == <<Surest(x.upper), Surest(x.lower)>>
  IN IF x.square /\ x.upper # <<>> /\ x.lower # <<>> /\ PlateLike(Chars(lines)) THEN Joined(lines)
     ELSE IF x.whole = <<>> THEN Unread
     ELSE IF Len(x.whole) > 1 /\ PlateLike(Chars(x.whole)) THEN Joined(x.whole)
     ELSE [chars |-> Surest(x.whole).chars, conf |-> Surest(x.whole).conf]

\* Mutant: the better of the two confidences counts.
Greatest(a, b) == IF a < b THEN b ELSE a
Least(a, b) == IF a < b THEN a ELSE b

NeedsReview(a) ==
  \/ ReviewThreshold = NoThreshold
  \/ a.conf < ReviewThreshold
  \/ a.chars \notin 3 .. 50
  \/ a.box = NoBox
  \/ a.flags

\* What a frame is answered with, after the review policy.
Finding(box, vehicle, chars, conf, flags) ==
  [box |-> box, vehicle |-> vehicle, chars |-> chars, conf |-> conf, flags |-> flags]

Reviewed(a) ==
  [box |-> a.box, vehicle |-> a.vehicle, chars |-> a.chars, conf |-> a.conf,
   flags |-> a.flags, review |-> NeedsReview(a)]
-----------------------------------------------------------------------------
(* Loading.                                                                *)

RcGo(r, place) == rcPc' = [rcPc EXCEPT ![r] = place]

LeaveRecognition(r) ==
  /\ rcPc' = [rcPc EXCEPT ![r] = "idle"]
  /\ scene' = [scene EXCEPT ![r] = NoScene]
  /\ reading' = [reading EXCEPT ![r] = NoReading]
  /\ answer' = [answer EXCEPT ![r] = NoAnswer]

\* Answered 503: the models are not there.
NotReady(r) == LeaveRecognition(r) /\ UNCHANGED <<rcModels, busy>>

\* A detection, a readiness probe or the warm-up begins; an error recorded for good is
\* answered at once.
EnsureLoaded(r) ==
  /\ rcPc[r] = "idle" /\ (started \/ \A q \in Slots : rcPc[q] = "idle")
  /\ RcGo(r, IF detector = "loaded" /\ (OcrEnabled => ocr # "none") THEN "infer"
             ELSE IF loadError THEN "idle" ELSE "load")
  /\ UNCHANGED <<rcModels, busy, rcLocal>>

LoadDetector(r) ==
  /\ rcPc[r] = "load"
  /\ detector' = "loaded"
  /\ RcGo(r, IF OcrEnabled THEN "ocr" ELSE "infer")
  /\ UNCHANGED <<ocr, loadError, started, busy, rcLocal>>

CreateOcr(r) ==
  /\ rcPc[r] = "ocr"
  /\ ocr' = "created"
  /\ RcGo(r, "ocrload")
  /\ UNCHANGED <<detector, loadError, started, busy, rcLocal>>

\* Another loader that has failed meanwhile has taken the OCR away: nothing is loaded.
LoadOcr(r) ==
  /\ rcPc[r] = "ocrload"
  /\ ocr' = IF ocr = "none" THEN "none" ELSE "ready"
  /\ RcGo(r, "infer")
  /\ UNCHANGED <<detector, loadError, started, busy, rcLocal>>

\* Weights, checksum, dependency or OCR: whatever fails resets both models, one after
\* the other.
LoadFails(r) ==
  /\ rcPc[r] \in {"load", "ocr", "ocrload"}
  /\ detector' = "none"
  /\ RcGo(r, "failed")
  /\ UNCHANGED <<ocr, loadError, started, busy, rcLocal>>

LoadFailed(r) ==
  /\ rcPc[r] = "failed"
  /\ ocr' = "none" /\ started' = TRUE
  /\ LeaveRecognition(r)
  /\ UNCHANGED <<detector, loadError, busy>>

\* The readiness probe ends here, with `ready`.
Probed(r) == rcPc[r] = "infer" /\ started /\ NotReady(r)

\* The warm-up runs both models on blank images; if that fails they are given up for good.
WarmedUp(r) ==
  /\ rcPc[r] = "infer" /\ ~started
  /\ started' = TRUE
  /\ \/ ocr' = (IF ocr = "none" THEN "none" ELSE "ready") /\ UNCHANGED <<detector, loadError>>
     \/ detector' = "none" /\ ocr' = "none" /\ loadError' = TRUE
  /\ LeaveRecognition(r)
  /\ UNCHANGED busy
-----------------------------------------------------------------------------
(* Detecting and reading.                                                  *)

\* The detector runs under the lock; its model may have been taken away.
Detect(r) ==
  /\ rcPc[r] = "infer" /\ started /\ busy = NoSlot
  /\ IF detector = "none" THEN NotReady(r)
     ELSE /\ busy' = r
          /\ \E boxes \in Boxes : scene' = [scene EXCEPT ![r] = boxes]
          /\ RcGo(r, "read")
          /\ UNCHANGED <<rcModels, reading, answer>>

Answer(r, a) ==
  /\ answer' = [answer EXCEPT ![r] = Reviewed(a)]
  /\ busy' = NoSlot
  /\ RcGo(r, "answered")
  /\ UNCHANGED scene

\* No plate, or one outside the image; a bicycle needs none, but the policy asks for one.
ReadNothing(r) ==
  LET boxes == scene[r]
      plates == PlateBoxes(boxes)
      vehicle == Top(boxes, VehicleBoxes(boxes))
  IN /\ rcPc[r] = "read" /\ (plates # {} => ~Top(boxes, plates).fits)
     /\ IF plates = {} /\ VehicleBoxes(boxes) # {}
        THEN Answer(r, Finding(NoBox, vehicle.label, 0,
               IF vehicle.label = "BICYCLE" THEN vehicle.conf ELSE 0, FALSE))
        ELSE \E label \in Associated(boxes) : Answer(r, Finding(NoBox, label, 0, 0, FALSE))
     /\ UNCHANGED <<rcModels, reading>>

ReadPlate(r) ==
  LET boxes == scene[r]
      plate == Top(boxes, PlateBoxes(boxes))
  IN /\ rcPc[r] = "read" /\ PlateBoxes(boxes) # {} /\ plate.fits
     /\ \E x \in Readings, label \in Associated(boxes) :
          LET read == IF OcrEnabled /\ plate.clear /\ ocr # "none" THEN Recognized(x) ELSE Unread
              conf == IF ~OcrEnabled THEN plate.conf
                      ELSE IF read.chars = 0 THEN 0 ELSE Least(plate.conf, read.conf)
          IN /\ reading' = [reading EXCEPT ![r] = IF read = Unread THEN NoReading ELSE x]
             /\ Answer(r, Finding(plate, label, read.chars, conf, OcrEnabled /\ ~plate.clear))
     /\ ocr' = IF OcrEnabled /\ plate.clear /\ ocr = "created" THEN "ready" ELSE ocr
     /\ UNCHANGED <<detector, loadError, started>>

\* The inference fails, or the OCR cannot be loaded when it is first used.
InferenceFails(r) ==
  /\ rcPc[r] = "read"
  /\ busy' = NoSlot
  /\ LeaveRecognition(r)
  /\ UNCHANGED rcModels

Answered(r) == rcPc[r] = "answered" /\ NotReady(r)
-----------------------------------------------------------------------------
RcInit ==
  /\ detector = "none" /\ ocr = "none" /\ loadError \in BOOLEAN /\ started = loadError
  /\ busy = NoSlot
  /\ rcPc = [r \in Slots |-> "idle"]
  /\ scene = [r \in Slots |-> NoScene]
  /\ reading = [r \in Slots |-> NoReading]
  /\ answer = [r \in Slots |-> NoAnswer]

RcNext ==
  \E r \in Slots :
    \/ EnsureLoaded(r) \/ LoadDetector(r) \/ CreateOcr(r) \/ LoadOcr(r) \/ LoadFails(r)
    \/ LoadFailed(r) \/ Probed(r) \/ WarmedUp(r) \/ Detect(r) \/ ReadNothing(r) \/ ReadPlate(r)
    \/ InferenceFails(r) \/ Answered(r)

RcSpec == RcInit /\ [][RcNext]_rcVars
-----------------------------------------------------------------------------
(* Properties.                                                             *)

\* A text of so many characters and at least this confidence was read: it is one of the
\* candidates, or all of the crop or one of each half joined.
ReadFrom(x, chars, least) ==
  \/ \E t \in Range(x.whole) : t.chars = chars /\ t.conf >= least
  \/ \E texts \in {x.whole} \cup {<<t, u>> : t \in Range(x.upper), u \in Range(x.lower)} :
       texts # <<>> /\ Chars(texts) = chars /\ Mean(texts) >= least

\* What an answer that needs no review rests on: the boxes of its frame and what was read.
WasRead(boxes, x, a) ==
  /\ a.box \in Range(boxes) /\ a.box.label = "PLATE" /\ a.box.fits /\ a.box.clear
  /\ \A b \in Range(boxes) : b.label = "PLATE" => b.conf <= a.box.conf
  /\ a.box.conf >= ReviewThreshold
  /\ x # NoReading
  /\ ReadFrom(x, a.chars, ReviewThreshold)

\* An answer that is not sent to review was really read: in this frame, in the most
\* confident plate, which lies in the image and is clear, by an OCR that nobody has taken
\* away, and detector and OCR are both as sure as the lot demands, however loads, failing
\* loads and other frames interleave (detect_and_read, apply_plate_review_policy).
UnreviewedPlateWasRead ==
  \A r \in Slots :
    rcPc[r] = "answered" /\ ~answer[r].review => WasRead(scene[r], reading[r], answer[r])
=============================================================================
