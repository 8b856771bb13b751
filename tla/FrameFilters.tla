---------------------------- MODULE FrameFilters ----------------------------
(***************************************************************************)
(* What turns recognitions of single frames into statements about a        *)
(* sequence of frames: the plate vote of MultiFrameVoter and the fire and  *)
(* smoke filter of FireSmokeRuntime.process_frame.                         *)
(*                                                                         *)
(* Requests are served by a thread pool.  A frame is stamped when its      *)
(* request begins; only the inference is under a lock, so frames of one    *)
(* camera may reach its history in another order than they were taken in.  *)
(***************************************************************************)
EXTENDS Workers, Sequences, SequencesExt, FiniteSetsExt

CONSTANTS
  Plates, Confidences,
  WindowSize,   \* frames the voter remembers
  MaxPushes,    \* bound of the frames pushed since a reset
  Cameras,
  Predictions,  \* what the detector may find in a frame: sequences of candidates
  Threshold,    \* least confidence of each event type
  MinFrames, Window, Persistence,  \* temporal_debounce_frames, ..._window_seconds, smoke_...
  MaxHistory,   \* length of a history, 30 in the code
  Enough, Sure, \* frames, or confidence, that confirm an event
  Late,         \* a frame reaches the histories at most Late after its stamp
  LastTick, MaxFrames,  \* bounds of the clock and of the frames in a history's log
  Nobody, Nothing

EventTypes == {"FIRE", "SMOKE"}

\* `label` is OTHER for classes that are neither; `masked`: half of the box or more lies
\* in an exclusion zone; `area` is that of the box clamped to the image.
Candidate == [label : EventTypes \cup {"OTHER"}, conf : Nat, area : Nat, masked : BOOLEAN]

Events == [camera : Cameras, type : EventTypes, count : Nat, status : {"CONFIRMED", "VERIFYING"}]

ASSUME FrameAssumption ==
  /\ WindowSize \in Nat \ {0} /\ Confidences \subseteq Nat
  /\ Predictions \subseteq Seq(Candidate) /\ Threshold \in [EventTypes -> Nat]
  /\ MaxHistory \in Nat /\ MinFrames \in 1 .. MaxHistory /\ Window \in Nat /\ Persistence \in Nat /\ Late \in Nat
  /\ Nothing \notin Events

VARIABLES
  window,     \* the voter's deque
  pushed,     \* every frame pushed since the last reset
  frameTime,  \* the clock frames are stamped with
  fireModel,  \* "none", "broken" (no manifest) or "loaded"
  history,    \* of each camera and event type
  matched,    \* every frame that matched, since the last reset of the camera
  ffPc,       \* where each slot is
  frame,      \* the frame it works on
  alarm       \* the event of the step just taken, Nothing if there is none

voterVars == <<window, pushed>>
fireVars == <<frameTime, fireModel, history, matched, ffPc, frame, alarm>>
ffVars == <<voterVars, fireVars>>
-----------------------------------------------------------------------------
(* The voter.                                                              *)

\* Mutant: the newest entry is the one that does not fit.
KeptFirst(w, e, n) == IF Len(w) < n THEN Append(w, e) ELSE w
\* deque(maxlen = n).append(e)
Remembered(w, e, n) == IF Len(w) < n THEN Append(w, e) ELSE Append(Tail(w), e)

PlatesSeen(w) == {w[i].plate : i \in DOMAIN w}
Frequency(w, p) == Cardinality({i \in DOMAIN w : w[i].plate = p})
BestOf(w, p) == Max({w[i].conf : i \in {j \in DOMAIN w : w[j].plate = p}})
FirstOf(w, p) == Min({i \in DOMAIN w : w[i].plate = p})

Leading(w) == {p \in PlatesSeen(w) : \A q \in PlatesSeen(w) : Frequency(w, q) <= Frequency(w, p)}

\* Of equally frequent plates the one read most confidently, then the one seen first.
Winner(w) ==
  CHOOSE p \in Leading(w) : \A q \in Leading(w) :
    BestOf(w, q) < BestOf(w, p) \/ (BestOf(w, q) = BestOf(w, p) /\ FirstOf(w, p) <= FirstOf(w, q))

Vote(w) == [plate |-> Winner(w), confidence |-> BestOf(w, Winner(w)),
            frequency |-> Frequency(w, Winner(w)), total |-> Len(w)]

IsStable(w) == \E p \in PlatesSeen(w) : 2 * Frequency(w, p) >= WindowSize

\* A frame without a plate changes nothing.
Push ==
  \E p \in Plates, c \in Confidences :
    /\ Len(pushed) < MaxPushes
    /\ window' = Remembered(window, [plate |-> p, conf |-> c], WindowSize)
    /\ pushed' = Append(pushed, [plate |-> p, conf |-> c])
    /\ UNCHANGED fireVars

Reset == window' = <<>> /\ pushed' = <<>> /\ UNCHANGED fireVars
-----------------------------------------------------------------------------
(* Fire and smoke.                                                         *)

Taken(c, at, found) == [camera |-> c, at |-> at, found |-> found]
NoFrame == Taken(Nobody, 0, <<>>)

FfPlaces == {"idle", "wait", "FIRE", "SMOKE"}

\* The request begins: the model is loaded if it is not, the frame gets its stamp.
Frame(r) ==
  \E c \in Cameras :
    /\ ffPc[r] = "idle" /\ fireModel # "broken"
    /\ fireModel' = "loaded"
    /\ ffPc' = [ffPc EXCEPT ![r] = "wait"]
    /\ frame' = [frame EXCEPT ![r] = Taken(c, frameTime, <<>>)]
    /\ alarm' = Nothing
    /\ UNCHANGED <<voterVars, frameTime, history, matched>>

\* One inference at a time, under the lock.
Infer(r) ==
  /\ ffPc[r] = "wait"
  /\ \E found \in Predictions :
       frame' = [frame EXCEPT ![r] = Taken(frame[r].camera, frame[r].at, found)]
  /\ ffPc' = [ffPc EXCEPT ![r] = "FIRE"]
  /\ alarm' = Nothing
  /\ UNCHANGED <<voterVars, frameTime, fireModel, history, matched>>

\* The image cannot be decoded, or the inference fails.
FrameRefused(r) ==
  /\ ffPc[r] = "wait"
  /\ ffPc' = [ffPc EXCEPT ![r] = "idle"]
  /\ frame' = [frame EXCEPT ![r] = NoFrame]
  /\ alarm' = Nothing
  /\ UNCHANGED <<voterVars, frameTime, fireModel, history, matched>>

\* Layers 1 and 3 of the filter.
Passes(candidate, type) ==
  /\ candidate.label = type /\ candidate.conf >= Threshold[type]
  /\ candidate.area > 0 /\ ~candidate.masked

\* Where the candidates are that pass.
Matching(found, type) == {i \in DOMAIN found : Passes(found[i], type)}

\* The most confident one of these, the first of several.
Best(found, hits) ==
  found[CHOOSE i \in hits : \A j \in hits :
          found[j].conf < found[i].conf \/ (found[j].conf = found[i].conf /\ i <= j)]

\* Mutant: what is older than the window stays.
NeverPruned(h, at) == h
\* Pruning starts at the oldest entry and ends at the first that is in the window.
Pruned(h, at) ==
  LET inside == {i \in DOMAIN h : at - h[i].at <= Window}
  IN IF inside = {} THEN <<>> ELSE SubSeq(h, Min(inside), Len(h))

\* Layer 4: smoke that neither lasts nor spreads is an exhaust puff.
Dissipating(h, at) ==
  at - Head(h).at < Persistence /\ 100 * Last(h).area < 85 * Head(h).area

Raised(h, type, at) == Len(h) >= MinFrames /\ ~(type = "SMOKE" /\ Dissipating(h, at))

Event(c, type, h) ==
  [camera |-> c, type |-> type, count |-> Len(h),
   status |-> IF Len(h) >= Enough \/ Last(h).conf >= Sure THEN "CONFIRMED" ELSE "VERIFYING"]

\* One event type of a frame; the histories are touched without the lock.  Append, prune
\* and count of one frame are one step here; what is interleaved is whole frames.
Filter(r, type) ==
  LET f == frame[r]
      hits == Matching(f.found, type)
      best == Best(f.found, hits)
      item == [at |-> f.at, conf |-> best.conf, area |-> best.area]
      old == history[<<f.camera, type>>]
      new == Pruned(IF hits = {} THEN old ELSE Remembered(old, item, MaxHistory), f.at)
  IN /\ ffPc[r] = type
     /\ Len(matched[<<f.camera, type>>]) < MaxFrames
     /\ history' = [history EXCEPT ![<<f.camera, type>>] = new]
     /\ matched' = [matched EXCEPT ![<<f.camera, type>>] = IF hits = {} THEN @ ELSE Append(@, f.at)]
     /\ alarm' = IF Raised(new, type, f.at) THEN Event(f.camera, type, new) ELSE Nothing
     /\ ffPc' = [ffPc EXCEPT ![r] = IF type = "FIRE" THEN "SMOKE" ELSE "idle"]
     /\ frame' = [frame EXCEPT ![r] = IF type = "FIRE" THEN f ELSE NoFrame]
     /\ UNCHANGED <<voterVars, frameTime, fireModel>>

ResetCamera ==
  \E c \in Cameras :
    /\ history' = [k \in DOMAIN history |-> IF k[1] = c THEN <<>> ELSE history[k]]
    /\ matched' = [k \in DOMAIN matched |-> IF k[1] = c THEN <<>> ELSE matched[k]]
    /\ alarm' = Nothing
    /\ UNCHANGED <<voterVars, frameTime, fireModel, ffPc, frame>>

TimePasses ==
  /\ frameTime < LastTick
  /\ \A r \in Slots : ffPc[r] # "idle" => frameTime < frame[r].at + Late
  /\ frameTime' = frameTime + 1
  /\ alarm' = Nothing
  /\ UNCHANGED <<voterVars, fireModel, history, matched, ffPc, frame>>
-----------------------------------------------------------------------------
FfInit ==
  /\ window = <<>> /\ pushed = <<>>
  /\ frameTime = 0 /\ fireModel \in {"none", "broken"}
  /\ history = [k \in Cameras \X EventTypes |-> <<>>]
  /\ matched = [k \in Cameras \X EventTypes |-> <<>>]
  /\ ffPc = [r \in Slots |-> "idle"] /\ frame = [r \in Slots |-> NoFrame]
  /\ alarm = Nothing

VoterNext == Push \/ Reset

FireNext ==
  \/ \E r \in Slots : \/ Frame(r) \/ Infer(r) \/ FrameRefused(r)
                      \/ \E type \in EventTypes : Filter(r, type)
  \/ ResetCamera \/ TimePasses

FfNext == VoterNext \/ FireNext

FfSpec == FfInit /\ [][FfNext]_ffVars
-----------------------------------------------------------------------------
(* Properties.                                                             *)

\* The frames the window should hold.
LastFrames ==
  IF Len(pushed) <= WindowSize THEN pushed
  ELSE SubSeq(pushed, Len(pushed) - WindowSize + 1, Len(pushed))

\* A stable plate is the one voted for, was read in half of the last WindowSize frames
\* or more, no plate in more of them, and the confidence it is given with is that of one
\* of these frames (is_stable and vote look at the window separately).
VotedPlateStands ==
  IsStable(window) =>
    LET vote == Vote(window)
    IN /\ 2 * Frequency(LastFrames, vote.plate) >= WindowSize
       /\ \A p \in PlatesSeen(LastFrames) :
            Frequency(LastFrames, p) <= Frequency(LastFrames, vote.plate)
       /\ \E i \in DOMAIN LastFrames :
            LastFrames[i] = [plate |-> vote.plate, conf |-> vote.confidence]

\* How many of these frames were taken in at `from` or later.
SeenSince(stamps, from) == Cardinality({i \in DOMAIN stamps : stamps[i] >= from})

\* An alarm counts only frames of this camera and type, each once and none older than the
\* window and the delay of a frame, also when frames overtake each other (process_frame
\* outside its lock).
AlarmsCountFrames ==
  [][\A r \in Slots : \A type \in EventTypes :
       ffPc[r] = type /\ ffPc'[r] # type /\ alarm' # Nothing =>
         LET f == frame[r]
         IN /\ alarm'.camera = f.camera /\ alarm'.type = type
            /\ alarm'.count <= SeenSince(matched'[<<f.camera, type>>], f.at - Window - Late)]_fireVars

\* The frames that reached a history after the i-th although they were taken before `from`.
Strays(stamps, i, from) == {j \in DOMAIN stamps : i < j /\ stamps[j] < from}

\* After a frame taken in at `from` or later, more frames from before reached the history
\* than it has room for besides MinFrames frames.
Crowded(stamps, from) ==
  \E i \in DOMAIN stamps :
    stamps[i] >= from /\ Cardinality(Strays(stamps, i, from)) > MaxHistory - MinFrames

\* Fire in enough frames that are inside the window of every frame so far passes without
\* an alarm only if frames from before the window have crowded out one of them: the
\* history has a greatest length, and process_frame fills it outside the lock, in the
\* order in which frames arrive.
FireRaisesAlarm ==
  [][\A r \in Slots :
       ffPc[r] = "FIRE" /\ ffPc'[r] # "FIRE"
       /\ SeenSince(matched'[<<frame[r].camera, "FIRE">>], frameTime - Window) >= MinFrames =>
         \/ alarm' # Nothing
         \/ Crowded(matched'[<<frame[r].camera, "FIRE">>], frameTime - Window)]_fireVars
=============================================================================
