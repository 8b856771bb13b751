----------------------------- MODULE Detections -----------------------------
(***************************************************************************)
(* Stored detections: the use case of ALPRApplicationService from the      *)
(* capture id to the committed row, the image file that is written before  *)
(* it, the confirmation of a plate with or without a check-in, and the     *)
(* status filters of the history.                                          *)
(*                                                                         *)
(* An image stands for all that goes into the fingerprint of a capture:    *)
(* the bytes, the lane, the kind of input and the video time.  What the    *)
(* runtime reads in it is chosen freely (Recognition).  Requests refused   *)
(* at their beginning change nothing and are left out.                     *)
(***************************************************************************)
EXTENDS Workers

CONSTANTS
  Images, Captures,  \* what clients send, and the ids they choose for it
  FreshIds, Keys,    \* ids of detections without a capture id, names of image files
  Results,           \* what the runtime and the review policy may say of an image
  PlatesTyped,       \* plates an operator may confirm
  NoPlate, NoCapture, NoImage, NoKey, NoDetection, NoResult

DetectionIds == Captures \cup FreshIds

Result == [plate : PlatesTyped \cup {NoPlate}, review : BOOLEAN]

ASSUME DetectionAssumption ==
  /\ Results \subseteq {x \in Result : x.plate = NoPlate => x.review}
  /\ Captures \cap FreshIds = {}
  /\ NoPlate \notin PlatesTyped /\ NoCapture \notin DetectionIds /\ NoImage \notin Images
  /\ NoKey \notin Keys /\ NoResult \notin Results
  /\ NoDetection \notin [key : Keys, image : Images, read : Result, review : BOOLEAN,
                         confirmed : PlatesTyped \cup {NoPlate}]

VARIABLES
  detections, \* the committed row of each id, or NoDetection
  files,      \* what is stored under each key
  entered,    \* the detections some session refers to
  unheard,    \* the detections whose COMMIT was done and not acknowledged
  dtPc,       \* where each slot is
  dtReq,      \* the request it works on
  said        \* every answer that named a stored capture: <<id, image, plate>>

dtTables == <<detections, files, entered, unheard>>
dtVars == <<dtTables, dtPc, dtReq, said>>

NoUpload == [id |-> NoCapture, image |-> NoImage, key |-> NoKey, result |-> NoResult,
             loaded |-> NoDetection, typed |-> NoPlate]

DtPlaces == {"idle", "detect", "insert", "commit", "undo", "linked", "confirm", "enter"}
-----------------------------------------------------------------------------
Stored(id) == detections[id] # NoDetection

\* `confirmed` is the confirmed plate; is_confirmed is set with it, and a vehicle type
\* confirmed with it (left out here) too.
NewRow(q) ==
  [key |-> q.key, image |-> q.image, read |-> q.result, review |-> q.result.review,
   confirmed |-> NoPlate]

DtGo(r, place) == dtPc' = [dtPc EXCEPT ![r] = place]

DtDone(r) == DtGo(r, "idle") /\ dtReq' = [dtReq EXCEPT ![r] = NoUpload]

Say(id, row) ==
  said' = IF id \in Captures THEN said \cup {<<id, row.image, row.read.plate>>} ELSE said

\* Mutant: the capture id alone decides.
AnyImage(row, image) == TRUE
SameImage(row, image) == row.image = image
-----------------------------------------------------------------------------
(* Taking a detection in.                                                  *)

\* get_capture: a capture that is stored is answered, or refused for another image.
ReplayCapture(r) ==
  \E id \in Captures, image \in Images :
    /\ dtPc[r] = "idle" /\ Stored(id) /\ SameImage(detections[id], image)
    /\ said' = said \cup {<<id, image, detections[id].read.plate>>}
    /\ UNCHANGED <<dtTables, dtPc, dtReq>>

BeginDetection(r) ==
  \E id \in Captures \cup {NoCapture}, image \in Images :
    /\ dtPc[r] = "idle" /\ (id \in Captures => ~Stored(id))
    /\ dtReq' = [dtReq EXCEPT ![r] = [NoUpload EXCEPT !.id = id, !.image = image]]
    /\ DtGo(r, "detect")
    /\ UNCHANGED <<dtTables, said>>

\* A preview ends here, and so does a frame the runtime cannot read.
NotStored(r) == dtPc[r] = "detect" /\ DtDone(r) /\ UNCHANGED <<dtTables, said>>

UsedKeys == {k \in Keys : files[k] # NoImage} \cup {dtReq[q].key : q \in Slots}
              \cup {detections[id].key : id \in {i \in DetectionIds : Stored(i)}}
UsedIds == {id \in DetectionIds : Stored(id)} \cup {dtReq[q].id : q \in Slots}
IdsFor(capture) == IF capture \in Captures THEN {capture} ELSE FreshIds \ UsedIds

\* Mutant: the file is named after the capture.
KeysOfCapture(r) ==
  {k \in Keys : \/ \E id \in DetectionIds : id = dtReq[r].id /\ Stored(id) /\ detections[id].key = k
                \/ k \notin UsedKeys /\ (dtReq[r].id \in Captures => ~Stored(dtReq[r].id))}
NewKeys(r) == Keys \ UsedKeys

\* The image reaches the disk under a new name, whole or not at all.
SaveImage(r) ==
  /\ dtPc[r] = "detect"
  /\ \E x \in Results, k \in NewKeys(r), id \in IdsFor(dtReq[r].id) :
       /\ files' = [files EXCEPT ![k] = dtReq[r].image]
       /\ dtReq' = [dtReq EXCEPT ![r].result = x, ![r].key = k, ![r].id = id]
  /\ DtGo(r, "insert")
  /\ UNCHANGED <<detections, entered, unheard, said>>

\* The INSERT waits for an uncommitted row with the same id.
InsertDetection(r) ==
  /\ dtPc[r] = "insert"
  /\ \A q \in Slots : dtPc[q] = "commit" => dtReq[q].id # dtReq[r].id
  /\ DtGo(r, IF Stored(dtReq[r].id) THEN "undo" ELSE "commit")
  /\ UNCHANGED <<dtTables, dtReq, said>>

CommitDetection(r) ==
  LET q == dtReq[r]
  IN /\ dtPc[r] = "commit"
     /\ detections' = [detections EXCEPT ![q.id] = NewRow(q)]
     /\ Say(q.id, NewRow(q))
     /\ DtDone(r)
     /\ UNCHANGED <<files, entered, unheard>>

\* The statement or the COMMIT fails; a COMMIT may have been done nevertheless.
RecordFails(r) ==
  /\ dtPc[r] \in {"insert", "commit"}
  /\ \/ UNCHANGED <<detections, unheard>>
     \/ /\ dtPc[r] = "commit"
        /\ detections' = [detections EXCEPT ![dtReq[r].id] = NewRow(dtReq[r])]
        /\ unheard' = unheard \cup {dtReq[r].id}
  /\ DtGo(r, "undo")
  /\ UNCHANGED <<files, entered, dtReq, said>>

\* Whatever kept the row from being recorded, its image goes; the answer is an error.
DeleteImage(r) ==
  /\ dtPc[r] = "undo"
  /\ files' = [files EXCEPT ![dtReq[r].key] = NoImage]
  /\ DtDone(r)
  /\ UNCHANGED <<detections, entered, unheard, said>>
-----------------------------------------------------------------------------
(* Confirming a plate.                                                     *)

\* Confirming alone what is confirmed like that already is answered at once.
ConfirmDetection(r) ==
  \E id \in DetectionIds, plate \in PlatesTyped, next \in {"linked", "enter"} :
    /\ dtPc[r] = "idle" /\ Stored(id)
    /\ next = "linked" => detections[id].confirmed # plate
    /\ dtReq' = [dtReq EXCEPT ![r] =
         [NoUpload EXCEPT !.id = id, !.loaded = detections[id], !.typed = plate]]
    /\ DtGo(r, next)
    /\ UNCHANGED <<dtTables, said>>

\* A detection some session refers to is not confirmed alone.
LookUpEntry(r) ==
  /\ dtPc[r] = "linked"
  /\ IF dtReq[r].id \in entered THEN DtDone(r) ELSE DtGo(r, "confirm") /\ UNCHANGED dtReq
  /\ UNCHANGED <<dtTables, said>>

\* Only attributes that were set to another value than the loaded one are written.
Confirmed(q) ==
  LET row == detections[q.id]
  IN [row EXCEPT !.confirmed = Dirty(q.typed, q.loaded.confirmed, @),
                 !.review = Dirty(FALSE, q.loaded.review, @)]

StoreConfirmation(r) ==
  /\ dtPc[r] = "confirm"
  /\ detections' = [detections EXCEPT ![dtReq[r].id] = Confirmed(dtReq[r])]
  /\ DtDone(r)
  /\ UNCHANGED <<files, entered, unheard, said>>

\* Confirmed by the check-in that commits with it, or named by a plain check-in.
EnterConfirmed(r) ==
  /\ dtPc[r] = "enter"
  /\ entered' = entered \cup {dtReq[r].id}
  /\ detections' = [detections EXCEPT ![dtReq[r].id] = Confirmed(dtReq[r])]
  /\ DtDone(r)
  /\ UNCHANGED <<files, unheard, said>>

EnterUnconfirmed ==
  \E id \in DetectionIds :
    /\ Stored(id)
    /\ entered' = entered \cup {id}
    /\ UNCHANGED <<detections, files, unheard, dtPc, dtReq, said>>

ConfirmationLost(r) ==
  /\ dtPc[r] \in {"linked", "confirm", "enter"}
  /\ DtDone(r)
  /\ UNCHANGED <<dtTables, said>>

\* The server dies: what is not committed is gone, image files stay.
ServerDies ==
  /\ dtPc' = [r \in Slots |-> "idle"] /\ dtReq' = [r \in Slots |-> NoUpload]
  /\ UNCHANGED <<dtTables, said>>
-----------------------------------------------------------------------------
(* The history's filters; a comparison with NULL is neither true nor false. *)

SqlTrue(a, b) == a # NoPlate /\ b # NoPlate /\ a = b
SqlFalse(a, b) == a # NoPlate /\ b # NoPlate /\ a # b

Statuses == {"NO_PLATE", "NEEDS_CONFIRMATION", "DETECTED", "CONFIRMED", "CORRECTED"}

\* Mutant: without OR normalized_plate IS NULL.
OtherPlate(row) == SqlFalse(row.confirmed, row.read.plate)
Corrected(row) == SqlFalse(row.confirmed, row.read.plate) \/ row.read.plate = NoPlate

HasStatus(row, status) ==
  LET isConfirmed == row.confirmed # NoPlate
      noPlate == row.read.plate = NoPlate
  IN \/ status = "NO_PLATE" /\ noPlate /\ ~isConfirmed
     \/ status = "NEEDS_CONFIRMATION" /\ row.review /\ ~isConfirmed /\ ~noPlate
     \/ status = "DETECTED" /\ ~isConfirmed /\ ~row.review /\ ~noPlate
     \/ status = "CONFIRMED" /\ isConfirmed /\ SqlTrue(row.confirmed, row.read.plate)
     \/ status = "CORRECTED" /\ isConfirmed /\ Corrected(row)
-----------------------------------------------------------------------------
DtInit ==
  /\ detections = [id \in DetectionIds |-> NoDetection]
  /\ files = [k \in Keys |-> NoImage]
  /\ entered = {} /\ unheard = {} /\ said = {}
  /\ dtPc = [r \in Slots |-> "idle"] /\ dtReq = [r \in Slots |-> NoUpload]

DtNext ==
  \/ \E r \in Slots :
       \/ ReplayCapture(r) \/ BeginDetection(r) \/ NotStored(r) \/ SaveImage(r)
       \/ InsertDetection(r) \/ CommitDetection(r) \/ RecordFails(r) \/ DeleteImage(r)
       \/ ConfirmDetection(r) \/ LookUpEntry(r) \/ StoreConfirmation(r) \/ EnterConfirmed(r)
       \/ ConfirmationLost(r)
  \/ EnterUnconfirmed \/ ServerDies

DtSpec == DtInit /\ [][DtNext]_dtVars
-----------------------------------------------------------------------------
(* Properties.                                                             *)

\* The image of every stored detection is on disk and is the one that was recognised,
\* whatever retries of the capture run at the same time, fail or are cut off by a crash
\* (save_image before the INSERT, delete_image after a failure).  The one way to lose it
\* is a COMMIT of this very row that was done and whose acknowledgement was lost.
ImageOfDetection ==
  \A id \in DetectionIds :
    Stored(id) => \/ files[detections[id].key] = detections[id].image
                  \/ id \in unheard /\ files[detections[id].key] = NoImage

\* Every answer for a capture id tells of the same image and the same plate, the first
\* one as well as each retry, also of requests that raced (get_capture, the primary key).
CaptureAnswersOnce ==
  \A a \in said, b \in said : a[1] = b[1] => a[2] = b[2] /\ a[3] = b[3]

\* The five statuses of the history share the detections out: each detection is found
\* under exactly one of them, whatever was read, confirmed and confirmed again
\* (get_detection_history, where a missing plate makes a comparison NULL).
InOneStatus ==
  \A id \in DetectionIds :
    Stored(id) => \E status \in Statuses :
                    \A other \in Statuses : HasStatus(detections[id], other) <=> other = status
=============================================================================
