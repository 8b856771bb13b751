---------------------------- MODULE Gates_proofs ----------------------------
(***************************************************************************)
(* Proofs about what happens at the gates before a session is touched:     *)
(* Detections, Recognition and FrameFilters, for any number of requests,   *)
(* cameras, frames and uploads.                                            *)
(***************************************************************************)
EXTENDS Barriers_proofs, Detections, Recognition, FrameFilters

-----------------------------------------------------------------------------
(* Stored detections (Detections).                                         *)

Row == [key : Keys, image : Images, read : Results, review : BOOLEAN,
        confirmed : PlatesTyped \cup {NoPlate}]

Upload == [id : DetectionIds \cup {NoCapture}, image : Images \cup {NoImage},
           key : Keys \cup {NoKey}, result : Results \cup {NoResult},
           loaded : Row \cup {NoDetection}, typed : PlatesTyped \cup {NoPlate}]

DtTypeOK ==
  /\ detections \in [DetectionIds -> Row \cup {NoDetection}]
  /\ files \in [Keys -> Images \cup {NoImage}]
  /\ dtPc \in [Slots -> DtPlaces]
  /\ dtReq \in [Slots -> Upload]

Recording == {"insert", "commit", "undo"}
Confirming == {"linked", "confirm", "enter"}

\* What a slot has read or written so far: its image lies under its key until the row is
\* recorded or given up, and a row it is about to commit is not there yet.
SlotAgrees(r) ==
  LET q == dtReq[r]
  IN /\ dtPc[r] = "detect" => q.image \in Images
     /\ dtPc[r] \in Recording =>
          q.id \in DetectionIds /\ q.image \in Images /\ q.key \in Keys /\ q.result \in Results
     /\ dtPc[r] \notin Recording => q.key = NoKey
     /\ dtPc[r] \in {"insert", "commit"} => files[q.key] = q.image
     /\ dtPc[r] = "commit" => ~Stored(q.id)
     /\ dtPc[r] \in Confirming =>
          q.id \in DetectionIds /\ Stored(q.id) /\ q.loaded \in Row /\ q.typed \in PlatesTyped

\* No two requests write the same file, or are about to commit the same row.
SlotsApart ==
  \A r, q \in Slots :
    r # q => /\ dtReq[r].key = NoKey \/ dtReq[r].key # dtReq[q].key
             /\ dtPc[r] = "commit" /\ dtPc[q] = "commit" => dtReq[r].id # dtReq[q].id

\* The file of a row is there, and no request that may still delete it works with it,
\* unless the commit of the row was not acknowledged: then the request that made it
\* takes the file away.
FilesStand ==
  \A id \in DetectionIds :
    Stored(id) =>
      /\ \/ files[detections[id].key] = detections[id].image
         \/ id \in unheard /\ files[detections[id].key] = NoImage
      /\ \A r \in Slots :
           dtReq[r].key = detections[id].key => id \in unheard /\ dtPc[r] = "undo"

\* What was answered is what is stored.
SaidIsStored ==
  \A a \in said : /\ a[1] \in DetectionIds /\ Stored(a[1])
                  /\ a[2] = detections[a[1]].image /\ a[3] = detections[a[1]].read.plate

\* The inductive invariant.
RequestsAgree ==
  DtTypeOK /\ (\A r \in Slots : SlotAgrees(r)) /\ SlotsApart /\ SaidIsStored /\ FilesStand

LEMMA Apart ==
  /\ NoCapture \notin DetectionIds /\ NoImage \notin Images /\ NoKey \notin Keys
  /\ NoDetection \notin Row /\ NoPlate \notin PlatesTyped /\ Captures \subseteq DetectionIds
  /\ \A x \in Results : x \in Result /\ (x.plate = NoPlate => x.review)
BY DetectionAssumption DEF DetectionAssumption, Row, Result, DetectionIds

LEMMA FirstStore == DtInit => RequestsAgree
<1> SUFFICES ASSUME DtInit PROVE RequestsAgree
  OBVIOUS
<1>1. NoUpload \in Upload /\ NoUpload.key = NoKey
  BY DEF NoUpload, Upload
<1>2. DtTypeOK
  BY <1>1 DEF DtInit, DtTypeOK, DtPlaces
<1>3. \A r \in Slots : SlotAgrees(r)
  BY <1>1 DEF DtInit, SlotAgrees, Recording, Confirming
<1>4. SlotsApart
  BY <1>1 DEF DtInit, SlotsApart
<1>5. SaidIsStored /\ FilesStand
  BY DEF DtInit, SaidIsStored, FilesStand, Stored
<1> QED
  BY <1>2, <1>3, <1>4, <1>5 DEF RequestsAgree

\* What a step of one slot leaves of the others.
Others(r) == \A q \in Slots \ {r} : dtPc'[q] = dtPc[q] /\ dtReq'[q] = dtReq[q]

LEMMA OneSlot ==
  ASSUME DtTypeOK, NEW r \in Slots, NEW place \in DtPlaces, NEW q \in Upload,
         dtPc' = [dtPc EXCEPT ![r] = place], dtReq' = [dtReq EXCEPT ![r] = q]
  PROVE  /\ dtPc' \in [Slots -> DtPlaces] /\ dtReq' \in [Slots -> Upload]
         /\ dtPc'[r] = place /\ dtReq'[r] = q /\ Others(r)
BY DEF DtTypeOK, Others

LEMMA Ended ==
  ASSUME DtTypeOK, NEW r \in Slots, DtDone(r)
  PROVE  /\ dtPc' \in [Slots -> DtPlaces] /\ dtReq' \in [Slots -> Upload]
         /\ dtPc'[r] = "idle" /\ dtReq'[r] = NoUpload /\ NoUpload.key = NoKey /\ Others(r)
<1>1. NoUpload \in Upload /\ NoUpload.key = NoKey
  BY DEF NoUpload, Upload
<1> QED
  BY <1>1, OneSlot DEF DtDone, DtGo, DtPlaces

\* A step of one slot that stores nothing.
LEMMA LocalStep ==
  ASSUME RequestsAgree, NEW r \in Slots, Others(r), SlotAgrees(r)',
         dtPc' \in [Slots -> DtPlaces], dtReq' \in [Slots -> Upload],
         UNCHANGED <<detections, files, unheard>>, SaidIsStored',
         dtReq'[r].key # NoKey => dtReq'[r].key = dtReq[r].key,
         dtReq'[r].key # NoKey => dtPc[r] # "undo",
         dtPc'[r] = "commit" =>
           \A q \in Slots \ {r} : dtPc[q] = "commit" => dtReq[q].id # dtReq'[r].id
  PROVE  RequestsAgree'
<1>1. DtTypeOK'
  BY DEF RequestsAgree, DtTypeOK
<1>2. \A q \in Slots : SlotAgrees(q)'
  BY DEF RequestsAgree, SlotAgrees, Others, Stored
<1>3. SlotsApart'
  BY DEF RequestsAgree, SlotsApart, Others
<1>4. FilesStand'
  <2> SUFFICES ASSUME NEW id \in DetectionIds, detections[id] # NoDetection, NEW q \in Slots,
                      dtReq'[q].key = detections[id].key
               PROVE  id \in unheard /\ dtPc'[q] = "undo"
    BY DEF RequestsAgree, FilesStand, Stored
  <2>1. detections[id].key \in Keys
    BY Apart DEF RequestsAgree, DtTypeOK, Row
  <2>2. dtReq[q].key = detections[id].key
    BY <2>1, Apart DEF Others
  <2>3. id \in unheard /\ dtPc[q] = "undo"
    BY <2>2 DEF RequestsAgree, FilesStand, Stored
  <2> QED
    BY <2>1, <2>3, Apart DEF Others
<1> QED
  BY <1>1, <1>2, <1>3, <1>4 DEF RequestsAgree

\* Nobody but the slot itself works with the row it is about to commit.
LEMMA RowStored ==
  ASSUME RequestsAgree, NEW r \in Slots, dtPc[r] = "commit",
         dtPc' \in [Slots -> DtPlaces], dtReq' \in [Slots -> Upload],
         detections' = [detections EXCEPT ![dtReq[r].id] = NewRow(dtReq[r])],
         UNCHANGED files, Others(r), SlotAgrees(r)',
         dtPc'[r] # "commit", unheard \subseteq unheard',
         \/ dtReq'[r].key = NoKey
         \/ dtReq'[r].key = dtReq[r].key /\ dtPc'[r] = "undo" /\ dtReq[r].id \in unheard',
         \A a \in said' : a \in said \/ a = <<dtReq[r].id, dtReq[r].image, dtReq[r].result.plate>>
  PROVE  RequestsAgree'
<1> DEFINE q == dtReq[r]
           row == NewRow(q)
<1>1. /\ q.id \in DetectionIds /\ q.image \in Images /\ q.key \in Keys /\ q.result \in Results
      /\ files[q.key] = q.image /\ detections[q.id] = NoDetection
  BY DEF RequestsAgree, SlotAgrees, Recording, Stored
<1>2. /\ row \in Row /\ row.key = q.key /\ row.image = q.image /\ row.read = q.result
  BY <1>1, Apart DEF NewRow, Row, Result
<1>3. /\ detections' \in [DetectionIds -> Row \cup {NoDetection}]
      /\ detections'[q.id] = row
      /\ \A id \in DetectionIds \ {q.id} : detections'[id] = detections[id]
  BY <1>1, <1>2 DEF RequestsAgree, DtTypeOK
<1>4. DtTypeOK'
  BY <1>3 DEF RequestsAgree, DtTypeOK
<1>5. \A s \in Slots : SlotAgrees(s)'
  <2> SUFFICES ASSUME NEW s \in Slots, s # r PROVE SlotAgrees(s)'
    OBVIOUS
  <2>1. /\ SlotAgrees(s) /\ dtPc'[s] = dtPc[s] /\ dtReq'[s] = dtReq[s]
        /\ dtPc[s] = "commit" => dtReq[s].id # q.id
    BY DEF RequestsAgree, SlotsApart, Others
  <2>2. dtPc[s] = "commit" => dtReq[s].id \in DetectionIds
    BY <2>1 DEF SlotAgrees, Recording
  <2> QED
    BY <1>2, <1>3, <2>1, <2>2, Apart DEF SlotAgrees, Stored
<1>6. SlotsApart'
  BY DEF RequestsAgree, SlotsApart, Others
<1>7. SaidIsStored'
  <2> SUFFICES ASSUME NEW a \in said'
               PROVE  /\ a[1] \in DetectionIds /\ detections'[a[1]] # NoDetection
                      /\ a[2] = detections'[a[1]].image /\ a[3] = detections'[a[1]].read.plate
    BY DEF SaidIsStored, Stored
  <2>1. CASE a \in said
    BY <1>1, <1>3, <2>1 DEF RequestsAgree, SaidIsStored, Stored
  <2>2. CASE a = <<q.id, q.image, q.result.plate>>
    BY <1>1, <1>2, <1>3, <2>2, Apart
  <2> QED
    BY <2>1, <2>2
<1>8. FilesStand'
  <2> SUFFICES ASSUME NEW id \in DetectionIds, detections'[id] # NoDetection
               PROVE  /\ \/ files[detections'[id].key] = detections'[id].image
                         \/ id \in unheard' /\ files[detections'[id].key] = NoImage
                      /\ \A s \in Slots :
                           dtReq'[s].key = detections'[id].key =>
                             id \in unheard' /\ dtPc'[s] = "undo"
    BY DEF FilesStand, Stored
  <2>1. detections'[id].key \in Keys
    BY <1>3, Apart DEF Row
  <2>2. CASE id = q.id
    BY <1>1, <1>2, <1>3, <2>1, <2>2, Apart DEF RequestsAgree, SlotsApart, Others
  <2>3. CASE id # q.id
    <3>1. /\ \/ files[detections[id].key] = detections[id].image
             \/ id \in unheard /\ files[detections[id].key] = NoImage
          /\ \A s \in Slots :
               dtReq[s].key = detections[id].key => id \in unheard /\ dtPc[s] = "undo"
          /\ detections'[id] = detections[id]
      BY <1>3, <2>3 DEF RequestsAgree, FilesStand, Stored
    <3>2. \A s \in Slots :
            dtReq'[s].key = detections[id].key => id \in unheard /\ dtPc'[s] = "undo"
      BY <2>1, <3>1, Apart DEF Others
    <3> QED
      BY <3>1, <3>2
  <2> QED
    BY <2>2, <2>3
<1> QED
  BY <1>4, <1>5, <1>6, <1>7, <1>8 DEF RequestsAgree

\* A confirmation changes neither what was read nor the image.
LEMMA RowConfirmed ==
  ASSUME RequestsAgree, NEW r \in Slots, dtPc[r] \in Confirming,
         detections' = [detections EXCEPT ![dtReq[r].id] = Confirmed(dtReq[r])],
         DtDone(r), UNCHANGED <<files, unheard, said>>
  PROVE  RequestsAgree'
<1> DEFINE q == dtReq[r]
           old == detections[q.id]
           row == Confirmed(q)
<1>1. /\ q.id \in DetectionIds /\ old \in Row /\ old # NoDetection
      /\ q.loaded \in Row /\ q.typed \in PlatesTyped
  BY DEF RequestsAgree, DtTypeOK, SlotAgrees, Stored
<1>2. /\ row \in Row /\ row.key = old.key /\ row.image = old.image /\ row.read = old.read
  BY <1>1 DEF Confirmed, Row, Dirty
<1>3. /\ detections' \in [DetectionIds -> Row \cup {NoDetection}]
      /\ detections'[q.id] = row
      /\ \A id \in DetectionIds \ {q.id} : detections'[id] = detections[id]
  BY <1>1, <1>2 DEF RequestsAgree, DtTypeOK
<1>4. /\ dtPc' \in [Slots -> DtPlaces] /\ dtReq' \in [Slots -> Upload]
      /\ dtPc'[r] = "idle" /\ dtReq'[r].key = NoKey /\ Others(r)
  BY Ended DEF RequestsAgree
<1>5. \A id \in DetectionIds :
        /\ Stored(id)' = Stored(id)
        /\ Stored(id) => /\ detections'[id].key = detections[id].key
                         /\ detections'[id].image = detections[id].image
                         /\ detections'[id].read = detections[id].read
  BY <1>1, <1>2, <1>3, Apart DEF Stored
<1>6. DtTypeOK'
  BY <1>3, <1>4 DEF RequestsAgree, DtTypeOK
<1>7. \A s \in Slots : SlotAgrees(s)'
  <2> SUFFICES ASSUME NEW s \in Slots PROVE SlotAgrees(s)'
    OBVIOUS
  <2>1. CASE s = r
    BY <1>4, <2>1 DEF SlotAgrees, Recording, Confirming
  <2>2. CASE s # r
    <3>1. SlotAgrees(s) /\ dtPc'[s] = dtPc[s] /\ dtReq'[s] = dtReq[s]
      BY <1>4, <2>2 DEF RequestsAgree, Others
    <3>2. dtPc[s] = "commit" => dtReq[s].id \in DetectionIds
      BY <3>1 DEF SlotAgrees, Recording
    <3> QED
      BY <1>5, <3>1, <3>2 DEF SlotAgrees
  <2> QED
    BY <2>1, <2>2
<1>8. SlotsApart'
  BY <1>4 DEF RequestsAgree, SlotsApart, Others
<1>9. SaidIsStored'
  BY <1>5 DEF RequestsAgree, SaidIsStored
<1>10. FilesStand'
  <2> SUFFICES ASSUME NEW id \in DetectionIds, Stored(id), NEW s \in Slots,
                      dtReq'[s].key = detections[id].key
               PROVE  id \in unheard /\ dtPc'[s] = "undo"
    BY <1>5 DEF RequestsAgree, FilesStand
  <2>1. detections[id].key \in Keys
    BY Apart DEF RequestsAgree, DtTypeOK, Row, Stored
  <2>2. s # r
    BY <1>4, <2>1, Apart
  <2> QED
    BY <1>4, <2>2 DEF RequestsAgree, FilesStand, Others
<1> QED
  BY <1>6, <1>7, <1>8, <1>9, <1>10 DEF RequestsAgree

\* A new file has a name that no request and no row uses.
LEMMA FileSaved ==
  ASSUME RequestsAgree, NEW r \in Slots, SaveImage(r)
  PROVE  RequestsAgree'
<1>1. PICK x \in Results, k \in NewKeys(r), id \in IdsFor(dtReq[r].id) :
        /\ files' = [files EXCEPT ![k] = dtReq[r].image]
        /\ dtReq' = [dtReq EXCEPT ![r].result = x, ![r].key = k, ![r].id = id]
  BY DEF SaveImage
<1>2. dtPc[r] = "detect" /\ dtPc' = [dtPc EXCEPT ![r] = "insert"] /\ UNCHANGED <<detections, unheard, said>>
  BY DEF SaveImage, DtGo
<1>3. /\ k \in Keys /\ \A q \in Slots : dtReq[q].key # k
      /\ \A i \in DetectionIds : Stored(i) => detections[i].key # k
      /\ id \in DetectionIds
  BY DEF NewKeys, UsedKeys, IdsFor, DetectionIds
<1>4. dtReq[r] \in Upload /\ dtReq[r].image \in Images /\ dtReq[r].key = NoKey
  BY <1>2 DEF RequestsAgree, DtTypeOK, SlotAgrees, Recording
<1>5. /\ dtReq'[r].id = id /\ dtReq'[r].key = k /\ dtReq'[r].result = x
      /\ dtReq'[r].image = dtReq[r].image /\ dtReq'[r] \in Upload
  BY <1>1, <1>3, <1>4 DEF RequestsAgree, DtTypeOK, Upload
<1>6. dtPc'[r] = "insert" /\ Others(r)
  BY <1>1, <1>2 DEF RequestsAgree, DtTypeOK, Others
<1>7. dtPc' \in [Slots -> DtPlaces] /\ dtReq' \in [Slots -> Upload]
  <2>1. dtReq' = [dtReq EXCEPT ![r] = dtReq'[r]]
    BY <1>1 DEF RequestsAgree, DtTypeOK
  <2> QED
    BY <1>2, <1>5, <2>1 DEF RequestsAgree, DtTypeOK, DtPlaces
<1>8. /\ files' \in [Keys -> Images \cup {NoImage}] /\ files'[k] = dtReq[r].image
      /\ \A j \in Keys \ {k} : files'[j] = files[j]
  BY <1>1, <1>3, <1>4 DEF RequestsAgree, DtTypeOK
<1>9. DtTypeOK'
  BY <1>2, <1>7, <1>8 DEF RequestsAgree, DtTypeOK
<1>10. \A s \in Slots : SlotAgrees(s)'
  <2> SUFFICES ASSUME NEW s \in Slots PROVE SlotAgrees(s)'
    OBVIOUS
  <2>1. CASE s = r
    BY <1>3, <1>4, <1>5, <1>6, <1>8, <2>1 DEF SlotAgrees, Recording, Confirming
  <2>2. CASE s # r
    <3>1. SlotAgrees(s) /\ dtPc'[s] = dtPc[s] /\ dtReq'[s] = dtReq[s] /\ dtReq[s].key # k
      BY <1>3, <1>6, <2>2 DEF RequestsAgree, Others
    <3> QED
      BY <1>2, <1>8, <3>1 DEF SlotAgrees, Stored, Recording
  <2> QED
    BY <2>1, <2>2
<1>11. SlotsApart'
  BY <1>3, <1>5, <1>6 DEF RequestsAgree, SlotsApart, Others
<1>12. SaidIsStored'
  BY <1>2 DEF RequestsAgree, SaidIsStored, Stored
<1>13. FilesStand'
  <2> SUFFICES ASSUME NEW i \in DetectionIds, Stored(i)
               PROVE  /\ files'[detections[i].key] = files[detections[i].key]
                      /\ \A s \in Slots :
                           dtReq'[s].key = detections[i].key =>
                             i \in unheard /\ dtPc'[s] = "undo"
    BY <1>2 DEF RequestsAgree, FilesStand, Stored
  <2>1. detections[i].key \in Keys
    BY Apart DEF RequestsAgree, DtTypeOK, Row, Stored
  <2>2. detections[i].key # k
    BY <1>3
  <2> QED
    BY <1>5, <1>6, <1>8, <2>1, <2>2 DEF RequestsAgree, FilesStand, Others
<1> QED
  BY <1>9, <1>10, <1>11, <1>12, <1>13 DEF RequestsAgree

\* The file that is deleted is nobody else's.
LEMMA FileDeleted ==
  ASSUME RequestsAgree, NEW r \in Slots, DeleteImage(r)
  PROVE  RequestsAgree'
<1> DEFINE k == dtReq[r].key
<1>1. /\ dtPc[r] = "undo" /\ files' = [files EXCEPT ![k] = NoImage]
      /\ DtDone(r) /\ UNCHANGED <<detections, unheard, said>>
  BY DEF DeleteImage
<1>2. /\ dtPc' \in [Slots -> DtPlaces] /\ dtReq' \in [Slots -> Upload]
      /\ dtPc'[r] = "idle" /\ dtReq'[r].key = NoKey /\ Others(r)
  BY <1>1, Ended DEF RequestsAgree
<1>3. k \in Keys /\ k # NoKey
  BY <1>1, Apart DEF RequestsAgree, SlotAgrees, Recording
<1>4. /\ files' \in [Keys -> Images \cup {NoImage}] /\ files'[k] = NoImage
      /\ \A j \in Keys \ {k} : files'[j] = files[j]
  BY <1>1, <1>3 DEF RequestsAgree, DtTypeOK
<1>5. DtTypeOK'
  BY <1>1, <1>2, <1>4 DEF RequestsAgree, DtTypeOK
<1>6. \A s \in Slots : SlotAgrees(s)'
  <2> SUFFICES ASSUME NEW s \in Slots PROVE SlotAgrees(s)'
    OBVIOUS
  <2>1. CASE s = r
    BY <1>2, <2>1 DEF SlotAgrees, Recording, Confirming
  <2>2. CASE s # r
    <3>1. SlotAgrees(s) /\ dtPc'[s] = dtPc[s] /\ dtReq'[s] = dtReq[s] /\ dtReq[s].key # k
      BY <1>2, <1>3, <2>2 DEF RequestsAgree, SlotsApart, Others
    <3> QED
      BY <1>1, <1>4, <3>1 DEF SlotAgrees, Stored, Recording
  <2> QED
    BY <2>1, <2>2
<1>7. SlotsApart'
  BY <1>2 DEF RequestsAgree, SlotsApart, Others
<1>8. SaidIsStored'
  BY <1>1 DEF RequestsAgree, SaidIsStored, Stored
<1>9. FilesStand'
  <2> SUFFICES ASSUME NEW i \in DetectionIds, Stored(i)
               PROVE  /\ \/ files'[detections[i].key] = detections[i].image
                         \/ i \in unheard /\ files'[detections[i].key] = NoImage
                      /\ \A s \in Slots :
                           dtReq'[s].key = detections[i].key =>
                             i \in unheard /\ dtPc'[s] = "undo"
    BY <1>1 DEF FilesStand, Stored
  <2>1. detections[i].key \in Keys
    BY Apart DEF RequestsAgree, DtTypeOK, Row, Stored
  <2>2. detections[i].key = k => i \in unheard
    BY DEF RequestsAgree, FilesStand
  <2>3. \/ files'[detections[i].key] = detections[i].image
        \/ i \in unheard /\ files'[detections[i].key] = NoImage
    BY <1>4, <2>1, <2>2 DEF RequestsAgree, FilesStand
  <2>4. ASSUME NEW s \in Slots, dtReq'[s].key = detections[i].key
        PROVE  i \in unheard /\ dtPc'[s] = "undo"
    BY <1>2, <2>1, <2>4, Apart DEF RequestsAgree, FilesStand, Others
  <2> QED
    BY <2>3, <2>4
<1> QED
  BY <1>5, <1>6, <1>7, <1>8, <1>9 DEF RequestsAgree

LEMMA Replayed ==
  ASSUME RequestsAgree, NEW r \in Slots, ReplayCapture(r)
  PROVE  RequestsAgree'
<1>1. PICK id \in Captures, image \in Images :
        /\ Stored(id) /\ SameImage(detections[id], image)
        /\ said' = said \cup {<<id, image, detections[id].read.plate>>}
  BY DEF ReplayCapture
<1>2. dtPc[r] = "idle" /\ UNCHANGED <<detections, files, unheard, dtPc, dtReq>>
  BY DEF ReplayCapture, dtTables
<1>3. SaidIsStored'
  BY <1>1, <1>2, Apart DEF RequestsAgree, SaidIsStored, Stored, SameImage
<1>4. SlotAgrees(r)' /\ Others(r) /\ dtPc' \in [Slots -> DtPlaces] /\ dtReq' \in [Slots -> Upload]
  BY <1>2 DEF RequestsAgree, DtTypeOK, SlotAgrees, Stored, Others
<1>5. dtReq'[r].key = dtReq[r].key /\ dtPc[r] # "undo"
      /\ (dtPc'[r] = "commit" =>
           \A q \in Slots \ {r} : dtPc[q] = "commit" => dtReq[q].id # dtReq'[r].id)
  BY <1>2 DEF RequestsAgree, SlotsApart
<1> QED
  BY <1>2, <1>3, <1>4, <1>5, LocalStep

\* A request that ends without having stored anything.
LEMMA EndsUnstored ==
  ASSUME RequestsAgree, NEW r \in Slots, DtDone(r), UNCHANGED <<detections, files, unheard, said>>
  PROVE  RequestsAgree'
<1>1. /\ dtPc' \in [Slots -> DtPlaces] /\ dtReq' \in [Slots -> Upload]
      /\ dtPc'[r] = "idle" /\ dtReq'[r].key = NoKey /\ Others(r)
  BY Ended DEF RequestsAgree
<1>2. SlotAgrees(r)' /\ SaidIsStored'
  BY <1>1 DEF RequestsAgree, SlotAgrees, Recording, Confirming, SaidIsStored, Stored
<1> QED
  BY <1>1, <1>2, LocalStep

LEMMA StepAgrees ==
  ASSUME RequestsAgree, [DtNext]_dtVars
  PROVE  RequestsAgree'
<1>t. DtTypeOK
  BY DEF RequestsAgree
<1>1. ASSUME NEW r \in Slots, BeginDetection(r)
      PROVE  RequestsAgree'
  <2>1. PICK id \in Captures \cup {NoCapture}, image \in Images :
          /\ dtReq' = [dtReq EXCEPT ![r] = [NoUpload EXCEPT !.id = id, !.image = image]]
          /\ dtPc' = [dtPc EXCEPT ![r] = "detect"]
          /\ UNCHANGED <<detections, files, unheard, said>>
    BY <1>1 DEF BeginDetection, DtGo, dtTables
  <2> DEFINE q == [NoUpload EXCEPT !.id = id, !.image = image]
  <2>2. q \in Upload /\ q.key = NoKey /\ q.image = image
    BY Apart DEF NoUpload, Upload
  <2>3. /\ dtPc' \in [Slots -> DtPlaces] /\ dtReq' \in [Slots -> Upload]
        /\ dtPc'[r] = "detect" /\ dtReq'[r] = q /\ Others(r)
    <3> HIDE DEF q
    <3> QED
      BY <1>t, <2>1, <2>2, OneSlot DEF DtPlaces, q
  <2>4. SlotAgrees(r)' /\ SaidIsStored'
    BY <2>1, <2>2, <2>3 DEF RequestsAgree, SlotAgrees, Recording, Confirming, SaidIsStored, Stored
  <2> QED
    BY <2>1, <2>2, <2>3, <2>4, LocalStep
<1>2. ASSUME NEW r \in Slots, InsertDetection(r)
      PROVE  RequestsAgree'
  <2> DEFINE place == IF Stored(dtReq[r].id) THEN "undo" ELSE "commit"
  <2>1. /\ dtPc[r] = "insert" /\ dtPc' = [dtPc EXCEPT ![r] = place]
        /\ \A q \in Slots : dtPc[q] = "commit" => dtReq[q].id # dtReq[r].id
        /\ UNCHANGED <<detections, files, unheard, dtReq, said>>
    BY <1>2 DEF InsertDetection, DtGo, dtTables
  <2>2. /\ dtPc' \in [Slots -> DtPlaces] /\ dtReq' \in [Slots -> Upload]
        /\ dtPc'[r] = place /\ dtReq'[r] = dtReq[r] /\ Others(r)
    BY <1>t, <2>1 DEF DtTypeOK, DtPlaces, Others
  <2>3. SlotAgrees(r)' /\ SaidIsStored'
    BY <2>1, <2>2 DEF RequestsAgree, SlotAgrees, Recording, Confirming, SaidIsStored, Stored
  <2> QED
    BY <2>1, <2>2, <2>3, LocalStep
<1>3. ASSUME NEW r \in Slots, CommitDetection(r)
      PROVE  RequestsAgree'
  <2> DEFINE q == dtReq[r]
  <2>1. /\ dtPc[r] = "commit" /\ DtDone(r) /\ UNCHANGED <<files, unheard>>
        /\ detections' = [detections EXCEPT ![q.id] = NewRow(q)] /\ Say(q.id, NewRow(q))
    BY <1>3 DEF CommitDetection
  <2>2. /\ dtPc' \in [Slots -> DtPlaces] /\ dtReq' \in [Slots -> Upload]
        /\ dtPc'[r] = "idle" /\ dtReq'[r].key = NoKey /\ Others(r)
    BY <1>t, <2>1, Ended
  <2>3. SlotAgrees(r)'
    BY <2>2 DEF SlotAgrees, Recording, Confirming
  <2>4. \A a \in said' : a \in said \/ a = <<q.id, q.image, q.result.plate>>
    BY <2>1 DEF Say, NewRow
  <2> QED
    BY <2>1, <2>2, <2>3, <2>4, RowStored
<1>4. ASSUME NEW r \in Slots, RecordFails(r)
      PROVE  RequestsAgree'
  <2>1. /\ dtPc[r] \in {"insert", "commit"} /\ dtPc' = [dtPc EXCEPT ![r] = "undo"]
        /\ UNCHANGED <<files, dtReq, said>>
    BY <1>4 DEF RecordFails, DtGo
  <2>2. /\ dtPc' \in [Slots -> DtPlaces] /\ dtReq' \in [Slots -> Upload]
        /\ dtPc'[r] = "undo" /\ dtReq'[r] = dtReq[r] /\ Others(r)
    BY <1>t, <2>1 DEF DtTypeOK, DtPlaces, Others
  <2>3. SlotAgrees(r)'
    BY <2>1, <2>2 DEF RequestsAgree, SlotAgrees, Recording, Confirming
  <2>4. CASE UNCHANGED <<detections, unheard>>
    <3>1. SaidIsStored'
      BY <2>1, <2>4 DEF RequestsAgree, SaidIsStored, Stored
    <3> QED
      BY <2>1, <2>2, <2>3, <2>4, <3>1, LocalStep
  <2>5. CASE /\ dtPc[r] = "commit" /\ unheard' = unheard \cup {dtReq[r].id}
             /\ detections' = [detections EXCEPT ![dtReq[r].id] = NewRow(dtReq[r])]
    <3>1. \A a \in said' :
            a \in said \/ a = <<dtReq[r].id, dtReq[r].image, dtReq[r].result.plate>>
      BY <2>1
    <3> QED
      BY <2>1, <2>2, <2>3, <2>5, <3>1, RowStored
  <2> QED
    BY <1>4, <2>4, <2>5 DEF RecordFails
<1>5. ASSUME NEW r \in Slots, ConfirmDetection(r)
      PROVE  RequestsAgree'
  <2>1. PICK id \in DetectionIds, plate \in PlatesTyped, next \in {"linked", "enter"} :
          /\ Stored(id) /\ dtPc' = [dtPc EXCEPT ![r] = next]
          /\ dtReq' = [dtReq EXCEPT ![r] =
               [NoUpload EXCEPT !.id = id, !.loaded = detections[id], !.typed = plate]]
          /\ UNCHANGED <<detections, files, unheard, said>>
    BY <1>5 DEF ConfirmDetection, DtGo, dtTables
  <2> DEFINE q == [NoUpload EXCEPT !.id = id, !.loaded = detections[id], !.typed = plate]
  <2>2. detections[id] \in Row
    BY <1>t, <2>1 DEF Stored, DtTypeOK
  <2>3. /\ q \in Upload /\ q.key = NoKey /\ q.id = id /\ q.loaded = detections[id]
        /\ q.typed = plate
    BY <2>2 DEF NoUpload, Upload
  <2>4. /\ dtPc' \in [Slots -> DtPlaces] /\ dtReq' \in [Slots -> Upload]
        /\ dtPc'[r] = next /\ dtReq'[r] = q /\ Others(r)
    <3> HIDE DEF q
    <3> QED
      BY <1>t, <2>1, <2>3, OneSlot DEF DtPlaces, q
  <2>5. SlotAgrees(r)' /\ SaidIsStored'
    BY <2>1, <2>2, <2>3, <2>4
      DEF RequestsAgree, SlotAgrees, Recording, Confirming, SaidIsStored, Stored
  <2> QED
    BY <2>1, <2>3, <2>4, <2>5, LocalStep
<1>6. ASSUME NEW r \in Slots, LookUpEntry(r)
      PROVE  RequestsAgree'
  <2>1. dtPc[r] = "linked" /\ UNCHANGED <<detections, files, unheard, said>>
    BY <1>6 DEF LookUpEntry, dtTables
  <2>2. CASE DtDone(r)
    BY <2>1, <2>2, EndsUnstored
  <2>3. CASE dtPc' = [dtPc EXCEPT ![r] = "confirm"] /\ UNCHANGED dtReq
    <3>1. /\ dtPc' \in [Slots -> DtPlaces] /\ dtReq' \in [Slots -> Upload]
          /\ dtPc'[r] = "confirm" /\ dtReq'[r] = dtReq[r] /\ Others(r)
      BY <1>t, <2>3 DEF DtTypeOK, DtPlaces, Others
    <3>2. SlotAgrees(r)' /\ SaidIsStored'
      BY <2>1, <3>1
        DEF RequestsAgree, SlotAgrees, Recording, Confirming, SaidIsStored, Stored
    <3> QED
      BY <2>1, <3>1, <3>2, LocalStep
  <2> QED
    BY <1>6, <2>2, <2>3 DEF LookUpEntry, DtGo
<1>7. ASSUME NEW r \in Slots, StoreConfirmation(r) \/ EnterConfirmed(r)
      PROVE  RequestsAgree'
  BY <1>7, RowConfirmed DEF StoreConfirmation, EnterConfirmed, Confirming
<1>8. ASSUME NEW r \in Slots, NotStored(r) \/ ConfirmationLost(r)
      PROVE  RequestsAgree'
  BY <1>8, EndsUnstored DEF NotStored, ConfirmationLost, dtTables
<1>9. ASSUME UNCHANGED <<detections, files, unheard, dtPc, dtReq, said>>
      PROVE  RequestsAgree'
  BY <1>9 DEF RequestsAgree, DtTypeOK, SlotAgrees, SlotsApart, SaidIsStored, FilesStand, Stored
<1>10. ASSUME ServerDies PROVE RequestsAgree'
  <2>1. /\ dtPc' = [r \in Slots |-> "idle"] /\ dtReq' = [r \in Slots |-> NoUpload]
        /\ UNCHANGED <<detections, files, unheard, said>>
    BY <1>10 DEF ServerDies, dtTables
  <2>2. NoUpload \in Upload /\ NoUpload.key = NoKey
    BY DEF NoUpload, Upload
  <2>3. DtTypeOK' /\ SaidIsStored'
    BY <2>1, <2>2 DEF RequestsAgree, DtTypeOK, DtPlaces, SaidIsStored, Stored
  <2>4. (\A r \in Slots : SlotAgrees(r)') /\ SlotsApart'
    BY <2>1, <2>2 DEF SlotAgrees, SlotsApart, Recording, Confirming
  <2>5. FilesStand'
    <3> SUFFICES ASSUME NEW i \in DetectionIds, detections[i] # NoDetection
                 PROVE  \A s \in Slots : dtReq'[s].key # detections[i].key
      BY <2>1 DEF RequestsAgree, FilesStand, Stored
    <3>1. detections[i].key \in Keys
      BY <1>t, Apart DEF DtTypeOK, Row
    <3> QED
      BY <2>1, <2>2, <3>1, Apart
  <2> QED
    BY <2>3, <2>4, <2>5 DEF RequestsAgree
<1> QED
  BY <1>1, <1>2, <1>3, <1>4, <1>5, <1>6, <1>7, <1>8, <1>9, <1>10, Replayed, FileSaved, FileDeleted
    DEF DtNext, EnterUnconfirmed, dtVars, dtTables

\* Requests that work on detections at the same time never disturb each other's files,
\* and every answer stays true, also when a commit was done but not acknowledged.
THEOREM RequestsAlwaysAgree == DtSpec => []RequestsAgree
<1>1. DtInit => RequestsAgree
  BY FirstStore
<1>2. RequestsAgree /\ [DtNext]_dtVars => RequestsAgree'
  BY StepAgrees
<1> QED
  BY <1>1, <1>2, PTL DEF DtSpec

\* Whatever retries of a capture race, fail or crash, all answers for its id tell of one
\* image and one plate (get_capture and the primary key of the detections).
THEOREM CapturesAnswerOnce == DtSpec => []CaptureAnswersOnce
<1>1. RequestsAgree => CaptureAnswersOnce
  BY DEF RequestsAgree, SaidIsStored, CaptureAnswersOnce
<1> QED
  BY <1>1, RequestsAlwaysAgree, PTL

\* The image of a stored detection is on disk, whatever requests, failures and crashes
\* meet; only a commit of its own row that was done and not acknowledged can have taken
\* it away (delete_image), and nothing ever puts another image in its place.
THEOREM ImagesStay == DtSpec => []ImageOfDetection
<1>1. RequestsAgree => ImageOfDetection
  BY DEF RequestsAgree, FilesStand, ImageOfDetection
<1> QED
  BY <1>1, RequestsAlwaysAgree, PTL

\* The status filters of the history partition the detections that can be stored
\* (get_detection_history).
THEOREM StatusesShareDetections == DtSpec => []InOneStatus
<1>1. ASSUME RequestsAgree PROVE InOneStatus
  <2> SUFFICES ASSUME NEW id \in DetectionIds, Stored(id)
               PROVE  \E status \in Statuses : \A other \in Statuses :
                        HasStatus(detections[id], other) <=> other = status
    BY DEF InOneStatus
  <2> DEFINE row == detections[id]
  <2>1. /\ row.read.plate = NoPlate \/ row.read.plate # NoPlate
        /\ row.review \in BOOLEAN
    BY <1>1 DEF RequestsAgree, DtTypeOK, Row, Stored
  <2>2. CASE row.confirmed = NoPlate /\ row.read.plate = NoPlate
    BY <2>2 DEF Statuses, HasStatus
  <2>3. CASE row.confirmed = NoPlate /\ row.read.plate # NoPlate /\ row.review
    BY <2>3 DEF Statuses, HasStatus
  <2>4. CASE row.confirmed = NoPlate /\ row.read.plate # NoPlate /\ ~row.review
    BY <2>4 DEF Statuses, HasStatus
  <2>5. CASE row.confirmed # NoPlate /\ row.confirmed = row.read.plate
    BY <2>5 DEF Statuses, HasStatus, Corrected, SqlTrue, SqlFalse
  <2>6. CASE row.confirmed # NoPlate /\ row.confirmed # row.read.plate
    BY <2>6 DEF Statuses, HasStatus, Corrected, SqlTrue, SqlFalse
  <2> QED
    BY <2>1, <2>2, <2>3, <2>4, <2>5, <2>6
<1> QED
  BY <1>1, RequestsAlwaysAgree, PTL
-----------------------------------------------------------------------------
(* Induction over the length of a sequence, by the least counterexample.   *)

\* Among the places of I one has the greatest value, the first of several.
LEMMA GreatestAt ==
  ASSUME NEW n \in Nat, NEW I \in SUBSET (1 .. n), I # {}, NEW v, \A i \in I : v[i] \in Nat
  PROVE  \E i \in I : \A j \in I : v[j] < v[i] \/ (v[j] = v[i] /\ i <= j)
<1> DEFINE Upto(m) == {i \in I : i <= m}
           Good(m) == Upto(m) = {} \/ \E i \in Upto(m) : \A j \in Upto(m) :
                        v[j] < v[i] \/ (v[j] = v[i] /\ i <= j)
           bad == {m \in 0 .. n : ~ Good(m)}
<1>0. \A i \in I : i \in Nat /\ 1 <= i /\ i <= n
  OBVIOUS
<1>1. bad = {}
  <2> SUFFICES ASSUME bad # {} PROVE FALSE
    OBVIOUS
  <2>1. bad \subseteq Nat
    OBVIOUS
  <2>2. PICK m \in bad : \A k \in bad : m <= k
    <3> HIDE DEF bad
    <3> QED
      BY <2>1, LeastNat
  <2>3. m \in 0 .. n /\ ~ Good(m)
    OBVIOUS
  <2>4. m # 0
    <3>1. \A i \in I : ~ (i <= 0)
      BY <1>0
    <3>2. Upto(0) = {}
      BY <3>1
    <3> HIDE DEF Upto
    <3> QED
      BY <2>3, <3>2
  <2>5. Good(m - 1)
    <3>1. m - 1 \in 0 .. n /\ ~ (m <= m - 1)
      BY <2>3, <2>4
    <3> HIDE DEF Good
    <3> QED
      BY <2>2, <3>1
  <2>6. CASE m \notin I
    <3>1. Upto(m) = Upto(m - 1)
      <4>1. m \in Nat /\ m # 0
        BY <2>3, <2>4
      <4> HIDE DEF bad, Good
      <4>2. \A i \in I : i <= m <=> i <= m - 1
        BY <1>0, <2>6, <4>1
      <4> QED
        BY <4>2
    <3> HIDE DEF Upto
    <3> QED
      BY <2>3, <2>5, <3>1
  <2>7. CASE m \in I
    <3>1. Upto(m) = Upto(m - 1) \cup {m} /\ \A i \in Upto(m - 1) : i < m /\ i \in I /\ i \in Nat
      <4>1. m \in Nat /\ m # 0
        BY <2>3, <2>4
      <4> HIDE DEF bad, Good
      <4>2. \A i \in I : /\ i <= m <=> (i <= m - 1 \/ i = m)
                         /\ i <= m - 1 => i < m /\ i \in Nat
        BY <1>0, <4>1
      <4>3. Upto(m) = Upto(m - 1) \cup {m}
        BY Zenon, <2>7, <4>2
      <4>4. \A i \in Upto(m - 1) : i < m /\ i \in I /\ i \in Nat
        BY <4>2
      <4> HIDE DEF Upto
      <4> QED
        BY <4>3, <4>4
    <3> HIDE DEF Upto
    <3>2. CASE Upto(m - 1) = {}
      BY <2>3, <3>1, <3>2
    <3>3. CASE Upto(m - 1) # {}
      <4>1. PICK i \in Upto(m - 1) : \A j \in Upto(m - 1) : v[j] < v[i] \/ (v[j] = v[i] /\ i <= j)
        BY <2>5, <3>3
      <4>2. v[i] \in Nat /\ v[m] \in Nat /\ i < m /\ m \in Nat /\ i \in Nat
        BY <2>3, <2>7, <3>1
      <4>3. \A j \in Upto(m - 1) : v[j] \in Nat
        BY <3>1
      <4>4. CASE v[i] < v[m]
        BY <2>3, <3>1, <4>1, <4>2, <4>3, <4>4
      <4>5. CASE ~ (v[i] < v[m])
        BY <2>3, <3>1, <4>1, <4>2, <4>5
      <4> QED
        BY <4>4, <4>5
    <3> QED
      BY <3>2, <3>3
  <2> QED
    BY <2>6, <2>7
<1>2. Good(n)
  <2> HIDE DEF Good
  <2> QED
    BY <1>1
<1>3. Upto(n) = I
  BY <1>0
<1> HIDE DEF Upto
<1> QED
  BY <1>2, <1>3

\* A sum of natural numbers is one.
LEMMA TotalNat ==
  ASSUME NEW f \in Seq(Nat)
  PROVE  Total(f) \in Nat
<1> DEFINE n == Len(f)
           Adds(g, m) == g = [i \in 0 .. m |-> IF i = 0 THEN 0 ELSE g[i - 1] + f[i]]
           Exists(m) == \E g \in [0 .. m -> Nat] : Adds(g, m)
           bad == {m \in 0 .. n : ~ Exists(m)}
           u == CHOOSE g : Adds(g, n)
           wrong == {i \in 0 .. n : u[i] \notin Nat}
<1>1. n \in Nat /\ \A i \in 1 .. n : f[i] \in Nat
  OBVIOUS
<1> HIDE DEF n
<1>2. bad = {}
  <2> SUFFICES ASSUME bad # {} PROVE FALSE
    OBVIOUS
  <2>1. bad \subseteq Nat
    BY <1>1
  <2>2. PICK m \in bad : \A k \in bad : m <= k
    <3> HIDE DEF bad
    <3> QED
      BY <2>1, LeastNat
  <2>3. m \in 0 .. n /\ m \in Nat /\ ~ Exists(m)
    <3> HIDE DEF Exists
    <3> QED
      BY <1>1
  <2>4. m # 0
    <3> DEFINE g == [i \in 0 .. 0 |-> 0]
    <3>1. g \in [0 .. 0 -> Nat] /\ Adds(g, 0)
      OBVIOUS
    <3> HIDE DEF g, Adds
    <3> QED
      BY <2>3, <3>1
  <2>5. Exists(m - 1)
    <3>1. m - 1 \in 0 .. n /\ ~ (m <= m - 1)
      BY <1>1, <2>3, <2>4
    <3> HIDE DEF Exists
    <3> QED
      BY <2>2, <3>1
  <2>6. PICK g \in [0 .. m - 1 -> Nat] : Adds(g, m - 1)
    <3> HIDE DEF Adds
    <3> QED
      BY <2>5
  <2> DEFINE h == [i \in 0 .. m |-> IF i = m THEN g[m - 1] + f[m] ELSE g[i]]
  <2>7. h \in [0 .. m -> Nat]
    BY <1>1, <2>3, <2>4, <2>6
  <2>8. Adds(h, m)
    <3>1. ASSUME NEW i \in 0 .. m PROVE h[i] = IF i = 0 THEN 0 ELSE h[i - 1] + f[i]
      <4>1. CASE i = m
        BY <2>3, <2>4, <4>1
      <4>2. CASE i # m
        <5>1. i \in 0 .. m - 1 /\ (i # 0 => i - 1 \in 0 .. m - 1 /\ i - 1 # m)
          BY <2>3, <4>2
        <5>2. h[i] = g[i] /\ (i # 0 => h[i - 1] = g[i - 1])
          BY <2>3, <4>2, <5>1
        <5>3. g[i] = IF i = 0 THEN 0 ELSE g[i - 1] + f[i]
          BY <2>6, <5>1
        <5> QED
          BY <5>2, <5>3
      <4> QED
        BY <4>1, <4>2
    <3>2. h = [i \in 0 .. m |-> h[i]]
      OBVIOUS
    <3> HIDE DEF h
    <3> QED
      BY <3>1, <3>2
  <2> HIDE DEF h, Adds
  <2> QED
    BY <2>3, <2>7, <2>8
<1>3. Adds(u, n)
  <2>1. n \in 0 .. n
    BY <1>1
  <2>2. \E g : Adds(g, n)
    <3> HIDE DEF Adds
    <3> QED
      BY <1>2, <2>1
  <2> HIDE DEF Adds
  <2> QED
    BY <2>2
<1> HIDE DEF u
<1>4. wrong = {}
  <2> SUFFICES ASSUME wrong # {} PROVE FALSE
    OBVIOUS
  <2>1. wrong \subseteq Nat
    BY <1>1
  <2>2. PICK i \in wrong : \A k \in wrong : i <= k
    <3> HIDE DEF wrong
    <3> QED
      BY <2>1, LeastNat
  <2>3. i \in 0 .. n /\ u[i] \notin Nat
    OBVIOUS
  <2>4. u[i] = IF i = 0 THEN 0 ELSE u[i - 1] + f[i]
    BY <1>3, <2>3
  <2>5. i # 0
    BY <2>3, <2>4
  <2>6. i - 1 \in 0 .. n /\ ~ (i <= i - 1) /\ i \in 1 .. n
    BY <1>1, <2>3, <2>5
  <2>7. u[i - 1] \in Nat
    BY <2>2, <2>6
  <2> QED
    BY <1>1, <2>3, <2>4, <2>5, <2>6, <2>7
<1>5. u[n] \in Nat
  BY <1>1, <1>4
<1> QED
  BY <1>5 DEF Total, u, n
-----------------------------------------------------------------------------
(* Reading one frame (Recognition).                                        *)

\* The first of the most confident elements is there, and none is more confident.
LEMMA TopIsThere ==
  ASSUME NEW S, NEW s \in Seq(S), \A e \in S : e.conf \in Nat,
         NEW places \in SUBSET (DOMAIN s), places # {}
  PROVE  \E i \in places : /\ Top(s, places) = s[i]
                           /\ \A j \in places : s[j].conf <= s[i].conf
<1> DEFINE n == Len(s)
           v == [i \in 1 .. n |-> s[i].conf]
           P(i) == \A j \in places : s[j].conf < s[i].conf \/ (s[j].conf = s[i].conf /\ i <= j)
<1>1. n \in Nat /\ DOMAIN s = 1 .. n /\ \A i \in 1 .. n : s[i].conf \in Nat
  OBVIOUS
<1> HIDE DEF n
<1>2. places \subseteq 1 .. n /\ \A i \in places : v[i] = s[i].conf /\ v[i] \in Nat
  BY <1>1
<1>3. PICK i \in places : \A j \in places : v[j] < v[i] \/ (v[j] = v[i] /\ i <= j)
  <2> HIDE DEF v
  <2> QED
    BY <1>1, <1>2, GreatestAt
<1>4. P(i)
  BY <1>2, <1>3
<1> DEFINE k == CHOOSE x \in places : P(x)
<1>5. k \in places /\ P(k)
  <2> HIDE DEF P
  <2> QED
    BY <1>4
<1>6. Top(s, places) = s[k]
  BY DEF Top
<1> HIDE DEF k
<1>7. \A j \in places : s[j].conf <= s[k].conf
  BY <1>1, <1>2, <1>5
<1> QED
  BY <1>5, <1>6, <1>7

\* What is counted of texts are natural numbers.
LEMMA TextsCount ==
  ASSUME NEW texts \in Seq(Text), texts # << >>
  PROVE  Chars(texts) \in Nat /\ Mean(texts) \in Nat
<1> DEFINE n == Len(texts)
           chars == [i \in DOMAIN texts |-> texts[i].chars]
           confs == [i \in DOMAIN texts |-> texts[i].conf]
<1>1. n \in Nat \ {0} /\ DOMAIN texts = 1 .. n
  OBVIOUS
<1>2. \A i \in 1 .. n : texts[i].chars \in Nat /\ texts[i].conf \in Nat
  <2>1. \A i \in 1 .. n : texts[i] \in Text
    OBVIOUS
  <2>2. \A e \in Text : e.chars \in Nat /\ e.conf \in Nat
    BY DEF Text
  <2> QED
    BY <2>1, <2>2
<1> HIDE DEF n
<1>3. chars \in [1 .. n -> Nat] /\ confs \in [1 .. n -> Nat]
  BY <1>1, <1>2
<1> HIDE DEF chars, confs
<1>4. chars \in Seq(Nat) /\ confs \in Seq(Nat)
  BY <1>1, <1>3
<1>5. Total(chars) \in Nat /\ Total(confs) \in Nat
  BY <1>4, TotalNat
<1>6. Total(confs) \div n \in Nat
  BY <1>1, <1>5
<1> QED
  BY <1>5, <1>6 DEF Chars, Mean, chars, confs, n

\* The most confident candidate is one of them.
LEMMA SurestText ==
  ASSUME NEW texts \in Seq(Text), texts # << >>
  PROVE  Surest(texts) \in Range(texts) /\ Surest(texts) \in Text
<1>1. \A e \in Text : e.conf \in Nat
  BY DEF Text
<1>2. DOMAIN texts # {} /\ \A i \in DOMAIN texts : texts[i] \in Text
  <2>1. \A i \in DOMAIN texts : texts[i] \in Text
    OBVIOUS
  <2>2. DOMAIN texts = 1 .. Len(texts) /\ Len(texts) \in Nat \ {0}
    OBVIOUS
  <2>3. 1 \in DOMAIN texts
    BY <2>2
  <2> QED
    BY <2>1, <2>3
<1>3. PICK i \in DOMAIN texts : Surest(texts) = texts[i]
  BY <1>1, <1>2, TopIsThere DEF Surest
<1> QED
  BY <1>2, <1>3 DEF Range

\* Whatever `recognize` returns is a reading of the crop.
LEMMA RecognizedIsRead ==
  ASSUME NEW x \in Reading
  PROVE  /\ Recognized(x).chars \in Nat /\ Recognized(x).conf \in Nat
         /\ \A least \in Nat : Recognized(x).chars # 0 /\ Recognized(x).conf >= least
              => ReadFrom(x, Recognized(x).chars, least)
<1>1. x.upper \in Seq(Text) /\ x.lower \in Seq(Text) /\ x.whole \in Seq(Text)
  BY DEF Reading
<1> DEFINE t == Surest(x.upper)
           u == Surest(x.lower)
           lines == <<t, u>>
           best == Surest(x.whole)
           alone == [chars |-> best.chars, conf |-> best.conf]
<1>2. CASE x.upper # << >> /\ x.lower # << >> /\ Recognized(x) = Joined(lines)
  <2>1. t \in Range(x.upper) /\ t \in Text /\ u \in Range(x.lower) /\ u \in Text
    BY <1>1, <1>2, SurestText
  <2> HIDE DEF t, u
  <2>2. lines \in Seq(Text) /\ lines # << >>
    BY <2>1
  <2>3. lines \in {<<v, w>> : v \in Range(x.upper), w \in Range(x.lower)}
    BY <2>1
  <2> HIDE DEF lines
  <2>4. Joined(lines).chars = Chars(lines) /\ Joined(lines).conf = Mean(lines)
    BY DEF Joined
  <2> QED
    BY <1>2, <2>2, <2>3, <2>4, TextsCount DEF ReadFrom
<1>3. CASE Recognized(x) = Unread
  BY <1>3 DEF Unread
<1>4. CASE x.whole # << >> /\ Recognized(x) = Joined(x.whole)
  <2>1. Joined(x.whole).chars = Chars(x.whole) /\ Joined(x.whole).conf = Mean(x.whole)
    BY DEF Joined
  <2> QED
    BY <1>1, <1>4, <2>1, TextsCount DEF ReadFrom
<1>5. CASE x.whole # << >> /\ Recognized(x) = alone
  <2>1. best \in Range(x.whole) /\ best \in Text
    BY <1>1, <1>5, SurestText
  <2>2. best.chars \in Nat /\ best.conf \in Nat
    BY <2>1 DEF Text
  <2>3. alone.chars = best.chars /\ alone.conf = best.conf
    OBVIOUS
  <2> HIDE DEF best, alone
  <2> QED
    BY <1>5, <2>1, <2>2, <2>3 DEF ReadFrom
<1> HIDE DEF lines, alone
<1>6. \/ x.upper # << >> /\ x.lower # << >> /\ Recognized(x) = Joined(lines)
      \/ Recognized(x) = Unread
      \/ x.whole # << >> /\ (Recognized(x) = Joined(x.whole) \/ Recognized(x) = alone)
  <2> DEFINE two == x.square /\ x.upper # << >> /\ x.lower # << >> /\ PlateLike(Chars(lines))
             all == Len(x.whole) > 1 /\ PlateLike(Chars(x.whole))
  <2>1. Recognized(x) = IF two THEN Joined(lines)
                        ELSE IF x.whole = << >> THEN Unread
                        ELSE IF all THEN Joined(x.whole) ELSE alone
    BY DEF Recognized, lines, alone, t, u, best
  <2>2. two => x.upper # << >> /\ x.lower # << >>
    OBVIOUS
  <2> HIDE DEF two, all
  <2> QED
    BY <2>1, <2>2
<1> QED
  BY <1>2, <1>3, <1>4, <1>5, <1>6

\* The plate a frame is answered with is the most confident one of the frame.
LEMMA TopPlate ==
  ASSUME NEW boxes \in Boxes, PlateBoxes(boxes) # {}
  PROVE  LET plate == Top(boxes, PlateBoxes(boxes))
         IN /\ plate \in Range(boxes) /\ plate \in Box /\ plate.label = "PLATE"
            /\ \A b \in Range(boxes) : b.label = "PLATE" => b.conf <= plate.conf
<1>1. boxes \in Seq(Box) /\ ClassThreshold["PLATE"] \in Nat
  BY RecognitionAssumption DEF RecognitionAssumption, Labels
<1>2. \A e \in Box : e.conf \in Nat
  BY DEF Box
<1>3. PlateBoxes(boxes) \subseteq DOMAIN boxes
  BY DEF PlateBoxes
<1>4. PICK i \in PlateBoxes(boxes) :
        /\ Top(boxes, PlateBoxes(boxes)) = boxes[i]
        /\ \A j \in PlateBoxes(boxes) : boxes[j].conf <= boxes[i].conf
  BY <1>1, <1>2, <1>3, TopIsThere
<1>5. i \in DOMAIN boxes /\ boxes[i].label = "PLATE" /\ boxes[i].conf >= ClassThreshold["PLATE"]
  BY DEF PlateBoxes
<1>6. \A j \in DOMAIN boxes : boxes[j] \in Box /\ boxes[j].conf \in Nat
  BY <1>1, <1>2
<1>7. ASSUME NEW j \in DOMAIN boxes, boxes[j].label = "PLATE"
      PROVE  boxes[j].conf <= boxes[i].conf
  <2>1. CASE boxes[j].conf >= ClassThreshold["PLATE"]
    BY <1>4, <1>7, <2>1 DEF PlateBoxes
  <2>2. CASE ~ (boxes[j].conf >= ClassThreshold["PLATE"])
    BY <1>1, <1>5, <1>6, <2>2
  <2> QED
    BY <2>1, <2>2
<1> QED
  BY <1>4, <1>5, <1>6, <1>7 DEF Range

\* The vehicle a plate is associated with has one of the labels.
LEMMA AssociatedIsLabel ==
  ASSUME NEW boxes \in Boxes
  PROVE  Associated(boxes) \subseteq Labels
<1>1. \A i \in DOMAIN boxes : boxes[i] \in Box
  BY RecognitionAssumption DEF RecognitionAssumption
<1>2. {boxes[i] : i \in VehicleBoxes(boxes)} \subseteq Box
  BY <1>1 DEF VehicleBoxes
<1>3. "UNKNOWN" \in Labels /\ \A b \in Box : b.label \in Labels
  BY DEF Labels, Box
<1> QED
  BY <1>2, <1>3 DEF Associated

Findings == [box : Box \cup {NoBox}, vehicle : Labels, chars : Nat, conf : Nat,
             flags : BOOLEAN, review : BOOLEAN]

\* The answer for a plate: well typed, and read if it needs no review.
LEMMA PlateAnswer ==
  ASSUME NEW boxes \in Boxes, PlateBoxes(boxes) # {}, NEW x \in Readings, NEW label \in Labels,
         NEW plate, plate = Top(boxes, PlateBoxes(boxes)), plate.fits,
         NEW there \in BOOLEAN, there => OcrEnabled /\ plate.clear,
         NEW read, read = IF there THEN Recognized(x) ELSE Unread,
         NEW conf, conf = IF ~ OcrEnabled THEN plate.conf
                          ELSE IF read.chars = 0 THEN 0 ELSE Least(plate.conf, read.conf),
         NEW kept, kept = IF read = Unread THEN NoReading ELSE x,
         NEW a, a = Reviewed(Finding(plate, label, read.chars, conf, OcrEnabled /\ ~ plate.clear))
  PROVE  a \in Findings /\ (~ a.review => WasRead(boxes, kept, a))
<1>1. /\ plate \in Range(boxes) /\ plate \in Box /\ plate.label = "PLATE"
      /\ \A b \in Range(boxes) : b.label = "PLATE" => b.conf <= plate.conf
  BY TopPlate
<1>2. plate.conf \in Nat /\ plate.clear \in BOOLEAN /\ plate # NoBox
  BY <1>1, RecognitionAssumption DEF Box, RecognitionAssumption
<1>3. x \in Reading /\ x # NoReading /\ OcrEnabled \in BOOLEAN
      /\ ReviewThreshold \in Nat \cup {NoThreshold} /\ NoThreshold \notin Nat
  BY RecognitionAssumption DEF RecognitionAssumption
<1>4. /\ Recognized(x).chars \in Nat /\ Recognized(x).conf \in Nat
      /\ \A least \in Nat : Recognized(x).chars # 0 /\ Recognized(x).conf >= least
           => ReadFrom(x, Recognized(x).chars, least)
  BY <1>3, RecognizedIsRead
<1>5. Unread.chars = 0 /\ Unread.conf = 0
  BY DEF Unread
<1>6. read.chars \in Nat /\ read.conf \in Nat
  BY <1>4, <1>5
<1>7. conf \in Nat
  BY <1>2, <1>6 DEF Least
<1> DEFINE f == Finding(plate, label, read.chars, conf, OcrEnabled /\ ~ plate.clear)
<1>8. /\ a.box = plate /\ a.vehicle = label /\ a.chars = read.chars /\ a.conf = conf
      /\ a.flags = (OcrEnabled /\ ~ plate.clear)
      /\ a.review = NeedsReview(f)
  BY DEF Reviewed, Finding
<1>9. f.box = plate /\ f.chars = read.chars /\ f.conf = conf /\ f.flags = (OcrEnabled /\ ~ plate.clear)
  BY DEF Finding
<1>10. NeedsReview(f) <=> \/ ReviewThreshold = NoThreshold \/ conf < ReviewThreshold
                          \/ read.chars \notin 3 .. 50 \/ (OcrEnabled /\ ~ plate.clear)
  BY <1>2, <1>9 DEF NeedsReview
<1>11. a \in Findings
  <2>1. a = [box |-> plate, vehicle |-> label, chars |-> read.chars, conf |-> conf,
             flags |-> (OcrEnabled /\ ~ plate.clear), review |-> NeedsReview(f)]
    BY DEF Reviewed, Finding
  <2>2. (NeedsReview(f) = TRUE \/ NeedsReview(f) = FALSE) /\ (OcrEnabled /\ ~ plate.clear) \in BOOLEAN
    BY DEF NeedsReview
  <2> HIDE DEF f
  <2>3. NeedsReview(f) \in BOOLEAN
    BY <2>2
  <2>4. plate \in Box \cup {NoBox}
    BY <1>1
  <2> DEFINE flags == OcrEnabled /\ ~ plate.clear
             review == NeedsReview(f)
  <2>5. flags \in BOOLEAN /\ review \in BOOLEAN
    BY <2>2, <2>3
  <2>6. a = [box |-> plate, vehicle |-> label, chars |-> read.chars, conf |-> conf,
             flags |-> flags, review |-> review]
    BY <2>1
  <2> HIDE DEF flags, review
  <2>7. read.chars \in Nat
    BY <1>6
  <2> QED
    BY <1>7, <2>4, <2>5, <2>6, <2>7 DEF Findings
<1>12. ASSUME ~ a.review PROVE WasRead(boxes, kept, a)
  <2> HIDE DEF f
  <2>1. /\ ReviewThreshold \in Nat /\ conf >= ReviewThreshold /\ read.chars \in 3 .. 50
        /\ ~ (OcrEnabled /\ ~ plate.clear)
    BY <1>3, <1>7, <1>8, <1>10, <1>12
  <2>2. there /\ read = Recognized(x) /\ read # Unread /\ OcrEnabled /\ plate.clear
    BY <1>5, <2>1
  <2>3. conf = Least(plate.conf, read.conf)
    BY <2>1, <2>2
  <2>4. plate.conf >= ReviewThreshold /\ read.conf >= ReviewThreshold
    BY <1>2, <1>6, <2>1, <2>3 DEF Least
  <2>5. kept = x
    BY <2>2
  <2>6. ReadFrom(x, a.chars, ReviewThreshold)
    BY <1>4, <1>8, <2>1, <2>2, <2>4
  <2> QED
    BY <1>1, <1>3, <1>8, <2>2, <2>4, <2>5, <2>6 DEF WasRead
<1> QED
  BY <1>11, <1>12

\* An answer without a plate goes to review.
LEMMA NoPlateAnswer ==
  ASSUME NEW label \in Labels, NEW conf \in Nat, NEW flags \in BOOLEAN,
         NEW a, a = Reviewed(Finding(NoBox, label, 0, conf, flags))
  PROVE  a \in Findings /\ a.review = TRUE
<1> DEFINE f == Finding(NoBox, label, 0, conf, flags)
           review == NeedsReview(f)
<1>1. review = TRUE
  BY DEF NeedsReview, Finding
<1>2. a = [box |-> NoBox, vehicle |-> label, chars |-> 0, conf |-> conf, flags |-> flags,
           review |-> review]
  BY DEF Reviewed, Finding
<1>3. a.review = NeedsReview(f)
  BY DEF Reviewed, Finding
<1>4. a.review = TRUE
  BY <1>1, <1>3
<1> HIDE DEF review
<1>5. NoBox \in Box \cup {NoBox} /\ review \in BOOLEAN
  BY <1>1
<1>6. a \in Findings
  BY <1>2, <1>5 DEF Findings
<1> QED
  BY <1>4, <1>6

LEMMA NoAnswerTyped == NoAnswer \in Findings
<1>1. "UNKNOWN" \in Labels
  BY DEF Labels
<1> DEFINE no == FALSE
           yes == TRUE
<1>2. no \in BOOLEAN /\ yes \in BOOLEAN
  OBVIOUS
<1>3. NoAnswer = [box |-> NoBox, vehicle |-> "UNKNOWN", chars |-> 0, conf |-> 0,
                  flags |-> no, review |-> yes]
  BY DEF NoAnswer
<1> HIDE DEF no, yes
<1> QED
  BY <1>1, <1>2, <1>3 DEF Findings

ModelTypes ==
  /\ detector \in {"none", "loaded"} /\ ocr \in {"none", "created", "ready"}
  /\ loadError \in BOOLEAN /\ started \in BOOLEAN /\ busy \in Slots \cup {NoSlot}

FrameTypes ==
  /\ rcPc \in [Slots -> RcPlaces] /\ scene \in [Slots -> Boxes \cup {NoScene}]
  /\ reading \in [Slots -> Readings \cup {NoReading}] /\ answer \in [Slots -> Findings]

\* A frame under the lock shows what the detector has reported.
Detected == \A r \in Slots : rcPc[r] = "read" => scene[r] \in Boxes

FramesAgree == FrameTypes /\ Detected /\ UnreviewedPlateWasRead

\* A slot goes on without touching its frame.
LEMMA GoesOn ==
  ASSUME FramesAgree, NEW r \in Slots, NEW place \in RcPlaces \ {"read", "answered"},
         RcGo(r, place), UNCHANGED rcLocal
  PROVE  FramesAgree'
<1> USE DEF FramesAgree, FrameTypes, RcGo, rcLocal
<1>1. FrameTypes'
  OBVIOUS
<1>2. Detected'
  BY DEF Detected
<1>3. UnreviewedPlateWasRead'
  BY DEF UnreviewedPlateWasRead
<1> QED
  BY <1>1, <1>2, <1>3

\* A slot is free again.
LEMMA IsFree ==
  ASSUME FramesAgree, NEW r \in Slots, LeaveRecognition(r)
  PROVE  FramesAgree'
<1> USE DEF FramesAgree, FrameTypes, LeaveRecognition
<1>1. NoAnswer \in Findings
  BY NoAnswerTyped
<1>2. FrameTypes'
  BY <1>1 DEF RcPlaces
<1>3. Detected'
  BY DEF Detected
<1>4. UnreviewedPlateWasRead'
  BY DEF UnreviewedPlateWasRead
<1> QED
  BY <1>2, <1>3, <1>4

\* A slot answers what was read, or what goes to review.
LEMMA Answers ==
  ASSUME FramesAgree, NEW r \in Slots, NEW a \in Findings, NEW kept \in Readings \cup {NoReading},
         RcGo(r, "answered"), scene' = scene,
         reading' = [reading EXCEPT ![r] = kept], answer' = [answer EXCEPT ![r] = a],
         a.review \/ WasRead(scene[r], kept, a)
  PROVE  FramesAgree'
<1> USE DEF FramesAgree, FrameTypes, RcGo
<1>1. FrameTypes'
  BY DEF RcPlaces
<1>2. Detected'
  BY DEF Detected
<1>3. ASSUME NEW q \in Slots, rcPc'[q] = "answered", ~ answer'[q].review
      PROVE  WasRead(scene'[q], reading'[q], answer'[q])
  <2>1. CASE q = r
    <3>1. reading'[q] = kept /\ answer'[q] = a /\ scene'[q] = scene[r]
      BY <2>1
    <3> QED
      BY <1>3, <3>1
  <2>2. CASE q # r
    <3>1. reading'[q] = reading[q] /\ answer'[q] = answer[q] /\ rcPc[q] = "answered"
      BY <1>3, <2>2
    <3> QED
      BY <1>3, <3>1 DEF UnreviewedPlateWasRead
  <2> QED
    BY <2>1, <2>2
<1> QED
  BY <1>1, <1>2, <1>3 DEF UnreviewedPlateWasRead

RcInvariant == ModelTypes /\ FramesAgree

\* Reading the best plate of the frame.
LEMMA ReadPlateKeeps ==
  ASSUME RcInvariant, NEW r \in Slots, ReadPlate(r)
  PROVE  RcInvariant'
<1> DEFINE boxes == scene[r]
           plate == Top(boxes, PlateBoxes(boxes))
           there == OcrEnabled /\ plate.clear /\ ocr # "none"
           read(x) == IF there THEN Recognized(x) ELSE Unread
           conf(x) == IF ~ OcrEnabled THEN plate.conf
                      ELSE IF read(x).chars = 0 THEN 0 ELSE Least(plate.conf, read(x).conf)
           kept(x) == IF read(x) = Unread THEN NoReading ELSE x
           f(x, label) == Finding(plate, label, read(x).chars, conf(x), OcrEnabled /\ ~ plate.clear)
<1>1. rcPc[r] = "read" /\ PlateBoxes(boxes) # {} /\ plate.fits
  BY DEF ReadPlate
<1>2. PICK x \in Readings, label \in Associated(boxes) :
        /\ reading' = [reading EXCEPT ![r] = kept(x)]
        /\ Answer(r, f(x, label))
  BY DEF ReadPlate
<1>3. /\ ocr' = IF OcrEnabled /\ plate.clear /\ ocr = "created" THEN "ready" ELSE ocr
      /\ UNCHANGED <<detector, loadError, started>>
  BY DEF ReadPlate
<1>4. boxes \in Boxes
  BY <1>1 DEF RcInvariant, FramesAgree, Detected
<1>5. label \in Labels
  BY <1>2, <1>4, AssociatedIsLabel
<1> DEFINE a == Reviewed(f(x, label))
<1>6. a \in Findings /\ (~ a.review => WasRead(boxes, kept(x), a))
  <2>1. there \in BOOLEAN /\ (there => OcrEnabled /\ plate.clear)
    OBVIOUS
  <2>2. PICK aBoxes, aPlate, aThere, aRead, aConf, aKept, anA :
          /\ aBoxes = boxes /\ aPlate = plate /\ aThere = there /\ aRead = read(x)
          /\ aConf = conf(x) /\ aKept = kept(x) /\ anA = a
    OBVIOUS
  <2>3. /\ aBoxes \in Boxes /\ PlateBoxes(aBoxes) # {} /\ aPlate = Top(aBoxes, PlateBoxes(aBoxes))
        /\ aPlate.fits /\ aThere \in BOOLEAN /\ (aThere => OcrEnabled /\ aPlate.clear)
    BY Zenon, <1>1, <1>4, <2>1, <2>2
  <2>4. aRead = IF aThere THEN Recognized(x) ELSE Unread
    BY Zenon, <2>2
  <2>5. aConf = IF ~ OcrEnabled THEN aPlate.conf
                ELSE IF aRead.chars = 0 THEN 0 ELSE Least(aPlate.conf, aRead.conf)
    BY Zenon, <2>2
  <2>6. aKept = IF aRead = Unread THEN NoReading ELSE x
    BY Zenon, <2>2
  <2>7. anA = Reviewed(Finding(aPlate, label, aRead.chars, aConf, OcrEnabled /\ ~ aPlate.clear))
    BY Zenon, <2>2
  <2> HIDE DEF boxes, plate, there, read, conf, kept, a
  <2>8. anA \in Findings /\ (~ anA.review => WasRead(aBoxes, aKept, anA))
    BY <1>5, <2>3, <2>4, <2>5, <2>6, <2>7, PlateAnswer
  <2> QED
    BY Zenon, <2>2, <2>8
<1>7. kept(x) \in Readings \cup {NoReading}
  OBVIOUS
<1>8. RcGo(r, "answered") /\ scene' = scene /\ answer' = [answer EXCEPT ![r] = a] /\ busy' = NoSlot
  BY <1>2 DEF Answer
<1> DEFINE theKept == kept(x)
<1>9. reading' = [reading EXCEPT ![r] = theKept] /\ theKept \in Readings \cup {NoReading}
      /\ (a.review \/ WasRead(scene[r], theKept, a))
  BY <1>2, <1>6, <1>7
<1> HIDE DEF theKept, a
<1>10. FramesAgree'
  BY <1>6, <1>8, <1>9, Answers DEF RcInvariant
<1>11. ModelTypes'
  BY <1>3, <1>8 DEF RcInvariant, ModelTypes
<1> QED
  BY <1>10, <1>11 DEF RcInvariant

\* Reading a frame without a plate.
LEMMA ReadNothingKeeps ==
  ASSUME RcInvariant, NEW r \in Slots, ReadNothing(r)
  PROVE  RcInvariant'
<1> DEFINE boxes == scene[r]
           places == VehicleBoxes(boxes)
           vehicle == Top(boxes, places)
<1>1. rcPc[r] = "read" /\ UNCHANGED <<rcModels, reading>>
  BY DEF ReadNothing
<1>2. boxes \in Boxes /\ boxes \in Seq(Box)
  BY <1>1, RecognitionAssumption
    DEF RcInvariant, FramesAgree, Detected, RecognitionAssumption
<1>3. \/ /\ places # {}
         /\ Answer(r, Finding(NoBox, vehicle.label, 0,
              IF vehicle.label = "BICYCLE" THEN vehicle.conf ELSE 0, FALSE))
      \/ \E label \in Associated(boxes) : Answer(r, Finding(NoBox, label, 0, 0, FALSE))
  BY DEF ReadNothing
<1>4. ASSUME places # {} PROVE vehicle.label \in Labels /\ vehicle.conf \in Nat
  <2>1. \A e \in Box : e.conf \in Nat /\ e.label \in Labels
    BY DEF Box, Labels
  <2>2. places \in SUBSET (DOMAIN boxes)
    BY DEF VehicleBoxes
  <2>3. PICK i \in places : vehicle = boxes[i]
    <3> HIDE DEF boxes, places
    <3> QED
      BY <1>2, <1>4, <2>1, <2>2, TopIsThere
  <2> QED
    BY <1>2, <2>1, <2>2, <2>3
<1> HIDE DEF places, vehicle
<1>5. PICK label \in Labels, conf \in Nat : Answer(r, Finding(NoBox, label, 0, conf, FALSE))
  <2>1. CASE places # {} /\ Answer(r, Finding(NoBox, vehicle.label, 0,
               IF vehicle.label = "BICYCLE" THEN vehicle.conf ELSE 0, FALSE))
    <3> DEFINE conf == IF vehicle.label = "BICYCLE" THEN vehicle.conf ELSE 0
    <3>1. vehicle.label \in Labels /\ conf \in Nat
      BY <1>4, <2>1
    <3>2. Answer(r, Finding(NoBox, vehicle.label, 0, conf, FALSE))
      BY <2>1
    <3> HIDE DEF conf
    <3> QED
      BY Zenon, <3>1, <3>2
  <2>2. CASE \E label \in Associated(boxes) : Answer(r, Finding(NoBox, label, 0, 0, FALSE))
    <3>1. Associated(boxes) \subseteq Labels
      BY <1>2, AssociatedIsLabel
    <3>2. 0 \in Nat
      OBVIOUS
    <3> QED
      BY Zenon, <2>2, <3>1, <3>2
  <2> QED
    BY <1>3, <2>1, <2>2
<1> DEFINE a == Reviewed(Finding(NoBox, label, 0, conf, FALSE))
           kept == reading[r]
<1>6. a \in Findings /\ a.review = TRUE
  BY NoPlateAnswer
<1>7. RcGo(r, "answered") /\ scene' = scene /\ answer' = [answer EXCEPT ![r] = a] /\ busy' = NoSlot
  BY <1>5 DEF Answer
<1>8. reading' = [reading EXCEPT ![r] = kept] /\ kept \in Readings \cup {NoReading}
  BY <1>1 DEF RcInvariant, FramesAgree, FrameTypes
<1> HIDE DEF a, kept
<1>9. FramesAgree'
  BY <1>6, <1>7, <1>8, Answers DEF RcInvariant
<1>10. ModelTypes'
  BY <1>1, <1>7 DEF RcInvariant, ModelTypes, rcModels
<1> QED
  BY <1>9, <1>10 DEF RcInvariant

LEMMA RcInitAgrees == RcInit => RcInvariant
<1> SUFFICES ASSUME RcInit PROVE RcInvariant
  OBVIOUS
<1> USE DEF RcInit
<1>1. ModelTypes
  BY DEF ModelTypes
<1>2. NoAnswer \in Findings
  BY NoAnswerTyped
<1>3. FrameTypes
  BY <1>2 DEF FrameTypes, RcPlaces
<1>4. Detected /\ UnreviewedPlateWasRead
  BY DEF Detected, UnreviewedPlateWasRead
<1> QED
  BY <1>1, <1>3, <1>4 DEF RcInvariant, FramesAgree

LEMMA RcStepAgrees ==
  ASSUME RcInvariant, RcNext
  PROVE  RcInvariant'
<1>1. PICK r \in Slots :
        \/ EnsureLoaded(r) \/ LoadDetector(r) \/ CreateOcr(r) \/ LoadOcr(r) \/ LoadFails(r)
        \/ LoadFailed(r) \/ Probed(r) \/ WarmedUp(r) \/ Detect(r) \/ ReadNothing(r) \/ ReadPlate(r)
        \/ InferenceFails(r) \/ Answered(r)
  BY DEF RcNext
<1> USE DEF RcInvariant
<1>2. CASE EnsureLoaded(r)
  <2>1. PICK place \in {"infer", "idle", "load"} : RcGo(r, place)
    BY <1>2 DEF EnsureLoaded
  <2>2. place \in RcPlaces \ {"read", "answered"}
    BY DEF RcPlaces
  <2>3. UNCHANGED <<rcModels, busy, rcLocal>>
    BY <1>2 DEF EnsureLoaded
  <2>4. FramesAgree'
    BY <2>1, <2>2, <2>3, GoesOn
  <2> QED
    BY <2>3, <2>4 DEF ModelTypes, rcModels
<1>3. CASE LoadDetector(r)
  <2>1. PICK place \in {"infer", "ocr"} : RcGo(r, place)
    BY <1>3 DEF LoadDetector
  <2>2. place \in RcPlaces \ {"read", "answered"} /\ UNCHANGED rcLocal
    BY <1>3 DEF RcPlaces, LoadDetector
  <2>3. FramesAgree'
    BY <2>1, <2>2, GoesOn
  <2> QED
    BY <1>3, <2>3 DEF ModelTypes, LoadDetector
<1>4. CASE CreateOcr(r)
  <2>1. RcGo(r, "ocrload") /\ "ocrload" \in RcPlaces \ {"read", "answered"} /\ UNCHANGED rcLocal
    BY <1>4 DEF RcPlaces, CreateOcr
  <2>2. FramesAgree'
    BY <2>1, GoesOn
  <2> QED
    BY <1>4, <2>2 DEF ModelTypes, CreateOcr
<1>5. CASE LoadOcr(r)
  <2>1. RcGo(r, "infer") /\ "infer" \in RcPlaces \ {"read", "answered"} /\ UNCHANGED rcLocal
    BY <1>5 DEF RcPlaces, LoadOcr
  <2>2. FramesAgree'
    BY <2>1, GoesOn
  <2> QED
    BY <1>5, <2>2 DEF ModelTypes, LoadOcr
<1>6. CASE LoadFails(r)
  <2>1. RcGo(r, "failed") /\ "failed" \in RcPlaces \ {"read", "answered"} /\ UNCHANGED rcLocal
    BY <1>6 DEF RcPlaces, LoadFails
  <2>2. FramesAgree'
    BY <2>1, GoesOn
  <2> QED
    BY <1>6, <2>2 DEF ModelTypes, LoadFails
<1>7. CASE LoadFailed(r)
  BY <1>7, IsFree DEF LoadFailed, ModelTypes
<1>8. CASE Probed(r)
  BY <1>8, IsFree DEF Probed, NotReady, ModelTypes, rcModels
<1>9. CASE WarmedUp(r)
  BY <1>9, IsFree DEF WarmedUp, ModelTypes
<1>10. CASE Detect(r)
  <2>1. CASE detector = "none"
    BY <1>10, <2>1, IsFree DEF Detect, NotReady, ModelTypes, rcModels
  <2>2. CASE detector # "none"
    <3>1. PICK boxes \in Boxes : scene' = [scene EXCEPT ![r] = boxes]
      BY <1>10, <2>2 DEF Detect
    <3>2. /\ busy' = r /\ RcGo(r, "read") /\ UNCHANGED <<rcModels, reading, answer>>
      BY <1>10, <2>2 DEF Detect
    <3>3. FrameTypes'
      BY <3>1, <3>2 DEF FramesAgree, FrameTypes, RcGo, RcPlaces
    <3>4. Detected'
      BY <3>1, <3>2 DEF FramesAgree, FrameTypes, RcGo, Detected
    <3>5. UnreviewedPlateWasRead'
      BY <3>1, <3>2 DEF FramesAgree, FrameTypes, RcGo, UnreviewedPlateWasRead
    <3>6. ModelTypes'
      BY <3>2 DEF ModelTypes, rcModels
    <3> QED
      BY <3>3, <3>4, <3>5, <3>6 DEF FramesAgree
  <2> QED
    BY <2>1, <2>2
<1>11. CASE ReadNothing(r)
  BY <1>11, ReadNothingKeeps
<1>12. CASE ReadPlate(r)
  BY <1>12, ReadPlateKeeps
<1>13. CASE InferenceFails(r)
  BY <1>13, IsFree DEF InferenceFails, ModelTypes, rcModels
<1>14. CASE Answered(r)
  BY <1>14, IsFree DEF Answered, NotReady, ModelTypes, rcModels
<1> QED
  BY <1>1, <1>2, <1>3, <1>4, <1>5, <1>6, <1>7, <1>8, <1>9, <1>10, <1>11, <1>12, <1>13, <1>14

\* For any number of requests, any models, any lot settings and whatever the networks find:
\* an answer that needs no review was read in the most confident plate of its frame, with
\* detector and OCR as sure as the lot demands (detect_and_read, apply_plate_review_policy).
THEOREM UnreviewedPlatesAreRead == RcSpec => [](ModelTypes /\ FrameTypes /\ UnreviewedPlateWasRead)
<1>1. ASSUME RcInvariant, [RcNext]_rcVars PROVE RcInvariant'
  <2>1. CASE RcNext
    BY <1>1, <2>1, RcStepAgrees
  <2>2. CASE UNCHANGED rcVars
    BY <1>1, <2>2 DEF rcVars, rcModels, rcLocal, RcInvariant, ModelTypes, FramesAgree, FrameTypes,
      Detected, UnreviewedPlateWasRead
  <2> QED
    BY <1>1, <2>1, <2>2
<1>2. RcInvariant => ModelTypes /\ FrameTypes /\ UnreviewedPlateWasRead
  BY DEF RcInvariant, FramesAgree
<1> QED
  BY RcInitAgrees, <1>1, <1>2, PTL DEF RcSpec
-----------------------------------------------------------------------------
(* The voter (FrameFilters).                                               *)

Reads == [plate : Plates, conf : Confidences]

\* How often a plate was read is a natural number.
LEMMA FrequencyNat ==
  ASSUME NEW w \in Seq(Reads), NEW p
  PROVE  Frequency(w, p) \in Nat
<1> DEFINE n == Len(w)
           places == {i \in DOMAIN w : w[i].plate = p}
<1>1. n \in Int /\ 1 \in Int /\ DOMAIN w = 1 .. n
  OBVIOUS
<1>2. IsFiniteSet(1 .. n)
  BY <1>1, FS_Interval
<1>3. places \subseteq 1 .. n
  BY <1>1
<1>4. IsFiniteSet(places)
  BY <1>2, <1>3, FS_Subset
<1>5. Cardinality(places) \in Nat
  BY <1>4, FS_CardinalityType
<1> QED
  BY <1>5 DEF Frequency

\* The place a plate was first read at, and the confidence of its best reading.
LEMMA FirstAndBest ==
  ASSUME NEW w \in Seq(Reads), NEW p \in PlatesSeen(w)
  PROVE  /\ FirstOf(w, p) \in DOMAIN w /\ w[FirstOf(w, p)].plate = p
         /\ BestOf(w, p) \in Nat
         /\ \E i \in DOMAIN w : w[i].plate = p /\ w[i].conf = BestOf(w, p)
<1> DEFINE n == Len(w)
           v == [i \in 1 .. n |-> w[i].conf]
           places == {i \in DOMAIN w : w[i].plate = p}
           best == {w[i].conf : i \in places}
<1>1. n \in Nat /\ DOMAIN w = 1 .. n
  OBVIOUS
<1>2. \A i \in 1 .. n : w[i].conf \in Nat
  <2>1. \A e \in Reads : e.conf \in Nat
    BY FrameAssumption DEF FrameAssumption, Reads
  <2> QED
    BY <1>1, <2>1
<1>3. places # {} /\ places \subseteq 1 .. n /\ places \subseteq Nat
  BY <1>1 DEF PlatesSeen
<1>4. PICK first \in places : \A i \in places : first <= i
  <2> HIDE DEF places
  <2> QED
    BY <1>3, LeastNat
<1>5. FirstOf(w, p) \in places
  BY <1>4 DEF FirstOf, Min
<1>6. PICK i \in places : \A j \in places : v[j] < v[i] \/ (v[j] = v[i] /\ i <= j)
  <2>1. \A i \in places : v[i] \in Nat
    BY <1>2, <1>3
  <2> HIDE DEF places, v, n
  <2> QED
    BY <1>1, <1>3, <2>1, GreatestAt
<1>7. w[i].conf \in best /\ \A c \in best : w[i].conf >= c
  <2>1. ASSUME NEW j \in places PROVE w[i].conf >= w[j].conf
    <3>1. v[j] = w[j].conf /\ v[i] = w[i].conf /\ w[j].conf \in Nat /\ w[i].conf \in Nat
      BY <1>2, <1>3
    <3> HIDE DEF places, v
    <3> QED
      BY <1>6, <3>1
  <2> HIDE DEF places
  <2> QED
    BY <2>1
<1>8. BestOf(w, p) = Max(best)
  BY DEF BestOf
<1>9. BestOf(w, p) \in best
  <2> HIDE DEF best
  <2> QED
    BY <1>7, <1>8 DEF Max
<1>10. PICK k \in places : BestOf(w, p) = w[k].conf
  BY <1>9
<1> QED
  BY <1>2, <1>3, <1>5, <1>10

\* Where a plate was read, there is one to vote for: none was read more often.
LEMMA WinnerLeads ==
  ASSUME NEW w \in Seq(Reads), w # << >>
  PROVE  Winner(w) \in Leading(w)
<1> DEFINE n == Len(w)
           u == [i \in 1 .. n |-> Frequency(w, w[i].plate)]
           v == [i \in 1 .. n |-> BestOf(w, w[i].plate)]
           firsts == {FirstOf(w, p) : p \in Leading(w)}
           Wins(p) == \A q \in Leading(w) :
             BestOf(w, q) < BestOf(w, p)
             \/ (BestOf(w, q) = BestOf(w, p) /\ FirstOf(w, p) <= FirstOf(w, q))
<1>1. n \in Nat /\ DOMAIN w = 1 .. n /\ 1 \in 1 .. n
  OBVIOUS
<1> HIDE DEF n
<1>2. PICK i \in 1 .. n : \A j \in 1 .. n : u[j] < u[i] \/ (u[j] = u[i] /\ i <= j)
  <2>1. \A i \in 1 .. n : u[i] \in Nat
    BY FrequencyNat
  <2> HIDE DEF u
  <2> QED
    BY <1>1, <2>1, GreatestAt
<1>3. w[i].plate \in Leading(w)
  <2>1. w[i].plate \in PlatesSeen(w)
    BY <1>1 DEF PlatesSeen
  <2>2. ASSUME NEW q \in PlatesSeen(w) PROVE Frequency(w, q) <= Frequency(w, w[i].plate)
    <3>1. PICK j \in 1 .. n : w[j].plate = q
      BY <1>1 DEF PlatesSeen
    <3>2. u[j] = Frequency(w, q) /\ u[i] = Frequency(w, w[i].plate)
      BY <3>1
    <3>3. u[j] \in Nat /\ u[i] \in Nat
      BY <3>2, FrequencyNat
    <3> HIDE DEF u
    <3> QED
      BY <1>2, <3>2, <3>3
  <2> QED
    BY <2>1, <2>2 DEF Leading
<1>4. \A p \in Leading(w) : p \in PlatesSeen(w)
  BY DEF Leading
<1>5. ASSUME NEW p \in Leading(w)
      PROVE  /\ FirstOf(w, p) \in 1 .. n /\ w[FirstOf(w, p)].plate = p
             /\ BestOf(w, p) \in Nat /\ v[FirstOf(w, p)] = BestOf(w, p)
  BY <1>1, <1>4, FirstAndBest
<1> HIDE DEF v
<1>6. firsts # {} /\ firsts \in SUBSET (1 .. n) /\ \A k \in firsts : v[k] \in Nat
  BY <1>3, <1>5
<1>7. PICK k \in firsts : \A j \in firsts : v[j] < v[k] \/ (v[j] = v[k] /\ k <= j)
  <2> HIDE DEF firsts
  <2> QED
    BY <1>1, <1>6, GreatestAt
<1>8. PICK p \in Leading(w) : k = FirstOf(w, p)
  BY <1>7
<1>9. Wins(p)
  BY <1>5, <1>7, <1>8
<1>10. Winner(w) = CHOOSE q \in Leading(w) : Wins(q)
  BY DEF Winner
<1> HIDE DEF Wins
<1> QED
  BY <1>9, <1>10

\* The window holds the last frames since the reset.
Remembers ==
  /\ window \in Seq(Reads) /\ pushed \in Seq(Reads)
  /\ window = LastFrames

LEMMA PushRemembers ==
  ASSUME Remembers, Push
  PROVE  Remembers'
<1> DEFINE n == Len(pushed)
<1>1. PICK p \in Plates, c \in Confidences :
        /\ window' = Remembered(window, [plate |-> p, conf |-> c], WindowSize)
        /\ pushed' = Append(pushed, [plate |-> p, conf |-> c])
  BY DEF Push
<1> DEFINE e == [plate |-> p, conf |-> c]
<1>2. e \in Reads
  BY DEF Reads
<1> HIDE DEF e
<1>3. window' = Remembered(window, e, WindowSize) /\ pushed' = Append(pushed, e)
  BY <1>1 DEF e
<1>4. WindowSize \in Nat \ {0} /\ n \in Nat
  BY FrameAssumption DEF FrameAssumption, Remembers
<1>5. pushed' \in Seq(Reads)
  BY <1>2, <1>3 DEF Remembers
<1>6. LastFrames' = IF n + 1 <= WindowSize THEN pushed'
                    ELSE SubSeq(pushed', n + 1 - WindowSize + 1, n + 1)
  <2>1. Len(pushed') = n + 1
    BY <1>2, <1>3 DEF Remembers
  <2> QED
    BY <1>4, <2>1 DEF LastFrames
<1>7. CASE n < WindowSize
  <2>1. window = pushed
    BY <1>4, <1>7 DEF Remembers, LastFrames
  <2> QED
    BY <1>3, <1>4, <1>5, <1>6, <1>7, <2>1 DEF Remembers, Remembered
<1>8. CASE n >= WindowSize
  <2>1. Len(window) = WindowSize /\ \A i \in 1 .. WindowSize : window[i] = pushed[n - WindowSize + i]
    BY <1>4, <1>8 DEF Remembers, LastFrames
  <2>2. window' = Append(Tail(window), e)
    BY <1>3, <1>4, <2>1 DEF Remembered
  <2>3. window' \in Seq(Reads) /\ Len(window') = WindowSize
        /\ \A i \in 1 .. WindowSize : window'[i] = IF i = WindowSize THEN e ELSE window[i + 1]
    BY <1>2, <1>4, <2>1, <2>2 DEF Remembers
  <2>4. /\ LastFrames' = SubSeq(pushed', n + 1 - WindowSize + 1, n + 1)
        /\ LastFrames' \in Seq(Reads) /\ Len(LastFrames') = WindowSize
        /\ \A i \in 1 .. WindowSize : LastFrames'[i] = pushed'[n + 1 - WindowSize + i]
    <3>1. Len(pushed') = n + 1
      BY <1>2, <1>3 DEF Remembers
    <3>2. LastFrames' = SubSeq(pushed', n + 1 - WindowSize + 1, n + 1)
      BY <1>4, <1>6, <1>8
    <3>3. n + 1 - WindowSize + 1 \in 1 .. Len(pushed') /\ n + 1 \in 1 .. Len(pushed')
      BY <1>4, <1>8, <3>1
    <3> HIDE DEF n
    <3>4. LastFrames' \in Seq(Reads) /\ Len(LastFrames') = WindowSize
      BY <1>4, <1>5, <3>2, <3>3
    <3>5. ASSUME NEW i \in 1 .. WindowSize PROVE LastFrames'[i] = pushed'[n + 1 - WindowSize + i]
      BY <1>4, <1>5, <3>2, <3>3
    <3> QED
      BY <3>2, <3>4, <3>5
  <2>5. ASSUME NEW i \in 1 .. WindowSize PROVE window'[i] = LastFrames'[i]
    <3>1. CASE i = WindowSize
      BY <1>2, <1>3, <1>4, <1>8, <2>3, <2>4, <3>1 DEF Remembers
    <3>2. CASE i # WindowSize
      <4>1. pushed'[n + 1 - WindowSize + i] = pushed[n - WindowSize + (i + 1)]
        BY <1>2, <1>3, <1>4, <1>8, <3>2 DEF Remembers
      <4> QED
        BY <1>4, <2>1, <2>3, <2>4, <3>2, <4>1
    <3> QED
      BY <3>1, <3>2
  <2>6. window' = LastFrames'
    BY <1>4, <2>3, <2>4, <2>5
  <2> QED
    BY <1>5, <2>3, <2>6 DEF Remembers
<1> QED
  BY <1>4, <1>7, <1>8

\* What is remembered is enough for the vote.
LEMMA RememberedStands ==
  ASSUME Remembers
  PROVE  VotedPlateStands
<1> SUFFICES ASSUME IsStable(window)
             PROVE  LET vote == Vote(window)
                    IN /\ 2 * Frequency(LastFrames, vote.plate) >= WindowSize
                       /\ \A p \in PlatesSeen(LastFrames) :
                            Frequency(LastFrames, p) <= Frequency(LastFrames, vote.plate)
                       /\ \E i \in DOMAIN LastFrames :
                            LastFrames[i] = [plate |-> vote.plate, conf |-> vote.confidence]
  BY DEF VotedPlateStands
<1> DEFINE w == window
           p == Winner(w)
<1>1. w \in Seq(Reads) /\ w = LastFrames /\ WindowSize \in Nat
  BY FrameAssumption DEF Remembers, FrameAssumption
<1>2. PICK q \in PlatesSeen(w) : 2 * Frequency(w, q) >= WindowSize
  BY DEF IsStable
<1>3. w # << >>
  BY <1>2 DEF PlatesSeen
<1>4. p \in Leading(w)
  BY <1>1, <1>3, WinnerLeads
<1>5. p \in PlatesSeen(w) /\ \A r \in PlatesSeen(w) : Frequency(w, r) <= Frequency(w, p)
  BY <1>4 DEF Leading
<1>6. Vote(w).plate = p /\ Vote(w).confidence = BestOf(w, p)
  BY DEF Vote
<1>7. PICK i \in DOMAIN w : w[i].plate = p /\ w[i].conf = BestOf(w, p)
  BY <1>1, <1>5, FirstAndBest
<1>8. w[i] = [plate |-> p, conf |-> BestOf(w, p)]
  <2>1. PICK e \in Reads : e = w[i]
    BY <1>1, <1>7
  <2>2. e = [plate |-> e.plate, conf |-> e.conf]
    BY DEF Reads
  <2> QED
    BY <1>7, <2>1, <2>2
<1>9. Frequency(w, q) \in Nat /\ Frequency(w, p) \in Nat
  BY <1>1, FrequencyNat
<1>10. 2 * Frequency(w, p) >= WindowSize
  BY <1>1, <1>2, <1>5, <1>9
<1> HIDE DEF p, w
<1> QED
  BY <1>1, <1>5, <1>6, <1>7, <1>8, <1>10 DEF w

\* For any window size, any plates and confidences and any number of frames: the window
\* holds the last frames, and a stable plate is the one voted for, was read in half of
\* them or more and is given with a confidence it was read with (MultiFrameVoter).
THEOREM StableVotesStand == FfSpec => [](Remembers /\ VotedPlateStands)
<1>1. FfInit => Remembers
  BY FrameAssumption DEF FfInit, Remembers, LastFrames, FrameAssumption
<1>2. ASSUME Remembers, [FfNext]_ffVars PROVE Remembers'
  <2>1. CASE Push
    BY <1>2, <2>1, PushRemembers
  <2>2. CASE Reset
    BY <2>2, FrameAssumption DEF Reset, Remembers, LastFrames, FrameAssumption
  <2>3. CASE UNCHANGED voterVars
    BY <1>2, <2>3 DEF voterVars, Remembers, LastFrames
  <2>4. FireNext => UNCHANGED voterVars
    BY DEF FireNext, Frame, Infer, FrameRefused, Filter, ResetCamera, TimePasses
  <2>5. UNCHANGED ffVars => UNCHANGED voterVars
    BY DEF ffVars
  <2> QED
    BY <1>2, <2>1, <2>2, <2>3, <2>4, <2>5 DEF FfNext, VoterNext
<1>3. Remembers => VotedPlateStands
  BY RememberedStands
<1> QED
  BY <1>1, <1>2, <1>3, PTL DEF FfSpec
-----------------------------------------------------------------------------
(* Fire and smoke (FrameFilters).                                          *)

Items == [at : Nat, conf : Nat, area : Nat]

\* What a history h keeps of the stamps m of all matching frames, at time t: the last ones;
\* and the ones it does not keep are outside the window or MaxHistory frames ago.
Kept(h, m, t) ==
  /\ Len(h) <= MaxHistory /\ Len(h) <= Len(m)
  /\ \A i \in 1 .. Len(h) : h[i].at = m[Len(m) - Len(h) + i]
  /\ \A i \in 1 .. Len(m) : m[i] <= t
  /\ \A i, j \in 1 .. Len(m) : i < j => m[i] <= m[j] + Late
  /\ \A p \in 1 .. Len(m) - Len(h) : m[p] < t - Window \/ Len(m) - p >= MaxHistory

LEMMA FrameConstants ==
  /\ MaxHistory \in Nat \ {0} /\ MinFrames \in 1 .. MaxHistory /\ Window \in Nat /\ Late \in Nat
  /\ IsFiniteSet(Slots)
<1>1. MaxHistory \in Nat
  BY FrameAssumption DEF FrameAssumption
<1> QED
  BY <1>1, FrameAssumption, WorkersAssumption DEF FrameAssumption, WorkersAssumption

LEMMA NothingIsKept ==
  ASSUME NEW t
  PROVE  Kept(<< >>, << >>, t)
BY FrameConstants DEF Kept

LEMMA KeptLater ==
  ASSUME NEW h \in Seq(Items), NEW m \in Seq(Nat), NEW t \in Nat, NEW u \in Nat, t <= u, Kept(h, m, t)
  PROVE  Kept(h, m, u)
<1>1. \A i \in 1 .. Len(m) : m[i] \in Nat
  OBVIOUS
<1>2. Len(m) \in Nat /\ Len(h) \in Nat
  OBVIOUS
<1>3. \A p \in 1 .. Len(m) - Len(h) : p \in 1 .. Len(m)
  BY <1>2
<1>4. \A i \in 1 .. Len(m) : m[i] <= u
  BY <1>1 DEF Kept
<1>5. ASSUME NEW p \in 1 .. Len(m) - Len(h)
      PROVE  m[p] < u - Window \/ Len(m) - p >= MaxHistory
  <2>1. m[p] < t - Window \/ Len(m) - p >= MaxHistory
    BY DEF Kept
  <2>2. m[p] \in Nat /\ Window \in Nat
    BY <1>1, <1>3, FrameConstants
  <2> QED
    BY <2>1, <2>2
<1> QED
  BY <1>4, <1>5 DEF Kept

\* A frame that matches is appended to both; a full history loses its oldest entry.
LEMMA RememberedIsKept ==
  ASSUME NEW h \in Seq(Items), NEW m \in Seq(Nat), NEW t \in Nat, Kept(h, m, t),
         NEW item \in Items, item.at <= t, t <= item.at + Late
  PROVE  /\ Remembered(h, item, MaxHistory) \in Seq(Items)
         /\ Kept(Remembered(h, item, MaxHistory), Append(m, item.at), t)
<1> DEFINE n == Len(h)
           L == Len(m)
           a == item.at
           g == Remembered(h, item, MaxHistory)
           k == Append(m, a)
<1>1. MaxHistory \in Nat \ {0} /\ Window \in Nat /\ Late \in Nat
  BY FrameConstants
<1>2. n \in Nat /\ L \in Nat /\ a \in Nat /\ \A i \in 1 .. L : m[i] \in Nat
  BY DEF Items
<1>3. /\ n <= MaxHistory /\ n <= L
      /\ \A i \in 1 .. n : h[i].at = m[L - n + i]
      /\ \A i \in 1 .. L : m[i] <= t
      /\ \A i, j \in 1 .. L : i < j => m[i] <= m[j] + Late
      /\ \A p \in 1 .. L - n : m[p] < t - Window \/ L - p >= MaxHistory
  BY DEF Kept
<1>4. k \in Seq(Nat) /\ Len(k) = L + 1 /\ k[L + 1] = a /\ \A i \in 1 .. L : k[i] = m[i]
  BY <1>2
<1>5. \A i \in 1 .. Len(k) : k[i] <= t
  <2>1. ASSUME NEW i \in 1 .. Len(k) PROVE k[i] <= t
    <3>1. i = L + 1 \/ i \in 1 .. L
      BY <1>2, <1>4
    <3> QED
      BY <1>3, <1>4, <3>1
  <2> QED
    BY <2>1
<1>6. ASSUME NEW i \in 1 .. Len(k), NEW j \in 1 .. Len(k), i < j PROVE k[i] <= k[j] + Late
  <2>1. i \in 1 .. L /\ k[i] = m[i]
    BY <1>2, <1>4, <1>6
  <2>2. CASE j = L + 1
    BY <1>1, <1>2, <1>3, <1>4, <2>1, <2>2
  <2>3. CASE j # L + 1
    <3>1. j \in 1 .. L /\ k[j] = m[j]
      BY <1>2, <1>4, <2>3
    <3> QED
      BY <1>3, <1>6, <2>1, <3>1
  <2> QED
    BY <2>2, <2>3
<1>7. CASE n < MaxHistory
  <2>1. g = Append(h, item)
    BY <1>7 DEF Remembered
  <2>2. g \in Seq(Items) /\ Len(g) = n + 1 /\ g[n + 1] = item /\ \A i \in 1 .. n : g[i] = h[i]
    BY <2>1
  <2>3. ASSUME NEW i \in 1 .. Len(g) PROVE g[i].at = k[Len(k) - Len(g) + i]
    <3>1. CASE i = n + 1
      BY <1>2, <1>4, <2>2, <3>1
    <3>2. CASE i # n + 1
      <4>1. i \in 1 .. n /\ L - n + i \in 1 .. L /\ Len(k) - Len(g) + i = L - n + i
        BY <1>2, <1>3, <1>4, <2>2, <3>2
      <4> QED
        BY <1>3, <1>4, <2>2, <4>1
    <3> QED
      BY <3>1, <3>2
  <2>4. ASSUME NEW p \in 1 .. Len(k) - Len(g)
        PROVE  k[p] < t - Window \/ Len(k) - p >= MaxHistory
    <3>1. p \in 1 .. L - n /\ p \in 1 .. L /\ k[p] = m[p]
      BY <1>2, <1>3, <1>4, <2>2
    <3> QED
      BY <1>1, <1>2, <1>3, <1>4, <3>1
  <2>5. Len(g) <= MaxHistory /\ Len(g) <= Len(k)
    BY <1>1, <1>2, <1>3, <1>4, <1>7, <2>2
  <2> HIDE DEF g, k
  <2>6. g \in Seq(Items) /\ Kept(g, k, t)
    BY <1>5, <1>6, <2>2, <2>3, <2>4, <2>5 DEF Kept
  <2> QED
    BY <2>6 DEF g, k
<1>8. CASE n = MaxHistory
  <2>1. g = Append(Tail(h), item)
    BY <1>1, <1>8 DEF Remembered
  <2>2. /\ g \in Seq(Items) /\ Len(g) = n /\ g[n] = item
        /\ \A i \in 1 .. n : i # n => g[i] = h[i + 1]
    BY <1>1, <1>8, <2>1
  <2>3. ASSUME NEW i \in 1 .. Len(g) PROVE g[i].at = k[Len(k) - Len(g) + i]
    <3>1. CASE i = n
      BY <1>2, <1>4, <2>2, <3>1
    <3>2. CASE i # n
      <4>1. n \in Nat /\ L \in Nat /\ n <= L /\ Len(k) = L + 1 /\ Len(g) = n /\ i \in 1 .. n
        BY <1>2, <1>3, <1>4, <2>2
      <4> HIDE DEF n, L, g, k
      <4>2. /\ i + 1 \in 1 .. n /\ L - n + (i + 1) \in 1 .. L
            /\ Len(k) - Len(g) + i = L - n + (i + 1)
        BY <3>2, <4>1
      <4> QED
        BY <1>3, <1>4, <2>2, <3>2, <4>1, <4>2
    <3> QED
      BY <3>1, <3>2
  <2>4. ASSUME NEW p \in 1 .. Len(k) - Len(g)
        PROVE  k[p] < t - Window \/ Len(k) - p >= MaxHistory
    <3>1. p <= L + 1 - n
      BY <1>2, <1>4, <2>2
    <3> QED
      BY <1>1, <1>2, <1>4, <1>8, <3>1
  <2>5. Len(g) <= MaxHistory /\ Len(g) <= Len(k)
    BY <1>1, <1>2, <1>3, <1>4, <1>8, <2>2
  <2> HIDE DEF g, k
  <2>6. g \in Seq(Items) /\ Kept(g, k, t)
    BY <1>5, <1>6, <2>2, <2>3, <2>4, <2>5 DEF Kept
  <2> QED
    BY <2>6 DEF g, k
<1> QED
  BY <1>1, <1>2, <1>3, <1>7, <1>8

\* Pruning keeps what is inside the window, and nothing that is older than the delay.
LEMMA PrunedIsKept ==
  ASSUME NEW h \in Seq(Items), NEW m \in Seq(Nat), NEW t \in Nat, Kept(h, m, t),
         NEW a \in Nat, a <= t
  PROVE  /\ Pruned(h, a) \in Seq(Items) /\ Kept(Pruned(h, a), m, t)
         /\ \A i \in 1 .. Len(Pruned(h, a)) : Pruned(h, a)[i].at >= a - Window - Late
<1> DEFINE n == Len(h)
           L == Len(m)
           inside == {i \in DOMAIN h : a - h[i].at <= Window}
           g == Pruned(h, a)
<1>1. MaxHistory \in Nat \ {0} /\ Window \in Nat /\ Late \in Nat
  BY FrameConstants
<1>2. /\ n \in Nat /\ L \in Nat /\ DOMAIN h = 1 .. n /\ \A i \in 1 .. L : m[i] \in Nat
      /\ \A i \in 1 .. n : h[i] \in Items
  OBVIOUS
<1>3. /\ n <= MaxHistory /\ n <= L
      /\ \A i \in 1 .. n : h[i].at = m[L - n + i]
      /\ \A i \in 1 .. L : m[i] <= t
      /\ \A i, j \in 1 .. L : i < j => m[i] <= m[j] + Late
      /\ \A p \in 1 .. L - n : m[p] < t - Window \/ L - p >= MaxHistory
  BY DEF Kept
<1>4. \A i \in 1 .. n : h[i].at \in Nat
  BY <1>2 DEF Items
<1>5. CASE inside = {}
  <2>1. g = << >>
    BY <1>5 DEF Pruned
  <2>2. \A i \in 1 .. n : ~ (a - h[i].at <= Window)
    BY <1>2, <1>5
  <2>3. ASSUME NEW p \in 1 .. L PROVE m[p] < t - Window \/ L - p >= MaxHistory
    <3>1. CASE p \in 1 .. L - n
      BY <1>3, <3>1
    <3>2. CASE p \notin 1 .. L - n
      <4>1. p - (L - n) \in 1 .. n /\ L - n + (p - (L - n)) = p
        BY <1>2, <1>3, <3>2
      <4>2. h[p - (L - n)].at = m[p]
        BY <1>3, <4>1
      <4>3. ~ (a - m[p] <= Window) /\ m[p] \in Nat
        BY <1>2, <2>2, <4>1, <4>2
      <4> QED
        BY <1>1, <4>3
    <3> QED
      BY <3>1, <3>2
  <2>4. Len(g) = 0 /\ g \in Seq(Items) /\ L - Len(g) = L
    BY <1>2, <2>1
  <2> HIDE DEF g
  <2>5. g \in Seq(Items) /\ Kept(g, m, t)
    BY <1>1, <1>2, <1>3, <2>3, <2>4 DEF Kept
  <2>6. \A i \in 1 .. Len(g) : g[i].at >= a - Window - Late
    BY <2>4
  <2> QED
    BY <2>5, <2>6 DEF g
<1>6. CASE inside # {}
  <2> DEFINE s == Min(inside)
  <2>1. PICK first \in inside : \A y \in inside : first <= y
    <3>1. inside \in SUBSET Nat
      BY <1>2
    <3> HIDE DEF inside
    <3> QED
      BY <1>6, <3>1, LeastNat
  <2>2. s \in inside /\ \A y \in inside : s <= y
    <3>1. \E y \in inside : \A z \in inside : y <= z
      BY <2>1
    <3> HIDE DEF inside
    <3> QED
      BY <3>1 DEF Min
  <2>3. s \in 1 .. n /\ a - h[s].at <= Window
    BY <1>2, <2>2
  <2>4. \A i \in 1 .. n : i < s => ~ (a - h[i].at <= Window)
    <3>1. ASSUME NEW i \in 1 .. n, i < s PROVE ~ (a - h[i].at <= Window)
      <4>1. i \notin inside
        <5> HIDE DEF inside, s
        <5> QED
          BY <2>2, <2>3, <3>1
      <4> QED
        BY <1>2, <4>1
    <3> QED
      BY <3>1
  <2>5. g = SubSeq(h, s, n)
    BY <1>6 DEF Pruned
  <2> HIDE DEF s, g, inside
  <2>6. /\ g \in Seq(Items) /\ Len(g) = n - s + 1
        /\ \A i \in 1 .. n - s + 1 : g[i] = h[s + i - 1]
    BY <1>2, <2>3, <2>5
  <2>7. ASSUME NEW i \in 1 .. Len(g)
        PROVE  g[i].at = m[L - Len(g) + i] /\ g[i].at >= a - Window - Late
    <3>1. /\ s + i - 1 \in 1 .. n /\ L - n + (s + i - 1) = L - Len(g) + i
          /\ L - n + s \in 1 .. L /\ L - Len(g) + i \in 1 .. L
      BY <1>2, <1>3, <2>3, <2>6
    <3>2. g[i].at = h[s + i - 1].at /\ h[s + i - 1].at = m[L - Len(g) + i]
      BY <1>3, <2>6, <3>1
    <3>3. h[s].at = m[L - n + s]
      BY <1>3, <2>3
    <3>4. m[L - n + s] <= m[L - Len(g) + i] + Late
      <4>1. CASE i = 1
        <5>1. L - n + s = L - Len(g) + i
          BY <1>2, <2>3, <2>6, <4>1
        <5> QED
          BY <1>1, <1>2, <3>1, <5>1
      <4>2. CASE i # 1
        <5>1. L - n + s < L - Len(g) + i
          BY <1>2, <2>3, <2>6, <4>2
        <5> QED
          BY <1>3, <3>1, <5>1
      <4> QED
        BY <4>1, <4>2
    <3>5. m[L - n + s] \in Nat /\ m[L - Len(g) + i] \in Nat
      BY <1>2, <3>1
    <3> DEFINE x == m[L - n + s]
               y == m[L - Len(g) + i]
    <3>6. x \in Nat /\ y \in Nat /\ x <= y + Late /\ a - x <= Window /\ g[i].at = y
      BY <2>3, <3>2, <3>3, <3>4, <3>5
    <3> HIDE DEF x, y
    <3>7. y >= a - Window - Late
      BY <1>1, <3>6
    <3> QED
      BY <3>2, <3>6, <3>7
  <2>8. ASSUME NEW p \in 1 .. L - Len(g) PROVE m[p] < t - Window \/ L - p >= MaxHistory
    <3>1. CASE p \in 1 .. L - n
      BY <1>3, <3>1
    <3>2. CASE p \notin 1 .. L - n
      <4>1. p - (L - n) \in 1 .. n /\ p - (L - n) < s /\ L - n + (p - (L - n)) = p /\ p \in 1 .. L
        <5>1. /\ n \in Nat /\ L \in Nat /\ n <= L /\ s \in 1 .. n /\ Len(g) = n - s + 1
              /\ p \in 1 .. L - Len(g)
          BY <1>2, <1>3, <2>3, <2>6
        <5> HIDE DEF n, L
        <5> QED
          BY <3>2, <5>1
      <4>2. h[p - (L - n)].at = m[p]
        BY <1>3, <4>1
      <4>3. ~ (a - m[p] <= Window) /\ m[p] \in Nat
        BY <1>2, <2>4, <4>1, <4>2
      <4> QED
        BY <1>1, <4>3
    <3> QED
      BY <3>1, <3>2
  <2>9. Len(g) <= MaxHistory /\ Len(g) <= L
    <3>1. n \in Nat /\ L \in Nat /\ n <= L /\ n <= MaxHistory /\ s \in 1 .. n /\ Len(g) = n - s + 1
      BY <1>2, <1>3, <2>3, <2>6
    <3> HIDE DEF n, L
    <3> QED
      BY <1>1, <3>1
  <2>10. g \in Seq(Items) /\ Kept(g, m, t)
    BY <1>3, <2>6, <2>7, <2>8, <2>9 DEF Kept
  <2> QED
    BY <2>7, <2>10 DEF g
<1> QED
  BY <1>5, <1>6

\* Each frame a history keeps is one of the frames seen.
LEMMA KeptIsSeen ==
  ASSUME NEW h \in Seq(Items), NEW m \in Seq(Nat), NEW t \in Nat, Kept(h, m, t),
         NEW from \in Int, \A i \in 1 .. Len(h) : h[i].at >= from
  PROVE  Len(h) <= SeenSince(m, from)
<1> DEFINE n == Len(h)
           L == Len(m)
           last == L - n + 1 .. L
           seen == {i \in DOMAIN m : m[i] >= from}
<1>1. n \in Nat /\ L \in Nat /\ n <= L /\ DOMAIN m = 1 .. L /\ \A i \in 1 .. n : h[i].at = m[L - n + i]
  BY DEF Kept
<1>2. IsFiniteSet(seen)
  <2>1. IsFiniteSet(1 .. L)
    <3>1. 1 \in Int /\ L \in Int
      BY <1>1
    <3> QED
      BY <3>1, FS_Interval
  <2>2. seen \subseteq 1 .. L
    BY <1>1
  <2> HIDE DEF seen
  <2> QED
    BY <2>1, <2>2, FS_Subset
<1>3. Cardinality(last) = n
  <2>1. L - n + 1 \in Int /\ L \in Int
    BY <1>1
  <2>2. Cardinality(last) = IF L - n + 1 > L THEN 0 ELSE L - (L - n + 1) + 1
    BY <2>1, FS_Interval
  <2> HIDE DEF last, n, L
  <2> QED
    BY <1>1, <2>2
<1>4. last \subseteq seen
  <2>1. ASSUME NEW i \in last PROVE i \in 1 .. L /\ m[i] >= from
    <3>1. i - (L - n) \in 1 .. n /\ L - n + (i - (L - n)) = i /\ i \in 1 .. L
      <4>1. n \in Nat /\ L \in Nat /\ n <= L /\ i \in L - n + 1 .. L
        BY <1>1
      <4> HIDE DEF n, L
      <4> QED
        BY <4>1
    <3>2. h[i - (L - n)].at = m[i]
      BY <1>1, <3>1
    <3> QED
      BY <3>1, <3>2
  <2> QED
    BY <1>1, <2>1
<1>5. SeenSince(m, from) = Cardinality(seen)
  BY DEF SeenSince
<1> HIDE DEF last, seen
<1> QED
  BY <1>2, <1>3, <1>4, <1>5, FS_Subset

\* The frames that reached the history after the i-th although they were taken before it.
Overtook(m, i) == {j \in 1 .. Len(m) : i < j /\ m[j] < m[i]}

\* A history holds enough of the frames that are inside every window, or too many strays
\* came after one of them.
LEMMA FreshFramesAreKept ==
  ASSUME NEW h \in Seq(Items), NEW m \in Seq(Nat), NEW t \in Nat, Kept(h, m, t),
         SeenSince(m, t - Window) >= MinFrames
  PROVE  Len(h) >= MinFrames \/ Crowded(m, t - Window)
<1> DEFINE n == Len(h)
           L == Len(m)
           last == L - n + 1 .. L
           fresh == {i \in DOMAIN m : m[i] >= t - Window}
           gone == fresh \ last
<1>1. /\ n \in Nat /\ L \in Nat /\ n <= L /\ DOMAIN m = 1 .. L
      /\ \A i \in 1 .. L : m[i] \in Nat
      /\ \A p \in 1 .. L - n : m[p] < t - Window \/ L - p >= MaxHistory
  BY DEF Kept
<1>2. MaxHistory \in Nat /\ MinFrames \in Nat /\ Window \in Nat
  BY FrameConstants
<1>3. IsFiniteSet(last) /\ Cardinality(last) = n
  <2>1. L - n + 1 \in Int /\ L \in Int
    BY <1>1
  <2>2. IsFiniteSet(last) /\ Cardinality(last) = IF L - n + 1 > L THEN 0 ELSE L - (L - n + 1) + 1
    BY <2>1, FS_Interval
  <2> HIDE DEF last, n, L
  <2> QED
    BY <1>1, <2>2
<1>4. SUFFICES ASSUME n < MinFrames PROVE Crowded(m, t - Window)
  BY <1>1, <1>2
<1>5. gone # {}
  <2>1. SUFFICES ASSUME fresh \subseteq last PROVE FALSE
    OBVIOUS
  <2>2. Cardinality(fresh) >= MinFrames
    BY DEF SeenSince
  <2> HIDE DEF fresh, last
  <2>3. Cardinality(fresh) <= Cardinality(last) /\ IsFiniteSet(fresh)
    BY <1>3, <2>1, FS_Subset
  <2>4. Cardinality(fresh) \in Nat
    BY <2>3, FS_CardinalityType
  <2> HIDE DEF n
  <2> QED
    BY <1>1, <1>2, <1>3, <1>4, <2>2, <2>3, <2>4
<1>6. PICK x \in gone : \A y \in gone : y <= x
  <2> DEFINE gaps == {L - y : y \in gone}
  <2>1. \A y \in gone : y \in Nat /\ L - y \in Nat
    BY <1>1
  <2> HIDE DEF gone
  <2>2. gaps \in SUBSET Nat /\ gaps # {}
    BY <1>5, <2>1
  <2>3. PICK gap \in gaps : \A y \in gaps : gap <= y
    <3> HIDE DEF gaps
    <3> QED
      BY <2>2, LeastNat
  <2>4. PICK x \in gone : gap = L - x
    BY <2>3
  <2>5. ASSUME NEW y \in gone PROVE y <= x
    <3>1. L - y \in gaps
      OBVIOUS
    <3>2. L - x <= L - y
      <4> HIDE DEF gaps
      <4> QED
        BY <2>3, <2>4, <3>1
    <3> HIDE DEF L
    <3> QED
      BY <1>1, <2>1, <3>2
  <2> QED
    BY <2>5
<1>7. x \in 1 .. L /\ x \notin last /\ m[x] >= t - Window
  BY <1>1
<1>8. x \in 1 .. L - n /\ L - x >= MaxHistory
  <2>1. x \in 1 .. L - n
    <3> HIDE DEF n, L
    <3> QED
      BY <1>1, <1>7 DEF last
  <2>2. m[x] < t - Window \/ L - x >= MaxHistory
    BY <1>1, <2>1
  <2>3. m[x] \in Nat /\ t - Window \in Int /\ m[x] >= t - Window
    BY <1>1, <1>2, <1>7
  <2> HIDE DEF L, n
  <2>4. ~ (m[x] < t - Window)
    BY <2>3
  <2> QED
    BY <2>1, <2>2, <2>4
<1> DEFINE over == Strays(m, x, t - Window)
<1>9. x + 1 .. L \subseteq last \cup over
  <2>1. ASSUME NEW j \in x + 1 .. L, j \notin last PROVE j \in over
    <3>1. j \in 1 .. L /\ x < j /\ ~ (j <= x)
      <4> HIDE DEF L
      <4> QED
        BY <1>1, <1>7
    <3>2. j \notin fresh
      <4>1. j \notin gone
        <5> HIDE DEF gone
        <5> QED
          BY <1>6, <3>1
      <4> QED
        BY <2>1, <4>1
    <3>3. ~ (m[j] >= t - Window)
      BY <1>1, <3>1, <3>2
    <3>4. m[j] < t - Window
      BY <1>1, <1>2, <3>1, <3>3
    <3> QED
      BY <1>1, <3>1, <3>4 DEF Strays
  <2> QED
    BY <2>1
<1>10. IsFiniteSet(over) /\ Cardinality(over) \in Nat
  <2>1. IsFiniteSet(1 .. L)
    <3>1. 1 \in Int /\ L \in Int
      BY <1>1
    <3> QED
      BY <3>1, FS_Interval
  <2>2. over \subseteq 1 .. L
    BY <1>1 DEF Strays
  <2> HIDE DEF over
  <2>3. IsFiniteSet(over)
    BY <2>1, <2>2, FS_Subset
  <2> QED
    BY <2>3, FS_CardinalityType
<1>11. Cardinality(x + 1 .. L) = L - x
  <2>1. x \in Int /\ x + 1 \in Int /\ L \in Int /\ x <= L
    BY <1>1, <1>7
  <2>2. Cardinality(x + 1 .. L) = IF x + 1 > L THEN 0 ELSE L - (x + 1) + 1
    BY <2>1, FS_Interval
  <2> DEFINE c == Cardinality(x + 1 .. L)
  <2>3. c = IF x + 1 > L THEN 0 ELSE L - (x + 1) + 1
    BY <2>2
  <2> HIDE DEF c, L
  <2>4. c = L - x
    BY <2>1, <2>3, SMT
  <2> QED
    BY <2>4 DEF c
<1> DEFINE both == last \cup over
<1> HIDE DEF last, over
<1>12. IsFiniteSet(both) /\ Cardinality(both) <= n + Cardinality(over)
  <2>1. IsFiniteSet(both) /\ Cardinality(both) = Cardinality(last) + Cardinality(over) - Cardinality(last \cap over)
    BY <1>3, <1>10, FS_Union
  <2>2. IsFiniteSet(last \cap over)
    BY <1>3, FS_Subset
  <2>3. Cardinality(last \cap over) \in Nat /\ Cardinality(over) \in Nat
    BY <2>2, <1>10, FS_CardinalityType
  <2> DEFINE common == Cardinality(last \cap over)
             size == Cardinality(over)
  <2>4. n \in Nat /\ common \in Nat /\ size \in Nat /\ Cardinality(both) = n + size - common
    BY <1>1, <1>3, <2>1, <2>3
  <2> HIDE DEF n, common, size, both
  <2>5. Cardinality(both) <= n + size
    BY <2>4
  <2> QED
    BY <2>1, <2>5 DEF size
<1>13. Cardinality(x + 1 .. L) <= Cardinality(both)
  <2>1. x + 1 .. L \subseteq both
    BY <1>9
  <2> HIDE DEF both
  <2> QED
    BY <1>12, <2>1, FS_Subset
<1>14. Cardinality(both) \in Nat
  BY <1>12, FS_CardinalityType
<1>15. L - x >= MaxHistory /\ x \in DOMAIN m /\ x \in Int
  BY <1>1, <1>8
<1> HIDE DEF n, L, both
<1> DEFINE o == Cardinality(over)
           b == Cardinality(both)
<1>16. L - x <= b /\ b \in Nat /\ o \in Nat /\ b <= n + o
  BY <1>10, <1>11, <1>12, <1>13, <1>14
<1> HIDE DEF o, b
<1>17. o > MaxHistory - MinFrames
  BY <1>1, <1>2, <1>4, <1>15, <1>16
<1>18. Cardinality(Strays(m, x, t - Window)) > MaxHistory - MinFrames
  BY <1>17 DEF o, over
<1> QED
  BY <1>7, <1>15, <1>18 DEF Crowded

FramesTaken == [camera : Cameras \cup {Nobody}, at : Nat, found : Seq(Candidate)]

FireTypes ==
  /\ frameTime \in Nat /\ ffPc \in [Slots -> FfPlaces] /\ frame \in [Slots -> FramesTaken]
  /\ history \in [Cameras \X EventTypes -> Seq(Items)]
  /\ matched \in [Cameras \X EventTypes -> Seq(Nat)]

\* A frame the server works on is of a camera and not later than allowed.
InFlight ==
  \A r \in Slots : ffPc[r] # "idle" =>
    /\ frame[r].camera \in Cameras
    /\ frame[r].at <= frameTime /\ frameTime <= frame[r].at + Late

HistoriesAgree ==
  \A k \in Cameras \X EventTypes : Kept(history[k], matched[k], frameTime)

\* Frames of a camera that were taken before x and have not reached its fire history yet.
Waiting(c, x) ==
  {r \in Slots : ffPc[r] \in {"wait", "FIRE"} /\ frame[r].camera = c /\ frame[r].at < x}

\* All frames that overtake one frame were worked on together with it.
FewOvertake ==
  \A c \in Cameras : \A i \in 1 .. Len(matched[<<c, "FIRE">>]) :
    Cardinality(Overtook(matched[<<c, "FIRE">>], i))
      + Cardinality(Waiting(c, matched[<<c, "FIRE">>][i])) <= Cardinality(Slots) - 1

FireInvariant == FireTypes /\ InFlight /\ HistoriesAgree /\ FewOvertake

LEMMA FireKeys ==
  ASSUME FireTypes, NEW c \in Cameras, NEW type \in EventTypes
  PROVE  /\ <<c, type>> \in Cameras \X EventTypes
         /\ history[<<c, type>>] \in Seq(Items) /\ matched[<<c, type>>] \in Seq(Nat)
BY DEF FireTypes

LEMMA WaitingFinite ==
  ASSUME NEW c, NEW x
  PROVE  IsFiniteSet(Waiting(c, x)) /\ Cardinality(Waiting(c, x)) \in Nat
<1>1. Waiting(c, x) \subseteq Slots
  BY DEF Waiting
<1>2. IsFiniteSet(Waiting(c, x))
  BY <1>1, FrameConstants, FS_Subset
<1> QED
  BY <1>2, FS_CardinalityType

LEMMA OvertookFinite ==
  ASSUME NEW m \in Seq(Nat), NEW i
  PROVE  IsFiniteSet(Overtook(m, i)) /\ Cardinality(Overtook(m, i)) \in Nat
<1>1. IsFiniteSet(1 .. Len(m))
  <2>1. 1 \in Int /\ Len(m) \in Int
    OBVIOUS
  <2> QED
    BY <2>1, FS_Interval
<1>2. Overtook(m, i) \subseteq 1 .. Len(m)
  BY DEF Overtook
<1>3. IsFiniteSet(Overtook(m, i))
  BY <1>1, <1>2, FS_Subset
<1> QED
  BY <1>3, FS_CardinalityType

\* Where fewer frames wait and none has arrived, few overtake.
LEMMA FewerWait ==
  ASSUME FireTypes, FewOvertake, NEW c \in Cameras, NEW later,
         NEW i \in 1 .. Len(matched[<<c, "FIRE">>]),
         later \subseteq Waiting(c, matched[<<c, "FIRE">>][i])
  PROVE  Cardinality(Overtook(matched[<<c, "FIRE">>], i)) + Cardinality(later) <= Cardinality(Slots) - 1
<1> DEFINE m == matched[<<c, "FIRE">>]
           over == Cardinality(Overtook(m, i))
           before == Cardinality(Waiting(c, m[i]))
           after == Cardinality(later)
<1>1. over + before <= Cardinality(Slots) - 1
  BY DEF FewOvertake
<1>2. m \in Seq(Nat)
  BY FireKeys DEF EventTypes
<1>3. over \in Nat /\ before \in Nat
  BY <1>2, OvertookFinite, WaitingFinite
<1>4. after <= before /\ after \in Nat
  <2>1. IsFiniteSet(Waiting(c, m[i]))
    BY WaitingFinite
  <2>2. IsFiniteSet(later) /\ after <= before
    BY <2>1, FS_Subset
  <2> QED
    BY <2>2, FS_CardinalityType
<1>5. Cardinality(Slots) \in Nat
  BY FrameConstants, FS_CardinalityType
<1> HIDE DEF over, before, after
<1>6. over + after <= Cardinality(Slots) - 1
  BY <1>1, <1>3, <1>4, <1>5
<1> QED
  BY <1>6 DEF over, after

\* A step of one slot that touches no history.
LEMMA SlotStep ==
  ASSUME FireInvariant, NEW r \in Slots, NEW place \in FfPlaces, NEW g \in FramesTaken,
         ffPc' = [ffPc EXCEPT ![r] = place], frame' = [frame EXCEPT ![r] = g],
         UNCHANGED <<frameTime, history, matched>>,
         place # "idle" => g.camera \in Cameras /\ g.at <= frameTime /\ frameTime <= g.at + Late,
         place \in {"wait", "FIRE"} =>
           \/ g.at = frameTime
           \/ g.camera = frame[r].camera /\ g.at = frame[r].at /\ ffPc[r] \in {"wait", "FIRE"}
  PROVE  FireInvariant'
<1>1. FireTypes'
  BY DEF FireInvariant, FireTypes
<1>2. InFlight'
  BY DEF FireInvariant, FireTypes, InFlight
<1>3. HistoriesAgree'
  BY DEF FireInvariant, HistoriesAgree
<1>4. FewOvertake'
  <2>1. ASSUME NEW c \in Cameras, NEW i \in 1 .. Len(matched[<<c, "FIRE">>])
        PROVE  Cardinality(Overtook(matched[<<c, "FIRE">>], i))
                 + Cardinality(Waiting(c, matched[<<c, "FIRE">>][i])') <= Cardinality(Slots) - 1
    <3> DEFINE x == matched[<<c, "FIRE">>][i]
    <3>1. x <= frameTime /\ x \in Nat /\ frameTime \in Nat
      <4>1. "FIRE" \in EventTypes
        BY DEF EventTypes
      <4>2. /\ <<c, "FIRE">> \in Cameras \X EventTypes /\ matched[<<c, "FIRE">>] \in Seq(Nat)
        BY <4>1, FireKeys DEF FireInvariant
      <4>3. Kept(history[<<c, "FIRE">>], matched[<<c, "FIRE">>], frameTime)
        BY <4>2 DEF FireInvariant, HistoriesAgree
      <4>4. frameTime \in Nat
        BY DEF FireInvariant, FireTypes
      <4>5. x \in Nat
        BY <4>2
      <4>6. x <= frameTime
        BY <4>3 DEF Kept
      <4> QED
        BY <4>4, <4>5, <4>6
    <3> DEFINE later == {q \in Slots : ffPc'[q] \in {"wait", "FIRE"} /\ frame'[q].camera = c /\ frame'[q].at < x}
    <3>2. Waiting(c, matched[<<c, "FIRE">>][i])' = later
      BY DEF Waiting
    <3> HIDE DEF x
    <3>3. ASSUME NEW q \in later PROVE q \in Waiting(c, x)
      <4>1. q \in Slots /\ ffPc'[q] \in {"wait", "FIRE"} /\ frame'[q].camera = c /\ frame'[q].at < x
        OBVIOUS
      <4>2. CASE q # r
        <5>1. ffPc'[q] = ffPc[q]
          BY <4>1, <4>2 DEF FireInvariant, FireTypes
        <5>2. frame'[q] = frame[q]
          BY <4>1, <4>2 DEF FireInvariant, FireTypes
        <5> QED
          BY <4>1, <5>1, <5>2 DEF Waiting
      <4>3. CASE q = r
        <5>a. ffPc'[r] = place
          BY DEF FireInvariant, FireTypes
        <5>b. frame'[r] = g
          BY DEF FireInvariant, FireTypes
        <5>1. place \in {"wait", "FIRE"} /\ g.camera = c /\ g.at < x
          BY <4>1, <4>3, <5>a, <5>b
        <5>2. g.at # frameTime
          <6>1. g.at \in Nat
            BY DEF FramesTaken
          <6> QED
            BY <3>1, <5>1, <6>1
        <5> QED
          BY <4>3, <5>1, <5>2 DEF Waiting
      <4> QED
        BY <4>2, <4>3
    <3>4. later \subseteq Waiting(c, matched[<<c, "FIRE">>][i])
      BY <3>3 DEF x
    <3>5. FireTypes /\ FewOvertake
      BY DEF FireInvariant
    <3> HIDE DEF later
    <3>6. Cardinality(Overtook(matched[<<c, "FIRE">>], i)) + Cardinality(later) <= Cardinality(Slots) - 1
      BY <3>4, <3>5, FewerWait
    <3> QED
      BY <3>2, <3>6
  <2> QED
    BY <2>1 DEF FewOvertake
<1> QED
  BY <1>1, <1>2, <1>3, <1>4 DEF FireInvariant
LEMMA BestIsThere ==
  ASSUME NEW found \in Seq(Candidate), NEW hits \in SUBSET (DOMAIN found), hits # {}
  PROVE  Best(found, hits) \in Candidate
<1>1. \A e \in Candidate : e.conf \in Nat
  BY DEF Candidate
<1>2. PICK i \in hits : Top(found, hits) = found[i]
  BY <1>1, TopIsThere
<1>3. Best(found, hits) = Top(found, hits)
  BY DEF Best, Top
<1>4. found[i] \in Candidate
  OBVIOUS
<1> QED
  BY <1>2, <1>3, <1>4

\* What Filter makes of the history and of the frames seen of its camera and type.
Filtered(r, type, new, seen) ==
  LET k == <<frame[r].camera, type>>
  IN /\ history' = [history EXCEPT ![k] = new] /\ matched' = [matched EXCEPT ![k] = seen]
     /\ seen = matched[k] \/ seen = Append(matched[k], frame[r].at)
     /\ Kept(new, seen, frameTime)
     /\ \A i \in 1 .. Len(new) : new[i].at >= frame[r].at - Window - Late
     /\ alarm' = IF Raised(new, type, frame[r].at) THEN Event(frame[r].camera, type, new) ELSE Nothing

LEMMA FrameAtWork ==
  ASSUME FireInvariant, NEW r \in Slots, ffPc[r] \in EventTypes
  PROVE  /\ frame[r] \in FramesTaken /\ frame[r].camera \in Cameras /\ frame[r].at \in Nat
         /\ frame[r].found \in Seq(Candidate) /\ frameTime \in Nat
         /\ frame[r].at <= frameTime /\ frameTime <= frame[r].at + Late
<1>1. ffPc[r] # "idle"
  BY DEF EventTypes
<1>2. frame[r] \in FramesTaken /\ frameTime \in Nat
  BY DEF FireInvariant, FireTypes
<1> QED
  BY <1>1, <1>2 DEF FireInvariant, InFlight, FramesTaken

LEMMA FilterResult ==
  ASSUME FireInvariant, NEW r \in Slots, NEW type \in EventTypes, Filter(r, type)
  PROVE  \E new \in Seq(Items), seen \in Seq(Nat) : Filtered(r, type, new, seen)
<1> DEFINE f == frame[r]
           k == <<f.camera, type>>
           hits == Matching(f.found, type)
           best == Best(f.found, hits)
           item == [at |-> f.at, conf |-> best.conf, area |-> best.area]
           h == IF hits = {} THEN history[k] ELSE Remembered(history[k], item, MaxHistory)
           seen == IF hits = {} THEN matched[k] ELSE Append(matched[k], f.at)
           new == Pruned(h, f.at)
<1>1. /\ history' = [history EXCEPT ![k] = new] /\ matched' = [matched EXCEPT ![k] = seen]
      /\ alarm' = IF Raised(new, type, f.at) THEN Event(f.camera, type, new) ELSE Nothing
  BY DEF Filter
<1>2. /\ f.camera \in Cameras /\ f.at \in Nat /\ f.found \in Seq(Candidate) /\ frameTime \in Nat
      /\ f.at <= frameTime /\ frameTime <= f.at + Late
  <2>1. ffPc[r] \in EventTypes
    BY DEF Filter
  <2> QED
    BY <2>1, FrameAtWork
<1>3. /\ k \in Cameras \X EventTypes /\ history[k] \in Seq(Items) /\ matched[k] \in Seq(Nat)
  BY <1>2, FireKeys DEF FireInvariant
<1>4. Kept(history[k], matched[k], frameTime)
  BY <1>3 DEF FireInvariant, HistoriesAgree
<1>5. h \in Seq(Items) /\ seen \in Seq(Nat) /\ Kept(h, seen, frameTime)
  <2>1. CASE hits = {}
    BY <1>3, <1>4, <2>1
  <2>2. CASE hits # {}
    <3>1. hits \in SUBSET (DOMAIN f.found)
      BY DEF Matching
    <3>2. best \in Candidate
      <4> HIDE DEF hits
      <4> QED
        BY <1>2, <2>2, <3>1, BestIsThere
    <3>3. best.conf \in Nat /\ best.area \in Nat
      BY <3>2 DEF Candidate
    <3>4. item \in Items /\ item.at = f.at
      <4> HIDE DEF best
      <4> QED
        BY <1>2, <3>3 DEF Items
    <3>5. h = Remembered(history[k], item, MaxHistory) /\ seen = Append(matched[k], item.at)
      BY <2>2, <3>4
    <3> HIDE DEF h, seen, item
    <3>6. Remembered(history[k], item, MaxHistory) \in Seq(Items)
          /\ Kept(Remembered(history[k], item, MaxHistory), Append(matched[k], item.at), frameTime)
      BY <1>2, <1>3, <1>4, <3>4, RememberedIsKept
    <3>7. seen \in Seq(Nat)
      BY <1>2, <1>3, <3>4, <3>5
    <3> QED
      BY <3>5, <3>6, <3>7
  <2> QED
    BY <2>1, <2>2
<1>6. seen = matched[k] \/ seen = Append(matched[k], f.at)
  OBVIOUS
<1> HIDE DEF h, seen
<1>7. /\ new \in Seq(Items) /\ Kept(new, seen, frameTime)
      /\ \A i \in 1 .. Len(new) : new[i].at >= f.at - Window - Late
  BY <1>2, <1>5, PrunedIsKept
<1> HIDE DEF new
<1>8. Filtered(r, type, new, seen)
  BY <1>1, <1>6, <1>7 DEF Filtered
<1> QED
  BY <1>5, <1>7, <1>8

\* A frame that is filtered waits no longer.
LEMMA LeavesWaiting ==
  ASSUME FireInvariant, NEW r \in Slots, NEW type \in EventTypes, Filter(r, type), NEW c, NEW x
  PROVE  {q \in Slots : ffPc'[q] \in {"wait", "FIRE"} /\ frame'[q].camera = c /\ frame'[q].at < x}
           \subseteq Waiting(c, x) \ {r}
<1> SUFFICES ASSUME NEW q \in Slots, ffPc'[q] \in {"wait", "FIRE"},
                    frame'[q].camera = c, frame'[q].at < x
             PROVE  q \in Waiting(c, x) \ {r}
  OBVIOUS
<1>1. ffPc'[r] = IF type = "FIRE" THEN "SMOKE" ELSE "idle"
  BY DEF Filter, FireInvariant, FireTypes
<1>2. q # r
  BY <1>1
<1>3. ffPc'[q] = ffPc[q]
  BY <1>2 DEF Filter, FireInvariant, FireTypes
<1>4. frame'[q] = frame[q]
  <2> DEFINE g == IF type = "FIRE" THEN frame[r] ELSE NoFrame
  <2>1. frame' = [frame EXCEPT ![r] = g]
    BY DEF Filter
  <2> HIDE DEF g
  <2> QED
    BY <1>2, <2>1 DEF FireInvariant, FireTypes
<1> QED
  BY <1>2, <1>3, <1>4 DEF Waiting

\* One more frame has arrived: those it overtook have one frame less to wait for.
LEMMA OneMoreArrives ==
  ASSUME NEW m \in Seq(Nat), NEW a \in Nat, NEW waiting \in SUBSET Slots, NEW later,
         NEW r \in Slots, later \subseteq waiting \ {r}, NEW i \in 1 .. Len(m),
         a < m[i] => r \in waiting,
         Cardinality(Overtook(m, i)) + Cardinality(waiting) <= Cardinality(Slots) - 1
  PROVE  Cardinality(Overtook(Append(m, a), i)) + Cardinality(later) <= Cardinality(Slots) - 1
<1> DEFINE L == Len(m)
           over == Overtook(m, i)
           more == Overtook(Append(m, a), i)
<1>1. L \in Nat /\ Len(Append(m, a)) = L + 1 /\ Append(m, a)[L + 1] = a
      /\ \A j \in 1 .. L : Append(m, a)[j] = m[j]
  OBVIOUS
<1>2. IsFiniteSet(waiting) /\ IsFiniteSet(later) /\ later \subseteq waiting
  BY FrameConstants, FS_Subset
<1>3. /\ Cardinality(waiting) \in Nat /\ Cardinality(later) \in Nat /\ Cardinality(Slots) \in Nat
      /\ Cardinality(later) <= Cardinality(waiting)
  BY <1>2, FrameConstants, FS_CardinalityType, FS_Subset
<1>4. IsFiniteSet(over) /\ Cardinality(over) \in Nat
  BY OvertookFinite
<1>5. CASE a < m[i]
  <2>1. more = over \cup {L + 1}
    <3>1. ASSUME NEW j \in more PROVE j \in over \cup {L + 1}
      <4>1. j \in 1 .. L + 1 /\ i < j /\ Append(m, a)[j] < m[i]
        BY <1>1 DEF Overtook
      <4>2. CASE j = L + 1
        BY <4>2
      <4>3. CASE j # L + 1
        <5>1. j \in 1 .. L
          BY <1>1, <4>1, <4>3
        <5> QED
          BY <1>1, <4>1, <5>1 DEF Overtook
      <4> QED
        BY <4>2, <4>3
    <3>2. ASSUME NEW j \in over \cup {L + 1} PROVE j \in more
      <4>1. CASE j = L + 1
        BY <1>1, <1>5, <4>1 DEF Overtook
      <4>2. CASE j \in over
        <5>1. j \in 1 .. L /\ i < j /\ m[j] < m[i] /\ j \in 1 .. L + 1
          BY <1>1, <4>2 DEF Overtook
        <5> QED
          BY <1>1, <5>1 DEF Overtook
      <4> QED
        BY <4>1, <4>2
    <3> HIDE DEF more, over, L
    <3> QED
      BY <3>1, <3>2
  <2>2. L + 1 \notin over
    BY <1>1 DEF Overtook
  <2> HIDE DEF over, more, L
  <2>3. Cardinality(more) = Cardinality(over) + 1
    BY <1>4, <2>1, <2>2, FS_AddElement
  <2>4. Cardinality(later) <= Cardinality(waiting) - 1
    <3>1. Cardinality(waiting \ {r}) = Cardinality(waiting) - 1
      BY <1>2, <1>5, FS_RemoveElement
    <3>2. IsFiniteSet(waiting \ {r})
      BY <1>2, FS_Subset
    <3>3. Cardinality(later) <= Cardinality(waiting \ {r})
      BY <3>2, FS_Subset
    <3> QED
      BY <3>1, <3>3
  <2>5. Cardinality(over) + Cardinality(waiting) <= Cardinality(Slots) - 1
    BY DEF over
  <2>6. Cardinality(more) + Cardinality(later) <= Cardinality(Slots) - 1
    BY <1>3, <1>4, <2>3, <2>4, <2>5
  <2> QED
    BY <2>6 DEF more
<1>6. CASE ~ (a < m[i])
  <2>1. more = over
    <3>1. ASSUME NEW j \in more PROVE j \in over
      <4>1. j \in 1 .. L + 1 /\ i < j /\ Append(m, a)[j] < m[i]
        BY <1>1 DEF Overtook
      <4>2. j # L + 1
        BY <1>1, <1>6, <4>1
      <4>3. j \in 1 .. L
        BY <1>1, <4>1, <4>2
      <4> QED
        BY <1>1, <4>1, <4>3 DEF Overtook
    <3>2. ASSUME NEW j \in over PROVE j \in more
      <4>1. j \in 1 .. L /\ i < j /\ m[j] < m[i] /\ j \in 1 .. L + 1
        BY <1>1 DEF Overtook
      <4> QED
        BY <1>1, <4>1 DEF Overtook
    <3> HIDE DEF more, over
    <3> QED
      BY <3>1, <3>2
  <2>2. Cardinality(over) + Cardinality(waiting) <= Cardinality(Slots) - 1
    BY DEF over
  <2> HIDE DEF over, more
  <2>3. Cardinality(more) + Cardinality(later) <= Cardinality(Slots) - 1
    BY <1>3, <1>4, <2>1, <2>2
  <2> QED
    BY <2>3 DEF more
<1> QED
  BY <1>5, <1>6

\* The newest frame of a history is overtaken by none.
LEMMA NewestArrives ==
  ASSUME NEW m \in Seq(Nat), NEW a \in Nat, NEW r \in Slots, NEW later, later \subseteq Slots \ {r}
  PROVE  Cardinality(Overtook(Append(m, a), Len(m) + 1)) + Cardinality(later) <= Cardinality(Slots) - 1
<1>1. Overtook(Append(m, a), Len(m) + 1) = {}
  BY DEF Overtook
<1>2. Cardinality(Slots \ {r}) = Cardinality(Slots) - 1 /\ IsFiniteSet(Slots \ {r})
  BY FrameConstants, FS_RemoveElement, FS_Subset
<1>3. Cardinality(later) <= Cardinality(Slots \ {r}) /\ IsFiniteSet(later)
  BY <1>2, FS_Subset
<1>4. Cardinality(later) \in Nat /\ Cardinality(Slots) \in Nat
  BY <1>3, FrameConstants, FS_CardinalityType
<1>5. Cardinality(Overtook(Append(m, a), Len(m) + 1)) = 0
  BY <1>1, FS_EmptySet
<1> DEFINE x == Cardinality(Overtook(Append(m, a), Len(m) + 1))
           y == Cardinality(later)
<1>6. x = 0 /\ y <= Cardinality(Slots) - 1 /\ y \in Nat
  BY <1>2, <1>3, <1>4, <1>5
<1> HIDE DEF x, y
<1>7. x + y <= Cardinality(Slots) - 1
  BY <1>4, <1>6
<1> QED
  BY <1>7 DEF x, y

LEMMA FilterKeeps ==
  ASSUME FireInvariant, NEW r \in Slots, NEW type \in EventTypes, Filter(r, type)
  PROVE  FireInvariant'
<1> DEFINE f == frame[r]
           k == <<f.camera, type>>
           place == IF type = "FIRE" THEN "SMOKE" ELSE "idle"
           g == IF type = "FIRE" THEN f ELSE NoFrame
<1>1. /\ ffPc[r] = type /\ ffPc' = [ffPc EXCEPT ![r] = place] /\ frame' = [frame EXCEPT ![r] = g]
      /\ frameTime' = frameTime
  BY DEF Filter
<1>2. PICK new \in Seq(Items), seen \in Seq(Nat) : Filtered(r, type, new, seen)
  BY FilterResult
<1>3. /\ history' = [history EXCEPT ![k] = new] /\ matched' = [matched EXCEPT ![k] = seen]
      /\ seen = matched[k] \/ seen = Append(matched[k], f.at)
      /\ Kept(new, seen, frameTime)
  BY <1>2 DEF Filtered
<1>4. /\ f \in FramesTaken /\ f.camera \in Cameras /\ f.at \in Nat /\ frameTime \in Nat
      /\ f.at <= frameTime /\ frameTime <= f.at + Late
  BY <1>1, FrameAtWork
<1>5. k \in Cameras \X EventTypes /\ matched[k] \in Seq(Nat)
  BY <1>4, FireKeys DEF FireInvariant
<1>6. FireTypes
  BY DEF FireInvariant
<1>7. g \in FramesTaken /\ place \in FfPlaces
  <2>1. NoFrame \in FramesTaken
    BY DEF NoFrame, Taken, FramesTaken
  <2> QED
    BY <1>4, <2>1 DEF FfPlaces
<1> HIDE DEF k
<1>8. FireTypes'
  <2>1. frame' \in [Slots -> FramesTaken] /\ ffPc' \in [Slots -> FfPlaces]
    <3> HIDE DEF g, place
    <3> QED
      BY <1>1, <1>6, <1>7 DEF FireTypes
  <2>2. history' \in [Cameras \X EventTypes -> Seq(Items)] /\ matched' \in [Cameras \X EventTypes -> Seq(Nat)]
    BY <1>3, <1>5, <1>6 DEF FireTypes
  <2> QED
    BY <1>1, <1>4, <2>1, <2>2 DEF FireTypes
<1>9. InFlight'
  <2>1. ASSUME NEW q \in Slots, ffPc'[q] # "idle"
        PROVE  /\ frame'[q].camera \in Cameras
               /\ frame'[q].at <= frameTime /\ frameTime <= frame'[q].at + Late
    <3>1. CASE q = r
      <4>1. ffPc'[r] = place /\ frame'[r] = g
        <5> HIDE DEF g, place
        <5> QED
          BY <1>1, <1>6 DEF FireTypes
      <4>2. g = f
        BY <2>1, <3>1, <4>1
      <4> HIDE DEF f, g
      <4> QED
        BY <1>4, <3>1, <4>1, <4>2
    <3>2. CASE q # r
      <4>1. ffPc'[q] = ffPc[q] /\ frame'[q] = frame[q]
        <5> HIDE DEF g, place
        <5> QED
          BY <1>1, <1>6, <3>2 DEF FireTypes
      <4> QED
        BY <2>1, <4>1 DEF FireInvariant, InFlight
    <3> QED
      BY <3>1, <3>2
  <2> QED
    BY <1>1, <2>1 DEF InFlight
<1>10. HistoriesAgree'
  <2>1. ASSUME NEW key \in Cameras \X EventTypes PROVE Kept(history'[key], matched'[key], frameTime)
    <3>1. CASE key = k
      <4>1. history'[k] = new /\ matched'[k] = seen
        BY <1>3, <1>5, <1>6 DEF FireTypes
      <4> QED
        BY <1>3, <3>1, <4>1
    <3>2. CASE key # k
      <4>1. history'[key] = history[key] /\ matched'[key] = matched[key]
        BY <1>3, <1>6, <3>2 DEF FireTypes
      <4> QED
        BY <4>1 DEF FireInvariant, HistoriesAgree
    <3> QED
      BY <3>1, <3>2
  <2> QED
    BY <1>1, <2>1 DEF HistoriesAgree
<1>11. FewOvertake'
  <2>1. ASSUME NEW c \in Cameras, NEW i \in 1 .. Len(matched'[<<c, "FIRE">>])
        PROVE  Cardinality(Overtook(matched'[<<c, "FIRE">>], i))
                 + Cardinality(Waiting(c, matched[<<c, "FIRE">>][i])') <= Cardinality(Slots) - 1
    <3> DEFINE m == matched[<<c, "FIRE">>]
               x == matched'[<<c, "FIRE">>][i]
               later == {q \in Slots : ffPc'[q] \in {"wait", "FIRE"} /\ frame'[q].camera = c /\ frame'[q].at < x}
    <3>1. Waiting(c, matched[<<c, "FIRE">>][i])' = later
      BY DEF Waiting
    <3>2. later \subseteq Waiting(c, x) \ {r}
      <4> HIDE DEF x
      <4> QED
        BY LeavesWaiting
    <3>3. "FIRE" \in EventTypes
      BY DEF EventTypes
    <3>4. m \in Seq(Nat) /\ <<c, "FIRE">> \in Cameras \X EventTypes
      BY <1>6, <3>3, FireKeys
    <3>5. CASE matched'[<<c, "FIRE">>] = m
      <4>1. i \in 1 .. Len(m) /\ later \subseteq Waiting(c, m[i])
        <5>1. x = m[i]
          BY <3>5
        <5> HIDE DEF x, later
        <5> QED
          BY <3>2, <3>5, <5>1
      <4>2. FewOvertake
        BY DEF FireInvariant
      <4> HIDE DEF later
      <4>3. Cardinality(Overtook(m, i)) + Cardinality(later) <= Cardinality(Slots) - 1
        BY <1>6, <4>1, <4>2, FewerWait
      <4> QED
        BY <3>1, <3>5, <4>3
    <3>6. CASE matched'[<<c, "FIRE">>] # m
      <4>1. k = <<c, "FIRE">>
        BY <1>3, <1>6, <3>4, <3>6 DEF FireTypes
      <4>2. c = f.camera /\ type = "FIRE"
        BY <4>1 DEF k
      <4>3. matched'[<<c, "FIRE">>] = seen
        BY <1>3, <1>6, <3>4, <4>1 DEF FireTypes
      <4>4. seen = Append(m, f.at)
        BY <1>3, <3>6, <4>1, <4>3
      <4>5. CASE i = Len(m) + 1
        <5>1. later \subseteq Slots \ {r}
          <6>1. Waiting(c, x) \subseteq Slots
            BY DEF Waiting
          <6> HIDE DEF later, x
          <6> QED
            BY <3>2, <6>1
        <5> HIDE DEF later, m
        <5>2. Cardinality(Overtook(Append(m, f.at), Len(m) + 1)) + Cardinality(later) <= Cardinality(Slots) - 1
          BY <1>4, <3>4, <5>1, NewestArrives
        <5> QED
          BY <3>1, <4>3, <4>4, <4>5, <5>2
      <4>6. CASE i # Len(m) + 1
        <5>1. i \in 1 .. Len(m) /\ Append(m, f.at)[i] = m[i]
          <6>1. Len(seen) = Len(m) + 1 /\ i \in 1 .. Len(seen)
            BY <1>4, <3>4, <4>3, <4>4
          <6>2. i \in 1 .. Len(m)
            <7>1. Len(m) \in Nat
              BY <3>4
            <7> HIDE DEF m
            <7> QED
              BY <4>6, <6>1, <7>1
          <6> HIDE DEF m
          <6> QED
            BY <1>4, <3>4, <6>2
        <5>2. x = m[i]
          BY <4>3, <4>4, <5>1
        <5> DEFINE waiting == Waiting(c, m[i])
        <5>3. later \subseteq waiting \ {r}
          <6> HIDE DEF later, x, m
          <6> QED
            BY <3>2, <5>2
        <5>4. f.at < m[i] => r \in waiting
          BY <1>1, <4>2 DEF Waiting
        <5>5. waiting \in SUBSET Slots
          BY DEF Waiting
        <5>6. Cardinality(Overtook(m, i)) + Cardinality(waiting) <= Cardinality(Slots) - 1
          BY <5>1 DEF FireInvariant, FewOvertake
        <5> HIDE DEF later, m, waiting
        <5>7. Cardinality(Overtook(Append(m, f.at), i)) + Cardinality(later) <= Cardinality(Slots) - 1
          BY <1>4, <3>4, <5>1, <5>3, <5>4, <5>5, <5>6, OneMoreArrives
        <5> QED
          BY <3>1, <4>3, <4>4, <5>7
      <4> QED
        BY <4>5, <4>6
    <3> QED
      BY <3>5, <3>6
  <2> QED
    BY <2>1 DEF FewOvertake
<1> QED
  BY <1>8, <1>9, <1>10, <1>11 DEF FireInvariant

LEMMA FireInitAgrees == FfInit => FireInvariant
<1> SUFFICES ASSUME FfInit PROVE FireInvariant
  OBVIOUS
<1>1. NoFrame \in FramesTaken
  BY DEF NoFrame, Taken, FramesTaken
<1>2. FireTypes
  BY <1>1 DEF FfInit, FireTypes, FfPlaces
<1>3. InFlight
  BY DEF FfInit, InFlight
<1>4. HistoriesAgree
  BY NothingIsKept DEF FfInit, HistoriesAgree
<1>5. FewOvertake
  <2>1. ASSUME NEW c \in Cameras PROVE matched[<<c, "FIRE">>] = << >>
    BY DEF FfInit, EventTypes
  <2> QED
    BY <2>1 DEF FewOvertake
<1> QED
  BY <1>2, <1>3, <1>4, <1>5 DEF FireInvariant

LEMMA FrameKeeps ==
  ASSUME FireInvariant, NEW r \in Slots, Frame(r)
  PROVE  FireInvariant'
<1>1. PICK c \in Cameras :
        /\ ffPc' = [ffPc EXCEPT ![r] = "wait"]
        /\ frame' = [frame EXCEPT ![r] = Taken(c, frameTime, <<>>)]
        /\ UNCHANGED <<frameTime, history, matched>>
  BY DEF Frame
<1> DEFINE g == Taken(c, frameTime, <<>>)
<1>2. frameTime \in Nat /\ Late \in Nat
  BY FrameConstants DEF FireInvariant, FireTypes
<1>3. /\ g \in FramesTaken /\ g.camera \in Cameras /\ g.at = frameTime
      /\ g.at <= frameTime /\ frameTime <= g.at + Late
  BY <1>2 DEF Taken, FramesTaken
<1>4. "wait" \in FfPlaces
  BY DEF FfPlaces
<1> HIDE DEF g
<1>5. frame' = [frame EXCEPT ![r] = g]
  BY <1>1 DEF g
<1> QED
  BY <1>1, <1>3, <1>4, <1>5, SlotStep

LEMMA InferKeeps ==
  ASSUME FireInvariant, NEW r \in Slots, Infer(r)
  PROVE  FireInvariant'
<1>1. PICK found \in Predictions : frame' = [frame EXCEPT ![r] = Taken(frame[r].camera, frame[r].at, found)]
  BY DEF Infer
<1>2. /\ ffPc[r] = "wait" /\ ffPc' = [ffPc EXCEPT ![r] = "FIRE"]
      /\ UNCHANGED <<frameTime, history, matched>>
  BY DEF Infer
<1> DEFINE g == Taken(frame[r].camera, frame[r].at, found)
<1>3. /\ frame[r].camera \in Cameras
      /\ frame[r].at <= frameTime /\ frameTime <= frame[r].at + Late
  BY <1>2 DEF FireInvariant, InFlight
<1>4. frame[r].at \in Nat
  BY DEF FireInvariant, FireTypes, FramesTaken
<1>5. found \in Seq(Candidate)
  BY FrameAssumption DEF FrameAssumption
<1>6. /\ g \in FramesTaken /\ g.camera = frame[r].camera /\ g.at = frame[r].at
  BY <1>3, <1>4, <1>5 DEF Taken, FramesTaken
<1>7. "FIRE" \in FfPlaces
  BY DEF FfPlaces
<1> HIDE DEF g
<1>8. frame' = [frame EXCEPT ![r] = g]
  BY <1>1 DEF g
<1> QED
  BY <1>2, <1>3, <1>6, <1>7, <1>8, SlotStep

LEMMA FrameRefusedKeeps ==
  ASSUME FireInvariant, NEW r \in Slots, FrameRefused(r)
  PROVE  FireInvariant'
<1>1. NoFrame \in FramesTaken
  BY DEF NoFrame, Taken, FramesTaken
<1>2. "idle" \in FfPlaces
  BY DEF FfPlaces
<1>3. /\ ffPc' = [ffPc EXCEPT ![r] = "idle"] /\ frame' = [frame EXCEPT ![r] = NoFrame]
      /\ UNCHANGED <<frameTime, history, matched>>
  BY DEF FrameRefused
<1> QED
  BY <1>1, <1>2, <1>3, SlotStep

LEMMA ResetCameraKeeps ==
  ASSUME FireInvariant, ResetCamera
  PROVE  FireInvariant'
<1>1. PICK c \in Cameras :
        /\ history' = [k \in DOMAIN history |-> IF k[1] = c THEN <<>> ELSE history[k]]
        /\ matched' = [k \in DOMAIN matched |-> IF k[1] = c THEN <<>> ELSE matched[k]]
  BY DEF ResetCamera
<1>2. UNCHANGED <<frameTime, ffPc, frame>>
  BY DEF ResetCamera
<1>3. ASSUME NEW k \in Cameras \X EventTypes
      PROVE  \/ history'[k] = <<>> /\ matched'[k] = <<>>
             \/ history'[k] = history[k] /\ matched'[k] = matched[k]
  BY <1>1 DEF FireInvariant, FireTypes
<1>4. FireTypes'
  <2>1. history' \in [Cameras \X EventTypes -> Seq(Items)]
    BY <1>1 DEF FireInvariant, FireTypes
  <2>2. matched' \in [Cameras \X EventTypes -> Seq(Nat)]
    BY <1>1 DEF FireInvariant, FireTypes
  <2> QED
    BY <1>2, <2>1, <2>2 DEF FireInvariant, FireTypes
<1>5. InFlight'
  BY <1>2 DEF FireInvariant, InFlight
<1>6. HistoriesAgree'
  BY <1>2, <1>3, NothingIsKept DEF FireInvariant, HistoriesAgree
<1>7. FewOvertake'
  <2>1. ASSUME NEW d \in Cameras, NEW i \in 1 .. Len(matched'[<<d, "FIRE">>])
        PROVE  Cardinality(Overtook(matched'[<<d, "FIRE">>], i))
                 + Cardinality(Waiting(d, matched[<<d, "FIRE">>][i])') <= Cardinality(Slots) - 1
    <3>1. matched'[<<d, "FIRE">>] = matched[<<d, "FIRE">>]
      <4>1. matched'[<<d, "FIRE">>] # << >>
        OBVIOUS
      <4> QED
        BY <1>3, <4>1 DEF EventTypes
    <3>2. Waiting(d, matched[<<d, "FIRE">>][i])' = Waiting(d, matched[<<d, "FIRE">>][i])
      BY <1>2, <3>1 DEF Waiting
    <3> QED
      BY <3>1, <3>2 DEF FireInvariant, FewOvertake
  <2> QED
    BY <2>1 DEF FewOvertake
<1> QED
  BY <1>4, <1>5, <1>6, <1>7 DEF FireInvariant

LEMMA TimePassesKeeps ==
  ASSUME FireInvariant, TimePasses
  PROVE  FireInvariant'
<1>1. /\ \A r \in Slots : ffPc[r] # "idle" => frameTime < frame[r].at + Late
      /\ frameTime' = frameTime + 1 /\ UNCHANGED <<history, matched, ffPc, frame>>
  BY DEF TimePasses
<1>2. frameTime \in Nat /\ frameTime' \in Nat /\ Late \in Nat /\ \A r \in Slots : frame[r].at \in Nat
  BY <1>1, FrameConstants DEF FireInvariant, FireTypes, FramesTaken
<1>3. FireTypes'
  BY <1>1, <1>2 DEF FireInvariant, FireTypes
<1>4. InFlight'
  <2>1. ASSUME NEW r \in Slots, ffPc[r] # "idle"
        PROVE  /\ frame[r].camera \in Cameras
               /\ frame[r].at <= frameTime' /\ frameTime' <= frame[r].at + Late
    <3>1. /\ frame[r].camera \in Cameras /\ frame[r].at <= frameTime /\ frameTime < frame[r].at + Late
      BY <1>1, <2>1 DEF FireInvariant, InFlight
    <3> QED
      BY <1>1, <1>2, <3>1
  <2> QED
    BY <1>1, <2>1 DEF InFlight
<1>5. HistoriesAgree'
  <2>1. ASSUME NEW k \in Cameras \X EventTypes PROVE Kept(history[k], matched[k], frameTime')
    <3>1. history[k] \in Seq(Items) /\ matched[k] \in Seq(Nat) /\ Kept(history[k], matched[k], frameTime)
      BY DEF FireInvariant, FireTypes, HistoriesAgree
    <3>2. frameTime <= frameTime'
      BY <1>1, <1>2
    <3> QED
      BY <1>2, <3>1, <3>2, KeptLater
  <2> QED
    BY <1>1, <2>1 DEF HistoriesAgree
<1>6. FewOvertake'
  BY <1>1 DEF FireInvariant, FewOvertake, Waiting
<1> QED
  BY <1>3, <1>4, <1>5, <1>6 DEF FireInvariant

LEMMA FireStepAgrees ==
  ASSUME FireInvariant, [FfNext]_ffVars
  PROVE  FireInvariant'
<1>1. CASE UNCHANGED fireVars
  BY <1>1 DEF fireVars, FireInvariant, FireTypes, InFlight, HistoriesAgree, FewOvertake, Waiting
<1>2. CASE FireNext
  BY <1>2, FrameKeeps, InferKeeps, FrameRefusedKeeps, FilterKeeps, ResetCameraKeeps, TimePassesKeeps
     DEF FireNext
<1>3. UNCHANGED fireVars \/ FireNext
  BY DEF FfNext, VoterNext, Push, Reset, ffVars
<1> QED
  BY <1>1, <1>2, <1>3

\* Only Filter takes a frame past an event type.
LEMMA OnlyFilter ==
  ASSUME FireInvariant, [FfNext]_ffVars, NEW r \in Slots, NEW type \in EventTypes,
         ffPc[r] = type, ffPc'[r] # type
  PROVE  Filter(r, type)
<1>1. FireNext
  BY DEF FfNext, VoterNext, Push, Reset, ffVars, fireVars
<1>2. ffPc[r] # "idle" /\ ffPc[r] # "wait"
  BY DEF EventTypes
<1>3. ffPc \in [Slots -> FfPlaces]
  BY DEF FireInvariant, FireTypes
<1>4. ASSUME NEW q \in Slots, Frame(q) \/ Infer(q) \/ FrameRefused(q) PROVE FALSE
  <2>1. q # r
    BY <1>2, <1>4 DEF Frame, Infer, FrameRefused
  <2>2. ffPc'[r] = ffPc[r]
    BY <1>3, <1>4, <2>1 DEF Frame, Infer, FrameRefused
  <2> QED
    BY <2>2
<1>5. ASSUME NEW q \in Slots, NEW t \in EventTypes, Filter(q, t) PROVE Filter(r, type)
  <2>1. q = r
    BY <1>3, <1>5 DEF Filter
  <2>2. t = type
    BY <1>5, <2>1 DEF Filter
  <2> QED
    BY <1>5, <2>1, <2>2
<1>6. ~ (ResetCamera \/ TimePasses)
  BY DEF ResetCamera, TimePasses
<1> QED
  BY <1>1, <1>4, <1>5, <1>6 DEF FireNext

\* The frames an alarm counts are those its history keeps.
LEMMA AlarmCounts ==
  ASSUME FireInvariant, NEW r \in Slots, NEW type \in EventTypes, Filter(r, type), alarm' # Nothing
  PROVE  /\ alarm'.camera = frame[r].camera /\ alarm'.type = type
         /\ alarm'.count <= SeenSince(matched'[<<frame[r].camera, type>>], frame[r].at - Window - Late)
<1> DEFINE k == <<frame[r].camera, type>>
           from == frame[r].at - Window - Late
<1>1. PICK new \in Seq(Items), seen \in Seq(Nat) : Filtered(r, type, new, seen)
  BY FilterResult
<1>2. frame[r].at \in Nat /\ frame[r].camera \in Cameras
  <2>1. ffPc[r] \in EventTypes
    BY DEF Filter
  <2> QED
    BY <2>1, FrameAtWork
<1>3. from \in Int
  BY <1>2, FrameConstants
<1>4. k \in Cameras \X EventTypes
  BY <1>2
<1>5. matched'[k] = seen
  BY <1>1, <1>4 DEF Filtered, FireInvariant, FireTypes
<1>6. alarm' = Event(frame[r].camera, type, new)
  BY <1>1 DEF Filtered
<1>7. alarm'.camera = frame[r].camera /\ alarm'.type = type /\ alarm'.count = Len(new)
  BY <1>6 DEF Event
<1>8. Kept(new, seen, frameTime) /\ \A i \in 1 .. Len(new) : new[i].at >= from
  BY <1>1 DEF Filtered
<1>9. frameTime \in Nat
  BY DEF FireInvariant, FireTypes
<1> HIDE DEF from
<1>10. Len(new) <= SeenSince(seen, from)
  BY <1>3, <1>8, <1>9, KeptIsSeen
<1> QED
  BY <1>5, <1>7, <1>10 DEF from

\* The history that a frame leaves has the frames that are inside every window, and raises
\* the alarm, or was crowded by strays.
LEMMA FireIsRaised ==
  ASSUME FireInvariant, NEW r \in Slots, Filter(r, "FIRE"),
         NEW c \in Cameras, c = frame[r].camera, NEW seen, seen = matched'[<<c, "FIRE">>],
         SeenSince(seen, frameTime - Window) >= MinFrames
  PROVE  alarm' # Nothing \/ Crowded(seen, frameTime - Window)
<1>1. "FIRE" \in EventTypes
  BY DEF EventTypes
<1>2. PICK new \in Seq(Items), m \in Seq(Nat) : Filtered(r, "FIRE", new, m)
  BY <1>1, FilterResult
<1>3. <<c, "FIRE">> \in Cameras \X EventTypes
  BY <1>1
<1>4. seen = m
  BY <1>2, <1>3 DEF Filtered, FireInvariant, FireTypes
<1>5. Kept(new, m, frameTime) /\ frameTime \in Nat
  BY <1>2 DEF Filtered, FireInvariant, FireTypes
<1>6. CASE Len(new) >= MinFrames
  <2>1. alarm' = Event(c, "FIRE", new)
    BY <1>2, <1>6 DEF Filtered, Raised
  <2>2. Event(c, "FIRE", new) \in Events
    BY <1>1 DEF Event, Events
  <2> QED
    BY <2>1, <2>2, FrameAssumption DEF FrameAssumption
<1>7. CASE ~ (Len(new) >= MinFrames)
  BY <1>4, <1>5, <1>7, FreshFramesAreKept
<1> QED
  BY <1>6, <1>7

\* Nothing an alarm counts is counted twice, taken from another camera or older than the
\* window and a frame's delay, however the frames overtake each other.
THEOREM AlarmsNeverOvercount == FfSpec => AlarmsCountFrames
<1>1. ASSUME FireInvariant, [FfNext]_ffVars
      PROVE  [\A r \in Slots : \A type \in EventTypes :
                ffPc[r] = type /\ ffPc'[r] # type /\ alarm' # Nothing =>
                  LET f == frame[r]
                  IN /\ alarm'.camera = f.camera /\ alarm'.type = type
                     /\ alarm'.count <= SeenSince(matched'[<<f.camera, type>>], f.at - Window - Late)]_fireVars
  BY <1>1, OnlyFilter, AlarmCounts
<1> QED
  BY <1>1, FireInitAgrees, FireStepAgrees, PTL DEF FfSpec, AlarmsCountFrames

\* No frame is ever overtaken by more frames than the server works on beside it.
THEOREM FewFramesOvertake == FfSpec => []FewOvertake
<1>1. FireInvariant => FewOvertake
  BY DEF FireInvariant
<1> QED
  BY <1>1, FireInitAgrees, FireStepAgrees, PTL DEF FfSpec

\* No order of arrival makes process_frame miss a fire seen in enough frames, except that
\* more strays arrive after one of them than the history has room for besides these.
THEOREM FireIsNeverMissed == FfSpec => FireRaisesAlarm
<1>1. ASSUME FireInvariant, [FfNext]_ffVars
      PROVE  [\A r \in Slots :
                ffPc[r] = "FIRE" /\ ffPc'[r] # "FIRE"
                /\ SeenSince(matched'[<<frame[r].camera, "FIRE">>], frameTime - Window) >= MinFrames =>
                  \/ alarm' # Nothing
                  \/ Crowded(matched'[<<frame[r].camera, "FIRE">>], frameTime - Window)]_fireVars
  <2> SUFFICES ASSUME NEW r \in Slots, ffPc[r] = "FIRE", ffPc'[r] # "FIRE",
                      NEW seen, seen = matched'[<<frame[r].camera, "FIRE">>],
                      SeenSince(seen, frameTime - Window) >= MinFrames
               PROVE  alarm' # Nothing \/ Crowded(seen, frameTime - Window)
    OBVIOUS
  <2>1. "FIRE" \in EventTypes
    BY DEF EventTypes
  <2>2. Filter(r, "FIRE")
    BY <1>1, <2>1, OnlyFilter
  <2>3. frame[r].camera \in Cameras
    BY <1>1, <2>1, FrameAtWork
  <2> QED
    BY <1>1, <2>2, <2>3, FireIsRaised
<1> QED
  BY <1>1, FireInitAgrees, FireStepAgrees, PTL DEF FfSpec, FireRaisesAlarm
=============================================================================
