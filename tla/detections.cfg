SPECIFICATION DtSpec
CONSTANTS
  NoSlot = NoSlot
  Slots = {r1, r2}
  Buildings = {1, 2}
  LastBuilding = 2
  People = {someone}
  plateA = plateA
  plateB = plateB
  Images = {image1, image2}
  Captures = {c1}
  FreshIds = {f1}
  Keys = {k1, k2}
  Results <- MCResults
  PlatesTyped = {plateA, plateB}
  NoPlate = NoPlate
  NoCapture = NoCapture
  NoImage = NoImage
  NoKey = NoKey
  NoDetection = NoDetection
  NoResult = NoResult
SYMMETRY MCSymmetry
INVARIANTS
  ImageOfDetection
  CaptureAnswersOnce
  InOneStatus
