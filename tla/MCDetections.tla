---------------------------- MODULE MCDetections ----------------------------
(***************************************************************************)
(* Uploads and confirmations: one id that a client chose and sends again,  *)
(* one detection without a capture id, two images, two requests at a time. *)
(***************************************************************************)
EXTENDS Detections, TLC

CONSTANTS plateA, plateB

MCResults == {[plate |-> plateA, review |-> FALSE], [plate |-> NoPlate, review |-> TRUE]}

MCSymmetry == Permutations(Slots) \cup Permutations(Keys) \cup Permutations(Images)
=============================================================================
