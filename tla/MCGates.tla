------------------------------- MODULE MCGates -------------------------------
(***************************************************************************)
(* One instance for what happens at the gates: the price, the cameras and  *)
(* the barriers.                                                           *)
(***************************************************************************)
EXTENDS MCPricing, FrameFilters, Recognition, Barriers

CONSTANTS plateA, plateB, west, east

Shape(l, c, a, m) == [label |-> l, conf |-> c, area |-> a, masked |-> m]
MCPredictions ==
  {<<Shape("OTHER", 9, 4, FALSE), Shape("FIRE", 9, 0, FALSE), Shape("SMOKE", 8, 9, TRUE),
     Shape("SMOKE", 4, 4, FALSE)>>,
   <<Shape("FIRE", 3, 4, FALSE), Shape("FIRE", 5, 4, FALSE), Shape("SMOKE", 4, 9, FALSE)>>}
MCThreshold == [t \in EventTypes |-> IF t = "FIRE" THEN 5 ELSE 4]

PlateBox(c, f, q) == [label |-> "PLATE", conf |-> c, fits |-> f, clear |-> q, around |-> FALSE]
VehicleBox(l, c, a) == [label |-> l, conf |-> c, fits |-> TRUE, clear |-> TRUE, around |-> a]
MCBoxes ==
  {<<VehicleBox("BICYCLE", 8, FALSE), PlateBox(1, TRUE, TRUE)>>,
   <<PlateBox(9, FALSE, TRUE), PlateBox(6, TRUE, TRUE)>>,
   <<VehicleBox("CAR", 8, FALSE), PlateBox(8, TRUE, FALSE)>>,
   <<PlateBox(6, TRUE, TRUE), PlateBox(8, TRUE, TRUE), VehicleBox("CAR", 8, TRUE),
     VehicleBox("MOTORBIKE", 9, FALSE)>>,
   <<PlateBox(4, TRUE, TRUE)>>}

Line(c, n) == [conf |-> c, chars |-> n]
MCReadings ==
  {[square |-> TRUE, upper |-> <<Line(9, 4)>>, lower |-> <<Line(5, 9), Line(7, 5)>>,
    whole |-> <<Line(6, 2)>>],
   [square |-> FALSE, upper |-> <<>>, lower |-> <<>>, whole |-> <<Line(9, 3), Line(5, 5)>>],
   [square |-> TRUE, upper |-> <<Line(9, 4)>>, lower |-> <<>>, whole |-> <<Line(9, 1)>>],
   [square |-> TRUE, upper |-> <<>>, lower |-> <<>>, whole |-> <<>>]}
MCClassThreshold == [l \in Labels |-> 3]

MCDirection == [x \in {west, east} |-> IF x = west THEN "IN" ELSE "OUT"]

MCSymmetry == Permutations(Slots)
-----------------------------------------------------------------------------
(* The parts share no variable: a behaviour moves one of them and leaves   *)
(* the others in their initial state.                                      *)

VARIABLE part

cameraVars == <<voterVars, fireVars, rcVars>>

Parts == {"pricing", "votes", "fire", "recognition", "barriers"}

\* Where another part moves, the choices of the initial state are made once.
GatesInit ==
  /\ part \in Parts
  /\ PrInit /\ FfInit /\ RcInit /\ GtInit
  /\ part # "fire" => fireModel = "none"
  /\ part # "recognition" => ~loadError

Prices == part = "pricing" /\ PrNext /\ UNCHANGED <<cameraVars, gtVars>>
Votes == part = "votes" /\ VoterNext /\ UNCHANGED <<prVars, rcVars, gtVars>>
Fires == part = "fire" /\ FireNext /\ UNCHANGED <<prVars, rcVars, gtVars>>
Recognitions ==
  part = "recognition" /\ RcNext /\ UNCHANGED <<prVars, voterVars, fireVars, gtVars>>
GateCalls == part = "barriers" /\ GtNext /\ UNCHANGED <<prVars, cameraVars>>

GatesNext ==
  UNCHANGED part /\ (Prices \/ Votes \/ Fires \/ Recognitions \/ GateCalls)

GatesSpec == GatesInit /\ [][GatesNext]_<<part, prVars, cameraVars, gtVars>>
=============================================================================
