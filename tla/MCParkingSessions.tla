------------------------- MODULE MCParkingSessions -------------------------
(***************************************************************************)
(* Small instances of ParkingSessions for TLC.                             *)
(***************************************************************************)
EXTENDS ParkingSessions, TLC

CONSTANTS car, bike, k1, k2, k3, k4

In(k, v, c, review) == [key |-> k, veh |-> v, cls |-> c, review |-> review, pay |-> FALSE]
Out(k, v, pay) == [key |-> k, veh |-> v, cls |-> "VISITOR", review |-> FALSE, pay |-> pay]

MCVehicles == {car, bike}
MCBicycles == {bike}
MCKeys == {k1, k2, k3, k4}
MCFees == {0, 1}

MCCheckIns == {In(k1, car, "VISITOR", FALSE), In(k2, car, "VISITOR", TRUE),
               In(k2, bike, "RESIDENT", FALSE)}
MCCheckOuts == {Out(k3, car, FALSE), Out(k3, car, TRUE)}

FewCheckIns == {In(k1, car, "VISITOR", FALSE), In(k2, car, "VISITOR", TRUE)}
TwoVehicles == {In(k1, car, "VISITOR", FALSE), In(k2, car, "VISITOR", TRUE),
                In(k4, bike, "VISITOR", FALSE)}
FewCheckOuts == {Out(k3, car, TRUE)}
OneSetting == {[safe |-> 2, physical |-> 2, reserved |-> 0]}
TightSetting == {[safe |-> 1, physical |-> 3, reserved |-> 0]}
UnpaidCheckOuts == {Out(k3, car, FALSE)}

MCSettings == {[safe |-> 3, physical |-> 4, reserved |-> 1],
               [safe |-> 1, physical |-> 4, reserved |-> 1]}
NoDeltas == {}
TakeOff == {-1}

\* The responses steer nothing: runs that do not ask about them leave them out.
WithoutAnswers == <<table, settings, locks, pc, local, answered>>

Symmetry == Permutations(Slots) \cup Permutations(SessionIds)
=============================================================================
