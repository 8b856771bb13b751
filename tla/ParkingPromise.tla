--------------------------- MODULE ParkingPromise ---------------------------
(***************************************************************************)
(* What the car park promises about its sessions, whatever requests serve  *)
(* them: a vehicle is inside at most once, a session ends exactly once and *)
(* for good, and nobody leaves owing a fee.  For a session that two        *)
(* requests let out at the same time only the first promise stands; what   *)
(* becomes of it harms no other session.                                   *)
(***************************************************************************)
EXTENDS Naturals

CONSTANTS SessionIds, Vehicles, NoVehicle

VARIABLES
  inside,   \* the vehicle that each open session holds a place for
  exits,    \* how often the exit barrier was opened for a session
  owing,    \* closed sessions whose fee was never received
  shared    \* sessions that two requests have let out at the same time

promiseVars == <<inside, exits, owing, shared>>

Init ==
  /\ inside = [s \in SessionIds |-> NoVehicle]
  /\ exits = [s \in SessionIds |-> 0]
  /\ owing = {} /\ shared = {}

Outside(v) == \A s \in SessionIds : inside[s] # v

Enter(s, v) ==
  /\ inside[s] = NoVehicle /\ exits[s] = 0 /\ Outside(v)
  /\ inside' = [inside EXCEPT ![s] = v]
  /\ UNCHANGED <<exits, owing, shared>>

Leave(s) ==
  /\ inside[s] # NoVehicle
  /\ inside' = [inside EXCEPT ![s] = NoVehicle]
  /\ exits' = [exits EXCEPT ![s] = @ + 1]
  /\ UNCHANGED <<owing, shared>>

\* A second request begins to let the vehicle of an open session out.
Share(s) ==
  /\ inside[s] # NoVehicle
  /\ shared' = shared \cup {s}
  /\ UNCHANGED <<inside, exits, owing>>

\* Each request that lets a shared session out opens the barrier.
LeaveShared(s) ==
  /\ s \in shared
  /\ inside' = [inside EXCEPT ![s] = NoVehicle]
  /\ exits' = [exits EXCEPT ![s] = @ + 1]
  /\ owing' \in {owing \cup {s}, owing \ {s}}
  /\ UNCHANGED shared

\* A late write changes what a shared session owes, or opens it again, but only
\* while its vehicle is not inside with another session.
WriteLate(s) ==
  /\ s \in shared
  /\ \/ UNCHANGED inside
     \/ /\ inside[s] = NoVehicle
        /\ \E v \in Vehicles : Outside(v) /\ inside' = [inside EXCEPT ![s] = v]
  /\ owing' \in {owing \cup {s}, owing \ {s}}
  /\ UNCHANGED <<exits, shared>>

Next ==
  \E s \in SessionIds :
    \/ \E v \in Vehicles : Enter(s, v)
    \/ Leave(s) \/ Share(s) \/ LeaveShared(s) \/ WriteLate(s)

Spec == Init /\ [][Next]_promiseVars
=============================================================================
