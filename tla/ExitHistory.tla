---------------------------- MODULE ExitHistory ----------------------------
(***************************************************************************)
(* ParkingSessions with a history of its exits.  Nothing in the code keeps *)
(* two requests from letting the same session out at the same time.  Three *)
(* history variables, which no step reads, remember where that happened    *)
(* and what it and the adjustments did to the counter; the properties say  *)
(* of every behaviour what the sessions and the counter keep nevertheless. *)
(***************************************************************************)
EXTENDS ParkingSessions

VARIABLES
  shared,    \* sessions that two requests have had loaded to let them out
  doubled,   \* exits counted for a session that was closed, and sessions opened again
  adjusted   \* sum of all adjustments and reconciliations

history == <<shared, doubled, adjusted>>
allVars == <<vars, history>>

\* Requests that work on a loaded copy of session s to let it out.
LoadedBy(s) == {q \in Slots : pc[q] \in ExitPlaces /\ sid[q] = s}

Shared == {s \in SessionIds : \E p, q \in LoadedBy(s) : p # q}

\* The step counts an exit that closes nothing, or opens a session again.
Doubles ==
  \E s \in SessionIds : \/ out'[s] # out[s] /\ s \notin Inside
                        \/ rows[s].status = "COMPLETED" /\ s \in Inside'

Remember ==
  /\ shared' = shared \cup Shared'
  /\ doubled' = IF Doubles THEN doubled + 1 ELSE doubled
  /\ adjusted' = IF UNCHANGED <<rows, out>> THEN adjusted + (occupied' - occupied) ELSE adjusted

HistoryInit == Init /\ shared = {} /\ doubled = 0 /\ adjusted = 0

HistoryNext == Next /\ Remember

HistorySpec == HistoryInit /\ [][HistoryNext]_allVars
-----------------------------------------------------------------------------
(* Properties.                                                             *)

\* Sessions keep the promise of ParkingPromise: an open session is a vehicle inside, a
\* COMPLETED one has left once, for good and paid, unless two requests have let it out
\* at the same time; then the vehicle still is inside at most once and no other session
\* is harmed.
Promise == INSTANCE ParkingPromise WITH
  NoVehicle <- NoRequest,
  inside <- [s \in SessionIds |-> IF s \in Inside THEN rows[s].req.veh ELSE NoRequest],
  exits  <- out,
  owing  <- {s \in Rows : rows[s].status = "COMPLETED" /\ rows[s].fee > 0 /\ paid[s] = 0}

ParkingPromise == Promise!Spec

\* The counter, which counts every entry and exit twice, covers all vehicles inside
\* except those that overlapping exits have taken off too often (two for each) and
\* those that adjustments have: nothing else makes it too low.
CounterCoversInside == occupied + 2 * doubled >= 2 * Cardinality(Inside) + adjusted

\* A vehicle enters only while the vehicles really inside, unpaid ones included and
\* counted twice, stay below the limit of its class, except that every exit counted for
\* a closed session lets one more in, and adjustments as many as they take off.
EntryWithinCapacity ==
  [][\A s \in SessionIds :
       rows[s].status = "NONE" /\ rows'[s].status # "NONE"
         => 2 * Cardinality(Inside) + adjusted < Limit(rows'[s].req.cls) + 2 * doubled]_allVars
=============================================================================
