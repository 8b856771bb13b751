------------------------------ MODULE Workers ------------------------------
(***************************************************************************)
(* What the models of the administration share: the workers that serve     *)
(* requests, each with one database session, and the buildings.  Building  *)
(* ids are UUIDs, which are totally ordered; here they are numbers.        *)
(***************************************************************************)
EXTENDS Integers, FiniteSets

CONSTANTS
  Slots,         \* requests served at the same time
  Buildings,     \* ids of the buildings, each with its one parking lot
  LastBuilding,  \* the greatest id
  NoSlot,
  People         \* user ids

ASSUME WorkersAssumption ==
  /\ IsFiniteSet(Slots) /\ NoSlot \notin Slots
  /\ People # {}
  /\ LastBuilding \in Nat /\ Buildings \subseteq 0 .. LastBuilding

\* SQLAlchemy writes an attribute only if it was set to another value than it was
\* loaded with; otherwise the column keeps what is committed by now.
Dirty(value, loaded, committed) == IF value = loaded THEN committed ELSE value
=============================================================================
