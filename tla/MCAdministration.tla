--------------------------- MODULE MCAdministration ---------------------------
(***************************************************************************)
(* One instance for the parts of the administration.                       *)
(***************************************************************************)
EXTENDS LotSettings, MCAccounts, Registry, Tenancy, Tickets, TLC

CONSTANTS gift, staff, pass, v1, v2

MCForms == {[open |-> TRUE, safe |-> 1, alert |-> {anna}],
            [open |-> FALSE, safe |-> 0, alert |-> {}],
            [open |-> TRUE, safe |-> 2, alert |-> {bert}]}
MCCopies == {<<1, 2>>, <<2, 1>>}

MCClassOf == [x \in {pass, v1, v2} |-> IF x = pass THEN NoClass ELSE staff]
MCRefersTo == [x \in {gift} |-> v1]
MCImports == {{v1, v2}}
MCOffers == {<<pass, v1, "A", 0, 1>>, <<pass, v2, "A", 0, 2>>, <<pass, v1, "A", 1, 2>>}

MCSymmetry == Permutations(Slots)
-----------------------------------------------------------------------------
(* The parts share no variable: a behaviour moves one of them and leaves   *)
(* the others in their initial state.                                      *)

VARIABLE part

Parts == {"lots", "accounts", "lanes", "devices", "reports", "tenants", "tickets"}

AdministrationInit ==
  part \in Parts /\ LotInit /\ AcInit /\ RgInit /\ TnInit /\ TkInit

Lots == part = "lots" /\ LotNext /\ UNCHANGED <<acVars, rgVars, tnVars, tkVars>>
Users == part = "accounts" /\ AcNext /\ UNCHANGED <<lotVars, rgVars, tnVars, tkVars>>
Registers ==
  /\ \/ part = "lanes" /\ \E r \in Slots : LaneRequest(r)
     \/ part = "devices" /\ ((\E r \in Slots : DeviceRequest(r)) \/ DayGoesOn \/ Tick)
     \/ part = "reports" /\ ((\E r \in Slots : ReportRequest(r)) \/ RecordFailure \/ Tick)
  /\ UNCHANGED <<lotVars, acVars, tnVars, tkVars>>
Tenants == part = "tenants" /\ TnNext /\ UNCHANGED <<lotVars, acVars, rgVars, tkVars>>
Sales == part = "tickets" /\ TkNext /\ UNCHANGED <<lotVars, acVars, rgVars, tnVars>>

AdministrationNext ==
  UNCHANGED part /\ (Lots \/ Users \/ Registers \/ Tenants \/ Sales)

AdministrationSpec ==
  AdministrationInit /\ [][AdministrationNext]_<<part, lotVars, acVars, rgVars, tnVars, tkVars>>
=============================================================================
