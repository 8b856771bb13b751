----------------------------- MODULE MCAccounts -----------------------------
EXTENDS Accounts, TLC

CONSTANTS anna, bert, p1, p2

MCAssigned == [b \in Buildings |-> {anna}]

MCChanges == {[NoChange EXCEPT !.actor = "SYSTEM_ADMIN", !.pw = p1],
              [NoChange EXCEPT !.actor = "BUILDING_ADMIN", !.active = FALSE],
              [NoChange EXCEPT !.actor = "SYSTEM_ADMIN", !.active = TRUE, !.role = "BUILDING_ADMIN"],
              [NoChange EXCEPT !.actor = "SELF", !.pw = p2]}
=============================================================================
