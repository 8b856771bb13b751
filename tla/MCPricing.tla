----------------------------- MODULE MCPricing ------------------------------
EXTENDS Pricing, TLC

CONSTANTS z1, z2

MCRate(first, block, cap) ==
  [free |-> 1, initial |-> 1, initialFee |-> first, block |-> block, blockFee |-> 2, cap |-> cap,
   overnight |-> 5, lost |-> 3, overtime |-> 4, day |-> 7, month |-> 9, discount |-> 30]

MCTariffs == {[k \in Kinds |-> IF k = "NIGHT" THEN NoRate ELSE MCRate(3, 2, NoCap)],
              [k \in Kinds |-> MCRate(2, 1, 5)]}

MCPackages == {[kind |-> "MONTHLY", zone |-> z1, from |-> 1, until |-> 4, grace |-> 1],
               [kind |-> "DAILY", zone |-> z2, from |-> 3, until |-> 9, grace |-> 0]}
MCOnePackage == {p \in MCPackages : p.kind = "MONTHLY"}
=============================================================================
