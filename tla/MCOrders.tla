-------------------------------- MODULE MCOrders --------------------------------
(***************************************************************************)
(* Instances of Orders for TLC: a supplier that is cheap, one whose orders *)
(* may need an approval, and one whose contract has run out.               *)
(***************************************************************************)
EXTENDS Orders

MCPrice == [cheap |-> 10, dear |-> 30, late |-> 10]
MCCarbon == [cheap |-> 10, dear |-> 4, late |-> 10]
MCScore == [cheap |-> 80, dear |-> 60, late |-> 80]
MCContracts == [dear |-> [active |-> TRUE, covers |-> TRUE, cap |-> 30],
                late |-> [active |-> FALSE, covers |-> TRUE, cap |-> 30]]
MCPolicy == [ceiling |-> 5000, maxRisk |-> 6000, approvalAbove |-> 2000, approvalForHigh |-> TRUE]
MCQuantity == [r \in Requests |-> IF r = "a" THEN 100 ELSE 20]
MCLimit == [r \in Requests |-> IF r = "b" THEN 8 ELSE 0]
MCStage == [p \in Providers |-> [r \in Requests |-> IF p = "sap" THEN 2 ELSE 4]]
MCOutcomes == {[supplier |-> "cheap", onTime |-> FALSE, quality |-> 10, price |-> 12]}
=============================================================================
