---------------------------- MODULE MCNeuroQuotes ----------------------------
(***************************************************************************)
(* Instances of NeuroQuotes.  Two runs on one negotiator, one scout and    *)
(* one supplier, of two units each and with the same budget, which may be  *)
(* null for r2.  The model's first reply is beyond it, but only by its     *)
(* total: of one unit it is all of the budget, and one unit is what the    *)
(* scouts' model may make of r2, with the supplier on the list twice.  The *)
(* longer list also pushes that of r1 out of the window.  The second reply *)
(* is too late; both name a supplier nobody asked about.  The fallback     *)
(* names the one asked.                                                    *)
(***************************************************************************)
EXTENDS NeuroQuotes

CONSTANTS r1, r2, s1, n1

OneNegotiator == <<n1>>
OneSupplier == <<s1>>
TwoUnits(r) == 2
BudgetSets(r) == IF r = r1 THEN {2} ELSE {2, Null}
MadeUp(r) == IF r = r1 THEN {} ELSE {[sups |-> <<s1, s1>>, quantity |-> 1]}
Quotes == [names : {None}, price : {2}, lead : {1, 3}]
=============================================================================
