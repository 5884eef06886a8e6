------------------------------- MODULE OrderRules -------------------------------
(***************************************************************************)
(* What stands between a decision and its purchase order in src/swarm: the *)
(* contract, the risk of the award, the governance policy; and the record  *)
(* of a supplier's deliveries that the risk is read from.  Ratios are in   *)
(* per cent, the blended risk in hundredths of a per cent; a mean is kept  *)
(* as its sum.                                                             *)
(***************************************************************************)
EXTENDS Integers

CONSTANTS
    Suppliers,
    Price, Carbon, Score,   \* of each supplier: quote, kg per unit, evaluation score
    Contracts,              \* of some suppliers: active, covers the material, price cap
    RequireContract,
    Policy,                 \* ceiling, maxRisk, approvalAbove, approvalForHigh
    Baseline                \* carbon baseline of the material

ASSUME SupplierAssumption ==
    /\ Price \in [Suppliers -> Nat] /\ Carbon \in [Suppliers -> Nat]
    /\ Score \in [Suppliers -> 0..100]
    /\ DOMAIN Contracts \subseteq Suppliers
    /\ \A s \in DOMAIN Contracts : Contracts[s] \in [active : BOOLEAN, covers : BOOLEAN, cap : Nat]
ASSUME PolicyAssumption ==
    /\ RequireContract \in BOOLEAN /\ Baseline \in Nat \ {0}
    /\ Policy \in [ceiling : Nat \ {0}, maxRisk : 0..10000, approvalAbove : Nat, approvalForHigh : BOOLEAN]

\* A decision without an award: None, which an order spells out as a name.
NoSupplier == "None"

(***************************************************************************)
(* The contract of the selected supplier.                                  *)
(***************************************************************************)
Holds(contract, price) == contract.active /\ contract.covers /\ price <= contract.cap

Valid(s) == IF s \in DOMAIN Contracts THEN Holds(Contracts[s], Price[s]) ELSE ~RequireContract

(***************************************************************************)
(* SupplierPerformance and the fold of an outcome into it.                 *)
(***************************************************************************)
NoHistory == [orders |-> 0, onTime |-> 0, quality |-> 0, price |-> 0]

\* The quoted price over the actual one; no quote known, no judgement.
Competitiveness(quoted, actual) ==
    IF quoted = 0 \/ quoted >= actual THEN 100 ELSE (100 * quoted) \div actual

Folded(p, outcome, quoted) ==
    [orders |-> p.orders + 1,
     onTime |-> p.onTime + (IF outcome.onTime THEN 1 ELSE 0),
     quality |-> p.quality + outcome.quality,
     price |-> p.price + Competitiveness(quoted, outcome.price)]

(***************************************************************************)
(* The risk of an award: four scores and their blend.                      *)
(***************************************************************************)
Clamped(x) == IF x > 100 THEN 100 ELSE x

FinancialRisk(amount) == Clamped((50 * amount) \div Policy.ceiling)
DeliveryRisk(p) == IF p.orders = 0 THEN 10 ELSE 100 - (100 * p.onTime) \div p.orders
QualityRisk(s, p) ==
    IF p.orders > 0 THEN 100 - p.quality \div p.orders
    ELSE IF s = NoSupplier THEN 10 ELSE 100 - Score[s]
CarbonRisk(s, limit) ==
    IF s = NoSupplier THEN 10
    ELSE Clamped((100 * Carbon[s]) \div (IF limit > 0 THEN limit ELSE Baseline))

Amount(s, quantity) == IF s = NoSupplier THEN 0 ELSE Price[s] * quantity

Overall(s, quantity, limit, p) ==
    35 * FinancialRisk(Amount(s, quantity)) + 25 * DeliveryRisk(p)
        + 20 * QualityRisk(s, p) + 20 * CarbonRisk(s, limit)

Level(overall) ==
    CASE overall >= 8000 -> "CRITICAL"
      [] overall >= 6000 /\ overall < 8000 -> "HIGH"
      [] overall >= 3500 /\ overall < 6000 -> "MEDIUM"
      [] OTHER -> "LOW"

(***************************************************************************)
(* GovernanceDecision.from_risk.                                           *)
(***************************************************************************)
NeedsApproval(amount, overall) ==
    \/ amount > Policy.approvalAbove
    \/ Policy.approvalForHigh /\ Level(overall) = "HIGH"
    \/ Level(overall) = "MEDIUM"

Intolerable(overall) == Level(overall) = "CRITICAL" \/ overall > Policy.maxRisk

\* Mutant: what somebody may approve is not rejected.
GovernApprovalFirst(amount, overall) ==
    IF NeedsApproval(amount, overall) THEN "APPROVAL_REQUIRED"
    ELSE IF Intolerable(overall) THEN "REJECTED" ELSE "APPROVED"

Govern(amount, overall) ==
    IF Intolerable(overall) THEN "REJECTED"
    ELSE IF NeedsApproval(amount, overall) THEN "APPROVAL_REQUIRED" ELSE "APPROVED"
=============================================================================
