---------------------------- MODULE SourcingRules ----------------------------
(***************************************************************************)
(* What the sourcing agents of src/swarm compute: the requirement, the     *)
(* strategy chosen for it, the pool with its floor prices, a supplier's    *)
(* score and the decision.  Money is in whole units, ratios are in per     *)
(* cent, scores in hundredths of a per cent; divisions round down where    *)
(* the code keeps a float.                                                 *)
(***************************************************************************)
EXTENDS Integers, SequencesExt

CONSTANTS
    Pool,       \* SUPPLIER_TEMPLATES, in their order
    Template,   \* of each: mult, logistics, margin, reliability, carbon
    Spot,       \* spot price; the simulator is seeded alike every time
    Baseline,   \* carbon baseline of the material, per unit
    History     \* of each supplier, what its past deliveries add to its score

Suppliers == {Pool[i] : i \in DOMAIN Pool}
Position(s) == CHOOSE i \in DOMAIN Pool : Pool[i] = s

ASSUME PoolAssumption ==
    /\ Pool \in Seq(Suppliers) /\ IsInjective(Pool) /\ Len(Pool) > 0
    /\ Template \in [Suppliers -> [mult : Nat, logistics : Nat, margin : Nat,
                                   reliability : 0..100, carbon : Nat]]
    /\ History \in [Suppliers -> -500..500]
ASSUME MarketAssumption == Spot \in Nat \ {0} /\ Baseline \in Nat \ {0}

(***************************************************************************)
(* The requirement: what the message leaves out, or gives as zero, has a   *)
(* default; a price limit has one only if it is left out, and is one at    *)
(* least.  A value that is no number or makes no RFQ raises.               *)
(***************************************************************************)
Given(x, default) == IF x = 0 THEN default ELSE x

Unset == -1   \* a price limit that is left out
PriceLimit(x) ==
    LET limit == IF x = Unset THEN (Spot * 12) \div 10 ELSE x
    IN  IF limit > 1 THEN limit ELSE 1

Requirement(p) ==
    [quantity |-> Given(p.quantity, 1000), budget |-> Given(p.budget, 500000),
     limit |-> PriceLimit(p.limit), target |-> Given(p.target, 30),
     carbon |-> p.carbon]

(***************************************************************************)
(* Strategies: the weights of price, quality and carbon.                   *)
(***************************************************************************)
Weights == [cost_optimized |-> <<65, 25, 10>>, balanced |-> <<40, 40, 20>>,
            low_carbon |-> <<20, 25, 55>>]

SelectStrategy(req) ==
    CASE req.carbon -> "low_carbon"
      [] ~req.carbon /\ 2 * req.budget < req.quantity * req.limit -> "cost_optimized"
      [] OTHER -> "balanced"

(***************************************************************************)
(* A supplier's offer, the same before and after it is quoted: the floor   *)
(* price, a lead time that depends on the place in the pool.               *)
(***************************************************************************)
FloorPrice(s) ==
    (((Spot * Template[s].mult) \div 100 + Template[s].logistics) * (100 + Template[s].margin)) \div 100

LeadTime(s, target) ==
    LET offset == ((Position(s) - 1) % 5) - 2
    IN  IF target + offset > 1 THEN target + offset ELSE 1

CarbonFootprint(s, quantity) == Template[s].carbon * quantity

(***************************************************************************)
(* EvaluationAgent.  The sub-scores are those of src/core/evaluator.       *)
(***************************************************************************)
Core(target) == INSTANCE ContractNetRules
    WITH Floor <- [s \in Suppliers |-> FloorPrice(s)], Capacity <- [s \in Suppliers |-> 0],
         Carbon <- [s \in Suppliers |-> Template[s].carbon],
         Reliability <- [s \in Suppliers |-> Template[s].reliability],
         Target <- target, CarbonCap <- 0, MaxTurns <- 1

Quality(lead, reliability) == (25 * lead + 15 * reliability) \div 40

EvaluationScore(s, strategy, req) ==
    LET w == Weights[strategy]
        lead == Core(req.target)!ScoreLead(LeadTime(s, req.target))
        base == w[1] * Core(req.target)!ScorePrice(FloorPrice(s))
                + w[2] * Quality(lead, Template[s].reliability)
                + w[3] * Core(req.target)!ScoreCarbon(CarbonFootprint(s, req.quantity), req.quantity)
        total == base + History[s]
    IN  IF total < 0 THEN 0 ELSE IF total > 10000 THEN 10000 ELSE total

(***************************************************************************)
(* DecisionAgent.  A quote is [place, supplier, price, carbon, score], with *)
(* its place among the artifacts; unlike the bids of v1 it has a quantity,  *)
(* so the budget counts.  The bond offered is the bond asked for.          *)
(***************************************************************************)
Compliant(quote, req) ==
    /\ quote.price <= req.limit
    /\ quote.price * req.quantity <= req.budget
    /\ quote.carbon <= Baseline * req.quantity

\* Highest score first, then the lowest price; of equals the older quote.
Before(p, q) ==
    \/ p.score > q.score
    \/ p.score = q.score /\ p.price < q.price
    \/ p.score = q.score /\ p.price = q.price /\ p.place < q.place

\* The winner, and those the explanation has to give a reason for.
NoSupplier == "none"
Selected(quotes, req) ==
    LET compliant == {q \in quotes : Compliant(q, req)}
    IN  IF compliant = {} THEN NoSupplier
        ELSE (CHOOSE q \in compliant : \A p \in compliant \ {q} : Before(q, p)).supplier

Rejected(quotes, winner) ==
    LET lost == {q \in quotes : q.supplier # winner}
        Rank(q) == Cardinality({p \in lost : Before(p, q)}) + 1
    IN  [n \in 1 .. Cardinality(lost) |-> (CHOOSE q \in lost : Rank(q) = n).supplier]
=============================================================================
