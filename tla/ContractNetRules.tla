-------------------------- MODULE ContractNetRules --------------------------
(***************************************************************************)
(* The computations of the contract net (src/core): the two state machines,*)
(* bids, policy, scores, the bartering thread and the memory of suppliers. *)
(* Money is in tenths of a cent and ratios in per cent; divisions round    *)
(* down where the code keeps a float.                                      *)
(***************************************************************************)
EXTENDS Integers, Sequences, FiniteSets, Functions

CONSTANTS
    Pool,       \* the suppliers, in the order the API creates them
    Floor,      \* cost with the least margin, of each supplier
    Capacity,   \* units each supplier has left
    Carbon,     \* kg per unit
    Reliability,\* per cent
    Spot,       \* market price; a fresh simulator always has the same
    Target,     \* target lead time, days
    Baseline,   \* carbon baseline of the material, per unit
    CarbonCap,  \* max_carbon_limit_kg
    MaxTurns    \* of run_bilateral_bartering

Suppliers == {Pool[i] : i \in DOMAIN Pool}

ASSUME PoolAssumption == Pool \in Seq(Suppliers)
ASSUME PricesAssumption ==
    /\ Floor \in [Suppliers -> Nat \ {0}] /\ Spot \in Nat \ {0}
    /\ Capacity \in [Suppliers -> Nat] /\ Carbon \in [Suppliers -> Nat]
    /\ Reliability \in [Suppliers -> 0..100]
ASSUME LimitsAssumption ==
    Target \in Nat \ {0} /\ Baseline \in Nat \ {0} /\ CarbonCap \in Nat /\ MaxTurns \in Nat \ {0}

Least(a, b) == IF a <= b THEN a ELSE b
Most(a, b) == IF a >= b THEN a ELSE b

\* round(x, 2); half a cent, which is seldom one in a float, rounds up.
Cent == 10
Rounded(x) == Cent * ((x + Cent \div 2) \div Cent)

(***************************************************************************)
(* GlobalAuctionFSM.                                                       *)
(***************************************************************************)
AuctionStates == {"INIT", "RFQ_BROADCAST", "BID_COLLECTION", "EVALUATION",
                  "SHORTLIST_BARTER", "AWARDED", "TERMINATED"}

Transitions ==
    [s \in AuctionStates |->
        CASE s = "INIT" -> {"RFQ_BROADCAST"}
          [] s = "RFQ_BROADCAST" -> {"BID_COLLECTION"}
          [] s = "BID_COLLECTION" -> {"EVALUATION", "TERMINATED"}
          [] s = "EVALUATION" -> {"SHORTLIST_BARTER", "AWARDED", "TERMINATED"}
          [] s = "SHORTLIST_BARTER" -> {"AWARDED", "TERMINATED"}
          [] OTHER -> {}]

(***************************************************************************)
(* Bids.  A supplier without capacity refuses; the markup over the floor   *)
(* and the delay are random; a lead time or price that is not positive is  *)
(* no valid payload and raises.  Bids are rounded to cents, floors are not.*)
(***************************************************************************)
\* Mutant: the ceiling wins over the floor.
PriceUnderCeiling(s, markup, limit) ==
    Rounded(Least((Floor[s] * (100 + markup)) \div 100, (limit * 98) \div 100))

Price(s, markup, limit) ==
    Rounded(Most(Least((Floor[s] * (100 + markup)) \div 100, (limit * 98) \div 100), Floor[s]))

Answers(s, rfq, luck) ==
    IF Capacity[s] < rfq.quantity THEN {[kind |-> "reject_bid"]}
    ELSE {IF Target + l.delay > 0 /\ Price(s, l.markup, rfq.limit) > 0
          THEN [kind |-> "bid", supplier |-> s, price |-> Price(s, l.markup, rfq.limit),
                lead |-> Target + l.delay, carbon |-> Carbon[s] * rfq.quantity]
          ELSE [kind |-> "failure"] : l \in luck}

(***************************************************************************)
(* PolicyEngine.evaluate_bid.  A bid has no field quantity, so the total   *)
(* the budget and the bond are compared with is zero.                      *)
(***************************************************************************)
\* Mutant: the price cap is not a reason to reject.
PassesUncapped(bid, rfq, blacklist) ==
    /\ bid.supplier \notin blacklist
    /\ bid.carbon <= CarbonCap

Passes(bid, rfq, blacklist) ==
    /\ bid.supplier \notin blacklist
    /\ bid.price <= rfq.limit
    /\ bid.carbon <= CarbonCap

(***************************************************************************)
(* MultiCriteriaEvaluator, in hundredths of a per cent.                    *)
(***************************************************************************)
ScorePrice(price) == Most(0, 100 - (50 * price) \div Spot)
ScoreLead(lead) == IF lead <= Target THEN 100 ELSE Most(0, 100 - (100 * (lead - Target)) \div Target)
ScoreCarbon(carbon, quantity) == Most(0, 100 - (100 * carbon) \div (Most(quantity, 1) * Baseline))

Score(bid, quantity) ==
    40 * ScorePrice(bid.price) + 25 * ScoreLead(bid.lead)
    + 20 * ScoreCarbon(bid.carbon, quantity) + 15 * Reliability[bid.supplier]

\* The members of a set of positions, the highest mark first; the sort is stable.
Sorted(S, mark) ==
    LET Ahead(i) == {k \in S : mark[k] > mark[i] \/ (mark[k] = mark[i] /\ k < i)}
    IN  [n \in 1..Cardinality(S) |-> CHOOSE i \in S : Cardinality(Ahead(i)) = n - 1]

\* The bids at some positions, the highest score first.
Rank(bids, S, quantity) ==
    LET order == Sorted(S, [i \in S |-> Score(bids[i], quantity)])
    IN  [k \in 1..Cardinality(S) |-> bids[order[k]]]

(***************************************************************************)
(* BilateralFSM: messages are counted, both sides' and the opening offer.  *)
(***************************************************************************)
NewFsm(budget) == [budget |-> budget, count |-> 0, offer |-> FALSE, terminal |-> FALSE]

Valid(fsm, type) ==
    /\ ~ fsm.terminal
    /\ type \in {"accept", "counter"} => fsm.offer
    /\ fsm.count < fsm.budget

Recorded(fsm, type) ==
    IF ~ Valid(fsm, type) THEN [fsm EXCEPT !.terminal = @ \/ fsm.count >= fsm.budget]
    ELSE [fsm EXCEPT !.count = @ + 1, !.offer = @ \/ type \in {"offer", "counter"},
                     !.terminal = type \in {"accept", "reject"}]

(***************************************************************************)
(* SupplierAgent.respond_to_offer and BuyerOrchestrator.                   *)
(* barter_with_supplier.  Neither awaits anything that suspends.  What the *)
(* supplier says is rounded to cents; what the buyer halves is not.        *)
(***************************************************************************)

Reply(floor, price, turn) ==
    IF turn >= MaxTurns - 1
    THEN [type |-> IF price >= floor THEN "accept" ELSE "reject", price |-> Rounded(price)]
    ELSE IF price >= (floor * 110) \div 100 THEN [type |-> "accept", price |-> Rounded(price)]
    ELSE [type |-> "counter",
          price |-> Rounded(Most(Least(floor + ((price - floor) * 75) \div 100,
                                       (price * 98) \div 100), floor))]

\* One turn of a thread: the supplier's message, then the buyer's if it counters.
Turn(floor, th, turn) ==
    LET reply == Reply(floor, th.price, turn)
        heard == Recorded(th.fsm, reply.type)
        split == (th.price + reply.price) \div 2
        said == Recorded(heard, "counter")
    IN  IF th.over THEN th
        ELSE IF ~ Valid(th.fsm, reply.type) THEN [th EXCEPT !.fsm = heard, !.over = TRUE]
        ELSE IF reply.type # "counter"
        THEN [th EXCEPT !.price = reply.price, !.fsm = heard, !.over = TRUE, !.result = reply.type]
        ELSE [th EXCEPT !.price = split, !.fsm = said, !.over = ~ Valid(heard, "counter")]

Budget == 2 * MaxTurns

Barter(floor, opening) ==
    LET start == [price |-> opening, fsm |-> Recorded(NewFsm(Budget), "offer"),
                  over |-> FALSE, result |-> "none"]
        after[n \in 0..MaxTurns] == IF n = 0 THEN start ELSE Turn(floor, after[n - 1], n - 1)
    IN  after[MaxTurns]

(***************************************************************************)
(* HeuristicReservationEstimator.                                          *)
(***************************************************************************)
NoProfile == [auctions |-> 0, won |-> 0, ratio |-> 0, slope |-> 0, speed |-> "unknown"]

\* Mutant: a deal is not counted as an auction.
LearntLossOrDeal(p, bid, final, turns, won) ==
    [p EXCEPT !.auctions = IF won THEN @ ELSE @ + 1, !.won = IF won THEN @ + 1 ELSE @]

\* The final price against the spot is a running mean over the auctions won,
\* the concession per turn a moving one.
Learnt(p, bid, final, turns, won) ==
    LET n == p.won + 1
        drop == (bid - final) \div turns
        slope == IF ~ won \/ turns = 0 \/ bid <= final THEN p.slope
                 ELSE IF p.slope = 0 THEN drop ELSE (70 * p.slope + 30 * drop) \div 100
    IN  [auctions |-> p.auctions + 1,
         won |-> IF won THEN n ELSE p.won,
         ratio |-> IF won THEN (p.ratio * (n - 1) + (100 * final) \div Spot) \div n ELSE p.ratio,
         slope |-> slope,
         speed |-> IF 20 * slope > Spot THEN "fast" ELSE IF 100 * slope > Spot THEN "medium"
                   ELSE "slow"]

Estimate(p) ==
    LET typical == Spot * p.ratio
        adjusted == CASE p.speed = "fast" -> 95 [] p.speed = "slow" -> 105 [] OTHER -> 100
    IN  IF p.won = 0 THEN (Spot * 92) \div 100
        ELSE Most((typical * adjusted) \div 10000, (Spot * 60) \div 100)

\* The buyer opens at 92 % of the bid, or at the estimated floor if that is
\* less, but never under 80 %.
Opening(bid, p) ==
    LET usual == (bid * 92) \div 100
    IN  IF Estimate(p) < usual THEN Most(Estimate(p), (bid * 80) \div 100) ELSE usual
=============================================================================
