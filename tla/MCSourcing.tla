------------------------------ MODULE MCSourcing ------------------------------
(***************************************************************************)
(* Instances of Sourcing for TLC: two suppliers of the pool, the cheapest  *)
(* and the one with the lowest carbon.                                     *)
(***************************************************************************)
EXTENDS Sourcing

MCPool == <<"miner", "recycler">>
MCTemplate ==
    [miner |-> [mult |-> 35, logistics |-> 50, margin |-> 20, reliability |-> 85, carbon |-> 18],
     recycler |-> [mult |-> 80, logistics |-> 30, margin |-> 15, reliability |-> 75, carbon |-> 4]]
MCHistory == [s \in {"miner", "recycler"} |-> IF s = "miner" THEN -500 ELSE 0]

Asked(intent, valid, carbon) ==
    [intent |-> intent, valid |-> valid, quantity |-> 100, budget |-> 200000,
     limit |-> Unset, target |-> 30, carbon |-> carbon]

\* A carbon constraint, a quantity that is no number, a message of another
\* intent, one requirement more; a lifecycle event of the runtime.
MCPayloadAll ==
    [green |-> Asked("create", TRUE, TRUE), broken |-> Asked("create", FALSE, FALSE),
     other |-> Asked("other", TRUE, FALSE), plain |-> Asked("create", TRUE, FALSE),
     start |-> Asked("lifecycle", TRUE, FALSE)]
MCPayload == [r \in Requests |-> MCPayloadAll[r]]
MCLater == <<"ContractValidated", "ApprovalGranted">>

\* The recorder and the tracker before the agents or behind them, and every
\* order of the agents that hear that all have quoted.
Single == <<"requirement", "discovery", "evaluation", "negotiation", "later">>
Order(agents, first) ==
    IF first THEN <<"recorder", "tracker">> \o Single \o agents
    ELSE Single \o agents \o <<"tracker", "recorder">>
Hearing(order) ==
    [type \in Types |-> LET Hears(h) == h \in Handlers(type) IN SelectSeq(order, Hears)]
MCRanks ==
    {Hearing(Order(agents, first)) :
        first \in BOOLEAN, agents \in SetToSeqs({"decision", "strategy", "analysis"})}
=============================================================================
