---------------------------- MODULE MCContractNet ----------------------------
(***************************************************************************)
(* Instances of ContractNet for TLC: two of the pool's suppliers, one far  *)
(* under the market price, one close to it, both with floors a little over *)
(* a whole number of cents.                                                *)
(***************************************************************************)
EXTENDS ContractNet

MCPool == <<"miner", "trader">>
MCFloor == [miner |-> 564, trader |-> 994]
MCCapacity == [miner |-> 3, trader |-> 2]
MCCarbon == [miner |-> 18, trader |-> 15]
MCReliability == [miner |-> 85, trader |-> 70]
MCSessionOf == [r \in Requests |-> r]
MCGenesis == <<>>

\* A client who gets two bids, one whose limit is under the floor of a
\* supplier, and one who asks for more than anybody has.
MCRfqs == {[quantity |-> 2, limit |-> 1200, barter |-> TRUE],
           [quantity |-> 2, limit |-> 700, barter |-> TRUE],
           [quantity |-> 5, limit |-> 1200, barter |-> TRUE]}
\* A lead time of four days less than the target of four is no lead time.
MCLuck == {[markup |-> 0, delay |-> 0], [markup |-> 15, delay |-> 3], [markup |-> 0, delay |-> -4]}
=============================================================================
