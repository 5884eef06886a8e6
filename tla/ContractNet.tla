----------------------------- MODULE ContractNet -----------------------------
(***************************************************************************)
(* The auctions of the v1 API: POST /auctions runs a sealed-bid auction    *)
(* and, with two bids or more, bartering with the shortlist.  Requests are *)
(* coroutines of one event loop; they share the ledger, the memory of      *)
(* suppliers and its index.  A step is what runs between two awaits that   *)
(* suspend: those of the database.  The agents' own coroutines never       *)
(* suspend, so no timeout fires and bids and threads come in one step.     *)
(***************************************************************************)
EXTENDS ContractNetRules

CONSTANTS
    Requests,       \* calls of POST /auctions
    Sessions,       \* session ids
    SessionOf,      \* the id uuid4 gives each call
    Rfqs,           \* quantity, price limit and bartering clients ask for
    Luck,           \* the random draws: per cent over the floor, days over the target
    Shortlisted,    \* settings.evaluation.shortlist_size
    Genesis,        \* the hash of nothing
    Money,          \* buyer_max_budget_total
    MaxFaults       \* database errors and restarts

ASSUME SessionsAssumption == SessionOf \in [Requests -> Sessions] /\ IsInjective(SessionOf)
ASSUME RfqsAssumption ==
    /\ Rfqs \subseteq [quantity : Nat \ {0}, limit : Nat \ {0}, barter : BOOLEAN]
    /\ Luck \subseteq [markup : 0..15, delay : -5..10]
    /\ Shortlisted \in Nat /\ MaxFaults \in Nat

VARIABLES
    ledger,     \* the rows of each session, in the order of their ids
    memory,     \* HeuristicReservationEstimator.profiles
    index,      \* the rows of supplier_embeddings: the profile each was made from
    job,        \* the coroutine of each request
    faults

vars == <<ledger, memory, index, job, faults>>

Chain == INSTANCE HashChain WITH chain <- ledger

\* The locals of a request.  fsm: of the auction, then of the bartering; todo:
\* rows still to be appended before it goes on at then; hash: the last hash it
\* read; ranked: the valid bids; threads: of the bartering, done: those already
\* recorded; snap: the profile on its way to the index; deal: the winner it
\* will answer with.
NoDeal == [supplier |-> "none", price |-> 0]
Idle == [pc |-> "new", rfq |-> [quantity |-> 1, limit |-> 1, barter |-> FALSE], fsm |-> "INIT", todo |-> <<>>,
         then |-> "new", hash |-> Genesis, ranked |-> <<>>, threads |-> <<>>, done |-> 0,
         snap |-> NoProfile, deal |-> NoDeal]

Init ==
    /\ ledger = [s \in Sessions |-> <<>>]
    /\ memory = [s \in Suppliers |-> NoProfile]
    /\ index = [s \in Suppliers |-> NoProfile]
    /\ job = [r \in Requests |-> Idle]
    /\ faults = 0

At(r, pc) == job[r].pc = pc
Step(r, j) == job' = [job EXCEPT ![r] = j]

\* fsm.transition: a RuntimeError where the move is not in the table.
Moved(j, state) ==
    IF j.pc = "refused" \/ state \notin Transitions[j.fsm]
    THEN [j EXCEPT !.pc = "refused"] ELSE [j EXCEPT !.fsm = state]

\* Append rows to the ledger, then go on.
Appending(j, rows, then) ==
    IF j.pc = "refused" THEN j
    ELSE IF rows = <<>> THEN [j EXCEPT !.pc = then]
    ELSE [j EXCEPT !.todo = rows, !.then = then, !.pc = "read"]

\* A row is given the hash of the one before it when it is inserted.
Row(turn, kind, supplier, price) ==
    [prev |-> Genesis, turn |-> turn, kind |-> kind, supplier |-> supplier, price |-> price]

(***************************************************************************)
(* run_sealed_bid_auction.                                                 *)
(***************************************************************************)
Create(r) ==
    /\ At(r, "new")
    /\ \E rfq \in Rfqs :
          LET j == Moved([job[r] EXCEPT !.rfq = rfq], "RFQ_BROADCAST")
          IN  Step(r, Appending(j, <<Row(0, "rfq", "none", rfq.limit)>>, "collect"))
    /\ UNCHANGED <<ledger, memory, index, faults>>

\* append_event: the last hash in one transaction, the row in another.
\* Mutant: the hash is read once for all the rows of a phase.
InsertKeepingHash(r) ==
    LET j == job[r]
        s == SessionOf[r]
    IN  /\ At(r, "insert")
        /\ ledger' = [ledger EXCEPT ![s] = Append(@, [Head(j.todo) EXCEPT !.prev = j.hash])]
        /\ Step(r, IF Len(j.todo) = 1 THEN [j EXCEPT !.todo = <<>>, !.pc = j.then]
                   ELSE [j EXCEPT !.todo = Tail(@)])
        /\ UNCHANGED <<memory, index, faults>>

ReadLastHash(r) ==
    LET s == SessionOf[r] IN
    /\ At(r, "read")
    /\ Step(r, [job[r] EXCEPT !.hash = Chain!Tip(s, ledger[s]), !.pc = "insert"])
    /\ UNCHANGED <<ledger, memory, index, faults>>

Insert(r) ==
    LET j == job[r]
        s == SessionOf[r]
    IN  /\ At(r, "insert")
        /\ ledger' = [ledger EXCEPT ![s] = Append(@, [Head(j.todo) EXCEPT !.prev = j.hash])]
        /\ Step(r, IF Len(j.todo) = 1 THEN [j EXCEPT !.todo = <<>>, !.pc = j.then]
                   ELSE [j EXCEPT !.todo = Tail(@), !.pc = "read"])
        /\ UNCHANGED <<memory, index, faults>>

\* The answers of all suppliers; the bids among them are written to the ledger.
Collect(r) ==
    /\ At(r, "collect")
    /\ \E answer \in [DOMAIN Pool -> UNION {Answers(s, job[r].rfq, Luck) : s \in Suppliers}] :
          /\ \A i \in DOMAIN Pool : answer[i] \in Answers(Pool[i], job[r].rfq, Luck)
          /\ LET bidders == Sorted({i \in DOMAIN Pool : answer[i].kind = "bid"}, [i \in DOMAIN Pool |-> 0])
                 rows == [k \in DOMAIN bidders |->
                            Row(bidders[k], "bid", Pool[bidders[k]], answer[bidders[k]].price)]
                 j == Moved(job[r], "BID_COLLECTION")
             IN  Step(r, Appending([j EXCEPT !.ranked = [k \in DOMAIN bidders |-> answer[bidders[k]]]],
                                   rows, "evaluate"))
    /\ UNCHANGED <<ledger, memory, index, faults>>

\* The winner is the first of the ranking; nobody is blacklisted by the API.
Evaluate(r) ==
    LET j == job[r]
        ranked == Rank(j.ranked, {i \in DOMAIN j.ranked : Passes(j.ranked[i], j.rfq, {})}, j.rfq.quantity)
        j1 == [j EXCEPT !.ranked = ranked]
        won == [supplier |-> ranked[1].supplier, price |-> ranked[1].price]
    IN  /\ At(r, "evaluate")
        /\ Step(r, IF ranked = <<>>
                   THEN Appending(Moved(Moved(j1, "EVALUATION"), "TERMINATED"), <<>>, "done")
                   ELSE Appending([Moved(Moved(j1, "EVALUATION"), "AWARDED") EXCEPT !.deal = won],
                                  <<Row(999, "award", won.supplier, won.price)>>,
                                  IF j.rfq.barter /\ Least(Shortlisted, Len(ranked)) > 1
                                  THEN "barter" ELSE "done"))
        /\ UNCHANGED <<ledger, memory, index, faults>>

(***************************************************************************)
(* run_bilateral_bartering.                                                *)
(***************************************************************************)
\* A state machine of its own, put at SHORTLIST_BARTER without a transition.
StartBartering(r) ==
    LET j == job[r]
        thread(i) == LET bid == j.ranked[i]
                     IN  [bid |-> bid.price, supplier |-> bid.supplier,
                          end |-> Barter(Floor[bid.supplier], Opening(bid.price, memory[bid.supplier]))]
    IN  /\ At(r, "barter")
        /\ Step(r, [j EXCEPT !.fsm = "SHORTLIST_BARTER", !.done = 0, !.pc = "record",
                             !.threads = [i \in 1..Least(Shortlisted, Len(j.ranked)) |-> thread(i)]])
        /\ UNCHANGED <<ledger, memory, index, faults>>

\* The lowest price a supplier accepted, the first of equals.
Accepted(j) == {i \in DOMAIN j.threads : j.threads[i].end.result = "accept"}
BestDeal(j) ==
    CHOOSE i \in Accepted(j) : \A k \in Accepted(j) :
        LET p == j.threads[i].end.price
            q == j.threads[k].end.price
        IN  p < q \/ (p = q /\ i <= k)

\* Mutant: only deals are remembered.
RecordDealsOnly(r) ==
    LET j == job[r]
        th == j.threads[j.done + 1]
        won == Accepted(j) # {} /\ BestDeal(j) = j.done + 1
    IN  /\ At(r, "record") /\ j.done < Len(j.threads)
        /\ memory' = IF ~ won THEN memory
                     ELSE [memory EXCEPT ![th.supplier] =
                             Learnt(@, th.bid, th.end.price, th.end.fsm.count, won)]
        /\ Step(r, [j EXCEPT !.done = @ + 1, !.pc = "index", !.snap = memory'[th.supplier]])
        /\ UNCHANGED <<ledger, index, faults>>

\* record_auction_result for the next thread; the profile is copied before the
\* await of the index.
Record(r) ==
    LET j == job[r]
        th == j.threads[j.done + 1]
        won == Accepted(j) # {} /\ BestDeal(j) = j.done + 1
    IN  /\ At(r, "record") /\ j.done < Len(j.threads)
        /\ memory' = [memory EXCEPT ![th.supplier] =
                        Learnt(@, th.bid, th.end.price, th.end.fsm.count, won)]
        /\ Step(r, [j EXCEPT !.done = @ + 1, !.pc = "index", !.snap = memory'[th.supplier]])
        /\ UNCHANGED <<ledger, index, faults>>

IndexSupplier(r) ==
    LET s == job[r].threads[job[r].done].supplier IN
    /\ At(r, "index")
    /\ index' = [index EXCEPT ![s] = job[r].snap]
    /\ Step(r, [job[r] EXCEPT !.pc = "record"])
    /\ UNCHANGED <<ledger, memory, faults>>

FinishBartering(r) ==
    LET j == job[r]
        best == j.threads[BestDeal(j)]
        deal == [supplier |-> best.supplier, price |-> best.end.price]
    IN  /\ At(r, "record") /\ j.done = Len(j.threads)
        /\ Step(r, IF Accepted(j) = {}
                   THEN Appending(Moved(j, "TERMINATED"), <<>>, "done")
                   ELSE Appending([Moved(j, "AWARDED") EXCEPT !.deal = deal],
                                  <<Row(1000, "award", deal.supplier, deal.price)>>, "done"))
        /\ UNCHANGED <<ledger, memory, index, faults>>

(***************************************************************************)
(* Faults: the database refuses a statement and the request ends in an     *)
(* error, or the process is restarted: the requests and the memory of      *)
(* suppliers are gone, the tables stay.                                    *)
(***************************************************************************)
Fail(r) ==
    /\ faults < MaxFaults /\ faults' = faults + 1
    /\ \E pc \in {"read", "insert", "index"} : At(r, pc)
    /\ Step(r, [job[r] EXCEPT !.pc = "failed", !.todo = <<>>])
    /\ UNCHANGED <<ledger, memory, index>>

Over(r) == \E pc \in {"new", "done", "failed", "lost"} : At(r, pc)

Restart ==
    /\ faults < MaxFaults /\ faults' = faults + 1
    /\ memory' = [s \in Suppliers |-> NoProfile]
    /\ job' = [r \in Requests |->
                 IF Over(r) THEN [job[r] EXCEPT !.threads = <<>>, !.done = 0]
                 ELSE [Idle EXCEPT !.pc = "lost"]]
    /\ UNCHANGED <<ledger, index>>

RequestStep(r) ==
    \/ Create(r) \/ ReadLastHash(r) \/ Insert(r) \/ Collect(r) \/ Evaluate(r)
    \/ StartBartering(r) \/ Record(r) \/ IndexSupplier(r) \/ FinishBartering(r)

Next == (\E r \in Requests : RequestStep(r) \/ Fail(r)) \/ Restart

Spec == Init /\ [][Next]_vars

(***************************************************************************)
(* Properties.                                                             *)
(***************************************************************************)
\* Every part of the state has its shape, and no state machine was asked for a
\* move outside its table.
TypeOK ==
    /\ \A s \in Sessions : \A i \in DOMAIN ledger[s] :
          ledger[s][i].kind \in {"rfq", "bid", "award"} /\ ledger[s][i].price \in Nat
    /\ \A s \in Suppliers : memory[s].won <= memory[s].auctions /\ index[s].won <= index[s].auctions
    /\ \A r \in Requests :
          /\ job[r].fsm \in AuctionStates /\ job[r].done <= Len(job[r].threads)
          /\ job[r].pc \in {"new", "read", "insert", "collect", "evaluate", "barter", "record",
                            "index", "done", "failed", "lost"}
    /\ faults \in 0..MaxFaults

\* Whatever requests run at once, fail or are cut off, each session of the
\* ledger is a hash chain that only grows at its end (append_event reads the
\* last hash and inserts the row in two transactions).
LedgerIsChain == Chain!Spec

RowsOf(r, kind) == {i \in DOMAIN ledger[SessionOf[r]] : ledger[SessionOf[r]][i].kind = kind}

\* What a client is told won is the last award of its session in the ledger,
\* and the supplier had bid in that session, within the limit and not for less
\* than what is awarded (create_auction replaces the winner after bartering,
\* the auction's own award row stays).
AwardGrounded ==
    \A r \in Requests : At(r, "done") /\ job[r].deal # NoDeal =>
        LET rows == ledger[SessionOf[r]]
            awards == RowsOf(r, "award")
            last == rows[CHOOSE i \in awards : \A k \in awards : k <= i]
        IN  /\ awards # {} /\ last.supplier = job[r].deal.supplier /\ last.price = job[r].deal.price
            /\ \E i \in RowsOf(r, "bid") :
                  /\ rows[i].supplier = last.supplier
                  /\ rows[i].price >= last.price /\ rows[i].price <= job[r].rfq.limit

\* No supplier is awarded more than half a cent below its floor, neither by a
\* ceiling of the client under its costs nor by bartering: floors are kept as
\* they are, offers are rounded to cents (respond_to_rfq, respond_to_offer).
NoLoss ==
    \A r \in Requests : \A i \in RowsOf(r, "award") :
        LET row == ledger[SessionOf[r]][i] IN 2 * (Floor[row.supplier] - row.price) <= Cent

\* The threads with a supplier that have been recorded, by request and place.
Counted(s) ==
    {d \in Requests \X (1..Shortlisted) :
        d[2] <= job[d[1]].done /\ job[d[1]].threads[d[2]].supplier = s}

\* No thread's outcome is lost or counted twice in the memory requests share,
\* won or not (run_bilateral_bartering records in a loop with awaits in it).
MemoryFolds == \A s \in Suppliers : memory[s].auctions = Cardinality(Counted(s))

\* "Rule 3: Total budget cap" of PolicyEngine.evaluate_bid: no award is worth
\* more than the buyer's budget.
WithinBudget ==
    \A r \in Requests : \A i \in RowsOf(r, "award") :
        ledger[SessionOf[r]][i].price * job[r].rfq.quantity <= Money
=============================================================================
