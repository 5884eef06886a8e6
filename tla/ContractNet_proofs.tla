-------------------------- MODULE ContractNet_proofs --------------------------
(***************************************************************************)
(* What holds of the auctions of the v1 API however many requests run at   *)
(* once, whatever the suppliers answer and wherever the database fails or  *)
(* the process is restarted: the ledger implements HashChain, no award is  *)
(* under the winner's floor but for half a cent, what a client is told is  *)
(* the last award of its session and was bid for in it, and the memory of  *)
(* suppliers counts every thread once.                                     *)
(***************************************************************************)
EXTENDS ContractNet, FiniteSetTheorems, TLAPS

(***************************************************************************)
(* The shape of the state.  Nothing is known of a hash but that it is the  *)
(* genesis or was read from a ledger: H is the set of those in use.        *)
(***************************************************************************)
Fsms == [budget : Nat, count : Nat, offer : BOOLEAN, terminal : BOOLEAN]
Ends == [price : Int, fsm : Fsms, over : BOOLEAN, result : {"none", "accept", "reject"}]
Threads == [bid : Nat, supplier : Suppliers, end : Ends]
Profiles == [auctions : Nat, won : Nat, ratio : Int, slope : Int,
             speed : {"unknown", "fast", "medium", "slow"}]
Cents == {p \in Nat : Rounded(p) = p}
Bids == [kind : {"bid"}, supplier : Suppliers, price : Cents, lead : Int, carbon : Nat]
Clients == [quantity : Nat \ {0}, limit : Nat \ {0}, barter : BOOLEAN]
Rows(H) == [prev : H, turn : Nat, kind : {"rfq", "bid", "award"},
            supplier : Suppliers \cup {"none"}, price : Nat]

\* Rows on their way to the ledger.
Batches == Seq(Rows({Genesis}))

Appended == {"collect", "evaluate", "barter", "done"}
Pcs == Appended \cup {"new", "read", "insert", "record", "index", "failed", "lost"}

Jobs(H) == [pc : Pcs, rfq : Clients, fsm : AuctionStates, todo : Batches, then : Pcs,
            hash : H, ranked : Seq(Bids), threads : Seq(Threads), done : Nat, snap : Profiles,
            deal : [supplier : Suppliers \cup {"none"}, price : Nat]]

TypedWith(H) ==
    /\ Genesis \in H
    /\ ledger \in [Sessions -> Seq(Rows(H))]
    /\ memory \in [Suppliers -> Profiles] /\ index \in [Suppliers -> Profiles]
    /\ job \in [Requests -> Jobs(H)]
    /\ faults \in 0..MaxFaults

Typed == \E H : TypedWith(H)

\* A supplier has not won more often than it took part.
Sound(p) == p.won <= p.auctions

(***************************************************************************)
(* Where a request is: what it appends is for the phase it goes on with.   *)
(* The state machine is never asked for a move that is not in its table.   *)
(***************************************************************************)
Phase(j) == IF j.pc \in {"read", "insert"} THEN j.then ELSE j.pc

Expected(j) ==
    /\ Phase(j) = "new" => j.fsm = "INIT"
    /\ Phase(j) = "collect" => j.fsm = "RFQ_BROADCAST"
    /\ Phase(j) = "evaluate" => j.fsm = "BID_COLLECTION"
    /\ Phase(j) \in {"record", "index"} => j.fsm = "SHORTLIST_BARTER"

Placed(j) ==
    /\ j.todo = <<>> <=> j.pc \notin {"read", "insert"}
    /\ j.pc \in {"read", "insert"} => j.then \in Appended
    /\ Expected(j)
    /\ Phase(j) \in {"new", "collect", "evaluate", "barter", "lost"} => j.done = 0
    /\ j.done <= Len(j.threads) /\ Len(j.threads) <= Shortlisted
    /\ j.pc = "index" => j.done > 0
    /\ Sound(j.snap)

(***************************************************************************)
(* What the ledger of a session says, and will say when the rows on their  *)
(* way are in it.                                                          *)
(***************************************************************************)
Line(row) == <<row.kind, row.supplier, row.price>>
Lines(rows) == {Line(rows[i]) : i \in DOMAIN rows}

\* The least price a supplier can be awarded at: its floor, in whole cents.
Bearable(s) == Rounded(Floor[s])

\* No award is under the floor of the supplier but for the rounding.
Covered(lines) ==
    \A line \in lines : line[1] = "award" => line[2] \in Suppliers /\ line[3] >= Bearable(line[2])

\* The supplier had bid within the limit, and not less than the price.
Grounded(supplier, price, limit, lines) ==
    \E line \in lines : /\ line[1] = "bid" /\ line[2] = supplier
                       /\ line[3] \in Nat /\ price <= line[3] /\ line[3] <= limit

\* A price the supplier can be awarded at.
Fair(supplier, price, limit, lines) ==
    supplier \in Suppliers /\ price >= Bearable(supplier) /\ Grounded(supplier, price, limit, lines)

\* The award a client will be told of is the newest row.
Newest(j, rows) ==
    LET told == <<"award", j.deal.supplier, j.deal.price>>
    IN  IF j.todo # <<>> THEN Len(j.todo) = 1 /\ Line(j.todo[1]) = told
        ELSE rows # <<>> /\ Line(rows[Len(rows)]) = told

Priced(j, rows) ==
    LET lines == Lines(rows) \cup Lines(j.todo)
    IN  /\ Covered(lines)
        /\ Phase(j) \in {"new", "collect", "evaluate"} => j.deal = NoDeal
        /\ Phase(j) = "evaluate" => \A k \in DOMAIN j.ranked :
              /\ <<"bid", j.ranked[k].supplier, j.ranked[k].price>> \in lines
              /\ j.ranked[k].price >= Bearable(j.ranked[k].supplier)
        /\ Phase(j) = "barter" => \A k \in DOMAIN j.ranked :
              Fair(j.ranked[k].supplier, j.ranked[k].price, j.rfq.limit, lines)
        /\ Phase(j) \in {"record", "index"} => \A k \in DOMAIN j.threads :
              j.threads[k].end.result = "accept" =>
                  Fair(j.threads[k].supplier, j.threads[k].end.price, j.rfq.limit, lines)
        /\ Phase(j) \in {"barter", "record", "index", "done"} /\ j.deal # NoDeal =>
              Newest(j, rows) /\ Grounded(j.deal.supplier, j.deal.price, j.rfq.limit, lines)

\* The hash a request is about to write is that of the newest row.
Linked(r) == At(r, "insert") => job[r].hash = Chain!Tip(SessionOf[r], ledger[SessionOf[r]])

IInv ==
    /\ Typed
    /\ \A s \in Suppliers : Sound(memory[s]) /\ Sound(index[s])
    /\ \A r \in Requests : /\ Placed(job[r])
                           /\ Priced(job[r], ledger[SessionOf[r]])
                           /\ Linked(r)
    /\ MemoryFolds /\ \A s \in Suppliers : IsFiniteSet(Counted(s))

(***************************************************************************)
(* The ranking.  Positions are told apart by how many are ahead of them.   *)
(***************************************************************************)
LEMMA SortedPicks ==
    ASSUME NEW S \in SUBSET Nat, IsFiniteSet(S), NEW mark, \A i \in S : mark[i] \in Int
    PROVE  Sorted(S, mark) \in [1..Cardinality(S) -> S]
<1> DEFINE Ahead(i) == {k \in S : mark[k] > mark[i] \/ (mark[k] = mark[i] /\ k < i)}
           card == Cardinality(S)
           place == [i \in S |-> Cardinality(Ahead(i))]
<1>1. card \in Nat
  BY FS_CardinalityType
<1>2. ASSUME NEW i \in S
      PROVE  IsFiniteSet(Ahead(i)) /\ Cardinality(Ahead(i)) \in 0..(card - 1)
  <2>1. Ahead(i) \in SUBSET (S \ {i})
    OBVIOUS
  <2>2. IsFiniteSet(S \ {i}) /\ Cardinality(S \ {i}) = card - 1
    BY FS_RemoveElement
  <2>3. IsFiniteSet(Ahead(i)) /\ Cardinality(Ahead(i)) <= card - 1
    <3> HIDE DEF Ahead
    <3>1. QED
      BY <2>1, <2>2, FS_Subset
  <2>4. Cardinality(Ahead(i)) \in Nat
    BY <2>3, FS_CardinalityType
  <2>5. QED
    BY <1>1, <2>3, <2>4
<1>3. ASSUME NEW i \in S, NEW k \in S, i \in Ahead(k) PROVE place[i] # place[k]
  <2>1. ASSUME NEW x \in Ahead(i) PROVE x \in Ahead(k)
    <3>1. x \in Nat /\ i \in Nat /\ k \in Nat /\ mark[x] \in Int /\ mark[i] \in Int /\ mark[k] \in Int
      OBVIOUS
    <3>2. mark[x] > mark[i] \/ (mark[x] = mark[i] /\ x < i)
      OBVIOUS
    <3>3. mark[i] > mark[k] \/ (mark[i] = mark[k] /\ i < k)
      BY <1>3
    <3>4. QED
      BY <3>1, <3>2, <3>3
  <2>2. i \notin Ahead(i)
    OBVIOUS
  <2>3. Cardinality(Ahead(i)) # Cardinality(Ahead(k))
    <3> HIDE DEF Ahead
    <3>1. IsFiniteSet(Ahead(k))
      BY <1>2
    <3>2. QED
      BY <1>3, <2>1, <2>2, <3>1, FS_Subset
  <2>4. QED
    BY <2>3
<1>4. \A i \in S, k \in S : i # k => i \in Ahead(k) \/ k \in Ahead(i)
  OBVIOUS
<1>5. place \in Injection(S, 0..(card - 1))
  <2> HIDE DEF Ahead
  <2>1. place \in [S -> 0..(card - 1)]
    BY <1>2
  <2>2. \A i, k \in S : place[i] = place[k] => i = k
    BY <1>3, <1>4
  <2>3. QED
    BY <2>1, <2>2 DEF Injection, IsInjective
<1>6. IsFiniteSet(0..(card - 1)) /\ Cardinality(0..(card - 1)) = card
  <2> HIDE DEF card
  <2>1. IsFiniteSet(0..(card - 1))
        /\ Cardinality(0..(card - 1)) = IF 0 > card - 1 THEN 0 ELSE (card - 1) - 0 + 1
    BY <1>1, FS_Interval
  <2>2. QED
    BY <1>1, <2>1
<1>7. place \in Surjection(S, 0..(card - 1))
  <2> HIDE DEF place
  <2>1. QED
    BY <1>5, <1>6, FS_Injection
<1>8. ASSUME NEW n \in 1..card PROVE \E i \in S : Cardinality(Ahead(i)) = n - 1
  <2>1. n - 1 \in 0..(card - 1)
    BY <1>1
  <2>2. PICK i \in S : place[i] = n - 1
    BY <1>7, <2>1 DEF Surjection
  <2>3. QED
    BY <2>2
<1>9. Sorted(S, mark) = [n \in 1..card |-> CHOOSE i \in S : Cardinality(Ahead(i)) = n - 1]
  BY DEF Sorted
<1>10. QED
  <2> HIDE DEF Ahead
  <2>1. QED
    BY <1>8, <1>9

(***************************************************************************)
(* Bids and scores.                                                        *)
(***************************************************************************)
LEMMA ScoreIsInt ==
    ASSUME NEW bid \in Bids, NEW quantity \in Nat
    PROVE  Score(bid, quantity) \in Int
<1>1. ScorePrice(bid.price) \in Int
  BY PricesAssumption DEF ScorePrice, Most, Bids, Cents
<1>2. ScoreLead(bid.lead) \in Int
  BY LimitsAssumption DEF ScoreLead, Most, Bids, Cents
<1>3. ScoreCarbon(bid.carbon, quantity) \in Int
  <2>1. Most(quantity, 1) * Baseline \in Nat \ {0}
    BY LimitsAssumption DEF Most
  <2>2. (100 * bid.carbon) \div (Most(quantity, 1) * Baseline) \in Int
    BY <2>1 DEF Bids, Cents
  <2>3. QED
    BY <2>2 DEF ScoreCarbon, Most
<1>4. Reliability[bid.supplier] \in Int
  BY PricesAssumption DEF Bids, Cents
<1>5. QED
  BY <1>1, <1>2, <1>3, <1>4 DEF Score

\* Rounding to cents keeps the order, stays within half a cent and is done once.
LEMMA RoundedOnce ==
    ASSUME NEW x \in Int
    PROVE  /\ Rounded(x) \in Int /\ Rounded(Rounded(x)) = Rounded(x)
           /\ 2 * (x - Rounded(x)) <= Cent
           /\ x \in Nat => Rounded(x) \in Nat
<1>1. (x + 5) \div 10 \in Int /\ 10 * ((x + 5) \div 10) >= x - 4
  OBVIOUS
<1>2. 10 \div 2 = 5
  OBVIOUS
<1>3. Rounded(x) = 10 * ((x + 5) \div 10)
  BY <1>2 DEF Rounded, Cent
<1>4. \A n \in Int : (10 * n + 5) \div 10 = n
  OBVIOUS
<1>5. Rounded(Rounded(x)) = Rounded(x)
  BY <1>1, <1>2, <1>3, <1>4 DEF Rounded, Cent
<1>6. x \in Nat => (x + 5) \div 10 \in Nat
  OBVIOUS
<1>7. QED
  BY <1>1, <1>3, <1>5, <1>6 DEF Cent

LEMMA RoundedOrder ==
    ASSUME NEW x \in Int, NEW y \in Int, x <= y
    PROVE  Rounded(x) <= Rounded(y)
<1>1. 10 \div 2 = 5
  OBVIOUS
<1>2. (x + 5) \div 10 <= (y + 5) \div 10 /\ (x + 5) \div 10 \in Int /\ (y + 5) \div 10 \in Int
  OBVIOUS
<1>3. QED
  BY <1>1, <1>2 DEF Rounded, Cent

LEMMA BearableIs ==
    ASSUME NEW s \in Suppliers
    PROVE  /\ Bearable(s) \in Nat /\ Floor[s] \in Nat \ {0} /\ Bearable(s) = Rounded(Floor[s])
           /\ 2 * (Floor[s] - Bearable(s)) <= Cent
  BY PricesAssumption, RoundedOnce DEF Bearable

\* Whatever is drawn, a supplier asks for no less than its floor in cents.
LEMMA PriceCovers ==
    ASSUME NEW s \in Suppliers, NEW markup \in 0..15, NEW limit \in Nat
    PROVE  Price(s, markup, limit) \in Cents /\ Price(s, markup, limit) >= Bearable(s)
<1>1. Floor[s] \in Nat \ {0} /\ Bearable(s) = Rounded(Floor[s])
  BY BearableIs
<1>2. Floor[s] * (100 + markup) \in Int
  BY <1>1
<1>3. (Floor[s] * (100 + markup)) \div 100 \in Int /\ (limit * 98) \div 100 \in Int
  BY <1>2
<1> DEFINE asked == Most(Least((Floor[s] * (100 + markup)) \div 100, (limit * 98) \div 100), Floor[s])
<1>4. asked \in Nat /\ Floor[s] <= asked
  BY <1>1, <1>3 DEF Most, Least
<1>5. Price(s, markup, limit) = Rounded(asked)
  BY DEF Price
<1> HIDE DEF asked
<1>6. Rounded(asked) \in Nat /\ Rounded(Rounded(asked)) = Rounded(asked)
  BY <1>4, RoundedOnce
<1>7. Rounded(Floor[s]) <= Rounded(asked)
  BY <1>1, <1>4, RoundedOrder
<1>8. QED
  BY <1>1, <1>5, <1>6, <1>7 DEF Cents

\* An answer is a bid of the supplier it came from, at a price it can bear.
LEMMA AnswerIsBid ==
    ASSUME NEW s \in Suppliers, NEW rfq \in Clients, NEW answer \in Answers(s, rfq, Luck),
           answer.kind = "bid"
    PROVE  answer \in Bids /\ answer.supplier = s /\ answer.price >= Bearable(s)
<1>1. PICK l \in Luck :
        answer = IF Target + l.delay > 0 /\ Price(s, l.markup, rfq.limit) > 0
                 THEN [kind |-> "bid", supplier |-> s, price |-> Price(s, l.markup, rfq.limit),
                       lead |-> Target + l.delay, carbon |-> Carbon[s] * rfq.quantity]
                 ELSE [kind |-> "failure"]
  BY DEF Answers
<1>2. answer = [kind |-> "bid", supplier |-> s, price |-> Price(s, l.markup, rfq.limit),
                lead |-> Target + l.delay, carbon |-> Carbon[s] * rfq.quantity]
  BY <1>1
<1>3. l.markup \in 0..15 /\ l.delay \in Int /\ rfq.limit \in Nat /\ rfq.quantity \in Nat
  BY RfqsAssumption DEF Clients
<1>4. Price(s, l.markup, rfq.limit) \in Cents /\ Price(s, l.markup, rfq.limit) >= Bearable(s)
  BY <1>3, PriceCovers
<1>5. Target + l.delay \in Int /\ Carbon[s] * rfq.quantity \in Nat
  <2>1. Carbon[s] \in Nat /\ Target \in Nat
    BY PricesAssumption, LimitsAssumption
  <2>2. QED
    BY <1>3, <2>1
<1>6. QED
  BY <1>2, <1>4, <1>5 DEF Bids, Cents

(***************************************************************************)
(* Bartering.  A thread never offers more than both its opening and the    *)
(* supplier's floor, and what the supplier accepts is not under its floor. *)
(***************************************************************************)
LEMMA LeastOfNats ==
    ASSUME NEW S \in SUBSET Nat, S # {}
    PROVE  \E n \in S : \A k \in S : n <= k
<1> DEFINE Below == {ss \in Nat \X Nat : ss[1] < ss[2]}
<1>1. IsWellFoundedOn(Below, Nat)
  BY NatLessThanWellFounded, Zenon DEF OpToRel
<1>2. PICK n \in S : \A k \in S : ~ (<<k, n>> \in Below)
  <2> HIDE DEF Below
  <2>1. QED
    BY <1>1, WFMin, Zenon
<1>3. ASSUME NEW k \in S PROVE n <= k
  <2>1. ~ (k < n)
    BY <1>2
  <2>2. QED
    BY <2>1
<1>4. QED
  BY <1>3

LEMMA RecordedIsFsm ==
    ASSUME NEW fsm \in Fsms, NEW type
    PROVE  Recorded(fsm, type) \in Fsms
<1>1. CASE Valid(fsm, type)
  <2>1. Recorded(fsm, type) = [budget |-> fsm.budget, count |-> fsm.count + 1,
                               offer |-> fsm.offer \/ type \in {"offer", "counter"},
                               terminal |-> type \in {"accept", "reject"}]
    BY <1>1 DEF Recorded, Fsms
  <2>2. fsm.budget \in Nat /\ fsm.count + 1 \in Nat
    BY DEF Fsms
  <2>3. (fsm.offer \/ type \in {"offer", "counter"}) \in BOOLEAN
    BY ZenonT(20)
  <2>4. (type \in {"accept", "reject"}) \in BOOLEAN
    OBVIOUS
  <2>5. QED
    BY <2>1, <2>2, <2>3, <2>4 DEF Fsms
<1>2. CASE ~ Valid(fsm, type)
  <2>1. Recorded(fsm, type) = [budget |-> fsm.budget, count |-> fsm.count, offer |-> fsm.offer,
                               terminal |-> fsm.terminal \/ fsm.count >= fsm.budget]
    BY <1>2 DEF Recorded, Fsms
  <2>2. fsm.budget \in Nat /\ fsm.count \in Nat /\ fsm.offer \in BOOLEAN
    BY DEF Fsms
  <2>3. (fsm.terminal \/ fsm.count >= fsm.budget) \in BOOLEAN
    BY ZenonT(20)
  <2>4. QED
    BY <2>1, <2>2, <2>3 DEF Fsms
<1>3. QED
  BY <1>1, <1>2

\* A supplier accepts nothing under its floor, for what it was offered in
\* cents, and counters with no more than that unless it was under its floor.
LEMMA ReplyBounds ==
    ASSUME NEW floor \in Nat, NEW price \in Int, NEW turn \in Int
    PROVE  LET reply == Reply(floor, price, turn) IN
           /\ reply.type \in {"accept", "reject", "counter"} /\ reply.price \in Int
           /\ reply.type = "accept" => price >= floor
           /\ reply.type # "counter" => reply.price = Rounded(price)
           /\ reply.price <= Rounded(price) \/ reply.price <= Rounded(floor)
<1>1. MaxTurns \in Int /\ Rounded(price) \in Int
  BY LimitsAssumption, RoundedOnce
<1>2. CASE turn >= MaxTurns - 1
  <2>1. Reply(floor, price, turn) =
          [type |-> IF price >= floor THEN "accept" ELSE "reject", price |-> Rounded(price)]
    BY <1>2 DEF Reply
  <2>2. QED
    BY <1>1, <2>1
<1>3. CASE ~ (turn >= MaxTurns - 1) /\ price >= (floor * 110) \div 100
  <2>1. (floor * 110) \div 100 \in Int /\ (floor * 110) \div 100 >= floor
    OBVIOUS
  <2>2. price >= floor
    BY <1>3, <2>1
  <2>3. Reply(floor, price, turn) = [type |-> "accept", price |-> Rounded(price)]
    BY <1>3 DEF Reply
  <2>4. QED
    BY <1>1, <2>2, <2>3
<1>4. CASE ~ (turn >= MaxTurns - 1) /\ ~ (price >= (floor * 110) \div 100)
  <2> DEFINE part == ((price - floor) * 75) \div 100
             share == (price * 98) \div 100
             asked == Most(Least(floor + part, share), floor)
  <2>1. part \in Int /\ share \in Int /\ (price >= floor => floor + part <= price)
        /\ (price < floor => floor + part <= floor)
    OBVIOUS
  <2>2. Reply(floor, price, turn) = [type |-> "counter", price |-> Rounded(asked)]
    BY <1>4 DEF Reply
  <2> HIDE DEF part, share
  <2>3. asked \in Int /\ (asked <= price \/ asked <= floor)
    BY <2>1 DEF Most, Least
  <2> HIDE DEF asked
  <2>4. Rounded(asked) \in Int /\ (Rounded(asked) <= Rounded(price) \/ Rounded(asked) <= Rounded(floor))
    BY <2>3, RoundedOnce, RoundedOrder
  <2>5. QED
    BY <2>2, <2>4
<1>5. QED
  BY <1>2, <1>3, <1>4

\* What a thread may come to: never more than top, and a deal at the floor in
\* cents at least.
Outcomes(floor, top) ==
    {th \in Ends : th.price <= top /\ (th.result = "accept" => th.over = TRUE /\ th.price >= Rounded(floor))}

LEMMA TurnKeeps ==
    ASSUME NEW floor \in Nat, NEW top \in Cents, Rounded(floor) <= top,
           NEW th \in Outcomes(floor, top), NEW turn \in Int
    PROVE  Turn(floor, th, turn) \in Outcomes(floor, top)
<1> DEFINE reply == Reply(floor, th.price, turn)
           heard == Recorded(th.fsm, reply.type)
           split == (th.price + reply.price) \div 2
           said == Recorded(heard, "counter")
<1>1. th \in Ends /\ th.price \in Int /\ th.fsm \in Fsms /\ th.price <= top
      /\ th.over \in BOOLEAN /\ (th.result = "accept" => th.over = TRUE /\ th.price >= Rounded(floor))
      /\ Rounded(floor) \in Int
  BY RoundedOnce DEF Outcomes, Ends
<1>2. /\ reply.type \in {"accept", "reject", "counter"} /\ reply.price \in Int
      /\ reply.type = "accept" => reply.price >= Rounded(floor)
      /\ reply.price <= top
  <2> HIDE DEF reply
  <2>1. /\ reply.type \in {"accept", "reject", "counter"} /\ reply.price \in Int
        /\ reply.type = "accept" => th.price >= floor
        /\ reply.type # "counter" => reply.price = Rounded(th.price)
        /\ reply.price <= Rounded(th.price) \/ reply.price <= Rounded(floor)
    BY <1>1, ReplyBounds DEF reply
  <2>2. Rounded(th.price) \in Int /\ Rounded(th.price) <= top
    <3>1. top \in Int /\ Rounded(top) = top
      BY DEF Cents
    <3>2. Rounded(th.price) <= Rounded(top)
      BY <1>1, <3>1, RoundedOrder
    <3>3. QED
      BY <1>1, <3>1, <3>2, RoundedOnce
  <2>3. th.price >= floor => Rounded(floor) <= Rounded(th.price)
    BY <1>1, RoundedOrder
  <2>4. top \in Int
    BY DEF Cents
  <2>5. reply.price <= top
    BY <1>1, <2>1, <2>2, <2>4
  <2>6. QED
    BY <1>1, <2>1, <2>2, <2>3, <2>5
<1>3. heard \in Fsms /\ said \in Fsms
  BY <1>1, RecordedIsFsm
<1>4. split \in Int /\ split <= top
  <2> HIDE DEF reply
  <2>1. QED
    BY <1>1, <1>2 DEF Cents
<1>5. CASE th.over
  BY <1>5 DEF Turn
<1>6. CASE ~ th.over /\ ~ Valid(th.fsm, reply.type)
  <2>1. Turn(floor, th, turn) = [th EXCEPT !.fsm = heard, !.over = TRUE]
    BY <1>6 DEF Turn
  <2> HIDE DEF heard
  <2>2. QED
    BY <1>1, <1>3, <2>1 DEF Outcomes, Ends
<1>7. CASE ~ th.over /\ Valid(th.fsm, reply.type) /\ reply.type # "counter"
  <2>1. Turn(floor, th, turn) =
          [th EXCEPT !.price = reply.price, !.fsm = heard, !.over = TRUE, !.result = reply.type]
    BY <1>7 DEF Turn
  <2>2. reply.type \in {"accept", "reject"}
    BY <1>2, <1>7
  <2> HIDE DEF heard, reply
  <2>3. QED
    BY <1>1, <1>2, <1>3, <2>1, <2>2 DEF Outcomes, Ends
<1>8. CASE ~ th.over /\ Valid(th.fsm, reply.type) /\ reply.type = "counter"
  <2> DEFINE last == ~ Valid(heard, "counter")
  <2>1. Turn(floor, th, turn) = [th EXCEPT !.price = split, !.fsm = said, !.over = last]
    BY <1>8 DEF Turn
  <2>2. th.result # "accept"
    BY <1>1, <1>8
  <2>3. last \in BOOLEAN
    BY Zenon
  <2> HIDE DEF said, split, last
  <2>4. QED
    BY <1>1, <1>3, <1>4, <2>1, <2>2, <2>3 DEF Outcomes, Ends
<1>9. QED
  BY <1>5, <1>6, <1>7, <1>8

\* The turns of a thread, one after the other: the function Barter takes its
\* last value of exists.
TurnsOf(floor, start, after, m) ==
    after = [n \in 0..m |-> IF n = 0 THEN start ELSE Turn(floor, after[n - 1], n - 1)]

LEMMA TurnsExist ==
    ASSUME NEW floor, NEW start
    PROVE  \E after : TurnsOf(floor, start, after, MaxTurns)
<1> USE DEF TurnsOf
<1> DEFINE IsRun(g, m) == TurnsOf(floor, start, g, m)
           Stuck == {m \in Nat : ~ \E g : IsRun(g, m)}
<1>1. SUFFICES ASSUME Stuck # {} PROVE FALSE
  BY LimitsAssumption
<1>2. PICK m \in Stuck : \A k \in Stuck : m <= k
  BY <1>1, LeastOfNats
<1>3. CASE m = 0
  <2> DEFINE g == [n \in 0..0 |-> start]
  <2>1. g = [n \in 0..0 |-> IF n = 0 THEN start ELSE Turn(floor, g[n - 1], n - 1)]
    OBVIOUS
  <2>2. QED
    BY <1>3, <2>1
<1>4. CASE m # 0
  <2>1. m - 1 \in Nat /\ m - 1 \notin Stuck
    <3>1. Stuck \in SUBSET Nat
      OBVIOUS
    <3> HIDE DEF Stuck
    <3>2. QED
      BY <1>2, <1>4, <3>1
  <2>2. PICK g : IsRun(g, m - 1)
    BY <2>1
  <2> DEFINE h == [n \in 0..m |-> IF n < m THEN g[n] ELSE Turn(floor, g[m - 1], m - 1)]
  <2>3. ASSUME NEW n \in 0..m
        PROVE  h[n] = IF n = 0 THEN start ELSE Turn(floor, h[n - 1], n - 1)
    <3>1. CASE n = m
      <4>1. h[n] = Turn(floor, g[m - 1], m - 1) /\ h[n - 1] = g[m - 1]
        BY <1>4, <2>1, <3>1
      <4>2. QED
        BY <1>4, <3>1, <4>1
    <3>2. CASE n # m
      <4>1. n \in 0..(m - 1) /\ h[n] = g[n]
        BY <3>2
      <4>2. g[n] = IF n = 0 THEN start ELSE Turn(floor, g[n - 1], n - 1)
        BY <2>2, <4>1
      <4>3. n # 0 => h[n - 1] = g[n - 1]
        BY <4>1
      <4>4. QED
        BY <4>1, <4>2, <4>3
    <3>3. QED
      BY <3>1, <3>2
  <2>4. h = [n \in 0..m |-> IF n = 0 THEN start ELSE Turn(floor, h[n - 1], n - 1)]
    <3>1. h = [n \in 0..m |-> h[n]]
      OBVIOUS
    <3> HIDE DEF h
    <3>2. QED
      BY <2>3, <3>1
  <2>5. QED
    <3> HIDE DEF h
    <3>1. IsRun(h, m)
      BY <2>4
    <3>2. QED
      BY <3>1
<1>5. QED
  BY <1>3, <1>4

LEMMA BarterTerms ==
    ASSUME NEW floor \in Nat, NEW top \in Cents, NEW opening \in Int, Rounded(floor) <= top, opening <= top
    PROVE  Barter(floor, opening) \in Outcomes(floor, top)
<1> DEFINE fsm == Recorded(NewFsm(Budget), "offer")
           start == [price |-> opening, fsm |-> fsm, over |-> FALSE, result |-> "none"]
           after == CHOOSE g : TurnsOf(floor, start, g, MaxTurns)
           Bad == {n \in 0..MaxTurns : after[n] \notin Outcomes(floor, top)}
<1>1. start \in Outcomes(floor, top)
  <2>1. NewFsm(Budget) \in Fsms
    BY LimitsAssumption DEF NewFsm, Budget, Fsms
  <2>2. fsm \in Fsms
    BY <2>1, RecordedIsFsm
  <2> HIDE DEF fsm
  <2>3. QED
    BY <2>2 DEF Outcomes, Ends
<1> HIDE DEF start
<1>2. TurnsOf(floor, start, after, MaxTurns)
  BY TurnsExist
<1>3. Barter(floor, opening) = after[MaxTurns]
  BY DEF Barter, TurnsOf, start
<1> HIDE DEF after
<1>4. ASSUME Bad # {} PROVE FALSE
  <2>1. PICK n \in Bad : \A k \in Bad : n <= k
    <3>1. Bad \in SUBSET Nat
      BY LimitsAssumption
    <3> HIDE DEF Bad
    <3>2. QED
      BY <1>4, <3>1, LeastOfNats
  <2>2. n # 0
    <3>1. after[0] = start
      BY <1>2, LimitsAssumption DEF TurnsOf
    <3>2. QED
      BY <1>1, <2>1, <3>1
  <2>3. n - 1 \in 0..MaxTurns /\ n - 1 \notin Bad
    BY <2>1, <2>2, LimitsAssumption
  <2>4. after[n] = Turn(floor, after[n - 1], n - 1)
    BY <1>2, <2>2 DEF TurnsOf
  <2>5. after[n - 1] \in Outcomes(floor, top)
    BY <2>3
  <2>6. after[n] \in Outcomes(floor, top)
    BY <2>3, <2>4, <2>5, TurnKeeps
  <2>7. QED
    BY <2>1, <2>6
<1>5. MaxTurns \in 0..MaxTurns
  BY LimitsAssumption
<1>6. QED
  BY <1>3, <1>4, <1>5

\* The buyer opens with no more than was bid.
LEMMA OpeningBound ==
    ASSUME NEW bid \in Nat, NEW p \in Profiles
    PROVE  Opening(bid, p) \in Int /\ Opening(bid, p) <= bid
<1>1. Estimate(p) \in Int
  <2> DEFINE adjusted == CASE p.speed = "fast" -> 95 [] p.speed = "slow" -> 105 [] OTHER -> 100
  <2>1. adjusted \in Int
    OBVIOUS
  <2> HIDE DEF adjusted
  <2>2. Spot \in Int /\ p.ratio \in Int
    BY PricesAssumption DEF Profiles
  <2>3. Spot * p.ratio \in Int
    BY <2>2
  <2>4. (Spot * p.ratio) * adjusted \in Int
    BY <2>1, <2>3
  <2>5. ((Spot * p.ratio) * adjusted) \div 10000 \in Int
    BY <2>4
  <2>6. Estimate(p) = IF p.won = 0 THEN (Spot * 92) \div 100
                      ELSE Most(((Spot * p.ratio) * adjusted) \div 10000, (Spot * 60) \div 100)
    BY DEF Estimate, adjusted
  <2>7. (Spot * 92) \div 100 \in Int /\ (Spot * 60) \div 100 \in Int
    BY <2>2
  <2>8. QED
    BY <2>5, <2>6, <2>7 DEF Most
<1>2. QED
  BY <1>1 DEF Opening, Most

\* An outcome counts as one auction, and as one won if it was.
LEMMA LearntSound ==
    ASSUME NEW p \in Profiles, Sound(p), NEW bid \in Nat, NEW final \in Int,
           NEW turns \in Nat, NEW won \in BOOLEAN
    PROVE  /\ Learnt(p, bid, final, turns, won) \in Profiles
           /\ Sound(Learnt(p, bid, final, turns, won))
           /\ Learnt(p, bid, final, turns, won).auctions = p.auctions + 1
<1> DEFINE n == p.won + 1
           drop == (bid - final) \div turns
           slope == IF ~ won \/ turns = 0 \/ bid <= final THEN p.slope
                    ELSE IF p.slope = 0 THEN drop ELSE (70 * p.slope + 30 * drop) \div 100
           ratio == IF won THEN (p.ratio * (n - 1) + (100 * final) \div Spot) \div n ELSE p.ratio
           speed == IF 20 * slope > Spot THEN "fast" ELSE IF 100 * slope > Spot THEN "medium"
                    ELSE "slow"
<1>1. /\ p.auctions \in Nat /\ p.won \in Nat /\ p.ratio \in Int /\ p.slope \in Int
      /\ p.won <= p.auctions /\ Spot \in Nat \ {0}
  BY PricesAssumption DEF Profiles, Sound
<1>2. slope \in Int
  <2>1. turns # 0 => drop \in Int
    OBVIOUS
  <2> HIDE DEF drop
  <2>2. QED
    BY <1>1, <2>1
<1>3. ratio \in Int
  <2>1. n \in Nat \ {0} /\ (100 * final) \div Spot \in Int
    BY <1>1
  <2> HIDE DEF n
  <2>2. p.ratio * (n - 1) \in Int
    BY <1>1, <2>1
  <2>3. p.ratio * (n - 1) + (100 * final) \div Spot \in Int
    BY <2>1, <2>2
  <2>4. (p.ratio * (n - 1) + (100 * final) \div Spot) \div n \in Int
    BY <2>1, <2>3
  <2>5. QED
    BY <1>1, <2>4
<1>4. Learnt(p, bid, final, turns, won) =
        [auctions |-> p.auctions + 1, won |-> IF won THEN n ELSE p.won,
         ratio |-> ratio, slope |-> slope, speed |-> speed]
  BY DEF Learnt
<1>5. speed \in {"unknown", "fast", "medium", "slow"}
  OBVIOUS
<1> HIDE DEF slope, ratio, speed
<1>6. (IF won THEN n ELSE p.won) \in Nat /\ (IF won THEN n ELSE p.won) <= p.auctions + 1
  BY <1>1
<1> HIDE DEF n
<1>7. QED
  BY <1>1, <1>2, <1>3, <1>4, <1>5, <1>6 DEF Profiles, Sound

\* There is a best deal where there is a deal.
LEMMA BestDealAccepted ==
    ASSUME NEW j, j.threads \in Seq(Threads), Accepted(j) # {},
           \A i \in Accepted(j) : j.threads[i].end.price >= 0
    PROVE  BestDeal(j) \in Accepted(j)
<1> DEFINE price(i) == j.threads[i].end.price
           prices == {price(i) : i \in Accepted(j)}
           Best(i) == \A k \in Accepted(j) : price(i) < price(k) \/ (price(i) = price(k) /\ i <= k)
<1>1. \A i \in Accepted(j) : i \in Nat /\ price(i) \in Nat
  <2> SUFFICES ASSUME NEW i \in Accepted(j) PROVE i \in Nat /\ price(i) \in Nat
    OBVIOUS
  <2>1. i \in DOMAIN j.threads
    BY DEF Accepted
  <2>2. j.threads[i] \in Threads
    BY <2>1
  <2>3. j.threads[i].end.price \in Int
    BY <2>2 DEF Threads, Ends
  <2>4. QED
    BY <2>1, <2>3
<1> HIDE DEF price
<1>2. PICK p \in prices : \A q \in prices : p <= q
  <2>1. prices \in SUBSET Nat /\ prices # {}
    BY <1>1
  <2> HIDE DEF prices
  <2>2. QED
    BY <2>1, LeastOfNats
<1> DEFINE cheapest == {i \in Accepted(j) : price(i) = p}
<1>3. PICK i \in cheapest : \A k \in cheapest : i <= k
  <2>1. cheapest \in SUBSET Nat /\ cheapest # {}
    BY <1>1, <1>2
  <2> HIDE DEF cheapest
  <2>2. QED
    BY <2>1, LeastOfNats
<1>4. Best(i)
  <2>1. ASSUME NEW k \in Accepted(j) PROVE price(i) < price(k) \/ (price(i) = price(k) /\ i <= k)
    <3>1. price(i) = p /\ p <= price(k)
      BY <1>2, <1>3
    <3>2. CASE price(k) = p
      BY <1>3, <3>1, <3>2
    <3>3. CASE price(k) # p
      BY <1>1, <1>2, <3>1, <3>3
    <3>4. QED
      BY <3>2, <3>3
  <2>2. QED
    BY <2>1
<1>5. BestDeal(j) = CHOOSE m \in Accepted(j) : Best(m)
  BY DEF BestDeal, price
<1>6. i \in Accepted(j)
  OBVIOUS
<1> HIDE DEF Best
<1>7. QED
  BY <1>4, <1>5, <1>6

(***************************************************************************)
(* What is written.                                                        *)
(***************************************************************************)
LEMMA LinesAppend ==
    ASSUME NEW R, NEW rows \in Seq(R), NEW row \in R
    PROVE  Lines(Append(rows, row)) = Lines(rows) \cup {Line(row)}
<1> DEFINE longer == Append(rows, row)
<1>1. /\ DOMAIN longer = 1..(Len(rows) + 1) /\ DOMAIN rows = 1..Len(rows)
      /\ \A i \in 1..Len(rows) : longer[i] = rows[i]
      /\ longer[Len(rows) + 1] = row /\ Len(rows) \in Nat
  OBVIOUS
<1> HIDE DEF longer
<1>2. \A i \in DOMAIN longer : i \in DOMAIN rows \/ i = Len(rows) + 1
  BY <1>1
<1>3. Lines(longer) = Lines(rows) \cup {Line(row)}
  BY <1>1, <1>2 DEF Lines
<1>4. QED
  BY <1>3 DEF longer

LEMMA LinesTail ==
    ASSUME NEW R, NEW rows \in Seq(R), rows # <<>>
    PROVE  Lines(rows) = {Line(Head(rows))} \cup Lines(Tail(rows))
<1> DEFINE rest == Tail(rows)
<1>1. /\ DOMAIN rest = 1..(Len(rows) - 1) /\ DOMAIN rows = 1..Len(rows)
      /\ \A i \in 1..(Len(rows) - 1) : rest[i] = rows[i + 1]
      /\ Head(rows) = rows[1] /\ Len(rows) \in Nat \ {0}
  OBVIOUS
<1> HIDE DEF rest
<1>2. ASSUME NEW i \in DOMAIN rows PROVE Line(rows[i]) \in {Line(rows[1])} \cup Lines(rest)
  <2>1. CASE i = 1
    BY <2>1
  <2>2. CASE i # 1
    <3>1. i - 1 \in DOMAIN rest /\ rest[i - 1] = rows[i]
      BY <1>1, <2>2
    <3>2. QED
      BY <3>1 DEF Lines
  <2>3. QED
    BY <2>1, <2>2
<1>3. ASSUME NEW i \in DOMAIN rest PROVE Line(rest[i]) \in Lines(rows)
  <2>1. i + 1 \in DOMAIN rows /\ rows[i + 1] = rest[i]
    BY <1>1
  <2>2. QED
    BY <2>1 DEF Lines
<1>4. Line(rows[1]) \in Lines(rows)
  BY <1>1 DEF Lines
<1>5. Lines(rows) = {Line(rows[1])} \cup Lines(rest)
  <2>1. \A l \in Lines(rows) : \E i \in DOMAIN rows : l = Line(rows[i])
    BY DEF Lines
  <2>2. \A l \in Lines(rest) : \E i \in DOMAIN rest : l = Line(rest[i])
    BY DEF Lines
  <2>3. QED
    BY <1>2, <1>3, <1>4, <2>1, <2>2
<1>6. QED
  BY <1>1, <1>5 DEF rest

LEMMA LinesOfNone == Lines(<<>>) = {}
  BY DEF Lines

(***************************************************************************)
(* Steps of one request.                                                   *)
(***************************************************************************)
\* A request that records nothing leaves the count of the memory alone.
LEMMA SameCount ==
    ASSUME MemoryFolds, \A s \in Suppliers : IsFiniteSet(Counted(s)), NEW H, TypedWith(H), NEW r \in Requests, NEW j \in Jobs(H),
           job' = [job EXCEPT ![r] = j], UNCHANGED memory,
           \/ j.done = job[r].done /\ j.threads = job[r].threads
           \/ j.done = 0 /\ job[r].done = 0
    PROVE  MemoryFolds' /\ \A s \in Suppliers : IsFiniteSet(Counted(s)')
<1> DEFINE Counts(d, s) == d[2] <= job[d[1]].done /\ job[d[1]].threads[d[2]].supplier = s
           CountsNow(d, s) == d[2] <= job'[d[1]].done /\ job'[d[1]].threads[d[2]].supplier = s
<1>1. ASSUME NEW d \in Requests \X (1..Shortlisted), NEW s \in Suppliers
      PROVE  Counts(d, s) <=> CountsNow(d, s)
  <2>1. d[1] \in Requests /\ d[2] \in 1..Shortlisted /\ Shortlisted \in Nat
    BY RfqsAssumption
  <2>2. CASE d[1] = r
    <3>1. job'[d[1]] = j /\ job[d[1]] = job[r]
      BY <2>2 DEF TypedWith
    <3>2. CASE j.done = job[r].done /\ j.threads = job[r].threads
      BY <3>1, <3>2
    <3>3. CASE j.done = 0 /\ job[r].done = 0
      BY <2>1, <3>1, <3>3
    <3>4. QED
      BY <3>2, <3>3
  <2>3. CASE d[1] # r
    <3>1. job'[d[1]] = job[d[1]]
      BY <2>1, <2>3 DEF TypedWith
    <3>2. QED
      BY <3>1
  <2>4. QED
    BY <2>2, <2>3
<1> HIDE DEF Counts, CountsNow
<1>2. ASSUME NEW s \in Suppliers
      PROVE  {d \in Requests \X (1..Shortlisted) : Counts(d, s)}
               = {d \in Requests \X (1..Shortlisted) : CountsNow(d, s)}
  BY <1>1
<1>3. QED
  BY <1>2 DEF MemoryFolds, Counted, Counts, CountsNow

\* A step that leaves the ledger alone.
LEMMA JobStep ==
    ASSUME IInv, NEW H, TypedWith(H), NEW r \in Requests, NEW j \in Jobs(H),
           job' = [job EXCEPT ![r] = j], UNCHANGED ledger, faults' \in 0..MaxFaults,
           memory' \in [Suppliers -> Profiles], index' \in [Suppliers -> Profiles],
           \A s \in Suppliers : Sound(memory'[s]) /\ Sound(index'[s]),
           Placed(j), Priced(j, ledger[SessionOf[r]]),
           j.pc = "insert" => j.hash = Chain!Tip(SessionOf[r], ledger[SessionOf[r]]),
           MemoryFolds', \A s \in Suppliers : IsFiniteSet(Counted(s)')
    PROVE  IInv'
<1>1. TypedWith(H)'
  BY DEF TypedWith
<1>2. ASSUME NEW q \in Requests
      PROVE  Placed(job'[q]) /\ Priced(job'[q], ledger[SessionOf[q]]) /\ Linked(q)'
  <2>1. CASE q = r
    <3>1. job'[q] = j
      BY <2>1 DEF TypedWith
    <3>2. QED
      BY <2>1, <3>1 DEF Linked, At
  <2>2. CASE q # r
    <3>1. job'[q] = job[q]
      BY <2>2 DEF TypedWith
    <3>2. Placed(job[q]) /\ Priced(job[q], ledger[SessionOf[q]]) /\ Linked(q)
      BY DEF IInv
    <3>3. QED
      BY <3>1, <3>2 DEF Linked, At
  <2>3. QED
    BY <2>1, <2>2
<1>3. QED
  BY <1>1, <1>2 DEF IInv, Typed

\* A step that leaves everything but the request alone.
LEMMA QuietStep ==
    ASSUME IInv, NEW H, TypedWith(H), NEW r \in Requests, NEW j \in Jobs(H),
           job' = [job EXCEPT ![r] = j], UNCHANGED <<ledger, memory, index>>,
           faults' \in 0..MaxFaults,
           Placed(j), Priced(j, ledger[SessionOf[r]]),
           j.pc = "insert" => j.hash = Chain!Tip(SessionOf[r], ledger[SessionOf[r]]),
           \/ j.done = job[r].done /\ j.threads = job[r].threads
           \/ j.done = 0 /\ job[r].done = 0
    PROVE  IInv'
<1>1. MemoryFolds' /\ \A s \in Suppliers : IsFiniteSet(Counted(s)')
  BY SameCount DEF IInv
<1>2. /\ memory' \in [Suppliers -> Profiles] /\ index' \in [Suppliers -> Profiles]
      /\ \A s \in Suppliers : Sound(memory'[s]) /\ Sound(index'[s])
  BY DEF IInv, TypedWith
<1>3. QED
  BY <1>1, <1>2, JobStep

\* Hashes read from a ledger may be new.
LEMMA Widened ==
    ASSUME NEW H, NEW x, TypedWith(H)
    PROVE  TypedWith(H \cup {x}) /\ Jobs(H) \subseteq Jobs(H \cup {x})
<1>1. Rows(H) \subseteq Rows(H \cup {x})
  BY DEF Rows
<1>2. Seq(Rows(H)) \subseteq Seq(Rows(H \cup {x}))
  <2> DEFINE A == Rows(H)
             B == Rows(H \cup {x})
  <2>1. A \subseteq B
    BY <1>1
  <2> HIDE DEF A, B
  <2>2. ASSUME NEW s \in Seq(A) PROVE s \in Seq(B)
    BY <2>1
  <2>3. Seq(A) \subseteq Seq(B)
    BY <2>2
  <2>4. QED
    BY <2>3 DEF A, B
<1>3. Jobs(H) \subseteq Jobs(H \cup {x})
  BY DEF Jobs
<1>4. ledger \in [Sessions -> Seq(Rows(H \cup {x}))]
  BY <1>2 DEF TypedWith
<1>5. job \in [Requests -> Jobs(H \cup {x})]
  BY <1>3 DEF TypedWith
<1>6. QED
  BY <1>3, <1>4, <1>5 DEF TypedWith

\* The moves the auction asks its state machine for are in the table.
LEMMA MoveMade ==
    ASSUME NEW j, j.pc # "refused",
           NEW to,
           \/ j.fsm = "INIT" /\ to = "RFQ_BROADCAST"
           \/ j.fsm = "RFQ_BROADCAST" /\ to = "BID_COLLECTION"
           \/ j.fsm = "BID_COLLECTION" /\ to = "EVALUATION"
           \/ j.fsm = "EVALUATION" /\ to \in {"AWARDED", "TERMINATED"}
           \/ j.fsm = "SHORTLIST_BARTER" /\ to \in {"AWARDED", "TERMINATED"}
    PROVE  Moved(j, to) = [j EXCEPT !.fsm = to]
<1>1. to \in Transitions[j.fsm]
  BY DEF Transitions, AuctionStates
<1>2. QED
  BY <1>1 DEF Moved

\* A request that appends rows goes on after them, and holds them meanwhile.
LEMMA AppendingGoesOn ==
    ASSUME NEW H, NEW j \in Jobs(H), j.todo = <<>>, NEW rows \in Batches,
           NEW then \in Appended, NEW k, k = Appending(j, rows, then)
    PROVE  /\ k \in Jobs(H) /\ Phase(k) = then /\ k.todo = rows
           /\ k.todo = <<>> <=> k.pc \notin {"read", "insert"}
           /\ k.pc \in {"read", "insert"} => k.then \in Appended
           /\ k.pc \notin {"insert", "index"}
           /\ k.rfq = j.rfq /\ k.fsm = j.fsm /\ k.ranked = j.ranked /\ k.threads = j.threads
           /\ k.done = j.done /\ k.snap = j.snap /\ k.deal = j.deal
<1>1. j.pc # "refused"
  BY DEF Jobs, Pcs, Appended
<1>2. CASE rows = <<>>
  <2>1. Appending(j, rows, then) = [j EXCEPT !.pc = then]
    BY <1>1, <1>2 DEF Appending
  <2>2. then \in Pcs /\ then \notin {"read", "insert", "index"}
    BY DEF Pcs, Appended
  <2>3. QED
    BY <1>2, <2>1, <2>2 DEF Jobs, Phase
<1>3. CASE rows # <<>>
  <2>1. Appending(j, rows, then) = [j EXCEPT !.todo = rows, !.then = then, !.pc = "read"]
    BY <1>1, <1>3 DEF Appending
  <2>2. then \in Pcs /\ "read" \in Pcs
    BY DEF Pcs, Appended
  <2>3. k = [j EXCEPT !.todo = rows, !.then = then, !.pc = "read"]
    BY <2>1
  <2>4. k \in Jobs(H)
    BY <2>2, <2>3 DEF Jobs
  <2>5. /\ k.todo = rows /\ k.then = then /\ k.pc = "read"
        /\ k.rfq = j.rfq /\ k.fsm = j.fsm /\ k.ranked = j.ranked /\ k.threads = j.threads
        /\ k.done = j.done /\ k.snap = j.snap /\ k.deal = j.deal
    BY <2>3 DEF Jobs
  <2>6. QED
    BY <1>3, <2>4, <2>5 DEF Phase
<1>4. QED
  BY <1>2, <1>3

\* What a request must be like to go on with then, rows being written first.
Prepared(m, rows, then, old) ==
    LET lines == Lines(old) \cup Lines(rows)
    IN  /\ then = "collect" => m.fsm = "RFQ_BROADCAST"
        /\ then = "evaluate" => m.fsm = "BID_COLLECTION"
        /\ then \in {"collect", "evaluate", "barter"} => m.done = 0
        /\ Covered(Lines(rows))
        /\ then \in {"collect", "evaluate"} => m.deal = NoDeal
        /\ then = "evaluate" => \A k \in DOMAIN m.ranked :
              /\ <<"bid", m.ranked[k].supplier, m.ranked[k].price>> \in lines
              /\ m.ranked[k].price >= Bearable(m.ranked[k].supplier)
        /\ then = "barter" => \A k \in DOMAIN m.ranked :
              Fair(m.ranked[k].supplier, m.ranked[k].price, m.rfq.limit, lines)
        /\ then \in {"barter", "done"} /\ m.deal # NoDeal =>
              /\ Grounded(m.deal.supplier, m.deal.price, m.rfq.limit, lines)
              /\ IF rows = <<>> THEN Newest(m, old)
                 ELSE Len(rows) = 1 /\ Line(rows[1]) = <<"award", m.deal.supplier, m.deal.price>>

\* A request moved on to m writes rows, and will go on with them written.
LEMMA AppendingStep ==
    ASSUME IInv, NEW H, TypedWith(H), NEW r \in Requests, NEW m \in Jobs(H), m.todo = <<>>,
           NEW rows \in Batches, NEW then \in Appended,
           job' = [job EXCEPT ![r] = Appending(m, rows, then)],
           UNCHANGED <<ledger, memory, index, faults>>,
           m.done = job[r].done, m.threads = job[r].threads, m.snap = job[r].snap,
           Prepared(m, rows, then, ledger[SessionOf[r]])
    PROVE  IInv'
<1> DEFINE j == Appending(m, rows, then)
           old == ledger[SessionOf[r]]
           lines == Lines(old) \cup Lines(rows)
<1>1. /\ j \in Jobs(H) /\ Phase(j) = then /\ j.todo = rows
      /\ j.todo = <<>> <=> j.pc \notin {"read", "insert"}
      /\ j.pc \in {"read", "insert"} => j.then \in Appended
      /\ j.pc \notin {"insert", "index"}
      /\ j.rfq = m.rfq /\ j.fsm = m.fsm /\ j.ranked = m.ranked /\ j.threads = m.threads
      /\ j.done = m.done /\ j.snap = m.snap /\ j.deal = m.deal
  <2>1. j = Appending(m, rows, then)
    OBVIOUS
  <2> HIDE DEF j
  <2>2. QED
    BY <2>1, AppendingGoesOn
<1>2. Placed(job[r]) /\ Priced(job[r], old)
  BY DEF IInv
<1> HIDE DEF j
<1>3. Placed(j)
  <2>1. Expected(j)
    BY <1>1 DEF Expected, Appended, Prepared
  <2>2. j.done <= Len(j.threads) /\ Len(j.threads) <= Shortlisted /\ Sound(j.snap)
    BY <1>1, <1>2 DEF Placed
  <2>3. Phase(j) \in {"new", "collect", "evaluate", "barter", "lost"} => j.done = 0
    BY <1>1 DEF Appended, Prepared
  <2>4. QED
    BY <1>1, <2>1, <2>2, <2>3 DEF Placed
<1>4. Covered(lines)
  BY <1>2 DEF Priced, Covered, Prepared
<1>5. then \in {"barter", "done"} /\ j.deal # NoDeal => Newest(j, old)
  <2> SUFFICES ASSUME then \in {"barter", "done"}, j.deal # NoDeal PROVE Newest(j, old)
    OBVIOUS
  <2>1. CASE rows = <<>>
    <3>1. Newest(m, old)
      BY <1>1, <2>1 DEF Prepared
    <3>2. QED
      BY <1>1, <2>1, <3>1 DEF Newest
  <2>2. CASE rows # <<>>
    BY <1>1, <2>2 DEF Newest, Prepared
  <2>3. QED
    BY <2>1, <2>2
<1>6. Priced(j, old)
  <2>1. Phase(j) \notin {"record", "index", "new"}
    BY <1>1 DEF Appended
  <2>2. lines = Lines(old) \cup Lines(j.todo)
    BY <1>1
  <2>3. QED
    BY <1>1, <1>4, <1>5, <2>1, <2>2 DEF Priced, Prepared
<1>7. faults' \in 0..MaxFaults
  BY DEF TypedWith
<1>8. QED
  BY <1>1, <1>3, <1>6, <1>7, QuietStep DEF j

\* What a request holds between its steps.
LEMMA JobFacts ==
    ASSUME IInv, NEW H, TypedWith(H), NEW r \in Requests
    PROVE  /\ job[r] \in Jobs(H) /\ Placed(job[r]) /\ Priced(job[r], ledger[SessionOf[r]])
           /\ SessionOf[r] \in Sessions /\ ledger[SessionOf[r]] \in Seq(Rows(H))
           /\ job[r].pc \notin {"read", "insert"} => job[r].todo = <<>> /\ Phase(job[r]) = job[r].pc
<1>1. Placed(job[r]) /\ Priced(job[r], ledger[SessionOf[r]])
  BY DEF IInv
<1>2. SessionOf[r] \in Sessions
  BY SessionsAssumption
<1>3. job[r] \in Jobs(H) /\ ledger[SessionOf[r]] \in Seq(Rows(H))
  BY <1>2 DEF TypedWith
<1>4. job[r].pc \notin {"read", "insert"} => job[r].todo = <<>> /\ Phase(job[r]) = job[r].pc
  BY <1>1 DEF Placed, Phase
<1>5. QED
  BY <1>1, <1>2, <1>3, <1>4

LEMMA CreateKeeps ==
    ASSUME IInv, NEW r \in Requests, Create(r)
    PROVE  IInv'
<1>1. PICK H : TypedWith(H)
  BY DEF IInv, Typed
<1>2. PICK rfq \in Rfqs :
        Step(r, Appending(Moved([job[r] EXCEPT !.rfq = rfq], "RFQ_BROADCAST"),
                          <<Row(0, "rfq", "none", rfq.limit)>>, "collect"))
  BY DEF Create
<1> DEFINE m == [job[r] EXCEPT !.rfq = rfq, !.fsm = "RFQ_BROADCAST"]
           rows == <<Row(0, "rfq", "none", rfq.limit)>>
<1>3. /\ job[r] \in Jobs(H) /\ Placed(job[r]) /\ Priced(job[r], ledger[SessionOf[r]])
      /\ job[r].pc = "new" /\ job[r].todo = <<>> /\ Phase(job[r]) = "new"
  BY <1>1, JobFacts DEF Create, At
<1>4. rfq \in Clients
  BY RfqsAssumption DEF Clients
<1>5. job[r].fsm = "INIT" /\ job[r].done = 0 /\ job[r].deal = NoDeal
  BY <1>3 DEF Placed, Expected, Priced
<1>6. Moved([job[r] EXCEPT !.rfq = rfq], "RFQ_BROADCAST") = m
  <2> DEFINE k == [job[r] EXCEPT !.rfq = rfq]
  <2>1. k.pc # "refused" /\ k.fsm = "INIT"
    BY <1>3, <1>5 DEF Jobs
  <2>2. Moved(k, "RFQ_BROADCAST") = [k EXCEPT !.fsm = "RFQ_BROADCAST"]
    <3> HIDE DEF k
    <3>1. QED
      BY <2>1, MoveMade
  <2>3. QED
    BY <1>3, <2>2 DEF Jobs
<1>7. m \in Jobs(H) /\ m.todo = <<>> /\ m.done = 0 /\ m.deal = NoDeal /\ m.fsm = "RFQ_BROADCAST"
      /\ m.threads = job[r].threads /\ m.snap = job[r].snap
  BY <1>3, <1>4, <1>5 DEF Jobs, AuctionStates
<1>8. rows \in Batches
  <2>1. Row(0, "rfq", "none", rfq.limit) \in Rows({Genesis})
    BY <1>4 DEF Row, Rows, Clients
  <2>2. QED
    BY <2>1 DEF Batches
<1>9. Covered(Lines(rows))
  <2>1. Lines(rows) = {<<"rfq", "none", rfq.limit>>}
    BY DEF Lines, Line, Row
  <2>2. QED
    BY <2>1 DEF Covered
<1>10. job' = [job EXCEPT ![r] = Appending(m, rows, "collect")]
       /\ UNCHANGED <<ledger, memory, index, faults>>
  BY <1>2, <1>6 DEF Step, Create
<1>11. "collect" \in Appended
  BY DEF Appended
<1> HIDE DEF m, rows
<1>12. Prepared(m, rows, "collect", ledger[SessionOf[r]])
  BY <1>7, <1>9 DEF Prepared
<1>13. QED
  BY <1>1, <1>5, <1>7, <1>8, <1>10, <1>11, <1>12, AppendingStep

LEMMA ReadLastHashKeeps ==
    ASSUME IInv, NEW r \in Requests, ReadLastHash(r)
    PROVE  IInv'
<1> DEFINE old == ledger[SessionOf[r]]
           tip == Chain!Tip(SessionOf[r], old)
           j == [job[r] EXCEPT !.hash = tip, !.pc = "insert"]
<1>1. PICK G : TypedWith(G)
  BY DEF IInv, Typed
<1> DEFINE H == G \cup {tip}
<1>2. TypedWith(H)
  BY <1>1, Widened
<1> HIDE DEF H, tip
<1>3. job[r] \in Jobs(H) /\ Placed(job[r]) /\ Priced(job[r], old) /\ job[r].pc = "read"
  BY <1>2, JobFacts DEF ReadLastHash, At
<1>4. tip \in H
  BY DEF H
<1>5. /\ j \in Jobs(H) /\ j.pc = "insert" /\ j.hash = tip /\ Phase(j) = Phase(job[r])
      /\ j.todo = job[r].todo /\ j.then = job[r].then
      /\ j.rfq = job[r].rfq /\ j.fsm = job[r].fsm /\ j.ranked = job[r].ranked
      /\ j.threads = job[r].threads /\ j.done = job[r].done /\ j.snap = job[r].snap
      /\ j.deal = job[r].deal
  BY <1>3, <1>4 DEF Jobs, Pcs, Appended, Phase
<1>6. job' = [job EXCEPT ![r] = j] /\ UNCHANGED <<ledger, memory, index, faults>>
  BY DEF ReadLastHash, Step, tip
<1> HIDE DEF j
<1>7. Placed(j)
  BY <1>3, <1>5 DEF Placed, Expected
<1>8. Priced(j, old)
  BY <1>3, <1>5 DEF Priced, Newest
<1>9. faults' \in 0..MaxFaults
  BY <1>2, <1>6 DEF TypedWith
<1>10. QED
  BY <1>2, <1>5, <1>6, <1>7, <1>8, <1>9, QuietStep DEF tip

\* The row inserted was on its way already: what a session says is not changed.
LEMMA InsertKeeps ==
    ASSUME IInv, NEW r \in Requests, Insert(r)
    PROVE  IInv'
<1> DEFINE now == job[r]
           s == SessionOf[r]
           old == ledger[s]
           entry == [Head(now.todo) EXCEPT !.prev = now.hash]
           j == IF Len(now.todo) = 1 THEN [now EXCEPT !.todo = <<>>, !.pc = now.then]
                ELSE [now EXCEPT !.todo = Tail(now.todo), !.pc = "read"]
           lines == Lines(old) \cup Lines(now.todo)
<1>1. PICK H : TypedWith(H)
  BY DEF IInv, Typed
<1>2. now \in Jobs(H) /\ Placed(now) /\ Priced(now, old) /\ now.pc = "insert"
      /\ s \in Sessions /\ old \in Seq(Rows(H))
  BY <1>1, JobFacts DEF Insert, At
<1>3. job' = [job EXCEPT ![r] = j] /\ ledger' = [ledger EXCEPT ![s] = Append(old, entry)]
      /\ UNCHANGED <<memory, index, faults>>
  BY DEF Insert, Step
<1>4. now.todo \in Batches /\ now.todo # <<>> /\ now.then \in Appended /\ now.hash \in H
  BY <1>2 DEF Placed, Jobs
<1>5. /\ Len(now.todo) \in Nat \ {0} /\ Head(now.todo) \in Rows({Genesis})
      /\ Head(now.todo) = now.todo[1] /\ Tail(now.todo) \in Batches
      /\ Len(now.todo) = 1 => Tail(now.todo) = <<>>
      /\ Len(now.todo) # 1 => Tail(now.todo) # <<>>
  <2> DEFINE R == Rows({Genesis})
  <2>1. now.todo \in Seq(R)
    BY <1>4 DEF Batches
  <2> HIDE DEF R
  <2>2. Len(now.todo) \in Nat \ {0} /\ Head(now.todo) \in R /\ Head(now.todo) = now.todo[1]
        /\ Tail(now.todo) \in Seq(R) /\ Len(Tail(now.todo)) = Len(now.todo) - 1
    BY <1>4, <2>1
  <2>3. Tail(now.todo) = <<>> <=> Len(Tail(now.todo)) = 0
    <3>1. \A t \in Seq(R) : t = <<>> <=> Len(t) = 0
      OBVIOUS
    <3>2. QED
      BY <2>2, <3>1
  <2>4. QED
    BY <2>2, <2>3 DEF R, Batches
<1>6. entry \in Rows(H) /\ Line(entry) = Line(Head(now.todo))
  BY <1>4, <1>5 DEF Rows, Line
<1>7. /\ j \in Jobs(H) /\ Phase(j) = now.then /\ Phase(now) = now.then
      /\ j.pc \in Appended \/ (j.pc = "read" /\ j.then = now.then)
      /\ j.todo = Tail(now.todo) /\ (j.todo = <<>> <=> j.pc # "read") /\ j.pc # "insert"
      /\ j.rfq = now.rfq /\ j.fsm = now.fsm /\ j.ranked = now.ranked /\ j.threads = now.threads
      /\ j.done = now.done /\ j.snap = now.snap /\ j.deal = now.deal
  <2>1. Phase(now) = now.then
    BY <1>2 DEF Phase
  <2>2. now.then \notin {"read", "insert"} /\ now.then \in Pcs /\ "read" \in Pcs
    BY <1>4 DEF Appended, Pcs
  <2>3. CASE Len(now.todo) = 1
    <3>1. j = [now EXCEPT !.todo = <<>>, !.pc = now.then]
      BY <2>3
    <3>2. <<>> \in Batches /\ <<>> = Tail(now.todo)
      BY <1>5, <2>3
    <3> HIDE DEF j
    <3>3. j \in Jobs(H) /\ j.pc = now.then /\ j.todo = <<>>
          /\ j.rfq = now.rfq /\ j.fsm = now.fsm /\ j.ranked = now.ranked /\ j.threads = now.threads
          /\ j.done = now.done /\ j.snap = now.snap /\ j.deal = now.deal
      BY <1>2, <2>2, <3>1, <3>2 DEF Jobs
    <3>4. QED
      BY <1>4, <2>1, <2>2, <3>2, <3>3 DEF Phase
  <2>4. CASE Len(now.todo) # 1
    <3>1. j = [now EXCEPT !.todo = Tail(now.todo), !.pc = "read"]
      BY <2>4
    <3> HIDE DEF j
    <3>2. j \in Jobs(H) /\ j.pc = "read" /\ j.then = now.then /\ j.todo = Tail(now.todo)
          /\ j.rfq = now.rfq /\ j.fsm = now.fsm /\ j.ranked = now.ranked /\ j.threads = now.threads
          /\ j.done = now.done /\ j.snap = now.snap /\ j.deal = now.deal
      BY <1>2, <1>5, <2>2, <3>1 DEF Jobs
    <3>3. QED
      BY <1>4, <1>5, <2>1, <2>2, <2>4, <3>2 DEF Phase
  <2>5. QED
    BY <2>3, <2>4
<1> DEFINE new == Append(old, entry)
<1>8. Lines(new) \cup Lines(j.todo) = lines
  <2>1. Lines(new) = Lines(old) \cup {Line(Head(now.todo))}
    <3> HIDE DEF entry
    <3>1. QED
      BY <1>2, <1>6, LinesAppend
  <2>2. Lines(now.todo) = {Line(Head(now.todo))} \cup Lines(Tail(now.todo))
    BY <1>4, LinesTail DEF Batches
  <2> HIDE DEF j, new, entry
  <2>3. QED
    BY <1>7, <2>1, <2>2
<1>9. new \in Seq(Rows(H)) /\ new # <<>> /\ new[Len(new)] = entry
  <2> DEFINE R == Rows(H)
  <2>1. old \in Seq(R) /\ entry \in R
    BY <1>2, <1>6
  <2> HIDE DEF R, entry
  <2>2. new \in Seq(R) /\ Len(new) = Len(old) + 1 /\ new[Len(old) + 1] = entry
    BY <2>1
  <2>3. new # <<>>
    BY <2>1, <2>2
  <2>4. QED
    BY <2>2, <2>3 DEF R
<1> HIDE DEF j, new, entry
<1>10. Placed(j)
  <2>1. j.pc \notin {"read", "insert"} \/ j.pc = "read"
    BY <1>7
  <2>2. j.pc \in {"read", "insert"} => j.then \in Appended
    BY <1>4, <1>7 DEF Appended
  <2>3. Expected(j) /\ j.pc # "index"
    BY <1>2, <1>7 DEF Placed, Expected, Appended
  <2>4. QED
    BY <1>2, <1>7, <2>1, <2>2, <2>3 DEF Placed
<1>11. Newest(now, old) => Newest(j, new)
  <2> SUFFICES ASSUME Newest(now, old) PROVE Newest(j, new)
    OBVIOUS
  <2>1. Len(now.todo) = 1 /\ Line(now.todo[1]) = <<"award", now.deal.supplier, now.deal.price>>
    BY <1>4 DEF Newest
  <2>2. j.todo = <<>> /\ Line(entry) = <<"award", j.deal.supplier, j.deal.price>>
    BY <1>5, <1>6, <1>7, <2>1
  <2>3. QED
    BY <1>9, <2>2 DEF Newest
<1>12. Priced(j, new)
  BY <1>2, <1>7, <1>8, <1>11 DEF Priced
<1>13. \A q \in Requests \ {r} : SessionOf[q] # s /\ SessionOf[q] \in Sessions
  BY SessionsAssumption DEF IsInjective
<1>14. TypedWith(H)'
  BY <1>1, <1>3, <1>7, <1>9 DEF TypedWith, new
<1>15. ASSUME NEW q \in Requests
       PROVE  Placed(job'[q]) /\ Priced(job'[q], ledger'[SessionOf[q]]) /\ Linked(q)'
  <2>1. CASE q = r
    <3>1. job'[q] = j /\ ledger'[SessionOf[q]] = new
      BY <1>1, <1>2, <1>3, <2>1 DEF TypedWith, new
    <3>2. QED
      BY <1>7, <1>10, <1>12, <3>1 DEF Linked, At
  <2>2. CASE q # r
    <3>1. job'[q] = job[q] /\ ledger'[SessionOf[q]] = ledger[SessionOf[q]]
      BY <1>1, <1>3, <1>13, <2>2 DEF TypedWith
    <3>2. Placed(job[q]) /\ Priced(job[q], ledger[SessionOf[q]]) /\ Linked(q)
      BY DEF IInv
    <3>3. QED
      BY <3>1, <3>2 DEF Linked, At
  <2>3. QED
    BY <2>1, <2>2
<1>16. MemoryFolds' /\ \A p \in Suppliers : IsFiniteSet(Counted(p)')
  BY <1>1, <1>3, <1>7, SameCount DEF IInv
<1>17. \A p \in Suppliers : Sound(memory'[p]) /\ Sound(index'[p])
  BY <1>3 DEF IInv
<1>18. QED
  BY <1>14, <1>15, <1>16, <1>17 DEF IInv, Typed

LEMMA PoolIsFinite ==
    DOMAIN Pool \in SUBSET Nat /\ IsFiniteSet(DOMAIN Pool) /\ \A i \in DOMAIN Pool : Pool[i] \in Suppliers
<1>1. DOMAIN Pool = 1..Len(Pool) /\ Len(Pool) \in Nat
  BY PoolAssumption
<1>2. QED
  BY <1>1, PoolAssumption, FS_Interval

LEMMA RowIs ==
    ASSUME NEW turn \in Nat, NEW kind \in {"rfq", "bid", "award"},
           NEW supplier \in Suppliers \cup {"none"}, NEW price \in Nat
    PROVE  /\ Row(turn, kind, supplier, price) \in Rows({Genesis})
           /\ Line(Row(turn, kind, supplier, price)) = <<kind, supplier, price>>
  BY DEF Row, Rows, Line

\* The rows of a phase, bid for bid.
LEMMA BidsWritten ==
    ASSUME NEW rfq \in Clients,
           NEW answer, \A i \in DOMAIN Pool : answer[i] \in Answers(Pool[i], rfq, Luck),
           NEW bidders,
           bidders = Sorted({i \in DOMAIN Pool : answer[i].kind = "bid"}, [i \in DOMAIN Pool |-> 0]),
           NEW rows, rows = [k \in DOMAIN bidders |->
                               Row(bidders[k], "bid", Pool[bidders[k]], answer[bidders[k]].price)],
           NEW ranked, ranked = [k \in DOMAIN bidders |-> answer[bidders[k]]]
    PROVE  /\ rows \in Batches /\ ranked \in Seq(Bids) /\ Covered(Lines(rows))
           /\ \A k \in DOMAIN ranked :
                 /\ <<"bid", ranked[k].supplier, ranked[k].price>> \in Lines(rows)
                 /\ ranked[k].price >= Bearable(ranked[k].supplier)
<1> DEFINE S == {i \in DOMAIN Pool : answer[i].kind = "bid"}
           card == Cardinality(S)
<1>1. S \in SUBSET Nat /\ IsFiniteSet(S)
  <2>1. S \in SUBSET (DOMAIN Pool)
    OBVIOUS
  <2> HIDE DEF S
  <2>2. QED
    BY <2>1, PoolIsFinite, FS_Subset
<1>2. card \in Nat
  BY <1>1, FS_CardinalityType
<1>3. bidders \in [1..card -> S]
  <2> DEFINE mark == [i \in DOMAIN Pool |-> 0]
  <2>1. \A i \in S : mark[i] \in Int
    OBVIOUS
  <2>2. bidders = Sorted(S, mark)
    OBVIOUS
  <2> HIDE DEF S, mark
  <2>3. QED
    BY <1>1, <2>1, <2>2, SortedPicks
<1>4. ASSUME NEW k \in 1..card
      PROVE  /\ bidders[k] \in Nat /\ ranked[k] = answer[bidders[k]] /\ ranked[k] \in Bids
             /\ ranked[k].supplier = Pool[bidders[k]]
             /\ ranked[k].price >= Bearable(ranked[k].supplier)
             /\ rows[k] = Row(bidders[k], "bid", ranked[k].supplier, ranked[k].price)
  <2>1. bidders[k] \in DOMAIN Pool /\ answer[bidders[k]].kind = "bid"
    BY <1>3
  <2>2. DOMAIN bidders = 1..card
    BY <1>3
  <2>3. ranked[k] = answer[bidders[k]]
    BY <2>2
  <2>4. Pool[bidders[k]] \in Suppliers /\ bidders[k] \in Nat
    BY <2>1, PoolIsFinite
  <2>5. ranked[k] \in Bids /\ ranked[k].supplier = Pool[bidders[k]]
        /\ ranked[k].price >= Bearable(ranked[k].supplier)
    BY <2>1, <2>3, <2>4, AnswerIsBid
  <2>6. rows[k] = Row(bidders[k], "bid", Pool[bidders[k]], answer[bidders[k]].price)
    BY <2>2
  <2>7. QED
    BY <2>3, <2>4, <2>5, <2>6
<1> HIDE DEF card
<1>5. DOMAIN rows = 1..card /\ DOMAIN ranked = 1..card /\ rows = [k \in 1..card |-> rows[k]]
      /\ ranked = [k \in 1..card |-> ranked[k]]
  BY <1>3
<1>6. ASSUME NEW k \in 1..card
      PROVE  /\ rows[k] \in Rows({Genesis})
             /\ Line(rows[k]) = <<"bid", ranked[k].supplier, ranked[k].price>>
  <2>1. /\ bidders[k] \in Nat /\ ranked[k] \in Bids
        /\ rows[k] = Row(bidders[k], "bid", ranked[k].supplier, ranked[k].price)
    BY <1>4
  <2>2. ranked[k].supplier \in Suppliers /\ ranked[k].price \in Nat
    BY <2>1 DEF Bids, Cents
  <2> DEFINE turn == bidders[k]
             supplier == ranked[k].supplier
             price == ranked[k].price
             row == rows[k]
  <2>3. turn \in Nat /\ supplier \in Suppliers /\ price \in Nat /\ row = Row(turn, "bid", supplier, price)
    BY <2>1, <2>2
  <2>4. row \in Rows({Genesis}) /\ Line(row) = <<"bid", supplier, price>>
    <3> HIDE DEF turn, supplier, price, row
    <3>1. QED
      BY ONLY <2>3, RowIs
  <2>5. QED
    BY <2>4
<1>7. rows \in Batches
  <2>1. ASSUME NEW k \in 1..card PROVE rows[k] \in Rows({Genesis})
    BY <1>6
  <2> DEFINE R == Rows({Genesis})
  <2>2. \A k \in 1..card : rows[k] \in R
    BY <2>1
  <2> HIDE DEF R
  <2>3. rows \in Seq(R)
    BY ONLY <1>2, <1>5, <2>2
  <2>4. rows \in Seq(Rows({Genesis}))
    BY <2>3 DEF R
  <2>5. QED
    BY <2>4 DEF Batches
<1>8. ranked \in Seq(Bids)
  BY ONLY <1>2, <1>4, <1>5
<1>9. Covered(Lines(rows))
  <2>1. \A line \in Lines(rows) : line[1] = "bid"
    BY ONLY <1>5, <1>6 DEF Lines
  <2>2. QED
    BY <2>1 DEF Covered
<1>10. QED
  BY <1>4, <1>5, <1>7, <1>8, <1>6, <1>9 DEF Lines

LEMMA CollectKeeps ==
    ASSUME IInv, NEW r \in Requests, Collect(r)
    PROVE  IInv'
<1> DEFINE now == job[r]
<1>1. PICK H : TypedWith(H)
  BY DEF IInv, Typed
<1>2. /\ now \in Jobs(H) /\ Placed(now) /\ Priced(now, ledger[SessionOf[r]])
      /\ now.pc = "collect" /\ now.todo = <<>> /\ Phase(now) = "collect"
  BY <1>1, JobFacts DEF Collect, At
<1>3. now.fsm = "RFQ_BROADCAST" /\ now.done = 0 /\ now.deal = NoDeal /\ now.rfq \in Clients
  BY <1>2 DEF Placed, Expected, Priced, Jobs
<1>4. Moved(now, "BID_COLLECTION") = [now EXCEPT !.fsm = "BID_COLLECTION"]
  BY <1>2, <1>3, MoveMade
<1>5. PICK answer :
        /\ \A i \in DOMAIN Pool : answer[i] \in Answers(Pool[i], job[r].rfq, Luck)
        /\ LET bidders == Sorted({i \in DOMAIN Pool : answer[i].kind = "bid"}, [i \in DOMAIN Pool |-> 0])
               rows == [k \in DOMAIN bidders |->
                          Row(bidders[k], "bid", Pool[bidders[k]], answer[bidders[k]].price)]
               j == Moved(job[r], "BID_COLLECTION")
           IN  Step(r, Appending([j EXCEPT !.ranked = [k \in DOMAIN bidders |-> answer[bidders[k]]]],
                                 rows, "evaluate"))
  BY DEF Collect
<1> DEFINE bidders == Sorted({i \in DOMAIN Pool : answer[i].kind = "bid"}, [i \in DOMAIN Pool |-> 0])
           rows == [k \in DOMAIN bidders |->
                      Row(bidders[k], "bid", Pool[bidders[k]], answer[bidders[k]].price)]
           ranked == [k \in DOMAIN bidders |-> answer[bidders[k]]]
           m == [now EXCEPT !.fsm = "BID_COLLECTION", !.ranked = ranked]
<1>6. /\ rows \in Batches /\ ranked \in Seq(Bids) /\ Covered(Lines(rows))
      /\ \A k \in DOMAIN ranked :
            /\ <<"bid", ranked[k].supplier, ranked[k].price>> \in Lines(rows)
            /\ ranked[k].price >= Bearable(ranked[k].supplier)
  BY <1>3, <1>5, BidsWritten
<1>7. Step(r, Appending([Moved(now, "BID_COLLECTION") EXCEPT !.ranked = ranked], rows, "evaluate"))
  BY <1>5
<1> HIDE DEF ranked, rows
<1>8. job' = [job EXCEPT ![r] = Appending(m, rows, "evaluate")]
      /\ UNCHANGED <<ledger, memory, index, faults>>
  <2>1. [[now EXCEPT !.fsm = "BID_COLLECTION"] EXCEPT !.ranked = ranked] = m
    BY <1>2 DEF Jobs
  <2>2. QED
    BY <1>4, <1>7, <2>1 DEF Step, Collect
<1>9. /\ m \in Jobs(H) /\ m.todo = <<>> /\ m.done = 0 /\ now.done = 0 /\ m.deal = NoDeal
      /\ m.fsm = "BID_COLLECTION" /\ m.ranked = ranked
      /\ m.threads = now.threads /\ m.snap = now.snap
  BY <1>2, <1>3, <1>6 DEF Jobs, AuctionStates
<1> HIDE DEF m
<1>10. "evaluate" \in Appended
  BY DEF Appended
<1>11. Prepared(m, rows, "evaluate", ledger[SessionOf[r]])
  BY <1>6, <1>9 DEF Prepared
<1>12. QED
  BY <1>1, <1>6, <1>8, <1>9, <1>10, <1>11, AppendingStep

LEMMA RankPicks ==
    ASSUME NEW bids \in Seq(Bids), NEW S \in SUBSET (DOMAIN bids), NEW quantity \in Nat
    PROVE  /\ Rank(bids, S, quantity) \in Seq(Bids)
           /\ \A k \in DOMAIN Rank(bids, S, quantity) : \E i \in S : Rank(bids, S, quantity)[k] = bids[i]
<1> DEFINE mark == [i \in S |-> Score(bids[i], quantity)]
           order == Sorted(S, mark)
           card == Cardinality(S)
<1>1. S \in SUBSET Nat /\ IsFiniteSet(S)
  <2>1. S \in SUBSET (1..Len(bids)) /\ Len(bids) \in Nat
    OBVIOUS
  <2>2. IsFiniteSet(1..Len(bids))
    BY <2>1, FS_Interval
  <2>3. QED
    BY <2>1, <2>2, FS_Subset
<1>2. card \in Nat
  BY <1>1, FS_CardinalityType
<1>3. \A i \in S : bids[i] \in Bids
  OBVIOUS
<1>4. \A i \in S : mark[i] \in Int
  BY <1>3, ScoreIsInt
<1>5. order \in [1..card -> S]
  <2> HIDE DEF mark
  <2>1. QED
    BY <1>1, <1>4, SortedPicks
<1>6. Rank(bids, S, quantity) = [k \in 1..card |-> bids[order[k]]]
  BY DEF Rank
<1> HIDE DEF order, card
<1>7. \A k \in 1..card : order[k] \in S /\ bids[order[k]] \in Bids
  BY <1>3, <1>5
<1>8. [k \in 1..card |-> bids[order[k]]] \in Seq(Bids)
  BY ONLY <1>2, <1>7
<1>9. QED
  BY <1>6, <1>7, <1>8

\* A row that awards a fair price.
LEMMA AwardWritten ==
    ASSUME NEW turn \in Nat, NEW supplier, NEW price \in Nat, NEW limit, NEW lines,
           Fair(supplier, price, limit, lines),
           NEW rows, rows = <<Row(turn, "award", supplier, price)>>
    PROVE  /\ rows \in Batches /\ rows # <<>> /\ Len(rows) = 1
           /\ Line(rows[1]) = <<"award", supplier, price>>
           /\ Lines(rows) = {<<"award", supplier, price>>} /\ Covered(Lines(rows))
<1>1. supplier \in Suppliers /\ price >= Bearable(supplier)
  BY DEF Fair
<1>2. Row(turn, "award", supplier, price) \in Rows({Genesis})
      /\ Line(Row(turn, "award", supplier, price)) = <<"award", supplier, price>>
  BY <1>1, RowIs
<1> DEFINE row == Row(turn, "award", supplier, price)
<1> HIDE DEF row
<1>3. rows = <<row>> /\ row \in Rows({Genesis}) /\ Line(row) = <<"award", supplier, price>>
  BY <1>2 DEF row
<1>4. rows \in Seq(Rows({Genesis})) /\ Len(rows) = 1 /\ rows[1] = row /\ DOMAIN rows = {1}
  BY <1>3
<1>5. rows # <<>>
  BY <1>4
<1>6. Lines(rows) = {<<"award", supplier, price>>}
  BY <1>3, <1>4 DEF Lines
<1>7. Covered(Lines(rows))
  BY <1>1, <1>6 DEF Covered
<1>8. QED
  BY <1>3, <1>4, <1>5, <1>6, <1>7 DEF Batches

\* More written does not make a price less fair.
LEMMA FairStays ==
    ASSUME NEW supplier, NEW price, NEW limit, NEW lines, NEW more,
           Fair(supplier, price, limit, lines), lines \subseteq more
    PROVE  Fair(supplier, price, limit, more)
  BY DEF Fair, Grounded

LEMMA EvaluateKeeps ==
    ASSUME IInv, NEW r \in Requests, Evaluate(r)
    PROVE  IInv'
<1> DEFINE now == job[r]
           old == ledger[SessionOf[r]]
           S == {i \in DOMAIN now.ranked : Passes(now.ranked[i], now.rfq, {})}
           ranked == Rank(now.ranked, S, now.rfq.quantity)
           limit == now.rfq.limit
<1>1. PICK H : TypedWith(H)
  BY DEF IInv, Typed
<1>2. /\ now \in Jobs(H) /\ Placed(now) /\ Priced(now, old)
      /\ now.pc = "evaluate" /\ now.todo = <<>> /\ Phase(now) = "evaluate"
  <2>1. At(r, "evaluate")
    BY DEF Evaluate
  <2>2. QED
    BY <1>1, <2>1, JobFacts DEF At
<1>3. /\ now.fsm = "BID_COLLECTION" /\ now.done = 0 /\ now.deal = NoDeal /\ now.rfq \in Clients
      /\ now.ranked \in Seq(Bids) /\ limit \in Nat /\ now.rfq.quantity \in Nat
  BY <1>2 DEF Placed, Expected, Priced, Jobs, Clients
<1>4. ranked \in Seq(Bids) /\ \A k \in DOMAIN ranked : \E i \in S : ranked[k] = now.ranked[i]
  <2>1. S \in SUBSET (DOMAIN now.ranked)
    OBVIOUS
  <2> HIDE DEF S
  <2>2. QED
    BY <1>3, <2>1, RankPicks
<1>5. ASSUME NEW k \in DOMAIN ranked
      PROVE  Fair(ranked[k].supplier, ranked[k].price, limit, Lines(old))
  <2>1. PICK i \in S : ranked[k] = now.ranked[i]
    BY <1>4
  <2> DEFINE bid == now.ranked[i]
  <2>2. bid \in Bids /\ i \in DOMAIN now.ranked /\ Passes(bid, now.rfq, {})
    BY <1>3
  <2>3. Lines(now.todo) = {}
    BY <1>2, LinesOfNone
  <2>4. <<"bid", bid.supplier, bid.price>> \in Lines(old) /\ bid.price >= Bearable(bid.supplier)
    BY <1>2, <2>2, <2>3 DEF Priced
  <2>5. bid.supplier \in Suppliers /\ bid.price \in Nat /\ bid.price <= limit
    BY <2>2 DEF Bids, Cents, Passes
  <2> HIDE DEF bid
  <2>6. Grounded(bid.supplier, bid.price, limit, Lines(old))
    <3> DEFINE line == <<"bid", bid.supplier, bid.price>>
    <3>1. line[1] = "bid" /\ line[2] = bid.supplier /\ line[3] = bid.price
      OBVIOUS
    <3>2. line[3] \in Nat /\ bid.price <= line[3] /\ line[3] <= limit /\ line \in Lines(old)
      BY <2>4, <2>5
    <3> HIDE DEF line
    <3>3. QED
      BY <3>1, <3>2 DEF Grounded
  <2>7. QED
    BY <2>1, <2>4, <2>5, <2>6 DEF Fair, bid
<1> DEFINE m1 == [now EXCEPT !.ranked = ranked]
           won == [supplier |-> ranked[1].supplier, price |-> ranked[1].price]
           then == IF now.rfq.barter /\ Least(Shortlisted, Len(ranked)) > 1 THEN "barter" ELSE "done"
           rows == <<Row(999, "award", won.supplier, won.price)>>
<1>6. Step(r, IF ranked = <<>>
              THEN Appending(Moved(Moved(m1, "EVALUATION"), "TERMINATED"), <<>>, "done")
              ELSE Appending([Moved(Moved(m1, "EVALUATION"), "AWARDED") EXCEPT !.deal = won], rows, then))
      /\ UNCHANGED <<ledger, memory, index, faults>>
  BY DEF Evaluate
<1> HIDE DEF ranked
<1>7. ASSUME NEW to \in {"AWARDED", "TERMINATED"}
      PROVE  Moved(Moved(m1, "EVALUATION"), to) = [now EXCEPT !.ranked = ranked, !.fsm = to]
  <2> DEFINE m2 == [now EXCEPT !.ranked = ranked, !.fsm = "EVALUATION"]
  <2>1. m1.pc # "refused" /\ m1.fsm = "BID_COLLECTION"
    BY <1>2, <1>3 DEF Jobs
  <2>2. Moved(m1, "EVALUATION") = [m1 EXCEPT !.fsm = "EVALUATION"]
    <3> HIDE DEF m1
    <3>1. QED
      BY <2>1, MoveMade
  <2>3. Moved(m1, "EVALUATION") = m2
    BY <1>2, <2>2 DEF Jobs
  <2>4. m2.pc # "refused" /\ m2.fsm = "EVALUATION"
    BY <1>2, <1>3 DEF Jobs
  <2>5. Moved(m2, to) = [m2 EXCEPT !.fsm = to]
    <3> HIDE DEF m2
    <3>1. QED
      BY <2>4, MoveMade
  <2>6. [m2 EXCEPT !.fsm = to] = [now EXCEPT !.ranked = ranked, !.fsm = to]
    BY <1>2 DEF Jobs
  <2>7. QED
    BY <2>3, <2>5, <2>6
<1> HIDE DEF m1
<1>8. CASE ranked = <<>>
  <2> DEFINE m == [now EXCEPT !.ranked = ranked, !.fsm = "TERMINATED"]
  <2>1. job' = [job EXCEPT ![r] = Appending(m, <<>>, "done")]
    BY <1>6, <1>7, <1>8 DEF Step
  <2>2. /\ m \in Jobs(H) /\ m.todo = <<>> /\ m.deal = NoDeal
        /\ m.done = now.done /\ m.threads = now.threads /\ m.snap = now.snap
    BY <1>2, <1>3, <1>4 DEF Jobs, AuctionStates
  <2>3. <<>> \in Batches /\ "done" \in Appended
    BY DEF Batches, Appended
  <2>4. Prepared(m, <<>>, "done", old)
    <3> HIDE DEF m
    <3>1. QED
      BY <2>2, LinesOfNone DEF Prepared, Covered
  <2> HIDE DEF m
  <2>5. QED
    BY <1>1, <1>6, <2>1, <2>2, <2>3, <2>4, AppendingStep
<1>9. CASE ranked # <<>>
  <2>1. 1 \in DOMAIN ranked /\ ranked[1] \in Bids
    BY <1>4, <1>9
  <2>2. /\ Fair(won.supplier, won.price, limit, Lines(old)) /\ won.price \in Nat
        /\ won.supplier \in Suppliers /\ won.price >= Bearable(won.supplier)
    BY <1>5, <2>1 DEF Bids, Cents, Fair
  <2> DEFINE m == [now EXCEPT !.ranked = ranked, !.fsm = "AWARDED", !.deal = won]
  <2>3. job' = [job EXCEPT ![r] = Appending(m, rows, then)]
    <3>1. [[now EXCEPT !.ranked = ranked, !.fsm = "AWARDED"] EXCEPT !.deal = won] = m
      OBVIOUS
    <3>2. Moved(Moved(m1, "EVALUATION"), "AWARDED") = [now EXCEPT !.ranked = ranked, !.fsm = "AWARDED"]
      BY <1>7
    <3> HIDE DEF m, won, rows, then
    <3>3. QED
      BY <1>6, <1>9, <3>1, <3>2 DEF Step
  <2>4. /\ m \in Jobs(H) /\ m.todo = <<>> /\ m.deal = won /\ m.rfq = now.rfq /\ m.ranked = ranked
        /\ m.done = now.done /\ m.threads = now.threads /\ m.snap = now.snap
    BY <1>2, <1>4, <2>2 DEF Jobs, AuctionStates
  <2> HIDE DEF won
  <2>5. /\ rows \in Batches /\ rows # <<>> /\ Len(rows) = 1
        /\ Line(rows[1]) = <<"award", won.supplier, won.price>> /\ Covered(Lines(rows))
    BY <2>2, AwardWritten
  <2> HIDE DEF m, rows
  <2>6. then \in {"barter", "done"}
    OBVIOUS
  <2> HIDE DEF then
  <2>7. Prepared(m, rows, then, old)
    <3> DEFINE lines == Lines(old) \cup Lines(rows)
    <3>1. \A k \in DOMAIN m.ranked : Fair(m.ranked[k].supplier, m.ranked[k].price, m.rfq.limit, lines)
      BY <1>5, <2>4, FairStays
    <3>2. Grounded(m.deal.supplier, m.deal.price, m.rfq.limit, lines)
      BY <2>2, <2>4, FairStays DEF Fair
    <3>3. m.done = 0
      BY <1>3, <2>4
    <3>4. QED
      BY <2>4, <2>5, <2>6, <3>1, <3>2, <3>3 DEF Prepared
  <2>8. then \in Appended
    BY <2>6 DEF Appended
  <2>9. QED
    BY <1>1, <1>6, <2>3, <2>4, <2>5, <2>7, <2>8, AppendingStep
<1>10. QED
  BY <1>8, <1>9

\* Whatever comes of a thread, a deal is fair if the bid was.
LEMMA ThreadIsFair ==
    ASSUME NEW bid \in Bids, NEW p \in Profiles, NEW limit, NEW lines,
           Fair(bid.supplier, bid.price, limit, lines),
           NEW end, end = Barter(Floor[bid.supplier], Opening(bid.price, p))
    PROVE  /\ end \in Ends
           /\ end.result = "accept" => Fair(bid.supplier, end.price, limit, lines)
<1>1. /\ bid.supplier \in Suppliers /\ bid.price \in Cents /\ bid.price \in Nat
      /\ Floor[bid.supplier] \in Nat /\ Bearable(bid.supplier) = Rounded(Floor[bid.supplier])
  BY BearableIs DEF Bids, Cents
<1>2. Opening(bid.price, p) \in Int /\ Opening(bid.price, p) <= bid.price
  BY <1>1, OpeningBound
<1>3. Rounded(Floor[bid.supplier]) <= bid.price
  <2>1. Rounded(Floor[bid.supplier]) \in Int
    BY <1>1, RoundedOnce
  <2>2. QED
    BY <1>1, <2>1 DEF Fair
<1>4. end \in Outcomes(Floor[bid.supplier], bid.price)
  <2> DEFINE floor == Floor[bid.supplier]
             opening == Opening(bid.price, p)
             top == bid.price
  <2>1. floor \in Nat /\ opening \in Int /\ top \in Cents /\ Rounded(floor) <= top /\ opening <= top
        /\ end = Barter(floor, opening)
    BY <1>1, <1>2, <1>3
  <2> HIDE DEF floor, opening, top
  <2>2. end \in Outcomes(floor, top)
    BY <2>1, BarterTerms
  <2>3. QED
    BY <2>2 DEF floor, top
<1>5. end \in Ends /\ end.price \in Int /\ end.price <= bid.price
      /\ (end.result = "accept" => end.price >= Bearable(bid.supplier))
  BY <1>1, <1>4 DEF Outcomes, Ends
<1>6. PICK line \in lines : /\ line[1] = "bid" /\ line[2] = bid.supplier
                            /\ line[3] \in Nat /\ bid.price <= line[3] /\ line[3] <= limit
  BY DEF Fair, Grounded
<1>7. end.price <= line[3]
  BY <1>1, <1>5, <1>6
<1>8. Grounded(bid.supplier, end.price, limit, lines)
  BY <1>6, <1>7 DEF Grounded
<1>9. QED
  BY <1>1, <1>5, <1>8 DEF Fair

LEMMA StartBarteringKeeps ==
    ASSUME IInv, NEW r \in Requests, StartBartering(r)
    PROVE  IInv'
<1> DEFINE now == job[r]
           old == ledger[SessionOf[r]]
           limit == now.rfq.limit
           n == Least(Shortlisted, Len(now.ranked))
           end(i) == Barter(Floor[now.ranked[i].supplier],
                            Opening(now.ranked[i].price, memory[now.ranked[i].supplier]))
           threads == [i \in 1..n |-> [bid |-> now.ranked[i].price, supplier |-> now.ranked[i].supplier,
                                       end |-> end(i)]]
           j == [now EXCEPT !.fsm = "SHORTLIST_BARTER", !.done = 0, !.pc = "record", !.threads = threads]
<1>1. PICK H : TypedWith(H)
  BY DEF IInv, Typed
<1>2. /\ now \in Jobs(H) /\ Placed(now) /\ Priced(now, old)
      /\ now.pc = "barter" /\ now.todo = <<>> /\ Phase(now) = "barter"
  <2>1. At(r, "barter")
    BY DEF StartBartering
  <2>2. QED
    BY <1>1, <2>1, JobFacts DEF At
<1>3. job' = [job EXCEPT ![r] = j] /\ UNCHANGED <<ledger, memory, index, faults>>
  BY DEF StartBartering, Step
<1>4. now.done = 0 /\ now.ranked \in Seq(Bids) /\ Sound(now.snap)
  BY <1>2 DEF Placed, Jobs
<1>5. n \in Nat /\ n <= Shortlisted /\ n <= Len(now.ranked)
  BY <1>4, RfqsAssumption DEF Least
<1> DEFINE lines == Lines(old) \cup Lines(now.todo)
<1>6. ASSUME NEW i \in 1..n
      PROVE  /\ threads[i] \in Threads
             /\ threads[i].end.result = "accept" =>
                    Fair(threads[i].supplier, threads[i].end.price, limit, lines)
  <2> DEFINE bid == now.ranked[i]
             e == end(i)
  <2>1. i \in DOMAIN now.ranked /\ bid \in Bids
    BY <1>4, <1>5
  <2>2. Fair(bid.supplier, bid.price, limit, lines)
    BY <1>2, <2>1 DEF Priced
  <2>3. memory[bid.supplier] \in Profiles
    BY <1>1, <2>1 DEF TypedWith, Bids, Cents
  <2>4. threads[i] = [bid |-> bid.price, supplier |-> bid.supplier, end |-> e]
        /\ e = Barter(Floor[bid.supplier], Opening(bid.price, memory[bid.supplier]))
    OBVIOUS
  <2> HIDE DEF bid, e, threads, end, lines
  <2>5. e \in Ends /\ (e.result = "accept" => Fair(bid.supplier, e.price, limit, lines))
    BY <2>1, <2>2, <2>3, <2>4, ThreadIsFair
  <2>6. bid.price \in Nat /\ bid.supplier \in Suppliers
    BY <2>1 DEF Bids, Cents
  <2>7. QED
    BY <2>4, <2>5, <2>6 DEF Threads
<1>7. threads \in Seq(Threads) /\ Len(threads) = n /\ DOMAIN threads = 1..n
  <2>1. threads = [i \in 1..n |-> threads[i]] /\ DOMAIN threads = 1..n
    OBVIOUS
  <2> HIDE DEF threads, n
  <2>2. QED
    BY <1>5, <1>6, <2>1
<1> HIDE DEF threads
<1>8. /\ j \in Jobs(H) /\ j.pc = "record" /\ Phase(j) = "record" /\ j.todo = <<>>
      /\ j.fsm = "SHORTLIST_BARTER" /\ j.done = 0 /\ j.threads = threads /\ j.rfq = now.rfq
      /\ j.snap = now.snap /\ j.deal = now.deal
  BY <1>2, <1>7 DEF Jobs, Pcs, Appended, AuctionStates, Phase
<1> HIDE DEF j, n
<1>9. Placed(j)
  BY <1>4, <1>5, <1>7, <1>8 DEF Placed, Expected
<1>10. Priced(j, old)
  <2>1. j.deal # NoDeal => Newest(j, old) /\ Grounded(j.deal.supplier, j.deal.price, limit, lines)
    BY <1>2, <1>8 DEF Priced, Newest
  <2>2. Covered(lines) /\ Lines(old) \cup Lines(j.todo) = lines
    BY <1>2, <1>8 DEF Priced
  <2> HIDE DEF lines
  <2>3. QED
    BY <1>6, <1>7, <1>8, <2>1, <2>2 DEF Priced
<1>11. faults' \in 0..MaxFaults
  BY <1>1, <1>3 DEF TypedWith
<1>12. QED
  BY <1>1, <1>3, <1>4, <1>8, <1>9, <1>10, <1>11, QuietStep

LEMMA IndexSupplierKeeps ==
    ASSUME IInv, NEW r \in Requests, IndexSupplier(r)
    PROVE  IInv'
<1> DEFINE now == job[r]
           old == ledger[SessionOf[r]]
           j == [now EXCEPT !.pc = "record"]
           s == now.threads[now.done].supplier
<1>1. PICK H : TypedWith(H)
  BY DEF IInv, Typed
<1>2. /\ now \in Jobs(H) /\ Placed(now) /\ Priced(now, old)
      /\ now.pc = "index" /\ now.todo = <<>> /\ Phase(now) = "index"
  BY <1>1, JobFacts DEF IndexSupplier, At
<1>3. job' = [job EXCEPT ![r] = j] /\ index' = [index EXCEPT ![s] = now.snap]
      /\ UNCHANGED <<ledger, memory, faults>>
  BY DEF IndexSupplier, Step
<1>4. now.snap \in Profiles /\ Sound(now.snap)
  BY <1>2 DEF Jobs, Placed
<1>5. /\ j \in Jobs(H) /\ j.pc = "record" /\ Phase(j) = "record" /\ j.todo = now.todo
      /\ j.fsm = now.fsm /\ j.done = now.done /\ j.threads = now.threads /\ j.rfq = now.rfq
      /\ j.snap = now.snap /\ j.deal = now.deal
  BY <1>2 DEF Jobs, Pcs, Phase
<1> HIDE DEF j, s
<1>6. Placed(j)
  BY <1>2, <1>5 DEF Placed, Expected
<1>7. Priced(j, old)
  BY <1>2, <1>5 DEF Priced, Newest
<1>8. MemoryFolds' /\ \A p \in Suppliers : IsFiniteSet(Counted(p)')
  BY <1>1, <1>3, <1>5, SameCount DEF IInv
<1>9. /\ memory' \in [Suppliers -> Profiles] /\ index' \in [Suppliers -> Profiles]
      /\ faults' \in 0..MaxFaults
  BY <1>1, <1>3, <1>4 DEF TypedWith
<1>10. \A p \in Suppliers : Sound(memory'[p]) /\ Sound(index'[p])
  BY <1>1, <1>3, <1>4 DEF IInv, TypedWith
<1>11. QED
  BY <1>1, <1>3, <1>5, <1>6, <1>7, <1>8, <1>9, <1>10, JobStep

LEMMA FailKeeps ==
    ASSUME IInv, NEW r \in Requests, Fail(r)
    PROVE  IInv'
<1> DEFINE now == job[r]
           old == ledger[SessionOf[r]]
           j == [now EXCEPT !.pc = "failed", !.todo = <<>>]
<1>1. PICK H : TypedWith(H)
  BY DEF IInv, Typed
<1>2. now \in Jobs(H) /\ Placed(now) /\ Priced(now, old)
  BY <1>1, JobFacts
<1>3. job' = [job EXCEPT ![r] = j] /\ UNCHANGED <<ledger, memory, index>>
  BY DEF Fail, Step
<1>4. faults' \in 0..MaxFaults
  BY <1>1, RfqsAssumption DEF TypedWith, Fail
<1>5. <<>> \in Batches
  BY DEF Batches
<1>6. /\ j \in Jobs(H) /\ j.pc = "failed" /\ Phase(j) = "failed" /\ j.todo = <<>>
      /\ j.done = now.done /\ j.threads = now.threads /\ j.snap = now.snap
  BY <1>2, <1>5 DEF Jobs, Pcs, Phase
<1> HIDE DEF j
<1>7. Placed(j)
  BY <1>2, <1>6 DEF Placed, Expected
<1>8. Priced(j, old)
  BY <1>2, <1>6, LinesOfNone DEF Priced, Covered
<1>9. QED
  BY <1>1, <1>3, <1>4, <1>6, <1>7, <1>8, QuietStep

\* One thread more is recorded, of one supplier.
LEMMA OneMoreCounted ==
    ASSUME MemoryFolds, \A s \in Suppliers : IsFiniteSet(Counted(s)),
           NEW H, TypedWith(H), NEW r \in Requests, NEW j \in Jobs(H),
           job' = [job EXCEPT ![r] = j], j.done = job[r].done + 1, j.threads = job[r].threads,
           j.done \in 1..Shortlisted, NEW t \in Suppliers, t = j.threads[j.done].supplier,
           NEW p, memory' = [memory EXCEPT ![t] = p], p.auctions = memory[t].auctions + 1
    PROVE  MemoryFolds' /\ \A s \in Suppliers : IsFiniteSet(Counted(s)')
<1> DEFINE new == <<r, j.done>>
           D == Requests \X (1..Shortlisted)
<1>1. ASSUME NEW s \in Suppliers, NEW d \in D
      PROVE  d \in Counted(s)' <=> d \in Counted(s) \/ (d = new /\ s = t)
  <2>1. d[1] \in Requests /\ d[2] \in 1..Shortlisted /\ Shortlisted \in Nat /\ d = <<d[1], d[2]>>
    BY RfqsAssumption
  <2>2. j.done \in Nat /\ job[r].done \in Nat
    BY DEF TypedWith, Jobs
  <2>3. CASE d[1] # r
    <3>1. job'[d[1]] = job[d[1]] /\ d # new
      BY <2>1, <2>3 DEF TypedWith
    <3>2. QED
      BY <3>1 DEF Counted
  <2>4. CASE d[1] = r /\ d[2] # j.done
    <3>1. job'[r] = j /\ d # new
      BY <2>4 DEF TypedWith
    <3>2. d[2] <= j.done <=> d[2] <= job[r].done
      BY <2>1, <2>2, <2>4
    <3>3. QED
      BY <2>4, <3>1, <3>2 DEF Counted
  <2>5. CASE d[1] = r /\ d[2] = j.done
    <3>1. job'[r] = j /\ d = new
      BY <2>1, <2>5 DEF TypedWith
    <3>2. ~ (d[2] <= job[r].done) /\ d[2] <= j.done
      BY <2>2, <2>5
    <3>3. d \in Counted(s)' <=> s = t
      BY <2>5, <3>1, <3>2 DEF Counted
    <3>4. d \notin Counted(s)
      BY <2>5, <3>2 DEF Counted
    <3>5. QED
      BY <3>1, <3>3, <3>4
  <2>6. QED
    BY <2>3, <2>4, <2>5
<1>2. \A s \in Suppliers : Counted(s) \subseteq D /\ Counted(s)' \subseteq D
  BY DEF Counted
<1>3. new \in D
  OBVIOUS
<1> HIDE DEF new, D
<1>4. Counted(t)' = Counted(t) \cup {new} /\ new \notin Counted(t)
  <2>1. new \notin Counted(t)
    <3>1. job[r].done \in Nat /\ j.done \in Nat
      BY DEF TypedWith, Jobs
    <3>2. ~ (j.done <= job[r].done)
      BY <3>1
    <3>3. QED
      BY <3>2 DEF Counted, new
  <2>2. QED
    BY <1>1, <1>2, <1>3, <2>1
<1>5. ASSUME NEW s \in Suppliers \ {t} PROVE Counted(s)' = Counted(s)
  BY <1>1, <1>2
<1>6. ASSUME NEW s \in Suppliers
      PROVE  memory'[s].auctions = Cardinality(Counted(s)') /\ IsFiniteSet(Counted(s)')
  <2>1. memory[s].auctions = Cardinality(Counted(s)) /\ IsFiniteSet(Counted(s))
    BY DEF MemoryFolds
  <2>2. CASE s = t
    <3>1. memory'[s] = p
      BY <2>2 DEF TypedWith
    <3>2. Cardinality(Counted(t) \cup {new}) = Cardinality(Counted(t)) + 1
          /\ IsFiniteSet(Counted(t) \cup {new})
      BY <1>4, <2>1, <2>2, FS_AddElement
    <3>3. QED
      BY <1>4, <2>1, <2>2, <3>1, <3>2
  <2>3. CASE s # t
    <3>1. memory'[s] = memory[s]
      BY <2>3 DEF TypedWith
    <3>2. QED
      BY <1>5, <2>1, <2>3, <3>1
  <2>4. QED
    BY <2>2, <2>3
<1>7. QED
  BY <1>6 DEF MemoryFolds

LEMMA RecordKeeps ==
    ASSUME IInv, NEW r \in Requests, Record(r)
    PROVE  IInv'
<1> DEFINE now == job[r]
           old == ledger[SessionOf[r]]
           th == now.threads[now.done + 1]
           won == Accepted(now) # {} /\ BestDeal(now) = now.done + 1
           t == th.supplier
           p == Learnt(memory[t], th.bid, th.end.price, th.end.fsm.count, won)
           j == [now EXCEPT !.done = now.done + 1, !.pc = "index", !.snap = p]
<1>1. PICK H : TypedWith(H)
  BY DEF IInv, Typed
<1>2. /\ now \in Jobs(H) /\ Placed(now) /\ Priced(now, old)
      /\ now.pc = "record" /\ now.todo = <<>> /\ Phase(now) = "record" /\ now.done < Len(now.threads)
  <2>1. At(r, "record") /\ now.done < Len(now.threads)
    BY DEF Record
  <2>2. QED
    BY <1>1, <2>1, JobFacts DEF At
<1>3. now.threads \in Seq(Threads) /\ now.done \in Nat /\ Len(now.threads) <= Shortlisted
  BY <1>2 DEF Placed, Jobs
<1>4. now.done + 1 \in 1..Shortlisted /\ now.done + 1 <= Len(now.threads) /\ th \in Threads
  BY <1>2, <1>3, RfqsAssumption
<1>5. t \in Suppliers /\ th.bid \in Nat /\ th.end.price \in Int /\ th.end.fsm.count \in Nat
  BY <1>4 DEF Threads, Ends, Fsms
<1>6. won \in BOOLEAN
  BY Zenon
<1>7. memory[t] \in Profiles /\ Sound(memory[t])
  BY <1>1, <1>5 DEF TypedWith, IInv
<1>8. p \in Profiles /\ Sound(p) /\ p.auctions = memory[t].auctions + 1
  <2> HIDE DEF won, t, th
  <2>1. QED
    BY <1>5, <1>6, <1>7, LearntSound
<1>9. /\ memory' = [memory EXCEPT ![t] = p]
      /\ Step(r, [now EXCEPT !.done = @ + 1, !.pc = "index", !.snap = memory'[t]])
      /\ UNCHANGED <<ledger, index, faults>>
  BY DEF Record
<1> HIDE DEF p
<1>10. job' = [job EXCEPT ![r] = j]
  <2>1. memory'[t] = p
    BY <1>1, <1>5, <1>9 DEF TypedWith
  <2>2. QED
    BY <1>9, <2>1 DEF Step
<1>11. /\ j \in Jobs(H) /\ j.pc = "index" /\ Phase(j) = "index" /\ j.todo = now.todo
       /\ j.fsm = now.fsm /\ j.done = now.done + 1 /\ j.threads = now.threads /\ j.rfq = now.rfq
       /\ j.snap = p /\ j.deal = now.deal
  <2>1. "index" \in Pcs /\ now.done + 1 \in Nat
    BY <1>3 DEF Pcs
  <2> DEFINE n == now.done + 1
  <2>2. j = [now EXCEPT !.done = n, !.pc = "index", !.snap = p]
    OBVIOUS
  <2> HIDE DEF j, n
  <2>3. j \in Jobs(H)
    BY <1>2, <1>8, <2>1, <2>2 DEF Jobs, n
  <2>4. /\ j.pc = "index" /\ j.todo = now.todo /\ j.fsm = now.fsm /\ j.done = n
        /\ j.threads = now.threads /\ j.rfq = now.rfq /\ j.snap = p /\ j.deal = now.deal
    BY <1>2, <2>2 DEF Jobs
  <2>5. QED
    BY <2>3, <2>4 DEF Phase, n
<1> HIDE DEF j
<1>12. Placed(j)
  BY <1>2, <1>3, <1>4, <1>8, <1>11 DEF Placed, Expected
<1>13. Priced(j, old)
  BY <1>2, <1>11 DEF Priced, Newest
<1>14. MemoryFolds' /\ \A s \in Suppliers : IsFiniteSet(Counted(s)')
  <2>1. t = j.threads[j.done].supplier
    BY <1>11
  <2>2. j.done \in 1..Shortlisted
    BY <1>4, <1>11
  <2> HIDE DEF t
  <2>3. QED
    BY <1>1, <1>5, <1>8, <1>9, <1>10, <1>11, <2>1, <2>2, OneMoreCounted DEF IInv
<1> HIDE DEF t
<1>15. /\ memory' \in [Suppliers -> Profiles] /\ index' \in [Suppliers -> Profiles]
       /\ faults' \in 0..MaxFaults
  BY <1>1, <1>5, <1>8, <1>9 DEF TypedWith
<1>16. \A s \in Suppliers : Sound(memory'[s]) /\ Sound(index'[s])
  BY <1>1, <1>5, <1>8, <1>9 DEF IInv, TypedWith
<1>17. ledger' = ledger
  BY <1>9
<1>18. QED
  BY <1>1, <1>10, <1>11, <1>12, <1>13, <1>14, <1>15, <1>16, <1>17, JobStep

LEMMA FinishBarteringKeeps ==
    ASSUME IInv, NEW r \in Requests, FinishBartering(r)
    PROVE  IInv'
<1> DEFINE now == job[r]
           old == ledger[SessionOf[r]]
           limit == now.rfq.limit
           best == now.threads[BestDeal(now)]
           deal == [supplier |-> best.supplier, price |-> best.end.price]
           rows == <<Row(1000, "award", deal.supplier, deal.price)>>
<1>1. PICK H : TypedWith(H)
  BY DEF IInv, Typed
<1>2. /\ now \in Jobs(H) /\ Placed(now) /\ Priced(now, old)
      /\ now.pc = "record" /\ now.todo = <<>> /\ Phase(now) = "record"
  <2>1. At(r, "record")
    BY DEF FinishBartering
  <2>2. QED
    BY <1>1, <2>1, JobFacts DEF At
<1>3. /\ Step(r, IF Accepted(now) = {} THEN Appending(Moved(now, "TERMINATED"), <<>>, "done")
                 ELSE Appending([Moved(now, "AWARDED") EXCEPT !.deal = deal], rows, "done"))
      /\ UNCHANGED <<ledger, memory, index, faults>>
  BY DEF FinishBartering
<1>4. now.fsm = "SHORTLIST_BARTER" /\ now.pc # "refused" /\ now.threads \in Seq(Threads)
  BY <1>2 DEF Placed, Expected, Jobs
<1>5. Lines(now.todo) = {} /\ "done" \in Appended
  BY <1>2, LinesOfNone DEF Appended
<1>6. CASE Accepted(now) = {}
  <2> DEFINE m == [now EXCEPT !.fsm = "TERMINATED"]
  <2>1. Moved(now, "TERMINATED") = m
    BY <1>4, MoveMade
  <2>2. job' = [job EXCEPT ![r] = Appending(m, <<>>, "done")]
    BY <1>3, <1>6, <2>1 DEF Step
  <2>3. /\ m \in Jobs(H) /\ m.todo = <<>> /\ m.deal = now.deal /\ m.rfq = now.rfq
        /\ m.done = now.done /\ m.threads = now.threads /\ m.snap = now.snap
    BY <1>2 DEF Jobs, AuctionStates
  <2>4. <<>> \in Batches
    BY DEF Batches
  <2> HIDE DEF m
  <2>5. Prepared(m, <<>>, "done", old)
    <3>1. m.deal # NoDeal => Newest(m, old) /\ Grounded(m.deal.supplier, m.deal.price, limit, Lines(old))
      BY <1>2, <1>5, <2>3 DEF Priced, Newest
    <3>2. Lines(old) \cup Lines(<<>>) = Lines(old) /\ Covered(Lines(<<>>))
      BY LinesOfNone DEF Covered
    <3>3. QED
      BY <2>3, <3>1, <3>2 DEF Prepared
  <2>6. QED
    BY <1>1, <1>3, <1>5, <2>2, <2>3, <2>4, <2>5, AppendingStep
<1>7. CASE Accepted(now) # {}
  <2>1. ASSUME NEW i \in Accepted(now)
        PROVE  /\ now.threads[i] \in Threads
               /\ Fair(now.threads[i].supplier, now.threads[i].end.price, limit, Lines(old))
    <3>1. i \in DOMAIN now.threads /\ now.threads[i].end.result = "accept"
      BY DEF Accepted
    <3>2. Lines(old) \cup Lines(now.todo) = Lines(old)
      BY <1>5
    <3>3. \A k \in DOMAIN now.threads : now.threads[k].end.result = "accept" =>
            Fair(now.threads[k].supplier, now.threads[k].end.price, limit,
                 Lines(old) \cup Lines(now.todo))
      BY <1>2 DEF Priced
    <3>4. now.threads[i] \in Threads
      BY <1>4, <3>1
    <3>5. QED
      BY <3>1, <3>2, <3>3, <3>4
  <2>2. BestDeal(now) \in Accepted(now)
    <3>1. ASSUME NEW i \in Accepted(now) PROVE now.threads[i].end.price >= 0
      <4>1. Bearable(now.threads[i].supplier) \in Nat
        BY <2>1, BearableIs DEF Fair
      <4>2. now.threads[i].end.price \in Int
        BY <2>1 DEF Threads, Ends
      <4>3. QED
        BY <2>1, <4>1, <4>2 DEF Fair
    <3>2. QED
      BY <1>4, <1>7, <3>1, BestDealAccepted
  <2>3. /\ Fair(deal.supplier, deal.price, limit, Lines(old))
        /\ deal.supplier \in Suppliers /\ deal.price \in Nat
    <3>1. best \in Threads /\ Fair(best.supplier, best.end.price, limit, Lines(old))
      BY <2>1, <2>2
    <3> HIDE DEF best
    <3>2. best.supplier \in Suppliers /\ best.end.price \in Int /\ best.end.price >= Bearable(best.supplier)
      BY <3>1 DEF Fair, Threads, Ends
    <3>3. Bearable(best.supplier) \in Nat
      BY <3>2, BearableIs
    <3>4. best.end.price \in Nat
      BY <3>2, <3>3
    <3>5. QED
      BY <3>1, <3>2, <3>4
  <2> DEFINE m == [now EXCEPT !.fsm = "AWARDED", !.deal = deal]
  <2>4. job' = [job EXCEPT ![r] = Appending(m, rows, "done")]
    <3>1. Moved(now, "AWARDED") = [now EXCEPT !.fsm = "AWARDED"]
      BY <1>4, MoveMade
    <3>2. [[now EXCEPT !.fsm = "AWARDED"] EXCEPT !.deal = deal] = m
      OBVIOUS
    <3> HIDE DEF m, deal, rows
    <3>3. QED
      BY <1>3, <1>7, <3>1, <3>2 DEF Step
  <2>5. /\ m \in Jobs(H) /\ m.todo = <<>> /\ m.deal = deal /\ m.rfq = now.rfq
        /\ m.done = now.done /\ m.threads = now.threads /\ m.snap = now.snap
    BY <1>2, <2>3 DEF Jobs, AuctionStates
  <2> HIDE DEF deal
  <2>6. /\ rows \in Batches /\ rows # <<>> /\ Len(rows) = 1
        /\ Line(rows[1]) = <<"award", deal.supplier, deal.price>> /\ Covered(Lines(rows))
    BY <2>3, AwardWritten
  <2> HIDE DEF m, rows
  <2>7. Prepared(m, rows, "done", old)
    <3>1. Grounded(m.deal.supplier, m.deal.price, m.rfq.limit, Lines(old) \cup Lines(rows))
      BY <2>3, <2>5, FairStays DEF Fair
    <3>2. QED
      BY <2>5, <2>6, <3>1 DEF Prepared
  <2>8. QED
    BY <1>1, <1>3, <1>5, <2>4, <2>5, <2>6, <2>7, AppendingStep
<1>8. QED
  BY <1>6, <1>7

\* After a restart nothing has been recorded, and the ledger is as it was.
LEMMA RestartKeeps ==
    ASSUME IInv, Restart
    PROVE  IInv'
<1> DEFINE After(r) == IF Over(r) THEN [job[r] EXCEPT !.threads = <<>>, !.done = 0]
                       ELSE [Idle EXCEPT !.pc = "lost"]
<1>1. PICK H : TypedWith(H)
  BY DEF IInv, Typed
<1>2. /\ memory' = [s \in Suppliers |-> NoProfile] /\ job' = [r \in Requests |-> After(r)]
      /\ UNCHANGED <<ledger, index>>
  BY DEF Restart
<1>3. NoProfile \in Profiles /\ Sound(NoProfile)
  BY DEF NoProfile, Profiles, Sound
<1>4. [Idle EXCEPT !.pc = "lost"] \in Jobs(H)
  <2> DEFINE rfq == [quantity |-> 1, limit |-> 1, barter |-> FALSE]
  <2>1. rfq \in Clients
    BY DEF Clients
  <2>2. NoDeal \in [supplier : Suppliers \cup {"none"}, price : Nat]
    BY DEF NoDeal
  <2>3. <<>> \in Batches /\ <<>> \in Seq(Bids) /\ <<>> \in Seq(Threads)
    BY DEF Batches
  <2>4. "lost" \in Pcs /\ "new" \in Pcs /\ "INIT" \in AuctionStates
    BY DEF Pcs, AuctionStates
  <2>5. Genesis \in H
    BY <1>1 DEF TypedWith
  <2> HIDE DEF rfq
  <2>6. Idle = [pc |-> "new", rfq |-> rfq, fsm |-> "INIT", todo |-> <<>>, then |-> "new",
                hash |-> Genesis, ranked |-> <<>>, threads |-> <<>>, done |-> 0,
                snap |-> NoProfile, deal |-> NoDeal]
    BY DEF Idle, rfq
  <2>7. [Idle EXCEPT !.pc = "lost"] =
               [pc |-> "lost", rfq |-> rfq, fsm |-> "INIT", todo |-> <<>>, then |-> "new",
                hash |-> Genesis, ranked |-> <<>>, threads |-> <<>>, done |-> 0,
                snap |-> NoProfile, deal |-> NoDeal]
    BY <2>6
  <2> DEFINE none == <<>>
  <2>8. none \in Batches /\ none \in Seq(Bids) /\ none \in Seq(Threads)
    BY <2>3
  <2> HIDE DEF none
  <2>9. [pc |-> "lost", rfq |-> rfq, fsm |-> "INIT", todo |-> none, then |-> "new",
         hash |-> Genesis, ranked |-> none, threads |-> none, done |-> 0,
         snap |-> NoProfile, deal |-> NoDeal] \in Jobs(H)
    BY <1>3, <2>1, <2>2, <2>4, <2>5, <2>8 DEF Jobs
  <2>10. QED
    BY <2>7, <2>9 DEF none
<1>5. ASSUME NEW r \in Requests
      PROVE  /\ After(r) \in Jobs(H) /\ After(r).done = 0
             /\ Placed(After(r)) /\ Priced(After(r), ledger[SessionOf[r]]) /\ After(r).pc # "insert"
  <2> DEFINE now == job[r]
             old == ledger[SessionOf[r]]
  <2>1. now \in Jobs(H) /\ Placed(now) /\ Priced(now, old)
    BY <1>1, JobFacts
  <2>2. CASE Over(r)
    <3> DEFINE j == [now EXCEPT !.threads = <<>>, !.done = 0]
    <3>1. now.pc \in {"new", "done", "failed", "lost"} /\ now.todo = <<>> /\ Phase(now) = now.pc
      BY <1>1, <2>2, JobFacts DEF Over, At
    <3>2. /\ j \in Jobs(H) /\ j.pc = now.pc /\ j.todo = <<>> /\ Phase(j) = now.pc /\ j.fsm = now.fsm
          /\ j.done = 0 /\ j.threads = <<>> /\ j.rfq = now.rfq /\ j.snap = now.snap
          /\ j.deal = now.deal
      <4>1. <<>> \in Seq(Threads) /\ 0 \in Nat
        OBVIOUS
      <4>2. j \in Jobs(H) /\ j.pc = now.pc /\ j.todo = now.todo /\ j.fsm = now.fsm
            /\ j.done = 0 /\ j.threads = <<>> /\ j.rfq = now.rfq /\ j.snap = now.snap
            /\ j.deal = now.deal
        BY <2>1, <4>1 DEF Jobs
      <4> HIDE DEF j
      <4>3. QED
        BY <3>1, <4>2 DEF Phase
    <3>3. After(r) = j
      BY <2>2
    <3> HIDE DEF j
    <3>4. Placed(j)
      BY <2>1, <3>1, <3>2, RfqsAssumption DEF Placed, Expected
    <3>5. Priced(j, old)
      BY <2>1, <3>1, <3>2 DEF Priced, Newest
    <3>6. QED
      BY <3>1, <3>2, <3>3, <3>4, <3>5
  <2>3. CASE ~ Over(r)
    <3> DEFINE j == [Idle EXCEPT !.pc = "lost"]
    <3>1. /\ j.pc = "lost" /\ j.todo = <<>> /\ Phase(j) = "lost" /\ j.done = 0 /\ j.threads = <<>>
          /\ j.snap = NoProfile
      BY DEF Idle, Phase
    <3>2. After(r) = j /\ j \in Jobs(H)
      BY <1>4, <2>3
    <3> HIDE DEF j
    <3>3. Placed(j)
      BY <1>3, <3>1, RfqsAssumption DEF Placed, Expected
    <3>4. Priced(j, old)
      BY <2>1, <3>1, LinesOfNone DEF Priced, Covered
    <3>5. QED
      BY <3>1, <3>2, <3>3, <3>4
  <2>4. QED
    BY <2>2, <2>3
<1> HIDE DEF After
<1>6. TypedWith(H)'
  <2>1. job' \in [Requests -> Jobs(H)]
    BY <1>2, <1>5
  <2>2. memory' \in [Suppliers -> Profiles]
    BY <1>2, <1>3
  <2>3. faults' \in 0..MaxFaults
    <3>1. faults \in 0..MaxFaults /\ faults < MaxFaults /\ faults' = faults + 1 /\ MaxFaults \in Nat
      BY <1>1, RfqsAssumption DEF TypedWith, Restart
    <3>2. QED
      BY ONLY <3>1
  <2>4. QED
    BY <1>1, <1>2, <2>1, <2>2, <2>3 DEF TypedWith
<1>7. ASSUME NEW s \in Suppliers
      PROVE  /\ memory'[s] = NoProfile /\ Counted(s)' = {} /\ Sound(memory'[s]) /\ Sound(index'[s])
  <2>1. \A d \in Requests \X (1..Shortlisted) : ~ (d[2] <= job'[d[1]].done)
    BY <1>2, <1>5
  <2>2. Counted(s)' = {}
    BY <2>1 DEF Counted
  <2>3. QED
    BY <1>2, <1>3, <2>2 DEF IInv
<1>8. MemoryFolds' /\ \A s \in Suppliers : IsFiniteSet(Counted(s)')
  BY <1>7, FS_EmptySet DEF MemoryFolds, NoProfile
<1>9. ASSUME NEW r \in Requests
      PROVE  Placed(job'[r]) /\ Priced(job'[r], ledger'[SessionOf[r]]) /\ Linked(r)'
  BY <1>2, <1>5 DEF Linked, At
<1>10. QED
  BY <1>6, <1>7, <1>8, <1>9 DEF IInv, Typed

(***************************************************************************)
(* The invariant is inductive, and what follows from it.                   *)
(***************************************************************************)
LEMMA InitHolds == Init => IInv
<1> SUFFICES ASSUME Init PROVE IInv
  OBVIOUS
<1> DEFINE H == {Genesis}
           none == <<>>
<1>1. none \in Seq(Rows(H)) /\ none \in Batches /\ none \in Seq(Bids) /\ none \in Seq(Threads)
      /\ DOMAIN none = {} /\ Len(none) = 0
  BY DEF Batches
<1>2. NoProfile \in Profiles /\ Sound(NoProfile)
  BY DEF NoProfile, Profiles, Sound
<1>3. /\ Idle.pc = "new" /\ Idle.fsm = "INIT" /\ Idle.todo = none /\ Idle.done = 0
      /\ Idle.threads = none /\ Idle.snap = NoProfile /\ Idle.deal = NoDeal
  BY DEF Idle
<1>4. Idle \in Jobs(H)
  <2>1. [quantity |-> 1, limit |-> 1, barter |-> FALSE] \in Clients
    BY DEF Clients
  <2>2. NoDeal \in [supplier : Suppliers \cup {"none"}, price : Nat]
    BY DEF NoDeal
  <2>3. "INIT" \in AuctionStates /\ "new" \in Pcs
    BY DEF AuctionStates, Pcs
  <2> HIDE DEF none
  <2>4. Idle = [pc |-> "new", rfq |-> [quantity |-> 1, limit |-> 1, barter |-> FALSE],
                fsm |-> "INIT", todo |-> none, then |-> "new", hash |-> Genesis, ranked |-> none,
                threads |-> none, done |-> 0, snap |-> NoProfile, deal |-> NoDeal]
    BY DEF Idle, none
  <2>5. QED
    BY <1>1, <1>2, <2>1, <2>2, <2>3, <2>4 DEF Jobs
<1>5. \A r \in Requests : job[r] = Idle /\ SessionOf[r] \in Sessions
                          /\ ledger[SessionOf[r]] = none
  BY SessionsAssumption DEF Init
<1>6. Lines(none) = {}
  BY LinesOfNone
<1>7. Phase(Idle) = "new"
  BY <1>3 DEF Phase
<1>8. Placed(Idle)
  BY <1>1, <1>2, <1>3, <1>7, RfqsAssumption DEF Placed, Expected
<1>9. Priced(Idle, none)
  <2> HIDE DEF none
  <2>1. QED
    BY <1>3, <1>6, <1>7 DEF Priced, Covered
<1>10. TypedWith(H)
  <2> HIDE DEF none
  <2>1. ledger = [s \in Sessions |-> none]
    BY DEF Init, none
  <2>2. 0 \in 0..MaxFaults
    BY RfqsAssumption
  <2>3. QED
    BY <1>1, <1>2, <1>4, <2>1, <2>2 DEF TypedWith, Init
<1>11. ASSUME NEW s \in Suppliers
       PROVE  /\ Sound(memory[s]) /\ Sound(index[s])
              /\ memory[s].auctions = Cardinality(Counted(s)) /\ IsFiniteSet(Counted(s))
  <2>1. \A d \in Requests \X (1..Shortlisted) : ~ (d[2] <= job[d[1]].done)
    BY <1>3, <1>5, RfqsAssumption
  <2>2. Counted(s) = {}
    BY <2>1 DEF Counted
  <2>3. memory[s] = NoProfile /\ index[s] = NoProfile
    BY DEF Init
  <2>4. NoProfile.auctions = 0
    BY DEF NoProfile
  <2>5. QED
    BY <1>2, <2>2, <2>3, <2>4, FS_EmptySet
<1>12. ASSUME NEW r \in Requests
       PROVE  Placed(job[r]) /\ Priced(job[r], ledger[SessionOf[r]]) /\ Linked(r)
  <2> HIDE DEF none
  <2>1. QED
    BY <1>3, <1>5, <1>8, <1>9 DEF Linked, At
<1>13. QED
  <2> HIDE DEF H
  <2>1. QED
    BY <1>10, <1>11, <1>12 DEF IInv, Typed, MemoryFolds

LEMMA NextKeeps == IInv /\ [Next]_vars => IInv'
<1> SUFFICES ASSUME IInv, [Next]_vars PROVE IInv'
  OBVIOUS
<1>1. CASE UNCHANGED vars
  <2>1. UNCHANGED <<ledger, memory, index, job, faults>>
    BY <1>1 DEF vars
  <2>2. Typed'
    BY <2>1 DEF IInv, Typed, TypedWith
  <2>3. \A r \in Requests : Linked(r)'
    BY <2>1 DEF IInv, Linked, At
  <2>4. MemoryFolds' /\ \A s \in Suppliers : IsFiniteSet(Counted(s))'
    BY <2>1 DEF IInv, MemoryFolds, Counted
  <2>5. QED
    BY <2>1, <2>2, <2>3, <2>4 DEF IInv
<1>2. ASSUME NEW r \in Requests, RequestStep(r) PROVE IInv'
  BY <1>2, CreateKeeps, ReadLastHashKeeps, InsertKeeps, CollectKeeps, EvaluateKeeps,
     StartBarteringKeeps, RecordKeeps, IndexSupplierKeeps, FinishBarteringKeeps DEF RequestStep
<1>3. ASSUME NEW r \in Requests, Fail(r) PROVE IInv'
  BY <1>3, FailKeeps
<1>4. CASE Restart
  BY <1>4, RestartKeeps
<1>5. QED
  BY <1>1, <1>2, <1>3, <1>4 DEF Next

\* The invariant holds of every state the requests can reach.
THEOREM Inductive == Spec => []IInv
<1>1. QED
  BY InitHolds, NextKeeps, PTL DEF Spec

\* Every part of the state has its shape in every reachable state: the state
\* machine is never asked for a move outside its table, no profile has more wins
\* than auctions and a request never records more threads than it has.
THEOREM TypeCorrect == Spec => []TypeOK
<1>1. IInv => TypeOK
  <2> SUFFICES ASSUME IInv PROVE TypeOK
    OBVIOUS
  <2>1. PICK H : TypedWith(H)
    BY DEF IInv, Typed
  <2>2. ASSUME NEW s \in Sessions, NEW i \in DOMAIN ledger[s]
        PROVE  ledger[s][i].kind \in {"rfq", "bid", "award"} /\ ledger[s][i].price \in Nat
    <3> DEFINE R == Rows(H)
    <3>1. ledger[s] \in Seq(R)
      BY <2>1 DEF TypedWith
    <3> HIDE DEF R
    <3>2. ledger[s][i] \in R
      BY <3>1
    <3>3. QED
      BY <3>2 DEF R, Rows
  <2>3. ASSUME NEW r \in Requests
        PROVE  /\ job[r].fsm \in AuctionStates /\ job[r].done <= Len(job[r].threads)
               /\ job[r].pc \in {"new", "read", "insert", "collect", "evaluate", "barter", "record",
                                 "index", "done", "failed", "lost"}
    <3>1. job[r] \in Jobs(H) /\ Placed(job[r])
      BY <2>1, JobFacts
    <3>2. job[r].pc \in Pcs
      BY <3>1 DEF Jobs
    <3>3. QED
      BY <3>1, <3>2 DEF Jobs, Placed, Pcs, Appended
  <2>4. \A s \in Suppliers : memory[s].won <= memory[s].auctions /\ index[s].won <= index[s].auctions
    BY DEF IInv, Sound
  <2>5. faults \in 0..MaxFaults
    BY <2>1 DEF TypedWith
  <2>6. QED
    BY <2>2, <2>3, <2>4, <2>5 DEF TypeOK
<1>2. QED
  BY <1>1, Inductive, PTL

\* No row of the ledger awards a supplier more than half a cent less than its
\* floor: neither the price ceiling of a client (respond_to_rfq) nor any number
\* of turns of bartering and of roundings to cents (respond_to_offer), whatever
\* the buyer has learnt of the supplier before.
THEOREM NoAwardAtALoss == Spec => []NoLoss
<1>1. IInv => NoLoss
  <2> SUFFICES ASSUME IInv, NEW r \in Requests, NEW i \in RowsOf(r, "award")
               PROVE  LET row == ledger[SessionOf[r]][i] IN 2 * (Floor[row.supplier] - row.price) <= Cent
    BY DEF NoLoss
  <2> DEFINE row == ledger[SessionOf[r]][i]
             rows == ledger[SessionOf[r]]
  <2>1. Covered(Lines(rows))
    BY DEF IInv, Priced, Covered
  <2>2. Line(row) \in Lines(rows) /\ row.kind = "award"
    BY DEF RowsOf, Lines
  <2>3. Line(row) = <<"award", row.supplier, row.price>>
    BY <2>2 DEF Line
  <2>4. row.price \in Nat
    <3>1. PICK H : TypedWith(H)
      BY DEF IInv, Typed
    <3> DEFINE R == Rows(H)
    <3>2. rows \in Seq(R) /\ i \in DOMAIN rows
      BY <3>1, SessionsAssumption DEF TypedWith, RowsOf
    <3> HIDE DEF R, rows
    <3>3. rows[i] \in R
      BY <3>2
    <3>4. QED
      BY <3>3 DEF R, Rows, rows
  <2> HIDE DEF row, rows
  <2>5. row.supplier \in Suppliers /\ row.price >= Bearable(row.supplier)
    BY <2>1, <2>2, <2>3 DEF Covered
  <2>6. 2 * (Floor[row.supplier] - row.price) <= Cent
    <3>1. /\ Bearable(row.supplier) \in Nat /\ Floor[row.supplier] \in Nat
          /\ 2 * (Floor[row.supplier] - Bearable(row.supplier)) <= Cent
      BY <2>5, BearableIs
    <3>2. QED
      BY <2>4, <2>5, <3>1 DEF Cent
  <2>7. QED
    BY <2>6 DEF row
<1>2. QED
  BY <1>1, Inductive, PTL

\* What create_auction answers with is the last award of its session in the
\* ledger, and the supplier had bid there within the limit and not for less.
THEOREM AwardsGrounded == Spec => []AwardGrounded
<1>1. IInv => AwardGrounded
  <2> SUFFICES ASSUME IInv, NEW r \in Requests, At(r, "done"), job[r].deal # NoDeal
               PROVE  LET rows == ledger[SessionOf[r]]
                          awards == RowsOf(r, "award")
                          last == rows[CHOOSE i \in awards : \A k \in awards : k <= i]
                      IN  /\ awards # {} /\ last.supplier = job[r].deal.supplier
                          /\ last.price = job[r].deal.price
                          /\ \E i \in RowsOf(r, "bid") :
                                /\ rows[i].supplier = last.supplier
                                /\ rows[i].price >= last.price /\ rows[i].price <= job[r].rfq.limit
    BY DEF AwardGrounded
  <2> DEFINE rows == ledger[SessionOf[r]]
             awards == RowsOf(r, "award")
             deal == job[r].deal
             limit == job[r].rfq.limit
             newest == CHOOSE i \in awards : \A k \in awards : k <= i
  <2>1. PICK H : TypedWith(H)
    BY DEF IInv, Typed
  <2>2. /\ job[r] \in Jobs(H) /\ Priced(job[r], rows) /\ rows \in Seq(Rows(H))
        /\ job[r].todo = <<>> /\ Phase(job[r]) = "done"
    BY <2>1, JobFacts DEF At
  <2>3. Newest(job[r], rows) /\ Grounded(deal.supplier, deal.price, limit, Lines(rows))
    <3>1. Lines(rows) \cup Lines(job[r].todo) = Lines(rows)
      BY <2>2, LinesOfNone
    <3>2. QED
      BY <2>2, <3>1 DEF Priced
  <2>4. rows # <<>> /\ Line(rows[Len(rows)]) = <<"award", deal.supplier, deal.price>>
    BY <2>2, <2>3 DEF Newest
  <2>5. DOMAIN rows = 1..Len(rows) /\ Len(rows) \in DOMAIN rows
    BY <2>2, <2>4
  <2>6. /\ rows[Len(rows)].kind = "award" /\ rows[Len(rows)].supplier = deal.supplier
        /\ rows[Len(rows)].price = deal.price
    BY <2>4 DEF Line
  <2>7. Len(rows) \in awards /\ \A k \in awards : k \in 1..Len(rows)
    BY <2>5, <2>6 DEF RowsOf
  <2>8. newest = Len(rows)
    <3> HIDE DEF awards, rows
    <3>1. newest \in awards /\ \A k \in awards : k <= newest
      BY <2>7
    <3>2. newest \in 1..Len(rows) /\ Len(rows) <= newest
      BY <2>7, <3>1
    <3> HIDE DEF newest
    <3>3. QED
      BY <3>2
  <2>9. PICK line \in Lines(rows) :
          /\ line[1] = "bid" /\ line[2] = deal.supplier
          /\ line[3] \in Nat /\ deal.price <= line[3] /\ line[3] <= limit
    BY <2>3 DEF Grounded
  <2>10. PICK i \in DOMAIN rows : line = Line(rows[i])
    BY <2>9 DEF Lines
  <2>11. rows[i].kind = "bid" /\ rows[i].supplier = deal.supplier /\ rows[i].price \in Nat
         /\ deal.price <= rows[i].price /\ rows[i].price <= limit
    BY <2>9, <2>10 DEF Line
  <2>12. i \in RowsOf(r, "bid")
    BY <2>10, <2>11 DEF RowsOf
  <2>13. deal.price \in Nat
    BY <2>2 DEF Jobs
  <2> HIDE DEF deal, limit, newest
  <2>14. rows[i].price >= deal.price
    BY <2>11, <2>13
  <2>15. QED
    BY <2>6, <2>7, <2>8, <2>11, <2>12, <2>14 DEF deal, limit, newest
<1>2. QED
  BY <1>1, Inductive, PTL

\* However the loops of run_bilateral_bartering interleave, the memory of
\* suppliers has counted each recorded thread exactly once.
THEOREM EveryThreadCounted == Spec => []MemoryFolds
<1>1. IInv => MemoryFolds
  BY DEF IInv
<1>2. QED
  BY <1>1, Inductive, PTL

\* The ledger implements the abstract hash chain: every step of any request
\* appends one entry that names the tip of its session, or leaves the ledger
\* alone, although append_event reads the tip and inserts in two transactions.
THEOREM LedgerRefined == Spec => LedgerIsChain
<1>1. Init => Chain!Init
  BY DEF Init, Chain!Init
<1>2. IInv /\ [Next]_vars => [Chain!Next]_ledger
  <2> SUFFICES ASSUME IInv, [Next]_vars PROVE [Chain!Next]_ledger
    OBVIOUS
  <2>1. ASSUME NEW r \in Requests, Insert(r) PROVE Chain!Next
    <3> DEFINE s == SessionOf[r]
               old == ledger[s]
               entry == [Head(job[r].todo) EXCEPT !.prev = job[r].hash]
    <3>1. PICK H : TypedWith(H)
      BY DEF IInv, Typed
    <3>2. job[r] \in Jobs(H) /\ Placed(job[r]) /\ s \in Sessions /\ old \in Seq(Rows(H))
      BY <3>1, JobFacts
    <3>3. ledger' = [ledger EXCEPT ![s] = Append(old, entry)] /\ job[r].pc = "insert"
      BY <2>1 DEF Insert, At
    <3>4. job[r].hash = Chain!Tip(s, old)
      BY <3>3 DEF IInv, Linked, At
    <3>5. job[r].todo \in Batches /\ job[r].todo # <<>> /\ job[r].hash \in H
      BY <3>2, <3>3 DEF Jobs, Placed
    <3>6. Head(job[r].todo) \in Rows({Genesis})
      BY <3>5 DEF Batches
    <3>7. entry \in Rows(H) /\ entry.prev = job[r].hash
      BY <3>5, <3>6 DEF Rows
    <3> HIDE DEF entry
    <3>8. ledger'[s] = Append(old, entry)
      BY <3>1, <3>2, <3>3 DEF TypedWith
    <3>9. ledger'[s] # <<>> /\ ledger'[s][Len(ledger'[s])] = entry
      <4> DEFINE R == Rows(H)
      <4>1. old \in Seq(R) /\ entry \in R
        BY <3>2, <3>7
      <4> HIDE DEF R, old
      <4>2. Append(old, entry) # <<>> /\ Append(old, entry)[Len(Append(old, entry))] = entry
        BY <4>1
      <4>3. QED
        BY <3>8, <4>2
    <3>10. Chain!Extend(s)
      BY <3>3, <3>4, <3>7, <3>9 DEF Chain!Extend
    <3>11. QED
      BY <3>2, <3>10 DEF Chain!Next
  <2>2. ASSUME NEW r \in Requests, RequestStep(r) \/ Fail(r), ~ Insert(r)
        PROVE  UNCHANGED ledger
    BY <2>2 DEF RequestStep, Create, ReadLastHash, Collect, Evaluate, StartBartering, Record,
                IndexSupplier, FinishBartering, Fail
  <2>3. Restart \/ UNCHANGED vars => UNCHANGED ledger
    BY DEF Restart, vars
  <2> QED
    BY <2>1, <2>2, <2>3 DEF Next
<1>3. QED
  BY <1>1, <1>2, Inductive, PTL DEF Spec, LedgerIsChain, Chain!Spec

(***************************************************************************)
(* And what the promise of the hash chain is for.                          *)
(***************************************************************************)

\* Each session has a sequence of entries, and the audit of it succeeds.
ChainInv ==
    /\ ledger = [s \in Sessions |-> ledger[s]]
    /\ \A s \in Sessions : /\ \E Entries : ledger[s] \in Seq(Entries)
                           /\ Chain!Verified(s, ledger[s])

\* An entry that names the tip of a verified chain may be appended to it.
LEMMA VerifiedAppend ==
    ASSUME NEW s, NEW Entries, NEW rows \in Seq(Entries), NEW entry \in Entries,
           Chain!Verified(s, rows), entry.prev = Chain!Tip(s, rows)
    PROVE  Chain!Verified(s, Append(rows, entry))
<1> DEFINE longer == Append(rows, entry)
<1>1. longer \in Seq(Entries) /\ Len(longer) = Len(rows) + 1
  OBVIOUS
<1>2. SUFFICES ASSUME NEW i \in DOMAIN longer
               PROVE  longer[i].prev = Chain!Tip(s, SubSeq(longer, 1, i - 1))
  BY DEF Chain!Verified
<1>3. i \in 1 .. Len(rows) + 1
  BY <1>1
<1>4. SubSeq(longer, 1, i - 1) = SubSeq(rows, 1, i - 1)
  <2>1. i - 1 \in 0 .. Len(rows)
    BY <1>3
  <2>2. \A k \in 1 .. i - 1 : longer[k] = rows[k]
    BY <2>1
  <2> QED
    BY <1>1, <2>1, <2>2
<1>5. CASE i \in 1 .. Len(rows)
  <2>1. longer[i] = rows[i]
    BY <1>5
  <2>2. i \in DOMAIN rows
    BY <1>5
  <2>3. rows[i].prev = Chain!Tip(s, SubSeq(rows, 1, i - 1))
    BY <2>2 DEF Chain!Verified
  <2> QED
    BY <1>4, <2>1, <2>3
<1>6. CASE i = Len(rows) + 1
  <2>1. longer[i] = entry
    BY <1>6
  <2>2. SubSeq(rows, 1, i - 1) = rows
    BY <1>6
  <2> QED
    BY <1>4, <2>1, <2>2
<1> QED
  BY <1>3, <1>5, <1>6

\* Every session of a ledger that only grows at its end, one entry naming the
\* tip at a time, passes verify_chain (repository.py:112) whenever it is asked.
THEOREM AuditSucceeds == Chain!Spec => [](\A s \in Sessions : Chain!Verified(s, ledger[s]))
<1>1. Chain!Init => ChainInv
  <2> SUFFICES ASSUME Chain!Init PROVE ChainInv
    OBVIOUS
  <2>1. ASSUME NEW s \in Sessions
        PROVE  (\E Entries : ledger[s] \in Seq(Entries)) /\ Chain!Verified(s, ledger[s])
    <3>1. ledger[s] = <<>>
      BY DEF Chain!Init
    <3>2. <<>> \in Seq({Genesis})
      OBVIOUS
    <3> QED
      BY <3>1, <3>2 DEF Chain!Verified
  <2> QED
    BY <2>1 DEF Chain!Init, ChainInv
<1>2. ChainInv /\ [Chain!Next]_ledger => ChainInv'
  <2> SUFFICES ASSUME ChainInv, [Chain!Next]_ledger PROVE ChainInv'
    OBVIOUS
  <2>1. CASE UNCHANGED ledger
    BY <2>1 DEF ChainInv
  <2>2. ASSUME NEW s \in Sessions, Chain!Extend(s) PROVE ChainInv'
    <3> DEFINE entry == ledger'[s][Len(ledger'[s])]
    <3>1. entry.prev = Chain!Tip(s, ledger[s]) /\ ledger' = [ledger EXCEPT ![s] = Append(@, entry)]
      BY <2>2 DEF Chain!Extend
    <3> HIDE DEF entry
    <3>2. ledger' = [t \in Sessions |-> IF t = s THEN Append(ledger[s], entry) ELSE ledger[t]]
      BY <3>1 DEF ChainInv
    <3>3. ASSUME NEW t \in Sessions
          PROVE  (\E Entries : ledger'[t] \in Seq(Entries)) /\ Chain!Verified(t, ledger'[t])
      <4>1. CASE t # s
        <5>1. ledger'[t] = ledger[t]
          BY <3>2, <4>1
        <5> QED
          BY <5>1 DEF ChainInv
      <4>2. CASE t = s
        <5>1. PICK Old : ledger[s] \in Seq(Old)
          BY DEF ChainInv
        <5> DEFINE New == Old \cup {entry}
        <5>2. ledger[s] \in Seq(New) /\ entry \in New
          BY <5>1
        <5>3. Chain!Verified(s, Append(ledger[s], entry))
          BY <3>1, <5>2, VerifiedAppend DEF ChainInv
        <5>4. ledger'[t] = Append(ledger[s], entry)
          BY <3>2, <4>2
        <5>5. ledger'[t] \in Seq(New)
          BY <5>2, <5>4
        <5> QED
          BY <4>2, <5>3, <5>4, <5>5
      <4> QED
        BY <4>1, <4>2
    <3> QED
      BY <3>2, <3>3 DEF ChainInv
  <2> QED
    BY <2>1, <2>2 DEF Chain!Next
<1>3. ChainInv => \A s \in Sessions : Chain!Verified(s, ledger[s])
  BY DEF ChainInv
<1> QED
  BY <1>1, <1>2, <1>3, PTL DEF Chain!Spec

\* verify_chain finds every session of the ledger in order whenever it is asked.
THEOREM SessionsVerified == Spec => [](\A s \in Sessions : Chain!Verified(s, ledger[s]))
  BY AuditSucceeds, LedgerRefined, PTL DEF LedgerIsChain
=============================================================================
