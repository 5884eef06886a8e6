----------------------------- MODULE Orders_proofs -----------------------------
(***************************************************************************)
(* What the runs of Orders check on two requests, for any number of them:  *)
(* every order is vetted and placed again only if an answer was lost,      *)
(* every answer is on record, and a settled order is left alone.  The      *)
(* inductive invariant follows one request from its dispatch to what is    *)
(* remembered of it, and ties its artifacts to the calls made for it.      *)
(***************************************************************************)
EXTENDS Orders, FiniteSetTheorems, SequenceTheorems, TLAPS

Awarded == Suppliers \cup {NoSupplier}
Actions == {"submit_order", "get_order_status"}
Verdicts == {"REJECTED", "APPROVAL_REQUIRED", "APPROVED"}
Early == {"unknown", "sourcing", "decided", "validated", "assessed", "governed"}
Late == {"granted", "ordered", "done"}
Statuses == {"CREATED", "CANCELLED", "SUBMITTED", "CONFIRMED", "SHIPPED", "DELIVERED"}

Orderings == [supplier : Awarded, amount : Int, status : Statuses]
Artifacts == [decision : Seq(Awarded), contract : Seq(BOOLEAN), risk : Seq(Int),
              governance : Seq(Verdicts), auth : Seq({"pending", "authorized"}),
              order : Seq(Orderings), execution : Seq(Statuses), calls : Seq(Actions)]
Records == [orders : Nat, onTime : Nat, quality : Nat, price : Nat]
Attempts == [request : Requests, action : Actions, supplier : Awarded, answered : BOOLEAN]
Tellings == [request : Requests, outcome : Outcomes, at : {"told", "recorded", "folded", "answered"}]

Typed ==
    /\ flight \in [Requests -> [at : Early \cup Late \cup {"answered"}, st : Artifacts]]
    /\ kept \in Seq(Requests) /\ store \in [Requests -> Artifacts]
    /\ memory \in [Suppliers -> Records]
    /\ told \in Seq(Tellings)
    /\ outside \in Seq(Attempts) /\ faults \in Nat

(***************************************************************************)
(* The artifacts of a request, and the calls made for it.                  *)
(***************************************************************************)
Verdict(r, st) ==
    IF ~Valid(Award(st)) THEN "REJECTED" ELSE Govern(Amount(Award(st), Quantity[r]), st.risk[1])

\* The artifacts before the approval: as far as the dispatch has come.
Considered(r, at, st) ==
    /\ st.auth = <<>> /\ st.order = <<>> /\ st.execution = <<>> /\ st.calls = <<>>
    /\ at \in {"unknown", "sourcing"} => st = NoArtifacts
    /\ at \notin {"unknown", "sourcing"} => Len(st.decision) = 1
    /\ at \in {"validated", "assessed", "governed"} => st.contract = <<Valid(Award(st))>>
    /\ at = "validated" => Valid(Award(st))
    /\ at \in {"assessed", "governed"} /\ Valid(Award(st)) => Len(st.risk) = 1
    /\ at = "governed" => st.governance = <<Verdict(r, st)>>

\* And from then on: the authorization is the one the verdict asks for.
Vetted(r, st) ==
    /\ Len(st.decision) = 1
    /\ Verdict(r, st) = "REJECTED" => st.auth = <<>>
    /\ Verdict(r, st) = "APPROVAL_REQUIRED" => st.auth \in {<<"pending">>, <<"pending", "authorized">>}
    /\ Verdict(r, st) = "APPROVED" => st.auth = <<"authorized">>

Own(r, made) == \A i \in DOMAIN made : made[i].request = r
Of(r, out) == {n \in DOMAIN out : out[n].request = r}

\* Nothing was asked of the outside without an authorization, the order on
\* record is the one that was answered, and every answer is on record.
Backed(r, st, out) ==
    /\ Of(r, out) # {} \/ st.order # <<>> => Authorized(st)
    /\ \A n \in Of(r, out) : out[n].supplier = Award(st)
    /\ st.order = <<>> => \A n \in Of(r, out) : out[n].action = "submit_order" => ~out[n].answered

AnsweredOf(r, out) == {n \in Of(r, out) : out[n].answered}
OnRecord(r, st, out) ==
    \E at \in [DOMAIN st.calls -> AnsweredOf(r, out)] :
        /\ Range(at) = AnsweredOf(r, out)
        /\ \A i, j \in DOMAIN st.calls : i < j => at[i] < at[j]
        /\ \A i \in DOMAIN st.calls : out[at[i]].action = st.calls[i]

\* The trail agrees with what the swarm knows; no status without an order.
Trailed(st) == st.calls = Trail(st) /\ (st.order = <<>> => st.execution = <<>>)

Good(r, st, out) == Vetted(r, st) /\ Backed(r, st, out) /\ OnRecord(r, st, out) /\ Trailed(st)

\* An answered order is the last one that was placed.
Once(r, out) ==
    \A m, n \in Of(r, out) :
        out[m].action = "submit_order" /\ out[n].action = "submit_order" /\ out[m].answered => n <= m

(***************************************************************************)
(* The inductive invariant.                                                *)
(***************************************************************************)
Where(r) ==
    LET at == flight[r].at
        st == flight[r].st
    IN  /\ at \in Early => Considered(r, at, st) /\ Of(r, outside) = {}
        /\ at \in Late => Good(r, st, outside)
        /\ at = "granted" => st.order = <<>> /\ st.execution = <<>> /\ Authorized(st)
        /\ at = "ordered" => Len(st.order) = 1 /\ st.execution = <<>>
        /\ at = "answered" => /\ Len(st.decision) = 1
                              /\ store[r] = NoArtifacts \/ Good(r, store[r], outside)

Keeping ==
    /\ IsInjective(kept) /\ Len(kept) <= MaxStates
    /\ \A r \in Requests :
          /\ Known(r) => flight[r].at = "answered"
          /\ ~Known(r) => store[r] = NoArtifacts
          /\ Known(r) /\ r \notin Told => store[r] # NoArtifacts
    /\ \A n \in DOMAIN told : flight[told[n].request].at = "answered"

Tallied == \A s \in Suppliers : memory[s].onTime <= memory[s].orders /\ memory[s].quality <= 100 * memory[s].orders

IInv == Typed /\ Keeping /\ Tallied /\ \A r \in Requests : Where(r) /\ Once(r, outside)

(***************************************************************************)
(* Arithmetic of the risk, and the artifacts of a swarm.                   *)
(***************************************************************************)
LEMMA Quotient == \A a \in Int, b \in Nat \ {0} : a \div b \in Int
  OBVIOUS

LEMMA AmountIsInt ==
  ASSUME NEW s \in Awarded, NEW quantity \in Nat
  PROVE  Amount(s, quantity) \in Int
  BY SupplierAssumption DEF Amount, Awarded

LEMMA OverallIsInt ==
  ASSUME NEW s \in Awarded, NEW quantity \in Nat, NEW limit \in Nat, NEW p \in Records
  PROVE  Overall(s, quantity, limit, p) \in Int
<1>1. Amount(s, quantity) \in Int
  BY AmountIsInt
<1>2. FinancialRisk(Amount(s, quantity)) \in Int
  <2>1. (50 * Amount(s, quantity)) \div Policy.ceiling \in Int
    BY <1>1, Quotient, PolicyAssumption
  <2>2. QED
    BY <2>1 DEF FinancialRisk, Clamped
<1>3. DeliveryRisk(p) \in Int
  <2>1. p.orders # 0 => (100 * p.onTime) \div p.orders \in Int
    BY Quotient DEF Records
  <2>2. QED
    BY <2>1 DEF DeliveryRisk, Records
<1>4. QualityRisk(s, p) \in Int
  <2>1. p.orders > 0 => p.quality \div p.orders \in Int
    BY Quotient DEF Records
  <2>2. s # NoSupplier => Score[s] \in Int
    BY SupplierAssumption DEF Awarded
  <2>3. QED
    BY <2>1, <2>2 DEF QualityRisk, Records
<1>5. CarbonRisk(s, limit) \in Int
  <2> DEFINE base == IF limit > 0 THEN limit ELSE Baseline
  <2>1. base \in Nat \ {0}
    BY PolicyAssumption
  <2>2. s # NoSupplier => (100 * Carbon[s]) \div base \in Int
    <3> SUFFICES ASSUME s # NoSupplier PROVE (100 * Carbon[s]) \div base \in Int
      OBVIOUS
    <3>1. 100 * Carbon[s] \in Int
      BY SupplierAssumption DEF Awarded
    <3> HIDE DEF base
    <3>2. QED
      BY <3>1, <2>1, Quotient
  <2>3. QED
    BY <2>2 DEF CarbonRisk, Clamped
<1>6. QED
  BY <1>1, <1>2, <1>3, <1>4, <1>5 DEF Overall

LEMMA NothingYet == NoArtifacts \in Artifacts /\ NoHistory \in Records
  BY DEF NoArtifacts, Artifacts, NoHistory, Records

(***************************************************************************)
(* What a connector may do to the artifacts and to the outside.            *)
(***************************************************************************)
Untouched(st, new) ==
    /\ new \in Artifacts
    /\ new.decision = st.decision /\ new.contract = st.contract /\ new.risk = st.risk
    /\ new.governance = st.governance /\ new.auth = st.auth

\* Nothing, or one call: answered and recorded, or neither.
Calling(r, st, o) ==
    \/ o.made = <<>> /\ o.st = st
    \/ \E action \in Actions, answered \in BOOLEAN :
          /\ o.made = <<Call(r, action, st, answered)>>
          /\ action = "submit_order" => Authorized(st) /\ st.order = <<>>
          /\ action # "submit_order" => st.order # <<>> /\ st.execution = <<>>
          /\ ~answered => o.st = st
          /\ answered => /\ o.st.calls = Append(st.calls, action)
                         /\ action = "submit_order" => Len(o.st.order) = 1 /\ o.st.execution = st.execution
                         /\ action # "submit_order" => o.st.order = st.order /\ Len(o.st.execution) = 1

LEMMA AwardedIs ==
  ASSUME NEW st \in Artifacts, Len(st.decision) = 1
  PROVE  Award(st) \in Awarded
  BY DEF Award, Artifacts

LEMMA Reports ==
  ASSUME NEW r \in Requests, NEW p \in Providers
  PROVE  BuildConnector(p).reports[r] \in Statuses
<1>1. DOMAIN Lifecycle = 1..4 /\ \A i \in 1..4 : Lifecycle[i] \in Statuses
  BY DEF Lifecycle, Statuses
<1>2. \A x \in [Requests -> DOMAIN Lifecycle] : Simulated(x).reports[r] \in Statuses
  BY <1>1 DEF Simulated
<1>3. CASE p = "mock"
  BY <1>3 DEF BuildConnector, Mock, ErpSystems, Statuses
<1>4. CASE p = "supplier_api"
  BY <1>4, <1>2, StageAssumption DEF BuildConnector, SupplierAPI, Providers, ErpSystems
<1>5. CASE p \in ErpSystems
  BY <1>5, <1>2, StageAssumption DEF BuildConnector, ERP, ErpSystems, Providers
<1>6. QED
  BY <1>3, <1>4, <1>5 DEF Providers

LEMMA AsStatusIs == ASSUME NEW x PROVE AsStatus(x) \in Statuses
<1>1. \A i \in 1..4 : Lifecycle[i] \in Statuses
  BY DEF Lifecycle, Statuses
<1>2. QED
  BY <1>1 DEF AsStatus, Statuses, Lifecycle

LEMMA OrderingCalls ==
  ASSUME NEW r \in Requests, NEW st \in Artifacts, Len(st.decision) = 1, NEW o \in Ordering(r, st)
  PROVE  Untouched(st, o.st) /\ Calling(r, st, o) /\ o.raised \in BOOLEAN
         /\ (Authorized(st) /\ st.order = <<>> /\ o.raised = FALSE
               => Len(o.st.order) = 1 /\ o.st.execution = st.execution)
<1>1. CASE o = Same(st) /\ (~Authorized(st) \/ st.order # <<>>)
  <2>1. o.made = <<>> /\ o.st = st /\ o.raised = FALSE
    BY <1>1 DEF Same
  <2>2. QED
    BY <2>1, <1>1 DEF Untouched, Calling
<1>2. CASE Authorized(st) /\ st.order = <<>> /\ o \in Raised(r, "submit_order", st)
  <2>1. /\ o.st = st /\ o.raised = TRUE
        /\ o.made = <<>> \/ o.made = <<Call(r, "submit_order", st, FALSE)>>
    <3>1. PICK made \in {<<>>, <<Call(r, "submit_order", st, FALSE)>>} :
             o = [st |-> st, made |-> made, raised |-> TRUE]
      BY <1>2 DEF Raised
    <3>2. QED
      BY <3>1
  <2>2. QED
    BY <2>1, <1>2 DEF Untouched, Calling, Actions
<1>3. ASSUME NEW reported, Authorized(st), st.order = <<>>, o = Bought(r, st, reported)
      PROVE Untouched(st, o.st) /\ Calling(r, st, o) /\ o.raised = FALSE /\ Len(o.st.order) = 1
            /\ o.st.execution = st.execution
  <2> DEFINE order == [supplier |-> Award(st), amount |-> Amount(Award(st), Quantity[r]), status |-> AsStatus(reported)]
             calls == Append(st.calls, "submit_order")
  <2>1. order \in Orderings
    BY AwardedIs, AsStatusIs, AmountIsInt, RequestAssumption DEF Orderings
  <2>2. calls \in Seq(Actions)
    BY DEF Actions, Artifacts
  <2> HIDE DEF order, calls
  <2>3. o = [st |-> [st EXCEPT !.calls = calls, !.order = <<order>>],
             made |-> <<Call(r, "submit_order", st, TRUE)>>, raised |-> FALSE]
    BY <1>3 DEF Bought, Recorded, order, calls, Artifacts
  <2>4. o.st \in Artifacts
    <3>1. <<order>> \in Seq(Orderings)
      BY <2>1
    <3>2. QED
      BY <3>1, <2>2, <2>3 DEF Artifacts
  <2>5. /\ o.made = <<Call(r, "submit_order", st, TRUE)>> /\ o.raised = FALSE
        /\ o.st.calls = calls /\ o.st.order = <<order>> /\ o.st.execution = st.execution
    BY <2>3 DEF Artifacts
  <2>6. Untouched(st, o.st)
    BY <2>3, <2>4 DEF Untouched, Artifacts
  <2>7. Calling(r, st, o)
    BY <2>5, <1>3 DEF Calling, Actions, calls
  <2>8. QED
    BY <2>5, <2>6, <2>7
<1>4. CASE ~Authorized(st) \/ st.order # <<>>
  BY <1>1, <1>4 DEF Ordering
<1>5. CASE Authorized(st) /\ st.order = <<>>
  <2>1. o \in Submitting(r, st)
    BY <1>5 DEF Ordering
  <2>2. CASE o \in Raised(r, "submit_order", st)
    BY <1>2, <1>5, <2>2 DEF Raised
  <2>3. CASE o \notin Raised(r, "submit_order", st)
    <3>1. PICK reported : o = Bought(r, st, reported)
      BY <2>1, <2>3 DEF Submitting
    <3>2. QED
      BY <1>3, <1>5, <3>1
  <2>4. QED
    BY <2>2, <2>3
<1>6. QED
  BY <1>4, <1>5

LEMMA TrackingCalls ==
  ASSUME NEW r \in Requests, NEW p \in Providers, NEW st \in Artifacts, Len(st.decision) = 1,
         NEW o \in Tracking(r, st, p)
  PROVE  /\ Untouched(st, o.st) /\ Calling(r, st, o) /\ o.raised \in BOOLEAN
         /\ o = [st |-> o.st, made |-> o.made, raised |-> o.raised]
<1>1. CASE st.order = <<>> \/ st.execution # <<>>
  <2>1. /\ o.made = <<>> /\ o.st = st /\ o.raised = FALSE
        /\ o = [st |-> o.st, made |-> o.made, raised |-> o.raised]
    BY <1>1 DEF Tracking, Same
  <2>2. QED
    BY <2>1 DEF Untouched, Calling
<1>2. CASE st.order # <<>> /\ st.execution = <<>>
  <2>1. o \in Asking(r, st, p)
    BY <1>2 DEF Tracking
  <2>2. CASE o \in Raised(r, "get_order_status", st)
    <3>1. PICK made \in {<<>>, <<Call(r, "get_order_status", st, FALSE)>>} :
             o = [st |-> st, made |-> made, raised |-> TRUE]
      BY <2>2 DEF Raised
    <3>2. QED
      BY <3>1, <1>2 DEF Untouched, Calling, Actions
  <2>3. CASE o \notin Raised(r, "get_order_status", st)
    <3> DEFINE report == BuildConnector(p).reports[r]
               calls == Append(st.calls, "get_order_status")
    <3>1. calls \in Seq(Actions) /\ <<report>> \in Seq(Statuses)
      BY Reports DEF Actions, Artifacts
    <3>2. o = [Recorded(r, "get_order_status", st) EXCEPT !.st.execution = <<report>>]
      BY <2>1, <2>3 DEF Asking
    <3> HIDE DEF report, calls
    <3>3. o = [st |-> [st EXCEPT !.calls = calls, !.execution = <<report>>],
               made |-> <<Call(r, "get_order_status", st, TRUE)>>, raised |-> FALSE]
      BY <3>2 DEF Recorded, calls, Artifacts
    <3>4. o.st \in Artifacts
      BY <3>1, <3>3 DEF Artifacts
    <3>5. /\ o.made = <<Call(r, "get_order_status", st, TRUE)>> /\ o.raised = FALSE
          /\ o.st.calls = calls /\ o.st.order = st.order /\ Len(o.st.execution) = 1
      BY <3>3 DEF Artifacts
    <3>6. Untouched(st, o.st)
      BY <3>3, <3>4 DEF Untouched, Artifacts
    <3>7. Calling(r, st, o)
      BY <3>5, <1>2 DEF Calling, Actions, calls
    <3>8. o = [st |-> o.st, made |-> o.made, raised |-> o.raised]
      BY <3>3
    <3>9. QED
      BY <3>5, <3>6, <3>7, <3>8
  <2>4. QED
    BY <2>2, <2>3
<1>3. QED
  BY <1>1, <1>2

(***************************************************************************)
(* A call of one request, and what it means to each.                       *)
(***************************************************************************)
LEMMA CallTyped ==
  ASSUME NEW r \in Requests, NEW st \in Artifacts, Len(st.decision) = 1, NEW o, Calling(r, st, o)
  PROVE  o.made \in Seq(Attempts) /\ Own(r, o.made)
<1>1. CASE o.made = <<>>
  BY <1>1 DEF Own
<1>2. ASSUME NEW action \in Actions, NEW answered \in BOOLEAN, o.made = <<Call(r, action, st, answered)>>
      PROVE o.made \in Seq(Attempts) /\ Own(r, o.made)
  <2>1. Call(r, action, st, answered) \in Attempts
    BY AwardedIs DEF Call, Attempts
  <2>2. Call(r, action, st, answered).request = r
    BY DEF Call
  <2>3. QED
    BY <1>2, <2>1, <2>2 DEF Own
<1>3. QED
  BY <1>1, <1>2 DEF Calling

LEMMA OthersCalls ==
  ASSUME NEW out \in Seq(Attempts), NEW made \in Seq(Attempts), NEW q,
         \A i \in DOMAIN made : made[i].request # q
  PROVE  /\ Of(q, out \o made) = Of(q, out)
         /\ \A n \in Of(q, out) : (out \o made)[n] = out[n]
         /\ Once(q, out) => Once(q, out \o made)
         /\ \A st : Good(q, st, out) => Good(q, st, out \o made)
<1>1. /\ out \o made \in Seq(Attempts) /\ DOMAIN (out \o made) = 1..(Len(out) + Len(made))
      /\ \A n \in DOMAIN out : (out \o made)[n] = out[n]
      /\ \A n \in DOMAIN (out \o made) : n \notin DOMAIN out => (out \o made)[n] = made[n - Len(out)] /\ n - Len(out) \in DOMAIN made
  OBVIOUS
<1>2. Of(q, out \o made) = Of(q, out) /\ \A n \in Of(q, out) : (out \o made)[n] = out[n]
  BY <1>1 DEF Of
<1>3. Once(q, out) => Once(q, out \o made)
  BY <1>2 DEF Once
<1>4. ASSUME NEW st, Good(q, st, out) PROVE Good(q, st, out \o made)
  <2>1. Backed(q, st, out \o made)
    BY <1>2, <1>4 DEF Good, Backed
  <2>2. AnsweredOf(q, out \o made) = AnsweredOf(q, out)
    BY <1>2 DEF AnsweredOf
  <2>3. OnRecord(q, st, out \o made)
    <3>1. PICK at \in [DOMAIN st.calls -> AnsweredOf(q, out)] :
            /\ Range(at) = AnsweredOf(q, out)
            /\ \A i, j \in DOMAIN st.calls : i < j => at[i] < at[j]
            /\ \A i \in DOMAIN st.calls : out[at[i]].action = st.calls[i]
      BY <1>4 DEF Good, OnRecord
    <3>2. \A i \in DOMAIN st.calls : (out \o made)[at[i]] = out[at[i]]
      BY <1>2, <3>1 DEF AnsweredOf
    <3>3. QED
      BY <3>1, <3>2, <2>2 DEF OnRecord
  <2>4. QED
    BY <2>1, <2>3, <1>4 DEF Good
<1>5. QED
  BY <1>2, <1>3, <1>4

LEMMA Pairs == ASSUME NEW x, NEW y PROVE Append(<<x>>, y) = <<x, y>>
<1> DEFINE s == Append(<<x>>, y)
           t == <<x, y>>
<1>1. s \in Seq({x, y}) /\ t \in Seq({x, y})
  OBVIOUS
<1>2. Len(s) = 2 /\ Len(t) = 2 /\ s[1] = t[1] /\ s[2] = t[2]
  OBVIOUS
<1> HIDE DEF s, t
<1>3. s = t
  BY <1>1, <1>2, SeqEqual
<1>4. QED
  BY <1>3 DEF s, t

LEMMA EmptyNoLength == Len(<<>>) # 1
  OBVIOUS

LEMMA TrailGrows ==
  ASSUME NEW st \in Artifacts, NEW new \in Artifacts, Trailed(st),
         NEW action \in Actions, NEW answered \in BOOLEAN,
         action = "submit_order" => st.order = <<>>,
         action # "submit_order" => st.order # <<>> /\ st.execution = <<>>,
         ~answered => new = st,
         answered => /\ new.calls = Append(st.calls, action)
                     /\ action = "submit_order" => Len(new.order) = 1 /\ new.execution = st.execution
                     /\ action # "submit_order" => new.order = st.order /\ Len(new.execution) = 1
  PROVE  Trailed(new)
<1>1. CASE ~answered
  BY <1>1
<1>2. CASE answered /\ action = "submit_order"
  <2>1. st.calls = <<>> /\ st.execution = <<>>
    BY <1>2 DEF Trailed, Trail
  <2>2. new.order # <<>>
    BY <1>2, EmptyNoLength
  <2>3. new.calls = <<"submit_order">>
    BY <1>2, <2>1
  <2>4. QED
    BY <1>2, <2>1, <2>2, <2>3 DEF Trailed, Trail
<1>3. CASE answered /\ action # "submit_order"
  <2>1. st.calls = <<"submit_order">> /\ new.order # <<>> /\ action = "get_order_status"
    BY <1>3 DEF Trailed, Trail, Actions
  <2>2. new.execution # <<>>
    BY <1>3, EmptyNoLength
  <2>3. new.calls = Append(<<"submit_order">>, "get_order_status")
    BY <1>3, <2>1
  <2>4. Append(<<"submit_order">>, "get_order_status") = <<"submit_order", "get_order_status">>
    BY Pairs
  <2>5. QED
    BY <2>1, <2>2, <2>3, <2>4 DEF Trailed, Trail
<1>4. QED
  BY <1>1, <1>2, <1>3

LEMMA OwnCall ==
  ASSUME NEW r \in Requests, NEW st \in Artifacts, NEW out \in Seq(Attempts),
         Good(r, st, out), Once(r, out), NEW o, Untouched(st, o.st), Calling(r, st, o)
  PROVE  Good(r, o.st, out \o o.made) /\ Once(r, out \o o.made)
<1>1. CASE o.made = <<>> /\ o.st = st
  BY <1>1
<1>2. ASSUME NEW action \in Actions, NEW answered \in BOOLEAN,
             o.made = <<Call(r, action, st, answered)>>,
             action = "submit_order" => Authorized(st) /\ st.order = <<>>,
             action # "submit_order" => st.order # <<>> /\ st.execution = <<>>,
             ~answered => o.st = st,
             answered => /\ o.st.calls = Append(st.calls, action)
                         /\ action = "submit_order" => Len(o.st.order) = 1 /\ o.st.execution = st.execution
                         /\ action # "submit_order" => o.st.order = st.order /\ Len(o.st.execution) = 1
      PROVE  Good(r, o.st, out \o o.made) /\ Once(r, out \o o.made)
  <2> DEFINE n == Len(out) + 1
             c == Call(r, action, st, answered)
             log == Append(out, c)
  <2>1. out \o o.made = log
    BY <1>2
  <2>2. Len(st.decision) = 1
    BY DEF Good, Vetted
  <2>3. c \in Attempts
    BY <2>2, AwardedIs DEF Call, Attempts
  <2>4. /\ c.request = r /\ c.action = action /\ c.supplier = Award(st) /\ c.answered = answered
    BY DEF Call
  <2> HIDE DEF c
  <2>5. /\ log \in Seq(Attempts) /\ DOMAIN log = DOMAIN out \cup {n} /\ log[n] = c
        /\ n \notin DOMAIN out /\ n \in Nat
        /\ \A i \in DOMAIN out : log[i] = out[i] /\ i \in Nat /\ i < n
    BY <2>3
  <2> HIDE DEF log, n
  <2>6. Of(r, log) = Of(r, out) \cup {n} /\ \A i \in Of(r, out) : log[i] = out[i] /\ i < n
    BY <2>4, <2>5 DEF Of
  <2>7. AnsweredOf(r, log) = AnsweredOf(r, out) \cup (IF answered THEN {n} ELSE {})
    BY <2>4, <2>5, <2>6 DEF AnsweredOf
  <2>8. Authorized(st)
    BY <1>2 DEF Good, Backed
  <2>9. Award(o.st) = Award(st) /\ Authorized(o.st) /\ Vetted(r, o.st)
    BY <2>8 DEF Untouched, Award, Authorized, Vetted, Verdict, Good
  <2>10. \A i \in Of(r, log) : log[i].supplier = Award(o.st)
    BY <2>4, <2>5, <2>6, <2>9 DEF Good, Backed
  <2>11. o.st.order = <<>> => \A i \in Of(r, log) : log[i].action = "submit_order" => ~log[i].answered
    <3> SUFFICES ASSUME o.st.order = <<>>, NEW i \in Of(r, log), log[i].action = "submit_order", log[i].answered
                 PROVE FALSE
      OBVIOUS
    <3>1. st.order = <<>>
      <4>1. o.st \in Artifacts
        BY DEF Untouched
      <4>2. Len(o.st.order) = 0
        BY <4>1
      <4>3. QED
        BY <1>2, <4>2
    <3>2. i = n
      BY <2>6, <3>1 DEF Good, Backed
    <3>3. answered = TRUE /\ action = "submit_order"
      BY <3>2, <2>4, <2>5
    <3>4. o.st.order # <<>>
      BY <3>3, <1>2
    <3>5. QED
      BY <3>4
  <2>12. OnRecord(r, o.st, log)
    <3>1. PICK at \in [DOMAIN st.calls -> AnsweredOf(r, out)] :
            /\ Range(at) = AnsweredOf(r, out)
            /\ \A i, j \in DOMAIN st.calls : i < j => at[i] < at[j]
            /\ \A i \in DOMAIN st.calls : out[at[i]].action = st.calls[i]
      BY DEF Good, OnRecord
    <3>2. \A i \in DOMAIN st.calls : log[at[i]] = out[at[i]] /\ at[i] < n
      BY <2>6, <3>1 DEF AnsweredOf
    <3>3. CASE ~answered
      BY <3>1, <3>2, <3>3, <2>7, <1>2 DEF OnRecord
    <3>4. CASE answered
      <4> DEFINE k == Len(st.calls) + 1
                 more == [i \in DOMAIN o.st.calls |-> IF i = k THEN n ELSE at[i]]
      <4>1. /\ DOMAIN o.st.calls = DOMAIN st.calls \cup {k} /\ o.st.calls[k] = action
            /\ k \notin DOMAIN st.calls
            /\ k \in Nat /\ \A i \in DOMAIN st.calls : o.st.calls[i] = st.calls[i] /\ i < k /\ i \in Nat
        <5>1. st.calls \in Seq(Actions)
          BY DEF Artifacts
        <5>2. o.st.calls = Append(st.calls, action)
          BY <1>2, <3>4
        <5>3. QED
          BY <5>1, <5>2
      <4> HIDE DEF k
      <4>2. more \in [DOMAIN o.st.calls -> AnsweredOf(r, log)]
        BY <4>1, <3>1, <3>4, <2>7
      <4>3. Range(more) = AnsweredOf(r, log)
        BY <4>1, <3>1, <3>4, <2>7 DEF Range
      <4>4. \A i, j \in DOMAIN o.st.calls : i < j => more[i] < more[j]
        <5> SUFFICES ASSUME NEW i \in DOMAIN o.st.calls, NEW j \in DOMAIN o.st.calls, i < j
                     PROVE more[i] < more[j]
          OBVIOUS
        <5>1. i \in DOMAIN st.calls /\ i # k
          BY <4>1
        <5>2. CASE j = k
          BY <5>1, <5>2, <3>2, <4>1
        <5>3. CASE j # k
          BY <5>1, <5>3, <3>1, <4>1
        <5>4. QED
          BY <5>2, <5>3
      <4>5. \A i \in DOMAIN o.st.calls : log[more[i]].action = o.st.calls[i]
        BY <4>1, <3>1, <3>2, <2>4, <2>5
      <4>6. QED
        BY <4>2, <4>3, <4>4, <4>5 DEF OnRecord
    <3>5. QED
      BY <3>3, <3>4
  <2>13. Once(r, log)
    <3> SUFFICES ASSUME NEW i \in Of(r, log), NEW j \in Of(r, log), log[i].action = "submit_order",
                        log[j].action = "submit_order", log[i].answered
                 PROVE  j <= i
      BY DEF Once
    <3>1. CASE i \in Of(r, out) /\ j \in Of(r, out)
      BY <3>1, <2>6 DEF Once
    <3>2. CASE i = n
      BY <3>2, <2>5, <2>6 DEF Of
    <3>3. CASE i \in Of(r, out) /\ j = n
      BY <3>3, <1>2, <2>4, <2>5, <2>6 DEF Good, Backed
    <3>4. QED
      BY <3>1, <3>2, <3>3, <2>6
  <2>14. Trailed(o.st)
    BY <1>2, TrailGrows DEF Good, Untouched
  <2>15. QED
    BY <2>1, <2>9, <2>10, <2>11, <2>12, <2>13, <2>14 DEF Good, Backed
<1>3. QED
  BY <1>1, <1>2 DEF Calling

(***************************************************************************)
(* The frame of a step: what it leaves as it was.                          *)
(***************************************************************************)
LEMMA Others ==
  ASSUME NEW q \in Requests, NEW made \in Seq(Attempts), \A i \in DOMAIN made : made[i].request # q,
         outside \in Seq(Attempts), outside' = outside \o made,
         Where(q), Once(q, outside), flight'[q] = flight[q],
         store'[q] \in {store[q], NoArtifacts}
  PROVE  Where(q)' /\ Once(q, outside)'
<1>1. /\ Of(q, outside') = Of(q, outside) /\ Once(q, outside')
      /\ \A st : Good(q, st, outside) => Good(q, st, outside')
  BY OthersCalls
<1>2. QED
  BY <1>1 DEF Where

LEMMA NoCalls ==
  ASSUME outside \in Seq(Attempts), outside' = outside
  PROVE  outside' = outside \o <<>> /\ <<>> \in Seq(Attempts)
  OBVIOUS

LEMMA GoodIsNotNothing ==
  ASSUME NEW r, NEW st, NEW out, Good(r, st, out)
  PROVE  st # NoArtifacts
<1>1. Len(NoArtifacts.decision) = 0
  BY DEF NoArtifacts
<1>2. QED
  BY <1>1 DEF Good, Vetted

LEMMA InFlight ==
  ASSUME IInv, NEW r \in Requests
  PROVE  /\ flight[r].st \in Artifacts /\ store[r] \in Artifacts /\ outside \in Seq(Attempts)
         /\ Where(r) /\ Once(r, outside) /\ faults \in Nat
  BY DEF IInv, Typed

\* A dispatch takes a step, which may call the outside.
LEMMA DispatchStep ==
  ASSUME IInv, NEW r \in Requests, NEW to \in Early \cup Late, NEW new \in Artifacts,
         NEW made \in Seq(Attempts), Own(r, made),
         Goes(r, to, new), flight[r].at # "answered", outside' = outside \o made, faults' \in Nat,
         UNCHANGED <<kept, store, memory, told>>,
         Where(r)', Once(r, outside)'
  PROVE  IInv'
<1>1. Typed'
  BY DEF IInv, Typed, Goes
<1>2. Keeping'
  BY DEF IInv, Typed, Keeping, Goes, Known, Told
<1>3. Tallied'
  BY DEF IInv, Tallied
<1>4. ASSUME NEW q \in Requests, q # r PROVE Where(q)' /\ Once(q, outside)'
  BY <1>4, Others DEF Own, IInv, Typed, Goes
<1>5. QED
  BY <1>1, <1>2, <1>3, <1>4 DEF IInv

\* The API works on what is remembered of a request.
LEMMA StoreStep ==
  ASSUME IInv, NEW r \in Requests, NEW new \in Artifacts,
         NEW made \in Seq(Attempts), Own(r, made),
         Known(r), store' = [store EXCEPT ![r] = new], outside' = outside \o made, faults' \in Nat,
         UNCHANGED <<flight, kept, memory, told>>,
         Good(r, new, outside'), Once(r, outside')
  PROVE  IInv'
<1>1. Typed'
  BY DEF IInv, Typed
<1>2. Keeping'
  BY GoodIsNotNothing DEF IInv, Typed, Keeping, Known, Told
<1>3. Tallied'
  BY DEF IInv, Tallied
<1>4. ASSUME NEW q \in Requests, q # r PROVE Where(q)' /\ Once(q, outside)'
  BY <1>4, Others DEF Own, IInv, Typed
<1>5. Where(r)'
  <2>1. flight[r].at = "answered"
    BY DEF IInv, Keeping
  <2>2. store'[r] = new
    BY DEF IInv, Typed
  <2>3. QED
    BY <2>1, <2>2, InFlight DEF Where, Early, Late
<1>6. QED
  BY <1>1, <1>2, <1>3, <1>4, <1>5 DEF IInv

LEMMA KeysStay ==
  ASSUME NEW keys \in Seq(Requests), IsInjective(keys), Len(keys) <= MaxStates, NEW r \in Requests,
         NEW keys2, keys2 = Remembered(IF r \in Range(keys) THEN keys ELSE Append(keys, r))
  PROVE  keys2 \in Seq(Requests) /\ IsInjective(keys2) /\ Len(keys2) <= MaxStates
         /\ Range(keys2) \subseteq Range(keys) \cup {r}
<1> DEFINE more == IF r \in Range(keys) THEN keys ELSE Append(keys, r)
<1>1. /\ more \in Seq(Requests) /\ IsInjective(more) /\ Len(more) <= MaxStates + 1
      /\ Range(more) \subseteq Range(keys) \cup {r}
  <2>1. CASE r \in Range(keys)
    BY <2>1, BoundsAssumption
  <2>2. CASE r \notin Range(keys)
    BY <2>2, BoundsAssumption DEF Range, IsInjective
  <2>3. QED
    BY <2>1, <2>2
<1> HIDE DEF more
<1>2. CASE Len(more) <= MaxStates
  BY <1>1, <1>2, BoundsAssumption DEF Remembered, more
<1>3. CASE Len(more) > MaxStates
  <2>1. keys2 = Tail(more) /\ Len(more) \in Nat \ {0}
    BY <1>1, <1>3, BoundsAssumption DEF Remembered, more
  <2>2. /\ keys2 \in Seq(Requests) /\ Len(keys2) = Len(more) - 1
        /\ \A i \in DOMAIN keys2 : keys2[i] = more[i + 1] /\ i + 1 \in DOMAIN more
    <3>1. more # <<>>
      BY <2>1
    <3>2. /\ keys2 \in Seq(Requests) /\ Len(keys2) = Len(more) - 1
          /\ \A i \in 1..Len(keys2) : keys2[i] = more[i + 1]
      BY <1>1, <2>1, <3>1, HeadTailProperties
    <3>3. DOMAIN keys2 = 1..Len(keys2) /\ Len(keys2) \in Nat
      BY <3>2
    <3>4. DOMAIN more = 1..Len(more) /\ Len(more) \in Nat
      BY <1>1
    <3> HIDE <2>1
    <3>5. QED
      BY <3>2, <3>3, <3>4
  <2>3. IsInjective(keys2) /\ Range(keys2) \subseteq Range(more)
    BY <1>1, <2>2 DEF IsInjective, Range
  <2>4. QED
    BY <1>1, <2>2, <2>3, BoundsAssumption
<1>4. QED
  BY <1>1, <1>2, <1>3, BoundsAssumption

\* A state is remembered, and may push another one out.
LEMMA RememberStep ==
  ASSUME IInv, NEW r \in Requests, NEW st \in Artifacts, Remember(r, st),
         flight'[r].at = "answered", Len(flight'[r].st.decision) = 1, \A q \in Requests \ {r} : flight'[q] = flight[q],
         Typed', Told' = Told, \A n \in DOMAIN told : flight[told[n].request].at = "answered",
         \A n \in DOMAIN told' : told'[n].request \in Told,
         UNCHANGED <<memory, outside>>,
         (st = NoArtifacts /\ r \in Told) \/ Good(r, st, outside)
  PROVE  IInv'
<1>1. /\ IsInjective(kept') /\ Len(kept') <= MaxStates
      /\ Range(kept') \subseteq Range(kept) \cup {r}
  BY KeysStay DEF IInv, Typed, Keeping, Remember
<1>2. \A q \in Requests : store'[q] = IF q \notin Range(kept') THEN NoArtifacts
                                       ELSE IF q = r THEN st ELSE store[q]
  BY DEF Remember
<1>3. ASSUME NEW q \in Requests
      PROVE  /\ q \in Range(kept') => flight'[q].at = "answered"
             /\ q \notin Range(kept') => store'[q] = NoArtifacts
             /\ q \in Range(kept') /\ q \notin Told => store'[q] # NoArtifacts
  <2>1. CASE q = r
    BY <2>1, <1>2, GoodIsNotNothing
  <2>2. CASE q # r
    BY <2>2, <1>1, <1>2 DEF IInv, Keeping, Known
  <2>3. QED
    BY <2>1, <2>2
<1>4. ASSUME NEW n \in DOMAIN told' PROVE flight'[told'[n].request].at = "answered"
  <2>1. PICK m \in DOMAIN told : told'[n].request = told[m].request
    BY DEF Told
  <2>2. told[m].request \in Requests
    <3>1. told \in Seq(Tellings)
      BY DEF IInv, Typed
    <3>2. told[m] \in Tellings
      BY <3>1
    <3>3. QED
      BY <3>2 DEF Tellings
  <2>3. flight[told[m].request].at = "answered"
    OBVIOUS
  <2>4. QED
    BY <2>1, <2>2, <2>3
<1>5. Keeping'
  BY <1>1, <1>3, <1>4 DEF Keeping, Known
<1>6. Tallied'
  BY DEF IInv, Tallied
<1>7. ASSUME NEW q \in Requests, q # r PROVE Where(q)' /\ Once(q, outside)'
  <2>1. outside \in Seq(Attempts) /\ outside' = outside \o <<>> /\ <<>> \in Seq(Attempts)
    BY NoCalls DEF IInv, Typed
  <2>2. Where(q) /\ Once(q, outside) /\ flight'[q] = flight[q]
    BY <1>7 DEF IInv
  <2>3. store'[q] \in {store[q], NoArtifacts}
    BY <1>2, <1>7
  <2>4. \A i \in DOMAIN <<>> : (<<>>)[i].request # q
    OBVIOUS
  <2>5. QED
    BY <2>1, <2>2, <2>3, <2>4, Others
<1>8. Where(r)' /\ Once(r, outside)'
  BY <1>2 DEF Where, Early, Late, IInv
<1>9. QED
  BY <1>5, <1>6, <1>7, <1>8 DEF IInv

(***************************************************************************)
(* The steps of a dispatch, up to the authorization.                       *)
(***************************************************************************)
\* A step that calls nothing outside.
LEMMA QuietStep ==
  ASSUME IInv, NEW r \in Requests, NEW to \in Early \cup Late, NEW new \in Artifacts,
         Goes(r, to, new), flight[r].at # "answered",
         UNCHANGED <<kept, store, memory, told, outside, faults>>,
         flight'[r] = [at |-> to, st |-> new] => Where(r)'
  PROVE  IInv'
<1>1. outside' = outside \o <<>> /\ <<>> \in Seq(Attempts)
  BY NoCalls DEF IInv, Typed
<1>2. flight'[r] = [at |-> to, st |-> new] /\ Once(r, outside)' /\ faults' \in Nat
  BY DEF Goes, IInv, Typed
<1>3. Own(r, <<>>)
  BY DEF Own
<1>4. QED
  BY <1>1, <1>2, <1>3, DispatchStep

LEMMA DispatchKeeps == ASSUME IInv, NEW r \in Requests, Dispatch(r) PROVE IInv'
<1>1. Considered(r, "unknown", flight[r].st) /\ Of(r, outside) = {} /\ flight[r].st = NoArtifacts
  BY InFlight DEF Where, Early, Dispatch, Considered
<1>2. flight'[r] = [at |-> "sourcing", st |-> NoArtifacts] => Where(r)'
  BY <1>1 DEF Where, Considered, Dispatch, Early, Late
<1>3. QED
  BY <1>2, QuietStep, NothingYet DEF Dispatch, Early

LEMMA DecideKeeps == ASSUME IInv, NEW r \in Requests, Decide(r) PROVE IInv'
<1> DEFINE st == flight[r].st
<1>1. Considered(r, "sourcing", st) /\ Of(r, outside) = {} /\ st \in Artifacts
  BY InFlight DEF Where, Early, Decide
<1>2. PICK s \in Awarded : Goes(r, "decided", [st EXCEPT !.decision = <<s>>])
  BY DEF Decide, Awarded
<1> DEFINE new == [st EXCEPT !.decision = <<s>>]
<1>3. new \in Artifacts
  <2>1. <<s>> \in Seq(Awarded)
    OBVIOUS
  <2>2. QED
    BY <1>1, <2>1 DEF Artifacts
<1>4. /\ new.decision = <<s>> /\ new.auth = st.auth /\ new.order = st.order /\ new.calls = st.calls
      /\ new.execution = st.execution
  BY <1>1 DEF Artifacts
<1>5. Considered(r, "decided", new)
  BY <1>1, <1>4 DEF Considered
<1> HIDE DEF new
<1>6. flight'[r] = [at |-> "decided", st |-> new] => Where(r)'
  BY <1>1, <1>5 DEF Where, Decide, Early, Late
<1>7. QED
  BY <1>2, <1>3, <1>6, QuietStep DEF Decide, Early, new

LEMMA ValidateKeeps == ASSUME IInv, NEW r \in Requests, Validate(r) PROVE IInv'
<1> DEFINE st == flight[r].st
           valid == Valid(Award(st))
           to == IF valid THEN "validated" ELSE "assessed"
           new == [st EXCEPT !.contract = <<valid>>]
<1>1. Considered(r, "decided", st) /\ Of(r, outside) = {} /\ st \in Artifacts
  BY InFlight DEF Where, Early, Validate
<1>2. valid \in BOOLEAN
  BY ZenonT(20) DEF Valid, Holds
<1>3. new \in Artifacts
  <2>1. <<valid>> \in Seq(BOOLEAN)
    BY <1>2
  <2> HIDE DEF valid
  <2>2. QED
    BY <1>1, <2>1 DEF Artifacts
<1>4. /\ new.decision = st.decision /\ new.auth = st.auth /\ new.order = st.order /\ new.calls = st.calls
      /\ new.execution = st.execution /\ new.contract = <<valid>>
  BY <1>1 DEF Artifacts
<1>5. Considered(r, to, new)
  <2>1. Award(new) = Award(st)
    BY <1>4 DEF Award
  <2> HIDE DEF new
  <2>2. QED
    BY <1>1, <1>4, <2>1 DEF Considered
<1> HIDE DEF new
<1>6. flight'[r] = [at |-> to, st |-> new] => Where(r)'
  <2> HIDE DEF valid
  <2>1. QED
    BY <1>1, <1>5 DEF Where, Validate, Early, Late
<1>7. Goes(r, to, new)
  BY DEF Validate, new
<1>8. to \in Early
  BY DEF Early
<1> HIDE DEF to
<1>9. QED
  BY <1>3, <1>6, <1>7, <1>8, QuietStep DEF Validate

LEMMA AssessKeeps == ASSUME IInv, NEW r \in Requests, Assess(r) PROVE IInv'
<1> DEFINE st == flight[r].st
           s == Award(st)
           history == IF s \in Suppliers THEN memory[s] ELSE NoHistory
           x == Overall(s, Quantity[r], Limit[r], history)
           new == [st EXCEPT !.risk = <<x>>]
<1>1. Considered(r, "validated", st) /\ Of(r, outside) = {} /\ st \in Artifacts
  BY InFlight DEF Where, Early, Assess
<1>2. x \in Int
  <2>1. history \in Records
    BY NothingYet DEF IInv, Typed
  <2>2. s \in Awarded
    BY <1>1, AwardedIs DEF Considered
  <2>3. Quantity[r] \in Nat /\ Limit[r] \in Nat
    BY RequestAssumption
  <2> HIDE DEF history, s
  <2>4. QED
    BY <2>1, <2>2, <2>3, OverallIsInt
<1> HIDE DEF x
<1>3. new \in Artifacts
  <2>1. <<x>> \in Seq(Int)
    BY <1>2
  <2>2. QED
    BY <1>1, <2>1 DEF Artifacts
<1>4. /\ new.decision = st.decision /\ new.auth = st.auth /\ new.order = st.order /\ new.calls = st.calls
      /\ new.execution = st.execution /\ new.contract = st.contract /\ Len(new.risk) = 1
  BY <1>1 DEF Artifacts
<1>5. Considered(r, "assessed", new)
  <2>1. Award(new) = Award(st)
    BY <1>4 DEF Award
  <2> HIDE DEF new
  <2>2. QED
    BY <1>1, <1>4, <2>1 DEF Considered
<1>6. Goes(r, "assessed", new)
  BY DEF Assess, x
<1> HIDE DEF new
<1>7. flight'[r] = [at |-> "assessed", st |-> new] => Where(r)'
  BY <1>1, <1>5 DEF Where, Assess, Early, Late
<1>8. QED
  BY <1>3, <1>6, <1>7, QuietStep DEF Assess, Early

LEMMA GovernKeeps == ASSUME IInv, NEW r \in Requests, GovernStep(r) PROVE IInv'
<1> DEFINE st == flight[r].st
           status == IF ~st.contract[1] THEN "REJECTED" ELSE Govern(Amount(Award(st), Quantity[r]), st.risk[1])
           new == [st EXCEPT !.governance = <<status>>]
<1>1. Considered(r, "assessed", st) /\ Of(r, outside) = {} /\ st \in Artifacts
  BY InFlight DEF Where, Early, GovernStep
<1>2. status = Verdict(r, st) /\ status \in Verdicts
  BY <1>1 DEF Considered, Verdict, Govern, Verdicts
<1>3. Goes(r, "governed", new)
  BY DEF GovernStep
<1> HIDE DEF status
<1>4. new \in Artifacts
  <2>1. <<status>> \in Seq(Verdicts)
    BY <1>2
  <2>2. QED
    BY <1>1, <2>1 DEF Artifacts
<1>5. /\ new.decision = st.decision /\ new.auth = st.auth /\ new.order = st.order /\ new.calls = st.calls
      /\ new.execution = st.execution /\ new.contract = st.contract /\ new.risk = st.risk
      /\ new.governance = <<status>>
  BY <1>1 DEF Artifacts
<1>6. Considered(r, "governed", new)
  <2>1. Award(new) = Award(st) /\ Verdict(r, new) = Verdict(r, st)
    BY <1>5 DEF Award, Verdict
  <2> HIDE DEF new
  <2>2. QED
    BY <1>1, <1>2, <1>5, <2>1 DEF Considered
<1> HIDE DEF new
<1>7. flight'[r] = [at |-> "governed", st |-> new] => Where(r)'
  BY <1>1, <1>6 DEF Where, GovernStep, Early, Late
<1>8. QED
  BY <1>3, <1>4, <1>7, QuietStep DEF GovernStep, Early

LEMMA NothingOnRecord ==
  ASSUME NEW r, NEW st, NEW out, st.calls = <<>>, Of(r, out) = {}
  PROVE  OnRecord(r, st, out)
<1>1. DOMAIN st.calls = {} /\ AnsweredOf(r, out) = {}
  BY DEF AnsweredOf
<1>2. [i \in {} |-> 0] \in [DOMAIN st.calls -> AnsweredOf(r, out)]
  BY <1>1
<1>3. Range([i \in {} |-> 0]) = {}
  BY DEF Range
<1>4. QED
  BY <1>1, <1>2, <1>3 DEF OnRecord

LEMMA AuthorizeKeeps == ASSUME IInv, NEW r \in Requests, Authorize(r) PROVE IInv'
<1> DEFINE st == flight[r].st
<1>1. Considered(r, "governed", st) /\ Of(r, outside) = {} /\ st \in Artifacts
  BY InFlight DEF Where, Early, Authorize
<1>2. st.governance[1] = Verdict(r, st) /\ Verdict(r, st) \in Verdicts
  BY <1>1 DEF Considered, Verdict, Govern, Verdicts
<1>3. UNCHANGED <<kept, store, memory, told, outside, faults>> /\ flight[r].at = "governed"
  BY DEF Authorize
<1>4. ASSUME NEW auth \in Seq({"pending", "authorized"}), NEW to \in {"done", "granted"},
             Goes(r, to, [st EXCEPT !.auth = auth]),
             Verdict(r, st) = "REJECTED" => auth = <<>>,
             Verdict(r, st) = "APPROVAL_REQUIRED" => auth = <<"pending">>,
             Verdict(r, st) = "APPROVED" => auth = <<"authorized">>,
             to = "granted" => auth = <<"authorized">>
      PROVE  IInv'
  <2> DEFINE new == [st EXCEPT !.auth = auth]
  <2>1. /\ new \in Artifacts /\ new.decision = st.decision /\ new.contract = st.contract
        /\ new.risk = st.risk /\ new.order = st.order /\ new.calls = st.calls /\ new.auth = auth
        /\ new.execution = st.execution
    BY <1>1 DEF Artifacts
  <2> HIDE DEF new
  <2>2. Verdict(r, new) = Verdict(r, st) /\ Award(new) = Award(st)
    BY <2>1 DEF Verdict, Award
  <2>3. Vetted(r, new)
    BY <1>1, <1>2, <1>4, <2>1, <2>2 DEF Vetted, Considered
  <2>4. new.calls = <<>> /\ new.order = <<>> /\ new.execution = <<>>
    BY <1>1, <2>1 DEF Considered
  <2>5. Good(r, new, outside)
    BY <1>1, <2>3, <2>4, NothingOnRecord DEF Good, Backed, Trailed, Trail
  <2>6. to = "granted" => Authorized(new)
    <3>1. Len(<<"authorized">>) = 1 /\ <<"authorized">>[1] = "authorized" /\ <<"authorized">> # <<>>
      OBVIOUS
    <3>2. QED
      BY <1>4, <2>1, <3>1 DEF Authorized, Last
  <2>7. flight'[r] = [at |-> to, st |-> new] => Where(r)'
    BY <1>3, <2>4, <2>5, <2>6 DEF Where, Early, Late
  <2>8. Goes(r, to, new) /\ to \in Late
    BY <1>4 DEF new, Late
  <2>9. QED
    BY <1>3, <2>1, <2>7, <2>8, QuietStep
<1>5. CASE Verdict(r, st) = "REJECTED"
  <2>1. Goes(r, "done", st)
    BY <1>2, <1>5 DEF Authorize
  <2>2. st = [st EXCEPT !.auth = <<>>]
    BY <1>1 DEF Considered, Artifacts
  <2>3. Goes(r, "done", [st EXCEPT !.auth = <<>>])
    BY <2>1, <2>2
  <2>4. <<>> \in Seq({"pending", "authorized"})
    OBVIOUS
  <2>5. QED
    BY <1>5, <2>3, <2>4, <1>4
<1>6. CASE Verdict(r, st) = "APPROVAL_REQUIRED"
  <2>1. Goes(r, "done", [st EXCEPT !.auth = <<"pending">>])
    BY <1>2, <1>6 DEF Authorize
  <2>2. <<"pending">> \in Seq({"pending", "authorized"})
    OBVIOUS
  <2>3. QED
    BY <1>6, <2>1, <2>2, <1>4
<1>7. CASE Verdict(r, st) = "APPROVED"
  <2>1. Goes(r, "granted", [st EXCEPT !.auth = <<"authorized">>])
    BY <1>2, <1>7 DEF Authorize
  <2>2. <<"authorized">> \in Seq({"pending", "authorized"})
    OBVIOUS
  <2>3. QED
    BY <1>7, <2>1, <2>2, <1>4
<1>8. QED
  BY <1>2, <1>5, <1>6, <1>7 DEF Verdicts

(***************************************************************************)
(* The steps that call a connector.                                        *)
(***************************************************************************)
LEMMA Connected ==
  ASSUME IInv, NEW r \in Requests, NEW st \in Artifacts, Good(r, st, outside), NEW o,
         Untouched(st, o.st), Calling(r, st, o), o.raised \in BOOLEAN
  PROVE  /\ o.st \in Artifacts /\ o.made \in Seq(Attempts) /\ Own(r, o.made)
         /\ Good(r, o.st, outside \o o.made) /\ Once(r, outside \o o.made)
         /\ Makes(o) => faults' \in Nat /\ outside' = outside \o o.made
<1>1. Len(st.decision) = 1 /\ outside \in Seq(Attempts) /\ Once(r, outside) /\ faults \in Nat
  BY InFlight DEF Good, Vetted
<1>2. QED
  BY <1>1, CallTyped, OwnCall DEF Untouched, Makes

LEMMA CreateOrderKeeps == ASSUME IInv, NEW r \in Requests, CreateOrder(r) PROVE IInv'
<1> DEFINE st == flight[r].st
<1>1. Good(r, st, outside) /\ st \in Artifacts /\ st.order = <<>> /\ st.execution = <<>> /\ Authorized(st)
  BY InFlight DEF Where, Late, CreateOrder
<1>2. PICK o \in Ordering(r, st) : Goes(r, IF o.raised THEN "done" ELSE "ordered", o.st) /\ Makes(o)
  BY DEF CreateOrder
<1>3. /\ Untouched(st, o.st) /\ Calling(r, st, o) /\ o.raised \in BOOLEAN
      /\ o.raised = FALSE => Len(o.st.order) = 1 /\ o.st.execution = st.execution
  BY <1>1, OrderingCalls DEF Good, Vetted
<1>4. /\ o.st \in Artifacts /\ o.made \in Seq(Attempts) /\ Own(r, o.made)
      /\ Good(r, o.st, outside') /\ Once(r, outside') /\ faults' \in Nat /\ outside' = outside \o o.made
  <2>1. outside' = outside \o o.made
    BY <1>2 DEF Makes
  <2>2. QED
    BY <1>1, <1>2, <1>3, <2>1, Connected
<1> DEFINE to == IF o.raised THEN "done" ELSE "ordered"
<1>5. to \in Late /\ flight' = [flight EXCEPT ![r] = [at |-> to, st |-> o.st]]
  BY <1>2 DEF Goes, Late
<1>6. flight'[r] = [at |-> to, st |-> o.st]
  BY <1>5 DEF IInv, Typed
<1>7. to = "ordered" => Len(o.st.order) = 1 /\ o.st.execution = <<>>
  BY <1>1, <1>3
<1>8. Where(r)' /\ Once(r, outside)'
  BY <1>4, <1>5, <1>6, <1>7 DEF Where, Early, Late
<1>9. QED
  BY <1>2, <1>4, <1>5, <1>8, DispatchStep DEF CreateOrder

LEMMA TrackKeeps == ASSUME IInv, NEW r \in Requests, Track(r) PROVE IInv'
<1> DEFINE st == flight[r].st
<1>1. Good(r, st, outside) /\ st \in Artifacts
  BY InFlight DEF Where, Late, Track
<1>2. PICK o \in Tracking(r, st, Provider) : Goes(r, "done", o.st) /\ Makes(o)
  BY DEF Track
<1>3. Untouched(st, o.st) /\ Calling(r, st, o) /\ o.raised \in BOOLEAN
  BY <1>1, TrackingCalls, ProviderAssumption DEF Good, Vetted
<1>4. /\ o.st \in Artifacts /\ o.made \in Seq(Attempts) /\ Own(r, o.made)
      /\ Good(r, o.st, outside') /\ Once(r, outside') /\ faults' \in Nat /\ outside' = outside \o o.made
  <2>1. outside' = outside \o o.made
    BY <1>2 DEF Makes
  <2>2. QED
    BY <1>1, <1>2, <1>3, <2>1, Connected
<1>5. flight'[r] = [at |-> "done", st |-> o.st]
  BY <1>2 DEF IInv, Typed, Goes
<1>6. Where(r)' /\ Once(r, outside)'
  BY <1>4, <1>5 DEF Where, Early, Late
<1>7. QED
  BY <1>2, <1>4, <1>6, DispatchStep DEF Track, Late

(***************************************************************************)
(* The steps of the API.                                                   *)
(***************************************************************************)
\* What may be approved, executed or synced has been vetted.
LEMMA StoredIsGood ==
  ASSUME IInv, NEW r \in Requests, Known(r), store[r].auth # <<>> \/ store[r].order # <<>>
  PROVE  Good(r, store[r], outside)
<1>1. flight[r].at = "answered"
  BY DEF IInv, Keeping
<1>2. NoArtifacts.auth = <<>> /\ NoArtifacts.order = <<>>
  BY DEF NoArtifacts
<1>3. QED
  BY <1>1, <1>2, InFlight DEF Where

LEMMA ApprovedIsGood ==
  ASSUME NEW r \in Requests, NEW st \in Artifacts, NEW out, Good(r, st, out)
  PROVE  Approved(st) \in Artifacts /\ Good(r, Approved(st), out)
<1>1. CASE ~Pending(st)
  BY <1>1 DEF Approved
<1>2. CASE Pending(st)
  <2> DEFINE new == Approved(st)
  <2>1. new = [st EXCEPT !.auth = Append(@, "authorized")]
    BY <1>2 DEF Approved
  <2>2. Append(st.auth, "authorized") \in Seq({"pending", "authorized"})
    BY DEF Artifacts
  <2>3. /\ new \in Artifacts /\ new.decision = st.decision /\ new.contract = st.contract
        /\ new.risk = st.risk /\ new.order = st.order /\ new.calls = st.calls
        /\ new.execution = st.execution /\ new.auth = Append(st.auth, "authorized")
    BY <2>1, <2>2 DEF Artifacts
  <2> HIDE DEF new
  <2>4. Verdict(r, new) = Verdict(r, st) /\ Award(new) = Award(st)
    BY <2>3 DEF Verdict, Award
  <2>5. /\ st.auth # <<>> /\ st.auth # <<"authorized">> /\ st.auth # <<"pending", "authorized">>
    <3>1. <<"authorized">>[Len(<<"authorized">>)] = "authorized"
      OBVIOUS
    <3>2. <<"pending", "authorized">>[Len(<<"pending", "authorized">>)] = "authorized"
      OBVIOUS
    <3>3. QED
      BY <1>2, <3>1, <3>2 DEF Pending, Last
  <2>6. Verdict(r, st) \in Verdicts
    BY DEF Verdict, Govern, Verdicts
  <2>7. Verdict(r, st) = "APPROVAL_REQUIRED" /\ st.auth = <<"pending">>
    BY <2>5, <2>6 DEF Good, Vetted, Verdicts
  <2>8. new.auth = <<"pending", "authorized">>
    <3>1. Append(<<"pending">>, "authorized") = <<"pending", "authorized">>
      BY Pairs
    <3>2. QED
      BY <2>3, <2>7, <3>1
  <2>9. Vetted(r, new)
    BY <2>3, <2>4, <2>7, <2>8 DEF Good, Vetted
  <2>10. ~Authorized(st)
    BY <1>2 DEF Pending, Authorized
  <2>11. Backed(r, new, out) /\ OnRecord(r, new, out) /\ Trailed(new)
    BY <2>3, <2>4, <2>10 DEF Good, Backed, OnRecord, Trailed, Trail
  <2>12. QED
    BY <2>3, <2>9, <2>11 DEF Good, new
<1>3. QED
  BY <1>1, <1>2

LEMMA ApproveKeeps == ASSUME IInv, NEW r \in Requests, Approve(r) PROVE IInv'
<1>1. store[r] \in Artifacts /\ Good(r, store[r], outside) /\ Once(r, outside) /\ faults \in Nat
  BY InFlight, StoredIsGood DEF Approve, Pending
<1>2. /\ store' = [store EXCEPT ![r] = Approved(store[r])] /\ Known(r)
      /\ UNCHANGED <<flight, kept, memory, told, outside, faults>>
  BY DEF Approve
<1>3. Approved(store[r]) \in Artifacts /\ Good(r, Approved(store[r]), outside')
  BY <1>1, <1>2, ApprovedIsGood
<1>4. outside' = outside \o <<>> /\ <<>> \in Seq(Attempts)
  BY <1>2, NoCalls, InFlight
<1>5. Own(r, <<>>)
  BY DEF Own
<1>6. Once(r, outside)' /\ faults' \in Nat
  BY <1>1, <1>2
<1>7. QED
  BY <1>2, <1>3, <1>4, <1>5, <1>6, StoreStep

LEMMA SyncDoes ==
  ASSUME IInv, NEW r \in Requests, Sync(r)
  PROVE  \E new \in Artifacts, made \in Seq(Attempts) :
            /\ Own(r, made) /\ store' = [store EXCEPT ![r] = new] /\ outside' = outside \o made
            /\ Good(r, new, outside') /\ Once(r, outside') /\ faults' \in Nat
<1> DEFINE st == store[r]
<1>1. st \in Artifacts /\ Good(r, st, outside) /\ Known(r)
  BY InFlight, StoredIsGood DEF Sync
<1>2. PICK p \in Providers : \E o \in Tracking(r, st, p) : store' = [store EXCEPT ![r] = o.st] /\ Makes(o)
  BY ProviderAssumption DEF Sync
<1>3. PICK o \in Tracking(r, st, p) : store' = [store EXCEPT ![r] = o.st] /\ Makes(o)
  BY <1>2
<1>4. Untouched(st, o.st) /\ Calling(r, st, o) /\ o.raised \in BOOLEAN
  BY <1>1, TrackingCalls DEF Good, Vetted
<1>5. /\ o.st \in Artifacts /\ o.made \in Seq(Attempts) /\ Own(r, o.made)
      /\ Good(r, o.st, outside') /\ Once(r, outside') /\ faults' \in Nat /\ outside' = outside \o o.made
  <2>1. outside' = outside \o o.made
    BY <1>3 DEF Makes
  <2>2. QED
    BY <1>1, <1>3, <1>4, <2>1, Connected
<1>6. QED
  BY <1>3, <1>5

LEMMA SyncKeeps == ASSUME IInv, NEW r \in Requests, Sync(r) PROVE IInv'
<1>1. Once(r, outside)'
  BY SyncDoes
<1>2. QED
  BY <1>1, SyncDoes, StoreStep DEF Sync

LEMMA Joined ==
  ASSUME NEW r, NEW a \in Seq(Attempts), NEW b \in Seq(Attempts), Own(r, a), Own(r, b)
  PROVE  Own(r, a \o b)
<1>1. ASSUME NEW i \in DOMAIN (a \o b) PROVE (a \o b)[i].request = r
  <2>1. i \in 1..(Len(a) + Len(b))
    OBVIOUS
  <2>2. CASE i <= Len(a)
    <3>1. (a \o b)[i] = a[i] /\ i \in DOMAIN a
      BY <2>1, <2>2
    <3>2. QED
      BY <3>1 DEF Own
  <2>3. CASE i > Len(a)
    <3>1. (a \o b)[i] = b[i - Len(a)] /\ i - Len(a) \in DOMAIN b
      BY <2>1, <2>3
    <3>2. QED
      BY <3>1 DEF Own
  <2>4. QED
    BY <2>1, <2>2, <2>3
<1>2. QED
  BY <1>1 DEF Own

LEMMA ExecuteDoes ==
  ASSUME IInv, NEW r \in Requests, Execute(r)
  PROVE  \E new \in Artifacts, made \in Seq(Attempts) :
            /\ Own(r, made) /\ store' = [store EXCEPT ![r] = new] /\ outside' = outside \o made
            /\ Good(r, new, outside') /\ Once(r, outside') /\ faults' \in Nat
<1> DEFINE st == Approved(store[r])
<1>1. st \in Artifacts /\ Good(r, st, outside) /\ Known(r)
  BY InFlight, StoredIsGood, ApprovedIsGood DEF Execute
<1>2. PICK o \in Ordering(r, st) :
        IF o.raised THEN store' = [store EXCEPT ![r] = o.st] /\ Makes(o)
        ELSE \E t \in Tracking(r, o.st, Provider) :
                /\ store' = [store EXCEPT ![r] = t.st]
                /\ Makes([t EXCEPT !.made = o.made \o @])
  BY DEF Execute
<1>3. Untouched(st, o.st) /\ Calling(r, st, o) /\ o.raised \in BOOLEAN
  BY <1>1, OrderingCalls DEF Good, Vetted
<1>4. /\ o.st \in Artifacts /\ o.made \in Seq(Attempts) /\ Own(r, o.made)
      /\ Good(r, o.st, outside \o o.made) /\ Once(r, outside \o o.made)
      /\ Makes(o) => faults' \in Nat /\ outside' = outside \o o.made
  BY <1>1, <1>3, Connected
<1>5. CASE o.raised
  <2>1. store' = [store EXCEPT ![r] = o.st] /\ Makes(o)
    BY <1>2, <1>5
  <2>2. Good(r, o.st, outside') /\ Once(r, outside') /\ faults' \in Nat /\ outside' = outside \o o.made
    BY <1>4, <2>1
  <2>3. QED
    BY <1>4, <2>1, <2>2
<1>6. CASE ~o.raised
  <2>1. PICK t \in Tracking(r, o.st, Provider) :
           /\ store' = [store EXCEPT ![r] = t.st]
           /\ Makes([t EXCEPT !.made = o.made \o @])
    BY <1>2, <1>6
  <2>2. Len(o.st.decision) = 1
    BY <1>4 DEF Good, Vetted
  <2>3. Untouched(o.st, t.st) /\ Calling(r, o.st, t) /\ t.raised \in BOOLEAN
        /\ t = [st |-> t.st, made |-> t.made, raised |-> t.raised]
    BY <1>4, <2>2, TrackingCalls, ProviderAssumption
  <2>4. t.made \in Seq(Attempts) /\ Own(r, t.made)
    BY <1>4, <2>2, <2>3, CallTyped
  <2>5. outside \in Seq(Attempts) /\ outside \o o.made \in Seq(Attempts) /\ faults \in Nat
    BY <1>4, InFlight
  <2>6. t.st \in Artifacts /\ Good(r, t.st, (outside \o o.made) \o t.made) /\ Once(r, (outside \o o.made) \o t.made)
    BY <1>4, <2>3, <2>5, OwnCall DEF Untouched
  <2> DEFINE made == o.made \o t.made
  <2>7. /\ made \in Seq(Attempts) /\ Own(r, made)
        /\ (outside \o o.made) \o t.made = outside \o made
    <3>1. outside \in Seq(Attempts) /\ o.made \in Seq(Attempts) /\ t.made \in Seq(Attempts)
      BY <1>4, <2>4, <2>5
    <3>2. /\ Own(r, o.made)
          /\ Own(r, t.made)
      BY <1>4, <2>4
    <3> DEFINE a == o.made
               b == t.made
    <3> HIDE DEF a, b
    <3>3. outside \in Seq(Attempts) /\ a \in Seq(Attempts) /\ b \in Seq(Attempts) /\ Own(r, a) /\ Own(r, b)
      BY <3>1, <3>2 DEF a, b
    <3>4. /\ a \o b \in Seq(Attempts) /\ Own(r, a \o b)
          /\ (outside \o a) \o b = outside \o (a \o b)
      <4>1. Own(r, a \o b)
        BY <3>3, Joined
      <4>2. (outside \o a) \o b = outside \o (a \o b)
        BY <3>3, ConcatAssociative
      <4>3. QED
        BY <3>3, <4>1, <4>2
    <3>5. QED
      BY <3>4 DEF a, b
  <2>8. outside' = outside \o made /\ faults' \in Nat
    <3> DEFINE u == [t EXCEPT !.made = o.made \o @]
    <3>1. Makes(u)
      BY <2>1
    <3>2. u.made = made
      BY <2>3
    <3> HIDE DEF u, made
    <3>3. QED
      BY <3>1, <3>2, <2>5 DEF Makes
  <2> HIDE DEF made
  <2>9. Good(r, t.st, outside') /\ Once(r, outside')
    BY <2>6, <2>7, <2>8
  <2>10. QED
    BY <2>1, <2>6, <2>7, <2>8, <2>9
<1>7. QED
  BY <1>5, <1>6

LEMMA ExecuteKeeps == ASSUME IInv, NEW r \in Requests, Execute(r) PROVE IInv'
<1>1. Once(r, outside)'
  BY ExecuteDoes
<1>2. QED
  BY <1>1, ExecuteDoes, StoreStep DEF Execute

\* Of a request the outcome of which is told, nothing is claimed that was.
LEMMA ToldStep ==
  ASSUME IInv, told' \in Seq(Tellings), Told' \subseteq Requests, Told \subseteq Told',
         \A r \in Told' : flight[r].at = "answered",
         memory' \in [Suppliers -> Records], Tallied',
         UNCHANGED <<flight, kept, store, outside, faults>>
  PROVE  IInv'
<1>1. Typed'
  BY DEF IInv, Typed
<1>2. \A n \in DOMAIN told' : told'[n].request \in Told'
  BY DEF Told
<1>3. Keeping'
  BY <1>2 DEF IInv, Keeping, Known
<1>4. \A r \in Requests : Where(r)' /\ Once(r, outside)'
  BY DEF IInv, Where
<1>5. QED
  BY <1>1, <1>3, <1>4 DEF IInv

LEMMA Tellers ==
  ASSUME IInv
  PROVE  /\ told \in Seq(Tellings) /\ Told \subseteq Requests
         /\ \A r \in Told : flight[r].at = "answered"
<1>1. told \in Seq(Tellings)
  BY DEF IInv, Typed
<1>2. \A n \in DOMAIN told : told[n] \in Tellings
  BY <1>1
<1>3. QED
  BY <1>1, <1>2 DEF Told, Tellings, IInv, Keeping

LEMMA TellKeeps == ASSUME IInv, NEW r \in Requests, Tell(r) PROVE IInv'
<1>1. PICK o \in Outcomes : told' = Append(told, [request |-> r, outcome |-> o, at |-> "told"])
  BY DEF Tell
<1> DEFINE t == [request |-> r, outcome |-> o, at |-> "told"]
<1>2. t \in Tellings /\ t.request = r
  BY DEF Tellings
<1> HIDE DEF t
<1>3. /\ told' \in Seq(Tellings) /\ DOMAIN told' = DOMAIN told \cup {Len(told) + 1}
      /\ \A n \in DOMAIN told : told'[n] = told[n]
      /\ told'[Len(told) + 1] = t
  BY <1>1, <1>2, Tellers DEF t
<1>4. Told' = Told \cup {r}
  BY <1>2, <1>3 DEF Told
<1>5. flight[r].at = "answered"
  BY DEF Tell, IInv, Keeping
<1>6. memory' \in [Suppliers -> Records] /\ Tallied'
  BY DEF Tell, IInv, Typed, Tallied
<1>7. QED
  BY <1>3, <1>4, <1>5, <1>6, Tellers, ToldStep DEF Tell

LEMMA Onward ==
  ASSUME IInv, NEW n \in DOMAIN told, NEW at \in {"told", "recorded", "folded", "answered"},
         told' = [told EXCEPT ![n].at = at]
  PROVE  /\ told' \in Seq(Tellings) /\ Told' = Told
         /\ \A m \in DOMAIN told' : told'[m].request \in Told
<1>1. told \in Seq(Tellings)
  BY Tellers
<1>2. told[n] \in Tellings
  BY <1>1
<1> DEFINE t == [told[n] EXCEPT !.at = at]
<1>3. t \in Tellings /\ t.request = told[n].request
  BY <1>2 DEF Tellings
<1>4. told' = [told EXCEPT ![n] = t]
  OBVIOUS
<1> HIDE DEF t
<1>5. told' \in Seq(Tellings) /\ DOMAIN told' = DOMAIN told
  BY <1>1, <1>3, <1>4
<1>6. \A m \in DOMAIN told : told'[m].request = told[m].request
  BY <1>3, <1>4
<1>7. Told' = Told
  BY <1>5, <1>6 DEF Told
<1>8. QED
  BY <1>5, <1>6, <1>7 DEF Told

LEMMA RecordKeeps == ASSUME IInv, NEW n \in DOMAIN told, Record(n) PROVE IInv'
<1>1. told' \in Seq(Tellings) /\ Told' = Told
  BY Onward DEF Record
<1>2. memory' \in [Suppliers -> Records] /\ Tallied'
  BY DEF Record, IInv, Typed, Tallied
<1>3. QED
  BY <1>1, <1>2, Tellers, ToldStep DEF Record

LEMMA FoldKeeps == ASSUME IInv, NEW n \in DOMAIN told, Fold(n) PROVE IInv'
<1> DEFINE o == told[n].outcome
           p == memory[o.supplier]
           new == Folded(p, o, 0)
<1>1. told' \in Seq(Tellings) /\ Told' = Told
  BY Onward DEF Fold
<1>2. o \in [supplier : Suppliers, onTime : BOOLEAN, quality : 0..100, price : Nat \ {0}]
  <2>1. told \in Seq(Tellings)
    BY Tellers
  <2>2. told[n] \in Tellings
    BY <2>1
  <2>3. QED
    BY <2>2, RequestAssumption DEF Tellings
<1> HIDE DEF o
<1>3. memory' = [memory EXCEPT ![o.supplier] = new] /\ memory \in [Suppliers -> Records]
  BY DEF Fold, IInv, Typed, o
<1>4. p \in Records /\ p.onTime <= p.orders /\ p.quality <= 100 * p.orders
  BY <1>2, <1>3 DEF IInv, Tallied
<1> HIDE DEF p
<1>5. /\ new.orders = p.orders + 1 /\ new.onTime = p.onTime + (IF o.onTime THEN 1 ELSE 0)
      /\ new.quality = p.quality + o.quality /\ new.price = p.price + 100
      /\ new = [orders |-> new.orders, onTime |-> new.onTime, quality |-> new.quality, price |-> new.price]
  BY DEF Folded, Competitiveness
<1> HIDE DEF new
<1>6. new \in Records /\ new.onTime <= new.orders /\ new.quality <= 100 * new.orders
  <2>1. o.quality \in 0..100
    BY <1>2
  <2>2. p.orders \in Nat /\ p.onTime \in Nat /\ p.quality \in Nat /\ p.price \in Nat
    BY <1>4 DEF Records
  <2>3. new.orders \in Nat /\ new.onTime \in Nat /\ new.quality \in Nat /\ new.price \in Nat
    BY <1>5, <2>1, <2>2
  <2>4. new.onTime <= new.orders /\ new.quality <= 100 * new.orders
    BY <1>4, <1>5, <2>1, <2>2
  <2>5. QED
    BY <1>5, <2>3, <2>4 DEF Records
<1>7. memory' \in [Suppliers -> Records] /\ Tallied'
  BY <1>2, <1>3, <1>6 DEF IInv, Tallied
<1>8. QED
  BY <1>1, <1>7, Tellers, ToldStep DEF Fold

LEMMA ReplaceKeeps == ASSUME IInv, NEW n \in DOMAIN told, Replace(n) PROVE IInv'
<1> DEFINE r == told[n].request
<1>1. told' \in Seq(Tellings) /\ Told' = Told /\ \A m \in DOMAIN told' : told'[m].request \in Told
  BY Onward DEF Replace
<1>2. r \in Told /\ r \in Requests /\ flight[r].at = "answered" /\ Len(flight[r].st.decision) = 1
  <2>1. r \in Told /\ r \in Requests /\ flight[r].at = "answered"
    BY Tellers DEF Told
  <2>2. QED
    BY <2>1, InFlight DEF Where
<1>3. Remember(r, NoArtifacts) /\ UNCHANGED <<flight, memory, outside, faults>>
  BY DEF Replace
<1> HIDE DEF r
<1>4. kept' \in Seq(Requests)
  BY <1>2, <1>3, KeysStay DEF Remember, IInv, Typed, Keeping
<1>5. store' \in [Requests -> Artifacts]
  BY <1>3, NothingYet DEF Remember, IInv, Typed
<1>6. Typed'
  BY <1>1, <1>3, <1>4, <1>5 DEF IInv, Typed
<1>7. \A m \in DOMAIN told : flight[told[m].request].at = "answered"
  BY DEF IInv, Keeping
<1>8. QED
  BY <1>1, <1>2, <1>3, <1>6, <1>7, NothingYet, RememberStep

LEMMA FinishKeeps == ASSUME IInv, NEW r \in Requests, Finish(r) PROVE IInv'
<1> DEFINE st == flight[r].st
<1>1. Good(r, st, outside) /\ st \in Artifacts
  BY InFlight DEF Where, Late, Finish
<1>2. /\ flight' = [flight EXCEPT ![r] = [at |-> "answered", st |-> st]] /\ Remember(r, st)
      /\ UNCHANGED <<memory, told, outside, faults>>
  BY DEF Finish, Goes
<1>3. kept' \in Seq(Requests)
  BY <1>2, KeysStay DEF Remember, IInv, Typed, Keeping
<1>4. store' \in [Requests -> Artifacts]
  BY <1>1, <1>2, NothingYet DEF Remember, IInv, Typed
<1>5. Typed'
  BY <1>1, <1>2, <1>3, <1>4 DEF IInv, Typed
<1>6. Told' = Told /\ \A n \in DOMAIN told' : told'[n].request \in Told
  BY <1>2 DEF Told
<1>7. \A n \in DOMAIN told : flight[told[n].request].at = "answered"
  BY DEF IInv, Keeping
<1>8. /\ flight'[r].at = "answered" /\ Len(flight'[r].st.decision) = 1
      /\ \A q \in Requests \ {r} : flight'[q] = flight[q]
  BY <1>1, <1>2 DEF IInv, Typed, Good, Vetted
<1>9. QED
  BY <1>1, <1>2, <1>5, <1>6, <1>7, <1>8, RememberStep

(***************************************************************************)
(* The invariant is inductive.                                             *)
(***************************************************************************)
LEMMA InitEstablishes == Init => IInv
<1> SUFFICES ASSUME Init PROVE IInv
  OBVIOUS
<1>1. Typed
  BY NothingYet DEF Init, Typed, Early
<1>2. Keeping
  BY BoundsAssumption DEF Init, Keeping, Known, Told, IsInjective, Range
<1>3. Tallied
  <2>1. NoHistory.onTime = 0 /\ NoHistory.orders = 0 /\ NoHistory.quality = 0
    BY DEF NoHistory
  <2>2. \A s \in Suppliers : memory[s].onTime = 0 /\ memory[s].orders = 0 /\ memory[s].quality = 0
    BY <2>1 DEF Init
  <2>3. ASSUME NEW s \in Suppliers
        PROVE  memory[s].onTime <= memory[s].orders /\ memory[s].quality <= 100 * memory[s].orders
    <3>1. 0 <= 0 /\ 100 * 0 = 0
      OBVIOUS
    <3>2. QED
      BY <2>2, <3>1
  <2>4. QED
    BY <2>3 DEF Tallied
<1>4. ASSUME NEW r \in Requests PROVE Where(r) /\ Once(r, outside)
  <2>1. Of(r, outside) = {} /\ flight[r] = [at |-> "unknown", st |-> NoArtifacts]
    BY DEF Init, Of
  <2>2. Considered(r, "unknown", NoArtifacts)
    BY DEF Considered, NoArtifacts
  <2>3. QED
    BY <2>1, <2>2 DEF Where, Once, Early, Late
<1>5. QED
  BY <1>1, <1>2, <1>3, <1>4 DEF IInv

LEMMA NextKeeps == IInv /\ [Next]_vars => IInv'
<1> SUFFICES ASSUME IInv, [Next]_vars PROVE IInv'
  OBVIOUS
<1>1. ASSUME NEW r \in Requests, Dispatch(r) PROVE IInv'
  BY <1>1, DispatchKeeps
<1>2. ASSUME NEW r \in Requests, Decide(r) PROVE IInv'
  BY <1>2, DecideKeeps
<1>3. ASSUME NEW r \in Requests, Validate(r) PROVE IInv'
  BY <1>3, ValidateKeeps
<1>4. ASSUME NEW r \in Requests, Assess(r) PROVE IInv'
  BY <1>4, AssessKeeps
<1>5. ASSUME NEW r \in Requests, GovernStep(r) PROVE IInv'
  BY <1>5, GovernKeeps
<1>6. ASSUME NEW r \in Requests, Authorize(r) PROVE IInv'
  BY <1>6, AuthorizeKeeps
<1>7. ASSUME NEW r \in Requests, CreateOrder(r) PROVE IInv'
  BY <1>7, CreateOrderKeeps
<1>8. ASSUME NEW r \in Requests, Track(r) PROVE IInv'
  BY <1>8, TrackKeeps
<1>9. ASSUME NEW r \in Requests, Finish(r) PROVE IInv'
  BY <1>9, FinishKeeps
<1>10. ASSUME NEW r \in Requests, Approve(r) PROVE IInv'
  BY <1>10, ApproveKeeps
<1>11. ASSUME NEW r \in Requests, Execute(r) PROVE IInv'
  BY <1>11, ExecuteKeeps
<1>12. ASSUME NEW r \in Requests, Sync(r) PROVE IInv'
  BY <1>12, SyncKeeps
<1>13. ASSUME NEW r \in Requests, Tell(r) PROVE IInv'
  BY <1>13, TellKeeps
<1>14. ASSUME NEW n \in DOMAIN told, Record(n) PROVE IInv'
  BY <1>14, RecordKeeps
<1>15. ASSUME NEW n \in DOMAIN told, Fold(n) PROVE IInv'
  BY <1>15, FoldKeeps
<1>16. ASSUME NEW n \in DOMAIN told, Replace(n) PROVE IInv'
  BY <1>16, ReplaceKeeps
<1>17. CASE UNCHANGED vars
  BY <1>17 DEF vars, IInv, Typed, Keeping, Known, Told, Tallied, Where
<1>18. QED
  BY <1>1, <1>2, <1>3, <1>4, <1>5, <1>6, <1>7, <1>8, <1>9, <1>10, <1>11, <1>12, <1>13, <1>14, <1>15,
     <1>16, <1>17 DEF Next, Serve, Ask

LEMMA Inductive == Spec => []IInv
<1>1. QED
  BY InitEstablishes, NextKeeps, PTL DEF Spec

(***************************************************************************)
(* What follows from it.                                                   *)
(***************************************************************************)
\* The state of an intact request whose order went out is a vetted one.
LEMMA StateIsGood ==
  ASSUME IInv, NEW r \in Requests, Intact(r), flight[r].at \notin Early
  PROVE  Good(r, State(r), outside) /\ State(r) \in Artifacts
<1>1. CASE flight[r].at = "answered"
  <2>1. store[r] # NoArtifacts
    BY <1>1 DEF Intact, IInv, Keeping
  <2>2. QED
    BY <1>1, <2>1, InFlight DEF Where, State
<1>2. CASE flight[r].at # "answered"
  <2>1. flight[r].at \in Late
    BY <1>2 DEF IInv, Typed
  <2>2. QED
    BY <1>2, <2>1, InFlight DEF Where, State
<1>3. QED
  BY <1>1, <1>2

\* The dispatches put what they should, the states remembered are few and those
\* of requests that were answered, and the record of a supplier adds up.
THEOREM TypeCorrect == Spec => []TypeOK
<1>1. IInv => TypeOK
  <2> SUFFICES ASSUME IInv PROVE TypeOK
    OBVIOUS
  <2>1. ASSUME NEW r \in Requests
        PROVE  LET st == flight[r].st IN
               /\ flight[r].at \in {"unknown", "sourcing", "decided", "validated", "assessed", "governed",
                                    "granted", "ordered", "done", "answered"}
               /\ flight[r].at = "granted" => st.order = <<>> /\ Authorized(st)
               /\ flight[r].at = "ordered" => Len(st.order) = 1 /\ st.execution = <<>>
    BY DEF IInv, Typed, Where, Early, Late
  <2>2. ASSUME NEW r \in Requests
        PROVE  (flight[r].st.decision = <<>>) <=> (flight[r].at \in {"unknown", "sourcing"})
    <3>1. Len(<<>>) = 0 /\ NoArtifacts.decision = <<>>
      BY DEF NoArtifacts
    <3>2. CASE flight[r].at \in Early
      <4>1. Considered(r, flight[r].at, flight[r].st)
        BY <3>2, InFlight DEF Where
      <4>2. QED
        BY <4>1, <3>1 DEF Considered
    <3>3. CASE flight[r].at \in Late
      <4>1. Len(flight[r].st.decision) = 1
        BY <3>3, InFlight DEF Where, Good, Vetted
      <4>2. QED
        BY <4>1, <3>1, <3>3 DEF Late
    <3>4. CASE flight[r].at = "answered"
      <4>1. Len(flight[r].st.decision) = 1
        BY <3>4, InFlight DEF Where
      <4>2. flight[r].st.decision # <<>>
        <5>1. flight[r].st.decision \in Seq(Awarded)
          BY InFlight DEF Artifacts
        <5>2. QED
          BY <4>1, <5>1
      <4>3. flight[r].at \notin {"unknown", "sourcing"}
        BY <3>4
      <4>4. QED
        BY <4>2, <4>3
    <3>5. QED
      BY <3>2, <3>3, <3>4 DEF IInv, Typed
  <2>3. QED
    BY <2>1, <2>2 DEF TypeOK, IInv, Keeping, Tallied
<1>2. QED
  BY <1>1, Inductive, PTL

\* Whatever the order of dispatches, approvals, retries and answers, what
\* reached a supplier was vetted, and approved where the policy asks for it.
THEOREM NoUnvettedOrder == Spec => []OrdersVetted
<1>1. IInv => OrdersVetted
  <2> SUFFICES ASSUME IInv, NEW r \in Requests, Intact(r), Placed(r) # {}
               PROVE  LET st == State(r)
                          amount == Amount(Award(st), Quantity[r])
                      IN  /\ Valid(Award(st)) /\ ~Intolerable(st.risk[1])
                          /\ NeedsApproval(amount, st.risk[1]) => st.auth = <<"pending", "authorized">>
                          /\ \A n \in Placed(r) : outside[n].supplier = Award(st)
    BY DEF OrdersVetted
  <2> DEFINE st == State(r)
  <2>1. Placed(r) \subseteq Of(r, outside) /\ Of(r, outside) # {}
    BY DEF Placed, Calls, Of
  <2>2. flight[r].at \notin Early
    BY <2>1, InFlight DEF Where
  <2>3. Good(r, st, outside)
    BY <2>2, StateIsGood
  <2> HIDE DEF st
  <2>4. Authorized(st) /\ \A n \in Placed(r) : outside[n].supplier = Award(st)
    BY <2>1, <2>3 DEF Good, Backed
  <2>5. st.auth # <<>> /\ st.auth # <<"pending">>
    <3>1. <<"pending">>[Len(<<"pending">>)] = "pending"
      OBVIOUS
    <3>2. QED
      BY <2>4, <3>1 DEF Authorized, Last
  <2>6. Verdict(r, st) # "REJECTED" /\ Verdict(r, st) = "APPROVAL_REQUIRED" => st.auth = <<"pending", "authorized">>
    BY <2>3, <2>5 DEF Good, Vetted
  <2>7. Verdict(r, st) # "REJECTED"
    BY <2>3, <2>5 DEF Good, Vetted
  <2>8. Valid(Award(st)) /\ ~Intolerable(st.risk[1])
    BY <2>7 DEF Verdict, Govern
  <2>9. NeedsApproval(Amount(Award(st), Quantity[r]), st.risk[1]) => st.auth = <<"pending", "authorized">>
    BY <2>6, <2>7, <2>8 DEF Verdict, Govern
  <2>10. QED
    BY <2>4, <2>8, <2>9 DEF st
<1>2. QED
  BY <1>1, Inductive, PTL

LEMMA AnsweredIffOrdered ==
  ASSUME NEW r, NEW st, NEW out, Good(r, st, out)
  PROVE  st.order # <<>> <=> \E n \in Of(r, out) : out[n].action = "submit_order" /\ out[n].answered
<1>1. CASE st.order = <<>>
  BY <1>1 DEF Good, Backed
<1>2. CASE st.order # <<>>
  <2>1. 1 \in DOMAIN st.calls /\ st.calls[1] = "submit_order"
    <3>1. st.calls \in {<<"submit_order">>, <<"submit_order", "get_order_status">>}
      BY <1>2 DEF Good, Trailed, Trail
    <3>2. QED
      BY <3>1
  <2>2. \E n \in AnsweredOf(r, out) : out[n].action = "submit_order"
    BY <2>1 DEF Good, OnRecord
  <2>3. QED
    BY <1>2, <2>2 DEF AnsweredOf
<1>3. QED
  BY <1>1, <1>2

\* However often execute is called, an order is placed again only if the one
\* before had no answer, and an order is on record exactly if one had.
THEOREM NoSecondOrder == Spec => []PlacedAgainIfLost
<1>1. IInv => PlacedAgainIfLost
  <2> SUFFICES ASSUME IInv, NEW r \in Requests
               PROVE  /\ \A m, n \in Placed(r) : m < n => ~outside[m].answered
                      /\ Intact(r) => (State(r).order # <<>> <=> \E n \in Placed(r) : outside[n].answered)
    BY DEF PlacedAgainIfLost
  <2>1. Once(r, outside) /\ outside \in Seq(Attempts)
    BY InFlight
  <2>2. /\ Placed(r) \subseteq Of(r, outside) /\ Placed(r) \subseteq Nat
        /\ \A n \in Of(r, outside) : n \in Placed(r) <=> outside[n].action = "submit_order"
    BY <2>1 DEF Placed, Calls, Of
  <2>3. \A m, n \in Placed(r) : m < n => ~outside[m].answered
    BY <2>1, <2>2 DEF Once
  <2>4. ASSUME Intact(r) PROVE State(r).order # <<>> <=> \E n \in Placed(r) : outside[n].answered
    <3>1. CASE flight[r].at \in Early
      <4>1. State(r).order = <<>> /\ Of(r, outside) = {}
        BY <3>1, InFlight DEF Where, State, Considered, Early
      <4>2. QED
        BY <2>2, <4>1
    <3>2. CASE flight[r].at \notin Early
      <4>1. Good(r, State(r), outside)
        BY <2>4, <3>2, StateIsGood
      <4>2. QED
        BY <2>2, <4>1, AnsweredIffOrdered
    <3>3. QED
      BY <3>1, <3>2
  <2>5. QED
    BY <2>3, <2>4
<1>2. QED
  BY <1>1, Inductive, PTL

\* The calls on record are those the systems outside answered, in their order,
\* and agree with the order and the status the swarm has.
THEOREM EveryAnswerRecorded == Spec => []Audited
<1>1. IInv => Audited
  <2> SUFFICES ASSUME IInv, NEW r \in Requests, Intact(r)
               PROVE  Recording(r) /\ State(r).calls = Trail(State(r))
    BY DEF Audited
  <2>1. Answered(r) = AnsweredOf(r, outside)
    BY DEF Answered, Calls, AnsweredOf, Of
  <2>2. OnRecord(r, State(r), outside) /\ State(r).calls = Trail(State(r))
    <3>1. CASE flight[r].at \in Early
      <4>1. State(r).calls = <<>> /\ State(r).order = <<>> /\ Of(r, outside) = {}
        BY <3>1, InFlight DEF Where, State, Considered, Early
      <4>2. QED
        BY <4>1, NothingOnRecord DEF Trail
    <3>2. CASE flight[r].at \notin Early
      BY <3>2, StateIsGood DEF Good, Trailed
    <3>3. QED
      BY <3>1, <3>2
  <2>3. QED
    BY <2>1, <2>2 DEF Recording, OnRecord
<1>2. QED
  BY <1>1, Inductive, PTL

(***************************************************************************)
(* A settled order is left alone.                                          *)
(***************************************************************************)
\* A step on another request changes neither the calls of this one nor, but
\* for making room, what is remembered of it.
LEMMA OthersLeave ==
  ASSUME NEW q \in Requests, NEW made \in Seq(Attempts), NEW r, Own(r, made), r # q,
         outside \in Seq(Attempts), outside' = outside \o made
  PROVE  Calls(q)' = Calls(q)
<1>1. \A i \in DOMAIN made : made[i].request # q
  BY DEF Own
<1>2. Of(q, outside') = Of(q, outside)
  BY <1>1, OthersCalls
<1>3. QED
  BY <1>2 DEF Of, Calls

\* With order and status on record no call of the API reaches the supplier
\* again, or changes either.
THEOREM SettledStays == Spec => Idempotent
<1>1. IInv /\ [Next]_vars => [\A r \in Requests : Known(r) /\ Settled(store[r]) =>
          /\ Calls(r)' = Calls(r)
          /\ store'[r] \in {store[r], NoArtifacts}]_vars
  <2> SUFFICES ASSUME IInv, Next, NEW q \in Requests, Known(q), Settled(store[q])
               PROVE  Calls(q)' = Calls(q) /\ store'[q] \in {store[q], NoArtifacts}
    OBVIOUS
  <2>1. flight[q].at = "answered" /\ store[q].order # <<>> /\ store[q].execution # <<>>
    BY DEF IInv, Keeping, Settled
  <2>2. CASE UNCHANGED <<store, outside>>
    BY <2>2 DEF Calls
  <2>3. \A r \in Requests : r = q => ~CreateOrder(r) /\ ~Track(r) /\ ~Approve(r)
    <3>1. Good(q, store[q], outside)
      BY <2>1, StoredIsGood
    <3>2. ~Pending(store[q])
      BY <2>1, <3>1 DEF Good, Backed, Authorized, Pending
    <3>3. QED
      BY <2>1, <3>2 DEF CreateOrder, Track, Approve
  <2>4. ASSUME NEW r \in Requests, CreateOrder(r) \/ Track(r)
        PROVE  Calls(q)' = Calls(q) /\ store'[q] = store[q]
    <3> DEFINE st == flight[r].st
    <3>1. Good(r, st, outside) /\ st \in Artifacts /\ outside \in Seq(Attempts)
      BY <2>4, InFlight DEF Where, Late, CreateOrder, Track
    <3>2. PICK o \in Ordering(r, st) \cup Tracking(r, st, Provider) : Makes(o)
      BY <2>4 DEF CreateOrder, Track
    <3>3. Untouched(st, o.st) /\ Calling(r, st, o)
      BY <3>1, <3>2, OrderingCalls, TrackingCalls, ProviderAssumption DEF Good, Vetted
    <3>4. o.made \in Seq(Attempts) /\ Own(r, o.made) /\ outside' = outside \o o.made
      BY <3>1, <3>2, <3>3, CallTyped DEF Makes, Good, Vetted
    <3>5. Calls(q)' = Calls(q)
      BY <2>3, <2>4, <3>1, <3>4, OthersLeave
    <3>6. QED
      BY <2>4, <3>5 DEF CreateOrder, Track
  <2>5. ASSUME NEW r \in Requests, NEW st, Remember(r, st), UNCHANGED outside, r = q => st = NoArtifacts
        PROVE  Calls(q)' = Calls(q) /\ store'[q] \in {store[q], NoArtifacts}
    BY <2>5 DEF Remember, Calls
  <2>6. ASSUME NEW r \in Requests, Approve(r)
        PROVE  Calls(q)' = Calls(q) /\ store'[q] = store[q]
    BY <2>3, <2>6 DEF Approve, Calls, IInv, Typed
  <2>7. ASSUME NEW r \in Requests, Sync(r) \/ Execute(r)
        PROVE  Calls(q)' = Calls(q) /\ store'[q] = store[q]
    <3>1. CASE r # q
      <4>1. PICK new \in Artifacts, made \in Seq(Attempts) :
               Own(r, made) /\ store' = [store EXCEPT ![r] = new] /\ outside' = outside \o made
        BY <2>7, SyncDoes, ExecuteDoes
      <4>2. Calls(q)' = Calls(q)
        BY <3>1, <4>1, InFlight, OthersLeave
      <4>3. QED
        BY <3>1, <4>1, <4>2 DEF IInv, Typed
    <3>2. CASE r = q
      <4> DEFINE st == store[q]
      <4>1. Good(q, st, outside)
        BY <2>1, StoredIsGood
      <4>2. Approved(st) = st
        BY <2>1, <4>1 DEF Good, Backed, Authorized, Pending, Approved
      <4>3. \A o : o \in Ordering(q, st) => o = Same(st)
        BY <2>1 DEF Ordering
      <4>4. \A o, p : o \in Tracking(q, st, p) => o = Same(st)
        BY <2>1 DEF Tracking
      <4>5. /\ Same(st).st = st /\ Same(st).made = <<>> /\ Same(st).raised = FALSE
        BY DEF Same
      <4>6. CASE Sync(q)
        <5>1. store' = [store EXCEPT ![q] = st] /\ outside' = outside \o <<>>
          BY <4>4, <4>5, <4>6 DEF Sync, Makes
        <5>2. QED
          BY <3>2, <5>1, InFlight DEF Calls, IInv, Typed
      <4>7. CASE Execute(q)
        <5>1. \E t \in Tracking(q, st, Provider) :
                 /\ store' = [store EXCEPT ![q] = t.st] /\ Makes([t EXCEPT !.made = <<>> \o @])
          BY <4>2, <4>3, <4>5, <4>7 DEF Execute
        <5>2. store' = [store EXCEPT ![q] = st] /\ Makes([Same(st) EXCEPT !.made = <<>> \o @])
          BY <4>4, <4>5, <5>1
        <5>3. [Same(st) EXCEPT !.made = <<>> \o @].made = <<>>
          BY DEF Same
        <5>4. outside' = outside \o <<>>
          BY <5>2, <5>3 DEF Makes
        <5>5. QED
          BY <3>2, <5>2, <5>4, InFlight DEF Calls, IInv, Typed
      <4>8. QED
        BY <2>7, <3>2, <4>6, <4>7
    <3>3. QED
      BY <3>1, <3>2
  <2>8. ASSUME NEW r \in Requests, Finish(r)
        PROVE  Calls(q)' = Calls(q) /\ store'[q] \in {store[q], NoArtifacts}
    <3>1. r # q
      BY <2>1, <2>8 DEF Finish
    <3>2. QED
      BY <2>5, <2>8, <3>1 DEF Finish
  <2>9. ASSUME NEW n \in DOMAIN told, Replace(n)
        PROVE  Calls(q)' = Calls(q) /\ store'[q] \in {store[q], NoArtifacts}
    BY <2>5, <2>9, Tellers DEF Replace, Told
  <2>10. QED
    BY <2>2, <2>4, <2>6, <2>7, <2>8, <2>9 DEF Next, Serve, Ask, Dispatch, Decide, Validate, Assess, GovernStep, Authorize, Tell, Record, Fold
<1>2. QED
  BY <1>1, Inductive, PTL DEF Spec, Idempotent
=============================================================================
