--------------------------------- MODULE Orders ---------------------------------
(***************************************************************************)
(* The part of a procurement swarm that follows a decision, and the API    *)
(* around it (src/api/main.py): each dispatch runs a swarm of its own to   *)
(* the end and has its state remembered; approve, execute and sync work on *)
(* a remembered state without a break, an outcome runs one more swarm.     *)
(* All share the record of the suppliers and the system orders go to.      *)
(***************************************************************************)
EXTENDS OrderRules, Connectors, SequencesExt, FiniteSetsExt

CONSTANTS
    Quantity,    \* of each request: there is one dispatch of each
    Limit,       \* its carbon limit per unit, 0 for none
    Outcomes,    \* what may be told of a delivery
    Provider,    \* PROCUREMENT_CONNECTOR_PROVIDER
    Overrides,   \* the systems sync may be told to ask instead
    MaxStates,   \* MAX_SWARM_STATES
    MaxOutcomes, MaxFaults   \* bounds of the instance

ASSUME RequestAssumption ==
    /\ Quantity \in [Requests -> Nat \ {0}] /\ Limit \in [Requests -> Nat]
    /\ Outcomes \subseteq [supplier : Suppliers, onTime : BOOLEAN, quality : 0..100, price : Nat \ {0}]
ASSUME ProviderAssumption == Provider \in Providers /\ Overrides \subseteq Providers
ASSUME BoundsAssumption == MaxStates \in Nat \ {0} /\ MaxOutcomes \in Nat /\ MaxFaults \in Nat

VARIABLES
    flight,     \* of each request, how far its dispatch is, and the state of its swarm
    kept,       \* the keys of swarm_states, in their order
    store,      \* and their values
    memory,     \* default_store: of each supplier, its record
    told,       \* the calls of the outcome endpoint
    outside,    \* the calls that reached the system orders go to
    faults

vars == <<flight, kept, store, memory, told, outside, faults>>

\* The artifacts of a swarm, by kind, each in the order they were put.
NoArtifacts == [decision |-> <<>>, contract |-> <<>>, risk |-> <<>>, governance |-> <<>>,
                auth |-> <<>>, order |-> <<>>, execution |-> <<>>, calls |-> <<>>]

Init ==
    /\ flight = [r \in Requests |-> [at |-> "unknown", st |-> NoArtifacts]]
    /\ kept = <<>> /\ store = [r \in Requests |-> NoArtifacts]
    /\ memory = [s \in Suppliers |-> NoHistory]
    /\ told = <<>> /\ outside = <<>> /\ faults = 0

Goes(r, to, st) == flight' = [flight EXCEPT ![r] = [at |-> to, st |-> st]]

(***************************************************************************)
(* The agents of a dispatch, each stepped by the event of the one before.  *)
(***************************************************************************)
Dispatch(r) ==
    /\ flight[r].at = "unknown" /\ Goes(r, "sourcing", NoArtifacts)
    /\ UNCHANGED <<kept, store, memory, told, outside, faults>>

\* Sourcing ends in a decision, with or without an award.
Decide(r) ==
    /\ flight[r].at = "sourcing"
    /\ \E s \in Suppliers \cup {NoSupplier} :
          Goes(r, "decided", [flight[r].st EXCEPT !.decision = <<s>>])
    /\ UNCHANGED <<kept, store, memory, told, outside, faults>>

Award(st) == st.decision[1]

\* ContractValidationAgent.
Validate(r) ==
    LET st == flight[r].st IN
    /\ flight[r].at = "decided"
    /\ Goes(r, IF Valid(Award(st)) THEN "validated" ELSE "assessed",
            [st EXCEPT !.contract = <<Valid(Award(st))>>])
    /\ UNCHANGED <<kept, store, memory, told, outside, faults>>

\* RiskAssessmentAgent: with the record of the supplier as it is now.
Assess(r) ==
    LET st == flight[r].st
        s == Award(st)
        history == IF s \in Suppliers THEN memory[s] ELSE NoHistory
    IN  /\ flight[r].at = "validated"
        /\ Goes(r, "assessed", [st EXCEPT !.risk = <<Overall(s, Quantity[r], Limit[r], history)>>])
        /\ UNCHANGED <<kept, store, memory, told, outside, faults>>

\* GovernanceAgent: a rejected contract has no risk to weigh.
GovernStep(r) ==
    LET st == flight[r].st
        status == IF ~st.contract[1] THEN "REJECTED" ELSE Govern(Amount(Award(st), Quantity[r]), st.risk[1])
    IN  /\ flight[r].at = "assessed"
        /\ Goes(r, "governed", [st EXCEPT !.governance = <<status>>])
        /\ UNCHANGED <<kept, store, memory, told, outside, faults>>

\* ApprovalAgent.
Authorize(r) ==
    LET st == flight[r].st
        status == st.governance[1]
    IN  /\ flight[r].at = "governed"
        /\ CASE status = "REJECTED" -> Goes(r, "done", st)
             [] status = "APPROVAL_REQUIRED" -> Goes(r, "done", [st EXCEPT !.auth = <<"pending">>])
             [] OTHER -> Goes(r, "granted", [st EXCEPT !.auth = <<"authorized">>])
        /\ UNCHANGED <<kept, store, memory, told, outside, faults>>

(***************************************************************************)
(* Orders go out through a connector, which answers, refuses or raises; a  *)
(* call that raises may have got through.  Every answer is recorded.  The  *)
(* guard against repeated calls only speaks up when the artifact is there, *)
(* and then create_order and track have returned it before they ask.       *)
(***************************************************************************)
Call(r, action, st, answered) ==
    [request |-> r, action |-> action, supplier |-> Award(st), answered |-> answered]

Authorized(st) == st.auth # <<>> /\ Last(st.auth) = "authorized"

Same(st) == [st |-> st, made |-> <<>>, raised |-> FALSE]
Raised(r, action, st) ==
    {[st |-> st, made |-> made, raised |-> TRUE] : made \in {<<>>, <<Call(r, action, st, FALSE)>>}}

\* record_external_call.
Recorded(r, action, st) ==
    [st |-> [st EXCEPT !.calls = Append(@, action)], made |-> <<Call(r, action, st, TRUE)>>, raised |-> FALSE]

\* Mutant: a refusal is not recorded.
BoughtAcceptedOnly(r, st, reported) ==
    [st |-> [st EXCEPT !.calls = IF reported = "REFUSED" THEN @ ELSE Append(@, "submit_order"),
                       !.order = << [supplier |-> Award(st), amount |-> Amount(Award(st), Quantity[r]),
                                     status |-> AsStatus(reported)] >>],
     made |-> <<Call(r, "submit_order", st, TRUE)>>, raised |-> FALSE]

Bought(r, st, reported) ==
    [Recorded(r, "submit_order", st) EXCEPT !.st.order =
        << [supplier |-> Award(st), amount |-> Amount(Award(st), Quantity[r]), status |-> AsStatus(reported)] >>]

\* _submit_order: accepted, refused, or no answer.
Submitting(r, st) ==
    {Bought(r, st, reported) : reported \in {BuildConnector(Provider).submits[r], "REFUSED"}}
        \cup Raised(r, "submit_order", st)

\* Mutant: an order that exists is placed again.
OrderingAgain(r, st) == IF ~Authorized(st) THEN {Same(st)} ELSE Submitting(r, st)

\* create_order: what it may lead to.
Ordering(r, st) == IF ~Authorized(st) \/ st.order # <<>> THEN {Same(st)} ELSE Submitting(r, st)

\* _track_order.
Asking(r, st, provider) ==
    {[Recorded(r, "get_order_status", st) EXCEPT !.st.execution = <<BuildConnector(provider).reports[r]>>]}
        \cup Raised(r, "get_order_status", st)

\* Mutant: the status is asked for every time.
TrackingAnew(r, st, provider) == IF st.order = <<>> THEN {Same(st)} ELSE Asking(r, st, provider)

\* track.
Tracking(r, st, provider) ==
    IF st.order = <<>> \/ st.execution # <<>> THEN {Same(st)} ELSE Asking(r, st, provider)

\* Bound: MaxFaults.
Makes(o) ==
    /\ faults' = faults + (IF o.raised THEN 1 ELSE 0) /\ faults' <= MaxFaults
    /\ outside' = outside \o o.made

\* An exception ends the chain: the bus collects it, the swarm goes on.
CreateOrder(r) ==
    /\ flight[r].at = "granted"
    /\ \E o \in Ordering(r, flight[r].st) :
          Goes(r, IF o.raised THEN "done" ELSE "ordered", o.st) /\ Makes(o)
    /\ UNCHANGED <<kept, store, memory, told>>

Track(r) ==
    /\ flight[r].at = "ordered"
    /\ \E o \in Tracking(r, flight[r].st, Provider) : Goes(r, "done", o.st) /\ Makes(o)
    /\ UNCHANGED <<kept, store, memory, told>>

(***************************************************************************)
(* The API.  A request whose state is not remembered gets a 404.           *)
(***************************************************************************)
\* Mutant: nobody makes room.
RememberedAll(keys) == keys

\* The oldest makes room.
Remembered(keys) == IF Len(keys) > MaxStates THEN Tail(keys) ELSE keys

Remember(r, st) ==
    /\ kept' = Remembered(IF r \in Range(kept) THEN kept ELSE Append(kept, r))
    /\ store' = [q \in Requests |-> IF q \notin Range(kept') THEN NoArtifacts
                                    ELSE IF q = r THEN st ELSE store[q]]

Finish(r) ==
    /\ flight[r].at = "done" /\ Goes(r, "answered", flight[r].st)
    /\ Remember(r, flight[r].st)
    /\ UNCHANGED <<memory, told, outside, faults>>

Known(r) == r \in Range(kept)
Pending(st) == st.auth # <<>> /\ Last(st.auth) = "pending"

\* ApprovalAgent.approve: a new version of the authorization.
Approved(st) == IF Pending(st) THEN [st EXCEPT !.auth = Append(@, "authorized")] ELSE st

Approve(r) ==
    /\ Known(r) /\ Pending(store[r])
    /\ store' = [store EXCEPT ![r] = Approved(@)]
    /\ UNCHANGED <<flight, kept, memory, told, outside, faults>>

\* Grant, order and track; an exception leaves what has been put so far.
Execute(r) ==
    /\ Known(r) /\ store[r].auth # <<>>
    /\ \E o \in Ordering(r, Approved(store[r])) :
         IF o.raised THEN store' = [store EXCEPT ![r] = o.st] /\ Makes(o)
         ELSE \E t \in Tracking(r, o.st, Provider) :
                 /\ store' = [store EXCEPT ![r] = t.st]
                 /\ Makes([t EXCEPT !.made = o.made \o @])
    /\ UNCHANGED <<flight, kept, memory, told>>

\* sync, of the system the order went to or of another; force makes no
\* difference.
Sync(r) ==
    /\ Known(r) /\ store[r].order # <<>>
    /\ \E p \in Overrides \cup {Provider} : \E o \in Tracking(r, store[r], p) :
          store' = [store EXCEPT ![r] = o.st] /\ Makes(o)
    /\ UNCHANGED <<flight, kept, memory, told>>

\* The outcome endpoint: it reads the decision, and sets up a swarm.
Tell(r) ==
    /\ Len(told) < MaxOutcomes /\ Known(r) /\ store[r].decision # <<>>
    /\ \E o \in Outcomes :
          told' = Append(told, [request |-> r, outcome |-> o, at |-> "told"])
    /\ UNCHANGED <<flight, kept, store, memory, outside, faults>>

\* OutcomeAgent: the outcome is put, under the id of the decision.
Record(n) ==
    /\ told[n].at = "told"
    /\ told' = [told EXCEPT ![n].at = "recorded"]
    /\ UNCHANGED <<flight, kept, store, memory, outside, faults>>


\* SupplierIntelligenceAgent.  Its swarm has no decision, so no quote is known
\* to hold the price against.
Fold(n) ==
    LET o == told[n].outcome IN
    /\ told[n].at = "recorded"
    /\ told' = [told EXCEPT ![n].at = "folded"]
    /\ memory' = [memory EXCEPT ![o.supplier] = Folded(@, o, 0)]
    /\ UNCHANGED <<flight, kept, store, outside, faults>>

\* The swarm of an outcome bears the request's id, and is remembered in its place.
Replace(n) ==
    /\ told[n].at = "folded"
    /\ told' = [told EXCEPT ![n].at = "answered"]
    /\ Remember(told[n].request, NoArtifacts)
    /\ UNCHANGED <<flight, memory, outside, faults>>

Serve ==
    \/ \E r \in Requests : Decide(r) \/ Validate(r) \/ Assess(r) \/ GovernStep(r) \/ Authorize(r)
                           \/ CreateOrder(r) \/ Track(r) \/ Finish(r)
    \/ \E n \in DOMAIN told : Record(n) \/ Fold(n) \/ Replace(n)

Ask == \E r \in Requests : Dispatch(r) \/ Approve(r) \/ Execute(r) \/ Sync(r) \/ Tell(r)

Next == Serve \/ Ask

Spec == Init /\ [][Next]_vars
LiveSpec == Spec /\ WF_vars(Serve)

(***************************************************************************)
(* Properties.                                                             *)
(***************************************************************************)
\* The steps of a dispatch put what they should and nothing else, and what is
\* remembered is of a known request.
TypeOK ==
    /\ \A r \in Requests :
          LET st == flight[r].st IN
          /\ flight[r].at \in {"unknown", "sourcing", "decided", "validated", "assessed", "governed",
                               "granted", "ordered", "done", "answered"}
          /\ (st.decision = <<>>) <=> (flight[r].at \in {"unknown", "sourcing"})
          /\ flight[r].at = "granted" => st.order = <<>> /\ Authorized(st)
          /\ flight[r].at = "ordered" => Len(st.order) = 1 /\ st.execution = <<>>
    /\ IsInjective(kept) /\ Len(kept) <= MaxStates
    /\ \A r \in Requests : ~Known(r) => store[r] = NoArtifacts
    /\ \A s \in Suppliers : memory[s].onTime <= memory[s].orders /\ memory[s].quality <= 100 * memory[s].orders

\* Requests of which an outcome has been told: their state may be another.
Told == {told[n].request : n \in DOMAIN told}
State(r) == IF flight[r].at = "answered" THEN store[r] ELSE flight[r].st
Intact(r) == r \notin Told /\ (flight[r].at = "answered" => Known(r))
Calls(r) == {n \in DOMAIN outside : outside[n].request = r}
Placed(r) == {n \in Calls(r) : outside[n].action = "submit_order"}

\* "no order goes out unvetted": whatever the order of approvals, retries and
\* answers, what reached the supplier had a valid contract, a tolerable risk,
\* and an approval of its own where the amount or the risk asks for one: by a
\* call of approve, or by the call of execute itself.
OrdersVetted ==
    \A r \in Requests : Intact(r) /\ Placed(r) # {} =>
        LET st == State(r)
            amount == Amount(Award(st), Quantity[r])
        IN  /\ Valid(Award(st)) /\ ~Intolerable(st.risk[1])
            /\ NeedsApproval(amount, st.risk[1]) => st.auth = <<"pending", "authorized">>
            /\ \A n \in Placed(r) : outside[n].supplier = Award(st)

\* Counting every order that reached the supplier, with an answer or without:
\* each but the last is one the answer of which was lost, and none follows an
\* answer, however often execute is called.  The swarm has an order on record
\* exactly if one was answered.
PlacedAgainIfLost ==
    \A r \in Requests :
        /\ \A m, n \in Placed(r) : m < n => ~outside[m].answered
        /\ Intact(r) => (State(r).order # <<>> <=> \E n \in Placed(r) : outside[n].answered)

\* "When an external call is made, it must happen at most once per logical
\* operation: replaying an order submission or re-running an execution step
\* must not produce duplicate external side effects" (utils/idempotency.py).
OncePerOperation == \A r \in Requests : Cardinality(Placed(r)) <= 1

\* The audit trail of a swarm: of all the calls that got out, those on record
\* are the answered ones, in their order, so that the ones missing are those
\* that raised; and the trail agrees with the order and the status the swarm
\* has, each of which has its call on record, once.
Answered(r) == {n \in Calls(r) : outside[n].answered}
Recording(r) ==
    LET calls == State(r).calls IN
    \E at \in [DOMAIN calls -> Answered(r)] :
        /\ Range(at) = Answered(r)
        /\ \A i, j \in DOMAIN calls : i < j => at[i] < at[j]
        /\ \A i \in DOMAIN calls : outside[at[i]].action = calls[i]
Trail(st) ==
    IF st.order = <<>> THEN <<>>
    ELSE IF st.execution = <<>> THEN <<"submit_order">> ELSE <<"submit_order", "get_order_status">>
Audited == \A r \in Requests : Intact(r) => Recording(r) /\ State(r).calls = Trail(State(r))

\* "The step is idempotent - a present order status is returned as-is": with
\* order and status on record, no call of the API reaches the supplier again
\* or changes either.
Settled(st) == st.order # <<>> /\ st.execution # <<>>
Idempotent ==
    [][\A r \in Requests : Known(r) /\ Settled(store[r]) =>
          /\ Calls(r)' = Calls(r)
          /\ store'[r] \in {store[r], NoArtifacts}]_vars

\* A connector that raises stops nobody: dispatches and outcomes are answered.
Returns ==
    /\ \A r \in Requests : flight[r].at = "sourcing" ~> flight[r].at = "answered"
    /\ \A n \in 1..MaxOutcomes : Len(told) >= n ~> Len(told) >= n /\ told[n].at = "answered"

\* "No supplier satisfied the policy constraints, so no award was made":
\* no order without an award.
OrderAwarded == \A n \in DOMAIN outside : outside[n].supplier # NoSupplier
=============================================================================
