------------------------------ MODULE NeuroQuotes ------------------------------
(***************************************************************************)
(* The cognitive half of the mesh (src/mesh/neuro) as the negotiators use  *)
(* it: a strategy chosen by the process's bandit, a quote generated by a   *)
(* language model, validated by the SafetyKernelActor and corrected until  *)
(* the attempts are spent, the deterministic quote when they are, and the  *)
(* reward of a decision that the cluster driver hands to every negotiator; *)
(* with the life of the cluster, its processes and the saved bandit.       *)
(*                                                                         *)
(* The scouts use the model too: a pool may be what it made up, suppliers  *)
(* and quantity, which nobody compares with the requirement.               *)
(*                                                                         *)
(* Mesh has the blackboard and the four archetypes in full.  Here          *)
(* discovery and evaluation are one step, the buyer another that awards    *)
(* any quoted supplier or none, and of the bandit it counts which choices  *)
(* it was rewarded for, not the linear algebra it makes of them.           *)
(***************************************************************************)
EXTENDS Naturals, SequencesExt, FiniteSetsExt, Functions

CONSTANTS
    Runs,            \* calls of run_procurement, each its own correlation id
    Crew,            \* the negotiators, in the order of the driver's handles
    Suppliers,
    Templates,       \* SUPPLIER_TEMPLATES
    Scouts,          \* how many there are
    Driver, None,
    Null,            \* the budget of a requirement that gives it as null
    Asked(_),        \* the quantity of a requirement
    Budgets(_),      \* and what its budget may be: 0 when it has none
    Pools(_),        \* what the scouts' model may say of it, and the kernel lets by
    FloorPrices,     \* what floor_price of a supplier's profile may be
    Replies,         \* the quotes the negotiators' model may generate
    MaxAttempts,     \* neuro_max_retries
    MaxPrice, MaxLead,       \* MAX_PRICE, MAX_LEAD_TIME_DAYS
    DiscoveryLimit, RequirementLimit,   \* the negotiators' reads of the two
    DealLimit,       \* the driver's read of DEAL
    MaxScores,       \* bound on the evaluations of a run
    MaxActive, MaxCrashes, MaxStarts   \* bounds of the instance

Negotiators == Range(Crew)
Pool == [sups : Seq(Suppliers), quantity : Nat \ {0}]
Tasks == Runs \X Negotiators
Reply == [names : Suppliers \cup {None}, price : Nat \ {0}, lead : Nat \ {0}]

ASSUME CrewAssumption == Crew \in Seq(Negotiators) /\ Driver \notin Negotiators
ASSUME PoolAssumption ==
    /\ Scouts \in Nat /\ Templates \in Seq(Suppliers)
    /\ \A r \in Runs : Asked(r) \in Nat \ {0} /\ Budgets(r) \subseteq Nat \cup {Null} /\ Pools(r) \subseteq Pool
ASSUME NoneAssumption == Null \notin Nat /\ None \notin Pool
ASSUME ReplyAssumption == Replies \subseteq Reply
ASSUME LimitAssumption == /\ MaxAttempts \in Nat \ {0} /\ DealLimit \in Nat \ {0}
                          /\ DiscoveryLimit \in Nat /\ RequirementLimit \in Nat /\ MaxScores \in Nat
                          /\ MaxActive \in Nat /\ MaxCrashes \in Nat /\ MaxStarts \in Nat
                          /\ MaxPrice \in Nat /\ MaxLead \in Nat

VARIABLES
    up,         \* is a cluster initialized?
    starts, crashes,
    rpc,        \* where each call of run_procurement stands
    award,      \* the quote whose reward it hands out, and to whom next
    required,   \* the requirements on REQUIREMENT
    found,      \* the traces on DISCOVERY: a pool, or None, for one of its suppliers
    scores,     \* the evaluations on SCORE
    deals,      \* the quotes on DEAL: `sup` is the trace's supplier_id, `names` its data's
    decision,   \* what DECISION has for each run
    processed,  \* _processed_suppliers
    task,       \* the step() each run asked of each negotiator
    pending,    \* _current_strategy, _current_context: the no-th choice of its process
    bandit,     \* _persistent_bandit of each process: the choices rewarded
    file,       \* BANDIT_STATE_PATH
    choices,    \* history: the strategies each negotiator's process has chosen
    disturbed   \* history: runs open while another was, or a negotiator restarted,
                \* or begun with evaluations of another left over

blackboard == <<required, found, scores, deals, decision>>
actors == <<processed, task, pending, bandit, choices>>
cluster == <<up, starts, crashes, file, disturbed>>
vars == <<blackboard, actors, cluster, rpc, award>>

\* One step() of a negotiator: `at` is the evaluation it is working on.
Idle == [pc |-> "idle", at |-> 0, pool |-> None, budget |-> 0, attempt |-> 0, quotes |-> <<>>]
Ended(t) == task[t].pc \in {"idle", "done"}
Open == {r \in Runs : rpc[r] \notin {"new", "done"}}

Init ==
    /\ up = FALSE /\ starts = 0 /\ crashes = 0
    /\ rpc = [r \in Runs |-> "new"]
    /\ award = [r \in Runs |-> [quote |-> r, next |-> 1]]
    /\ required = <<>> /\ found = <<>> /\ scores = <<>> /\ deals = <<>>
    /\ decision = [r \in Runs |-> None]
    /\ processed = [n \in Negotiators |-> {}]
    /\ task = [t \in Tasks |-> Idle]
    /\ pending = [n \in Negotiators |-> None]
    /\ bandit = [p \in Negotiators \cup {Driver} |-> None]
    /\ file = None /\ disturbed = {}
    /\ choices = [n \in Negotiators |-> 0]
-----------------------------------------------------------------------------
(***************************************************************************)
(* ProcurementCluster: initialize, create_actors, shutdown.                *)
(***************************************************************************)

\* get_persistent_bandit in a process that has none: from the file, or fresh.
Loaded == IF file = None THEN <<>> ELSE file

\* A negotiator's process comes up: nothing processed, nothing chosen.
Fresh(crew) ==
    /\ processed' = [n \in Negotiators |-> IF n \in crew THEN {} ELSE processed[n]]
    /\ pending' = [n \in Negotiators |-> IF n \in crew THEN None ELSE pending[n]]
    /\ bandit' = [p \in DOMAIN bandit |-> IF p \in crew THEN Loaded ELSE bandit[p]]
    /\ choices' = [n \in Negotiators |-> IF n \in crew THEN 0 ELSE choices[n]]

Start ==
    /\ ~up /\ starts < MaxStarts
    /\ up' = TRUE /\ starts' = starts + 1
    /\ Fresh(Negotiators)
    /\ required' = <<>> /\ found' = <<>> /\ scores' = <<>> /\ deals' = <<>>
    /\ decision' = [r \in Runs |-> None]
    /\ UNCHANGED <<crashes, rpc, award, task, file, disturbed>>

\* save_bandit_state, in the process that calls it.
Saved(p) == IF bandit[p] = None THEN file ELSE bandit[p]

\* The actors are killed first; the save is the driver's.
Shutdown ==
    /\ up /\ Open = {}
    /\ up' = FALSE
    /\ file' = Saved(Driver)
    /\ bandit' = [p \in DOMAIN bandit |-> IF p = Driver THEN bandit[p] ELSE None]
    /\ UNCHANGED <<blackboard, starts, crashes, rpc, award, processed, task, pending,
                   choices, disturbed>>

\* A negotiator's process dies.  Ray restarts the actor and runs the steps it
\* had in hand again; nothing of the old process is left.
Crash(n) ==
    /\ up /\ crashes < MaxCrashes
    /\ crashes' = crashes + 1
    /\ disturbed' = disturbed \cup Open
    /\ Fresh({n})
    /\ task' = [t \in Tasks |-> IF t[2] = n /\ ~Ended(t)
                                THEN [Idle EXCEPT !.pc = "perceive"] ELSE task[t]]
    /\ UNCHANGED <<blackboard, up, starts, rpc, award, file>>
-----------------------------------------------------------------------------
(***************************************************************************)
(* ProcurementCluster.run_procurement                                      *)
(***************************************************************************)

Of(i) == <<scores[i].run, scores[i].sup>>

\* What a scout's step makes of a requirement: _neuro_pool, or the templates
\* when there is no model or it fails.
Made(r) == {[sups |-> Templates, quantity |-> Asked(r)]} \cup Pools(r)

\* act of a scout: the list, then a trace of each supplier.
Listing(r, pool) ==
    <<[run |-> r, pool |-> pool]>> \o [k \in DOMAIN pool.sups |-> [run |-> r, pool |-> None]]

\* The requirement is written and each scout asked for a step.
Submit(r) ==
    /\ up /\ rpc[r] = "new" /\ Cardinality(Open) < MaxActive
    /\ rpc' = [rpc EXCEPT ![r] = "scouts"]
    /\ \E b \in Budgets(r) : required' = Append(required, [run |-> r, budget |-> b])
    /\ disturbed' = IF Open = {} /\ \A n \in Negotiators, i \in DOMAIN scores : Of(i) \in processed[n]
                    THEN disturbed ELSE disturbed \cup Open \cup {r}
    /\ UNCHANGED <<actors, found, scores, deals, decision, up, starts, crashes, file, award>>

Lists(r) == {i \in DOMAIN found : found[i].run = r /\ found[i].pool # None}

\* The step of one of the scouts.
Scout(r) ==
    /\ rpc[r] = "scouts" /\ Cardinality(Lists(r)) < Scouts
    /\ \E pool \in Made(r) : found' = found \o Listing(r, pool)
    /\ UNCHANGED <<actors, cluster, required, scores, deals, decision, rpc, award>>

\* Some of the scouts may have failed.  The evaluators leave evaluations of
\* suppliers on the lists, of one perhaps several, of another none; then each
\* negotiator is asked for a step.
Evaluate(r) ==
    /\ rpc[r] = "scouts"
    /\ \E n \in 0..MaxScores :
       \E named \in [1..n -> UNION {Range(found[i].pool.sups) : i \in Lists(r)}] :
          scores' = scores \o [k \in 1..n |-> [run |-> r, sup |-> named[k]]]
    /\ task' = [t \in Tasks |-> IF t[1] = r THEN [Idle EXCEPT !.pc = "perceive"] ELSE task[t]]
    /\ rpc' = [rpc EXCEPT ![r] = "negotiators"]
    /\ UNCHANGED <<cluster, award, required, found, deals, decision, processed, pending, bandit,
                   choices>>

\* Every step has ended; the buyer decides on every run that has quotes and no
\* award yet.
Buyer(r) ==
    LET quoted(c) == {deals[i].sup : i \in {j \in DOMAIN deals : deals[j].run = c}}
    IN  /\ rpc[r] = "negotiators" /\ \A n \in Negotiators : Ended(<<r, n>>)
        /\ \E choice \in [Runs -> Suppliers \cup {None}] :
              /\ \A c \in Runs : choice[c] \in
                    IF decision[c] = None THEN quoted(c) \cup {None} ELSE {decision[c]}
              /\ decision' = choice
              /\ rpc' = [rpc EXCEPT ![r] = IF choice[r] = None THEN "done" ELSE "deals"]
        /\ UNCHANGED <<cluster, actors, required, found, scores, deals, award>>

\* Mutant: the quote the award rests on, wherever it stands: the oldest.
RewardedOldest(r) == {i \in DOMAIN deals :
    /\ deals[i].names = decision[r]
    /\ \A j \in DOMAIN deals : deals[j].names = decision[r] => j >= i}

\* _update_bandits_from_decision: the newest quote whose data names the
\* supplier, among the last DealLimit.
Rewarded(r) == {i \in DOMAIN deals :
    /\ i + DealLimit > Len(deals)
    /\ deals[i].names = decision[r]
    /\ \A j \in DOMAIN deals : deals[j].names = decision[r] => j <= i}

ReadDeals(r) ==
    /\ rpc[r] = "deals"
    /\ \/ /\ Rewarded(r) = {}
          /\ rpc' = [rpc EXCEPT ![r] = "done"]
          /\ UNCHANGED award
       \/ \E i \in Rewarded(r) :
             /\ rpc' = [rpc EXCEPT ![r] = "credit"]
             /\ award' = [award EXCEPT ![r] = [quote |-> deals[i].run, next |-> 1]]
    /\ UNCHANGED <<blackboard, actors, cluster>>

\* Mutant: the strategy is kept for the next negotiation.
UpdateKept(n) ==
    /\ bandit' = [bandit EXCEPT ![n] =
                     IF pending[n] = None THEN @ ELSE Append(@, pending[n])]
    /\ UNCHANGED pending

\* NegotiatorActor.update_bandit_from_decision, whichever supplier won.
Update(n) ==
    /\ bandit' = [bandit EXCEPT ![n] =
                     IF pending[n] = None THEN @ ELSE Append(@, pending[n])]
    /\ pending' = [pending EXCEPT ![n] = None]

Credit(r) ==
    /\ rpc[r] = "credit"
    /\ Update(Crew[award[r].next])
    /\ IF award[r].next = Len(Crew)
       THEN rpc' = [rpc EXCEPT ![r] = "done"] /\ UNCHANGED award
       ELSE award' = [award EXCEPT ![r].next = @ + 1] /\ UNCHANGED rpc
    /\ UNCHANGED <<blackboard, cluster, processed, task, choices>>
-----------------------------------------------------------------------------
(***************************************************************************)
(* NegotiatorActor.step: perceive, reason, act.                            *)
(***************************************************************************)
Go(t, state) == task' = [task EXCEPT ![t] = state]

Perceive(t) ==
    /\ task[t].pc = "perceive"
    /\ Go(t, [task[t] EXCEPT !.pc = "reason", !.at = Len(scores)])
    /\ UNCHANGED <<blackboard, cluster, rpc, award, processed, pending, bandit, choices>>

\* reason goes through the evaluations up to k, the newest first, past those
\* processed; to the reads of the next one's pool and requirement or to act.
Onward(k, seen, quotes) ==
    LET left == {i \in 1..k : Of(i) \notin seen}
    IN  IF left = {} THEN [Idle EXCEPT !.pc = "act", !.quotes = quotes]
        ELSE [Idle EXCEPT !.pc = "read", !.at = Max(left), !.quotes = quotes]

Reason(t) ==
    /\ task[t].pc = "reason"
    /\ Go(t, Onward(task[t].at, processed[t[2]], <<>>))
    /\ UNCHANGED <<blackboard, cluster, rpc, award, processed, pending, bandit, choices>>

\* The newest list of the run among the last DiscoveryLimit traces.
PoolsOf(run) == {found[i].pool : i \in {j \in Lists(run) :
    j + DiscoveryLimit > Len(found) /\ \A k \in Lists(run) : k <= j}}

\* The budget of the run's requirement, if that is among the last RequirementLimit.
BudgetsOf(run) ==
    LET in == {i \in DOMAIN required : i + RequirementLimit > Len(required) /\ required[i].run = run}
    IN  IF in = {} THEN {0} ELSE {required[i].budget : i \in in}

Quotable(i) == {pool \in PoolsOf(scores[i].run) : scores[i].sup \in Range(pool.sups)}

\* No list, or not the supplier on it: the evaluation is passed by, unmarked.
Skip(t) ==
    /\ task[t].pc = "read" /\ Quotable(task[t].at) = {}
    /\ Go(t, Onward(task[t].at - 1, processed[t[2]], task[t].quotes))
    /\ UNCHANGED <<blackboard, cluster, rpc, award, processed, pending, bandit, choices>>

\* from_requirement makes a number of a null: the step ends without the quotes
\* it has, whose pairs stay marked.
Raise(t) ==
    /\ task[t].pc = "read" /\ Quotable(task[t].at) # {}
    /\ Null \in BudgetsOf(scores[task[t].at].run)
    /\ Go(t, [Idle EXCEPT !.pc = "done"])
    /\ UNCHANGED <<blackboard, cluster, rpc, award, processed, pending, bandit, choices>>

\* select_action; the strategy is kept in the actor for the decision.
Select(t) ==
    LET n == t[2]
        on == scores[task[t].at]
    IN  /\ task[t].pc = "read"
        /\ \E pool \in Quotable(task[t].at), budget \in BudgetsOf(on.run) \ {Null} :
              Go(t, [task[t] EXCEPT !.pc = "generate", !.attempt = 1, !.pool = pool, !.budget = budget])
        /\ choices' = [choices EXCEPT ![n] = @ + 1]
        /\ pending' = [pending EXCEPT ![n] =
                          [no |-> choices[n] + 1, run |-> on.run]]
        /\ UNCHANGED <<blackboard, cluster, rpc, award, processed, bandit>>

\* The quote is taken, the pair is processed, the loop goes on.
Quoted(t, quote) ==
    LET seen == processed[t[2]] \cup {Of(task[t].at)}
    IN  /\ processed' = [processed EXCEPT ![t[2]] = seen]
        /\ Go(t, Onward(task[t].at - 1, seen, Append(task[t].quotes, quote)))

\* Mutant: the budget is compared with the unit price.
ApprovedUnit(step, q) == q.price <= MaxPrice /\ q.lead <= MaxLead /\ q.price <= step.budget

\* symbolic_validate of a quote, of as many units as the pool has; price and
\* lead are positive by the schema.
Approved(step, q) ==
    q.price <= MaxPrice /\ q.lead <= MaxLead /\ q.price * step.pool.quantity <= step.budget

\* The quote of the evaluation in hand.
QuoteOf(step, names, price, lead, neuro) ==
    [run |-> scores[step.at].run, sup |-> scores[step.at].sup, pool |-> step.pool,
     names |-> names, price |-> price, lead |-> lead, neuro |-> neuro]

\* The model answered and the kernel approved: the answer is the quote as it is.
Accept(t) ==
    /\ task[t].pc = "generate"
    /\ \E q \in Replies : /\ Approved(task[t], q)
                          /\ Quoted(t, QuoteOf(task[t], q.names, q.price, q.lead, TRUE))
    /\ UNCHANGED <<blackboard, cluster, rpc, award, pending, bandit, choices>>

\* Mutant: a failed attempt is not counted.
RetryForever(t) ==
    /\ task[t].pc = "generate" /\ task[t].attempt < MaxAttempts
    /\ Go(t, task[t])
    /\ UNCHANGED <<blackboard, cluster, rpc, award, processed, pending, bandit, choices>>

\* The model failed, or the kernel rejected what it said: once more, corrected.
Retry(t) ==
    /\ task[t].pc = "generate" /\ task[t].attempt < MaxAttempts
    /\ Go(t, [task[t] EXCEPT !.attempt = @ + 1])
    /\ UNCHANGED <<blackboard, cluster, rpc, award, processed, pending, bandit, choices>>

\* The attempts are spent: _generate_quote, which no budget is compared with.
FallBack(t) ==
    LET sup == scores[task[t].at].sup
    IN  /\ task[t].pc = "generate" /\ task[t].attempt = MaxAttempts
        /\ \E floor \in FloorPrices : Quoted(t, QuoteOf(task[t], sup, floor, 1, FALSE))
        /\ UNCHANGED <<blackboard, cluster, rpc, award, pending, bandit, choices>>

\* act: one write per quote.
Act(t) ==
    /\ task[t].pc = "act"
    /\ IF task[t].quotes = <<>>
       THEN Go(t, [Idle EXCEPT !.pc = "done"]) /\ UNCHANGED deals
       ELSE /\ deals' = Append(deals, Head(task[t].quotes))
            /\ Go(t, [task[t] EXCEPT !.quotes = Tail(@)])
    /\ UNCHANGED <<required, found, scores, decision, cluster, rpc, award, processed, pending,
                   bandit, choices>>
-----------------------------------------------------------------------------
StepOf(t) == \/ Perceive(t) \/ Reason(t) \/ Skip(t) \/ Raise(t) \/ Select(t)
             \/ Accept(t) \/ Retry(t) \/ FallBack(t) \/ Act(t)
CallOf(r) == Evaluate(r) \/ Buyer(r) \/ ReadDeals(r) \/ Credit(r)

Next == \/ Start \/ Shutdown
        \/ \E n \in Negotiators : Crash(n)
        \/ \E r \in Runs : Submit(r) \/ Scout(r) \/ CallOf(r)
        \/ \E t \in Tasks : StepOf(t)

\* asyncio.gather awaits every step and the driver's coroutine every call; a
\* step awaits only answers that come or fail.  Nothing obliges a caller.
Fairness == /\ \A r \in Runs : WF_vars(CallOf(r))
            /\ \A t \in Tasks : WF_vars(StepOf(t))

Spec == Init /\ [][Next]_vars
FairSpec == Spec /\ Fairness
-----------------------------------------------------------------------------
\* A quote of the model that reaches DEAL, and so the buyer, is within the
\* limits of the kernel, is for a supplier on a list of its own run, and for as
\* many units as that list has within the budget of its own run, however the
\* steps of several runs, the retries and the restarts of the negotiators
\* interleave (the kernel as "root of trust", bridge.py:221-247).  It is the
\* list's quantity, not the requirement's.
OnlyVerified ==
    \A i \in DOMAIN deals :
        LET deal == deals[i] IN deal.neuro =>
        /\ deal.price <= MaxPrice /\ deal.lead \in 1..MaxLead
        /\ \E k \in Lists(deal.run) : found[k].pool = deal.pool
        /\ deal.sup \in Range(deal.pool.sups)
        /\ \E k \in DOMAIN required : /\ required[k].run = deal.run
                                     /\ deal.price * deal.pool.quantity <= required[k].budget

\* A bandit learns from a choice at most once: the steps of a negotiator and
\* the rewards of several runs share _current_strategy, which is read, rewarded
\* and reset by each (negotiator.py:350-373).
CreditedOnce ==
    \A n \in Negotiators : up =>
        /\ IsInjective([i \in DOMAIN bandit[n] |-> bandit[n][i].no])
        /\ pending[n] # None => \A i \in DOMAIN bandit[n] : bandit[n][i].no # pending[n].no

\* Of a run that no other overlapped, no restart of a negotiator met and that
\* found nothing of another left over, the reward is that of a quote of that
\* run, where one names the supplier awarded, and goes, where a negotiator has
\* quoted for it, to a strategy chosen for that run (cluster.py:331-347).
CreditsOwn ==
    \A r \in Runs : rpc[r] = "credit" /\ r \notin disturbed =>
        /\ (\E i \in DOMAIN deals : deals[i].run = r /\ deals[i].names = decision[r])
              => award[r].quote = r
        /\ \A n \in Negotiators : pending[n] # None /\ (\E s \in Suppliers : <<r, s>> \in processed[n])
              => pending[n].run = r

\* Every call of run_procurement returns, though the model fails every time and
\* the kernel rejects whatever it says: the attempts are counted (bridge.py:162).
Returns == \A r \in Runs : rpc[r] # "new" ~> rpc[r] = "done"

\* What the negotiators' bandits have learned is in the file when the cluster
\* has been shut down (README.md:250, "persisted across cluster restarts").
LearningSaved ==
    [][up /\ ~up' => \A n \in Negotiators : bandit[n] # <<>> => bandit[n] = file']_vars
=============================================================================
