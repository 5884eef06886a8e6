-------------------------------- MODULE Mesh --------------------------------
(***************************************************************************)
(* The stigmergic procurement mesh: calls of                               *)
(* ProcurementCluster.run_procurement drive pools of scout, evaluator and  *)
(* negotiator actors and the single buyer through one step() each; the     *)
(* actors talk only through the blackboard.                                *)
(*                                                                         *)
(* The blackboard is a synchronous Ray actor: each of its calls is atomic. *)
(* The four archetypes are asyncio actors: two steps of one actor, asked   *)
(* for by two runs, interleave wherever a step awaits.  A step is a task   *)
(* <<run, actor>>; an action below ends at the next await of its code.     *)
(*                                                                         *)
(* Modelled without an LLM (neuro_llm_config = None, the default): the     *)
(* neuro helpers then return without suspending.  The safety kernel is an  *)
(* actor of its own: it approves every step, since the payload step()      *)
(* hands it has only the key "proposals", but it can die like the others   *)
(* and is never restarted.  The blackboard actor and Ray itself do not.    *)
(***************************************************************************)
EXTENDS Channels, FiniteSets

CONSTANTS
    Runs,           \* calls of run_procurement
    Corrs,          \* correlation ids
    CorrOf,         \* the correlation id of each run's requirement
    Pool,           \* the suppliers of a scout's pool, in template order
    Scouts, Evaluators, Negotiators, Buyer, Kernel,
    NoCorr, NoSupplier,
    BadQuantity,    \* correlations whose quantity int() refuses
    BadBudget,      \* correlations whose budget float() refuses
    PolicyOk(_, _), \* may this supplier be awarded, requirement in sight or not
    Composite(_, _),\* MCDA score of this supplier, rounded
    Initial(_),     \* ord() of the first character of a supplier's id
    MaxActive,      \* calls of run_procurement clients keep open at once
    Fallible,       \* actors, the kernel included, whose process may die
    MaxMortal,      \* how many of them die at all
    MaxRestarts, MaxRetries,     \* Ray options of the three pools
    ReqLimit, DiscLimit, PoolLimit, SizeLimit, ScoreLimit, BuyerLimit,
    DecisionLimit   \* the limit= of each read

Suppliers == {Pool[k] : k \in DOMAIN Pool}
Actors == Scouts \cup Evaluators \cup Negotiators \cup {Buyer}
Processes == Actors \cup {Kernel}
Tasks == Runs \X Actors
TraceIds == Channels \X Nat

ASSUME RunsAssumption == CorrOf \in [Runs -> Corrs] /\ NoCorr \notin Corrs
ASSUME PoolAssumption ==
    Len(Pool) \in Nat \ {0} /\ Pool \in Seq(Suppliers) /\ NoSupplier \notin Suppliers
ASSUME ActorsAssumption ==
    /\ Scouts \cap Evaluators = {}
    /\ Scouts \cap Negotiators = {}
    /\ Evaluators \cap Negotiators = {}
    /\ Buyer \notin Scouts \cup Evaluators \cup Negotiators
    /\ Kernel \notin Actors
    /\ Fallible \subseteq Processes
ASSUME ScoreAssumption ==
    \A s \in Suppliers, b \in BOOLEAN :
        PolicyOk(s, b) \in BOOLEAN /\ Composite(s, b) \in Int /\ Initial(s) \in Int
ASSUME BoundsAssumption ==
    /\ MaxActive \in Nat /\ MaxMortal \in Nat /\ MaxRestarts \in Nat /\ MaxRetries \in Nat
    /\ \A limit \in {ReqLimit, DiscLimit, PoolLimit, SizeLimit, ScoreLimit,
                     BuyerLimit, DecisionLimit} : limit \in Nat \ {0}

TraceTypes == {"requirement", "supplier_list", "supplier_discovered",
               "evaluation", "risk_assessment", "quote", "award",
               "policy_rejection", "insufficient_candidates", "failure"}

\* ChannelTrace; `sized` is the part of a risk assessment that differs between
\* two of them: the requirement was in sight, or the default quantity was used.
Trace == [by : Archetypes, type : TraceTypes, corr : Corrs \cup {NoCorr},
          sup : Suppliers \cup {NoSupplier}, parents : SUBSET TraceIds,
          sized : BOOLEAN]

VARIABLES
    log,        \* DistributedBlackboard._channels
    rpc,        \* where each call of run_procurement stands
    result,     \* the DECISION trace a call returned, 0 for None
    handled,    \* _processed_requirements / _suppliers / _decisions of each actor
    crashes,    \* times each process died
    task        \* the step() each run asked of each actor

vars == <<log, rpc, result, handled, crashes, task>>

(***************************************************************************)
(* The locals of a step: what it perceived (the size of the channel it     *)
(* read; a buyer's sizes of DEAL, RISK and SCORE), the trace its loop is   *)
(* at, what a read inside the loop found, the proposals collected so far   *)
(* and, while acting, how many traces of the current proposal are written. *)
(* A proposal is kept with the position of the trace it answers, which     *)
(* orders the proposals of a step: newest first.                           *)
(***************************************************************************)
Idle == [pc |-> "idle", tries |-> 0, seen |-> 0, risks |-> 0, scores |-> 0,
         pos |-> 0, ref |-> 0, stage |-> 0, plan |-> {}]
Done == [Idle EXCEPT !.pc = "done"]
Failed == [Idle EXCEPT !.pc = "failed"]

PCs == {"idle", "perceive", "risks", "scores", "reason", "pool", "size",
        "mark", "verdict", "act", "fail", "done", "failed"}
\* Proposals in hand: the kernel is asked, or a part of them is written.
Writing == {"verdict", "act"}
Proposal == [src : Nat, post : Trace]
TaskState == [pc : PCs, tries : Nat, seen : Nat, risks : Nat, scores : Nat,
              pos : Nat, ref : Nat, stage : Nat, plan : SUBSET Proposal]

InFlight(t) == task[t].pc \notin {"idle", "done", "failed"}
Ended(t) == task[t].pc \in {"done", "failed"}

\* Mutant: no task is retried.
NoRetries(a) == 0

RestartsOf(a) == IF a \in {Buyer, Kernel} THEN 0 ELSE MaxRestarts
RetriesOf(a) == IF a = Buyer THEN 0 ELSE MaxRetries
Alive(a) == crashes[a] <= RestartsOf(a)

\* Mutant: the newest trace is kept in front.
PostInFront(ch, trace) ==
    /\ CanWrite(trace.by, ch)
    /\ log' = [log EXCEPT ![ch] = <<trace>> \o @]

\* DistributedBlackboard.write by an archetype whose capability allows it.
Post(ch, trace) ==
    /\ CanWrite(trace.by, ch)
    /\ log' = [log EXCEPT ![ch] = Append(@, trace)]

Step(t, state) == task' = [task EXCEPT ![t] = state]

\* After a write: go on writing, or return from step().  After reasoning: ask
\* the kernel first, which a step with nothing to write does unseen unless the
\* kernel may die.
Acting(state, plan) ==
    IF plan = {} /\ (state.pc \in Writing \/ Kernel \notin Fallible) THEN Done
    ELSE [state EXCEPT !.pc = IF @ \in Writing THEN "act" ELSE "verdict",
                       !.pos = 0, !.ref = 0, !.stage = 0, !.plan = plan]

\* An exception in a step: its proposals are gone, the marks it made stay.
Raised(state) == [Idle EXCEPT !.pc = "fail", !.tries = state.tries]

\* What reason() returned goes to the kernel; the call to a dead one raises.
Reasoned(state, plan) == IF Alive(Kernel) THEN Acting(state, plan) ELSE Raised(state)

\* The proposal of a step that is being written.
IsCurrent(state, p) == p \in state.plan /\ \A q \in state.plan : q.src <= p.src

Init ==
    /\ log = [ch \in Channels |-> <<>>]
    /\ rpc = [r \in Runs |-> "new"]
    /\ result = [r \in Runs |-> 0]
    /\ handled = [a \in Actors |-> {}]
    /\ crashes = [a \in Processes |-> 0]
    /\ task = [t \in Tasks |-> Idle]
-----------------------------------------------------------------------------
(***************************************************************************)
(* ProcurementCluster.run_procurement                                      *)
(***************************************************************************)
Active == {r \in Runs : rpc[r] \notin {"new", "done", "raised"}}

\* Ask each actor of a pool for a step; a dead actor answers with an error.
Launch(r, actors) ==
    task' = [t \in Tasks |->
                IF t[1] = r /\ t[2] \in actors
                THEN IF Alive(t[2]) THEN [Idle EXCEPT !.pc = "perceive"] ELSE Failed
                ELSE task[t]]

Submit(r) ==
    /\ rpc[r] = "new"
    /\ Cardinality(Active) < MaxActive
    /\ Post("requirement",
            [by |-> "kernel", type |-> "requirement", corr |-> CorrOf[r],
             sup |-> NoSupplier, parents |-> {}, sized |-> FALSE])
    /\ rpc' = [rpc EXCEPT ![r] = "scouts"]
    /\ Launch(r, Scouts)
    /\ UNCHANGED <<result, handled, crashes>>

\* Mutant: the steps of a phase are started but not awaited.
GatheredUnawaited(r, phase, actors, next, nextActors) ==
    /\ rpc[r] = phase
    /\ rpc' = [rpc EXCEPT ![r] = next]
    /\ Launch(r, nextActors)
    /\ UNCHANGED <<log, result, handled, crashes>>

\* asyncio.gather(..., return_exceptions=True): the phase ends when every
\* step of it returned or raised, and the next phase starts.
Gathered(r, phase, actors, next, nextActors) ==
    /\ rpc[r] = phase
    /\ \A a \in actors : Ended(<<r, a>>)
    /\ rpc' = [rpc EXCEPT ![r] = next]
    /\ Launch(r, nextActors)
    /\ UNCHANGED <<log, result, handled, crashes>>

GatherScouts(r)      == Gathered(r, "scouts", Scouts, "evaluators", Evaluators)
GatherEvaluators(r)  == Gathered(r, "evaluators", Evaluators, "negotiators", Negotiators)
GatherNegotiators(r) == Gathered(r, "negotiators", Negotiators, "buyer", {Buyer})

\* Mutant: only a buyer that answers ends the wait for it.
BuyerAnswered(r) ==
    /\ rpc[r] = "buyer"
    /\ task[<<r, Buyer>>].pc = "done"
    /\ rpc' = [rpc EXCEPT ![r] = "read"]
    /\ UNCHANGED <<log, result, handled, crashes, task>>

\* The buyer's step is awaited outside gather: its error is the run's error.
BuyerReturned(r) ==
    /\ rpc[r] = "buyer"
    /\ Ended(<<r, Buyer>>)
    /\ rpc' = [rpc EXCEPT
                 ![r] = IF task[<<r, Buyer>>].pc = "done" THEN "read" ELSE "raised"]
    /\ UNCHANGED <<log, result, handled, crashes, task>>

\* The newest of the last DecisionLimit decisions with the run's correlation
\* id.  (Without a neuro strategy in flight the bandit update that follows
\* returns at once.)
ReadDecision(r) ==
    /\ rpc[r] = "read"
    /\ LET decisions == log["decision"]
           own == {i \in Window(Len(decisions), DecisionLimit) :
                       decisions[i].corr = CorrOf[r]}
       IN result' = [result EXCEPT ![r] = IF own = {} THEN 0 ELSE Newest(own)]
    /\ rpc' = [rpc EXCEPT ![r] = "done"]
    /\ UNCHANGED <<log, handled, crashes, task>>
-----------------------------------------------------------------------------
(***************************************************************************)
(* MeshActor.step: perceive, reason, validate, act.                        *)
(***************************************************************************)
Perceive(t, ch) ==
    /\ task[t].pc = "perceive"
    /\ Step(t, [task[t] EXCEPT !.pc = "reason", !.seen = Len(log[ch]),
                               !.pos = Len(log[ch]) + 1])
    /\ UNCHANGED <<log, rpc, result, handled, crashes>>

\* The kernel died before its verdict on this step came; writes from pc
\* "verdict" are those of steps whose verdict had come by then.
KernelLost(t) ==
    /\ task[t].pc = "verdict" /\ ~Alive(Kernel)
    /\ Step(t, Raised(task[t]))
    /\ UNCHANGED <<log, rpc, result, handled, crashes>>

\* The kernel let pass a step that found nothing to propose.
NothingToWrite(t) ==
    /\ task[t].pc = "verdict" /\ task[t].plan = {}
    /\ Step(t, Done)
    /\ UNCHANGED <<log, rpc, result, handled, crashes>>

ArchetypeOf(a) ==
    CASE a \in Scouts -> "scout"
      [] a \in Evaluators -> "evaluator"
      [] a \in Negotiators -> "negotiator"
      [] OTHER -> "buyer"

Failure(a) == [by |-> ArchetypeOf(a), type |-> "failure", corr |-> NoCorr,
               sup |-> NoSupplier, parents |-> {}, sized |-> FALSE]

\* Mutant: every archetype reports to DISCOVERY, the scouts' channel.
FailureToDiscovery(t) ==
    /\ task[t].pc = "fail"
    /\ IF CanWrite(ArchetypeOf(t[2]), "discovery")
       THEN Post("discovery", Failure(t[2]))
       ELSE UNCHANGED log
    /\ Step(t, Done)
    /\ UNCHANGED <<rpc, result, handled, crashes>>

\* The except of step(): a failure trace, unless the archetype may not write
\* the channel; the blackboard's refusal is suppressed.
DepositFailure(t) ==
    LET ch == IF t[2] \in Scouts THEN "discovery" ELSE "score" IN
    /\ task[t].pc = "fail"
    /\ IF CanWrite(ArchetypeOf(t[2]), ch) THEN Post(ch, Failure(t[2])) ELSE UNCHANGED log
    /\ Step(t, Done)
    /\ UNCHANGED <<rpc, result, handled, crashes>>

(***************************************************************************)
(* ScoutActor.  reason() does not suspend: it answers every requirement in *)
(* sight whose correlation id this scout has not handled, newest first,    *)
(* until one of them makes int() raise.                                    *)
(***************************************************************************)
ScoutPerceive(t) == t[2] \in Scouts /\ Perceive(t, "requirement")

ListProposal(i) ==
    [src |-> i,
     post |-> [by |-> "scout", type |-> "supplier_list",
               corr |-> log["requirement"][i].corr, sup |-> NoSupplier,
               parents |-> {<<"requirement", i>>}, sized |-> FALSE]]

ScoutReason(t) ==
    LET corr(i) == log["requirement"][i].corr
        window == Window(task[t].seen, ReqLimit)
        fresh == {i \in window : /\ <<corr(i), NoSupplier>> \notin handled[t[2]]
                                 /\ \A j \in window : j > i => corr(j) # corr(i)}
        raising == {i \in fresh : corr(i) \in BadQuantity}
        answered == {i \in fresh : \A j \in raising : i > j}
    IN /\ t[2] \in Scouts
       /\ task[t].pc = "reason"
       /\ handled' = [handled EXCEPT
                        ![t[2]] = @ \cup {<<corr(i), NoSupplier>> : i \in answered}]
       /\ Step(t, IF raising # {} THEN Raised(task[t])
                  ELSE Reasoned(task[t], {ListProposal(i) : i \in answered}))
       /\ UNCHANGED <<log, rpc, result, crashes>>

\* act(): the pool, then one trace per supplier of the pool.
ScoutPostList(t) ==
    /\ t[2] \in Scouts
    /\ task[t].pc \in Writing /\ task[t].stage = 0
    /\ \E p \in task[t].plan :
          /\ IsCurrent(task[t], p)
          /\ Post("discovery", p.post)
    /\ Step(t, [task[t] EXCEPT !.pc = "act", !.stage = 1, !.ref = Len(log["discovery"]) + 1])
    /\ UNCHANGED <<rpc, result, handled, crashes>>

ScoutPostSupplier(t) ==
    /\ t[2] \in Scouts
    /\ task[t].pc \in Writing /\ task[t].stage > 0
    /\ \E p \in task[t].plan :
          /\ IsCurrent(task[t], p)
          /\ Post("discovery",
                  [by |-> "scout", type |-> "supplier_discovered", corr |-> p.post.corr,
                   sup |-> Pool[task[t].stage],
                   parents |-> {<<"discovery", task[t].ref>>}, sized |-> FALSE])
          /\ Step(t, IF task[t].stage < Len(Pool)
                     THEN [task[t] EXCEPT !.stage = @ + 1]
                     ELSE Acting(task[t], task[t].plan \ {p}))
    /\ UNCHANGED <<rpc, result, handled, crashes>>
-----------------------------------------------------------------------------
(***************************************************************************)
(* The loop evaluators and negotiators share: newest first, stop at the    *)
(* next trace of the wanted type whose <<correlation, supplier>> this      *)
(* actor has not handled, and read the pool for it.  The test and the mark *)
(* that follows the reads are in different atomic stretches.               *)
(***************************************************************************)
\* Mutant: the pair the other way round.
KeySwapped(trace) == <<trace.sup, trace.corr>>
Key(trace) == <<trace.corr, trace.sup>>

NextTrace(t, state, done, ch, limit, type) ==
    LET fresh == {i \in Window(state.seen, limit) :
                     /\ i < state.pos
                     /\ log[ch][i].type = type
                     /\ Key(log[ch][i]) \notin done}
    IN Step(t, IF fresh = {} THEN Reasoned(state, state.plan)
               ELSE [state EXCEPT !.pc = "pool", !.pos = Newest(fresh), !.ref = 0])

\* Mutant: any pool in sight will do.
AnyPoolInSight(corr) ==
    {i \in Window(Len(log["discovery"]), PoolLimit) :
        log["discovery"][i].type = "supplier_list"}

PoolsInSight(corr) ==
    {i \in Window(Len(log["discovery"]), PoolLimit) :
        log["discovery"][i].type = "supplier_list" /\ log["discovery"][i].corr = corr}

(***************************************************************************)
(* EvaluatorActor.  The pool trace of the discovery is looked for by id,   *)
(* then by correlation id; a pool with that id has that correlation id, so *)
(* one is found iff the second search finds one.                           *)
(***************************************************************************)
EvaluatorPerceive(t) == t[2] \in Evaluators /\ Perceive(t, "discovery")

EvaluatorScan(t) ==
    /\ t[2] \in Evaluators
    /\ task[t].pc = "reason"
    /\ NextTrace(t, task[t], handled[t[2]], "discovery", DiscLimit, "supplier_discovered")
    /\ UNCHANGED <<log, rpc, result, handled, crashes>>

EvaluatorReadPool(t) ==
    /\ t[2] \in Evaluators
    /\ task[t].pc = "pool"
    /\ Step(t, [task[t] EXCEPT
                  !.pc = IF PoolsInSight(log["discovery"][task[t].pos].corr) = {}
                         THEN "reason" ELSE "size"])
    /\ UNCHANGED <<log, rpc, result, handled, crashes>>

EvaluatorReadRequirement(t) ==
    LET corr == log["discovery"][task[t].pos].corr
        found == {i \in Window(Len(log["requirement"]), SizeLimit) :
                     log["requirement"][i].corr = corr}
    IN /\ t[2] \in Evaluators
       /\ task[t].pc = "size"
       /\ Step(t, [task[t] EXCEPT !.pc = "mark",
                                  !.ref = IF found = {} THEN 0 ELSE Newest(found)])
       /\ UNCHANGED <<log, rpc, result, handled, crashes>>

EvaluationProposal(t) ==
    LET found == log["discovery"][task[t].pos] IN
    [src |-> task[t].pos,
     post |-> [by |-> "evaluator", type |-> "evaluation", corr |-> found.corr,
               sup |-> found.sup, parents |-> {<<"discovery", task[t].pos>>},
               sized |-> task[t].ref # 0]]

\* _compute_risk raises on a budget that is no number, when it has it in hand.
EvaluatorMark(t) ==
    LET key == Key(log["discovery"][task[t].pos])
        done == handled[t[2]] \cup {key}
    IN /\ t[2] \in Evaluators
       /\ task[t].pc = "mark"
       /\ IF task[t].ref # 0 /\ key[1] \in BadBudget
          THEN Step(t, Raised(task[t])) /\ UNCHANGED handled
          ELSE /\ handled' = [handled EXCEPT ![t[2]] = done]
               /\ NextTrace(t, [task[t] EXCEPT !.plan = @ \cup {EvaluationProposal(t)}],
                            done, "discovery", DiscLimit, "supplier_discovered")
       /\ UNCHANGED <<log, rpc, result, crashes>>

\* act(): the evaluation, then the risk assessment whose parent it is.
EvaluatorPostScore(t) ==
    /\ t[2] \in Evaluators
    /\ task[t].pc \in Writing /\ task[t].stage = 0
    /\ \E p \in task[t].plan :
          /\ IsCurrent(task[t], p)
          /\ Post("score", p.post)
    /\ Step(t, [task[t] EXCEPT !.pc = "act", !.stage = 1, !.ref = Len(log["score"]) + 1])
    /\ UNCHANGED <<rpc, result, handled, crashes>>

\* Mutant: act() returns inside its loop.
EvaluatorPostOneRisk(t) ==
    /\ t[2] \in Evaluators
    /\ task[t].pc \in Writing /\ task[t].stage = 1
    /\ \E p \in task[t].plan :
          /\ IsCurrent(task[t], p)
          /\ Post("risk", [p.post EXCEPT !.type = "risk_assessment",
                                         !.parents = {<<"score", task[t].ref>>}])
          /\ Step(t, Done)
    /\ UNCHANGED <<rpc, result, handled, crashes>>

EvaluatorPostRisk(t) ==
    /\ t[2] \in Evaluators
    /\ task[t].pc \in Writing /\ task[t].stage = 1
    /\ \E p \in task[t].plan :
          /\ IsCurrent(task[t], p)
          /\ Post("risk", [p.post EXCEPT !.type = "risk_assessment",
                                         !.parents = {<<"score", task[t].ref>>}])
          /\ Step(t, Acting(task[t], task[t].plan \ {p}))
    /\ UNCHANGED <<rpc, result, handled, crashes>>
-----------------------------------------------------------------------------
(***************************************************************************)
(* NegotiatorActor, deterministic quotes.  It also reads REQUIREMENT, for  *)
(* a budget only the neuro path uses: that wait is the gap between reading *)
(* the pool and marking.                                                   *)
(***************************************************************************)
NegotiatorPerceive(t) == t[2] \in Negotiators /\ Perceive(t, "score")

NegotiatorScan(t) ==
    /\ t[2] \in Negotiators
    /\ task[t].pc = "reason"
    /\ NextTrace(t, task[t], handled[t[2]], "score", ScoreLimit, "evaluation")
    /\ UNCHANGED <<log, rpc, result, handled, crashes>>

NegotiatorReadPool(t) ==
    LET pools == PoolsInSight(log["score"][task[t].pos].corr) IN
    /\ t[2] \in Negotiators
    /\ task[t].pc = "pool"
    /\ Step(t, IF pools = {} THEN [task[t] EXCEPT !.pc = "reason"]
               ELSE [task[t] EXCEPT !.pc = "mark", !.ref = Newest(pools)])
    /\ UNCHANGED <<log, rpc, result, handled, crashes>>

QuoteProposal(t) ==
    LET scored == log["score"][task[t].pos] IN
    [src |-> task[t].pos,
     post |-> [by |-> "negotiator", type |-> "quote", corr |-> scored.corr,
               sup |-> scored.sup, sized |-> FALSE,
               parents |-> {<<"score", task[t].pos>>, <<"discovery", task[t].ref>>}]]

NegotiatorMark(t) ==
    LET done == handled[t[2]] \cup {Key(log["score"][task[t].pos])} IN
    /\ t[2] \in Negotiators
    /\ task[t].pc = "mark"
    /\ handled' = [handled EXCEPT ![t[2]] = done]
    /\ NextTrace(t, [task[t] EXCEPT !.plan = @ \cup {QuoteProposal(t)}],
                 done, "score", ScoreLimit, "evaluation")
    /\ UNCHANGED <<log, rpc, result, crashes>>

NegotiatorPostQuote(t) ==
    /\ t[2] \in Negotiators
    /\ task[t].pc \in Writing
    /\ \E p \in task[t].plan :
          /\ IsCurrent(task[t], p)
          /\ Post("deal", p.post)
          /\ Step(t, Acting(task[t], task[t].plan \ {p}))
    /\ UNCHANGED <<rpc, result, handled, crashes>>
-----------------------------------------------------------------------------
(***************************************************************************)
(* BuyerActor.  perceive() reads DEAL, RISK and SCORE in three calls;      *)
(* reason() does not suspend.                                              *)
(***************************************************************************)
BuyerReadDeals(t) ==
    /\ t[2] = Buyer /\ task[t].pc = "perceive"
    /\ Step(t, [task[t] EXCEPT !.pc = "risks", !.seen = Len(log["deal"])])
    /\ UNCHANGED <<log, rpc, result, handled, crashes>>

BuyerReadRisks(t) ==
    /\ t[2] = Buyer /\ task[t].pc = "risks"
    /\ Step(t, [task[t] EXCEPT !.pc = "scores", !.risks = Len(log["risk"])])
    /\ UNCHANGED <<log, rpc, result, handled, crashes>>

BuyerReadScores(t) ==
    /\ t[2] = Buyer /\ task[t].pc = "scores"
    /\ Step(t, [task[t] EXCEPT !.pc = "reason", !.scores = Len(log["score"])])
    /\ UNCHANGED <<log, rpc, result, handled, crashes>>

\* The traces of a channel in the buyer's hands for one supplier of a run.
\* The loops go newest first and overwrite: the oldest of them is used.
InHand(ch, top, type, corr, sup) ==
    {i \in Window(top, BuyerLimit) : /\ log[ch][i].type = type
                                     /\ log[ch][i].corr = corr
                                     /\ log[ch][i].sup = sup}
Deals(state, c, s)  == InHand("deal", state.seen, "quote", c, s)
Risks(state, c, s)  == InHand("risk", state.risks, "risk_assessment", c, s)
\* Mutant: the size of RISK taken for the size of SCORE.
ScoresUpToRisks(state, c, s) == InHand("score", state.risks, "evaluation", c, s)
Scores(state, c, s) == InHand("score", state.scores, "evaluation", c, s)

\* Mutant: the policy filter comes before the ranking.
CandidatesFiltered(state, c) ==
    {s \in Suppliers : Deals(state, c, s) # {} /\ Scores(state, c, s) # {} /\ PolicyOk(s, TRUE)}
Candidates(state, c) == {s \in Suppliers : Deals(state, c, s) # {} /\ Scores(state, c, s) # {}}
Sized(state, c, s) == log["risk"][Oldest(Risks(state, c, s))].sized
\* Mutant: no assessment, no objection.
ValidUnlessRefused(state, c) ==
    {s \in Candidates(state, c) : Risks(state, c, s) # {} => PolicyOk(s, Sized(state, c, s))}
Valid(state, c) == {s \in Candidates(state, c) :
                       Risks(state, c, s) # {} /\ PolicyOk(s, Sized(state, c, s))}

\* max() over the candidates in the order of their newest deals, by score and
\* then by the first character of the id: ties go to the first of them.
Precedes(state, c, s, other) ==
    LET score(x) == Composite(x, Sized(state, c, x)) IN
    \/ score(s) > score(other)
    \/ /\ score(s) = score(other)
       /\ \/ Initial(s) < Initial(other)
          \/ /\ Initial(s) = Initial(other)
             /\ Newest(Deals(state, c, s)) >= Newest(Deals(state, c, other))

IsWinner(state, c, s) ==
    s \in Valid(state, c) /\ \A other \in Valid(state, c) : Precedes(state, c, s, other)

DealtCorrs(state) == {log["deal"][i].corr : i \in Window(state.seen, BuyerLimit)}

\* The correlation ids the buyer has quotes of and has not awarded yet; those
\* of them with a supplier the policy lets pass.
Open(state) == {c \in DealtCorrs(state) : <<c, NoSupplier>> \notin handled[Buyer]}
Awardable(state) == {c \in Open(state) : Valid(state, c) # {}}

\* The decision on one correlation id: an award to its winner with everything
\* that was ranked as parents, or a rejection without parents.
Decision(state, c, winner) ==
    LET ranked == Candidates(state, c)
        awarded == c \in Awardable(state)
        parents == {<<"deal", Oldest(Deals(state, c, s))>> : s \in ranked}
              \cup {<<"score", Oldest(Scores(state, c, s))>> : s \in ranked}
              \cup {<<"risk", Oldest(Risks(state, c, s))>> :
                        s \in {x \in ranked : Risks(state, c, x) # {}}}
    IN [src |-> Newest({i \in Window(state.seen, BuyerLimit) : log["deal"][i].corr = c}),
        post |-> [by |-> "buyer", corr |-> c, sized |-> FALSE,
                  type |-> IF awarded THEN "award"
                           ELSE IF ranked = {} THEN "insufficient_candidates"
                           ELSE "policy_rejection",
                  sup |-> IF awarded THEN winner[c] ELSE NoSupplier,
                  parents |-> IF awarded THEN parents ELSE {}]]

\* Mutant: an award does not mark its correlation id.
BuyerForgets(t) ==
    /\ t[2] = Buyer /\ task[t].pc = "reason"
    /\ \E winner \in [Awardable(task[t]) -> Suppliers] :
          /\ \A c \in Awardable(task[t]) : IsWinner(task[t], c, winner[c])
          /\ Step(t, Reasoned(task[t], {Decision(task[t], c, winner) : c \in Open(task[t])}))
    /\ UNCHANGED <<log, rpc, result, handled, crashes>>

\* Only an award marks its correlation id as processed.
BuyerReason(t) ==
    /\ t[2] = Buyer /\ task[t].pc = "reason"
    /\ \E winner \in [Awardable(task[t]) -> Suppliers] :
          /\ \A c \in Awardable(task[t]) : IsWinner(task[t], c, winner[c])
          /\ Step(t, Reasoned(task[t], {Decision(task[t], c, winner) : c \in Open(task[t])}))
    /\ handled' = [handled EXCEPT
                     ![Buyer] = @ \cup {<<c, NoSupplier>> : c \in Awardable(task[t])}]
    /\ UNCHANGED <<log, rpc, result, crashes>>

BuyerPostDecision(t) ==
    /\ t[2] = Buyer /\ task[t].pc \in Writing
    /\ \E p \in task[t].plan :
          /\ IsCurrent(task[t], p)
          /\ Post("decision", p.post)
          /\ Step(t, Acting(task[t], task[t].plan \ {p}))
    /\ UNCHANGED <<rpc, result, handled, crashes>>
-----------------------------------------------------------------------------

(***************************************************************************)
(* Ray (external): an actor's process dies.  While restarts are left a new *)
(* one starts with empty memory, and each step it was in is run again from *)
(* the top as long as that task has retries; otherwise its caller gets an  *)
(* exception.  What the dead process had written stays on the blackboard.  *)
(***************************************************************************)
Crash(a) ==
    LET restarted == crashes[a] < RestartsOf(a) IN
    /\ a \in Fallible /\ Alive(a)
    /\ Cardinality({b \in Processes \ {a} : crashes[b] > 0}) < MaxMortal
    /\ crashes' = [crashes EXCEPT ![a] = @ + 1]
    /\ handled' = [b \in Actors |-> IF b = a /\ restarted THEN {} ELSE handled[b]]
    /\ task' = [t \in Tasks |->
                  IF t[2] = a /\ InFlight(t)
                  THEN IF restarted /\ task[t].tries < RetriesOf(a)
                       THEN [Idle EXCEPT !.pc = "perceive", !.tries = task[t].tries + 1]
                       ELSE Failed
                  ELSE task[t]]
    /\ UNCHANGED <<log, rpc, result>>

RunStep(r) == \/ GatherScouts(r) \/ GatherEvaluators(r) \/ GatherNegotiators(r)
              \/ BuyerReturned(r) \/ ReadDecision(r)

ScoutStep(t) == \/ ScoutPerceive(t) \/ ScoutReason(t)
                \/ ScoutPostList(t) \/ ScoutPostSupplier(t)

EvaluatorStep(t) == \/ EvaluatorPerceive(t) \/ EvaluatorScan(t) \/ EvaluatorReadPool(t)
                    \/ EvaluatorReadRequirement(t) \/ EvaluatorMark(t)
                    \/ EvaluatorPostScore(t) \/ EvaluatorPostRisk(t)

NegotiatorStep(t) == \/ NegotiatorPerceive(t) \/ NegotiatorScan(t) \/ NegotiatorReadPool(t)
                     \/ NegotiatorMark(t) \/ NegotiatorPostQuote(t)

BuyerStep(t) == \/ BuyerReadDeals(t) \/ BuyerReadRisks(t) \/ BuyerReadScores(t)
                \/ BuyerReason(t) \/ BuyerPostDecision(t)

TaskStep(t) == \/ ScoutStep(t) \/ EvaluatorStep(t) \/ NegotiatorStep(t) \/ BuyerStep(t)
               \/ KernelLost(t) \/ NothingToWrite(t) \/ DepositFailure(t)

Next == \/ \E r \in Runs : Submit(r) \/ RunStep(r)
        \/ \E t \in Tasks : TaskStep(t)
        \/ \E a \in Fallible : Crash(a)

\* Ray runs every call it accepted and the event loop of a run goes on when
\* its gather is done; a client need not call and a process need not die.
Fairness == /\ \A r \in Runs : WF_vars(RunStep(r))
            /\ \A t \in Tasks : WF_vars(TaskStep(t))

Spec == Init /\ [][Next]_vars
FairSpec == Spec /\ Fairness
-----------------------------------------------------------------------------
(***************************************************************************)
(* Properties                                                              *)
(***************************************************************************)

\* The variables hold what the attributes of the code hold: traces on their
\* channels, correlation ids or pairs in the processed sets, and steps of the
\* actors in the places a step can be.
TypeOK ==
    /\ log \in [Channels -> Seq(Trace)]
    /\ rpc \in [Runs -> {"new", "scouts", "evaluators", "negotiators", "buyer",
                         "read", "done", "raised"}]
    /\ result \in [Runs -> Nat]
    /\ handled \in [Actors -> SUBSET ((Corrs \cup {NoCorr}) \X (Suppliers \cup {NoSupplier}))]
    /\ crashes \in [Processes -> Nat]
    /\ task \in [Tasks -> TaskState]

Decisions(types) == {i \in DOMAIN log["decision"] : log["decision"][i].type \in types}

\* A correlation id is awarded at most once, whatever runs, resubmissions,
\* restarts and retries overlap: the buyer tests and marks the id without
\* suspending, and is never restarted with an empty memory.
AwardedOnce ==
    \A i, j \in Decisions({"award"}) :
        log["decision"][i].corr = log["decision"][j].corr => i = j

\* The parents of an award, on a blackboard, that are of the awarded supplier.
Backing(board, award, ch) ==
    {id \in award.parents : /\ id[1] = ch /\ id[2] \in 1 .. Len(board[ch])
                            /\ Key(board[ch][id[2]]) = Key(award)}

Grounded(board, award) ==
    /\ Backing(board, award, "deal") # {}
    /\ Backing(board, award, "score") # {}
    /\ \E id \in Backing(board, award, "risk") :
           PolicyOk(award.sup, board["risk"][id[2]].sized)

\* An award rests on traces of its own correlation: the winner has a quote, an
\* evaluation and a risk assessment among the award's parents, and that very
\* assessment is one the policy filter lets pass.
AwardGrounded == \A i \in Decisions({"award"}) : Grounded(log, log["decision"][i])

\* The kinds of trace a trace descends from.
ParentTypes ==
    [type \in TraceTypes |->
        CASE type = "supplier_list"       -> {"requirement"}
          [] type = "supplier_discovered" -> {"supplier_list"}
          [] type = "evaluation"          -> {"supplier_discovered"}
          [] type = "risk_assessment"     -> {"evaluation"}
          [] type = "quote"               -> {"evaluation", "supplier_list"}
          [] type = "award"               -> {"quote", "evaluation", "risk_assessment"}
          [] OTHER                        -> {}]

Descends(board, trace) ==
    /\ \A id \in trace.parents :
          /\ id[2] \in 1 .. Len(board[id[1]])
          /\ LET parent == board[id[1]][id[2]] IN
             /\ parent.corr = trace.corr
             /\ parent.sup \in {trace.sup, NoSupplier} \/ trace.type = "award"
    /\ {board[id[1]][id[2]].type : id \in trace.parents} = ParentTypes[trace.type]

\* The lineage of every trace stays inside its own run: each parent is on the
\* blackboard, is of the kind the archetype was answering, and carries the same
\* correlation id and supplier, although two runs share every actor, every
\* channel and every read window.
Lineage == \A ch \in Channels : \A i \in DOMAIN log[ch] : Descends(log, log[ch][i])

\* The buyer reads the quotes before the evaluations and a quote is only made
\* of an evaluation that is written: no correlation with a quote in hand is
\* refused for want of a scored supplier.
NeverInsufficient == Decisions({"insufficient_candidates"}) = {}

Malformed(c) == c \in BadQuantity \cup BadBudget

\* No malformed requirement was on the blackboard when a call put its own there.
Undisturbed(r) ==
    \A i \in DOMAIN log["requirement"] : Malformed(log["requirement"][i].corr) =>
        \E j \in 1 .. i - 1 : log["requirement"][j].corr = CorrOf[r]

AllAlive == \A a \in Processes : Alive(a)

\* A call of run_procurement with a well-formed requirement and no malformed
\* one before it, on a cluster that has lost no process for good, returns the
\* final decision on it.
AnsweredWithDecision ==
    \A r \in Runs : (rpc[r] = "done" /\ Undisturbed(r) /\ AllAlive) =>
        result[r] # 0 /\ log["decision"][result[r]].corr = CorrOf[r]

Failures == {id \in UNION {{ch} \X DOMAIN log[ch] : ch \in Channels} :
                 log[id[1]][id[2]].type = "failure"}

\* The calls that came back without a decision are no more than the failure
\* traces: whichever archetype raised, and whatever that makes the later
\* phases and the later calls miss, the blackboard shows it.
FailuresShow ==
    AllAlive => Cardinality({r \in Runs : rpc[r] = "done" /\ result[r] = 0})
                    <= Cardinality(Failures)

\* An actor none of whose steps is under way has answered what it has marked.
AnswersMarks(a) ==
    (Alive(a) /\ Alive(Kernel) /\ \A r \in Runs : ~InFlight(<<r, a>>)) =>
        LET ch == IF a \in Evaluators THEN "score" ELSE "deal"
        IN handled[a] \subseteq {Key(log[ch][i]) : i \in DOMAIN log[ch]}

\* What an actor has marked as handled it has also answered once none of its
\* steps is under way, while the kernel lives: no supplier is passed over
\* because of a mark whose evaluation or quote was never written.
MarksAreAnswered == \A a \in Evaluators \cup Negotiators : AnswersMarks(a)

\* The award a run returns ranked every supplier of the pool: the decision was
\* not taken on a part of the quotes.
AwardRankedAll ==
    \A r \in Runs : (rpc[r] = "done" /\ result[r] # 0) =>
        LET decision == log["decision"][result[r]]
            ranked == {log["deal"][id[2]].sup : id \in {p \in decision.parents : p[1] = "deal"}}
        IN decision.type = "award" => ranked = Suppliers

\* Every call of run_procurement comes back, whatever its actors do: gather
\* collects the errors of dead actors and a dead buyer raises.
RunsReturn == \A r \in Runs : rpc[r] = "scouts" ~> rpc[r] \in {"done", "raised"}

\* The mesh uses the blackboard as an append-only log of capability-checked
\* traces whose parents are already there.
Blackboard == INSTANCE TraceLog
AppendOnly == Blackboard!Spec
=============================================================================
