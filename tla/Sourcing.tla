------------------------------- MODULE Sourcing -------------------------------
(***************************************************************************)
(* A procurement swarm (src/swarm) from the messages it is sent to the     *)
(* decisions it makes: the agents that source, the completion tracker, the *)
(* shared state and the recorded history, on one event loop.  Every agent  *)
(* is one object with fields of its own, whatever number of its steps are  *)
(* suspended at once.                                                      *)
(***************************************************************************)
EXTENDS SourcingRules, EventLoop, TLC

CONSTANTS
    Requests,   \* correlation ids: one message each
    Payload,    \* its intent, whether it makes a requirement, and what it asks for
    Later,      \* what is published behind a decision, one event after the other
    Ranks,      \* the orders handlers may be called in, for each type of event
    Overlap,    \* may a message arrive while the loop is at work?
    MaxReplays  \* calls of replay

ASSUME PayloadAssumption ==
    Payload \in [Requests -> [intent : {"create", "other", "lifecycle"}, valid : BOOLEAN,
                              quantity : Nat, budget : Nat, limit : Nat \cup {Unset}, target : Nat,
                              carbon : BOOLEAN]]
ASSUME BoundsAssumption == Overlap \in BOOLEAN /\ MaxReplays \in Nat

VARIABLES
    events,     \* SwarmState.events
    art,        \* SwarmState.artifacts
    expect,     \* SwarmState.expectations, in the order of their declaration
    closed,     \* the groups the tracker has closed, as the state knows them
    agent,      \* the fields of the agents that outlive a step
    sent, answered, \* messages sent, and those whose send_message has returned
    replays

vars == <<log, ready, tasks, rank, events, art, expect, closed, agent, sent, answered, replays>>

Event(type, cor, sup) == [type |-> type, cor |-> cor, sup |-> sup, replayed |-> FALSE]
NoSup == "none"
NoCor == "none"

Init ==
    /\ log = <<>> /\ ready = <<>> /\ tasks = <<>> /\ rank \in Ranks
    /\ events = <<>> /\ art = <<>> /\ expect = <<>> /\ closed = {}
    /\ agent = [requirement |-> [pending |-> FALSE, cor |-> NoCor],
                discovery |-> [cor |-> NoCor, pool |-> FALSE, done |-> {}],
                decision |-> [cor |-> NoCor, why |-> <<>>],
                analyzed |-> {}]
    /\ sent = {} /\ answered = {} /\ replays = 0

(***************************************************************************)
(* The shared state.                                                       *)
(***************************************************************************)
\* find_artifacts: those that match, by their place.
Find(kind, cor) == {i \in DOMAIN art : art[i].kind = kind /\ art[i].cor = cor}
Count(kind, cor) == Cardinality(Find(kind, cor))

\* get_artifact: the highest version, of equal ones the oldest.  All the
\* artifacts of a kind have one name, those of a supplier one for each.
Named(kind, sup) == {i \in DOMAIN art : art[i].kind = kind /\ art[i].sup = sup}
Known(kind, sup) == Named(kind, sup) # {}
Get(kind, sup) ==
    LET newest == {i \in Named(kind, sup) :
                     \A k \in Named(kind, sup) : art[k].version <= art[i].version}
    IN  art[Min(newest)]

Artifact(kind, cor, sup, data) ==
    [kind |-> kind, cor |-> cor, sup |-> sup, version |-> 1, data |-> data]
Put(a) == art' = Append(art, a)

\* The constraints the agents work with: those of the artifact "requirement".
Constraints == Requirement(Payload[Get("requirement", NoSup).cor])

(***************************************************************************)
(* build_procurement_swarm: who hears what.                                *)
(***************************************************************************)
Agents(type) ==
    CASE type = "Message" -> {"requirement"}
      [] type = "RequirementCreated" -> {"strategy"}
      [] type = "StrategySelected" -> {"discovery"}
      [] type = "SupplierDiscovered" -> {"evaluation"}
      [] type = "SupplierEvaluated" -> {"negotiation"}
      [] type = "QuotesCompleted" -> {"decision", "strategy", "analysis"}
      [] type = "DecisionMade" \/ type \in Range(Later) -> {"later"}
      [] OTHER -> {}

Sourced == {"Message", "SwarmStarted", "RequirementCreated", "StrategySelected",
            "SupplierDiscovered", "SupplierEvaluated", "QuoteGenerated", "EvaluationCompleted",
            "QuotesCompleted", "DecisionMade"}
Types == Sourced \cup Range(Later)

Handlers(type) == {"recorder", "tracker"} \cup Agents(type)

ASSUME RanksAssumption ==
    \A order \in Ranks :
        /\ DOMAIN order = Types
        /\ \A type \in Types : /\ order[type] \in Seq(Handlers(type))
                              /\ IsInjective(order[type]) /\ Range(order[type]) = Handlers(type)
ASSUME LaterAssumption ==
    Later \in Seq(Range(Later)) /\ Range(Later) \cap Sourced = {}

Say(type, cor, sup, rest) == Publish(Event(type, cor, sup), rest)

\* A step that only returns; replayed events are perceived and nothing more.
Return == Finish /\ UNCHANGED log
Ignores(h) == Started(h) /\ Me.e.replayed

(***************************************************************************)
(* Callers.  send_message and dispatch publish one event and return when   *)
(* all that follows from it has been handled; replay delivers the log as   *)
(* it is now, event by event.                                              *)
(***************************************************************************)
Send(r) ==
    LET e == Event(IF Payload[r].intent = "lifecycle" THEN "SwarmStarted" ELSE "Message", r, NoSup)
    IN  /\ r \notin sent /\ (Idle \/ Overlap)
        /\ sent' = sent \cup {r}
        /\ log' = Append(log, e)
        /\ Enter("client", e, <<>>)
        /\ UNCHANGED <<events, art, expect, closed, agent, answered, replays>>

Answer ==
    /\ Resumed("client")
    /\ answered' = answered \cup {Me.e.cor}
    /\ Return
    /\ UNCHANGED <<events, art, expect, closed, agent, sent, replays>>

Anew(e) == [e EXCEPT !.replayed = TRUE]

Replay ==
    /\ log # <<>> /\ replays < MaxReplays /\ (Idle \/ Overlap)
    /\ replays' = replays + 1
    /\ Enter("replay", Anew(log[1]), Tail(log))
    /\ UNCHANGED <<log, events, art, expect, closed, agent, sent, answered>>

\* Mutant: it goes on with the same event.
ReplayNextSame ==
    /\ Resumed("replay")
    /\ IF Me.rest = <<>> THEN Finish
       ELSE Deliver(Anew(Head(Me.rest)), Me.rest)
    /\ UNCHANGED <<log, events, art, expect, closed, agent, sent, answered, replays>>

ReplayNext ==
    /\ Resumed("replay")
    /\ IF Me.rest = <<>> THEN Finish
       ELSE Deliver(Anew(Head(Me.rest)), Tail(Me.rest))
    /\ UNCHANGED <<log, events, art, expect, closed, agent, sent, answered, replays>>

Wake == Woken /\ UNCHANGED <<log, events, art, expect, closed, agent, sent, answered, replays>>

(***************************************************************************)
(* Those who hear every event.                                             *)
(***************************************************************************)
\* Mutant: replays are recorded.
RecordAll ==
    /\ Started("recorder")
    /\ events' = Append(events, Me.e)
    /\ Return
    /\ UNCHANGED <<art, expect, closed, agent, sent, answered, replays>>

Record ==
    /\ Started("recorder")
    /\ events' = IF Me.e.replayed THEN events ELSE Append(events, Me.e)
    /\ Return
    /\ UNCHANGED <<art, expect, closed, agent, sent, answered, replays>>

Groups == <<"evaluation", "quote">>
CompletionEvents == [evaluation |-> "EvaluationCompleted", quote |-> "QuotesCompleted"]

\* Mutant: one artifact less will do.
CompleteEarly(pair) ==
    /\ pair \notin closed
    /\ \E i \in DOMAIN expect :
          expect[i].cor = pair[1] /\ Count(pair[2], pair[1]) >= expect[i].count - 1

\* _mark_if_complete.
Complete(pair) ==
    /\ pair \notin closed
    /\ \E i \in DOMAIN expect :
          expect[i].cor = pair[1] /\ Count(pair[2], pair[1]) >= expect[i].count

\* The groups to check: a snapshot of the expectations when the step begins.
ToCheck ==
    IF Me.resumed THEN Me.rest
    ELSE [n \in 1 .. 2 * Len(expect) |->
            <<expect[(n + 1) \div 2].cor, Groups[((n - 1) % 2) + 1]>>]

\* Mutant: a group is marked when its event has been handled.
TrackMarkingLate ==
    LET check == ToCheck
        complete == {n \in DOMAIN check : Complete(check[n])}
        mark == IF Me.resumed THEN {Me.rest[1]} ELSE {}
    IN  /\ Running("tracker")
        /\ IF Me.e.replayed \/ complete = {}
           THEN Return /\ closed' = closed \cup mark
           ELSE LET n == Min(complete) IN
                /\ closed' = closed \cup mark
                /\ Say(CompletionEvents[check[n][2]], check[n][1], NoSup,
                       SubSeq(check, n, Len(check)))
        /\ UNCHANGED <<events, art, expect, agent, sent, answered, replays>>

Track ==
    LET check == ToCheck
        complete == {n \in DOMAIN check : Complete(check[n])}
    IN  /\ Running("tracker")
        /\ IF Me.e.replayed \/ complete = {}
           THEN Return /\ UNCHANGED closed
           ELSE LET n == Min(complete) IN
                /\ closed' = closed \cup {check[n]}
                /\ Say(CompletionEvents[check[n][2]], check[n][1], NoSup,
                       SubSeq(check, n + 1, Len(check)))
        /\ UNCHANGED <<events, art, expect, agent, sent, answered, replays>>

(***************************************************************************)
(* The agents.  A step runs from perceive to the publication at the end of *)
(* act, or to a return or an exception, without a break; what follows the  *)
(* publication runs when all it led to has been handled.                   *)
(***************************************************************************)
Ignore ==
    /\ \E h \in {"requirement", "strategy", "discovery", "evaluation", "negotiation",
                 "decision", "analysis", "later"} : Ignores(h)
    /\ Return
    /\ UNCHANGED <<events, art, expect, closed, agent, sent, answered, replays>>

\* A message that makes no requirement raises and stays pending.
RequirementStep ==
    LET mine == IF Payload[Me.e.cor].intent = "create"
                THEN [pending |-> TRUE, cor |-> Me.e.cor] ELSE agent.requirement
    IN  /\ Started("requirement") /\ ~Me.e.replayed
        /\ agent' = [agent EXCEPT !.requirement = mine]
        /\ IF mine.pending /\ Payload[mine.cor].valid
           THEN /\ Put(Artifact("requirement", mine.cor, NoSup, <<>>))
                /\ Say("RequirementCreated", mine.cor, NoSup, <<>>)
           ELSE Return /\ UNCHANGED art
        /\ UNCHANGED <<events, expect, closed, sent, answered, replays>>

RequirementDone ==
    /\ Resumed("requirement")
    /\ agent' = [agent EXCEPT !.requirement.pending = FALSE]
    /\ Return
    /\ UNCHANGED <<events, art, expect, closed, sent, answered, replays>>

\* The completions of the analysis that it finds go into the consensus.
Heard(cor) == Count("completion", cor)
Strategy(cor, version) ==
    [Artifact("strategy", cor, NoSup, [name |-> SelectStrategy(Constraints), heard |-> Heard(Me.e.cor)])
        EXCEPT !.version = version]

StrategyStep ==
    /\ Started("strategy") /\ ~Me.e.replayed
    /\ IF Me.e.type = "RequirementCreated"
       THEN /\ Put(Strategy(Me.e.cor, 1))
            /\ Say("StrategySelected", Me.e.cor, NoSup, <<>>)
       ELSE LET old == Get("strategy", NoSup) IN
            Put(Strategy(old.cor, old.version + 1)) /\ Return
    /\ UNCHANGED <<events, expect, closed, agent, sent, answered, replays>>

StrategyDone ==
    /\ Resumed("strategy")
    /\ Return
    /\ UNCHANGED <<events, art, expect, closed, agent, sent, answered, replays>>

\* Mutant: one expectation of a name, whatever request it is of.
ExpectingOnce(cor, count) == IF expect = <<>> THEN << [cor |-> cor, count |-> count] >> ELSE expect

\* expect_artifact: both groups of a request at once; its key keeps its place.
Expecting(cor, count) ==
    IF \E i \in DOMAIN expect : expect[i].cor = cor THEN expect
    ELSE Append(expect, [cor |-> cor, count |-> count])

\* One supplier after the other.  The correlation id and the pool are read
\* from the agent's fields each time; without a pool the read raises.
Discover(d, suppliers) ==
    IF suppliers = <<>>
    THEN /\ agent' = [agent EXCEPT !.discovery = [d EXCEPT !.done = @ \cup {d.cor}, !.pool = FALSE]]
         /\ Return
    ELSE /\ agent' = [agent EXCEPT !.discovery = d]
         /\ IF d.pool THEN Say("SupplierDiscovered", d.cor, Head(suppliers), Tail(suppliers))
            ELSE Return

DiscoveryStep ==
    LET d == [agent.discovery EXCEPT !.cor = Me.e.cor] IN
    /\ Started("discovery") /\ ~Me.e.replayed
    /\ IF d.cor \in d.done
       THEN /\ agent' = [agent EXCEPT !.discovery = d]
            /\ Return /\ UNCHANGED <<art, expect>>
       ELSE /\ Put(Artifact("supplier_list", d.cor, NoSup, Constraints))
            /\ expect' = Expecting(d.cor, Len(Pool))
            /\ Discover([d EXCEPT !.pool = TRUE], Pool)
    /\ UNCHANGED <<events, closed, sent, answered, replays>>

DiscoveryNext ==
    /\ Resumed("discovery")
    /\ Discover(agent.discovery, Me.rest)
    /\ UNCHANGED <<events, art, expect, closed, sent, answered, replays>>

\* _read_strategy: without an artifact, and with no policy pinned, "balanced".
ReadStrategy == IF Known("strategy", NoSup) THEN Get("strategy", NoSup).data.name ELSE "balanced"

EvaluationStep ==
    LET s == Me.e.sup
        pool == Get("supplier_list", NoSup)
    IN  /\ Started("evaluation") /\ ~Me.e.replayed
        /\ Put(Artifact("evaluation", Me.e.cor, s,
                        [strategy |-> ReadStrategy, score |-> EvaluationScore(s, ReadStrategy, pool.data)]))
        /\ Say("SupplierEvaluated", Me.e.cor, s, <<>>)
        /\ UNCHANGED <<events, expect, closed, agent, sent, answered, replays>>

NegotiationStep ==
    LET s == Me.e.sup
        pool == Get("supplier_list", NoSup)
    IN  /\ Started("negotiation") /\ ~Me.e.replayed
        /\ Put(Artifact("quote", Me.e.cor, s,
                        [price |-> FloorPrice(s), carbon |-> CarbonFootprint(s, pool.data.quantity)]))
        /\ Say("QuoteGenerated", Me.e.cor, s, <<>>)
        /\ UNCHANGED <<events, expect, closed, agent, sent, answered, replays>>

OnlyReturns ==
    /\ Resumed("evaluation") \/ Resumed("negotiation") \/ Resumed("later")
    /\ Return
    /\ UNCHANGED <<events, art, expect, closed, agent, sent, answered, replays>>

\* The quotes of the request, each with the evaluation that is on record.
Quotes(cor) ==
    {[place |-> i, supplier |-> art[i].sup, price |-> art[i].data.price, carbon |-> art[i].data.carbon,
      score |-> IF Known("evaluation", art[i].sup)
                THEN Get("evaluation", art[i].sup).data.score ELSE 0] : i \in Find("quote", cor)}

\* Mutant: the fields are cleared before the decision is announced.
DecisionStepClearing ==
    LET cor == Me.e.cor
        winner == Selected(Quotes(cor), Constraints)
    IN  /\ Started("decision") /\ ~Me.e.replayed
        /\ agent' = [agent EXCEPT !.decision = [cor |-> cor, why |-> <<>>]]
        /\ Put(Artifact("decision", cor, NoSup, [winner |-> winner, quotes |-> Quotes(cor)]))
        /\ Say("DecisionMade", cor, NoSup, <<>>)
        /\ UNCHANGED <<events, expect, closed, sent, answered, replays>>

DecisionStep ==
    LET cor == Me.e.cor
        winner == Selected(Quotes(cor), Constraints)
        why == [winner |-> winner, rejected |-> Rejected(Quotes(cor), winner)]
    IN  /\ Started("decision") /\ ~Me.e.replayed
        /\ agent' = [agent EXCEPT !.decision = [cor |-> cor, why |-> <<why>>]]
        /\ Put(Artifact("decision", cor, NoSup, [winner |-> winner, quotes |-> Quotes(cor)]))
        /\ Say("DecisionMade", cor, NoSup, <<>>)
        /\ UNCHANGED <<events, expect, closed, sent, answered, replays>>

\* The explanation follows when everything behind the decision has been done.
DecisionDone ==
    LET d == agent.decision IN
    /\ Resumed("decision")
    /\ art' = IF d.why = <<>> THEN art
              ELSE Append(art, Artifact("decision_explanation", d.cor, NoSup, d.why[1]))
    /\ agent' = [agent EXCEPT !.decision.why = <<>>]
    /\ Return
    /\ UNCHANGED <<events, expect, closed, sent, answered, replays>>

\* The completions of the analysis; one input is recorded once.
Analyse ==
    LET cor == Me.e.cor
        input == <<Constraints, {<<q.supplier, q.price, q.carbon>> : q \in Quotes(cor)}>>
        recorded == \E i \in DOMAIN art : art[i].kind = "completion" /\ art[i].data = input
    IN  /\ Started("analysis") /\ ~Me.e.replayed
        /\ art' = IF cor \in agent.analyzed \/ recorded THEN art
                  ELSE art \o [v \in 1..3 |-> Artifact("completion", cor, NoSup, input)]
        /\ agent' = [agent EXCEPT !.analyzed = @ \cup {cor}]
        /\ Return
        /\ UNCHANGED <<events, expect, closed, sent, answered, replays>>

\* What stands behind a decision: contract, risk, governance, approval, order.
\* Each agent announces the next step, or the end of it.
LaterStep ==
    LET n == IF Me.e.type = "DecisionMade" THEN 0 ELSE CHOOSE k \in DOMAIN Later : Later[k] = Me.e.type
    IN  /\ Started("later") /\ ~Me.e.replayed
        /\ IF n < Len(Later) THEN Say(Later[n + 1], Me.e.cor, NoSup, <<>>) \/ Return ELSE Return
        /\ UNCHANGED <<events, art, expect, closed, agent, sent, answered, replays>>

\* The loop runs what is due.
Run ==
    \/ Answer \/ ReplayNext \/ Wake \/ Record \/ Track \/ Ignore
    \/ RequirementStep \/ RequirementDone \/ StrategyStep \/ StrategyDone
    \/ DiscoveryStep \/ DiscoveryNext \/ EvaluationStep \/ NegotiationStep \/ OnlyReturns
    \/ DecisionStep \/ DecisionDone \/ Analyse \/ LaterStep

Next == (\E r \in Requests : Send(r)) \/ Replay \/ Run

Spec == Init /\ [][Next]_vars
LiveSpec == Spec /\ WF_vars(Run)

(***************************************************************************)
(* Properties.                                                             *)
(***************************************************************************)
\* Agents' fields, the queue and the tasks stay well formed: every callback
\* is of a live task, a task waits for as many as name it, and nobody is
\* queued twice.
TypeOK ==
    /\ \A n \in DOMAIN ready : ready[n][1] \in {"step", "done"} /\ ready[n][2] \in DOMAIN tasks
    /\ \A t \in DOMAIN tasks :
          tasks[t].left = Cardinality({i \in DOMAIN tasks : tasks[i].by = t})
                          + Cardinality({n \in DOMAIN ready : ready[n] = <<"done", t>>})
    /\ \A t \in DOMAIN tasks :
          Cardinality({n \in DOMAIN ready : ready[n] = <<"step", t>>})
              = (IF tasks[t].left = 0 THEN 1 ELSE 0)
    /\ agent.requirement.cor \in Requests \cup {NoCor}
    /\ agent.discovery.done \cup agent.analyzed \cup answered \subseteq sent

\* The history of the shared state is the bus's log, in the same order, and
\* complete when the loop is at rest, replays or not: each recorder is a task
\* of its own, and nothing but the queue keeps them in line.
HistoryInOrder == IsPrefix(events, log) /\ (Idle => events = log)

\* "EvaluationCompleted then QuotesCompleted - exactly once": every event makes
\* the tracker check every group, and it is suspended between marking one and
\* going on with the next.
ClosedOnce ==
    LET At(type, cor) == {n \in DOMAIN log : log[n].type = type /\ log[n].cor = cor} IN
    \A cor \in Requests :
        /\ \A type \in Range(CompletionEvents) : Cardinality(At(type, cor)) <= 1
        /\ \A n \in At("QuotesCompleted", cor) : \E k \in At("EvaluationCompleted", cor) : k < n

\* DecisionAgent "cannot decide before every supplier has quoted": a decision
\* weighs one quote of each supplier, and a request gets one decision.
CoversAll ==
    \A i \in DOMAIN art : art[i].kind = "decision" =>
        /\ Cardinality(art[i].data.quotes) = Len(Pool)
        /\ {q.supplier : q \in art[i].data.quotes} = Suppliers
        /\ Count("decision", art[i].cor) = 1

\* The explanation of a decision, put in long after it from the fields the
\* agent kept, is of the same request and winner and accounts for everybody;
\* at rest no decision is without.
Explained ==
    /\ \A i \in DOMAIN art : art[i].kind = "decision_explanation" =>
          /\ Count("decision_explanation", art[i].cor) = 1
          /\ \E k \in 1 .. i - 1 :
                /\ art[k].kind = "decision" /\ art[k].cor = art[i].cor
                /\ art[k].data.winner = art[i].data.winner
          /\ Range(art[i].data.rejected) = Suppliers \ {art[i].data.winner}
    /\ Idle => \A i \in DOMAIN art : art[i].kind = "decision" =>
                   Find("decision_explanation", art[i].cor) # {}

\* Nobody is left waiting: when nothing is due, every send_message has
\* returned, and every requirement that could be read has its decision.
Returned == tasks = <<>> /\ answered = sent
NobodyWaits ==
    Idle => /\ Returned
            /\ \A r \in sent : Payload[r].intent = "create" /\ Payload[r].valid =>
                   Find("decision", r) # {}

\* What a message or a replay sets off comes to an end: completions, explanations
\* and replays cause no further ones for ever.
ComesToRest == []<>Idle
=============================================================================
