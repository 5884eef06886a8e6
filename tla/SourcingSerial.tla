---------------------------- MODULE SourcingSerial ----------------------------
(***************************************************************************)
(* The inductive invariant of Sourcing while one call is served at a time: *)
(* how far a request has come, which step it waits for, and what is on     *)
(* record by then.                                                         *)
(***************************************************************************)
EXTENDS Sourcing

\* Handlers that have not begun with an event, and those that wait for what
\* they have published.
Unheard(ts, h) == {t \in DOMAIN ts : ts[t].h = h /\ ~ts[t].resumed /\ ~ts[t].e.replayed}
Paused(ts, h) == {t \in DOMAIN ts : ts[t].h = h /\ ts[t].resumed}

Has(all, kind, cor, sup) ==
    \E i \in DOMAIN all : all[i].kind = kind /\ all[i].cor = cor /\ all[i].sup = sup

(***************************************************************************)
(* All that happens is of one request.                                     *)
(***************************************************************************)
OneCall(ts) ==
    /\ \A t, u \in DOMAIN ts : ~ts[t].e.replayed /\ ~ts[u].e.replayed => ts[t].e.cor = ts[u].e.cor
    /\ \A t \in DOMAIN ts : ts[t].resumed /\ ts[t].h # "replay" => ~ts[t].e.replayed

\* A group that is complete and not closed will be looked at by a tracker.
Watching(ts, t, pair) ==
    /\ ts[t].h = "tracker" /\ ~ts[t].e.replayed /\ ts[t].e.cor = pair[1]
    /\ ts[t].resumed => pair \in Range(ts[t].rest)
Watched ==
    \A pair \in Requests \X {"evaluation", "quote"} : Complete(pair) =>
        \E t \in DOMAIN tasks : Watching(tasks, t, pair)

(***************************************************************************)
(* What the artifacts hold, and what stands behind them.                   *)
(***************************************************************************)
Demands == [quantity : Nat, budget : Nat, limit : Nat, target : Nat \ {0}, carbon : BOOLEAN]
ArtifactOk(a) ==
    /\ a.version \in Nat
    /\ a.kind = "requirement" => a.cor \in Requests
    /\ a.kind = "strategy" => a.data.name \in DOMAIN Weights
    /\ a.kind = "supplier_list" => a.data \in Demands
    /\ a.kind = "evaluation" => a.data.score \in Int
    /\ a.kind = "quote" => a.data.price \in Int

Products == {"supplier_list", "evaluation", "quote", "decision", "decision_explanation"}

\* The steps before the pool is handed out.
Starts(ts) ==
    Unheard(ts, "requirement") \cup Unheard(ts, "discovery")
    \cup {t \in Unheard(ts, "strategy") : ts[t].e.type = "RequirementCreated"}

Stocked ==
    /\ \A i \in DOMAIN art : ArtifactOk(art[i])
    /\ \A t \in Starts(tasks) :
          /\ tasks[t].h # "requirement" => Known("requirement", NoSup)
          /\ tasks[t].h = "discovery" => Known("strategy", NoSup)
    /\ \A t \in Unheard(tasks, "strategy") :
          tasks[t].e.type = "QuotesCompleted" => Known("requirement", NoSup) /\ Known("strategy", NoSup)
    /\ \A i \in DOMAIN art : art[i].kind \in Products =>
          /\ art[i].cor \in sent
          /\ Known("requirement", NoSup) /\ Known("strategy", NoSup)

(***************************************************************************)
(* From the message to the pool: one step at a time.                       *)
(***************************************************************************)
Untouched(cor) == \A i \in DOMAIN art : art[i].cor = cor => art[i].kind \notin Products

Chain ==
    /\ \A t, u \in Starts(tasks) \cup Paused(tasks, "discovery") : t = u
    /\ \A t \in Starts(tasks) :
          /\ Untouched(tasks[t].e.cor)
          /\ Unheard(tasks, "evaluation") = {} /\ Unheard(tasks, "negotiation") = {}
    /\ \A t \in Paused(tasks, "discovery") :
          /\ agent.discovery.cor = tasks[t].e.cor /\ agent.discovery.pool
          /\ Has(art, "supplier_list", tasks[t].e.cor, NoSup)
    /\ \A r \in agent.discovery.done : Has(art, "supplier_list", r, NoSup)

\* A requirement that is pending is malformed or being worked on.
Pending ==
    agent.requirement.pending /\ Payload[agent.requirement.cor].valid =>
        /\ Payload[agent.requirement.cor].intent = "create"
        /\ \E t \in Paused(tasks, "requirement") : tasks[t].e.cor = agent.requirement.cor

(***************************************************************************)
(* From the pool to the quotes: each supplier once.                        *)
(***************************************************************************)
Evals ==
    /\ \A t, u \in Unheard(tasks, "evaluation") : tasks[t].e.sup = tasks[u].e.sup => t = u
    /\ \A t \in Unheard(tasks, "evaluation") :
          /\ tasks[t].e.sup \in Suppliers
          /\ Has(art, "supplier_list", tasks[t].e.cor, NoSup)
          /\ ~Has(art, "evaluation", tasks[t].e.cor, tasks[t].e.sup)
    /\ \A t \in Paused(tasks, "discovery") :
          /\ IsInjective(tasks[t].rest)
          /\ \A s \in Range(tasks[t].rest) :
                /\ ~Has(art, "evaluation", tasks[t].e.cor, s)
                /\ \A u \in Unheard(tasks, "evaluation") : tasks[u].e.sup # s

Offers ==
    /\ \A t, u \in Unheard(tasks, "negotiation") : tasks[t].e.sup = tasks[u].e.sup => t = u
    /\ \A t \in Unheard(tasks, "negotiation") :
          /\ tasks[t].e.sup \in Suppliers
          /\ Has(art, "supplier_list", tasks[t].e.cor, NoSup)
          /\ Has(art, "evaluation", tasks[t].e.cor, tasks[t].e.sup)
          /\ ~Has(art, "quote", tasks[t].e.cor, tasks[t].e.sup)
    /\ \A i \in DOMAIN art : art[i].kind = "quote" =>
          /\ art[i].sup \in Suppliers
          /\ Has(art, "evaluation", art[i].cor, art[i].sup)
          /\ \A j \in DOMAIN art :
                art[j].kind = "quote" /\ art[j].cor = art[i].cor /\ art[j].sup = art[i].sup => j = i

(***************************************************************************)
(* The decision and its explanation.                                       *)
(***************************************************************************)
AllQuoted(cor) == \A s \in Suppliers : Has(art, "quote", cor, s)
Covers(quotes) == Cardinality(quotes) = Len(Pool) /\ {q.supplier : q \in quotes} = Suppliers
Only(all, i) ==
    \A j \in DOMAIN all : all[j].kind = all[i].kind /\ all[j].cor = all[i].cor => j = i

Decides ==
    /\ \A r \in Requests : <<r, "quote">> \in closed => AllQuoted(r)
    /\ \A t, u \in Unheard(tasks, "decision") \cup Paused(tasks, "decision") : t = u
    /\ \A t \in Unheard(tasks, "decision") :
          /\ <<tasks[t].e.cor, "quote">> \in closed
          /\ ~Has(art, "decision", tasks[t].e.cor, NoSup)
    /\ \A i \in DOMAIN art : art[i].kind = "decision" =>
          /\ <<art[i].cor, "quote">> \in closed
          /\ art[i].sup = NoSup /\ Only(art, i) /\ Covers(art[i].data.quotes)

DecidedAs(all, k, cor, winner) ==
    all[k].kind = "decision" /\ all[k].cor = cor /\ all[k].data.winner = winner

Explains ==
    /\ \A t \in Paused(tasks, "decision") :
          LET cor == tasks[t].e.cor
              why == agent.decision.why
          IN  /\ agent.decision.cor = cor /\ why = <<why[1]>>
              /\ Range(why[1].rejected) = Suppliers \ {why[1].winner}
              /\ \E k \in DOMAIN art : DecidedAs(art, k, cor, why[1].winner)
              /\ ~Has(art, "decision_explanation", cor, NoSup)
    /\ \A i \in DOMAIN art : art[i].kind = "decision_explanation" =>
          /\ art[i].sup = NoSup /\ Only(art, i)
          /\ \E k \in 1 .. i - 1 : DecidedAs(art, k, art[i].cor, art[i].data.winner)
          /\ Range(art[i].data.rejected) = Suppliers \ {art[i].data.winner}
    /\ \A i \in DOMAIN art : art[i].kind = "decision" =>
          \/ Has(art, "decision_explanation", art[i].cor, NoSup)
          \/ \E t \in Paused(tasks, "decision") : tasks[t].e.cor = art[i].cor

(***************************************************************************)
(* Nothing is lost on the way.                                             *)
(***************************************************************************)
OnItsWay(r, s) ==
    \/ \E t \in Paused(tasks, "discovery") : tasks[t].e.cor = r /\ s \in Range(tasks[t].rest)
    \/ \E t \in Unheard(tasks, "evaluation") \cup Unheard(tasks, "negotiation") :
          tasks[t].e.cor = r /\ tasks[t].e.sup = s
    \/ Has(art, "quote", r, s)

Progress ==
    /\ \A r \in sent : Payload[r].intent = "create" /\ Payload[r].valid =>
          \/ \E t \in Starts(tasks) : tasks[t].e.cor = r
          \/ /\ \E i \in DOMAIN expect : expect[i].cor = r
             /\ \A s \in Suppliers : OnItsWay(r, s)
    /\ \A r \in Requests : <<r, "quote">> \in closed =>
          \/ \E t \in Unheard(tasks, "decision") : tasks[t].e.cor = r
          \/ Has(art, "decision", r, NoSup)

SerialInv ==
    /\ OneCall(tasks) /\ Watched /\ Stocked /\ Chain /\ Pending
    /\ Evals /\ Offers /\ Decides /\ Explains /\ Progress
=============================================================================
