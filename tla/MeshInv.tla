------------------------------ MODULE MeshInv ------------------------------
(***************************************************************************)
(* The inductive invariants of Mesh: where the locals of a step point, how *)
(* they relate to the blackboard so that whatever the step writes next     *)
(* keeps the lineage, that no correlation id is awarded twice, that quotes *)
(* in a buyer's hands are scored and that marks are answered.              *)
(***************************************************************************)
EXTENDS Mesh

(***************************************************************************)
(* Typing.  A trace is looked up by a position kept in a local, so the     *)
(* types are preserved only while the locals point into the channels.      *)
(***************************************************************************)
WellPlaced(board, a, state) ==
    /\ a \in Scouts => /\ state.seen <= Len(board["requirement"])
                       /\ state.stage <= Len(Pool)
    /\ a \in Evaluators =>
          /\ state.seen <= Len(board["discovery"])
          /\ state.pc \in {"pool", "size", "mark"} => state.pos \in 1 .. Len(board["discovery"])
    /\ a \in Negotiators =>
          /\ state.seen <= Len(board["score"])
          /\ state.pc \in {"pool", "mark"} => state.pos \in 1 .. Len(board["score"])
    /\ a = Buyer => /\ state.seen <= Len(board["deal"])
                    /\ state.risks <= Len(board["risk"])
                    /\ state.scores <= Len(board["score"])

TypeInv == TypeOK /\ \A t \in Tasks : WellPlaced(log, t[2], task[t])

(***************************************************************************)
(* Lineage.  A proposal waits to be written: by its archetype, of its      *)
(* type, about the trace it answers, with its parents already in place.    *)
(***************************************************************************)
IsTrace(board, ch, i, type) == i \in 1 .. Len(board[ch]) /\ board[ch][i].type = type

ScoutProposal(board, p) ==
    /\ p.post.type = "supplier_list" /\ p.post.sup = NoSupplier
    /\ p.src \in 1 .. Len(board["requirement"])
    /\ p.post.corr = board["requirement"][p.src].corr

EvaluatorProposal(board, p) ==
    /\ p.post.type = "evaluation"
    /\ IsTrace(board, "discovery", p.src, "supplier_discovered")
    /\ Key(p.post) = Key(board["discovery"][p.src])

\* One of the first `top` traces of SCORE evaluates what this trace is about.
Evaluated(board, top, trace) ==
    \E i \in 1 .. top : /\ board["score"][i].type = "evaluation"
                       /\ Key(board["score"][i]) = Key(trace)

NegotiatorProposal(board, p) ==
    p.post.type = "quote" /\ Evaluated(board, Len(board["score"]), p.post)

BuyerProposal(board, p) ==
    /\ p.post.type \in {"award", "policy_rejection", "insufficient_candidates"}
    /\ p.post.type = "award" => Grounded(board, p.post)

Answers(board, a, p) ==
    /\ Descends(board, p.post)
    /\ a \in Scouts => ScoutProposal(board, p)
    /\ a \in Evaluators => EvaluatorProposal(board, p)
    /\ a \in Negotiators => NegotiatorProposal(board, p)
    /\ a = Buyer => BuyerProposal(board, p)

\* What the locals of a step point at is what the step takes it for.
Stands(board, a, state) ==
    /\ (a \in Scouts /\ state.pc \in Writing /\ state.stage > 0) =>
          /\ IsTrace(board, "discovery", state.ref, "supplier_list")
          /\ \A p \in state.plan : IsCurrent(state, p) =>
                p.post.corr = board["discovery"][state.ref].corr
    /\ (a \in Evaluators /\ state.pc \in {"pool", "size", "mark"}) =>
          IsTrace(board, "discovery", state.pos, "supplier_discovered")
    /\ (a \in Evaluators /\ state.pc \in Writing /\ state.stage > 0) =>
          /\ IsTrace(board, "score", state.ref, "evaluation")
          /\ \A p \in state.plan : IsCurrent(state, p) =>
                Key(p.post) = Key(board["score"][state.ref])
    /\ (a \in Negotiators /\ state.pc \in {"pool", "mark"}) =>
          IsTrace(board, "score", state.pos, "evaluation")
    /\ (a \in Negotiators /\ state.pc = "mark") =>
          /\ IsTrace(board, "discovery", state.ref, "supplier_list")
          /\ board["discovery"][state.ref].corr = board["score"][state.pos].corr

Linked(board, a, state) ==
    /\ \A p \in state.plan : Answers(board, a, p)
    /\ Stands(board, a, state)

\* What a trace is where it is written: requirements and quotes on channels of
\* their own, pools without a supplier, awards on good grounds.
Sound(board, ch, trace) ==
    /\ Descends(board, trace)
    /\ trace.type = "award" => Grounded(board, trace)
    /\ ch = "requirement" => trace.type = "requirement"
    /\ trace.type \in {"requirement", "supplier_list"} => trace.sup = NoSupplier
    /\ trace.type \in {"supplier_discovered", "evaluation", "quote"} => trace.sup \in Suppliers
    /\ ch = "deal" => trace.type = "quote" /\ Evaluated(board, Len(board["score"]), trace)

LineageInv ==
    /\ TypeInv
    /\ \A ch \in Channels : \A i \in DOMAIN log[ch] : Sound(log, ch, log[ch][i])
    /\ \A t \in Tasks : Linked(log, t[2], task[t])

(***************************************************************************)
(* Once.  Each award, written or still in the hands of a buyer's step, has *)
(* its correlation id marked, and there are no two of a correlation id.    *)
(***************************************************************************)
Awarded(i) == i \in DOMAIN log["decision"] /\ log["decision"][i].type = "award"
AwardPlanned(t, p) == t[2] = Buyer /\ p \in task[t].plan /\ p.post.type = "award"

Marked(c) == <<c, NoSupplier>> \in handled[Buyer]

OnceInv ==
    /\ TypeInv
    /\ AwardedOnce
    /\ \A i \in DOMAIN log["decision"] : Awarded(i) => Marked(log["decision"][i].corr)
    /\ \A t \in Tasks : \A p \in task[t].plan : AwardPlanned(t, p) =>
          /\ Marked(p.post.corr)
          /\ \A i \in DOMAIN log["decision"] :
                Awarded(i) => log["decision"][i].corr # p.post.corr
          /\ \A u \in Tasks : \A q \in task[u].plan :
                AwardPlanned(u, q) /\ p.post.corr = q.post.corr => t = u /\ p = q

(***************************************************************************)
(* Scored.  What the buyer reasons about is evaluated in the part of SCORE *)
(* it read, so while that is all of SCORE it lacks no candidate.           *)
(***************************************************************************)
ScoredInHand(board, a, state) ==
    a = Buyer /\ state.pc = "reason" =>
        \A i \in 1 .. state.seen : Evaluated(board, state.scores, board["deal"][i])

ScoredInv ==
    /\ LineageInv
    /\ \A t \in Tasks : ScoredInHand(log, t[2], task[t])
    /\ Len(log["score"]) <= BuyerLimit =>
          /\ NeverInsufficient
          /\ \A t \in Tasks : \A p \in task[t].plan : p.post.type # "insufficient_candidates"

(***************************************************************************)
(* Marks.  The pools of later phases have not been asked yet; while the    *)
(* kernel lives a mark that a living actor remembers is answered, or its   *)
(* answer is in the hands of one of its steps.  For an evaluator a budget  *)
(* that is no number breaks this: the exception takes with it what the     *)
(* step had marked before.                                                 *)
(***************************************************************************)
Waiting ==
    \A r \in Runs :
        /\ rpc[r] \in {"new", "scouts"} => \A a \in Evaluators : task[<<r, a>>].pc = "idle"
        /\ rpc[r] \in {"new", "scouts", "evaluators"} =>
              \A a \in Negotiators : task[<<r, a>>].pc = "idle"

Output(a) == IF a \in Evaluators THEN "score" ELSE "deal"
Answered(a, k) == \E i \in DOMAIN log[Output(a)] : Key(log[Output(a)][i]) = k
Pending(t, k) == InFlight(t) /\ \E p \in task[t].plan : Key(p.post) = k
Remembers(a) ==
    (Alive(a) /\ Alive(Kernel)) =>
        \A k \in handled[a] : Answered(a, k) \/ \E r \in Runs : Pending(<<r, a>>, k)

MarksInv ==
    /\ LineageInv
    /\ Waiting
    /\ \A t \in Tasks : t[2] \in Evaluators \cup Negotiators /\ task[t].pc = "fail" =>
          task[t].plan = {}
    /\ \A a \in Negotiators : Remembers(a)
    /\ BadBudget = {} => \A a \in Evaluators : Remembers(a)
=============================================================================
