------------------------------ MODULE MeshPhases ------------------------------
(***************************************************************************)
(* The inductive invariants of Mesh while one run is served at a time: a   *)
(* phase leaves nothing for the next one to miss.                          *)
(***************************************************************************)
EXTENDS MeshInv

\* One call of run_procurement at a time, a kernel and pools that lose no
\* process and budgets that are numbers.
Serial ==
    /\ MaxActive <= 1
    /\ Fallible \subseteq {Buyer}
    /\ BadBudget = {}
    /\ Evaluators # {} /\ Negotiators # {}

\* The reads of the evaluators, the negotiators and the buyer take in all
\* that is on the channels.
Fits ==
    /\ Len(log["discovery"]) <= DiscLimit /\ Len(log["discovery"]) <= PoolLimit
    /\ Len(log["score"]) <= ScoreLimit /\ Len(log["score"]) <= BuyerLimit
    /\ Len(log["deal"]) <= BuyerLimit

(***************************************************************************)
(* What the channels hold.                                                 *)
(***************************************************************************)
TypesOf ==
    [requirement |-> {"requirement"},
     discovery   |-> {"supplier_list", "supplier_discovered", "failure"},
     score       |-> {"evaluation", "failure"},
     risk        |-> {"risk_assessment"},
     deal        |-> {"quote"},
     decision    |-> {"award", "policy_rejection", "insufficient_candidates"}]

WellTyped(ch, trace) ==
    trace.type \in TypesOf[ch] /\ (trace.type = "failure" => trace.sup = NoSupplier)

TypedInv ==
    /\ LineageInv
    /\ \A ch \in Channels : \A i \in DOMAIN log[ch] : WellTyped(ch, log[ch][i])

AllCorrs == Corrs \cup {NoCorr}
Pairs == AllCorrs \X Suppliers

\* There is a trace of this type about this correlation id and supplier.
Told(board, ch, type, k) ==
    \E i \in 1 .. Len(board[ch]) : board[ch][i].type = type /\ Key(board[ch][i]) = k
Listed(board, c)     == Told(board, "discovery", "supplier_list", <<c, NoSupplier>>)
Discovered(board, k) == Told(board, "discovery", "supplier_discovered", k)
Scored(board, k)     == Told(board, "score", "evaluation", k)
Quoted(board, k)     == Told(board, "deal", "quote", k)

(***************************************************************************)
(* One run at a time, and its steps in the phase it is in.                 *)
(***************************************************************************)
PhaseOf(a) ==
    CASE a \in Scouts -> "scouts"
      [] a \in Evaluators -> "evaluators"
      [] a \in Negotiators -> "negotiators"
      [] OTHER -> "buyer"

InPhase(t) ==
    /\ InFlight(t) => rpc[t[1]] = PhaseOf(t[2]) /\ Alive(t[2])
    /\ task[t].pc = "failed" => t[2] = Buyer
    /\ task[t].pc = "fail" => t[2] \in Scouts
    /\ task[t].pc = "verdict" => task[t].plan # {}

SerialInv ==
    /\ \A r, q \in Active : r = q
    /\ \A a \in Processes \ {Buyer} : Alive(a)
    /\ \A t \in Tasks : InPhase(t)

(***************************************************************************)
(* Scouts: a list is followed by all of the pool.                          *)
(***************************************************************************)
Posting(t, c, s) ==
    /\ t[2] \in Scouts /\ task[t].pc \in Writing /\ task[t].stage > 0
    /\ log["discovery"][task[t].ref].corr = c
    /\ \E j \in task[t].stage .. Len(Pool) : Pool[j] = s

ListsInv ==
    \A c \in AllCorrs : Listed(log, c) =>
        \A s \in Suppliers : Discovered(log, <<c, s>>) \/ \E t \in Tasks : Posting(t, c, s)

(***************************************************************************)
(* Evaluators and negotiators: what a loop has left behind is marked.      *)
(***************************************************************************)
Ahead(state, i) ==
    /\ i \in 1 .. state.seen
    /\ \/ state.pc = "reason" /\ i < state.pos
       \/ state.pc \in {"pool", "size", "mark"} /\ i <= state.pos

Sweeps(t, ch, type) ==
    task[t].pc # "perceive" =>
        \A i \in 1 .. Len(log[ch]) : log[ch][i].type = type =>
            Key(log[ch][i]) \in handled[t[2]] \/ Ahead(task[t], i)

SweepInv ==
    \A t \in Tasks :
        /\ t[2] \in Evaluators /\ rpc[t[1]] = "evaluators" =>
              Sweeps(t, "discovery", "supplier_discovered")
        /\ t[2] \in Negotiators /\ rpc[t[1]] = "negotiators" =>
              Sweeps(t, "score", "evaluation")

NoRunIn(phases) == \A r \in Runs : rpc[r] \notin phases

PassedOn ==
    /\ NoRunIn({"scouts", "evaluators"}) => \A k \in Pairs : Discovered(log, k) => Scored(log, k)
    /\ NoRunIn({"scouts", "evaluators", "negotiators"}) => \A k \in Pairs : Scored(log, k) => Quoted(log, k)

(***************************************************************************)
(* The buyer: it holds all quotes and evaluations there are.               *)
(***************************************************************************)
HoldsAll(t) ==
    t[2] = Buyer =>
        /\ task[t].pc \in {"risks", "scores", "reason"} => task[t].seen = Len(log["deal"])
        /\ task[t].pc = "reason" => task[t].scores = Len(log["score"])

RanksAll(board, award) ==
    {board["deal"][id[2]].sup : id \in {p \in award.parents : p[1] = "deal"}} = Suppliers

RankedInv ==
    /\ \A i \in DOMAIN log["decision"] : Awarded(i) => RanksAll(log, log["decision"][i])
    /\ \A t \in Tasks : \A p \in task[t].plan : AwardPlanned(t, p) => RanksAll(log, p.post)

PhasesInv ==
    /\ TypedInv /\ MarksInv
    /\ SerialInv /\ ListsInv
    /\ \A r \in Runs : result[r] <= Len(log["decision"])
    /\ Fits => SweepInv /\ PassedOn /\ (\A t \in Tasks : HoldsAll(t)) /\ RankedInv

(***************************************************************************)
(* Answers.                                                                *)
(***************************************************************************)
Heeded == Serial /\ Scouts # {} /\ BadQuantity = {}

FitsAll ==
    Fits /\ Len(log["requirement"]) <= ReqLimit /\ Len(log["decision"]) <= DecisionLimit

Asked(top, c) == \E i \in 1 .. top : log["requirement"][i].corr = c
Decided(board, c) == \E i \in DOMAIN board["decision"] : board["decision"][i].corr = c
Planned(t, c) == \E p \in task[t].plan : p.post.corr = c
MarkedBy(a, c) == <<c, NoSupplier>> \in handled[a]

\* Scouts and the buyer hold proposals only while they write them.
InHands(t) ==
    t[2] \in Scouts \cup {Buyer} /\ task[t].plan # {} => task[t].pc \in Writing

MarkedInv ==
    /\ \A a \in Scouts, c \in AllCorrs : MarkedBy(a, c) =>
          Listed(log, c) \/ \E r \in Runs : Planned(<<r, a>>, c)
    /\ \A c \in AllCorrs : Marked(c) /\ Alive(Buyer) =>
          Decided(log, c) \/ \E r \in Runs : Planned(<<r, Buyer>>, c)

\* A scout has not come to the requirement yet or has marked it.
Hears(t) ==
    t[2] \in Scouts /\ rpc[t[1]] = "scouts" =>
        \/ task[t].pc = "perceive"
        \/ task[t].pc = "reason" /\ Asked(task[t].seen, CorrOf[t[1]])
        \/ MarkedBy(t[2], CorrOf[t[1]])

\* The buyer has not come to the quotes yet or decides, unless it dies.
Weighs(t) ==
    t[2] = Buyer /\ rpc[t[1]] = "buyer" =>
        \/ task[t].pc \in {"perceive", "risks", "scores", "reason", "failed"}
        \/ Decided(log, CorrOf[t[1]]) \/ Planned(t, CorrOf[t[1]])

Answering(r) ==
    LET c == CorrOf[r] IN
    /\ rpc[r] # "new" => Asked(Len(log["requirement"]), c)
    /\ rpc[r] \notin {"new", "scouts"} => Listed(log, c)
    /\ rpc[r] = "read" => Decided(log, c)
    /\ rpc[r] = "done" => /\ result[r] \in DOMAIN log["decision"]
                          /\ log["decision"][result[r]].corr = c

AnswerInv ==
    /\ PhasesInv
    /\ \A t \in Tasks : InHands(t)
    /\ MarkedInv
    /\ FitsAll => /\ \A t \in Tasks : Hears(t) /\ Weighs(t)
                  /\ \A r \in Runs : Answering(r)
=============================================================================
