---------------------------- MODULE Mesh_phases ----------------------------
(***************************************************************************)
(* Runs of Mesh that are served one at a time: each phase leaves nothing   *)
(* for the next one to miss, so an award ranks the whole pool and a run    *)
(* returns the decision on its own requirement.                            *)
(***************************************************************************)
EXTENDS Mesh_proofs, MeshPhases, FiniteSetTheorems

(***************************************************************************)
(* What a step writes, and where.                                          *)
(***************************************************************************)
\* The channels of an actor's archetype.
ChannelsOf(a) ==
    CASE a \in Scouts -> {"discovery"}
      [] a \in Evaluators -> {"score", "risk"}
      [] a \in Negotiators -> {"deal"}
      [] OTHER -> {"decision"}

LEMMA Places ==
    ASSUME NEW a \in Actors
    PROVE  /\ a \in Scouts => ChannelsOf(a) = {"discovery"} /\ PhaseOf(a) = "scouts"
           /\ a \in Evaluators => ChannelsOf(a) = {"score", "risk"} /\ PhaseOf(a) = "evaluators"
           /\ a \in Negotiators => ChannelsOf(a) = {"deal"} /\ PhaseOf(a) = "negotiators"
           /\ a = Buyer => ChannelsOf(a) = {"decision"} /\ PhaseOf(a) = "buyer"
           /\ PhaseOf(a) = "scouts" => a \in Scouts
           /\ PhaseOf(a) = "evaluators" => a \in Evaluators
           /\ PhaseOf(a) = "negotiators" => a \in Negotiators
           /\ PhaseOf(a) = "buyer" => a = Buyer
BY Kinds DEF ChannelsOf, PhaseOf, Actors

Writes(ch, trace) == /\ ch \in Channels /\ trace \in Trace /\ Post(ch, trace)
                     /\ WellTyped(ch, trace)

LEMMA ScoutWrites ==
    ASSUME LineageInv, NEW t \in Tasks, ScoutStep(t)
    PROVE  UNCHANGED log \/ \E trace : Writes("discovery", trace)
<1>1. /\ task[t] \in TaskState /\ TypeOK /\ t[2] \in Actors /\ "discovery" \in Channels
      /\ WellPlaced(log, t[2], task[t])
      /\ \A p \in task[t].plan : p \in Proposal /\ Answers(log, t[2], p)
  BY LinkedFacts DEF Channels
<1>2. CASE ScoutPerceive(t) \/ ScoutReason(t)
  BY <1>2 DEF ScoutPerceive, Perceive, ScoutReason
<1>3. CASE ScoutPostList(t)
  <2>1. PICK p \in task[t].plan : Post("discovery", p.post)
    BY <1>3 DEF ScoutPostList
  <2>2. p.post \in Trace /\ p.post.type = "supplier_list"
    BY <1>1, <1>3 DEF Proposal, ScoutPostList, Answers, ScoutProposal
  <2>3. Writes("discovery", p.post)
    BY <1>1, <2>1, <2>2 DEF Writes, WellTyped, TypesOf
  <2> QED  BY <2>3
<1>4. CASE ScoutPostSupplier(t)
  <2> DEFINE trace(p) == [by |-> "scout", type |-> "supplier_discovered", corr |-> p.post.corr,
                          sup |-> Pool[task[t].stage],
                          parents |-> {<<"discovery", task[t].ref>>}, sized |-> FALSE]
  <2>1. PICK p \in task[t].plan : Post("discovery", trace(p))
    BY <1>4 DEF ScoutPostSupplier
  <2>2. task[t].stage \in 1 .. Len(Pool) /\ task[t].ref \in Nat
    BY <1>1, <1>4, PoolAssumption DEF ScoutPostSupplier, TaskState, WellPlaced
  <2>3. Pool[task[t].stage] \in Suppliers
    BY <2>2, PoolAssumption DEF Suppliers
  <2>4. trace(p) \in Trace
    <3>1. p.post.corr \in Corrs \cup {NoCorr}
      BY <1>1 DEF Proposal, Trace
    <3> QED  BY <2>2, <2>3, <3>1 DEF Trace, Archetypes, TraceTypes, TraceIds, Channels
  <2>5. trace(p).type = "supplier_discovered"
    OBVIOUS
  <2> HIDE DEF trace
  <2>6. Writes("discovery", trace(p))
    BY <1>1, <2>1, <2>4, <2>5 DEF Writes, WellTyped, TypesOf
  <2> QED  BY <2>6
<1> QED  BY <1>2, <1>3, <1>4 DEF ScoutStep

LEMMA EvaluatorWrites ==
    ASSUME LineageInv, NEW t \in Tasks, EvaluatorStep(t)
    PROVE  UNCHANGED log \/ \E ch \in {"score", "risk"} : \E trace : Writes(ch, trace)
<1>1. /\ task[t] \in TaskState /\ TypeOK /\ "score" \in Channels /\ "risk" \in Channels
      /\ \A p \in task[t].plan : p \in Proposal /\ Answers(log, t[2], p)
  BY LinkedFacts DEF Channels
<1>2. CASE \/ EvaluatorPerceive(t) \/ EvaluatorScan(t) \/ EvaluatorReadPool(t)
           \/ EvaluatorReadRequirement(t) \/ EvaluatorMark(t)
  BY <1>2 DEF EvaluatorPerceive, Perceive, EvaluatorScan, EvaluatorReadPool,
              EvaluatorReadRequirement, EvaluatorMark
<1>3. CASE EvaluatorPostScore(t)
  <2>1. PICK p \in task[t].plan : Post("score", p.post)
    BY <1>3 DEF EvaluatorPostScore
  <2>2. p.post \in Trace /\ p.post.type = "evaluation"
    BY <1>1, <1>3 DEF Proposal, EvaluatorPostScore, Answers, EvaluatorProposal
  <2>3. Writes("score", p.post)
    BY <1>1, <2>1, <2>2 DEF Writes, WellTyped, TypesOf
  <2> QED  BY <2>3
<1>4. CASE EvaluatorPostRisk(t)
  <2> DEFINE trace(p) == [p.post EXCEPT !.type = "risk_assessment",
                                        !.parents = {<<"score", task[t].ref>>}]
  <2>1. PICK p \in task[t].plan : Post("risk", trace(p))
    BY <1>4 DEF EvaluatorPostRisk
  <2>2. task[t].ref \in Nat /\ p.post \in Trace
    BY <1>1 DEF TaskState, Proposal
  <2>3. trace(p) \in Trace /\ trace(p).type = "risk_assessment"
    <3>1. {<<"score", task[t].ref>>} \subseteq TraceIds
      BY <1>1, <2>2 DEF TraceIds
    <3> QED  BY <2>2, <3>1 DEF Trace, TraceTypes
  <2> HIDE DEF trace
  <2>4. Writes("risk", trace(p))
    BY <1>1, <2>1, <2>3 DEF Writes, WellTyped, TypesOf
  <2> QED  BY <2>4
<1> QED  BY <1>2, <1>3, <1>4 DEF EvaluatorStep

LEMMA NegotiatorWrites ==
    ASSUME LineageInv, NEW t \in Tasks, NegotiatorStep(t)
    PROVE  UNCHANGED log \/ \E trace : Writes("deal", trace)
<1>1. "deal" \in Channels /\ \A p \in task[t].plan : p \in Proposal /\ Answers(log, t[2], p)
  BY LinkedFacts DEF Channels
<1>2. CASE \/ NegotiatorPerceive(t) \/ NegotiatorScan(t) \/ NegotiatorReadPool(t)
           \/ NegotiatorMark(t)
  BY <1>2 DEF NegotiatorPerceive, Perceive, NegotiatorScan, NegotiatorReadPool, NegotiatorMark
<1>3. CASE NegotiatorPostQuote(t)
  <2>1. PICK p \in task[t].plan : Post("deal", p.post)
    BY <1>3 DEF NegotiatorPostQuote
  <2>2. p.post \in Trace /\ p.post.type = "quote"
    BY <1>1, <1>3 DEF Proposal, NegotiatorPostQuote, Answers, NegotiatorProposal
  <2>3. Writes("deal", p.post)
    BY <1>1, <2>1, <2>2 DEF Writes, WellTyped, TypesOf
  <2> QED  BY <2>3
<1> QED  BY <1>2, <1>3 DEF NegotiatorStep

LEMMA BuyerWrites ==
    ASSUME LineageInv, NEW t \in Tasks, BuyerStep(t)
    PROVE  UNCHANGED log \/ \E trace : Writes("decision", trace)
<1>1. "decision" \in Channels /\ \A p \in task[t].plan : p \in Proposal /\ Answers(log, t[2], p)
  BY LinkedFacts DEF Channels
<1>2. CASE \/ BuyerReadDeals(t) \/ BuyerReadRisks(t) \/ BuyerReadScores(t) \/ BuyerReason(t)
  BY <1>2 DEF BuyerReadDeals, BuyerReadRisks, BuyerReadScores, BuyerReason
<1>3. CASE BuyerPostDecision(t)
  <2>1. PICK p \in task[t].plan : Post("decision", p.post)
    BY <1>3 DEF BuyerPostDecision
  <2>2. /\ p.post \in Trace
        /\ p.post.type \in {"award", "policy_rejection", "insufficient_candidates"}
    BY <1>1, <1>3 DEF Proposal, BuyerPostDecision, Answers, BuyerProposal
  <2>3. Writes("decision", p.post)
    BY <1>1, <2>1, <2>2 DEF Writes, WellTyped, TypesOf
  <2> QED  BY <2>3
<1> QED  BY <1>2, <1>3 DEF BuyerStep

\* A step writes at most one trace, on a channel of its archetype.
LEMMA StepWrites ==
    ASSUME LineageInv, NEW t \in Tasks, InPhase(t), TaskStep(t)
    PROVE  UNCHANGED log \/ \E ch \in ChannelsOf(t[2]) : \E trace : Writes(ch, trace)
<1>1. t[2] \in Actors
  BY LinkedFacts
<1>2. CASE ScoutStep(t)
  <2>1. t[2] \in Scouts
    BY <1>2 DEF ScoutStep, ScoutPerceive, ScoutReason, ScoutPostList, ScoutPostSupplier
  <2> QED  BY <1>1, <1>2, <2>1, Places, ScoutWrites
<1>3. CASE EvaluatorStep(t)
  <2>1. t[2] \in Evaluators
    BY <1>3 DEF EvaluatorStep, EvaluatorPerceive, EvaluatorScan, EvaluatorReadPool,
                EvaluatorReadRequirement, EvaluatorMark, EvaluatorPostScore, EvaluatorPostRisk
  <2> QED  BY <1>1, <1>3, <2>1, Places, EvaluatorWrites
<1>4. CASE NegotiatorStep(t)
  <2>1. t[2] \in Negotiators
    BY <1>4 DEF NegotiatorStep, NegotiatorPerceive, NegotiatorScan, NegotiatorReadPool,
                NegotiatorMark, NegotiatorPostQuote
  <2> QED  BY <1>1, <1>4, <2>1, Places, NegotiatorWrites
<1>5. CASE BuyerStep(t)
  <2>1. t[2] = Buyer
    BY <1>5 DEF BuyerStep, BuyerReadDeals, BuyerReadRisks, BuyerReadScores, BuyerReason,
                BuyerPostDecision
  <2> QED  BY <1>1, <1>5, <2>1, Places, BuyerWrites
<1>6. CASE DepositFailure(t)
  <2>1. t[2] \in Scouts
    BY <1>6 DEF DepositFailure, InPhase
  <2>2. Post("discovery", Failure(t[2])) \/ UNCHANGED log
    BY <1>1, <1>6, <2>1, DepositCases, Kinds
  <2>3. Failure(t[2]) \in Trace /\ WellTyped("discovery", Failure(t[2]))
    BY FailureType DEF Failure, WellTyped, TypesOf
  <2>4. CASE Post("discovery", Failure(t[2]))
    <3>1. Writes("discovery", Failure(t[2]))
      BY <2>3, <2>4 DEF Writes, Channels
    <3> QED  BY <1>1, <2>1, <3>1, Places
  <2> QED  BY <2>2, <2>4
<1>7. CASE LetGo(t)
  BY <1>7, LetGoCases
<1> QED  BY <1>2, <1>3, <1>4, <1>5, <1>6, <1>7 DEF TaskStep, LetGo

LEMMA SubmitWrites ==
    ASSUME NEW r \in Runs, Submit(r)
    PROVE  \E trace : Writes("requirement", trace) /\ trace.corr = CorrOf[r]
<1> DEFINE trace == [by |-> "kernel", type |-> "requirement", corr |-> CorrOf[r],
                     sup |-> NoSupplier, parents |-> {}, sized |-> FALSE]
<1>1. Post("requirement", trace)
  BY DEF Submit
<1>2. trace \in Trace /\ trace.type = "requirement" /\ trace.corr = CorrOf[r]
  BY RunsAssumption DEF Trace, Archetypes, TraceTypes
<1> HIDE DEF trace
<1>3. Writes("requirement", trace)
  BY <1>1, <1>2 DEF Writes, WellTyped, TypesOf, Channels
<1> QED  BY <1>2, <1>3

\* What writing a trace adds to what is told on the channels.
LEMMA WriteEffect ==
    ASSUME TypeOK, NEW ch, NEW trace, Writes(ch, trace)
    PROVE  /\ log \in Boards /\ log' \in Boards /\ Grows(log, log')
           /\ \A c \in Channels \ {ch} : log'[c] = log[c]
           /\ Len(log[ch]) \in Nat /\ Len(log'[ch]) = Len(log[ch]) + 1
           /\ \A i \in 1 .. Len(log'[ch]) : \/ i \in 1 .. Len(log[ch]) /\ log'[ch][i] = log[ch][i]
                                            \/ i = Len(log[ch]) + 1 /\ log'[ch][i] = trace
<1>1. ch \in Channels /\ trace \in Trace /\ Post(ch, trace)
  BY DEF Writes
<1>2. /\ log' \in Boards /\ Grows(log, log') /\ Len(log'[ch]) = Len(log[ch]) + 1
      /\ log'[ch][Len(log[ch]) + 1] = trace
      /\ \A c \in Channels \ {ch} : log'[c] = log[c]
  BY <1>1, PostEffect
<1>3. log \in Boards /\ Len(log[ch]) \in Nat
  BY <1>1, ReadTrace DEF TypeOK, Boards
<1> QED  BY <1>1, <1>2, <1>3 DEF Grows

LEMMA ToldStays ==
    ASSUME NEW board \in Boards, NEW later \in Boards, Grows(board, later),
           NEW ch \in Channels, NEW type, NEW k, Told(board, ch, type, k)
    PROVE  Told(later, ch, type, k)
<1>1. PICK i \in 1 .. Len(board[ch]) : board[ch][i].type = type /\ Key(board[ch][i]) = k
  BY DEF Told
<1>2. i \in 1 .. Len(later[ch]) /\ later[ch][i] = board[ch][i]
  BY Recorded
<1> QED  BY <1>1, <1>2 DEF Told

LEMMA ToldNew ==
    ASSUME TypeOK, NEW ch, NEW trace, Writes(ch, trace), NEW c \in Channels, NEW type, NEW k,
           Told(log', c, type, k)
    PROVE  Told(log, c, type, k) \/ (c = ch /\ trace.type = type /\ Key(trace) = k)
<1>1. PICK i \in 1 .. Len(log'[c]) : log'[c][i].type = type /\ Key(log'[c][i]) = k
  BY DEF Told
<1>2. CASE c # ch
  <2>1. log'[c] = log[c]
    BY <1>2, WriteEffect
  <2> QED  BY <1>1, <2>1 DEF Told
<1>3. CASE c = ch
  <2>1. \/ i \in 1 .. Len(log[ch]) /\ log'[ch][i] = log[ch][i]
        \/ i = Len(log[ch]) + 1 /\ log'[ch][i] = trace
    BY <1>1, <1>3, WriteEffect
  <2> QED  BY <1>1, <1>3, <2>1 DEF Told
<1> QED  BY <1>2, <1>3

LEMMA ToldWritten ==
    ASSUME TypeOK, NEW ch, NEW trace, Writes(ch, trace)
    PROVE  Told(log', ch, trace.type, Key(trace))
<1>1. /\ ch \in Channels /\ trace \in Trace /\ Post(ch, trace) /\ Len(log[ch]) \in Nat
  BY ReadTrace DEF Writes
<1>2. Len(log'[ch]) = Len(log[ch]) + 1 /\ log'[ch][Len(log[ch]) + 1] = trace
  BY <1>1, PostEffect
<1> QED  BY <1>1, <1>2 DEF Told

(***************************************************************************)
(* One run at a time.                                                      *)
(***************************************************************************)
\* The steps under way are of the run that is active and of its phase.
LEMMA OnlyPhase ==
    ASSUME SerialInv, TypeOK, NEW t \in Tasks, InFlight(t)
    PROVE  /\ t[1] \in Runs /\ t[1] \in Active /\ rpc[t[1]] = PhaseOf(t[2])
           /\ \A r \in Runs : rpc[r] \notin {"new", "done", "raised"} => r = t[1]
           /\ \A u \in Tasks : InFlight(u) => u[1] = t[1] /\ PhaseOf(u[2]) = PhaseOf(t[2])
<1>1. \A u \in Tasks : InFlight(u) => u[1] \in Runs /\ rpc[u[1]] = PhaseOf(u[2])
  BY DEF SerialInv, InPhase, Tasks
<1>2. \A a : PhaseOf(a) \in {"scouts", "evaluators", "negotiators", "buyer"}
  BY DEF PhaseOf
<1>3. \A u \in Tasks : InFlight(u) => u[1] \in Active
  BY <1>1, <1>2 DEF Active
<1> QED  BY <1>1, <1>3 DEF SerialInv, Active

\* The kernel lives, so nothing that was reasoned is lost.
LEMMA KernelLives ==
    ASSUME SerialInv
    PROVE  /\ \A state, plan : Reasoned(state, plan) = Acting(state, plan)
           /\ \A t \in Tasks : ~LetGo(t)
<1>1. Alive(Kernel)
  BY ActorsAssumption DEF SerialInv, Processes, Actors
<1>2. \A t \in Tasks : ~LetGo(t)
  BY <1>1, LetGoCases DEF SerialInv, InPhase
<1> QED  BY <1>1, <1>2 DEF Reasoned

\* Where a step leads: to its end or onwards, of a scout to its failure.
OnCourse(a, state) ==
    /\ state.pc # "failed"
    /\ state.pc = "fail" => a \in Scouts
    /\ state.pc = "verdict" => state.plan # {}

LEMMA ActingCourse ==
    ASSUME Serial, NEW state \in TaskState, NEW plan
    PROVE  \A a : OnCourse(a, Acting(state, plan))
<1>1. Kernel \notin Fallible
  BY ActorsAssumption DEF Serial, Actors
<1>2. CASE plan = {}
  BY <1>1, <1>2 DEF Acting, Done, Idle, OnCourse
<1>3. CASE plan # {}
  <2>1. /\ Acting(state, plan).pc \in {"verdict", "act"}
        /\ Acting(state, plan).plan = plan
    BY <1>3 DEF Acting, TaskState
  <2> QED  BY <1>3, <2>1 DEF OnCourse
<1> QED  BY <1>2, <1>3

LEMMA StepInFlight == ASSUME NEW t, TaskStep(t) PROVE InFlight(t)
<1>1. CASE ScoutStep(t)
  BY <1>1 DEF ScoutStep, ScoutPerceive, Perceive, ScoutReason, ScoutPostList,
              ScoutPostSupplier, InFlight, Writing
<1>2. CASE EvaluatorStep(t)
  BY <1>2 DEF EvaluatorStep, EvaluatorPerceive, Perceive, EvaluatorScan, EvaluatorReadPool,
              EvaluatorReadRequirement, EvaluatorMark, EvaluatorPostScore, EvaluatorPostRisk,
              InFlight, Writing
<1>3. CASE NegotiatorStep(t)
  BY <1>3 DEF NegotiatorStep, NegotiatorPerceive, Perceive, NegotiatorScan,
              NegotiatorReadPool, NegotiatorMark, NegotiatorPostQuote, InFlight, Writing
<1>4. CASE BuyerStep(t)
  BY <1>4 DEF BuyerStep, BuyerReadDeals, BuyerReadRisks, BuyerReadScores, BuyerReason,
              BuyerPostDecision, InFlight, Writing
<1>5. CASE LetGo(t) \/ DepositFailure(t)
  BY <1>5, LetGoCases DEF DepositFailure, InFlight
<1> QED  BY <1>1, <1>2, <1>3, <1>4, <1>5 DEF TaskStep, LetGo

LEMMA StepLeads ==
    ASSUME Serial, SerialInv, TypeInv, NEW t \in Tasks, TaskStep(t)
    PROVE  OnCourse(t[2], task'[t])
<1>1. task[t] \in TaskState /\ TypeOK /\ t[2] \in Actors
  BY TaskTypes DEF TypeInv
<1>2. \A state : Step(t, state) => task'[t] = state
  BY <1>1 DEF Step, TypeOK
<1>3. ASSUME NEW state \in TaskState, NEW plan, task'[t] = Acting(state, plan)
      PROVE  OnCourse(t[2], task'[t])
  BY <1>3, ActingCourse
<1>4. ASSUME NEW p \in task[t].plan, task'[t] = Acting(task[t], task[t].plan \ {p})
      PROVE  OnCourse(t[2], task'[t])
  BY <1>1, <1>3, <1>4
<1>5. ASSUME NEW state \in TaskState, NEW done, NEW ch, NEW limit, NEW type,
             NextTrace(t, state, done, ch, limit, type)
      PROVE  OnCourse(t[2], task'[t])
  <2>1. \/ task'[t] = Acting(state, state.plan)
        \/ \E i : task'[t] = [state EXCEPT !.pc = "pool", !.pos = i, !.ref = 0]
    BY <1>2, <1>5, KernelLives DEF NextTrace
  <2>2. \A i : [state EXCEPT !.pc = "pool", !.pos = i, !.ref = 0].pc = "pool"
    BY DEF TaskState
  <2> QED  BY <1>3, <2>1, <2>2 DEF OnCourse
<1>6. ASSUME task'[t].pc \in {"reason", "pool", "size", "mark", "act", "risks", "scores"}
      PROVE  OnCourse(t[2], task'[t])
  BY <1>6 DEF OnCourse
<1>7. CASE ScoutStep(t)
  <2>1. CASE ScoutPerceive(t)
    BY <1>1, <1>2, <1>6, <2>1 DEF ScoutPerceive, Perceive, TaskState
  <2>2. CASE ScoutReason(t)
    <3>1. /\ t[2] \in Scouts
          /\ \/ task'[t] = Raised(task[t])
             \/ \E plan : task'[t] = Acting(task[t], plan)
      BY <1>2, <2>2, KernelLives DEF ScoutReason
    <3>2. Raised(task[t]).pc = "fail"
      BY <1>1, RaisedType
    <3> QED  BY <1>1, <1>3, <3>1, <3>2 DEF OnCourse
  <2>3. CASE ScoutPostList(t)
    BY <1>1, <1>2, <1>6, <2>3 DEF ScoutPostList, TaskState
  <2>4. CASE ScoutPostSupplier(t)
    <3>1. task[t].pc \in Writing /\ task[t].plan # {}
      BY <2>4 DEF ScoutPostSupplier
    <3>2. \/ task'[t] = [task[t] EXCEPT !.stage = @ + 1]
          \/ \E p \in task[t].plan : task'[t] = Acting(task[t], task[t].plan \ {p})
      BY <1>2, <2>4 DEF ScoutPostSupplier
    <3>3. [task[t] EXCEPT !.stage = @ + 1].pc = task[t].pc
          /\ [task[t] EXCEPT !.stage = @ + 1].plan = task[t].plan
      BY <1>1 DEF TaskState
    <3> QED  BY <1>4, <3>1, <3>2, <3>3 DEF OnCourse, Writing
  <2> QED  BY <1>7, <2>1, <2>2, <2>3, <2>4 DEF ScoutStep
<1>8. CASE EvaluatorStep(t)
  <2>1. CASE EvaluatorPerceive(t)
    BY <1>1, <1>2, <1>6, <2>1 DEF EvaluatorPerceive, Perceive, TaskState
  <2>2. CASE EvaluatorScan(t)
    BY <1>1, <1>5, <2>2 DEF EvaluatorScan
  <2>3. CASE EvaluatorReadPool(t)
    BY <1>1, <1>2, <1>6, <2>3 DEF EvaluatorReadPool, TaskState
  <2>4. CASE EvaluatorReadRequirement(t)
    BY <1>1, <1>2, <1>6, <2>4 DEF EvaluatorReadRequirement, TaskState
  <2>5. CASE EvaluatorMark(t)
    <3>1. NextTrace(t, [task[t] EXCEPT !.plan = @ \cup {EvaluationProposal(t)}],
                    handled[t[2]] \cup {Key(log["discovery"][task[t].pos])},
                    "discovery", DiscLimit, "supplier_discovered")
      BY <2>5 DEF EvaluatorMark, Serial
    <3>2. [task[t] EXCEPT !.plan = @ \cup {EvaluationProposal(t)}] \in TaskState
      BY <1>1, <2>5, EvaluationProposalType, PlannedType DEF EvaluatorMark
    <3> QED  BY <1>5, <3>1, <3>2
  <2>6. CASE EvaluatorPostScore(t)
    BY <1>1, <1>2, <1>6, <2>6 DEF EvaluatorPostScore, TaskState
  <2>7. CASE EvaluatorPostRisk(t)
    BY <1>2, <1>4, <2>7 DEF EvaluatorPostRisk
  <2> QED  BY <1>8, <2>1, <2>2, <2>3, <2>4, <2>5, <2>6, <2>7 DEF EvaluatorStep
<1>9. CASE NegotiatorStep(t)
  <2>1. CASE NegotiatorPerceive(t)
    BY <1>1, <1>2, <1>6, <2>1 DEF NegotiatorPerceive, Perceive, TaskState
  <2>2. CASE NegotiatorScan(t)
    BY <1>1, <1>5, <2>2 DEF NegotiatorScan
  <2>3. CASE NegotiatorReadPool(t)
    BY <1>1, <1>2, <1>6, <2>3 DEF NegotiatorReadPool, TaskState
  <2>4. CASE NegotiatorMark(t)
    <3>1. [task[t] EXCEPT !.plan = @ \cup {QuoteProposal(t)}] \in TaskState
      BY <1>1, <2>4, QuoteProposalType, PlannedType DEF NegotiatorMark
    <3> QED  BY <1>5, <2>4, <3>1 DEF NegotiatorMark
  <2>5. CASE NegotiatorPostQuote(t)
    BY <1>2, <1>4, <2>5 DEF NegotiatorPostQuote
  <2> QED  BY <1>9, <2>1, <2>2, <2>3, <2>4, <2>5 DEF NegotiatorStep
<1>10. CASE BuyerStep(t)
  <2>1. CASE BuyerReadDeals(t)
    BY <1>1, <1>2, <1>6, <2>1 DEF BuyerReadDeals, TaskState
  <2>2. CASE BuyerReadRisks(t)
    BY <1>1, <1>2, <1>6, <2>2 DEF BuyerReadRisks, TaskState
  <2>3. CASE BuyerReadScores(t)
    BY <1>1, <1>2, <1>6, <2>3 DEF BuyerReadScores, TaskState
  <2>4. CASE BuyerReason(t)
    <3>1. \E plan : task'[t] = Acting(task[t], plan)
      BY <1>2, <2>4, KernelLives DEF BuyerReason
    <3> QED  BY <1>1, <1>3, <3>1
  <2>5. CASE BuyerPostDecision(t)
    BY <1>2, <1>4, <2>5 DEF BuyerPostDecision
  <2> QED  BY <1>10, <2>1, <2>2, <2>3, <2>4, <2>5 DEF BuyerStep
<1>11. CASE LetGo(t) \/ DepositFailure(t)
  BY <1>2, <1>11, KernelLives DEF DepositFailure, Done, Idle, OnCourse
<1> QED  BY <1>7, <1>8, <1>9, <1>10, <1>11 DEF TaskStep, LetGo

\* Asking the actors of a phase for a step.
LEMMA LaunchedInPhase ==
    ASSUME SerialInv, TypeOK, NEW r \in Runs, NEW actors \in SUBSET Actors,
           NEW phase,
           rpc' = [rpc EXCEPT ![r] = phase], Launch(r, actors), UNCHANGED crashes,
           \A a \in actors : PhaseOf(a) = phase,
           \A a \in Actors : PhaseOf(a) = rpc[r] => Ended(<<r, a>>)
    PROVE  \A t \in Tasks : InPhase(t)'
<1> SUFFICES ASSUME NEW t \in Tasks PROVE InPhase(t)'
  OBVIOUS
<1>1. /\ rpc \in [Runs -> {"new", "scouts", "evaluators", "negotiators", "buyer",
                           "read", "done", "raised"}]
      /\ t[1] \in Runs /\ t[2] \in Actors /\ t = <<t[1], t[2]>> /\ InPhase(t)
      /\ Alive(t[2])' = Alive(t[2])
  BY DEF TypeOK, Tasks, SerialInv, Alive, RestartsOf
<1>2. CASE t[1] = r /\ t[2] \in actors
  <2>1. task'[t] = IF Alive(t[2]) THEN [Idle EXCEPT !.pc = "perceive"] ELSE Failed
    BY <1>2 DEF Launch
  <2>2. Failed.pc = "failed" /\ [Idle EXCEPT !.pc = "perceive"].pc = "perceive"
    BY DEF Failed, Idle
  <2>3. t[2] # Buyer => Alive(t[2])
    BY <1>1 DEF SerialInv, Processes
  <2>4. rpc'[t[1]] = PhaseOf(t[2])
    BY <1>1, <1>2
  <2> QED  BY <1>1, <2>1, <2>2, <2>3, <2>4 DEF InPhase, InFlight
<1>3. CASE ~(t[1] = r /\ t[2] \in actors)
  <2>1. task'[t] = task[t]
    BY <1>3 DEF Launch
  <2>2. InFlight(t) => t[1] # r
    BY <1>1 DEF InPhase, InFlight, Ended
  <2>3. InFlight(t) => rpc'[t[1]] = rpc[t[1]]
    BY <1>1, <2>2
  <2> QED  BY <1>1, <2>1, <2>3 DEF InPhase, InFlight
<1> QED  BY <1>2, <1>3

\* A phase that ends starts the next one with nobody of its own in flight.
LEMMA GatheredInPhase ==
    ASSUME SerialInv, TypeOK, NEW r \in Runs, NEW actors, NEW phase,
           NEW nextActors \in SUBSET Actors, NEW next,
           Gathered(r, phase, actors, next, nextActors),
           \A a \in nextActors : PhaseOf(a) = next,
           \A a \in Actors : PhaseOf(a) = phase => a \in actors
    PROVE  \A t \in Tasks : InPhase(t)'
<1>1. /\ rpc' = [rpc EXCEPT ![r] = next] /\ Launch(r, nextActors)
      /\ UNCHANGED crashes /\ rpc[r] = phase
      /\ \A a \in actors : Ended(<<r, a>>)
  BY DEF Gathered
<1>2. \A a \in Actors : PhaseOf(a) = rpc[r] => Ended(<<r, a>>)
  BY <1>1
<1> QED  BY <1>1, <1>2, LaunchedInPhase

LEMMA RunStepSerial ==
    ASSUME SerialInv, TypeOK, NEW r \in Runs, RunStep(r) PROVE SerialInv'
<1>1. /\ rpc \in [Runs -> {"new", "scouts", "evaluators", "negotiators", "buyer",
                           "read", "done", "raised"}]
      /\ UNCHANGED crashes /\ rpc[r] \notin {"new", "done", "raised"}
      /\ \E phase : rpc' = [rpc EXCEPT ![r] = phase]
  BY DEF TypeOK, RunStep, GatherScouts, GatherEvaluators, GatherNegotiators, Gathered,
         BuyerReturned, ReadDecision
<1>2. (\A p, q \in Active : p = q)'
  BY <1>1 DEF SerialInv, Active
<1>3. \A a \in Processes \ {Buyer} : Alive(a)'
  BY <1>1 DEF SerialInv, Alive, RestartsOf
<1>4. {Scouts, Evaluators, Negotiators, {Buyer}} \subseteq SUBSET Actors
  BY DEF Actors
<1>5. CASE GatherScouts(r)
  <2>1. Gathered(r, "scouts", Scouts, "evaluators", Evaluators)
    BY <1>5 DEF GatherScouts
  <2>2. \A a \in Evaluators : PhaseOf(a) = "evaluators"
    <3> SUFFICES ASSUME NEW a \in Evaluators PROVE PhaseOf(a) = "evaluators"
      OBVIOUS
    <3>1. a \in Actors
      BY DEF Actors
    <3> QED  BY <3>1, Places
  <2>3. \A a \in Actors : PhaseOf(a) = "scouts" => a \in Scouts
    BY Places
  <2>4. \A t \in Tasks : InPhase(t)'
    BY <1>4, <2>1, <2>2, <2>3, GatheredInPhase
  <2> QED  BY <1>2, <1>3, <2>4 DEF SerialInv
<1>6. CASE GatherEvaluators(r)
  <2>1. Gathered(r, "evaluators", Evaluators, "negotiators", Negotiators)
    BY <1>6 DEF GatherEvaluators
  <2>2. \A a \in Negotiators : PhaseOf(a) = "negotiators"
    <3> SUFFICES ASSUME NEW a \in Negotiators PROVE PhaseOf(a) = "negotiators"
      OBVIOUS
    <3>1. a \in Actors
      BY DEF Actors
    <3> QED  BY <3>1, Places
  <2>3. \A a \in Actors : PhaseOf(a) = "evaluators" => a \in Evaluators
    BY Places
  <2>4. \A t \in Tasks : InPhase(t)'
    BY <1>4, <2>1, <2>2, <2>3, GatheredInPhase
  <2> QED  BY <1>2, <1>3, <2>4 DEF SerialInv
<1>7. CASE GatherNegotiators(r)
  <2>1. Gathered(r, "negotiators", Negotiators, "buyer", {Buyer})
    BY <1>7 DEF GatherNegotiators
  <2>2. \A a \in {Buyer} : PhaseOf(a) = "buyer"
    <3> SUFFICES ASSUME NEW a \in {Buyer} PROVE PhaseOf(a) = "buyer"
      OBVIOUS
    <3>1. a \in Actors
      BY DEF Actors
    <3> QED  BY <3>1, Places
  <2>3. \A a \in Actors : PhaseOf(a) = "negotiators" => a \in Negotiators
    BY Places
  <2>4. \A t \in Tasks : InPhase(t)'
    BY <1>4, <2>1, <2>2, <2>3, GatheredInPhase
  <2> QED  BY <1>2, <1>3, <2>4 DEF SerialInv
<1>8. CASE BuyerReturned(r) \/ ReadDecision(r)
  <2>1. UNCHANGED task
    BY <1>8 DEF BuyerReturned, ReadDecision
  <2>2. ASSUME NEW t \in Tasks PROVE InPhase(t)'
    <3>1. t[1] \in Runs /\ t[2] \in Actors /\ t = <<t[1], t[2]>> /\ InPhase(t)
      BY DEF Tasks, SerialInv
    <3>2. InFlight(t) => t[1] # r
      <4>1. CASE BuyerReturned(r)
        BY <3>1, <4>1, Places DEF BuyerReturned, InPhase, InFlight, Ended
      <4>2. CASE ReadDecision(r)
        BY <3>1, <4>2 DEF ReadDecision, InPhase, PhaseOf
      <4> QED  BY <1>8, <4>1, <4>2
    <3>3. InFlight(t) => rpc'[t[1]] = rpc[t[1]]
      BY <1>1, <3>1, <3>2
    <3> QED  BY <1>1, <2>1, <3>1, <3>3 DEF InPhase, InFlight, Alive, RestartsOf
  <2> QED  BY <1>2, <1>3, <2>2 DEF SerialInv
<1> QED  BY <1>5, <1>6, <1>7, <1>8 DEF RunStep

LEMMA SubmitSerial ==
    ASSUME SerialInv, TypeOK, MaxActive <= 1, NEW r \in Runs, Submit(r) PROVE SerialInv'
<1>1. /\ rpc \in [Runs -> {"new", "scouts", "evaluators", "negotiators", "buyer",
                           "read", "done", "raised"}]
      /\ UNCHANGED crashes /\ rpc[r] = "new" /\ rpc' = [rpc EXCEPT ![r] = "scouts"]
      /\ Launch(r, Scouts)
  BY DEF TypeOK, Submit
<1>2. Active = {}
  <2>1. SUFFICES ASSUME NEW q \in Active PROVE FALSE
    OBVIOUS
  <2>2. Active = {q}
    BY DEF SerialInv
  <2>3. Cardinality(Active) = 1
    BY <2>2, FS_Singleton
  <2> QED  BY <2>3, BoundsAssumption DEF Submit
<1>3. (\A p, q \in Active : p = q)'
  BY <1>1, <1>2 DEF Active
<1>4. \A a \in Processes \ {Buyer} : Alive(a)'
  BY <1>1 DEF SerialInv, Alive, RestartsOf
<1>5. \A a \in Actors : PhaseOf(a) # "new"
  BY DEF PhaseOf
<1>6. Scouts \in SUBSET Actors /\ \A a \in Scouts : PhaseOf(a) = "scouts"
  BY Places DEF Actors
<1>7. \A t \in Tasks : InPhase(t)'
  BY <1>1, <1>5, <1>6, LaunchedInPhase
<1> QED  BY <1>3, <1>4, <1>7 DEF SerialInv

LEMMA NextSerial ==
    ASSUME Serial, SerialInv, TypeInv, [Next]_vars PROVE SerialInv'
<1>1. TypeOK
  BY DEF TypeInv
<1>2. ASSUME NEW r \in Runs, Submit(r) \/ RunStep(r) PROVE SerialInv'
  BY <1>1, <1>2, SubmitSerial, RunStepSerial DEF Serial
<1>3. ASSUME NEW t \in Tasks, TaskStep(t) PROVE SerialInv'
  <2>1. /\ UNCHANGED <<rpc, crashes>> /\ \A u \in Tasks : u # t => task'[u] = task[u]
    BY <1>1, <1>3, StepFrame, MovesItself, StepElsewhere
  <2>2. InFlight(t) /\ OnCourse(t[2], task'[t])
    BY <1>3, StepInFlight, StepLeads
  <2>3. \A u \in Tasks : InPhase(u)'
    BY <2>1, <2>2 DEF SerialInv, InPhase, InFlight, Alive, RestartsOf, OnCourse
  <2> QED  BY <2>1, <2>3 DEF SerialInv, Active, Alive, RestartsOf
<1>4. ASSUME NEW b \in Fallible, Crash(b) PROVE SerialInv'
  <2>1. b = Buyer /\ UNCHANGED rpc /\ \A a \in Processes \ {Buyer} : crashes'[a] = crashes[a]
    BY <1>1, <1>4 DEF Serial, Crash, TypeOK
  <2>2. \A a \in Processes \ {Buyer} : Alive(a)' = Alive(a)
    BY <2>1 DEF Alive, RestartsOf
  <2>3. ~(crashes[b] < RestartsOf(b))
    BY <1>1, <2>1 DEF RestartsOf, TypeOK, Actors, Processes
  <2>4. ASSUME NEW t \in Tasks PROVE InPhase(t)'
    <3>1. t[2] \in Actors /\ InPhase(t)
      BY DEF Tasks, SerialInv
    <3>2. CASE t[2] = b /\ InFlight(t)
      <4>1. task'[t] = Failed /\ Failed.pc = "failed"
        BY <1>4, <2>3, <3>2 DEF Crash, Failed, Idle
      <4> QED  BY <2>1, <3>2, <4>1 DEF InPhase, InFlight
    <3>3. CASE ~(t[2] = b /\ InFlight(t))
      <4>1. task'[t] = task[t]
        BY <1>4, <3>3 DEF Crash
      <4> QED  BY <2>1, <2>2, <3>1, <3>3, <4>1 DEF InPhase, InFlight, Processes
    <3> QED  BY <3>2, <3>3
  <2> QED  BY <2>1, <2>2, <2>4 DEF SerialInv, Active
<1>5. CASE UNCHANGED vars
  BY <1>5 DEF vars, SerialInv, Active, InPhase, InFlight, Alive, RestartsOf
<1> QED  BY <1>2, <1>3, <1>4, <1>5 DEF Next

(***************************************************************************)
(* What any step does to the channels.                                     *)
(***************************************************************************)
LEMMA NextGrows ==
    ASSUME LineageInv, [Next]_vars
    PROVE  /\ LineageInv' /\ TypeInv /\ TypeInv' /\ TypeOK /\ TypeOK'
           /\ log \in Boards /\ log' \in Boards /\ Grows(log, log')
<1>1. LineageInv' /\ Extended
  BY NextLineage DEF Kept
<1> QED  BY <1>1, ExtendedGrows DEF LineageInv, TypeInv

LEMMA NextWrites ==
    ASSUME LineageInv, SerialInv, [Next]_vars
    PROVE  \/ UNCHANGED log
           \/ \E trace : Writes("requirement", trace) /\ \E r \in Runs : Submit(r)
           \/ \E t \in Tasks : /\ TaskStep(t)
                               /\ \E ch \in ChannelsOf(t[2]) : \E trace : Writes(ch, trace)
<1>1. ASSUME NEW r \in Runs, RunStep(r) PROVE UNCHANGED log
  BY <1>1 DEF RunStep, GatherScouts, GatherEvaluators, GatherNegotiators, Gathered,
              BuyerReturned, ReadDecision
<1>2. ASSUME NEW b \in Fallible, Crash(b) PROVE UNCHANGED log
  BY <1>2 DEF Crash
<1>3. ASSUME NEW t \in Tasks, TaskStep(t)
      PROVE  UNCHANGED log \/ \E ch \in ChannelsOf(t[2]) : \E trace : Writes(ch, trace)
  BY <1>3, StepWrites DEF SerialInv
<1>4. CASE UNCHANGED vars
  BY <1>4 DEF vars
<1> QED  BY <1>1, <1>2, <1>3, <1>4, SubmitWrites DEF Next

LEMMA NextTyped ==
    ASSUME TypedInv, SerialInv, [Next]_vars PROVE TypedInv'
<1>1. LineageInv /\ LineageInv' /\ TypeOK
  BY NextGrows DEF TypedInv
<1>2. CASE UNCHANGED log
  BY <1>1, <1>2 DEF TypedInv, WellTyped
<1>3. ASSUME NEW c, NEW trace, Writes(c, trace) PROVE TypedInv'
  <2>1. ASSUME NEW ch \in Channels, NEW i \in DOMAIN log'[ch] PROVE WellTyped(ch, log'[ch][i])
    <3>1. CASE ch # c
      <4>1. log'[ch] = log[ch]
        BY <1>1, <1>3, <3>1, WriteEffect
      <4> QED  BY <2>1, <4>1 DEF TypedInv
    <3>2. CASE ch = c
      <4>1. /\ DOMAIN log[ch] = 1 .. Len(log[ch]) /\ DOMAIN log'[ch] = 1 .. Len(log'[ch])
        BY <1>1 DEF LineageInv, TypeInv, TypeOK
      <4>2. \/ i \in 1 .. Len(log[ch]) /\ log'[ch][i] = log[ch][i]
            \/ log'[ch][i] = trace
        BY <1>1, <1>3, <2>1, <3>2, <4>1, WriteEffect
      <4>3. WellTyped(ch, trace)
        BY <1>3, <3>2 DEF Writes
      <4> QED  BY <2>1, <4>1, <4>2, <4>3 DEF TypedInv
    <3> QED  BY <3>1, <3>2
  <2> QED  BY <1>1, <2>1 DEF TypedInv, WellTyped
<1> QED  BY <1>1, <1>2, <1>3, NextWrites

\* The phase of a run in which a channel is written.
PhaseFor(ch) ==
    CASE ch = "discovery" -> "scouts"
      [] ch \in {"score", "risk"} -> "evaluators"
      [] ch = "deal" -> "negotiators"
      [] OTHER -> "buyer"

LEMMA WriterPhase ==
    ASSUME NEW a \in Actors, NEW ch \in ChannelsOf(a)
    PROVE  PhaseOf(a) = PhaseFor(ch) /\ ch \in Channels \ {"requirement"}
BY DEF ChannelsOf, PhaseFor, PhaseOf, Channels

\* A channel of the actors changes only while a run is in its phase.
LEMMA Quiet ==
    ASSUME LineageInv, SerialInv, [Next]_vars,
           NEW ch \in Channels \ {"requirement"}, log'[ch] # log[ch]
    PROVE  \E t \in Tasks : /\ TaskStep(t) /\ InFlight(t) /\ UNCHANGED rpc
                            /\ PhaseOf(t[2]) = PhaseFor(ch)
                            /\ \E trace : Writes(ch, trace)
<1>1. TypeInv /\ TypeOK
  BY DEF LineageInv, TypeInv
<1>2. ASSUME NEW c, NEW trace, Writes(c, trace) PROVE c = ch
  BY <1>1, <1>2, WriteEffect
<1>3. PICK t \in Tasks : TaskStep(t) /\ \E c \in ChannelsOf(t[2]) : \E trace : Writes(c, trace)
  BY <1>2, NextWrites
<1>4. \E trace : Writes(ch, trace)
  BY <1>2, <1>3
<1>5. ch \in ChannelsOf(t[2])
  BY <1>2, <1>3
<1>6. t[2] \in Actors
  BY DEF Tasks
<1>7. PhaseOf(t[2]) = PhaseFor(ch)
  BY <1>5, <1>6, WriterPhase
<1>8. InFlight(t) /\ UNCHANGED rpc
  BY <1>1, <1>3, StepInFlight, StepFrame
<1> QED  BY <1>3, <1>4, <1>7, <1>8

\* A step under way keeps the channels of the other phases as they are.
LEMMA QuietElsewhere ==
    ASSUME LineageInv, SerialInv, [Next]_vars, NEW r \in Runs,
           NEW ch \in Channels \ {"requirement"},
           rpc[r] \notin {"new", "done", "raised", PhaseFor(ch)}
    PROVE  log'[ch] = log[ch]
<1> SUFFICES ASSUME log'[ch] # log[ch] PROVE FALSE
  OBVIOUS
<1>1. PICK t \in Tasks : InFlight(t) /\ PhaseOf(t[2]) = PhaseFor(ch)
  BY Quiet
<1>2. TypeOK
  BY DEF LineageInv, TypeInv
<1> QED  BY <1>1, <1>2, OnlyPhase

LEMMA StillTold ==
    ASSUME LineageInv, [Next]_vars, NEW ch \in Channels, NEW type, NEW k, Told(log, ch, type, k)
    PROVE  Told(log', ch, type, k)
BY NextGrows, ToldStays

\* What the run that is active is asked to do goes on while it submits nothing.
LEMMA LaunchKeeps ==
    ASSUME SerialInv, TypeOK, NEW r \in Runs, Submit(r) \/ RunStep(r),
           NEW t \in Tasks, InFlight(t)
    PROVE  task'[t] = task[t]
<1>1. /\ t[1] \in Runs /\ t[2] \in Actors /\ t = <<t[1], t[2]>>
      /\ rpc[t[1]] = PhaseOf(t[2])
  BY DEF Tasks, SerialInv, InPhase
<1>2. ASSUME NEW actors, Launch(r, actors), t[1] # r PROVE task'[t] = task[t]
  BY <1>2 DEF Launch
<1>3. CASE Submit(r)
  <2>1. t[1] # r
    BY <1>1, <1>3 DEF Submit, PhaseOf
  <2> QED  BY <1>2, <1>3, <2>1 DEF Submit
<1>4. ASSUME NEW phase, NEW actors, NEW next, NEW nextActors,
             Gathered(r, phase, actors, next, nextActors),
             \A a \in Actors : PhaseOf(a) = phase => a \in actors
      PROVE  task'[t] = task[t]
  <2>1. t[1] # r
    <3>1. SUFFICES ASSUME t[1] = r PROVE FALSE
      OBVIOUS
    <3>2. t[2] \in actors
      BY <1>1, <1>4, <3>1 DEF Gathered
    <3>3. Ended(t)
      BY <1>1, <1>4, <3>1, <3>2 DEF Gathered
    <3> QED  BY <3>3 DEF Ended, InFlight
  <2> QED  BY <1>2, <1>4, <2>1 DEF Gathered
<1>5. CASE GatherScouts(r)
  BY <1>4, <1>5, Places DEF GatherScouts
<1>6. CASE GatherEvaluators(r)
  BY <1>4, <1>6, Places DEF GatherEvaluators
<1>7. CASE GatherNegotiators(r)
  BY <1>4, <1>7, Places DEF GatherNegotiators
<1>8. CASE BuyerReturned(r) \/ ReadDecision(r)
  BY <1>8 DEF BuyerReturned, ReadDecision
<1> QED  BY <1>3, <1>5, <1>6, <1>7, <1>8 DEF RunStep

\* The step that moves is the one that changes; a crash is the buyer's.
LEMMA OthersStay ==
    ASSUME Fallible \subseteq {Buyer}, SerialInv, TypeOK, [Next]_vars,
           NEW t \in Tasks, InFlight(t), ~TaskStep(t), t[2] # Buyer
    PROVE  task'[t] = task[t]
<1>1. ASSUME NEW r \in Runs, Submit(r) \/ RunStep(r) PROVE task'[t] = task[t]
  BY <1>1, LaunchKeeps
<1>2. ASSUME NEW u \in Tasks, TaskStep(u) PROVE task'[t] = task[t]
  BY <1>2, MovesItself, StepElsewhere
<1>3. ASSUME NEW b \in Fallible, Crash(b) PROVE task'[t] = task[t]
  BY <1>3 DEF Crash
<1>4. CASE UNCHANGED vars
  BY <1>4 DEF vars
<1> QED  BY <1>1, <1>2, <1>3, <1>4 DEF Next

\* A step is of the actor's own archetype, or deposits its failure.
LEMMA OwnSteps ==
    ASSUME SerialInv, NEW t \in Tasks, TaskStep(t), ~DepositFailure(t)
    PROVE  /\ t[2] \in Scouts => ScoutStep(t)
           /\ t[2] \in Evaluators => EvaluatorStep(t)
           /\ t[2] \in Negotiators => NegotiatorStep(t)
           /\ t[2] = Buyer => BuyerStep(t)
<1>1. t[2] \in Actors
  BY DEF Tasks
<1>2. ScoutStep(t) => t[2] \in Scouts
  BY DEF ScoutStep, ScoutPerceive, ScoutReason, ScoutPostList, ScoutPostSupplier
<1>3. EvaluatorStep(t) => t[2] \in Evaluators
  BY DEF EvaluatorStep, EvaluatorPerceive, EvaluatorScan, EvaluatorReadPool,
         EvaluatorReadRequirement, EvaluatorMark, EvaluatorPostScore, EvaluatorPostRisk
<1>4. NegotiatorStep(t) => t[2] \in Negotiators
  BY DEF NegotiatorStep, NegotiatorPerceive, NegotiatorScan, NegotiatorReadPool,
         NegotiatorMark, NegotiatorPostQuote
<1>5. BuyerStep(t) => t[2] = Buyer
  BY DEF BuyerStep, BuyerReadDeals, BuyerReadRisks, BuyerReadScores, BuyerReason,
         BuyerPostDecision
<1>6. ~LetGo(t)
  BY KernelLives
<1> QED  BY <1>1, <1>2, <1>3, <1>4, <1>5, <1>6, Kinds DEF TaskStep, LetGo

(***************************************************************************)
(* The scouts' lists are followed by all of the pool.                      *)
(***************************************************************************)
\* A scout that is posting goes on while another step moves.
LEMMA PostingStays ==
    ASSUME Fallible \subseteq {Buyer}, SerialInv, LineageInv, [Next]_vars,
           NEW t \in Tasks, ~TaskStep(t), NEW c, NEW s, Posting(t, c, s)
    PROVE  Posting(t, c, s)'
<1>1. /\ t[2] \in Scouts /\ task[t].pc \in Writing /\ task[t].stage > 0
      /\ TypeOK /\ t[2] # Buyer /\ InFlight(t) /\ "discovery" \in Channels
  BY LinkedFacts, Kinds DEF Posting, InFlight, Channels, Writing
<1>2. task'[t] = task[t]
  BY <1>1, OthersStay
<1>3. task[t].ref \in 1 .. Len(log["discovery"])
  BY <1>1, LinkedFacts DEF Stands, IsTrace
<1>4. log'["discovery"][task[t].ref] = log["discovery"][task[t].ref]
  BY <1>1, <1>3, NextGrows, Recorded
<1> QED  BY <1>2, <1>4 DEF Posting

LEMMA PostListLists ==
    ASSUME Fallible \subseteq {Buyer}, SerialInv, TypedInv, ListsInv, [Next]_vars,
           NEW t \in Tasks, ScoutPostList(t), NEW c \in AllCorrs, Listed(log', c),
           NEW s \in Suppliers
    PROVE  Discovered(log', <<c, s>>) \/ \E u \in Tasks : Posting(u, c, s)'
<1>1. LineageInv /\ TypeOK /\ task[t] \in TaskState /\ "discovery" \in Channels
  BY LinkedFacts DEF TypedInv, Channels
<1>2. PICK p \in task[t].plan : IsCurrent(task[t], p) /\ Post("discovery", p.post)
  BY DEF ScoutPostList
<1>3. /\ p.post \in Trace /\ p.post.type = "supplier_list"
      /\ t[2] \in Scouts /\ task[t].pc \in Writing /\ task[t].stage = 0
  BY <1>1, <1>2, LinkedFacts DEF Proposal, ScoutPostList, Answers, ScoutProposal
<1>4. Writes("discovery", p.post)
  BY <1>1, <1>2, <1>3 DEF Writes, WellTyped, TypesOf
<1>5. Listed(log, c) \/ Key(p.post) = <<c, NoSupplier>>
  BY <1>1, <1>4, ToldNew DEF Listed
<1>6. CASE Listed(log, c)
  <2>1. Discovered(log, <<c, s>>) \/ \E u \in Tasks : Posting(u, c, s)
    BY <1>6 DEF ListsInv
  <2>2. ASSUME NEW u \in Tasks, Posting(u, c, s) PROVE Posting(u, c, s)'
    <3>1. u # t
      BY <1>1, <1>3, <2>2 DEF Posting
    <3>2. Posting(u, c, s)' <=> Posting(u, c, s)
      <4>1. task'[u] = task[u]
        BY <1>1, <3>1, StepElsewhere DEF ScoutPostList
      <4>2. u[2] \in Scouts /\ task[u].pc \in Writing /\ task[u].stage > 0
        BY <2>2 DEF Posting
      <4>3. task[u].ref \in 1 .. Len(log["discovery"])
        BY <1>1, <4>2, LinkedFacts DEF Stands, IsTrace
      <4>4. log'["discovery"][task[u].ref] = log["discovery"][task[u].ref]
        BY <1>1, <4>3, NextGrows, Recorded
      <4> QED  BY <4>1, <4>4 DEF Posting
    <3> QED  BY <2>2, <3>2
  <2> QED  BY <1>1, <2>1, <2>2, StillTold DEF Discovered
<1>7. CASE Key(p.post) = <<c, NoSupplier>>
  <2> DEFINE n == Len(log["discovery"]) + 1
  <2>1. task'[t] = [task[t] EXCEPT !.pc = "act", !.stage = 1, !.ref = n]
    BY <1>1 DEF ScoutPostList, Step, TypeOK
  <2>2. task'[t].stage = 1 /\ task'[t].ref = n /\ task'[t].pc = "act"
    BY <1>1, <1>3, <2>1 DEF TaskState
  <2>3. log'["discovery"][n] = p.post
    BY <1>1, <1>2, <1>3, PostEffect
  <2>4. p.post.corr = c
    BY <1>7 DEF Key
  <2>5. \E j \in 1 .. Len(Pool) : Pool[j] = s
    BY PoolAssumption DEF Suppliers
  <2> HIDE DEF n
  <2>6. Posting(t, c, s)'
    BY <1>3, <2>2, <2>3, <2>4, <2>5 DEF Posting, Writing
  <2> QED  BY <2>6
<1> QED  BY <1>5, <1>6, <1>7

LEMMA PostSupplierLists ==
    ASSUME Fallible \subseteq {Buyer}, SerialInv, TypedInv, ListsInv, [Next]_vars,
           NEW t \in Tasks, ScoutPostSupplier(t), NEW c \in AllCorrs, Listed(log', c),
           NEW s \in Suppliers
    PROVE  Discovered(log', <<c, s>>) \/ \E u \in Tasks : Posting(u, c, s)'
<1> DEFINE trace(p) == [by |-> "scout", type |-> "supplier_discovered", corr |-> p.post.corr,
                        sup |-> Pool[task[t].stage],
                        parents |-> {<<"discovery", task[t].ref>>}, sized |-> FALSE]
<1>1. /\ LineageInv /\ TypeInv /\ TypeOK /\ task[t] \in TaskState /\ "discovery" \in Channels
      /\ WellPlaced(log, t[2], task[t])
  BY LinkedFacts DEF TypedInv, Channels
<1>2. PICK p \in task[t].plan :
          /\ IsCurrent(task[t], p) /\ Post("discovery", trace(p))
          /\ Step(t, IF task[t].stage < Len(Pool) THEN [task[t] EXCEPT !.stage = @ + 1]
                     ELSE Acting(task[t], task[t].plan \ {p}))
  BY DEF ScoutPostSupplier
<1>3. /\ t[2] \in Scouts /\ task[t].pc \in Writing /\ task[t].stage > 0
      /\ task[t].stage \in 1 .. Len(Pool) /\ task[t].ref \in Nat
  BY <1>1, PoolAssumption DEF ScoutPostSupplier, TaskState, WellPlaced
<1>4. Pool[task[t].stage] \in Suppliers
  BY <1>3, PoolAssumption DEF Suppliers
<1>5. trace(p) \in Trace
  <2>1. p.post.corr \in Corrs \cup {NoCorr}
    BY <1>1, PostTypes DEF Trace
  <2>2. {<<"discovery", task[t].ref>>} \subseteq TraceIds
    BY <1>1, <1>3 DEF TraceIds
  <2> QED  BY <1>4, <2>1, <2>2 DEF Trace, Archetypes, TraceTypes
<1>6. trace(p).type = "supplier_discovered" /\ Key(trace(p)) = <<p.post.corr, Pool[task[t].stage]>>
  BY DEF Key
<1>7. task[t].ref \in 1 .. Len(log["discovery"]) /\ p.post.corr = log["discovery"][task[t].ref].corr
  BY <1>1, <1>2, <1>3, LinkedFacts DEF Stands, IsTrace
<1>8. log'["discovery"][task[t].ref] = log["discovery"][task[t].ref]
  BY <1>1, <1>7, NextGrows, Recorded
<1> HIDE DEF trace
<1>9. Writes("discovery", trace(p))
  BY <1>1, <1>2, <1>5, <1>6 DEF Writes, WellTyped, TypesOf
<1>10. Listed(log, c)
  BY <1>1, <1>6, <1>9, ToldNew DEF Listed
<1>11. Discovered(log, <<c, s>>) \/ \E u \in Tasks : Posting(u, c, s)
  BY <1>10 DEF ListsInv
<1>12. ASSUME NEW u \in Tasks, u # t, Posting(u, c, s) PROVE Posting(u, c, s)'
  <2>1. task'[u] = task[u]
    BY <1>1, <1>2, <1>12, StepElsewhere
  <2>2. u[2] \in Scouts /\ task[u].pc \in Writing /\ task[u].stage > 0
    BY <1>12 DEF Posting
  <2>3. task[u].ref \in 1 .. Len(log["discovery"])
    BY <1>1, <2>2, LinkedFacts DEF Stands, IsTrace
  <2>4. log'["discovery"][task[u].ref] = log["discovery"][task[u].ref]
    BY <1>1, <2>3, NextGrows, Recorded
  <2> QED  BY <1>12, <2>1, <2>4 DEF Posting
<1>13. CASE Posting(t, c, s)
  <2>1. PICK j \in task[t].stage .. Len(Pool) : Pool[j] = s
    BY <1>13 DEF Posting
  <2>2. c = p.post.corr
    BY <1>7, <1>13 DEF Posting
  <2>3. CASE j = task[t].stage
    <3>1. Key(trace(p)) = <<c, s>>
      BY <1>6, <2>1, <2>2, <2>3
    <3>2. Told(log', "discovery", trace(p).type, Key(trace(p)))
      BY <1>1, <1>9, ToldWritten
    <3> QED  BY <1>6, <3>1, <3>2 DEF Discovered
  <2>4. CASE j # task[t].stage
    <3>1. task[t].stage < Len(Pool) /\ j \in task[t].stage + 1 .. Len(Pool)
      BY <1>3, <2>1, <2>4, PoolAssumption
    <3>2. task'[t] = [task[t] EXCEPT !.stage = @ + 1]
      BY <1>1, <1>2, <3>1 DEF Step, TypeOK
    <3>3. /\ task'[t].stage = task[t].stage + 1 /\ task'[t].ref = task[t].ref
          /\ task'[t].pc \in Writing
      BY <1>1, <1>3, <3>2 DEF TaskState
    <3>4. Posting(t, c, s)'
      BY <1>3, <1>7, <1>8, <2>1, <2>2, <3>1, <3>3 DEF Posting
    <3> QED  BY <3>4
  <2> QED  BY <2>3, <2>4
<1> QED  BY <1>1, <1>11, <1>12, <1>13, StillTold DEF Discovered

LEMMA NextLists ==
    ASSUME Serial, SerialInv, TypedInv, ListsInv, [Next]_vars PROVE ListsInv'
<1> SUFFICES ASSUME NEW c \in AllCorrs, Listed(log', c), NEW s \in Suppliers
             PROVE  Discovered(log', <<c, s>>) \/ \E u \in Tasks : Posting(u, c, s)'
  BY DEF ListsInv
<1>1. LineageInv /\ TypeInv /\ TypeOK /\ Fallible \subseteq {Buyer}
  BY DEF TypedInv, LineageInv, TypeInv, Serial
<1>2. CASE \E t \in Tasks : ScoutPostList(t)
  BY <1>1, <1>2, PostListLists
<1>3. CASE \E t \in Tasks : ScoutPostSupplier(t)
  BY <1>1, <1>3, PostSupplierLists
<1>4. CASE ~ \E t \in Tasks : ScoutPostList(t) \/ ScoutPostSupplier(t)
  <2>1. Listed(log, c)
    <3>1. CASE log'["discovery"] = log["discovery"]
      BY <3>1 DEF Listed, Told
    <3>2. CASE log'["discovery"] # log["discovery"]
      <4>1. PICK t \in Tasks : TaskStep(t) /\ PhaseOf(t[2]) = PhaseFor("discovery")
        BY <1>1, <3>2, Quiet DEF Channels
      <4>2. t[2] \in Scouts
        BY <4>1, Places DEF PhaseFor, Tasks
      <4>4. DepositFailure(t)
        <5>1. ~ScoutStep(t)
          BY <1>4, <3>2 DEF ScoutStep, ScoutPerceive, Perceive, ScoutReason
        <5> QED  BY <4>1, <4>2, <5>1, OwnSteps
      <4>5. Failure(t[2]) \in Trace /\ WellTyped("discovery", Failure(t[2]))
        BY FailureType DEF Failure, WellTyped, TypesOf
      <4>6. Post("discovery", Failure(t[2])) \/ UNCHANGED log
        BY <4>1, <4>2, <4>4, DepositCases, Kinds DEF Actors
      <4>7. Writes("discovery", Failure(t[2])) /\ "discovery" \in Channels
        BY <3>2, <4>5, <4>6 DEF Writes, Channels
      <4>8. Failure(t[2]).type = "failure"
        BY DEF Failure
      <4> QED  BY <1>1, <4>7, <4>8, ToldNew DEF Listed
    <3> QED  BY <3>1, <3>2
  <2>2. Discovered(log, <<c, s>>) \/ \E u \in Tasks : Posting(u, c, s)
    BY <2>1 DEF ListsInv
  <2>3. ASSUME NEW u \in Tasks, Posting(u, c, s) PROVE Posting(u, c, s)'
    <3>1. u[2] \in Scouts /\ task[u].pc \in Writing /\ task[u].stage > 0
      BY <2>3 DEF Posting
    <3>2. ~TaskStep(u)
      <4>1. ~ScoutStep(u) /\ ~DepositFailure(u)
        BY <1>4, <3>1 DEF ScoutStep, ScoutPerceive, Perceive, ScoutReason, DepositFailure, Writing
      <4> QED  BY <3>1, <4>1, OwnSteps
    <3> QED  BY <1>1, <2>3, <3>2, PostingStays
  <2> QED  BY <1>1, <2>2, <2>3, StillTold DEF Discovered, Channels
<1> QED  BY <1>2, <1>3, <1>4

(***************************************************************************)
(* The loops of evaluators and negotiators pass nothing over.              *)
(***************************************************************************)
\* What a state of the loop has not come to yet, with these marks.
Swept(state, done, ch, type) ==
    \A i \in 1 .. Len(log[ch]) : log[ch][i].type = type =>
        Key(log[ch][i]) \in done \/ Ahead(state, i)

\* What is neither marked nor behind the loop is what the loop takes next.
LEMMA NextTraceSweeps ==
    ASSUME TypeOK, SerialInv, NEW t \in Tasks, NEW state \in TaskState, NEW done,
           NEW ch \in Channels, NEW limit \in Nat, NEW type,
           state.seen <= Len(log[ch]), Len(log[ch]) <= limit,
           \A i \in 1 .. Len(log[ch]) : log[ch][i].type = type =>
               Key(log[ch][i]) \in done \/ (i \in 1 .. state.seen /\ i < state.pos),
           NextTrace(t, state, done, ch, limit, type)
    PROVE  Swept(task'[t], done, ch, type)
<1> DEFINE fresh == {i \in Window(state.seen, limit) :
                       /\ i < state.pos
                       /\ log[ch][i].type = type
                       /\ Key(log[ch][i]) \notin done}
<1>1. state.seen \in Nat /\ Len(log[ch]) \in Nat
  BY ReadTrace DEF TaskState
<1>2. Window(state.seen, limit) = 1 .. state.seen
  BY <1>1 DEF Window
<1>3. ASSUME NEW i \in 1 .. Len(log[ch]), log[ch][i].type = type, Key(log[ch][i]) \notin done
      PROVE  i \in fresh
  BY <1>2, <1>3
<1>4. CASE fresh = {}
  <2> HIDE DEF fresh
  <2> QED  BY <1>3, <1>4 DEF Swept
<1>5. CASE fresh # {}
  <2> DEFINE next == [state EXCEPT !.pc = "pool", !.pos = Newest(fresh), !.ref = 0]
  <2>1. task'[t] = next
    BY <1>5 DEF NextTrace, Step, TypeOK
  <2>2. fresh \in SUBSET (1 .. state.seen)
    BY <1>2
  <2> HIDE DEF fresh
  <2>3. \A i \in fresh : i <= Newest(fresh)
    BY <1>1, <1>5, <2>2, NewestProperties
  <2>4. next.pc = "pool" /\ next.pos = Newest(fresh) /\ next.seen = state.seen
    BY DEF TaskState
  <2> HIDE DEF next
  <2>5. \A i \in fresh : Ahead(next, i)
    BY <2>2, <2>3, <2>4 DEF Ahead
  <2> QED  BY <1>3, <2>1, <2>5 DEF Swept
<1> QED  BY <1>4, <1>5

\* A discovery is of a list the evaluators and the negotiators can look up.
LEMMA PoolListed ==
    ASSUME TypedInv, NEW i \in 1 .. Len(log["discovery"]),
           log["discovery"][i].type = "supplier_discovered"
    PROVE  \E j \in 1 .. Len(log["discovery"]) :
               /\ log["discovery"][j].type = "supplier_list"
               /\ log["discovery"][j].corr = log["discovery"][i].corr
               /\ log["discovery"][j].sup = NoSupplier
<1> DEFINE trace == log["discovery"][i]
<1>1. LineageInv /\ TypeOK /\ "discovery" \in Channels
  BY DEF TypedInv, LineageInv, TypeInv, Channels
<1>2. trace \in Trace /\ i \in DOMAIN log["discovery"]
  BY <1>1, ReadTrace
<1>3. Descends(log, trace)
  BY <1>1, <1>2 DEF LineageInv, Sound
<1>4. ParentTypes["supplier_discovered"] = {"supplier_list"}
  BY DEF ParentTypes, TraceTypes
<1>5. PICK id \in trace.parents : log[id[1]][id[2]].type = "supplier_list"
  BY <1>3, <1>4 DEF Descends
<1>6. id[1] \in Channels
  BY <1>2 DEF Trace, TraceIds
<1>7. id[2] \in 1 .. Len(log[id[1]]) /\ log[id[1]][id[2]].corr = trace.corr
  BY <1>3 DEF Descends
<1>8. id[2] \in DOMAIN log[id[1]]
  BY <1>1, <1>6, <1>7, ReadTrace
<1>9. WellTyped(id[1], log[id[1]][id[2]]) /\ Sound(log, id[1], log[id[1]][id[2]])
  BY <1>6, <1>8 DEF TypedInv, LineageInv
<1>10. id[1] = "discovery"
  BY <1>5, <1>6, <1>9 DEF WellTyped, TypesOf, Channels
<1>11. log[id[1]][id[2]].sup = NoSupplier
  BY <1>5, <1>9 DEF Sound
<1> QED  BY <1>5, <1>7, <1>10, <1>11

\* An evaluation is of a discovery.
LEMMA EvaluationDiscovered ==
    ASSUME TypedInv, NEW i \in 1 .. Len(log["score"]), log["score"][i].type = "evaluation"
    PROVE  \E j \in 1 .. Len(log["discovery"]) :
               /\ log["discovery"][j].type = "supplier_discovered"
               /\ log["discovery"][j].corr = log["score"][i].corr
<1> DEFINE trace == log["score"][i]
<1>1. LineageInv /\ TypeOK /\ "score" \in Channels
  BY DEF TypedInv, LineageInv, TypeInv, Channels
<1>2. trace \in Trace /\ i \in DOMAIN log["score"]
  BY <1>1, ReadTrace
<1>3. Descends(log, trace)
  BY <1>1, <1>2 DEF LineageInv, Sound
<1>4. ParentTypes["evaluation"] = {"supplier_discovered"}
  BY DEF ParentTypes, TraceTypes
<1>5. PICK id \in trace.parents : log[id[1]][id[2]].type = "supplier_discovered"
  BY <1>3, <1>4 DEF Descends
<1>6. id[1] \in Channels
  BY <1>2 DEF Trace, TraceIds
<1>7. id[2] \in 1 .. Len(log[id[1]]) /\ log[id[1]][id[2]].corr = trace.corr
  BY <1>3 DEF Descends
<1>8. id[2] \in DOMAIN log[id[1]]
  BY <1>1, <1>6, <1>7, ReadTrace
<1>9. WellTyped(id[1], log[id[1]][id[2]])
  BY <1>6, <1>8 DEF TypedInv
<1>10. id[1] = "discovery"
  BY <1>5, <1>6, <1>9 DEF WellTyped, TypesOf, Channels
<1> QED  BY <1>5, <1>7, <1>10

\* A list about a correlation id, whoever was evaluated or discovered of it.
LEMMA DiscoveredListed ==
    ASSUME TypedInv, NEW i \in 1 .. Len(log["discovery"]),
           log["discovery"][i].type = "supplier_discovered", Len(log["discovery"]) <= PoolLimit
    PROVE  PoolsInSight(log["discovery"][i].corr) # {} /\ Listed(log, log["discovery"][i].corr)
<1>1. PICK j \in 1 .. Len(log["discovery"]) : /\ log["discovery"][j].type = "supplier_list"
                                             /\ log["discovery"][j].corr = log["discovery"][i].corr
                                             /\ log["discovery"][j].sup = NoSupplier
  BY PoolListed
<1>2. Len(log["discovery"]) \in Nat /\ PoolLimit \in Nat
  BY ReadTrace, BoundsAssumption DEF TypedInv, LineageInv, TypeInv, Channels
<1>3. j \in PoolsInSight(log["discovery"][i].corr)
  BY <1>1, <1>2 DEF PoolsInSight, Window
<1> QED  BY <1>1, <1>3 DEF Listed, Told, Key

LEMMA EvaluatedListed ==
    ASSUME TypedInv, NEW i \in 1 .. Len(log["score"]), log["score"][i].type = "evaluation",
           Len(log["discovery"]) <= PoolLimit
    PROVE  PoolsInSight(log["score"][i].corr) # {} /\ Listed(log, log["score"][i].corr)
BY EvaluationDiscovered, DiscoveredListed

LEMMA FitsBefore ==
    ASSUME LineageInv, [Next]_vars, Fits' PROVE Fits
<1>1. log \in Boards /\ log' \in Boards /\ Grows(log, log')
  BY NextGrows
<1>2. \A ch \in Channels : Len(log[ch]) \in Nat /\ Len(log'[ch]) \in Nat /\ Len(log[ch]) <= Len(log'[ch])
  BY <1>1 DEF Boards, Grows
<1>3. \A ch \in Channels, limit \in Nat : Len(log'[ch]) <= limit => Len(log[ch]) <= limit
  BY <1>2
<1>4. {"discovery", "score", "deal"} \subseteq Channels
  BY DEF Channels
<1>5. {DiscLimit, PoolLimit, ScoreLimit, BuyerLimit} \subseteq Nat
  BY BoundsAssumption
<1> QED  BY <1>3, <1>4, <1>5 DEF Fits

LEMMA SweptAgain ==
    ASSUME NEW t, NEW ch, NEW type, log'[ch] = log[ch],
           Swept(task'[t], handled'[t[2]], ch, type)
    PROVE  Sweeps(t, ch, type)'
BY DEF Swept, Sweeps, Ahead

\* A step of the loop that takes the trace it is at no further, or is done with it.
LEMMA SweptOn ==
    ASSUME NEW t, NEW ch, NEW type, log'[ch] = log[ch], Sweeps(t, ch, type),
           task[t].pc # "perceive", UNCHANGED handled,
           \/ task[t].pc \in {"pool", "size"} /\ task'[t].pc \in {"size", "mark"}
           \/ task[t].pc \notin {"reason", "pool", "size", "mark"},
           task[t].pc \in {"pool", "size"} =>
               task'[t].pos = task[t].pos /\ task'[t].seen = task[t].seen
    PROVE  Sweeps(t, ch, type)'
BY DEF Sweeps, Ahead

LEMMA EvaluatorSweeps ==
    ASSUME TypedInv, SerialInv, BadBudget = {}, Fits, NEW t \in Tasks, EvaluatorStep(t),
           log'["discovery"] = log["discovery"], Sweeps(t, "discovery", "supplier_discovered")
    PROVE  Sweeps(t, "discovery", "supplier_discovered")'
<1> DEFINE n == Len(log["discovery"])
           a == t[2]
<1>1. /\ LineageInv /\ TypeInv /\ TypeOK /\ task[t] \in TaskState /\ a \in Actors
      /\ "discovery" \in Channels /\ n \in Nat /\ WellPlaced(log, a, task[t])
  BY LinkedFacts DEF TypedInv, Channels
<1>2. /\ a \in Evaluators /\ task[t].seen \in Nat /\ task[t].pos \in Nat /\ task[t].seen <= n
      /\ DiscLimit \in Nat /\ n <= DiscLimit /\ n <= PoolLimit
  BY <1>1, BoundsAssumption
     DEF EvaluatorStep, EvaluatorPerceive, EvaluatorScan, EvaluatorReadPool, WellPlaced, TaskState,
         EvaluatorReadRequirement, EvaluatorMark, EvaluatorPostScore, EvaluatorPostRisk, Fits
<1>3. \A state : Step(t, state) => task'[t] = state
  BY <1>1 DEF Step, TypeOK
<1>4. CASE EvaluatorPerceive(t)
  <2>1. /\ task'[t] = [task[t] EXCEPT !.pc = "reason", !.seen = n, !.pos = n + 1]
        /\ handled' = handled
    BY <1>3, <1>4 DEF EvaluatorPerceive, Perceive
  <2>2. task'[t].pc = "reason" /\ task'[t].seen = n /\ task'[t].pos = n + 1
    BY <1>1, <2>1 DEF TaskState
  <2>3. \A i \in 1 .. n : Ahead(task'[t], i)
    BY <1>1, <2>2 DEF Ahead
  <2> QED  BY <2>3, SweptAgain DEF Swept
<1>5. CASE EvaluatorScan(t)
  <2>1. /\ NextTrace(t, task[t], handled[a], "discovery", DiscLimit, "supplier_discovered")
        /\ task[t].pc = "reason" /\ handled' = handled
    BY <1>5 DEF EvaluatorScan
  <2>2. \A i \in 1 .. n : log["discovery"][i].type = "supplier_discovered" =>
            Key(log["discovery"][i]) \in handled[a] \/ (i \in 1 .. task[t].seen /\ i < task[t].pos)
    BY <2>1 DEF Sweeps, Ahead
  <2>3. Swept(task'[t], handled[a], "discovery", "supplier_discovered")
    BY <1>1, <1>2, <2>1, <2>2, NextTraceSweeps
  <2> QED  BY <2>1, <2>3, SweptAgain
<1>6. CASE EvaluatorReadPool(t)
  <2>1. task[t].pc = "pool" /\ UNCHANGED handled
    BY <1>6 DEF EvaluatorReadPool
  <2>2. /\ task[t].pos \in 1 .. n
        /\ log["discovery"][task[t].pos].type = "supplier_discovered"
    BY <1>1, <1>2, <2>1, LinkedFacts DEF Stands, IsTrace
  <2>3. PoolsInSight(log["discovery"][task[t].pos].corr) # {}
    BY <1>2, <2>2, DiscoveredListed
  <2>4. task'[t] = [task[t] EXCEPT !.pc = "size"]
    BY <1>3, <1>6, <2>3 DEF EvaluatorReadPool
  <2>5. task'[t].pc = "size" /\ task'[t].seen = task[t].seen /\ task'[t].pos = task[t].pos
    BY <1>1, <2>4 DEF TaskState
  <2> QED  BY <2>1, <2>5, SweptOn
<1>7. CASE EvaluatorReadRequirement(t)
  <2>1. task[t].pc = "size" /\ UNCHANGED handled
        /\ \E ref : task'[t] = [task[t] EXCEPT !.pc = "mark", !.ref = ref]
    BY <1>3, <1>7 DEF EvaluatorReadRequirement
  <2>2. task'[t].pc = "mark" /\ task'[t].seen = task[t].seen /\ task'[t].pos = task[t].pos
    BY <1>1, <2>1 DEF TaskState
  <2> QED  BY <2>1, <2>2, SweptOn
<1>8. CASE EvaluatorMark(t)
  <2> DEFINE key == Key(log["discovery"][task[t].pos])
             done == handled[a] \cup {key}
             planned == [task[t] EXCEPT !.plan = @ \cup {EvaluationProposal(t)}]
  <2>1. /\ task[t].pc = "mark" /\ handled' = [handled EXCEPT ![a] = done]
        /\ NextTrace(t, planned, done, "discovery", DiscLimit, "supplier_discovered")
    BY <1>8 DEF EvaluatorMark
  <2>2. planned \in TaskState /\ planned.seen = task[t].seen /\ planned.pos = task[t].pos
    <3>1. planned \in TaskState
      BY <1>1, <1>8, EvaluationProposalType, PlannedType DEF EvaluatorMark
    <3> QED  BY <1>1, <3>1 DEF TaskState
  <2>3. ASSUME NEW i \in 1 .. n, log["discovery"][i].type = "supplier_discovered"
        PROVE  Key(log["discovery"][i]) \in done \/ (i \in 1 .. task[t].seen /\ i < task[t].pos)
    <3>1. Key(log["discovery"][i]) \in handled[a] \/ (i \in 1 .. task[t].seen /\ i <= task[t].pos)
      BY <2>1, <2>3 DEF Sweeps, Ahead
    <3>2. CASE i = task[t].pos
      BY <3>2
    <3>3. CASE i # task[t].pos
      BY <1>2, <3>1, <3>3
    <3> QED  BY <3>2, <3>3
  <2>4. handled'[a] = done
    BY <1>1, <2>1 DEF TypeOK
  <2> HIDE DEF planned, done
  <2>5. Swept(task'[t], done, "discovery", "supplier_discovered")
    BY <1>1, <1>2, <2>1, <2>2, <2>3, NextTraceSweeps
  <2> QED  BY <2>4, <2>5, SweptAgain
<1>9. CASE EvaluatorPostScore(t) \/ EvaluatorPostRisk(t)
  <2>1. task[t].pc \in Writing /\ UNCHANGED handled
    BY <1>9 DEF EvaluatorPostScore, EvaluatorPostRisk
  <2> QED  BY <2>1, SweptOn DEF Writing
<1> QED  BY <1>4, <1>5, <1>6, <1>7, <1>8, <1>9 DEF EvaluatorStep

LEMMA NegotiatorSweeps ==
    ASSUME TypedInv, SerialInv, Fits, NEW t \in Tasks, NegotiatorStep(t),
           log'["score"] = log["score"], Sweeps(t, "score", "evaluation")
    PROVE  Sweeps(t, "score", "evaluation")'
<1> DEFINE n == Len(log["score"])
           a == t[2]
<1>1. /\ LineageInv /\ TypeInv /\ TypeOK /\ task[t] \in TaskState /\ a \in Actors
      /\ "score" \in Channels /\ n \in Nat /\ WellPlaced(log, a, task[t])
  BY LinkedFacts DEF TypedInv, Channels
<1>2. /\ a \in Negotiators /\ task[t].seen \in Nat /\ task[t].pos \in Nat /\ task[t].seen <= n
      /\ ScoreLimit \in Nat /\ n <= ScoreLimit /\ Len(log["discovery"]) <= PoolLimit
  BY <1>1, BoundsAssumption
     DEF NegotiatorStep, NegotiatorPerceive, NegotiatorScan, NegotiatorReadPool, WellPlaced,
         TaskState, NegotiatorMark, NegotiatorPostQuote, Fits
<1>3. \A state : Step(t, state) => task'[t] = state
  BY <1>1 DEF Step, TypeOK
<1>4. CASE NegotiatorPerceive(t)
  <2>1. /\ task'[t] = [task[t] EXCEPT !.pc = "reason", !.seen = n, !.pos = n + 1]
        /\ handled' = handled
    BY <1>3, <1>4 DEF NegotiatorPerceive, Perceive
  <2>2. task'[t].pc = "reason" /\ task'[t].seen = n /\ task'[t].pos = n + 1
    BY <1>1, <2>1 DEF TaskState
  <2>3. \A i \in 1 .. n : Ahead(task'[t], i)
    BY <1>1, <2>2 DEF Ahead
  <2> QED  BY <2>3, SweptAgain DEF Swept
<1>5. CASE NegotiatorScan(t)
  <2>1. /\ NextTrace(t, task[t], handled[a], "score", ScoreLimit, "evaluation")
        /\ task[t].pc = "reason" /\ handled' = handled
    BY <1>5 DEF NegotiatorScan
  <2>2. \A i \in 1 .. n : log["score"][i].type = "evaluation" =>
            Key(log["score"][i]) \in handled[a] \/ (i \in 1 .. task[t].seen /\ i < task[t].pos)
    BY <2>1 DEF Sweeps, Ahead
  <2>3. Swept(task'[t], handled[a], "score", "evaluation")
    BY <1>1, <1>2, <2>1, <2>2, NextTraceSweeps
  <2> QED  BY <2>1, <2>3, SweptAgain
<1>6. CASE NegotiatorReadPool(t)
  <2>1. task[t].pc = "pool" /\ UNCHANGED handled
    BY <1>6 DEF NegotiatorReadPool
  <2>2. task[t].pos \in 1 .. n /\ log["score"][task[t].pos].type = "evaluation"
    BY <1>1, <1>2, <2>1, LinkedFacts DEF Stands, IsTrace
  <2>3. PoolsInSight(log["score"][task[t].pos].corr) # {}
    BY <1>2, <2>2, EvaluatedListed
  <2>4. \E ref : task'[t] = [task[t] EXCEPT !.pc = "mark", !.ref = ref]
    BY <1>3, <1>6, <2>3 DEF NegotiatorReadPool
  <2>5. task'[t].pc = "mark" /\ task'[t].seen = task[t].seen /\ task'[t].pos = task[t].pos
    BY <1>1, <2>4 DEF TaskState
  <2> QED  BY <2>1, <2>5, SweptOn
<1>7. CASE NegotiatorMark(t)
  <2> DEFINE key == Key(log["score"][task[t].pos])
             done == handled[a] \cup {key}
             planned == [task[t] EXCEPT !.plan = @ \cup {QuoteProposal(t)}]
  <2>1. /\ task[t].pc = "mark" /\ handled' = [handled EXCEPT ![a] = done]
        /\ NextTrace(t, planned, done, "score", ScoreLimit, "evaluation")
    BY <1>7 DEF NegotiatorMark
  <2>2. planned \in TaskState /\ planned.seen = task[t].seen /\ planned.pos = task[t].pos
    <3>1. planned \in TaskState
      BY <1>1, <1>7, QuoteProposalType, PlannedType DEF NegotiatorMark
    <3> QED  BY <1>1, <3>1 DEF TaskState
  <2>3. ASSUME NEW i \in 1 .. n, log["score"][i].type = "evaluation"
        PROVE  Key(log["score"][i]) \in done \/ (i \in 1 .. task[t].seen /\ i < task[t].pos)
    <3>1. Key(log["score"][i]) \in handled[a] \/ (i \in 1 .. task[t].seen /\ i <= task[t].pos)
      BY <2>1, <2>3 DEF Sweeps, Ahead
    <3>2. CASE i = task[t].pos
      BY <3>2
    <3>3. CASE i # task[t].pos
      BY <1>2, <3>1, <3>3
    <3> QED  BY <3>2, <3>3
  <2>4. handled'[a] = done
    BY <1>1, <2>1 DEF TypeOK
  <2> HIDE DEF planned, done
  <2>5. Swept(task'[t], done, "score", "evaluation")
    BY <1>1, <1>2, <2>1, <2>2, <2>3, NextTraceSweeps
  <2> QED  BY <2>4, <2>5, SweptAgain
<1>8. CASE NegotiatorPostQuote(t)
  <2>1. task[t].pc \in Writing /\ UNCHANGED handled
    BY <1>8 DEF NegotiatorPostQuote
  <2> QED  BY <2>1, SweptOn DEF Writing
<1> QED  BY <1>4, <1>5, <1>6, <1>7, <1>8 DEF NegotiatorStep

\* Where a run goes; the others are not being served.
Advances(r) ==
    \/ Submit(r) /\ rpc[r] = "new" /\ rpc'[r] = "scouts"
    \/ GatherScouts(r) /\ rpc[r] = "scouts" /\ rpc'[r] = "evaluators"
    \/ GatherEvaluators(r) /\ rpc[r] = "evaluators" /\ rpc'[r] = "negotiators"
    \/ GatherNegotiators(r) /\ rpc[r] = "negotiators" /\ rpc'[r] = "buyer"
    \/ BuyerReturned(r) /\ rpc[r] = "buyer" /\ rpc'[r] \in {"read", "raised"}
    \/ ReadDecision(r) /\ rpc[r] = "read" /\ rpc'[r] = "done"

LEMMA RunMoves ==
    ASSUME SerialInv, SerialInv', TypeOK, NEW r \in Runs, Submit(r) \/ RunStep(r)
    PROVE  /\ Advances(r)
           /\ \A q \in Runs : q # r => rpc'[q] = rpc[q] /\ rpc[q] \in {"new", "done", "raised"}
<1>1. \A pc : rpc' = [rpc EXCEPT ![r] = pc] => rpc'[r] = pc
  BY DEF TypeOK
<1>2. Submit(r) => rpc[r] = "new" /\ rpc'[r] = "scouts"
  BY <1>1 DEF Submit
<1>3. GatherScouts(r) => rpc[r] = "scouts" /\ rpc'[r] = "evaluators"
  BY <1>1 DEF GatherScouts, Gathered
<1>4. GatherEvaluators(r) => rpc[r] = "evaluators" /\ rpc'[r] = "negotiators"
  BY <1>1 DEF GatherEvaluators, Gathered
<1>5. GatherNegotiators(r) => rpc[r] = "negotiators" /\ rpc'[r] = "buyer"
  BY <1>1 DEF GatherNegotiators, Gathered
<1>6. BuyerReturned(r) => rpc[r] = "buyer" /\ rpc'[r] \in {"read", "raised"}
  BY <1>1 DEF BuyerReturned
<1>7. ReadDecision(r) => rpc[r] = "read" /\ rpc'[r] = "done"
  BY <1>1 DEF ReadDecision
<1>8. Advances(r)
  BY <1>2, <1>3, <1>4, <1>5, <1>6, <1>7 DEF Advances, RunStep
<1>9. \E pc : rpc' = [rpc EXCEPT ![r] = pc]
  BY DEF Submit, RunStep, GatherScouts, GatherEvaluators, GatherNegotiators, Gathered,
         BuyerReturned, ReadDecision
<1>10. ASSUME NEW q \in Runs, q # r
       PROVE  rpc'[q] = rpc[q] /\ rpc[q] \in {"new", "done", "raised"}
  <2>1. rpc'[q] = rpc[q]
    BY <1>9, <1>10 DEF TypeOK
  <2>2. r \in Active \/ r \in Active'
    BY <1>8 DEF Active, Advances
  <2> QED  BY <1>10, <2>1, <2>2 DEF SerialInv, Active
<1> QED  BY <1>8, <1>10

\* A pool that is asked begins with a look at the channel.
LEMMA LaunchedSweep ==
    ASSUME SerialInv, TypeOK, NEW t \in Tasks, NEW actors, Launch(t[1], actors),
           t[2] \in actors, t[2] # Buyer, NEW ch, NEW type
    PROVE  Sweeps(t, ch, type)'
<1>1. t[2] \in Actors /\ Alive(t[2])
  BY DEF Tasks, SerialInv, Processes
<1>2. task'[t] = [Idle EXCEPT !.pc = "perceive"]
  BY <1>1 DEF Launch
<1>3. task'[t].pc = "perceive"
  BY <1>2 DEF Idle
<1> QED  BY <1>3 DEF Sweeps

\* A step that is not this one's leaves the loop as it is.
LEMMA SweepStays ==
    ASSUME NEW t, NEW ch, NEW type, log'[ch] = log[ch], Sweeps(t, ch, type),
           task'[t] = task[t], handled'[t[2]] = handled[t[2]]
    PROVE  Sweeps(t, ch, type)'
BY DEF Sweeps, Ahead

\* Two steps of the phase are of two actors.
LEMMA PhaseMates ==
    ASSUME LineageInv, SerialInv, NEW t \in Tasks, TaskStep(t),
           NEW u \in Tasks, rpc[u[1]] = PhaseOf(u[2]), u # t
    PROVE  /\ PhaseOf(t[2]) = PhaseOf(u[2]) /\ task'[u] = task[u]
           /\ handled'[u[2]] = handled[u[2]]
<1>1. TypeInv /\ TypeOK
  BY DEF LineageInv, TypeInv
<1>2. InFlight(t)
  BY StepInFlight
<1>3. rpc[u[1]] \notin {"new", "done", "raised"} /\ u[1] \in Runs
  BY DEF PhaseOf, Tasks
<1>4. u[1] = t[1] /\ rpc[t[1]] = PhaseOf(t[2])
  BY <1>1, <1>2, <1>3, OnlyPhase
<1>5. u[2] # t[2] /\ u[2] \in Actors
  BY <1>4 DEF Tasks
<1> QED  BY <1>1, <1>4, <1>5, StepFrame, MovesItself, StepElsewhere

LEMMA NextSweeps ==
    ASSUME Serial, Fits, TypedInv, SerialInv, SerialInv', SweepInv, [Next]_vars
    PROVE  SweepInv'
<1>1. /\ LineageInv /\ TypeInv /\ TypeOK /\ Fallible \subseteq {Buyer} /\ BadBudget = {}
      /\ "discovery" \in Channels \ {"requirement"} /\ "score" \in Channels \ {"requirement"}
  BY DEF TypedInv, LineageInv, TypeInv, Serial, Channels
<1>2. \A t \in Tasks : t[1] \in Runs /\ t[2] \in Actors
  BY DEF Tasks
<1>3. ASSUME NEW r \in Runs, Submit(r) \/ RunStep(r) PROVE SweepInv'
  <2>1. ASSUME NEW t \in Tasks, t[2] \in Evaluators, rpc'[t[1]] = "evaluators"
        PROVE  Sweeps(t, "discovery", "supplier_discovered")'
    <3>1. t[1] = r /\ GatherScouts(r)
      BY <1>1, <1>2, <1>3, <2>1, RunMoves DEF Advances
    <3>2. Launch(t[1], Evaluators) /\ t[2] # Buyer
      BY <1>2, <2>1, <3>1, Kinds DEF GatherScouts, Gathered
    <3> QED  BY <1>1, <2>1, <3>2, LaunchedSweep
  <2>2. ASSUME NEW t \in Tasks, t[2] \in Negotiators, rpc'[t[1]] = "negotiators"
        PROVE  Sweeps(t, "score", "evaluation")'
    <3>1. t[1] = r /\ GatherEvaluators(r)
      BY <1>1, <1>2, <1>3, <2>2, RunMoves DEF Advances
    <3>2. Launch(t[1], Negotiators) /\ t[2] # Buyer
      BY <1>2, <2>2, <3>1, Kinds DEF GatherEvaluators, Gathered
    <3> QED  BY <1>1, <2>2, <3>2, LaunchedSweep
  <2> QED  BY <2>1, <2>2 DEF SweepInv
<1>4. ASSUME NEW u \in Tasks, TaskStep(u) PROVE SweepInv'
  <2>0. UNCHANGED rpc
    BY <1>1, <1>4, StepFrame
  <2>1. ASSUME NEW t \in Tasks, t[2] \in Evaluators, rpc'[t[1]] = "evaluators"
        PROVE  Sweeps(t, "discovery", "supplier_discovered")'
    <3>1. rpc[t[1]] = PhaseOf(t[2]) /\ Sweeps(t, "discovery", "supplier_discovered")
      BY <1>2, <2>0, <2>1, Places DEF SweepInv
    <3>2. log'["discovery"] = log["discovery"]
      BY <1>1, <1>2, <2>0, <2>1, QuietElsewhere DEF PhaseFor
    <3>3. CASE t # u
      BY <1>1, <1>4, <3>1, <3>2, <3>3, PhaseMates, SweepStays
    <3>4. CASE t = u
      <4>1. ~DepositFailure(t)
        BY <1>2, <2>1, Kinds DEF DepositFailure, SerialInv, InPhase
      <4>2. EvaluatorStep(t)
        BY <1>4, <2>1, <3>4, <4>1, OwnSteps
      <4> QED  BY <1>1, <3>1, <3>2, <4>2, EvaluatorSweeps
    <3> QED  BY <3>3, <3>4
  <2>2. ASSUME NEW t \in Tasks, t[2] \in Negotiators, rpc'[t[1]] = "negotiators"
        PROVE  Sweeps(t, "score", "evaluation")'
    <3>1. rpc[t[1]] = PhaseOf(t[2]) /\ Sweeps(t, "score", "evaluation")
      BY <1>2, <2>0, <2>2, Places DEF SweepInv
    <3>2. log'["score"] = log["score"]
      BY <1>1, <1>2, <2>0, <2>2, QuietElsewhere DEF PhaseFor
    <3>3. CASE t # u
      BY <1>1, <1>4, <3>1, <3>2, <3>3, PhaseMates, SweepStays
    <3>4. CASE t = u
      <4>1. ~DepositFailure(t)
        BY <1>2, <2>2, Kinds DEF DepositFailure, SerialInv, InPhase
      <4>2. NegotiatorStep(t)
        BY <1>4, <2>2, <3>4, <4>1, OwnSteps
      <4> QED  BY <3>1, <3>2, <4>2, NegotiatorSweeps
    <3> QED  BY <3>3, <3>4
  <2> QED  BY <2>1, <2>2 DEF SweepInv
<1>5. ASSUME NEW b \in Fallible, Crash(b) PROVE SweepInv'
  <2>1. b = Buyer /\ UNCHANGED <<log, rpc>>
    BY <1>1, <1>5 DEF Crash
  <2>2. ASSUME NEW t \in Tasks, t[2] # Buyer
        PROVE  task'[t] = task[t] /\ handled'[t[2]] = handled[t[2]]
    BY <1>1, <1>2, <1>5, <2>1, <2>2 DEF Crash
  <2>3. \A t \in Tasks : t[2] \in Evaluators \cup Negotiators => t[2] # Buyer
    BY <1>2, Kinds
  <2> QED  BY <2>1, <2>2, <2>3, SweepStays DEF SweepInv
<1>6. CASE UNCHANGED vars
  BY <1>6, SweepStays DEF vars, SweepInv
<1> QED  BY <1>3, <1>4, <1>5, <1>6 DEF Next

(***************************************************************************)
(* What a phase leaves to the next one.                                    *)
(***************************************************************************)
\* An actor of a pool whose steps are over has answered all there was.
LEMMA SweptAnswered ==
    ASSUME TypedInv, SerialInv, NEW t \in Tasks, Ended(t), t[2] # Buyer,
           Remembers(t[2]), rpc[t[1]] = PhaseOf(t[2]),
           NEW ch \in Channels, NEW type, Sweeps(t, ch, type), NEW k, Told(log, ch, type, k)
    PROVE  Answered(t[2], k)
<1>1. /\ LineageInv /\ TypeOK /\ t[2] \in Actors /\ t[1] \in Runs /\ t = <<t[1], t[2]>>
  BY DEF TypedInv, LineageInv, TypeInv, Tasks
<1>2. task[t].pc = "done"
  BY DEF SerialInv, InPhase, Ended
<1>3. k \in handled[t[2]]
  BY <1>2 DEF Told, Sweeps, Ahead
<1>4. ASSUME NEW q \in Runs PROVE ~Pending(<<q, t[2]>>, k)
  <2>1. SUFFICES ASSUME InFlight(<<q, t[2]>>) PROVE FALSE
    BY DEF Pending
  <2>2. <<q, t[2]>> \in Tasks /\ rpc[t[1]] \notin {"new", "done", "raised"}
    BY <1>1 DEF Tasks, PhaseOf
  <2>3. q = t[1]
    BY <1>1, <2>1, <2>2, OnlyPhase
  <2> QED  BY <1>1, <1>2, <2>1, <2>3 DEF InFlight
<1>5. Alive(t[2]) /\ Alive(Kernel)
  BY <1>1, ActorsAssumption DEF SerialInv, Processes, Actors
<1> QED  BY <1>3, <1>4, <1>5 DEF Remembers

LEMMA EvaluatorsPass ==
    ASSUME Serial, TypedInv, MarksInv, SerialInv, SweepInv, NEW r \in Runs, GatherEvaluators(r),
           NEW k \in Pairs, Discovered(log, k)
    PROVE  Scored(log, k)
<1>1. PICK a \in Evaluators : TRUE
  BY DEF Serial
<1> DEFINE t == <<r, a>>
<1>2. /\ a \in Actors /\ a # Buyer /\ t \in Tasks /\ t[1] = r /\ t[2] = a
      /\ PhaseOf(a) = "evaluators"
  BY Kinds, Places DEF Actors, Tasks
<1>3. Ended(t) /\ rpc[r] = "evaluators" /\ Sweeps(t, "discovery", "supplier_discovered")
  BY <1>2 DEF GatherEvaluators, Gathered, SweepInv
<1>4. Remembers(a)
  BY DEF MarksInv, Serial
<1> HIDE DEF t
<1>5. Answered(a, k)
  BY <1>2, <1>3, <1>4, SweptAnswered DEF Discovered, Channels
<1>6. PICK i \in DOMAIN log["score"] : Key(log["score"][i]) = k
  BY <1>1, <1>5 DEF Answered, Output
<1>7. WellTyped("score", log["score"][i]) /\ i \in 1 .. Len(log["score"])
  BY <1>6, ReadTrace DEF TypedInv, LineageInv, TypeInv, Channels
<1>8. log["score"][i].sup # NoSupplier
  BY <1>6, PoolAssumption DEF Key, Pairs
<1> QED  BY <1>6, <1>7, <1>8 DEF Scored, Told, WellTyped, TypesOf

LEMMA NegotiatorsPass ==
    ASSUME Serial, TypedInv, MarksInv, SerialInv, SweepInv, NEW r \in Runs, GatherNegotiators(r),
           NEW k \in Pairs, Scored(log, k)
    PROVE  Quoted(log, k)
<1>1. PICK a \in Negotiators : TRUE
  BY DEF Serial
<1> DEFINE t == <<r, a>>
<1>2. /\ a \in Actors /\ a # Buyer /\ a \notin Evaluators /\ t \in Tasks /\ t[1] = r /\ t[2] = a
      /\ PhaseOf(a) = "negotiators"
  BY Kinds, Places DEF Actors, Tasks
<1>3. Ended(t) /\ rpc[r] = "negotiators" /\ Sweeps(t, "score", "evaluation")
  BY <1>2 DEF GatherNegotiators, Gathered, SweepInv
<1>4. Remembers(a)
  BY DEF MarksInv
<1> HIDE DEF t
<1>5. Answered(a, k)
  BY <1>2, <1>3, <1>4, SweptAnswered DEF Scored, Channels
<1>6. PICK i \in DOMAIN log["deal"] : Key(log["deal"][i]) = k
  BY <1>2, <1>5 DEF Answered, Output
<1>7. WellTyped("deal", log["deal"][i]) /\ i \in 1 .. Len(log["deal"])
  BY <1>6, ReadTrace DEF TypedInv, LineageInv, TypeInv, Channels
<1> QED  BY <1>6, <1>7 DEF Quoted, Told, WellTyped, TypesOf

\* A run leaves the phases before it through the gather of the last one.
LEMMA PhasesLeft ==
    ASSUME SerialInv, SerialInv', TypeOK, [Next]_vars, NEW phases, NoRunIn(phases)', ~NoRunIn(phases),
           phases \in {{"scouts", "evaluators"}, {"scouts", "evaluators", "negotiators"}}
    PROVE  /\ phases = {"scouts", "evaluators"} => \E r \in Runs : GatherEvaluators(r)
           /\ phases = {"scouts", "evaluators", "negotiators"} => \E r \in Runs : GatherNegotiators(r)
<1>1. PICK q \in Runs : rpc[q] \in phases /\ rpc'[q] \notin phases
  BY DEF NoRunIn
<1>2. rpc' # rpc
  BY <1>1
<1>3. ~UNCHANGED vars /\ (\A t \in Tasks : ~TaskStep(t)) /\ (\A b \in Fallible : ~Crash(b))
  BY <1>2, StepFrame DEF vars, Crash
<1>4. PICK r \in Runs : Submit(r) \/ RunStep(r)
  BY <1>3 DEF Next
<1>5. q = r
  BY <1>1, <1>4, RunMoves
<1> QED  BY <1>1, <1>4, <1>5, RunMoves DEF Advances

\* A channel that no run is about to write on tells what it told.
LEMMA NothingNew ==
    ASSUME LineageInv, SerialInv, [Next]_vars, NEW phases, NoRunIn(phases)',
           NEW ch \in Channels \ {"requirement"}, PhaseFor(ch) \in phases,
           NEW type, NEW k, Told(log', ch, type, k)
    PROVE  Told(log, ch, type, k)
<1>1. CASE log'[ch] = log[ch]
  BY <1>1 DEF Told
<1>2. CASE log'[ch] # log[ch]
  <2>1. PICK t \in Tasks : InFlight(t) /\ UNCHANGED rpc /\ PhaseOf(t[2]) = PhaseFor(ch)
    BY <1>2, Quiet
  <2>2. t[1] \in Runs /\ rpc[t[1]] = PhaseOf(t[2])
    BY <2>1 DEF SerialInv, InPhase, Tasks
  <2> QED  BY <2>1, <2>2 DEF NoRunIn
<1> QED  BY <1>1, <1>2

LEMMA NextPasses ==
    ASSUME Serial, TypedInv, MarksInv, SerialInv, SerialInv', SweepInv, PassedOn, [Next]_vars
    PROVE  PassedOn'
<1>1. /\ LineageInv /\ TypeOK
      /\ {"discovery", "score", "deal"} \subseteq Channels \ {"requirement"}
  BY DEF TypedInv, LineageInv, TypeInv, Channels
<1>2. ASSUME NoRunIn({"scouts", "evaluators"})', NEW k \in Pairs, Discovered(log', k)
      PROVE  Scored(log', k)
  <2>1. Discovered(log, k)
    BY <1>1, <1>2, NothingNew DEF Discovered, PhaseFor
  <2>2. Scored(log, k)
    <3>1. CASE NoRunIn({"scouts", "evaluators"})
      BY <2>1, <3>1 DEF PassedOn
    <3>2. CASE ~NoRunIn({"scouts", "evaluators"})
      BY <1>1, <1>2, <2>1, <3>2, PhasesLeft, EvaluatorsPass
    <3> QED  BY <3>1, <3>2
  <2> QED  BY <1>1, <2>2, StillTold DEF Scored
<1>3. ASSUME NoRunIn({"scouts", "evaluators", "negotiators"})', NEW k \in Pairs, Scored(log', k)
      PROVE  Quoted(log', k)
  <2>1. Scored(log, k)
    BY <1>1, <1>3, NothingNew DEF Scored, PhaseFor
  <2>2. Quoted(log, k)
    <3>1. CASE NoRunIn({"scouts", "evaluators", "negotiators"})
      BY <2>1, <3>1 DEF PassedOn
    <3>2. CASE ~NoRunIn({"scouts", "evaluators", "negotiators"})
      BY <1>1, <1>3, <2>1, <3>2, PhasesLeft, NegotiatorsPass
    <3> QED  BY <3>1, <3>2
  <2> QED  BY <1>1, <2>2, StillTold DEF Quoted
<1> QED  BY <1>2, <1>3 DEF PassedOn

(***************************************************************************)
(* The buyer holds, and ranks, all there is.                               *)
(***************************************************************************)
LEMMA BuyerStepHolds ==
    ASSUME TypeInv, SerialInv, NEW t \in Tasks, BuyerStep(t), HoldsAll(t),
           log'["deal"] = log["deal"], log'["score"] = log["score"]
    PROVE  HoldsAll(t)'
<1>1. task[t] \in TaskState /\ TypeOK /\ t[2] = Buyer
  BY TaskTypes DEF TypeInv, BuyerStep, BuyerReadDeals, BuyerReadRisks, BuyerReadScores,
     BuyerReason, BuyerPostDecision
<1>2. \A state : Step(t, state) => task'[t] = state
  BY <1>1 DEF Step, TypeOK
<1>3. CASE BuyerReadDeals(t)
  <2>1. task'[t] = [task[t] EXCEPT !.pc = "risks", !.seen = Len(log["deal"])]
    BY <1>2, <1>3 DEF BuyerReadDeals
  <2>2. task'[t].pc = "risks" /\ task'[t].seen = Len(log["deal"])
    BY <1>1, <2>1 DEF TaskState
  <2> QED  BY <2>2 DEF HoldsAll
<1>4. CASE BuyerReadRisks(t)
  <2>1. task'[t] = [task[t] EXCEPT !.pc = "scores", !.risks = Len(log["risk"])]
    BY <1>2, <1>4 DEF BuyerReadRisks
  <2>2. task'[t].pc = "scores" /\ task'[t].seen = task[t].seen
    BY <1>1, <2>1 DEF TaskState
  <2> QED  BY <1>1, <1>4, <2>2 DEF HoldsAll, BuyerReadRisks
<1>5. CASE BuyerReadScores(t)
  <2>1. task'[t] = [task[t] EXCEPT !.pc = "reason", !.scores = Len(log["score"])]
    BY <1>2, <1>5 DEF BuyerReadScores
  <2>2. /\ task'[t].pc = "reason" /\ task'[t].seen = task[t].seen
        /\ task'[t].scores = Len(log["score"])
    BY <1>1, <2>1 DEF TaskState
  <2> QED  BY <1>1, <1>5, <2>2 DEF HoldsAll, BuyerReadScores
<1>6. CASE BuyerReason(t) \/ BuyerPostDecision(t)
  <2>1. \E plan : task'[t] = Acting(task[t], plan)
    <3>1. \A plan : Reasoned(task[t], plan) = Acting(task[t], plan)
      BY KernelLives
    <3>2. CASE BuyerReason(t)
      BY <1>2, <3>1, <3>2 DEF BuyerReason
    <3>3. CASE BuyerPostDecision(t)
      BY <1>2, <3>3 DEF BuyerPostDecision
    <3> QED  BY <1>6, <3>2, <3>3
  <2>2. \A plan : Acting(task[t], plan).pc \in {"verdict", "act", "done"}
    BY <1>1 DEF Acting, TaskState, Done, Idle
  <2>3. task'[t].pc \in {"verdict", "act", "done"}
    BY <2>1, <2>2
  <2> QED  BY <2>3 DEF HoldsAll
<1> QED  BY <1>3, <1>4, <1>5, <1>6 DEF BuyerStep

LEMMA NextHolds ==
    ASSUME Serial, TypedInv, SerialInv, SerialInv', [Next]_vars, NEW t \in Tasks, HoldsAll(t)
    PROVE  HoldsAll(t)'
<1> SUFFICES ASSUME t[2] = Buyer, task'[t].pc \in {"risks", "scores", "reason"}
             PROVE  HoldsAll(t)'
  BY DEF HoldsAll
<1>1. /\ LineageInv /\ TypeInv /\ TypeOK /\ t[1] \in Runs /\ t[2] \in Actors
      /\ "deal" \in Channels \ {"requirement"} /\ "score" \in Channels \ {"requirement"}
  BY DEF TypedInv, LineageInv, TypeInv, Channels, Tasks
<1>2. CASE task'[t] = task[t]
  <2>1. rpc[t[1]] = "buyer"
    BY <1>1, <1>2, Places DEF SerialInv, InPhase, InFlight
  <2>2. log'["deal"] = log["deal"] /\ log'["score"] = log["score"]
    BY <1>1, <2>1, QuietElsewhere DEF PhaseFor
  <2> QED  BY <1>2, <2>2 DEF HoldsAll
<1>3. CASE task'[t] # task[t]
  <2> DEFINE Fresh == \/ task'[t] \in {Done, Failed, [Idle EXCEPT !.pc = "perceive"]}
                      \/ \E n : task'[t] = [Idle EXCEPT !.pc = "perceive", !.tries = n]
  <2>1. ~Fresh
    BY DEF Done, Failed, Idle
  <2>2. ASSUME NEW r \in Runs, Submit(r) \/ RunStep(r) PROVE FALSE
    <3>1. UNCHANGED task \/ \E actors : Launch(r, actors)
      BY <2>2 DEF Submit, RunStep, GatherScouts, GatherEvaluators, GatherNegotiators, Gathered,
                  BuyerReturned, ReadDecision
    <3> QED  BY <1>3, <2>1, <3>1, LaunchReplaces
  <2>3. ASSUME NEW b \in Fallible, Crash(b) PROVE FALSE
    <3>1. \/ task'[t] \in {task[t], Failed}
          \/ task'[t] = [Idle EXCEPT !.pc = "perceive", !.tries = task[t].tries + 1]
      BY <2>3 DEF Crash
    <3> QED  BY <1>3, <2>1, <3>1
  <2>4. PICK u \in Tasks : TaskStep(u)
    BY <1>3, <2>2, <2>3 DEF Next, vars
  <2>5. u = t
    BY <1>1, <1>3, <2>4, MovesItself, StepElsewhere
  <2>6. ~DepositFailure(t)
    <3>1. DepositFailure(t) => task'[t] = Done
      BY <1>1 DEF DepositFailure, Step, TypeOK
    <3> QED  BY <2>1, <3>1
  <2>7. BuyerStep(t)
    BY <2>4, <2>5, <2>6, OwnSteps
  <2>8. rpc[t[1]] = "buyer"
    BY <1>1, <2>4, <2>5, StepInFlight, Places DEF SerialInv, InPhase
  <2>9. log'["deal"] = log["deal"] /\ log'["score"] = log["score"]
    BY <1>1, <2>8, QuietElsewhere DEF PhaseFor
  <2> QED  BY <1>1, <2>7, <2>9, BuyerStepHolds
<1> QED  BY <1>2, <1>3

\* When the buyer is at work, all of a pool that was listed is evaluated and quoted.
LEMMA ListedQuoted ==
    ASSUME TypedInv, SerialInv, ListsInv, PassedOn, NEW t \in Tasks, t[2] = Buyer, InFlight(t),
           NEW c \in AllCorrs, Listed(log, c), NEW s \in Suppliers
    PROVE  Scored(log, <<c, s>>) /\ Quoted(log, <<c, s>>)
<1>1. TypeOK /\ t[2] \in Actors
  BY LinkedFacts DEF TypedInv
<1>2. /\ rpc[t[1]] = "buyer" /\ \A r \in Runs : rpc[r] \notin {"new", "done", "raised"} => r = t[1]
      /\ \A u \in Tasks : InFlight(u) => PhaseOf(u[2]) = PhaseOf(t[2])
  BY <1>1, OnlyPhase, Places
<1>3. NoRunIn({"scouts", "evaluators"}) /\ NoRunIn({"scouts", "evaluators", "negotiators"})
  BY <1>2 DEF NoRunIn
<1>4. Discovered(log, <<c, s>>)
  <2>1. \A u \in Tasks : ~Posting(u, c, s)
    <3>1. SUFFICES ASSUME NEW u \in Tasks, Posting(u, c, s) PROVE FALSE
      OBVIOUS
    <3>2. u[2] \in Scouts /\ InFlight(u) /\ u[2] \in Actors
      BY <3>1 DEF Posting, InFlight, Tasks, Writing
    <3>3. PhaseOf(u[2]) = "scouts" /\ PhaseOf(t[2]) = "buyer"
      BY <1>1, <3>2, Places
    <3> QED  BY <1>2, <3>2, <3>3
  <2> QED  BY <2>1 DEF ListsInv
<1> QED  BY <1>3, <1>4 DEF PassedOn, Pairs

\* Whoever is dealt with was evaluated, discovered and listed with all of the
\* pool, so all of the pool is dealt with.
LEMMA AllRanked ==
    ASSUME Fits, TypedInv, SerialInv, ListsInv, PassedOn,
           NEW t \in Tasks, t[2] = Buyer, task[t].pc = "reason", HoldsAll(t),
           NEW c \in DealtCorrs(task[t])
    PROVE  Candidates(task[t], c) = Suppliers
<1>1. /\ LineageInv /\ TypeOK /\ task[t] \in TaskState /\ WellPlaced(log, t[2], task[t])
      /\ "deal" \in Channels /\ "score" \in Channels /\ InFlight(t)
      /\ Len(log["deal"]) \in Nat /\ Len(log["score"]) \in Nat /\ BuyerLimit \in Nat
  BY LinkedFacts, BoundsAssumption DEF TypedInv, Channels, InFlight
<1>2. /\ task[t].seen = Len(log["deal"]) /\ task[t].scores = Len(log["score"])
      /\ Len(log["deal"]) <= BuyerLimit /\ Len(log["score"]) <= BuyerLimit
  BY DEF HoldsAll, Fits
<1>3. /\ Window(task[t].seen, BuyerLimit) = 1 .. Len(log["deal"])
      /\ Window(task[t].scores, BuyerLimit) = 1 .. Len(log["score"])
  BY <1>1, <1>2 DEF Window
<1>4. PICK i \in 1 .. Len(log["deal"]) : log["deal"][i].corr = c
  BY <1>3 DEF DealtCorrs
<1>5. log["deal"][i] \in Trace /\ Sound(log, "deal", log["deal"][i])
  BY <1>1, LinkedFacts
<1>6. c \in AllCorrs
  BY <1>4, <1>5 DEF Trace, AllCorrs
<1>7. PICK j \in 1 .. Len(log["score"]) : /\ log["score"][j].type = "evaluation"
                                          /\ Key(log["score"][j]) = Key(log["deal"][i])
  BY <1>5 DEF Sound, Evaluated
<1>8. log["score"][j].corr = c
  BY <1>4, <1>7 DEF Key
<1>9. Listed(log, c)
  BY <1>7, <1>8, EvaluatedListed DEF Fits
<1>10. ASSUME NEW s \in Suppliers PROVE s \in Candidates(task[t], c)
  <2>1. Scored(log, <<c, s>>) /\ Quoted(log, <<c, s>>)
    BY <1>1, <1>6, <1>9, ListedQuoted
  <2>2. PICK d \in 1 .. Len(log["deal"]) : /\ log["deal"][d].type = "quote"
                                           /\ Key(log["deal"][d]) = <<c, s>>
    BY <2>1 DEF Quoted, Told
  <2>3. d \in Deals(task[t], c, s)
    BY <1>3, <2>2 DEF Deals, InHand, Key
  <2>4. PICK e \in 1 .. Len(log["score"]) : /\ log["score"][e].type = "evaluation"
                                            /\ Key(log["score"][e]) = <<c, s>>
    BY <2>1 DEF Scored, Told
  <2>5. e \in Scores(task[t], c, s)
    BY <1>3, <2>4 DEF Scores, InHand, Key
  <2> QED  BY <2>3, <2>5 DEF Candidates
<1> QED  BY <1>10 DEF Candidates

LEMMA RanksAllStays ==
    ASSUME NEW board \in Boards, NEW later \in Boards, Grows(board, later),
           NEW award, Descends(board, award), RanksAll(board, award)
    PROVE  RanksAll(later, award)
<1>1. ASSUME NEW id \in award.parents, id[1] = "deal"
      PROVE  later["deal"][id[2]] = board["deal"][id[2]]
  <2>1. id[2] \in 1 .. Len(board["deal"]) /\ "deal" \in Channels
    BY <1>1 DEF Descends, Channels
  <2> QED  BY <2>1, Recorded
<1> QED  BY <1>1 DEF RanksAll

LEMMA DecisionRanks ==
    ASSUME TypedInv, NEW t \in Tasks, t[2] = Buyer, NEW winner, NEW c,
           Candidates(task[t], c) = Suppliers,
           Decision(task[t], c, winner).post.type = "award"
    PROVE  RanksAll(log, Decision(task[t], c, winner).post)
<1> DEFINE deal(s) == <<"deal", Oldest(Deals(task[t], c, s))>>
           score(s) == <<"score", Oldest(Scores(task[t], c, s))>>
           risk(s) == <<"risk", Oldest(Risks(task[t], c, s))>>
           ranked == Candidates(task[t], c)
           assessed == {x \in ranked : Risks(task[t], c, x) # {}}
           post == Decision(task[t], c, winner).post
           deals == {p \in post.parents : p[1] = "deal"}
<1>1. TypeInv /\ c \in Awardable(task[t])
  BY DEF TypedInv, LineageInv, Decision
<1>2. post.parents = {deal(s) : s \in ranked} \cup {score(s) : s \in ranked}
                        \cup {risk(s) : s \in assessed}
  BY <1>1 DEF Decision
<1>3. ASSUME NEW s \in Suppliers PROVE log["deal"][deal(s)[2]].sup = s
  <2>1. Deals(task[t], c, s) # {}
    BY <1>3 DEF Candidates
  <2>2. IsAbout("deal", Oldest(Deals(task[t], c, s)), "quote", c, s)
    BY <1>1, <2>1, HeldAbout
  <2>3. deal(s)[2] = Oldest(Deals(task[t], c, s))
    OBVIOUS
  <2> HIDE DEF deal
  <2> QED  BY <2>2, <2>3 DEF IsAbout, Key
<1>4. deals = {deal(s) : s \in Suppliers}
  BY <1>2
<1> HIDE DEF deal, deals, post
<1>5. {log["deal"][id[2]].sup : id \in deals} = Suppliers
  <2>1. ASSUME NEW id \in deals PROVE log["deal"][id[2]].sup \in Suppliers
    BY <1>3, <1>4
  <2>2. ASSUME NEW s \in Suppliers PROVE \E id \in deals : log["deal"][id[2]].sup = s
    BY <1>3, <1>4
  <2> QED  BY <2>1, <2>2
<1>6. RanksAll(log, post) <=> {log["deal"][id[2]].sup : id \in deals} = Suppliers
  BY DEF RanksAll, deals
<1> QED  BY <1>5, <1>6 DEF post

LEMMA PlannedRanks ==
    ASSUME Serial, Fits, PhasesInv, LineageInv', [Next]_vars, NEW t \in Tasks, t[2] = Buyer,
           NEW p \in task'[t].plan, p.post.type = "award"
    PROVE  RanksAll(log', p.post)
<1>1. /\ TypedInv /\ LineageInv /\ TypeInv /\ TypeOK /\ SerialInv /\ ListsInv /\ PassedOn
      /\ HoldsAll(t) /\ RankedInv /\ task[t] \in TaskState
      /\ log \in Boards /\ log' \in Boards /\ Grows(log, log')
  BY NextGrows, LinkedFacts DEF PhasesInv, TypedInv
<1>2. CASE p \in task[t].plan
  <2>1. RanksAll(log, p.post) /\ Descends(log, p.post)
    BY <1>1, <1>2, LinkedFacts DEF RankedInv, AwardPlanned, Answers
  <2> QED  BY <1>1, <2>1, RanksAllStays
<1>3. CASE BuyerReason(t)
  <2>1. PICK winner \in [Awardable(task[t]) -> Suppliers] :
            Step(t, Acting(task[t], {Decision(task[t], c, winner) : c \in Open(task[t])}))
    BY <1>1, <1>3, KernelLives DEF BuyerReason
  <2> DEFINE plan == {Decision(task[t], c, winner) : c \in Open(task[t])}
  <2>2. plan \in SUBSET Proposal
    BY <1>1, <1>3, DecisionType DEF BuyerReason
  <2>3. task'[t] = Acting(task[t], plan)
    BY <1>1, <2>1 DEF Step, TypeOK
  <2>4. p \in plan
    <3> HIDE DEF plan
    <3> QED  BY <1>1, <2>2, <2>3, ActingType
  <2>5. PICK c \in Open(task[t]) : p = Decision(task[t], c, winner)
    BY <2>4
  <2>6. Candidates(task[t], c) = Suppliers
    BY <1>1, <1>3, AllRanked DEF Open, BuyerReason
  <2>7. RanksAll(log, p.post) /\ UNCHANGED log
    BY <1>1, <1>3, <2>5, <2>6, DecisionRanks DEF BuyerReason
  <2> QED  BY <2>7 DEF RanksAll
<1>4. CASE BuyerReadScores(t)
  <2>1. task'[t].plan = task[t].plan
    BY <1>1, <1>4 DEF BuyerReadScores, Step, TypeOK, TaskState
  <2> QED  BY <1>2, <2>1
<1> QED  BY <1>1, <1>2, <1>3, <1>4, BuyerMoves

LEMMA NextRanked ==
    ASSUME Serial, Fits, PhasesInv, [Next]_vars PROVE RankedInv'
<1>1. /\ TypedInv /\ LineageInv /\ LineageInv' /\ TypeInv /\ TypeOK /\ TypeOK' /\ RankedInv
      /\ log \in Boards /\ log' \in Boards /\ Grows(log, log') /\ "decision" \in Channels
  BY NextGrows DEF PhasesInv, TypedInv, Channels
<1>2. /\ DOMAIN log["decision"] = 1 .. Len(log["decision"]) /\ Len(log["decision"]) \in Nat
      /\ DOMAIN log'["decision"] = 1 .. Len(log'["decision"])
  BY <1>1 DEF TypeOK
<1>3. ASSUME NEW i \in DOMAIN log["decision"], log["decision"][i].type = "award"
      PROVE  RanksAll(log', log["decision"][i])
  <2>1. RanksAll(log, log["decision"][i]) /\ Descends(log, log["decision"][i])
    BY <1>1, <1>3 DEF RankedInv, Awarded, LineageInv, Sound
  <2> QED  BY <1>1, <2>1, RanksAllStays
<1>4. ASSUME NEW i \in DOMAIN log'["decision"], log'["decision"][i].type = "award"
      PROVE  RanksAll(log', log'["decision"][i])
  <2>1. CASE log'["decision"] = log["decision"]
    BY <1>3, <1>4, <2>1
  <2>2. ASSUME NEW t \in Tasks, NEW p \in task[t].plan, t[2] = Buyer, Post("decision", p.post)
        PROVE  RanksAll(log', log'["decision"][i])
    <3>1. p.post \in Trace
      BY <1>1, PostTypes
    <3>2. /\ Len(log'["decision"]) = Len(log["decision"]) + 1
          /\ log'["decision"][Len(log["decision"]) + 1] = p.post
          /\ \A j \in 1 .. Len(log["decision"]) : log'["decision"][j] = log["decision"][j]
      BY <1>1, <2>2, <3>1, PostEffect DEF Grows
    <3>3. CASE i \in 1 .. Len(log["decision"])
      BY <1>2, <1>3, <1>4, <3>2, <3>3
    <3>4. CASE log'["decision"][i] = p.post
      <4>1. RanksAll(log, p.post) /\ Descends(log, p.post)
        BY <1>1, <1>4, <2>2, <3>4, LinkedFacts DEF RankedInv, AwardPlanned, Answers
      <4> QED  BY <1>1, <3>4, <4>1, RanksAllStays
    <3> QED  BY <1>2, <1>4, <3>2, <3>3, <3>4
  <2> QED  BY <1>1, <2>1, <2>2, DecisionsPlanned
<1>5. \A t \in Tasks : \A p \in task'[t].plan :
          t[2] = Buyer /\ p.post.type = "award" => RanksAll(log', p.post)
  BY <1>1, PlannedRanks
<1> QED  BY <1>4, <1>5 DEF RankedInv, Awarded, AwardPlanned

(***************************************************************************)
(* The invariant.                                                          *)
(***************************************************************************)
Returns == \A r \in Runs : result[r] <= Len(log["decision"])

LEMMA StepResult == ASSUME NEW t \in Tasks, TaskStep(t) PROVE UNCHANGED result
<1>1. CASE ScoutStep(t)
  BY <1>1 DEF ScoutStep, ScoutPerceive, Perceive, ScoutReason, ScoutPostList, ScoutPostSupplier
<1>2. CASE EvaluatorStep(t)
  BY <1>2 DEF EvaluatorStep, EvaluatorPerceive, Perceive, EvaluatorScan, EvaluatorReadPool,
         EvaluatorReadRequirement, EvaluatorMark, EvaluatorPostScore, EvaluatorPostRisk
<1>3. CASE NegotiatorStep(t)
  BY <1>3 DEF NegotiatorStep, NegotiatorPerceive, Perceive, NegotiatorScan, NegotiatorReadPool,
         NegotiatorMark, NegotiatorPostQuote
<1>4. CASE BuyerStep(t)
  BY <1>4 DEF BuyerStep, BuyerReadDeals, BuyerReadRisks, BuyerReadScores, BuyerReason,
         BuyerPostDecision
<1>5. CASE LetGo(t) \/ DepositFailure(t)
  BY <1>5, LetGoCases DEF DepositFailure
<1> QED  BY <1>1, <1>2, <1>3, <1>4, <1>5 DEF TaskStep, LetGo

LEMMA NextReturns ==
    ASSUME LineageInv, Returns, [Next]_vars PROVE Returns'
<1>1. /\ TypeOK /\ TypeOK' /\ log \in Boards /\ log' \in Boards /\ Grows(log, log')
      /\ "decision" \in Channels
  BY NextGrows DEF Channels
<1>2. /\ Len(log["decision"]) \in Nat /\ Len(log'["decision"]) \in Nat
      /\ Len(log["decision"]) <= Len(log'["decision"])
  BY <1>1, ReadTrace DEF TypeOK, Grows
<1>3. result \in [Runs -> Nat] /\ result' \in [Runs -> Nat]
  BY <1>1 DEF TypeOK
<1>4. CASE UNCHANGED result
  BY <1>2, <1>3, <1>4 DEF Returns
<1>5. ASSUME NEW r \in Runs, ReadDecision(r) PROVE Returns'
  <2> DEFINE own == {i \in Window(Len(log["decision"]), DecisionLimit) :
                        log["decision"][i].corr = CorrOf[r]}
  <2>1. /\ result' = [result EXCEPT ![r] = IF own = {} THEN 0 ELSE Newest(own)]
        /\ UNCHANGED log
    BY <1>5 DEF ReadDecision
  <2>2. own \in SUBSET (1 .. Len(log["decision"]))
    BY <1>2, WindowProperties, BoundsAssumption
  <2> HIDE DEF own
  <2>3. own # {} => Newest(own) \in 1 .. Len(log["decision"])
    BY <1>2, <2>2, NewestProperties
  <2>4. ASSUME NEW q \in Runs PROVE result'[q] <= Len(log["decision"])
    BY <1>2, <1>3, <2>1, <2>3 DEF Returns
  <2> QED  BY <2>1, <2>4 DEF Returns
<1>6. ASSUME NEW r \in Runs, Submit(r) \/ RunStep(r), ~ReadDecision(r) PROVE UNCHANGED result
  BY <1>6 DEF Submit, RunStep, GatherScouts, GatherEvaluators, GatherNegotiators, Gathered,
              BuyerReturned
<1>7. ASSUME NEW t \in Tasks, TaskStep(t) PROVE UNCHANGED result
  BY <1>7, StepResult
<1>8. ASSUME NEW b \in Fallible, Crash(b) PROVE UNCHANGED result
  BY <1>8 DEF Crash
<1>9. UNCHANGED vars => UNCHANGED result
  BY DEF vars
<1> QED  BY <1>4, <1>5, <1>6, <1>7, <1>8, <1>9 DEF Next

LEMMA InitTyped == ASSUME Init PROVE TypedInv
<1>1. LineageInv /\ TypeOK
  BY InitLineage DEF LineageInv, TypeInv
<1>2. \A ch \in Channels : log[ch] = <<>>
  BY DEF Init
<1>3. \A ch \in Channels : DOMAIN log[ch] = {}
  <2>1. ASSUME NEW ch \in Channels PROVE DOMAIN log[ch] = {}
    <3>1. Len(log[ch]) = 0
      BY <1>2
    <3> QED  BY <1>1, <3>1, ReadTrace
  <2> QED  BY <2>1
<1> QED  BY <1>1, <1>3 DEF TypedInv

LEMMA InitPhases == ASSUME Init PROVE PhasesInv
<1>1. TypedInv /\ MarksInv /\ TypeOK
  BY InitTyped, InitMarks DEF TypedInv, LineageInv, TypeInv
<1>2. /\ \A ch \in Channels : log[ch] = <<>>
      /\ \A r \in Runs : rpc[r] = "new" /\ result[r] = 0
      /\ \A t \in Tasks : task[t] = Idle
      /\ \A a \in Processes : crashes[a] = 0
  BY DEF Init
<1>3. Idle.pc = "idle" /\ Idle.plan = {}
  BY DEF Idle
<1>4. \A ch \in Channels : Len(log[ch]) = 0 /\ DOMAIN log[ch] = {}
  <2>1. ASSUME NEW ch \in Channels PROVE Len(log[ch]) = 0 /\ DOMAIN log[ch] = {}
    <3>1. Len(log[ch]) = 0
      BY <1>2
    <3> QED  BY <1>1, <3>1, ReadTrace
  <2> QED  BY <2>1
<1>5. "discovery" \in Channels /\ "score" \in Channels /\ "deal" \in Channels /\ "decision" \in Channels
  BY DEF Channels
<1>6. SerialInv
  <2>1. \A a \in Processes : Alive(a)
    BY <1>2, BoundsAssumption DEF Alive, RestartsOf
  <2>2. Active = {}
    BY <1>2 DEF Active
  <2>3. \A t \in Tasks : InPhase(t)
    BY <1>2, <1>3 DEF InPhase, InFlight
  <2> QED  BY <2>1, <2>2, <2>3 DEF SerialInv
<1>7. \A ch \in Channels : \A type, k : ~Told(log, ch, type, k)
  BY <1>4 DEF Told
<1>8. ListsInv
  BY <1>5, <1>7 DEF ListsInv, Listed
<1>9. Returns
  BY <1>2, <1>4, <1>5 DEF Returns
<1>10. SweepInv
  BY <1>2 DEF SweepInv, Tasks
<1>11. PassedOn
  BY <1>5, <1>7 DEF PassedOn, Discovered, Scored
<1>12. \A t \in Tasks : HoldsAll(t)
  BY <1>2, <1>3 DEF HoldsAll
<1>13. RankedInv
  BY <1>2, <1>3, <1>4, <1>5 DEF RankedInv
<1> QED  BY <1>1, <1>6, <1>8, <1>9, <1>10, <1>11, <1>12, <1>13 DEF PhasesInv, Returns

LEMMA NextPhases ==
    ASSUME Serial, PhasesInv, [Next]_vars PROVE PhasesInv'
<1>1. /\ TypedInv /\ MarksInv /\ SerialInv /\ ListsInv /\ Returns /\ LineageInv /\ TypeInv /\ TypeOK
      /\ Fits => SweepInv /\ PassedOn /\ (\A t \in Tasks : HoldsAll(t)) /\ RankedInv
  BY DEF PhasesInv, TypedInv, LineageInv, TypeInv, Returns
<1>2. SerialInv'
  BY <1>1, NextSerial
<1>3. TypedInv' /\ ListsInv' /\ Returns'
  BY <1>1, NextTyped, NextLists, NextReturns
<1>4. MarksInv'
  BY <1>1, NextMarks
<1>5. ASSUME Fits'
      PROVE  SweepInv' /\ PassedOn' /\ (\A t \in Tasks : HoldsAll(t)') /\ RankedInv'
  <2>1. Fits
    BY <1>1, <1>5, FitsBefore
  <2>2. SweepInv'
    BY <1>1, <1>2, <2>1, NextSweeps
  <2>3. PassedOn'
    BY <1>1, <1>2, <2>1, NextPasses
  <2>4. \A t \in Tasks : HoldsAll(t)'
    BY <1>1, <1>2, <2>1, NextHolds
  <2>5. RankedInv'
    BY <2>1, NextRanked
  <2> QED  BY <2>2, <2>3, <2>4, <2>5
<1> QED  BY <1>2, <1>3, <1>4, <1>5 DEF PhasesInv, Returns

LEMMA PhasesAlways == ASSUME Serial PROVE Spec => []PhasesInv
<1>1. Init => PhasesInv
  BY InitPhases
<1>2. PhasesInv /\ [Next]_vars => PhasesInv'
  BY NextPhases
<1> QED  BY <1>1, <1>2, PTL DEF Spec

LEMMA AllRankedHere ==
    ASSUME PhasesInv, Fits PROVE AwardRankedAll
<1> SUFFICES ASSUME NEW r \in Runs, rpc[r] = "done", result[r] # 0,
                    log["decision"][result[r]].type = "award"
             PROVE  RanksAll(log, log["decision"][result[r]])
  BY DEF AwardRankedAll, RanksAll
<1>1. TypeOK /\ RankedInv /\ result[r] <= Len(log["decision"])
  BY DEF PhasesInv, TypedInv, LineageInv, TypeInv
<1>2. result[r] \in Nat /\ "decision" \in Channels
  BY <1>1 DEF TypeOK, Channels
<1>3. result[r] \in DOMAIN log["decision"]
  BY <1>1, <1>2, ReadTrace
<1> QED  BY <1>1, <1>3 DEF RankedInv, Awarded

\* While one run is served at a time, the pools lose no process, budgets are
\* numbers and no channel has outgrown the reads, the award a run returns ranked
\* every supplier of the pool, however often its correlation id is resubmitted
\* (cluster.py, run_procurement: each gather ends before the next phase starts).
THEOREM AllSuppliersRanked == Serial => (Spec => [](Fits => AwardRankedAll))
<1> SUFFICES ASSUME Serial PROVE Spec => [](Fits => AwardRankedAll)
  OBVIOUS
<1>1. PhasesInv => (Fits => AwardRankedAll)
  BY AllRankedHere
<1> QED  BY <1>1, PhasesAlways, PTL

(***************************************************************************)
(* Answers: what a scout or the buyer has marked is written or in its      *)
(* hands, so a run that is served alone returns a decision on its own      *)
(* requirement.                                                            *)
(***************************************************************************)
\* What moves a task: its own step, the run that asks for it, a dead buyer.
LEMMA TaskMoves ==
    ASSUME Serial, SerialInv, TypeOK, [Next]_vars, NEW t \in Tasks
    PROVE  \/ task'[t] = task[t]
           \/ TaskStep(t)
           \/ ~InFlight(t) /\ task'[t] \in {Failed, [Idle EXCEPT !.pc = "perceive"]}
           \/ t[2] = Buyer /\ task'[t] = Failed /\ ~Alive(Buyer)'
<1>1. ASSUME NEW r \in Runs, Submit(r) \/ RunStep(r), task'[t] # task[t]
      PROVE  ~InFlight(t) /\ task'[t] \in {Failed, [Idle EXCEPT !.pc = "perceive"]}
  <2>1. ~InFlight(t)
    BY <1>1, LaunchKeeps
  <2>2. UNCHANGED task \/ \E actors : Launch(r, actors)
    BY <1>1 DEF Submit, RunStep, GatherScouts, GatherEvaluators, GatherNegotiators, Gathered,
                BuyerReturned, ReadDecision
  <2> QED  BY <1>1, <2>1, <2>2, LaunchReplaces
<1>2. ASSUME NEW u \in Tasks, TaskStep(u), u # t PROVE task'[t] = task[t]
  BY <1>2, MovesItself, StepElsewhere
<1>3. ASSUME NEW b \in Fallible, Crash(b), task'[t] # task[t]
      PROVE  t[2] = Buyer /\ task'[t] = Failed /\ ~Alive(Buyer)'
  <2>1. b = Buyer /\ crashes \in [Processes -> Nat] /\ Buyer \in Processes
    BY DEF Serial, TypeOK, Actors, Processes
  <2>2. ~(crashes[Buyer] < RestartsOf(Buyer))
    BY <2>1 DEF RestartsOf
  <2>3. task'[t] = IF t[2] = Buyer /\ InFlight(t) THEN Failed ELSE task[t]
    BY <1>3, <2>1, <2>2 DEF Crash
  <2>4. crashes'[Buyer] = crashes[Buyer] + 1
    BY <1>3, <2>1 DEF Crash
  <2> QED  BY <1>3, <2>1, <2>3, <2>4 DEF Alive, RestartsOf
<1>4. CASE UNCHANGED vars
  BY <1>4 DEF vars
<1> QED  BY <1>1, <1>2, <1>3, <1>4 DEF Next

\* The fixed states of a task hold no proposals.
LEMMA EmptyHands ==
    /\ Idle.plan = {} /\ Done.plan = {} /\ Failed.plan = {}
    /\ \A pc \in PCs : [Idle EXCEPT !.pc = pc].plan = {} /\ [Idle EXCEPT !.pc = pc].pc = pc
    /\ Idle.pc = "idle" /\ Done.pc = "done" /\ Failed.pc = "failed"
BY DEF Idle, Done, Failed

LEMMA ActingHands ==
    ASSUME NEW state \in TaskState, NEW plan
    PROVE  /\ Acting(state, plan).plan = plan
           /\ plan # {} => Acting(state, plan).pc \in Writing
<1>1. CASE plan = {}
  BY <1>1, EmptyHands DEF Acting, TaskState
<1>2. CASE plan # {}
  BY <1>2 DEF Acting, TaskState, Writing
<1> QED  BY <1>1, <1>2

\* A scout's step that is not reasoning, and the buyer's, keeps its proposals but
\* for the one it writes.
LEMMA ScoutHands ==
    ASSUME TypeInv, NEW t \in Tasks, ScoutStep(t)
    PROVE  \/ /\ task[t].pc \in Writing \cup {"perceive"} /\ UNCHANGED handled
              /\ task'[t].plan = task[t].plan
              /\ task[t].pc \in Writing => task'[t].pc \in Writing
           \/ /\ ScoutReason(t)
           \/ /\ task[t].pc \in Writing /\ task[t].stage > 0 /\ UNCHANGED handled
              /\ \E p \in task[t].plan : /\ IsCurrent(task[t], p)
                                         /\ task'[t].plan = task[t].plan \ {p}
                                         /\ task'[t].plan # {} => task'[t].pc \in Writing
<1>1. task[t] \in TaskState /\ TypeOK
  BY TaskTypes DEF TypeInv
<1>2. \A state : Step(t, state) => task'[t] = state
  BY <1>1 DEF Step, TypeOK
<1>3. CASE ScoutPerceive(t)
  BY <1>1, <1>2, <1>3 DEF ScoutPerceive, Perceive, TaskState, Writing
<1>4. CASE ScoutPostList(t)
  BY <1>1, <1>2, <1>4 DEF ScoutPostList, TaskState, Writing
<1>5. CASE ScoutPostSupplier(t)
  <2>1. PICK p \in task[t].plan :
          /\ IsCurrent(task[t], p)
          /\ Step(t, IF task[t].stage < Len(Pool)
                     THEN [task[t] EXCEPT !.stage = @ + 1]
                     ELSE Acting(task[t], task[t].plan \ {p}))
    BY <1>5 DEF ScoutPostSupplier
  <2>2. task[t].pc \in Writing /\ task[t].stage > 0 /\ UNCHANGED handled
    BY <1>5 DEF ScoutPostSupplier
  <2>3. CASE task[t].stage < Len(Pool)
    <3>1. task'[t] = [task[t] EXCEPT !.stage = @ + 1]
      BY <1>2, <2>1, <2>3
    <3>2. task'[t].plan = task[t].plan /\ task'[t].pc = task[t].pc
      BY <1>1, <3>1 DEF TaskState
    <3> QED  BY <2>2, <3>2
  <2>4. CASE ~(task[t].stage < Len(Pool))
    <3>1. task'[t] = Acting(task[t], task[t].plan \ {p})
      BY <1>2, <2>1, <2>4
    <3>2. /\ task'[t].plan = task[t].plan \ {p}
          /\ task'[t].plan # {} => task'[t].pc \in Writing
      BY <1>1, <3>1, ActingHands
    <3> QED  BY <2>1, <2>2, <3>2
  <2> QED  BY <2>3, <2>4
<1> QED  BY <1>3, <1>4, <1>5 DEF ScoutStep

LEMMA BuyerHands ==
    ASSUME TypeInv, NEW t \in Tasks, BuyerStep(t)
    PROVE  \/ /\ task[t].pc \in {"perceive", "risks", "scores"} /\ UNCHANGED handled
              /\ task'[t].pc \in {"risks", "scores", "reason"}
              /\ task'[t].plan = task[t].plan
           \/ BuyerReason(t)
           \/ /\ task[t].pc \in Writing /\ UNCHANGED handled
              /\ \E p \in task[t].plan : /\ Post("decision", p.post)
                                         /\ task'[t].plan = task[t].plan \ {p}
                                         /\ task'[t].plan # {} => task'[t].pc \in Writing
<1>1. task[t] \in TaskState /\ TypeOK
  BY TaskTypes DEF TypeInv
<1>2. \A state : Step(t, state) => task'[t] = state
  BY <1>1 DEF Step, TypeOK
<1>3. CASE BuyerReadDeals(t)
  BY <1>1, <1>2, <1>3 DEF BuyerReadDeals, TaskState
<1>4. CASE BuyerReadRisks(t)
  BY <1>1, <1>2, <1>4 DEF BuyerReadRisks, TaskState
<1>5. CASE BuyerReadScores(t)
  BY <1>1, <1>2, <1>5 DEF BuyerReadScores, TaskState
<1>6. CASE BuyerPostDecision(t)
  <2>1. PICK p \in task[t].plan :
          Post("decision", p.post) /\ Step(t, Acting(task[t], task[t].plan \ {p}))
    BY <1>6 DEF BuyerPostDecision
  <2>2. /\ task'[t].plan = task[t].plan \ {p}
        /\ task'[t].plan # {} => task'[t].pc \in Writing
    BY <1>1, <1>2, <2>1, ActingHands
  <2> QED  BY <1>6, <2>1, <2>2 DEF BuyerPostDecision
<1> QED  BY <1>3, <1>4, <1>5, <1>6 DEF BuyerStep

\* Reasoning answers what it marks: a scout's, and all requirements in its window
\* are marked then.
LEMMA ScoutMarks ==
    ASSUME TypeInv, SerialInv, BadQuantity = {}, NEW t \in Tasks, ScoutReason(t)
    PROVE  /\ task'[t].plan # {} => task'[t].pc \in Writing
           /\ handled[t[2]] \subseteq handled'[t[2]]
           /\ \A c : MarkedBy(t[2], c)' => MarkedBy(t[2], c) \/ Planned(t, c)'
           /\ \A i \in Window(task[t].seen, ReqLimit) :
                  <<log["requirement"][i].corr, NoSupplier>> \in handled'[t[2]]
<1> DEFINE corr(i) == log["requirement"][i].corr
           window == Window(task[t].seen, ReqLimit)
           fresh == {i \in window : /\ <<corr(i), NoSupplier>> \notin handled[t[2]]
                                    /\ \A j \in window : j > i => corr(j) # corr(i)}
           raising == {i \in fresh : corr(i) \in BadQuantity}
           answered == {i \in fresh : \A j \in raising : i > j}
           plan == {ListProposal(i) : i \in answered}
           marks == {<<corr(i), NoSupplier>> : i \in answered}
<1>1. task[t] \in TaskState /\ TypeOK /\ t[2] \in Actors
  BY TaskTypes DEF TypeInv
<1>2. raising = {} /\ answered = fresh
  OBVIOUS
<1>3. /\ handled' = [handled EXCEPT ![t[2]] = @ \cup marks]
      /\ Step(t, IF raising # {} THEN Raised(task[t]) ELSE Acting(task[t], plan))
  BY KernelLives DEF ScoutReason
<1>4. handled'[t[2]] = handled[t[2]] \cup marks /\ task'[t] = Acting(task[t], plan)
  <2> HIDE DEF raising, marks, plan
  <2> QED  BY <1>1, <1>2, <1>3 DEF Step, TypeOK
<1>5. task'[t].plan = plan /\ (task'[t].plan # {} => task'[t].pc \in Writing)
  <2> HIDE DEF plan
  <2> QED  BY <1>1, <1>4, ActingHands
<1>6. \A i \in answered : ListProposal(i) \in plan /\ ListProposal(i).post.corr = corr(i)
  BY DEF ListProposal
<1>7. ASSUME NEW c, MarkedBy(t[2], c)' PROVE MarkedBy(t[2], c) \/ Planned(t, c)'
  <2>1. <<c, NoSupplier>> \in handled[t[2]] \cup marks
    BY <1>4, <1>7 DEF MarkedBy
  <2>2. CASE <<c, NoSupplier>> \in marks
    <3>1. PICK i \in answered : c = corr(i)
      BY <2>2
    <3>2. ListProposal(i) \in task'[t].plan /\ ListProposal(i).post.corr = c
      BY <1>5, <1>6, <3>1
    <3> QED  BY <3>2 DEF Planned
  <2> QED  BY <2>1, <2>2 DEF MarkedBy
<1>8. ASSUME NEW i \in window PROVE <<corr(i), NoSupplier>> \in handled'[t[2]]
  <2> DEFINE same == {j \in window : corr(j) = corr(i)}
             last == Newest(same)
  <2>1. task[t].seen \in Nat /\ ReqLimit \in Nat /\ window \in SUBSET (1 .. task[t].seen)
    BY <1>1, WindowProperties, BoundsAssumption DEF TaskState
  <2>2. same \in SUBSET (1 .. task[t].seen) /\ same # {}
    BY <2>1, <1>8
  <2>3. last \in same /\ \A j \in same : j <= last
    <3> HIDE DEF same, window
    <3> QED  BY <2>1, <2>2, NewestProperties
  <2>4. last \in window /\ corr(last) = corr(i) /\ last \in Nat
    BY <2>1, <2>3
  <2>5. \A j \in window : j > last => corr(j) # corr(last)
    <3>1. ASSUME NEW j \in window, j > last, corr(j) = corr(last) PROVE FALSE
      <4>1. j \in same /\ j \in Nat
        BY <2>1, <2>4, <3>1
      <4> HIDE DEF last, same, window
      <4> QED  BY <2>3, <2>4, <3>1, <4>1
    <3> QED  BY <3>1
  <2>6. corr(i) = corr(last) /\ (<<corr(last), NoSupplier>> \in handled[t[2]] \/ last \in fresh)
    BY <2>4, <2>5
  <2> HIDE DEF last
  <2>7. <<corr(last), NoSupplier>> \in handled[t[2]] \cup marks
    BY <1>2, <2>6
  <2> QED  BY <1>4, <2>6, <2>7
<1> QED  BY <1>4, <1>5, <1>7, <1>8

\* The buyer's: it answers all of the correlations it has open.
LEMMA BuyerMarks ==
    ASSUME TypeInv, SerialInv, NEW t \in Tasks, BuyerReason(t)
    PROVE  /\ task'[t].plan # {} => task'[t].pc \in Writing
           /\ \A c : Marked(c)' => Marked(c) \/ Planned(t, c)'
           /\ \A c \in Open(task[t]) : Planned(t, c)'
<1>1. task[t] \in TaskState /\ TypeOK /\ t[2] = Buyer /\ Buyer \in Actors
  BY TaskTypes DEF TypeInv, BuyerReason, Actors
<1>2. PICK winner \in [Awardable(task[t]) -> Suppliers] :
          Step(t, Acting(task[t], {Decision(task[t], c, winner) : c \in Open(task[t])}))
  BY KernelLives DEF BuyerReason
<1> DEFINE plan == {Decision(task[t], c, winner) : c \in Open(task[t])}
           marks == {<<c, NoSupplier>> : c \in Awardable(task[t])}
<1>3. task'[t].plan = plan /\ (plan # {} => task'[t].pc \in Writing)
  <2>1. task'[t] = Acting(task[t], plan)
    BY <1>1, <1>2 DEF Step, TypeOK
  <2> HIDE DEF plan
  <2> QED  BY <1>1, <2>1, ActingHands
<1>4. ASSUME NEW c \in Open(task[t]) PROVE Planned(t, c)'
  <2>1. Decision(task[t], c, winner) \in task'[t].plan
    BY <1>3
  <2>2. Decision(task[t], c, winner).post.corr = c
    BY DEF Decision
  <2> QED  BY <2>1, <2>2 DEF Planned
<1>5. handled'[Buyer] = handled[Buyer] \cup marks
  BY <1>1 DEF BuyerReason, TypeOK
<1>6. ASSUME NEW c, Marked(c)' PROVE Marked(c) \/ Planned(t, c)'
  <2>1. <<c, NoSupplier>> \in handled[Buyer] \/ c \in Awardable(task[t])
    BY <1>5, <1>6 DEF Marked
  <2> QED  BY <1>4, <2>1 DEF Marked, Awardable
<1> QED  BY <1>3, <1>4, <1>6

LEMMA HandsKept ==
    ASSUME Serial, BadQuantity = {}, SerialInv, LineageInv, [Next]_vars, NEW t \in Tasks, InHands(t)
    PROVE  InHands(t)'
<1> SUFFICES ASSUME t[2] \in Scouts \cup {Buyer}, task'[t].plan # {} PROVE task'[t].pc \in Writing
  BY DEF InHands
<1>1. TypeInv /\ TypeOK /\ t[2] \in Actors
  BY LinkedFacts
<1>2. CASE task'[t] = task[t]
  BY <1>2 DEF InHands
<1>3. CASE task'[t] \in {Failed, [Idle EXCEPT !.pc = "perceive"]}
  BY <1>3, EmptyHands DEF PCs
<1>4. CASE TaskStep(t) /\ DepositFailure(t)
  <2>1. task'[t] = Done
    BY <1>1, <1>4 DEF DepositFailure, Step, TypeOK
  <2> QED  BY <2>1, EmptyHands
<1>5. CASE ScoutStep(t)
  <2>1. CASE ScoutReason(t)
    BY <1>1, <2>1, ScoutMarks
  <2>2. CASE ~ScoutReason(t)
    BY <1>1, <1>5, <2>2, ScoutHands DEF InHands
  <2> QED  BY <2>1, <2>2
<1>6. CASE BuyerStep(t)
  <2>1. CASE BuyerReason(t)
    BY <1>1, <2>1, BuyerMarks
  <2>2. CASE ~BuyerReason(t)
    BY <1>1, <1>6, <2>2, BuyerHands DEF InHands, Writing
  <2> QED  BY <2>1, <2>2
<1> QED  BY <1>1, <1>2, <1>3, <1>4, <1>5, <1>6, TaskMoves, OwnSteps

\* Proposals stay in the hands of a scout until the list is on the blackboard.
LEMMA ScoutPlanned ==
    ASSUME Serial, BadQuantity = {}, SerialInv, LineageInv, [Next]_vars, NEW t \in Tasks,
           t[2] \in Scouts, InHands(t), NEW c \in AllCorrs, Planned(t, c)
    PROVE  Planned(t, c)' \/ Listed(log', c)
<1>1. TypeInv /\ TypeOK /\ t[2] \in Actors /\ t[2] # Buyer /\ "discovery" \in Channels
  BY LinkedFacts, Kinds DEF Channels
<1>2. task[t].pc \in Writing /\ InFlight(t)
  BY DEF InHands, InFlight, Planned, Writing
<1>3. CASE task'[t].plan = task[t].plan
  BY <1>3 DEF Planned
<1>4. CASE TaskStep(t)
  <2>1. ScoutStep(t) /\ ~ScoutReason(t)
    BY <1>2, <1>4, OwnSteps DEF DepositFailure, ScoutReason, Writing
  <2>2. CASE /\ task[t].pc \in Writing /\ task[t].stage > 0
             /\ \E p \in task[t].plan : /\ IsCurrent(task[t], p)
                                        /\ task'[t].plan = task[t].plan \ {p}
    <3>1. PICK p \in task[t].plan : /\ IsCurrent(task[t], p)
                                    /\ task'[t].plan = task[t].plan \ {p}
      BY <2>2
    <3>2. PICK q \in task[t].plan : q.post.corr = c
      BY DEF Planned
    <3>3. CASE q # p
      BY <3>1, <3>2, <3>3 DEF Planned
    <3>4. CASE q = p
      <4>1. /\ task[t].ref \in 1 .. Len(log["discovery"])
            /\ log["discovery"][task[t].ref].type = "supplier_list"
            /\ log["discovery"][task[t].ref].corr = c
        BY <2>2, <3>1, <3>2, <3>4, LinkedFacts DEF Stands, IsTrace
      <4>2. log["discovery"][task[t].ref].sup = NoSupplier
        BY <1>1, <4>1, LinkedFacts DEF Sound
      <4>3. Listed(log, c)
        BY <4>1, <4>2 DEF Listed, Told, Key
      <4> QED  BY <1>1, <4>3, StillTold DEF Listed
    <3> QED  BY <3>3, <3>4
  <2> QED  BY <1>1, <1>3, <2>1, <2>2, ScoutHands
<1> QED  BY <1>1, <1>2, <1>3, <1>4, TaskMoves

LEMMA BuyerPlanned ==
    ASSUME Serial, SerialInv, LineageInv, [Next]_vars, NEW t \in Tasks, t[2] = Buyer,
           InHands(t), NEW c, Planned(t, c), Alive(Buyer)'
    PROVE  Planned(t, c)' \/ Decided(log', c)
<1>1. TypeInv /\ TypeOK /\ TypeOK' /\ t[2] \in Actors /\ "decision" \in Channels
  BY LinkedFacts, NextGrows DEF Channels
<1>2. task[t].pc \in Writing /\ InFlight(t)
  BY DEF InHands, InFlight, Planned, Writing
<1>3. CASE task'[t].plan = task[t].plan
  BY <1>3 DEF Planned
<1>4. CASE TaskStep(t)
  <2>1. BuyerStep(t) /\ ~BuyerReason(t)
    BY <1>2, <1>4, OwnSteps DEF DepositFailure, BuyerReason, Writing
  <2>2. PICK p \in task[t].plan : /\ Post("decision", p.post)
                                  /\ task'[t].plan = task[t].plan \ {p}
    BY <1>1, <1>2, <2>1, BuyerHands DEF Writing
  <2>3. PICK q \in task[t].plan : q.post.corr = c
    BY DEF Planned
  <2>4. CASE q # p
    BY <2>2, <2>3, <2>4 DEF Planned
  <2>5. CASE q = p
    <3>1. p.post \in Trace
      BY <1>1, PostTypes
    <3>2. /\ Len(log'["decision"]) = Len(log["decision"]) + 1
          /\ log'["decision"][Len(log["decision"]) + 1] = p.post
      BY <1>1, <2>2, <3>1, PostEffect
    <3>3. DOMAIN log'["decision"] = 1 .. Len(log'["decision"]) /\ Len(log["decision"]) \in Nat
      BY <1>1, ReadTrace DEF TypeOK
    <3> QED  BY <2>3, <2>5, <3>2, <3>3 DEF Decided
  <2> QED  BY <2>4, <2>5
<1> QED  BY <1>1, <1>2, <1>3, <1>4, TaskMoves

LEMMA StillDecided ==
    ASSUME LineageInv, [Next]_vars, NEW c, Decided(log, c) PROVE Decided(log', c)
<1>1. /\ log \in Boards /\ log' \in Boards /\ Grows(log, log') /\ "decision" \in Channels
      /\ TypeOK /\ TypeOK'
  BY NextGrows DEF Channels
<1>2. PICK i \in DOMAIN log["decision"] : log["decision"][i].corr = c
  BY DEF Decided
<1>3. i \in 1 .. Len(log["decision"]) /\ DOMAIN log'["decision"] = 1 .. Len(log'["decision"])
  BY <1>1, <1>2, ReadTrace DEF TypeOK
<1> QED  BY <1>1, <1>2, <1>3, Recorded DEF Decided

\* Only an actor's own reasoning changes what it has marked, and it only adds.
LEMMA MarksMove ==
    ASSUME Serial, SerialInv, TypeInv, BadQuantity = {}, [Next]_vars,
           NEW a \in Scouts \cup {Buyer}, handled'[a] # handled[a]
    PROVE  \E t \in Tasks : t[2] = a /\ (ScoutReason(t) \/ BuyerReason(t))
<1>1. TypeOK /\ a \in Actors /\ a \notin Evaluators \cup Negotiators
  BY Kinds DEF TypeInv, Actors
<1>2. ASSUME NEW r \in Runs, Submit(r) \/ RunStep(r) PROVE FALSE
  BY <1>2 DEF Submit, RunStep, GatherScouts, GatherEvaluators, GatherNegotiators, Gathered,
              BuyerReturned, ReadDecision
<1>3. ASSUME NEW b \in Fallible, Crash(b) PROVE FALSE
  <2>1. b = Buyer /\ crashes \in [Processes -> Nat] /\ Buyer \in Processes
    BY <1>1 DEF Serial, TypeOK, Actors, Processes
  <2>2. ~(crashes[Buyer] < RestartsOf(Buyer))
    BY <2>1 DEF RestartsOf
  <2> QED  BY <1>1, <1>3, <2>1, <2>2 DEF Crash, TypeOK
<1>4. PICK t \in Tasks : TaskStep(t)
  BY <1>2, <1>3 DEF Next, vars
<1>5. t[2] = a
  BY <1>1, <1>4, StepFrame
<1>6. ~DepositFailure(t)
  BY DEF DepositFailure
<1>7. CASE a \in Scouts
  BY <1>4, <1>5, <1>6, <1>7, OwnSteps, Zenon DEF ScoutStep, ScoutPerceive, Perceive, ScoutPostList,
     ScoutPostSupplier
<1>8. CASE a = Buyer
  BY <1>4, <1>5, <1>6, <1>8, OwnSteps, Zenon DEF BuyerStep, BuyerReadDeals, BuyerReadRisks,
     BuyerReadScores, BuyerPostDecision
<1> QED  BY <1>5, <1>7, <1>8

LEMMA DeadForGood ==
    ASSUME TypeOK, [Next]_vars, Alive(Buyer)' PROVE Alive(Buyer)
<1>1. crashes \in [Processes -> Nat] /\ Buyer \in Processes /\ RestartsOf(Buyer) = 0
  BY DEF TypeOK, Actors, Processes, RestartsOf
<1>2. ASSUME NEW r \in Runs, Submit(r) \/ RunStep(r) PROVE crashes' = crashes
  BY <1>2 DEF Submit, RunStep, GatherScouts, GatherEvaluators, GatherNegotiators, Gathered,
              BuyerReturned, ReadDecision
<1>3. ASSUME NEW t \in Tasks, TaskStep(t) PROVE crashes' = crashes
  BY <1>3, StepFrame
<1>4. ASSUME NEW b \in Fallible, Crash(b) PROVE crashes[Buyer] <= crashes'[Buyer]
  <2>1. crashes' = [crashes EXCEPT ![b] = @ + 1]
    BY <1>4 DEF Crash
  <2>2. crashes'[Buyer] = IF b = Buyer THEN crashes[Buyer] + 1 ELSE crashes[Buyer]
    BY <1>1, <2>1
  <2> QED  BY <1>1, <2>2
<1>5. crashes[Buyer] <= crashes'[Buyer]
  BY <1>1, <1>2, <1>3, <1>4 DEF Next, vars
<1>6. crashes'[Buyer] <= 0
  BY <1>1 DEF Alive, RestartsOf
<1>7. crashes[Buyer] = 0
  <2>1. CASE \E b \in Fallible : Crash(b)
    <3>1. PICK b \in Fallible : crashes' = [crashes EXCEPT ![b] = @ + 1]
      BY <2>1 DEF Crash
    <3>2. crashes'[Buyer] \in Nat
      BY <1>1, <3>1
    <3> QED  BY <1>1, <1>5, <1>6, <3>2
  <2>2. CASE crashes' = crashes
    BY <1>1, <1>6, <2>2
  <2> QED  BY <1>2, <1>3, <2>1, <2>2 DEF Next, vars
<1> QED  BY <1>1, <1>7 DEF Alive

LEMMA NextMarked ==
    ASSUME Heeded, SerialInv, LineageInv, \A t \in Tasks : InHands(t), MarkedInv, [Next]_vars
    PROVE  MarkedInv'
<1>1. /\ TypeInv /\ TypeOK /\ TypeOK' /\ Serial /\ BadQuantity = {} /\ "discovery" \in Channels
      /\ Buyer \in Actors /\ Scouts \subseteq Actors
  BY NextGrows DEF Heeded, Channels, Actors
<1>2. ASSUME NEW a \in Scouts, NEW c \in AllCorrs, MarkedBy(a, c)'
      PROVE  Listed(log', c) \/ \E r \in Runs : Planned(<<r, a>>, c)'
  <2>1. CASE MarkedBy(a, c)
    <3>1. CASE Listed(log, c)
      BY <1>1, <3>1, StillTold DEF Listed
    <3>2. ASSUME NEW r \in Runs, Planned(<<r, a>>, c)
          PROVE  Planned(<<r, a>>, c)' \/ Listed(log', c)
      <4>1. <<r, a>> \in Tasks /\ <<r, a>>[2] \in Scouts
        BY <1>1 DEF Tasks
      <4> QED  BY <1>1, <3>2, <4>1, ScoutPlanned
    <3> QED  BY <2>1, <3>1, <3>2 DEF MarkedInv
  <2>2. CASE ~MarkedBy(a, c)
    <3>1. handled'[a] # handled[a]
      BY <1>2, <2>2 DEF MarkedBy
    <3>2. PICK t \in Tasks : t[2] = a /\ (ScoutReason(t) \/ BuyerReason(t))
      BY <1>1, <3>1, MarksMove
    <3>3. ScoutReason(t) /\ t[1] \in Runs /\ t = <<t[1], a>>
      BY <1>1, <3>2, Kinds DEF BuyerReason, Tasks
    <3>4. Planned(t, c)'
      BY <1>1, <1>2, <2>2, <3>2, <3>3, ScoutMarks
    <3> QED  BY <3>3, <3>4
  <2> QED  BY <2>1, <2>2
<1>3. ASSUME NEW c \in AllCorrs, Marked(c)', Alive(Buyer)'
      PROVE  Decided(log', c) \/ \E r \in Runs : Planned(<<r, Buyer>>, c)'
  <2>1. CASE Marked(c)
    <3>1. Alive(Buyer)
      BY <1>1, <1>3, DeadForGood
    <3>2. CASE Decided(log, c)
      BY <3>2, StillDecided
    <3>3. ASSUME NEW r \in Runs, Planned(<<r, Buyer>>, c)
          PROVE  Planned(<<r, Buyer>>, c)' \/ Decided(log', c)
      <4>1. <<r, Buyer>> \in Tasks /\ <<r, Buyer>>[2] = Buyer
        BY <1>1 DEF Tasks
      <4> QED  BY <1>1, <1>3, <3>3, <4>1, BuyerPlanned
    <3> QED  BY <2>1, <3>1, <3>2, <3>3 DEF MarkedInv
  <2>2. CASE ~Marked(c)
    <3>1. handled'[Buyer] # handled[Buyer]
      BY <1>3, <2>2 DEF Marked
    <3>2. PICK t \in Tasks : t[2] = Buyer /\ (ScoutReason(t) \/ BuyerReason(t))
      BY <1>1, <3>1, MarksMove
    <3>3. BuyerReason(t) /\ t[1] \in Runs /\ t = <<t[1], Buyer>>
      BY <1>1, <3>2, Kinds DEF ScoutReason, Tasks
    <3>4. Planned(t, c)'
      BY <1>1, <1>3, <2>2, <3>3, BuyerMarks
    <3> QED  BY <3>3, <3>4
  <2> QED  BY <2>1, <2>2
<1> QED  BY <1>2, <1>3 DEF MarkedInv

LEMMA FitsAllBefore ==
    ASSUME LineageInv, [Next]_vars, FitsAll' PROVE FitsAll
<1>1. /\ log \in Boards /\ log' \in Boards /\ Grows(log, log') /\ TypeOK /\ TypeOK'
      /\ "requirement" \in Channels /\ "decision" \in Channels
  BY NextGrows DEF Channels
<1>2. /\ Len(log["requirement"]) <= Len(log'["requirement"])
      /\ Len(log["decision"]) <= Len(log'["decision"])
  BY <1>1 DEF Grows
<1>3. /\ Len(log["requirement"]) \in Nat /\ Len(log'["requirement"]) \in Nat
      /\ Len(log["decision"]) \in Nat /\ Len(log'["decision"]) \in Nat
  BY <1>1, ReadTrace DEF TypeOK
<1>4. ReqLimit \in Nat /\ DecisionLimit \in Nat
  BY BoundsAssumption
<1>5. Fits
  BY FitsBefore DEF FitsAll
<1> QED  BY <1>2, <1>3, <1>4, <1>5 DEF FitsAll

\* A run goes on by its own steps.
LEMMA RunChanges ==
    ASSUME SerialInv, SerialInv', TypeOK, [Next]_vars, NEW r \in Runs, rpc'[r] # rpc[r]
    PROVE  Advances(r)
<1>1. ASSUME NEW q \in Runs, Submit(q) \/ RunStep(q) PROVE Advances(r)
  BY <1>1, RunMoves
<1>2. ASSUME NEW t \in Tasks, TaskStep(t) PROVE FALSE
  BY <1>2, StepFrame
<1>3. ASSUME NEW b \in Fallible, Crash(b) PROVE FALSE
  BY <1>3 DEF Crash
<1> QED  BY <1>1, <1>2, <1>3 DEF Next, vars

LEMMA AskedStays ==
    ASSUME LineageInv, [Next]_vars, NEW top \in Nat, top <= Len(log["requirement"]),
           NEW c, Asked(top, c)
    PROVE  \E i \in 1 .. top : log'["requirement"][i].corr = c
<1>1. /\ log \in Boards /\ log' \in Boards /\ Grows(log, log') /\ "requirement" \in Channels
      /\ TypeOK
  BY NextGrows DEF Channels
<1>2. PICK i \in 1 .. top : log["requirement"][i].corr = c
  BY DEF Asked
<1>3. i \in 1 .. Len(log["requirement"])
  BY <1>1, <1>2, ReadTrace
<1> QED  BY <1>1, <1>2, <1>3, Recorded

LEMMA ScoutMarksStay ==
    ASSUME Heeded, SerialInv, TypeInv, [Next]_vars, NEW a \in Scouts, NEW c, MarkedBy(a, c)
    PROVE  MarkedBy(a, c)'
<1>1. CASE handled'[a] = handled[a]
  BY <1>1 DEF MarkedBy
<1>2. CASE handled'[a] # handled[a]
  <2>1. PICK t \in Tasks : t[2] = a /\ (ScoutReason(t) \/ BuyerReason(t))
    BY <1>2, MarksMove DEF Heeded
  <2>2. ScoutReason(t)
    BY <2>1, Kinds DEF BuyerReason, Tasks
  <2> QED  BY <2>1, <2>2, ScoutMarks DEF MarkedBy, Heeded
<1> QED  BY <1>1, <1>2

LEMMA NextHears ==
    ASSUME Heeded, SerialInv, SerialInv', LineageInv, FitsAll, [Next]_vars,
           NEW t \in Tasks, Hears(t), Answering(t[1])
    PROVE  Hears(t)'
<1> DEFINE c == CorrOf[t[1]]
<1> SUFFICES ASSUME t[2] \in Scouts, rpc'[t[1]] = "scouts"
             PROVE  \/ task'[t].pc = "perceive"
                    \/ /\ task'[t].pc = "reason"
                       /\ \E i \in 1 .. task'[t].seen : log'["requirement"][i].corr = c
                    \/ MarkedBy(t[2], c)'
  BY DEF Hears, Asked
<1>1. /\ Serial /\ BadQuantity = {} /\ TypeInv /\ TypeOK /\ task[t] \in TaskState
      /\ WellPlaced(log, t[2], task[t]) /\ "requirement" \in Channels
      /\ Len(log["requirement"]) \in Nat /\ task[t].seen \in Nat /\ t[1] \in Runs
      /\ t[2] \in Actors /\ t[2] # Buyer /\ ReqLimit \in Nat
  BY LinkedFacts, Kinds, BoundsAssumption DEF Heeded, Channels, TaskState, Tasks
<1>2. CASE rpc[t[1]] # "scouts"
  <2>1. Submit(t[1])
    BY <1>1, <1>2, RunChanges DEF Advances
  <2>2. Alive(t[2])
    BY <1>1 DEF SerialInv, Processes
  <2>3. task'[t] = [Idle EXCEPT !.pc = "perceive"]
    BY <2>1, <2>2 DEF Submit, Launch
  <2> QED  BY <2>3, EmptyHands DEF PCs
<1>3. CASE rpc[t[1]] = "scouts"
  <2>1. CASE MarkedBy(t[2], c)
    BY <1>1, <2>1, ScoutMarksStay
  <2>2. CASE task'[t] = task[t] /\ ~MarkedBy(t[2], c)
    <3>1. CASE task[t].pc = "perceive"
      BY <2>2, <3>1
    <3>2. CASE task[t].pc = "reason" /\ Asked(task[t].seen, c)
      <4>1. task[t].seen <= Len(log["requirement"])
        BY <1>1 DEF WellPlaced
      <4>2. \E i \in 1 .. task[t].seen : log'["requirement"][i].corr = c
        BY <1>1, <3>2, <4>1, AskedStays
      <4> QED  BY <2>2, <3>2, <4>2
    <3> QED  BY <1>3, <2>2, <3>1, <3>2 DEF Hears
  <2>3. CASE task'[t] # task[t] /\ ~MarkedBy(t[2], c)
    <3>1. task[t].pc \in {"perceive", "reason"} /\ InFlight(t)
      BY <1>3, <2>3 DEF Hears, InFlight
    <3>2. ScoutPerceive(t) \/ ScoutReason(t)
      <4>1. TaskStep(t) /\ ~DepositFailure(t)
        BY <1>1, <2>3, <3>1, TaskMoves DEF DepositFailure
      <4> QED  BY <3>1, <4>1, OwnSteps DEF ScoutStep, ScoutPostList, ScoutPostSupplier, Writing
    <3>3. CASE ScoutPerceive(t)
      <4>1. /\ task'[t].pc = "reason" /\ task'[t].seen = Len(log["requirement"])
            /\ UNCHANGED log
        BY <1>1, <3>3 DEF ScoutPerceive, Perceive, Step, TypeOK, TaskState
      <4>2. Asked(Len(log["requirement"]), c)
        BY <1>3 DEF Answering
      <4> QED  BY <4>1, <4>2 DEF Asked
    <3>4. CASE ScoutReason(t)
      <4>1. Asked(task[t].seen, c)
        BY <1>3, <2>3, <3>4 DEF Hears, ScoutReason
      <4>2. PICK i \in 1 .. task[t].seen : log["requirement"][i].corr = c
        BY <4>1 DEF Asked
      <4>3. task[t].seen <= ReqLimit
        BY <1>1 DEF WellPlaced, FitsAll
      <4>4. i \in Window(task[t].seen, ReqLimit)
        BY <1>1, <4>3 DEF Window
      <4> QED  BY <1>1, <3>4, <4>2, <4>4, ScoutMarks DEF MarkedBy
    <3> QED  BY <3>2, <3>3, <3>4
  <2> QED  BY <2>1, <2>2, <2>3
<1> QED  BY <1>2, <1>3

\* The buyer decides on every correlation that is listed, or has done so.
LEMMA BuyerAnswers ==
    ASSUME Serial, Fits, PhasesInv, MarkedInv, \A u \in Tasks : InHands(u), [Next]_vars,
           NEW t \in Tasks, BuyerReason(t), NEW c \in AllCorrs, Listed(log, c)
    PROVE  Decided(log', c) \/ Planned(t, c)'
<1>1. /\ TypedInv /\ LineageInv /\ SerialInv /\ ListsInv /\ PassedOn /\ HoldsAll(t)
      /\ TypeInv /\ TypeOK /\ task[t] \in TaskState /\ "deal" \in Channels
      /\ Len(log["deal"]) \in Nat /\ BuyerLimit \in Nat
  BY LinkedFacts, BoundsAssumption DEF PhasesInv, TypedInv, Channels
<1>2. t[2] = Buyer /\ task[t].pc = "reason" /\ InFlight(t)
  BY DEF BuyerReason, InFlight
<1>3. task[t].seen = Len(log["deal"]) /\ Len(log["deal"]) <= BuyerLimit
  BY <1>1, <1>2 DEF HoldsAll, Fits
<1>4. Window(task[t].seen, BuyerLimit) = 1 .. Len(log["deal"])
  BY <1>1, <1>3 DEF Window
<1>5. c \in DealtCorrs(task[t])
  <2>1. PICK s \in Suppliers : TRUE
    BY PoolAssumption DEF Suppliers
  <2>2. Quoted(log, <<c, s>>)
    BY <1>1, <1>2, ListedQuoted
  <2>3. PICK d \in 1 .. Len(log["deal"]) : Key(log["deal"][d]) = <<c, s>>
    BY <2>2 DEF Quoted, Told
  <2> QED  BY <1>4, <2>3 DEF DealtCorrs, Key
<1>6. CASE c \in Open(task[t])
  BY <1>1, <1>6, BuyerMarks
<1>7. CASE c \notin Open(task[t])
  <2>1. Marked(c) /\ Alive(Buyer)
    BY <1>1, <1>2, <1>5, <1>7 DEF Open, Marked, SerialInv, InPhase
  <2>2. ASSUME NEW r \in Runs, Planned(<<r, Buyer>>, c) PROVE FALSE
    <3>1. <<r, Buyer>> \in Tasks /\ t = <<t[1], Buyer>>
      BY <1>2 DEF Tasks, Actors
    <3>2. task[<<r, Buyer>>].pc \in Writing /\ InFlight(<<r, Buyer>>)
      BY <2>2, <3>1 DEF InHands, Planned, InFlight, Writing
    <3>3. r = t[1]
      BY <1>1, <1>2, <3>1, <3>2, OnlyPhase
    <3> QED  BY <1>2, <3>1, <3>2, <3>3 DEF Writing
  <2>3. Decided(log, c)
    BY <2>1, <2>2 DEF MarkedInv
  <2> QED  BY <1>1, <2>3, StillDecided
<1> QED  BY <1>6, <1>7

LEMMA NextWeighs ==
    ASSUME Heeded, FitsAll, PhasesInv, SerialInv', MarkedInv, \A u \in Tasks : InHands(u),
           [Next]_vars, NEW t \in Tasks, Weighs(t), Answering(t[1])
    PROVE  Weighs(t)'
<1> DEFINE c == CorrOf[t[1]]
           Waits == {"perceive", "risks", "scores", "reason", "failed"}
<1> SUFFICES ASSUME t[2] = Buyer, rpc'[t[1]] = "buyer"
             PROVE  task'[t].pc \in Waits \/ Decided(log', c) \/ Planned(t, c)'
  BY DEF Weighs
<1>1. /\ Serial /\ Fits /\ LineageInv /\ SerialInv /\ TypeInv /\ TypeOK /\ task[t] \in TaskState
      /\ t[1] \in Runs /\ c \in AllCorrs
  BY LinkedFacts, RunsAssumption DEF Heeded, FitsAll, PhasesInv, TypedInv, Tasks, AllCorrs
<1>2. task'[t] \in {Failed, [Idle EXCEPT !.pc = "perceive"]} => task'[t].pc \in Waits
  <2>1. Failed.pc \in Waits /\ [Idle EXCEPT !.pc = "perceive"].pc \in Waits
    BY DEF Failed, Idle
  <2> HIDE DEF Waits
  <2> QED  BY <2>1
<1>3. CASE rpc[t[1]] # "buyer"
  <2>1. GatherNegotiators(t[1])
    BY <1>1, <1>3, RunChanges DEF Advances
  <2>2. task'[t] \in {Failed, [Idle EXCEPT !.pc = "perceive"]}
    BY <2>1 DEF GatherNegotiators, Gathered, Launch
  <2> QED  BY <1>2, <2>2
<1>4. CASE rpc[t[1]] = "buyer"
  <2>1. task[t].pc \in Waits \/ Decided(log, c) \/ Planned(t, c)
    BY <1>4 DEF Weighs
  <2>2. CASE Decided(log, c)
    BY <1>1, <2>2, StillDecided
  <2>3. CASE task'[t] = task[t]
    BY <2>1, <2>2, <2>3 DEF Planned
  <2>4. CASE TaskStep(t)
    <3>1. InFlight(t) /\ Alive(Buyer) /\ Alive(Buyer)'
      BY <1>1, <2>4, StepInFlight, StepFrame DEF SerialInv, InPhase, Alive
    <3>2. ~DepositFailure(t)
      BY <1>1, DepositCases, Kinds DEF SerialInv, InPhase, Tasks
    <3>3. BuyerStep(t)
      BY <1>1, <2>4, <3>2, OwnSteps
    <3>4. CASE BuyerReason(t)
      <4>1. Listed(log, c)
        BY <1>4 DEF Answering
      <4> QED  BY <1>1, <3>4, <4>1, BuyerAnswers
    <3>5. CASE task[t].pc \in Writing
      <4>1. CASE Planned(t, c)
        BY <1>1, <3>1, <4>1, BuyerPlanned
      <4> QED  BY <2>1, <2>2, <3>5, <4>1 DEF Writing
    <3>6. CASE task'[t].pc \in {"risks", "scores", "reason"}
      BY <3>6
    <3> QED  BY <1>1, <3>3, <3>4, <3>5, <3>6, BuyerHands
  <2> QED  BY <1>1, <1>2, <2>3, <2>4, TaskMoves
<1> QED  BY <1>3, <1>4

\* The phase of the scouts ends with the run's list on the blackboard.
LEMMA ScoutsList ==
    ASSUME Heeded, SerialInv, TypeOK, \A t \in Tasks : InHands(t) /\ Hears(t), MarkedInv,
           NEW r \in Runs, GatherScouts(r)
    PROVE  Listed(log, CorrOf[r])
<1>1. PICK a \in Scouts : TRUE
  BY DEF Heeded
<1>2. rpc[r] = "scouts" /\ \A q \in Runs : <<q, a>> \in Tasks /\ <<q, a>>[2] \in Scouts
  BY DEF GatherScouts, Gathered, Tasks, Actors
<1>3. Ended(<<r, a>>)
  BY <1>1 DEF GatherScouts, Gathered
<1>4. MarkedBy(a, CorrOf[r])
  BY <1>2, <1>3 DEF Hears, Ended
<1>5. CorrOf[r] \in AllCorrs
  BY RunsAssumption DEF AllCorrs
<1>6. ASSUME NEW q \in Runs, Planned(<<q, a>>, CorrOf[r]) PROVE FALSE
  <2>1. InFlight(<<q, a>>) /\ <<q, a>>[1] = q
    BY <1>2, <1>6 DEF InHands, Planned, InFlight, Writing
  <2>2. r = q
    BY <1>2, <2>1, OnlyPhase
  <2> QED  BY <1>3, <2>1, <2>2 DEF Ended, InFlight
<1> QED  BY <1>4, <1>5, <1>6 DEF MarkedInv

LEMMA ResultMoves ==
    ASSUME [Next]_vars, NEW r \in Runs, TypeOK, result'[r] # result[r] PROVE ReadDecision(r)
<1>1. ASSUME NEW q \in Runs, Submit(q) \/ (RunStep(q) /\ ~ReadDecision(q)) PROVE FALSE
  BY <1>1 DEF Submit, RunStep, GatherScouts, GatherEvaluators, GatherNegotiators, Gathered,
              BuyerReturned
<1>2. ASSUME NEW q \in Runs, ReadDecision(q) PROVE q = r
  <2>1. \E i : result' = [result EXCEPT ![q] = i]
    BY <1>2 DEF ReadDecision
  <2> QED  BY <2>1 DEF TypeOK
<1>3. ASSUME NEW t \in Tasks, TaskStep(t) PROVE FALSE
  BY <1>3, StepResult
<1>4. ASSUME NEW b \in Fallible, Crash(b) PROVE FALSE
  BY <1>4 DEF Crash
<1> QED  BY <1>1, <1>2, <1>3, <1>4 DEF Next, vars

\* What a run reads back is a decision on its own requirement.
LEMMA ReadsOwn ==
    ASSUME TypeOK, FitsAll, NEW r \in Runs, ReadDecision(r), Decided(log, CorrOf[r])
    PROVE  /\ result'[r] \in DOMAIN log["decision"] /\ UNCHANGED log
           /\ log["decision"][result'[r]].corr = CorrOf[r]
<1> DEFINE n == Len(log["decision"])
           own == {i \in Window(n, DecisionLimit) : log["decision"][i].corr = CorrOf[r]}
<1>1. n \in Nat /\ DOMAIN log["decision"] = 1 .. n /\ DecisionLimit \in Nat /\ n <= DecisionLimit
  BY ReadTrace, BoundsAssumption DEF Channels, FitsAll
<1>2. Window(n, DecisionLimit) = 1 .. n
  BY <1>1 DEF Window
<1>3. own \in SUBSET (1 .. n) /\ own # {}
  BY <1>1, <1>2 DEF Decided
<1>4. result'[r] = Newest(own) /\ UNCHANGED log
  BY <1>3 DEF ReadDecision, TypeOK
<1>5. Newest(own) \in own
  <2> HIDE DEF own
  <2> QED  BY <1>1, <1>3, NewestProperties
<1> QED  BY <1>1, <1>3, <1>4, <1>5

LEMMA NextAnswering ==
    ASSUME Heeded, FitsAll, SerialInv, SerialInv', LineageInv, MarkedInv,
           \A t \in Tasks : InHands(t) /\ Hears(t) /\ Weighs(t), [Next]_vars,
           NEW r \in Runs, Answering(r)
    PROVE  Answering(r)'
<1> DEFINE c == CorrOf[r]
<1>1. /\ TypeInv /\ TypeOK /\ TypeOK' /\ log \in Boards /\ log' \in Boards /\ Grows(log, log')
      /\ "requirement" \in Channels /\ "discovery" \in Channels /\ "decision" \in Channels
      /\ Len(log["requirement"]) \in Nat /\ Len(log'["requirement"]) \in Nat
  BY NextGrows, ReadTrace DEF Channels
<1>2. ASSUME rpc'[r] # "new" PROVE \E i \in 1 .. Len(log'["requirement"]) : log'["requirement"][i].corr = c
  <2>1. CASE rpc[r] # "new"
    <3>1. PICK i \in 1 .. Len(log["requirement"]) : log["requirement"][i].corr = c
      BY <2>1 DEF Answering, Asked
    <3> QED  BY <1>1, <3>1, Recorded
  <2>2. CASE rpc[r] = "new"
    <3>1. Submit(r)
      BY <1>1, <1>2, <2>2, RunChanges DEF Advances
    <3>2. PICK trace : Writes("requirement", trace) /\ trace.corr = c
      BY <3>1, SubmitWrites
    <3>3. trace \in Trace /\ Post("requirement", trace)
      BY <3>2 DEF Writes
    <3>4. /\ Len(log'["requirement"]) = Len(log["requirement"]) + 1
          /\ log'["requirement"][Len(log["requirement"]) + 1] = trace
      BY <1>1, <3>3, PostEffect
    <3> QED  BY <1>1, <3>2, <3>4
  <2> QED  BY <2>1, <2>2
<1>3. ASSUME rpc'[r] \notin {"new", "scouts"} PROVE Listed(log', c)
  <2>1. Listed(log, c)
    <3>1. CASE rpc[r] \notin {"new", "scouts"}
      BY <3>1 DEF Answering
    <3>2. CASE rpc[r] \in {"new", "scouts"}
      <4>1. GatherScouts(r)
        BY <1>1, <1>3, <3>2, RunChanges DEF Advances
      <4> QED  BY <1>1, <4>1, ScoutsList
    <3> QED  BY <3>1, <3>2
  <2> QED  BY <1>1, <2>1, StillTold DEF Listed
<1>4. ASSUME rpc'[r] = "read" PROVE Decided(log', c)
  <2>1. CASE rpc[r] = "read"
    BY <2>1, StillDecided DEF Answering
  <2>2. CASE rpc[r] # "read"
    <3>1. BuyerReturned(r)
      BY <1>1, <1>4, <2>2, RunChanges DEF Advances
    <3>2. rpc[r] = "buyer" /\ <<r, Buyer>> \in Tasks /\ task[<<r, Buyer>>].pc = "done"
      BY <1>1, <1>4, <3>1 DEF BuyerReturned, TypeOK, Tasks, Actors
    <3>3. ~Planned(<<r, Buyer>>, c)
      BY <3>2 DEF InHands, Planned, Writing
    <3>4. Decided(log, c)
      BY <3>2, <3>3 DEF Weighs
    <3> QED  BY <3>4, StillDecided
  <2> QED  BY <2>1, <2>2
<1>5. ASSUME rpc'[r] = "done"
      PROVE  result'[r] \in DOMAIN log'["decision"] /\ log'["decision"][result'[r]].corr = c
  <2>1. CASE rpc[r] = "done"
    <3>1. result[r] \in DOMAIN log["decision"] /\ log["decision"][result[r]].corr = c
      BY <2>1 DEF Answering
    <3>2. result'[r] = result[r]
      BY <1>1, <2>1, ResultMoves DEF ReadDecision
    <3>3. result[r] \in 1 .. Len(log["decision"])
      BY <1>1, <3>1, ReadTrace
    <3>4. /\ result[r] \in 1 .. Len(log'["decision"])
          /\ log'["decision"][result[r]] = log["decision"][result[r]]
      BY <1>1, <3>3, Recorded
    <3>5. DOMAIN log'["decision"] = 1 .. Len(log'["decision"])
      BY <1>1 DEF TypeOK
    <3> QED  BY <3>1, <3>2, <3>4, <3>5
  <2>2. CASE rpc[r] # "done"
    <3>1. ReadDecision(r) /\ rpc[r] = "read"
      BY <1>1, <1>5, <2>2, RunChanges DEF Advances
    <3>2. Decided(log, c)
      BY <3>1 DEF Answering
    <3> QED  BY <1>1, <3>1, <3>2, ReadsOwn
  <2> QED  BY <2>1, <2>2
<1> QED  BY <1>2, <1>3, <1>4, <1>5 DEF Answering, Asked

LEMMA NextAnswers ==
    ASSUME Heeded, AnswerInv, [Next]_vars PROVE AnswerInv'
<1>1. /\ Serial /\ BadQuantity = {} /\ PhasesInv /\ SerialInv /\ LineageInv /\ MarkedInv
      /\ \A t \in Tasks : InHands(t)
  BY DEF Heeded, AnswerInv, PhasesInv, TypedInv
<1>2. PhasesInv' /\ SerialInv'
  <2>1. PhasesInv'
    BY <1>1, NextPhases
  <2> QED  BY <2>1 DEF PhasesInv
<1>3. \A t \in Tasks : InHands(t)'
  BY <1>1, HandsKept
<1>4. MarkedInv'
  BY <1>1, NextMarked
<1>5. ASSUME FitsAll'
      PROVE  /\ \A t \in Tasks : Hears(t)' /\ Weighs(t)'
             /\ \A r \in Runs : Answering(r)'
  <2>1. FitsAll
    BY <1>1, <1>5, FitsAllBefore
  <2>2. /\ \A t \in Tasks : Hears(t) /\ Weighs(t) /\ t[1] \in Runs
        /\ \A r \in Runs : Answering(r)
    BY <2>1 DEF AnswerInv, Tasks
  <2>3. \A t \in Tasks : Hears(t)'
    BY <1>1, <1>2, <2>1, <2>2, NextHears
  <2>4. \A t \in Tasks : Weighs(t)'
    BY <1>1, <1>2, <2>1, <2>2, NextWeighs
  <2>5. \A r \in Runs : Answering(r)'
    BY <1>1, <1>2, <2>1, <2>2, NextAnswering
  <2> QED  BY <2>3, <2>4, <2>5
<1> QED  BY <1>2, <1>3, <1>4, <1>5 DEF AnswerInv

LEMMA InitAnswers == ASSUME Init PROVE AnswerInv
<1>1. \A t \in Tasks : task[t].plan = {}
  BY EmptyHands DEF Init
<1>2. \A a \in Actors : handled[a] = {}
  BY DEF Init
<1>3. \A r \in Runs : rpc[r] = "new"
  BY DEF Init
<1>4. MarkedInv
  BY <1>2 DEF MarkedInv, MarkedBy, Marked, Actors
<1>5. \A t \in Tasks : InHands(t) /\ Hears(t) /\ Weighs(t)
  BY <1>1, <1>3 DEF InHands, Hears, Weighs, Tasks
<1>6. \A r \in Runs : Answering(r)
  BY <1>3 DEF Answering
<1> QED  BY <1>4, <1>5, <1>6, InitPhases DEF AnswerInv

LEMMA AnsweredHere ==
    ASSUME AnswerInv, FitsAll PROVE AnsweredWithDecision
<1>1. \A r \in Runs : rpc[r] = "done" => /\ result[r] \in DOMAIN log["decision"]
                                         /\ log["decision"][result[r]].corr = CorrOf[r]
  BY DEF AnswerInv, Answering
<1>2. DOMAIN log["decision"] = 1 .. Len(log["decision"])
  BY ReadTrace DEF AnswerInv, PhasesInv, TypedInv, LineageInv, TypeInv, Channels
<1> QED  BY <1>1, <1>2 DEF AnsweredWithDecision

\* While one run is served at a time, the pools lose no process, requirements are
\* well formed and no channel has outgrown the reads, each run that returns has read
\* back a decision, and one on its own requirement: no scout, evaluator, negotiator
\* nor the buyer passes it over for what earlier runs left marked (cluster.py,
\* run_procurement; the _processed sets of the archetypes).
THEOREM RunsAnswered == Heeded => (Spec => [](FitsAll => AnsweredWithDecision))
<1> SUFFICES ASSUME Heeded PROVE Spec => [](FitsAll => AnsweredWithDecision)
  OBVIOUS
<1>1. Init => AnswerInv
  BY InitAnswers
<1>2. AnswerInv /\ [Next]_vars => AnswerInv'
  BY NextAnswers
<1>3. AnswerInv => (FitsAll => AnsweredWithDecision)
  BY AnsweredHere
<1> QED  BY <1>1, <1>2, <1>3, PTL DEF Spec
=============================================================================
