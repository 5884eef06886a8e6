---------------------------- MODULE Mesh_proofs ----------------------------
(***************************************************************************)
(* Proofs about Mesh, for every set of runs, actors and suppliers, every   *)
(* policy and every read limit, with runs that overlap, retries and        *)
(* restarts: types and the single award; then where the traces come from:  *)
(* the lineage of each stays in its own run, awards rest on traces of what *)
(* they award, the blackboard is an append-only log, and no mark is left   *)
(* without its answer: the buyer refuses no correlation for want of a      *)
(* scored supplier, and what an actor has marked it has answered.          *)
(***************************************************************************)
EXTENDS MeshInv, WellFoundedInduction, SequenceTheorems, TLAPS

\* The order of the natural numbers, as the relation WFMin wants.
Before == {ss \in Nat \X Nat : ss[1] < ss[2]}

LEMMA BeforeWellFounded == IsWellFoundedOn(Before, Nat)
  BY NatLessThanWellFounded, Zenon DEF OpToRel, Before

(***************************************************************************)
(* Positions in a channel: a non-empty set of them has a newest and an     *)
(* oldest member.                                                          *)
(***************************************************************************)
LEMMA OldestProperties ==
    ASSUME NEW S \in SUBSET Nat, S # {}
    PROVE  Oldest(S) \in S /\ \A i \in S : Oldest(S) <= i
<1>1. PICK x \in S : \A y \in S : ~ (<<y, x>> \in Before)
  BY WFMin, BeforeWellFounded, Zenon
<1>2. ASSUME NEW y \in S, y < x PROVE FALSE
  <2>1. <<y, x>> \in Before
    BY <1>2 DEF Before
  <2> QED  BY <1>1, <2>1
<1>3. \A y \in S : x <= y
  BY <1>2
<1> QED  BY <1>3 DEF Oldest

LEMMA NewestProperties ==
    ASSUME NEW top \in Nat, NEW S \in SUBSET (1 .. top), S # {}
    PROVE  Newest(S) \in S /\ \A i \in S : i <= Newest(S)
<1> DEFINE T == {top - i : i \in S}
<1>1. T \in SUBSET Nat
  OBVIOUS
<1>a. T # {}
  <2>1. PICK i \in S : TRUE
    OBVIOUS
  <2>2. top - i \in T
    OBVIOUS
  <2> QED  BY <2>2
<1>2. PICK m \in T : \A j \in T : m <= j
  BY <1>1, <1>a, OldestProperties
<1>3. PICK i \in S : m = top - i
  BY <1>2
<1>4. ASSUME NEW j \in S PROVE j <= i
  <2>1. top - j \in T
    OBVIOUS
  <2>2. m <= top - j
    BY <1>2, <2>1
  <2> QED  BY <1>3, <2>2
<1>5. \A j \in S : j <= i
  BY <1>4
<1> QED  BY <1>5 DEF Newest

LEMMA WindowProperties ==
    ASSUME NEW top \in Nat, NEW limit \in Nat
    PROVE  Window(top, limit) \in SUBSET (1 .. top)
BY DEF Window

(***************************************************************************)
(* Reading and writing the blackboard.                                     *)
(***************************************************************************)
LEMMA ReadTrace ==
    ASSUME TypeOK, NEW ch \in Channels
    PROVE  /\ Len(log[ch]) \in Nat
           /\ DOMAIN log[ch] = 1 .. Len(log[ch])
           /\ \A i \in 1 .. Len(log[ch]) : log[ch][i] \in Trace
BY DEF TypeOK

\* The channel grows by the trace and every position keeps what it held.
Boards == [Channels -> Seq(Trace)]
Grows(board, later) ==
    \A c \in Channels : /\ Len(later[c]) >= Len(board[c])
                        /\ \A i \in 1 .. Len(board[c]) : later[c][i] = board[c][i]

LEMMA PostEffect ==
    ASSUME TypeOK, NEW ch \in Channels, NEW trace \in Trace, Post(ch, trace)
    PROVE  /\ log' \in Boards
           /\ Grows(log, log')
           /\ Len(log'[ch]) = Len(log[ch]) + 1
           /\ log'[ch][Len(log[ch]) + 1] = trace
           /\ \A c \in Channels \ {ch} : log'[c] = log[c]
<1> USE DEF TypeOK, Boards
<1>1. log[ch] \in Seq(Trace)
  OBVIOUS
<1>2. log' = [log EXCEPT ![ch] = Append(log[ch], trace)]
  BY DEF Post
<1>3. /\ Append(log[ch], trace) \in Seq(Trace)
      /\ Len(Append(log[ch], trace)) = Len(log[ch]) + 1
      /\ \A i \in 1 .. Len(log[ch]) : Append(log[ch], trace)[i] = log[ch][i]
      /\ Append(log[ch], trace)[Len(log[ch]) + 1] = trace
  BY <1>1, AppendProperties
<1>4. log'[ch] = Append(log[ch], trace) /\ \A c \in Channels \ {ch} : log'[c] = log[c]
  BY <1>2
<1>5. \A c \in Channels : Len(log[c]) \in Nat
  OBVIOUS
<1>6. log' \in Boards
  BY <1>2, <1>3
<1>7. ASSUME NEW c \in Channels PROVE Len(log'[c]) >= Len(log[c])
  <2>1. CASE c = ch
    BY <1>3, <1>4, <1>5, <2>1
  <2>2. CASE c # ch
    BY <1>4, <1>5, <2>2
  <2> QED  BY <2>1, <2>2
<1>8. \A c \in Channels : \A i \in 1 .. Len(log[c]) : log'[c][i] = log[c][i]
  BY <1>3, <1>4
<1> QED  BY <1>3, <1>4, <1>6, <1>7, <1>8 DEF Grows

(***************************************************************************)
(* Types of the locals of a step.                                          *)
(***************************************************************************)
LEMMA StepType ==
    ASSUME TypeOK, NEW t \in Tasks, NEW state \in TaskState, Step(t, state)
    PROVE  /\ task' \in [Tasks -> TaskState]
           /\ task'[t] = state
           /\ \A u \in Tasks : u # t => task'[u] = task[u]
BY DEF TypeOK, Step

LEMMA FixedStates ==
    /\ Idle \in TaskState /\ Done \in TaskState /\ Failed \in TaskState
    /\ \A pc \in PCs : [Idle EXCEPT !.pc = pc] \in TaskState
BY DEF Idle, Done, Failed, TaskState, PCs

LEMMA ActingType ==
    ASSUME NEW state \in TaskState, NEW plan \in SUBSET Proposal
    PROVE  /\ Acting(state, plan) \in TaskState
           /\ Acting(state, plan).plan = plan
           /\ Acting(state, plan).stage = 0
           /\ Acting(state, plan).pc \in {"verdict", "act", "done"}
<1>1. CASE plan = {} /\ (state.pc \in Writing \/ Kernel \notin Fallible)
  BY <1>1, FixedStates DEF Acting, Done, Idle
<1>2. CASE ~ (plan = {} /\ (state.pc \in Writing \/ Kernel \notin Fallible))
  BY <1>2 DEF Acting, TaskState, PCs
<1> QED  BY <1>1, <1>2

LEMMA RaisedType ==
    ASSUME NEW state \in TaskState
    PROVE  /\ Raised(state) \in TaskState
           /\ Raised(state).pc = "fail" /\ Raised(state).plan = {}
           /\ Raised(state).seen = 0 /\ Raised(state).stage = 0
           /\ Raised(state).risks = 0 /\ Raised(state).scores = 0
<1>1. state.tries \in Nat
  BY DEF TaskState
<1> QED  BY <1>1 DEF Raised, Idle, TaskState, PCs

\* After reasoning a step acts, unless the kernel is dead.
LEMMA ReasonedCases ==
    ASSUME NEW state, NEW plan
    PROVE  \/ Reasoned(state, plan) = Acting(state, plan)
           \/ ~ Alive(Kernel) /\ Reasoned(state, plan) = Raised(state)
BY DEF Reasoned

LEMMA ReasonedType ==
    ASSUME NEW state \in TaskState, NEW plan \in SUBSET Proposal
    PROVE  /\ Reasoned(state, plan) \in TaskState
           /\ Reasoned(state, plan).plan \in {{}, plan}
           /\ Reasoned(state, plan).stage = 0
           /\ Reasoned(state, plan).pc \in {"verdict", "act", "done", "fail"}
BY ReasonedCases, ActingType, RaisedType

LEMMA MovedType ==
    ASSUME NEW state \in TaskState, NEW pc \in PCs, NEW seen \in Nat, NEW pos \in Nat,
           NEW ref \in Nat
    PROVE  /\ [state EXCEPT !.pc = pc] \in TaskState
           /\ [state EXCEPT !.pc = pc, !.ref = ref] \in TaskState
           /\ [state EXCEPT !.pc = pc, !.pos = pos, !.ref = ref] \in TaskState
           /\ [state EXCEPT !.pc = pc, !.seen = seen, !.pos = pos] \in TaskState
           /\ [state EXCEPT !.pc = pc, !.seen = seen] \in TaskState
           /\ [state EXCEPT !.pc = pc, !.risks = seen] \in TaskState
           /\ [state EXCEPT !.pc = pc, !.scores = seen] \in TaskState
BY DEF TaskState

LEMMA StagedType ==
    ASSUME NEW state \in TaskState, NEW stage \in Nat, NEW ref \in Nat
    PROVE  /\ [state EXCEPT !.stage = stage, !.ref = ref] \in TaskState
           /\ [state EXCEPT !.stage = stage] \in TaskState
           /\ [state EXCEPT !.pc = "act", !.stage = stage, !.ref = ref] \in TaskState
BY DEF TaskState, PCs

LEMMA PlannedType ==
    ASSUME NEW state \in TaskState, NEW p \in Proposal
    PROVE  [state EXCEPT !.plan = @ \cup {p}] \in TaskState
BY DEF TaskState

(***************************************************************************)
(* Well-placed locals stay so while the channels grow.                     *)
(***************************************************************************)
LEMMA PlacedStays ==
    ASSUME NEW board \in Boards, NEW later \in Boards, Grows(board, later),
           NEW a \in Actors, NEW state \in TaskState, WellPlaced(board, a, state)
    PROVE  WellPlaced(later, a, state)
<1>1. ASSUME NEW c \in Channels
      PROVE  Len(board[c]) \in Nat /\ Len(later[c]) \in Nat /\ Len(board[c]) <= Len(later[c])
  <2>1. board[c] \in Seq(Trace) /\ later[c] \in Seq(Trace)
    BY DEF Boards
  <2> QED  BY <2>1 DEF Grows
<1>2. /\ state.seen \in Nat /\ state.pos \in Nat
      /\ state.risks \in Nat /\ state.scores \in Nat
  BY DEF TaskState
<1>3. ASSUME NEW c \in Channels, NEW n \in Nat, n <= Len(board[c])
      PROVE  n <= Len(later[c])
  BY <1>1, <1>3
<1>4. {"requirement", "discovery", "score", "risk", "deal"} \subseteq Channels
  BY DEF Channels
<1>5. a \in Scouts => state.seen <= Len(later["requirement"]) /\ state.stage <= Len(Pool)
  BY <1>2, <1>3, <1>4 DEF WellPlaced
<1>6. a \in Evaluators =>
          /\ state.seen <= Len(later["discovery"])
          /\ state.pc \in {"pool", "size", "mark"} => state.pos \in 1 .. Len(later["discovery"])
  BY <1>1, <1>2, <1>3, <1>4 DEF WellPlaced
<1>7. a \in Negotiators =>
          /\ state.seen <= Len(later["score"])
          /\ state.pc \in {"pool", "mark"} => state.pos \in 1 .. Len(later["score"])
  BY <1>1, <1>2, <1>3, <1>4 DEF WellPlaced
<1>8. a = Buyer => /\ state.seen <= Len(later["deal"])
                   /\ state.risks <= Len(later["risk"])
                   /\ state.scores <= Len(later["score"])
  BY <1>2, <1>3, <1>4 DEF WellPlaced
<1> QED  BY <1>5, <1>6, <1>7, <1>8 DEF WellPlaced

LEMMA FixedPlaced ==
    ASSUME NEW board \in Boards, NEW a \in Actors, NEW state \in TaskState,
           state.seen = 0, state.stage = 0, state.risks = 0, state.scores = 0,
           state.pc \notin {"pool", "size", "mark"}
    PROVE  WellPlaced(board, a, state)
<1>1. ASSUME NEW c \in Channels PROVE Len(board[c]) >= 0
  <2>1. board[c] \in Seq(Trace)
    BY DEF Boards
  <2> QED  BY <2>1
<1>2. {"requirement", "discovery", "score", "risk", "deal"} \subseteq Channels
  BY DEF Channels
<1>3. Len(Pool) >= 0
  BY PoolAssumption
<1> QED  BY <1>1, <1>2, <1>3 DEF WellPlaced

\* A step of one task, over channels that may have grown.
LEMMA StepKeepsTypes ==
    ASSUME TypeInv, NEW t \in Tasks, NEW state \in TaskState, Step(t, state),
           log' \in Boards, Grows(log, log'), WellPlaced(log', t[2], state),
           handled' \in [Actors -> SUBSET ((Corrs \cup {NoCorr})
                                             \X (Suppliers \cup {NoSupplier}))],
           UNCHANGED <<rpc, result, crashes>>
    PROVE  TypeInv'
<1>1. /\ task' \in [Tasks -> TaskState] /\ task'[t] = state
      /\ \A u \in Tasks : u # t => task'[u] = task[u]
  BY StepType DEF TypeInv
<1>2. TypeOK'
  BY <1>1 DEF TypeInv, TypeOK, Boards
<1>3. ASSUME NEW u \in Tasks PROVE WellPlaced(log', u[2], task'[u])
  <2>1. CASE u = t
    BY <1>1, <2>1
  <2>2. CASE u # t
    <3>1. u[2] \in Actors /\ task[u] \in TaskState /\ log \in Boards
      BY DEF TypeInv, TypeOK, Tasks, Boards
    <3>2. WellPlaced(log', u[2], task[u])
      BY <3>1, PlacedStays DEF TypeInv
    <3> QED  BY <1>1, <2>2, <3>2
  <2> QED  BY <2>1, <2>2
<1> QED  BY <1>2, <1>3 DEF TypeInv

\* The same, for a step that leaves the blackboard and the marks alone.
LEMMA LocalKeepsTypes ==
    ASSUME TypeInv, NEW t \in Tasks, NEW state \in TaskState, Step(t, state),
           WellPlaced(log, t[2], state),
           UNCHANGED <<log, rpc, result, handled, crashes>>
    PROVE  TypeInv'
<1>1. log' \in Boards /\ Grows(log, log') /\ WellPlaced(log', t[2], state)
  BY DEF TypeInv, TypeOK, Boards, Grows
<1> QED  BY <1>1, StepKeepsTypes DEF TypeInv, TypeOK

\* The same, for a step that writes one trace.
LEMMA WriteKeepsTypes ==
    ASSUME TypeInv, NEW t \in Tasks, NEW state \in TaskState, Step(t, state),
           NEW ch \in Channels, NEW trace \in Trace, Post(ch, trace),
           WellPlaced(log, t[2], state),
           UNCHANGED <<rpc, result, handled, crashes>>
    PROVE  TypeInv'
<1>1. log' \in Boards /\ Grows(log, log')
  BY PostEffect DEF TypeInv
<1>2. t[2] \in Actors /\ log \in Boards
  BY DEF TypeInv, TypeOK, Boards, Tasks
<1>3. WellPlaced(log', t[2], state)
  BY <1>1, <1>2, PlacedStays
<1> QED  BY <1>1, <1>3, StepKeepsTypes DEF TypeInv, TypeOK

(***************************************************************************)
(* The four kinds of actor, and what a step of each has to keep in place.  *)
(***************************************************************************)
LEMMA Kinds ==
    \A a \in Actors :
        /\ a \in Scouts => a \notin Evaluators /\ a \notin Negotiators /\ a # Buyer
        /\ a \in Evaluators => a \notin Scouts /\ a \notin Negotiators /\ a # Buyer
        /\ a \in Negotiators => a \notin Scouts /\ a \notin Evaluators /\ a # Buyer
        /\ a = Buyer => a \notin Scouts /\ a \notin Evaluators /\ a \notin Negotiators
BY ActorsAssumption

LEMMA TaskTypes ==
    ASSUME TypeInv, NEW t \in Tasks
    PROVE  /\ t[2] \in Actors /\ task[t] \in TaskState /\ log \in Boards
           /\ WellPlaced(log, t[2], task[t])
           /\ \A ch \in Channels : Len(log[ch]) \in Nat
<1>1. t[2] \in Actors /\ task[t] \in TaskState /\ log \in Boards
  BY DEF TypeInv, TypeOK, Tasks, Boards
<1>2. \A ch \in Channels : Len(log[ch]) \in Nat
  BY ReadTrace DEF TypeInv
<1> QED  BY <1>1, <1>2 DEF TypeInv

LEMMA ActingPlaced ==
    ASSUME NEW board \in Boards, NEW a \in Actors, NEW state \in TaskState,
           NEW plan \in SUBSET Proposal, WellPlaced(board, a, state)
    PROVE  WellPlaced(board, a, Acting(state, plan))
<1>1. CASE plan = {} /\ (state.pc \in Writing \/ Kernel \notin Fallible)
  <2>1. /\ Done \in TaskState /\ Done.seen = 0 /\ Done.stage = 0 /\ Done.risks = 0
        /\ Done.scores = 0 /\ Done.pc \notin {"pool", "size", "mark"}
    BY FixedStates DEF Done, Idle
  <2> QED  BY <1>1, <2>1, FixedPlaced DEF Acting
<1>2. CASE ~ (plan = {} /\ (state.pc \in Writing \/ Kernel \notin Fallible))
  <2> DEFINE acting == Acting(state, plan)
  <2>1. /\ acting.seen = state.seen /\ acting.risks = state.risks
        /\ acting.scores = state.scores /\ acting.stage = 0 /\ acting.pc \in Writing
    BY <1>2 DEF Acting, TaskState, Writing
  <2>2. Len(Pool) >= 0
    BY PoolAssumption
  <2> HIDE DEF acting
  <2>3. WellPlaced(board, a, acting)
    BY <2>1, <2>2 DEF WellPlaced, Writing
  <2> QED  BY <2>3 DEF acting
<1> QED  BY <1>1, <1>2

LEMMA RaisedPlaced ==
    ASSUME NEW board \in Boards, NEW a \in Actors, NEW state \in TaskState
    PROVE  WellPlaced(board, a, Raised(state))
<1> DEFINE raised == Raised(state)
<1>1. /\ raised \in TaskState /\ raised.seen = 0 /\ raised.stage = 0
      /\ raised.risks = 0 /\ raised.scores = 0 /\ raised.pc = "fail"
  BY RaisedType
<1> HIDE DEF raised
<1>2. WellPlaced(board, a, raised)
  BY <1>1, FixedPlaced
<1> QED  BY <1>2 DEF raised

LEMMA ReasonedPlaced ==
    ASSUME NEW board \in Boards, NEW a \in Actors, NEW state \in TaskState,
           NEW plan \in SUBSET Proposal, WellPlaced(board, a, state)
    PROVE  WellPlaced(board, a, Reasoned(state, plan))
BY ReasonedCases, ActingPlaced, RaisedPlaced

LEMMA NextTraceTypes ==
    ASSUME TypeInv, NEW t \in Tasks, NEW state \in TaskState, NEW done,
           NEW ch \in Channels, NEW limit \in Nat, NEW type,
           \/ t[2] \in Evaluators /\ ch = "discovery"
           \/ t[2] \in Negotiators /\ ch = "score",
           WellPlaced(log, t[2], state),
           NextTrace(t, state, done, ch, limit, type)
    PROVE  \E next \in TaskState : Step(t, next) /\ WellPlaced(log, t[2], next)
<1> DEFINE fresh == {i \in Window(state.seen, limit) :
                       /\ i < state.pos
                       /\ log[ch][i].type = type
                       /\ Key(log[ch][i]) \notin done}
<1>1. /\ t[2] \in Actors /\ log \in Boards /\ \A c \in Channels : Len(log[c]) \in Nat
      /\ state.seen \in Nat /\ state.plan \in SUBSET Proposal
  BY TaskTypes DEF TaskState
<1>2. CASE fresh = {}
  <2>1. Step(t, Reasoned(state, state.plan))
    BY <1>2 DEF NextTrace
  <2> QED  BY <1>1, <2>1, ReasonedType, ReasonedPlaced
<1>3. CASE fresh # {}
  <2> DEFINE next == [state EXCEPT !.pc = "pool", !.pos = Newest(fresh), !.ref = 0]
  <2>1. Step(t, next)
    BY <1>3 DEF NextTrace
  <2>2. Newest(fresh) \in 1 .. state.seen
    <3>1. fresh \in SUBSET (1 .. state.seen)
      BY <1>1, WindowProperties
    <3> HIDE DEF fresh
    <3> QED  BY <1>1, <1>3, <3>1, NewestProperties
  <2>a. Newest(fresh) \in Nat /\ "pool" \in PCs
    BY <1>1, <2>2 DEF PCs
  <2> HIDE DEF fresh
  <2>b. next \in TaskState
    BY <2>a, MovedType
  <2>3. next.seen = state.seen /\ next.pos = Newest(fresh) /\ next.pc = "pool"
    BY DEF TaskState
  <2> HIDE DEF next
  <2>c. \A c \in {"discovery", "score"} : state.seen <= Len(log[c]) =>
            Newest(fresh) \in 1 .. Len(log[c])
    BY <1>1, <2>2 DEF Channels
  <2>4. WellPlaced(log, t[2], next)
    <3>1. CASE t[2] \in Evaluators /\ ch = "discovery"
      BY <1>1, <2>c, <2>3, <3>1, Kinds DEF WellPlaced
    <3>2. CASE t[2] \in Negotiators /\ ch = "score"
      BY <1>1, <2>c, <2>3, <3>2, Kinds DEF WellPlaced
    <3> QED  BY <3>1, <3>2
  <2> QED  BY <2>1, <2>b, <2>4
<1> QED  BY <1>2, <1>3

(***************************************************************************)
(* Types of the steps, one lemma per archetype.                            *)
(***************************************************************************)
LEMMA PerceiveTypes ==
    ASSUME TypeInv, NEW t \in Tasks, NEW ch \in Channels, Perceive(t, ch),
           \/ t[2] \in Scouts /\ ch = "requirement"
           \/ t[2] \in Evaluators /\ ch = "discovery"
           \/ t[2] \in Negotiators /\ ch = "score"
    PROVE  TypeInv'
<1> DEFINE next == [task[t] EXCEPT !.pc = "reason", !.seen = Len(log[ch]),
                                   !.pos = Len(log[ch]) + 1]
<1>1. t[2] \in Actors /\ task[t] \in TaskState /\ WellPlaced(log, t[2], task[t])
      /\ Len(log[ch]) \in Nat
  BY TaskTypes
<1>a. next \in TaskState
  <2>1. Len(log[ch]) + 1 \in Nat /\ "reason" \in PCs
    BY <1>1 DEF PCs
  <2> QED  BY <1>1, <2>1, MovedType
<1>2. next.seen = Len(log[ch]) /\ next.pc = "reason" /\ next.stage = task[t].stage
  BY <1>1 DEF TaskState
<1>3. Step(t, next)
  BY DEF Perceive
<1> HIDE DEF next
<1>4. WellPlaced(log, t[2], next)
  BY <1>1, <1>2, Kinds DEF WellPlaced
<1> QED  BY <1>a, <1>3, <1>4, LocalKeepsTypes DEF Perceive

\* A step that only marks and moves.
LEMMA MarkKeepsTypes ==
    ASSUME TypeInv, NEW t \in Tasks, NEW state \in TaskState, Step(t, state),
           NEW marks \in SUBSET ((Corrs \cup {NoCorr}) \X (Suppliers \cup {NoSupplier})),
           handled' = [handled EXCEPT ![t[2]] = marks],
           WellPlaced(log, t[2], state),
           UNCHANGED <<log, rpc, result, crashes>>
    PROVE  TypeInv'
<1>1. log' \in Boards /\ Grows(log, log') /\ WellPlaced(log', t[2], state)
  BY DEF TypeInv, TypeOK, Boards, Grows
<1>2. handled' \in [Actors -> SUBSET ((Corrs \cup {NoCorr}) \X (Suppliers \cup {NoSupplier}))]
  BY TaskTypes DEF TypeInv, TypeOK
<1> QED  BY <1>1, <1>2, StepKeepsTypes

LEMMA PostTypes ==
    ASSUME TypeInv, NEW t \in Tasks, NEW p \in task[t].plan
    PROVE  /\ p.src \in Nat /\ p.post \in Trace
           /\ task[t].plan \ {p} \in SUBSET Proposal
BY TaskTypes DEF TaskState, Proposal

LEMMA ScoutReasonTypes == ASSUME TypeInv, NEW t \in Tasks, ScoutReason(t) PROVE TypeInv'
<1> DEFINE corr(i) == log["requirement"][i].corr
           window == Window(task[t].seen, ReqLimit)
           fresh == {i \in window : /\ <<corr(i), NoSupplier>> \notin handled[t[2]]
                                    /\ \A j \in window : j > i => corr(j) # corr(i)}
           raising == {i \in fresh : corr(i) \in BadQuantity}
           answered == {i \in fresh : \A j \in raising : i > j}
           marks == handled[t[2]] \cup {<<corr(i), NoSupplier>> : i \in answered}
           plan == {ListProposal(i) : i \in answered}
           next == IF raising # {} THEN Raised(task[t]) ELSE Reasoned(task[t], plan)
<1>1. /\ t[2] \in Scouts /\ Step(t, next) /\ handled' = [handled EXCEPT ![t[2]] = marks]
      /\ UNCHANGED <<log, rpc, result, crashes>>
  BY DEF ScoutReason
<1>2. /\ t[2] \in Actors /\ task[t] \in TaskState /\ log \in Boards
      /\ WellPlaced(log, t[2], task[t]) /\ task[t].seen \in Nat
  BY TaskTypes DEF TaskState
<1>3. answered \subseteq 1 .. Len(log["requirement"])
  <2>1. window \subseteq 1 .. task[t].seen
    BY <1>2, WindowProperties, BoundsAssumption
  <2>2. task[t].seen <= Len(log["requirement"])
    BY <1>1, <1>2 DEF WellPlaced
  <2>3. Len(log["requirement"]) \in Nat
    BY TaskTypes DEF Channels
  <2> QED  BY <1>2, <2>1, <2>2, <2>3
<1>4. \A i \in answered : /\ log["requirement"][i] \in Trace
                          /\ corr(i) \in Corrs \cup {NoCorr} /\ i \in Nat
  BY <1>3, ReadTrace DEF TypeInv, Channels, Trace
<1> HIDE DEF answered
<1>5. marks \in SUBSET ((Corrs \cup {NoCorr}) \X (Suppliers \cup {NoSupplier}))
  BY <1>2, <1>4 DEF TypeInv, TypeOK
<1>6. plan \in SUBSET Proposal
  <2>1. \A i \in answered : ListProposal(i) \in Proposal
    BY <1>4 DEF ListProposal, Proposal, Trace, Archetypes, TraceTypes, TraceIds, Channels
  <2> QED  BY <2>1
<1>7. next \in TaskState /\ WellPlaced(log, t[2], next)
  <2>1. CASE raising # {}
    BY <1>2, <2>1, RaisedType, RaisedPlaced
  <2>2. CASE raising = {}
    <3>1. Reasoned(task[t], plan) \in TaskState /\ WellPlaced(log, t[2], Reasoned(task[t], plan))
      BY <1>2, <1>6, ReasonedType, ReasonedPlaced
    <3> QED  BY <2>2, <3>1
  <2> QED  BY <2>1, <2>2
<1> HIDE DEF next, marks
<1> QED  BY <1>1, <1>5, <1>7, MarkKeepsTypes

LEMMA ScoutPostListTypes == ASSUME TypeInv, NEW t \in Tasks, ScoutPostList(t) PROVE TypeInv'
<1> DEFINE next == [task[t] EXCEPT !.pc = "act", !.stage = 1, !.ref = Len(log["discovery"]) + 1]
<1>1. /\ t[2] \in Scouts /\ Step(t, next)
      /\ UNCHANGED <<rpc, result, handled, crashes>>
  BY DEF ScoutPostList
<1>2. PICK p \in task[t].plan : Post("discovery", p.post)
  BY DEF ScoutPostList
<1>3. /\ t[2] \in Actors /\ task[t] \in TaskState /\ WellPlaced(log, t[2], task[t])
      /\ Len(log["discovery"]) \in Nat /\ "discovery" \in Channels
  BY TaskTypes DEF Channels
<1>4. p.post \in Trace
  BY PostTypes
<1>5. next \in TaskState
  <2>1. Len(log["discovery"]) + 1 \in Nat
    BY <1>3
  <2> QED  BY <1>3, <2>1, StagedType
<1>6. next.seen = task[t].seen /\ next.pc = "act" /\ next.stage = 1
  BY <1>3 DEF TaskState
<1>7. 1 <= Len(Pool)
  BY PoolAssumption
<1> HIDE DEF next
<1>8. WellPlaced(log, t[2], next)
  BY <1>1, <1>3, <1>6, <1>7, Kinds DEF WellPlaced
<1> QED  BY <1>1, <1>2, <1>3, <1>4, <1>5, <1>8, WriteKeepsTypes

LEMMA ScoutPostSupplierTypes ==
    ASSUME TypeInv, NEW t \in Tasks, ScoutPostSupplier(t) PROVE TypeInv'
<1> DEFINE trace(p) == [by |-> "scout", type |-> "supplier_discovered", corr |-> p.post.corr,
                        sup |-> Pool[task[t].stage],
                        parents |-> {<<"discovery", task[t].ref>>}, sized |-> FALSE]
           next(p) == IF task[t].stage < Len(Pool) THEN [task[t] EXCEPT !.stage = @ + 1]
                      ELSE Acting(task[t], task[t].plan \ {p})
<1>1. PICK p \in task[t].plan : Post("discovery", trace(p)) /\ Step(t, next(p))
  BY DEF ScoutPostSupplier
<1>2. /\ t[2] \in Scouts /\ task[t].stage > 0
      /\ UNCHANGED <<rpc, result, handled, crashes>>
  BY DEF ScoutPostSupplier
<1>3. /\ t[2] \in Actors /\ task[t] \in TaskState /\ log \in Boards
      /\ WellPlaced(log, t[2], task[t]) /\ "discovery" \in Channels
  BY TaskTypes DEF Channels
<1>4. task[t].stage \in Nat /\ task[t].ref \in Nat /\ task[t].stage <= Len(Pool)
  BY <1>2, <1>3 DEF TaskState, WellPlaced
<1>5. Pool[task[t].stage] \in Suppliers
  BY <1>2, <1>4, PoolAssumption DEF Suppliers
<1>6. trace(p) \in Trace
  <2>1. p.post.corr \in Corrs \cup {NoCorr}
    BY PostTypes DEF Trace
  <2> QED  BY <1>4, <1>5, <2>1 DEF Trace, Archetypes, TraceTypes, TraceIds, Channels
<1>7. next(p) \in TaskState /\ WellPlaced(log, t[2], next(p))
  <2>1. CASE task[t].stage < Len(Pool)
    <3> DEFINE moved == [task[t] EXCEPT !.stage = @ + 1]
    <3>1. moved \in TaskState
      <4>1. task[t].stage + 1 \in Nat
        BY <1>4
      <4> QED  BY <1>3, <4>1, StagedType
    <3>2. /\ moved.seen = task[t].seen /\ moved.pc = task[t].pc
          /\ moved.stage = task[t].stage + 1
      BY <1>3 DEF TaskState
    <3>3. moved.stage <= Len(Pool)
      BY <1>4, <2>1, <3>2, PoolAssumption
    <3>4. next(p) = moved
      BY <2>1
    <3> HIDE DEF moved
    <3>5. WellPlaced(log, t[2], moved)
      BY <1>2, <1>3, <3>2, <3>3, Kinds DEF WellPlaced
    <3> QED  BY <3>1, <3>4, <3>5
  <2>2. CASE ~(task[t].stage < Len(Pool))
    <3>1. task[t].plan \ {p} \in SUBSET Proposal
      BY PostTypes
    <3> QED  BY <1>3, <2>2, <3>1, ActingType, ActingPlaced
  <2> QED  BY <2>1, <2>2
<1> HIDE DEF next, trace
<1> QED  BY <1>1, <1>2, <1>3, <1>6, <1>7, WriteKeepsTypes

\* Where the loop of an evaluator or negotiator stands.
LEMMA EvaluatorScanTypes ==
    ASSUME TypeInv, NEW t \in Tasks, EvaluatorScan(t) PROVE TypeInv'
<1>1. /\ t[2] \in Evaluators /\ "discovery" \in Channels /\ DiscLimit \in Nat
      /\ NextTrace(t, task[t], handled[t[2]], "discovery", DiscLimit, "supplier_discovered")
      /\ UNCHANGED <<log, rpc, result, handled, crashes>>
  BY BoundsAssumption DEF EvaluatorScan, Channels
<1>2. task[t] \in TaskState /\ WellPlaced(log, t[2], task[t])
  BY TaskTypes
<1>3. \E next \in TaskState : Step(t, next) /\ WellPlaced(log, t[2], next)
  BY <1>1, <1>2, NextTraceTypes
<1> QED  BY <1>1, <1>3, LocalKeepsTypes

LEMMA NegotiatorScanTypes ==
    ASSUME TypeInv, NEW t \in Tasks, NegotiatorScan(t) PROVE TypeInv'
<1>1. /\ t[2] \in Negotiators /\ "score" \in Channels /\ ScoreLimit \in Nat
      /\ NextTrace(t, task[t], handled[t[2]], "score", ScoreLimit, "evaluation")
      /\ UNCHANGED <<log, rpc, result, handled, crashes>>
  BY BoundsAssumption DEF NegotiatorScan, Channels
<1>2. task[t] \in TaskState /\ WellPlaced(log, t[2], task[t])
  BY TaskTypes
<1>3. \E next \in TaskState : Step(t, next) /\ WellPlaced(log, t[2], next)
  BY <1>1, <1>2, NextTraceTypes
<1> QED  BY <1>1, <1>3, LocalKeepsTypes

\* A move inside the loop: a new place, at the same trace.
LEMMA LoopMoveTypes ==
    ASSUME TypeInv, NEW t \in Tasks, t[2] \in Evaluators \cup Negotiators,
           task[t].pc \in {"pool", "size", "mark"},
           t[2] \in Negotiators => task[t].pc # "size",
           NEW pc \in {"reason", "size", "mark"}, NEW ref \in Nat,
           t[2] \in Negotiators => pc # "size",
           NEW next, next = [task[t] EXCEPT !.pc = pc, !.ref = ref]
    PROVE  next \in TaskState /\ WellPlaced(log, t[2], next)
<1>1. /\ t[2] \in Actors /\ task[t] \in TaskState /\ WellPlaced(log, t[2], task[t])
      /\ pc \in PCs
  BY TaskTypes DEF PCs
<1>2. next \in TaskState
  BY <1>1, MovedType
<1>3. /\ next.seen = task[t].seen /\ next.pos = task[t].pos /\ next.pc = pc
  BY <1>1 DEF TaskState
<1>4. CASE t[2] \in Evaluators
  BY <1>1, <1>2, <1>3, <1>4, Kinds DEF WellPlaced
<1>5. CASE t[2] \in Negotiators
  BY <1>1, <1>2, <1>3, <1>5, Kinds DEF WellPlaced
<1> QED  BY <1>4, <1>5

LEMMA EvaluatorReadPoolTypes ==
    ASSUME TypeInv, NEW t \in Tasks, EvaluatorReadPool(t) PROVE TypeInv'
<1> DEFINE pc == IF PoolsInSight(log["discovery"][task[t].pos].corr) = {}
                 THEN "reason" ELSE "size"
           next == [task[t] EXCEPT !.pc = pc]
<1>1. /\ t[2] \in Evaluators /\ task[t].pc = "pool" /\ Step(t, next)
      /\ UNCHANGED <<log, rpc, result, handled, crashes>>
  BY DEF EvaluatorReadPool
<1>2. task[t] \in TaskState /\ task[t].ref \in Nat
  BY TaskTypes DEF TaskState
<1>3. next = [task[t] EXCEPT !.pc = pc, !.ref = task[t].ref]
  BY <1>2 DEF TaskState
<1>4. pc \in {"reason", "size", "mark"}
  OBVIOUS
<1>5. t[2] \in Actors
  BY TaskTypes
<1> HIDE DEF pc
<1>6. next \in TaskState /\ WellPlaced(log, t[2], next)
  BY <1>1, <1>2, <1>3, <1>4, <1>5, Kinds, LoopMoveTypes
<1> HIDE DEF next
<1> QED  BY <1>1, <1>6, LocalKeepsTypes

LEMMA EvaluatorReadRequirementTypes ==
    ASSUME TypeInv, NEW t \in Tasks, EvaluatorReadRequirement(t) PROVE TypeInv'
<1> DEFINE corr == log["discovery"][task[t].pos].corr
           found == {i \in Window(Len(log["requirement"]), SizeLimit) :
                        log["requirement"][i].corr = corr}
           ref == IF found = {} THEN 0 ELSE Newest(found)
           next == [task[t] EXCEPT !.pc = "mark", !.ref = ref]
<1>1. /\ t[2] \in Evaluators /\ task[t].pc = "size" /\ Step(t, next)
      /\ UNCHANGED <<log, rpc, result, handled, crashes>>
  BY DEF EvaluatorReadRequirement
<1>2. Len(log["requirement"]) \in Nat /\ t[2] \in Actors
  BY TaskTypes DEF Channels
<1>3. ref \in Nat
  <2>1. found \in SUBSET (1 .. Len(log["requirement"]))
    BY <1>2, WindowProperties, BoundsAssumption
  <2> HIDE DEF found
  <2>2. CASE found = {}
    BY <2>2
  <2>3. CASE found # {}
    <3>1. Newest(found) \in 1 .. Len(log["requirement"])
      BY <1>2, <2>1, <2>3, NewestProperties
    <3> QED  BY <1>2, <2>3, <3>1
  <2> QED  BY <2>2, <2>3
<1> HIDE DEF ref
<1>4. next \in TaskState /\ WellPlaced(log, t[2], next)
  BY <1>1, <1>2, <1>3, Kinds, LoopMoveTypes
<1> HIDE DEF next
<1> QED  BY <1>1, <1>4, LocalKeepsTypes

LEMMA NegotiatorReadPoolTypes ==
    ASSUME TypeInv, NEW t \in Tasks, NegotiatorReadPool(t) PROVE TypeInv'
<1> DEFINE pools == PoolsInSight(log["score"][task[t].pos].corr)
           next == IF pools = {} THEN [task[t] EXCEPT !.pc = "reason"]
                   ELSE [task[t] EXCEPT !.pc = "mark", !.ref = Newest(pools)]
<1>1. /\ t[2] \in Negotiators /\ task[t].pc = "pool" /\ Step(t, next)
      /\ UNCHANGED <<log, rpc, result, handled, crashes>>
  BY DEF NegotiatorReadPool
<1>2. /\ Len(log["discovery"]) \in Nat /\ t[2] \in Actors
      /\ task[t] \in TaskState /\ task[t].ref \in Nat
  BY TaskTypes DEF Channels, TaskState
<1>3. pools \in SUBSET (1 .. Len(log["discovery"]))
  BY <1>2, WindowProperties, BoundsAssumption DEF PoolsInSight
<1> HIDE DEF pools
<1>4. next \in TaskState /\ WellPlaced(log, t[2], next)
  <2>1. CASE pools = {}
    <3>1. next = [task[t] EXCEPT !.pc = "reason", !.ref = task[t].ref]
      BY <1>2, <2>1 DEF TaskState
    <3> HIDE DEF next
    <3> QED  BY <1>1, <1>2, <3>1, Kinds, LoopMoveTypes
  <2>2. CASE pools # {}
    <3>1. Newest(pools) \in Nat
      <4>1. Newest(pools) \in 1 .. Len(log["discovery"])
        BY <1>2, <1>3, <2>2, NewestProperties
      <4> QED  BY <1>2, <4>1
    <3>2. next = [task[t] EXCEPT !.pc = "mark", !.ref = Newest(pools)]
      BY <2>2
    <3> HIDE DEF next
    <3> QED  BY <1>1, <1>2, <3>1, <3>2, Kinds, LoopMoveTypes
  <2> QED  BY <2>1, <2>2
<1> HIDE DEF next
<1> QED  BY <1>1, <1>4, LocalKeepsTypes

\* The mark of a trace, and the proposal that answers it.
LEMMA KeyType ==
    ASSUME NEW trace \in Trace
    PROVE  Key(trace) \in (Corrs \cup {NoCorr}) \X (Suppliers \cup {NoSupplier})
BY DEF Key, Trace

LEMMA PlannedPlaced ==
    ASSUME TypeInv, NEW t \in Tasks, NEW p \in Proposal
    PROVE  LET planned == [task[t] EXCEPT !.plan = @ \cup {p}]
           IN planned \in TaskState /\ WellPlaced(log, t[2], planned)
<1> DEFINE planned == [task[t] EXCEPT !.plan = @ \cup {p}]
<1>1. task[t] \in TaskState /\ WellPlaced(log, t[2], task[t])
  BY TaskTypes
<1>2. planned \in TaskState
  BY <1>1, PlannedType
<1>3. /\ planned.pc = task[t].pc /\ planned.seen = task[t].seen /\ planned.pos = task[t].pos
      /\ planned.risks = task[t].risks /\ planned.scores = task[t].scores
      /\ planned.stage = task[t].stage
  BY <1>1 DEF TaskState
<1> HIDE DEF planned
<1>4. WellPlaced(log, t[2], planned)
  BY <1>1, <1>3 DEF WellPlaced
<1> QED  BY <1>2, <1>4 DEF planned

LEMMA EvaluationProposalType ==
    ASSUME TypeInv, NEW t \in Tasks, t[2] \in Evaluators, task[t].pc = "mark"
    PROVE  /\ EvaluationProposal(t) \in Proposal
           /\ Key(log["discovery"][task[t].pos])
                 \in (Corrs \cup {NoCorr}) \X (Suppliers \cup {NoSupplier})
<1>1. task[t].pos \in 1 .. Len(log["discovery"]) /\ task[t].pos \in Nat
  BY TaskTypes DEF WellPlaced, TaskState
<1>2. log["discovery"][task[t].pos] \in Trace
  BY <1>1, ReadTrace DEF TypeInv, Channels
<1>3. EvaluationProposal(t) \in Proposal
  BY <1>1, <1>2 DEF EvaluationProposal, Proposal, Trace, Archetypes, TraceTypes, TraceIds,
                    Channels
<1> QED  BY <1>2, <1>3, KeyType

LEMMA QuoteProposalType ==
    ASSUME TypeInv, NEW t \in Tasks, t[2] \in Negotiators, task[t].pc = "mark"
    PROVE  /\ QuoteProposal(t) \in Proposal
           /\ Key(log["score"][task[t].pos])
                 \in (Corrs \cup {NoCorr}) \X (Suppliers \cup {NoSupplier})
<1>1. /\ task[t].pos \in 1 .. Len(log["score"])
      /\ task[t].pos \in Nat /\ task[t].ref \in Nat
  BY TaskTypes DEF WellPlaced, TaskState
<1>2. log["score"][task[t].pos] \in Trace
  BY <1>1, ReadTrace DEF TypeInv, Channels
<1>3. QuoteProposal(t) \in Proposal
  BY <1>1, <1>2 DEF QuoteProposal, Proposal, Trace, Archetypes, TraceTypes, TraceIds, Channels
<1> QED  BY <1>2, <1>3, KeyType

\* A step that gives up on an exception.
LEMMA FixedStep ==
    ASSUME TypeInv, NEW t \in Tasks, NEW state,
           state \in {Idle, Done, Failed, [Idle EXCEPT !.pc = "perceive"]}
    PROVE  state \in TaskState /\ WellPlaced(log, t[2], state)
<1>1. state \in TaskState
  BY FixedStates DEF PCs
<1>2. /\ state.seen = 0 /\ state.stage = 0 /\ state.risks = 0 /\ state.scores = 0
      /\ state.pc \notin {"pool", "size", "mark"}
  BY DEF Idle, Done, Failed
<1>3. t[2] \in Actors /\ log \in Boards
  BY TaskTypes
<1> QED  BY <1>1, <1>2, <1>3, FixedPlaced

LEMMA EvaluatorMarkTypes ==
    ASSUME TypeInv, NEW t \in Tasks, EvaluatorMark(t) PROVE TypeInv'
<1> DEFINE key == Key(log["discovery"][task[t].pos])
           done == handled[t[2]] \cup {key}
           planned == [task[t] EXCEPT !.plan = @ \cup {EvaluationProposal(t)}]
           fail == Raised(task[t])
<1>1. /\ t[2] \in Evaluators /\ task[t].pc = "mark" /\ UNCHANGED <<log, rpc, result, crashes>>
  BY DEF EvaluatorMark
<1>2. CASE Step(t, fail) /\ UNCHANGED handled
  <2>1. fail \in TaskState /\ WellPlaced(log, t[2], fail)
    BY TaskTypes, RaisedType, RaisedPlaced
  <2> QED  BY <1>1, <1>2, <2>1, LocalKeepsTypes
<1>3. CASE /\ handled' = [handled EXCEPT ![t[2]] = done]
           /\ NextTrace(t, planned, done, "discovery", DiscLimit, "supplier_discovered")
  <2>1. planned \in TaskState /\ WellPlaced(log, t[2], planned)
    BY <1>1, EvaluationProposalType, PlannedPlaced
  <2>2. done \in SUBSET ((Corrs \cup {NoCorr}) \X (Suppliers \cup {NoSupplier}))
    BY <1>1, EvaluationProposalType, TaskTypes DEF TypeInv, TypeOK
  <2>3. "discovery" \in Channels /\ DiscLimit \in Nat
    BY BoundsAssumption DEF Channels
  <2> HIDE DEF planned, done
  <2>4. PICK next \in TaskState : Step(t, next) /\ WellPlaced(log, t[2], next)
    BY <1>1, <1>3, <2>1, <2>3, NextTraceTypes
  <2> QED  BY <1>1, <1>3, <2>2, <2>4, MarkKeepsTypes
<1> QED  BY <1>2, <1>3 DEF EvaluatorMark

LEMMA NegotiatorMarkTypes ==
    ASSUME TypeInv, NEW t \in Tasks, NegotiatorMark(t) PROVE TypeInv'
<1> DEFINE done == handled[t[2]] \cup {Key(log["score"][task[t].pos])}
           planned == [task[t] EXCEPT !.plan = @ \cup {QuoteProposal(t)}]
<1>1. /\ t[2] \in Negotiators /\ task[t].pc = "mark" /\ UNCHANGED <<log, rpc, result, crashes>>
      /\ handled' = [handled EXCEPT ![t[2]] = done]
      /\ NextTrace(t, planned, done, "score", ScoreLimit, "evaluation")
  BY DEF NegotiatorMark
<1>2. planned \in TaskState /\ WellPlaced(log, t[2], planned)
  BY <1>1, QuoteProposalType, PlannedPlaced
<1>3. done \in SUBSET ((Corrs \cup {NoCorr}) \X (Suppliers \cup {NoSupplier}))
  BY <1>1, QuoteProposalType, TaskTypes DEF TypeInv, TypeOK
<1>4. "score" \in Channels /\ ScoreLimit \in Nat
  BY BoundsAssumption DEF Channels
<1> HIDE DEF planned, done
<1>5. PICK next \in TaskState : Step(t, next) /\ WellPlaced(log, t[2], next)
  BY <1>1, <1>2, <1>4, NextTraceTypes
<1> QED  BY <1>1, <1>3, <1>5, MarkKeepsTypes

\* A step that has written a proposal, and goes on with the others.
LEMMA NextProposalPlaced ==
    ASSUME TypeInv, NEW t \in Tasks, NEW p \in task[t].plan
    PROVE  LET next == Acting(task[t], task[t].plan \ {p})
           IN next \in TaskState /\ WellPlaced(log, t[2], next)
<1>1. /\ t[2] \in Actors /\ task[t] \in TaskState /\ log \in Boards
      /\ WellPlaced(log, t[2], task[t]) /\ task[t].plan \ {p} \in SUBSET Proposal
  BY TaskTypes, PostTypes
<1> QED  BY <1>1, ActingType, ActingPlaced

LEMMA EvaluatorPostScoreTypes ==
    ASSUME TypeInv, NEW t \in Tasks, EvaluatorPostScore(t) PROVE TypeInv'
<1> DEFINE next == [task[t] EXCEPT !.pc = "act", !.stage = 1, !.ref = Len(log["score"]) + 1]
<1>1. /\ t[2] \in Evaluators /\ task[t].pc \in Writing /\ Step(t, next)
      /\ UNCHANGED <<rpc, result, handled, crashes>>
  BY DEF EvaluatorPostScore
<1>2. PICK p \in task[t].plan : Post("score", p.post)
  BY DEF EvaluatorPostScore
<1>3. /\ t[2] \in Actors /\ task[t] \in TaskState /\ WellPlaced(log, t[2], task[t])
      /\ Len(log["score"]) + 1 \in Nat /\ "score" \in Channels
  BY TaskTypes DEF Channels
<1>4. p.post \in Trace
  BY PostTypes
<1>5. next \in TaskState
  BY <1>3, StagedType
<1>6. next.seen = task[t].seen /\ next.pc = "act"
  BY <1>3 DEF TaskState
<1> HIDE DEF next
<1>7. WellPlaced(log, t[2], next)
  BY <1>1, <1>3, <1>6, Kinds DEF WellPlaced
<1> QED  BY <1>1, <1>2, <1>3, <1>4, <1>5, <1>7, WriteKeepsTypes

LEMMA EvaluatorPostRiskTypes ==
    ASSUME TypeInv, NEW t \in Tasks, EvaluatorPostRisk(t) PROVE TypeInv'
<1> DEFINE trace(p) == [p.post EXCEPT !.type = "risk_assessment",
                                      !.parents = {<<"score", task[t].ref>>}]
           next(p) == Acting(task[t], task[t].plan \ {p})
<1>1. PICK p \in task[t].plan : Post("risk", trace(p)) /\ Step(t, next(p))
  BY DEF EvaluatorPostRisk
<1>2. UNCHANGED <<rpc, result, handled, crashes>> /\ "risk" \in Channels
  BY DEF EvaluatorPostRisk, Channels
<1>3. trace(p) \in Trace
  <2>1. p.post \in Trace /\ {<<"score", task[t].ref>>} \subseteq TraceIds
    BY PostTypes, TaskTypes DEF TraceIds, Channels, TaskState
  <2> QED  BY <2>1 DEF Trace, TraceTypes
<1>4. next(p) \in TaskState /\ WellPlaced(log, t[2], next(p))
  BY NextProposalPlaced
<1> HIDE DEF trace, next
<1> QED  BY <1>1, <1>2, <1>3, <1>4, WriteKeepsTypes

LEMMA NegotiatorPostQuoteTypes ==
    ASSUME TypeInv, NEW t \in Tasks, NegotiatorPostQuote(t) PROVE TypeInv'
<1> DEFINE next(p) == Acting(task[t], task[t].plan \ {p})
<1>1. PICK p \in task[t].plan : Post("deal", p.post) /\ Step(t, next(p))
  BY DEF NegotiatorPostQuote
<1>2. UNCHANGED <<rpc, result, handled, crashes>> /\ "deal" \in Channels
  BY DEF NegotiatorPostQuote, Channels
<1>3. p.post \in Trace /\ next(p) \in TaskState /\ WellPlaced(log, t[2], next(p))
  BY PostTypes, NextProposalPlaced
<1> HIDE DEF next
<1> QED  BY <1>1, <1>2, <1>3, WriteKeepsTypes

LEMMA BuyerPostDecisionTypes ==
    ASSUME TypeInv, NEW t \in Tasks, BuyerPostDecision(t) PROVE TypeInv'
<1> DEFINE next(p) == Acting(task[t], task[t].plan \ {p})
<1>1. PICK p \in task[t].plan : Post("decision", p.post) /\ Step(t, next(p))
  BY DEF BuyerPostDecision
<1>2. UNCHANGED <<rpc, result, handled, crashes>> /\ "decision" \in Channels
  BY DEF BuyerPostDecision, Channels
<1>3. p.post \in Trace /\ next(p) \in TaskState /\ WellPlaced(log, t[2], next(p))
  BY PostTypes, NextProposalPlaced
<1> HIDE DEF next
<1> QED  BY <1>1, <1>2, <1>3, WriteKeepsTypes

\* Only scouts and evaluators may write the channel they report to.
LEMMA DepositCases ==
    ASSUME NEW t \in Tasks, DepositFailure(t)
    PROVE  /\ task[t].pc = "fail" /\ Step(t, Done)
           /\ UNCHANGED <<rpc, result, handled, crashes>>
           /\ \/ t[2] \in Scouts /\ Post("discovery", Failure(t[2]))
              \/ t[2] \in Evaluators /\ Post("score", Failure(t[2]))
              \/ UNCHANGED log
<1>1. CASE t[2] \in Scouts
  BY <1>1 DEF DepositFailure
<1>2. CASE t[2] \notin Scouts
  <2>1. CanWrite(ArchetypeOf(t[2]), "score") => t[2] \in Evaluators
    BY <1>2 DEF CanWrite, Writers, ArchetypeOf
  <2> QED  BY <1>2, <2>1 DEF DepositFailure
<1> QED  BY <1>1, <1>2

LEMMA FailureType == ASSUME NEW a PROVE Failure(a) \in Trace
<1>1. ArchetypeOf(a) \in Archetypes
  BY DEF ArchetypeOf, Archetypes
<1> QED  BY <1>1 DEF Failure, Trace, TraceTypes

LEMMA DepositFailureTypes ==
    ASSUME TypeInv, NEW t \in Tasks, DepositFailure(t) PROVE TypeInv'
<1>1. Step(t, Done) /\ UNCHANGED <<rpc, result, handled, crashes>>
  BY DepositCases
<1>2. Done \in TaskState /\ WellPlaced(log, t[2], Done)
  BY FixedStep
<1>3. ASSUME NEW ch \in Channels, Post(ch, Failure(t[2])) PROVE TypeInv'
  BY <1>1, <1>2, <1>3, FailureType, WriteKeepsTypes
<1>4. CASE UNCHANGED log
  BY <1>1, <1>2, <1>4, LocalKeepsTypes
<1> QED  BY <1>3, <1>4, DepositCases DEF Channels

\* A step that waits for the kernel and gets no more to do.
LetGo(t) == KernelLost(t) \/ NothingToWrite(t)

LEMMA LetGoCases ==
    ASSUME NEW t, LetGo(t)
    PROVE  /\ task[t].pc = "verdict"
           /\ UNCHANGED <<log, rpc, result, handled, crashes>>
           /\ \/ ~ Alive(Kernel) /\ Step(t, Raised(task[t]))
              \/ task[t].plan = {} /\ Step(t, Done)
BY DEF LetGo, KernelLost, NothingToWrite

LEMMA LetGoTypes == ASSUME TypeInv, NEW t \in Tasks, LetGo(t) PROVE TypeInv'
<1>1. ASSUME NEW state \in {Raised(task[t]), Done}, Step(t, state) PROVE TypeInv'
  <2>1. state \in TaskState /\ WellPlaced(log, t[2], state)
    BY FixedStep, TaskTypes, RaisedType, RaisedPlaced
  <2> QED  BY <1>1, <2>1, LetGoCases, LocalKeepsTypes
<1> QED  BY <1>1, LetGoCases

(***************************************************************************)
(* The buyer.                                                              *)
(***************************************************************************)
LEMMA BuyerReadTypes ==
    ASSUME TypeInv, NEW t \in Tasks,
           BuyerReadDeals(t) \/ BuyerReadRisks(t) \/ BuyerReadScores(t)
    PROVE  TypeInv'
<1>1. /\ t[2] = Buyer /\ UNCHANGED <<log, rpc, result, handled, crashes>>
  BY DEF BuyerReadDeals, BuyerReadRisks, BuyerReadScores
<1>2. /\ t[2] \in Actors /\ task[t] \in TaskState /\ WellPlaced(log, t[2], task[t])
      /\ Len(log["deal"]) \in Nat /\ Len(log["risk"]) \in Nat /\ Len(log["score"]) \in Nat
      /\ "risks" \in PCs /\ "scores" \in PCs /\ "reason" \in PCs
  BY TaskTypes DEF Channels, PCs
<1>3. CASE BuyerReadDeals(t)
  <2> DEFINE next == [task[t] EXCEPT !.pc = "risks", !.seen = Len(log["deal"])]
  <2>1. Step(t, next)
    BY <1>3 DEF BuyerReadDeals
  <2>2. next \in TaskState
    BY <1>2, MovedType
  <2>3. next.seen = Len(log["deal"]) /\ next.risks = task[t].risks /\ next.scores = task[t].scores
    BY <1>2 DEF TaskState
  <2> HIDE DEF next
  <2>4. WellPlaced(log, t[2], next)
    BY <1>1, <1>2, <2>3, Kinds DEF WellPlaced
  <2> QED  BY <1>1, <2>1, <2>2, <2>4, LocalKeepsTypes
<1>4. CASE BuyerReadRisks(t)
  <2> DEFINE next == [task[t] EXCEPT !.pc = "scores", !.risks = Len(log["risk"])]
  <2>1. Step(t, next)
    BY <1>4 DEF BuyerReadRisks
  <2>2. next \in TaskState
    BY <1>2, MovedType
  <2>3. next.seen = task[t].seen /\ next.risks = Len(log["risk"]) /\ next.scores = task[t].scores
    BY <1>2 DEF TaskState
  <2> HIDE DEF next
  <2>4. WellPlaced(log, t[2], next)
    BY <1>1, <1>2, <2>3, Kinds DEF WellPlaced
  <2> QED  BY <1>1, <2>1, <2>2, <2>4, LocalKeepsTypes
<1>5. CASE BuyerReadScores(t)
  <2> DEFINE next == [task[t] EXCEPT !.pc = "reason", !.scores = Len(log["score"])]
  <2>1. Step(t, next)
    BY <1>5 DEF BuyerReadScores
  <2>2. next \in TaskState
    BY <1>2, MovedType
  <2>3. next.seen = task[t].seen /\ next.risks = task[t].risks /\ next.scores = Len(log["score"])
    BY <1>2 DEF TaskState
  <2> HIDE DEF next
  <2>4. WellPlaced(log, t[2], next)
    BY <1>1, <1>2, <2>3, Kinds DEF WellPlaced
  <2> QED  BY <1>1, <2>1, <2>2, <2>4, LocalKeepsTypes
<1> QED  BY <1>3, <1>4, <1>5

\* What the buyer holds of a channel is on that channel.
LEMMA InHandProperties ==
    ASSUME TypeInv, NEW ch \in Channels, NEW top \in Nat, top <= Len(log[ch]),
           NEW type, NEW c, NEW s
    PROVE  /\ InHand(ch, top, type, c, s) \in SUBSET (1 .. top)
           /\ InHand(ch, top, type, c, s) # {} =>
                 LET i == Oldest(InHand(ch, top, type, c, s)) IN
                 /\ i \in 1 .. Len(log[ch]) /\ i \in Nat
                 /\ log[ch][i].type = type /\ log[ch][i].corr = c /\ log[ch][i].sup = s
<1> DEFINE S == InHand(ch, top, type, c, s)
<1>1. S \in SUBSET (1 .. top)
  BY WindowProperties, BoundsAssumption DEF InHand
<1>2. ASSUME S # {} PROVE Oldest(S) \in S
  <2>1. S \in SUBSET Nat
    BY <1>1
  <2> HIDE DEF S
  <2> QED  BY <1>2, <2>1, OldestProperties
<1>3. \A i \in S : log[ch][i].type = type /\ log[ch][i].corr = c /\ log[ch][i].sup = s
  BY DEF InHand
<1>4. Len(log[ch]) \in Nat
  BY ReadTrace DEF TypeInv
<1> HIDE DEF S
<1>5. S # {} => LET i == Oldest(S) IN
                 /\ i \in 1 .. Len(log[ch]) /\ i \in Nat
                 /\ log[ch][i].type = type /\ log[ch][i].corr = c /\ log[ch][i].sup = s
  <2> SUFFICES ASSUME S # {}
               PROVE  /\ Oldest(S) \in 1 .. Len(log[ch]) /\ Oldest(S) \in Nat
                      /\ log[ch][Oldest(S)].type = type /\ log[ch][Oldest(S)].corr = c
                      /\ log[ch][Oldest(S)].sup = s
    OBVIOUS
  <2>1. Oldest(S) \in S
    BY <1>2
  <2>a. Oldest(S) \in 1 .. top
    BY <1>1, <2>1
  <2>2. Oldest(S) \in 1 .. Len(log[ch]) /\ Oldest(S) \in Nat
    <3> DEFINE i == Oldest(S)
               n == Len(log[ch])
    <3> HIDE DEF i, n
    <3>1. i \in 1 .. top /\ n \in Nat /\ top <= n
      BY <1>4, <2>a DEF i, n
    <3>2. i \in 1 .. n /\ i \in Nat
      BY <3>1
    <3> QED  BY <3>2 DEF i, n
  <2> QED  BY <1>3, <2>1, <2>2
<1> QED  BY <1>1, <1>5 DEF S

\* What a buyer's step holds of one supplier of one correlation id.
LEMMA BuyerHoldings ==
    ASSUME TypeInv, NEW t \in Tasks, t[2] = Buyer, NEW c, NEW s
    PROVE  /\ Deals(task[t], c, s) # {} => <<"deal", Oldest(Deals(task[t], c, s))>> \in TraceIds
           /\ Scores(task[t], c, s) # {} =>
                  <<"score", Oldest(Scores(task[t], c, s))>> \in TraceIds
           /\ Risks(task[t], c, s) # {} => <<"risk", Oldest(Risks(task[t], c, s))>> \in TraceIds
<1>1. /\ task[t].seen \in Nat /\ task[t].seen <= Len(log["deal"])
      /\ task[t].risks \in Nat /\ task[t].risks <= Len(log["risk"])
      /\ task[t].scores \in Nat /\ task[t].scores <= Len(log["score"])
      /\ "deal" \in Channels /\ "risk" \in Channels /\ "score" \in Channels
  BY TaskTypes DEF TaskState, WellPlaced, Channels
<1>2. Deals(task[t], c, s) # {} => Oldest(Deals(task[t], c, s)) \in Nat
  BY <1>1, InHandProperties DEF Deals
<1>3. Scores(task[t], c, s) # {} => Oldest(Scores(task[t], c, s)) \in Nat
  BY <1>1, InHandProperties DEF Scores
<1>4. Risks(task[t], c, s) # {} => Oldest(Risks(task[t], c, s)) \in Nat
  BY <1>1, InHandProperties DEF Risks
<1> QED  BY <1>1, <1>2, <1>3, <1>4 DEF TraceIds

LEMMA DecisionType ==
    ASSUME TypeInv, NEW t \in Tasks, t[2] = Buyer,
           NEW winner \in [Awardable(task[t]) -> Suppliers], NEW c \in Open(task[t])
    PROVE  Decision(task[t], c, winner) \in Proposal /\ c \in Corrs \cup {NoCorr}
<1> DEFINE ranked == Candidates(task[t], c)
           awarded == c \in Awardable(task[t])
           deals == {<<"deal", Oldest(Deals(task[t], c, s))>> : s \in ranked}
           scores == {<<"score", Oldest(Scores(task[t], c, s))>> : s \in ranked}
           risks == {<<"risk", Oldest(Risks(task[t], c, s))>> :
                        s \in {x \in ranked : Risks(task[t], c, x) # {}}}
           dealt == {i \in Window(task[t].seen, BuyerLimit) : log["deal"][i].corr = c}
           src == Newest(dealt)
           type == IF awarded THEN "award" ELSE IF ranked = {} THEN "insufficient_candidates"
                                                ELSE "policy_rejection"
           sup == IF awarded THEN winner[c] ELSE NoSupplier
           parents == IF awarded THEN deals \cup scores \cup risks ELSE {}
<1>1. /\ task[t].seen \in Nat /\ task[t].seen <= Len(log["deal"])
      /\ Len(log["deal"]) \in Nat /\ "deal" \in Channels
  BY TaskTypes DEF TaskState, WellPlaced, Channels
<1>2. dealt \in SUBSET (1 .. task[t].seen) /\ dealt # {}
  <2>1. dealt \in SUBSET (1 .. task[t].seen)
    BY <1>1, WindowProperties, BoundsAssumption
  <2>2. dealt # {}
    BY DEF Open, DealtCorrs
  <2> QED  BY <2>1, <2>2
<1>3. src \in 1 .. task[t].seen
  <2> HIDE DEF dealt
  <2> QED  BY <1>1, <1>2, NewestProperties
<1>4. src \in Nat
  BY <1>1, <1>3
<1>5. c \in Corrs \cup {NoCorr}
  <2>1. PICK i \in dealt : TRUE
    BY <1>2
  <2>2. i \in 1 .. Len(log["deal"]) /\ log["deal"][i].corr = c
    BY <1>1, <1>2, <2>1
  <2>3. log["deal"][i] \in Trace
    BY <1>1, <2>2, ReadTrace DEF TypeInv
  <2> QED  BY <2>2, <2>3 DEF Trace
<1>6. sup \in Suppliers \cup {NoSupplier}
  BY DEF Awardable
<1>7. deals \subseteq TraceIds
  BY BuyerHoldings DEF Candidates
<1>8. scores \subseteq TraceIds
  BY BuyerHoldings DEF Candidates
<1>9. risks \subseteq TraceIds
  BY BuyerHoldings
<1>10. parents \in SUBSET TraceIds
  <2> HIDE DEF deals, scores, risks, awarded
  <2> QED  BY <1>7, <1>8, <1>9
<1>11. type \in TraceTypes
  BY DEF TraceTypes
<1>12. Decision(task[t], c, winner) =
          [src |-> src, post |-> [by |-> "buyer", corr |-> c, sized |-> FALSE,
                                  type |-> type, sup |-> sup, parents |-> parents]]
  BY DEF Decision
<1> HIDE DEF src, type, sup, parents
<1>13. [by |-> "buyer", corr |-> c, sized |-> FALSE, type |-> type, sup |-> sup,
        parents |-> parents] \in Trace
  BY <1>5, <1>6, <1>10, <1>11 DEF Trace, Archetypes
<1> QED  BY <1>4, <1>5, <1>12, <1>13 DEF Proposal

LEMMA BuyerReasonTypes == ASSUME TypeInv, NEW t \in Tasks, BuyerReason(t) PROVE TypeInv'
<1> DEFINE plan(winner) == {Decision(task[t], c, winner) : c \in Open(task[t])}
           marks == handled[t[2]] \cup {<<c, NoSupplier>> : c \in Awardable(task[t])}
<1>1. PICK winner \in [Awardable(task[t]) -> Suppliers] :
          Step(t, Reasoned(task[t], plan(winner)))
  BY DEF BuyerReason
<1>2. /\ t[2] = Buyer /\ handled' = [handled EXCEPT ![t[2]] = marks]
      /\ UNCHANGED <<log, rpc, result, crashes>>
  BY DEF BuyerReason
<1>3. plan(winner) \in SUBSET Proposal
  BY <1>2, DecisionType
<1>4. marks \in SUBSET ((Corrs \cup {NoCorr}) \X (Suppliers \cup {NoSupplier}))
  <2>1. \A c \in Awardable(task[t]) : c \in Corrs \cup {NoCorr}
    BY <1>1, <1>2, DecisionType DEF Awardable
  <2> QED  BY <2>1, TaskTypes DEF TypeInv, TypeOK
<1> DEFINE next == Reasoned(task[t], plan(winner))
<1>5. next \in TaskState /\ WellPlaced(log, t[2], next)
  BY <1>3, TaskTypes, ReasonedType, ReasonedPlaced
<1> HIDE DEF plan, marks
<1> QED  BY <1>1, <1>2, <1>4, <1>5, MarkKeepsTypes

(***************************************************************************)
(* Calls of run_procurement, and processes that die.                       *)
(***************************************************************************)
LEMMA TasksReplaced ==
    ASSUME TypeInv, NEW new,
           \A t \in Tasks : new[t] \in {task[t], Failed, [Idle EXCEPT !.pc = "perceive"]}
                            \/ \E n \in Nat : new[t] = [Idle EXCEPT !.pc = "perceive", !.tries = n],
           task' = [t \in Tasks |-> new[t]],
           log' \in Boards, Grows(log, log')
    PROVE  /\ task' \in [Tasks -> TaskState]
           /\ \A t \in Tasks : WellPlaced(log', t[2], task'[t])
<1>1. ASSUME NEW t \in Tasks PROVE new[t] \in TaskState /\ WellPlaced(log, t[2], new[t])
  <2>1. CASE new[t] = task[t]
    BY <2>1, TaskTypes
  <2>2. CASE new[t] = Failed \/ new[t] = [Idle EXCEPT !.pc = "perceive"]
    BY <2>2, FixedStep
  <2>3. ASSUME NEW n \in Nat, new[t] = [Idle EXCEPT !.pc = "perceive", !.tries = n]
        PROVE  new[t] \in TaskState /\ WellPlaced(log, t[2], new[t])
    <3> DEFINE retry == [Idle EXCEPT !.pc = "perceive", !.tries = n]
    <3>1. retry \in TaskState
      BY DEF Idle, TaskState, PCs
    <3>2. /\ retry.seen = 0 /\ retry.stage = 0 /\ retry.risks = 0 /\ retry.scores = 0
          /\ retry.pc \notin {"pool", "size", "mark"}
      BY DEF Idle
    <3>3. t[2] \in Actors /\ log \in Boards
      BY TaskTypes
    <3> HIDE DEF retry
    <3>4. WellPlaced(log, t[2], retry)
      BY <3>1, <3>2, <3>3, FixedPlaced
    <3> QED  BY <2>3, <3>1, <3>4 DEF retry
  <2> QED  BY <2>1, <2>2, <2>3
<1>2. ASSUME NEW t \in Tasks PROVE WellPlaced(log', t[2], new[t])
  BY <1>1, TaskTypes, PlacedStays
<1> QED  BY <1>1, <1>2

LEMMA LaunchTypes ==
    ASSUME TypeInv, NEW r \in Runs, NEW actors, Launch(r, actors),
           log' \in Boards, Grows(log, log')
    PROVE  /\ task' \in [Tasks -> TaskState]
           /\ \A t \in Tasks : WellPlaced(log', t[2], task'[t])
<1> DEFINE new == [t \in Tasks |->
                     IF t[1] = r /\ t[2] \in actors
                     THEN IF Alive(t[2]) THEN [Idle EXCEPT !.pc = "perceive"] ELSE Failed
                     ELSE task[t]]
<1>1. \A t \in Tasks : new[t] \in {task[t], Failed, [Idle EXCEPT !.pc = "perceive"]}
  OBVIOUS
<1>2. task' = [t \in Tasks |-> new[t]]
  BY DEF Launch
<1> HIDE DEF new
<1> QED  BY <1>1, <1>2, TasksReplaced

LEMMA SubmitTypes == ASSUME TypeInv, NEW r \in Runs, Submit(r) PROVE TypeInv'
<1> DEFINE trace == [by |-> "kernel", type |-> "requirement", corr |-> CorrOf[r],
                     sup |-> NoSupplier, parents |-> {}, sized |-> FALSE]
<1>1. /\ Post("requirement", trace) /\ Launch(r, Scouts)
      /\ rpc' = [rpc EXCEPT ![r] = "scouts"] /\ UNCHANGED <<result, handled, crashes>>
  BY DEF Submit
<1>2. "requirement" \in Channels /\ trace \in Trace
  BY RunsAssumption DEF Channels, Trace, Archetypes, TraceTypes
<1> HIDE DEF trace
<1>3. log' \in Boards /\ Grows(log, log')
  BY <1>1, <1>2, PostEffect DEF TypeInv
<1>4. /\ task' \in [Tasks -> TaskState] /\ \A t \in Tasks : WellPlaced(log', t[2], task'[t])
  BY <1>1, <1>3, LaunchTypes
<1> QED  BY <1>1, <1>3, <1>4 DEF TypeInv, TypeOK, Boards

LEMMA GatheredTypes ==
    ASSUME TypeInv, NEW r \in Runs, NEW phase, NEW actors, NEW next, NEW nextActors,
           next \in {"evaluators", "negotiators", "buyer"},
           Gathered(r, phase, actors, next, nextActors)
    PROVE  TypeInv'
<1>1. /\ Launch(r, nextActors) /\ rpc' = [rpc EXCEPT ![r] = next]
      /\ UNCHANGED <<log, result, handled, crashes>>
  BY DEF Gathered
<1>2. log' \in Boards /\ Grows(log, log')
  BY <1>1 DEF TypeInv, TypeOK, Boards, Grows
<1>3. /\ task' \in [Tasks -> TaskState] /\ \A t \in Tasks : WellPlaced(log', t[2], task'[t])
  BY <1>1, <1>2, LaunchTypes
<1> QED  BY <1>1, <1>2, <1>3 DEF TypeInv, TypeOK, Boards

LEMMA RunStepTypes == ASSUME TypeInv, NEW r \in Runs, RunStep(r) PROVE TypeInv'
<1>1. CASE GatherScouts(r)
  BY <1>1, GatheredTypes DEF GatherScouts
<1>2. CASE GatherEvaluators(r)
  BY <1>2, GatheredTypes DEF GatherEvaluators
<1>3. CASE GatherNegotiators(r)
  BY <1>3, GatheredTypes DEF GatherNegotiators
<1>4. CASE BuyerReturned(r)
  BY <1>4 DEF BuyerReturned, TypeInv, TypeOK
<1>5. CASE ReadDecision(r)
  <2> DEFINE own == {i \in Window(Len(log["decision"]), DecisionLimit) :
                         log["decision"][i].corr = CorrOf[r]}
             found == IF own = {} THEN 0 ELSE Newest(own)
  <2>1. Len(log["decision"]) \in Nat
    BY ReadTrace DEF TypeInv, Channels
  <2>2. own \in SUBSET (1 .. Len(log["decision"]))
    BY <2>1, WindowProperties, BoundsAssumption
  <2>3. /\ result' = [result EXCEPT ![r] = found] /\ rpc' = [rpc EXCEPT ![r] = "done"]
        /\ UNCHANGED <<log, handled, crashes, task>>
    BY <1>5 DEF ReadDecision
  <2>4. found \in Nat
    <3> HIDE DEF own
    <3>1. own # {} => Newest(own) \in 1 .. Len(log["decision"])
      BY <2>1, <2>2, NewestProperties
    <3> QED  BY <2>1, <3>1
  <2> HIDE DEF found
  <2> QED  BY <2>3, <2>4 DEF TypeInv, TypeOK
<1> QED  BY <1>1, <1>2, <1>3, <1>4, <1>5 DEF RunStep

LEMMA CrashTypes == ASSUME TypeInv, NEW a \in Fallible, Crash(a) PROVE TypeInv'
<1> DEFINE restarted == crashes[a] < RestartsOf(a)
           new == [t \in Tasks |->
                     IF t[2] = a /\ InFlight(t)
                     THEN IF restarted /\ task[t].tries < RetriesOf(a)
                          THEN [Idle EXCEPT !.pc = "perceive", !.tries = task[t].tries + 1]
                          ELSE Failed
                     ELSE task[t]]
<1>1. /\ crashes' = [crashes EXCEPT ![a] = @ + 1]
      /\ handled' = [b \in Actors |-> IF b = a /\ restarted THEN {} ELSE handled[b]]
      /\ task' = [t \in Tasks |-> new[t]]
      /\ UNCHANGED <<log, rpc, result>>
  BY DEF Crash
<1>2. \A t \in Tasks : task[t].tries \in Nat
  BY TaskTypes DEF TaskState
<1>3. \A t \in Tasks : new[t] \in {task[t], Failed, [Idle EXCEPT !.pc = "perceive"]}
                       \/ \E n \in Nat : new[t] = [Idle EXCEPT !.pc = "perceive", !.tries = n]
  <2> SUFFICES ASSUME NEW t \in Tasks
               PROVE  \/ new[t] \in {task[t], Failed}
                      \/ \E n \in Nat : new[t] = [Idle EXCEPT !.pc = "perceive", !.tries = n]
    OBVIOUS
  <2>1. CASE (t[2] = a /\ InFlight(t)) /\ (restarted /\ task[t].tries < RetriesOf(a))
    <3>1. task[t].tries + 1 \in Nat
      BY <1>2
    <3>2. new[t] = [Idle EXCEPT !.pc = "perceive", !.tries = task[t].tries + 1]
      BY <2>1
    <3> HIDE DEF new
    <3> QED  BY <3>1, <3>2
  <2>2. CASE ~ ((t[2] = a /\ InFlight(t)) /\ (restarted /\ task[t].tries < RetriesOf(a)))
    BY <2>2
  <2> QED  BY <2>1, <2>2
<1> HIDE DEF new
<1>a. UNCHANGED log
  BY <1>1
<1>4. log' \in Boards /\ Grows(log, log')
  BY <1>a DEF TypeInv, TypeOK, Boards, Grows
<1>5. /\ task' \in [Tasks -> TaskState] /\ \A t \in Tasks : WellPlaced(log', t[2], task'[t])
  BY <1>1, <1>3, <1>4, TasksReplaced
<1>6. handled' \in [Actors -> SUBSET ((Corrs \cup {NoCorr}) \X (Suppliers \cup {NoSupplier}))]
  BY <1>1, ActorsAssumption DEF TypeInv, TypeOK
<1>7. crashes' \in [Processes -> Nat]
  BY <1>1, ActorsAssumption DEF TypeInv, TypeOK
<1> QED  BY <1>1, <1>4, <1>5, <1>6, <1>7 DEF TypeInv, TypeOK, Boards

LEMMA TaskStepTypes == ASSUME TypeInv, NEW t \in Tasks, TaskStep(t) PROVE TypeInv'
<1>1. CASE ScoutStep(t)
  BY <1>1, PerceiveTypes, ScoutReasonTypes, ScoutPostListTypes, ScoutPostSupplierTypes
     DEF ScoutStep, ScoutPerceive, Channels
<1>2. CASE EvaluatorStep(t)
  BY <1>2, PerceiveTypes, EvaluatorScanTypes, EvaluatorReadPoolTypes,
     EvaluatorReadRequirementTypes, EvaluatorMarkTypes, EvaluatorPostScoreTypes,
     EvaluatorPostRiskTypes
     DEF EvaluatorStep, EvaluatorPerceive, Channels
<1>3. CASE NegotiatorStep(t)
  BY <1>3, PerceiveTypes, NegotiatorScanTypes, NegotiatorReadPoolTypes,
     NegotiatorMarkTypes, NegotiatorPostQuoteTypes
     DEF NegotiatorStep, NegotiatorPerceive, Channels
<1>4. CASE BuyerStep(t)
  BY <1>4, BuyerReadTypes, BuyerReasonTypes, BuyerPostDecisionTypes DEF BuyerStep
<1>5. CASE LetGo(t) \/ DepositFailure(t)
  BY <1>5, LetGoTypes, DepositFailureTypes
<1> QED  BY <1>1, <1>2, <1>3, <1>4, <1>5 DEF TaskStep, LetGo

LEMMA InitTypes == ASSUME Init PROVE TypeInv
<1>1. log = [ch \in Channels |-> <<>>] /\ task = [t \in Tasks |-> Idle]
  BY DEF Init
<1>2. log \in Boards
  BY <1>1 DEF Boards
<1>3. TypeOK
  BY <1>2, FixedStates DEF Init, TypeOK, Boards
<1>4. /\ Idle \in TaskState /\ Idle.seen = 0 /\ Idle.stage = 0 /\ Idle.risks = 0
      /\ Idle.scores = 0 /\ Idle.pc \notin {"pool", "size", "mark"}
  BY FixedStates DEF Idle
<1>5. ASSUME NEW t \in Tasks PROVE WellPlaced(log, t[2], task[t])
  <2>1. t[2] \in Actors /\ task[t] = Idle
    BY <1>1 DEF Tasks
  <2> QED  BY <1>2, <1>4, <2>1, FixedPlaced
<1> QED  BY <1>3, <1>5 DEF TypeInv

LEMMA NextTypes == TypeInv /\ [Next]_vars => TypeInv'
<1> SUFFICES ASSUME TypeInv, [Next]_vars PROVE TypeInv'
  OBVIOUS
<1>1. ASSUME NEW r \in Runs, Submit(r) PROVE TypeInv'
  BY <1>1, SubmitTypes
<1>2. ASSUME NEW r \in Runs, RunStep(r) PROVE TypeInv'
  BY <1>2, RunStepTypes
<1>3. ASSUME NEW t \in Tasks, TaskStep(t) PROVE TypeInv'
  BY <1>3, TaskStepTypes
<1>4. ASSUME NEW a \in Fallible, Crash(a) PROVE TypeInv'
  BY <1>4, CrashTypes
<1>5. CASE UNCHANGED vars
  BY <1>5 DEF vars, TypeInv, TypeOK, WellPlaced
<1> QED  BY <1>1, <1>2, <1>3, <1>4, <1>5 DEF Next

\* Positions kept across suspensions stay inside the channels they point into,
\* however long the steps of other runs keep writing, and every attribute keeps
\* its type: for any number of runs, actors and suppliers, any policy and any
\* read limits.
THEOREM TypeCorrect == Spec => []TypeOK
<1>1. Init => TypeInv
  BY InitTypes
<1>2. TypeInv /\ [Next]_vars => TypeInv'
  BY NextTypes
<1>3. TypeInv => TypeOK
  BY DEF TypeInv
<1> QED  BY <1>1, <1>2, <1>3, PTL DEF Spec
-----------------------------------------------------------------------------
(***************************************************************************)
(* No correlation id is awarded twice, for every set of runs and actors,   *)
(* every policy and any number of restarts of the pools.                   *)
(***************************************************************************)
Award(p) == p.post.type = "award"

\* A step that writes no decision, keeps the buyer's marks and gives no buyer's
\* step a proposal it did not have.
LEMMA FramedOnce ==
    ASSUME OnceInv, TypeInv',
           log'["decision"] = log["decision"], handled[Buyer] \subseteq handled'[Buyer],
           \A t \in Tasks : t[2] = Buyer => task'[t].plan \subseteq task[t].plan
    PROVE  OnceInv'
<1>1. AwardedOnce'
  BY DEF OnceInv, AwardedOnce, Decisions
<1>2. (\A i \in DOMAIN log["decision"] : Awarded(i) => Marked(log["decision"][i].corr))'
  BY DEF OnceInv, Awarded, Marked
<1>3. (\A t \in Tasks : \A p \in task[t].plan : AwardPlanned(t, p) =>
          /\ Marked(p.post.corr)
          /\ \A i \in DOMAIN log["decision"] :
                Awarded(i) => log["decision"][i].corr # p.post.corr
          /\ \A u \in Tasks : \A q \in task[u].plan :
                AwardPlanned(u, q) /\ p.post.corr = q.post.corr => t = u /\ p = q)'
  BY DEF OnceInv, AwardPlanned, Marked, Awarded
<1> QED  BY <1>1, <1>2, <1>3 DEF OnceInv

\* A step of an actor that is not the buyer.
LEMMA OthersOnce ==
    ASSUME OnceInv, TypeInv', NEW t \in Tasks, t[2] # Buyer,
           \A u \in Tasks : u # t => task'[u] = task[u],
           log'["decision"] = log["decision"],
           handled'[Buyer] = handled[Buyer]
    PROVE  OnceInv'
BY FramedOnce

\* What Post and Step leave alone.
LEMMA PostElsewhere ==
    ASSUME TypeOK, NEW ch, ch # "decision", NEW trace, Post(ch, trace)
    PROVE  log'["decision"] = log["decision"]
BY DEF Post, TypeOK, Channels

LEMMA StepElsewhere ==
    ASSUME TypeOK, NEW t, NEW state, Step(t, state)
    PROVE  \A u \in Tasks : u # t => task'[u] = task[u]
BY DEF Step, TypeOK

LEMMA MarkElsewhere ==
    ASSUME TypeOK, NEW t \in Tasks, t[2] # Buyer, NEW marks,
           handled' = [handled EXCEPT ![t[2]] = marks]
    PROVE  handled'[Buyer] = handled[Buyer]
BY DEF TypeOK, Actors

LEMMA ScoutOnce ==
    ASSUME OnceInv, TypeInv', NEW t \in Tasks, ScoutStep(t) PROVE OnceInv'
<1>1. TypeOK /\ t[2] \in Actors
  BY DEF OnceInv, TypeInv, Tasks
<1>2. CASE ScoutPerceive(t)
  BY <1>1, <1>2, Kinds, StepElsewhere, OthersOnce DEF ScoutPerceive, Perceive
<1>3. CASE ScoutReason(t)
  BY <1>1, <1>3, Kinds, StepElsewhere, MarkElsewhere, OthersOnce DEF ScoutReason
<1>4. CASE ScoutPostList(t)
  BY <1>1, <1>4, Kinds, StepElsewhere, PostElsewhere, OthersOnce DEF ScoutPostList
<1>5. CASE ScoutPostSupplier(t)
  BY <1>1, <1>5, Kinds, StepElsewhere, PostElsewhere, OthersOnce DEF ScoutPostSupplier
<1> QED  BY <1>2, <1>3, <1>4, <1>5 DEF ScoutStep

LEMMA ScanOnce ==
    ASSUME OnceInv, TypeInv', NEW t \in Tasks, EvaluatorScan(t) \/ NegotiatorScan(t)
    PROVE  OnceInv'
<1>1. TypeOK /\ t[2] \in Actors
  BY DEF OnceInv, TypeInv, Tasks
<1>2. t[2] # Buyer
  BY <1>1, Kinds DEF EvaluatorScan, NegotiatorScan
<1>3. UNCHANGED <<log, handled>> /\ \E state : Step(t, state)
  BY DEF EvaluatorScan, NegotiatorScan, NextTrace
<1> QED  BY <1>1, <1>2, <1>3, StepElsewhere, OthersOnce

LEMMA EvaluatorOnce ==
    ASSUME OnceInv, TypeInv', NEW t \in Tasks, EvaluatorStep(t) PROVE OnceInv'
<1>1. TypeOK /\ t[2] \in Actors
  BY DEF OnceInv, TypeInv, Tasks
<1>2. CASE EvaluatorPerceive(t)
  BY <1>1, <1>2, Kinds, StepElsewhere, OthersOnce DEF EvaluatorPerceive, Perceive
<1>3. CASE EvaluatorScan(t)
  BY <1>3, ScanOnce
<1>4. CASE EvaluatorReadPool(t)
  BY <1>1, <1>4, Kinds, StepElsewhere, OthersOnce DEF EvaluatorReadPool
<1>5. CASE EvaluatorReadRequirement(t)
  BY <1>1, <1>5, Kinds, StepElsewhere, OthersOnce DEF EvaluatorReadRequirement
<1>6. CASE EvaluatorMark(t)
  <2>1. t[2] # Buyer /\ UNCHANGED log
    BY <1>1, <1>6, Kinds DEF EvaluatorMark
  <2>2. \E state : Step(t, state)
    BY <1>6 DEF EvaluatorMark, NextTrace
  <2>3. UNCHANGED handled \/ \E marks : handled' = [handled EXCEPT ![t[2]] = marks]
    BY <1>6, Zenon DEF EvaluatorMark
  <2> QED  BY <1>1, <2>1, <2>2, <2>3, StepElsewhere, MarkElsewhere, OthersOnce
<1>7. CASE EvaluatorPostScore(t)
  BY <1>1, <1>7, Kinds, StepElsewhere, PostElsewhere, OthersOnce DEF EvaluatorPostScore
<1>8. CASE EvaluatorPostRisk(t)
  BY <1>1, <1>8, Kinds, StepElsewhere, PostElsewhere, OthersOnce DEF EvaluatorPostRisk
<1> QED  BY <1>2, <1>3, <1>4, <1>5, <1>6, <1>7, <1>8 DEF EvaluatorStep

LEMMA NegotiatorOnce ==
    ASSUME OnceInv, TypeInv', NEW t \in Tasks, NegotiatorStep(t) PROVE OnceInv'
<1>1. TypeOK /\ t[2] \in Actors
  BY DEF OnceInv, TypeInv, Tasks
<1>2. CASE NegotiatorPerceive(t)
  BY <1>1, <1>2, Kinds, StepElsewhere, OthersOnce DEF NegotiatorPerceive, Perceive
<1>3. CASE NegotiatorScan(t)
  BY <1>3, ScanOnce
<1>4. CASE NegotiatorReadPool(t)
  BY <1>1, <1>4, Kinds, StepElsewhere, OthersOnce DEF NegotiatorReadPool
<1>5. CASE NegotiatorMark(t)
  <2>1. t[2] # Buyer /\ UNCHANGED log
    BY <1>1, <1>5, Kinds DEF NegotiatorMark
  <2>2. \E state : Step(t, state)
    BY <1>5 DEF NegotiatorMark, NextTrace
  <2>3. \E marks : handled' = [handled EXCEPT ![t[2]] = marks]
    BY <1>5, Zenon DEF NegotiatorMark
  <2> QED  BY <1>1, <2>1, <2>2, <2>3, StepElsewhere, MarkElsewhere, OthersOnce
<1>6. CASE NegotiatorPostQuote(t)
  BY <1>1, <1>6, Kinds, StepElsewhere, PostElsewhere, OthersOnce DEF NegotiatorPostQuote
<1> QED  BY <1>2, <1>3, <1>4, <1>5, <1>6 DEF NegotiatorStep

LEMMA DepositFailureOnce ==
    ASSUME OnceInv, TypeInv', NEW t \in Tasks, DepositFailure(t) \/ LetGo(t) PROVE OnceInv'
<1>1. TypeOK /\ task[t] \in TaskState
  BY TaskTypes DEF OnceInv, TypeInv
<1>2. UNCHANGED handled /\ \E state \in {Raised(task[t]), Done} : Step(t, state)
  BY DepositCases, LetGoCases
<1>3. log'["decision"] = log["decision"]
  BY <1>1, DepositCases, LetGoCases, PostElsewhere
<1>4. task'[t] \in {Raised(task[t]), Done} /\ \A u \in Tasks : u # t => task'[u] = task[u]
  BY <1>1, <1>2, StepElsewhere DEF Step, TypeOK
<1>5. Done.plan = {} /\ Raised(task[t]).plan = {}
  BY DEF Done, Idle, Raised
<1> QED  BY <1>2, <1>3, <1>4, <1>5, FramedOnce

(***************************************************************************)
(* The buyer.                                                              *)
(***************************************************************************)
LEMMA BuyerReadsOnce ==
    ASSUME OnceInv, TypeInv', NEW t \in Tasks,
           BuyerReadDeals(t) \/ BuyerReadRisks(t) \/ BuyerReadScores(t)
    PROVE  OnceInv'
<1>1. TypeOK /\ task[t] \in TaskState
  BY TaskTypes DEF OnceInv, TypeInv
<1>2. UNCHANGED <<log, handled>>
  BY DEF BuyerReadDeals, BuyerReadRisks, BuyerReadScores
<1>3. task'[t].plan = task[t].plan
  <2> USE <1>1 DEF TaskState, Step, TypeOK
  <2>1. CASE BuyerReadDeals(t)
    BY <2>1 DEF BuyerReadDeals
  <2>2. CASE BuyerReadRisks(t)
    BY <2>2 DEF BuyerReadRisks
  <2>3. CASE BuyerReadScores(t)
    BY <2>3 DEF BuyerReadScores
  <2> QED  BY <2>1, <2>2, <2>3
<1>4. \A u \in Tasks : u # t => task'[u] = task[u]
  BY <1>1 DEF BuyerReadDeals, BuyerReadRisks, BuyerReadScores, Step, TypeOK
<1> QED  BY <1>2, <1>3, <1>4, FramedOnce

\* The decision on a correlation id is about that id, and an award only when
\* the id is marked by the same step.
LEMMA DecisionOnce ==
    ASSUME NEW state, NEW c, NEW winner
    PROVE  /\ Decision(state, c, winner).post.corr = c
           /\ Award(Decision(state, c, winner)) => c \in Awardable(state)
<1>1. Decision(state, c, winner).post.corr = c
  BY DEF Decision
<1>2. Decision(state, c, winner).post.type =
          IF c \in Awardable(state) THEN "award"
          ELSE IF Candidates(state, c) = {} THEN "insufficient_candidates"
          ELSE "policy_rejection"
  BY DEF Decision
<1> QED  BY <1>1, <1>2 DEF Award

LEMMA BuyerReasonOnce ==
    ASSUME OnceInv, TypeInv', NEW t \in Tasks, BuyerReason(t) PROVE OnceInv'
<1> DEFINE open == Open(task[t])
           awardable == Awardable(task[t])
           plan(winner) == {Decision(task[t], c, winner) : c \in open}
<1>1. TypeOK /\ t[2] = Buyer /\ Buyer \in Actors /\ task[t] \in TaskState /\ UNCHANGED log
  BY TaskTypes DEF OnceInv, TypeInv, BuyerReason, Actors
<1>2. PICK winner \in [awardable -> Suppliers] : Step(t, Reasoned(task[t], plan(winner)))
  BY DEF BuyerReason
<1>3. handled'[Buyer] = handled[Buyer] \cup {<<c, NoSupplier>> : c \in awardable}
  BY <1>1 DEF BuyerReason, TypeOK
<1>4. plan(winner) \in SUBSET Proposal
  BY <1>1, DecisionType DEF OnceInv
<1>5. task'[t].plan \subseteq plan(winner) /\ \A u \in Tasks : u # t => task'[u] = task[u]
  <2>1. Reasoned(task[t], plan(winner)) \in TaskState
    BY <1>1, <1>4, ReasonedType
  <2>2. Reasoned(task[t], plan(winner)).plan \subseteq plan(winner)
    BY <1>1, <1>4, ReasonedType
  <2> QED  BY <1>1, <1>2, <2>1, <2>2, StepType
<1>6. awardable \subseteq open /\ \A c \in open : ~Marked(c)
  BY DEF Awardable, Open, Marked
<1>7. \A c : (Marked(c) \/ c \in awardable) => Marked(c)'
  BY <1>3 DEF Marked
\* What is planned now was planned before, or is new and about an open id.
<1>8. ASSUME NEW u \in Tasks, NEW p \in task'[u].plan, AwardPlanned(u, p)'
      PROVE  \/ u # t /\ p \in task[u].plan /\ AwardPlanned(u, p)
             \/ u = t /\ p = Decision(task[t], p.post.corr, winner) /\ p.post.corr \in awardable
  <2>1. CASE u # t
    BY <1>5, <1>8, <2>1 DEF AwardPlanned
  <2>2. CASE u = t
    <3>1. PICK c \in open : p = Decision(task[t], c, winner)
      BY <1>5, <1>8, <2>2
    <3>2. p.post.corr = c /\ (Award(p) => c \in awardable)
      BY <3>1, DecisionOnce
    <3> QED  BY <1>8, <2>2, <3>1, <3>2 DEF AwardPlanned, Award
  <2> QED  BY <2>1, <2>2
<1> HIDE DEF open, awardable, plan
<1>9. AwardedOnce'
  BY <1>1 DEF OnceInv, AwardedOnce, Decisions
<1>10. (\A i \in DOMAIN log["decision"] : Awarded(i) => Marked(log["decision"][i].corr))'
  BY <1>1, <1>7 DEF OnceInv, Awarded
<1>11. ASSUME NEW u \in Tasks, NEW p \in task'[u].plan, AwardPlanned(u, p)'
       PROVE  /\ Marked(p.post.corr)'
              /\ \A i \in DOMAIN log["decision"] :
                    Awarded(i) => log["decision"][i].corr # p.post.corr
  BY <1>6, <1>7, <1>8, <1>11 DEF OnceInv
<1>12. ASSUME NEW u \in Tasks, NEW p \in task'[u].plan, AwardPlanned(u, p)',
              NEW v \in Tasks, NEW q \in task'[v].plan, AwardPlanned(v, q)',
              p.post.corr = q.post.corr
       PROVE  u = v /\ p = q
  <2>1. CASE u # t /\ v # t
    BY <1>8, <1>12, <2>1 DEF OnceInv
  <2>2. CASE u = t /\ v = t
    BY <1>8, <1>12, <2>2
  <2>3. CASE u = t /\ v # t
    BY <1>6, <1>8, <1>12, <2>3 DEF OnceInv
  <2>4. CASE u # t /\ v = t
    BY <1>6, <1>8, <1>12, <2>4 DEF OnceInv
  <2> QED  BY <2>1, <2>2, <2>3, <2>4
<1>13. \A i : Awarded(i)' <=> Awarded(i)
  BY <1>1 DEF Awarded
<1>14. (\A u \in Tasks : \A p \in task[u].plan : AwardPlanned(u, p) =>
           /\ Marked(p.post.corr)
           /\ \A i \in DOMAIN log["decision"] :
                 Awarded(i) => log["decision"][i].corr # p.post.corr
           /\ \A v \in Tasks : \A q \in task[v].plan :
                 AwardPlanned(v, q) /\ p.post.corr = q.post.corr => u = v /\ p = q)'
  BY <1>1, <1>11, <1>12, <1>13
<1> QED  BY <1>9, <1>10, <1>14 DEF OnceInv

LEMMA BuyerPostDecisionOnce ==
    ASSUME OnceInv, TypeInv', NEW t \in Tasks, BuyerPostDecision(t) PROVE OnceInv'
<1>1. TypeOK /\ t[2] = Buyer /\ task[t] \in TaskState /\ UNCHANGED handled
  BY TaskTypes DEF OnceInv, TypeInv, BuyerPostDecision
<1>2. PICK p \in task[t].plan : /\ Post("decision", p.post)
                                /\ Step(t, Acting(task[t], task[t].plan \ {p}))
  BY DEF BuyerPostDecision
<1> DEFINE old == log["decision"]
           new == log'["decision"]
           n == Len(old)
<1>3. /\ n \in Nat /\ DOMAIN old = 1 .. n /\ DOMAIN new = 1 .. (n + 1)
      /\ \A i \in 1 .. n : new[i] = old[i]
      /\ new[n + 1] = p.post
  <2>1. "decision" \in Channels /\ p.post \in Trace
    BY PostTypes DEF OnceInv, Channels
  <2>2. /\ Grows(log, log') /\ Len(new) = n + 1 /\ new[n + 1] = p.post
    BY <1>1, <1>2, <2>1, PostEffect
  <2>3. DOMAIN new = 1 .. Len(new)
    BY <2>1, ReadTrace DEF TypeInv, TypeOK
  <2> QED  BY <1>1, <2>1, <2>2, <2>3, ReadTrace DEF Grows
<1>4. task'[t].plan = task[t].plan \ {p} /\ \A u \in Tasks : u # t => task'[u] = task[u]
  <2>1. task[t].plan \ {p} \in SUBSET Proposal
    BY PostTypes DEF OnceInv
  <2> QED  BY <1>1, <1>2, <2>1, ActingType, StepType
<1>5. /\ \A u \in Tasks : task'[u].plan \subseteq task[u].plan
      /\ p \notin task'[t].plan
  BY <1>4
<1> HIDE DEF n
<1>6. \A c : Marked(c)' <=> Marked(c)
  BY <1>1 DEF Marked
<1>7. ASSUME NEW i \in DOMAIN new, Awarded(i)'
      PROVE  \/ i \in DOMAIN old /\ Awarded(i) /\ new[i] = old[i]
             \/ i = n + 1 /\ new[i] = p.post /\ AwardPlanned(t, p)
  <2>1. CASE i \in 1 .. n
    BY <1>3, <1>7, <2>1 DEF Awarded
  <2>2. CASE i = n + 1
    BY <1>1, <1>3, <1>7, <2>2 DEF Awarded, AwardPlanned
  <2> QED  BY <1>3, <2>1, <2>2
<1>8. AwardedOnce'
  <2> SUFFICES ASSUME NEW i \in DOMAIN new, NEW j \in DOMAIN new, Awarded(i)', Awarded(j)',
                      new[i].corr = new[j].corr
               PROVE  i = j
    BY DEF AwardedOnce, Decisions, Awarded
  <2>1. \A k \in DOMAIN old : AwardPlanned(t, p) /\ Awarded(k) => old[k].corr # p.post.corr
    BY DEF OnceInv
  <2>2. \A k, l \in DOMAIN old : Awarded(k) /\ Awarded(l) /\ old[k].corr = old[l].corr => k = l
    BY DEF OnceInv, AwardedOnce, Decisions, Awarded
  <2> HIDE DEF old, new
  <2> QED  BY <1>7, <2>1, <2>2
<1>9. (\A i \in DOMAIN log["decision"] : Awarded(i) => Marked(log["decision"][i].corr))'
  <2>1. ASSUME NEW i \in DOMAIN new, Awarded(i)' PROVE Marked(new[i].corr)
    <3>1. CASE i \in DOMAIN old /\ Awarded(i) /\ new[i] = old[i]
      BY <3>1 DEF OnceInv
    <3>2. CASE i = n + 1 /\ new[i] = p.post /\ AwardPlanned(t, p)
      BY <3>2 DEF OnceInv
    <3> QED  BY <1>7, <2>1, <3>1, <3>2
  <2> QED  BY <1>1, <2>1 DEF Marked
<1>10. ASSUME NEW u \in Tasks, NEW q \in task'[u].plan, AwardPlanned(u, q)'
       PROVE  /\ q \in task[u].plan /\ AwardPlanned(u, q)
              /\ Marked(q.post.corr)'
              /\ \A i \in DOMAIN new : Awarded(i)' => new[i].corr # q.post.corr
  <2>1. q \in task[u].plan /\ AwardPlanned(u, q)
    BY <1>5, <1>10 DEF AwardPlanned
  <2>2. Marked(q.post.corr)'
    BY <1>6, <2>1 DEF OnceInv
  <2>3. ASSUME NEW i \in DOMAIN new, Awarded(i)' PROVE new[i].corr # q.post.corr
    <3>1. CASE i \in DOMAIN old /\ Awarded(i) /\ new[i] = old[i]
      BY <2>1, <3>1 DEF OnceInv
    <3>2. CASE i = n + 1 /\ new[i] = p.post /\ AwardPlanned(t, p)
      <4>1. SUFFICES ASSUME p.post.corr = q.post.corr PROVE FALSE
        BY <3>2
      <4>2. t = u /\ p = q
        BY <2>1, <3>2, <4>1 DEF OnceInv
      <4> QED  BY <1>5, <1>10, <4>2
    <3> QED  BY <1>7, <2>3, <3>1, <3>2
  <2> QED  BY <2>1, <2>2, <2>3
<1>11. (\A u \in Tasks : \A q \in task[u].plan : AwardPlanned(u, q) =>
           /\ Marked(q.post.corr)
           /\ \A i \in DOMAIN log["decision"] :
                 Awarded(i) => log["decision"][i].corr # q.post.corr
           /\ \A v \in Tasks : \A x \in task[v].plan :
                 AwardPlanned(v, x) /\ q.post.corr = x.post.corr => u = v /\ q = x)'
  BY <1>10 DEF OnceInv
<1> QED  BY <1>8, <1>9, <1>11 DEF OnceInv

(***************************************************************************)
(* Calls of run_procurement, and processes that die.                       *)
(***************************************************************************)
LEMMA FreshSteps ==
    /\ Failed.plan = {} /\ [Idle EXCEPT !.pc = "perceive"].plan = {}
    /\ \A n : [Idle EXCEPT !.pc = "perceive", !.tries = n].plan = {}
BY DEF Failed, Idle

LEMMA LaunchOnce ==
    ASSUME NEW r, NEW actors, Launch(r, actors)
    PROVE  \A t \in Tasks : task'[t].plan \subseteq task[t].plan
BY FreshSteps DEF Launch

LEMMA SubmitOnce == ASSUME OnceInv, TypeInv', NEW r \in Runs, Submit(r) PROVE OnceInv'
<1>1. log'["decision"] = log["decision"] /\ UNCHANGED handled
  BY PostElsewhere DEF OnceInv, TypeInv, Submit
<1>2. \A t \in Tasks : task'[t].plan \subseteq task[t].plan
  BY LaunchOnce DEF Submit
<1> QED  BY <1>1, <1>2, FramedOnce

LEMMA RunStepOnce == ASSUME OnceInv, TypeInv', NEW r \in Runs, RunStep(r) PROVE OnceInv'
<1>1. CASE GatherScouts(r) \/ GatherEvaluators(r) \/ GatherNegotiators(r)
  <2>1. UNCHANGED <<log, handled>>
    BY <1>1 DEF GatherScouts, GatherEvaluators, GatherNegotiators, Gathered
  <2>2. \E actors : Launch(r, actors)
    BY <1>1 DEF GatherScouts, GatherEvaluators, GatherNegotiators, Gathered
  <2> QED  BY <2>1, <2>2, LaunchOnce, FramedOnce
<1>2. CASE BuyerReturned(r) \/ ReadDecision(r)
  <2>1. UNCHANGED <<log, handled, task>>
    BY <1>2 DEF BuyerReturned, ReadDecision
  <2> QED  BY <2>1, FramedOnce
<1> QED  BY <1>1, <1>2 DEF RunStep

\* The buyer is never restarted, so it never forgets a mark.
LEMMA CrashOnce == ASSUME OnceInv, TypeInv', NEW a \in Fallible, Crash(a) PROVE OnceInv'
<1>1. TypeOK /\ a \in Processes /\ Buyer \in Actors /\ UNCHANGED log
  BY ActorsAssumption DEF OnceInv, TypeInv, Crash, Actors
<1>2. handled[Buyer] \subseteq handled'[Buyer]
  <2>1. CASE a = Buyer
    <3>1. crashes[a] \in Nat /\ RestartsOf(a) = 0
      BY <1>1, <2>1 DEF TypeOK, RestartsOf
    <3>2. ~ (crashes[a] < RestartsOf(a))
      BY <3>1
    <3> QED  BY <1>1, <2>1, <3>2 DEF Crash
  <2>2. CASE a # Buyer
    BY <1>1, <2>2 DEF Crash
  <2> QED  BY <2>1, <2>2
<1>3. \A t \in Tasks : task'[t].plan \subseteq task[t].plan
  BY FreshSteps DEF Crash
<1> QED  BY <1>1, <1>2, <1>3, FramedOnce

LEMMA NextOnce == OnceInv /\ [Next]_vars => OnceInv'
<1> SUFFICES ASSUME OnceInv, [Next]_vars PROVE OnceInv'
  OBVIOUS
<1>1. TypeInv'
  BY NextTypes DEF OnceInv
<1>2. ASSUME NEW r \in Runs, Submit(r) \/ RunStep(r) PROVE OnceInv'
  BY <1>1, <1>2, SubmitOnce, RunStepOnce
<1>3. ASSUME NEW t \in Tasks, TaskStep(t) PROVE OnceInv'
  BY <1>1, <1>3, ScoutOnce, EvaluatorOnce, NegotiatorOnce, BuyerReadsOnce, BuyerReasonOnce,
     BuyerPostDecisionOnce, DepositFailureOnce DEF TaskStep, BuyerStep, LetGo
<1>4. ASSUME NEW a \in Fallible, Crash(a) PROVE OnceInv'
  BY <1>1, <1>4, CrashOnce
<1>5. CASE UNCHANGED vars
  BY <1>1, <1>5, FramedOnce DEF vars
<1> QED  BY <1>2, <1>3, <1>4, <1>5 DEF Next

\* However the steps of overlapping, repeated and resubmitted calls interleave,
\* and whatever processes of the pools die and are restarted, the DECISION
\* channel holds at most one award of a correlation id.
THEOREM NoDoubleAward == Spec => []AwardedOnce
<1>1. Init => OnceInv
  <2> SUFFICES ASSUME Init PROVE OnceInv
    OBVIOUS
  <2>1. TypeInv
    BY InitTypes
  <2>2. log["decision"] = <<>> /\ \A t \in Tasks : task[t].plan = {}
    BY DEF Init, Idle, Channels
  <2> QED  BY <2>1, <2>2 DEF OnceInv, AwardedOnce, Decisions, AwardPlanned
<1>2. OnceInv /\ [Next]_vars => OnceInv'
  BY NextOnce
<1>3. OnceInv => AwardedOnce
  BY DEF OnceInv
<1> QED  BY <1>1, <1>2, <1>3, PTL DEF Spec

(***************************************************************************)
(* What is said of a trace stays true while the channels grow.             *)
(***************************************************************************)
LEMMA Recorded ==
    ASSUME NEW board \in Boards, NEW later \in Boards, Grows(board, later),
           NEW ch \in Channels, NEW i, i \in 1 .. Len(board[ch])
    PROVE  i \in 1 .. Len(later[ch]) /\ later[ch][i] = board[ch][i]
<1>1. board[ch] \in Seq(Trace) /\ later[ch] \in Seq(Trace)
  BY DEF Boards
<1>2. Len(later[ch]) >= Len(board[ch]) /\ later[ch][i] = board[ch][i]
  BY DEF Grows
<1> QED  BY <1>1, <1>2

LEMMA DescendsStays ==
    ASSUME NEW board \in Boards, NEW later \in Boards, Grows(board, later),
           NEW trace \in Trace, Descends(board, trace)
    PROVE  Descends(later, trace)
<1>1. ASSUME NEW id \in trace.parents
      PROVE  /\ id[2] \in 1 .. Len(board[id[1]]) /\ id[2] \in 1 .. Len(later[id[1]])
             /\ later[id[1]][id[2]] = board[id[1]][id[2]]
  <2>1. id[1] \in Channels /\ id[2] \in 1 .. Len(board[id[1]])
    BY DEF Trace, TraceIds, Descends
  <2> QED  BY <2>1, Recorded
<1>2. {later[id[1]][id[2]].type : id \in trace.parents}
         = {board[id[1]][id[2]].type : id \in trace.parents}
  BY <1>1
<1>3. {later[id[1]][id[2]].type : id \in trace.parents} = ParentTypes[trace.type]
  BY <1>2 DEF Descends
<1>4. ASSUME NEW id \in trace.parents
      PROVE  /\ later[id[1]][id[2]].corr = trace.corr
             /\ later[id[1]][id[2]].sup \in {trace.sup, NoSupplier} \/ trace.type = "award"
  BY <1>1 DEF Descends
<1> HIDE DEF ParentTypes
<1> QED  BY <1>1, <1>3, <1>4 DEF Descends

LEMMA BackingStays ==
    ASSUME NEW board \in Boards, NEW later \in Boards, Grows(board, later),
           NEW award, NEW ch \in Channels, NEW id \in Backing(board, award, ch)
    PROVE  id \in Backing(later, award, ch) /\ later[ch][id[2]] = board[ch][id[2]]
<1>1. id[2] \in 1 .. Len(board[ch])
  BY DEF Backing
<1>2. id[2] \in 1 .. Len(later[ch]) /\ later[ch][id[2]] = board[ch][id[2]]
  BY <1>1, Recorded
<1> QED  BY <1>2 DEF Backing

LEMMA GroundedStays ==
    ASSUME NEW board \in Boards, NEW later \in Boards, Grows(board, later),
           NEW award, Grounded(board, award)
    PROVE  Grounded(later, award)
<1>1. "deal" \in Channels /\ "score" \in Channels /\ "risk" \in Channels
  BY DEF Channels
<1>2. Backing(later, award, "deal") # {} /\ Backing(later, award, "score") # {}
  BY <1>1, BackingStays DEF Grounded
<1>3. \E id \in Backing(later, award, "risk") : PolicyOk(award.sup, later["risk"][id[2]].sized)
  <2>1. PICK id \in Backing(board, award, "risk") :
            PolicyOk(award.sup, board["risk"][id[2]].sized)
    BY DEF Grounded
  <2>2. id \in Backing(later, award, "risk") /\ later["risk"][id[2]] = board["risk"][id[2]]
    BY <1>1, BackingStays
  <2> QED  BY <2>1, <2>2
<1> QED  BY <1>2, <1>3 DEF Grounded

LEMMA EvaluatedStays ==
    ASSUME NEW board \in Boards, NEW later \in Boards, Grows(board, later),
           NEW top \in Nat, top <= Len(board["score"]), NEW trace,
           Evaluated(board, top, trace)
    PROVE  Evaluated(later, top, trace)
<1>1. PICK i \in 1 .. top : /\ board["score"][i].type = "evaluation"
                            /\ Key(board["score"][i]) = Key(trace)
  BY DEF Evaluated
<1>2. "score" \in Channels /\ board["score"] \in Seq(Trace)
  BY DEF Channels, Boards
<1>3. i \in 1 .. Len(board["score"])
  BY <1>2
<1>4. later["score"][i] = board["score"][i]
  BY <1>2, <1>3, Recorded
<1> QED  BY <1>1, <1>4 DEF Evaluated

\* The same, of all of SCORE.
LEMMA AllEvaluatedStays ==
    ASSUME NEW board \in Boards, NEW later \in Boards, Grows(board, later), NEW trace,
           Evaluated(board, Len(board["score"]), trace)
    PROVE  Evaluated(later, Len(later["score"]), trace)
<1>1. "score" \in Channels
  BY DEF Channels
<1>2. PICK i \in 1 .. Len(board["score"]) : /\ board["score"][i].type = "evaluation"
                                            /\ Key(board["score"][i]) = Key(trace)
  BY DEF Evaluated
<1>3. i \in 1 .. Len(later["score"]) /\ later["score"][i] = board["score"][i]
  BY <1>1, Recorded
<1> QED  BY <1>2, <1>3 DEF Evaluated

LEMMA SoundStays ==
    ASSUME NEW board \in Boards, NEW later \in Boards, Grows(board, later),
           NEW ch, NEW trace \in Trace, Sound(board, ch, trace)
    PROVE  Sound(later, ch, trace)
<1>1. Descends(later, trace)
  BY DescendsStays DEF Sound
<1>2. trace.type = "award" => Grounded(later, trace)
  BY GroundedStays DEF Sound
<1>3. ch = "deal" => trace.type = "quote" /\ Evaluated(later, Len(later["score"]), trace)
  BY AllEvaluatedStays DEF Sound
<1> QED  BY <1>1, <1>2, <1>3 DEF Sound

LEMMA IsTraceStays ==
    ASSUME NEW board \in Boards, NEW later \in Boards, Grows(board, later),
           NEW ch \in Channels, NEW i, NEW type, IsTrace(board, ch, i, type)
    PROVE  IsTrace(later, ch, i, type) /\ later[ch][i] = board[ch][i]
<1>1. i \in 1 .. Len(board[ch]) /\ board[ch][i].type = type
  BY DEF IsTrace
<1>2. i \in 1 .. Len(later[ch]) /\ later[ch][i] = board[ch][i]
  BY <1>1, Recorded
<1> QED  BY <1>1, <1>2 DEF IsTrace

LEMMA AnswersStays ==
    ASSUME NEW board \in Boards, NEW later \in Boards, Grows(board, later),
           NEW a, NEW p \in Proposal, Answers(board, a, p)
    PROVE  Answers(later, a, p)
<1>1. p.post \in Trace /\ "requirement" \in Channels /\ "discovery" \in Channels
  BY DEF Proposal, Channels
<1>2. Descends(later, p.post)
  BY <1>1, DescendsStays DEF Answers
<1>3. a \in Scouts => ScoutProposal(later, p)
  BY <1>1, Recorded DEF Answers, ScoutProposal
<1>4. a \in Evaluators => EvaluatorProposal(later, p)
  <2> SUFFICES ASSUME a \in Evaluators PROVE EvaluatorProposal(later, p)
    OBVIOUS
  <2>1. EvaluatorProposal(board, p)
    BY DEF Answers
  <2>2. /\ IsTrace(later, "discovery", p.src, "supplier_discovered")
        /\ later["discovery"][p.src] = board["discovery"][p.src]
    BY <1>1, <2>1, IsTraceStays DEF EvaluatorProposal
  <2> QED  BY <2>1, <2>2 DEF EvaluatorProposal
<1>5. a \in Negotiators => NegotiatorProposal(later, p)
  BY AllEvaluatedStays DEF Answers, NegotiatorProposal
<1>6. a = Buyer => BuyerProposal(later, p)
  BY GroundedStays DEF Answers, BuyerProposal
<1> QED  BY <1>2, <1>3, <1>4, <1>5, <1>6 DEF Answers

LEMMA StandsStays ==
    ASSUME NEW board \in Boards, NEW later \in Boards, Grows(board, later),
           NEW a, NEW state, Stands(board, a, state)
    PROVE  Stands(later, a, state)
<1>1. "discovery" \in Channels /\ "score" \in Channels
  BY DEF Channels
<1>2. \A i, type : IsTrace(board, "discovery", i, type) =>
          IsTrace(later, "discovery", i, type) /\ later["discovery"][i] = board["discovery"][i]
  BY <1>1, IsTraceStays
<1>3. \A i, type : IsTrace(board, "score", i, type) =>
          IsTrace(later, "score", i, type) /\ later["score"][i] = board["score"][i]
  BY <1>1, IsTraceStays
<1>4. (a \in Scouts /\ state.pc \in Writing /\ state.stage > 0) =>
          /\ IsTrace(later, "discovery", state.ref, "supplier_list")
          /\ \A p \in state.plan : IsCurrent(state, p) =>
                p.post.corr = later["discovery"][state.ref].corr
  BY <1>2 DEF Stands
<1>5. (a \in Evaluators /\ state.pc \in {"pool", "size", "mark"}) =>
          IsTrace(later, "discovery", state.pos, "supplier_discovered")
  BY <1>2 DEF Stands
<1>6. (a \in Evaluators /\ state.pc \in Writing /\ state.stage > 0) =>
          /\ IsTrace(later, "score", state.ref, "evaluation")
          /\ \A p \in state.plan : IsCurrent(state, p) =>
                Key(p.post) = Key(later["score"][state.ref])
  BY <1>3 DEF Stands
<1>7. (a \in Negotiators /\ state.pc \in {"pool", "mark"}) =>
          IsTrace(later, "score", state.pos, "evaluation")
  BY <1>3 DEF Stands
<1>8. (a \in Negotiators /\ state.pc = "mark") =>
          /\ IsTrace(later, "discovery", state.ref, "supplier_list")
          /\ later["discovery"][state.ref].corr = later["score"][state.pos].corr
  BY <1>2, <1>3 DEF Stands
<1> QED  BY <1>4, <1>5, <1>6, <1>7, <1>8 DEF Stands

LEMMA LinkedStays ==
    ASSUME NEW board \in Boards, NEW later \in Boards, Grows(board, later),
           NEW a, NEW state \in TaskState, Linked(board, a, state)
    PROVE  Linked(later, a, state)
<1>1. \A p \in state.plan : p \in Proposal
  BY DEF TaskState
<1> QED  BY <1>1, AnswersStays, StandsStays DEF Linked

(***************************************************************************)
(* The blackboard is only ever extended, by one sound trace at a time.     *)
(***************************************************************************)
Extends(ch, trace) ==
    ch \in Channels /\ trace \in Trace /\ Post(ch, trace) /\ Sound(log, ch, trace)
Extended == UNCHANGED log \/ \E ch, trace : Extends(ch, trace)

LEMMA ExtendedGrows ==
    ASSUME TypeOK, Extended
    PROVE  log \in Boards /\ log' \in Boards /\ Grows(log, log')
<1>1. log \in Boards
  BY DEF TypeOK, Boards
<1>2. CASE UNCHANGED log
  BY <1>1, <1>2 DEF Grows, Boards
<1>3. CASE \E ch, trace : Extends(ch, trace)
  BY <1>1, <1>3, PostEffect DEF Extends
<1> QED  BY <1>1, <1>2, <1>3 DEF Extended

LEMMA ExtendedSound ==
    ASSUME LineageInv, Extended
    PROVE  \A ch \in Channels : \A i \in DOMAIN log'[ch] : Sound(log', ch, log'[ch][i])
<1>1. log \in Boards /\ log' \in Boards /\ Grows(log, log') /\ TypeOK
  BY ExtendedGrows DEF LineageInv, TypeInv
<1>2. ASSUME NEW ch \in Channels, NEW i, i \in 1 .. Len(log[ch])
      PROVE  Sound(log', ch, log'[ch][i])
  <2>1. /\ DOMAIN log[ch] = 1 .. Len(log[ch]) /\ log[ch][i] \in Trace
    BY <1>1, <1>2, ReadTrace
  <2>2. Sound(log', ch, log[ch][i])
    BY <1>1, <1>2, <2>1, SoundStays DEF LineageInv
  <2> QED  BY <1>1, <1>2, <2>2, Recorded
<1>3. CASE UNCHANGED log
  BY <1>3 DEF LineageInv
<1>4. ASSUME NEW ch, NEW trace, Extends(ch, trace)
      PROVE  \A c \in Channels : \A i \in DOMAIN log'[c] : Sound(log', c, log'[c][i])
  <2>1. /\ Len(log'[ch]) = Len(log[ch]) + 1 /\ log'[ch][Len(log[ch]) + 1] = trace
        /\ \A c \in Channels \ {ch} : log'[c] = log[c]
    BY <1>1, <1>4, PostEffect DEF Extends
  <2>2. Sound(log', ch, trace)
    BY <1>1, <1>4, SoundStays DEF Extends
  <2>3. ASSUME NEW c \in Channels, NEW i \in DOMAIN log'[c]
        PROVE  i \in 1 .. Len(log[c]) \/ (c = ch /\ log'[c][i] = trace)
    <3>1. log'[c] \in Seq(Trace) /\ log[c] \in Seq(Trace)
      BY <1>1 DEF Boards
    <3>2. i \in 1 .. Len(log'[c]) /\ Len(log[c]) \in Nat
      BY <3>1
    <3>3. CASE c = ch
      BY <2>1, <3>2, <3>3
    <3>4. CASE c # ch
      BY <2>1, <3>2, <3>4
    <3> QED  BY <3>3, <3>4
  <2> QED  BY <1>2, <2>2, <2>3
<1> QED  BY <1>3, <1>4 DEF Extended

\* What a step keeps: the blackboard is extended at most, and the lineage holds.
Kept == Extended /\ LineageInv'

LEMMA KeepsLineage ==
    ASSUME LineageInv, TypeInv', Extended,
           \A t \in Tasks : Linked(log', t[2], task'[t])
    PROVE  Kept
BY ExtendedSound DEF LineageInv, Kept

LEMMA TaskKeepsLineage ==
    ASSUME LineageInv, TypeInv', Extended, NEW t \in Tasks, NEW state, Step(t, state),
           Linked(log', t[2], state)
    PROVE  Kept
<1>1. task'[t] = state /\ \A u \in Tasks : u # t => task'[u] = task[u]
  BY DEF Step, LineageInv, TypeInv, TypeOK
<1>2. log \in Boards /\ log' \in Boards /\ Grows(log, log')
  BY ExtendedGrows DEF LineageInv, TypeInv
<1>3. ASSUME NEW u \in Tasks PROVE Linked(log', u[2], task'[u])
  <2>1. task[u] \in TaskState /\ Linked(log, u[2], task[u])
    BY TaskTypes DEF LineageInv
  <2>2. Linked(log', u[2], task[u])
    BY <1>2, <2>1, LinkedStays
  <2> QED  BY <1>1, <2>2
<1> QED  BY <1>3, KeepsLineage

(***************************************************************************)
(* States of a step that point at nothing, and the step that starts to     *)
(* write.                                                                  *)
(***************************************************************************)
LEMMA MovedLinked ==
    ASSUME NEW board, NEW a, NEW state, NEW next, Linked(board, a, state),
           next.plan \subseteq state.plan,
           next.pc \notin {"pool", "size", "mark", "verdict", "act"}
    PROVE  Linked(board, a, next)
<1>1. Stands(board, a, next)
  BY DEF Stands, Writing
<1> QED  BY <1>1 DEF Linked

LEMMA ActingLinked ==
    ASSUME NEW board, NEW a, NEW state \in TaskState, NEW plan \in SUBSET Proposal,
           \A p \in plan : Answers(board, a, p)
    PROVE  Linked(board, a, Acting(state, plan))
<1> DEFINE next == Acting(state, plan)
<1>1. /\ next \in TaskState /\ next.plan = plan /\ next.stage = 0
      /\ next.pc \in {"verdict", "act", "done"}
  BY ActingType
<1> HIDE DEF next
<1>2. Stands(board, a, next)
  BY <1>1 DEF Stands
<1>3. Linked(board, a, next)
  BY <1>1, <1>2 DEF Linked
<1> QED  BY <1>3 DEF next

LEMMA RestLinked ==
    ASSUME NEW state, state.plan = {},
           state.pc \notin {"pool", "size", "mark", "verdict", "act"}
    PROVE  \A board, a : Linked(board, a, state)
BY DEF Linked, Stands, Writing

LEMMA RestingStates ==
    /\ \A board, a : Linked(board, a, Idle) /\ Linked(board, a, Done) /\ Linked(board, a, Failed)
    /\ \A state, board, a : Linked(board, a, Raised(state))
    /\ \A board, a : Linked(board, a, [Idle EXCEPT !.pc = "perceive"])
    /\ \A n, board, a : Linked(board, a, [Idle EXCEPT !.pc = "perceive", !.tries = n])
BY DEF Linked, Stands, Writing, Idle, Done, Failed, Raised

LEMMA ReasonedLinked ==
    ASSUME NEW board, NEW a, NEW state \in TaskState, NEW plan \in SUBSET Proposal,
           \A p \in plan : Answers(board, a, p)
    PROVE  Linked(board, a, Reasoned(state, plan))
<1>1. CASE Alive(Kernel)
  BY <1>1, ActingLinked DEF Reasoned
<1>2. CASE ~Alive(Kernel)
  BY <1>2, RestingStates DEF Reasoned
<1> QED  BY <1>1, <1>2

\* What is known of the step that moves.
LEMMA LinkedFacts ==
    ASSUME LineageInv, NEW t \in Tasks
    PROVE  /\ TypeInv /\ TypeOK /\ log \in Boards
           /\ t[2] \in Actors /\ task[t] \in TaskState /\ WellPlaced(log, t[2], task[t])
           /\ Linked(log, t[2], task[t]) /\ Stands(log, t[2], task[t])
           /\ \A p \in task[t].plan : p \in Proposal /\ Answers(log, t[2], p)
           /\ \A ch \in Channels : /\ Len(log[ch]) \in Nat
                                   /\ \A i \in 1 .. Len(log[ch]) :
                                         log[ch][i] \in Trace /\ Sound(log, ch, log[ch][i])
<1>1. /\ TypeInv /\ TypeOK /\ log \in Boards
      /\ t[2] \in Actors /\ task[t] \in TaskState /\ WellPlaced(log, t[2], task[t])
      /\ Linked(log, t[2], task[t]) /\ Stands(log, t[2], task[t])
  BY TaskTypes DEF LineageInv, Linked, TypeInv
<1>2. \A p \in task[t].plan : p \in Proposal /\ Answers(log, t[2], p)
  BY <1>1 DEF TaskState, Linked
<1>3. ASSUME NEW ch \in Channels
      PROVE  /\ Len(log[ch]) \in Nat
             /\ \A i \in 1 .. Len(log[ch]) : log[ch][i] \in Trace /\ Sound(log, ch, log[ch][i])
  BY <1>1, ReadTrace DEF LineageInv
<1> QED  BY <1>1, <1>2, <1>3

LEMMA LocalKeepsLineage ==
    ASSUME LineageInv, TypeInv', NEW t \in Tasks, NEW state, Step(t, state), UNCHANGED log,
           Linked(log, t[2], state)
    PROVE  Kept
<1>1. Extended /\ Linked(log', t[2], state)
  BY DEF Extended
<1> QED  BY <1>1, TaskKeepsLineage

\* A step that has written a proposal, and goes on with the others.
LEMMA GoesOnLinked ==
    ASSUME LineageInv, Extended, NEW t \in Tasks, NEW plan, plan \subseteq task[t].plan
    PROVE  Linked(log', t[2], Acting(task[t], plan))
<1>1. log \in Boards /\ log' \in Boards /\ Grows(log, log')
  BY ExtendedGrows, LinkedFacts
<1>2. task[t] \in TaskState /\ plan \in SUBSET Proposal
  BY LinkedFacts
<1>3. \A p \in plan : Answers(log', t[2], p)
  BY <1>1, LinkedFacts, AnswersStays
<1> QED  BY <1>2, <1>3, ActingLinked

(***************************************************************************)
(* Steps that read.                                                        *)
(***************************************************************************)
LEMMA PerceiveLineage ==
    ASSUME LineageInv, TypeInv', NEW t \in Tasks, NEW ch, Perceive(t, ch) PROVE Kept
<1> DEFINE next == [task[t] EXCEPT !.pc = "reason", !.seen = Len(log[ch]),
                                   !.pos = Len(log[ch]) + 1]
<1>1. next.plan = task[t].plan /\ next.pc = "reason"
  BY LinkedFacts DEF TaskState
<1>2. Step(t, next) /\ UNCHANGED log
  BY DEF Perceive
<1> HIDE DEF next
<1>3. Linked(log, t[2], next)
  BY <1>1, LinkedFacts, MovedLinked
<1> QED  BY <1>2, <1>3, LocalKeepsLineage

LEMMA BuyerReadsLineage ==
    ASSUME LineageInv, TypeInv', NEW t \in Tasks,
           BuyerReadDeals(t) \/ BuyerReadRisks(t) \/ BuyerReadScores(t)
    PROVE  Kept
<1> USE DEF TaskState
<1>1. task[t] \in TaskState /\ UNCHANGED log
  BY LinkedFacts DEF BuyerReadDeals, BuyerReadRisks, BuyerReadScores
<1>2. ASSUME NEW next, Step(t, next), next.plan = task[t].plan,
             next.pc \in {"risks", "scores", "reason"}
      PROVE  Kept
  <2>1. Linked(log, t[2], next)
    BY <1>2, LinkedFacts, MovedLinked
  <2> QED  BY <1>1, <1>2, <2>1, LocalKeepsLineage
<1>3. CASE BuyerReadDeals(t)
  <2> DEFINE next == [task[t] EXCEPT !.pc = "risks", !.seen = Len(log["deal"])]
  <2>1. Step(t, next) /\ next.plan = task[t].plan /\ next.pc = "risks"
    BY <1>1, <1>3 DEF BuyerReadDeals
  <2> QED  BY <1>2, <2>1
<1>4. CASE BuyerReadRisks(t)
  <2> DEFINE next == [task[t] EXCEPT !.pc = "scores", !.risks = Len(log["risk"])]
  <2>1. Step(t, next) /\ next.plan = task[t].plan /\ next.pc = "scores"
    BY <1>1, <1>4 DEF BuyerReadRisks
  <2> QED  BY <1>2, <2>1
<1>5. CASE BuyerReadScores(t)
  <2> DEFINE next == [task[t] EXCEPT !.pc = "reason", !.scores = Len(log["score"])]
  <2>1. Step(t, next) /\ next.plan = task[t].plan /\ next.pc = "reason"
    BY <1>1, <1>5 DEF BuyerReadScores
  <2> QED  BY <1>2, <2>1
<1> QED  BY <1>3, <1>4, <1>5

(***************************************************************************)
(* Scouts.                                                                 *)
(***************************************************************************)
LEMMA ListProposalAnswers ==
    ASSUME LineageInv, NEW t \in Tasks, t[2] \in Scouts, NEW i \in 1 .. Len(log["requirement"])
    PROVE  ListProposal(i) \in Proposal /\ Answers(log, t[2], ListProposal(i))
<1> DEFINE p == ListProposal(i)
           trace == log["requirement"][i]
<1>1. /\ trace \in Trace /\ Sound(log, "requirement", trace)
      /\ Len(log["requirement"]) \in Nat /\ i \in Nat
  BY LinkedFacts DEF Channels
<1>2. trace.type = "requirement" /\ trace.sup = NoSupplier
  BY <1>1 DEF Sound
<1>3. /\ p.src = i /\ p.post.type = "supplier_list" /\ p.post.corr = trace.corr
      /\ p.post.sup = NoSupplier /\ p.post.parents = {<<"requirement", i>>}
  BY DEF ListProposal
<1>4. p \in Proposal
  BY <1>1 DEF ListProposal, Proposal, Trace, Archetypes, TraceTypes, TraceIds, Channels
<1>5. Descends(log, p.post)
  <2>1. ParentTypes["supplier_list"] = {"requirement"}
    BY DEF ParentTypes, TraceTypes
  <2> HIDE DEF p
  <2> QED  BY <1>2, <1>3, <2>1 DEF Descends
<1>6. ScoutProposal(log, p)
  BY <1>3 DEF ScoutProposal
<1>7. Answers(log, t[2], p)
  BY <1>5, <1>6, LinkedFacts, Kinds DEF Answers
<1> QED  BY <1>4, <1>7

LEMMA ScoutReasonLineage ==
    ASSUME LineageInv, TypeInv', NEW t \in Tasks, ScoutReason(t) PROVE Kept
<1> DEFINE corr(i) == log["requirement"][i].corr
           window == Window(task[t].seen, ReqLimit)
           fresh == {i \in window : /\ <<corr(i), NoSupplier>> \notin handled[t[2]]
                                    /\ \A j \in window : j > i => corr(j) # corr(i)}
           raising == {i \in fresh : corr(i) \in BadQuantity}
           answered == {i \in fresh : \A j \in raising : i > j}
           plan == {ListProposal(i) : i \in answered}
           next == IF raising # {} THEN Raised(task[t]) ELSE Reasoned(task[t], plan)
<1>1. t[2] \in Scouts /\ Step(t, next) /\ UNCHANGED log
  BY DEF ScoutReason
<1>2. answered \subseteq 1 .. Len(log["requirement"])
  <2>1. /\ task[t].seen \in Nat /\ task[t].seen <= Len(log["requirement"])
        /\ Len(log["requirement"]) \in Nat
    BY <1>1, LinkedFacts DEF WellPlaced, TaskState, Channels
  <2>2. window \subseteq 1 .. task[t].seen
    BY <2>1, WindowProperties, BoundsAssumption
  <2> QED  BY <2>1, <2>2
<1> HIDE DEF answered
<1>3. plan \in SUBSET Proposal /\ \A p \in plan : Answers(log, t[2], p)
  BY <1>1, <1>2, ListProposalAnswers
<1> HIDE DEF plan
<1>4. Linked(log, t[2], Reasoned(task[t], plan))
  BY <1>3, LinkedFacts, ReasonedLinked
<1>5. Linked(log, t[2], next)
  <2> HIDE DEF raising
  <2>1. CASE raising # {}
    BY <2>1, RestingStates
  <2>2. CASE raising = {}
    BY <1>4, <2>2
  <2> QED  BY <2>1, <2>2
<1> HIDE DEF next
<1> QED  BY <1>1, <1>5, LocalKeepsLineage

\* Two proposals that are both the current one answer the same trace.
LEMMA OneCurrent ==
    ASSUME NEW state \in TaskState, NEW p, NEW q, IsCurrent(state, p), IsCurrent(state, q)
    PROVE  p.src = q.src
<1>1. p \in Proposal /\ q \in Proposal /\ q.src <= p.src /\ p.src <= q.src
  BY DEF IsCurrent, TaskState
<1> QED  BY <1>1 DEF Proposal

LEMMA ScoutPostListLineage ==
    ASSUME LineageInv, TypeInv', NEW t \in Tasks, ScoutPostList(t) PROVE Kept
<1> DEFINE n == Len(log["discovery"]) + 1
           next == [task[t] EXCEPT !.pc = "act", !.stage = 1, !.ref = n]
<1>1. t[2] \in Scouts /\ task[t].pc \in Writing /\ Step(t, next)
  BY DEF ScoutPostList
<1>2. PICK p \in task[t].plan : IsCurrent(task[t], p) /\ Post("discovery", p.post)
  BY DEF ScoutPostList
<1>3. /\ task[t] \in TaskState /\ \A q \in task[t].plan : q \in Proposal /\ Answers(log, t[2], q)
      /\ Len(log["discovery"]) \in Nat /\ "discovery" \in Channels /\ TypeOK
  BY LinkedFacts DEF Channels
<1>4. next.plan = task[t].plan /\ next.pc = "act" /\ next.stage = 1 /\ next.ref = n
  BY <1>1, <1>3 DEF TaskState
<1>5. \A q \in task[t].plan : Descends(log, q.post) /\ ScoutProposal(log, q)
  BY <1>1, <1>3 DEF Answers
<1>6. Extends("discovery", p.post)
  <2>1. p.post \in Trace
    BY <1>3 DEF Proposal
  <2>2. Sound(log, "discovery", p.post)
    BY <1>5 DEF Sound, ScoutProposal
  <2> QED  BY <1>2, <1>3, <2>1, <2>2 DEF Extends
<1>7. Extended
  BY <1>6 DEF Extended
<1>8. log \in Boards /\ log' \in Boards /\ Grows(log, log')
  BY <1>3, <1>7, ExtendedGrows
<1>9. Len(log'["discovery"]) = n /\ log'["discovery"][n] = p.post
  BY <1>3, <1>6, PostEffect DEF Extends
<1>10. IsTrace(log', "discovery", n, "supplier_list")
  BY <1>3, <1>5, <1>9 DEF IsTrace, ScoutProposal
<1>11. \A q : IsCurrent(next, q) => IsCurrent(task[t], q)
  BY <1>4 DEF IsCurrent
<1>12. \A q \in next.plan : IsCurrent(next, q) => q.post.corr = log'["discovery"][n].corr
  BY <1>2, <1>3, <1>4, <1>5, <1>9, <1>11, OneCurrent DEF ScoutProposal
<1>13. \A q \in next.plan : Answers(log', t[2], q)
  BY <1>3, <1>4, <1>8, AnswersStays
<1> HIDE DEF next, n
<1>14. Stands(log', t[2], next)
  BY <1>1, <1>4, <1>10, <1>12, LinkedFacts, Kinds DEF Stands
<1>15. Linked(log', t[2], next)
  BY <1>13, <1>14 DEF Linked
<1> QED  BY <1>1, <1>7, <1>15, TaskKeepsLineage

LEMMA ScoutPostSupplierLineage ==
    ASSUME LineageInv, TypeInv', NEW t \in Tasks, ScoutPostSupplier(t) PROVE Kept
<1> DEFINE trace(p) == [by |-> "scout", type |-> "supplier_discovered", corr |-> p.post.corr,
                        sup |-> Pool[task[t].stage],
                        parents |-> {<<"discovery", task[t].ref>>}, sized |-> FALSE]
           next(p) == IF task[t].stage < Len(Pool) THEN [task[t] EXCEPT !.stage = @ + 1]
                      ELSE Acting(task[t], task[t].plan \ {p})
<1>1. PICK p \in task[t].plan :
          IsCurrent(task[t], p) /\ Post("discovery", trace(p)) /\ Step(t, next(p))
  BY DEF ScoutPostSupplier
<1>2. t[2] \in Scouts /\ task[t].pc \in Writing /\ task[t].stage > 0
  BY DEF ScoutPostSupplier
<1>3. /\ task[t] \in TaskState /\ WellPlaced(log, t[2], task[t]) /\ TypeOK
      /\ \A q \in task[t].plan : q \in Proposal /\ Answers(log, t[2], q)
      /\ "discovery" \in Channels
  BY LinkedFacts DEF Channels
<1>4. task[t].stage \in Nat /\ task[t].ref \in Nat /\ task[t].stage <= Len(Pool)
  BY <1>2, <1>3 DEF TaskState, WellPlaced
<1>5. /\ IsTrace(log, "discovery", task[t].ref, "supplier_list")
      /\ p.post.corr = log["discovery"][task[t].ref].corr
  BY <1>1, <1>2, LinkedFacts DEF Stands
<1>6. log["discovery"][task[t].ref].sup = NoSupplier
  BY <1>3, <1>5, LinkedFacts DEF IsTrace, Sound
<1>7. Pool[task[t].stage] \in Suppliers
  BY <1>2, <1>4, PoolAssumption DEF Suppliers
<1>8. trace(p) \in Trace
  <2>1. p.post.corr \in Corrs \cup {NoCorr}
    BY <1>3 DEF Proposal, Trace
  <2> QED  BY <1>4, <1>7, <2>1 DEF Trace, Archetypes, TraceTypes, TraceIds, Channels
<1>9. /\ trace(p).type = "supplier_discovered" /\ trace(p).corr = p.post.corr
      /\ trace(p).sup \in Suppliers /\ trace(p).parents = {<<"discovery", task[t].ref>>}
  BY <1>7
<1> HIDE DEF trace
<1>10. Descends(log, trace(p))
  <2>1. ParentTypes["supplier_discovered"] = {"supplier_list"}
    BY DEF ParentTypes, TraceTypes
  <2> QED  BY <1>5, <1>6, <1>9, <2>1 DEF Descends, IsTrace
<1>11. Extends("discovery", trace(p))
  BY <1>1, <1>3, <1>8, <1>9, <1>10 DEF Extends, Sound
<1>12. Extended
  BY <1>11 DEF Extended
<1>13. log \in Boards /\ log' \in Boards /\ Grows(log, log')
  BY <1>3, <1>12, ExtendedGrows
<1>14. Linked(log', t[2], next(p))
  <2>1. CASE task[t].stage < Len(Pool)
    <3> DEFINE moved == [task[t] EXCEPT !.stage = @ + 1]
    <3>1. next(p) = moved
      BY <2>1
    <3>2. /\ moved.plan = task[t].plan /\ moved.pc = task[t].pc /\ moved.ref = task[t].ref
      BY <1>2, <1>3 DEF TaskState
    <3>3. Linked(log', t[2], task[t]) /\ Stands(log', t[2], task[t])
      BY <1>3, <1>13, LinkedFacts, LinkedStays DEF Linked
    <3> HIDE DEF moved
    <3>4. \A q : IsCurrent(moved, q) => IsCurrent(task[t], q)
      BY <3>2 DEF IsCurrent
    <3>5. Stands(log', t[2], moved)
      BY <1>2, <3>2, <3>3, <3>4, LinkedFacts, Kinds DEF Stands
    <3> QED  BY <3>1, <3>2, <3>3, <3>5 DEF Linked
  <2>2. CASE ~(task[t].stage < Len(Pool))
    BY <1>12, <2>2, GoesOnLinked
  <2> QED  BY <2>1, <2>2
<1> HIDE DEF next
<1> QED  BY <1>1, <1>12, <1>14, TaskKeepsLineage

(***************************************************************************)
(* The loop of evaluators and negotiators.                                 *)
(***************************************************************************)
LEMMA NextTraceLinked ==
    ASSUME LineageInv, NEW t \in Tasks, NEW state \in TaskState, NEW done,
           NEW ch \in Channels, NEW limit \in Nat, NEW type,
           \/ t[2] \in Evaluators /\ ch = "discovery" /\ type = "supplier_discovered"
           \/ t[2] \in Negotiators /\ ch = "score" /\ type = "evaluation",
           state.seen <= Len(log[ch]),
           \A p \in state.plan : Answers(log, t[2], p),
           NextTrace(t, state, done, ch, limit, type)
    PROVE  \E next : Step(t, next) /\ Linked(log, t[2], next)
<1> DEFINE fresh == {i \in Window(state.seen, limit) :
                       /\ i < state.pos
                       /\ log[ch][i].type = type
                       /\ Key(log[ch][i]) \notin done}
<1>1. /\ t[2] \in Actors /\ \A c \in Channels : Len(log[c]) \in Nat
      /\ state.seen \in Nat /\ state.plan \in SUBSET Proposal
  BY LinkedFacts DEF TaskState
<1>2. CASE fresh = {}
  <2>1. Step(t, Reasoned(state, state.plan))
    BY <1>2 DEF NextTrace
  <2> QED  BY <1>1, <2>1, ReasonedLinked
<1>3. CASE fresh # {}
  <2> DEFINE i == Newest(fresh)
             next == [state EXCEPT !.pc = "pool", !.pos = i, !.ref = 0]
  <2>1. Step(t, next)
    BY <1>3 DEF NextTrace
  <2>2. i \in fresh
    <3>1. fresh \in SUBSET (1 .. state.seen)
      BY <1>1, WindowProperties
    <3> HIDE DEF fresh
    <3> QED  BY <1>1, <1>3, <3>1, NewestProperties
  <2>3. i \in 1 .. state.seen /\ log[ch][i].type = type
    BY <1>1, <2>2, WindowProperties
  <2> HIDE DEF i
  <2>4. IsTrace(log, ch, i, type)
    BY <1>1, <2>3 DEF IsTrace
  <2>5. next.plan = state.plan /\ next.pc = "pool" /\ next.pos = i
    BY DEF TaskState
  <2> HIDE DEF next
  <2>6. Stands(log, t[2], next)
    BY <1>1, <2>4, <2>5, Kinds DEF Stands, Writing
  <2>7. Linked(log, t[2], next)
    BY <2>5, <2>6 DEF Linked
  <2> QED  BY <2>1, <2>7
<1> QED  BY <1>2, <1>3

LEMMA ScanLineage ==
    ASSUME LineageInv, TypeInv', NEW t \in Tasks, EvaluatorScan(t) \/ NegotiatorScan(t)
    PROVE  Kept
<1>1. /\ task[t] \in TaskState /\ WellPlaced(log, t[2], task[t])
      /\ \A p \in task[t].plan : Answers(log, t[2], p)
  BY LinkedFacts
<1>2. \E next : Step(t, next) /\ Linked(log, t[2], next)
  <2>1. CASE EvaluatorScan(t)
    <3>1. /\ t[2] \in Evaluators /\ "discovery" \in Channels /\ DiscLimit \in Nat
          /\ NextTrace(t, task[t], handled[t[2]], "discovery", DiscLimit, "supplier_discovered")
      BY <2>1, BoundsAssumption DEF EvaluatorScan, Channels
    <3>2. task[t].seen <= Len(log["discovery"])
      BY <1>1, <3>1 DEF WellPlaced
    <3> QED  BY <1>1, <3>1, <3>2, NextTraceLinked
  <2>2. CASE NegotiatorScan(t)
    <3>1. /\ t[2] \in Negotiators /\ "score" \in Channels /\ ScoreLimit \in Nat
          /\ NextTrace(t, task[t], handled[t[2]], "score", ScoreLimit, "evaluation")
      BY <2>2, BoundsAssumption DEF NegotiatorScan, Channels
    <3>2. task[t].seen <= Len(log["score"])
      BY <1>1, <3>1 DEF WellPlaced
    <3> QED  BY <1>1, <3>1, <3>2, NextTraceLinked
  <2> QED  BY <2>1, <2>2
<1>3. UNCHANGED log
  BY DEF EvaluatorScan, NegotiatorScan
<1> QED  BY <1>2, <1>3, LocalKeepsLineage

(***************************************************************************)
(* Evaluators.                                                             *)
(***************************************************************************)
LEMMA EvaluatorReadsLineage ==
    ASSUME LineageInv, TypeInv', NEW t \in Tasks,
           EvaluatorReadPool(t) \/ EvaluatorReadRequirement(t)
    PROVE  Kept
<1>1. /\ t[2] \in Evaluators /\ UNCHANGED log /\ task[t].pc \in {"pool", "size"}
      /\ task[t] \in TaskState /\ t[2] \in Actors
  BY LinkedFacts DEF EvaluatorReadPool, EvaluatorReadRequirement
<1>2. IsTrace(log, "discovery", task[t].pos, "supplier_discovered")
  BY <1>1, LinkedFacts DEF Stands
<1>3. ASSUME NEW next, Step(t, next), next.plan = task[t].plan, next.pos = task[t].pos,
             next.pc \in {"reason", "size", "mark"}
      PROVE  Kept
  <2>1. Stands(log, t[2], next)
    BY <1>1, <1>2, <1>3, Kinds DEF Stands, Writing
  <2>2. Linked(log, t[2], next)
    BY <1>3, <2>1, LinkedFacts DEF Linked
  <2> QED  BY <1>1, <1>3, <2>2, LocalKeepsLineage
<1>4. CASE EvaluatorReadPool(t)
  <2> DEFINE pc == IF PoolsInSight(log["discovery"][task[t].pos].corr) = {}
                   THEN "reason" ELSE "size"
             next == [task[t] EXCEPT !.pc = pc]
  <2>1. Step(t, next) /\ pc \in {"reason", "size", "mark"}
    BY <1>4 DEF EvaluatorReadPool
  <2> HIDE DEF pc
  <2>2. next.plan = task[t].plan /\ next.pos = task[t].pos /\ next.pc = pc
    BY <1>1 DEF TaskState
  <2> HIDE DEF next
  <2> QED  BY <1>3, <2>1, <2>2
<1>5. CASE EvaluatorReadRequirement(t)
  <2> DEFINE found == {i \in Window(Len(log["requirement"]), SizeLimit) :
                          log["requirement"][i].corr = log["discovery"][task[t].pos].corr}
             next == [task[t] EXCEPT !.pc = "mark",
                                     !.ref = IF found = {} THEN 0 ELSE Newest(found)]
  <2>1. Step(t, next)
    BY <1>5 DEF EvaluatorReadRequirement
  <2> HIDE DEF found
  <2>2. next.plan = task[t].plan /\ next.pos = task[t].pos /\ next.pc = "mark"
    BY <1>1 DEF TaskState
  <2> HIDE DEF next
  <2> QED  BY <1>3, <2>1, <2>2
<1> QED  BY <1>4, <1>5

LEMMA EvaluationProposalAnswers ==
    ASSUME LineageInv, NEW t \in Tasks, t[2] \in Evaluators, task[t].pc = "mark"
    PROVE  Answers(log, t[2], EvaluationProposal(t))
<1> DEFINE p == EvaluationProposal(t)
           i == task[t].pos
           found == log["discovery"][i]
<1>1. IsTrace(log, "discovery", i, "supplier_discovered")
  BY LinkedFacts DEF Stands
<1>2. /\ p.src = i /\ p.post.type = "evaluation" /\ p.post.corr = found.corr
      /\ p.post.sup = found.sup /\ p.post.parents = {<<"discovery", i>>}
  BY DEF EvaluationProposal
<1> HIDE DEF p, i
<1>3. Descends(log, p.post)
  <2>1. ParentTypes["evaluation"] = {"supplier_discovered"}
    BY DEF ParentTypes, TraceTypes
  <2> QED  BY <1>1, <1>2, <2>1 DEF Descends, IsTrace
<1>4. EvaluatorProposal(log, p)
  BY <1>1, <1>2 DEF EvaluatorProposal, Key
<1>5. Answers(log, t[2], p)
  BY <1>3, <1>4, LinkedFacts, Kinds DEF Answers
<1> QED  BY <1>5 DEF p

LEMMA EvaluatorMarkLineage ==
    ASSUME LineageInv, TypeInv', NEW t \in Tasks, EvaluatorMark(t) PROVE Kept
<1> DEFINE done == handled[t[2]] \cup {Key(log["discovery"][task[t].pos])}
           planned == [task[t] EXCEPT !.plan = @ \cup {EvaluationProposal(t)}]
<1>1. /\ t[2] \in Evaluators /\ task[t].pc = "mark" /\ UNCHANGED log
      /\ TypeInv /\ task[t] \in TaskState /\ WellPlaced(log, t[2], task[t])
      /\ \A p \in task[t].plan : Answers(log, t[2], p)
  BY LinkedFacts DEF EvaluatorMark
<1>2. CASE Step(t, Raised(task[t]))
  BY <1>1, <1>2, RestingStates, LocalKeepsLineage
<1>3. CASE NextTrace(t, planned, done, "discovery", DiscLimit, "supplier_discovered")
  <2>1. planned \in TaskState
    BY <1>1, EvaluationProposalType, PlannedType
  <2>2. planned.seen = task[t].seen /\ planned.plan = task[t].plan \cup {EvaluationProposal(t)}
    BY <1>1 DEF TaskState
  <2>3. \A p \in planned.plan : Answers(log, t[2], p)
    BY <1>1, <2>2, EvaluationProposalAnswers
  <2>4. "discovery" \in Channels /\ DiscLimit \in Nat
    BY BoundsAssumption DEF Channels
  <2>5. planned.seen <= Len(log["discovery"])
    BY <1>1, <2>2 DEF WellPlaced
  <2> HIDE DEF planned, done
  <2> QED  BY <1>1, <1>3, <2>1, <2>3, <2>4, <2>5, NextTraceLinked, LocalKeepsLineage
<1> QED  BY <1>2, <1>3 DEF EvaluatorMark

LEMMA EvaluatorPostScoreLineage ==
    ASSUME LineageInv, TypeInv', NEW t \in Tasks, EvaluatorPostScore(t) PROVE Kept
<1> DEFINE n == Len(log["score"]) + 1
           next == [task[t] EXCEPT !.pc = "act", !.stage = 1, !.ref = n]
<1>1. t[2] \in Evaluators /\ task[t].pc \in Writing /\ Step(t, next)
  BY DEF EvaluatorPostScore
<1>2. PICK p \in task[t].plan : IsCurrent(task[t], p) /\ Post("score", p.post)
  BY DEF EvaluatorPostScore
<1>3. /\ task[t] \in TaskState /\ \A q \in task[t].plan : q \in Proposal /\ Answers(log, t[2], q)
      /\ Len(log["score"]) \in Nat /\ {"score", "discovery"} \subseteq Channels /\ TypeOK
  BY LinkedFacts DEF Channels
<1>4. next.plan = task[t].plan /\ next.pc = "act" /\ next.stage = 1 /\ next.ref = n
  BY <1>1, <1>3 DEF TaskState
<1>5. \A q \in task[t].plan : Descends(log, q.post) /\ EvaluatorProposal(log, q)
  BY <1>1, <1>3 DEF Answers
<1>6. p.post.sup \in Suppliers
  <2>1. /\ Sound(log, "discovery", log["discovery"][p.src])
        /\ log["discovery"][p.src].type = "supplier_discovered"
        /\ Key(p.post) = Key(log["discovery"][p.src])
    BY <1>3, <1>5, LinkedFacts DEF EvaluatorProposal, IsTrace
  <2> QED  BY <2>1 DEF Sound, Key
<1>7. Extends("score", p.post)
  <2>1. p.post \in Trace
    BY <1>3 DEF Proposal
  <2>2. Sound(log, "score", p.post)
    BY <1>5, <1>6 DEF Sound, EvaluatorProposal
  <2> QED  BY <1>2, <1>3, <2>1, <2>2 DEF Extends
<1>8. Extended
  BY <1>7 DEF Extended
<1>9. log \in Boards /\ log' \in Boards /\ Grows(log, log')
  BY <1>3, <1>8, ExtendedGrows
<1>10. Len(log'["score"]) = n /\ log'["score"][n] = p.post
  BY <1>3, <1>7, PostEffect DEF Extends
<1>11. IsTrace(log', "score", n, "evaluation")
  BY <1>3, <1>5, <1>10 DEF IsTrace, EvaluatorProposal
<1>12. \A q : IsCurrent(next, q) => IsCurrent(task[t], q)
  BY <1>4 DEF IsCurrent
<1>13. \A q \in next.plan : IsCurrent(next, q) => Key(q.post) = Key(log'["score"][n])
  BY <1>2, <1>3, <1>4, <1>5, <1>10, <1>12, OneCurrent DEF EvaluatorProposal
<1>14. \A q \in next.plan : Answers(log', t[2], q)
  BY <1>3, <1>4, <1>9, AnswersStays
<1> HIDE DEF next, n
<1>15. Stands(log', t[2], next)
  BY <1>1, <1>4, <1>11, <1>13, LinkedFacts, Kinds DEF Stands
<1>16. Linked(log', t[2], next)
  BY <1>14, <1>15 DEF Linked
<1> QED  BY <1>1, <1>8, <1>16, TaskKeepsLineage

LEMMA EvaluatorPostRiskLineage ==
    ASSUME LineageInv, TypeInv', NEW t \in Tasks, EvaluatorPostRisk(t) PROVE Kept
<1> DEFINE trace(p) == [p.post EXCEPT !.type = "risk_assessment",
                                      !.parents = {<<"score", task[t].ref>>}]
           next(p) == Acting(task[t], task[t].plan \ {p})
<1>1. PICK p \in task[t].plan :
          IsCurrent(task[t], p) /\ Post("risk", trace(p)) /\ Step(t, next(p))
  BY DEF EvaluatorPostRisk
<1>2. /\ t[2] \in Evaluators /\ task[t].pc \in Writing /\ task[t].stage > 0
      /\ p.post \in Trace /\ task[t].ref \in Nat /\ {"score", "risk"} \subseteq Channels
  BY LinkedFacts DEF EvaluatorPostRisk, Proposal, TaskState, Channels
<1>3. /\ IsTrace(log, "score", task[t].ref, "evaluation")
      /\ Key(p.post) = Key(log["score"][task[t].ref])
  BY <1>1, <1>2, LinkedFacts DEF Stands
<1>4. trace(p) \in Trace
  <2>1. {<<"score", task[t].ref>>} \subseteq TraceIds
    BY <1>2 DEF TraceIds
  <2> QED  BY <1>2, <2>1 DEF Trace, TraceTypes
<1>5. /\ trace(p).type = "risk_assessment" /\ trace(p).corr = p.post.corr
      /\ trace(p).sup = p.post.sup /\ trace(p).parents = {<<"score", task[t].ref>>}
  BY <1>2 DEF Trace
<1> HIDE DEF trace
<1>6. Descends(log, trace(p))
  <2>1. ParentTypes["risk_assessment"] = {"evaluation"}
    BY DEF ParentTypes, TraceTypes
  <2> QED  BY <1>3, <1>5, <2>1 DEF Descends, IsTrace, Key
<1>7. Extends("risk", trace(p))
  BY <1>1, <1>2, <1>4, <1>5, <1>6 DEF Extends, Sound
<1>8. Extended
  BY <1>7 DEF Extended
<1>9. Linked(log', t[2], next(p))
  BY <1>8, GoesOnLinked
<1> HIDE DEF next
<1> QED  BY <1>1, <1>8, <1>9, TaskKeepsLineage

(***************************************************************************)
(* Negotiators.                                                            *)
(***************************************************************************)
LEMMA NegotiatorReadPoolLineage ==
    ASSUME LineageInv, TypeInv', NEW t \in Tasks, NegotiatorReadPool(t) PROVE Kept
<1> DEFINE pools == PoolsInSight(log["score"][task[t].pos].corr)
           i == Newest(pools)
           next == IF pools = {} THEN [task[t] EXCEPT !.pc = "reason"]
                   ELSE [task[t] EXCEPT !.pc = "mark", !.ref = i]
<1>1. /\ t[2] \in Negotiators /\ task[t].pc = "pool" /\ Step(t, next) /\ UNCHANGED log
      /\ task[t] \in TaskState /\ t[2] \in Actors /\ Len(log["discovery"]) \in Nat
  BY LinkedFacts DEF NegotiatorReadPool, Channels
<1>2. IsTrace(log, "score", task[t].pos, "evaluation")
  BY <1>1, LinkedFacts DEF Stands
<1>3. CASE pools = {}
  <2>1. next.plan = task[t].plan /\ next.pc = "reason"
    BY <1>1, <1>3 DEF TaskState
  <2> HIDE DEF next
  <2>2. Linked(log, t[2], next)
    BY <2>1, LinkedFacts, MovedLinked
  <2> QED  BY <1>1, <2>2, LocalKeepsLineage
<1>4. CASE pools # {}
  <2>1. i \in pools
    <3>1. pools \in SUBSET (1 .. Len(log["discovery"]))
      BY <1>1, WindowProperties, BoundsAssumption DEF PoolsInSight
    <3> HIDE DEF pools
    <3> QED  BY <1>1, <1>4, <3>1, NewestProperties
  <2>2. /\ i \in 1 .. Len(log["discovery"]) /\ log["discovery"][i].type = "supplier_list"
        /\ log["discovery"][i].corr = log["score"][task[t].pos].corr
    BY <1>1, <2>1, WindowProperties, BoundsAssumption DEF PoolsInSight
  <2>3. /\ next.plan = task[t].plan /\ next.pc = "mark" /\ next.pos = task[t].pos
        /\ next.ref = i
    <3> HIDE DEF pools, i
    <3> QED  BY <1>1, <1>4 DEF TaskState
  <2> HIDE DEF next, i
  <2>4. Stands(log, t[2], next)
    BY <1>1, <1>2, <2>2, <2>3, Kinds DEF Stands, IsTrace
  <2>5. Linked(log, t[2], next)
    BY <2>3, <2>4, LinkedFacts DEF Linked
  <2> QED  BY <1>1, <2>5, LocalKeepsLineage
<1> QED  BY <1>3, <1>4

LEMMA QuoteProposalAnswers ==
    ASSUME LineageInv, NEW t \in Tasks, t[2] \in Negotiators, task[t].pc = "mark"
    PROVE  Answers(log, t[2], QuoteProposal(t))
<1> DEFINE p == QuoteProposal(t)
           i == task[t].pos
           j == task[t].ref
           scored == log["score"][i]
<1>1. /\ IsTrace(log, "score", i, "evaluation") /\ IsTrace(log, "discovery", j, "supplier_list")
      /\ log["discovery"][j].corr = scored.corr
  BY LinkedFacts DEF Stands
<1>2. log["discovery"][j].sup = NoSupplier
  BY <1>1, LinkedFacts DEF IsTrace, Sound, Channels
<1>3. /\ p.post.type = "quote" /\ p.post.corr = scored.corr /\ p.post.sup = scored.sup
      /\ p.post.parents = {<<"score", i>>, <<"discovery", j>>}
  BY DEF QuoteProposal
<1> HIDE DEF p, i, j
<1>4. Descends(log, p.post)
  <2>1. ParentTypes["quote"] = {"evaluation", "supplier_list"}
    BY DEF ParentTypes, TraceTypes
  <2>2. {log[id[1]][id[2]].type : id \in p.post.parents} = {"evaluation", "supplier_list"}
    BY <1>1, <1>3 DEF IsTrace
  <2> QED  BY <1>1, <1>2, <1>3, <2>1, <2>2 DEF Descends, IsTrace
<1>5. NegotiatorProposal(log, p)
  BY <1>1, <1>3 DEF NegotiatorProposal, Evaluated, IsTrace, Key
<1>6. Answers(log, t[2], p)
  BY <1>4, <1>5, LinkedFacts, Kinds DEF Answers
<1> QED  BY <1>6 DEF p

LEMMA NegotiatorMarkLineage ==
    ASSUME LineageInv, TypeInv', NEW t \in Tasks, NegotiatorMark(t) PROVE Kept
<1> DEFINE done == handled[t[2]] \cup {Key(log["score"][task[t].pos])}
           planned == [task[t] EXCEPT !.plan = @ \cup {QuoteProposal(t)}]
<1>1. /\ t[2] \in Negotiators /\ task[t].pc = "mark" /\ UNCHANGED log
      /\ NextTrace(t, planned, done, "score", ScoreLimit, "evaluation")
      /\ TypeInv /\ task[t] \in TaskState /\ WellPlaced(log, t[2], task[t])
      /\ \A p \in task[t].plan : Answers(log, t[2], p)
  BY LinkedFacts DEF NegotiatorMark
<1>2. planned \in TaskState
  BY <1>1, QuoteProposalType, PlannedType
<1>3. planned.seen = task[t].seen /\ planned.plan = task[t].plan \cup {QuoteProposal(t)}
  BY <1>1 DEF TaskState
<1>4. \A p \in planned.plan : Answers(log, t[2], p)
  BY <1>1, <1>3, QuoteProposalAnswers
<1>5. "score" \in Channels /\ ScoreLimit \in Nat
  BY BoundsAssumption DEF Channels
<1>6. planned.seen <= Len(log["score"])
  BY <1>1, <1>3 DEF WellPlaced
<1> HIDE DEF planned, done
<1> QED  BY <1>1, <1>2, <1>4, <1>5, <1>6, NextTraceLinked, LocalKeepsLineage

LEMMA NegotiatorPostQuoteLineage ==
    ASSUME LineageInv, TypeInv', NEW t \in Tasks, NegotiatorPostQuote(t) PROVE Kept
<1> DEFINE next(p) == Acting(task[t], task[t].plan \ {p})
<1>1. PICK p \in task[t].plan : Post("deal", p.post) /\ Step(t, next(p))
  BY DEF NegotiatorPostQuote
<1>2. /\ t[2] \in Negotiators /\ p.post \in Trace /\ {"deal", "score"} \subseteq Channels
      /\ Answers(log, t[2], p)
  BY LinkedFacts DEF NegotiatorPostQuote, Proposal, Channels
<1>3. p.post.type = "quote" /\ Evaluated(log, Len(log["score"]), p.post)
  BY <1>2 DEF Answers, NegotiatorProposal
<1>4. p.post.sup \in Suppliers
  <2>1. PICK i \in 1 .. Len(log["score"]) : /\ log["score"][i].type = "evaluation"
                                            /\ Key(log["score"][i]) = Key(p.post)
    BY <1>3 DEF Evaluated
  <2>2. Sound(log, "score", log["score"][i])
    BY <1>2, LinkedFacts
  <2> QED  BY <2>1, <2>2 DEF Sound, Key
<1>5. Sound(log, "deal", p.post)
  BY <1>2, <1>3, <1>4 DEF Sound, Answers
<1>6. Extended
  BY <1>1, <1>2, <1>5 DEF Extended, Extends
<1>7. Linked(log', t[2], next(p))
  BY <1>6, GoesOnLinked
<1> HIDE DEF next
<1> QED  BY <1>1, <1>6, <1>7, TaskKeepsLineage

(***************************************************************************)
(* The buyer.                                                              *)
(***************************************************************************)
IsAbout(ch, i, type, c, s) ==
    /\ i \in 1 .. Len(log[ch]) /\ log[ch][i].type = type
    /\ log[ch][i].corr = c /\ log[ch][i].sup = s

LEMMA HeldAbout ==
    ASSUME TypeInv, NEW t \in Tasks, t[2] = Buyer, NEW c, NEW s
    PROVE  /\ Deals(task[t], c, s) # {} =>
                  IsAbout("deal", Oldest(Deals(task[t], c, s)), "quote", c, s)
           /\ Scores(task[t], c, s) # {} =>
                  IsAbout("score", Oldest(Scores(task[t], c, s)), "evaluation", c, s)
           /\ Risks(task[t], c, s) # {} =>
                  IsAbout("risk", Oldest(Risks(task[t], c, s)), "risk_assessment", c, s)
<1>1. /\ task[t].seen \in Nat /\ task[t].seen <= Len(log["deal"])
      /\ task[t].risks \in Nat /\ task[t].risks <= Len(log["risk"])
      /\ task[t].scores \in Nat /\ task[t].scores <= Len(log["score"])
      /\ "deal" \in Channels /\ "risk" \in Channels /\ "score" \in Channels
  BY TaskTypes DEF TaskState, WellPlaced, Channels
<1>2. Deals(task[t], c, s) # {} =>
          IsAbout("deal", Oldest(Deals(task[t], c, s)), "quote", c, s)
  BY <1>1, InHandProperties DEF Deals, IsAbout
<1>3. Scores(task[t], c, s) # {} =>
          IsAbout("score", Oldest(Scores(task[t], c, s)), "evaluation", c, s)
  BY <1>1, InHandProperties DEF Scores, IsAbout
<1>4. Risks(task[t], c, s) # {} =>
          IsAbout("risk", Oldest(Risks(task[t], c, s)), "risk_assessment", c, s)
  BY <1>1, InHandProperties DEF Risks, IsAbout
<1> QED  BY <1>2, <1>3, <1>4

\* The parents of an award are of its correlation and of the three kinds; those
\* of the winner are among them, with the assessment the policy let pass.
LEMMA AwardAnswers ==
    ASSUME LineageInv, NEW t \in Tasks, t[2] = Buyer, NEW winner, NEW c,
           c \in Awardable(task[t]), IsWinner(task[t], c, winner[c])
    PROVE  LET post == Decision(task[t], c, winner).post
           IN post.type = "award" /\ Descends(log, post) /\ Grounded(log, post)
<1> DEFINE ranked == Candidates(task[t], c)
           deal(s) == <<"deal", Oldest(Deals(task[t], c, s))>>
           score(s) == <<"score", Oldest(Scores(task[t], c, s))>>
           risk(s) == <<"risk", Oldest(Risks(task[t], c, s))>>
           assessed == {x \in ranked : Risks(task[t], c, x) # {}}
           parents == {deal(s) : s \in ranked} \cup {score(s) : s \in ranked}
                        \cup {risk(s) : s \in assessed}
           post == Decision(task[t], c, winner).post
           w == winner[c]
<1>1. TypeInv
  BY LinkedFacts
<1>2. /\ post.type = "award" /\ post.corr = c /\ post.sup = w /\ post.parents = parents
  BY DEF Decision
<1>3. /\ w \in ranked /\ w \in assessed /\ PolicyOk(w, Sized(task[t], c, w))
  BY DEF IsWinner, Valid
<1>4. ASSUME NEW s \in ranked
      PROVE  /\ IsAbout("deal", deal(s)[2], "quote", c, s)
             /\ IsAbout("score", score(s)[2], "evaluation", c, s)
  BY <1>1, HeldAbout DEF Candidates
<1>5. ASSUME NEW s \in assessed PROVE IsAbout("risk", risk(s)[2], "risk_assessment", c, s)
  BY <1>1, HeldAbout
<1>6. ASSUME NEW id \in parents
      PROVE  \/ \E s \in ranked : id = deal(s) \/ id = score(s)
             \/ \E s \in assessed : id = risk(s)
  OBVIOUS
<1>a. deal(w) \in parents /\ score(w) \in parents /\ risk(w) \in parents
  BY <1>3
<1>b. risk(w)[2] = Oldest(Risks(task[t], c, w))
  OBVIOUS
<1>c. \A s : deal(s)[1] = "deal" /\ score(s)[1] = "score" /\ risk(s)[1] = "risk"
  OBVIOUS
<1> HIDE DEF ranked, assessed, parents, post, w, deal, score, risk
<1>7. ASSUME NEW id \in parents
      PROVE  /\ id[2] \in 1 .. Len(log[id[1]])
             /\ log[id[1]][id[2]].corr = c
             /\ log[id[1]][id[2]].type \in {"quote", "evaluation", "risk_assessment"}
  <2>1. ASSUME NEW s \in ranked, id = deal(s)
        PROVE  IsAbout(id[1], id[2], "quote", c, s)
    BY <1>4, <1>c, <2>1
  <2>2. ASSUME NEW s \in ranked, id = score(s)
        PROVE  IsAbout(id[1], id[2], "evaluation", c, s)
    BY <1>4, <1>c, <2>2
  <2>3. ASSUME NEW s \in assessed, id = risk(s)
        PROVE  IsAbout(id[1], id[2], "risk_assessment", c, s)
    BY <1>5, <1>c, <2>3
  <2> QED  BY <1>6, <2>1, <2>2, <2>3 DEF IsAbout
<1>8. /\ IsAbout("deal", deal(w)[2], "quote", c, w)
      /\ IsAbout("score", score(w)[2], "evaluation", c, w)
      /\ IsAbout("risk", risk(w)[2], "risk_assessment", c, w)
  BY <1>3, <1>4, <1>5
<1>9. Descends(log, post)
  <2>1. ParentTypes["award"] = {"quote", "evaluation", "risk_assessment"}
    BY DEF ParentTypes, TraceTypes
  <2>2. /\ log[deal(w)[1]][deal(w)[2]].type = "quote"
        /\ log[score(w)[1]][score(w)[2]].type = "evaluation"
        /\ log[risk(w)[1]][risk(w)[2]].type = "risk_assessment"
    BY <1>8, <1>c DEF IsAbout
  <2>3. {log[id[1]][id[2]].type : id \in parents} = {"quote", "evaluation", "risk_assessment"}
    BY <1>7, <1>a, <2>2
  <2> QED  BY <1>2, <1>7, <2>1, <2>3 DEF Descends
<1>10. Grounded(log, post)
  <2>1. deal(w) \in Backing(log, post, "deal")
    BY <1>2, <1>8, <1>a, <1>c DEF Backing, IsAbout, Key
  <2>2. score(w) \in Backing(log, post, "score")
    BY <1>2, <1>8, <1>a, <1>c DEF Backing, IsAbout, Key
  <2>3. risk(w) \in Backing(log, post, "risk")
    BY <1>2, <1>8, <1>a, <1>c DEF Backing, IsAbout, Key
  <2>4. PolicyOk(post.sup, log["risk"][risk(w)[2]].sized)
    BY <1>2, <1>3, <1>b DEF Sized
  <2> QED  BY <2>1, <2>2, <2>3, <2>4 DEF Grounded
<1> QED  BY <1>2, <1>9, <1>10 DEF post

LEMMA DecisionAnswers ==
    ASSUME LineageInv, NEW t \in Tasks, t[2] = Buyer, NEW winner,
           \A c \in Awardable(task[t]) : IsWinner(task[t], c, winner[c]),
           NEW c \in Open(task[t])
    PROVE  Answers(log, t[2], Decision(task[t], c, winner))
<1> DEFINE p == Decision(task[t], c, winner)
<1>1. t[2] \notin Scouts /\ t[2] \notin Evaluators /\ t[2] \notin Negotiators
  BY LinkedFacts, Kinds
<1>2. CASE c \in Awardable(task[t])
  <2>1. p.post.type = "award" /\ Descends(log, p.post) /\ Grounded(log, p.post)
    BY <1>2, AwardAnswers
  <2> HIDE DEF p
  <2>2. Answers(log, t[2], p)
    BY <1>1, <2>1 DEF Answers, BuyerProposal
  <2> QED  BY <2>2 DEF p
<1>3. CASE c \notin Awardable(task[t])
  <2>1. /\ p.post.type \in {"insufficient_candidates", "policy_rejection"}
        /\ p.post.parents = {}
    BY <1>3 DEF Decision
  <2> HIDE DEF p
  <2>2. /\ ParentTypes["insufficient_candidates"] = {}
        /\ ParentTypes["policy_rejection"] = {}
    BY DEF ParentTypes, TraceTypes
  <2>3. Descends(log, p.post)
    BY <2>1, <2>2 DEF Descends
  <2>4. Answers(log, t[2], p)
    BY <1>1, <2>1, <2>3 DEF Answers, BuyerProposal
  <2> QED  BY <2>4 DEF p
<1> QED  BY <1>2, <1>3

LEMMA BuyerReasonLineage ==
    ASSUME LineageInv, TypeInv', NEW t \in Tasks, BuyerReason(t) PROVE Kept
<1> DEFINE plan(winner) == {Decision(task[t], c, winner) : c \in Open(task[t])}
<1>1. PICK winner \in [Awardable(task[t]) -> Suppliers] :
          /\ \A c \in Awardable(task[t]) : IsWinner(task[t], c, winner[c])
          /\ Step(t, Reasoned(task[t], plan(winner)))
  BY DEF BuyerReason
<1>2. t[2] = Buyer /\ UNCHANGED log /\ TypeInv /\ task[t] \in TaskState
  BY LinkedFacts DEF BuyerReason
<1>3. plan(winner) \in SUBSET Proposal
  BY <1>2, DecisionType
<1>4. \A p \in plan(winner) : Answers(log, t[2], p)
  BY <1>1, <1>2, DecisionAnswers
<1> HIDE DEF plan
<1>5. Linked(log, t[2], Reasoned(task[t], plan(winner)))
  BY <1>2, <1>3, <1>4, ReasonedLinked
<1> QED  BY <1>1, <1>2, <1>5, LocalKeepsLineage

LEMMA BuyerPostDecisionLineage ==
    ASSUME LineageInv, TypeInv', NEW t \in Tasks, BuyerPostDecision(t) PROVE Kept
<1> DEFINE next(p) == Acting(task[t], task[t].plan \ {p})
<1>1. PICK p \in task[t].plan : Post("decision", p.post) /\ Step(t, next(p))
  BY DEF BuyerPostDecision
<1>2. /\ t[2] = Buyer /\ p.post \in Trace /\ "decision" \in Channels /\ Answers(log, t[2], p)
  BY LinkedFacts DEF BuyerPostDecision, Proposal, Channels
<1>3. Sound(log, "decision", p.post)
  BY <1>2 DEF Sound, Answers, BuyerProposal
<1>4. Extended
  BY <1>1, <1>2, <1>3 DEF Extended, Extends
<1>5. Linked(log', t[2], next(p))
  BY <1>4, GoesOnLinked
<1> HIDE DEF next
<1> QED  BY <1>1, <1>4, <1>5, TaskKeepsLineage

(***************************************************************************)
(* Failures, calls of run_procurement, and processes that die.             *)
(***************************************************************************)
LEMMA DepositFailureLineage ==
    ASSUME LineageInv, TypeInv', NEW t \in Tasks, DepositFailure(t) PROVE Kept
<1> DEFINE trace == Failure(t[2])
<1>1. trace \in Trace /\ trace.type = "failure" /\ trace.parents = {}
  BY FailureType DEF Failure
<1>2. ASSUME NEW ch \in {"discovery", "score"}, Post(ch, trace) PROVE Extended
  <2> HIDE DEF trace
  <2>1. ch \in Channels /\ ch # "requirement" /\ ch # "deal"
    BY DEF Channels
  <2>2. ParentTypes["failure"] = {}
    BY DEF ParentTypes, TraceTypes
  <2>3. Sound(log, ch, trace)
    BY <1>1, <2>1, <2>2 DEF Sound, Descends
  <2> QED  BY <1>1, <1>2, <2>1, <2>3 DEF Extended, Extends
<1>3. UNCHANGED log => Extended
  BY DEF Extended
<1> QED  BY <1>2, <1>3, DepositCases, RestingStates, TaskKeepsLineage

LEMMA LetGoLineage ==
    ASSUME LineageInv, TypeInv', NEW t \in Tasks, LetGo(t) PROVE Kept
BY LetGoCases, RestingStates, LocalKeepsLineage

\* The tasks are replaced by fresh or dead ones, or left alone.
LEMMA ReplacedLineage ==
    ASSUME LineageInv, TypeInv', Extended,
           \A t \in Tasks : \/ task'[t] \in {task[t], Failed, [Idle EXCEPT !.pc = "perceive"]}
                            \/ \E n : task'[t] = [Idle EXCEPT !.pc = "perceive", !.tries = n]
    PROVE  Kept
<1>1. log \in Boards /\ log' \in Boards /\ Grows(log, log')
  BY ExtendedGrows DEF LineageInv, TypeInv
<1>2. ASSUME NEW t \in Tasks PROVE Linked(log', t[2], task'[t])
  <2>1. Linked(log', t[2], task[t])
    BY <1>1, LinkedFacts, LinkedStays
  <2>2. CASE task'[t] = task[t]
    BY <2>1, <2>2
  <2>3. CASE task'[t] = Failed \/ task'[t] = [Idle EXCEPT !.pc = "perceive"]
    <3>1. task'[t].plan = {} /\ task'[t].pc \in {"failed", "perceive"}
      BY <2>3 DEF Failed, Idle
    <3> QED  BY <3>1, RestLinked
  <2>4. ASSUME NEW n, task'[t] = [Idle EXCEPT !.pc = "perceive", !.tries = n]
        PROVE  Linked(log', t[2], task'[t])
    <3>1. task'[t].plan = {} /\ task'[t].pc = "perceive"
      BY <2>4 DEF Idle
    <3> QED  BY <3>1, RestLinked
  <2> QED  BY <2>2, <2>3, <2>4
<1> QED  BY <1>2, KeepsLineage

LEMMA LaunchReplaces ==
    ASSUME NEW r, NEW actors, Launch(r, actors)
    PROVE  \A t \in Tasks : task'[t] \in {task[t], Failed, [Idle EXCEPT !.pc = "perceive"]}
BY DEF Launch

LEMMA SubmitLineage == ASSUME LineageInv, TypeInv', NEW r \in Runs, Submit(r) PROVE Kept
<1> DEFINE trace == [by |-> "kernel", type |-> "requirement", corr |-> CorrOf[r],
                     sup |-> NoSupplier, parents |-> {}, sized |-> FALSE]
<1>1. Post("requirement", trace) /\ Launch(r, Scouts)
  BY DEF Submit
<1>2. /\ "requirement" \in Channels /\ trace \in Trace /\ trace.type = "requirement"
      /\ trace.sup = NoSupplier /\ trace.parents = {}
  BY RunsAssumption DEF Channels, Trace, Archetypes, TraceTypes
<1> HIDE DEF trace
<1>3. Sound(log, "requirement", trace)
  <2>1. ParentTypes["requirement"] = {}
    BY DEF ParentTypes, TraceTypes
  <2> QED  BY <1>2, <2>1 DEF Sound, Descends
<1>4. Extended
  BY <1>1, <1>2, <1>3 DEF Extended, Extends
<1> QED  BY <1>1, <1>4, LaunchReplaces, ReplacedLineage

LEMMA RunStepLineage == ASSUME LineageInv, TypeInv', NEW r \in Runs, RunStep(r) PROVE Kept
<1>1. Extended
  BY DEF RunStep, GatherScouts, GatherEvaluators, GatherNegotiators, Gathered, BuyerReturned,
         ReadDecision, Extended
<1>2. CASE GatherScouts(r) \/ GatherEvaluators(r) \/ GatherNegotiators(r)
  <2>1. \E actors : Launch(r, actors)
    BY <1>2 DEF GatherScouts, GatherEvaluators, GatherNegotiators, Gathered
  <2> QED  BY <1>1, <2>1, LaunchReplaces, ReplacedLineage
<1>3. CASE BuyerReturned(r) \/ ReadDecision(r)
  <2>1. UNCHANGED task
    BY <1>3 DEF BuyerReturned, ReadDecision
  <2> QED  BY <1>1, <2>1, ReplacedLineage
<1> QED  BY <1>2, <1>3 DEF RunStep

LEMMA CrashLineage == ASSUME LineageInv, TypeInv', NEW a \in Fallible, Crash(a) PROVE Kept
<1>1. Extended
  BY DEF Crash, Extended
<1>2. \A t \in Tasks : \/ task'[t] \in {task[t], Failed}
                       \/ \E n : task'[t] = [Idle EXCEPT !.pc = "perceive", !.tries = n]
  <2> SUFFICES ASSUME NEW t \in Tasks
               PROVE  \/ task'[t] \in {task[t], Failed}
                      \/ \E n : task'[t] = [Idle EXCEPT !.pc = "perceive", !.tries = n]
    OBVIOUS
  <2>1. \/ task'[t] \in {task[t], Failed}
        \/ task'[t] = [Idle EXCEPT !.pc = "perceive", !.tries = task[t].tries + 1]
    BY DEF Crash
  <2> QED  BY <2>1
<1> QED  BY <1>1, <1>2, ReplacedLineage

LEMMA TaskStepLineage ==
    ASSUME LineageInv, TypeInv', NEW t \in Tasks, TaskStep(t) PROVE Kept
<1>1. CASE ScoutStep(t)
  BY <1>1, PerceiveLineage, ScoutReasonLineage, ScoutPostListLineage, ScoutPostSupplierLineage
     DEF ScoutStep, ScoutPerceive
<1>2. CASE EvaluatorStep(t)
  BY <1>2, PerceiveLineage, ScanLineage, EvaluatorReadsLineage, EvaluatorMarkLineage,
     EvaluatorPostScoreLineage, EvaluatorPostRiskLineage
     DEF EvaluatorStep, EvaluatorPerceive
<1>3. CASE NegotiatorStep(t)
  BY <1>3, PerceiveLineage, ScanLineage, NegotiatorReadPoolLineage, NegotiatorMarkLineage,
     NegotiatorPostQuoteLineage
     DEF NegotiatorStep, NegotiatorPerceive
<1>4. CASE BuyerStep(t)
  BY <1>4, BuyerReadsLineage, BuyerReasonLineage, BuyerPostDecisionLineage DEF BuyerStep
<1>5. CASE LetGo(t) \/ DepositFailure(t)
  BY <1>5, LetGoLineage, DepositFailureLineage
<1> QED  BY <1>1, <1>2, <1>3, <1>4, <1>5 DEF TaskStep, LetGo

LEMMA NextLineage == LineageInv /\ [Next]_vars => Kept
<1> SUFFICES ASSUME LineageInv, [Next]_vars PROVE Kept
  OBVIOUS
<1>1. TypeInv'
  BY NextTypes DEF LineageInv
<1>2. ASSUME NEW r \in Runs, Submit(r) \/ RunStep(r) PROVE Kept
  BY <1>1, <1>2, SubmitLineage, RunStepLineage
<1>3. ASSUME NEW t \in Tasks, TaskStep(t) PROVE Kept
  BY <1>1, <1>3, TaskStepLineage
<1>4. ASSUME NEW a \in Fallible, Crash(a) PROVE Kept
  BY <1>1, <1>4, CrashLineage
<1>5. CASE UNCHANGED vars
  BY <1>1, <1>5, ReplacedLineage DEF vars, Extended
<1> QED  BY <1>2, <1>3, <1>4, <1>5 DEF Next

LEMMA InitLineage == Init => LineageInv
<1> SUFFICES ASSUME Init PROVE LineageInv
  OBVIOUS
<1>1. TypeInv
  BY InitTypes
<1>2. \A ch \in Channels : log[ch] = <<>>
  BY DEF Init
<1>3. \A ch \in Channels : DOMAIN log[ch] = {}
  <2>1. DOMAIN <<>> = {}
    OBVIOUS
  <2> QED  BY <1>2, <2>1
<1>4. ASSUME NEW t \in Tasks PROVE Linked(log, t[2], task[t])
  <2>1. task[t] = Idle
    BY DEF Init
  <2> QED  BY <2>1, RestingStates
<1> QED  BY <1>1, <1>3, <1>4 DEF LineageInv

LEMMA LineageAlways == Spec => []LineageInv
<1>1. LineageInv /\ [Next]_vars => LineageInv'
  BY NextLineage DEF Kept
<1> QED  BY <1>1, InitLineage, PTL DEF Spec

\* Every trace descends only from traces of its own correlation, of the kinds
\* its archetype answers and about the same supplier, although every run shares
\* every actor, channel and read window and a step uses positions it kept across
\* suspensions (mesh/actors/*.py, the parent_ids of each write).
THEOREM LineageKept == Spec => []Lineage
<1>1. LineageInv => Lineage
  BY DEF LineageInv, Lineage, Sound
<1> QED  BY <1>1, LineageAlways, PTL

\* Whoever is awarded has a quote, an evaluation and a risk assessment among the
\* award's parents, and that assessment is one the policy lets pass
\* (buyer.py, reason and _passes_policy_filter).
THEOREM AwardsGrounded == Spec => []AwardGrounded
<1>1. LineageInv => AwardGrounded
  BY DEF LineageInv, AwardGrounded, Decisions, Sound, Channels
<1> QED  BY <1>1, LineageAlways, PTL

\* The channels and capabilities of TraceLog are those of Mesh.
LEMMA SameChannels ==
    Blackboard!Channels = Channels /\ \A a, ch : Blackboard!CanWrite(a, ch) <=> CanWrite(a, ch)
BY DEF Blackboard!Channels, Channels, Blackboard!CanWrite, CanWrite, Blackboard!Writers, Writers

\* What Mesh does to the blackboard is what TraceLog allows: each step appends at
\* most one trace, of a writer with the capability, whose parents are there, and
\* changes nothing that is written (mesh/blackboard.py, write).
THEOREM BlackboardRefined == Spec => AppendOnly
<1>1. Init => Blackboard!Init
  BY SameChannels DEF Init, Blackboard!Init
<1>2. LineageInv /\ [Next]_vars => [Blackboard!Next]_log
  <2> SUFFICES ASSUME LineageInv, [Next]_vars, NEW ch, NEW trace, Extends(ch, trace)
               PROVE  Blackboard!Append1(ch) /\ ch \in Channels
    BY NextLineage, SameChannels DEF Kept, Extended, Extends, Blackboard!Next
  <2>1. TypeOK /\ ch \in Channels /\ trace \in Trace /\ Sound(log, ch, trace)
    BY DEF Extends, LineageInv, TypeInv
  <2>2. /\ Len(log'[ch]) = Len(log[ch]) + 1
        /\ log'[ch][Len(log[ch]) + 1] = trace
        /\ \A i \in 1 .. Len(log[ch]) : log'[ch][i] = log[ch][i]
    BY <2>1, PostEffect DEF Extends, Grows
  <2>3. log' = [log EXCEPT ![ch] = log'[ch]]
    BY <2>1 DEF Extends, Post, TypeOK
  <2>4. CanWrite(trace.by, ch)
    BY DEF Extends, Post
  <2>5. \A id \in trace.parents : Blackboard!IsRecorded(id)
    <3> SUFFICES ASSUME NEW id \in trace.parents
                 PROVE  id[1] \in Channels /\ id[2] \in DOMAIN log[id[1]]
      BY SameChannels DEF Blackboard!IsRecorded
    <3>1. id[1] \in Channels /\ id[2] \in 1 .. Len(log[id[1]])
      BY <2>1 DEF Sound, Descends, Trace, TraceIds
    <3> QED  BY <2>1, <3>1, ReadTrace
  <2> QED  BY <2>1, <2>2, <2>3, <2>4, <2>5, SameChannels DEF Blackboard!Append1
<1> QED  BY <1>1, <1>2, LineageAlways, PTL DEF Spec, AppendOnly, Blackboard!Spec

(***************************************************************************)
(* What a step leaves alone: the locals of the other steps, and DECISION   *)
(* unless it writes a decision.                                            *)
(***************************************************************************)
LEMMA MovesItself == ASSUME NEW t, TaskStep(t) PROVE \E state : Step(t, state)
<1>1. CASE ScoutStep(t)
  BY <1>1, Zenon DEF ScoutStep, ScoutPerceive, Perceive, ScoutReason, ScoutPostList, ScoutPostSupplier
<1>2. CASE EvaluatorStep(t)
  <2>1. CASE EvaluatorScan(t) \/ EvaluatorMark(t)
    BY <2>1, Zenon DEF EvaluatorScan, EvaluatorMark, NextTrace
  <2>2. CASE \/ EvaluatorPerceive(t) \/ EvaluatorReadPool(t) \/ EvaluatorReadRequirement(t)
             \/ EvaluatorPostScore(t) \/ EvaluatorPostRisk(t)
    BY <2>2, Zenon DEF EvaluatorPerceive, Perceive, EvaluatorReadPool,
       EvaluatorReadRequirement, EvaluatorPostScore, EvaluatorPostRisk
  <2> QED  BY <1>2, <2>1, <2>2 DEF EvaluatorStep
<1>3. CASE NegotiatorStep(t)
  BY <1>3, Zenon DEF NegotiatorStep, NegotiatorPerceive, Perceive, NegotiatorScan, NextTrace,
          NegotiatorReadPool, NegotiatorMark, NegotiatorPostQuote
<1>4. CASE BuyerStep(t)
  BY <1>4, Zenon DEF BuyerStep, BuyerReadDeals, BuyerReadRisks, BuyerReadScores, BuyerReason,
          BuyerPostDecision
<1>5. CASE LetGo(t) \/ DepositFailure(t)
  BY <1>5, LetGoCases DEF DepositFailure
<1> QED  BY <1>1, <1>2, <1>3, <1>4, <1>5 DEF TaskStep, LetGo

LEMMA DecisionsUntouched ==
    ASSUME TypeInv, NEW t \in Tasks, TaskStep(t), ~BuyerPostDecision(t)
    PROVE  log'["decision"] = log["decision"]
<1> USE DEF TypeInv
<1>1. CASE ScoutStep(t)
  BY <1>1, PostElsewhere
     DEF ScoutStep, ScoutPerceive, Perceive, ScoutReason, ScoutPostList, ScoutPostSupplier
<1>2. CASE EvaluatorStep(t)
  BY <1>2, PostElsewhere
     DEF EvaluatorStep, EvaluatorPerceive, Perceive, EvaluatorScan, EvaluatorReadPool,
         EvaluatorReadRequirement, EvaluatorMark, EvaluatorPostScore, EvaluatorPostRisk
<1>3. CASE NegotiatorStep(t)
  BY <1>3, PostElsewhere
     DEF NegotiatorStep, NegotiatorPerceive, Perceive, NegotiatorScan,
         NegotiatorReadPool, NegotiatorMark, NegotiatorPostQuote
<1>4. CASE BuyerStep(t)
  BY <1>4 DEF BuyerStep, BuyerReadDeals, BuyerReadRisks, BuyerReadScores, BuyerReason
<1>5. CASE LetGo(t)
  BY <1>5, LetGoCases
<1>6. CASE DepositFailure(t)
  <2>1. Failure(t[2]) \in Trace
    BY FailureType
  <2> QED  BY <1>6, <2>1, DepositCases, PostElsewhere
<1> QED  BY <1>1, <1>2, <1>3, <1>4, <1>5, <1>6 DEF TaskStep, LetGo

\* DECISION grows by what a buyer's step had planned.
LEMMA DecisionsPlanned ==
    ASSUME TypeInv, [Next]_vars
    PROVE  \/ log'["decision"] = log["decision"]
           \/ \E t \in Tasks : \E p \in task[t].plan : t[2] = Buyer /\ Post("decision", p.post)
<1>1. ASSUME NEW r \in Runs, Submit(r) PROVE log'["decision"] = log["decision"]
  BY <1>1, PostElsewhere DEF TypeInv, Submit
<1>2. ASSUME NEW r \in Runs, RunStep(r) PROVE log'["decision"] = log["decision"]
  BY <1>2 DEF RunStep, GatherScouts, GatherEvaluators, GatherNegotiators, Gathered, BuyerReturned,
              ReadDecision
<1>3. ASSUME NEW t \in Tasks, BuyerPostDecision(t)
      PROVE  \E p \in task[t].plan : t[2] = Buyer /\ Post("decision", p.post)
  BY <1>3 DEF BuyerPostDecision
<1>4. ASSUME NEW a \in Fallible, Crash(a) PROVE log'["decision"] = log["decision"]
  BY <1>4 DEF Crash
<1>5. CASE UNCHANGED vars
  BY <1>5 DEF vars
<1> QED  BY <1>1, <1>2, <1>3, <1>4, <1>5, DecisionsUntouched DEF Next

\* How the step of a buyer moves: it is given less to write, reads SCORE, or
\* reasons.
LEMMA BuyerMoves ==
    ASSUME TypeInv, [Next]_vars, NEW t \in Tasks, t[2] = Buyer
    PROVE  \/ task'[t] = task[t]
           \/ task'[t].plan \subseteq task[t].plan /\ task'[t].pc # "reason"
           \/ BuyerReadScores(t)
           \/ BuyerReason(t)
<1> DEFINE Less == task'[t].plan \subseteq task[t].plan /\ task'[t].pc # "reason"
<1>1. /\ TypeOK /\ task[t] \in TaskState /\ t[2] \in Actors
      /\ t[2] \notin Scouts /\ t[2] \notin Evaluators /\ t[2] \notin Negotiators
  BY TaskTypes, Kinds DEF TypeInv
<1>2. ASSUME NEW next, task'[t] = next,
             \/ next = Failed \/ next = Done \/ next = [Idle EXCEPT !.pc = "perceive"]
             \/ \E n : next = [Idle EXCEPT !.pc = "perceive", !.tries = n]
      PROVE  Less
  <2>1. /\ Failed.plan = {} /\ Failed.pc # "reason" /\ Done.plan = {} /\ Done.pc # "reason"
        /\ [Idle EXCEPT !.pc = "perceive"].plan = {}
        /\ [Idle EXCEPT !.pc = "perceive"].pc # "reason"
        /\ \A n : [Idle EXCEPT !.pc = "perceive", !.tries = n].plan = {}
        /\ \A n : [Idle EXCEPT !.pc = "perceive", !.tries = n].pc # "reason"
    BY DEF Failed, Done, Idle
  <2> QED  BY <1>2, <2>1
<1>3. ASSUME NEW r \in Runs, Submit(r) \/ RunStep(r) PROVE task'[t] = task[t] \/ Less
  <2>1. CASE \E actors : Launch(r, actors)
    BY <1>2, <2>1, LaunchReplaces
  <2>2. CASE UNCHANGED task
    BY <2>2
  <2> QED  BY <1>3, <2>1, <2>2 DEF Submit, RunStep, GatherScouts, GatherEvaluators,
              GatherNegotiators, Gathered, BuyerReturned, ReadDecision
<1>4. ASSUME NEW a \in Fallible, Crash(a) PROVE task'[t] = task[t] \/ Less
  <2>1. \/ task'[t] \in {task[t], Failed}
        \/ task'[t] = [Idle EXCEPT !.pc = "perceive", !.tries = task[t].tries + 1]
    BY <1>4 DEF Crash
  <2> QED  BY <1>2, <2>1
<1>5. ASSUME NEW u \in Tasks, TaskStep(u), u # t PROVE task'[t] = task[t]
  BY <1>1, <1>5, MovesItself, StepElsewhere
<1>6. CASE BuyerReadDeals(t) \/ BuyerReadRisks(t)
  <2> USE <1>1 DEF TaskState, Step, TypeOK
  <2>1. CASE BuyerReadDeals(t)
    BY <2>1 DEF BuyerReadDeals
  <2>2. CASE BuyerReadRisks(t)
    BY <2>2 DEF BuyerReadRisks
  <2> QED  BY <1>6, <2>1, <2>2
<1>7. CASE BuyerPostDecision(t)
  <2>1. PICK p \in task[t].plan : Step(t, Acting(task[t], task[t].plan \ {p}))
    BY <1>7 DEF BuyerPostDecision
  <2>2. task[t].plan \ {p} \in SUBSET Proposal
    BY PostTypes
  <2>3. task'[t] = Acting(task[t], task[t].plan \ {p})
    BY <1>1, <2>1 DEF Step, TypeOK
  <2> QED  BY <1>1, <2>2, <2>3, ActingType
<1>8. CASE LetGo(t) \/ DepositFailure(t)
  <2>1. \E state \in {Raised(task[t]), Done} : Step(t, state)
    BY <1>8, LetGoCases, DepositCases
  <2>2. task'[t] \in {Raised(task[t]), Done}
    BY <1>1, <2>1 DEF Step, TypeOK
  <2>3. Raised(task[t]).plan = {} /\ Raised(task[t]).pc = "fail"
    BY <1>1, RaisedType
  <2> QED  BY <1>2, <2>2, <2>3
<1>9. ASSUME TaskStep(t)
      PROVE  task'[t] = task[t] \/ Less \/ BuyerReadScores(t) \/ BuyerReason(t)
  <2>1. BuyerStep(t) \/ LetGo(t) \/ DepositFailure(t)
    BY <1>1, <1>9 DEF TaskStep, LetGo, ScoutStep, EvaluatorStep, NegotiatorStep, ScoutPerceive,
           ScoutReason, ScoutPostList, ScoutPostSupplier, EvaluatorPerceive, EvaluatorScan,
           EvaluatorReadPool, EvaluatorReadRequirement, EvaluatorMark, EvaluatorPostScore,
           EvaluatorPostRisk, NegotiatorPerceive, NegotiatorScan, NegotiatorReadPool,
           NegotiatorMark, NegotiatorPostQuote
  <2> QED  BY <1>6, <1>7, <1>8, <2>1 DEF BuyerStep
<1>10. CASE UNCHANGED vars
  BY <1>10 DEF vars
<1> QED  BY <1>3, <1>4, <1>5, <1>9, <1>10 DEF Next

(***************************************************************************)
(* The buyer lacks no candidate.                                           *)
(***************************************************************************)
LEMMA ScoredStays ==
    ASSUME NEW board \in Boards, NEW later \in Boards, Grows(board, later), NEW a,
           NEW state \in TaskState, WellPlaced(board, a, state), ScoredInHand(board, a, state)
    PROVE  ScoredInHand(later, a, state)
<1> SUFFICES ASSUME a = Buyer, state.pc = "reason", NEW i \in 1 .. state.seen
             PROVE  Evaluated(later, state.scores, later["deal"][i])
  BY DEF ScoredInHand
<1>1. Evaluated(board, state.scores, board["deal"][i])
  BY DEF ScoredInHand
<1>2. /\ state.scores \in Nat /\ state.scores <= Len(board["score"])
      /\ state.seen \in Nat /\ state.seen <= Len(board["deal"])
  BY DEF WellPlaced, TaskState
<1>3. "deal" \in Channels /\ board["deal"] \in Seq(Trace)
  BY DEF Channels, Boards
<1>4. i \in 1 .. Len(board["deal"])
  BY <1>2, <1>3
<1>5. later["deal"][i] = board["deal"][i]
  BY <1>3, <1>4, Recorded
<1> QED  BY <1>1, <1>2, <1>5, EvaluatedStays

\* DEAL is read before SCORE, and what is on it was evaluated when written.
LEMMA ReadInTime ==
    ASSUME LineageInv, NEW t \in Tasks, BuyerReadScores(t)
    PROVE  ScoredInHand(log, t[2], task'[t])
<1>1. /\ TypeOK /\ task[t] \in TaskState /\ t[2] = Buyer /\ WellPlaced(log, t[2], task[t])
      /\ Len(log["deal"]) \in Nat /\ Len(log["score"]) \in Nat
  BY LinkedFacts DEF BuyerReadScores, Channels
<1>2. task'[t].seen = task[t].seen /\ task'[t].scores = Len(log["score"])
  BY <1>1 DEF BuyerReadScores, Step, TypeOK, TaskState
<1>3. task[t].seen \in Nat /\ task[t].seen <= Len(log["deal"])
  BY <1>1 DEF WellPlaced, TaskState
<1>4. ASSUME NEW i \in 1 .. task[t].seen
      PROVE  Evaluated(log, Len(log["score"]), log["deal"][i])
  <2>1. i \in 1 .. Len(log["deal"]) /\ "deal" \in Channels
    BY <1>1, <1>3 DEF Channels
  <2>2. Sound(log, "deal", log["deal"][i])
    BY <2>1, LinkedFacts
  <2> QED  BY <2>2 DEF Sound
<1> QED  BY <1>2, <1>4 DEF ScoredInHand

LEMMA ScoredKept ==
    ASSUME ScoredInv, [Next]_vars, NEW t \in Tasks
    PROVE  ScoredInHand(log', t[2], task'[t])
<1>1. LineageInv /\ TypeInv /\ Kept
  BY NextLineage DEF ScoredInv, LineageInv
<1>2. log \in Boards /\ log' \in Boards /\ Grows(log, log')
  BY <1>1, ExtendedGrows DEF Kept, TypeInv
<1>3. /\ task[t] \in TaskState /\ WellPlaced(log, t[2], task[t])
      /\ ScoredInHand(log, t[2], task[t])
  BY <1>1, TaskTypes DEF ScoredInv
<1>4. CASE task'[t] = task[t]
  BY <1>2, <1>3, <1>4, ScoredStays
<1>5. CASE t[2] # Buyer \/ task'[t].pc # "reason"
  BY <1>5 DEF ScoredInHand
<1>6. CASE BuyerReadScores(t)
  <2>1. ScoredInHand(log, t[2], task'[t]) /\ UNCHANGED log
    BY <1>1, <1>6, ReadInTime DEF BuyerReadScores
  <2> QED  BY <2>1
<1>7. CASE BuyerReason(t)
  <2>1. PICK winner \in [Awardable(task[t]) -> Suppliers] :
            Step(t, Reasoned(task[t], {Decision(task[t], c, winner) : c \in Open(task[t])}))
    BY <1>7 DEF BuyerReason
  <2> DEFINE plan == {Decision(task[t], c, winner) : c \in Open(task[t])}
  <2>2. plan \in SUBSET Proposal
    BY <1>1, <1>7, DecisionType DEF BuyerReason
  <2>3. task'[t] = Reasoned(task[t], plan)
    BY <1>1, <2>1 DEF Step, TypeInv, TypeOK
  <2> HIDE DEF plan
  <2>4. task'[t].pc # "reason"
    BY <1>3, <2>2, <2>3, ReasonedType
  <2> QED  BY <1>5, <2>4
<1> QED  BY <1>1, <1>4, <1>5, <1>6, <1>7, BuyerMoves

\* A quote in hand whose evaluation is in hand makes its supplier a candidate,
\* as long as one read takes in all of SCORE.
LEMMA DealtHasCandidate ==
    ASSUME ScoredInv, NEW t \in Tasks, t[2] = Buyer, task[t].pc = "reason",
           Len(log["score"]) <= BuyerLimit, NEW c \in DealtCorrs(task[t])
    PROVE  Candidates(task[t], c) # {}
<1>1. LineageInv /\ ScoredInHand(log, t[2], task[t])
  BY DEF ScoredInv
<1>2. /\ task[t].seen \in Nat /\ task[t].seen <= Len(log["deal"])
      /\ task[t].scores \in Nat /\ task[t].scores <= Len(log["score"])
      /\ Len(log["deal"]) \in Nat /\ Len(log["score"]) \in Nat
      /\ "deal" \in Channels /\ "score" \in Channels /\ BuyerLimit \in Nat
  BY <1>1, LinkedFacts, BoundsAssumption DEF TaskState, WellPlaced, Channels
<1>3. PICK i \in Window(task[t].seen, BuyerLimit) : log["deal"][i].corr = c
  BY DEF DealtCorrs
<1> DEFINE s == log["deal"][i].sup
<1>4. i \in 1 .. task[t].seen /\ i \in 1 .. Len(log["deal"])
  BY <1>2, <1>3, WindowProperties
<1>5. Sound(log, "deal", log["deal"][i])
  BY <1>1, <1>2, <1>4, LinkedFacts
<1>6. log["deal"][i].type = "quote" /\ s \in Suppliers
  BY <1>5 DEF Sound
<1>7. PICK j \in 1 .. task[t].scores : /\ log["score"][j].type = "evaluation"
                                       /\ Key(log["score"][j]) = Key(log["deal"][i])
  BY <1>1, <1>4 DEF ScoredInHand, Evaluated
<1>8. i \in Deals(task[t], c, s)
  BY <1>3, <1>6 DEF Deals, InHand
<1>9. j \in Scores(task[t], c, s)
  <2>1. j \in Window(task[t].scores, BuyerLimit)
    BY <1>2, <1>7 DEF Window
  <2>2. log["score"][j].corr = c /\ log["score"][j].sup = s
    BY <1>3, <1>7 DEF Key
  <2> QED  BY <1>7, <2>1, <2>2 DEF Scores, InHand
<1> QED  BY <1>6, <1>8, <1>9 DEF Candidates

\* Only the buyer decides, and while a read takes in SCORE it finds a candidate.
LEMMA NoneInsufficient ==
    ASSUME ScoredInv, [Next]_vars, Len(log["score"]) <= BuyerLimit,
           NEW t \in Tasks, NEW p \in task'[t].plan
    PROVE  p.post.type # "insufficient_candidates"
<1>1. LineageInv /\ LineageInv' /\ TypeInv
  BY NextLineage DEF ScoredInv, LineageInv, Kept
<1>2. /\ Answers(log', t[2], p) /\ t[2] \in Actors /\ task[t] \in TaskState
      /\ \A q \in task[t].plan : q.post.type # "insufficient_candidates"
  <2>1. Linked(log', t[2], task'[t])
    BY <1>1 DEF LineageInv
  <2>2. t[2] \in Actors /\ task[t] \in TaskState
    BY <1>1, TaskTypes
  <2> QED  BY <2>1, <2>2 DEF Linked, ScoredInv
<1>3. CASE t[2] # Buyer
  BY <1>2, <1>3 DEF Answers, ScoutProposal, EvaluatorProposal, NegotiatorProposal, Actors
<1>4. CASE BuyerReason(t)
  <2>1. PICK winner \in [Awardable(task[t]) -> Suppliers] :
            Step(t, Reasoned(task[t], {Decision(task[t], c, winner) : c \in Open(task[t])}))
    BY <1>4 DEF BuyerReason
  <2> DEFINE plan == {Decision(task[t], c, winner) : c \in Open(task[t])}
  <2>2. plan \in SUBSET Proposal
    BY <1>1, <1>4, DecisionType DEF BuyerReason
  <2>3. task'[t] = Reasoned(task[t], plan)
    BY <1>1, <2>1 DEF Step, TypeInv, TypeOK
  <2>4. p \in plan
    <3> HIDE DEF plan
    <3> QED  BY <1>2, <2>2, <2>3, ReasonedType
  <2>5. PICK c \in Open(task[t]) : p = Decision(task[t], c, winner)
    BY <2>4
  <2>6. c \in DealtCorrs(task[t]) /\ t[2] = Buyer /\ task[t].pc = "reason"
    BY <1>4, <2>5 DEF Open, BuyerReason
  <2>7. Candidates(task[t], c) # {}
    BY <2>6, DealtHasCandidate
  <2> QED  BY <2>5, <2>7 DEF Decision
<1>5. CASE task'[t].plan \subseteq task[t].plan
  BY <1>2, <1>5
<1>6. CASE BuyerReadScores(t)
  <2>1. task'[t].plan = task[t].plan
    BY <1>1, <1>2, <1>6 DEF BuyerReadScores, Step, TypeInv, TypeOK, TaskState
  <2> QED  BY <1>5, <2>1
<1> QED  BY <1>1, <1>3, <1>4, <1>5, <1>6, BuyerMoves

LEMMA NextScored == ScoredInv /\ [Next]_vars => ScoredInv'
<1> SUFFICES ASSUME ScoredInv, [Next]_vars PROVE ScoredInv'
  OBVIOUS
<1>1. LineageInv /\ TypeInv /\ LineageInv' /\ Kept
  BY NextLineage DEF ScoredInv, LineageInv, Kept
<1>2. /\ "score" \in Channels /\ "decision" \in Channels
      /\ Len(log["score"]) \in Nat /\ Len(log'["score"]) \in Nat
      /\ Len(log["score"]) <= Len(log'["score"])
  <2>1. log \in Boards /\ log' \in Boards /\ Grows(log, log') /\ "score" \in Channels
    BY <1>1, ExtendedGrows DEF Kept, TypeInv, Channels
  <2>2. log["score"] \in Seq(Trace) /\ log'["score"] \in Seq(Trace)
    BY <2>1 DEF Boards
  <2> QED  BY <2>1, <2>2 DEF Grows, Channels
<1>3. ASSUME NEW i \in DOMAIN log'["decision"], Len(log["score"]) <= BuyerLimit
      PROVE  log'["decision"][i].type # "insufficient_candidates"
  <2>1. \A j \in DOMAIN log["decision"] : log["decision"][j].type # "insufficient_candidates"
    BY <1>3 DEF ScoredInv, NeverInsufficient, Decisions
  <2>2. CASE log'["decision"] = log["decision"]
    BY <1>3, <2>1, <2>2
  <2>3. ASSUME NEW t \in Tasks, NEW p \in task[t].plan, Post("decision", p.post)
        PROVE  log'["decision"][i].type # "insufficient_candidates"
    <3>1. p.post.type # "insufficient_candidates" /\ p.post \in Trace /\ TypeOK
      BY <1>1, <1>3, PostTypes DEF ScoredInv, TypeInv
    <3>2. /\ Len(log'["decision"]) = Len(log["decision"]) + 1
          /\ log'["decision"][Len(log["decision"]) + 1] = p.post
          /\ \A j \in 1 .. Len(log["decision"]) : log'["decision"][j] = log["decision"][j]
      BY <1>2, <2>3, <3>1, PostEffect DEF Grows
    <3>3. /\ DOMAIN log["decision"] = 1 .. Len(log["decision"]) /\ Len(log["decision"]) \in Nat
          /\ DOMAIN log'["decision"] = 1 .. Len(log'["decision"])
      BY <1>1, <1>2, ReadTrace DEF LineageInv, TypeInv, TypeOK
    <3> QED  BY <1>3, <2>1, <3>1, <3>2, <3>3
  <2> QED  BY <1>1, <2>2, <2>3, DecisionsPlanned
<1>4. ASSUME Len(log'["score"]) <= BuyerLimit PROVE Len(log["score"]) <= BuyerLimit
  BY <1>2, <1>4, BoundsAssumption
<1>5. \A t \in Tasks : ScoredInHand(log', t[2], task'[t])
  BY ScoredKept
<1>6. Len(log'["score"]) <= BuyerLimit =>
          /\ NeverInsufficient'
          /\ \A t \in Tasks : \A p \in task'[t].plan : p.post.type # "insufficient_candidates"
  BY <1>3, <1>4, NoneInsufficient DEF NeverInsufficient, Decisions
<1> QED  BY <1>1, <1>5, <1>6 DEF ScoredInv

\* While one read of the buyer takes in all of SCORE, no correlation with a quote
\* is refused for want of a scored supplier, whatever runs overlap and processes
\* die between its three reads (buyer.py, perceive and reason).  Past
\* that limit the evaluation of a quote in hand may have left the window.
THEOREM CandidatesFound == Spec => [](Len(log["score"]) <= BuyerLimit => NeverInsufficient)
<1>1. Init => ScoredInv
  <2> SUFFICES ASSUME Init PROVE ScoredInv
    OBVIOUS
  <2>1. LineageInv
    BY InitLineage
  <2>2. log["decision"] = <<>> /\ \A t \in Tasks : task[t].plan = {} /\ task[t].pc = "idle"
    BY DEF Init, Idle, Channels
  <2> QED  BY <2>1, <2>2 DEF ScoredInv, NeverInsufficient, Decisions, ScoredInHand
<1>2. ScoredInv /\ [Next]_vars => ScoredInv'
  BY NextScored
<1>3. ScoredInv => (Len(log["score"]) <= BuyerLimit => NeverInsufficient)
  BY DEF ScoredInv
<1> QED  BY <1>1, <1>2, <1>3, PTL DEF Spec

(***************************************************************************)
(* Marks are answered.  A step keeps what its actor remembers if what was  *)
(* pending still is or is written, and what it marks becomes pending.      *)
(***************************************************************************)
Keeps(t) ==
    /\ \A k : Pending(t, k) => Pending(t, k)' \/ Answered(t[2], k)'
    /\ \A k \in handled'[t[2]] : k \in handled[t[2]] \/ Pending(t, k)'

Settles(t) ==
    /\ task'[t].pc = "fail" => task'[t].plan = {}
    /\ Alive(Kernel) /\ (t[2] \in Negotiators \/ BadBudget = {}) => Keeps(t)

\* The same, of all the steps of one actor.
Carries(a) ==
    /\ (Alive(a)' => Alive(a)) /\ (Alive(Kernel)' => Alive(Kernel))
    /\ \A r \in Runs : \A k : Pending(<<r, a>>, k) => Pending(<<r, a>>, k)' \/ Answered(a, k)'
    /\ \A k \in handled'[a] : k \in handled[a] \/ \E r \in Runs : Pending(<<r, a>>, k)'

LEMMA AnsweredStays ==
    ASSUME TypeOK, TypeOK', Grows(log, log'), NEW a, NEW k, Answered(a, k)
    PROVE  Answered(a, k)'
<1>1. Output(a) \in Channels
  BY DEF Output, Channels
<1>2. PICK i \in DOMAIN log[Output(a)] : Key(log[Output(a)][i]) = k
  BY DEF Answered
<1>3. log \in Boards /\ log' \in Boards /\ i \in 1 .. Len(log[Output(a)])
  BY <1>1, <1>2, ReadTrace DEF TypeOK, Boards
<1>4. i \in 1 .. Len(log'[Output(a)]) /\ log'[Output(a)][i] = log[Output(a)][i]
  BY <1>1, <1>3, Recorded
<1>5. DOMAIN log'[Output(a)] = 1 .. Len(log'[Output(a)])
  BY <1>1 DEF TypeOK
<1> QED  BY <1>2, <1>4, <1>5 DEF Answered, Output

LEMMA CarriedOn ==
    ASSUME TypeOK, TypeOK', Grows(log, log'), NEW a, Remembers(a), Carries(a)
    PROVE  Remembers(a)'
<1> SUFFICES ASSUME Alive(a)', Alive(Kernel)', NEW k \in handled'[a]
             PROVE  Answered(a, k)' \/ \E r \in Runs : Pending(<<r, a>>, k)'
  BY DEF Remembers
<1>1. CASE \E r \in Runs : Pending(<<r, a>>, k)'
  BY <1>1
<1>2. CASE k \in handled[a]
  <2>1. Alive(a) /\ Alive(Kernel)
    BY DEF Carries
  <2>2. Answered(a, k) \/ \E r \in Runs : Pending(<<r, a>>, k)
    BY <1>2, <2>1 DEF Remembers
  <2>3. CASE Answered(a, k)
    BY <2>3, AnsweredStays
  <2>4. CASE \E r \in Runs : Pending(<<r, a>>, k)
    BY <2>4 DEF Carries
  <2> QED  BY <2>2, <2>3, <2>4
<1> QED  BY <1>1, <1>2 DEF Carries

\* What a step leaves alone, and that a step not asked for does not move.
LEMMA StepFrame ==
    ASSUME TypeOK, NEW t \in Tasks, TaskStep(t)
    PROVE  /\ UNCHANGED <<rpc, crashes>> /\ task[t].pc # "idle"
           /\ \A b \in Actors : b # t[2] => handled'[b] = handled[b]
<1>0. t[2] \in Actors /\ handled \in [Actors -> SUBSET ((Corrs \cup {NoCorr})
                                                     \X (Suppliers \cup {NoSupplier}))]
  BY DEF TypeOK, Tasks
<1>1. CASE ScoutStep(t)
  BY <1>0, <1>1
     DEF Writing, ScoutStep, ScoutPerceive, Perceive, ScoutReason, ScoutPostList, ScoutPostSupplier
<1>2. CASE EvaluatorStep(t)
  BY <1>0, <1>2
     DEF Writing, EvaluatorStep, EvaluatorPerceive, Perceive, EvaluatorScan, EvaluatorReadPool,
         EvaluatorReadRequirement, EvaluatorMark, EvaluatorPostScore, EvaluatorPostRisk
<1>3. CASE NegotiatorStep(t)
  BY <1>0, <1>3
     DEF Writing, NegotiatorStep, NegotiatorPerceive, Perceive, NegotiatorScan,
         NegotiatorReadPool, NegotiatorMark, NegotiatorPostQuote
<1>4. CASE BuyerStep(t)
  BY <1>0, <1>4 DEF Writing, BuyerStep, BuyerReadDeals, BuyerReadRisks, BuyerReadScores, BuyerReason,
                    BuyerPostDecision
<1>5. CASE LetGo(t) \/ DepositFailure(t)
  BY <1>5, LetGoCases, DepositCases
<1> QED  BY <1>1, <1>2, <1>3, <1>4, <1>5 DEF TaskStep, LetGo

LEMMA StepCarries ==
    ASSUME TypeOK, NEW t \in Tasks, TaskStep(t), NEW a \in Actors, a = t[2] => Keeps(t)
    PROVE  Carries(a)
<1>1. /\ crashes' = crashes /\ \A b \in Actors : b # t[2] => handled'[b] = handled[b]
      /\ \A u \in Tasks : u # t => task'[u] = task[u]
  BY StepFrame, MovesItself, StepElsewhere
<1>2. (Alive(a)' => Alive(a)) /\ (Alive(Kernel)' => Alive(Kernel))
  BY <1>1 DEF Alive, RestartsOf
<1>3. \A r \in Runs : <<r, a>> \in Tasks /\ (<<r, a>> = t <=> r = t[1] /\ a = t[2])
  BY DEF Tasks
<1>4. ASSUME NEW r \in Runs, NEW k, Pending(<<r, a>>, k)
      PROVE  Pending(<<r, a>>, k)' \/ Answered(a, k)'
  <2>1. CASE <<r, a>> = t
    BY <1>3, <1>4, <2>1 DEF Keeps
  <2>2. CASE <<r, a>> # t
    <3>1. task'[<<r, a>>] = task[<<r, a>>]
      BY <1>1, <1>3, <2>2
    <3> QED  BY <1>4, <3>1 DEF Pending, InFlight
  <2> QED  BY <2>1, <2>2
<1>5. ASSUME NEW k \in handled'[a]
      PROVE  k \in handled[a] \/ \E r \in Runs : Pending(<<r, a>>, k)'
  <2>1. CASE a = t[2]
    <3>1. t = <<t[1], a>> /\ t[1] \in Runs
      BY <2>1 DEF Tasks
    <3> QED  BY <1>5, <2>1, <3>1 DEF Keeps
  <2>2. CASE a # t[2]
    BY <1>1, <1>5, <2>2
  <2> QED  BY <2>1, <2>2
<1> QED  BY <1>2, <1>4, <1>5 DEF Carries

(***************************************************************************)
(* The steps of evaluators and negotiators.                                *)
(***************************************************************************)
\* The proposals stay in the hands of a step that goes on.
LEMMA GoesOnSettles ==
    ASSUME NEW t, handled'[t[2]] = handled[t[2]], task'[t].plan = task[t].plan,
           task'[t].plan # {} => task'[t].pc \notin {"idle", "done", "failed", "fail"}
    PROVE  Settles(t)
BY DEF Settles, Keeps, Pending, InFlight

\* The kernel is gone, and what the step had collected with it.
LEMMA LostSettles ==
    ASSUME NEW t, ~ Alive(Kernel), task'[t].pc = "fail" => task'[t].plan = {}
    PROVE  Settles(t)
BY DEF Settles

\* The loop keeps what it collected, and returns only with nothing collected,
\* unless the kernel is dead.
LEMMA NextTracePlan ==
    ASSUME TypeOK, NEW t \in Tasks, NEW state \in TaskState, NEW done, NEW ch, NEW limit,
           NEW type, NextTrace(t, state, done, ch, limit, type)
    PROVE  \/ /\ task'[t].plan = state.plan
              /\ state.plan # {} => task'[t].pc \in {"verdict", "act", "pool"}
           \/ ~ Alive(Kernel) /\ task'[t].pc = "fail" /\ task'[t].plan = {}
<1>1. state.plan \in SUBSET Proposal
  BY DEF TaskState
<1>2. \/ task'[t] = Reasoned(state, state.plan)
      \/ \E i : task'[t] = [state EXCEPT !.pc = "pool", !.pos = i, !.ref = 0]
  BY DEF NextTrace, Step, TypeOK
<1>3. CASE task'[t] = Acting(state, state.plan)
  <2>1. state.plan # {} => Acting(state, state.plan).pc \in {"verdict", "act"}
    BY DEF Acting, TaskState
  <2> QED  BY <1>1, <1>3, <2>1, ActingType
<1>4. CASE ~ Alive(Kernel) /\ task'[t] = Raised(state)
  BY <1>4, RaisedType
<1>5. CASE \E i : task'[t] = [state EXCEPT !.pc = "pool", !.pos = i, !.ref = 0]
  BY <1>5 DEF TaskState
<1> QED  BY <1>2, <1>3, <1>4, <1>5, ReasonedCases

LEMMA ReadsSettle ==
    ASSUME TypeInv, NEW t \in Tasks,
           \/ EvaluatorPerceive(t) \/ EvaluatorReadPool(t) \/ EvaluatorReadRequirement(t)
           \/ EvaluatorPostScore(t) \/ NegotiatorPerceive(t) \/ NegotiatorReadPool(t)
    PROVE  Settles(t)
<1>1. task[t] \in TaskState /\ TypeOK
  BY TaskTypes DEF TypeInv
<1>2. UNCHANGED handled
  BY DEF EvaluatorPerceive, Perceive, EvaluatorReadPool, EvaluatorReadRequirement,
         EvaluatorPostScore, NegotiatorPerceive, NegotiatorReadPool
<1>3. task'[t].plan = task[t].plan /\ task'[t].pc \in {"reason", "size", "mark", "act"}
  <2> USE <1>1 DEF TaskState, Step, TypeOK
  <2>1. CASE \E ch : Perceive(t, ch)
    BY <2>1 DEF Perceive
  <2>2. CASE EvaluatorReadPool(t)
    BY <2>2 DEF EvaluatorReadPool
  <2>3. CASE EvaluatorReadRequirement(t)
    BY <2>3 DEF EvaluatorReadRequirement
  <2>4. CASE EvaluatorPostScore(t)
    BY <2>4 DEF EvaluatorPostScore
  <2>5. CASE NegotiatorReadPool(t)
    BY <2>5 DEF NegotiatorReadPool
  <2> QED  BY <2>1, <2>2, <2>3, <2>4, <2>5 DEF EvaluatorPerceive, NegotiatorPerceive
<1> QED  BY <1>2, <1>3, GoesOnSettles

LEMMA ScanSettles ==
    ASSUME TypeInv, NEW t \in Tasks, EvaluatorScan(t) \/ NegotiatorScan(t)
    PROVE  Settles(t)
<1>1. task[t] \in TaskState /\ TypeOK
  BY TaskTypes DEF TypeInv
<1>2. /\ UNCHANGED handled
      /\ \E done, ch, limit, type : NextTrace(t, task[t], done, ch, limit, type)
  BY DEF EvaluatorScan, NegotiatorScan
<1>3. \/ /\ task'[t].plan = task[t].plan
         /\ task[t].plan # {} => task'[t].pc \in {"verdict", "act", "pool"}
      \/ ~ Alive(Kernel) /\ task'[t].plan = {}
  BY <1>1, <1>2, NextTracePlan
<1> QED  BY <1>2, <1>3, GoesOnSettles, LostSettles

\* What is marked becomes a proposal about it.
LEMMA MarkSettles ==
    ASSUME TypeOK, NEW t \in Tasks, task[t] \in TaskState, NEW p \in Proposal,
           handled'[t[2]] = handled[t[2]] \cup {Key(p.post)},
           NEW done, NEW ch, NEW limit, NEW type,
           NextTrace(t, [task[t] EXCEPT !.plan = @ \cup {p}], done, ch, limit, type)
    PROVE  Settles(t)
<1> DEFINE planned == [task[t] EXCEPT !.plan = @ \cup {p}]
<1>1. planned \in TaskState /\ planned.plan = task[t].plan \cup {p}
  BY PlannedType DEF TaskState
<1>2. \/ /\ task'[t].plan = planned.plan
         /\ planned.plan # {} => task'[t].pc \in {"verdict", "act", "pool"}
      \/ ~ Alive(Kernel) /\ task'[t].plan = {}
  BY <1>1, NextTracePlan
<1> HIDE DEF planned
<1>3. CASE /\ task'[t].plan = task[t].plan \cup {p}
           /\ task'[t].pc \in {"verdict", "act", "pool"}
  <2>1. Keeps(t)
    BY <1>3 DEF Keeps, Pending, InFlight
  <2> QED  BY <1>3, <2>1 DEF Settles
<1>4. CASE ~ Alive(Kernel) /\ task'[t].plan = {}
  BY <1>4, LostSettles
<1> QED  BY <1>1, <1>2, <1>3, <1>4

LEMMA EvaluatorMarkSettles ==
    ASSUME TypeInv, NEW t \in Tasks, EvaluatorMark(t) PROVE Settles(t)
<1> DEFINE key == Key(log["discovery"][task[t].pos])
           p == EvaluationProposal(t)
<1>1. task[t] \in TaskState /\ TypeOK /\ t[2] \in Evaluators /\ t[2] \in Actors
  BY TaskTypes DEF TypeInv, EvaluatorMark
<1>2. p \in Proposal /\ Key(p.post) = key
  <2>1. p \in Proposal
    BY EvaluationProposalType DEF EvaluatorMark
  <2>2. Key(p.post) = key
    BY DEF EvaluationProposal, Key
  <2> QED  BY <2>1, <2>2
<1>3. CASE task[t].ref # 0 /\ key[1] \in BadBudget
  <2>1. Step(t, Raised(task[t]))
    BY <1>3 DEF EvaluatorMark
  <2>2. task'[t] = Raised(task[t])
    BY <1>1, <2>1 DEF Step, TypeOK
  <2>3. task'[t].plan = {}
    BY <1>1, <2>2, RaisedType
  <2>4. t[2] \notin Negotiators /\ BadBudget # {}
    BY <1>1, <1>3, Kinds
  <2> QED  BY <2>3, <2>4 DEF Settles
<1>4. CASE ~(task[t].ref # 0 /\ key[1] \in BadBudget)
  <2>1. /\ handled' = [handled EXCEPT ![t[2]] = handled[t[2]] \cup {key}]
        /\ NextTrace(t, [task[t] EXCEPT !.plan = @ \cup {p}], handled[t[2]] \cup {key},
                     "discovery", DiscLimit, "supplier_discovered")
    BY <1>4 DEF EvaluatorMark
  <2>2. handled'[t[2]] = handled[t[2]] \cup {Key(p.post)}
    BY <1>1, <1>2, <2>1 DEF TypeOK
  <2> HIDE DEF p, key
  <2> QED  BY <1>1, <1>2, <2>1, <2>2, MarkSettles
<1> QED  BY <1>3, <1>4

LEMMA NegotiatorMarkSettles ==
    ASSUME TypeInv, NEW t \in Tasks, NegotiatorMark(t) PROVE Settles(t)
<1> DEFINE key == Key(log["score"][task[t].pos])
           p == QuoteProposal(t)
<1>1. task[t] \in TaskState /\ TypeOK /\ t[2] \in Actors
  BY TaskTypes DEF TypeInv
<1>2. p \in Proposal /\ Key(p.post) = key
  <2>1. p \in Proposal
    BY QuoteProposalType DEF NegotiatorMark
  <2>2. Key(p.post) = key
    BY DEF QuoteProposal, Key
  <2> QED  BY <2>1, <2>2
<1>3. /\ handled' = [handled EXCEPT ![t[2]] = handled[t[2]] \cup {key}]
      /\ NextTrace(t, [task[t] EXCEPT !.plan = @ \cup {p}], handled[t[2]] \cup {key},
                   "score", ScoreLimit, "evaluation")
  BY DEF NegotiatorMark
<1>4. handled'[t[2]] = handled[t[2]] \cup {Key(p.post)}
  BY <1>1, <1>2, <1>3 DEF TypeOK
<1> HIDE DEF p, key
<1> QED  BY <1>1, <1>2, <1>3, <1>4, MarkSettles

\* A proposal leaves the hands of its step for the blackboard.
LEMMA WrittenSettles ==
    ASSUME TypeInv, NEW t \in Tasks, UNCHANGED handled, NEW p \in task[t].plan,
           task[t].pc \in Writing, Answered(t[2], Key(p.post))', Step(t, Acting(task[t], task[t].plan \ {p}))
    PROVE  Settles(t)
<1>1. task[t] \in TaskState /\ TypeOK /\ task[t].plan \ {p} \in SUBSET Proposal
  BY TaskTypes, PostTypes DEF TypeInv
<1>2. task'[t] = Acting(task[t], task[t].plan \ {p})
  BY <1>1 DEF Step, TypeOK
<1>3. task'[t].plan = task[t].plan \ {p} /\ task'[t].pc \in {"verdict", "act", "done"}
  BY <1>1, <1>2, ActingType
<1>4. task'[t].plan # {} => task'[t].pc \in {"verdict", "act"}
  BY <1>1, <1>2, <1>3 DEF Acting, TaskState
<1>5. Keeps(t)
  BY <1>3, <1>4 DEF Keeps, Pending, InFlight
<1> QED  BY <1>3, <1>5 DEF Settles

LEMMA EvaluatorPostRiskSettles ==
    ASSUME LineageInv, TypeInv', NEW t \in Tasks, EvaluatorPostRisk(t) PROVE Settles(t)
<1> DEFINE trace(p) == [p.post EXCEPT !.type = "risk_assessment",
                                      !.parents = {<<"score", task[t].ref>>}]
           i == task[t].ref
<1>1. PICK p \in task[t].plan : /\ IsCurrent(task[t], p) /\ Post("risk", trace(p))
                                /\ Step(t, Acting(task[t], task[t].plan \ {p}))
  BY DEF EvaluatorPostRisk
<1>2. /\ TypeInv /\ TypeOK /\ t[2] \in Evaluators /\ UNCHANGED handled /\ "score" \in Channels
      /\ task[t].pc \in Writing /\ task[t].stage > 0
  BY LinkedFacts DEF EvaluatorPostRisk, Channels
<1>3. IsTrace(log, "score", i, "evaluation") /\ Key(p.post) = Key(log["score"][i])
  BY <1>1, <1>2, LinkedFacts DEF Stands
<1>4. log'["score"] = log["score"]
  <2> HIDE DEF trace
  <2> QED  BY <1>1, <1>2 DEF Post, TypeOK
<1>5. i \in DOMAIN log'["score"] /\ Key(log'["score"][i]) = Key(p.post)
  BY <1>2, <1>3, <1>4, ReadTrace DEF IsTrace
<1>6. Answered(t[2], Key(p.post))'
  BY <1>2, <1>5 DEF Answered, Output
<1> QED  BY <1>1, <1>2, <1>6, WrittenSettles

LEMMA NegotiatorPostQuoteSettles ==
    ASSUME TypeInv, TypeInv', NEW t \in Tasks, NegotiatorPostQuote(t) PROVE Settles(t)
<1> DEFINE i == Len(log["deal"]) + 1
<1>1. PICK p \in task[t].plan : /\ Post("deal", p.post)
                                /\ Step(t, Acting(task[t], task[t].plan \ {p}))
  BY DEF NegotiatorPostQuote
<1>2. /\ TypeOK /\ t[2] \in Negotiators /\ t[2] \in Actors /\ UNCHANGED handled
      /\ task[t].pc \in Writing /\ "deal" \in Channels /\ p.post \in Trace /\ Len(log["deal"]) \in Nat
  BY TaskTypes, PostTypes DEF NegotiatorPostQuote, Channels, TypeInv
<1>3. Len(log'["deal"]) = i /\ log'["deal"][i] = p.post
  BY <1>1, <1>2, PostEffect
<1>4. DOMAIN log'["deal"] = 1 .. Len(log'["deal"])
  BY <1>2 DEF TypeInv, TypeOK
<1>5. i \in DOMAIN log'["deal"]
  BY <1>2, <1>3, <1>4
<1>6. Output(t[2]) = "deal"
  BY <1>2, Kinds DEF Output
<1>7. Answered(t[2], Key(p.post))'
  BY <1>3, <1>5, <1>6 DEF Answered, Output
<1> QED  BY <1>1, <1>2, <1>7, WrittenSettles

LEMMA StepSettles ==
    ASSUME MarksInv, TypeInv', NEW t \in Tasks, TaskStep(t), t[2] \in Evaluators \cup Negotiators
    PROVE  Settles(t)
<1>1. LineageInv /\ TypeInv /\ TypeOK /\ t[2] \in Actors
  BY LinkedFacts DEF MarksInv
<1>2. CASE EvaluatorStep(t)
  BY <1>1, <1>2, ReadsSettle, ScanSettles, EvaluatorMarkSettles, EvaluatorPostRiskSettles
     DEF EvaluatorStep
<1>3. CASE NegotiatorStep(t)
  BY <1>1, <1>3, ReadsSettle, ScanSettles, NegotiatorMarkSettles, NegotiatorPostQuoteSettles
     DEF NegotiatorStep
<1>4. ASSUME task[t].plan = {}, UNCHANGED handled, Step(t, Done) PROVE Settles(t)
  <2>1. task'[t] = Done
    BY <1>1, <1>4 DEF Step, TypeOK
  <2>2. task'[t].plan = {}
    BY <2>1 DEF Done, Idle
  <2> QED  BY <1>4, <2>2, GoesOnSettles
<1>6. CASE DepositFailure(t)
  <2>1. task[t].plan = {}
    BY <1>6, DepositCases DEF MarksInv
  <2> QED  BY <1>4, <1>6, <2>1, DepositCases
<1>7. CASE LetGo(t)
  <2>1. ASSUME ~ Alive(Kernel), Step(t, Raised(task[t])) PROVE Settles(t)
    <3>1. task'[t] = Raised(task[t]) /\ task[t] \in TaskState
      BY <1>1, <2>1, TaskTypes DEF Step, TypeOK
    <3> QED  BY <2>1, <3>1, RaisedType, LostSettles
  <2> QED  BY <1>4, <1>7, <2>1, LetGoCases
<1>5. ~ScoutStep(t) /\ ~BuyerStep(t)
  BY <1>1, Kinds DEF ScoutStep, ScoutPerceive, ScoutReason, ScoutPostList, ScoutPostSupplier,
     BuyerStep, BuyerReadDeals, BuyerReadRisks, BuyerReadScores, BuyerReason, BuyerPostDecision
<1> QED  BY <1>2, <1>3, <1>5, <1>6, <1>7 DEF TaskStep, LetGo

(***************************************************************************)
(* The invariant.                                                          *)
(***************************************************************************)
\* Only tasks nobody is in the middle of are started.
LEMMA LaunchCarries ==
    ASSUME NEW r \in Runs, NEW actors, Launch(r, actors), UNCHANGED <<handled, crashes>>,
           NEW a \in Actors, a \in actors => task[<<r, a>>].pc = "idle"
    PROVE  Carries(a)
<1>1. \A q \in Runs : <<q, a>> \in Tasks
  BY DEF Tasks
<1>2. ASSUME NEW q \in Runs, InFlight(<<q, a>>) PROVE task'[<<q, a>>] = task[<<q, a>>]
  BY <1>1, <1>2 DEF Launch, InFlight
<1>3. \A q \in Runs : \A k : Pending(<<q, a>>, k) => Pending(<<q, a>>, k)'
  BY <1>2 DEF Pending, InFlight
<1>4. (Alive(a)' => Alive(a)) /\ (Alive(Kernel)' => Alive(Kernel))
  BY DEF Alive
<1> QED  BY <1>3, <1>4 DEF Carries

LEMMA RunCarries ==
    ASSUME Waiting, NEW r \in Runs, Submit(r) \/ RunStep(r),
           NEW a \in Evaluators \cup Negotiators
    PROVE  Carries(a)
<1>1. a \in Actors /\ a \notin Scouts /\ a # Buyer
  BY Kinds DEF Actors
<1>2. CASE Submit(r) \/ GatherScouts(r) \/ GatherEvaluators(r) \/ GatherNegotiators(r)
  <2>1. /\ UNCHANGED <<handled, crashes>>
        /\ \E actors : Launch(r, actors) /\ (a \in actors => task[<<r, a>>].pc = "idle")
    <3>1. CASE Submit(r)
      BY <1>1, <3>1 DEF Submit
    <3>2. CASE GatherScouts(r)
      BY <3>2 DEF GatherScouts, Gathered, Waiting
    <3>3. CASE GatherEvaluators(r)
      BY <3>3 DEF GatherEvaluators, Gathered, Waiting
    <3>4. CASE GatherNegotiators(r)
      BY <1>1, <3>4 DEF GatherNegotiators, Gathered
    <3> QED  BY <1>2, <3>1, <3>2, <3>3, <3>4
  <2> QED  BY <1>1, <2>1, LaunchCarries
<1>3. CASE BuyerReturned(r) \/ ReadDecision(r)
  <2>1. UNCHANGED <<task, handled, crashes>>
    BY <1>3 DEF BuyerReturned, ReadDecision
  <2> QED  BY <2>1 DEF Carries, Pending, InFlight, Alive
<1> QED  BY <1>2, <1>3 DEF RunStep

\* A process that is restarted has forgotten its marks.
LEMMA CrashRemembers ==
    ASSUME TypeOK, TypeOK', NEW b \in Fallible, Crash(b), NEW a \in Actors, Remembers(a)
    PROVE  Remembers(a)'
<1>1. b \in Processes /\ crashes[b] \in Nat /\ RestartsOf(b) \in Nat /\ UNCHANGED log
  BY ActorsAssumption, BoundsAssumption DEF TypeOK, RestartsOf, Crash
<1>2. \A c \in Processes : crashes'[c] = IF c = b THEN crashes[c] + 1 ELSE crashes[c]
  BY <1>1 DEF Crash, TypeOK
<1>3. a \in Processes /\ Kernel \in Processes /\ a # Kernel
  BY ActorsAssumption DEF Processes
<1>4. handled'[a] = IF a = b /\ crashes[b] < RestartsOf(b) THEN {} ELSE handled[a]
  BY DEF Crash
<1>5. ~(crashes[b] < RestartsOf(b)) => ~Alive(b)'
  BY <1>1, <1>2 DEF Alive, RestartsOf
<1>6. CASE a # b /\ Kernel # b
  <2>1. \A r \in Runs : <<r, a>> \in Tasks /\ task'[<<r, a>>] = task[<<r, a>>]
    BY <1>6 DEF Crash, Tasks
  <2>2. (Alive(a)' <=> Alive(a)) /\ (Alive(Kernel)' <=> Alive(Kernel))
    BY <1>2, <1>3, <1>6 DEF Alive, RestartsOf
  <2> QED  BY <1>1, <1>4, <1>6, <2>1, <2>2 DEF Remembers, Pending, InFlight, Answered, Output
<1>7. CASE Kernel = b
  <2>1. ~Alive(Kernel)'
    BY <1>1, <1>2, <1>3, <1>7 DEF Alive, RestartsOf
  <2> QED  BY <2>1 DEF Remembers
<1>8. CASE a = b
  BY <1>4, <1>5, <1>8 DEF Remembers
<1> QED  BY <1>6, <1>7, <1>8

LEMMA NextRemembers ==
    ASSUME MarksInv, [Next]_vars, NEW a \in Evaluators \cup Negotiators, Remembers(a),
           a \in Negotiators \/ BadBudget = {}
    PROVE  Remembers(a)'
<1>1. TypeInv /\ TypeInv' /\ TypeOK /\ TypeOK' /\ Grows(log, log') /\ a \in Actors
  <2>1. LineageInv /\ LineageInv' /\ Kept
    BY NextLineage DEF MarksInv, Kept
  <2> QED  BY <2>1, ExtendedGrows DEF Kept, LineageInv, TypeInv, Actors
<1>2. ASSUME NEW r \in Runs, Submit(r) \/ RunStep(r) PROVE Remembers(a)'
  BY <1>1, <1>2, RunCarries, CarriedOn DEF MarksInv
<1>3. ASSUME NEW t \in Tasks, TaskStep(t) PROVE Remembers(a)'
  <2>1. CASE Alive(Kernel)
    <3>1. a = t[2] => Keeps(t)
      BY <1>1, <1>3, <2>1, StepSettles DEF Settles
    <3> QED  BY <1>1, <1>3, <3>1, StepCarries, CarriedOn
  <2>2. CASE ~Alive(Kernel)
    <3>1. ~Alive(Kernel)'
      BY <1>1, <1>3, <2>2, StepFrame DEF Alive, RestartsOf
    <3> QED  BY <3>1 DEF Remembers
  <2> QED  BY <2>1, <2>2
<1>4. ASSUME NEW b \in Fallible, Crash(b) PROVE Remembers(a)'
  BY <1>1, <1>4, CrashRemembers
<1>5. CASE UNCHANGED vars
  BY <1>5 DEF vars, Remembers, Answered, Pending, InFlight, Alive, Output
<1> QED  BY <1>2, <1>3, <1>4, <1>5 DEF Next

\* A call of run_procurement asks the pools one after the other.
LEMMA RunWaits ==
    ASSUME TypeOK, Waiting, NEW r \in Runs, Submit(r) \/ RunStep(r)
    PROVE  Waiting'
<1>1. \A q \in Runs, a \in Actors : <<q, a>> \in Tasks
  BY DEF Tasks
<1>2. rpc \in [Runs -> {"new", "scouts", "evaluators", "negotiators", "buyer",
                        "read", "done", "raised"}]
  BY DEF TypeOK
<1>3. \A a \in Evaluators : a \in Actors /\ a \notin Scouts /\ a \notin Negotiators /\ a # Buyer
  BY Kinds DEF Actors
<1>4. \A a \in Negotiators : a \in Actors /\ a \notin Scouts /\ a \notin Evaluators /\ a # Buyer
  BY Kinds DEF Actors
\* A task of another run, or of a pool not asked, stays as it is.
<1>5. ASSUME NEW actors, Launch(r, actors), NEW q \in Runs, NEW a \in Actors,
             q # r \/ a \notin actors
      PROVE  task'[<<q, a>>] = task[<<q, a>>]
  BY <1>1, <1>5 DEF Launch
<1>6. CASE Submit(r)
  <2>1. rpc[r] = "new" /\ rpc' = [rpc EXCEPT ![r] = "scouts"] /\ Launch(r, Scouts)
    BY <1>6 DEF Submit
  <2> QED  BY <1>2, <1>3, <1>4, <1>5, <2>1 DEF Waiting
<1>7. CASE GatherScouts(r)
  <2>1. /\ rpc[r] = "scouts" /\ rpc' = [rpc EXCEPT ![r] = "evaluators"]
        /\ Launch(r, Evaluators)
    BY <1>7 DEF GatherScouts, Gathered
  <2> QED  BY <1>2, <1>3, <1>4, <1>5, <2>1 DEF Waiting
<1>8. CASE GatherEvaluators(r)
  <2>1. /\ rpc[r] = "evaluators" /\ rpc' = [rpc EXCEPT ![r] = "negotiators"]
        /\ Launch(r, Negotiators)
    BY <1>8 DEF GatherEvaluators, Gathered
  <2> QED  BY <1>2, <1>3, <1>4, <1>5, <2>1 DEF Waiting
<1>9. CASE GatherNegotiators(r)
  <2>1. /\ rpc[r] = "negotiators" /\ rpc' = [rpc EXCEPT ![r] = "buyer"]
        /\ Launch(r, {Buyer})
    BY <1>9 DEF GatherNegotiators, Gathered
  <2> QED  BY <1>2, <1>3, <1>4, <1>5, <2>1 DEF Waiting
<1>10. CASE BuyerReturned(r) \/ ReadDecision(r)
  <2>1. UNCHANGED task /\ \E pc \in {"read", "raised", "done"} : rpc' = [rpc EXCEPT ![r] = pc]
    BY <1>10 DEF BuyerReturned, ReadDecision
  <2> QED  BY <1>2, <2>1 DEF Waiting
<1> QED  BY <1>6, <1>7, <1>8, <1>9, <1>10 DEF RunStep

LEMMA NextWaits == ASSUME TypeOK, Waiting, [Next]_vars PROVE Waiting'
<1>1. ASSUME NEW q \in Runs, NEW a \in Evaluators \cup Negotiators
      PROVE  <<q, a>> \in Tasks
  BY <1>1 DEF Tasks, Actors
<1>2. ASSUME NEW t \in Tasks, TaskStep(t) PROVE Waiting'
  <2>1. UNCHANGED rpc /\ \A u \in Tasks : task[u].pc = "idle" => task'[u].pc = "idle"
    BY <1>2, StepFrame, MovesItself, StepElsewhere
  <2> QED  BY <1>1, <2>1 DEF Waiting
<1>3. ASSUME NEW b \in Fallible, Crash(b) PROVE Waiting'
  <2>1. UNCHANGED rpc /\ \A u \in Tasks : task[u].pc = "idle" => task'[u].pc = "idle"
    BY <1>3 DEF Crash, InFlight
  <2> QED  BY <1>1, <2>1 DEF Waiting
<1>4. CASE UNCHANGED vars
  BY <1>4 DEF vars, Waiting
<1> QED  BY <1>2, <1>3, <1>4, RunWaits DEF Next

LEMMA NextFails ==
    ASSUME MarksInv, TypeInv', [Next]_vars, NEW t \in Tasks, t[2] \in Evaluators \cup Negotiators,
           task'[t].pc = "fail"
    PROVE  task'[t].plan = {}
<1>1. TypeOK /\ (task[t].pc = "fail" => task[t].plan = {})
  BY DEF MarksInv, LineageInv, TypeInv
<1>2. CASE task'[t] = task[t]
  BY <1>1, <1>2
<1>3. CASE \/ task'[t] \in {Failed, [Idle EXCEPT !.pc = "perceive"]}
           \/ \E n : task'[t] = [Idle EXCEPT !.pc = "perceive", !.tries = n]
  BY <1>3 DEF Failed, Idle
<1>4. ASSUME NEW r \in Runs, Submit(r) \/ RunStep(r) PROVE task'[t].plan = {}
  <2>1. UNCHANGED task \/ \E actors : Launch(r, actors)
    BY <1>4 DEF Submit, RunStep, GatherScouts, GatherEvaluators, GatherNegotiators, Gathered,
                BuyerReturned, ReadDecision
  <2> QED  BY <1>2, <1>3, <2>1, LaunchReplaces
<1>5. ASSUME NEW b \in Fallible, Crash(b) PROVE task'[t].plan = {}
  <2>1. \/ task'[t] \in {task[t], Failed}
        \/ task'[t] = [Idle EXCEPT !.pc = "perceive", !.tries = task[t].tries + 1]
    BY <1>5 DEF Crash
  <2> QED  BY <1>2, <1>3, <2>1
<1>6. ASSUME NEW u \in Tasks, TaskStep(u) PROVE task'[t].plan = {}
  <2>1. CASE u = t
    BY <1>6, <2>1, StepSettles DEF Settles
  <2>2. CASE u # t
    BY <1>1, <1>2, <1>6, <2>2, MovesItself, StepElsewhere
  <2> QED  BY <2>1, <2>2
<1>7. CASE UNCHANGED vars
  BY <1>2, <1>7 DEF vars
<1> QED  BY <1>4, <1>5, <1>6, <1>7 DEF Next

LEMMA InitMarks == Init => MarksInv
<1> SUFFICES ASSUME Init PROVE MarksInv
  OBVIOUS
<1>1. LineageInv
  BY InitLineage
<1>2. \A t \in Tasks : task[t].pc = "idle" /\ task[t].plan = {}
  BY DEF Init, Idle
<1>3. \A a \in Evaluators \cup Negotiators : handled[a] = {} /\ \A r \in Runs : <<r, a>> \in Tasks
  BY DEF Init, Actors, Tasks
<1> QED  BY <1>1, <1>2, <1>3 DEF MarksInv, Waiting, Remembers

LEMMA NextMarks == MarksInv /\ [Next]_vars => MarksInv'
<1> SUFFICES ASSUME MarksInv, [Next]_vars PROVE MarksInv'
  OBVIOUS
<1>1. LineageInv' /\ TypeInv' /\ TypeOK
  BY NextLineage DEF MarksInv, Kept, LineageInv, TypeInv
<1>2. Waiting'
  BY <1>1, NextWaits DEF MarksInv
<1>3. \A t \in Tasks : t[2] \in Evaluators \cup Negotiators /\ task'[t].pc = "fail" =>
          task'[t].plan = {}
  BY <1>1, NextFails
<1>4. \A a \in Negotiators : Remembers(a)'
  BY NextRemembers DEF MarksInv
<1>5. BadBudget = {} => \A a \in Evaluators : Remembers(a)'
  BY NextRemembers DEF MarksInv
<1> QED  BY <1>1, <1>2, <1>3, <1>4, <1>5 DEF MarksInv

LEMMA MarksAlways == Spec => []MarksInv
BY InitMarks, NextMarks, PTL DEF Spec

LEMMA RemembersAnswers ==
    ASSUME NEW a \in Evaluators \cup Negotiators, Remembers(a) PROVE AnswersMarks(a)
<1> SUFFICES ASSUME Alive(a), Alive(Kernel), \A r \in Runs : ~InFlight(<<r, a>>), NEW k \in handled[a]
             PROVE  \E i \in DOMAIN log[Output(a)] : k = Key(log[Output(a)][i])
  BY DEF AnswersMarks, Output
<1>1. \A r \in Runs : ~Pending(<<r, a>>, k)
  BY DEF Pending
<1>2. Answered(a, k)
  BY <1>1 DEF Remembers
<1> QED  BY <1>2 DEF Answered

\* While the kernel lives, a negotiator none of whose steps is under way has
\* quoted for every evaluation it has marked, whatever runs share it, requirements
\* are malformed and processes die (negotiator.py, reason and act).  A dead kernel
\* makes step() raise after the marks (base.py, kernel.validate.remote).
THEOREM QuotesFollowMarks == Spec => [](\A a \in Negotiators : AnswersMarks(a))
<1>1. MarksInv => \A a \in Negotiators : AnswersMarks(a)
  BY RemembersAnswers DEF MarksInv
<1> QED  BY <1>1, MarksAlways, PTL

\* When no budget makes float() raise, an evaluator has written the evaluation of
\* every supplier it has marked too while the kernel lives, so no mark makes anybody pass over a supplier
\* (evaluator.py, reason and act).  With such a budget it is false: the exception
\* that leaves reason() drops what the step had marked for other requirements.
THEOREM MarksFollowed == BadBudget = {} => (Spec => []MarksAreAnswered)
<1> SUFFICES ASSUME BadBudget = {} PROVE Spec => []MarksAreAnswered
  OBVIOUS
<1>1. MarksInv => MarksAreAnswered
  BY RemembersAnswers DEF MarksInv, MarksAreAnswered
<1> QED  BY <1>1, MarksAlways, PTL
=============================================================================
