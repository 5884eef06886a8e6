---------------------------- MODULE PolicyServer ----------------------------
(***************************************************************************)
(* The closed learning loop of the swarm's API over the event store: live  *)
(* runs, feedback, the learner, promotion, replay and simulation.          *)
(*                                                                         *)
(* A slot is a request being served.  run and feedback are coroutines of   *)
(* the server's event loop, the other endpoints are plain functions that   *)
(* FastAPI gives to its thread pool: their steps interleave anywhere.  A   *)
(* step is one function of the event store (the two connections it opens,  *)
(* for the tables and for the query, read the module global _DB_PATH as    *)
(* one), or one assignment of that global.                                 *)
(*                                                                         *)
(* The swarm itself is abstracted to what the loop depends on: the four    *)
(* lookups of the active policy it makes (adaptive_policy.py; those that   *)
(* every supplier's evaluation repeats are made once), the one row it      *)
(* writes (store_llm_record), and Choice, the supplier it selects.         *)
(***************************************************************************)
EXTENDS EventStore

CONSTANTS
    Slots,          \* requests served at once
    Endpoints,      \* what clients ask for
    Production,     \* the configured DB_PATH
    Temps,          \* names mkstemp gives
    Seeds,          \* databases an earlier process may have left
    Baseline,       \* version of default_policy()
    Neighbours,     \* generate_candidates, around each version
    Safe(_),        \* is_safe_policy
    Choice(_, _),   \* supplier selected for a trace under a basis
    NoSupplier,
    MinTraces,      \* MIN_TRACES_FOR_LEARNING
    Margin          \* IMPROVEMENT_MARGIN, per cent

Paths == {Production} \cup Temps

Consistent(db) == db.active # Config => db.rows[db.active] # None

ASSUME PathsAssumption == Production \notin Temps
ASSUME SeedsAssumption == \A db \in Seeds : db \in Database /\ Consistent(db)
ASSUME PoliciesAssumption ==
    /\ Baseline \in Versions /\ Neighbours \in [Versions -> SUBSET Versions]
    /\ None \notin Row \cup Basis \cup Grades \cup Nat
    /\ \A v \in Versions : Safe(v) \in BOOLEAN
ASSUME BoundsAssumption == MinTraces \in Nat \ {0} /\ Margin \in Nat

VARIABLES
    dbs,    \* the database behind each path
    path,   \* event_store._DB_PATH
    job,    \* the request each slot serves
    told    \* what clients were answered

vars == <<dbs, path, job, told>>

(***************************************************************************)
(* The locals of a request.  trace: the trace being run or replayed; todo: *)
(* the traces still to load or replay; orig, tmp: of _isolate_storage;     *)
(* corpus: the merged traces of the learner; base: the policy it starts    *)
(* from; cands: candidates left; scores: those done; matched: replays of   *)
(* the current one (version) that chose the original supplier; row: the    *)
(* stored row of the version to promote.                                   *)
(***************************************************************************)
Unset == [k \in Lookups |-> Config]
Idle == [do |-> "none", pc |-> "idle", trace |-> 0, todo |-> {}, basis |-> Unset,
         orig |-> Production, tmp |-> Production, corpus |-> {},
         base |-> Config, cands |-> {}, version |-> Config, matched |-> 0,
         scores |-> [v \in Versions |-> None], row |-> None, force |-> FALSE]

\* A trace with its decision and its feedback, as load_full_trace returns it.
Evaluable == [trace : Traces, basis : Basis, grade : Grades]

Job == [do : Callers \cup {"none", "promote"},
        pc : {"idle", "request", "result", "isolate", "redirect", "create", "llm",
              "restore", "recent", "load", "gather", "active", "versions", "baseline",
              "candidates", "evaluate", "find", "compare", "activate"} \cup Lookups,
        trace : Nat, todo : SUBSET Traces, basis : Basis,
        orig : Paths, tmp : Paths, corpus : SUBSET Evaluable,
        base : Policies, cands : SUBSET Versions, version : Policies, matched : Nat,
        scores : [Versions -> Nat \cup {None}], row : Row \cup {None}, force : BOOLEAN]

\* Answers: the runs that were persisted, the newest grade accepted for each
\* trace, the best candidate reported for each base.
Init ==
    /\ \E db \in Seeds : dbs = [p \in Paths |-> IF p = Production THEN db ELSE Empty]
    /\ path = Production
    /\ job = [s \in Slots |-> Idle]
    /\ told = [runs |-> {}, grade |-> [t \in Traces |-> None],
               best |-> [v \in Versions |-> None]]

Db == dbs[path]
Write(db) == dbs' = [dbs EXCEPT ![path] = db]
Step(s, j) == job' = [job EXCEPT ![s] = j]
At(s, pc) == job[s].pc = pc
First(S) == CHOOSE x \in S : \A y \in S : x <= y

\* Is the request inside _isolate_storage, after the global was exchanged?
Inside(s) == /\ job[s].do \in {"replay", "learn"}
             /\ job[s].pc \in {"create", "llm", "restore", "type", "weights", "overrides"}

(***************************************************************************)
(* A request arrives.                                                      *)
(***************************************************************************)
RunCall(t) == [Idle EXCEPT !.do = "run", !.pc = "thresholds", !.trace = t]
ReplayCall(t) == [Idle EXCEPT !.do = "replay", !.pc = "load", !.todo = {t}]
SimulateCall == [Idle EXCEPT !.do = "replay", !.pc = "recent"]
LearnCall == [Idle EXCEPT !.do = "learn", !.pc = "gather"]
PromoteCall(v, force) ==
    [Idle EXCEPT !.do = "promote", !.pc = "find", !.version = v, !.force = force]

Calls ==
    {RunCall(t) : t \in IF "run" \in Endpoints THEN Traces ELSE {}}
    \cup {ReplayCall(t) : t \in IF "replay" \in Endpoints THEN Traces ELSE {}}
    \cup (IF "simulate" \in Endpoints THEN {SimulateCall} ELSE {})
    \cup (IF "learn" \in Endpoints THEN {LearnCall} ELSE {})
    \cup {PromoteCall(v, FALSE) : v \in IF "promote" \in Endpoints THEN Versions ELSE {}}
    \cup {PromoteCall(v, TRUE) : v \in IF "force" \in Endpoints THEN Versions ELSE {}}

Call(s) ==
    /\ At(s, "idle")
    /\ \E call \in Calls : Step(s, call)
    /\ UNCHANGED <<dbs, path, told>>

\* A coroutine holds the event loop from its first stored row to its answer.
LoopFree == \A s \in Slots : ~ (job[s].do = "run" /\ At(s, "result"))

\* POST /procurement/feedback does not await: it is one step.
Feedback(s) ==
    /\ "feedback" \in Endpoints /\ At(s, "idle") /\ LoopFree
    /\ \E t \in Traces, grade \in Grades :
          /\ Write(StoreFeedback(Db, t, grade))
          /\ told' = [told EXCEPT !.grade[t] = grade]
    /\ UNCHANGED <<path, job>>

(***************************************************************************)
(* One execution of the swarm, live or replayed.                           *)
(***************************************************************************)

AfterLookup(j) ==
    CASE j.pc = "thresholds" -> IF j.do = "replay" THEN "isolate" ELSE "type"
      [] j.pc = "type" -> "weights"
      [] j.pc = "weights" -> "overrides"
      [] j.pc = "overrides" -> "llm"

\* The thresholds before the run, the strategy type, the weights and the
\* overrides of a routing rule during it are four reads of the active policy.
\* The learner pins its candidate: only the overrides are still looked up, on
\* top of the candidate's own.
Lookup(s) ==
    LET j == job[s]
        seen == IF j.do = "learn" /\ Db.active = Config THEN j.version ELSE Db.active
    IN  /\ j.pc \in Lookups
        /\ j.do = "run" => LoopFree
        /\ Step(s, [j EXCEPT !.basis[j.pc] = seen, !.pc = AfterLookup(j)])
        /\ UNCHANGED <<dbs, path, told>>

\* The strategy agent stores a consensus if the completions are there when the
\* quotes are complete, which is a matter of the order of the handlers.
RecordConsensus(s) ==
    LET j == job[s] IN
    /\ At(s, "llm")
    /\ j.do = "run" => LoopFree
    /\ Write(StoreLlmRecord(Db, j.trace, j.do)) \/ UNCHANGED dbs
    /\ Step(s, [j EXCEPT !.pc = IF j.do = "run" THEN "request" ELSE "restore"])
    /\ UNCHANGED <<path, told>>

PersistRequest(s) ==
    /\ At(s, "request") /\ LoopFree
    /\ Write(StoreRequest(Db, job[s].trace))
    /\ Step(s, [job[s] EXCEPT !.pc = "result"])
    /\ UNCHANGED <<path, told>>

PersistResult(s) ==
    /\ At(s, "result")
    /\ Write(StoreResult(Db, job[s].trace, job[s].basis))
    /\ Step(s, Idle)
    /\ told' = [told EXCEPT !.runs = @ \cup {job[s].trace}]
    /\ UNCHANGED path

(***************************************************************************)
(* _isolate_storage.                                                       *)
(***************************************************************************)
\* Reads the global, then makes a new file.
Isolate(s) ==
    /\ At(s, "isolate")
    /\ \E tmp \in Temps :
          /\ dbs[tmp] = Empty /\ \A u \in Slots : Inside(u) => job[u].tmp # tmp
          /\ \A u \in Slots : At(u, "redirect") => job[u].tmp # tmp
          /\ Step(s, [job[s] EXCEPT !.orig = path, !.tmp = tmp, !.pc = "redirect"])
    /\ UNCHANGED <<dbs, path, told>>

Redirect(s) ==
    /\ At(s, "redirect")
    /\ path' = job[s].tmp
    /\ Step(s, [job[s] EXCEPT !.pc = "create"])
    /\ UNCHANGED <<dbs, told>>

\* init_db(tmp_path) assigns the global again.
CreateTables(s) ==
    /\ At(s, "create")
    /\ path' = job[s].tmp
    /\ Step(s, [job[s] EXCEPT !.pc = IF job[s].do = "learn" THEN "overrides" ELSE "type"])
    /\ UNCHANGED <<dbs, told>>

\* The trace of the corpus a replay of the learner is compared with.
Original(j) == CHOOSE e \in j.corpus : e.trace = j.trace

\* Mutant: the file is deleted, the global not put back after a replay.
RestoreFileOnly(s) ==
    LET j == job[s] IN
    /\ At(s, "restore")
    /\ path' = IF j.do = "replay" THEN path ELSE j.orig
    /\ dbs' = [dbs EXCEPT ![j.tmp] = Empty]
    /\ Step(s, IF j.do = "replay"
               THEN IF j.todo = {} THEN Idle ELSE [j EXCEPT !.pc = "load"]
               ELSE [j EXCEPT !.pc = "evaluate"])
    /\ UNCHANGED told

\* The finally branch: the global is put back, the file is deleted.
Restore(s) ==
    LET j == job[s]
        same == /\ Choice(j.trace, j.basis) # NoSupplier
                /\ Choice(j.trace, j.basis) = Choice(j.trace, Original(j).basis)
    IN  /\ At(s, "restore")
        /\ path' = j.orig
        /\ dbs' = [dbs EXCEPT ![j.tmp] = Empty]
        /\ Step(s, IF j.do = "replay"
                   THEN IF j.todo = {} THEN Idle ELSE [j EXCEPT !.pc = "load"]
                   ELSE [j EXCEPT !.matched = IF same THEN @ + 1 ELSE @, !.pc = "evaluate"])
        /\ UNCHANGED told

(***************************************************************************)
(* Replay of one trace, and of all recent ones.                            *)
(***************************************************************************)
RecentTraces(s) ==
    /\ At(s, "recent")
    /\ Step(s, IF Db.request = {} THEN Idle
               ELSE [job[s] EXCEPT !.todo = Db.request, !.pc = "load"])
    /\ UNCHANGED <<dbs, path, told>>

\* A trace without its request is not found, or has no input to replay; a
\* simulation goes on to the next one.
\* (It takes the newest first; no two replays share state, so here the lowest.)
LoadReplayed(s) ==
    LET j == job[s]
        t == First(j.todo)
        rest == j.todo \ {t}
    IN  /\ At(s, "load") /\ j.do = "replay"
        /\ Step(s, IF t \in Db.request
                   THEN [j EXCEPT !.trace = t, !.todo = rest, !.basis = Unset,
                                  !.pc = "thresholds"]
                   ELSE IF rest = {} THEN Idle ELSE [j EXCEPT !.todo = rest])
        /\ UNCHANGED <<dbs, path, told>>

(***************************************************************************)
(* learn_candidates.                                                       *)
(***************************************************************************)
Gather(s) ==
    /\ At(s, "gather")
    /\ Step(s, [job[s] EXCEPT !.todo = {t \in Traces : Db.feedback[t] # None},
                              !.pc = "load"])
    /\ UNCHANGED <<dbs, path, told>>

\* Traces without a request, a selected supplier or feedback do not count.
LoadTrace(s) ==
    LET j == job[s]
        t == First(j.todo)
        whole == /\ t \in Db.request /\ Db.feedback[t] # None /\ Db.result[t] # None
                 /\ Choice(t, Db.result[t]) # NoSupplier
        entry == [trace |-> t, basis |-> Db.result[t], grade |-> Db.feedback[t]]
    IN  /\ At(s, "load") /\ j.do = "learn" /\ j.todo # {}
        /\ Step(s, [j EXCEPT !.todo = @ \ {t},
                             !.corpus = IF whole THEN @ \cup {entry} ELSE @])
        /\ UNCHANGED <<dbs, path, told>>

CountTraces(s) ==
    LET j == job[s] IN
    /\ At(s, "load") /\ j.do = "learn" /\ j.todo = {}
    /\ Step(s, IF Cardinality(j.corpus) < MinTraces THEN Idle ELSE [j EXCEPT !.pc = "active"])
    /\ UNCHANGED <<dbs, path, told>>

\* ensure_baseline_policy: is a policy active, is there any, store the baseline.
Around(j, base) ==
    [j EXCEPT !.base = base, !.cands = Neighbours[base], !.pc = "candidates"]

EnsureActive(s) ==
    /\ At(s, "active")
    /\ Step(s, IF Db.active # Config THEN Around(job[s], Db.active)
               ELSE [job[s] EXCEPT !.pc = "versions"])
    /\ UNCHANGED <<dbs, path, told>>

EnsureNone(s) ==
    /\ At(s, "versions")
    /\ Step(s, IF \E v \in Versions : Db.rows[v] # None THEN Around(job[s], Baseline)
               ELSE [job[s] EXCEPT !.pc = "baseline"])
    /\ UNCHANGED <<dbs, path, told>>

Unrated == [metric |-> 0, stability |-> 0]

StoreBaseline(s) ==
    /\ At(s, "baseline")
    /\ Write(StorePolicy(Db, Baseline, Unrated, TRUE))
    /\ Step(s, Around(job[s], Baseline))
    /\ UNCHANGED <<path, told>>

\* Mutant: candidates that have a row are evaluated again.
ReevaluateCandidate(s) ==
    LET j == job[s] IN
    /\ At(s, "candidates")
    /\ \E v \in j.cands :
          Step(s, IF ~ Safe(v) THEN [j EXCEPT !.cands = @ \ {v}]
                  ELSE [j EXCEPT !.version = v, !.matched = 0, !.pc = "evaluate",
                                 !.todo = {e.trace : e \in j.corpus}])
    /\ UNCHANGED <<dbs, path, told>>

\* Candidates are taken in the order of their signatures, which is not that of
\* their versions.  A stored one keeps the metric it has.
NextCandidate(s) ==
    LET j == job[s] IN
    /\ At(s, "candidates")
    /\ \E v \in j.cands :
          Step(s, IF ~ Safe(v) THEN [j EXCEPT !.cands = @ \ {v}]
                  ELSE IF Db.rows[v] # None
                  THEN [j EXCEPT !.cands = @ \ {v}, !.scores[v] = Db.rows[v].metric]
                  ELSE [j EXCEPT !.version = v, !.matched = 0, !.pc = "evaluate",
                                 !.todo = {e.trace : e \in j.corpus}])
    /\ UNCHANGED <<dbs, path, told>>

\* Replay the next trace with everything pinned to the candidate.
Evaluate(s) ==
    LET j == job[s]
        t == First(j.todo)
    IN  /\ At(s, "evaluate") /\ j.todo # {}
        /\ Step(s, [j EXCEPT !.trace = t, !.todo = @ \ {t}, !.pc = "isolate",
                             !.basis = [k \in Lookups |-> j.version]])
        /\ UNCHANGED <<dbs, path, told>>

\* Mutant: instability is a penalty.
RatingWithPenalty(corpus, matched) ==
    LET total == Cardinality(corpus)
        good == Cardinality({e \in corpus : e.grade = "good"})
    IN  [metric |-> (80 * good - 20 * (total - matched)) \div total,
         stability |-> (100 * matched) \div total]

\* compute_hybrid_metric in per cent: half for success, 30 for the score (here
\* 1 or 0 with success), 20 for stability.
Rating(corpus, matched) ==
    LET total == Cardinality(corpus)
        good == Cardinality({e \in corpus : e.grade = "good"})
    IN  [metric |-> (80 * good + 20 * matched) \div total,
         stability |-> (100 * matched) \div total]

StoreCandidate(s) ==
    LET j == job[s]
        row == Rating(j.corpus, j.matched)
    IN  /\ At(s, "evaluate") /\ j.todo = {}
        /\ Write(StorePolicy(Db, j.version, row, FALSE))
        /\ Step(s, [j EXCEPT !.cands = @ \ {j.version}, !.scores[j.version] = row.metric,
                             !.pc = "candidates"])
        /\ UNCHANGED <<path, told>>

\* The highest metric, the lowest version among equals.
Scored(j) == {v \in Versions : j.scores[v] # None}
Best(j) == First({v \in Scored(j) : \A w \in Scored(j) : j.scores[w] <= j.scores[v]})

Report(s) ==
    LET j == job[s] IN
    /\ At(s, "candidates") /\ j.cands = {}
    /\ Step(s, Idle)
    /\ told' = IF Scored(j) = {} THEN told ELSE [told EXCEPT !.best[j.base] = Best(j)]
    /\ UNCHANGED <<dbs, path>>

(***************************************************************************)
(* promote_policy.                                                         *)
(***************************************************************************)
\* Mutant: without the guardrail.
FindUnsafeCandidate(s) ==
    LET j == job[s]
        row == Db.rows[j.version]
        refused == row = None \/ (Db.active = j.version /\ ~ j.force)
    IN  /\ At(s, "find")
        /\ Step(s, IF refused THEN Idle
                   ELSE [j EXCEPT !.row = row,
                                  !.pc = IF j.force THEN "activate" ELSE "compare"])
        /\ UNCHANGED <<dbs, path, told>>

FindCandidate(s) ==
    LET j == job[s]
        row == Db.rows[j.version]
        refused == row = None \/ ~ Safe(j.version) \/ (Db.active = j.version /\ ~ j.force)
    IN  /\ At(s, "find")
        /\ Step(s, IF refused THEN Idle
                   ELSE [j EXCEPT !.row = row,
                                  !.pc = IF j.force THEN "activate" ELSE "compare"])
        /\ UNCHANGED <<dbs, path, told>>

\* The row of the active policy; without one, default_policy() is unrated.
ActiveRow(db) == IF db.active = Config THEN Unrated ELSE db.rows[db.active]

CanPromote(row, active) ==
    row.metric > active.metric + Margin /\ row.stability >= active.stability

Compare(s) ==
    /\ At(s, "compare")
    /\ Step(s, IF CanPromote(job[s].row, ActiveRow(Db)) THEN [job[s] EXCEPT !.pc = "activate"]
               ELSE Idle)
    /\ UNCHANGED <<dbs, path, told>>

ActivatePolicy(s) ==
    /\ At(s, "activate")
    /\ Write(SetPolicyActive(Db, job[s].version))
    /\ Step(s, Idle)
    /\ UNCHANGED <<path, told>>

(***************************************************************************)
(* The server process dies and is started again: requests are lost, the    *)
(* global is back at its configured value, files nobody names remain.      *)
(***************************************************************************)
Restart ==
    /\ "restart" \in Endpoints
    /\ path' = Production
    /\ job' = [s \in Slots |-> Idle]
    /\ dbs' = [p \in Paths |-> IF p = Production THEN dbs[p] ELSE Empty]
    /\ UNCHANGED told

Execution(s) == \/ Lookup(s) \/ RecordConsensus(s) \/ PersistRequest(s) \/ PersistResult(s)
                \/ Isolate(s) \/ Redirect(s) \/ CreateTables(s) \/ Restore(s)
Replaying(s) == RecentTraces(s) \/ LoadReplayed(s)
Learning(s) == \/ Gather(s) \/ LoadTrace(s) \/ CountTraces(s)
               \/ EnsureActive(s) \/ EnsureNone(s) \/ StoreBaseline(s)
               \/ NextCandidate(s) \/ Evaluate(s) \/ StoreCandidate(s) \/ Report(s)
Promoting(s) == FindCandidate(s) \/ Compare(s) \/ ActivatePolicy(s)

Next == \/ Restart
        \/ \E s \in Slots : Call(s) \/ Feedback(s) \/ Execution(s) \/ Replaying(s) \/ Learning(s)
                            \/ Promoting(s)

Spec == Init /\ [][Next]_vars

(***************************************************************************)
(* Properties.                                                             *)
(***************************************************************************)
\* The attributes of the code keep their types.
TypeOK ==
    /\ dbs \in [Paths -> Database] /\ \A p \in Paths : Consistent(dbs[p])
    /\ path \in Paths
    /\ job \in [Slots -> Job]
    /\ told \in [runs : SUBSET Traces, grade : [Traces -> Grades \cup {None}],
                 best : [Versions -> Versions \cup {None}]]

\* When no request is inside _isolate_storage the event store is back at the
\* production database (replay_engine.py:125-135).
StorageRestored == (\A s \in Slots : ~ Inside(s)) => path = Production

\* What a client was told is stored is in the production database: the request
\* and the result of its run, the newest feedback it gave on a trace
\* (procurement.py:262-273, 300-308).
AnswersPersist ==
    /\ \A t \in told.runs : /\ t \in dbs[Production].request
                            /\ dbs[Production].result[t] # None
    /\ \A t \in Traces : told.grade[t] # None => dbs[Production].feedback[t] = told.grade[t]

\* Learning twice around the same policy reports the same best candidate,
\* whatever was run, graded or restarted in between (learner.py:560-562).
LearnIdempotent ==
    [][\A v \in Versions : told.best[v] # None => told'.best[v] = told.best[v]]_vars

\* The table of policies keeps the promises of PolicyRegister.
Register == INSTANCE PolicyRegister WITH
    rows <- dbs[Production].rows, active <- dbs[Production].active
RegisterKept == Register!Spec
=============================================================================
