------------------------ MODULE PolicyServer_proofs -------------------------
(***************************************************************************)
(* The production table of policies implements PolicyRegister, for every   *)
(* set of slots, endpoints and temporary files, every grid, guardrail and  *)
(* choice of suppliers, whatever the requests do to the global path; the   *)
(* types; and, of a server that is asked one thing at a time, that it puts *)
(* its path back, keeps what it answered and learns the same candidate.    *)
(***************************************************************************)
EXTENDS PolicyServer, FiniteSetTheorems, WellFoundedInduction, TLAPS

(***************************************************************************)
(* The inductive invariant.  The path may be wrong, but a request deletes  *)
(* only a file mkstemp gave it, and what it stores or activates is a row   *)
(* of a version, safe if it is activated.                                  *)
(***************************************************************************)
TypeInv ==
    /\ dbs \in [Paths -> Database]
    /\ path \in Paths
    /\ job \in [Slots -> Job]

Running == Lookups \cup {"request", "result", "isolate", "redirect", "create", "llm", "restore"}

\* The request executes the swarm for a trace.
RunOk(j) ==
    /\ j.pc \in Running => j.do \in Callers /\ j.trace \in Traces
    /\ j.pc = "thresholds" => j.do \in {"run", "replay"}
    /\ j.pc \in {"isolate", "redirect", "create", "restore"} => j.do \in {"replay", "learn"}

\* The file the request deletes is a temporary one.
FileOk(j) ==
    /\ j.pc \in {"redirect", "create", "restore"} => j.tmp \in Temps
    /\ j.pc \in {"type", "weights", "overrides", "llm"} /\ j.do # "run" => j.tmp \in Temps

\* There is a trace to replay, or a corpus to evaluate a version on.
LearnOk(j) ==
    /\ j.pc = "load" /\ j.do = "replay" => j.todo # {}
    /\ j.pc \in {"gather", "active", "versions", "baseline", "candidates", "evaluate"} =>
          j.do = "learn"
    /\ IsFiniteSet(j.corpus)
    /\ j.pc \in {"active", "versions", "baseline", "candidates", "evaluate"} => j.corpus # {}
    /\ j.pc \in Running /\ j.do = "learn" => j.corpus # {} /\ j.version \in Versions
    /\ j.pc = "evaluate" => j.version \in Versions

\* The version to promote passed the guardrail.
PromoteOk(j) ==
    /\ j.pc \in {"find", "compare", "activate"} => j.version \in Versions
    /\ j.pc \in {"compare", "activate"} => Safe(j.version)

JobOk(j) == RunOk(j) /\ FileOk(j) /\ LearnOk(j) /\ PromoteOk(j)

RegisterInv == TypeInv /\ \A s \in Slots : JobOk(job[s])

\* The least of a set of numbers is one of them.
LEMMA FirstIn == ASSUME NEW S, S \subseteq Nat, S # {} PROVE First(S) \in S
<1> DEFINE Less == {p \in Nat \X Nat : p[1] < p[2]}
<1>1. IsWellFoundedOn(Less, Nat)
  BY NatLessThanWellFounded DEF OpToRel
<1>2. PICK x \in S : \A y \in S : ~ (<<y, x>> \in Less)
  BY <1>1, WFMin
<1>3. ASSUME NEW y \in S PROVE x <= y
  <2>1. y < x => <<y, x>> \in Less
    OBVIOUS
  <2> QED  BY <1>2, <2>1
<1> QED  BY <1>3 DEF First

\* A step that gives one slot an admissible job.
LEMMA JobKept ==
    ASSUME RegisterInv, NEW s \in Slots, NEW j, j \in Job, JobOk(j), Step(s, j)
    PROVE  job' \in [Slots -> Job] /\ \A u \in Slots : JobOk(job'[u])
BY DEF RegisterInv, TypeInv, Step

\* A step that leaves databases and path alone.
LEMMA StoreIdle ==
    ASSUME RegisterInv, NEW s \in Slots, NEW j, j \in Job, JobOk(j), Step(s, j),
           UNCHANGED <<dbs, path>>
    PROVE  RegisterInv' /\ dbs'[Production] = dbs[Production]
<1>1. TypeInv'
  BY JobKept DEF RegisterInv, TypeInv
<1> QED  BY <1>1, JobKept DEF RegisterInv

\* A step that writes a database behind the global path.
LEMMA StoreWritten ==
    ASSUME RegisterInv, NEW s \in Slots, NEW j, j \in Job, JobOk(j), Step(s, j),
           NEW db \in Database, Write(db), UNCHANGED path
    PROVE  /\ RegisterInv'
           /\ dbs'[Production] = IF path = Production THEN db ELSE dbs[Production]
<1>1. TypeInv' /\ dbs'[Production] = IF path = Production THEN db ELSE dbs[Production]
  BY JobKept DEF RegisterInv, TypeInv, Write, Paths
<1> QED  BY <1>1, JobKept DEF RegisterInv

\* What a slot and its database are.
LEMMA Served ==
    ASSUME RegisterInv, NEW s \in Slots
    PROVE  job[s] \in Job /\ JobOk(job[s]) /\ Db \in Database /\ Empty \in Database
<1>1. Empty \in Database
  BY DEF Empty, Database, Policies
<1> QED  BY <1>1 DEF RegisterInv, TypeInv, Db

LEMMA IdleOk == Idle \in Job /\ JobOk(Idle)
<1>1. Idle \in Job
  BY DEF Idle, Job, Unset, Basis, Policies, Paths, Lookups
<1>2. IsFiniteSet({})
  BY FS_EmptySet
<1>3. JobOk(Idle)
  BY <1>2 DEF JobOk, RunOk, FileOk, LearnOk, PromoteOk, Idle, Running, Lookups
<1> QED  BY <1>1, <1>3

\* A step of the register, or none.
RegisterStep ==
    \/ Register!Next
    \/ UNCHANGED <<dbs[Production].rows, dbs[Production].active>>

Kept == RegisterInv' /\ RegisterStep

\* A step that only moves one slot.
LEMMA OnlyJob ==
    ASSUME RegisterInv, NEW s \in Slots, NEW j, j \in Job, JobOk(j), Step(s, j),
           UNCHANGED <<dbs, path>>
    PROVE  Kept
BY StoreIdle DEF Kept, RegisterStep

\* A step that writes to other tables than that of policies.
LEMMA OtherTable ==
    ASSUME RegisterInv, NEW s \in Slots, NEW j, j \in Job, JobOk(j), Step(s, j),
           NEW db \in Database, db.rows = Db.rows, db.active = Db.active,
           Write(db), UNCHANGED path
    PROVE  Kept
<1>1. RegisterInv' /\ dbs'[Production] = IF path = Production THEN db ELSE dbs[Production]
  BY StoreWritten
<1> QED  BY <1>1 DEF Kept, RegisterStep, Db

(***************************************************************************)
(* Requests arrive.                                                        *)
(***************************************************************************)
LEMMA CallOk == ASSUME NEW c \in Calls PROVE c \in Job /\ JobOk(c)
<1>1. IsFiniteSet({})
  BY FS_EmptySet
<1>2. ASSUME NEW t \in Traces, c = RunCall(t) PROVE c \in Job /\ JobOk(c)
  <2>1. c \in Job
    BY <1>2, IdleOk, NamesAssumption DEF RunCall, Job, Callers, Lookups
  <2>2. c.do = "run" /\ c.pc = "thresholds" /\ c.corpus = {} /\ c.trace \in Traces
    BY <1>2 DEF RunCall, Idle
  <2> QED  BY <1>1, <2>1, <2>2
           DEF JobOk, RunOk, FileOk, LearnOk, PromoteOk, Running, Lookups, Callers
<1>3. ASSUME NEW t \in Traces, c = ReplayCall(t) PROVE c \in Job /\ JobOk(c)
  <2>1. c \in Job
    BY <1>3, IdleOk DEF ReplayCall, Job, Callers
  <2>2. c.do = "replay" /\ c.pc = "load" /\ c.corpus = {} /\ c.todo = {t}
    BY <1>3 DEF ReplayCall, Idle
  <2> QED  BY <1>1, <2>1, <2>2 DEF JobOk, RunOk, FileOk, LearnOk, PromoteOk, Running, Lookups
<1>4. CASE c = SimulateCall \/ c = LearnCall
  <2>1. c \in Job
    <3>1. CASE c = SimulateCall
      BY <3>1, IdleOk DEF SimulateCall, Job, Callers
    <3>2. CASE c = LearnCall
      BY <3>2, IdleOk DEF LearnCall, Job, Callers
    <3> QED  BY <1>4, <3>1, <3>2
  <2>2. c.pc = "recent" \/ (c.do = "learn" /\ c.pc = "gather")
    BY <1>4 DEF SimulateCall, LearnCall, Idle
  <2>3. c.corpus = {}
    BY <1>4 DEF SimulateCall, LearnCall, Idle
  <2> QED  BY <1>1, <2>1, <2>2, <2>3
           DEF JobOk, RunOk, FileOk, LearnOk, PromoteOk, Running, Lookups
<1>5. ASSUME NEW v \in Versions, NEW force \in BOOLEAN, c = PromoteCall(v, force)
      PROVE  c \in Job /\ JobOk(c)
  <2>1. c \in Job
    BY <1>5, IdleOk DEF PromoteCall, Job, Policies
  <2>2. c.do = "promote" /\ c.pc = "find" /\ c.corpus = {} /\ c.version = v
    BY <1>5 DEF PromoteCall, Idle
  <2> QED  BY <1>1, <2>1, <2>2 DEF JobOk, RunOk, FileOk, LearnOk, PromoteOk, Running, Lookups
<1> QED  BY <1>2, <1>3, <1>4, <1>5 DEF Calls

LEMMA CallKept == ASSUME RegisterInv, NEW s \in Slots, Call(s) PROVE Kept
BY CallOk, OnlyJob DEF Call

LEMMA FeedbackKept == ASSUME RegisterInv, NEW s \in Slots, Feedback(s) PROVE Kept
<1>1. PICK t \in Traces, grade \in Grades : Write(StoreFeedback(Db, t, grade))
  BY DEF Feedback
<1>2. Db \in Database /\ job[s] \in Job /\ JobOk(job[s])
  BY Served
<1>3. /\ StoreFeedback(Db, t, grade) \in Database
      /\ StoreFeedback(Db, t, grade).rows = Db.rows
      /\ StoreFeedback(Db, t, grade).active = Db.active
  BY <1>2 DEF StoreFeedback, Database
<1>4. Step(s, job[s]) /\ UNCHANGED path
  BY DEF Feedback, Step, RegisterInv, TypeInv
<1> QED  BY <1>1, <1>2, <1>3, <1>4, OtherTable

(***************************************************************************)
(* One execution of the swarm.                                             *)
(***************************************************************************)
LEMMA LookupKept == ASSUME RegisterInv, NEW s \in Slots, Lookup(s) PROVE Kept
<1> DEFINE j == job[s]
           seen == IF j.do = "learn" /\ Db.active = Config THEN j.version ELSE Db.active
           k == [j EXCEPT !.basis[j.pc] = seen, !.pc = AfterLookup(j)]
<1>1. j \in Job /\ JobOk(j) /\ Db \in Database
  BY Served
<1>2. j.pc \in Lookups /\ Step(s, k) /\ UNCHANGED <<dbs, path>>
  BY DEF Lookup
<1>3. seen \in Policies
  BY <1>1 DEF Job, Database
<1>4. [j.basis EXCEPT ![j.pc] = seen] \in Basis
  BY <1>1, <1>3 DEF Job, Basis
<1>5. AfterLookup(j) = CASE j.pc = "thresholds" -> IF j.do = "replay" THEN "isolate" ELSE "type"
                         [] j.pc = "type" -> "weights"
                         [] j.pc = "weights" -> "overrides"
                         [] j.pc = "overrides" -> "llm"
  BY DEF AfterLookup
<1>6. k \in Job
  BY <1>1, <1>2, <1>4, <1>5 DEF Job, Lookups
<1>7. /\ k.pc = AfterLookup(j) /\ k.do = j.do /\ k.trace = j.trace /\ k.tmp = j.tmp
      /\ k.todo = j.todo /\ k.corpus = j.corpus /\ k.version = j.version
  BY <1>1 DEF Job
<1>8. JobOk(k)
  BY <1>1, <1>2, <1>5, <1>7 DEF JobOk, RunOk, FileOk, LearnOk, PromoteOk, Running, Lookups
<1> HIDE DEF k
<1> QED  BY <1>2, <1>6, <1>8, OnlyJob

LEMMA RecordConsensusKept ==
    ASSUME RegisterInv, NEW s \in Slots, RecordConsensus(s) PROVE Kept
<1> DEFINE j == job[s]
           k == [j EXCEPT !.pc = IF j.do = "run" THEN "request" ELSE "restore"]
           db == StoreLlmRecord(Db, j.trace, j.do)
<1>1. j \in Job /\ JobOk(j) /\ Db \in Database
  BY Served
<1>2. j.pc = "llm" /\ Step(s, k) /\ UNCHANGED path /\ (Write(db) \/ UNCHANGED dbs)
  BY DEF RecordConsensus, At
<1>3. j.do \in Callers /\ j.trace \in Traces
  BY <1>1, <1>2 DEF JobOk, RunOk, Running
<1>4. k \in Job
  BY <1>1 DEF Job
<1>5. /\ k.pc = IF j.do = "run" THEN "request" ELSE "restore"
      /\ k.do = j.do /\ k.trace = j.trace /\ k.tmp = j.tmp
      /\ k.todo = j.todo /\ k.corpus = j.corpus /\ k.version = j.version
  BY <1>1 DEF Job
<1>6. JobOk(k)
  BY <1>1, <1>2, <1>3, <1>5
     DEF JobOk, RunOk, FileOk, LearnOk, PromoteOk, Running, Lookups, Callers
<1>7. db \in Database /\ db.rows = Db.rows /\ db.active = Db.active
  BY <1>1, <1>3 DEF StoreLlmRecord, Database
<1> HIDE DEF k, db
<1> QED  BY <1>2, <1>4, <1>6, <1>7, OnlyJob, OtherTable

LEMMA PersistRequestKept ==
    ASSUME RegisterInv, NEW s \in Slots, PersistRequest(s) PROVE Kept
<1> DEFINE j == job[s]
           k == [j EXCEPT !.pc = "result"]
           db == StoreRequest(Db, j.trace)
<1>1. j \in Job /\ JobOk(j) /\ Db \in Database
  BY Served
<1>2. j.pc = "request" /\ Step(s, k) /\ UNCHANGED path /\ Write(db)
  BY DEF PersistRequest, At
<1>3. j.do \in Callers /\ j.trace \in Traces
  BY <1>1, <1>2 DEF JobOk, RunOk, Running
<1>4. k \in Job
  BY <1>1 DEF Job
<1>5. /\ k.pc = "result" /\ k.do = j.do /\ k.trace = j.trace /\ k.tmp = j.tmp
      /\ k.todo = j.todo /\ k.corpus = j.corpus /\ k.version = j.version
  BY <1>1 DEF Job
<1>6. JobOk(k)
  BY <1>1, <1>2, <1>3, <1>5 DEF JobOk, RunOk, FileOk, LearnOk, PromoteOk, Running, Lookups
<1>7. db \in Database /\ db.rows = Db.rows /\ db.active = Db.active
  BY <1>1, <1>3 DEF StoreRequest, Database
<1> HIDE DEF k, db
<1> QED  BY <1>2, <1>4, <1>6, <1>7, OtherTable

LEMMA PersistResultKept ==
    ASSUME RegisterInv, NEW s \in Slots, PersistResult(s) PROVE Kept
<1> DEFINE j == job[s]
           db == StoreResult(Db, j.trace, j.basis)
<1>1. j \in Job /\ Db \in Database
  BY Served
<1>2. Step(s, Idle) /\ UNCHANGED path /\ Write(db)
  BY DEF PersistResult
<1>3. db \in Database /\ db.rows = Db.rows /\ db.active = Db.active
  BY <1>1 DEF StoreResult, Database, Job
<1> HIDE DEF db
<1> QED  BY <1>2, <1>3, IdleOk, OtherTable

(***************************************************************************)
(* _isolate_storage.  The production file is never the one deleted.        *)
(***************************************************************************)
LEMMA IsolateKept == ASSUME RegisterInv, NEW s \in Slots, Isolate(s) PROVE Kept
<1> DEFINE j == job[s]
<1>1. j \in Job /\ JobOk(j) /\ path \in Paths
  BY Served DEF RegisterInv, TypeInv
<1>2. PICK tmp \in Temps : Step(s, [j EXCEPT !.orig = path, !.tmp = tmp, !.pc = "redirect"])
  BY DEF Isolate
<1> DEFINE k == [j EXCEPT !.orig = path, !.tmp = tmp, !.pc = "redirect"]
<1>3. j.pc = "isolate" /\ UNCHANGED <<dbs, path>>
  BY DEF Isolate, At
<1>4. k \in Job
  BY <1>1 DEF Job, Paths
<1>5. /\ k.pc = "redirect" /\ k.do = j.do /\ k.trace = j.trace /\ k.tmp = tmp
      /\ k.todo = j.todo /\ k.corpus = j.corpus /\ k.version = j.version
  BY <1>1 DEF Job
<1>6. JobOk(k)
  BY <1>1, <1>3, <1>5 DEF JobOk, RunOk, FileOk, LearnOk, PromoteOk, Running, Lookups
<1> HIDE DEF k
<1> QED  BY <1>2, <1>3, <1>4, <1>6, OnlyJob DEF k

LEMMA RedirectKept ==
    ASSUME RegisterInv, NEW s \in Slots, Redirect(s) \/ CreateTables(s) PROVE Kept
<1> DEFINE j == job[s]
           next == IF Redirect(s) THEN "create"
                   ELSE IF j.do = "learn" THEN "overrides" ELSE "type"
           k == [j EXCEPT !.pc = next]
<1>1. j \in Job /\ JobOk(j)
  BY Served
<1>2. /\ j.pc \in {"redirect", "create"} /\ path' = j.tmp
      /\ UNCHANGED dbs /\ Step(s, k)
  BY DEF Redirect, CreateTables, At
<1>3. next \in {"create", "overrides", "type"}
  OBVIOUS
<1> HIDE DEF next
<1>4. k \in Job
  BY <1>1, <1>3 DEF Job, Lookups
<1>5. /\ k.pc = next /\ k.do = j.do /\ k.trace = j.trace /\ k.tmp = j.tmp
      /\ k.todo = j.todo /\ k.corpus = j.corpus /\ k.version = j.version
  BY <1>1 DEF Job
<1>6. JobOk(k)
  BY <1>1, <1>2, <1>3, <1>5 DEF JobOk, RunOk, FileOk, LearnOk, PromoteOk, Running, Lookups
<1>7. path' \in Paths
  BY <1>1, <1>2 DEF Job
<1> HIDE DEF k
<1>8. RegisterInv'
  BY <1>2, <1>4, <1>6, <1>7, JobKept DEF RegisterInv, TypeInv
<1> QED  BY <1>2, <1>8 DEF Kept, RegisterStep

LEMMA RestoreKept == ASSUME RegisterInv, NEW s \in Slots, Restore(s) PROVE Kept
<1> DEFINE j == job[s]
<1>1. j \in Job /\ JobOk(j) /\ Empty \in Database
  BY Served
<1>2. /\ j.pc = "restore" /\ path' = j.orig
      /\ dbs' = [dbs EXCEPT ![j.tmp] = Empty]
  BY DEF Restore, At
<1>3. j.tmp \in Temps /\ j.do \in {"replay", "learn"}
  BY <1>1, <1>2 DEF JobOk, FileOk, RunOk
<1> DEFINE same == /\ Choice(j.trace, j.basis) # NoSupplier
                   /\ Choice(j.trace, j.basis) = Choice(j.trace, Original(j).basis)
           matched == IF same THEN j.matched + 1 ELSE j.matched
           again == [j EXCEPT !.pc = "load"]
           back == [j EXCEPT !.matched = matched, !.pc = "evaluate"]
<1>4. Step(s, IF j.do = "replay" THEN IF j.todo = {} THEN Idle ELSE again ELSE back)
  BY DEF Restore
<1> HIDE DEF same
<1>5. again \in Job /\ back \in Job
  <2>1. matched \in Nat
    BY <1>1 DEF Job
  <2> HIDE DEF matched
  <2> QED  BY <1>1, <2>1 DEF Job
<1>6. j.do = "replay" /\ j.todo # {} => JobOk(again)
  <2>1. /\ again.pc = "load" /\ again.do = j.do /\ again.todo = j.todo
        /\ again.corpus = j.corpus
    BY <1>1 DEF Job
  <2> QED  BY <1>1, <2>1 DEF JobOk, RunOk, FileOk, LearnOk, PromoteOk, Running, Lookups
<1>7. j.do = "learn" => JobOk(back)
  <2>1. /\ back.pc = "evaluate" /\ back.do = j.do /\ back.version = j.version
        /\ back.corpus = j.corpus
    BY <1>1 DEF Job
  <2> QED  BY <1>1, <1>2, <2>1 DEF JobOk, RunOk, FileOk, LearnOk, PromoteOk, Running, Lookups
<1>8. \E k \in Job : JobOk(k) /\ Step(s, k)
  <2> HIDE DEF again, back
  <2> QED  BY <1>3, <1>4, <1>5, <1>6, <1>7, IdleOk
<1>9. job' \in [Slots -> Job] /\ \A u \in Slots : JobOk(job'[u])
  BY <1>8, JobKept
<1>10. dbs' \in [Paths -> Database] /\ dbs'[Production] = dbs[Production] /\ path' \in Paths
  BY <1>1, <1>2, <1>3, PathsAssumption DEF RegisterInv, TypeInv, Paths, Job
<1> QED  BY <1>9, <1>10 DEF Kept, RegisterStep, RegisterInv, TypeInv

(***************************************************************************)
(* Replays.                                                                *)
(***************************************************************************)
LEMMA RecentTracesKept == ASSUME RegisterInv, NEW s \in Slots, RecentTraces(s) PROVE Kept
<1> DEFINE j == job[s]
           k == [j EXCEPT !.todo = Db.request, !.pc = "load"]
<1>1. j \in Job /\ JobOk(j) /\ Db \in Database
  BY Served
<1>2. /\ j.pc = "recent" /\ UNCHANGED <<dbs, path>>
      /\ Step(s, IF Db.request = {} THEN Idle ELSE k)
  BY DEF RecentTraces, At
<1>3. k \in Job
  BY <1>1 DEF Job, Database
<1>4. k.pc = "load" /\ k.do = j.do /\ k.todo = Db.request /\ k.corpus = j.corpus
  BY <1>1 DEF Job
<1>5. Db.request # {} => JobOk(k)
  BY <1>1, <1>4 DEF JobOk, RunOk, FileOk, LearnOk, PromoteOk, Running, Lookups
<1> HIDE DEF k
<1> QED  BY <1>2, <1>3, <1>5, IdleOk, OnlyJob

LEMMA LoadReplayedKept == ASSUME RegisterInv, NEW s \in Slots, LoadReplayed(s) PROVE Kept
<1> DEFINE j == job[s]
           t == First(j.todo)
           k == [j EXCEPT !.trace = t, !.todo = j.todo \ {t}, !.basis = Unset,
                          !.pc = "thresholds"]
           next == [j EXCEPT !.todo = j.todo \ {t}]
<1>1. j \in Job /\ JobOk(j)
  BY Served
<1>2. /\ j.pc = "load" /\ j.do = "replay" /\ UNCHANGED <<dbs, path>>
      /\ Step(s, IF t \in Db.request THEN k ELSE IF j.todo \ {t} = {} THEN Idle ELSE next)
  BY DEF LoadReplayed, At
<1>3. t \in Traces
  <2>1. j.todo \subseteq Traces /\ j.todo # {}
    BY <1>1, <1>2 DEF Job, JobOk, LearnOk
  <2> QED  BY <2>1, FirstIn, NamesAssumption
<1> HIDE DEF t
<1>4. Unset \in Basis
  BY DEF Unset, Basis, Policies
<1>5. k \in Job /\ next \in Job
  BY <1>1, <1>3, <1>4, NamesAssumption DEF Job, Lookups
<1>6. JobOk(k)
  <2>1. k.pc = "thresholds" /\ k.do = j.do /\ k.trace = t /\ k.corpus = j.corpus
    BY <1>1 DEF Job
  <2> QED  BY <1>1, <1>2, <1>3, <2>1
           DEF JobOk, RunOk, FileOk, LearnOk, PromoteOk, Running, Lookups, Callers
<1>7. j.todo \ {t} # {} => JobOk(next)
  <2>1. /\ next.pc = j.pc /\ next.do = j.do /\ next.corpus = j.corpus
        /\ next.todo = j.todo \ {t}
    BY <1>1 DEF Job
  <2> QED  BY <1>1, <1>2, <2>1 DEF JobOk, RunOk, FileOk, LearnOk, PromoteOk, Running, Lookups
<1> HIDE DEF k, next
<1> QED  BY <1>2, <1>5, <1>6, <1>7, IdleOk, OnlyJob

(***************************************************************************)
(* Learning.                                                               *)
(***************************************************************************)
LEMMA GatherKept == ASSUME RegisterInv, NEW s \in Slots, Gather(s) PROVE Kept
<1> DEFINE j == job[s]
           todo == {t \in Traces : Db.feedback[t] # None}
           k == [j EXCEPT !.todo = todo, !.pc = "load"]
<1>1. j \in Job /\ JobOk(j)
  BY Served
<1>2. j.pc = "gather" /\ UNCHANGED <<dbs, path>> /\ Step(s, k)
  BY DEF Gather, At
<1>3. todo \subseteq Traces
  OBVIOUS
<1> HIDE DEF todo
<1>4. k \in Job
  BY <1>1, <1>3 DEF Job
<1>5. k.pc = "load" /\ k.do = j.do /\ k.corpus = j.corpus
  BY <1>1 DEF Job
<1>6. JobOk(k)
  BY <1>1, <1>2, <1>5 DEF JobOk, RunOk, FileOk, LearnOk, PromoteOk, Running, Lookups
<1> HIDE DEF k
<1> QED  BY <1>2, <1>4, <1>6, OnlyJob

LEMMA LoadTraceKept == ASSUME RegisterInv, NEW s \in Slots, LoadTrace(s) PROVE Kept
<1> DEFINE j == job[s]
           t == First(j.todo)
           entry == [trace |-> t, basis |-> Db.result[t], grade |-> Db.feedback[t]]
           whole == /\ t \in Db.request /\ Db.feedback[t] # None /\ Db.result[t] # None
                    /\ Choice(t, Db.result[t]) # NoSupplier
           corpus == IF whole THEN j.corpus \cup {entry} ELSE j.corpus
           k == [j EXCEPT !.todo = j.todo \ {t}, !.corpus = corpus]
<1>1. j \in Job /\ JobOk(j) /\ Db \in Database
  BY Served
<1>2. /\ j.pc = "load" /\ j.do = "learn" /\ j.todo # {} /\ UNCHANGED <<dbs, path>>
      /\ Step(s, k)
  BY DEF LoadTrace, At
<1>3. t \in Traces
  <2>1. j.todo \subseteq Traces
    BY <1>1 DEF Job
  <2> QED  BY <1>2, <2>1, FirstIn, NamesAssumption
<1> HIDE DEF t
<1>4. whole => entry \in Evaluable
  BY <1>1, <1>3 DEF Evaluable, Database
<1>5. IsFiniteSet(j.corpus) /\ j.corpus \subseteq Evaluable
  BY <1>1 DEF JobOk, LearnOk, Job
<1> HIDE DEF entry, whole
<1>6. IsFiniteSet(corpus) /\ corpus \subseteq Evaluable
  BY <1>4, <1>5, FS_AddElement
<1> HIDE DEF corpus
<1>7. k \in Job
  BY <1>1, <1>6 DEF Job
<1>8. k.pc = "load" /\ k.do = "learn" /\ k.corpus = corpus
  BY <1>1, <1>2 DEF Job
<1>9. JobOk(k)
  BY <1>6, <1>8 DEF JobOk, RunOk, FileOk, LearnOk, PromoteOk, Running, Lookups
<1> HIDE DEF k
<1> QED  BY <1>2, <1>7, <1>9, OnlyJob

LEMMA CountTracesKept == ASSUME RegisterInv, NEW s \in Slots, CountTraces(s) PROVE Kept
<1> DEFINE j == job[s]
           k == [j EXCEPT !.pc = "active"]
<1>1. j \in Job /\ JobOk(j)
  BY Served
<1>2. /\ j.do = "learn" /\ UNCHANGED <<dbs, path>>
      /\ Step(s, IF Cardinality(j.corpus) < MinTraces THEN Idle ELSE k)
  BY DEF CountTraces, At
<1>3. ~ (Cardinality(j.corpus) < MinTraces) => j.corpus # {}
  BY FS_EmptySet, BoundsAssumption
<1>4. k \in Job
  BY <1>1 DEF Job
<1>5. k.pc = "active" /\ k.do = "learn" /\ k.corpus = j.corpus
  BY <1>1, <1>2 DEF Job
<1>6. j.corpus # {} => JobOk(k)
  BY <1>1, <1>5 DEF JobOk, RunOk, FileOk, LearnOk, PromoteOk, Running, Lookups
<1> HIDE DEF k
<1> QED  BY <1>2, <1>3, <1>4, <1>6, IdleOk, OnlyJob

\* The search around a base keeps its corpus.
LEMMA AroundOk ==
    ASSUME NEW j, j \in Job, JobOk(j), j.pc \in {"active", "versions", "baseline"},
           NEW base \in Versions
    PROVE  Around(j, base) \in Job /\ JobOk(Around(j, base))
<1> DEFINE k == Around(j, base)
<1>1. Neighbours[base] \subseteq Versions
  BY PoliciesAssumption
<1>2. k \in Job
  BY <1>1 DEF Around, Job, Policies
<1>3. k.pc = "candidates" /\ k.do = j.do /\ k.corpus = j.corpus
  BY DEF Around, Job
<1>4. JobOk(k)
  BY <1>3 DEF JobOk, RunOk, FileOk, LearnOk, PromoteOk, Running, Lookups
<1> QED  BY <1>2, <1>4

LEMMA EnsureKept ==
    ASSUME RegisterInv, NEW s \in Slots, EnsureActive(s) \/ EnsureNone(s) PROVE Kept
<1> DEFINE j == job[s]
           next == IF EnsureActive(s) THEN "versions" ELSE "baseline"
           k == [j EXCEPT !.pc = next]
<1>1. j \in Job /\ JobOk(j) /\ Db \in Database
  BY Served
<1>2. /\ j.pc \in {"active", "versions"} /\ UNCHANGED <<dbs, path>>
      /\ \/ Step(s, k)
         \/ Db.active # Config /\ Step(s, Around(j, Db.active))
         \/ Step(s, Around(j, Baseline))
  BY DEF EnsureActive, EnsureNone, At
<1>3. next \in {"versions", "baseline"}
  OBVIOUS
<1> HIDE DEF next
<1>4. k \in Job
  BY <1>1, <1>3 DEF Job
<1>5. k.pc = next /\ k.do = j.do /\ k.corpus = j.corpus
  BY <1>1 DEF Job
<1>6. JobOk(k)
  BY <1>1, <1>2, <1>3, <1>5 DEF JobOk, RunOk, FileOk, LearnOk, PromoteOk, Running, Lookups
<1>7. Baseline \in Versions /\ (Db.active # Config => Db.active \in Versions)
  BY <1>1, PoliciesAssumption DEF Database, Policies
<1> HIDE DEF k
<1> QED  BY <1>1, <1>2, <1>4, <1>6, <1>7, AroundOk, OnlyJob

\* A row of its own for a version that had none: a step of the register.
LEMMA StoreBaselineKept ==
    ASSUME RegisterInv, NEW s \in Slots, StoreBaseline(s) PROVE Kept
<1> DEFINE j == job[s]
           db == StorePolicy(Db, Baseline, Unrated, TRUE)
<1>1. j \in Job /\ JobOk(j) /\ Db \in Database
  BY Served
<1>2. j.pc = "baseline" /\ Write(db) /\ Step(s, Around(j, Baseline)) /\ UNCHANGED path
  BY DEF StoreBaseline, At
<1>3. Unrated \in Row /\ Baseline \in Versions
  BY PoliciesAssumption DEF Unrated, Row
<1>4. db \in Database
  BY <1>1, <1>3 DEF StorePolicy, Database, Policies
<1>5. \/ db = Db
      \/ /\ Db.rows[Baseline] = None /\ Db.active = Config /\ db.active = Baseline
         /\ db.rows = [Db.rows EXCEPT ![Baseline] = Unrated]
  BY <1>1 DEF StorePolicy, Database
<1>6. db.rows = [Db.rows EXCEPT ![Baseline] = Unrated] => db.rows[Baseline] = Unrated
  BY <1>1, <1>3 DEF Database
<1>7. Around(j, Baseline) \in Job /\ JobOk(Around(j, Baseline))
  BY <1>1, <1>2, <1>3, AroundOk
<1> HIDE DEF db
<1>8. RegisterInv' /\ dbs'[Production] = IF path = Production THEN db ELSE dbs[Production]
  BY <1>2, <1>4, <1>7, StoreWritten
<1>9. CASE path # Production \/ db = Db
  BY <1>8, <1>9 DEF Kept, RegisterStep, Db
<1>10. CASE path = Production /\ db # Db
  <2>1. Register!Establish
    BY <1>3, <1>5, <1>6, <1>8, <1>10 DEF Register!Establish, Db
  <2> QED  BY <1>8, <2>1 DEF Kept, RegisterStep, Register!Next
<1> QED  BY <1>9, <1>10

LEMMA NextCandidateKept == ASSUME RegisterInv, NEW s \in Slots, NextCandidate(s) PROVE Kept
<1> DEFINE j == job[s]
<1>1. j \in Job /\ JobOk(j) /\ Db \in Database
  BY Served
<1>2. j.pc = "candidates" /\ UNCHANGED <<dbs, path>>
  BY DEF NextCandidate, At
<1>3. PICK v \in j.cands :
        Step(s, IF ~ Safe(v) THEN [j EXCEPT !.cands = @ \ {v}]
                ELSE IF Db.rows[v] # None
                THEN [j EXCEPT !.cands = @ \ {v}, !.scores[v] = Db.rows[v].metric]
                ELSE [j EXCEPT !.version = v, !.matched = 0, !.pc = "evaluate",
                               !.todo = {e.trace : e \in j.corpus}])
  BY DEF NextCandidate
<1> DEFINE unsafe == [j EXCEPT !.cands = @ \ {v}]
           stored == [j EXCEPT !.cands = @ \ {v}, !.scores[v] = Db.rows[v].metric]
           fresh == [j EXCEPT !.version = v, !.matched = 0, !.pc = "evaluate",
                              !.todo = {e.trace : e \in j.corpus}]
<1>4. v \in Versions
  BY <1>1 DEF Job
<1>5. unsafe \in Job /\ JobOk(unsafe)
  <2>1. unsafe \in Job
    BY <1>1 DEF Job
  <2>2. unsafe.pc = "candidates" /\ unsafe.do = j.do /\ unsafe.corpus = j.corpus
    BY <1>1, <1>2 DEF Job
  <2> QED  BY <1>1, <1>2, <2>1, <2>2
           DEF JobOk, RunOk, FileOk, LearnOk, PromoteOk, Running, Lookups
<1>6. Db.rows[v] # None => stored \in Job /\ JobOk(stored)
  <2>1. Db.rows[v] # None => Db.rows[v].metric \in Nat
    BY <1>1, <1>4 DEF Database, Row
  <2>2. Db.rows[v] # None =>
          [j.scores EXCEPT ![v] = Db.rows[v].metric] \in [Versions -> Nat \cup {None}]
    BY <1>1, <2>1 DEF Job
  <2>3. Db.rows[v] # None => stored \in Job
    BY <1>1, <2>2 DEF Job
  <2>4. stored.pc = "candidates" /\ stored.do = j.do /\ stored.corpus = j.corpus
    BY <1>1, <1>2 DEF Job
  <2> QED  BY <1>1, <1>2, <2>3, <2>4
           DEF JobOk, RunOk, FileOk, LearnOk, PromoteOk, Running, Lookups
<1>7. fresh \in Job /\ JobOk(fresh)
  <2>1. {e.trace : e \in j.corpus} \subseteq Traces
    BY <1>1 DEF Job, Evaluable
  <2>2. fresh \in Job
    BY <1>1, <1>4, <2>1 DEF Job, Policies
  <2>3. /\ fresh.pc = "evaluate" /\ fresh.do = j.do /\ fresh.corpus = j.corpus
        /\ fresh.version = v
    BY <1>1 DEF Job
  <2> QED  BY <1>1, <1>2, <1>4, <2>2, <2>3
           DEF JobOk, RunOk, FileOk, LearnOk, PromoteOk, Running, Lookups
<1>8. \E k \in Job : JobOk(k) /\ Step(s, k)
  <2> HIDE DEF unsafe, stored, fresh
  <2>1. Step(s, IF ~ Safe(v) THEN unsafe ELSE IF Db.rows[v] # None THEN stored ELSE fresh)
    BY <1>3 DEF unsafe, stored, fresh
  <2> QED  BY <1>5, <1>6, <1>7, <2>1
<1> QED  BY <1>2, <1>8, OnlyJob

LEMMA EvaluateKept == ASSUME RegisterInv, NEW s \in Slots, Evaluate(s) PROVE Kept
<1> DEFINE j == job[s]
           t == First(j.todo)
           basis == [l \in Lookups |-> j.version]
           k == [j EXCEPT !.trace = t, !.todo = j.todo \ {t}, !.pc = "isolate",
                          !.basis = basis]
<1>1. j \in Job /\ JobOk(j)
  BY Served
<1>2. j.pc = "evaluate" /\ j.todo # {} /\ UNCHANGED <<dbs, path>> /\ Step(s, k)
  BY DEF Evaluate, At
<1>3. t \in Traces
  <2>1. j.todo \subseteq Traces
    BY <1>1 DEF Job
  <2> QED  BY <1>2, <2>1, FirstIn, NamesAssumption
<1> HIDE DEF t
<1>4. basis \in Basis
  BY <1>1 DEF Job, Basis
<1> HIDE DEF basis
<1>5. k \in Job
  BY <1>1, <1>3, <1>4, NamesAssumption DEF Job
<1>6. /\ k.pc = "isolate" /\ k.do = j.do /\ k.trace = t /\ k.corpus = j.corpus
      /\ k.version = j.version
  BY <1>1 DEF Job
<1>7. JobOk(k)
  BY <1>1, <1>2, <1>3, <1>6
     DEF JobOk, RunOk, FileOk, LearnOk, PromoteOk, Running, Lookups, Callers
<1> HIDE DEF k
<1> QED  BY <1>2, <1>5, <1>7, OnlyJob

LEMMA Quotient == ASSUME NEW a \in Nat, NEW b \in Nat, b > 0 PROVE a \div b \in Nat
OBVIOUS

\* A rating is a row as soon as there is something to rate.
LEMMA RatingRow ==
    ASSUME NEW corpus, IsFiniteSet(corpus), corpus # {}, NEW matched \in Nat
    PROVE  Rating(corpus, matched) \in Row
<1> DEFINE total == Cardinality(corpus)
           liked == {e \in corpus : e.grade = "good"}
           good == Cardinality(liked)
<1>1. total \in Nat /\ total > 0
  BY FS_EmptySet, FS_CardinalityType
<1>2. good \in Nat
  BY FS_Subset, FS_CardinalityType
<1> HIDE DEF total, good
<1>3. 80 * good + 20 * matched \in Nat /\ 100 * matched \in Nat
  BY <1>2
<1>4. /\ (80 * good + 20 * matched) \div total \in Nat
      /\ (100 * matched) \div total \in Nat
  BY <1>1, <1>3, Quotient
<1> QED  BY <1>4 DEF Rating, Row, total, good

LEMMA StoreCandidateKept ==
    ASSUME RegisterInv, NEW s \in Slots, StoreCandidate(s) PROVE Kept
<1> DEFINE j == job[s]
           v == j.version
           row == Rating(j.corpus, j.matched)
           db == StorePolicy(Db, v, row, FALSE)
           scores == [j.scores EXCEPT ![v] = row.metric]
           k == [j EXCEPT !.cands = @ \ {v}, !.scores[v] = row.metric, !.pc = "candidates"]
<1>1. j \in Job /\ JobOk(j) /\ Db \in Database
  BY Served
<1>2. j.pc = "evaluate" /\ Write(db) /\ Step(s, k) /\ UNCHANGED path
  BY DEF StoreCandidate, At
<1>3. v \in Versions
  BY <1>1, <1>2 DEF JobOk, LearnOk
<1>4. row \in Row
  BY <1>1, <1>2, RatingRow DEF JobOk, LearnOk, Job
<1> HIDE DEF row
<1>5. scores \in [Versions -> Nat \cup {None}]
  BY <1>1, <1>4 DEF Job, Row
<1>6. k \in Job
  BY <1>1, <1>5 DEF Job
<1>7. k.pc = "candidates" /\ k.do = j.do /\ k.corpus = j.corpus
  BY <1>1 DEF Job
<1>8. JobOk(k)
  BY <1>1, <1>2, <1>7 DEF JobOk, RunOk, FileOk, LearnOk, PromoteOk, Running, Lookups
<1>9. db \in Database
  BY <1>1, <1>3, <1>4 DEF StorePolicy, Database
<1>10. \/ db = Db
       \/ /\ Db.rows[v] = None /\ db.active = Db.active
          /\ db.rows = [Db.rows EXCEPT ![v] = row]
  BY <1>1 DEF StorePolicy, Database
<1>11. db.rows = [Db.rows EXCEPT ![v] = row] => db.rows[v] = row
  BY <1>1, <1>3 DEF Database
<1> HIDE DEF db, k
<1>12. RegisterInv' /\ dbs'[Production] = IF path = Production THEN db ELSE dbs[Production]
  BY <1>2, <1>6, <1>8, <1>9, StoreWritten
<1>13. CASE path # Production \/ db = Db
  BY <1>12, <1>13 DEF Kept, RegisterStep, Db
<1>14. CASE path = Production /\ db # Db
  <2>1. Register!Store(v)
    BY <1>4, <1>10, <1>11, <1>12, <1>14 DEF Register!Store, Db
  <2> QED  BY <1>3, <1>12, <2>1 DEF Kept, RegisterStep, Register!Next
<1> QED  BY <1>13, <1>14

LEMMA ReportKept == ASSUME RegisterInv, NEW s \in Slots, Report(s) PROVE Kept
BY IdleOk, OnlyJob DEF Report

(***************************************************************************)
(* Promotion.                                                              *)
(***************************************************************************)
LEMMA FindCandidateKept == ASSUME RegisterInv, NEW s \in Slots, FindCandidate(s) PROVE Kept
<1> DEFINE j == job[s]
           row == Db.rows[j.version]
           refused == row = None \/ ~ Safe(j.version) \/ (Db.active = j.version /\ ~ j.force)
           next == IF j.force THEN "activate" ELSE "compare"
           k == [j EXCEPT !.row = row, !.pc = next]
<1>1. j \in Job /\ JobOk(j) /\ Db \in Database
  BY Served
<1>2. j.pc = "find" /\ UNCHANGED <<dbs, path>> /\ Step(s, IF refused THEN Idle ELSE k)
  BY DEF FindCandidate, At
<1>3. j.version \in Versions /\ next \in {"activate", "compare"}
  BY <1>1, <1>2 DEF JobOk, PromoteOk
<1>4. row \in Row \cup {None}
  BY <1>1, <1>3 DEF Database
<1> HIDE DEF next, row
<1>5. k \in Job
  BY <1>1, <1>3, <1>4 DEF Job
<1>6. k.pc = next /\ k.do = j.do /\ k.corpus = j.corpus /\ k.version = j.version
  BY <1>1 DEF Job
<1>7. Safe(j.version) => JobOk(k)
  BY <1>1, <1>3, <1>6 DEF JobOk, RunOk, FileOk, LearnOk, PromoteOk, Running, Lookups
<1> HIDE DEF k
<1> QED  BY <1>2, <1>5, <1>7, IdleOk, OnlyJob

LEMMA CompareKept == ASSUME RegisterInv, NEW s \in Slots, Compare(s) PROVE Kept
<1> DEFINE j == job[s]
           k == [j EXCEPT !.pc = "activate"]
<1>1. j \in Job /\ JobOk(j)
  BY Served
<1>2. j.pc = "compare" /\ UNCHANGED <<dbs, path>> /\ (Step(s, k) \/ Step(s, Idle))
  BY DEF Compare, At
<1>3. k \in Job
  BY <1>1 DEF Job
<1>4. k.pc = "activate" /\ k.do = j.do /\ k.corpus = j.corpus /\ k.version = j.version
  BY <1>1 DEF Job
<1>5. JobOk(k)
  BY <1>1, <1>2, <1>4 DEF JobOk, RunOk, FileOk, LearnOk, PromoteOk, Running, Lookups
<1> HIDE DEF k
<1> QED  BY <1>2, <1>3, <1>5, IdleOk, OnlyJob

LEMMA ActivateKept == ASSUME RegisterInv, NEW s \in Slots, ActivatePolicy(s) PROVE Kept
<1> DEFINE j == job[s]
           v == j.version
           db == SetPolicyActive(Db, v)
<1>1. j \in Job /\ JobOk(j) /\ Db \in Database
  BY Served
<1>2. j.pc = "activate" /\ Write(db) /\ Step(s, Idle) /\ UNCHANGED path
  BY DEF ActivatePolicy, At
<1>3. v \in Versions /\ Safe(v)
  BY <1>1, <1>2 DEF JobOk, PromoteOk
<1>4. db \in Database
  BY <1>1, <1>3 DEF SetPolicyActive, Database, Policies
<1>5. db = Db \/ (Db.rows[v] # None /\ db.active = v /\ db.rows = Db.rows)
  BY <1>1 DEF SetPolicyActive, Database
<1> HIDE DEF db
<1>6. RegisterInv' /\ dbs'[Production] = IF path = Production THEN db ELSE dbs[Production]
  BY <1>2, <1>4, IdleOk, StoreWritten
<1>7. CASE path # Production \/ db = Db
  BY <1>6, <1>7 DEF Kept, RegisterStep, Db
<1>8. CASE path = Production /\ db # Db
  <2>1. Register!Activate(v)
    BY <1>3, <1>5, <1>6, <1>8 DEF Register!Activate, Db
  <2> QED  BY <1>3, <1>6, <2>1 DEF Kept, RegisterStep, Register!Next
<1> QED  BY <1>7, <1>8

LEMMA RestartKept == ASSUME RegisterInv, Restart PROVE Kept
<1>1. Empty \in Database
  BY DEF Empty, Database, Policies
<1>2. TypeInv' /\ \A s \in Slots : job'[s] = Idle
  BY <1>1, IdleOk DEF Restart, RegisterInv, TypeInv, Paths
<1>3. dbs'[Production] = dbs[Production]
  BY DEF Restart, Paths
<1> QED  BY <1>2, <1>3, IdleOk DEF Kept, RegisterStep, RegisterInv

(***************************************************************************)
(* The theorem.                                                            *)
(***************************************************************************)
LEMMA InitOk == Init => RegisterInv /\ Register!Init
<1> SUFFICES ASSUME Init PROVE RegisterInv /\ Register!Init
  OBVIOUS
<1>1. PICK db \in Seeds : dbs = [p \in Paths |-> IF p = Production THEN db ELSE Empty]
  BY DEF Init
<1>2. db \in Database /\ Consistent(db) /\ Empty \in Database
  BY SeedsAssumption DEF Empty, Database, Policies
<1>3. TypeInv /\ \A s \in Slots : job[s] = Idle
  BY <1>1, <1>2, IdleOk DEF Init, TypeInv, Paths
<1>4. dbs[Production] = db
  BY <1>1 DEF Paths
<1>5. Register!Init
  BY <1>2, <1>4 DEF Register!Init, Consistent, Database, Policies
<1> QED  BY <1>3, <1>5, IdleOk DEF RegisterInv

LEMMA NextOk == RegisterInv /\ [Next]_vars => Kept
<1> SUFFICES ASSUME RegisterInv, [Next]_vars PROVE Kept
  OBVIOUS
<1>1. CASE Restart
  BY <1>1, RestartKept
<1>2. ASSUME NEW s \in Slots, Call(s) \/ Feedback(s) PROVE Kept
  BY <1>2, CallKept, FeedbackKept
<1>3. ASSUME NEW s \in Slots, Execution(s) PROVE Kept
  BY <1>3, LookupKept, RecordConsensusKept, PersistRequestKept, PersistResultKept,
     IsolateKept, RedirectKept, RestoreKept DEF Execution
<1>4. ASSUME NEW s \in Slots, Replaying(s) PROVE Kept
  BY <1>4, RecentTracesKept, LoadReplayedKept DEF Replaying
<1>5. ASSUME NEW s \in Slots, Learning(s) PROVE Kept
  BY <1>5, GatherKept, LoadTraceKept, CountTracesKept, EnsureKept, StoreBaselineKept,
     NextCandidateKept, EvaluateKept, StoreCandidateKept, ReportKept DEF Learning
<1>6. ASSUME NEW s \in Slots, Promoting(s) PROVE Kept
  BY <1>6, FindCandidateKept, CompareKept, ActivateKept DEF Promoting
<1>7. CASE UNCHANGED vars
  BY <1>7 DEF vars, Kept, RegisterStep, RegisterInv, TypeInv
<1> QED  BY <1>1, <1>2, <1>3, <1>4, <1>5, <1>6, <1>7 DEF Next

\* The production table of policies implements the register: rows are never
\* changed or lost, at most one policy is active, it has a row, it was put in
\* place by the baseline's first row or by a promotion past the guardrail, and
\* it is never withdrawn (event_store.py: store_policy, set_policy_active).
THEOREM RegisterRefined == Spec => RegisterKept
<1>1. Init => RegisterInv /\ Register!Init
  BY InitOk
<1>2. RegisterInv /\ [Next]_vars => RegisterInv'
  BY NextOk DEF Kept
<1>3. RegisterInv /\ [Next]_vars =>
        [Register!Next]_<<dbs[Production].rows, dbs[Production].active>>
  BY NextOk DEF Kept, RegisterStep
<1> QED  BY <1>1, <1>2, <1>3, PTL DEF Spec, RegisterKept, Register!Spec

(***************************************************************************)
(* Types.  Two facts are needed beyond RegisterInv: an active policy has   *)
(* its row in every database, also behind a wrong path; and a learner has  *)
(* scored finitely many candidates, so that one of them is the best.       *)
(***************************************************************************)
Told == [runs : SUBSET Traces, grade : [Traces -> Grades \cup {None}],
         best : [Versions -> Versions \cup {None}]]

ActiveStored == \A p \in Paths : Consistent(dbs[p])
ScoredFinite == \A s \in Slots : IsFiniteSet(Scored(job[s]))
AnswerInv == ActiveStored /\ ScoredFinite /\ told \in Told

\* At most one more candidate is scored.
ScoresGrow(j, k) == \E v : Scored(k) \subseteq Scored(j) \cup {v}

LEMMA IdleUnscored == Scored(Idle) = {} /\ \A j : ScoresGrow(j, Idle)
<1>1. Scored(Idle) = {}
  BY DEF Scored, Idle
<1> QED  BY <1>1 DEF ScoresGrow

LEMMA SameScores ==
    ASSUME NEW j, NEW k, k.scores = j.scores PROVE ScoresGrow(j, k)
BY DEF ScoresGrow, Scored

LEMMA CallUnscored == ASSUME NEW c \in Calls PROVE Scored(c) = {}
<1>1. c.scores = Idle.scores
  <2>1. ASSUME NEW t \in Traces, c = RunCall(t) \/ c = ReplayCall(t) PROVE c.scores = Idle.scores
    BY <2>1 DEF RunCall, ReplayCall, Idle
  <2>2. CASE c = SimulateCall \/ c = LearnCall
    BY <2>2 DEF SimulateCall, LearnCall, Idle
  <2>3. ASSUME NEW v \in Versions, NEW force \in BOOLEAN, c = PromoteCall(v, force)
        PROVE  c.scores = Idle.scores
    BY <2>3 DEF PromoteCall, Idle
  <2> QED  BY <2>1, <2>2, <2>3 DEF Calls
<1> QED  BY <1>1, IdleUnscored DEF Scored

LEMMA FinitelyScored ==
    ASSUME RegisterInv, AnswerInv, NEW s \in Slots, NEW k, Step(s, k), ScoresGrow(job[s], k)
    PROVE  ScoredFinite'
<1>1. PICK v : Scored(k) \subseteq Scored(job[s]) \cup {v}
  BY DEF ScoresGrow
<1>2. IsFiniteSet(Scored(job[s]))
  BY DEF AnswerInv, ScoredFinite
<1>3. IsFiniteSet(Scored(k))
  BY <1>1, <1>2, FS_AddElement, FS_Subset
<1>4. ASSUME NEW u \in Slots PROVE IsFiniteSet(Scored(job'[u]))
  <2>1. job'[u] = IF u = s THEN k ELSE job[u]
    BY DEF Step, RegisterInv, TypeInv
  <2> QED  BY <1>3, <2>1 DEF AnswerInv, ScoredFinite
<1> QED  BY <1>4 DEF ScoredFinite, Scored

\* A step that gives one slot a job and leaves databases and answers alone.
Mute(s) == /\ UNCHANGED <<dbs, told>>
           /\ \E k : Step(s, k) /\ ScoresGrow(job[s], k)

LEMMA MuteAnswer ==
    ASSUME RegisterInv, AnswerInv, NEW s \in Slots, Mute(s) PROVE AnswerInv'
<1>1. ScoredFinite'
  BY FinitelyScored DEF Mute
<1>2. (ActiveStored /\ told \in Told)'
  BY DEF Mute, AnswerInv, ActiveStored, Told
<1> QED  BY <1>1, <1>2 DEF AnswerInv

LEMMA RunMute ==
    ASSUME RegisterInv, NEW s \in Slots,
           Call(s) \/ Lookup(s) \/ Isolate(s) \/ Redirect(s) \/ CreateTables(s)
    PROVE  Mute(s)
<1> DEFINE j == job[s]
<1>1. j \in Job
  BY Served
<1>2. CASE Call(s)
  <2>1. PICK c \in Calls : Step(s, c)
    BY <1>2 DEF Call
  <2> QED  BY <1>2, <2>1, CallUnscored DEF Call, Mute, ScoresGrow
<1>3. CASE Lookup(s)
  <2> DEFINE seen == IF j.do = "learn" /\ Db.active = Config THEN j.version ELSE Db.active
             k == [j EXCEPT !.basis[j.pc] = seen, !.pc = AfterLookup(j)]
  <2>1. Step(s, k) /\ UNCHANGED <<dbs, told>>
    BY <1>3 DEF Lookup
  <2>2. k.scores = j.scores
    BY <1>1 DEF Job
  <2> HIDE DEF k
  <2> QED  BY <2>1, <2>2, SameScores DEF Mute
<1>4. CASE Isolate(s)
  <2>1. PICK tmp \in Temps : Step(s, [j EXCEPT !.orig = path, !.tmp = tmp, !.pc = "redirect"])
    BY <1>4 DEF Isolate
  <2> DEFINE k == [j EXCEPT !.orig = path, !.tmp = tmp, !.pc = "redirect"]
  <2>2. k.scores = j.scores
    BY <1>1 DEF Job
  <2>3. Step(s, k) /\ UNCHANGED <<dbs, told>>
    BY <1>4, <2>1 DEF Isolate
  <2> HIDE DEF k
  <2> QED  BY <2>2, <2>3, SameScores DEF Mute
<1>5. CASE Redirect(s) \/ CreateTables(s)
  <2> DEFINE next == IF Redirect(s) THEN "create"
                     ELSE IF j.do = "learn" THEN "overrides" ELSE "type"
             k == [j EXCEPT !.pc = next]
  <2>1. Step(s, k) /\ UNCHANGED <<dbs, told>>
    BY <1>5 DEF Redirect, CreateTables
  <2>2. k.scores = j.scores
    BY <1>1 DEF Job
  <2> HIDE DEF k
  <2> QED  BY <2>1, <2>2, SameScores DEF Mute
<1> QED  BY <1>2, <1>3, <1>4, <1>5

LEMMA ReplayMute ==
    ASSUME RegisterInv, NEW s \in Slots, RecentTraces(s) \/ LoadReplayed(s)
    PROVE  Mute(s)
<1> DEFINE j == job[s]
           t == First(j.todo)
           recent == [j EXCEPT !.todo = Db.request, !.pc = "load"]
           k == [j EXCEPT !.trace = t, !.todo = j.todo \ {t}, !.basis = Unset,
                          !.pc = "thresholds"]
           next == [j EXCEPT !.todo = j.todo \ {t}]
<1>1. j \in Job
  BY Served
<1>2. recent.scores = j.scores /\ k.scores = j.scores /\ next.scores = j.scores
  BY <1>1 DEF Job
<1>3. UNCHANGED <<dbs, told>> /\ (Step(s, recent) \/ Step(s, k) \/ Step(s, next) \/ Step(s, Idle))
  BY DEF RecentTraces, LoadReplayed
<1> HIDE DEF recent, k, next
<1> QED  BY <1>2, <1>3, IdleUnscored, SameScores DEF Mute

LEMMA CorpusMute ==
    ASSUME RegisterInv, NEW s \in Slots, Gather(s) \/ LoadTrace(s) \/ CountTraces(s)
    PROVE  Mute(s)
<1> DEFINE j == job[s]
           t == First(j.todo)
           entry == [trace |-> t, basis |-> Db.result[t], grade |-> Db.feedback[t]]
           whole == /\ t \in Db.request /\ Db.feedback[t] # None /\ Db.result[t] # None
                    /\ Choice(t, Db.result[t]) # NoSupplier
           corpus == IF whole THEN j.corpus \cup {entry} ELSE j.corpus
           graded == [j EXCEPT !.todo = {u \in Traces : Db.feedback[u] # None}, !.pc = "load"]
           loaded == [j EXCEPT !.todo = j.todo \ {t}, !.corpus = corpus]
           enough == [j EXCEPT !.pc = "active"]
<1>1. j \in Job
  BY Served
<1>2. graded.scores = j.scores /\ loaded.scores = j.scores /\ enough.scores = j.scores
  BY <1>1 DEF Job
<1>3. /\ UNCHANGED <<dbs, told>>
      /\ Step(s, graded) \/ Step(s, loaded) \/ Step(s, enough) \/ Step(s, Idle)
  BY DEF Gather, LoadTrace, CountTraces
<1> HIDE DEF graded, loaded, enough
<1> QED  BY <1>2, <1>3, IdleUnscored, SameScores DEF Mute

LEMMA AroundScores ==
    ASSUME NEW j \in Job, NEW base PROVE Around(j, base).scores = j.scores
BY DEF Around, Job

LEMMA SearchMute ==
    ASSUME RegisterInv, NEW s \in Slots, EnsureActive(s) \/ EnsureNone(s) \/ Evaluate(s)
    PROVE  Mute(s)
<1> DEFINE j == job[s]
           t == First(j.todo)
           basis == [l \in Lookups |-> j.version]
           next == IF EnsureActive(s) THEN "versions" ELSE "baseline"
           k == [j EXCEPT !.pc = next]
           pinned == [j EXCEPT !.trace = t, !.todo = j.todo \ {t}, !.pc = "isolate",
                               !.basis = basis]
<1>1. j \in Job
  BY Served
<1>2. k.scores = j.scores /\ pinned.scores = j.scores
  BY <1>1 DEF Job
<1>3. UNCHANGED <<dbs, told>>
  BY DEF EnsureActive, EnsureNone, Evaluate
<1>4. \/ Step(s, k) \/ Step(s, pinned)
      \/ Step(s, Around(j, Db.active)) \/ Step(s, Around(j, Baseline))
  BY DEF EnsureActive, EnsureNone, Evaluate
<1> HIDE DEF k, pinned
<1> QED  BY <1>1, <1>2, <1>3, <1>4, AroundScores, SameScores DEF Mute

LEMMA CandidateMute == ASSUME RegisterInv, NEW s \in Slots, NextCandidate(s) PROVE Mute(s)
<1> DEFINE j == job[s]
<1>1. j \in Job
  BY Served
<1>2. PICK v \in j.cands :
        Step(s, IF ~ Safe(v) THEN [j EXCEPT !.cands = @ \ {v}]
                ELSE IF Db.rows[v] # None
                THEN [j EXCEPT !.cands = @ \ {v}, !.scores[v] = Db.rows[v].metric]
                ELSE [j EXCEPT !.version = v, !.matched = 0, !.pc = "evaluate",
                               !.todo = {e.trace : e \in j.corpus}])
  BY DEF NextCandidate
<1> DEFINE unsafe == [j EXCEPT !.cands = @ \ {v}]
           stored == [j EXCEPT !.cands = @ \ {v}, !.scores[v] = Db.rows[v].metric]
           fresh == [j EXCEPT !.version = v, !.matched = 0, !.pc = "evaluate",
                              !.todo = {e.trace : e \in j.corpus}]
<1>3. unsafe.scores = j.scores /\ fresh.scores = j.scores
  BY <1>1 DEF Job
<1>4. ScoresGrow(j, stored)
  <2>1. stored.scores = [j.scores EXCEPT ![v] = Db.rows[v].metric]
    BY <1>1 DEF Job
  <2> HIDE DEF stored
  <2>2. Scored(stored) \subseteq Scored(j) \cup {v}
    BY <1>1, <2>1 DEF Scored, Job
  <2> QED  BY <2>2 DEF ScoresGrow
<1>5. Step(s, unsafe) \/ Step(s, stored) \/ Step(s, fresh)
  BY <1>2
<1>6. UNCHANGED <<dbs, told>>
  BY DEF NextCandidate
<1> HIDE DEF unsafe, stored, fresh
<1> QED  BY <1>3, <1>4, <1>5, <1>6, SameScores DEF Mute

LEMMA PromoteMute ==
    ASSUME RegisterInv, NEW s \in Slots, FindCandidate(s) \/ Compare(s) PROVE Mute(s)
<1> DEFINE j == job[s]
           row == Db.rows[j.version]
           next == IF j.force THEN "activate" ELSE "compare"
           found == [j EXCEPT !.row = row, !.pc = next]
           k == [j EXCEPT !.pc = "activate"]
<1>1. j \in Job
  BY Served
<1>2. found.scores = j.scores /\ k.scores = j.scores
  BY <1>1 DEF Job
<1>3. UNCHANGED <<dbs, told>> /\ (Step(s, found) \/ Step(s, k) \/ Step(s, Idle))
  BY DEF FindCandidate, Compare
<1> HIDE DEF found, k
<1> QED  BY <1>2, <1>3, IdleUnscored, SameScores DEF Mute

\* A step that writes a database.
LEMMA WriteAnswer ==
    ASSUME RegisterInv, AnswerInv, NEW s \in Slots, NEW k, Step(s, k), ScoresGrow(job[s], k),
           NEW db, Consistent(db), Write(db), told' \in Told
    PROVE  AnswerInv'
<1>1. ASSUME NEW p \in Paths PROVE Consistent(dbs'[p])
  <2>1. dbs'[p] = IF p = path THEN db ELSE dbs[p]
    BY DEF Write, RegisterInv, TypeInv
  <2> QED  BY <2>1 DEF AnswerInv, ActiveStored
<1>2. ActiveStored'
  BY <1>1 DEF ActiveStored, Consistent
<1>3. ScoredFinite'
  BY FinitelyScored
<1> QED  BY <1>2, <1>3 DEF AnswerInv, Told

\* What the functions of the event store leave of the active policy.
LEMMA StillStored ==
    ASSUME NEW db \in Database, Consistent(db)
    PROVE  /\ \A t, grade : Consistent(StoreFeedback(db, t, grade))
           /\ \A t, caller : Consistent(StoreLlmRecord(db, t, caller))
           /\ \A t : Consistent(StoreRequest(db, t))
           /\ \A t, basis : Consistent(StoreResult(db, t, basis))
           /\ \A v : Consistent(SetPolicyActive(db, v))
           /\ Consistent(Empty)
<1>1. \A t, grade : Consistent(StoreFeedback(db, t, grade))
  BY DEF StoreFeedback, Consistent, Database
<1>2. \A t, caller : Consistent(StoreLlmRecord(db, t, caller))
  BY DEF StoreLlmRecord, Consistent, Database
<1>3. \A t : Consistent(StoreRequest(db, t))
  BY DEF StoreRequest, Consistent, Database
<1>4. \A t, basis : Consistent(StoreResult(db, t, basis))
  BY DEF StoreResult, Consistent, Database
<1>5. \A v : Consistent(SetPolicyActive(db, v))
  BY DEF SetPolicyActive, Consistent, Database
<1>6. Consistent(Empty)
  BY DEF Empty, Consistent
<1> QED  BY <1>1, <1>2, <1>3, <1>4, <1>5, <1>6

LEMMA PolicyStored ==
    ASSUME NEW db \in Database, Consistent(db), NEW v \in Versions, NEW row \in Row,
           NEW active \in BOOLEAN
    PROVE  Consistent(StorePolicy(db, v, row, active))
<1> DEFINE new == StorePolicy(db, v, row, active)
<1>1. CASE db.rows[v] # None \/ (active /\ db.active # Config)
  BY <1>1 DEF StorePolicy
<1>2. CASE ~ (db.rows[v] # None \/ (active /\ db.active # Config))
  <2>1. new = [db EXCEPT !.rows[v] = row, !.active = IF active THEN v ELSE db.active]
    BY <1>2 DEF StorePolicy
  <2>2. /\ new.rows = [db.rows EXCEPT ![v] = row]
        /\ new.active = IF active THEN v ELSE db.active
    BY <2>1 DEF Database
  <2>3. db.rows \in [Versions -> Row \cup {None}] /\ row # None
    BY PoliciesAssumption DEF Database
  <2>4. db.active \in Versions \cup {Config}
    BY DEF Database, Policies
  <2> HIDE DEF new
  <2>5. Consistent(new)
    BY <2>2, <2>3, <2>4 DEF Consistent
  <2> QED  BY <2>5 DEF new
<1> QED  BY <1>1, <1>2

LEMMA FeedbackAnswer ==
    ASSUME RegisterInv, AnswerInv, NEW s \in Slots, Feedback(s) PROVE AnswerInv'
<1>1. PICK t \in Traces, grade \in Grades :
          Write(StoreFeedback(Db, t, grade)) /\ told' = [told EXCEPT !.grade[t] = grade]
  BY DEF Feedback
<1>2. Db \in Database /\ Consistent(Db) /\ Step(s, job[s])
  BY Served DEF RegisterInv, TypeInv, AnswerInv, ActiveStored, Db, Feedback, Step
<1>3. told' \in Told
  BY <1>1 DEF AnswerInv, Told
<1>4. ScoresGrow(job[s], job[s])
  BY SameScores
<1> QED  BY <1>1, <1>2, <1>3, <1>4, StillStored, WriteAnswer

LEMMA PersistAnswer ==
    ASSUME RegisterInv, AnswerInv, NEW s \in Slots,
           RecordConsensus(s) \/ PersistRequest(s) \/ PersistResult(s) \/ ActivatePolicy(s)
    PROVE  AnswerInv'
<1> DEFINE j == job[s]
           next == IF PersistRequest(s) THEN "result"
                   ELSE IF j.do = "run" THEN "request" ELSE "restore"
           k == [j EXCEPT !.pc = next]
<1>1. j \in Job /\ JobOk(j) /\ Db \in Database /\ Consistent(Db)
  BY Served DEF RegisterInv, TypeInv, AnswerInv, ActiveStored, Db
<1>2. k.scores = j.scores
  BY <1>1 DEF Job
<1>3. Step(s, k) \/ Step(s, Idle)
  BY DEF RecordConsensus, PersistRequest, PersistResult, ActivatePolicy
<1>4. \E m : Step(s, m) /\ ScoresGrow(j, m)
  <2> HIDE DEF k
  <2> QED  BY <1>2, <1>3, SameScores, IdleUnscored
<1>5. told' \in Told
  <2>1. CASE PersistResult(s)
    <3>1. j.trace \in Traces
      BY <1>1, <2>1 DEF PersistResult, At, JobOk, RunOk, Running
    <3> QED  BY <2>1, <3>1 DEF PersistResult, AnswerInv, Told
  <2>2. CASE ~ PersistResult(s)
    BY <2>2 DEF RecordConsensus, PersistRequest, ActivatePolicy, AnswerInv
  <2> QED  BY <2>1, <2>2
<1>6. CASE \E db : Write(db) /\ Consistent(db)
  BY <1>4, <1>5, <1>6, WriteAnswer
<1>7. CASE UNCHANGED dbs
  <2>1. ActiveStored'
    BY <1>7 DEF AnswerInv, ActiveStored
  <2>2. ScoredFinite'
    BY <1>4, FinitelyScored
  <2> QED  BY <1>5, <2>1, <2>2 DEF AnswerInv, Told
<1> QED  BY <1>1, <1>6, <1>7, StillStored
         DEF RecordConsensus, PersistRequest, PersistResult, ActivatePolicy

LEMMA RestoreAnswer ==
    ASSUME RegisterInv, AnswerInv, NEW s \in Slots, Restore(s) PROVE AnswerInv'
<1> DEFINE j == job[s]
           same == /\ Choice(j.trace, j.basis) # NoSupplier
                   /\ Choice(j.trace, j.basis) = Choice(j.trace, Original(j).basis)
           again == [j EXCEPT !.pc = "load"]
           back == [j EXCEPT !.matched = IF same THEN @ + 1 ELSE @, !.pc = "evaluate"]
<1>1. j \in Job
  BY Served
<1>2. again.scores = j.scores /\ back.scores = j.scores
  BY <1>1 DEF Job
<1>3. Step(s, again) \/ Step(s, back) \/ Step(s, Idle)
  BY DEF Restore
<1>4. \E m : Step(s, m) /\ ScoresGrow(j, m)
  <2> HIDE DEF again, back
  <2> QED  BY <1>2, <1>3, SameScores, IdleUnscored
<1>5. ASSUME NEW p \in Paths PROVE Consistent(dbs'[p])
  <2>1. dbs'[p] = dbs[p] \/ dbs'[p] = Empty
    BY DEF Restore, RegisterInv, TypeInv
  <2>2. Consistent(Empty)
    BY DEF Empty, Consistent
  <2> QED  BY <2>1, <2>2 DEF AnswerInv, ActiveStored
<1>6. ActiveStored'
  BY <1>5 DEF ActiveStored, Consistent
<1>7. ScoredFinite'
  BY <1>4, FinitelyScored
<1>8. told' \in Told
  BY DEF Restore, AnswerInv
<1> QED  BY <1>6, <1>7, <1>8 DEF AnswerInv, Told

LEMMA StoreAnswer ==
    ASSUME RegisterInv, AnswerInv, NEW s \in Slots, StoreBaseline(s) \/ StoreCandidate(s)
    PROVE  AnswerInv'
<1> DEFINE j == job[s]
           v == j.version
           row == Rating(j.corpus, j.matched)
           k == [j EXCEPT !.cands = @ \ {v}, !.scores[v] = row.metric, !.pc = "candidates"]
<1>1. j \in Job /\ JobOk(j) /\ Db \in Database /\ Consistent(Db)
  BY Served DEF RegisterInv, TypeInv, AnswerInv, ActiveStored, Db
<1>2. told' \in Told
  BY DEF StoreBaseline, StoreCandidate, AnswerInv
<1>3. CASE StoreBaseline(s)
  <2>1. Unrated \in Row /\ Baseline \in Versions
    BY PoliciesAssumption DEF Unrated, Row
  <2>2. Step(s, Around(j, Baseline)) /\ Write(StorePolicy(Db, Baseline, Unrated, TRUE))
    BY <1>3 DEF StoreBaseline
  <2>3. ScoresGrow(j, Around(j, Baseline))
    BY <1>1, AroundScores, SameScores
  <2> QED  BY <1>1, <1>2, <2>1, <2>2, <2>3, PolicyStored, WriteAnswer
<1>4. CASE StoreCandidate(s)
  <2>1. j.pc = "evaluate" /\ Step(s, k) /\ Write(StorePolicy(Db, v, row, FALSE))
    BY <1>4 DEF StoreCandidate, At
  <2>2. v \in Versions /\ row \in Row
    BY <1>1, <2>1, RatingRow DEF JobOk, LearnOk, Job
  <2>3. ScoresGrow(j, k)
    <3>1. k.scores = [j.scores EXCEPT ![v] = row.metric]
      BY <1>1 DEF Job
    <3> HIDE DEF k
    <3>2. Scored(k) \subseteq Scored(j) \cup {v}
      BY <1>1, <3>1 DEF Scored, Job
    <3> QED  BY <3>2 DEF ScoresGrow
  <2> HIDE DEF k
  <2> QED  BY <1>1, <1>2, <2>1, <2>2, <2>3, PolicyStored, WriteAnswer
<1> QED  BY <1>3, <1>4

\* Among finitely many candidates some score is the highest: of the sets of
\* those that score more take the smallest.
LEMMA HighestExists ==
    ASSUME NEW S, IsFiniteSet(S), S # {}, NEW score, \A v \in S : score[v] \in Nat
    PROVE  \E v \in S : \A w \in S : score[w] <= score[v]
<1> DEFINE Above(v) == {w \in S : score[v] < score[w]}
           Sizes == {Cardinality(Above(v)) : v \in S}
<1>1. ASSUME NEW v \in S PROVE IsFiniteSet(Above(v)) /\ Cardinality(Above(v)) \in Nat
  BY FS_Subset, FS_CardinalityType
<1>2. Sizes \subseteq Nat /\ Sizes # {}
  BY <1>1
<1>3. PICK n \in Sizes : \A m \in Sizes : n <= m
  <2> DEFINE Less == {p \in Nat \X Nat : p[1] < p[2]}
  <2>1. IsWellFoundedOn(Less, Nat)
    BY NatLessThanWellFounded DEF OpToRel
  <2> HIDE DEF Sizes
  <2>2. PICK x \in Sizes : \A y \in Sizes : ~ (<<y, x>> \in Less)
    BY <1>2, <2>1, WFMin
  <2>3. ASSUME NEW y \in Sizes PROVE x <= y
    <3>1. y < x => <<y, x>> \in Less
      BY <1>2
    <3> QED  BY <1>2, <2>2, <3>1
  <2> QED  BY <2>3
<1>4. PICK v \in S : n = Cardinality(Above(v))
  OBVIOUS
<1>5. ASSUME NEW w \in S, ~ (score[w] <= score[v]) PROVE FALSE
  <2>1. w \in Above(v) /\ w \notin Above(w) /\ Above(w) \subseteq Above(v)
    BY <1>5
  <2>2. IsFiniteSet(Above(v)) /\ Cardinality(Above(v)) \in Nat /\ Cardinality(Above(w)) \in Nat
    BY <1>1
  <2>3. Cardinality(Above(w)) \in Sizes
    OBVIOUS
  <2> HIDE DEF Above, Sizes
  <2>4. Cardinality(Above(w)) < Cardinality(Above(v))
    <3>1. Above(w) # Above(v)
      BY <2>1
    <3> QED  BY <2>1, <2>2, <3>1, FS_Subset
  <2> QED  BY <1>3, <1>4, <2>2, <2>3, <2>4
<1> QED  BY <1>5

LEMMA BestIn ==
    ASSUME NEW j \in Job, IsFiniteSet(Scored(j)), Scored(j) # {}
    PROVE  Best(j) \in Versions
<1> DEFINE S == {v \in Scored(j) : \A w \in Scored(j) : j.scores[w] <= j.scores[v]}
<1>1. Scored(j) \subseteq Versions /\ \A v \in Scored(j) : j.scores[v] \in Nat
  BY DEF Scored, Job
<1>2. S # {}
  <2>1. \E v \in Scored(j) : \A w \in Scored(j) : j.scores[w] <= j.scores[v]
    BY <1>1, HighestExists
  <2> QED  BY <2>1
<1>3. S \subseteq Nat /\ S \subseteq Versions
  BY <1>1, NamesAssumption
<1>4. First(S) \in S
  <2> HIDE DEF S
  <2> QED  BY <1>2, <1>3, FirstIn
<1> QED  BY <1>3, <1>4 DEF Best

LEMMA ReportAnswer ==
    ASSUME RegisterInv, AnswerInv, NEW s \in Slots, Report(s) PROVE AnswerInv'
<1> DEFINE j == job[s]
<1>1. j \in Job /\ IsFiniteSet(Scored(j)) /\ told \in Told
  BY Served DEF AnswerInv, ScoredFinite
<1>2. told' \in Told
  <2>1. CASE Scored(j) = {}
    BY <1>1, <2>1 DEF Report
  <2>2. CASE Scored(j) # {}
    <3>1. Best(j) \in Versions /\ told' = [told EXCEPT !.best[j.base] = Best(j)]
      BY <1>1, <2>2, BestIn DEF Report
    <3> QED  BY <1>1, <3>1 DEF Told
  <2> QED  BY <2>1, <2>2
<1>3. Step(s, Idle) /\ UNCHANGED dbs
  BY DEF Report
<1>4. ActiveStored'
  BY <1>3 DEF AnswerInv, ActiveStored
<1>5. ScoredFinite'
  BY <1>3, IdleUnscored, FinitelyScored
<1> QED  BY <1>2, <1>4, <1>5 DEF AnswerInv, Told

LEMMA RestartAnswer == ASSUME RegisterInv, AnswerInv, Restart PROVE AnswerInv'
<1>1. ActiveStored'
  <2>1. ASSUME NEW p \in Paths PROVE Consistent(dbs'[p])
    <3>1. dbs'[p] = dbs[p] \/ dbs'[p] = Empty
      BY DEF Restart
    <3>2. Consistent(Empty)
      BY DEF Empty, Consistent
    <3> QED  BY <3>1, <3>2 DEF AnswerInv, ActiveStored
  <2> QED  BY <2>1 DEF ActiveStored, Consistent
<1>2. ScoredFinite'
  <2>1. \A s \in Slots : IsFiniteSet(Scored(job'[s]))
    BY IdleUnscored, FS_EmptySet DEF Restart
  <2> QED  BY <2>1 DEF ScoredFinite, Scored
<1>3. told' \in Told
  BY DEF Restart, AnswerInv
<1> QED  BY <1>1, <1>2, <1>3 DEF AnswerInv, Told

LEMMA AnswerInitially == Init => AnswerInv
<1> SUFFICES ASSUME Init PROVE AnswerInv
  OBVIOUS
<1>1. PICK db \in Seeds : dbs = [p \in Paths |-> IF p = Production THEN db ELSE Empty]
  BY DEF Init
<1>2. Consistent(db) /\ Consistent(Empty)
  BY SeedsAssumption DEF Empty, Consistent
<1>3. ActiveStored
  BY <1>1, <1>2 DEF ActiveStored
<1>4. ScoredFinite
  BY IdleUnscored, FS_EmptySet DEF Init, ScoredFinite
<1>5. told \in Told
  BY DEF Init, Told
<1> QED  BY <1>3, <1>4, <1>5 DEF AnswerInv

LEMMA AnswerNext == RegisterInv /\ AnswerInv /\ [Next]_vars => AnswerInv'
<1> SUFFICES ASSUME RegisterInv, AnswerInv, [Next]_vars PROVE AnswerInv'
  OBVIOUS
<1>1. CASE Restart
  BY <1>1, RestartAnswer
<1>2. ASSUME NEW s \in Slots, Call(s) \/ Feedback(s) PROVE AnswerInv'
  BY <1>2, FeedbackAnswer, RunMute, MuteAnswer
<1>3. ASSUME NEW s \in Slots, Execution(s) PROVE AnswerInv'
  BY <1>3, PersistAnswer, RestoreAnswer, RunMute, MuteAnswer DEF Execution
<1>4. ASSUME NEW s \in Slots, Replaying(s) PROVE AnswerInv'
  BY <1>4, ReplayMute, MuteAnswer DEF Replaying
<1>5. ASSUME NEW s \in Slots, Learning(s) PROVE AnswerInv'
  BY <1>5, CorpusMute, SearchMute, CandidateMute, MuteAnswer, StoreAnswer, ReportAnswer
     DEF Learning
<1>6. ASSUME NEW s \in Slots, Promoting(s) PROVE AnswerInv'
  BY <1>6, PromoteMute, MuteAnswer, PersistAnswer DEF Promoting
<1>7. CASE UNCHANGED vars
  BY <1>7 DEF vars, AnswerInv, ActiveStored, ScoredFinite, Scored, Told
<1> QED  BY <1>1, <1>2, <1>3, <1>4, <1>5, <1>6, <1>7 DEF Next

\* Types: whatever requests overlap, the path is a known one, the active
\* policy of every database has its row there, and a learner that scored
\* candidates answers with one of the versions (learner.py, learn_candidates).
THEOREM TypeCorrect == Spec => []TypeOK
<1>1. Init => RegisterInv /\ AnswerInv
  BY InitOk, AnswerInitially
<1>2. RegisterInv /\ AnswerInv /\ [Next]_vars => RegisterInv' /\ AnswerInv'
  BY NextOk, AnswerNext DEF Kept
<1>3. RegisterInv /\ AnswerInv => TypeOK
  BY DEF RegisterInv, TypeInv, AnswerInv, ActiveStored, Told, TypeOK
<1> QED  BY <1>1, <1>2, <1>3, PTL DEF Spec

(***************************************************************************)
(* One request at a time, killed at any step.  The four remaining          *)
(* properties hold then, for every grid, guardrail and choice: between two *)
(* steps of a request nobody else moves the path or writes a row.          *)
(***************************************************************************)
Serial == \E s \in Slots : Slots = {s}

\* The request executes the swarm on a temporary file.
Isolated(j) ==
    /\ j.do \in {"replay", "learn"}
    /\ j.pc \in {"create", "llm", "restore", "type", "weights", "overrides"}

\* The path is that of the request; the one it found was the production file.
PathOk(j, p) ==
    /\ Isolated(j) \/ j.pc = "redirect" => j.orig = Production
    /\ p = IF Isolated(j) THEN j.tmp ELSE Production

\* A run whose result is not stored yet has stored its request.
RequestOk(j, db) == j.pc = "result" => j.trace \in db.request

\* What promotion read is still there.
RowOk(j, db) ==
    j.pc \in {"compare", "activate"} => j.row # None /\ db.rows[j.version] = j.row

\* The candidates around a policy that pass the guardrail.
Eligible(base) == {v \in Neighbours[base] : Safe(v)}

Searching(j) == j.do = "learn" /\ j.pc \in {"candidates", "evaluate"} \cup Running

\* A candidate is scored by its stored metric, and is left only for that.
\* Before the search starts nothing is scored.
SearchOk(j, rows) ==
    /\ Searching(j) =>
        /\ j.base \in Versions /\ j.cands \subseteq Neighbours[j.base]
        /\ \A v \in Scored(j) : /\ v \in Eligible(j.base) /\ rows[v] # None
                                /\ j.scores[v] = rows[v].metric
        /\ Eligible(j.base) \ j.cands \subseteq Scored(j)
        /\ j.pc # "candidates" =>
              j.version \in j.cands /\ Safe(j.version) /\ rows[j.version] = None
    /\ j.do = "learn" /\ ~ Searching(j) => Scored(j) = {}

\* The best of the candidates around a policy, once all of them have a row.
Winner(base, rows) ==
    First({v \in Eligible(base) : \A w \in Eligible(base) : rows[w].metric <= rows[v].metric})

BestOk(best, rows) ==
    \A v \in Versions : best[v] # None =>
        best[v] = Winner(v, rows) /\ \A w \in Eligible(v) : rows[w] # None

SlotOk(j, p, db) == PathOk(j, p) /\ RequestOk(j, db) /\ RowOk(j, db) /\ SearchOk(j, db.rows)

SerialInv ==
    /\ \A s \in Slots : SlotOk(job[s], path, dbs[Production])
    /\ BestOk(told.best, dbs[Production].rows)
    /\ AnswersPersist

\* A request that is not in the middle of something.
LEMMA PlainOk ==
    ASSUME NEW j, j.pc \notin {"result", "compare", "activate", "redirect"},
           ~ Isolated(j), ~ Searching(j), j.do = "learn" => Scored(j) = {}, NEW db
    PROVE  SlotOk(j, Production, db)
BY DEF SlotOk, PathOk, RequestOk, RowOk, SearchOk

LEMMA IdlePlain == \A db : SlotOk(Idle, Production, db)
BY PlainOk, IdleUnscored DEF Idle, Isolated, Searching, Running, Lookups

\* A step of the one request there is.
LEMMA SerialStep ==
    ASSUME RegisterInv, NEW s \in Slots, Slots = {s}, NEW k, Step(s, k),
           SlotOk(k, path', dbs'[Production]),
           BestOk(told'.best, dbs'[Production].rows), AnswersPersist'
    PROVE  SerialInv'
<1>1. \A u \in Slots : job'[u] = k
  BY DEF Step, RegisterInv, TypeInv
<1> QED  BY <1>1 DEF SerialInv

\* The same, when it leaves the production database and the answers alone.
LEMMA SerialMute ==
    ASSUME RegisterInv, SerialInv, NEW s \in Slots, Slots = {s}, NEW k, Step(s, k),
           SlotOk(k, path', dbs[Production]), UNCHANGED <<dbs[Production], told>>
    PROVE  SerialInv'
<1>1. BestOk(told'.best, dbs'[Production].rows) /\ SlotOk(k, path', dbs'[Production])
  BY DEF SerialInv
<1>2. AnswersPersist'
  BY DEF SerialInv, AnswersPersist
<1> QED  BY <1>1, <1>2, SerialStep

\* What the invariant says of the slot.
LEMMA SlotNow ==
    ASSUME RegisterInv, SerialInv, NEW s \in Slots
    PROVE  /\ job[s] \in Job /\ JobOk(job[s]) /\ Db \in Database
           /\ SlotOk(job[s], path, dbs[Production]) /\ dbs[Production] \in Database
           /\ ~ Isolated(job[s]) => path = Production /\ Db = dbs[Production]
           /\ Isolated(job[s]) => path \in Temps /\ path # Production
<1>1. /\ job[s] \in Job /\ JobOk(job[s]) /\ Db \in Database
      /\ SlotOk(job[s], path, dbs[Production]) /\ dbs[Production] \in Database
  BY Served DEF SerialInv, RegisterInv, TypeInv, Paths
<1>2. ~ Isolated(job[s]) => path = Production /\ Db = dbs[Production]
  BY <1>1 DEF SlotOk, PathOk, Db
<1>3. Isolated(job[s]) => path \in Temps /\ path # Production
  <2>1. Isolated(job[s]) => path = job[s].tmp
    BY <1>1 DEF SlotOk, PathOk
  <2>2. Isolated(job[s]) => job[s].tmp \in Temps
    BY <1>1 DEF Isolated, JobOk, FileOk
  <2> QED  BY <2>1, <2>2, PathsAssumption
<1> QED  BY <1>1, <1>2, <1>3

LEMMA CallPlain == ASSUME NEW c \in Calls, NEW db PROVE SlotOk(c, Production, db)
<1>1. Scored(c) = {}
  BY CallUnscored
<1>2. c.pc \in {"thresholds", "load", "recent", "gather", "find"}
  <2>1. ASSUME NEW t \in Traces, c = RunCall(t) \/ c = ReplayCall(t)
        PROVE  c.pc \in {"thresholds", "load"}
    BY <2>1 DEF RunCall, ReplayCall, Idle
  <2>2. CASE c = SimulateCall \/ c = LearnCall
    BY <2>2 DEF SimulateCall, LearnCall, Idle
  <2>3. ASSUME NEW v \in Versions, NEW force \in BOOLEAN, c = PromoteCall(v, force)
        PROVE  c.pc = "find"
    BY <2>3 DEF PromoteCall, Idle
  <2> QED  BY <2>1, <2>2, <2>3 DEF Calls
<1>3. c.pc = "thresholds" => c.do # "learn"
  BY CallOk DEF JobOk, RunOk
<1>4. ~ Searching(c) /\ ~ Isolated(c)
  BY <1>2, <1>3 DEF Searching, Isolated, Running, Lookups
<1> QED  BY <1>1, <1>2, <1>4, PlainOk

LEMMA CallSerial ==
    ASSUME RegisterInv, SerialInv, NEW s \in Slots, Slots = {s}, Call(s) PROVE SerialInv'
<1>1. PICK c \in Calls : Step(s, c) /\ UNCHANGED <<dbs, path, told>> /\ job[s].pc = "idle"
  BY DEF Call, At
<1>2. path' = Production
  BY <1>1, SlotNow DEF Isolated
<1> QED  BY <1>1, <1>2, CallPlain, SerialMute

\* The search of a learner goes on while its candidate is replayed.
LEMMA SearchGoesOn ==
    ASSUME NEW j, NEW k, NEW rows, SearchOk(j, rows), k.do = j.do,
           k.scores = j.scores, k.base = j.base, k.cands = j.cands, k.version = j.version,
           Searching(k) <=> Searching(j), j.pc # "candidates" \/ k.pc = "candidates"
    PROVE  SearchOk(k, rows)
<1>1. Scored(k) = Scored(j)
  BY DEF Scored
<1> QED  BY <1>1 DEF SearchOk

LEMMA LookupSerial ==
    ASSUME RegisterInv, SerialInv, NEW s \in Slots, Slots = {s}, Lookup(s) PROVE SerialInv'
<1> DEFINE j == job[s]
           seen == IF j.do = "learn" /\ Db.active = Config THEN j.version ELSE Db.active
           k == [j EXCEPT !.basis[j.pc] = seen, !.pc = AfterLookup(j)]
<1>1. /\ j \in Job /\ JobOk(j) /\ SlotOk(j, path, dbs[Production])
  BY SlotNow
<1>2. j.pc \in Lookups /\ Step(s, k) /\ UNCHANGED <<dbs, path, told>>
  BY DEF Lookup
<1>3. /\ k.pc = AfterLookup(j) /\ k.do = j.do /\ k.orig = j.orig /\ k.tmp = j.tmp
      /\ k.base = j.base /\ k.cands = j.cands /\ k.version = j.version /\ k.scores = j.scores
  BY <1>1 DEF Job
<1>4. /\ j.pc = "thresholds" => AfterLookup(j) = IF j.do = "replay" THEN "isolate" ELSE "type"
      /\ j.pc # "thresholds" => AfterLookup(j) \in {"weights", "overrides", "llm"}
  BY <1>2 DEF AfterLookup, Lookups
<1>5. j.pc = "thresholds" => j.do \in {"run", "replay"}
  BY <1>1 DEF JobOk, RunOk
<1> HIDE DEF k
<1>6. Isolated(k) <=> Isolated(j)
  BY <1>2, <1>3, <1>4, <1>5 DEF Isolated, Lookups
<1>7. Searching(k) <=> Searching(j)
  BY <1>2, <1>3, <1>4 DEF Searching, Running, Lookups
<1>8. j.pc # "candidates" /\ k.pc \notin {"result", "compare", "activate", "redirect"}
  BY <1>2, <1>3, <1>4 DEF Lookups
<1>9. SearchOk(k, dbs[Production].rows)
  BY <1>1, <1>3, <1>7, <1>8, SearchGoesOn DEF SlotOk
<1>10. SlotOk(k, path, dbs[Production])
  BY <1>1, <1>3, <1>6, <1>8, <1>9 DEF SlotOk, PathOk, RequestOk, RowOk
<1> QED  BY <1>2, <1>10, SerialMute

\* The request goes on inside or outside of the temporary file, as before.
LEMMA GoesOn ==
    ASSUME NEW j, NEW k, NEW p, NEW db, SlotOk(j, p, db), k.do = j.do,
           k.orig = j.orig, k.tmp = j.tmp, k.scores = j.scores, k.base = j.base,
           k.cands = j.cands, k.version = j.version,
           Isolated(k) <=> Isolated(j), Searching(k) <=> Searching(j),
           j.pc # "candidates" \/ k.pc = "candidates",
           k.pc \notin {"compare", "activate", "redirect"},
           k.pc = "result" => k.trace \in db.request
    PROVE  SlotOk(k, p, db)
<1>1. SearchOk(k, db.rows)
  BY SearchGoesOn DEF SlotOk
<1> QED  BY <1>1 DEF SlotOk, PathOk, RequestOk, RowOk

\* Requests, results, grades and rows of completions do not concern it.
LEMMA OtherTables ==
    ASSUME NEW j, NEW p, NEW db, SlotOk(j, p, db), NEW new,
           db.request \subseteq new.request, new.rows = db.rows, new.active = db.active
    PROVE  SlotOk(j, p, new)
<1>1. ActiveRow(new) = ActiveRow(db)
  BY DEF ActiveRow
<1> QED  BY <1>1 DEF SlotOk, PathOk, RequestOk, RowOk, SearchOk

\* Nothing is lost from the production database.
Keeps(old, new) ==
    /\ old.request \subseteq new.request /\ new.feedback = old.feedback
    /\ \A t \in Traces : old.result[t] # None => new.result[t] = old.result[t]

LEMMA AnswersKept ==
    ASSUME RegisterInv, AnswerInv, AnswersPersist, Keeps(dbs[Production], dbs'[Production]),
           told'.runs = told.runs, told'.grade = told.grade
    PROVE  AnswersPersist'
<1>1. told.runs \subseteq Traces
  BY DEF AnswerInv, Told
<1> QED  BY <1>1 DEF AnswersPersist, Keeps

\* A step that writes other tables.
LEMMA SerialWrite ==
    ASSUME RegisterInv, AnswerInv, SerialInv, NEW s \in Slots, Slots = {s}, NEW k, Step(s, k),
           NEW new, dbs'[Production] = new, Keeps(dbs[Production], new),
           new.rows = dbs[Production].rows, new.active = dbs[Production].active,
           SlotOk(k, path', dbs[Production]), UNCHANGED told
    PROVE  SerialInv'
<1>1. SlotOk(k, path', dbs'[Production])
  BY OtherTables DEF Keeps
<1>2. AnswersPersist'
  BY AnswersKept DEF SerialInv
<1>3. BestOk(told'.best, dbs'[Production].rows)
  BY DEF SerialInv
<1> QED  BY <1>1, <1>2, <1>3, SerialStep

\* What a write leaves of the production database.
LEMMA ProductionWritten ==
    ASSUME RegisterInv, NEW db, Write(db)
    PROVE  dbs'[Production] = IF path = Production THEN db ELSE dbs[Production]
BY DEF RegisterInv, TypeInv, Write, Paths

LEMMA ConsensusSerial ==
    ASSUME RegisterInv, AnswerInv, SerialInv, NEW s \in Slots, Slots = {s}, RecordConsensus(s)
    PROVE  SerialInv'
<1> DEFINE j == job[s]
           P == dbs[Production]
           next == IF j.do = "run" THEN "request" ELSE "restore"
           k == [j EXCEPT !.pc = next]
           db == StoreLlmRecord(Db, j.trace, j.do)
<1>1. /\ j \in Job /\ JobOk(j) /\ SlotOk(j, path, P) /\ Db \in Database
      /\ ~ Isolated(j) => path = Production /\ Db = P
      /\ Isolated(j) => path # Production
  BY SlotNow
<1>2. /\ j.pc = "llm" /\ Step(s, k) /\ UNCHANGED <<path, told>>
      /\ Write(db) \/ UNCHANGED dbs
  BY DEF RecordConsensus, At
<1>3. /\ k.pc = next /\ k.do = j.do /\ k.orig = j.orig /\ k.tmp = j.tmp /\ k.base = j.base
      /\ k.cands = j.cands /\ k.version = j.version /\ k.scores = j.scores
  BY <1>1 DEF Job
<1>4. j.do \in {"run", "replay", "learn"}
  BY <1>1, <1>2 DEF JobOk, RunOk, Running, Callers
<1>5. /\ db.request = Db.request /\ db.result = Db.result /\ db.feedback = Db.feedback
      /\ db.rows = Db.rows /\ db.active = Db.active
  BY <1>1 DEF StoreLlmRecord, Database
<1>6. next \in {"request", "restore"}
  OBVIOUS
<1>7. next = "restore" <=> j.do \in {"replay", "learn"}
  BY <1>4
<1> HIDE DEF next, k, db
<1>8. (Isolated(k) <=> Isolated(j)) /\ (Searching(k) <=> Searching(j))
  BY <1>2, <1>3, <1>6, <1>7 DEF Isolated, Searching, Running
<1>9. SlotOk(k, path', P)
  BY <1>1, <1>2, <1>3, <1>6, <1>8, GoesOn
<1>10. CASE dbs'[Production] = P
  BY <1>2, <1>9, <1>10, SerialMute
<1>11. CASE dbs'[Production] = db /\ Db = P
  <2>1. Keeps(P, db)
    BY <1>5, <1>11 DEF Keeps
  <2> QED  BY <1>2, <1>5, <1>9, <1>11, <2>1, SerialWrite
<1> QED  BY <1>1, <1>2, <1>10, <1>11, ProductionWritten

LEMMA RequestSerial ==
    ASSUME RegisterInv, AnswerInv, SerialInv, NEW s \in Slots, Slots = {s}, PersistRequest(s)
    PROVE  SerialInv'
<1> DEFINE j == job[s]
           P == dbs[Production]
           k == [j EXCEPT !.pc = "result"]
           db == StoreRequest(P, j.trace)
<1>1. j.pc = "request" /\ Step(s, k) /\ UNCHANGED <<path, told>> /\ Write(StoreRequest(Db, j.trace))
  BY DEF PersistRequest, At
<1>2. /\ j \in Job /\ JobOk(j) /\ SlotOk(j, path, P) /\ P \in Database
      /\ path = Production /\ Db = P
  BY <1>1, SlotNow DEF Isolated
<1>3. /\ k.pc = "result" /\ k.do = j.do /\ k.orig = j.orig /\ k.tmp = j.tmp /\ k.base = j.base
      /\ k.cands = j.cands /\ k.version = j.version /\ k.scores = j.scores /\ k.trace = j.trace
  BY <1>2 DEF Job
<1>4. /\ db.request = P.request \cup {j.trace} /\ db.result = P.result
      /\ db.feedback = P.feedback /\ db.rows = P.rows /\ db.active = P.active
  BY <1>2 DEF StoreRequest, Database
<1>5. dbs'[Production] = db
  BY <1>1, <1>2, ProductionWritten
<1> HIDE DEF k, db
<1>6. (Isolated(k) <=> Isolated(j)) /\ (Searching(k) <=> Searching(j))
  BY <1>1, <1>3 DEF Isolated, Searching, Running
<1>7. SlotOk(j, path, db)
  BY <1>2, <1>4, OtherTables
<1>8. SlotOk(k, path, db)
  BY <1>1, <1>3, <1>4, <1>6, <1>7, GoesOn
<1>9. AnswersPersist'
  <2>1. Keeps(P, db)
    BY <1>4 DEF Keeps
  <2> QED  BY <1>1, <1>5, <2>1, AnswersKept DEF SerialInv
<1>10. BestOk(told'.best, dbs'[Production].rows)
  BY <1>1, <1>4, <1>5 DEF SerialInv
<1> QED  BY <1>1, <1>5, <1>8, <1>9, <1>10, SerialStep

LEMMA ResultSerial ==
    ASSUME RegisterInv, AnswerInv, SerialInv, NEW s \in Slots, Slots = {s}, PersistResult(s)
    PROVE  SerialInv'
<1> DEFINE j == job[s]
           P == dbs[Production]
           db == StoreResult(P, j.trace, j.basis)
<1>1. /\ j.pc = "result" /\ Step(s, Idle) /\ UNCHANGED path
      /\ Write(StoreResult(Db, j.trace, j.basis))
      /\ told' = [told EXCEPT !.runs = @ \cup {job[s].trace}]
  BY DEF PersistResult, At
<1>2. /\ j \in Job /\ JobOk(j) /\ SlotOk(j, path, P) /\ P \in Database
      /\ path = Production /\ Db = P
  BY <1>1, SlotNow DEF Isolated
<1>3. j.trace \in Traces /\ j.trace \in P.request /\ j.basis \in Basis
  BY <1>1, <1>2 DEF JobOk, RunOk, Running, SlotOk, RequestOk, Job
<1>4. /\ db.request = P.request /\ db.feedback = P.feedback
      /\ db.rows = P.rows /\ db.active = P.active
  BY <1>2 DEF StoreResult, Database
<1>5. /\ db.result[j.trace] # None
      /\ \A t \in Traces : P.result[t] # None => db.result[t] = P.result[t]
  <2>1. j.basis # None
    BY <1>3, PoliciesAssumption
  <2>2. CASE P.result[j.trace] # None
    BY <2>2 DEF StoreResult
  <2>3. CASE P.result[j.trace] = None
    <3>1. db.result = [P.result EXCEPT ![j.trace] = j.basis]
      BY <1>2, <2>3 DEF StoreResult, Database
    <3>2. P.result \in [Traces -> Basis \cup {None}]
      BY <1>2 DEF Database
    <3> HIDE DEF db
    <3> QED  BY <1>3, <2>1, <2>3, <3>1, <3>2
  <2> QED  BY <2>2, <2>3
<1>6. dbs'[Production] = db
  BY <1>1, <1>2, ProductionWritten
<1>7. told'.runs = told.runs \cup {j.trace} /\ told'.grade = told.grade /\ told'.best = told.best
  BY <1>1 DEF AnswerInv, Told
<1> HIDE DEF db
<1>8. AnswersPersist'
  <2>1. told.runs \subseteq Traces
    BY DEF AnswerInv, Told
  <2> QED  BY <1>3, <1>4, <1>5, <1>6, <1>7, <2>1 DEF SerialInv, AnswersPersist
<1>9. SlotOk(Idle, path', dbs'[Production])
  BY <1>1, <1>2, IdlePlain
<1>10. BestOk(told'.best, dbs'[Production].rows)
  BY <1>4, <1>6, <1>7 DEF SerialInv
<1> QED  BY <1>1, <1>8, <1>9, <1>10, SerialStep

LEMMA FeedbackSerial ==
    ASSUME RegisterInv, AnswerInv, SerialInv, NEW s \in Slots, Slots = {s}, Feedback(s)
    PROVE  SerialInv'
<1> DEFINE j == job[s]
           P == dbs[Production]
<1>1. PICK t \in Traces, grade \in Grades :
          Write(StoreFeedback(Db, t, grade)) /\ told' = [told EXCEPT !.grade[t] = grade]
  BY DEF Feedback
<1> DEFINE db == StoreFeedback(P, t, grade)
<1>2. j.pc = "idle" /\ Step(s, j) /\ UNCHANGED path
  BY DEF Feedback, At, Step, RegisterInv, TypeInv
<1>3. /\ j \in Job /\ SlotOk(j, path, P) /\ P \in Database /\ path = Production /\ Db = P
  BY <1>2, SlotNow DEF Isolated
<1>4. /\ db.request = P.request /\ db.result = P.result /\ db.rows = P.rows
      /\ db.active = P.active /\ db.feedback = [P.feedback EXCEPT ![t] = grade]
  BY <1>3 DEF StoreFeedback, Database
<1>5. dbs'[Production] = db
  BY <1>1, <1>3, ProductionWritten
<1>6. /\ told'.runs = told.runs /\ told'.best = told.best
      /\ told'.grade = [told.grade EXCEPT ![t] = grade]
  BY <1>1 DEF AnswerInv, Told
<1> HIDE DEF db
<1>7. AnswersPersist'
  <2>1. /\ told.runs \subseteq Traces /\ told.grade \in [Traces -> Grades \cup {None}]
        /\ P.feedback \in [Traces -> Grades \cup {None}]
    BY <1>3 DEF AnswerInv, Told, Database
  <2>2. \A u \in Traces : told'.grade[u] # None => db.feedback[u] = told'.grade[u]
    BY <1>4, <1>6, <2>1 DEF SerialInv, AnswersPersist
  <2> QED  BY <1>4, <1>5, <1>6, <2>2 DEF SerialInv, AnswersPersist
<1>8. SlotOk(j, path', dbs'[Production])
  BY <1>2, <1>3, <1>4, <1>5, OtherTables
<1>9. BestOk(told'.best, dbs'[Production].rows)
  BY <1>4, <1>5, <1>6 DEF SerialInv
<1> QED  BY <1>2, <1>7, <1>8, <1>9, SerialStep

\* The file of _isolate_storage: made, entered, left.
LEMMA IsolateSerial ==
    ASSUME RegisterInv, SerialInv, NEW s \in Slots, Slots = {s},
           Isolate(s) \/ Redirect(s) \/ CreateTables(s)
    PROVE  SerialInv'
<1> DEFINE j == job[s]
           P == dbs[Production]
<1>1. j \in Job /\ JobOk(j) /\ SlotOk(j, path, P) /\ (~ Isolated(j) => path = Production)
  BY SlotNow
<1>2. CASE Isolate(s)
  <2>1. PICK tmp \in Temps : Step(s, [j EXCEPT !.orig = path, !.tmp = tmp, !.pc = "redirect"])
    BY <1>2 DEF Isolate
  <2> DEFINE k == [j EXCEPT !.orig = path, !.tmp = tmp, !.pc = "redirect"]
  <2>2. /\ j.pc = "isolate" /\ UNCHANGED <<dbs, path, told>> /\ path = Production
    BY <1>1, <1>2 DEF Isolate, At, Isolated
  <2>3. /\ k.pc = "redirect" /\ k.do = j.do /\ k.orig = Production /\ k.scores = j.scores
        /\ k.base = j.base /\ k.cands = j.cands /\ k.version = j.version
    BY <1>1, <2>2 DEF Job
  <2>4. Step(s, k)
    BY <2>1
  <2> HIDE DEF k
  <2>5. Searching(k) <=> Searching(j)
    BY <2>2, <2>3 DEF Searching, Running
  <2>6. SearchOk(k, P.rows)
    BY <1>1, <2>2, <2>3, <2>5, SearchGoesOn DEF SlotOk
  <2>7. SlotOk(k, path', P)
    BY <2>2, <2>3, <2>6 DEF SlotOk, PathOk, RequestOk, RowOk, Isolated
  <2> QED  BY <2>2, <2>4, <2>7, SerialMute
<1>3. CASE Redirect(s) \/ CreateTables(s)
  <2> DEFINE next == IF Redirect(s) THEN "create"
                     ELSE IF j.do = "learn" THEN "overrides" ELSE "type"
             k == [j EXCEPT !.pc = next]
  <2>1. /\ j.pc \in {"redirect", "create"} /\ path' = j.tmp
        /\ UNCHANGED <<dbs, told>> /\ Step(s, k)
    BY <1>3 DEF Redirect, CreateTables, At
  <2>2. next \in {"create", "overrides", "type"}
    OBVIOUS
  <2> HIDE DEF next
  <2>3. /\ k.pc = next /\ k.do = j.do /\ k.orig = j.orig /\ k.tmp = j.tmp /\ k.base = j.base
        /\ k.cands = j.cands /\ k.version = j.version /\ k.scores = j.scores
    BY <1>1 DEF Job
  <2> HIDE DEF k
  <2>4. Searching(k) <=> Searching(j)
    BY <2>1, <2>2, <2>3 DEF Searching, Running, Lookups
  <2>5. SearchOk(k, P.rows)
    BY <1>1, <2>1, <2>3, <2>4, SearchGoesOn DEF SlotOk
  <2>6. j.do \in {"replay", "learn"}
    BY <1>1, <2>1 DEF JobOk, RunOk
  <2>7. j.orig = Production
    BY <1>1, <2>1, <2>6 DEF SlotOk, PathOk, Isolated
  <2>8. Isolated(k)
    BY <2>2, <2>3, <2>6 DEF Isolated
  <2>9. SlotOk(k, path', P)
    BY <2>1, <2>2, <2>3, <2>5, <2>7, <2>8 DEF SlotOk, PathOk, RequestOk, RowOk
  <2> QED  BY <2>1, <2>9, SerialMute
<1> QED  BY <1>2, <1>3

LEMMA RestoreSerial ==
    ASSUME RegisterInv, SerialInv, NEW s \in Slots, Slots = {s}, Restore(s) PROVE SerialInv'
<1> DEFINE j == job[s]
           P == dbs[Production]
           same == /\ Choice(j.trace, j.basis) # NoSupplier
                   /\ Choice(j.trace, j.basis) = Choice(j.trace, Original(j).basis)
           again == [j EXCEPT !.pc = "load"]
           back == [j EXCEPT !.matched = IF same THEN @ + 1 ELSE @, !.pc = "evaluate"]
<1>1. j \in Job /\ JobOk(j) /\ SlotOk(j, path, P)
  BY SlotNow
<1>2. /\ j.pc = "restore" /\ path' = j.orig /\ UNCHANGED told
      /\ dbs' = [dbs EXCEPT ![j.tmp] = Empty]
      /\ Step(s, IF j.do = "replay" THEN IF j.todo = {} THEN Idle ELSE again ELSE back)
  BY DEF Restore, At
<1>3. j.tmp \in Temps /\ j.do \in {"replay", "learn"}
  BY <1>1, <1>2 DEF JobOk, FileOk, RunOk
<1>4. path' = Production
  BY <1>1, <1>2, <1>3 DEF SlotOk, PathOk, Isolated
<1>5. dbs'[Production] = P
  BY <1>2, <1>3, PathsAssumption DEF RegisterInv, TypeInv, Paths
<1>6. again.pc = "load" /\ again.do = j.do
  BY <1>1 DEF Job
<1>7. /\ back.pc = "evaluate" /\ back.do = j.do /\ back.base = j.base
      /\ back.cands = j.cands /\ back.version = j.version /\ back.scores = j.scores
  BY <1>1 DEF Job
<1> HIDE DEF again, back
<1>8. j.do = "replay" => SlotOk(again, Production, P)
  <2>1. ~ Isolated(again) /\ (j.do = "replay" => ~ Searching(again))
    BY <1>6 DEF Isolated, Searching
  <2> QED  BY <1>6, <2>1, PlainOk
<1>9. j.do = "learn" => SlotOk(back, Production, P)
  <2>1. Searching(back) <=> Searching(j)
    BY <1>2, <1>7 DEF Searching, Running
  <2>2. SearchOk(back, P.rows)
    BY <1>1, <1>2, <1>7, <2>1, SearchGoesOn DEF SlotOk
  <2> QED  BY <1>7, <2>2 DEF SlotOk, PathOk, RequestOk, RowOk, Isolated
<1>10. \E k : Step(s, k) /\ SlotOk(k, Production, P)
  BY <1>2, <1>3, <1>8, <1>9, IdlePlain
<1> QED  BY <1>2, <1>4, <1>5, <1>10, SerialMute

LEMMA ReplaySerial ==
    ASSUME RegisterInv, SerialInv, NEW s \in Slots, Slots = {s},
           RecentTraces(s) \/ LoadReplayed(s)
    PROVE  SerialInv'
<1> DEFINE j == job[s]
           P == dbs[Production]
           t == First(j.todo)
           recent == [j EXCEPT !.todo = Db.request, !.pc = "load"]
           k == [j EXCEPT !.trace = t, !.todo = j.todo \ {t}, !.basis = Unset,
                          !.pc = "thresholds"]
           next == [j EXCEPT !.todo = j.todo \ {t}]
<1>1. /\ j.pc \in {"recent", "load"} /\ (j.pc = "load" => j.do = "replay")
      /\ UNCHANGED <<dbs, path, told>>
      /\ \/ Step(s, Idle)
         \/ j.pc = "recent" /\ Step(s, recent)
         \/ j.pc = "load" /\ (Step(s, k) \/ Step(s, next))
  BY DEF RecentTraces, LoadReplayed, At
<1>2. /\ j \in Job /\ SlotOk(j, path, P) /\ path = Production
  BY <1>1, SlotNow DEF Isolated
<1>3. /\ recent.pc = "load" /\ recent.do = j.do /\ recent.scores = j.scores
      /\ k.pc = "thresholds" /\ k.do = j.do /\ next.pc = j.pc /\ next.do = j.do
  BY <1>2 DEF Job
<1> HIDE DEF recent, k, next
<1>4. j.pc = "recent" => SlotOk(recent, Production, P)
  <2>1. ~ Isolated(recent) /\ ~ Searching(recent) /\ Scored(recent) = Scored(j)
    BY <1>3 DEF Isolated, Searching, Running, Lookups, Scored
  <2>2. j.pc = "recent" => ~ Searching(j)
    BY DEF Searching, Running, Lookups
  <2>3. j.pc = "recent" /\ j.do = "learn" => Scored(j) = {}
    BY <1>2, <2>2 DEF SlotOk, SearchOk
  <2> QED  BY <1>3, <2>1, <2>3, PlainOk
<1>5. j.pc = "load" => SlotOk(k, Production, P) /\ SlotOk(next, Production, P)
  <2>1. j.pc = "load" => /\ ~ Isolated(k) /\ ~ Searching(k)
                         /\ ~ Isolated(next) /\ ~ Searching(next)
    BY <1>1, <1>3 DEF Isolated, Searching
  <2> QED  BY <1>1, <1>3, <2>1, PlainOk
<1>6. \E m : Step(s, m) /\ SlotOk(m, Production, P)
  BY <1>1, <1>4, <1>5, IdlePlain
<1> QED  BY <1>1, <1>2, <1>6, SerialMute

LEMMA CorpusSerial ==
    ASSUME RegisterInv, SerialInv, NEW s \in Slots, Slots = {s},
           Gather(s) \/ LoadTrace(s) \/ CountTraces(s)
    PROVE  SerialInv'
<1> DEFINE j == job[s]
           P == dbs[Production]
           t == First(j.todo)
           entry == [trace |-> t, basis |-> Db.result[t], grade |-> Db.feedback[t]]
           whole == /\ t \in Db.request /\ Db.feedback[t] # None /\ Db.result[t] # None
                    /\ Choice(t, Db.result[t]) # NoSupplier
           corpus == IF whole THEN j.corpus \cup {entry} ELSE j.corpus
           graded == [j EXCEPT !.todo = {u \in Traces : Db.feedback[u] # None}, !.pc = "load"]
           loaded == [j EXCEPT !.todo = j.todo \ {t}, !.corpus = corpus]
           enough == [j EXCEPT !.pc = "active"]
<1>1. /\ j.pc \in {"gather", "load"} /\ (j.pc = "load" => j.do = "learn")
      /\ UNCHANGED <<dbs, path, told>>
      /\ Step(s, graded) \/ (j.pc = "load" /\ Step(s, loaded)) \/ Step(s, enough) \/ Step(s, Idle)
  BY DEF Gather, LoadTrace, CountTraces, At
<1>2. j \in Job /\ JobOk(j) /\ SlotOk(j, path, P) /\ path = Production
  BY <1>1, SlotNow DEF Isolated
<1>3. /\ graded.pc = "load" /\ graded.scores = j.scores
      /\ loaded.pc = j.pc /\ loaded.scores = j.scores
      /\ enough.pc = "active" /\ enough.scores = j.scores
  BY <1>2 DEF Job
<1>4. Scored(j) = {}
  <2>1. j.do = "learn" /\ ~ Searching(j)
    BY <1>1, <1>2 DEF JobOk, LearnOk, Searching, Running, Lookups
  <2> QED  BY <1>2, <2>1 DEF SlotOk, SearchOk
<1> HIDE DEF graded, loaded, enough
<1>5. ASSUME NEW k, k.pc \in {"load", "active"}, k.scores = j.scores
      PROVE  SlotOk(k, Production, P)
  <2>1. ~ Isolated(k) /\ ~ Searching(k) /\ Scored(k) = {}
    BY <1>4, <1>5 DEF Isolated, Searching, Running, Lookups, Scored
  <2> QED  BY <1>5, <2>1, PlainOk
<1>6. \E k : Step(s, k) /\ SlotOk(k, Production, P)
  BY <1>1, <1>3, <1>5, IdlePlain
<1> QED  BY <1>1, <1>2, <1>6, SerialMute

\* A search that starts.
LEMMA SearchStarts ==
    ASSUME NEW j \in Job, j.do = "learn", Scored(j) = {}, NEW base \in Versions, NEW db
    PROVE  SlotOk(Around(j, base), Production, db)
<1> DEFINE k == Around(j, base)
<1>1. /\ k.pc = "candidates" /\ k.do = "learn" /\ k.base = base
      /\ k.cands = Neighbours[base] /\ k.scores = j.scores
  BY DEF Around, Job
<1> HIDE DEF k
<1>2. Scored(k) = {}
  BY <1>1 DEF Scored
<1>3. Eligible(base) \subseteq Neighbours[base]
  BY DEF Eligible
<1>4. SearchOk(k, db.rows)
  BY <1>1, <1>2, <1>3 DEF SearchOk, Searching
<1> QED  BY <1>1, <1>4 DEF SlotOk, PathOk, RequestOk, RowOk, Isolated, k

LEMMA EnsureSerial ==
    ASSUME RegisterInv, SerialInv, NEW s \in Slots, Slots = {s}, EnsureActive(s) \/ EnsureNone(s)
    PROVE  SerialInv'
<1> DEFINE j == job[s]
           P == dbs[Production]
           next == IF EnsureActive(s) THEN "versions" ELSE "baseline"
           k == [j EXCEPT !.pc = next]
<1>1. /\ j.pc \in {"active", "versions"} /\ UNCHANGED <<dbs, path, told>>
      /\ \/ Step(s, k)
         \/ Db.active # Config /\ Step(s, Around(j, Db.active))
         \/ Step(s, Around(j, Baseline))
  BY DEF EnsureActive, EnsureNone, At
<1>2. /\ j \in Job /\ JobOk(j) /\ SlotOk(j, path, P) /\ path = Production /\ Db \in Database
  BY <1>1, SlotNow DEF Isolated
<1>3. k.pc \in {"versions", "baseline"} /\ k.scores = j.scores
  BY <1>2 DEF Job
<1>4. Scored(j) = {} /\ j.do = "learn"
  <2>1. j.do = "learn" /\ ~ Searching(j)
    BY <1>1, <1>2 DEF JobOk, LearnOk, Searching, Running, Lookups
  <2> QED  BY <1>2, <2>1 DEF SlotOk, SearchOk
<1>5. Baseline \in Versions /\ (Db.active # Config => Db.active \in Versions)
  BY <1>2, PoliciesAssumption DEF Database, Policies
<1> HIDE DEF k
<1>6. SlotOk(k, Production, P)
  <2>1. ~ Isolated(k) /\ ~ Searching(k) /\ Scored(k) = {}
    BY <1>3, <1>4 DEF Isolated, Searching, Running, Lookups, Scored
  <2> QED  BY <1>3, <2>1, PlainOk
<1>7. \E m : Step(s, m) /\ SlotOk(m, Production, P)
  BY <1>1, <1>2, <1>4, <1>5, <1>6, SearchStarts
<1> QED  BY <1>1, <1>2, <1>7, SerialMute

\* Rows that are there stay, so what was best around a policy stays best.
RowsGrow(old, new) == \A v \in Versions : old[v] # None => new[v] = old[v]

LEMMA BestStable ==
    ASSUME NEW best, NEW old, NEW new, BestOk(best, old), RowsGrow(old, new)
    PROVE  BestOk(best, new)
<1> SUFFICES ASSUME NEW v \in Versions, best[v] # None
             PROVE  best[v] = Winner(v, new) /\ \A w \in Eligible(v) : new[w] # None
  BY DEF BestOk
<1>1. Eligible(v) \subseteq Versions
  BY PoliciesAssumption DEF Eligible
<1>2. best[v] = Winner(v, old) /\ \A w \in Eligible(v) : old[w] # None
  BY DEF BestOk
<1>3. \A w \in Eligible(v) : new[w] = old[w]
  BY <1>1, <1>2 DEF RowsGrow
<1>4. {x \in Eligible(v) : \A w \in Eligible(v) : new[w].metric <= new[x].metric}
      = {x \in Eligible(v) : \A w \in Eligible(v) : old[w].metric <= old[x].metric}
  BY <1>3
<1>5. Winner(v, new) = Winner(v, old)
  BY <1>4 DEF Winner
<1> QED  BY <1>2, <1>3, <1>5

LEMMA PolicyGrows ==
    ASSUME NEW db \in Database, NEW v \in Versions, NEW row \in Row, NEW active \in BOOLEAN,
           NEW new, new = StorePolicy(db, v, row, active)
    PROVE  RowsGrow(db.rows, new.rows) /\ Keeps(db, new)
<1>1. CASE db.rows[v] # None \/ (active /\ db.active # Config)
  BY <1>1 DEF StorePolicy, RowsGrow, Keeps
<1>2. CASE ~ (db.rows[v] # None \/ (active /\ db.active # Config))
  <2>1. new = [db EXCEPT !.rows[v] = row, !.active = IF active THEN v ELSE db.active]
    BY <1>2 DEF StorePolicy
  <2>2. /\ new.rows = [db.rows EXCEPT ![v] = row] /\ new.request = db.request
        /\ new.result = db.result /\ new.feedback = db.feedback
    BY <2>1 DEF Database
  <2>3. db.rows \in [Versions -> Row \cup {None}]
    BY DEF Database
  <2> QED  BY <1>2, <2>2, <2>3 DEF RowsGrow, Keeps
<1> QED  BY <1>1, <1>2

Adds(old, new, v, row) == new = [old EXCEPT ![v] = row]

LEMMA PolicyAdded ==
    ASSUME NEW db \in Database, NEW v \in Versions, NEW row \in Row, db.rows[v] = None,
           NEW new, new = StorePolicy(db, v, row, FALSE)
    PROVE  /\ RowsGrow(db.rows, new.rows) /\ Keeps(db, new)
           /\ Adds(db.rows, new.rows, v, row)
<1>1. new = [db EXCEPT !.rows[v] = row, !.active = db.active]
  BY DEF StorePolicy
<1>2. /\ new.rows = [db.rows EXCEPT ![v] = row] /\ new.request = db.request
      /\ new.result = db.result /\ new.feedback = db.feedback
  BY <1>1 DEF Database
<1>3. db.rows \in [Versions -> Row \cup {None}]
  BY DEF Database
<1> QED  BY <1>2, <1>3 DEF RowsGrow, Keeps, Adds

LEMMA BaselineSerial ==
    ASSUME RegisterInv, AnswerInv, SerialInv, NEW s \in Slots, Slots = {s}, StoreBaseline(s)
    PROVE  SerialInv'
<1> DEFINE j == job[s]
           P == dbs[Production]
           db == StorePolicy(P, Baseline, Unrated, TRUE)
<1>1. /\ j.pc = "baseline" /\ Step(s, Around(j, Baseline)) /\ UNCHANGED <<path, told>>
      /\ Write(StorePolicy(Db, Baseline, Unrated, TRUE))
  BY DEF StoreBaseline, At
<1>2. /\ j \in Job /\ JobOk(j) /\ SlotOk(j, path, P) /\ P \in Database
      /\ path = Production /\ Db = P
  BY <1>1, SlotNow DEF Isolated
<1>3. j.do = "learn" /\ Scored(j) = {}
  <2>1. j.do = "learn" /\ ~ Searching(j)
    BY <1>1, <1>2 DEF JobOk, LearnOk, Searching, Running, Lookups
  <2> QED  BY <1>2, <2>1 DEF SlotOk, SearchOk
<1>4. Unrated \in Row /\ Baseline \in Versions
  BY PoliciesAssumption DEF Unrated, Row
<1>5. RowsGrow(P.rows, db.rows) /\ Keeps(P, db)
  BY <1>2, <1>4, PolicyGrows
<1>6. dbs'[Production] = db
  BY <1>1, <1>2, ProductionWritten
<1>7. SlotOk(Around(j, Baseline), path', dbs'[Production])
  BY <1>1, <1>2, <1>3, <1>4, SearchStarts
<1> HIDE DEF db
<1>8. AnswersPersist'
  BY <1>1, <1>5, <1>6, AnswersKept DEF SerialInv
<1>9. BestOk(told'.best, dbs'[Production].rows)
  BY <1>1, <1>5, <1>6, BestStable DEF SerialInv
<1> QED  BY <1>1, <1>7, <1>8, <1>9, SerialStep

LEMMA CandidateSerial ==
    ASSUME RegisterInv, SerialInv, NEW s \in Slots, Slots = {s}, NextCandidate(s)
    PROVE  SerialInv'
<1> DEFINE j == job[s]
           P == dbs[Production]
<1>1. j.pc = "candidates" /\ UNCHANGED <<dbs, path, told>>
  BY DEF NextCandidate, At
<1>2. /\ j \in Job /\ JobOk(j) /\ SlotOk(j, path, P) /\ P \in Database
      /\ path = Production /\ Db = P
  BY <1>1, SlotNow DEF Isolated
<1>3. PICK v \in j.cands :
        Step(s, IF ~ Safe(v) THEN [j EXCEPT !.cands = @ \ {v}]
                ELSE IF P.rows[v] # None
                THEN [j EXCEPT !.cands = @ \ {v}, !.scores[v] = P.rows[v].metric]
                ELSE [j EXCEPT !.version = v, !.matched = 0, !.pc = "evaluate",
                               !.todo = {e.trace : e \in j.corpus}])
  BY <1>2 DEF NextCandidate
<1> DEFINE unsafe == [j EXCEPT !.cands = @ \ {v}]
           stored == [j EXCEPT !.cands = @ \ {v}, !.scores[v] = P.rows[v].metric]
           fresh == [j EXCEPT !.version = v, !.matched = 0, !.pc = "evaluate",
                              !.todo = {e.trace : e \in j.corpus}]
<1>4. v \in Versions /\ j.do = "learn" /\ Searching(j) /\ SearchOk(j, P.rows)
  BY <1>1, <1>2 DEF Job, JobOk, LearnOk, Searching, SlotOk
<1>5. ASSUME NEW k, k.pc \in {"candidates", "evaluate"}, SearchOk(k, P.rows)
      PROVE  SlotOk(k, Production, P)
  BY <1>5 DEF SlotOk, PathOk, RequestOk, RowOk, Isolated
<1>6. /\ unsafe.pc = j.pc /\ unsafe.do = j.do /\ unsafe.base = j.base
      /\ unsafe.cands = j.cands \ {v} /\ unsafe.scores = j.scores
  BY <1>2 DEF Job
<1>7. /\ stored.pc = j.pc /\ stored.do = j.do /\ stored.base = j.base
      /\ stored.cands = j.cands \ {v}
      /\ stored.scores = [j.scores EXCEPT ![v] = P.rows[v].metric]
  BY <1>2 DEF Job
<1>8. /\ fresh.pc = "evaluate" /\ fresh.do = j.do /\ fresh.base = j.base
      /\ fresh.cands = j.cands /\ fresh.scores = j.scores /\ fresh.version = v
  BY <1>2 DEF Job
<1> HIDE DEF unsafe, stored, fresh
<1>9. ~ Safe(v) => SearchOk(unsafe, P.rows)
  <2>1. Scored(unsafe) = Scored(j)
    BY <1>6 DEF Scored
  <2>2. ~ Safe(v) => v \notin Eligible(j.base)
    BY DEF Eligible
  <2> QED  BY <1>1, <1>4, <1>6, <2>1, <2>2 DEF SearchOk, Searching
<1>10. Safe(v) /\ P.rows[v] # None => SearchOk(stored, P.rows)
  <2> SUFFICES ASSUME Safe(v), P.rows[v] # None PROVE SearchOk(stored, P.rows)
    OBVIOUS
  <2>1. P.rows[v].metric \in Nat /\ P.rows[v].metric # None
    BY <1>2, <1>4, PoliciesAssumption DEF Database, Row
  <2>2. j.scores \in [Versions -> Nat \cup {None}]
    BY <1>2 DEF Job
  <2>3. Scored(stored) = Scored(j) \cup {v}
    BY <1>4, <1>7, <2>1, <2>2 DEF Scored
  <2>4. v \in Eligible(j.base)
    BY <1>4 DEF SearchOk, Eligible
  <2>5. \A w \in Scored(stored) : /\ w \in Eligible(j.base) /\ P.rows[w] # None
                                  /\ stored.scores[w] = P.rows[w].metric
    BY <1>4, <1>7, <2>2, <2>3, <2>4 DEF SearchOk, Scored
  <2> QED  BY <1>1, <1>4, <1>7, <2>3, <2>5 DEF SearchOk, Searching
<1>11. Safe(v) /\ P.rows[v] = None => SearchOk(fresh, P.rows)
  <2>1. Scored(fresh) = Scored(j)
    BY <1>8 DEF Scored
  <2> QED  BY <1>4, <1>8, <2>1 DEF SearchOk, Searching
<1>12. \E k : Step(s, k) /\ SlotOk(k, Production, P)
  <2>1. Step(s, IF ~ Safe(v) THEN unsafe ELSE IF P.rows[v] # None THEN stored ELSE fresh)
    BY <1>3 DEF unsafe, stored, fresh
  <2> QED  BY <1>1, <1>5, <1>6, <1>7, <1>8, <1>9, <1>10, <1>11, <2>1
<1> QED  BY <1>1, <1>2, <1>12, SerialMute

LEMMA EvaluateSerial ==
    ASSUME RegisterInv, SerialInv, NEW s \in Slots, Slots = {s}, Evaluate(s)
    PROVE  SerialInv'
<1> DEFINE j == job[s]
           P == dbs[Production]
           t == First(j.todo)
           basis == [l \in Lookups |-> j.version]
           k == [j EXCEPT !.trace = t, !.todo = j.todo \ {t}, !.pc = "isolate",
                          !.basis = basis]
<1>1. j.pc = "evaluate" /\ UNCHANGED <<dbs, path, told>> /\ Step(s, k)
  BY DEF Evaluate, At
<1>2. j \in Job /\ SlotOk(j, path, P)
  BY SlotNow
<1>3. /\ k.pc = "isolate" /\ k.do = j.do /\ k.orig = j.orig /\ k.tmp = j.tmp
      /\ k.base = j.base /\ k.cands = j.cands /\ k.version = j.version /\ k.scores = j.scores
  BY <1>2 DEF Job
<1> HIDE DEF k
<1>4. (Isolated(k) <=> Isolated(j)) /\ (Searching(k) <=> Searching(j))
  BY <1>1, <1>3 DEF Isolated, Searching, Running
<1>5. SlotOk(k, path, P)
  BY <1>1, <1>2, <1>3, <1>4, GoesOn
<1> QED  BY <1>1, <1>5, SerialMute

LEMMA StoreSerial ==
    ASSUME RegisterInv, AnswerInv, SerialInv, NEW s \in Slots, Slots = {s}, StoreCandidate(s)
    PROVE  SerialInv'
<1> DEFINE j == job[s]
           P == dbs[Production]
           v == j.version
           row == Rating(j.corpus, j.matched)
           db == StorePolicy(P, v, row, FALSE)
           k == [j EXCEPT !.cands = @ \ {v}, !.scores[v] = row.metric, !.pc = "candidates"]
<1>1. /\ j.pc = "evaluate" /\ Step(s, k) /\ UNCHANGED <<path, told>>
      /\ Write(StorePolicy(Db, v, row, FALSE))
  BY DEF StoreCandidate, At
<1>2. /\ j \in Job /\ JobOk(j) /\ SlotOk(j, path, P) /\ P \in Database
      /\ path = Production /\ Db = P
  BY <1>1, SlotNow DEF Isolated
<1>3. v \in Versions /\ row \in Row /\ j.do = "learn"
  BY <1>1, <1>2, RatingRow DEF JobOk, LearnOk, Job
<1>4. dbs'[Production] = db
  BY <1>1, <1>2, ProductionWritten
<1>5. SearchOk(j, P.rows) /\ Searching(j)
  BY <1>1, <1>2, <1>3 DEF SlotOk, Searching
<1>6. v \in j.cands /\ Safe(v) /\ P.rows[v] = None
  BY <1>1, <1>5 DEF SearchOk
<1>7. /\ RowsGrow(P.rows, db.rows) /\ Keeps(P, db) /\ db.rows = [P.rows EXCEPT ![v] = row]
  <2>1. db = StorePolicy(P, v, row, FALSE)
    OBVIOUS
  <2> HIDE DEF db, row, v, P
  <2>2. RowsGrow(P.rows, db.rows) /\ Keeps(P, db) /\ Adds(P.rows, db.rows, v, row)
    BY <1>2, <1>3, <1>6, <2>1, PolicyAdded
  <2> QED  BY <2>2 DEF Adds
<1>8. /\ k.pc = "candidates" /\ k.do = j.do /\ k.base = j.base
      /\ k.cands = j.cands \ {v} /\ k.scores = [j.scores EXCEPT ![v] = row.metric]
  BY <1>2 DEF Job
<1> HIDE DEF db, k, row
<1>9. SearchOk(k, db.rows)
  <2>1. row.metric \in Nat /\ row.metric # None /\ row # None
    BY <1>3, PoliciesAssumption DEF Row
  <2>2. /\ j.scores \in [Versions -> Nat \cup {None}]
        /\ P.rows \in [Versions -> Row \cup {None}]
    BY <1>2 DEF Job, Database
  <2>3. Scored(k) = Scored(j) \cup {v}
    BY <1>3, <1>8, <2>1, <2>2 DEF Scored
  <2>4. v \in Eligible(j.base)
    BY <1>5, <1>6 DEF SearchOk, Eligible
  <2>5. \A w \in Scored(j) : w \in Versions /\ w # v
    BY <1>5, <1>6 DEF Scored, SearchOk
  <2>6. \A w \in Scored(k) : /\ w \in Eligible(j.base) /\ db.rows[w] # None
                             /\ k.scores[w] = db.rows[w].metric
    BY <1>3, <1>5, <1>7, <1>8, <2>1, <2>2, <2>3, <2>4, <2>5 DEF SearchOk
  <2> QED  BY <1>5, <1>8, <2>3, <2>6 DEF SearchOk, Searching
<1>10. SlotOk(k, path', dbs'[Production])
  BY <1>1, <1>2, <1>4, <1>8, <1>9 DEF SlotOk, PathOk, RequestOk, RowOk, Isolated
<1>11. AnswersPersist'
  BY <1>1, <1>4, <1>7, AnswersKept DEF SerialInv
<1>12. BestOk(told'.best, dbs'[Production].rows)
  BY <1>1, <1>4, <1>7, BestStable DEF SerialInv
<1> QED  BY <1>1, <1>10, <1>11, <1>12, SerialStep

\* The report names the best of the candidates around the base.
LEMMA ReportsWinner ==
    ASSUME RegisterInv, SerialInv, NEW s \in Slots, Report(s)
    PROVE  /\ Best(job[s]) = Winner(job[s].base, dbs[Production].rows)
           /\ \A w \in Eligible(job[s].base) : dbs[Production].rows[w] # None
<1> DEFINE j == job[s]
           rows == dbs[Production].rows
<1>1. j.pc = "candidates" /\ j.cands = {}
  BY DEF Report, At
<1>2. JobOk(j) /\ SlotOk(j, path, dbs[Production])
  BY SlotNow
<1>3. Searching(j) /\ SearchOk(j, rows)
  BY <1>1, <1>2 DEF JobOk, LearnOk, Searching, SlotOk
<1>4. Scored(j) = Eligible(j.base) /\ \A w \in Scored(j) : rows[w] # None /\ j.scores[w] = rows[w].metric
  BY <1>1, <1>3 DEF SearchOk
<1>5. {v \in Scored(j) : \A w \in Scored(j) : j.scores[w] <= j.scores[v]}
      = {v \in Eligible(j.base) : \A w \in Eligible(j.base) : rows[w].metric <= rows[v].metric}
  BY <1>4
<1> QED  BY <1>4, <1>5 DEF Best, Winner

LEMMA ReportSerial ==
    ASSUME RegisterInv, AnswerInv, SerialInv, NEW s \in Slots, Slots = {s}, Report(s)
    PROVE  SerialInv'
<1> DEFINE j == job[s]
           P == dbs[Production]
<1>1. /\ j.pc = "candidates" /\ Step(s, Idle) /\ UNCHANGED <<dbs, path>>
      /\ told' = IF Scored(j) = {} THEN told ELSE [told EXCEPT !.best[j.base] = Best(j)]
  BY DEF Report, At
<1>2. path' = Production
  BY <1>1, SlotNow DEF Isolated
<1>3. /\ told'.runs = told.runs /\ told'.grade = told.grade
      /\ told'.best = told.best \/ told'.best = [told.best EXCEPT ![j.base] = Best(j)]
  BY <1>1 DEF AnswerInv, Told
<1>4. BestOk(told'.best, P.rows)
  <2>1. CASE told'.best = told.best
    BY <2>1 DEF SerialInv
  <2>2. CASE told'.best = [told.best EXCEPT ![j.base] = Best(j)]
    <3>1. ASSUME NEW v \in Versions, told'.best[v] # None
          PROVE  told'.best[v] = Winner(v, P.rows) /\ \A w \in Eligible(v) : P.rows[w] # None
      <4>1. CASE v = j.base
        <5>1. told.best \in [Versions -> Versions \cup {None}]
          BY DEF AnswerInv, Told
        <5>2. told'.best[v] = Best(j)
          BY <2>2, <4>1, <5>1
        <5> QED  BY <4>1, <5>2, ReportsWinner
      <4>2. CASE v # j.base
        <5>1. told.best \in [Versions -> Versions \cup {None}]
          BY DEF AnswerInv, Told
        <5>2. told'.best[v] = told.best[v]
          BY <2>2, <4>2, <5>1
        <5> QED  BY <3>1, <5>2 DEF SerialInv, BestOk
      <4> QED  BY <4>1, <4>2
    <3> QED  BY <3>1 DEF BestOk
  <2> QED  BY <1>3, <2>1, <2>2
<1>5. AnswersPersist'
  BY <1>1, <1>3 DEF SerialInv, AnswersPersist
<1>6. SlotOk(Idle, path', dbs'[Production])
  BY <1>2, IdlePlain
<1> QED  BY <1>1, <1>4, <1>5, <1>6, SerialStep

LEMMA PromoteSerial ==
    ASSUME RegisterInv, SerialInv, NEW s \in Slots, Slots = {s}, FindCandidate(s) \/ Compare(s)
    PROVE  SerialInv'
<1> DEFINE j == job[s]
           P == dbs[Production]
<1>1. j.pc \in {"find", "compare"} /\ UNCHANGED <<dbs, path, told>>
  BY DEF FindCandidate, Compare, At
<1>2. /\ j \in Job /\ JobOk(j) /\ SlotOk(j, path, P) /\ path = Production /\ Db = P
  BY <1>1, SlotNow DEF Isolated
<1>3. CASE FindCandidate(s)
  <2> DEFINE row == P.rows[j.version]
             refused == row = None \/ ~ Safe(j.version) \/ (P.active = j.version /\ ~ j.force)
             next == IF j.force THEN "activate" ELSE "compare"
             k == [j EXCEPT !.row = row, !.pc = next]
  <2>1. j.pc = "find" /\ Step(s, IF refused THEN Idle ELSE k)
    BY <1>2, <1>3 DEF FindCandidate, At
  <2>2. /\ k.pc = next /\ k.do = j.do /\ k.version = j.version /\ k.row = row
        /\ k.force = j.force /\ k.scores = j.scores
    BY <1>2 DEF Job
  <2>3. next \in {"activate", "compare"} /\ (next = "activate" => j.force)
    OBVIOUS
  <2> HIDE DEF next, k
  <2>4. ~ Isolated(k) /\ ~ Searching(k) /\ Scored(k) = Scored(j)
    BY <2>2, <2>3 DEF Isolated, Searching, Running, Lookups, Scored
  <2>5. ~ Searching(j)
    BY <2>1 DEF Searching, Running, Lookups
  <2>6. SearchOk(k, P.rows)
    BY <1>2, <2>2, <2>4, <2>5 DEF SlotOk, SearchOk
  <2>7. row # None => SlotOk(k, Production, P)
    BY <2>2, <2>3, <2>4, <2>6 DEF SlotOk, PathOk, RequestOk, RowOk
  <2>8. \E m : Step(s, m) /\ SlotOk(m, Production, P)
    BY <2>1, <2>7, IdlePlain
  <2> QED  BY <1>1, <1>2, <2>8, SerialMute
<1>4. CASE Compare(s)
  <2> DEFINE k == [j EXCEPT !.pc = "activate"]
  <2>1. j.pc = "compare" /\ Step(s, IF CanPromote(j.row, ActiveRow(P)) THEN k ELSE Idle)
    BY <1>2, <1>4 DEF Compare, At
  <2>2. /\ k.pc = "activate" /\ k.do = j.do /\ k.version = j.version /\ k.row = j.row
        /\ k.scores = j.scores
    BY <1>2 DEF Job
  <2> HIDE DEF k
  <2>3. ~ Isolated(k) /\ ~ Searching(k) /\ ~ Searching(j) /\ Scored(k) = Scored(j)
    BY <2>1, <2>2 DEF Isolated, Searching, Running, Lookups, Scored
  <2>4. SearchOk(k, P.rows)
    BY <1>2, <2>2, <2>3 DEF SlotOk, SearchOk
  <2>5. CanPromote(j.row, ActiveRow(P)) => SlotOk(k, Production, P)
    BY <1>2, <2>1, <2>2, <2>3, <2>4 DEF SlotOk, PathOk, RequestOk, RowOk
  <2>6. \E m : Step(s, m) /\ SlotOk(m, Production, P)
    BY <2>1, <2>5, IdlePlain
  <2> QED  BY <1>1, <1>2, <2>6, SerialMute
<1> QED  BY <1>3, <1>4

LEMMA ActivateSerial ==
    ASSUME RegisterInv, AnswerInv, SerialInv, NEW s \in Slots, Slots = {s}, ActivatePolicy(s)
    PROVE  SerialInv'
<1> DEFINE P == dbs[Production]
           db == SetPolicyActive(P, job[s].version)
<1>1. /\ job[s].pc = "activate" /\ Step(s, Idle) /\ UNCHANGED <<path, told>>
      /\ Write(SetPolicyActive(Db, job[s].version))
  BY DEF ActivatePolicy, At
<1>2. P \in Database /\ path = Production /\ Db = P
  BY <1>1, SlotNow DEF Isolated
<1>3. dbs'[Production] = db
  BY <1>1, <1>2, ProductionWritten
<1>4. Keeps(P, db) /\ db.rows = P.rows
  BY <1>2 DEF SetPolicyActive, Keeps, Database
<1> HIDE DEF db
<1>5. AnswersPersist'
  BY <1>1, <1>3, <1>4, AnswersKept DEF SerialInv
<1>6. BestOk(told'.best, dbs'[Production].rows)
  BY <1>1, <1>3, <1>4 DEF SerialInv
<1>7. SlotOk(Idle, path', dbs'[Production])
  BY <1>1, <1>2, IdlePlain
<1> QED  BY <1>1, <1>5, <1>6, <1>7, SerialStep

LEMMA RestartSerial == ASSUME RegisterInv, SerialInv, Restart PROVE SerialInv'
<1>1. path' = Production /\ dbs'[Production] = dbs[Production] /\ UNCHANGED told
  BY DEF Restart, Paths
<1>2. \A s \in Slots : job'[s] = Idle
  BY DEF Restart
<1>3. \A s \in Slots : SlotOk(job'[s], path', dbs'[Production])
  BY <1>1, <1>2, IdlePlain
<1>4. AnswersPersist'
  BY <1>1 DEF SerialInv, AnswersPersist
<1>5. BestOk(told'.best, dbs'[Production].rows)
  BY <1>1 DEF SerialInv
<1> QED  BY <1>3, <1>4, <1>5 DEF SerialInv

LEMMA SerialInitially == Init => SerialInv
<1> SUFFICES ASSUME Init PROVE SerialInv
  OBVIOUS
<1>1. \A s \in Slots : SlotOk(job[s], path, dbs[Production])
  BY IdlePlain DEF Init
<1>2. BestOk(told.best, dbs[Production].rows) /\ AnswersPersist
  BY DEF Init, BestOk, AnswersPersist
<1> QED  BY <1>1, <1>2 DEF SerialInv

LEMMA SerialNext ==
    Serial /\ RegisterInv /\ AnswerInv /\ SerialInv /\ [Next]_vars => SerialInv'
<1> SUFFICES ASSUME Serial, RegisterInv, AnswerInv, SerialInv, [Next]_vars PROVE SerialInv'
  OBVIOUS
<1>1. \A s \in Slots : Slots = {s}
  BY DEF Serial
<1>2. CASE Restart
  BY <1>2, RestartSerial
<1>3. ASSUME NEW s \in Slots, Call(s) \/ Feedback(s) PROVE SerialInv'
  BY <1>1, <1>3, CallSerial, FeedbackSerial
<1>4. ASSUME NEW s \in Slots, Execution(s) PROVE SerialInv'
  BY <1>1, <1>4, LookupSerial, ConsensusSerial, RequestSerial, ResultSerial,
     IsolateSerial, RestoreSerial DEF Execution
<1>5. ASSUME NEW s \in Slots, Replaying(s) PROVE SerialInv'
  BY <1>1, <1>5, ReplaySerial DEF Replaying
<1>6. ASSUME NEW s \in Slots, Learning(s) PROVE SerialInv'
  BY <1>1, <1>6, CorpusSerial, EnsureSerial, BaselineSerial, CandidateSerial,
     EvaluateSerial, StoreSerial, ReportSerial DEF Learning
<1>7. ASSUME NEW s \in Slots, Promoting(s) PROVE SerialInv'
  BY <1>1, <1>7, PromoteSerial, ActivateSerial DEF Promoting
<1>8. CASE UNCHANGED vars
  BY <1>8 DEF vars, SerialInv, AnswersPersist
<1> QED  BY <1>2, <1>3, <1>4, <1>5, <1>6, <1>7, <1>8 DEF Next

\* What holds at every step of a server that serves one request at a time.
SerialAll == RegisterInv /\ AnswerInv /\ SerialInv

LEMMA SerialInductive ==
    /\ Init => SerialAll
    /\ Serial /\ SerialAll /\ [Next]_vars => SerialAll'
BY InitOk, AnswerInitially, SerialInitially, NextOk, AnswerNext, SerialNext DEF Kept, SerialAll

\* One request at a time: the path is the production file again when the
\* request left _isolate_storage (replay_engine.py: the finally branch).
THEOREM PathPutBack == Serial => (Spec => []StorageRestored)
<1> SUFFICES ASSUME Serial PROVE Spec => []StorageRestored
  OBVIOUS
<1>1. Init => SerialAll
  BY SerialInductive
<1>2. SerialAll /\ [Next]_vars => SerialAll'
  BY SerialInductive
<1>3. SerialAll => StorageRestored
  <2> SUFFICES ASSUME SerialAll, \A s \in Slots : ~ Inside(s) PROVE path = Production
    BY DEF StorageRestored
  <2>1. PICK s \in Slots : Slots = {s}
    BY DEF Serial
  <2>2. ~ Isolated(job[s])
    BY DEF Inside, Isolated
  <2> QED  BY <2>2, SlotNow DEF SerialAll
<1> QED  BY <1>1, <1>2, <1>3, PTL DEF Spec

\* One request at a time: what a client was told is stored stays stored
\* (procurement.py, run_procurement and submit_feedback).
THEOREM NothingForgotten == Serial => (Spec => []AnswersPersist)
<1> SUFFICES ASSUME Serial PROVE Spec => []AnswersPersist
  OBVIOUS
<1>1. Init => SerialAll
  BY SerialInductive
<1>2. SerialAll /\ [Next]_vars => SerialAll'
  BY SerialInductive
<1>3. SerialAll => AnswersPersist
  BY DEF SerialAll, SerialInv
<1> QED  BY <1>1, <1>2, <1>3, PTL DEF Spec

\* One request at a time: learning again around a policy reports the same
\* best candidate, whatever was promoted, replayed or restarted in between
\* (learner.py, learn_candidates).
THEOREM SameBest == Serial => (Spec => LearnIdempotent)
<1> SUFFICES ASSUME Serial PROVE Spec => LearnIdempotent
  OBVIOUS
<1>1. Init => SerialAll
  BY SerialInductive
<1>2. SerialAll /\ [Next]_vars => SerialAll'
  BY SerialInductive
<1>3. SerialAll /\ [Next]_vars =>
        [\A v \in Versions : told.best[v] # None => told'.best[v] = told.best[v]]_vars
  <2> SUFFICES ASSUME SerialAll, Next, NEW v \in Versions, told.best[v] # None
               PROVE  told'.best[v] = told.best[v]
    OBVIOUS
  <2>1. RegisterInv /\ AnswerInv /\ SerialInv
    BY DEF SerialAll
  <2>2. told \in Told
    BY <2>1 DEF AnswerInv
  <2>3. ASSUME NEW s \in Slots, Report(s) PROVE told'.best[v] = told.best[v]
    <3>1. told.best[v] = Winner(v, dbs[Production].rows)
      BY <2>1 DEF SerialInv, BestOk
    <3>2. Best(job[s]) = Winner(job[s].base, dbs[Production].rows)
      BY <2>1, <2>3, ReportsWinner
    <3>3. told' = told \/ told'.best = [told.best EXCEPT ![job[s].base] = Best(job[s])]
      BY <2>2, <2>3 DEF Report, Told
    <3>4. told.best \in [Versions -> Versions \cup {None}]
      BY <2>2 DEF Told
    <3> QED  BY <3>1, <3>2, <3>3, <3>4
  <2>4. Restart => told'.best = told.best
    BY DEF Restart
  <2>5. ASSUME NEW s \in Slots, Call(s) \/ Feedback(s) \/ Execution(s) PROVE told'.best = told.best
    BY <2>2, <2>5 DEF Call, Feedback, Execution, Lookup, RecordConsensus, PersistRequest,
       PersistResult, Isolate, Redirect, CreateTables, Restore, Told
  <2>6. ASSUME NEW s \in Slots, Replaying(s) \/ Promoting(s) PROVE told'.best = told.best
    BY <2>6 DEF Replaying, RecentTraces, LoadReplayed, Promoting, FindCandidate, Compare,
       ActivatePolicy
  <2>7. ASSUME NEW s \in Slots, Learning(s), ~ Report(s) PROVE told'.best = told.best
    BY <2>7 DEF Learning, Gather, LoadTrace, CountTraces, EnsureActive, EnsureNone,
       StoreBaseline, NextCandidate, Evaluate, StoreCandidate
  <2> QED  BY <2>3, <2>4, <2>5, <2>6, <2>7 DEF Next
<1> QED  BY <1>1, <1>2, <1>3, PTL DEF Spec, LearnIdempotent
=============================================================================
