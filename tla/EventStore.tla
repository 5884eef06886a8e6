----------------------------- MODULE EventStore -----------------------------
(***************************************************************************)
(* One SQLite database of swarm/storage/event_store.py.  Each operator is  *)
(* one function of that file: one connection, one transaction.             *)
(*                                                                         *)
(* Traces and policies are numbers; their order is that of their ids.  A   *)
(* trace id is derived from the requirement, so a requirement that is run  *)
(* again adds rows to the same trace.  What a run decided is kept as its   *)
(* basis: the policies its four lookups found.                             *)
(***************************************************************************)
EXTENDS Integers, FiniteSets

CONSTANTS
    Traces, Versions,
    Config,     \* in the place of a version: no policy, the configured values
    None        \* in the place of a row: there is none

ASSUME NamesAssumption ==
    /\ Traces \subseteq Nat /\ Versions \subseteq Nat
    /\ Config \notin Versions

Policies == Versions \cup {Config}
Lookups == {"thresholds", "type", "weights", "overrides"}
Basis == [Lookups -> Policies]
Grades == {"good", "bad"}      \* feedback: success with score 1, failure with 0
Callers == {"run", "replay", "learn"}
Row == [metric : Nat, stability : Nat]    \* per cent

Database ==
    [request : SUBSET Traces,                   \* events
     result : [Traces -> Basis \cup {None}],    \* artifacts
     llm : SUBSET (Traces \X Callers),          \* llm_history
     feedback : [Traces -> Grades \cup {None}],
     rows : [Versions -> Row \cup {None}],      \* policies
     active : Policies]

\* init_db on a new file.  Every function creates the tables first, so a file
\* that is missing reads like this one.
Empty == [request |-> {}, result |-> [t \in Traces |-> None], llm |-> {},
          feedback |-> [t \in Traces |-> None],
          rows |-> [v \in Versions |-> None], active |-> Config]

StoreRequest(db, t) == [db EXCEPT !.request = @ \cup {t}]

\* Rows are appended; every reader takes the first result of a trace.
StoreResult(db, t, basis) ==
    IF db.result[t] = None THEN [db EXCEPT !.result[t] = basis] ELSE db

StoreLlmRecord(db, t, caller) == [db EXCEPT !.llm = @ \cup {<<t, caller>>}]

\* Mutant: the first feedback of a trace stays.
StoreFeedbackOnce(db, t, grade) ==
    IF db.feedback[t] = None THEN [db EXCEPT !.feedback[t] = grade] ELSE db

\* Rows are appended; every reader takes the newest feedback of a trace.
StoreFeedback(db, t, grade) == [db EXCEPT !.feedback[t] = grade]

\* INSERT OR IGNORE: the first row of a version stays, and so does the first
\* active row (the unique index on active = 1).
StorePolicy(db, v, row, active) ==
    IF db.rows[v] # None \/ (active /\ db.active # Config) THEN db
    ELSE [db EXCEPT !.rows[v] = row, !.active = IF active THEN v ELSE @]

SetPolicyActive(db, v) ==
    IF db.rows[v] = None THEN db ELSE [db EXCEPT !.active = v]
=============================================================================
