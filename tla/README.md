# Formal verification of the autonomous procurement swarm

TLA+ models of the procurement system in `src/`, TLC configurations that
model-check them, and TLAPS proofs. `PROJECT.json` is the machine-readable side
of this document: which module models which source file, every run, the mutants
that show each property can fail, the source lines of every definition, the
disagreements met between code and documents, the hazards, and the theorems.

Contents: [1 the system](#1-the-system) · [2 plan](#2-plan) ·
[3 the mesh](#3-the-mesh) · [4 the learning loop](#4-the-learning-loop) ·
[5 the contract net](#5-the-contract-net) · [6 sourcing](#6-sourcing) ·
[7 orders and the API](#7-orders-and-the-api) ·
[8 neuro quotes and bandits](#8-neuro-quotes-and-bandits) ·
[9 runs and bounds](#9-runs-and-bounds) · [10 fairness](#10-fairness) ·
[11 proofs](#11-proofs) · [12 what the checks show](#12-what-the-checks-show) ·
[13 not modelled](#13-not-modelled)

## 1 The system

The repository holds three generations of one idea, a requirement turned into an
awarded supplier, that share little code.

**The stigmergic mesh (`src/mesh`, API v2).** Pools of Ray actors of four
archetypes write typed traces to a blackboard and read each other's.

| part | state | operations | talks to |
|---|---|---|---|
| `DistributedBlackboard` (`mesh/blackboard.py`) | one append-only list of traces per channel | `write`, `read(limit)`, `clear_*`, `snapshot` | everyone; a synchronous Ray actor, so every call is atomic |
| channels, ACLs (`mesh/channels.py`) | none | who may read and write which of the six channels | checked by the blackboard |
| `MeshActor.step` (`mesh/actors/base.py`) | none of its own | perceive, reason, validate, act; an exception becomes a failure trace | blackboard, kernel |
| scout, evaluator, negotiator, buyer | the set of requirements, suppliers or correlation ids already processed | `perceive`, `reason`, `act` each | blackboard only |
| `ProcurementCluster` (`mesh/cluster.py`) | handles of the actors | `run_procurement`: post the requirement, four gathered phases, read the decision, update the bandits | blackboard, all actors |
| neuro bridge and kernel (`mesh/neuro`) | the turn of a proposal loop | propose, validate, feed the violation back | LLM back end |
| negotiation bandits (`mesh/neuro/bandits.py`) | one bandit per process, a state file | select, update, save, load | negotiators, cluster |
| v2 runtime (`api/v2/runtime.py`) | one cluster and one task per trace | start, poll, cancel, close | one Ray session per process |

*Hard*: async actors interleave two steps wherever one awaits; the buyer reads
three channels in three calls; reads are windows of bounded size; actors are
restarted with empty memory and their step is retried although part of it is
already written; an exception drops what a step had reasoned but not the marks
it made. *Correct* means: at most one award per correlation id; an award rests
on quotes and assessments of its own correlation; the log only grows; every
call returns, and returns the decision on its requirement.

**The event-driven swarm (`src/swarm`, API v1.5).** Agents subscribed to an
event bus; the largest part of the repository.

| part | state | operations | hard behaviour |
|---|---|---|---|
| event bus, completion tracker (`swarm/core`) | the event log, subscriptions, expected and seen members of a group | `publish` (awaits all handlers, nested), `expect`, completion events | publication nests; completion is published from inside the delivery of the last member |
| shared state and artifacts | versioned artifacts | `put_artifact`, `get_artifact` (latest version, first of equals) | a second request in one state sees the first one's artifacts |
| sourcing agents (requirement, strategy, discovery, evaluation, negotiation, decision) | the event being answered, kept in fields | one reaction each | fields are read after awaits |
| contract, risk, governance, approval, purchase order, execution, outcome | artifacts, an idempotency guard | one reaction each, plus a human `approve` | pending against authorized, an order submitted again when the answer was lost |
| event store (`swarm/storage`) | SQLite tables of events, feedback, policies, the active policy | one transaction per method | compositions of two transactions are not atomic |
| learner, policies, routing (`swarm/learning`) | nothing but the store | learn candidates, promote, override weights | the active policy is compared in one transaction and replaced in another |
| replay and simulation (`swarm/simulation`) | a module global exchanged for the time of a replay | replay a trace, simulate policies | two replays at once |
| supplier memory, integrations | statistics; connectors | fold outcomes; create orders | repeated folds, failed calls |

*Correct* means: a completion event for a group comes once and after all its
members; an order only for an authorized decision, and none after one that was answered; what one
request sees is its own; what is active passed the guardrail; a
replay leaves the production store alone.

**Contract-net auctions (`src/core`, API v1).** A sealed-bid auction and
bilateral bartering with suppliers, both recorded in a ledger of hashes.

| part | state | operations | hard behaviour |
|---|---|---|---|
| auction orchestrator | registries of bids and suppliers | sealed-bid auction, bilateral bartering | deadlines, registries shared between auctions |
| state machines (`core/protocol/fsm.py`) | phase, turn | legal transitions, turn limit | a bid after the close |
| buyer and supplier agents, scoring | offers of a session | counter-offers | who moves last |
| ledger (`core/ledger`) | hash-chained rows | `append_event`, `verify_chain` | last hash read in one transaction, row inserted in another |
| memory, market simulator, LLM engine | counters; a seeded walk; remote calls | | |

The components, one entry per part and every part listed, are in `PROJECT.json`
under `components`; every hazard met while reading, with its line, is under
`hazards`.

## 2 Plan

| order | modules | what | status |
|---|---|---|---|
| 1 | `Channels`, `TraceLog`, `Mesh`, `MeshInv`, `MeshPhases`, `Mesh_proofs`, `Mesh_phases` | blackboard, actors and cluster driver composed; the abstract log they implement; proofs | done |
| 2 | `EventStore`, `PolicyRegister`, `PolicyServer`, `PolicyServer_proofs` | the store and the requests that share it; the abstract register of policies they implement; proofs | done |
| 3 | `HashChain`, `ContractNetRules`, `ContractNet`, `ContractNet_proofs` | sealed bids, bartering, the memory of suppliers and the ledger; the abstract chain the ledger implements; proofs | done |
| 4 | `EventLoop`, `SourcingRules`, `Sourcing`, `Sourcing_proofs` | the event bus on its loop, the sourcing agents, the completion tracker, replay; proofs | done |
| 5 | `Connectors`, `OrderRules`, `Orders`, `Orders_proofs` | from a decision to its order and outcome, and the API around remembered swarms; proofs | done |
| 6 | `NeuroQuotes`, `NeuroQuotes_proofs` | the correction loop of the model's quotes, the bandits, the life of the cluster; proofs | done |
| 7 | `MeshPhases`, `Mesh_phases`; `SourcingSerial`, `Sourcing_serial` | what is only true of one request at a time and, in the mesh, while no window overflows; proofs | done |
| 8 | `Advice` | what the strategy agent makes of a model's advice over several recorded rounds | open |

Every invariant and every action property that a run checks is stated by a
theorem; what is left to TLC is at the end of section 11.

## 3 The mesh

`Channels` holds the table of capabilities and the read window. `TraceLog` is the
abstract blackboard: it only grows, each trace is written by an archetype that
holds the capability of the channel, and names parents that are already there.
`Mesh` is the implementation. `MeshInv` states the inductive invariants, one
layer on the other, and `Mesh_proofs` proves them (types, single award, lineage,
grounds of awards, the refinement of `TraceLog`, candidates, marks); `MeshPhases` states
those of runs that come one after the other, and `Mesh_phases` proves them. `MCMesh`
gives the instances for TLC.

**State.** `log` is `DistributedBlackboard._channels`. `rpc` and `result` are the
program counter and the return value of each `run_procurement`. `handled` is the
processed set of each actor. `task` is the step each run asked of each actor:
where it is suspended and its locals. `crashes` counts deaths of processes, the
kernel's among them.

**Actions.** An action is the stretch of code between two awaits that suspend.
`Submit` and the `Gather…` actions are the phases of `run_procurement`. The
scout perceives, reasons, and writes its pool and then one trace per supplier.
The evaluator and the negotiator loop over what they perceived: `…Scan` finds
the next trace not yet processed, `…ReadPool` and `EvaluatorReadRequirement` are
the awaited reads in the loop, `…Mark` marks and proposes, or ends in `fail` when
`int()` or `float()` raises. The buyer reads three channels in three actions and
reasons in one. What was reasoned waits for the kernel (`verdict`): from there a step
writes, ends with nothing to write (`NothingToWrite`), or fails because the
kernel is dead (`Reasoned`, `KernelLost`), its marks set and its proposals gone.
`DepositFailure` is the `except` branch of `step`: a scout's failure goes to
DISCOVERY, an evaluator's to SCORE; those of negotiators and the buyer go to
SCORE too, which they may not write, and the refusal is suppressed. `Crash` is Ray:
the process dies, the pools are restarted with empty memory and the steps in it
run again, the buyer's are not, and the kernel is gone for good (`max_restarts=0`,
`cluster.py:145`). The blackboard's process is assumed to live.

**A copy read is a number.** Channels are append-only and traces immutable, so the
copy a reader holds is determined by the size the channel had; a step keeps the
size instead of the copy, and `Window` recomputes it.

**Abstracted.** Scores, prices and risks are floats computed from fixed tables;
what the control depends on is which suppliers the governance policy lets pass
and how they are ranked, which are the parameters `PolicyOk`, `Composite` and
`Initial`. The one part of a risk assessment that depends on the interleaving,
whether the requirement was in sight or the default quantity was used, is the
field `sized`. Trace contents are otherwise dropped. No LLM is configured (the
default), so the neuro helpers return without suspending; `NeuroQuotes` has them. A living kernel's verdict
inside `step` is always "approved": the payload it gets has only the key
`proposals`, and each of its checks is skipped when its own key is absent; the
wait for it remains, as the gap between reasoning and the first write. Time,
time-to-live fields (never read) and logging are left out.

**Properties** (`Mesh`, end of the module): `AwardedOnce`, `AwardGrounded`,
`Lineage`, `NeverInsufficient`, `AnsweredWithDecision`, `MarksAreAnswered`,
`AwardRankedAll`, `FailuresShow` (calls in sequence that return without a decision are no more than
the failure traces), the liveness property `RunsReturn`, and the refinement
`AppendOnly` (of `TraceLog`).

## 4 The learning loop

`EventStore` is one SQLite database: each operator is one function of
`swarm/storage/event_store.py`, that is one connection and one transaction.
`PolicyServer` is the server process over it. `PolicyRegister` is what the table
of policies promises: rows never change, the active policy has a row, it is
replaced only by one that has a row and passed the guardrail, and it is never
withdrawn. `PolicyServer_proofs` proves that the server implements it however
many requests overlap, and the other properties for one request at a time;
`MCPolicyServer` gives the instances.

**State.** `dbs` is the database behind each path, `path` the module global
`event_store._DB_PATH`. A *slot* is a request being served; `job` has its program
counter and locals. `told` remembers what clients were answered: the runs that
were persisted, the newest grade of each trace, the best candidate reported for
each base policy.

**Actions.** An action is one call into the store, or one assignment of the
global, because that is what the endpoints can be interrupted between: `run` and
`feedback` are coroutines of one event loop, the others plain functions that
FastAPI gives to a thread pool. `LoopFree` is the part of a live run that holds the
loop. The actions follow the endpoints:

| endpoint | actions |
|---|---|
| run | `Call`, `Lookup` (four times), `RecordConsensus`, `PersistRequest`, `PersistResult` |
| feedback | `Feedback` |
| replay, simulate | `RecentTraces`, `LoadReplayed`, `Lookup`, `Isolate`, `Redirect`, `CreateTables`, …, `Restore` |
| learn | `Gather`, `LoadTrace`, `CountTraces`, `EnsureActive`, `EnsureNone`, `StoreBaseline`, `NextCandidate`, `Evaluate`, `Isolate`, …, `Restore`, `StoreCandidate`, `Report` |
| promote | `FindCandidate`, `Compare`, `ActivatePolicy` |
| (the process) | `Restart`: it dies anywhere, the requests are lost, the global is back at its configured value |

**Abstracted.** The swarm's decision is `Choice`, a parameter: the supplier selected for
a trace under the *basis* its four lookups found (thresholds, strategy type,
weights, overrides: policies, or the configured values). It stands for the whole
pipeline, whose own interleavings are those of `Sourcing`. Of the rows a run
writes the model keeps those a later request reads. A function of the store opens
two connections, one to create the tables and one to work; both read the global
at the same path here. Reads repeated for each supplier, the two reads of
`load_full_trace`, and the two of the thresholds with their override are one step each.
The metric is computed in whole per cent with a score of 1 or 0 beside success or failure.
The generated grid is the parameter `Neighbours`, the guardrail `Safe`. The strategy
agent's consensus row is optional, since it depends on the order of handlers.
Errors raised while a replay executes are left out; the `finally` branch does the
same for them.

**Properties** (`PolicyServer`, end of the module): `StorageRestored`,
`AnswersPersist`, the action property `LearnIdempotent`,
and the refinement `RegisterKept`.

## 5 The contract net

`HashChain` is the abstract ledger: a session's chain only grows at its end, and
each entry names the digest of the one before. The digest is ideal: different
entries have different digests. `AuditSucceeds` proves that such a chain passes
`verify_chain`. `ContractNetRules` has what the agents and the two state
machines compute, as operators without state. `ContractNet` is the server:
requests for auctions over one ledger, one memory of suppliers and one search index.

**State.** `ledger` is the table of events per session, `memory` the profiles of
`memory/heuristics.py`, `index` the rows of `supplier_embeddings`. A request's `job`
has its program counter, its state machine, the bids and bartering threads it
holds, and what it copied before an await. `faults` counts database errors and
restarts.

**Actions.** A step is the code between two awaits that suspend, and in this
program those are the awaits of the database: the coroutines of the supplier
agents never suspend, so that an answer never meets its deadline
(`auction_orchestrator.py:100`) and a bartering thread is computed in one piece
(`Barter`). `ReadLastHash` and `Insert` are the two transactions of
`append_event`. `Create`, `Collect` and `Evaluate` are the sealed-bid auction,
`StartBartering`, `Record`/`IndexSupplier` (the loop of outcomes, an await in
each turn) and `FinishBartering` the second phase. `Fail` is a statement the
database refuses: it ends the request. `Restart` empties memory and jobs and
keeps the ledger and the index.

**Abstracted.** Money is in tenths of a cent, ratios in per cent, divisions round
down. A bid and a counter-offer are rounded to cents as the code does
(`supplier.py:81`, 116, 140, 158), floors are not (`supplier.py:38`). A
supplier's luck (`random.uniform`, `random.randint`) is any member of `Luck`. A
message has the fields a decision reads. Session ids are given, one per request:
the code takes eight hex digits of a `uuid4` (`api/main.py:233`), so that they
differ is an assumption.

**Properties.** `LedgerIsChain` (refinement of `HashChain`: what reads the last hash in one
transaction and inserts in another never forks a session, because only one
request writes to it), `AwardGrounded`, `NoLoss` (no award more than the half cent of
the rounding under the floor), `MemoryFolds`; and
`WithinBudget`, which does not hold (section 12).

## 6 Sourcing

`EventLoop` is the bus on asyncio's loop: `publish` logs the event, gathers one
task per handler and waits for all of them, and each end of a task wakes who
waits for it. Publication therefore nests, and the loop is one FIFO queue. A bus
calls the handlers of an event in the order of a *set* of functions, which
changes from one process to the next: the parameter `Ranks` has the orders a run
considers, each a list of exactly the handlers of each type. `SourcingRules` has what agents compute; `Sourcing` has the agents of
`build_procurement_swarm` up to the decision and the analysis, the recorder, the
completion tracker, the shared state, `send_message` and `replay`.

**State.** `events` is what the recorder kept; the bus's own log is in `EventLoop`; `art`
is the shared state, of which `Get` returns the oldest of equal versions as
`get_artifact` does; `expect` and `closed` are the tracker's; `agent` has the
fields agents keep across awaits; `tasks` and `ready` are the loop's; `answered`
says which callers of `send_message` got their answer.

**Actions.** One per agent and suspension: `…Step` is the handler up to its
first publication, `…Done` what comes after. `Track` is the tracker's handler
with its snapshot before the await. The quotes of a decision are a set of
records with their place among the artifacts, which is what Python's stable sort
goes by between equals (`Before`). `LaterStep` stands for the chain behind the
decision, which is `Orders`. `Send` posts a message; with `Overlap = FALSE` only when the
loop is at rest, as `dispatch_swarm_requirement` does with a swarm of its own.

**Properties.** `HistoryInOrder`, `ClosedOnce`, `CoversAll`, `Explained`,
`NobodyWaits` (at rest every readable message has a decision and every caller an
answer) and the liveness property `ComesToRest`. `TypeOK` includes the invariant
of the loop: a task is queued once, and waits for as many as name it.
`SourcingSerial` has the invariant for one call at a time; `Sourcing_proofs` and
`Sourcing_serial` have the proofs.

## 7 Orders and the API

`Connectors` is `src/integrations`: what each provider answers, the factory, the
statuses. `OrderRules` has the formulas of contract, risk, governance and
supplier memory. `Orders` composes them with the API's memory of finished swarms.

**State.** `flight` is the swarm of each dispatch with its artifacts while it
runs; `kept` and `store` are `swarm_states` with the order of its keys; `memory`
is the supplier memory of the process; `told` has the outcomes on their way;
`outside` is the log of what reached a supplier's system and what it answered.

**Actions.** A dispatch goes through `Decide`, `Validate`, `Assess`,
`GovernStep`, `Authorize`, `CreateOrder`, `Track` and `Finish`, one per agent. A client may
`Approve`, `Execute`, `Sync` or `Tell` an outcome of a run it knows. `Record`,
`Fold` and `Replace` are the outcome's own swarm, which takes the place of the
run it is about. A connector may accept, refuse, or raise with or
without having acted: those in the repository do none of the last three, so
this fault model is the contract of `BaseConnector` for the systems behind it.

**What reading it showed**, as the model has it: the idempotency guard never
prevents a call, since it is looked at only when no order is on record
(`purchase_order_agent.py:230`); a refused order is recorded as SUBMITTED and
never tried again; `sync` ignores `force`, and with another provider asks a
system that never got the order; a rejected authorization is answered with 404
and not 409; a key written again keeps its old place among the remembered runs;
governance approves on a risk assessed when the request was dispatched; `execute`
grants a pending authorization itself, so what was approved was not always approved by a human.

**Properties.** `OrdersVetted` (what reaches a supplier passed contract, risk
and governance, with an approval where that is asked for), `PlacedAgainIfLost` (of the orders of a request that reached the
supplier only the last can have been answered, and the swarm has an order exactly
if one was), `Audited` (on record are exactly the calls that were answered, and
they are those the order and its status rest on), `Idempotent`, the liveness property `Returns`.
What a supplier saw without the answer coming back is on no record. `OncePerOperation`
and `OrderAwarded` do not hold (section 12).

## 8 Neuro quotes and bandits

`NeuroQuotes` is the negotiator with a language model: the correction loop of
`NeuroSymbolicBridge.safe_propose`, the kernel's verdict, the bandit of each
process, the reward the driver gives after an award, and the life of the cluster
around them.

**State.** `up`, `starts`, `crashes`: the cluster's. `rpc` and `award`: the calls
and the quote they reward. `required`, `found`, `scores`, `deals`, `decision`: the
blackboard's, `found` being DISCOVERY as far as windows matter: a list, or `None` for a trace of one of
its suppliers. `processed`, `task`, `pending`: the negotiators', `pending` being the strategy they used last.
`bandit` is the singleton of each process, the driver's included, as the
sequence of choices rewarded; `file` the state file; `choices` counts the
strategies chosen. `disturbed` is history: the runs that overlapped another, met
a restart of a negotiator, or began with evaluations of another left over.

**Actions.** `Start` loads the file into each process, `Shutdown` saves the
driver's singleton. `Submit`, `Evaluate`, `Buyer`, `ReadDeals` and `Credit` are the driver,
`Scout` the step of a scout, whose list is made from the templates or by its model
(`Made`). `Perceive`, `Reason`, `Skip`, `Raise`, `Select`, `Accept`, `Retry`, `FallBack` and `Act` are the
negotiator: it passes an evaluation by, unmarked, when the window has no list of the run or the list
not the supplier (`Skip`), and a budget that is null ends the step (`Raise`).
Generation and verdict are one step: between them nothing shared is
touched. `Crash` is Ray: a process loses bandit, marks and pending strategy, and its step is retried.
That the kernel dies is in `Mesh`; here it lives.

**What the model leaves open.** `Pools` is what a scout's model may say that the kernel
lets by: the schema asks for suppliers and a quantity above zero (`schemas.py:43`), and the kernel
is given no budget to hold against them. `Replies` are the quotes of the negotiators'
model. The buyer awards any quoted supplier or none.

**What reading it showed.** The verdict on a quote is about the quantity of the list
(`negotiator.py:273`), which the scouts' model may have written (`scout.py:299`),
and nobody compares it with the requirement's: an approved quote of one unit may answer a
requirement of two, and in total exceed its budget, where `README.md:259` says that no proposal
reaches the blackboard unverified and `README.md:270` that it is the requirement's
budget. `README.md:271` holds delivery against the target lead time and `bridge.py:91` tells the
model of a price of at most 1,000,000; the kernel's limits are 365 days and 10,000,000.
An approved quote is used as the model gave it, not
as the kernel clamped it (`kernel.py:89`). A missing budget becomes 0 and rejects
every quote of the model; a budget that is there and null raises outside the
`try` (`bandits.py:136`): the step loses all it has quoted, for other calls too, whose
pairs stay marked, and every later step that comes to that evaluation raises
again as long as the requirement is among the last five. The model's confidence in itself never
gates anything and there is no larger model to fall back to
(`README.md:257`). The supplier named in a reply is not compared with the one
asked about. The award rests on the oldest quote of a supplier and the reward on
the newest. Every negotiator is rewarded for its last choice, whatever supplier
won. The fallback quote is not held against the budget. The path of the state file is
read from the environment when the module is imported (`bandits.py:373`), before
the cluster sets it (`cluster.py:139`).

**Properties.** `OnlyVerified` (a quote of the model on DEAL is for a supplier on a list of
its own run and, for as many units as that list has, within a budget of its own run), `CreditedOnce`,
`CreditsOwn` (of a run that is not `disturbed`), the liveness property
`Returns`; `LearningSaved` does not hold (section 12).

## 9 Runs and bounds

| run | instance | shows |
|---|---|---|
| `mesh_serial` | 4 calls in sequence, in any order: 2 well formed, 1 with a bad quantity, 1 with a bad budget; 2 scouts, 1 evaluator, 1 negotiator, 2 suppliers, the better one refused by the policy | calls ahead of the malformed ones return their own decision, all suppliers were ranked, calls that lose theirs leave failure traces |
| `mesh_overlap` | 2 calls at once, one actor per pool, 1 supplier | safety and the refinement of `TraceLog` under every interleaving |
| `mesh_crash` | 1 correlation id submitted twice, 3 of the 5 processes may die, the kernel too; 1 restart, 1 retry | with no process lost for good, a decision; every call returns |
| `policy_serial` | 1 slot, every endpoint, restarts anywhere, 2 traces, 4 versions, from an empty file | the loop's properties and the refinement of `PolicyRegister` |
| `contract_net` | 2 auctions at once, 2 suppliers, 3 kinds of requirement, 3 kinds of luck, 1 fault | safety and the refinement of `HashChain` |
| `auction_budget` | 1 auction with a small budget | violates `WithinBudget` |
| `sourcing` | 3 messages one after the other (a carbon constraint, a broken one, a plain one), 2 suppliers, 1 replay, 12 orders of handlers | safety, and the loop comes to rest |
| `orders` | 2 dispatches, 1 remembered, 2 outcomes, 3 suppliers, 1 fault | safety, the idempotency of a settled order, everybody is answered |
| `order_placed_twice` | the same with 1 outcome | violates `OncePerOperation` |
| `order_without_award` | the same with 1 outcome | violates `OrderAwarded` |
| `neuro_quotes` | 2 calls that may overlap, 1 scout with a model, 1 negotiator, 2 attempts, a null budget, windows that overflow, 1 crash | safety, and every call returns |
| `bandit_forgets` | the same without a crash | violates `LearningSaved` |

*Mesh.* The read limits (10, 50, 20, 5, 50, 100, 5) are the code's own. `Runs` bounds the
calls a client makes and `MaxActive` how many it keeps open; two at once give
every pairwise interleaving of steps in one actor, which is what the await
points expose: a third adds no new kind of overlap to properties that relate two
traces. `MaxRestarts` and `MaxRetries` are Ray's options (3 and 2 in the code, 1
here: one restart already gives an empty memory and a repeated step). `Fallible`
names the processes that may die, and `MaxMortal` = 3 says how many of them do:
two of the pools and the kernel, or any other three. In these instances no window
overflows (section 12 has one that does). Symmetry is over runs that differ by their name only, in the runs
without liveness.

*Learning loop.* No counter is capped: rows, grades and traces are finite sets,
and clients ask without end. The four versions are one of each kind: the
configured baseline (under the guardrail by default), the same clamped into it,
a perturbation of it that moves one choice, and one the guardrail refuses. Two
traces are what separates a metric of one corpus from that of a larger one.
`MinTraces` is 1 instead of the code's 25, so that a small corpus is enough to learn; `Margin` is
the code's 0. `Temps` has a name for every slot that can be inside a replay.

*Contract net.* Two requests are every overlap of `append_event`'s two
transactions and of the loop of outcomes. The two suppliers are one far under
the market price and one close to it, so that there is an auction with two
bids, with one and with none; both floors are a few tenths over a whole number of cents, so
that rounding goes below them; the lead times include one that is no lead time.
`MaxTurns` is the code's 4. `MaxFaults` = 1 cuts a request off at any step.

*Sourcing.* Two suppliers are the smallest group the tracker can close early or
twice. `MCRanks` has the recorder and the tracker before or behind all agents, and
every order of the three agents that hear that all have quoted; the other events have
one agent each. `MaxReplays` = 1: a replay changes nothing, a second one starts from the same state.

*Orders.* `MaxStates` = 1 (50 in the code, `api/main.py:91`) makes two dispatches enough to
forget one. `MaxOutcomes` = 2 lets two folds meet, `MaxFaults` = 1 is one call
that raises. The suppliers are one that needs no approval, one that may, and one
whose contract has run out.

*Neuro quotes.* `MaxAttempts` = 2 is `neuro_max_retries` = 2 (`bridge.py:162`; 3 by default): one
attempt that is corrected and one that is the last. The requirements are of two units, the budget is 2, and that of the second call
may be null. A list is the templates' one supplier with the two units asked for, or, of the second call, what a
model made of it: one unit, the supplier twice. The model's replies cost 2 a unit, so that they pass
for one unit and not for two, and one of them is too late.
`DiscoveryLimit` = 4 (20 in the code), `RequirementLimit` = 1 (5) and `DealLimit` = 2
(20) let the list, the requirement and the quote of one call be pushed out by
the other's; `MaxScores` = 1 evaluation per call, and the other call's, give a step two to work on.
`Shutdown` is taken when no call is open.

`CHECK_DEADLOCK FALSE` is said where the system may stop: every call returned
and the client has no more. `policy_serial` checks deadlock: an idle slot can
always take a request.

## 10 Fairness

`Mesh.FairSpec` has weak fairness of each call's steps and of each actor's
steps: Ray executes every call an actor accepted, a coroutine whose awaits are
answered is resumed by its event loop, and an actor that dies completes its
calls with an error, which is the `Crash` action itself. `Sourcing.LiveSpec` has weak
fairness of the loop, which runs what is due. `Orders.LiveSpec` has it of the
steps that serve a request or an outcome that was accepted, `NeuroQuotes.FairSpec` of each call and each
negotiator's step. There is no fairness on clients, crashes, restarts or replays.
`ContractNet` and `PolicyServer` state none: their properties are safety.

## 11 Proofs

Every theorem is about the specification the runs check, for every value of the
constants that satisfies the named assumptions of its module. Where an
invariant is not inductive, an inductive one is stated, checked by TLC on the
runs' instances, and proved with one lemma per action; temporal steps combine
the three facts with the specification.

**Mesh** (assumptions: the four archetypes and the kernel share no name, the pool of suppliers
is a sequence that is not empty, read limits are positive). Four layers, each on top
of the one before, all in `MeshInv`:

- `TypeInv`. `TypeOK` is not inductive: a step looks traces up by positions it kept from
  before an await, `log["discovery"][state.pos]`, and the type of what it finds is
  known only if the position is inside the channel. `WellPlaced` says so: every
  size and position a step keeps is at most the size the channel has now. It
  is preserved because channels only grow (`Grows`, `PlacedStays`) and because
  what a window returns is a position of the channel it was read from
  (`WindowProperties`, `ReadTrace`). Theorem `TypeCorrect`.
- `OnceInv`. `AwardedOnce` speaks of the log only; an award may already be
  planned in a step of the buyer that has not written it yet. Every award,
  written or planned, has its correlation id among the buyer's marks, no planned
  award is for an id already awarded, and no two planned ones share an id.
  It is preserved because `BuyerReason` tests and marks the ids without
  suspending, the write moves an award from the plan to the log, and the buyer,
  declared without restarts, never forgets a mark. Theorem `NoDoubleAward`. It
  does not extend to a second buyer process: nothing on the blackboard is checked.
- `LineageInv`. A trace is `Sound` when its parents are written, are of its own
  correlation and of the kinds its archetype answers, and, for an award, when the
  quote, evaluation and assessment it rests on are among them. What a step has
  planned, or is looking at, is `Linked` to the traces it was made from: a proposal is
  sound before it is written. Parents stay what they were because the log only
  grows (`DescendsStays`, `GroundedStays`). Theorems `LineageKept` and
  `AwardsGrounded`; and `BlackboardRefined`, the refinement of `TraceLog`, whose
  side conditions (the writer's capability, parents already there) are this invariant.
- `ScoredInv`: the buyer reads DEAL before SCORE and a quote is written after
  its evaluation, so what the buyer has in hand is scored in what it read, as long as
  one read takes in all of SCORE, which is how `NeverInsufficient` is stated. `MarksInv`:
  while the kernel lives, a mark that a living actor remembers is answered or its answer is in the
  hands of one of its steps (`Remembers`); the pools of later phases are idle
  (`Waiting`), so a retried step finds what the first attempt wrote. Theorems
  `CandidatesFound`, `QuotesFollowMarks` and `MarksFollowed`. The last has the
  hypothesis `BadBudget = {}`, which is not a convenience: `float()` raises in the
  middle of the evaluator's loop and what it had marked before is never answered
  (section 12).

What is only true of one run at a time is stated and proved in `MeshPhases` and
`Mesh_phases`. `Serial` says that calls of `run_procurement` do not overlap, that the kernel and the pools
lose no process (the buyer may die), and that budgets are numbers. `Fits`
says that no channel has outgrown the read that follows it, and is a condition on
the state: the theorems promise nothing once it is false, which is when the code
does miss traces. Neither condition can be dropped: the calls that overlap, the budget
that is no number and the pool pushed out of the evaluator's window are each a counterexample
of section 12.

- `PhasesInv` carries one fact through the phases. A step is in flight only in the
  phase of its archetype (`InPhase`), so each channel has stopped growing when the
  next archetype reads it. A `supplier_list` is followed by a
  trace of every supplier of the pool, or its scout is still posting them (`ListsInv`). An
  evaluator or a negotiator has marked what its loop has left behind (`SweepInv`), and what is
  marked is answered (`MarksInv`); so at the end of a phase every supplier found is scored,
  and then every supplier scored is quoted (`PassedOn`). The buyer holds
  all of DEAL and of SCORE (`HoldsAll`), and its award ranks them (`RankedInv`).
  Theorem `AllSuppliersRanked`.
- `AnswerInv` adds that the requirement of a run is heard. What a scout or the
  buyer has marked is on the blackboard or in its hands (`MarkedInv`, `InHands`).
  A scout of the current run has not come to the requirement or has marked it
  (`Hears`), likewise the buyer and the quotes (`Weighs`), and a run in its last
  phases has a list, then a decision (`Answering`), which the last read finds by its
  correlation id. Theorem `RunsAnswered`, under `Heeded`: as `Serial`, with a scout and
  with quantities that are numbers, since one requirement that makes `int()` raise
  silences the scout for all in its window (section 12).

**The learning loop** (`Production` is not a temporary name, stored values are
told apart from `None`). `RegisterRefined` proves `Spec => RegisterKept` for any
number of overlapping requests, and the reason is not
obvious: two replays can leave the server on a wrong path, so that baselines,
candidates and promotions are written to any file. `RegisterInv` says why it does
not matter to the production table. The
path is always one of the known ones; a request deletes only the file `mkstemp`
gave *it*, which is never the production file (`FileOk`); whatever is stored is
the rating of a version on a corpus that is not empty, a natural number
(`LearnOk`, `RatingOk`: without it the division is by zero); and a version about to
be activated passed the guardrail (`PromoteOk`). The row `ActivatePolicy` needs is looked at
in the same transaction that activates it. `TypeCorrect` adds that every
database names an active policy whose row it has, and that a learner has scored
finitely many candidates: a best one exists when it reports.

`PathPutBack`, `NothingForgotten` and `SameBest` prove
the other three properties under `Serial`, that there is one slot: one request is
served at a time, and the process may die at any step of it. With two slots each is
false (section 12), so the hypothesis is a condition on the deployment and not on the proof.
`SerialInv` is the invariant: the path is the throwaway file exactly while
the request is isolated (`PathOk`), what a request found is still
there when it uses it (`RequestOk`, `RowOk`), a candidate was scored by the
metric its row has or will have (`SearchOk`), and the best candidate reported
for a base is the best of its rows for ever, since all of them are stored when it is
reported and rows never change (`BestOk`).

**The contract net** (session ids differ). `LedgerRefined`
proves the refinement of `HashChain`: between `ReadLastHash` and `Insert` of one
request its session's tip does not move, because no other request has that
session (`Linked`). `AuditSucceeds` proves of any such ledger that `verify_chain`
accepts every session: an entry that names the tip may be appended to a
verified chain (`VerifiedAppend`). `SessionsVerified` composes the two: an audit
of the contract net's ledger succeeds at any time, between the two transactions
of an append and after a request that was cut off too.
`NoAwardAtALoss` and `AwardsGrounded` follow the price of an award back to a bid through
ranking and bartering, whose turns are a recursive function, and no step of which
loses more than the half cent its rounding takes: a price that is in cents already is not
rounded again (`Cents`). `Priced` says
what the rows written and the rows on their way hold together, phase by phase, and that
the row the client is told of is the newest. `EveryThreadCounted` proves
that interleaved loops of outcomes count each recorded thread once: the profile copied before the await
(`snap`) goes to the index only. Hashes are opaque in the proof: nothing is known
of one but that it is the genesis or was read from a ledger.

**Orders.** `IInv` follows one request: `Where` says what its artifacts are at each point
of the dispatch and afterwards, in flight or among the remembered states, `Once` that an answered order is the
last one placed, `Keeping` ties the keys of `swarm_states` to the dispatches that
were answered. `Good` relates three records that are written
at different moments: the artifacts, the verdict recomputed from them, and the
calls the systems outside saw (an increasing map from the calls on
record onto those that were answered, and the trail that the order and its status
ask for). From it `NoUnvettedOrder`,
`NoSecondOrder` and `EveryAnswerRecorded`, and the action property
`SettledStays`, for any number of dispatches, executions, refusals and outcomes.

**Neuro quotes** (pools and replies have their types, null and `None` are told apart
from values). `IInv` has four parts. `Shaped` is the shape of the state and of
each step. `Verified` says that every quote of the model, written or in a step's
hands, rests on a list and a requirement of its run, in whose terms the kernel approved it,
and so does what a step that is generating has read; lists and requirements are never withdrawn
while a cluster is up. `KernelIsRoot` follows.
`Learning` numbers the choices of a process: those rewarded have different numbers, and
the pending one is new; nothing is ever loaded from the file because the driver,
who saves it, never learns. `NoDoubleCredit` follows. `Undisturbed` is about a run that
nothing disturbed: everything of other runs is marked when it begins, nobody else is
at work and no mark is lost, so what is chosen, quoted and found on DEAL is its
own. `OwnReward` follows.

**Sourcing** (every order lists the handlers of a type once each, the pool is not
empty, the types behind a decision are types of their own). In `Sourcing_proofs` nothing
is assumed of `Overlap`: its four theorems hold although messages and replays arrive while the loop is
at work. `LoopInv` gives the state its shape and keeps the books of the loop
(`Book`): what a task waits for is the number of its children plus the done
callbacks due to it, it is queued exactly when that number is zero, and a
child is younger than who waits for it. `TypeCorrect` is the part `TypeOK` states;
`EveryCallReturns` follows from it without fairness: when nothing is due,
the youngest task has no child and nobody can be waiting, so every call has returned.
`HistoryFollowsLog`: the entries of the log that the history lacks are those of the recorders
in the queue, one for each and in that order (`InLine`, an increasing map from
the entries that are missing to places in the queue). It is preserved because a publication puts its
recorder behind all callbacks that are due, whichever place it has among the
handlers of its event, and because a recorder never suspends.
`CompletionsInOrder`: a pair is marked in the same stretch of code that logs its completion
(`Sealed`), and what a suspended tracker has still to check lists the
evaluations of a request just before its quotes or they are closed already (`Ordered`). That
quotes cannot be complete while evaluations are not is a count of artifacts:
the quotes of a request and the negotiators that have heard of an evaluation and
not begun are never more than its evaluations (`Quoted`).

**Sourcing, one call at a time** (the same, and `Overlap = FALSE`: a message or a replay
comes when the loop is at rest, as it does with a swarm of its own for each
dispatch; the value in `sourcing.cfg`). With messages that overlap the three
are false (section 12). `SerialInv` (in `SourcingSerial`) says how far the one
request has got, part by part:

- `OneCall`: whatever is live and not replayed is of one request.
- `Stocked`, `Chain`, `Pending`: from the message to the pool there is one step at a
  time, and each finds on record what it reads.
- `Evals`, `Offers`: from then on each supplier is discovered, evaluated and asked to quote
  once, so that a request has one evaluation and one quote of each.
- `Watched`: a group that is complete and not closed will be looked at by a tracker,
  begun or not. This is what connects the count the tracker takes before its
  await with the artifacts put meanwhile.
- `Decides`, `Explains`: a closed group has a quote of every supplier; there is one step
  of the decision agent per request, and while it waits for its
  publication its fields are those of the decision it made.
- `Progress`: of a readable requirement, each supplier is on its way or has quoted,
  and after the quotes are closed the decision is made or about to be.

None of these is inductive without the others: what a step finds on record is put
there by the step before it, and nothing but the absence of a second request keeps
it from being overwritten. `TurnSpeaks` and its companions say once for
all handlers what a step does to the steps that are still to come (`Turn`); each
part is then preserved action by action. `DecisionsCover`, `DecisionsExplained`
and `NobodyLeft` follow from `SerialInv` and the count of a set of artifacts
that has one for each supplier (`QuotesFound`); the last two also use
that no task is left when the loop is at rest (`NotAtWork`, `EveryCallReturns`).

**Only model-checked.** Liveness (`RunsReturn`, `ComesToRest`, the two `Returns`), which is
out of the prover's reach. What the recursive functions compute on every input (`Barter`'s
outcome beyond the bounds above) is induction over data.

## 12 What the checks show

Under any interleaving of two calls, and with restarts and retries, the mesh
keeps its books in order: no double award, awards grounded in their own
correlation, closed lineage, an append-only log. The learning loop is sound for
one request at a time, killed at any step; with two at once only the register
survives. The ledger is a chain whatever overlaps or fails. Messages of one
swarm that arrive one after the other are decided and explained, whatever order
the bus calls its handlers in. What reaches a supplier was vetted; it is placed again only
when its answer was lost, and what was answered is recorded. No quote of the model
escapes its run's budget for as many units as the list of its supplier has, which is
not always what the requirement asks for (section 8).

Four disagreements are runs, with their counterexamples:

- `auction_budget`: `BidPayload` has no quantity, so the "total budget cap" of
  `policy_engine.py:36` compares zero with the budget.
- `order_placed_twice`: a connector that raises after it has placed the order leaves
  no order and no record in the swarm (`purchase_order_agent.py:229`), and `execute` places another: two orders of one
  decision, where `idempotency.py:4` promises at most one and `base.py:99` a
  record of every call.
- `order_without_award`: a decision that awards nobody still passes contract,
  risk and governance and ends in an order to a supplier `None`.
- `bandit_forgets`: the driver saves its own process's bandit, which learned
  nothing (`bandits.py:401`), though the README (`README.md:250`) says that what
  is learned persists.

Others are seen with the same modules and a changed configuration:

| seen | how |
|---|---|
| Two overlapping calls: an actor the other call made mark a requirement skips it, and a well-formed requirement gets no decision. | `mesh_overlap.cfg` with `AnsweredWithDecision` |
| A restarted scout discovers every requirement in its window again, and 24 traces push the pool of the current call out of the evaluator's window of 20. | `Mesh`, 4 calls in sequence, 5 suppliers, the scout dies once, `AnsweredWithDecision` |
| A malformed older requirement in the scouts' window raises (`scout.py:154`) and a good call's decision is `None`, where `cluster.py:236` says "The final decision dict". | `mesh_serial.cfg` with `AnsweredWithDecision` said of every well-formed call, whatever came before it |
| One budget that is no number: the exception that leaves the evaluator's loop takes with it what the step had marked for other requirements (`evaluator.py`, `reason`). | `mesh_overlap.cfg` with `BadBudget = {r1}` and without symmetry: `MarksAreAnswered` |
| A live run's rows go into the throwaway file of a learner (`replay_engine.py:128`). | `policy_serial.cfg` with 2 slots and learn, run, feedback: `AnswersPersist` |
| Two messages that overlap in one swarm: discovery publishes with the other one's correlation id (`supplier_discovery_agent.py:206`). | `sourcing.cfg` with `Overlap = TRUE`: `CoversAll` |

And these are read off the model, with no property that says so: two promotions
that overlap compare with the same active policy and the worse one may stay
(`learner.py:815`; one at a time the comparison is all there is to it), a replay looks the
active policy's weights up in its empty file (`replay_engine.py:183`, against its
docstring, line 15), stored candidates keep the metric of an older corpus
(`learner.py:620` beside 546), a second request of one swarm works with the
first one's strategy (`state.py:39`), an outcome's swarm replaces the state of the run it
is about (`api/main.py:543`, where `outcome_agent.py:9` speaks of the full trail), and the index
of suppliers may keep the older of two profiles
(`auction_orchestrator.py:341`). Those of section 7 and 8 complete the list.

## 13 Not modelled

- *v2 runtime.* Each trace's cluster calls `initialize()`, which shuts Ray down
  (`cluster.py:111`) although `runtime.py:123` says that concurrent runs never
  collide. What Ray does to calls in flight is outside the repository.
- *Mesh entrypoint*: command line and process start.
- *LLM engine, market simulator, back ends*: remote calls and a seeded walk.
  `ContractNet` and `NeuroQuotes` take any answer.
- *Swarm coordinator* (`src/swarm/orchestration`): the engine of `swarm/core` under its former name.
- *A model's advice to the strategy agent* (`swarm/utils`). One round is recorded per
  run of the API, so the influence is not used there. Reading it showed:
  `adjustments_applied` is looked up before the strategy it describes is evaluated
  (`strategy_agent.py:187`) and is always false; the explainer accepts on trust alone
  (`llm_explainer.py:40`); the round number stays at 6 (`llm_memory.py:95`).
- *The scouts' correction loop*: that of `NeuroQuotes` over another schema. What gets through it is the
  parameter `Pools`, and its await in the scout's `reason` is not in `Mesh`.
- *routing.py, learning signals, LinUCB*: arithmetic over floats; a bandit is the
  sequence of its rewarded choices.
- *Legacy package, scripts, examples; logging, timelines, traces for display, reports.*
