-------------------------- MODULE NeuroQuotes_proofs --------------------------
(***************************************************************************)
(* What the run of NeuroQuotes checks of two runs, one negotiator and one  *)
(* supplier, for any number of them, any model of the scouts and of the    *)
(* negotiators and any limits: no quote of the model gets past the kernel, *)
(* no choice is rewarded twice, and of a run on its own the reward goes to *)
(* what was chosen for it.                                                 *)
(***************************************************************************)
EXTENDS NeuroQuotes, FiniteSetTheorems, TLAPS

(***************************************************************************)
(* The shape of the state.                                                 *)
(***************************************************************************)
Prices == Nat \cup FloorPrices
Quote == [run : Runs, sup : Suppliers, pool : Pool, names : Suppliers \cup {None}, price : Prices,
          lead : Nat \ {0}, neuro : BOOLEAN]
Offers == {q \in Quote : q.neuro => /\ q.price <= MaxPrice /\ q.lead <= MaxLead
                                    /\ q.sup \in Range(q.pool.sups)}
Piles == Seq(Offers)
Request == [run : Runs, budget : Nat \cup {Null}]
Trace == [run : Runs, pool : Pool \cup {None}]
Scored == [run : Runs, sup : Suppliers]
Choice == [no : Nat, run : Runs]
Steps == [pc : {"idle", "perceive", "reason", "read", "generate", "act", "done"},
          at : Nat, pool : Pool \cup {None}, budget : Nat, attempt : Nat, quotes : Piles]
Places == {"new", "scouts", "negotiators", "deals", "credit", "done"}

Typed ==
    /\ rpc \in [Runs -> Places] /\ award \in [Runs -> [quote : Runs, next : Nat]]
    /\ required \in Seq(Request) /\ found \in Seq(Trace)
    /\ scores \in Seq(Scored) /\ deals \in Piles
    /\ processed \in [Negotiators -> SUBSET (Runs \X Suppliers)]
    /\ task \in [Tasks -> Steps]
    /\ pending \in [Negotiators -> Choice \cup {None}]
    /\ DOMAIN bandit = Negotiators \cup {Driver}
    /\ choices \in [Negotiators -> Nat]

Known(quotes) == \A i \in DOMAIN quotes : rpc[quotes[i].run] # "new"

\* Where a step is, how far down the evaluations, and what it has at hand.
Fits(step) ==
    /\ step.pc = "reason" => step.at <= Len(scores)
    /\ step.pc \in {"read", "generate"} => step.at \in DOMAIN scores
    /\ step.pc = "generate" => step.pool \in Pool /\ scores[step.at].sup \in Range(step.pool.sups)
    /\ step.pc \in {"idle", "done"} => step.quotes = <<>>
    /\ Known(step.quotes)

Stage(t) ==
    /\ rpc[t[1]] # "negotiators" => Ended(t)
    /\ Fits(task[t])

\* Nothing is known of a run before it is submitted, and calls are open only
\* while a cluster is.
Ordered ==
    /\ ~up => Open = {}
    /\ \A t \in Tasks : Stage(t)
    /\ Known(scores) /\ Known(deals)
    /\ \A n \in Negotiators : \A p \in processed[n] : rpc[p[1]] # "new"

\* The rewards go round the crew.
Rewarding ==
    /\ deals # <<>> => Crew # <<>>
    /\ \A r \in Runs : rpc[r] = "credit" => deals # <<>> /\ award[r].next \in DOMAIN Crew

Shaped == Typed /\ Ordered /\ Rewarding

(***************************************************************************)
(* A quote of the model rests on a list and on a requirement of its run,   *)
(* and the step that has the model generate it on the two that the kernel  *)
(* is going to compare it with.                                            *)
(***************************************************************************)
Listed(lists, run, pool) == \E k \in DOMAIN lists : lists[k].run = run /\ lists[k].pool = pool
Given(requests, run, budget) ==
    \E k \in DOMAIN requests : requests[k].run = run /\ requests[k].budget = budget

Backed(quotes, lists, requests) == \A i \in DOMAIN quotes :
    LET q == quotes[i] IN q.neuro =>
        /\ Listed(lists, q.run, q.pool)
        /\ \E budget \in Nat : Given(requests, q.run, budget) /\ q.price * q.pool.quantity <= budget

Ready(step, on, lists, requests) ==
    step.pc = "generate" =>
        LET run == on[step.at].run
        IN  Listed(lists, run, step.pool) /\ (step.budget = 0 \/ Given(requests, run, step.budget))

Verified ==
    /\ Backed(deals, found, required)
    /\ \A t \in Tasks : /\ Ready(task[t], scores, found, required)
                        /\ Backed(task[t].quotes, found, required)

(***************************************************************************)
(* The bandits.  The driver's never learns, so nothing is ever loaded; the *)
(* choices of a process are numbered as they are made.                     *)
(***************************************************************************)
Numbered(n) ==
    /\ bandit[n] \in Seq(Choice)
    /\ \A i \in DOMAIN bandit[n] : bandit[n][i].no <= choices[n]
    /\ \A i, j \in DOMAIN bandit[n] : bandit[n][i].no = bandit[n][j].no => i = j
    /\ pending[n] # None =>
          /\ pending[n].no <= choices[n]
          /\ \A i \in DOMAIN bandit[n] : bandit[n][i].no # pending[n].no

Learning ==
    /\ file = None /\ bandit[Driver] = None
    /\ up => \A n \in Negotiators : Numbered(n)

(***************************************************************************)
(* A run on its own: everything of the others has been processed, so what  *)
(* is chosen and quoted is its own.                                        *)
(***************************************************************************)
Focused(r, n) ==
    LET step == task[<<r, n>>] IN
    /\ step.pc \in {"read", "generate"} => scores[step.at].run = r
    /\ \A i \in DOMAIN step.quotes : step.quotes[i].run = r
    /\ step.pc = "generate" \/ (\E s \in Suppliers : <<r, s>> \in processed[n])
          => (pending[n] # None => pending[n].run = r)

Named(r) == {i \in DOMAIN deals : deals[i].run = r /\ deals[i].names = decision[r]}

Alone(r) ==
    /\ Open = {r}
    /\ \A n \in Negotiators, i \in DOMAIN scores : scores[i].run # r => Of(i) \in processed[n]
    /\ \A i, j \in DOMAIN deals : i < j /\ deals[i].run = r => deals[j].run = r
    /\ \A n \in Negotiators : Focused(r, n)
    /\ rpc[r] = "credit" /\ Named(r) # {} => award[r].quote = r

Undisturbed == \A r \in Open : r \notin disturbed => Alone(r)

IInv == Shaped /\ Verified /\ Learning /\ Undisturbed

(***************************************************************************)
(* The loop of reason goes to the newest evaluation not seen, or to act.   *)
(***************************************************************************)
LEMMA Newest ==
    ASSUME NEW k \in Nat, NEW S \in SUBSET (1..k), S # {}
    PROVE  Max(S) \in S /\ \A i \in S : i <= Max(S)
<1> DEFINE T == {n \in Nat : \E i \in S : n = k - i}
           Below == {ss \in Nat \X Nat : ss[1] < ss[2]}
<1>1. T \in SUBSET Nat /\ T # {}
  <2>1. PICK i \in S : TRUE
    OBVIOUS
  <2>2. k - i \in Nat
    OBVIOUS
  <2>3. QED
    BY <2>2
<1>2. IsWellFoundedOn(Below, Nat)
  BY NatLessThanWellFounded, Zenon DEF OpToRel
<1>3. PICK n \in T : \A m \in T : ~ (<<m, n>> \in Below)
  <2> HIDE DEF Below, T
  <2>1. QED
    BY <1>1, <1>2, WFMin, Zenon
<1>4. PICK i \in S : n = k - i
  BY <1>3
<1>5. ASSUME NEW j \in S PROVE i >= j
  <2>1. k - j \in T
    OBVIOUS
  <2>2. ~ (k - j < n)
    BY <1>3, <2>1
  <2>3. QED
    BY <1>4, <2>2
<1>6. \E x \in S : \A y \in S : x >= y
  BY <1>5
<1>7. Max(S) \in S /\ \A y \in S : Max(S) >= y
  BY <1>6 DEF Max
<1>8. QED
  BY <1>7

LEMMA OnwardIs ==
    ASSUME NEW k \in Nat, NEW seen, NEW quotes \in Piles, NEW next, next = Onward(k, seen, quotes)
    PROVE  /\ next \in Steps /\ next.quotes = quotes /\ next.pc \in {"act", "read"}
           /\ next.pc = "read" => next.at \in 1..k /\ Of(next.at) \notin seen
<1> DEFINE left == {i \in 1..k : Of(i) \notin seen}
<1>1. CASE left = {}
  <2>1. next = [Idle EXCEPT !.pc = "act", !.quotes = quotes]
    BY <1>1 DEF Onward
  <2>2. next = [pc |-> "act", at |-> 0, pool |-> None, budget |-> 0, attempt |-> 0, quotes |-> quotes]
    BY <2>1 DEF Idle
  <2>3. QED
    BY <2>2 DEF Steps
<1>2. CASE left # {}
  <2> DEFINE at == Max(left)
  <2>1. next = [Idle EXCEPT !.pc = "read", !.at = at, !.quotes = quotes]
    BY <1>2 DEF Onward
  <2>2. at \in left
    <3> HIDE DEF left
    <3>1. left \in SUBSET (1..k)
      BY DEF left
    <3>2. QED
      BY <1>2, <3>1, Newest
  <2> HIDE DEF at
  <2>3. next = [pc |-> "read", at |-> at, pool |-> None, budget |-> 0, attempt |-> 0, quotes |-> quotes]
    BY <2>1 DEF Idle
  <2>4. at \in 1..k /\ Of(at) \notin seen
    BY <2>2
  <2>5. QED
    BY <2>3, <2>4 DEF Steps
<1>3. QED
  BY <1>1, <1>2

\* Every step begins and ends with nothing in hand.
LEMMA BareStep ==
    ASSUME NEW pc \in {"idle", "perceive", "done"}, NEW quotes, quotes = <<>>
    PROVE  [pc |-> pc, at |-> 0, pool |-> None, budget |-> 0, attempt |-> 0, quotes |-> quotes] \in Steps
<1>1. quotes \in Piles
  BY DEF Piles
<1>2. pc \in {"idle", "perceive", "reason", "read", "generate", "act", "done"}
  OBVIOUS
<1>3. QED
  BY <1>1, <1>2, Zenon DEF Steps

LEMMA BareSteps ==
    ASSUME NEW pc \in {"idle", "perceive", "done"}, NEW step, step = [Idle EXCEPT !.pc = pc]
    PROVE  step \in Steps /\ step.pc = pc /\ step.quotes = <<>> /\ DOMAIN step.quotes = {}
<1> DEFINE none == <<>>
           bare == [pc |-> pc, at |-> 0, pool |-> None, budget |-> 0, attempt |-> 0, quotes |-> none]
<1>1. step = bare
  BY DEF Idle
<1>2. bare.pc = pc /\ bare.quotes = none /\ DOMAIN none = {}
  OBVIOUS
<1>3. bare \in Steps
  BY BareStep
<1> HIDE DEF bare
<1>4. QED
  BY <1>1, <1>2, <1>3

(***************************************************************************)
(* The shape of the state is kept.                                         *)
(***************************************************************************)
LEMMA StepFacts ==
    ASSUME Shaped, NEW t \in Tasks
    PROVE  /\ t[1] \in Runs /\ t[2] \in Negotiators /\ t = <<t[1], t[2]>>
           /\ task[t] \in Steps /\ Stage(t)
           /\ ~ Ended(t) => rpc[t[1]] = "negotiators" /\ t[1] \in Open /\ up
<1>1. t[1] \in Runs /\ t[2] \in Negotiators /\ t = <<t[1], t[2]>>
  BY DEF Tasks
<1>2. task[t] \in Steps /\ Stage(t)
  BY DEF Shaped, Typed, Ordered
<1>3. ASSUME ~ Ended(t) PROVE rpc[t[1]] = "negotiators" /\ t[1] \in Open /\ up
  <2>1. rpc[t[1]] = "negotiators"
    BY <1>2, <1>3 DEF Stage
  <2>2. t[1] \in Open
    BY <1>1, <2>1 DEF Open
  <2>3. QED
    BY <2>1, <2>2 DEF Shaped, Ordered
<1>4. QED
  BY <1>1, <1>2, <1>3

LEMMA OnScore ==
    ASSUME Shaped, NEW i \in DOMAIN scores
    PROVE  /\ i \in Nat \ {0} /\ i <= Len(scores) /\ scores[i] \in Scored /\ scores[i].run \in Runs
           /\ scores[i].sup \in Suppliers /\ Of(i) \in Runs \X Suppliers
           /\ Of(i)[1] = scores[i].run /\ rpc[scores[i].run] # "new"
<1>1. scores \in Seq(Scored)
  BY DEF Shaped, Typed
<1>2. i \in 1..Len(scores) /\ scores[i] \in Scored /\ Len(scores) \in Nat
  BY <1>1
<1>3. scores[i].run \in Runs /\ scores[i].sup \in Suppliers
  BY <1>2 DEF Scored
<1>4. rpc[scores[i].run] # "new"
  BY DEF Shaped, Ordered, Known
<1>5. QED
  BY <1>2, <1>3, <1>4 DEF Of

\* The lists are pools, and so is what the next step reads of them.
LEMMA OnList ==
    ASSUME Shaped, NEW r, NEW k \in Lists(r)
    PROVE  k \in DOMAIN found /\ found[k].run = r /\ found[k].pool \in Pool
           /\ Range(found[k].pool.sups) \subseteq Suppliers
<1>1. k \in DOMAIN found /\ found[k].run = r /\ found[k].pool # None
  BY DEF Lists
<1>2. found[k] \in Trace
  BY <1>1 DEF Shaped, Typed
<1>3. found[k].pool \in Pool
  BY <1>1, <1>2 DEF Trace
<1>4. found[k].pool.sups \in Seq(Suppliers)
  BY <1>3 DEF Pool
<1>5. QED
  BY <1>1, <1>3, <1>4 DEF Range

LEMMA OnRead ==
    ASSUME Shaped, NEW i \in DOMAIN scores, NEW pool \in Quotable(i),
           NEW budget \in BudgetsOf(scores[i].run) \ {Null}
    PROVE  /\ pool \in Pool /\ scores[i].sup \in Range(pool.sups) /\ Listed(found, scores[i].run, pool)
           /\ budget \in Nat /\ (budget = 0 \/ Given(required, scores[i].run, budget))
<1> DEFINE run == scores[i].run
<1>1. PICK k \in Lists(run) : pool = found[k].pool
  BY DEF Quotable, PoolsOf
<1>2. pool \in Pool /\ k \in DOMAIN found /\ found[k].run = run
  BY <1>1, OnList
<1>3. scores[i].sup \in Range(pool.sups)
  BY DEF Quotable
<1>4. budget = 0 \/ \E j \in DOMAIN required : required[j].run = run /\ required[j].budget = budget
  BY DEF BudgetsOf
<1>5. \A j \in DOMAIN required : required[j].budget \in Nat \cup {Null}
  <2>1. required \in Seq(Request)
    BY DEF Shaped, Typed
  <2>2. \A j \in DOMAIN required : required[j] \in Request
    BY <2>1
  <2>3. QED
    BY <2>2 DEF Request
<1>6. budget \in Nat
  BY <1>4, <1>5
<1>7. QED
  BY <1>1, <1>2, <1>3, <1>4, <1>6 DEF Listed, Given

\* A step of one negotiator, whatever it writes.
LEMMA TaskShaped ==
    ASSUME Shaped, NEW t \in Tasks, ~ Ended(t), NEW next \in Steps, task' = [task EXCEPT ![t] = next],
           Fits(next), UNCHANGED <<up, rpc, award, required, found, scores, bandit>>,
           deals' \in Piles, Known(deals'), deals # <<>> => deals' # <<>>,
           processed' \in [Negotiators -> SUBSET (Runs \X Suppliers)],
           \A n \in Negotiators : \A p \in processed'[n] : rpc[p[1]] # "new",
           pending' \in [Negotiators -> Choice \cup {None}], choices' \in [Negotiators -> Nat]
    PROVE  Shaped'
<1>1. task \in [Tasks -> Steps] /\ task' \in [Tasks -> Steps]
  BY DEF Shaped, Typed
<1>2. Typed'
  BY <1>1 DEF Shaped, Typed
<1>3. ASSUME NEW u \in Tasks PROVE Stage(u)'
  <2>1. CASE u = t
    <3>1. task'[u] = next
      BY <1>1, <2>1
    <3>2. rpc[t[1]] = "negotiators"
      BY StepFacts
    <3>3. QED
      BY <2>1, <3>1, <3>2 DEF Stage, Fits, Known
  <2>2. CASE u # t
    <3>1. task'[u] = task[u]
      BY <1>1, <2>2
    <3>2. Stage(u)
      BY DEF Shaped, Ordered
    <3>3. QED
      BY <3>1, <3>2 DEF Stage, Fits, Known, Ended
  <2>3. QED
    BY <2>1, <2>2
<1>4. up
  BY StepFacts
<1>5. Ordered'
  BY <1>3, <1>4 DEF Shaped, Ordered, Known
<1>6. Crew # <<>>
  BY DEF Tasks, Negotiators, Range
<1>7. QED
  BY <1>2, <1>5, <1>6 DEF Shaped, Rewarding

(***************************************************************************)
(* What each part of a step does.                                          *)
(***************************************************************************)
Goes(t) == task' = [task EXCEPT ![t] = task'[t]] /\ task'[t] \in Steps

LEMMA PerceiveIs ==
    ASSUME Shaped, NEW t \in Tasks, Perceive(t)
    PROVE  /\ task[t].pc = "perceive" /\ Goes(t)
           /\ task'[t].pc = "reason" /\ task'[t].at = Len(scores) /\ task'[t].quotes = task[t].quotes
<1> DEFINE next == [task[t] EXCEPT !.pc = "reason", !.at = Len(scores)]
<1>1. task \in [Tasks -> Steps] /\ task[t] \in Steps /\ Len(scores) \in Nat
  BY DEF Shaped, Typed
<1>2. task' = [task EXCEPT ![t] = next] /\ task[t].pc = "perceive"
  BY DEF Perceive, Go
<1>3. next \in Steps /\ next.pc = "reason" /\ next.at = Len(scores) /\ next.quotes = task[t].quotes
  BY <1>1 DEF Steps
<1> HIDE DEF next
<1>4. task'[t] = next
  BY <1>1, <1>2
<1>5. QED
  BY <1>2, <1>3, <1>4 DEF Goes

\* The loop goes on with what it has.
Continues(t, k, quotes) ==
    /\ Goes(t) /\ task'[t].quotes = quotes /\ task'[t].pc \in {"act", "read"}
    /\ task'[t].pc = "read" => task'[t].at \in 1..k /\ Of(task'[t].at) \notin processed'[t[2]]

LEMMA OnwardGoes ==
    ASSUME Shaped, NEW t \in Tasks, NEW k \in Nat, NEW quotes \in Piles,
           Go(t, Onward(k, processed'[t[2]], quotes))
    PROVE  Continues(t, k, quotes)
<1> DEFINE seen == processed'[t[2]]
           next == Onward(k, seen, quotes)
<1>1. task \in [Tasks -> Steps] /\ task' = [task EXCEPT ![t] = next]
  BY DEF Shaped, Typed, Go
<1> HIDE DEF seen, next
<1>2. /\ next \in Steps /\ next.quotes = quotes /\ next.pc \in {"act", "read"}
      /\ next.pc = "read" => next.at \in 1..k /\ Of(next.at) \notin seen
  <2>1. next = Onward(k, seen, quotes)
    BY DEF next
  <2>2. QED
    BY <2>1, OnwardIs
<1>3. task'[t] = next
  BY <1>1
<1>4. QED
  BY <1>1, <1>2, <1>3 DEF Continues, Goes, seen

LEMMA ReasonIs ==
    ASSUME Shaped, NEW t \in Tasks, Reason(t)
    PROVE  task[t].pc = "reason" /\ Continues(t, task[t].at, <<>>)
<1> DEFINE none == <<>>
<1>1. task[t].at \in Nat /\ none \in Piles
  BY DEF Shaped, Typed, Steps, Piles
<1>2. task[t].pc = "reason" /\ Go(t, Onward(task[t].at, processed'[t[2]], none))
  BY DEF Reason
<1> HIDE DEF none
<1>3. Continues(t, task[t].at, none)
  BY <1>1, <1>2, OnwardGoes
<1>4. QED
  BY <1>2, <1>3 DEF none

LEMMA SkipIs ==
    ASSUME Shaped, NEW t \in Tasks, Skip(t)
    PROVE  task[t].pc = "read" /\ Continues(t, task[t].at - 1, task[t].quotes)
<1>1. task[t].pc = "read" /\ task[t] \in Steps
  BY DEF Skip, Shaped, Typed
<1>2. task[t].at \in DOMAIN scores /\ task[t].quotes \in Piles
  BY <1>1, StepFacts DEF Stage, Fits, Steps
<1>3. task[t].at - 1 \in Nat
  BY <1>2, OnScore
<1>4. Go(t, Onward(task[t].at - 1, processed'[t[2]], task[t].quotes))
  BY DEF Skip
<1>5. QED
  BY <1>1, <1>2, <1>3, <1>4, OnwardGoes

LEMMA RaiseIs ==
    ASSUME Shaped, NEW t \in Tasks, Raise(t)
    PROVE  task[t].pc = "read" /\ Goes(t) /\ task'[t].pc = "done" /\ task'[t].quotes = <<>>
<1> DEFINE next == [Idle EXCEPT !.pc = "done"]
<1>1. task \in [Tasks -> Steps] /\ task[t].pc = "read" /\ task' = [task EXCEPT ![t] = next]
  BY DEF Raise, Go, Shaped, Typed
<1>2. next \in Steps /\ next.pc = "done" /\ next.quotes = <<>>
  BY BareSteps
<1> HIDE DEF next
<1>3. task'[t] = next
  BY <1>1
<1>4. QED
  BY <1>1, <1>2, <1>3 DEF Goes

LEMMA SelectIs ==
    ASSUME Shaped, NEW t \in Tasks, Select(t)
    PROVE  /\ task[t].pc = "read" /\ Goes(t)
           /\ task'[t].pc = "generate" /\ task'[t].at = task[t].at /\ task'[t].quotes = task[t].quotes
           /\ \E pool \in Quotable(task[t].at), budget \in BudgetsOf(scores[task[t].at].run) \ {Null} :
                 task'[t].pool = pool /\ task'[t].budget = budget
           /\ choices' = [choices EXCEPT ![t[2]] = choices[t[2]] + 1]
           /\ choices' \in [Negotiators -> Nat]
           /\ pending'[t[2]] \in Choice /\ pending'[t[2]].no = choices[t[2]] + 1
           /\ pending'[t[2]].run = scores[task[t].at].run
           /\ pending' = [pending EXCEPT ![t[2]] = pending'[t[2]]]
           /\ pending' \in [Negotiators -> Choice \cup {None}]
<1> DEFINE n == t[2]
           on == scores[task[t].at]
           chosen == [no |-> choices[n] + 1, run |-> on.run]
<1>1. /\ task \in [Tasks -> Steps] /\ task[t] \in Steps /\ n \in Negotiators
      /\ pending \in [Negotiators -> Choice \cup {None}] /\ choices \in [Negotiators -> Nat]
  BY StepFacts DEF Shaped, Typed
<1>2. PICK pool \in Quotable(task[t].at), budget \in BudgetsOf(on.run) \ {Null} :
         task' = [task EXCEPT ![t] = [task[t] EXCEPT !.pc = "generate", !.attempt = 1,
                                                     !.pool = pool, !.budget = budget]]
  BY DEF Select, Go
<1> DEFINE next == [task[t] EXCEPT !.pc = "generate", !.attempt = 1, !.pool = pool, !.budget = budget]
<1>3. /\ task[t].pc = "read" /\ choices' = [choices EXCEPT ![n] = choices[n] + 1]
      /\ pending' = [pending EXCEPT ![n] = chosen]
  BY DEF Select
<1>4. task[t].at \in DOMAIN scores
  BY <1>3, StepFacts DEF Stage, Fits
<1>5. pool \in Pool /\ budget \in Nat
  <2> HIDE DEF next, chosen
  <2>1. QED
    BY <1>2, <1>4, OnRead
<1>6. /\ next \in Steps /\ next.pc = "generate" /\ next.at = task[t].at /\ next.quotes = task[t].quotes
      /\ next.pool = pool /\ next.budget = budget
  BY <1>1, <1>5 DEF Steps
<1>7. on.run \in Runs
  BY <1>4, OnScore
<1>8. chosen \in Choice /\ chosen.no = choices[n] + 1 /\ chosen.run = on.run
  BY <1>1, <1>7 DEF Choice
<1> HIDE DEF next, chosen
<1>9. task'[t] = next /\ pending'[n] = chosen
  BY <1>1, <1>2, <1>3 DEF next
<1>10. choices' \in [Negotiators -> Nat] /\ pending' \in [Negotiators -> Choice \cup {None}]
  BY <1>1, <1>3, <1>8
<1>11. task' = [task EXCEPT ![t] = task'[t]]
  BY <1>2, <1>9 DEF next
<1>12. QED
  BY <1>2, <1>3, <1>6, <1>8, <1>9, <1>10, <1>11 DEF Goes

LEMMA RetryIs ==
    ASSUME Shaped, NEW t \in Tasks, Retry(t)
    PROVE  /\ task[t].pc = "generate" /\ Goes(t)
           /\ task'[t].pc = "generate" /\ task'[t].at = task[t].at /\ task'[t].quotes = task[t].quotes
           /\ task'[t].pool = task[t].pool /\ task'[t].budget = task[t].budget
<1> DEFINE next == [task[t] EXCEPT !.attempt = task[t].attempt + 1]
<1>1. task \in [Tasks -> Steps] /\ task[t] \in Steps
  BY DEF Shaped, Typed
<1>2. task' = [task EXCEPT ![t] = next] /\ task[t].pc = "generate"
  BY DEF Retry, Go
<1>3. /\ next \in Steps /\ next.pc = "generate" /\ next.at = task[t].at /\ next.quotes = task[t].quotes
      /\ next.pool = task[t].pool /\ next.budget = task[t].budget
  BY <1>1, <1>2 DEF Steps
<1> HIDE DEF next
<1>4. task'[t] = next
  BY <1>1, <1>2
<1>5. QED
  BY <1>2, <1>3, <1>4 DEF Goes

\* What Quoted does with a quote of the evaluation in hand, let by if it is
\* the model's.
Takes(t, quote) ==
    LET step == task[t]
        n == t[2]
    IN  /\ Continues(t, step.at - 1, Append(step.quotes, quote))
        /\ quote.run = scores[step.at].run
        /\ quote.neuro => /\ quote.pool = step.pool /\ quote.price \in Nat \ {0}
                          /\ quote.price * step.pool.quantity <= step.budget
        /\ processed' = [processed EXCEPT ![n] = processed[n] \cup {Of(step.at)}]
        /\ processed' \in [Negotiators -> SUBSET (Runs \X Suppliers)]

\* A step that generates is about an evaluation, and has a pool.
LEMMA Generating ==
    ASSUME Shaped, NEW t \in Tasks, task[t].pc = "generate"
    PROVE  /\ task[t].at \in DOMAIN scores /\ task[t].at \in Nat \ {0} /\ task[t].pool \in Pool
           /\ scores[task[t].at].run \in Runs /\ scores[task[t].at].sup \in Suppliers
           /\ scores[task[t].at].sup \in Range(task[t].pool.sups)
           /\ Of(task[t].at) \in Runs \X Suppliers
           /\ Of(task[t].at) = <<scores[task[t].at].run, scores[task[t].at].sup>>
<1>1. /\ task[t].at \in DOMAIN scores /\ task[t].pool \in Pool
      /\ scores[task[t].at].sup \in Range(task[t].pool.sups)
  BY StepFacts DEF Stage, Fits
<1>2. QED
  BY <1>1, OnScore DEF Of

LEMMA QuotedIs ==
    ASSUME Shaped, NEW t \in Tasks, task[t].pc = "generate", NEW quote \in Offers,
           quote.run = scores[task[t].at].run,
           quote.neuro => /\ quote.pool = task[t].pool /\ quote.price \in Nat \ {0}
                          /\ quote.price * task[t].pool.quantity <= task[t].budget,
           Quoted(t, quote)
    PROVE  Takes(t, quote)
<1> DEFINE at == task[t].at
           n == t[2]
           seen == processed[n] \cup {Of(at)}
           quotes == Append(task[t].quotes, quote)
<1>1. /\ n \in Negotiators /\ task[t] \in Steps
      /\ processed \in [Negotiators -> SUBSET (Runs \X Suppliers)]
  BY StepFacts DEF Shaped, Typed
<1>2. at - 1 \in Nat /\ Of(at) \in Runs \X Suppliers
  BY Generating
<1>3. quotes \in Piles
  <2>1. task[t].quotes \in Seq(Offers)
    BY <1>1 DEF Steps, Piles
  <2>2. QED
    BY <2>1 DEF Piles
<1>4. Go(t, Onward(at - 1, seen, quotes)) /\ processed' = [processed EXCEPT ![n] = seen]
  BY DEF Quoted
<1>5. processed' \in [Negotiators -> SUBSET (Runs \X Suppliers)] /\ processed'[n] = seen
  BY <1>1, <1>2, <1>4
<1>6. Go(t, Onward(at - 1, processed'[n], quotes))
  BY <1>4, <1>5
<1> HIDE DEF quotes, seen
<1>7. Continues(t, at - 1, quotes)
  BY <1>2, <1>3, <1>6, OnwardGoes
<1>8. QED
  BY <1>4, <1>5, <1>7 DEF Takes, quotes, seen

LEMMA AcceptIs ==
    ASSUME Shaped, NEW t \in Tasks, Accept(t)
    PROVE  task[t].pc = "generate" /\ \E quote \in Offers : Takes(t, quote)
<1> DEFINE on == scores[task[t].at]
<1>1. task[t].pc = "generate"
  BY DEF Accept
<1>2. PICK q \in Replies : /\ Approved(task[t], q)
                           /\ Quoted(t, QuoteOf(task[t], q.names, q.price, q.lead, TRUE))
  BY DEF Accept
<1> DEFINE quote == [run |-> on.run, sup |-> on.sup, pool |-> task[t].pool, names |-> q.names,
                     price |-> q.price, lead |-> q.lead, neuro |-> TRUE]
<1>3. /\ on.run \in Runs /\ on.sup \in Suppliers /\ task[t].pool \in Pool
      /\ on.sup \in Range(task[t].pool.sups)
  BY <1>1, Generating
<1>4. q.names \in Suppliers \cup {None} /\ q.price \in Nat \ {0} /\ q.lead \in Nat \ {0}
  BY ReplyAssumption DEF Reply
<1>5. quote \in Quote
  BY <1>3, <1>4 DEF Quote, Prices
<1>6. q.price <= MaxPrice /\ q.lead <= MaxLead /\ q.price * task[t].pool.quantity <= task[t].budget
  BY <1>2 DEF Approved
<1>7. quote \in Offers
  BY <1>3, <1>5, <1>6 DEF Offers
<1>8. Quoted(t, quote)
  BY <1>2 DEF QuoteOf
<1>9. /\ quote.run = on.run /\ quote.pool = task[t].pool /\ quote.price \in Nat \ {0}
      /\ quote.price * task[t].pool.quantity <= task[t].budget
  BY <1>4, <1>6
<1> HIDE DEF quote
<1>10. QED
  BY <1>1, <1>7, <1>8, <1>9, QuotedIs

LEMMA FallBackIs ==
    ASSUME Shaped, NEW t \in Tasks, FallBack(t)
    PROVE  task[t].pc = "generate" /\ \E quote \in Offers : Takes(t, quote)
<1> DEFINE on == scores[task[t].at]
<1>1. task[t].pc = "generate"
  BY DEF FallBack
<1>2. PICK floor \in FloorPrices : Quoted(t, QuoteOf(task[t], on.sup, floor, 1, FALSE))
  BY DEF FallBack
<1> DEFINE quote == [run |-> on.run, sup |-> on.sup, pool |-> task[t].pool, names |-> on.sup,
                     price |-> floor, lead |-> 1, neuro |-> FALSE]
<1>3. on.run \in Runs /\ on.sup \in Suppliers /\ task[t].pool \in Pool
  BY <1>1, Generating
<1>4. quote \in Quote
  BY <1>3 DEF Quote, Prices
<1>5. quote \in Offers /\ quote.run = on.run /\ ~ quote.neuro
  BY <1>4 DEF Offers
<1>6. Quoted(t, quote)
  BY <1>2 DEF QuoteOf
<1> HIDE DEF quote
<1>7. QED
  BY <1>1, <1>5, <1>6, QuotedIs

LEMMA ActIs ==
    ASSUME Shaped, NEW t \in Tasks, Act(t)
    PROVE  /\ task[t].pc = "act" /\ Goes(t)
           /\ \/ task'[t].pc = "done" /\ task'[t].quotes = <<>> /\ deals' = deals
              \/ /\ task'[t].pc = "act" /\ task[t].quotes # <<>>
                 /\ task'[t].quotes = Tail(task[t].quotes)
                 /\ deals' = Append(deals, task[t].quotes[1]) /\ task[t].quotes[1] \in Offers
<1>1. task \in [Tasks -> Steps] /\ task[t] \in Steps /\ task[t].pc = "act"
  BY DEF Shaped, Typed, Act
<1>2. CASE task[t].quotes = <<>>
  <2> DEFINE next == [Idle EXCEPT !.pc = "done"]
  <2>1. task' = [task EXCEPT ![t] = next] /\ deals' = deals
    BY <1>2 DEF Act, Go
  <2>2. next \in Steps /\ next.pc = "done" /\ next.quotes = <<>>
    BY BareSteps
  <2> HIDE DEF next
  <2>3. task'[t] = next
    BY <1>1, <2>1
  <2>4. QED
    BY <1>1, <2>1, <2>2, <2>3 DEF Goes
<1>3. CASE task[t].quotes # <<>>
  <2> DEFINE quotes == task[t].quotes
             next == [task[t] EXCEPT !.quotes = Tail(quotes)]
  <2>1. task' = [task EXCEPT ![t] = next] /\ deals' = Append(deals, Head(quotes))
    BY <1>3 DEF Act, Go
  <2>2. quotes \in Seq(Offers)
    BY <1>1 DEF Steps, Piles
  <2>3. Head(quotes) = quotes[1] /\ quotes[1] \in Offers /\ Tail(quotes) \in Piles
    <3> DEFINE R == Offers
    <3>1. quotes \in Seq(R)
      BY <2>2
    <3> HIDE DEF R, quotes
    <3>2. Head(quotes) = quotes[1] /\ quotes[1] \in R /\ Tail(quotes) \in Seq(R)
      BY <1>3, <3>1 DEF quotes
    <3>3. QED
      BY <3>2 DEF R, Piles
  <2>4. next \in Steps /\ next.pc = "act" /\ next.quotes = Tail(quotes)
    BY <1>1, <2>3 DEF Steps
  <2> HIDE DEF next
  <2>5. task'[t] = next
    BY <1>1, <2>1
  <2>6. QED
    BY <1>1, <1>3, <2>1, <2>3, <2>4, <2>5 DEF Goes
<1>4. QED
  BY <1>2, <1>3

LEMMA KnownAppend ==
    ASSUME NEW quotes \in Piles, NEW quote \in Offers, Known(quotes), rpc[quote.run] # "new"
    PROVE  Append(quotes, quote) \in Piles /\ Known(Append(quotes, quote)) /\ Append(quotes, quote) # <<>>
<1> DEFINE R == Offers
           new == Append(quotes, quote)
<1>1. quotes \in Seq(R) /\ quote \in R
  BY DEF Piles
<1> HIDE DEF R
<1>2. /\ new \in Seq(R) /\ DOMAIN new = 1..(Len(quotes) + 1) /\ DOMAIN quotes = 1..Len(quotes)
      /\ Len(quotes) \in Nat /\ new # <<>>
      /\ \A i \in 1..(Len(quotes) + 1) : new[i] = IF i = Len(quotes) + 1 THEN quote ELSE quotes[i]
  BY <1>1
<1> HIDE DEF new
<1>3. Known(new)
  BY <1>2 DEF Known
<1>4. QED
  BY <1>2, <1>3 DEF Piles, R, new

LEMMA KnownTail ==
    ASSUME NEW quotes \in Piles, quotes # <<>>, Known(quotes)
    PROVE  Known(Tail(quotes)) /\ rpc[quotes[1].run] # "new"
<1> DEFINE R == Offers
<1>1. quotes \in Seq(R)
  BY DEF Piles
<1> HIDE DEF R
<1>2. /\ Len(quotes) \in Nat \ {0} /\ DOMAIN quotes = 1..Len(quotes) /\ Len(Tail(quotes)) = Len(quotes) - 1
      /\ DOMAIN Tail(quotes) = 1..(Len(quotes) - 1)
      /\ \A i \in 1..(Len(quotes) - 1) : Tail(quotes)[i] = quotes[i + 1]
  BY <1>1
<1>3. QED
  BY <1>2 DEF Known

LEMMA ContinuesFits ==
    ASSUME Shaped, NEW t \in Tasks, NEW k \in Nat, k <= Len(scores), NEW quotes \in Piles,
           Known(quotes), Continues(t, k, quotes)
    PROVE  Fits(task'[t])
<1> DEFINE next == task'[t]
<1>1. /\ next.quotes = quotes /\ next.pc \in {"act", "read"}
      /\ next.pc = "read" => next.at \in 1..k
  BY DEF Continues
<1>2. DOMAIN scores = 1..Len(scores) /\ Len(scores) \in Nat
  BY DEF Shaped, Typed
<1> HIDE DEF next
<1>3. next.pc = "read" => next.at \in DOMAIN scores
  BY <1>1, <1>2
<1>4. Fits(next)
  BY <1>1, <1>3 DEF Fits
<1>5. QED
  BY <1>4 DEF next

LEMMA KnownNone == Known(<<>>) /\ <<>> \in Piles
  BY DEF Known, Piles

LEMMA StepShaped ==
    ASSUME Shaped, NEW t \in Tasks, StepOf(t)
    PROVE  Shaped'
<1> DEFINE n == t[2]
           next == task'[t]
<1>1. /\ n \in Negotiators /\ task[t] \in Steps /\ Stage(t) /\ Len(scores) \in Nat
      /\ deals \in Piles /\ Known(deals)
      /\ processed \in [Negotiators -> SUBSET (Runs \X Suppliers)]
      /\ \A m \in Negotiators : \A p \in processed[m] : rpc[p[1]] # "new"
      /\ pending \in [Negotiators -> Choice \cup {None}] /\ choices \in [Negotiators -> Nat]
  BY StepFacts DEF Shaped, Typed, Ordered
<1>2. DOMAIN scores = 1..Len(scores)
  BY DEF Shaped, Typed
<1>3. task[t].quotes \in Piles /\ Known(task[t].quotes) /\ task[t].at \in Nat
  BY <1>1 DEF Stage, Fits, Steps
<1>4. UNCHANGED <<up, rpc, award, required, found, scores>>
  BY DEF StepOf, Perceive, Reason, Skip, Raise, Select, Accept, Retry, FallBack, Act, blackboard, cluster
<1>5. CASE Perceive(t)
  <2>1. Goes(t) /\ next.pc = "reason" /\ next.at = Len(scores) /\ next.quotes = task[t].quotes
        /\ ~ Ended(t)
    BY <1>5, PerceiveIs DEF Ended
  <2>2. UNCHANGED <<bandit, deals, processed, pending, choices>>
    BY <1>5 DEF Perceive, blackboard
  <2>3. Fits(next)
    BY <1>1, <1>3, <2>1 DEF Fits
  <2> HIDE DEF next
  <2>4. QED
    BY <1>1, <1>4, <2>1, <2>2, <2>3, TaskShaped DEF Goes, next
<1>6. CASE Reason(t) \/ Skip(t)
  <2>1. UNCHANGED <<bandit, deals, processed, pending, choices>>
    BY <1>6 DEF Reason, Skip, blackboard
  <2>2. ~ Ended(t) /\ Goes(t)
    BY <1>6, ReasonIs, SkipIs DEF Ended, Continues
  <2>3. Fits(next)
    <3>1. CASE Reason(t)
      <4>1. task[t].pc = "reason" /\ Continues(t, task[t].at, <<>>)
        BY <3>1, ReasonIs
      <4>2. task[t].at <= Len(scores)
        BY <1>1, <4>1 DEF Stage, Fits
      <4>3. QED
        BY <1>3, <4>1, <4>2, KnownNone, ContinuesFits
    <3>2. CASE Skip(t)
      <4>1. task[t].pc = "read" /\ Continues(t, task[t].at - 1, task[t].quotes)
        BY <3>2, SkipIs
      <4>2. task[t].at \in DOMAIN scores
        BY <1>1, <4>1 DEF Stage, Fits
      <4>3. task[t].at - 1 \in Nat /\ task[t].at - 1 <= Len(scores)
        BY <1>1, <4>2, OnScore
      <4>4. QED
        BY <1>3, <4>1, <4>3, ContinuesFits
    <3>3. QED
      BY <1>6, <3>1, <3>2
  <2> HIDE DEF next
  <2>4. QED
    BY <1>1, <1>4, <2>1, <2>2, <2>3, TaskShaped DEF Goes, next
<1>7. CASE Raise(t)
  <2>1. Goes(t) /\ next.pc = "done" /\ next.quotes = <<>> /\ ~ Ended(t)
    BY <1>7, RaiseIs DEF Ended
  <2>2. UNCHANGED <<bandit, deals, processed, pending, choices>>
    BY <1>7 DEF Raise, blackboard
  <2>3. Fits(next)
    BY <2>1, KnownNone DEF Fits
  <2> HIDE DEF next
  <2>4. QED
    BY <1>1, <1>4, <2>1, <2>2, <2>3, TaskShaped DEF Goes, next
<1>8. CASE Select(t)
  <2>1. /\ Goes(t) /\ next.pc = "generate" /\ next.at = task[t].at /\ next.quotes = task[t].quotes
        /\ task[t].pc = "read" /\ ~ Ended(t)
        /\ \E pool \in Quotable(task[t].at), budget \in BudgetsOf(scores[task[t].at].run) \ {Null} :
              next.pool = pool /\ next.budget = budget
        /\ pending' \in [Negotiators -> Choice \cup {None}] /\ choices' \in [Negotiators -> Nat]
    BY <1>8, SelectIs DEF Ended
  <2>2. UNCHANGED <<bandit, deals, processed>>
    BY <1>8 DEF Select, blackboard
  <2>3. task[t].at \in DOMAIN scores
    BY <1>1, <2>1 DEF Stage, Fits
  <2>4. next.pool \in Pool /\ scores[task[t].at].sup \in Range(next.pool.sups)
    <3> HIDE DEF next
    <3>1. QED
      BY <2>1, <2>3, OnRead
  <2>5. Fits(next)
    BY <1>1, <1>3, <2>1, <2>3, <2>4 DEF Fits
  <2> HIDE DEF next
  <2>6. QED
    BY <1>1, <1>4, <2>1, <2>2, <2>5, TaskShaped DEF Goes, next
<1>9. CASE Retry(t)
  <2>1. /\ Goes(t) /\ next.pc = "generate" /\ next.at = task[t].at /\ next.quotes = task[t].quotes
        /\ next.pool = task[t].pool /\ task[t].pc = "generate" /\ ~ Ended(t)
    BY <1>9, RetryIs DEF Ended
  <2>2. UNCHANGED <<bandit, deals, processed, pending, choices>>
    BY <1>9 DEF Retry, blackboard
  <2>3. Fits(next)
    BY <1>1, <1>3, <2>1 DEF Stage, Fits
  <2> HIDE DEF next
  <2>4. QED
    BY <1>1, <1>4, <2>1, <2>2, <2>3, TaskShaped DEF Goes, next
<1>10. CASE Accept(t) \/ FallBack(t)
  <2>1. PICK quote \in Offers : Takes(t, quote)
    BY <1>10, AcceptIs, FallBackIs
  <2>2. task[t].pc = "generate" /\ ~ Ended(t)
    BY <1>10 DEF Accept, FallBack, Ended
  <2>3. UNCHANGED <<bandit, deals, pending, choices>>
    BY <1>10 DEF Accept, FallBack, blackboard
  <2>4. task[t].at \in DOMAIN scores
    BY <1>1, <2>2 DEF Stage, Fits
  <2>5. rpc[scores[task[t].at].run] # "new" /\ task[t].at - 1 \in Nat /\ task[t].at - 1 <= Len(scores)
        /\ Of(task[t].at)[1] = scores[task[t].at].run
    BY <1>1, <2>4, OnScore
  <2> DEFINE quotes == Append(task[t].quotes, quote)
  <2>6. Known(quotes) /\ quotes \in Piles
    BY <1>3, <2>1, <2>5, KnownAppend DEF Takes
  <2>7. Continues(t, task[t].at - 1, quotes)
    BY <2>1 DEF Takes
  <2> HIDE DEF quotes
  <2>8. Fits(next)
    BY <2>5, <2>6, <2>7, ContinuesFits
  <2>9. \A m \in Negotiators : \A p \in processed'[m] : rpc[p[1]] # "new"
    <3>1. processed' = [processed EXCEPT ![n] = processed[n] \cup {Of(task[t].at)}]
      BY <2>1 DEF Takes
    <3>2. QED
      BY <1>1, <2>5, <3>1
  <2>10. processed' \in [Negotiators -> SUBSET (Runs \X Suppliers)] /\ Goes(t)
    BY <2>1 DEF Takes, Continues
  <2> HIDE DEF next
  <2>11. QED
    BY <1>1, <1>4, <2>2, <2>3, <2>8, <2>9, <2>10, TaskShaped DEF Goes, next
<1>11. CASE Act(t)
  <2>1. Goes(t) /\ ~ Ended(t) /\ next.pc \in {"act", "done"} /\ (next.pc = "done" => next.quotes = <<>>)
    BY <1>11, ActIs DEF Ended
  <2>2. UNCHANGED <<bandit, processed, pending, choices>>
    BY <1>11 DEF Act
  <2>3. Known(next.quotes)
    BY <1>3, <1>11, KnownNone, ActIs, KnownTail
  <2>4. Fits(next)
    BY <2>1, <2>3 DEF Fits
  <2>5. deals' \in Piles /\ Known(deals') /\ (deals # <<>> => deals' # <<>>)
    <3>1. CASE deals' = deals
      BY <1>1, <3>1 DEF Known
    <3>2. CASE deals' # deals
      <4>1. /\ deals' = Append(deals, task[t].quotes[1]) /\ task[t].quotes[1] \in Offers
            /\ task[t].quotes # <<>>
        BY <1>11, <3>2, ActIs
      <4>2. rpc[task[t].quotes[1].run] # "new"
        BY <1>3, <4>1, KnownTail
      <4>3. QED
        BY <1>1, <4>1, <4>2, KnownAppend
    <3>3. QED
      BY <3>1, <3>2
  <2> HIDE DEF next
  <2>6. QED
    BY <1>1, <1>4, <2>1, <2>2, <2>4, <2>5, TaskShaped DEF Goes, next
<1>12. QED
  BY <1>5, <1>6, <1>7, <1>8, <1>9, <1>10, <1>11 DEF StepOf

LEMMA FreshTyped ==
    ASSUME Shaped, NEW crew \in SUBSET Negotiators, Fresh(crew)
    PROVE  /\ processed' \in [Negotiators -> SUBSET (Runs \X Suppliers)]
           /\ \A n \in Negotiators : processed'[n] \subseteq processed[n]
           /\ pending' \in [Negotiators -> Choice \cup {None}]
           /\ choices' \in [Negotiators -> Nat]
           /\ DOMAIN bandit' = Negotiators \cup {Driver}
  BY DEF Fresh, Shaped, Typed

\* What is known of the runs submitted stays so as runs go on.
LEMMA KnownKept ==
    ASSUME Shaped, NEW quotes \in Piles, Known(quotes), \A s \in Runs : rpc[s] # "new" => rpc'[s] # "new"
    PROVE  \A i \in DOMAIN quotes : rpc'[quotes[i].run] # "new"
<1>1. ASSUME NEW i \in DOMAIN quotes PROVE quotes[i].run \in Runs
  <2>1. quotes[i] \in Offers
    BY DEF Piles
  <2>2. QED
    BY <2>1 DEF Offers, Quote
<1>2. QED
  BY <1>1 DEF Known

\* A call of run_procurement goes on to `place`; nothing else moves but the
\* rewards, and the lists while the scouts are at work.
LEMMA CallShaped ==
    ASSUME Shaped, NEW r \in Runs, rpc[r] # "done", up,
           rpc[r] = "negotiators" => \A n \in Negotiators : Ended(<<r, n>>),
           NEW place \in Places \ {"new", "negotiators"}, rpc' = [rpc EXCEPT ![r] = place],
           award' \in [Runs -> [quote : Runs, next : Nat]],
           \A s \in Runs \ {r} : award'[s] = award[s],
           place = "credit" => deals # <<>> /\ award'[r].next \in DOMAIN Crew,
           required' \in Seq(Request), found' \in Seq(Trace),
           UNCHANGED <<up, scores, deals, processed, task, choices>>,
           pending' \in [Negotiators -> Choice \cup {None}], DOMAIN bandit' = DOMAIN bandit
    PROVE  Shaped'
<1>1. rpc \in [Runs -> Places]
  BY DEF Shaped, Typed
<1>2. rpc' \in [Runs -> Places] /\ rpc'[r] = place /\ \A s \in Runs \ {r} : rpc'[s] = rpc[s]
  BY <1>1
<1>3. \A s \in Runs : rpc[s] # "new" => rpc'[s] # "new"
  BY <1>2
<1>4. Typed'
  BY <1>2 DEF Shaped, Typed
<1>5. ASSUME NEW t \in Tasks PROVE Stage(t)'
  <2>1. t[1] \in Runs /\ t[2] \in Negotiators /\ t = <<t[1], t[2]>> /\ task[t] \in Steps /\ Stage(t)
    BY StepFacts
  <2>2. task[t].quotes \in Piles /\ Known(task[t].quotes)
    BY <2>1 DEF Steps, Stage, Fits
  <2>3. \A i \in DOMAIN task[t].quotes : rpc'[task[t].quotes[i].run] # "new"
    BY <1>3, <2>2, KnownKept
  <2>4. Fits(task[t])'
    BY <2>1, <2>3 DEF Stage, Fits, Known
  <2>5. Ended(t)' <=> Ended(t)
    BY DEF Ended
  <2>6. rpc[t[1]] # "negotiators" \/ t[1] = r => Ended(t)
    BY <2>1 DEF Stage
  <2>7. QED
    BY <1>2, <2>1, <2>4, <2>5, <2>6 DEF Stage
<1>6. Known(scores)'
  BY <1>3, OnScore DEF Known
<1>7. Known(deals)'
  <2>1. deals \in Piles /\ Known(deals)
    BY DEF Shaped, Typed, Ordered
  <2>2. QED
    BY <1>3, <2>1, KnownKept DEF Known
<1>8. \A n \in Negotiators : \A p \in processed[n] : rpc'[p[1]] # "new"
  BY <1>3 DEF Shaped, Ordered, Typed
<1>9. Ordered'
  BY <1>5, <1>6, <1>7, <1>8 DEF Ordered
<1>10. Rewarding'
  BY <1>2 DEF Shaped, Rewarding
<1>11. QED
  BY <1>4, <1>9, <1>10 DEF Shaped

LEMMA SubmitShaped ==
    ASSUME Shaped, NEW r \in Runs, Submit(r)
    PROVE  /\ Shaped' /\ up /\ rpc[r] = "new" /\ rpc'[r] = "scouts"
           /\ \A s \in Runs \ {r} : rpc'[s] = rpc[s]
<1>1. /\ rpc \in [Runs -> Places] /\ required \in Seq(Request) /\ found \in Seq(Trace)
      /\ award \in [Runs -> [quote : Runs, next : Nat]]
      /\ pending \in [Negotiators -> Choice \cup {None}]
  BY DEF Shaped, Typed
<1>2. /\ up /\ rpc[r] = "new" /\ rpc' = [rpc EXCEPT ![r] = "scouts"]
      /\ UNCHANGED <<found, up, scores, deals, processed, task, choices, award, pending, bandit>>
  BY DEF Submit, actors
<1>3. PICK b \in Budgets(r) : required' = Append(required, [run |-> r, budget |-> b])
  BY DEF Submit
<1>4. [run |-> r, budget |-> b] \in Request
  BY PoolAssumption DEF Request
<1>5. required' \in Seq(Request)
  BY <1>1, <1>3, <1>4
<1>6. "scouts" \in Places \ {"new", "negotiators"}
  BY DEF Places
<1>7. Shaped'
  BY <1>1, <1>2, <1>5, <1>6, CallShaped
<1>8. QED
  BY <1>1, <1>2, <1>7

LEMMA ScoutShaped ==
    ASSUME Shaped, NEW r \in Runs, Scout(r)
    PROVE  /\ Shaped' /\ found' \in Seq(Trace) /\ Len(found) \in Nat /\ Len(found') \in Nat
           /\ Len(found') >= Len(found)
           /\ \A k \in DOMAIN found : k \in DOMAIN found' /\ found'[k] = found[k]
<1>1. /\ rpc \in [Runs -> Places] /\ required \in Seq(Request) /\ found \in Seq(Trace)
      /\ award \in [Runs -> [quote : Runs, next : Nat]]
      /\ pending \in [Negotiators -> Choice \cup {None}]
  BY DEF Shaped, Typed
<1>2. /\ rpc[r] = "scouts"
      /\ UNCHANGED <<required, up, scores, deals, processed, task, choices, award, pending, bandit, rpc>>
  BY DEF Scout, actors, cluster
<1>3. PICK pool \in Made(r) : found' = found \o Listing(r, pool)
  BY DEF Scout
<1>4. pool \in Pool
  <2>1. [sups |-> Templates, quantity |-> Asked(r)] \in Pool
    BY PoolAssumption DEF Pool
  <2>2. QED
    BY <1>3, <2>1, PoolAssumption DEF Made
<1> DEFINE each == [k \in DOMAIN pool.sups |-> [run |-> r, pool |-> None]]
           head == <<[run |-> r, pool |-> pool]>>
<1>5. head \in Seq(Trace)
  BY <1>4 DEF Trace
<1>6. each \in Seq(Trace)
  <2>1. pool.sups \in Seq(Suppliers)
    BY <1>4 DEF Pool
  <2>2. DOMAIN pool.sups = 1..Len(pool.sups) /\ Len(pool.sups) \in Nat
    BY <2>1
  <2>3. [run |-> r, pool |-> None] \in Trace
    BY DEF Trace
  <2>4. QED
    BY <2>2, <2>3
<1> DEFINE R == Trace
           more == head \o each
<1>7. more \in Seq(R) /\ found \in Seq(R) /\ found' = found \o more
  <2>1. more \in Seq(R)
    <3>1. head \in Seq(R) /\ each \in Seq(R)
      BY <1>5, <1>6
    <3> HIDE DEF R, head, each
    <3>2. QED
      BY <3>1
  <2>2. QED
    BY <1>1, <1>3, <2>1 DEF Listing
<1> HIDE DEF R, more
<1>8. /\ found' \in Seq(R) /\ Len(found) \in Nat /\ Len(found') \in Nat /\ Len(found') >= Len(found)
      /\ \A k \in DOMAIN found : k \in DOMAIN found' /\ found'[k] = found[k]
  <2>1. /\ found \o more \in Seq(R) /\ Len(found) \in Nat /\ Len(more) \in Nat
        /\ Len(found \o more) = Len(found) + Len(more)
        /\ DOMAIN found = 1..Len(found) /\ DOMAIN (found \o more) = 1..(Len(found) + Len(more))
        /\ \A k \in 1..Len(found) : (found \o more)[k] = found[k]
    BY <1>7
  <2>2. QED
    BY <1>7, <2>1
<1>9. Shaped'
  <2>1. rpc' = [rpc EXCEPT ![r] = "scouts"] /\ up
    BY <1>1, <1>2 DEF Shaped, Ordered, Open
  <2>2. "scouts" \in Places \ {"new", "negotiators"} /\ found' \in Seq(Trace)
    BY <1>8 DEF Places, R
  <2>3. QED
    BY <1>1, <1>2, <2>1, <2>2, CallShaped
<1>10. QED
  BY <1>8, <1>9 DEF R

LEMMA EvaluateShaped ==
    ASSUME Shaped, NEW r \in Runs, Evaluate(r)
    PROVE  /\ Shaped' /\ rpc[r] = "scouts" /\ rpc'[r] = "negotiators"
           /\ \A s \in Runs \ {r} : rpc'[s] = rpc[s]
           /\ \A t \in Tasks : task'[t] = IF t[1] = r THEN [Idle EXCEPT !.pc = "perceive"] ELSE task[t]
           /\ \A i \in DOMAIN scores : i \in DOMAIN scores' /\ scores'[i] = scores[i]
           /\ \A i \in DOMAIN scores' : i \notin DOMAIN scores => scores'[i].run = r
<1> DEFINE first == [Idle EXCEPT !.pc = "perceive"]
<1>1. /\ rpc \in [Runs -> Places] /\ task \in [Tasks -> Steps] /\ scores \in Seq(Scored) /\ deals \in Piles
  BY DEF Shaped, Typed
<1>2. /\ rpc[r] = "scouts" /\ rpc' = [rpc EXCEPT ![r] = "negotiators"]
      /\ task' = [t \in Tasks |-> IF t[1] = r THEN first ELSE task[t]]
      /\ UNCHANGED <<up, award, required, found, deals, processed, pending, bandit, choices>>
  BY DEF Evaluate, cluster
<1>3. PICK n \in 0..MaxScores : \E named \in [1..n -> UNION {Range(found[i].pool.sups) : i \in Lists(r)}] :
         scores' = scores \o [k \in 1..n |-> [run |-> r, sup |-> named[k]]]
  BY DEF Evaluate
<1>named. PICK named \in [1..n -> UNION {Range(found[i].pool.sups) : i \in Lists(r)}] :
         scores' = scores \o [k \in 1..n |-> [run |-> r, sup |-> named[k]]]
  BY <1>3
<1>4. first \in Steps /\ first.pc = "perceive" /\ DOMAIN first.quotes = {}
  BY BareSteps
<1> HIDE DEF first
<1> DEFINE more == [k \in 1..n |-> [run |-> r, sup |-> named[k]]]
<1>5. more \in Seq(Scored) /\ \A k \in DOMAIN more : more[k].run = r
  <2>1. n \in Nat
    BY <1>3, LimitAssumption
  <2>2. \A k \in 1..n : named[k] \in Suppliers
    BY <1>named, OnList
  <2>3. \A k \in 1..n : [run |-> r, sup |-> named[k]] \in Scored
    BY <2>2 DEF Scored
  <2>4. QED
    BY <2>1, <2>3
<1> HIDE DEF more
<1>6. /\ scores' \in Seq(Scored) /\ Len(scores) \in Nat /\ Len(scores') \in Nat
      /\ Len(scores') >= Len(scores)
      /\ DOMAIN scores = 1..Len(scores) /\ DOMAIN scores' = 1..Len(scores')
      /\ \A i \in 1..Len(scores) : scores'[i] = scores[i]
      /\ \A i \in DOMAIN scores' : i \notin DOMAIN scores => scores'[i].run = r
  <2> DEFINE R == Scored
  <2>1. scores \in Seq(R) /\ more \in Seq(R) /\ scores' = scores \o more
    BY <1>1, <1>named, <1>5 DEF more
  <2> HIDE DEF R
  <2>2. /\ scores \o more \in Seq(R) /\ Len(scores) \in Nat /\ Len(more) \in Nat
        /\ Len(scores \o more) = Len(scores) + Len(more)
        /\ \A i \in 1..Len(scores) : (scores \o more)[i] = scores[i]
        /\ DOMAIN more = 1..Len(more) /\ DOMAIN scores = 1..Len(scores)
        /\ DOMAIN (scores \o more) = 1..(Len(scores) + Len(more))
    BY <2>1
  <2>3. ASSUME NEW i \in (Len(scores) + 1)..(Len(scores) + Len(more))
        PROVE  (scores \o more)[i].run = r
    <3>1. i - Len(scores) \in DOMAIN more
      BY <2>2
    <3>2. (scores \o more)[i] = more[i - Len(scores)]
      BY <2>1, <2>2
    <3>3. QED
      BY <1>5, <3>1, <3>2
  <2>4. QED
    BY <2>1, <2>2, <2>3 DEF R
<1>7. /\ rpc' \in [Runs -> Places] /\ rpc'[r] = "negotiators"
      /\ \A s \in Runs \ {r} : rpc'[s] = rpc[s]
      /\ \A s \in Runs : rpc[s] # "new" => rpc'[s] # "new"
  BY <1>1, <1>2 DEF Places
<1>8. \A t \in Tasks : task'[t] = IF t[1] = r THEN first ELSE task[t]
  BY <1>2
<1>9. Typed'
  <2>1. task' \in [Tasks -> Steps]
    BY <1>1, <1>2, <1>4
  <2>2. QED
    BY <1>2, <1>6, <1>7, <2>1 DEF Shaped, Typed
<1>10. ASSUME NEW t \in Tasks PROVE Stage(t)'
  <2>1. t[1] \in Runs /\ task[t] \in Steps /\ Stage(t)
    BY StepFacts
  <2>2. CASE t[1] = r
    <3>1. task'[t] = first
      BY <1>8, <2>2
    <3>2. QED
      BY <1>4, <1>7, <2>2, <3>1 DEF Stage, Fits, Known
  <2>3. CASE t[1] # r
    <3>1. task'[t] = task[t] /\ rpc'[t[1]] = rpc[t[1]]
      BY <1>7, <1>8, <2>1, <2>3
    <3>2. task[t].quotes \in Piles /\ Known(task[t].quotes) /\ task[t].at \in Nat
      BY <2>1 DEF Stage, Fits, Steps
    <3>3. \A i \in DOMAIN task[t].quotes : rpc'[task[t].quotes[i].run] # "new"
      BY <1>7, <3>2, KnownKept
    <3>4. task[t].pc = "reason" => task[t].at <= Len(scores')
      BY <1>6, <2>1, <3>2 DEF Stage, Fits
    <3>5. task[t].pc \in {"read", "generate"} =>
             task[t].at \in DOMAIN scores' /\ scores'[task[t].at] = scores[task[t].at]
      BY <1>6, <2>1 DEF Stage, Fits
    <3>6. Fits(task[t])'
      BY <2>1, <3>1, <3>3, <3>4, <3>5 DEF Stage, Fits, Known
    <3>7. QED
      BY <2>1, <3>1, <3>6 DEF Stage, Ended
  <2>4. QED
    BY <2>2, <2>3
<1>11. Known(scores)'
  <2>1. ASSUME NEW i \in DOMAIN scores' PROVE rpc'[scores'[i].run] # "new"
    <3>1. CASE i \in DOMAIN scores
      BY <1>6, <1>7, <3>1, OnScore
    <3>2. CASE i \notin DOMAIN scores
      BY <1>6, <1>7, <3>2
    <3>3. QED
      BY <3>1, <3>2
  <2>2. QED
    BY <2>1 DEF Known
<1>12. Known(deals)'
  <2>1. Known(deals)
    BY DEF Shaped, Ordered
  <2>2. QED
    BY <1>1, <1>2, <1>7, <2>1, KnownKept DEF Known
<1>13. \A m \in Negotiators : \A p \in processed[m] : rpc'[p[1]] # "new"
  BY <1>7 DEF Shaped, Ordered, Typed
<1>14. up
  BY <1>1, <1>2 DEF Shaped, Ordered, Open
<1>15. Ordered'
  BY <1>2, <1>10, <1>11, <1>12, <1>13, <1>14 DEF Ordered
<1>16. Rewarding'
  BY <1>2, <1>7 DEF Shaped, Rewarding
<1>17. QED
  BY <1>2, <1>6, <1>7, <1>8, <1>9, <1>15, <1>16 DEF Shaped, first

LEMMA CallsShaped ==
    ASSUME Shaped, NEW r \in Runs, Buyer(r) \/ ReadDeals(r) \/ Credit(r)
    PROVE  /\ Shaped' /\ rpc[r] \in {"negotiators", "deals", "credit"}
           /\ UNCHANGED <<up, file, required, found, scores, deals, processed, task, choices, disturbed>>
           /\ \A s \in Runs \ {r} : rpc'[s] = rpc[s]
<1>1. /\ award \in [Runs -> [quote : Runs, next : Nat]]
      /\ pending \in [Negotiators -> Choice \cup {None}]
      /\ rpc \in [Runs -> Places] /\ required \in Seq(Request) /\ found \in Seq(Trace)
      /\ {"scouts", "deals", "credit", "done"} \subseteq Places \ {"new", "negotiators"}
  BY DEF Shaped, Typed, Places
<1>2. UNCHANGED <<up, file, required, found, scores, deals, processed, task, choices, disturbed>>
  BY DEF Buyer, ReadDeals, Credit, blackboard, cluster, actors
<1>3. rpc[r] \in {"negotiators", "deals", "credit"}
  BY DEF Buyer, ReadDeals, Credit
<1>4. up
  BY <1>1, <1>3 DEF Shaped, Ordered, Open
<1>5. Shaped'
  <2>1. CASE Buyer(r)
    <3>1. UNCHANGED <<award, pending, bandit>>
      BY <2>1 DEF Buyer, actors
    <3>2. /\ \A n \in Negotiators : Ended(<<r, n>>)
          /\ \E place \in {"deals", "done"} : rpc' = [rpc EXCEPT ![r] = place]
      BY <2>1 DEF Buyer
    <3>3. PICK place \in {"deals", "done"} : rpc' = [rpc EXCEPT ![r] = place]
      BY <3>2
    <3>4. place \in Places \ {"new", "negotiators"} /\ place # "credit"
      BY <1>1
    <3>5. QED
      BY <1>1, <1>2, <1>3, <1>4, <3>1, <3>2, <3>3, <3>4, CallShaped
  <2>2. CASE ReadDeals(r)
    <3>1. UNCHANGED <<pending, bandit>> /\ rpc[r] = "deals"
      BY <2>2 DEF ReadDeals, actors
    <3>2. CASE rpc' = [rpc EXCEPT ![r] = "done"] /\ award' = award
      BY <1>1, <1>2, <1>4, <3>1, <3>2, CallShaped
    <3>3. CASE \E i \in Rewarded(r) :
                 /\ rpc' = [rpc EXCEPT ![r] = "credit"]
                 /\ award' = [award EXCEPT ![r] = [quote |-> deals[i].run, next |-> 1]]
      <4>1. PICK i \in DOMAIN deals :
                 /\ rpc' = [rpc EXCEPT ![r] = "credit"]
                 /\ award' = [award EXCEPT ![r] = [quote |-> deals[i].run, next |-> 1]]
        BY <3>3 DEF Rewarded
      <4>2. deals \in Seq(Offers) /\ deals # <<>>
        BY DEF Shaped, Typed, Piles
      <4>3. deals[i] \in Offers
        BY <4>2
      <4>4. deals[i].run \in Runs
        BY <4>3 DEF Offers, Quote
      <4>5. Crew # <<>>
        BY <4>2 DEF Shaped, Rewarding
      <4>6. 1 \in DOMAIN Crew
        BY <4>5, CrewAssumption
      <4>7. award' \in [Runs -> [quote : Runs, next : Nat]] /\ award'[r].next \in DOMAIN Crew
            /\ \A s \in Runs \ {r} : award'[s] = award[s]
        BY <1>1, <4>1, <4>4, <4>6
      <4>8. QED
        BY <1>1, <1>2, <1>4, <3>1, <4>1, <4>2, <4>7, CallShaped
    <3>4. QED
      BY <2>2, <3>2, <3>3 DEF ReadDeals
  <2>3. CASE Credit(r)
    <3> DEFINE n == Crew[award[r].next]
    <3>1. rpc[r] = "credit"
      BY <2>3 DEF Credit
    <3>2. award[r].next \in DOMAIN Crew /\ deals # <<>>
      BY <3>1 DEF Shaped, Rewarding
    <3>3. n \in Negotiators
      BY <3>2 DEF Negotiators, Range
    <3>4. pending' \in [Negotiators -> Choice \cup {None}] /\ DOMAIN bandit' = DOMAIN bandit
      BY <1>1, <2>3, <3>3 DEF Credit, Update
    <3>5. CASE award[r].next = Len(Crew)
      <4>1. rpc' = [rpc EXCEPT ![r] = "done"] /\ award' = award
        BY <2>3, <3>5 DEF Credit
      <4>2. QED
        BY <1>1, <1>2, <1>4, <3>1, <3>4, <4>1, CallShaped
    <3>6. CASE award[r].next # Len(Crew)
      <4>1. award' = [award EXCEPT ![r].next = award[r].next + 1] /\ rpc' = rpc
        BY <2>3, <3>6 DEF Credit
      <4>2. award[r].next + 1 \in DOMAIN Crew /\ award[r].next \in Nat
        BY <1>1, <3>2, <3>6, CrewAssumption
      <4>3. award' \in [Runs -> [quote : Runs, next : Nat]]
            /\ award'[r].next = award[r].next + 1 /\ \A s \in Runs \ {r} : award'[s] = award[s]
        BY <1>1, <4>1, <4>2
      <4>4. rpc' = [rpc EXCEPT ![r] = "credit"]
        BY <1>1, <3>1, <4>1
      <4>5. award'[r].next \in DOMAIN Crew
        BY <4>2, <4>3
      <4> HIDE DEF n
      <4>6. QED
        BY <1>1, <1>2, <1>4, <3>1, <3>2, <3>4, <4>3, <4>4, <4>5, CallShaped
    <3>7. QED
      BY <3>5, <3>6
  <2>4. QED
    BY <2>1, <2>2, <2>3
<1>6. \A s \in Runs \ {r} : rpc'[s] = rpc[s]
  BY <1>1 DEF Buyer, ReadDeals, Credit
<1>7. QED
  BY <1>2, <1>3, <1>5, <1>6

LEMMA ClosedEnds ==
    ASSUME Shaped, Open = {}, NEW t \in Tasks
    PROVE  Ended(t) /\ task[t].quotes = <<>> /\ DOMAIN task[t].quotes = {}
<1>1. Ended(t) /\ Stage(t)
  BY StepFacts DEF Open
<1>2. task[t].quotes = <<>>
  BY <1>1 DEF Stage, Fits, Ended
<1>3. QED
  BY <1>1, <1>2

LEMMA StartShaped ==
    ASSUME Shaped, Start
    PROVE  Shaped' /\ Open' = {}
<1> DEFINE none == <<>>
<1>1. /\ ~up /\ scores' = none /\ deals' = none /\ required' = none /\ found' = none
      /\ Fresh(Negotiators) /\ UNCHANGED <<rpc, award, task, file, disturbed>>
  BY DEF Start
<1>2. /\ none \in Seq(Scored) /\ none \in Piles /\ none \in Seq(Request) /\ none \in Seq(Trace)
      /\ DOMAIN none = {}
  BY DEF Piles
<1>3. Open = {} /\ Open' = {}
  BY <1>1 DEF Shaped, Ordered, Open
<1> HIDE DEF none
<1>4. Typed'
  <2>1. /\ processed' \in [Negotiators -> SUBSET (Runs \X Suppliers)]
        /\ pending' \in [Negotiators -> Choice \cup {None}]
        /\ choices' \in [Negotiators -> Nat] /\ DOMAIN bandit' = Negotiators \cup {Driver}
    BY <1>1, FreshTyped
  <2>2. QED
    BY <1>1, <1>2, <2>1 DEF Shaped, Typed
<1>5. ASSUME NEW t \in Tasks PROVE Stage(t)'
  <2>1. Ended(t) /\ Stage(t)
    BY <1>3, ClosedEnds, StepFacts
  <2>2. QED
    BY <1>1, <2>1 DEF Stage, Fits, Known, Ended
<1>6. Known(scores)' /\ Known(deals)'
  BY <1>1, <1>2 DEF Known
<1>7. \A n \in Negotiators : \A p \in processed'[n] : rpc'[p[1]] # "new"
  <2>1. \A n \in Negotiators : processed'[n] \subseteq processed[n]
    BY <1>1, FreshTyped
  <2>2. QED
    BY <1>1, <2>1 DEF Shaped, Ordered
<1>8. Ordered'
  BY <1>3, <1>5, <1>6, <1>7 DEF Ordered
<1>9. Rewarding'
  <2>1. \A r \in Runs : rpc[r] # "credit"
    BY <1>3 DEF Open
  <2>2. QED
    BY <1>1, <2>1 DEF Rewarding, none
<1>10. QED
  BY <1>3, <1>4, <1>8, <1>9 DEF Shaped

LEMMA ShutdownShaped ==
    ASSUME Shaped, Shutdown
    PROVE  Shaped' /\ Open' = {}
<1>1. /\ UNCHANGED <<required, found, scores, deals, rpc, award, processed, task, pending, choices>>
      /\ Open = {} /\ DOMAIN bandit' = DOMAIN bandit
  BY DEF Shutdown, blackboard
<1>2. Typed'
  BY <1>1 DEF Shaped, Typed
<1>3. \A t \in Tasks : Stage(t)'
  BY <1>1 DEF Shaped, Ordered, Stage, Fits, Known, Ended
<1>4. Ordered'
  BY <1>1, <1>3 DEF Shaped, Ordered, Known, Open
<1>5. Rewarding' /\ Open' = {}
  BY <1>1 DEF Shaped, Rewarding, Open
<1>6. QED
  BY <1>2, <1>4, <1>5 DEF Shaped

LEMMA CrashShaped ==
    ASSUME Shaped, NEW n \in Negotiators, Crash(n)
    PROVE  Shaped'
<1> DEFINE first == [Idle EXCEPT !.pc = "perceive"]
<1>1. /\ up /\ Fresh({n})
      /\ task' = [t \in Tasks |-> IF t[2] = n /\ ~Ended(t) THEN first ELSE task[t]]
      /\ UNCHANGED <<required, found, scores, deals, decision, up, rpc, award>>
  BY DEF Crash, blackboard
<1>2. task \in [Tasks -> Steps]
  BY DEF Shaped, Typed
<1>3. first \in Steps /\ first.pc = "perceive" /\ DOMAIN first.quotes = {}
  BY BareSteps
<1> HIDE DEF first
<1>4. task' \in [Tasks -> Steps]
  BY <1>1, <1>2, <1>3
<1>5. Typed'
  <2>1. /\ processed' \in [Negotiators -> SUBSET (Runs \X Suppliers)]
        /\ pending' \in [Negotiators -> Choice \cup {None}]
        /\ choices' \in [Negotiators -> Nat] /\ DOMAIN bandit' = Negotiators \cup {Driver}
    BY <1>1, FreshTyped
  <2>2. QED
    BY <1>1, <1>2, <1>4, <2>1 DEF Shaped, Typed
<1>6. ASSUME NEW t \in Tasks PROVE Stage(t)'
  <2>1. Stage(t)
    BY StepFacts
  <2>2. CASE t[2] = n /\ ~ Ended(t)
    <3>1. task'[t] = first
      BY <1>1, <2>2
    <3>2. rpc[t[1]] = "negotiators"
      BY <2>2, StepFacts
    <3>3. QED
      BY <1>1, <1>3, <3>1, <3>2 DEF Stage, Fits, Known, Ended
  <2>3. CASE ~ (t[2] = n /\ ~ Ended(t))
    <3>1. task'[t] = task[t]
      BY <1>1, <2>3
    <3>2. QED
      BY <1>1, <2>1, <3>1 DEF Stage, Fits, Known, Ended
  <2>4. QED
    BY <2>2, <2>3
<1>7. \A m \in Negotiators : \A p \in processed'[m] : rpc'[p[1]] # "new"
  <2>1. \A m \in Negotiators : processed'[m] \subseteq processed[m]
    BY <1>1, FreshTyped
  <2>2. QED
    BY <1>1, <2>1 DEF Shaped, Ordered
<1>8. Ordered' /\ Rewarding'
  BY <1>1, <1>6, <1>7 DEF Shaped, Ordered, Rewarding, Known
<1>9. QED
  BY <1>1, <1>2, <1>5, <1>8 DEF Shaped

LEMMA StutterShaped ==
    ASSUME Shaped, UNCHANGED vars
    PROVE  Shaped'
<1>1. UNCHANGED <<required, found, scores, deals, processed, task, pending, bandit, choices,
                  up, rpc, award>>
  BY DEF vars, blackboard, actors, cluster
<1>2. Typed'
  BY <1>1 DEF Shaped, Typed
<1>3. \A t \in Tasks : Stage(t)'
  BY <1>1 DEF Shaped, Ordered, Stage, Fits, Known, Ended
<1>4. Ordered' /\ Rewarding'
  BY <1>1, <1>3 DEF Shaped, Ordered, Rewarding, Known, Open
<1>5. QED
  BY <1>2, <1>4 DEF Shaped

LEMMA ShapedKept ==
    ASSUME Shaped, [Next]_vars
    PROVE  Shaped'
  BY StartShaped, ShutdownShaped, CrashShaped, SubmitShaped, ScoutShaped, EvaluateShaped, CallsShaped,
     StepShaped, StutterShaped
  DEF Next, CallOf

LEMMA ShapedFirst == Init => Shaped
<1> SUFFICES ASSUME Init PROVE Shaped
  OBVIOUS
<1> DEFINE none == <<>>
<1>1. /\ none \in Seq(Scored) /\ none \in Piles /\ none \in Seq(Request) /\ none \in Seq(Trace)
      /\ DOMAIN none = {}
  BY DEF Piles
<1>2. Idle = [Idle EXCEPT !.pc = "idle"]
  BY DEF Idle
<1>3. scores = none /\ deals = none /\ required = none /\ found = none
  BY DEF Init
<1> HIDE DEF none
<1>4. Idle \in Steps /\ Idle.pc = "idle" /\ DOMAIN Idle.quotes = {} /\ Idle.quotes = <<>>
  BY <1>2, BareSteps
<1>5. Typed
  <2>1. DOMAIN bandit = Negotiators \cup {Driver}
    BY DEF Init
  <2>2. award \in [Runs -> [quote : Runs, next : Nat]]
    BY DEF Init
  <2>3. rpc \in [Runs -> Places]
    BY DEF Init, Places
  <2>4. pending \in [Negotiators -> Choice \cup {None}] /\ choices \in [Negotiators -> Nat]
        /\ processed \in [Negotiators -> SUBSET (Runs \X Suppliers)]
    BY DEF Init
  <2>5. task \in [Tasks -> Steps]
    BY <1>4 DEF Init
  <2>6. QED
    BY <1>1, <1>3, <2>1, <2>2, <2>3, <2>4, <2>5 DEF Typed
<1>6. \A t \in Tasks : Stage(t)
  BY <1>1, <1>4 DEF Init, Stage, Fits, Known, Ended, Tasks
<1>7. Ordered
  BY <1>1, <1>3, <1>6 DEF Init, Ordered, Known, Open
<1>8. Rewarding
  BY <1>3 DEF Init, Rewarding, none
<1>9. QED
  BY <1>5, <1>7, <1>8 DEF Shaped

(***************************************************************************)
(* What a quote of the model rests on.                                     *)
(***************************************************************************)
LEMMA BackedAppend ==
    ASSUME NEW quotes \in Piles, NEW quote \in Offers, NEW lists, NEW requests,
           Backed(quotes, lists, requests), Backed(<<quote>>, lists, requests)
    PROVE  Backed(Append(quotes, quote), lists, requests)
<1> DEFINE R == Offers
           new == Append(quotes, quote)
           one == <<quote>>
<1>1. quotes \in Seq(R) /\ quote \in R
  BY DEF Piles
<1>2. one[1] = quote /\ 1 \in DOMAIN one
  OBVIOUS
<1> HIDE DEF R, one
<1>3. /\ DOMAIN new = 1..(Len(quotes) + 1) /\ DOMAIN quotes = 1..Len(quotes) /\ Len(quotes) \in Nat
      /\ \A i \in 1..(Len(quotes) + 1) : new[i] = IF i = Len(quotes) + 1 THEN quote ELSE quotes[i]
  BY <1>1
<1> HIDE DEF new
<1>4. Backed(one, lists, requests)
  BY DEF one
<1>5. ASSUME NEW i \in DOMAIN new, new[i].neuro
      PROVE  /\ Listed(lists, new[i].run, new[i].pool)
             /\ \E budget \in Nat : Given(requests, new[i].run, budget) /\ new[i].price * new[i].pool.quantity <= budget
  <2>1. CASE i = Len(quotes) + 1
    <3>1. new[i] = one[1]
      BY <1>2, <1>3, <2>1
    <3>2. QED
      BY <1>2, <1>4, <1>5, <3>1 DEF Backed
  <2>2. CASE i # Len(quotes) + 1
    <3>1. i \in DOMAIN quotes /\ new[i] = quotes[i]
      BY <1>3, <2>2
    <3>2. QED
      BY <1>5, <3>1 DEF Backed
  <2>3. QED
    BY <2>1, <2>2
<1>6. Backed(new, lists, requests)
  BY <1>5 DEF Backed
<1>7. QED
  BY <1>6 DEF new

LEMMA BackedTail ==
    ASSUME NEW quotes \in Piles, quotes # <<>>, NEW lists, NEW requests,
           Backed(quotes, lists, requests)
    PROVE  Backed(Tail(quotes), lists, requests) /\ Backed(<<quotes[1]>>, lists, requests)
<1> DEFINE R == Offers
           one == <<quotes[1]>>
<1>1. quotes \in Seq(R)
  BY DEF Piles
<1>2. DOMAIN one = {1} /\ one[1] = quotes[1]
  OBVIOUS
<1> HIDE DEF R, one
<1>3. /\ Len(quotes) \in Nat \ {0} /\ DOMAIN quotes = 1..Len(quotes)
      /\ DOMAIN Tail(quotes) = 1..(Len(quotes) - 1)
      /\ \A i \in 1..(Len(quotes) - 1) : Tail(quotes)[i] = quotes[i + 1]
  BY <1>1
<1>4. \A i \in DOMAIN Tail(quotes) : \E j \in DOMAIN quotes : Tail(quotes)[i] = quotes[j]
  BY <1>3
<1>5. \A i \in DOMAIN one : \E j \in DOMAIN quotes : one[i] = quotes[j]
  BY <1>2, <1>3
<1>6. Backed(Tail(quotes), lists, requests)
  BY <1>4 DEF Backed
<1>7. Backed(one, lists, requests)
  BY <1>5 DEF Backed
<1>8. QED
  BY <1>6, <1>7 DEF one

\* The budget a positive total is within is not a missing one.
LEMMA TakenBacked ==
    ASSUME Shaped, NEW t \in Tasks, task[t].pc = "generate", Ready(task[t], scores, found, required),
           NEW quote \in Offers, Takes(t, quote)
    PROVE  Backed(<<quote>>, found, required)
<1> DEFINE step == task[t]
           one == <<quote>>
           sum == quote.price * step.pool.quantity
<1>1. DOMAIN one = {1} /\ one[1] = quote
  OBVIOUS
<1>2. ASSUME quote.neuro
      PROVE  /\ Listed(found, quote.run, quote.pool)
             /\ \E budget \in Nat : Given(required, quote.run, budget) /\ quote.price * quote.pool.quantity <= budget
  <2>1. /\ quote.run = scores[step.at].run /\ quote.pool = step.pool /\ quote.price \in Nat \ {0}
        /\ sum <= step.budget
    BY <1>2 DEF Takes
  <2>2. step.pool.quantity \in Nat \ {0} /\ step.budget \in Nat
    BY Generating DEF Pool, Shaped, Typed, Steps
  <2>3. sum \in Nat /\ sum >= 1
    <3>1. \A a, b \in Nat \ {0} : a * b \in Nat /\ a * b >= 1
      OBVIOUS
    <3>2. QED
      BY <2>1, <2>2, <3>1
  <2> HIDE DEF sum
  <2>4. step.budget # 0
    BY <2>1, <2>2, <2>3
  <2>5. Listed(found, quote.run, quote.pool) /\ Given(required, quote.run, step.budget)
    BY <2>1, <2>4 DEF Ready
  <2>6. QED
    BY <2>1, <2>2, <2>5 DEF sum
<1> HIDE DEF one
<1>3. Backed(one, found, required)
  BY <1>1, <1>2 DEF Backed
<1>4. QED
  BY <1>3 DEF one

\* Lists and requirements are only added to while a cluster is up.
Grown(old, new) == \A k \in DOMAIN old : k \in DOMAIN new /\ new[k] = old[k]

LEMMA BackedGrown ==
    ASSUME NEW quotes, NEW lists, NEW requests, NEW longer, NEW more, Grown(lists, longer),
           Grown(requests, more), Backed(quotes, lists, requests)
    PROVE  Backed(quotes, longer, more)
  BY DEF Backed, Listed, Given, Grown

LEMMA ReadyGrown ==
    ASSUME NEW step, NEW on, NEW further, NEW lists, NEW requests, NEW longer, NEW more, Grown(on, further),
           Grown(lists, longer), Grown(requests, more), step.pc = "generate" => step.at \in DOMAIN on,
           Ready(step, on, lists, requests)
    PROVE  Ready(step, further, longer, more)
  BY DEF Ready, Listed, Given, Grown

LEMMA GrownVerified ==
    ASSUME Shaped, Verified, Grown(scores, scores'), Grown(found, found'), Grown(required, required'),
           deals' = deals,
           \A t \in Tasks : \/ task'[t] = task[t]
                            \/ task'[t].pc = "perceive" /\ DOMAIN task'[t].quotes = {}
    PROVE  Verified'
<1>1. Backed(deals', found', required')
  BY BackedGrown DEF Verified
<1>2. ASSUME NEW t \in Tasks
      PROVE  Ready(task'[t], scores', found', required') /\ Backed(task'[t].quotes, found', required')
  <2>1. CASE task'[t] = task[t]
    <3> DEFINE step == task[t]
    <3>1. step.pc = "generate" => step.at \in DOMAIN scores
      BY StepFacts DEF Stage, Fits
    <3>2. Ready(step, scores, found, required) /\ Backed(step.quotes, found, required)
      BY DEF Verified
    <3> HIDE DEF step
    <3>3. Ready(step, scores', found', required')
      BY <3>1, <3>2, ReadyGrown
    <3>4. Backed(step.quotes, found', required')
      BY <3>2, BackedGrown
    <3>5. QED
      BY <2>1, <3>3, <3>4 DEF step
  <2>2. CASE task'[t].pc = "perceive" /\ DOMAIN task'[t].quotes = {}
    BY <2>2 DEF Ready, Backed
  <2>3. QED
    BY <2>1, <2>2
<1>3. QED
  BY <1>1, <1>2 DEF Verified

LEMMA StepVerified ==
    ASSUME Shaped, Verified, NEW t \in Tasks, StepOf(t)
    PROVE  Verified'
<1> DEFINE next == task'[t]
           old == task[t].quotes
<1>1. /\ task[t] \in Steps /\ old \in Piles /\ deals \in Piles /\ task \in [Tasks -> Steps]
      /\ Ready(task[t], scores, found, required) /\ Backed(old, found, required)
      /\ Backed(deals, found, required)
  BY DEF Shaped, Typed, Steps, Verified
<1>2. UNCHANGED <<required, found, scores>>
  BY DEF StepOf, Perceive, Reason, Skip, Raise, Select, Accept, Retry, FallBack, Act, blackboard, cluster
<1>3. Backed(<<>>, found, required)
  BY DEF Backed
<1>4. /\ Goes(t) /\ Ready(next, scores, found, required) /\ Backed(next.quotes, found, required)
      /\ Backed(deals', found, required)
  <2>1. CASE Perceive(t)
    <3>1. Goes(t) /\ next.pc = "reason" /\ next.quotes = old /\ deals' = deals
      BY <2>1, PerceiveIs DEF Perceive, blackboard
    <3>2. QED
      BY <1>1, <3>1 DEF Ready
  <2>2. CASE Reason(t) \/ Skip(t)
    <3>1. /\ deals' = deals /\ Goes(t) /\ next.pc \in {"act", "read"}
          /\ next.quotes = <<>> \/ next.quotes = old
      BY <2>2, ReasonIs, SkipIs DEF Reason, Skip, Continues, blackboard
    <3>2. QED
      BY <1>1, <1>3, <3>1 DEF Ready
  <2>3. CASE Raise(t)
    <3>1. Goes(t) /\ next.pc = "done" /\ next.quotes = <<>> /\ deals' = deals
      BY <2>3, RaiseIs DEF Raise, blackboard
    <3>2. QED
      BY <1>1, <1>3, <3>1 DEF Ready
  <2>4. CASE Select(t)
    <3>1. /\ task[t].pc = "read" /\ Goes(t) /\ next.at = task[t].at /\ next.quotes = old /\ deals' = deals
      BY <2>4, SelectIs DEF Select, blackboard
    <3>2. PICK pool \in Quotable(task[t].at), budget \in BudgetsOf(scores[task[t].at].run) \ {Null} :
             next.pool = pool /\ next.budget = budget
      BY <2>4, SelectIs
    <3>3. task[t].at \in DOMAIN scores
      BY <3>1, StepFacts DEF Stage, Fits
    <3> DEFINE run == scores[task[t].at].run
    <3>4. Listed(found, run, pool) /\ (budget = 0 \/ Given(required, run, budget))
      BY <3>3, OnRead
    <3> HIDE DEF run, next
    <3>5. Ready(next, scores, found, required)
      BY <3>1, <3>2, <3>4 DEF Ready, run
    <3>6. QED
      BY <1>1, <3>1, <3>5
  <2>5. CASE Retry(t)
    <3>1. /\ task[t].pc = "generate" /\ Goes(t) /\ next.at = task[t].at /\ next.quotes = old
          /\ next.pool = task[t].pool /\ next.budget = task[t].budget /\ deals' = deals
      BY <2>5, RetryIs DEF Retry, blackboard
    <3>2. QED
      BY <1>1, <3>1 DEF Ready
  <2>6. CASE Accept(t) \/ FallBack(t)
    <3>1. PICK quote \in Offers : Takes(t, quote)
      BY <2>6, AcceptIs, FallBackIs
    <3>2. task[t].pc = "generate" /\ deals' = deals
      BY <2>6 DEF Accept, FallBack, blackboard
    <3>3. Backed(<<quote>>, found, required)
      BY <1>1, <3>1, <3>2, TakenBacked
    <3>4. Goes(t) /\ next.quotes = Append(old, quote) /\ next.pc \in {"act", "read"}
      BY <3>1 DEF Takes, Continues
    <3> HIDE DEF old, next
    <3>5. Backed(Append(old, quote), found, required)
      BY <1>1, <3>3, BackedAppend
    <3>6. Ready(next, scores, found, required)
      BY <3>4 DEF Ready
    <3>7. QED
      BY <1>1, <3>2, <3>4, <3>5, <3>6
  <2>7. CASE Act(t)
    <3>1. /\ Goes(t) /\ next.pc \in {"act", "done"}
          /\ \/ next.quotes = <<>> /\ deals' = deals
             \/ /\ old # <<>> /\ next.quotes = Tail(old)
                /\ deals' = Append(deals, old[1]) /\ old[1] \in Offers
      BY <2>7, ActIs
    <3>2. Ready(next, scores, found, required)
      BY <3>1 DEF Ready
    <3>3. CASE next.quotes = <<>> /\ deals' = deals
      BY <1>1, <1>3, <3>1, <3>2, <3>3
    <3>4. CASE /\ old # <<>> /\ next.quotes = Tail(old)
               /\ deals' = Append(deals, old[1]) /\ old[1] \in Offers
      <4> HIDE DEF old, next
      <4>1. Backed(Tail(old), found, required) /\ Backed(<<old[1]>>, found, required)
        BY <1>1, <3>4, BackedTail
      <4> DEFINE quote == old[1]
      <4>2. quote \in Offers /\ Backed(<<quote>>, found, required)
        BY <3>4, <4>1
      <4> HIDE DEF quote
      <4>3. Backed(Append(deals, quote), found, required)
        BY <1>1, <4>2, BackedAppend
      <4>4. QED
        BY <3>1, <3>2, <3>4, <4>1, <4>3 DEF quote
    <3>5. QED
      BY <3>1, <3>3, <3>4
  <2>8. QED
    BY <2>1, <2>2, <2>3, <2>4, <2>5, <2>6, <2>7 DEF StepOf
<1>5. ASSUME NEW u \in Tasks
      PROVE  Ready(task'[u], scores, found, required) /\ Backed(task'[u].quotes, found, required)
  <2>1. CASE u = t
    BY <1>4, <2>1
  <2>2. CASE u # t
    <3>1. task'[u] = task[u]
      BY <1>1, <1>4, <2>2 DEF Goes
    <3>2. QED
      BY <3>1 DEF Verified
  <2>3. QED
    BY <2>1, <2>2
<1>6. QED
  BY <1>2, <1>4, <1>5 DEF Verified

LEMMA VerifiedKept ==
    ASSUME Shaped, Verified, [Next]_vars
    PROVE  Verified'
<1>1. CASE Start
  <2> DEFINE none == <<>>
  <2>1. deals' = none /\ task' = task /\ Open = {}
    BY <1>1 DEF Start, Shaped, Ordered
  <2>2. DOMAIN none = {}
    OBVIOUS
  <2> HIDE DEF none
  <2>3. Backed(deals', found', required')
    BY <2>1, <2>2 DEF Backed
  <2>4. ASSUME NEW t \in Tasks
        PROVE  Ready(task'[t], scores', found', required') /\ Backed(task'[t].quotes, found', required')
    <3>1. Ended(t) /\ DOMAIN task[t].quotes = {} /\ task'[t] = task[t]
      BY <2>1, ClosedEnds
    <3>2. QED
      BY <3>1 DEF Ended, Ready, Backed
  <2>5. QED
    BY <2>3, <2>4 DEF Verified
<1>2. ASSUME NEW t \in Tasks, StepOf(t) PROVE Verified'
  BY <1>2, StepVerified
<1>3. CASE UNCHANGED <<required, found, scores, deals, task>>
  BY <1>3, GrownVerified DEF Grown
<1>4. CASE Shutdown \/ UNCHANGED vars
  BY <1>3, <1>4 DEF Shutdown, vars, blackboard, actors
<1>5. ASSUME NEW r \in Runs, Buyer(r) \/ ReadDeals(r) \/ Credit(r) PROVE Verified'
  BY <1>3, <1>5, CallsShaped
<1>6. ASSUME NEW r \in Runs, Scout(r) PROVE Verified'
  <2>1. UNCHANGED <<required, scores, deals, task>> /\ Grown(found, found')
    BY <1>6, ScoutShaped DEF Scout, actors, Grown
  <2>2. QED
    BY <2>1, GrownVerified DEF Grown
<1>7. ASSUME NEW r \in Runs, Submit(r) PROVE Verified'
  <2>1. UNCHANGED <<found, scores, deals, task>>
    BY <1>7 DEF Submit, actors
  <2>2. PICK b \in Budgets(r) : required' = Append(required, [run |-> r, budget |-> b])
    BY <1>7 DEF Submit
  <2>3. Grown(required, required')
    <3> DEFINE R == Request
               one == [run |-> r, budget |-> b]
    <3>1. required \in Seq(R) /\ one \in R
      BY PoolAssumption DEF Shaped, Typed, Request
    <3> HIDE DEF R, one
    <3>2. /\ DOMAIN required = 1..Len(required) /\ Len(required) \in Nat
          /\ DOMAIN Append(required, one) = 1..(Len(required) + 1)
          /\ \A k \in 1..Len(required) : Append(required, one)[k] = required[k]
      BY <3>1
    <3>3. QED
      BY <2>2, <3>2 DEF Grown, one
  <2>4. QED
    BY <2>1, <2>3, GrownVerified DEF Grown
<1>8. ASSUME NEW r \in Runs, Evaluate(r) PROVE Verified'
  <2>1. UNCHANGED <<found, required, deals>> /\ Grown(scores, scores')
    BY <1>8, EvaluateShaped DEF Evaluate, Grown
  <2>2. ASSUME NEW t \in Tasks
        PROVE  task'[t] = task[t] \/ (task'[t].pc = "perceive" /\ DOMAIN task'[t].quotes = {})
    BY <1>8, EvaluateShaped, BareSteps
  <2>3. QED
    BY <2>1, <2>2, GrownVerified DEF Grown
<1>9. ASSUME NEW n \in Negotiators, Crash(n) PROVE Verified'
  <2>1. UNCHANGED <<found, required, scores, deals>>
    BY <1>9 DEF Crash, blackboard
  <2>2. ASSUME NEW t \in Tasks
        PROVE  task'[t] = task[t] \/ (task'[t].pc = "perceive" /\ DOMAIN task'[t].quotes = {})
    <3>1. task'[t] = task[t] \/ task'[t] = [Idle EXCEPT !.pc = "perceive"]
      BY <1>9 DEF Crash
    <3>2. QED
      BY <3>1, BareSteps
  <2>3. QED
    BY <2>1, <2>2, GrownVerified DEF Grown
<1>10. QED
  BY <1>1, <1>2, <1>4, <1>5, <1>6, <1>7, <1>8, <1>9 DEF Next, CallOf

LEMMA VerifiedFirst == Init => Verified
<1> SUFFICES ASSUME Init PROVE Verified
  OBVIOUS
<1> DEFINE none == <<>>
<1>1. deals = none /\ DOMAIN none = {}
  BY DEF Init
<1> HIDE DEF none
<1>2. Idle.pc = "idle" /\ DOMAIN Idle.quotes = {}
  BY DEF Idle
<1>3. \A t \in Tasks : task[t] = Idle
  BY DEF Init
<1>4. QED
  BY <1>1, <1>2, <1>3 DEF Verified, Ready, Backed

\* No quote of the language model is on DEAL, where the buyer finds it, unless
\* it is within the kernel's limits and, for the quantity of a list of its own
\* run that has its supplier, within a budget its own run asked with, whatever
\* runs, retries and restarts of negotiators overlap and whatever the model
\* made of the scouts' lists.
THEOREM KernelIsRoot == Spec => []OnlyVerified
<1>1. Shaped /\ Verified => OnlyVerified
  <2> SUFFICES ASSUME Shaped, Verified, NEW i \in DOMAIN deals, deals[i].neuro
               PROVE  /\ deals[i].price <= MaxPrice /\ deals[i].lead \in 1..MaxLead
                      /\ \E k \in Lists(deals[i].run) : found[k].pool = deals[i].pool
                      /\ deals[i].sup \in Range(deals[i].pool.sups)
                      /\ \E k \in DOMAIN required :
                            /\ required[k].run = deals[i].run
                            /\ deals[i].price * deals[i].pool.quantity <= required[k].budget
    BY DEF OnlyVerified
  <2> DEFINE deal == deals[i]
  <2>1. deal \in Offers
    BY DEF Shaped, Typed, Piles
  <2>2. /\ deal.price <= MaxPrice /\ deal.lead <= MaxLead /\ deal.lead \in Nat \ {0}
        /\ deal.sup \in Range(deal.pool.sups) /\ deal.pool \in Pool
    BY <2>1 DEF Offers, Quote
  <2>3. /\ Listed(found, deal.run, deal.pool)
        /\ \E budget \in Nat : /\ Given(required, deal.run, budget)
                               /\ deal.price * deal.pool.quantity <= budget
    BY DEF Verified, Backed
  <2> HIDE DEF deal
  <2>4. deal.lead \in 1..MaxLead
    BY <2>2, LimitAssumption
  <2>5. \E k \in Lists(deal.run) : found[k].pool = deal.pool
    BY <2>2, <2>3, NoneAssumption DEF Listed, Lists
  <2>6. \E k \in DOMAIN required : /\ required[k].run = deal.run
                                   /\ deal.price * deal.pool.quantity <= required[k].budget
    BY <2>3 DEF Given
  <2>7. QED
    BY <2>2, <2>4, <2>5, <2>6 DEF deal
<1>2. QED
  BY <1>1, ShapedFirst, ShapedKept, VerifiedFirst, VerifiedKept, PTL DEF Spec

(***************************************************************************)
(* Every choice is rewarded at most once.                                  *)
(***************************************************************************)
LEMMA FreshNumbered ==
    ASSUME Shaped, file = None, NEW crew \in SUBSET Negotiators, Fresh(crew), NEW n \in crew
    PROVE  Numbered(n)'
<1> DEFINE none == <<>>
<1>1. bandit'[n] = none /\ pending'[n] = None
  BY DEF Fresh, Loaded, Shaped, Typed
<1>2. none \in Seq(Choice) /\ DOMAIN none = {}
  OBVIOUS
<1> HIDE DEF none
<1>3. QED
  BY <1>1, <1>2 DEF Numbered

LEMMA UpdateNumbered ==
    ASSUME Shaped, NEW n \in Negotiators, Numbered(n), Update(n), UNCHANGED choices
    PROVE  Numbered(n)'
<1> DEFINE old == bandit[n]
           last == pending[n]
<1>1. old \in Seq(Choice) /\ pending'[n] = None
      /\ bandit'[n] = IF last = None THEN old ELSE Append(old, last)
  BY DEF Numbered, Update, Shaped, Typed
<1>2. CASE last = None
  BY <1>1, <1>2 DEF Numbered
<1>3. CASE last # None
  <2> DEFINE R == Choice
             new == Append(old, last)
  <2>1. last \in R /\ old \in Seq(R)
    BY <1>1, <1>3 DEF Shaped, Typed
  <2> HIDE DEF R, old, last
  <2>2. /\ new \in Seq(R) /\ DOMAIN new = 1..(Len(old) + 1) /\ DOMAIN old = 1..Len(old)
        /\ Len(old) \in Nat
        /\ \A i \in 1..(Len(old) + 1) : new[i] = IF i = Len(old) + 1 THEN last ELSE old[i]
    BY <2>1
  <2>3. /\ \A i \in DOMAIN old : old[i].no <= choices[n]
        /\ \A i, j \in DOMAIN old : old[i].no = old[j].no => i = j
        /\ last.no <= choices[n] /\ \A i \in DOMAIN old : old[i].no # last.no
    BY <1>3 DEF Numbered, old, last
  <2>4. bandit'[n] = new
    BY <1>1, <1>3
  <2> HIDE DEF new
  <2>5. \A i \in DOMAIN new : new[i].no <= choices[n]
    BY <2>2, <2>3
  <2>6. \A i, j \in DOMAIN new : new[i].no = new[j].no => i = j
    BY <2>2, <2>3
  <2>7. QED
    BY <1>1, <2>2, <2>4, <2>5, <2>6 DEF Numbered, R
<1>4. QED
  BY <1>2, <1>3

LEMMA SelectNumbered ==
    ASSUME Shaped, NEW t \in Tasks, Select(t), Numbered(t[2])
    PROVE  Numbered(t[2])'
<1> DEFINE n == t[2]
<1>1. n \in Negotiators /\ choices[n] \in Nat
  BY StepFacts DEF Shaped, Typed
<1>2. choices'[n] = choices[n] + 1 /\ pending'[n] \in Choice /\ pending'[n].no = choices[n] + 1
      /\ bandit' = bandit
  BY <1>1, SelectIs DEF Shaped, Typed, Select
<1>3. \A i \in DOMAIN bandit[n] : bandit[n][i].no \in Nat /\ bandit[n][i].no <= choices[n]
  <2>1. bandit[n] \in Seq(Choice)
    BY DEF Numbered
  <2>2. \A i \in DOMAIN bandit[n] : bandit[n][i] \in Choice
    BY <2>1
  <2>3. QED
    BY <2>2 DEF Choice, Numbered
<1>4. \A i \in DOMAIN bandit[n] : bandit[n][i].no <= choices'[n] /\ bandit[n][i].no # pending'[n].no
  BY <1>1, <1>2, <1>3
<1>5. QED
  BY <1>1, <1>2, <1>4 DEF Numbered

LEMMA LearningKept ==
    ASSUME Shaped, Learning, [Next]_vars
    PROVE  Learning'
<1>1. Driver \notin Negotiators /\ file = None /\ bandit[Driver] = None
  BY CrewAssumption DEF Learning
<1>2. CASE Start
  <2>1. Fresh(Negotiators) /\ file' = file
    BY <1>2 DEF Start
  <2>2. \A n \in Negotiators : Numbered(n)'
    BY <1>1, <2>1, FreshNumbered
  <2>3. bandit'[Driver] = None
    BY <1>1, <2>1 DEF Fresh, Shaped, Typed
  <2>4. QED
    BY <1>1, <2>1, <2>2, <2>3 DEF Learning
<1>3. CASE Shutdown
  BY <1>1, <1>3 DEF Shutdown, Saved, Learning, Shaped, Typed
<1>4. ASSUME NEW n \in Negotiators, Crash(n) PROVE Learning'
  <2>1. Fresh({n}) /\ UNCHANGED <<file, up>> /\ up
    BY <1>4 DEF Crash
  <2>2. Numbered(n)'
    BY <1>1, <2>1, FreshNumbered
  <2>3. ASSUME NEW m \in Negotiators, m # n PROVE Numbered(m)'
    <3>1. bandit'[m] = bandit[m] /\ pending'[m] = pending[m] /\ choices'[m] = choices[m]
      BY <2>1, <2>3 DEF Fresh, Shaped, Typed
    <3>2. QED
      BY <2>1, <3>1 DEF Learning, Numbered
  <2>4. bandit'[Driver] = None
    BY <1>1, <2>1 DEF Fresh, Shaped, Typed
  <2>5. QED
    BY <1>1, <2>1, <2>2, <2>3, <2>4 DEF Learning
<1>5. ASSUME NEW r \in Runs, Credit(r) PROVE Learning'
  <2>1. rpc[r] = "credit" /\ Crew[award[r].next] \in Negotiators
    BY <1>5 DEF Credit, Shaped, Rewarding, Negotiators, Range
  <2>2. PICK n \in Negotiators : Update(n)
    BY <1>5, <2>1 DEF Credit
  <2>3. n \in Negotiators /\ UNCHANGED <<up, file, choices>>
    BY <1>5 DEF Credit, cluster
  <2>4. up
    BY <2>1 DEF Shaped, Ordered, Open
  <2>5. Numbered(n)'
    BY <2>2, <2>3, <2>4, UpdateNumbered DEF Learning
  <2>6. ASSUME NEW m \in Negotiators, m # n PROVE Numbered(m)'
    <3>1. bandit'[m] = bandit[m] /\ pending'[m] = pending[m] /\ choices'[m] = choices[m]
      BY <2>2, <2>3, <2>6 DEF Update, Shaped, Typed
    <3>2. QED
      BY <2>3, <2>4, <3>1 DEF Learning, Numbered
  <2>7. bandit'[Driver] = None
    BY <1>1, <2>2, <2>3 DEF Update, Shaped, Typed
  <2>8. QED
    BY <1>1, <2>3, <2>5, <2>6, <2>7 DEF Learning
<1>6. ASSUME NEW t \in Tasks, Select(t) PROVE Learning'
  <2>1. UNCHANGED <<up, file, bandit>> /\ up /\ t[2] \in Negotiators
    <3>1. ~ Ended(t)
      BY <1>6, SelectIs DEF Ended
    <3>2. QED
      BY <1>6, <3>1, StepFacts DEF Select, cluster
  <2>2. Numbered(t[2])'
    BY <1>6, <2>1, SelectNumbered DEF Learning
  <2>3. ASSUME NEW m \in Negotiators, m # t[2] PROVE Numbered(m)'
    <3>1. pending'[m] = pending[m] /\ choices'[m] = choices[m]
      BY <1>6, <2>1, <2>3, SelectIs DEF Shaped, Typed
    <3>2. QED
      BY <2>1, <3>1 DEF Learning, Numbered
  <2>4. QED
    BY <1>1, <2>1, <2>2, <2>3 DEF Learning
<1>7. CASE UNCHANGED <<up, file, bandit, pending, choices>>
  BY <1>7 DEF Learning, Numbered
<1>8. ASSUME NEW r \in Runs, Submit(r) \/ Scout(r) \/ Evaluate(r) \/ Buyer(r) \/ ReadDeals(r)
      PROVE  UNCHANGED <<up, file, bandit, pending, choices>>
  BY <1>8 DEF Submit, Scout, Evaluate, Buyer, ReadDeals, actors, cluster
<1>9. ASSUME NEW t \in Tasks, \/ Perceive(t) \/ Reason(t) \/ Skip(t) \/ Raise(t)
                             \/ Accept(t) \/ Retry(t) \/ FallBack(t) \/ Act(t)
      PROVE  UNCHANGED <<up, file, bandit, pending, choices>>
  BY <1>9 DEF Perceive, Reason, Skip, Raise, Accept, Retry, FallBack, Act, cluster
<1>10. CASE UNCHANGED vars
  BY <1>7, <1>10 DEF vars, actors, cluster
<1>11. QED
  BY <1>2, <1>3, <1>4, <1>5, <1>6, <1>7, <1>8, <1>9, <1>10 DEF Next, CallOf, StepOf

LEMMA LearningFirst == Init => Learning
  BY CrewAssumption DEF Init, Learning

\* No bandit learns twice from one choice: between a choice, its reward and its
\* reset lie the steps and the rewards of every other run (negotiator.py:350-373).
THEOREM NoDoubleCredit == Spec => []CreditedOnce
<1>1. Shaped /\ Learning => CreditedOnce
  BY DEF Learning, Numbered, CreditedOnce, IsInjective
<1>2. QED
  BY <1>1, ShapedFirst, ShapedKept, LearningFirst, LearningKept, PTL DEF Spec

(***************************************************************************)
(* A run on its own.                                                       *)
(***************************************************************************)
LEMMA RunsOfAppend ==
    ASSUME NEW quotes \in Piles, NEW quote \in Offers, NEW r, quote.run = r
    PROVE  /\ (\A i \in DOMAIN quotes : quotes[i].run = r) =>
                 \A i \in DOMAIN Append(quotes, quote) : Append(quotes, quote)[i].run = r
           /\ (\A i, j \in DOMAIN quotes : i < j /\ quotes[i].run = r => quotes[j].run = r) =>
                 \A i, j \in DOMAIN Append(quotes, quote) :
                     i < j /\ Append(quotes, quote)[i].run = r => Append(quotes, quote)[j].run = r
<1> DEFINE R == Offers
           new == Append(quotes, quote)
<1>1. quotes \in Seq(R) /\ quote \in R
  BY DEF Piles
<1> HIDE DEF R
<1>2. /\ DOMAIN new = 1..(Len(quotes) + 1) /\ DOMAIN quotes = 1..Len(quotes) /\ Len(quotes) \in Nat
      /\ \A i \in 1..(Len(quotes) + 1) : new[i] = IF i = Len(quotes) + 1 THEN quote ELSE quotes[i]
  BY <1>1
<1> HIDE DEF new
<1>3. (\A i \in DOMAIN quotes : quotes[i].run = r) => \A i \in DOMAIN new : new[i].run = r
  BY <1>2
<1>4. ASSUME \A i, j \in DOMAIN quotes : i < j /\ quotes[i].run = r => quotes[j].run = r,
             NEW i \in DOMAIN new, NEW j \in DOMAIN new, i < j, new[i].run = r
      PROVE  new[j].run = r
  <2>1. CASE j = Len(quotes) + 1
    BY <1>2, <2>1
  <2>2. CASE j # Len(quotes) + 1
    <3>1. i \in DOMAIN quotes /\ j \in DOMAIN quotes /\ new[i] = quotes[i] /\ new[j] = quotes[j]
      BY <1>2, <1>4, <2>2
    <3>2. QED
      BY <1>4, <3>1
  <2>3. QED
    BY <2>1, <2>2
<1>5. QED
  BY <1>3, <1>4 DEF new

LEMMA RunsOfTail ==
    ASSUME NEW quotes \in Piles, quotes # <<>>, NEW r, \A i \in DOMAIN quotes : quotes[i].run = r
    PROVE  quotes[1].run = r /\ \A i \in DOMAIN Tail(quotes) : Tail(quotes)[i].run = r
<1> DEFINE R == Offers
<1>1. quotes \in Seq(R)
  BY DEF Piles
<1> HIDE DEF R
<1>2. /\ Len(quotes) \in Nat \ {0} /\ DOMAIN quotes = 1..Len(quotes)
      /\ DOMAIN Tail(quotes) = 1..(Len(quotes) - 1)
      /\ \A i \in 1..(Len(quotes) - 1) : Tail(quotes)[i] = quotes[i + 1]
  BY <1>1
<1>3. QED
  BY <1>2

\* A step of a negotiator touches only what is its own.
LEMMA StepKeeps ==
    ASSUME Shaped, NEW t \in Tasks, StepOf(t)
    PROVE  /\ UNCHANGED <<scores, rpc, award, decision, disturbed>> /\ ~ Ended(t) /\ Goes(t)
           /\ \A n \in Negotiators : processed[n] \subseteq processed'[n]
           /\ \A n \in Negotiators : n # t[2] => processed'[n] = processed[n] /\ pending'[n] = pending[n]
<1> DEFINE n == t[2]
<1>1. /\ n \in Negotiators /\ processed \in [Negotiators -> SUBSET (Runs \X Suppliers)]
      /\ pending \in [Negotiators -> Choice \cup {None}]
  BY StepFacts DEF Shaped, Typed
<1>2. UNCHANGED <<scores, rpc, award, decision, disturbed>>
  BY DEF StepOf, Perceive, Reason, Skip, Raise, Select, Accept, Retry, FallBack, Act, blackboard, cluster
<1>3. ~ Ended(t) /\ Goes(t)
  BY PerceiveIs, ReasonIs, SkipIs, RaiseIs, SelectIs, RetryIs, AcceptIs, FallBackIs, ActIs
  DEF StepOf, Ended, Takes, Continues
<1>4. \A m \in Negotiators : processed[m] \subseteq processed'[m]
                             /\ (m # n => processed'[m] = processed[m] /\ pending'[m] = pending[m])
  <2>1. CASE Accept(t) \/ FallBack(t)
    <3>1. pending' = pending /\ \E quote \in Offers : Takes(t, quote)
      BY <2>1, AcceptIs, FallBackIs DEF Accept, FallBack
    <3>2. processed' = [processed EXCEPT ![n] = processed[n] \cup {Of(task[t].at)}]
      BY <3>1 DEF Takes
    <3>3. QED
      BY <1>1, <3>1, <3>2
  <2>2. CASE Select(t)
    <3>1. processed' = processed /\ pending' = [pending EXCEPT ![n] = pending'[n]]
      BY <2>2, SelectIs DEF Select
    <3>2. QED
      BY <1>1, <3>1
  <2>3. CASE Perceive(t) \/ Reason(t) \/ Skip(t) \/ Raise(t) \/ Retry(t) \/ Act(t)
    BY <2>3 DEF Perceive, Reason, Skip, Raise, Retry, Act
  <2>4. QED
    BY <2>1, <2>2, <2>3 DEF StepOf
<1>5. QED
  BY <1>2, <1>3, <1>4

LEMMA FocusedThen ==
    ASSUME NEW r, NEW n, NEW next, next = task'[<<r, n>>],
           next.pc \in {"read", "generate"} => scores'[next.at].run = r,
           \A i \in DOMAIN next.quotes : next.quotes[i].run = r,
           next.pc = "generate" \/ (\E s \in Suppliers : <<r, s>> \in processed'[n])
              => (pending'[n] # None => pending'[n].run = r)
    PROVE  Focused(r, n)'
  BY DEF Focused

LEMMA FocusKept ==
    ASSUME Shaped, NEW r \in Runs, Alone(r), NEW n \in Negotiators, StepOf(<<r, n>>)
    PROVE  /\ Focused(r, n)'
           /\ \A i, j \in DOMAIN deals' : i < j /\ deals'[i].run = r => deals'[j].run = r
<1> DEFINE t == <<r, n>>
           at == task[t].at
           old == task[t].quotes
           next == task'[t]
           own == \E s \in Suppliers : <<r, s>> \in processed[n]
<1>1. /\ t \in Tasks /\ t[1] = r /\ t[2] = n /\ task[t] \in Steps /\ Stage(t) /\ deals \in Piles
      /\ Len(scores) \in Nat /\ DOMAIN scores = 1..Len(scores) /\ old \in Piles
  BY StepFacts DEF Tasks, Shaped, Typed, Steps
<1>2. UNCHANGED scores /\ processed[n] \subseteq processed'[n]
  BY <1>1, StepKeeps
<1>3. ASSUME NEW i \in DOMAIN scores, Of(i) \notin processed'[n] PROVE scores[i].run = r
  BY <1>2, <1>3 DEF Alone
<1>4. /\ task[t].pc \in {"read", "generate"} => scores[at].run = r
      /\ task[t].pc = "generate" \/ own => (pending[n] # None => pending[n].run = r)
      /\ \A i \in DOMAIN old : old[i].run = r
      /\ \A i, j \in DOMAIN deals : i < j /\ deals[i].run = r => deals[j].run = r
  BY DEF Alone, Focused
<1>5. \A i, j \in DOMAIN deals' : i < j /\ deals'[i].run = r => deals'[j].run = r
  <2>1. CASE deals' = deals
    BY <1>4, <2>1
  <2>2. CASE deals' # deals
    <3>1. Act(t)
      BY <2>2 DEF StepOf, Perceive, Reason, Skip, Raise, Select, Accept, Retry, FallBack, blackboard
    <3>2. deals' = Append(deals, old[1]) /\ old[1] \in Offers /\ old # <<>>
      BY <1>1, <2>2, <3>1, ActIs
    <3> HIDE DEF old
    <3>3. old[1].run = r
      BY <1>1, <1>4, <3>2, RunsOfTail
    <3>4. QED
      BY <1>1, <1>4, <3>2, <3>3, RunsOfAppend
  <2>3. QED
    BY <2>1, <2>2
<1> SUFFICES Focused(r, n)'
  BY <1>5
\* But for Select, the strategy is the one it had.
<1>6. ASSUME pending' = pending, processed' = processed \/ task[t].pc = "generate",
             next.pc = "generate" => task[t].pc = "generate",
             next.pc \in {"read", "generate"} => scores[next.at].run = r,
             \A i \in DOMAIN next.quotes : next.quotes[i].run = r
      PROVE  Focused(r, n)'
  <2>1. next.pc = "generate" \/ (\E s \in Suppliers : <<r, s>> \in processed'[n])
           => (pending'[n] # None => pending'[n].run = r)
    BY <1>4, <1>6
  <2> HIDE DEF next
  <2>2. QED
    BY <1>2, <1>6, <2>1, FocusedThen DEF next
\* The loop goes on to an evaluation of r: those of the others are processed.
<1>7. ASSUME NEW k \in Nat, k <= Len(scores), NEW quotes, \A i \in DOMAIN quotes : quotes[i].run = r,
             Continues(t, k, quotes), pending' = pending,
             processed' = processed \/ task[t].pc = "generate"
      PROVE  Focused(r, n)'
  <2>1. /\ next.quotes = quotes /\ next.pc \in {"act", "read"}
        /\ next.pc = "read" => next.at \in 1..k /\ Of(next.at) \notin processed'[n]
    BY <1>1, <1>7 DEF Continues
  <2> HIDE DEF next
  <2>2. next.pc = "read" => next.at \in DOMAIN scores
    BY <1>1, <1>7, <2>1
  <2>3. next.pc = "read" => scores[next.at].run = r
    BY <1>3, <2>1, <2>2
  <2>4. \A i \in DOMAIN next.quotes : next.quotes[i].run = r
    BY <1>7, <2>1
  <2>5. QED
    BY <1>6, <1>7, <2>1, <2>3, <2>4
<1>8. CASE Perceive(t)
  <2>1. next.pc = "reason" /\ next.quotes = old /\ processed' = processed /\ pending' = pending
    BY <1>1, <1>8, PerceiveIs DEF Perceive
  <2> HIDE DEF next, old
  <2>2. QED
    BY <1>4, <1>6, <2>1
<1>9. CASE Reason(t)
  <2>1. /\ task[t].pc = "reason" /\ Continues(t, at, <<>>) /\ pending' = pending /\ processed' = processed
    BY <1>1, <1>9, ReasonIs DEF Reason
  <2>2. at \in Nat /\ at <= Len(scores)
    BY <1>1, <2>1 DEF Stage, Fits, Steps
  <2> DEFINE none == <<>>
  <2>3. \A i \in DOMAIN none : none[i].run = r
    OBVIOUS
  <2> HIDE DEF none, at, t
  <2>4. QED
    BY <1>7, <2>1, <2>2, <2>3 DEF none
<1>10. CASE Skip(t)
  <2>1. /\ task[t].pc = "read" /\ Continues(t, at - 1, old) /\ pending' = pending /\ processed' = processed
    BY <1>1, <1>10, SkipIs DEF Skip
  <2>2. at - 1 \in Nat /\ at - 1 <= Len(scores)
    BY <1>1, <2>1, OnScore DEF Stage, Fits
  <2> HIDE DEF old, at, t
  <2>3. QED
    BY <1>4, <1>7, <2>1, <2>2
<1>11. CASE Raise(t)
  <2>1. next.pc = "done" /\ next.quotes = <<>> /\ processed' = processed /\ pending' = pending
    BY <1>1, <1>11, RaiseIs DEF Raise
  <2> HIDE DEF next
  <2>2. QED
    BY <1>6, <2>1
<1>12. CASE Select(t)
  <2>1. next.pc = "generate" /\ next.at = at /\ next.quotes = old /\ task[t].pc = "read"
        /\ pending'[n].run = scores[at].run
    BY <1>1, <1>12, SelectIs
  <2> HIDE DEF next, old
  <2>2. QED
    BY <1>2, <1>4, <2>1, FocusedThen DEF next
<1>13. CASE Retry(t)
  <2>1. next.pc = "generate" /\ next.at = at /\ next.quotes = old
        /\ task[t].pc = "generate" /\ pending' = pending
    BY <1>1, <1>13, RetryIs DEF Retry
  <2> HIDE DEF next, old
  <2>2. QED
    BY <1>4, <1>6, <2>1
<1>14. CASE Accept(t) \/ FallBack(t)
  <2>1. PICK quote \in Offers : Takes(t, quote)
    BY <1>1, <1>14, AcceptIs, FallBackIs
  <2>2. task[t].pc = "generate" /\ pending' = pending
    BY <1>14 DEF Accept, FallBack
  <2>3. Continues(t, at - 1, Append(old, quote)) /\ quote.run = r
    BY <1>4, <2>1, <2>2 DEF Takes
  <2>4. at - 1 \in Nat /\ at - 1 <= Len(scores)
    BY <1>1, <2>2, OnScore, Generating
  <2> HIDE DEF old, at, t
  <2> DEFINE quotes == Append(old, quote)
  <2>5. \A i \in DOMAIN quotes : quotes[i].run = r
    BY <1>1, <1>4, <2>3, RunsOfAppend
  <2> HIDE DEF quotes
  <2>6. Continues(t, at - 1, quotes)
    BY <2>3 DEF quotes
  <2>7. QED
    BY <1>7, <2>2, <2>4, <2>5, <2>6
<1>15. CASE Act(t)
  <2>1. /\ next.pc \in {"act", "done"} /\ pending' = pending /\ processed' = processed
        /\ \/ next.quotes = <<>>
           \/ old # <<>> /\ next.quotes = Tail(old)
    BY <1>1, <1>15, ActIs DEF Act
  <2>2. \A i \in DOMAIN next.quotes : next.quotes[i].run = r
    <3>1. CASE next.quotes = <<>>
      BY <3>1
    <3>2. CASE old # <<>> /\ next.quotes = Tail(old)
      <4> HIDE DEF old, next
      <4>1. \A i \in DOMAIN Tail(old) : Tail(old)[i].run = r
        BY <1>1, <1>4, <3>2, RunsOfTail
      <4>2. QED
        BY <3>2, <4>1
    <3>3. QED
      BY <2>1, <3>1, <3>2
  <2> HIDE DEF next
  <2>3. QED
    BY <1>6, <2>1, <2>2
<1>16. QED
  BY <1>8, <1>9, <1>10, <1>11, <1>12, <1>13, <1>14, <1>15 DEF StepOf

LEMMA SubmitAlone ==
    ASSUME Shaped, NEW r \in Runs, Submit(r), Open = {},
           \A n \in Negotiators, i \in DOMAIN scores : Of(i) \in processed[n]
    PROVE  Alone(r)'
<1>1. /\ rpc[r] = "new" /\ rpc'[r] = "scouts" /\ \A s \in Runs \ {r} : rpc'[s] = rpc[s]
  BY SubmitShaped
<1>2. UNCHANGED <<scores, processed, deals, task, pending>>
  BY DEF Submit, actors
<1>3. Open' = {r}
  BY <1>1 DEF Open
<1>4. \A i \in DOMAIN deals : deals[i].run # r
  BY <1>1 DEF Shaped, Ordered, Known
<1>5. ASSUME NEW n \in Negotiators PROVE Focused(r, n)'
  <2>1. <<r, n>> \in Tasks
    BY DEF Tasks
  <2>2. task[<<r, n>>].pc \in {"idle", "done"} /\ DOMAIN task[<<r, n>>].quotes = {}
    BY <2>1, ClosedEnds DEF Ended
  <2>3. \A s \in Suppliers : <<r, s>> \notin processed[n]
    BY <1>1 DEF Shaped, Ordered
  <2>4. QED
    BY <1>2, <2>2, <2>3 DEF Focused
<1>6. \A n \in Negotiators, i \in DOMAIN scores : Of(i)' \in processed'[n]
  BY <1>2 DEF Of
<1>7. QED
  BY <1>1, <1>2, <1>3, <1>4, <1>5, <1>6 DEF Alone

LEMMA EvaluateAlone ==
    ASSUME Shaped, NEW r \in Runs, Alone(r), Evaluate(r)
    PROVE  Alone(r)'
<1>1. /\ rpc[r] = "scouts" /\ rpc'[r] = "negotiators" /\ \A s \in Runs \ {r} : rpc'[s] = rpc[s]
      /\ \A t \in Tasks : task'[t] = IF t[1] = r THEN [Idle EXCEPT !.pc = "perceive"] ELSE task[t]
      /\ \A i \in DOMAIN scores : i \in DOMAIN scores' /\ scores'[i] = scores[i]
      /\ \A i \in DOMAIN scores' : i \notin DOMAIN scores => scores'[i].run = r
  BY EvaluateShaped
<1>2. UNCHANGED <<processed, deals, pending>>
  BY DEF Evaluate
<1>3. Open' = {r}
  BY <1>1 DEF Alone, Open
<1>4. ASSUME NEW n \in Negotiators, NEW i \in DOMAIN scores', scores'[i].run # r
      PROVE  Of(i)' \in processed'[n]
  <2>1. i \in DOMAIN scores /\ scores'[i] = scores[i]
    BY <1>1, <1>4
  <2>2. Of(i) \in processed[n]
    BY <1>4, <2>1 DEF Alone
  <2>3. QED
    BY <1>2, <2>1, <2>2 DEF Of
<1>5. ASSUME NEW n \in Negotiators PROVE Focused(r, n)'
  <2>1. <<r, n>> \in Tasks
    BY DEF Tasks
  <2>2. task'[<<r, n>>].pc = "perceive" /\ DOMAIN task'[<<r, n>>].quotes = {}
    BY <1>1, <2>1, BareSteps
  <2>3. Focused(r, n)
    BY DEF Alone
  <2>4. QED
    BY <1>2, <2>2, <2>3 DEF Focused
<1>6. QED
  BY <1>1, <1>2, <1>3, <1>4, <1>5 DEF Alone

\* What is left of the call: the lists, the buyer and the rewards.
LEMMA CallAlone ==
    ASSUME Shaped, NEW r \in Runs, Alone(r), Scout(r) \/ Buyer(r) \/ ReadDeals(r) \/ Credit(r),
           r \in Open'
    PROVE  Alone(r)'
<1>1. /\ UNCHANGED <<scores, deals, processed, task>>
      /\ rpc \in [Runs -> Places] /\ award \in [Runs -> [quote : Runs, next : Nat]]
  BY DEF Scout, Buyer, ReadDeals, Credit, actors, blackboard, Shaped, Typed
<1>2. \A s \in Runs \ {r} : rpc'[s] = rpc[s]
  BY <1>1 DEF Scout, Buyer, ReadDeals, Credit
<1>3. Open' = {r}
  BY <1>2 DEF Alone, Open
<1>4. ASSUME NEW n \in Negotiators PROVE Focused(r, n)'
  <2>1. pending'[n] = pending[n] \/ pending'[n] = None
    <3>1. pending \in [Negotiators -> Choice \cup {None}]
      BY DEF Shaped, Typed
    <3>2. QED
      BY <3>1 DEF Scout, Buyer, ReadDeals, Credit, Update, actors
  <2>2. Focused(r, n)
    BY DEF Alone
  <2>3. QED
    BY <1>1, <2>1, <2>2 DEF Focused
<1>5. rpc'[r] = "credit" /\ Named(r)' # {} => award'[r].quote = r
  <2> SUFFICES ASSUME rpc'[r] = "credit", Named(r)' # {} PROVE award'[r].quote = r
    OBVIOUS
  <2>1. CASE Credit(r)
    <3>1. rpc[r] = "credit" /\ UNCHANGED <<deals, decision>>
      BY <2>1 DEF Credit, blackboard
    <3>2. Named(r) # {}
      BY <3>1 DEF Named
    <3>3. award[r].quote = r
      BY <3>1, <3>2 DEF Alone
    <3>4. award'[r].quote = award[r].quote
      BY <1>1, <2>1 DEF Credit
    <3>5. QED
      BY <3>3, <3>4
  <2>2. CASE ReadDeals(r)
    <3>1. UNCHANGED <<deals, decision>>
      BY <2>2 DEF ReadDeals, blackboard
    <3>2. PICK i \in Rewarded(r) :
            award' = [award EXCEPT ![r] = [quote |-> deals[i].run, next |-> 1]]
      BY <1>1, <2>2 DEF ReadDeals
    <3>3. PICK k \in DOMAIN deals : deals[k].run = r /\ deals[k].names = decision[r]
      BY <3>1 DEF Named
    <3>4. i \in DOMAIN deals /\ k <= i
      BY <3>2, <3>3 DEF Rewarded
    <3>5. i \in Nat /\ k \in Nat
      BY <3>4 DEF Shaped, Typed, Piles
    <3>6. deals[i].run = r
      <4>1. CASE k = i
        BY <3>3, <4>1
      <4>2. CASE k < i
        BY <3>3, <3>4, <4>2 DEF Alone
      <4>3. QED
        BY <3>4, <3>5, <4>1, <4>2
    <3>7. QED
      BY <1>1, <3>2, <3>6
  <2>3. CASE Scout(r) \/ Buyer(r)
    BY <1>1, <2>3 DEF Scout, Buyer
  <2>4. QED
    BY <2>1, <2>2, <2>3
<1>6. \A n \in Negotiators, i \in DOMAIN scores : scores[i].run # r => Of(i)' \in processed'[n]
  BY <1>1 DEF Alone, Of
<1>7. QED
  BY <1>1, <1>3, <1>4, <1>5, <1>6 DEF Alone

LEMMA StepAlone ==
    ASSUME Shaped, NEW r \in Runs, Alone(r), NEW t \in Tasks, StepOf(t)
    PROVE  Alone(r)'
<1>1. /\ UNCHANGED <<scores, rpc, award, decision>> /\ ~ Ended(t) /\ Goes(t)
      /\ \A n \in Negotiators : processed[n] \subseteq processed'[n]
      /\ \A n \in Negotiators : n # t[2] => processed'[n] = processed[n] /\ pending'[n] = pending[n]
  BY StepKeeps
<1>2. t[1] = r /\ rpc[r] = "negotiators" /\ t[2] \in Negotiators /\ t = <<r, t[2]>>
  BY <1>1, StepFacts DEF Alone
<1>3. Focused(r, t[2])' /\ \A i, j \in DOMAIN deals' : i < j /\ deals'[i].run = r => deals'[j].run = r
  BY <1>2, FocusKept
<1>4. ASSUME NEW n \in Negotiators, n # t[2] PROVE Focused(r, n)'
  <2>1. <<r, n>> # t /\ <<r, n>> \in Tasks
    BY <1>2, <1>4 DEF Tasks
  <2>2. task'[<<r, n>>] = task[<<r, n>>]
    BY <1>1, <2>1 DEF Goes, Shaped, Typed
  <2>3. Focused(r, n)
    BY DEF Alone
  <2>4. QED
    BY <1>1, <1>4, <2>2, <2>3 DEF Focused
<1>5. \A n \in Negotiators, i \in DOMAIN scores : scores[i].run # r => Of(i)' \in processed'[n]
  BY <1>1 DEF Alone, Of
<1>6. Open' = {r}
  BY <1>1 DEF Alone, Open
<1>7. QED
  BY <1>1, <1>2, <1>3, <1>4, <1>5, <1>6 DEF Alone

LEMMA UndisturbedKept ==
    ASSUME Shaped, Undisturbed, [Next]_vars
    PROVE  Undisturbed'
<1> SUFFICES ASSUME NEW r \in Open', r \notin disturbed' PROVE Alone(r)'
  BY DEF Undisturbed
<1>1. r \in Runs
  BY DEF Open
<1>2. CASE Start \/ Shutdown
  BY <1>2, StartShaped, ShutdownShaped
<1>3. ASSUME NEW n \in Negotiators, Crash(n) PROVE Alone(r)'
  BY <1>3 DEF Crash, Open
<1>4. ASSUME NEW q \in Runs, Submit(q) PROVE Alone(r)'
  <2>1. disturbed' = IF Open = {} /\ \A n \in Negotiators, i \in DOMAIN scores : Of(i) \in processed[n]
                     THEN disturbed ELSE disturbed \cup Open \cup {q}
    BY <1>4 DEF Submit
  <2>2. \A s \in Runs \ {q} : rpc'[s] = rpc[s]
    BY <1>4, SubmitShaped
  <2>3. r \in Open \/ r = q
    BY <1>1, <2>2 DEF Open
  <2>4. /\ Open = {} /\ r = q
        /\ \A n \in Negotiators, i \in DOMAIN scores : Of(i) \in processed[n]
    BY <2>1, <2>3
  <2>5. QED
    BY <1>4, <2>4, SubmitAlone
<1>5. ASSUME NEW q \in Runs, Scout(q) \/ CallOf(q) PROVE Alone(r)'
  <2>1. /\ disturbed' = disturbed /\ rpc[q] \notin {"new", "done"}
        /\ \A s \in Runs \ {q} : rpc'[s] = rpc[s]
    BY <1>5 DEF Scout, CallOf, Evaluate, Buyer, ReadDeals, Credit, cluster, Shaped, Typed
  <2>2. q \in Open /\ r \in Open
    BY <1>1, <2>1 DEF Open
  <2>3. Alone(r)
    BY <2>1, <2>2 DEF Undisturbed
  <2>4. q = r
    BY <2>2, <2>3 DEF Alone
  <2>5. QED
    BY <1>1, <1>5, <2>3, <2>4, CallAlone, EvaluateAlone DEF CallOf
<1>6. ASSUME NEW t \in Tasks, StepOf(t) PROVE Alone(r)'
  <2>1. UNCHANGED <<rpc, disturbed>>
    BY <1>6, StepKeeps
  <2>2. Alone(r)
    BY <2>1 DEF Undisturbed, Open
  <2>3. QED
    BY <1>1, <1>6, <2>2, StepAlone
<1>7. CASE UNCHANGED vars
  <2>1. UNCHANGED <<scores, deals, decision, processed, task, pending, disturbed, rpc, award>>
    BY <1>7 DEF vars, blackboard, actors, cluster
  <2>2. Alone(r)
    BY <2>1 DEF Undisturbed, Open
  <2>3. \A n \in Negotiators : Focused(r, n)'
    BY <2>1, <2>2 DEF Alone, Focused
  <2>4. Open' = Open /\ Named(r)' = Named(r) /\ \A i \in DOMAIN scores : Of(i)' = Of(i)
    BY <2>1 DEF Open, Named, Of
  <2>5. QED
    BY <2>1, <2>2, <2>3, <2>4 DEF Alone
<1>8. QED
  BY <1>2, <1>3, <1>4, <1>5, <1>6, <1>7 DEF Next

LEMMA UndisturbedFirst == Init => Undisturbed
  BY DEF Init, Undisturbed, Open

\* The invariant holds of every state the cluster can reach.
THEOREM Inductive == Spec => []IInv
<1>1. Init => IInv
  BY ShapedFirst, VerifiedFirst, LearningFirst, UndisturbedFirst DEF IInv
<1>2. IInv /\ [Next]_vars => IInv'
  BY ShapedKept, VerifiedKept, LearningKept, UndisturbedKept DEF IInv
<1>3. QED
  BY <1>1, <1>2, PTL DEF Spec

\* A run that overlapped no other, met no restart of a negotiator and found
\* nothing of another left over is rewarded by a quote of its own, where one
\* names the supplier awarded, and the reward goes, where a negotiator has
\* quoted for it, to a strategy chosen for it: _update_bandits_from_decision
\* (cluster.py:331-347) looks for neither.
THEOREM OwnReward == Spec => []CreditsOwn
<1>1. IInv => CreditsOwn
  <2> SUFFICES ASSUME IInv, NEW r \in Runs, rpc[r] = "credit", r \notin disturbed
               PROVE  /\ (\E i \in DOMAIN deals : deals[i].run = r /\ deals[i].names = decision[r])
                            => award[r].quote = r
                      /\ \A n \in Negotiators :
                            pending[n] # None /\ (\E s \in Suppliers : <<r, s>> \in processed[n])
                               => pending[n].run = r
    BY DEF CreditsOwn
  <2>1. Alone(r)
    BY DEF IInv, Undisturbed, Open
  <2>2. QED
    BY <2>1 DEF Alone, Named, Focused
<1>2. QED
  BY <1>1, Inductive, PTL
=============================================================================
