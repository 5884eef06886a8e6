--------------------------- MODULE Sourcing_proofs ---------------------------
(***************************************************************************)
(* What the run of Sourcing checks of three messages, for any number of    *)
(* them, any pool and any order of the handlers, and although messages and *)
(* replays may arrive while the loop is at work: the loop keeps its books, *)
(* so that no gather waits for ever; the history is the log; and a group   *)
(* is closed once, the evaluations before the quotes.                      *)
(***************************************************************************)
EXTENDS Sourcing, FiniteSetTheorems, SequenceTheorems, TLAPS

(***************************************************************************)
(* The shape of the state.  What is said is said of a message sent.        *)
(***************************************************************************)
Hearers == {"recorder", "tracker", "requirement", "strategy", "discovery", "evaluation",
            "negotiation", "decision", "analysis", "later"}
Messages(S) == [type : Types, cor : S, sup : Suppliers \cup {NoSup}, replayed : BOOLEAN]
Pairs(S) == S \X {"evaluation", "quote"}
Lists(S) == Seq(Messages(S)) \cup Seq(Pairs(S)) \cup Seq(Suppliers)
Works(S) == [h : Hearers \cup {"client", "replay"}, e : Messages(S), by : Nat, left : Nat,
             resumed : BOOLEAN, rest : Lists(S)]
Callbacks == {"step", "done"} \X (Nat \ {0})

\* A task hears its event; what it has still to do is of its kind.
WorkOk(k, S, cor) ==
    /\ k \in Works(S)
    /\ k.h \in Hearers => k.h \in Handlers(k.e.type)
    /\ k.h = "recorder" => ~k.resumed
    /\ k.left # 0 => k.resumed
    /\ k.h = "replay" => k.rest \in Seq(Messages(S))
    /\ k.h = "tracker" => k.rest \in Seq(Pairs(S))
    /\ k.h = "discovery" => k.rest \in Seq(Suppliers)
    /\ k.h = "discovery" /\ k.resumed => cor \in S

WorksOk(ts, S, cor) ==
    /\ ts = [t \in DOMAIN ts |-> ts[t]]
    /\ \A t \in DOMAIN ts : WorkOk(ts[t], S, cor)

AgentOk(a, S) ==
    /\ a = [requirement |-> a.requirement, discovery |-> a.discovery,
            decision |-> a.decision, analyzed |-> a.analyzed]
    /\ a.requirement \in [pending : BOOLEAN, cor : S \cup {NoCor}]
    /\ a.requirement.pending => a.requirement.cor \in S
    /\ a.discovery \in [cor : S \cup {NoCor}, pool : BOOLEAN, done : SUBSET S]
    /\ a.analyzed \subseteq S

Expectations(S) == [cor : S, count : {Len(Pool)}]

LogOk(all, S) == all \in Seq(Messages(S)) /\ \A n \in DOMAIN all : ~all[n].replayed
Listed(s) == \E A : s \in Seq(A)

Typed ==
    /\ sent \subseteq Requests /\ answered \subseteq sent
    /\ LogOk(log, sent)
    /\ rank \in Ranks
    /\ WorksOk(tasks, sent, agent.discovery.cor)
    /\ Listed(art)
    /\ expect \in Seq(Expectations(sent)) /\ closed \subseteq Pairs(sent)
    /\ AgentOk(agent, sent)

(***************************************************************************)
(* The books of the loop.                                                  *)
(***************************************************************************)
Occurs(queue, callback) == Cardinality({n \in DOMAIN queue : queue[n] = callback})
Children(ts, t) == {i \in DOMAIN ts : ts[i].by = t}

Balanced(ts, queue, t) ==
    /\ ts[t].left = Cardinality(Children(ts, t)) + Occurs(queue, <<"done", t>>)
    /\ Occurs(queue, <<"step", t>>) = IF ts[t].left = 0 THEN 1 ELSE 0

Entered(ts, queue) ==
    /\ IsFiniteSet(DOMAIN ts) /\ DOMAIN ts \subseteq Nat \ {0}
    /\ queue \in Seq(Callbacks)
    /\ \A n \in DOMAIN queue : queue[n][2] \in DOMAIN ts
    /\ \A t \in DOMAIN ts : ts[t].by \in {0} \cup DOMAIN ts /\ ts[t].by < t

Book(ts, queue) == Entered(ts, queue) /\ \A t \in DOMAIN ts : Balanced(ts, queue, t)

LoopInv == Typed /\ Book(tasks, ready)

Waited == \A r \in sent \ answered : \E t \in DOMAIN tasks : tasks[t].h = "client" /\ tasks[t].e.cor = r

(***************************************************************************)
(* The recorders of what the history lacks stand in line.                  *)
(***************************************************************************)
Recording(ts, queue, n) ==
    /\ queue[n][1] = "step"
    /\ ts[queue[n][2]].h = "recorder" /\ ~ts[queue[n][2]].e.replayed

InLine(ts, queue, kept, all) ==
    /\ Len(kept) <= Len(all) /\ \A k \in DOMAIN kept : kept[k] = all[k]
    /\ \E at \in [1 .. Len(all) - Len(kept) -> DOMAIN queue] :
          /\ \A i, j \in DOMAIN at : i < j => at[i] < at[j]
          /\ \A k \in DOMAIN at : /\ Recording(ts, queue, at[k])
                                  /\ ts[queue[at[k]][2]].e = all[Len(kept) + k]
          /\ \A n \in DOMAIN queue : Recording(ts, queue, n) => \E k \in DOMAIN at : at[k] = n

HistoryInv == LoopInv /\ events \in Seq(Messages(sent)) /\ InLine(tasks, ready, events, log)

(***************************************************************************)
(* A completion is on the log for each group that is closed.  There are no *)
(* more quotes of a request than evaluations, and the tracker comes to the *)
(* evaluations first.                                                      *)
(***************************************************************************)
Negotiating(ts, cor) ==
    {t \in DOMAIN ts : ts[t].h = "negotiation" /\ ~ts[t].resumed /\ ts[t].e.cor = cor /\ ~ts[t].e.replayed}

InOrder(check, shut) ==
    \A n \in DOMAIN check : check[n][2] = "quote" =>
        \/ <<check[n][1], "evaluation">> \in shut
        \/ n > 1 /\ check[n - 1] = <<check[n][1], "evaluation">>

Ordered(ts, shut) ==
    \A t \in DOMAIN ts : ts[t].h = "tracker" /\ ts[t].resumed => InOrder(ts[t].rest, shut)

Completion(all, n, pair) == all[n].type = CompletionEvents[pair[2]] /\ all[n].cor = pair[1]

Sealed(all, shut) ==
    /\ \A pair \in Pairs(Requests) : pair \in shut <=> \E n \in DOMAIN all : Completion(all, n, pair)
    /\ \A pair \in Pairs(Requests) : \A m, n \in DOMAIN all :
          Completion(all, m, pair) /\ Completion(all, n, pair) => m = n
    /\ \A cor \in Requests : \A n \in DOMAIN all : Completion(all, n, <<cor, "quote">>) =>
          \E k \in DOMAIN all : k < n /\ Completion(all, k, <<cor, "evaluation">>)

Quoted(cor) == Count("quote", cor) + Cardinality(Negotiating(tasks, cor)) <= Count("evaluation", cor)

ClosedInv ==
    /\ LoopInv /\ Sealed(log, closed) /\ Ordered(tasks, closed)
    /\ \A cor \in Requests : Quoted(cor)

(***************************************************************************)
(* How often a callback is due.                                            *)
(***************************************************************************)
LEMMA OccursType ==
    ASSUME NEW S, NEW q \in Seq(S), NEW x
    PROVE  IsFiniteSet({n \in DOMAIN q : q[n] = x}) /\ Occurs(q, x) \in Nat
<1>1. DOMAIN q = 1 .. Len(q) /\ Len(q) \in Int /\ 1 \in Int
  OBVIOUS
<1>2. IsFiniteSet(DOMAIN q)
  BY <1>1, FS_Interval
<1>3. {n \in DOMAIN q : q[n] = x} \in SUBSET DOMAIN q
  OBVIOUS
<1>4. IsFiniteSet({n \in DOMAIN q : q[n] = x})
  BY <1>2, <1>3, FS_Subset
<1> QED  BY <1>4, FS_CardinalityType DEF Occurs

LEMMA OccursConcat ==
    ASSUME NEW S, NEW p \in Seq(S), NEW q \in Seq(S), NEW x
    PROVE  Occurs(p \o q, x) = Occurs(p, x) + Occurs(q, x)
<1> DEFINE A == {n \in DOMAIN p : p[n] = x}
           B == {n \in DOMAIN q : q[n] = x}
           C == {n \in DOMAIN (p \o q) : n > Len(p) /\ (p \o q)[n] = x}
           f == [n \in B |-> Len(p) + n]
<1>1. IsFiniteSet(A) /\ IsFiniteSet(B)
  BY OccursType
<1>2. f \in Bijection(B, C)
  <2>1. f \in [B -> C]
    OBVIOUS
  <2>2. \A m, n \in B : f[m] = f[n] => m = n
    OBVIOUS
  <2>3. ASSUME NEW n \in C PROVE \E m \in B : f[m] = n
    <3>1. n - Len(p) \in B
      OBVIOUS
    <3>2. f[n - Len(p)] = n
      BY <3>1
    <3> QED  BY <3>1, <3>2
  <2> QED  BY <2>1, <2>2, <2>3 DEF Bijection, Injection, Surjection, IsInjective
<1>3. IsFiniteSet(C) /\ Cardinality(C) = Cardinality(B)
  BY <1>1, <1>2, FS_Bijection DEF ExistsBijection
<1>4. {n \in DOMAIN (p \o q) : (p \o q)[n] = x} = A \cup C /\ A \cap C = {}
  OBVIOUS
<1>5. Occurs(p, x) = Cardinality(A) /\ Occurs(q, x) = Cardinality(B)
      /\ Occurs(p \o q, x) = Cardinality(A \cup C)
  BY <1>4, Zenon DEF Occurs
<1> HIDE DEF A, B, C, f
<1>6. Cardinality(A \cup C) = Cardinality(A) + Cardinality(C) - Cardinality(A \cap C)
  BY <1>1, <1>3, FS_Union
<1>7. Cardinality(A \cap C) = 0
  BY <1>4, FS_EmptySet
<1>8. Cardinality(A) \in Nat /\ Cardinality(B) \in Nat
  BY <1>1, FS_CardinalityType
<1> QED  BY <1>3, <1>5, <1>6, <1>7, <1>8

LEMMA OccursOne ==
    ASSUME NEW y, NEW x PROVE Occurs(<<y>>, x) = IF y = x THEN 1 ELSE 0
<1>1. {n \in DOMAIN <<y>> : <<y>>[n] = x} = IF y = x THEN {1} ELSE {}
  OBVIOUS
<1> QED  BY <1>1, FS_EmptySet, FS_Singleton DEF Occurs

LEMMA OccursNone == \A x : Occurs(<<>>, x) = 0
<1>1. \A x : {n \in DOMAIN <<>> : <<>>[n] = x} = {}
  OBVIOUS
<1> QED  BY <1>1, FS_EmptySet DEF Occurs

LEMMA OccursTail ==
    ASSUME NEW S, NEW q \in Seq(S), q # <<>>, NEW x
    PROVE  Occurs(q, x) = Occurs(Tail(q), x) + (IF Head(q) = x THEN 1 ELSE 0)
<1>1. q = <<Head(q)>> \o Tail(q) /\ <<Head(q)>> \in Seq(S) /\ Tail(q) \in Seq(S)
  OBVIOUS
<1>2. Occurs(<<Head(q)>> \o Tail(q), x) = Occurs(<<Head(q)>>, x) + Occurs(Tail(q), x)
  BY <1>1, OccursConcat
<1>3. Occurs(Tail(q), x) \in Nat
  BY <1>1, OccursType
<1>4. Occurs(q, x) = Occurs(<<Head(q)>> \o Tail(q), x)
  BY <1>1, Zenon
<1> QED  BY <1>2, <1>3, <1>4, OccursOne

LEMMA OccursAbsent ==
    ASSUME NEW q, NEW x, \A n \in DOMAIN q : q[n] # x PROVE Occurs(q, x) = 0
<1>1. {n \in DOMAIN q : q[n] = x} = {}
  OBVIOUS
<1> QED  BY <1>1, FS_EmptySet DEF Occurs

(***************************************************************************)
(* The smallest and the greatest of some numbers.                          *)
(***************************************************************************)
LEMMA Smallest ==
    ASSUME NEW S \in SUBSET Nat, S # {} PROVE Min(S) \in S /\ \A i \in S : Min(S) <= i
<1> DEFINE Below == {ss \in Nat \X Nat : ss[1] < ss[2]}
<1>1. IsWellFoundedOn(Below, Nat)
  BY NatLessThanWellFounded, Zenon DEF OpToRel
<1>2. PICK m \in S : \A i \in S : ~ (<<i, m>> \in Below)
  <2> HIDE DEF Below
  <2> QED  BY <1>1, WFMin, Zenon
<1>3. ASSUME NEW i \in S PROVE m <= i
  <2>1. i \in Nat /\ m \in Nat
    OBVIOUS
  <2>2. ~ (<<i, m>> \in Below)
    BY <1>2
  <2>3. ~ (i < m)
    BY <2>1, <2>2
  <2> QED  BY <2>1, <2>3
<1>4. \E x \in S : \A y \in S : x <= y
  BY <1>3
<1>5. Min(S) \in S /\ \A y \in S : Min(S) <= y
  BY <1>4 DEF Min
<1> QED  BY <1>5

LEMMA Greatest ==
    ASSUME NEW S \in SUBSET Nat, IsFiniteSet(S), S # {}
    PROVE  Max(S) \in S /\ \A i \in S : Max(S) >= i
<1> DEFINE Above(i) == {k \in S : k > i}
           T == {n \in Nat : \E i \in S : n = Cardinality(Above(i))}
<1>1. ASSUME NEW i \in S PROVE IsFiniteSet(Above(i)) /\ Cardinality(Above(i)) \in Nat
  <2>1. Above(i) \in SUBSET S
    OBVIOUS
  <2>2. IsFiniteSet(Above(i))
    BY <2>1, FS_Subset
  <2> QED  BY <2>2, FS_CardinalityType
<1>2. T \in SUBSET Nat /\ T # {}
  BY <1>1
<1>3. Min(T) \in T /\ \A n \in T : Min(T) <= n
  <2> HIDE DEF T
  <2> QED  BY <1>2, Smallest
<1>4. PICK i \in S : Min(T) = Cardinality(Above(i))
  BY <1>3
<1>5. ASSUME NEW k \in S, k > i PROVE FALSE
  <2>1. Above(k) \in SUBSET Above(i) /\ k \in Above(i) /\ k \notin Above(k)
    <3>1. i \in Nat /\ k \in Nat /\ ~ (k > k)
      OBVIOUS
    <3>2. ASSUME NEW j \in S, j > k PROVE j > i
      <4>1. j \in Nat
        OBVIOUS
      <4> HIDE DEF T, Above
      <4> QED  BY <1>5, <3>1, <3>2, <4>1
    <3> QED  BY <1>5, <3>1, <3>2
  <2>2. Cardinality(Above(k)) \in T
    BY <1>1
  <2> HIDE DEF Above
  <2>3. Cardinality(Above(k)) <= Cardinality(Above(i))
        /\ (Cardinality(Above(i)) = Cardinality(Above(k)) => Above(i) = Above(k))
    BY <1>1, <2>1, FS_Subset
  <2> HIDE DEF T
  <2> QED  BY <1>1, <1>3, <1>4, <2>1, <2>2, <2>3
<1>6. \E x \in S : \A y \in S : x >= y
  BY <1>5
<1>7. Max(S) \in S /\ \A y \in S : Max(S) >= y
  BY <1>6 DEF Max
<1> QED  BY <1>7

(***************************************************************************)
(* A gather for the task t: the tasks it starts are new, the last in line, *)
(* and the only ones that name t.                                          *)
(***************************************************************************)
Line(first, order) == [k \in DOMAIN order |-> <<"step", first + k>>]

Spawned(ts, q, t, e, order, ts2, q2) ==
    LET first == Max(DOMAIN ts) IN
    /\ DOMAIN ts2 = DOMAIN ts \cup {first + k : k \in DOMAIN order}
    /\ ts2 = [i \in DOMAIN ts2 |-> ts2[i]]
    /\ \A i \in DOMAIN ts \ {t} : ts2[i] = ts[i]
    /\ ts2[t] = [ts[t] EXCEPT !.left = Len(order)]
    /\ \A k \in DOMAIN order : ts2[first + k] = Task(order[k], e, t)
    /\ q2 = q \o Line(first, order)

LEMMA LineProperties ==
    ASSUME NEW first \in Nat, NEW S, NEW order \in Seq(S), NEW i \in Nat
    PROVE  /\ Line(first, order) \in Seq(Callbacks)
           /\ Occurs(Line(first, order), <<"done", i>>) = 0
           /\ Occurs(Line(first, order), <<"step", i>>)
                = IF i \in first + 1 .. first + Len(order) THEN 1 ELSE 0
<1> DEFINE line == Line(first, order)
<1>1. DOMAIN order = 1 .. Len(order) /\ Len(order) \in Nat
  OBVIOUS
<1>2. \A k \in 1 .. Len(order) : <<"step", first + k>> \in Callbacks
  BY DEF Callbacks
<1>3. line = [k \in 1 .. Len(order) |-> <<"step", first + k>>]
  BY <1>1 DEF Line
<1>4. line \in Seq(Callbacks) /\ DOMAIN line = 1 .. Len(order)
  BY <1>1, <1>2, <1>3
<1>5. Occurs(line, <<"done", i>>) = 0
  BY <1>3, OccursAbsent
<1>6. CASE i \in first + 1 .. first + Len(order)
  <2>1. {n \in DOMAIN line : line[n] = <<"step", i>>} = {i - first}
    BY <1>1, <1>3, <1>6
  <2> QED  BY <1>4, <1>5, <1>6, <2>1, FS_Singleton DEF Occurs
<1>7. CASE i \notin first + 1 .. first + Len(order)
  <2>1. \A n \in DOMAIN line : line[n] # <<"step", i>>
    BY <1>1, <1>3, <1>7
  <2>2. Occurs(line, <<"step", i>>) = 0
    BY <2>1, OccursAbsent
  <2> QED  BY <1>4, <1>5, <1>7, <2>2
<1> QED  BY <1>6, <1>7

LEMMA GatherSpawns ==
    ASSUME NEW ts, NEW q, NEW t \in DOMAIN ts, NEW e, IsFiniteSet(DOMAIN ts),
           DOMAIN ts \subseteq Nat \ {0}, NEW S, rank[e.type] \in Seq(S), Gather(ts, q, t, e)
    PROVE  /\ Spawned(ts, q, t, e, rank[e.type], tasks', ready') /\ rank' = rank
           /\ Max(DOMAIN ts) \in DOMAIN ts /\ \A i \in DOMAIN ts : i <= Max(DOMAIN ts)
<1> DEFINE first == Max(DOMAIN ts)
           order == rank[e.type]
<1>1. first \in DOMAIN ts /\ \A i \in DOMAIN ts : first >= i
  <2>1. DOMAIN ts \in SUBSET Nat /\ DOMAIN ts # {}
    OBVIOUS
  <2> QED  BY <2>1, Greatest
<1>2. /\ tasks' = [i \in DOMAIN ts \cup {first + k : k \in DOMAIN order} |->
             IF i > first THEN Task(order[i - first], e, t)
             ELSE IF i = t THEN [ts[t] EXCEPT !.left = Len(order)] ELSE ts[i]]
      /\ ready' = q \o Line(first, order)
      /\ rank' = rank
  BY DEF Gather, Due, Line
<1> HIDE DEF first, order
<1>3. \A i \in DOMAIN ts \ {t} : tasks'[i] = ts[i]
  BY <1>1, <1>2
<1>4. tasks'[t] = [ts[t] EXCEPT !.left = Len(order)]
  BY <1>1, <1>2
<1>5. ASSUME NEW k \in DOMAIN order PROVE tasks'[first + k] = Task(order[k], e, t)
  <2>1. k \in Nat \ {0}
    BY DEF order
  <2>2. first \in Nat /\ first + k > first /\ first + k - first = k
    BY <1>1, <2>1
  <2>3. first + k \in DOMAIN ts \cup {first + n : n \in DOMAIN order}
    OBVIOUS
  <2> DEFINE i == first + k
  <2> HIDE DEF i
  <2>4. tasks'[i] = Task(order[i - first], e, t)
    BY <1>2, <2>2, <2>3 DEF i
  <2> QED  BY <2>2, <2>4 DEF i
<1>6. tasks' = [i \in DOMAIN tasks' |-> tasks'[i]]
  BY <1>2
<1> QED  BY <1>1, <1>2, <1>3, <1>4, <1>5, <1>6 DEF Spawned, first, order

LEMMA SpanSize ==
    ASSUME NEW first \in Nat, NEW n \in Nat
    PROVE  IsFiniteSet(first + 1 .. first + n) /\ Cardinality(first + 1 .. first + n) = n
<1> DEFINE a == first + 1
           b == first + n
<1>1. a \in Int /\ b \in Int /\ (a > b <=> n = 0) /\ b - a + 1 = n
  OBVIOUS
<1>2. IsFiniteSet(a .. b) /\ Cardinality(a .. b) = IF a > b THEN 0 ELSE b - a + 1
  <2> HIDE DEF a, b
  <2> QED  BY <1>1, FS_Interval
<1> QED  BY <1>1, <1>2

\* The task t, off the queue, has nobody to wait for.
Apart(ts, q, t) ==
    /\ Entered(ts, q) /\ t \in DOMAIN ts /\ ts[t] \in Works(Requests)
    /\ \A i \in DOMAIN ts \ {t} : Balanced(ts, q, i)
    /\ Children(ts, t) = {} /\ Occurs(q, <<"done", t>>) = 0 /\ Occurs(q, <<"step", t>>) = 0

LEMMA SpawnBook ==
    ASSUME NEW ts, NEW q, NEW t, Apart(ts, q, t), NEW e, NEW S, NEW order \in Seq(S), order # <<>>,
           NEW ts2, NEW q2, Spawned(ts, q, t, e, order, ts2, q2),
           Max(DOMAIN ts) \in DOMAIN ts, \A i \in DOMAIN ts : i <= Max(DOMAIN ts)
    PROVE  Book(ts2, q2)
<1> DEFINE first == Max(DOMAIN ts)
           new == {first + k : k \in DOMAIN order}
<1>1. /\ first \in Nat \ {0} /\ DOMAIN order = 1 .. Len(order) /\ Len(order) \in Nat \ {0}
      /\ DOMAIN ts \subseteq 1 .. first /\ t \in DOMAIN ts
  BY DEF Apart, Entered
<1>2. new = first + 1 .. first + Len(order)
  <2>1. ASSUME NEW i \in first + 1 .. first + Len(order) PROVE i \in new
    <3>1. i - first \in DOMAIN order /\ i = first + (i - first)
      BY <1>1
    <3> QED  BY <3>1
  <2> QED  BY <1>1, <2>1
<1>3. IsFiniteSet(new) /\ Cardinality(new) = Len(order)
  <2>1. IsFiniteSet(first + 1 .. first + Len(order))
        /\ Cardinality(first + 1 .. first + Len(order)) = Len(order)
    BY <1>1, SpanSize
  <2> HIDE DEF first, new
  <2> QED  BY <1>1, <1>2, <2>1
<1>4. /\ DOMAIN ts2 = DOMAIN ts \cup new
      /\ \A i \in DOMAIN ts \ {t} : ts2[i] = ts[i]
      /\ ts2[t].by = ts[t].by /\ ts2[t].left = Len(order)
      /\ q2 = q \o Line(first, order)
  BY DEF Spawned, Apart, Works
<1>5. ASSUME NEW i \in new PROVE ts2[i].by = t /\ ts2[i].left = 0
  <2>1. PICK k \in DOMAIN order : i = first + k
    OBVIOUS
  <2>2. ts2[i] = Task(order[k], e, t)
    BY <2>1 DEF Spawned
  <2> QED  BY <2>2 DEF Task
<1> HIDE DEF new, first
<1>6. ASSUME NEW i \in Nat
      PROVE  /\ Occurs(q2, <<"done", i>>) = Occurs(q, <<"done", i>>)
             /\ Occurs(q2, <<"step", i>>) = Occurs(q, <<"step", i>>) + (IF i \in new THEN 1 ELSE 0)
             /\ Occurs(q, <<"done", i>>) \in Nat /\ Occurs(q, <<"step", i>>) \in Nat
  <2>1. q \in Seq(Callbacks) /\ Line(first, order) \in Seq(Callbacks)
    BY <1>1, LineProperties DEF Apart, Entered
  <2>2. /\ Occurs(q \o Line(first, order), <<"done", i>>)
             = Occurs(q, <<"done", i>>) + Occurs(Line(first, order), <<"done", i>>)
        /\ Occurs(q \o Line(first, order), <<"step", i>>)
             = Occurs(q, <<"step", i>>) + Occurs(Line(first, order), <<"step", i>>)
    BY <2>1, OccursConcat
  <2>3. Occurs(q, <<"done", i>>) \in Nat /\ Occurs(q, <<"step", i>>) \in Nat
    BY <2>1, OccursType
  <2>4. /\ Occurs(Line(first, order), <<"done", i>>) = 0
        /\ Occurs(Line(first, order), <<"step", i>>)
             = IF i \in first + 1 .. first + Len(order) THEN 1 ELSE 0
    BY <1>1, LineProperties
  <2> QED  BY <1>2, <1>4, <2>2, <2>3, <2>4
<1>7. new \cap DOMAIN ts = {} /\ new \subseteq Nat \ {0} /\ 0 \notin new
  BY <1>1, <1>2
<1>8. Entered(ts2, q2)
  <2>1. IsFiniteSet(DOMAIN ts2) /\ DOMAIN ts2 \subseteq Nat \ {0}
    <3>1. IsFiniteSet(DOMAIN ts) /\ DOMAIN ts \subseteq Nat \ {0}
      BY DEF Apart, Entered
    <3>2. IsFiniteSet(DOMAIN ts \cup new)
      BY <1>3, <3>1, FS_Union
    <3> QED  BY <1>4, <1>7, <3>1, <3>2
  <2>2. q2 \in Seq(Callbacks) /\ \A n \in DOMAIN q2 : q2[n][2] \in DOMAIN ts2
    <3>1. q \in Seq(Callbacks) /\ Line(first, order) \in Seq(Callbacks)
      BY <1>1, LineProperties DEF Apart, Entered
    <3>2. \A n \in DOMAIN Line(first, order) : Line(first, order)[n][2] \in new
      BY DEF Line, new
    <3>3. \A n \in DOMAIN q : q[n][2] \in DOMAIN ts
      BY DEF Apart, Entered
    <3>4. ASSUME NEW n \in DOMAIN q2 PROVE q2[n][2] \in DOMAIN ts2
      <4>1. CASE n \in DOMAIN q
        BY <1>4, <3>1, <3>3, <4>1
      <4>2. CASE n \notin DOMAIN q
        <5>1. n - Len(q) \in DOMAIN Line(first, order) /\ q2[n] = Line(first, order)[n - Len(q)]
          BY <1>4, <3>1, <4>2
        <5> QED  BY <1>4, <3>2, <5>1
      <4> QED  BY <4>1, <4>2
    <3> QED  BY <1>4, <3>1, <3>4
  <2>3. ASSUME NEW i \in DOMAIN ts2 PROVE ts2[i].by \in {0} \cup DOMAIN ts2 /\ ts2[i].by < i
    <3>1. CASE i \in new
      BY <1>1, <1>2, <1>4, <1>5, <3>1
    <3>2. CASE i \in DOMAIN ts
      <4>1. ts2[i].by = ts[i].by
        BY <1>4, <3>2
      <4> QED  BY <1>4, <3>2, <4>1 DEF Apart, Entered
    <3> QED  BY <1>4, <3>1, <3>2
  <2> QED  BY <2>1, <2>2, <2>3 DEF Entered
<1>9. ASSUME NEW i \in DOMAIN ts2 PROVE Balanced(ts2, q2, i)
  <2>1. i \in Nat
    BY <1>8 DEF Entered
  <2>2. \A j \in DOMAIN ts : ts2[j].by = ts[j].by
    BY <1>4
  <2>3. CASE i \in new
    <3>1. Children(ts2, i) = {}
      <4>1. ASSUME NEW j \in DOMAIN ts2 PROVE ts2[j].by # i
        <5>1. CASE j \in new
          BY <1>1, <1>5, <1>7, <2>3, <5>1
        <5>2. CASE j \in DOMAIN ts
          BY <1>7, <2>2, <2>3, <5>2 DEF Apart, Entered
        <5> QED  BY <1>4, <5>1, <5>2
      <4> QED  BY <4>1 DEF Children
    <3>2. \A n \in DOMAIN q : q[n] # <<"done", i>> /\ q[n] # <<"step", i>>
      <4>1. \A n \in DOMAIN q : q[n][2] # i
        BY <1>7, <2>3 DEF Apart, Entered
      <4> QED  BY <4>1
    <3>3. Occurs(q, <<"done", i>>) = 0 /\ Occurs(q, <<"step", i>>) = 0
      BY <3>2, OccursAbsent
    <3>4. Occurs(q2, <<"done", i>>) = 0 /\ Occurs(q2, <<"step", i>>) = 1
      BY <1>6, <2>1, <2>3, <3>3
    <3>5. ts2[i].left = 0 /\ Cardinality(Children(ts2, i)) = 0
      BY <1>5, <2>3, <3>1, FS_EmptySet
    <3> QED  BY <3>4, <3>5 DEF Balanced
  <2>4. CASE i = t
    <3>1. Children(ts2, t) = new
      <4>1. ASSUME NEW j \in DOMAIN ts PROVE ts2[j].by # t
        BY <2>2 DEF Apart, Children
      <4> QED  BY <1>4, <1>5, <1>7, <4>1 DEF Children
    <3>2. Occurs(q, <<"done", t>>) = 0 /\ Occurs(q, <<"step", t>>) = 0 /\ t \notin new
      BY <1>1, <1>7 DEF Apart
    <3>3. Occurs(q2, <<"done", t>>) = 0 /\ Occurs(q2, <<"step", t>>) = 0
      BY <1>6, <2>1, <2>4, <3>2
    <3>4. ts2[t].left = Cardinality(Children(ts2, t)) + 0 /\ ts2[t].left # 0
      BY <1>1, <1>3, <1>4, <3>1
    <3> QED  BY <2>4, <3>3, <3>4 DEF Balanced
  <2>5. CASE i \in DOMAIN ts \ {t}
    <3>1. Children(ts2, i) = Children(ts, i)
      BY <1>4, <1>5, <1>7, <2>2, <2>5 DEF Children
    <3>2. Balanced(ts, q, i) /\ i \notin new /\ ts2[i].left = ts[i].left
      BY <1>4, <1>7, <2>5 DEF Apart
    <3>3. /\ Occurs(q2, <<"done", i>>) = Occurs(q, <<"done", i>>)
          /\ Occurs(q2, <<"step", i>>) = Occurs(q, <<"step", i>>)
      BY <1>6, <2>1, <3>2
    <3> QED  BY <3>1, <3>2, <3>3 DEF Balanced
  <2> QED  BY <1>4, <2>3, <2>4, <2>5
<1> QED  BY <1>8, <1>9 DEF Book

(***************************************************************************)
(* What a callback does to the books.                                      *)
(***************************************************************************)
LEMMA CallbackTaken ==
    ASSUME Book(tasks, ready), ready # <<>>
    PROVE  /\ Tail(ready) \in Seq(Callbacks) /\ Entered(tasks, Tail(ready))
           /\ Now \in DOMAIN tasks /\ Head(ready) \in Callbacks
           /\ \A x : x # Head(ready) => Occurs(Tail(ready), x) = Occurs(ready, x)
           /\ Occurs(ready, Head(ready)) = Occurs(Tail(ready), Head(ready)) + 1
           /\ \A x : Occurs(ready, x) \in Nat /\ Occurs(Tail(ready), x) \in Nat
<1>1. ready \in Seq(Callbacks) /\ \A n \in DOMAIN ready : ready[n][2] \in DOMAIN tasks
  BY DEF Book, Entered
<1>2. /\ Tail(ready) \in Seq(Callbacks) /\ Head(ready) = ready[1] /\ 1 \in DOMAIN ready
      /\ \A n \in DOMAIN Tail(ready) : n + 1 \in DOMAIN ready /\ Tail(ready)[n] = ready[n + 1]
  BY <1>1
<1>3. Entered(tasks, Tail(ready))
  BY <1>1, <1>2 DEF Book, Entered
<1>4. \A x : Occurs(ready, x) \in Nat /\ Occurs(Tail(ready), x) \in Nat
  BY <1>1, <1>2, OccursType
<1>5. \A x : Occurs(ready, x) = Occurs(Tail(ready), x) + (IF Head(ready) = x THEN 1 ELSE 0)
  BY <1>1, OccursTail
<1>6. Now \in DOMAIN tasks /\ Head(ready) \in Callbacks
  BY <1>1, <1>2 DEF Now
<1>7. ASSUME NEW x, x # Head(ready) PROVE Occurs(Tail(ready), x) = Occurs(ready, x)
  BY <1>4, <1>5, <1>7
<1>8. Occurs(ready, Head(ready)) = Occurs(Tail(ready), Head(ready)) + 1
  BY <1>5
<1> QED  BY <1>2, <1>3, <1>4, <1>6, <1>7, <1>8

LEMMA FiniteChildren ==
    ASSUME NEW ts, NEW t, IsFiniteSet(DOMAIN ts)
    PROVE  IsFiniteSet(Children(ts, t)) /\ Cardinality(Children(ts, t)) \in Nat
<1>1. Children(ts, t) \in SUBSET DOMAIN ts
  BY DEF Children
<1> QED  BY <1>1, FS_Subset, FS_CardinalityType

\* A task that runs waits for nobody and is queued no more.
LEMMA Current ==
    ASSUME Book(tasks, ready), Steps
    PROVE  /\ Now \in DOMAIN tasks /\ Me.left = 0 /\ Children(tasks, Now) = {}
           /\ Occurs(Tail(ready), <<"step", Now>>) = 0 /\ Occurs(Tail(ready), <<"done", Now>>) = 0
           /\ \A i \in DOMAIN tasks \ {Now} : Balanced(tasks, Tail(ready), i)
<1>1. ready # <<>> /\ Head(ready) = <<"step", Now>>
  <2>1. ready # <<>> /\ Head(ready) \in Callbacks
    BY CallbackTaken DEF Steps
  <2> QED  BY <2>1 DEF Steps, Now, Callbacks
<1>2. /\ Occurs(Tail(ready), <<"done", Now>>) = Occurs(ready, <<"done", Now>>)
      /\ Occurs(ready, <<"step", Now>>) = Occurs(Tail(ready), <<"step", Now>>) + 1
      /\ Occurs(Tail(ready), <<"step", Now>>) \in Nat /\ Occurs(ready, <<"done", Now>>) \in Nat
  <2>1. <<"done", Now>> # <<"step", Now>>
    OBVIOUS
  <2> QED  BY <1>1, <2>1, CallbackTaken
<1>3. Now \in DOMAIN tasks /\ Balanced(tasks, ready, Now)
  BY <1>1, CallbackTaken DEF Book
<1>4. Me.left = 0 /\ Occurs(Tail(ready), <<"step", Now>>) = 0
  BY <1>2, <1>3 DEF Balanced, Me
<1>5. Cardinality(Children(tasks, Now)) \in Nat /\ IsFiniteSet(Children(tasks, Now))
  BY FiniteChildren DEF Book, Entered
<1>6. Cardinality(Children(tasks, Now)) = 0 /\ Occurs(ready, <<"done", Now>>) = 0
  BY <1>2, <1>3, <1>4, <1>5 DEF Balanced, Me
<1>7. Children(tasks, Now) = {}
  BY <1>5, <1>6, FS_EmptySet
<1>8. ASSUME NEW i \in DOMAIN tasks \ {Now} PROVE Balanced(tasks, Tail(ready), i)
  <2>1. <<"done", i>> # <<"step", Now>> /\ <<"step", i>> # <<"step", Now>>
    OBVIOUS
  <2>2. /\ Occurs(Tail(ready), <<"done", i>>) = Occurs(ready, <<"done", i>>)
        /\ Occurs(Tail(ready), <<"step", i>>) = Occurs(ready, <<"step", i>>)
    BY <1>1, <2>1, CallbackTaken
  <2>3. Balanced(tasks, ready, i)
    BY DEF Book
  <2> QED  BY <2>2, <2>3 DEF Balanced
<1> QED  BY <1>2, <1>3, <1>4, <1>6, <1>7, <1>8

LEMMA RankOk ==
    ASSUME rank \in Ranks, NEW type \in Types
    PROVE  /\ rank[type] \in Seq(Handlers(type)) /\ rank[type] # <<>>
           /\ DOMAIN rank[type] = 1 .. Len(rank[type]) /\ Len(rank[type]) \in Nat \ {0}
           /\ \A k \in DOMAIN rank[type] : rank[type][k] \in Handlers(type)
           /\ \A j, k \in DOMAIN rank[type] : rank[type][j] = rank[type][k] => j = k
           /\ \A h \in Handlers(type) : \E k \in DOMAIN rank[type] : rank[type][k] = h
<1>1. rank[type] \in Seq(Handlers(type)) /\ IsInjective(rank[type]) /\ Range(rank[type]) = Handlers(type)
  BY RanksAssumption
<1>2. "recorder" \in Handlers(type)
  BY DEF Handlers
<1>3. \A h \in Handlers(type) : \E k \in DOMAIN rank[type] : rank[type][k] = h
  BY <1>1 DEF Range
<1>4. rank[type] # <<>>
  BY <1>2, <1>3
<1> QED  BY <1>1, <1>3, <1>4 DEF IsInjective

LEMMA DeliverBook ==
    ASSUME Book(tasks, ready), Steps, tasks[Now] \in Works(Requests), rank \in Ranks,
           NEW e, e.type \in Types, NEW rest \in Lists(Requests), Deliver(e, rest)
    PROVE  /\ Book(tasks', ready') /\ rank' = rank
           /\ Spawned(Resume(rest), Tail(ready), Now, e, rank[e.type], tasks', ready')
           /\ \A i \in DOMAIN tasks : i <= Max(DOMAIN tasks)
           /\ Max(DOMAIN tasks) \in DOMAIN tasks
<1> DEFINE ts == Resume(rest)
           me == [tasks[Now] EXCEPT !.resumed = TRUE, !.rest = rest]
<1>1. Now \in DOMAIN tasks /\ Entered(tasks, Tail(ready))
  BY CallbackTaken DEF Steps
<1>2. me \in Works(Requests) /\ me.by = tasks[Now].by
  BY DEF Works
<1>3. DOMAIN ts = DOMAIN tasks /\ ts[Now] = me /\ \A i \in DOMAIN tasks \ {Now} : ts[i] = tasks[i]
  BY <1>1 DEF Resume
<1> HIDE DEF ts, me
<1>4. \A i \in DOMAIN tasks : ts[i].by = tasks[i].by
  BY <1>2, <1>3
<1>5. \A i : Children(ts, i) = Children(tasks, i)
  BY <1>3, <1>4 DEF Children
<1>6. Entered(ts, Tail(ready))
  BY <1>1, <1>3, <1>4 DEF Entered
<1>7. \A i \in DOMAIN ts \ {Now} : Balanced(ts, Tail(ready), i)
  BY <1>3, <1>5, Current DEF Balanced
<1>8. Apart(ts, Tail(ready), Now)
  BY <1>1, <1>2, <1>3, <1>5, <1>6, <1>7, Current DEF Apart
<1>9. Gather(ts, Tail(ready), Now, e)
  BY DEF Deliver, ts
<1>10. IsFiniteSet(DOMAIN ts) /\ DOMAIN ts \subseteq Nat \ {0} /\ Now \in DOMAIN ts
  BY <1>1, <1>3, <1>6 DEF Entered
<1>11. rank[e.type] \in Seq(Handlers(e.type)) /\ rank[e.type] # <<>>
  BY RankOk
<1>12. /\ Spawned(ts, Tail(ready), Now, e, rank[e.type], tasks', ready') /\ rank' = rank
       /\ Max(DOMAIN ts) \in DOMAIN ts /\ \A i \in DOMAIN ts : i <= Max(DOMAIN ts)
  BY <1>9, <1>10, <1>11, GatherSpawns
<1>13. Book(tasks', ready')
  BY <1>8, <1>11, <1>12, SpawnBook
<1> QED  BY <1>3, <1>12, <1>13 DEF ts

LEMMA EnterBook ==
    ASSUME Book(tasks, ready), rank \in Ranks, NEW h \in {"client", "replay"},
           NEW e \in Messages(Requests), NEW rest \in Lists(Requests), Enter(h, e, rest)
    PROVE  /\ Book(tasks', ready') /\ rank' = rank
           /\ Spawned(Hosted(h, e, rest), ready, NextId, e, rank[e.type], tasks', ready')
           /\ NextId \in Nat \ {0} /\ \A i \in DOMAIN tasks : i < NextId
           /\ Max(DOMAIN tasks \cup {NextId}) = NextId
<1> DEFINE ts == Hosted(h, e, rest)
           t == NextId
           host == [Task(h, e, 0) EXCEPT !.resumed = TRUE, !.rest = rest]
<1>1. IsFiniteSet(DOMAIN tasks) /\ DOMAIN tasks \subseteq Nat \ {0}
  BY DEF Book, Entered
<1>2. t \in Nat \ {0} /\ \A i \in DOMAIN tasks : i < t
  <2> DEFINE all == {0} \cup DOMAIN tasks
  <2>1. all \in SUBSET Nat /\ all # {}
    BY <1>1
  <2>2. IsFiniteSet(all)
    BY <1>1, FS_Singleton, FS_Union
  <2>3. Max(all) \in all /\ \A i \in all : Max(all) >= i
    <3> HIDE DEF all
    <3> QED  BY <2>1, <2>2, Greatest
  <2>4. Max(all) \in Nat /\ \A i \in DOMAIN tasks : Max(all) >= i
    BY <2>1, <2>3
  <2>5. t = Max(all) + 1
    BY DEF NextId
  <2> HIDE DEF all, t
  <2> QED  BY <1>1, <2>4, <2>5
<1>3. host \in Works(Requests) /\ host.by = 0
  BY DEF Works, Task
<1>4. DOMAIN ts = DOMAIN tasks \cup {t} /\ ts[t] = host /\ \A i \in DOMAIN tasks : ts[i] = tasks[i]
  <2>1. ts = [i \in DOMAIN tasks \cup {t} |-> IF i = t THEN host ELSE tasks[i]]
    BY DEF Hosted
  <2>2. t \notin DOMAIN tasks
    BY <1>1, <1>2
  <2> HIDE DEF ts, t, host
  <2> QED  BY <2>1, <2>2 
<1> HIDE DEF ts, t, host
<1>5. \A i : i # 0 => Children(ts, i) = Children(tasks, i)
  BY <1>3, <1>4 DEF Children
<1>6. ready \in Seq(Callbacks) /\ \A n \in DOMAIN ready : ready[n][2] \in DOMAIN tasks
  BY DEF Book, Entered
<1>7. Entered(ts, ready)
  <2>1. IsFiniteSet(DOMAIN ts)
    BY <1>1, <1>4, FS_AddElement
  <2>2. \A i \in DOMAIN tasks : tasks[i].by \in {0} \cup DOMAIN tasks /\ tasks[i].by < i
    BY DEF Book, Entered
  <2>3. \A i \in DOMAIN ts : ts[i].by \in {0} \cup DOMAIN ts /\ ts[i].by < i
    BY <1>2, <1>3, <1>4, <2>2
  <2> QED  BY <1>1, <1>2, <1>4, <1>6, <2>1, <2>3 DEF Entered
<1>8. \A i \in DOMAIN ts \ {t} : Balanced(ts, ready, i)
  <2>1. \A i \in DOMAIN tasks : Balanced(tasks, ready, i) /\ i # 0
    BY <1>1 DEF Book
  <2> QED  BY <1>4, <1>5, <2>1 DEF Balanced
<1>9. Children(ts, t) = {}
  <2>1. \A i \in DOMAIN tasks : tasks[i].by # t
    BY <1>1, <1>2 DEF Book, Entered
  <2> QED  BY <1>2, <1>5, <2>1 DEF Children
<1>10. \A x : Occurs(ready, <<x, t>>) = 0
  <2>1. \A n \in DOMAIN ready : ready[n][2] # t
    BY <1>1, <1>2, <1>6
  <2>2. \A x : \A n \in DOMAIN ready : ready[n] # <<x, t>>
    BY <2>1
  <2> QED  BY <2>2, OccursAbsent
<1>11. Apart(ts, ready, t)
  BY <1>3, <1>4, <1>7, <1>8, <1>9, <1>10 DEF Apart
<1>12. Gather(ts, ready, t, e)
  BY DEF Enter, ts, t
<1>13. IsFiniteSet(DOMAIN ts) /\ DOMAIN ts \subseteq Nat \ {0} /\ t \in DOMAIN ts
  BY <1>4, <1>7 DEF Entered
<1>14. e.type \in Types
  BY DEF Messages
<1>15. rank[e.type] \in Seq(Handlers(e.type)) /\ rank[e.type] # <<>>
  BY <1>14, RankOk
<1>16. /\ Spawned(ts, ready, t, e, rank[e.type], tasks', ready') /\ rank' = rank
       /\ Max(DOMAIN ts) \in DOMAIN ts /\ \A i \in DOMAIN ts : i <= Max(DOMAIN ts)
  BY <1>12, <1>13, <1>15, GatherSpawns
<1>17. Book(tasks', ready')
  BY <1>11, <1>15, <1>16, SpawnBook
<1>18. Max(DOMAIN tasks \cup {t}) = t
  <2>1. Max(DOMAIN tasks \cup {t}) \in DOMAIN tasks \cup {t} /\ t <= Max(DOMAIN tasks \cup {t})
    BY <1>4, <1>16
  <2> QED  BY <1>1, <1>2, <2>1
<1> QED  BY <1>2, <1>16, <1>17, <1>18 DEF ts, t

\* At most one callback becomes due when a task ends or is told of an end.
Added(q, q2, new, c) ==
    /\ q2 \in Seq(Callbacks)
    /\ \A n \in DOMAIN q2 : (n \in DOMAIN q /\ q2[n] = q[n]) \/ (new # <<>> /\ q2[n] = c)
    /\ \A x : Occurs(q2, x) = Occurs(q, x) + (IF new # <<>> /\ x = c THEN 1 ELSE 0)

LEMMA OneMore ==
    ASSUME NEW q \in Seq(Callbacks), NEW c, NEW new, NEW q2, q2 = Due(q, new),
           new = <<>> \/ (new = <<c>> /\ c \in Callbacks)
    PROVE  Added(q, q2, new, c)
<1>1. CASE new = <<c>> /\ c \in Callbacks
  <2>1. q2 = q \o <<c>> /\ <<c>> \in Seq(Callbacks) /\ new # <<>>
    BY <1>1 DEF Due
  <2>2. q2 \in Seq(Callbacks) /\ \A n \in DOMAIN q2 : (n \in DOMAIN q /\ q2[n] = q[n]) \/ q2[n] = c
    <3>1. q2 \in Seq(Callbacks)
      BY <2>1
    <3>2. DOMAIN q2 = 1 .. Len(q) + 1 /\ DOMAIN q = 1 .. Len(q) /\ Len(q) \in Nat
          /\ (\A n \in 1 .. Len(q) : q2[n] = q[n]) /\ q2[Len(q) + 1] = c
      BY <2>1
    <3> QED  BY <3>1, <3>2
  <2>3. \A x : Occurs(q \o <<c>>, x) = Occurs(q, x) + Occurs(<<c>>, x)
    BY <2>1, OccursConcat
  <2>4. \A x : Occurs(<<c>>, x) = IF c = x THEN 1 ELSE 0
    BY OccursOne
  <2> QED  BY <2>1, <2>2, <2>3, <2>4 DEF Added
<1>2. CASE new = <<>>
  <2>1. q2 = q
    BY <1>2 DEF Due
  <2>2. \A x : Occurs(q, x) \in Nat
    BY OccursType
  <2> QED  BY <1>2, <2>1, <2>2 DEF Added
<1> QED  BY <1>1, <1>2

LEMMA FinishBook ==
    ASSUME Book(tasks, ready), Steps, Finish
    PROVE  /\ Book(tasks', ready') /\ rank' = rank /\ Now \in DOMAIN tasks
           /\ DOMAIN tasks' = DOMAIN tasks \ {Now} /\ tasks' = [i \in DOMAIN tasks' |-> tasks'[i]]
           /\ \A i \in DOMAIN tasks' : tasks'[i] = tasks[i]
           /\ \A n \in DOMAIN ready' :
                 (n \in DOMAIN Tail(ready) /\ ready'[n] = Tail(ready)[n]) \/ ready'[n][1] = "done"
           /\ Len(ready') >= Len(Tail(ready))
<1> DEFINE b == Me.by
           q == Tail(ready)
           more == IF b # 0 THEN << <<"done", b>> >> ELSE <<>>
<1>1. /\ Now \in DOMAIN tasks /\ Entered(tasks, q) /\ q \in Seq(Callbacks)
      /\ \A x : Occurs(q, x) \in Nat
  BY CallbackTaken DEF Steps
<1>2. /\ IsFiniteSet(DOMAIN tasks) /\ DOMAIN tasks \subseteq Nat \ {0}
      /\ b \in {0} \cup DOMAIN tasks /\ b < Now
      /\ \A i \in DOMAIN tasks : tasks[i].by \in {0} \cup DOMAIN tasks /\ tasks[i].by < i
  BY <1>1 DEF Entered, Me
<1>3. /\ tasks' = [i \in DOMAIN tasks \ {Now} |-> tasks[i]]
      /\ ready' = Due(q, more) /\ rank' = rank
  BY DEF Finish
<1>4. /\ DOMAIN tasks' = DOMAIN tasks \ {Now} /\ tasks' = [i \in DOMAIN tasks' |-> tasks'[i]]
      /\ \A i \in DOMAIN tasks' : tasks'[i] = tasks[i]
  BY <1>3
<1>5. /\ ready' \in Seq(Callbacks)
      /\ \A n \in DOMAIN ready' : (n \in DOMAIN q /\ ready'[n] = q[n]) \/ (b # 0 /\ ready'[n] = <<"done", b>>)
      /\ \A x : Occurs(ready', x) = Occurs(q, x) + (IF b # 0 /\ x = <<"done", b>> THEN 1 ELSE 0)
  <2> DEFINE c == <<"done", b>>
  <2>1. b # 0 => c \in Callbacks
    BY <1>2 DEF Callbacks
  <2>2. (b # 0 <=> more # <<>>) /\ (more = <<>> \/ (more = <<c>> /\ c \in Callbacks))
    BY <2>1
  <2> HIDE DEF b, q, more, c
  <2>3. Added(q, ready', more, c)
    BY <1>1, <1>3, <2>2, OneMore, Zenon
  <2>4. \A n \in DOMAIN ready' : (n \in DOMAIN q /\ ready'[n] = q[n]) \/ (b # 0 /\ ready'[n] = c)
    BY <2>2, <2>3 DEF Added
  <2>5. \A x : Occurs(ready', x) = Occurs(q, x) + (IF b # 0 /\ x = c THEN 1 ELSE 0)
    BY <2>2, <2>3 DEF Added
  <2>6. ready' \in Seq(Callbacks)
    BY <2>3 DEF Added
  <2> QED  BY <2>4, <2>5, <2>6 DEF c
<1> HIDE DEF b, q, more
<1>6. Children(tasks, Now) = {} /\ \A i \in DOMAIN tasks \ {Now} : Balanced(tasks, q, i)
  BY Current DEF q
<1>7. Entered(tasks', ready')
  <2>1. IsFiniteSet(DOMAIN tasks')
    BY <1>2, <1>4, FS_RemoveElement
  <2>2. \A i \in DOMAIN tasks : tasks[i].by # Now
    BY <1>6 DEF Children
  <2>3. Occurs(q, <<"step", Now>>) = 0 /\ Occurs(q, <<"done", Now>>) = 0
    BY Current DEF q
  <2>4. ASSUME NEW n \in DOMAIN q PROVE q[n][2] \in DOMAIN tasks \ {Now}
    <3>1. q[n] \in Callbacks /\ q[n][2] \in DOMAIN tasks
      BY <1>1 DEF Entered
    <3>2. ASSUME q[n][2] = Now PROVE FALSE
      <4>1. PICK x : q[n] = <<x, Now>> /\ x \in {"step", "done"}
        BY <3>1, <3>2 DEF Callbacks
      <4>2. IsFiniteSet({m \in DOMAIN q : q[m] = <<x, Now>>})
        BY <1>1, OccursType
      <4>3. Cardinality({m \in DOMAIN q : q[m] = <<x, Now>>}) = 0
        BY <2>3, <4>1 DEF Occurs
      <4> QED  BY <4>1, <4>2, <4>3, FS_EmptySet
    <3> QED  BY <3>1, <3>2
  <2>5. b # 0 => b \in DOMAIN tasks \ {Now}
    BY <1>1, <1>2
  <2>6. \A n \in DOMAIN ready' : ready'[n][2] \in DOMAIN tasks'
    BY <1>4, <1>5, <2>4, <2>5
  <2>7. \A i \in DOMAIN tasks' : tasks'[i].by \in {0} \cup DOMAIN tasks' /\ tasks'[i].by < i
    BY <1>2, <1>4, <2>2
  <2> QED  BY <1>2, <1>4, <1>5, <2>1, <2>6, <2>7 DEF Entered
<1>8. ASSUME NEW i \in DOMAIN tasks' PROVE Balanced(tasks', ready', i)
  <2>1. Balanced(tasks, q, i) /\ i # 0 /\ tasks'[i] = tasks[i]
    BY <1>2, <1>4, <1>6
  <2>2. Children(tasks', i) = Children(tasks, i) \ {Now}
    BY <1>4 DEF Children
  <2>3. IsFiniteSet(Children(tasks, i)) /\ Cardinality(Children(tasks, i)) \in Nat
    BY <1>2, FiniteChildren
  <2>4. Now \in Children(tasks, i) <=> b = i
    BY <1>1 DEF Children, b, Me
  <2>5. Cardinality(Children(tasks', i)) =
          IF b = i THEN Cardinality(Children(tasks, i)) - 1 ELSE Cardinality(Children(tasks, i))
    BY <2>2, <2>3, <2>4, FS_RemoveElement
  <2>6. /\ Occurs(ready', <<"done", i>>) = Occurs(q, <<"done", i>>) + (IF b = i THEN 1 ELSE 0)
        /\ Occurs(ready', <<"step", i>>) = Occurs(q, <<"step", i>>)
    <3>1. <<"step", i>> # <<"done", b>> /\ (<<"done", i>> = <<"done", b>> <=> b = i)
      OBVIOUS
    <3>2. Occurs(q, <<"done", i>>) \in Nat /\ Occurs(q, <<"step", i>>) \in Nat
      BY <1>1
    <3> QED  BY <1>5, <2>1, <3>1, <3>2
  <2>7. Occurs(q, <<"done", i>>) \in Nat
    BY <1>1
  <2>8. /\ tasks[i].left = Cardinality(Children(tasks, i)) + Occurs(q, <<"done", i>>)
        /\ Occurs(q, <<"step", i>>) = IF tasks[i].left = 0 THEN 1 ELSE 0
    BY <2>1 DEF Balanced
  <2>9. tasks[i].left = Cardinality(Children(tasks', i)) + Occurs(ready', <<"done", i>>)
    BY <2>3, <2>5, <2>6, <2>7, <2>8
  <2> QED  BY <2>1, <2>6, <2>8, <2>9 DEF Balanced
<1>9. Len(ready') >= Len(q)
  BY <1>1, <1>3 DEF Due, more
<1>10. Book(tasks', ready')
  BY <1>7, <1>8 DEF Book
<1>11. \A n \in DOMAIN ready' : (n \in DOMAIN q /\ ready'[n] = q[n]) \/ ready'[n][1] = "done"
  BY <1>5
<1> QED  BY <1>1, <1>3, <1>4, <1>9, <1>10, <1>11 DEF q

\* The last of those it waits for wakes a task.
LEMMA WokenBook ==
    ASSUME Book(tasks, ready), Woken, NEW t, t = Head(ready)[2], t \in DOMAIN tasks => tasks[t] \in Works(Requests)
    PROVE  /\ Book(tasks', ready') /\ rank' = rank
           /\ t \in DOMAIN tasks /\ tasks[t].left # 0
           /\ tasks' = [tasks EXCEPT ![t] = [tasks[t] EXCEPT !.left = tasks[t].left - 1]]
           /\ ready' = Tail(ready) \/ ready' = Append(Tail(ready), <<"step", t>>)
<1> DEFINE q == Tail(ready)
           c == <<"step", t>>
           more == IF tasks[t].left = 1 THEN << c >> ELSE <<>>
           k == [tasks[t] EXCEPT !.left = tasks[t].left - 1]
<1>1. ready # <<>> /\ Head(ready)[1] = "done"
  BY DEF Woken
<1>2. /\ Entered(tasks, q) /\ q \in Seq(Callbacks) /\ t \in DOMAIN tasks
      /\ \A x : Occurs(q, x) \in Nat
  BY <1>1, CallbackTaken DEF Now
<1>3. Head(ready) = <<"done", t>>
  <2>1. Head(ready) \in Callbacks
    BY <1>1, CallbackTaken
  <2> QED  BY <1>1, <2>1 DEF Callbacks
<1>4. tasks' = [tasks EXCEPT ![t] = k] /\ ready' = Due(q, more) /\ rank' = rank
  BY DEF Woken
<1>5. /\ tasks[t] \in Works(Requests) /\ k.by = tasks[t].by /\ k.left = tasks[t].left - 1
      /\ tasks[t].left \in Nat
  <2>1. tasks[t] \in Works(Requests)
    BY <1>2
  <2> QED  BY <2>1 DEF Works
<1>6. /\ Occurs(ready, <<"done", t>>) = Occurs(q, <<"done", t>>) + 1
      /\ \A x : x # <<"done", t>> => Occurs(q, x) = Occurs(ready, x)
  BY <1>1, <1>3, CallbackTaken
<1>7. c \in Callbacks /\ t \in Nat \ {0}
  BY <1>2 DEF Callbacks, Entered
<1>8. more = <<>> \/ (more = <<c>> /\ c \in Callbacks)
  BY <1>7
<1> HIDE DEF q, c, more, k
<1>9. Added(q, ready', more, c)
  BY <1>2, <1>4, <1>8, OneMore, Zenon
<1>10. /\ DOMAIN tasks' = DOMAIN tasks /\ tasks'[t] = k
       /\ \A i \in DOMAIN tasks \ {t} : tasks'[i] = tasks[i]
       /\ \A i \in DOMAIN tasks : tasks'[i].by = tasks[i].by
  BY <1>2, <1>4, <1>5
<1>11. \A i : Children(tasks', i) = Children(tasks, i)
  BY <1>10 DEF Children
<1>12. more # <<>> <=> tasks[t].left = 1
  BY DEF more
<1>13. Entered(tasks', ready')
  <2>1. \A n \in DOMAIN ready' : ready'[n][2] \in DOMAIN tasks
    BY <1>2, <1>9 DEF Added, Entered, c
  <2>2. ready' \in Seq(Callbacks)
    BY <1>9 DEF Added
  <2> QED  BY <1>2, <1>10, <2>1, <2>2 DEF Entered
<1>14. Balanced(tasks, ready, t)
  BY <1>2 DEF Book
<1>15. Cardinality(Children(tasks, t)) \in Nat
  BY <1>2, FiniteChildren DEF Entered
<1>16. tasks[t].left # 0
  BY <1>2, <1>6, <1>14, <1>15 DEF Balanced
<1>17. ASSUME NEW i \in DOMAIN tasks PROVE Balanced(tasks', ready', i)
  <2>1. /\ Occurs(ready', <<"done", i>>) = Occurs(q, <<"done", i>>)
        /\ Occurs(ready', <<"step", i>>)
             = Occurs(q, <<"step", i>>) + (IF tasks[t].left = 1 /\ i = t THEN 1 ELSE 0)
    <3>1. <<"done", i>> # c /\ (<<"step", i>> = c <=> i = t)
      BY DEF c
    <3>2. Occurs(q, <<"done", i>>) \in Nat
      BY <1>2
    <3> QED  BY <1>9, <1>12, <3>1, <3>2 DEF Added
  <2>2. Occurs(q, <<"step", i>>) = Occurs(ready, <<"step", i>>) /\ Occurs(q, <<"step", i>>) \in Nat
    <3>1. <<"step", i>> # <<"done", t>>
      OBVIOUS
    <3> QED  BY <1>2, <1>6, <3>1
  <2>3. Balanced(tasks, ready, i)
    BY DEF Book
  <2>4. CASE i = t
    <3>1. /\ Occurs(q, <<"done", t>>) \in Nat
          /\ tasks'[t].left = tasks[t].left - 1
      BY <1>2, <1>5, <1>10
    <3>2. tasks[t].left = Cardinality(Children(tasks, t)) + Occurs(q, <<"done", t>>) + 1
      BY <1>6, <1>14, <1>15, <3>1 DEF Balanced
    <3>3. Occurs(ready, <<"step", t>>) = 0
      BY <1>14, <1>16 DEF Balanced
    <3>4. tasks'[t].left = Cardinality(Children(tasks', t)) + Occurs(ready', <<"done", t>>)
      BY <1>11, <1>15, <2>1, <2>4, <3>1, <3>2
    <3>5. Occurs(ready', <<"step", t>>) = IF tasks'[t].left = 0 THEN 1 ELSE 0
      BY <1>5, <2>1, <2>2, <2>4, <3>1, <3>3
    <3> QED  BY <2>4, <3>4, <3>5 DEF Balanced
  <2>5. CASE i # t
    <3>1. <<"done", i>> # <<"done", t>>
      BY <2>5
    <3>2. Occurs(q, <<"done", i>>) = Occurs(ready, <<"done", i>>)
      BY <1>6, <3>1
    <3>3. tasks'[i] = tasks[i]
      BY <1>10, <2>5
    <3> QED  BY <1>11, <2>1, <2>2, <2>3, <2>5, <3>2, <3>3 DEF Balanced
  <2> QED  BY <2>4, <2>5
<1>18. Book(tasks', ready')
  BY <1>10, <1>13, <1>17 DEF Book
<1>19. ready' = q \/ ready' = Append(q, c)
  <2>1. q \in Seq(Callbacks) => q \o <<>> = q /\ (c \in Callbacks => q \o <<c>> = Append(q, c))
    OBVIOUS
  <2> QED  BY <1>2, <1>4, <1>7, <1>8, <2>1 DEF Due
<1> QED  BY <1>2, <1>4, <1>16, <1>18, <1>19 DEF q, c, k

\* When nothing is due, nobody waits: the youngest task waits for none.
LEMMA NothingLeft ==
    ASSUME Book(tasks, ready), Idle, tasks = [t \in DOMAIN tasks |-> tasks[t]]
    PROVE  tasks = <<>>
<1>1. SUFFICES ASSUME DOMAIN tasks # {} PROVE FALSE
  OBVIOUS
<1>2. IsFiniteSet(DOMAIN tasks) /\ DOMAIN tasks \subseteq Nat \ {0}
  BY DEF Book, Entered
<1> DEFINE t == Max(DOMAIN tasks)
<1>3. t \in DOMAIN tasks /\ \A i \in DOMAIN tasks : t >= i
  <2>1. DOMAIN tasks \in SUBSET Nat
    BY <1>2
  <2> QED  BY <1>1, <1>2, <2>1, Greatest
<1> HIDE DEF t
<1>4. Children(tasks, t) = {}
  <2>1. \A i \in DOMAIN tasks : tasks[i].by < i
    BY DEF Book, Entered
  <2>2. ASSUME NEW i \in DOMAIN tasks PROVE tasks[i].by # t
    BY <1>2, <1>3, <2>1, <2>2
  <2> QED  BY <2>2 DEF Children
<1>5. Occurs(ready, <<"done", t>>) = 0 /\ Occurs(ready, <<"step", t>>) = 0
  BY OccursNone DEF Idle
<1>6. Balanced(tasks, ready, t)
  BY <1>3 DEF Book
<1> QED  BY <1>4, <1>5, <1>6, FS_EmptySet DEF Balanced

(***************************************************************************)
(* What a step of the loop leaves: the books in order, and tasks that are  *)
(* what their handlers expect.                                             *)
(***************************************************************************)
LoopOk(ts, queue, S, cor) == Book(ts, queue) /\ WorksOk(ts, S, cor)

RestOk(h, rest, S) ==
    /\ rest \in Lists(S) /\ h # "recorder"
    /\ h = "replay" => rest \in Seq(Messages(S))
    /\ h = "tracker" => rest \in Seq(Pairs(S))
    /\ h = "discovery" => rest \in Seq(Suppliers)

LEMMA HandlersHear == \A type : Handlers(type) \subseteq Hearers
BY DEF Handlers, Agents, Hearers

LEMMA SetsGrow ==
    ASSUME NEW S, NEW T, S \subseteq T
    PROVE  /\ Messages(S) \subseteq Messages(T) /\ Pairs(S) \subseteq Pairs(T)
           /\ Seq(Messages(S)) \subseteq Seq(Messages(T)) /\ Seq(Pairs(S)) \subseteq Seq(Pairs(T))
           /\ Lists(S) \subseteq Lists(T) /\ Works(S) \subseteq Works(T)
           /\ Expectations(S) \subseteq Expectations(T)
           /\ Seq(Expectations(S)) \subseteq Seq(Expectations(T))
<1>1. Messages(S) \subseteq Messages(T) /\ Pairs(S) \subseteq Pairs(T)
      /\ Expectations(S) \subseteq Expectations(T)
  BY DEF Messages, Pairs, Expectations
<1>2. \A A, B : A \subseteq B => Seq(A) \subseteq Seq(B)
  OBVIOUS
<1>3. /\ Seq(Messages(S)) \subseteq Seq(Messages(T)) /\ Seq(Pairs(S)) \subseteq Seq(Pairs(T))
      /\ Seq(Expectations(S)) \subseteq Seq(Expectations(T))
  BY <1>1, <1>2, Zenon
<1>4. Lists(S) \subseteq Lists(T)
  BY <1>3 DEF Lists
<1>5. Works(S) \subseteq Works(T)
  BY <1>1, <1>4 DEF Works
<1> QED  BY <1>1, <1>3, <1>4, <1>5

LEMMA WorksGrow ==
    ASSUME NEW ts, NEW S, NEW T, NEW cor, NEW cor2, S \subseteq T, cor \in S => cor2 \in T,
           WorksOk(ts, S, cor)
    PROVE  WorksOk(ts, T, cor2)
<1>1. /\ Works(S) \subseteq Works(T) /\ Seq(Messages(S)) \subseteq Seq(Messages(T))
      /\ Seq(Pairs(S)) \subseteq Seq(Pairs(T))
  BY SetsGrow
<1>2. ASSUME NEW t \in DOMAIN ts PROVE WorkOk(ts[t], T, cor2)
  BY <1>1 DEF WorksOk, WorkOk
<1> QED  BY <1>2 DEF WorksOk

LEMMA NewTask ==
    ASSUME NEW S, NEW e \in Messages(S), NEW h \in Handlers(e.type), NEW t \in Nat, NEW cor
    PROVE  WorkOk(Task(h, e, t), S, cor)
<1>1. h \in Hearers
  BY HandlersHear
<1>2. <<>> \in Lists(S) /\ <<>> \in Seq(Messages(S)) /\ <<>> \in Seq(Pairs(S)) /\ <<>> \in Seq(Suppliers)
  BY DEF Lists
<1>3. Task(h, e, t) \in Works(S)
  BY <1>1, <1>2 DEF Works, Task
<1>4. h \notin {"replay"}
  BY <1>1 DEF Hearers
<1> QED  BY <1>2, <1>3, <1>4 DEF WorkOk, Task

LEMMA SpawnWorks ==
    ASSUME NEW ts, NEW S, NEW cor, \A i \in DOMAIN ts : WorkOk(ts[i], S, cor),
           NEW t \in Nat, t \in DOMAIN ts, ts[t].resumed, NEW e \in Messages(S), rank \in Ranks,
           NEW q, NEW ts2, NEW q2, Spawned(ts, q, t, e, rank[e.type], ts2, q2)
    PROVE  WorksOk(ts2, S, cor)
<1> DEFINE order == rank[e.type]
           first == Max(DOMAIN ts)
<1>1. e.type \in Types
  BY DEF Messages
<1>2. /\ Len(order) \in Nat
      /\ \A k \in DOMAIN order : order[k] \in Handlers(e.type)
  BY <1>1, RankOk
<1> HIDE DEF order, first
<1>3. /\ DOMAIN ts2 = DOMAIN ts \cup {first + k : k \in DOMAIN order}
      /\ ts2 = [i \in DOMAIN ts2 |-> ts2[i]]
      /\ \A i \in DOMAIN ts \ {t} : ts2[i] = ts[i]
      /\ ts2[t] = [ts[t] EXCEPT !.left = Len(order)]
      /\ \A k \in DOMAIN order : ts2[first + k] = Task(order[k], e, t)
  BY DEF Spawned, order, first
<1>4. WorkOk(ts2[t], S, cor)
  <2>1. WorkOk(ts[t], S, cor)
    OBVIOUS
  <2> DEFINE k == ts[t]
             k2 == [k EXCEPT !.left = Len(order)]
  <2>2. /\ k2 \in Works(S) /\ k2.h = k.h /\ k2.e = k.e /\ k2.rest = k.rest
        /\ k2.resumed = k.resumed
    BY <1>2, <2>1 DEF WorkOk, Works
  <2>3. k2 = ts2[t]
    BY <1>3
  <2> HIDE DEF k2
  <2> QED  BY <2>1, <2>2, <2>3 DEF WorkOk
<1>5. ASSUME NEW k \in DOMAIN order PROVE WorkOk(ts2[first + k], S, cor)
  <2>1. WorkOk(Task(order[k], e, t), S, cor)
    BY <1>2, NewTask
  <2> QED  BY <1>3, <2>1
<1>6. ASSUME NEW i \in DOMAIN ts2 PROVE WorkOk(ts2[i], S, cor)
  <2>1. CASE i \in DOMAIN ts
    BY <1>3, <1>4, <2>1
  <2>2. CASE i \notin DOMAIN ts
    BY <1>3, <1>5, <2>2
  <2> QED  BY <2>1, <2>2
<1> QED  BY <1>3, <1>6 DEF WorksOk

LEMMA DeliverOk ==
    ASSUME NEW S, S \subseteq Requests, NEW cor, LoopOk(tasks, ready, S, cor), rank \in Ranks, Steps,
           NEW cor2, cor \in S => cor2 \in S, Me.h = "discovery" => cor2 \in S,
           NEW e \in Messages(S), NEW rest, RestOk(Me.h, rest, S), Deliver(e, rest)
    PROVE  /\ LoopOk(tasks', ready', S, cor2) /\ rank' = rank /\ Now \in DOMAIN tasks
           /\ Spawned(Resume(rest), Tail(ready), Now, e, rank[e.type], tasks', ready')
           /\ \A i \in DOMAIN tasks : i <= Max(DOMAIN tasks)
           /\ Max(DOMAIN tasks) \in DOMAIN tasks /\ Max(DOMAIN tasks) \in Nat
<1>1. Now \in DOMAIN tasks /\ Now \in Nat /\ DOMAIN tasks \subseteq Nat
  BY CallbackTaken DEF Steps, LoopOk, Book, Entered
<1>2. WorkOk(tasks[Now], S, cor) /\ tasks[Now] = Me
  BY <1>1 DEF LoopOk, WorksOk, Me
<1>3. tasks[Now] \in Works(Requests) /\ rest \in Lists(Requests)
  BY <1>2, SetsGrow DEF WorkOk, RestOk
<1>4. e.type \in Types
  BY DEF Messages
<1>5. /\ Book(tasks', ready') /\ rank' = rank
      /\ Spawned(Resume(rest), Tail(ready), Now, e, rank[e.type], tasks', ready')
      /\ \A i \in DOMAIN tasks : i <= Max(DOMAIN tasks)
      /\ Max(DOMAIN tasks) \in DOMAIN tasks
  BY <1>3, <1>4, DeliverBook DEF LoopOk
<1> DEFINE me == [tasks[Now] EXCEPT !.resumed = TRUE, !.rest = rest]
<1>6. /\ me \in Works(S) /\ me.h = tasks[Now].h /\ me.e = tasks[Now].e /\ me.rest = rest
      /\ me.resumed
  BY <1>2 DEF WorkOk, Works, RestOk
<1>7. /\ DOMAIN Resume(rest) = DOMAIN tasks /\ Resume(rest)[Now] = me
      /\ \A i \in DOMAIN tasks \ {Now} : Resume(rest)[i] = tasks[i]
  BY <1>1 DEF Resume
<1> HIDE DEF me
<1>8. WorkOk(me, S, cor2)
  BY <1>2, <1>6 DEF WorkOk, RestOk
<1>9. \A i \in DOMAIN tasks : WorkOk(tasks[i], S, cor2)
  <2>1. WorksOk(tasks, S, cor2)
    BY WorksGrow DEF LoopOk
  <2> QED  BY <2>1 DEF WorksOk
<1>10. \A i \in DOMAIN Resume(rest) : WorkOk(Resume(rest)[i], S, cor2)
  BY <1>7, <1>8, <1>9
<1>11. WorksOk(tasks', S, cor2)
  BY <1>1, <1>5, <1>6, <1>7, <1>10, SpawnWorks
<1> QED  BY <1>1, <1>5, <1>11 DEF LoopOk

LEMMA EnterOk ==
    ASSUME NEW S, S \subseteq Requests, NEW cor, LoopOk(tasks, ready, S, cor), rank \in Ranks,
           NEW h \in {"client", "replay"}, NEW e \in Messages(S), NEW rest, RestOk(h, rest, S),
           Enter(h, e, rest)
    PROVE  /\ LoopOk(tasks', ready', S, cor) /\ rank' = rank
           /\ Spawned(Hosted(h, e, rest), ready, NextId, e, rank[e.type], tasks', ready')
           /\ NextId \in Nat \ {0} /\ \A i \in DOMAIN tasks : i < NextId
           /\ Max(DOMAIN tasks \cup {NextId}) = NextId
<1>1. e \in Messages(Requests) /\ rest \in Lists(Requests)
  BY SetsGrow DEF RestOk
<1>2. /\ Book(tasks', ready') /\ rank' = rank
      /\ Spawned(Hosted(h, e, rest), ready, NextId, e, rank[e.type], tasks', ready')
      /\ NextId \in Nat \ {0} /\ \A i \in DOMAIN tasks : i < NextId
      /\ Max(DOMAIN tasks \cup {NextId}) = NextId
  BY <1>1, EnterBook DEF LoopOk
<1> DEFINE ts == Hosted(h, e, rest)
           host == [Task(h, e, 0) EXCEPT !.resumed = TRUE, !.rest = rest]
           t == NextId
<1>3. /\ host \in Works(S) /\ host.h = h /\ host.rest = rest /\ host.resumed
  BY DEF Works, Task, RestOk
<1>4. ts = [i \in DOMAIN tasks \cup {t} |-> IF i = t THEN host ELSE tasks[i]]
  BY DEF Hosted
<1> HIDE DEF host, ts, t
<1>5. t \notin DOMAIN tasks
  BY <1>2 DEF t
<1>6. DOMAIN ts = DOMAIN tasks \cup {t} /\ ts[t] = host /\ \A i \in DOMAIN tasks : ts[i] = tasks[i]
  BY <1>4, <1>5
<1>7. WorkOk(host, S, cor)
  BY <1>3 DEF WorkOk, RestOk, Hearers
<1>8. \A i \in DOMAIN ts : WorkOk(ts[i], S, cor)
  BY <1>6, <1>7 DEF LoopOk, WorksOk
<1>9. WorksOk(tasks', S, cor)
  BY <1>2, <1>3, <1>6, <1>8, SpawnWorks DEF ts, t
<1> QED  BY <1>2, <1>9 DEF LoopOk

LEMMA FinishOk ==
    ASSUME NEW S, S \subseteq Requests, NEW cor, LoopOk(tasks, ready, S, cor), Steps,
           NEW cor2, cor \in S => cor2 \in S, Finish
    PROVE  LoopOk(tasks', ready', S, cor2) /\ rank' = rank
<1>1. /\ Book(tasks', ready') /\ rank' = rank
      /\ DOMAIN tasks' = DOMAIN tasks \ {Now} /\ tasks' = [i \in DOMAIN tasks' |-> tasks'[i]]
      /\ \A i \in DOMAIN tasks' : tasks'[i] = tasks[i]
  BY FinishBook DEF LoopOk
<1>2. WorksOk(tasks, S, cor2)
  BY WorksGrow DEF LoopOk
<1> QED  BY <1>1, <1>2 DEF LoopOk, WorksOk

LEMMA WokenOk ==
    ASSUME NEW S, S \subseteq Requests, NEW cor, LoopOk(tasks, ready, S, cor), Woken
    PROVE  LoopOk(tasks', ready', S, cor) /\ rank' = rank
<1> DEFINE t == Head(ready)[2]
           k == [tasks[t] EXCEPT !.left = tasks[t].left - 1]
<1>1. t \in DOMAIN tasks => WorkOk(tasks[t], S, cor) /\ tasks[t] \in Works(Requests)
  <2>1. Works(S) \subseteq Works(Requests)
    BY SetsGrow
  <2>2. \A i \in DOMAIN tasks : WorkOk(tasks[i], S, cor)
    BY DEF LoopOk, WorksOk
  <2>3. \A i \in DOMAIN tasks : tasks[i] \in Works(S)
    BY <2>2 DEF WorkOk
  <2> HIDE DEF t
  <2> QED  BY <2>1, <2>2, <2>3
<1>2. /\ Book(tasks', ready') /\ rank' = rank
      /\ t \in DOMAIN tasks /\ tasks[t].left # 0 /\ tasks' = [tasks EXCEPT ![t] = k]
  BY <1>1, WokenBook DEF LoopOk
<1>3. WorkOk(k, S, cor)
  <2>1. WorkOk(tasks[t], S, cor) /\ tasks[t].resumed
    BY <1>1, <1>2 DEF WorkOk
  <2>2. /\ k \in Works(S) /\ k.h = tasks[t].h /\ k.e = tasks[t].e /\ k.rest = tasks[t].rest
        /\ k.resumed
    BY <1>2, <2>1 DEF WorkOk, Works
  <2> HIDE DEF k
  <2> QED  BY <2>1, <2>2 DEF WorkOk
<1> HIDE DEF t, k
<1>4. \A i \in DOMAIN tasks' : WorkOk(tasks'[i], S, cor)
  BY <1>2, <1>3 DEF LoopOk, WorksOk
<1>5. tasks' = [i \in DOMAIN tasks' |-> tasks'[i]]
  BY <1>2
<1> QED  BY <1>2, <1>4, <1>5 DEF LoopOk, WorksOk

(***************************************************************************)
(* Every step keeps the shape of the state and the books.                  *)
(***************************************************************************)
LEMMA Mine ==
    ASSUME LoopInv, Steps
    PROVE  /\ Now \in DOMAIN tasks /\ Me = tasks[Now] /\ WorkOk(Me, sent, agent.discovery.cor)
           /\ Me \in Works(sent) /\ Me.e \in Messages(sent) /\ Me.e.cor \in sent
           /\ Me.e.type \in Types /\ Me.e.sup \in Suppliers \cup {NoSup}
           /\ Me.rest \in Lists(sent) /\ Me.e.replayed \in BOOLEAN
<1>1. Now \in DOMAIN tasks /\ Me = tasks[Now]
  BY CallbackTaken DEF Steps, LoopInv, Me
<1>2. WorkOk(Me, sent, agent.discovery.cor)
  BY <1>1 DEF LoopInv, Typed, WorksOk
<1>3. Me \in Works(sent)
  BY <1>2 DEF WorkOk
<1>4. Me.e \in Messages(sent) /\ Me.rest \in Lists(sent)
  BY <1>3 DEF Works
<1> QED  BY <1>1, <1>2, <1>3, <1>4 DEF Messages

LEMMA ListedAppend == \A s, x : Listed(s) => Listed(Append(s, x))
<1>1. ASSUME NEW s, NEW x, NEW A, s \in Seq(A) PROVE Append(s, x) \in Seq(A \cup {x})
  <2> DEFINE B == A \cup {x}
  <2>1. A \subseteq B /\ x \in B
    OBVIOUS
  <2> HIDE DEF B
  <2>2. s \in Seq(B)
    BY <1>1, <2>1
  <2>3. Append(s, x) \in Seq(B)
    BY <2>1, <2>2
  <2> QED  BY <2>3 DEF B
<1> QED  BY <1>1 DEF Listed

LEMMA LogAppend ==
    ASSUME NEW S, NEW T, S \subseteq T, NEW all, LogOk(all, S), NEW e \in Messages(T), ~e.replayed
    PROVE  LogOk(Append(all, e), T)
<1>1. all \in Seq(Messages(T)) /\ \A n \in DOMAIN all : ~all[n].replayed
  BY SetsGrow DEF LogOk
<1>2. Append(all, e) \in Seq(Messages(T)) /\ DOMAIN all = 1 .. Len(all) /\ Len(all) \in Nat
      /\ DOMAIN Append(all, e) = 1 .. Len(all) + 1 /\ Append(all, e)[Len(all) + 1] = e
      /\ \A n \in 1 .. Len(all) : Append(all, e)[n] = all[n]
  BY <1>1
<1> HIDE DEF Messages
<1>3. ASSUME NEW n \in 1 .. Len(all) + 1 PROVE ~Append(all, e)[n].replayed
  <2>1. n \in 1 .. Len(all) \/ n = Len(all) + 1
    BY <1>2
  <2> QED  BY <1>1, <1>2, <2>1
<1> QED  BY <1>2, <1>3 DEF LogOk

LEMMA EventOk ==
    ASSUME NEW S, NEW type \in Types, NEW cor \in S, NEW sup \in Suppliers \cup {NoSup}
    PROVE  Event(type, cor, sup) \in Messages(S) /\ ~Event(type, cor, sup).replayed
BY DEF Event, Messages

\* A step that says something.
LEMMA SayOk ==
    ASSUME LoopInv, Steps, NEW c2, agent.discovery.cor \in sent => c2 \in sent,
           Me.h = "discovery" => c2 \in sent, NEW type \in Types, NEW cor \in sent,
           NEW sup \in Suppliers \cup {NoSup}, NEW rest, RestOk(Me.h, rest, sent),
           Say(type, cor, sup, rest)
    PROVE  LoopOk(tasks', ready', sent, c2) /\ rank' \in Ranks /\ LogOk(log', sent)
<1> DEFINE e == Event(type, cor, sup)
<1>1. e \in Messages(sent) /\ ~e.replayed
  BY EventOk
<1> HIDE DEF e
<1>2. Deliver(e, rest) /\ log' = Append(log, e)
  BY DEF Say, Publish, e
<1>3. /\ sent \subseteq Requests /\ rank \in Ranks /\ LogOk(log, sent)
      /\ LoopOk(tasks, ready, sent, agent.discovery.cor)
  BY DEF LoopInv, Typed, LoopOk
<1>4. LoopOk(tasks', ready', sent, c2) /\ rank' = rank
  BY <1>1, <1>2, <1>3, DeliverOk
<1>5. LogOk(log', sent)
  BY <1>1, <1>2, <1>3, LogAppend
<1> QED  BY <1>3, <1>4, <1>5

\* A step that returns.
LEMMA ReturnOk ==
    ASSUME LoopInv, Steps, NEW c2, agent.discovery.cor \in sent => c2 \in sent, Finish
    PROVE  LoopOk(tasks', ready', sent, c2) /\ rank' \in Ranks
<1>1. /\ sent \subseteq Requests /\ rank \in Ranks
      /\ LoopOk(tasks, ready, sent, agent.discovery.cor)
  BY DEF LoopInv, Typed, LoopOk
<1> QED  BY <1>1, FinishOk

LEMMA SendLoop ==
    ASSUME LoopInv, NEW r \in Requests, Send(r) PROVE LoopInv'
<1> DEFINE e == Event(IF Payload[r].intent = "lifecycle" THEN "SwarmStarted" ELSE "Message", r, NoSup)
           S == sent \cup {r}
           cor == agent.discovery.cor
<1>1. /\ sent' = S /\ log' = Append(log, e) /\ Enter("client", e, <<>>)
      /\ UNCHANGED <<events, art, expect, closed, agent, answered, replays>>
  BY DEF Send
<1>2. e \in Messages(S) /\ ~e.replayed
  <2>1. (IF Payload[r].intent = "lifecycle" THEN "SwarmStarted" ELSE "Message") \in Types
    BY DEF Types, Sourced
  <2> QED  BY <2>1, EventOk
<1> HIDE DEF e
<1>3. /\ S \subseteq Requests /\ sent \subseteq S /\ rank \in Ranks /\ LogOk(log, sent)
      /\ Book(tasks, ready) /\ WorksOk(tasks, sent, cor) /\ answered \subseteq S
      /\ Listed(art)
  BY DEF LoopInv, Typed
<1>4. LoopOk(tasks, ready, S, cor)
  <2>1. WorksOk(tasks, S, cor)
    BY <1>3, WorksGrow
  <2> QED  BY <1>3, <2>1 DEF LoopOk
<1>5. RestOk("client", <<>>, S)
  BY DEF RestOk, Lists
<1>6. LoopOk(tasks', ready', S, cor) /\ rank' = rank
  <2> HIDE DEF S, cor
  <2> QED  BY <1>1, <1>2, <1>3, <1>4, <1>5, EnterOk
<1>7. LogOk(log', S)
  <2> HIDE DEF S, cor
  <2> QED  BY <1>1, <1>2, <1>3, LogAppend
<1>8. expect \in Seq(Expectations(S)) /\ closed \subseteq Pairs(S)
  <2>1. expect \in Seq(Expectations(sent)) /\ closed \subseteq Pairs(sent)
    BY DEF LoopInv, Typed
  <2> QED  BY <1>3, <2>1, SetsGrow
<1>9. AgentOk(agent, S)
  BY DEF LoopInv, Typed, AgentOk
<1> HIDE DEF S
<1> QED  BY <1>1, <1>3, <1>6, <1>7, <1>8, <1>9 DEF LoopInv, Typed, LoopOk

LEMMA AnswerLoop ==
    ASSUME LoopInv, Answer PROVE LoopInv'
<1>1. /\ Steps /\ Finish /\ answered' = answered \cup {Me.e.cor}
      /\ UNCHANGED <<log, events, art, expect, closed, agent, sent, replays>>
  BY DEF Answer, Return, Resumed, Running
<1>2. Me.e.cor \in sent
  BY <1>1, Mine
<1>3. LoopOk(tasks', ready', sent, agent.discovery.cor) /\ rank' \in Ranks
  BY <1>1, ReturnOk
<1> QED  BY <1>1, <1>2, <1>3 DEF LoopInv, Typed, LoopOk

LEMMA AnewOk ==
    ASSUME NEW S, NEW e \in Messages(S) PROVE Anew(e) \in Messages(S) /\ Anew(e).replayed
BY DEF Anew, Messages

LEMMA ReplayLoop ==
    ASSUME LoopInv, Replay PROVE LoopInv'
<1>1. /\ log # <<>> /\ Enter("replay", Anew(log[1]), Tail(log))
      /\ UNCHANGED <<log, events, art, expect, closed, agent, sent, answered>>
  BY DEF Replay
<1>2. /\ sent \subseteq Requests /\ rank \in Ranks /\ log \in Seq(Messages(sent))
      /\ LoopOk(tasks, ready, sent, agent.discovery.cor)
  BY DEF LoopInv, Typed, LoopOk, LogOk
<1>3. log[1] \in Messages(sent) /\ Tail(log) \in Seq(Messages(sent))
  <2>1. \A A, s : s \in Seq(A) /\ s # <<>> => s[1] \in A /\ Tail(s) \in Seq(A)
    OBVIOUS
  <2> QED  BY <1>1, <1>2, <2>1
<1>4. Anew(log[1]) \in Messages(sent) /\ RestOk("replay", Tail(log), sent)
  BY <1>3, AnewOk DEF RestOk, Lists
<1>5. LoopOk(tasks', ready', sent, agent.discovery.cor) /\ rank' = rank
  BY <1>1, <1>2, <1>4, EnterOk
<1> QED  BY <1>1, <1>2, <1>5 DEF LoopInv, Typed, LoopOk

LEMMA ReplayNextLoop ==
    ASSUME LoopInv, ReplayNext PROVE LoopInv'
<1>1. /\ Steps /\ Me.h = "replay"
      /\ UNCHANGED <<log, events, art, expect, closed, agent, sent, answered>>
  BY DEF ReplayNext, Resumed, Running
<1>2. /\ sent \subseteq Requests /\ rank \in Ranks
      /\ LoopOk(tasks, ready, sent, agent.discovery.cor)
  BY DEF LoopInv, Typed, LoopOk
<1>3. Me.rest \in Seq(Messages(sent))
  BY <1>1, Mine DEF WorkOk
<1>4. LoopOk(tasks', ready', sent, agent.discovery.cor) /\ rank' \in Ranks
  <2>1. CASE Me.rest = <<>>
    <3>1. Finish
      BY <2>1 DEF ReplayNext
    <3> QED  BY <1>1, <3>1, ReturnOk
  <2>2. CASE Me.rest # <<>>
    <3>1. Deliver(Anew(Head(Me.rest)), Tail(Me.rest))
      BY <2>2 DEF ReplayNext
    <3>2. Head(Me.rest) \in Messages(sent) /\ Tail(Me.rest) \in Seq(Messages(sent))
      <4>1. \A A, s : s \in Seq(A) /\ s # <<>> => Head(s) \in A /\ Tail(s) \in Seq(A)
        OBVIOUS
      <4> QED  BY <1>3, <2>2, <4>1
    <3>3. Anew(Head(Me.rest)) \in Messages(sent) /\ RestOk(Me.h, Tail(Me.rest), sent)
      BY <1>1, <3>2, AnewOk DEF RestOk, Lists
    <3> QED  BY <1>1, <1>2, <3>1, <3>3, DeliverOk
  <2> QED  BY <2>1, <2>2
<1> QED  BY <1>1, <1>4 DEF LoopInv, Typed, LoopOk

LEMMA WakeLoop ==
    ASSUME LoopInv, Wake PROVE LoopInv'
<1>1. /\ Woken /\ UNCHANGED <<log, events, art, expect, closed, agent, sent, answered>>
  BY DEF Wake
<1>2. /\ sent \subseteq Requests /\ rank \in Ranks
      /\ LoopOk(tasks, ready, sent, agent.discovery.cor)
  BY DEF LoopInv, Typed, LoopOk
<1>3. LoopOk(tasks', ready', sent, agent.discovery.cor) /\ rank' = rank
  BY <1>1, <1>2, WokenOk
<1> QED  BY <1>1, <1>2, <1>3 DEF LoopInv, Typed, LoopOk

LEMMA RecordLoop ==
    ASSUME LoopInv, Record PROVE LoopInv'
<1>1. /\ Steps /\ Finish
      /\ UNCHANGED <<log, art, expect, closed, agent, sent, answered>>
  BY DEF Record, Return, Started, Running
<1>2. LoopOk(tasks', ready', sent, agent.discovery.cor) /\ rank' \in Ranks
  BY <1>1, ReturnOk
<1> QED  BY <1>1, <1>2 DEF LoopInv, Typed, LoopOk

\* What the tracker checks: a group of each kind per expectation.
LEMMA ToCheckOk ==
    ASSUME LoopInv, Running("tracker")
    PROVE  /\ ToCheck \in Seq(Pairs(sent))
           /\ ~Me.resumed => InOrder(ToCheck, closed)
<1>1. Steps /\ Me.h = "tracker"
  BY DEF Running
<1>2. CASE Me.resumed
  <2>1. Me.rest \in Seq(Pairs(sent))
    BY <1>1, Mine DEF WorkOk
  <2> QED  BY <1>2, <2>1 DEF ToCheck
<1>3. CASE ~Me.resumed
  <2> DEFINE m == 2 * Len(expect)
             Pair(n) == <<expect[(n + 1) \div 2].cor, Groups[((n - 1) % 2) + 1]>>
  <2>1. expect \in Seq(Expectations(sent))
    BY DEF LoopInv, Typed
  <2>2. Len(expect) \in Nat /\ m \in Nat /\ \A i \in 1 .. Len(expect) : expect[i].cor \in sent
    <3>1. Len(expect) \in Nat /\ \A i \in 1 .. Len(expect) : expect[i] \in Expectations(sent)
      BY <2>1
    <3>2. \A i \in 1 .. Len(expect) : expect[i].cor \in sent
      BY <3>1 DEF Expectations
    <3> QED  BY <3>1, <3>2
  <2>3. ASSUME NEW n \in 1 .. m
        PROVE  /\ (n + 1) \div 2 \in 1 .. Len(expect) /\ ((n - 1) % 2) \in {0, 1}
               /\ ((n - 1) % 2) = 1 => /\ n > 1 /\ ((n - 1) - 1) % 2 = 0
                                       /\ ((n - 1) + 1) \div 2 = (n + 1) \div 2
    <3>1. n \in Int /\ 1 <= n /\ n <= 2 * Len(expect)
      BY <2>2
    <3> QED  BY <2>2, <3>1
  <2>4. Groups[1] = "evaluation" /\ Groups[2] = "quote"
    BY DEF Groups
  <2>5. \A n \in 1 .. m : Pair(n) \in Pairs(sent)
    <3>1. ASSUME NEW n \in 1 .. m PROVE Pair(n) \in Pairs(sent)
      <4>1. Groups[((n - 1) % 2) + 1] \in {"evaluation", "quote"}
        BY <2>3, <2>4
      <4> QED  BY <2>2, <2>3, <4>1 DEF Pairs
    <3> QED  BY <3>1
  <2>6. ToCheck = [n \in 1 .. m |-> Pair(n)]
    BY <1>3 DEF ToCheck
  <2>7. ASSUME NEW n \in 1 .. m, Pair(n)[2] = "quote"
        PROVE  n > 1 /\ Pair(n - 1) = <<Pair(n)[1], "evaluation">>
    <3>1. ((n - 1) % 2) = 1
      BY <2>3, <2>4, <2>7
    <3> QED  BY <2>3, <2>4, <3>1
  <2> HIDE DEF m, Pair
  <2>8. ToCheck \in Seq(Pairs(sent))
    BY <2>2, <2>5, <2>6
  <2>9. InOrder(ToCheck, closed)
    <3>1. ASSUME NEW n \in 1 .. m, ToCheck[n][2] = "quote"
          PROVE  n > 1 /\ ToCheck[n - 1] = <<ToCheck[n][1], "evaluation">>
      <4>1. ToCheck[n] = Pair(n)
        BY <2>6
      <4>2. n > 1 /\ Pair(n - 1) = <<Pair(n)[1], "evaluation">>
        BY <2>7, <3>1, <4>1
      <4>3. n - 1 \in 1 .. m
        BY <2>2, <4>2
      <4> QED  BY <2>6, <4>1, <4>2, <4>3
    <3> QED  BY <2>6, <3>1 DEF InOrder
  <2> QED  BY <1>3, <2>8, <2>9
<1> QED  BY <1>2, <1>3

LEMMA CompletionTypes ==
    /\ CompletionEvents["evaluation"] = "EvaluationCompleted"
    /\ CompletionEvents["quote"] = "QuotesCompleted"
    /\ "EvaluationCompleted" \in Types /\ "QuotesCompleted" \in Types
BY DEF CompletionEvents, Types, Sourced

\* The tracker returns, or it announces the first group that is complete.
LEMMA TrackShape ==
    ASSUME LoopInv, Track
    PROVE  /\ Steps /\ Me.h = "tracker"
           /\ UNCHANGED <<events, art, expect, agent, sent, answered>>
           /\ \/ /\ Me.e.replayed \/ {n \in DOMAIN ToCheck : Complete(ToCheck[n])} = {}
                 /\ Finish /\ log' = log /\ closed' = closed
              \/ \E n \in DOMAIN ToCheck :
                    /\ ToCheck[n] \in Pairs(sent) /\ Complete(ToCheck[n]) /\ ~Me.e.replayed
                    /\ \A k \in 1 .. n - 1 : ~Complete(ToCheck[k])
                    /\ closed' = closed \cup {ToCheck[n]}
                    /\ SubSeq(ToCheck, n + 1, Len(ToCheck)) \in Seq(Pairs(sent))
                    /\ Say(CompletionEvents[ToCheck[n][2]], ToCheck[n][1], NoSup,
                           SubSeq(ToCheck, n + 1, Len(ToCheck)))
<1> DEFINE check == ToCheck
           complete == {n \in DOMAIN check : Complete(check[n])}
<1>1. /\ Running("tracker") /\ Steps /\ Me.h = "tracker"
      /\ UNCHANGED <<events, art, expect, agent, sent, answered>>
  BY DEF Track, Running
<1>2. check \in Seq(Pairs(sent))
  BY <1>1, ToCheckOk
<1>3. CASE Me.e.replayed \/ complete = {}
  <2>1. Finish /\ log' = log /\ closed' = closed
    BY <1>3 DEF Track, Return
  <2> QED  BY <1>1, <1>3, <2>1
<1>4. CASE ~(Me.e.replayed \/ complete = {})
  <2> DEFINE n == Min(complete)
  <2>1. /\ closed' = closed \cup {check[n]}
        /\ Say(CompletionEvents[check[n][2]], check[n][1], NoSup,
               SubSeq(check, n + 1, Len(check)))
    BY <1>4 DEF Track
  <2>2. n \in complete /\ \A i \in complete : n <= i
    <3>1. complete \in SUBSET Nat /\ complete # {}
      BY <1>2, <1>4
    <3> HIDE DEF complete
    <3> QED  BY <3>1, Smallest
  <2> HIDE DEF n
  <2>3. n \in DOMAIN check /\ Complete(check[n]) /\ n \in Nat /\ n <= Len(check)
    BY <1>2, <2>2
  <2>4. check[n] \in Pairs(sent) /\ SubSeq(check, n + 1, Len(check)) \in Seq(Pairs(sent))
    <3> HIDE DEF check
    <3> QED  BY <1>2, <2>3
  <2>5. ASSUME NEW k \in 1 .. n - 1, Complete(check[k]) PROVE FALSE
    <3>1. k \in DOMAIN check /\ k < n
      BY <1>2, <2>3
    <3> QED  BY <2>2, <2>5, <3>1, <2>3
  <2> QED  BY <1>1, <1>4, <2>1, <2>3, <2>4, <2>5
<1> QED  BY <1>3, <1>4

LEMMA TrackLoop ==
    ASSUME LoopInv, Track PROVE LoopInv'
<1>1. /\ Steps /\ Me.h = "tracker"
      /\ UNCHANGED <<events, art, expect, agent, sent, answered>>
  BY TrackShape
<1>2. CASE Finish /\ log' = log /\ closed' = closed
  <2>1. LoopOk(tasks', ready', sent, agent.discovery.cor) /\ rank' \in Ranks
    BY <1>1, <1>2, ReturnOk
  <2> QED  BY <1>1, <1>2, <2>1 DEF LoopInv, Typed, LoopOk
<1>3. ASSUME NEW pair \in Pairs(sent), NEW rest \in Seq(Pairs(sent)), closed' = closed \cup {pair},
             Say(CompletionEvents[pair[2]], pair[1], NoSup, rest)
      PROVE  LoopInv'
  <2>1. CompletionEvents[pair[2]] \in Types /\ pair[1] \in sent
    BY CompletionTypes DEF Pairs
  <2>2. RestOk(Me.h, rest, sent)
    BY <1>1, <1>3 DEF RestOk, Lists
  <2>3. /\ LoopOk(tasks', ready', sent, agent.discovery.cor) /\ rank' \in Ranks
        /\ LogOk(log', sent)
    <3> DEFINE type == CompletionEvents[pair[2]]
               cor == pair[1]
    <3>1. type \in Types /\ cor \in sent /\ NoSup \in Suppliers \cup {NoSup}
      BY <2>1
    <3>2. Say(type, cor, NoSup, rest)
      BY <1>3
    <3> HIDE DEF type, cor
    <3> QED  BY <1>1, <2>2, <3>1, <3>2, SayOk
  <2> QED  BY <1>1, <1>3, <2>3 DEF LoopInv, Typed, LoopOk
<1>4. QED
  BY <1>2, <1>3, TrackShape

LEMMA IgnoreLoop ==
    ASSUME LoopInv, Ignore PROVE LoopInv'
<1>1. /\ Steps /\ Finish
      /\ UNCHANGED <<log, art, expect, closed, agent, sent, answered>>
  BY DEF Ignore, Ignores, Return, Started, Running
<1>2. LoopOk(tasks', ready', sent, agent.discovery.cor) /\ rank' \in Ranks
  BY <1>1, ReturnOk
<1> QED  BY <1>1, <1>2 DEF LoopInv, Typed, LoopOk

LEMMA RequirementStepLoop ==
    ASSUME LoopInv, RequirementStep PROVE LoopInv'
<1> DEFINE mine == IF Payload[Me.e.cor].intent = "create"
                   THEN [pending |-> TRUE, cor |-> Me.e.cor] ELSE agent.requirement
<1>1. /\ Steps /\ Me.h = "requirement"
      /\ agent' = [agent EXCEPT !.requirement = mine]
      /\ \/ /\ mine.pending
            /\ Put(Artifact("requirement", mine.cor, NoSup, <<>>))
            /\ Say("RequirementCreated", mine.cor, NoSup, <<>>)
         \/ Finish /\ log' = log /\ art' = art
      /\ UNCHANGED <<events, expect, closed, sent, answered>>
  BY DEF RequirementStep, Return, Started, Running
<1>2. AgentOk(agent, sent)
  BY DEF LoopInv, Typed
<1>3. /\ mine \in [pending : BOOLEAN, cor : sent \cup {NoCor}]
      /\ mine.pending => mine.cor \in sent
  BY <1>1, <1>2, Mine DEF AgentOk
<1> HIDE DEF mine
<1>4. AgentOk(agent', sent) /\ agent'.discovery = agent.discovery
  BY <1>1, <1>2, <1>3 DEF AgentOk
<1>5. CASE Finish /\ log' = log /\ art' = art
  <2>1. LoopOk(tasks', ready', sent, agent.discovery.cor) /\ rank' \in Ranks
    BY <1>1, <1>5, ReturnOk
  <2> QED  BY <1>1, <1>4, <1>5, <2>1 DEF LoopInv, Typed, LoopOk
<1>6. CASE /\ mine.pending
           /\ Put(Artifact("requirement", mine.cor, NoSup, <<>>))
           /\ Say("RequirementCreated", mine.cor, NoSup, <<>>)
  <2> DEFINE cor == mine.cor
  <2>1. /\ RestOk(Me.h, <<>>, sent) /\ "RequirementCreated" \in Types /\ Me.h # "discovery"
        /\ NoSup \in Suppliers \cup {NoSup}
    BY <1>1 DEF RestOk, Lists, Types, Sourced
  <2>2. cor \in sent /\ Say("RequirementCreated", cor, NoSup, <<>>)
    BY <1>3, <1>6
  <2>3. /\ LoopOk(tasks', ready', sent, agent.discovery.cor) /\ rank' \in Ranks
        /\ LogOk(log', sent)
    <3> HIDE DEF cor
    <3> QED  BY <1>1, <2>1, <2>2, SayOk
  <2>4. Listed(art')
    BY <1>6, ListedAppend DEF Put, LoopInv, Typed
  <2> QED  BY <1>1, <1>4, <2>3, <2>4 DEF LoopInv, Typed, LoopOk
<1> QED  BY <1>1, <1>5, <1>6

LEMMA RequirementDoneLoop ==
    ASSUME LoopInv, RequirementDone PROVE LoopInv'
<1>1. /\ Steps /\ Finish /\ log' = log
      /\ agent' = [agent EXCEPT !.requirement.pending = FALSE]
      /\ UNCHANGED <<events, art, expect, closed, sent, answered>>
  BY DEF RequirementDone, Return, Resumed, Running
<1>2. AgentOk(agent, sent)
  BY DEF LoopInv, Typed
<1>3. AgentOk(agent', sent) /\ agent'.discovery = agent.discovery
  <2> DEFINE mine == [agent.requirement EXCEPT !.pending = FALSE]
  <2>1. mine \in [pending : BOOLEAN, cor : sent \cup {NoCor}] /\ ~mine.pending
    BY <1>2 DEF AgentOk
  <2>2. agent' = [agent EXCEPT !.requirement = mine]
    BY <1>1, <1>2 DEF AgentOk
  <2> HIDE DEF mine
  <2> QED  BY <1>2, <2>1, <2>2 DEF AgentOk
<1>4. LoopOk(tasks', ready', sent, agent.discovery.cor) /\ rank' \in Ranks
  BY <1>1, ReturnOk
<1> QED  BY <1>1, <1>3, <1>4 DEF LoopInv, Typed, LoopOk

\* Steps that put something in or leave the artifacts alone, then say
\* something of their request or return.
LEMMA PutAndSay ==
    ASSUME LoopInv, Steps, NEW type \in Types, NEW sup \in Suppliers \cup {NoSup},
           Say(type, Me.e.cor, sup, <<>>), Me.h \notin {"recorder", "discovery"},
           Listed(art'), AgentOk(agent', sent), agent'.discovery = agent.discovery,
           UNCHANGED <<expect, closed, sent, answered>>
    PROVE  LoopInv'
<1> DEFINE cor == Me.e.cor
<1>1. RestOk(Me.h, <<>>, sent)
  BY DEF RestOk, Lists
<1>2. cor \in sent
  BY Mine
<1>3. Say(type, cor, sup, <<>>)
  OBVIOUS
<1>4. /\ LoopOk(tasks', ready', sent, agent.discovery.cor) /\ rank' \in Ranks
      /\ LogOk(log', sent)
  <2> HIDE DEF cor
  <2> QED  BY <1>1, <1>2, <1>3, SayOk
<1> QED  BY <1>4 DEF LoopInv, Typed, LoopOk

LEMMA PutAndReturn ==
    ASSUME LoopInv, Steps, Finish, log' = log,
           Listed(art'), AgentOk(agent', sent), agent'.discovery = agent.discovery,
           UNCHANGED <<expect, closed, sent, answered>>
    PROVE  LoopInv'
<1>1. LoopOk(tasks', ready', sent, agent.discovery.cor) /\ rank' \in Ranks
  BY ReturnOk
<1> QED  BY <1>1 DEF LoopInv, Typed, LoopOk

LEMMA ArtifactPut ==
    ASSUME LoopInv, NEW a, Put(a) PROVE Listed(art')
BY ListedAppend DEF Put, LoopInv, Typed

LEMMA StrategyStepLoop ==
    ASSUME LoopInv, StrategyStep PROVE LoopInv'
<1>1. /\ Steps /\ Me.h = "strategy"
      /\ \/ /\ Put(Strategy(Me.e.cor, 1))
            /\ Say("StrategySelected", Me.e.cor, NoSup, <<>>)
         \/ /\ Put(Strategy(Get("strategy", NoSup).cor, Get("strategy", NoSup).version + 1))
            /\ Finish /\ log' = log
      /\ UNCHANGED <<events, expect, closed, agent, sent, answered>>
  BY DEF StrategyStep, Return, Started, Running
<1>2. Listed(art')
  BY <1>1, ArtifactPut
<1>3. AgentOk(agent, sent) /\ "StrategySelected" \in Types /\ NoSup \in Suppliers \cup {NoSup}
  BY DEF LoopInv, Typed, Types, Sourced
<1> QED  BY <1>1, <1>2, <1>3, PutAndSay, PutAndReturn

LEMMA StrategyDoneLoop ==
    ASSUME LoopInv, StrategyDone PROVE LoopInv'
<1>1. /\ Steps /\ Finish /\ log' = log
      /\ UNCHANGED <<events, art, expect, closed, agent, sent, answered>>
  BY DEF StrategyDone, Return, Resumed, Running
<1>2. AgentOk(agent, sent) /\ Listed(art)
  BY DEF LoopInv, Typed
<1> QED  BY <1>1, <1>2, PutAndReturn

LEMMA EvaluationStepLoop ==
    ASSUME LoopInv, EvaluationStep PROVE LoopInv'
<1>1. /\ Steps /\ Me.h = "evaluation"
      /\ \E a : Put(a)
      /\ Say("SupplierEvaluated", Me.e.cor, Me.e.sup, <<>>)
      /\ UNCHANGED <<events, expect, closed, agent, sent, answered>>
  BY DEF EvaluationStep, Started, Running
<1>2. Listed(art')
  BY <1>1, ArtifactPut
<1>3. AgentOk(agent, sent) /\ "SupplierEvaluated" \in Types
  BY DEF LoopInv, Typed, Types, Sourced
<1>4. Me.e.sup \in Suppliers \cup {NoSup}
  BY <1>1, Mine
<1> QED  BY <1>1, <1>2, <1>3, <1>4, PutAndSay

LEMMA NegotiationStepLoop ==
    ASSUME LoopInv, NegotiationStep PROVE LoopInv'
<1>1. /\ Steps /\ Me.h = "negotiation"
      /\ \E a : Put(a)
      /\ Say("QuoteGenerated", Me.e.cor, Me.e.sup, <<>>)
      /\ UNCHANGED <<events, expect, closed, agent, sent, answered>>
  BY DEF NegotiationStep, Started, Running
<1>2. Listed(art')
  BY <1>1, ArtifactPut
<1>3. AgentOk(agent, sent) /\ "QuoteGenerated" \in Types
  BY DEF LoopInv, Typed, Types, Sourced
<1>4. Me.e.sup \in Suppliers \cup {NoSup}
  BY <1>1, Mine
<1> QED  BY <1>1, <1>2, <1>3, <1>4, PutAndSay

LEMMA OnlyReturnsLoop ==
    ASSUME LoopInv, OnlyReturns PROVE LoopInv'
<1>1. /\ Steps /\ Finish /\ log' = log
      /\ UNCHANGED <<events, art, expect, closed, agent, sent, answered>>
  BY DEF OnlyReturns, Return, Resumed, Running
<1>2. AgentOk(agent, sent) /\ Listed(art)
  BY DEF LoopInv, Typed
<1> QED  BY <1>1, <1>2, PutAndReturn

LEMMA DecisionStepLoop ==
    ASSUME LoopInv, DecisionStep PROVE LoopInv'
<1>1. /\ Steps /\ Me.h = "decision"
      /\ \E a : Put(a)
      /\ \E d : agent' = [agent EXCEPT !.decision = d]
      /\ Say("DecisionMade", Me.e.cor, NoSup, <<>>)
      /\ UNCHANGED <<events, expect, closed, sent, answered>>
  BY DEF DecisionStep, Started, Running
<1>2. Listed(art')
  BY <1>1, ArtifactPut
<1>3. AgentOk(agent, sent) /\ "DecisionMade" \in Types /\ NoSup \in Suppliers \cup {NoSup}
  BY DEF LoopInv, Typed, Types, Sourced
<1>4. AgentOk(agent', sent) /\ agent'.discovery = agent.discovery
  BY <1>1, <1>3 DEF AgentOk
<1> QED  BY <1>1, <1>2, <1>3, <1>4, PutAndSay

LEMMA DecisionDoneLoop ==
    ASSUME LoopInv, DecisionDone PROVE LoopInv'
<1>1. /\ Steps /\ Finish /\ log' = log
      /\ art' = art \/ \E a : art' = Append(art, a)
      /\ agent' = [agent EXCEPT !.decision.why = <<>>]
      /\ UNCHANGED <<events, expect, closed, sent, answered>>
  BY DEF DecisionDone, Return, Resumed, Running
<1>2. AgentOk(agent, sent) /\ Listed(art)
  BY DEF LoopInv, Typed
<1>3. Listed(art')
  BY <1>1, <1>2, ListedAppend
<1>4. AgentOk(agent', sent) /\ agent'.discovery = agent.discovery
  BY <1>1, <1>2 DEF AgentOk
<1> QED  BY <1>1, <1>3, <1>4, PutAndReturn

LEMMA AnalyseLoop ==
    ASSUME LoopInv, Analyse PROVE LoopInv'
<1>1. /\ Steps /\ Finish /\ log' = log
      /\ art' = art \/ \E a : art' = art \o [v \in 1..3 |-> a]
      /\ agent' = [agent EXCEPT !.analyzed = @ \cup {Me.e.cor}]
      /\ UNCHANGED <<events, expect, closed, sent, answered>>
  BY DEF Analyse, Return, Started, Running
<1>2. AgentOk(agent, sent) /\ Listed(art)
  BY DEF LoopInv, Typed
<1>3. Listed(art')
  <2>1. ASSUME NEW a, NEW A, art \in Seq(A) PROVE art \o [v \in 1..3 |-> a] \in Seq(A \cup {a})
    <3> DEFINE B == A \cup {a}
    <3>1. A \subseteq B /\ a \in B
      OBVIOUS
    <3> HIDE DEF B
    <3>2. art \in Seq(B) /\ [v \in 1..3 |-> a] \in Seq(B)
      BY <2>1, <3>1
    <3>3. art \o [v \in 1..3 |-> a] \in Seq(B)
      BY <3>2
    <3> QED  BY <3>3 DEF B
  <2> QED  BY <1>1, <1>2, <2>1 DEF Listed
<1>4. AgentOk(agent', sent) /\ agent'.discovery = agent.discovery
  <2>1. Me.e.cor \in sent
    BY <1>1, Mine
  <2> QED  BY <1>1, <1>2, <2>1 DEF AgentOk
<1> QED  BY <1>1, <1>3, <1>4, PutAndReturn

\* How far behind a decision an event is; what comes next.
LEMMA LaterStage ==
    ASSUME LoopInv, Steps, Me.h = "later", NEW n,
           n = IF Me.e.type = "DecisionMade" THEN 0
               ELSE CHOOSE k \in DOMAIN Later : Later[k] = Me.e.type,
           n < Len(Later)
    PROVE  Later[n + 1] \in Range(Later)
<1>1. Me.e.type = "DecisionMade" \/ Me.e.type \in Range(Later)
  <2>1. Me.h \in Handlers(Me.e.type)
    BY Mine DEF WorkOk, Hearers
  <2> QED  BY <2>1 DEF Handlers, Agents
<1>2. \A x \in Range(Later) : \E k \in DOMAIN Later : Later[k] = x
  BY DEF Range
<1>3. DOMAIN Later = 1 .. Len(Later) /\ Len(Later) \in Nat
  BY LaterAssumption
<1>4. n \in Nat
  BY <1>1, <1>2, <1>3
<1>5. n + 1 \in DOMAIN Later
  BY <1>3, <1>4
<1> QED  BY <1>5 DEF Range

LEMMA LaterStepLoop ==
    ASSUME LoopInv, LaterStep PROVE LoopInv'
<1> DEFINE n == IF Me.e.type = "DecisionMade" THEN 0
                ELSE CHOOSE k \in DOMAIN Later : Later[k] = Me.e.type
<1>1. /\ Steps /\ Me.h = "later"
      /\ \/ n < Len(Later) /\ Say(Later[n + 1], Me.e.cor, NoSup, <<>>)
         \/ Finish /\ log' = log
      /\ UNCHANGED <<events, art, expect, closed, agent, sent, answered>>
  BY DEF LaterStep, Return, Started, Running
<1>2. AgentOk(agent, sent) /\ Listed(art) /\ NoSup \in Suppliers \cup {NoSup}
  BY DEF LoopInv, Typed
<1> HIDE DEF n
<1>4. ASSUME n < Len(Later) PROVE Later[n + 1] \in Types
  BY <1>1, <1>4, LaterStage DEF Types, n
<1>5. CASE Finish /\ log' = log
  BY <1>1, <1>2, <1>5, PutAndReturn
<1>6. CASE n < Len(Later) /\ Say(Later[n + 1], Me.e.cor, NoSup, <<>>)
  <2> DEFINE type == Later[n + 1]
  <2>1. type \in Types /\ Say(type, Me.e.cor, NoSup, <<>>)
    BY <1>4, <1>6
  <2>2. Listed(art') /\ AgentOk(agent', sent) /\ agent'.discovery = agent.discovery
    BY <1>1, <1>2
  <2> HIDE DEF type
  <2> QED  BY <1>1, <1>2, <2>1, <2>2, PutAndSay
<1> QED  BY <1>1, <1>5, <1>6

\* The search for suppliers goes on with the next or ends.
LEMMA DiscoverOk ==
    ASSUME LoopInv, Steps, Me.h = "discovery", NEW d \in [cor : sent, pool : BOOLEAN, done : SUBSET sent],
           NEW suppliers \in Seq(Suppliers), Discover(d, suppliers)
    PROVE  /\ AgentOk(agent', sent) /\ rank' \in Ranks /\ LogOk(log', sent)
           /\ LoopOk(tasks', ready', sent, agent'.discovery.cor)
<1> DEFINE d2 == [d EXCEPT !.done = @ \cup {d.cor}, !.pool = FALSE]
<1>1. AgentOk(agent, sent) /\ LogOk(log, sent)
  BY DEF LoopInv, Typed
<1>2. d2 \in [cor : sent, pool : BOOLEAN, done : SUBSET sent] /\ d2.cor = d.cor
  OBVIOUS
<1>3. CASE suppliers = <<>>
  <2>1. /\ agent' = [agent EXCEPT !.discovery = d2] /\ Finish /\ log' = log
    BY <1>3 DEF Discover, Return
  <2> HIDE DEF d2
  <2>2. AgentOk(agent', sent) /\ agent'.discovery.cor = d.cor
    BY <1>1, <1>2, <2>1 DEF AgentOk
  <2>3. LoopOk(tasks', ready', sent, agent'.discovery.cor) /\ rank' \in Ranks
    <3> DEFINE cor == d.cor
    <3>1. cor \in sent
      OBVIOUS
    <3> HIDE DEF cor
    <3>2. LoopOk(tasks', ready', sent, cor) /\ rank' \in Ranks
      BY <2>1, <3>1, ReturnOk
    <3> QED  BY <2>2, <3>2 DEF cor
  <2> QED  BY <1>1, <2>1, <2>2, <2>3
<1>4. CASE suppliers # <<>>
  <2> HIDE DEF d2
  <2>1. /\ agent' = [agent EXCEPT !.discovery = d]
        /\ \/ Say("SupplierDiscovered", d.cor, Head(suppliers), Tail(suppliers))
           \/ Finish /\ log' = log
    BY <1>4 DEF Discover, Return
  <2>2. AgentOk(agent', sent) /\ agent'.discovery.cor = d.cor
    BY <1>1, <2>1 DEF AgentOk
  <2> DEFINE cor == d.cor
             sup == Head(suppliers)
             rest == Tail(suppliers)
  <2>3. cor \in sent /\ sup \in Suppliers \cup {NoSup} /\ rest \in Seq(Suppliers)
    <3>1. \A A, s : s \in Seq(A) /\ s # <<>> => Head(s) \in A /\ Tail(s) \in Seq(A)
      OBVIOUS
    <3> QED  BY <1>4, <3>1
  <2>4. Say("SupplierDiscovered", cor, sup, rest) \/ (Finish /\ log' = log)
    BY <2>1
  <2> HIDE DEF cor, sup, rest
  <2>5. RestOk(Me.h, rest, sent) /\ "SupplierDiscovered" \in Types
    BY <2>3 DEF RestOk, Lists, Types, Sourced
  <2>6. LoopOk(tasks', ready', sent, cor) /\ rank' \in Ranks /\ LogOk(log', sent)
    <3>1. CASE Say("SupplierDiscovered", cor, sup, rest)
      BY <2>3, <2>5, <3>1, SayOk
    <3>2. CASE Finish /\ log' = log
      BY <1>1, <2>3, <3>2, ReturnOk
    <3> QED  BY <2>4, <3>1, <3>2
  <2> QED  BY <2>2, <2>6 DEF cor
<1> QED  BY <1>3, <1>4

LEMMA DiscoveryStepLoop ==
    ASSUME LoopInv, DiscoveryStep PROVE LoopInv'
<1> DEFINE d == [agent.discovery EXCEPT !.cor = Me.e.cor]
           d2 == [d EXCEPT !.pool = TRUE]
<1>1. /\ Steps /\ Me.h = "discovery"
      /\ \/ /\ agent' = [agent EXCEPT !.discovery = d]
            /\ Finish /\ log' = log
            /\ art' = art /\ expect' = expect
         \/ /\ \E a : Put(a)
            /\ expect' = Expecting(Me.e.cor, Len(Pool)) \/ expect' = Expecting(d.cor, Len(Pool))
            /\ Discover(d2, Pool)
      /\ UNCHANGED <<events, closed, sent, answered>>
  BY DEF DiscoveryStep, Return, Started, Running
<1>2. AgentOk(agent, sent) /\ Listed(art) /\ expect \in Seq(Expectations(sent))
  BY DEF LoopInv, Typed
<1>3. Me.e.cor \in sent
  BY <1>1, Mine
<1>4. /\ d \in [cor : sent, pool : BOOLEAN, done : SUBSET sent] /\ d.cor = Me.e.cor
      /\ d2 \in [cor : sent, pool : BOOLEAN, done : SUBSET sent]
  <2>1. agent.discovery \in [cor : sent \cup {NoCor}, pool : BOOLEAN, done : SUBSET sent]
    BY <1>2 DEF AgentOk
  <2> QED  BY <1>3, <2>1
<1> HIDE DEF d, d2
<1>5. CASE /\ agent' = [agent EXCEPT !.discovery = d]
           /\ Finish /\ log' = log
           /\ art' = art /\ expect' = expect
  <2>1. AgentOk(agent', sent) /\ agent'.discovery.cor = d.cor
    BY <1>2, <1>4, <1>5 DEF AgentOk
  <2>2. LoopOk(tasks', ready', sent, agent'.discovery.cor) /\ rank' \in Ranks
    <3> DEFINE cor == d.cor
    <3>1. cor \in sent
      BY <1>3, <1>4
    <3> HIDE DEF cor
    <3>2. LoopOk(tasks', ready', sent, cor) /\ rank' \in Ranks
      BY <1>1, <1>5, <3>1, ReturnOk
    <3> QED  BY <2>1, <3>2 DEF cor
  <2> QED  BY <1>1, <1>5, <2>1, <2>2 DEF LoopInv, Typed, LoopOk
<1>6. CASE /\ \E a : Put(a)
           /\ expect' = Expecting(Me.e.cor, Len(Pool)) \/ expect' = Expecting(d.cor, Len(Pool))
           /\ Discover(d2, Pool)
  <2>1. Pool \in Seq(Suppliers)
    BY PoolAssumption
  <2>2. /\ AgentOk(agent', sent) /\ rank' \in Ranks /\ LogOk(log', sent)
        /\ LoopOk(tasks', ready', sent, agent'.discovery.cor)
    BY <1>1, <1>4, <1>6, <2>1, DiscoverOk
  <2>3. Listed(art')
    BY <1>6, ArtifactPut
  <2>4. expect' \in Seq(Expectations(sent))
    <3> DEFINE x == [cor |-> Me.e.cor, count |-> Len(Pool)]
    <3>1. expect' = expect \/ expect' = Append(expect, x)
      BY <1>4, <1>6 DEF Expecting
    <3>2. x \in Expectations(sent)
      BY <1>3 DEF Expectations
    <3> HIDE DEF x
    <3> QED  BY <1>2, <3>1, <3>2
  <2> QED  BY <1>1, <2>2, <2>3, <2>4 DEF LoopInv, Typed, LoopOk
<1> QED  BY <1>1, <1>5, <1>6

LEMMA DiscoveryNextLoop ==
    ASSUME LoopInv, DiscoveryNext PROVE LoopInv'
<1> DEFINE d == agent.discovery
<1>1. /\ Steps /\ Me.h = "discovery" /\ Me.resumed /\ Discover(d, Me.rest)
      /\ UNCHANGED <<events, art, expect, closed, sent, answered>>
  BY DEF DiscoveryNext, Resumed, Running
<1>2. AgentOk(agent, sent)
  BY DEF LoopInv, Typed
<1>3. d.cor \in sent /\ Me.rest \in Seq(Suppliers)
  BY <1>1, Mine DEF WorkOk
<1>4. d \in [cor : sent, pool : BOOLEAN, done : SUBSET sent]
  BY <1>2, <1>3 DEF AgentOk
<1> HIDE DEF d
<1>5. /\ AgentOk(agent', sent) /\ rank' \in Ranks /\ LogOk(log', sent)
      /\ LoopOk(tasks', ready', sent, agent'.discovery.cor)
  BY <1>1, <1>3, <1>4, DiscoverOk
<1> QED  BY <1>1, <1>5 DEF LoopInv, Typed, LoopOk

LEMMA LoopInit == Init => LoopInv
<1> SUFFICES ASSUME Init PROVE LoopInv
  OBVIOUS
<1>1. /\ log = <<>> /\ ready = <<>> /\ tasks = <<>> /\ rank \in Ranks
      /\ events = <<>> /\ art = <<>> /\ expect = <<>> /\ closed = {}
      /\ sent = {} /\ answered = {}
      /\ agent = [requirement |-> [pending |-> FALSE, cor |-> NoCor],
                  discovery |-> [cor |-> NoCor, pool |-> FALSE, done |-> {}],
                  decision |-> [cor |-> NoCor, why |-> <<>>],
                  analyzed |-> {}]
  BY DEF Init
<1>2. Book(tasks, ready)
  <2>1. DOMAIN tasks = {} /\ IsFiniteSet({}) /\ ready \in Seq(Callbacks) /\ DOMAIN ready = {}
    BY <1>1, FS_EmptySet
  <2> QED  BY <2>1 DEF Book, Entered
<1>3. AgentOk(agent, sent)
  BY <1>1 DEF AgentOk
<1>4. WorksOk(tasks, sent, agent.discovery.cor)
  <2>1. DOMAIN tasks = {} /\ tasks = [t \in DOMAIN tasks |-> tasks[t]]
    BY <1>1
  <2> QED  BY <2>1 DEF WorksOk
<1>5. LogOk(log, sent) /\ expect \in Seq(Expectations(sent)) /\ closed \subseteq Pairs(sent)
  <2>1. \A A : <<>> \in Seq(A) /\ DOMAIN <<>> = {}
    OBVIOUS
  <2> QED  BY <1>1, <2>1 DEF LogOk
<1>6. Listed(art)
  <2>1. <<>> \in Seq({})
    OBVIOUS
  <2> QED  BY <1>1, <2>1 DEF Listed
<1> QED  BY <1>1, <1>2, <1>3, <1>4, <1>5, <1>6 DEF LoopInv, Typed

LEMMA LoopNext == LoopInv /\ [Next]_vars => LoopInv'
<1> SUFFICES ASSUME LoopInv, [Next]_vars PROVE LoopInv'
  OBVIOUS
<1>1. CASE UNCHANGED vars
  BY <1>1 DEF vars, LoopInv, Typed
<1>2. ASSUME NEW r \in Requests, Send(r) PROVE LoopInv'
  BY <1>2, SendLoop
<1>3. CASE Replay
  BY <1>3, ReplayLoop
<1>4. CASE Answer \/ ReplayNext \/ Wake \/ Record \/ Track \/ Ignore
  BY <1>4, AnswerLoop, ReplayNextLoop, WakeLoop, RecordLoop, TrackLoop, IgnoreLoop
<1>5. CASE RequirementStep \/ RequirementDone \/ StrategyStep \/ StrategyDone
  BY <1>5, RequirementStepLoop, RequirementDoneLoop, StrategyStepLoop, StrategyDoneLoop
<1>6. CASE DiscoveryStep \/ DiscoveryNext \/ EvaluationStep \/ NegotiationStep \/ OnlyReturns
  BY <1>6, DiscoveryStepLoop, DiscoveryNextLoop, EvaluationStepLoop, NegotiationStepLoop,
     OnlyReturnsLoop
<1>7. CASE DecisionStep \/ DecisionDone \/ Analyse \/ LaterStep
  BY <1>7, DecisionStepLoop, DecisionDoneLoop, AnalyseLoop, LaterStepLoop
<1> QED  BY <1>1, <1>2, <1>3, <1>4, <1>5, <1>6, <1>7 DEF Next, Run

\* Agents' fields, the queue and the tasks stay well formed, whatever number
\* of messages is under way: every callback is of a live task, a task waits
\* for as many as name it, and nobody is queued twice.
THEOREM TypeCorrect == Spec => []TypeOK
<1>1. LoopInv => TypeOK
  <2> SUFFICES ASSUME LoopInv PROVE TypeOK
    OBVIOUS
  <2>1. \A n \in DOMAIN ready : ready[n][1] \in {"step", "done"} /\ ready[n][2] \in DOMAIN tasks
    <3>1. \A n \in DOMAIN ready : ready[n] \in Callbacks /\ ready[n][2] \in DOMAIN tasks
      BY DEF LoopInv, Book, Entered
    <3> QED  BY <3>1 DEF Callbacks
  <2>2. \A t \in DOMAIN tasks : Balanced(tasks, ready, t)
    BY DEF LoopInv, Book
  <2>3. /\ agent.requirement.cor \in Requests \cup {NoCor}
        /\ agent.discovery.done \cup agent.analyzed \cup answered \subseteq sent
    <3>1. AgentOk(agent, sent) /\ sent \subseteq Requests /\ answered \subseteq sent
      BY DEF LoopInv, Typed
    <3>2. agent.requirement.cor \in sent \cup {NoCor} /\ agent.discovery.done \subseteq sent
          /\ agent.analyzed \subseteq sent
      BY <3>1 DEF AgentOk
    <3> QED  BY <3>1, <3>2
  <2> QED  BY <2>1, <2>2, <2>3 DEF TypeOK, Balanced, Occurs, Children
<1> QED  BY <1>1, LoopInit, LoopNext, PTL DEF Spec

(***************************************************************************)
(* What a step is to the loop and to the shared state: it says something   *)
(* and waits, it ends, it wakes somebody, or a call arrives.  The tracker, *)
(* the evaluation and the negotiation are looked at one by one.            *)
(***************************************************************************)
Speaks(e, rest) ==
    /\ Steps /\ Me.h \notin {"recorder", "client"} /\ e \in Messages(sent)
    /\ RestOk(Me.h, rest, sent) /\ Deliver(e, rest)
    /\ log' = IF e.replayed THEN log ELSE Append(log, e)
    /\ UNCHANGED <<events, sent, answered>>

Ends ==
    /\ Steps /\ Finish /\ UNCHANGED <<log, sent>>
    /\ events' = IF Me.h = "recorder" /\ ~Me.e.replayed THEN Append(events, Me.e) ELSE events
    /\ answered' = IF Me.h = "client" THEN answered \cup {Me.e.cor} ELSE answered

Wakes == Woken /\ UNCHANGED <<log, sent, events, answered>>

Arrives(h, e, rest) ==
    /\ h \in {"client", "replay"} /\ e \in Messages(sent') /\ (e.replayed <=> h = "replay")
    /\ sent \subseteq sent' /\ sent' \subseteq Requests /\ RestOk(h, rest, sent') /\ Enter(h, e, rest)
    /\ sent' = IF h = "client" THEN sent \cup {e.cor} ELSE sent
    /\ log' = IF e.replayed THEN log ELSE Append(log, e)
    /\ e.type \in {"Message", "SwarmStarted"} \/ e.replayed
    /\ UNCHANGED <<events, answered>>

Hushed(e) ==
    e.replayed \/ e.type \notin {"SupplierEvaluated", "EvaluationCompleted", "QuotesCompleted"}

Quiet ==
    /\ closed' = closed
    /\ \A kind \in {"evaluation", "quote"} : \A cor : Count(kind, cor)' = Count(kind, cor)

SpeaksUp == \E e, rest : Speaks(e, rest) /\ Hushed(e) /\ Me.h \notin {"tracker", "negotiation"}
Called == \E h, e, rest : Arrives(h, e, rest)

\* Artifacts of other kinds do not count.
LEMMA CountOther ==
    ASSUME Listed(art), NEW kind, NEW cor, NEW a, a.kind # kind,
           art' = Append(art, a) \/ art' = art \o [v \in 1..3 |-> a]
    PROVE  Count(kind, cor)' = Count(kind, cor)
<1>1. PICK A : art \in Seq(A)
  BY DEF Listed
<1>2. PICK m \in {1, 3} : /\ DOMAIN art' = 1 .. Len(art) + m /\ DOMAIN art = 1 .. Len(art)
                          /\ \A i \in 1 .. Len(art) : art'[i] = art[i]
                          /\ \A i \in Len(art) + 1 .. Len(art) + m : art'[i] = a
  <2>1. CASE art' = Append(art, a)
    BY <1>1, <2>1
  <2>2. CASE art' = art \o [v \in 1..3 |-> a]
    <3> DEFINE three == [v \in 1..3 |-> a]
               B == A \cup {a}
    <3>1. three \in Seq(B) /\ Len(three) = 3 /\ \A v \in 1..3 : three[v] = a
      OBVIOUS
    <3>4. A \subseteq B
      OBVIOUS
    <3> HIDE DEF three, B
    <3>5. art \in Seq(B)
      BY <1>1, <3>4
    <3>2. DOMAIN (art \o three) = 1 .. Len(art) + 3 /\ DOMAIN art = 1 .. Len(art) /\ Len(art) \in Nat
          /\ (\A i \in 1 .. Len(art) : (art \o three)[i] = art[i])
          /\ (\A i \in Len(art) + 1 .. Len(art) + 3 : (art \o three)[i] = three[i - Len(art)])
      <4>1. \A p, q \in Seq(B) :
              /\ Len(p) \in Nat /\ Len(q) \in Nat /\ DOMAIN p = 1 .. Len(p)
              /\ DOMAIN (p \o q) = 1 .. Len(p) + Len(q)
        OBVIOUS
      <4>2. \A p, q \in Seq(B) : \A i \in 1 .. Len(p) + Len(q) :
              (p \o q)[i] = IF i <= Len(p) THEN p[i] ELSE q[i - Len(p)]
        OBVIOUS
      <4>3. Len(art) \in Nat /\ DOMAIN art = 1 .. Len(art) /\ DOMAIN (art \o three) = 1 .. Len(art) + 3
        BY <3>1, <3>5, <4>1
      <4>4. \A i \in 1 .. Len(art) + 3 :
              (art \o three)[i] = IF i <= Len(art) THEN art[i] ELSE three[i - Len(art)]
        BY <3>1, <3>5, <4>2
      <4> QED  BY <4>3, <4>4
    <3>3. \A i \in Len(art) + 1 .. Len(art) + 3 : i - Len(art) \in 1..3
      BY <3>2
    <3> QED  BY <2>2, <3>1, <3>2, <3>3 DEF three
  <2> QED  BY <2>1, <2>2
<1>3. Len(art) \in Nat
  BY <1>1
<1>4. {i \in DOMAIN art' : art'[i].kind = kind /\ art'[i].cor = cor}
        = {i \in DOMAIN art : art[i].kind = kind /\ art[i].cor = cor}
  BY <1>2, <1>3
<1> QED  BY <1>4 DEF Count, Find

LEMMA CountOne ==
    ASSUME Listed(art), NEW kind, NEW cor, NEW a, art' = Append(art, a)
    PROVE  /\ Count(kind, cor) \in Nat
           /\ Count(kind, cor)' = Count(kind, cor) + (IF a.kind = kind /\ a.cor = cor THEN 1 ELSE 0)
<1> DEFINE S == {i \in DOMAIN art : art[i].kind = kind /\ art[i].cor = cor}
           n == Len(art) + 1
<1>1. PICK A : art \in Seq(A)
  BY DEF Listed
<1>2. /\ Len(art) \in Nat /\ DOMAIN art = 1 .. Len(art) /\ DOMAIN art' = 1 .. n
      /\ (\A i \in 1 .. Len(art) : art'[i] = art[i]) /\ art'[n] = a
  BY <1>1
<1>3. IsFiniteSet(S) /\ n \notin S
  <2>1. S \in SUBSET DOMAIN art
    OBVIOUS
  <2>2. IsFiniteSet(DOMAIN art)
    BY <1>2, FS_Interval
  <2>3. IsFiniteSet(S)
    <3> HIDE DEF S
    <3> QED  BY <2>1, <2>2, FS_Subset
  <2> QED  BY <1>2, <2>3
<1>4. {i \in DOMAIN art' : art'[i].kind = kind /\ art'[i].cor = cor}
        = IF a.kind = kind /\ a.cor = cor THEN S \cup {n} ELSE S
  BY <1>2
<1>5. Count(kind, cor)' = Cardinality(IF a.kind = kind /\ a.cor = cor THEN S \cup {n} ELSE S)
  BY <1>4, Zenon DEF Count, Find
<1>6. Count(kind, cor) = Cardinality(S)
  BY Zenon DEF Count, Find
<1> HIDE DEF S, n
<1>7. Cardinality(S) \in Nat
  BY <1>3, FS_CardinalityType
<1>8. Cardinality(S \cup {n}) = Cardinality(S) + 1
  BY <1>3, FS_AddElement
<1> QED  BY <1>5, <1>6, <1>7, <1>8

LEMMA QuietPut ==
    ASSUME LoopInv, closed' = closed,
           \/ art' = art
           \/ \E a : /\ a.kind \notin {"evaluation", "quote"}
                     /\ art' = Append(art, a) \/ art' = art \o [v \in 1..3 |-> a]
    PROVE  Quiet
<1>1. Listed(art)
  BY DEF LoopInv, Typed
<1>2. CASE art' = art
  BY <1>2 DEF Quiet, Count, Find
<1>3. ASSUME NEW a, a.kind \notin {"evaluation", "quote"},
             art' = Append(art, a) \/ art' = art \o [v \in 1..3 |-> a],
             NEW kind \in {"evaluation", "quote"}, NEW cor
      PROVE  Count(kind, cor)' = Count(kind, cor)
  <2>1. a.kind # kind
    BY <1>3
  <2> QED  BY <1>1, <1>3, <2>1, CountOther
<1> QED  BY <1>2, <1>3 DEF Quiet

LEMMA ArtifactKind == \A kind, cor, sup, data : Artifact(kind, cor, sup, data).kind = kind
BY DEF Artifact

\* A step that says something of a message that was sent.
LEMMA SaySpeaks ==
    ASSUME LoopInv, Steps, Me.h \notin {"recorder", "client"}, NEW type \in Types, NEW cor \in sent,
           NEW sup \in Suppliers \cup {NoSup}, NEW rest, RestOk(Me.h, rest, sent),
           Say(type, cor, sup, rest), UNCHANGED <<events, sent, answered>>
    PROVE  \E e : /\ Speaks(e, rest) /\ e.type = type /\ e.cor = cor /\ ~e.replayed
                  /\ e = Event(type, cor, sup)
<1> DEFINE e == Event(type, cor, sup)
<1>1. e \in Messages(sent) /\ ~e.replayed /\ e.type = type /\ e.cor = cor
  BY EventOk DEF Event
<1>2. Deliver(e, rest) /\ log' = Append(log, e)
  BY DEF Say, Publish
<1> HIDE DEF e
<1>3. Speaks(e, rest)
  BY <1>1, <1>2 DEF Speaks
<1> QED  BY <1>1, <1>3 DEF e

LEMMA SpeaksUpOk ==
    ASSUME LoopInv, Steps, Me.h \notin {"recorder", "client", "tracker", "negotiation"},
           NEW type \in Types, type \notin {"SupplierEvaluated", "EvaluationCompleted", "QuotesCompleted"},
           NEW cor \in sent, NEW sup \in Suppliers \cup {NoSup}, NEW rest, RestOk(Me.h, rest, sent),
           Say(type, cor, sup, rest), UNCHANGED <<events, sent, answered>>
    PROVE  SpeaksUp
<1>1. PICK e : Speaks(e, rest) /\ e.type = type
  BY SaySpeaks
<1> QED  BY <1>1 DEF SpeaksUp, Hushed

LEMMA EndsOk ==
    ASSUME LoopInv, Steps, Me.h \notin {"recorder", "client"}, Finish,
           UNCHANGED <<log, sent, events, answered>>
    PROVE  Ends
BY DEF Ends

LEMMA CallsKind ==
    ASSUME LoopInv, Replay \/ \E r \in Requests : Send(r) PROVE Called /\ Quiet
<1>1. sent \subseteq Requests /\ log \in Seq(Messages(sent))
  BY DEF LoopInv, Typed, LogOk
<1>2. ASSUME NEW r \in Requests, Send(r) PROVE Called /\ Quiet
  <2> DEFINE e == Event(IF Payload[r].intent = "lifecycle" THEN "SwarmStarted" ELSE "Message", r, NoSup)
  <2>1. /\ sent' = sent \cup {r} /\ log' = Append(log, e) /\ Enter("client", e, <<>>)
        /\ UNCHANGED <<events, art, expect, closed, agent, answered, replays>>
    BY <1>2 DEF Send
  <2>2. /\ e \in Messages(sent') /\ ~e.replayed /\ e.type \in {"Message", "SwarmStarted"}
        /\ e.cor = r
    <3>1. (IF Payload[r].intent = "lifecycle" THEN "SwarmStarted" ELSE "Message") \in Types
      BY DEF Types, Sourced
    <3>2. r \in sent'
      BY <2>1
    <3> QED  BY <3>1, <3>2, EventOk DEF Event
  <2> HIDE DEF e
  <2>3. RestOk("client", <<>>, sent')
    BY DEF RestOk, Lists
  <2>4. Arrives("client", e, <<>>)
    BY <1>1, <2>1, <2>2, <2>3 DEF Arrives
  <2>5. Quiet
    BY <2>1, QuietPut
  <2> QED  BY <2>4, <2>5 DEF Called
<1>3. CASE Replay
  <2> DEFINE e == Anew(log[1])
  <2>1. /\ log # <<>> /\ Enter("replay", e, Tail(log))
        /\ UNCHANGED <<log, events, art, expect, closed, agent, sent, answered>>
    BY <1>3 DEF Replay
  <2>2. log[1] \in Messages(sent) /\ Tail(log) \in Seq(Messages(sent))
    <3>1. \A A, s : s \in Seq(A) /\ s # <<>> => s[1] \in A /\ Tail(s) \in Seq(A)
      OBVIOUS
    <3> QED  BY <1>1, <2>1, <3>1
  <2>3. e \in Messages(sent) /\ e.replayed /\ RestOk("replay", Tail(log), sent)
    BY <2>2, AnewOk DEF RestOk, Lists
  <2> HIDE DEF e
  <2>4. Arrives("replay", e, Tail(log))
    BY <1>1, <2>1, <2>3 DEF Arrives
  <2>5. Quiet
    BY <2>1, QuietPut
  <2> QED  BY <2>4, <2>5 DEF Called
<1> QED  BY <1>2, <1>3

LEMMA ReplayNextKind ==
    ASSUME LoopInv, ReplayNext PROVE (SpeaksUp \/ Ends) /\ Quiet
<1>1. /\ Steps /\ Me.h = "replay"
      /\ UNCHANGED <<log, events, art, expect, closed, agent, sent, answered>>
  BY DEF ReplayNext, Resumed, Running
<1>2. Quiet
  BY <1>1, QuietPut
<1>3. CASE Me.rest = <<>>
  <2>1. Finish
    BY <1>3 DEF ReplayNext
  <2> QED  BY <1>1, <1>2, <2>1, EndsOk
<1>4. CASE Me.rest # <<>>
  <2>1. Deliver(Anew(Head(Me.rest)), Tail(Me.rest))
    BY <1>4 DEF ReplayNext
  <2>2. Me.rest \in Seq(Messages(sent))
    BY <1>1, Mine DEF WorkOk
  <2>3. Head(Me.rest) \in Messages(sent) /\ Tail(Me.rest) \in Seq(Messages(sent))
    <3>1. \A A, s : s \in Seq(A) /\ s # <<>> => Head(s) \in A /\ Tail(s) \in Seq(A)
      OBVIOUS
    <3> QED  BY <1>4, <2>2, <3>1
  <2>4. /\ Anew(Head(Me.rest)) \in Messages(sent) /\ Anew(Head(Me.rest)).replayed
        /\ RestOk(Me.h, Tail(Me.rest), sent)
    BY <1>1, <2>3, AnewOk DEF RestOk, Lists
  <2>5. Speaks(Anew(Head(Me.rest)), Tail(Me.rest)) /\ Hushed(Anew(Head(Me.rest)))
    BY <1>1, <2>1, <2>4 DEF Speaks, Hushed
  <2> QED  BY <1>1, <1>2, <2>5 DEF SpeaksUp
<1> QED  BY <1>3, <1>4

LEMMA ReturnsKind ==
    ASSUME LoopInv, Answer \/ Record \/ Ignore \/ RequirementDone \/ StrategyDone \/ OnlyReturns
    PROVE  Ends /\ Quiet
<1>1. CASE Answer
  <2>1. /\ Steps /\ Me.h = "client" /\ Finish /\ answered' = answered \cup {Me.e.cor}
        /\ UNCHANGED <<log, events, art, expect, closed, agent, sent>>
    BY <1>1 DEF Answer, Return, Resumed, Running
  <2> QED  BY <2>1, QuietPut DEF Ends
<1>2. CASE Record
  <2>1. /\ Steps /\ Me.h = "recorder" /\ Finish
        /\ events' = IF Me.e.replayed THEN events ELSE Append(events, Me.e)
        /\ UNCHANGED <<log, art, expect, closed, agent, sent, answered>>
    BY <1>2 DEF Record, Return, Started, Running
  <2> QED  BY <2>1, QuietPut DEF Ends
<1>3. CASE Ignore
  <2>1. /\ Steps /\ Finish /\ Me.h \notin {"recorder", "client"}
        /\ UNCHANGED <<log, events, art, expect, closed, agent, sent, answered>>
    BY <1>3 DEF Ignore, Ignores, Return, Started, Running
  <2> QED  BY <2>1, EndsOk, QuietPut
<1>4. CASE RequirementDone \/ StrategyDone \/ OnlyReturns
  <2>1. /\ Steps /\ Finish /\ Me.h \notin {"recorder", "client"}
        /\ UNCHANGED <<log, events, art, expect, closed, sent, answered>>
    BY <1>4 DEF RequirementDone, StrategyDone, OnlyReturns, Return, Resumed, Running
  <2> QED  BY <2>1, EndsOk, QuietPut
<1> QED  BY <1>1, <1>2, <1>3, <1>4

LEMMA RequirementKind ==
    ASSUME LoopInv, RequirementStep PROVE (SpeaksUp \/ Ends) /\ Quiet
<1> DEFINE mine == IF Payload[Me.e.cor].intent = "create"
                   THEN [pending |-> TRUE, cor |-> Me.e.cor] ELSE agent.requirement
<1>1. /\ Steps /\ Me.h = "requirement"
      /\ \/ /\ mine.pending
            /\ Put(Artifact("requirement", mine.cor, NoSup, <<>>))
            /\ Say("RequirementCreated", mine.cor, NoSup, <<>>)
         \/ Finish /\ log' = log /\ art' = art
      /\ UNCHANGED <<events, expect, closed, sent, answered>>
  BY DEF RequirementStep, Return, Started, Running
<1>2. mine.pending => mine.cor \in sent
  BY <1>1, Mine DEF LoopInv, Typed, AgentOk
<1> HIDE DEF mine
<1>3. CASE Finish /\ log' = log /\ art' = art
  BY <1>1, <1>3, EndsOk, QuietPut
<1>4. CASE /\ mine.pending
           /\ Put(Artifact("requirement", mine.cor, NoSup, <<>>))
           /\ Say("RequirementCreated", mine.cor, NoSup, <<>>)
  <2> DEFINE cor == mine.cor
  <2>1. /\ RestOk(Me.h, <<>>, sent) /\ "RequirementCreated" \in Types /\ NoSup \in Suppliers \cup {NoSup}
        /\ cor \in sent /\ Say("RequirementCreated", cor, NoSup, <<>>)
    BY <1>1, <1>2, <1>4 DEF RestOk, Lists, Types, Sourced
  <2>2. SpeaksUp
    <3> HIDE DEF cor
    <3> QED  BY <1>1, <2>1, SpeaksUpOk
  <2>3. Quiet
    BY <1>1, <1>4, QuietPut, ArtifactKind DEF Put
  <2> QED  BY <2>2, <2>3
<1> QED  BY <1>1, <1>3, <1>4

LEMMA StrategyKind ==
    ASSUME LoopInv, StrategyStep PROVE (SpeaksUp \/ Ends) /\ Quiet
<1>1. /\ Steps /\ Me.h = "strategy"
      /\ \/ /\ Put(Strategy(Me.e.cor, 1))
            /\ Say("StrategySelected", Me.e.cor, NoSup, <<>>)
         \/ /\ Put(Strategy(Get("strategy", NoSup).cor, Get("strategy", NoSup).version + 1))
            /\ Finish /\ log' = log
      /\ UNCHANGED <<events, expect, closed, agent, sent, answered>>
  BY DEF StrategyStep, Return, Started, Running
<1>2. \A cor, version : Strategy(cor, version).kind = "strategy"
  BY DEF Strategy, Artifact
<1>3. Quiet
  BY <1>1, <1>2, QuietPut DEF Put
<1>4. CASE Finish /\ log' = log
  BY <1>1, <1>3, <1>4, EndsOk
<1>5. CASE Say("StrategySelected", Me.e.cor, NoSup, <<>>)
  <2> DEFINE cor == Me.e.cor
  <2>1. /\ RestOk(Me.h, <<>>, sent) /\ "StrategySelected" \in Types /\ NoSup \in Suppliers \cup {NoSup}
        /\ cor \in sent /\ Say("StrategySelected", cor, NoSup, <<>>)
    BY <1>1, <1>5, Mine DEF RestOk, Lists, Types, Sourced
  <2>2. SpeaksUp
    <3> HIDE DEF cor
    <3> QED  BY <1>1, <2>1, SpeaksUpOk
  <2> QED  BY <1>3, <2>2
<1> QED  BY <1>1, <1>4, <1>5

LEMMA DiscoverKind ==
    ASSUME LoopInv, Steps, Me.h = "discovery", NEW d, d.cor \in sent,
           NEW suppliers \in Seq(Suppliers), Discover(d, suppliers), UNCHANGED <<events, sent, answered>>
    PROVE  SpeaksUp \/ Ends
<1> DEFINE cor == d.cor
           sup == Head(suppliers)
           rest == Tail(suppliers)
<1>1. CASE Finish /\ log' = log
  BY <1>1, EndsOk
<1>2. CASE suppliers # <<>> /\ Say("SupplierDiscovered", cor, sup, rest)
  <2>1. cor \in sent /\ sup \in Suppliers \cup {NoSup} /\ rest \in Seq(Suppliers)
    <3>1. \A A, s : s \in Seq(A) /\ s # <<>> => Head(s) \in A /\ Tail(s) \in Seq(A)
      OBVIOUS
    <3> QED  BY <1>2, <3>1
  <2> HIDE DEF cor, sup, rest
  <2>2. RestOk(Me.h, rest, sent) /\ "SupplierDiscovered" \in Types
    BY <2>1 DEF RestOk, Lists, Types, Sourced
  <2> QED  BY <1>2, <2>1, <2>2, SpeaksUpOk
<1> QED  BY <1>1, <1>2 DEF Discover, Return

LEMMA DiscoveryKind ==
    ASSUME LoopInv, DiscoveryStep \/ DiscoveryNext PROVE (SpeaksUp \/ Ends) /\ Quiet
<1>1. AgentOk(agent, sent) /\ Pool \in Seq(Suppliers)
  BY PoolAssumption DEF LoopInv, Typed
<1>2. CASE DiscoveryNext
  <2>1. /\ Steps /\ Me.h = "discovery" /\ Me.resumed /\ Discover(agent.discovery, Me.rest)
        /\ UNCHANGED <<events, art, expect, closed, sent, answered>>
    BY <1>2 DEF DiscoveryNext, Resumed, Running
  <2>2. agent.discovery.cor \in sent /\ Me.rest \in Seq(Suppliers)
    BY <2>1, Mine DEF WorkOk
  <2>3. Quiet
    BY <2>1, QuietPut
  <2> DEFINE d == agent.discovery
             suppliers == Me.rest
  <2>4. SpeaksUp \/ Ends
    <3>1. d.cor \in sent /\ suppliers \in Seq(Suppliers) /\ Discover(d, suppliers)
      BY <2>1, <2>2
    <3> HIDE DEF d, suppliers
    <3> QED  BY <2>1, <3>1, DiscoverKind
  <2> QED  BY <2>3, <2>4
<1>3. CASE DiscoveryStep
  <2> DEFINE d == [agent.discovery EXCEPT !.cor = Me.e.cor]
             d2 == [d EXCEPT !.pool = TRUE]
  <2>1. /\ Steps /\ Me.h = "discovery"
        /\ \/ Finish /\ log' = log /\ art' = art
           \/ /\ \E cor, data : art' = Append(art, Artifact("supplier_list", cor, NoSup, data))
              /\ Discover(d2, Pool)
        /\ UNCHANGED <<events, closed, sent, answered>>
    BY <1>3 DEF DiscoveryStep, Return, Started, Running, Put
  <2>2. d2.cor \in sent
    BY <1>1, <2>1, Mine DEF AgentOk
  <2> HIDE DEF d2
  <2>3. Quiet
    BY <2>1, QuietPut, ArtifactKind
  <2>4. CASE Finish /\ log' = log /\ art' = art
    BY <2>1, <2>3, <2>4, EndsOk
  <2>5. CASE Discover(d2, Pool)
    BY <1>1, <2>1, <2>2, <2>3, <2>5, DiscoverKind
  <2> QED  BY <2>1, <2>4, <2>5
<1> QED  BY <1>2, <1>3

LEMMA DecisionKind ==
    ASSUME LoopInv, DecisionStep \/ DecisionDone \/ Analyse PROVE (SpeaksUp \/ Ends) /\ Quiet
<1>1. CASE DecisionStep
  <2>1. /\ Steps /\ Me.h = "decision"
        /\ \E data : art' = Append(art, Artifact("decision", Me.e.cor, NoSup, data))
        /\ Say("DecisionMade", Me.e.cor, NoSup, <<>>)
        /\ UNCHANGED <<events, expect, closed, sent, answered>>
    BY <1>1 DEF DecisionStep, Started, Running, Put
  <2>2. Quiet
    BY <2>1, QuietPut, ArtifactKind
  <2> DEFINE cor == Me.e.cor
  <2>3. /\ RestOk(Me.h, <<>>, sent) /\ "DecisionMade" \in Types /\ NoSup \in Suppliers \cup {NoSup}
        /\ cor \in sent /\ Say("DecisionMade", cor, NoSup, <<>>)
    BY <2>1, Mine DEF RestOk, Lists, Types, Sourced
  <2>4. SpeaksUp
    <3> HIDE DEF cor
    <3> QED  BY <2>1, <2>3, SpeaksUpOk
  <2> QED  BY <2>2, <2>4
<1>2. CASE DecisionDone
  <2>1. /\ Steps /\ Me.h = "decision" /\ Finish /\ log' = log
        /\ \/ art' = art
           \/ \E cor, data : art' = Append(art, Artifact("decision_explanation", cor, NoSup, data))
        /\ UNCHANGED <<events, expect, closed, sent, answered>>
    BY <1>2 DEF DecisionDone, Return, Resumed, Running
  <2>2. Quiet
    BY <2>1, QuietPut, ArtifactKind
  <2> QED  BY <2>1, <2>2, EndsOk
<1>3. CASE Analyse
  <2>1. /\ Steps /\ Me.h = "analysis" /\ Finish /\ log' = log
        /\ \/ art' = art
           \/ \E cor, data : art' = art \o [v \in 1..3 |-> Artifact("completion", cor, NoSup, data)]
        /\ UNCHANGED <<events, expect, closed, sent, answered>>
    BY <1>3 DEF Analyse, Return, Started, Running
  <2>2. Quiet
    BY <2>1, QuietPut, ArtifactKind
  <2> QED  BY <2>1, <2>2, EndsOk
<1> QED  BY <1>1, <1>2, <1>3

LEMMA LaterKind ==
    ASSUME LoopInv, LaterStep PROVE (SpeaksUp \/ Ends) /\ Quiet
<1> DEFINE n == IF Me.e.type = "DecisionMade" THEN 0
                ELSE CHOOSE k \in DOMAIN Later : Later[k] = Me.e.type
<1>1. /\ Steps /\ Me.h = "later"
      /\ \/ n < Len(Later) /\ Say(Later[n + 1], Me.e.cor, NoSup, <<>>)
         \/ Finish /\ log' = log
      /\ UNCHANGED <<events, art, expect, closed, agent, sent, answered>>
  BY DEF LaterStep, Return, Started, Running
<1>2. Quiet
  BY <1>1, QuietPut
<1> HIDE DEF n
<1>4. CASE Finish /\ log' = log
  BY <1>1, <1>2, <1>4, EndsOk
<1>5. CASE n < Len(Later) /\ Say(Later[n + 1], Me.e.cor, NoSup, <<>>)
  <2> DEFINE type == Later[n + 1]
             cor == Me.e.cor
  <2>1. type \in Range(Later)
    BY <1>1, <1>5, LaterStage DEF n
  <2>2. /\ type \in Types
        /\ type \notin {"SupplierEvaluated", "EvaluationCompleted", "QuotesCompleted"}
    <3> HIDE DEF type
    <3> QED  BY <2>1, LaterAssumption DEF Types, Sourced
  <2>3. /\ RestOk(Me.h, <<>>, sent) /\ NoSup \in Suppliers \cup {NoSup} /\ cor \in sent
        /\ Say(type, cor, NoSup, <<>>)
    BY <1>1, <1>5, Mine DEF RestOk, Lists
  <2>4. SpeaksUp
    <3> HIDE DEF type, cor
    <3> QED  BY <1>1, <2>2, <2>3, SpeaksUpOk
  <2> QED  BY <1>2, <2>4
<1> QED  BY <1>1, <1>4, <1>5

\* The three steps that count: an evaluation, a quote, the end of a group.
Evaluates(e) ==
    /\ Me.h = "evaluation" /\ e.type = "SupplierEvaluated" /\ ~e.replayed /\ closed' = closed
    /\ \E data : art' = Append(art, Artifact("evaluation", e.cor, e.sup, data))
    /\ Speaks(e, <<>>)

Negotiates(e) ==
    /\ Me.h = "negotiation" /\ ~Me.resumed /\ ~Me.e.replayed /\ e.cor = Me.e.cor
    /\ Hushed(e) /\ closed' = closed
    /\ \E data : art' = Append(art, Artifact("quote", e.cor, e.sup, data))
    /\ Speaks(e, <<>>)

Closes(e, n) ==
    /\ Running("tracker") /\ art' = art
    /\ n \in DOMAIN ToCheck /\ ToCheck[n] \in Pairs(sent) /\ Complete(ToCheck[n])
    /\ \A k \in 1 .. n - 1 : ~Complete(ToCheck[k])
    /\ closed' = closed \cup {ToCheck[n]}
    /\ e = Event(CompletionEvents[ToCheck[n][2]], ToCheck[n][1], NoSup)
    /\ Speaks(e, SubSeq(ToCheck, n + 1, Len(ToCheck)))

LEMMA EvaluationKind ==
    ASSUME LoopInv, EvaluationStep PROVE \E e : Evaluates(e)
<1> DEFINE cor == Me.e.cor
           sup == Me.e.sup
<1>1. /\ Steps /\ Me.h = "evaluation"
      /\ \E data : art' = Append(art, Artifact("evaluation", cor, sup, data))
      /\ Say("SupplierEvaluated", cor, sup, <<>>)
      /\ UNCHANGED <<events, expect, closed, agent, sent, answered>>
  BY DEF EvaluationStep, Started, Running, Put
<1>2. /\ cor \in sent /\ sup \in Suppliers \cup {NoSup} /\ "SupplierEvaluated" \in Types
      /\ RestOk(Me.h, <<>>, sent)
  BY <1>1, Mine DEF RestOk, Lists, Types, Sourced
<1> HIDE DEF cor, sup
<1>3. PICK e : /\ Speaks(e, <<>>) /\ e.type = "SupplierEvaluated" /\ e.cor = cor /\ ~e.replayed
               /\ e = Event("SupplierEvaluated", cor, sup)
  BY <1>1, <1>2, SaySpeaks
<1>4. e.sup = sup
  BY <1>3 DEF Event
<1> QED  BY <1>1, <1>3, <1>4 DEF Evaluates

LEMMA NegotiationKind ==
    ASSUME LoopInv, NegotiationStep PROVE \E e : Negotiates(e)
<1> DEFINE cor == Me.e.cor
           sup == Me.e.sup
<1>1. /\ Steps /\ Me.h = "negotiation" /\ ~Me.resumed /\ ~Me.e.replayed
      /\ \E data : art' = Append(art, Artifact("quote", cor, sup, data))
      /\ Say("QuoteGenerated", cor, sup, <<>>)
      /\ UNCHANGED <<events, expect, closed, agent, sent, answered>>
  BY DEF NegotiationStep, Started, Running, Put
<1>2. /\ cor \in sent /\ sup \in Suppliers \cup {NoSup} /\ "QuoteGenerated" \in Types
      /\ RestOk(Me.h, <<>>, sent) /\ cor = Me.e.cor
  BY <1>1, Mine DEF RestOk, Lists, Types, Sourced
<1> HIDE DEF cor, sup
<1>3. PICK e : /\ Speaks(e, <<>>) /\ e.type = "QuoteGenerated" /\ e.cor = cor /\ ~e.replayed
               /\ e = Event("QuoteGenerated", cor, sup)
  BY <1>1, <1>2, SaySpeaks
<1>4. e.sup = sup /\ Hushed(e)
  BY <1>3 DEF Event, Hushed
<1> QED  BY <1>1, <1>2, <1>3, <1>4 DEF Negotiates

LEMMA TrackKind ==
    ASSUME LoopInv, Track PROVE (Ends /\ Quiet) \/ \E e, n : Closes(e, n)
<1>1. /\ Steps /\ Me.h = "tracker" /\ Running("tracker")
      /\ UNCHANGED <<events, art, expect, agent, sent, answered>>
  BY TrackShape DEF Running
<1>2. CASE Finish /\ log' = log /\ closed' = closed
  BY <1>1, <1>2, EndsOk, QuietPut
<1>3. ASSUME NEW n \in DOMAIN ToCheck,
             ToCheck[n] \in Pairs(sent) /\ Complete(ToCheck[n]) /\ ~Me.e.replayed,
             \A k \in 1 .. n - 1 : ~Complete(ToCheck[k]), closed' = closed \cup {ToCheck[n]},
             SubSeq(ToCheck, n + 1, Len(ToCheck)) \in Seq(Pairs(sent)),
             Say(CompletionEvents[ToCheck[n][2]], ToCheck[n][1], NoSup,
                 SubSeq(ToCheck, n + 1, Len(ToCheck)))
      PROVE  \E e : Closes(e, n)
  <2> DEFINE type == CompletionEvents[ToCheck[n][2]]
             cor == ToCheck[n][1]
             rest == SubSeq(ToCheck, n + 1, Len(ToCheck))
  <2>1. type \in Types /\ cor \in sent /\ NoSup \in Suppliers \cup {NoSup}
    BY <1>3, CompletionTypes DEF Pairs
  <2>2. RestOk(Me.h, rest, sent)
    BY <1>1, <1>3 DEF RestOk, Lists
  <2>3. Say(type, cor, NoSup, rest)
    BY <1>3
  <2>4. PICK e : Speaks(e, rest) /\ e = Event(type, cor, NoSup)
    <3> HIDE DEF type, cor, rest
    <3> QED  BY <1>1, <2>1, <2>2, <2>3, SaySpeaks
  <2> QED  BY <1>1, <1>3, <2>4 DEF Closes
<1> QED  BY <1>2, <1>3, TrackShape

LEMMA Kinds ==
    ASSUME LoopInv, [Next]_vars
    PROVE  \/ (SpeaksUp \/ Ends \/ Wakes \/ Called) /\ Quiet
           \/ \E e : Evaluates(e) \/ Negotiates(e)
           \/ \E e, n : Closes(e, n)
           \/ UNCHANGED vars
<1>1. CASE Replay \/ \E r \in Requests : Send(r)
  BY <1>1, CallsKind
<1>2. CASE Answer \/ Record \/ Ignore \/ RequirementDone \/ StrategyDone \/ OnlyReturns
  BY <1>2, ReturnsKind
<1>3. CASE Wake
  <2>1. Woken /\ UNCHANGED <<log, events, art, expect, closed, agent, sent, answered>>
    BY <1>3 DEF Wake
  <2> QED  BY <2>1, QuietPut DEF Wakes
<1>4. CASE ReplayNext \/ RequirementStep \/ StrategyStep \/ LaterStep
  BY <1>4, ReplayNextKind, RequirementKind, StrategyKind, LaterKind
<1>5. CASE DiscoveryStep \/ DiscoveryNext
  BY <1>5, DiscoveryKind
<1>6. CASE DecisionStep \/ DecisionDone \/ Analyse
  BY <1>6, DecisionKind
<1>7. CASE EvaluationStep \/ NegotiationStep \/ Track
  BY <1>7, EvaluationKind, NegotiationKind, TrackKind
<1> QED  BY <1>1, <1>2, <1>3, <1>4, <1>5, <1>6, <1>7 DEF Next, Run

\* To the loop there are four of them.
LEMMA LoopKinds ==
    ASSUME LoopInv, [Next]_vars
    PROVE  (\E e, rest : Speaks(e, rest)) \/ Ends \/ Wakes \/ Called \/ UNCHANGED vars
BY Kinds DEF SpeaksUp, Evaluates, Negotiates, Closes

(***************************************************************************)
(* What becomes of the tasks.                                              *)
(***************************************************************************)
Same(ts, ts2, t) ==
    /\ t \in DOMAIN ts2 /\ ts2[t].h = ts[t].h /\ ts2[t].e = ts[t].e
    /\ ts2[t].resumed = ts[t].resumed /\ ts2[t].rest = ts[t].rest

Spoken(e, rest, first, order) ==
    /\ first \in Nat /\ \A i \in DOMAIN tasks : i <= first
    /\ Now \in DOMAIN tasks /\ Now \in DOMAIN tasks'
    /\ DOMAIN tasks' = DOMAIN tasks \cup {first + k : k \in DOMAIN order}
    /\ \A i \in DOMAIN tasks \ {Now} : Same(tasks, tasks', i)
    /\ tasks'[Now].h = Me.h /\ tasks'[Now].e = Me.e
    /\ tasks'[Now].resumed /\ tasks'[Now].rest = rest
    /\ \A k \in DOMAIN order : tasks'[first + k] = Task(order[k], e, Now)
    /\ ready' = Tail(ready) \o Line(first, order)

LEMMA SpeaksTasks ==
    ASSUME LoopInv, NEW e, NEW rest, Speaks(e, rest),
           NEW first, first = Max(DOMAIN tasks), NEW order, order = rank[e.type]
    PROVE  Spoken(e, rest, first, order)
<1>1. /\ sent \subseteq Requests /\ rank \in Ranks
      /\ LoopOk(tasks, ready, sent, agent.discovery.cor)
  BY DEF LoopInv, Typed, LoopOk
<1>2. /\ Steps /\ e \in Messages(sent) /\ RestOk(Me.h, rest, sent) /\ Deliver(e, rest)
  BY DEF Speaks
<1>3. Now \in DOMAIN tasks /\ Me = tasks[Now] /\ Me \in Works(sent)
  BY <1>2, Mine
<1>4. e.type \in Types /\ Me \in Works(Requests) /\ rest \in Lists(Requests)
  BY <1>1, <1>2, <1>3, SetsGrow DEF Messages, RestOk
<1>5. /\ Spawned(Resume(rest), Tail(ready), Now, e, rank[e.type], tasks', ready')
      /\ \A i \in DOMAIN tasks : i <= Max(DOMAIN tasks)
      /\ Max(DOMAIN tasks) \in DOMAIN tasks
  BY <1>1, <1>2, <1>3, <1>4, DeliverBook DEF LoopInv
<1> DEFINE me == [tasks[Now] EXCEPT !.resumed = TRUE, !.rest = rest]
           me2 == [me EXCEPT !.left = Len(order)]
<1>6. /\ DOMAIN Resume(rest) = DOMAIN tasks /\ Resume(rest)[Now] = me
      /\ \A i \in DOMAIN tasks \ {Now} : Resume(rest)[i] = tasks[i]
  BY <1>3 DEF Resume
<1>7. me2.h = Me.h /\ me2.e = Me.e /\ me2.resumed /\ me2.rest = rest
  BY <1>3 DEF Works
<1> HIDE DEF me
<1>8. /\ DOMAIN tasks' = DOMAIN tasks \cup {first + k : k \in DOMAIN order}
      /\ \A i \in DOMAIN tasks \ {Now} : tasks'[i] = tasks[i]
      /\ tasks'[Now] = me2
      /\ \A k \in DOMAIN order : tasks'[first + k] = Task(order[k], e, Now)
      /\ ready' = Tail(ready) \o Line(first, order)
  BY <1>5, <1>6 DEF Spawned
<1> HIDE DEF me2
<1>9. \A i \in DOMAIN tasks \ {Now} : Same(tasks, tasks', i)
  BY <1>8 DEF Same
<1>10. first \in Nat
  BY <1>5 DEF LoopInv, Book, Entered
<1> QED  BY <1>3, <1>5, <1>7, <1>8, <1>9, <1>10 DEF Spoken

Arrived(h, e, rest, order) ==
    /\ NextId \in Nat \ {0} /\ \A i \in DOMAIN tasks : i < NextId
    /\ DOMAIN tasks' = DOMAIN tasks \cup {NextId} \cup {NextId + k : k \in DOMAIN order}
    /\ \A i \in DOMAIN tasks : Same(tasks, tasks', i)
    /\ tasks'[NextId].h = h /\ tasks'[NextId].e = e /\ tasks'[NextId].rest = rest
    /\ \A k \in DOMAIN order : tasks'[NextId + k] = Task(order[k], e, NextId)
    /\ ready' = ready \o Line(NextId, order)

LEMMA ArrivesTasks ==
    ASSUME LoopInv, NEW h, NEW e, NEW rest, Arrives(h, e, rest),
           NEW order, order = rank[e.type]
    PROVE  Arrived(h, e, rest, order)
<1>1. /\ sent' \subseteq Requests /\ rank \in Ranks /\ h \in {"client", "replay"}
      /\ e \in Messages(sent') /\ RestOk(h, rest, sent') /\ Enter(h, e, rest)
  BY DEF LoopInv, Typed, Arrives
<1>2. e \in Messages(Requests) /\ rest \in Lists(Requests)
  BY <1>1, SetsGrow DEF RestOk
<1>3. /\ Spawned(Hosted(h, e, rest), ready, NextId, e, rank[e.type], tasks', ready')
      /\ NextId \in Nat \ {0} /\ \A i \in DOMAIN tasks : i < NextId
      /\ Max(DOMAIN tasks \cup {NextId}) = NextId
  BY <1>1, <1>2, EnterBook DEF LoopInv
<1> DEFINE ts == Hosted(h, e, rest)
           host == [Task(h, e, 0) EXCEPT !.resumed = TRUE, !.rest = rest]
           host2 == [host EXCEPT !.left = Len(order)]
           t == NextId
<1>4. host2.h = h /\ host2.rest = rest /\ host2.e = e
  BY DEF Task
<1>5. ts = [i \in DOMAIN tasks \cup {t} |-> IF i = t THEN host ELSE tasks[i]]
  BY DEF Hosted
<1> HIDE DEF host
<1>6. t \notin DOMAIN tasks
  BY <1>3
<1> HIDE DEF ts, t
<1>7. DOMAIN ts = DOMAIN tasks \cup {t} /\ ts[t] = host /\ \A i \in DOMAIN tasks : ts[i] = tasks[i]
  BY <1>5, <1>6
<1>8. Max(DOMAIN ts) = t
  BY <1>3, <1>7 DEF t
<1>9. /\ DOMAIN tasks' = DOMAIN ts \cup {t + k : k \in DOMAIN order}
      /\ \A i \in DOMAIN ts \ {t} : tasks'[i] = ts[i]
      /\ tasks'[t] = host2
      /\ \A k \in DOMAIN order : tasks'[t + k] = Task(order[k], e, t)
      /\ ready' = ready \o Line(t, order)
  <2>1. Spawned(ts, ready, t, e, order, tasks', ready')
    BY <1>3 DEF ts, t
  <2> DEFINE first == Max(DOMAIN ts)
  <2>2. /\ DOMAIN tasks' = DOMAIN ts \cup {first + k : k \in DOMAIN order}
        /\ \A i \in DOMAIN ts \ {t} : tasks'[i] = ts[i]
        /\ tasks'[t] = [ts[t] EXCEPT !.left = Len(order)]
        /\ \A k \in DOMAIN order : tasks'[first + k] = Task(order[k], e, t)
        /\ ready' = ready \o Line(first, order)
    BY <2>1, Zenon DEF Spawned
  <2> HIDE DEF first
  <2>3. first = t
    BY <1>8 DEF first
  <2> QED  BY <1>7, <2>2, <2>3
<1> HIDE DEF host2
<1>10. \A i \in DOMAIN tasks : Same(tasks, tasks', i)
  BY <1>6, <1>7, <1>9 DEF Same
<1> QED  BY <1>3, <1>4, <1>7, <1>9, <1>10 DEF t, Arrived

LEMMA EndsTasks ==
    ASSUME LoopInv, Ends
    PROVE  /\ Now \in DOMAIN tasks /\ DOMAIN tasks' = DOMAIN tasks \ {Now}
           /\ \A i \in DOMAIN tasks' : Same(tasks, tasks', i)
           /\ \/ ready' = Tail(ready)
              \/ \E t : <<"done", t>> \in Callbacks /\ ready' = Tail(ready) \o << <<"done", t>> >>
<1>1. Steps /\ Finish
  BY DEF Ends
<1>2. /\ Now \in DOMAIN tasks /\ DOMAIN tasks' = DOMAIN tasks \ {Now}
      /\ \A i \in DOMAIN tasks' : tasks'[i] = tasks[i]
  BY <1>1, FinishBook DEF LoopInv
<1>3. \A i \in DOMAIN tasks' : Same(tasks, tasks', i)
  BY <1>2 DEF Same
<1>4. ready' = Due(Tail(ready), IF Me.by = 0 THEN <<>> ELSE << <<"done", Me.by>> >>)
  BY <1>1 DEF Finish
<1>5. Tail(ready) \in Seq(Callbacks)
  BY <1>1, CallbackTaken DEF Steps, LoopInv
<1>6. CASE Me.by = 0
  BY <1>2, <1>3, <1>4, <1>5, <1>6 DEF Due
<1>7. CASE Me.by # 0
  <2>1. <<"done", Me.by>> \in Callbacks
    <3>1. Me \in Works(sent)
      BY <1>1, Mine
    <3> QED  BY <1>7, <3>1 DEF Works, Callbacks
  <2> QED  BY <1>2, <1>3, <1>4, <1>7, <2>1 DEF Due
<1> QED  BY <1>6, <1>7

LEMMA WakesTasks ==
    ASSUME LoopInv, Wakes
    PROVE  /\ DOMAIN tasks' = DOMAIN tasks /\ ready # <<>> /\ ready[1][1] = "done"
           /\ \A i \in DOMAIN tasks : Same(tasks, tasks', i)
           /\ \/ ready' = Tail(ready)
              \/ \E t \in DOMAIN tasks : /\ tasks[t].resumed /\ <<"step", t>> \in Callbacks
                                         /\ ready' = Tail(ready) \o << <<"step", t>> >>
<1> DEFINE t == Head(ready)[2]
           k == [tasks[t] EXCEPT !.left = tasks[t].left - 1]
<1>1. Woken /\ ready # <<>> /\ Head(ready)[1] = "done"
  BY DEF Wakes, Woken
<1>2. \A i \in DOMAIN tasks : WorkOk(tasks[i], sent, agent.discovery.cor) /\ tasks[i] \in Works(Requests)
  <2>1. Works(sent) \subseteq Works(Requests)
    BY SetsGrow DEF LoopInv, Typed
  <2>2. \A i \in DOMAIN tasks : WorkOk(tasks[i], sent, agent.discovery.cor)
    BY DEF LoopInv, Typed, WorksOk
  <2>3. \A i \in DOMAIN tasks : tasks[i] \in Works(sent)
    BY <2>2 DEF WorkOk
  <2> QED  BY <2>1, <2>2, <2>3
<1>3. t \in DOMAIN tasks => tasks[t] \in Works(Requests)
  <2> HIDE DEF t
  <2> QED  BY <1>2
<1>4. /\ t \in DOMAIN tasks /\ tasks[t].left # 0 /\ tasks' = [tasks EXCEPT ![t] = k]
      /\ ready' = Tail(ready) \/ ready' = Append(Tail(ready), <<"step", t>>)
  BY <1>1, <1>3, WokenBook DEF LoopInv
<1>5. k.h = tasks[t].h /\ k.e = tasks[t].e /\ k.resumed = tasks[t].resumed /\ k.rest = tasks[t].rest
  BY <1>3, <1>4 DEF Works
<1>6. Head(ready) = ready[1]
  OBVIOUS
<1> HIDE DEF t, k
<1>7. DOMAIN tasks' = DOMAIN tasks /\ \A i \in DOMAIN tasks : Same(tasks, tasks', i)
  BY <1>4, <1>5 DEF Same
<1>8. tasks[t].resumed /\ <<"step", t>> \in Callbacks
  BY <1>2, <1>4 DEF WorkOk, LoopInv, Book, Entered, Callbacks
<1>9. Append(Tail(ready), <<"step", t>>) = Tail(ready) \o << <<"step", t>> >>
  <2> DEFINE c == <<"step", t>>
  <2>1. Tail(ready) \in Seq(Callbacks) /\ c \in Callbacks
    BY <1>1, <1>8, CallbackTaken DEF LoopInv
  <2> HIDE DEF c
  <2>2. Append(Tail(ready), c) = Tail(ready) \o << c >>
    BY <2>1
  <2> QED  BY <2>2 DEF c
<1> QED  BY <1>1, <1>4, <1>6, <1>7, <1>8, <1>9

(***************************************************************************)
(* Callers.                                                                *)
(***************************************************************************)
LEMMA WaitedNext ==
    ASSUME LoopInv, Waited, [Next]_vars PROVE Waited'
<1>1. ASSUME NEW e, NEW rest, Speaks(e, rest) PROVE Waited'
  <2>1. /\ Now \in DOMAIN tasks' /\ tasks'[Now].h = Me.h /\ tasks'[Now].e = Me.e
        /\ Now \in DOMAIN tasks /\ \A i \in DOMAIN tasks \ {Now} : Same(tasks, tasks', i)
    BY <1>1, SpeaksTasks DEF Spoken
  <2>2. sent' = sent /\ answered' = answered
    BY <1>1 DEF Speaks
  <2> QED  BY <2>1, <2>2 DEF Waited, Same, Me
<1>2. CASE Ends
  <2>1. /\ Now \in DOMAIN tasks /\ DOMAIN tasks' = DOMAIN tasks \ {Now}
        /\ \A i \in DOMAIN tasks' : Same(tasks, tasks', i)
    BY <1>2, EndsTasks
  <2>2. /\ sent' = sent
        /\ answered' = IF Me.h = "client" THEN answered \cup {Me.e.cor} ELSE answered
    BY <1>2 DEF Ends
  <2>3. ASSUME NEW r \in sent' \ answered'
        PROVE  \E t \in DOMAIN tasks' : tasks'[t].h = "client" /\ tasks'[t].e.cor = r
    <3>1. PICK t \in DOMAIN tasks : tasks[t].h = "client" /\ tasks[t].e.cor = r
      BY <2>2 DEF Waited
    <3>2. t # Now
      BY <2>2, <3>1 DEF Me
    <3> QED  BY <2>1, <3>1, <3>2 DEF Same
  <2> QED  BY <2>3 DEF Waited
<1>3. CASE Wakes
  <2>1. DOMAIN tasks' = DOMAIN tasks /\ \A i \in DOMAIN tasks : Same(tasks, tasks', i)
    BY <1>3, WakesTasks
  <2> QED  BY <1>3, <2>1 DEF Wakes, Waited, Same
<1>4. CASE Called
  <2>1. PICK h, e, rest : Arrives(h, e, rest)
    BY <1>4 DEF Called
  <2> DEFINE order == rank[e.type]
  <2>2. /\ NextId \in DOMAIN tasks' /\ \A i \in DOMAIN tasks : Same(tasks, tasks', i)
        /\ tasks'[NextId].h = h /\ tasks'[NextId].e = e
    <3>1. /\ DOMAIN tasks' = DOMAIN tasks \cup {NextId} \cup {NextId + k : k \in DOMAIN order}
          /\ \A i \in DOMAIN tasks : Same(tasks, tasks', i)
          /\ tasks'[NextId].h = h /\ tasks'[NextId].e = e
      BY <2>1, ArrivesTasks DEF Arrived
    <3> QED  BY <3>1
  <2>3. sent' = (IF h = "client" THEN sent \cup {e.cor} ELSE sent) /\ answered' = answered
    BY <2>1 DEF Arrives
  <2> QED  BY <2>2, <2>3 DEF Waited, Same
<1>5. CASE UNCHANGED vars
  BY <1>5 DEF vars, Waited
<1> QED  BY <1>1, <1>2, <1>3, <1>4, <1>5, LoopKinds

\* Nobody is left waiting: when nothing is due, no task is left and every
\* send_message has returned, however the messages, the replays and the
\* gathers of the handlers interleave.
THEOREM EveryCallReturns == Spec => [](Idle => Returned)
<1>1. Init => Waited
  BY DEF Init, Waited
<1>2. LoopInv /\ Waited /\ [Next]_vars => Waited'
  BY WaitedNext
<1>3. LoopInv /\ Waited => (Idle => Returned)
  <2> SUFFICES ASSUME LoopInv, Waited, Idle PROVE Returned
    OBVIOUS
  <2>1. tasks = <<>>
    BY NothingLeft DEF LoopInv, Typed, WorksOk
  <2>2. DOMAIN tasks = {} /\ answered \subseteq sent
    BY <2>1 DEF LoopInv, Typed
  <2> QED  BY <2>1, <2>2 DEF Waited, Returned
<1> QED  BY <1>1, <1>2, <1>3, LoopInit, LoopNext, PTL DEF Spec

(***************************************************************************)
(* The line of the recorders, as the queue moves.                          *)
(***************************************************************************)
Alike(ts, ts2, queue) ==
    \A n \in DOMAIN queue :
        ts2[queue[n][2]].h = ts[queue[n][2]].h /\ ts2[queue[n][2]].e = ts[queue[n][2]].e

Standing(ts, queue, kept, all, at) ==
    /\ at \in [1 .. Len(all) - Len(kept) -> DOMAIN queue]
    /\ \A i, j \in DOMAIN at : i < j => at[i] < at[j]
    /\ \A k \in DOMAIN at : /\ Recording(ts, queue, at[k])
                            /\ ts[queue[at[k]][2]].e = all[Len(kept) + k]
    /\ \A n \in DOMAIN queue : Recording(ts, queue, n) => \E k \in DOMAIN at : at[k] = n

LEMMA LineStands ==
    ASSUME NEW ts, NEW queue, NEW kept, NEW all
    PROVE  InLine(ts, queue, kept, all) <=>
              /\ Len(kept) <= Len(all) /\ \A k \in DOMAIN kept : kept[k] = all[k]
              /\ \E at : Standing(ts, queue, kept, all, at)
BY Zenon DEF InLine, Standing

\* What is behind the head of a queue moves up.
LEMMA TailAt ==
    ASSUME NEW q \in Seq(Callbacks), q # <<>>
    PROVE  /\ DOMAIN q = 1 .. Len(q) /\ Len(q) \in Nat \ {0}
           /\ DOMAIN Tail(q) = 1 .. Len(q) - 1
           /\ \A n \in 1 .. Len(q) - 1 : Tail(q)[n] = q[n + 1]
OBVIOUS

\* A callback that records nothing leaves the line as it is.
LEMMA LineDrop ==
    ASSUME NEW ts, NEW q \in Seq(Callbacks), q # <<>>, ~Recording(ts, q, 1),
           NEW M, NEW kept \in Seq(M), NEW all \in Seq(M), InLine(ts, q, kept, all)
    PROVE  InLine(ts, Tail(q), kept, all)
<1> DEFINE left == Len(all) - Len(kept)
<1>1. PICK at : Standing(ts, q, kept, all, at)
  BY LineStands
<1>2. /\ at \in [1 .. left -> DOMAIN q]
      /\ \A i, j \in 1 .. left : i < j => at[i] < at[j]
      /\ \A k \in 1 .. left : Recording(ts, q, at[k]) /\ ts[q[at[k]][2]].e = all[Len(kept) + k]
      /\ \A n \in DOMAIN q : Recording(ts, q, n) => \E k \in 1 .. left : at[k] = n
  BY <1>1 DEF Standing
<1>3. /\ DOMAIN q = 1 .. Len(q) /\ Len(q) \in Nat \ {0}
      /\ DOMAIN Tail(q) = 1 .. Len(q) - 1
      /\ \A n \in 1 .. Len(q) - 1 : Tail(q)[n] = q[n + 1]
  BY TailAt
<1> HIDE DEF left
<1>4. \A n \in 1 .. Len(q) - 1 : Recording(ts, Tail(q), n) <=> Recording(ts, q, n + 1)
  BY <1>3 DEF Recording
<1> DEFINE at2 == [k \in 1 .. left |-> at[k] - 1]
<1>5. ASSUME NEW k \in 1 .. left PROVE at[k] \in 1 .. Len(q) /\ at[k] # 1 /\ at[k] - 1 \in 1 .. Len(q) - 1
  BY <1>2, <1>3
<1>6. at2 \in [1 .. left -> DOMAIN Tail(q)]
  BY <1>3, <1>5
<1>7. \A i, j \in 1 .. left : i < j => at2[i] < at2[j]
  BY <1>2, <1>3, <1>5
<1>8. ASSUME NEW k \in 1 .. left
      PROVE  Recording(ts, Tail(q), at2[k]) /\ ts[Tail(q)[at2[k]][2]].e = all[Len(kept) + k]
  <2>1. at2[k] = at[k] - 1 /\ at2[k] \in 1 .. Len(q) - 1 /\ at2[k] + 1 = at[k]
    BY <1>3, <1>5
  <2> HIDE DEF at2
  <2> QED  BY <1>2, <1>3, <1>4, <2>1
<1>9. ASSUME NEW n \in DOMAIN Tail(q), Recording(ts, Tail(q), n) PROVE \E k \in 1 .. left : at2[k] = n
  <2>1. n \in 1 .. Len(q) - 1 /\ n + 1 \in DOMAIN q /\ Recording(ts, q, n + 1)
    BY <1>3, <1>4, <1>9
  <2>2. PICK k \in 1 .. left : at[k] = n + 1
    BY <1>2, <2>1
  <2>3. at2[k] = at[k] - 1
    OBVIOUS
  <2>4. at2[k] = n
    BY <1>3, <2>1, <2>2, <2>3
  <2> QED  BY <2>4
<1>10. DOMAIN at2 = 1 .. left
  OBVIOUS
<1> HIDE DEF at2
<1>11. Standing(ts, Tail(q), kept, all, at2)
  BY <1>6, <1>7, <1>8, <1>9, <1>10 DEF Standing, left
<1>12. Len(kept) <= Len(all) /\ \A k \in DOMAIN kept : kept[k] = all[k]
  BY LineStands
<1> QED  BY <1>11, <1>12, LineStands

\* A recorder at the head records what the history lacks first.
LEMMA LineRecord ==
    ASSUME NEW ts, NEW q \in Seq(Callbacks), q # <<>>, Recording(ts, q, 1),
           NEW M, NEW kept \in Seq(M), NEW all \in Seq(M), InLine(ts, q, kept, all),
           NEW kept2, kept2 = Append(kept, ts[q[1][2]].e)
    PROVE  InLine(ts, Tail(q), kept2, all)
<1> DEFINE left == Len(all) - Len(kept)
<1>1. PICK at : Standing(ts, q, kept, all, at)
  BY LineStands
<1>2. /\ at \in [1 .. left -> DOMAIN q]
      /\ \A i, j \in 1 .. left : i < j => at[i] < at[j]
      /\ \A k \in 1 .. left : Recording(ts, q, at[k]) /\ ts[q[at[k]][2]].e = all[Len(kept) + k]
      /\ \A n \in DOMAIN q : Recording(ts, q, n) => \E k \in 1 .. left : at[k] = n
  BY <1>1 DEF Standing
<1>3. /\ DOMAIN q = 1 .. Len(q) /\ Len(q) \in Nat \ {0}
      /\ DOMAIN Tail(q) = 1 .. Len(q) - 1
      /\ \A n \in 1 .. Len(q) - 1 : Tail(q)[n] = q[n + 1]
  BY TailAt
<1>4. \A n \in 1 .. Len(q) - 1 : Recording(ts, Tail(q), n) <=> Recording(ts, q, n + 1)
  BY <1>3 DEF Recording
<1>5. Len(kept) \in Nat /\ Len(all) \in Nat /\ left \in Int
  OBVIOUS
<1> HIDE DEF left
<1>6. left >= 1 /\ 1 \in 1 .. left /\ at[1] = 1
  <2>1. PICK k \in 1 .. left : at[k] = 1
    BY <1>2, <1>3
  <2>2. 1 \in 1 .. left /\ at[1] \in 1 .. Len(q)
    BY <1>2, <1>3, <1>5, <2>1
  <2>3. ~ (1 < k)
    BY <1>2, <1>3, <2>1, <2>2
  <2> QED  BY <1>5, <2>1, <2>2, <2>3
<1>7. ts[q[1][2]].e = all[Len(kept) + 1]
  BY <1>2, <1>6
<1>8. Len(kept) + 1 <= Len(all) /\ left - 1 = Len(all) - (Len(kept) + 1)
  BY <1>5, <1>6 DEF left
<1>9. /\ Len(kept2) = Len(kept) + 1 /\ DOMAIN kept2 = 1 .. Len(kept) + 1
      /\ \A k \in DOMAIN kept2 : kept2[k] = all[k]
  <2>1. \A k \in DOMAIN kept : kept[k] = all[k]
    BY LineStands
  <2>2. all[Len(kept) + 1] \in M
    BY <1>5, <1>8
  <2> QED  BY <1>5, <1>7, <2>1, <2>2
<1> DEFINE at2 == [k \in 1 .. left - 1 |-> at[k + 1] - 1]
<1>10. ASSUME NEW k \in 1 .. left - 1
       PROVE  /\ k + 1 \in 1 .. left /\ at[k + 1] \in 1 .. Len(q) /\ at[k + 1] > 1
              /\ at2[k] \in 1 .. Len(q) - 1 /\ at2[k] + 1 = at[k + 1]
  <2>1. k + 1 \in 1 .. left /\ 1 < k + 1
    BY <1>5
  <2>2. at[k + 1] \in 1 .. Len(q) /\ at[1] < at[k + 1]
    BY <1>2, <1>3, <1>6, <2>1
  <2> QED  BY <1>3, <1>6, <2>1, <2>2
<1>11. DOMAIN at2 = 1 .. left - 1 /\ at2 \in [1 .. left - 1 -> DOMAIN Tail(q)]
  BY <1>3, <1>10
<1> HIDE DEF at2
<1>12. \A i, j \in 1 .. left - 1 : i < j => at2[i] < at2[j]
  <2>1. ASSUME NEW i \in 1 .. left - 1, NEW j \in 1 .. left - 1, i < j PROVE at2[i] < at2[j]
    <3>1. i + 1 < j + 1 /\ i + 1 \in 1 .. left /\ j + 1 \in 1 .. left
      BY <1>5, <2>1, <1>10
    <3>2. at[i + 1] < at[j + 1]
      BY <1>2, <3>1
    <3>3. at2[i] \in Int /\ at2[j] \in Int /\ at2[i] + 1 = at[i + 1] /\ at2[j] + 1 = at[j + 1]
      BY <1>3, <1>10
    <3> QED  BY <3>2, <3>3
  <2> QED  BY <2>1
<1>13. ASSUME NEW k \in 1 .. left - 1
       PROVE  Recording(ts, Tail(q), at2[k]) /\ ts[Tail(q)[at2[k]][2]].e = all[Len(kept2) + k]
  <2>1. Recording(ts, q, at[k + 1]) /\ ts[q[at[k + 1]][2]].e = all[Len(kept) + (k + 1)]
    BY <1>2, <1>10
  <2>2. Len(kept) + (k + 1) = Len(kept2) + k
    BY <1>5, <1>9
  <2> QED  BY <1>3, <1>4, <1>10, <2>1, <2>2
<1>14. ASSUME NEW n \in DOMAIN Tail(q), Recording(ts, Tail(q), n)
       PROVE  \E k \in 1 .. left - 1 : at2[k] = n
  <2>1. n \in 1 .. Len(q) - 1 /\ n + 1 \in DOMAIN q /\ Recording(ts, q, n + 1)
    BY <1>3, <1>4, <1>14
  <2>2. PICK k \in 1 .. left : at[k] = n + 1
    BY <1>2, <2>1
  <2>3. k # 1
    BY <1>6, <2>1, <2>2
  <2>4. k - 1 \in 1 .. left - 1 /\ (k - 1) + 1 = k
    BY <1>5, <2>3
  <2>5. at2[k - 1] + 1 = n + 1 /\ at2[k - 1] \in 1 .. Len(q) - 1
    BY <1>10, <2>2, <2>4
  <2>6. at2[k - 1] = n
    BY <1>3, <2>1, <2>5
  <2> QED  BY <2>4, <2>6
<1>15. Len(all) - Len(kept2) = left - 1
  BY <1>8, <1>9
<1>16. Standing(ts, Tail(q), kept2, all, at2)
  BY <1>11, <1>12, <1>13, <1>14, <1>15 DEF Standing
<1>17. Len(kept2) <= Len(all)
  BY <1>8, <1>9
<1> QED  BY <1>9, <1>16, <1>17, LineStands

\* Two queues in one.
LEMMA JoinAt ==
    ASSUME NEW p \in Seq(Callbacks), NEW q \in Seq(Callbacks)
    PROVE  /\ DOMAIN q = 1 .. Len(q) /\ Len(q) \in Nat /\ DOMAIN p = 1 .. Len(p) /\ Len(p) \in Nat
           /\ DOMAIN (q \o p) = 1 .. Len(q) + Len(p) /\ q \o p \in Seq(Callbacks)
           /\ \A n \in 1 .. Len(q) : (q \o p)[n] = q[n]
           /\ \A n \in 1 .. Len(p) : (q \o p)[Len(q) + n] = p[n]
<1>1. /\ DOMAIN q = 1 .. Len(q) /\ Len(q) \in Nat /\ DOMAIN p = 1 .. Len(p) /\ Len(p) \in Nat
      /\ DOMAIN (q \o p) = 1 .. Len(q) + Len(p) /\ q \o p \in Seq(Callbacks)
  OBVIOUS
<1>2. \A n \in 1 .. Len(q) + Len(p) : (q \o p)[n] = IF n <= Len(q) THEN q[n] ELSE p[n - Len(q)]
  OBVIOUS
<1>3. \A n \in 1 .. Len(q) : (q \o p)[n] = q[n]
  BY <1>1, <1>2
<1>4. ASSUME NEW n \in 1 .. Len(p) PROVE (q \o p)[Len(q) + n] = p[n]
  <2>1. Len(q) + n \in 1 .. Len(q) + Len(p) /\ ~ (Len(q) + n <= Len(q)) /\ (Len(q) + n) - Len(q) = n
    BY <1>1
  <2> DEFINE m == Len(q) + n
  <2> HIDE DEF m
  <2>2. (q \o p)[m] = p[m - Len(q)]
    BY <1>2, <2>1 DEF m
  <2> QED  BY <2>1, <2>2 DEF m
<1> QED  BY <1>1, <1>3, <1>4

\* What joins the queue without recording leaves the line as it is.
LEMMA LineMove ==
    ASSUME NEW ts, NEW ts2, NEW q \in Seq(Callbacks), NEW p \in Seq(Callbacks), Alike(ts, ts2, q),
           \A n \in DOMAIN p : ~Recording(ts2, p, n), NEW q2, q2 = q \o p,
           NEW kept, NEW all, InLine(ts, q, kept, all)
    PROVE  InLine(ts2, q2, kept, all)
<1>1. PICK at : Standing(ts, q, kept, all, at)
  BY LineStands
<1>2. /\ DOMAIN q = 1 .. Len(q) /\ Len(q) \in Nat /\ DOMAIN p = 1 .. Len(p) /\ Len(p) \in Nat
      /\ DOMAIN q2 = 1 .. Len(q) + Len(p)
      /\ \A n \in 1 .. Len(q) : q2[n] = q[n]
      /\ \A n \in 1 .. Len(p) : q2[Len(q) + n] = p[n]
  BY JoinAt
<1>3. \A n \in 1 .. Len(q) : /\ Recording(ts2, q2, n) <=> Recording(ts, q, n)
                             /\ ts2[q2[n][2]].e = ts[q[n][2]].e
  BY <1>2 DEF Recording, Alike
<1>4. ASSUME NEW n \in DOMAIN q2, Recording(ts2, q2, n) PROVE n \in DOMAIN q
  <2>1. SUFFICES ASSUME n \notin DOMAIN q PROVE FALSE
    OBVIOUS
  <2>2. n - Len(q) \in 1 .. Len(p) /\ Len(q) + (n - Len(q)) = n
    BY <1>2, <2>1
  <2>3. q2[n] = p[n - Len(q)]
    BY <1>2, <2>2
  <2>4. Recording(ts2, p, n - Len(q))
    BY <1>4, <2>3 DEF Recording
  <2> QED  BY <1>2, <2>2, <2>4
<1>5. Standing(ts2, q2, kept, all, at)
  <2>1. at \in [1 .. Len(all) - Len(kept) -> DOMAIN q]
    BY <1>1 DEF Standing
  <2>2. DOMAIN q \subseteq DOMAIN q2
    BY <1>2
  <2>3. at \in [1 .. Len(all) - Len(kept) -> DOMAIN q2]
    BY <2>1, <2>2
  <2>4. ASSUME NEW k \in DOMAIN at
        PROVE  Recording(ts2, q2, at[k]) /\ ts2[q2[at[k]][2]].e = all[Len(kept) + k]
    <3>1. at[k] \in 1 .. Len(q)
      BY <1>2, <2>1
    <3>2. Recording(ts, q, at[k]) /\ ts[q[at[k]][2]].e = all[Len(kept) + k]
      BY <1>1 DEF Standing
    <3> QED  BY <1>3, <3>1, <3>2
  <2>5. ASSUME NEW n \in DOMAIN q2, Recording(ts2, q2, n) PROVE \E k \in DOMAIN at : at[k] = n
    <3>1. n \in DOMAIN q /\ Recording(ts, q, n)
      BY <1>2, <1>3, <1>4, <2>5
    <3> QED  BY <1>1, <3>1 DEF Standing
  <2>6. \A i, j \in DOMAIN at : i < j => at[i] < at[j]
    BY <1>1 DEF Standing
  <2> QED  BY <2>3, <2>4, <2>5, <2>6 DEF Standing
<1> QED  BY <1>5, LineStands

\* The recorder of what is published last stands behind all others.
Alone(ts, queue, last, e) ==
    /\ Recording(ts, queue, last) /\ ts[queue[last][2]].e = e
    /\ \A n \in DOMAIN queue : Recording(ts, queue, n) => n = last

LEMMA LineAdd ==
    ASSUME NEW ts, NEW ts2, NEW q \in Seq(Callbacks), NEW p \in Seq(Callbacks), Alike(ts, ts2, q),
           NEW e, NEW last \in DOMAIN p, Alone(ts2, p, last, e), NEW q2, q2 = q \o p,
           NEW M, NEW kept \in Seq(M), NEW all \in Seq(M), InLine(ts, q, kept, all),
           e \in M, NEW all2, all2 = Append(all, e)
    PROVE  InLine(ts2, q2, kept, all2)
<1>0. /\ Recording(ts2, p, last) /\ ts2[p[last][2]].e = e
      /\ \A n \in DOMAIN p : Recording(ts2, p, n) => n = last
  BY DEF Alone
<1> DEFINE left == Len(all) - Len(kept)
<1>1. PICK at : Standing(ts, q, kept, all, at)
  BY LineStands
<1>2. /\ DOMAIN q = 1 .. Len(q) /\ Len(q) \in Nat /\ DOMAIN p = 1 .. Len(p) /\ Len(p) \in Nat
      /\ DOMAIN q2 = 1 .. Len(q) + Len(p)
      /\ \A n \in 1 .. Len(q) : q2[n] = q[n]
      /\ \A n \in 1 .. Len(p) : q2[Len(q) + n] = p[n]
  BY JoinAt
<1>3. /\ at \in [1 .. left -> DOMAIN q]
      /\ \A i, j \in 1 .. left : i < j => at[i] < at[j]
      /\ \A k \in 1 .. left : Recording(ts, q, at[k]) /\ ts[q[at[k]][2]].e = all[Len(kept) + k]
      /\ \A n \in DOMAIN q : Recording(ts, q, n) => \E k \in 1 .. left : at[k] = n
  BY <1>1 DEF Standing
<1>4. /\ Len(kept) \in Nat /\ Len(all) \in Nat /\ Len(kept) <= Len(all) /\ left \in Nat
      /\ \A k \in DOMAIN kept : kept[k] = all[k]
      /\ DOMAIN kept = 1 .. Len(kept) /\ DOMAIN all = 1 .. Len(all)
  <2>1. Len(kept) <= Len(all) /\ \A k \in DOMAIN kept : kept[k] = all[k]
    BY LineStands
  <2>2. Len(kept) \in Nat /\ Len(all) \in Nat /\ DOMAIN kept = 1 .. Len(kept) /\ DOMAIN all = 1 .. Len(all)
    OBVIOUS
  <2> QED  BY <2>1, <2>2
<1>5. /\ Len(all2) = Len(all) + 1 /\ all2[Len(all) + 1] = e
      /\ \A k \in 1 .. Len(all) : all2[k] = all[k]
  OBVIOUS
<1>6. \A n \in 1 .. Len(q) : /\ Recording(ts2, q2, n) <=> Recording(ts, q, n)
                             /\ ts2[q2[n][2]].e = ts[q[n][2]].e
  <2>1. ASSUME NEW n \in 1 .. Len(q)
        PROVE  /\ Recording(ts2, q2, n) <=> Recording(ts, q, n)
               /\ ts2[q2[n][2]].e = ts[q[n][2]].e
    <3>1. n \in DOMAIN q /\ q2[n] = q[n]
      BY <1>2
    <3>2. ts2[q[n][2]].h = ts[q[n][2]].h /\ ts2[q[n][2]].e = ts[q[n][2]].e
      BY <3>1 DEF Alike
    <3> QED  BY <3>1, <3>2 DEF Recording
  <2> QED  BY <2>1
<1>7. Len(all2) - Len(kept) = left + 1 /\ Len(kept) + left = Len(all)
  BY <1>4, <1>5
<1> HIDE DEF left
<1> DEFINE at2 == [k \in 1 .. left + 1 |-> IF k <= left THEN at[k] ELSE Len(q) + last]
           end == Len(q) + last
<1>8. /\ end \in DOMAIN q2 /\ q2[end] = p[last] /\ end > Len(q) /\ end \in Int
  BY <1>2
<1>9. /\ DOMAIN at2 = 1 .. left + 1 /\ at2[left + 1] = end
      /\ \A k \in 1 .. left : at2[k] = at[k] /\ at[k] \in 1 .. Len(q)
  BY <1>2, <1>3, <1>4
<1>10. at2 \in [1 .. left + 1 -> DOMAIN q2]
  <2>1. \A k \in 1 .. left + 1 : k \in 1 .. left \/ k = left + 1
    BY <1>4
  <2>2. 1 .. Len(q) \subseteq DOMAIN q2
    BY <1>2
  <2>3. \A k \in 1 .. left + 1 : at2[k] \in DOMAIN q2
    <3> HIDE DEF at2, end
    <3> QED  BY <1>8, <1>9, <2>1, <2>2
  <2>4. at2 = [k \in 1 .. left + 1 |-> at2[k]]
    OBVIOUS
  <2> HIDE DEF at2
  <2> QED  BY <2>3, <2>4
<1> HIDE DEF at2, end
<1>11. \A k \in 1 .. left + 1 : k \in 1 .. left \/ k = left + 1
  BY <1>4
<1>12. \A i, j \in 1 .. left + 1 : i < j => at2[i] < at2[j]
  <2>1. ASSUME NEW i \in 1 .. left + 1, NEW j \in 1 .. left + 1, i < j PROVE at2[i] < at2[j]
    <3>1. i \in 1 .. left
      BY <1>4, <2>1
    <3>2. CASE j \in 1 .. left
      BY <1>3, <1>9, <2>1, <3>1, <3>2
    <3>3. CASE j = left + 1
      <4>1. at2[i] \in 1 .. Len(q) /\ at2[j] = end
        BY <1>9, <3>1, <3>3
      <4> QED  BY <1>2, <1>8, <4>1
    <3> QED  BY <1>11, <3>2, <3>3
  <2> QED  BY <2>1
<1>13. ASSUME NEW k \in 1 .. left + 1
       PROVE  Recording(ts2, q2, at2[k]) /\ ts2[q2[at2[k]][2]].e = all2[Len(kept) + k]
  <2>1. CASE k \in 1 .. left
    <3>1. Recording(ts, q, at[k]) /\ ts[q[at[k]][2]].e = all[Len(kept) + k] /\ at[k] \in 1 .. Len(q)
      BY <1>3, <1>9, <2>1
    <3>2. Len(kept) + k \in 1 .. Len(all)
      BY <1>4, <1>7, <2>1
    <3> QED  BY <1>5, <1>6, <1>9, <2>1, <3>1, <3>2
  <2>2. CASE k = left + 1
    <3>1. Recording(ts2, q2, end)
      BY <1>0, <1>8 DEF Recording
    <3>2. Len(kept) + k = Len(all) + 1
      BY <1>4, <1>7, <2>2
    <3> QED  BY <1>0, <1>5, <1>8, <1>9, <2>2, <3>1, <3>2
  <2> QED  BY <1>11, <2>1, <2>2
<1>14. ASSUME NEW n \in DOMAIN q2, Recording(ts2, q2, n) PROVE \E k \in 1 .. left + 1 : at2[k] = n
  <2>1. CASE n \in 1 .. Len(q)
    <3>1. PICK k \in 1 .. left : at[k] = n
      BY <1>2, <1>3, <1>6, <1>14, <2>1
    <3>2. k \in 1 .. left + 1 /\ at2[k] = n
      BY <1>4, <1>9, <3>1
    <3> QED  BY <3>2
  <2>2. CASE n \notin 1 .. Len(q)
    <3>1. n - Len(q) \in 1 .. Len(p) /\ Len(q) + (n - Len(q)) = n
      BY <1>2, <2>2
    <3>2. q2[n] = p[n - Len(q)]
      BY <1>2, <3>1
    <3>3. Recording(ts2, p, n - Len(q))
      BY <1>14, <3>2 DEF Recording
    <3>4. n - Len(q) = last
      BY <1>0, <1>2, <3>1, <3>3
    <3>5. n = end /\ left + 1 \in 1 .. left + 1
      BY <1>2, <1>4, <3>1, <3>4 DEF end
    <3> QED  BY <1>9, <3>5
  <2> QED  BY <2>1, <2>2
<1>15. Standing(ts2, q2, kept, all2, at2)
  BY <1>7, <1>9, <1>10, <1>12, <1>13, <1>14 DEF Standing
<1>16. Len(kept) <= Len(all2) /\ \A k \in DOMAIN kept : kept[k] = all2[k]
  BY <1>4, <1>5
<1> QED  BY <1>15, <1>16, LineStands

(***************************************************************************)
(* The history.                                                            *)
(***************************************************************************)
\* What a gather puts in line: one recorder, if the event is to be recorded.
Entering(p, ts2, e) ==
    /\ p \in Seq(Callbacks)
    /\ e.replayed => \A n \in DOMAIN p : ~Recording(ts2, p, n)
    /\ ~e.replayed => \E last \in DOMAIN p : Alone(ts2, p, last, e)

LEMMA LineOfGather ==
    ASSUME NEW first \in Nat, NEW e, e.type \in Types, rank \in Ranks,
           NEW order, order = rank[e.type], NEW ts2, NEW t,
           \A k \in DOMAIN order : ts2[first + k] = Task(order[k], e, t),
           NEW p, p = Line(first, order)
    PROVE  Entering(p, ts2, e)
<1>1. /\ order \in Seq(Handlers(e.type))
      /\ \A j, k \in DOMAIN order : order[j] = order[k] => j = k
      /\ \A h \in Handlers(e.type) : \E k \in DOMAIN order : order[k] = h
  BY RankOk
<1>2. "recorder" \in Handlers(e.type)
  BY DEF Handlers
<1>3. p \in Seq(Callbacks)
  <2>1. 0 \in Nat
    OBVIOUS
  <2> QED  BY <1>1, <2>1, LineProperties
<1>4. DOMAIN p = DOMAIN order /\ \A k \in DOMAIN p : p[k] = <<"step", first + k>>
  BY DEF Line
<1>5. ASSUME NEW k \in DOMAIN p
      PROVE  /\ p[k][1] = "step" /\ ts2[p[k][2]].h = order[k] /\ ts2[p[k][2]].e = e
  <2>1. p[k][1] = "step" /\ p[k][2] = first + k
    BY <1>4
  <2>2. ts2[p[k][2]] = Task(order[k], e, t)
    BY <1>4, <2>1
  <2> QED  BY <2>1, <2>2 DEF Task
<1>6. \A k \in DOMAIN p : Recording(ts2, p, k) <=> order[k] = "recorder" /\ ~e.replayed
  BY <1>5 DEF Recording
<1>7. PICK last \in DOMAIN p : order[last] = "recorder"
  BY <1>1, <1>2, <1>4
<1> QED  BY <1>1, <1>3, <1>4, <1>5, <1>6, <1>7 DEF Entering, Alone

LEMMA HistorySpeaks ==
    ASSUME HistoryInv, NEW e, NEW rest, Speaks(e, rest) PROVE InLine(tasks', ready', events', log')
<1> DEFINE order == rank[e.type]
           first == Max(DOMAIN tasks)
           q == Tail(ready)
           p == Line(first, order)
<1>1. /\ LoopInv /\ Steps /\ Me.h # "recorder" /\ e \in Messages(sent) /\ events' = events
      /\ log' = IF e.replayed THEN log ELSE Append(log, e)
      /\ rank \in Ranks /\ log \in Seq(Messages(sent)) /\ events \in Seq(Messages(sent))
      /\ InLine(tasks, ready, events, log)
  BY DEF HistoryInv, Speaks, LoopInv, Typed, LogOk
<1>0. first = Max(DOMAIN tasks) /\ order = rank[e.type] /\ p = Line(first, order)
  OBVIOUS
<1> HIDE DEF q, p, first, order
<1>2. /\ first \in Nat
      /\ Now \in DOMAIN tasks
      /\ \A i \in DOMAIN tasks \ {Now} : Same(tasks, tasks', i)
      /\ tasks'[Now].h = Me.h /\ tasks'[Now].e = Me.e
      /\ \A k \in DOMAIN order : tasks'[first + k] = Task(order[k], e, Now)
      /\ ready' = q \o p
  <2>1. Spoken(e, rest, first, order)
    BY <1>0, <1>1, SpeaksTasks
  <2> QED  BY <1>0, <2>1 DEF Spoken, q
<1>3. e.type \in Types
  BY <1>1 DEF Messages
<1>4. /\ ready \in Seq(Callbacks) /\ ready # <<>> /\ q \in Seq(Callbacks)
      /\ \A n \in DOMAIN q : q[n][2] \in DOMAIN tasks
  BY <1>1, CallbackTaken DEF Steps, LoopInv, Book, Entered, q
<1>5. ~Recording(tasks, ready, 1)
  <2>1. ready[1][2] = Now
    BY <1>4 DEF Now
  <2> QED  BY <1>1, <2>1 DEF Recording, Me
<1>6. InLine(tasks, q, events, log)
  BY <1>1, <1>4, <1>5, LineDrop DEF q
<1>7. Alike(tasks, tasks', q)
  BY <1>2, <1>4 DEF Alike, Same, Me
<1>8. Entering(p, tasks', e)
  BY <1>0, <1>1, <1>2, <1>3, LineOfGather
<1>11. p \in Seq(Callbacks)
  BY <1>8 DEF Entering
<1>9. CASE e.replayed
  <2>0. \A n \in DOMAIN p : ~Recording(tasks', p, n)
    BY <1>8, <1>9 DEF Entering
  <2>1. InLine(tasks', ready', events, log)
    BY <1>2, <1>4, <1>6, <1>7, <1>11, <2>0, LineMove
  <2> QED  BY <1>1, <1>9, <2>1
<1>10. CASE ~e.replayed
  <2>1. PICK last \in DOMAIN p : Alone(tasks', p, last, e)
    BY <1>8, <1>10 DEF Entering
  <2>2. log' = Append(log, e)
    BY <1>1, <1>10
  <2> DEFINE M == Messages(sent)
  <2>3. log \in Seq(M) /\ events \in Seq(M) /\ e \in M
    BY <1>1
  <2> HIDE DEF M
  <2>4. InLine(tasks', ready', events, log')
    BY <1>2, <1>4, <1>6, <1>7, <1>11, <2>1, <2>2, <2>3, LineAdd
  <2> QED  BY <1>1, <2>4
<1> QED  BY <1>9, <1>10

LEMMA HistoryArrives ==
    ASSUME HistoryInv, NEW h, NEW e, NEW rest, Arrives(h, e, rest)
    PROVE  InLine(tasks', ready', events', log')
<1> DEFINE order == rank[e.type]
           p == Line(NextId, order)
           M == Messages(sent')
<1>1. /\ LoopInv /\ e \in M /\ events' = events
      /\ log' = IF e.replayed THEN log ELSE Append(log, e)
      /\ rank \in Ranks /\ log \in Seq(Messages(sent)) /\ events \in Seq(Messages(sent))
      /\ sent \subseteq sent'
      /\ InLine(tasks, ready, events, log)
  BY DEF HistoryInv, Arrives, LoopInv, Typed, LogOk
<1>0. order = rank[e.type] /\ p = Line(NextId, order)
  OBVIOUS
<1>5. log \in Seq(M) /\ events \in Seq(M)
  BY <1>1, SetsGrow
<1>3. e.type \in Types
  BY <1>1 DEF Messages
<1> HIDE DEF p, order, M
<1>2. /\ NextId \in Nat
      /\ \A i \in DOMAIN tasks : Same(tasks, tasks', i)
      /\ \A k \in DOMAIN order : tasks'[NextId + k] = Task(order[k], e, NextId)
      /\ ready' = ready \o p
  <2>1. Arrived(h, e, rest, order)
    BY <1>0, <1>1, ArrivesTasks
  <2> QED  BY <1>0, <2>1 DEF Arrived
<1>4. /\ ready \in Seq(Callbacks)
      /\ \A n \in DOMAIN ready : ready[n][2] \in DOMAIN tasks
  BY <1>1 DEF LoopInv, Book, Entered
<1>7. Alike(tasks, tasks', ready)
  BY <1>2, <1>4 DEF Alike, Same
<1>8. Entering(p, tasks', e)
  BY <1>0, <1>1, <1>2, <1>3, LineOfGather
<1>11. p \in Seq(Callbacks)
  BY <1>8 DEF Entering
<1>9. CASE e.replayed
  <2>0. \A n \in DOMAIN p : ~Recording(tasks', p, n)
    BY <1>8, <1>9 DEF Entering
  <2>1. InLine(tasks', ready', events, log)
    BY <1>1, <1>2, <1>4, <1>7, <1>11, <2>0, LineMove
  <2> QED  BY <1>1, <1>9, <2>1
<1>10. CASE ~e.replayed
  <2>1. PICK last \in DOMAIN p : Alone(tasks', p, last, e)
    BY <1>8, <1>10 DEF Entering
  <2>2. log' = Append(log, e)
    BY <1>1, <1>10
  <2>4. InLine(tasks', ready', events, log')
    BY <1>1, <1>2, <1>4, <1>5, <1>7, <1>11, <2>1, <2>2, LineAdd
  <2> QED  BY <1>1, <2>4
<1> QED  BY <1>9, <1>10

LEMMA HistoryEnds ==
    ASSUME HistoryInv, Ends PROVE InLine(tasks', ready', events', log')
<1> DEFINE q == Tail(ready)
           M == Messages(sent)
<1>1. /\ LoopInv /\ Steps /\ log' = log
      /\ events' = IF Me.h = "recorder" /\ ~Me.e.replayed THEN Append(events, Me.e) ELSE events
      /\ log \in Seq(M) /\ events \in Seq(M)
      /\ InLine(tasks, ready, events, log)
  BY DEF HistoryInv, Ends, LoopInv, Typed, LogOk
<1>2. /\ Now \in DOMAIN tasks /\ DOMAIN tasks' = DOMAIN tasks \ {Now}
      /\ \A i \in DOMAIN tasks' : Same(tasks, tasks', i)
      /\ \/ ready' = q
         \/ \E t : <<"done", t>> \in Callbacks /\ ready' = q \o << <<"done", t>> >>
  BY <1>1, EndsTasks
<1>3. /\ ready \in Seq(Callbacks) /\ ready # <<>> /\ q \in Seq(Callbacks)
      /\ \A n \in DOMAIN q : q[n][2] \in DOMAIN tasks
  BY <1>1, CallbackTaken DEF Steps, LoopInv, Book, Entered
<1>4. ready[1][2] = Now /\ ready[1][1] = "step"
  BY <1>1, <1>3 DEF Now, Steps
<1>5. Recording(tasks, ready, 1) <=> Me.h = "recorder" /\ ~Me.e.replayed
  BY <1>4 DEF Recording, Me
<1>6. \A n \in DOMAIN q : q[n][2] # Now
  <2>1. Occurs(q, <<"step", Now>>) = 0 /\ Occurs(q, <<"done", Now>>) = 0
    BY <1>1, Current DEF LoopInv
  <2>2. ASSUME NEW n \in DOMAIN q, q[n][2] = Now PROVE FALSE
    <3>1. q[n] \in Callbacks
      BY <1>3
    <3>2. PICK x : q[n] = <<x, Now>> /\ x \in {"step", "done"}
      BY <2>2, <3>1 DEF Callbacks
    <3>3. IsFiniteSet({m \in DOMAIN q : q[m] = <<x, Now>>})
      BY <1>3, OccursType
    <3>4. Cardinality({m \in DOMAIN q : q[m] = <<x, Now>>}) = 0
      BY <2>1, <3>2 DEF Occurs
    <3> QED  BY <3>2, <3>3, <3>4, FS_EmptySet
  <2> QED  BY <2>2
<1> HIDE DEF q, M
<1>7. InLine(tasks, q, events', log)
  <2>1. CASE Me.h = "recorder" /\ ~Me.e.replayed
    <3>1. events' = Append(events, tasks[ready[1][2]].e)
      BY <1>1, <1>4, <2>1 DEF Me
    <3> QED  BY <1>1, <1>3, <1>5, <2>1, <3>1, LineRecord DEF q
  <2>2. CASE ~(Me.h = "recorder" /\ ~Me.e.replayed)
    <3>1. events' = events /\ ~Recording(tasks, ready, 1)
      BY <1>1, <1>5, <2>2
    <3>2. InLine(tasks, q, events, log)
      BY <1>1, <1>3, <3>1, LineDrop DEF q
    <3> QED  BY <3>1, <3>2
  <2> QED  BY <2>1, <2>2
<1>8. Alike(tasks, tasks', q)
  BY <1>2, <1>3, <1>6 DEF Alike, Same
<1>9. PICK p \in Seq(Callbacks) : ready' = q \o p /\ \A n \in DOMAIN p : p[n][1] = "done"
  <2>1. CASE ready' = q
    <3>1. <<>> \in Seq(Callbacks) /\ q = q \o <<>> /\ DOMAIN <<>> = {}
      BY <1>3
    <3> QED  BY <2>1, <3>1
  <2>2. ASSUME NEW t, <<"done", t>> \in Callbacks, ready' = q \o << <<"done", t>> >>
        PROVE  \E p \in Seq(Callbacks) : ready' = q \o p /\ \A n \in DOMAIN p : p[n][1] = "done"
    <3> DEFINE p == << <<"done", t>> >>
    <3>1. p \in Seq(Callbacks) /\ \A n \in DOMAIN p : p[n][1] = "done"
      BY <2>2
    <3> QED  BY <2>2, <3>1
  <2> QED  BY <1>2, <2>1, <2>2
<1>10. \A n \in DOMAIN p : ~Recording(tasks', p, n)
  BY <1>9 DEF Recording
<1>11. InLine(tasks', ready', events', log)
  BY <1>3, <1>7, <1>8, <1>9, <1>10, LineMove
<1> QED  BY <1>1, <1>11

LEMMA HistoryWakes ==
    ASSUME HistoryInv, Wakes PROVE InLine(tasks', ready', events', log')
<1> DEFINE q == Tail(ready)
           M == Messages(sent)
<1>1. /\ LoopInv /\ log' = log /\ events' = events
      /\ log \in Seq(M) /\ events \in Seq(M)
      /\ InLine(tasks, ready, events, log)
  BY DEF HistoryInv, Wakes, LoopInv, Typed, LogOk
<1>2. /\ DOMAIN tasks' = DOMAIN tasks /\ ready # <<>> /\ ready[1][1] = "done"
      /\ \A i \in DOMAIN tasks : Same(tasks, tasks', i)
      /\ \/ ready' = q
         \/ \E t \in DOMAIN tasks : /\ tasks[t].resumed /\ <<"step", t>> \in Callbacks
                                    /\ ready' = q \o << <<"step", t>> >>
  BY <1>1, WakesTasks
<1>3. /\ ready \in Seq(Callbacks) /\ q \in Seq(Callbacks)
      /\ \A n \in DOMAIN q : q[n][2] \in DOMAIN tasks
  BY <1>1, <1>2, CallbackTaken DEF LoopInv, Book, Entered
<1> HIDE DEF q, M
<1>4. InLine(tasks, q, events, log)
  <2>1. ~Recording(tasks, ready, 1)
    BY <1>2 DEF Recording
  <2> QED  BY <1>1, <1>2, <1>3, <2>1, LineDrop DEF q
<1>5. Alike(tasks, tasks', q)
  BY <1>2, <1>3 DEF Alike, Same
<1>6. PICK p \in Seq(Callbacks) : ready' = q \o p /\ \A n \in DOMAIN p : ~Recording(tasks', p, n)
  <2>1. CASE ready' = q
    <3>1. <<>> \in Seq(Callbacks) /\ q = q \o <<>> /\ DOMAIN <<>> = {}
      BY <1>3
    <3> QED  BY <2>1, <3>1
  <2>2. ASSUME NEW t \in DOMAIN tasks, tasks[t].resumed, <<"step", t>> \in Callbacks,
               ready' = q \o << <<"step", t>> >>
        PROVE  \E p \in Seq(Callbacks) : ready' = q \o p /\ \A n \in DOMAIN p : ~Recording(tasks', p, n)
    <3> DEFINE p == << <<"step", t>> >>
    <3>1. p \in Seq(Callbacks) /\ DOMAIN p = {1} /\ p[1][2] = t
      BY <2>2
    <3>2. tasks[t].h # "recorder"
      <4>1. WorkOk(tasks[t], sent, agent.discovery.cor)
        BY <1>1 DEF LoopInv, Typed, WorksOk
      <4> QED  BY <2>2, <4>1 DEF WorkOk
    <3>3. ~Recording(tasks', p, 1)
      BY <1>2, <3>1, <3>2 DEF Recording, Same
    <3> QED  BY <2>2, <3>1, <3>3
  <2> QED  BY <1>2, <2>1, <2>2
<1>7. InLine(tasks', ready', events, log)
  BY <1>3, <1>4, <1>5, <1>6, LineMove
<1> QED  BY <1>1, <1>7

LEMMA HistoryNext ==
    ASSUME HistoryInv, [Next]_vars PROVE HistoryInv'
<1>1. LoopInv /\ LoopInv'
  BY LoopNext DEF HistoryInv
<1>2. events' \in Seq(Messages(sent'))
  <2>1. events \in Seq(Messages(sent))
    BY DEF HistoryInv
  <2>2. CASE Ends
    <3>1. Me.e \in Messages(sent) /\ sent' = sent
      BY <1>1, <2>2, Mine DEF Ends
    <3>2. events' = events \/ events' = Append(events, Me.e)
      BY <2>2 DEF Ends
    <3> QED  BY <2>1, <3>1, <3>2
  <2>3. ASSUME NEW e, NEW rest, Speaks(e, rest) PROVE events' = events /\ sent' = sent
    BY <2>3 DEF Speaks
  <2>4. CASE Wakes \/ UNCHANGED vars
    BY <2>1, <2>4 DEF Wakes, vars
  <2>5. CASE Called
    <3>1. events' = events /\ sent \subseteq sent'
      BY <2>5 DEF Called, Arrives
    <3> QED  BY <2>1, <3>1, SetsGrow
  <2> QED  BY <1>1, <2>1, <2>2, <2>3, <2>4, <2>5, LoopKinds
<1>3. InLine(tasks', ready', events', log')
  <2>1. CASE UNCHANGED vars
    BY <2>1 DEF vars, HistoryInv
  <2>2. CASE Called
    BY <2>2, HistoryArrives DEF Called
  <2> QED  BY <1>1, <2>1, <2>2, HistorySpeaks, HistoryEnds, HistoryWakes, LoopKinds
<1> QED  BY <1>1, <1>2, <1>3 DEF HistoryInv

\* The history of the shared state is the bus's log, in the same order, and
\* complete when the loop is at rest: each recorder is a task of its own, and
\* nothing but the queue keeps them in line.
THEOREM HistoryFollowsLog == Spec => []HistoryInOrder
<1>1. Init => HistoryInv
  <2> SUFFICES ASSUME Init PROVE HistoryInv
    OBVIOUS
  <2>1. LoopInv /\ log = <<>> /\ events = <<>> /\ ready = <<>>
    BY LoopInit DEF Init
  <2>2. events \in Seq(Messages(sent))
    BY <2>1
  <2>3. Standing(tasks, ready, events, log, <<>>)
    <3>1. DOMAIN ready = {} /\ Len(log) - Len(events) = 0 /\ DOMAIN <<>> = {}
      BY <2>1
    <3>2. <<>> \in [1 .. 0 -> DOMAIN ready]
      OBVIOUS
    <3> QED  BY <3>1, <3>2 DEF Standing
  <2>4. Len(events) <= Len(log) /\ \A k \in DOMAIN events : events[k] = log[k]
    BY <2>1
  <2> QED  BY <2>1, <2>2, <2>3, <2>4, LineStands DEF HistoryInv
<1>2. HistoryInv /\ [Next]_vars => HistoryInv'
  BY HistoryNext
<1>3. HistoryInv => HistoryInOrder
  <2> SUFFICES ASSUME HistoryInv PROVE HistoryInOrder
    OBVIOUS
  <2> DEFINE M == Messages(sent)
  <2>1. log \in Seq(M) /\ events \in Seq(M)
    BY DEF HistoryInv, LoopInv, Typed, LogOk
  <2>2. Len(events) <= Len(log) /\ \A k \in DOMAIN events : events[k] = log[k]
    BY LineStands DEF HistoryInv
  <2> HIDE DEF M
  <2>3. IsPrefix(events, log)
    BY <2>1, <2>2 DEF IsPrefix
  <2>4. ASSUME Idle PROVE events = log
    <3>1. PICK at : at \in [1 .. Len(log) - Len(events) -> DOMAIN ready]
      <4>1. PICK at : Standing(tasks, ready, events, log, at)
        BY LineStands DEF HistoryInv
      <4> QED  BY <4>1 DEF Standing
    <3>2. DOMAIN ready = {}
      BY <2>4 DEF Idle
    <3>3. ~ (1 \in 1 .. Len(log) - Len(events))
      BY <3>1, <3>2
    <3>4. Len(log) = Len(events)
      BY <2>1, <2>2, <3>3
    <3> QED  BY <2>1, <2>2, <3>4
  <2> QED  BY <2>3, <2>4 DEF HistoryInOrder
<1> QED  BY <1>1, <1>2, <1>3, PTL DEF Spec

(***************************************************************************)
(* The groups that are closed.                                             *)
(***************************************************************************)
LEMMA SealedStays ==
    ASSUME NEW M, NEW all \in Seq(M), NEW shut, Sealed(all, shut), NEW e,
           e.type \notin {"EvaluationCompleted", "QuotesCompleted"}
    PROVE  Sealed(Append(all, e), shut)
<1> DEFINE all2 == Append(all, e)
<1>1. /\ Len(all) \in Nat /\ DOMAIN all = 1 .. Len(all) /\ DOMAIN all2 = 1 .. Len(all) + 1
      /\ all2[Len(all) + 1] = e /\ \A n \in 1 .. Len(all) : all2[n] = all[n]
  OBVIOUS
<1> HIDE DEF all2
<1>2. \A pair \in Pairs(Requests) : CompletionEvents[pair[2]] \in {"EvaluationCompleted", "QuotesCompleted"}
  BY CompletionTypes DEF Pairs
<1>3. ASSUME NEW pair \in Pairs(Requests)
      PROVE  /\ \A n \in DOMAIN all2 : Completion(all2, n, pair) => n \in DOMAIN all
             /\ \A n \in DOMAIN all : n \in DOMAIN all2 /\ (Completion(all2, n, pair) <=> Completion(all, n, pair))
  <2>1. ~Completion(all2, Len(all) + 1, pair)
    BY <1>1, <1>2 DEF Completion
  <2>2. \A n \in DOMAIN all2 : n \in DOMAIN all \/ n = Len(all) + 1
    BY <1>1
  <2>3. \A n \in DOMAIN all : n \in DOMAIN all2 /\ all2[n] = all[n]
    BY <1>1
  <2> QED  BY <2>1, <2>2, <2>3 DEF Completion
<1>4. \A cor \in Requests : <<cor, "quote">> \in Pairs(Requests) /\ <<cor, "evaluation">> \in Pairs(Requests)
  BY DEF Pairs
<1>5. \A pair \in Pairs(Requests) : pair \in shut <=> \E n \in DOMAIN all2 : Completion(all2, n, pair)
  BY <1>3 DEF Sealed
<1>6. \A pair \in Pairs(Requests) : \A m, n \in DOMAIN all2 :
        Completion(all2, m, pair) /\ Completion(all2, n, pair) => m = n
  BY <1>3 DEF Sealed
<1>7. ASSUME NEW cor \in Requests, NEW n \in DOMAIN all2, Completion(all2, n, <<cor, "quote">>)
      PROVE  \E k \in DOMAIN all2 : k < n /\ Completion(all2, k, <<cor, "evaluation">>)
  <2>1. n \in DOMAIN all /\ Completion(all, n, <<cor, "quote">>)
    BY <1>3, <1>4, <1>7
  <2>2. PICK k \in DOMAIN all : k < n /\ Completion(all, k, <<cor, "evaluation">>)
    BY <2>1 DEF Sealed
  <2> QED  BY <1>3, <1>4, <2>2
<1> QED  BY <1>5, <1>6, <1>7 DEF Sealed, all2

LEMMA SealedAdds ==
    ASSUME NEW M, NEW all \in Seq(M), NEW shut, Sealed(all, shut), NEW e,
           NEW pair \in Pairs(Requests), pair \notin shut,
           e.type = CompletionEvents[pair[2]], e.cor = pair[1],
           pair[2] = "quote" => <<pair[1], "evaluation">> \in shut
    PROVE  Sealed(Append(all, e), shut \cup {pair})
<1> DEFINE all2 == Append(all, e)
           last == Len(all) + 1
<1>1. /\ Len(all) \in Nat /\ DOMAIN all = 1 .. Len(all) /\ DOMAIN all2 = DOMAIN all \cup {last}
      /\ last \notin DOMAIN all /\ (\A n \in DOMAIN all : n < last)
      /\ all2[last] = e /\ \A n \in DOMAIN all : all2[n] = all[n]
  OBVIOUS
<1> HIDE DEF all2, last
<1>2. ASSUME NEW other \in Pairs(Requests)
      PROVE  /\ \A n \in DOMAIN all : Completion(all2, n, other) <=> Completion(all, n, other)
             /\ Completion(all2, last, other) <=> other = pair
  <2>1. \A n \in DOMAIN all : Completion(all2, n, other) <=> Completion(all, n, other)
    BY <1>1 DEF Completion
  <2>2. CompletionEvents[other[2]] = CompletionEvents[pair[2]] <=> other[2] = pair[2]
    BY CompletionTypes DEF Pairs
  <2>3. other[1] = pair[1] /\ other[2] = pair[2] <=> other = pair
    BY DEF Pairs
  <2> QED  BY <1>1, <2>1, <2>2, <2>3 DEF Completion
<1>3. \A cor \in Requests : <<cor, "quote">> \in Pairs(Requests) /\ <<cor, "evaluation">> \in Pairs(Requests)
  BY DEF Pairs
<1>4. \A other \in Pairs(Requests) : \A n \in DOMAIN all : other = pair => ~Completion(all, n, other)
  BY DEF Sealed
<1>5. ASSUME NEW other \in Pairs(Requests)
      PROVE  other \in shut \cup {pair} <=> \E n \in DOMAIN all2 : Completion(all2, n, other)
  <2>1. other \in shut <=> \E n \in DOMAIN all : Completion(all, n, other)
    BY DEF Sealed
  <2> QED  BY <1>1, <1>2, <2>1
<1>6. ASSUME NEW other \in Pairs(Requests), NEW m \in DOMAIN all2, NEW n \in DOMAIN all2,
             Completion(all2, m, other), Completion(all2, n, other)
      PROVE  m = n
  <2>1. CASE other = pair
    BY <1>1, <1>2, <1>4, <1>6, <2>1
  <2>2. CASE other # pair
    <3>1. m \in DOMAIN all /\ n \in DOMAIN all /\ Completion(all, m, other) /\ Completion(all, n, other)
      BY <1>1, <1>2, <1>6, <2>2
    <3> QED  BY <3>1 DEF Sealed
  <2> QED  BY <2>1, <2>2
<1>7. ASSUME NEW cor \in Requests, NEW n \in DOMAIN all2, Completion(all2, n, <<cor, "quote">>)
      PROVE  \E k \in DOMAIN all2 : k < n /\ Completion(all2, k, <<cor, "evaluation">>)
  <2>1. CASE n \in DOMAIN all
    <3>1. Completion(all, n, <<cor, "quote">>)
      BY <1>2, <1>3, <1>7, <2>1
    <3>2. PICK k \in DOMAIN all : k < n /\ Completion(all, k, <<cor, "evaluation">>)
      BY <2>1, <3>1 DEF Sealed
    <3> QED  BY <1>1, <1>2, <1>3, <3>2
  <2>2. CASE n = last
    <3>1. <<cor, "quote">> = pair
      BY <1>2, <1>3, <1>7, <2>2
    <3>2. <<cor, "evaluation">> \in shut
      BY <3>1
    <3>3. PICK k \in DOMAIN all : Completion(all, k, <<cor, "evaluation">>)
      BY <1>3, <3>2 DEF Sealed
    <3> QED  BY <1>1, <1>2, <1>3, <2>2, <3>3
  <2> QED  BY <1>1, <2>1, <2>2
<1> QED  BY <1>5, <1>6, <1>7, Zenon DEF Sealed, all2

LEMMA OrderedMore ==
    ASSUME NEW ts, NEW shut, NEW more, shut \subseteq more, Ordered(ts, shut) PROVE Ordered(ts, more)
BY DEF Ordered, InOrder

\* What a task that speaks makes of the tasks that still have to negotiate.
LEMMA FewerNegotiate ==
    ASSUME LoopInv, NEW e, NEW rest, Speaks(e, rest), e.replayed \/ e.type # "SupplierEvaluated", NEW cor
    PROVE  Negotiating(tasks, cor)' \subseteq Negotiating(tasks, cor) \ {Now}
<1> DEFINE first == Max(DOMAIN tasks)
           order == rank[e.type]
<1>1. Spoken(e, rest, first, order)
  <2>1. first = Max(DOMAIN tasks) /\ order = rank[e.type]
    OBVIOUS
  <2> HIDE DEF first, order
  <2> QED  BY <2>1, SpeaksTasks
<1>2. \A k \in DOMAIN order : order[k] # "negotiation" \/ e.replayed
  <2>1. e.type \in Types /\ rank \in Ranks
    BY DEF Speaks, Messages, LoopInv, Typed
  <2>2. \A k \in DOMAIN order : order[k] \in Handlers(e.type)
    BY <2>1, RankOk
  <2>3. e.type # "SupplierEvaluated" => "negotiation" \notin Handlers(e.type)
    BY DEF Handlers, Agents
  <2> QED  BY <2>2, <2>3
<1> HIDE DEF first, order
<1>3. ASSUME NEW t \in Negotiating(tasks', cor) PROVE t \in Negotiating(tasks, cor) \ {Now}
  <2>1. /\ t \in DOMAIN tasks' /\ tasks'[t].h = "negotiation" /\ ~tasks'[t].resumed
        /\ tasks'[t].e.cor = cor /\ ~tasks'[t].e.replayed
    BY DEF Negotiating
  <2>2. t # Now
    BY <1>1, <2>1 DEF Spoken
  <2>3. ASSUME NEW k \in DOMAIN order, t = first + k PROVE FALSE
    <3>1. tasks'[t] = Task(order[k], e, Now)
      BY <1>1, <2>3 DEF Spoken
    <3>2. Task(order[k], e, Now).h = order[k] /\ Task(order[k], e, Now).e = e
      BY DEF Task
    <3> QED  BY <1>2, <2>1, <3>1, <3>2
  <2>4. t \in DOMAIN tasks
    BY <1>1, <2>1, <2>3 DEF Spoken
  <2>5. Same(tasks, tasks', t)
    BY <1>1, <2>2, <2>4 DEF Spoken
  <2> QED  BY <2>1, <2>2, <2>4, <2>5 DEF Same, Negotiating
<1>4. Negotiating(tasks, cor)' = Negotiating(tasks', cor)
  BY DEF Negotiating
<1> QED  BY <1>3, <1>4

LEMMA FiniteNegotiating ==
    ASSUME LoopInv, NEW cor
    PROVE  IsFiniteSet(Negotiating(tasks, cor)) /\ Cardinality(Negotiating(tasks, cor)) \in Nat
<1>1. IsFiniteSet(DOMAIN tasks) /\ Negotiating(tasks, cor) \subseteq DOMAIN tasks
  BY DEF LoopInv, Book, Entered, Negotiating
<1> QED  BY <1>1, FS_Subset, FS_CardinalityType

\* An evaluation has one negotiator hear of it.
LEMMA OneMoreNegotiates ==
    ASSUME LoopInv, NEW e, NEW rest, Speaks(e, rest), NEW cor
    PROVE  \E j : Negotiating(tasks, cor)' \subseteq
                      Negotiating(tasks, cor) \cup (IF e.cor = cor THEN {j} ELSE {})
<1> DEFINE first == Max(DOMAIN tasks)
           order == rank[e.type]
<1>1. Spoken(e, rest, first, order)
  <2>1. first = Max(DOMAIN tasks) /\ order = rank[e.type]
    OBVIOUS
  <2> HIDE DEF first, order
  <2> QED  BY <2>1, SpeaksTasks
<1>2. \A i, k \in DOMAIN order : order[i] = order[k] => i = k
  <2>1. e.type \in Types /\ rank \in Ranks
    BY DEF Speaks, Messages, LoopInv, Typed
  <2> QED  BY <2>1, RankOk
<1> HIDE DEF first, order
<1> DEFINE k == CHOOSE i \in DOMAIN order : order[i] = "negotiation"
           j == first + k
<1>3. \A i \in DOMAIN order : order[i] = "negotiation" => i = k
  BY <1>2
<1> HIDE DEF k
<1>4. ASSUME NEW t \in Negotiating(tasks', cor)
      PROVE  t \in Negotiating(tasks, cor) \cup (IF e.cor = cor THEN {j} ELSE {})
  <2>1. /\ t \in DOMAIN tasks' /\ tasks'[t].h = "negotiation" /\ ~tasks'[t].resumed
        /\ tasks'[t].e.cor = cor /\ ~tasks'[t].e.replayed
    BY DEF Negotiating
  <2>2. t # Now
    BY <1>1, <2>1 DEF Spoken
  <2>3. ASSUME NEW i \in DOMAIN order, t = first + i PROVE t = j /\ e.cor = cor
    <3>1. tasks'[t] = Task(order[i], e, Now)
      BY <1>1, <2>3 DEF Spoken
    <3>2. Task(order[i], e, Now).h = order[i] /\ Task(order[i], e, Now).e = e
      BY DEF Task
    <3>3. i = k /\ e.cor = cor
      BY <1>3, <2>1, <3>1, <3>2
    <3> QED  BY <2>3, <3>3
  <2>4. CASE t \in DOMAIN tasks
    <3>1. Same(tasks, tasks', t)
      BY <1>1, <2>2, <2>4 DEF Spoken
    <3> QED  BY <2>1, <2>4, <3>1 DEF Same, Negotiating
  <2>5. t \in DOMAIN tasks \/ \E i \in DOMAIN order : t = first + i
    BY <1>1, <2>1 DEF Spoken
  <2> QED  BY <2>3, <2>4, <2>5
<1>5. Negotiating(tasks, cor)' = Negotiating(tasks', cor)
  BY DEF Negotiating
<1>6. Negotiating(tasks, cor)' \subseteq Negotiating(tasks, cor) \cup (IF e.cor = cor THEN {j} ELSE {})
  <2> HIDE DEF j
  <2> QED  BY <1>4, <1>5
<1> QED  BY <1>6

\* What the other steps make of them.
LEMMA NoMoreNegotiate ==
    ASSUME LoopInv, Ends \/ Wakes \/ Called \/ UNCHANGED vars, NEW cor
    PROVE  Negotiating(tasks, cor)' \subseteq Negotiating(tasks, cor)
<1>1. ASSUME NEW t \in Negotiating(tasks', cor), t \in DOMAIN tasks, Same(tasks, tasks', t)
      PROVE  t \in Negotiating(tasks, cor)
  BY <1>1 DEF Same, Negotiating
<1>2. CASE Ends
  <2>1. DOMAIN tasks' \subseteq DOMAIN tasks /\ \A i \in DOMAIN tasks' : Same(tasks, tasks', i)
    BY <1>2, EndsTasks
  <2> QED  BY <1>1, <2>1 DEF Negotiating
<1>3. CASE Wakes
  <2>1. DOMAIN tasks' = DOMAIN tasks /\ \A i \in DOMAIN tasks' : Same(tasks, tasks', i)
    BY <1>3, WakesTasks
  <2> QED  BY <1>1, <2>1 DEF Negotiating
<1>4. ASSUME NEW h, NEW e, NEW rest, Arrives(h, e, rest)
      PROVE  Negotiating(tasks', cor) \subseteq Negotiating(tasks, cor)
  <2> DEFINE order == rank[e.type]
             t0 == NextId
  <2>1. Arrived(h, e, rest, order)
    <3>1. order = rank[e.type]
      OBVIOUS
    <3> HIDE DEF order
    <3> QED  BY <1>4, <3>1, ArrivesTasks
  <2>2. \A k \in DOMAIN order : order[k] # "negotiation" \/ e.replayed
    <3>1. e.type \in Types /\ rank \in Ranks
      BY <1>4 DEF Arrives, Messages, LoopInv, Typed
    <3>2. \A k \in DOMAIN order : order[k] \in Handlers(e.type)
      BY <3>1, RankOk
    <3>3. e.type \in {"Message", "SwarmStarted"} => "negotiation" \notin Handlers(e.type)
      BY DEF Handlers, Agents
    <3> QED  BY <1>4, <3>2, <3>3 DEF Arrives
  <2>3. h # "negotiation"
    BY <1>4 DEF Arrives
  <2>4. /\ DOMAIN tasks' = DOMAIN tasks \cup {t0} \cup {t0 + k : k \in DOMAIN order}
        /\ \A i \in DOMAIN tasks : Same(tasks, tasks', i)
        /\ tasks'[t0].h = h
        /\ \A k \in DOMAIN order : tasks'[t0 + k] = Task(order[k], e, t0)
    BY <2>1, Zenon DEF Arrived
  <2> HIDE DEF order, t0
  <2>5. ASSUME NEW t \in Negotiating(tasks', cor) PROVE t \in Negotiating(tasks, cor)
    <3>1. t \in DOMAIN tasks' /\ tasks'[t].h = "negotiation" /\ ~tasks'[t].e.replayed
      BY DEF Negotiating
    <3>2. ASSUME NEW k \in DOMAIN order, t = t0 + k PROVE FALSE
      <4>1. tasks'[t] = Task(order[k], e, t0)
        BY <2>4, <3>2
      <4>2. Task(order[k], e, t0).h = order[k] /\ Task(order[k], e, t0).e = e
        BY DEF Task
      <4> QED  BY <2>2, <3>1, <4>1, <4>2
    <3>3. t # t0
      BY <2>3, <2>4, <3>1
    <3> QED  BY <1>1, <2>4, <3>1, <3>2, <3>3
  <2> QED  BY <2>5
<1>5. CASE UNCHANGED vars
  BY <1>5 DEF vars, Negotiating
<1>6. Negotiating(tasks, cor)' = Negotiating(tasks', cor)
  BY DEF Negotiating
<1> QED  BY <1>2, <1>3, <1>4, <1>5, <1>6 DEF Called

\* What the tracker has still to check stays in order.
LEMMA OrderedSpeaks ==
    ASSUME LoopInv, Ordered(tasks, closed), NEW e, NEW rest, Speaks(e, rest), NEW shut,
           closed \subseteq shut, Me.h = "tracker" => InOrder(rest, shut)
    PROVE  Ordered(tasks', shut)
<1> DEFINE first == Max(DOMAIN tasks)
           order == rank[e.type]
<1>1. Spoken(e, rest, first, order)
  <2>1. first = Max(DOMAIN tasks) /\ order = rank[e.type]
    OBVIOUS
  <2> HIDE DEF first, order
  <2> QED  BY <2>1, SpeaksTasks
<1> HIDE DEF first, order
<1>2. Ordered(tasks, shut)
  BY OrderedMore
<1>3. ASSUME NEW t \in DOMAIN tasks', tasks'[t].h = "tracker", tasks'[t].resumed
      PROVE  InOrder(tasks'[t].rest, shut)
  <2>1. CASE t = Now
    BY <1>1, <1>3, <2>1 DEF Spoken
  <2>2. CASE t \in DOMAIN tasks \ {Now}
    <3>1. Same(tasks, tasks', t)
      BY <1>1, <2>2 DEF Spoken
    <3> QED  BY <1>2, <1>3, <2>2, <3>1 DEF Same, Ordered
  <2>3. ASSUME NEW k \in DOMAIN order, t = first + k PROVE FALSE
    <3>1. tasks'[t] = Task(order[k], e, Now)
      BY <1>1, <2>3 DEF Spoken
    <3>2. ~Task(order[k], e, Now).resumed
      BY DEF Task
    <3> QED  BY <1>3, <3>1, <3>2
  <2>4. t \in DOMAIN tasks \/ \E k \in DOMAIN order : t = first + k
    BY <1>1 DEF Spoken
  <2> QED  BY <2>1, <2>2, <2>3, <2>4
<1> QED  BY <1>3 DEF Ordered

LEMMA OrderedKept ==
    ASSUME LoopInv, Ordered(tasks, closed), Ends \/ Wakes \/ Called \/ UNCHANGED vars
    PROVE  Ordered(tasks', closed)
<1>1. ASSUME NEW t \in DOMAIN tasks', t \in DOMAIN tasks, Same(tasks, tasks', t),
             tasks'[t].h = "tracker", tasks'[t].resumed
      PROVE  InOrder(tasks'[t].rest, closed)
  BY <1>1 DEF Same, Ordered
<1>2. CASE Ends
  <2>1. DOMAIN tasks' \subseteq DOMAIN tasks /\ \A i \in DOMAIN tasks' : Same(tasks, tasks', i)
    BY <1>2, EndsTasks
  <2> QED  BY <1>1, <2>1 DEF Ordered
<1>3. CASE Wakes
  <2>1. DOMAIN tasks' = DOMAIN tasks /\ \A i \in DOMAIN tasks' : Same(tasks, tasks', i)
    BY <1>3, WakesTasks
  <2> QED  BY <1>1, <2>1 DEF Ordered
<1>4. ASSUME NEW h, NEW e, NEW rest, Arrives(h, e, rest) PROVE Ordered(tasks', closed)
  <2> DEFINE order == rank[e.type]
             t0 == NextId
  <2>1. Arrived(h, e, rest, order)
    <3>1. order = rank[e.type]
      OBVIOUS
    <3> HIDE DEF order
    <3> QED  BY <1>4, <3>1, ArrivesTasks
  <2>2. h # "tracker"
    BY <1>4 DEF Arrives
  <2>3. /\ DOMAIN tasks' = DOMAIN tasks \cup {t0} \cup {t0 + k : k \in DOMAIN order}
        /\ \A i \in DOMAIN tasks : Same(tasks, tasks', i)
        /\ tasks'[t0].h = h
        /\ \A k \in DOMAIN order : tasks'[t0 + k] = Task(order[k], e, t0)
    BY <2>1, Zenon DEF Arrived
  <2> HIDE DEF order, t0
  <2>4. ASSUME NEW t \in DOMAIN tasks', tasks'[t].h = "tracker", tasks'[t].resumed
        PROVE  InOrder(tasks'[t].rest, closed)
    <3>1. ASSUME NEW k \in DOMAIN order, t = t0 + k PROVE FALSE
      <4>1. tasks'[t] = Task(order[k], e, t0)
        BY <2>3, <3>1
      <4>2. ~Task(order[k], e, t0).resumed
        BY DEF Task
      <4> QED  BY <2>4, <4>1, <4>2
    <3>2. t # t0
      BY <2>2, <2>3, <2>4
    <3> QED  BY <1>1, <2>3, <2>4, <3>1, <3>2
  <2> QED  BY <2>4 DEF Ordered
<1>5. CASE UNCHANGED vars
  BY <1>5 DEF vars, Ordered
<1> QED  BY <1>2, <1>3, <1>4, <1>5 DEF Called

LEMMA CountNat ==
    ASSUME Listed(art), NEW kind, NEW cor PROVE Count(kind, cor) \in Nat
<1> DEFINE S == {i \in DOMAIN art : art[i].kind = kind /\ art[i].cor = cor}
<1>1. IsFiniteSet(DOMAIN art) /\ S \subseteq DOMAIN art
  <2>1. PICK A : art \in Seq(A)
    BY DEF Listed
  <2>2. DOMAIN art = 1 .. Len(art) /\ Len(art) \in Nat
    BY <2>1
  <2> QED  BY <2>2, FS_Interval
<1>2. Count(kind, cor) = Cardinality(S)
  BY Zenon DEF Count, Find
<1> HIDE DEF S
<1> QED  BY <1>1, <1>2, FS_Subset, FS_CardinalityType

\* The tracker comes to the quotes when the evaluations are closed: there are
\* as many, and they are checked first.
LEMMA ClosesOk ==
    ASSUME ClosedInv, NEW e, NEW n, Closes(e, n)
    PROVE  /\ Sealed(log', closed')
           /\ InOrder(SubSeq(ToCheck, n + 1, Len(ToCheck)), closed')
<1> DEFINE check == ToCheck
           pair == check[n]
           cor == pair[1]
           first == <<cor, "evaluation">>
           rest == SubSeq(check, n + 1, Len(check))
<1>1. LoopInv /\ Sealed(log, closed) /\ Ordered(tasks, closed) /\ sent \subseteq Requests
  BY DEF ClosedInv, LoopInv, Typed
<1>2. /\ Running("tracker") /\ n \in DOMAIN check /\ pair \in Pairs(sent) /\ Complete(pair)
      /\ \A k \in 1 .. n - 1 : ~Complete(check[k])
      /\ closed' = closed \cup {pair}
      /\ e = Event(CompletionEvents[pair[2]], cor, NoSup) /\ Speaks(e, rest)
  BY DEF Closes
<1>3. check \in Seq(Pairs(sent))
  BY <1>1, <1>2, ToCheckOk
<1>4. InOrder(check, closed)
  <2>1. CASE Me.resumed
    <3>1. Steps /\ Me.h = "tracker"
      BY <1>2 DEF Running
    <3>2. Now \in DOMAIN tasks /\ Me = tasks[Now]
      BY <1>1, <3>1, Mine
    <3>3. check = Me.rest
      BY <2>1 DEF ToCheck
    <3>4. InOrder(Me.rest, closed)
      BY <1>1, <2>1, <3>1, <3>2 DEF Ordered
    <3> QED  BY <3>3, <3>4
  <2>2. CASE ~Me.resumed
    BY <1>1, <1>2, <2>2, ToCheckOk
  <2> QED  BY <2>1, <2>2
<1>5. pair \notin closed /\ pair \in Pairs(Requests) /\ cor \in Requests
  <2>1. pair \notin closed
    BY <1>2 DEF Complete
  <2>2. pair \in Pairs(Requests) /\ cor \in Requests
    <3> HIDE DEF check
    <3> QED  BY <1>1, <1>2 DEF Pairs
  <2> QED  BY <2>1, <2>2
<1>6. PICK i \in DOMAIN expect : expect[i].cor = cor /\ Count(pair[2], cor) >= expect[i].count
  BY <1>2 DEF Complete
<1>7. expect[i].count \in Nat
  <2>1. expect \in Seq(Expectations(sent))
    BY <1>1 DEF LoopInv, Typed
  <2>2. expect[i] \in Expectations(sent)
    BY <2>1
  <2> QED  BY <2>2, PoolAssumption DEF Expectations
<1>8. Count("quote", cor) <= Count("evaluation", cor)
      /\ Count("quote", cor) \in Nat /\ Count("evaluation", cor) \in Nat
  <2>1. Quoted(cor) /\ Listed(art)
    BY <1>5 DEF ClosedInv, LoopInv, Typed
  <2> HIDE DEF cor
  <2>2. /\ Count("quote", cor) \in Nat /\ Count("evaluation", cor) \in Nat
        /\ Cardinality(Negotiating(tasks, cor)) \in Nat
    BY <1>1, <2>1, CountNat, FiniteNegotiating
  <2> QED  BY <2>1, <2>2 DEF Quoted
<1>9. pair[2] = "quote" => first \in closed
  <2> SUFFICES ASSUME pair[2] = "quote", first \notin closed PROVE FALSE
    OBVIOUS
  <2>1. n > 1 /\ check[n - 1] = first
    BY <1>2, <1>4 DEF InOrder
  <2>2. ~Complete(first)
    <3>1. n - 1 \in 1 .. n - 1
      BY <1>2, <1>3, <2>1
    <3> QED  BY <1>2, <2>1, <3>1
  <2>3. Complete(first)
    <3>1. first[1] = cor /\ first[2] = "evaluation"
      OBVIOUS
    <3>2. Count(first[2], first[1]) >= expect[i].count
      <4> HIDE DEF cor, first
      <4> QED  BY <1>6, <1>7, <1>8, <2>1, <3>1
    <3> HIDE DEF cor, first
    <3> QED  BY <1>6, <3>1, <3>2 DEF Complete
  <2> QED  BY <2>2, <2>3
<1>10. Sealed(log', closed')
  <2>1. log \in Seq(Messages(sent))
    BY <1>1 DEF LoopInv, Typed, LogOk
  <2>2. e.type = CompletionEvents[pair[2]] /\ e.cor = cor /\ ~e.replayed
    BY <1>2 DEF Event
  <2>3. log' = Append(log, e)
    BY <1>2, <2>2 DEF Speaks
  <2> HIDE DEF check, pair
  <2> QED  BY <1>1, <1>2, <1>5, <1>9, <2>1, <2>2, <2>3, SealedAdds
<1>11. InOrder(rest, closed')
  <2>1. /\ Len(check) \in Nat /\ DOMAIN check = 1 .. Len(check) /\ n \in 1 .. Len(check)
    BY <1>2, <1>3
  <2>2. DOMAIN rest = 1 .. Len(check) - n /\ \A k \in 1 .. Len(check) - n : rest[k] = check[n + k]
    BY <1>3, <2>1
  <2> HIDE DEF check, rest
  <2>3. ASSUME NEW k \in DOMAIN rest, rest[k][2] = "quote"
        PROVE  \/ <<rest[k][1], "evaluation">> \in closed'
               \/ k > 1 /\ rest[k - 1] = <<rest[k][1], "evaluation">>
    <3>1. n + k \in DOMAIN check /\ rest[k] = check[n + k] /\ k >= 1 /\ k \in Nat
      BY <2>1, <2>2
    <3>2. \/ <<check[n + k][1], "evaluation">> \in closed
          \/ check[(n + k) - 1] = <<check[n + k][1], "evaluation">>
      BY <1>4, <2>3, <3>1 DEF InOrder
    <3>3. CASE k = 1
      <4>1. (n + k) - 1 = n
        BY <2>1, <3>3
      <4> QED  BY <1>2, <3>1, <3>2, <4>1
    <3>4. CASE k > 1
      <4>1. k - 1 \in 1 .. Len(check) - n /\ n + (k - 1) = (n + k) - 1
        BY <2>1, <2>2, <3>1, <3>4
      <4>2. rest[k - 1] = check[(n + k) - 1]
        BY <2>2, <4>1
      <4> QED  BY <1>2, <3>1, <3>2, <3>4, <4>2
    <3> QED  BY <3>1, <3>3, <3>4
  <2> QED  BY <2>3 DEF InOrder
<1> QED  BY <1>10, <1>11

\* There are never more quotes, those under way included, than evaluations.
LEMMA QuotedKept ==
    ASSUME LoopInv, NEW cor, Quoted(cor),
           \A kind \in {"evaluation", "quote"} : Count(kind, cor)' = Count(kind, cor),
           Negotiating(tasks, cor)' \subseteq Negotiating(tasks, cor)
    PROVE  Quoted(cor)'
<1> DEFINE old == Negotiating(tasks, cor)
           new == Negotiating(tasks, cor)'
<1>1. IsFiniteSet(old) /\ Cardinality(old) \in Nat
  BY FiniteNegotiating
<1>2. new \subseteq old
  OBVIOUS
<1>3. Quoted(cor)' <=> Count("quote", cor)' + Cardinality(new) <= Count("evaluation", cor)'
  BY DEF Quoted
<1>4. Count("quote", cor) + Cardinality(old) <= Count("evaluation", cor)
  BY DEF Quoted
<1>5. Count("quote", cor) \in Nat /\ Count("evaluation", cor) \in Nat
  BY CountNat DEF LoopInv, Typed
<1> HIDE DEF old, new
<1>6. Cardinality(new) \in Nat /\ Cardinality(new) <= Cardinality(old)
  BY <1>1, <1>2, FS_Subset, FS_CardinalityType
<1> QED  BY <1>1, <1>3, <1>4, <1>5, <1>6

LEMMA QuotedEvaluates ==
    ASSUME LoopInv, NEW cor, Quoted(cor), NEW e, Evaluates(e) PROVE Quoted(cor)'
<1> DEFINE old == Negotiating(tasks, cor)
           new == Negotiating(tasks, cor)'
           more == IF e.cor = cor THEN 1 ELSE 0
<1>1. IsFiniteSet(old) /\ Cardinality(old) \in Nat
  BY FiniteNegotiating
<1>2. PICK j : new \subseteq old \cup (IF e.cor = cor THEN {j} ELSE {})
  BY OneMoreNegotiates DEF Evaluates
<1>3. Quoted(cor)' <=> Count("quote", cor)' + Cardinality(new) <= Count("evaluation", cor)'
  BY DEF Quoted
<1>4. Count("quote", cor) + Cardinality(old) <= Count("evaluation", cor)
  BY DEF Quoted
<1>5. Count("quote", cor) \in Nat /\ Count("evaluation", cor) \in Nat
  BY CountNat DEF LoopInv, Typed
<1>6. Count("quote", cor)' = Count("quote", cor) /\ Count("evaluation", cor)' = Count("evaluation", cor) + more
  <2>1. PICK data : art' = Append(art, Artifact("evaluation", e.cor, e.sup, data))
    BY DEF Evaluates
  <2> DEFINE a == Artifact("evaluation", e.cor, e.sup, data)
  <2>2. a.kind = "evaluation" /\ a.cor = e.cor /\ Listed(art)
    BY DEF Artifact, LoopInv, Typed
  <2>3. art' = Append(art, a)
    BY <2>1
  <2> HIDE DEF a
  <2>4. Count("quote", cor)' = Count("quote", cor) + (IF a.kind = "quote" /\ a.cor = cor THEN 1 ELSE 0)
    BY <2>2, <2>3, CountOne
  <2>5. Count("evaluation", cor)'
          = Count("evaluation", cor) + (IF a.kind = "evaluation" /\ a.cor = cor THEN 1 ELSE 0)
    BY <2>2, <2>3, CountOne
  <2> QED  BY <1>5, <2>2, <2>4, <2>5
<1> HIDE DEF old, new
<1>7. Cardinality(new) \in Nat /\ Cardinality(new) <= Cardinality(old) + more
  <2>1. CASE e.cor = cor
    <3>1. IsFiniteSet(old \cup {j}) /\ Cardinality(old \cup {j}) <= Cardinality(old) + 1
      <4>1. CASE j \in old
        <5>1. old \cup {j} = old
          BY <4>1
        <5>2. IsFiniteSet(old \cup {j}) /\ Cardinality(old \cup {j}) = Cardinality(old)
          BY <1>1, <5>1, Zenon
        <5> QED  BY <1>1, <5>2
      <4>2. CASE j \notin old
        <5>1. IsFiniteSet(old \cup {j}) /\ Cardinality(old \cup {j}) = Cardinality(old) + 1
          BY <1>1, <4>2, FS_AddElement
        <5> QED  BY <1>1, <5>1
      <4> QED  BY <4>1, <4>2
    <3>2. Cardinality(new) \in Nat /\ Cardinality(new) <= Cardinality(old \cup {j})
          /\ Cardinality(old \cup {j}) \in Nat
      <4>1. new \subseteq old \cup {j}
        BY <1>2, <2>1
      <4> QED  BY <3>1, <4>1, FS_Subset, FS_CardinalityType
    <3> QED  BY <1>1, <2>1, <3>1, <3>2
  <2>2. CASE e.cor # cor
    <3>1. new \subseteq old
      BY <1>2, <2>2
    <3>2. Cardinality(new) \in Nat /\ Cardinality(new) <= Cardinality(old)
      BY <1>1, <3>1, FS_Subset, FS_CardinalityType
    <3> QED  BY <1>1, <2>2, <3>2
  <2> QED  BY <2>1, <2>2
<1>8. more \in Nat
  OBVIOUS
<1> HIDE DEF more
<1> QED  BY <1>1, <1>3, <1>4, <1>5, <1>6, <1>7, <1>8

LEMMA QuotedNegotiates ==
    ASSUME LoopInv, NEW cor, Quoted(cor), NEW e, Negotiates(e) PROVE Quoted(cor)'
<1> DEFINE old == Negotiating(tasks, cor)
           new == Negotiating(tasks, cor)'
           more == IF e.cor = cor THEN 1 ELSE 0
<1>1. IsFiniteSet(old) /\ Cardinality(old) \in Nat
  BY FiniteNegotiating
<1>2. new \subseteq old \ {Now}
  BY FewerNegotiate DEF Negotiates, Hushed
<1>3. Quoted(cor)' <=> Count("quote", cor)' + Cardinality(new) <= Count("evaluation", cor)'
  BY DEF Quoted
<1>4. Count("quote", cor) + Cardinality(old) <= Count("evaluation", cor)
  BY DEF Quoted
<1>5. Count("quote", cor) \in Nat /\ Count("evaluation", cor) \in Nat
  BY CountNat DEF LoopInv, Typed
<1>6. Count("quote", cor)' = Count("quote", cor) + more /\ Count("evaluation", cor)' = Count("evaluation", cor)
  <2>1. PICK data : art' = Append(art, Artifact("quote", e.cor, e.sup, data))
    BY DEF Negotiates
  <2> DEFINE a == Artifact("quote", e.cor, e.sup, data)
  <2>2. a.kind = "quote" /\ a.cor = e.cor /\ Listed(art)
    BY DEF Artifact, LoopInv, Typed
  <2>3. art' = Append(art, a)
    BY <2>1
  <2> HIDE DEF a
  <2>4. Count("quote", cor)' = Count("quote", cor) + (IF a.kind = "quote" /\ a.cor = cor THEN 1 ELSE 0)
    BY <2>2, <2>3, CountOne
  <2>5. Count("evaluation", cor)'
          = Count("evaluation", cor) + (IF a.kind = "evaluation" /\ a.cor = cor THEN 1 ELSE 0)
    BY <2>2, <2>3, CountOne
  <2> QED  BY <1>5, <2>2, <2>4, <2>5
<1>7. e.cor = cor => Now \in old
  <2>1. Now \in DOMAIN tasks /\ Me = tasks[Now]
    BY Mine DEF Negotiates, Speaks
  <2> QED  BY <2>1 DEF Negotiates, Negotiating
<1> DEFINE now == Now
<1>8. new \subseteq old \ {now} /\ (e.cor = cor => now \in old)
  BY <1>2, <1>7
<1> HIDE DEF old, new, now
<1>9. Cardinality(new) \in Nat /\ Cardinality(new) + more <= Cardinality(old)
  <2>1. CASE e.cor = cor
    <3>1. IsFiniteSet(old \ {now}) /\ Cardinality(old \ {now}) = Cardinality(old) - 1
      BY <1>1, <1>8, <2>1, FS_RemoveElement
    <3>2. Cardinality(new) \in Nat /\ Cardinality(new) <= Cardinality(old \ {now})
      BY <1>8, <3>1, FS_Subset, FS_CardinalityType
    <3> QED  BY <1>1, <2>1, <3>1, <3>2
  <2>2. CASE e.cor # cor
    <3>1. new \subseteq old
      BY <1>8
    <3>2. Cardinality(new) \in Nat /\ Cardinality(new) <= Cardinality(old)
      BY <1>1, <3>1, FS_Subset, FS_CardinalityType
    <3> QED  BY <1>1, <2>2, <3>2
  <2> QED  BY <2>1, <2>2
<1>10. more \in Nat
  OBVIOUS
<1> HIDE DEF more
<1> QED  BY <1>1, <1>3, <1>4, <1>5, <1>6, <1>9, <1>10

LEMMA ClosedNext ==
    ASSUME ClosedInv, [Next]_vars PROVE ClosedInv'
<1>1. /\ LoopInv /\ LoopInv' /\ Sealed(log, closed) /\ Ordered(tasks, closed)
      /\ (\A cor \in Requests : Quoted(cor)) /\ log \in Seq(Messages(sent))
  BY LoopNext DEF ClosedInv, LoopInv, Typed, LogOk
<1>2. SUFFICES /\ Sealed(log', closed') /\ Ordered(tasks', closed')
               /\ \A cor \in Requests : Quoted(cor)'
  BY <1>1 DEF ClosedInv, Sealed, Ordered
<1>3. ASSUME Ends \/ Wakes, Quiet
      PROVE  Sealed(log', closed') /\ Ordered(tasks', closed') /\ \A cor \in Requests : Quoted(cor)'
  <2>1. log' = log /\ closed' = closed
    BY <1>3 DEF Ends, Wakes, Quiet
  <2>2. Ordered(tasks', closed)
    BY <1>1, <1>3, OrderedKept
  <2>3. ASSUME NEW cor \in Requests PROVE Quoted(cor)'
    <3>1. Negotiating(tasks, cor)' \subseteq Negotiating(tasks, cor)
      BY <1>1, <1>3, NoMoreNegotiate
    <3>2. \A kind \in {"evaluation", "quote"} : Count(kind, cor)' = Count(kind, cor)
      BY <1>3 DEF Quiet
    <3> QED  BY <1>1, <3>1, <3>2, QuotedKept
  <2> QED  BY <1>1, <2>1, <2>2, <2>3
<1>4. ASSUME UNCHANGED vars
      PROVE  Sealed(log', closed') /\ Ordered(tasks', closed') /\ \A cor \in Requests : Quoted(cor)'
  <2>1. log' = log /\ closed' = closed /\ tasks' = tasks /\ art' = art
    BY <1>4 DEF vars
  <2>2. ASSUME NEW cor \in Requests PROVE Quoted(cor)'
    <3>1. Quoted(cor)' <=> Quoted(cor)
      BY <2>1 DEF Quoted, Count, Find, Negotiating
    <3> QED  BY <1>1, <3>1
  <2> QED  BY <1>1, <2>1, <2>2
<1>5. ASSUME Called, Quiet
      PROVE  Sealed(log', closed') /\ Ordered(tasks', closed') /\ \A cor \in Requests : Quoted(cor)'
  <2>1. closed' = closed /\ Ordered(tasks', closed)
    BY <1>1, <1>5, OrderedKept DEF Quiet
  <2>2. Sealed(log', closed)
    <3>1. PICK h, e, rest : Arrives(h, e, rest)
      BY <1>5 DEF Called
    <3>2. CASE e.replayed
      <4>1. log' = log
        BY <3>1, <3>2 DEF Arrives
      <4> QED  BY <1>1, <4>1
    <3>3. CASE ~e.replayed
      <4>1. log' = Append(log, e) /\ e.type \notin {"EvaluationCompleted", "QuotesCompleted"}
        BY <3>1, <3>3 DEF Arrives
      <4> QED  BY <1>1, <4>1, SealedStays
    <3> QED  BY <3>2, <3>3
  <2>3. ASSUME NEW cor \in Requests PROVE Quoted(cor)'
    <3>1. Negotiating(tasks, cor)' \subseteq Negotiating(tasks, cor)
      BY <1>1, <1>5, NoMoreNegotiate
    <3>2. \A kind \in {"evaluation", "quote"} : Count(kind, cor)' = Count(kind, cor)
      BY <1>5 DEF Quiet
    <3> QED  BY <1>1, <3>1, <3>2, QuotedKept
  <2> QED  BY <2>1, <2>2, <2>3
<1>6. ASSUME NEW e, NEW rest, Speaks(e, rest), closed' = closed, Me.h # "tracker",
             e.replayed \/ e.type \notin {"EvaluationCompleted", "QuotesCompleted"}
      PROVE  Sealed(log', closed') /\ Ordered(tasks', closed')
  <2>1. Ordered(tasks', closed)
    BY <1>1, <1>6, OrderedSpeaks
  <2>2. log' = IF e.replayed THEN log ELSE Append(log, e)
    BY <1>6 DEF Speaks
  <2>3. CASE e.replayed
    BY <1>1, <1>6, <2>1, <2>2, <2>3
  <2>4. CASE ~e.replayed
    <3>1. Sealed(Append(log, e), closed)
      BY <1>1, <1>6, <2>4, SealedStays
    <3> QED  BY <1>6, <2>1, <2>2, <2>4, <3>1
  <2> QED  BY <2>3, <2>4
<1>7. ASSUME SpeaksUp, Quiet
      PROVE  Sealed(log', closed') /\ Ordered(tasks', closed') /\ \A cor \in Requests : Quoted(cor)'
  <2>1. PICK e, rest : Speaks(e, rest) /\ Hushed(e) /\ Me.h \notin {"tracker", "negotiation"}
    BY <1>7 DEF SpeaksUp
  <2>2. closed' = closed
    BY <1>7 DEF Quiet
  <2>3. Sealed(log', closed') /\ Ordered(tasks', closed')
    BY <1>6, <2>1, <2>2 DEF Hushed
  <2>4. ASSUME NEW cor \in Requests PROVE Quoted(cor)'
    <3>1. Negotiating(tasks, cor)' \subseteq Negotiating(tasks, cor)
      BY <1>1, <2>1, FewerNegotiate DEF Hushed
    <3>2. \A kind \in {"evaluation", "quote"} : Count(kind, cor)' = Count(kind, cor)
      BY <1>7 DEF Quiet
    <3> QED  BY <1>1, <3>1, <3>2, QuotedKept
  <2> QED  BY <2>3, <2>4
<1>8. ASSUME NEW e, Evaluates(e)
      PROVE  Sealed(log', closed') /\ Ordered(tasks', closed') /\ \A cor \in Requests : Quoted(cor)'
  <2>1. Sealed(log', closed') /\ Ordered(tasks', closed')
    BY <1>6, <1>8 DEF Evaluates
  <2>2. \A cor \in Requests : Quoted(cor)'
    BY <1>1, <1>8, QuotedEvaluates
  <2> QED  BY <2>1, <2>2
<1>9. ASSUME NEW e, Negotiates(e)
      PROVE  Sealed(log', closed') /\ Ordered(tasks', closed') /\ \A cor \in Requests : Quoted(cor)'
  <2>1. Sealed(log', closed') /\ Ordered(tasks', closed')
    BY <1>6, <1>9 DEF Negotiates, Hushed
  <2>2. \A cor \in Requests : Quoted(cor)'
    BY <1>1, <1>9, QuotedNegotiates
  <2> QED  BY <2>1, <2>2
<1>10. ASSUME NEW e, NEW n, Closes(e, n)
       PROVE  Sealed(log', closed') /\ Ordered(tasks', closed') /\ \A cor \in Requests : Quoted(cor)'
  <2> DEFINE rest == SubSeq(ToCheck, n + 1, Len(ToCheck))
             shut == closed'
  <2>1. Sealed(log', closed') /\ InOrder(rest, shut)
    BY <1>10, ClosesOk
  <2>2. Speaks(e, rest) /\ closed \subseteq shut /\ art' = art /\ ~e.replayed
        /\ e.type \in {"EvaluationCompleted", "QuotesCompleted"}
    <3>1. ToCheck[n] \in Pairs(sent) /\ e = Event(CompletionEvents[ToCheck[n][2]], ToCheck[n][1], NoSup)
      BY <1>10 DEF Closes
    <3>2. CompletionEvents[ToCheck[n][2]] \in {"EvaluationCompleted", "QuotesCompleted"}
      BY <3>1, CompletionTypes DEF Pairs
    <3> QED  BY <1>10, <3>1, <3>2 DEF Closes, Event
  <2> HIDE DEF rest, shut
  <2>3. Ordered(tasks', shut)
    BY <1>1, <2>1, <2>2, OrderedSpeaks
  <2>4. ASSUME NEW cor \in Requests PROVE Quoted(cor)'
    <3>1. Negotiating(tasks, cor)' \subseteq Negotiating(tasks, cor)
      BY <1>1, <2>2, FewerNegotiate
    <3>2. \A kind \in {"evaluation", "quote"} : Count(kind, cor)' = Count(kind, cor)
      BY <2>2 DEF Count, Find
    <3> QED  BY <1>1, <3>1, <3>2, QuotedKept
  <2> QED  BY <2>1, <2>3, <2>4 DEF shut
<1> QED  BY <1>1, <1>3, <1>4, <1>5, <1>7, <1>8, <1>9, <1>10, Kinds

\* "EvaluationCompleted then QuotesCompleted - exactly once": however the
\* tracker's checks of one request and of another come between one another.
THEOREM CompletionsInOrder == Spec => []ClosedOnce
<1>1. Init => ClosedInv
  <2> SUFFICES ASSUME Init PROVE ClosedInv
    OBVIOUS
  <2>1. LoopInv /\ log = <<>> /\ closed = {} /\ tasks = <<>> /\ art = <<>>
    BY LoopInit DEF Init
  <2>2. DOMAIN log = {} /\ DOMAIN tasks = {} /\ DOMAIN art = {}
    BY <2>1
  <2>3. Sealed(log, closed) /\ Ordered(tasks, closed)
    BY <2>1, <2>2 DEF Sealed, Ordered
  <2>4. ASSUME NEW cor \in Requests PROVE Quoted(cor)
    <3>1. Negotiating(tasks, cor) = {} /\ Cardinality({}) = 0
      BY <2>2, FS_EmptySet DEF Negotiating
    <3>2. \A kind : Count(kind, cor) = 0
      BY <2>2, FS_EmptySet DEF Count, Find
    <3> QED  BY <3>1, <3>2 DEF Quoted
  <2> QED  BY <2>1, <2>3, <2>4 DEF ClosedInv
<1>2. ClosedInv /\ [Next]_vars => ClosedInv'
  BY ClosedNext
<1>3. ClosedInv => ClosedOnce
  <2> SUFFICES ASSUME ClosedInv PROVE ClosedOnce
    OBVIOUS
  <2> DEFINE At(type, cor) == {n \in DOMAIN log : log[n].type = type /\ log[n].cor = cor}
  <2>1. Sealed(log, closed)
    BY DEF ClosedInv
  <2>2. ASSUME NEW cor \in Requests, NEW type \in Range(CompletionEvents)
        PROVE  Cardinality(At(type, cor)) <= 1
    <3>1. PICK kind \in {"evaluation", "quote"} : type = CompletionEvents[kind]
      BY DEF Range, CompletionEvents
    <3>2. <<cor, kind>> \in Pairs(Requests)
      BY DEF Pairs
    <3>3. \A m, n \in At(type, cor) : m = n
      BY <2>1, <3>1, <3>2 DEF Sealed, Completion
    <3> DEFINE S == At(type, cor)
    <3>4. \A m, n \in S : m = n
      BY <3>3
    <3> HIDE DEF S
    <3>5. S = {} \/ \E n : S = {n}
      BY <3>4
    <3>6. Cardinality(S) <= 1
      BY <3>5, FS_EmptySet, FS_Singleton
    <3> QED  BY <3>6 DEF S
  <2>3. ASSUME NEW cor \in Requests, NEW n \in At("QuotesCompleted", cor)
        PROVE  \E k \in At("EvaluationCompleted", cor) : k < n
    <3>1. Completion(log, n, <<cor, "quote">>)
      BY CompletionTypes DEF Completion
    <3>2. PICK k \in DOMAIN log : k < n /\ Completion(log, k, <<cor, "evaluation">>)
      BY <2>1, <3>1 DEF Sealed
    <3>3. k \in At("EvaluationCompleted", cor)
      BY <3>2, CompletionTypes DEF Completion
    <3> QED  BY <3>2, <3>3
  <2> QED  BY <2>2, <2>3 DEF ClosedOnce
<1> QED  BY <1>1, <1>2, <1>3, PTL DEF Spec
=============================================================================
