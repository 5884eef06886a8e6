--------------------------- MODULE Sourcing_serial ---------------------------
(***************************************************************************)
(* What Sourcing promises of its decisions, while one call is served at a  *)
(* time: SourcingSerial's invariant is inductive, for any number of        *)
(* requests, any pool and any order of the handlers.                       *)
(***************************************************************************)
EXTENDS Sourcing_proofs, SourcingSerial

(***************************************************************************)
(* Who hears what.                                                         *)
(***************************************************************************)
Tracked == {"tracker", "requirement", "strategy", "discovery", "evaluation", "negotiation",
            "decision"}

LEMMA WhoHears ==
    ASSUME NEW type \in Types
    PROVE  /\ "tracker" \in Handlers(type)
           /\ "requirement" \in Handlers(type) <=> type = "Message"
           /\ "strategy" \in Handlers(type) <=> type \in {"RequirementCreated", "QuotesCompleted"}
           /\ "discovery" \in Handlers(type) <=> type = "StrategySelected"
           /\ "evaluation" \in Handlers(type) <=> type = "SupplierDiscovered"
           /\ "negotiation" \in Handlers(type) <=> type = "SupplierEvaluated"
           /\ "decision" \in Handlers(type) <=> type = "QuotesCompleted"
<1>1. Range(Later) \cap Sourced = {}
  BY LaterAssumption
<1>2. CASE type \in Range(Later)
  <2>1. type \notin Sourced
    BY <1>1, <1>2
  <2>2. Agents(type) = {"later"}
    BY <1>2, <2>1 DEF Agents, Sourced
  <2> QED  BY <2>1, <2>2 DEF Handlers, Sourced
<1>3. CASE type \in Sourced
  <2>1. type \notin Range(Later)
    BY <1>1, <1>3
  <2> QED  BY <1>3, <2>1 DEF Handlers, Agents, Sourced
<1> QED  BY <1>2, <1>3 DEF Types

(***************************************************************************)
(* What a step does to the handlers: those in S had their turn, those in W *)
(* of them wait now; one of each kind in H has yet to hear e.              *)
(***************************************************************************)
Fresh(h) == Unheard(tasks', h) \ DOMAIN tasks

Turn(S, W, H, e) ==
    /\ S \subseteq {Now} /\ W \subseteq S /\ S \subseteq DOMAIN tasks
    /\ \A t \in DOMAIN tasks \cap DOMAIN tasks' :
          /\ tasks'[t].e = tasks[t].e /\ tasks'[t].h = tasks[t].h
          /\ t \notin S => tasks'[t].rest = tasks[t].rest
    /\ \A h \in Tracked :
          /\ Unheard(tasks', h) \cap DOMAIN tasks = Unheard(tasks, h) \ S
          /\ Paused(tasks', h) = (Paused(tasks, h) \ S) \cup {t \in W : tasks[t].h = h}
          /\ \A t \in Fresh(h) : tasks'[t].e = e
          /\ IF h \in H THEN \E n : Fresh(h) = {n} ELSE Fresh(h) = {}

Ears(e) == IF e.replayed THEN {} ELSE Handlers(e.type)

LEMMA TurnSpeaks ==
    ASSUME LoopInv, NEW e, NEW rest, Speaks(e, rest)
    PROVE  /\ Turn({Now}, {Now}, Ears(e), e)
           /\ Now \in DOMAIN tasks /\ Now \in DOMAIN tasks' /\ tasks'[Now].rest = rest
           /\ \A t \in DOMAIN tasks' \ DOMAIN tasks : tasks'[t].e = e /\ ~tasks'[t].resumed
           /\ DOMAIN tasks \subseteq DOMAIN tasks'
<1> DEFINE first == Max(DOMAIN tasks)
           order == rank[e.type]
<1>1. Spoken(e, rest, first, order)
  BY SpeaksTasks
<1>2. /\ rank \in Ranks /\ e.type \in Types
  BY DEF LoopInv, Typed, Speaks, Messages
<1>3. /\ \A k \in DOMAIN order : order[k] \in Handlers(e.type) /\ k \in Nat \ {0}
      /\ \A j, k \in DOMAIN order : order[j] = order[k] => j = k
      /\ \A h \in Handlers(e.type) : \E k \in DOMAIN order : order[k] = h
  BY <1>2, RankOk
<1> HIDE DEF first, order
<1>4. /\ first \in Nat /\ \A i \in DOMAIN tasks : i <= first
      /\ Now \in DOMAIN tasks /\ Now \in DOMAIN tasks'
      /\ DOMAIN tasks' = DOMAIN tasks \cup {first + k : k \in DOMAIN order}
      /\ \A i \in DOMAIN tasks \ {Now} : Same(tasks, tasks', i)
      /\ tasks'[Now].h = Me.h /\ tasks'[Now].e = Me.e
      /\ tasks'[Now].resumed /\ tasks'[Now].rest = rest
      /\ \A k \in DOMAIN order : tasks'[first + k] = Task(order[k], e, Now)
  BY <1>1 DEF Spoken
<1>5. \A k \in DOMAIN order : first + k \notin DOMAIN tasks
  <2>1. DOMAIN tasks \subseteq Nat
    BY DEF LoopInv, Book, Entered
  <2> QED  BY <1>3, <1>4, <2>1
<1>6. \A h, by : Task(h, e, by).h = h /\ Task(h, e, by).e = e /\ ~Task(h, e, by).resumed
  BY DEF Task
<1>7. DOMAIN tasks' \ DOMAIN tasks = {first + k : k \in DOMAIN order}
  BY <1>4, <1>5
<1>8. \A k \in DOMAIN order : /\ tasks'[first + k].h = order[k] /\ tasks'[first + k].e = e
                              /\ ~tasks'[first + k].resumed
  BY <1>4, <1>6
<1>9. /\ \A t \in DOMAIN tasks : tasks'[t].e = tasks[t].e /\ tasks'[t].h = tasks[t].h
      /\ \A t \in DOMAIN tasks \ {Now} : /\ tasks'[t].rest = tasks[t].rest
                                         /\ tasks'[t].resumed = tasks[t].resumed
  BY <1>4 DEF Same, Me
<1>10. ASSUME NEW h
       PROVE  /\ Unheard(tasks', h) \cap DOMAIN tasks = Unheard(tasks, h) \ {Now}
              /\ Paused(tasks', h) = (Paused(tasks, h) \ {Now}) \cup {t \in {Now} : tasks[t].h = h}
              /\ \A t \in Fresh(h) : tasks'[t].e = e
              /\ IF h \in Ears(e) THEN \E n : Fresh(h) = {n} ELSE Fresh(h) = {}
  <2>1. Unheard(tasks', h) \cap DOMAIN tasks = Unheard(tasks, h) \ {Now}
    BY <1>4, <1>9 DEF Unheard
  <2>2. Paused(tasks', h) = (Paused(tasks, h) \ {Now}) \cup {t \in {Now} : tasks[t].h = h}
    BY <1>4, <1>7, <1>8, <1>9 DEF Paused
  <2>3. \A t \in Fresh(h) : /\ tasks'[t].e = e /\ ~e.replayed
                            /\ \E k \in DOMAIN order : t = first + k /\ order[k] = h
    BY <1>7, <1>8 DEF Fresh, Unheard
  <2>4. CASE h \in Ears(e)
    <3>1. ~e.replayed /\ h \in Handlers(e.type)
      BY <2>4 DEF Ears
    <3>2. PICK k \in DOMAIN order : order[k] = h
      BY <1>3, <3>1
    <3>3. first + k \in Fresh(h)
      BY <1>4, <1>5, <1>8, <3>1, <3>2 DEF Fresh, Unheard
    <3>4. \A t \in Fresh(h) : t = first + k
      BY <1>3, <2>3, <3>2
    <3>5. Fresh(h) = {first + k}
      BY <3>3, <3>4
    <3> QED  BY <2>1, <2>2, <2>3, <2>4, <3>5
  <2>5. CASE h \notin Ears(e)
    <3>1. Fresh(h) = {}
      BY <1>3, <2>3, <2>5 DEF Ears
    <3> QED  BY <2>1, <2>2, <2>3, <2>5, <3>1
  <2> QED  BY <2>4, <2>5
<1>11. Turn({Now}, {Now}, Ears(e), e)
  BY <1>4, <1>9, <1>10 DEF Turn
<1> QED  BY <1>4, <1>7, <1>8, <1>11

LEMMA TurnEnds ==
    ASSUME LoopInv, Ends, NEW e
    PROVE  /\ Turn({Now}, {}, {}, e) /\ DOMAIN tasks' \subseteq DOMAIN tasks
           /\ Now \in DOMAIN tasks
<1>1. /\ Now \in DOMAIN tasks /\ DOMAIN tasks' = DOMAIN tasks \ {Now}
      /\ \A i \in DOMAIN tasks' : Same(tasks, tasks', i)
  BY EndsTasks
<1>2. ASSUME NEW h
      PROVE  /\ Unheard(tasks', h) = Unheard(tasks, h) \ {Now}
             /\ Paused(tasks', h) = Paused(tasks, h) \ {Now} /\ Fresh(h) = {}
  BY <1>1 DEF Unheard, Paused, Fresh, Same
<1>3. \A h : Unheard(tasks', h) \cap DOMAIN tasks = Unheard(tasks, h) \ {Now}
  BY <1>2 DEF Unheard
<1> QED  BY <1>1, <1>2, <1>3 DEF Turn, Same

LEMMA TurnWakes ==
    ASSUME LoopInv, Wakes, NEW e
    PROVE  Turn({}, {}, {}, e) /\ DOMAIN tasks' = DOMAIN tasks
<1>1. /\ DOMAIN tasks' = DOMAIN tasks /\ \A i \in DOMAIN tasks : Same(tasks, tasks', i)
  BY WakesTasks
<1>2. ASSUME NEW h
      PROVE  /\ Unheard(tasks', h) = Unheard(tasks, h) /\ Paused(tasks', h) = Paused(tasks, h)
             /\ Fresh(h) = {}
  BY <1>1 DEF Unheard, Paused, Fresh, Same
<1>3. \A h : Unheard(tasks', h) \cap DOMAIN tasks = Unheard(tasks, h)
  BY <1>2 DEF Unheard
<1> QED  BY <1>1, <1>2, <1>3 DEF Turn, Same

\* A call arrives when nobody is at work.
LEMMA TurnArrives ==
    ASSUME LoopInv, NEW h0, NEW e, NEW rest, Arrives(h0, e, rest), tasks = <<>>
    PROVE  /\ Turn({}, {}, Ears(e), e)
           /\ \A t \in DOMAIN tasks' : tasks'[t].e = e
           /\ \A t \in DOMAIN tasks' : tasks'[t].resumed => tasks'[t].h = h0
<1> DEFINE order == rank[e.type]
<1>1. Arrived(h0, e, rest, order)
  BY ArrivesTasks
<1>2. /\ rank \in Ranks /\ e.type \in Types /\ h0 \in {"client", "replay"}
  BY DEF LoopInv, Typed, Arrives, Messages
<1>3. /\ \A k \in DOMAIN order : order[k] \in Handlers(e.type) /\ k \in Nat \ {0}
      /\ \A j, k \in DOMAIN order : order[j] = order[k] => j = k
      /\ \A h \in Handlers(e.type) : \E k \in DOMAIN order : order[k] = h
  BY <1>2, RankOk
<1> HIDE DEF order
<1>4. /\ NextId \in Nat \ {0} /\ DOMAIN tasks = {}
      /\ DOMAIN tasks' = {NextId} \cup {NextId + k : k \in DOMAIN order}
      /\ tasks'[NextId].h = h0 /\ tasks'[NextId].e = e
      /\ \A k \in DOMAIN order : tasks'[NextId + k] = Task(order[k], e, NextId)
  BY <1>1 DEF Arrived
<1>5. \A h, by : Task(h, e, by).h = h /\ Task(h, e, by).e = e /\ ~Task(h, e, by).resumed
  BY DEF Task
<1>6. \A k \in DOMAIN order : /\ tasks'[NextId + k].h = order[k] /\ tasks'[NextId + k].e = e
                              /\ ~tasks'[NextId + k].resumed
  BY <1>4, <1>5
<1>7. ASSUME NEW h \in Tracked
      PROVE  /\ Unheard(tasks', h) \cap DOMAIN tasks = Unheard(tasks, h)
             /\ Paused(tasks', h) = Paused(tasks, h)
             /\ \A t \in Fresh(h) : tasks'[t].e = e
             /\ IF h \in Ears(e) THEN \E n : Fresh(h) = {n} ELSE Fresh(h) = {}
  <2>1. Unheard(tasks', h) \cap DOMAIN tasks = Unheard(tasks, h)
    BY <1>4 DEF Unheard
  <2>2. h # h0
    BY <1>2 DEF Tracked
  <2>3. Paused(tasks', h) = Paused(tasks, h)
    BY <1>4, <1>6, <2>2 DEF Paused
  <2>4. \A t \in Fresh(h) : /\ tasks'[t].e = e /\ ~e.replayed
                            /\ \E k \in DOMAIN order : t = NextId + k /\ order[k] = h
    BY <1>4, <1>6, <2>2 DEF Fresh, Unheard
  <2>5. CASE h \in Ears(e)
    <3>1. ~e.replayed /\ h \in Handlers(e.type)
      BY <2>5 DEF Ears
    <3>2. PICK k \in DOMAIN order : order[k] = h
      BY <1>3, <3>1
    <3>3. NextId + k \in Fresh(h)
      BY <1>4, <1>6, <3>1, <3>2 DEF Fresh, Unheard
    <3>4. \A t \in Fresh(h) : t = NextId + k
      BY <1>3, <2>4, <3>2
    <3>5. Fresh(h) = {NextId + k}
      BY <3>3, <3>4
    <3> QED  BY <2>1, <2>3, <2>4, <2>5, <3>5
  <2>6. CASE h \notin Ears(e)
    <3>1. Fresh(h) = {}
      BY <1>3, <2>4, <2>6 DEF Ears
    <3> QED  BY <2>1, <2>3, <2>4, <2>6, <3>1
  <2> QED  BY <2>5, <2>6
<1> QED  BY <1>4, <1>6, <1>7 DEF Turn

(***************************************************************************)
(* What a step leaves as it was.                                           *)
(***************************************************************************)
KeptU(h) ==
    /\ Unheard(tasks', h) = Unheard(tasks, h)
    /\ \A t \in Unheard(tasks, h) : tasks'[t].e = tasks[t].e
KeptP(h) ==
    /\ Paused(tasks', h) = Paused(tasks, h)
    /\ \A t \in Paused(tasks, h) : tasks'[t].e = tasks[t].e /\ tasks'[t].rest = tasks[t].rest
KeptS ==
    /\ Starts(tasks') = Starts(tasks)
    /\ \A t \in Starts(tasks) : tasks'[t].e = tasks[t].e /\ tasks'[t].h = tasks[t].h

Beginning(e) == IF e.type = "RequirementCreated" THEN Fresh("strategy") ELSE {}

LEMMA TurnUnheard ==
    ASSUME NEW S, NEW W, NEW H, NEW e, Turn(S, W, H, e), NEW h \in Tracked
    PROVE  /\ Unheard(tasks', h) = (Unheard(tasks, h) \ S) \cup Fresh(h)
           /\ \A t \in Unheard(tasks, h) \ S : tasks'[t].e = tasks[t].e /\ tasks'[t].h = h
           /\ \A t \in Fresh(h) : tasks'[t].e = e /\ tasks'[t].h = h /\ t \notin DOMAIN tasks
<1>1. Unheard(tasks', h) \cap DOMAIN tasks = Unheard(tasks, h) \ S
  BY DEF Turn
<1>2. Unheard(tasks', h) = (Unheard(tasks', h) \cap DOMAIN tasks) \cup Fresh(h)
  BY DEF Fresh
<1>3. \A t \in Unheard(tasks', h) : t \in DOMAIN tasks' /\ tasks'[t].h = h
  BY DEF Unheard
<1>4. \A t \in Unheard(tasks, h) \ S : tasks'[t].e = tasks[t].e /\ tasks'[t].h = h
  BY <1>1, <1>3 DEF Turn
<1>5. \A t \in Fresh(h) : tasks'[t].e = e /\ tasks'[t].h = h /\ t \notin DOMAIN tasks
  BY <1>3 DEF Turn, Fresh
<1> QED  BY <1>1, <1>2, <1>4, <1>5

LEMMA TurnKeepsU ==
    ASSUME NEW S, NEW W, NEW H, NEW e, Turn(S, W, H, e), NEW h \in Tracked, h \notin H,
           Unheard(tasks, h) \cap S = {}
    PROVE  KeptU(h)
<1>1. Fresh(h) = {}
  BY DEF Turn
<1>2. /\ Unheard(tasks', h) = (Unheard(tasks, h) \ S) \cup Fresh(h)
      /\ \A t \in Unheard(tasks, h) \ S : tasks'[t].e = tasks[t].e
  BY TurnUnheard
<1> QED  BY <1>1, <1>2 DEF KeptU

LEMMA TurnKeepsP ==
    ASSUME NEW S, NEW W, NEW H, NEW e, Turn(S, W, H, e), NEW h \in Tracked,
           S \cap Paused(tasks, h) = {}, \A t \in W : tasks[t].h # h
    PROVE  KeptP(h)
<1>1. Paused(tasks', h) = (Paused(tasks, h) \ S) \cup {t \in W : tasks[t].h = h}
  BY DEF Turn
<1>2. W \subseteq S
  BY DEF Turn
<1>3. \A t \in Paused(tasks, h) : t \in DOMAIN tasks /\ t \notin S
  BY DEF Paused
<1>4. Paused(tasks', h) = Paused(tasks, h)
  BY <1>1, <1>2, <1>3
<1>5. \A t \in Paused(tasks, h) : t \in DOMAIN tasks'
  BY <1>4 DEF Paused
<1> QED  BY <1>3, <1>4, <1>5 DEF Turn, KeptP

LEMMA TurnStarts ==
    ASSUME NEW S, NEW W, NEW H, NEW e, Turn(S, W, H, e)
    PROVE  /\ Starts(tasks') = (Starts(tasks) \ S) \cup Fresh("requirement")
                                 \cup Fresh("discovery") \cup Beginning(e)
           /\ \A t \in Starts(tasks) \ S : tasks'[t].e = tasks[t].e /\ tasks'[t].h = tasks[t].h
<1> DEFINE Rc(ts) == {t \in Unheard(ts, "strategy") : ts[t].e.type = "RequirementCreated"}
<1>1. "requirement" \in Tracked /\ "discovery" \in Tracked /\ "strategy" \in Tracked
  BY DEF Tracked
<1>2. /\ Unheard(tasks', "requirement") = (Unheard(tasks, "requirement") \ S) \cup Fresh("requirement")
      /\ Unheard(tasks', "discovery") = (Unheard(tasks, "discovery") \ S) \cup Fresh("discovery")
      /\ Unheard(tasks', "strategy") = (Unheard(tasks, "strategy") \ S) \cup Fresh("strategy")
  BY <1>1, TurnUnheard
<1>3. /\ \A t \in Unheard(tasks, "strategy") \ S : tasks'[t].e = tasks[t].e
      /\ \A t \in Fresh("strategy") : tasks'[t].e = e
  BY <1>1, TurnUnheard
<1>4. Rc(tasks') = (Rc(tasks) \ S) \cup Beginning(e)
  BY <1>2, <1>3 DEF Beginning
<1>5. \A h \in Tracked : \A t \in Unheard(tasks, h) \ S :
         tasks'[t].e = tasks[t].e /\ tasks'[t].h = h /\ tasks[t].h = h
  BY TurnUnheard DEF Unheard
<1>6. /\ Starts(tasks) = Unheard(tasks, "requirement") \cup Unheard(tasks, "discovery") \cup Rc(tasks)
      /\ Starts(tasks') = Unheard(tasks', "requirement") \cup Unheard(tasks', "discovery") \cup Rc(tasks')
  BY DEF Starts
<1>7. Rc(tasks) \subseteq Unheard(tasks, "strategy")
  OBVIOUS
<1> HIDE DEF Rc
<1>8. \A t \in Starts(tasks) \ S : tasks'[t].e = tasks[t].e /\ tasks'[t].h = tasks[t].h
  BY <1>1, <1>5, <1>6, <1>7
<1> QED  BY <1>2, <1>4, <1>6, <1>8

LEMMA TurnKeepsS ==
    ASSUME NEW S, NEW W, NEW H, NEW e, Turn(S, W, H, e),
           "requirement" \notin H, "discovery" \notin H,
           "strategy" \in H => e.type # "RequirementCreated", Starts(tasks) \cap S = {}
    PROVE  KeptS
<1>1. Fresh("requirement") = {} /\ Fresh("discovery") = {} /\ ("strategy" \notin H => Fresh("strategy") = {})
  BY DEF Turn, Tracked
<1>2. Beginning(e) = {}
  BY <1>1 DEF Beginning
<1>3. /\ Starts(tasks') = (Starts(tasks) \ S) \cup Fresh("requirement")
                             \cup Fresh("discovery") \cup Beginning(e)
      /\ \A t \in Starts(tasks) \ S : tasks'[t].e = tasks[t].e /\ tasks'[t].h = tasks[t].h
  BY TurnStarts
<1> QED  BY <1>1, <1>2, <1>3 DEF KeptS

(***************************************************************************)
(* What an artifact more leaves as it was.                                 *)
(***************************************************************************)
KeptA(K) ==
    /\ \A i \in DOMAIN art : i \in DOMAIN art' /\ art'[i] = art[i]
    /\ \A i \in DOMAIN art' : art'[i].kind \in K => i \in DOMAIN art

Grown(a) ==
    /\ \E n, m \in Nat : DOMAIN art = 1 .. n /\ DOMAIN art' = 1 .. m
    /\ \A i \in DOMAIN art : i \in DOMAIN art' /\ art'[i] = art[i]
    /\ \A i \in DOMAIN art' \ DOMAIN art : art'[i] = a /\ \A k \in DOMAIN art : k < i

LEMMA GrownSame == ASSUME Listed(art), art' = art PROVE \A a : Grown(a)
<1>1. PICK A : art \in Seq(A)
  BY DEF Listed
<1>2. DOMAIN art = 1 .. Len(art) /\ Len(art) \in Nat
  BY <1>1
<1> QED  BY <1>2 DEF Grown

LEMMA GrownOne ==
    ASSUME Listed(art), NEW a, art' = Append(art, a)
    PROVE  Grown(a) /\ Len(art) + 1 \in DOMAIN art' \ DOMAIN art /\ DOMAIN art' = DOMAIN art \cup {Len(art) + 1}
<1>1. PICK A : art \in Seq(A)
  BY DEF Listed
<1>2. /\ DOMAIN art = 1 .. Len(art) /\ Len(art) \in Nat /\ DOMAIN art' = 1 .. Len(art) + 1
      /\ (\A i \in 1 .. Len(art) : art'[i] = art[i]) /\ art'[Len(art) + 1] = a
  BY <1>1
<1>3. Len(art) + 1 \in Nat /\ DOMAIN art' = DOMAIN art \cup {Len(art) + 1}
  BY <1>2
<1>4. \A i \in DOMAIN art' \ DOMAIN art : art'[i] = a /\ \A k \in DOMAIN art : k < i
  BY <1>2
<1>5. Grown(a)
  BY <1>2, <1>3, <1>4 DEF Grown
<1> QED  BY <1>2, <1>3, <1>5

LEMMA GrownThree ==
    ASSUME Listed(art), NEW a, art' = art \o [v \in 1..3 |-> a]
    PROVE  Grown(a)
<1>1. PICK A : art \in Seq(A)
  BY DEF Listed
<1> DEFINE three == [v \in 1..3 |-> a]
           B == A \cup {a}
<1>2. three \in Seq(B) /\ Len(three) = 3 /\ \A v \in 1..3 : three[v] = a
  OBVIOUS
<1>3. A \subseteq B
  OBVIOUS
<1>4. art' = art \o three
  OBVIOUS
<1> HIDE DEF three, B
<1>5. art \in Seq(B)
  BY <1>1, <1>3
<1>6. \A p, q \in Seq(B) :
        /\ Len(p) \in Nat /\ Len(q) \in Nat /\ DOMAIN p = 1 .. Len(p)
        /\ DOMAIN (p \o q) = 1 .. Len(p) + Len(q)
  OBVIOUS
<1>7. \A p, q \in Seq(B) : \A i \in 1 .. Len(p) + Len(q) :
        (p \o q)[i] = IF i <= Len(p) THEN p[i] ELSE q[i - Len(p)]
  OBVIOUS
<1>8. Len(art) \in Nat /\ DOMAIN art = 1 .. Len(art) /\ DOMAIN art' = 1 .. Len(art) + 3
  BY <1>2, <1>4, <1>5, <1>6
<1>9. \A i \in 1 .. Len(art) + 3 :
        art'[i] = IF i <= Len(art) THEN art[i] ELSE three[i - Len(art)]
  BY <1>2, <1>4, <1>5, <1>7
<1>10. \A i \in DOMAIN art : i \in DOMAIN art' /\ art'[i] = art[i]
  BY <1>8, <1>9
<1>11. ASSUME NEW i \in DOMAIN art' \ DOMAIN art
       PROVE  art'[i] = a /\ \A k \in DOMAIN art : k < i
  <2>1. i - Len(art) \in 1..3 /\ i > Len(art)
    BY <1>8
  <2> QED  BY <1>2, <1>8, <1>9, <2>1
<1>12. Len(art) + 3 \in Nat
  BY <1>8
<1> QED  BY <1>8, <1>10, <1>11, <1>12 DEF Grown

LEMMA GrownKeeps ==
    ASSUME NEW a, Grown(a), NEW K, a.kind \notin K PROVE KeptA(K)
BY DEF Grown, KeptA

LEMMA HasKept ==
    ASSUME NEW K, KeptA(K), NEW kind \in K, NEW cor, NEW sup
    PROVE  Has(art', kind, cor, sup) <=> Has(art, kind, cor, sup)
BY DEF KeptA, Has

LEMMA HasStays ==
    ASSUME NEW K, KeptA(K)
    PROVE  \A kind, cor, sup : Has(art, kind, cor, sup) => Has(art', kind, cor, sup)
BY DEF KeptA, Has

LEMMA HasMore ==
    ASSUME NEW a, Grown(a), NEW kind, NEW cor, NEW sup
    PROVE  /\ Has(art, kind, cor, sup) => Has(art', kind, cor, sup)
           /\ Has(art', kind, cor, sup) =>
                Has(art, kind, cor, sup) \/ (a.kind = kind /\ a.cor = cor /\ a.sup = sup)
BY DEF Grown, Has

(***************************************************************************)
(* All that happens stays of one request.                                  *)
(***************************************************************************)
LEMMA OneCallEnds == ASSUME LoopInv, OneCall(tasks), Ends \/ Wakes PROVE OneCall(tasks')
<1>1. DOMAIN tasks' \subseteq DOMAIN tasks /\ \A i \in DOMAIN tasks' : Same(tasks, tasks', i)
  <2>1. CASE Ends
    BY <2>1, EndsTasks
  <2>2. CASE Wakes
    BY <2>2, WakesTasks
  <2> QED  BY <2>1, <2>2
<1> QED  BY <1>1 DEF OneCall, Same

LEMMA OneCallSpeaks ==
    ASSUME LoopInv, OneCall(tasks), NEW e, NEW rest, Speaks(e, rest),
           e.replayed \/ (~Me.e.replayed /\ e.cor = Me.e.cor), Me.h = "replay" \/ ~Me.e.replayed
    PROVE  OneCall(tasks')
<1>1. /\ Turn({Now}, {Now}, Ears(e), e) /\ Now \in DOMAIN tasks /\ DOMAIN tasks \subseteq DOMAIN tasks'
      /\ \A t \in DOMAIN tasks' \ DOMAIN tasks : tasks'[t].e = e /\ ~tasks'[t].resumed
  BY TurnSpeaks
<1>2. \A t \in DOMAIN tasks : tasks'[t].e = tasks[t].e /\ tasks'[t].h = tasks[t].h
  BY <1>1 DEF Turn
<1>3. \A t \in DOMAIN tasks \ {Now} : tasks'[t].resumed = tasks[t].resumed
  BY SpeaksTasks DEF Spoken, Same
<1>4. \A t \in DOMAIN tasks' : ~tasks'[t].e.replayed =>
         \/ t \in DOMAIN tasks /\ ~tasks[t].e.replayed /\ tasks'[t].e.cor = tasks[t].e.cor
         \/ ~Me.e.replayed /\ tasks'[t].e.cor = Me.e.cor
  BY <1>1, <1>2
<1>5. \A t, u \in DOMAIN tasks : ~tasks[t].e.replayed /\ ~tasks[u].e.replayed => tasks[t].e.cor = tasks[u].e.cor
  BY DEF OneCall
<1>6. \A t, u \in DOMAIN tasks' : ~tasks'[t].e.replayed /\ ~tasks'[u].e.replayed => tasks'[t].e.cor = tasks'[u].e.cor
  BY <1>1, <1>4, <1>5 DEF Me
<1>7. ASSUME NEW t \in DOMAIN tasks', tasks'[t].resumed, tasks'[t].h # "replay"
      PROVE  ~tasks'[t].e.replayed
  <2>1. t \in DOMAIN tasks
    BY <1>1, <1>7
  <2>2. CASE t = Now
    BY <1>2, <1>7, <2>1, <2>2 DEF Me
  <2>3. CASE t # Now
    BY <1>2, <1>3, <1>7, <2>1, <2>3 DEF OneCall
  <2> QED  BY <2>2, <2>3
<1> QED  BY <1>6, <1>7 DEF OneCall

LEMMA OneCallArrives ==
    ASSUME LoopInv, NEW h, NEW e, NEW rest, Arrives(h, e, rest), tasks = <<>>
    PROVE  OneCall(tasks')
<1>1. /\ \A t \in DOMAIN tasks' : tasks'[t].e = e
      /\ \A t \in DOMAIN tasks' : tasks'[t].resumed => tasks'[t].h = h
  BY TurnArrives
<1>2. e.replayed <=> h = "replay"
  BY DEF Arrives
<1> QED  BY <1>1, <1>2 DEF OneCall

(***************************************************************************)
(* A group that is complete is looked at by the trackers of an event of    *)
(* its request.                                                            *)
(***************************************************************************)
LEMMA WatchedTurn ==
    ASSUME Watched, NEW S, NEW W, NEW H, NEW e, Turn(S, W, H, e),
           \A t \in S : tasks[t].h # "tracker" \/ ("tracker" \in H /\ e.cor = tasks[t].e.cor),
           \A pair \in Requests \X {"evaluation", "quote"} : Complete(pair)' =>
               Complete(pair) \/ ("tracker" \in H /\ e.cor = pair[1])
    PROVE  Watched'
<1> SUFFICES ASSUME NEW pair \in Requests \X {"evaluation", "quote"}, Complete(pair)'
             PROVE  \E t \in DOMAIN tasks' : Watching(tasks', t, pair)
  BY DEF Watched
<1>1. "tracker" \in Tracked
  BY DEF Tracked
<1>2. /\ Unheard(tasks', "tracker") = (Unheard(tasks, "tracker") \ S) \cup Fresh("tracker")
      /\ \A t \in Unheard(tasks, "tracker") \ S : tasks'[t].e = tasks[t].e
      /\ \A t \in Fresh("tracker") : tasks'[t].e = e
  BY <1>1, TurnUnheard
<1>3. CASE "tracker" \in H /\ e.cor = pair[1]
  <2>1. PICK n : Fresh("tracker") = {n}
    BY <1>1, <1>3 DEF Turn
  <2>2. n \in Unheard(tasks', "tracker") /\ tasks'[n].e = e
    BY <1>2, <2>1
  <2>3. Watching(tasks', n, pair)
    BY <1>3, <2>2 DEF Watching, Unheard
  <2> QED  BY <2>2, <2>3 DEF Unheard
<1>4. CASE ~("tracker" \in H /\ e.cor = pair[1])
  <2>1. Complete(pair)
    BY <1>4
  <2>2. PICK t \in DOMAIN tasks : Watching(tasks, t, pair)
    BY <2>1 DEF Watched
  <2>3. tasks[t].h = "tracker" /\ ~tasks[t].e.replayed /\ tasks[t].e.cor = pair[1]
    BY <2>2 DEF Watching
  <2>4. t \notin S
    BY <1>4, <2>3
  <2>5. CASE ~tasks[t].resumed
    <3>1. t \in Unheard(tasks, "tracker") \ S
      BY <2>3, <2>4, <2>5 DEF Unheard
    <3>2. t \in Unheard(tasks', "tracker") /\ tasks'[t].e = tasks[t].e
      BY <1>2, <3>1
    <3>3. t \in DOMAIN tasks' /\ tasks'[t].h = "tracker" /\ ~tasks'[t].resumed
      BY <3>2 DEF Unheard
    <3> QED  BY <2>3, <3>2, <3>3 DEF Watching
  <2>6. CASE tasks[t].resumed
    <3>1. t \in Paused(tasks, "tracker") \ S
      BY <2>3, <2>4, <2>6 DEF Paused
    <3>2. t \in Paused(tasks', "tracker")
      BY <1>1, <3>1 DEF Turn
    <3>3. t \in DOMAIN tasks' /\ tasks'[t].h = "tracker" /\ tasks'[t].resumed
      BY <3>2 DEF Paused
    <3>4. tasks'[t].e = tasks[t].e /\ tasks'[t].rest = tasks[t].rest
      BY <2>4, <3>3 DEF Turn
    <3>5. pair \in Range(tasks[t].rest)
      BY <2>2, <2>6 DEF Watching
    <3> QED  BY <2>3, <3>3, <3>4, <3>5 DEF Watching
  <2> QED  BY <2>5, <2>6
<1> QED  BY <1>3, <1>4

\* The groups of the expectations are all looked at.
LEMMA AllChecked ==
    ASSUME LoopInv, Running("tracker"), NEW pair \in Requests \X {"evaluation", "quote"},
           Watching(tasks, Now, pair), Complete(pair)
    PROVE  \E n \in DOMAIN ToCheck : ToCheck[n] = pair
<1>1. CASE Me.resumed
  <2>1. ToCheck = Me.rest /\ pair \in Range(Me.rest)
    BY <1>1 DEF ToCheck, Watching, Me
  <2> QED  BY <2>1 DEF Range
<1>2. CASE ~Me.resumed
  <2>1. PICK i \in DOMAIN expect : expect[i].cor = pair[1]
    BY DEF Complete
  <2>2. Len(expect) \in Nat /\ DOMAIN expect = 1 .. Len(expect)
    BY DEF LoopInv, Typed
  <2>3. pair[2] \in {"evaluation", "quote"} /\ pair = <<pair[1], pair[2]>>
    OBVIOUS
  <2> DEFINE n == IF pair[2] = "evaluation" THEN 2 * i - 1 ELSE 2 * i
  <2>4. ToCheck = [k \in 1 .. 2 * Len(expect) |->
                     <<expect[(k + 1) \div 2].cor, Groups[((k - 1) % 2) + 1]>>]
    BY <1>2 DEF ToCheck
  <2>5. Groups[1] = "evaluation" /\ Groups[2] = "quote"
    BY DEF Groups
  <2>6. n \in 1 .. 2 * Len(expect) /\ (n + 1) \div 2 = i
        /\ ((n - 1) % 2) + 1 = IF pair[2] = "evaluation" THEN 1 ELSE 2
    <3>1. \A j \in Int : ((2 * j - 1) + 1) \div 2 = j /\ (((2 * j - 1) - 1) % 2) + 1 = 1
      OBVIOUS
    <3>2. \A j \in Int : ((2 * j) + 1) \div 2 = j /\ (((2 * j) - 1) % 2) + 1 = 2
      OBVIOUS
    <3>3. i \in Int /\ 1 <= i /\ i <= Len(expect)
      BY <2>2
    <3>4. CASE pair[2] = "evaluation"
      <4>1. n = 2 * i - 1
        BY <3>4
      <4>2. (n + 1) \div 2 = i /\ ((n - 1) % 2) + 1 = 1
        BY <3>1, <3>3, <4>1
      <4>3. n \in 1 .. 2 * Len(expect)
        BY <2>2, <3>3, <4>1
      <4> QED  BY <3>4, <4>2, <4>3
    <3>5. CASE pair[2] # "evaluation"
      <4>1. n = 2 * i
        BY <3>5
      <4>2. (n + 1) \div 2 = i /\ ((n - 1) % 2) + 1 = 2
        BY <3>2, <3>3, <4>1
      <4>3. n \in 1 .. 2 * Len(expect)
        BY <2>2, <3>3, <4>1
      <4> QED  BY <3>5, <4>2, <4>3
    <3> QED  BY <3>4, <3>5
  <2> HIDE DEF n
  <2>7. ToCheck[n] = <<expect[i].cor, Groups[((n - 1) % 2) + 1]>> /\ n \in DOMAIN ToCheck
    BY <2>4, <2>6
  <2>8. Groups[((n - 1) % 2) + 1] = pair[2]
    BY <2>3, <2>5, <2>6
  <2>9. ToCheck[n] = pair
    BY <2>1, <2>3, <2>7, <2>8
  <2> QED  BY <2>7, <2>9
<1> QED  BY <1>1, <1>2

(***************************************************************************)
(* Artifacts are well formed, and come in order.                           *)
(***************************************************************************)
LEMMA StockedKept ==
    ASSUME Stocked, KeptS, KeptA(Products), sent \subseteq sent',
           \A i \in DOMAIN art' \ DOMAIN art : ArtifactOk(art'[i]),
           \A t \in Unheard(tasks', "strategy") : tasks'[t].e.type = "QuotesCompleted" =>
               \/ Known("requirement", NoSup) /\ Known("strategy", NoSup)
               \/ t \in Unheard(tasks, "strategy") /\ tasks'[t].e = tasks[t].e
    PROVE  Stocked'
<1>1. \A kind : Known(kind, NoSup) => Known(kind, NoSup)'
  BY DEF KeptA, Known, Named
<1>2. \A i \in DOMAIN art' : ArtifactOk(art'[i])
  BY DEF Stocked, KeptA
<1>3. \A t \in Starts(tasks') :
          /\ tasks'[t].h # "requirement" => Known("requirement", NoSup)'
          /\ tasks'[t].h = "discovery" => Known("strategy", NoSup)'
  BY <1>1 DEF Stocked, KeptS
<1>4. \A t \in Unheard(tasks', "strategy") :
          tasks'[t].e.type = "QuotesCompleted" => Known("requirement", NoSup)' /\ Known("strategy", NoSup)'
  BY <1>1 DEF Stocked
<1>5. \A i \in DOMAIN art' : art'[i].kind \in Products =>
          /\ art'[i].cor \in sent'
          /\ Known("requirement", NoSup)' /\ Known("strategy", NoSup)'
  BY <1>1 DEF Stocked, KeptA
<1> QED  BY <1>2, <1>3, <1>4, <1>5 DEF Stocked

(***************************************************************************)
(* A step that leaves what an invariant is about leaves the invariant.     *)
(***************************************************************************)
LEMMA ChainKept ==
    ASSUME Chain, KeptS, KeptP("discovery"), KeptU("evaluation"), KeptU("negotiation"),
           KeptA(Products), agent'.discovery = agent.discovery
    PROVE  Chain'
<1>1. \A cor : Untouched(cor) =>
          \A i \in DOMAIN art' : art'[i].cor = cor => art'[i].kind \notin Products
  BY DEF Untouched, KeptA
<1>2. "supplier_list" \in Products
  BY DEF Products
<1>3. \A cor, sup : Has(art, "supplier_list", cor, sup) => Has(art', "supplier_list", cor, sup)
  BY <1>2, HasKept
<1>4. \A t, u \in Starts(tasks') \cup Paused(tasks', "discovery") : t = u
  BY DEF Chain, KeptS, KeptP
<1>5. \A t \in Starts(tasks') :
          /\ \A i \in DOMAIN art' : art'[i].cor = tasks'[t].e.cor => art'[i].kind \notin Products
          /\ Unheard(tasks', "evaluation") = {} /\ Unheard(tasks', "negotiation") = {}
  BY <1>1 DEF Chain, KeptS, KeptU
<1>6. \A t \in Paused(tasks', "discovery") :
          /\ agent'.discovery.cor = tasks'[t].e.cor /\ agent'.discovery.pool
          /\ Has(art', "supplier_list", tasks'[t].e.cor, NoSup)
  BY <1>3 DEF Chain, KeptP
<1>7. \A r \in agent'.discovery.done : Has(art', "supplier_list", r, NoSup)
  BY <1>3 DEF Chain
<1> QED  BY <1>4, <1>5, <1>6, <1>7 DEF Chain, Untouched

LEMMA PendingKept ==
    ASSUME Pending, KeptP("requirement"), agent'.requirement = agent.requirement PROVE Pending'
BY DEF Pending, KeptP

LEMMA EvalsKept ==
    ASSUME Evals, KeptU("evaluation"), KeptP("discovery"), KeptA({"evaluation"})
    PROVE  Evals'
<1>1. /\ \A cor, sup : Has(art', "evaluation", cor, sup) <=> Has(art, "evaluation", cor, sup)
      /\ \A kind, cor, sup : Has(art, kind, cor, sup) => Has(art', kind, cor, sup)
  BY HasKept, HasStays
<1>2. /\ Unheard(tasks', "evaluation") = Unheard(tasks, "evaluation")
      /\ \A t \in Unheard(tasks, "evaluation") : tasks'[t].e = tasks[t].e
      /\ Paused(tasks', "discovery") = Paused(tasks, "discovery")
      /\ \A t \in Paused(tasks, "discovery") : tasks'[t].e = tasks[t].e /\ tasks'[t].rest = tasks[t].rest
  BY DEF KeptU, KeptP
<1>3. \A t, u \in Unheard(tasks', "evaluation") : tasks'[t].e.sup = tasks'[u].e.sup => t = u
  BY <1>2 DEF Evals
<1>4. \A t \in Unheard(tasks', "evaluation") :
          /\ tasks'[t].e.sup \in Suppliers
          /\ Has(art', "supplier_list", tasks'[t].e.cor, NoSup)
          /\ ~Has(art', "evaluation", tasks'[t].e.cor, tasks'[t].e.sup)
  BY <1>1, <1>2 DEF Evals
<1>5. ASSUME NEW t \in Paused(tasks', "discovery")
      PROVE  /\ IsInjective(tasks'[t].rest)
             /\ \A s \in Range(tasks'[t].rest) :
                   /\ ~Has(art', "evaluation", tasks'[t].e.cor, s)
                   /\ \A u \in Unheard(tasks', "evaluation") : tasks'[u].e.sup # s
  <2>1. t \in Paused(tasks, "discovery") /\ tasks'[t].e = tasks[t].e /\ tasks'[t].rest = tasks[t].rest
    BY <1>2
  <2>2. /\ IsInjective(tasks[t].rest)
        /\ \A s \in Range(tasks[t].rest) :
              /\ ~Has(art, "evaluation", tasks[t].e.cor, s)
              /\ \A u \in Unheard(tasks, "evaluation") : tasks[u].e.sup # s
    BY <2>1 DEF Evals
  <2> QED  BY <1>1, <1>2, <2>1, <2>2
<1> QED  BY <1>3, <1>4, <1>5 DEF Evals

LEMMA OffersKept ==
    ASSUME Offers, KeptU("negotiation"), KeptA({"quote"})
    PROVE  Offers'
<1>1. /\ \A cor, sup : Has(art', "quote", cor, sup) <=> Has(art, "quote", cor, sup)
      /\ \A kind, cor, sup : Has(art, kind, cor, sup) => Has(art', kind, cor, sup)
  BY HasKept, HasStays
<1>2. \A i \in DOMAIN art' : art'[i].kind = "quote" => i \in DOMAIN art /\ art'[i] = art[i]
  BY DEF KeptA
<1>3. \A t, u \in Unheard(tasks', "negotiation") : tasks'[t].e.sup = tasks'[u].e.sup => t = u
  BY DEF Offers, KeptU
<1>4. \A t \in Unheard(tasks', "negotiation") :
          /\ tasks'[t].e.sup \in Suppliers
          /\ Has(art', "supplier_list", tasks'[t].e.cor, NoSup)
          /\ Has(art', "evaluation", tasks'[t].e.cor, tasks'[t].e.sup)
          /\ ~Has(art', "quote", tasks'[t].e.cor, tasks'[t].e.sup)
  BY <1>1 DEF Offers, KeptU
<1>5. ASSUME NEW i \in DOMAIN art', art'[i].kind = "quote"
      PROVE  /\ art'[i].sup \in Suppliers
             /\ Has(art', "evaluation", art'[i].cor, art'[i].sup)
             /\ \A j \in DOMAIN art' :
                   art'[j].kind = "quote" /\ art'[j].cor = art'[i].cor /\ art'[j].sup = art'[i].sup => j = i
  BY <1>1, <1>2, <1>5 DEF Offers
<1> QED  BY <1>3, <1>4, <1>5 DEF Offers

LEMMA DecidesKept ==
    ASSUME Decides, KeptU("decision"), KeptP("decision"), KeptA({"decision"}), closed' = closed
    PROVE  Decides'
<1>1. /\ \A cor, sup : Has(art', "decision", cor, sup) <=> Has(art, "decision", cor, sup)
      /\ \A kind, cor, sup : Has(art, kind, cor, sup) => Has(art', kind, cor, sup)
  BY HasKept, HasStays
<1>2. \A i \in DOMAIN art' : art'[i].kind = "decision" => i \in DOMAIN art /\ art'[i] = art[i]
  BY DEF KeptA
<1>3. \A cor : AllQuoted(cor) => AllQuoted(cor)'
  BY <1>1 DEF AllQuoted
<1>4. \A r \in Requests : <<r, "quote">> \in closed' => AllQuoted(r)'
  BY <1>3 DEF Decides
<1>5. \A t, u \in Unheard(tasks', "decision") \cup Paused(tasks', "decision") : t = u
  BY DEF Decides, KeptU, KeptP
<1>6. \A t \in Unheard(tasks', "decision") :
          /\ <<tasks'[t].e.cor, "quote">> \in closed'
          /\ ~Has(art', "decision", tasks'[t].e.cor, NoSup)
  BY <1>1 DEF Decides, KeptU
<1>7. ASSUME NEW i \in DOMAIN art', art'[i].kind = "decision"
      PROVE  /\ <<art'[i].cor, "quote">> \in closed'
             /\ art'[i].sup = NoSup /\ Only(art', i) /\ Covers(art'[i].data.quotes)
  <2>1. i \in DOMAIN art /\ art'[i] = art[i]
    BY <1>2, <1>7
  <2>2. /\ <<art[i].cor, "quote">> \in closed
        /\ art[i].sup = NoSup /\ Only(art, i) /\ Covers(art[i].data.quotes)
    BY <1>7, <2>1 DEF Decides
  <2>3. Only(art', i)
    BY <1>2, <1>7, <2>1, <2>2 DEF Only
  <2> QED  BY <2>1, <2>2, <2>3
<1> QED  BY <1>4, <1>5, <1>6, <1>7 DEF Decides, Covers

\* An explanation stays that of an earlier decision.
LEMMA ExplainsKept ==
    ASSUME Listed(art), Explains, KeptP("decision"), KeptA({"decision", "decision_explanation"}),
           agent'.decision = agent.decision
    PROVE  Explains'
<1>1. \A kind \in {"decision", "decision_explanation"} : \A cor, sup :
          Has(art', kind, cor, sup) <=> Has(art, kind, cor, sup)
  BY HasKept
<1>2. /\ \A i \in DOMAIN art : i \in DOMAIN art' /\ art'[i] = art[i]
      /\ \A i \in DOMAIN art' : art'[i].kind \in {"decision", "decision_explanation"} => i \in DOMAIN art
  BY DEF KeptA
<1>3. PICK n \in Nat : DOMAIN art = 1 .. n
  BY DEF Listed
<1>4. \A k \in DOMAIN art : \A cor, winner :
          DecidedAs(art, k, cor, winner) => k \in DOMAIN art' /\ DecidedAs(art', k, cor, winner)
  BY <1>2 DEF DecidedAs
<1>5. ASSUME NEW t \in Paused(tasks', "decision")
      PROVE  LET cor == tasks'[t].e.cor
                 why == agent'.decision.why
             IN  /\ agent'.decision.cor = cor /\ why = <<why[1]>>
                 /\ Range(why[1].rejected) = Suppliers \ {why[1].winner}
                 /\ \E k \in DOMAIN art' : DecidedAs(art', k, cor, why[1].winner)
                 /\ ~Has(art', "decision_explanation", cor, NoSup)
  <2>1. t \in Paused(tasks, "decision") /\ tasks'[t].e = tasks[t].e
    BY DEF KeptP
  <2>2. LET cor == tasks[t].e.cor
            why == agent.decision.why
        IN  /\ agent.decision.cor = cor /\ why = <<why[1]>>
            /\ Range(why[1].rejected) = Suppliers \ {why[1].winner}
            /\ \E k \in DOMAIN art : DecidedAs(art, k, cor, why[1].winner)
            /\ ~Has(art, "decision_explanation", cor, NoSup)
    BY <2>1 DEF Explains
  <2> QED  BY <1>1, <1>4, <2>1, <2>2
<1>6. ASSUME NEW i \in DOMAIN art', art'[i].kind = "decision_explanation"
      PROVE  /\ art'[i].sup = NoSup /\ Only(art', i)
             /\ \E k \in 1 .. i - 1 : DecidedAs(art', k, art'[i].cor, art'[i].data.winner)
             /\ Range(art'[i].data.rejected) = Suppliers \ {art'[i].data.winner}
  <2>1. i \in DOMAIN art /\ art'[i] = art[i]
    BY <1>2, <1>6
  <2>2. /\ art[i].sup = NoSup /\ Only(art, i)
        /\ \E k \in 1 .. i - 1 : DecidedAs(art, k, art[i].cor, art[i].data.winner)
        /\ Range(art[i].data.rejected) = Suppliers \ {art[i].data.winner}
    BY <1>6, <2>1 DEF Explains
  <2>3. Only(art', i)
    BY <1>2, <1>6, <2>1, <2>2 DEF Only
  <2>4. 1 .. i - 1 \subseteq DOMAIN art
    BY <1>3, <2>1
  <2> QED  BY <1>4, <2>1, <2>2, <2>3, <2>4
<1>7. \A i \in DOMAIN art' : art'[i].kind = "decision" =>
          \/ Has(art', "decision_explanation", art'[i].cor, NoSup)
          \/ \E t \in Paused(tasks', "decision") : tasks'[t].e.cor = art'[i].cor
  BY <1>1, <1>2 DEF Explains, KeptP
<1> QED  BY <1>5, <1>6, <1>7 DEF Explains

LEMMA OnItsWayKept ==
    ASSUME KeptP("discovery"), KeptU("evaluation"), KeptU("negotiation"),
           \A cor, sup : Has(art, "quote", cor, sup) => Has(art', "quote", cor, sup),
           NEW r, NEW s, OnItsWay(r, s)
    PROVE  OnItsWay(r, s)'
<1>1. CASE \E t \in Paused(tasks, "discovery") : tasks[t].e.cor = r /\ s \in Range(tasks[t].rest)
  BY <1>1 DEF OnItsWay, KeptP
<1>2. CASE \E t \in Unheard(tasks, "evaluation") \cup Unheard(tasks, "negotiation") :
               tasks[t].e.cor = r /\ tasks[t].e.sup = s
  BY <1>2 DEF OnItsWay, KeptU
<1>3. CASE Has(art, "quote", r, s)
  BY <1>3 DEF OnItsWay
<1> QED  BY <1>1, <1>2, <1>3 DEF OnItsWay

\* A request that is under way, and a decision that is.
Wanted(r) == Payload[r].intent = "create" /\ Payload[r].valid
UnderWay(r) ==
    \/ \E t \in Starts(tasks) : tasks[t].e.cor = r
    \/ /\ \E i \in DOMAIN expect : expect[i].cor = r
       /\ \A s \in Suppliers : OnItsWay(r, s)
ToDecide(r) ==
    \/ \E t \in Unheard(tasks, "decision") : tasks[t].e.cor = r
    \/ Has(art, "decision", r, NoSup)

LEMMA ProgressIs ==
    Progress <=> /\ \A r \in sent : Wanted(r) => UnderWay(r)
                 /\ \A r \in Requests : <<r, "quote">> \in closed => ToDecide(r)
BY DEF Progress, Wanted, UnderWay, ToDecide

LEMMA ToDecideKept ==
    ASSUME KeptU("decision"), NEW r, ToDecide(r), 
           \A cor, sup : Has(art, "decision", cor, sup) => Has(art', "decision", cor, sup)
    PROVE  ToDecide(r)'
BY DEF ToDecide, KeptU

LEMMA ProgressKept ==
    ASSUME Progress, KeptS, KeptP("discovery"), KeptU("evaluation"), KeptU("negotiation"),
           KeptU("decision"), NEW K, KeptA(K), expect' = expect, closed' = closed, sent' = sent
    PROVE  Progress'
<1>1. \A kind, cor, sup : Has(art, kind, cor, sup) => Has(art', kind, cor, sup)
  BY HasStays
<1>2. \A r, s : OnItsWay(r, s) => OnItsWay(r, s)'
  BY <1>1, OnItsWayKept
<1>3. \A r : UnderWay(r) => UnderWay(r)'
  BY <1>2 DEF UnderWay, KeptS
<1>4. \A r : ToDecide(r) => ToDecide(r)'
  BY <1>1, ToDecideKept
<1> QED  BY <1>3, <1>4, ProgressIs DEF Progress, Wanted, UnderWay, ToDecide

\* Most steps leave all of them.
Calm ==
    /\ KeptS /\ KeptU("evaluation") /\ KeptU("negotiation") /\ KeptU("decision")
    /\ KeptP("discovery") /\ KeptP("decision") /\ KeptA(Products)
    /\ agent'.discovery = agent.discovery /\ agent'.decision = agent.decision
    /\ expect' = expect /\ closed' = closed /\ sent' = sent

Settled == Chain /\ Evals /\ Offers /\ Decides /\ Explains /\ Progress

LEMMA KeptFewer == \A K, L : L \subseteq K /\ KeptA(K) => KeptA(L)
BY DEF KeptA

LEMMA CalmKeeps == ASSUME LoopInv, Settled, Calm PROVE Settled'
<1>1. /\ {"evaluation"} \subseteq Products /\ {"quote"} \subseteq Products
      /\ {"decision"} \subseteq Products /\ {"decision", "decision_explanation"} \subseteq Products
  BY DEF Products
<1>2. /\ KeptA({"evaluation"}) /\ KeptA({"quote"})
      /\ KeptA({"decision"}) /\ KeptA({"decision", "decision_explanation"})
  BY <1>1, KeptFewer DEF Calm
<1>3. Chain /\ Evals /\ Offers /\ Decides /\ Explains /\ Progress /\ Listed(art)
  BY DEF Settled, LoopInv, Typed
<1>4. /\ KeptS /\ KeptU("evaluation") /\ KeptU("negotiation") /\ KeptU("decision")
      /\ KeptP("discovery") /\ KeptP("decision") /\ KeptA(Products)
      /\ agent'.discovery = agent.discovery /\ agent'.decision = agent.decision
      /\ expect' = expect /\ closed' = closed /\ sent' = sent
  BY DEF Calm
<1>5. Chain' /\ Evals' /\ Offers'
  BY <1>2, <1>3, <1>4, ChainKept, EvalsKept, OffersKept
<1>6. Decides' /\ Explains' /\ Progress'
  BY <1>2, <1>3, <1>4, DecidesKept, ExplainsKept, ProgressKept
<1> QED  BY <1>5, <1>6 DEF Settled

(***************************************************************************)
(* The steps that leave all but the request's own affairs.                 *)
(***************************************************************************)
Concerned ==
    Starts(tasks) \cup Unheard(tasks, "evaluation") \cup Unheard(tasks, "negotiation")
    \cup Unheard(tasks, "decision") \cup Paused(tasks, "discovery") \cup Paused(tasks, "decision")

LEMMA Bystanders ==
    ASSUME LoopInv, NEW t \in DOMAIN tasks,
           \/ tasks[t].h \notin Tracked \/ tasks[t].h = "tracker"
           \/ tasks[t].resumed /\ tasks[t].h \notin {"discovery", "decision"}
           \/ ~tasks[t].resumed /\ tasks[t].e.replayed
           \/ tasks[t].h = "strategy" /\ tasks[t].e.type = "QuotesCompleted"
    PROVE  t \notin Concerned
BY DEF Concerned, Starts, Unheard, Paused, Tracked

LEMMA CalmTurn ==
    ASSUME NEW S, NEW W, NEW H, NEW e, Turn(S, W, H, e), S \cap Concerned = {},
           \A t \in W : tasks[t].h \notin {"discovery", "decision"},
           H \cap {"requirement", "discovery", "evaluation", "negotiation", "decision"} = {},
           "strategy" \in H => e.type # "RequirementCreated"
    PROVE  /\ KeptS /\ KeptU("evaluation") /\ KeptU("negotiation") /\ KeptU("decision")
           /\ KeptP("discovery") /\ KeptP("decision")
<1>1. {"evaluation", "negotiation", "decision", "discovery"} \subseteq Tracked
  BY DEF Tracked
<1>2. /\ Starts(tasks) \cap S = {} /\ Unheard(tasks, "evaluation") \cap S = {}
      /\ Unheard(tasks, "negotiation") \cap S = {} /\ Unheard(tasks, "decision") \cap S = {}
      /\ S \cap Paused(tasks, "discovery") = {} /\ S \cap Paused(tasks, "decision") = {}
  BY DEF Concerned
<1>3. KeptU("evaluation") /\ KeptU("negotiation") /\ KeptU("decision")
  BY <1>1, <1>2, TurnKeepsU
<1>4. KeptP("discovery") /\ KeptP("decision")
  BY <1>1, <1>2, TurnKeepsP
<1>5. KeptS
  BY <1>2, TurnKeepsS
<1> QED  BY <1>3, <1>4, <1>5

LEMMA CompleteSame ==
    ASSUME Quiet, expect' = expect, NEW pair \in Requests \X {"evaluation", "quote"}, Complete(pair)'
    PROVE  Complete(pair)
<1>1. Count(pair[2], pair[1])' = Count(pair[2], pair[1]) /\ closed' = closed
  BY DEF Quiet
<1> QED  BY <1>1 DEF Complete

LEMMA SerialIs ==
    SerialInv <=> OneCall(tasks) /\ Watched /\ Stocked /\ Pending /\ Settled
BY DEF SerialInv, Settled

LEMMA PendingTurn ==
    ASSUME Pending, NEW S, NEW W, NEW H, NEW e, Turn(S, W, H, e), agent'.requirement = agent.requirement,
           \A t \in S : tasks[t].h # "requirement" \/ (~tasks[t].resumed /\ W = {})
    PROVE  Pending'
<1>1. S \cap Paused(tasks, "requirement") = {} /\ \A t \in W : tasks[t].h # "requirement"
  BY DEF Paused, Turn
<1>2. KeptP("requirement")
  BY <1>1, TurnKeepsP DEF Tracked
<1> QED  BY <1>2, PendingKept

\* A turn of somebody who is not concerned.
LEMMA CalmStep ==
    ASSUME LoopInv, SerialInv, NEW S, NEW W, NEW H, NEW e, Turn(S, W, H, e), S \cap Concerned = {},
           \A t \in W : tasks[t].h \notin {"discovery", "decision"},
           H \cap {"requirement", "discovery", "evaluation", "negotiation", "decision"} = {},
           "strategy" \notin H, OneCall(tasks'), Watched', Pending',
           NEW a, Grown(a), a.kind \notin Products, ArtifactOk(a) \/ art' = art,
           agent'.discovery = agent.discovery, agent'.decision = agent.decision,
           expect' = expect, closed' = closed, sent' = sent
    PROVE  SerialInv'
<1>1. KeptA(Products)
  BY GrownKeeps
<1>2. /\ KeptS /\ KeptU("evaluation") /\ KeptU("negotiation") /\ KeptU("decision")
      /\ KeptP("discovery") /\ KeptP("decision")
  BY CalmTurn
<1>3. Calm
  BY <1>1, <1>2 DEF Calm
<1>4. Settled'
  BY <1>3, CalmKeeps, SerialIs
<1>5. \A t \in Unheard(tasks', "strategy") :
          t \in Unheard(tasks, "strategy") /\ tasks'[t].e = tasks[t].e
  <2>1. Fresh("strategy") = {}
    BY DEF Turn, Tracked
  <2>2. /\ Unheard(tasks', "strategy") = (Unheard(tasks, "strategy") \ S) \cup Fresh("strategy")
        /\ \A t \in Unheard(tasks, "strategy") \ S : tasks'[t].e = tasks[t].e
    BY TurnUnheard DEF Tracked
  <2> QED  BY <2>1, <2>2
<1>6. \A i \in DOMAIN art' \ DOMAIN art : ArtifactOk(art'[i])
  BY DEF Grown
<1>7. Stocked'
  BY <1>1, <1>2, <1>5, <1>6, StockedKept, SerialIs
<1> QED  BY <1>4, <1>7 DEF SerialInv, Settled

LEMMA SerialParts ==
    ASSUME SerialInv
    PROVE  OneCall(tasks) /\ Watched /\ Stocked /\ Pending /\ Settled /\ Chain /\ Evals
           /\ Offers /\ Decides /\ Explains /\ Progress
BY DEF SerialInv, Settled

\* A task that ends and is not concerned.
LEMMA CalmEnds ==
    ASSUME LoopInv, SerialInv, Ends, Quiet, Now \notin Concerned,
           Me.h # "tracker", Pending', NEW a, Grown(a), a.kind \notin Products,
           ArtifactOk(a) \/ art' = art,
           agent'.discovery = agent.discovery, agent'.decision = agent.decision, expect' = expect
    PROVE  SerialInv'
<1>1. Turn({Now}, {}, {}, a)
  BY TurnEnds
<1>2. OneCall(tasks')
  BY OneCallEnds, SerialParts
<1>3. Watched'
  <2>1. \A pair \in Requests \X {"evaluation", "quote"} : Complete(pair)' => Complete(pair)
    BY CompleteSame
  <2>2. \A t \in {Now} : tasks[t].h # "tracker"
    BY DEF Me
  <2> QED  BY <1>1, <2>1, <2>2, WatchedTurn, SerialParts
<1>4. closed' = closed /\ sent' = sent
  BY DEF Quiet, Ends
<1> QED  BY <1>1, <1>2, <1>3, <1>4, CalmStep

LEMMA NoArtifact ==
    ASSUME LoopInv, art' = art PROVE \E a : Grown(a) /\ a.kind \notin Products
<1> DEFINE a == [kind |-> "completion"]
<1>1. a.kind \notin Products
  BY DEF Products
<1>2. Grown(a)
  <2> HIDE DEF a
  <2> QED  BY GrownSame DEF LoopInv, Typed
<1> QED  BY <1>1, <1>2

LEMMA ReturnsSerial ==
    ASSUME LoopInv, SerialInv, Answer \/ Record \/ Ignore \/ RequirementDone \/ StrategyDone \/ OnlyReturns
    PROVE  SerialInv'
<1>1. Ends /\ Quiet
  BY ReturnsKind
<1>2. Now \in DOMAIN tasks /\ Me = tasks[Now]
  BY <1>1, Mine DEF Ends
<1>3. /\ art' = art /\ expect' = expect /\ Me.h # "tracker"
      /\ agent'.discovery = agent.discovery /\ agent'.decision = agent.decision
  <2>1. CASE RequirementDone
    <3>1. agent' = [agent EXCEPT !.requirement.pending = FALSE] /\ art' = art /\ expect' = expect
          /\ Me.h = "requirement"
      BY <2>1 DEF RequirementDone, Resumed, Running
    <3>2. AgentOk(agent, sent)
      BY DEF LoopInv, Typed
    <3>3. agent = [requirement |-> agent.requirement, discovery |-> agent.discovery,
                   decision |-> agent.decision, analyzed |-> agent.analyzed]
      BY <3>2 DEF AgentOk
    <3> QED  BY <3>1, <3>3
  <2>2. CASE Answer \/ Record \/ Ignore \/ StrategyDone \/ OnlyReturns
    BY <2>2 DEF Answer, Record, Ignore, Ignores, StrategyDone, OnlyReturns, Started, Resumed, Running
  <2> QED  BY <2>1, <2>2
<1>4. Now \notin Concerned
  <2>1. CASE Answer \/ Record
    BY <1>2, <2>1, Bystanders DEF Answer, Record, Started, Resumed, Running, Tracked
  <2>2. CASE Ignore
    BY <1>2, <2>2, Bystanders DEF Ignore, Ignores, Started
  <2>3. CASE RequirementDone \/ StrategyDone \/ OnlyReturns
    BY <1>2, <2>3, Bystanders DEF RequirementDone, StrategyDone, OnlyReturns, Resumed, Running
  <2> QED  BY <2>1, <2>2, <2>3
<1>5. Pending'
  <2>1. CASE RequirementDone
    <3>1. agent' = [agent EXCEPT !.requirement.pending = FALSE] /\ AgentOk(agent, sent)
      BY <2>1 DEF RequirementDone, LoopInv, Typed
    <3>2. ~agent'.requirement.pending
      BY <3>1 DEF AgentOk
    <3> QED  BY <3>2 DEF Pending
  <2>2. CASE Answer \/ Record \/ Ignore \/ StrategyDone \/ OnlyReturns
    <3>1. agent' = agent
      BY <2>2 DEF Answer, Record, Ignore, StrategyDone, OnlyReturns
    <3>2. Me.h # "requirement" \/ ~Me.resumed
      BY <2>2 DEF Answer, Record, Ignore, Ignores, StrategyDone, OnlyReturns, Started, Resumed, Running
    <3>3. Turn({Now}, {}, {}, 0)
      BY <1>1, TurnEnds
    <3>4. \A t \in {Now} : tasks[t].h # "requirement" \/ (~tasks[t].resumed /\ {} = {})
      BY <1>2, <3>2
    <3> QED  BY <3>1, <3>3, <3>4, PendingTurn, SerialParts
  <2> QED  BY <2>1, <2>2
<1>6. PICK a : Grown(a) /\ a.kind \notin Products
  BY <1>3, NoArtifact
<1> QED  BY <1>1, <1>3, <1>4, <1>5, <1>6, CalmEnds

LEMMA NobodyYet == ASSUME tasks = <<>>, NEW h PROVE Unheard(tasks, h) = {} /\ Paused(tasks, h) = {}
BY DEF Unheard, Paused

LEMMA NotAtWork == ASSUME LoopInv, Idle PROVE tasks = <<>>
<1>1. Book(tasks, ready) /\ tasks = [t \in DOMAIN tasks |-> tasks[t]]
  BY DEF LoopInv, Typed, WorksOk
<1> QED  BY <1>1, NothingLeft

LEMMA WakeSerial == ASSUME LoopInv, SerialInv, Wake PROVE SerialInv'
<1>1. /\ Wakes /\ UNCHANGED <<log, events, art, expect, closed, agent, sent, answered, replays>>
  BY DEF Wake, Wakes
<1>2. Turn({}, {}, {}, 0)
  BY <1>1, TurnWakes
<1>3. OneCall(tasks')
  BY <1>1, OneCallEnds, SerialParts
<1>4. Quiet
  BY <1>1, QuietPut
<1>5. Watched'
  BY <1>1, <1>2, <1>4, CompleteSame, WatchedTurn, SerialParts
<1>6. Pending'
  BY <1>1, <1>2, PendingTurn, SerialParts
<1>7. PICK a : Grown(a) /\ a.kind \notin Products
  BY <1>1, NoArtifact
<1> QED  BY <1>1, <1>2, <1>3, <1>5, <1>6, <1>7, CalmStep

LEMMA ReplayedSpeaks ==
    ASSUME LoopInv, ReplayNext, Me.rest # <<>>
    PROVE  \E e : Speaks(e, Tail(Me.rest)) /\ e.replayed
<1>1. /\ Steps /\ Me.h = "replay" /\ Deliver(Anew(Head(Me.rest)), Tail(Me.rest))
      /\ UNCHANGED <<log, events, sent, answered>>
  BY DEF ReplayNext, Resumed, Running
<1>2. Me.rest \in Seq(Messages(sent))
  BY <1>1, Mine DEF WorkOk
<1>3. Head(Me.rest) \in Messages(sent) /\ Tail(Me.rest) \in Seq(Messages(sent))
  <2>1. \A A, s : s \in Seq(A) /\ s # <<>> => Head(s) \in A /\ Tail(s) \in Seq(A)
    OBVIOUS
  <2> QED  BY <1>2, <2>1
<1>4. /\ Anew(Head(Me.rest)) \in Messages(sent) /\ Anew(Head(Me.rest)).replayed
      /\ RestOk(Me.h, Tail(Me.rest), sent)
  BY <1>1, <1>3, AnewOk DEF RestOk, Lists
<1> QED  BY <1>1, <1>4 DEF Speaks

\* A step that says something and is of nobody concerned.
LEMMA ReplayNextSerial == ASSUME LoopInv, SerialInv, ReplayNext PROVE SerialInv'
<1>1. /\ Steps /\ Me.h = "replay" /\ Me.resumed
      /\ UNCHANGED <<log, events, art, expect, closed, agent, sent, answered, replays>>
  BY DEF ReplayNext, Resumed, Running
<1>2. Now \in DOMAIN tasks /\ Me = tasks[Now]
  BY <1>1, Mine
<1>3. Now \notin Concerned
  BY <1>1, <1>2, Bystanders
<1>4. Quiet
  BY <1>1, QuietPut
<1>5. PICK a : Grown(a) /\ a.kind \notin Products
  BY <1>1, NoArtifact
<1>6. CASE Me.rest = <<>>
  <2>1. Ends
    BY <1>1, <1>6, EndsOk DEF ReplayNext
  <2>2. Turn({Now}, {}, {}, 0)
    BY <2>1, TurnEnds
  <2>3. Pending'
    BY <1>1, <1>2, <2>2, PendingTurn, SerialParts
  <2> QED  BY <1>1, <1>3, <1>4, <1>5, <2>1, <2>3, CalmEnds
<1>7. CASE Me.rest # <<>>
  <2>1. PICK e : Speaks(e, Tail(Me.rest)) /\ e.replayed
    BY <1>7, ReplayedSpeaks
  <2>2. Turn({Now}, {Now}, {}, e)
    BY <2>1, TurnSpeaks DEF Ears
  <2>3. OneCall(tasks')
    BY <1>1, <2>1, OneCallSpeaks, SerialParts
  <2>4. Pending'
    BY <1>1, <1>2, <2>2, PendingTurn, SerialParts
  <2>5. Watched'
    <3>1. \A t \in {Now} : tasks[t].h # "tracker"
      BY <1>1, <1>2
    <3>2. \A pair \in Requests \X {"evaluation", "quote"} : Complete(pair)' => Complete(pair)
      BY <1>1, <1>4, CompleteSame
    <3> QED  BY <2>2, <3>1, <3>2, WatchedTurn, SerialParts
  <2>6. /\ {Now} \cap Concerned = {} /\ \A t \in {Now} : tasks[t].h \notin {"discovery", "decision"}
    BY <1>1, <1>2, <1>3
  <2> QED  BY <1>1, <1>5, <2>2, <2>3, <2>4, <2>5, <2>6, CalmStep
<1> QED  BY <1>6, <1>7

(***************************************************************************)
(* Calls, while the loop is at rest.                                       *)
(***************************************************************************)
LEMMA ReplaySerial == ASSUME LoopInv, SerialInv, Replay, Overlap = FALSE PROVE SerialInv'
<1> DEFINE e == Anew(log[1])
           rest == Tail(log)
<1>1. /\ log # <<>> /\ Enter("replay", e, rest) /\ tasks = <<>>
      /\ UNCHANGED <<log, events, art, expect, closed, agent, sent, answered>>
  BY NotAtWork DEF Replay
<1>2. sent \subseteq Requests /\ log \in Seq(Messages(sent))
  BY DEF LoopInv, Typed, LogOk
<1>3. log[1] \in Messages(sent) /\ rest \in Seq(Messages(sent))
  <2>1. \A A, s : s \in Seq(A) /\ s # <<>> => s[1] \in A /\ Tail(s) \in Seq(A)
    OBVIOUS
  <2> QED  BY <1>1, <1>2, <2>1
<1>4. e \in Messages(sent) /\ e.replayed /\ RestOk("replay", rest, sent)
  BY <1>3, AnewOk DEF RestOk, Lists
<1> HIDE DEF e, rest
<1>5. Arrives("replay", e, rest)
  BY <1>1, <1>2, <1>4 DEF Arrives
<1>6. Turn({}, {}, {}, e)
  BY <1>1, <1>4, <1>5, TurnArrives DEF Ears
<1>7. OneCall(tasks')
  BY <1>1, <1>5, OneCallArrives
<1>8. Quiet
  BY <1>1, QuietPut
<1>9. Watched'
  BY <1>1, <1>6, <1>8, CompleteSame, WatchedTurn, SerialParts
<1>10. Pending'
  BY <1>1, <1>6, PendingTurn, SerialParts
<1>11. PICK a : Grown(a) /\ a.kind \notin Products
  BY <1>1, NoArtifact
<1> QED  BY <1>1, <1>6, <1>7, <1>9, <1>10, <1>11, CalmStep

LEMMA SendSerial ==
    ASSUME LoopInv, SerialInv, NEW r \in Requests, Send(r), Overlap = FALSE PROVE SerialInv'
<1> DEFINE e == Event(IF Payload[r].intent = "lifecycle" THEN "SwarmStarted" ELSE "Message", r, NoSup)
           H == Ears(e)
<1>1. /\ sent' = sent \cup {r} /\ log' = Append(log, e) /\ Enter("client", e, <<>>)
      /\ r \notin sent /\ tasks = <<>>
      /\ UNCHANGED <<events, art, expect, closed, agent, answered, replays>>
  BY NotAtWork DEF Send
<1>2. /\ e \in Messages(sent') /\ ~e.replayed /\ e.type \in {"Message", "SwarmStarted"}
      /\ e.cor = r /\ e.type \in Types /\ (Wanted(r) => e.type = "Message")
  <2>1. (IF Payload[r].intent = "lifecycle" THEN "SwarmStarted" ELSE "Message") \in Types
    BY DEF Types, Sourced
  <2>2. r \in sent'
    BY <1>1
  <2> QED  BY <2>1, <2>2, EventOk DEF Event, Wanted
<1> HIDE DEF e, H
<1>3. /\ sent \subseteq Requests /\ RestOk("client", <<>>, sent')
  BY DEF LoopInv, Typed, RestOk, Lists
<1>4. Arrives("client", e, <<>>)
  BY <1>1, <1>2, <1>3 DEF Arrives
<1>5. Turn({}, {}, H, e) /\ H = Handlers(e.type)
  BY <1>1, <1>2, <1>4, TurnArrives DEF Ears, H
<1>6. OneCall(tasks')
  BY <1>1, <1>4, OneCallArrives
<1>7. Quiet
  BY <1>1, QuietPut
<1>8. Watched'
  BY <1>1, <1>5, <1>7, CompleteSame, WatchedTurn, SerialParts
<1>9. Pending'
  BY <1>1, <1>5, PendingTurn, SerialParts
<1>10. /\ H \cap {"strategy", "discovery", "evaluation", "negotiation", "decision"} = {}
       /\ e.type = "Message" => "requirement" \in H
  BY <1>2, <1>5, WhoHears
<1>11. /\ KeptU("evaluation") /\ KeptU("negotiation") /\ KeptU("decision") /\ KeptU("strategy")
       /\ KeptP("discovery") /\ KeptP("decision")
  <2>1. {"evaluation", "negotiation", "decision", "strategy", "discovery"} \subseteq Tracked
    BY DEF Tracked
  <2> QED  BY <1>5, <1>10, <2>1, TurnKeepsU, TurnKeepsP
<1>12. \A h : Unheard(tasks, h) = {} /\ Paused(tasks, h) = {}
  BY <1>1, NobodyYet
<1>13. /\ Starts(tasks) = {} /\ Starts(tasks') = Fresh("requirement")
       /\ \A t \in Fresh("requirement") : tasks'[t].e = e /\ tasks'[t].h = "requirement"
       /\ \A t, u \in Fresh("requirement") : t = u
       /\ e.type = "Message" => Fresh("requirement") # {}
  <2>1. Starts(tasks) = {}
    BY <1>12 DEF Starts
  <2>2. Fresh("discovery") = {} /\ Beginning(e) = {}
    BY <1>5, <1>10 DEF Turn, Tracked, Beginning
  <2>3. Starts(tasks') = (Starts(tasks) \ {}) \cup Fresh("requirement")
                           \cup Fresh("discovery") \cup Beginning(e)
    BY <1>5, TurnStarts
  <2>4. \A t \in Fresh("requirement") : tasks'[t].e = e /\ tasks'[t].h = "requirement"
    BY <1>5, TurnUnheard DEF Tracked
  <2>5. IF "requirement" \in H THEN \E n : Fresh("requirement") = {n} ELSE Fresh("requirement") = {}
    BY <1>5 DEF Turn, Tracked
  <2> QED  BY <1>10, <2>1, <2>2, <2>3, <2>4, <2>5
<1>14. \A K : KeptA(K)
  BY <1>1 DEF KeptA
<1>15. Stocked'
  <2>1. \A kind, sup : Known(kind, sup)' = Known(kind, sup)
    BY <1>1 DEF Known, Named
  <2> QED  BY <1>1, <1>11, <1>12, <1>13, <2>1, SerialParts DEF Stocked, KeptU
<1>16. Chain'
  <2>1. \A i \in DOMAIN art : art[i].cor = r => art[i].kind \notin Products
    BY <1>1, SerialParts DEF Stocked
  <2>2. \A t \in Starts(tasks') : Untouched(r)' /\ tasks'[t].e.cor = r
    BY <1>1, <1>2, <1>13, <2>1 DEF Untouched
  <2>3. /\ Paused(tasks', "discovery") = {} /\ Unheard(tasks', "evaluation") = {}
        /\ Unheard(tasks', "negotiation") = {}
    BY <1>11, <1>12 DEF KeptU, KeptP
  <2>4. \A q \in agent'.discovery.done : Has(art', "supplier_list", q, NoSup)
    BY <1>1, SerialParts DEF Chain
  <2> QED  BY <1>13, <2>2, <2>3, <2>4 DEF Chain, Untouched
<1>17. Evals' /\ Offers' /\ Decides' /\ Explains'
  <2>1. Listed(art)
    BY DEF LoopInv, Typed
  <2> QED  BY <1>1, <1>11, <1>14, <2>1, SerialParts, EvalsKept, OffersKept, DecidesKept, ExplainsKept
<1>18. Progress'
  <2>1. /\ \A q \in sent : Wanted(q) => UnderWay(q)
        /\ \A q \in Requests : <<q, "quote">> \in closed => ToDecide(q)
    BY SerialParts, ProgressIs
  <2>2. \A q, s : OnItsWay(q, s) => OnItsWay(q, s)'
    BY <1>1, <1>11, OnItsWayKept
  <2>3. ASSUME NEW q \in sent, Wanted(q) PROVE UnderWay(q)'
    <3>1. UnderWay(q) /\ Starts(tasks) = {}
      BY <1>13, <2>1, <2>3
    <3> QED  BY <1>1, <2>2, <3>1 DEF UnderWay
  <2>4. ASSUME Wanted(r) PROVE UnderWay(r)'
    <3>1. \E t \in Starts(tasks') : tasks'[t].e.cor = r
      BY <1>2, <1>13, <2>4
    <3> QED  BY <3>1 DEF UnderWay
  <2>5. \A q : ToDecide(q) => ToDecide(q)'
    BY <1>1, <1>11, ToDecideKept
  <2> QED  BY <1>1, <2>1, <2>3, <2>4, <2>5 DEF Progress, Wanted, UnderWay, ToDecide
<1> QED  BY <1>6, <1>8, <1>9, <1>15, <1>16, <1>17, <1>18 DEF SerialInv

(***************************************************************************)
(* What the agents compute from the artifacts.                             *)
(***************************************************************************)
LEMMA GetOne ==
    ASSUME LoopInv, Stocked, NEW kind, NEW sup, Known(kind, sup)
    PROVE  \E i \in DOMAIN art : art[i].kind = kind /\ art[i].sup = sup /\ Get(kind, sup) = art[i]
<1> DEFINE S == Named(kind, sup)
           V == {art[i].version : i \in S}
           newest == {i \in S : \A k \in S : art[k].version <= art[i].version}
<1>1. PICK A : art \in Seq(A)
  BY DEF LoopInv, Typed, Listed
<1>2. DOMAIN art = 1 .. Len(art) /\ Len(art) \in Nat
  BY <1>1
<1>3. S \in SUBSET DOMAIN art /\ S # {}
  BY DEF Known, Named
<1>4. \A i \in DOMAIN art : art[i].version \in Nat
  BY DEF Stocked, ArtifactOk
<1>5. IsFiniteSet(DOMAIN art)
  BY <1>2, FS_Interval
<1>6. IsFiniteSet(S)
  <2> HIDE DEF S
  <2> QED  BY <1>3, <1>5, FS_Subset
<1> HIDE DEF S
<1>7. IsFiniteSet(V)
  <2> DEFINE f == [i \in S |-> art[i].version]
  <2>1. f \in Surjection(S, V)
    BY DEF Surjection
  <2> HIDE DEF f, V
  <2> QED  BY <1>6, <2>1, FS_Surjection
<1>8. V \in SUBSET Nat /\ V # {}
  BY <1>3, <1>4
<1>9. Max(V) \in V /\ \A v \in V : Max(V) >= v
  <2> HIDE DEF V
  <2> QED  BY <1>7, <1>8, Greatest
<1>10. PICK i \in S : art[i].version = Max(V)
  BY <1>9
<1>11. \A k \in S : art[k].version <= art[i].version
  <2>1. \A k \in S : art[k].version \in V
    OBVIOUS
  <2> HIDE DEF V
  <2> QED  BY <1>3, <1>4, <1>9, <1>10, <2>1
<1>12. newest # {} /\ newest \in SUBSET Nat
  <2>1. i \in newest
    BY <1>11
  <2>2. newest \subseteq S /\ S \subseteq 1 .. Len(art)
    BY <1>2, <1>3
  <2> HIDE DEF newest
  <2> QED  BY <1>2, <2>1, <2>2
<1>13. Min(newest) \in newest
  <2> HIDE DEF newest
  <2> QED  BY <1>12, Smallest
<1>14. Get(kind, sup) = art[Min(newest)]
  BY DEF Get, S
<1>15. Min(newest) \in S
  BY <1>13
<1> QED  BY <1>14, <1>15 DEF S, Named

LEMMA ConstraintsOk ==
    ASSUME LoopInv, Stocked, Known("requirement", NoSup) PROVE Constraints \in Demands
<1>1. PICK i \in DOMAIN art : art[i].kind = "requirement" /\ Get("requirement", NoSup) = art[i]
  BY GetOne
<1>2. Get("requirement", NoSup).cor \in Requests
  BY <1>1 DEF Stocked, ArtifactOk
<1> DEFINE p == Payload[Get("requirement", NoSup).cor]
<1>3. /\ p.quantity \in Nat /\ p.budget \in Nat /\ p.limit \in Nat \cup {Unset} /\ p.target \in Nat
      /\ p.carbon \in BOOLEAN
  BY <1>2, PayloadAssumption
<1>4. Spot \in Nat \ {0} /\ (Spot * 12) \div 10 \in Nat
  BY MarketAssumption
<1>5. Constraints = Requirement(p)
  BY DEF Constraints
<1> HIDE DEF p
<1>6. /\ Given(p.quantity, 1000) \in Nat /\ Given(p.budget, 500000) \in Nat
      /\ PriceLimit(p.limit) \in Nat /\ Given(p.target, 30) \in Nat \ {0}
  BY <1>3, <1>4 DEF Given, PriceLimit, Unset
<1> QED  BY <1>3, <1>5, <1>6 DEF Requirement, Demands

LEMMA StrategyNamed == \A req : req.carbon \in BOOLEAN => SelectStrategy(req) \in DOMAIN Weights
BY DEF SelectStrategy, Weights

LEMMA Divides == \A x \in Int, y \in Nat \ {0} : x \div y \in Int
OBVIOUS

LEMMA PositiveProduct == \A x, y \in Nat \ {0} : x * y \in Nat \ {0}
OBVIOUS

LEMMA TimesNat == \A x, y \in Nat : x * y \in Nat
OBVIOUS

LEMMA TemplateOk ==
    ASSUME NEW s \in Suppliers
    PROVE  /\ Template[s].mult \in Nat /\ Template[s].logistics \in Nat /\ Template[s].margin \in Nat
           /\ Template[s].reliability \in 0..100 /\ Template[s].carbon \in Nat /\ History[s] \in Int
<1>1. /\ Template \in [Suppliers -> [mult : Nat, logistics : Nat, margin : Nat,
                                      reliability : 0..100, carbon : Nat]]
      /\ History \in [Suppliers -> -500..500]
  BY PoolAssumption
<1>2. Template[s] \in [mult : Nat, logistics : Nat, margin : Nat, reliability : 0..100, carbon : Nat]
  BY <1>1
<1>3. History[s] \in Int
  <2>1. \A n \in -500..500 : n \in Int
    OBVIOUS
  <2>2. History[s] \in -500..500
    BY <1>1
  <2> HIDE DEF PoolAssumption
  <2> QED  BY <2>1, <2>2, Zenon
<1> QED  BY <1>2, <1>3

LEMMA FloorPriceNat == ASSUME NEW s \in Suppliers PROVE FloorPrice(s) \in Nat
<1>1. /\ Template[s].mult \in Nat /\ Template[s].logistics \in Nat /\ Template[s].margin \in Nat
  BY TemplateOk
<1>2. Spot * Template[s].mult \in Nat
  BY <1>1, MarketAssumption, TimesNat
<1>3. (Spot * Template[s].mult) \div 100 \in Nat
  BY <1>2
<1> DEFINE cost == (Spot * Template[s].mult) \div 100 + Template[s].logistics
           share == 100 + Template[s].margin
<1>4. cost \in Nat /\ share \in Nat
  BY <1>1, <1>3
<1>5. FloorPrice(s) = (cost * share) \div 100
  BY DEF FloorPrice
<1> HIDE DEF cost, share
<1>6. cost * share \in Nat
  BY <1>4, TimesNat
<1> QED  BY <1>5, <1>6

LEMMA ScoreOk ==
    ASSUME NEW s \in Suppliers, NEW strategy \in DOMAIN Weights, NEW req \in Demands
    PROVE  EvaluationScore(s, strategy, req) \in Int
<1> DEFINE t == req.target
           late == LeadTime(s, t)
           lead == Core(t)!ScoreLead(late)
           price == Core(t)!ScorePrice(FloorPrice(s))
           carbon == Core(t)!ScoreCarbon(CarbonFootprint(s, req.quantity), req.quantity)
           good == Quality(lead, Template[s].reliability)
           w == Weights[strategy]
           base == w[1] * price + w[2] * good + w[3] * carbon
<1>1. t \in Nat \ {0} /\ req.quantity \in Nat
  BY DEF Demands
<1>2. /\ Template[s].carbon \in Nat /\ Template[s].reliability \in Int /\ History[s] \in Int
      /\ Spot \in Nat \ {0} /\ Baseline \in Nat \ {0}
  BY TemplateOk, MarketAssumption
<1>3. \A u, x, y : x \in Int /\ y \in Int => Core(u)!Most(x, y) \in Int
  BY DEF Core!Most
<1>4. late \in Int
  <2>1. Position(s) \in Int
    <3>1. \E i \in DOMAIN Pool : Pool[i] = s
      BY DEF Suppliers
    <3>2. DOMAIN Pool \subseteq Nat
      BY PoolAssumption
    <3> QED  BY <3>1, <3>2 DEF Position
  <2>2. ((Position(s) - 1) % 5) - 2 \in Int
    BY <2>1
  <2> QED  BY <1>1, <2>2 DEF LeadTime
<1>5. lead \in Int
  <2>1. \A u : Core(u)!ScoreLead(late) =
          IF late <= u THEN 100 ELSE Core(u)!Most(0, 100 - (100 * (late - u)) \div u)
    BY DEF Core!ScoreLead
  <2>2. lead = IF late <= t THEN 100 ELSE Core(t)!Most(0, 100 - (100 * (late - t)) \div t)
    BY <2>1
  <2> HIDE DEF t, late, lead
  <2>3. 100 - (100 * (late - t)) \div t \in Int
    <3>1. 100 * (late - t) \in Int
      BY <1>1, <1>4
    <3> QED  BY <1>1, <3>1, Divides
  <2> QED  BY <1>3, <2>2, <2>3
<1>6. price \in Int
  <2>1. \A u, x : Core(u)!ScorePrice(x) = Core(u)!Most(0, 100 - (50 * x) \div Spot)
    BY DEF Core!ScorePrice
  <2>2. 100 - (50 * FloorPrice(s)) \div Spot \in Int
    <3>1. 50 * FloorPrice(s) \in Int
      BY FloorPriceNat
    <3> QED  BY <1>2, <3>1, Divides
  <2>3. price = Core(t)!Most(0, 100 - (50 * FloorPrice(s)) \div Spot)
    BY <2>1
  <2> HIDE DEF price
  <2> QED  BY <1>3, <2>2, <2>3
<1>7. carbon \in Int
  <2> DEFINE c == CarbonFootprint(s, req.quantity)
             q == req.quantity
             more == Core(t)!Most(q, 1)
  <2>1. \A u, x, y : Core(u)!ScoreCarbon(x, y)
                       = Core(u)!Most(0, 100 - (100 * x) \div (Core(u)!Most(y, 1) * Baseline))
    BY DEF Core!ScoreCarbon
  <2>2. carbon = Core(t)!Most(0, 100 - (100 * c) \div (more * Baseline))
    BY <2>1
  <2>3. more \in Nat \ {0}
    <3>1. \A u, x, y : Core(u)!Most(x, y) = IF x >= y THEN x ELSE y
      BY DEF Core!Most
    <3> QED  BY <1>1, <3>1
  <2>4. c \in Int
    BY <1>1, <1>2, TimesNat DEF CarbonFootprint
  <2> HIDE DEF carbon, c, more
  <2>5. more * Baseline \in Nat \ {0} /\ 100 * c \in Int
    BY <1>2, <2>3, <2>4, PositiveProduct
  <2>6. 100 - (100 * c) \div (more * Baseline) \in Int
    <3> DEFINE d == more * Baseline
    <3>1. d \in Nat \ {0}
      BY <2>5
    <3> HIDE DEF d
    <3>2. (100 * c) \div d \in Int
      BY <2>5, <3>1, Divides
    <3>3. 100 - (100 * c) \div d \in Int
      BY <3>2
    <3> QED  BY <3>3 DEF d
  <2> QED  BY <1>3, <2>2, <2>6
<1>8. good \in Int
  <2>1. good = (25 * lead + 15 * Template[s].reliability) \div 40
    BY DEF Quality
  <2> HIDE DEF lead, good
  <2>2. 25 * lead + 15 * Template[s].reliability \in Int
    BY <1>2, <1>5
  <2> QED  BY <2>1, <2>2, Divides
<1>9. w[1] \in Int /\ w[2] \in Int /\ w[3] \in Int
  BY DEF Weights
<1>10. EvaluationScore(s, strategy, req)
         = IF base + History[s] < 0 THEN 0 ELSE IF base + History[s] > 10000 THEN 10000 ELSE base + History[s]
  BY DEF EvaluationScore
<1>11. base \in Int
  <2> HIDE DEF price, good, carbon, w
  <2> QED  BY <1>6, <1>7, <1>8, <1>9
<1> HIDE DEF base
<1> QED  BY <1>2, <1>10, <1>11

(***************************************************************************)
(* The quotes of a request: when there are as many as suppliers, there is  *)
(* one of each.                                                            *)
(***************************************************************************)
LEMMA PoolSize == IsFiniteSet(Suppliers) /\ Cardinality(Suppliers) = Len(Pool)
<1>1. DOMAIN Pool = 1 .. Len(Pool) /\ Len(Pool) \in Nat /\ Len(Pool) > 0 /\ IsInjective(Pool)
  BY PoolAssumption
<1>2. Pool \in [1 .. Len(Pool) -> Suppliers]
  BY <1>1, PoolAssumption DEF Suppliers
<1>3. Pool \in Bijection(1 .. Len(Pool), Suppliers)
  BY <1>1, <1>2 DEF Bijection, Injection, Surjection, IsInjective, Suppliers
<1>4. IsFiniteSet(1 .. Len(Pool)) /\ Cardinality(1 .. Len(Pool)) = Len(Pool)
  BY <1>1, FS_Interval
<1> QED  BY <1>3, <1>4, FS_Bijection DEF ExistsBijection

LEMMA QuotesFound ==
    ASSUME LoopInv, Offers, NEW cor
    PROVE  /\ IsFiniteSet(Find("quote", cor))
           /\ Count("quote", cor) >= Len(Pool) => AllQuoted(cor)
           /\ AllQuoted(cor) => Count("quote", cor) = Len(Pool)
<1> DEFINE F == Find("quote", cor)
           f == [i \in F |-> art[i].sup]
<1>1. \A i \in F : i \in DOMAIN art /\ art[i].kind = "quote" /\ art[i].cor = cor
  BY DEF Find
<1>2. f \in Injection(F, Suppliers)
  <2>1. \A i \in F : art[i].sup \in Suppliers
    BY <1>1 DEF Offers
  <2>2. \A i, j \in F : art[i].sup = art[j].sup => i = j
    BY <1>1 DEF Offers
  <2> QED  BY <2>1, <2>2 DEF Injection, IsInjective
<1>3. AllQuoted(cor) <=> f \in Surjection(F, Suppliers)
  <2>1. f \in [F -> Suppliers]
    BY <1>2 DEF Injection
  <2>2. \A s : Has(art, "quote", cor, s) <=> \E i \in F : f[i] = s
    BY DEF Has, Find
  <2> QED  BY <2>1, <2>2 DEF Surjection, AllQuoted
<1> HIDE DEF f, F
<1>4. /\ IsFiniteSet(F) /\ Cardinality(F) <= Cardinality(Suppliers)
      /\ Cardinality(F) = Cardinality(Suppliers) <=> f \in Surjection(F, Suppliers)
  BY <1>2, PoolSize, FS_Injection
<1>5. Cardinality(F) \in Nat /\ Cardinality(Suppliers) = Len(Pool) /\ Cardinality(Suppliers) \in Nat
  BY <1>4, PoolSize, FS_CardinalityType
<1>6. Count("quote", cor) = Cardinality(F)
  BY DEF Count, F
<1>7. IsFiniteSet(Find("quote", cor))
  BY <1>4 DEF F
<1> QED  BY <1>3, <1>4, <1>5, <1>6, <1>7

LEMMA QuotesCover ==
    ASSUME LoopInv, Offers, NEW cor, AllQuoted(cor) PROVE IsFiniteSet(Quotes(cor)) /\ Covers(Quotes(cor))
<1> DEFINE F == Find("quote", cor)
           score(i) == IF Known("evaluation", art[i].sup)
                       THEN Get("evaluation", art[i].sup).data.score ELSE 0
           quote(i) == [place |-> i, supplier |-> art[i].sup, price |-> art[i].data.price,
                        carbon |-> art[i].data.carbon, score |-> score(i)]
           f == [i \in F |-> quote(i)]
<1>1. Quotes(cor) = {quote(i) : i \in F}
  BY DEF Quotes
<1>2. \A i \in F : quote(i).place = i /\ quote(i).supplier = art[i].sup
  OBVIOUS
<1> HIDE DEF quote
<1>3. f \in Bijection(F, Quotes(cor))
  BY <1>1, <1>2 DEF Bijection, Injection, Surjection, IsInjective
<1>4. IsFiniteSet(F) /\ Cardinality(F) = Len(Pool)
  BY QuotesFound DEF Count
<1>5. IsFiniteSet(Quotes(cor)) /\ Cardinality(Quotes(cor)) = Len(Pool)
  <2> HIDE DEF f, F
  <2> QED  BY <1>3, <1>4, FS_Bijection DEF ExistsBijection
<1>6. {q.supplier : q \in Quotes(cor)} = Suppliers
  <2>1. \A i \in F : art[i].sup \in Suppliers
    BY DEF Offers, Find
  <2>2. \A s \in Suppliers : \E i \in F : art[i].sup = s
    BY DEF AllQuoted, Has, Find
  <2> HIDE DEF F
  <2> QED  BY <1>1, <1>2, <2>1, <2>2
<1> QED  BY <1>5, <1>6 DEF Covers

(***************************************************************************)
(* The explanation gives a reason for every supplier but the winner: of    *)
(* two quotes one comes before the other, so that each has a rank.         *)
(***************************************************************************)
Orderly(Q) ==
    /\ \A q \in Q : q.place \in Nat /\ q.score \in Int /\ q.price \in Int
    /\ \A p, q \in Q : p.place = q.place => p = q

LEMMA QuotesOrderly ==
    ASSUME LoopInv, Stocked, NEW cor PROVE Orderly(Quotes(cor))
<1> DEFINE F == Find("quote", cor)
           score(i) == IF Known("evaluation", art[i].sup)
                       THEN Get("evaluation", art[i].sup).data.score ELSE 0
           quote(i) == [place |-> i, supplier |-> art[i].sup, price |-> art[i].data.price,
                        carbon |-> art[i].data.carbon, score |-> score(i)]
<1>1. Quotes(cor) = {quote(i) : i \in F}
  BY DEF Quotes
<1>2. \A i \in F : i \in Nat /\ art[i].data.price \in Int
  <2>1. \A i \in F : i \in DOMAIN art /\ art[i].kind = "quote"
    BY DEF Find
  <2>2. DOMAIN art \subseteq Nat
    BY DEF LoopInv, Typed, Listed
  <2> QED  BY <2>1, <2>2 DEF Stocked, ArtifactOk
<1>3. \A i : score(i) \in Int
  <2>1. ASSUME NEW sup, Known("evaluation", sup) PROVE Get("evaluation", sup).data.score \in Int
    <3>1. PICK i \in DOMAIN art : art[i].kind = "evaluation" /\ Get("evaluation", sup) = art[i]
      BY <2>1, GetOne
    <3> QED  BY <3>1 DEF Stocked, ArtifactOk
  <2> QED  BY <2>1
<1> HIDE DEF score
<1>4. \A i : quote(i).place = i /\ quote(i).price = art[i].data.price /\ quote(i).score = score(i)
  OBVIOUS
<1> HIDE DEF quote, F
<1>5. \A q \in Quotes(cor) : q.place \in Nat /\ q.score \in Int /\ q.price \in Int
  BY <1>1, <1>2, <1>3, <1>4
<1>6. \A p, q \in Quotes(cor) : p.place = q.place => p = q
  BY <1>1, <1>4
<1> QED  BY <1>5, <1>6 DEF Orderly

LEMMA BeforeIsOrder ==
    ASSUME NEW Q, Orderly(Q)
    PROVE  /\ \A p \in Q : ~Before(p, p)
           /\ \A p, q \in Q : p # q => Before(p, q) \/ Before(q, p)
           /\ \A o, p, q \in Q : Before(o, p) /\ Before(p, q) => Before(o, q)
<1>1. \A q \in Q : q.place \in Nat /\ q.score \in Int /\ q.price \in Int
  BY DEF Orderly
<1>2. ASSUME NEW p \in Q PROVE ~Before(p, p)
  BY <1>1 DEF Before
<1>3. ASSUME NEW p \in Q, NEW q \in Q, p # q PROVE Before(p, q) \/ Before(q, p)
  <2>1. p.place # q.place
    BY <1>3 DEF Orderly
  <2> QED  BY <1>1, <2>1 DEF Before
<1>4. ASSUME NEW o \in Q, NEW p \in Q, NEW q \in Q, Before(o, p), Before(p, q) PROVE Before(o, q)
  BY <1>1, <1>4 DEF Before
<1> QED  BY <1>2, <1>3, <1>4

LEMMA RejectedAll ==
    ASSUME NEW quotes, IsFiniteSet(quotes), Orderly(quotes), NEW winner
    PROVE  Range(Rejected(quotes, winner)) = {q.supplier : q \in quotes} \ {winner}
<1> DEFINE lost == {q \in quotes : q.supplier # winner}
           Ahead(q) == {p \in lost : Before(p, q)}
           card == Cardinality(lost)
           place == [q \in lost |-> Cardinality(Ahead(q)) + 1]
<1>1. IsFiniteSet(lost) /\ lost \subseteq quotes
  <2>1. lost \in SUBSET quotes
    OBVIOUS
  <2> HIDE DEF lost
  <2> QED  BY <2>1, FS_Subset
<1>2. /\ \A p \in lost : ~Before(p, p)
      /\ \A p, q \in lost : p # q => Before(p, q) \/ Before(q, p)
      /\ \A o, p, q \in lost : Before(o, p) /\ Before(p, q) => Before(o, q)
  <2> HIDE DEF lost
  <2> QED  BY <1>1, BeforeIsOrder
<1>3. Rejected(quotes, winner)
        = [n \in 1 .. card |-> (CHOOSE q \in lost : Cardinality(Ahead(q)) + 1 = n).supplier]
  BY DEF Rejected
<1>4. {q.supplier : q \in quotes} \ {winner} = {q.supplier : q \in lost}
  OBVIOUS
<1> HIDE DEF lost
<1>5. card \in Nat
  BY <1>1, FS_CardinalityType
<1>6. ASSUME NEW i \in lost
      PROVE  IsFiniteSet(Ahead(i)) /\ Cardinality(Ahead(i)) \in 0..(card - 1)
  <2>1. Ahead(i) \in SUBSET (lost \ {i})
    BY <1>2
  <2>2. IsFiniteSet(lost \ {i}) /\ Cardinality(lost \ {i}) = card - 1
    BY <1>1, FS_RemoveElement
  <2>3. IsFiniteSet(Ahead(i)) /\ Cardinality(Ahead(i)) <= card - 1
    <3> HIDE DEF Ahead
    <3> QED  BY <2>1, <2>2, FS_Subset
  <2>4. Cardinality(Ahead(i)) \in Nat
    BY <2>3, FS_CardinalityType
  <2> QED  BY <1>5, <2>3, <2>4
<1>7. ASSUME NEW i \in lost, NEW k \in lost, Before(i, k) PROVE Cardinality(Ahead(i)) # Cardinality(Ahead(k))
  <2>1. Ahead(i) \in SUBSET Ahead(k) /\ i \notin Ahead(i) /\ i \in Ahead(k)
    BY <1>2, <1>7
  <2>2. IsFiniteSet(Ahead(k))
    BY <1>6
  <2> HIDE DEF Ahead
  <2> QED  BY <2>1, <2>2, FS_Subset
<1>8. place \in Injection(lost, 1 .. card)
  <2> HIDE DEF Ahead
  <2>1. \A q \in lost : Cardinality(Ahead(q)) + 1 \in 1 .. card
    BY <1>5, <1>6
  <2>2. \A i, k \in lost : Cardinality(Ahead(i)) + 1 = Cardinality(Ahead(k)) + 1 => i = k
    <3>1. \A i, k \in lost : i # k => Cardinality(Ahead(i)) # Cardinality(Ahead(k))
      BY <1>2, <1>7
    <3>2. \A i \in lost : Cardinality(Ahead(i)) \in Int
      BY <1>6
    <3> QED  BY <3>1, <3>2
  <2> QED  BY <2>1, <2>2 DEF Injection, IsInjective
<1>9. IsFiniteSet(1 .. card) /\ Cardinality(1 .. card) = card
  <2> HIDE DEF card
  <2>1. IsFiniteSet(1 .. card) /\ Cardinality(1 .. card) = IF 1 > card THEN 0 ELSE card - 1 + 1
    BY <1>5, FS_Interval
  <2> QED  BY <1>5, <2>1
<1>10. place \in Surjection(lost, 1 .. card)
  <2> HIDE DEF place
  <2> QED  BY <1>8, <1>9, FS_Injection
<1>11. \A n \in 1 .. card : \E q \in lost : Cardinality(Ahead(q)) + 1 = n
  BY <1>10 DEF Surjection
<1>12. \A q \in lost : Cardinality(Ahead(q)) + 1 \in 1 .. card
  BY <1>8 DEF Injection
<1>13. \A i, k \in lost : Cardinality(Ahead(i)) + 1 = Cardinality(Ahead(k)) + 1 => i = k
  BY <1>8 DEF Injection, IsInjective
<1> HIDE DEF Ahead, card
<1> DEFINE pick(n) == CHOOSE q \in lost : Cardinality(Ahead(q)) + 1 = n
<1>14. \A n \in 1 .. card : pick(n) \in lost /\ Cardinality(Ahead(pick(n))) + 1 = n
  BY <1>11
<1>15. \A q \in lost : \E n \in 1 .. card : pick(n) = q
  <2> SUFFICES ASSUME NEW q \in lost PROVE pick(Cardinality(Ahead(q)) + 1) = q
    BY <1>12
  <2>1. Cardinality(Ahead(q)) + 1 \in 1 .. card
    BY <1>12
  <2> DEFINE n == Cardinality(Ahead(q)) + 1
  <2>2. pick(n) \in lost /\ Cardinality(Ahead(pick(n))) + 1 = n
    BY <1>14, <2>1
  <2> HIDE DEF pick
  <2> QED  BY <1>13, <2>2
<1>16. Rejected(quotes, winner) = [n \in 1 .. card |-> pick(n).supplier]
  BY <1>3
<1> HIDE DEF pick
<1>17. Range(Rejected(quotes, winner)) = {pick(n).supplier : n \in 1 .. card}
  BY <1>16 DEF Range
<1>18. {pick(n).supplier : n \in 1 .. card} = {q.supplier : q \in lost}
  BY <1>14, <1>15
<1> QED  BY <1>4, <1>17, <1>18

(***************************************************************************)
(* A step of a request that says something of it.                          *)
(***************************************************************************)
LEMMA CompleteElse ==
    ASSUME LoopInv, NEW cor, closed' = closed,
           art' = art \/ \E a : a.cor = cor /\ art' = Append(art, a),
           \A i \in DOMAIN expect' : expect'[i].cor # cor => \E j \in DOMAIN expect : expect[j] = expect'[i],
           NEW pair \in Requests \X {"evaluation", "quote"}, pair[1] # cor, Complete(pair)'
    PROVE  Complete(pair)
<1>1. Count(pair[2], pair[1])' = Count(pair[2], pair[1])
  <2>1. CASE art' = art
    BY <2>1 DEF Count, Find
  <2>2. ASSUME NEW a, a.cor = cor, art' = Append(art, a) PROVE Count(pair[2], pair[1])' = Count(pair[2], pair[1])
    <3>1. Listed(art)
      BY DEF LoopInv, Typed
    <3> QED  BY <2>2, <3>1, CountOne
  <2> QED  BY <2>1, <2>2
<1>2. PICK i \in DOMAIN expect' : expect'[i].cor = pair[1] /\ Count(pair[2], pair[1])' >= expect'[i].count
  BY DEF Complete
<1>3. PICK j \in DOMAIN expect : expect[j] = expect'[i]
  BY <1>2
<1>4. pair \notin closed
  BY DEF Complete
<1> QED  BY <1>1, <1>2, <1>3, <1>4 DEF Complete

LEMMA OwnSays ==
    ASSUME LoopInv, SerialInv, Steps, ~Me.e.replayed, Me.h \notin {"recorder", "client"},
           NEW type \in Types, NEW sup \in Suppliers \cup {NoSup}, NEW rest, RestOk(Me.h, rest, sent),
           Say(type, Me.e.cor, sup, rest), UNCHANGED <<events, sent, answered>>,
           \A pair \in Requests \X {"evaluation", "quote"} :
               pair[1] # Me.e.cor /\ Complete(pair)' => Complete(pair)
    PROVE  \E e : /\ e.type = type /\ e.cor = Me.e.cor /\ e.sup = sup /\ ~e.replayed
                  /\ Turn({Now}, {Now}, Handlers(type), e)
                  /\ Now \in DOMAIN tasks' /\ tasks'[Now].rest = rest /\ tasks'[Now].e = Me.e
                  /\ OneCall(tasks') /\ Watched'
<1>1. Now \in DOMAIN tasks /\ Me = tasks[Now] /\ Me.e.cor \in sent
  BY Mine
<1> DEFINE cor == Me.e.cor
<1>2. PICK e : /\ Speaks(e, rest) /\ e.type = type /\ e.cor = cor /\ ~e.replayed
               /\ e = Event(type, cor, sup)
  <2>1. cor \in sent /\ Say(type, cor, sup, rest)
    BY <1>1
  <2> HIDE DEF cor
  <2> QED  BY <2>1, SaySpeaks
<1>3. e.sup = sup
  BY <1>2 DEF Event
<1>4. /\ Turn({Now}, {Now}, Handlers(type), e) /\ Now \in DOMAIN tasks' /\ tasks'[Now].rest = rest
      /\ Now \in DOMAIN tasks
  BY <1>2, TurnSpeaks DEF Ears
<1>5. tasks'[Now].e = Me.e
  BY <1>1, <1>4 DEF Turn
<1>6. OneCall(tasks')
  BY <1>2, OneCallSpeaks, SerialParts
<1>7. Watched'
  <2>1. "tracker" \in Handlers(type)
    BY WhoHears
  <2>2. \A t \in {Now} : e.cor = tasks[t].e.cor
    BY <1>1, <1>2
  <2>3. \A pair \in Requests \X {"evaluation", "quote"} : Complete(pair)' =>
            Complete(pair) \/ ("tracker" \in Handlers(type) /\ e.cor = pair[1])
    BY <1>2, <2>1
  <2> QED  BY <1>4, <2>1, <2>2, <2>3, WatchedTurn, SerialParts
<1> QED  BY <1>2, <1>3, <1>4, <1>5, <1>6, <1>7

LEMMA LaterSerial == ASSUME LoopInv, SerialInv, LaterStep PROVE SerialInv'
<1> DEFINE n == IF Me.e.type = "DecisionMade" THEN 0 ELSE CHOOSE k \in DOMAIN Later : Later[k] = Me.e.type
<1>1. /\ Steps /\ Me.h = "later" /\ ~Me.e.replayed
      /\ \/ n < Len(Later) /\ Say(Later[n + 1], Me.e.cor, NoSup, <<>>)
         \/ Finish /\ log' = log
      /\ UNCHANGED <<events, art, expect, closed, agent, sent, answered>>
  BY DEF LaterStep, Return, Started, Running
<1>2. Now \in DOMAIN tasks /\ Me = tasks[Now]
  BY <1>1, Mine
<1>3. Now \notin Concerned
  BY <1>1, <1>2, Bystanders DEF Tracked
<1>4. Quiet
  BY <1>1, QuietPut
<1>5. PICK a : Grown(a) /\ a.kind \notin Products
  BY <1>1, NoArtifact
<1>6. CASE Finish /\ log' = log
  <2>1. Ends
    BY <1>1, <1>6, EndsOk
  <2>2. Turn({Now}, {}, {}, 0)
    BY <2>1, TurnEnds
  <2>3. Pending'
    BY <1>1, <1>2, <2>2, PendingTurn, SerialParts
  <2> QED  BY <1>1, <1>3, <1>4, <1>5, <2>1, <2>3, CalmEnds
<1>7. CASE n < Len(Later) /\ Say(Later[n + 1], Me.e.cor, NoSup, <<>>)
  <2>1. Later[n + 1] \in Range(Later)
    <3> HIDE DEF n
    <3>1. n = IF Me.e.type = "DecisionMade" THEN 0 ELSE CHOOSE k \in DOMAIN Later : Later[k] = Me.e.type
      BY DEF n
    <3> QED  BY <1>1, <1>7, <3>1, LaterStage
  <2> DEFINE type == Later[n + 1]
  <2>2. type \in Types /\ type \notin Sourced /\ Say(type, Me.e.cor, NoSup, <<>>)
    BY <1>7, <2>1, LaterAssumption DEF Types
  <2> HIDE DEF n, type
  <2>3. RestOk(Me.h, <<>>, sent) /\ NoSup \in Suppliers \cup {NoSup}
    BY <1>1 DEF RestOk, Lists
  <2>4. \A pair \in Requests \X {"evaluation", "quote"} : Complete(pair)' => Complete(pair)
    BY <1>1, <1>4, CompleteSame
  <2>5. PICK e : /\ Turn({Now}, {Now}, Handlers(type), e) /\ OneCall(tasks') /\ Watched'
    BY <1>1, <2>2, <2>3, <2>4, OwnSays
  <2>6. Pending'
    BY <1>1, <1>2, <2>5, PendingTurn, SerialParts
  <2>7. /\ Handlers(type) \cap {"requirement", "discovery", "evaluation", "negotiation", "decision"} = {}
        /\ "strategy" \notin Handlers(type)
    BY <2>2, WhoHears DEF Sourced
  <2>8. /\ {Now} \cap Concerned = {} /\ \A t \in {Now} : tasks[t].h \notin {"discovery", "decision"}
    BY <1>1, <1>2, <1>3
  <2> QED  BY <1>1, <1>5, <2>5, <2>6, <2>7, <2>8, CalmStep
<1> QED  BY <1>1, <1>6, <1>7

(***************************************************************************)
(* From the message to the pool.                                           *)
(***************************************************************************)
\* One step hands the request to the next.
LEMMA StartMoves ==
    ASSUME LoopInv, SerialInv, Now \in Starts(tasks), Me.h \in {"requirement", "strategy"},
           NEW W \in SUBSET {Now}, NEW H, NEW e, Turn({Now}, W, H, e), e.cor = Me.e.cor,
           H \cap {"evaluation", "negotiation", "decision"} = {},
           NEW next, Starts(tasks') = next, \A t \in next : tasks'[t].e = e, \A t, u \in next : t = u,
           next = {} => ~Wanted(Me.e.cor),
           KeptA(Products), agent'.discovery = agent.discovery, agent'.decision = agent.decision,
           expect' = expect, closed' = closed, sent' = sent
    PROVE  Settled'
<1>1. Chain /\ Evals /\ Offers /\ Decides /\ Explains /\ Progress /\ Listed(art)
  BY SerialParts DEF LoopInv, Typed
<1>2. /\ Starts(tasks) = {Now} /\ Paused(tasks, "discovery") = {}
      /\ Untouched(Me.e.cor) /\ Unheard(tasks, "evaluation") = {} /\ Unheard(tasks, "negotiation") = {}
  <2>1. Now \notin Paused(tasks, "discovery")
    BY DEF Starts, Unheard, Paused
  <2> QED  BY <1>1, <2>1 DEF Chain, Me
<1>3. /\ KeptU("evaluation") /\ KeptU("negotiation") /\ KeptU("decision")
      /\ KeptP("discovery") /\ KeptP("decision")
  <2>1. {"evaluation", "negotiation", "decision", "discovery"} \subseteq Tracked
    BY DEF Tracked
  <2>2. /\ \A h : h # Me.h => Now \notin Unheard(tasks, h) /\ Now \notin Paused(tasks, h)
        /\ \A t \in W : tasks[t].h = Me.h
    BY DEF Unheard, Paused, Me
  <2>3. \A h \in {"evaluation", "negotiation", "decision"} :
            Unheard(tasks, h) \cap {Now} = {} /\ h \notin H /\ h \in Tracked
    BY <2>1, <2>2
  <2>4. \A h \in {"discovery", "decision"} :
            {Now} \cap Paused(tasks, h) = {} /\ (\A t \in W : tasks[t].h # h) /\ h \in Tracked
    BY <2>1, <2>2
  <2> QED  BY <2>3, <2>4, TurnKeepsU, TurnKeepsP
<1>4. /\ KeptA({"evaluation"}) /\ KeptA({"quote"})
      /\ KeptA({"decision"}) /\ KeptA({"decision", "decision_explanation"})
  <2>1. /\ {"evaluation"} \subseteq Products /\ {"quote"} \subseteq Products
        /\ {"decision"} \subseteq Products /\ {"decision", "decision_explanation"} \subseteq Products
    BY DEF Products
  <2> QED  BY <2>1, KeptFewer
<1>5. Evals' /\ Offers' /\ Decides' /\ Explains'
  BY <1>1, <1>3, <1>4, EvalsKept, OffersKept, DecidesKept, ExplainsKept
<1>6. Chain'
  <2>1. \A t \in Starts(tasks') : \A i \in DOMAIN art' :
            art'[i].cor = tasks'[t].e.cor => art'[i].kind \notin Products
    BY <1>2 DEF Untouched, KeptA
  <2>2. /\ Unheard(tasks', "evaluation") = {} /\ Unheard(tasks', "negotiation") = {}
        /\ Paused(tasks', "discovery") = {}
    BY <1>2, <1>3 DEF KeptU, KeptP
  <2>3. \A r \in agent'.discovery.done : Has(art', "supplier_list", r, NoSup)
    BY <1>1, HasStays DEF Chain
  <2> QED  BY <2>1, <2>2, <2>3 DEF Chain, Untouched
<1>7. Progress'
  <2>1. /\ \A q \in sent : Wanted(q) => UnderWay(q)
        /\ \A q \in Requests : <<q, "quote">> \in closed => ToDecide(q)
    BY <1>1, ProgressIs
  <2>2. \A kind, cor, sup : Has(art, kind, cor, sup) => Has(art', kind, cor, sup)
    BY HasStays
  <2>3. \A q, s : OnItsWay(q, s) => OnItsWay(q, s)'
    BY <1>3, <2>2, OnItsWayKept
  <2>4. ASSUME NEW q \in sent, Wanted(q) PROVE UnderWay(q)'
    <3>1. CASE q = Me.e.cor
      <4>1. \E t \in Starts(tasks') : tasks'[t].e.cor = q
        BY <2>4, <3>1
      <4> QED  BY <4>1 DEF UnderWay
    <3>2. CASE q # Me.e.cor
      <4>1. /\ \E i \in DOMAIN expect : expect[i].cor = q
            /\ \A s \in Suppliers : OnItsWay(q, s)
        BY <1>2, <2>1, <2>4, <3>2 DEF UnderWay, Me
      <4> QED  BY <2>3, <4>1 DEF UnderWay
    <3> QED  BY <3>1, <3>2
  <2>5. \A q : ToDecide(q) => ToDecide(q)'
    BY <1>3, <2>2, ToDecideKept
  <2> QED  BY <2>1, <2>4, <2>5 DEF Progress, Wanted, UnderWay, ToDecide
<1> QED  BY <1>5, <1>6, <1>7 DEF Settled

LEMMA StockedMore ==
    ASSUME Stocked, sent \subseteq sent', \A i \in DOMAIN art : i \in DOMAIN art' /\ art'[i] = art[i],
           \A i \in DOMAIN art' \ DOMAIN art : ArtifactOk(art'[i]),
           \A i \in DOMAIN art' \ DOMAIN art : art'[i].kind \in Products =>
               art'[i].cor \in sent' /\ Known("requirement", NoSup)' /\ Known("strategy", NoSup)',
           \A t \in Starts(tasks') :
               /\ tasks'[t].h # "requirement" => Known("requirement", NoSup)'
               /\ tasks'[t].h = "discovery" => Known("strategy", NoSup)',
           \A t \in Unheard(tasks', "strategy") : tasks'[t].e.type = "QuotesCompleted" =>
               \/ Known("requirement", NoSup)' /\ Known("strategy", NoSup)'
               \/ t \in Unheard(tasks, "strategy") /\ tasks'[t].e = tasks[t].e
    PROVE  Stocked'
<1>1. \A kind : Known(kind, NoSup) => Known(kind, NoSup)'
  BY DEF Known, Named
<1>2. \A i \in DOMAIN art' : ArtifactOk(art'[i])
  BY DEF Stocked
<1>3. \A t \in Unheard(tasks', "strategy") :
          tasks'[t].e.type = "QuotesCompleted" => Known("requirement", NoSup)' /\ Known("strategy", NoSup)'
  BY <1>1 DEF Stocked
<1>4. \A i \in DOMAIN art' : art'[i].kind \in Products =>
          /\ art'[i].cor \in sent'
          /\ Known("requirement", NoSup)' /\ Known("strategy", NoSup)'
  BY <1>1 DEF Stocked
<1> QED  BY <1>2, <1>3, <1>4 DEF Stocked

\* A step before the pool that puts in its artifact and says so.
LEMMA StartSays ==
    ASSUME LoopInv, SerialInv, Steps, Now \in Starts(tasks), Me.h \in {"requirement", "strategy"},
           NEW type, NEW heir,
           \/ type = "RequirementCreated" /\ heir = "strategy"
           \/ type = "StrategySelected" /\ heir = "discovery" /\ Known("strategy", NoSup)',
           Say(type, Me.e.cor, NoSup, <<>>), NEW a, art' = Append(art, a),
           a.kind \in {"requirement", "strategy"}, ArtifactOk(a), Known("requirement", NoSup)',
           agent'.discovery = agent.discovery, agent'.decision = agent.decision,
           UNCHANGED <<events, expect, closed, sent, answered>>
    PROVE  /\ OneCall(tasks') /\ Watched' /\ Stocked' /\ Settled'
           /\ Paused(tasks', "requirement") = (Paused(tasks, "requirement") \ {Now})
                                                \cup {t \in {Now} : tasks[t].h = "requirement"}
           /\ \A t \in DOMAIN tasks \cap DOMAIN tasks' : tasks'[t].e = tasks[t].e
<1>1. Now \in DOMAIN tasks /\ Me = tasks[Now] /\ Me.e.cor \in sent
  BY Mine
<1>2. /\ ~Me.e.replayed /\ ~Me.resumed
  BY <1>1 DEF Starts, Unheard
<1>3. Quiet
  BY QuietPut
<1>4. /\ type \in Types /\ NoSup \in Suppliers \cup {NoSup} /\ RestOk(Me.h, <<>>, sent)
  BY DEF Types, Sourced, RestOk, Lists
<1>5. \A pair \in Requests \X {"evaluation", "quote"} : Complete(pair)' => Complete(pair)
  BY <1>3, CompleteSame
<1>6. PICK e : /\ e.type = type /\ e.cor = Me.e.cor /\ ~e.replayed
               /\ Turn({Now}, {Now}, Handlers(type), e) /\ OneCall(tasks') /\ Watched'
  BY <1>2, <1>4, <1>5, OwnSays
<1>7. /\ Handlers(type) \cap {"evaluation", "negotiation", "decision", "requirement"} = {}
      /\ heir \in Handlers(type)
      /\ "discovery" \in Handlers(type) <=> heir = "discovery"
      /\ "strategy" \in Handlers(type) <=> heir = "strategy"
  BY <1>4, WhoHears
<1>8. Grown(a)
  BY GrownOne DEF LoopInv, Typed
<1>9. KeptA(Products)
  <2>1. a.kind \notin Products
    BY DEF Products
  <2> QED  BY <1>8, <2>1, GrownKeeps
<1>10. Starts(tasks) = {Now}
  BY SerialParts DEF Chain
<1>11. /\ Fresh("requirement") = {}
       /\ Fresh("discovery") = IF heir = "discovery" THEN Fresh(heir) ELSE {}
       /\ Beginning(e) = IF heir = "strategy" THEN Fresh(heir) ELSE {}
  BY <1>6, <1>7 DEF Turn, Tracked, Beginning
<1>12. /\ Starts(tasks') = Fresh(heir) /\ Fresh(heir) # {} /\ \A t, u \in Fresh(heir) : t = u
       /\ \A t \in Fresh(heir) : tasks'[t].e = e /\ tasks'[t].h = heir
  <2>1. Starts(tasks') = (Starts(tasks) \ {Now}) \cup Fresh("requirement")
                           \cup Fresh("discovery") \cup Beginning(e)
    BY <1>6, TurnStarts
  <2>2. heir \in Tracked
    BY DEF Tracked
  <2>3. \E n : Fresh(heir) = {n}
    BY <1>6, <1>7, <2>2 DEF Turn
  <2>4. \A t \in Fresh(heir) : tasks'[t].e = e /\ tasks'[t].h = heir
    BY <1>6, <2>2, TurnUnheard
  <2> QED  BY <1>10, <1>11, <2>1, <2>3, <2>4
<1>13. Settled'
  <2> DEFINE next == Fresh(heir)
             H == Handlers(type)
             W == {Now}
  <2>1. /\ Starts(tasks') = next /\ next # {} /\ \A t \in next : tasks'[t].e = e
        /\ \A t, u \in next : t = u
    BY <1>12
  <2>2. Turn({Now}, W, H, e) /\ H \cap {"evaluation", "negotiation", "decision"} = {} /\ W \in SUBSET {Now}
    BY <1>6, <1>7
  <2> HIDE DEF next, H, W
  <2> QED  BY <1>6, <1>9, <2>1, <2>2, StartMoves
<1>14. Stocked'
  <2>1. \A t \in Starts(tasks') : /\ tasks'[t].h # "requirement" => Known("requirement", NoSup)'
                                  /\ tasks'[t].h = "discovery" => Known("strategy", NoSup)'
    BY <1>12
  <2>2. /\ Unheard(tasks', "strategy") = (Unheard(tasks, "strategy") \ {Now}) \cup Fresh("strategy")
        /\ \A t \in Unheard(tasks, "strategy") \ {Now} : tasks'[t].e = tasks[t].e
        /\ \A t \in Fresh("strategy") : tasks'[t].e = e
    BY <1>6, TurnUnheard DEF Tracked
  <2>3. \A t \in Unheard(tasks', "strategy") : tasks'[t].e.type = "QuotesCompleted" =>
            t \in Unheard(tasks, "strategy") /\ tasks'[t].e = tasks[t].e
    BY <1>6, <2>2
  <2>4. \A i \in DOMAIN art' \ DOMAIN art : art'[i] = a /\ art'[i].kind \notin Products
    BY <1>8 DEF Grown, Products
  <2>5. \A i \in DOMAIN art : i \in DOMAIN art' /\ art'[i] = art[i]
    BY <1>9 DEF KeptA
  <2> QED  BY <2>1, <2>3, <2>4, <2>5, StockedMore, SerialParts
<1>15. /\ Paused(tasks', "requirement") = (Paused(tasks, "requirement") \ {Now})
                                            \cup {t \in {Now} : tasks[t].h = "requirement"}
       /\ \A t \in DOMAIN tasks \cap DOMAIN tasks' : tasks'[t].e = tasks[t].e
  BY <1>6 DEF Turn, Tracked
<1> QED  BY <1>6, <1>13, <1>14, <1>15

LEMMA KnownPut ==
    ASSUME LoopInv, NEW a, art' = Append(art, a) PROVE Known(a.kind, a.sup)'
<1>1. Len(art) + 1 \in DOMAIN art' /\ art'[Len(art) + 1] = a
  BY GrownOne DEF LoopInv, Typed, Grown
<1> QED  BY <1>1 DEF Known, Named

LEMMA RequirementSerial == ASSUME LoopInv, SerialInv, RequirementStep PROVE SerialInv'
<1> DEFINE mine == IF Payload[Me.e.cor].intent = "create"
                   THEN [pending |-> TRUE, cor |-> Me.e.cor] ELSE agent.requirement
<1>1. /\ Steps /\ Me.h = "requirement" /\ ~Me.resumed /\ ~Me.e.replayed
      /\ agent' = [agent EXCEPT !.requirement = mine]
      /\ IF mine.pending /\ Payload[mine.cor].valid
         THEN /\ Put(Artifact("requirement", mine.cor, NoSup, <<>>))
              /\ Say("RequirementCreated", mine.cor, NoSup, <<>>)
         ELSE Finish /\ log' = log /\ art' = art
      /\ UNCHANGED <<events, expect, closed, sent, answered>>
  BY DEF RequirementStep, Return, Started, Running
<1>2. Now \in DOMAIN tasks /\ Me = tasks[Now] /\ Me.e.cor \in sent /\ sent \subseteq Requests
  BY <1>1, Mine DEF LoopInv, Typed
<1>3. Now \in Starts(tasks)
  BY <1>1, <1>2 DEF Starts, Unheard
<1>4. /\ agent'.discovery = agent.discovery /\ agent'.decision = agent.decision
      /\ agent'.requirement = mine
  <2>1. AgentOk(agent, sent)
    BY DEF LoopInv, Typed
  <2> QED  BY <1>1, <2>1 DEF AgentOk
<1>5. ASSUME mine.pending, Payload[mine.cor].valid
      PROVE  mine.cor = Me.e.cor /\ Payload[Me.e.cor].intent = "create"
  <2>1. SUFFICES ASSUME Payload[Me.e.cor].intent # "create" PROVE FALSE
    OBVIOUS
  <2>2. agent.requirement.pending /\ Payload[agent.requirement.cor].valid
    BY <1>5, <2>1
  <2>3. /\ Payload[agent.requirement.cor].intent = "create"
        /\ \E t \in Paused(tasks, "requirement") : tasks[t].e.cor = agent.requirement.cor
    BY <2>2, SerialParts DEF Pending
  <2>4. PICK t \in Paused(tasks, "requirement") : tasks[t].e.cor = agent.requirement.cor
    BY <2>3
  <2>5. t \in DOMAIN tasks /\ tasks[t].resumed /\ tasks[t].h # "replay"
    BY <2>4 DEF Paused
  <2>6. ~tasks[t].e.replayed
    BY <2>5, SerialParts DEF OneCall
  <2>7. tasks[t].e.cor = tasks[Now].e.cor
    BY <1>1, <1>2, <2>5, <2>6, SerialParts DEF OneCall
  <2> QED  BY <1>2, <2>1, <2>3, <2>4, <2>7
<1>6. mine.pending => mine.cor = Me.e.cor \/ Payload[Me.e.cor].intent # "create"
  OBVIOUS
<1>7. Wanted(Me.e.cor) => mine.pending /\ Payload[mine.cor].valid
  BY DEF Wanted
<1> HIDE DEF mine
<1>8. CASE mine.pending /\ Payload[mine.cor].valid
  <2> DEFINE a == Artifact("requirement", Me.e.cor, NoSup, <<>>)
  <2>1. art' = Append(art, a) /\ Say("RequirementCreated", Me.e.cor, NoSup, <<>>)
    BY <1>1, <1>5, <1>8 DEF Put
  <2>2. a.kind = "requirement" /\ a.sup = NoSup /\ ArtifactOk(a)
    BY <1>2 DEF Artifact, ArtifactOk
  <2> HIDE DEF a
  <2>3. Known("requirement", NoSup)'
    BY <2>1, <2>2, KnownPut
  <2>4. /\ OneCall(tasks') /\ Watched' /\ Stocked' /\ Settled'
        /\ Paused(tasks', "requirement") = (Paused(tasks, "requirement") \ {Now})
                                             \cup {t \in {Now} : tasks[t].h = "requirement"}
        /\ \A t \in DOMAIN tasks \cap DOMAIN tasks' : tasks'[t].e = tasks[t].e
    BY <1>1, <1>3, <1>4, <2>1, <2>2, <2>3, StartSays
  <2>5. Now \in Paused(tasks', "requirement")
    BY <1>1, <1>2, <2>4
  <2>6. tasks'[Now].e = Me.e
    BY <1>2, <2>4, <2>5 DEF Paused
  <2>7. Pending'
    BY <1>4, <1>5, <1>8, <2>5, <2>6 DEF Pending
  <2> QED  BY <2>4, <2>7, SerialIs DEF SerialInv, Settled
<1>9. CASE ~(mine.pending /\ Payload[mine.cor].valid)
  <2>1. Finish /\ log' = log /\ art' = art
    BY <1>1, <1>9
  <2>2. Ends
    BY <1>1, <2>1, EndsOk
  <2> DEFINE e == Me.e
             next == {}
  <2>3. Turn({Now}, {}, {}, e)
    BY <2>2, TurnEnds
  <2>4. OneCall(tasks')
    BY <2>2, OneCallEnds, SerialParts
  <2>5. Quiet
    BY <1>1, <2>1, QuietPut
  <2>6. Watched'
    <3>1. \A pair \in Requests \X {"evaluation", "quote"} : Complete(pair)' => Complete(pair)
      BY <1>1, <2>5, CompleteSame
    <3>2. \A t \in {Now} : tasks[t].h # "tracker"
      BY <1>1, <1>2
    <3> QED  BY <2>3, <3>1, <3>2, WatchedTurn, SerialParts
  <2>7. Starts(tasks') = next
    <3>1. Fresh("requirement") = {} /\ Fresh("discovery") = {} /\ Fresh("strategy") = {}
      BY <2>3 DEF Turn, Tracked
    <3>2. Starts(tasks') = (Starts(tasks) \ {Now}) \cup Fresh("requirement")
                             \cup Fresh("discovery") \cup Beginning(e)
      BY <2>3, TurnStarts
    <3>3. Starts(tasks) = {Now}
      BY <1>3, SerialParts DEF Chain
    <3> QED  BY <3>1, <3>2, <3>3 DEF Beginning
  <2>8. KeptA(Products)
    BY <2>1 DEF KeptA
  <2>9. e.cor = Me.e.cor /\ next = {} /\ ~Wanted(Me.e.cor)
    BY <1>7, <1>9
  <2> HIDE DEF e, next
  <2>10. Settled'
    BY <1>1, <1>3, <1>4, <2>3, <2>7, <2>8, <2>9, StartMoves
  <2>11. Stocked'
    <3>1. Fresh("strategy") = {}
      BY <2>3 DEF Turn, Tracked
    <3>2. /\ Unheard(tasks', "strategy") = (Unheard(tasks, "strategy") \ {Now}) \cup Fresh("strategy")
          /\ \A t \in Unheard(tasks, "strategy") \ {Now} : tasks'[t].e = tasks[t].e
      BY <2>3, TurnUnheard DEF Tracked
    <3> QED  BY <1>1, <2>1, <2>7, <2>9, <3>1, <3>2, StockedMore, SerialParts
  <2>12. Pending'
    BY <1>4, <1>9 DEF Pending
  <2> QED  BY <2>4, <2>6, <2>10, <2>11, <2>12, SerialIs DEF SerialInv, Settled
<1> QED  BY <1>8, <1>9

LEMMA StrategySerial == ASSUME LoopInv, SerialInv, StrategyStep PROVE SerialInv'
<1>1. /\ Steps /\ Me.h = "strategy" /\ ~Me.resumed /\ ~Me.e.replayed
      /\ IF Me.e.type = "RequirementCreated"
         THEN Put(Strategy(Me.e.cor, 1)) /\ Say("StrategySelected", Me.e.cor, NoSup, <<>>)
         ELSE /\ Put(Strategy(Get("strategy", NoSup).cor, Get("strategy", NoSup).version + 1))
              /\ Finish /\ log' = log
      /\ UNCHANGED <<events, expect, closed, agent, sent, answered>>
  BY DEF StrategyStep, Return, Started, Running
<1>2. Now \in DOMAIN tasks /\ Me = tasks[Now]
  BY <1>1, Mine
<1>3. Now \in Unheard(tasks, "strategy") /\ Stocked
  BY <1>1, <1>2, SerialParts DEF Unheard
<1>4. Me.e.type \in {"RequirementCreated", "QuotesCompleted"}
  <2>1. "strategy" \in Handlers(Me.e.type) /\ Me.e.type \in Types
    BY <1>1, Mine DEF WorkOk, Hearers
  <2> QED  BY <2>1, WhoHears
<1>5. Known("requirement", NoSup)
  BY <1>1, <1>2, <1>3, <1>4 DEF Stocked, Starts
<1>6. SelectStrategy(Constraints) \in DOMAIN Weights
  BY <1>3, <1>5, ConstraintsOk, StrategyNamed DEF Demands
<1>7. ASSUME NEW cor, NEW version \in Nat
      PROVE  /\ Strategy(cor, version).kind = "strategy" /\ Strategy(cor, version).sup = NoSup
             /\ ArtifactOk(Strategy(cor, version))
  <2> DEFINE a == Strategy(cor, version)
  <2>1. a.kind = "strategy" /\ a.sup = NoSup /\ a.version = version
        /\ a.data.name = SelectStrategy(Constraints)
    BY DEF Strategy, Artifact
  <2> HIDE DEF a
  <2>2. ArtifactOk(a)
    BY <1>6, <2>1 DEF ArtifactOk
  <2> QED  BY <2>1, <2>2 DEF a
<1>8. \A t \in {Now} : tasks[t].h # "requirement"
  BY <1>1, <1>2
<1>9. CASE Me.e.type = "RequirementCreated"
  <2> DEFINE a == Strategy(Me.e.cor, 1)
  <2>1. /\ art' = Append(art, a) /\ Say("StrategySelected", Me.e.cor, NoSup, <<>>)
        /\ a.kind = "strategy" /\ a.sup = NoSup /\ ArtifactOk(a)
    BY <1>1, <1>7, <1>9 DEF Put
  <2> HIDE DEF a
  <2>2. Known("strategy", NoSup)'
    BY <2>1, KnownPut
  <2>3. Known("requirement", NoSup)'
    <3>1. Grown(a)
      BY <2>1, GrownOne DEF LoopInv, Typed
    <3> QED  BY <1>5, <3>1 DEF Grown, Known, Named
  <2>4. Now \in Starts(tasks)
    BY <1>2, <1>3, <1>9 DEF Starts
  <2>5. /\ OneCall(tasks') /\ Watched' /\ Stocked' /\ Settled'
        /\ Paused(tasks', "requirement") = (Paused(tasks, "requirement") \ {Now})
                                             \cup {t \in {Now} : tasks[t].h = "requirement"}
        /\ \A t \in DOMAIN tasks \cap DOMAIN tasks' : tasks'[t].e = tasks[t].e
    BY <1>1, <2>1, <2>2, <2>3, <2>4, StartSays
  <2>6. Paused(tasks', "requirement") = Paused(tasks, "requirement")
    BY <1>8, <2>5 DEF Paused
  <2>7. \A t \in Paused(tasks, "requirement") : tasks'[t].e = tasks[t].e
    BY <2>5, <2>6 DEF Paused
  <2>8. Pending'
    BY <1>1, <2>6, <2>7, SerialParts DEF Pending
  <2> QED  BY <2>5, <2>8, SerialIs DEF SerialInv, Settled
<1>10. CASE Me.e.type = "QuotesCompleted"
  <2> DEFINE old == Get("strategy", NoSup)
             a == Strategy(old.cor, old.version + 1)
  <2>1. Known("strategy", NoSup)
    BY <1>2, <1>3, <1>10 DEF Stocked
  <2>2. old.version + 1 \in Nat
    <3>1. \E i \in DOMAIN art : old = art[i]
      BY <1>3, <2>1, GetOne
    <3>2. \A i \in DOMAIN art : art[i].version \in Nat
      BY <1>3 DEF Stocked, ArtifactOk
    <3> QED  BY <3>1, <3>2
  <2>3. art' = Append(art, a) /\ Finish /\ log' = log
    BY <1>1, <1>10 DEF Put
  <2> HIDE DEF old
  <2>4. a.kind = "strategy" /\ ArtifactOk(a)
    BY <1>7, <2>2
  <2> HIDE DEF a
  <2>5. Ends
    BY <1>1, <2>3, EndsOk
  <2>6. Quiet
    BY <1>1, <2>3, <2>4, QuietPut
  <2>7. Now \notin Concerned
    BY <1>1, <1>2, <1>10, Bystanders
  <2>8. Turn({Now}, {}, {}, 0)
    BY <2>5, TurnEnds
  <2>9. Pending'
    BY <1>1, <1>8, <2>8, PendingTurn, SerialParts
  <2>10. Grown(a) /\ a.kind \notin Products
    BY <2>3, <2>4, GrownOne DEF LoopInv, Typed, Products
  <2> QED  BY <1>1, <2>4, <2>5, <2>6, <2>7, <2>9, <2>10, CalmEnds
<1> QED  BY <1>4, <1>9, <1>10

LEMMA AnalyseSerial == ASSUME LoopInv, SerialInv, Analyse PROVE SerialInv'
<1>1. /\ Steps /\ Me.h = "analysis" /\ Finish /\ log' = log
      /\ agent' = [agent EXCEPT !.analyzed = @ \cup {Me.e.cor}]
      /\ \/ art' = art
         \/ \E cor, data : art' = art \o [v \in 1..3 |-> Artifact("completion", cor, NoSup, data)]
      /\ UNCHANGED <<events, expect, closed, sent, answered>>
  BY DEF Analyse, Return, Started, Running
<1>2. Now \in DOMAIN tasks /\ Me = tasks[Now]
  BY <1>1, Mine
<1>3. Ends
  BY <1>1, EndsOk
<1>4. PICK a : /\ a.kind = "completion" /\ ArtifactOk(a)
               /\ art' = art \/ art' = art \o [v \in 1..3 |-> a]
  <2>1. \A cor, data : /\ Artifact("completion", cor, NoSup, data).kind = "completion"
                       /\ ArtifactOk(Artifact("completion", cor, NoSup, data))
    BY DEF Artifact, ArtifactOk
  <2> QED  BY <1>1, <2>1
<1>5. Quiet
  BY <1>1, <1>4, QuietPut
<1>6. Grown(a) /\ a.kind \notin Products
  BY <1>4, GrownSame, GrownThree DEF LoopInv, Typed, Products
<1>7. Now \notin Concerned
  BY <1>1, <1>2, Bystanders DEF Tracked
<1>8. /\ agent'.discovery = agent.discovery /\ agent'.decision = agent.decision
      /\ agent'.requirement = agent.requirement
  <2>1. AgentOk(agent, sent)
    BY DEF LoopInv, Typed
  <2> QED  BY <1>1, <2>1 DEF AgentOk
<1>9. Pending'
  <2>1. Turn({Now}, {}, {}, 0)
    BY <1>3, TurnEnds
  <2>2. \A t \in {Now} : tasks[t].h # "requirement"
    BY <1>1, <1>2
  <2> QED  BY <1>8, <2>1, <2>2, PendingTurn, SerialParts
<1> QED  BY <1>1, <1>3, <1>4, <1>5, <1>6, <1>7, <1>8, <1>9, CalmEnds

(***************************************************************************)
(* The tracker.                                                            *)
(***************************************************************************)
\* It returns when no group is complete that it was to look at.
LEMMA TrackReturns ==
    ASSUME LoopInv, SerialInv, Track, Me.e.replayed \/ {n \in DOMAIN ToCheck : Complete(ToCheck[n])} = {}
    PROVE  SerialInv'
<1>1. /\ Running("tracker") /\ Steps /\ Me.h = "tracker" /\ Finish /\ log' = log /\ closed' = closed
      /\ UNCHANGED <<events, art, expect, agent, sent, answered>>
  BY DEF Track, Running, Return
<1>2. Now \in DOMAIN tasks /\ Me = tasks[Now]
  BY <1>1, Mine
<1>3. Ends
  BY <1>1, EndsOk
<1>4. Turn({Now}, {}, {}, 0)
  BY <1>3, TurnEnds
<1>5. OneCall(tasks')
  BY <1>3, OneCallEnds, SerialParts
<1>6. Quiet
  BY <1>1, QuietPut
<1>7. Watched'
  <2>1. SUFFICES ASSUME NEW pair \in Requests \X {"evaluation", "quote"}, Complete(pair)'
                 PROVE  \E t \in DOMAIN tasks' : Watching(tasks', t, pair)
    BY DEF Watched
  <2>2. Complete(pair)
    BY <1>1, <1>6, <2>1, CompleteSame
  <2>3. PICK t \in DOMAIN tasks : Watching(tasks, t, pair)
    BY <2>2, SerialParts DEF Watched
  <2>4. t # Now
    <3>1. SUFFICES ASSUME t = Now PROVE FALSE
      OBVIOUS
    <3>2. \E n \in DOMAIN ToCheck : ToCheck[n] = pair
      BY <1>1, <2>2, <2>3, <3>1, AllChecked
    <3>3. ~Me.e.replayed
      BY <1>2, <2>3, <3>1 DEF Watching
    <3> QED  BY <2>2, <3>2, <3>3
  <2>5. t \in DOMAIN tasks' /\ Same(tasks, tasks', t)
    BY <1>3, <2>4, EndsTasks
  <2> QED  BY <2>3, <2>5 DEF Watching, Same
<1>8. Pending'
  BY <1>1, <1>2, <1>4, PendingTurn, SerialParts
<1>9. PICK a : Grown(a) /\ a.kind \notin Products
  BY <1>1, NoArtifact
<1>10. {Now} \cap Concerned = {}
  BY <1>1, <1>2, Bystanders
<1> QED  BY <1>1, <1>4, <1>5, <1>7, <1>8, <1>9, <1>10, CalmStep

\* A group that is complete is of the request that is served; nothing has
\* been decided on quotes that it finds complete.
LEMMA CompleteIs ==
    ASSUME LoopInv, SerialInv, Steps, ~Me.e.replayed,
           NEW pair \in Requests \X {"evaluation", "quote"}, Complete(pair)
    PROVE  /\ pair[1] = Me.e.cor
           /\ pair[2] = "quote" => /\ AllQuoted(pair[1]) /\ Known("requirement", NoSup)
                                   /\ Known("strategy", NoSup)
                                   /\ Unheard(tasks, "decision") \cup Paused(tasks, "decision") = {}
                                   /\ \A sup : ~Has(art, "decision", pair[1], sup)
<1>1. Now \in DOMAIN tasks /\ Me = tasks[Now]
  BY Mine
<1>2. PICK t \in DOMAIN tasks : Watching(tasks, t, pair)
  BY SerialParts DEF Watched
<1>3. pair[1] = Me.e.cor
  BY <1>1, <1>2, SerialParts DEF Watching, OneCall
<1>4. pair \notin closed /\ \E i \in DOMAIN expect :
          expect[i].cor = pair[1] /\ Count(pair[2], pair[1]) >= expect[i].count
  BY DEF Complete
<1>5. ASSUME pair[2] = "quote"
      PROVE  AllQuoted(pair[1]) /\ Known("requirement", NoSup) /\ Known("strategy", NoSup)
  <2>1. PICK i \in DOMAIN expect : Count("quote", pair[1]) >= expect[i].count
    BY <1>4, <1>5
  <2>2. expect[i].count = Len(Pool)
    <3>1. expect \in Seq(Expectations(sent))
      BY DEF LoopInv, Typed
    <3>2. expect[i] \in Expectations(sent)
      BY <3>1
    <3> QED  BY <3>2 DEF Expectations
  <2>3. AllQuoted(pair[1])
    BY <2>1, <2>2, QuotesFound, SerialParts
  <2>4. Pool[1] \in Suppliers
    BY PoolAssumption DEF Suppliers
  <2>5. Has(art, "quote", pair[1], Pool[1])
    BY <2>3, <2>4 DEF AllQuoted
  <2>6. PICK k \in DOMAIN art : art[k].kind = "quote"
    BY <2>5 DEF Has
  <2> QED  BY <2>3, <2>6, SerialParts DEF Stocked, Products
<1>6. ASSUME pair[2] = "quote", NEW k \in DOMAIN art, art[k].kind = "decision", art[k].cor = pair[1]
      PROVE  FALSE
  <2>1. <<art[k].cor, "quote">> \in closed
    BY <1>6, SerialParts DEF Decides
  <2>2. pair = <<pair[1], pair[2]>>
    OBVIOUS
  <2> QED  BY <1>4, <1>6, <2>1, <2>2
<1>7. ASSUME pair[2] = "quote", NEW u \in Unheard(tasks, "decision") \cup Paused(tasks, "decision")
      PROVE  FALSE
  <2>1. u \in DOMAIN tasks /\ tasks[u].h = "decision" /\ ~tasks[u].e.replayed
    BY <1>7, SerialParts DEF Unheard, Paused, OneCall
  <2>2. tasks[u].e.cor = pair[1]
    BY <1>1, <1>3, <2>1, SerialParts DEF OneCall
  <2>3. CASE u \in Unheard(tasks, "decision")
    <3>1. <<tasks[u].e.cor, "quote">> \in closed
      BY <2>3, SerialParts DEF Decides
    <3>2. pair = <<pair[1], pair[2]>>
      OBVIOUS
    <3> QED  BY <1>4, <1>7, <2>2, <3>1, <3>2
  <2>4. CASE u \in Paused(tasks, "decision")
    <3>1. \E k \in DOMAIN art : DecidedAs(art, k, tasks[u].e.cor, agent.decision.why[1].winner)
      BY <2>4, SerialParts DEF Explains
    <3> QED  BY <1>6, <1>7, <2>2, <3>1 DEF DecidedAs
  <2> QED  BY <1>7, <2>3, <2>4
<1> QED  BY <1>3, <1>5, <1>6, <1>7 DEF Has

LEMMA TrackSpeaks ==
    ASSUME LoopInv, SerialInv, Steps, Me.h = "tracker", ~Me.e.replayed, NEW type \in Types,
           NEW rest, RestOk(Me.h, rest, sent), Say(type, Me.e.cor, NoSup, rest),
           UNCHANGED <<events, sent, answered>>,
           \A pair \in Requests \X {"evaluation", "quote"} : Complete(pair)' => Complete(pair)
    PROVE  \E e : /\ e.type = type /\ e.cor = Me.e.cor /\ ~e.replayed
                  /\ Turn({Now}, {Now}, Handlers(type), e) /\ OneCall(tasks') /\ Watched'
<1>1. NoSup \in Suppliers \cup {NoSup}
  OBVIOUS
<1> QED  BY <1>1, OwnSays

LEMMA TrackSays ==
    ASSUME LoopInv, SerialInv, Steps, Me.h = "tracker", ~Me.e.replayed,
           NEW pair \in Pairs(sent), NEW rest \in Seq(Pairs(sent)), Complete(pair),
           closed' = closed \cup {pair}, Say(CompletionEvents[pair[2]], pair[1], NoSup, rest),
           UNCHANGED <<events, art, expect, agent, sent, answered>>
    PROVE  SerialInv'
<1> DEFINE type == CompletionEvents[pair[2]]
           H == Handlers(type)
<1>1. Now \in DOMAIN tasks /\ Me = tasks[Now] /\ Me.e.cor \in sent /\ sent \subseteq Requests
  BY Mine DEF LoopInv, Typed
<1>2. pair \in Requests \X {"evaluation", "quote"} /\ pair = <<pair[1], pair[2]>>
  BY <1>1 DEF Pairs
<1>3. /\ pair[1] = Me.e.cor
      /\ pair[2] = "quote" => /\ AllQuoted(pair[1]) /\ Known("requirement", NoSup)
                              /\ Known("strategy", NoSup)
                              /\ Unheard(tasks, "decision") \cup Paused(tasks, "decision") = {}
                              /\ \A sup : ~Has(art, "decision", pair[1], sup)
  BY <1>2, CompleteIs
<1>4. /\ type \in Types /\ NoSup \in Suppliers \cup {NoSup} /\ RestOk(Me.h, rest, sent)
      /\ type = IF pair[2] = "quote" THEN "QuotesCompleted" ELSE "EvaluationCompleted"
  BY <1>2, CompletionTypes DEF RestOk, Lists
<1>5. /\ H \cap {"requirement", "discovery", "evaluation", "negotiation"} = {}
      /\ "decision" \in H <=> pair[2] = "quote"
      /\ "strategy" \in H <=> pair[2] = "quote"
  BY <1>4, WhoHears
<1>6. Say(type, Me.e.cor, NoSup, rest)
  BY <1>3
<1> HIDE DEF type
<1>7. \A p \in Requests \X {"evaluation", "quote"} : Complete(p)' => Complete(p)
  BY DEF Complete, Count, Find
<1>8. PICK e : /\ e.type = type /\ e.cor = Me.e.cor /\ ~e.replayed
               /\ Turn({Now}, {Now}, H, e) /\ OneCall(tasks') /\ Watched'
  BY <1>4, <1>6, <1>7, TrackSpeaks
<1> HIDE DEF H
<1>9. /\ KeptS /\ KeptU("evaluation") /\ KeptU("negotiation") /\ KeptP("discovery") /\ KeptP("decision")
  <2>1. Now \notin Concerned
    BY <1>1, Bystanders
  <2>2. /\ Starts(tasks) \cap {Now} = {} /\ Unheard(tasks, "evaluation") \cap {Now} = {}
        /\ Unheard(tasks, "negotiation") \cap {Now} = {}
        /\ {Now} \cap Paused(tasks, "discovery") = {} /\ {Now} \cap Paused(tasks, "decision") = {}
    BY <2>1 DEF Concerned
  <2>3. \A t \in {Now} : tasks[t].h \notin {"discovery", "decision"}
    BY <1>1
  <2>4. KeptU("evaluation") /\ KeptU("negotiation")
    BY <1>5, <1>8, <2>2, TurnKeepsU DEF Tracked
  <2>5. KeptP("discovery") /\ KeptP("decision")
    BY <1>8, <2>2, <2>3, TurnKeepsP DEF Tracked
  <2>6. KeptS
    BY <1>4, <1>5, <1>8, <2>2, TurnKeepsS
  <2> QED  BY <2>4, <2>5, <2>6
<1>10. \A K : KeptA(K)
  BY DEF KeptA
<1>11. Pending'
  BY <1>1, <1>8, PendingTurn, SerialParts
<1>12. Listed(art)
  BY DEF LoopInv, Typed
<1>13. Chain' /\ Evals' /\ Offers' /\ Explains'
  BY <1>9, <1>10, <1>12, SerialParts, ChainKept, EvalsKept, OffersKept, ExplainsKept
<1>14. Stocked'
  <2>1. /\ Unheard(tasks', "strategy") = (Unheard(tasks, "strategy") \ {Now}) \cup Fresh("strategy")
        /\ \A t \in Unheard(tasks, "strategy") \ {Now} : tasks'[t].e = tasks[t].e
    BY <1>8, TurnUnheard DEF Tracked
  <2>2. Fresh("strategy") # {} => pair[2] = "quote"
    BY <1>5, <1>8 DEF Turn, Tracked
  <2> QED  BY <1>3, <1>9, <1>10, <2>1, <2>2, StockedKept, SerialParts
<1>15. /\ Unheard(tasks', "decision") = Unheard(tasks, "decision") \cup Fresh("decision")
       /\ \A t \in Unheard(tasks, "decision") : tasks'[t].e = tasks[t].e
       /\ \A t \in Fresh("decision") : tasks'[t].e = e
       /\ IF pair[2] = "quote" THEN \E n : Fresh("decision") = {n} ELSE Fresh("decision") = {}
  <2>1. Now \notin Unheard(tasks, "decision")
    BY <1>1 DEF Unheard
  <2>2. IF "decision" \in H THEN \E n : Fresh("decision") = {n} ELSE Fresh("decision") = {}
    BY <1>8 DEF Turn, Tracked
  <2>3. /\ Unheard(tasks', "decision") = (Unheard(tasks, "decision") \ {Now}) \cup Fresh("decision")
        /\ \A t \in Unheard(tasks, "decision") \ {Now} : tasks'[t].e = tasks[t].e
        /\ \A t \in Fresh("decision") : tasks'[t].e = e
    BY <1>8, TurnUnheard DEF Tracked
  <2>4. Unheard(tasks, "decision") \ {Now} = Unheard(tasks, "decision")
    BY <2>1
  <2> QED  BY <1>5, <2>2, <2>3, <2>4
<1>16. \A r : <<r, "quote">> \in closed' <=> <<r, "quote">> \in closed \/ (pair[2] = "quote" /\ r = Me.e.cor)
  BY <1>2, <1>3
<1>17. Decides'
  <2>1. \A r \in Requests : <<r, "quote">> \in closed' => AllQuoted(r)'
    <3>1. \A r : AllQuoted(r) => AllQuoted(r)'
      BY DEF AllQuoted, Has
    <3> QED  BY <1>3, <1>16, <3>1, SerialParts DEF Decides
  <2>2. \A t, u \in Unheard(tasks', "decision") \cup Paused(tasks', "decision") : t = u
    <3>1. Paused(tasks', "decision") = Paused(tasks, "decision")
      BY <1>9 DEF KeptP
    <3>2. \A t, u \in Unheard(tasks, "decision") \cup Paused(tasks, "decision") : t = u
      BY SerialParts DEF Decides
    <3>3. CASE pair[2] = "quote"
      BY <1>3, <1>15, <3>1, <3>3
    <3>4. CASE pair[2] # "quote"
      BY <1>15, <3>1, <3>2, <3>4
    <3> QED  BY <3>3, <3>4
  <2>3. ASSUME NEW t \in Unheard(tasks', "decision")
        PROVE  /\ <<tasks'[t].e.cor, "quote">> \in closed'
               /\ ~Has(art', "decision", tasks'[t].e.cor, NoSup)
    <3>1. CASE t \in Unheard(tasks, "decision")
      <4>1. <<tasks[t].e.cor, "quote">> \in closed /\ ~Has(art, "decision", tasks[t].e.cor, NoSup)
        BY <3>1, SerialParts DEF Decides
      <4> QED  BY <1>15, <3>1, <4>1
    <3>2. CASE t \in Fresh("decision")
      BY <1>3, <1>8, <1>15, <1>16, <3>2
    <3> QED  BY <1>15, <3>1, <3>2
  <2>4. ASSUME NEW i \in DOMAIN art', art'[i].kind = "decision"
        PROVE  /\ <<art'[i].cor, "quote">> \in closed'
               /\ art'[i].sup = NoSup /\ Only(art', i) /\ Covers(art'[i].data.quotes)
    BY <1>16, <2>4, SerialParts DEF Decides
  <2> QED  BY <2>1, <2>2, <2>3, <2>4 DEF Decides, Covers
<1>18. Progress'
  <2>1. /\ \A q \in sent : Wanted(q) => UnderWay(q)
        /\ \A q \in Requests : <<q, "quote">> \in closed => ToDecide(q)
    BY SerialParts, ProgressIs
  <2>2. \A q, s : OnItsWay(q, s) => OnItsWay(q, s)'
    BY <1>9, OnItsWayKept
  <2>3. \A q : UnderWay(q) => UnderWay(q)'
    BY <1>9, <2>2 DEF UnderWay, KeptS
  <2>4. \A q : ToDecide(q) => ToDecide(q)'
    BY <1>15 DEF ToDecide
  <2>5. \A r : pair[2] = "quote" /\ r = Me.e.cor => ToDecide(r)'
    BY <1>8, <1>15 DEF ToDecide
  <2>6. \A q \in Requests : <<q, "quote">> \in closed' =>
            \/ \E t \in Unheard(tasks', "decision") : tasks'[t].e.cor = q
            \/ Has(art', "decision", q, NoSup)
    <3>1. ASSUME NEW q \in Requests, <<q, "quote">> \in closed' PROVE ToDecide(q)'
      BY <1>16, <2>1, <2>4, <2>5, <3>1
    <3> QED  BY <3>1 DEF ToDecide
  <2> QED  BY <2>1, <2>3, <2>6 DEF Progress, Wanted, UnderWay
<1> QED  BY <1>8, <1>11, <1>13, <1>14, <1>17, <1>18 DEF SerialInv

LEMMA TrackSerial == ASSUME LoopInv, SerialInv, Track PROVE SerialInv'
BY TrackShape, TrackReturns, TrackSays

(***************************************************************************)
(* The pool, one supplier after the other.                                 *)
(***************************************************************************)
LEMMA HeadTail ==
    ASSUME NEW list \in Seq(Suppliers), list # <<>>
    PROVE  /\ Head(list) \in Suppliers /\ Tail(list) \in Seq(Suppliers)
           /\ Range(list) = {Head(list)} \cup Range(Tail(list))
           /\ IsInjective(list) => IsInjective(Tail(list)) /\ Head(list) \notin Range(Tail(list))
<1>1. /\ Len(list) \in Nat /\ Len(list) >= 1 /\ DOMAIN list = 1 .. Len(list)
      /\ Head(list) = list[1] /\ Tail(list) \in Seq(Suppliers)
      /\ DOMAIN Tail(list) = 1 .. Len(list) - 1
      /\ \A i \in 1 .. Len(list) - 1 : Tail(list)[i] = list[i + 1]
  OBVIOUS
<1>2. \A i \in 1 .. Len(list) : i = 1 \/ (i - 1 \in 1 .. Len(list) - 1 /\ (i - 1) + 1 = i)
  BY <1>1
<1>3. \A i \in 1 .. Len(list) - 1 : i + 1 \in 1 .. Len(list) /\ i + 1 # 1
  BY <1>1
<1>4. \A i \in 1 .. Len(list) : i = 1 \/ \E j \in 1 .. Len(list) - 1 : Tail(list)[j] = list[i]
  BY <1>1, <1>2
<1>5. 1 \in 1 .. Len(list)
  BY <1>1
<1>6. Range(list) = {Head(list)} \cup Range(Tail(list))
  <2> DEFINE first == Head(list)
             others == Tail(list)
  <2>1. /\ first = list[1] /\ DOMAIN others = 1 .. Len(list) - 1
        /\ \A i \in 1 .. Len(list) - 1 : others[i] = list[i + 1]
        /\ \A i \in 1 .. Len(list) : i = 1 \/ \E j \in 1 .. Len(list) - 1 : others[j] = list[i]
    BY <1>1, <1>4
  <2> HIDE DEF first, others
  <2>2. ASSUME NEW x \in Range(list) PROVE x \in {first} \cup Range(others)
    <3>1. PICK i \in 1 .. Len(list) : x = list[i]
      BY <1>1, <2>2 DEF Range
    <3>2. CASE i = 1
      BY <2>1, <3>1, <3>2
    <3>3. CASE i # 1
      <4>1. PICK j \in 1 .. Len(list) - 1 : others[j] = x
        BY <2>1, <3>1, <3>3
      <4>2. j \in DOMAIN others
        BY <2>1
      <4> QED  BY <4>1, <4>2 DEF Range
    <3> QED  BY <3>2, <3>3
  <2>3. first \in Range(list)
    BY <1>1, <1>5, <2>1 DEF Range
  <2>4. ASSUME NEW x \in Range(others) PROVE x \in Range(list)
    <3>1. PICK i \in 1 .. Len(list) - 1 : x = list[i + 1]
      BY <2>1, <2>4 DEF Range
    <3>2. i + 1 \in DOMAIN list
      BY <1>1, <1>3
    <3> QED  BY <3>1, <3>2 DEF Range
  <2>5. Range(list) = {first} \cup Range(others)
    BY <2>2, <2>3, <2>4
  <2> QED  BY <2>5 DEF first, others
<1>7. ASSUME IsInjective(list) PROVE IsInjective(Tail(list)) /\ Head(list) \notin Range(Tail(list))
  <2>1. \A i, j \in 1 .. Len(list) : list[i] = list[j] => i = j
    BY <1>1, <1>7 DEF IsInjective
  <2>2. \A i, j \in 1 .. Len(list) - 1 : Tail(list)[i] = Tail(list)[j] => i = j
    <3>1. \A i, j \in 1 .. Len(list) - 1 : Tail(list)[i] = Tail(list)[j] => i + 1 = j + 1
      BY <1>1, <1>3, <2>1
    <3> QED  BY <1>1, <3>1
  <2>3. \A i \in 1 .. Len(list) - 1 : Tail(list)[i] # list[1]
    BY <1>1, <1>3, <1>5, <2>1
  <2> QED  BY <1>1, <2>2, <2>3 DEF IsInjective, Range
<1> QED  BY <1>1, <1>5, <1>6, <1>7

LEMMA DiscoverSpeaks ==
    ASSUME LoopInv, SerialInv, Steps, Me.h = "discovery", ~Me.e.replayed, NEW sup \in Suppliers,
           NEW rest, RestOk(Me.h, rest, sent), Say("SupplierDiscovered", Me.e.cor, sup, rest),
           UNCHANGED <<events, sent, answered>>,
           \A pair \in Requests \X {"evaluation", "quote"} :
               pair[1] # Me.e.cor /\ Complete(pair)' => Complete(pair)
    PROVE  \E e : /\ e.type = "SupplierDiscovered" /\ e.cor = Me.e.cor /\ e.sup = sup /\ ~e.replayed
                  /\ Turn({Now}, {Now}, Handlers("SupplierDiscovered"), e)
                  /\ Now \in DOMAIN tasks' /\ tasks'[Now].rest = rest /\ tasks'[Now].e = Me.e
                  /\ OneCall(tasks') /\ Watched'
<1>1. "SupplierDiscovered" \in Types
  BY DEF Types, Sourced
<1>2. sup \in Suppliers \cup {NoSup}
  OBVIOUS
<1>3. Me.h \notin {"recorder", "client"}
  OBVIOUS
<1> QED  BY <1>1, <1>2, <1>3, OwnSays

\* Discovery announces a supplier and keeps the others.
LEMMA DiscoverSays ==
    ASSUME LoopInv, SerialInv, Steps, Me.h = "discovery", ~Me.e.replayed,
           NEW list \in Seq(Suppliers), list # <<>>, IsInjective(list),
           Say("SupplierDiscovered", Me.e.cor, Head(list), Tail(list)),
           UNCHANGED <<events, closed, sent, answered>>,
           NEW a, Grown(a), a.kind = "supplier_list", a.cor = Me.e.cor, a.sup = NoSup,
           art' = art \/ art' = Append(art, a),
           art' = art \/ (ArtifactOk(a) /\ Known("requirement", NoSup) /\ Known("strategy", NoSup)),
           Has(art', "supplier_list", Me.e.cor, NoSup),
           agent'.requirement = agent.requirement, agent'.decision = agent.decision,
           agent'.discovery.cor = Me.e.cor, agent'.discovery.pool,
           agent'.discovery.done = agent.discovery.done,
           \A i \in DOMAIN expect' : expect'[i].cor # Me.e.cor => \E j \in DOMAIN expect : expect[j] = expect'[i],
           \A i \in DOMAIN expect : \E j \in DOMAIN expect' : expect'[j].cor = expect[i].cor,
           Wanted(Me.e.cor) => \E i \in DOMAIN expect' : expect'[i].cor = Me.e.cor,
           Now \in Starts(tasks) \cup Paused(tasks, "discovery"),
           \A t \in Paused(tasks, "discovery") : tasks[t].rest = list,
           \A s \in Range(list) : /\ ~Has(art, "evaluation", Me.e.cor, s)
                                  /\ \A u \in Unheard(tasks, "evaluation") : tasks[u].e.sup # s,
           Wanted(Me.e.cor) => \A s \in Suppliers : s \in Range(list) \/ OnItsWay(Me.e.cor, s)
    PROVE  SerialInv'
<1> DEFINE H == Handlers("SupplierDiscovered")
           sup == Head(list)
           rest == Tail(list)
           cor == Me.e.cor
<1>1. Now \in DOMAIN tasks /\ Me = tasks[Now] /\ cor \in sent /\ sent \subseteq Requests
  BY Mine DEF LoopInv, Typed
<1>2. /\ sup \in Suppliers /\ rest \in Seq(Suppliers) /\ Range(list) = {sup} \cup Range(rest)
      /\ IsInjective(rest) /\ sup \notin Range(rest)
  BY HeadTail
<1>3. /\ "SupplierDiscovered" \in Types /\ RestOk(Me.h, rest, sent) /\ sup \in Suppliers \cup {NoSup}
  BY <1>2 DEF Types, Sourced, RestOk, Lists
<1>4. /\ "evaluation" \in H
      /\ H \cap {"requirement", "strategy", "discovery", "negotiation", "decision"} = {}
  BY <1>3, WhoHears
<1>5. \A pair \in Requests \X {"evaluation", "quote"} :
          pair[1] # cor /\ Complete(pair)' => Complete(pair)
  <2> HIDE DEF cor
  <2>1. /\ closed' = closed
        /\ art' = art \/ \E x : x.cor = cor /\ art' = Append(art, x)
        /\ \A i \in DOMAIN expect' : expect'[i].cor # cor => \E j \in DOMAIN expect : expect[j] = expect'[i]
    BY DEF cor
  <2> QED  BY <2>1, CompleteElse
<1>6. PICK e : /\ e.type = "SupplierDiscovered" /\ e.cor = Me.e.cor /\ e.sup = sup /\ ~e.replayed
               /\ Turn({Now}, {Now}, H, e)
               /\ Now \in DOMAIN tasks' /\ tasks'[Now].rest = rest /\ tasks'[Now].e = Me.e
               /\ OneCall(tasks') /\ Watched'
  <2> HIDE DEF sup, rest
  <2>1. Say("SupplierDiscovered", Me.e.cor, sup, rest)
    BY DEF sup, rest
  <2>2. RestOk(Me.h, rest, sent) /\ sup \in Suppliers
    BY <1>2, <1>3
  <2>3. /\ UNCHANGED <<events, sent, answered>>
        /\ \A pair \in Requests \X {"evaluation", "quote"} :
               pair[1] # Me.e.cor /\ Complete(pair)' => Complete(pair)
    BY <1>5
  <2> QED  BY <2>1, <2>2, <2>3, DiscoverSpeaks
<1> HIDE DEF H, sup, rest
<1>7. Starts(tasks) \cup Paused(tasks, "discovery") = {Now}
  BY SerialParts DEF Chain
<1>8. /\ Starts(tasks') = {} /\ Paused(tasks', "discovery") = {Now}
      /\ KeptU("negotiation") /\ KeptU("decision") /\ KeptU("strategy") /\ KeptP("decision")
  <2>1. {"discovery", "requirement", "strategy", "negotiation", "decision"} \subseteq Tracked
    BY DEF Tracked
  <2>2. Fresh("requirement") = {} /\ Fresh("discovery") = {} /\ Fresh("strategy") = {}
    BY <1>4, <1>6, <2>1 DEF Turn
  <2>3. Starts(tasks') = {}
    <3>1. Starts(tasks') = (Starts(tasks) \ {Now}) \cup Fresh("requirement")
                             \cup Fresh("discovery") \cup Beginning(e)
      BY <1>6, TurnStarts
    <3> QED  BY <1>7, <2>2, <3>1 DEF Beginning
  <2>4. Paused(tasks', "discovery") = {Now}
    <3>1. Paused(tasks', "discovery") = (Paused(tasks, "discovery") \ {Now})
                                          \cup {t \in {Now} : tasks[t].h = "discovery"}
      BY <1>6, <2>1 DEF Turn
    <3> QED  BY <1>1, <1>7, <3>1
  <2>5. \A h \in {"negotiation", "decision", "strategy"} : Now \notin Unheard(tasks, h)
    BY <1>1 DEF Unheard
  <2>6. KeptU("negotiation") /\ KeptU("decision") /\ KeptU("strategy")
    BY <1>4, <1>6, <2>1, <2>5, TurnKeepsU
  <2>7. Now \notin Paused(tasks, "decision") /\ \A t \in {Now} : tasks[t].h # "decision"
    BY <1>1 DEF Paused
  <2>8. KeptP("decision")
    BY <1>6, <2>1, <2>7, TurnKeepsP
  <2> QED  BY <2>3, <2>4, <2>6, <2>8
<1>9. /\ Unheard(tasks', "evaluation") = Unheard(tasks, "evaluation") \cup Fresh("evaluation")
      /\ \A t \in Unheard(tasks, "evaluation") : tasks'[t].e = tasks[t].e
      /\ \A t \in Fresh("evaluation") : tasks'[t].e = e
      /\ \E n : Fresh("evaluation") = {n}
  <2>1. Unheard(tasks, "evaluation") \ {Now} = Unheard(tasks, "evaluation")
    BY <1>1 DEF Unheard
  <2>2. /\ Unheard(tasks', "evaluation") = (Unheard(tasks, "evaluation") \ {Now}) \cup Fresh("evaluation")
        /\ \A t \in Unheard(tasks, "evaluation") \ {Now} : tasks'[t].e = tasks[t].e
        /\ \A t \in Fresh("evaluation") : tasks'[t].e = e
    BY <1>6, TurnUnheard DEF Tracked
  <2>3. \E n : Fresh("evaluation") = {n}
    BY <1>4, <1>6 DEF Turn, Tracked
  <2> QED  BY <2>1, <2>2, <2>3
<1>10. /\ KeptA({"evaluation"}) /\ KeptA({"quote"}) /\ KeptA({"decision"})
       /\ KeptA({"decision", "decision_explanation"})
  BY GrownKeeps
<1>11. \A kind, c, s : Has(art, kind, c, s) => Has(art', kind, c, s)
  BY <1>10, HasStays
<1>12. Offers' /\ Decides' /\ Explains'
  <2>1. Offers /\ Decides /\ Explains /\ Listed(art)
    BY SerialParts DEF LoopInv, Typed
  <2> QED  BY <1>8, <1>10, <2>1, OffersKept, DecidesKept, ExplainsKept
<1>13. Pending'
  <2>1. \A t \in {Now} : tasks[t].h # "requirement"
    BY <1>1
  <2> QED  BY <1>6, <2>1, PendingTurn, SerialParts
<1>14. Stocked'
  <2>1. \A t \in Unheard(tasks', "strategy") : t \in Unheard(tasks, "strategy") /\ tasks'[t].e = tasks[t].e
    BY <1>8 DEF KeptU
  <2>2. \A kind : Known(kind, NoSup) => Known(kind, NoSup)'
    BY <1>10 DEF Known, Named, KeptA
  <2>3. \A i \in DOMAIN art' \ DOMAIN art : /\ ArtifactOk(art'[i]) /\ art'[i].cor \in sent'
                                            /\ Known("requirement", NoSup)' /\ Known("strategy", NoSup)'
    BY <1>1, <2>2 DEF Grown
  <2>4. \A i \in DOMAIN art : i \in DOMAIN art' /\ art'[i] = art[i]
    BY DEF Grown
  <2> QED  BY <1>8, <2>1, <2>3, <2>4, StockedMore, SerialParts
<1>15. Chain'
  <2>1. \A r \in agent'.discovery.done : Has(art', "supplier_list", r, NoSup)
    BY <1>11, SerialParts DEF Chain
  <2> QED  BY <1>6, <1>8, <2>1 DEF Chain
<1>16. Evals'
  <2>1. \A c, s : Has(art', "evaluation", c, s) <=> Has(art, "evaluation", c, s)
    BY <1>10, HasKept
  <2>2. \A s \in Range(list) : /\ ~Has(art', "evaluation", cor, s)
                               /\ \A u \in Unheard(tasks, "evaluation") : tasks[u].e.sup # s
    BY <2>1
  <2>3. \A t, u \in Unheard(tasks', "evaluation") : tasks'[t].e.sup = tasks'[u].e.sup => t = u
    <3>1. \A t, u \in Unheard(tasks, "evaluation") : tasks[t].e.sup = tasks[u].e.sup => t = u
      BY SerialParts DEF Evals
    <3>2. sup \in Range(list)
      BY <1>2
    <3> QED  BY <1>6, <1>9, <2>2, <3>1, <3>2
  <2>4. ASSUME NEW t \in Unheard(tasks', "evaluation")
        PROVE  /\ tasks'[t].e.sup \in Suppliers
               /\ Has(art', "supplier_list", tasks'[t].e.cor, NoSup)
               /\ ~Has(art', "evaluation", tasks'[t].e.cor, tasks'[t].e.sup)
    <3>1. CASE t \in Unheard(tasks, "evaluation")
      <4>1. /\ tasks[t].e.sup \in Suppliers
            /\ Has(art, "supplier_list", tasks[t].e.cor, NoSup)
            /\ ~Has(art, "evaluation", tasks[t].e.cor, tasks[t].e.sup)
        BY <3>1, SerialParts DEF Evals
      <4> QED  BY <1>9, <1>11, <2>1, <3>1, <4>1
    <3>2. CASE t \in Fresh("evaluation")
      BY <1>2, <1>6, <1>9, <2>2, <3>2
    <3> QED  BY <1>9, <3>1, <3>2
  <2>5. ASSUME NEW t \in Paused(tasks', "discovery")
        PROVE  /\ IsInjective(tasks'[t].rest)
               /\ \A s \in Range(tasks'[t].rest) :
                     /\ ~Has(art', "evaluation", tasks'[t].e.cor, s)
                     /\ \A u \in Unheard(tasks', "evaluation") : tasks'[u].e.sup # s
    <3>1. tasks'[t].rest = rest /\ tasks'[t].e.cor = cor
      BY <1>6, <1>8
    <3>2. \A s \in Range(rest) : s # sup /\ s \in Range(list)
      BY <1>2
    <3>3. \A s \in Range(rest) : \A u \in Unheard(tasks', "evaluation") : tasks'[u].e.sup # s
      BY <1>6, <1>9, <2>2, <3>2
    <3> QED  BY <1>2, <2>2, <3>1, <3>2, <3>3
  <2> QED  BY <2>3, <2>4, <2>5 DEF Evals
<1>17. Progress'
  <2>1. /\ \A q \in sent : Wanted(q) => UnderWay(q)
        /\ \A q \in Requests : <<q, "quote">> \in closed => ToDecide(q)
    BY SerialParts, ProgressIs
  <2>2. \A q, s : q = cor /\ s \in Range(list) => OnItsWay(q, s)'
    <3>1. ASSUME NEW q, q = cor PROVE OnItsWay(q, sup)'
      <4>1. PICK n : Fresh("evaluation") = {n}
        BY <1>9
      <4>2. n \in Unheard(tasks', "evaluation") /\ tasks'[n].e.cor = q /\ tasks'[n].e.sup = sup
        BY <1>6, <1>9, <3>1, <4>1
      <4> QED  BY <4>2 DEF OnItsWay, sup
    <3>2. ASSUME NEW q, q = cor, NEW s \in Range(rest) PROVE OnItsWay(q, s)'
      <4>1. Now \in Paused(tasks', "discovery") /\ tasks'[Now].e.cor = q /\ s \in Range(tasks'[Now].rest)
        BY <1>6, <1>8, <3>2
      <4>2. \E t \in Paused(tasks', "discovery") : tasks'[t].e.cor = q /\ s \in Range(tasks'[t].rest)
        BY <4>1
      <4> QED  BY <4>2 DEF OnItsWay
    <3> QED  BY <1>2, <3>1, <3>2
  <2>3. ASSUME NEW q, NEW s, OnItsWay(q, s) PROVE OnItsWay(q, s)'
    <3>1. CASE \E t \in Paused(tasks, "discovery") : tasks[t].e.cor = q /\ s \in Range(tasks[t].rest)
      <4>1. q = cor /\ s \in Range(list)
        BY <1>1, <1>7, <3>1
      <4> QED  BY <2>2, <4>1
    <3>2. CASE \E t \in Unheard(tasks, "evaluation") \cup Unheard(tasks, "negotiation") :
                   tasks[t].e.cor = q /\ tasks[t].e.sup = s
      <4>1. \E t \in Unheard(tasks', "evaluation") \cup Unheard(tasks', "negotiation") :
                tasks'[t].e.cor = q /\ tasks'[t].e.sup = s
        BY <1>8, <1>9, <3>2 DEF KeptU
      <4> QED  BY <4>1 DEF OnItsWay
    <3>3. CASE Has(art, "quote", q, s)
      BY <1>11, <3>3 DEF OnItsWay
    <3> QED  BY <2>3, <3>1, <3>2, <3>3 DEF OnItsWay
  <2>4. ASSUME NEW q \in sent, Wanted(q)
        PROVE  /\ \E i \in DOMAIN expect' : expect'[i].cor = q
               /\ \A s \in Suppliers : OnItsWay(q, s)'
    <3>1. CASE q = cor
      BY <2>2, <2>3, <2>4, <3>1
    <3>2. CASE q # cor
      <4>1. ~ \E t \in Starts(tasks) : tasks[t].e.cor = q
        BY <1>1, <1>7, <3>2
      <4>2. /\ \E i \in DOMAIN expect : expect[i].cor = q
            /\ \A s \in Suppliers : OnItsWay(q, s)
        BY <2>1, <2>4, <4>1 DEF UnderWay
      <4> QED  BY <2>3, <4>2
    <3> QED  BY <3>1, <3>2
  <2>5. \A q : ToDecide(q) => ToDecide(q)'
    BY <1>8, <1>11, ToDecideKept
  <2> QED  BY <2>1, <2>4, <2>5 DEF Progress, Wanted, ToDecide
<1> QED  BY <1>6, <1>12, <1>13, <1>14, <1>15, <1>16, <1>17 DEF SerialInv

\* Discovery begins: the pool is put on record and handed out.
LEMMA DiscoveryBegins ==
    ASSUME LoopInv, SerialInv, DiscoveryStep
    PROVE  /\ Steps /\ Me.h = "discovery" /\ ~Me.resumed /\ ~Me.e.replayed
           /\ art' = Append(art, Artifact("supplier_list", Me.e.cor, NoSup, Constraints))
           /\ expect' = Expecting(Me.e.cor, Len(Pool))
           /\ Say("SupplierDiscovered", Me.e.cor, Head(Pool), Tail(Pool))
           /\ agent'.requirement = agent.requirement /\ agent'.decision = agent.decision
           /\ agent'.discovery.cor = Me.e.cor /\ agent'.discovery.pool
           /\ agent'.discovery.done = agent.discovery.done
           /\ UNCHANGED <<events, closed, sent, answered>>
<1> DEFINE d == [agent.discovery EXCEPT !.cor = Me.e.cor]
           d2 == [d EXCEPT !.pool = TRUE]
<1>1. /\ Steps /\ Me.h = "discovery" /\ ~Me.resumed /\ ~Me.e.replayed
      /\ d.cor \notin d.done => /\ Put(Artifact("supplier_list", d.cor, NoSup, Constraints))
                                /\ expect' = Expecting(d.cor, Len(Pool))
                                /\ Discover(d2, Pool)
      /\ UNCHANGED <<events, closed, sent, answered>>
  BY DEF DiscoveryStep, Started, Running
<1>2. AgentOk(agent, sent)
  BY DEF LoopInv, Typed
<1>3. agent.discovery \in [cor : sent \cup {NoCor}, pool : BOOLEAN, done : SUBSET sent]
  BY <1>2 DEF AgentOk
<1>4. Me.e.cor \in sent /\ Now \in DOMAIN tasks /\ Me = tasks[Now]
  BY <1>1, Mine
<1>5. /\ d.cor = Me.e.cor /\ d.done = agent.discovery.done
      /\ d2.cor = Me.e.cor /\ d2.done = agent.discovery.done /\ d2.pool
  BY <1>3
<1> HIDE DEF d, d2
<1>6. d.cor \notin d.done
  <2>1. SUFFICES ASSUME Me.e.cor \in agent.discovery.done PROVE FALSE
    BY <1>5
  <2>2. Has(art, "supplier_list", Me.e.cor, NoSup)
    BY <2>1, SerialParts DEF Chain
  <2>3. Untouched(tasks[Now].e.cor)
    BY <1>1, <1>4, SerialParts DEF Chain, Starts, Unheard
  <2> QED  BY <1>4, <2>2, <2>3 DEF Has, Untouched, Products
<1>7. Pool # <<>>
  BY PoolAssumption
<1>8. agent' = [agent EXCEPT !.discovery = d2] /\ Say("SupplierDiscovered", d2.cor, Head(Pool), Tail(Pool))
  BY <1>1, <1>5, <1>6, <1>7 DEF Discover
<1>9. /\ agent'.requirement = agent.requirement /\ agent'.decision = agent.decision
      /\ agent'.discovery = d2
  BY <1>2, <1>8 DEF AgentOk
<1> QED  BY <1>1, <1>5, <1>6, <1>8, <1>9 DEF Put

LEMMA DiscoveryExpects ==
    ASSUME LoopInv, NEW cor \in sent, expect' = Expecting(cor, Len(Pool))
    PROVE  /\ \A i \in DOMAIN expect' : expect'[i].cor # cor => \E j \in DOMAIN expect : expect[j] = expect'[i]
           /\ \A i \in DOMAIN expect : \E j \in DOMAIN expect' : expect'[j].cor = expect[i].cor
           /\ \E i \in DOMAIN expect' : expect'[i].cor = cor
<1> DEFINE x == [cor |-> cor, count |-> Len(Pool)]
<1>1. \/ expect' = expect /\ \E i \in DOMAIN expect : expect[i].cor = cor
      \/ expect' = Append(expect, x)
  BY DEF Expecting
<1>2. expect \in Seq(Expectations(sent)) /\ x \in Expectations(sent) /\ x.cor = cor
  BY DEF LoopInv, Typed, Expectations
<1> HIDE DEF x
<1>3. CASE expect' = Append(expect, x)
  <2>1. /\ Len(expect) + 1 \in DOMAIN expect' /\ expect'[Len(expect) + 1] = x
        /\ \A i \in DOMAIN expect : i \in DOMAIN expect' /\ expect'[i] = expect[i]
        /\ \A i \in DOMAIN expect' : i \in DOMAIN expect \/ expect'[i] = x
    BY <1>2, <1>3
  <2> QED  BY <1>2, <2>1
<1> QED  BY <1>1, <1>3

LEMMA DiscoverySerial == ASSUME LoopInv, SerialInv, DiscoveryStep PROVE SerialInv'
<1> DEFINE a == Artifact("supplier_list", Me.e.cor, NoSup, Constraints)
           list == Pool
<1>1. /\ Steps /\ Me.h = "discovery" /\ ~Me.resumed /\ ~Me.e.replayed
      /\ art' = Append(art, a) /\ expect' = Expecting(Me.e.cor, Len(Pool))
      /\ Say("SupplierDiscovered", Me.e.cor, Head(list), Tail(list))
      /\ agent'.requirement = agent.requirement /\ agent'.decision = agent.decision
      /\ agent'.discovery.cor = Me.e.cor /\ agent'.discovery.pool
      /\ agent'.discovery.done = agent.discovery.done
      /\ UNCHANGED <<events, closed, sent, answered>>
  BY DiscoveryBegins
<1>2. Now \in DOMAIN tasks /\ Me = tasks[Now] /\ Me.e.cor \in sent
  BY <1>1, Mine
<1>3. Now \in Unheard(tasks, "discovery") /\ Now \in Starts(tasks)
  BY <1>1, <1>2 DEF Starts, Unheard
<1>4. /\ Known("requirement", NoSup) /\ Known("strategy", NoSup)
      /\ Untouched(Me.e.cor) /\ Unheard(tasks, "evaluation") = {}
  BY <1>1, <1>2, <1>3, SerialParts DEF Stocked, Chain
<1>5. a.kind = "supplier_list" /\ a.cor = Me.e.cor /\ a.sup = NoSup /\ ArtifactOk(a)
  <2>1. Constraints \in Demands
    BY <1>4, ConstraintsOk, SerialParts
  <2> QED  BY <2>1 DEF Artifact, ArtifactOk
<1> HIDE DEF a
<1>6. Grown(a) /\ Has(art', "supplier_list", Me.e.cor, NoSup)
  <2>1. Listed(art)
    BY DEF LoopInv, Typed
  <2>2. Grown(a) /\ Len(art) + 1 \in DOMAIN art' \ DOMAIN art
    BY <1>1, <2>1, GrownOne
  <2>3. art'[Len(art) + 1] = a
    BY <2>2 DEF Grown
  <2> QED  BY <1>5, <2>2, <2>3 DEF Has
<1>7. list \in Seq(Suppliers) /\ list # <<>> /\ IsInjective(list) /\ Range(list) = Suppliers
  <2>1. Range(list) = Suppliers
    BY DEF Range, Suppliers
  <2> QED  BY <2>1, PoolAssumption
<1>8. /\ \A i \in DOMAIN expect' : expect'[i].cor # Me.e.cor => \E j \in DOMAIN expect : expect[j] = expect'[i]
      /\ \A i \in DOMAIN expect : \E j \in DOMAIN expect' : expect'[j].cor = expect[i].cor
      /\ \E i \in DOMAIN expect' : expect'[i].cor = Me.e.cor
  <2> DEFINE cor == Me.e.cor
  <2>1. cor \in sent /\ expect' = Expecting(cor, Len(Pool))
    BY <1>1, <1>2
  <2> HIDE DEF cor
  <2>2. /\ \A i \in DOMAIN expect' : expect'[i].cor # cor => \E j \in DOMAIN expect : expect[j] = expect'[i]
        /\ \A i \in DOMAIN expect : \E j \in DOMAIN expect' : expect'[j].cor = expect[i].cor
        /\ \E i \in DOMAIN expect' : expect'[i].cor = cor
    BY <2>1, DiscoveryExpects
  <2> QED  BY <2>2 DEF cor
<1> HIDE DEF list
<1>9. \A t \in Paused(tasks, "discovery") : tasks[t].rest = list
  <2>1. \A t \in Paused(tasks, "discovery") : t = Now
    BY <1>3, SerialParts DEF Chain
  <2> QED  BY <1>1, <1>2, <2>1 DEF Paused
<1>10. \A s \in Range(list) : /\ ~Has(art, "evaluation", Me.e.cor, s)
                              /\ \A u \in Unheard(tasks, "evaluation") : tasks[u].e.sup # s
  BY <1>4 DEF Has, Untouched, Products
<1>11. Wanted(Me.e.cor) => \A s \in Suppliers : s \in Range(list) \/ OnItsWay(Me.e.cor, s)
  BY <1>7
<1>12. Now \in Starts(tasks) \cup Paused(tasks, "discovery")
  BY <1>3
<1> QED  BY <1>1, <1>4, <1>5, <1>6, <1>7, <1>8, <1>9, <1>10, <1>11, <1>12, DiscoverSays

\* Discovery goes on: the fields it reads are its own still.
LEMMA DiscoveryGoesOn ==
    ASSUME LoopInv, SerialInv, DiscoveryNext
    PROVE  /\ Steps /\ Me.h = "discovery" /\ Me.resumed /\ ~Me.e.replayed
           /\ Now \in Paused(tasks, "discovery")
           /\ agent.discovery.cor = Me.e.cor /\ agent.discovery.pool
           /\ Has(art, "supplier_list", Me.e.cor, NoSup)
           /\ UNCHANGED <<events, art, expect, closed, sent, answered>>
           /\ IF Me.rest = <<>>
              THEN /\ Finish /\ log' = log
                   /\ agent'.discovery.done = agent.discovery.done \cup {Me.e.cor}
              ELSE /\ Say("SupplierDiscovered", Me.e.cor, Head(Me.rest), Tail(Me.rest))
                   /\ agent'.discovery = agent.discovery
           /\ agent'.requirement = agent.requirement /\ agent'.decision = agent.decision
<1>1. /\ Steps /\ Me.h = "discovery" /\ Me.resumed /\ Discover(agent.discovery, Me.rest)
      /\ UNCHANGED <<events, art, expect, closed, sent, answered>>
  BY DEF DiscoveryNext, Resumed, Running
<1>2. AgentOk(agent, sent)
  BY DEF LoopInv, Typed
<1>3. agent.discovery \in [cor : sent \cup {NoCor}, pool : BOOLEAN, done : SUBSET sent]
  BY <1>2 DEF AgentOk
<1>4. Me.e.cor \in sent /\ Now \in DOMAIN tasks /\ Me = tasks[Now]
  BY <1>1, Mine
<1>5. Now \in Paused(tasks, "discovery")
  BY <1>1, <1>4 DEF Paused
<1>6. /\ agent.discovery.cor = Me.e.cor /\ agent.discovery.pool
      /\ Has(art, "supplier_list", Me.e.cor, NoSup)
  BY <1>4, <1>5, SerialParts DEF Chain
<1>7. ~Me.e.replayed
  BY <1>1, <1>4, SerialParts DEF OneCall
<1>8. CASE Me.rest = <<>>
  <2> DEFINE d == [agent.discovery EXCEPT !.done = @ \cup {agent.discovery.cor}, !.pool = FALSE]
  <2>1. agent' = [agent EXCEPT !.discovery = d] /\ Finish /\ log' = log
    BY <1>1, <1>8 DEF Discover, Return
  <2>2. d.done = agent.discovery.done \cup {Me.e.cor}
    BY <1>3, <1>6
  <2> HIDE DEF d
  <2>3. /\ agent'.requirement = agent.requirement /\ agent'.decision = agent.decision
        /\ agent'.discovery = d
    BY <1>2, <2>1 DEF AgentOk
  <2> QED  BY <1>1, <1>5, <1>6, <1>7, <1>8, <2>1, <2>2, <2>3
<1>9. CASE Me.rest # <<>>
  <2>1. /\ agent' = [agent EXCEPT !.discovery = agent.discovery]
        /\ Say("SupplierDiscovered", Me.e.cor, Head(Me.rest), Tail(Me.rest))
    BY <1>1, <1>6, <1>9 DEF Discover
  <2>2. /\ agent'.requirement = agent.requirement /\ agent'.decision = agent.decision
        /\ agent'.discovery = agent.discovery
    BY <1>2, <2>1 DEF AgentOk
  <2> QED  BY <1>1, <1>5, <1>6, <1>7, <1>9, <2>1, <2>2
<1> QED  BY <1>8, <1>9

LEMMA SupplierListed ==
    ASSUME LoopInv, art' = art, NEW cor
    PROVE  \E a : Grown(a) /\ a.kind = "supplier_list" /\ a.cor = cor /\ a.sup = NoSup
<1> DEFINE a == Artifact("supplier_list", cor, NoSup, 0)
<1>1. a.kind = "supplier_list" /\ a.cor = cor /\ a.sup = NoSup
  BY DEF Artifact
<1> HIDE DEF a
<1>2. Grown(a)
  BY GrownSame DEF LoopInv, Typed
<1> QED  BY <1>1, <1>2

LEMMA DiscoveryContinues == ASSUME LoopInv, SerialInv, DiscoveryNext, Me.rest # <<>> PROVE SerialInv'
<1> DEFINE list == Me.rest
<1>1. /\ Steps /\ Me.h = "discovery" /\ Me.resumed /\ ~Me.e.replayed
      /\ Now \in Paused(tasks, "discovery")
      /\ agent.discovery.cor = Me.e.cor /\ agent.discovery.pool
      /\ Has(art, "supplier_list", Me.e.cor, NoSup)
      /\ UNCHANGED <<events, art, expect, closed, sent, answered>>
      /\ Say("SupplierDiscovered", Me.e.cor, Head(list), Tail(list))
      /\ agent'.discovery = agent.discovery
      /\ agent'.requirement = agent.requirement /\ agent'.decision = agent.decision
  BY DiscoveryGoesOn
<1>2. Now \in DOMAIN tasks /\ Me = tasks[Now] /\ Me.e.cor \in sent /\ list \in Seq(Suppliers)
  BY <1>1, Mine DEF WorkOk
<1>3. \A t \in Starts(tasks) \cup Paused(tasks, "discovery") : t = Now
  BY <1>1, SerialParts DEF Chain
<1>4. /\ Starts(tasks) = {}
  BY <1>1, <1>3 DEF Starts, Unheard, Paused
<1>5. IsInjective(list) /\ \A s \in Range(list) : /\ ~Has(art, "evaluation", Me.e.cor, s)
                              /\ \A u \in Unheard(tasks, "evaluation") : tasks[u].e.sup # s
  BY <1>1, <1>2, SerialParts DEF Evals
<1>6. PICK a : Grown(a) /\ a.kind = "supplier_list" /\ a.cor = Me.e.cor /\ a.sup = NoSup
  BY <1>1, SupplierListed
<1>7. \A t \in Paused(tasks, "discovery") : tasks[t].rest = list
  BY <1>2, <1>3
<1>8. ASSUME Wanted(Me.e.cor)
      PROVE  /\ \E i \in DOMAIN expect : expect[i].cor = Me.e.cor
             /\ \A s \in Suppliers : OnItsWay(Me.e.cor, s)
  <2>1. UnderWay(Me.e.cor)
    BY <1>2, <1>8, SerialParts, ProgressIs
  <2> QED  BY <1>4, <2>1 DEF UnderWay
<1>9. /\ art' = art /\ expect' = expect /\ agent'.discovery.cor = Me.e.cor /\ agent'.discovery.pool
      /\ agent'.discovery.done = agent.discovery.done
      /\ Has(art', "supplier_list", Me.e.cor, NoSup)
      /\ UNCHANGED <<events, closed, sent, answered>>
  BY <1>1
<1>10. list # <<>>
  OBVIOUS
<1>11. /\ \A i \in DOMAIN expect' : expect'[i].cor # Me.e.cor => \E j \in DOMAIN expect : expect[j] = expect'[i]
       /\ \A i \in DOMAIN expect : \E j \in DOMAIN expect' : expect'[j].cor = expect[i].cor
       /\ Wanted(Me.e.cor) => \E i \in DOMAIN expect' : expect'[i].cor = Me.e.cor
  BY <1>8, <1>9
<1> HIDE DEF list
<1>12. /\ Wanted(Me.e.cor) => \A s \in Suppliers : s \in Range(list) \/ OnItsWay(Me.e.cor, s)
       /\ Now \in Starts(tasks) \cup Paused(tasks, "discovery")
  BY <1>1, <1>8
<1> QED  BY <1>1, <1>2, <1>5, <1>6, <1>7, <1>9, <1>10, <1>11, <1>12, DiscoverSays

\* The last of the pool has been announced, and what it led to is done.
LEMMA DiscoveryReturns == ASSUME LoopInv, SerialInv, DiscoveryNext, Me.rest = <<>> PROVE SerialInv'
<1>1. /\ Steps /\ Me.h = "discovery" /\ Me.resumed /\ ~Me.e.replayed
      /\ Now \in Paused(tasks, "discovery")
      /\ Has(art, "supplier_list", Me.e.cor, NoSup)
      /\ UNCHANGED <<events, art, expect, closed, sent, answered>>
      /\ Finish /\ log' = log
      /\ agent'.discovery.done = agent.discovery.done \cup {Me.e.cor}
      /\ agent'.requirement = agent.requirement /\ agent'.decision = agent.decision
  BY DiscoveryGoesOn
<1>2. Now \in DOMAIN tasks /\ Me = tasks[Now]
  BY <1>1, Mine
<1>3. Ends
  BY <1>1, EndsOk
<1>4. Turn({Now}, {}, {}, 0)
  BY <1>3, TurnEnds
<1>5. OneCall(tasks')
  BY <1>3, OneCallEnds, SerialParts
<1>6. Quiet
  BY <1>1, QuietPut
<1>7. Watched'
  <2>1. \A pair \in Requests \X {"evaluation", "quote"} : Complete(pair)' => Complete(pair)
    BY <1>1, <1>6, CompleteSame
  <2>2. \A t \in {Now} : tasks[t].h # "tracker"
    BY <1>1, <1>2
  <2> QED  BY <1>4, <2>1, <2>2, WatchedTurn, SerialParts
<1>8. Pending'
  <2>1. \A t \in {Now} : tasks[t].h # "requirement"
    BY <1>1, <1>2
  <2> QED  BY <1>1, <1>4, <2>1, PendingTurn, SerialParts
<1>9. \A t \in Starts(tasks) \cup Paused(tasks, "discovery") : t = Now
  BY <1>1, SerialParts DEF Chain
<1>10. /\ KeptU("evaluation") /\ KeptU("negotiation") /\ KeptU("decision") /\ KeptU("strategy")
       /\ KeptP("decision") /\ Starts(tasks) = {} /\ Starts(tasks') = {}
       /\ Paused(tasks', "discovery") = {}
  <2>1. {"discovery", "evaluation", "negotiation", "decision", "strategy"} \subseteq Tracked
    BY DEF Tracked
  <2>2. \A h : Now \notin Unheard(tasks, h)
    BY <1>1, <1>2 DEF Unheard
  <2>3. /\ KeptU("evaluation") /\ KeptU("negotiation") /\ KeptU("decision") /\ KeptU("strategy")
    BY <1>4, <2>1, <2>2, TurnKeepsU
  <2>4. KeptP("decision")
    <3>1. Now \notin Paused(tasks, "decision")
      BY <1>1, <1>2 DEF Paused
    <3> QED  BY <1>4, <2>1, <3>1, TurnKeepsP
  <2>5. Starts(tasks) = {}
    BY <1>9, <2>2 DEF Starts
  <2>6. KeptS
    BY <1>4, <2>5, TurnKeepsS
  <2>7. Paused(tasks', "discovery") = {}
    BY <1>4, <1>9, <2>1 DEF Turn
  <2> QED  BY <2>3, <2>4, <2>5, <2>6, <2>7 DEF KeptS
<1>11. \A K : KeptA(K)
  BY <1>1 DEF KeptA
<1>12. Stocked'
  <2>1. \A t \in Unheard(tasks', "strategy") : t \in Unheard(tasks, "strategy") /\ tasks'[t].e = tasks[t].e
    BY <1>10 DEF KeptU
  <2>2. \A i \in DOMAIN art' : i \in DOMAIN art
    BY <1>1
  <2> QED  BY <1>1, <1>10, <2>1, <2>2, StockedMore, SerialParts
<1>13. Chain'
  <2>1. \A r \in agent'.discovery.done : Has(art', "supplier_list", r, NoSup)
    BY <1>1, SerialParts DEF Chain
  <2> QED  BY <1>10, <2>1 DEF Chain
<1>14. Evals'
  <2>1. Unheard(tasks', "evaluation") = Unheard(tasks, "evaluation")
        /\ \A t \in Unheard(tasks, "evaluation") : tasks'[t].e = tasks[t].e
    BY <1>10 DEF KeptU
  <2> QED  BY <1>1, <1>10, <2>1, SerialParts DEF Evals
<1>15. Offers' /\ Decides' /\ Explains'
  <2>1. Offers /\ Decides /\ Explains /\ Listed(art)
    BY SerialParts DEF LoopInv, Typed
  <2> QED  BY <1>1, <1>10, <1>11, <2>1, OffersKept, DecidesKept, ExplainsKept
<1>16. Progress'
  <2>1. /\ \A q \in sent : Wanted(q) => UnderWay(q)
        /\ \A q \in Requests : <<q, "quote">> \in closed => ToDecide(q)
    BY SerialParts, ProgressIs
  <2>2. ASSUME NEW q, NEW s, OnItsWay(q, s) PROVE OnItsWay(q, s)'
    <3>1. ~ \E t \in Paused(tasks, "discovery") : tasks[t].e.cor = q /\ s \in Range(tasks[t].rest)
      <4>1. \A t \in Paused(tasks, "discovery") : tasks[t].rest = <<>>
        BY <1>2, <1>9
      <4>2. \A x : x \notin Range(<<>>)
        BY DEF Range
      <4> QED  BY <4>1, <4>2
    <3>2. CASE \E t \in Unheard(tasks, "evaluation") \cup Unheard(tasks, "negotiation") :
                   tasks[t].e.cor = q /\ tasks[t].e.sup = s
      <4>1. \E t \in Unheard(tasks', "evaluation") \cup Unheard(tasks', "negotiation") :
                tasks'[t].e.cor = q /\ tasks'[t].e.sup = s
        BY <1>10, <3>2 DEF KeptU
      <4> QED  BY <4>1 DEF OnItsWay
    <3>3. CASE Has(art, "quote", q, s)
      BY <1>1, <3>3 DEF OnItsWay
    <3> QED  BY <2>2, <3>1, <3>2, <3>3 DEF OnItsWay
  <2>3. ASSUME NEW q \in sent, Wanted(q)
        PROVE  /\ \E i \in DOMAIN expect' : expect'[i].cor = q
               /\ \A s \in Suppliers : OnItsWay(q, s)'
    BY <1>1, <1>10, <2>1, <2>2, <2>3 DEF UnderWay
  <2>4. \A q : ToDecide(q) => ToDecide(q)'
    BY <1>1, <1>10, ToDecideKept
  <2> QED  BY <1>1, <2>1, <2>3, <2>4 DEF Progress, Wanted, ToDecide
<1> QED  BY <1>5, <1>7, <1>8, <1>12, <1>13, <1>14, <1>15, <1>16 DEF SerialInv

LEMMA DiscoveryNextSerial == ASSUME LoopInv, SerialInv, DiscoveryNext PROVE SerialInv'
BY DiscoveryContinues, DiscoveryReturns

(***************************************************************************)
(* An evaluation and the offer that follows from it.                       *)
(***************************************************************************)
Announced(type, sup) ==
    \E e : /\ e.type = type /\ e.cor = Me.e.cor /\ e.sup = sup /\ ~e.replayed
           /\ Turn({Now}, {Now}, Handlers(type), e)
           /\ OneCall(tasks') /\ Watched'
NoOther ==
    \A pair \in Requests \X {"evaluation", "quote"} :
        pair[1] # Me.e.cor /\ Complete(pair)' => Complete(pair)

LEMMA AgentSpeaks ==
    ASSUME LoopInv, SerialInv, Steps, Me.h \in {"evaluation", "negotiation", "decision"},
           ~Me.e.replayed, NEW type \in Types, NEW sup \in Suppliers \cup {NoSup},
           NEW rest, RestOk(Me.h, rest, sent), Say(type, Me.e.cor, sup, rest),
           UNCHANGED <<events, sent, answered>>, NoOther
    PROVE  Announced(type, sup)
<1>1. /\ Me.h \notin {"recorder", "client"}
      /\ \A pair \in Requests \X {"evaluation", "quote"} :
             pair[1] # Me.e.cor /\ Complete(pair)' => Complete(pair)
  BY DEF NoOther
<1>2. \E e : /\ e.type = type /\ e.cor = Me.e.cor /\ e.sup = sup /\ ~e.replayed
             /\ Turn({Now}, {Now}, Handlers(type), e)
             /\ OneCall(tasks') /\ Watched'
  BY <1>1, OwnSays
<1> QED  BY <1>2 DEF Announced

\* A step that puts an artifact of its own request on record and announces it.
LEMMA PutSpeaks ==
    ASSUME LoopInv, SerialInv, Steps, Me.h \in {"evaluation", "negotiation", "decision"},
           ~Me.e.replayed, NEW type \in Types, NEW sup \in Suppliers \cup {NoSup},
           Say(type, Me.e.cor, sup, <<>>), NEW a, a.cor = Me.e.cor, art' = Append(art, a),
           UNCHANGED <<events, expect, closed, sent, answered>>
    PROVE  Announced(type, sup)
<1> DEFINE cor == Me.e.cor
           rest == <<>>
<1>1. \A pair \in Requests \X {"evaluation", "quote"} :
          pair[1] # cor /\ Complete(pair)' => Complete(pair)
  <2> HIDE DEF cor
  <2>1. closed' = closed /\ (art' = art \/ \E x : x.cor = cor /\ art' = Append(art, x))
    BY DEF cor
  <2>2. \A i \in DOMAIN expect' : expect'[i].cor # cor => \E j \in DOMAIN expect : expect[j] = expect'[i]
    OBVIOUS
  <2> QED  BY <2>1, <2>2, CompleteElse
<1>2. Say(type, Me.e.cor, sup, rest) /\ RestOk(Me.h, rest, sent) /\ NoOther
  BY <1>1 DEF RestOk, Lists, NoOther
<1> HIDE DEF rest, cor
<1> QED  BY <1>2, AgentSpeaks

LEMMA EvaluationPuts ==
    ASSUME LoopInv, SerialInv, EvaluationStep
    PROVE  /\ Steps /\ Me.h = "evaluation" /\ ~Me.resumed /\ ~Me.e.replayed
           /\ Now \in Unheard(tasks, "evaluation") /\ Me.e.sup \in Suppliers
           /\ Say("SupplierEvaluated", Me.e.cor, Me.e.sup, <<>>)
           /\ UNCHANGED <<events, expect, closed, agent, sent, answered>>
           /\ Known("requirement", NoSup) /\ Known("strategy", NoSup)
           /\ Has(art, "supplier_list", Me.e.cor, NoSup)
           /\ ~Has(art, "evaluation", Me.e.cor, Me.e.sup)
           /\ \E a : /\ art' = Append(art, a) /\ ArtifactOk(a) /\ a.kind = "evaluation"
                     /\ a.cor = Me.e.cor /\ a.sup = Me.e.sup
<1> DEFINE score == EvaluationScore(Me.e.sup, ReadStrategy, Get("supplier_list", NoSup).data)
           a == Artifact("evaluation", Me.e.cor, Me.e.sup, [strategy |-> ReadStrategy, score |-> score])
<1>1. /\ Steps /\ Me.h = "evaluation" /\ ~Me.resumed /\ ~Me.e.replayed /\ art' = Append(art, a)
      /\ Say("SupplierEvaluated", Me.e.cor, Me.e.sup, <<>>)
      /\ UNCHANGED <<events, expect, closed, agent, sent, answered>>
  BY DEF EvaluationStep, Put, Started, Running
<1>2. Now \in DOMAIN tasks /\ Me = tasks[Now]
  BY <1>1, Mine
<1>3. Now \in Unheard(tasks, "evaluation")
  BY <1>1, <1>2 DEF Unheard
<1>4. /\ Me.e.sup \in Suppliers /\ Has(art, "supplier_list", Me.e.cor, NoSup)
      /\ ~Has(art, "evaluation", Me.e.cor, Me.e.sup)
  BY <1>2, <1>3, SerialParts DEF Evals
<1>5. PICK k \in DOMAIN art : art[k].kind = "supplier_list" /\ art[k].sup = NoSup
  BY <1>4 DEF Has
<1>6. Known("requirement", NoSup) /\ Known("strategy", NoSup) /\ Known("supplier_list", NoSup)
  BY <1>5, SerialParts DEF Stocked, Products, Known, Named
<1>7. Get("supplier_list", NoSup).data \in Demands
  <2>1. \E i \in DOMAIN art : art[i].kind = "supplier_list" /\ Get("supplier_list", NoSup) = art[i]
    BY <1>6, GetOne, SerialParts
  <2> QED  BY <2>1, SerialParts DEF Stocked, ArtifactOk
<1>8. ReadStrategy \in DOMAIN Weights
  <2>1. \E i \in DOMAIN art : art[i].kind = "strategy" /\ Get("strategy", NoSup) = art[i]
    BY <1>6, GetOne, SerialParts
  <2> QED  BY <1>6, <2>1, SerialParts DEF Stocked, ArtifactOk, ReadStrategy
<1>9. score \in Int
  BY <1>4, <1>7, <1>8, ScoreOk
<1> HIDE DEF score
<1>10. ArtifactOk(a) /\ a.kind = "evaluation" /\ a.cor = Me.e.cor /\ a.sup = Me.e.sup
  BY <1>9 DEF ArtifactOk, Artifact
<1> QED  BY <1>1, <1>3, <1>4, <1>6, <1>10

LEMMA EvaluationSerial == ASSUME LoopInv, SerialInv, EvaluationStep PROVE SerialInv'
<1> DEFINE cor == Me.e.cor
           sup == Me.e.sup
           H == Handlers("SupplierEvaluated")
<1>1. /\ Steps /\ Me.h = "evaluation" /\ ~Me.resumed /\ ~Me.e.replayed
      /\ Now \in Unheard(tasks, "evaluation") /\ sup \in Suppliers
      /\ Say("SupplierEvaluated", cor, sup, <<>>)
      /\ UNCHANGED <<events, expect, closed, agent, sent, answered>>
      /\ Known("requirement", NoSup) /\ Known("strategy", NoSup)
      /\ Has(art, "supplier_list", cor, NoSup) /\ ~Has(art, "evaluation", cor, sup)
  BY EvaluationPuts
<1>2. PICK a : /\ art' = Append(art, a) /\ ArtifactOk(a) /\ a.kind = "evaluation"
               /\ a.cor = cor /\ a.sup = sup
  BY EvaluationPuts
<1>3. Now \in DOMAIN tasks /\ Me = tasks[Now] /\ cor \in sent /\ Listed(art)
  BY <1>1, Mine DEF LoopInv, Typed
<1>4. Grown(a) /\ Has(art', "evaluation", cor, sup)
  <2>1. Grown(a) /\ Len(art) + 1 \in DOMAIN art' \ DOMAIN art
    BY <1>2, <1>3, GrownOne
  <2>2. art'[Len(art) + 1] = a
    BY <2>1 DEF Grown
  <2> QED  BY <1>2, <2>1, <2>2 DEF Has
<1>5. "SupplierEvaluated" \in Types
  BY DEF Types, Sourced
<1>6. /\ "negotiation" \in H
      /\ H \cap {"requirement", "strategy", "discovery", "evaluation", "decision"} = {}
  BY <1>5, WhoHears
<1>7. PICK e : /\ e.type = "SupplierEvaluated" /\ e.cor = Me.e.cor /\ e.sup = Me.e.sup /\ ~e.replayed
               /\ Turn({Now}, {Now}, H, e) /\ OneCall(tasks') /\ Watched'
  <2> HIDE DEF cor, sup
  <2>1. sup \in Suppliers \cup {NoSup}
    BY <1>1
  <2>2. /\ Steps /\ Me.h \in {"evaluation", "negotiation", "decision"} /\ ~Me.e.replayed
        /\ Say("SupplierEvaluated", Me.e.cor, sup, <<>>) /\ a.cor = Me.e.cor /\ art' = Append(art, a)
        /\ UNCHANGED <<events, expect, closed, sent, answered>>
    BY <1>1, <1>2 DEF cor
  <2>3. Announced("SupplierEvaluated", sup)
    BY <1>5, <2>1, <2>2, PutSpeaks
  <2> QED  BY <2>3 DEF sup, Announced
<1> HIDE DEF H
<1>8. Starts(tasks) = {}
  BY <1>1, SerialParts DEF Chain
<1>9. /\ KeptS /\ KeptU("decision") /\ KeptU("strategy") /\ KeptP("discovery") /\ KeptP("decision")
  <2>1. {"discovery", "strategy", "decision"} \subseteq Tracked
    BY DEF Tracked
  <2>2. /\ \A h \in {"strategy", "decision"} : Now \notin Unheard(tasks, h)
        /\ \A h : Now \notin Paused(tasks, h)
    BY <1>1, <1>3 DEF Unheard, Paused
  <2>3. KeptU("decision") /\ KeptU("strategy")
    BY <1>6, <1>7, <2>1, <2>2, TurnKeepsU
  <2>4. KeptP("discovery") /\ KeptP("decision")
    BY <1>1, <1>3, <1>7, <2>1, <2>2, TurnKeepsP
  <2>5. KeptS
    BY <1>6, <1>7, <1>8, TurnKeepsS
  <2> QED  BY <2>3, <2>4, <2>5
<1>10. /\ Unheard(tasks', "evaluation") = Unheard(tasks, "evaluation") \ {Now}
       /\ Unheard(tasks', "negotiation") = Unheard(tasks, "negotiation") \cup Fresh("negotiation")
       /\ \A t \in Unheard(tasks', "evaluation") \cup Unheard(tasks, "negotiation") : tasks'[t].e = tasks[t].e
       /\ \A t \in Fresh("negotiation") : tasks'[t].e.cor = cor /\ tasks'[t].e.sup = sup
       /\ \E n : Fresh("negotiation") = {n}
  <2>1. Now \notin Unheard(tasks, "negotiation")
    BY <1>1, <1>3 DEF Unheard
  <2>2. Fresh("evaluation") = {} /\ \E n : Fresh("negotiation") = {n}
    BY <1>6, <1>7 DEF Turn, Tracked
  <2>3. /\ Unheard(tasks', "evaluation") = (Unheard(tasks, "evaluation") \ {Now}) \cup Fresh("evaluation")
        /\ \A t \in Unheard(tasks, "evaluation") \ {Now} : tasks'[t].e = tasks[t].e
    BY <1>7, TurnUnheard DEF Tracked
  <2>4. /\ Unheard(tasks', "negotiation") = (Unheard(tasks, "negotiation") \ {Now}) \cup Fresh("negotiation")
        /\ \A t \in Unheard(tasks, "negotiation") \ {Now} : tasks'[t].e = tasks[t].e
        /\ \A t \in Fresh("negotiation") : tasks'[t].e = e
    BY <1>7, TurnUnheard DEF Tracked
  <2> QED  BY <1>7, <2>1, <2>2, <2>3, <2>4
<1>11. KeptA({"quote"}) /\ KeptA({"decision"}) /\ KeptA({"decision", "decision_explanation"})
  BY <1>2, <1>4, GrownKeeps
<1>12. /\ \A kind, c, s : Has(art, kind, c, s) => Has(art', kind, c, s)
       /\ \A c, s : Has(art', "evaluation", c, s) => Has(art, "evaluation", c, s) \/ (c = cor /\ s = sup)
  BY <1>2, <1>4, HasMore
<1> HIDE DEF cor, sup
<1>13. Pending'
  <2>1. \A t \in {Now} : tasks[t].h # "requirement"
    BY <1>1, <1>3
  <2> QED  BY <1>1, <1>7, <2>1, PendingTurn, SerialParts
<1>14. Stocked'
  <2>1. \A t \in Unheard(tasks', "strategy") : t \in Unheard(tasks, "strategy") /\ tasks'[t].e = tasks[t].e
    BY <1>9 DEF KeptU
  <2>2. \A kind : Known(kind, NoSup) => Known(kind, NoSup)'
    BY <1>11 DEF Known, Named, KeptA
  <2>3. \A i \in DOMAIN art' \ DOMAIN art : /\ ArtifactOk(art'[i]) /\ art'[i].cor \in sent'
                                            /\ Known("requirement", NoSup)' /\ Known("strategy", NoSup)'
    BY <1>1, <1>2, <1>3, <1>4, <2>2 DEF Grown
  <2>4. \A i \in DOMAIN art : i \in DOMAIN art' /\ art'[i] = art[i]
    BY <1>4 DEF Grown
  <2> QED  BY <1>1, <1>8, <1>9, <2>1, <2>3, <2>4, StockedMore, SerialParts DEF KeptS
<1>15. Chain'
  <2>1. Starts(tasks') = {}
    BY <1>8, <1>9 DEF KeptS
  <2> QED  BY <1>1, <1>8, <1>9, <1>12, <2>1, SerialParts DEF Chain, KeptP
<1>16. Evals'
  <2>1. \A t \in Unheard(tasks, "evaluation") : t # Now => tasks[t].e.sup # sup
    BY <1>1, <1>3, SerialParts DEF Evals, sup
  <2>2. \A t, u \in Unheard(tasks', "evaluation") : tasks'[t].e.sup = tasks'[u].e.sup => t = u
    BY <1>10, SerialParts DEF Evals
  <2>3. ASSUME NEW t \in Unheard(tasks', "evaluation")
        PROVE  /\ tasks'[t].e.sup \in Suppliers
               /\ Has(art', "supplier_list", tasks'[t].e.cor, NoSup)
               /\ ~Has(art', "evaluation", tasks'[t].e.cor, tasks'[t].e.sup)
    <3>1. /\ t \in Unheard(tasks, "evaluation") /\ t # Now /\ tasks'[t].e = tasks[t].e
      BY <1>10, <2>3
    <3>2. /\ tasks[t].e.sup \in Suppliers /\ Has(art, "supplier_list", tasks[t].e.cor, NoSup)
          /\ ~Has(art, "evaluation", tasks[t].e.cor, tasks[t].e.sup)
      BY <3>1, SerialParts DEF Evals
    <3> QED  BY <1>12, <2>1, <3>1, <3>2
  <2>4. ASSUME NEW t \in Paused(tasks', "discovery")
        PROVE  /\ IsInjective(tasks'[t].rest)
               /\ \A s \in Range(tasks'[t].rest) :
                     /\ ~Has(art', "evaluation", tasks'[t].e.cor, s)
                     /\ \A u \in Unheard(tasks', "evaluation") : tasks'[u].e.sup # s
    <3>1. t \in Paused(tasks, "discovery") /\ tasks'[t].e = tasks[t].e /\ tasks'[t].rest = tasks[t].rest
      BY <1>9, <2>4 DEF KeptP
    <3>2. /\ IsInjective(tasks[t].rest)
          /\ \A s \in Range(tasks[t].rest) :
                /\ ~Has(art, "evaluation", tasks[t].e.cor, s)
                /\ \A u \in Unheard(tasks, "evaluation") : tasks[u].e.sup # s
      BY <3>1, SerialParts DEF Evals
    <3>3. \A s \in Range(tasks[t].rest) : s # sup
      BY <1>1, <1>3, <3>2 DEF sup
    <3> QED  BY <1>10, <1>12, <3>1, <3>2, <3>3
  <2> QED  BY <2>2, <2>3, <2>4 DEF Evals
<1>17. Offers'
  <2>1. \A c, s : Has(art', "quote", c, s) <=> Has(art, "quote", c, s)
    BY <1>11, HasKept
  <2>2. ~Has(art, "quote", cor, sup)
    BY <1>1, SerialParts DEF Offers, Has
  <2>3. \A t \in Unheard(tasks, "negotiation") : tasks[t].e.sup # sup
    <3>1. ASSUME NEW t \in Unheard(tasks, "negotiation"), tasks[t].e.sup = sup PROVE FALSE
      <4>1. Has(art, "evaluation", tasks[t].e.cor, tasks[t].e.sup)
        BY <3>1, SerialParts DEF Offers
      <4>2. tasks[t].e.cor = cor
        BY <1>1, <1>3, <3>1, SerialParts DEF OneCall, Unheard, cor
      <4> QED  BY <1>1, <3>1, <4>1, <4>2
    <3> QED  BY <3>1
  <2>4. \A t, u \in Unheard(tasks', "negotiation") : tasks'[t].e.sup = tasks'[u].e.sup => t = u
    <3>1. \A t, u \in Unheard(tasks, "negotiation") : tasks[t].e.sup = tasks[u].e.sup => t = u
      BY SerialParts DEF Offers
    <3> QED  BY <1>10, <2>3, <3>1
  <2>5. ASSUME NEW t \in Unheard(tasks', "negotiation")
        PROVE  /\ tasks'[t].e.sup \in Suppliers
               /\ Has(art', "supplier_list", tasks'[t].e.cor, NoSup)
               /\ Has(art', "evaluation", tasks'[t].e.cor, tasks'[t].e.sup)
               /\ ~Has(art', "quote", tasks'[t].e.cor, tasks'[t].e.sup)
    <3>1. CASE t \in Unheard(tasks, "negotiation")
      <4>1. /\ tasks[t].e.sup \in Suppliers
            /\ Has(art, "supplier_list", tasks[t].e.cor, NoSup)
            /\ Has(art, "evaluation", tasks[t].e.cor, tasks[t].e.sup)
            /\ ~Has(art, "quote", tasks[t].e.cor, tasks[t].e.sup)
        BY <3>1, SerialParts DEF Offers
      <4> QED  BY <1>10, <1>12, <2>1, <3>1, <4>1
    <3>2. CASE t \in Fresh("negotiation")
      <4>1. tasks'[t].e.cor = cor /\ tasks'[t].e.sup = sup
        BY <1>10, <3>2
      <4>2. Has(art', "evaluation", cor, sup)
        BY <1>4 DEF cor, sup
      <4> QED  BY <1>1, <1>12, <2>1, <2>2, <4>1, <4>2
    <3> QED  BY <1>10, <3>1, <3>2
  <2>6. ASSUME NEW i \in DOMAIN art', art'[i].kind = "quote"
        PROVE  /\ art'[i].sup \in Suppliers
               /\ Has(art', "evaluation", art'[i].cor, art'[i].sup)
               /\ \A j \in DOMAIN art' :
                     art'[j].kind = "quote" /\ art'[j].cor = art'[i].cor /\ art'[j].sup = art'[i].sup => j = i
    <3>1. \A j \in DOMAIN art' : art'[j].kind = "quote" => j \in DOMAIN art /\ art'[j] = art[j]
      BY <1>11 DEF KeptA
    <3>2. i \in DOMAIN art /\ art'[i] = art[i] /\ art[i].kind = "quote"
      BY <2>6, <3>1
    <3>3. /\ art[i].sup \in Suppliers
          /\ Has(art, "evaluation", art[i].cor, art[i].sup)
          /\ \A j \in DOMAIN art :
                art[j].kind = "quote" /\ art[j].cor = art[i].cor /\ art[j].sup = art[i].sup => j = i
      BY <3>2, SerialParts DEF Offers
    <3> QED  BY <1>12, <3>1, <3>2, <3>3
  <2> QED  BY <2>4, <2>5, <2>6 DEF Offers
<1>18. Decides' /\ Explains'
  <2>1. Decides /\ Explains /\ agent'.decision = agent.decision /\ closed' = closed
    BY <1>1, SerialParts
  <2> QED  BY <1>3, <1>9, <1>11, <2>1, DecidesKept, ExplainsKept
<1>19. Progress'
  <2>1. /\ \A q \in sent : Wanted(q) => UnderWay(q)
        /\ \A q \in Requests : <<q, "quote">> \in closed => ToDecide(q)
    BY SerialParts, ProgressIs
  <2>2. ASSUME NEW q, NEW s, OnItsWay(q, s) PROVE OnItsWay(q, s)'
    <3>1. CASE \E t \in Paused(tasks, "discovery") : tasks[t].e.cor = q /\ s \in Range(tasks[t].rest)
      <4>1. \E t \in Paused(tasks', "discovery") : tasks'[t].e.cor = q /\ s \in Range(tasks'[t].rest)
        BY <1>9, <3>1 DEF KeptP
      <4> QED  BY <4>1 DEF OnItsWay
    <3>2. CASE \E t \in Unheard(tasks, "evaluation") \cup Unheard(tasks, "negotiation") :
                   tasks[t].e.cor = q /\ tasks[t].e.sup = s
      <4>1. PICK t \in Unheard(tasks, "evaluation") \cup Unheard(tasks, "negotiation") :
                   tasks[t].e.cor = q /\ tasks[t].e.sup = s
        BY <3>2
      <4>2. CASE t = Now
        <5>1. q = cor /\ s = sup
          BY <1>3, <4>1, <4>2 DEF cor, sup
        <5>2. \E n \in Unheard(tasks', "negotiation") : tasks'[n].e.cor = q /\ tasks'[n].e.sup = s
          BY <1>10, <5>1
        <5> QED  BY <5>2 DEF OnItsWay
      <4>3. CASE t # Now
        <5>1. \E u \in Unheard(tasks', "evaluation") \cup Unheard(tasks', "negotiation") :
                  tasks'[u].e.cor = q /\ tasks'[u].e.sup = s
          BY <1>10, <4>1, <4>3
        <5> QED  BY <5>1 DEF OnItsWay
      <4> QED  BY <4>2, <4>3
    <3>3. CASE Has(art, "quote", q, s)
      BY <1>12, <3>3 DEF OnItsWay
    <3> QED  BY <2>2, <3>1, <3>2, <3>3 DEF OnItsWay
  <2>3. ASSUME NEW q \in sent, Wanted(q)
        PROVE  /\ \E i \in DOMAIN expect' : expect'[i].cor = q
               /\ \A s \in Suppliers : OnItsWay(q, s)'
    BY <1>1, <1>8, <2>1, <2>2, <2>3 DEF UnderWay
  <2>4. \A q : ToDecide(q) => ToDecide(q)'
    BY <1>9, <1>12, ToDecideKept
  <2> QED  BY <1>1, <2>1, <2>3, <2>4 DEF Progress, Wanted, ToDecide
<1> QED  BY <1>7, <1>13, <1>14, <1>15, <1>16, <1>17, <1>18, <1>19 DEF SerialInv

LEMMA NegotiationPuts ==
    ASSUME LoopInv, SerialInv, NegotiationStep
    PROVE  /\ Steps /\ Me.h = "negotiation" /\ ~Me.resumed /\ ~Me.e.replayed
           /\ Now \in Unheard(tasks, "negotiation") /\ Me.e.sup \in Suppliers
           /\ Say("QuoteGenerated", Me.e.cor, Me.e.sup, <<>>)
           /\ UNCHANGED <<events, expect, closed, agent, sent, answered>>
           /\ Known("requirement", NoSup) /\ Known("strategy", NoSup)
           /\ Has(art, "evaluation", Me.e.cor, Me.e.sup)
           /\ ~Has(art, "quote", Me.e.cor, Me.e.sup)
           /\ \E a : /\ art' = Append(art, a) /\ ArtifactOk(a) /\ a.kind = "quote"
                     /\ a.cor = Me.e.cor /\ a.sup = Me.e.sup
<1> DEFINE carbon == CarbonFootprint(Me.e.sup, Get("supplier_list", NoSup).data.quantity)
           a == Artifact("quote", Me.e.cor, Me.e.sup, [price |-> FloorPrice(Me.e.sup), carbon |-> carbon])
<1>1. /\ Steps /\ Me.h = "negotiation" /\ ~Me.resumed /\ ~Me.e.replayed /\ art' = Append(art, a)
      /\ Say("QuoteGenerated", Me.e.cor, Me.e.sup, <<>>)
      /\ UNCHANGED <<events, expect, closed, agent, sent, answered>>
  BY DEF NegotiationStep, Put, Started, Running
<1> HIDE DEF carbon
<1>2. Now \in DOMAIN tasks /\ Me = tasks[Now]
  BY <1>1, Mine
<1>3. Now \in Unheard(tasks, "negotiation")
  BY <1>1, <1>2 DEF Unheard
<1>4. /\ Me.e.sup \in Suppliers /\ Has(art, "evaluation", Me.e.cor, Me.e.sup)
      /\ ~Has(art, "quote", Me.e.cor, Me.e.sup)
  BY <1>2, <1>3, SerialParts DEF Offers
<1>5. \E k \in DOMAIN art : art[k].kind = "evaluation"
  BY <1>4 DEF Has
<1>6. Known("requirement", NoSup) /\ Known("strategy", NoSup)
  BY <1>5, SerialParts DEF Stocked, Products
<1>7. FloorPrice(Me.e.sup) \in Int
  BY <1>4, FloorPriceNat
<1>8. ArtifactOk(a) /\ a.kind = "quote" /\ a.cor = Me.e.cor /\ a.sup = Me.e.sup
  BY <1>7 DEF ArtifactOk, Artifact
<1> QED  BY <1>1, <1>3, <1>4, <1>6, <1>8

LEMMA NegotiationSerial == ASSUME LoopInv, SerialInv, NegotiationStep PROVE SerialInv'
<1> DEFINE cor == Me.e.cor
           sup == Me.e.sup
           H == Handlers("QuoteGenerated")
<1>1. /\ Steps /\ Me.h = "negotiation" /\ ~Me.resumed /\ ~Me.e.replayed
      /\ Now \in Unheard(tasks, "negotiation") /\ sup \in Suppliers
      /\ Say("QuoteGenerated", cor, sup, <<>>)
      /\ UNCHANGED <<events, expect, closed, agent, sent, answered>>
      /\ Known("requirement", NoSup) /\ Known("strategy", NoSup)
      /\ Has(art, "evaluation", cor, sup) /\ ~Has(art, "quote", cor, sup)
  BY NegotiationPuts
<1>2. PICK a : /\ art' = Append(art, a) /\ ArtifactOk(a) /\ a.kind = "quote"
               /\ a.cor = cor /\ a.sup = sup
  BY NegotiationPuts
<1>3. Now \in DOMAIN tasks /\ Me = tasks[Now] /\ cor \in sent /\ Listed(art)
  BY <1>1, Mine DEF LoopInv, Typed
<1>4. Grown(a) /\ Has(art', "quote", cor, sup)
      /\ Len(art) + 1 \in DOMAIN art' \ DOMAIN art /\ DOMAIN art' = DOMAIN art \cup {Len(art) + 1}
      /\ art'[Len(art) + 1] = a
  <2>1. Grown(a) /\ Len(art) + 1 \in DOMAIN art' \ DOMAIN art /\ DOMAIN art' = DOMAIN art \cup {Len(art) + 1}
    BY <1>2, <1>3, GrownOne
  <2>2. art'[Len(art) + 1] = a
    BY <2>1 DEF Grown
  <2> QED  BY <1>2, <2>1, <2>2 DEF Has
<1>5. "QuoteGenerated" \in Types
  BY DEF Types, Sourced
<1>6. H \cap {"requirement", "strategy", "discovery", "evaluation", "negotiation", "decision"} = {}
  BY <1>5, WhoHears
<1>7. PICK e : /\ e.type = "QuoteGenerated" /\ e.cor = Me.e.cor /\ e.sup = Me.e.sup /\ ~e.replayed
               /\ Turn({Now}, {Now}, H, e) /\ OneCall(tasks') /\ Watched'
  <2> HIDE DEF cor, sup
  <2>1. sup \in Suppliers \cup {NoSup}
    BY <1>1
  <2>2. /\ Steps /\ Me.h \in {"evaluation", "negotiation", "decision"} /\ ~Me.e.replayed
        /\ Say("QuoteGenerated", Me.e.cor, sup, <<>>) /\ a.cor = Me.e.cor /\ art' = Append(art, a)
        /\ UNCHANGED <<events, expect, closed, sent, answered>>
    BY <1>1, <1>2 DEF cor
  <2>3. Announced("QuoteGenerated", sup)
    BY <1>5, <2>1, <2>2, PutSpeaks
  <2> QED  BY <2>3 DEF sup, Announced
<1> HIDE DEF H
<1>8. Starts(tasks) = {}
  BY <1>1, SerialParts DEF Chain
<1>9. /\ KeptS /\ KeptU("evaluation") /\ KeptU("decision") /\ KeptU("strategy")
      /\ KeptP("discovery") /\ KeptP("decision")
  <2>1. {"discovery", "evaluation", "strategy", "decision"} \subseteq Tracked
    BY DEF Tracked
  <2>2. /\ \A h \in {"strategy", "evaluation", "decision"} : Now \notin Unheard(tasks, h)
        /\ \A h : Now \notin Paused(tasks, h)
    BY <1>1, <1>3 DEF Unheard, Paused
  <2>3. KeptU("evaluation") /\ KeptU("decision") /\ KeptU("strategy")
    BY <1>6, <1>7, <2>1, <2>2, TurnKeepsU
  <2>4. KeptP("discovery") /\ KeptP("decision")
    BY <1>1, <1>3, <1>7, <2>1, <2>2, TurnKeepsP
  <2>5. KeptS
    BY <1>6, <1>7, <1>8, TurnKeepsS
  <2> QED  BY <2>3, <2>4, <2>5
<1>10. /\ Unheard(tasks', "negotiation") = Unheard(tasks, "negotiation") \ {Now}
       /\ \A t \in Unheard(tasks', "negotiation") : tasks'[t].e = tasks[t].e
  <2>1. Fresh("negotiation") = {}
    BY <1>6, <1>7 DEF Turn, Tracked
  <2>2. /\ Unheard(tasks', "negotiation") = (Unheard(tasks, "negotiation") \ {Now}) \cup Fresh("negotiation")
        /\ \A t \in Unheard(tasks, "negotiation") \ {Now} : tasks'[t].e = tasks[t].e
    BY <1>7, TurnUnheard DEF Tracked
  <2> QED  BY <2>1, <2>2
<1>11. KeptA({"evaluation"}) /\ KeptA({"decision"}) /\ KeptA({"decision", "decision_explanation"})
  BY <1>2, <1>4, GrownKeeps
<1>12. /\ \A kind, c, s : Has(art, kind, c, s) => Has(art', kind, c, s)
       /\ \A c, s : Has(art', "quote", c, s) => Has(art, "quote", c, s) \/ (c = cor /\ s = sup)
  BY <1>2, <1>4, HasMore
<1> HIDE DEF cor, sup
<1>13. Pending'
  <2>1. \A t \in {Now} : tasks[t].h # "requirement"
    BY <1>1, <1>3
  <2> QED  BY <1>1, <1>7, <2>1, PendingTurn, SerialParts
<1>14. Stocked'
  <2>1. \A t \in Unheard(tasks', "strategy") : t \in Unheard(tasks, "strategy") /\ tasks'[t].e = tasks[t].e
    BY <1>9 DEF KeptU
  <2>2. \A kind : Known(kind, NoSup) => Known(kind, NoSup)'
    BY <1>11 DEF Known, Named, KeptA
  <2>3. \A i \in DOMAIN art' \ DOMAIN art : /\ ArtifactOk(art'[i]) /\ art'[i].cor \in sent'
                                            /\ Known("requirement", NoSup)' /\ Known("strategy", NoSup)'
    BY <1>1, <1>2, <1>3, <1>4, <2>2 DEF Grown
  <2>4. \A i \in DOMAIN art : i \in DOMAIN art' /\ art'[i] = art[i]
    BY <1>4 DEF Grown
  <2> QED  BY <1>1, <1>8, <1>9, <2>1, <2>3, <2>4, StockedMore, SerialParts DEF KeptS
<1>15. Chain'
  <2>1. Starts(tasks') = {}
    BY <1>8, <1>9 DEF KeptS
  <2> QED  BY <1>1, <1>8, <1>9, <1>12, <2>1, SerialParts DEF Chain, KeptP
<1>16. Evals'
  BY <1>9, <1>11, SerialParts, EvalsKept
<1>17. Offers'
  <2>1. \A t \in Unheard(tasks, "negotiation") : t # Now => tasks[t].e.sup # sup
    BY <1>1, <1>3, SerialParts DEF Offers, sup
  <2>2. \A t, u \in Unheard(tasks', "negotiation") : tasks'[t].e.sup = tasks'[u].e.sup => t = u
    BY <1>10, SerialParts DEF Offers
  <2>3. ASSUME NEW t \in Unheard(tasks', "negotiation")
        PROVE  /\ tasks'[t].e.sup \in Suppliers
               /\ Has(art', "supplier_list", tasks'[t].e.cor, NoSup)
               /\ Has(art', "evaluation", tasks'[t].e.cor, tasks'[t].e.sup)
               /\ ~Has(art', "quote", tasks'[t].e.cor, tasks'[t].e.sup)
    <3>1. t \in Unheard(tasks, "negotiation") /\ t # Now /\ tasks'[t].e = tasks[t].e
      BY <1>10, <2>3
    <3>2. /\ tasks[t].e.sup \in Suppliers
          /\ Has(art, "supplier_list", tasks[t].e.cor, NoSup)
          /\ Has(art, "evaluation", tasks[t].e.cor, tasks[t].e.sup)
          /\ ~Has(art, "quote", tasks[t].e.cor, tasks[t].e.sup)
      BY <3>1, SerialParts DEF Offers
    <3> QED  BY <1>12, <2>1, <3>1, <3>2
  <2>4. \A j \in DOMAIN art' : \/ j \in DOMAIN art /\ art'[j] = art[j]
                               \/ j = Len(art) + 1 /\ art'[j] = a
    BY <1>4 DEF Grown
  <2>5. \A j \in DOMAIN art : ~(art[j].kind = "quote" /\ art[j].cor = cor /\ art[j].sup = sup)
    BY <1>1 DEF Has
  <2>6. ASSUME NEW i \in DOMAIN art', art'[i].kind = "quote"
        PROVE  /\ art'[i].sup \in Suppliers
               /\ Has(art', "evaluation", art'[i].cor, art'[i].sup)
               /\ \A j \in DOMAIN art' :
                     art'[j].kind = "quote" /\ art'[j].cor = art'[i].cor /\ art'[j].sup = art'[i].sup => j = i
    <3>1. CASE i \in DOMAIN art /\ art'[i] = art[i]
      <4>1. /\ art[i].sup \in Suppliers
            /\ Has(art, "evaluation", art[i].cor, art[i].sup)
            /\ \A j \in DOMAIN art :
                  art[j].kind = "quote" /\ art[j].cor = art[i].cor /\ art[j].sup = art[i].sup => j = i
        BY <2>6, <3>1, SerialParts DEF Offers
      <4> QED  BY <1>2, <1>12, <2>4, <2>5, <2>6, <3>1, <4>1
    <3>2. CASE i = Len(art) + 1 /\ art'[i] = a
      BY <1>1, <1>2, <1>12, <2>4, <2>5, <3>2
    <3> QED  BY <2>4, <3>1, <3>2
  <2> QED  BY <2>2, <2>3, <2>6 DEF Offers
<1>18. Decides' /\ Explains'
  <2>1. Decides /\ Explains /\ agent'.decision = agent.decision /\ closed' = closed
    BY <1>1, SerialParts
  <2> QED  BY <1>3, <1>9, <1>11, <2>1, DecidesKept, ExplainsKept
<1>19. Progress'
  <2>1. /\ \A q \in sent : Wanted(q) => UnderWay(q)
        /\ \A q \in Requests : <<q, "quote">> \in closed => ToDecide(q)
    BY SerialParts, ProgressIs
  <2>2. ASSUME NEW q, NEW s, OnItsWay(q, s) PROVE OnItsWay(q, s)'
    <3>1. CASE \E t \in Paused(tasks, "discovery") : tasks[t].e.cor = q /\ s \in Range(tasks[t].rest)
      <4>1. \E t \in Paused(tasks', "discovery") : tasks'[t].e.cor = q /\ s \in Range(tasks'[t].rest)
        BY <1>9, <3>1 DEF KeptP
      <4> QED  BY <4>1 DEF OnItsWay
    <3>2. CASE \E t \in Unheard(tasks, "evaluation") \cup Unheard(tasks, "negotiation") :
                   tasks[t].e.cor = q /\ tasks[t].e.sup = s
      <4>1. PICK t \in Unheard(tasks, "evaluation") \cup Unheard(tasks, "negotiation") :
                   tasks[t].e.cor = q /\ tasks[t].e.sup = s
        BY <3>2
      <4>2. CASE t = Now
        <5>1. q = cor /\ s = sup
          BY <1>3, <4>1, <4>2 DEF cor, sup
        <5>2. Has(art', "quote", cor, sup)
          BY <1>4 DEF cor, sup
        <5> QED  BY <5>1, <5>2 DEF OnItsWay
      <4>3. CASE t # Now
        <5>1. \E u \in Unheard(tasks', "evaluation") \cup Unheard(tasks', "negotiation") :
                  tasks'[u].e.cor = q /\ tasks'[u].e.sup = s
          BY <1>9, <1>10, <4>1, <4>3 DEF KeptU
        <5> QED  BY <5>1 DEF OnItsWay
      <4> QED  BY <4>2, <4>3
    <3>3. CASE Has(art, "quote", q, s)
      BY <1>12, <3>3 DEF OnItsWay
    <3> QED  BY <2>2, <3>1, <3>2, <3>3 DEF OnItsWay
  <2>3. ASSUME NEW q \in sent, Wanted(q)
        PROVE  /\ \E i \in DOMAIN expect' : expect'[i].cor = q
               /\ \A s \in Suppliers : OnItsWay(q, s)'
    BY <1>1, <1>8, <2>1, <2>2, <2>3 DEF UnderWay
  <2>4. \A q : ToDecide(q) => ToDecide(q)'
    BY <1>9, <1>12, ToDecideKept
  <2> QED  BY <1>1, <2>1, <2>3, <2>4 DEF Progress, Wanted, ToDecide
<1> QED  BY <1>7, <1>13, <1>14, <1>15, <1>16, <1>17, <1>18, <1>19 DEF SerialInv

(***************************************************************************)
(* The decision, and its explanation when everything behind it is done.    *)
(***************************************************************************)
\* A request all have quoted for is under way no longer.
LEMMA QuotedTouched ==
    ASSUME LoopInv, Stocked, NEW cor, AllQuoted(cor)
    PROVE  ~Untouched(cor) /\ Known("requirement", NoSup) /\ Known("strategy", NoSup) /\ cor \in sent
<1>1. Pool[1] \in Suppliers
  BY PoolAssumption DEF Suppliers
<1>2. Has(art, "quote", cor, Pool[1])
  BY <1>1 DEF AllQuoted
<1>3. PICK k \in DOMAIN art : art[k].kind = "quote" /\ art[k].cor = cor
  BY <1>2 DEF Has
<1> QED  BY <1>3 DEF Stocked, Untouched, Products

LEMMA DecisionPuts ==
    ASSUME LoopInv, SerialInv, DecisionStep
    PROVE  /\ Steps /\ Me.h = "decision" /\ ~Me.resumed /\ ~Me.e.replayed
           /\ Now \in Unheard(tasks, "decision")
           /\ Say("DecisionMade", Me.e.cor, NoSup, <<>>)
           /\ UNCHANGED <<events, expect, closed, sent, answered>>
           /\ agent'.requirement = agent.requirement /\ agent'.discovery = agent.discovery
           /\ AllQuoted(Me.e.cor) /\ <<Me.e.cor, "quote">> \in closed
           /\ \A i \in DOMAIN art : art[i].cor = Me.e.cor =>
                 art[i].kind \notin {"decision", "decision_explanation"}
           /\ \E a : /\ art' = Append(art, a) /\ ArtifactOk(a) /\ a.kind = "decision"
                     /\ a.cor = Me.e.cor /\ a.sup = NoSup /\ Covers(a.data.quotes)
                     /\ \E why : /\ agent'.decision = [cor |-> Me.e.cor, why |-> <<why>>]
                                 /\ why.winner = a.data.winner
                                 /\ Range(why.rejected) = Suppliers \ {why.winner}
<1> DEFINE cor == Me.e.cor
           quotes == Quotes(cor)
           winner == Selected(quotes, Constraints)
           why == [winner |-> winner, rejected |-> Rejected(quotes, winner)]
           a == Artifact("decision", cor, NoSup, [winner |-> winner, quotes |-> quotes])
<1>1. /\ Steps /\ Me.h = "decision" /\ ~Me.resumed /\ ~Me.e.replayed
      /\ art' = Append(art, a) /\ agent' = [agent EXCEPT !.decision = [cor |-> cor, why |-> <<why>>]]
      /\ Say("DecisionMade", cor, NoSup, <<>>)
      /\ UNCHANGED <<events, expect, closed, sent, answered>>
  BY DEF DecisionStep, Put, Started, Running
<1>2. Now \in DOMAIN tasks /\ Me = tasks[Now] /\ cor \in sent /\ sent \subseteq Requests /\ AgentOk(agent, sent)
  BY <1>1, Mine DEF LoopInv, Typed
<1>3. Now \in Unheard(tasks, "decision")
  BY <1>1, <1>2 DEF Unheard
<1>4. <<cor, "quote">> \in closed /\ ~Has(art, "decision", cor, NoSup)
  BY <1>2, <1>3, SerialParts DEF Decides
<1>5. AllQuoted(cor)
  <2> HIDE DEF cor
  <2> QED  BY <1>2, <1>4, SerialParts DEF Decides
<1>6. \A i \in DOMAIN art : art[i].cor = cor => art[i].kind # "decision"
  BY <1>4, SerialParts DEF Decides, Has
<1>7. \A i \in DOMAIN art : art[i].cor = cor => art[i].kind # "decision_explanation"
  <2>1. ASSUME NEW i \in DOMAIN art, art[i].cor = cor, art[i].kind = "decision_explanation" PROVE FALSE
    <3> HIDE DEF cor
    <3>1. PICK k \in 1 .. i - 1 : DecidedAs(art, k, art[i].cor, art[i].data.winner)
      BY <2>1, SerialParts DEF Explains
    <3>2. PICK n \in Nat : DOMAIN art = 1 .. n
      BY DEF LoopInv, Typed, Listed
    <3>3. k \in DOMAIN art
      BY <3>1, <3>2
    <3> QED  BY <1>6, <2>1, <3>1, <3>3 DEF DecidedAs
  <2> QED  BY <2>1
<1>8. IsFiniteSet(quotes) /\ Covers(quotes) /\ Orderly(quotes)
  <2> HIDE DEF cor
  <2> QED  BY <1>5, SerialParts, QuotesCover, QuotesOrderly
<1> HIDE DEF quotes, winner
<1>9. Range(Rejected(quotes, winner)) = Suppliers \ {winner}
  <2>1. Range(Rejected(quotes, winner)) = {q.supplier : q \in quotes} \ {winner}
    BY <1>8, RejectedAll
  <2> QED  BY <1>8, <2>1 DEF Covers
<1>10. why.winner = winner /\ Range(why.rejected) = Suppliers \ {why.winner}
  BY <1>9
<1>11. /\ ArtifactOk(a) /\ a.kind = "decision" /\ a.cor = cor /\ a.sup = NoSup
       /\ a.data.quotes = quotes /\ a.data.winner = winner
  BY DEF ArtifactOk, Artifact
<1> HIDE DEF why
<1>12. /\ agent'.requirement = agent.requirement /\ agent'.discovery = agent.discovery
       /\ agent'.decision = [cor |-> cor, why |-> <<why>>]
  BY <1>1, <1>2 DEF AgentOk
<1> HIDE DEF a
<1>13. \E x : /\ art' = Append(art, x) /\ ArtifactOk(x) /\ x.kind = "decision"
              /\ x.cor = cor /\ x.sup = NoSup /\ Covers(x.data.quotes)
              /\ \E y : /\ agent'.decision = [cor |-> cor, why |-> <<y>>]
                        /\ y.winner = x.data.winner
                        /\ Range(y.rejected) = Suppliers \ {y.winner}
  BY <1>1, <1>8, <1>10, <1>11, <1>12
<1> QED  BY <1>1, <1>3, <1>4, <1>5, <1>6, <1>7, <1>12, <1>13

LEMMA DecisionSerial == ASSUME LoopInv, SerialInv, DecisionStep PROVE SerialInv'
<1> DEFINE cor == Me.e.cor
           H == Handlers("DecisionMade")
<1>1. /\ Steps /\ Me.h = "decision" /\ ~Me.resumed /\ ~Me.e.replayed
      /\ Now \in Unheard(tasks, "decision")
      /\ Say("DecisionMade", cor, NoSup, <<>>)
      /\ UNCHANGED <<events, expect, closed, sent, answered>>
      /\ agent'.requirement = agent.requirement /\ agent'.discovery = agent.discovery
      /\ AllQuoted(Me.e.cor) /\ <<cor, "quote">> \in closed
      /\ \A i \in DOMAIN art : art[i].cor = cor =>
            art[i].kind \notin {"decision", "decision_explanation"}
  BY DecisionPuts
<1>2. PICK a : /\ art' = Append(art, a) /\ ArtifactOk(a) /\ a.kind = "decision"
               /\ a.cor = cor /\ a.sup = NoSup /\ Covers(a.data.quotes)
               /\ \E why : /\ agent'.decision = [cor |-> cor, why |-> <<why>>]
                           /\ why.winner = a.data.winner
                           /\ Range(why.rejected) = Suppliers \ {why.winner}
  BY DecisionPuts
<1>3. Now \in DOMAIN tasks /\ Me = tasks[Now] /\ cor \in sent /\ Listed(art)
  BY <1>1, Mine DEF LoopInv, Typed
<1>4. Grown(a) /\ Has(art', "decision", cor, NoSup)
      /\ Len(art) + 1 \in DOMAIN art' \ DOMAIN art /\ DOMAIN art' = DOMAIN art \cup {Len(art) + 1}
      /\ art'[Len(art) + 1] = a
  <2>1. Grown(a) /\ Len(art) + 1 \in DOMAIN art' \ DOMAIN art /\ DOMAIN art' = DOMAIN art \cup {Len(art) + 1}
    BY <1>2, <1>3, GrownOne
  <2>2. art'[Len(art) + 1] = a
    BY <2>1 DEF Grown
  <2> QED  BY <1>2, <2>1, <2>2 DEF Has
<1>5. "DecisionMade" \in Types
  BY DEF Types, Sourced
<1>6. H \cap {"requirement", "strategy", "discovery", "evaluation", "negotiation", "decision"} = {}
  BY <1>5, WhoHears
<1>7. PICK e : /\ e.type = "DecisionMade" /\ e.cor = Me.e.cor /\ ~e.replayed
               /\ Turn({Now}, {Now}, H, e) /\ OneCall(tasks') /\ Watched'
  <2> DEFINE sup == NoSup
  <2>1. sup \in Suppliers \cup {NoSup}
    OBVIOUS
  <2>2. /\ Steps /\ Me.h \in {"evaluation", "negotiation", "decision"} /\ ~Me.e.replayed
        /\ Say("DecisionMade", Me.e.cor, sup, <<>>) /\ a.cor = Me.e.cor /\ art' = Append(art, a)
        /\ UNCHANGED <<events, expect, closed, sent, answered>>
    BY <1>1, <1>2
  <2> HIDE DEF sup
  <2>3. Announced("DecisionMade", sup)
    BY <1>5, <2>1, <2>2, PutSpeaks
  <2> QED  BY <2>3 DEF Announced
<1> HIDE DEF H
<1>8. /\ Known("requirement", NoSup) /\ Known("strategy", NoSup) /\ Starts(tasks) = {}
  <2>1. ~Untouched(cor) /\ Known("requirement", NoSup) /\ Known("strategy", NoSup)
    <3> HIDE DEF cor
    <3>1. AllQuoted(cor)
      BY <1>1 DEF cor
    <3> QED  BY <3>1, QuotedTouched, SerialParts
  <2>2. ASSUME NEW t \in Starts(tasks) PROVE FALSE
    <3>1. t \in DOMAIN tasks /\ ~tasks[t].e.replayed
      BY <2>2 DEF Starts, Unheard
    <3>2. tasks[t].e.cor = cor
      BY <1>1, <1>3, <3>1, SerialParts DEF OneCall
    <3>3. Untouched(tasks[t].e.cor)
      BY <2>2, SerialParts DEF Chain
    <3> QED  BY <2>1, <3>2, <3>3
  <2> QED  BY <2>1, <2>2
<1>9. /\ KeptS /\ KeptU("evaluation") /\ KeptU("negotiation") /\ KeptU("strategy")
      /\ KeptP("discovery")
  <2>1. {"discovery", "evaluation", "strategy", "negotiation"} \subseteq Tracked
    BY DEF Tracked
  <2>2. /\ \A h \in {"strategy", "evaluation", "negotiation"} : Now \notin Unheard(tasks, h)
        /\ \A h : Now \notin Paused(tasks, h)
    BY <1>1, <1>3 DEF Unheard, Paused
  <2>3. KeptU("evaluation") /\ KeptU("negotiation") /\ KeptU("strategy")
    BY <1>6, <1>7, <2>1, <2>2, TurnKeepsU
  <2>4. KeptP("discovery")
    BY <1>1, <1>3, <1>7, <2>1, <2>2, TurnKeepsP
  <2>5. KeptS
    BY <1>6, <1>7, <1>8, TurnKeepsS
  <2> QED  BY <2>3, <2>4, <2>5
<1>10. /\ Unheard(tasks, "decision") \cup Paused(tasks, "decision") = {Now}
       /\ Paused(tasks, "decision") = {}
       /\ Unheard(tasks', "decision") = {} /\ Paused(tasks', "decision") = {Now}
       /\ tasks'[Now].e = Me.e
  <2>1. Unheard(tasks, "decision") \cup Paused(tasks, "decision") = {Now}
    BY <1>1, SerialParts DEF Decides
  <2>2. Paused(tasks, "decision") = {}
    BY <1>1, <1>3, <2>1 DEF Paused
  <2>3. Fresh("decision") = {}
    BY <1>6, <1>7 DEF Turn, Tracked
  <2>4. Unheard(tasks', "decision") = (Unheard(tasks, "decision") \ {Now}) \cup Fresh("decision")
    BY <1>7, TurnUnheard DEF Tracked
  <2>5. Paused(tasks', "decision") = (Paused(tasks, "decision") \ {Now}) \cup {t \in {Now} : tasks[t].h = "decision"}
    BY <1>7 DEF Turn, Tracked
  <2>6. Paused(tasks', "decision") = {Now}
    BY <1>1, <1>3, <2>2, <2>5
  <2>7. Now \in DOMAIN tasks'
    BY <2>6 DEF Paused
  <2>8. tasks'[Now].e = Me.e
    BY <1>3, <1>7, <2>7 DEF Turn
  <2> QED  BY <2>1, <2>2, <2>3, <2>4, <2>6, <2>8
<1>11. KeptA({"evaluation"}) /\ KeptA({"quote"}) /\ KeptA({"decision_explanation"})
  BY <1>2, <1>4, GrownKeeps
<1>12. /\ \A kind, c, s : Has(art, kind, c, s) => Has(art', kind, c, s)
       /\ \A c, s : Has(art', "decision_explanation", c, s) => Has(art, "decision_explanation", c, s)
  BY <1>2, <1>4, HasMore
<1>13. \A j \in DOMAIN art' : \/ j \in DOMAIN art /\ art'[j] = art[j]
                              \/ j = Len(art) + 1 /\ art'[j] = a
  BY <1>4 DEF Grown
<1> HIDE DEF cor
<1>14. Pending'
  <2>1. \A t \in {Now} : tasks[t].h # "requirement"
    BY <1>1, <1>3
  <2> QED  BY <1>1, <1>7, <2>1, PendingTurn, SerialParts
<1>15. Stocked'
  <2>1. \A t \in Unheard(tasks', "strategy") : t \in Unheard(tasks, "strategy") /\ tasks'[t].e = tasks[t].e
    BY <1>9 DEF KeptU
  <2>2. \A kind : Known(kind, NoSup) => Known(kind, NoSup)'
    BY <1>11 DEF Known, Named, KeptA
  <2>3. \A i \in DOMAIN art' \ DOMAIN art : /\ ArtifactOk(art'[i]) /\ art'[i].cor \in sent'
                                            /\ Known("requirement", NoSup)' /\ Known("strategy", NoSup)'
    BY <1>1, <1>2, <1>3, <1>4, <1>8, <2>2 DEF Grown
  <2>4. \A i \in DOMAIN art : i \in DOMAIN art' /\ art'[i] = art[i]
    BY <1>4 DEF Grown
  <2> QED  BY <1>1, <1>8, <1>9, <2>1, <2>3, <2>4, StockedMore, SerialParts DEF KeptS
<1>16. Chain'
  <2>1. Starts(tasks') = {}
    BY <1>8, <1>9 DEF KeptS
  <2> QED  BY <1>1, <1>8, <1>9, <1>12, <2>1, SerialParts DEF Chain, KeptP
<1>17. Evals' /\ Offers'
  BY <1>9, <1>11, SerialParts, EvalsKept, OffersKept
<1>18. Decides'
  <2>1. \A r \in Requests : <<r, "quote">> \in closed' => AllQuoted(r)'
    <3>1. \A r : AllQuoted(r) => AllQuoted(r)'
      BY <1>12 DEF AllQuoted
    <3> QED  BY <1>1, <3>1, SerialParts DEF Decides
  <2>2. ASSUME NEW i \in DOMAIN art', art'[i].kind = "decision"
        PROVE  /\ <<art'[i].cor, "quote">> \in closed'
               /\ art'[i].sup = NoSup /\ Only(art', i) /\ Covers(art'[i].data.quotes)
    <3>1. CASE i \in DOMAIN art /\ art'[i] = art[i]
      <4>1. /\ <<art[i].cor, "quote">> \in closed
            /\ art[i].sup = NoSup /\ Only(art, i) /\ Covers(art[i].data.quotes)
        BY <2>2, <3>1, SerialParts DEF Decides
      <4>2. art[i].cor # cor
        BY <1>1, <2>2, <3>1
      <4>3. Only(art', i)
        BY <1>2, <1>13, <3>1, <4>1, <4>2 DEF Only
      <4> QED  BY <1>1, <3>1, <4>1, <4>3
    <3>2. CASE i = Len(art) + 1 /\ art'[i] = a
      <4>1. Only(art', i)
        BY <1>1, <1>2, <1>13, <3>2 DEF Only
      <4> QED  BY <1>1, <1>2, <3>2, <4>1
    <3> QED  BY <1>13, <3>1, <3>2
  <2>3. \A t, u \in Unheard(tasks', "decision") \cup Paused(tasks', "decision") : t = u
    BY <1>10
  <2>4. \A t \in Unheard(tasks', "decision") :
          /\ <<tasks'[t].e.cor, "quote">> \in closed'
          /\ ~Has(art', "decision", tasks'[t].e.cor, NoSup)
    BY <1>10
  <2> QED  BY <2>1, <2>2, <2>3, <2>4 DEF Decides, Covers
<1>19. Explains'
  <2>1. PICK w : /\ agent'.decision = [cor |-> cor, why |-> <<w>>] /\ w.winner = a.data.winner
                 /\ Range(w.rejected) = Suppliers \ {w.winner}
    BY <1>2
  <2>2. ASSUME NEW t \in Paused(tasks', "decision")
        PROVE  LET c == tasks'[t].e.cor
                   why == agent'.decision.why
               IN  /\ agent'.decision.cor = c /\ why = <<why[1]>>
                   /\ Range(why[1].rejected) = Suppliers \ {why[1].winner}
                   /\ \E k \in DOMAIN art' : DecidedAs(art', k, c, why[1].winner)
                   /\ ~Has(art', "decision_explanation", c, NoSup)
    <3>1. tasks'[t].e.cor = cor
      BY <1>10, <2>2 DEF cor
    <3>2. agent'.decision.cor = cor /\ agent'.decision.why = <<w>> /\ agent'.decision.why[1] = w
      BY <2>1
    <3>3. DecidedAs(art', Len(art) + 1, cor, w.winner) /\ Len(art) + 1 \in DOMAIN art'
      BY <1>2, <1>4, <2>1 DEF DecidedAs
    <3>4. ~Has(art', "decision_explanation", cor, NoSup)
      BY <1>1, <1>12 DEF Has
    <3> QED  BY <2>1, <3>1, <3>2, <3>3, <3>4
  <2>3. ASSUME NEW i \in DOMAIN art', art'[i].kind = "decision_explanation"
        PROVE  /\ art'[i].sup = NoSup /\ Only(art', i)
               /\ \E k \in 1 .. i - 1 : DecidedAs(art', k, art'[i].cor, art'[i].data.winner)
               /\ Range(art'[i].data.rejected) = Suppliers \ {art'[i].data.winner}
    <3>1. i \in DOMAIN art /\ art'[i] = art[i]
      BY <1>2, <1>13, <2>3
    <3>2. /\ art[i].sup = NoSup /\ Only(art, i)
          /\ \E k \in 1 .. i - 1 : DecidedAs(art, k, art[i].cor, art[i].data.winner)
          /\ Range(art[i].data.rejected) = Suppliers \ {art[i].data.winner}
      BY <2>3, <3>1, SerialParts DEF Explains
    <3>3. Only(art', i)
      BY <1>2, <1>13, <2>3, <3>1, <3>2 DEF Only
    <3>4. \A k \in 1 .. i - 1 : art'[k] = art[k]
      <4>1. PICK n \in Nat : DOMAIN art = 1 .. n
        BY <1>3 DEF Listed
      <4>2. 1 .. i - 1 \subseteq DOMAIN art
        BY <3>1, <4>1
      <4> QED  BY <1>4, <4>2 DEF Grown
    <3> QED  BY <3>1, <3>2, <3>3, <3>4 DEF DecidedAs
  <2>4. \A i \in DOMAIN art' : art'[i].kind = "decision" =>
            \/ Has(art', "decision_explanation", art'[i].cor, NoSup)
            \/ \E t \in Paused(tasks', "decision") : tasks'[t].e.cor = art'[i].cor
    <3>1. ASSUME NEW i \in DOMAIN art', art'[i].kind = "decision"
          PROVE  \/ Has(art', "decision_explanation", art'[i].cor, NoSup)
                 \/ \E t \in Paused(tasks', "decision") : tasks'[t].e.cor = art'[i].cor
      <4>1. CASE i \in DOMAIN art /\ art'[i] = art[i]
        BY <1>10, <1>12, <3>1, <4>1, SerialParts DEF Explains
      <4>2. CASE i = Len(art) + 1 /\ art'[i] = a
        BY <1>2, <1>10, <4>2 DEF cor
      <4> QED  BY <1>13, <4>1, <4>2
    <3> QED  BY <3>1
  <2> QED  BY <2>2, <2>3, <2>4 DEF Explains
<1>20. Progress'
  <2>1. /\ \A q \in sent : Wanted(q) => UnderWay(q)
        /\ \A q \in Requests : <<q, "quote">> \in closed => ToDecide(q)
    BY SerialParts, ProgressIs
  <2>2. \A q, s : OnItsWay(q, s) => OnItsWay(q, s)'
    BY <1>9, <1>12, OnItsWayKept
  <2>3. \A q : UnderWay(q) => UnderWay(q)'
    BY <1>1, <1>9, <2>2 DEF UnderWay, KeptS
  <2>4. \A q : ToDecide(q) => Has(art', "decision", q, NoSup)
    <3>1. ASSUME NEW q, NEW t \in Unheard(tasks, "decision"), tasks[t].e.cor = q PROVE q = cor
      BY <1>3, <1>10, <3>1 DEF cor
    <3> QED  BY <1>4, <1>12, <3>1 DEF ToDecide, cor
  <2> QED  BY <1>1, <2>1, <2>3, <2>4 DEF Progress, Wanted, UnderWay
<1> QED  BY <1>7, <1>14, <1>15, <1>16, <1>17, <1>18, <1>19, <1>20 DEF SerialInv

LEMMA ExplanationPuts ==
    ASSUME LoopInv, SerialInv, DecisionDone
    PROVE  /\ Steps /\ Me.h = "decision" /\ Me.resumed /\ ~Me.e.replayed
           /\ Now \in Paused(tasks, "decision") /\ Finish /\ log' = log
           /\ UNCHANGED <<events, expect, closed, sent, answered>>
           /\ agent'.requirement = agent.requirement /\ agent'.discovery = agent.discovery
           /\ \E a : /\ art' = Append(art, a) /\ ArtifactOk(a) /\ a.kind = "decision_explanation"
                     /\ a.cor = Me.e.cor /\ a.sup = NoSup
                     /\ \E k \in DOMAIN art : DecidedAs(art, k, Me.e.cor, a.data.winner)
                     /\ Range(a.data.rejected) = Suppliers \ {a.data.winner}
           /\ ~Has(art, "decision_explanation", Me.e.cor, NoSup)
<1> DEFINE d == agent.decision
           a == Artifact("decision_explanation", d.cor, NoSup, d.why[1])
<1>1. /\ Steps /\ Me.h = "decision" /\ Me.resumed
      /\ d.why # <<>> => art' = Append(art, a)
      /\ agent' = [agent EXCEPT !.decision.why = <<>>] /\ Finish /\ log' = log
      /\ UNCHANGED <<events, expect, closed, sent, answered>>
  BY DEF DecisionDone, Resumed, Running, Return
<1>2. Now \in DOMAIN tasks /\ Me = tasks[Now] /\ AgentOk(agent, sent)
  BY <1>1, Mine DEF LoopInv, Typed
<1>3. Now \in Paused(tasks, "decision") /\ ~Me.e.replayed
  BY <1>1, <1>2, SerialParts DEF Paused, OneCall
<1>4. /\ d.cor = Me.e.cor /\ d.why = <<d.why[1]>>
      /\ Range(d.why[1].rejected) = Suppliers \ {d.why[1].winner}
      /\ \E k \in DOMAIN art : DecidedAs(art, k, Me.e.cor, d.why[1].winner)
      /\ ~Has(art, "decision_explanation", Me.e.cor, NoSup)
  BY <1>2, <1>3, SerialParts DEF Explains
<1>5. agent'.requirement = agent.requirement /\ agent'.discovery = agent.discovery
  BY <1>1, <1>2 DEF AgentOk
<1> HIDE DEF d
<1>6. art' = Append(art, a)
  <2>1. \A x : <<x>> # <<>>
    OBVIOUS
  <2>2. d.why # <<>>
    BY <1>4, <2>1
  <2> QED  BY <1>1, <2>2
<1>7. /\ ArtifactOk(a) /\ a.kind = "decision_explanation" /\ a.cor = Me.e.cor /\ a.sup = NoSup
      /\ a.data = d.why[1]
  BY <1>4 DEF ArtifactOk, Artifact
<1> HIDE DEF a
<1>8. /\ \E k \in DOMAIN art : DecidedAs(art, k, Me.e.cor, a.data.winner)
      /\ Range(a.data.rejected) = Suppliers \ {a.data.winner}
  BY <1>4, <1>7
<1> QED  BY <1>1, <1>3, <1>4, <1>5, <1>6, <1>7, <1>8

LEMMA ExplanationSerial == ASSUME LoopInv, SerialInv, DecisionDone PROVE SerialInv'
<1> DEFINE cor == Me.e.cor
<1>1. /\ Steps /\ Me.h = "decision" /\ Me.resumed /\ ~Me.e.replayed
      /\ Now \in Paused(tasks, "decision") /\ Finish /\ log' = log
      /\ UNCHANGED <<events, expect, closed, sent, answered>>
      /\ agent'.requirement = agent.requirement /\ agent'.discovery = agent.discovery
      /\ ~Has(art, "decision_explanation", cor, NoSup)
  BY ExplanationPuts
<1>2. PICK a : /\ art' = Append(art, a) /\ ArtifactOk(a) /\ a.kind = "decision_explanation"
               /\ a.cor = cor /\ a.sup = NoSup
               /\ \E k \in DOMAIN art : DecidedAs(art, k, cor, a.data.winner)
               /\ Range(a.data.rejected) = Suppliers \ {a.data.winner}
  BY ExplanationPuts
<1>3. Now \in DOMAIN tasks /\ Me = tasks[Now] /\ cor \in sent /\ Listed(art)
  BY <1>1, Mine DEF LoopInv, Typed
<1>4. Grown(a) /\ Has(art', "decision_explanation", cor, NoSup)
      /\ Len(art) + 1 \in DOMAIN art' \ DOMAIN art /\ DOMAIN art' = DOMAIN art \cup {Len(art) + 1}
      /\ art'[Len(art) + 1] = a
  <2>1. Grown(a) /\ Len(art) + 1 \in DOMAIN art' \ DOMAIN art /\ DOMAIN art' = DOMAIN art \cup {Len(art) + 1}
    BY <1>2, <1>3, GrownOne
  <2>2. art'[Len(art) + 1] = a
    BY <2>1 DEF Grown
  <2> QED  BY <1>2, <2>1, <2>2 DEF Has
<1>5. Ends
  BY <1>1, EndsOk
<1>6. Turn({Now}, {}, {}, 0)
  BY <1>5, TurnEnds
<1>7. OneCall(tasks')
  BY <1>5, OneCallEnds, SerialParts
<1>8. Watched'
  <2>1. Quiet
    BY <1>1, <1>2, QuietPut
  <2>2. \A pair \in Requests \X {"evaluation", "quote"} : Complete(pair)' => Complete(pair)
    BY <1>1, <2>1, CompleteSame
  <2>3. \A t \in {Now} : tasks[t].h # "tracker"
    BY <1>1, <1>3
  <2> QED  BY <1>6, <2>2, <2>3, WatchedTurn, SerialParts
<1>9. PICK k \in DOMAIN art : art[k].kind = "decision" /\ art[k].cor = cor
                              /\ DecidedAs(art, k, cor, a.data.winner)
  BY <1>2 DEF DecidedAs
<1>10. /\ Known("requirement", NoSup) /\ Known("strategy", NoSup) /\ Starts(tasks) = {}
  <2>1. ~Untouched(cor) /\ Known("requirement", NoSup) /\ Known("strategy", NoSup)
    BY <1>9, SerialParts DEF Stocked, Untouched, Products
  <2>2. ASSUME NEW t \in Starts(tasks) PROVE FALSE
    <3>1. t \in DOMAIN tasks /\ ~tasks[t].e.replayed
      BY <2>2 DEF Starts, Unheard
    <3>2. tasks[t].e.cor = cor
      BY <1>1, <1>3, <3>1, SerialParts DEF OneCall
    <3>3. Untouched(tasks[t].e.cor)
      BY <2>2, SerialParts DEF Chain
    <3> QED  BY <2>1, <3>2, <3>3
  <2> QED  BY <2>1, <2>2
<1>11. /\ KeptS /\ KeptU("evaluation") /\ KeptU("negotiation") /\ KeptU("strategy") /\ KeptU("decision")
       /\ KeptP("discovery")
  <2>1. {"discovery", "evaluation", "strategy", "negotiation", "decision"} \subseteq Tracked
    BY DEF Tracked
  <2>2. /\ \A h : Now \notin Unheard(tasks, h)
        /\ Now \notin Paused(tasks, "discovery")
    BY <1>1, <1>3 DEF Unheard, Paused
  <2>3. KeptU("evaluation") /\ KeptU("negotiation") /\ KeptU("strategy") /\ KeptU("decision")
    BY <1>6, <2>1, <2>2, TurnKeepsU
  <2>4. KeptP("discovery")
    BY <1>6, <2>1, <2>2, TurnKeepsP
  <2>5. KeptS
    BY <1>6, <1>10, TurnKeepsS
  <2> QED  BY <2>3, <2>4, <2>5
<1>12. /\ Paused(tasks, "decision") = {Now} /\ Unheard(tasks, "decision") = {}
       /\ Unheard(tasks', "decision") = {} /\ Paused(tasks', "decision") = {}
  <2>1. Unheard(tasks, "decision") \cup Paused(tasks, "decision") = {Now}
    BY <1>1, SerialParts DEF Decides
  <2>2. Unheard(tasks, "decision") = {}
    BY <1>1, <1>3, <2>1 DEF Unheard
  <2>3. Paused(tasks', "decision") = Paused(tasks, "decision") \ {Now}
    BY <1>6 DEF Turn, Tracked
  <2> QED  BY <1>11, <2>1, <2>2, <2>3 DEF KeptU
<1>13. KeptA({"evaluation"}) /\ KeptA({"quote"}) /\ KeptA({"decision"})
  BY <1>2, <1>4, GrownKeeps
<1>14. \A kind, c, s : Has(art, kind, c, s) => Has(art', kind, c, s)
  BY <1>13, HasStays
<1>15. \A j \in DOMAIN art' : \/ j \in DOMAIN art /\ art'[j] = art[j]
                              \/ j = Len(art) + 1 /\ art'[j] = a
  BY <1>4 DEF Grown
<1> HIDE DEF cor
<1>16. Pending'
  <2>1. \A t \in {Now} : tasks[t].h # "requirement"
    BY <1>1, <1>3
  <2> QED  BY <1>1, <1>6, <2>1, PendingTurn, SerialParts
<1>17. Stocked'
  <2>1. \A t \in Unheard(tasks', "strategy") : t \in Unheard(tasks, "strategy") /\ tasks'[t].e = tasks[t].e
    BY <1>11 DEF KeptU
  <2>2. \A kind : Known(kind, NoSup) => Known(kind, NoSup)'
    BY <1>13 DEF Known, Named, KeptA
  <2>3. \A i \in DOMAIN art' \ DOMAIN art : /\ ArtifactOk(art'[i]) /\ art'[i].cor \in sent'
                                            /\ Known("requirement", NoSup)' /\ Known("strategy", NoSup)'
    BY <1>1, <1>2, <1>3, <1>4, <1>10, <2>2 DEF Grown
  <2>4. \A i \in DOMAIN art : i \in DOMAIN art' /\ art'[i] = art[i]
    BY <1>4 DEF Grown
  <2> QED  BY <1>1, <1>10, <1>11, <2>1, <2>3, <2>4, StockedMore, SerialParts DEF KeptS
<1>18. Chain'
  <2>1. Starts(tasks') = {}
    BY <1>10, <1>11 DEF KeptS
  <2> QED  BY <1>1, <1>10, <1>11, <1>14, <2>1, SerialParts DEF Chain, KeptP
<1>19. Evals' /\ Offers'
  BY <1>11, <1>13, SerialParts, EvalsKept, OffersKept
<1>20. Decides'
  <2>1. \A r \in Requests : <<r, "quote">> \in closed' => AllQuoted(r)'
    <3>1. \A r : AllQuoted(r) => AllQuoted(r)'
      BY <1>14 DEF AllQuoted
    <3> QED  BY <1>1, <3>1, SerialParts DEF Decides
  <2>2. ASSUME NEW i \in DOMAIN art', art'[i].kind = "decision"
        PROVE  /\ <<art'[i].cor, "quote">> \in closed'
               /\ art'[i].sup = NoSup /\ Only(art', i) /\ Covers(art'[i].data.quotes)
    <3>1. i \in DOMAIN art /\ art'[i] = art[i]
      BY <1>2, <1>15, <2>2
    <3>2. /\ <<art[i].cor, "quote">> \in closed
          /\ art[i].sup = NoSup /\ Only(art, i) /\ Covers(art[i].data.quotes)
      BY <2>2, <3>1, SerialParts DEF Decides
    <3>3. Only(art', i)
      BY <1>2, <1>15, <2>2, <3>1, <3>2 DEF Only
    <3> QED  BY <1>1, <3>1, <3>2, <3>3
  <2>3. \A t, u \in Unheard(tasks', "decision") \cup Paused(tasks', "decision") : t = u
    BY <1>12
  <2>4. \A t \in Unheard(tasks', "decision") :
          /\ <<tasks'[t].e.cor, "quote">> \in closed'
          /\ ~Has(art', "decision", tasks'[t].e.cor, NoSup)
    BY <1>12
  <2> QED  BY <2>1, <2>2, <2>3, <2>4 DEF Decides, Covers
<1>21. Explains'
  <2>1. PICK n \in Nat : DOMAIN art = 1 .. n
    BY <1>3 DEF Listed
  <2>2. \A j \in DOMAIN art : ~(art[j].kind = "decision_explanation" /\ art[j].cor = cor)
    BY <1>1, SerialParts DEF Explains, Has
  <2>3. ASSUME NEW i \in DOMAIN art', art'[i].kind = "decision_explanation"
        PROVE  /\ art'[i].sup = NoSup /\ Only(art', i)
               /\ \E m \in 1 .. i - 1 : DecidedAs(art', m, art'[i].cor, art'[i].data.winner)
               /\ Range(art'[i].data.rejected) = Suppliers \ {art'[i].data.winner}
    <3>1. CASE i \in DOMAIN art /\ art'[i] = art[i]
      <4>1. /\ art[i].sup = NoSup /\ Only(art, i)
            /\ \E m \in 1 .. i - 1 : DecidedAs(art, m, art[i].cor, art[i].data.winner)
            /\ Range(art[i].data.rejected) = Suppliers \ {art[i].data.winner}
        BY <2>3, <3>1, SerialParts DEF Explains
      <4>2. art[i].cor # cor
        BY <2>2, <2>3, <3>1
      <4>3. Only(art', i)
        BY <1>2, <1>15, <3>1, <4>1, <4>2 DEF Only
      <4>4. \A m \in 1 .. i - 1 : art'[m] = art[m]
        <5>1. 1 .. i - 1 \subseteq DOMAIN art
          BY <2>1, <3>1
        <5> QED  BY <1>4, <5>1 DEF Grown
      <4> QED  BY <3>1, <4>1, <4>3, <4>4 DEF DecidedAs
    <3>2. CASE i = Len(art) + 1 /\ art'[i] = a
      <4>1. Only(art', i)
        BY <1>2, <1>15, <2>2, <3>2 DEF Only
      <4>2. k \in 1 .. i - 1 /\ art'[k] = art[k]
        <5>1. k < i
          BY <1>4, <3>2 DEF Grown
        <5>2. i \in Nat
          BY <1>4, <3>2 DEF Grown
        <5> QED  BY <1>4, <2>1, <5>1, <5>2 DEF Grown
      <4>3. DecidedAs(art', k, cor, a.data.winner)
        BY <1>9, <4>2 DEF DecidedAs
      <4> QED  BY <1>2, <3>2, <4>1, <4>2, <4>3
    <3> QED  BY <1>15, <3>1, <3>2
  <2>4. \A i \in DOMAIN art' : art'[i].kind = "decision" =>
            \/ Has(art', "decision_explanation", art'[i].cor, NoSup)
            \/ \E t \in Paused(tasks', "decision") : tasks'[t].e.cor = art'[i].cor
    <3>1. ASSUME NEW i \in DOMAIN art', art'[i].kind = "decision"
          PROVE  Has(art', "decision_explanation", art'[i].cor, NoSup)
      <4>1. i \in DOMAIN art /\ art'[i] = art[i]
        BY <1>2, <1>15, <3>1
      <4>2. \/ Has(art, "decision_explanation", art[i].cor, NoSup)
            \/ \E t \in Paused(tasks, "decision") : tasks[t].e.cor = art[i].cor
        BY <3>1, <4>1, SerialParts DEF Explains
      <4>3. CASE \E t \in Paused(tasks, "decision") : tasks[t].e.cor = art[i].cor
        <5>1. art[i].cor = cor
          BY <1>3, <1>12, <4>3 DEF cor
        <5> QED  BY <1>4, <4>1, <5>1 DEF cor
      <4> QED  BY <1>14, <4>1, <4>2, <4>3
    <3> QED  BY <3>1
  <2> QED  BY <1>12, <2>3, <2>4 DEF Explains
<1>22. Progress'
  <2>1. /\ \A q \in sent : Wanted(q) => UnderWay(q)
        /\ \A q \in Requests : <<q, "quote">> \in closed => ToDecide(q)
    BY SerialParts, ProgressIs
  <2>2. \A q, s : OnItsWay(q, s) => OnItsWay(q, s)'
    BY <1>11, <1>14, OnItsWayKept
  <2>3. \A q : UnderWay(q) => UnderWay(q)'
    BY <1>1, <1>11, <2>2 DEF UnderWay, KeptS
  <2>4. \A q : ToDecide(q) => ToDecide(q)'
    BY <1>11, <1>14, ToDecideKept
  <2> QED  BY <1>1, <2>1, <2>3, <2>4 DEF Progress, Wanted, UnderWay, ToDecide
<1> QED  BY <1>7, <1>8, <1>16, <1>17, <1>18, <1>19, <1>20, <1>21, <1>22 DEF SerialInv

(***************************************************************************)
(* All steps together.                                                     *)
(***************************************************************************)
LEMMA SerialInit == Init => SerialInv
<1> SUFFICES ASSUME Init PROVE SerialInv
  OBVIOUS
<1>1. tasks = <<>> /\ art = <<>> /\ expect = <<>> /\ closed = {} /\ sent = {}
  BY DEF Init
<1>2. DOMAIN tasks = {} /\ DOMAIN art = {} /\ DOMAIN expect = {}
  BY <1>1
<1>3. \A h : Unheard(tasks, h) = {} /\ Paused(tasks, h) = {}
  BY <1>1, NobodyYet
<1>4. Starts(tasks) = {}
  BY <1>3 DEF Starts
<1>5. agent.discovery.done = {} /\ ~agent.requirement.pending
  BY DEF Init
<1>6. OneCall(tasks) /\ Pending
  BY <1>2, <1>5 DEF OneCall, Pending
<1>7. Watched
  BY <1>2 DEF Watched, Complete
<1>8. Stocked /\ Chain
  BY <1>2, <1>3, <1>4, <1>5 DEF Stocked, Chain
<1>9. Evals /\ Offers
  BY <1>2, <1>3 DEF Evals, Offers
<1>10. Decides /\ Explains
  BY <1>1, <1>2, <1>3 DEF Decides, Explains
<1>11. Progress
  BY <1>1 DEF Progress
<1> QED  BY <1>6, <1>7, <1>8, <1>9, <1>10, <1>11 DEF SerialInv

LEMMA SerialStutters == ASSUME LoopInv, SerialInv, UNCHANGED vars PROVE SerialInv'
<1>1. UNCHANGED <<tasks, art, expect, closed, agent, sent>>
  BY DEF vars
<1>2. /\ \A h : KeptU(h) /\ KeptP(h)
      /\ KeptS /\ \A K : KeptA(K)
  BY <1>1 DEF KeptU, KeptP, KeptS, KeptA
<1>3. \A kind, sup : Known(kind, sup)' = Known(kind, sup)
  BY <1>1 DEF Known, Named
<1>4. OneCall(tasks')
  BY <1>1, SerialParts
<1>5. Watched'
  <2>1. \A pair \in Requests \X {"evaluation", "quote"} : Complete(pair)' => Complete(pair)
    BY <1>1 DEF Complete, Count, Find
  <2> QED  BY <1>1, <2>1, SerialParts DEF Watched
<1>6. Pending'
  BY <1>1, <1>2, PendingKept, SerialParts
<1>7. Stocked'
  BY <1>1, <1>3, SerialParts DEF Stocked
<1>8. Settled'
  <2>1. Calm
    BY <1>1, <1>2 DEF Calm
  <2> QED  BY <2>1, CalmKeeps, SerialParts
<1> QED  BY <1>4, <1>5, <1>6, <1>7, <1>8, SerialIs DEF SerialInv, Settled

LEMMA SerialNext == ASSUME Overlap = FALSE, LoopInv, SerialInv, [Next]_vars PROVE SerialInv'
<1>1. CASE UNCHANGED vars
  BY <1>1, SerialStutters
<1>2. ASSUME NEW r \in Requests, Send(r) PROVE SerialInv'
  BY <1>2, SendSerial
<1>3. CASE Replay
  BY <1>3, ReplaySerial
<1>4. CASE Answer \/ Record \/ Ignore \/ RequirementDone \/ StrategyDone \/ OnlyReturns
  BY <1>4, ReturnsSerial
<1>5. CASE ReplayNext \/ Wake \/ Track
  BY <1>5, ReplayNextSerial, WakeSerial, TrackSerial
<1>6. CASE RequirementStep \/ StrategyStep \/ DiscoveryStep \/ DiscoveryNext
  BY <1>6, RequirementSerial, StrategySerial, DiscoverySerial, DiscoveryNextSerial
<1>7. CASE EvaluationStep \/ NegotiationStep \/ DecisionStep \/ DecisionDone
  BY <1>7, EvaluationSerial, NegotiationSerial, DecisionSerial, ExplanationSerial
<1>8. CASE Analyse \/ LaterStep
  BY <1>8, AnalyseSerial, LaterSerial
<1> QED  BY <1>1, <1>2, <1>3, <1>4, <1>5, <1>6, <1>7, <1>8 DEF Next, Run

LEMMA SerialAlways == Overlap = FALSE => (Spec => [](LoopInv /\ SerialInv))
<1> SUFFICES ASSUME Overlap = FALSE PROVE Spec => [](LoopInv /\ SerialInv)
  OBVIOUS
<1>1. Init => LoopInv /\ SerialInv
  BY LoopInit, SerialInit
<1>2. LoopInv /\ SerialInv /\ [Next]_vars => LoopInv' /\ SerialInv'
  BY LoopNext, SerialNext
<1> QED  BY <1>1, <1>2, PTL DEF Spec

\* While one call is served at a time, a decision is never made before every
\* supplier has quoted: it weighs one quote of each, whatever the order the
\* handlers are called in, and a request gets one decision however often the
\* tracker looks at its groups.
THEOREM DecisionsCover == Overlap = FALSE => (Spec => []CoversAll)
<1>1. ASSUME LoopInv, SerialInv PROVE CoversAll
  <2>1. ASSUME NEW i \in DOMAIN art, art[i].kind = "decision"
        PROVE  /\ Cardinality(art[i].data.quotes) = Len(Pool)
               /\ {q.supplier : q \in art[i].data.quotes} = Suppliers
               /\ Count("decision", art[i].cor) = 1
    <3>1. Only(art, i) /\ Covers(art[i].data.quotes)
      BY <1>1, <2>1, SerialParts DEF Decides
    <3>2. Find("decision", art[i].cor) = {i}
      BY <2>1, <3>1 DEF Find, Only
    <3>3. Count("decision", art[i].cor) = 1
      BY <3>2, FS_Singleton DEF Count
    <3> QED  BY <3>1, <3>3 DEF Covers
  <2> QED  BY <2>1 DEF CoversAll
<1>2. LoopInv /\ SerialInv => CoversAll
  BY <1>1
<1> SUFFICES ASSUME Overlap = FALSE PROVE Spec => []CoversAll
  OBVIOUS
<1> QED  BY <1>2, SerialAlways, PTL

\* While one call is served at a time, the explanation that the agent writes
\* from its fields, when everything behind the decision is done, is of the
\* decision it was made for: the same request and winner, a reason for each
\* of the others, and no decision without once the loop is at rest.
THEOREM DecisionsExplained == Overlap = FALSE => (Spec => []Explained)
<1>1. ASSUME LoopInv, SerialInv PROVE Explained
  <2>1. ASSUME NEW i \in DOMAIN art, art[i].kind = "decision_explanation"
        PROVE  /\ Count("decision_explanation", art[i].cor) = 1
               /\ \E k \in 1 .. i - 1 :
                     /\ art[k].kind = "decision" /\ art[k].cor = art[i].cor
                     /\ art[k].data.winner = art[i].data.winner
               /\ Range(art[i].data.rejected) = Suppliers \ {art[i].data.winner}
    <3>1. /\ Only(art, i) /\ Range(art[i].data.rejected) = Suppliers \ {art[i].data.winner}
          /\ \E k \in 1 .. i - 1 : DecidedAs(art, k, art[i].cor, art[i].data.winner)
      BY <1>1, <2>1, SerialParts DEF Explains
    <3>2. Find("decision_explanation", art[i].cor) = {i}
      BY <2>1, <3>1 DEF Find, Only
    <3>3. Count("decision_explanation", art[i].cor) = 1
      BY <3>2, FS_Singleton DEF Count
    <3> QED  BY <3>1, <3>3 DEF DecidedAs
  <2>2. ASSUME Idle, NEW i \in DOMAIN art, art[i].kind = "decision"
        PROVE  Find("decision_explanation", art[i].cor) # {}
    <3>1. Paused(tasks, "decision") = {}
      BY <1>1, <2>2, NotAtWork, NobodyYet
    <3>2. Has(art, "decision_explanation", art[i].cor, NoSup)
      BY <1>1, <2>2, <3>1, SerialParts DEF Explains
    <3> QED  BY <3>2 DEF Has, Find
  <2> QED  BY <2>1, <2>2 DEF Explained
<1>2. LoopInv /\ SerialInv => Explained
  BY <1>1
<1> SUFFICES ASSUME Overlap = FALSE PROVE Spec => []Explained
  OBVIOUS
<1> QED  BY <1>2, SerialAlways, PTL

\* While one call is served at a time, nobody is left waiting: when nothing is
\* due every send_message has returned, and every requirement that could be
\* read has its decision, although each of the steps in between is set off by
\* an event that some handler must hear.
THEOREM NobodyLeft == Overlap = FALSE => (Spec => []NobodyWaits)
<1>1. ASSUME LoopInv, SerialInv, Idle => Returned PROVE NobodyWaits
  <2>1. ASSUME Idle, NEW r \in sent, Payload[r].intent = "create", Payload[r].valid
        PROVE  Find("decision", r) # {}
    <3>1. \A h : Unheard(tasks, h) = {} /\ Paused(tasks, h) = {}
      BY <1>1, <2>1, NotAtWork, NobodyYet
    <3>2. DOMAIN tasks = {} /\ Starts(tasks) = {}
      BY <1>1, <2>1, <3>1, NotAtWork DEF Starts
    <3>3. UnderWay(r)
      BY <1>1, <2>1, SerialParts, ProgressIs DEF Wanted
    <3>4. PICK i \in DOMAIN expect : expect[i].cor = r
      BY <3>2, <3>3 DEF UnderWay
    <3>5. AllQuoted(r)
      BY <3>1, <3>2, <3>3 DEF UnderWay, OnItsWay, AllQuoted
    <3>6. Count("quote", r) = Len(Pool) /\ Len(Pool) \in Nat
      BY <1>1, <3>5, QuotesFound, SerialParts, PoolAssumption
    <3>7. expect[i].count = Len(Pool)
      <4>1. expect \in Seq(Expectations(sent))
        BY <1>1 DEF LoopInv, Typed
      <4>2. expect[i] \in Expectations(sent)
        BY <4>1
      <4> QED  BY <4>2 DEF Expectations
    <3> DEFINE pair == <<r, "quote">>
    <3>8. pair \in Requests \X {"evaluation", "quote"} /\ pair[1] = r /\ pair[2] = "quote"
      BY <1>1 DEF LoopInv, Typed
    <3> HIDE DEF pair
    <3>9. pair \in closed
      <4>1. SUFFICES ASSUME pair \notin closed PROVE FALSE
        OBVIOUS
      <4>2. Complete(pair)
        BY <3>4, <3>6, <3>7, <3>8, <4>1 DEF Complete
      <4> QED  BY <1>1, <3>2, <3>8, <4>2, SerialParts DEF Watched
    <3>10. ToDecide(r)
      BY <1>1, <3>9, SerialParts, ProgressIs DEF pair, LoopInv, Typed
    <3>11. Has(art, "decision", r, NoSup)
      BY <3>1, <3>10 DEF ToDecide
    <3> QED  BY <3>11 DEF Has, Find
  <2> QED  BY <1>1, <2>1 DEF NobodyWaits
<1>2. LoopInv /\ SerialInv /\ (Idle => Returned) => NobodyWaits
  BY <1>1
<1> SUFFICES ASSUME Overlap = FALSE PROVE Spec => []NobodyWaits
  OBVIOUS
<1> QED  BY <1>2, SerialAlways, EveryCallReturns, PTL
=============================================================================
