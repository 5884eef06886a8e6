------------------------------- MODULE EventLoop -------------------------------
(***************************************************************************)
(* The event bus of a swarm on the event loop it runs on.  publish logs    *)
(* the event, starts one task per matching handler and waits until all     *)
(* have ended; it holds no lock across an await.  The loop runs callbacks  *)
(* first come, first served; a task that ends, and the last of a gather    *)
(* that does, wake who waits for them by callbacks of their own.  Handlers *)
(* are a set of functions: its order depends on their addresses, is the    *)
(* same each time an event of a type is published, and nobody's choice.    *)
(***************************************************************************)
EXTENDS Integers, SequencesExt, FiniteSetsExt

VARIABLES
    log,        \* EventBus._event_log
    ready,      \* the callbacks that are due: <<"step", task>>, <<"done", task>>
    tasks,      \* the tasks that have not ended
    rank        \* of each type of event, its handlers in the order they are called in

\* A task: its handler and event; the task that waits for it (0: nobody does);
\* how many it waits for itself; what is left to do when it is resumed.
Task(h, e, by) == [h |-> h, e |-> e, by |-> by, left |-> 0, resumed |-> FALSE, rest |-> <<>>]

NextId == Max({0} \cup DOMAIN tasks) + 1

Due(queue, callbacks) == queue \o callbacks

\* The task at the head of the queue.
Steps == ready # <<>> /\ Head(ready)[1] = "step"
Now == Head(ready)[2]
Me == tasks[Now]
Running(h) == Steps /\ Me.h = h
Started(h) == Running(h) /\ ~Me.resumed
Resumed(h) == Running(h) /\ Me.resumed

\* asyncio.gather: one task per handler of e, for the task t of ts.
Gather(ts, queue, t, e) ==
    LET first == Max(DOMAIN ts)
        order == rank[e.type]
    IN
       /\ tasks' = [i \in DOMAIN ts \cup {first + k : k \in DOMAIN order} |->
             IF i > first THEN Task(order[i - first], e, t)
             ELSE IF i = t THEN [ts[t] EXCEPT !.left = Len(order)] ELSE ts[i]]
       /\ ready' = Due(queue, [k \in DOMAIN order |-> <<"step", first + k>>])
       /\ UNCHANGED rank

\* The running task delivers e and goes on with rest once everybody is done.
Resume(rest) == [tasks EXCEPT ![Now] = [@ EXCEPT !.resumed = TRUE, !.rest = rest]]
Deliver(e, rest) == Gather(Resume(rest), Tail(ready), Now, e)

Publish(e, rest) ==
    /\ log' = Append(log, e)
    /\ Deliver(e, rest)

\* The running task returns or raises: gather collects either.
Finish ==
    /\ tasks' = [i \in DOMAIN tasks \ {Now} |-> tasks[i]]
    /\ ready' = Due(Tail(ready), IF Me.by = 0 THEN <<>> ELSE << <<"done", Me.by>> >>)
    /\ UNCHANGED rank

\* A coroutine from outside the loop that publishes e, or delivers it anew.
Hosted(h, e, rest) ==
    [i \in DOMAIN tasks \cup {NextId} |->
        IF i = NextId THEN [Task(h, e, 0) EXCEPT !.resumed = TRUE, !.rest = rest] ELSE tasks[i]]

Enter(h, e, rest) == Gather(Hosted(h, e, rest), ready, NextId, e)

\* Mutant: the first of them wakes it.
WokenByFirst ==
    /\ ready # <<>> /\ Head(ready)[1] = "done"
    /\ LET t == Head(ready)[2] IN
       /\ tasks' = [tasks EXCEPT ![t].left = @ - 1]
       /\ ready' = Due(Tail(ready), << <<"step", t>> >>)
       /\ UNCHANGED rank

\* The done callback of a gather: the last one wakes the task that waits.
Woken ==
    /\ ready # <<>> /\ Head(ready)[1] = "done"
    /\ LET t == Head(ready)[2] IN
       /\ tasks' = [tasks EXCEPT ![t].left = @ - 1]
       /\ ready' = Due(Tail(ready), IF tasks[t].left = 1 THEN << <<"step", t>> >> ELSE <<>>)
       /\ UNCHANGED rank

Idle == ready = <<>>
=============================================================================
