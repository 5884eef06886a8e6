------------------------------ MODULE TraceLog ------------------------------
(***************************************************************************)
(* What the distributed blackboard promises to the people who audit a      *)
(* procurement (mesh/blackboard.py, module docstring): a set of channels   *)
(* that only ever grow, one immutable trace at a time, each trace written  *)
(* by an archetype that holds the write capability of the channel and      *)
(* naming as parents only traces that were already there.                  *)
(*                                                                         *)
(* It says nothing of who reads what, of which agents exist or of the      *)
(* order of a procurement's phases.                                        *)
(***************************************************************************)
EXTENDS Channels

VARIABLE log

\* A trace is known by its channel and its position in it.
IsRecorded(id) == id[1] \in Channels /\ id[2] \in DOMAIN log[id[1]]

Init == log = [ch \in Channels |-> <<>>]

\* A trace was appended to channel ch and nothing else changed.
Append1(ch) ==
    LET n == Len(log[ch]) IN
    /\ log' = [log EXCEPT ![ch] = log'[ch]]
    /\ Len(log'[ch]) = n + 1
    /\ \A i \in 1 .. n : log'[ch][i] = log[ch][i]
    /\ CanWrite(log'[ch][n + 1].by, ch)
    /\ \A id \in log'[ch][n + 1].parents : IsRecorded(id)

Next == \E ch \in Channels : Append1(ch)

Spec == Init /\ [][Next]_log
=============================================================================
