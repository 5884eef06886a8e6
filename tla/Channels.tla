------------------------------ MODULE Channels ------------------------------
(***************************************************************************)
(* The six typed channels of the distributed blackboard and the            *)
(* capabilities of the five archetypes on them (mesh/channels.py), with    *)
(* the read window that DistributedBlackboard.read returns.                *)
(***************************************************************************)
EXTENDS Integers, Sequences

\* ChannelType
Channels == {"requirement", "discovery", "score", "risk", "deal", "decision"}

Archetypes == {"scout", "evaluator", "negotiator", "buyer", "kernel"}

\* CHANNEL_ACLS, column "write": the one archetype that may write a channel.
Writers ==
    [requirement |-> {"kernel"},
     discovery   |-> {"scout"},
     score       |-> {"evaluator"},
     risk        |-> {"evaluator"},
     deal        |-> {"negotiator"},
     decision    |-> {"buyer"}]

\* CHANNEL_ACLS, column "read".
Readers ==
    [requirement |-> Archetypes,
     discovery   |-> {"evaluator", "negotiator", "kernel"},
     score       |-> {"negotiator", "buyer", "kernel"},
     risk        |-> {"buyer", "kernel"},
     deal        |-> {"buyer", "kernel"},
     decision    |-> {"kernel"}]

\* check_write_permission and check_read_permission
CanWrite(archetype, channel) == archetype \in Writers[channel]
CanRead(archetype, channel)  == archetype \in Readers[channel]

(***************************************************************************)
(* What read(archetype, channel, limit) returns of a channel that held     *)
(* `top` traces when it was read: the positions of the last `limit` of     *)
(* them, newest first.  Traces are immutable and a channel only grows, so  *)
(* the copy a reader holds is named by the positions alone.                *)
(***************************************************************************)
Window(top, limit) == {i \in 1 .. top : i > top - limit}

Newest(S) == CHOOSE i \in S : \A j \in S : j <= i
Oldest(S) == CHOOSE i \in S : \A j \in S : i <= j
=============================================================================
