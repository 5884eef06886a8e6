--------------------------- MODULE PolicyRegister ---------------------------
(***************************************************************************)
(* What the table of policies promises: a row, once there, is never        *)
(* changed or removed; at most one policy is active and it has a row; it   *)
(* is replaced only by a policy that has a row and passed the guardrail,   *)
(* and is never withdrawn.                                                 *)
(***************************************************************************)
CONSTANTS Versions, Row, Config, None, Baseline, Safe(_)

VARIABLES rows, active

Init == /\ rows \in [Versions -> Row \cup {None}]
        /\ active \in Versions \cup {Config}
        /\ active # Config => rows[active] # None

Store(v) ==
    /\ rows[v] = None
    /\ rows'[v] \in Row /\ rows' = [rows EXCEPT ![v] = rows'[v]]
    /\ UNCHANGED active

\* The baseline comes with its activation, when nothing is active.
Establish ==
    /\ rows[Baseline] = None /\ active = Config
    /\ rows'[Baseline] \in Row
    /\ rows' = [rows EXCEPT ![Baseline] = rows'[Baseline]]
    /\ active' = Baseline

Activate(v) ==
    /\ rows[v] # None /\ Safe(v)
    /\ active' = v
    /\ UNCHANGED rows

Next == Establish \/ \E v \in Versions : Store(v) \/ Activate(v)

Spec == Init /\ [][Next]_<<rows, active>>
=============================================================================
