------------------------------ MODULE HashChain ------------------------------
(***************************************************************************)
(* What the ledger of the contract net promises: each session has a chain  *)
(* that only grows at its end, and every entry names the digest of the     *)
(* entry before it.  The digest is ideal: different entries have different *)
(* digests.                                                                *)
(***************************************************************************)
EXTENDS Integers, Sequences

CONSTANTS Sessions, Genesis

VARIABLE chain

Digest(s, entry) == <<s, entry>>
Tip(s, rows) == IF rows = <<>> THEN Genesis ELSE Digest(s, rows[Len(rows)])

\* verify_chain: the first entry names the genesis, each other one the tip of
\* the entries before it.
Verified(s, rows) == \A i \in DOMAIN rows : rows[i].prev = Tip(s, SubSeq(rows, 1, i - 1))

Init == chain = [s \in Sessions |-> <<>>]

Extend(s) ==
    /\ chain'[s] # <<>>
    /\ LET entry == chain'[s][Len(chain'[s])]
       IN  /\ entry.prev = Tip(s, chain[s])
           /\ chain' = [chain EXCEPT ![s] = Append(@, entry)]

Next == \E s \in Sessions : Extend(s)

Spec == Init /\ [][Next]_chain
=============================================================================
