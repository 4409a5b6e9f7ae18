----------------------------- MODULE SybilBlock -----------------------------
(***************************************************************************)
(* What Zelyo promises about a nullifier, with no chain, server or database *)
(* in sight: a nullifier is granted to one bound address, once, and a grant *)
(* is never taken back.  The contract's event log implements it             *)
(* (CredentialRegistry), and so does the set of VERIFIED rows the server     *)
(* writes from it (Verification).                                            *)
(***************************************************************************)
CONSTANTS Nullifier, Bound

VARIABLE granted    \* the grants so far, a set of Grant records

Grant == [nullifier : Nullifier, bound : Bound]

Init == granted = {}

GrantOne(g) ==
  /\ \A h \in granted : h.nullifier # g.nullifier
  /\ granted' = granted \cup {g}

Next == \E g \in Grant : GrantOne(g)

Spec == Init /\ [][Next]_granted
=============================================================================
