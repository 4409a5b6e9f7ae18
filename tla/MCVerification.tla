--------------------------- MODULE MCVerification ---------------------------
(***************************************************************************)
(* Verification for TLC.  Account 0 is the service, 1 a holder.  The        *)
(* bundles: a holder's proof under two roots (one nullifier), the second    *)
(* naming a credential; a proof for a credential minted after its root; a   *)
(* forged proof; and a proof bound to another account.                      *)
(***************************************************************************)
EXTENDS Verification, TLC

CONSTANTS r1, r2, n1, n2, c1

Submit(root, nullifier, valid, credential, key) ==
  [pi |-> [root |-> root, nullifier |-> nullifier, boundAddress |-> key],
   holder |-> 1, proofValid |-> valid, credential |-> credential,
   rawMatches |-> TRUE]

Honest  == Submit(r1, n1, TRUE, None, 1)
Again   == Submit(r2, n1, TRUE, c1, 1)
TooNew  == Submit(r1, n2, TRUE, c1, 1)
Garbled == [Submit(r2, n2, TRUE, c1, 1) EXCEPT !.rawMatches = FALSE]
Forged  == Submit(r1, n2, FALSE, None, 1)
Misbound == Submit(r1, n2, TRUE, None, 0)

MCBundles  == {Honest, Again, TooNew, Garbled, Forged, Misbound}
MCTwins    == {Honest, Again}
MCCovers   == {<<r2, c1>>}
Symmetry   == Permutations(Request)
=============================================================================
