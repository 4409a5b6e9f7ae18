----------------------------- MODULE MCIssuance -----------------------------
(***************************************************************************)
(* Issuance for TLC: mints and revocations race over one credential issued  *)
(* before, or over two of which one was revoked.                            *)
(***************************************************************************)
EXTENDS Issuance, TLC

CONSTANTS o1, o2

OneOld  == <<o1>>
TwoOld  == <<o1, o2>>
Symmetry == Permutations(Mint) \cup Permutations(Revocation)
=============================================================================
