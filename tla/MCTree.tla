------------------------------- MODULE MCTree -------------------------------
(***************************************************************************)
(* Issuance, and beside it the tree, the circuit and the prover whose       *)
(* arithmetic Issuance abstracts to sets of leaves, and the log of a mint.  *)
(* They share no state: a behaviour is one of Issuance, of Circuit or of     *)
(* MintLog, not a product.                                                  *)
(***************************************************************************)
EXTENDS MCIssuance, Circuit, MintLog

CONSTANTS s1, s2, track1, grade1, grade2

Attributes == {[track |-> track1, rest |-> g] : g \in {grade1, grade2}}
Addresses  == {ZeroField, Poseidon(<<"address">>)}

IssuanceIdle == \A c \in Caller : pc[c] = "new"
TreeIdle     == tree = <<>>

LogIdle      == line = 1 /\ call = "rpush" /\ job = "running" /\ history = <<>>

TreeInit == Init /\ CInit /\ LInit
TreeNext == \/ TreeIdle /\ LogIdle /\ Next /\ UNCHANGED <<cvars, lvars>>
            \/ IssuanceIdle /\ LogIdle /\ CNext /\ UNCHANGED <<vars, lvars>>
            \/ IssuanceIdle /\ TreeIdle /\ LNext /\ UNCHANGED <<vars, cvars>>

TreeSpec == TreeInit /\ [][TreeNext]_<<vars, cvars, lvars>>

(* The leaves, credentials and transactions of issuance, the terms and path  *)
(* of the prover, and the log's list and streams keep their types.           *)
TypesOK == TypeOK /\ CTypeOK /\ LTypeOK
=============================================================================
