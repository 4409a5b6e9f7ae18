------------------------------ MODULE MCHolder ------------------------------
(***************************************************************************)
(* What a holder keeps, on a small instance: the identity key, with two      *)
(* pages open in one browser or in two, and the linked wallets, with two     *)
(* holders who name the same accounts, and the passkey wallets of a browser  *)
(* with two pages open.  Keys, wallets and passkeys share no state, so their *)
(* behaviours are explored side by side and not as a product.               *)
(***************************************************************************)
EXTENDS HolderIdentity, HolderWallet, Passkeys, TLC

CONSTANTS t1, t2, d1, d2

OneBrowser  == (t1 :> d1 @@ t2 :> d1)
TwoBrowsers == (t1 :> d1 @@ t2 :> d2)

(* A swap in each of two sets of two.  The sets of keys, of wallets and of    *)
(* passkeys never matter at once, so a permutation of the one may carry one  *)
(* of the other, which keeps the group small.                               *)
Swap(S)        == {p \in Permutations(S) : \E x \in S : p[x] # x}
Together(S, T) == {p @@ q : p \in Swap(S), q \in Swap(T)}

Symmetry == Together(Secret, Holder) \cup Together(Credential, Account)
              \cup Together(Token, LinkPage) \cup Together(Delete, Passkey)

NoKeyYet    == generated = {}
NoWalletYet == DOMAIN challenge = {} /\ \A r \in Request : at[r] = "new"

NoPasskeyYet == \A p \in LinkPage : ~Mounted(p)

HolderInit == Init /\ WInit /\ KInit
HolderNext == \/ NoWalletYet /\ NoPasskeyYet /\ Next /\ UNCHANGED <<wvars, kvars>>
              \/ NoKeyYet /\ NoPasskeyYet /\ WNext /\ UNCHANGED <<vars, kvars>>
              \/ NoKeyYet /\ NoWalletYet /\ KNext /\ UNCHANGED <<vars, wvars>>

HolderSpec == HolderInit /\ [][HolderNext]_<<vars, wvars, kvars>>

(* Keys, secrets and pages, wallets, challenges and requests, and passkeys   *)
(* keep their types.                                                        *)
TypesOK == TypeOK /\ WTypeOK /\ KTypeOK
=============================================================================
