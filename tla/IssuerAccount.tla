--------------------------- MODULE IssuerAccount ---------------------------
(***************************************************************************)
(* The one Stellar account that signs everything the server submits         *)
(* (ISSUER_SECRET) and the ledger that applies its transactions.  A builder  *)
(* in lib/stellar.ts reads the account's sequence number, builds and signs  *)
(* a transaction on it, and submits; two builders that read the same number *)
(* compete, and the ledger applies at most one of the two.                  *)
(*                                                                          *)
(* The ledger is external: what it may do is taken from how lib/stellar.ts  *)
(* submits (setTimeout(60)) and polls.                                      *)
(***************************************************************************)
EXTENDS Naturals, FiniteSets

CONSTANT Client    \* who submits; each client submits one transaction

VARIABLES
  accountSeq,   \* the account's sequence number on the ledger
  txSeq,        \* the number each client's transaction was built on
  tx            \* each client's transaction, as the ledger sees it

TxState == {"none", "held", "pending", "success", "failed", "dropped"}

TypeOK ==
  /\ accountSeq \in Nat
  /\ txSeq \in [Client -> Nat]
  /\ tx \in [Client -> TxState]

Init ==
  /\ accountSeq = 0
  /\ txSeq = [c \in Client |-> 0]
  /\ tx = [c \in Client |-> "none"]

(* rpcServer.getAccount / server.loadAccount, then TransactionBuilder. *)
Build(c) ==
  /\ txSeq' = [txSeq EXCEPT ![c] = accountSeq]
  /\ UNCHANGED <<accountSeq, tx>>

(* The transaction reaches the network, or is refused there because its     *)
(* sequence number has been used.                                           *)
Submit(c) ==
  /\ tx' = [tx EXCEPT ![c] = IF txSeq[c] = accountSeq THEN "pending" ELSE "dropped"]
  /\ UNCHANGED <<accountSeq, txSeq>>

(* The fee sponsor takes the signed transaction over and answers with its   *)
(* hash; it forwards it to the network at some later time, if at all.        *)
Hold(c) ==
  /\ tx' = [tx EXCEPT ![c] = "held"]
  /\ UNCHANGED <<accountSeq, txSeq>>

Forward(c) == tx[c] = "held" /\ Submit(c)

(* Included in a ledger: the sequence number is used up whether or not the   *)
(* operation inside succeeds.                                               *)
Include(c, outcome) ==
  /\ tx[c] = "pending"
  /\ txSeq[c] = accountSeq
  /\ accountSeq' = accountSeq + 1
  /\ tx' = [tx EXCEPT ![c] = outcome]
  /\ UNCHANGED txSeq

(* Never included: its sixty seconds passed, or its number was used. *)
Drop(c) ==
  /\ tx[c] \in {"held", "pending"}
  /\ tx' = [tx EXCEPT ![c] = "dropped"]
  /\ UNCHANGED <<accountSeq, txSeq>>

Landed == {c \in Client : tx[c] \in {"success", "failed"}}

(* Another transaction of the same account, at most `limit` of them. *)
OtherTx(limit) ==
  /\ accountSeq < limit + Cardinality(Landed)
  /\ accountSeq' = accountSeq + 1
  /\ UNCHANGED <<txSeq, tx>>
=============================================================================
