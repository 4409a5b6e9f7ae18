----------------------------- MODULE ClaimDesk -----------------------------
(***************************************************************************)
(* What POST /api/jobboard/gates/[slug]/claim promises to the page that     *)
(* calls it: money is sent at most once for a call, only before the call is *)
(* answered and never when its reward was on record already; a receipt is   *)
(* written for a reward that is taken as paid, PAID is told of the call's   *)
(* own receipt only, and ALREADY_CLAIMED of the receipt of another call for *)
(* the same wallet.  JobGate implements it; ClaimPanel relies on it.        *)
(***************************************************************************)
CONSTANTS
  Call,         \* calls of the route
  Wanted,       \* what a call may ask for: slug, nullifier, boundAddress, ...
  SmartWallet,  \* the addresses that are C... smart wallets
  NoClaim       \* what a call that has not been made asks for

VARIABLES
  asked,      \* what each call asks for
  money,      \* each call's reward: "none", "sent", "paid" or "lost"
  receipts,   \* the GateClaim table
  told,       \* each call's answer
  barred,     \* the calls that began when their reward was on record
  relayed     \* does the server submit through the fee sponsor (USE_CHANNELS)?

deskVars == <<asked, money, receipts, told, barred, relayed>>

Receipt(c) == [gate |-> asked[c].slug, nullifier |-> asked[c].nullifier,
               boundAddress |-> asked[c].boundAddress, txHash |-> c]

OnRecord(a) == \E k \in receipts : k.gate = a.slug /\ k.nullifier = a.nullifier

DeskInit ==
  /\ asked = [c \in Call |-> NoClaim]
  /\ money = [c \in Call |-> "none"]
  /\ told = [c \in Call |-> "none"]
  /\ receipts = {} /\ barred = {}
  /\ relayed \in BOOLEAN
-----------------------------------------------------------------------------
Open(c) == asked[c] # NoClaim /\ told[c] = "none"

AskFor(c, a) ==
  /\ asked[c] = NoClaim
  /\ asked' = [asked EXCEPT ![c] = a]
  /\ barred' = IF OnRecord(a) THEN barred \cup {c} ELSE barred
  /\ UNCHANGED <<money, receipts, told, relayed>>

Send(c) ==
  /\ Open(c) /\ money[c] = "none" /\ c \notin barred
  /\ \E m \in {"sent", "lost"} : money' = [money EXCEPT ![c] = m]
  /\ UNCHANGED <<asked, receipts, told, barred, relayed>>

(* The network takes its time, also after the answer. *)
Settle(c) ==
  /\ money[c] = "sent"
  /\ \E m \in {"paid", "lost"} : money' = [money EXCEPT ![c] = m]
  /\ UNCHANGED <<asked, receipts, told, barred, relayed>>

(* A reward is taken as paid when it is; or, through the fee sponsor and to  *)
(* a classic account, when the sponsor has taken it over.                   *)
TakenAsPaid(c) ==
  \/ money[c] = "paid"
  \/ relayed /\ money[c] # "none" /\ asked[c].boundAddress \notin SmartWallet

Record(c) ==
  /\ Open(c) /\ TakenAsPaid(c) /\ ~OnRecord(asked[c])
  /\ receipts' = receipts \cup {Receipt(c)}
  /\ UNCHANGED <<asked, money, told, barred, relayed>>

Tell(c, answer) ==
  /\ told' = [told EXCEPT ![c] = answer]
  /\ UNCHANGED <<asked, money, receipts, barred, relayed>>

TellPaid(c) == Open(c) /\ Receipt(c) \in receipts /\ Tell(c, "PAID")

(* The reward went to the caller's own wallet, by another call. *)
TellRejected(c) ==
  /\ Open(c)
  /\ money[c] = "none"
  /\ \E k \in receipts : k = [Receipt(c) EXCEPT !.txHash = k.txHash]
  /\ Tell(c, "ALREADY_CLAIMED")

TellFailed(c) == Open(c) /\ Tell(c, "ERROR")

Desk(c) ==
  Send(c) \/ Settle(c) \/ Record(c) \/ TellPaid(c) \/ TellRejected(c) \/ TellFailed(c)

DeskNext == \E c \in Call : Desk(c) \/ \E a \in Wanted : AskFor(c, a)

DeskSpec == DeskInit /\ [][DeskNext]_deskVars
=============================================================================
