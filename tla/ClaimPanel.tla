----------------------------- MODULE ClaimPanel -----------------------------
(***************************************************************************)
(* A job's page (jobs/[slug]/page.tsx) and its claim panel, open in several *)
(* tabs for the same proofs, against what the claim route promises          *)
(* (ClaimDesk, which JobGate implements).  Answers may be slow, a request   *)
(* or its answer may be lost, and a page may be loaded again, which         *)
(* forgets the call it was waiting for.                                     *)
(***************************************************************************)
EXTENDS ClaimDesk, Naturals, FiniteSets

CONSTANTS
  Page,       \* open tabs, numbered as they are opened
  Link,       \* the links that lead to the page: a claim, or NoClaim
  Convertible \* the gates that pay native XLM

ASSUME ClaimPanelAssumption ==
  /\ Call \subseteq Nat /\ Page \subseteq Nat
  /\ \A l \in Link \ {NoClaim} :
       l = [slug |-> l.slug, txHash |-> l.txHash, nullifier |-> l.nullifier,
            boundAddress |-> l.boundAddress, receiveAsset |-> "none"]
  /\ \A l \in Link \ {NoClaim} : l \in Wanted
  /\ \A l \in Link \ {NoClaim} :
       l.slug \in Convertible => [l EXCEPT !.receiveAsset = "supported"] \in Wanted
  /\ NoClaim \in Link /\ NoClaim \notin Wanted /\ NoClaim \notin Call

VARIABLES
  view,     \* what a tab shows
  link,     \* the query string it was loaded with
  choice,   \* the asset chosen to receive
  current,  \* the call it waits for or shows
  over      \* have the gates expired?

panelVars == <<view, link, choice, current, over>>

View == {"closed", "expired", "prove", "idle", "claiming", "done", "rejected", "error"}

PanelTypeOK ==
  /\ view \in [Page -> View]
  /\ link \in [Page -> Link]
  /\ choice \in [Page -> {"none", "supported"}]
  /\ current \in [Page -> Call \cup {NoClaim}]
  /\ over \in BOOLEAN

PanelInit ==
  /\ DeskInit
  /\ view = [p \in Page |-> "closed"]
  /\ link = [p \in Page |-> NoClaim]
  /\ choice = [p \in Page |-> "none"]
  /\ current = [p \in Page |-> NoClaim]
  /\ over = FALSE

Show(p, what) == view' = [view EXCEPT ![p] = what]
-----------------------------------------------------------------------------
(* The server renders the page of a link, for the first time or again.      *)
Load(p, l) ==
  /\ \A q \in Page : q < p => view[q] # "closed"
  /\ view[p] # "closed" => l = link[p]
  /\ link' = [link EXCEPT ![p] = l]
  /\ Show(p, IF over THEN "expired" ELSE IF l = NoClaim THEN "prove" ELSE "idle")
  /\ choice' = [choice EXCEPT ![p] = "none"]
  /\ current' = [current EXCEPT ![p] = NoClaim]
  /\ UNCHANGED <<over, deskVars>>

Choose(p) ==
  /\ view[p] \in {"idle", "error"}
  /\ link[p].slug \in Convertible
  /\ \E asset \in {"none", "supported"} : choice' = [choice EXCEPT ![p] = asset]
  /\ UNCHANGED <<view, link, current, over, deskVars>>

NextCall(c) == asked[c] = NoClaim /\ \A d \in Call : d < c => asked[d] # NoClaim

(* claim(): the request reaches the server, or it is lost and the page      *)
(* waits for good.                                                          *)
Click(p) ==
  /\ view[p] \in {"idle", "error"}
  /\ Show(p, "claiming")
  /\ \/ /\ current' = [current EXCEPT ![p] = NoClaim]
        /\ UNCHANGED deskVars
     \/ \E c \in Call :
          /\ NextCall(c)
          /\ AskFor(c, [link[p] EXCEPT !.receiveAsset = choice[p]])
          /\ current' = [current EXCEPT ![p] = c]
  /\ UNCHANGED <<link, choice, over>>

Waiting(p) == view[p] = "claiming" /\ current[p] # NoClaim

AnnounceRefusals(p) ==   \* mutant: every refusal is shown as an earlier claim's
  /\ Waiting(p) /\ told[current[p]] # "none"
  /\ Show(p, IF told[current[p]] = "PAID" THEN "done" ELSE "rejected")
  /\ UNCHANGED <<link, choice, current, over, deskVars>>

Announce(p) ==
  /\ Waiting(p) /\ told[current[p]] # "none"
  /\ Show(p, CASE told[current[p]] = "PAID" -> "done"
               [] told[current[p]] = "ALREADY_CLAIMED" -> "rejected"
               [] told[current[p]] = "ERROR" -> "error")
  /\ UNCHANGED <<link, choice, current, over, deskVars>>

(* The answer is lost: fetch rejects and nothing catches it. *)
LoseAnswer(p) ==
  /\ Waiting(p)
  /\ current' = [current EXCEPT ![p] = NoClaim]
  /\ UNCHANGED <<view, link, choice, over, deskVars>>

GatesExpire ==
  /\ ~over /\ over' = TRUE
  /\ UNCHANGED <<view, link, choice, current, deskVars>>

PanelNext ==
  \/ \E p \in Page, l \in Link : Load(p, l)
  \/ \E p \in Page : Choose(p) \/ Click(p) \/ Announce(p) \/ LoseAnswer(p)
  \/ GatesExpire
  \/ (\E c \in Call : Desk(c)) /\ UNCHANGED panelVars

PanelSpec == PanelInit /\ [][PanelNext]_<<panelVars, deskVars>>
-----------------------------------------------------------------------------
(* What the panel says of money is so.  "Reward Unlocked": this call's      *)
(* reward was made and is on record, and no other tab shows the same proof  *)
(* as unlocked by another call.  "This second claim never reached the       *)
(* reward step": no money moved for this call, and the original reward, to  *)
(* the very wallet of the link, is on record.                               *)
PanelTellsTheTruth ==
  \A p \in Page :
    /\ view[p] = "done" =>
         /\ Receipt(current[p]) \in receipts /\ TakenAsPaid(current[p])
         /\ \A q \in Page :
              /\ view[q] = "done"
              /\ link[q].slug = link[p].slug /\ link[q].nullifier = link[p].nullifier
              => current[q] = current[p]
    /\ view[p] = "rejected" =>
         /\ money[current[p]] = "none"
         /\ \E k \in receipts :
              /\ k.gate = link[p].slug /\ k.nullifier = link[p].nullifier
              /\ k.boundAddress = link[p].boundAddress
              /\ TakenAsPaid(k.txHash)
=============================================================================
