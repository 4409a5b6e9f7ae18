----------------------------- MODULE MCJobGate -----------------------------
(***************************************************************************)
(* JobGate for TLC.  Gate g1 pays XLM, g2 sets the verified flag, g3 pays a *)
(* custom asset and g4 has none; a2 is a smart wallet.  n1 is proved for    *)
(* any gate, n2 for g3 only.  The claims: one honest claim per kind of      *)
(* reward and one for each way to be refused.                               *)
(*                                                                          *)
(* The claim panel relies on ClaimDesk alone.  It shares no state with the  *)
(* claims and is explored beside them: a behaviour is one of JobGate or one *)
(* of ClaimPanel, not a product.                                            *)
(***************************************************************************)
EXTENDS JobGate, ClaimPanel, TLC

CONSTANTS g1, g2, g3, g4, n1, n2, a1, a2, t1, t2

MCReward   == (g1 :> "XLM") @@ (g2 :> "FLAG") @@ (g3 :> "ASSET") @@ (g4 :> "UNSET")
MCRequires == (g1 :> t1) @@ (g2 :> t1) @@ (g3 :> t2) @@ (g4 :> t1)

MCProof == {
  [txHash |-> n1, nullifier |-> n1, boundAddress |-> a1, gate |-> None, track |-> t1],
  [txHash |-> n2, nullifier |-> n2, boundAddress |-> a2, gate |-> g3, track |-> t2]}

Ask(slug, n, a, asset) ==
  [slug |-> slug, txHash |-> n, nullifier |-> n, boundAddress |-> a,
   receiveAsset |-> asset]

Honest == Ask(g1, n1, a1, "none")

MCClaim == {
  Honest,
  Ask(g1, n1, a1, "supported"),    \* the same, converted on the exchange
  Ask(g3, n2, a2, "none"),         \* an asset reward to a smart wallet
  Ask(g3, n2, a2, "supported"),    \* which leaves no choice of asset
  Ask(g2, n1, a1, "none"),         \* the same proof at another gate: the FLAG reward
  Ask(g4, n1, a1, "none"),         \* and at a gate without an asset
  Ask(g1, n2, a2, "none"),         \* verified for another gate
  Ask(None, n1, a1, "none")}       \* no such gate

OnlyHonest == {Honest}

MCLink == {Honest, None}

NoClaims == rows = {} /\ expired = {} /\ \A c \in Claimer : pc[c] = "new"
NoPages  == ~over /\ \A p \in Page : view[p] = "closed"

JobsInit == Init /\ PanelInit /\ relayed = sponsored

JobsNext == \/ NoPages /\ Next /\ UNCHANGED <<panelVars, deskVars>>
            \/ NoClaims /\ PanelNext /\ UNCHANGED vars

(* The server finishes what it started; clients and the ledger may stop.    *)
JobsSpec == /\ JobsInit /\ [][JobsNext]_<<vars, panelVars, deskVars>>
            /\ \A c \in Claimer : WF_vars(Serve(c))

(* Claims, and the panels that make them, keep their types.                  *)
TypesOK == TypeOK /\ PanelTypeOK
=============================================================================
