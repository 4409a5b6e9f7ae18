------------------------------ MODULE Passkeys ------------------------------
(***************************************************************************)
(* The passkey smart wallets of one holder in one browser: what            *)
(* localStorage keeps (passkey.client.ts), what each open page shows and    *)
(* lists (WalletLinker.tsx), and which of them PUT and DELETE               *)
(* /api/holder/wallet have left in the account.  Any request may fail,       *)
(* before or after its work was done, and answers may overtake each other.  *)
(***************************************************************************)
CONSTANTS
  LinkPage,     \* pages open on the holder's wallets, in one browser
  Passkey,      \* the wallets passkey-kit makes
  NoPasskey

ASSUME PasskeysAssumption == NoPasskey \notin Passkey

VARIABLES
  maker,       \* the wallets made so far, each with the page that made it
  stored,      \* the wallet in localStorage
  saved,       \* the wallets with a HolderWallet row
  everSaved,   \* those that have ever had one
  shown,       \* each page's passkeyWallet
  listed,      \* each page's wallets, of those made here
  making,      \* the page's "Create": "closed", "idle", or waiting for "kit" or "save"
  saves,       \* the wallets of the PUTs in flight
  released     \* history: wallets let go of, see PasskeysStay

paneVars == <<shown, listed, making>>
kvars == <<maker, stored, saved, everSaved, saves, paneVars, released>>

Made == DOMAIN maker

KTypeOK ==
  /\ Made \subseteq Passkey /\ maker \in [Made -> LinkPage]
  /\ stored \in Made \cup {NoPasskey}
  /\ saved \subseteq everSaved /\ everSaved \subseteq Made
  /\ shown \in [LinkPage -> Made \cup {NoPasskey}]
  /\ listed \in [LinkPage -> SUBSET Made]
  /\ making \in [LinkPage -> {"closed", "idle", "kit", "save"}]
  /\ saves \subseteq Made /\ released \subseteq Made

KInit ==
  /\ maker = [k \in {} |-> NoPasskey] /\ stored = NoPasskey
  /\ saved = {} /\ everSaved = {} /\ saves = {} /\ released = {}
  /\ shown = [p \in LinkPage |-> NoPasskey]
  /\ listed = [p \in LinkPage |-> {}]
  /\ making = [p \in LinkPage |-> "closed"]
-----------------------------------------------------------------------------
(* Mounted, for the first time or again: what the page waited for is        *)
(* forgotten, though a PUT it sent may still arrive.                        *)
Mount(p) ==
  /\ shown' = [shown EXCEPT ![p] = stored]
  /\ listed' = [listed EXCEPT ![p] = {}]
  /\ making' = [making EXCEPT ![p] = "idle"]
  /\ UNCHANGED <<maker, stored, saved, everSaved, saves, released>>

Mounted(p) == making[p] # "closed"

(* fetchWallets, on mounting and after every change: the list that arrives  *)
(* may be an old one, of rows that have gone or without one that has come.  *)
FetchWallets(p) ==
  /\ Mounted(p)
  /\ \E rows \in SUBSET everSaved : listed' = [listed EXCEPT ![p] = rows]
  /\ UNCHANGED <<maker, stored, saved, everSaved, saves, shown, making, released>>
-----------------------------------------------------------------------------
(* createPasskeyWallet, disabled while the page is busy. *)
CreatePasskey(p) ==
  /\ making[p] = "idle"
  /\ making' = [making EXCEPT ![p] = "kit"]
  /\ UNCHANGED <<maker, stored, saved, everSaved, saves, shown, listed, released>>

(* The kit has made a wallet; the page shows it and sends the PUT. *)
Make(p, k) ==
  /\ making[p] = "kit" /\ k \notin Made
  /\ maker' = [j \in Made \cup {k} |-> IF j = k THEN p ELSE maker[j]]
  /\ shown' = [shown EXCEPT ![p] = k]
  /\ saves' = saves \cup {k}
  /\ making' = [making EXCEPT ![p] = "save"]

RegisterUnstored(p, k) ==   \* mutant: the wallet is left to the account to keep
  /\ Make(p, k)
  /\ UNCHANGED <<stored, saved, everSaved, listed, released>>

Unsaved(keys) == keys \ (saved \cup {NoPasskey})

(* registerPasskeyWallet puts the wallet where another may have been.       *)
RegisterPasskeyWallet(p, k) ==
  /\ Make(p, k)
  /\ stored' = k
  /\ released' = released \cup Unsaved({stored})
  /\ UNCHANGED <<saved, everSaved, listed>>

(* The kit fails; or the PUT is answered, refused or lost. *)
NotBusy(p) ==
  /\ making[p] \in {"kit", "save"}
  /\ making' = [making EXCEPT ![p] = "idle"]
  /\ UNCHANGED <<maker, stored, saved, everSaved, saves, shown, listed, released>>

(* A wallet that is shown and not listed is offered to be saved or          *)
(* disconnected.                                                            *)
Offered(p) == shown[p] # NoPasskey /\ shown[p] \notin listed[p]

SaveToAccount(p) ==
  /\ Offered(p) /\ making[p] = "idle"
  /\ saves' = saves \cup {shown[p]}
  /\ UNCHANGED <<maker, stored, saved, everSaved, paneVars, released>>

(* The PUT reaches the account, or does not. *)
HandleSave(k) ==
  /\ k \in saves
  /\ saves' = saves \ {k}
  /\ \/ saved' = saved \cup {k} /\ everSaved' = everSaved \cup {k}
     \/ UNCHANGED <<saved, everSaved>>
  /\ UNCHANGED <<maker, stored, paneVars, released>>

(* disconnectPasskey clears what is stored, whichever wallet that is.       *)
DisconnectPasskey(p) ==
  /\ Offered(p)
  /\ stored' = NoPasskey
  /\ released' = released \cup {shown[p]}
                   \cup {k \in Unsaved({stored}) : maker[k] # p}
  /\ shown' = [shown EXCEPT ![p] = NoPasskey]
  /\ UNCHANGED <<maker, saved, everSaved, saves, listed, making>>

(* removeWallet, with the DELETE it sends: the row goes; or it has gone      *)
(* already, or the request fails.                                           *)
RemoveWallet(p, k) ==
  /\ k \in listed[p]
  /\ saved' \in {saved, saved \ {k}}
  /\ released' = released \cup {k}
  /\ UNCHANGED <<maker, stored, everSaved, saves, paneVars>>

KNext ==
  \/ \E p \in LinkPage :
       \/ Mount(p) \/ FetchWallets(p) \/ CreatePasskey(p) \/ NotBusy(p)
       \/ SaveToAccount(p) \/ DisconnectPasskey(p)
       \/ \E k \in Passkey : RegisterPasskeyWallet(p, k) \/ RemoveWallet(p, k)
  \/ \E k \in Passkey : HandleSave(k)

KSpec == KInit /\ [][KNext]_kvars
-----------------------------------------------------------------------------
(* A wallet is made once, and funds may be sent to it.  One that is neither  *)
(* in localStorage nor in the account has been let go of: a page that showed *)
(* it disconnected it, or it was removed from the account; or it was never   *)
(* saved and lost in one of two ways nobody asked for: a later wallet took   *)
(* its place in localStorage, or a page that had not made it disconnected    *)
(* the one it showed (WalletLinker.tsx:131-163).                            *)
PasskeysStay == Made \ (saved \cup {stored}) \subseteq released
=============================================================================
