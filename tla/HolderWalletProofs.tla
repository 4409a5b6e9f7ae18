------------------------- MODULE HolderWalletProofs -------------------------
(***************************************************************************)
(* Proofs about HolderWallet for any number of holders, accounts, requests  *)
(* and challenges, and any lifetimes of challenges and tokens; about        *)
(* Passkeys for any number of pages and wallets; and about both with         *)
(* HolderIdentity beside them, as MCHolder has them.                        *)
(***************************************************************************)
EXTENDS MCHolder, HolderIdentityProofs, TLAPS

Linked(r) == at[r] \in {"clear", "done"}   \* a link that is past its upsert

(* The id of a row is the request that created it, at the wallet it asked   *)
(* for; an id is given once, so that it never comes back elsewhere.          *)
RowIds ==
  /\ \A w \in Wallet : walletId[w] # Nil => Linked(walletId[w]) /\ WalletOf(walletId[w]) = w
  /\ \A w \in isDefault : walletId[w] # Nil

LinkedIds ==
  \A r \in Link :
    /\ linked[r] # Nil => Linked(r) /\ Linked(linked[r]) /\ WalletOf(linked[r]) = WalletOf(r)
    /\ at[r] = "clear" \/ answer[r] = "OK" => linked[r] # Nil

(* The inductive form of LinksStay: from the upsert on.                     *)
RowsOrDeletes ==
  \A r \in Link :
    linked[r] # Nil =>
      \/ walletId[WalletOf(r)] = linked[r]
      \/ \E d \in Delete : /\ at[d] = "done"
                            /\ ask[d].id = linked[r]
                            /\ ask[d].holder = ask[r].holder

(* What a request that has begun asks for.                                  *)
Asked ==
  /\ \A r \in Request : answer[r] # "none" => at[r] = "done"
  /\ \A r \in Token : at[r] \in {"get", "set"} => ask[r].challenge \in DOMAIN challenge
  /\ \A r \in Link : at[r] # "new" => WalletOf(r) \in Wallet
  /\ \A d \in Delete : at[d] # "new" => ask[d].id \in Link /\ Linked(ask[d].id)
  /\ \A d \in Delete : at[d] = "delete" => ask[ask[d].id].holder = ask[d].holder

(* A mark that was set outlives its challenge.                              *)
MarksOutlive ==
  /\ \A n \in DOMAIN challenge : challenge[n].maxTime <= clock + ChallengeTTL
  /\ \A n \in spent : nonceKey[n] >= challenge[n].maxTime + JwtMaxAge

WInv == /\ WTypeOK /\ Asked /\ RowIds /\ LinkedIds /\ RowsOrDeletes
        /\ ExtraDefaultsArePending /\ MarksOutlive

LEMMA InitWallets == WInit => WInv
<1> SUFFICES ASSUME WInit PROVE WInv  OBVIOUS
<1> USE WalletAssumption DEF WalletAssumption, WInit, Link, Request
<1>1. WTypeOK  BY DEF WTypeOK, WStep, Answer
<1>2. Asked /\ RowIds /\ LinkedIds /\ RowsOrDeletes
  BY DEF Asked, RowIds, LinkedIds, RowsOrDeletes
<1>3. ExtraDefaultsArePending /\ MarksOutlive
  BY DEF ExtraDefaultsArePending, MarksOutlive
<1> QED  BY <1>1, <1>2, <1>3 DEF WInv

LEMMA MovesTyped ==
  ASSUME WTypeOK, NEW r \in Request, NEW from, NEW to \in WStep, NEW result \in Answer,
         Move(r, from, to) \/ Finish(r, from, result)
  PROVE  at' \in [Request -> WStep] /\ answer' \in [Request -> Answer]
BY DEF WTypeOK, Move, Finish, WStep

(* A step of one request leaves the others where they are.                  *)
LEMMA OthersStay ==
  ASSUME WTypeOK, NEW q \in Request, NEW r \in Request, q # r, Handle(q)
  PROVE  /\ at'[r] = at[r] /\ ask'[r] = ask[r] /\ answer'[r] = answer[r]
         /\ r \in Link => linked'[r] = linked[r]
BY WalletAssumption
   DEF WalletAssumption, Link, Request, WTypeOK, Handle, StartPut, StartToken, StartDelete,
       GetNonce, SetNonce, UpsertWallet, ClearDefaults, FindWallet, DeleteWallet, Move, Finish

(* A request goes forward, with what it asked for.                          *)
LEMMA OnwardsOnly ==
  ASSUME WTypeOK, [WNext]_wvars, NEW r \in Request
  PROVE  /\ at[r] # "new" => at'[r] # "new" /\ ask'[r] = ask[r]
         /\ at[r] = "done" => at'[r] = "done" /\ answer'[r] = answer[r]
         /\ r \in Link /\ Linked(r) => Linked(r)' /\ linked'[r] = linked[r]
<1> USE WalletAssumption DEF WalletAssumption, Link, Request
<1>1. CASE Handle(r)
  BY <1>1 DEF Handle, StartPut, StartToken, StartDelete, GetNonce, SetNonce, UpsertWallet,
       ClearDefaults, FindWallet, DeleteWallet, Move, Finish, WTypeOK, Linked
<1>2. ASSUME NEW q \in Request, q # r, Handle(q)
      PROVE  /\ at'[r] = at[r] /\ ask'[r] = ask[r] /\ answer'[r] = answer[r]
             /\ r \in Link => linked'[r] = linked[r]
  BY <1>2, OthersStay
<1>3. CASE Tick \/ (\E n \in Challenge : BuildChallenge(n)) \/ UNCHANGED wvars
  BY <1>3 DEF Tick, BuildChallenge, wvars, Linked
<1> QED  BY <1>1, <1>2, <1>3 DEF WNext, Linked

LEMMA AskTyped ==
  ASSUME WTypeOK, NEW r \in Request, NEW h \in Holder, NEW a \in Account, NEW d \in BOOLEAN,
         NEW n \in Challenge, NEW i \in Link
  PROVE  LET all == [Request -> Ask \cup {NoAsk}]
         IN /\ [NoAsk EXCEPT !.holder = h, !.account = a, !.makeDefault = d] \in Ask
            /\ [NoAsk EXCEPT !.holder = h, !.account = a, !.makeDefault = d, !.challenge = n] \in Ask
            /\ [NoAsk EXCEPT !.holder = h, !.id = i] \in Ask
            /\ \A x \in Ask : [ask EXCEPT ![r] = x] \in all
<1>1. \A x \in Ask : [ask EXCEPT ![r] = x] \in [Request -> Ask \cup {NoAsk}]  BY DEF WTypeOK
<1> QED  BY <1>1 DEF Ask, NoAsk

LEMMA WTypeStep == ASSUME WTypeOK, Asked, [WNext]_wvars PROVE WTypeOK'
<1> USE WalletAssumption DEF WalletAssumption, Link, Request
<1> DEFINE Moved == at' \in [Request -> WStep] /\ answer' \in [Request -> Answer]
           Kept  == ask' \in [Request -> Ask \cup {NoAsk}]
                      /\ \A q \in Request : at'[q] # "new" => ask'[q] \in Ask
<1>0. {"get", "set", "upsert", "clear", "find", "delete", "done"} \subseteq WStep
        /\ {"OK", "ERROR", "NOT_FOUND", "CHALLENGE_EXPIRED", "INVALID_SIGNATURE",
            "CHALLENGE_REPLAY"} \subseteq Answer
  BY DEF WStep, Answer
<1>1. CASE Tick
  BY <1>1 DEF Tick, WTypeOK, tableVars
<1>2. ASSUME NEW n \in Challenge, BuildChallenge(n) PROVE WTypeOK'
  BY <1>2 DEF BuildChallenge, WTypeOK, tableVars
<1>3. ASSUME NEW r \in Request, Handle(r), at[r] # "new" PROVE Kept
  <2>1. \A q \in Request : ask'[q] = ask[q] /\ (at[q] = "new" => at'[q] = "new" \/ q = r)
    BY <1>3, OthersStay, OnwardsOnly DEF WNext
  <2>2. ask' = ask
    BY <1>3 DEF Handle, StartPut, StartToken, StartDelete, GetNonce, SetNonce, UpsertWallet,
       ClearDefaults, FindWallet, DeleteWallet, Move, Finish
  <2> QED  BY <1>3, <2>1, <2>2 DEF WTypeOK
<1>4. ASSUME NEW r \in Request, NEW x \in Ask, ask' = [ask EXCEPT ![r] = x], Handle(r) PROVE Kept
  <2>1. ask' \in [Request -> Ask \cup {NoAsk}] /\ ask'[r] = x
    BY <1>4 DEF WTypeOK
  <2>2. \A q \in Request : q # r => at'[q] = at[q] /\ ask'[q] = ask[q]
    BY <1>4, OthersStay
  <2> QED  BY <2>1, <2>2 DEF WTypeOK
<1>5. ASSUME NEW r \in PutReq, StartPut(r) PROVE WTypeOK'
  <2>1. Moved  BY <1>0, <1>5, MovesTyped DEF StartPut
  <2>2. \E x \in Ask : ask' = [ask EXCEPT ![r] = x]
    BY <1>5 DEF StartPut, Ask, NoAsk
  <2>3. Kept  BY <1>4, <1>5, <2>2 DEF Handle
  <2> QED  BY <1>5, <2>1, <2>3 DEF StartPut, WTypeOK, tableVars, sepVars
<1>6. ASSUME NEW r \in Token, StartToken(r) PROVE WTypeOK'
  <2>1. Moved  BY <1>0, <1>6, MovesTyped DEF StartToken
  <2>2. \E x \in Ask : ask' = [ask EXCEPT ![r] = x]
    BY <1>6 DEF StartToken, Ask, NoAsk, WTypeOK
  <2>3. Kept  BY <1>4, <1>6, <2>2 DEF Handle
  <2> QED  BY <1>6, <2>1, <2>3 DEF StartToken, WTypeOK, tableVars, sepVars
<1>7. ASSUME NEW r \in Delete, StartDelete(r) PROVE WTypeOK'
  <2>1. Moved  BY <1>0, <1>7, MovesTyped DEF StartDelete
  <2>2. \E x \in Ask : ask' = [ask EXCEPT ![r] = x]
    BY <1>7 DEF StartDelete, Ask, NoAsk, WTypeOK, Exists
  <2>3. Kept  BY <1>4, <1>7, <2>2 DEF Handle
  <2> QED  BY <1>7, <2>1, <2>3 DEF StartDelete, WTypeOK, tableVars, sepVars
<1>8. ASSUME NEW r \in Token, GetNonce(r) PROVE WTypeOK'
  <2>1. Moved  BY <1>0, <1>8, MovesTyped DEF GetNonce
  <2>2. Kept  BY <1>3, <1>8 DEF Handle, GetNonce
  <2> QED  BY <1>8, <2>1, <2>2 DEF GetNonce, WTypeOK, tableVars, sepVars
<1>9. ASSUME NEW r \in Token, SetNonce(r) PROVE WTypeOK'
  <2>1. Moved  BY <1>0, <1>9, MovesTyped DEF SetNonce
  <2>2. Kept  BY <1>3, <1>9 DEF Handle, SetNonce, Move
  <2>3. ask[r].challenge \in DOMAIN challenge  BY <1>9 DEF SetNonce, Move, Asked
  <2> QED  BY <1>9, <2>1, <2>2, <2>3 DEF SetNonce, WTypeOK, tableVars
<1>10. ASSUME NEW r \in Link, UpsertWallet(r) PROVE WTypeOK'
  <2>1. Moved  BY <1>0, <1>10, MovesTyped DEF UpsertWallet
  <2>2. Kept  BY <1>3, <1>10 DEF Handle, UpsertWallet
  <2>3. WalletOf(r) \in Wallet  BY <1>10 DEF UpsertWallet, Asked
  <2>4. walletId' \in [Wallet -> Link \cup {Nil}] /\ isDefault' \subseteq Wallet
    BY <1>10, <2>3 DEF UpsertWallet, UpsertRow, WTypeOK
  <2> QED  BY <1>10, <2>1, <2>2, <2>3, <2>4 DEF UpsertWallet, WTypeOK, sepVars
<1>11. ASSUME NEW r \in Link, ClearDefaults(r) PROVE WTypeOK'
  <2>1. Moved  BY <1>0, <1>11, MovesTyped DEF ClearDefaults
  <2>2. Kept  BY <1>3, <1>11 DEF Handle, ClearDefaults, Finish
  <2> QED  BY <1>11, <2>1, <2>2 DEF ClearDefaults, WTypeOK, sepVars
<1>12. ASSUME NEW r \in Delete, FindWallet(r) PROVE WTypeOK'
  <2>1. Moved  BY <1>0, <1>12, MovesTyped DEF FindWallet
  <2>2. Kept  BY <1>3, <1>12 DEF Handle, FindWallet, Move, Finish
  <2> QED  BY <1>12, <2>1, <2>2 DEF FindWallet, WTypeOK, tableVars, sepVars
<1>13. ASSUME NEW r \in Delete, DeleteWallet(r) PROVE WTypeOK'
  <2>1. Moved  BY <1>0, <1>13, MovesTyped DEF DeleteWallet
  <2>2. Kept  BY <1>3, <1>13 DEF Handle, DeleteWallet
  <2>3. walletId' \in [Wallet -> Link \cup {Nil}] /\ isDefault' \subseteq Wallet
    BY <1>13 DEF DeleteWallet, WTypeOK
  <2> QED  BY <1>13, <2>1, <2>2, <2>3 DEF DeleteWallet, WTypeOK, sepVars
<1>14. CASE UNCHANGED wvars
  BY <1>14 DEF wvars, WTypeOK, tableVars, sepVars
<1> QED
  BY <1>1, <1>2, <1>5, <1>6, <1>7, <1>8, <1>9, <1>10, <1>11, <1>12, <1>13, <1>14
     DEF WNext, Handle

LEMMA MarksStep == ASSUME WInv, [WNext]_wvars PROVE MarksOutlive'
<1> USE WalletAssumption DEF WalletAssumption, Link, Request, WInv, WTypeOK, MarksOutlive
<1>1. CASE Tick
  BY <1>1 DEF Tick
<1>2. ASSUME NEW n \in Challenge, BuildChallenge(n) PROVE MarksOutlive'
  BY <1>2 DEF BuildChallenge
<1>3. ASSUME NEW r \in Token, SetNonce(r) PROVE MarksOutlive'
  <2> DEFINE n == ask[r].challenge
  <2>1. n \in DOMAIN challenge  BY <1>3 DEF SetNonce, Move, Asked
  <2>2. nonceKey' = [nonceKey EXCEPT ![n] = clock + ChallengeTTL + JwtMaxAge]
          /\ spent' = spent \cup {n} /\ UNCHANGED <<challenge, clock>>
    BY <1>3 DEF SetNonce
  <2>3. challenge[n].maxTime \in Nat /\ challenge[n].maxTime <= clock + ChallengeTTL
    BY <2>1
  <2>4. nonceKey'[n] >= challenge[n].maxTime + JwtMaxAge
    BY <2>1, <2>2, <2>3
  <2> QED  BY <2>2, <2>4
<1>4. CASE UNCHANGED <<challenge, nonceKey, clock, spent>>
  BY <1>4
<1> QED
  BY <1>1, <1>2, <1>3, <1>4 DEF WNext, Handle, StartPut, StartToken, StartDelete, GetNonce,
       UpsertWallet, ClearDefaults, FindWallet, DeleteWallet, sepVars, wvars

(* A row's id and owner are those of the request that created it, so the    *)
(* row a DELETE has found by its id belongs to the holder who asks.         *)
LEMMA AskedStep == ASSUME WInv, [WNext]_wvars PROVE Asked'
<1> USE WalletAssumption DEF WalletAssumption, Link, Request
<1>0. WTypeOK /\ WTypeOK'  BY WTypeStep DEF WInv
<1>1. ASSUME NEW r \in Request PROVE answer'[r] # "none" => at'[r] = "done"
  <2>1. CASE Handle(r)
    BY <1>0, <2>1 DEF WInv, Asked, Handle, StartPut, StartToken, StartDelete, GetNonce, SetNonce,
       UpsertWallet, ClearDefaults, FindWallet, DeleteWallet, Move, Finish, WTypeOK
  <2>2. CASE at'[r] = at[r] /\ answer'[r] = answer[r]
    BY <2>2 DEF WInv, Asked
  <2> QED  BY <1>0, <2>1, <2>2, OthersStay DEF WNext, Tick, BuildChallenge, wvars
<1>2. ASSUME NEW r \in Token, at'[r] \in {"get", "set"} PROVE ask'[r].challenge \in DOMAIN challenge'
  <2>1. DOMAIN challenge \subseteq DOMAIN challenge'
    BY DEF WNext, Tick, BuildChallenge, Handle, StartPut, StartToken, StartDelete, GetNonce, SetNonce,
       UpsertWallet, ClearDefaults, FindWallet, DeleteWallet, sepVars, wvars
  <2>2. CASE StartToken(r)
    BY <1>0, <2>1, <2>2 DEF StartToken, WTypeOK, NoAsk
  <2>3. CASE Handle(r) /\ ~StartToken(r)
    BY <1>0, <1>2, <2>1, <2>3 DEF Handle, GetNonce, SetNonce, UpsertWallet, ClearDefaults,
       Move, Finish, WTypeOK, WInv, Asked
  <2>4. CASE at'[r] = at[r] /\ ask'[r] = ask[r]
    BY <1>2, <2>1, <2>4 DEF WInv, Asked
  <2> QED  BY <1>0, <2>2, <2>3, <2>4, OthersStay DEF WNext, Tick, BuildChallenge, wvars
<1>3. ASSUME NEW r \in Link, at'[r] # "new" PROVE WalletOf(r)' \in Wallet
  <2>1. CASE at[r] # "new"
    BY <1>0, <2>1, OnwardsOnly DEF WInv, Asked, WalletOf
  <2>2. CASE at[r] = "new"
    <3>1. Handle(r)
      BY <1>0, <1>3, <2>2, OthersStay DEF WNext, Tick, BuildChallenge, wvars
    <3>2. StartPut(r) \/ StartToken(r)
      BY <2>2, <3>1 DEF Handle, GetNonce, SetNonce, UpsertWallet, ClearDefaults, Move, Finish
    <3>3. \E h \in Holder, a \in Account : ask'[r].holder = h /\ ask'[r].account = a
      <4>1. CASE StartPut(r)  BY <1>0, <4>1 DEF StartPut, WTypeOK, NoAsk
      <4>2. CASE StartToken(r)  BY <1>0, <4>2 DEF StartToken, WTypeOK, NoAsk
      <4> QED  BY <3>2, <4>1, <4>2
    <3> QED  BY <3>3 DEF WalletOf, Wallet
  <2> QED  BY <2>1, <2>2
<1>4. ASSUME NEW d \in Delete, at'[d] # "new"
      PROVE  ask'[d].id \in Link /\ at'[ask'[d].id] \in {"clear", "done"}
  <2>1. CASE at[d] # "new"
    <3>1. ask'[d] = ask[d] /\ ask[d].id \in Link /\ Linked(ask[d].id)
      BY <1>0, <2>1, OnwardsOnly DEF WInv, Asked
    <3> QED  BY <1>0, <3>1, OnwardsOnly DEF Linked
  <2>2. CASE at[d] = "new"
    <3>1. StartDelete(d)
      BY <1>0, <1>4, <2>2, OthersStay DEF WNext, Tick, BuildChallenge, wvars, Handle,
           FindWallet, DeleteWallet, Move, Finish
    <3>2. PICK h \in Holder, w \in {v \in Wallet : Exists(v)} :
            ask' = [ask EXCEPT ![d] = [NoAsk EXCEPT !.holder = h, !.id = walletId[w]]]
      BY <3>1 DEF StartDelete
    <3>3. walletId[w] \in Link /\ Linked(walletId[w])
      BY <1>0 DEF Exists, WTypeOK, WInv, RowIds
    <3>4. ask'[d].id = walletId[w]
      BY <1>0, <3>2 DEF WTypeOK, NoAsk
    <3>5. at'[walletId[w]] \in {"clear", "done"}
      BY <1>0, <3>3, OnwardsOnly DEF Linked
    <3> QED  BY <3>3, <3>4, <3>5
  <2> QED  BY <2>1, <2>2
<1>5. ASSUME NEW d \in Delete, at'[d] = "delete" PROVE ask'[ask'[d].id].holder = ask'[d].holder
  <2>1. CASE at[d] # "new"
    <3>1. ask'[d] = ask[d] /\ ask[d].id \in Link /\ ask'[ask[d].id] = ask[ask[d].id]
      BY <1>0, <2>1, OnwardsOnly DEF WInv, Asked, Linked
    <3>2. CASE at[d] = "delete"
      BY <3>1, <3>2 DEF WInv, Asked
    <3>3. CASE at[d] # "delete"
      <4>1. FindWallet(d)
        BY <1>0, <1>5, <2>1, <3>3, OthersStay DEF WNext, Tick, BuildChallenge, wvars, Handle,
             StartDelete, DeleteWallet, Move, Finish, WTypeOK
      <4>2. PICK w \in Wallet : Owned(d, w)
        BY <1>0, <1>5, <4>1 DEF FindWallet, Move, Finish, WTypeOK
      <4>3. WalletOf(ask[d].id) = w
        BY <3>1, <4>2 DEF Owned, WInv, RowIds
      <4>4. ask[ask[d].id].holder = w[1]
        BY <4>3 DEF WalletOf
      <4> QED  BY <3>1, <4>2, <4>4 DEF Owned
    <3> QED  BY <3>2, <3>3
  <2>2. CASE at[d] = "new"
    BY <1>0, <1>5, <2>2, OthersStay DEF WNext, Tick, BuildChallenge, wvars, Handle,
         StartDelete, FindWallet, DeleteWallet, Move, Finish, WTypeOK
  <2> QED  BY <2>1, <2>2
<1> QED  BY <1>1, <1>2, <1>3, <1>4, <1>5 DEF Asked, Linked

(* Which requests touch the wallets, and what they do to them.               *)
LEMMA TableSteps ==
  ASSUME [WNext]_wvars
  PROVE  \/ UNCHANGED <<tableVars, linked>>
         \/ \E r \in Link : UpsertWallet(r)
         \/ \E r \in Link : ClearDefaults(r)
         \/ \E d \in Delete : DeleteWallet(d)
BY DEF WNext, Tick, BuildChallenge, wvars, Handle, StartPut, StartToken, StartDelete, GetNonce,
       SetNonce, FindWallet

LEMMA UpsertFacts ==
  ASSUME WInv, NEW r \in Link, UpsertWallet(r)
  PROVE  /\ WalletOf(r) \in Wallet /\ at[r] = "upsert" /\ at'[r] \in {"clear", "done"}
         /\ linked[r] = Nil /\ linked'[r] = walletId'[WalletOf(r)]
         /\ walletId'[WalletOf(r)] = IF Exists(WalletOf(r)) THEN walletId[WalletOf(r)] ELSE r
         /\ \A w \in Wallet : w # WalletOf(r) => walletId'[w] = walletId[w]
         /\ \A w \in Wallet : walletId[w] # Nil => walletId'[w] = walletId[w]
         /\ isDefault' \subseteq isDefault \cup {WalletOf(r)}
         /\ ask' = ask /\ walletId'[WalletOf(r)] # Nil
         /\ WalletOf(r) \in isDefault' => at'[r] = "clear"
<1> USE WalletAssumption DEF WalletAssumption, Link, Request, WInv, WTypeOK
<1>1. WalletOf(r) \in Wallet /\ at[r] = "upsert"
  BY DEF UpsertWallet, Asked
<1>2. linked[r] = Nil
  BY <1>1 DEF LinkedIds, Linked
<1>3. walletId' = IF Exists(WalletOf(r)) THEN walletId ELSE [walletId EXCEPT ![WalletOf(r)] = r]
  BY DEF UpsertWallet, UpsertRow
<1>4. linked'[r] = walletId'[WalletOf(r)] /\ ask' = ask
  BY DEF UpsertWallet
<1>5. isDefault' = IF ask[r].makeDefault THEN isDefault \cup {WalletOf(r)} ELSE isDefault \ {WalletOf(r)}
  BY DEF UpsertWallet, UpsertRow
<1>6. at'[r] \in {"clear", "done"} /\ (ask[r].makeDefault => at'[r] = "clear")
  BY <1>1 DEF UpsertWallet, Move, Finish
<1> QED  BY <1>1, <1>2, <1>3, <1>4, <1>5, <1>6 DEF Exists

LEMMA DeleteFacts ==
  ASSUME WInv, NEW d \in Delete, DeleteWallet(d)
  PROVE  /\ at[d] = "delete" /\ at'[d] = "done" /\ ask' = ask /\ linked' = linked
         /\ \A w \in Wallet : walletId'[w] = IF walletId[w] = ask[d].id THEN Nil ELSE walletId[w]
         /\ isDefault' = {w \in isDefault : walletId[w] # ask[d].id}
BY WalletAssumption DEF WalletAssumption, Link, Request, WInv, WTypeOK, DeleteWallet, Finish

LEMMA RowIdsStep == ASSUME WInv, [WNext]_wvars PROVE RowIds'
<1> USE WalletAssumption DEF WalletAssumption, Link, Request
<1>0. WTypeOK /\ WTypeOK' /\ RowIds  BY WTypeStep DEF WInv
<1>1. \A q \in Link : Linked(q) => Linked(q)' /\ WalletOf(q)' = WalletOf(q)
  BY <1>0, OnwardsOnly DEF Linked, WalletOf
<1>2. CASE UNCHANGED <<tableVars, linked>>
  BY <1>0, <1>1, <1>2 DEF RowIds, tableVars, WTypeOK, Linked, WalletOf
<1>3. ASSUME NEW r \in Link, UpsertWallet(r) PROVE RowIds'
  <2>1. Linked(r)' /\ WalletOf(r)' = WalletOf(r)
    BY <1>3, UpsertFacts DEF Linked, WalletOf
  <2>2. ASSUME NEW w \in Wallet, walletId'[w] # Nil
        PROVE  at'[walletId'[w]] \in {"clear", "done"}
                 /\ <<ask'[walletId'[w]].holder, ask'[walletId'[w]].account>> = w
    <3>1. CASE walletId'[w] = walletId[w]
      <4>1. walletId[w] \in Link /\ Linked(walletId[w]) /\ WalletOf(walletId[w]) = w
        BY <1>0, <2>2, <3>1 DEF RowIds, WTypeOK
      <4> QED  BY <1>1, <3>1, <4>1 DEF Linked, WalletOf
    <3>2. CASE walletId'[w] # walletId[w]
      <4>1. w = WalletOf(r) /\ walletId'[w] = r
        BY <1>3, <3>2, UpsertFacts
      <4> QED  BY <2>1, <4>1 DEF Linked, WalletOf
    <3> QED  BY <3>1, <3>2
  <2>3. ASSUME NEW w \in isDefault' PROVE walletId'[w] # Nil
    <3>1. w \in Wallet /\ (w \in isDefault \/ w = WalletOf(r))
      BY <1>0, <1>3, UpsertFacts DEF WTypeOK
    <3> QED  BY <1>0, <1>3, <3>1, UpsertFacts DEF RowIds
  <2> QED  BY <2>2, <2>3 DEF RowIds, Linked, WalletOf
<1>4. ASSUME NEW r \in Link, ClearDefaults(r) PROVE RowIds'
  <2>1. isDefault' \subseteq isDefault /\ walletId' = walletId
    BY <1>4 DEF ClearDefaults
  <2> QED  BY <1>0, <1>1, <2>1 DEF RowIds, WTypeOK, Linked, WalletOf
<1>5. ASSUME NEW d \in Delete, DeleteWallet(d) PROVE RowIds'
  <2>1. ASSUME NEW w \in Wallet, walletId'[w] # Nil
        PROVE  at'[walletId'[w]] \in {"clear", "done"}
                 /\ <<ask'[walletId'[w]].holder, ask'[walletId'[w]].account>> = w
    <3>1. walletId'[w] = walletId[w]  BY <1>5, <2>1, DeleteFacts
    <3>2. walletId[w] \in Link /\ Linked(walletId[w]) /\ WalletOf(walletId[w]) = w
      BY <1>0, <2>1, <3>1 DEF RowIds, WTypeOK
    <3> QED  BY <1>1, <3>1, <3>2 DEF Linked, WalletOf
  <2>2. ASSUME NEW w \in isDefault' PROVE walletId'[w] # Nil
    BY <1>0, <1>5, DeleteFacts DEF RowIds, WTypeOK
  <2> QED  BY <2>1, <2>2 DEF RowIds, Linked, WalletOf
<1> QED  BY <1>2, <1>3, <1>4, <1>5, TableSteps

LEMMA LinkedIdsStep == ASSUME WInv, [WNext]_wvars PROVE LinkedIds'
<1> USE WalletAssumption DEF WalletAssumption, Link, Request
<1>0. WTypeOK /\ WTypeOK' /\ LinkedIds /\ RowIds /\ Asked  BY WTypeStep DEF WInv
<1>1. \A q \in Link : Linked(q) => Linked(q)' /\ WalletOf(q)' = WalletOf(q) /\ linked'[q] = linked[q]
  BY <1>0, OnwardsOnly DEF Linked, WalletOf
<1> SUFFICES ASSUME NEW r \in Link
             PROVE  /\ linked'[r] # Nil =>
                         /\ at'[r] \in {"clear", "done"} /\ at'[linked'[r]] \in {"clear", "done"}
                         /\ ask'[linked'[r]].holder = ask'[r].holder
                         /\ ask'[linked'[r]].account = ask'[r].account
                    /\ at'[r] = "clear" \/ answer'[r] = "OK" => linked'[r] # Nil
  BY DEF LinkedIds, Linked, WalletOf
<1>2. CASE Linked(r)
  <2>1. linked'[r] = linked[r] /\ at'[r] \in {"clear", "done"} /\ WalletOf(r)' = WalletOf(r)
    BY <1>1, <1>2 DEF Linked
  <2>2. ASSUME linked[r] # Nil
        PROVE  at'[linked[r]] \in {"clear", "done"} /\ WalletOf(linked[r])' = WalletOf(linked[r])
                 /\ WalletOf(linked[r]) = WalletOf(r)
    BY <1>0, <1>1, <2>2 DEF LinkedIds, Linked, WTypeOK, WalletOf
  <2>3. at'[r] = "clear" \/ answer'[r] = "OK" => linked[r] # Nil
    <3>1. CASE at[r] = "done"
      BY <1>0, <3>1, OnwardsOnly DEF LinkedIds
    <3>2. CASE at[r] = "clear"
      BY <1>0, <3>2 DEF LinkedIds
    <3> QED  BY <1>2, <3>1, <3>2 DEF Linked
  <2> QED  BY <2>1, <2>2, <2>3 DEF WalletOf
<1>3. CASE UpsertWallet(r)
  <2> DEFINE q == walletId'[WalletOf(r)]
  <2>1. WalletOf(r) \in Wallet /\ linked'[r] = q /\ q # Nil /\ ask' = ask /\ q \in Link
          /\ at'[r] \in {"clear", "done"}
    BY <1>0, <1>3, UpsertFacts, WInv DEF WTypeOK
  <2>2. RowIds'  BY RowIdsStep
  <2>3. at'[q] \in {"clear", "done"} /\ <<ask'[q].holder, ask'[q].account>> = WalletOf(r)
    BY <2>1, <2>2 DEF RowIds, Linked, WalletOf
  <2> QED  BY <2>1, <2>3 DEF WalletOf
<1>4. CASE ~Linked(r) /\ ~UpsertWallet(r)
  <2>1. linked[r] = Nil /\ answer[r] = "none"
    BY <1>0, <1>4 DEF LinkedIds, Linked, Asked
  <2>2. linked'[r] = linked[r]
    BY <1>0, <1>4, OthersStay DEF WNext, Tick, BuildChallenge, wvars, Handle, StartPut, StartToken,
         GetNonce, SetNonce, ClearDefaults, WTypeOK
  <2>3. at'[r] # "clear" /\ answer'[r] # "OK"
    <3>1. CASE StartPut(r) \/ StartToken(r) \/ GetNonce(r) \/ SetNonce(r)
      BY <1>0, <2>1, <3>1 DEF StartPut, StartToken, GetNonce, SetNonce, WTypeOK, Move, Finish
    <3>2. ~ClearDefaults(r)
      BY <1>4 DEF ClearDefaults, Finish, Linked
    <3>3. CASE at'[r] = at[r] /\ answer'[r] = answer[r]
      BY <1>4, <2>1, <3>3 DEF Linked
    <3> QED
      BY <1>0, <1>4, <3>1, <3>2, <3>3, OthersStay DEF WNext, Tick, BuildChallenge, wvars, Handle
  <2> QED  BY <2>1, <2>2, <2>3
<1> QED  BY <1>2, <1>3, <1>4

LEMMA RowsOrDeletesStep == ASSUME WInv, [WNext]_wvars PROVE RowsOrDeletes'
<1> USE WalletAssumption DEF WalletAssumption, Link, Request
<1>0. WTypeOK /\ LinkedIds /\ RowIds /\ RowsOrDeletes /\ Asked  BY DEF WInv
<1> SUFFICES ASSUME NEW r \in Link, linked'[r] # Nil
             PROVE  \/ walletId'[<<ask'[r].holder, ask'[r].account>>] = linked'[r]
                    \/ \E d \in Delete : /\ at'[d] = "done"
                                          /\ ask'[d].id = linked'[r]
                                          /\ ask'[d].holder = ask'[r].holder
  BY DEF RowsOrDeletes, WalletOf
<1>1. CASE UpsertWallet(r)
  BY <1>1, UpsertFacts DEF WalletOf
<1>2. CASE ~UpsertWallet(r)
  <2>1. linked[r] = linked'[r]
    BY <1>0, <1>2, OthersStay DEF WNext, Tick, BuildChallenge, wvars, Handle, StartPut, StartToken,
         GetNonce, SetNonce, ClearDefaults, WTypeOK
  <2>2. Linked(r) /\ WalletOf(linked[r]) = WalletOf(r) /\ linked[r] \in Link /\ WalletOf(r) \in Wallet
    BY <1>0, <2>1 DEF LinkedIds, WTypeOK, Asked, Linked
  <2>3. ask'[r] = ask[r]
    BY <1>0, <2>2, OnwardsOnly DEF Linked
  <2>4. CASE \E d \in Delete : /\ at[d] = "done"
                               /\ ask[d].id = linked[r]
                               /\ ask[d].holder = ask[r].holder
    BY <1>0, <2>1, <2>3, <2>4, OnwardsOnly
  <2>5. CASE walletId[WalletOf(r)] = linked[r]
    <3>1. CASE UNCHANGED <<tableVars, linked>> \/ (\E q \in Link : ClearDefaults(q))
      BY <2>1, <2>3, <2>5, <3>1 DEF tableVars, ClearDefaults, WalletOf
    <3>2. ASSUME NEW q \in Link, UpsertWallet(q)
          PROVE  walletId'[WalletOf(r)] = linked'[r]
      BY <2>1, <2>2, <2>5, <3>2, UpsertFacts
    <3>3. ASSUME NEW d \in Delete, DeleteWallet(d), walletId'[WalletOf(r)] # linked'[r]
          PROVE  at'[d] = "done" /\ ask'[d].id = linked'[r] /\ ask'[d].holder = ask'[r].holder
      <4>1. ask[d].id = linked[r] /\ at'[d] = "done" /\ ask' = ask /\ at[d] = "delete"
        BY <2>1, <2>2, <2>5, <3>3, DeleteFacts
      <4>2. ask[linked[r]].holder = ask[d].holder
        BY <1>0, <4>1 DEF Asked
      <4> QED  BY <2>1, <2>2, <4>1, <4>2 DEF WalletOf
    <3> QED  BY <2>3, <3>1, <3>2, <3>3, TableSteps DEF WalletOf
  <2> QED  BY <1>0, <2>1, <2>4, <2>5 DEF RowsOrDeletes
<1> QED  BY <1>1, <1>2

(* The default a link makes is pending until the link has cleared the       *)
(* holder's others, whichever rows have come and gone in between.           *)
LEMMA DefaultsStep == ASSUME WInv, [WNext]_wvars PROVE ExtraDefaultsArePending'
<1> USE WalletAssumption DEF WalletAssumption, Link, Request
<1>0. WTypeOK /\ LinkedIds /\ RowIds /\ Asked /\ ExtraDefaultsArePending  BY DEF WInv
<1> SUFFICES ASSUME NEW v \in isDefault', NEW w \in isDefault', v # w, v[1] = w[1]
             PROVE  \E r \in Link : at'[r] = "clear" /\ <<ask'[r].holder, ask'[r].account>> \in {v, w}
  BY DEF ExtraDefaultsArePending, WalletOf
<1>1. ASSUME NEW r \in Link, at[r] = "clear", WalletOf(r) \in {v, w}, ~ClearDefaults(r)
      PROVE  at'[r] = "clear" /\ <<ask'[r].holder, ask'[r].account>> \in {v, w}
  <2>1. ask'[r] = ask[r]  BY <1>0, <1>1, OnwardsOnly
  <2>2. at'[r] = at[r]
    <3>1. CASE UNCHANGED wvars \/ Tick \/ \E n \in Challenge : BuildChallenge(n)
      BY <3>1 DEF wvars, Tick, BuildChallenge
    <3>2. ASSUME NEW q \in Request, Handle(q), q # r PROVE at'[r] = at[r]
      BY <1>0, <3>2, OthersStay
    <3>3. ~Handle(r)
      <4>1. ~StartPut(r) /\ ~StartToken(r)
        BY <1>1 DEF StartPut, StartToken, Move, Finish
      <4>2. ~GetNonce(r) /\ ~SetNonce(r) /\ ~UpsertWallet(r)
        BY <1>1 DEF GetNonce, SetNonce, UpsertWallet, Move
      <4> QED  BY <1>1, <4>1, <4>2 DEF Handle
    <3> QED  BY <3>1, <3>2, <3>3 DEF WNext
  <2> QED  BY <1>1, <2>1, <2>2 DEF WalletOf
<1>2. CASE isDefault' \subseteq isDefault /\ ~(\E r \in Link : ClearDefaults(r))
  BY <1>0, <1>1, <1>2 DEF ExtraDefaultsArePending
<1>3. ASSUME NEW r \in Link, UpsertWallet(r) PROVE
        \E q \in Link : at'[q] = "clear" /\ <<ask'[q].holder, ask'[q].account>> \in {v, w}
  <2>1. CASE WalletOf(r) \in {v, w}
    BY <1>3, <2>1, UpsertFacts DEF WalletOf
  <2>2. CASE WalletOf(r) \notin {v, w}
    <3>1. v \in isDefault /\ w \in isDefault  BY <1>3, <2>2, UpsertFacts
    <3>2. PICK q \in Link : at[q] = "clear" /\ WalletOf(q) \in {v, w}
      BY <1>0, <3>1 DEF ExtraDefaultsArePending
    <3>3. ~ClearDefaults(q)
      BY <1>0, <1>3, <3>2, UpsertFacts DEF ClearDefaults, Finish, WTypeOK
    <3> QED  BY <1>1, <3>2, <3>3
  <2> QED  BY <2>1, <2>2
<1>4. ASSUME NEW r \in Link, ClearDefaults(r) PROVE
        \E q \in Link : at'[q] = "clear" /\ <<ask'[q].holder, ask'[q].account>> \in {v, w}
  <2>1. v \in isDefault /\ w \in isDefault /\ ~IsOther(r, v) /\ ~IsOther(r, w) /\ at[r] = "clear"
    BY <1>4 DEF ClearDefaults, Finish
  <2>2. PICK q \in Link : at[q] = "clear" /\ WalletOf(q) \in {v, w}
    BY <1>0, <2>1 DEF ExtraDefaultsArePending
  <2>3. v \in Wallet /\ w \in Wallet /\ WalletOf(r) \in Wallet
    BY <1>0, <2>1 DEF WTypeOK, Asked
  <2>4. ASSUME WalletOf(r) \in {v, w} PROVE FALSE
    <3> PICK u \in {v, w} : u # WalletOf(r)  OBVIOUS
    <3>1. u \in Wallet /\ u[1] = ask[r].holder /\ ~IsOther(r, u) /\ walletId[u] # Nil
      BY <1>0, <2>1, <2>3, <2>4 DEF WalletOf, RowIds
    <3>2. CASE r \in PutReq
      <4>1. walletId[u] = linked[r]  BY <3>1, <3>2 DEF IsOther
      <4>2. WalletOf(walletId[u]) = u  BY <1>0, <3>1 DEF RowIds
      <4>3. WalletOf(linked[r]) = WalletOf(r)  BY <1>0, <3>1, <4>1 DEF LinkedIds
      <4> QED  BY <4>1, <4>2, <4>3
    <3>3. CASE r \notin PutReq
      <4>1. u[2] = ask[r].account  BY <3>1, <3>3 DEF IsOther
      <4> QED  BY <3>1, <4>1 DEF WalletOf, Wallet
    <3> QED  BY <3>2, <3>3
  <2>5. q # r  BY <2>2, <2>4
  <2>6. ~ClearDefaults(q) \/ at'[q] = "clear"
    BY <1>0, <1>4, <2>2, <2>5, OthersStay DEF Handle
  <2>7. at'[q] = "clear" /\ ask'[q] = ask[q]
    BY <1>0, <1>4, <2>2, <2>5, OthersStay DEF Handle
  <2> QED  BY <2>2, <2>7 DEF WalletOf
<1>5. ASSUME NEW d \in Delete, DeleteWallet(d)
      PROVE  isDefault' \subseteq isDefault /\ ~(\E r \in Link : ClearDefaults(r))
  BY <1>0, <1>5, DeleteFacts DEF WInv, ClearDefaults, Finish, WTypeOK
<1>6. CASE UNCHANGED <<tableVars, linked>> /\ ~(\E r \in Link : ClearDefaults(r))
  BY <1>2, <1>6 DEF tableVars
<1> QED  BY <1>2, <1>3, <1>4, <1>5, <1>6, TableSteps

LEMMA WalletsInvariance == WSpec => []WInv
<1>1. WInv /\ [WNext]_wvars => WInv'
  BY WTypeStep, AskedStep, RowIdsStep, LinkedIdsStep, RowsOrDeletesStep, DefaultsStep, MarksStep
     DEF WInv
<1> QED  BY InitWallets, <1>1, PTL DEF WSpec

(* Wallets, challenges and requests keep their types.                       *)
THEOREM WalletsTypeCorrect == WSpec => []WTypeOK
<1>1. WInv => WTypeOK  BY DEF WInv
<1> QED  BY WalletsInvariance, <1>1, PTL

(* Two defaults are the work of a link that has yet to clear the others, or  *)
(* stopped before it did (wallet/route.ts:78-99, sep10/token/route.ts:39-57). *)
THEOREM DefaultsArePending == WSpec => []ExtraDefaultsArePending
<1>1. WInv => ExtraDefaultsArePending  BY DEF WInv
<1> QED  BY WalletsInvariance, <1>1, PTL

(* Only its own holder's DELETE removes a wallet that was linked            *)
(* (wallet/route.ts:142-149).                                               *)
THEOREM OnlyOwnersUnlink == WSpec => []LinksStay
<1>1. WInv => LinksStay
  BY DEF WInv, RowsOrDeletes, LinkedIds, LinksStay
<1> QED  BY WalletsInvariance, <1>1, PTL

(* The mark on a nonce outlives its challenge by JwtMaxAge, so that no late  *)
(* request passes the check (sep10.service.ts:226-237).                     *)
THEOREM MarksHold == WSpec => SpentStaysSpent
<1> DEFINE Passes(r) == /\ at[r] = "get" /\ at'[r] = "set"
                        /\ clock < challenge[ask[r].challenge].maxTime + JwtMaxAge
           A == \A r \in Token : Passes(r) => ask[r].challenge \notin spent
<1>1. WInv /\ [WNext]_wvars => [A]_wvars
  <2> SUFFICES ASSUME WInv, WNext, NEW r \in Token, Passes(r), ask[r].challenge \in spent
               PROVE  FALSE
    OBVIOUS
  <2> USE WalletAssumption DEF WalletAssumption, Link, Request
  <2> DEFINE n == ask[r].challenge
  <2>0. WTypeOK /\ MarksOutlive /\ Asked  BY DEF WInv
  <2>1. GetNonce(r)
    BY <2>0, OthersStay DEF WNext, Tick, BuildChallenge, Handle, StartToken, SetNonce, UpsertWallet,
         ClearDefaults, Move, Finish
  <2>2. ~(clock < nonceKey[n])
    BY <2>0, <2>1 DEF GetNonce, Consumed, Finish, WTypeOK
  <2>3. nonceKey[n] >= challenge[n].maxTime + JwtMaxAge  BY <2>0 DEF MarksOutlive
  <2>4. nonceKey[n] \in Nat /\ challenge[n].maxTime \in Nat /\ clock \in Nat
    BY <2>0 DEF WTypeOK
  <2> QED  BY <2>2, <2>3, <2>4
<1> QED  BY WalletsInvariance, <1>1, PTL DEF WSpec, SpentStaysSpent
-----------------------------------------------------------------------------
(* When a challenge is used twice.  ChallengeUsedOnce does not hold, because *)
(* redis.get and redis.set are two steps: two requests with one challenge may *)
(* both have found it unused.  And the mark is no use to a request that was   *)
(* on time and then waited for longer than JwtMaxAge.                       *)
NoncesInTurn ==
  \A r, q \in Token :
    at[r] = "set" /\ at[q] = "set" /\ ask[r].challenge = ask[q].challenge => r = q

NotTooSlow ==
  \A r \in Token :
    at[r] = "get" => clock < challenge[ask[r].challenge].maxTime + JwtMaxAge

(* A request that has used its challenge has marked it, and no other one has *)
(* used it or is about to.                                                  *)
Used(r) == at[r] \in {"upsert", "clear"} \/ answer[r] = "OK"

UsedInTurn ==
  \A r \in Token : Used(r) =>
    /\ ask[r].challenge \in spent
    /\ \A q \in Token : q # r /\ ask[q].challenge = ask[r].challenge => ~Used(q) /\ at[q] # "set"

(* Only SetNonce uses a challenge, and only GetNonce leads there.           *)
LEMMA UsedBySetNonce ==
  ASSUME WInv, [WNext]_wvars, NEW r \in Token
  PROVE  /\ Used(r)' => Used(r) \/ SetNonce(r)
         /\ at'[r] = "set" => at[r] = "set" \/ GetNonce(r)
         /\ Used(r) => at[r] # "new"
         /\ spent \subseteq spent'
<1>0. WTypeOK /\ Asked /\ r \in Request
  BY DEF WInv, Link, Request
<1>1. Used(r) => at[r] # "new"
  BY <1>0 DEF Asked, Used
<1>2. spent \subseteq spent'
  <2>1. ASSUME NEW q \in Request, Handle(q) PROVE spent \subseteq spent'
    <3>1. CASE q \in PutReq /\ StartPut(q)
      BY <3>1 DEF StartPut
    <3>2. CASE q \in Token /\ (StartToken(q) \/ GetNonce(q) \/ SetNonce(q))
      BY <3>2, Zenon DEF StartToken, GetNonce, SetNonce
    <3>3. CASE q \in Link /\ (UpsertWallet(q) \/ ClearDefaults(q))
      BY <3>3 DEF UpsertWallet, ClearDefaults
    <3>4. CASE q \in Delete /\ (StartDelete(q) \/ FindWallet(q) \/ DeleteWallet(q))
      BY <3>4, Zenon DEF StartDelete, FindWallet, DeleteWallet
    <3> QED
      BY <2>1, <3>1, <3>2, <3>3, <3>4 DEF Handle
  <2> QED
    BY <2>1 DEF WNext, Tick, BuildChallenge, wvars
<1>3. ASSUME Handle(r)
      PROVE  /\ Used(r)' => Used(r) \/ SetNonce(r)
             /\ at'[r] = "set" => at[r] = "set" \/ GetNonce(r)
  <2>1. StartToken(r) \/ GetNonce(r) \/ SetNonce(r) \/ UpsertWallet(r) \/ ClearDefaults(r)
    BY <1>3, WalletAssumption DEF WalletAssumption, Link, Handle
  <2>2. answer \in [Request -> Answer] /\ at \in [Request -> WStep]
    BY <1>0 DEF WTypeOK
  <2>3. CASE StartToken(r)
    BY <2>2, <2>3 DEF StartToken, Move, Finish, Used
  <2>4. CASE GetNonce(r) \/ SetNonce(r)
    BY <2>2, <2>4 DEF GetNonce, SetNonce, Move, Finish, Used
  <2>5. CASE UpsertWallet(r) \/ ClearDefaults(r)
    BY <2>2, <2>5 DEF UpsertWallet, ClearDefaults, Move, Finish, Used
  <2> QED
    BY <2>1, <2>3, <2>4, <2>5
<1>4. CASE at'[r] = at[r] /\ answer'[r] = answer[r]
  BY <1>1, <1>2, <1>4 DEF Used
<1>5. Handle(r) \/ (at'[r] = at[r] /\ answer'[r] = answer[r])
  BY <1>0, OthersStay DEF WNext, Tick, BuildChallenge, wvars
<1> QED
  BY <1>1, <1>2, <1>3, <1>4, <1>5

LEMMA UsedInTurnStep ==
  ASSUME WInv, UsedInTurn, NoncesInTurn, NotTooSlow, [WNext]_wvars
  PROVE  UsedInTurn'
<1> USE WalletAssumption DEF WalletAssumption, Link, Request, WInv
<1> SUFFICES ASSUME NEW r \in Token, Used(r)'
             PROVE  /\ ask'[r].challenge \in spent'
                    /\ \A q \in Token : q # r /\ ask'[q].challenge = ask'[r].challenge
                         => ~Used(q)' /\ at'[q] # "set"
  BY DEF UsedInTurn
<1>1. at[r] # "new" /\ ask'[r] = ask[r]
  <2>1. at[r] # "new"
    BY UsedBySetNonce DEF SetNonce, Move
  <2> QED
    BY <2>1, OnwardsOnly
<1>2. ask'[r].challenge \in spent'
  BY <1>1, UsedBySetNonce DEF UsedInTurn, SetNonce
<1>3. ASSUME NEW q \in Token, q # r, ask'[q].challenge = ask'[r].challenge,
             Used(q)' \/ at'[q] = "set"
      PROVE  FALSE
  <2>1. at[q] # "new" /\ ask'[q] = ask[q]
    <3>1. at[q] # "new"
      BY <1>3, UsedBySetNonce DEF SetNonce, GetNonce, Move
    <3> QED
      BY <3>1, OnwardsOnly
  <2>2. ask[q].challenge = ask[r].challenge
    BY <1>1, <1>3, <2>1
  <2>3. ASSUME NEW x \in Token, NEW y \in Token, x # y, ask[x].challenge = ask[y].challenge
        PROVE  /\ ~(Used(x) /\ SetNonce(y)) /\ ~(SetNonce(x) /\ SetNonce(y))
               /\ ~(SetNonce(x) /\ at[y] = "set") /\ ~(Used(x) /\ Used(y))
    BY <2>3 DEF UsedInTurn, NoncesInTurn, SetNonce, Move
  <2>4. Used(r) \/ SetNonce(r)
    BY UsedBySetNonce
  <2>5. CASE Used(q)'
    BY <1>3, <2>2, <2>3, <2>4, <2>5, UsedBySetNonce
  <2>6. CASE at'[q] = "set" /\ at[q] = "set"
    BY <1>3, <2>2, <2>3, <2>4, <2>6 DEF UsedInTurn
  <2>7. CASE at'[q] = "set" /\ at[q] # "set"
    <3>1. GetNonce(q) /\ at[q] = "get"
      BY <2>7, UsedBySetNonce DEF GetNonce
    <3>2. ~Consumed(ask[q].challenge) /\ at' = [at EXCEPT ![q] = "set"]
      BY <2>7, <3>1 DEF GetNonce, Move, Finish, WTypeOK
    <3>3. Used(r)
      BY <1>3, <2>4, <3>2 DEF SetNonce, Move, WTypeOK
    <3>4. ask[q].challenge \in spent /\ ask[q].challenge \in DOMAIN challenge
      BY <2>2, <3>1, <3>3 DEF UsedInTurn, Asked
    <3>5. /\ nonceKey[ask[q].challenge] >= challenge[ask[q].challenge].maxTime + JwtMaxAge
          /\ clock < challenge[ask[q].challenge].maxTime + JwtMaxAge
      BY <3>1, <3>4 DEF MarksOutlive, NotTooSlow
    <3>6. /\ nonceKey[ask[q].challenge] \in Nat /\ challenge[ask[q].challenge].maxTime \in Nat
          /\ clock \in Nat
      BY <3>4 DEF WTypeOK
    <3> QED
      BY <3>2, <3>5, <3>6 DEF Consumed
  <2> QED
    BY <1>3, <2>5, <2>6, <2>7
<1> QED
  BY <1>2, <1>3

(* sep10.service.ts:226, "nonce must not have been consumed": a challenge is  *)
(* exchanged for one token, as long as no two requests with one challenge are *)
(* between redis.get and redis.set together, and none that passed the expiry  *)
(* check comes to redis.get only when a mark set meanwhile has expired.      *)
THEOREM InTurnChallengesAreUsedOnce ==
  WSpec /\ []NoncesInTurn /\ []NotTooSlow => []ChallengeUsedOnce
<1>1. WInit => UsedInTurn
  BY DEF WInit, UsedInTurn, Used, Link, Request
<1>2. UsedInTurn => ChallengeUsedOnce
  BY DEF UsedInTurn, Used, ChallengeUsedOnce
<1> QED
  BY <1>1, <1>2, UsedInTurnStep, WalletsInvariance, PTL DEF WSpec
-----------------------------------------------------------------------------
(* Passkeys.  As long as a wallet is the one in localStorage, the page that  *)
(* made it shows it: it did on making it, and does on mounting again.        *)
MakerShowsStored == stored # NoPasskey => shown[maker[stored]] = stored

KInv == KTypeOK /\ MakerShowsStored /\ PasskeysStay

LEMMA InitPasskeys == KInit => KInv
<1> SUFFICES ASSUME KInit PROVE KInv
  OBVIOUS
<1>1. Made = {} /\ maker \in [Made -> LinkPage]
  BY DEF KInit, Made
<1>2. KTypeOK
  BY <1>1 DEF KInit, KTypeOK
<1> QED
  BY <1>1, <1>2 DEF KInit, KInv, MakerShowsStored, PasskeysStay

(* A page mounts or fetches its list, its "Create" comes and goes: nothing   *)
(* is made, stored, saved or let go of.                                     *)
LEMMA PaneStep ==
  ASSUME KInv, NEW p \in LinkPage,
         \/ Mount(p) \/ FetchWallets(p) \/ CreatePasskey(p) \/ NotBusy(p) \/ SaveToAccount(p)
  PROVE  KInv'
<1> USE DEF KInv, KTypeOK
<1>1. UNCHANGED <<maker, stored, saved, everSaved, released>> /\ Made' = Made
  BY DEF Mount, FetchWallets, CreatePasskey, NotBusy, SaveToAccount, paneVars, Made
<1>2. /\ shown' \in [LinkPage -> Made \cup {NoPasskey}]
      /\ \A q \in LinkPage : shown'[q] = shown[q] \/ shown'[q] = stored
  BY DEF Mount, FetchWallets, CreatePasskey, NotBusy, SaveToAccount, paneVars
<1>3. /\ listed' \in [LinkPage -> SUBSET Made] /\ saves' \subseteq Made
      /\ making' \in [LinkPage -> {"closed", "idle", "kit", "save"}]
  <2>1. CASE SaveToAccount(p)
    <3>1. shown[p] \in Made
      BY <2>1 DEF SaveToAccount, Offered
    <3> QED
      BY <2>1, <3>1 DEF SaveToAccount, paneVars
  <2>2. CASE FetchWallets(p)
    <3>1. PICK rows \in SUBSET everSaved : listed' = [listed EXCEPT ![p] = rows]
      BY <2>2 DEF FetchWallets
    <3>2. rows \in SUBSET Made
      BY <3>1
    <3> QED
      BY <2>2, <3>1, <3>2 DEF FetchWallets
  <2>3. CASE Mount(p) \/ CreatePasskey(p) \/ NotBusy(p)
    BY <2>3 DEF Mount, CreatePasskey, NotBusy
  <2> QED
    BY <2>1, <2>2, <2>3
<1>4. stored # NoPasskey => maker[stored] \in LinkPage
  BY DEF Made
<1> QED
  BY <1>1, <1>2, <1>3, <1>4 DEF MakerShowsStored, PasskeysStay

(* A new wallet takes the place in localStorage, and its page shows it.      *)
LEMMA RegisterStep ==
  ASSUME KInv, NEW p \in LinkPage, NEW k \in Passkey, RegisterPasskeyWallet(p, k)
  PROVE  KInv'
<1> USE DEF KInv, KTypeOK
<1>1. /\ k \notin Made /\ maker' = [j \in Made \cup {k} |-> IF j = k THEN p ELSE maker[j]]
      /\ shown' = [shown EXCEPT ![p] = k] /\ saves' = saves \cup {k}
      /\ making' = [making EXCEPT ![p] = "save"] /\ stored' = k
      /\ released' = released \cup Unsaved({stored}) /\ UNCHANGED <<saved, everSaved, listed>>
  BY DEF RegisterPasskeyWallet, Make
<1>2. Made' = Made \cup {k}
  BY <1>1 DEF Made
<1>3. maker' \in [Made' -> LinkPage] /\ maker'[k] = p
  BY <1>1, <1>2
<1>4. Unsaved({stored}) \subseteq Made
  BY DEF Unsaved
<1>5. KTypeOK'
  BY <1>1, <1>2, <1>3, <1>4
<1>6. MakerShowsStored'
  BY <1>1, <1>3 DEF MakerShowsStored
<1>7. PasskeysStay'
  BY <1>1, <1>2, PasskeysAssumption DEF PasskeysStay, Unsaved
<1> QED
  BY <1>5, <1>6, <1>7

(* The wallet whose place is cleared is the one shown, or another page made  *)
(* it: its maker would show it.                                             *)
LEMMA DisconnectStep == ASSUME KInv, NEW p \in LinkPage, DisconnectPasskey(p) PROVE KInv'
<1> USE DEF KInv, KTypeOK
<1>1. /\ shown[p] # NoPasskey /\ stored' = NoPasskey
      /\ released' = released \cup {shown[p]}
                       \cup {k \in Unsaved({stored}) : maker[k] # p}
      /\ shown' = [shown EXCEPT ![p] = NoPasskey]
      /\ UNCHANGED <<maker, saved, everSaved, saves, listed, making>> /\ Made' = Made
  BY DEF DisconnectPasskey, Offered, Made
<1>2. KTypeOK'
  BY <1>1 DEF Unsaved
<1>3. stored \in Made => stored \in saved \/ stored \in released'
  BY <1>1, PasskeysAssumption DEF MakerShowsStored, Unsaved
<1>4. PasskeysStay'
  BY <1>1, <1>3 DEF PasskeysStay
<1> QED
  BY <1>1, <1>2, <1>4 DEF MakerShowsStored

(* The account: a row comes, or goes and the wallet is let go of.            *)
LEMMA AccountStep ==
  ASSUME KInv, NEW k \in Passkey,
         HandleSave(k) \/ \E p \in LinkPage : RemoveWallet(p, k)
  PROVE  KInv'
<1> USE DEF KInv, KTypeOK
<1>1. UNCHANGED <<maker, stored, paneVars>> /\ Made' = Made
  BY DEF HandleSave, RemoveWallet, Made
<1>2. CASE HandleSave(k)
  BY <1>1, <1>2 DEF HandleSave, paneVars, MakerShowsStored, PasskeysStay
<1>3. CASE \E p \in LinkPage : RemoveWallet(p, k)
  <2>1. /\ k \in Made /\ saved \ {k} \subseteq saved' /\ saved' \subseteq saved
        /\ released' = released \cup {k} /\ UNCHANGED <<everSaved, saves>>
    BY <1>3 DEF RemoveWallet
  <2> QED
    BY <1>1, <2>1 DEF paneVars, MakerShowsStored, PasskeysStay
<1> QED
  BY <1>2, <1>3

LEMMA NextPasskeys == KInv /\ [KNext]_kvars => KInv'
<1> SUFFICES ASSUME KInv, [KNext]_kvars PROVE KInv'
  OBVIOUS
<1>1. CASE UNCHANGED kvars
  BY <1>1 DEF kvars, paneVars, Made, KInv, KTypeOK, MakerShowsStored, PasskeysStay
<1>2. CASE KNext
  BY <1>2, PaneStep, RegisterStep, DisconnectStep, AccountStep DEF KNext
<1> QED
  BY <1>1, <1>2

LEMMA PasskeysInvariance == KSpec => []KInv
  BY InitPasskeys, NextPasskeys, PTL DEF KSpec

(* The passkey wallets, the rows and the pages keep their types.            *)
THEOREM PasskeysTypeCorrect == KSpec => []KTypeOK
  BY PasskeysInvariance, PTL DEF KInv

(* passkey.client.ts and WalletLinker.tsx: however many pages are open, a    *)
(* wallet that is neither stored nor saved was let go of, or lost in one of  *)
(* the two ways the property names.                                         *)
THEOREM PasskeysAreKept == KSpec => []PasskeysStay
  BY PasskeysInvariance, PTL DEF KInv
-----------------------------------------------------------------------------
(* A behaviour of the run's specification is one of the identity key, one of *)
(* the linked wallets and one of the passkeys, two of them at rest: the      *)
(* theorems about each are about that run too.                               *)
THEOREM HoldersAreKeysWalletsAndPasskeys == HolderSpec => Spec /\ WSpec /\ KSpec
<1>1. HolderInit => Init /\ WInit /\ KInit
  BY DEF HolderInit
<1>2. [HolderNext]_<<vars, wvars, kvars>> => [Next]_vars /\ [WNext]_wvars /\ [KNext]_kvars
  BY DEF HolderNext
<1> QED
  BY <1>1, <1>2, PTL DEF HolderSpec, Spec, WSpec, KSpec

(* What a holder keeps keeps its type: the secrets in browsers and blobs,    *)
(* the linked wallets with the requests that change them, and the passkeys.  *)
THEOREM HoldersTypeCorrect == HolderSpec => []TypesOK
  BY HoldersAreKeysWalletsAndPasskeys, TypeCorrect, WalletsTypeCorrect, PasskeysTypeCorrect, PTL
  DEF TypesOK
=============================================================================
