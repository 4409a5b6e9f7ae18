---------------------------- MODULE HolderWallet ----------------------------
(***************************************************************************)
(* The wallets a holder has linked: PUT and DELETE /api/holder/wallet, and  *)
(* POST /api/sep10/token, which links the account that signed a SEP-10      *)
(* challenge.  One action per await; no transaction joins them.  Without    *)
(* fairness a handler may stop anywhere, which is what a call that throws   *)
(* or a process that dies leaves behind: nothing is rolled back.            *)
(***************************************************************************)
EXTENDS Naturals

CONSTANTS
  Holder, Account,
  PutReq, Token, Delete,  \* requests to the three handlers
  Challenge,           \* SEP-10 challenges, each with its nonce
  ChallengeTTL,        \* SEP10_CHALLENGE_TTL_SECONDS
  JwtMaxAge,           \* SEP10_JWT_MAX_AGE_SECONDS
  MaxTime,             \* bound on the clock
  Nil

Link    == PutReq \cup Token
Request == Link \cup Delete

ASSUME WalletAssumption ==
  /\ PutReq \cap Token = {} /\ Link \cap Delete = {}
  /\ Nil \notin Link /\ Nil \notin Challenge
  /\ ChallengeTTL \in Nat /\ JwtMaxAge \in Nat \ {0} /\ MaxTime \in Nat

Wallet == Holder \X Account   \* the unique key of HolderWallet

VARIABLES
  walletId,    \* the id of each row (the request that created it), or Nil
  isDefault,   \* the rows with isDefault
  challenge,   \* the challenges built: account, maxTime, signed by the client
  nonceKey,    \* when the Redis key of a nonce expires, 0 if it was never set
  clock,
  at, ask, answer,
  linked,      \* the id of the row a PUT has upserted
  spent        \* history: the challenges whose nonce was marked consumed

tableVars == <<walletId, isDefault>>
sepVars   == <<challenge, nonceKey, clock>>
wvars == <<tableVars, sepVars, at, ask, answer, linked, spent>>

WStep == {"new", "get", "set", "upsert", "clear", "find", "delete", "done"}
Answer == {"none", "OK", "ERROR", "NOT_FOUND",
           "CHALLENGE_EXPIRED", "INVALID_SIGNATURE", "CHALLENGE_REPLAY"}

(* What a request asks for; Nil where a handler has no such parameter.     *)
Ask == [holder : Holder, account : Account \cup {Nil}, makeDefault : BOOLEAN,
        challenge : Challenge \cup {Nil}, id : Link \cup {Nil}]
NoAsk == [holder |-> Nil, account |-> Nil, makeDefault |-> FALSE,
          challenge |-> Nil, id |-> Nil]

WTypeOK ==
  /\ walletId \in [Wallet -> Link \cup {Nil}]
  /\ isDefault \subseteq Wallet
  /\ DOMAIN challenge \subseteq Challenge
  /\ \A n \in DOMAIN challenge :
       challenge[n] \in [account : Account, maxTime : Nat, signed : BOOLEAN]
  /\ nonceKey \in [Challenge -> Nat]
  /\ clock \in Nat
  /\ at \in [Request -> WStep]
  /\ ask \in [Request -> Ask \cup {NoAsk}]
  /\ \A r \in Request : at[r] # "new" => ask[r] \in Ask
  /\ answer \in [Request -> Answer]
  /\ linked \in [Link -> Link \cup {Nil}]
  /\ spent \subseteq DOMAIN challenge

WInit ==
  /\ walletId = [w \in Wallet |-> Nil]
  /\ isDefault = {}
  /\ challenge = [n \in {} |-> Nil]
  /\ nonceKey = [n \in Challenge |-> 0]
  /\ clock = 0
  /\ at = [r \in Request |-> "new"]
  /\ ask = [r \in Request |-> NoAsk]
  /\ answer = [r \in Request |-> "none"]
  /\ linked = [r \in Link |-> Nil]
  /\ spent = {}
-----------------------------------------------------------------------------
Move(r, from, to) == at[r] = from /\ at' = [at EXCEPT ![r] = to] /\ UNCHANGED answer

Finish(r, from, result) ==
  /\ at[r] = from
  /\ at' = [at EXCEPT ![r] = "done"]
  /\ answer' = [answer EXCEPT ![r] = result]

WalletOf(r) == <<ask[r].holder, ask[r].account>>
Exists(w) == walletId[w] # Nil

(* buildChallenge, and the client's wallet signing what it was sent.        *)
BuildChallenge(n) ==
  /\ n \notin DOMAIN challenge
  /\ \E a \in Account, s \in BOOLEAN :
       challenge' = [m \in DOMAIN challenge \cup {n} |->
                       IF m = n THEN [account |-> a, maxTime |-> clock + ChallengeTTL, signed |-> s]
                                ELSE challenge[m]]
  /\ UNCHANGED <<tableVars, nonceKey, clock, at, ask, answer, linked, spent>>

Tick ==
  /\ DOMAIN challenge # {} /\ clock < MaxTime   \* time before any challenge is immaterial
  /\ clock' = clock + 1
  /\ UNCHANGED <<tableVars, challenge, nonceKey, at, ask, answer, linked, spent>>

(* The first part of each handler, up to its first call that matters.  A    *)
(* request that the rate limit, the session or the schema turns away is one *)
(* that was never sent.                                                     *)
StartPut(r) ==
  /\ Move(r, "new", "upsert")
  /\ \E h \in Holder, a \in Account, d \in BOOLEAN :
       ask' = [ask EXCEPT ![r] = [NoAsk EXCEPT !.holder = h, !.account = a, !.makeDefault = d]]
  /\ UNCHANGED <<tableVars, sepVars, linked, spent>>

(* verifyChallenge, steps 1 to 6: no await between them.                    *)
StartToken(r) ==
  /\ \E h \in Holder, n \in DOMAIN challenge :
       LET c == challenge[n]
       IN /\ ask' = [ask EXCEPT ![r] = [NoAsk EXCEPT !.holder = h, !.account = c.account,
                                        !.makeDefault = TRUE, !.challenge = n]]
          /\ \/ clock > c.maxTime /\ Finish(r, "new", "CHALLENGE_EXPIRED")
             \/ clock <= c.maxTime /\ ~c.signed /\ Finish(r, "new", "INVALID_SIGNATURE")
             \/ clock <= c.maxTime /\ c.signed /\ Move(r, "new", "get")
  /\ UNCHANGED <<tableVars, sepVars, linked, spent>>

(* The id is a cuid that GET has listed, to this holder or to another.       *)
StartDelete(r) ==
  /\ Move(r, "new", "find")
  /\ \E h \in Holder, w \in {v \in Wallet : Exists(v)} :
       ask' = [ask EXCEPT ![r] = [NoAsk EXCEPT !.holder = h, !.id = walletId[w]]]
  /\ UNCHANGED <<tableVars, sepVars, linked, spent>>

(* Step 7: redis.get; a key is gone once its time is over.                  *)
Consumed(n) == clock < nonceKey[n]

GetNonce(r) ==
  /\ at[r] = "get"
  /\ \/ Consumed(ask[r].challenge) /\ Finish(r, "get", "CHALLENGE_REPLAY")
     \/ ~Consumed(ask[r].challenge) /\ Move(r, "get", "set")
  /\ UNCHANGED <<tableVars, sepVars, ask, linked, spent>>

(* Step 8: the key lives for ttl + maxAge.                                  *)
SetNonceShort(r) ==   \* mutant: the key lives for maxAge only
  LET n == ask[r].challenge
  IN /\ Move(r, "set", "upsert")
     /\ nonceKey' = [nonceKey EXCEPT ![n] = clock + JwtMaxAge]
     /\ spent' = spent \cup {n}
     /\ UNCHANGED <<tableVars, challenge, clock, ask, linked>>

SetNonce(r) ==
  LET n == ask[r].challenge
  IN /\ Move(r, "set", "upsert")
     /\ nonceKey' = [nonceKey EXCEPT ![n] = clock + ChallengeTTL + JwtMaxAge]
     /\ spent' = spent \cup {n}
     /\ UNCHANGED <<tableVars, challenge, clock, ask, linked>>

(* holderWallet.upsert, which Postgres does in one statement.               *)
UpsertRow(w, r, d) ==
  /\ walletId' = IF Exists(w) THEN walletId ELSE [walletId EXCEPT ![w] = r]
  /\ isDefault' = IF d THEN isDefault \cup {w} ELSE isDefault \ {w}

UpsertExisting(r) ==   \* mutant: the other defaults are cleared for a new row only
  /\ at[r] = "upsert"
  /\ UpsertRow(WalletOf(r), r, ask[r].makeDefault)
  /\ linked' = [linked EXCEPT ![r] = walletId'[WalletOf(r)]]
  /\ IF ask[r].makeDefault /\ ~Exists(WalletOf(r)) THEN Move(r, "upsert", "clear")
                                                  ELSE Finish(r, "upsert", "OK")
  /\ UNCHANGED <<sepVars, ask, spent>>

UpsertWallet(r) ==
  /\ at[r] = "upsert"
  /\ UpsertRow(WalletOf(r), r, ask[r].makeDefault)
  /\ linked' = [linked EXCEPT ![r] = walletId'[WalletOf(r)]]
  /\ IF ask[r].makeDefault THEN Move(r, "upsert", "clear") ELSE Finish(r, "upsert", "OK")
  /\ UNCHANGED <<sepVars, ask, spent>>

(* updateMany over the holder's other wallets: those with another id (PUT), *)
(* or with another address (token).                                         *)
IsOther(r, w) ==
  /\ w[1] = ask[r].holder
  /\ IF r \in PutReq THEN walletId[w] # linked[r] ELSE w[2] # ask[r].account

ClearDefaults(r) ==
  /\ Finish(r, "clear", "OK")
  /\ isDefault' = {w \in isDefault : ~IsOther(r, w)}
  /\ UNCHANGED <<walletId, sepVars, ask, linked, spent>>

Owned(r, w) == walletId[w] = ask[r].id /\ w[1] = ask[r].holder

FindAnyWallet(r) ==   \* mutant: the row is looked up by id, whoever owns it
  /\ IF \E w \in Wallet : walletId[w] = ask[r].id
     THEN Move(r, "find", "delete") ELSE Finish(r, "find", "NOT_FOUND")
  /\ UNCHANGED <<tableVars, sepVars, ask, linked, spent>>

FindWallet(r) ==
  /\ IF \E w \in Wallet : Owned(r, w)
     THEN Move(r, "find", "delete") ELSE Finish(r, "find", "NOT_FOUND")
  /\ UNCHANGED <<tableVars, sepVars, ask, linked, spent>>

(* delete throws when the row has gone since findFirst saw it.              *)
DeleteWallet(r) ==
  /\ at[r] = "delete"
  /\ walletId' = [w \in Wallet |-> IF walletId[w] = ask[r].id THEN Nil ELSE walletId[w]]
  /\ isDefault' = {w \in isDefault : walletId[w] # ask[r].id}
  /\ IF \E w \in Wallet : walletId[w] = ask[r].id
     THEN Finish(r, "delete", "OK") ELSE Finish(r, "delete", "ERROR")
  /\ UNCHANGED <<sepVars, ask, linked, spent>>

Handle(r) ==
  \/ r \in PutReq /\ StartPut(r)
  \/ r \in Token /\ (StartToken(r) \/ GetNonce(r) \/ SetNonce(r))
  \/ r \in Link /\ (UpsertWallet(r) \/ ClearDefaults(r))
  \/ r \in Delete /\ (StartDelete(r) \/ FindWallet(r) \/ DeleteWallet(r))

WNext == Tick \/ (\E n \in Challenge : BuildChallenge(n)) \/ (\E r \in Request : Handle(r))

WSpec == WInit /\ [][WNext]_wvars
-----------------------------------------------------------------------------
(* A holder has two default wallets only while a request that made one of   *)
(* them the default has yet to clear the others, or stopped before it did   *)
(* (wallet/route.ts:78-99, sep10/token/route.ts:39-57).                     *)
ExtraDefaultsArePending ==
  \A v, w \in isDefault :
    v # w /\ v[1] = w[1] =>
      \E r \in Link : at[r] = "clear" /\ WalletOf(r) \in {v, w}

(* A wallet that was linked and answered stays linked until its own holder  *)
(* deletes that row, whatever other holders ask for                         *)
(* (wallet/route.ts:142-149).                                               *)
LinksStay ==
  \A r \in Link :
    answer[r] = "OK" =>
      \/ walletId[WalletOf(r)] = linked[r]
      \/ \E d \in Delete : /\ at[d] = "done"
                            /\ ask[d].id = linked[r]
                            /\ ask[d].holder = ask[r].holder

(* Once a nonce was marked consumed, no request passes the check with it:   *)
(* the mark outlives the challenge, and by JwtMaxAge, which covers a        *)
(* request that was on time and slow (sep10.service.ts:178-182, 226-237).   *)
SpentStaysSpent ==
  [][\A r \in Token :
       /\ at[r] = "get" /\ at'[r] = "set"
       /\ clock < challenge[ask[r].challenge].maxTime + JwtMaxAge
       => ask[r].challenge \notin spent]_wvars

(* "Replay protection: nonce must not have been consumed"                   *)
(* (sep10.service.ts:226): a challenge is exchanged for one token.          *)
ChallengeUsedOnce ==
  \A r, q \in Token :
    r # q /\ answer[r] = "OK" /\ answer[q] = "OK" => ask[r].challenge # ask[q].challenge
=============================================================================
