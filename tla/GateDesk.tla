------------------------------ MODULE GateDesk ------------------------------
(***************************************************************************)
(* How a job gate comes to be: the form of the issuer's page (GateForm.tsx), *)
(* whose slug and reward fields are rewritten by effects while others are   *)
(* edited, and POST /api/issuer/gates with createGate, which looks the slug *)
(* up and then inserts the row.  One form; other administrators post too.   *)
(***************************************************************************)
EXTENDS Naturals, FiniteSets

CONSTANTS
  Title,     \* titles that are typed in
  SlugOf,    \* the slug of each title, "" for one of punctuation only
  Predicates,\* sets of required `track` values that are filled in, see Blank
  Entry,     \* assets that are typed in, see AssetEntry
  Post,      \* requests to the route
  Rival,     \* what the others' requests ask for, see PayloadType
  NoPost

Blank == ""   \* a predicate row whose value has not been filled in
Unset == [code |-> "none", issuer |-> "none", amount |-> "none"]   \* rewardConfig {}

AssetEntry == [code : {"", "XLM", "TOKEN"}, issuer : {"", "own", "other"},
               amount : {"", "5"}]

RewardType == {"CLAIMABLE_BALANCE", "REGULATED_ASSET", "FLAG"}

(* What the form holds is what its request asks for. *)
PayloadType ==
  [title : Title \cup {""}, slug : {SlugOf[t] : t \in Title} \cup {""},
   predicates : Predicates \cup {{Blank}}, rewardType : RewardType,
   config : AssetEntry \cup {Unset}]

ASSUME GateDeskAssumption ==
  /\ "" \notin Title
  /\ Entry \subseteq AssetEntry
  /\ Rival \subseteq PayloadType
  /\ IsFiniteSet(Post) /\ NoPost \notin Post

VARIABLES
  draft,    \* the form's values
  waiting,  \* the form's request in flight
  sent,     \* history: the form's requests, in flight or not
  notice,   \* its status: "idle", "success" or "error"
  done,     \* the request whose gate the form announces
  timers,   \* timers that will clear the announcement
  payload,  \* what each request asks for
  at,       \* how far its handler has come
  reply,    \* its answer
  gates     \* the JobGate rows, each named by the request that created it

formVars == <<draft, waiting, sent, notice, done, timers>>
gateDeskVars == <<formVars, payload, at, reply, gates>>

FreshConfig(rewardType) ==
  CASE rewardType = "FLAG" -> Unset
    [] rewardType = "REGULATED_ASSET" -> [code |-> "", issuer |-> "", amount |-> ""]
    [] rewardType = "CLAIMABLE_BALANCE" -> [code |-> "XLM", issuer |-> "", amount |-> ""]

BlankDraft == [title |-> "", slug |-> "", predicates |-> {Blank},
               rewardType |-> "CLAIMABLE_BALANCE",
               config |-> FreshConfig("CLAIMABLE_BALANCE")]

GateDeskTypeOK ==
  /\ draft \in PayloadType
  /\ waiting \in Post \cup {NoPost}
  /\ sent \subseteq Post
  /\ notice \in {"idle", "success", "error"}
  /\ done \in Post \cup {NoPost}
  /\ timers \in 0..Cardinality(Post)
  /\ payload \in [Post -> PayloadType]
  /\ at \in [Post -> {"new", "find", "create", "done"}]
  /\ reply \in [Post -> {"none", "CREATED", "VALIDATION", "GATE_SLUG_TAKEN", "ERROR"}]
  /\ gates \subseteq Post

GateDeskInit ==
  /\ draft = BlankDraft
  /\ waiting = NoPost /\ sent = {} /\ notice = "idle" /\ done = NoPost /\ timers = 0
  /\ payload = [p \in Post |-> BlankDraft]
  /\ at = [p \in Post |-> "new"]
  /\ reply = [p \in Post |-> "none"]
  /\ gates = {}
-----------------------------------------------------------------------------
(* The form, which can be edited while its request is in flight. *)

Edit(new) ==
  /\ draft' = new
  /\ UNCHANGED <<waiting, sent, notice, done, timers, payload, at, reply, gates>>

(* An effect derives the slug; it keeps the last one of an emptied title.   *)
EditTitle(t) ==
  Edit([draft EXCEPT !.title = t, !.slug = IF t = "" THEN @ ELSE SlugOf[t]])

(* Rows are added, filled in and removed, down to the last one. *)
EditPredicates(P) == Edit([draft EXCEPT !.predicates = P])

EditAsset(e) ==
  /\ draft.rewardType # "FLAG"
  /\ Edit([draft EXCEPT !.config = e])

ChooseRewardKeeping(r) ==   \* mutant: only a flag resets the reward's asset
  /\ r # draft.rewardType
  /\ Edit([draft EXCEPT !.rewardType = r, !.config = IF r = "FLAG" THEN Unset ELSE @])

(* An effect resets the asset when another kind of reward is chosen. *)
ChooseReward(r) ==
  /\ r # draft.rewardType
  /\ Edit([draft EXCEPT !.rewardType = r, !.config = FreshConfig(r)])

(* gateFormSchema. *)
FormValid(d) ==
  /\ d.slug # "" /\ d.title # "" /\ Blank \notin d.predicates
  /\ d.config # Unset =>
       /\ d.config.code # "" /\ d.config.amount # ""
       /\ d.config.code = "XLM" => d.config.issuer = ""
  /\ d.rewardType = "REGULATED_ASSET" =>
       d.config # Unset /\ d.config.code # "XLM" /\ d.config.issuer # ""

Deliver(p, new) ==
  /\ at[p] = "new"
  /\ payload' = [payload EXCEPT ![p] = new]
  /\ at' = [at EXCEPT ![p] = "find"]

Submit ==
  /\ waiting = NoPost /\ FormValid(draft)
  /\ notice' = "idle"
  /\ \E p \in Post : waiting' = p /\ sent' = sent \cup {p} /\ Deliver(p, draft)
  /\ UNCHANGED <<draft, done, timers, reply, gates>>

(* The answer arrives: a success is announced for three seconds. *)
Hear ==
  /\ waiting # NoPost /\ reply[waiting] # "none"
  /\ IF reply[waiting] = "CREATED"
     THEN notice' = "success" /\ done' = waiting /\ timers' = timers + 1
     ELSE notice' = "error" /\ UNCHANGED <<done, timers>>
  /\ waiting' = NoPost
  /\ UNCHANGED <<draft, sent, payload, at, reply, gates>>

(* fetch rejects; the handler may be at work all the same. *)
Lose ==
  /\ waiting # NoPost
  /\ waiting' = NoPost /\ notice' = "error"
  /\ UNCHANGED <<draft, sent, done, timers, payload, at, reply, gates>>

(* A timer clears whatever is shown when it fires. *)
TimerFires ==
  /\ timers > 0
  /\ timers' = timers - 1
  /\ notice' = "idle" /\ done' = NoPost
  /\ UNCHANGED <<draft, waiting, sent, payload, at, reply, gates>>
-----------------------------------------------------------------------------
(* The route and createGate. *)

Arrive ==
  /\ \E p \in Post, r \in Rival : Deliver(p, r)
  /\ UNCHANGED <<formVars, reply, gates>>

Respond(p, code) ==
  /\ at' = [at EXCEPT ![p] = "done"]
  /\ reply' = [reply EXCEPT ![p] = code]

(* createGateInputSchema; its regulated-asset rule is checked once more by  *)
(* the service.                                                             *)
RouteValid(d) ==
  /\ d.slug # "" /\ d.title # ""
  /\ d.rewardType = "REGULATED_ASSET" => d.config # Unset /\ d.config.issuer = "own"

SameSlug(p) == {q \in gates : payload[q].slug = payload[p].slug}

FindSlug(p) ==
  /\ at[p] = "find"
  /\ \/ ~RouteValid(payload[p]) /\ Respond(p, "VALIDATION")
     \/ RouteValid(payload[p]) /\ SameSlug(p) # {} /\ Respond(p, "GATE_SLUG_TAKEN")
     \/ /\ RouteValid(payload[p]) /\ SameSlug(p) = {}
        /\ at' = [at EXCEPT ![p] = "create"]
        /\ UNCHANGED reply
  /\ UNCHANGED <<formVars, payload, gates>>

UpsertGate(p) ==   \* mutant: the insert replaces a row of the same slug
  /\ at[p] = "create"
  /\ Respond(p, "CREATED") /\ gates' = (gates \ SameSlug(p)) \cup {p}
  /\ UNCHANGED <<formVars, payload>>

(* jobGate.create, refused when the slug has been taken since. *)
CreateGate(p) ==
  /\ at[p] = "create"
  /\ \/ SameSlug(p) = {} /\ Respond(p, "CREATED") /\ gates' = gates \cup {p}
     \/ SameSlug(p) # {} /\ Respond(p, "ERROR") /\ UNCHANGED gates
  /\ UNCHANGED <<formVars, payload>>

(* The database throws. *)
Throws(p) ==
  /\ at[p] \in {"find", "create"}
  /\ Respond(p, "ERROR")
  /\ UNCHANGED <<formVars, payload, gates>>

GateDeskNext ==
  \/ \E t \in Title \cup {""} : EditTitle(t)
  \/ \E P \in Predicates : EditPredicates(P)
  \/ \E e \in Entry : EditAsset(e)
  \/ \E r \in RewardType : ChooseReward(r)
  \/ Submit \/ Hear \/ Lose \/ TimerFires \/ Arrive
  \/ \E p \in Post : FindSlug(p) \/ CreateGate(p) \/ Throws(p)

GateDeskSpec == GateDeskInit /\ [][GateDeskNext]_gateDeskVars
-----------------------------------------------------------------------------
(* An administrator who was told that a gate was created finds it, and no     *)
(* other, under its slug, whoever else posted the same slug at the same time; *)
(* what the form announces, over edits, further requests and old timers, is   *)
(* such a gate, and a timer is left to clear it.                             *)
CreatedGatesStand ==
  /\ \A p \in Post : reply[p] = "CREATED" => p \in gates /\ SameSlug(p) = {p}
  /\ done # NoPost => done \in gates /\ timers > 0
  /\ notice = "success" => done # NoPost

(* A gate from the form is complete: its predicates have their values, its   *)
(* reward has an asset and an amount exactly if its kind has any, nothing is *)
(* left over from another kind, and a regulated asset is one of the issuer's *)
(* own.  The effects, the form's schema and the route's see to it together.  *)
(* It does not say that the reward can be claimed, which is not so of every  *)
(* gate.  Two predicates may ask for different tracks, although the form is  *)
(* there so that "admins cannot create gates on attributes that can never be *)
(* satisfied" (GateForm.tsx:34-35); a FLAG is given by set_verified, which   *)
(* the registry does not have (stellar.ts:500-502); and the issuer of a      *)
(* claimable balance is not asked for.                                      *)
FormGatesAreComplete ==
  \A p \in sent \cap gates :
    LET reward == payload[p].config
    IN /\ Blank \notin payload[p].predicates
       /\ payload[p].rewardType = "FLAG" <=> reward = Unset
       /\ reward # Unset => reward.code # "" /\ reward.amount # ""
       /\ payload[p].rewardType = "REGULATED_ASSET" =>
            reward.issuer = "own" /\ reward.code # "XLM"
=============================================================================
