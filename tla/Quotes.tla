------------------------------- MODULE Quotes -------------------------------
(***************************************************************************)
(* The SEP-38 client: indicative prices, cached in Redis, and firm quotes,  *)
(* kept in RampQuote.  The anchor is external: a price is known by the time *)
(* at which the anchor gave it, a quote by its id.  A call may fail at any  *)
(* point, the handler then stops there.                                     *)
(***************************************************************************)
EXTENDS Naturals

CONSTANTS
  Query,        \* the queries of GET /prices, one cache key each
  Ask,          \* requests for prices
  Quote,        \* the anchor's firm quotes, by id
  Order, Fetch, \* POST /quote, GET /quote/[id]
  CacheTTL,     \* PRICES_CACHE_TTL_SECONDS
  MaxNow,       \* bound on the clock
  NoQuote

ASSUME QuotesAssumption == CacheTTL \in Nat /\ MaxNow \in Nat

VARIABLES
  cache,    \* per query the price that is stored and its expiry
  now,
  slowest,  \* history: the longest time from a price to its being stored
  stage, query, price,
  issued,   \* the quotes the anchor has given, and to which order
  kept,     \* the rows of RampQuote: order (the local id) to quote
  told      \* the quote answered to an order or to a fetch

priceVars == <<cache, now, slowest, query, price>>
quoteVars == <<issued, kept, told>>
qvars == <<priceVars, stage, quoteVars>>

NoPrice == [price |-> 0, expires |-> 0]   \* expired at any time

QTypeOK ==
  /\ cache \in [Query -> [price : Nat, expires : Nat]]
  /\ now \in Nat /\ slowest \in Nat
  /\ stage \in [Ask \cup Order \cup Fetch ->
                  {"new", "fetch", "set", "create", "cached", "fresh", "done"}]
  /\ query \in [Ask -> Query \cup {NoQuote}]
  /\ price \in [Ask -> [price : Nat, served : Nat]]
  /\ issued \in [Order -> Quote \cup {NoQuote}]
  /\ kept \in [Order -> Quote \cup {NoQuote}]
  /\ told \in [Order \cup Fetch -> Quote \cup {NoQuote}]

QInit ==
  /\ cache = [q \in Query |-> NoPrice]
  /\ now = 1 /\ slowest = 0
  /\ stage = [r \in Ask \cup Order \cup Fetch |-> "new"]
  /\ query = [r \in Ask |-> NoQuote]
  /\ price = [r \in Ask |-> [price |-> 0, served |-> 0]]
  /\ issued = [o \in Order |-> NoQuote]
  /\ kept = [o \in Order |-> NoQuote]
  /\ told = [r \in Order \cup Fetch |-> NoQuote]

To(r, from, to) == stage[r] = from /\ stage' = [stage EXCEPT ![r] = to]
-----------------------------------------------------------------------------
Pass ==
  /\ now < MaxNow
  /\ now' = now + 1
  /\ UNCHANGED <<cache, slowest, stage, query, price, quoteVars>>

(* redis.get: a price that is cached is the answer.                          *)
ReadAndRenew(r) ==   \* mutant: a hit renews the key
  /\ \E q \in Query :
       /\ query' = [query EXCEPT ![r] = q]
       /\ \/ /\ now < cache[q].expires /\ To(r, "new", "cached")
             /\ price' = [price EXCEPT ![r] = [price |-> cache[q].price, served |-> now]]
             /\ cache' = [cache EXCEPT ![q].expires = now + CacheTTL]
          \/ now >= cache[q].expires /\ To(r, "new", "fetch") /\ UNCHANGED <<cache, price>>
  /\ UNCHANGED <<now, slowest, quoteVars>>

ReadCache(r) ==
  /\ \E q \in Query :
       /\ query' = [query EXCEPT ![r] = q]
       /\ \/ /\ now < cache[q].expires /\ To(r, "new", "cached")
             /\ price' = [price EXCEPT ![r] = [price |-> cache[q].price, served |-> now]]
          \/ now >= cache[q].expires /\ To(r, "new", "fetch") /\ UNCHANGED price
  /\ UNCHANGED <<cache, now, slowest, quoteVars>>

(* anchorFetch: the anchor gives the price of this moment.                  *)
FetchPrice(r) ==
  /\ To(r, "fetch", "set")
  /\ price' = [price EXCEPT ![r].price = now]
  /\ UNCHANGED <<cache, now, slowest, query, quoteVars>>

(* redis.set with EX, then the answer.                                      *)
StorePrice(r) ==
  LET q == query[r]
  IN /\ To(r, "set", "fresh")
     /\ cache' = [cache EXCEPT ![q] =
                    [price |-> price[r].price, expires |-> now + CacheTTL]]
     /\ slowest' = IF now - price[r].price > slowest THEN now - price[r].price ELSE slowest
     /\ price' = [price EXCEPT ![r].served = now]
     /\ UNCHANGED <<now, query, quoteVars>>
-----------------------------------------------------------------------------
(* requestQuote: the anchor gives a quote, then the row is created.         *)
RequestQuote(o) ==
  /\ To(o, "new", "create")
  /\ \E k \in Quote : issued' = [issued EXCEPT ![o] = k]
  /\ UNCHANGED <<priceVars, kept, told>>

KeepQuote(o) ==
  /\ To(o, "create", "done")
  /\ kept' = [kept EXCEPT ![o] = issued[o]]
  /\ told' = [told EXCEPT ![o] = issued[o]]
  /\ UNCHANGED <<priceVars, issued>>

(* getQuote: by the local id, else by the anchor's id, which is not unique. *)
FetchQuote(r) ==
  /\ To(r, "new", "done")
  /\ \E o \in Order :
       kept[o] # NoQuote /\ told' = [told EXCEPT ![r] = kept[o]]
  /\ UNCHANGED <<priceVars, issued, kept>>

QNext ==
  \/ Pass
  \/ \E r \in Ask : ReadCache(r) \/ FetchPrice(r) \/ StorePrice(r)
  \/ \E o \in Order : RequestQuote(o) \/ KeepQuote(o)
  \/ \E r \in Fetch : FetchQuote(r)

QSpec == QInit /\ [][QNext]_qvars
-----------------------------------------------------------------------------
(* "cached in Redis for a short TTL": a price from the cache is younger     *)
(* than the TTL and the slowest call of the anchor together, a fresh one no  *)
(* older than that call, however late calls and new ones overwrite one      *)
(* another (sep38.service.ts:142-156).                                      *)
PriceIsRecent ==
  \A r \in Ask :
    LET age == price[r].served - price[r].price
    IN /\ stage[r] = "cached" => age < CacheTTL + slowest
       /\ stage[r] = "fresh"  => age <= slowest
=============================================================================
