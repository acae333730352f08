----------------------------- MODULE ShopProfile -----------------------------
(***************************************************************************)
(* The profile of one shop and the geocoding of addresses.  The page       *)
(* (ShopProfileView), the API (ShopView) and sign-up save settings from an *)
(* object they have read before, then geocode the address; creating and    *)
(* editing a delivery geocodes too.  Geocoding looks into the cache,       *)
(* counts the call, asks Google and stores the answer (integrations/       *)
(* cache.py, metering.py, google_maps.py), each for itself.                *)
(***************************************************************************)
EXTENDS Naturals, FiniteSets

CONSTANTS
  Server,     \* threads that answer requests
  Spelling,   \* addresses as people type them
  KeyOf,      \* normalize_address: the key of a spelling, NoKey if it is blank
  Secret,     \* webhook secrets; Empty is no secret
  Empty, NoKey,
  CallBound,  \* no geocoding begins after so many calls (a bound)
  PurgeBound, \* how often an address may leave the cache (a bound)
  KillBound   \* how often an instance may be stopped (a bound)

ASSUME ProfileConstants ==
  /\ IsFiniteSet(Server) /\ Server # {}
  /\ DOMAIN KeyOf = Spelling
  /\ CallBound \in Nat /\ PurgeBound \in Nat /\ KillBound \in Nat
  /\ Empty \notin Secret
  /\ Secret \cap {"keep", "clear"} = {}

VARIABLES
  secret,   \* Shop.webhook_secret
  origin,   \* the place whose address and coordinates the Shop has, or NoKey
  cache,    \* addresses in GeocodeCache
  usage,    \* ProviderUsage of geocoding
  calls,    \* calls of Google that were made
  paid,     \* per address: the calls that were answered
  purged,   \* per address: how often the purge deleted it from the cache
  work,     \* what a thread is doing
  killed    \* instances stopped so far

pvars == <<secret, origin, cache, usage, calls, paid, purged, work, killed>>

-----------------------------------------------------------------------------
Address == {KeyOf[s] : s \in Spelling} \ {NoKey}
Wish    == {"keep", "clear"} \cup Secret   \* what a request says of the secret
Work    == [at : {"idle", "settings", "lookup", "meter", "call", "store", "origin"},
            by : {"page", "api", "signup", "delivery"},
            secret : Secret \cup {Empty},  \* the one on the object it has read
            wish : Wish,
            key : Address \cup {NoKey}]
Resting == [at |-> "idle", by |-> "api", secret |-> Empty, wish |-> "keep", key |-> NoKey]

PInit ==
  /\ secret = Empty /\ origin = NoKey /\ cache = {}
  /\ usage = 0 /\ calls = 0 /\ killed = 0
  /\ paid = [a \in Address |-> 0] /\ purged = [a \in Address |-> 0]
  /\ work = [w \in Server |-> Resting]

Turn(w, at) == work' = [work EXCEPT ![w].at = at]
Rest(w)     == work' = [work EXCEPT ![w] = Resting]
Geocode(w)  == IF work[w].key = NoKey THEN Rest(w) ELSE Turn(w, "lookup")

\* A valid form or body; the shop is read with the user or the API key.  Only
\* the API may do without an address.
Ask(w) ==
  /\ work[w].at = "idle" /\ usage < CallBound
  /\ \E by \in {"page", "api", "signup", "delivery"}, wish \in Wish, s \in Spelling :
       /\ by \in {"page", "api"} \/ wish = "keep"
       /\ by = "api" \/ KeyOf[s] # NoKey
       /\ work' = [work EXCEPT ![w] =
            [at |-> IF by \in {"page", "api"} THEN "settings" ELSE "lookup",
             by |-> by, secret |-> secret, wish |-> wish, key |-> KeyOf[s]]]
  /\ UNCHANGED <<secret, origin, cache, usage, calls, paid, purged, killed>>

\* The page saves all its settings: the secret it was given, none if the box to
\* remove it is ticked, and for an empty field the one that was read.
SavePage(w) ==
  /\ work[w].at = "settings" /\ work[w].by = "page"
  /\ secret' = CASE work[w].wish = "clear"   -> Empty
                 [] work[w].wish \in Secret  -> work[w].wish
                 [] work[w].wish = "keep"    -> work[w].secret
  /\ Geocode(w)
  /\ UNCHANGED <<origin, cache, usage, calls, paid, purged, killed>>

\* The API saves the fields it was given; a blank secret removes it.
SaveApi(w) ==
  /\ work[w].at = "settings" /\ work[w].by = "api"
  /\ secret' = CASE work[w].wish = "clear"   -> Empty
                 [] work[w].wish \in Secret  -> work[w].wish
                 [] work[w].wish = "keep"    -> secret
  /\ Geocode(w)
  /\ UNCHANGED <<origin, cache, usage, calls, paid, purged, killed>>

\* CachingMapsProvider.geocode: an address in the cache costs nothing.
Lookup(w) ==
  /\ work[w].at = "lookup"
  /\ Turn(w, IF work[w].key \in cache THEN "origin" ELSE "meter")
  /\ UNCHANGED <<secret, origin, cache, usage, calls, paid, purged, killed>>

\* MeteringMapsProvider counts before the call.
Meter(w) ==
  /\ work[w].at = "meter"
  /\ usage' = usage + 1
  /\ Turn(w, "call")
  /\ UNCHANGED <<secret, origin, cache, calls, paid, purged, killed>>

\* GoogleMapsProvider.geocode: a place, or None for every kind of failure,
\* which set_shop_origin leaves the origin alone for.
Call(w) ==
  /\ work[w].at = "call"
  /\ calls' = calls + 1
  /\ \/ /\ paid' = [paid EXCEPT ![work[w].key] = @ + 1]
        /\ Turn(w, "store")
     \/ Rest(w) /\ UNCHANGED paid
  /\ UNCHANGED <<secret, origin, cache, usage, purged, killed>>

\* Mutant: the answer is not kept.
Store_Not(w) ==
  /\ work[w].at = "store"
  /\ Turn(w, "origin")
  /\ UNCHANGED <<secret, origin, cache, usage, calls, paid, purged, killed>>

\* update_or_create of the cache row.
Store(w) ==
  /\ work[w].at = "store"
  /\ cache' = cache \cup {work[w].key}
  /\ Turn(w, "origin")
  /\ UNCHANGED <<secret, origin, usage, calls, paid, purged, killed>>

\* set_shop_origin saves address and coordinates together; a delivery takes
\* the place for itself.
SaveOrigin(w) ==
  /\ work[w].at = "origin"
  /\ origin' = IF work[w].by = "delivery" THEN origin ELSE work[w].key
  /\ Rest(w)
  /\ UNCHANGED <<secret, cache, usage, calls, paid, purged, killed>>

Kill(w) ==
  /\ work[w].at # "idle"
  /\ killed < KillBound /\ killed' = killed + 1
  /\ Rest(w)
  /\ UNCHANGED <<secret, origin, cache, usage, calls, paid, purged>>

\* purge_recipient_pii deletes the cache rows that are past the limit.
Purge ==
  /\ \E a \in cache :
       /\ purged[a] < PurgeBound
       /\ purged' = [purged EXCEPT ![a] = @ + 1]
       /\ cache' = cache \ {a}
  /\ UNCHANGED <<secret, origin, usage, calls, paid, work, killed>>

PNext ==
  \/ \E w \in Server :
       \/ Ask(w) \/ SavePage(w) \/ SaveApi(w) \/ Lookup(w) \/ Meter(w) \/ Call(w)
       \/ Store(w) \/ SaveOrigin(w) \/ Kill(w)
  \/ Purge

PSpec == PInit /\ [][PNext]_pvars
-----------------------------------------------------------------------------
PTypeOK ==
  /\ secret \in Secret \cup {Empty}
  /\ origin \in Address \cup {NoKey}
  /\ cache \subseteq Address
  /\ usage \in Nat /\ calls \in Nat /\ killed \in Nat
  /\ paid \in [Address -> Nat] /\ purged \in [Address -> Nat]
  /\ work \in [Server -> Work]

\* CachingMapsProvider, MeteringMapsProvider: however requests overlap and are
\* cut off, an address is paid for once by each thread at most, as often again
\* each time the purge deletes it, and once more for each instance that stopped;
\* and no call of Google goes uncounted.
GeocodingPaidOnce ==
  /\ \A a \in Address : paid[a] <= Cardinality(Server) * (1 + purged[a]) + killed
  /\ calls <= usage /\ usage <= calls + Cardinality(Server) + killed

\* ShopOriginForm: an empty field leaves the secret as it is; only a request
\* that names a secret, or asks to remove it, changes it.
SecretKept ==
  [][secret' # secret =>
       \E w \in Server : work[w].at = "settings" /\ work[w].wish # "keep"
                         /\ work'[w].at # "settings"]_pvars
=============================================================================
