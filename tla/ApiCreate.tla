------------------------------ MODULE ApiCreate ------------------------------
(***************************************************************************)
(* deliveries/api.py: POST /deliveries with one Idempotency-Key of one     *)
(* shop, and the shop's API keys (deliveries/auth.py, deliveries/views.py).*)
(*                                                                         *)
(* A request commits after every statement: authenticate, look the key up, *)
(* create the delivery, mark its source, insert the key.  The unique       *)
(* constraint on (shop, key) decides which of two requests came first; the *)
(* other one drops the delivery it has created.                            *)
(***************************************************************************)
EXTENDS Naturals, FiniteSets

CONSTANTS
  Worker,    \* threads that answer requests
  Row,       \* deliveries that may be created (bounds the retries)
  Token,     \* API keys that may be generated
  KeyCap,    \* settings.API_KEYS_PER_SHOP
  Crashes,   \* TRUE: an instance may be stopped between two statements
  None

ASSUME ApiConstants ==
  /\ IsFiniteSet(Worker) /\ Worker # {}
  /\ IsFiniteSet(Token)
  /\ KeyCap \in Nat
  /\ Crashes \in BOOLEAN
  /\ None \notin Row

VARIABLES
  row,      \* delivery -> "free", "manual", "api" (its source) or "dropped"
  key,      \* delivery of the ApiIdempotencyKey row, or None
  token,    \* API key -> "free", "active" or "revoked"
  pc, own,  \* step of a thread, the delivery it has created
  told,     \* deliveries named in answers to requests with the key
  lost      \* deliveries a stopped instance left behind

vars == <<row, key, token, pc, own, told, lost>>

-----------------------------------------------------------------------------
Source == {"free", "manual", "api", "dropped"}
KeyState == {"free", "active", "revoked"}
Steps == {"idle", "lookup", "create", "mark", "insert", "reread", "answer", "generate"}

Exists == {r \in Row : row[r] \in {"manual", "api"}}
ActiveKeys == {t \in Token : token[t] = "active"}

Init ==
  /\ row = [r \in Row |-> "free"]
  /\ key = None
  /\ token \in [Token -> {"free", "active"}]
  /\ Cardinality(ActiveKeys) <= KeyCap
  /\ pc = [w \in Worker |-> "idle"]
  /\ own = [w \in Worker |-> None]
  /\ told = {} /\ lost = {}

Goto(w, step) == pc' = [pc EXCEPT ![w] = step]
Finish(w) == Goto(w, "idle") /\ own' = [own EXCEPT ![w] = None]

\* The request is well formed and its API key is not revoked; one that is
\* refused (400, 401, 422) has changed nothing.
Authenticate(w) ==
  /\ pc[w] = "idle" /\ ActiveKeys # {}
  /\ Goto(w, "lookup")
  /\ UNCHANGED <<row, key, token, own, told, lost>>

\* A key that is known is answered with its delivery.
Lookup(w) ==
  /\ pc[w] = "lookup"
  /\ IF key # None
     THEN Finish(w) /\ told' = told \cup {key}
     ELSE Goto(w, "create") /\ UNCHANGED <<own, told>>
  /\ UNCHANGED <<row, key, token, lost>>

\* create_delivery, whether or not the address was geocoded.
Create(w) ==
  /\ pc[w] = "create"
  /\ \E r \in Row :
       /\ row[r] = "free"
       /\ row' = [row EXCEPT ![r] = "manual"]
       /\ own' = [own EXCEPT ![w] = r]
  /\ Goto(w, "mark")
  /\ UNCHANGED <<key, token, told, lost>>

MarkSource(w) ==
  /\ pc[w] = "mark"
  /\ row' = [row EXCEPT ![own[w]] = "api"]
  /\ Goto(w, "insert")
  /\ UNCHANGED <<key, token, own, told, lost>>

\* Mutant: the key is saved over the one that is there (update_or_create).
InsertKey_Overwrites(w) ==
  /\ pc[w] = "insert"
  /\ key' = own[w]
  /\ Goto(w, "answer")
  /\ UNCHANGED <<row, token, own, told, lost>>

\* ApiIdempotencyKey.objects.create; IntegrityError if there is one.
InsertKey(w) ==
  /\ pc[w] = "insert"
  /\ IF key = None
     THEN key' = own[w] /\ Goto(w, "answer")
     ELSE Goto(w, "reread") /\ UNCHANGED key
  /\ UNCHANGED <<row, token, own, told, lost>>

\* Mutant: the second request keeps its delivery.
DropOwn_Kept(w) ==
  /\ pc[w] = "reread"
  /\ told' = told \cup {key}
  /\ Finish(w)
  /\ UNCHANGED <<row, key, token, lost>>

\* The request that came second reads the key, drops its own delivery and
\* answers with the other one.
DropOwn(w) ==
  /\ pc[w] = "reread"
  /\ row' = [row EXCEPT ![own[w]] = "dropped"]
  /\ told' = told \cup {key}
  /\ Finish(w)
  /\ UNCHANGED <<key, token, lost>>

Answer(w) ==
  /\ pc[w] = "answer"
  /\ told' = told \cup {own[w]}
  /\ Finish(w)
  /\ UNCHANGED <<row, key, token, lost>>

\* Mutant: one key more than the limit.
CountKeys_OffByOne(w) ==
  /\ pc[w] = "idle"
  /\ Cardinality(ActiveKeys) <= KeyCap
  /\ Goto(w, "generate")
  /\ UNCHANGED <<row, key, token, own, told, lost>>

\* ApiKeyCreateView: the active keys are counted...
CountKeys(w) ==
  /\ pc[w] = "idle"
  /\ Cardinality(ActiveKeys) < KeyCap
  /\ Goto(w, "generate")
  /\ UNCHANGED <<row, key, token, own, told, lost>>

\* ... and a new one is inserted later.
GenerateKey(w) ==
  /\ pc[w] = "generate"
  /\ \E t \in Token :
       /\ token[t] = "free"
       /\ token' = [token EXCEPT ![t] = "active"]
  /\ Goto(w, "idle")
  /\ UNCHANGED <<row, key, own, told, lost>>

\* ApiKeyRevokeView; for good.
RevokeKey ==
  /\ \E t \in ActiveKeys : token' = [token EXCEPT ![t] = "revoked"]
  /\ UNCHANGED <<row, key, pc, own, told, lost>>

\* The instance is stopped: nothing drops the delivery it has created.
Crash(w) ==
  /\ Crashes /\ pc[w] # "idle"
  /\ lost' = IF own[w] \in {None, key} THEN lost ELSE lost \cup {own[w]}
  /\ Finish(w)
  /\ UNCHANGED <<row, key, token, told>>

Next ==
  \/ \E w \in Worker :
       \/ Authenticate(w) \/ Lookup(w) \/ Create(w) \/ MarkSource(w)
       \/ InsertKey(w) \/ DropOwn(w) \/ Answer(w)
       \/ CountKeys(w) \/ GenerateKey(w) \/ Crash(w)
  \/ RevokeKey

Spec == Init /\ [][Next]_vars
-----------------------------------------------------------------------------
TypeOK ==
  /\ row \in [Row -> Source]
  /\ key \in Row \cup {None}
  /\ token \in [Token -> KeyState]
  /\ pc \in [Worker -> Steps]
  /\ own \in [Worker -> Row \cup {None}]
  /\ told \subseteq Row /\ lost \subseteq Row

\* DeliveriesView.post: every answer for the key names the delivery the key
\* stands for, and that delivery is there, however requests overlap and die.
SameDelivery == told \subseteq {key} /\ (key # None => key \in Exists)

\* DeliveriesView.post: a delivery that is neither the key's nor in the hands
\* of a request was left by an instance that died: requests that are carried
\* to their end leave no duplicate.
DuplicatesOnlyByCrash ==
  \A r \in Exists : r = key \/ r \in lost \/ \E w \in Worker : own[w] = r

\* ApiKeyCreateView counts and inserts in two statements: a shop gets past its
\* limit, but by fewer keys than there are threads.
KeysNearCap == Cardinality(ActiveKeys) <= KeyCap + Cardinality(Worker) - 1

\* The promise of one delivery per key, read off the implementation's state.
Once == INSTANCE OneDelivery WITH exists <- Exists, chosen <- key

\* DeliveriesView.post: however the requests race, one delivery is chosen for
\* the key, once, every answer names it and nothing drops it.
OnceSpec == Once!Spec

\* What the API says of the header: a retry never creates a duplicate.
NoDuplicate == key # None => \A r \in Exists : r = key \/ \E w \in Worker : own[w] = r
=============================================================================
