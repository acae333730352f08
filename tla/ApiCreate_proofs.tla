--------------------------- MODULE ApiCreate_proofs ---------------------------
(***************************************************************************)
(* ApiCreate for any number of threads, deliveries and API keys: one       *)
(* delivery stands for the Idempotency-Key, duplicates are left by stopped *)
(* instances only, and the limit of the API keys is passed by a bounded    *)
(* number of them.                                                         *)
(***************************************************************************)
EXTENDS ApiCreate, FiniteSetTheorems, TLAPS

\* Threads that hold a delivery they have created, before its key is saved.
Holding == {"mark", "insert", "reread"}

\* What a thread holds: a delivery that is there and is not the key's, until
\* it is the key's; nothing at the other steps.
HoldsOwn ==
  \A w \in Worker :
    /\ pc[w] \in Holding => own[w] \in Exists /\ own[w] # key
    /\ pc[w] = "answer" => own[w] = key /\ key # None
    /\ pc[w] = "reread" => key # None
    /\ pc[w] \notin Holding \cup {"answer"} => own[w] = None

\* Two threads never hold one delivery.
OwnApart == \A v, w \in Worker : own[v] = own[w] /\ v # w => own[v] = None

\* The inductive invariant about the deliveries.
IInv == TypeOK /\ HoldsOwn /\ OwnApart /\ SameDelivery /\ DuplicatesOnlyByCrash

\* Threads that have counted the API keys.
Counted == {w \in Worker : pc[w] = "generate"}

\* The inductive invariant about the API keys: the keys there are, with those
\* that are about to be inserted.
KInv == TypeOK /\ Cardinality(ActiveKeys) + Cardinality(Counted) <= KeyCap + Cardinality(Worker) - 1

\* A shop starts with no delivery and no key: IInv holds.
LEMMA InitIInv == Init => IInv
  BY ApiConstants DEF Init, IInv, TypeOK, HoldsOwn, OwnApart, SameDelivery,
     DuplicatesOnlyByCrash, Exists, Source, KeyState, Steps, Holding, ActiveKeys

\* Every step preserves IInv.
LEMMA NextIInv == IInv /\ [Next]_vars => IInv'
<1> SUFFICES ASSUME IInv, [Next]_vars PROVE IInv'
  OBVIOUS
<1> USE ApiConstants DEF IInv, TypeOK, Exists, Source, KeyState, Steps, Holding, Goto, Finish
<1>1. ASSUME NEW w \in Worker, Authenticate(w) PROVE IInv'
  BY <1>1 DEF Authenticate, HoldsOwn, OwnApart, SameDelivery, DuplicatesOnlyByCrash
<1>2. ASSUME NEW w \in Worker, Lookup(w) PROVE IInv'
  BY <1>2 DEF Lookup, HoldsOwn, OwnApart, SameDelivery, DuplicatesOnlyByCrash
<1>3. ASSUME NEW w \in Worker, Create(w) PROVE IInv'
  <2>1. PICK r \in Row : row[r] = "free" /\ row' = [row EXCEPT ![r] = "manual"]
                         /\ own' = [own EXCEPT ![w] = r]
    BY <1>3 DEF Create
  <2>2. UNCHANGED <<key, token, told, lost>> /\ pc' = [pc EXCEPT ![w] = "mark"] /\ pc[w] = "create"
    BY <1>3 DEF Create
  <2>3. \A v \in Worker : own[v] # r /\ r # key
    BY <2>1 DEF HoldsOwn, SameDelivery
  <2>4. TypeOK'
    BY <2>1, <2>2
  <2>5. HoldsOwn'
    BY <2>1, <2>2, <2>3 DEF HoldsOwn
  <2>6. OwnApart' /\ SameDelivery'
    BY <2>1, <2>2, <2>3 DEF OwnApart, SameDelivery
  <2>7. DuplicatesOnlyByCrash'
    BY <2>1, <2>2, <2>3 DEF DuplicatesOnlyByCrash, HoldsOwn
  <2> QED BY <2>4, <2>5, <2>6, <2>7
<1>4. ASSUME NEW w \in Worker, MarkSource(w) PROVE IInv'
  BY <1>4 DEF MarkSource, HoldsOwn, OwnApart, SameDelivery, DuplicatesOnlyByCrash
<1>5. ASSUME NEW w \in Worker, InsertKey(w) PROVE IInv'
  BY <1>5 DEF InsertKey, HoldsOwn, OwnApart, SameDelivery, DuplicatesOnlyByCrash
<1>6. ASSUME NEW w \in Worker, DropOwn(w) PROVE IInv'
  <2>1. /\ row' = [row EXCEPT ![own[w]] = "dropped"] /\ own[w] \in Exists /\ own[w] # key
        /\ told' = told \cup {key} /\ key # None
        /\ own' = [own EXCEPT ![w] = None] /\ pc' = [pc EXCEPT ![w] = "idle"]
        /\ UNCHANGED <<key, token, lost>>
    BY <1>6 DEF DropOwn, HoldsOwn
  <2>2. TypeOK' /\ SameDelivery'
    BY <2>1 DEF SameDelivery
  <2>3. \A v \in Worker : v # w => own[v] # own[w]
    BY <2>1 DEF OwnApart
  <2>4. HoldsOwn' /\ OwnApart'
    BY <2>1, <2>3 DEF HoldsOwn, OwnApart
  <2>5. DuplicatesOnlyByCrash'
    BY <2>1, <2>3 DEF DuplicatesOnlyByCrash
  <2> QED BY <2>2, <2>4, <2>5
<1>7. ASSUME NEW w \in Worker, Answer(w) PROVE IInv'
  BY <1>7 DEF Answer, HoldsOwn, OwnApart, SameDelivery, DuplicatesOnlyByCrash
<1>8. ASSUME NEW w \in Worker, CountKeys(w) PROVE IInv'
  BY <1>8 DEF CountKeys, HoldsOwn, OwnApart, SameDelivery, DuplicatesOnlyByCrash
<1>9. ASSUME NEW w \in Worker, GenerateKey(w) PROVE IInv'
  BY <1>9 DEF GenerateKey, HoldsOwn, OwnApart, SameDelivery, DuplicatesOnlyByCrash
<1>10. ASSUME NEW w \in Worker, Crash(w) PROVE IInv'
  <2>1. TypeOK' /\ HoldsOwn' /\ OwnApart' /\ SameDelivery'
    BY <1>10 DEF Crash, HoldsOwn, OwnApart, SameDelivery
  <2>2. DuplicatesOnlyByCrash'
    BY <1>10 DEF Crash, DuplicatesOnlyByCrash
  <2> QED BY <2>1, <2>2
<1>11. CASE RevokeKey
  BY <1>11 DEF RevokeKey, ActiveKeys, HoldsOwn, OwnApart, SameDelivery, DuplicatesOnlyByCrash
<1>12. CASE UNCHANGED vars
  BY <1>12 DEF vars, HoldsOwn, OwnApart, SameDelivery, DuplicatesOnlyByCrash
<1> QED
  BY <1>1, <1>2, <1>3, <1>4, <1>5, <1>6, <1>7, <1>8, <1>9, <1>10, <1>11, <1>12 DEF Next

\* IInv holds in every state of every behaviour.
LEMMA AlwaysIInv == Spec => []IInv
  BY InitIInv, NextIInv, PTL DEF Spec

\* The types of the rows, the keys and the threads.
THEOREM CreateTypes == Spec => []TypeOK
  BY AlwaysIInv, PTL DEF IInv

\* DeliveriesView.post: every answer names the one delivery of the key, and it
\* is there.
THEOREM SameDeliveryHolds == Spec => []SameDelivery
  BY AlwaysIInv, PTL DEF IInv

\* DeliveriesView.post: only a stopped instance leaves a duplicate.
THEOREM DuplicatesBounded == Spec => []DuplicatesOnlyByCrash
  BY AlwaysIInv, PTL DEF IInv

-----------------------------------------------------------------------------
(* The promise of one delivery per key                                     *)

\* No delivery, no key and no answer: the promise begins as the code does.
LEMMA OnceInit == Init => Once!Init
  BY DEF Init, Once!Init, Exists

\* Every step of a request is a step of the promise, or none.
LEMMA OnceStep ==
  IInv /\ [Next]_vars
    => [Once!Spawn \/ Once!Choose \/ Once!Tell \/ Once!Drop]_<<Exists, key, told>>
<1> SUFFICES ASSUME IInv, [Next]_vars
             PROVE \/ Once!Spawn \/ Once!Choose \/ Once!Tell \/ Once!Drop
                   \/ UNCHANGED <<Exists, key, told>>
  OBVIOUS
<1> USE ApiConstants DEF IInv, TypeOK, Exists, Source, Holding, Goto, Finish, HoldsOwn
<1>1. ASSUME NEW w \in Worker, Lookup(w)
      PROVE Once!Tell \/ UNCHANGED <<Exists, key, told>>
  BY <1>1 DEF Lookup, Once!Tell
<1>2. ASSUME NEW w \in Worker, Create(w) PROVE Once!Spawn
  <2>1. PICK r \in Row : row[r] = "free" /\ row' = [row EXCEPT ![r] = "manual"]
    BY <1>2 DEF Create
  <2>2. r \in Row \ Exists /\ Exists' = Exists \cup {r} /\ UNCHANGED <<key, told>>
    BY <1>2, <2>1 DEF Create
  <2> QED BY <2>2 DEF Once!Spawn
<1>3. ASSUME NEW w \in Worker, MarkSource(w) PROVE UNCHANGED <<Exists, key, told>>
  BY <1>3 DEF MarkSource
<1>4. ASSUME NEW w \in Worker, InsertKey(w)
      PROVE Once!Choose \/ UNCHANGED <<Exists, key, told>>
  BY <1>4 DEF InsertKey, Once!Choose
<1>5. ASSUME NEW w \in Worker, DropOwn(w) PROVE Once!Drop
  <2>1. own[w] \in Exists \ {key} /\ key # None
    BY <1>5 DEF DropOwn
  <2>2. Exists' = Exists \ {own[w]} /\ told' = told \cup {key} /\ UNCHANGED key
    BY <1>5, <2>1 DEF DropOwn
  <2> QED BY <2>1, <2>2 DEF Once!Drop
<1>6. ASSUME NEW w \in Worker, Answer(w) PROVE Once!Tell
  BY <1>6 DEF Answer, Once!Tell
<1>7. ASSUME NEW w \in Worker,
             Authenticate(w) \/ CountKeys(w) \/ GenerateKey(w) \/ Crash(w)
      PROVE UNCHANGED <<Exists, key, told>>
  BY <1>7 DEF Authenticate, CountKeys, GenerateKey, Crash
<1>8. CASE RevokeKey
  BY <1>8 DEF RevokeKey
<1>9. CASE UNCHANGED vars
  BY <1>9 DEF vars
<1> QED
  BY <1>1, <1>2, <1>3, <1>4, <1>5, <1>6, <1>7, <1>8, <1>9 DEF Next

\* DeliveriesView.post, with its crashes and races, is an implementation of
\* the promise of one delivery per key.
THEOREM CreateImplementsOnce == Spec => OnceSpec
<1>1. Spec => Once!Init
  BY OnceInit DEF Spec
<1>2. Spec => [][Once!Spawn \/ Once!Choose \/ Once!Tell \/ Once!Drop]_<<Exists, key, told>>
  BY AlwaysIInv, OnceStep, PTL DEF Spec
<1> QED BY <1>1, <1>2, PTL DEF OnceSpec, Once!Spec

-----------------------------------------------------------------------------
(* The limit of the API keys                                               *)

\* The API keys and the threads are finite sets, and few.
LEMMA Finite ==
  ASSUME TypeOK
  PROVE  /\ IsFiniteSet(ActiveKeys) /\ IsFiniteSet(Counted)
         /\ Cardinality(ActiveKeys) \in Nat /\ Cardinality(Counted) \in Nat
         /\ Cardinality(Counted) <= Cardinality(Worker)
         /\ Cardinality(Worker) \in Nat \ {0}
<1>1. ActiveKeys \subseteq Token /\ Counted \subseteq Worker
  BY DEF ActiveKeys, Counted
<1>2. IsFiniteSet(ActiveKeys) /\ IsFiniteSet(Counted)
  BY <1>1, ApiConstants, FS_Subset
<1>3. Cardinality(Counted) <= Cardinality(Worker)
  BY <1>1, ApiConstants, FS_Subset
<1>4. Cardinality(Worker) # 0
  BY ApiConstants, FS_EmptySet
<1> QED BY <1>2, <1>3, <1>4, ApiConstants, FS_CardinalityType

\* KInv is kept by a step that leaves no more API keys and no more threads.
LEMMA FewerKeys ==
  ASSUME KInv, TypeOK', ActiveKeys' \subseteq ActiveKeys, Counted' \subseteq Counted
  PROVE  KInv'
<1>1. Cardinality(ActiveKeys') <= Cardinality(ActiveKeys)
  BY Finite, FS_Subset DEF KInv
<1>2. Cardinality(Counted') <= Cardinality(Counted)
  BY Finite, FS_Subset DEF KInv
<1>3. /\ Cardinality(ActiveKeys') \in Nat /\ Cardinality(Counted') \in Nat
  BY Finite, FS_Subset, FS_CardinalityType DEF KInv
<1> QED BY <1>1, <1>2, <1>3, Finite, ApiConstants DEF KInv

\* Every step preserves KInv: a thread that has counted found room, and there
\* are no more of them than threads.
LEMMA NextKInv == KInv /\ TypeOK' /\ [Next]_vars => KInv'
<1> SUFFICES ASSUME KInv, TypeOK', [Next]_vars PROVE KInv'
  OBVIOUS
<1> USE DEF TypeOK, Goto, Finish
<1>1. ASSUME NEW w \in Worker, CountKeys(w) PROVE KInv'
  <2>1. Cardinality(ActiveKeys) < KeyCap /\ ActiveKeys' = ActiveKeys
    BY <1>1 DEF CountKeys, ActiveKeys
  <2>2. Counted' \subseteq Worker
    BY DEF Counted
  <2>3. /\ Cardinality(Counted') <= Cardinality(Worker)
        /\ Cardinality(Counted') \in Nat
    BY <2>2, ApiConstants, FS_Subset, FS_CardinalityType
  <2> QED BY <2>1, <2>3, Finite, ApiConstants DEF KInv
<1>2. ASSUME NEW w \in Worker, GenerateKey(w) PROVE KInv'
  <2>1. PICK t \in Token : token[t] = "free" /\ token' = [token EXCEPT ![t] = "active"]
    BY <1>2 DEF GenerateKey
  <2>2. ActiveKeys' = ActiveKeys \cup {t} /\ t \notin ActiveKeys
    BY <2>1 DEF ActiveKeys, KInv
  <2>3. Counted' = Counted \ {w} /\ w \in Counted
    BY <1>2 DEF GenerateKey, Counted, KInv
  <2>4. Cardinality(ActiveKeys') = Cardinality(ActiveKeys) + 1
    BY <2>2, Finite, FS_AddElement DEF KInv
  <2>5. Cardinality(Counted') = Cardinality(Counted) - 1
    BY <2>3, Finite, FS_RemoveElement DEF KInv
  <2> QED BY <2>4, <2>5, Finite, ApiConstants DEF KInv
<1>3. ASSUME NEW w \in Worker,
             \/ Authenticate(w) \/ Lookup(w) \/ Create(w) \/ MarkSource(w)
             \/ InsertKey(w) \/ DropOwn(w) \/ Answer(w) \/ Crash(w)
      PROVE KInv'
  <2>1. ActiveKeys' = ActiveKeys
    BY <1>3 DEF Authenticate, Lookup, Create, MarkSource, InsertKey, DropOwn, Answer, Crash,
       ActiveKeys
  <2>2. Counted' \subseteq Counted
    BY <1>3 DEF Authenticate, Lookup, Create, MarkSource, InsertKey, DropOwn, Answer, Crash,
       Counted, KInv
  <2> QED BY <2>1, <2>2, FewerKeys
<1>4. CASE RevokeKey
  <2>1. ActiveKeys' \subseteq ActiveKeys /\ Counted' = Counted
    BY <1>4 DEF RevokeKey, ActiveKeys, Counted, KInv
  <2> QED BY <2>1, FewerKeys
<1>5. CASE UNCHANGED vars
  <2>1. ActiveKeys' = ActiveKeys /\ Counted' = Counted
    BY <1>5 DEF vars, ActiveKeys, Counted
  <2> QED BY <2>1, FewerKeys
<1> QED BY <1>1, <1>2, <1>3, <1>4, <1>5 DEF Next

\* A shop starts with at most as many API keys as its limit.
LEMMA InitKInv == Init /\ TypeOK => KInv
<1> SUFFICES ASSUME Init, TypeOK PROVE KInv
  OBVIOUS
<1>1. Counted = {}
  BY DEF Init, Counted
<1> QED BY <1>1, Finite, FS_EmptySet, ApiConstants DEF Init, KInv

\* ApiKeyCreateView: a shop passes its limit by fewer keys than there are
\* threads.
THEOREM KeysNearCapHolds == Spec => []KeysNearCap
<1>1. KInv => KeysNearCap
  BY Finite, ApiConstants, FS_CardinalityType DEF KInv, KeysNearCap
<1>2. Init /\ TypeOK => KInv
  BY InitKInv
<1> QED BY <1>1, <1>2, NextKInv, CreateTypes, PTL DEF Spec
=============================================================================
