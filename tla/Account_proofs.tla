--------------------------- MODULE Account_proofs ---------------------------
(***************************************************************************)
(* Payments, RateLimits, ShopProfile and Channels for any number of        *)
(* threads and any amounts.  Payments: no charge before the end of the     *)
(* trial, a grace period from the first word that a payment is due, and    *)
(* refunds never ahead of those of Whop.  RateLimits: how far threads that *)
(* look together get past a limit.  ShopProfile: how often an address is   *)
(* paid for, and a secret kept by saves that do not overlap.  Channels:    *)
(* what the meter leaves out, and when a text is copied.                   *)
(***************************************************************************)
EXTENDS Payments, RateLimits, ShopProfile, Channels, Integers, FiniteSetTheorems, TLAPS

\* Whole days, rounded up, last at least as long as what they were rounded from.
LEMMA RoundedUp ==
  ASSUME NEW n \in Nat, NEW d \in Nat \ {0}
  PROVE  /\ (n + d - 1) \div d \in Nat
         /\ ((n + d - 1) \div d) * d >= n
<1> DEFINE m == n + d - 1
           q == m \div d
<1>1. m \in Nat
  OBVIOUS
<1>2. q \in Int /\ m = d * q + (m % d) /\ m % d \in 0 .. d - 1
  BY <1>1
<1>3. q >= 0
  BY <1>1
<1>4. q * d = d * q
  BY <1>2
<1>5. d * q \in Int
  BY <1>2
<1> HIDE DEF q, m
<1>6. q * d >= m - (d - 1)
  BY <1>1, <1>2, <1>4, <1>5
<1>7. m - (d - 1) = n
  BY DEF m
<1> QED BY <1>2, <1>3, <1>6, <1>7 DEF q, m

\* The end of the trial is a moment.
LEMMA TrialEndsType == MTypeOK => TrialEnds \in Nat
  BY PaymentConstants DEF MTypeOK, TrialEnds, Ticks

\* The free days of a checkout are a number, and reach to the end of the trial.
LEMMA DaysReach == MTypeOK => DaysLeft \in Nat /\ time + DaysLeft * DayTicks >= TrialEnds
<1> SUFFICES ASSUME MTypeOK PROVE DaysLeft \in Nat /\ time + DaysLeft * DayTicks >= TrialEnds
  OBVIOUS
<1>1. time \in Nat /\ TrialEnds \in Nat /\ DayTicks \in Nat \ {0}
  BY TrialEndsType, PaymentConstants DEF MTypeOK, Ticks
<1>2. CASE time < TrialEnds
  <2>1. TrialEnds - time \in Nat
    BY <1>1, <1>2
  <2>2. DaysLeft = ((TrialEnds - time) + DayTicks - 1) \div DayTicks
    BY <1>2 DEF DaysLeft
  <2>3. DaysLeft \in Nat /\ DaysLeft * DayTicks >= TrialEnds - time
    BY <1>1, <2>1, <2>2, RoundedUp
  <2>4. DaysLeft * DayTicks \in Nat
    BY <1>1, <2>3
  <2> HIDE DEF DaysLeft
  <2> QED BY <1>1, <2>3, <2>4
<1>3. CASE ~(time < TrialEnds)
  BY <1>1, <1>3 DEF DaysLeft
<1> QED BY <1>2, <1>3

\* There is mail, a row or a refund in hand only of a payment that was made.
OnlyPaid ==
  /\ mail # {} \/ refunded # Never => given # Never
  /\ \A w \in Clerk : desk[w].at # "idle" => given # Never

TypeInv == MTypeOK /\ OnlyPaid

\* Every step keeps the types.
LEMMA NextTypes == TypeInv /\ [MNext]_mvars => TypeInv'
<1> SUFFICES ASSUME TypeInv, [MNext]_mvars PROVE TypeInv'
  OBVIOUS
<1> USE PaymentConstants DEF TypeInv, MTypeOK, OnlyPaid
<1>1. CASE Override
  BY <1>1 DEF Override
<1>2. CASE Subscribe
  BY <1>2, DaysReach, TrialEndsType DEF Subscribe
<1>3. CASE Membership
  BY <1>3 DEF Membership, PastDueSince
<1>4. CASE Charge
  BY <1>4 DEF Charge, Sums, Letter
<1>5. CASE GiveBack
  BY <1>5 DEF GiveBack, Sums, Letter, Refund
<1>6. CASE RecordPayment
  BY <1>6 DEF RecordPayment, Letter, Deliver
<1>7. CASE Later
  BY <1>7 DEF Later, Ticks
<1>8. ASSUME NEW w \in Clerk, RefundFind(w) PROVE TypeInv'
  BY <1>8 DEF RefundFind, Desk, Deliver, Sums
<1>9. ASSUME NEW w \in Clerk, RefundRead(w) PROVE TypeInv'
  <2>1. desk[w] \in Desk /\ given \in Sums /\ given # Never
    BY <1>9 DEF RefundRead
  <2>2. [at |-> "save", saw |-> desk[w].saw, got |-> given] \in Desk /\ Free \in Desk
    BY <2>1 DEF Desk, Free, Sums
  <2>3. desk' \in [Clerk -> Desk]
    BY <1>9, <2>2 DEF RefundRead
  <2> QED BY <1>9, <2>1, <2>3 DEF RefundRead
<1>10. ASSUME NEW w \in Clerk, RefundSave(w) PROVE TypeInv'
  BY <1>10 DEF RefundSave, Desk, Free, Sums
<1>11. CASE UNCHANGED mvars
  BY <1>11 DEF mvars
<1> QED BY <1>1, <1>2, <1>3, <1>4, <1>5, <1>6, <1>7, <1>8, <1>9, <1>10, <1>11 DEF MNext

\* The types hold at first.
LEMMA InitTypes == MInit => TypeInv
  BY PaymentConstants DEF MInit, TypeInv, MTypeOK, OnlyPaid, Ticks, Sums, Letter, Desk, Free

\* The types hold in every state.
LEMMA AlwaysTypes == MSpec => []TypeInv
  BY InitTypes, NextTypes, PTL DEF MSpec

\* The types of the shop's row, the payment's and the threads.
THEOREM PaymentTypes == MSpec => []MTypeOK
  BY AlwaysTypes, PTL DEF TypeInv

-----------------------------------------------------------------------------
(* The trial                                                               *)

\* The inductive invariant: the free days of a checkout reach to the end of
\* the trial, and Whop has charged after them.
TrialInv ==
  /\ plan # Never => plan.made + plan.days * DayTicks >= plan.shown
  /\ given # Never => plan # Never /\ time >= plan.shown

\* Every step preserves TrialInv.
LEMMA NextTrial == TypeInv /\ TrialInv /\ [MNext]_mvars => TrialInv'
<1> SUFFICES ASSUME TypeInv, TrialInv, [MNext]_mvars PROVE TrialInv'
  OBVIOUS
<1> USE PaymentConstants DEF TypeInv, MTypeOK, TrialInv, Ticks
<1>1. CASE Subscribe
  <2>1. /\ plan' = [made |-> time, days |-> DaysLeft, shown |-> TrialEnds]
        /\ given = Never /\ UNCHANGED <<time, given>>
    BY <1>1 DEF Subscribe
  <2>2. plan'.made + plan'.days * DayTicks >= plan'.shown
    BY <2>1, DaysReach
  <2> QED BY <2>1, <2>2
<1>2. CASE Charge
  <2>1. /\ plan # Never /\ time >= plan.made + plan.days * DayTicks
        /\ UNCHANGED <<time, plan>>
    BY <1>2 DEF Charge
  <2>2. /\ plan.made \in Nat /\ plan.days * DayTicks \in Nat /\ plan.shown \in Nat
        /\ time \in Nat
    BY <2>1
  <2> QED BY <2>1, <2>2
<1>3. CASE Later
  <2>1. UNCHANGED <<plan, given>> /\ time' = time + 1 /\ time \in Nat
    BY <1>3 DEF Later
  <2>2. plan # Never => plan.shown \in Nat
    OBVIOUS
  <2> QED BY <2>1, <2>2
<1>4. CASE GiveBack
  <2>1. UNCHANGED <<plan, time>> /\ given # Never
    BY <1>4 DEF GiveBack
  <2> QED BY <2>1
<1>5. CASE Override \/ Membership \/ RecordPayment
  BY <1>5 DEF Override, Membership, RecordPayment
<1>6. ASSUME NEW w \in Clerk, RefundFind(w) \/ RefundRead(w) \/ RefundSave(w)
      PROVE TrialInv'
  BY <1>6 DEF RefundFind, RefundRead, RefundSave
<1>7. CASE UNCHANGED mvars
  BY <1>7 DEF mvars
<1> QED BY <1>1, <1>2, <1>3, <1>4, <1>5, <1>6, <1>7 DEF MNext

\* start_checkout: no shop is charged before the end of the trial it was shown.
THEOREM NeverChargedInTrialHolds == MSpec => []NeverChargedInTrial
<1>1. MInit => TrialInv
  BY DEF MInit, TrialInv
<1>2. TrialInv => NeverChargedInTrial
  BY DEF TrialInv, NeverChargedInTrial
<1> QED BY <1>1, <1>2, NextTrial, AlwaysTypes, PTL DEF MSpec

-----------------------------------------------------------------------------
(* The grace period                                                        *)

\* The inductive invariant: past_due_since is the first word of it.
GraceInv ==
  /\ status = "past_due" => since = due /\ since # Never
  /\ status # "past_due" => since = Never

\* Every step preserves GraceInv: only a membership writes the three.
LEMMA NextGrace == TypeInv /\ GraceInv /\ [MNext]_mvars => GraceInv'
<1> SUFFICES ASSUME TypeInv, GraceInv, [MNext]_mvars PROVE GraceInv'
  OBVIOUS
<1>1. CASE Membership
  BY <1>1, PaymentConstants DEF Membership, PastDueSince, GraceInv, TypeInv, MTypeOK, Ticks
<1>2. CASE Override \/ Subscribe \/ Charge \/ GiveBack \/ RecordPayment \/ Later
  BY <1>2 DEF Override, Subscribe, Charge, GiveBack, RecordPayment, Later, GraceInv
<1>3. ASSUME NEW w \in Clerk, RefundFind(w) \/ RefundRead(w) \/ RefundSave(w)
      PROVE GraceInv'
  BY <1>3 DEF RefundFind, RefundRead, RefundSave, GraceInv
<1>4. CASE UNCHANGED mvars
  BY <1>4 DEF mvars, GraceInv
<1> QED BY <1>1, <1>2, <1>3, <1>4 DEF MNext

\* apply_membership, has_access: access while a payment is due ends a grace
\* period after the first word of it.
THEOREM GraceFromFirstWordHolds == MSpec => []GraceFromFirstWord
<1>1. MInit => GraceInv
  BY DEF MInit, GraceInv
<1>2. GraceInv => GraceFromFirstWord
  BY DEF GraceInv, GraceFromFirstWord, HasAccess
<1> QED BY <1>1, <1>2, NextGrace, AlwaysTypes, PTL DEF MSpec

-----------------------------------------------------------------------------
(* The refunds                                                             *)

\* The inductive invariant: no letter, no thread and no row knows of more than
\* Whop has given back.
RefundInv ==
  /\ \A letter \in mail : letter.given <= given
  /\ \A w \in Clerk : desk[w].at = "save" => desk[w].got <= given
  /\ refunded # Never => refunded <= given

\* Every step preserves RefundInv.
LEMMA NextRefund == TypeInv /\ RefundInv /\ [MNext]_mvars => RefundInv'
<1> SUFFICES ASSUME TypeInv, RefundInv, [MNext]_mvars PROVE RefundInv'
  OBVIOUS
<1> USE PaymentConstants DEF TypeInv, MTypeOK, OnlyPaid, RefundInv, Sums, Letter
<1>1. CASE Charge
  BY <1>1 DEF Charge
<1>2. CASE GiveBack
  <2>1. /\ given \in Nat /\ given' \in Nat /\ given' > given
        /\ mail' = mail \cup {Refund} /\ UNCHANGED <<desk, refunded>>
    BY <1>2 DEF GiveBack
  <2>2. \A letter \in mail' : letter.given <= given'
    BY <2>1 DEF Refund
  <2>3. \A w \in Clerk : desk[w].got \in Nat
    BY DEF Desk
  <2>4. refunded # Never => refunded \in Nat
    OBVIOUS
  <2> QED BY <2>1, <2>2, <2>3, <2>4
<1>3. CASE RecordPayment
  BY <1>3 DEF RecordPayment, Deliver
<1>4. CASE Override \/ Subscribe \/ Membership \/ Later
  BY <1>4 DEF Override, Subscribe, Membership, Later
<1>5. ASSUME NEW w \in Clerk, RefundFind(w) PROVE RefundInv'
  BY <1>5 DEF RefundFind, Deliver
<1>6. ASSUME NEW w \in Clerk, RefundRead(w) PROVE RefundInv'
  <2>1. given \in Nat /\ desk[w] \in Desk /\ UNCHANGED <<given, refunded, mail>>
    BY <1>6 DEF RefundRead
  <2>2. CASE desk' = [desk EXCEPT ![w] = Free]
    BY <2>1, <2>2 DEF Free
  <2>3. CASE desk' = [desk EXCEPT ![w] = [at |-> "save", saw |-> @.saw, got |-> given]]
    BY <2>1, <2>3 DEF Desk
  <2> QED BY <1>6, <2>2, <2>3 DEF RefundRead
<1>7. ASSUME NEW w \in Clerk, RefundSave(w) PROVE RefundInv'
  BY <1>7 DEF RefundSave, Free
<1>8. CASE UNCHANGED mvars
  BY <1>8 DEF mvars
<1> QED BY <1>1, <1>2, <1>3, <1>4, <1>5, <1>6, <1>7, <1>8 DEF MNext

\* record_payment, record_refund: the row never says that more was given back
\* than Whop gave.
THEOREM RefundNeverAheadHolds == MSpec => []RefundNeverAhead
<1>1. MInit => RefundInv
  BY DEF MInit, RefundInv, Free
<1>2. TypeInv /\ RefundInv => RefundNeverAhead
  BY DEF TypeInv, OnlyPaid, RefundInv, RefundNeverAhead
<1> QED BY <1>1, <1>2, NextRefund, AlwaysTypes, PTL DEF MSpec
-----------------------------------------------------------------------------
(* Threads that are counted: a set of them gains or loses one at a step    *)

\* One thread comes into a set of threads, or leaves it, or neither.
LEMMA OneMoves ==
  ASSUME NEW D, IsFiniteSet(D), NEW S \in SUBSET D, NEW T \in SUBSET D, NEW w,
         S \ {w} = T \ {w}
  PROVE  /\ Cardinality(S) \in Nat /\ Cardinality(T) \in Nat /\ Cardinality(D) \in Nat
         /\ Cardinality(S) <= Cardinality(D) /\ Cardinality(T) <= Cardinality(D)
         /\ (w \in S <=> w \in T) => Cardinality(T) = Cardinality(S)
         /\ w \in S /\ w \notin T => Cardinality(T) = Cardinality(S) - 1
         /\ w \notin S /\ w \in T => Cardinality(T) = Cardinality(S) + 1
<1>1. IsFiniteSet(S) /\ IsFiniteSet(T)
  BY FS_Subset
<1>2. /\ Cardinality(S) \in Nat /\ Cardinality(T) \in Nat /\ Cardinality(D) \in Nat
      /\ Cardinality(S) <= Cardinality(D) /\ Cardinality(T) <= Cardinality(D)
  BY <1>1, FS_Subset, FS_CardinalityType
<1>3. CASE w \in S <=> w \in T
  <2>1. S = T
    BY <1>3
  <2> QED
    BY <1>2, <1>3, <2>1
<1>4. CASE w \in S /\ w \notin T
  <2>1. T = S \ {w}
    BY <1>4
  <2>2. Cardinality(T) = Cardinality(S) - 1
    BY <1>1, <1>4, <2>1, FS_RemoveElement
  <2> QED
    BY <1>2, <1>4, <2>2
<1>5. CASE w \notin S /\ w \in T
  <2>1. T = S \cup {w}
    BY <1>5
  <2>2. Cardinality(T) = Cardinality(S) + 1
    BY <1>1, <1>5, <2>1, FS_AddElement
  <2> QED
    BY <1>2, <1>5, <2>2
<1> QED
  BY <1>3, <1>4, <1>5

\* Two sets of threads that have none in common.
LEMMA Apart ==
  ASSUME NEW D, IsFiniteSet(D), NEW S \in SUBSET D, NEW T \in SUBSET D, S \cap T = {}
  PROVE  Cardinality(S) + Cardinality(T) <= Cardinality(D)
<1>1. IsFiniteSet(S) /\ IsFiniteSet(T) /\ S \cup T \in SUBSET D
  BY FS_Subset
<1>2. Cardinality(S \cup T) <= Cardinality(D)
  BY <1>1, FS_Subset
<1>3. Cardinality(S \cup T) = Cardinality(S) + Cardinality(T) - Cardinality(S \cap T)
  BY <1>1, FS_Union
<1>4. Cardinality(S \cap T) = 0
  BY FS_EmptySet
<1>5. Cardinality(S) \in Nat /\ Cardinality(T) \in Nat
  BY <1>1, FS_CardinalityType
<1> QED
  BY <1>2, <1>3, <1>4, <1>5

-----------------------------------------------------------------------------
(* The shop's profile: geocoding                                           *)

\* A thread that asks for a place, or has got one, has an address.
Named ==
  \A w \in Server : work[w].at \in {"lookup", "meter", "call", "store"} => work[w].key # NoKey

\* The types of ShopProfile are kept.
LEMMA ProfileTypesStep == PTypeOK /\ Named /\ [PNext]_pvars => PTypeOK' /\ Named'
<1> SUFFICES ASSUME PTypeOK, Named, [PNext]_pvars PROVE PTypeOK' /\ Named'
  OBVIOUS
<1> USE ProfileConstants DEF PTypeOK, Named, Work, Turn, Rest, Geocode, Resting
<1>0. \A s \in Spelling : KeyOf[s] \in Address \cup {NoKey}
  BY DEF Address
<1>1. ASSUME NEW w \in Server, Ask(w) PROVE PTypeOK' /\ Named'
  <2>1. PICK by \in {"page", "api", "signup", "delivery"}, wish \in Wish, s \in Spelling :
          /\ by \in {"page", "api"} \/ wish = "keep"
          /\ by = "api" \/ KeyOf[s] # NoKey
          /\ work' = [work EXCEPT ![w] =
               [at |-> IF by \in {"page", "api"} THEN "settings" ELSE "lookup",
                by |-> by, secret |-> secret, wish |-> wish, key |-> KeyOf[s]]]
    BY <1>1 DEF Ask
  <2>2. [at |-> IF by \in {"page", "api"} THEN "settings" ELSE "lookup",
         by |-> by, secret |-> secret, wish |-> wish, key |-> KeyOf[s]] \in Work
    BY <1>0
  <2>3. PTypeOK'
    <3>1. work' \in [Server -> Work]
      <4> HIDE DEF Work
      <4> QED
        BY <2>1, <2>2
    <3> QED
      BY <1>1, <3>1 DEF Ask
  <2> QED
    BY <2>1, <2>3
<1>2. ASSUME NEW w \in Server, SavePage(w) PROVE PTypeOK' /\ Named'
  BY <1>2 DEF SavePage, Wish
<1>3. ASSUME NEW w \in Server, SaveApi(w) PROVE PTypeOK' /\ Named'
  BY <1>3 DEF SaveApi, Wish
<1>4. ASSUME NEW w \in Server, Lookup(w) PROVE PTypeOK' /\ Named'
  BY <1>4 DEF Lookup
<1>5. ASSUME NEW w \in Server, Meter(w) PROVE PTypeOK' /\ Named'
  BY <1>5 DEF Meter
<1>6. ASSUME NEW w \in Server, Call(w) PROVE PTypeOK' /\ Named'
  <2>1. paid' \in [Address -> Nat] /\ calls' \in Nat
    <3>1. work[w].key \in Address
      BY <1>6 DEF Call
    <3> QED
      BY <1>6, <3>1 DEF Call
  <2>2. CASE Turn(w, "store")
    <3>1. work' \in [Server -> Work] /\ Named'
      BY <1>6, <2>2 DEF Call
    <3> QED
      BY <1>6, <2>1, <3>1 DEF Call
  <2>3. CASE Rest(w)
    <3>1. work' \in [Server -> Work] /\ Named'
      BY <2>3 DEF Wish
    <3> QED
      BY <1>6, <2>1, <3>1 DEF Call
  <2> QED
    BY <1>6, <2>2, <2>3 DEF Call
<1>7. ASSUME NEW w \in Server, Store(w) PROVE PTypeOK' /\ Named'
  BY <1>7 DEF Store
<1>8. ASSUME NEW w \in Server, SaveOrigin(w) PROVE PTypeOK' /\ Named'
  BY <1>8 DEF SaveOrigin, Wish
<1>9. ASSUME NEW w \in Server, Kill(w) PROVE PTypeOK' /\ Named'
  BY <1>9 DEF Kill, Wish
<1>10. CASE Purge
  <2>1. purged' \in [Address -> Nat] /\ cache' \subseteq Address
    BY <1>10 DEF Purge
  <2> QED
    BY <1>10, <2>1 DEF Purge
<1>11. CASE UNCHANGED pvars
  BY <1>11 DEF pvars
<1> QED
  BY <1>1, <1>2, <1>3, <1>4, <1>5, <1>6, <1>7, <1>8, <1>9, <1>10, <1>11 DEF PNext

LEMMA ProfileTypesInit == PInit => PTypeOK /\ Named
  BY DEF PInit, PTypeOK, Named, Work, Wish, Resting

LEMMA ProfileTyped == PSpec => [](PTypeOK /\ Named)
  BY ProfileTypesInit, ProfileTypesStep, PTL DEF PSpec

\* The types of the shop's profile, the cache and the meter.
THEOREM ProfileTypes == PSpec => []PTypeOK
  BY ProfileTyped, PTL

\* Threads that hold an answer for the address, and those that are to get one.
Holding(a) == {w \in Server : work[w].at = "store" /\ work[w].key = a}
Buying(a)  == {w \in Server : work[w].at \in {"meter", "call"} /\ work[w].key = a}
AtCall     == {w \in Server : work[w].at = "call"}

\* What the threads may have paid for an address until it was last deleted.
Before == [a \in Address |-> Cardinality(Server) * purged[a]]

\* Since then: until an answer is in the cache, each one paid for is held by a
\* thread or was lost with one; once it is there no thread sets out to buy
\* another, until the purge deletes it.  A call that is counted is made, about
\* to be, or lost.
PaidInv ==
  /\ \A a \in Address :
       /\ a \notin cache => paid[a] <= Before[a] + Cardinality(Holding(a)) + killed
       /\ a \in cache =>
            paid[a] + Cardinality(Buying(a)) <= Before[a] + Cardinality(Server) + killed
  /\ calls + Cardinality(AtCall) <= usage
  /\ usage <= calls + Cardinality(AtCall) + killed

LEMMA BeforeNat ==
  ASSUME PTypeOK
  PROVE  Cardinality(Server) \in Nat /\ Before \in [Address -> Nat]
<1>1. Cardinality(Server) \in Nat
  BY ProfileConstants, FS_CardinalityType
<1>2. ASSUME NEW a \in Address PROVE Cardinality(Server) * purged[a] \in Nat
  BY <1>1 DEF PTypeOK
<1> QED
  BY <1>1, <1>2 DEF Before

\* Every step preserves PaidInv.
LEMMA PaidStep == PTypeOK /\ Named /\ PaidInv /\ [PNext]_pvars => PaidInv'
<1> SUFFICES ASSUME PTypeOK, Named, PaidInv, [PNext]_pvars PROVE PaidInv'
  OBVIOUS
<1>0. /\ IsFiniteSet(Server) /\ work \in [Server -> Work] /\ paid \in [Address -> Nat]
      /\ calls \in Nat /\ usage \in Nat /\ killed \in Nat
  BY ProfileConstants DEF PTypeOK
<1>00. Cardinality(Server) \in Nat /\ Before \in [Address -> Nat]
  BY <1>0, BeforeNat
<1>1. ASSUME NEW w \in Server,
             \/ Ask(w) \/ SavePage(w) \/ SaveApi(w) \/ Lookup(w) \/ Meter(w) \/ Call(w)
             \/ Store(w) \/ SaveOrigin(w) \/ Kill(w)
      PROVE  PaidInv'
  <2> USE DEF Turn, Rest, Geocode, Resting
  <2>1. \A v \in Server \ {w} : work'[v] = work[v]
    BY <1>0, <1>1 DEF Ask, SavePage, SaveApi, Lookup, Meter, Call, Store, SaveOrigin, Kill
  <2>2. /\ Call(w) \/ Kill(w) \/ w \notin AtCall
        /\ w \in AtCall' <=> Meter(w)
        /\ Call(w) => w \in AtCall
        /\ Meter(w) => w \notin AtCall
    BY <1>0, <1>1 DEF AtCall, Ask, SavePage, SaveApi, Lookup, Meter, Call, Store, SaveOrigin,
       Kill, Work
  <2>3. /\ usage' = IF Meter(w) THEN usage + 1 ELSE usage
        /\ calls' = IF Call(w) THEN calls + 1 ELSE calls
        /\ killed' = IF Kill(w) THEN killed + 1 ELSE killed
    BY <1>0, <1>1 DEF Ask, SavePage, SaveApi, Lookup, Meter, Call, Store, SaveOrigin, Kill
  <2>33. Before' = Before
    BY <1>1 DEF Before, Ask, SavePage, SaveApi, Lookup, Meter, Call, Store, SaveOrigin, Kill
  <2>4. calls' + Cardinality(AtCall') <= usage' /\ usage' <= calls' + Cardinality(AtCall') + killed'
    <3>1. AtCall \ {w} = AtCall' \ {w} /\ AtCall \in SUBSET Server /\ AtCall' \in SUBSET Server
      BY <2>1 DEF AtCall
    <3>2. /\ Cardinality(AtCall) \in Nat /\ Cardinality(AtCall') \in Nat
          /\ (w \in AtCall <=> w \in AtCall') => Cardinality(AtCall') = Cardinality(AtCall)
          /\ w \in AtCall /\ w \notin AtCall' => Cardinality(AtCall') = Cardinality(AtCall) - 1
          /\ w \notin AtCall /\ w \in AtCall' => Cardinality(AtCall') = Cardinality(AtCall) + 1
      BY <1>0, <3>1, OneMoves
    <3>3. /\ calls + Cardinality(AtCall) <= usage
          /\ usage <= calls + Cardinality(AtCall) + killed
      BY DEF PaidInv
    <3>4. ~(Call(w) /\ Kill(w)) /\ ~(Call(w) /\ Meter(w)) /\ ~(Meter(w) /\ Kill(w))
      BY <1>0 DEF Call, Kill, Meter
    <3> QED
      BY <1>0, <2>2, <2>3, <3>2, <3>3, <3>4
  <2>5. ASSUME NEW a \in Address
        PROVE  /\ a \notin cache' => paid'[a] <= Before'[a] + Cardinality(Holding(a)') + killed'
               /\ a \in cache' => paid'[a] + Cardinality(Buying(a)')
                                   <= Before'[a] + Cardinality(Server) + killed'
    <3>0. Before'[a] = Before[a] /\ Before[a] \in Nat
      BY <1>00, <2>33
    <3> DEFINE H  == Holding(a)
               HH == {v \in Server : work'[v].at = "store" /\ work'[v].key = a}
               B  == Buying(a)
               BB == {v \in Server : work'[v].at \in {"meter", "call"} /\ work'[v].key = a}
    <3>1. Holding(a)' = HH /\ Buying(a)' = BB
      BY DEF Holding, Buying
    <3>2. /\ H \ {w} = HH \ {w} /\ B \ {w} = BB \ {w} /\ H \cap B = {}
          /\ H \in SUBSET Server /\ HH \in SUBSET Server
          /\ B \in SUBSET Server /\ BB \in SUBSET Server
      BY <2>1 DEF Holding, Buying
    <3>3. /\ w \in H <=> work[w].at = "store" /\ work[w].key = a
          /\ w \in HH <=> work'[w].at = "store" /\ work'[w].key = a
          /\ w \in B <=> work[w].at \in {"meter", "call"} /\ work[w].key = a
          /\ w \in BB <=> work'[w].at \in {"meter", "call"} /\ work'[w].key = a
      BY DEF Holding, Buying
    <3>4. /\ a \notin cache => paid[a] <= Before[a] + Cardinality(H) + killed
          /\ a \in cache => paid[a] + Cardinality(B) <= Before[a] + Cardinality(Server) + killed
      BY DEF PaidInv
    <3> HIDE DEF H, HH, B, BB
    <3>5. /\ Cardinality(H) \in Nat /\ Cardinality(HH) \in Nat
          /\ Cardinality(HH) <= Cardinality(Server)
          /\ (w \in H <=> w \in HH) => Cardinality(HH) = Cardinality(H)
          /\ w \in H /\ w \notin HH => Cardinality(HH) = Cardinality(H) - 1
          /\ w \notin H /\ w \in HH => Cardinality(HH) = Cardinality(H) + 1
      BY <1>0, <3>2, OneMoves
    <3>6. /\ Cardinality(B) \in Nat /\ Cardinality(BB) \in Nat /\ Cardinality(Server) \in Nat
          /\ (w \in B <=> w \in BB) => Cardinality(BB) = Cardinality(B)
          /\ w \in B /\ w \notin BB => Cardinality(BB) = Cardinality(B) - 1
          /\ w \notin B /\ w \in BB => Cardinality(BB) = Cardinality(B) + 1
      BY <1>0, <3>2, OneMoves
    <3>7. Cardinality(H) + Cardinality(B) <= Cardinality(Server)
      BY <1>0, <3>2, Apart
    <3>8. paid[a] \in Nat
      BY <1>0
    <3>9. CASE Call(w)
      <4>1. /\ cache' = cache /\ killed' = killed /\ work[w].at = "call"
            /\ \/ /\ paid' = [paid EXCEPT ![work[w].key] = @ + 1]
                  /\ work'[w].at = "store" /\ work'[w].key = work[w].key
               \/ paid' = paid /\ work'[w].at = "idle"
        BY <1>0, <3>9 DEF Call, Work
      <4>2. CASE work[w].key = a /\ paid'[a] = paid[a] + 1 /\ work'[w].at = "store" /\ work'[w].key = a
        <5>1. w \notin H /\ w \in HH /\ w \in B /\ w \notin BB
          BY <3>3, <4>1, <4>2
        <5> QED
          BY <1>0, <3>0, <3>1, <3>4, <3>5, <3>6, <3>8, <4>1, <4>2, <5>1
      <4>3. CASE work[w].key # a /\ work'[w].at = "store" /\ work'[w].key = work[w].key /\ paid'[a] = paid[a]
        <5>1. w \notin H /\ w \notin HH /\ w \notin B /\ w \notin BB
          BY <3>3, <4>3
        <5> QED
          BY <1>0, <3>0, <3>1, <3>4, <3>5, <3>6, <3>8, <4>1, <4>3, <5>1
      <4>4. CASE paid' = paid /\ work'[w].at = "idle"
        <5>1. w \notin H /\ w \notin HH /\ w \notin BB
          BY <3>3, <4>1, <4>4
        <5> QED
          BY <1>0, <3>0, <3>1, <3>4, <3>5, <3>6, <3>8, <4>1, <4>4, <5>1
      <4> QED
        BY <1>0, <4>1, <4>2, <4>3, <4>4
    <3>10. CASE Store(w)
      <4>1. /\ cache' = cache \cup {work[w].key} /\ killed' = killed /\ paid' = paid
            /\ work[w].at = "store" /\ work'[w].at = "origin"
        BY <1>0, <3>10 DEF Store, Work
      <4>2. w \notin HH /\ w \notin B /\ w \notin BB /\ (w \in H <=> work[w].key = a)
        BY <3>3, <4>1
      <4>3. CASE a \in cache
        BY <1>0, <3>0, <3>1, <3>4, <3>6, <3>8, <4>1, <4>2, <4>3
      <4>4. CASE a \notin cache /\ work[w].key = a
        BY <1>0, <3>0, <3>1, <3>4, <3>5, <3>6, <3>7, <3>8, <4>1, <4>2, <4>4
      <4>5. CASE a \notin cache /\ work[w].key # a
        BY <1>0, <3>0, <3>1, <3>4, <3>5, <3>8, <4>1, <4>2, <4>5
      <4> QED
        BY <4>3, <4>4, <4>5
    <3>11. CASE Kill(w)
      <4>1. /\ cache' = cache /\ killed' = killed + 1 /\ paid' = paid /\ work'[w].at = "idle"
        BY <1>0, <3>11 DEF Kill, Work
      <4>2. w \notin HH /\ w \notin BB
        BY <3>3, <4>1
      <4> QED
        BY <1>0, <3>0, <3>1, <3>4, <3>5, <3>6, <3>8, <4>1, <4>2
    <3>12. CASE Ask(w) \/ SavePage(w) \/ SaveApi(w) \/ Lookup(w) \/ Meter(w) \/ SaveOrigin(w)
      <4>1. cache' = cache /\ killed' = killed /\ paid' = paid
        BY <3>12 DEF Ask, SavePage, SaveApi, Lookup, Meter, SaveOrigin
      <4>2. work[w].at # "store" /\ work'[w].at # "store"
        BY <1>0, <3>12 DEF Ask, SavePage, SaveApi, Lookup, Meter, SaveOrigin, Work
      <4>3. w \notin H /\ w \notin HH
        BY <3>3, <4>2
      <4>4. a \in cache /\ w \in BB => w \in B
        BY <1>0, <3>12, <3>3 DEF Ask, SavePage, SaveApi, Lookup, Meter, SaveOrigin, Work
      <4> QED
        BY <1>0, <3>0, <3>1, <3>4, <3>5, <3>6, <3>8, <4>1, <4>3, <4>4
    <3> QED
      BY <1>1, <3>9, <3>10, <3>11, <3>12
  <2> QED
    BY <2>4, <2>5 DEF PaidInv
<1>2. CASE Purge
  <2>1. PICK b \in cache : /\ purged' = [purged EXCEPT ![b] = @ + 1] /\ cache' = cache \ {b}
    BY <1>2 DEF Purge
  <2>2. UNCHANGED <<usage, calls, paid, work, killed>>
    BY <1>2 DEF Purge
  <2>3. b \in Address
    BY <2>1 DEF PTypeOK
  <2>4. /\ Before'[b] = Before[b] + Cardinality(Server)
        /\ \A a \in Address \ {b} : Before'[a] = Before[a]
    <3>1. /\ purged'[b] = purged[b] + 1 /\ purged[b] \in Nat
          /\ \A a \in Address \ {b} : purged'[a] = purged[a]
      BY <2>1, <2>3 DEF PTypeOK
    <3>2. Cardinality(Server) * (purged[b] + 1) = Cardinality(Server) * purged[b] + Cardinality(Server)
      BY <1>00, <3>1
    <3> QED
      BY <2>3, <3>1, <3>2 DEF Before
  <2>5. /\ Cardinality(Holding(b)) \in Nat /\ Cardinality(Buying(b)) \in Nat
        /\ paid[b] \in Nat /\ Before[b] \in Nat
    <3>1. Holding(b) \in SUBSET Server /\ Buying(b) \in SUBSET Server
      BY DEF Holding, Buying
    <3> QED
      BY <1>0, <1>00, <2>3, <3>1, FS_Subset, FS_CardinalityType
  <2>6. paid[b] <= Before'[b] + Cardinality(Holding(b)) + killed
    <3>1. paid[b] + Cardinality(Buying(b)) <= Before[b] + Cardinality(Server) + killed
      BY <2>1, <2>3 DEF PaidInv
    <3> QED
      BY <1>0, <1>00, <2>4, <2>5, <3>1
  <2>7. UNCHANGED AtCall /\ \A a \in Address : UNCHANGED Holding(a) /\ UNCHANGED Buying(a)
    BY <2>2 DEF AtCall, Holding, Buying
  <2>8. ASSUME NEW a \in Address
        PROVE  /\ a \notin cache' => paid'[a] <= Before'[a] + Cardinality(Holding(a)') + killed'
               /\ a \in cache' => paid'[a] + Cardinality(Buying(a)')
                                   <= Before'[a] + Cardinality(Server) + killed'
    <3>1. CASE a = b
      BY <2>1, <2>2, <2>6, <2>7, <3>1
    <3>2. CASE a # b
      BY <2>1, <2>2, <2>4, <2>7, <3>2 DEF PaidInv
    <3> QED
      BY <3>1, <3>2
  <2>9. calls' + Cardinality(AtCall') <= usage' /\ usage' <= calls' + Cardinality(AtCall') + killed'
    BY <2>2, <2>7 DEF PaidInv
  <2> QED
    BY <2>8, <2>9 DEF PaidInv
<1>3. CASE UNCHANGED pvars
  BY <1>3 DEF pvars, PaidInv, Before, Holding, Buying, AtCall
<1> QED
  BY <1>1, <1>2, <1>3 DEF PNext

LEMMA PaidAtFirst == PInit => PaidInv
<1> SUFFICES ASSUME PInit PROVE PaidInv
  OBVIOUS
<1>1. AtCall = {}
  BY DEF PInit, AtCall, Resting
<1>2. cache = {} /\ \A a \in Address : paid[a] = 0
  BY DEF PInit
<1>3. \A a \in Address : Holding(a) = {}
  BY DEF PInit, Holding, Resting
<1>4. usage = 0 /\ calls = 0 /\ killed = 0 /\ Cardinality({}) = 0
  BY FS_EmptySet DEF PInit
<1>5. \A a \in Address : Before[a] = 0
  <2>1. PTypeOK
    BY ProfileTypesInit
  <2>2. Cardinality(Server) \in Nat /\ \A a \in Address : purged[a] = 0
    BY <2>1, BeforeNat DEF PInit
  <2>3. Cardinality(Server) * 0 = 0
    BY <2>2
  <2> QED
    BY <2>2, <2>3 DEF Before
<1> QED
  BY <1>1, <1>2, <1>3, <1>4, <1>5 DEF PaidInv

\* CachingMapsProvider, MeteringMapsProvider: for any number of threads, any
\* addresses, any number of stopped instances and of purges, an address is paid
\* for once by each thread at most, as often again after each purge that deletes
\* it, and once more for each stop; and no call goes uncounted.
THEOREM GeocodingPaidOnceHolds == PSpec => []GeocodingPaidOnce
<1>1. PTypeOK /\ PaidInv => GeocodingPaidOnce
  <2> SUFFICES ASSUME PTypeOK, PaidInv PROVE GeocodingPaidOnce
    OBVIOUS
  <2>0. IsFiniteSet(Server) /\ calls \in Nat /\ usage \in Nat /\ killed \in Nat
    BY ProfileConstants DEF PTypeOK
  <2>1. ASSUME NEW S \in SUBSET Server
        PROVE  Cardinality(S) \in Nat /\ Cardinality(S) <= Cardinality(Server)
               /\ Cardinality(Server) \in Nat
    BY <2>0, FS_Subset, FS_CardinalityType
  <2>2. AtCall \in SUBSET Server
    BY DEF AtCall
  <2>3. calls <= usage /\ usage <= calls + Cardinality(Server) + killed
    BY <2>0, <2>1, <2>2 DEF PaidInv
  <2>4. ASSUME NEW a \in Address
        PROVE  paid[a] <= Cardinality(Server) * (1 + purged[a]) + killed
    <3>1. /\ Holding(a) \in SUBSET Server /\ Buying(a) \in SUBSET Server
          /\ paid[a] \in Nat /\ purged[a] \in Nat
      BY DEF Holding, Buying, PTypeOK
    <3>2. Cardinality(Server) \in Nat /\ Before[a] \in Nat
      BY BeforeNat
    <3>3. Cardinality(Server) * (1 + purged[a]) = Cardinality(Server) + Before[a]
      BY <3>1, <3>2 DEF Before
    <3>4. paid[a] <= Before[a] + Cardinality(Server) + killed
      BY <2>0, <2>1, <3>1, <3>2 DEF PaidInv
    <3> QED
      BY <2>0, <3>1, <3>2, <3>3, <3>4
  <2> QED
    BY <2>3, <2>4 DEF GeocodingPaidOnce
<1> QED
  BY <1>1, ProfileTyped, PaidAtFirst, PaidStep, PTL DEF PSpec
-----------------------------------------------------------------------------
(* Texts and their channels                                                *)

\* What a thread knows of its text has four fields, two of them numbers.
CallShape ==
  /\ DOMAIN call = Sender
  /\ \A w \in Sender :
       /\ call[w] = [at |-> call[w].at, rest |-> call[w].rest,
                     copies |-> call[w].copies, lost |-> call[w].lost]
       /\ call[w].copies \in Nat /\ call[w].lost \in Nat

\* A step in which one thread writes what it knows.
Written(w) ==
  /\ DOMAIN call' = Sender
  /\ \A v \in Sender \ {w} : call'[v] = call[v]
  /\ call'[w] = [at |-> call'[w].at, rest |-> call'[w].rest,
                 copies |-> call'[w].copies, lost |-> call'[w].lost]

\* What the steps of a thread write.
LEMMA TextWritten ==
  ASSUME CallShape, NEW w \in Sender, NEW rest,
         call' = [call EXCEPT ![w] = [NoText EXCEPT !.at = "try", !.rest = rest]]
  PROVE  Written(w) /\ call'[w].at = "try" /\ call'[w].copies = 0 /\ call'[w].lost = 0
  BY DEF CallShape, Written, NoText

LEMMA NextWritten ==
  ASSUME CallShape, NEW w \in Sender, NextChannel(w)
  PROVE  /\ Written(w) /\ call'[w].at = "try"
         /\ call'[w].copies = call[w].copies /\ call'[w].lost = call[w].lost
<1>1. /\ DOMAIN call = Sender
      /\ call[w] = [at |-> call[w].at, rest |-> call[w].rest,
                    copies |-> call[w].copies, lost |-> call[w].lost]
  BY DEF CallShape
<1>2. call' = [call EXCEPT ![w].at = "try", ![w].rest = Tail(call[w].rest)]
  BY DEF NextChannel
<1> QED
  BY <1>1, <1>2 DEF Written

LEMMA PostWritten ==
  ASSUME CallShape, NEW w \in Sender, call' = [call EXCEPT ![w].at = "post"]
  PROVE  /\ Written(w) /\ call'[w].at = "post"
         /\ call'[w].copies = call[w].copies /\ call'[w].lost = call[w].lost
  BY DEF CallShape, Written

LEMMA TakenWritten ==
  ASSUME CallShape, NEW w \in Sender,
         call' = [call EXCEPT ![w].at = "count", ![w].copies = @ + 1]
  PROVE  /\ Written(w) /\ call'[w].at = "count" /\ call'[w].rest = call[w].rest
         /\ call'[w].copies = call[w].copies + 1 /\ call'[w].lost = call[w].lost
  BY DEF CallShape, Written

LEMMA UnheardWritten ==
  ASSUME CallShape, NEW w \in Sender,
         call' = [call EXCEPT ![w].at = "try", ![w].rest = Tail(@),
                              ![w].copies = @ + 1, ![w].lost = @ + 1]
  PROVE  /\ Written(w) /\ call'[w].at = "try"
         /\ call'[w].copies = call[w].copies + 1 /\ call'[w].lost = call[w].lost + 1
  BY DEF CallShape, Written

LEMMA DoneWritten ==
  ASSUME CallShape, NEW w \in Sender, call' = [call EXCEPT ![w] = NoText]
  PROVE  Written(w) /\ call'[w].at = "idle" /\ call'[w].copies = 0 /\ call'[w].lost = 0
  BY DEF CallShape, Written, NoText

\* The threads that are about to count a channel, after a thread's step.
LEMMA CountingMoves ==
  ASSUME NEW w \in Sender, NEW c \in Channel, \A v \in Sender \ {w} : call'[v] = call[v]
  PROVE  /\ Cardinality(Counting(c)) \in Nat /\ Cardinality(Counting(c)') \in Nat
         /\ (w \in Counting(c) <=> w \in Counting(c)')
              => Cardinality(Counting(c)') = Cardinality(Counting(c))
         /\ w \in Counting(c) /\ w \notin Counting(c)'
              => Cardinality(Counting(c)') = Cardinality(Counting(c)) - 1
         /\ w \notin Counting(c) /\ w \in Counting(c)'
              => Cardinality(Counting(c)') = Cardinality(Counting(c)) + 1
<1>1. /\ Counting(c) \in SUBSET Sender /\ Counting(c)' \in SUBSET Sender
      /\ Counting(c) \ {w} = Counting(c)' \ {w}
  BY DEF Counting
<1> QED
  BY <1>1, OneMoves, ChannelConstants

\* Both properties are inductive with the shape of what a thread knows.
ChannelInv == CTypeOK /\ CallShape /\ UsageTellsChannels /\ CopiesOnlyUnheard

\* A step that writes call[w], seen from the properties.
LEMMA ChannelWrite ==
  ASSUME ChannelInv, NEW w \in Sender, Written(w),
         call'[w].at \in {"idle", "try", "post", "count"},
         call'[w].copies \in Nat, call'[w].lost \in Nat,
         call'[w].copies = call'[w].lost + (IF call'[w].at = "count" THEN 1 ELSE 0),
         config' \in Settings, opted' \in BOOLEAN,
         taken' \in [Channel -> Nat], used' \in [Channel -> Nat],
         unheard' \in [Channel -> Nat], cut' \in [Channel -> Nat],
         \A c \in Channel :
           taken'[c] - used'[c] - unheard'[c] - cut'[c]
             = taken[c] - used[c] - unheard[c] - cut[c]
                 + (IF call'[w].at = "count" /\ Head(call'[w].rest) = c THEN 1 ELSE 0)
                 - (IF call[w].at = "count" /\ Head(call[w].rest) = c THEN 1 ELSE 0)
  PROVE  ChannelInv'
<1>0. \A v \in Sender \ {w} : call'[v] = call[v]
  BY DEF Written
<1>1. CallShape'
  BY DEF ChannelInv, CallShape, Written
<1>2. CopiesOnlyUnheard'
  BY <1>0 DEF ChannelInv, CopiesOnlyUnheard
<1>3. CTypeOK'
  BY <1>0 DEF ChannelInv, CTypeOK
<1>4. ASSUME NEW c \in Channel
      PROVE  taken'[c] = used'[c] + unheard'[c] + cut'[c] + Cardinality(Counting(c)')
  <2> DEFINE n == Cardinality(Counting(c))
             m == Cardinality(Counting(c)')
             gone == IF w \in Counting(c) THEN 1 ELSE 0
             come == IF w \in Counting(c)' THEN 1 ELSE 0
  <2>1. taken[c] = used[c] + unheard[c] + cut[c] + n
    BY DEF ChannelInv, UsageTellsChannels
  <2>2. /\ taken[c] \in Nat /\ used[c] \in Nat /\ unheard[c] \in Nat /\ cut[c] \in Nat
        /\ taken'[c] \in Nat /\ used'[c] \in Nat /\ unheard'[c] \in Nat /\ cut'[c] \in Nat
    BY DEF ChannelInv, CTypeOK
  <2>3. /\ w \in Counting(c) <=> call[w].at = "count" /\ Head(call[w].rest) = c
        /\ w \in Counting(c)' <=> call'[w].at = "count" /\ Head(call'[w].rest) = c
    BY DEF Counting
  <2>4. taken'[c] - used'[c] - unheard'[c] - cut'[c]
          = taken[c] - used[c] - unheard[c] - cut[c] + come - gone
    BY <2>3
  <2>5. n \in Nat /\ m \in Nat /\ m = n + come - gone
    BY <1>0, CountingMoves
  <2>6. come \in Int /\ gone \in Int
    OBVIOUS
  <2> HIDE DEF n, m, come, gone
  <2>7. taken'[c] = used'[c] + unheard'[c] + cut'[c] + m
    BY <2>1, <2>2, <2>4, <2>5, <2>6
  <2> QED
    BY <2>7 DEF m
<1>5. UsageTellsChannels'
  BY <1>4 DEF UsageTellsChannels
<1> QED
  BY <1>1, <1>2, <1>3, <1>5 DEF ChannelInv

LEMMA ChannelStep == ChannelInv /\ [CNext]_cvars => ChannelInv'
<1> SUFFICES ASSUME ChannelInv, [CNext]_cvars PROVE ChannelInv'
  OBVIOUS
<1>0. /\ config \in Settings /\ opted \in BOOLEAN /\ CallShape
      /\ taken \in [Channel -> Nat] /\ used \in [Channel -> Nat]
      /\ unheard \in [Channel -> Nat] /\ cut \in [Channel -> Nat]
  BY DEF ChannelInv, CTypeOK
<1>c. ASSUME NEW w \in Sender
      PROVE  /\ call[w].copies \in Nat /\ call[w].lost \in Nat
             /\ call[w].at \in {"idle", "try", "post", "count"}
             /\ call[w].copies = call[w].lost + (IF call[w].at = "count" THEN 1 ELSE 0)
  BY DEF ChannelInv, CTypeOK, CallShape, CopiesOnlyUnheard
<1>n. \A c \in Channel : taken[c] \in Nat /\ used[c] \in Nat /\ unheard[c] \in Nat /\ cut[c] \in Nat
  BY <1>0
<1> DEFINE Same == UNCHANGED <<config, opted, taken, used, unheard, cut>>
\* a step that takes, counts and loses no text
<1>s. ASSUME NEW w \in Sender, Same, Written(w), call[w].at # "count",
             call'[w].at \in {"idle", "try", "post"}, call'[w].copies \in Nat,
             call'[w].copies = call'[w].lost
      PROVE  ChannelInv'
  <2>1. \A c \in Channel : taken'[c] - used'[c] - unheard'[c] - cut'[c]
                             = taken[c] - used[c] - unheard[c] - cut[c] + 0 - 0
    BY <1>n, <1>s
  <2> QED
    BY <1>0, <1>s, <2>1, ChannelWrite
<1>1. ASSUME NEW w \in Sender, SendText(w) PROVE ChannelInv'
  <2>1. PICK rest :
          call' = [call EXCEPT ![w] = [NoText EXCEPT !.at = "try", !.rest = rest]]
    BY <1>1 DEF SendText
  <2>2. Written(w) /\ call'[w].at = "try" /\ call'[w].copies = 0 /\ call'[w].lost = 0
    BY <1>0, <2>1, TextWritten
  <2>3. Same /\ call[w].at = "idle"
    BY <1>1 DEF SendText
  <2> QED
    BY <1>s, <2>2, <2>3
<1>2. ASSUME NEW w \in Sender, NextChannel(w), Same, call[w].at # "count" PROVE ChannelInv'
  BY <1>0, <1>2, <1>c, <1>s, NextWritten
<1>3. ASSUME NEW w \in Sender, Try(w) PROVE ChannelInv'
  <2>1. Same /\ call[w].at = "try"
    BY <1>3 DEF Try
  <2>2. CASE call' = [call EXCEPT ![w].at = "post"]
    <3>1. /\ Written(w) /\ call'[w].at = "post"
          /\ call'[w].copies = call[w].copies /\ call'[w].lost = call[w].lost
      BY <1>0, <2>2, PostWritten
    <3> QED
      BY <1>c, <1>s, <2>1, <3>1
  <2>3. CASE call' = [call EXCEPT ![w] = NoText]
    <3>1. Written(w) /\ call'[w].at = "idle" /\ call'[w].copies = 0 /\ call'[w].lost = 0
      BY <1>0, <2>3, DoneWritten
    <3> QED
      BY <1>s, <2>1, <3>1
  <2> QED
    BY <1>2, <1>3, <2>1, <2>2, <2>3 DEF Try
<1>4. ASSUME NEW w \in Sender, Post(w) PROVE ChannelInv'
  <2> DEFINE h == Head(call[w].rest)
             post == [call EXCEPT ![w].at = "count", ![w].copies = @ + 1]
             again == [call EXCEPT ![w].at = "try", ![w].rest = Tail(@),
                                   ![w].copies = @ + 1, ![w].lost = @ + 1]
  <2>1. UNCHANGED <<config, opted, used, cut>> /\ call[w].at = "post"
    BY <1>4 DEF Post
  <2>2. CASE NextChannel(w) /\ UNCHANGED <<taken, unheard>>
    BY <1>2, <2>1, <2>2
  <2>3. CASE taken' = [taken EXCEPT ![h] = @ + 1] /\ call' = post /\ UNCHANGED unheard
    <3>1. /\ Written(w) /\ call'[w].at = "count" /\ Head(call'[w].rest) = h
          /\ call'[w].copies = call[w].copies + 1 /\ call'[w].lost = call[w].lost
      BY <1>0, <2>3, TakenWritten
    <3> HIDE DEF h, post
    <3>2. /\ taken' \in [Channel -> Nat]
          /\ \A c \in Channel : taken'[c] = IF h = c THEN taken[c] + 1 ELSE taken[c]
      <4>1. CASE h \in Channel
        BY <1>0, <2>3, <4>1
      <4>2. CASE h \notin Channel
        BY <1>0, <2>3, <4>2
      <4> QED
        BY <4>1, <4>2
    <3>3. \A c \in Channel : taken'[c] - used'[c] - unheard'[c] - cut'[c]
                               = taken[c] - used[c] - unheard[c] - cut[c]
                                   + (IF h = c THEN 1 ELSE 0) - 0
      BY <1>n, <2>1, <2>3, <3>2
    <3>4. /\ call'[w].copies \in Nat /\ call'[w].lost \in Nat
          /\ call'[w].copies = call'[w].lost + 1
      BY <1>c, <2>1, <3>1
    <3> QED
      BY <1>0, <2>1, <2>3, <3>1, <3>2, <3>3, <3>4, ChannelWrite
  <2>4. CASE /\ taken' = [taken EXCEPT ![h] = @ + 1] /\ call' = again
             /\ unheard' = [unheard EXCEPT ![h] = @ + 1]
    <3>1. /\ Written(w) /\ call'[w].at = "try"
          /\ call'[w].copies = call[w].copies + 1 /\ call'[w].lost = call[w].lost + 1
      BY <1>0, <2>4, UnheardWritten
    <3> HIDE DEF h, again
    <3>2. /\ taken' \in [Channel -> Nat]
          /\ \A c \in Channel : taken'[c] = IF h = c THEN taken[c] + 1 ELSE taken[c]
      <4>1. CASE h \in Channel
        BY <1>0, <2>4, <4>1
      <4>2. CASE h \notin Channel
        BY <1>0, <2>4, <4>2
      <4> QED
        BY <4>1, <4>2
    <3>3. /\ unheard' \in [Channel -> Nat]
          /\ \A c \in Channel : unheard'[c] = IF h = c THEN unheard[c] + 1 ELSE unheard[c]
      <4>1. CASE h \in Channel
        BY <1>0, <2>4, <4>1
      <4>2. CASE h \notin Channel
        BY <1>0, <2>4, <4>2
      <4> QED
        BY <4>1, <4>2
    <3>4. \A c \in Channel : taken'[c] - used'[c] - unheard'[c] - cut'[c]
                               = taken[c] - used[c] - unheard[c] - cut[c] + 0 - 0
      BY <1>n, <2>1, <3>2, <3>3
    <3>5. /\ call'[w].copies \in Nat /\ call'[w].lost \in Nat
          /\ call'[w].copies = call'[w].lost + 0
      BY <1>c, <2>1, <3>1
    <3> QED
      BY <1>0, <2>1, <3>1, <3>2, <3>3, <3>4, <3>5, ChannelWrite
  <2> QED
    BY <1>4, <2>2, <2>3, <2>4 DEF Post, Taken
<1>5. ASSUME NEW w \in Sender, CountText(w) PROVE ChannelInv'
  <2> DEFINE h == Head(call[w].rest)
  <2>1. /\ UNCHANGED <<config, opted, taken, unheard, cut>> /\ call[w].at = "count"
        /\ used' = [used EXCEPT ![h] = @ + 1]
    BY <1>5 DEF CountText
  <2>2. Written(w) /\ call'[w].at = "idle" /\ call'[w].copies = 0 /\ call'[w].lost = 0
    BY <1>0, <1>5, DoneWritten DEF CountText
  <2>3. Head(call[w].rest) = h
    OBVIOUS
  <2> HIDE DEF h
  <2>4. /\ used' \in [Channel -> Nat]
        /\ \A c \in Channel : used'[c] = IF h = c THEN used[c] + 1 ELSE used[c]
    <3>1. CASE h \in Channel
      BY <1>0, <2>1, <3>1
    <3>2. CASE h \notin Channel
      BY <1>0, <2>1, <3>2
    <3> QED
      BY <3>1, <3>2
  <2>5. \A c \in Channel : taken'[c] - used'[c] - unheard'[c] - cut'[c]
                             = taken[c] - used[c] - unheard[c] - cut[c]
                                 + 0 - (IF h = c THEN 1 ELSE 0)
    BY <1>n, <2>1, <2>4
  <2>6. 0 \in Nat /\ call'[w].copies = call'[w].lost + 0
    BY <2>2
  <2> QED
    BY <1>0, <2>1, <2>2, <2>3, <2>4, <2>5, <2>6, ChannelWrite
<1>6. ASSUME NEW w \in Sender, Cut(w) PROVE ChannelInv'
  <2> DEFINE h == Head(call[w].rest)
  <2>1. /\ UNCHANGED <<config, opted, taken, used, unheard>>
        /\ cut' = IF call[w].at = "count" THEN [cut EXCEPT ![h] = @ + 1] ELSE cut
    BY <1>6 DEF Cut
  <2>2. Written(w) /\ call'[w].at = "idle" /\ call'[w].copies = 0 /\ call'[w].lost = 0
    BY <1>0, <1>6, DoneWritten DEF Cut
  <2>3. CASE call[w].at # "count"
    BY <1>s, <2>1, <2>2, <2>3
  <2>4. CASE call[w].at = "count"
    <3>1. Head(call[w].rest) = h
      OBVIOUS
    <3> HIDE DEF h
    <3>2. /\ cut' \in [Channel -> Nat]
          /\ \A c \in Channel : cut'[c] = IF h = c THEN cut[c] + 1 ELSE cut[c]
      <4>1. CASE h \in Channel
        BY <1>0, <2>1, <2>4, <4>1
      <4>2. CASE h \notin Channel
        BY <1>0, <2>1, <2>4, <4>2
      <4> QED
        BY <4>1, <4>2
    <3>3. \A c \in Channel : taken'[c] - used'[c] - unheard'[c] - cut'[c]
                               = taken[c] - used[c] - unheard[c] - cut[c]
                                   + 0 - (IF h = c THEN 1 ELSE 0)
      BY <1>n, <2>1, <3>2
    <3>4. 0 \in Nat /\ call'[w].copies = call'[w].lost + 0
      BY <2>2
    <3> QED
      BY <1>0, <2>1, <2>2, <2>4, <3>1, <3>2, <3>3, <3>4, ChannelWrite
  <2> QED
    BY <2>3, <2>4
<1>7. CASE ShareCard \/ UNCHANGED cvars
  <2>1. UNCHANGED <<config, call, taken, used, unheard, cut>> /\ opted' \in BOOLEAN
    BY <1>0, <1>7 DEF ShareCard, cvars
  <2> QED
    BY <2>1 DEF ChannelInv, CTypeOK, CallShape, UsageTellsChannels, CopiesOnlyUnheard, Counting
<1> QED
  BY <1>1, <1>3, <1>4, <1>5, <1>6, <1>7 DEF CNext

LEMMA ChannelInit == CInit => ChannelInv
<1> SUFFICES ASSUME CInit PROVE ChannelInv
  OBVIOUS
<1>1. /\ config \in Settings /\ opted \in BOOLEAN /\ DOMAIN call = Sender
      /\ \A w \in Sender : call[w] = [at |-> "idle", rest |-> <<>>, copies |-> 0, lost |-> 0]
      /\ taken \in [Channel -> Nat] /\ used \in [Channel -> Nat]
      /\ unheard \in [Channel -> Nat] /\ cut \in [Channel -> Nat]
  BY DEF CInit, NoText, None4
<1>4. CallShape /\ CopiesOnlyUnheard /\ CTypeOK
  BY <1>1 DEF CallShape, CopiesOnlyUnheard, CTypeOK
<1>2. \A c \in Channel : Counting(c) = {}
  BY DEF CInit, NoText, Counting
<1>3. UsageTellsChannels
  BY <1>2, FS_EmptySet DEF CInit, None4, UsageTellsChannels
<1> QED
  BY <1>3, <1>4 DEF ChannelInv

LEMMA ChannelAlways == CSpec => []ChannelInv
  BY ChannelInit, ChannelStep, PTL DEF CSpec

\* MeteringMessagingProvider counts the channel a message has really gone by:
\* for any number of threads, whatever the providers answer and wherever an
\* instance is stopped.
THEOREM UsageTellsChannelsHolds == CSpec => []UsageTellsChannels
  BY ChannelAlways, PTL DEF ChannelInv

\* ChainedMessagingProvider: the number gets another copy of a text only after
\* an answer was lost, for any chain of any settings.
THEOREM CopiesOnlyUnheardHolds == CSpec => []CopiesOnlyUnheard
  BY ChannelAlways, PTL DEF ChannelInv
-----------------------------------------------------------------------------
(* Rate limits                                                             *)

\* The types of RateLimits are kept.
LEMMA LimitTypesStep == LTypeOK /\ [LNext]_lvars => LTypeOK'
<1> SUFFICES ASSUME LTypeOK, [LNext]_lvars PROVE LTypeOK'
  OBVIOUS
<1> USE LimitConstants DEF LTypeOK, Lines, Window, Jump, ReadClock, LetThrough
<1>1. ASSUME NEW r \in Request, Arrive(r) PROVE LTypeOK'
  BY <1>1 DEF Arrive
<1>2. ASSUME NEW r \in Request, Look(r) PROVE LTypeOK'
  BY <1>2 DEF Look
<1>3. ASSUME NEW r \in Request, Act(r) PROVE LTypeOK'
  <2>1. CASE LetThrough(r) /\ ReadClock(r) /\ Jump(r, "count")
    <3>1. at[r] \in Window /\ let[at[r]] + 1 \in Nat
      OBVIOUS
    <3>2. let' \in [Window -> Nat]
      BY <2>1, <3>1
    <3> QED
      BY <1>3, <2>1, <3>2 DEF Act
  <2>2. CASE Jump(r, "idle") /\ UNCHANGED <<at, let>>
    BY <1>3, <2>2 DEF Act
  <2> QED
    BY <1>3, <2>1, <2>2 DEF Act
<1>4. ASSUME NEW r \in Request, Count(r) PROVE LTypeOK'
  <2>1. count' \in [Window -> Nat]
    <3>1. CASE count' = [count EXCEPT ![at[r]] = 1]
      BY <3>1
    <3>2. CASE count' = count
      BY <3>2
    <3> QED
      BY <1>4, <3>1, <3>2 DEF Count
  <2>2. line' \in [Request -> Lines]
    BY <1>4 DEF Count
  <2> QED
    BY <1>4, <2>1, <2>2 DEF Count
<1>5. ASSUME NEW r \in Request, Add(r) PROVE LTypeOK'
  BY <1>5 DEF Add
<1>6. ASSUME NEW r \in Request, Sweep(r) PROVE LTypeOK'
  BY <1>6 DEF Sweep
<1>7. ASSUME NEW r \in Request, Refresh(r) PROVE LTypeOK'
  <2>1. let' \in [Window -> Nat]
    <3>1. at[r] \in Window /\ let[at[r]] + 1 \in Nat
      OBVIOUS
    <3> QED
      BY <1>7, <3>1 DEF Refresh
  <2>2. line' \in [Request -> Lines]
    BY <1>7 DEF Refresh
  <2> QED
    BY <1>7, <2>1, <2>2 DEF Refresh
<1>8. CASE NextWindow
  BY <1>8 DEF NextWindow
<1>9. CASE UNCHANGED lvars
  BY <1>9 DEF lvars
<1> QED
  BY <1>1, <1>2, <1>3, <1>4, <1>5, <1>6, <1>7, <1>8, <1>9 DEF LNext

LEMMA LimitTypesInit == LInit => LTypeOK
  BY LimitConstants DEF LInit, LTypeOK, Lines, Window

\* The types of the counter, the clock and the threads.
THEOREM LimitTypes == LSpec => []LTypeOK
  BY LimitTypesInit, LimitTypesStep, PTL DEF LSpec

\* How many threads are at one of the lines with a window.
Placed == [k \in Window |-> [lines \in SUBSET Lines |->
             Cardinality({r \in Request : line[r] \in lines /\ at[r] = k})]]

\* 1 for a thread that is at one of the lines with the window.
Here(l, a, lines, k) == IF l \in lines /\ a = k THEN 1 ELSE 0

\* One thread's step changes each of these numbers by its own place.
LEMMA PlacedMoves ==
  ASSUME NEW r \in Request, NEW k \in Window, NEW lines \in SUBSET Lines,
         \A q \in Request \ {r} : line'[q] = line[q] /\ at'[q] = at[q]
  PROVE  /\ Placed[k][lines] \in Nat /\ Placed'[k][lines] \in Nat
         /\ Placed'[k][lines] = Placed[k][lines] + Here(line'[r], at'[r], lines, k)
                                                - Here(line[r], at[r], lines, k)
<1> DEFINE S == {q \in Request : line[q] \in lines /\ at[q] = k}
           T == {q \in Request : line'[q] \in lines /\ at'[q] = k}
<1>1. S \in SUBSET Request /\ T \in SUBSET Request /\ S \ {r} = T \ {r}
  OBVIOUS
<1>2. /\ r \in S <=> line[r] \in lines /\ at[r] = k
      /\ r \in T <=> line'[r] \in lines /\ at'[r] = k
  OBVIOUS
<1>3. Placed[k][lines] = Cardinality(S) /\ Placed'[k][lines] = Cardinality(T)
  BY DEF Placed
<1> HIDE DEF S, T
<1>4. /\ Cardinality(S) \in Nat /\ Cardinality(T) \in Nat
      /\ (r \in S <=> r \in T) => Cardinality(T) = Cardinality(S)
      /\ r \in S /\ r \notin T => Cardinality(T) = Cardinality(S) - 1
      /\ r \notin S /\ r \in T => Cardinality(T) = Cardinality(S) + 1
  BY <1>1, LimitConstants, OneMoves
<1> QED
  BY <1>2, <1>3, <1>4 DEF Here

\* The same for the lines that the invariants speak of.
Booking == {"count", "add"}
Judging == {"sweep", "refresh"}
Serving == {"count", "add", "sweep", "refresh"}

LEMMA NumbersMove ==
  ASSUME NEW r \in Request, NEW k \in Window,
         \A q \in Request \ {r} : line'[q] = line[q] /\ at'[q] = at[q]
  PROVE  /\ Placed'[k][{"look"}] = Placed[k][{"look"}]
              + Here(line'[r], at'[r], {"look"}, k) - Here(line[r], at[r], {"look"}, k)
         /\ Placed'[k][{"act"}] = Placed[k][{"act"}]
              + Here(line'[r], at'[r], {"act"}, k) - Here(line[r], at[r], {"act"}, k)
         /\ Placed'[k][Booking] = Placed[k][Booking]
              + Here(line'[r], at'[r], Booking, k) - Here(line[r], at[r], Booking, k)
         /\ Placed'[k][Judging] = Placed[k][Judging]
              + Here(line'[r], at'[r], Judging, k) - Here(line[r], at[r], Judging, k)
         /\ Placed'[k][Serving] = Placed[k][Serving]
              + Here(line'[r], at'[r], Serving, k) - Here(line[r], at[r], Serving, k)
<1>1. /\ {"look"} \in SUBSET Lines /\ {"act"} \in SUBSET Lines /\ Booking \in SUBSET Lines
      /\ Judging \in SUBSET Lines /\ Serving \in SUBSET Lines
  BY DEF Lines, Booking, Judging, Serving
<1> QED
  BY <1>1, PlacedMoves

\* The numbers, and what they cannot exceed.
LEMMA NumbersFit ==
  ASSUME NEW k \in Window
  PROVE  /\ Placed[k][{"look"}] \in Nat /\ Placed[k][{"act"}] \in Nat
         /\ Placed[k][Booking] \in Nat /\ Placed[k][Judging] \in Nat
         /\ Placed[k][Serving] \in Nat /\ Others \in Nat
         /\ Placed[k][Booking] + Placed[k][{"act"}] + Placed[k][{"look"}] <= Others + 1
         /\ Placed[k][{"look"}] = Others + 1 <=> \A r \in Request : line[r] = "look" /\ at[r] = k
         /\ \A r \in Request : at[r] # k => Placed[k][Serving] <= Others
<1> DEFINE L == {r \in Request : line[r] \in {"look"} /\ at[r] = k}
           A == {r \in Request : line[r] \in {"act"} /\ at[r] = k}
           B == {r \in Request : line[r] \in Booking /\ at[r] = k}
           J == {r \in Request : line[r] \in Judging /\ at[r] = k}
           U == {r \in Request : line[r] \in Serving /\ at[r] = k}
<1>0. /\ {"look"} \in SUBSET Lines /\ {"act"} \in SUBSET Lines /\ Booking \in SUBSET Lines
      /\ Judging \in SUBSET Lines /\ Serving \in SUBSET Lines
  BY DEF Lines, Booking, Judging, Serving
<1>1. /\ Placed[k][{"look"}] = Cardinality(L) /\ Placed[k][{"act"}] = Cardinality(A)
      /\ Placed[k][Booking] = Cardinality(B) /\ Placed[k][Judging] = Cardinality(J)
      /\ Placed[k][Serving] = Cardinality(U)
  BY <1>0 DEF Placed
<1>2. /\ L \in SUBSET Request /\ A \in SUBSET Request /\ B \in SUBSET Request
      /\ J \in SUBSET Request /\ U \in SUBSET Request
      /\ A \cap L = {} /\ B \cap (A \cup L) = {} /\ A \cup L \in SUBSET Request
  BY DEF Booking
<1>3. L = Request <=> \A r \in Request : line[r] = "look" /\ at[r] = k
  OBVIOUS
<1>4. \A r \in Request : at[r] # k => r \notin U
  OBVIOUS
<1> HIDE DEF L, A, B, J, U
<1>5. IsFiniteSet(Request) /\ Cardinality(Request) \in Nat /\ Cardinality(Request) # 0
  BY LimitConstants, FS_CardinalityType, FS_EmptySet
<1>6. ASSUME NEW S \in SUBSET Request
      PROVE  /\ IsFiniteSet(S) /\ Cardinality(S) \in Nat
             /\ Cardinality(S) <= Cardinality(Request)
             /\ Cardinality(S) = Cardinality(Request) => S = Request
  BY <1>5, FS_Subset, FS_CardinalityType
<1>7. /\ IsFiniteSet(L) /\ IsFiniteSet(A) /\ IsFiniteSet(B)
      /\ Cardinality(L) \in Nat /\ Cardinality(A) \in Nat /\ Cardinality(B) \in Nat
      /\ Cardinality(J) \in Nat /\ Cardinality(U) \in Nat
      /\ Cardinality(L) = Cardinality(Request) => L = Request
  <2>1. IsFiniteSet(L) /\ Cardinality(L) \in Nat
        /\ (Cardinality(L) = Cardinality(Request) => L = Request)
    BY <1>2, <1>6
  <2>2. IsFiniteSet(A) /\ Cardinality(A) \in Nat
    BY <1>2, <1>6
  <2>3. IsFiniteSet(B) /\ Cardinality(B) \in Nat
    BY <1>2, <1>6
  <2>4. Cardinality(J) \in Nat
    BY <1>2, <1>6
  <2>5. Cardinality(U) \in Nat
    BY <1>2, <1>6
  <2> QED
    BY <2>1, <2>2, <2>3, <2>4, <2>5
<1>8. Cardinality(A \cup L) = Cardinality(A) + Cardinality(L)
  <2>1. Cardinality(A \cup L) = Cardinality(A) + Cardinality(L) - Cardinality(A \cap L)
    BY <1>7, FS_Union
  <2>2. Cardinality(A \cap L) = 0
    BY <1>2, FS_EmptySet
  <2> QED
    BY <1>7, <2>1, <2>2
<1>9. Cardinality(B) + Cardinality(A \cup L) <= Cardinality(Request)
  BY <1>2, <1>5, Apart
<1>10. ASSUME NEW r \in Request, at[r] # k PROVE Cardinality(U) <= Cardinality(Request) - 1
  <2>1. U \in SUBSET (Request \ {r}) /\ Request \ {r} \in SUBSET Request
    BY <1>2, <1>4, <1>10
  <2>2. Cardinality(Request \ {r}) = Cardinality(Request) - 1
    BY <1>5, FS_RemoveElement
  <2>3. IsFiniteSet(Request \ {r})
    BY <1>6, <2>1
  <2>4. Cardinality(U) <= Cardinality(Request \ {r})
    BY <2>1, <2>3, FS_Subset
  <2> QED
    BY <2>2, <2>4
<1>11. Others = Cardinality(Request) - 1 /\ Others \in Nat
  BY <1>5 DEF Others
<1>12. Placed[k][Booking] + Placed[k][{"act"}] + Placed[k][{"look"}] <= Others + 1
  BY <1>1, <1>5, <1>7, <1>8, <1>9, <1>11
<1>13. Placed[k][{"look"}] = Others + 1 <=> \A r \in Request : line[r] = "look" /\ at[r] = k
  <2>1. Cardinality(L) = Others + 1 <=> L = Request
    BY <1>5, <1>7, <1>11
  <2> QED
    BY <1>1, <1>3, <2>1
<1>14. \A r \in Request : at[r] # k => Placed[k][Serving] <= Others
  BY <1>1, <1>10, <1>11
<1> QED
  BY <1>1, <1>7, <1>11, <1>12, <1>13, <1>14
\* The inductive invariant.  As long as nobody sweeps a window's row away, every
\* request that was let through, or is to be judged, stands in the count; once
\* it is swept, only those that were on their way can still be let through.
Current(k) ==
  /\ let[k] <= Limit
  /\ let[k] + Placed[k][Judging] <= count[k]
  /\ count[k] = 0 => \A r \in Request : ~(line[r] = "add" /\ at[r] = k)

Swept(k) == k < window /\ let[k] + Placed[k][Serving] <= Limit + Others

\* With a look first: those let through are counted or about to be; when the
\* window is over nobody comes to look any more.
Looked(k) ==
  /\ let[k] <= count[k] + Placed[k][Booking]
  /\ let[k] + Placed[k][{"act"}] <= Limit + Others
  /\ count[k] = 0 => \A r \in Request : ~(line[r] = "add" /\ at[r] = k)

Leaving(k) ==
  \/ let[k] + Placed[k][{"act"}] + Placed[k][{"look"}] <= Limit + 2 * Others
  \/ /\ \A r \in Request : line[r] = "look" /\ at[r] = k
     /\ let[k] <= Limit + Others /\ count[k] >= Limit

Pages == \A k \in Window : Current(k) \/ Swept(k)
Signs == \A k \in Window : (k >= window /\ Looked(k)) \/ (k < window /\ Leaving(k))

LimitInv ==
  /\ \A r \in Request : at[r] <= window
  /\ use = "page" => Pages /\ \A r \in Request : line[r] \notin {"look", "act"}
  /\ use = "sign" => Signs

\* A page's request, seen from one window.
LEMMA PageStep ==
  ASSUME LTypeOK, LimitInv, use = "page", NEW r \in Request, NEW k \in Window,
         Arrive(r) \/ Count(r) \/ Add(r) \/ Sweep(r) \/ Refresh(r)
  PROVE  (Current(k) \/ Swept(k))'
<1> DEFINE J == Placed[k][Judging]
           JJ == Placed'[k][Judging]
           S == Placed[k][Serving]
           SS == Placed'[k][Serving]
<1>0. /\ line \in [Request -> Lines] /\ at \in [Request -> Window] /\ count \in [Window -> Nat]
      /\ let \in [Window -> Nat] /\ at[r] \in Window /\ window \in Window
      /\ let[k] \in Nat /\ count[k] \in Nat /\ Limit \in Nat \ {0} /\ at[r] <= window
      /\ \A n \in Window : n \in Nat
  BY LimitConstants DEF LTypeOK, LimitInv, Window
<1>1. \A q \in Request \ {r} : line'[q] = line[q] /\ at'[q] = at[q]
  BY <1>0 DEF Arrive, Count, Add, Sweep, Refresh, Jump, ReadClock
<1>2. /\ JJ = J + Here(line'[r], at'[r], Judging, k) - Here(line[r], at[r], Judging, k)
      /\ SS = S + Here(line'[r], at'[r], Serving, k) - Here(line[r], at[r], Serving, k)
  BY <1>1, NumbersMove
<1>3. J \in Nat /\ S \in Nat /\ Others \in Nat /\ (at[r] # k => S <= Others)
  BY NumbersFit
<1>4. window' = window
  BY DEF Arrive, Count, Add, Sweep, Refresh
<1>5. \/ /\ let[k] <= Limit /\ let[k] + J <= count[k]
         /\ count[k] = 0 => \A q \in Request : ~(line[q] = "add" /\ at[q] = k)
      \/ k < window /\ let[k] + S <= Limit + Others
  BY DEF LimitInv, Pages, Current, Swept
<1>6. ASSUME \/ /\ let'[k] <= Limit /\ let'[k] + JJ <= count'[k]
                /\ count'[k] = 0 => \A q \in Request : ~(line'[q] = "add" /\ at'[q] = k)
             \/ k < window /\ let'[k] + SS <= Limit + Others
      PROVE  (Current(k) \/ Swept(k))'
  BY <1>4, <1>6 DEF Current, Swept, Others
<1> HIDE DEF J, JJ, S, SS
<1> USE DEF Here, Judging, Serving
<1>7. CASE Arrive(r)
  <2>1. /\ line[r] = "idle" /\ line'[r] = "count" /\ at'[r] = window
        /\ count' = count /\ let' = let
    BY <1>0, <1>7 DEF Arrive, Jump, ReadClock
  <2>2. JJ = J /\ (k # window => SS = S)
    BY <1>2, <1>3, <2>1
  <2> QED
    BY <1>0, <1>1, <1>3, <1>5, <1>6, <2>1, <2>2
<1>8. CASE Count(r)
  <2>1. line[r] = "count" /\ at'[r] = at[r] /\ let' = let
    BY <1>0, <1>8 DEF Count
  <2>2. SS = S
    <3>1. line'[r] \in {"sweep", "add"}
      BY <1>0, <1>8 DEF Count, Jump
    <3> QED
      BY <1>2, <1>3, <2>1, <3>1
  <2>3. CASE at[r] # k
    <3>1. JJ = J /\ count'[k] = count[k]
      BY <1>0, <1>2, <1>3, <1>8, <2>1, <2>3 DEF Count
    <3> QED
      BY <1>0, <1>1, <1>3, <1>5, <1>6, <2>1, <2>2, <2>3, <3>1
  <2>4. CASE at[r] = k /\ count[k] = 0
    <3>1. count'[k] = 1 /\ line'[r] = "sweep" /\ JJ = J + 1
      BY <1>0, <1>2, <1>3, <1>8, <2>1, <2>4 DEF Count, Jump
    <3> QED
      BY <1>0, <1>1, <1>3, <1>5, <1>6, <2>1, <2>2, <2>4, <3>1
  <2>5. CASE at[r] = k /\ count[k] # 0
    <3>1. count'[k] = count[k] /\ line'[r] = "add" /\ JJ = J
      BY <1>0, <1>2, <1>3, <1>8, <2>1, <2>5 DEF Count, Jump
    <3> QED
      BY <1>0, <1>1, <1>3, <1>5, <1>6, <2>1, <2>2, <2>5, <3>1
  <2> QED
    BY <2>3, <2>4, <2>5
<1>9. CASE Add(r)
  <2>1. /\ line[r] = "add" /\ line'[r] = "refresh" /\ at'[r] = at[r] /\ let' = let
        /\ count'[k] = IF at[r] = k /\ count[k] # 0 THEN count[k] + 1 ELSE count[k]
    BY <1>0, <1>9 DEF Add, Jump
  <2>2. SS = S /\ JJ = IF at[r] = k THEN J + 1 ELSE J
    BY <1>2, <1>3, <2>1
  <2> QED
    BY <1>0, <1>1, <1>3, <1>5, <1>6, <2>1, <2>2
<1>10. CASE Sweep(r)
  <2>1. /\ line[r] = "sweep" /\ line'[r] = "refresh" /\ at'[r] = at[r] /\ let' = let
        /\ count'[k] = IF k < at[r] THEN 0 ELSE count[k]
    BY <1>0, <1>10 DEF Sweep, Jump
  <2>2. SS = S /\ JJ = J
    BY <1>2, <1>3, <2>1
  <2>3. CASE k < at[r]
    <3>1. k < window /\ S <= Others
      BY <1>0, <1>3, <2>3
    <3> QED
      BY <1>0, <1>3, <1>5, <1>6, <2>1, <2>2, <3>1
  <2>4. CASE ~(k < at[r])
    BY <1>0, <1>1, <1>3, <1>5, <1>6, <2>1, <2>2, <2>4
  <2> QED
    BY <2>3, <2>4
<1>11. CASE Refresh(r)
  <2>1. /\ line[r] = "refresh" /\ line'[r] = "idle" /\ at'[r] = at[r] /\ count' = count
        /\ let'[k] = IF at[r] = k /\ count[k] \in 1 .. Limit THEN let[k] + 1 ELSE let[k]
    BY <1>0, <1>11 DEF Refresh, Jump, LetThrough
  <2>2. /\ JJ = IF at[r] = k THEN J - 1 ELSE J
        /\ SS = IF at[r] = k THEN S - 1 ELSE S
    BY <1>2, <1>3, <2>1
  <2>3. JJ \in Nat
    BY <1>1, PlacedMoves DEF JJ, Lines
  <2> QED
    BY <1>0, <1>1, <1>3, <1>5, <1>6, <2>1, <2>2, <2>3
<1> QED
  BY <1>7, <1>8, <1>9, <1>10, <1>11
\* A request that looks first, seen from the window that is open or from a later one.
LEMMA LookedStep ==
  ASSUME LTypeOK, LimitInv, use = "sign", NEW r \in Request, NEW k \in Window,
         k >= window, Looked(k),
         Arrive(r) \/ Look(r) \/ Act(r) \/ Count(r) \/ Add(r) \/ Sweep(r) \/ Refresh(r)
  PROVE  Looked(k)'
<1> DEFINE A == Placed[k][{"act"}]
           AA == Placed'[k][{"act"}]
           L == Placed[k][{"look"}]
           LL == Placed'[k][{"look"}]
           B == Placed[k][Booking]
           BB == Placed'[k][Booking]
<1>0. /\ line \in [Request -> Lines] /\ at \in [Request -> Window] /\ count \in [Window -> Nat]
      /\ let \in [Window -> Nat] /\ at[r] \in Window /\ window \in Window
      /\ let[k] \in Nat /\ count[k] \in Nat /\ Limit \in Nat \ {0} /\ at[r] <= window
      /\ \A n \in Window : n \in Nat
  BY LimitConstants DEF LTypeOK, LimitInv, Window
<1>1. \A q \in Request \ {r} : line'[q] = line[q] /\ at'[q] = at[q]
  BY <1>0 DEF Arrive, Look, Act, Count, Add, Sweep, Refresh, Jump, ReadClock
<1>2. /\ AA = A + Here(line'[r], at'[r], {"act"}, k) - Here(line[r], at[r], {"act"}, k)
      /\ LL = L + Here(line'[r], at'[r], {"look"}, k) - Here(line[r], at[r], {"look"}, k)
      /\ BB = B + Here(line'[r], at'[r], Booking, k) - Here(line[r], at[r], Booking, k)
  BY <1>1, NumbersMove
<1>3. A \in Nat /\ L \in Nat /\ B \in Nat /\ Others \in Nat /\ B + A + L <= Others + 1
  BY NumbersFit
<1>4. LL \in Nat
  BY <1>1, PlacedMoves DEF LL, Lines
<1>5. /\ let[k] <= count[k] + B /\ let[k] + A <= Limit + Others
      /\ count[k] = 0 => \A q \in Request : ~(line[q] = "add" /\ at[q] = k)
  BY DEF Looked
<1>6. ASSUME let'[k] <= count'[k] + BB, let'[k] + AA <= Limit + Others,
             count'[k] = 0 => \A q \in Request : ~(line'[q] = "add" /\ at'[q] = k)
      PROVE  Looked(k)'
  BY <1>6 DEF Looked, Others
<1> HIDE DEF A, AA, L, LL, B, BB
<1> USE DEF Here, Booking
<1>7. CASE Arrive(r)
  <2>1. line[r] = "idle" /\ line'[r] = "look" /\ count' = count /\ let' = let
    BY <1>0, <1>7 DEF Arrive, Jump
  <2>2. AA = A /\ BB = B
    BY <1>2, <1>3, <2>1
  <2> QED
    BY <1>0, <1>1, <1>3, <1>5, <1>6, <2>1, <2>2
<1>8. CASE Look(r)
  <2>1. /\ line[r] = "look" /\ at'[r] = at[r] /\ count' = count /\ let' = let
        /\ line'[r] = IF count[at[r]] >= Limit THEN "idle" ELSE "act"
    BY <1>0, <1>8 DEF Look, Jump, Exceeded
  <2>2. BB = B
    BY <1>2, <1>3, <2>1
  <2>3. CASE at[r] = k /\ count[k] < Limit
    <3>1. AA = A + 1 /\ LL = L - 1
      BY <1>0, <1>2, <1>3, <2>1, <2>3
    <3>2. let[k] + A + 1 <= Limit + Others
      BY <1>0, <1>3, <1>4, <1>5, <2>3, <3>1
    <3> QED
      BY <1>0, <1>1, <1>3, <1>5, <1>6, <2>1, <2>2, <3>1, <3>2
  <2>4. CASE ~(at[r] = k /\ count[k] < Limit)
    <3>1. AA = A
      BY <1>0, <1>2, <1>3, <2>1, <2>4
    <3> QED
      BY <1>0, <1>1, <1>3, <1>5, <1>6, <2>1, <2>2, <3>1
  <2> QED
    BY <2>3, <2>4
<1>9. CASE Act(r)
  <2>1. line[r] = "act" /\ count' = count
    BY <1>9 DEF Act
  <2>2. CASE LetThrough(r) /\ ReadClock(r) /\ Jump(r, "count")
    <3>1. /\ line'[r] = "count" /\ at'[r] = window
          /\ let'[k] = IF at[r] = k THEN let[k] + 1 ELSE let[k]
      BY <1>0, <2>2 DEF LetThrough, ReadClock, Jump
    <3>2. CASE at[r] = k
      <4>1. AA = A - 1 /\ BB = B + 1
        BY <1>0, <1>2, <1>3, <2>1, <3>1, <3>2
      <4> QED
        BY <1>0, <1>1, <1>3, <1>5, <1>6, <2>1, <3>1, <3>2, <4>1
    <3>3. CASE at[r] # k
      <4>1. AA = A /\ BB \in {B, B + 1}
        BY <1>0, <1>2, <1>3, <2>1, <3>1, <3>3
      <4> QED
        BY <1>0, <1>1, <1>3, <1>5, <1>6, <2>1, <3>1, <3>3, <4>1
    <3> QED
      BY <3>2, <3>3
  <2>3. CASE Jump(r, "idle") /\ UNCHANGED <<at, let>>
    <3>1. line'[r] = "idle" /\ at'[r] = at[r] /\ let' = let
      BY <1>0, <2>3 DEF Jump
    <3>2. AA \in {A, A - 1} /\ BB = B
      BY <1>2, <1>3, <2>1, <3>1
    <3> QED
      BY <1>0, <1>1, <1>3, <1>5, <1>6, <2>1, <3>1, <3>2
  <2> QED
    BY <1>9, <2>2, <2>3 DEF Act
<1>10. CASE Count(r)
  <2>1. line[r] = "count" /\ at'[r] = at[r] /\ let' = let
    BY <1>0, <1>10 DEF Count
  <2>2. line'[r] \in {"sweep", "add"}
    BY <1>0, <1>10 DEF Count, Jump
  <2>3. AA = A
    BY <1>2, <1>3, <2>1, <2>2
  <2>4. CASE at[r] # k
    <3>1. BB = B /\ count'[k] = count[k]
      BY <1>0, <1>2, <1>3, <1>10, <2>1, <2>4 DEF Count
    <3> QED
      BY <1>0, <1>1, <1>3, <1>5, <1>6, <2>1, <2>3, <2>4, <3>1
  <2>5. CASE at[r] = k /\ count[k] = 0
    <3>1. count'[k] = 1 /\ line'[r] = "sweep" /\ BB = B - 1
      BY <1>0, <1>2, <1>3, <1>10, <2>1, <2>5 DEF Count, Jump
    <3> QED
      BY <1>0, <1>1, <1>3, <1>5, <1>6, <2>1, <2>3, <2>5, <3>1
  <2>6. CASE at[r] = k /\ count[k] # 0
    <3>1. count'[k] = count[k] /\ line'[r] = "add" /\ BB = B
      BY <1>0, <1>2, <1>3, <1>10, <2>1, <2>6 DEF Count, Jump
    <3> QED
      BY <1>0, <1>1, <1>3, <1>5, <1>6, <2>1, <2>3, <2>6, <3>1
  <2> QED
    BY <2>4, <2>5, <2>6
<1>11. CASE Add(r)
  <2>1. /\ line[r] = "add" /\ line'[r] = "refresh" /\ at'[r] = at[r] /\ let' = let
        /\ count'[k] = IF at[r] = k /\ count[k] # 0 THEN count[k] + 1 ELSE count[k]
    BY <1>0, <1>11 DEF Add, Jump
  <2>2. AA = A /\ BB = IF at[r] = k THEN B - 1 ELSE B
    BY <1>2, <1>3, <2>1
  <2> QED
    BY <1>0, <1>1, <1>3, <1>5, <1>6, <2>1, <2>2
<1>12. CASE Sweep(r)
  <2>1. /\ line[r] = "sweep" /\ line'[r] = "refresh" /\ at'[r] = at[r] /\ let' = let
        /\ count'[k] = IF k < at[r] THEN 0 ELSE count[k]
    BY <1>0, <1>12 DEF Sweep, Jump
  <2>2. AA = A /\ BB = B
    BY <1>2, <1>3, <2>1
  <2>3. ~(k < at[r])
    BY <1>0
  <2> QED
    BY <1>0, <1>1, <1>3, <1>5, <1>6, <2>1, <2>2, <2>3
<1>13. CASE Refresh(r)
  <2>1. line[r] = "refresh" /\ line'[r] = "idle" /\ count' = count /\ let' = let
    BY <1>0, <1>13 DEF Refresh, Jump
  <2>2. AA = A /\ BB = B
    BY <1>2, <1>3, <2>1
  <2> QED
    BY <1>0, <1>1, <1>3, <1>5, <1>6, <2>1, <2>2
<1> QED
  BY <1>7, <1>8, <1>9, <1>10, <1>11, <1>12, <1>13

\* The same request, seen from a window that is over: nobody comes to look there.
LEMMA LeavingStep ==
  ASSUME LTypeOK, LimitInv, use = "sign", NEW r \in Request, NEW k \in Window,
         k < window, Leaving(k),
         Arrive(r) \/ Look(r) \/ Act(r) \/ Count(r) \/ Add(r) \/ Sweep(r) \/ Refresh(r)
  PROVE  Leaving(k)'
<1> DEFINE A == Placed[k][{"act"}]
           AA == Placed'[k][{"act"}]
           L == Placed[k][{"look"}]
           LL == Placed'[k][{"look"}]
<1>0. /\ line \in [Request -> Lines] /\ at \in [Request -> Window]
      /\ let \in [Window -> Nat] /\ at[r] \in Window /\ window \in Window
      /\ let[k] \in Nat /\ count[k] \in Nat /\ Limit \in Nat \ {0}
      /\ k \in Nat /\ window \in Nat /\ k # window
  BY LimitConstants DEF LTypeOK, Window
<1>1. \A q \in Request \ {r} : line'[q] = line[q] /\ at'[q] = at[q]
  BY <1>0 DEF Arrive, Look, Act, Count, Add, Sweep, Refresh, Jump, ReadClock
<1>2. /\ AA = A + Here(line'[r], at'[r], {"act"}, k) - Here(line[r], at[r], {"act"}, k)
      /\ LL = L + Here(line'[r], at'[r], {"look"}, k) - Here(line[r], at[r], {"look"}, k)
  BY <1>1, NumbersMove
<1>3. /\ A \in Nat /\ L \in Nat /\ Others \in Nat
      /\ L = Others + 1 => A = 0
      /\ L = Others + 1 <=> \A q \in Request : line[q] = "look" /\ at[q] = k
  BY NumbersFit
<1>4. ASSUME let'[k] + AA + LL <= Limit + 2 * Others
      PROVE  Leaving(k)'
  BY <1>4 DEF Leaving, Others
<1>5. \/ let[k] + A + L <= Limit + 2 * Others
      \/ L = Others + 1 /\ let[k] <= Limit + Others /\ count[k] >= Limit
  BY <1>3 DEF Leaving
<1>6. L = Others + 1 => line[r] = "look" /\ at[r] = k
  BY <1>3
<1> HIDE DEF A, AA, L, LL
<1> USE DEF Here
<1>7. CASE Arrive(r)
  <2>1. line[r] = "idle" /\ at'[r] = window /\ line'[r] = "look" /\ let' = let
    BY <1>0, <1>7 DEF Arrive, Jump, ReadClock
  <2>2. AA = A /\ LL = L
    BY <1>0, <1>2, <1>3, <2>1
  <2> QED
    BY <1>4, <1>5, <1>6, <2>1, <2>2
<1>8. CASE Look(r)
  <2>1. /\ line[r] = "look" /\ at'[r] = at[r] /\ let' = let
        /\ line'[r] = IF count[at[r]] >= Limit THEN "idle" ELSE "act"
    BY <1>0, <1>8 DEF Look, Jump, Exceeded
  <2>2. CASE L = Others + 1
    <3>1. at[r] = k /\ A = 0
      BY <1>3, <1>6, <2>2
    <3>2. CASE count[k] >= Limit
      <4>1. AA = 0 /\ LL = Others
        BY <1>0, <1>2, <1>3, <2>1, <2>2, <3>1, <3>2
      <4>2. let[k] <= Limit + 2 * Others \/ let[k] <= Limit + Others
        BY <1>0, <1>3, <1>5, <2>2, <3>1
      <4>3. let[k] + A + L <= Limit + 2 * Others \/ let[k] <= Limit + Others
        BY <1>5
      <4> QED
        BY <1>0, <1>3, <1>4, <2>1, <2>2, <3>1, <4>1, <4>3
    <3>3. CASE ~(count[k] >= Limit)
      <4>1. AA = A + 1 /\ LL = L - 1
        BY <1>0, <1>2, <1>3, <2>1, <3>1, <3>3
      <4> QED
        BY <1>0, <1>3, <1>4, <1>5, <2>1, <3>3, <4>1
    <3> QED
      BY <3>2, <3>3
  <2>3. CASE L # Others + 1
    <3>1. \/ AA = A /\ LL = L
          \/ AA = A /\ LL = L - 1
          \/ AA = A + 1 /\ LL = L - 1
      BY <1>0, <1>2, <1>3, <2>1
    <3> QED
      BY <1>0, <1>3, <1>4, <1>5, <2>1, <2>3, <3>1
  <2> QED
    BY <2>2, <2>3
<1>9. CASE Act(r)
  <2>1. line[r] = "act"
    BY <1>9 DEF Act
  <2>2. let[k] + A + L <= Limit + 2 * Others
    BY <1>5, <1>6, <2>1
  <2>3. CASE LetThrough(r) /\ ReadClock(r) /\ Jump(r, "count")
    <3>1. /\ line'[r] = "count"
          /\ let'[k] = IF at[r] = k THEN let[k] + 1 ELSE let[k]
      BY <1>0, <2>3 DEF LetThrough, Jump
    <3>2. LL = L /\ AA = IF at[r] = k THEN A - 1 ELSE A
      BY <1>2, <1>3, <2>1, <3>1
    <3> QED
      BY <1>0, <1>3, <1>4, <2>2, <3>1, <3>2
  <2>4. CASE Jump(r, "idle") /\ UNCHANGED <<at, let>>
    <3>1. line'[r] = "idle" /\ let' = let
      BY <1>0, <2>4 DEF Jump
    <3>2. LL = L /\ AA \in {A, A - 1}
      BY <1>2, <1>3, <2>1, <3>1
    <3> QED
      BY <1>0, <1>3, <1>4, <2>2, <3>1, <3>2
  <2> QED
    BY <1>9, <2>3, <2>4 DEF Act
<1>10. ASSUME Count(r) \/ Add(r) \/ Sweep(r) \/ Refresh(r)
       PROVE  Leaving(k)'
  <2>1. /\ line[r] \in {"count", "add", "sweep", "refresh"}
        /\ line'[r] \in {"add", "sweep", "refresh", "idle"} /\ let' = let
    BY <1>0, <1>10 DEF Count, Add, Sweep, Refresh, Jump
  <2>2. LL = L /\ AA = A
    BY <1>2, <1>3, <2>1
  <2> QED
    BY <1>4, <1>5, <1>6, <2>1, <2>2
<1> QED
  BY <1>7, <1>8, <1>9, <1>10

\* The window ends.
LEMMA WindowStep ==
  ASSUME LTypeOK, LimitInv, NextWindow, NEW k \in Window
  PROVE  /\ use = "page" => (Current(k) \/ Swept(k))'
         /\ use = "sign" => ((k >= window /\ Looked(k)) \/ (k < window /\ Leaving(k)))'
<1>1. /\ count' = count /\ line' = line /\ at' = at /\ let' = let /\ window' = window + 1
      /\ Placed' = Placed /\ window \in Nat /\ k \in Nat /\ let[k] \in Nat /\ count[k] \in Nat
      /\ Limit \in Nat \ {0}
  BY LimitConstants DEF NextWindow, LTypeOK, Window, Placed
<1>2. Current(k)' = Current(k)
  BY <1>1 DEF Current
<1>3. Swept(k) => Swept(k)'
  <2>1. k < window => k < window'
    BY <1>1
  <2> QED
    BY <1>1, <2>1 DEF Swept, Others
<1>4. Looked(k)' = Looked(k) /\ Leaving(k)' = Leaving(k)
  BY <1>1 DEF Looked, Leaving, Others
<1>5. ASSUME k = window, Looked(k) PROVE Leaving(k)
  <2> DEFINE A == Placed[k][{"act"}]
             L == Placed[k][{"look"}]
             B == Placed[k][Booking]
  <2>1. /\ A \in Nat /\ L \in Nat /\ B \in Nat /\ Others \in Nat /\ B + A + L <= Others + 1
        /\ L = Others + 1 <=> \A q \in Request : line[q] = "look" /\ at[q] = k
    BY NumbersFit
  <2>2. let[k] <= count[k] + B /\ let[k] + A <= Limit + Others
    BY <1>5 DEF Looked
  <2>3. \/ let[k] + A + L <= Limit + 2 * Others
        \/ L = Others + 1 /\ let[k] <= Limit + Others /\ count[k] >= Limit
    <3> HIDE DEF A, B, L
    <3>1. CASE L <= Others
      BY <1>1, <2>1, <2>2, <3>1
    <3>2. CASE L = Others + 1
      <4>1. A = 0 /\ B = 0
        BY <2>1, <3>2
      <4>2. let[k] <= count[k] /\ let[k] <= Limit + Others
        BY <1>1, <2>1, <2>2, <4>1
      <4>3. CASE count[k] >= Limit
        BY <3>2, <4>2, <4>3
      <4>4. CASE ~(count[k] >= Limit)
        BY <1>1, <2>1, <3>2, <4>1, <4>2, <4>4
      <4> QED
        BY <4>3, <4>4
    <3> QED
      BY <2>1, <3>1, <3>2
  <2> QED
    BY <2>1, <2>3 DEF Leaving
<1>6. use = "page" => Current(k) \/ Swept(k)
  BY DEF LimitInv, Pages
<1>7. use = "sign" => (k >= window /\ Looked(k)) \/ (k < window /\ Leaving(k))
  BY DEF LimitInv, Signs
<1>8. (k >= window' <=> k > window) /\ (k < window' <=> k <= window)
  BY <1>1
<1>9. use = "sign" => (k >= window' /\ Looked(k)) \/ (k < window' /\ Leaving(k))
  BY <1>1, <1>5, <1>7, <1>8
<1>10. ((k >= window /\ Looked(k)) \/ (k < window /\ Leaving(k)))'
       <=> (k >= window' /\ Looked(k)) \/ (k < window' /\ Leaving(k))
  BY <1>4
<1> QED
  BY <1>2, <1>3, <1>6, <1>9, <1>10
LEMMA LimitStep == LTypeOK /\ LimitInv /\ [LNext]_lvars => LimitInv'
<1> SUFFICES ASSUME LTypeOK, LimitInv, [LNext]_lvars PROVE LimitInv'
  OBVIOUS
<1>1. CASE UNCHANGED lvars
  <2>1. /\ use' = use /\ window' = window /\ count' = count /\ line' = line
        /\ at' = at /\ let' = let /\ Placed' = Placed
    BY <1>1 DEF lvars, Placed
  <2>2. LimitInv' = LimitInv
    BY <2>1 DEF LimitInv, Pages, Signs, Current, Swept, Looked, Leaving, Others
  <2> QED
    BY <2>2
<1>2. CASE NextWindow
  <2>1. /\ use' = use /\ at' = at /\ line' = line /\ window' = window + 1
        /\ \A r \in Request : at[r] \in Nat /\ at[r] <= window
        /\ window \in Nat
    BY <1>2, LimitConstants DEF NextWindow, LTypeOK, LimitInv, Window
  <2>2. \A r \in Request : at'[r] <= window'
    BY <2>1
  <2>3. use' = "page" => Pages'
    <3>1. \A k \in Window : use = "page" => (Current(k) \/ Swept(k))'
      BY <1>2, WindowStep
    <3> QED
      BY <2>1, <3>1 DEF Pages, Window
  <2>4. use' = "sign" => Signs'
    <3>1. \A k \in Window :
            use = "sign" => ((k >= window /\ Looked(k)) \/ (k < window /\ Leaving(k)))'
      BY <1>2, WindowStep
    <3> QED
      BY <2>1, <3>1 DEF Signs, Window
  <2> QED
    BY <2>1, <2>2, <2>3, <2>4 DEF LimitInv
<1>3. ASSUME NEW r \in Request,
             Arrive(r) \/ Look(r) \/ Act(r) \/ Count(r) \/ Add(r) \/ Sweep(r) \/ Refresh(r)
      PROVE  LimitInv'
  <2>1. /\ use' = use /\ window' = window /\ use \in {"page", "sign"}
        /\ line \in [Request -> Lines] /\ at \in [Request -> Window] /\ window \in Nat
    BY <1>3, LimitConstants
       DEF LTypeOK, Window, Arrive, Look, Act, Count, Add, Sweep, Refresh
  <2>2. \A q \in Request : at'[q] \in {at[q], window}
    BY <1>3, <2>1 DEF Arrive, Look, Act, Count, Add, Sweep, Refresh, Jump, ReadClock
  <2>3. \A q \in Request : at'[q] <= window'
    BY <2>1, <2>2 DEF LimitInv
  <2>4. CASE use = "page"
    <3>1. line[r] \notin {"look", "act"}
      BY <2>4 DEF LimitInv
    <3>2. Arrive(r) \/ Count(r) \/ Add(r) \/ Sweep(r) \/ Refresh(r)
      BY <1>3, <3>1 DEF Look, Act
    <3>3. \A q \in Request : line'[q] \in {line[q], "count", "sweep", "add", "refresh", "idle"}
      <4>1. CASE Arrive(r)
        BY <2>1, <2>4, <4>1 DEF Arrive, Jump
      <4>2. CASE Count(r)
        BY <2>1, <4>2 DEF Count, Jump
      <4>3. CASE Add(r) \/ Sweep(r) \/ Refresh(r)
        BY <2>1, <4>3 DEF Add, Sweep, Refresh, Jump
      <4> QED
        BY <3>2, <4>1, <4>2, <4>3
    <3>4. \A q \in Request : line'[q] \notin {"look", "act"}
      BY <2>4, <3>3 DEF LimitInv
    <3>5. \A k \in Window : (Current(k) \/ Swept(k))'
      BY <2>4, <3>2, PageStep
    <3>6. Pages'
      BY <3>5 DEF Pages, Window
    <3> QED
      BY <2>1, <2>3, <2>4, <3>4, <3>6 DEF LimitInv
  <2>5. CASE use = "sign"
    <3>1. ASSUME NEW k \in Window
          PROVE  ((k >= window /\ Looked(k)) \/ (k < window /\ Leaving(k)))'
      <4>1. (k >= window /\ Looked(k)) \/ (k < window /\ Leaving(k))
        BY <2>5 DEF LimitInv, Signs
      <4>2. CASE k >= window /\ Looked(k)
        <5>1. Looked(k)'
          BY <1>3, <2>5, <4>2, LookedStep
        <5> QED
          BY <2>1, <4>2, <5>1
      <4>3. CASE k < window /\ Leaving(k)
        <5>1. Leaving(k)'
          BY <1>3, <2>5, <4>3, LeavingStep
        <5> QED
          BY <2>1, <4>3, <5>1
      <4> QED
        BY <4>1, <4>2, <4>3
    <3>2. Signs'
      BY <3>1 DEF Signs, Window
    <3> QED
      BY <2>1, <2>3, <2>5, <3>2 DEF LimitInv
  <2> QED
    BY <2>1, <2>4, <2>5
<1> QED
  BY <1>1, <1>2, <1>3 DEF LNext

LEMMA LimitAtFirst == LInit => LimitInv
<1> SUFFICES ASSUME LInit PROVE LimitInv
  OBVIOUS
<1>1. /\ window = 0 /\ \A k \in Window : k \in Nat /\ k >= 0 /\ count[k] = 0 /\ let[k] = 0
      /\ \A r \in Request : line[r] = "idle" /\ at[r] = 0
      /\ use \in {"page", "sign"} /\ Limit \in Nat /\ Others \in Nat
  <2>1. \A k \in Window : k \in Nat /\ k >= 0
    BY LimitConstants DEF Window
  <2>2. Cardinality(Request) \in Nat \ {0}
    BY LimitConstants, FS_CardinalityType, FS_EmptySet
  <2> QED
    BY <2>1, <2>2, LimitConstants DEF LInit, Others
<1>2. ASSUME NEW k \in Window, NEW lines \in SUBSET Lines, "idle" \notin lines
      PROVE  Placed[k][lines] = 0
  <2>1. {r \in Request : line[r] \in lines /\ at[r] = k} = {}
    BY <1>1, <1>2
  <2> QED
    BY <2>1, FS_EmptySet DEF Placed
<1>3. ASSUME NEW k \in Window
      PROVE  Placed[k][{"act"}] = 0 /\ Placed[k][Booking] = 0 /\ Placed[k][Judging] = 0
  BY <1>2 DEF Lines, Booking, Judging
<1>4. ASSUME NEW k \in Window PROVE Current(k) /\ k >= window /\ Looked(k)
  <2>1. Current(k)
    BY <1>1, <1>3 DEF Current
  <2>2. Looked(k)
    BY <1>1, <1>3 DEF Looked
  <2> QED
    BY <1>1, <2>1, <2>2
<1> QED
  BY <1>1, <1>4 DEF LimitInv, Pages, Signs

LEMMA LimitFollows == LTypeOK /\ LimitInv => LimitHolds
<1> SUFFICES ASSUME LTypeOK, LimitInv, NEW k \in Window
             PROVE  let[k] <= Limit + (IF use = "sign" THEN Others ELSE 0)
                                    + (IF k < window THEN Others ELSE 0)
  BY DEF LimitHolds
<1>1. /\ Placed[k][{"look"}] \in Nat /\ Placed[k][{"act"}] \in Nat
      /\ Placed[k][Serving] \in Nat /\ Others \in Nat
  BY NumbersFit
<1>2. /\ use \in {"page", "sign"} /\ let[k] \in Nat /\ Limit \in Nat /\ k \in Nat /\ window \in Nat
  BY LimitConstants DEF LTypeOK, Window
<1>3. CASE use = "page"
  <2>1. let[k] <= Limit \/ (k < window /\ let[k] + Placed[k][Serving] <= Limit + Others)
    BY <1>3 DEF LimitInv, Pages, Current, Swept
  <2> QED
    BY <1>1, <1>2, <1>3, <2>1
<1>4. CASE use = "sign"
  <2>1. \/ k >= window /\ let[k] + Placed[k][{"act"}] <= Limit + Others
        \/ /\ k < window
           /\ \/ let[k] + Placed[k][{"act"}] + Placed[k][{"look"}] <= Limit + 2 * Others
              \/ let[k] <= Limit + Others
    BY <1>4 DEF LimitInv, Signs, Looked, Leaving
  <2> QED
    BY <1>1, <1>2, <1>4, <2>1
<1> QED
  BY <1>2, <1>3, <1>4

\* hit, exceeded: no client gets past the limit further than the threads that
\* look together, and those on their way when the window ends, can take it, for
\* any number of threads and of windows and any limit.
THEOREM LimitHoldsAlways == LSpec => []LimitHolds
<1>1. LInit => LTypeOK /\ LimitInv
  BY LimitTypesInit, LimitAtFirst
<1>2. LTypeOK /\ LimitInv /\ [LNext]_lvars => LTypeOK' /\ LimitInv'
  BY LimitTypesStep, LimitStep
<1> QED
  BY <1>1, <1>2, LimitFollows, PTL DEF LSpec-----------------------------------------------------------------------------
(* The promise of ShopOriginForm about the secret, for saves that do not   *)
(* overlap.                                                                *)

OneServer == \A v, w \in Server : v = w

\* A save under way has read the secret that is stored.
ReadIsStored ==
  \A w \in Server : work[w].at = "settings" => work[w].secret = secret

\* With nobody else about, the secret that was read stays the stored one.
LEMMA ReadStays ==
  ASSUME OneServer
  PROVE  PTypeOK /\ ReadIsStored /\ [PNext]_pvars => ReadIsStored'
<1> SUFFICES ASSUME PTypeOK, ReadIsStored, [PNext]_pvars PROVE ReadIsStored'
  OBVIOUS
<1>0. work \in [Server -> Work] /\ \A v, w \in Server : v = w
  BY DEF PTypeOK, OneServer
<1>1. ASSUME NEW w \in Server, Ask(w) PROVE ReadIsStored'
  <2>1. work'[w].secret = secret /\ secret' = secret
    BY <1>0, <1>1 DEF Ask
  <2> QED
    BY <1>0, <2>1 DEF ReadIsStored
<1>2. ASSUME NEW w \in Server,
             \/ SavePage(w) \/ SaveApi(w) \/ Lookup(w) \/ Meter(w) \/ Call(w)
             \/ Store(w) \/ SaveOrigin(w) \/ Kill(w)
      PROVE  ReadIsStored'
  <2>1. work'[w].at # "settings"
    BY <1>0, <1>2 DEF SavePage, SaveApi, Lookup, Meter, Call, Store, SaveOrigin, Kill,
       Turn, Rest, Geocode, Resting, Work
  <2> QED
    BY <1>0, <2>1 DEF ReadIsStored
<1>3. CASE Purge
  BY <1>3 DEF Purge, ReadIsStored
<1>4. CASE UNCHANGED pvars
  BY <1>4 DEF pvars, ReadIsStored
<1> QED
  BY <1>1, <1>2, <1>3, <1>4 DEF PNext

\* ShopOriginForm's "leave empty to keep" is right for saves that do not
\* overlap: only the race of secret_restored breaks it.
THEOREM SecretAlone ==
  ASSUME OneServer
  PROVE  PSpec => SecretKept
<1> DEFINE A == secret' # secret =>
                  \E w \in Server : work[w].at = "settings" /\ work[w].wish # "keep"
                                    /\ work'[w].at # "settings"
<1>1. PTypeOK /\ ReadIsStored /\ [PNext]_pvars => [A]_pvars
  <2> SUFFICES ASSUME PTypeOK, ReadIsStored, PNext, secret' # secret
               PROVE  \E w \in Server : work[w].at = "settings" /\ work[w].wish # "keep"
                                        /\ work'[w].at # "settings"
    OBVIOUS
  <2>0. work \in [Server -> Work] /\ Secret \cap {"keep", "clear"} = {}
    BY ProfileConstants DEF PTypeOK
  <2>1. PICK w \in Server : SavePage(w) \/ SaveApi(w)
    BY DEF PNext, Ask, Lookup, Meter, Call, Store, SaveOrigin, Kill, Purge
  <2>2. work[w].at = "settings"
    BY <2>1 DEF SavePage, SaveApi
  <2>3. work[w].wish # "keep"
    BY <2>0, <2>1, <2>2 DEF SavePage, SaveApi, ReadIsStored
  <2>4. work'[w].at # "settings"
    BY <2>0, <2>1 DEF SavePage, SaveApi, Turn, Rest, Geocode, Resting, Work
  <2> QED
    BY <2>2, <2>3, <2>4
<1>2. PInit => ReadIsStored
  BY DEF PInit, ReadIsStored, Resting
<1>3. PSpec => [][A]_pvars
  BY <1>1, <1>2, ReadStays, ProfileTypes, PTL DEF PSpec
<1> QED
  BY <1>3 DEF SecretKept
=============================================================================
