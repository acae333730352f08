------------------------- MODULE SendQuotas_proofs -------------------------
(***************************************************************************)
(* Proofs about SendQuotas for any number of workers, shops and numbers,   *)
(* any caps and plans, and any calendar.                                   *)
(*                                                                         *)
(* A booking takes two steps: a count, and later the insert.  What ties    *)
(* them together is the shop's lock.  For the shop's own limits it freezes *)
(* the counted rows (WithinChecked).  For the limits over all shops it     *)
(* does not, but it leaves each shop at most one booking between count and *)
(* insert, so rows and bookings together stay below cap + number of shops  *)
(* (NumberBound, TotalBound).                                              *)
(***************************************************************************)
EXTENDS SendQuotas, FiniteSetTheorems, SequenceTheorems, TLAPS

Held == {"recipient", "shop", "global", "insert"}

\* A worker between lock and commit holds exactly the lock of its shop.
LockMatchesCall ==
  \A w \in Worker :
    /\ pc[w] # "idle" => call[w] \in Call
    /\ pc[w] \in Held => limits[w] \in Plan
    /\ \A s \in Shop : shopLock[s] = w <=> pc[w] \in Held /\ call[w].shop = s

\* The shops with a send to p on day d that is counted but not inserted yet.
Booking(p, d) ==
  {s \in Shop : \E w \in Worker :
     /\ pc[w] \in {"shop", "global", "insert"}
     /\ call[w].shop = s /\ call[w].phone = p /\ call[w].day = d}

\* The same behind the last check, whatever the number.
Inserting(d) ==
  {s \in Shop : \E w \in Worker :
     pc[w] = "insert" /\ call[w].shop = s /\ call[w].day = d}

NumberBound ==
  \A p \in Phone, d \in Day :
    Cardinality(ToNumber(journal, p, d)) + Cardinality(Booking(p, d))
      < RecipientCap + Cardinality(Shop)

TotalBound ==
  \A d \in Day :
    Cardinality(OnDay(journal, d)) + Cardinality(Inserting(d))
      < GlobalCap + Cardinality(Shop)

\* What a worker found out about its shop is still so.
WithinChecked ==
  \A w \in Worker :
    /\ pc[w] \in {"shop", "global", "insert"}
         => ~(limits[w].trial /\ call[w].phone \in Risky)
    /\ pc[w] \in {"global", "insert"}
         => /\ Cardinality(SentBy(journal, call[w].shop, call[w].day)) < limits[w].day
            /\ Cardinality(SentBy(journal, call[w].shop, MonthStart[call[w].day]))
                 < limits[w].month

Locked == TypeOK /\ LockMatchesCall

-----------------------------------------------------------------------------
(* The journal grows at its end                                            *)

LEMMA JournalIndices ==
  ASSUME NEW J \in Seq(Send)
  PROVE  /\ Len(J) \in Nat /\ DOMAIN J = 1 .. Len(J)
         /\ IsFiniteSet(DOMAIN J)
         /\ \A i \in DOMAIN J : J[i] \in Send
<1>1. Len(J) \in Nat /\ J \in [1 .. Len(J) -> Send] /\ DOMAIN J = 1 .. Len(J)
  BY LenProperties
<1>2. IsFiniteSet(1 .. Len(J))
  BY <1>1, FS_Interval
<1> QED
  BY <1>1, <1>2

\* Every filter of the journal selects finitely many rows.
LEMMA FilteredFinite ==
  ASSUME NEW J \in Seq(Send), NEW S \in SUBSET (DOMAIN J)
  PROVE  IsFiniteSet(S) /\ Cardinality(S) \in Nat
<1>1. IsFiniteSet(DOMAIN J)
  BY JournalIndices
<1>2. IsFiniteSet(S)
  BY <1>1, FS_Subset
<1> QED
  BY <1>2, FS_CardinalityType

LEMMA Appended ==
  ASSUME NEW J \in Seq(Send), NEW r \in Send
  PROVE  LET K == Append(J, r) IN
         /\ K \in Seq(Send)
         /\ DOMAIN K = DOMAIN J \cup {Len(J) + 1} /\ Len(J) + 1 \notin DOMAIN J
         /\ \A i \in DOMAIN J : K[i] = J[i]
         /\ K[Len(J) + 1] = r
<1>1. /\ Append(J, r) \in Seq(Send) /\ Len(Append(J, r)) = Len(J) + 1
      /\ \A i \in 1 .. Len(J) : Append(J, r)[i] = J[i]
      /\ Append(J, r)[Len(J) + 1] = r
  BY AppendProperties
<1>2. Len(J) \in Nat /\ DOMAIN J = 1 .. Len(J)
  BY JournalIndices
<1>3. DOMAIN Append(J, r) = 1 .. Len(J) + 1
  BY <1>1, JournalIndices
<1> QED
  BY <1>1, <1>2, <1>3

\* A new row raises the counts it matches by one and leaves the others.
LEMMA CountAppended ==
  ASSUME NEW J \in Seq(Send), NEW r \in Send
  PROVE  LET K == Append(J, r) IN
         /\ \A p, d : Cardinality(ToNumber(K, p, d)) =
              Cardinality(ToNumber(J, p, d)) + (IF r.phone = p /\ r.day = d THEN 1 ELSE 0)
         /\ \A d : Cardinality(OnDay(K, d)) =
              Cardinality(OnDay(J, d)) + (IF r.day = d THEN 1 ELSE 0)
         /\ \A s, d : r.shop # s => SentBy(K, s, d) = SentBy(J, s, d)
<1> DEFINE K == Append(J, r)
           n == Len(J) + 1
<1>1. /\ DOMAIN K = DOMAIN J \cup {n} /\ n \notin DOMAIN J
      /\ \A i \in DOMAIN J : K[i] = J[i]
      /\ K[n] = r
  BY Appended
<1> HIDE DEF K, n
<1>2. ASSUME NEW p, NEW d
      PROVE  Cardinality(ToNumber(K, p, d)) =
               Cardinality(ToNumber(J, p, d)) + (IF r.phone = p /\ r.day = d THEN 1 ELSE 0)
  <2>1. /\ IsFiniteSet(ToNumber(J, p, d)) /\ Cardinality(ToNumber(J, p, d)) \in Nat
        /\ n \notin ToNumber(J, p, d)
    BY <1>1, FilteredFinite DEF ToNumber
  <2>2. CASE r.phone = p /\ r.day = d
    <3>1. ToNumber(K, p, d) = ToNumber(J, p, d) \cup {n}
      BY <1>1, <2>2 DEF ToNumber
    <3>2. Cardinality(ToNumber(J, p, d) \cup {n}) = Cardinality(ToNumber(J, p, d)) + 1
      BY <2>1, FS_AddElement
    <3> QED
      BY <3>1, <3>2, <2>2
  <2>3. CASE ~(r.phone = p /\ r.day = d)
    <3>1. ToNumber(K, p, d) = ToNumber(J, p, d)
      BY <1>1, <2>3 DEF ToNumber
    <3> QED
      BY <3>1, <2>1, <2>3
  <2> QED
    BY <2>2, <2>3
<1>3. ASSUME NEW d
      PROVE  Cardinality(OnDay(K, d)) =
               Cardinality(OnDay(J, d)) + (IF r.day = d THEN 1 ELSE 0)
  <2>1. /\ IsFiniteSet(OnDay(J, d)) /\ Cardinality(OnDay(J, d)) \in Nat
        /\ n \notin OnDay(J, d)
    BY <1>1, FilteredFinite DEF OnDay
  <2>2. CASE r.day = d
    <3>1. OnDay(K, d) = OnDay(J, d) \cup {n}
      BY <1>1, <2>2 DEF OnDay
    <3>2. Cardinality(OnDay(J, d) \cup {n}) = Cardinality(OnDay(J, d)) + 1
      BY <2>1, FS_AddElement
    <3> QED
      BY <3>1, <3>2, <2>2
  <2>3. CASE r.day # d
    <3>1. OnDay(K, d) = OnDay(J, d)
      BY <1>1, <2>3 DEF OnDay
    <3> QED
      BY <3>1, <2>1, <2>3
  <2> QED
    BY <2>2, <2>3
<1>4. \A s, d : r.shop # s => SentBy(K, s, d) = SentBy(J, s, d)
  BY <1>1 DEF SentBy
<1> QED
  BY <1>2, <1>3, <1>4 DEF K

-----------------------------------------------------------------------------
(* Types and locks                                                         *)

LEMMA LockedInit == Init => Locked
BY QuotaConstants DEF Init, Locked, TypeOK, LockMatchesCall, Day, Steps, Held

\* A transaction that ends gives its lock back and leaves the others alone.
LEMMA Released ==
  ASSUME Locked, NEW w \in Worker, Release(w)
  PROVE  /\ pc' \in [Worker -> Steps] /\ shopLock' \in [Shop -> Worker \cup {None}]
         /\ call' \in [Worker -> Call \cup {None}]
         /\ limits' \in [Worker -> Plan \cup {None}]
         /\ LockMatchesCall'
         /\ pc'[w] = "idle"
         /\ \A v \in Worker \ {w} :
              pc'[v] = pc[v] /\ call'[v] = call[v] /\ limits'[v] = limits[v]
<1> USE QuotaConstants
<1>1. /\ pc' \in [Worker -> Steps] /\ shopLock' \in [Shop -> Worker \cup {None}]
      /\ call' \in [Worker -> Call \cup {None}]
      /\ limits' \in [Worker -> Plan \cup {None}]
  BY DEF Locked, TypeOK, Release, Goto, Steps
<1>2. /\ pc'[w] = "idle"
      /\ \A v \in Worker \ {w} :
           pc'[v] = pc[v] /\ call'[v] = call[v] /\ limits'[v] = limits[v]
  BY DEF Locked, TypeOK, Release, Goto
<1>3. \A v \in Worker, s \in Shop :
        shopLock'[s] = v <=> shopLock[s] = v /\ v # w
  BY DEF Locked, TypeOK, Release
<1>4. LockMatchesCall'
  BY <1>2, <1>3 DEF Locked, LockMatchesCall, Held
<1> QED
  BY <1>1, <1>2, <1>4

\* A step from one check to the next changes nothing but the step.
LEMMA Advanced ==
  ASSUME Locked, NEW w \in Worker, NEW step \in {"shop", "global", "insert"},
         pc[w] \in Held, Advance(w, step)
  PROVE  Locked' /\ pc'[w] = step /\ \A v \in Worker \ {w} : pc'[v] = pc[v]
<1>1. pc'[w] = step /\ \A v \in Worker \ {w} : pc'[v] = pc[v]
  BY DEF Locked, TypeOK, Advance, Goto
<1>2. TypeOK'
  BY DEF Locked, TypeOK, Advance, Goto, Steps
<1>3. LockMatchesCall'
  BY <1>1 DEF Locked, LockMatchesCall, Advance, Held
<1> QED
  BY <1>1, <1>2, <1>3 DEF Locked

\* The row that a worker is about to insert.
NewRow(w) == [shop |-> call[w].shop, phone |-> call[w].phone,
              day |-> call[w].day, limits |-> limits[w]]

\* What the insert step writes.
LEMMA Inserted ==
  ASSUME Locked, NEW w \in Worker, Insert(w)
  PROVE  /\ journal \in Seq(Send) /\ NewRow(w) \in Send
         /\ journal' = Append(journal, NewRow(w)) /\ journal' \in Seq(Send)
         /\ call[w] \in Call /\ shopLock[call[w].shop] = w
         /\ Release(w) /\ pc[w] = "insert"
<1>1. /\ journal \in Seq(Send) /\ NewRow(w) \in Send
      /\ call[w] \in Call /\ shopLock[call[w].shop] = w
  BY DEF Insert, At, Locked, TypeOK, LockMatchesCall, Held, Send, Call, NewRow
<1>2. journal' = Append(journal, NewRow(w)) /\ Release(w) /\ pc[w] = "insert"
  BY DEF Insert, At, NewRow
<1>3. journal' \in Seq(Send)
  BY <1>1, <1>2, Appended
<1> QED
  BY <1>1, <1>2, <1>3

LEMMA LockedNext == Locked /\ [Next]_vars => Locked'
<1> SUFFICES ASSUME Locked, [Next]_vars PROVE Locked'
  OBVIOUS
<1> USE QuotaConstants
<1>1. ASSUME NEW w \in Worker, Begin(w) PROVE Locked'
  <2>1. PICK s \in Shop, p \in Phone :
          call' = [call EXCEPT ![w] = [shop |-> s, phone |-> p, day |-> today]]
    BY <1>1 DEF Begin
  <2>2. [shop |-> s, phone |-> p, day |-> today] \in Call
    BY DEF Call, Locked, TypeOK
  <2>3. TypeOK'
    BY <1>1, <2>1, <2>2 DEF Begin, Goto, Steps, Locked, TypeOK
  <2>4. pc'[w] = "lock" /\ pc[w] = "idle" /\ call'[w] \in Call
    BY <1>1, <2>1, <2>2 DEF Begin, At, Goto, Locked, TypeOK
  <2>5. \A v \in Worker \ {w} : pc'[v] = pc[v] /\ call'[v] = call[v]
    BY <1>1, <2>1 DEF Begin, Goto, Locked, TypeOK
  <2>6. UNCHANGED <<shopLock, limits>>
    BY <1>1 DEF Begin
  <2>7. LockMatchesCall'
    BY <2>4, <2>5, <2>6 DEF Locked, LockMatchesCall, Held
  <2> QED
    BY <2>3, <2>7 DEF Locked
<1>2. ASSUME NEW w \in Worker, Lock(w) PROVE Locked'
  <2> DEFINE s == call[w].shop
  <2>1. call[w] \in Call /\ s \in Shop /\ pc[w] = "lock"
    BY <1>2 DEF Lock, At, Locked, LockMatchesCall, Call
  <2>2. TypeOK'
    BY <1>2, <2>1 DEF Lock, Goto, Steps, Locked, TypeOK
  <2>3. /\ pc'[w] = "recipient" /\ limits'[w] \in Plan /\ call' = call
        /\ \A v \in Worker \ {w} : pc'[v] = pc[v] /\ limits'[v] = limits[v]
    BY <1>2, <2>1 DEF Lock, Goto, Locked, TypeOK
  <2>4. /\ shopLock[s] = None /\ shopLock'[s] = w
        /\ \A t \in Shop \ {s} : shopLock'[t] = shopLock[t]
    BY <1>2, <2>1 DEF Lock, Locked, TypeOK
  <2> HIDE DEF s
  <2>5. ASSUME NEW v \in Worker, NEW t \in Shop
        PROVE  shopLock'[t] = v <=> pc'[v] \in Held /\ call'[v].shop = t
    <3>1. CASE v = w
      BY <3>1, <2>1, <2>3, <2>4 DEF Locked, LockMatchesCall, Held, s
    <3>2. CASE v # w
      BY <3>2, <2>1, <2>3, <2>4 DEF Locked, LockMatchesCall, Held
    <3> QED
      BY <3>1, <3>2
  <2>6. \A v \in Worker : /\ pc'[v] # "idle" => call'[v] \in Call
                          /\ pc'[v] \in Held => limits'[v] \in Plan
    BY <2>1, <2>3 DEF Locked, LockMatchesCall
  <2> QED
    BY <2>2, <2>5, <2>6 DEF Locked, LockMatchesCall
<1>3. ASSUME NEW w \in Worker, Refuse(w) PROVE Locked'
  BY <1>3, Released DEF Refuse, Locked, TypeOK
<1>4. ASSUME NEW w \in Worker, CheckRecipient(w) PROVE Locked'
  BY <1>3, <1>4, Advanced DEF CheckRecipient, At, Held
<1>5. ASSUME NEW w \in Worker, CheckShop(w) PROVE Locked'
  <2>1. Refuse(w) \/ Advance(w, "global")
    BY <1>5 DEF CheckShop
  <2> QED
    BY <2>1, <1>3, <1>5, Advanced DEF CheckShop, At, Held
<1>6. ASSUME NEW w \in Worker, CheckGlobal(w) PROVE Locked'
  <2>1. Refuse(w) \/ Advance(w, "insert")
    BY <1>6 DEF CheckGlobal
  <2> QED
    BY <2>1, <1>3, <1>6, Advanced DEF CheckGlobal, At, Held
<1>7. ASSUME NEW w \in Worker, Insert(w) PROVE Locked'
  <2>1. journal' \in Seq(Send)
    BY <1>7, Inserted
  <2> QED
    BY <1>7, <2>1, Inserted, Released DEF Insert, Locked, TypeOK
<1>8. ASSUME NEW w \in Worker, Abort(w) PROVE Locked'
  BY <1>3, <1>8 DEF Abort
<1>9. CASE ChangePlan
  BY <1>9 DEF ChangePlan, Locked, TypeOK, LockMatchesCall
<1>10. CASE Midnight
  BY <1>10 DEF Midnight, Locked, TypeOK, LockMatchesCall, Day
<1>11. CASE UNCHANGED vars
  BY <1>11 DEF vars, Locked, TypeOK, LockMatchesCall
<1> QED
  BY <1>1, <1>2, <1>4, <1>5, <1>6, <1>7, <1>8, <1>9, <1>10, <1>11 DEF Next, Reserve

\* The columns, steps and locks of reserve_send keep their types.
THEOREM QuotaTypes == Spec => []TypeOK
<1>1. Spec => []Locked
  BY LockedInit, LockedNext, PTL DEF Spec
<1> QED
  BY <1>1, PTL DEF Locked
-----------------------------------------------------------------------------
(* Limits over all shops                                                   *)

LEMMA BookingFinite ==
  ASSUME NEW S \in SUBSET Shop
  PROVE  IsFiniteSet(S) /\ Cardinality(S) \in Nat /\ Cardinality(Shop) \in Nat
         /\ Cardinality(S) <= Cardinality(Shop)
BY QuotaConstants, FS_Subset, FS_CardinalityType

\* Steps other than the two checks and the insert start no new booking.
LEMMA NoNewBooking ==
  ASSUME Locked, Locked', NEW w \in Worker, 
         pc'[w] \in {"idle", "lock", "recipient"} \/ (pc'[w] = pc[w] /\ call'[w] = call[w]),
         \A v \in Worker \ {w} : pc'[v] = pc[v] /\ call'[v] = call[v]
  PROVE  \A p, d : Booking(p, d)' \subseteq Booking(p, d)
                   /\ Inserting(d)' \subseteq Inserting(d)
BY DEF Booking, Inserting

\* An insert ends the booking of its shop, which had only this one.
LEMMA BookingEnds ==
  ASSUME Locked, NEW w \in Worker, Insert(w), NEW p \in Phone, NEW d \in Day
  PROVE  /\ call[w].phone = p /\ call[w].day = d =>
              /\ call[w].shop \in Booking(p, d)
              /\ Booking(p, d)' = Booking(p, d) \ {call[w].shop}
         /\ ~(call[w].phone = p /\ call[w].day = d) => Booking(p, d)' = Booking(p, d)
         /\ call[w].day = d =>
              /\ call[w].shop \in Inserting(d)
              /\ Inserting(d)' = Inserting(d) \ {call[w].shop}
         /\ call[w].day # d => Inserting(d)' = Inserting(d)
<1>0. PICK s \in Shop : s = call[w].shop
  BY Inserted DEF Call
<1>1. /\ pc[w] = "insert" /\ pc'[w] = "idle"
      /\ \A v \in Worker \ {w} : pc'[v] = pc[v] /\ call'[v] = call[v]
  BY Inserted, Released
<1>2. \A v \in Worker : pc[v] \in Held /\ call[v].shop = s => v = w
  BY <1>0, <1>1 DEF Locked, LockMatchesCall, Held
<1>3. \A v \in Worker : pc'[v] \in Held => v # w /\ call'[v].shop # s
  BY <1>0, <1>1, <1>2 DEF Held
<1>4. ASSUME call[w].phone = p, call[w].day = d
      PROVE  s \in Booking(p, d) /\ Booking(p, d)' = Booking(p, d) \ {s}
  <2>1. s \in Booking(p, d)
    BY <1>0, <1>1, <1>4 DEF Booking
  <2>2. Booking(p, d)' \subseteq Booking(p, d) \ {s}
    BY <1>0, <1>1, <1>3 DEF Booking, Held
  <2>3. Booking(p, d) \ {s} \subseteq Booking(p, d)'
    BY <1>0, <1>1 DEF Booking
  <2> QED
    BY <2>1, <2>2, <2>3
<1>5. ASSUME ~(call[w].phone = p /\ call[w].day = d)
      PROVE  Booking(p, d)' = Booking(p, d)
  BY <1>0, <1>1, <1>5 DEF Booking
<1>6. ASSUME call[w].day = d
      PROVE  s \in Inserting(d) /\ Inserting(d)' = Inserting(d) \ {s}
  <2>1. s \in Inserting(d)
    BY <1>0, <1>1, <1>6 DEF Inserting
  <2>2. Inserting(d)' \subseteq Inserting(d) \ {s}
    BY <1>0, <1>1, <1>3 DEF Inserting, Held
  <2>3. Inserting(d) \ {s} \subseteq Inserting(d)'
    BY <1>0, <1>1 DEF Inserting
  <2> QED
    BY <2>1, <2>2, <2>3
<1>7. ASSUME call[w].day # d PROVE Inserting(d)' = Inserting(d)
  BY <1>0, <1>1, <1>7 DEF Inserting
<1> QED
  BY <1>0, <1>4, <1>5, <1>6, <1>7

LEMMA BoundsInit == Init => NumberBound /\ TotalBound
<1> SUFFICES ASSUME Init PROVE NumberBound /\ TotalBound
  OBVIOUS
<1>1. Cardinality({}) = 0 /\ Cardinality(Shop) \in Nat
  BY FS_EmptySet, BookingFinite
<1>2. \A p \in Phone, d \in Day : ToNumber(journal, p, d) = {} /\ Booking(p, d) = {}
  BY DEF Init, ToNumber, Booking
<1>3. \A d \in Day : OnDay(journal, d) = {} /\ Inserting(d) = {}
  BY DEF Init, OnDay, Inserting
<1>4. NumberBound
  <2>1. \A p \in Phone, d \in Day :
          Cardinality(ToNumber(journal, p, d)) = 0 /\ Cardinality(Booking(p, d)) = 0
    BY <1>1, <1>2
  <2>2. 0 + 0 < RecipientCap + Cardinality(Shop)
    BY <1>1, QuotaConstants
  <2> QED
    BY <2>1, <2>2 DEF NumberBound
<1>5. TotalBound
  <2>1. \A d \in Day : Cardinality(OnDay(journal, d)) = 0 /\ Cardinality(Inserting(d)) = 0
    BY <1>1, <1>3
  <2>2. 0 + 0 < GlobalCap + Cardinality(Shop)
    BY <1>1, QuotaConstants
  <2> QED
    BY <2>1, <2>2 DEF TotalBound
<1> QED
  BY <1>4, <1>5

\* The two bounds survive a step that adds no row and no booking.
LEMMA BoundsKept ==
  ASSUME TypeOK, NumberBound, TotalBound, UNCHANGED journal,
         \A p, d : Booking(p, d)' \subseteq Booking(p, d)
                   /\ Inserting(d)' \subseteq Inserting(d)
  PROVE  NumberBound' /\ TotalBound'
<1>1. ASSUME NEW p \in Phone, NEW d \in Day
      PROVE  /\ Cardinality(Booking(p, d)') \in Nat /\ Cardinality(Booking(p, d)) \in Nat
             /\ Cardinality(Booking(p, d)') <= Cardinality(Booking(p, d))
             /\ Cardinality(ToNumber(journal, p, d)) \in Nat
  <2>1. IsFiniteSet(Booking(p, d))
    BY BookingFinite DEF Booking
  <2>2. Cardinality(ToNumber(journal, p, d)) \in Nat
    BY FilteredFinite DEF ToNumber, TypeOK
  <2> QED
    BY <2>1, <2>2, FS_Subset, FS_CardinalityType
<1>2. ASSUME NEW d \in Day
      PROVE  /\ Cardinality(Inserting(d)') \in Nat /\ Cardinality(Inserting(d)) \in Nat
             /\ Cardinality(Inserting(d)') <= Cardinality(Inserting(d))
             /\ Cardinality(OnDay(journal, d)) \in Nat
  <2>1. IsFiniteSet(Inserting(d))
    BY BookingFinite DEF Inserting
  <2>2. Cardinality(OnDay(journal, d)) \in Nat
    BY FilteredFinite DEF OnDay, TypeOK
  <2> QED
    BY <2>1, <2>2, FS_Subset, FS_CardinalityType
<1>3. Cardinality(Shop) \in Nat
  BY BookingFinite
<1>4. NumberBound'
  BY <1>1, <1>3, QuotaConstants DEF NumberBound
<1>5. TotalBound'
  BY <1>2, <1>3, QuotaConstants DEF TotalBound
<1> QED
  BY <1>4, <1>5
LEMMA BoundsInsert ==
  ASSUME Locked, Locked', NumberBound, TotalBound, NEW w \in Worker, Insert(w)
  PROVE  NumberBound' /\ TotalBound'
<1>1. /\ journal \in Seq(Send) /\ NewRow(w) \in Send
      /\ journal' = Append(journal, NewRow(w))
  BY Inserted
<1>2. NewRow(w).phone = call[w].phone /\ NewRow(w).day = call[w].day
  BY DEF NewRow
<1>3. ASSUME NEW p \in Phone, NEW d \in Day
      PROVE  (Cardinality(ToNumber(journal, p, d)) + Cardinality(Booking(p, d))
                < RecipientCap + Cardinality(Shop))'
  <2>1. /\ Cardinality(ToNumber(journal, p, d)) + Cardinality(Booking(p, d))
             < RecipientCap + Cardinality(Shop)
        /\ Cardinality(ToNumber(journal, p, d)) \in Nat
    BY <1>1, FilteredFinite DEF NumberBound, ToNumber
  <2>2. IsFiniteSet(Booking(p, d)) /\ Cardinality(Booking(p, d)) \in Nat
    BY BookingFinite DEF Booking
  <2>3. CASE call[w].phone = p /\ call[w].day = d
    <3>1. Cardinality(ToNumber(journal', p, d)) = Cardinality(ToNumber(journal, p, d)) + 1
      BY <1>1, <1>2, <2>3, CountAppended
    <3>2. Cardinality(Booking(p, d)') = Cardinality(Booking(p, d)) - 1
      BY <2>2, <2>3, BookingEnds, FS_RemoveElement
    <3> QED
      BY <2>1, <2>2, <3>1, <3>2, BookingFinite, QuotaConstants
  <2>4. CASE ~(call[w].phone = p /\ call[w].day = d)
    <3>1. Cardinality(ToNumber(journal', p, d)) = Cardinality(ToNumber(journal, p, d))
      BY <1>1, <1>2, <2>1, <2>4, CountAppended
    <3>2. Booking(p, d)' = Booking(p, d)
      BY <2>4, BookingEnds
    <3> QED
      BY <2>1, <3>1, <3>2
  <2> QED
    BY <2>3, <2>4
<1>4. ASSUME NEW d \in Day
      PROVE  (Cardinality(OnDay(journal, d)) + Cardinality(Inserting(d))
                < GlobalCap + Cardinality(Shop))'
  <2>0. call[w].phone \in Phone
    BY Inserted DEF Call
  <2>1. /\ Cardinality(OnDay(journal, d)) + Cardinality(Inserting(d))
             < GlobalCap + Cardinality(Shop)
        /\ Cardinality(OnDay(journal, d)) \in Nat
    BY <1>1, FilteredFinite DEF TotalBound, OnDay
  <2>2. IsFiniteSet(Inserting(d)) /\ Cardinality(Inserting(d)) \in Nat
    BY BookingFinite DEF Inserting
  <2>3. CASE call[w].day = d
    <3>1. Cardinality(OnDay(journal', d)) = Cardinality(OnDay(journal, d)) + 1
      BY <1>1, <1>2, <2>3, CountAppended
    <3>2. Cardinality(Inserting(d)') = Cardinality(Inserting(d)) - 1
      BY <2>0, <2>2, <2>3, BookingEnds, FS_RemoveElement
    <3> QED
      BY <2>1, <2>2, <3>1, <3>2, BookingFinite, QuotaConstants
  <2>4. CASE call[w].day # d
    <3>1. Cardinality(OnDay(journal', d)) = Cardinality(OnDay(journal, d))
      BY <1>1, <1>2, <2>1, <2>4, CountAppended
    <3>2. Inserting(d)' = Inserting(d)
      BY <2>0, <2>4, BookingEnds
    <3> QED
      BY <2>1, <3>1, <3>2
  <2> QED
    BY <2>3, <2>4
<1> QED
  BY <1>3, <1>4 DEF NumberBound, TotalBound

\* Passing the number's check: fewer rows than the cap, and no more bookings
\* than shops.
LEMMA BoundsRecipient ==
  ASSUME Locked, Locked', NumberBound, TotalBound, NEW w \in Worker,
         CheckRecipient(w), Advance(w, "shop")
  PROVE  NumberBound' /\ TotalBound'
<1>1. /\ pc[w] = "recipient" /\ pc'[w] = "shop" /\ call' = call /\ journal' = journal
      /\ \A v \in Worker \ {w} : pc'[v] = pc[v]
      /\ journal \in Seq(Send) /\ call[w] \in Call
  BY Advanced DEF CheckRecipient, At, Advance, Held, Locked, TypeOK, LockMatchesCall
<1>2. Cardinality(SentTo(journal, call[w].phone, call[w].day)) < RecipientCap
  BY <1>1, Released DEF CheckRecipient, Refuse
<1>3. ASSUME NEW p \in Phone, NEW d \in Day
      PROVE  (Cardinality(ToNumber(journal, p, d)) + Cardinality(Booking(p, d))
                < RecipientCap + Cardinality(Shop))'
  <2>1. CASE call[w].phone = p /\ call[w].day = d
    <3>1. ToNumber(journal, p, d) \subseteq SentTo(journal, p, d)
      <4>1. d >= d
        BY DEF Day
      <4> QED
        BY <4>1 DEF ToNumber, SentTo
    <3>2. IsFiniteSet(SentTo(journal, p, d)) /\ Cardinality(SentTo(journal, p, d)) \in Nat
      BY <1>1, FilteredFinite DEF SentTo
    <3>3. /\ Cardinality(ToNumber(journal, p, d)) <= Cardinality(SentTo(journal, p, d))
          /\ Cardinality(ToNumber(journal, p, d)) \in Nat
      BY <3>1, <3>2, FS_Subset, FS_CardinalityType
    <3>4. /\ Cardinality(Booking(p, d)') \in Nat /\ Cardinality(Shop) \in Nat
          /\ Cardinality(Booking(p, d)') <= Cardinality(Shop)
      BY BookingFinite DEF Booking
    <3> QED
      BY <1>1, <1>2, <2>1, <3>2, <3>3, <3>4, QuotaConstants
  <2>2. CASE ~(call[w].phone = p /\ call[w].day = d)
    <3>1. Booking(p, d)' = Booking(p, d)
      BY <1>1, <2>2 DEF Booking
    <3> QED
      BY <1>1, <3>1 DEF NumberBound
  <2> QED
    BY <2>1, <2>2
<1>4. \A d : Inserting(d)' = Inserting(d)
  BY <1>1 DEF Inserting
<1>5. TotalBound'
  BY <1>1, <1>4 DEF TotalBound
<1> QED
  BY <1>3, <1>5 DEF NumberBound

\* Passing the check of the whole service, in the same way.
LEMMA BoundsGlobal ==
  ASSUME Locked, Locked', NumberBound, TotalBound, NEW w \in Worker,
         CheckGlobal(w), Advance(w, "insert")
  PROVE  NumberBound' /\ TotalBound'
<1>1. /\ pc[w] = "global" /\ pc'[w] = "insert" /\ call' = call /\ journal' = journal
      /\ \A v \in Worker \ {w} : pc'[v] = pc[v]
      /\ journal \in Seq(Send) /\ call[w] \in Call
  BY Advanced DEF CheckGlobal, At, Advance, Held, Locked, TypeOK, LockMatchesCall
<1>2. ~(Cardinality(SentSince(journal, call[w].day)) >= GlobalCap)
  BY <1>1, Released DEF CheckGlobal, Refuse
<1>3. ASSUME NEW d \in Day
      PROVE  (Cardinality(OnDay(journal, d)) + Cardinality(Inserting(d))
                < GlobalCap + Cardinality(Shop))'
  <2>1. CASE call[w].day = d
    <3>1. OnDay(journal, d) \subseteq SentSince(journal, d)
      <4>1. d >= d
        BY DEF Day
      <4> QED
        BY <4>1 DEF OnDay, SentSince
    <3>2. IsFiniteSet(SentSince(journal, d)) /\ Cardinality(SentSince(journal, d)) \in Nat
      BY <1>1, FilteredFinite DEF SentSince
    <3>3. /\ Cardinality(OnDay(journal, d)) <= Cardinality(SentSince(journal, d))
          /\ Cardinality(OnDay(journal, d)) \in Nat
      BY <3>1, <3>2, FS_Subset, FS_CardinalityType
    <3>4. /\ Cardinality(Inserting(d)') \in Nat /\ Cardinality(Shop) \in Nat
          /\ Cardinality(Inserting(d)') <= Cardinality(Shop)
      BY BookingFinite DEF Inserting
    <3> QED
      BY <1>1, <1>2, <2>1, <3>2, <3>3, <3>4, QuotaConstants
  <2>2. CASE call[w].day # d
    <3>1. Inserting(d)' = Inserting(d)
      BY <1>1, <2>2 DEF Inserting
    <3> QED
      BY <1>1, <3>1 DEF TotalBound
  <2> QED
    BY <2>1, <2>2
<1>4. \A p, d : Booking(p, d)' = Booking(p, d)
  BY <1>1 DEF Booking
<1>5. NumberBound'
  BY <1>1, <1>4 DEF NumberBound
<1> QED
  BY <1>3, <1>5 DEF TotalBound
LEMMA BoundsNext ==
  Locked /\ Locked' /\ NumberBound /\ TotalBound /\ [Next]_vars
    => NumberBound' /\ TotalBound'
<1> SUFFICES ASSUME Locked, Locked', NumberBound, TotalBound, [Next]_vars
             PROVE  NumberBound' /\ TotalBound'
  OBVIOUS
<1> USE DEF Locked
<1>1. ASSUME NEW w \in Worker, Begin(w) PROVE NumberBound' /\ TotalBound'
  <2>1. /\ pc'[w] = "lock" /\ journal' = journal
        /\ \A v \in Worker \ {w} : pc'[v] = pc[v] /\ call'[v] = call[v]
    BY <1>1 DEF Begin, Goto, TypeOK
  <2> QED
    BY <2>1, NoNewBooking, BoundsKept
<1>2. ASSUME NEW w \in Worker, Lock(w) PROVE NumberBound' /\ TotalBound'
  <2>1. /\ pc'[w] = "recipient" /\ journal' = journal /\ call' = call
        /\ \A v \in Worker \ {w} : pc'[v] = pc[v]
    BY <1>2 DEF Lock, Goto, TypeOK
  <2> QED
    BY <2>1, NoNewBooking, BoundsKept
<1>3. ASSUME NEW w \in Worker, Refuse(w) PROVE NumberBound' /\ TotalBound'
  <2>1. /\ pc'[w] = "idle" /\ journal' = journal
        /\ \A v \in Worker \ {w} : pc'[v] = pc[v] /\ call'[v] = call[v]
    BY <1>3, Released DEF Refuse
  <2> QED
    BY <2>1, NoNewBooking, BoundsKept
<1>4. ASSUME NEW w \in Worker, CheckRecipient(w) PROVE NumberBound' /\ TotalBound'
  BY <1>3, <1>4, BoundsRecipient DEF CheckRecipient
<1>5. ASSUME NEW w \in Worker, CheckShop(w) PROVE NumberBound' /\ TotalBound'
  <2>1. CASE Refuse(w)
    BY <1>3, <2>1
  <2>2. CASE Advance(w, "global")
    <3>1. /\ pc'[w] = "global" /\ pc[w] = "shop" /\ journal' = journal /\ call' = call
          /\ \A v \in Worker \ {w} : pc'[v] = pc[v]
      BY <1>5, <2>2 DEF CheckShop, At, Advance, Goto, TypeOK
    <3>2. \A p, d : Booking(p, d)' \subseteq Booking(p, d)
                    /\ Inserting(d)' \subseteq Inserting(d)
      BY <3>1 DEF Booking, Inserting
    <3> QED
      BY <3>1, <3>2, BoundsKept
  <2> QED
    BY <1>5, <2>1, <2>2 DEF CheckShop
<1>6. ASSUME NEW w \in Worker, CheckGlobal(w) PROVE NumberBound' /\ TotalBound'
  <2>1. Refuse(w) \/ Advance(w, "insert")
    BY <1>6 DEF CheckGlobal
  <2> QED
    BY <1>3, <1>6, <2>1, BoundsGlobal
<1>7. ASSUME NEW w \in Worker, Insert(w) PROVE NumberBound' /\ TotalBound'
  BY <1>7, BoundsInsert
<1>8. ASSUME NEW w \in Worker, Abort(w) PROVE NumberBound' /\ TotalBound'
  BY <1>3, <1>8 DEF Abort
<1>9. CASE ChangePlan \/ Midnight \/ UNCHANGED vars
  <2>1. UNCHANGED <<journal, pc, call>>
    BY <1>9 DEF ChangePlan, Midnight, vars
  <2>2. \A p, d : Booking(p, d)' \subseteq Booking(p, d)
                  /\ Inserting(d)' \subseteq Inserting(d)
    BY <2>1 DEF Booking, Inserting
  <2> QED
    BY <2>1, <2>2, BoundsKept
<1> QED
  BY <1>1, <1>2, <1>4, <1>5, <1>6, <1>7, <1>8, <1>9 DEF Next, Reserve

LEMMA BoundsGiveOvershoot ==
  Locked /\ NumberBound /\ TotalBound => RecipientOvershoot /\ GlobalOvershoot
<1> SUFFICES ASSUME Locked, NumberBound, TotalBound
             PROVE  RecipientOvershoot /\ GlobalOvershoot
  OBVIOUS
<1>1. \A p \in Phone, d \in Day :
        /\ Cardinality(ToNumber(journal, p, d)) \in Nat
        /\ Cardinality(Booking(p, d)) \in Nat
  BY FilteredFinite, BookingFinite DEF ToNumber, Booking, Locked, TypeOK
<1>2. \A d \in Day :
        Cardinality(OnDay(journal, d)) \in Nat /\ Cardinality(Inserting(d)) \in Nat
  BY FilteredFinite, BookingFinite DEF OnDay, Inserting, Locked, TypeOK
<1>3. Cardinality(Shop) \in Nat
  BY BookingFinite
<1>4. RecipientOvershoot
  BY <1>1, <1>3, QuotaConstants DEF NumberBound, RecipientOvershoot
<1>5. GlobalOvershoot
  BY <1>2, <1>3, QuotaConstants DEF TotalBound, GlobalOvershoot
<1> QED
  BY <1>4, <1>5

LEMMA BoundsAlways == Spec => [](Locked /\ NumberBound /\ TotalBound)
<1>1. Init => Locked /\ NumberBound /\ TotalBound
  BY LockedInit, BoundsInit
<1>2. Locked /\ NumberBound /\ TotalBound /\ [Next]_vars
        => (Locked /\ NumberBound /\ TotalBound)'
  BY LockedNext, BoundsNext
<1> QED
  BY <1>1, <1>2, PTL DEF Spec

\* The cap of a number is missed by less than the number of shops, for any
\* number of workers: a count and its insert are apart, but each shop has at
\* most one such pair open.
THEOREM RecipientNeverFarOver == Spec => []RecipientOvershoot
BY BoundsAlways, BoundsGiveOvershoot, PTL

\* The same for the daily fuse of the whole service.
THEOREM GlobalNeverFarOver == Spec => []GlobalOvershoot
BY BoundsAlways, BoundsGiveOvershoot, PTL
-----------------------------------------------------------------------------
(* Limits of one shop                                                      *)

LEMMA PlanLimits ==
  ASSUME NEW l \in Plan
  PROVE  l.day \in Nat /\ l.month \in Nat /\ l.trial \in BOOLEAN
BY QuotaConstants

LEMMA MonthBegins ==
  ASSUME NEW d \in Day
  PROVE  MonthStart[d] \in Day /\ MonthStart[d] <= d
BY QuotaConstants DEF Day

\* An insert does not change what another worker counted: that worker's shop
\* is another one.
LEMMA CheckedInsert ==
  ASSUME Locked, WithinChecked, NEW w \in Worker, Insert(w)
  PROVE  WithinChecked'
<1>1. /\ journal' = Append(journal, NewRow(w)) /\ journal \in Seq(Send)
      /\ NewRow(w) \in Send /\ pc[w] = "insert" /\ pc'[w] = "idle"
      /\ call[w] \in Call
      /\ \A v \in Worker \ {w} :
           pc'[v] = pc[v] /\ call'[v] = call[v] /\ limits'[v] = limits[v]
  BY Inserted, Released
<1>2. ASSUME NEW v \in Worker, v # w, pc[v] \in Held, NEW d
      PROVE  SentBy(journal', call[v].shop, d) = SentBy(journal, call[v].shop, d)
  <2>1. call[v].shop # call[w].shop
    BY <1>1, <1>2 DEF Locked, LockMatchesCall, Held, Call
  <2>2. NewRow(w).shop = call[w].shop
    BY DEF NewRow
  <2> QED
    BY <1>1, <2>1, <2>2, CountAppended
<1>3. ASSUME NEW v \in Worker
      PROVE  (/\ pc[v] \in {"shop", "global", "insert"}
                   => ~(limits[v].trial /\ call[v].phone \in Risky)
              /\ pc[v] \in {"global", "insert"}
                   => /\ Cardinality(SentBy(journal, call[v].shop, call[v].day))
                           < limits[v].day
                      /\ Cardinality(SentBy(journal, call[v].shop, MonthStart[call[v].day]))
                           < limits[v].month)'
  <2>1. CASE v = w
    BY <1>1, <2>1
  <2>2. CASE v # w
    BY <1>1, <1>2, <2>2 DEF WithinChecked, Held
  <2> QED
    BY <2>1, <2>2
<1> QED
  BY <1>3 DEF WithinChecked

LEMMA CheckedNext == Locked /\ WithinChecked /\ [Next]_vars => WithinChecked'
<1> SUFFICES ASSUME Locked, WithinChecked, [Next]_vars PROVE WithinChecked'
  OBVIOUS
<1>1. ASSUME NEW w \in Worker, UNCHANGED journal,
             pc'[w] \in {"idle", "lock", "recipient"},
             \A v \in Worker \ {w} :
               pc'[v] = pc[v] /\ call'[v] = call[v] /\ limits'[v] = limits[v]
      PROVE  WithinChecked'
  BY <1>1 DEF WithinChecked
<1>2. ASSUME NEW w \in Worker, Begin(w) PROVE WithinChecked'
  <2>1. /\ pc'[w] = "lock" /\ journal' = journal
        /\ \A v \in Worker \ {w} :
             pc'[v] = pc[v] /\ call'[v] = call[v] /\ limits'[v] = limits[v]
    BY <1>2 DEF Begin, Goto, Locked, TypeOK
  <2> QED
    BY <1>1, <2>1
<1>3. ASSUME NEW w \in Worker, Lock(w) PROVE WithinChecked'
  <2>1. /\ pc'[w] = "recipient" /\ journal' = journal
        /\ \A v \in Worker \ {w} :
             pc'[v] = pc[v] /\ call'[v] = call[v] /\ limits'[v] = limits[v]
    BY <1>3 DEF Lock, Goto, Locked, TypeOK
  <2> QED
    BY <1>1, <2>1
<1>4. ASSUME NEW w \in Worker, Refuse(w) PROVE WithinChecked'
  BY <1>1, <1>4, Released DEF Refuse
<1>5. ASSUME NEW w \in Worker, CheckRecipient(w) PROVE WithinChecked'
  <2>1. CASE Refuse(w)
    BY <1>4, <2>1
  <2>2. CASE Advance(w, "shop") /\ ~(limits[w].trial /\ call[w].phone \in Risky)
    <3>1. /\ pc'[w] = "shop" /\ UNCHANGED <<journal, call, limits>>
          /\ \A v \in Worker \ {w} : pc'[v] = pc[v]
      BY <2>2 DEF Advance, Goto, Locked, TypeOK
    <3> QED
      BY <2>2, <3>1 DEF WithinChecked
  <2> QED
    BY <1>5, <2>1, <2>2 DEF CheckRecipient
<1>6. ASSUME NEW w \in Worker, CheckShop(w) PROVE WithinChecked'
  <2> DEFINE day == Cardinality(SentBy(journal, call[w].shop, call[w].day))
             month == Cardinality(SentBy(journal, call[w].shop, MonthStart[call[w].day]))
  <2>1. CASE Refuse(w)
    BY <1>4, <2>1
  <2>2. CASE Advance(w, "global") /\ ~(day >= limits[w].day \/ month >= limits[w].month)
    <3>1. /\ pc[w] = "shop" /\ pc'[w] = "global" /\ UNCHANGED <<journal, call, limits>>
          /\ \A v \in Worker \ {w} : pc'[v] = pc[v]
      BY <1>6, <2>2 DEF CheckShop, At, Advance, Goto, Locked, TypeOK
    <3>2. journal \in Seq(Send) /\ limits[w] \in Plan
      BY <3>1 DEF Locked, TypeOK, LockMatchesCall, Held
    <3>3. limits[w].day \in Nat /\ limits[w].month \in Nat
      BY <3>2, PlanLimits
    <3>4. day \in Nat /\ month \in Nat
      BY <3>2, FilteredFinite DEF SentBy
    <3>5. day < limits[w].day /\ month < limits[w].month
      BY <2>2, <3>3, <3>4
    <3> QED
      BY <3>1, <3>5 DEF WithinChecked
  <2> QED
    BY <1>6, <2>1, <2>2 DEF CheckShop
<1>7. ASSUME NEW w \in Worker, CheckGlobal(w) PROVE WithinChecked'
  <2>1. CASE Refuse(w)
    BY <1>4, <2>1
  <2>2. CASE Advance(w, "insert")
    <3>1. /\ pc[w] = "global" /\ pc'[w] = "insert" /\ UNCHANGED <<journal, call, limits>>
          /\ \A v \in Worker \ {w} : pc'[v] = pc[v]
      BY <1>7, <2>2 DEF CheckGlobal, At, Advance, Goto, Locked, TypeOK
    <3> QED
      BY <3>1 DEF WithinChecked
  <2> QED
    BY <1>7, <2>1, <2>2 DEF CheckGlobal
<1>8. ASSUME NEW w \in Worker, Abort(w) PROVE WithinChecked'
  BY <1>4, <1>8 DEF Abort
<1>9. CASE ChangePlan \/ Midnight \/ UNCHANGED vars
  BY <1>9 DEF ChangePlan, Midnight, vars, WithinChecked
<1> QED
  BY <1>2, <1>3, <1>5, <1>6, <1>7, <1>8, <1>9, CheckedInsert DEF Next, Reserve
\* A set within a counted one and one more element.
LEMMA OneMore ==
  ASSUME NEW S, IsFiniteSet(S), NEW n, NEW T \in SUBSET (S \cup {n}), NEW m \in Nat,
         Cardinality(S) < m
  PROVE  Cardinality(T) <= m
<1>1. /\ IsFiniteSet(S \cup {n}) /\ Cardinality(S) \in Nat
      /\ Cardinality(S \cup {n}) <= Cardinality(S) + 1
  BY FS_AddElement, FS_CardinalityType
<1>2. /\ Cardinality(T) <= Cardinality(S \cup {n})
      /\ Cardinality(T) \in Nat /\ Cardinality(S \cup {n}) \in Nat
  BY <1>1, FS_Subset, FS_CardinalityType
<1> QED
  BY <1>1, <1>2

LEMMA PlanInsert ==
  ASSUME Locked, WithinChecked, WithinPlan, NEW w \in Worker, Insert(w)
  PROVE  WithinPlan'
<1> DEFINE r == NewRow(w)
           n == Len(journal) + 1
<1>1. /\ journal' = Append(journal, r) /\ journal \in Seq(Send) /\ r \in Send
      /\ pc[w] = "insert" /\ call[w] \in Call /\ limits[w] \in Plan
  BY Inserted DEF Locked, LockMatchesCall, Held
<1>2. /\ DOMAIN journal' = DOMAIN journal \cup {n}
      /\ \A i \in DOMAIN journal : journal'[i] = journal[i]
      /\ journal'[n] = r
  BY <1>1, Appended
<1>3. Len(journal) \in Nat /\ DOMAIN journal = 1 .. Len(journal)
  BY <1>1, JournalIndices
<1>4. /\ r.shop = call[w].shop /\ r.day = call[w].day
      /\ r.phone = call[w].phone /\ r.limits = limits[w]
  BY DEF NewRow
<1> HIDE DEF r, n
<1>5. ASSUME NEW i \in DOMAIN journal
      PROVE  /\ SameDay(journal', i) = SameDay(journal, i)
             /\ SameMonth(journal', i) = SameMonth(journal, i)
  <2>1. \A j \in 1 .. i : j \in DOMAIN journal
    BY <1>3
  <2> QED
    BY <1>2, <2>1 DEF SameDay, SameMonth
<1>6. \A j \in 1 .. n : j # n => j \in DOMAIN journal
  BY <1>3 DEF n
<1>7. Cardinality(SameDay(journal', n)) <= limits[w].day
  <2> DEFINE S == SentBy(journal, call[w].shop, call[w].day)
  <2>1. SameDay(journal', n) \subseteq S \cup {n}
    <3>1. ASSUME NEW j \in 1 .. n, j # n, journal'[j].shop = r.shop, journal'[j].day = r.day
          PROVE  j \in S
      <4>1. j \in DOMAIN journal /\ journal[j] = journal'[j]
        BY <1>2, <1>6, <3>1
      <4>2. call[w].day >= call[w].day
        BY <1>1 DEF Call, Day
      <4> QED
        BY <1>4, <3>1, <4>1, <4>2 DEF SentBy
    <3> QED
      BY <1>2, <3>1 DEF SameDay
  <2>2. IsFiniteSet(S)
    BY <1>1, FilteredFinite DEF SentBy
  <2>3. Cardinality(S) < limits[w].day /\ limits[w].day \in Nat
    BY <1>1, PlanLimits DEF WithinChecked
  <2> HIDE DEF S
  <2> QED
    BY <2>1, <2>2, <2>3, OneMore
<1>8. Cardinality(SameMonth(journal', n)) <= limits[w].month
  <2> DEFINE m == MonthStart[call[w].day]
             S == SentBy(journal, call[w].shop, m)
  <2>1. SameMonth(journal', n) \subseteq S \cup {n}
    <3>1. ASSUME NEW j \in 1 .. n, j # n, journal'[j].shop = r.shop,
                 MonthStart[journal'[j].day] = MonthStart[r.day]
          PROVE  j \in S
      <4>1. j \in DOMAIN journal /\ journal[j] = journal'[j]
        BY <1>2, <1>6, <3>1
      <4>2. journal[j].day \in Day /\ call[w].day \in Day
        BY <1>1, <4>1, JournalIndices DEF Send, Call
      <4>3. m = MonthStart[journal[j].day]
        BY <1>4, <3>1, <4>1
      <4>4. journal[j].day \in Int /\ m \in Int /\ journal[j].day >= m
        BY <4>2, <4>3, MonthBegins DEF Day
      <4> QED
        BY <1>4, <3>1, <4>1, <4>4 DEF SentBy
    <3> QED
      BY <1>2, <3>1 DEF SameMonth
  <2>2. IsFiniteSet(S)
    BY <1>1, FilteredFinite DEF SentBy
  <2>3. Cardinality(S) < limits[w].month /\ limits[w].month \in Nat
    BY <1>1, PlanLimits DEF WithinChecked
  <2> HIDE DEF S, m
  <2> QED
    BY <2>1, <2>2, <2>3, OneMore
<1>9. ~(limits[w].trial /\ r.phone \in Risky)
  BY <1>1, <1>4 DEF WithinChecked
<1> QED
  BY <1>2, <1>4, <1>5, <1>7, <1>8, <1>9 DEF WithinPlan

\* Only the insert step changes the journal.
LEMMA JournalStep ==
  ASSUME [Next]_vars, journal' # journal
  PROVE  \E w \in Worker : Insert(w)
BY DEF Next, Reserve, Begin, Lock, CheckRecipient, CheckShop, CheckGlobal, Abort,
       Refuse, Advance, ChangePlan, Midnight, vars

\* Every send is within the limits of its shop's plan, whatever races, whenever
\* midnight falls and however often the plan changes.
THEOREM ShopLimitsHold == Spec => []WithinPlan
<1>1. Init => Locked /\ WithinChecked /\ WithinPlan
  <2>1. Init => WithinChecked /\ WithinPlan
    BY DEF Init, WithinChecked, WithinPlan
  <2> QED
    BY <2>1, LockedInit
<1>2. Locked /\ WithinChecked /\ WithinPlan /\ [Next]_vars
        => (Locked /\ WithinChecked /\ WithinPlan)'
  <2> SUFFICES ASSUME Locked, WithinChecked, WithinPlan, [Next]_vars
               PROVE  WithinPlan'
    BY LockedNext, CheckedNext
  <2>1. CASE journal' = journal
    BY <2>1 DEF WithinPlan, SameDay, SameMonth
  <2>2. CASE journal' # journal
    BY <2>2, JournalStep, PlanInsert
  <2> QED
    BY <2>1, <2>2
<1> QED
  BY <1>1, <1>2, PTL DEF Spec
=============================================================================
