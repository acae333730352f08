----------------------------- MODULE SendQuotas -----------------------------
(***************************************************************************)
(* notifications/quotas.py: every message to a recipient is first booked   *)
(* in the OutboundSend journal, and booked only within the limits of its   *)
(* shop, of the recipient's number and of the whole service.               *)
(*                                                                         *)
(* Requests of many shops book at the same time.  reserve_send locks the   *)
(* row of ITS shop; the counts over all shops are plain SELECTs that see   *)
(* what is committed when they run.  `now` is read before the lock is      *)
(* waited for, so midnight may fall between the two.                       *)
(***************************************************************************)
EXTENDS Naturals, Sequences, FiniteSets

CONSTANTS
  Worker,        \* threads that serve requests
  Shop,
  Phone,         \* recipient numbers in E.164
  Risky,         \* those that are not Serbian mobile numbers
  Plan,          \* the limits a shop can have: [day, month, trial]
  RecipientCap,  \* SEND_LIMIT_RECIPIENT_DAY
  GlobalCap,     \* SEND_LIMIT_GLOBAL_DAY
  LastDay,       \* bound: the calendar stops here
  MonthStart,    \* per day: the first day of its month
  None           \* no lock holder, no call under way

ASSUME QuotaConstants ==
  /\ IsFiniteSet(Shop) /\ Shop # {} /\ None \notin Shop \cup Worker
  /\ Risky \subseteq Phone
  /\ Plan \subseteq [day : Nat, month : Nat, trial : BOOLEAN]
  /\ RecipientCap \in Nat \ {0} /\ GlobalCap \in Nat \ {0}
  /\ LastDay \in Nat
  /\ MonthStart \in [0 .. LastDay -> 0 .. LastDay]
  /\ \A d \in 0 .. LastDay : MonthStart[d] <= d

VARIABLES
  today,     \* the date in Belgrade
  plan,      \* per shop: what shop_limits returns for it now
  journal,   \* the OutboundSend rows, in the order they were inserted
  shopLock,  \* per shop: the worker holding SELECT ... FOR UPDATE
  pc,        \* per worker: step of reserve_send
  call,      \* per worker: its shop, number and `now`
  limits     \* per worker: the limits _check read for its shop

vars == <<today, plan, journal, shopLock, pc, call, limits>>

-----------------------------------------------------------------------------
Day   == 0 .. LastDay
Call  == [shop : Shop, phone : Phone, day : Day]
\* A journal row; `limits` is history: the limits it was booked under.
Send  == [shop : Shop, phone : Phone, day : Day, limits : Plan]
Steps == {"idle", "lock", "recipient", "shop", "global", "insert"}

\* Filters of the journal: created_at__gte, so from the given day on.
SentTo(J, p, d)  == {i \in DOMAIN J : J[i].phone = p /\ J[i].day >= d}
SentBy(J, s, d)  == {i \in DOMAIN J : J[i].shop = s /\ J[i].day >= d}
SentSince(J, d)  == {i \in DOMAIN J : J[i].day >= d}

Init ==
  /\ today = 0
  /\ plan \in [Shop -> Plan]
  /\ journal = <<>>
  /\ shopLock = [s \in Shop |-> None]
  /\ pc = [w \in Worker |-> "idle"]
  /\ call = [w \in Worker |-> None]
  /\ limits = [w \in Worker |-> None]

-----------------------------------------------------------------------------
At(w, step) == pc[w] = step
Goto(w, step) == pc' = [pc EXCEPT ![w] = step]

\* The transaction ends, by commit or rollback: its lock goes with it.
Release(w) ==
  /\ shopLock' = [s \in Shop |-> IF shopLock[s] = w THEN None ELSE shopLock[s]]
  /\ Goto(w, "idle")
  /\ call' = [call EXCEPT ![w] = None]
  /\ limits' = [limits EXCEPT ![w] = None]

\* QuotaExceeded: the journal is not changed.
Refuse(w) == Release(w) /\ UNCHANGED <<today, plan, journal>>

Advance(w, step) ==
  Goto(w, step) /\ UNCHANGED <<today, plan, journal, shopLock, call, limits>>

\* start_delivery, a resend or the rating callback wants to send.
Begin(w) ==
  /\ At(w, "idle")
  /\ \E s \in Shop, p \in Phone :
       call' = [call EXCEPT ![w] = [shop |-> s, phone |-> p, day |-> today]]
  /\ Goto(w, "lock")
  /\ UNCHANGED <<today, plan, journal, shopLock, limits>>

\* Mutant: the shop is read without FOR UPDATE.
Lock_PlainRead(w) ==
  /\ At(w, "lock")
  /\ limits' = [limits EXCEPT ![w] = plan[call[w].shop]]
  /\ Goto(w, "recipient")
  /\ UNCHANGED <<today, plan, journal, shopLock, call>>

\* Lock the shop's row and read its limits.
Lock(w) ==
  /\ At(w, "lock")
  /\ LET s == call[w].shop IN
       /\ shopLock[s] = None
       /\ shopLock' = [shopLock EXCEPT ![s] = w]
       /\ limits' = [limits EXCEPT ![w] = plan[s]]
  /\ Goto(w, "recipient")
  /\ UNCHANGED <<today, plan, journal, call>>

\* Mutant: the count may reach one above the cap.
CheckRecipient_OffByOne(w) ==
  /\ At(w, "recipient")
  /\ LET c == call[w] IN
       \/ Refuse(w)
       \/ /\ ~(limits[w].trial /\ c.phone \in Risky)
          /\ Cardinality(SentTo(journal, c.phone, c.day)) <= RecipientCap
          /\ Advance(w, "shop")

\* A trial shop may not send abroad; one number has a daily cap over all
\* shops.  A repeated message may also be refused by its delivery's own cap
\* (module DeliveryLifecycle).
CheckRecipient(w) ==
  /\ At(w, "recipient")
  /\ LET c == call[w] IN
       \/ Refuse(w)
       \/ /\ ~(limits[w].trial /\ c.phone \in Risky)
          /\ Cardinality(SentTo(journal, c.phone, c.day)) < RecipientCap
          /\ Advance(w, "shop")

\* The shop's own daily and monthly limits.
CheckShop(w) ==
  /\ At(w, "shop")
  /\ LET c == call[w]
         day   == Cardinality(SentBy(journal, c.shop, c.day))
         month == Cardinality(SentBy(journal, c.shop, MonthStart[c.day]))
     IN IF day >= limits[w].day \/ month >= limits[w].month
        THEN Refuse(w)
        ELSE Advance(w, "global")

\* Mutant: the total is counted from the shop's own rows.
CheckGlobal_OwnRows(w) ==
  /\ At(w, "global")
  /\ IF Cardinality(SentBy(journal, call[w].shop, call[w].day)) >= GlobalCap
     THEN Refuse(w)
     ELSE Advance(w, "insert")

\* The whole service's daily cap.
CheckGlobal(w) ==
  /\ At(w, "global")
  /\ IF Cardinality(SentSince(journal, call[w].day)) >= GlobalCap
     THEN Refuse(w)
     ELSE Advance(w, "insert")

\* The row is inserted; others see it when the (outermost) transaction commits.
Insert(w) ==
  /\ At(w, "insert")
  /\ journal' = Append(journal,
       [shop |-> call[w].shop, phone |-> call[w].phone, day |-> call[w].day,
        limits |-> limits[w]])
  /\ Release(w)
  /\ UNCHANGED <<today, plan>>

\* A worker dies, or start_delivery's outer transaction rolls back.
Abort(w) ==
  /\ ~At(w, "idle")
  /\ Refuse(w)

\* Staff verifies a shop or sets its limits (a save of the locked row waits),
\* the trial ends, a subscription starts or stops.
ChangePlan ==
  /\ \E s \in Shop, l \in Plan : plan' = [plan EXCEPT ![s] = l]
  /\ UNCHANGED <<today, journal, shopLock, pc, call, limits>>

Midnight ==
  /\ today < LastDay
  /\ today' = today + 1
  /\ UNCHANGED <<plan, journal, shopLock, pc, call, limits>>

Reserve(w) ==
  \/ Lock(w) \/ CheckRecipient(w) \/ CheckShop(w) \/ CheckGlobal(w) \/ Insert(w)

Next ==
  \/ \E w \in Worker : Begin(w) \/ Reserve(w) \/ Abort(w)
  \/ ChangePlan
  \/ Midnight

Spec == Init /\ [][Next]_vars
-----------------------------------------------------------------------------
TypeOK ==
  /\ today \in Day
  /\ plan \in [Shop -> Plan]
  /\ journal \in Seq(Send)
  /\ shopLock \in [Shop -> Worker \cup {None}]
  /\ pc \in [Worker -> Steps]
  /\ call \in [Worker -> Call \cup {None}]
  /\ limits \in [Worker -> Plan \cup {None}]

\* The sends of a shop on the day (in the month) of send i, up to send i.
SameDay(J, i) ==
  {j \in 1 .. i : J[j].shop = J[i].shop /\ J[j].day = J[i].day}
SameMonth(J, i) ==
  {j \in 1 .. i : J[j].shop = J[i].shop /\ MonthStart[J[j].day] = MonthStart[J[i].day]}

\* The sends to a number, and all sends, of one day.
ToNumber(J, p, d) == {i \in DOMAIN J : J[i].phone = p /\ J[i].day = d}
OnDay(J, d)       == {i \in DOMAIN J : J[i].day = d}

\* However the requests of a shop race, whenever midnight falls and whatever
\* becomes of its plan, each of its sends is within the daily and the monthly
\* limit it was booked under, and a trial shop books none abroad.
WithinPlan ==
  \A i \in DOMAIN journal :
    LET l == journal[i].limits IN
      /\ Cardinality(SameDay(journal, i)) <= l.day
      /\ Cardinality(SameMonth(journal, i)) <= l.month
      /\ ~(l.trial /\ journal[i].phone \in Risky)

\* The number's daily cap is counted under a lock of one shop only: requests
\* of different shops may pass it together, but never by more than one send
\* of every other shop.
RecipientOvershoot ==
  \A p \in Phone, d \in Day :
    Cardinality(ToNumber(journal, p, d)) < RecipientCap + Cardinality(Shop)

\* The same for the fuse of the whole service.
GlobalOvershoot ==
  \A d \in Day :
    Cardinality(OnDay(journal, d)) < GlobalCap + Cardinality(Shop)
=============================================================================
