------------------------------ MODULE Payments ------------------------------
(***************************************************************************)
(* Time and money of one shop (billing/services.py): the free trial, the   *)
(* checkout that takes the rest of it over, the grace period of a payment  *)
(* that is due, and the BillingPayment row with what Whop has given back.  *)
(* Which membership the shop's row follows is in Subscription.             *)
(***************************************************************************)
EXTENDS Naturals, FiniteSets

CONSTANTS
  Clerk,        \* threads that answer webhooks
  DayTicks,     \* ticks of the clock in a day
  Trial, Grace, \* JAVI_BILLING_TRIAL_DAYS, .._PAST_DUE_GRACE_DAYS, in ticks
  GoLive,       \* JAVI_BILLING_START_DATE; the shop registers at tick 0
  LastTick,     \* last tick (a bound)
  Price,        \* what a payment is, in units that can be given back
  Never

ASSUME PaymentConstants ==
  /\ DayTicks \in Nat \ {0} /\ Trial \in Nat /\ Grace \in Nat \ {0}
  /\ GoLive \in Nat /\ LastTick \in Nat /\ Price \in Nat
  /\ Never \notin Nat

VARIABLES
  time,
  override,  \* trial_ends_override, or Never
  status,    \* ShopSubscription.status
  since,     \* past_due_since, or Never
  due,       \* history: when the row last became past due
  plan,      \* the last checkout: when it was made, its trial_period_days and
             \* the end of the free trial the shop was shown; or Never
  given,     \* what Whop has given back of the payment, or Never: not paid
  refunded,  \* BillingPayment.refunded_amount, or Never: no row
  mail,      \* webhooks about the payment; a payment.succeeded says what had
             \* been given back when it was written
  desk       \* per thread: its step, what it read in the row and at Whop

mvars == <<time, override, status, since, due, plan, given, refunded, mail, desk>>

-----------------------------------------------------------------------------
Ticks == 0 .. LastTick
Sums  == 0 .. Price
Letter == [kind : {"paid", "refund"}, given : Sums]
Refund == [kind |-> "refund", given |-> 0]
Free  == [at |-> "idle", saw |-> 0, got |-> 0]
Desk  == [at : {"idle", "read", "save"}, saw : Sums, got : Sums]

MInit ==
  /\ time = 0 /\ override = Never
  /\ status = "trial" /\ since = Never /\ due = Never /\ plan = Never
  /\ given = Never /\ refunded = Never /\ mail = {}
  /\ desk = [w \in Clerk |-> Free]

-----------------------------------------------------------------------------
(* Trial, access and checkout                                              *)

\* trial_ends_at
TrialEnds == IF override # Never THEN override ELSE GoLive + Trial

\* has_access, with billing enforced.
HasAccess ==
  CASE status = "active"   -> TRUE
    [] status = "past_due" -> time < (IF since = Never THEN time ELSE since) + Grace
    [] OTHER               -> time < TrialEnds

\* Mutant: the days are rounded down.
DaysLeft_Down == IF time < TrialEnds THEN (TrialEnds - time) \div DayTicks ELSE 0

\* trial_days_left: whole days, rounded up.
DaysLeft ==
  IF time < TrialEnds THEN (TrialEnds - time + DayTicks - 1) \div DayTicks ELSE 0

\* Staff move the end of the trial of a shop that has no checkout.
Override ==
  /\ plan = Never
  /\ override' \in Ticks
  /\ UNCHANGED <<time, status, since, due, plan, given, refunded, mail, desk>>

\* SubscribeView and start_checkout: Whop is asked to wait for the days left.
Subscribe ==
  /\ status \in {"trial", "canceled"} /\ given = Never
  /\ plan' = [made |-> time, days |-> DaysLeft, shown |-> TrialEnds]
  /\ UNCHANGED <<time, override, status, since, due, given, refunded, mail, desk>>

\* Mutant: every word of Whop starts the grace period again.
PastDueSince_Again(new) == IF new = "past_due" THEN time ELSE Never

\* apply_membership: the first word that a payment is due stays.
PastDueSince(new) ==
  CASE new \in {"active", "canceled"} -> Never
    [] new = "past_due" -> IF since = Never THEN time ELSE since
    [] OTHER -> since

\* A membership is stored, with a status Javi knows or one it leaves alone.
Membership ==
  /\ plan # Never
  /\ \E new \in {status, "active", "past_due", "canceled"} :
       /\ status' = new
       /\ since' = PastDueSince(new)
       /\ due' = IF new = "past_due" /\ status # "past_due" THEN time ELSE due
  /\ UNCHANGED <<time, override, plan, given, refunded, mail, desk>>

-----------------------------------------------------------------------------
(* The payment and its refunds                                             *)

\* Whop charges when the plan's free days are over, and writes about it.
Charge ==
  /\ plan # Never /\ given = Never
  /\ time >= plan.made + plan.days * DayTicks
  /\ given' = 0 /\ mail' = {[kind |-> "paid", given |-> 0]}
  /\ UNCHANGED <<time, override, status, since, due, plan, refunded, desk>>

GiveBack ==
  /\ given # Never
  /\ \E sum \in Sums : sum > given /\ given' = sum
  /\ mail' = mail \cup {Refund}
  /\ UNCHANGED <<time, override, status, since, due, plan, refunded, desk>>

\* A webhook may come again.
Deliver(letter) == mail' \in {mail, mail \ {letter}}

\* record_payment: update_or_create with what the event says.
RecordPayment ==
  /\ \E letter \in mail \ {Refund} : refunded' = letter.given /\ Deliver(letter)
  /\ UNCHANGED <<time, override, status, since, due, plan, given, desk>>

\* record_refund finds the row...
RefundFind(w) ==
  /\ desk[w].at = "idle" /\ Refund \in mail /\ Deliver(Refund)
  /\ desk' = IF refunded = Never THEN desk
             ELSE [desk EXCEPT ![w] = [at |-> "read", saw |-> refunded, got |-> 0]]
  /\ UNCHANGED <<time, override, status, since, due, plan, given, refunded>>

\* Mutant: the refunds are added up.
RefundRead_Sums(w) ==
  /\ desk[w].at = "read"
  /\ desk' = [desk EXCEPT ![w] = [at |-> "save", saw |-> @.saw, got |-> @.saw + given]]
  /\ UNCHANGED <<time, override, status, since, due, plan, given, refunded, mail>>

\* ... reads the payment from Whop's API, which may fail...
RefundRead(w) ==
  /\ desk[w].at = "read"
  /\ \/ desk' = [desk EXCEPT ![w] = Free]
     \/ /\ given # desk[w].saw
        /\ desk' = [desk EXCEPT ![w] = [at |-> "save", saw |-> @.saw, got |-> given]]
  /\ UNCHANGED <<time, override, status, since, due, plan, given, refunded, mail>>

\* ... and saves the sum, if it is not the one it saw.
RefundSave(w) ==
  /\ desk[w].at = "save"
  /\ refunded' = desk[w].got
  /\ desk' = [desk EXCEPT ![w] = Free]
  /\ UNCHANGED <<time, override, status, since, due, plan, given, mail>>

Later ==
  /\ time < LastTick /\ time' = time + 1
  /\ UNCHANGED <<override, status, since, due, plan, given, refunded, mail, desk>>

MNext ==
  \/ Override \/ Subscribe \/ Membership \/ Charge \/ GiveBack \/ RecordPayment \/ Later
  \/ \E w \in Clerk : RefundFind(w) \/ RefundRead(w) \/ RefundSave(w)

MSpec == MInit /\ [][MNext]_mvars
-----------------------------------------------------------------------------
MTypeOK ==
  /\ time \in Ticks
  /\ override \in Ticks \cup {Never}
  /\ status \in {"trial", "active", "past_due", "canceled"}
  /\ since \in Ticks \cup {Never} /\ due \in Ticks \cup {Never}
  /\ plan = Never \/ plan \in [made : Ticks, days : Nat, shown : Nat]
  /\ given \in Sums \cup {Never} /\ refunded \in Sums \cup {Never}
  /\ mail \subseteq Letter
  /\ desk \in [Clerk -> Desk]

\* apply_membership, has_access: a shop whose payment is due keeps its access
\* for the grace period from the first word of it, no longer, however often Whop
\* repeats the word, and a new grace period takes a payment in between.
GraceFromFirstWord ==
  status = "past_due" => (HasAccess <=> time < due + Grace)

\* trial_days_left, start_checkout: a shop that subscribes during its free trial
\* is not charged before the end it was shown.
NeverChargedInTrial == given # Never => time >= plan.shown

\* record_payment, record_refund: repeated, late and overlapping events never
\* make the report give back more money than Whop has.
RefundNeverAhead == refunded # Never => given # Never /\ refunded <= given
=============================================================================
