---------------------------- MODULE Subscription ----------------------------
(***************************************************************************)
(* billing/services.py: the ShopSubscription row of one shop and the Whop  *)
(* memberships it stands for.                                              *)
(*                                                                         *)
(* Whop changes a membership and sends webhooks about it, which come late, *)
(* twice, out of order or again after an error.  A webhook is answered by  *)
(* reading the membership from Whop's API, without a lock, and then        *)
(* storing what was read under the lock of the row.                        *)
(***************************************************************************)
EXTENDS Naturals, FiniteSets

CONSTANTS
  Worker,    \* threads that serve requests
  Mem,       \* Whop memberships of this shop, one for each checkout
  Tokened,   \* those whose Whop data carry the shop token
  Linked,    \* those whose Whop data carry the id of the checkout
  Sent,      \* kinds of webhooks the Whop account is set to send
  Failures,  \* whether reads of Whop's API may fail
  Crashes,   \* whether a worker may be killed in the middle of a request
  EventBound,  \* bound: Whop changes nothing while so many webhooks are on their way
  None       \* an empty id

ASSUME SubscriptionConstants ==
  /\ Tokened \subseteq Mem /\ Linked \subseteq Mem /\ None \notin Mem
  /\ Sent \subseteq {"membership", "payment", "problem"}
  /\ Failures \in BOOLEAN /\ Crashes \in BOOLEAN
  /\ EventBound \in Nat

VARIABLES
  sub,      \* the columns of the row that matter here
  whop,     \* per membership: its status at Whop
  events,   \* webhooks that Whop is going to deliver
  everLive, \* history: memberships that were live once
  raced,    \* history: two answers overlapped, or a read of the API failed
  pc, job,  \* per worker: step, and the webhook it answers
  data      \* per worker: the membership status it read

vars == <<sub, whop, events, everLive, raced, pc, job, data>>

-----------------------------------------------------------------------------
Status     == {"trial", "active", "past_due", "canceled"}
\* "checkout": the page is open, there is no membership yet.  Statuses that
\* WHOP_STATUS_MAP does not tell apart are one here.
WhopStatus == {"none", "checkout", "drafted", "active", "past_due", "canceled"}
Sub   == [status : Status, mem : Mem \cup {None}, checkout : Mem \cup {None}]
Kind  == {"membership", "payment", "problem"}
Job   == [mem : Mem, kind : Kind \cup {"checkout", "sync"}, status : WhopStatus]
Steps == {"idle", "checkout", "paid", "link", "read", "find", "apply"}

Init ==
  \* No row yet: get_or_create makes this one.
  /\ sub = [status |-> "trial", mem |-> None, checkout |-> None]
  /\ whop = [m \in Mem |-> "none"]
  /\ events = {} /\ everLive = {} /\ raced = FALSE
  /\ pc = [w \in Worker |-> "idle"]
  /\ job = [w \in Worker |-> None]
  /\ data = [w \in Worker |-> "none"]

-----------------------------------------------------------------------------
At(w, step) == pc[w] = step
Enter(w, step, j) ==
  /\ pc' = [pc EXCEPT ![w] = step]
  /\ job' = [job EXCEPT ![w] = j]
  /\ data' = [data EXCEPT ![w] = "none"]
Finish(w) == Enter(w, "idle", None)
Goto(w, step) == pc' = [pc EXCEPT ![w] = step] /\ UNCHANGED <<job, data>>

\* Another thread is in the middle of an answer.
Overlaps(w) == \E v \in Worker \ {w} : pc[v] \in {"paid", "link", "read", "find", "apply"}

\* find_shop: by the token, by the recorded membership, by the last checkout.
Found(m) == m \in Tokened \/ sub.mem = m \/ (m \in Linked /\ sub.checkout = m)

\* SubscribeView: a checkout is opened at Whop, then its id is saved.
Checkout(w) ==
  /\ At(w, "idle")
  /\ sub.status \in {"trial", "canceled"}
  /\ \E m \in Mem :
       /\ whop[m] = "none"
       /\ whop' = [whop EXCEPT ![m] = "checkout"]
       /\ Enter(w, "checkout", [mem |-> m, kind |-> "checkout", status |-> "none"])
  /\ UNCHANGED <<sub, events, everLive, raced>>

CheckoutSave(w) ==
  /\ At(w, "checkout")
  /\ sub' = [sub EXCEPT !.checkout = job[w].mem]
  /\ Finish(w)
  /\ UNCHANGED <<whop, events, everLive, raced>>

\* whop_webhook takes an event; Whop may deliver it again.  A payment is first
\* recorded, and answered further only if its shop is known.
Webhook(w) ==
  /\ At(w, "idle")
  /\ \E e \in events :
       /\ events' \in {events, events \ {e}}
       /\ CASE e.kind = "membership" -> Enter(w, "read", e)
            [] e.kind = "payment" /\ Found(e.mem) -> Enter(w, "paid", e)
            [] e.kind = "problem" /\ Found(e.mem) -> Enter(w, "read", e)
            [] OTHER -> UNCHANGED <<pc, job, data>>
  /\ raced' = (raced \/ Overlaps(w))
  /\ UNCHANGED <<sub, whop, everLive>>

\* The end of record_payment: a row read without a membership gets this one,
\* whatever the row holds by then.
PaidRead(w) ==
  /\ At(w, "paid")
  /\ Goto(w, IF sub.mem = None THEN "link" ELSE "read")
  /\ UNCHANGED <<sub, whop, events, everLive, raced>>

PaidLink(w) ==
  /\ At(w, "link")
  /\ sub' = [sub EXCEPT !.mem = job[w].mem]
  /\ Goto(w, "read")
  /\ UNCHANGED <<whop, events, everLive, raced>>

\* billing_sync re-reads the membership that is recorded.
Sync(w) ==
  /\ At(w, "idle") /\ sub.mem # None
  /\ Enter(w, "read", [mem |-> sub.mem, kind |-> "sync", status |-> "none"])
  /\ raced' = (raced \/ Overlaps(w))
  /\ UNCHANGED <<sub, whop, events, everLive>>

\* find_shop looks for the row only if the data carry no shop token.
Answered(m) == IF m \in Tokened THEN "apply" ELSE "find"

\* Mutant: the status in the event is believed.
Read_Event(w) ==
  /\ At(w, "read")
  /\ data' = [data EXCEPT ![w] = IF job[w].kind = "membership"
                                THEN job[w].status ELSE whop[job[w].mem]]
  /\ pc' = [pc EXCEPT ![w] = Answered(job[w].mem)]
  /\ UNCHANGED <<job, sub, whop, events, everLive, raced>>

\* sync_membership: the status at Whop now; if the read fails, the status in a
\* membership event, and nothing for the other callers.
Read(w) ==
  /\ At(w, "read")
  /\ LET store(status) == /\ data' = [data EXCEPT ![w] = status]
                          /\ pc' = [pc EXCEPT ![w] = Answered(job[w].mem)]
                          /\ UNCHANGED job
     IN \/ store(whop[job[w].mem]) /\ UNCHANGED raced
        \/ /\ Failures /\ raced' = TRUE
           /\ IF job[w].kind = "membership" THEN store(job[w].status) ELSE Finish(w)
  /\ UNCHANGED <<sub, whop, events, everLive>>

\* Mutant: a drafted membership counts as an active one.
NewStatus_DraftedActive(s, old) == IF s = "drafted" THEN "active" ELSE s

\* WHOP_STATUS_MAP; a drafted membership leaves the status alone.
NewStatus(s, old) == IF s = "drafted" THEN old ELSE s

\* The row after storing status s of membership m.  The start of the grace
\* period, which the same statements set, keep or clear, is in Payments.
Stored(m, s) ==
  [sub EXCEPT !.mem = m,
              !.checkout = IF m \in Linked THEN m ELSE @,
              !.status = NewStatus(s, @)]

\* apply_membership: a membership of no shop is not stored.
Find(w) ==
  /\ At(w, "find")
  /\ IF Found(job[w].mem) THEN Goto(w, "apply") ELSE Finish(w)
  /\ UNCHANGED <<sub, whop, events, everLive, raced>>

\* Mutant: any membership of the shop is stored.
Apply_Any(w) ==
  /\ At(w, "apply")
  /\ sub' = Stored(job[w].mem, data[w])
  /\ Finish(w)
  /\ UNCHANGED <<whop, events, everLive, raced>>

\* An old membership: another one is recorded and live, and this one is not.
Ignored(m, s) == sub.mem \notin {None, m} /\ s # "active" /\ sub.status = "active"

\* ... and of the others what was read is stored under the row lock.
Apply(w) ==
  /\ At(w, "apply")
  /\ LET m == job[w].mem IN
       sub' = IF Ignored(m, data[w]) THEN sub ELSE Stored(m, data[w])
  /\ Finish(w)
  /\ UNCHANGED <<whop, events, everLive, raced>>

-----------------------------------------------------------------------------
(* Whop and the environment                                                *)

\* What may become of a membership, and what Whop sends about it.
Successor(s) ==
  CASE s = "checkout" -> {"drafted", "active"}
    [] s = "drafted"  -> {"active"}
    [] s = "active"   -> {"past_due", "canceled"}
    [] s = "past_due" -> {"active", "canceled"}
    [] OTHER          -> {}

Announce(m, s) ==
  {[mem |-> m, kind |-> k, status |-> s] :
     k \in Sent \cap ({"membership"} \cup
                      CASE s = "active"   -> {"payment"}
                        [] s = "past_due" -> {"problem"}
                        [] OTHER          -> {})}

\* The shop gets the link when its id has been saved.
WhopChanges ==
  \E m \in Mem : \E s \in Successor(whop[m]) :
    /\ \A w \in Worker : ~(At(w, "checkout") /\ job[w].mem = m)
    /\ whop' = [whop EXCEPT ![m] = s]
    /\ Cardinality(events) < EventBound
    /\ events' = events \cup Announce(m, s)
    /\ everLive' = everLive \cup (IF s = "active" THEN {m} ELSE {})
    /\ UNCHANGED <<sub, raced, pc, job, data>>

\* The instance is stopped.  Whop repeats a webhook that got no answer; the
\* link of an unsaved checkout is lost.
Crash(w) ==
  /\ Crashes /\ ~At(w, "idle")
  /\ events' = IF job[w].kind \in Kind THEN events \cup {job[w]} ELSE events
  /\ whop' = IF At(w, "checkout") THEN [whop EXCEPT ![job[w].mem] = "none"] ELSE whop
  /\ Finish(w)
  /\ UNCHANGED <<sub, everLive, raced>>

Next ==
  \/ \E w \in Worker :
       \/ Checkout(w) \/ CheckoutSave(w) \/ Webhook(w) \/ Sync(w)
       \/ PaidRead(w) \/ PaidLink(w) \/ Read(w) \/ Find(w) \/ Apply(w) \/ Crash(w)
  \/ WhopChanges

Spec == Init /\ [][Next]_vars
-----------------------------------------------------------------------------
TypeOK ==
  /\ sub \in Sub
  /\ whop \in [Mem -> WhopStatus]
  /\ events \subseteq [mem : Mem, kind : Kind, status : WhopStatus]
  /\ everLive \subseteq Mem /\ raced \in BOOLEAN
  /\ pc \in [Worker -> Steps]
  /\ job \in [Worker -> Job \cup {None}]
  /\ data \in [Worker -> WhopStatus]

\* Without the limits of an unpaid shop goes only a shop whose recorded
\* membership was live at Whop, whatever old or failed reads are stored.
ActiveIsEarned == sub.status = "active" => sub.mem \in everLive

\* Access is taken away only by the membership that is recorded: a late event
\* of an old subscription does not cancel the new one.
OldMembershipHarmless ==
  [][sub.status = "active" /\ sub'.status # "active" => sub'.mem = sub.mem]_vars

Quiet == events = {} /\ \A w \in Worker : At(w, "idle")

\* sync_membership: because the API is read, webhooks in any order and number,
\* repeated or cut off, leave the row with the status its membership has at
\* Whop, as long as no read failed and no two answers overlapped.
AgreesWhenQuiet ==
  Quiet /\ ~raced /\ sub.mem # None =>
    whop[sub.mem] = "drafted" \/ sub.status = whop[sub.mem]
=============================================================================
