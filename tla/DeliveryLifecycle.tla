------------------------- MODULE DeliveryLifecycle -------------------------
(***************************************************************************)
(* One row of deliveries.Delivery and the requests that work on it.        *)
(*                                                                         *)
(* Every request is served by a worker thread (gunicorn runs several, and  *)
(* Cloud Run several instances).  A handler first reads the row, keeps     *)
(* that Python object in `seen`, and later acts on what it read:           *)
(* ATOMIC_REQUESTS is not set, so each ORM statement commits on its own    *)
(* except inside transaction.atomic().  One action is one statement, one   *)
(* transaction or one call to the outside; the step label `pc` says where  *)
(* in its handler a worker is.                                             *)
(*                                                                         *)
(* Handlers: start (UI, API /start and /dispatch), ready, delivered (UI,   *)
(* API and the customer's own page), delete, restore, edit, resend, and    *)
(* the daily purge of recipient data.                                      *)
(***************************************************************************)
EXTENDS Naturals, FiniteSets

CONSTANTS
  Worker,      \* threads that serve requests
  Ops,         \* the handlers clients call (a run may leave some out)
  Phone,       \* recipient numbers, normalised to E.164
  Eta,         \* arrival times: entered by the shop or computed from a route
  None,        \* an absent phone or time; in `arg`: "field not changed"
  ResendCap,   \* SEND_LIMIT_RESENDS_PER_DELIVERY
  Crashes      \* whether a worker may be killed in the middle of a request

AllOps ==
  {"start", "ready", "delivered", "delete", "restore", "edit", "resend", "purge"}

ASSUME ConstantsAssumption ==
  /\ IsFiniteSet(Worker)
  /\ Ops \subseteq AllOps
  /\ None \notin Phone \cup Eta \cup Worker
  /\ Phone # {} /\ Eta # {}
  /\ ResendCap \in Nat
  /\ Crashes \in BOOLEAN

VARIABLES
  row,           \* the columns of the Delivery row that matter here
  notification,  \* its on_the_way Notification: "none" or the status
  token,         \* whether a TrackingToken row exists
  journal,       \* OutboundSend rows of this delivery, per kind
  rowLock,       \* worker holding SELECT ... FOR UPDATE on the delivery
  shopLock,      \* worker holding SELECT ... FOR UPDATE on the shop
  sends,         \* history: provider calls made, per kind
  events,        \* history: merchant webhooks emitted, per event
  scheduled,     \* times for which a rating task was enqueued
  missed,        \* history: a task was lost (scheduler error or crash)
  pc, seen, arg  \* per worker: step, row as read, validated input

db      == <<row, notification, token, journal>>
locks   == <<rowLock, shopLock>>
outside == <<sends, events, scheduled, missed>>
local   == <<pc, seen, arg>>
vars    == <<db, locks, outside, local>>

-----------------------------------------------------------------------------
Status == {"new", "created", "on_the_way", "delivered"}
\* deleted_at / delivered_at against the retention cutoff.
Age    == {"never", "recent", "old"}
Row    == [status: Status, eta: Eta \cup {None}, phone: Phone \cup {None},
           deleted: Age, delivered: Age, purged: BOOLEAN]
Arg    == [phone: Phone \cup {None}, eta: Eta \cup {None}]
SendKind == {"on_the_way", "resend"}
Event    == {"delivery.started", "delivery.delivered"}
Steps == {"idle", "start", "start_lock", "start_reserve", "start_commit",
          "start_send", "start_record", "start_schedule", "start_event",
          "ready", "delivered", "delivered_event", "delete", "restore",
          "edit", "edit_schedule", "resend", "resend_lock", "resend_insert",
          "resend_phone", "resend_queue", "resend_send", "resend_record",
          "purge"}

NoRow == [status |-> "new", eta |-> None, phone |-> None,
          deleted |-> "never", delivered |-> "never", purged |-> FALSE]
NoArg == [phone |-> None, eta |-> None]

Init ==
  \* Delivery.objects.create(...) in create_delivery has just committed.
  /\ row \in {[NoRow EXCEPT !.phone = p] : p \in Phone}
  /\ notification = "none" /\ token = FALSE
  /\ journal = [k \in SendKind |-> 0]
  /\ rowLock = None /\ shopLock = None
  /\ sends = [k \in SendKind |-> 0]
  /\ events = [e \in Event |-> 0]
  /\ scheduled = {} /\ missed = FALSE
  /\ pc = [w \in Worker |-> "idle"]
  /\ seen = [w \in Worker |-> NoRow]
  /\ arg = [w \in Worker |-> NoArg]

-----------------------------------------------------------------------------
At(w, step) == pc[w] = step
Goto(w, step) == pc' = [pc EXCEPT ![w] = step]
Keep(w, r) == seen' = [seen EXCEPT ![w] = r]
\* The step after which a handler no longer looks at the object it read.
Proceed(w, step, a) == /\ Goto(w, step)
                       /\ Keep(w, NoRow)
                       /\ arg' = [arg EXCEPT ![w] = a]
Finish(w) == Proceed(w, "idle", NoArg)
Move(w, step) == Goto(w, step) /\ UNCHANGED <<seen, arg>>

\* An UPDATE of the row waits for a transaction that locked it.
Save(r) == rowLock = None /\ row' = r
Count(f, k) == [f EXCEPT ![k] = @ + 1]

\* The view or API method reads the row.  All of them answer 404 for a row
\* whose recipient data is erased; the edit form also for a deleted one.
Receive(w) ==
  /\ At(w, "idle")
  /\ \E op \in Ops \ {"purge"} :
       /\ op = "edit" => row.deleted = "never"
       /\ Goto(w, op)
  /\ ~row.purged
  /\ Keep(w, row)
  /\ UNCHANGED <<db, locks, outside, arg>>

-----------------------------------------------------------------------------
(* start_delivery                                                          *)

\* Mutant: the existing notification is not consulted.
AlreadyStarted_StatusOnly(r) == r.status = "on_the_way"

AlreadyStarted(r) == r.status = "on_the_way" \/ notification # "none"

\* The check without a lock, then the route request (or the shop's own time).
StartCheck(w) ==
  /\ At(w, "start")
  /\ \/ Finish(w)          \* already started, or no route: needs_manual_eta
     \/ /\ ~AlreadyStarted(seen[w])
        /\ \E e \in Eta : Proceed(w, "start_lock", [NoArg EXCEPT !.eta = e])
  /\ UNCHANGED <<db, locks, outside>>

\* Mutant: no second check under the lock.
StartLock_NoRecheck(w) ==
  /\ At(w, "start_lock")
  /\ rowLock = None
  /\ rowLock' = w /\ Move(w, "start_reserve")
  /\ UNCHANGED <<db, shopLock, outside>>

\* transaction.atomic(): lock the row and check again.
StartLock(w) ==
  /\ At(w, "start_lock")
  /\ rowLock = None
  /\ IF AlreadyStarted(row)
     THEN Finish(w) /\ UNCHANGED rowLock
     ELSE rowLock' = w /\ Move(w, "start_reserve")
  /\ UNCHANGED <<db, shopLock, outside>>

\* reserve_send locks the shop until the outer commit; QuotaExceeded rolls
\* the whole transaction back.
StartReserve(w) ==
  /\ At(w, "start_reserve")
  /\ shopLock = None
  /\ \/ shopLock' = w /\ Move(w, "start_commit") /\ UNCHANGED rowLock
     \/ rowLock' = None /\ Finish(w) /\ UNCHANGED shopLock
  /\ UNCHANGED <<db, outside>>

\* Mutant: the tracking token is left for the status page to create.
StartCommit_NoToken(w) ==
  /\ At(w, "start_commit")
  /\ row' = [row EXCEPT !.status = "on_the_way", !.eta = arg[w].eta]
  /\ notification' = "queued"
  /\ journal' = Count(journal, "on_the_way")
  /\ rowLock' = None /\ shopLock' = None
  /\ Move(w, "start_send")
  /\ UNCHANGED <<token, outside>>

\* Mutant: the message is left out of the steps after the commit.
StartCommit_NoMessage(w) ==
  /\ At(w, "start_commit")
  /\ row' = [row EXCEPT !.status = "on_the_way", !.eta = arg[w].eta]
  /\ token' = TRUE /\ notification' = "queued"
  /\ journal' = Count(journal, "on_the_way")
  /\ rowLock' = None /\ shopLock' = None
  /\ Move(w, "start_schedule")
  /\ UNCHANGED outside

\* The writes of the transaction become visible together.
StartCommit(w) ==
  /\ At(w, "start_commit")
  /\ row' = [row EXCEPT !.status = "on_the_way", !.eta = arg[w].eta]
  /\ token' = TRUE
  /\ notification' = "queued"
  /\ journal' = Count(journal, "on_the_way")
  /\ rowLock' = None /\ shopLock' = None
  /\ Move(w, "start_send")
  /\ UNCHANGED outside

\* Mutant: a failed call is repeated at once.
StartSend_Retries(w) ==
  /\ At(w, "start_send")
  /\ sends' = Count(sends, "on_the_way")
  /\ Move(w, "start_send") \/ Move(w, "start_record")
  /\ UNCHANGED <<db, locks, events, scheduled, missed>>

\* Mutant: an error of the provider leaves the handler.
StartSend_Raises(w) ==
  /\ At(w, "start_send")
  /\ sends' = Count(sends, "on_the_way")
  /\ Finish(w) \/ Move(w, "start_record")
  /\ UNCHANGED <<db, locks, events, scheduled, missed>>

\* _send_and_record: the provider is called after the commit, without locks.
StartSend(w) ==
  /\ At(w, "start_send")
  /\ sends' = Count(sends, "on_the_way")
  /\ Move(w, "start_record")
  /\ UNCHANGED <<db, locks, events, scheduled, missed>>

StartRecord(w) ==
  /\ At(w, "start_record")
  /\ notification' \in {"sent", "failed"}
  /\ Move(w, "start_schedule")
  /\ UNCHANGED <<row, token, journal, locks, outside>>

\* schedule_rating_request: an error of the scheduler is logged and dropped.
Schedule(e) ==
  \/ scheduled' = scheduled \cup {e} /\ UNCHANGED missed
  \/ missed' = TRUE /\ UNCHANGED scheduled

StartSchedule(w) ==
  /\ At(w, "start_schedule")
  /\ Schedule(arg[w].eta)
  /\ Move(w, "start_event")
  /\ UNCHANGED <<db, locks, sends, events>>

StartEvent(w) ==
  /\ At(w, "start_event")
  /\ events' = Count(events, "delivery.started")
  /\ Finish(w)
  /\ UNCHANGED <<db, locks, sends, scheduled, missed>>

-----------------------------------------------------------------------------
(* mark_ready, mark_delivered, soft_delete, restore: each decides on the   *)
(* object it read and saves its own columns, without a lock.               *)

Ready(w) ==
  /\ At(w, "ready")
  /\ IF seen[w].status = "new"
     THEN Save([row EXCEPT !.status = "created"])
     ELSE UNCHANGED row
  /\ Finish(w)
  /\ UNCHANGED <<notification, token, journal, locks, outside>>

Delivered(w) ==
  /\ At(w, "delivered")
  /\ IF seen[w].status # "delivered"
     THEN /\ Save([row EXCEPT !.status = "delivered", !.delivered = "recent"])
          /\ Proceed(w, "delivered_event", NoArg)
     ELSE UNCHANGED row /\ Finish(w)
  /\ UNCHANGED <<notification, token, journal, locks, outside>>

DeliveredEvent(w) ==
  /\ At(w, "delivered_event")
  /\ events' = Count(events, "delivery.delivered")
  /\ Finish(w)
  /\ UNCHANGED <<db, locks, sends, scheduled, missed>>

Delete(w) ==
  /\ At(w, "delete")
  /\ IF seen[w].deleted = "never"
     THEN Save([row EXCEPT !.deleted = "recent"])
     ELSE UNCHANGED row
  /\ Finish(w)
  /\ UNCHANGED <<notification, token, journal, locks, outside>>

Restore(w) ==
  /\ At(w, "restore")
  /\ IF seen[w].deleted # "never" /\ ~seen[w].purged
     THEN Save([row EXCEPT !.deleted = "never"])
     ELSE UNCHANGED row
  /\ Finish(w)
  /\ UNCHANGED <<notification, token, journal, locks, outside>>

-----------------------------------------------------------------------------
(* update_delivery: the fields that differ from the object read are saved; *)
(* a new time counts only if that object was on the way.                   *)

Reschedules(w, e) ==
  e # None /\ seen[w].status = "on_the_way" /\ e # seen[w].eta

Edit(w) ==
  /\ At(w, "edit")
  /\ \E p \in Phone, e \in Eta \cup {None} :
       IF seen[w].status = "delivered" \/ (p = seen[w].phone /\ ~Reschedules(w, e))
       THEN Finish(w) /\ UNCHANGED row
       ELSE /\ Save([row EXCEPT
                 !.phone = IF p = seen[w].phone THEN @ ELSE p,
                 !.eta = IF Reschedules(w, e) THEN e ELSE @])
            /\ IF Reschedules(w, e)
               THEN Proceed(w, "edit_schedule", [NoArg EXCEPT !.eta = e])
               ELSE Finish(w)
  /\ UNCHANGED <<notification, token, journal, locks, outside>>

\* Mutant: the rating task stays at the old time.
EditSchedule_Omitted(w) ==
  /\ At(w, "edit_schedule")
  /\ Finish(w)
  /\ UNCHANGED <<db, locks, outside>>

EditSchedule(w) ==
  /\ At(w, "edit_schedule")
  /\ Schedule(arg[w].eta)
  /\ Finish(w)
  /\ UNCHANGED <<db, locks, sends, events>>

-----------------------------------------------------------------------------
(* resend_on_the_way                                                       *)

\* Mutant: a repeated message does not go through reserve_send.
ResendCheck_Unlimited(w) ==
  /\ At(w, "resend")
  /\ IF notification = "none" \/ ~token
     THEN Finish(w)
     ELSE \E p \in Phone \cup {None} :
            Proceed(w, "resend_queue", [NoArg EXCEPT !.phone = p])
  /\ UNCHANGED <<db, locks, outside>>

ResendCheck(w) ==
  /\ At(w, "resend")
  /\ IF notification = "none" \/ ~token
     THEN Finish(w)
     ELSE \E p \in Phone \cup {None} :
            Proceed(w, "resend_lock", [NoArg EXCEPT !.phone = p])
  /\ UNCHANGED <<db, locks, outside>>

\* Mutant: the cap is checked without the shop lock.
ResendLock_Unlocked(w) ==
  /\ At(w, "resend_lock")
  /\ \/ Finish(w)
     \/ journal["resend"] < ResendCap /\ Move(w, "resend_insert")
  /\ UNCHANGED <<db, locks, outside>>

\* reserve_send in a transaction of its own: lock the shop, check the caps.
\* Besides this delivery's own cap, a quota shared with other deliveries may
\* refuse.
ResendLock(w) ==
  /\ At(w, "resend_lock")
  /\ shopLock = None
  /\ \/ Finish(w) /\ UNCHANGED shopLock
     \/ /\ journal["resend"] < ResendCap
        /\ shopLock' = w
        /\ Move(w, "resend_insert")
  /\ UNCHANGED <<db, rowLock, outside>>

\* The journal row points at the delivery: the foreign key check takes a
\* share lock on that row before the transaction ends.
ResendInsert(w) ==
  /\ At(w, "resend_insert")
  /\ rowLock = None
  /\ journal' = Count(journal, "resend")
  /\ shopLock' = None
  /\ Move(w, IF arg[w].phone = None THEN "resend_queue" ELSE "resend_phone")
  /\ UNCHANGED <<row, notification, token, rowLock, outside>>

ResendPhone(w) ==
  /\ At(w, "resend_phone")
  /\ Save([row EXCEPT !.phone = arg[w].phone])
  /\ Move(w, "resend_queue")
  /\ UNCHANGED <<notification, token, journal, locks, outside>>

ResendQueue(w) ==
  /\ At(w, "resend_queue")
  /\ notification' = "queued"
  /\ Move(w, "resend_send")
  /\ UNCHANGED <<row, token, journal, locks, outside>>

ResendSend(w) ==
  /\ At(w, "resend_send")
  /\ sends' = Count(sends, "resend")
  /\ Move(w, "resend_record")
  /\ UNCHANGED <<db, locks, events, scheduled, missed>>

ResendRecord(w) ==
  /\ At(w, "resend_record")
  /\ notification' \in {"sent", "failed"}
  /\ Finish(w)
  /\ UNCHANGED <<row, token, journal, locks, outside>>

-----------------------------------------------------------------------------
(* purge_recipient_pii                                                     *)

\* deliveries_due: final and past the retention limit, not erased yet.
Due(r) ==
  /\ ~r.purged
  /\ \/ r.deleted = "old"
     \/ r.deleted = "never" /\ r.status = "delivered" /\ r.delivered = "old"

PurgeScan(w) ==
  /\ "purge" \in Ops
  /\ At(w, "idle") /\ Due(row)
  /\ Move(w, "purge")
  /\ UNCHANGED <<db, locks, outside>>

\* Mutant: the locked rows are not checked again.
PurgeBatch_NoRecheck(w) ==
  /\ At(w, "purge")
  /\ rowLock = None
  /\ token' = FALSE
  /\ row' = [row EXCEPT !.phone = None, !.purged = TRUE]
  /\ Finish(w)
  /\ UNCHANGED <<notification, journal, locks, outside>>

\* Mutant: pii_purged_at is not stamped.
PurgeBatch_NoStamp(w) ==
  /\ At(w, "purge")
  /\ rowLock = None
  /\ token' = FALSE
  /\ row' = [row EXCEPT !.phone = None]
  /\ Finish(w)
  /\ UNCHANGED <<notification, journal, locks, outside>>

\* One batch, in one transaction: lock the rows found, check them again.
PurgeBatch(w) ==
  /\ At(w, "purge")
  /\ rowLock = None
  /\ IF Due(row)
     THEN /\ token' = FALSE
          /\ row' = [row EXCEPT !.phone = None, !.purged = TRUE]
     ELSE UNCHANGED <<row, token>>
  /\ Finish(w)
  /\ UNCHANGED <<notification, journal, locks, outside>>

-----------------------------------------------------------------------------
(* The environment                                                         *)

\* The instance is stopped: Postgres rolls an open transaction back.
Crash(w) ==
  /\ Crashes /\ ~At(w, "idle")
  /\ rowLock' = IF rowLock = w THEN None ELSE rowLock
  /\ shopLock' = IF shopLock = w THEN None ELSE shopLock
  /\ missed' = (missed \/ pc[w] \in {"start_send", "start_record",
                                     "start_schedule", "edit_schedule"})
  /\ Finish(w)
  /\ UNCHANGED <<db, sends, events, scheduled>>

\* The retention period (at least 30 days) goes by; no request lasts that long.
TimePasses ==
  /\ \A w \in Worker : At(w, "idle")
  /\ LET aged(a) == IF a = "recent" THEN "old" ELSE a
     IN row' = [row EXCEPT !.deleted = aged(@), !.delivered = aged(@)]
  /\ row' # row
  /\ UNCHANGED <<notification, token, journal, locks, outside, local>>

\* The rest of a handler once it has been entered.
Work(w) ==
  \/ StartCheck(w) \/ StartLock(w) \/ StartReserve(w) \/ StartCommit(w)
  \/ StartSend(w) \/ StartRecord(w) \/ StartSchedule(w) \/ StartEvent(w)
  \/ Ready(w) \/ Delivered(w) \/ DeliveredEvent(w) \/ Delete(w) \/ Restore(w)
  \/ Edit(w) \/ EditSchedule(w)
  \/ ResendCheck(w) \/ ResendLock(w) \/ ResendInsert(w) \/ ResendPhone(w)
  \/ ResendQueue(w) \/ ResendSend(w) \/ ResendRecord(w)
  \/ PurgeBatch(w)

Next ==
  \/ \E w \in Worker : Receive(w) \/ PurgeScan(w) \/ Work(w) \/ Crash(w)
  \/ TimePasses

Spec == Init /\ [][Next]_vars

\* A request that was accepted is carried on; Cloud Scheduler calls the purge
\* every day.  Clients, crashes and the calendar owe nothing.
Fairness ==
  /\ \A w \in Worker : SF_vars(Work(w))
  /\ SF_vars(\E w \in Worker : PurgeScan(w))

FairSpec == Spec /\ Fairness
-----------------------------------------------------------------------------
(* What the handlers guarantee together                                    *)

TypeOK ==
  /\ row \in Row
  /\ notification \in {"none", "queued", "sent", "failed"}
  /\ token \in BOOLEAN
  /\ journal \in [SendKind -> Nat]
  /\ rowLock \in Worker \cup {None}
  /\ shopLock \in Worker \cup {None}
  /\ sends \in [SendKind -> Nat]
  /\ events \in [Event -> Nat]
  /\ scheduled \subseteq Eta
  /\ missed \in BOOLEAN
  /\ pc \in [Worker -> Steps]
  /\ seen \in [Worker -> Row]
  /\ arg \in [Worker -> Arg]

\* However many start requests race (double submit, UI and API together), the
\* customer gets one "on the way" message, paid for once and announced to the
\* merchant once (start_delivery's second check under the row lock).
StartedOnce ==
  /\ sends["on_the_way"] <= 1
  /\ journal["on_the_way"] <= 1
  /\ events["delivery.started"] <= 1

\* No provider call without a journal row written before it (quotas.py: the
\* journal counts attempts), whatever request sends and wherever one crashes.
PaidBeforeSent == \A k \in SendKind : sends[k] <= journal[k]

\* Concurrent resends do not get past SEND_LIMIT_RESENDS_PER_DELIVERY: the
\* count and the insert of reserve_send are under the shop lock.
ResendCapHolds == journal["resend"] <= ResendCap

\* A delivery on the way has its arrival time, its notification and its paid
\* send, and a link unless its data is erased: after a crash between commit
\* and send the shop can still press "resend".
OnTheWayIsComplete ==
  row.status = "on_the_way" =>
    /\ row.eta # None
    /\ notification # "none"
    /\ journal["on_the_way"] = 1
    /\ token \/ row.purged

\* start locks the delivery and then the shop; a resend locks the shop and
\* then, through the foreign key, the delivery.  They never wait in a cycle.
NoLockCycle ==
  ~ \E v, w \in Worker : At(v, "start_reserve") /\ At(w, "resend_insert")

\* With no request under way and no task lost, the time the row shows is one
\* the rating task was enqueued for, whatever edits raced with the start.
RatingFollowsEta ==
  (\A w \in Worker : At(w, "idle")) /\ ~missed /\ row.eta # None
    => row.eta \in scheduled

\* A delivery restored or reopened between the purge's read of the ids and
\* its batch keeps its recipient data (the check is repeated under the lock).
NeverEraseActive ==
  [][~row.purged /\ row'.purged =>
       row.deleted # "never" \/ row.status = "delivered"]_vars

\* Every message that is queued gets an outcome, as long as no worker is killed.
MessageGetsOutcome == notification = "queued" ~> notification \in {"sent", "failed"}

\* As long as no worker is killed, a message is queued only while some request
\* is between queueing it and writing the provider's answer: start_delivery and
\* resend_on_the_way have no way out there that leaves "queued" for good.
QueuedIsInHand ==
  ~Crashes /\ notification = "queued" =>
    \E w \in Worker : pc[w] \in {"start_send", "start_record",
                               "resend_send", "resend_record"}

\* The daily purge gets to every delivery that is due, under client traffic.
DueIsErased == Due(row) ~> ~Due(row)

\* The abstract promise, read off the implementation's state.
Notice == INSTANCE CustomerNotice WITH
            Cap <- ResendCap,
            announced <- notification # "none",
            first <- sends["on_the_way"],
            again <- sends["resend"]

\* start_delivery, resend_on_the_way: however requests race and die, the customer
\* is sent one first message, after it was announced, and capped repeats of it.
NoticeSpec == Notice!Spec

\* ... and what is announced is sent, as long as no worker is killed.
NoticeFairSpec == Notice!FairSpec

\* --- claims of the repository that the interleavings do not bear out -------

\* mark_ready's docstring: from any status but "new" it is a no-op.
ReadyOnlyFromNew ==
  [][row'.status = "created" /\ row.status # "created" => row.status = "new"]_vars

\* get_owned_delivery: a delivery with erased recipient data is history only.
ErasedStaysErased == row.purged => row.phone = None
============================================================================
