---------------------------- MODULE RatingRequest ----------------------------
(***************************************************************************)
(* The request for a rating and the rating (deliveries/services.py,        *)
(* tasks/views.py, tracking/views.py) of a delivery that has been started: *)
(* every arrival time gets a Cloud Task of its own, a task may come late,  *)
(* more than once and twice at a time, and the callback finds out whether  *)
(* it is still the right one.  The link is there for as long as LinkEnd    *)
(* says; the customer may opt out and rate at any moment.                  *)
(***************************************************************************)
EXTENDS TimeWindow, FiniteSets

CONSTANTS
  Thread,     \* threads that answer callbacks and customers
  Instant,    \* moments the clock shows (a bound)
  Arrival,    \* arrival times the shop may give (a bound)
  LinkEnd,    \* TrackingToken.expires_at
  StopBound,  \* how often an instance may be stopped (a bound)
  NoArrival

ASSUME RatingConstants ==
  /\ IsFiniteSet(Thread)
  /\ Instant \subseteq Nat /\ Arrival \subseteq Nat
  /\ LinkEnd \in Nat /\ StopBound \in Nat
  /\ NoArrival \notin Arrival

VARIABLES
  clock,
  eta,      \* arrival time of the row
  edited,   \* arrival time that is saved and has no task yet, or NoArrival
  tasks,    \* arrival times with a task that Cloud Tasks is going to run
  step,     \* what a thread does next
  asks,     \* rating_request Notifications
  sent,     \* TRUE: a request was handed to the provider
  cut,      \* history: an instance was stopped between the two
  refused,  \* TRUE: a limit refused the request (quotas.py)
  opted,    \* TRUE: the number is in OptOut
  delivered, \* status of the row: delivered, or still on the way
  rating,   \* Rating.value, 0 without one
  heard,    \* values in rating.created webhooks
  stops     \* instances stopped so far

\* What only some steps touch: the outcome of the request, and the rating.
outcome  == <<sent, cut, refused>>
feedback == <<delivered, rating, heard>>
rvars == <<clock, eta, edited, tasks, step, asks, outcome, opted, feedback, stops>>

-----------------------------------------------------------------------------
RatingStep == [at : {"idle"}]
         \cup [at : {"asked", "opted", "reserve", "create", "send"}, task : Arrival]
         \cup [at : {"tell"}, value : 1 .. 5]
Idle == [at |-> "idle"]
Early == 5

\* start_delivery; its task is enqueued unless the scheduler fails.
RInit ==
  /\ clock \in Instant /\ \A t \in Instant : clock <= t
  /\ eta \in {a \in Arrival : a > clock}
  /\ tasks \in {{}, {eta}}
  /\ edited = NoArrival
  /\ step = [w \in Thread |-> Idle]
  /\ asks = 0 /\ sent = FALSE /\ cut = FALSE /\ refused = FALSE /\ opted = FALSE
  /\ delivered = FALSE /\ rating = 0 /\ heard = {} /\ stops = 0

Go(w, at) == step' = [step EXCEPT ![w].at = at]

\* The callback answers 200: Cloud Tasks is done with the task, unless it runs it
\* once more or has another one, of the same time given twice.
Done(w, task) ==
  /\ step' = [step EXCEPT ![w] = Idle]
  /\ tasks' \in {tasks, tasks \ {task}}

-----------------------------------------------------------------------------
(* The shop                                                                *)

\* update_delivery: a new arrival time of a delivery on the way is saved...
EditEta ==
  /\ edited = NoArrival /\ ~delivered
  /\ \E a \in Arrival \ {eta} : a > clock /\ eta' = a /\ edited' = a
  /\ UNCHANGED <<clock, tasks, step, asks, outcome, opted, feedback, stops>>

\* ... and a task is enqueued, unless the scheduler fails or the instance dies.
Enqueue ==
  /\ edited # NoArrival
  /\ tasks' \in {tasks, tasks \cup {edited}}
  /\ edited' = NoArrival
  /\ UNCHANGED <<clock, eta, step, asks, outcome, opted, feedback, stops>>

-----------------------------------------------------------------------------
(* tasks.send_rating and send_rating_request                               *)

\* Mutant: the task is made for the arrival itself.
RunAt_Arrival(task) == task

\* schedule_time of the task of an arrival time.
RunAt(task) == SendTime(task)

\* The callback reads the delivery.  A task of an arrival time that has been
\* moved is early, and over.
Callback(w) ==
  /\ step[w] = Idle
  /\ \E task \in tasks :
       /\ RunAt(task) <= clock
       /\ IF SendTime(eta) > clock + Early
          THEN Done(w, task)
          ELSE step' = [step EXCEPT ![w] = [at |-> "asked", task |-> task]] /\ UNCHANGED tasks
  /\ UNCHANGED <<clock, eta, edited, asks, outcome, opted, feedback, stops>>

\* Mutant: a delivery that was asked is asked again.
CheckAsked_Not(w) ==
  /\ step[w].at = "asked"
  /\ Go(w, "opted") /\ UNCHANGED tasks
  /\ UNCHANGED <<clock, eta, edited, asks, outcome, opted, feedback, stops>>

CheckAsked(w) ==
  /\ step[w].at = "asked"
  /\ IF asks > 0 THEN Done(w, step[w].task) ELSE Go(w, "opted") /\ UNCHANGED tasks
  /\ UNCHANGED <<clock, eta, edited, asks, outcome, opted, feedback, stops>>

CheckOptOut(w) ==
  /\ step[w].at = "opted"
  /\ IF opted THEN Done(w, step[w].task) ELSE Go(w, "reserve") /\ UNCHANGED tasks
  /\ UNCHANGED <<clock, eta, edited, asks, outcome, opted, feedback, stops>>

\* reserve_send: a limit ends it without a retry.
Reserve(w) ==
  /\ step[w].at = "reserve"
  /\ \/ Done(w, step[w].task) /\ refused' = TRUE
     \/ Go(w, "create") /\ UNCHANGED <<tasks, refused>>
  /\ UNCHANGED <<clock, eta, edited, asks, sent, cut, opted, feedback, stops>>

CreateAsk(w) ==
  /\ step[w].at = "create"
  /\ asks' = asks + 1
  /\ Go(w, "send")
  /\ UNCHANGED <<clock, eta, edited, tasks, outcome, opted, feedback, stops>>

\* _send_and_record, whatever the provider says.
SendAsk(w) ==
  /\ step[w].at = "send"
  /\ sent' = TRUE
  /\ Done(w, step[w].task)
  /\ UNCHANGED <<clock, eta, edited, asks, cut, refused, opted, feedback, stops>>

\* The instance is stopped; Cloud Tasks runs the task again, which ends at
\* CheckAsked if the Notification is there, sent or not.
Stop(w) ==
  /\ step[w] # Idle
  /\ stops < StopBound /\ stops' = stops + 1
  /\ step' = [step EXCEPT ![w] = Idle]
  /\ cut' = (cut \/ step[w].at = "send")
  /\ UNCHANGED <<clock, eta, edited, tasks, asks, sent, refused, opted, feedback>>

-----------------------------------------------------------------------------
(* The customer                                                            *)

LinkOpen == ~(LinkEnd < clock)

\* tracking.unsubscribe
OptOut ==
  /\ LinkOpen /\ opted' = TRUE
  /\ UNCHANGED <<clock, eta, edited, tasks, step, asks, outcome, feedback, stops>>

\* mark_delivered, by the shop or by the customer ("received").
Deliver ==
  /\ delivered' = TRUE
  /\ UNCHANGED <<clock, eta, edited, tasks, step, asks, outcome, opted, rating, heard, stops>>

\* Mutant: every rating is announced as a new one.
Rate_Tells(w) ==
  /\ step[w] = Idle /\ LinkOpen /\ delivered
  /\ \E v \in {1, 5} :
       /\ rating' = v
       /\ step' = [step EXCEPT ![w] = [at |-> "tell", value |-> v]]
  /\ UNCHANGED <<clock, eta, edited, tasks, asks, outcome, opted, delivered, heard, stops>>

\* tracking.rate, update_or_create: the first rating of a delivered delivery is
\* created, a later one replaces it.
Rate(w) ==
  /\ step[w] = Idle /\ LinkOpen /\ delivered
  /\ \E v \in {1, 5} :
       /\ rating' = v
       /\ IF rating = 0
          THEN step' = [step EXCEPT ![w] = [at |-> "tell", value |-> v]]
          ELSE UNCHANGED step
  /\ UNCHANGED <<clock, eta, edited, tasks, asks, outcome, opted, delivered, heard, stops>>

\* emit_delivery_event("rating.created")
TellRating(w) ==
  /\ step[w].at = "tell"
  /\ heard' = heard \cup {step[w].value}
  /\ step' = [step EXCEPT ![w] = Idle]
  /\ UNCHANGED <<clock, eta, edited, tasks, asks, outcome, opted, delivered, rating, stops>>

\* The clock goes on to the next moment.
Tick ==
  /\ \E t \in Instant :
       /\ t > clock /\ \A u \in Instant : u > clock => t <= u
       /\ clock' = t
  /\ UNCHANGED <<eta, edited, tasks, step, asks, outcome, opted, feedback, stops>>

Answering(w) ==
  CheckAsked(w) \/ CheckOptOut(w) \/ Reserve(w) \/ CreateAsk(w) \/ SendAsk(w)

RNext ==
  \/ EditEta \/ Enqueue \/ OptOut \/ Deliver \/ Tick
  \/ \E w \in Thread : Callback(w) \/ Answering(w) \/ Rate(w) \/ TellRating(w) \/ Stop(w)

RSpec == RInit /\ [][RNext]_rvars

\* The clock goes on, Cloud Tasks runs a task until it is answered 200, and a
\* thread goes on with its request.  Nobody has to edit, deliver, opt out or rate.
RFairness ==
  /\ WF_rvars(Tick) /\ WF_rvars(\E w \in Thread : Callback(w))
  /\ \A w \in Thread : WF_rvars(Answering(w) \/ TellRating(w))
-----------------------------------------------------------------------------
RTypeOK ==
  /\ clock \in Instant
  /\ eta \in Arrival /\ edited \in Arrival \cup {NoArrival}
  /\ tasks \subseteq Arrival
  /\ step \in [Thread -> RatingStep]
  /\ asks \in Nat /\ stops \in Nat
  /\ sent \in BOOLEAN /\ cut \in BOOLEAN /\ refused \in BOOLEAN
  /\ opted \in BOOLEAN /\ delivered \in BOOLEAN
  /\ rating \in 0 .. 5 /\ heard \subseteq 1 .. 5

Past(at) == {w \in Thread : step[w].at \in at}

\* send_rating_request looks for a notification before it makes one, without a
\* lock: callbacks of several arrival times, late and repeated ones, ask a
\* customer (make a Notification, and send at most one message for it) at most
\* once for every thread.
AskedBound == asks <= Cardinality(Thread)

\* send_rating, update_delivery: the task of the arrival time that is in the
\* row is not taken for an early one, whatever became of the tasks of other times:
\* a request goes to the provider, unless the number opted out, a limit refuses,
\* the time is moved, or an instance was stopped just before it sent (nobody
\* sends what it leaves, since the next callback sees its Notification).
AskedInTheEnd ==
  \A a \in Arrival :
    eta = a /\ a \in tasks ~> sent \/ opted \/ refused \/ eta # a \/ cut

\* tracking.rate: whatever the customer clicks and however often, the merchant
\* hears of one rating.created, and only of a delivery that has a rating.
RatingToldOnce ==
  /\ Cardinality(heard) + Cardinality(Past({"tell"})) <= 1
  /\ heard # {} => rating # 0
=============================================================================
