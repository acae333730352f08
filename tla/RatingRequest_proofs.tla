------------------------- MODULE RatingRequest_proofs -------------------------
(***************************************************************************)
(* RatingRequest for any number of threads, arrival times and moments: a   *)
(* customer is asked at most once per thread, the merchant hears of one    *)
(* rating, and a message that is not urgent waits for the morning.         *)
(***************************************************************************)
EXTENDS RatingRequest, FiniteSetTheorems, TLAPS

\* clamp_to_window: a message goes out in the window, not before its time, and
\* at most the night later; a time in the window stays.
THEOREM ClampInWindow ==
  ASSUME NEW t \in Int
  PROVE  /\ Clamp(t) \in Int /\ InWindow(Clamp(t))
         /\ t <= Clamp(t) /\ Clamp(t) <= t + (Day - WindowEnd + WindowStart)
         /\ InWindow(t) => Clamp(t) = t
  BY DEF Clamp, InWindow, TimeOfDay, Day, WindowStart, WindowEnd

\* clamp_to_window: of two messages the earlier one does not go out later.
THEOREM ClampInOrder ==
  ASSUME NEW t \in Int, NEW u \in Int, t <= u
  PROVE  Clamp(t) <= Clamp(u)
  BY SMTT(60) DEF Clamp, InWindow, TimeOfDay, Day, WindowStart, WindowEnd

\* rating_send_time: the request goes out after the delay, by day, within the
\* delay and a night.
THEOREM SendTimeInWindow ==
  ASSUME NEW a \in Int
  PROVE  /\ InWindow(SendTime(a))
         /\ a + RatingDelay <= SendTime(a) /\ SendTime(a) <= a + RatingDelay + 600
<1>1. a + RatingDelay \in Int /\ Day - WindowEnd + WindowStart = 600
  BY DEF RatingDelay, Day, WindowEnd, WindowStart
<1> QED BY <1>1, ClampInWindow DEF SendTime

-----------------------------------------------------------------------------
\* The step a callback takes next is still a step.
LEMMA GoType ==
  ASSUME NEW s \in RatingStep, NEW at \in {"opted", "reserve", "create", "send"},
         s.at \in {"asked", "opted", "reserve", "create", "send"}
  PROVE  [s EXCEPT !.at = at] \in RatingStep /\ [s EXCEPT !.at = at].at = at
  BY DEF RatingStep

\* The clock, the rows and the threads keep their types.
LEMMA NextTypes == RTypeOK /\ [RNext]_rvars => RTypeOK'
<1> SUFFICES ASSUME RTypeOK, [RNext]_rvars PROVE RTypeOK'
  OBVIOUS
<1> USE RatingConstants DEF RTypeOK, outcome, feedback
<1>0. Idle \in RatingStep
  BY DEF Idle, RatingStep
<1>1. CASE EditEta \/ Enqueue \/ OptOut \/ Deliver \/ Tick
  BY <1>1 DEF EditEta, Enqueue, OptOut, Deliver, Tick
<1>2. ASSUME NEW w \in Thread, Callback(w) PROVE RTypeOK'
  <2>1. PICK task \in tasks :
          \/ Done(w, task)
          \/ step' = [step EXCEPT ![w] = [at |-> "asked", task |-> task]] /\ UNCHANGED tasks
    BY <1>2 DEF Callback
  <2>2. [at |-> "asked", task |-> task] \in RatingStep
    BY <2>1 DEF RatingStep
  <2> QED BY <1>0, <1>2, <2>1, <2>2 DEF Callback, Done
<1>3. ASSUME NEW w \in Thread, Answering(w) PROVE RTypeOK'
  <2>1. \A task \in Arrival : Done(w, task) => step' \in [Thread -> RatingStep] /\ tasks' \subseteq Arrival
    BY <1>0 DEF Done
  <2>2. ASSUME NEW next \in {"opted", "reserve", "create", "send"}, Go(w, next),
               step[w].at \in {"asked", "opted", "reserve", "create", "send"}
        PROVE  step' \in [Thread -> RatingStep]
    BY <2>2, GoType DEF Go
  <2>3. step[w].at \in {"asked", "opted", "reserve", "create", "send"} => step[w].task \in Arrival
    BY DEF RatingStep
  <2>4. CASE CheckAsked(w)
    BY <2>1, <2>2, <2>3, <2>4 DEF CheckAsked
  <2>5. CASE CheckOptOut(w)
    BY <2>1, <2>2, <2>3, <2>5 DEF CheckOptOut
  <2>6. CASE Reserve(w)
    BY <2>1, <2>2, <2>3, <2>6 DEF Reserve
  <2>7. CASE CreateAsk(w)
    <3>1. Go(w, "send") /\ step[w].at = "create" /\ asks' = asks + 1
      BY <2>7 DEF CreateAsk
    <3>2. step' \in [Thread -> RatingStep]
      BY <2>2, <3>1
    <3> QED BY <2>7, <3>1, <3>2 DEF CreateAsk
  <2>8. CASE SendAsk(w)
    BY <2>1, <2>3, <2>8 DEF SendAsk
  <2> QED BY <1>3, <2>4, <2>5, <2>6, <2>7, <2>8 DEF Answering
<1>4. ASSUME NEW w \in Thread, Rate(w) PROVE RTypeOK'
  <2>1. PICK v \in {1, 5} :
          /\ rating' = v
          /\ \/ step' = [step EXCEPT ![w] = [at |-> "tell", value |-> v]]
             \/ UNCHANGED step
    BY <1>4 DEF Rate
  <2>2. [at |-> "tell", value |-> v] \in RatingStep
    BY <2>1 DEF RatingStep
  <2> QED BY <1>4, <2>1, <2>2 DEF Rate
<1>5. ASSUME NEW w \in Thread, TellRating(w) PROVE RTypeOK'
  <2>1. step[w].value \in 1 .. 5
    BY <1>5 DEF TellRating, RatingStep
  <2> QED BY <1>0, <1>5, <2>1 DEF TellRating
<1>6. ASSUME NEW w \in Thread, Stop(w) PROVE RTypeOK'
  BY <1>0, <1>6 DEF Stop
<1>7. CASE UNCHANGED rvars
  BY <1>7 DEF rvars
<1> QED BY <1>1, <1>2, <1>3, <1>4, <1>5, <1>6, <1>7 DEF RNext

\* The types of the delivery, the tasks and the threads.
THEOREM RatingTypes == RSpec => []RTypeOK
<1>1. RInit => RTypeOK
  <2>1. Idle \in RatingStep
    BY DEF Idle, RatingStep
  <2>2. RInit => step \in [Thread -> RatingStep] /\ tasks \subseteq Arrival
    BY <2>1 DEF RInit
  <2>3. RInit => clock \in Instant /\ eta \in Arrival
    BY DEF RInit
  <2>4. RInit => /\ sent \in BOOLEAN /\ cut \in BOOLEAN /\ refused \in BOOLEAN
                 /\ opted \in BOOLEAN /\ delivered \in BOOLEAN
    BY Zenon DEF RInit
  <2>5. RInit => /\ asks \in Nat /\ stops \in Nat /\ rating \in 0 .. 5 /\ heard \subseteq 1 .. 5
                 /\ edited \in Arrival \cup {NoArrival}
    BY DEF RInit
  <2> QED BY <2>2, <2>3, <2>4, <2>5 DEF RTypeOK
<1> QED BY <1>1, NextTypes, PTL DEF RSpec

-----------------------------------------------------------------------------
(* The request for a rating                                                *)

\* Threads that have found the delivery not asked and have not asked yet.
AskSteps == {"opted", "reserve", "create"}
Asking == {w \in Thread : step[w].at \in AskSteps}

\* Threads that have a rating to tell.
Telling == {w \in Thread : step[w].at = "tell"}

\* The inductive invariant: what was asked and what is about to be.
AskInv == asks + Cardinality(Asking) <= Cardinality(Thread)

\* The threads at some steps are finitely many.
LEMMA ThreadsFinite ==
  /\ IsFiniteSet(Asking) /\ Cardinality(Asking) \in Nat
  /\ IsFiniteSet(Telling) /\ Cardinality(Telling) \in Nat
  /\ Cardinality(Asking) <= Cardinality(Thread)
  /\ Cardinality(Thread) \in Nat
<1>1. Asking \subseteq Thread /\ Telling \subseteq Thread
  BY DEF Asking, Telling
<1> QED BY <1>1, RatingConstants, FS_Subset, FS_CardinalityType

\* A thread that goes on to another step goes in and out of these sets by it,
\* and no other thread does.
LEMMA Moves ==
  ASSUME NEW w \in Thread, NEW s, step' = [step EXCEPT ![w] = s], RTypeOK
  PROVE  /\ Asking' = IF s.at \in AskSteps THEN Asking \cup {w} ELSE Asking \ {w}
         /\ Telling' = IF s.at = "tell" THEN Telling \cup {w} ELSE Telling \ {w}
  BY DEF Asking, Telling, RTypeOK, AskSteps

\* A thread that is idle is at none of these steps.
LEMMA Rests ==
  ASSUME RTypeOK, NEW w \in Thread, step' = [step EXCEPT ![w] = Idle]
  PROVE  Asking' = Asking \ {w} /\ Telling' = Telling \ {w}
<1>1. Idle.at = "idle"
  BY DEF Idle
<1> QED BY <1>1, Moves DEF AskSteps

\* A thread that goes on with a callback is at the step it goes to.
LEMMA GoesOn ==
  ASSUME RTypeOK, NEW w \in Thread,
         NEW next \in {"opted", "reserve", "create", "send"}, Go(w, next),
         step[w].at \in {"asked", "opted", "reserve", "create", "send"}
  PROVE  /\ Asking' = IF next \in AskSteps THEN Asking \cup {w} ELSE Asking \ {w}
         /\ Telling' = Telling
<1>0. step[w] \in RatingStep
  BY DEF RTypeOK
<1>1. PICK s \in RatingStep : s = [step[w] EXCEPT !.at = next] /\ s.at = next
  BY <1>0, GoType
<1>2. step' = [step EXCEPT ![w] = s]
  BY <1>1 DEF Go
<1>3. w \notin Telling /\ s.at # "tell"
  BY <1>1 DEF Telling
<1>4. /\ Asking' = IF s.at \in AskSteps THEN Asking \cup {w} ELSE Asking \ {w}
      /\ Telling' = IF s.at = "tell" THEN Telling \cup {w} ELSE Telling \ {w}
  BY <1>2, Moves
<1> QED BY <1>1, <1>3, <1>4

\* AskInv is kept when nothing is asked and no thread joins those that ask.
LEMMA NobodyJoins ==
  ASSUME AskInv, RTypeOK, RTypeOK', asks' = asks, Asking' \subseteq Asking
  PROVE  AskInv'
<1>1. Cardinality(Asking') <= Cardinality(Asking) /\ Cardinality(Asking') \in Nat
  BY ThreadsFinite, FS_Subset, FS_CardinalityType
<1> QED BY <1>1, ThreadsFinite DEF AskInv, RTypeOK

\* Every step preserves AskInv.
LEMMA NextAsk == RTypeOK /\ RTypeOK' /\ AskInv /\ [RNext]_rvars => AskInv'
<1> SUFFICES ASSUME RTypeOK, RTypeOK', AskInv, [RNext]_rvars PROVE AskInv'
  OBVIOUS
<1>1. CASE EditEta \/ Enqueue \/ OptOut \/ Deliver \/ Tick \/ UNCHANGED rvars
  <2>1. asks' = asks /\ step' = step
    BY <1>1 DEF EditEta, Enqueue, OptOut, Deliver, Tick, rvars
  <2>2. Asking' = Asking
    BY <2>1 DEF Asking, AskSteps
  <2> QED BY <2>1, <2>2, NobodyJoins
<1>2. ASSUME NEW w \in Thread, Callback(w) PROVE AskInv'
  <2>1. asks' = asks
    BY <1>2 DEF Callback
  <2>2. PICK task \in tasks :
          Done(w, task) \/ step' = [step EXCEPT ![w] = [at |-> "asked", task |-> task]]
    BY <1>2 DEF Callback
  <2>3. Asking' \subseteq Asking
    <3>1. CASE Done(w, task)
      BY <3>1, Rests DEF Done
    <3>2. CASE step' = [step EXCEPT ![w] = [at |-> "asked", task |-> task]]
      BY <3>2, Moves DEF AskSteps
    <3> QED BY <2>2, <3>1, <3>2
  <2> QED BY <2>1, <2>3, NobodyJoins
<1>3. ASSUME NEW w \in Thread, CheckAsked(w) PROVE AskInv'
  <2>1. CASE asks > 0
    <3>1. asks' = asks /\ Done(w, step[w].task)
      BY <1>3, <2>1 DEF CheckAsked
    <3> QED BY <3>1, Rests, NobodyJoins DEF Done
  <2>2. CASE asks = 0
    <3>1. asks' = 0
      BY <1>3, <2>2 DEF CheckAsked
    <3>2. Cardinality(Asking') \in Nat /\ Cardinality(Asking') <= Cardinality(Thread)
      <4>1. Asking' \subseteq Thread
        BY DEF Asking, AskSteps
      <4> QED BY <4>1, RatingConstants, FS_Subset, FS_CardinalityType
    <3> QED BY <3>1, <3>2 DEF AskInv
  <2> QED BY <2>1, <2>2 DEF RTypeOK
<1>4. ASSUME NEW w \in Thread, CheckOptOut(w) \/ Reserve(w) PROVE AskInv'
  <2>1. asks' = asks /\ step[w].at \in {"opted", "reserve"}
    BY <1>4 DEF CheckOptOut, Reserve
  <2>2. Done(w, step[w].task) \/ Go(w, "reserve") \/ Go(w, "create")
    BY <1>4 DEF CheckOptOut, Reserve
  <2>3. w \in Asking
    BY <2>1 DEF Asking, AskSteps
  <2>4. Asking' \subseteq Asking
    BY <2>1, <2>2, <2>3, Rests, GoesOn DEF Done, AskSteps
  <2> QED BY <2>1, <2>4, NobodyJoins
<1>5. ASSUME NEW w \in Thread, CreateAsk(w) PROVE AskInv'
  <2>1. asks' = asks + 1 /\ Go(w, "send") /\ step[w].at = "create"
    BY <1>5 DEF CreateAsk
  <2>2. w \in Asking /\ Asking' = Asking \ {w}
    BY <2>1, GoesOn DEF Asking, AskSteps
  <2>3. Cardinality(Asking') = Cardinality(Asking) - 1
    BY <2>2, ThreadsFinite, FS_RemoveElement
  <2> QED BY <2>1, <2>3, ThreadsFinite DEF AskInv, RTypeOK
<1>6. ASSUME NEW w \in Thread, SendAsk(w) PROVE AskInv'
  BY <1>6, Rests, NobodyJoins DEF SendAsk, Done
<1>7. ASSUME NEW w \in Thread, Rate(w) PROVE AskInv'
  <2>1. asks' = asks
    BY <1>7 DEF Rate
  <2>2. PICK v \in {1, 5} :
          step' = [step EXCEPT ![w] = [at |-> "tell", value |-> v]] \/ step' = step
    BY <1>7 DEF Rate
  <2>3. CASE step' = step
    BY <2>1, <2>3, NobodyJoins DEF Asking, AskSteps
  <2>4. CASE step' = [step EXCEPT ![w] = [at |-> "tell", value |-> v]]
    BY <2>1, <2>4, Moves, NobodyJoins DEF AskSteps
  <2> QED BY <2>2, <2>3, <2>4
<1>8. ASSUME NEW w \in Thread, TellRating(w) \/ Stop(w) PROVE AskInv'
  BY <1>8, Rests, NobodyJoins DEF TellRating, Stop
<1> QED BY <1>1, <1>2, <1>3, <1>4, <1>5, <1>6, <1>7, <1>8 DEF RNext, Answering

\* send_rating_request: a customer is asked at most once per thread.
THEOREM AskedBoundHolds == RSpec => []AskedBound
<1>1. RInit => AskInv
  <2> SUFFICES ASSUME RInit PROVE AskInv
    OBVIOUS
  <2>1. Asking = {} /\ asks = 0
    BY DEF RInit, Asking, AskSteps, Idle
  <2> QED BY <2>1, RatingConstants, FS_EmptySet, FS_CardinalityType DEF AskInv
<1>2. RTypeOK /\ AskInv => AskedBound
  BY ThreadsFinite DEF AskInv, AskedBound, RTypeOK
<1> QED BY <1>1, <1>2, NextAsk, RatingTypes, PTL DEF RSpec

-----------------------------------------------------------------------------
(* The rating                                                              *)

\* The inductive invariant: one rating.created is sent or about to be, and none
\* without a rating.
TellInv ==
  /\ rating = 0 => heard = {} /\ Telling = {}
  /\ Cardinality(heard) + Cardinality(Telling) <= 1

\* What the merchant has heard is a finite set.
LEMMA HeardFinite == RTypeOK => IsFiniteSet(heard) /\ Cardinality(heard) \in Nat
<1>1. IsFiniteSet(1 .. 5)
  <2>1. 1 \in Int /\ 5 \in Int
    OBVIOUS
  <2> QED BY <2>1, FS_Interval
<1> QED BY <1>1, FS_Subset, FS_CardinalityType DEF RTypeOK

\* TellInv is kept when no thread begins to tell and no rating changes.
LEMMA NobodyTells ==
  ASSUME TellInv, RTypeOK, Telling' \subseteq Telling, UNCHANGED <<rating, heard>>
  PROVE  TellInv'
<1>1. Cardinality(Telling') <= Cardinality(Telling) /\ Cardinality(Telling') \in Nat
  BY ThreadsFinite, FS_Subset, FS_CardinalityType
<1> QED BY <1>1, ThreadsFinite, HeardFinite DEF TellInv

\* Every step preserves TellInv.
LEMMA NextTell == RTypeOK /\ TellInv /\ [RNext]_rvars => TellInv'
<1> SUFFICES ASSUME RTypeOK, TellInv, [RNext]_rvars PROVE TellInv'
  OBVIOUS
<1>1. CASE EditEta \/ Enqueue \/ OptOut \/ Deliver \/ Tick \/ UNCHANGED rvars
  <2>1. UNCHANGED <<rating, heard, step>>
    BY <1>1 DEF EditEta, Enqueue, OptOut, Deliver, Tick, rvars, feedback
  <2>2. Telling' = Telling
    BY <2>1 DEF Telling
  <2> QED BY <2>1, <2>2, NobodyTells
<1>2. ASSUME NEW w \in Thread, Callback(w) PROVE TellInv'
  <2>1. UNCHANGED <<rating, heard>>
    BY <1>2 DEF Callback, feedback
  <2>2. PICK task \in tasks :
          Done(w, task) \/ step' = [step EXCEPT ![w] = [at |-> "asked", task |-> task]]
    BY <1>2 DEF Callback
  <2>3. Telling' \subseteq Telling
    <3>1. CASE Done(w, task)
      BY <3>1, Rests DEF Done
    <3>2. CASE step' = [step EXCEPT ![w] = [at |-> "asked", task |-> task]]
      <4>1. [at |-> "asked", task |-> task].at # "tell"
        OBVIOUS
      <4> QED BY <3>2, <4>1, Moves
    <3> QED BY <2>2, <3>1, <3>2
  <2> QED BY <2>1, <2>3, NobodyTells
<1>3. ASSUME NEW w \in Thread, Answering(w) PROVE TellInv'
  <2>1. /\ UNCHANGED <<rating, heard>>
        /\ \/ Done(w, step[w].task)
           \/ /\ step[w].at \in {"asked", "opted", "reserve", "create", "send"}
              /\ Go(w, "opted") \/ Go(w, "reserve") \/ Go(w, "create") \/ Go(w, "send")
    BY <1>3 DEF Answering, CheckAsked, CheckOptOut, Reserve, CreateAsk, SendAsk, feedback
  <2>2. Telling' \subseteq Telling
    BY <2>1, Rests, GoesOn DEF Done
  <2> QED BY <2>1, <2>2, NobodyTells
<1>4. ASSUME NEW w \in Thread, Rate(w) PROVE TellInv'
  <2>1. PICK v \in {1, 5} :
          /\ rating' = v /\ UNCHANGED heard
          /\ IF rating = 0
             THEN step' = [step EXCEPT ![w] = [at |-> "tell", value |-> v]]
             ELSE UNCHANGED step
    BY <1>4 DEF Rate
  <2>2. CASE rating = 0
    <3>1. step' = [step EXCEPT ![w] = [at |-> "tell", value |-> v]]
      BY <2>1, <2>2
    <3>2. [at |-> "tell", value |-> v].at = "tell"
      OBVIOUS
    <3>3. Telling' = Telling \cup {w}
      BY <3>1, <3>2, Moves
    <3>4. Telling' = {w} /\ heard' = {}
      BY <2>1, <2>2, <3>3 DEF TellInv
    <3>5. Cardinality(Telling') = 1 /\ Cardinality(heard') = 0
      BY <3>4, FS_Singleton, FS_EmptySet
    <3> QED BY <2>1, <3>5 DEF TellInv
  <2>3. CASE rating # 0
    <3>1. Telling' = Telling /\ heard' = heard
      BY <2>1, <2>3 DEF Telling
    <3> QED BY <2>1, <3>1 DEF TellInv
  <2> QED BY <2>2, <2>3
<1>5. ASSUME NEW w \in Thread, TellRating(w) PROVE TellInv'
  <2>1. /\ step[w].at = "tell" /\ heard' = heard \cup {step[w].value} /\ UNCHANGED rating
        /\ step' = [step EXCEPT ![w] = Idle]
    BY <1>5 DEF TellRating
  <2>2. w \in Telling /\ Telling' = Telling \ {w}
    BY <2>1, Rests DEF Telling
  <2>3. Cardinality(Telling') = Cardinality(Telling) - 1
    BY <2>2, ThreadsFinite, FS_RemoveElement
  <2>4. Cardinality(heard') \in Nat /\ Cardinality(heard') <= Cardinality(heard) + 1
    <3>1. IsFiniteSet(heard) /\ Cardinality(heard) \in Nat
      BY HeardFinite
    <3>2. IsFiniteSet(heard \cup {step[w].value})
      BY <3>1, FS_AddElement
    <3>3. Cardinality(heard \cup {step[w].value}) \in {Cardinality(heard), Cardinality(heard) + 1}
      BY <3>1, FS_AddElement
    <3> QED BY <2>1, <3>1, <3>2, <3>3
  <2>5. rating' # 0
    BY <2>1, <2>2 DEF TellInv
  <2> QED BY <2>3, <2>4, <2>5, ThreadsFinite, HeardFinite DEF TellInv
<1>6. ASSUME NEW w \in Thread, Stop(w) PROVE TellInv'
  <2>1. UNCHANGED <<rating, heard>> /\ step' = [step EXCEPT ![w] = Idle]
    BY <1>6 DEF Stop, feedback
  <2> QED BY <2>1, Rests, NobodyTells
<1> QED BY <1>1, <1>2, <1>3, <1>4, <1>5, <1>6 DEF RNext

\* tracking.rate: the merchant hears of one rating.created, of a delivery that
\* has a rating.
THEOREM RatingToldOnceHolds == RSpec => []RatingToldOnce
<1>1. RInit => TellInv
  <2> SUFFICES ASSUME RInit PROVE TellInv
    OBVIOUS
  <2>1. Telling = {} /\ heard = {}
    BY DEF RInit, Telling, Idle
  <2> QED BY <2>1, FS_EmptySet DEF TellInv
<1>2. TellInv => RatingToldOnce
  <2>1. Past({"tell"}) = Telling
    BY DEF Past, Telling
  <2> QED BY <2>1 DEF TellInv, RatingToldOnce
<1> QED BY <1>1, <1>2, NextTell, RatingTypes, PTL DEF RSpec
=============================================================================
