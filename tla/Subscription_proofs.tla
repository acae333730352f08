------------------------ MODULE Subscription_proofs ------------------------
(***************************************************************************)
(* Proofs about Subscription for any set of workers and memberships, any   *)
(* choice of webhooks, with failed reads and crashes: access is earned,    *)
(* and a row at rest agrees with Whop unless answers overlapped.           *)
(***************************************************************************)
EXTENDS Subscription, TLAPS

\* The statuses of a membership that exists at Whop.
Existing == {"drafted", "active", "past_due", "canceled"}

\* A webhook that Whop really sent.
Genuine(e) ==
  /\ e \in [mem : Mem, kind : Kind, status : Existing]
  /\ whop[e.mem] \in Existing
  /\ e.kind = "payment" \/ e.status = "active" => e.mem \in everLive

\* What a worker knows at its step.
WorkerOK(w) ==
  /\ pc[w] = "checkout" =>
       /\ job[w] \in Job /\ job[w].kind = "checkout"
       /\ whop[job[w].mem] = "checkout"
  /\ pc[w] \in {"paid", "link"} => Genuine(job[w]) /\ job[w].kind = "payment"
  /\ pc[w] \in {"read", "find", "apply"} =>
       /\ job[w] \in Job /\ job[w].kind # "checkout"
       /\ job[w].kind \in Kind => Genuine(job[w])
       /\ whop[job[w].mem] \in Existing
  /\ pc[w] \in {"find", "apply"} =>
       /\ data[w] \in Existing
       /\ data[w] = "active" => job[w].mem \in everLive

OneCheckout ==
  \A v, w \in Worker :
    pc[v] = "checkout" /\ pc[w] = "checkout" /\ job[v].mem = job[w].mem => v = w

LiveWasSeen == \A m \in Mem : whop[m] = "active" => m \in everLive

RowOK ==
  /\ sub.mem # None => whop[sub.mem] \in Existing
  /\ sub.status = "active" => sub.mem \in everLive

\* The inductive invariant, together with TypeOK.
Known ==
  /\ \A w \in Worker : WorkerOK(w)
  /\ OneCheckout /\ LiveWasSeen /\ RowOK
  /\ \A e \in events : Genuine(e)

\* What Whop made stays made.
Growth ==
  /\ everLive \subseteq everLive'
  /\ \A m \in Mem : whop[m] \in Existing => whop'[m] \in Existing

-----------------------------------------------------------------------------
(* What stays true of a webhook and of a worker that does not move         *)

LEMMA GenuineStays ==
  ASSUME NEW e, Genuine(e), Growth
  PROVE  Genuine(e)'
BY DEF Genuine, Growth

LEMMA WorkerStays ==
  ASSUME NEW v \in Worker, WorkerOK(v), Growth,
         pc'[v] = pc[v], job'[v] = job[v], data'[v] = data[v],
         pc[v] = "checkout" => whop'[job[v].mem] = whop[job[v].mem]
  PROVE  WorkerOK(v)'
<1>1. Genuine(job[v]) => Genuine(job[v])'
  BY DEF Genuine, Growth
<1>2. job[v] \in Job => job[v].mem \in Mem
  BY DEF Job
<1> QED
  BY <1>1, <1>2 DEF WorkerOK, Growth

\* A genuine webhook is a job, and a worker that takes it knows enough.
LEMMA GenuineJob ==
  ASSUME NEW e, Genuine(e)
  PROVE  e \in Job /\ e.kind \in Kind /\ e.mem \in Mem
BY DEF Genuine, Job, Existing, WhopStatus, Kind

\* Entering a step sets the worker's own variables and no other's.
LEMMA Entering ==
  ASSUME TypeOK, NEW w \in Worker, NEW s \in Steps, NEW j \in Job \cup {None},
         Enter(w, s, j)
  PROVE  /\ pc' \in [Worker -> Steps] /\ job' \in [Worker -> Job \cup {None}]
         /\ data' \in [Worker -> WhopStatus]
         /\ pc'[w] = s /\ job'[w] = j
         /\ \A v \in Worker \ {w} :
              pc'[v] = pc[v] /\ job'[v] = job[v] /\ data'[v] = data[v]
BY DEF TypeOK, Enter, WhopStatus

LEMMA Going ==
  ASSUME TypeOK, NEW w \in Worker, NEW s \in Steps, Goto(w, s)
  PROVE  /\ pc' \in [Worker -> Steps] /\ job' = job /\ data' = data
         /\ pc'[w] = s
         /\ \A v \in Worker \ {w} : pc'[v] = pc[v]
BY DEF TypeOK, Goto

LEMMA InitKnown == Init => TypeOK /\ Known
<1> SUFFICES ASSUME Init PROVE TypeOK /\ Known
  OBVIOUS
<1>1. TypeOK
  BY DEF Init, TypeOK, Sub, Status, WhopStatus, Steps
<1>2. Known
  BY DEF Init, Known, WorkerOK, OneCheckout, LiveWasSeen, RowOK
<1> QED
  BY <1>1, <1>2

-----------------------------------------------------------------------------
(* Each step keeps types and invariant                                     *)

\* The workers and webhooks that a step of w does not concern.
LEMMA Others ==
  ASSUME TypeOK, Known, NEW w \in Worker, Growth,
         \A v \in Worker \ {w} :
           /\ pc'[v] = pc[v] /\ job'[v] = job[v] /\ data'[v] = data[v]
           /\ pc[v] = "checkout" => whop'[job[v].mem] = whop[job[v].mem]
  PROVE  /\ \A v \in Worker \ {w} : WorkerOK(v)'
         /\ \A e \in events : Genuine(e)'
         /\ pc'[w] # "checkout" => OneCheckout'
<1>1. \A v \in Worker \ {w} : WorkerOK(v)'
  BY WorkerStays DEF Known
<1>2. \A e \in events : Genuine(e)'
  BY GenuineStays DEF Known
<1>3. pc'[w] # "checkout" => OneCheckout'
  BY DEF Known, OneCheckout
<1> QED
  BY <1>1, <1>2, <1>3

\* Steps that leave Whop alone.
LEMMA SameWhop == UNCHANGED <<whop, everLive>> => Growth
BY DEF Growth

\* Steps of w that only move w, to a step at which it knows enough.
LEMMA Moved ==
  ASSUME TypeOK, Known, NEW w \in Worker,
         UNCHANGED <<sub, whop, everLive>>, events' \subseteq events,
         \A v \in Worker \ {w} :
           pc'[v] = pc[v] /\ job'[v] = job[v] /\ data'[v] = data[v],
         pc'[w] # "checkout", WorkerOK(w)'
  PROVE  Known'
<1>1. Growth
  BY SameWhop
<1>2. /\ \A v \in Worker \ {w} : WorkerOK(v)'
      /\ \A e \in events : Genuine(e)'
      /\ OneCheckout'
  BY <1>1, Others
<1>3. LiveWasSeen' /\ RowOK'
  BY DEF Known, LiveWasSeen, RowOK
<1> QED
  BY <1>2, <1>3 DEF Known

LEMMA CheckoutStep ==
  ASSUME TypeOK, Known, NEW w \in Worker, Checkout(w)
  PROVE  TypeOK' /\ Known'
<1>1. PICK m \in Mem :
        /\ whop[m] = "none"
        /\ whop' = [whop EXCEPT ![m] = "checkout"]
        /\ Enter(w, "checkout", [mem |-> m, kind |-> "checkout", status |-> "none"])
  BY DEF Checkout
<1>2. [mem |-> m, kind |-> "checkout", status |-> "none"] \in Job /\ "checkout" \in Steps
  BY DEF Job, WhopStatus, Steps
<1>3. /\ pc' \in [Worker -> Steps] /\ job' \in [Worker -> Job \cup {None}]
      /\ data' \in [Worker -> WhopStatus]
      /\ pc'[w] = "checkout"
      /\ job'[w] = [mem |-> m, kind |-> "checkout", status |-> "none"]
      /\ \A v \in Worker \ {w} :
           pc'[v] = pc[v] /\ job'[v] = job[v] /\ data'[v] = data[v]
  BY <1>1, <1>2, Entering
<1>4. UNCHANGED <<sub, events, everLive, raced>>
  BY DEF Checkout
<1>5. /\ whop' \in [Mem -> WhopStatus] /\ whop'[m] = "checkout"
      /\ \A n \in Mem \ {m} : whop'[n] = whop[n]
  BY <1>1 DEF TypeOK, WhopStatus
<1>6. TypeOK'
  BY <1>3, <1>4, <1>5 DEF TypeOK
<1>7. Growth
  BY <1>1, <1>4, <1>5 DEF Growth, Existing
<1>8. \A v \in Worker : pc[v] = "checkout" => job[v].mem \in Mem \ {m}
  BY <1>1 DEF Known, WorkerOK, Job
<1>9. /\ \A v \in Worker \ {w} : WorkerOK(v)'
      /\ \A e \in events : Genuine(e)'
  BY <1>3, <1>5, <1>7, <1>8, Others
<1>10. WorkerOK(w)'
  BY <1>2, <1>3, <1>5 DEF WorkerOK
<1>11. OneCheckout'
  BY <1>3, <1>8 DEF Known, OneCheckout
<1>12. LiveWasSeen' /\ RowOK'
  BY <1>1, <1>4, <1>5 DEF Known, LiveWasSeen, RowOK, TypeOK, Sub, Existing
<1> QED
  BY <1>4, <1>6, <1>9, <1>10, <1>11, <1>12 DEF Known

LEMMA CheckoutSaveStep ==
  ASSUME TypeOK, Known, NEW w \in Worker, CheckoutSave(w)
  PROVE  TypeOK' /\ Known'
<1>1. /\ At(w, "checkout") /\ sub' = [sub EXCEPT !.checkout = job[w].mem]
      /\ Enter(w, "idle", None) /\ UNCHANGED <<whop, events, everLive, raced>>
  BY DEF CheckoutSave, Finish
<1>2. job[w].mem \in Mem
  BY <1>1 DEF Known, WorkerOK, At, Job
<1>3. /\ sub' \in Sub /\ sub'.mem = sub.mem /\ sub'.status = sub.status
  BY <1>1, <1>2 DEF TypeOK, Sub
<1>4. /\ pc' \in [Worker -> Steps] /\ job' \in [Worker -> Job \cup {None}]
      /\ data' \in [Worker -> WhopStatus]
      /\ pc'[w] = "idle"
      /\ \A v \in Worker \ {w} :
           pc'[v] = pc[v] /\ job'[v] = job[v] /\ data'[v] = data[v]
  BY <1>1, Entering DEF Steps
<1>5. TypeOK'
  BY <1>1, <1>3, <1>4 DEF TypeOK
<1>6. Growth
  BY <1>1, SameWhop
<1>7. /\ \A v \in Worker \ {w} : WorkerOK(v)'
      /\ \A e \in events : Genuine(e)'
      /\ OneCheckout'
  BY <1>1, <1>4, <1>6, Others
<1>8. WorkerOK(w)'
  BY <1>4 DEF WorkerOK
<1>9. LiveWasSeen' /\ RowOK'
  BY <1>1, <1>3 DEF Known, LiveWasSeen, RowOK
<1> QED
  BY <1>1, <1>5, <1>7, <1>8, <1>9 DEF Known

LEMMA WebhookStep ==
  ASSUME TypeOK, Known, NEW w \in Worker, Webhook(w)
  PROVE  TypeOK' /\ Known'
<1>1. PICK e \in events :
        /\ events' \in {events, events \ {e}}
        /\ \/ Enter(w, "read", e)
           \/ e.kind = "payment" /\ Enter(w, "paid", e)
           \/ UNCHANGED <<pc, job, data>>
  BY DEF Webhook
<1>2. /\ raced' = (raced \/ Overlaps(w)) /\ UNCHANGED <<sub, whop, everLive>>
      /\ At(w, "idle")
  BY DEF Webhook
<1>3. /\ Genuine(e) /\ e \in Job /\ e.kind \in Kind /\ e.mem \in Mem
      /\ events' \subseteq events
  BY <1>1, GenuineJob DEF Known
<1>4. Growth
  BY <1>2, SameWhop
<1>5. Genuine(e)'
  BY <1>3, <1>4, GenuineStays
<1>6. raced' \in BOOLEAN
  BY <1>2 DEF TypeOK, Overlaps
<1>7. CASE Enter(w, "read", e)
  <2>1. /\ pc' \in [Worker -> Steps] /\ job' \in [Worker -> Job \cup {None}]
        /\ data' \in [Worker -> WhopStatus]
        /\ pc'[w] = "read" /\ job'[w] = e
        /\ \A v \in Worker \ {w} :
             pc'[v] = pc[v] /\ job'[v] = job[v] /\ data'[v] = data[v]
    BY <1>3, <1>7, Entering DEF Steps
  <2>2. WorkerOK(w)'
    BY <1>3, <1>5, <2>1 DEF WorkerOK, Genuine, Kind
  <2>3. Known'
    BY <1>2, <1>3, <2>1, <2>2, Moved
  <2> QED
    BY <1>2, <1>3, <1>6, <2>1, <2>3 DEF TypeOK
<1>8. CASE e.kind = "payment" /\ Enter(w, "paid", e)
  <2>1. /\ pc' \in [Worker -> Steps] /\ job' \in [Worker -> Job \cup {None}]
        /\ data' \in [Worker -> WhopStatus]
        /\ pc'[w] = "paid" /\ job'[w] = e
        /\ \A v \in Worker \ {w} :
             pc'[v] = pc[v] /\ job'[v] = job[v] /\ data'[v] = data[v]
    BY <1>3, <1>8, Entering DEF Steps
  <2>2. WorkerOK(w)'
    BY <1>5, <1>8, <2>1 DEF WorkerOK
  <2>3. Known'
    BY <1>2, <1>3, <2>1, <2>2, Moved
  <2> QED
    BY <1>2, <1>3, <1>6, <2>1, <2>3 DEF TypeOK
<1>9. CASE UNCHANGED <<pc, job, data>>
  <2>1. WorkerOK(w)'
    BY <1>2, <1>9 DEF WorkerOK, At
  <2>2. pc'[w] # "checkout"
    BY <1>2, <1>9 DEF At
  <2>3. Known'
    BY <1>2, <1>3, <1>9, <2>1, <2>2, Moved
  <2> QED
    BY <1>2, <1>3, <1>6, <1>9, <2>3 DEF TypeOK
<1> QED
  BY <1>1, <1>7, <1>8, <1>9

LEMMA SyncStep ==
  ASSUME TypeOK, Known, NEW w \in Worker, Sync(w)
  PROVE  TypeOK' /\ Known'
<1>1. /\ sub.mem # None
      /\ Enter(w, "read", [mem |-> sub.mem, kind |-> "sync", status |-> "none"])
      /\ raced' = (raced \/ Overlaps(w)) /\ UNCHANGED <<sub, whop, events, everLive>>
  BY DEF Sync
<1>2. [mem |-> sub.mem, kind |-> "sync", status |-> "none"] \in Job
  BY <1>1 DEF TypeOK, Sub, Job, WhopStatus
<1>3. /\ pc' \in [Worker -> Steps] /\ job' \in [Worker -> Job \cup {None}]
      /\ data' \in [Worker -> WhopStatus]
      /\ pc'[w] = "read"
      /\ job'[w] = [mem |-> sub.mem, kind |-> "sync", status |-> "none"]
      /\ \A v \in Worker \ {w} :
           pc'[v] = pc[v] /\ job'[v] = job[v] /\ data'[v] = data[v]
  BY <1>1, <1>2, Entering DEF Steps
<1>4. whop[sub.mem] \in Existing
  BY <1>1 DEF Known, RowOK
<1>5. WorkerOK(w)'
  BY <1>1, <1>2, <1>3, <1>4 DEF WorkerOK, Kind
<1>6. Known'
  BY <1>1, <1>3, <1>5, Moved
<1>7. raced' \in BOOLEAN
  BY <1>1 DEF TypeOK, Overlaps
<1> QED
  BY <1>1, <1>3, <1>6, <1>7 DEF TypeOK

LEMMA PaidReadStep ==
  ASSUME TypeOK, Known, NEW w \in Worker, PaidRead(w)
  PROVE  TypeOK' /\ Known'
<1>1. PICK s \in {"link", "read"} : Goto(w, s)
  BY DEF PaidRead
<1>2. At(w, "paid") /\ UNCHANGED <<sub, whop, events, everLive, raced>>
  BY DEF PaidRead
<1>3. /\ pc' \in [Worker -> Steps] /\ job' = job /\ data' = data
      /\ pc'[w] = s
      /\ \A v \in Worker \ {w} : pc'[v] = pc[v]
  BY <1>1, Going DEF Steps
<1>4. Genuine(job[w]) /\ job[w].kind = "payment"
  BY <1>2 DEF Known, WorkerOK, At
<1>5. job[w] \in Job
  BY <1>4, GenuineJob
<1>6. WorkerOK(w)'
  BY <1>1, <1>2, <1>3, <1>4, <1>5 DEF WorkerOK, Genuine
<1>7. Known'
  BY <1>1, <1>2, <1>3, <1>6, Moved
<1> QED
  BY <1>2, <1>3, <1>7 DEF TypeOK

LEMMA PaidLinkStep ==
  ASSUME TypeOK, Known, NEW w \in Worker, PaidLink(w)
  PROVE  TypeOK' /\ Known'
<1>1. /\ At(w, "link") /\ sub' = [sub EXCEPT !.mem = job[w].mem]
      /\ Goto(w, "read") /\ UNCHANGED <<whop, events, everLive, raced>>
  BY DEF PaidLink
<1>2. Genuine(job[w]) /\ job[w].kind = "payment"
  BY <1>1 DEF Known, WorkerOK, At
<1>3. job[w] \in Job /\ job[w].mem \in Mem
  BY <1>2, GenuineJob
<1>4. /\ pc' \in [Worker -> Steps] /\ job' = job /\ data' = data
      /\ pc'[w] = "read"
      /\ \A v \in Worker \ {w} : pc'[v] = pc[v]
  BY <1>1, Going DEF Steps
<1>5. /\ sub' \in Sub /\ sub'.mem = job[w].mem /\ sub'.status = sub.status
  BY <1>1, <1>3 DEF TypeOK, Sub
<1>6. TypeOK'
  BY <1>1, <1>4, <1>5 DEF TypeOK
<1>7. Growth
  BY <1>1, SameWhop
<1>8. /\ \A v \in Worker \ {w} : WorkerOK(v)'
      /\ \A e \in events : Genuine(e)'
      /\ OneCheckout'
  BY <1>1, <1>4, <1>7, Others
<1>9. WorkerOK(w)'
  BY <1>1, <1>2, <1>3, <1>4 DEF WorkerOK, Genuine
<1>10. RowOK'
  BY <1>1, <1>2, <1>5 DEF Known, RowOK, Genuine
<1>11. LiveWasSeen'
  BY <1>1 DEF Known, LiveWasSeen
<1> QED
  BY <1>1, <1>6, <1>8, <1>9, <1>10, <1>11 DEF Known

LEMMA ReadStep ==
  ASSUME TypeOK, Known, NEW w \in Worker, Read(w)
  PROVE  TypeOK' /\ Known'
<1>1. /\ At(w, "read") /\ UNCHANGED <<sub, whop, events, everLive>>
      /\ raced' = raced \/ raced' = TRUE
  BY DEF Read
<1>2. /\ job[w] \in Job /\ job[w].mem \in Mem /\ job[w].kind # "checkout"
      /\ job[w].kind \in Kind => Genuine(job[w])
      /\ whop[job[w].mem] \in Existing
  BY <1>1 DEF Known, WorkerOK, At, Job
<1>3. ASSUME NEW s \in Existing, s = "active" => job[w].mem \in everLive,
             data' = [data EXCEPT ![w] = s],
             pc' = [pc EXCEPT ![w] = Answered(job[w].mem)], UNCHANGED job
      PROVE  TypeOK' /\ Known'
  <2>1. /\ pc' \in [Worker -> Steps] /\ data' \in [Worker -> WhopStatus]
        /\ pc'[w] \in {"find", "apply"} /\ data'[w] = s
        /\ \A v \in Worker \ {w} : pc'[v] = pc[v] /\ data'[v] = data[v]
    BY <1>3 DEF TypeOK, Steps, Existing, WhopStatus, Answered
  <2>2. WorkerOK(w)'
    BY <1>1, <1>2, <1>3, <2>1 DEF WorkerOK, Genuine
  <2>3. Known'
    BY <1>1, <1>3, <2>1, <2>2, Moved
  <2> QED
    BY <1>1, <1>3, <2>1, <2>3 DEF TypeOK
<1>4. ASSUME Finish(w) PROVE TypeOK' /\ Known'
  <2>1. /\ pc' \in [Worker -> Steps] /\ job' \in [Worker -> Job \cup {None}]
        /\ data' \in [Worker -> WhopStatus]
        /\ pc'[w] = "idle"
        /\ \A v \in Worker \ {w} :
             pc'[v] = pc[v] /\ job'[v] = job[v] /\ data'[v] = data[v]
    BY <1>4, Entering DEF Finish, Steps
  <2>2. WorkerOK(w)'
    BY <2>1 DEF WorkerOK
  <2>3. Known'
    BY <1>1, <2>1, <2>2, Moved
  <2> QED
    BY <1>1, <2>1, <2>3 DEF TypeOK
<1>5. whop[job[w].mem] = "active" => job[w].mem \in everLive
  BY <1>2 DEF Known, LiveWasSeen
<1>6. job[w].kind = "membership" =>
        /\ job[w].status \in Existing
        /\ job[w].status = "active" => job[w].mem \in everLive
  BY <1>2 DEF Genuine, Kind
<1>7. \/ /\ data' = [data EXCEPT ![w] = whop[job[w].mem]]
         /\ pc' = [pc EXCEPT ![w] = Answered(job[w].mem)] /\ UNCHANGED job
      \/ /\ job[w].kind = "membership"
         /\ data' = [data EXCEPT ![w] = job[w].status]
         /\ pc' = [pc EXCEPT ![w] = Answered(job[w].mem)] /\ UNCHANGED job
      \/ Finish(w)
  BY DEF Read
<1> QED
  BY <1>2, <1>3, <1>4, <1>5, <1>6, <1>7

LEMMA FindStep ==
  ASSUME TypeOK, Known, NEW w \in Worker, Find(w)
  PROVE  TypeOK' /\ Known'
<1>1. At(w, "find") /\ UNCHANGED <<sub, whop, events, everLive, raced>>
  BY DEF Find
<1>2. CASE Goto(w, "apply")
  <2>1. /\ pc' \in [Worker -> Steps] /\ job' = job /\ data' = data
        /\ pc'[w] = "apply"
        /\ \A v \in Worker \ {w} : pc'[v] = pc[v]
    BY <1>2, Going DEF Steps
  <2>2. WorkerOK(w)'
    BY <1>1, <2>1 DEF Known, WorkerOK, Genuine, At
  <2>3. Known'
    BY <1>1, <2>1, <2>2, Moved
  <2> QED
    BY <1>1, <2>1, <2>3 DEF TypeOK
<1>3. CASE Enter(w, "idle", None)
  <2>1. /\ pc' \in [Worker -> Steps] /\ job' \in [Worker -> Job \cup {None}]
        /\ data' \in [Worker -> WhopStatus]
        /\ pc'[w] = "idle"
        /\ \A v \in Worker \ {w} :
             pc'[v] = pc[v] /\ job'[v] = job[v] /\ data'[v] = data[v]
    BY <1>3, Entering DEF Steps
  <2>2. WorkerOK(w)'
    BY <2>1 DEF WorkerOK
  <2>3. Known'
    BY <1>1, <2>1, <2>2, Moved
  <2> QED
    BY <1>1, <2>1, <2>3 DEF TypeOK
<1> QED
  BY <1>2, <1>3 DEF Find, Finish

\* A row that stores status s of membership m.
LEMMA StoredRow ==
  ASSUME TypeOK, NEW m \in Mem, NEW s \in Existing
  PROVE  /\ Stored(m, s) \in Sub
         /\ Stored(m, s).mem = m
         /\ Stored(m, s).status = IF s = "drafted" THEN sub.status ELSE s
BY DEF TypeOK, Stored, NewStatus, Sub, Status, Existing

LEMMA ApplyStep ==
  ASSUME TypeOK, Known, NEW w \in Worker, Apply(w)
  PROVE  /\ TypeOK' /\ Known'
         /\ sub.status = "active" /\ sub'.status # "active" => sub'.mem = sub.mem
<1>1. /\ At(w, "apply") /\ Enter(w, "idle", None)
      /\ UNCHANGED <<whop, events, everLive, raced>>
  BY DEF Apply, Finish
<1>2. PICK m \in Mem, s \in Existing :
        /\ m = job[w].mem /\ s = data[w] /\ whop[m] \in Existing
        /\ s = "active" => m \in everLive
  BY <1>1 DEF Known, WorkerOK, At, Job
<1>3. \/ sub' = sub
      \/ ~Ignored(m, s) /\ sub' = Stored(m, s)
  BY <1>2 DEF Apply
<1>4. /\ pc' \in [Worker -> Steps] /\ job' \in [Worker -> Job \cup {None}]
      /\ data' \in [Worker -> WhopStatus]
      /\ pc'[w] = "idle"
      /\ \A v \in Worker \ {w} :
           pc'[v] = pc[v] /\ job'[v] = job[v] /\ data'[v] = data[v]
  BY <1>1, Entering DEF Steps
<1>5. sub' \in Sub
  BY <1>3, StoredRow DEF TypeOK
<1>6. TypeOK'
  BY <1>1, <1>4, <1>5 DEF TypeOK
<1>7. Growth
  BY <1>1, SameWhop
<1>8. /\ \A v \in Worker \ {w} : WorkerOK(v)'
      /\ \A e \in events : Genuine(e)'
      /\ OneCheckout'
  BY <1>1, <1>4, <1>7, Others
<1>9. WorkerOK(w)'
  BY <1>4 DEF WorkerOK
<1>10. sub.status = "active" => sub.mem \in everLive /\ sub.mem # None
  BY SubscriptionConstants DEF Known, RowOK, TypeOK
<1>11. RowOK' /\ (sub.status = "active" /\ sub'.status # "active" => sub'.mem = sub.mem)
  <2>1. CASE sub' = sub
    BY <1>1, <2>1 DEF Known, RowOK
  <2>2. CASE ~Ignored(m, s) /\ sub' = Stored(m, s)
    <3>1. /\ sub'.mem = m
          /\ sub'.status = IF s = "drafted" THEN sub.status ELSE s
      BY <2>2, StoredRow
    <3>2. sub.status = "active" /\ s # "active" => sub.mem = m
      BY <1>10, <2>2 DEF Ignored
    <3> QED
      BY <1>1, <1>2, <1>10, <3>1, <3>2 DEF RowOK
  <2> QED
    BY <1>3, <2>1, <2>2
<1>12. LiveWasSeen'
  BY <1>1 DEF Known, LiveWasSeen
<1> QED
  BY <1>1, <1>6, <1>8, <1>9, <1>11, <1>12 DEF Known

LEMMA WhopStep ==
  ASSUME TypeOK, Known, WhopChanges
  PROVE  TypeOK' /\ Known'
<1>1. PICK m \in Mem, s \in Existing :
        /\ \A w \in Worker : ~(At(w, "checkout") /\ job[w].mem = m)
        /\ whop' = [whop EXCEPT ![m] = s]
        /\ events' = events \cup Announce(m, s)
        /\ everLive' = everLive \cup (IF s = "active" THEN {m} ELSE {})
        /\ UNCHANGED <<sub, raced, pc, job, data>>
  BY DEF WhopChanges, Successor, Existing
<1>2. /\ whop' \in [Mem -> WhopStatus] /\ whop'[m] = s
      /\ \A n \in Mem \ {m} : whop'[n] = whop[n]
  BY <1>1 DEF TypeOK, Existing, WhopStatus
<1>3. Growth
  BY <1>1, <1>2 DEF Growth
<1>4. \A e \in Announce(m, s) : Genuine(e)'
  <2> SUFFICES ASSUME NEW e \in Announce(m, s) PROVE Genuine(e)'
    OBVIOUS
  <2>1. PICK k \in Kind : e = [mem |-> m, kind |-> k, status |-> s]
                          /\ (k = "payment" => s = "active")
    BY SubscriptionConstants DEF Announce, Kind
  <2> QED
    BY <1>1, <1>2, <2>1 DEF Genuine
<1>5. \A e \in events' : Genuine(e)'
  <2>1. \A e \in events : Genuine(e)'
    BY <1>3, GenuineStays DEF Known
  <2> QED
    BY <1>1, <1>4, <2>1
<1>6. events' \subseteq [mem : Mem, kind : Kind, status : WhopStatus]
  BY <1>5 DEF Genuine, Existing, WhopStatus
<1>7. TypeOK'
  BY <1>1, <1>2, <1>6 DEF TypeOK
<1>8. ASSUME NEW v \in Worker PROVE WorkerOK(v)'
  <2>1. pc[v] = "checkout" => job[v].mem \in Mem /\ job[v].mem # m
    BY <1>1 DEF Known, WorkerOK, At, Job
  <2> QED
    BY <1>1, <1>2, <1>3, <2>1, WorkerStays DEF Known
<1>9. OneCheckout'
  BY <1>1 DEF Known, OneCheckout
<1>10. LiveWasSeen' /\ RowOK'
  <2>1. LiveWasSeen'
    BY <1>1, <1>2 DEF Known, LiveWasSeen
  <2>2. sub.mem # None => sub.mem \in Mem
    BY DEF TypeOK, Sub
  <2> QED
    BY <1>1, <1>3, <2>1, <2>2 DEF Known, RowOK, Growth
<1> QED
  BY <1>5, <1>7, <1>8, <1>9, <1>10 DEF Known

LEMMA CrashStep ==
  ASSUME TypeOK, Known, NEW w \in Worker, Crash(w)
  PROVE  TypeOK' /\ Known'
<1>1. /\ pc[w] # "idle" /\ Enter(w, "idle", None) /\ UNCHANGED <<sub, everLive, raced>>
      /\ events' = IF job[w].kind \in Kind THEN events \cup {job[w]} ELSE events
      /\ whop' = IF pc[w] = "checkout" THEN [whop EXCEPT ![job[w].mem] = "none"] ELSE whop
  BY DEF Crash, Finish, At
<1>2. /\ pc' \in [Worker -> Steps] /\ job' \in [Worker -> Job \cup {None}]
      /\ data' \in [Worker -> WhopStatus]
      /\ pc'[w] = "idle"
      /\ \A v \in Worker \ {w} :
           pc'[v] = pc[v] /\ job'[v] = job[v] /\ data'[v] = data[v]
  BY <1>1, Entering DEF Steps
<1>3. job[w].kind \in Kind => Genuine(job[w])
  BY <1>1 DEF Known, WorkerOK, TypeOK, Steps, Kind
<1>4. pc[w] = "checkout" => job[w].mem \in Mem /\ whop[job[w].mem] = "checkout"
  BY DEF Known, WorkerOK, Job
<1>5. whop' \in [Mem -> WhopStatus]
  BY <1>1, <1>4 DEF TypeOK, WhopStatus
<1>6. Growth
  BY <1>1, <1>4 DEF Growth, Existing, TypeOK
<1>7. \A v \in Worker \ {w} :
        pc[v] = "checkout" => whop'[job[v].mem] = whop[job[v].mem]
  <2> SUFFICES ASSUME NEW v \in Worker \ {w}, pc[v] = "checkout"
               PROVE  whop'[job[v].mem] = whop[job[v].mem]
    OBVIOUS
  <2>1. job[v].mem \in Mem /\ (pc[w] = "checkout" => job[v].mem # job[w].mem)
    BY DEF Known, WorkerOK, OneCheckout, Job
  <2> QED
    BY <1>1, <1>4, <2>1 DEF TypeOK
<1>8. /\ \A v \in Worker \ {w} : WorkerOK(v)'
      /\ \A e \in events : Genuine(e)'
      /\ OneCheckout'
  BY <1>2, <1>6, <1>7, Others
<1>9. WorkerOK(w)'
  BY <1>2 DEF WorkerOK
<1>10. \A e \in events' : Genuine(e)'
  <2>1. ASSUME NEW e \in events', e \notin events PROVE Genuine(e)'
    <3>1. Genuine(e)
      BY <1>1, <1>3, <2>1
    <3> QED
      BY <1>6, <3>1, GenuineStays
  <2> QED
    BY <1>8, <2>1
<1>11. events' \subseteq [mem : Mem, kind : Kind, status : WhopStatus]
  BY <1>10 DEF Genuine, Existing, WhopStatus
<1>12. TypeOK'
  BY <1>1, <1>2, <1>5, <1>11 DEF TypeOK
<1>13. LiveWasSeen' /\ RowOK'
  <2>1. \A n \in Mem : whop'[n] = whop[n] \/ whop'[n] = "none"
    BY <1>1, <1>4 DEF TypeOK
  <2>2. sub.mem # None => sub.mem \in Mem
    BY DEF TypeOK, Sub
  <2> QED
    BY <1>1, <1>6, <2>1, <2>2 DEF Known, LiveWasSeen, RowOK, Growth
<1> QED
  BY <1>8, <1>9, <1>10, <1>12, <1>13 DEF Known

LEMMA Stutter ==
  ASSUME TypeOK, Known, UNCHANGED vars
  PROVE  TypeOK' /\ Known'
<1>1. Growth
  BY SameWhop DEF vars
<1>2. \A v \in Worker : WorkerOK(v)'
  BY <1>1, WorkerStays DEF vars, Known
<1>3. \A e \in events' : Genuine(e)'
  BY <1>1, GenuineStays DEF vars, Known
<1> QED
  BY <1>2, <1>3 DEF vars, TypeOK, Known, OneCheckout, LiveWasSeen, RowOK

LEMMA EveryStep == TypeOK /\ Known /\ [Next]_vars => TypeOK' /\ Known'
<1> SUFFICES ASSUME TypeOK, Known, [Next]_vars PROVE TypeOK' /\ Known'
  OBVIOUS
<1>1. ASSUME NEW w \in Worker,
             \/ Checkout(w) \/ CheckoutSave(w) \/ Webhook(w) \/ Sync(w)
             \/ PaidRead(w) \/ PaidLink(w) \/ Read(w) \/ Find(w) \/ Apply(w) \/ Crash(w)
      PROVE  TypeOK' /\ Known'
  BY <1>1, CheckoutStep, CheckoutSaveStep, WebhookStep, SyncStep, PaidReadStep,
     PaidLinkStep, ReadStep, FindStep, ApplyStep, CrashStep
<1> QED
  BY <1>1, WhopStep, Stutter DEF Next

-----------------------------------------------------------------------------
(* Theorems                                                                *)

LEMMA Inductive == Spec => [](TypeOK /\ Known)
<1>1. Init => TypeOK /\ Known
  BY InitKnown
<1>2. TypeOK /\ Known /\ [Next]_vars => (TypeOK /\ Known)'
  BY EveryStep
<1> QED
  BY <1>1, <1>2, PTL DEF Spec

\* The row only ever holds statuses and memberships that the code knows.
THEOREM RowTypes == Spec => []TypeOK
BY Inductive, PTL

\* Access without the limits of an unpaid shop is given only for a membership
\* that was live, whatever old, repeated or failed reads are stored.
THEOREM AccessIsEarned == Spec => []ActiveIsEarned
<1>1. TypeOK /\ Known => ActiveIsEarned
  BY DEF Known, RowOK, ActiveIsEarned
<1> QED
  BY <1>1, Inductive, PTL

\* Only the recorded membership takes access away, however webhooks about the
\* others race with it.
THEOREM OthersDoNoHarm == Spec => OldMembershipHarmless
<1>1. TypeOK /\ Known /\ [Next]_vars =>
        [sub.status = "active" /\ sub'.status # "active" => sub'.mem = sub.mem]_vars
  <2> SUFFICES ASSUME TypeOK, Known, Next
               PROVE  sub.status = "active" /\ sub'.status # "active" => sub'.mem = sub.mem
    BY DEF vars
  <2>1. ASSUME NEW w \in Worker, Apply(w)
        PROVE  sub.status = "active" /\ sub'.status # "active" => sub'.mem = sub.mem
    BY <2>1, ApplyStep
  <2>2. ASSUME NEW w \in Worker, CheckoutSave(w) \/ PaidLink(w)
        PROVE  sub'.status = sub.status
    BY <2>2 DEF CheckoutSave, PaidLink, TypeOK, Sub
  <2>3. ASSUME NEW w \in Worker,
               \/ Checkout(w) \/ Webhook(w) \/ Sync(w) \/ PaidRead(w)
               \/ Read(w) \/ Find(w) \/ Crash(w)
        PROVE  sub' = sub
    BY <2>3 DEF Checkout, Webhook, Sync, PaidRead, Read, Find, Crash
  <2>4. WhopChanges => sub' = sub
    BY DEF WhopChanges
  <2> QED
    BY <2>1, <2>2, <2>3, <2>4 DEF Next
<1> QED
  BY <1>1, Inductive, PTL DEF Spec, OldMembershipHarmless
-----------------------------------------------------------------------------
(* The row agrees with Whop                                                *)

Busy(w) == pc[w] \in {"paid", "link", "read", "find", "apply"}

Agrees ==
  sub.mem = None \/ whop[sub.mem] = "drafted" \/ sub.status = whop[sub.mem]

\* A webhook about the recorded membership is on its way, or being answered
\* (should the worker be killed, Whop sends it again).
Awaited == \E e \in events : e.mem = sub.mem
InHand == \E w \in Worker : Busy(w) /\ job[w].mem = sub.mem /\ job[w].kind \in Kind

OneAnswer == \A v, w \in Worker : Busy(v) /\ Busy(w) => v = w

\* What was read is so still, or there is a webhook about what has changed.
ReadIsNews ==
  \A w \in Worker : pc[w] \in {"find", "apply"} =>
    data[w] = whop[job[w].mem] \/ \E e \in events : e.mem = job[w].mem

Settling == ~raced => OneAnswer /\ ReadIsNews /\ (Agrees \/ Awaited \/ InHand)

\* Steps of a worker that has nothing of this in hand, and loses no webhook.
LEMMA QuietStep ==
  ASSUME TypeOK, Known, Settling, NEW w \in Worker,
         Checkout(w) \/ CheckoutSave(w) \/ (Crash(w) /\ ~Busy(w))
  PROVE  Settling'
<1>1. /\ raced' = raced /\ events \subseteq events'
      /\ sub'.mem = sub.mem /\ sub'.status = sub.status
      /\ \A m \in Mem : whop[m] \in Existing => whop'[m] = whop[m]
  <2>1. CASE Checkout(w)
    BY <2>1 DEF Checkout, TypeOK, Existing
  <2>2. CASE CheckoutSave(w)
    BY <2>2 DEF CheckoutSave, TypeOK, Sub
  <2>3. CASE Crash(w)
    <3>1. pc[w] = "checkout" => whop[job[w].mem] = "checkout"
      BY DEF Known, WorkerOK
    <3> QED
      BY <2>3, <3>1 DEF Crash, At, TypeOK, Existing
  <2> QED
    BY <2>1, <2>2, <2>3
<1>2. /\ ~Busy(w) /\ pc'[w] \in {"checkout", "idle"}
      /\ \A v \in Worker \ {w} :
           pc'[v] = pc[v] /\ job'[v] = job[v] /\ data'[v] = data[v]
  BY DEF Checkout, CheckoutSave, Crash, Finish, Enter, TypeOK, At, Busy
<1>3. /\ sub.mem # None => whop[sub.mem] \in Existing /\ sub.mem \in Mem
      /\ \A v \in Worker : pc[v] \in {"find", "apply"} =>
           whop[job[v].mem] \in Existing /\ job[v].mem \in Mem
  BY DEF Known, RowOK, WorkerOK, TypeOK, Sub, Job
<1> SUFFICES ASSUME ~raced PROVE Settling'
  BY <1>1 DEF Settling
<1>4. OneAnswer' /\ ReadIsNews'
  <2>1. OneAnswer'
    BY <1>2 DEF Settling, OneAnswer, Busy
  <2>2. ReadIsNews'
    BY <1>1, <1>2, <1>3 DEF Settling, ReadIsNews
  <2> QED
    BY <2>1, <2>2
<1>5. (Agrees \/ Awaited \/ InHand)'
  <2>1. CASE Agrees
    BY <1>1, <1>3, <2>1 DEF Agrees
  <2>2. CASE Awaited
    BY <1>1, <2>2 DEF Awaited
  <2>3. CASE InHand
    BY <1>1, <1>2, <2>3 DEF InHand, Busy
  <2> QED
    BY <2>1, <2>2, <2>3 DEF Settling
<1> QED
  BY <1>4, <1>5 DEF Settling

\* An answer begins.
LEMMA BeginStep ==
  ASSUME TypeOK, Known, Settling, NEW w \in Worker, Webhook(w) \/ Sync(w)
  PROVE  Settling'
<1>1. /\ pc[w] = "idle" /\ raced' = (raced \/ Overlaps(w)) /\ UNCHANGED <<sub, whop>>
      /\ \A v \in Worker \ {w} :
           pc'[v] = pc[v] /\ job'[v] = job[v] /\ data'[v] = data[v]
      /\ pc'[w] \notin {"find", "apply"}
  BY DEF Webhook, Sync, At, Enter, TypeOK
<1> SUFFICES ASSUME ~raced' PROVE Settling'
  BY DEF Settling
<1>2. \A v \in Worker : ~Busy(v)
  BY <1>1 DEF Overlaps, Busy
<1>3. \A v \in Worker \ {w} : pc'[v] \notin {"paid", "link", "read", "find", "apply"}
  BY <1>1, <1>2 DEF Busy
<1>4. OneAnswer' /\ ReadIsNews'
  BY <1>1, <1>3 DEF OneAnswer, ReadIsNews, Busy
<1>5. Agrees \/ Awaited
  BY <1>1, <1>2 DEF Settling, InHand
<1>6. CASE Agrees
  BY <1>1, <1>4, <1>6 DEF Settling, Agrees
<1>7. CASE Awaited
  <2>1. CASE Sync(w)
    BY <1>1, <1>4, <1>7, <2>1 DEF Settling, Awaited, Sync
  <2>2. CASE Webhook(w)
    <3>1. PICK e \in events :
            /\ events' \in {events, events \ {e}}
            /\ CASE e.kind = "membership" -> Enter(w, "read", e)
                 [] e.kind = "payment" /\ Found(e.mem) -> Enter(w, "paid", e)
                 [] e.kind = "problem" /\ Found(e.mem) -> Enter(w, "read", e)
                 [] OTHER -> UNCHANGED <<pc, job, data>>
      BY <2>2 DEF Webhook
    <3>2. CASE e.mem = sub.mem
      <4>1. e.kind \in Kind
        BY GenuineJob DEF Known
      <4>2. Enter(w, "read", e) \/ Enter(w, "paid", e)
        BY <3>1, <3>2, <4>1 DEF Found, Kind
      <4>3. pc'[w] \in {"read", "paid"} /\ job'[w] = e
        BY <4>2 DEF Enter, TypeOK
      <4>4. InHand'
        BY <1>1, <3>2, <4>1, <4>3 DEF InHand, Busy
      <4> QED
        BY <1>4, <4>4 DEF Settling
    <3>3. CASE e.mem # sub.mem
      <4>1. Awaited'
        BY <1>1, <1>7, <3>1, <3>3 DEF Awaited
      <4> QED
        BY <1>4, <4>1 DEF Settling
    <3> QED
      BY <3>2, <3>3
  <2> QED
    BY <2>1, <2>2
<1> QED
  BY <1>5, <1>6, <1>7

\* An answer goes on.
LEMMA GoOnStep ==
  ASSUME TypeOK, Known, Settling, NEW w \in Worker, PaidRead(w) \/ PaidLink(w) \/ Read(w)
  PROVE  Settling'
<1> SUFFICES ASSUME ~raced' PROVE Settling'
  BY DEF Settling
<1>1. /\ ~raced /\ UNCHANGED <<whop, events, job>> /\ Busy(w)
      /\ \A v \in Worker \ {w} : pc'[v] = pc[v] /\ data'[v] = data[v]
      /\ pc'[w] \in {"link", "read", "find", "apply"}
  BY DEF PaidRead, PaidLink, Read, Answered, Goto, At, TypeOK, Busy
<1>2. /\ sub' # sub => InHand'
      /\ pc'[w] \in {"find", "apply"} => data'[w] = whop[job[w].mem]
  <2>1. CASE PaidRead(w)
    BY <2>1 DEF PaidRead, Goto, TypeOK
  <2>2. CASE PaidLink(w)
    <3>1. job[w].kind = "payment" /\ Genuine(job[w]) /\ job[w].mem \in Mem
      BY <2>2, GenuineJob DEF PaidLink, At, Known, WorkerOK
    <3>2. sub'.mem = job[w].mem
      BY <2>2 DEF PaidLink, TypeOK, Sub
    <3>3. pc'[w] = "read"
      BY <2>2 DEF PaidLink, Goto, TypeOK
    <3>4. InHand'
      BY <1>1, <3>1, <3>2, <3>3 DEF InHand, Busy, Kind
    <3> QED
      BY <3>1, <3>2, <3>3, <3>4
  <2>3. CASE Read(w)
    BY <1>1, <2>3 DEF Read, Answered, TypeOK
  <2> QED
    BY <2>1, <2>2, <2>3
<1>3. OneAnswer'
  BY <1>1 DEF Settling, OneAnswer, Busy
<1>4. ReadIsNews'
  BY <1>1, <1>2 DEF Settling, ReadIsNews
<1>5. (Agrees \/ Awaited \/ InHand)'
  <2>1. CASE sub' # sub
    BY <1>2, <2>1
  <2>2. CASE sub' = sub
    <3>1. Agrees => Agrees'
      BY <1>1, <2>2 DEF Agrees
    <3>2. Awaited => Awaited'
      BY <1>1, <2>2 DEF Awaited
    <3>3. InHand => InHand'
      BY <1>1, <2>2 DEF InHand, Busy
    <3> QED
      BY <1>1, <3>1, <3>2, <3>3 DEF Settling
  <2> QED
    BY <2>1, <2>2
<1> QED
  BY <1>3, <1>4, <1>5 DEF Settling

\* The shop is found.
LEMMA FoundStep ==
  ASSUME TypeOK, Known, Settling, NEW w \in Worker, pc[w] = "find", Goto(w, "apply"),
         UNCHANGED <<sub, whop, events, raced>>
  PROVE  Settling'
<1>1. /\ pc'[w] = "apply" /\ UNCHANGED <<job, data>>
      /\ \A v \in Worker \ {w} : pc'[v] = pc[v]
  BY Going DEF Steps
<1>2. OneAnswer => OneAnswer'
  BY <1>1 DEF OneAnswer, Busy
<1>3. ReadIsNews => ReadIsNews'
  BY <1>1 DEF ReadIsNews
<1>4. Agrees \/ Awaited \/ InHand => (Agrees \/ Awaited \/ InHand)'
  <2>1. InHand => InHand'
    BY <1>1 DEF InHand, Busy
  <2> QED
    BY <2>1 DEF Agrees, Awaited
<1> QED
  BY <1>2, <1>3, <1>4 DEF Settling

\* An answer is stored, dropped or cut off.
LEMMA EndStep ==
  ASSUME TypeOK, Known, Settling, NEW w \in Worker,
         Apply(w) \/ (Find(w) /\ ~Found(job[w].mem)) \/ (Crash(w) /\ Busy(w))
  PROVE  Settling'
<1>1. /\ raced' = raced /\ Busy(w) /\ pc'[w] = "idle" /\ events \subseteq events'
      /\ UNCHANGED whop
      /\ \A v \in Worker \ {w} :
           pc'[v] = pc[v] /\ job'[v] = job[v] /\ data'[v] = data[v]
  BY DEF Apply, Find, Crash, Finish, Enter, At, TypeOK, Busy
<1> SUFFICES ASSUME ~raced PROVE Settling'
  BY <1>1 DEF Settling
<1>2. \A v \in Worker \ {w} : ~Busy(v) /\ pc'[v] \notin {"paid", "link", "read", "find", "apply"}
  <2>1. \A v \in Worker : Busy(v) => v = w
    BY <1>1 DEF Settling, OneAnswer
  <2> QED
    BY <1>1, <2>1 DEF Busy
<1>3. OneAnswer' /\ ReadIsNews'
  BY <1>1, <1>2 DEF OneAnswer, ReadIsNews, Busy
<1>4. Agrees \/ Awaited \/ (job[w].mem = sub.mem /\ job[w].kind \in Kind)
  BY <1>2 DEF Settling, InHand
<1>5. CASE Crash(w)
  <2>1. sub' = sub /\ (job[w].kind \in Kind => job[w] \in events')
    BY <1>5 DEF Crash
  <2>2. Agrees' \/ Awaited'
    BY <1>1, <1>4, <2>1 DEF Agrees, Awaited
  <2> QED
    BY <1>3, <2>2 DEF Settling
<1>6. CASE Apply(w)
  <2>1. events' = events /\ pc[w] = "apply"
    BY <1>6 DEF Apply, At
  <2>2. PICK m \in Mem, s \in Existing : m = job[w].mem /\ s = data[w]
    BY <2>1 DEF Known, WorkerOK, Job
  <2>3. s = whop[m] \/ \E e \in events : e.mem = m
    BY <2>1, <2>2 DEF Settling, ReadIsNews
  <2>4. sub' = IF Ignored(m, s) THEN sub ELSE Stored(m, s)
    BY <1>6, <2>2 DEF Apply
  <2>5. CASE sub' = Stored(m, s)
    <3>1. sub'.mem = m /\ sub'.status = IF s = "drafted" THEN sub.status ELSE s
      BY <2>5, StoredRow
    <3>2. Agrees' \/ Awaited'
      BY <1>1, <2>1, <2>3, <3>1 DEF Agrees, Awaited
    <3> QED
      BY <1>3, <3>2 DEF Settling
  <2>6. CASE sub' = sub /\ Ignored(m, s)
    <3>1. sub.mem # m
      BY <2>6 DEF Ignored
    <3>2. Agrees \/ Awaited
      BY <1>4, <2>2, <3>1
    <3>3. Agrees' \/ Awaited'
      BY <1>1, <2>1, <2>6, <3>2 DEF Agrees, Awaited
    <3> QED
      BY <1>3, <3>3 DEF Settling
  <2> QED
    BY <2>4, <2>5, <2>6
<1>7. CASE Find(w) /\ ~Found(job[w].mem)
  <2>1. UNCHANGED <<sub, events>> /\ job[w].mem # sub.mem
    BY <1>7 DEF Find, Found
  <2>2. Agrees' \/ Awaited'
    BY <1>1, <1>4, <2>1 DEF Agrees, Awaited
  <2> QED
    BY <1>3, <2>2 DEF Settling
<1> QED
  BY <1>5, <1>6, <1>7

\* Whop tells of every change.
LEMMA TellStep ==
  ASSUME TypeOK, Known, Settling, "membership" \in Sent, WhopChanges
  PROVE  Settling'
<1>1. PICK m \in Mem, s \in Existing :
        /\ whop' = [whop EXCEPT ![m] = s]
        /\ events' = events \cup Announce(m, s)
        /\ UNCHANGED <<sub, raced, pc, job, data>>
  BY DEF WhopChanges, Successor, Existing
<1>2. \E e \in events' : e.mem = m
  <2>1. [mem |-> m, kind |-> "membership", status |-> s] \in Announce(m, s)
    BY DEF Announce
  <2> QED
    BY <1>1, <2>1
<1>3. \A n \in Mem : whop'[n] = whop[n] \/ n = m
  BY <1>1 DEF TypeOK
<1>4. /\ sub.mem # None => sub.mem \in Mem
      /\ \A v \in Worker : pc[v] \in {"find", "apply"} => job[v].mem \in Mem
  BY DEF Known, WorkerOK, TypeOK, Sub, Job
<1> SUFFICES ASSUME ~raced PROVE Settling'
  BY <1>1 DEF Settling
<1>5. OneAnswer'
  BY <1>1 DEF Settling, OneAnswer, Busy
<1>6. ReadIsNews'
  BY <1>1, <1>2, <1>3, <1>4 DEF Settling, ReadIsNews
<1>7. (Agrees \/ Awaited \/ InHand)'
  <2>1. CASE Agrees
    BY <1>1, <1>2, <1>3, <1>4, <2>1 DEF Agrees, Awaited
  <2>2. CASE Awaited
    BY <1>1, <2>2 DEF Awaited
  <2>3. CASE InHand
    BY <1>1, <2>3 DEF InHand, Busy
  <2> QED
    BY <2>1, <2>2, <2>3 DEF Settling
<1> QED
  BY <1>5, <1>6, <1>7 DEF Settling

LEMMA SettlingStep ==
  ASSUME "membership" \in Sent
  PROVE  TypeOK /\ Known /\ Settling /\ [Next]_vars => Settling'
<1> SUFFICES ASSUME TypeOK, Known, Settling, [Next]_vars PROVE Settling'
  OBVIOUS
<1>1. ASSUME NEW w \in Worker,
             \/ Checkout(w) \/ CheckoutSave(w) \/ Webhook(w) \/ Sync(w)
             \/ PaidRead(w) \/ PaidLink(w) \/ Read(w) \/ Find(w) \/ Apply(w) \/ Crash(w)
      PROVE  Settling'
  <2>1. CASE Find(w)
    BY <2>1, FoundStep, EndStep DEF Find, At
  <2> QED
    BY <1>1, <2>1, QuietStep, BeginStep, GoOnStep, EndStep
<1>2. CASE WhopChanges
  BY <1>2, TellStep
<1>3. CASE UNCHANGED vars
  BY <1>3 DEF vars, Settling, OneAnswer, ReadIsNews, Agrees, Awaited, InHand, Busy
<1> QED
  BY <1>1, <1>2, <1>3 DEF Next

LEMMA SettlingAtFirst == Init => Settling
BY DEF Init, Settling, OneAnswer, ReadIsNews, Agrees, Busy

\* If Whop is set to send the webhooks about memberships: whenever none is on
\* its way and none is being answered, the row has the status its membership has
\* at Whop, however often and in whatever order they came, and wherever workers
\* were killed; unless a read failed or two answers overlapped.
THEOREM SettledRowAgrees ==
  ASSUME "membership" \in Sent
  PROVE  Spec => []AgreesWhenQuiet
<1>1. Init => Settling
  BY SettlingAtFirst
<1>2. TypeOK /\ Known /\ Settling /\ [Next]_vars => Settling'
  BY SettlingStep
<1>3. TypeOK /\ Known /\ Settling => AgreesWhenQuiet
  BY DEF Settling, AgreesWhenQuiet, Quiet, At, Agrees, Awaited, InHand, Busy
<1> QED
  BY <1>1, <1>2, <1>3, Inductive, PTL DEF Spec
=============================================================================
