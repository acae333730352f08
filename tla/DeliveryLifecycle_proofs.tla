---------------------- MODULE DeliveryLifecycle_proofs ----------------------
(***************************************************************************)
(* Proofs about DeliveryLifecycle for any set of workers, any numbers and  *)
(* times and any resend cap.                                               *)
(***************************************************************************)
EXTENDS DeliveryLifecycle, FiniteSetTheorems, TLAPS

\* A worker is in the transaction of start_delivery, past its second check.
Locking == {"start_reserve", "start_commit"}
\* A worker has committed a start and is finishing the request.
Starting == {"start_send", "start_record", "start_schedule", "start_event"}
\* A worker found the notification that it is about to send again.
Resending == {"resend_lock", "resend_insert", "resend_phone", "resend_queue",
              "resend_send", "resend_record"}

LocksMatchSteps ==
  \A w \in Worker :
    /\ rowLock = w <=> pc[w] \in Locking
    /\ shopLock = w <=> pc[w] \in {"start_commit", "resend_insert"}

TimeIsChosen ==
  \A w \in Worker :
    pc[w] \in {"start_lock", "edit_schedule"} \cup Locking \cup Starting
      => arg[w].eta \in Eta

\* Nothing of a start is visible before its commit.
BeforeStart ==
  notification = "none" =>
    /\ row.status # "on_the_way"
    /\ sends["on_the_way"] = 0
    /\ journal["on_the_way"] = 0
    /\ events["delivery.started"] = 0
    /\ \A w \in Worker : pc[w] \notin Starting \cup Resending

AfterStart ==
  notification # "none" =>
    /\ row.eta # None
    /\ journal["on_the_way"] = 1
    /\ token \/ row.purged
    /\ \A w \in Worker : pc[w] \notin Locking

\* The worker whose start went through, and how far it is.
OneStarter ==
  /\ \A v, w \in Worker : pc[v] \in Starting /\ pc[w] \in Starting => v = w
  /\ \A w \in Worker :
       /\ pc[w] = "start_send" => sends["on_the_way"] = 0
       /\ pc[w] \in Starting => events["delivery.started"] = 0
  /\ sends["on_the_way"] <= 1
  /\ events["delivery.started"] <= 1

ResendsCounted ==
  /\ journal["resend"] <= ResendCap
  /\ \A w \in Worker : pc[w] = "resend_insert" => journal["resend"] < ResendCap

-----------------------------------------------------------------------------
(* Values and helpers                                                      *)

\* The reset values of a worker are well typed.
LEMMA NoValues == NoRow \in Row /\ NoArg \in Arg
BY DEF NoRow, NoArg, Row, Arg, Status, Age

\* Saving columns of the delivery keeps it a Delivery row.
LEMMA RowUpdates ==
  ASSUME NEW r \in Row
  PROVE  /\ \A s \in Status : [r EXCEPT !.status = s] \in Row
         /\ \A e \in Eta : [r EXCEPT !.status = "on_the_way", !.eta = e] \in Row
         /\ [r EXCEPT !.status = "delivered", !.delivered = "recent"] \in Row
         /\ \A a \in Age : [r EXCEPT !.deleted = a] \in Row
         /\ \A p \in Phone \cup {None} : [r EXCEPT !.phone = p] \in Row
         /\ \A p \in Phone \cup {None}, e \in Eta \cup {None} :
              [r EXCEPT !.phone = p, !.eta = e] \in Row
         /\ [r EXCEPT !.phone = None, !.purged = TRUE] \in Row
         /\ \A a, b \in Age : [r EXCEPT !.deleted = a, !.delivered = b] \in Row
         /\ r.deleted \in Age /\ r.delivered \in Age
         /\ r.phone \in Phone \cup {None} /\ r.eta \in Eta \cup {None}
BY DEF Row, Status, Age

\* What marking a delivery delivered and erasing it leave as they were.
LEMMA DeliveredRow ==
  ASSUME row \in Row, NEW w \in Worker, Delivered(w)
  PROVE  /\ row'.status \in {row.status, "delivered"}
         /\ row'.eta = row.eta /\ row'.purged = row.purged
<1>1. CASE row' = row
  BY <1>1
<1>2. CASE row' = [row EXCEPT !.status = "delivered", !.delivered = "recent"]
  BY <1>2 DEF Row
<1> QED
  BY <1>1, <1>2 DEF Delivered, Save

LEMMA PurgedRow ==
  ASSUME row \in Row, NEW w \in Worker, PurgeBatch(w)
  PROVE  /\ row'.status = row.status /\ row'.eta = row.eta
         /\ token \/ row.purged => token' \/ row'.purged
<1>1. CASE row' = row /\ token' = token
  BY <1>1
<1>2. CASE row' = [row EXCEPT !.phone = None, !.purged = TRUE]
  BY <1>2 DEF Row
<1> QED
  BY <1>1, <1>2 DEF PurgeBatch

LEMMA ArgUpdates ==
  /\ \A e \in Eta : [NoArg EXCEPT !.eta = e] \in Arg
  /\ \A p \in Phone \cup {None} : [NoArg EXCEPT !.phone = p] \in Arg
  /\ \A a \in Arg : a.eta \in Eta \cup {None} /\ a.phone \in Phone \cup {None}
BY DEF NoArg, Arg

LocalOK ==
  /\ pc \in [Worker -> Steps]
  /\ seen \in [Worker -> Row]
  /\ arg \in [Worker -> Arg]

\* The three ways a worker moves on keep its own state well typed.
LEMMA LocalSteps ==
  ASSUME TypeOK, NEW w \in Worker
  PROVE  /\ Finish(w) => LocalOK'
         /\ \A s \in Steps : Move(w, s) => LocalOK'
         /\ \A s \in Steps, a \in Arg : Proceed(w, s, a) => LocalOK'
<1>1. \A s \in Steps, a \in Arg : Proceed(w, s, a) => LocalOK'
  <2> SUFFICES ASSUME NEW s \in Steps, NEW a \in Arg, Proceed(w, s, a)
               PROVE  LocalOK'
    OBVIOUS
  <2> QED
    BY NoValues DEF TypeOK, LocalOK, Proceed, Goto, Keep
<1>2. "idle" \in Steps
  BY DEF Steps
<1>3. Finish(w) => LocalOK'
  BY <1>1, <1>2, NoValues DEF Finish
<1>4. \A s \in Steps : Move(w, s) => LocalOK'
  BY DEF TypeOK, LocalOK, Move, Goto
<1> QED
  BY <1>1, <1>3, <1>4

LEMMA Counting ==
  /\ \A f \in [SendKind -> Nat], k \in SendKind : Count(f, k) \in [SendKind -> Nat]
  /\ \A f \in [Event -> Nat], k \in Event : Count(f, k) \in [Event -> Nat]
BY DEF Count

-----------------------------------------------------------------------------
(* Type correctness                                                        *)

LEMMA TypeInit == Init => TypeOK
<1> SUFFICES ASSUME Init PROVE TypeOK
  OBVIOUS
<1>1. row \in Row
  BY NoValues DEF Init, NoRow, Row, Status, Age
<1> QED
  BY <1>1, NoValues DEF Init, TypeOK, SendKind, Event, Steps

LEMMA TypeStep == TypeOK /\ TimeIsChosen /\ [Next]_vars => TypeOK'
<1> SUFFICES ASSUME TypeOK, TimeIsChosen, [Next]_vars PROVE TypeOK'
  OBVIOUS
<1> USE LocalSteps DEF TypeOK, LocalOK, Steps, db, locks, outside, local,
                       Save, Schedule
<1>1. ASSUME NEW w \in Worker, Receive(w) PROVE TypeOK'
  <2>1. PICK op \in Ops \ {"purge"} : Goto(w, op)
    BY <1>1 DEF Receive
  <2>2. pc' \in [Worker -> Steps]
    BY <2>1, ConstantsAssumption DEF Goto, AllOps
  <2> QED
    BY <1>1, <2>2 DEF Receive, Keep
<1>2. ASSUME NEW w \in Worker, PurgeScan(w) PROVE TypeOK'
  BY <1>2 DEF PurgeScan
<1>3. ASSUME NEW w \in Worker, StartCheck(w) PROVE TypeOK'
  BY <1>3, ArgUpdates DEF StartCheck
<1>4. ASSUME NEW w \in Worker, StartLock(w) PROVE TypeOK'
  BY <1>4 DEF StartLock
<1>5. ASSUME NEW w \in Worker, StartReserve(w) PROVE TypeOK'
  BY <1>5 DEF StartReserve
<1>6. ASSUME NEW w \in Worker, StartCommit(w) PROVE TypeOK'
  <2>1. arg[w].eta \in Eta
    BY <1>6 DEF StartCommit, TimeIsChosen, Locking, At
  <2>2. row' \in Row
    BY <1>6, <2>1, RowUpdates DEF StartCommit
  <2>3. LocalOK'
    BY <1>6 DEF StartCommit
  <2>4. journal' \in [SendKind -> Nat]
    BY <1>6, Counting DEF StartCommit, SendKind
  <2> QED
    BY <1>6, <2>2, <2>3, <2>4 DEF StartCommit
<1>7. ASSUME NEW w \in Worker, StartSend(w) PROVE TypeOK'
  BY <1>7, Counting DEF StartSend, SendKind
<1>8. ASSUME NEW w \in Worker, StartRecord(w) PROVE TypeOK'
  BY <1>8 DEF StartRecord
<1>9. ASSUME NEW w \in Worker, StartSchedule(w) PROVE TypeOK'
  BY <1>9 DEF StartSchedule, TimeIsChosen, Starting, At
<1>10. ASSUME NEW w \in Worker, StartEvent(w) PROVE TypeOK'
  BY <1>10, Counting DEF StartEvent, Event
<1>11. ASSUME NEW w \in Worker, Ready(w) PROVE TypeOK'
  BY <1>11, RowUpdates DEF Ready, Status
<1>12. ASSUME NEW w \in Worker, Delivered(w) PROVE TypeOK'
  BY <1>12, RowUpdates, NoValues DEF Delivered
<1>13. ASSUME NEW w \in Worker, DeliveredEvent(w) PROVE TypeOK'
  BY <1>13, Counting DEF DeliveredEvent, Event
<1>14. ASSUME NEW w \in Worker, Delete(w) PROVE TypeOK'
  <2>1. [row EXCEPT !.deleted = "recent"] \in Row
    BY RowUpdates DEF Age
  <2> QED
    BY <1>14, <2>1 DEF Delete
<1>15. ASSUME NEW w \in Worker, Restore(w) PROVE TypeOK'
  <2>1. [row EXCEPT !.deleted = "never"] \in Row
    BY RowUpdates DEF Age
  <2> QED
    BY <1>15, <2>1 DEF Restore
<1>16. ASSUME NEW w \in Worker, Edit(w) PROVE TypeOK'
  <2>1. PICK p \in Phone, e \in Eta \cup {None} : Edit(w)!2!(p, e)
    BY <1>16 DEF Edit
  <2>2. row' \in Row
    <3>1. [row EXCEPT !.phone = IF p = seen[w].phone THEN @ ELSE p,
                      !.eta = IF Reschedules(w, e) THEN e ELSE @] \in Row
      BY RowUpdates
    <3> QED
      BY <2>1, <3>1
  <2>3. LocalOK'
    BY <2>1, ArgUpdates DEF Reschedules
  <2> QED
    BY <1>16, <2>2, <2>3 DEF Edit
<1>17. ASSUME NEW w \in Worker, EditSchedule(w) PROVE TypeOK'
  BY <1>17 DEF EditSchedule, TimeIsChosen, At
<1>18. ASSUME NEW w \in Worker, ResendCheck(w) PROVE TypeOK'
  BY <1>18, ArgUpdates DEF ResendCheck
<1>19. ASSUME NEW w \in Worker, ResendLock(w) PROVE TypeOK'
  BY <1>19 DEF ResendLock
<1>20. ASSUME NEW w \in Worker, ResendInsert(w) PROVE TypeOK'
  BY <1>20, Counting DEF ResendInsert, SendKind
<1>21. ASSUME NEW w \in Worker, ResendPhone(w) PROVE TypeOK'
  <2>1. arg[w].phone \in Phone \cup {None}
    BY ArgUpdates
  <2>2. [row EXCEPT !.phone = arg[w].phone] \in Row
    BY <2>1, RowUpdates
  <2> QED
    BY <1>21, <2>2 DEF ResendPhone
<1>22. ASSUME NEW w \in Worker, ResendQueue(w) PROVE TypeOK'
  BY <1>22 DEF ResendQueue
<1>23. ASSUME NEW w \in Worker, ResendSend(w) PROVE TypeOK'
  BY <1>23, Counting DEF ResendSend, SendKind
<1>24. ASSUME NEW w \in Worker, ResendRecord(w) PROVE TypeOK'
  BY <1>24 DEF ResendRecord
<1>25. ASSUME NEW w \in Worker, PurgeBatch(w) PROVE TypeOK'
  BY <1>25, RowUpdates DEF PurgeBatch
<1>26. ASSUME NEW w \in Worker, Crash(w) PROVE TypeOK'
  BY <1>26 DEF Crash
<1>27. CASE TimePasses
  BY <1>27, RowUpdates DEF TimePasses, Age
<1>28. CASE UNCHANGED vars
  BY <1>28 DEF vars
<1> QED
  BY <1>1, <1>2, <1>3, <1>4, <1>5, <1>6, <1>7, <1>8, <1>9, <1>10, <1>11,
     <1>12, <1>13, <1>14, <1>15, <1>16, <1>17, <1>18, <1>19, <1>20, <1>21,
     <1>22, <1>23, <1>24, <1>25, <1>26, <1>27, <1>28
     DEF Next, Work

-----------------------------------------------------------------------------
(* The inductive invariant                                                 *)

Core ==
  /\ LocksMatchSteps /\ TimeIsChosen
  /\ BeforeStart /\ AfterStart
  /\ OneStarter /\ ResendsCounted

LEMMA CoreInit == Init => Core
BY ConstantsAssumption
   DEF Init, Core, LocksMatchSteps, TimeIsChosen, BeforeStart, AfterStart,
       OneStarter, ResendsCounted, Locking, Starting, Resending, NoRow,
       SendKind, Event

\* The worker that commits a start excludes every other: the row lock lets one
\* worker into the transaction, and after its commit AlreadyStarted holds.
LEMMA CoreStep == TypeOK /\ Core /\ [Next]_vars => Core'
<1> SUFFICES ASSUME TypeOK, Core, [Next]_vars PROVE Core'
  OBVIOUS
<1>0. /\ pc \in [Worker -> Steps] /\ arg \in [Worker -> Arg]
      /\ journal \in [SendKind -> Nat]
      /\ sends \in [SendKind -> Nat]
      /\ events \in [Event -> Nat]
      /\ rowLock \in Worker \cup {None} /\ shopLock \in Worker \cup {None}
      /\ row \in Row
      /\ None \notin Worker /\ None \notin Eta /\ ResendCap \in Nat
  BY ConstantsAssumption DEF TypeOK
<1> USE <1>0 DEF Core, LocksMatchSteps, TimeIsChosen, BeforeStart, AfterStart,
                 OneStarter, ResendsCounted, Locking, Starting, Resending,
                 db, locks, outside, local, At, Save, Schedule, AlreadyStarted,
                 Goto, Keep, Move, Proceed, Finish, Count, SendKind, Event
<1>1. ASSUME NEW w \in Worker, Receive(w) PROVE Core'
  BY <1>1, ConstantsAssumption DEF Receive, AllOps
<1>2. ASSUME NEW w \in Worker, PurgeScan(w) PROVE Core'
  BY <1>2 DEF PurgeScan
<1>3. ASSUME NEW w \in Worker, StartCheck(w) PROVE Core'
  BY <1>3 DEF StartCheck, NoArg
<1>4. ASSUME NEW w \in Worker, StartLock(w) PROVE Core'
  BY <1>4 DEF StartLock
<1>5. ASSUME NEW w \in Worker, StartReserve(w) PROVE Core'
  BY <1>5 DEF StartReserve
<1>6. ASSUME NEW w \in Worker, StartCommit(w) PROVE Core'
  BY <1>6 DEF StartCommit, Row
<1>7. ASSUME NEW w \in Worker, StartSend(w) PROVE Core'
  BY <1>7 DEF StartSend
<1>8. ASSUME NEW w \in Worker, StartRecord(w) PROVE Core'
  BY <1>8 DEF StartRecord
<1>9. ASSUME NEW w \in Worker, StartSchedule(w) PROVE Core'
  BY <1>9 DEF StartSchedule
<1>10. ASSUME NEW w \in Worker, StartEvent(w) PROVE Core'
  BY <1>10 DEF StartEvent
<1>11. ASSUME NEW w \in Worker, Ready(w) PROVE Core'
  BY <1>11 DEF Ready, Row
<1>12. ASSUME NEW w \in Worker, Delivered(w) PROVE Core'
  <2>1. /\ row'.status \in {row.status, "delivered"}
        /\ row'.eta = row.eta /\ row'.purged = row.purged
    BY <1>12, DeliveredRow
  <2>2. Proceed(w, "idle", NoArg) \/ Proceed(w, "delivered_event", NoArg)
    BY <1>12 DEF Delivered
  <2> QED
    BY <1>12, <2>1, <2>2 DEF Delivered
<1>13. ASSUME NEW w \in Worker, DeliveredEvent(w) PROVE Core'
  BY <1>13 DEF DeliveredEvent
<1>14. ASSUME NEW w \in Worker, Delete(w) PROVE Core'
  BY <1>14 DEF Delete, Row
<1>15. ASSUME NEW w \in Worker, Restore(w) PROVE Core'
  BY <1>15 DEF Restore, Row
<1>16. ASSUME NEW w \in Worker, Edit(w) PROVE Core'
  <2>1. PICK p \in Phone, e \in Eta \cup {None} : Edit(w)!2!(p, e)
    BY <1>16 DEF Edit
  <2>2. /\ row'.status = row.status /\ row'.purged = row.purged
        /\ row.eta # None => row'.eta # None
    BY <2>1 DEF Row, Reschedules
  <2>3. \/ Proceed(w, "idle", NoArg)
        \/ e \in Eta /\ Proceed(w, "edit_schedule", [NoArg EXCEPT !.eta = e])
    BY <2>1 DEF Reschedules
  <2> QED
    BY <1>16, <2>2, <2>3 DEF Edit, NoArg
<1>17. ASSUME NEW w \in Worker, EditSchedule(w) PROVE Core'
  BY <1>17 DEF EditSchedule
<1>18. ASSUME NEW w \in Worker, ResendCheck(w) PROVE Core'
  BY <1>18 DEF ResendCheck
<1>19. ASSUME NEW w \in Worker, ResendLock(w) PROVE Core'
  BY <1>19 DEF ResendLock
<1>20. ASSUME NEW w \in Worker, ResendInsert(w) PROVE Core'
  BY <1>20 DEF ResendInsert
<1>21. ASSUME NEW w \in Worker, ResendPhone(w) PROVE Core'
  BY <1>21 DEF ResendPhone, Row
<1>22. ASSUME NEW w \in Worker, ResendQueue(w) PROVE Core'
  BY <1>22 DEF ResendQueue
<1>23. ASSUME NEW w \in Worker, ResendSend(w) PROVE Core'
  BY <1>23 DEF ResendSend
<1>24. ASSUME NEW w \in Worker, ResendRecord(w) PROVE Core'
  BY <1>24 DEF ResendRecord
<1>25. ASSUME NEW w \in Worker, PurgeBatch(w) PROVE Core'
  <2>1. /\ row'.status = row.status /\ row'.eta = row.eta
        /\ token \/ row.purged => token' \/ row'.purged
    BY <1>25, PurgedRow
  <2> QED
    BY <1>25, <2>1 DEF PurgeBatch
<1>26. ASSUME NEW w \in Worker, Crash(w) PROVE Core'
  BY <1>26 DEF Crash
<1>27. CASE TimePasses
  BY <1>27 DEF TimePasses, Row
<1>28. CASE UNCHANGED vars
  BY <1>28 DEF vars
<1> QED
  BY <1>1, <1>2, <1>3, <1>4, <1>5, <1>6, <1>7, <1>8, <1>9, <1>10, <1>11,
     <1>12, <1>13, <1>14, <1>15, <1>16, <1>17, <1>18, <1>19, <1>20, <1>21,
     <1>22, <1>23, <1>24, <1>25, <1>26, <1>27, <1>28
     DEF Next, Work

-----------------------------------------------------------------------------
(* The theorems                                                            *)

LEMMA Inductive == Spec => [](TypeOK /\ Core)
<1>1. Init => TypeOK /\ Core
  BY TypeInit, CoreInit
<1>2. TypeOK /\ Core /\ [Next]_vars => (TypeOK /\ Core)'
  BY TypeStep, CoreStep DEF Core
<1> QED
  BY <1>1, <1>2, PTL DEF Spec

\* Every variable keeps its type, for any number of workers.
THEOREM TypeCorrect == Spec => []TypeOK
BY Inductive, PTL

\* However many requests to start one delivery race, and wherever workers are
\* killed, there is at most one first message, one paid send for it and one
\* delivery.started webhook.
THEOREM StartsOnce == Spec => []StartedOnce
<1>1. TypeOK /\ Core => StartedOnce
  BY DEF Core, TypeOK, OneStarter, BeforeStart, AfterStart, StartedOnce,
         SendKind, Event
<1> QED
  BY <1>1, Inductive, PTL

\* A delivery on the way can always be recovered with a resend.
THEOREM OnTheWayComplete == Spec => []OnTheWayIsComplete
<1>1. TypeOK /\ Core => OnTheWayIsComplete
  BY DEF Core, BeforeStart, AfterStart, OnTheWayIsComplete
<1> QED
  BY <1>1, Inductive, PTL

\* The resend cap holds for any number of concurrent resends.
THEOREM ResendsCapped == Spec => []ResendCapHolds
<1>1. TypeOK /\ Core => ResendCapHolds
  BY DEF Core, ResendsCounted, ResendCapHolds
<1> QED
  BY <1>1, Inductive, PTL

\* The row lock of a start and the shop lock of a resend cannot deadlock,
\* although the two handlers take them in opposite orders.
THEOREM LocksNeverCycle == Spec => []NoLockCycle
<1>1. TypeOK /\ Core => NoLockCycle
  BY DEF Core, BeforeStart, AfterStart, NoLockCycle, At, Locking, Resending
<1> QED
  BY <1>1, Inductive, PTL
-----------------------------------------------------------------------------
(* The rating task and the purge                                           *)

\* A worker is on its way to enqueue a rating task.
Scheduling == {"start_send", "start_record", "start_schedule", "edit_schedule"}

\* Unless a task was lost, the time of the row has its task, or the worker that
\* has saved the time still holds it.
TaskIsUnderWay ==
  ~missed /\ row.eta # None =>
    \/ row.eta \in scheduled
    \/ \E w \in Worker : pc[w] \in Scheduling /\ arg[w].eta = row.eta

\* Steps that leave the time, the tasks and every Scheduling worker alone.
LEMMA TaskStays ==
  ASSUME TaskIsUnderWay, row'.eta = row.eta, scheduled' = scheduled, missed' = missed,
         \A v \in Worker : pc[v] \in Scheduling =>
           pc'[v] \in Scheduling /\ arg'[v].eta = arg[v].eta
  PROVE  TaskIsUnderWay'
BY DEF TaskIsUnderWay

LEMMA TaskInit == Init => TaskIsUnderWay
BY DEF Init, NoRow, TaskIsUnderWay

LEMMA TaskStep == TypeOK /\ Core /\ TaskIsUnderWay /\ [Next]_vars => TaskIsUnderWay'
<1> SUFFICES ASSUME TypeOK, Core, TaskIsUnderWay, [Next]_vars PROVE TaskIsUnderWay'
  OBVIOUS
<1>0. /\ pc \in [Worker -> Steps] /\ arg \in [Worker -> Arg] /\ row \in Row
      /\ missed \in BOOLEAN
  BY DEF TypeOK
<1> USE <1>0 DEF Scheduling, db, locks, outside, local, At, Save, Goto, Keep, Move,
                 Proceed, Finish
<1>1. ASSUME NEW w \in Worker, Receive(w) PROVE TaskIsUnderWay'
  BY <1>1, TaskStays DEF Receive
<1>2. ASSUME NEW w \in Worker, PurgeScan(w) PROVE TaskIsUnderWay'
  BY <1>2, TaskStays DEF PurgeScan
<1>3. ASSUME NEW w \in Worker, StartCheck(w) PROVE TaskIsUnderWay'
  BY <1>3, TaskStays DEF StartCheck
<1>4. ASSUME NEW w \in Worker, StartLock(w) PROVE TaskIsUnderWay'
  BY <1>4, TaskStays DEF StartLock
<1>5. ASSUME NEW w \in Worker, StartReserve(w) PROVE TaskIsUnderWay'
  BY <1>5, TaskStays DEF StartReserve
<1>6. ASSUME NEW w \in Worker, StartCommit(w) PROVE TaskIsUnderWay'
  <2>1. row'.eta = arg[w].eta
    BY <1>6 DEF StartCommit, Row
  <2>2. pc'[w] = "start_send" /\ arg' = arg
    BY <1>6 DEF StartCommit
  <2> QED
    BY <2>1, <2>2 DEF TaskIsUnderWay
<1>7. ASSUME NEW w \in Worker, StartSend(w) PROVE TaskIsUnderWay'
  BY <1>7, TaskStays DEF StartSend
<1>8. ASSUME NEW w \in Worker, StartRecord(w) PROVE TaskIsUnderWay'
  BY <1>8, TaskStays DEF StartRecord
<1>9. ASSUME NEW w \in Worker, StartSchedule(w) PROVE TaskIsUnderWay'
  <2>1. \A v \in Worker : v = w \/ (pc'[v] = pc[v] /\ arg' = arg)
    BY <1>9 DEF StartSchedule
  <2> QED
    BY <1>9, <2>1 DEF StartSchedule, Schedule, TaskIsUnderWay
<1>10. ASSUME NEW w \in Worker, StartEvent(w) PROVE TaskIsUnderWay'
  BY <1>10, TaskStays DEF StartEvent
<1>11. ASSUME NEW w \in Worker, Ready(w) PROVE TaskIsUnderWay'
  BY <1>11, TaskStays DEF Ready, Row
<1>12. ASSUME NEW w \in Worker, Delivered(w) PROVE TaskIsUnderWay'
  <2>1. row'.eta = row.eta
    BY <1>12, DeliveredRow
  <2> QED
    BY <1>12, <2>1, TaskStays DEF Delivered
<1>13. ASSUME NEW w \in Worker, DeliveredEvent(w) PROVE TaskIsUnderWay'
  BY <1>13, TaskStays DEF DeliveredEvent
<1>14. ASSUME NEW w \in Worker, Delete(w) PROVE TaskIsUnderWay'
  BY <1>14, TaskStays DEF Delete, Row
<1>15. ASSUME NEW w \in Worker, Restore(w) PROVE TaskIsUnderWay'
  BY <1>15, TaskStays DEF Restore, Row
<1>16. ASSUME NEW w \in Worker, Edit(w) PROVE TaskIsUnderWay'
  <2>1. PICK p \in Phone, e \in Eta \cup {None} : Edit(w)!2!(p, e)
    BY <1>16 DEF Edit
  <2>2. CASE Reschedules(w, e) /\ ~UNCHANGED row
    <3>1. row'.eta = e
      BY <2>1, <2>2 DEF Row
    <3>2. Proceed(w, "edit_schedule", [NoArg EXCEPT !.eta = e])
      BY <2>1, <2>2
    <3>3. pc'[w] = "edit_schedule" /\ arg'[w].eta = e
      BY <3>2 DEF NoArg
    <3> QED
      BY <3>1, <3>3 DEF TaskIsUnderWay
  <2>3. CASE Reschedules(w, e) /\ UNCHANGED row
    <3>1. \A v \in Worker \ {w} : pc'[v] = pc[v] /\ arg'[v] = arg[v]
      BY <2>1
    <3>2. pc[w] = "edit" /\ row'.eta = row.eta /\ UNCHANGED <<scheduled, missed>>
      BY <1>16, <2>3 DEF Edit
    <3> QED
      BY <3>1, <3>2, TaskStays
  <2>4. CASE ~Reschedules(w, e)
    <3>1. row'.eta = row.eta
      BY <2>1, <2>4 DEF Row
    <3>2. Finish(w)
      BY <2>1, <2>4
    <3> QED
      BY <1>16, <3>1, <3>2, TaskStays DEF Edit
  <2> QED
    BY <2>2, <2>3, <2>4
<1>17. ASSUME NEW w \in Worker, EditSchedule(w) PROVE TaskIsUnderWay'
  <2>1. \A v \in Worker \ {w} : pc'[v] = pc[v] /\ arg'[v] = arg[v]
    BY <1>17 DEF EditSchedule
  <2> QED
    BY <1>17, <2>1 DEF EditSchedule, Schedule, TaskIsUnderWay
<1>18. ASSUME NEW w \in Worker, ResendCheck(w) PROVE TaskIsUnderWay'
  BY <1>18, TaskStays DEF ResendCheck
<1>19. ASSUME NEW w \in Worker, ResendLock(w) PROVE TaskIsUnderWay'
  BY <1>19, TaskStays DEF ResendLock
<1>20. ASSUME NEW w \in Worker, ResendInsert(w) PROVE TaskIsUnderWay'
  BY <1>20, TaskStays DEF ResendInsert
<1>21. ASSUME NEW w \in Worker, ResendPhone(w) PROVE TaskIsUnderWay'
  BY <1>21, TaskStays DEF ResendPhone, Row
<1>22. ASSUME NEW w \in Worker, ResendQueue(w) PROVE TaskIsUnderWay'
  BY <1>22, TaskStays DEF ResendQueue
<1>23. ASSUME NEW w \in Worker, ResendSend(w) PROVE TaskIsUnderWay'
  BY <1>23, TaskStays DEF ResendSend
<1>24. ASSUME NEW w \in Worker, ResendRecord(w) PROVE TaskIsUnderWay'
  BY <1>24, TaskStays DEF ResendRecord
<1>25. ASSUME NEW w \in Worker, PurgeBatch(w) PROVE TaskIsUnderWay'
  <2>1. row'.eta = row.eta
    BY <1>25, PurgedRow
  <2> QED
    BY <1>25, <2>1, TaskStays DEF PurgeBatch
<1>26. ASSUME NEW w \in Worker, Crash(w) PROVE TaskIsUnderWay'
  <2>1. \A v \in Worker \ {w} : pc'[v] = pc[v] /\ arg'[v] = arg[v]
    BY <1>26 DEF Crash
  <2> QED
    BY <1>26, <2>1 DEF Crash, TaskIsUnderWay
<1>27. CASE TimePasses
  BY <1>27, TaskStays DEF TimePasses, Row
<1>28. CASE UNCHANGED vars
  BY <1>28, TaskStays DEF vars
<1> QED
  BY <1>1, <1>2, <1>3, <1>4, <1>5, <1>6, <1>7, <1>8, <1>9, <1>10, <1>11,
     <1>12, <1>13, <1>14, <1>15, <1>16, <1>17, <1>18, <1>19, <1>20, <1>21,
     <1>22, <1>23, <1>24, <1>25, <1>26, <1>27, <1>28
     DEF Next, Work

\* However edits and starts race: once nothing is under way and no task was
\* lost, the time of the row has its rating task.
THEOREM RatingFollows == Spec => []RatingFollowsEta
<1>1. TaskIsUnderWay => RatingFollowsEta
  BY DEF TaskIsUnderWay, RatingFollowsEta, At, Scheduling
<1>2. Init => TaskIsUnderWay
  BY TaskInit
<1>3. TypeOK /\ Core /\ TaskIsUnderWay /\ [Next]_vars => TaskIsUnderWay'
  BY TaskStep
<1> QED
  BY <1>1, <1>2, <1>3, Inductive, PTL DEF Spec

\* Whatever a restore or a reopened delivery does between the purge's read and
\* its batch: only a delivery that is over is erased.
THEOREM OnlyOverIsErased == Spec => NeverEraseActive
<1> DEFINE A == ~row.purged /\ row'.purged => row.deleted # "never" \/ row.status = "delivered"
<1>1. TypeOK /\ [Next]_vars => [A]_vars
  <2> SUFFICES ASSUME TypeOK, Next, ~row.purged, row'.purged
               PROVE  row.deleted # "never" \/ row.status = "delivered"
    BY DEF vars
  <2>0. row \in Row /\ row' # row
    BY DEF TypeOK
  <2> USE <2>0 DEF db, locks, outside, local, Save
  <2>1. ASSUME NEW w \in Worker, PurgeBatch(w)
        PROVE  row.deleted # "never" \/ row.status = "delivered"
    BY <2>1 DEF PurgeBatch, Due
  <2>2. ASSUME NEW w \in Worker, Edit(w) PROVE FALSE
    <3>1. PICK p \in Phone, e \in Eta \cup {None} : Edit(w)!2!(p, e)
      BY <2>2 DEF Edit
    <3> QED
      BY <3>1 DEF Row
  <2>3. ASSUME NEW w \in Worker, Delivered(w) PROVE FALSE
    BY <2>3, DeliveredRow
  <2>4. ASSUME NEW w \in Worker, StartCommit(w) PROVE FALSE
    BY <2>4 DEF StartCommit, Row
  <2>5. ASSUME NEW w \in Worker, Ready(w) \/ Delete(w) \/ Restore(w) \/ ResendPhone(w) PROVE FALSE
    BY <2>5 DEF Ready, Delete, Restore, ResendPhone, Row
  <2>6. CASE TimePasses
    BY <2>6 DEF TimePasses, Row
  <2>7. ASSUME NEW w \in Worker,
               Receive(w) \/ PurgeScan(w) \/ StartCheck(w) \/ StartLock(w) \/ StartReserve(w)
               \/ StartSend(w) \/ StartRecord(w) \/ StartSchedule(w) \/ StartEvent(w)
               \/ DeliveredEvent(w) \/ EditSchedule(w) \/ ResendCheck(w) \/ ResendLock(w)
               \/ ResendInsert(w) \/ ResendQueue(w) \/ ResendSend(w) \/ ResendRecord(w) \/ Crash(w)
        PROVE  FALSE
    BY <2>7 DEF Receive, PurgeScan, StartCheck, StartLock, StartReserve, StartSend,
       StartRecord, StartSchedule, StartEvent, DeliveredEvent, EditSchedule, ResendCheck,
       ResendLock, ResendInsert, ResendQueue, ResendSend, ResendRecord, Crash
  <2> QED
    BY <2>1, <2>2, <2>3, <2>4, <2>5, <2>6, <2>7 DEF Next, Work
<1>2. Spec => [][A]_vars
  BY <1>1, TypeCorrect, PTL DEF Spec
<1> QED
  BY <1>2 DEF NeverEraseActive

-----------------------------------------------------------------------------
(* DeliveryLifecycle implements CustomerNotice, for any finite set of      *)
(* workers, with workers killed anywhere: the customer is sent one first   *)
(* message, after it was announced, and no more repeats of it than were    *)
(* paid for.                                                               *)

\* Workers that have paid for a repeated message and not sent it yet.
Paying == {w \in Worker : pc[w] \in {"resend_phone", "resend_queue", "resend_send"}}

\* Each repeat sent, and each one about to be, has a journal row of its own.
RepeatsPaid == sends["resend"] + Cardinality(Paying) <= journal["resend"]

\* The inductive invariant of this part.
NInv == TypeOK /\ Core /\ RepeatsPaid

\* Paying is a finite set.
LEMMA PayingFinite == IsFiniteSet(Paying) /\ Cardinality(Paying) \in Nat
<1>1. IsFiniteSet(Paying)
  BY ConstantsAssumption, FS_Subset DEF Paying
<1> QED
  BY <1>1, FS_CardinalityType

\* Steps that pay for nothing, send nothing again, and bring no worker in.
LEMMA RepeatsStay ==
  ASSUME TypeOK, RepeatsPaid, sends'["resend"] = sends["resend"],
         journal'["resend"] = journal["resend"], Paying' \subseteq Paying
  PROVE  RepeatsPaid'
<1>1. /\ Cardinality(Paying') \in Nat
      /\ Cardinality(Paying') <= Cardinality(Paying)
  BY PayingFinite, FS_Subset, FS_CardinalityType
<1>2. Cardinality(Paying) \in Nat
  BY PayingFinite
<1>3. sends["resend"] \in Nat /\ journal["resend"] \in Nat
  BY DEF TypeOK, SendKind
<1> QED
  BY <1>1, <1>2, <1>3 DEF RepeatsPaid

\* Before any request nothing is paid for, and nobody pays.
LEMMA RepeatsInit == Init => RepeatsPaid
<1> SUFFICES ASSUME Init PROVE RepeatsPaid
  OBVIOUS
<1>1. Paying = {}
  BY DEF Init, Paying
<1> QED
  BY <1>1, FS_EmptySet DEF Init, RepeatsPaid, SendKind

\* Every step preserves RepeatsPaid.
LEMMA RepeatsStep == TypeOK /\ RepeatsPaid /\ [Next]_vars => RepeatsPaid'
<1> SUFFICES ASSUME TypeOK, RepeatsPaid, [Next]_vars PROVE RepeatsPaid'
  OBVIOUS
<1>0. /\ pc \in [Worker -> Steps]
      /\ sends \in [SendKind -> Nat] /\ journal \in [SendKind -> Nat]
  BY DEF TypeOK
<1> USE <1>0 DEF db, locks, outside, local, At, Goto, Move, Proceed, Finish
<1>1. ASSUME NEW w \in Worker,
             \/ PurgeScan(w) \/ StartCheck(w) \/ StartLock(w) \/ StartReserve(w)
             \/ StartRecord(w) \/ StartSchedule(w) \/ StartEvent(w) \/ Ready(w)
             \/ Delivered(w) \/ DeliveredEvent(w) \/ Delete(w) \/ Restore(w)
             \/ EditSchedule(w) \/ ResendCheck(w) \/ ResendLock(w) \/ ResendPhone(w)
             \/ ResendQueue(w) \/ ResendRecord(w) \/ PurgeBatch(w) \/ Crash(w)
      PROVE  RepeatsPaid'
  <2>1. UNCHANGED <<sends, journal>>
    BY <1>1 DEF PurgeScan, StartCheck, StartLock, StartReserve, StartRecord, StartSchedule,
       StartEvent, Ready, Delivered, DeliveredEvent, Delete, Restore, EditSchedule,
       ResendCheck, ResendLock, ResendPhone, ResendQueue, ResendRecord, PurgeBatch, Crash
  <2>2. Paying' \subseteq Paying
    BY <1>1 DEF Paying, PurgeScan, StartCheck, StartLock, StartReserve, StartRecord,
       StartSchedule, StartEvent, Ready, Delivered, DeliveredEvent, Delete, Restore,
       EditSchedule, ResendCheck, ResendLock, ResendPhone, ResendQueue, ResendRecord,
       PurgeBatch, Crash
  <2> QED
    BY <2>1, <2>2, RepeatsStay
<1>2. ASSUME NEW w \in Worker, Receive(w) PROVE RepeatsPaid'
  <2>1. Paying' \subseteq Paying
    BY <1>2, ConstantsAssumption DEF Receive, Paying, AllOps
  <2> QED
    BY <1>2, <2>1, RepeatsStay DEF Receive
<1>3. ASSUME NEW w \in Worker, StartCommit(w) PROVE RepeatsPaid'
  <2>1. Paying' \subseteq Paying /\ journal'["resend"] = journal["resend"] /\ sends' = sends
    BY <1>3 DEF StartCommit, Paying, Count, SendKind
  <2> QED
    BY <2>1, RepeatsStay
<1>4. ASSUME NEW w \in Worker, StartSend(w) PROVE RepeatsPaid'
  <2>1. Paying' \subseteq Paying /\ sends'["resend"] = sends["resend"] /\ journal' = journal
    BY <1>4 DEF StartSend, Paying, Count, SendKind
  <2> QED
    BY <2>1, RepeatsStay
<1>5. ASSUME NEW w \in Worker, Edit(w) PROVE RepeatsPaid'
  <2>1. Paying' \subseteq Paying /\ UNCHANGED <<sends, journal>>
    BY <1>5 DEF Edit, Paying
  <2> QED
    BY <2>1, RepeatsStay
<1>6. ASSUME NEW w \in Worker, ResendInsert(w) PROVE RepeatsPaid'
  <2>1. Paying' = Paying \cup {w} /\ w \notin Paying
    BY <1>6 DEF ResendInsert, Paying, Steps
  <2>2. Cardinality(Paying') = Cardinality(Paying) + 1
    BY <2>1, PayingFinite, FS_AddElement
  <2>3. journal'["resend"] = journal["resend"] + 1 /\ sends' = sends
    BY <1>6 DEF ResendInsert, Count, SendKind
  <2> QED
    BY <2>2, <2>3, PayingFinite DEF RepeatsPaid, SendKind
<1>7. ASSUME NEW w \in Worker, ResendSend(w) PROVE RepeatsPaid'
  <2>1. Paying' = Paying \ {w} /\ w \in Paying
    BY <1>7 DEF ResendSend, Paying, Steps
  <2>2. Cardinality(Paying') = Cardinality(Paying) - 1
    BY <2>1, PayingFinite, FS_RemoveElement
  <2>3. sends'["resend"] = sends["resend"] + 1 /\ journal' = journal
    BY <1>7 DEF ResendSend, Count, SendKind
  <2> QED
    BY <2>2, <2>3, PayingFinite DEF RepeatsPaid, SendKind
<1>8. CASE TimePasses \/ UNCHANGED vars
  <2>1. UNCHANGED <<pc, sends, journal>>
    BY <1>8 DEF TimePasses, vars
  <2> QED
    BY <2>1 DEF RepeatsPaid, Paying
<1> QED
  BY <1>1, <1>2, <1>3, <1>4, <1>5, <1>6, <1>7, <1>8 DEF Next, Work

\* NInv holds in every state.
LEMMA NoticeInv == Spec => []NInv
  BY RepeatsInit, RepeatsStep, Inductive, PTL DEF Spec, NInv

-----------------------------------------------------------------------------
\* reserve_send runs before every provider call: whichever request sends, and
\* wherever a worker is killed, no message is sent that no journal row stands for.
THEOREM EverySendIsPaid == Spec => []PaidBeforeSent
<1>1. NInv => PaidBeforeSent
  <2> SUFFICES ASSUME NInv, NEW k \in SendKind PROVE sends[k] <= journal[k]
    BY DEF PaidBeforeSent
  <2>1. /\ sends[k] \in Nat /\ journal[k] \in Nat
    BY DEF NInv, TypeOK
  <2>2. CASE k = "resend"
    BY <2>1, <2>2, PayingFinite DEF NInv, RepeatsPaid
  <2>3. CASE k = "on_the_way"
    BY <2>1, <2>3 DEF NInv, Core, BeforeStart, AfterStart, OneStarter
  <2> QED
    BY <2>2, <2>3 DEF SendKind
<1> QED
  BY <1>1, NoticeInv, PTL

\* A step of the implementation that sends nothing and announces nothing new.
LEMMA NoticeStutters ==
  ASSUME sends' = sends, notification' # "none" <=> notification # "none"
  PROVE  UNCHANGED Notice!vars
  BY DEF Notice!vars

\* Every step of the implementation announces, sends, repeats, or shows nothing.
LEMMA NoticeStep == NInv /\ [Next]_vars => [Notice!Next]_(Notice!vars)
<1> SUFFICES ASSUME NInv, [Next]_vars PROVE [Notice!Next]_(Notice!vars)
  OBVIOUS
<1>0. /\ sends \in [SendKind -> Nat] /\ journal \in [SendKind -> Nat]
      /\ pc \in [Worker -> Steps]
  BY DEF NInv, TypeOK
<1> USE <1>0 DEF NInv, db, locks, outside, local, At, Goto, Move, Proceed, Finish
<1>1. ASSUME NEW w \in Worker,
             \/ Receive(w) \/ PurgeScan(w) \/ StartCheck(w) \/ StartLock(w) \/ StartReserve(w)
             \/ StartSchedule(w) \/ StartEvent(w) \/ Ready(w)
             \/ Delivered(w) \/ DeliveredEvent(w) \/ Delete(w) \/ Restore(w) \/ Edit(w)
             \/ EditSchedule(w) \/ ResendCheck(w) \/ ResendLock(w) \/ ResendInsert(w)
             \/ ResendPhone(w) \/ PurgeBatch(w) \/ Crash(w)
      PROVE  UNCHANGED Notice!vars
  <2>1. UNCHANGED <<sends, notification>>
    BY <1>1 DEF Receive, PurgeScan, StartCheck, StartLock, StartReserve, StartSchedule,
       StartEvent, Ready, Delivered, DeliveredEvent, Delete, Restore, Edit, EditSchedule,
       ResendCheck, ResendLock, ResendInsert, ResendPhone, PurgeBatch, Crash
  <2> QED
    BY <2>1, NoticeStutters
<1>2. ASSUME NEW w \in Worker, StartCommit(w) PROVE Notice!Announce
  <2>1. notification = "none"
    BY <1>2 DEF StartCommit, Core, AfterStart, Locking
  <2>2. notification' # "none" /\ sends' = sends
    BY <1>2 DEF StartCommit
  <2> QED
    BY <2>1, <2>2 DEF Notice!Announce
<1>3. ASSUME NEW w \in Worker, StartSend(w) PROVE Notice!SendFirst
  <2>1. notification # "none" /\ sends["on_the_way"] = 0
    BY <1>3 DEF StartSend, Core, BeforeStart, OneStarter, Starting
  <2>2. /\ sends'["on_the_way"] = sends["on_the_way"] + 1
        /\ sends'["resend"] = sends["resend"] /\ notification' = notification
    BY <1>3 DEF StartSend, Count, SendKind
  <2> QED
    BY <2>1, <2>2 DEF Notice!SendFirst
<1>4. ASSUME NEW w \in Worker, ResendSend(w) PROVE Notice!SendAgain
  <2>1. notification # "none"
    BY <1>4 DEF ResendSend, Core, BeforeStart, Resending
  <2>2. sends["resend"] < ResendCap
    <3>1. w \in Paying
      BY <1>4 DEF ResendSend, Paying
    <3>2. Cardinality(Paying \ {w}) \in Nat /\ Cardinality(Paying \ {w}) = Cardinality(Paying) - 1
      BY <3>1, PayingFinite, FS_RemoveElement, FS_CardinalityType
    <3>3. journal["resend"] <= ResendCap
      BY DEF Core, ResendsCounted
    <3> QED
      BY <3>2, <3>3, PayingFinite, ConstantsAssumption DEF RepeatsPaid, SendKind
  <2>3. /\ sends'["resend"] = sends["resend"] + 1
        /\ sends'["on_the_way"] = sends["on_the_way"] /\ notification' = notification
    BY <1>4 DEF ResendSend, Count, SendKind
  <2> QED
    BY <2>1, <2>2, <2>3 DEF Notice!SendAgain
<1>5. ASSUME NEW w \in Worker, StartRecord(w) \/ ResendQueue(w) \/ ResendRecord(w)
      PROVE  UNCHANGED Notice!vars
  <2>1. notification # "none"
    BY <1>5 DEF StartRecord, ResendQueue, ResendRecord, Core, BeforeStart, Starting, Resending
  <2>2. notification' # "none" /\ sends' = sends
    BY <1>5 DEF StartRecord, ResendQueue, ResendRecord
  <2> QED
    BY <2>1, <2>2, NoticeStutters
<1>6. CASE TimePasses \/ UNCHANGED vars
  BY <1>6, NoticeStutters DEF TimePasses, vars
<1> QED
  BY <1>1, <1>2, <1>3, <1>4, <1>5, <1>6 DEF Next, Work, Notice!Next

\* The initial states have announced and sent nothing.
LEMMA NoticeInit == Init => Notice!Init
  BY DEF Init, Notice!Init, SendKind

\* start_delivery and resend_on_the_way keep the promise of CustomerNotice:
\* announced once, sent once, repeated at most ResendCap times.
THEOREM KeepsNotice == Spec => NoticeSpec
<1>1. NInv /\ [Next]_vars => [Notice!Next]_(Notice!vars)
  BY NoticeStep
<1>2. Init => Notice!Init
  BY NoticeInit
<1> QED
  BY <1>1, <1>2, NoticeInv, PTL DEF Spec, NoticeSpec, Notice!Spec-----------------------------------------------------------------------------
(* What the queued status promises while no worker is killed               *)

\* A request that has queued the message and not yet written its outcome.
Sending == {"start_send", "start_record", "resend_send", "resend_record"}

\* A step that leaves the notification as it was and takes no worker out of Sending.
LEMMA StillInHand ==
  ASSUME QueuedIsInHand, notification' = notification,
         \A w \in Worker : pc[w] \in Sending => pc'[w] \in Sending
  PROVE  QueuedIsInHand'
BY DEF QueuedIsInHand, Sending

\* Every step keeps a queued message in the hands of a request: only a crash
\* would take one away.
LEMMA InHandStep == TypeOK /\ QueuedIsInHand /\ [Next]_vars => QueuedIsInHand'
<1> SUFFICES ASSUME TypeOK, QueuedIsInHand, [Next]_vars PROVE QueuedIsInHand'
  OBVIOUS
<1>0. pc \in [Worker -> Steps]
  BY DEF TypeOK
<1> USE <1>0 DEF db, locks, outside, local, At, Goto, Move, Proceed, Finish
<1>1. ASSUME NEW w \in Worker, Receive(w) \/ PurgeScan(w) PROVE QueuedIsInHand'
  <2>1. /\ pc[w] = "idle" /\ notification' = notification
        /\ \A v \in Worker \ {w} : pc'[v] = pc[v]
    BY <1>1 DEF Receive, PurgeScan
  <2> QED
    BY <2>1, StillInHand DEF Sending
<1>2. ASSUME NEW w \in Worker,
             \/ StartCheck(w) \/ StartLock(w) \/ StartReserve(w)
             \/ StartSchedule(w) \/ StartEvent(w) \/ Ready(w) \/ Delivered(w)
             \/ DeliveredEvent(w) \/ Delete(w) \/ Restore(w) \/ Edit(w)
             \/ EditSchedule(w) \/ ResendCheck(w) \/ ResendLock(w)
             \/ ResendInsert(w) \/ ResendPhone(w) \/ PurgeBatch(w)
      PROVE  QueuedIsInHand'
  <2>1. pc[w] \notin Sending /\ notification' = notification
    BY <1>2 DEF StartCheck, StartLock, StartReserve, StartSchedule, StartEvent, Ready,
       Delivered, DeliveredEvent, Delete, Restore, Edit, EditSchedule, ResendCheck,
       ResendLock, ResendInsert, ResendPhone, PurgeBatch, Sending
  <2>2. \A v \in Worker \ {w} : pc'[v] = pc[v]
    BY <1>2 DEF StartCheck, StartLock, StartReserve, StartSchedule, StartEvent, Ready,
       Delivered, DeliveredEvent, Delete, Restore, Edit, EditSchedule, ResendCheck,
       ResendLock, ResendInsert, ResendPhone, PurgeBatch
  <2> QED
    BY <2>1, <2>2, StillInHand
<1>3. ASSUME NEW w \in Worker, StartSend(w) \/ ResendSend(w) PROVE QueuedIsInHand'
  <2>1. /\ pc'[w] \in Sending /\ notification' = notification
        /\ \A v \in Worker \ {w} : pc'[v] = pc[v]
    BY <1>3 DEF StartSend, ResendSend, Sending
  <2> QED
    BY <2>1, StillInHand
<1>4. ASSUME NEW w \in Worker, StartCommit(w) \/ ResendQueue(w) PROVE QueuedIsInHand'
  <2>1. pc'[w] \in {"start_send", "resend_send"}
    BY <1>4 DEF StartCommit, ResendQueue
  <2> QED
    BY <2>1 DEF QueuedIsInHand
<1>5. ASSUME NEW w \in Worker, StartRecord(w) \/ ResendRecord(w) PROVE QueuedIsInHand'
  <2>1. notification' # "queued"
    BY <1>5 DEF StartRecord, ResendRecord
  <2> QED
    BY <2>1 DEF QueuedIsInHand
<1>6. ASSUME NEW w \in Worker, Crash(w) PROVE QueuedIsInHand'
  BY <1>6 DEF Crash, QueuedIsInHand
<1>7. CASE TimePasses \/ UNCHANGED vars
  BY <1>7, StillInHand DEF TimePasses, vars
<1> QED
  BY <1>1, <1>2, <1>3, <1>4, <1>5, <1>6, <1>7 DEF Next, Work

\* start_delivery and resend_on_the_way leave no message behind as "queued":
\* a request is still at it.  With fairness this is MessageGetsOutcome.
THEOREM QueuedInHand == Spec => []QueuedIsInHand
<1>1. Init => QueuedIsInHand
  BY DEF Init, QueuedIsInHand
<1> QED
  BY <1>1, InHandStep, TypeCorrect, PTL DEF Spec

-----------------------------------------------------------------------------
(* Two claims of the repository that fail when requests overlap, and hold  *)
(* when they come one at a time.                                           *)

OneAtATime == \A v, w \in Worker : v = w

\* The only request under way works on a row that is not erased, and what
\* mark_ready read is still what is stored.
Undisturbed ==
  /\ ErasedStaysErased
  /\ \A w \in Worker : /\ pc[w] \notin {"idle", "purge"} => ~row.purged
                       /\ pc[w] = "ready" => seen[w].status = row.status

\* Served one at a time, no request finds its row changed under it.
LEMMA UndisturbedStep ==
  ASSUME OneAtATime
  PROVE  TypeOK /\ Undisturbed /\ [Next]_vars => Undisturbed'
<1> SUFFICES ASSUME TypeOK, Undisturbed, [Next]_vars PROVE Undisturbed'
  OBVIOUS
<1>0. /\ pc \in [Worker -> Steps] /\ seen \in [Worker -> Row] /\ row \in Row
      /\ \A v, w \in Worker : v = w
  BY DEF TypeOK, OneAtATime
<1> USE <1>0 DEF db, locks, outside, local, At, Goto, Keep, Move, Proceed, Finish,
                 Save, Undisturbed, ErasedStaysErased
<1>1. ASSUME NEW w \in Worker, Receive(w) \/ PurgeScan(w) PROVE Undisturbed'
  BY <1>1 DEF Receive, PurgeScan
<1>2. ASSUME NEW w \in Worker,
             \/ StartCheck(w) \/ StartLock(w) \/ StartReserve(w)
             \/ StartSend(w) \/ StartRecord(w) \/ StartSchedule(w) \/ StartEvent(w)
             \/ DeliveredEvent(w) \/ EditSchedule(w) \/ ResendCheck(w)
             \/ ResendLock(w) \/ ResendInsert(w) \/ ResendQueue(w)
             \/ ResendSend(w) \/ ResendRecord(w)
      PROVE  Undisturbed'
  <2>1. pc[w] \notin {"idle", "purge"} /\ pc'[w] # "ready"
    BY <1>2 DEF StartCheck, StartLock, StartReserve, StartSend, StartRecord,
       StartSchedule, StartEvent, DeliveredEvent, EditSchedule, ResendCheck, ResendLock,
       ResendInsert, ResendQueue, ResendSend, ResendRecord
  <2>2. row' = row
    BY <1>2 DEF StartCheck, StartLock, StartReserve, StartSend, StartRecord,
       StartSchedule, StartEvent, DeliveredEvent, EditSchedule, ResendCheck, ResendLock,
       ResendInsert, ResendQueue, ResendSend, ResendRecord
  <2> QED
    BY <2>1, <2>2
<1>3. ASSUME NEW w \in Worker,
             \/ StartCommit(w) \/ Ready(w) \/ Delivered(w) \/ Delete(w)
             \/ Restore(w) \/ Edit(w) \/ ResendPhone(w)
      PROVE  Undisturbed'
  <2>1. pc[w] \notin {"idle", "purge"} /\ pc'[w] # "ready"
    BY <1>3 DEF StartCommit, Ready, Delivered, Delete, Restore, Edit, ResendPhone
  <2>2. ~row'.purged
    BY <1>3, <2>1 DEF StartCommit, Ready, Delivered, Delete, Restore, Edit, ResendPhone, Row
  <2> QED
    BY <2>1, <2>2
<1>4. ASSUME NEW w \in Worker, PurgeBatch(w) PROVE Undisturbed'
  <2>1. row' = row \/ row' = [row EXCEPT !.phone = None, !.purged = TRUE]
    BY <1>4 DEF PurgeBatch
  <2>2. row'.purged => row'.phone = None
    BY <2>1 DEF Row
  <2>3. pc'[w] = "idle"
    BY <1>4 DEF PurgeBatch
  <2> QED
    BY <2>2, <2>3
<1>5. CASE TimePasses
  <2>1. row'.purged = row.purged /\ row'.phone = row.phone
    BY <1>5 DEF TimePasses, Row
  <2> QED
    BY <1>5, <2>1 DEF TimePasses
<1>6. CASE UNCHANGED vars
  BY <1>6 DEF vars
<1>7. ASSUME NEW w \in Worker, Crash(w) PROVE Undisturbed'
  BY <1>7 DEF Crash
<1> QED
  BY <1>1, <1>2, <1>3, <1>4, <1>5, <1>6, <1>7 DEF Next, Work

\* Undisturbed holds in every state of a serial execution.
LEMMA SerialInv ==
  ASSUME OneAtATime
  PROVE  Spec => []Undisturbed
<1>1. Init => Undisturbed
  BY DEF Init, Undisturbed, ErasedStaysErased, NoRow
<1> QED
  BY <1>1, UndisturbedStep, TypeCorrect, PTL DEF Spec

\* get_owned_delivery's reading of an erased row, "history only", is right for
\* requests that do not overlap: only the race of erased_reappears breaks it.
THEOREM ErasedAlone ==
  ASSUME OneAtATime
  PROVE  Spec => []ErasedStaysErased
  BY SerialInv, PTL DEF Undisturbed

\* mark_ready's docstring is right for requests that do not overlap: nothing
\* but a delivery in "new" becomes "created".
THEOREM ReadyAlone ==
  ASSUME OneAtATime
  PROVE  Spec => ReadyOnlyFromNew
<1> DEFINE A == row'.status = "created" /\ row.status # "created" => row.status = "new"
<1>1. TypeOK /\ Undisturbed /\ [Next]_vars => [A]_vars
  <2> SUFFICES ASSUME TypeOK, Undisturbed, Next, row'.status = "created",
                      row.status # "created"
               PROVE  row.status = "new"
    OBVIOUS
  <2>0. row \in Row
    BY DEF TypeOK
  <2> USE <2>0 DEF db, locks, outside, local, Save
  <2>1. PICK w \in Worker : Ready(w)
    <3>1. row' # row /\ row'.status # row.status
      OBVIOUS
    <3>2. ASSUME NEW w \in Worker, Delivered(w) PROVE FALSE
      BY <3>1, <3>2, DeliveredRow
    <3>3. ASSUME NEW w \in Worker, PurgeBatch(w) PROVE FALSE
      BY <3>1, <3>3, PurgedRow
    <3>4. ASSUME NEW w \in Worker, Edit(w) PROVE FALSE
      BY <3>1, <3>4 DEF Edit, Row
    <3>5. ASSUME NEW w \in Worker,
                 StartCommit(w) \/ Delete(w) \/ Restore(w) \/ ResendPhone(w)
          PROVE  FALSE
      BY <3>1, <3>5 DEF StartCommit, Delete, Restore, ResendPhone, Row
    <3>6. ~TimePasses
      BY <3>1 DEF TimePasses, Row
    <3> QED
      BY <3>1, <3>2, <3>3, <3>4, <3>5, <3>6 DEF Next, Work, Receive, PurgeScan,
         StartCheck, StartLock, StartReserve, StartSend, StartRecord, StartSchedule,
         StartEvent, DeliveredEvent, EditSchedule, ResendCheck, ResendLock,
         ResendInsert, ResendQueue, ResendSend, ResendRecord, Crash
  <2>2. seen[w].status = "new" /\ seen[w].status = row.status
    BY <2>1 DEF Ready, At, Undisturbed
  <2> QED
    BY <2>2
<1>2. Spec => [][A]_vars
  BY <1>1, SerialInv, TypeCorrect, PTL DEF Spec
<1> QED
  BY <1>2 DEF ReadyOnlyFromNew
============================================================================
