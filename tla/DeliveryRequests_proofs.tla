----------------------- MODULE DeliveryRequests_proofs -----------------------
(***************************************************************************)
(* DeliveryRequests for any horizon, route time and life of a link: the    *)
(* history of a delivery is final, a confirmed start is answered with its  *)
(* one outcome, and an open board notices every card that moves.           *)
(***************************************************************************)
EXTENDS DeliveryRequests, FiniteSetTheorems, TLAPS

-----------------------------------------------------------------------------
(* What the services do to the row                                         *)

\* Moved and Located change what their names say.
LEMMA MovedType ==
  ASSUME delivery \in DeliveryRow, NEW s \in Status
  PROVE  /\ Moved(s) \in DeliveryRow /\ Moved(s).status = s
         /\ Moved(s).erased = delivery.erased /\ Moved(s).eta = delivery.eta
  BY DEF Moved, DeliveryRow

LEMMA LocatedType ==
  ASSUME delivery \in DeliveryRow, NEW c \in BOOLEAN
  PROVE  /\ Located(c) \in DeliveryRow /\ Located(c).status = delivery.status
         /\ Located(c).erased = delivery.erased /\ Located(c).eta = delivery.eta
  BY DEF Located, DeliveryRow

\* start_delivery: a delivery that was started stays as it is; one that is
\* started by this request is on its way and has a link.
LEMMA StartMakes ==
  ASSUME DTypeOK, NEW eta \in Time \cup {Nothing}, NEW res \in StartResults, Start(eta, res)
  PROVE  /\ delivery' \in DeliveryRow /\ notif' \in {"none", "sent", "failed"}
         /\ link' \in 0 .. Horizon + LinkLife \cup {Nothing}
         /\ Started \/ res \notin {"sent", "failed"} => UNCHANGED <<delivery, notif, link>>
         /\ res \in {"sent", "failed"} =>
              notif' = res /\ delivery'.status = "on_the_way" /\ link' # Nothing
              /\ delivery'.eta # Nothing
         /\ delivery'.erased = delivery.erased
<1>1. CASE res \in {"already", "needs_eta", "limit"}
  BY <1>1 DEF DTypeOK, Start
<1>2. CASE res \in {"sent", "failed"}
  <2>1. /\ ~Started /\ eta # Nothing
        /\ delivery' = [Moved("on_the_way") EXCEPT !.eta = eta]
        /\ notif' = res /\ link' = IF link = Nothing THEN now + LinkLife ELSE link
    BY <1>2 DEF Start
  <2>2. Moved("on_the_way") \in DeliveryRow /\ Moved("on_the_way").status = "on_the_way"
        /\ Moved("on_the_way").erased = delivery.erased
    BY MovedType DEF DTypeOK, Status
  <2>3. delivery' \in DeliveryRow /\ delivery'.status = "on_the_way"
        /\ delivery'.eta = eta /\ delivery'.erased = delivery.erased
    BY <2>1, <2>2 DEF DeliveryRow
  <2>4. link' \in 0 .. Horizon + LinkLife /\ link' # Nothing
    BY <2>1, RequestConstants DEF DTypeOK
  <2> QED BY <1>2, <2>1, <2>3, <2>4
<1> QED BY <1>1, <1>2 DEF StartResults

\* compute_eta gives a time or none.
LEMMA ComputedEtaType ==
  ASSUME DTypeOK, NEW route \in BOOLEAN
  PROVE  ComputedEta(route) \in Time \cup {Nothing}
  BY RequestConstants DEF ComputedEta, DTypeOK, Time

\* mark_ready, mark_delivered, soft_delete and restore do not take a delivery
\* back from its end and do not touch what was erased.
LEMMA AfterType ==
  ASSUME delivery \in DeliveryRow, delivery.status # "absent", NEW op \in Operation
  PROVE  /\ After(op) \in DeliveryRow /\ After(op).status # "absent"
         /\ After(op).erased = delivery.erased
         /\ delivery.status = "delivered" => After(op).status = "delivered"
         /\ After(op).status \in {delivery.status, "created", "delivered"}
         /\ After(op).eta = delivery.eta
<1>1. /\ Moved("created") \in DeliveryRow /\ Moved("created").status = "created"
      /\ Moved("created").erased = delivery.erased /\ Moved("created").eta = delivery.eta
      /\ Moved("delivered") \in DeliveryRow /\ Moved("delivered").status = "delivered"
      /\ Moved("delivered").erased = delivery.erased /\ Moved("delivered").eta = delivery.eta
  BY MovedType DEF Status
<1>2. CASE op = "ready"
  BY <1>1, <1>2 DEF After, DeliveryRow
<1>3. CASE op = "delivered"
  BY <1>1, <1>3 DEF After, DeliveryRow
<1>4. CASE op \in {"delete", "restore"}
  <2>1. After(op) = [delivery EXCEPT !.deleted = (op = "delete")]
    BY <1>4 DEF After
  <2> QED BY <2>1 DEF DeliveryRow
<1> QED BY <1>2, <1>3, <1>4 DEF Operation

\* update_delivery leaves status and erasure as they are.
LEMMA EditType ==
  ASSUME DTypeOK, form # Nothing, NEW typed \in {form, {}} \cup {{t} : t \in Time},
         NEW coords \in BOOLEAN
  PROVE  /\ [Located(coords) EXCEPT !.eta = EditedEta(typed)] \in DeliveryRow
         /\ [Located(coords) EXCEPT !.eta = EditedEta(typed)].status = delivery.status
         /\ [Located(coords) EXCEPT !.eta = EditedEta(typed)].erased = delivery.erased
         /\ delivery.eta # Nothing =>
              [Located(coords) EXCEPT !.eta = EditedEta(typed)].eta # Nothing
<1>1. typed \subseteq Time
  BY DEF DTypeOK
<1>2. EditedEta(typed) \in Time \cup {delivery.eta}
  BY <1>1 DEF EditedEta
<1>3. Nothing \notin Time
  BY RequestConstants DEF Time
<1>4. delivery.eta \in Time \cup {Nothing}
  BY DEF DTypeOK, DeliveryRow
<1>5. /\ Located(coords) \in DeliveryRow /\ Located(coords).status = delivery.status
      /\ Located(coords).erased = delivery.erased
  BY LocatedType DEF DTypeOK
<1> QED BY <1>2, <1>3, <1>4, <1>5 DEF DeliveryRow

-----------------------------------------------------------------------------
(* The inductive invariant                                                 *)

\* A delivery that was not created has nothing to erase, one whose recipient is
\* erased has no link, and one on its way has a time.
Linked ==
  /\ delivery.status = "absent" => ~delivery.erased /\ link = Nothing
  /\ delivery.erased => link = Nothing
  /\ delivery.status = "on_the_way" => delivery.eta # Nothing

HInv == DTypeOK /\ Linked /\ OneTrueOutcome

\* DInit: no delivery, no link, no answer.
LEMMA InitHInv == DInit => HInv
  BY RequestConstants DEF DInit, HInv, DTypeOK, Linked, OneTrueOutcome, DeliveryRow, Status, Time

\* Every message of a confirmed start is one.
LEMMA OneMessage ==
  ASSUME NEW res \in {"already", "limit", "sent", "failed"}
  PROVE  /\ \E m : StartMessages(res) = {m}
         /\ "notified" \in StartMessages(res) => res = "sent"
  BY DEF StartMessages

\* A request that answers somebody else makes no claim about a start.
LEMMA AnswersOthers ==
  ASSUME NEW to \in {"create", "offer", "edit", "resend", "card", "api_start", "api_resend",
                     "api_card", "customer"},
         NEW msgs, Reply(to, msgs)
  PROVE  OneTrueOutcome'
  BY DEF Reply, OneTrueOutcome

\* Every step preserves HInv.
LEMMA NextHInv == HInv /\ [DNext]_dvars => HInv'
<1> SUFFICES ASSUME HInv, [DNext]_dvars PROVE HInv'
  OBVIOUS
<1> USE RequestConstants DEF HInv
<1>1. CASE CreateRow
  <2>1. PICK c, now_too, api \in BOOLEAN :
          delivery' = [Located(c) EXCEPT !.status = IF now_too /\ ~api THEN "created" ELSE "new"]
    BY <1>1 DEF CreateRow
  <2>2. Located(c) \in DeliveryRow /\ Located(c).erased = delivery.erased
    BY LocatedType DEF DTypeOK
  <2>3. delivery' \in DeliveryRow /\ delivery'.status \in {"created", "new"}
        /\ delivery'.erased = delivery.erased
    BY <2>1, <2>2 DEF DeliveryRow, Status
  <2>4. OneTrueOutcome'
    BY <1>1, AnswersOthers DEF CreateRow
  <2> QED BY <1>1, <2>3, <2>4 DEF CreateRow, DTypeOK, Linked
<1>2. CASE SetOrigin
  BY <1>2 DEF SetOrigin, DTypeOK, Linked, OneTrueOutcome
<1>3. CASE PageStart
  <2>1. PICK eta \in Time :
          \/ ~Valid(eta) /\ Reply("page", {"past"}) /\ UNCHANGED <<delivery, notif, link>>
          \/ \E res \in StartResults : Start(eta, res) /\ Reply("page", StartMessages(res))
    BY <1>3 DEF PageStart
  <2>2. Live /\ UNCHANGED <<origin, form, now>>
    BY <1>3 DEF PageStart
  <2>3. CASE Reply("page", {"past"}) /\ UNCHANGED <<delivery, notif, link>>
    <3>1. Cardinality({"past"}) = 1
      BY FS_Singleton
    <3> QED BY <2>2, <2>3, <3>1 DEF Reply, DTypeOK, Linked, OneTrueOutcome
  <2>4. ASSUME NEW res \in StartResults, Start(eta, res), Reply("page", StartMessages(res))
        PROVE  HInv'
    <3>1. res \in {"already", "limit", "sent", "failed"}
      BY <2>4 DEF Start, StartResults, Time
    <3>2. /\ delivery' \in DeliveryRow /\ notif' \in {"none", "sent", "failed"}
          /\ link' \in 0 .. Horizon + LinkLife \cup {Nothing}
          /\ res \notin {"sent", "failed"} => UNCHANGED <<delivery, notif, link>>
          /\ res \in {"sent", "failed"} =>
               notif' = res /\ delivery'.status = "on_the_way" /\ link' # Nothing
               /\ delivery'.eta # Nothing
          /\ delivery'.erased = delivery.erased
      BY <2>4, StartMakes
    <3>3. PICK m : StartMessages(res) = {m}
      BY <3>1, OneMessage
    <3>4. Cardinality(StartMessages(res)) = 1
      BY <3>3, FS_Singleton
    <3>5. "notified" \in StartMessages(res) => res = "sent"
      BY <3>1, OneMessage
    <3>6. said' = [to |-> "page", msgs |-> StartMessages(res)]
      BY <2>4 DEF Reply
    <3>7. OneTrueOutcome'
      BY <3>2, <3>4, <3>5, <3>6 DEF OneTrueOutcome
    <3> QED BY <2>2, <3>2, <3>7 DEF DTypeOK, Linked, Live
  <2> QED BY <2>1, <2>3, <2>4
<1>4. CASE Offer
  <2>1. OneTrueOutcome'
    BY <1>4, AnswersOthers DEF Offer
  <2> QED BY <1>4, <2>1 DEF Offer, DTypeOK, Linked
<1>5. CASE OpenEdit
  BY <1>5 DEF OpenEdit, DTypeOK, Linked, OneTrueOutcome, DeliveryRow
<1>6. CASE PostEdit
  <2>1. OneTrueOutcome'
    BY <1>6, AnswersOthers DEF PostEdit
  <2>2. CASE UNCHANGED delivery
    BY <1>6, <2>1, <2>2 DEF PostEdit, DTypeOK, Linked
  <2>3. ASSUME NEW typed \in {form, {}} \cup {{t} : t \in Time}, NEW coords \in BOOLEAN,
               delivery' = [Located(coords) EXCEPT !.eta = EditedEta(typed)]
        PROVE  HInv'
    <3>1. form # Nothing
      BY <1>6 DEF PostEdit
    <3>2. /\ delivery' \in DeliveryRow /\ delivery'.status = delivery.status
          /\ delivery'.erased = delivery.erased
          /\ delivery.eta # Nothing => delivery'.eta # Nothing
      BY <2>3, <3>1, EditType
    <3> QED BY <1>6, <2>1, <3>2 DEF PostEdit, DTypeOK, Linked
  <2> QED BY <1>6, <2>2, <2>3 DEF PostEdit
<1>7. CASE PageResend
  <2>1. OneTrueOutcome'
    BY <1>7, AnswersOthers DEF PageResend
  <2>2. notif' \in {"none", "sent", "failed"}
    BY <1>7 DEF PageResend, Resend, DTypeOK
  <2> QED BY <1>7, <2>1, <2>2 DEF PageResend, DTypeOK, Linked
<1>8. CASE PageOperation
  <2>1. OneTrueOutcome'
    BY <1>8, AnswersOthers DEF PageOperation
  <2>2. PICK op \in Operation : PageAllows(op) /\ delivery' = After(op)
    BY <1>8 DEF PageOperation
  <2>3. /\ delivery' \in DeliveryRow /\ delivery'.status # "absent"
        /\ delivery'.status \in {delivery.status, "created", "delivered"}
        /\ delivery'.eta = delivery.eta /\ delivery'.erased = delivery.erased
    BY <2>2, AfterType DEF PageAllows, Live, DTypeOK
  <2> QED BY <1>8, <2>1, <2>3 DEF PageOperation, DTypeOK, Linked
<1>9. CASE ApiStart
  <2>1. OneTrueOutcome'
    BY <1>9, AnswersOthers DEF ApiStart
  <2>2. CASE UNCHANGED <<delivery, notif, link>>
    BY <1>9, <2>1, <2>2 DEF ApiStart, DTypeOK, Linked
  <2>3. ASSUME NEW eta \in Time \cup {Nothing}, NEW route \in BOOLEAN, NEW res \in StartResults,
               Start(IF eta = Nothing THEN ComputedEta(route) ELSE eta, res)
        PROVE  HInv'
    <3> DEFINE given == IF eta = Nothing THEN ComputedEta(route) ELSE eta
    <3>1. given \in Time \cup {Nothing}
      BY ComputedEtaType
    <3>2. Start(given, res)
      BY <2>3
    <3> HIDE DEF given
    <3>3. /\ delivery' \in DeliveryRow /\ notif' \in {"none", "sent", "failed"}
          /\ link' \in 0 .. Horizon + LinkLife \cup {Nothing}
          /\ res \notin {"sent", "failed"} => UNCHANGED <<delivery, notif, link>>
          /\ res \in {"sent", "failed"} =>
               delivery'.status = "on_the_way" /\ delivery'.eta # Nothing
          /\ delivery'.erased = delivery.erased
      BY <3>1, <3>2, StartMakes
    <3>4. Live /\ UNCHANGED <<origin, form, now>>
      BY <1>9 DEF ApiStart
    <3> QED BY <2>1, <2>3, <3>3, <3>4 DEF DTypeOK, Linked, Live, StartResults
  <2> QED BY <1>9, <2>2, <2>3 DEF ApiStart
<1>10. CASE ApiResend
  <2>1. OneTrueOutcome'
    BY <1>10, AnswersOthers DEF ApiResend
  <2>2. notif' \in {"none", "sent", "failed"}
    BY <1>10 DEF ApiResend, Resend, DTypeOK
  <2> QED BY <1>10, <2>1, <2>2 DEF ApiResend, DTypeOK, Linked
<1>11. CASE ApiOperation
  <2>1. OneTrueOutcome'
    BY <1>11, AnswersOthers DEF ApiOperation
  <2>2. PICK op \in Operation : ApiAllows(op) /\ delivery' = After(op)
    BY <1>11 DEF ApiOperation
  <2>3. /\ delivery' \in DeliveryRow /\ delivery'.status # "absent"
        /\ delivery'.status \in {delivery.status, "created", "delivered"}
        /\ delivery'.eta = delivery.eta /\ delivery'.erased = delivery.erased
    BY <2>2, AfterType DEF ApiAllows, Live, DTypeOK
  <2> QED BY <1>11, <2>1, <2>3 DEF ApiOperation, DTypeOK, Linked
<1>12. CASE StatusPage
  <2>1. OneTrueOutcome'
    BY <1>12, AnswersOthers DEF StatusPage
  <2> QED BY <1>12, <2>1 DEF StatusPage, DTypeOK, Linked
<1>13. CASE Received
  <2>1. OneTrueOutcome'
    BY <1>13, AnswersOthers DEF Received
  <2>2. delivery.status # "absent" /\ ~delivery.erased
    BY <1>13 DEF Received, LinkActive, Linked
  <2>3. /\ delivery' \in DeliveryRow /\ delivery'.status # "absent"
        /\ delivery'.status \in {delivery.status, "created", "delivered"}
        /\ delivery'.eta = delivery.eta /\ delivery'.erased = delivery.erased
    BY <1>13, <2>2, AfterType DEF Received, Operation, DTypeOK
  <2> QED BY <1>13, <2>1, <2>2, <2>3 DEF Received, DTypeOK, Linked
<1>14. CASE Erase
  <2>1. Located(FALSE) \in DeliveryRow /\ Located(FALSE).status = delivery.status
        /\ Located(FALSE).eta = delivery.eta
    BY LocatedType DEF DTypeOK
  <2>2. /\ delivery' \in DeliveryRow /\ delivery'.erased
        /\ delivery'.status = delivery.status /\ delivery'.eta = delivery.eta
    BY <1>14, <2>1 DEF Erase, DeliveryRow
  <2>3. delivery.status # "absent"
    BY <1>14 DEF Erase, Live
  <2> QED BY <1>14, <2>2, <2>3 DEF Erase, DTypeOK, Linked, OneTrueOutcome
<1>15. CASE Pass
  BY <1>15 DEF Pass, DTypeOK, Linked, OneTrueOutcome
<1>16. CASE UNCHANGED dvars
  BY <1>16 DEF dvars, DTypeOK, Linked, OneTrueOutcome
<1> QED
  BY <1>1, <1>2, <1>3, <1>4, <1>5, <1>6, <1>7, <1>8, <1>9, <1>10, <1>11, <1>12, <1>13,
     <1>14, <1>15, <1>16 DEF DNext

LEMMA AlwaysHInv == DSpec => []HInv
  BY InitHInv, NextHInv, PTL DEF DSpec

\* Type correctness of delivery, link, open page and clock.
THEOREM RequestTypes == DSpec => []DTypeOK
<1>1. HInv => DTypeOK
  BY DEF HInv
<1> QED BY <1>1, AlwaysHInv, PTL

\* DeliveryStartView: a confirmed start is answered with its one outcome.
THEOREM OneTrueOutcomeHolds == DSpec => []OneTrueOutcome
<1>1. HInv => OneTrueOutcome
  BY DEF HInv
<1> QED BY <1>1, AlwaysHInv, PTL

-----------------------------------------------------------------------------
(* Steps                                                                   *)

\* The purge, the pages and the links: nothing changes an erased delivery, and
\* nothing takes a started delivery back from its end.
THEOREM HistoryIsFinalHolds == DSpec => HistoryIsFinal
<1> DEFINE A == /\ delivery.status = "delivered" /\ notif # "none" => delivery'.status = "delivered"
                /\ delivery.erased => delivery' = delivery
<1>1. HInv /\ [DNext]_dvars => [A]_dvars
  <2> SUFFICES ASSUME HInv, DNext, ~(UNCHANGED delivery) PROVE A
    BY DEF dvars
  <2> USE DEF HInv
  <2>1. CASE CreateRow
    BY <2>1 DEF CreateRow, Linked
  <2>2. CASE PageStart
    <3>1. PICK eta \in Time, res \in StartResults : Start(eta, res)
      BY <2>2 DEF PageStart
    <3> QED BY <2>2, <3>1, StartMakes DEF PageStart, Live, Started, Start
  <2>3. CASE ApiStart
    <3>1. \E eta, res : Start(eta, res)
      BY <2>3 DEF ApiStart
    <3> QED BY <2>3, <3>1 DEF ApiStart, Live, Started, Start
  <2>4. CASE PostEdit
    <3>1. form # Nothing /\ OnBoard /\ delivery.status # "delivered"
      BY <2>4 DEF PostEdit
    <3> QED BY <3>1 DEF OnBoard, Live
  <2>5. CASE PageOperation \/ ApiOperation
    <3>1. PICK op \in Operation : Live /\ delivery' = After(op)
      BY <2>5 DEF PageOperation, ApiOperation, PageAllows, ApiAllows
    <3> QED BY <3>1, AfterType DEF Live, DTypeOK
  <2>6. CASE Received
    <3>1. delivery.status # "absent" /\ ~delivery.erased
      BY <2>6 DEF Received, LinkActive, Linked
    <3> QED BY <2>6, <3>1, AfterType DEF Received, Operation, DTypeOK
  <2>7. CASE Erase
    <3>1. Located(FALSE) \in DeliveryRow /\ Located(FALSE).status = delivery.status
      BY LocatedType DEF DTypeOK
    <3> QED BY <2>7, <3>1 DEF Erase, Live, DeliveryRow
  <2>8. CASE SetOrigin \/ Offer \/ OpenEdit \/ PageResend \/ ApiResend \/ StatusPage \/ Pass
    BY <2>8 DEF SetOrigin, Offer, OpenEdit, PageResend, ApiResend, StatusPage, Pass
  <2> QED BY <2>1, <2>2, <2>3, <2>4, <2>5, <2>6, <2>7, <2>8 DEF DNext
<1>2. DSpec => [][A]_dvars
  BY <1>1, AlwaysHInv, PTL DEF DSpec
<1> QED BY <1>2 DEF HistoryIsFinal
=============================================================================
