-------------------------- MODULE DeliveryRequests --------------------------
(***************************************************************************)
(* The requests about one delivery, one at a time: the shop's pages        *)
(* (deliveries/views.py, forms.py), the public API (deliveries/api.py) and *)
(* the customer's page (tracking/views.py), over the clock, pages that     *)
(* stay open, the link that expires and the erasure of old data.  What     *)
(* overlapping requests do to each other is in DeliveryLifecycle.          *)
(***************************************************************************)
EXTENDS Naturals, FiniteSets

CONSTANTS
  Horizon,   \* last tick of the clock (a bound)
  Travel,    \* route duration and ETA_BUFFER_MINUTES
  LinkLife,  \* TRACKING_TOKEN_TTL_DAYS
  Nothing    \* no time, no link, no page

ASSUME RequestConstants ==
  Horizon \in Nat /\ Travel \in Nat /\ LinkLife \in Nat /\ Nothing \notin Nat

VARIABLES
  delivery,      \* the Delivery
  origin,   \* TRUE: the shop's address has coordinates
  notif,    \* status of the on_the_way Notification, or "none"
  link,     \* TrackingToken.expires_at, or Nothing
  form,     \* what an open "edit" page shows: {time}, {} without one, or Nothing
  now,
  said      \* the last request and what it was answered

dvars == <<delivery, origin, notif, link, form, now, said>>

-----------------------------------------------------------------------------
Status == {"new", "created", "on_the_way", "delivered"}
Time   == 0 .. Horizon + Travel
DeliveryRow    == [status : Status \cup {"absent"}, eta : Time \cup {Nothing},
           deleted : BOOLEAN, erased : BOOLEAN, coords : BOOLEAN]

\* STATUS_MAP and its reverse, for the ?status= filter.
StatusMap == [new |-> "pending", created |-> "ready_for_pickup",
              on_the_way |-> "out_for_delivery", delivered |-> "delivered"]
Internal(f) == IF \E s \in Status : StatusMap[s] = f
               THEN CHOOSE s \in Status : StatusMap[s] = f ELSE f

DInit ==
  /\ delivery = [status |-> "absent", eta |-> Nothing, deleted |-> FALSE,
            erased |-> FALSE, coords |-> FALSE]
  /\ origin \in BOOLEAN
  /\ notif = "none" /\ link = Nothing /\ form = Nothing
  /\ now = 0
  /\ said = [to |-> "nobody", msgs |-> {}]

Reply(to, msgs) == said' = [to |-> to, msgs |-> msgs]

\* The row with another status, and with or without coordinates.
Moved(status)   == [delivery EXCEPT !.status = status]
Located(coords) == [delivery EXCEPT !.coords = coords]

\* _live_delivery_or_404 and get_owned_delivery: erased deliveries are history.
Live == delivery.status # "absent" /\ ~delivery.erased
OnBoard == Live /\ ~delivery.deleted

-----------------------------------------------------------------------------
(* Lists                                                                   *)

\* GET /deliveries: is the delivery in the answer?
ApiLists(filter, deleted) ==
  Live /\ delivery.deleted = deleted /\ (filter = "" \/ delivery.status = Internal(filter))

-----------------------------------------------------------------------------
(* The services, each as one step                                          *)

Started == delivery.status = "on_the_way" \/ notif # "none"

\* compute_eta; route: the maps service answers.
ComputedEta(route) ==
  IF origin /\ delivery.coords /\ route THEN now + Travel ELSE Nothing

\* start_delivery with this arrival time and this outcome.
Start(eta, res) ==
  \/ /\ Started /\ res = "already"
     /\ UNCHANGED <<delivery, notif, link>>
  \/ /\ ~Started
     /\ res = IF eta = Nothing THEN "needs_eta" ELSE "limit"
     /\ UNCHANGED <<delivery, notif, link>>
  \/ /\ ~Started /\ eta # Nothing /\ res \in {"sent", "failed"}
     /\ delivery' = [Moved("on_the_way") EXCEPT !.eta = eta]
     /\ notif' = res
     /\ link' = IF link = Nothing THEN now + LinkLife ELSE link

StartResults == {"already", "needs_eta", "limit", "sent", "failed"}

\* resend_on_the_way: nothing to resend, a limit, or a new outcome.
Resend(res) ==
  \/ notif = "none" /\ res = "none" /\ UNCHANGED notif
  \/ notif # "none" /\ res = "limit" /\ UNCHANGED notif
  \/ notif # "none" /\ res \in {"sent", "failed"} /\ notif' = res

\* mark_ready, mark_delivered, soft_delete, restore.
Operation == {"ready", "delivered", "delete", "restore"}
After(op) ==
  CASE op = "ready"     -> IF delivery.status = "new" THEN Moved("created") ELSE delivery
    [] op = "delivered" -> Moved("delivered")
    [] OTHER            -> [delivery EXCEPT !.deleted = (op = "delete")]

\* Which rows the shop's pages find for an operation, and which the API does.
PageAllows(op) ==
  /\ Live
  /\ op \in {"ready", "delete"} => ~delivery.deleted
  /\ op = "restore" => delivery.deleted
ApiAllows(op) == Live

-----------------------------------------------------------------------------
(* The shop's pages                                                        *)

\* DeliveryCreateView, with or without "save and notify"; the API's create
\* makes the same delivery without asking for an origin.
CreateRow ==
  /\ delivery.status = "absent"
  /\ \E coords, now_too, api \in BOOLEAN :
       /\ api \/ origin
       /\ delivery' = [Located(coords) EXCEPT
                          !.status = IF now_too /\ ~api THEN "created" ELSE "new"]
  /\ Reply("create", {})
  /\ UNCHANGED <<origin, notif, link, form, now>>

\* set_shop_origin: an address that is recognized stays.
SetOrigin ==
  /\ ~origin /\ origin' = TRUE
  /\ UNCHANGED <<delivery, notif, link, form, now, said>>

\* ManualEtaForm and _parse_eta: only a time in the future is taken.
Valid(eta) == eta > now

\* Mutant: a refused or failed start is answered as a success.
StartMessages_Always(res) ==
  {"notified"} \cup (IF res \in {"failed", "limit"} THEN {"not_sent"} ELSE {})

StartMessages(res) ==
  CASE res = "already" -> {"in_progress"}
    [] res = "sent" -> {"notified"}
    [] res = "failed" -> {"not_sent"}
    [] res = "limit" -> {"limit"}
    [] OTHER -> {}

\* DeliveryStartView, step 2: the time on the page is confirmed.  Step 1 only
\* shows the computed time.
PageStart ==
  /\ Live
  /\ \E eta \in Time :
       \/ /\ ~Valid(eta)
          /\ Reply("page", {"past"})
          /\ UNCHANGED <<delivery, notif, link>>
       \/ /\ Valid(eta)
          /\ \E res \in StartResults : Start(eta, res) /\ Reply("page", StartMessages(res))
  /\ UNCHANGED <<origin, form, now>>

\* eta_unavailable_reason
WhyNot ==
  CASE ~origin -> "no_origin"
    [] origin /\ ~delivery.coords -> "no_address"
    [] origin /\ delivery.coords -> "no_route"

\* confirm_eta_page: the time on offer, or why there is none.
Offer ==
  /\ Live /\ delivery.status # "on_the_way"
  /\ \E route \in BOOLEAN :
       Reply("offer", {IF ComputedEta(route) # Nothing THEN "time" ELSE WhyNot})
  /\ UNCHANGED <<delivery, origin, notif, link, form, now>>

\* DeliveryEditView.get: the page has a time only for a delivery on the way.
OpenEdit ==
  /\ OnBoard /\ delivery.status # "delivered"
  /\ form' = IF delivery.status = "on_the_way" THEN {delivery.eta} ELSE {}
  /\ UNCHANGED <<delivery, origin, notif, link, now, said>>

\* DeliveryEditForm.clean: the delivery's own time is no change, another one must
\* be in the future.
EditAccepts(typed) ==
  delivery.status # "on_the_way" \/ typed = {delivery.eta} \/ \A t \in typed : t > now

EditedEta(typed) ==
  IF delivery.status = "on_the_way" /\ typed # {} THEN CHOOSE t \in typed : TRUE ELSE delivery.eta

\* DeliveryEditView.post and update_delivery.  The page sends back the time it
\* showed, or one the shop typed; a new address may lose the coordinates.
PostEdit ==
  /\ form # Nothing /\ form' = Nothing
  /\ IF ~OnBoard \/ delivery.status = "delivered"
     THEN Reply("edit", {"closed"}) /\ UNCHANGED delivery
     ELSE \E typed \in {form, {}} \cup {{t} : t \in Time}, coords \in BOOLEAN :
            /\ form = {} => typed = {}
            /\ delivery' = IF EditAccepts(typed)
                           THEN [Located(coords) EXCEPT !.eta = EditedEta(typed)]
                           ELSE delivery
            /\ Reply("edit", {IF EditAccepts(typed) THEN "saved" ELSE "past"})
  /\ UNCHANGED <<origin, notif, link, now>>

\* DeliveryResendView.
PageResend ==
  /\ Live
  /\ \E res \in {"none", "limit", "sent", "failed"} : Resend(res) /\ Reply("resend", {res})
  /\ UNCHANGED <<delivery, origin, link, form, now>>

\* The buttons of a card.
PageOperation ==
  \E op \in Operation :
    /\ PageAllows(op) /\ delivery' = After(op)
    /\ Reply("card", {op})
    /\ UNCHANGED <<origin, notif, link, form, now>>

-----------------------------------------------------------------------------
(* The API                                                                 *)

\* POST /start and /dispatch: 200, 400 (a time that is past), 422, 429.
ApiStart ==
  /\ Live
  /\ \E eta \in Time \cup {Nothing}, route \in BOOLEAN :
       \/ /\ eta # Nothing /\ ~Valid(eta)
          /\ Reply("api_start", {"invalid_eta"})
          /\ UNCHANGED <<delivery, notif, link>>
       \/ /\ eta # Nothing => Valid(eta)
          /\ \E res \in StartResults :
               /\ Start(IF eta = Nothing THEN ComputedEta(route) ELSE eta, res)
               /\ Reply("api_start", {CASE res = "needs_eta" -> "eta_required"
                                        [] res = "limit" -> "daily_limit"
                                        [] OTHER -> "ok"})
  /\ UNCHANGED <<origin, form, now>>

\* POST /notifications/resend: 200, 409, 429.
ApiResend ==
  /\ Live
  /\ \E res \in {"none", "limit", "sent", "failed"} :
       Resend(res) /\ Reply("api_resend", {IF res = "none" THEN "not_started" ELSE res})
  /\ UNCHANGED <<delivery, origin, link, form, now>>

\* POST /ready, /delivered, /restore and DELETE.
ApiOperation ==
  \E op \in Operation :
    /\ ApiAllows(op) /\ delivery' = After(op)
    /\ Reply("api_card", {op})
    /\ UNCHANGED <<origin, notif, link, form, now>>

-----------------------------------------------------------------------------
(* The customer, the clock and the purge                                   *)

\* _active_token: the link opens the page until it expires.
LinkActive == link # Nothing /\ ~(link < now)

\* tracking.status: the steps, and "a little late" once the time is past.
StatusPage ==
  /\ link # Nothing
  /\ Reply("customer",
       IF ~LinkActive THEN {"expired"}
       ELSE {delivery.status} \cup (IF delivery.status = "on_the_way" /\ delivery.eta # Nothing /\ delivery.eta < now
                               THEN {"late"} ELSE {}))
  /\ UNCHANGED <<delivery, origin, notif, link, form, now>>

\* Mutant: the link of an erased delivery still opens the page.
Erase_KeepsLink ==
  /\ Live /\ (delivery.deleted \/ delivery.status = "delivered")
  /\ delivery' = [Located(FALSE) EXCEPT !.erased = TRUE]
  /\ UNCHANGED <<origin, notif, link, form, now, said>>

\* tracking.mark_received: also for a delivery the shop has deleted.
Received ==
  /\ LinkActive
  /\ delivery' = After("delivered")
  /\ Reply("customer", {})
  /\ UNCHANGED <<origin, notif, link, form, now>>

\* retention.py, once the delivery is over: the link goes with the data.
Erase ==
  /\ Live /\ (delivery.deleted \/ delivery.status = "delivered")
  /\ delivery' = [Located(FALSE) EXCEPT !.erased = TRUE]
  /\ link' = Nothing
  /\ UNCHANGED <<origin, notif, form, now, said>>

Pass ==
  /\ now < Horizon /\ now' = now + 1
  /\ UNCHANGED <<delivery, origin, notif, link, form, said>>

DNext ==
  \/ CreateRow \/ SetOrigin \/ PageStart \/ Offer \/ OpenEdit \/ PostEdit \/ PageResend
  \/ PageOperation \/ ApiStart \/ ApiResend \/ ApiOperation
  \/ StatusPage \/ Received \/ Erase \/ Pass

DSpec == DInit /\ [][DNext]_dvars
-----------------------------------------------------------------------------
DTypeOK ==
  /\ delivery \in DeliveryRow
  /\ origin \in BOOLEAN
  /\ notif \in {"none", "sent", "failed"}
  /\ link \in 0 .. Horizon + LinkLife \cup {Nothing}
  /\ form = Nothing \/ form \in SUBSET Time
  /\ now \in 0 .. Horizon

\* start_delivery, mark_delivered, the purge: with requests one at a time, a
\* delivery that was started and delivered stays delivered whatever is pressed
\* afterwards, and one whose recipient is erased is history, also for pages
\* that were open before and for the customer's link.
HistoryIsFinal ==
  [][/\ delivery.status = "delivered" /\ notif # "none" => delivery'.status = "delivered"
     /\ delivery.erased => delivery' = delivery]_dvars

\* DeliveryStartView: exactly one message about the outcome of a confirmed
\* start; "notified" only of a delivery on the way whose message went out and
\* which has a link.
OneTrueOutcome ==
  said.to = "page" =>
    /\ Cardinality(said.msgs) = 1
    /\ "notified" \in said.msgs =>
         notif = "sent" /\ (delivery.erased \/ (delivery.status = "on_the_way" /\ link # Nothing))
=============================================================================
