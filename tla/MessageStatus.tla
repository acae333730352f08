---------------------------- MODULE MessageStatus ----------------------------
(***************************************************************************)
(* The on_the_way Notification of one delivery after its start committed:  *)
(* who sends the message (start, resend, the escalation callback of Cloud  *)
(* Tasks), and how Infobip's receipts move its status.                     *)
(*                                                                         *)
(* A provider chain tries its channels in order until one accepts.  The    *)
(* accepted message gets an id; a receipt finds the Notification by that   *)
(* id.  Receipts and tasks may come twice, late, in another order, or not  *)
(* at all.  As everywhere, a handler acts on the object it read.           *)
(***************************************************************************)
EXTENDS Naturals, Sequences, FiniteSets

CONSTANTS
  Worker,      \* threads that serve requests
  Chain,       \* channels of the configured provider chain, in order
  Declared,    \* channels whose provider class has the attribute `channel`
  Escalation,  \* FALLBACK_ESCALATION_ENABLED
  ResendCap,   \* SEND_LIMIT_RESENDS_PER_DELIVERY
  SentBound,   \* bound: messages accepted by providers
  Crashes      \* whether a worker may be killed in the middle of a request

Channel == {Chain[i] : i \in DOMAIN Chain}

ASSUME MessageConstants ==
  /\ Chain \in Seq(Channel) /\ Len(Chain) > 0
  /\ Cardinality(Channel) = Len(Chain)   \* no channel twice
  /\ Escalation \in BOOLEAN /\ Crashes \in BOOLEAN
  /\ ResendCap \in Nat /\ SentBound \in Nat

VARIABLES
  notif,     \* the row: status, and the message provider_message_id names (0: none)
  attempts,  \* channels of its NotificationAttempt rows, by attempt_no
  resends,   \* OutboundSend rows of kind "resend"
  sent,      \* messages a provider accepted, in order: what became of each
  due,       \* whether an escalation task waits in Cloud Tasks
  missed,    \* history: an escalation task was lost
  announced, \* history: delivery.started went to the merchant
  told,      \* history: notification.* events emitted for the merchant
  pc, flow,  \* per worker: step, and the handler it belongs to
  seen,      \* per worker: the status as a receipt read it
  tried, got \* per worker: channels to try or tried; the message (0: refused)

row     == <<notif, attempts, resends>>
outside == <<sent, due, missed, announced, told>>
local   == <<pc, flow, seen, tried, got>>
vars    == <<row, outside, local>>

-----------------------------------------------------------------------------
Order  == <<"queued", "sent", "delivered", "read">>
Status == {Order[i] : i \in DOMAIN Order} \cup {"failed"}
Rank(s) == IF s = "failed" THEN 1 ELSE CHOOSE i \in DOMAIN Order : Order[i] = s
Fate   == {"pending", "delivered", "seen", "failed"}
Notif  == [status : Status \cup {"none"}, mid : 0 .. SentBound]
Steps  == {"idle", "send", "record", "wipe", "fill", "schedule", "event",
           "queue", "plan", "apply"}

NoNotif  == [status |-> "none", mid |-> 0]

Init ==
  /\ notif = NoNotif /\ attempts = <<>> /\ resends = 0
  /\ sent = <<>> /\ due = FALSE /\ missed = FALSE
  /\ announced = FALSE /\ told = {}
  /\ pc = [w \in Worker |-> "idle"] /\ flow = [w \in Worker |-> "none"]
  /\ seen = [w \in Worker |-> "none"]
  /\ tried = [w \in Worker |-> <<>>] /\ got = [w \in Worker |-> 0]

-----------------------------------------------------------------------------
At(w, step) == pc[w] = step
Move(w, step) == pc' = [pc EXCEPT ![w] = step] /\ UNCHANGED <<flow, seen, tried, got>>
Enter(w, f, step, status) ==
  /\ pc' = [pc EXCEPT ![w] = step] /\ flow' = [flow EXCEPT ![w] = f]
  /\ seen' = [seen EXCEPT ![w] = status]
  /\ tried' = [tried EXCEPT ![w] = <<>>] /\ got' = [got EXCEPT ![w] = 0]
Finish(w) == Enter(w, "none", "idle", "none")

\* The elements of s that are in T, in their order (SelectSeq, as a recursive
\* function: the provers know nothing of SelectSeq).
Only(s, T) ==
  LET only[i \in 0 .. Len(s)] ==
        IF i = 0 THEN <<>>
        ELSE IF s[i] \in T THEN Append(only[i - 1], s[i]) ELSE only[i - 1]
  IN only[Len(s)]

\* _untried_chain_paths; chain_channel_paths reads the class attribute
\* `channel` of every provider of the chain and raises where it is missing.
Untried == Only(Chain, Channel \ {attempts[i] : i \in DOMAIN attempts})
Raises  == ~(Channel \subseteq Declared)

\* ChainedMessagingProvider.send_text: each channel in turn until one accepts.
\* (An answer without an id is one no receipt ever comes for.)
SendChain(w, paths) ==
  \/ /\ tried' = [tried EXCEPT ![w] = paths]
     /\ got' = [got EXCEPT ![w] = 0]
     /\ UNCHANGED sent
  \/ \E k \in DOMAIN paths :
       /\ Len(sent) < SentBound
       /\ sent' = Append(sent, "pending")
       /\ tried' = [tried EXCEPT ![w] = SubSeq(paths, 1, k)]
       /\ got' = [got EXCEPT ![w] = Len(sent')]

-----------------------------------------------------------------------------
(* start_delivery from its commit on, and resend_on_the_way                *)

\* The transaction of start_delivery commits with the queued Notification
\* (module DeliveryLifecycle shows that this happens once).
Start(w) ==
  /\ At(w, "idle") /\ notif.status = "none"
  /\ notif' = [NoNotif EXCEPT !.status = "queued"]
  /\ Enter(w, "start", "send", "none")
  /\ UNCHANGED <<attempts, resends, outside>>

\* A resend reads the Notification and books the send.
Resend(w) ==
  /\ At(w, "idle") /\ notif.status # "none"
  /\ resends < ResendCap
  /\ resends' = resends + 1
  /\ Enter(w, "resend", "queue", "none")
  /\ UNCHANGED <<notif, attempts, outside>>

ResendQueue(w) ==
  /\ At(w, "queue")
  /\ notif' = [notif EXCEPT !.status = "queued"]
  /\ Move(w, "send")
  /\ UNCHANGED <<attempts, resends, outside>>

\* Start and resend go through the whole chain, an escalation through the
\* channels it found untried.
Send(w) ==
  /\ At(w, "send")
  /\ SendChain(w, IF flow[w] = "escalate" THEN tried[w] ELSE Chain)
  /\ pc' = [pc EXCEPT ![w] = IF flow[w] = "escalate" THEN "fill" ELSE "record"]
  /\ UNCHANGED <<row, due, missed, announced, told, flow, seen>>

\* The outcome is saved: of the whole chain always, of an escalation if sent.
Record(w) ==
  /\ At(w, "record")
  /\ IF flow[w] = "escalate"
     THEN Move(w, "schedule")
     ELSE Move(w, "wipe")
  /\ notif' = [status |-> IF got[w] # 0 THEN "sent" ELSE "failed", mid |-> got[w]]
  /\ UNCHANGED <<attempts, resends, outside>>

\* _record_attempts: delete the rows, then insert the new ones.
Wipe(w) ==
  /\ At(w, "wipe")
  /\ attempts' = <<>>
  /\ Move(w, "fill")
  /\ UNCHANGED <<notif, resends, outside>>

\* Inserts, in one statement; _append_attempts does the same after the rows
\* that are there.
Fill(w) ==
  /\ At(w, "fill")
  /\ attempts' = attempts \o tried[w]
  /\ CASE flow[w] = "start" -> Move(w, "schedule")
       [] flow[w] = "resend" -> Finish(w)
       [] flow[w] = "escalate" /\ got[w] # 0 -> Move(w, "record")
       [] OTHER -> Finish(w)
  /\ UNCHANGED <<notif, resends, outside>>

-----------------------------------------------------------------------------
(* Escalation                                                              *)

After(w) == IF flow[w] = "start" THEN Move(w, "event") ELSE Finish(w)

\* Mutant: no check is planned.
Schedule_Omitted(w) ==
  /\ At(w, "schedule")
  /\ After(w)
  /\ UNCHANGED <<row, outside>>

\* Mutant: an error of the scheduler leaves the handler.
Schedule_Unguarded(w) ==
  /\ At(w, "schedule")
  /\ \/ /\ Escalation /\ Raises
        /\ Finish(w)
        /\ due' = (due \/ flow[w] = "escalate")
        /\ UNCHANGED missed
     \/ /\ Escalation => Untried = <<>>
        /\ After(w) /\ UNCHANGED <<due, missed>>
     \/ /\ Escalation /\ ~Raises /\ Untried # <<>>
        /\ \/ due' = TRUE /\ UNCHANGED missed /\ After(w)
           \/ missed' = TRUE /\ UNCHANGED due /\ Finish(w)
  /\ UNCHANGED <<row, sent, announced, told>>

\* _schedule_escalation_if_pending: an error of the scheduler is dropped, one
\* of chain_channel_paths ends the request (a task is then delivered again).
Schedule(w) ==
  /\ At(w, "schedule")
  /\ \/ /\ Escalation /\ Raises
        /\ Finish(w)
        /\ due' = (due \/ flow[w] = "escalate")
        /\ UNCHANGED missed
     \/ /\ Escalation => ~Raises /\ Untried = <<>>
        /\ After(w) /\ UNCHANGED <<due, missed>>
     \/ /\ Escalation /\ ~Raises /\ Untried # <<>>
        /\ \/ due' = TRUE /\ UNCHANGED missed
           \/ missed' = TRUE /\ UNCHANGED due
        /\ After(w)
  /\ UNCHANGED <<row, sent, announced, told>>

Event(w) ==
  /\ At(w, "event")
  /\ announced' = TRUE
  /\ Finish(w)
  /\ UNCHANGED <<row, sent, due, missed, told>>

\* Cloud Tasks calls /tasks/escalate/, perhaps once more than asked.
Escalate(w) ==
  /\ At(w, "idle") /\ due /\ Escalation
  /\ due' \in BOOLEAN
  /\ IF notif.status \in {"delivered", "read"}
     THEN UNCHANGED local
     ELSE Enter(w, "escalate", "plan", "none")
  /\ UNCHANGED <<row, sent, missed, announced, told>>

\* Mutant: only the channel of the last attempt counts as tried.
EscalatePlan_LastOnly(w) ==
  /\ At(w, "plan")
  /\ LET paths == Only(Chain, Channel \ {attempts[Len(attempts)]}) IN
       \/ /\ ~Raises /\ attempts # <<>> /\ paths # <<>>
          /\ tried' = [tried EXCEPT ![w] = paths]
          /\ pc' = [pc EXCEPT ![w] = "send"]
          /\ UNCHANGED <<due, flow, seen, got>>
       \/ (Raises \/ attempts = <<>> \/ paths = <<>>) /\ Finish(w) /\ UNCHANGED due
  /\ UNCHANGED <<row, sent, missed, announced, told>>

EscalatePlan(w) ==
  /\ At(w, "plan")
  /\ \/ Raises /\ Finish(w) /\ due' = TRUE
     \/ ~Raises /\ Untried = <<>> /\ Finish(w) /\ UNCHANGED due
     \/ /\ ~Raises /\ Untried # <<>>
        /\ tried' = [tried EXCEPT ![w] = Untried]
        /\ pc' = [pc EXCEPT ![w] = "send"]
        /\ UNCHANGED <<due, flow, seen, got>>
  /\ UNCHANGED <<row, sent, missed, announced, told>>

-----------------------------------------------------------------------------
(* Receipts                                                                *)

\* What Infobip may have reported of a message whose fate this is; a report
\* can come late, twice, or after a later one.
Reports(fate) ==
  CASE fate = "pending"   -> {"PENDING"}
    [] fate = "delivered" -> {"PENDING", "DELIVERED"}
    [] fate = "seen"      -> {"PENDING", "DELIVERED", "seen"}
    [] fate = "failed"    -> {"PENDING", "UNDELIVERABLE"}

\* Mutant: every report but a failure counts as delivery.
Resolve_AnyGroup(report) ==
  CASE report = "seen" -> "read"
    [] report = "UNDELIVERABLE" -> "failed"
    [] OTHER -> "delivered"

\* _resolve_status; "none" leaves the status alone.
Resolve(report) ==
  CASE report = "seen" -> "read"
    [] report = "DELIVERED" -> "delivered"
    [] report = "UNDELIVERABLE" -> "failed"
    [] OTHER -> "none"

\* Mutant: the one Notification of the delivery is taken, whatever the id.
Receipt_AnyMessage(w) ==
  /\ At(w, "idle")
  /\ \E i \in DOMAIN sent : \E r \in Reports(sent[i]) :
       /\ notif.status # "none" /\ Resolve(r) # "none"
       /\ Enter(w, Resolve(r), "apply", notif.status)
  /\ UNCHANGED <<row, outside>>

\* infobip_reports finds the Notification by the id of the message; others are
\* skipped, as is a report that says nothing.
Receipt(w) ==
  /\ At(w, "idle")
  /\ \E i \in DOMAIN sent : \E r \in Reports(sent[i]) :
       /\ notif.mid = i /\ Resolve(r) # "none"
       /\ Enter(w, Resolve(r), "apply", notif.status)
  /\ UNCHANGED <<row, outside>>

\* The test of _apply: never down, and failed only before it was delivered.
Advances(old, new) ==
  IF new = "failed" THEN old \in {"queued", "sent"} ELSE Rank(new) > Rank(old)

\* Mutant: the status in the report is saved as it is.
Apply_NoOrder(w) ==
  /\ At(w, "apply")
  /\ notif' = [notif EXCEPT !.status = flow[w]]
  /\ told' = told \cup {flow[w]}
  /\ Finish(w)
  /\ UNCHANGED <<attempts, resends, sent, due, missed, announced>>

\* _apply decides on the object read and saves the one column; the merchant is
\* then told.
Apply(w) ==
  /\ At(w, "apply")
  /\ IF Advances(seen[w], flow[w])
     THEN /\ notif' = [notif EXCEPT !.status = flow[w]]
          /\ told' = told \cup {flow[w]}
     ELSE UNCHANGED <<notif, told>>
  /\ Finish(w)
  /\ UNCHANGED <<attempts, resends, sent, due, missed, announced>>

-----------------------------------------------------------------------------
(* The environment                                                         *)

\* The phone network and the recipient.
Progress ==
  /\ \E i \in DOMAIN sent :
       \/ /\ sent[i] = "pending"
          /\ \E f \in {"delivered", "failed"} : sent' = [sent EXCEPT ![i] = f]
       \/ /\ sent[i] = "delivered"
          /\ sent' = [sent EXCEPT ![i] = "seen"]
  /\ UNCHANGED <<row, due, missed, announced, told, local>>

\* The instance is stopped.  Cloud Tasks repeats a task that got no answer.
Crash(w) ==
  /\ Crashes /\ ~At(w, "idle")
  /\ due' = (due \/ flow[w] = "escalate")
  /\ missed' = (missed \/ flow[w] = "start")
  /\ Finish(w)
  /\ UNCHANGED <<row, sent, announced, told>>

Work(w) ==
  \/ ResendQueue(w) \/ Send(w) \/ Record(w) \/ Wipe(w) \/ Fill(w)
  \/ Schedule(w) \/ Event(w) \/ EscalatePlan(w) \/ Apply(w)

Next ==
  \/ \E w \in Worker :
       Start(w) \/ Resend(w) \/ Escalate(w) \/ Receipt(w) \/ Work(w) \/ Crash(w)
  \/ Progress

Spec == Init /\ [][Next]_vars

\* An accepted request is carried on, and Cloud Tasks delivers what it holds.
\* Clients, the network and Infobip owe nothing.
FairSpec ==
  /\ Spec
  /\ \A w \in Worker : WF_vars(Work(w))
  /\ SF_vars(\E w \in Worker : Escalate(w))
-----------------------------------------------------------------------------
TypeOK ==
  /\ notif \in Notif
  /\ attempts \in Seq(Channel)
  /\ resends \in 0 .. ResendCap
  /\ sent \in Seq(Fate) /\ Len(sent) <= SentBound
  /\ due \in BOOLEAN /\ missed \in BOOLEAN /\ announced \in BOOLEAN
  /\ told \subseteq Status
  /\ pc \in [Worker -> Steps]
  /\ flow \in [Worker -> {"none", "start", "resend", "escalate"} \cup Status]
  /\ seen \in [Worker -> Status \cup {"none"}]
  /\ tried \in [Worker -> Seq(Channel)]
  /\ got \in [Worker -> 0 .. SentBound]

Happened(status, i) ==
  CASE status = "delivered" -> sent[i] \in {"delivered", "seen"}
    [] status = "read"      -> sent[i] = "seen"
    [] status = "failed"    -> sent[i] = "failed"

\* Whatever the shop and the merchant are told of the message is true of a
\* message that was sent, however receipts, resends and escalations race.
StatusIsEarned ==
  \A s \in told \cup ({notif.status} \cap {"delivered", "read"}) :
    \E i \in DOMAIN sent : Happened(s, i)

\* One request at a time, the status is that of the message the row points to:
\* a late receipt of the message before a resend changes nothing.
StatusBelongsToMessage ==
  notif.status \in {"delivered", "read"} =>
    notif.mid # 0 /\ Happened(notif.status, notif.mid)

\* webhooks.py: receipts never lower the status ("no downgrade read to
\* delivered"), in whatever order and however often they come.
NoReceiptDowngrade ==
  [][\A w \in Worker :
       At(w, "apply") /\ pc'[w] = "idle" /\ notif' # notif
         => Advances(notif.status, notif'.status)]_vars

\* quotas.py: escalations need no limit of their own because the attempts at
\* one message are bounded by the length of the chain.
AttemptsWithinChain == Len(attempts) <= Len(Chain)

\* The start of a delivery is announced to the merchant, whatever the provider
\* and the scheduler do (no crash).
StartIsAnnounced ==
  (\A w \in Worker : At(w, "idle")) /\ notif.status # "none" => announced

AllTried == \A c \in Channel : \E i \in DOMAIN attempts : attempts[i] = c

\* With escalation on, a message that is not confirmed is never forgotten: when
\* all is quiet a check waits in Cloud Tasks (unless a task was lost), or every
\* channel was tried.  Until it is sent again: a resend starts the attempts
\* anew and plans no check.
CheckIsPlanned ==
  (/\ Escalation /\ ~Raises /\ resends = 0
   /\ notif.status # "none" /\ told \cap {"delivered", "read"} = {}
   /\ \A w \in Worker : At(w, "idle"))
  => due \/ missed \/ AllTried

\* With escalation on, no crash and no lost task, a message that was never
\* confirmed is in the end tried on every channel.
EveryChannelTried ==
  <>(notif.status # "none") =>
  <>(notif.status \in {"delivered", "read"} \/ AllTried \/ missed)
=============================================================================
