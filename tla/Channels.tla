------------------------------ MODULE Channels ------------------------------
(***************************************************************************)
(* The way of one text to its number: the chain of channels made from the  *)
(* settings (integrations/providers.py), which are tried in order until    *)
(* one takes the text (chained.py, infobip.py, whatsapp.py, telegram.py),  *)
(* and the count of what was used (metering.py).  An answer may be lost    *)
(* although the text was taken; the chain takes that for a refusal.        *)
(***************************************************************************)
EXTENDS Naturals, Sequences, FiniteSets

CONSTANTS
  Sender,     \* threads that send texts
  Settings,   \* configurations, a set of the records below
  TextBound,  \* how many texts are sent (a bound)
  CutBound    \* how many counts are cut off (a bound)

Channel == {"telegram", "viber", "whatsapp", "sms"}

ASSUME ChannelConstants ==
  /\ IsFiniteSet(Sender)
  /\ Settings \subseteq [direct : BOOLEAN,     \* INFOBIP_CHANNEL is sms
                         whatsapp : BOOLEAN, template : BOOLEAN,
                         fallback : BOOLEAN,   \* INFOBIP_SMS_FALLBACK
                         telegram : BOOLEAN, bot : BOOLEAN,
                         key : BOOLEAN]        \* INFOBIP_API_KEY
  /\ TextBound \in Nat /\ CutBound \in Nat

VARIABLES
  config,    \* the settings
  opted,     \* TelegramContact has a chat for the number
  call,      \* per thread: step, channels still to try, copies taken, answers lost
  taken,     \* per channel: texts it has taken
  used,      \* ProviderUsage.count
  unheard,   \* per channel: texts it has taken whose answer was lost
  cut        \* per channel: texts whose count was cut off

cvars == <<config, opted, call, taken, used, unheard, cut>>

-----------------------------------------------------------------------------
NoText == [at |-> "idle", rest |-> <<>>, copies |-> 0, lost |-> 0]
None4 == [c \in Channel |-> 0]
Total(f) == f["telegram"] + f["viber"] + f["whatsapp"] + f["sms"]

CInit ==
  /\ config \in Settings /\ opted = FALSE
  /\ call = [w \in Sender |-> NoText]
  /\ taken = None4 /\ used = None4 /\ unheard = None4 /\ cut = None4

Optional(set, c) == IF set THEN <<c>> ELSE <<>>

\* _default_chain_paths
Chain ==
  Optional(config.telegram, "telegram")
    \o IF config.direct THEN <<"sms">>
       ELSE <<"viber">> \o Optional(config.whatsapp, "whatsapp")
                        \o Optional(config.fallback, "sms")

\* A channel that is not set up, or has no chat of the number, refuses by itself.
InfobipReady  == config.key
WhatsAppReady == config.key /\ config.template
TelegramReady == opted /\ config.telegram /\ config.bot
Ready(c) ==
  CASE c = "telegram" -> TelegramReady
    [] c = "whatsapp" -> WhatsAppReady
    [] c \in {"viber", "sms"} -> InfobipReady

OnItsWay == {w \in Sender : call[w].at # "idle"}

\* get_messaging_provider, or get_messaging_provider_for the untried channels.
SendText(w) ==
  /\ call[w].at = "idle"
  /\ Total(taken) + Cardinality(OnItsWay) < TextBound
  /\ \E left \in SUBSET Channel :
       call' = [call EXCEPT ![w] =
         [NoText EXCEPT !.at = "try", !.rest = SelectSeq(Chain, LAMBDA c : c \in left)]]
  /\ UNCHANGED <<config, opted, taken, used, unheard, cut>>

NextChannel(w) ==
  call' = [call EXCEPT ![w].at = "try", ![w].rest = Tail(call[w].rest)]

\* The next channel of the chain; without one the text has failed.
Try(w) ==
  /\ call[w].at = "try"
  /\ IF call[w].rest = <<>> THEN call' = [call EXCEPT ![w] = NoText]
     ELSE IF Ready(Head(call[w].rest)) THEN call' = [call EXCEPT ![w].at = "post"]
     ELSE NextChannel(w)
  /\ UNCHANGED <<config, opted, taken, used, unheard, cut>>

Taken(c) == taken' = [taken EXCEPT ![c] = @ + 1]

\* Mutant: the chain is not ended by a success.
Post_GoesOn(w) ==
  /\ call[w].at = "post"
  /\ Taken(Head(call[w].rest))
  /\ call' = [call EXCEPT ![w].at = "try", ![w].rest = Tail(@), ![w].copies = @ + 1]
  /\ UNCHANGED <<config, opted, used, unheard, cut>>

\* The request to the provider: taken, refused, or taken and never heard of.
Post(w) ==
  /\ call[w].at = "post"
  /\ \/ /\ Taken(Head(call[w].rest))
        /\ call' = [call EXCEPT ![w].at = "count", ![w].copies = @ + 1]
        /\ UNCHANGED unheard
     \/ /\ Taken(Head(call[w].rest))
        /\ unheard' = [unheard EXCEPT ![Head(call[w].rest)] = @ + 1]
        /\ call' = [call EXCEPT ![w].at = "try", ![w].rest = Tail(@),
                                ![w].copies = @ + 1, ![w].lost = @ + 1]
     \/ NextChannel(w) /\ UNCHANGED <<taken, unheard>>
  /\ UNCHANGED <<config, opted, used, cut>>

\* Mutant: the text is counted for the channel the chain begins with.
Count_First(w) ==
  /\ call[w].at = "count"
  /\ used' = [used EXCEPT ![Head(Chain)] = @ + 1]
  /\ call' = [call EXCEPT ![w] = NoText]
  /\ UNCHANGED <<config, opted, taken, unheard, cut>>

\* MeteringMessagingProvider counts the channel that has taken the text.
CountText(w) ==
  /\ call[w].at = "count"
  /\ used' = [used EXCEPT ![Head(call[w].rest)] = @ + 1]
  /\ call' = [call EXCEPT ![w] = NoText]
  /\ UNCHANGED <<config, opted, taken, unheard, cut>>

\* telegram_webhook: somebody shares a contact card with this number; only the
\* sender's own card is taken.
ShareCard ==
  /\ \E own \in BOOLEAN : opted' = (opted \/ own)
  /\ UNCHANGED <<config, call, taken, used, unheard, cut>>

Cut(w) ==
  /\ call[w].at # "idle" /\ Total(cut) < CutBound
  /\ cut' = IF call[w].at = "count" THEN [cut EXCEPT ![Head(call[w].rest)] = @ + 1] ELSE cut
  /\ call' = [call EXCEPT ![w] = NoText]
  /\ UNCHANGED <<config, opted, taken, used, unheard>>

CNext ==
  \/ \E w \in Sender : SendText(w) \/ Try(w) \/ Post(w) \/ CountText(w) \/ Cut(w)
  \/ ShareCard

CSpec == CInit /\ [][CNext]_cvars
-----------------------------------------------------------------------------
CTypeOK ==
  /\ config \in Settings /\ opted \in BOOLEAN
  /\ \A w \in Sender : call[w].at \in {"idle", "try", "post", "count"}
  /\ {taken, used, unheard, cut} \subseteq [Channel -> Nat]

Counting(c) == {w \in Sender : call[w].at = "count" /\ Head(call[w].rest) = c}

\* MeteringMessagingProvider counts "the channel a message has really gone by":
\* the counters and the channels differ by the texts whose answer was lost, that
\* an instance was stopped over or that are about to be counted, each in the
\* channel that has taken it.
UsageTellsChannels ==
  \A c \in Channel :
    taken[c] = used[c] + unheard[c] + cut[c] + Cardinality(Counting(c))

\* ChainedMessagingProvider: the number gets another copy of a text only after
\* an answer was lost, and a text whose channel is known went by that one last.
CopiesOnlyUnheard ==
  \A w \in Sender :
    call[w].copies = call[w].lost + (IF call[w].at = "count" THEN 1 ELSE 0)
=============================================================================
