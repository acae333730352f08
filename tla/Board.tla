------------------------------- MODULE Board --------------------------------
(***************************************************************************)
(* A board of the shop (deliveries/views.py and the scripts of the two     *)
(* templates), open in a browser while the delivery changes: the page      *)
(* reads the rows, then the signature of the rows in a query of its own,   *)
(* and asks for the signature again and again to learn whether to reload.  *)
(***************************************************************************)
EXTENDS DeliveryRequests

VARIABLE board   \* what the page shows and remembers, and how far it is loaded

bvars == <<dvars, board>>

-----------------------------------------------------------------------------
\* The column of the delivery's card.
Column == [new |-> "novo", created |-> "spremno", on_the_way |-> "u_dostavi",
           delivered |-> "zavrseno"]
NoCard == "none"
Shown  == IF OnBoard THEN Column[delivery.status] ELSE NoCard

\* Mutant: only new and vanished orders change the signature.
Signature_Ids == IF OnBoard THEN "id" ELSE "none"

\* _deliveries_signature
Signature == IF OnBoard THEN delivery.status ELSE "none"

\* torn: history, the card moved between the two queries.
BInit ==
  /\ DInit
  /\ board = [at |-> "closed", card |-> NoCard, sig |-> "none", torn |-> FALSE]

\* The shop opens its board, or leaves it.
Open  == board.at = "closed" /\ board' = [board EXCEPT !.at = "load"]
Close == board.at = "open" /\ board' = [board EXCEPT !.at = "closed"]

\* DeliveryListView: the rows...
ReadRows ==
  board.at = "load" /\ board' = [board EXCEPT !.at = "rows", !.card = Shown]

\* ... and the signature the page comes with.
ReadSignature ==
  /\ board.at = "rows"
  /\ board' = [board EXCEPT !.at = "open", !.sig = Signature, !.torn = (board.card # Shown)]

\* The timer of the page asks DeliveryFeedView; another signature reloads.
Poll ==
  /\ board.at = "open" /\ Signature # board.sig
  /\ board' = [board EXCEPT !.at = "load"]

Loads == ReadRows \/ ReadSignature \/ Poll

BNext ==
  \/ DNext /\ UNCHANGED board
  \/ (Open \/ Close \/ Loads) /\ UNCHANGED dvars

\* A page that was begun is loaded, and the timer goes on: the board is looked at
\* again, with nobody typing, and an answer gets through.
BFairness == WF_bvars(Loads /\ UNCHANGED dvars)

BSpec == BInit /\ [][BNext]_bvars /\ BFairness
-----------------------------------------------------------------------------
BTypeOK ==
  board \in [at : {"closed", "load", "rows", "open"},
             card : {Column[s] : s \in Status} \cup {NoCard},
             sig : Status \cup {"none"}, torn : BOOLEAN]

\* DeliveryListView, DeliveryFeedView, the script of the board: what moves a card
\* while the board is open gets to the board, whatever pages, API calls, the
\* customer or the purge did, unless the shop leaves it.  A board whose two
\* queries were torn is not promised anything: it may show the old card under the
\* new signature.
BoardCatchesUp ==
  board.at = "open" /\ ~board.torn /\ board.card # Shown
    ~> board.card = Shown \/ board.at = "closed"
=============================================================================
