----------------------------- MODULE MCRequests -----------------------------
(* Small instances of what the requests about deliveries do: ApiCreate,    *)
(* DeliveryRequests, Board (which composes DeliveryRequests) and           *)
(* RatingRequest.  They share no other state, so that a behaviour          *)
(* exercises one of them and leaves the others as they are.                *)
EXTENDS ApiCreate, Board, RatingRequest, TLC

VARIABLE part   \* "create", "pages", "board" or "rating"

MCInstant == {600, 750, 1350, 1950}
MCArrival == {700, 1310}

MCInit ==
  /\ Init /\ BInit /\ RInit
  /\ part \in {"create", "pages", "board", "rating"}
  /\ part # "create" => ActiveKeys = {}
  /\ part # "pages" => origin = (part = "board")
  /\ part # "rating" => eta = 700 /\ tasks = {}

\* The board's part of the run: the clock stands still, no "edit" page is open and
\* there is one arrival time.  None of them moves a card.
BoardNext == BNext /\ UNCHANGED <<now, form>> /\ delivery'.eta \in {Nothing, Travel}

MCNext ==
  \/ part = "create" /\ Next  /\ UNCHANGED <<part, bvars, rvars>>
  \/ part = "pages"  /\ DNext /\ UNCHANGED <<part, board, vars, rvars>>
  \/ part = "board"  /\ BoardNext /\ UNCHANGED <<part, vars, rvars>>
  \/ part = "rating" /\ RNext /\ UNCHANGED <<part, vars, bvars>>

\* The fairness of Board and of RatingRequest, each for its part.
MCFairness ==
  /\ WF_bvars(part = "board" /\ Loads /\ UNCHANGED <<part, dvars, vars, rvars>>)
  /\ WF_rvars(part = "rating" /\ Tick /\ UNCHANGED <<part, vars, bvars>>)
  /\ WF_rvars(part = "rating" /\ UNCHANGED <<part, vars, bvars>>
              /\ \E w \in Thread : Callback(w))
  /\ \A w \in Thread :
       WF_rvars(part = "rating" /\ UNCHANGED <<part, vars, bvars>>
                /\ (Answering(w) \/ TellRating(w)))

MCSpec == MCInit /\ [][MCNext]_<<part, vars, bvars, rvars>> /\ MCFairness
=============================================================================
