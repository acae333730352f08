----------------------------- MODULE RateLimits -----------------------------
(***************************************************************************)
(* common/ratelimit.py: one counter of a client, in windows of fixed       *)
(* length, as the tracking pages (tracking/views.py) use it, which count   *)
(* first, and sign-in and sign-up (accounts/lockout.py, accounts/views.py) *)
(* which look first, act, and count afterwards.  Every statement commits   *)
(* for itself, and a request keeps the time it has read.                   *)
(***************************************************************************)
EXTENDS Naturals, FiniteSets

CONSTANTS
  Request,     \* threads that answer requests of the client
  Limit,
  LastWindow,  \* last window (a bound)
  CountBound   \* no request begins when the counter is there (a bound)

ASSUME LimitConstants ==
  /\ IsFiniteSet(Request) /\ Request # {}
  /\ Limit \in Nat \ {0} /\ LastWindow \in Nat /\ CountBound \in Nat

VARIABLES
  use,      \* "page": count, then serve; "sign": look, act, then count
  window,   \* the one the clock is in
  count,    \* RateLimitCounter.count per window; 0: no row
  line, at, \* per thread: next statement, window it has read off the clock
  let       \* requests let through, per window they were let through for

lvars == <<use, window, count, line, at, let>>

-----------------------------------------------------------------------------
Window == 0 .. LastWindow
Lines == {"idle", "look", "act", "count", "add", "sweep", "refresh"}

LInit ==
  /\ use \in {"page", "sign"}
  /\ window = 0
  /\ count = [k \in Window |-> 0]
  /\ line = [r \in Request |-> "idle"]
  /\ at = [r \in Request |-> 0]
  /\ let = [k \in Window |-> 0]

Jump(r, to) == line' = [line EXCEPT ![r] = to]
ReadClock(r) == at' = [at EXCEPT ![r] = window]
LetThrough(r) == let' = [let EXCEPT ![at[r]] = @ + 1]

\* rate_limited, or LockoutBackend.authenticate and RegisterView.post; the
\* client is the one client_ip names, or the account.
Arrive(r) ==
  /\ line[r] = "idle" /\ count[window] < CountBound
  /\ ReadClock(r)
  /\ Jump(r, IF use = "page" THEN "count" ELSE "look")
  /\ UNCHANGED <<use, window, count, let>>

\* exceeded
Exceeded(k) == count[k] >= Limit

\* is_locked, _signup_limit_reached: refused, or allowed to go on.
Look(r) ==
  /\ line[r] = "look"
  /\ Jump(r, IF Exceeded(at[r]) THEN "idle" ELSE "act")
  /\ UNCHANGED <<use, window, count, at, let>>

\* A wrong password is found out, or an account is made, and hit reads the
\* clock; a right password or an invalid form is not counted.
Act(r) ==
  /\ line[r] = "act"
  /\ \/ LetThrough(r) /\ ReadClock(r) /\ Jump(r, "count")
     \/ Jump(r, "idle") /\ UNCHANGED <<at, let>>
  /\ UNCHANGED <<use, window, count>>

\* hit: get_or_create.  A row it makes is seen with its first increment...
Count(r) ==
  /\ line[r] = "count"
  /\ IF count[at[r]] = 0
     THEN count' = [count EXCEPT ![at[r]] = 1] /\ Jump(r, "sweep")
     ELSE Jump(r, "add") /\ UNCHANGED count
  /\ UNCHANGED <<use, window, at, let>>

\* ... one it finds is incremented if it is still there.
Add(r) ==
  /\ line[r] = "add"
  /\ count' = [count EXCEPT ![at[r]] = IF @ = 0 THEN 0 ELSE @ + 1]
  /\ Jump(r, "refresh")
  /\ UNCHANGED <<use, window, at, let>>

\* Mutant: the row that was just made goes with the old ones.
Sweep_Own(r) ==
  /\ line[r] = "sweep"
  /\ count' = [k \in Window |-> IF k <= at[r] THEN 0 ELSE count[k]]
  /\ Jump(r, "refresh")
  /\ UNCHANGED <<use, window, at, let>>

\* The first request of a window removes the rows that have expired.
Sweep(r) ==
  /\ line[r] = "sweep"
  /\ count' = [k \in Window |-> IF k < at[r] THEN 0 ELSE count[k]]
  /\ Jump(r, "refresh")
  /\ UNCHANGED <<use, window, at, let>>

\* The count as it is by now; without a row the request fails (DoesNotExist).
Refresh(r) ==
  /\ line[r] = "refresh"
  /\ IF use = "page" /\ count[at[r]] \in 1 .. Limit THEN LetThrough(r) ELSE UNCHANGED let
  /\ Jump(r, "idle")
  /\ UNCHANGED <<use, window, count, at>>

NextWindow ==
  /\ window < LastWindow /\ window' = window + 1
  /\ UNCHANGED <<use, count, line, at, let>>

LNext ==
  \/ \E r \in Request :
       \/ Arrive(r) \/ Look(r) \/ Act(r)
       \/ Count(r) \/ Add(r) \/ Sweep(r) \/ Refresh(r)
  \/ NextWindow

LSpec == LInit /\ [][LNext]_lvars
-----------------------------------------------------------------------------
LTypeOK ==
  /\ use \in {"page", "sign"}
  /\ window \in Window
  /\ count \in [Window -> Nat]
  /\ line \in [Request -> Lines]
  /\ at \in [Request -> Window]
  /\ let \in [Window -> Nat]

Others == Cardinality(Request) - 1

\* hit, exceeded: pages are limited exactly while their window lasts; those that
\* look first get past the limit by the threads that look together, less one.
\* A window that is over can be swept and counted anew by the requests that had
\* read the clock before it ended, never by more.
LimitHolds ==
  \A k \in Window :
    let[k] <= Limit + (IF use = "sign" THEN Others ELSE 0)
                    + (IF k < window THEN Others ELSE 0)
=============================================================================
