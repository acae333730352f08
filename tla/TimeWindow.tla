----------------------------- MODULE TimeWindow -----------------------------
(***************************************************************************)
(* common/timewindow.py: when a message that is not urgent may be sent.    *)
(* A moment is a number of minutes since some midnight in Belgrade; the    *)
(* days the clocks change are left out (24 hours each).                    *)
(***************************************************************************)
EXTENDS Integers

Day         == 24 * 60
WindowStart == 8 * 60
WindowEnd   == 22 * 60
RatingDelay == 30

TimeOfDay(t) == t % Day
InWindow(t)  == WindowStart <= TimeOfDay(t) /\ TimeOfDay(t) < WindowEnd

\* clamp_to_window
Clamp(t) ==
  CASE InWindow(t)                -> t
    [] TimeOfDay(t) < WindowStart -> t - TimeOfDay(t) + WindowStart
    [] TimeOfDay(t) >= WindowEnd  -> t - TimeOfDay(t) + Day + WindowStart

\* rating_send_time
SendTime(eta) == Clamp(eta + RatingDelay)
=============================================================================
