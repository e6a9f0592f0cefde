--------------------------- MODULE MCControlLoop ---------------------------
(* Model values for module ControlLoop.  The unit is one ampere, one phase. *)
EXTENDS ControlLoop, TLC

\* Two generic policies: one that takes from the grid (orange), one that waits
\* for the sun (green), with a battery that must keep 10 %.
MCGen ==
    LET shared == [battery_min_state |-> 10, battery_max_power |-> 6,
                   inverter_max_power |-> 12]
    IN  1 :> (shared @@ [max_grid_power |-> 9, min_solar_power |-> 0])
     @@ 2 :> (shared @@ [max_grid_power |-> 0, min_solar_power |-> 6])

\* A sunny, balanced moment, and a cloudy one with nearly all load on one phase
\* and the battery empty but giving.
MCReadings ==
    { [battery_state |-> 80, inverter_output |-> 8, battery_output |-> -2,
       grid_output |-> -3, peak |-> -1],
      [battery_state |-> 5, inverter_output |-> 3, battery_output |-> 2,
       grid_output |-> 7, peak |-> 6] }

\* All four reads succeed, the connection drops after the first one, or is down.
MCSuccesses == { {"grid", "state", "inverter", "battery"}, {"grid"}, {} }

MCInitialSettings ==
    [active_policy |-> 0, max_current |-> 8, next_policy |-> 2, next_time |-> 0]

\* One setting from the page, a schedule (the page sends its two settings apart),
\* the cached object with a policy made active as the page's activatePolicy sends
\* it, and an index no policy has.
MCRequests ==
    { [max_current |-> 5],
      [next_policy |-> 1, next_time |-> 1],
      [active_policy |-> 2, max_current |-> 8, next_policy |-> 2, next_time |-> 2],
      [active_policy |-> 9] }
=============================================================================
