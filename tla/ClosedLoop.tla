------------------------------ MODULE ClosedLoop ------------------------------
(***************************************************************************)
(* The policies in a closed loop with the simulator (src/simulator.cpp), a *)
(* plant of house, sun, battery and car that is producer and consumer: a   *)
(* pass polls it, applies the active policy and has it handle the budget,  *)
(* and the next poll measures what the new charging power did.             *)
(*                                                                         *)
(* The unit is one watt.  A current stands for its power at nominal        *)
(* voltage, so that the numbers of module Policies are watts here.  The    *)
(* simulator computes in int: divisions truncate, and the double that      *)
(* handle() converts may fall just short of the whole number it stands for.*)
(***************************************************************************)
EXTENDS Policies, FiniteSetsExt, Sequences

CONSTANTS
    Gen,            \* index of a generic policy |-> the settings it reads
    MaxCurrent,     \* settings parameter max_current
    Inputs,         \* objects POSTed to /api/simulator/input
    InitialInput,   \* simulator::state::input when the loop starts
    MaxChanges      \* bound on the changes made from outside

VARIABLES
    pc,             \* next step of the pass
    i,              \* m_state.i, what the page sets
    car_power,      \* m_state.o, what the plant answers
    battery_output,
    sit,            \* main()'s situation
    budget,         \* main()'s b, times PhaseCount
    active_policy,
    changes,        \* number of changes made from outside so far
    calm            \* history: nothing changed since the last poll

vars == <<pc, i, car_power, battery_output, sit, budget, active_policy, changes, calm>>

Red == 0
Phase == 1..PhaseCount
PolicyIndices == {Red} \cup DOMAIN Gen

Input == [car_min_power: Nat, car_max_power: Nat, inverter_max_power: Nat,
          battery_max_power: Nat, battery_state: 0..100, solar_power: Nat,
          house_power: Seq(Int)]

ASSUME ClosedLoopAssumption ==
    /\ Gen \in [DOMAIN Gen -> GenParams] /\ DOMAIN Gen \subseteq Nat \ {Red}
    /\ MaxCurrent \in Nat /\ MaxChanges \in Nat
    /\ Inputs \subseteq Input /\ InitialInput \in Input

TypeOK ==
    /\ pc \in {"poll", "apply", "handle"}
    /\ i \in Input
    /\ car_power \in Nat /\ battery_output \in Int
    /\ sit \in Situation /\ budget \in Int
    /\ active_policy \in PolicyIndices
    /\ changes \in 0..MaxChanges /\ calm \in BOOLEAN

Init ==
    /\ pc = "poll"
    /\ i = InitialInput
    /\ car_power = 0 /\ battery_output = 0
    /\ sit = [battery_state |-> 100, inverter_output |-> 0, battery_output |-> 0,
              grid_output |-> 0, peak |-> 0]
    /\ budget = 0 /\ active_policy = Red
    /\ changes = 0 /\ calm = FALSE

-----------------------------------------------------------------------------
(* The plant.                                                              *)

\* Division of two ints in C++ truncates toward zero.
Quotient(n, d) == IF n >= 0 THEN n \div d ELSE -((-n) \div d)

\* std::accumulate.
Total(f) ==
    LET sum[n \in 0..PhaseCount] == IF n = 0 THEN 0 ELSE sum[n - 1] + f[n]
    IN  sum[PhaseCount]

Peak(f)  == Max({f[p] : p \in Phase})

\* house_power.resize(): phases the page did not name draw nothing.
House == [p \in Phase |-> IF p <= Len(i.house_power) THEN i.house_power[p] ELSE 0]

\* The grid before the battery answers.
Load == [p \in Phase |-> House[p] + Quotient(car_power - i.solar_power, PhaseCount)]

\* The battery takes what is left over and gives what is missing, within limits.
Battery(total) ==
    IF i.battery_state <= 99 /\ total < 0 THEN Greater(total, -i.battery_max_power)
    ELSE IF i.battery_state >= 1 /\ total > 0
         THEN Lesser(total, Lesser(i.battery_max_power,
                                   i.inverter_max_power - i.solar_power))
         ELSE 0

Measured(battery) ==
    LET grid == [p \in Phase |-> Load[p] - Quotient(battery, PhaseCount)]
    IN  [battery_state   |-> i.battery_state,
         inverter_output |-> battery + i.solar_power,
         battery_output  |-> battery,
         grid_output     |-> Total(grid),
         peak            |-> Peak(grid)]

\* What int() makes of a double that stands for x.
Truncated(x) == {x, IF x > 0 THEN x - 1 ELSE IF x < 0 THEN x + 1 ELSE 0}

\* Variant: the budget is taken for the whole charging power.
Absolute(delta) == delta

\* The budget is what the car may draw more, or must draw less, than it does.
Requested(delta) == car_power + delta

\* Variant: a car that cannot have its minimum goes on with less.
Throttled(p) == Lesser(p, i.car_max_power)

\* A car charges between its two limits or not at all.
Charging(p) ==
    LET capped == Lesser(p, i.car_max_power)
    IN  IF capped < i.car_min_power THEN 0 ELSE capped

-----------------------------------------------------------------------------
(* A pass of the loop.                                                     *)

Poll ==
    /\ pc = "poll"
    /\ battery_output' = Battery(Total(Load))
    /\ sit' = Measured(battery_output')
    /\ calm' = TRUE
    /\ pc' = "apply"
    /\ UNCHANGED <<i, car_power, budget, active_policy, changes>>

Apply ==
    /\ pc = "apply"
    /\ budget' = IF active_policy = Red
                 THEN RedBudget(MaxCurrent, sit)
                 ELSE GenBudget(Gen[active_policy], MaxCurrent, sit)
    /\ pc' = "handle"
    /\ UNCHANGED <<i, car_power, battery_output, sit, active_policy, changes, calm>>

Handle ==
    /\ pc = "handle"
    /\ \E delta \in Truncated(budget) : car_power' = Charging(Requested(delta))
    /\ pc' = "poll"
    /\ UNCHANGED <<i, battery_output, sit, budget, active_policy, changes, calm>>

Pass == Poll \/ Apply \/ Handle

-----------------------------------------------------------------------------
(* The web thread, between any two steps of a pass.                        *)

PostInput ==
    /\ changes < MaxChanges
    /\ i' \in Inputs
    /\ changes' = changes + 1 /\ calm' = FALSE
    /\ UNCHANGED <<pc, car_power, battery_output, sit, budget, active_policy>>

PostPolicy ==
    /\ changes < MaxChanges
    /\ active_policy' \in PolicyIndices
    /\ changes' = changes + 1 /\ calm' = FALSE
    /\ UNCHANGED <<pc, i, car_power, battery_output, sit, budget>>

Next == Pass \/ PostInput \/ PostPolicy

\* The loop goes on; nobody has to change anything.
Spec == Init /\ [][Next]_vars /\ WF_vars(Pass)

-----------------------------------------------------------------------------
(* Properties.                                                             *)

\* Truncating divisions put each of them off by less than one watt per phase.
Slack == 2 * PhaseCount

\* The loop converges: once house, sun and policy stay as they are, the car
\* ends up charging at one power but for a ripple of rounding; it does not swing
\* between its minimum and nothing, or with the battery (simulator.cpp:93-97
\* closing the loop over policies.cpp:45-67).
Settles == <>[][Greater(car_power', car_power) - Lesser(car_power', car_power) <= Slack]_vars

\* Unless something is changed in the middle of it, a pass after which the car
\* charges leaves no phase overloaded by more than what truncating takes away, as
\* long as the battery goes on as it was measured (policies.cpp:22-28,62-63,
\* simulator.cpp:93-97).
PassKeepsBreaker ==
    [][pc = "handle" /\ calm /\ pc' = "poll" /\ car_power' > 0
         => \A p \in Phase :
               Load'[p] - Quotient(battery_output, PhaseCount) <= MaxCurrent + 1]_vars

\* In the end the car is not what overloads a phase, however unbalanced the
\* house is and whatever the battery does meanwhile (policies.cpp:62-63).
BreakerKept ==
    <>[](pc = "apply" /\ car_power > 0 => sit.peak <= MaxCurrent + Slack)

\* In the end a car that charges under a generic policy takes no more than
\* max_grid_power from the grid: the promise of the orange policy that keeps
\* quarter-hour peaks down (policies.cpp:80-88).
GridLimitKept ==
    <>[](pc = "apply" /\ car_power > 0 /\ active_policy \in DOMAIN Gen
           => sit.grid_output <= Gen[active_policy].max_grid_power + Slack)

\* Below battery_min_state a generic policy makes the battery give no more than
\* it gives: "battery may keep on giving whatever it is giving, but not more"
\* (policies.cpp:53).
BatterySpared ==
    [][pc = "poll" /\ calm /\ pc' = "apply" /\ active_policy \in DOMAIN Gen
         /\ i.battery_state < Gen[active_policy].battery_min_state
         => battery_output' <= Greater(battery_output, 0)]_vars
=============================================================================
