------------------------------ MODULE Policies ------------------------------
(***************************************************************************)
(* The arithmetic of the charging policies (src/policies.cpp) on the       *)
(* situation the producers measured (src/core.h).                          *)
(*                                                                         *)
(* Units.  The code computes in volts, amperes and watts as doubles.  At a *)
(* nominal grid voltage all of them are multiples of one ampere on one     *)
(* phase, and that is the unit of every number here.  A budget is the      *)
(* code's per-phase current budget times the number of phases, which keeps *)
(* the quotient power_budget / voltage / phases an integer.                *)
(*                                                                         *)
(* A situation keeps of the phases what the policies read: their sum       *)
(* (grid_output) and the most loaded one (peak).                           *)
(***************************************************************************)
EXTENDS Integers

CONSTANT PhaseCount     \* config parameter "phases"

ASSUME PhaseCountAssumption == PhaseCount \in Nat \ {0}

Situation == [battery_state: Int, inverter_output: Int, battery_output: Int,
              grid_output: Int, peak: Int]

\* The settings a generic policy reads, its own two and the three shared ones.
GenParams == [max_grid_power: Int, min_solar_power: Int, battery_min_state: Int,
              battery_max_power: Int, inverter_max_power: Int]

Lesser(x, y)  == IF x <= y THEN x ELSE y
Greater(x, y) == IF x >= y THEN x ELSE y

solar_output(sit) == sit.inverter_output - sit.battery_output
consumption(sit)  == sit.inverter_output + sit.grid_output

\* The red policy: what the most loaded phase leaves below the limit.
RedBudget(max_current, sit) == PhaseCount * (max_current - sit.peak)

\* Variant: the battery is counted on whatever its state of charge.
BatteryAlways(g, sit) == Lesser(solar_output(sit) + g.battery_max_power, g.inverter_max_power)

\* What the inverter may be asked for: the sun, and the battery as far as its
\* state of charge allows.
InverterBudget(g, sit) ==
    Lesser(solar_output(sit) +
             (IF sit.battery_state >= g.battery_min_state
              THEN g.battery_max_power
              ELSE Greater(sit.battery_output, 0)),
           g.inverter_max_power)

PowerBudget(g, sit) ==
      g.max_grid_power
    + (IF solar_output(sit) >= g.min_solar_power THEN InverterBudget(g, sit) ELSE 0)
    - consumption(sit)

\* Variant: the generic policy without the red policy's limit.
UncappedBudget(power, max_current, sit) == power

\* The red policy caps every generic one: an unbalanced load may leave less on
\* one phase than the total suggests.
CappedBudget(power, max_current, sit) ==
    Lesser(power, RedBudget(max_current, sit))

GenBudget(g, max_current, sit) ==
    CappedBudget(PowerBudget(g, sit), max_current, sit)
=============================================================================
