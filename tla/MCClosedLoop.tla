---------------------------- MODULE MCClosedLoop ----------------------------
(* Model values for module ClosedLoop.  Two phases; the watts are small.     *)
EXTENDS ClosedLoop, TLC

\* Orange takes from the grid, yellow does not, green waits for the sun.
MCGen ==
    LET shared == [battery_min_state |-> 10, battery_max_power |-> 25,
                   inverter_max_power |-> 40]
    IN  1 :> (shared @@ [max_grid_power |-> 29, min_solar_power |-> 0])
     @@ 2 :> (shared @@ [max_grid_power |-> 0, min_solar_power |-> 0])
     @@ 3 :> (shared @@ [max_grid_power |-> 0, min_solar_power |-> 25])

Plant(soc, solar, house) ==
    [car_min_power |-> 20, car_max_power |-> 53, inverter_max_power |-> 40,
     battery_max_power |-> 25, battery_state |-> soc, solar_power |-> solar,
     house_power |-> house]

MCInitialInput == Plant(50, 0, <<>>)

\* No sun and a battery that is empty, low, or may be used; sun on an
\* unbalanced house; more sun than the inverter carries, on a full battery; a
\* house that overloads one phase by itself; one phase only; a low battery
\* behind a house with one phase loaded and the other feeding in.
MCInputs ==
    { Plant(0, 0, <<8, 9>>),
      Plant(5, 13, <<5, 16>>),
      Plant(50, 0, <<13, 4>>),
      Plant(50, 37, <<24, -11>>),
      Plant(100, 47, <<8, 4>>),
      Plant(80, 17, <<44, 0>>),
      Plant(20, 33, <<29>>),
      Plant(9, 28, <<37, -31>>) }
=============================================================================
