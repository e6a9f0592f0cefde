------------------------- MODULE MCModbusConnection -------------------------
(* Model values for module ModbusConnection: an inverter with an IPv4 and an *)
(* IPv6 address, two quantities of one length and a longer one.              *)
EXTENDS ModbusConnection

CONSTANTS v4, v6, battery_state, inverter_power, grid

MCWords == [r \in {battery_state, inverter_power, grid} |-> IF r = grid THEN 18 ELSE 2]

\* Both addresses, one of them, none any more.
MCCandidates == { <<v4, v6>>, <<v6>>, <<>> }
=============================================================================
