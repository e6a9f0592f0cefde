----------------------------- MODULE MCDiscovery -----------------------------
(* Model values for module Discovery: an inverter seen over IPv4 and over    *)
(* IPv6, and the program's own web page.                                     *)
EXTENDS Discovery, TLC

CONSTANTS inverter4, inverter6, page, sma, p1faker, a1, a2

MCNameOf == [k \in {inverter4, inverter6, page} |-> IF k = page THEN p1faker ELSE sma]

\* Neither the addresses nor the inverter's two keys are told apart.
MCSymmetry == Permutations({a1, a2}) \cup Permutations({inverter4, inverter6})
=============================================================================
