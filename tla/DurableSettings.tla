--------------------------- MODULE DurableSettings ---------------------------
(***************************************************************************)
(* What src/settings.cpp promises of the settings a user changes: a POST   *)
(* takes effect as a whole or, when the process dies on the way, not at    *)
(* all; it survives a restart unless the file could not be opened; and a   *)
(* restart brings back exactly what was last made durable.                 *)
(***************************************************************************)
CONSTANTS
    Names,          \* settings some settings::param subscribes to
    Json,           \* JSON values
    Throws,         \* what parsing a value of the wrong type does
    Parse,          \* [Names \X Json -> live value or Throws], json::get<T>()
    Default,        \* [Names -> Json], the configured defaults
    Requests        \* objects given to settings::apply

VARIABLES
    current,        \* what GET /settings would answer
    durable,        \* what a restart would bring back
    known           \* settings whose param has been constructed

durableVars == <<current, durable, known>>

Accepted(r) == {n \in DOMAIN r \cap known : Parse[<<n, r[n]>>] # Throws}

Updated(m, r) == [n \in Names |-> IF n \in Accepted(r) THEN r[n] ELSE m[n]]

Init ==
    /\ durable \in [Names -> Json] /\ current = durable
    /\ known = {}

Register ==
    /\ \E n \in Names \ known : known' = known \cup {n}
    /\ UNCHANGED <<current, durable>>

Apply ==
    /\ \E r \in Requests : current' = Updated(current, r)
    /\ durable' \in {durable, current'}
    /\ UNCHANGED known

Restart ==
    /\ current' = durable /\ known' = {}
    /\ UNCHANGED durable

Next == Register \/ Apply \/ Restart

Spec == Init /\ [][Next]_durableVars
=============================================================================
