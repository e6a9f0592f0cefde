---------------------------- MODULE MCWebServer ----------------------------
(* Model values for module WebServer: policies waits for the core registry,  *)
(* the other key for the settings; it has an object that is overruled.       *)
EXTENDS WebServer

CONSTANTS policies_rpc, set_rpc, overruled_rpc, policies, settings, c1

MCKeyOf ==
    [o \in Object |-> IF o = policies_rpc THEN policies ELSE settings]

MCInner == [k \in Key |-> IF k = policies THEN "core" ELSE "settings"]

Api(key, readable, keep_alive) ==
    [api |-> TRUE, supported |-> TRUE, key |-> key, readable |-> readable,
     keep_alive |-> keep_alive]

MCRequests ==
    { Api(policies, TRUE, TRUE), Api(settings, TRUE, TRUE), Api(settings, FALSE, FALSE),
      [Api(settings, TRUE, TRUE) EXCEPT !.supported = FALSE],
      [Api(settings, TRUE, TRUE) EXCEPT !.api = FALSE] }
=============================================================================
