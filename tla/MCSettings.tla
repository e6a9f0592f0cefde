----------------------------- MODULE MCSettings -----------------------------
(* Model values for module Settings: an integer and a double parameter.     *)
EXTENDS Settings

MCNames == {"active_policy", "max_current"}
MCAllNames == MCNames \cup {"obsolete", "typo"}
MCJson == {"0", "1", "1.5", "text"}

\* json::get<int>() truncates a fraction; neither type takes a string.
MCParse ==
    [p \in MCNames \X MCJson |->
        IF p[2] = "text" THEN Throws
        ELSE IF p = <<"active_policy", "1.5">> THEN "1" ELSE p[2]]

MCDefault == [active_policy |-> "0", max_current |-> "0"]

\* The whole object, a fraction for the integer, a value of the wrong type
\* beside a good one, and names without a parameter, on file and posted.
MCRequests ==
    { [active_policy |-> "1", max_current |-> "1"],
      [active_policy |-> "1.5"],
      [active_policy |-> "text", max_current |-> "1.5"],
      [obsolete |-> "1", typo |-> "0"] }

MCStartFiles ==
    { NoFile, Garbage,
      [active_policy |-> "1", max_current |-> "1.5"],
      [active_policy |-> "text", obsolete |-> "0"] }
=============================================================================
