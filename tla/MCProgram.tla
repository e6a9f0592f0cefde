------------------------------ MODULE MCProgram ------------------------------
(* Model values for module Program.  One parameter of each type, the number  *)
(* max_current as p1out's parameter and as the temporary red's default comes *)
(* from.  With the last two configurations the program waits for itself.     *)
EXTENDS Program

CONSTANTS verb, sysl, charger, red, file, ival, tty, t1, t2

MCParam == {verb, sysl, charger, red, file, ival}
MCNames == {"verbosity", "use_syslog", "max_current", "p1out.file", "interval"}
MCNameOf == [p \in MCParam |->
    CASE p = verb -> "verbosity" [] p = sysl -> "use_syslog" [] p = file -> "p1out.file"
      [] p = ival -> "interval" [] OTHER -> "max_current"]
MCDefault == [p \in MCParam |->
    CASE p = verb -> 3 [] p = file -> NoFile [] p = ival -> 1 [] OTHER -> 0]
MCText == {"debug", "junk", "1", "2", ""}

\* verbosity's parser throws at what it does not know; numbers become 0 when
\* there is none and stay unset when there is nothing at all.
MCNumbers(text) == CASE text = "1" -> {1} [] text = "2" -> {2} [] text = "" -> {0, 1, 2} [] OTHER -> {0}
MCParses == [x \in MCParam \X MCText |->
    CASE x[1] = verb -> IF x[2] = "debug" THEN {4} ELSE {}
      [] x[1] = sysl -> IF x[2] = "" THEN {0, 1} ELSE IF x[2] \in {"1", "2"} THEN {1} ELSE {0}
      [] x[1] = file -> IF x[2] = "" THEN {NoFile} ELSE {tty}
      [] OTHER -> MCNumbers(x[2])]

MCStatics == <<Construct(charger), Construct(file), Log("info"),
               Construct(red), Copy(red), Destroy(red)>>

MCEnv(f) == [n \in MCNames |-> IF n \in DOMAIN f THEN f[n] ELSE Unset]
Configured(env, etc, cwd, args) ==
    [environment |-> MCEnv(env), etc |-> etc, cwd |-> cwd, arguments |-> args]
MCConfigurations == {
    Configured(<<>>, <<>>, <<>>, <<>>),
    Configured([max_current |-> "1", use_syslog |-> "junk"],
               <<<<"use_syslog", "">>, <<"verbosity", "debug">>, <<"max_current", "2">>>>,
               <<<<"max_current", "junk">>, <<"verbosity", "junk">>>>,
               <<<<"p1out.file", "1">>>>),
    Configured([max_current |-> "1", use_syslog |-> "1"], <<<<"p1out.file", "">>>>,
               <<<<"p1out.file", "2">>>>, <<<<"max_current", "2">>, <<"interval", "junk">>>>),
    Configured([interval |-> "2"], <<>>, <<<<"interval", "">>>>,
               <<<<"max_current", "1">>, <<"verbosity", "debug">>, BadArgument>>),
    Configured([verbosity |-> "debug"], <<>>, <<<<"max_current", "1">>>>, <<>>),
    Configured([verbosity |-> "junk", max_current |-> "1"], <<>>, <<>>, <<>>)}
MCClockSteps == {-1, 1}
MCMainParams == <<ival>>
=============================================================================
