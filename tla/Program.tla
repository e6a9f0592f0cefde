------------------------------- MODULE Program -------------------------------
(***************************************************************************)
(* The program from its first static object to its last: static            *)
(* initialisation with the configuration files, the command line, the      *)
(* passes of main()'s loop with the P1 output they feed and the pause      *)
(* between them (src/core.cpp), a signal, and the destructors.             *)
(*                                                                         *)
(* Composes Config and P1Out.  Producers and policies are in ControlLoop;  *)
(* here a pass only takes time and makes a telegram.  Time is counted in   *)
(* ticks; of the system clock only its distance to t0 matters.             *)
(***************************************************************************)
EXTENDS Config, P1Out

CONSTANTS
    Configurations, \* what files, environment and arguments may say
    Statics,        \* the objects constructed before main(), in their order
    MainParams,     \* the parameters main() constructs
    interval,       \* the one of them that paces the loop
    filename,       \* p1out.file
    BadArgument,    \* an argument that is no option, or an option without value
    MaxLate,        \* bound on how late a pass may end or start
    ClockSteps,     \* by how much the system clock may be set forward
    MaxClockSteps   \* bound on how often it is

VARIABLES
    given,          \* the configuration
    phase,          \* what main() is about to do
    arguments,      \* argv from here on
    signal,         \* SIGTERM or SIGINT is pending
    ahead,          \* t0 - system_clock::now()
    left,           \* of the timeout of sigtimedwait
    since,          \* history: ticks since the pass began, up to the interval
    delay,          \* history: ticks since sigtimedwait's time was over
    owed,           \* history: the delay with which this pass began
    steps           \* number of clock steps so far

clockVars == <<ahead, left, since, delay, owed, steps>>
mainVars == <<given, phase, arguments, signal>>
vars == <<mainVars, clockVars, configVars, p1Vars>>

Option == ParamName \X Text

ASSUME ProgramAssumption ==
    /\ interval \in Param /\ filename \in Param /\ ValuesOf(interval) \subseteq Int
    /\ BadArgument \notin Option
    /\ \A c \in Configurations :
          /\ c.environment \in [ParamName -> Text \cup {Unset}]
          /\ c.etc \in Seq(Option) /\ c.cwd \in Seq(Option)
          /\ c.arguments \in Seq(Option \cup {BadArgument})
    /\ MaxLate \in Nat /\ MaxClockSteps \in Nat /\ ClockSteps \subseteq Int

\* An object is constructed once, copied and destroyed only when it is there; the
\* logging constructs its own; what main() constructs stays until it returns.
ASSUME ObjectAssumption ==
    LET others == Param \ LogParams
        calls == UNION {{Construct(p), Copy(p), Destroy(p)} : p \in others}
    IN  /\ Statics \in Seq(calls \cup {Log(sev) : sev \in DOMAIN severity})
        /\ \A j, k \in DOMAIN Statics : Statics[j] = Statics[k] /\ Statics[j][1] \in {"construct", "destroy"} => j = k
        /\ \A p \in others, k \in DOMAIN Statics : Statics[k] \in {Copy(p), Destroy(p)} =>
              /\ \E j \in 1..k - 1 : Statics[j] = Construct(p)
              /\ \A j \in 1..k - 1 : Statics[j] # Destroy(p)
        /\ MainParams \in Seq(others)
        /\ \A j, k \in DOMAIN MainParams : MainParams[j] = MainParams[k] => j = k
        /\ \A j \in DOMAIN MainParams, k \in DOMAIN Statics : Statics[k] # Construct(MainParams[j])
        /\ \E j \in DOMAIN MainParams : MainParams[j] = interval

Phases == {"static", "arguments", "main", "handle", "write", "pace", "sleep", "exit", "exited"}

TypeOK ==
    /\ ConfigTypeOK /\ P1TypeOK
    /\ given \in Configurations /\ phase \in Phases
    /\ signal \in BOOLEAN
    /\ ahead \in Int /\ left \in Nat /\ since \in Nat
    /\ delay \in Nat /\ owed \in Nat
    /\ steps \in 0..MaxClockSteps

\* config_file: a line is logged, then every option of the file is set.
File(options) ==
    <<Log("debug")>> \o [i \in DOMAIN options |-> Store(options[i][1], options[i][2])]

Init ==
    /\ given \in Configurations /\ environment = given.environment
    /\ ConfigInit /\ todo = File(given.etc) \o File(given.cwd) \o Statics
    /\ P1Init
    /\ phase = "static" /\ arguments = given.arguments
    /\ signal = FALSE
    /\ ahead = 0 /\ left = 0 /\ since = 0
    /\ delay = 0 /\ owed = 0 /\ steps = 0

-----------------------------------------------------------------------------
(* Start.                                                                  *)

Calls ==
    /\ ConfigStep
    /\ UNCHANGED <<mainVars, clockVars, p1Vars>>

Constructed ==
    /\ phase = "static" /\ todo = <<>>
    /\ phase' = "arguments"
    /\ UNCHANGED <<given, arguments, signal, clockVars, configVars, p1Vars>>

Argument ==
    /\ phase = "arguments" /\ todo = <<>> /\ arguments # <<>>
    /\ \/ /\ Head(arguments) # BadArgument
          /\ todo' = <<Store(Head(arguments)[1], Head(arguments)[2])>>
          /\ UNCHANGED phase
       \/ /\ Head(arguments) = BadArgument
          /\ todo' = <<>> /\ phase' = "exit"
    /\ arguments' = Tail(arguments)
    /\ UNCHANGED <<given, signal, clockVars, environment, registryVars, static,
                   lock_recurse, p1Vars>>

\* t0 is read once the arguments are processed.
Begin ==
    /\ phase = "arguments" /\ todo = <<>> /\ arguments = <<>>
    /\ todo' = [i \in DOMAIN MainParams |-> Construct(MainParams[i])]
    /\ phase' = "main"
    /\ UNCHANGED <<given, arguments, signal, clockVars, environment, registryVars,
                   static, lock_recurse, p1Vars>>

FirstPass ==
    /\ phase = "main" /\ todo = <<>>
    /\ phase' = "handle"
    /\ UNCHANGED <<given, arguments, signal, clockVars, configVars, p1Vars>>

-----------------------------------------------------------------------------
(* The loop.                                                               *)

Interval == live[interval]

\* The P1 output's consumer, as far as reconnecting ...
Reconnect ==
    /\ phase = "handle"
    /\ \/ MustReconnect /\ reconnect(live[filename])
       \/ ~MustReconnect /\ UNCHANGED p1Vars
    /\ phase' = "write"
    /\ UNCHANGED <<given, arguments, signal, clockVars, configVars>>

\* ... and the rest of it.
Write ==
    /\ phase = "write"
    /\ \E telegram \in Telegram : handle(telegram)
    /\ phase' = "pace"
    /\ UNCHANGED <<given, arguments, signal, clockVars, configVars>>

\* Variant: a late pass does not put off those that follow.
CatchUp(next) == next

\* t0 = max(t1, t0 + interval), as seen from t1.
NextTurn(next) == IF next > 0 THEN next ELSE 0

Pace ==
    /\ phase = "pace"
    /\ ahead' = NextTurn(ahead + Interval)
    /\ left' = IF ahead' > 0 THEN ahead' ELSE 0
    /\ phase' = "sleep" /\ delay' = 0
    /\ UNCHANGED <<given, arguments, signal, since, owed, steps, configVars, p1Vars>>

\* sigtimedwait times out: the next pass.
Wake ==
    /\ phase = "sleep" /\ left = 0 /\ ~signal
    /\ phase' = "handle"
    /\ since' = 0 /\ owed' = delay
    /\ UNCHANGED <<given, arguments, signal, ahead, left, delay, steps, configVars, p1Vars>>

\* Variant: the signal is looked at only when there is time left.
TakenInPause == signal /\ left > 0

Taken == signal

\* sigtimedwait returns the signal: main() returns.
Stop ==
    /\ phase = "sleep" /\ Taken
    /\ phase' = "exit" /\ signal' = FALSE
    /\ UNCHANGED <<given, arguments, clockVars, configVars, p1Vars>>

-----------------------------------------------------------------------------
(* The end.                                                                *)

\* ~consumer_impl closes the descriptor, then the parameters go, the last first.
\* ~param_base logs nothing, so it does not matter that the logging's two outlive
\* the parameter during whose construction they were made.
Close ==
    /\ phase = "exit" /\ todo = <<>> /\ m_fd # STDOUT_FILENO
    /\ reset
    /\ UNCHANGED <<mainVars, clockVars, configVars>>

DestroyLast ==
    /\ phase = "exit" /\ todo = <<>> /\ m_fd = STDOUT_FILENO /\ constructed # <<>>
    /\ todo' = <<Destroy(constructed[Len(constructed)])>>
    /\ UNCHANGED <<mainVars, clockVars, environment, registryVars, static,
                   lock_recurse, p1Vars>>

Exited ==
    /\ phase = "exit" /\ todo = <<>> /\ m_fd = STDOUT_FILENO /\ constructed = <<>>
    /\ phase' = "exited"
    /\ UNCHANGED <<given, arguments, signal, clockVars, configVars, p1Vars>>

-----------------------------------------------------------------------------
(* The world.                                                              *)

\* The signals are blocked from the first static object on: they stay pending.
Kill ==
    /\ ~signal /\ phase \notin {"exit", "exited"}
    /\ signal' = TRUE
    /\ UNCHANGED <<given, phase, arguments, clockVars, configVars, p1Vars>>

InLoop == phase \in {"handle", "write", "pace", "sleep"}

\* Time passes; a pass, and the way out of a pause, may take long.
Tick ==
    /\ InLoop /\ (left > 0 \/ ahead > 0 - MaxLate)
    /\ ahead' = ahead - 1
    /\ left' = IF left > 0 THEN left - 1 ELSE 0
    /\ since' = IF since < Interval THEN since + 1 ELSE since
    /\ delay' = IF phase = "sleep" /\ left = 0 THEN delay + 1 ELSE delay
    /\ UNCHANGED <<owed, steps, mainVars, configVars, p1Vars>>

\* The system clock is set.
ClockStep ==
    /\ InLoop /\ steps < MaxClockSteps
    /\ \E d \in ClockSteps : ahead' = ahead - d
    /\ steps' = steps + 1
    /\ UNCHANGED <<left, since, delay, owed, mainVars, configVars, p1Vars>>

Unplug ==
    /\ InLoop /\ DeviceChanges
    /\ UNCHANGED <<mainVars, clockVars, configVars>>

Main == \/ Calls \/ Constructed \/ Argument \/ Begin \/ FirstPass
        \/ Reconnect \/ Write \/ Pace \/ Wake \/ Stop
        \/ Close \/ DestroyLast \/ Exited

Next == Main \/ Kill \/ Tick \/ ClockStep \/ Unplug

\* The main thread goes on, time too; nobody has to send a signal.
Fairness == WF_vars(Main) /\ WF_vars(Tick)

Spec == Init /\ [][Next]_vars /\ Fairness

-----------------------------------------------------------------------------
(* Properties.                                                             *)

\* The environment sets verbosity.  Its parameter is then parsed as the first line
\* logged constructs it; that is logged too, one lock deep, and waits for the
\* construction it is part of (config.cpp:34, 107-109, logf.cpp:31).
WaitsForItself == given.environment[NameOf[verbosity]] # Unset

\* The program gets past its static initialisation and its arguments, although
\* the log line that says what a parameter was set to may need the parameter
\* (config.cpp:35-44, logf.cpp:30-37).  Proviso: no verbosity in the environment.
Starts == WaitsForItself \/ <>(InLoop \/ phase = "exit")

\* Where a list of options sets the parameters of a name, ...
Concerning(options, n) ==
    {k \in DOMAIN options : options[k] # BadArgument /\ options[k][1] = n}

\* ... and the text it sets them to in the end.
LastOf(options, n) ==
    IF Concerning(options, n) = {} THEN Unset ELSE options[Max(Concerning(options, n))][2]

\* What p should be after these options: the last one counts, then the
\* environment, then the default.  A text the parser throws at leaves what was
\* there, whatever that is.
Proper(p, text, env) ==
    IF text # Unset
    THEN IF Parses[<<p, text>>] = {} THEN ValuesOf(p) ELSE Parses[<<p, text>>]
    ELSE IF env # Unset /\ Parses[<<p, env>>] # {} THEN Parses[<<p, env>>] ELSE {Default[p]}

Rightful(p, options) ==
    Proper(p, LastOf(options, NameOf[p]), given.environment[NameOf[p]])

\* In the loop every parameter has the value that was given last, whether it
\* was constructed before or after, the command line counting over p1faker.conf,
\* /etc/p1faker.conf and the environment ("Usage: p1faker [--option value]*",
\* core.cpp:112-119).  What was copied earlier has that of the files.
Precedence ==
    InLoop =>
        /\ \A p \in DOMAIN live : live[p] \in Rightful(p, given.etc \o given.cwd \o given.arguments)
        /\ \A p \in DOMAIN copied : copied[p] \in Rightful(p, given.etc \o given.cwd)

\* However often the device fails and comes back, the descriptor in use is the
\* only one open, and none is at the end (p1out.cpp:79-112).
NoLeak == DOMAIN descriptors = {m_fd} \ {STDOUT_FILENO}

\* Between passes either the charger got the telegram the page shows, the last
\* one, or the next pass will reconnect: no loss goes unnoticed
\* (p1out.cpp:122-140).
LossNoticed ==
    phase = "sleep" /\ live[filename] # NoFile
        => received = m_p1cache \/ m_connect_errno \/ m_write_errno

\* From some time on after the device works for good, every pass ends with a
\* telegram the device got whole.
Recovers ==
    <>[](InLoop /\ live[filename] # NoFile /\ device = "good")
        => <>[](phase = "sleep" => m_fd # STDOUT_FILENO /\ received = m_p1cache)

\* Passes do not bunch: unless the clock is set, a pass begins an interval after
\* the one before, less the delay with which the thread itself woke up for that
\* one: time lost in a pass is not made up for (core.cpp:143-149).
NoBurst ==
    [][phase = "sleep" /\ phase' = "handle" /\ steps = 0 => since + owed >= Interval]_vars

\* A signal, whenever it comes, leads to the end of the program, with the P1
\* output closed and every parameter destroyed: also one that comes when every
\* pass takes longer than the interval (config.cpp:18-25).  A program that does
\* not start keeps it blocked: the proviso of Starts.
Terminates == signal /\ ~WaitsForItself ~> phase = "exited"
=============================================================================
