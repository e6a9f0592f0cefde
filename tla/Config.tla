-------------------------------- MODULE Config --------------------------------
(***************************************************************************)
(* The registry of configuration parameters (src/config.cpp, config.h) and *)
(* the two parameters the logging itself has (src/logf.cpp): function-local*)
(* statics that the first line to be logged constructs, whose construction *)
(* and setting is logged in turn.                                          *)
(*                                                                         *)
(* One thread sets and constructs parameters here.  A call is a list of    *)
(* what it does, `todo`; what a step calls is put in front of what is left,*)
(* so the list is the call stack.  The registry's mutex is recursive, its  *)
(* depth is lock_recurse.                                                  *)
(***************************************************************************)
EXTENDS Integers, SequencesExt

CONSTANTS
    Param,          \* config::param objects
    ParamName,      \* the names of parameters
    NameOf,         \* [Param -> ParamName]; two objects may share a name
    Default,        \* [Param -> value]
    Text,           \* what may be given for a value
    Parses,         \* [Param \X Text -> set of values]: several when the text
                    \* leaves the value unset, none when the parser throws
    Unset,          \* not given
    verbosity,      \* the static parameter of shouldlog()
    use_syslog      \* the static parameter of dolog()

VARIABLES
    environment,    \* getenv
    stored,         \* param_desc::value of each name
    subscribers,    \* param_desc::subscribers of each name
    live,           \* m_value of each param object there is
    constructed,    \* these objects in the order of their construction
    copied,         \* values taken from a parameter as it was constructed
    static,         \* guards of the two static parameters
    lock_recurse,
    todo

registryVars == <<stored, subscribers, live, constructed, copied>>
configVars == <<environment, registryVars, static, lock_recurse, todo>>

severity == [panic |-> 0, error |-> 1, warn |-> 2, info |-> 3, debug |-> 4]

LogParams == {verbosity, use_syslog}

\* What an object can hold: each has a type of its own.
ValuesOf(p) == {Default[p]} \cup UNION {Parses[<<p, text>>] : text \in Text}

ASSUME ConfigAssumption ==
    /\ LogParams \subseteq Param /\ verbosity # use_syslog
    /\ NameOf \in [Param -> ParamName]
    /\ Unset \notin Text

\* Every subscriber of a name is an object there is, of that name, and no
\* object is subscribed twice.
ConfigTypeOK ==
    /\ environment \in [ParamName -> Text \cup {Unset}]
    /\ stored \in [ParamName -> Text \cup {Unset}]
    /\ DOMAIN live \subseteq Param /\ DOMAIN live = {constructed[i] : i \in DOMAIN constructed}
    /\ \A p \in DOMAIN live : live[p] \in ValuesOf(p)
    /\ DOMAIN copied \subseteq Param /\ \A p \in DOMAIN copied : copied[p] \in ValuesOf(p)
    /\ \A n \in ParamName :
          LET s == subscribers[n]
          IN  /\ \A i \in DOMAIN s : s[i] \in DOMAIN live /\ NameOf[s[i]] = n
              /\ \A i, j \in DOMAIN s : s[i] = s[j] => i = j
    /\ static \in [LogParams -> {"none", "running", "done"}]
    /\ lock_recurse \in 0..2

None == [p \in {} |-> 0]

ConfigInit ==
    /\ stored = [n \in ParamName |-> Unset]
    /\ subscribers = [n \in ParamName |-> <<>>]
    /\ live = None /\ constructed = <<>> /\ copied = None
    /\ static = [p \in LogParams |-> "none"]
    /\ lock_recurse = 0

-----------------------------------------------------------------------------
(* What a call does.                                                       *)

Log(sev)       == <<"log", sev>>            \* __logf
Construct(p)   == <<"construct", p>>        \* config::param::param
Ready(p)       == <<"ready", p>>            \* a static's guard is released
Parse(p, text) == <<"parse", p, text>>      \* registry::param_parse
Store(n, text) == <<"store", n, text>>      \* config::set_param
Leave          == <<"leave">>               \* ~lock_type
Copy(p)        == <<"copy", p>>             \* the value of a param is taken
Destroy(p)     == <<"destroy", p>>          \* ~param_base

Now(do) == todo # <<>> /\ Head(todo)[1] = do
Object == Head(todo)[2]
Then(calls) == todo' = calls \o Tail(todo)

\* Variant: the guard against logging inside of logging lets one level more in.
rlogAlways(sev) == IF lock_recurse <= 2 THEN <<Log(sev)>> ELSE <<>>

\* rlogferror, rlogfdebug
rlog(sev) == IF lock_recurse <= 1 THEN <<Log(sev)>> ELSE <<>>

\* f with the value v at p.
With(f, p, v) == [q \in DOMAIN f \cup {p} |-> IF q = p THEN v ELSE f[q]]

Given(p, text) == IF text = Unset THEN <<>> ELSE <<Parse(p, text)>>

\* Variant: the environment overrides what files and command line say.
EnvironmentLast(p) == Given(p, stored[NameOf[p]]) \o Given(p, environment[NameOf[p]])

Initial(p) == Given(p, environment[NameOf[p]]) \o Given(p, stored[NameOf[p]])

\* param_base::init: subscribe, then the environment, then what is stored.
ConstructStep ==
    /\ Now("construct")
    /\ live' = With(live, Object, Default[Object])
    /\ constructed' = Append(constructed, Object)
    /\ subscribers' = [subscribers EXCEPT ![NameOf[Object]] = Append(@, Object)]
    /\ lock_recurse' = lock_recurse + 1
    /\ Then(Initial(Object) \o <<Leave>>)
    /\ UNCHANGED <<environment, stored, copied, static>>

\* A setting's default and the server's address are copied once.
CopyStep ==
    /\ Now("copy")
    /\ copied' = With(copied, Object, live[Object])
    /\ Then(<<>>)
    /\ UNCHANGED <<environment, stored, subscribers, live, constructed, static, lock_recurse>>

\* Variant: a parameter goes and stays subscribed.
StaysSubscribed(s, p) == s

\* find_if and erase.
Unsubscribed(s, p) == RemoveFirst(s, p)

DestroyStep ==
    /\ Now("destroy")
    /\ live' = [p \in DOMAIN live \ {Object} |-> live[p]]
    /\ constructed' = RemoveFirst(constructed, Object)
    /\ subscribers' = [subscribers EXCEPT ![NameOf[Object]] = Unsubscribed(@, Object)]
    /\ Then(<<>>)
    /\ UNCHANGED <<environment, stored, copied, static, lock_recurse>>

Notified(n) == subscribers[n]

StoreStep ==
    /\ Now("store")
    /\ LET n == Head(todo)[2]
           text == Head(todo)[3]
       IN  /\ stored' = [stored EXCEPT ![n] = text]
           /\ Then([i \in DOMAIN Notified(n) |-> Parse(Notified(n)[i], text)] \o <<Leave>>)
    /\ lock_recurse' = lock_recurse + 1
    /\ UNCHANGED <<environment, subscribers, live, constructed, copied, static>>

\* A parser that throws leaves the value and is logged as an error.
ParseStep ==
    /\ Now("parse")
    /\ LET results == Parses[<<Object, Head(todo)[3]>>]
       IN  \/ /\ \E v \in results : live' = [live EXCEPT ![Object] = v]
              /\ Then(rlog("debug"))
           \/ /\ results = {} /\ live' = live
              /\ Then(rlog("error"))
    /\ UNCHANGED <<environment, stored, subscribers, constructed, copied, static, lock_recurse>>

LeaveStep ==
    /\ Now("leave")
    /\ lock_recurse' = lock_recurse - 1
    /\ Then(<<>>)
    /\ UNCHANGED <<environment, registryVars, static>>

\* The first to need a static parameter constructs it and goes on with what it
\* was doing; a thread that comes back while it does waits for itself.
Needs(p) ==
    /\ static[p] = "none"
    /\ static' = [static EXCEPT ![p] = "running"]
    /\ todo' = <<Construct(p), Ready(p)>> \o todo

Shown(sev) == severity[sev] <= live[verbosity]

LogStep ==
    /\ Now("log")
    /\ \/ Needs(verbosity)
       \/ static[verbosity] = "done" /\ Shown(Object) /\ Needs(use_syslog)
       \/ /\ static[verbosity] = "done"
          /\ Shown(Object) => static[use_syslog] = "done"
          /\ Then(<<>>) /\ UNCHANGED static
    /\ UNCHANGED <<environment, registryVars, lock_recurse>>

ReadyStep ==
    /\ Now("ready")
    /\ static' = [static EXCEPT ![Object] = "done"]
    /\ Then(<<>>)
    /\ UNCHANGED <<environment, registryVars, lock_recurse>>

ConfigStep == \/ ConstructStep \/ CopyStep \/ DestroyStep \/ StoreStep \/ ParseStep
              \/ LeaveStep \/ LogStep \/ ReadyStep
=============================================================================
