------------------------------ MODULE Settings ------------------------------
(***************************************************************************)
(* The settings registry of src/settings.cpp: the parameters that load     *)
(* themselves at start-up, settings::apply as the web thread and the       *)
(* schedule call it, the file it saves to, and the process dying anywhere  *)
(* on the way.                                                             *)
(*                                                                         *)
(* The web thread runs before the first parameter is constructed (static   *)
(* initialisation, www.cpp before settings.cpp), so a POST may find some   *)
(* parameters not there yet.  Every setting has exactly one subscriber.    *)
(* A JSON object on file or in memory is a function from names to values;  *)
(* the order of its items does not matter here, each concerns one name.    *)
(***************************************************************************)
EXTENDS Naturals

CONSTANTS
    Names, Json, Throws, Parse, Default, Requests,  \* see DurableSettings
    AllNames,       \* names in files and requests, some without a parameter
    StartFiles,     \* what the settings file may hold at first
    NoFile,         \* no such file
    Garbage,        \* a file json::parse rejects
    Faults,         \* which of "open", "short" (write), may fail
    MaxCrashes      \* bound on the number of restarts

VARIABLES
    registered,     \* names in registry.subscribers with a param
    value,          \* m_value of those params
    all_settings,   \* registry.all_settings
    lock,           \* the registry's lock: "free" or its holder
    pc,             \* next step of the holder in apply() and save()
    request,        \* the object being applied
    pending,        \* items not visited yet
    before,         \* history: all_settings when the lock was taken
    tmp,            \* content of settings_file + ".tmp"
    file,           \* content of settings_file
    crashes

vars == <<registered, value, all_settings, lock, pc, request, pending, before,
          tmp, file, crashes>>

registryVars == <<registered, value, all_settings>>
callVars == <<lock, pc, request, pending, before>>
diskVars == <<tmp, file>>

Empty == [n \in {} |-> {}]
Threads == {"main", "http"}

\* JSON objects, as functions from names to values.
JsonObject == UNION {[S -> Json] : S \in SUBSET AllNames}

ASSUME SettingsAssumption ==
    /\ Throws \notin Json
    /\ Names \subseteq AllNames /\ Requests \subseteq JsonObject
    /\ StartFiles \subseteq JsonObject \cup {NoFile, Garbage}
    /\ NoFile \notin JsonObject /\ Garbage \notin JsonObject
    /\ Parse \in [Names \X Json -> Json \cup {Throws}]
    /\ Default \in [Names -> Json]
    /\ \A n \in Names : Parse[<<n, Default[n]>>] = Default[n]
    /\ MaxCrashes \in Nat

TypeOK ==
    /\ registered \subseteq Names
    /\ value \in [registered -> Json]
    /\ all_settings \in JsonObject /\ registered \subseteq DOMAIN all_settings
    /\ lock \in Threads \cup {"free"}
    /\ pc \in {"items", "open", "write", "rename", "written"}
    /\ request \in Requests \cup {Empty} /\ pending \subseteq DOMAIN request
    /\ lock = "main" => registered = Names
    /\ {file, tmp} \subseteq JsonObject \cup {NoFile, Garbage}
    /\ crashes \in 0..MaxCrashes

\* registry(): a file that is missing or does not parse leaves no settings.
Loaded(f) == IF f \in {NoFile, Garbage} THEN Empty ELSE f

Init ==
    /\ file \in StartFiles /\ tmp = NoFile
    /\ all_settings = Loaded(file) /\ before = all_settings
    /\ registered = {} /\ value = Empty
    /\ lock = "free" /\ pc = "items" /\ request = Empty /\ pending = {}
    /\ crashes = 0

-----------------------------------------------------------------------------
\* What a parameter makes of a stored value.
Live(n, j) == IF Parse[<<n, j>>] = Throws THEN Default[n] ELSE Parse[<<n, j>>]

\* Variant: a default is not entered among the settings.
NotEntered(n) == all_settings

\* f with an item more.
With(f, n, j) == [m \in DOMAIN f \cup {n} |-> IF m = n THEN j ELSE f[m]]

Entered(n) == With(all_settings, n, Default[n])

\* A parameter is constructed: it takes its value from the settings, or else
\* enters its default there.  A stored value of the wrong type is only logged.
Load(n) ==
    /\ lock = "free" /\ n \notin registered
    /\ registered' = registered \cup {n}
    /\ \/ /\ n \in DOMAIN all_settings
          /\ value' = With(value, n, Live(n, all_settings[n]))
          /\ UNCHANGED all_settings
       \/ /\ n \notin DOMAIN all_settings
          /\ value' = With(value, n, Default[n])
          /\ all_settings' = Entered(n)
    /\ UNCHANGED <<callVars, diskVars, crashes>>

\* settings::apply by the web thread at any time, by the schedule once main()
\* runs, all parameters constructed.
Begin(t, r) ==
    /\ lock = "free"
    /\ t = "main" => registered = Names
    /\ lock' = t /\ pc' = "items"
    /\ request' = r /\ pending' = DOMAIN r /\ before' = all_settings
    /\ UNCHANGED <<registryVars, diskVars, crashes>>

\* Every subscriber's setjson(); one of the wrong type throws and keeps its value.
Takes(n) == n \in registered /\ Parse[<<n, request[n]>>] # Throws

\* Variant: the value is stored although the subscriber refused it.
StoresAll(n) == n \in registered /\ n \in DOMAIN all_settings

Stores(n) == Takes(n) /\ n \in DOMAIN all_settings

\* One item; a name either map does not know is skipped.
Item ==
    /\ lock # "free" /\ pc = "items"
    /\ \E n \in pending :
          /\ pending' = pending \ {n}
          /\ value' = IF Takes(n) THEN [value EXCEPT ![n] = Parse[<<n, request[n]>>]] ELSE value
          /\ all_settings' = IF Stores(n) THEN [all_settings EXCEPT ![n] = request[n]]
                                          ELSE all_settings
    /\ UNCHANGED <<registered, lock, pc, request, before, diskVars, crashes>>

\* Variant: the settings file itself is opened and emptied.
OpenInPlace == tmp' = Garbage /\ file' = Garbage

OpenTemporary == tmp' = Garbage /\ file' = file

\* save(): the temporary file is opened, emptied; "Settings will not be
\* persistent" when that fails.
Open ==
    /\ lock # "free" /\ pc = "items" /\ pending = {}
    /\ pc' = "write" /\ OpenTemporary
    /\ UNCHANGED <<registryVars, lock, request, pending, before, crashes>>

OpenFails ==
    /\ "open" \in Faults
    /\ lock # "free" /\ pc = "items" /\ pending = {}
    /\ lock' = "free" /\ request' = Empty
    /\ UNCHANGED <<registryVars, pc, pending, before, diskVars, crashes>>

\* An ofstream reports a short write in a state bit nobody looks at.
Write ==
    /\ lock # "free" /\ pc = "write"
    /\ pc' = "rename"
    /\ \/ tmp' = all_settings
       \/ "short" \in Faults /\ tmp' = Garbage
    /\ UNCHANGED <<registryVars, lock, request, pending, before, file, crashes>>

Rename ==
    /\ lock # "free" /\ pc = "rename"
    /\ file' = tmp /\ tmp' = NoFile
    /\ pc' = "written"
    /\ UNCHANGED <<registryVars, lock, request, pending, before, crashes>>

\* "Written settings to %s", and the lock is released.
Release ==
    /\ lock # "free" /\ pc = "written"
    /\ lock' = "free" /\ request' = Empty /\ pc' = "items"
    /\ UNCHANGED <<registryVars, pending, before, diskVars, crashes>>

\* The process dies and a new one opens the settings file.
Crash ==
    /\ crashes < MaxCrashes /\ crashes' = crashes + 1
    /\ registered' = {} /\ value' = Empty
    /\ all_settings' = Loaded(file) /\ before' = all_settings'
    /\ lock' = "free" /\ pc' = "items" /\ request' = Empty /\ pending' = {}
    /\ UNCHANGED diskVars

Next ==
    \/ \E n \in Names : Load(n)
    \/ \E t \in Threads, r \in Requests : Begin(t, r)
    \/ Item \/ Open \/ OpenFails \/ Write \/ Rename \/ Release
    \/ Crash

Spec == Init /\ [][Next]_vars

-----------------------------------------------------------------------------
(* Properties.                                                             *)

\* What the policies compute with is what GET /settings shows, converted, also
\* half way through a POST, after a value of the wrong type, and after a
\* restart from a file somebody edited, whose unusable values leave the default
\* in force (settings.cpp:56-73 and 94-112).
LiveMatchesPublished ==
    \A n \in registered : value[n] = Live(n, all_settings[n])

Complete(m) == [n \in Names |-> IF n \in DOMAIN m THEN m[n] ELSE Default[n]]

\* What those who take the lock see: an apply in progress becomes visible with
\* its rename, or, not saved, with the release of the lock.
Visible == IF lock # "free" /\ pc # "written" THEN before ELSE all_settings

Durable == INSTANCE DurableSettings WITH
    current <- Complete(Visible), durable <- Complete(Loaded(file)), known <- registered

\* As long as writes are complete, settings are what DurableSettings promises:
\* no crash leaves half a POST behind (settings.cpp:35-51 and 87-114).
ImplementsDurable == Durable!Spec

\* "Written settings to %s" in the log means that the file holds the settings
\* (settings.cpp:50).
WrittenIsComplete == pc = "written" => file = all_settings
=============================================================================
