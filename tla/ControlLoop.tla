----------------------------- MODULE ControlLoop -----------------------------
(***************************************************************************)
(* The control loop of main() (src/core.cpp) with the producers, policies  *)
(* and consumers it calls, while the web thread applies POSTed settings.   *)
(*                                                                         *)
(* Two threads.  "main" runs pass after pass: poll the inverter, poll the  *)
(* schedule, look the active policy up, apply it, feed p1out and monitor.  *)
(* It holds the core registry's lock for the pass, which POST /settings    *)
(* never takes: every settings::param has a mutex of its own, so each read *)
(* of a setting is a step, and a POST may change it between two reads.     *)
(* "http" applies one POST at a time (one io thread), item by item in the  *)
(* order of the JSON object's sorted names, under the settings registry's  *)
(* lock; the schedule's own settings::apply waits for that lock.           *)
(***************************************************************************)
EXTENDS Policies

CONSTANTS
    Gen,            \* index of a generic policy |-> the settings it reads
    ChargerMax,     \* p1out's config parameter max_current
    Readings,       \* what a poll of the inverter may find
    Successes,      \* which of a poll's four register reads succeed together
    Requests,       \* objects POSTed to /api/settings
    InitialSettings,\* settings when the loop starts
    MaxTime,        \* bound of the clock
    MaxPosts        \* bound on the number of POSTs

VARIABLES
    pc,             \* next step of the main thread
    setting,        \* m_value of each settings::param
    lock,           \* settings registry: "free" or its holder
    request,        \* the POST being applied
    pending,        \* names of it not applied yet
    posts,          \* number of POSTs so far
    now,            \* system_clock, in seconds
    switch,         \* next_policy as the schedule read it
    sit,            \* main()'s situation
    found,          \* index main() looked up (policy_it)
    active_policy,  \* main()'s local of that name
    power,          \* a generic policy's power budget, before the cap
    budget,         \* main()'s b, times PhaseCount
    telegram,       \* p1out's fake current, times PhaseCount
    monitor,        \* monitor's m_state
    limits          \* history: values max_current had since the pass began

vars == <<pc, setting, lock, request, pending, posts, now, switch, sit, found,
          active_policy, power, budget, telegram, monitor, limits>>

settingsVars == <<setting, lock, request, pending, posts, limits>>
policyVars   == <<found, active_policy, power, budget>>
outputVars   == <<telegram, monitor>>

Red == 0
None == -1

\* The items of a JSON object are visited in the order of their names.
Rank == [active_policy |-> 1, max_current |-> 2, next_policy |-> 3, next_time |-> 4]
Names == DOMAIN Rank
PolicyIndices == {Red} \cup DOMAIN Gen

ASSUME ControlLoopAssumption ==
    /\ Gen \in [DOMAIN Gen -> GenParams] /\ DOMAIN Gen \subseteq Nat \ {Red}
    /\ ChargerMax \in Nat
    /\ Readings \subseteq Situation
    /\ Successes \subseteq SUBSET {"grid", "state", "inverter", "battery"}
    /\ \A r \in Requests : DOMAIN r \subseteq Names /\ \A n \in DOMAIN r : r[n] \in Int
    /\ InitialSettings \in [Names -> Int]
    /\ MaxTime \in Nat /\ MaxPosts \in Nat

Labels == {"poll", "schedule", "switch", "apply_switch", "find", "compare", "mark",
           "apply", "cap", "p1out", "monitor"}

NoRequest == [n \in {} |-> 0]

\* The default situation of src/core.h: full battery, no current anywhere.
InitialSituation == [battery_state |-> 100, inverter_output |-> 0,
                     battery_output |-> 0, grid_output |-> 0, peak |-> 0]

TypeOK ==
    /\ pc \in Labels
    /\ setting \in [Names -> Int]
    /\ lock \in {"free", "http"}
    /\ request \in Requests \cup {NoRequest} /\ pending \subseteq DOMAIN request
    /\ posts \in 0..MaxPosts /\ now \in 0..MaxTime
    /\ switch \in Int
    /\ sit \in Situation
    /\ found \in Int /\ active_policy \in Int
    /\ pc = "cap" => found \in DOMAIN Gen
    /\ power \in Int /\ budget \in Int
    /\ telegram \in Nat
    /\ monitor \in [budget: Int, situation: Situation]
    /\ limits \subseteq Int

Init ==
    /\ pc = "poll"
    /\ setting = InitialSettings /\ limits = {InitialSettings.max_current}
    /\ lock = "free" /\ request = NoRequest /\ pending = {} /\ posts = 0
    /\ now = 0 /\ switch = 0
    /\ sit = InitialSituation
    /\ found = None /\ active_policy = None
    /\ power = 0 /\ budget = 0
    /\ telegram = 0
    /\ monitor = [budget |-> 0, situation |-> InitialSituation]

-----------------------------------------------------------------------------
(* The main thread: producers.                                             *)

\* What one pass finds: each of the four register reads of sma.cpp brings a
\* new value or, when it fails, leaves the old one.
Merge(r, fresh) ==
    [battery_state   |-> IF "state" \in fresh THEN r.battery_state ELSE sit.battery_state,
     inverter_output |-> IF "inverter" \in fresh THEN r.inverter_output ELSE sit.inverter_output,
     battery_output  |-> IF "battery" \in fresh THEN r.battery_output ELSE sit.battery_output,
     grid_output     |-> IF "grid" \in fresh THEN r.grid_output ELSE sit.grid_output,
     peak            |-> IF "grid" \in fresh THEN r.peak ELSE sit.peak]

Poll ==
    /\ pc = "poll"
    /\ \E r \in Readings, fresh \in Successes :
           sit' = Merge(r, fresh)
    /\ limits' = {setting.max_current}
    /\ pc' = "schedule"
    /\ UNCHANGED <<setting, lock, request, pending, posts, now, switch,
                   policyVars, outputVars>>

Expired(t) == now > t /\ t # 0

\* schedule's poll reads the clock and next_time ...
Schedule ==
    /\ pc = "schedule"
    /\ pc' = IF Expired(setting.next_time) THEN "switch" ELSE "find"
    /\ UNCHANGED <<settingsVars, now, switch, sit, policyVars, outputVars>>

\* ... then, on its way into settings::apply, next_policy ...
ReadSwitch ==
    /\ pc = "switch"
    /\ switch' = setting.next_policy
    /\ pc' = "apply_switch"
    /\ UNCHANGED <<settingsVars, now, sit, policyVars, outputVars>>

\* Variant: the schedule applies its settings without waiting for the lock.
Unguarded == TRUE

LockFree == lock = "free"

\* Variant: the schedule takes the deadline away and switches nothing.
ClearOnly == [setting EXCEPT !.next_time = 0]

AfterSwitch == [setting EXCEPT !.active_policy = switch, !.next_time = 0]

\* ... and waits for the settings lock.  No other thread reads these settings
\* without that lock, so the two items and the save are one step.
ApplySwitch ==
    /\ pc = "apply_switch"
    /\ LockFree
    /\ setting' = AfterSwitch
    /\ pc' = "find"
    /\ UNCHANGED <<lock, request, pending, posts, limits, now, switch, sit,
                   policyVars, outputVars>>

-----------------------------------------------------------------------------
(* The main thread: the policy.  Three reads of the same setting.           *)

Find ==
    /\ pc = "find"
    /\ found' = setting.active_policy
    /\ pc' = "compare"
    /\ UNCHANGED <<settingsVars, now, switch, sit, active_policy, power,
                   budget, outputVars>>

\* Variant: the policy is applied only when it is another one than before.
ApplyIfChanged(changed) == IF changed THEN "mark" ELSE "p1out"

AfterCompare(changed) == IF changed THEN "mark" ELSE "apply"

Compare ==
    /\ pc = "compare"
    /\ pc' = AfterCompare(setting.active_policy # active_policy)
    /\ UNCHANGED <<settingsVars, now, switch, sit, policyVars, outputVars>>

Mark ==
    /\ pc = "mark"
    /\ active_policy' = setting.active_policy
    /\ pc' = "apply"
    /\ UNCHANGED <<settingsVars, now, switch, sit, found, power, budget,
                   outputVars>>

\* An index no policy has leaves the previous budget in place.
Apply ==
    /\ pc = "apply"
    /\ \/ found = Red
          /\ budget' = RedBudget(setting.max_current, sit)
          /\ power' = power /\ pc' = "p1out"
       \/ found \in DOMAIN Gen
          /\ power' = PowerBudget(Gen[found], sit)
          /\ budget' = budget /\ pc' = "cap"
       \/ found \notin PolicyIndices
          /\ UNCHANGED <<power, budget>> /\ pc' = "p1out"
    /\ UNCHANGED <<settingsVars, now, switch, sit, found, active_policy,
                   outputVars>>

\* A generic policy asks the red one last, which reads max_current itself.
Cap ==
    /\ pc = "cap"
    /\ budget' = CappedBudget(power, setting.max_current, sit)
    /\ pc' = "p1out"
    /\ UNCHANGED <<settingsVars, now, switch, sit, found, active_policy,
                   power, outputVars>>

-----------------------------------------------------------------------------
(* The main thread: consumers.                                             *)

\* Variant: the fake current is written as computed, below zero too.
RawCurrent(b) == PhaseCount * ChargerMax - b

\* The current the charger is told flows through the meter.
FakeCurrent(b) == Greater(0, PhaseCount * ChargerMax - b)

P1Out ==
    /\ pc = "p1out"
    /\ telegram' = FakeCurrent(budget)
    /\ pc' = "monitor"
    /\ UNCHANGED <<settingsVars, now, switch, sit, policyVars, monitor>>

Monitor ==
    /\ pc = "monitor"
    /\ monitor' = [budget |-> budget, situation |-> sit]
    /\ pc' = "poll"
    /\ UNCHANGED <<settingsVars, now, switch, sit, policyVars, telegram>>

Main == \/ Poll \/ Schedule \/ ReadSwitch \/ ApplySwitch
        \/ Find \/ Compare \/ Mark \/ Apply \/ Cap
        \/ P1Out \/ Monitor

mainOnly == <<pc, switch, sit, policyVars, outputVars>>

-----------------------------------------------------------------------------
(* The web thread: settings::apply on a POSTed object.                     *)

HttpBegin ==
    /\ LockFree /\ posts < MaxPosts
    /\ \E r \in Requests : request' = r /\ pending' = DOMAIN r
    /\ lock' = "http" /\ posts' = posts + 1
    /\ UNCHANGED <<setting, limits, now, mainOnly>>

HttpItem ==
    /\ lock = "http"
    /\ \E n \in pending :
          /\ \A m \in pending : Rank[n] <= Rank[m]
          /\ setting' = [setting EXCEPT ![n] = request[n]]
          /\ pending' = pending \ {n}
          /\ limits' = limits \cup {setting'.max_current}
    /\ UNCHANGED <<lock, request, posts, now, mainOnly>>

\* save() is in module Settings; here it only ends the critical section.
HttpEnd ==
    /\ lock = "http" /\ pending = {}
    /\ lock' = "free" /\ request' = NoRequest
    /\ UNCHANGED <<setting, pending, posts, limits, now, mainOnly>>

Http == HttpBegin \/ HttpItem \/ HttpEnd

Tick ==
    /\ now < MaxTime
    /\ now' = now + 1
    /\ UNCHANGED <<settingsVars, mainOnly>>

Next == Main \/ Http \/ Tick

\* A step of the main thread waits for nothing but the settings lock, and the
\* web thread finishes the POST it began.  Nobody has to POST anything.
Fairness == WF_vars(Main) /\ WF_vars(HttpItem) /\ WF_vars(HttpEnd)

Spec == Init /\ [][Next]_vars /\ Fairness

-----------------------------------------------------------------------------
(* Properties.                                                             *)

\* What the charger may add to the load, as the telegram tells it.
Offer == PhaseCount * ChargerMax - telegram

\* Whenever a pass with a known policy has written its telegram, the most
\* loaded phase plus the offered current stays within some value max_current
\* had during that pass - whatever generic policy ran, whichever reads of the
\* inverter failed and whatever was POSTed meanwhile (policies.cpp:62-66 and
\* p1out.cpp:127: "otherwise we're risking a power failure").
OfferWithinBreaker ==
    pc = "monitor" /\ found \in PolicyIndices =>
        \E m \in limits : Offer <= RedBudget(m, sit)

\* The deadline of a switch to policy p has passed.
Due(p) == Expired(setting.next_time) /\ setting.next_policy = p

\* The schedule has found a deadline passed and is about to act on it.
Acting == pc \in {"switch", "apply_switch"}

\* A POST that names the policy to switch to or the deadline is being applied.
Rescheduled == lock = "http" /\ DOMAIN request \cap {"next_policy", "next_time"} # {}

\* A switch whose time has come is carried out: the policy scheduled becomes the
\* active one and the deadline goes with it - unless another POST reschedules it
\* before (schedule.cpp:15-22).  Proviso: the schedule is not already acting on
\* an earlier deadline, which overruns one POSTed meanwhile (see
\* SwitchOnlyAfterDeadline).
ScheduledSwitch ==
    \A p \in PolicyIndices :
        Due(p) /\ ~Acting ~> (setting.active_policy = p /\ ~Due(p)) \/ Rescheduled

\* The budget the active policy computes from what is in force now.
CurrentBudget ==
    IF setting.active_policy = Red
    THEN RedBudget(setting.max_current, monitor.situation)
    ELSE GenBudget(Gen[setting.active_policy], setting.max_current, monitor.situation)

\* The loop keeps catching up with the settings: time and again the published
\* budget is the active policy's own, for the settings in force, unless
\* active_policy names no policy (core.cpp:130-142).
CatchesUp ==
    []<>(setting.active_policy \in PolicyIndices => monitor.budget = CurrentBudget)

\* A POST is applied as a whole: when the web thread lets go of the settings
\* lock everything it was asked to set is in force, the scheduled switch having
\* waited (settings.cpp:93-113).
PostAtomic ==
    [][lock = "http" /\ lock' = "free" =>
         \A n \in DOMAIN request : setting'[n] = request[n]]_vars

\* A scheduled switch happens only once the deadline in force has passed: the
\* page promises "schakel na X uur automatisch" (public/index.html).
SwitchOnlyAfterDeadline ==
    [][pc = "apply_switch" /\ pc' = "find" => Expired(setting.next_time)]_vars
=============================================================================
