---------------------------- MODULE SettingsProofs ----------------------------
(***************************************************************************)
(* For all parameters, values, files and requests: live values match the   *)
(* published ones, and the settings are as durable as DurableSettings says,*)
(* wherever the process dies, as long as no write is short.                *)
(***************************************************************************)
EXTENDS Settings, TLAPS

\* Parameters that are there have a value and a setting, which agree.
RegistryInv ==
    /\ registered \subseteq Names
    /\ registered \subseteq DOMAIN all_settings
    /\ DOMAIN value = registered
    /\ LiveMatchesPublished

\* Where a call of apply() is: items visited are in the settings and the others
\* as they were; after the writing the temporary file holds the settings.
CallInv ==
    /\ all_settings \in JsonObject /\ before \in JsonObject
    /\ file \in JsonObject \cup {NoFile, Garbage}
    /\ lock = "free" => pc = "items"
    /\ pc \in {"items", "open", "write", "rename", "written"}
    /\ lock # "free" =>
         /\ request \in Requests /\ pending \subseteq DOMAIN request
         /\ pc # "items" => pending = {}
         /\ DOMAIN all_settings = DOMAIN before
         /\ \A n \in DOMAIN before :
               all_settings[n] = IF n \in DOMAIN request \ pending /\ Takes(n)
                                 THEN request[n] ELSE before[n]
         /\ pc = "rename" => tmp = all_settings

SettingsInv == RegistryInv /\ CallInv

-----------------------------------------------------------------------------
(* Lemmas about JSON objects.                                              *)

\* An object's names and values are what they should be.
LEMMA ObjectValues ==
    ASSUME NEW m \in JsonObject
    PROVE  /\ DOMAIN m \subseteq AllNames
           /\ \A n \in DOMAIN m : m[n] \in Json
  <1>1. PICK S \in SUBSET AllNames : m \in [S -> Json]
    BY DEF JsonObject
  <1> QED
    BY <1>1

\* Every function from names to values is an object.
LEMMA ObjectOf ==
    ASSUME NEW S \in SUBSET AllNames, NEW m \in [S -> Json]
    PROVE  m \in JsonObject
  BY DEF JsonObject

\* So is the one without items.
LEMMA EmptyObject == Empty \in JsonObject /\ DOMAIN Empty = {}
  <1>1. Empty \in [{} -> Json] /\ DOMAIN Empty = {}
    BY DEF Empty
  <1> QED
    BY <1>1, ObjectOf

\* What the file gives is an object, and is that object when it holds one.
LEMMA LoadedObject ==
    ASSUME NEW f \in JsonObject \cup {NoFile, Garbage}
    PROVE  /\ Loaded(f) \in JsonObject
           /\ f \in JsonObject => Loaded(f) = f
  BY EmptyObject, SettingsAssumption DEF Loaded

\* Entering a default adds one item.
LEMMA EnteredObject ==
    ASSUME NEW n \in Names, all_settings \in JsonObject, n \notin DOMAIN all_settings
    PROVE  /\ Entered(n) \in JsonObject
           /\ DOMAIN Entered(n) = DOMAIN all_settings \cup {n}
           /\ Entered(n)[n] = Default[n]
           /\ \A m \in DOMAIN all_settings : Entered(n)[m] = all_settings[m]
  <1>1. Default[n] \in Json /\ n \in AllNames
    BY SettingsAssumption
  <1>2. DOMAIN all_settings \cup {n} \in SUBSET AllNames
    BY <1>1, ObjectValues
  <1>3. Entered(n) \in [DOMAIN all_settings \cup {n} -> Json]
    BY <1>1, ObjectValues DEF Entered, With
  <1> QED
    BY <1>2, <1>3, ObjectOf DEF Entered, With

-----------------------------------------------------------------------------
(* What is live is what is published.                                      *)

\* A default is its own live value.
LEMMA DefaultIsLive ==
    ASSUME NEW n \in Names
    PROVE  Live(n, Default[n]) = Default[n]
  BY SettingsAssumption DEF Live

\* Every step keeps live and published values together.
LEMMA RegistryStepKeeps ==
    ASSUME RegistryInv, [Next]_vars
    PROVE  RegistryInv'
  <1> USE DEF RegistryInv, LiveMatchesPublished
  <1>1. CASE UNCHANGED registryVars
    BY <1>1 DEF registryVars, Live
  <1>2. ASSUME NEW n \in Names, Load(n)
        PROVE  RegistryInv'
    <2>1. registered' = registered \cup {n} /\ n \notin registered
      BY <1>2 DEF Load
    <2>2. CASE /\ n \in DOMAIN all_settings
               /\ value' = With(value, n, Live(n, all_settings[n]))
               /\ UNCHANGED all_settings
      BY <2>1, <2>2 DEF With, Live
    <2>3. CASE /\ n \notin DOMAIN all_settings
               /\ value' = With(value, n, Default[n])
               /\ all_settings' = Entered(n)
      <3>1. /\ DOMAIN all_settings' = DOMAIN all_settings \cup {n}
            /\ all_settings'[n] = Default[n]
            /\ \A m \in DOMAIN all_settings : all_settings'[m] = all_settings[m]
        BY <2>3 DEF Entered, With
      <3>2. value'[n] = Default[n] /\ DOMAIN value' = registered \cup {n}
            /\ \A m \in registered : value'[m] = value[m]
        BY <2>1, <2>3 DEF With
      <3> QED
        BY <2>1, <3>1, <3>2, DefaultIsLive DEF Live
    <2> QED
      BY <1>2, <2>2, <2>3 DEF Load
  <1>3. CASE Item
    <2>1. PICK n \in pending :
             /\ value' = IF Takes(n) THEN [value EXCEPT ![n] = Parse[<<n, request[n]>>]]
                                     ELSE value
             /\ all_settings' = IF Stores(n) THEN [all_settings EXCEPT ![n] = request[n]]
                                             ELSE all_settings
      BY <1>3 DEF Item
    <2>2. registered' = registered /\ (Stores(n) <=> Takes(n))
      BY <1>3 DEF Item, Stores, Takes
    <2>3. CASE Takes(n)
      <3>1. n \in registered /\ Parse[<<n, request[n]>>] # Throws
        BY <2>3 DEF Takes
      <3>2. Live(n, request[n]) = Parse[<<n, request[n]>>]
        BY <3>1 DEF Live
      <3>3. /\ DOMAIN value' = DOMAIN value /\ DOMAIN all_settings' = DOMAIN all_settings
            /\ value'[n] = Parse[<<n, request[n]>>] /\ all_settings'[n] = request[n]
            /\ \A m \in registered \ {n} : /\ value'[m] = value[m]
                                           /\ all_settings'[m] = all_settings[m]
        BY <2>1, <2>2, <2>3, <3>1
      <3> QED
        BY <2>2, <3>2, <3>3 DEF Live
    <2>4. CASE ~Takes(n)
      BY <2>1, <2>2, <2>4 DEF Live
    <2> QED
      BY <2>3, <2>4
  <1>4. CASE Crash
    BY <1>4 DEF Crash, Empty
  <1>5. \/ UNCHANGED registryVars
        \/ \E n \in Names : Load(n)
        \/ Item \/ Crash
    BY DEF Next, vars, registryVars, Begin, Open, OpenFails, Write, Rename, Release
  <1> QED
    BY <1>1, <1>2, <1>3, <1>4, <1>5

\* What the policies compute with is what GET /settings shows, whatever is posted,
\* refused, on file or lost in a crash, and in the middle of all of them
\* (settings.cpp:56-73 and 94-112).
THEOREM LivePublished == Spec => []LiveMatchesPublished
  <1>1. Init => RegistryInv
    BY DEF Init, RegistryInv, LiveMatchesPublished, Empty
  <1>2. RegistryInv /\ [Next]_vars => RegistryInv'
    BY RegistryStepKeeps
  <1>3. RegistryInv => LiveMatchesPublished
    BY DEF RegistryInv
  <1> QED
    BY <1>1, <1>2, <1>3, PTL DEF Spec

-----------------------------------------------------------------------------
(* A call of apply(), step by step.                                        *)

\* One more item visited: it is in the settings if its parameter takes it.
LEMMA ItemKeeps ==
    ASSUME SettingsInv, Item
    PROVE  CallInv'
  <1> USE DEF SettingsInv, CallInv
  <1>1. PICK n \in pending :
           /\ pending' = pending \ {n}
           /\ all_settings' = IF Stores(n) THEN [all_settings EXCEPT ![n] = request[n]]
                                           ELSE all_settings
    BY DEF Item
  <1>2. /\ lock # "free" /\ pc = "items"
        /\ UNCHANGED <<registered, lock, pc, request, before, tmp, file>>
    BY DEF Item, diskVars
  <1>3. request \in JsonObject /\ n \in DOMAIN request
    BY <1>1, <1>2, SettingsAssumption
  <1>4. all_settings' \in JsonObject /\ DOMAIN all_settings' = DOMAIN before
    <2>1. DOMAIN all_settings \in SUBSET AllNames
      BY ObjectValues
    <2>2. request[n] \in Json /\ \A m \in DOMAIN all_settings : all_settings[m] \in Json
      BY <1>3, ObjectValues
    <2>3. CASE Stores(n)
      <3>1. all_settings' = [all_settings EXCEPT ![n] = request[n]]
        BY <1>1, <2>3
      <3>2. all_settings' \in [DOMAIN all_settings -> Json]
        BY <2>2, <3>1
      <3> QED
        BY <1>2, <2>1, <3>1, <3>2, ObjectOf
    <2>4. CASE ~Stores(n)
      BY <1>1, <1>2, <2>4
    <2> QED
      BY <2>3, <2>4
  <1>5. ASSUME NEW m \in DOMAIN before
        PROVE  all_settings'[m] = IF m \in DOMAIN request \ pending' /\ Takes(m)'
                                  THEN request[m] ELSE before[m]
    <2>1. Takes(m)' <=> Takes(m)
      BY <1>2 DEF Takes
    <2>2. all_settings[m] = IF m \in DOMAIN request \ pending /\ Takes(m)
                            THEN request[m] ELSE before[m]
      BY <1>2
    <2>3. CASE m = n
      <3>1. all_settings[m] = before[m]
        BY <1>1, <2>2, <2>3
      <3>2. Stores(n) <=> Takes(m)
        BY <1>2, <2>3 DEF Stores
      <3> QED
        BY <1>1, <1>2, <1>3, <2>1, <2>3, <3>1, <3>2
    <2>4. CASE m # n
      BY <1>1, <2>1, <2>2, <2>4
    <2> QED
      BY <2>3, <2>4
  <1>6. pending' \subseteq DOMAIN request
    BY <1>1, <1>2
  <1> QED
    BY <1>2, <1>4, <1>5, <1>6

\* Every step of a call keeps what is known of it.
LEMMA CallStepKeeps ==
    ASSUME "short" \notin Faults, SettingsInv, [Next]_vars
    PROVE  CallInv'
  <1> USE DEF SettingsInv, CallInv
  <1>1. CASE UNCHANGED vars
    BY <1>1 DEF vars, Takes
  <1>2. ASSUME NEW n \in Names, Load(n)
        PROVE  CallInv'
    <2>1. lock = "free" /\ UNCHANGED <<lock, pc, before, file>>
      BY <1>2 DEF Load, callVars, diskVars
    <2>2. all_settings' \in JsonObject
      BY <1>2, EnteredObject DEF Load
    <2> QED
      BY <2>1, <2>2
  <1>3. ASSUME NEW t \in Threads, NEW r \in Requests, Begin(t, r)
        PROVE  CallInv'
    BY <1>3 DEF Begin, Threads, registryVars, diskVars
  <1>4. CASE Item
    BY <1>4, ItemKeeps
  <1>5. CASE Open
    <2>1. /\ lock # "free" /\ pending = {} /\ pc' = "write" /\ file' = file
          /\ UNCHANGED <<registered, all_settings, lock, request, pending, before>>
      BY <1>5 DEF Open, OpenTemporary, registryVars
    <2> QED
      BY <2>1 DEF Takes
  <1>6. CASE OpenFails
    BY <1>6 DEF OpenFails, registryVars, diskVars
  <1>7. CASE Write
    <2>1. /\ lock # "free" /\ pc = "write" /\ pc' = "rename" /\ tmp' = all_settings
          /\ UNCHANGED <<registered, all_settings, lock, request, pending, before, file>>
      BY <1>7 DEF Write, registryVars
    <2> QED
      BY <2>1 DEF Takes
  <1>8. CASE Rename
    <2>1. /\ lock # "free" /\ pc = "rename" /\ pc' = "written" /\ file' = tmp
          /\ UNCHANGED <<registered, all_settings, lock, request, pending, before>>
      BY <1>8 DEF Rename, registryVars
    <2> QED
      BY <2>1 DEF Takes
  <1>9. CASE Release
    BY <1>9 DEF Release, registryVars, diskVars
  <1>10. CASE Crash
    BY <1>10, LoadedObject DEF Crash, diskVars
  <1> QED
    BY <1>1, <1>2, <1>3, <1>4, <1>5, <1>6, <1>7, <1>8, <1>9, <1>10 DEF Next

-----------------------------------------------------------------------------
(* The refinement.                                                         *)

\* An apply that has visited every item has done what DurableSettings says a
\* POST does.
LEMMA AppliedAsPromised ==
    ASSUME SettingsInv, lock # "free", pending = {}
    PROVE  Complete(all_settings) = Durable!Updated(Complete(before), request)
  <1>1. ASSUME NEW n \in Names
        PROVE  Complete(all_settings)[n] =
                 IF n \in Durable!Accepted(request) THEN request[n] ELSE Complete(before)[n]
    <2>1. n \in Durable!Accepted(request) <=> n \in DOMAIN request /\ Takes(n)
      BY DEF Durable!Accepted, Takes
    <2>2. Takes(n) => n \in DOMAIN before
      BY DEF Takes, SettingsInv, RegistryInv, CallInv
    <2>3. DOMAIN all_settings = DOMAIN before
      BY DEF SettingsInv, CallInv
    <2>4. n \in DOMAIN before =>
            all_settings[n] = IF n \in DOMAIN request /\ Takes(n)
                              THEN request[n] ELSE before[n]
      BY DEF SettingsInv, CallInv
    <2> QED
      BY <2>1, <2>2, <2>3, <2>4 DEF Complete
  <1> QED
    BY <1>1 DEF Durable!Updated, Complete

\* Every step of the registry is one of DurableSettings, or invisible to it.
LEMMA StepImplements ==
    ASSUME "short" \notin Faults, SettingsInv, [Next]_vars
    PROVE  [Durable!Next]_(Durable!durableVars)
  <1> DEFINE current == Complete(Visible)
             durable == Complete(Loaded(file))
  <1> SUFFICES \/ UNCHANGED <<current, durable, registered>>
               \/ Durable!Next
    BY DEF Durable!durableVars
  <1>1. CASE UNCHANGED vars
    BY <1>1 DEF vars, Visible, Complete, Loaded
  <1>2. ASSUME NEW n \in Names, Load(n)
        PROVE  Durable!Register
    <2>1. /\ lock = "free" /\ lock' = "free" /\ file' = file
          /\ n \notin registered /\ registered' = registered \cup {n}
      BY <1>2 DEF Load, callVars, diskVars
    <2>2. Complete(all_settings)' = Complete(all_settings)
      BY <1>2 DEF Load, Entered, With, Complete
    <2> QED
      BY <2>1, <2>2 DEF Durable!Register, Visible, Loaded, Complete
  <1>3. ASSUME NEW t \in Threads, NEW r \in Requests, Begin(t, r)
        PROVE  UNCHANGED <<current, durable, registered>>
    <2>1. Visible' = Visible
      BY <1>3 DEF Begin, Threads, registryVars, Visible
    <2>2. file' = file /\ registered' = registered
      BY <1>3 DEF Begin, registryVars, diskVars
    <2> QED
      BY <2>1, <2>2 DEF Complete, Loaded
  <1>4. CASE Item \/ Open \/ Write \/ Release
    <2>1. Visible' = Visible
      BY <1>4 DEF Item, Open, Write, Release, registryVars, Visible
    <2>2. file' = file /\ registered' = registered
      BY <1>4 DEF Item, Open, OpenTemporary, Write, Release, registryVars, diskVars
    <2> QED
      BY <2>1, <2>2 DEF Complete, Loaded
  <1>5. CASE OpenFails
    <2>1. lock # "free" /\ pc = "items" /\ pending = {} /\ request \in Requests
      BY <1>5 DEF OpenFails, SettingsInv, CallInv
    <2>2. Visible = before /\ Visible' = all_settings
      BY <1>5, <2>1 DEF OpenFails, Visible, registryVars
    <2>3. file' = file /\ registered' = registered /\ all_settings' = all_settings
      BY <1>5 DEF OpenFails, registryVars, diskVars
    <2>4. current' = Durable!Updated(current, request)
      BY <2>1, <2>2, AppliedAsPromised DEF Complete
    <2>5. durable' = durable
      BY <2>3 DEF Complete, Loaded
    <2> QED
      BY <2>1, <2>3, <2>4, <2>5 DEF Durable!Next, Durable!Apply
  <1>6. CASE Rename
    <2>1. /\ lock # "free" /\ pc = "rename" /\ pending = {} /\ request \in Requests
          /\ tmp = all_settings /\ all_settings \in JsonObject
      BY <1>6 DEF Rename, SettingsInv, CallInv
    <2>2. Visible = before /\ Visible' = all_settings
      BY <1>6, <2>1 DEF Rename, Visible, registryVars
    <2>3. Loaded(file)' = all_settings /\ registered' = registered
      BY <1>6, <2>1, LoadedObject DEF Rename, Loaded, registryVars
    <2>4. current' = Durable!Updated(current, request)
      BY <2>1, <2>2, AppliedAsPromised DEF Complete
    <2>5. durable' = current'
      BY <2>2, <2>3 DEF Complete
    <2> QED
      BY <2>1, <2>3, <2>4, <2>5 DEF Durable!Next, Durable!Apply
  <1>7. CASE Crash
    <2>1. Visible' = Loaded(file) /\ file' = file /\ registered' = {}
      BY <1>7 DEF Crash, Visible, diskVars
    <2>2. current' = durable /\ durable' = durable
      BY <2>1 DEF Complete, Loaded
    <2> QED
      BY <2>1, <2>2 DEF Durable!Next, Durable!Restart
  <1> QED
    BY <1>1, <1>2, <1>3, <1>4, <1>5, <1>6, <1>7 DEF Next, Durable!Next

\* Where no write is short, the registry is as durable as DurableSettings: a POST
\* takes effect as a whole or not at all, survives unless the file could not be
\* opened, and a restart brings back what was last made durable
\* (settings.cpp:35-51 and 87-114).
THEOREM Durability ==
    ASSUME "short" \notin Faults
    PROVE  Spec => ImplementsDurable
  <1>1. Init => SettingsInv /\ Durable!Init
    <2> SUFFICES ASSUME Init PROVE SettingsInv /\ Durable!Init
      OBVIOUS
    <2>1. file \in JsonObject \cup {NoFile, Garbage} /\ all_settings = Loaded(file)
      BY SettingsAssumption DEF Init
    <2>2. RegistryInv
      BY DEF Init, RegistryInv, LiveMatchesPublished, Empty
    <2>3. CallInv
      BY <2>1, LoadedObject DEF Init, CallInv
    <2>4. Complete(Loaded(file)) \in [Names -> Json]
      BY <2>1, LoadedObject, ObjectValues, SettingsAssumption DEF Complete
    <2>5. Visible = Loaded(file) /\ registered = {}
      BY DEF Init, Visible
    <2> QED
      BY <2>2, <2>3, <2>4, <2>5 DEF SettingsInv, Durable!Init
  <1>2. SettingsInv /\ [Next]_vars => SettingsInv'
    BY RegistryStepKeeps, CallStepKeeps DEF SettingsInv
  <1>3. SettingsInv /\ [Next]_vars => [Durable!Next]_(Durable!durableVars)
    BY StepImplements
  <1> QED
    BY <1>1, <1>2, <1>3, PTL DEF Spec, ImplementsDurable, Durable!Spec
-----------------------------------------------------------------------------
(* Types, whatever the disk does.                                          *)

\* Once the items are through, none is left; before a call there is no request.
TypeInv ==
    /\ TypeOK
    /\ pc # "items" => pending = {}

\* An item replaced in an object, or added to it, leaves an object.
LEMMA ReplacedItem ==
    ASSUME NEW m \in JsonObject, NEW n \in DOMAIN m, NEW j \in Json
    PROVE  /\ [m EXCEPT ![n] = j] \in JsonObject
           /\ DOMAIN [m EXCEPT ![n] = j] = DOMAIN m
  <1>1. DOMAIN m \in SUBSET AllNames /\ m \in [DOMAIN m -> Json]
    BY DEF JsonObject
  <1>2. [m EXCEPT ![n] = j] \in [DOMAIN m -> Json]
    BY <1>1
  <1> QED
    BY <1>1, <1>2, ObjectOf

\* What a parameter makes of a value it does not refuse is one.
LEMMA LiveType ==
    ASSUME NEW n \in Names, NEW j \in Json
    PROVE  Live(n, j) \in Json
  BY SettingsAssumption DEF Live

\* One step, also one that writes half a file.
LEMMA TypeStep ==
    ASSUME TypeInv, [Next]_vars
    PROVE  TypeInv'
  <1> USE DEF TypeInv, TypeOK
  <1>1. ASSUME NEW n \in Names, Load(n)
        PROVE  TypeInv'
    <2>1. /\ registered' = registered \cup {n} /\ lock = "free"
          /\ UNCHANGED <<lock, pc, request, pending, tmp, file, crashes>>
      BY <1>1 DEF Load, callVars, diskVars
    <2>2. CASE /\ n \in DOMAIN all_settings
               /\ value' = With(value, n, Live(n, all_settings[n]))
               /\ UNCHANGED all_settings
      <3>1. Live(n, all_settings[n]) \in Json
        BY <2>2, ObjectValues, LiveType
      <3>2. value' \in [registered' -> Json]
        BY <2>1, <2>2, <3>1 DEF With
      <3> QED
        BY <2>1, <2>2, <3>2
    <2>3. CASE /\ n \notin DOMAIN all_settings
               /\ value' = With(value, n, Default[n])
               /\ all_settings' = Entered(n)
      <3>1. value' \in [registered' -> Json]
        BY <2>1, <2>3, SettingsAssumption DEF With
      <3>2. all_settings' \in JsonObject /\ registered' \subseteq DOMAIN all_settings'
        BY <2>1, <2>3, EnteredObject
      <3> QED
        BY <2>1, <3>1, <3>2
    <2> QED
      BY <1>1, <2>2, <2>3 DEF Load
  <1>2. ASSUME NEW t \in Threads, NEW r \in Requests, Begin(t, r)
        PROVE  TypeInv'
    BY <1>2 DEF Begin, registryVars, diskVars
  <1>3. CASE Item
    <2>1. PICK n \in pending :
             /\ pending' = pending \ {n}
             /\ value' = IF Takes(n) THEN [value EXCEPT ![n] = Parse[<<n, request[n]>>]]
                                     ELSE value
             /\ all_settings' = IF Stores(n) THEN [all_settings EXCEPT ![n] = request[n]]
                                             ELSE all_settings
      BY <1>3 DEF Item
    <2>2. /\ UNCHANGED <<registered, lock, pc, request, tmp, file, crashes>>
          /\ pc = "items"
      BY <1>3 DEF Item, diskVars
    <2>3. request \in JsonObject /\ request[n] \in Json
      BY ObjectValues, EmptyObject, SettingsAssumption
    <2>4. value' \in [registered -> Json]
      <3>1. Takes(n) => n \in Names /\ Parse[<<n, request[n]>>] \in Json
        BY <2>3, SettingsAssumption DEF Takes
      <3> QED
        BY <2>1, <3>1
    <2>5. all_settings' \in JsonObject /\ DOMAIN all_settings' = DOMAIN all_settings
      BY <2>1, <2>3, ReplacedItem DEF Stores
    <2> QED
      BY <2>1, <2>2, <2>4, <2>5
  <1>4. CASE Open \/ OpenFails \/ Write \/ Rename \/ Release
    <2>1. Empty \in JsonObject /\ DOMAIN Empty = {}
      BY EmptyObject
    <2>2. UNCHANGED <<registryVars, pending, crashes>> /\ pending = {}
      BY <1>4 DEF Open, OpenFails, Write, Rename, Release
    <2>3. /\ lock' \in {lock, "free"} /\ request' \in {request, Empty}
          /\ pc' \in {"items", "write", "rename", "written"}
          /\ {file', tmp'} \subseteq JsonObject \cup {NoFile, Garbage}
      BY <1>4 DEF Open, OpenTemporary, OpenFails, Write, Rename, Release, diskVars
    <2> QED
      BY <2>1, <2>2, <2>3 DEF registryVars, Threads
  <1>5. CASE Crash
    <2>1. Loaded(file) \in JsonObject
      BY LoadedObject
    <2>2. Empty \in [{} -> Json]
      BY DEF Empty
    <2> QED
      BY <1>5, <2>1, <2>2, SettingsAssumption DEF Crash, diskVars
  <1>6. CASE UNCHANGED vars
    BY <1>6 DEF vars
  <1> QED
    BY <1>1, <1>2, <1>3, <1>4, <1>5, <1>6 DEF Next

\* TypeOK holds in every reachable state: a parameter has a value of its own type
\* whatever is posted or on file, and the schedule only applies settings when
\* every parameter is there.
THEOREM TypeCorrect == Spec => []TypeOK
  <1>1. Init => TypeInv
    <2> SUFFICES ASSUME Init PROVE TypeInv
      OBVIOUS
    <2>1. file \in JsonObject \cup {NoFile, Garbage} /\ Loaded(file) \in JsonObject
      BY LoadedObject, SettingsAssumption DEF Init
    <2>2. Empty \in [{} -> Json]
      BY DEF Empty
    <2> QED
      BY <2>1, <2>2, SettingsAssumption DEF Init, TypeInv, TypeOK
  <1>2. TypeInv /\ [Next]_vars => TypeInv'
    BY TypeStep
  <1>3. TypeInv => TypeOK
    BY DEF TypeInv
  <1> QED
    BY <1>1, <1>2, <1>3, PTL DEF Spec
=============================================================================
