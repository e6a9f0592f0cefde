-------------------------- MODULE ControlLoopProofs --------------------------
(***************************************************************************)
(* What the control loop guarantees for every set of generic policies,     *)
(* every number of phases, every range of readings and every POST.         *)
(***************************************************************************)
EXTENDS ControlLoop, TLAPS

-----------------------------------------------------------------------------
(* The arithmetic of the policies.                                         *)

\* A red budget is a number.
LEMMA RedBudgetType ==
    ASSUME NEW m \in Int, NEW s \in Situation
    PROVE  RedBudget(m, s) \in Int
BY PhaseCountAssumption DEF RedBudget, Situation

\* The situation the producers leave is one the policies compute integers of.
LEMMA PolicyTypes ==
    ASSUME NEW g \in GenParams, NEW m \in Int, NEW s \in Situation
    PROVE  /\ RedBudget(m, s) \in Int
           /\ PowerBudget(g, s) \in Int
           /\ GenBudget(g, m, s) \in Int
<1>1. RedBudget(m, s) \in Int
  BY RedBudgetType
<1>2. PowerBudget(g, s) \in Int
  <2>1. solar_output(s) \in Int /\ consumption(s) \in Int
    BY DEF solar_output, consumption, Situation
  <2>2. InverterBudget(g, s) \in Int
    BY <2>1 DEF InverterBudget, Lesser, Greater, Situation, GenParams
  <2> QED
    BY <2>1, <2>2 DEF PowerBudget, GenParams
<1> QED
  BY <1>1, <1>2 DEF GenBudget, CappedBudget, Lesser

\* No generic policy's budget exceeds the red policy's (policies.cpp:62-66).
THEOREM RedCapsEveryPolicy ==
    ASSUME NEW p \in Int, NEW m \in Int, NEW s \in Situation
    PROVE  /\ CappedBudget(p, m, s) \in Int
           /\ CappedBudget(p, m, s) <= RedBudget(m, s)
<1>1. RedBudget(m, s) \in Int
  BY RedBudgetType
<1> QED
  BY <1>1 DEF CappedBudget, Lesser

\* The charger is never offered more than the budget, nor told of a negative
\* current (p1out.cpp:127).
LEMMA TelegramBounds ==
    ASSUME NEW b \in Int
    PROVE  /\ FakeCurrent(b) \in Nat
           /\ PhaseCount * ChargerMax - FakeCurrent(b) <= b
<1>1. PhaseCount * ChargerMax \in Int
  BY PhaseCountAssumption, ControlLoopAssumption
<1> QED
  BY <1>1 DEF FakeCurrent, Greater

-----------------------------------------------------------------------------
(* Types.                                                                  *)

\* What a poll leaves of the old situation and the new readings is a situation.
LEMMA MergeType ==
    ASSUME TypeOK, NEW r \in Readings, NEW fresh
    PROVE  Merge(r, fresh) \in Situation
BY ControlLoopAssumption DEF Merge, TypeOK, Situation

\* A scheduled switch sets two settings and leaves the others.
LEMMA AfterSwitchValue ==
    ASSUME TypeOK
    PROVE  /\ AfterSwitch \in [Names -> Int]
           /\ AfterSwitch.max_current = setting.max_current
<1>1. [setting EXCEPT !.active_policy = switch] \in [Names -> Int]
  BY DEF TypeOK, Names, Rank
<1> DEFINE first == [setting EXCEPT !.active_policy = switch]
<1>2. [first EXCEPT !.next_time = 0] \in [Names -> Int]
  <2> HIDE DEF first
  <2>1. first \in [Names -> Int]
    BY <1>1 DEF first
  <2> QED  BY <2>1 DEF Names, Rank
<1>3. first.max_current = setting.max_current
  BY DEF TypeOK, Names, Rank
<1>4. [first EXCEPT !.next_time = 0].max_current = first.max_current
  <2>1. first \in [Names -> Int]
    BY <1>1
  <2> HIDE DEF first
  <2> QED  BY <2>1 DEF Names, Rank
<1> QED
  BY <1>2, <1>3, <1>4, Zenon DEF AfterSwitch

\* The control loop's variables keep their types: in particular the telegram
\* never carries a negative current (p1out.cpp:127), and a policy is only ever
\* applied that exists (core.cpp:138).
THEOREM TypeCorrect == Spec => []TypeOK
<1> USE DEF Names, Rank
<1>1. Init => TypeOK
  BY ControlLoopAssumption DEF Init, TypeOK, Labels, NoRequest, InitialSituation,
     Situation, None
<1>2. TypeOK /\ [Next]_vars => TypeOK'
  <2> SUFFICES ASSUME TypeOK, [Next]_vars PROVE TypeOK'
    OBVIOUS
  <2> USE DEF settingsVars, policyVars, outputVars, mainOnly
  <2>1. CASE Poll
    BY <2>1, MergeType DEF Poll, TypeOK, Labels
  <2>2. CASE Schedule
    BY <2>2 DEF Schedule, TypeOK, Labels
  <2>3. CASE ReadSwitch
    BY <2>3 DEF ReadSwitch, TypeOK, Labels
  <2>4. CASE ApplySwitch
    <3>1. AfterSwitch \in [Names -> Int]
      BY AfterSwitchValue DEF TypeOK
    <3> QED
      BY <2>4, <3>1 DEF ApplySwitch, TypeOK, Labels
  <2>5. CASE Find
    BY <2>5 DEF Find, TypeOK, Labels
  <2>6. CASE Compare
    BY <2>6 DEF Compare, AfterCompare, TypeOK, Labels
  <2>7. CASE Mark
    BY <2>7 DEF Mark, TypeOK, Labels
  <2>8. CASE Apply
    <3>1. RedBudget(setting.max_current, sit) \in Int
      BY PhaseCountAssumption DEF RedBudget, Situation, TypeOK
    <3>2. CASE found = Red
      BY <2>8, <3>1, <3>2, ControlLoopAssumption DEF Apply, TypeOK, Labels, Red,
         PolicyIndices
    <3>3. CASE found \in DOMAIN Gen
      <4>1. PowerBudget(Gen[found], sit) \in Int
        BY <3>3, PolicyTypes, ControlLoopAssumption DEF TypeOK
      <4> QED
        BY <2>8, <3>1, <3>3, <4>1, ControlLoopAssumption DEF Apply, TypeOK, Labels,
           Red, PolicyIndices
    <3>4. CASE found \notin PolicyIndices
      BY <2>8, <3>4 DEF Apply, TypeOK, Labels, PolicyIndices
    <3> QED
      BY <3>2, <3>3, <3>4 DEF PolicyIndices
  <2>9. CASE Cap
    <3>1. CappedBudget(power, setting.max_current, sit) \in Int
      BY RedCapsEveryPolicy DEF TypeOK
    <3> QED
      BY <2>9, <3>1 DEF Cap, TypeOK, Labels
  <2>10. CASE P1Out
    BY <2>10, TelegramBounds DEF P1Out, TypeOK, Labels
  <2>11. CASE Monitor
    BY <2>11 DEF Monitor, TypeOK, Labels
  <2>12. CASE HttpBegin
    BY <2>12, ControlLoopAssumption DEF HttpBegin, LockFree, TypeOK
  <2>13. CASE HttpItem
    <3> PICK n \in pending :
          /\ setting' = [setting EXCEPT ![n] = request[n]]
          /\ pending' = pending \ {n}
          /\ limits' = limits \cup {setting'.max_current}
      BY <2>13 DEF HttpItem
    <3>1. request \in Requests
      BY DEF TypeOK, NoRequest
    <3>2. n \in Names /\ request[n] \in Int
      BY <3>1, ControlLoopAssumption DEF TypeOK
    <3>3. setting' \in [Names -> Int]
      BY <3>2 DEF TypeOK
    <3>4. setting'.max_current \in Int
      BY <3>3, ControlLoopAssumption
    <3>5. UNCHANGED <<lock, request, posts, now, mainOnly>>
      BY <2>13 DEF HttpItem
    <3> QED
      BY <3>3, <3>4, <3>5 DEF TypeOK, mainOnly
  <2>14. CASE HttpEnd
    BY <2>14 DEF HttpEnd, TypeOK
  <2>15. CASE Tick
    BY <2>15, ControlLoopAssumption DEF Tick, TypeOK
  <2>16. CASE UNCHANGED vars
    BY <2>16 DEF vars, TypeOK
  <2> QED
    BY <2>1, <2>2, <2>3, <2>4, <2>5, <2>6, <2>7, <2>8, <2>9, <2>10, <2>11,
       <2>12, <2>13, <2>14, <2>15, <2>16 DEF Next, Main, Http
<1> QED
  BY <1>1, <1>2, PTL DEF Spec

-----------------------------------------------------------------------------
(* The offer stays within the breaker.                                     *)

\* OfferWithinBreaker speaks of the end of a pass.  What makes it so: the limit
\* in force is always among those seen in the pass; once a known policy has
\* been applied, the budget is within one of them; and the telegram is made of
\* that very budget.
BudgetWithinBreaker == \E m \in limits : budget <= RedBudget(m, sit)

BreakerInv ==
    /\ setting.max_current \in limits
    /\ pc \in {"p1out", "monitor"} /\ found \in PolicyIndices => BudgetWithinBreaker
    /\ pc = "monitor" => telegram = FakeCurrent(budget)

\* At the end of a pass BreakerInv says what OfferWithinBreaker does.
LEMMA BreakerInvImpliesOffer == TypeOK /\ BreakerInv => OfferWithinBreaker
<1> SUFFICES ASSUME TypeOK, BreakerInv, pc = "monitor", found \in PolicyIndices
             PROVE  \E m \in limits : Offer <= RedBudget(m, sit)
  BY DEF OfferWithinBreaker
<1>1. PICK m \in limits : budget <= RedBudget(m, sit)
  BY DEF BreakerInv, BudgetWithinBreaker
<1>2. Offer <= budget
  BY TelegramBounds DEF Offer, BreakerInv, TypeOK
<1>3. Offer \in Int /\ budget \in Int /\ RedBudget(m, sit) \in Int
  BY PhaseCountAssumption, ControlLoopAssumption
  DEF Offer, TypeOK, RedBudget, Situation
<1>4. Offer <= RedBudget(m, sit)
  BY <1>1, <1>2, <1>3
<1> QED
  BY <1>4

\* Once a known policy's telegram is out, the most loaded phase plus the offered
\* current is within a max_current that was in force during the pass, for every
\* number of phases, any generic policies, readings, failures of reads and POSTs
\* (policies.cpp:62-66, p1out.cpp:127).
THEOREM BreakerSafe == Spec => []OfferWithinBreaker
<1>1. Init => BreakerInv
  BY DEF Init, BreakerInv
<1>2. TypeOK /\ BreakerInv /\ [Next]_vars => BreakerInv'
  <2> SUFFICES ASSUME TypeOK, BreakerInv, [Next]_vars PROVE BreakerInv'
    OBVIOUS
  <2> USE DEF settingsVars, policyVars, outputVars, mainOnly, PolicyIndices
  <2>0. setting.max_current \in Int /\ sit \in Situation
    BY DEF TypeOK, Names, Rank
  <2>1. CASE Poll
    BY <2>1 DEF Poll, BreakerInv
  <2>2. CASE Schedule
    BY <2>2 DEF Schedule, BreakerInv
  <2>3. CASE ReadSwitch
    BY <2>3 DEF ReadSwitch, BreakerInv
  <2>4. CASE ApplySwitch
    BY <2>4, AfterSwitchValue DEF ApplySwitch, BreakerInv
  <2>5. CASE Find
    BY <2>5 DEF Find, BreakerInv
  <2>6. CASE Compare
    BY <2>6 DEF Compare, AfterCompare, BreakerInv
  <2>7. CASE Mark
    BY <2>7 DEF Mark, BreakerInv
  <2>8. CASE Apply
    <3> USE <2>8 DEF Apply
    <3>1. CASE found = Red
      <4>1. budget' = RedBudget(setting.max_current, sit)
        BY <3>1, ControlLoopAssumption DEF Red
      <4>2. budget' <= RedBudget(setting.max_current, sit)
        <5>1. RedBudget(setting.max_current, sit) \in Int
          BY <2>0, RedBudgetType
        <5> QED
          BY <4>1, <5>1
      <4>3. BudgetWithinBreaker'
        BY <4>2 DEF BudgetWithinBreaker, BreakerInv
      <4> QED
        BY <3>1, <4>3, ControlLoopAssumption DEF BreakerInv, Red
    <3>2. CASE found \in DOMAIN Gen
      BY <3>2, ControlLoopAssumption DEF BreakerInv, Red
    <3>3. CASE found \notin PolicyIndices
      BY <3>3, ControlLoopAssumption DEF BreakerInv, Red
    <3> QED
      BY <3>1, <3>2, <3>3
  <2>9. CASE Cap
    <3>1. budget' <= RedBudget(setting.max_current, sit)
      BY <2>0, <2>9, RedCapsEveryPolicy DEF Cap, TypeOK
    <3>2. BudgetWithinBreaker'
      BY <2>9, <3>1 DEF Cap, BudgetWithinBreaker, BreakerInv
    <3> QED
      BY <2>9, <3>2 DEF Cap, BreakerInv
  <2>10. CASE P1Out
    BY <2>10 DEF P1Out, BreakerInv, BudgetWithinBreaker, FakeCurrent
  <2>11. CASE Monitor
    BY <2>11 DEF Monitor, BreakerInv
  <2>12. CASE HttpBegin
    BY <2>12 DEF HttpBegin, BreakerInv, BudgetWithinBreaker, FakeCurrent
  <2>13. CASE HttpItem
    <3>1. setting'.max_current \in limits' /\ limits \subseteq limits'
      BY <2>13 DEF HttpItem
    <3>2. UNCHANGED <<pc, sit, found, budget, telegram>>
      BY <2>13 DEF HttpItem
    <3>3. BudgetWithinBreaker => BudgetWithinBreaker'
      BY <3>1, <3>2 DEF BudgetWithinBreaker
    <3> QED
      BY <3>1, <3>2, <3>3 DEF BreakerInv, FakeCurrent
  <2>14. CASE HttpEnd
    BY <2>14 DEF HttpEnd, BreakerInv, BudgetWithinBreaker, FakeCurrent
  <2>15. CASE Tick
    BY <2>15 DEF Tick, BreakerInv, BudgetWithinBreaker, FakeCurrent
  <2>16. CASE UNCHANGED vars
    BY <2>16 DEF vars, BreakerInv, BudgetWithinBreaker, FakeCurrent
  <2> QED
    BY <2>1, <2>2, <2>3, <2>4, <2>5, <2>6, <2>7, <2>8, <2>9, <2>10, <2>11,
       <2>12, <2>13, <2>14, <2>15, <2>16 DEF Next, Main, Http
<1> QED
  BY <1>1, <1>2, TypeCorrect, BreakerInvImpliesOffer, PTL DEF Spec

-----------------------------------------------------------------------------
(* A POST is applied as a whole.                                           *)

\* Under the lock, every item already visited is in force.
PostInv == lock = "http" => \A n \in DOMAIN request \ pending : setting[n] = request[n]

\* When the web thread lets go of the settings lock, everything the POST asked
\* to set is in force, whatever the schedule does (settings.cpp:93-113).
THEOREM PostApplied == Spec => PostAtomic
<1>1. Init => PostInv
  BY DEF Init, PostInv
<1>2. TypeOK /\ PostInv /\ [Next]_vars => PostInv'
  <2> SUFFICES ASSUME TypeOK, PostInv, [Next]_vars PROVE PostInv'
    OBVIOUS
  <2> USE DEF settingsVars, policyVars, outputVars, mainOnly
  <2>1. CASE ApplySwitch
    BY <2>1 DEF ApplySwitch, LockFree, PostInv
  <2>2. CASE Main /\ ~ApplySwitch
    BY <2>2 DEF Main, Poll, Schedule, ReadSwitch, Find, Compare, Mark, Apply, Cap,
       P1Out, Monitor, PostInv
  <2>3. CASE HttpBegin
    BY <2>3 DEF HttpBegin, PostInv
  <2>4. CASE HttpItem
    <3> PICK n \in pending : /\ setting' = [setting EXCEPT ![n] = request[n]]
                             /\ pending' = pending \ {n}
      BY <2>4 DEF HttpItem
    <3>1. n \in Names
      BY ControlLoopAssumption DEF TypeOK, NoRequest
    <3>2. request' = request /\ lock = "http"
      BY <2>4 DEF HttpItem
    <3>3. DOMAIN request \subseteq Names
      BY ControlLoopAssumption DEF TypeOK, NoRequest
    <3> SUFFICES ASSUME NEW k \in DOMAIN request, k \notin pending'
                 PROVE  setting'[k] = request[k]
      BY <3>2 DEF PostInv
    <3>4. CASE k = n
      BY <3>1, <3>4 DEF TypeOK
    <3>5. CASE k # n
      BY <3>2, <3>3, <3>5 DEF TypeOK, PostInv
    <3> QED
      BY <3>4, <3>5
  <2>5. CASE HttpEnd
    BY <2>5 DEF HttpEnd, PostInv
  <2>6. CASE Tick
    BY <2>6 DEF Tick, PostInv
  <2>7. CASE UNCHANGED vars
    BY <2>7 DEF vars, PostInv
  <2> QED
    BY <2>1, <2>2, <2>3, <2>4, <2>5, <2>6, <2>7 DEF Next, Http
<1>3. TypeOK /\ PostInv /\ [Next]_vars =>
        [lock = "http" /\ lock' = "free" =>
           \A n \in DOMAIN request : setting'[n] = request[n]]_vars
  <2> SUFFICES ASSUME PostInv, Next, lock = "http", lock' = "free"
               PROVE  \A n \in DOMAIN request : setting'[n] = request[n]
    OBVIOUS
  <2>1. ~Main /\ ~HttpBegin /\ ~HttpItem /\ ~Tick
    BY DEF Main, Poll, Schedule, ReadSwitch, ApplySwitch, Find, Compare, Mark,
       Apply, Cap, P1Out, Monitor, HttpBegin, HttpItem, Tick, settingsVars, mainOnly,
       LockFree
  <2>2. HttpEnd
    BY <2>1 DEF Next, Http
  <2> QED
    BY <2>2 DEF HttpEnd, PostInv
<1> QED
  BY <1>1, <1>2, <1>3, TypeCorrect, PTL DEF Spec, PostAtomic
=============================================================================
