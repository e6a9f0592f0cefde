--------------------------- MODULE ClosedLoopProofs ---------------------------
(***************************************************************************)
(* For every number of phases, every plant and every policy: whatever the  *)
(* page sets and however the doubles are rounded, the numbers of the loop  *)
(* are numbers, and a pass that nobody disturbs leaves the plant within    *)
(* the breaker's limit and within what a generic policy counts on.         *)
(*                                                                         *)
(* The sum and the maximum over the phases are defined by recursion and by *)
(* choice.  What is claimed of them goes by the least number of phases for *)
(* which it would be wrong.                                                *)
(***************************************************************************)
EXTENDS ClosedLoop, WellFoundedInduction, TLAPS

-----------------------------------------------------------------------------
(* The phases.                                                             *)

\* There is a least one.
LEMMA Least ==
    ASSUME NEW T \in SUBSET Nat, T # {}
    PROVE  \E x \in T : \A y \in T : x <= y
  <1>1. \E x \in T : \A y \in T : ~(<<y, x>> \in OpToRel(<, Nat))
    BY NatLessThanWellFounded, WFMin
  <1>2. PICK x \in T : \A y \in T : ~(<<y, x>> \in OpToRel(<, Nat))
    BY <1>1
  <1>3. ASSUME NEW y \in T PROVE x <= y
    <2>1. ~(y < x)
      BY <1>2 DEF OpToRel
    <2> QED
      BY <2>1
  <1> QED
    BY <1>3

\* The first m phases have a highest value.
Highest(f, m) == \E k \in 1..m : \A j \in 1..m : f[k] >= f[j]

\* So do all of them.
LEMMA HighestThere ==
    ASSUME NEW f, NEW n \in Nat \ {0}, \A k \in 1..n : f[k] \in Int
    PROVE  Highest(f, n)
  <1> DEFINE T == {m \in 1..n : ~Highest(f, m)}
  <1>1. ASSUME NEW m \in T, \A y \in T : m <= y PROVE FALSE
    <2>1. m \in 1..n /\ ~Highest(f, m)
      OBVIOUS
    <2>2. m # 1
      <3>1. f[1] \in Int /\ \A j \in 1..1 : j = 1
        OBVIOUS
      <3>2. Highest(f, 1)
        BY <3>1 DEF Highest
      <3> QED
        BY <2>1, <3>2
    <2>3. m - 1 \in 1..n /\ m - 1 \notin T
      BY <1>1, <2>1, <2>2
    <2>4. PICK k \in 1..m - 1 : \A j \in 1..m - 1 : f[k] >= f[j]
      BY <2>3 DEF Highest
    <2>5. \A j \in 1..m : j = m \/ j \in 1..m - 1
      BY <2>1
    <2>6. f[k] \in Int /\ f[m] \in Int /\ k \in 1..m /\ m \in 1..m
      BY <2>1, <2>4
    <2>7. CASE f[k] >= f[m]
      BY <2>1, <2>4, <2>5, <2>6, <2>7 DEF Highest
    <2>8. CASE ~(f[k] >= f[m])
      <3>1. \A j \in 1..m - 1 : f[j] \in Int
        BY <2>1
      <3>2. \A j \in 1..m : f[m] >= f[j]
        BY <2>4, <2>5, <2>6, <2>8, <3>1
      <3> QED
        BY <2>1, <2>6, <3>2 DEF Highest
    <2> QED
      BY <2>7, <2>8
  <1>2. T \in SUBSET Nat
    OBVIOUS
  <1>3. T = {}
    BY <1>1, <1>2, Least, Zenon
  <1>4. n \in 1..n
    OBVIOUS
  <1> QED
    BY <1>3, <1>4

\* The most loaded phase.
LEMMA PeakInt ==
    ASSUME PhaseCountAssumption, NEW f, \A p \in Phase : f[p] \in Int
    PROVE  Peak(f) \in Int /\ \A p \in Phase : Peak(f) >= f[p]
  <1>1. PhaseCount \in Nat \ {0} /\ Phase = 1..PhaseCount
    BY DEF PhaseCountAssumption, Phase
  <1>2. PICK k \in Phase : \A p \in Phase : f[k] >= f[p]
    BY <1>1, HighestThere DEF Highest
  <1> DEFINE S == {f[p] : p \in Phase}
  <1>3. \E x \in S : \A y \in S : x >= y
    BY <1>2
  <1>4. Max(S) \in S /\ \A y \in S : Max(S) >= y
    BY <1>3 DEF Max
  <1> QED
    BY <1>4 DEF Peak

\* g adds up the first n phases.
Adding(g, f, n) == g = [k \in 0..n |-> IF k = 0 THEN 0 ELSE g[k - 1] + f[k]]

\* Some function does.
LEMMA AddingThere ==
    ASSUME NEW f, NEW n \in Nat
    PROVE  \E g : Adding(g, f, n)
  <1> DEFINE T == {m \in Nat : ~\E g : Adding(g, f, m)}
  <1>1. ASSUME NEW m \in T, \A y \in T : m <= y PROVE FALSE
    <2>1. m \in Nat /\ ~\E g : Adding(g, f, m)
      OBVIOUS
    <2>2. m # 0
      <3>1. PICK g : g = [k \in 0..0 |-> 0]
        OBVIOUS
      <3>2. Adding(g, f, 0)
        BY <3>1 DEF Adding
      <3> QED
        BY <2>1, <3>2
    <2>3. m - 1 \in Nat /\ m - 1 \notin T
      BY <1>1, <2>1, <2>2
    <2>4. PICK g : Adding(g, f, m - 1)
      BY <2>3
    <2>5. PICK h : h = [k \in 0..m |-> IF k = m THEN g[m - 1] + f[m] ELSE g[k]]
      OBVIOUS
    <2>6. ASSUME NEW k \in 0..m PROVE h[k] = IF k = 0 THEN 0 ELSE h[k - 1] + f[k]
      <3>1. CASE k = 0
        BY <2>1, <2>2, <2>4, <2>5, <3>1 DEF Adding
      <3>2. CASE k # 0 /\ k # m
        <4>1. k \in 0..m - 1 /\ k - 1 \in 0..m /\ k - 1 # m
          BY <2>1, <3>2
        <4> QED
          BY <2>4, <2>5, <3>2, <4>1 DEF Adding
      <3>3. CASE k = m
        <4>1. k - 1 \in 0..m /\ k - 1 # m
          BY <2>1, <2>2, <3>3
        <4> QED
          BY <2>1, <2>2, <2>5, <3>3, <4>1
      <3> QED
        BY <3>1, <3>2, <3>3
    <2>7. Adding(h, f, m)
      BY <2>5, <2>6 DEF Adding
    <2> QED
      BY <2>1, <2>7
  <1>2. T \in SUBSET Nat
    OBVIOUS
  <1>3. T = {}
    BY <1>1, <1>2, Least, Zenon
  <1> QED
    BY <1>3

\* What adds up integers gives one.
LEMMA AddingInt ==
    ASSUME NEW f, NEW n \in Nat, \A k \in 1..n : f[k] \in Int, NEW g, Adding(g, f, n)
    PROVE  \A k \in 0..n : g[k] \in Int
  <1> DEFINE T == {m \in 0..n : g[m] \notin Int}
  <1>1. ASSUME NEW m \in T, \A y \in T : m <= y PROVE FALSE
    <2>1. m \in 0..n /\ g[m] \notin Int
      OBVIOUS
    <2>2. m # 0
      BY <2>1 DEF Adding
    <2>3. m - 1 \in 0..n /\ m - 1 \notin T
      BY <1>1, <2>1, <2>2
    <2>4. g[m - 1] \in Int /\ g[m] = g[m - 1] + f[m] /\ f[m] \in Int
      BY <2>1, <2>2, <2>3 DEF Adding
    <2> QED
      BY <2>1, <2>4
  <1>2. T \in SUBSET Nat
    OBVIOUS
  <1>3. T = {}
    BY <1>1, <1>2, Least, Zenon
  <1> QED
    BY <1>3

\* All phases together.
LEMMA TotalInt ==
    ASSUME PhaseCountAssumption, NEW f, \A p \in Phase : f[p] \in Int
    PROVE  Total(f) \in Int
  <1>1. PhaseCount \in Nat /\ PhaseCount \in 0..PhaseCount /\ \A k \in 1..PhaseCount : f[k] \in Int
    BY DEF PhaseCountAssumption, Phase
  <1> DEFINE sum == CHOOSE g : Adding(g, f, PhaseCount)
  <1>2. Adding(sum, f, PhaseCount)
    BY <1>1, AddingThere
  <1>3. sum[PhaseCount] \in Int
    BY <1>1, <1>2, AddingInt
  <1>4. Total(f) = sum[PhaseCount]
    BY DEF Total, Adding
  <1> QED
    BY <1>3, <1>4

\* What adds up larger numbers grows by the difference at most.
LEMMA AddingGrows ==
    ASSUME NEW n \in Nat, NEW d \in Int, NEW e, NEW f,
           \A k \in 1..n : e[k] \in Int /\ f[k] \in Int /\ f[k] <= e[k] + d,
           NEW g, Adding(g, e, n), NEW h, Adding(h, f, n)
    PROVE  \A k \in 0..n : h[k] <= g[k] + k * d
  <1> DEFINE T == {m \in 0..n : ~(h[m] <= g[m] + m * d)}
  <1>0. \A k \in 0..n : g[k] \in Int /\ h[k] \in Int
    BY AddingInt
  <1>1. ASSUME NEW m \in T, \A y \in T : m <= y PROVE FALSE
    <2>1. m \in 0..n /\ m \in Int /\ ~(h[m] <= g[m] + m * d)
      OBVIOUS
    <2>2. m # 0
      BY <1>0, <2>1 DEF Adding
    <2>3. m - 1 \in 0..n /\ m \in 1..n /\ m - 1 \notin T
      BY <1>1, <2>1, <2>2
    <2>4. h[m - 1] <= g[m - 1] + (m - 1) * d
      BY <2>3
    <2>5. g[m] = g[m - 1] + e[m] /\ h[m] = h[m - 1] + f[m]
      BY <2>1, <2>2 DEF Adding
    <2>6. e[m] \in Int /\ f[m] \in Int /\ f[m] <= e[m] + d
      BY <2>3
    <2>7. g[m - 1] \in Int /\ h[m - 1] \in Int
      BY <1>0, <2>3
    <2>8. (m - 1) * d = m * d - d /\ m * d \in Int
      BY <2>1
    <2> QED
      BY <2>1, <2>4, <2>5, <2>6, <2>7, <2>8
  <1>2. T \in SUBSET Nat
    OBVIOUS
  <1>3. T = {}
    BY <1>1, <1>2, Least, Zenon
  <1> QED
    BY <1>3

\* So does what all phases draw together.
LEMMA TotalGrows ==
    ASSUME PhaseCountAssumption, NEW d \in Int, NEW e, NEW f,
           \A p \in Phase : e[p] \in Int /\ f[p] \in Int /\ f[p] <= e[p] + d
    PROVE  Total(f) <= Total(e) + PhaseCount * d
  <1>1. /\ PhaseCount \in Nat /\ PhaseCount \in 0..PhaseCount
        /\ \A k \in 1..PhaseCount : e[k] \in Int /\ f[k] \in Int /\ f[k] <= e[k] + d
    BY DEF PhaseCountAssumption, Phase
  <1> DEFINE g == CHOOSE g : Adding(g, e, PhaseCount)
             h == CHOOSE h : Adding(h, f, PhaseCount)
  <1>2. Adding(g, e, PhaseCount) /\ Adding(h, f, PhaseCount)
    BY <1>1, AddingThere
  <1> HIDE DEF g, h
  <1>3. h[PhaseCount] <= g[PhaseCount] + PhaseCount * d
    BY <1>1, <1>2, AddingGrows
  <1>4. Total(e) = g[PhaseCount] /\ Total(f) = h[PhaseCount]
    BY DEF Total, Adding, g, h
  <1> QED
    BY <1>3, <1>4

-----------------------------------------------------------------------------
(* The arithmetic of the plant.                                            *)

\* A number that a larger multiple exceeds is the smaller one.
LEMMA Cancelled ==
    ASSUME NEW n \in Nat \ {0}, NEW x \in Int, NEW y \in Int, n * x < n * y
    PROVE  x < y
  <1> SUFFICES ASSUME x >= y PROVE FALSE
    OBVIOUS
  <1>1. PICK z \in Nat : x = y + z
    <2>1. x - y \in Nat /\ x = y + (x - y)
      OBVIOUS
    <2> QED
      BY <2>1
  <1>2. n * z \in Nat /\ n * x = n * y + n * z
    BY <1>1
  <1>3. n * y \in Int
    OBVIOUS
  <1> QED
    BY <1>2, <1>3

\* Truncating moves a quotient by less than one.
LEMMA QuotientNear ==
    ASSUME NEW n \in Nat \ {0}, NEW x \in Int
    PROVE  /\ Quotient(x, n) \in Int
           /\ n * (Quotient(x, n) - 1) < x
           /\ x < n * (Quotient(x, n) + 1)
  <1>1. ASSUME NEW y \in Nat
        PROVE  y \div n \in Int /\ n * (y \div n) <= y /\ y < n * ((y \div n) + 1)
    <2>1. y \div n \in Int /\ n * (y \div n) <= y /\ y < n * (y \div n) + n
      OBVIOUS
    <2>2. n * ((y \div n) + 1) = n * (y \div n) + n
      BY <2>1
    <2> QED
      BY <2>1, <2>2
  <1>2. CASE x >= 0
    <2>1. x \in Nat /\ Quotient(x, n) = x \div n
      BY <1>2 DEF Quotient
    <2>2. PICK q \in Int : q = x \div n
      BY <1>1, <2>1
    <2>3. n * q <= x /\ x < n * (q + 1)
      BY <1>1, <2>1, <2>2
    <2>4. n * (q - 1) = n * q - n
      OBVIOUS
    <2>5. n * (q - 1) < x
      BY <2>3, <2>4
    <2> QED
      BY <2>1, <2>2, <2>3, <2>5
  <1>3. CASE x < 0
    <2>1. -x \in Nat /\ Quotient(x, n) = -((-x) \div n)
      BY <1>3 DEF Quotient
    <2>2. PICK q \in Int : q = (-x) \div n
      BY <1>1, <2>1
    <2>3. n * q <= -x /\ -x < n * (q + 1)
      BY <1>1, <2>1, <2>2
    <2>4. n * (-q - 1) = -(n * (q + 1)) /\ n * (-q + 1) = -(n * q) + n
      OBVIOUS
    <2>5. n * (q + 1) \in Int /\ n * q \in Int
      OBVIOUS
    <2>6. n * (-q - 1) < x /\ x < n * (-q + 1)
      BY <2>3, <2>4, <2>5
    <2> QED
      BY <2>1, <2>2, <2>6
  <1> QED
    BY <1>2, <1>3

\* Whole steps and one watt more move a quotient by the steps and at most one.
LEMMA QuotientSteps ==
    ASSUME NEW n \in Nat \ {0}, NEW a \in Int, NEW b \in Int, NEW k \in Int,
           a <= b + n * k + 1
    PROVE  Quotient(a, n) <= Quotient(b, n) + k + 1
  <1>1. PICK q \in Int : q = Quotient(a, n) /\ n * (q - 1) < a
    BY QuotientNear
  <1>2. PICK r \in Int : r = Quotient(b, n) /\ b < n * (r + 1)
    BY QuotientNear
  <1>3. n * (r + 1 + k) = n * (r + 1) + n * k
    OBVIOUS
  <1>4. n * (r + 1) \in Int /\ n * k \in Int /\ n * (q - 1) \in Int
    OBVIOUS
  <1>5. n * (q - 1) < n * (r + 1 + k)
    BY <1>1, <1>2, <1>3, <1>4
  <1>6. q - 1 < r + 1 + k
    BY <1>5, Cancelled
  <1> QED
    BY <1>1, <1>2, <1>6

-----------------------------------------------------------------------------
(* The loop.                                                               *)

\* What the plant measures is a situation, and no phase carries more than its
\* peak.
LEMMA MeasuredThere ==
    ASSUME PhaseCountAssumption, i \in Input, car_power \in Int, NEW b \in Int
    PROVE  /\ Measured(b) \in Situation
           /\ \A p \in Phase : /\ Load[p] \in Int
                               /\ Load[p] - Quotient(b, PhaseCount) <= Measured(b).peak
  <1>1. PhaseCount \in Nat \ {0} /\ Phase = 1..PhaseCount
    BY DEF PhaseCountAssumption, Phase
  <1>2. /\ i.solar_power \in Nat /\ i.battery_state \in Int
        /\ i.house_power \in Seq(Int)
    <2>1. /\ i.solar_power \in Nat /\ i.battery_state \in 0..100
          /\ i.house_power \in Seq(Int)
      BY DEF Input
    <2>2. \A s \in 0..100 : s \in Int
      OBVIOUS
    <2> QED
      BY <2>1, <2>2, Zenon
  <1>3. ASSUME NEW p \in Phase PROVE House[p] \in Int
    BY <1>1, <1>2, <1>3 DEF House
  <1>4. Quotient(car_power - i.solar_power, PhaseCount) \in Int
    <2>1. car_power - i.solar_power \in Int
      BY <1>2
    <2> QED
      BY <1>1, <2>1, QuotientNear
  <1>5. ASSUME NEW p \in Phase PROVE Load[p] \in Int
    BY <1>3, <1>4 DEF Load
  <1>6. Quotient(b, PhaseCount) \in Int
    BY <1>1, QuotientNear
  <1> DEFINE grid == [p \in Phase |-> Load[p] - Quotient(b, PhaseCount)]
  <1>7. \A p \in Phase : grid[p] \in Int /\ grid[p] = Load[p] - Quotient(b, PhaseCount)
    BY <1>5, <1>6
  <1> HIDE DEF grid
  <1>8. Total(grid) \in Int
    BY <1>7, TotalInt
  <1>9. Peak(grid) \in Int /\ \A p \in Phase : Peak(grid) >= grid[p]
    BY <1>7, PeakInt
  <1>10. Measured(b) = [battery_state   |-> i.battery_state,
                        inverter_output |-> b + i.solar_power,
                        battery_output  |-> b,
                        grid_output     |-> Total(grid),
                        peak            |-> Peak(grid)]
    BY DEF Measured, grid
  <1>11. b + i.solar_power \in Int
    BY <1>2
  <1>12. Measured(b) \in Situation
    BY <1>2, <1>8, <1>9, <1>10, <1>11 DEF Situation
  <1>13. Measured(b).peak = Peak(grid)
    BY <1>10
  <1>14. ASSUME NEW p \in Phase
         PROVE  Load[p] - Quotient(b, PhaseCount) <= Measured(b).peak
    BY <1>5, <1>6, <1>7, <1>9, <1>13
  <1> QED
    BY <1>5, <1>12, <1>14

\* The battery's answer is a number.
LEMMA BatteryInt ==
    ASSUME i \in Input, NEW total \in Int
    PROVE  Battery(total) \in Int
  <1>1. /\ i.battery_max_power \in Nat /\ i.inverter_max_power \in Nat
        /\ i.solar_power \in Nat
    BY DEF Input
  <1> QED
    BY <1>1 DEF Battery, Greater, Lesser

\* So is a generic policy's budget, which is never above the red policy's, nor
\* above its own.
LEMMA GenBudgetCapped ==
    ASSUME PhaseCountAssumption, NEW g \in GenParams, NEW m \in Int, NEW s \in Situation
    PROVE  /\ RedBudget(m, s) \in Int
           /\ GenBudget(g, m, s) \in Int /\ GenBudget(g, m, s) <= RedBudget(m, s)
           /\ PowerBudget(g, s) \in Int /\ GenBudget(g, m, s) <= PowerBudget(g, s)
  <1>1. /\ s.battery_state \in Int /\ s.inverter_output \in Int
        /\ s.battery_output \in Int /\ s.grid_output \in Int /\ s.peak \in Int
    BY DEF Situation
  <1>2. /\ g.max_grid_power \in Int /\ g.min_solar_power \in Int
        /\ g.battery_min_state \in Int /\ g.battery_max_power \in Int
        /\ g.inverter_max_power \in Int
    BY DEF GenParams
  <1>3. RedBudget(m, s) \in Int
    BY <1>1 DEF RedBudget, PhaseCountAssumption
  <1>4. InverterBudget(g, s) \in Int
    BY <1>1, <1>2 DEF InverterBudget, Lesser, Greater, solar_output
  <1>5. PowerBudget(g, s) \in Int
    BY <1>1, <1>2, <1>4 DEF PowerBudget, consumption
  <1> QED
    BY <1>3, <1>5 DEF GenBudget, CappedBudget, Lesser

\* A car that charges draws at least nothing and at most what it was told.
LEMMA ChargingWithin ==
    ASSUME i \in Input, NEW p \in Int
    PROVE  Charging(p) \in Nat /\ (Charging(p) > 0 => Charging(p) <= p)
  <1>1. i.car_min_power \in Nat /\ i.car_max_power \in Nat
    BY DEF Input
  <1> QED
    BY <1>1 DEF Charging, Lesser

\* Converting adds at most one watt.
LEMMA TruncatedNear ==
    ASSUME NEW x \in Int, NEW y \in Truncated(x)
    PROVE  y \in Int /\ y <= x + 1
  BY DEF Truncated

-----------------------------------------------------------------------------
(* Theorems.                                                               *)

\* Everything has its type.
LEMMA TypeInit ==
    Init => TypeOK
  <1> SUFFICES ASSUME Init PROVE TypeOK
    OBVIOUS
  <1>1. InitialInput \in Input /\ MaxChanges \in Nat
    BY ClosedLoopAssumption
  <1>2. sit \in Situation
    BY DEF Init, Situation
  <1>3. 0 \in 0..MaxChanges /\ 0 \in Nat /\ 0 \in Int
    BY <1>1
  <1>4. active_policy \in PolicyIndices
    BY DEF Init, PolicyIndices
  <1>5. i \in Input /\ pc = "poll" /\ car_power = 0 /\ battery_output = 0
        /\ budget = 0 /\ changes = 0 /\ calm = FALSE
    BY <1>1 DEF Init
  <1> QED
    BY <1>2, <1>3, <1>4, <1>5 DEF TypeOK

\* The steps of a pass keep it so.
LEMMA TypePass ==
    TypeOK /\ Pass => TypeOK'
  <1> SUFFICES ASSUME TypeOK, Pass PROVE TypeOK'
    OBVIOUS
  <1>1. /\ i \in Input /\ car_power \in Nat /\ battery_output \in Int
        /\ sit \in Situation /\ budget \in Int /\ active_policy \in PolicyIndices
        /\ MaxCurrent \in Nat
    BY ClosedLoopAssumption DEF TypeOK
  <1>2. CASE Poll
    <2>1. Total(Load) \in Int
      <3>1. 0 \in Int /\ car_power \in Int
        BY <1>1
      <3>2. \A p \in Phase : Load[p] \in Int
        BY <1>1, <3>1, PhaseCountAssumption, MeasuredThere
      <3> QED
        BY <3>2, PhaseCountAssumption, TotalInt
    <2>2. battery_output' \in Int
      BY <1>1, <1>2, <2>1, BatteryInt DEF Poll
    <2>3. sit' \in Situation
      <3>1. car_power \in Int
        BY <1>1
      <3>2. Measured(battery_output') \in Situation
        BY <1>1, <2>2, <3>1, PhaseCountAssumption, MeasuredThere
      <3> QED
        BY <1>2, <3>2 DEF Poll
    <2> QED
      BY <1>2, <2>2, <2>3 DEF Poll, TypeOK
  <1>3. CASE Apply
    <2>1. MaxCurrent \in Int
      BY <1>1
    <2>2. CASE active_policy = Red
      <3>1. RedBudget(MaxCurrent, sit) \in Int
        <4>1. sit.peak \in Int
          BY <1>1 DEF Situation
        <4> QED
          BY <2>1, <4>1, PhaseCountAssumption DEF RedBudget, PhaseCountAssumption
      <3>2. budget' \in Int
        BY <1>3, <2>2, <3>1 DEF Apply
      <3> QED
        BY <1>3, <3>2 DEF Apply, TypeOK
    <2>3. CASE active_policy # Red
      <3>1. Gen[active_policy] \in GenParams
        BY <1>1, <2>3, ClosedLoopAssumption DEF ClosedLoopAssumption, PolicyIndices
      <3>2. budget' \in Int
        BY <1>1, <1>3, <2>1, <2>3, <3>1, PhaseCountAssumption, GenBudgetCapped DEF Apply
      <3> QED
        BY <1>3, <3>2 DEF Apply, TypeOK
    <2> QED
      BY <2>2, <2>3
  <1>4. CASE Handle
    <2>1. PICK delta \in Truncated(budget) : car_power' = Charging(Requested(delta))
      BY <1>4 DEF Handle
    <2>2. Requested(delta) \in Int
      BY <1>1, TruncatedNear DEF Requested
    <2>3. car_power' \in Nat
      BY <1>1, <2>1, <2>2, ChargingWithin
    <2> QED
      BY <1>4, <2>3 DEF Handle, TypeOK
  <1> QED
    BY <1>2, <1>3, <1>4 DEF Pass

\* The same for what the page sets.
LEMMA TypePost ==
    TypeOK /\ (PostInput \/ PostPolicy \/ UNCHANGED vars) => TypeOK'
  <1> SUFFICES ASSUME TypeOK, PostInput \/ PostPolicy \/ UNCHANGED vars PROVE TypeOK'
    OBVIOUS
  <1>1. MaxChanges \in Nat /\ Inputs \subseteq Input
    BY ClosedLoopAssumption DEF ClosedLoopAssumption
  <1>2. ASSUME changes \in 0..MaxChanges, changes < MaxChanges
        PROVE  changes + 1 \in 0..MaxChanges
    BY <1>1, <1>2
  <1>3. CASE PostInput
    BY <1>1, <1>2, <1>3 DEF PostInput, TypeOK
  <1>4. CASE PostPolicy
    BY <1>2, <1>4 DEF PostPolicy, TypeOK
  <1>5. CASE UNCHANGED vars
    BY <1>5 DEF vars, TypeOK
  <1> QED
    BY <1>3, <1>4, <1>5

\* Type correctness: with any number of phases, whatever the page sets, the sums,
\* quotients and budgets of a pass are numbers and the car is never told a
\* negative power (simulator.cpp:52-97, policies.cpp:22-90).
THEOREM TypeCorrect == Spec => []TypeOK
  <1>1. TypeOK /\ [Next]_vars => TypeOK'
    BY TypePass, TypePost DEF Next
  <1> QED
    BY <1>1, TypeInit, PTL DEF Spec

\* Between its poll and its end a pass that nobody disturbs knows what the plant
\* measures, and its budget leaves the most loaded phase within the limit.
PassInv ==
    /\ pc \in {"apply", "handle"} /\ calm => sit = Measured(battery_output)
    /\ pc = "handle" => budget <= RedBudget(MaxCurrent, sit)

\* It holds when the loop starts.
LEMMA PassInit ==
    Init => PassInv
  BY DEF Init, PassInv

\* Every step keeps it.
LEMMA PassNext ==
    TypeOK /\ PassInv /\ [Next]_vars => PassInv'
  <1> SUFFICES ASSUME TypeOK, PassInv, [Next]_vars PROVE PassInv'
    OBVIOUS
  <1>1. CASE Poll
    <2>1. Measured(battery_output)' = Measured(battery_output')
      BY <1>1 DEF Poll, Measured, Load, House
    <2>2. pc' = "apply" /\ sit' = Measured(battery_output')
      BY <1>1 DEF Poll
    <2> QED
      BY <2>1, <2>2 DEF PassInv
  <1>2. CASE Apply
    <2>1. Measured(battery_output)' = Measured(battery_output)
      BY <1>2 DEF Apply, Measured, Load, House
    <2>2. budget' <= RedBudget(MaxCurrent, sit)
      <3>1. sit \in Situation /\ MaxCurrent \in Int /\ active_policy \in PolicyIndices
        BY ClosedLoopAssumption DEF ClosedLoopAssumption, TypeOK
      <3>2. CASE active_policy = Red
        <4>1. sit.peak \in Int
          BY <3>1 DEF Situation
        <4>2. RedBudget(MaxCurrent, sit) \in Int
          BY <3>1, <4>1, PhaseCountAssumption DEF RedBudget, PhaseCountAssumption
        <4> QED
          BY <1>2, <3>2, <4>2 DEF Apply
      <3>3. CASE active_policy # Red
        <4>1. Gen[active_policy] \in GenParams
          BY <3>1, <3>3, ClosedLoopAssumption DEF ClosedLoopAssumption, PolicyIndices
        <4> QED
          BY <1>2, <3>1, <3>3, <4>1, PhaseCountAssumption, GenBudgetCapped DEF Apply
      <3> QED
        BY <3>2, <3>3
    <2>3. pc = "apply" /\ sit' = sit /\ calm' = calm
      BY <1>2 DEF Apply
    <2>4. RedBudget(MaxCurrent, sit)' = RedBudget(MaxCurrent, sit)
      BY <2>3 DEF RedBudget
    <2> QED
      BY <2>1, <2>2, <2>3, <2>4 DEF PassInv
  <1>3. CASE Handle
    BY <1>3 DEF Handle, PassInv
  <1>4. CASE PostInput \/ PostPolicy
    <2>1. /\ calm' = FALSE /\ pc' = pc /\ sit' = sit /\ budget' = budget
      BY <1>4 DEF PostInput, PostPolicy
    <2> QED
      BY <2>1 DEF PassInv, RedBudget
  <1>5. CASE UNCHANGED vars
    BY <1>5 DEF vars, PassInv, RedBudget, Measured, Load, House
  <1> QED
    BY <1>1, <1>2, <1>3, <1>4, <1>5 DEF Next, Pass

\* With it a car that is told to charge overloads no phase.
LEMMA PassKeeps ==
    ASSUME TypeOK, PassInv, Handle, calm, car_power' > 0, NEW p \in Phase
    PROVE  Load'[p] - Quotient(battery_output, PhaseCount) <= MaxCurrent + 1
  <1>1. /\ i \in Input /\ car_power \in Int /\ battery_output \in Int
        /\ sit \in Situation /\ budget \in Int /\ MaxCurrent \in Int
        /\ PhaseCount \in Nat \ {0} /\ i.solar_power \in Int
    BY ClosedLoopAssumption, PhaseCountAssumption
       DEF ClosedLoopAssumption, PhaseCountAssumption, TypeOK, Input
  <1>2. pc = "handle" /\ i' = i
    BY DEF Handle
  <1>3. sit = Measured(battery_output) /\ budget <= RedBudget(MaxCurrent, sit)
    BY <1>2 DEF PassInv
  <1>4. PICK delta \in Truncated(budget) : car_power' = Charging(Requested(delta))
    BY DEF Handle
  <1>5. delta \in Int /\ delta <= budget + 1
    BY <1>1, TruncatedNear
  <1>6. car_power' \in Int /\ car_power' <= car_power + delta
    BY <1>1, <1>4, <1>5, ChargingWithin DEF Requested
  <1>7. PICK room \in Int : room = MaxCurrent - sit.peak
    BY <1>1 DEF Situation
  <1>8. RedBudget(MaxCurrent, sit) = PhaseCount * room /\ PhaseCount * room \in Int
    BY <1>1, <1>7 DEF RedBudget
  <1>9. car_power' - i.solar_power <= (car_power - i.solar_power) + PhaseCount * room + 1
    BY <1>1, <1>3, <1>5, <1>6, <1>8
  <1> DEFINE before == Quotient(car_power - i.solar_power, PhaseCount)
             after  == Quotient(car_power' - i.solar_power, PhaseCount)
             given  == Quotient(battery_output, PhaseCount)
  <1>10. car_power' - i.solar_power \in Int /\ car_power - i.solar_power \in Int
    BY <1>1, <1>6
  <1>11. after <= before + room + 1
    BY <1>1, <1>7, <1>9, <1>10, QuotientSteps
  <1>12. before \in Int /\ after \in Int /\ given \in Int
    BY <1>1, <1>10, QuotientNear
  <1>13. Load[p] \in Int /\ Load[p] - given <= sit.peak
    BY <1>1, <1>3, PhaseCountAssumption, MeasuredThere
  <1>14. Load[p] = House[p] + before /\ Load'[p] = House[p] + after
    BY <1>2 DEF Load, House
  <1>15. House[p] \in Int
    <2>1. i.house_power \in Seq(Int) /\ p \in 1..PhaseCount
      BY <1>1 DEF Input, Phase
    <2> QED
      BY <2>1 DEF House, Phase
  <1>16. sit.peak \in Int
    BY <1>1 DEF Situation
  <1> HIDE DEF before, after, given
  <1>17. Load'[p] - given <= MaxCurrent + 1
    BY <1>1, <1>7, <1>11, <1>12, <1>13, <1>14, <1>15, <1>16
  <1> QED
    BY <1>17 DEF given

\* The circuit breaker: with any number of phases, any policy and however the
\* doubles are rounded, an undisturbed pass after which the car charges leaves
\* no phase above the limit by more than one watt (policies.cpp:22-28,62-63).
THEOREM BreakerProtected == Spec => PassKeepsBreaker
  <1> DEFINE Kept == pc = "handle" /\ calm /\ pc' = "poll" /\ car_power' > 0
                       => \A p \in Phase :
                             Load'[p] - Quotient(battery_output, PhaseCount) <= MaxCurrent + 1
  <1>1. TypeOK /\ PassInv /\ [Next]_vars => [Kept]_vars
    <2> SUFFICES ASSUME TypeOK, PassInv, Next, pc = "handle", calm, pc' = "poll",
                        car_power' > 0, NEW p \in Phase
                 PROVE  Load'[p] - Quotient(battery_output, PhaseCount) <= MaxCurrent + 1
      OBVIOUS
    <2>1. Handle
      BY DEF Next, Pass, Poll, Apply, PostInput, PostPolicy
    <2> QED
      BY <2>1, PassKeeps
  <1>2. Spec => []PassInv
    BY PassInit, PassNext, TypeCorrect, PTL DEF Spec
  <1>3. Spec => [][Kept]_vars
    BY <1>1, <1>2, TypeCorrect, PTL DEF Spec
  <1> QED
    BY <1>3 DEF PassKeepsBreaker

-----------------------------------------------------------------------------
(* What a generic policy promises.                                         *)

\* What it counts on from the inverter.
Supply(g, s) == IF solar_output(s) >= g.min_solar_power THEN InverterBudget(g, s) ELSE 0

\* An undisturbed pass never budgets for more than that and the grid's share.
PowerInv ==
    pc = "handle" /\ calm /\ active_policy # Red
        => budget <= PowerBudget(Gen[active_policy], sit)

\* The rounding of three quotients and of the double.
Rounding == 3 * PhaseCount

\* House and car together, after the pass, against grid and inverter.
Supplied ==
    pc = "handle" /\ calm /\ pc' = "poll" /\ car_power' > 0 /\ active_policy # Red
        => Total(Load') + i.solar_power
             <= Gen[active_policy].max_grid_power + Supply(Gen[active_policy], sit) + Rounding

\* The invariant holds when the loop starts.
LEMMA PowerInit ==
    Init => PowerInv
  BY DEF Init, PowerInv

\* Every step keeps the invariant.
LEMMA PowerNext ==
    TypeOK /\ PowerInv /\ [Next]_vars => PowerInv'
  <1> SUFFICES ASSUME TypeOK, PowerInv, [Next]_vars PROVE PowerInv'
    OBVIOUS
  <1>1. CASE Apply
    <2> SUFFICES ASSUME active_policy # Red
                 PROVE  budget' <= PowerBudget(Gen[active_policy], sit)
      BY <1>1 DEF Apply, PowerInv, PowerBudget, InverterBudget, solar_output, consumption
    <2>1. sit \in Situation /\ MaxCurrent \in Int /\ Gen[active_policy] \in GenParams
      BY ClosedLoopAssumption DEF ClosedLoopAssumption, TypeOK, PolicyIndices
    <2>2. budget' = GenBudget(Gen[active_policy], MaxCurrent, sit)
      BY <1>1 DEF Apply
    <2> QED
      BY <2>1, <2>2, PhaseCountAssumption, GenBudgetCapped
  <1>2. CASE Poll \/ Handle
    BY <1>2 DEF Poll, Handle, PowerInv
  <1>3. CASE PostInput \/ PostPolicy
    <2>1. calm' = FALSE
      BY <1>3 DEF PostInput, PostPolicy
    <2> QED
      BY <2>1 DEF PowerInv
  <1>4. CASE UNCHANGED vars
    BY <1>4 DEF vars, PowerInv
  <1> QED
    BY <1>1, <1>2, <1>3, <1>4 DEF Next, Pass

\* The grid carries what the battery leaves of the load.
LEMMA LoadMeasured ==
    ASSUME PhaseCountAssumption, i \in Input, car_power \in Int, NEW b \in Int
    PROVE  Total(Load) <= Measured(b).grid_output + PhaseCount * Quotient(b, PhaseCount)
  <1>1. PhaseCount \in Nat \ {0}
    BY DEF PhaseCountAssumption
  <1>2. Quotient(b, PhaseCount) \in Int
    BY <1>1, QuotientNear
  <1> DEFINE grid == [p \in Phase |-> Load[p] - Quotient(b, PhaseCount)]
  <1>3. \A p \in Phase : Load[p] \in Int
    BY MeasuredThere
  <1>4. \A p \in Phase : grid[p] = Load[p] - Quotient(b, PhaseCount)
    OBVIOUS
  <1> HIDE DEF grid
  <1>5. ASSUME NEW p \in Phase
        PROVE  grid[p] \in Int /\ Load[p] \in Int /\ Load[p] <= grid[p] + Quotient(b, PhaseCount)
    <2>1. Load[p] \in Int /\ grid[p] = Load[p] - Quotient(b, PhaseCount)
      BY <1>3, <1>4
    <2> QED
      BY <1>2, <2>1
  <1>6. Total(Load) <= Total(grid) + PhaseCount * Quotient(b, PhaseCount)
    BY <1>2, <1>5, TotalGrows
  <1>7. Measured(b).grid_output = Total(grid)
    BY DEF Measured, grid
  <1> QED
    BY <1>6, <1>7

\* The numbers of the pass, put together.
LEMMA SupplySums ==
    ASSUME NEW n \in Nat \ {0}, NEW x \in Int, NEW y \in Int, NEW b \in Int,
           y <= x + b + 1, NEW battery \in Int, NEW solar \in Int, NEW grid \in Int,
           NEW offer \in Int, b <= offer - (battery + solar + grid),
           NEW total \in Int, total <= grid + n * Quotient(battery, n),
           NEW next \in Int, next <= total + n * (Quotient(y, n) - Quotient(x, n))
    PROVE  next + solar <= offer + 3 * n
  <1>1. PICK q \in Int : q = Quotient(battery, n) /\ n * (q - 1) < battery
    BY QuotientNear
  <1>2. PICK r \in Int : r = Quotient(x, n) /\ x < n * (r + 1)
    BY QuotientNear
  <1>3. PICK t \in Int : t = Quotient(y, n) /\ n * (t - 1) < y
    BY QuotientNear
  <1>4. /\ n * (q - 1) = n * q - n /\ n * (r + 1) = n * r + n /\ n * (t - 1) = n * t - n
        /\ n * (t - r) = n * t - n * r
    OBVIOUS
  <1>5. n * q \in Int /\ n * r \in Int /\ n * t \in Int
    OBVIOUS
  <1>6. next <= total + (n * t - n * r) /\ total <= grid + n * q
    BY <1>1, <1>2, <1>3, <1>4
  <1>7. n * q - n < battery /\ x < n * r + n /\ n * t - n < y
    BY <1>1, <1>2, <1>3, <1>4
  <1> QED
    BY <1>5, <1>6, <1>7

\* So a pass of a generic policy stays within what it counts on.
LEMMA PassSupplied ==
    ASSUME TypeOK, PassInv, PowerInv, Handle, calm, car_power' > 0, active_policy # Red
    PROVE  Total(Load') + i.solar_power
             <= Gen[active_policy].max_grid_power + Supply(Gen[active_policy], sit) + Rounding
  <1>1. /\ i \in Input /\ car_power \in Int /\ battery_output \in Int
        /\ sit \in Situation /\ budget \in Int /\ MaxCurrent \in Int
        /\ PhaseCount \in Nat \ {0} /\ i.solar_power \in Int
        /\ Gen[active_policy] \in GenParams
    BY ClosedLoopAssumption, PhaseCountAssumption
       DEF ClosedLoopAssumption, PhaseCountAssumption, TypeOK, Input, PolicyIndices
  <1>2. pc = "handle" /\ i' = i
    BY DEF Handle
  <1>3. sit = Measured(battery_output) /\ budget <= PowerBudget(Gen[active_policy], sit)
    BY <1>2 DEF PassInv, PowerInv
  <1>4. PICK delta \in Truncated(budget) : car_power' = Charging(Requested(delta))
    BY DEF Handle
  <1>5. delta \in Int /\ delta <= budget + 1
    BY <1>1, TruncatedNear
  <1>6. car_power' \in Int /\ car_power' <= car_power + delta
    BY <1>1, <1>4, <1>5, ChargingWithin DEF Requested
  <1> DEFINE x == car_power - i.solar_power
             y == car_power' - i.solar_power
             grown == Quotient(y, PhaseCount) - Quotient(x, PhaseCount)
  <1>7. x \in Int /\ y \in Int /\ y <= x + budget + 1
    BY <1>1, <1>5, <1>6
  <1>8. Quotient(x, PhaseCount) \in Int /\ Quotient(y, PhaseCount) \in Int
    BY <1>1, <1>7, QuotientNear
  <1>9. \A p \in Phase : Load[p] \in Int
    BY <1>1, PhaseCountAssumption, MeasuredThere
  <1>10. ASSUME NEW p \in Phase
         PROVE  Load[p] \in Int /\ Load'[p] \in Int /\ Load'[p] <= Load[p] + grown
    <2>1. i.house_power \in Seq(Int) /\ p \in 1..PhaseCount
      BY <1>1 DEF Input, Phase
    <2>2. House[p] \in Int
      BY <2>1 DEF House, Phase
    <2>3. Load[p] = House[p] + Quotient(x, PhaseCount) /\ Load'[p] = House[p] + Quotient(y, PhaseCount)
      BY <1>2 DEF Load, House
    <2> HIDE DEF x, y
    <2> QED
      BY <1>8, <2>2, <2>3
  <1>11. grown \in Int
    BY <1>8
  <1>12. Total(Load') <= Total(Load) + PhaseCount * grown
    BY <1>10, <1>11, PhaseCountAssumption, TotalGrows
  <1>13. Total(Load) \in Int /\ Total(Load') \in Int
    BY <1>9, <1>10, PhaseCountAssumption, TotalInt
  <1>14. Total(Load) <= sit.grid_output + PhaseCount * Quotient(battery_output, PhaseCount)
    BY <1>1, <1>3, PhaseCountAssumption, LoadMeasured
  <1> DEFINE offer == Gen[active_policy].max_grid_power + Supply(Gen[active_policy], sit)
  <1>15. sit.grid_output \in Int /\ sit.inverter_output = battery_output + i.solar_power
    BY <1>1, <1>3 DEF Situation, Measured
  <1>16. /\ offer \in Int /\ Gen[active_policy].max_grid_power \in Int
         /\ Supply(Gen[active_policy], sit) \in Int
    <2>1. /\ sit.battery_state \in Int /\ sit.inverter_output \in Int
          /\ sit.battery_output \in Int
      BY <1>1 DEF Situation
    <2>2. /\ Gen[active_policy].max_grid_power \in Int
          /\ Gen[active_policy].min_solar_power \in Int
          /\ Gen[active_policy].battery_min_state \in Int
          /\ Gen[active_policy].battery_max_power \in Int
          /\ Gen[active_policy].inverter_max_power \in Int
      BY <1>1 DEF GenParams
    <2> QED
      BY <2>1, <2>2 DEF Supply, InverterBudget, Lesser, Greater, solar_output
  <1>17. PowerBudget(Gen[active_policy], sit)
           = offer - (battery_output + i.solar_power + sit.grid_output)
    <2>1. PowerBudget(Gen[active_policy], sit)
            = Gen[active_policy].max_grid_power + Supply(Gen[active_policy], sit)
                - (sit.inverter_output + sit.grid_output)
      BY Zenon DEF PowerBudget, Supply, consumption
    <2>2. PICK max \in Int, supply \in Int :
             max = Gen[active_policy].max_grid_power /\ supply = Supply(Gen[active_policy], sit)
      BY <1>16
    <2> QED
      BY <1>1, <1>15, <2>1, <2>2
  <1> HIDE DEF x, y, offer
  <1>18. budget <= offer - (battery_output + i.solar_power + sit.grid_output)
    BY <1>3, <1>17
  <1>19. Total(Load') <= Total(Load)
           + PhaseCount * (Quotient(y, PhaseCount) - Quotient(x, PhaseCount))
    BY <1>12
  <1>20. Total(Load') + i.solar_power <= offer + 3 * PhaseCount
    BY <1>1, <1>7, <1>13, <1>14, <1>15, <1>16, <1>18, <1>19, SupplySums
  <1> QED
    BY <1>20 DEF offer, Rounding

\* The promise of the generic policies: after an undisturbed pass house and car
\* draw no more than max_grid_power and what the policy counts on from sun and
\* battery, but for rounding (policies.cpp:45-67).
THEOREM GenericSupplied == Spec => [][Supplied]_vars
  <1>1. TypeOK /\ PassInv /\ PowerInv /\ [Next]_vars => [Supplied]_vars
    <2> SUFFICES ASSUME TypeOK, PassInv, PowerInv, Next, pc = "handle", calm, pc' = "poll",
                        car_power' > 0, active_policy # Red
                 PROVE  Total(Load') + i.solar_power
                          <= Gen[active_policy].max_grid_power
                               + Supply(Gen[active_policy], sit) + Rounding
      BY DEF Supplied
    <2>1. Handle
      BY DEF Next, Pass, Poll, Apply, PostInput, PostPolicy
    <2> QED
      BY <2>1, PassSupplied
  <1> QED
    BY <1>1, PassInit, PassNext, PowerInit, PowerNext, TypeCorrect, PTL DEF Spec
=============================================================================
