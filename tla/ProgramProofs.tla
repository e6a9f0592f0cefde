---------------------------- MODULE ProgramProofs ----------------------------
(***************************************************************************)
(* For every configuration, every behaviour of the device and of the clock:*)
(* the P1 output leaks no descriptor and misses no loss, passes do not     *)
(* bunch as long as nobody sets the clock, and every variable keeps its    *)
(* type.  What happens before and after the loop is StartProofs'.          *)
(***************************************************************************)
EXTENDS StartProofs

\* Nothing is called from outside in the loop, and before it the output is as
\* it was constructed.
PhaseInv ==
    /\ InLoop => todo = <<>>
    /\ phase \in {"static", "arguments", "main"} =>
          m_fd = STDOUT_FILENO /\ descriptors = NoDescriptors /\ m_connect_errno

\* The descriptor is closed before another is opened.
FdInv == m_fd \in {STDOUT_FILENO} \cup Descriptor /\ NoLeak

\* With a file to write to, stdout is a makeshift the next pass will give up;
\* once a pass has written, it holds what LossNoticed says.
LossInv ==
    InLoop /\ live[filename] # NoFile =>
        /\ m_fd = STDOUT_FILENO => m_connect_errno
        /\ phase \in {"pace", "sleep"} => received = m_p1cache \/ m_connect_errno \/ m_write_errno

-----------------------------------------------------------------------------
(* The descriptor.                                                         *)

\* reset() leaves no descriptor open, reconnect() at most its own.
LEMMA Reopened ==
    ASSUME FdInv, P1Assumption, NEW file, reset \/ reconnect(file)
    PROVE  FdInv'
  <1>1. DOMAIN Closed = {}
    BY DEF FdInv, NoLeak, Closed
  <1>2. CASE m_fd' = STDOUT_FILENO /\ descriptors' = Closed
    BY <1>1, <1>2 DEF FdInv, NoLeak
  <1>3. ASSUME NEW fd \in Lowest(Descriptor \ DOMAIN Closed), m_fd' = fd,
               descriptors' = [other \in DOMAIN Closed \cup {fd} |-> other = fd \/ Closed[other]]
        PROVE  FdInv'
    <2>1. fd \in Descriptor /\ fd # STDOUT_FILENO
      BY <1>3 DEF Lowest, P1Assumption
    <2>2. DOMAIN descriptors' = {fd}
      BY <1>1, <1>3
    <2> QED
      BY <1>3, <2>1, <2>2 DEF FdInv, NoLeak
  <1> QED
    BY <1>2, <1>3 DEF reset, reconnect

\* Where each phase leaves the call stack and the output.
LEMMA PhaseCorrect == Spec => []PhaseInv
  <1>1. Init => PhaseInv
    BY DEF Init, PhaseInv, InLoop, P1Init
  <1>2. PhaseInv /\ [Next]_vars => PhaseInv'
    <2> SUFFICES ASSUME PhaseInv, [Next]_vars PROVE PhaseInv'
      OBVIOUS
    <2> USE DEF PhaseInv, InLoop
    <2>1. CASE Calls
      <3>1. todo # <<>>
        BY <2>1 DEF Calls, ConfigStep, ConstructStep, CopyStep, DestroyStep, StoreStep,
                    ParseStep, LeaveStep, LogStep, ReadyStep, Now
      <3> QED
        BY <2>1, <3>1 DEF Calls, mainVars, p1Vars
    <2>2. CASE Constructed \/ Argument \/ Begin \/ FirstPass
      BY <2>2 DEF Constructed, Argument, Begin, FirstPass, configVars, p1Vars
    <2>3. CASE Reconnect \/ Write
      BY <2>3 DEF Reconnect, Write, configVars
    <2>4. CASE Pace \/ Wake \/ Stop
      BY <2>4 DEF Pace, Wake, Stop, configVars, p1Vars
    <2>5. CASE Close \/ DestroyLast \/ Exited
      BY <2>5 DEF Close, DestroyLast, Exited, mainVars
    <2>6. CASE Kill \/ Tick \/ ClockStep
      BY <2>6 DEF Kill, Tick, ClockStep, mainVars, configVars, p1Vars
    <2>7. CASE Unplug
      BY <2>7 DEF Unplug, mainVars, configVars
    <2>8. CASE UNCHANGED vars
      BY <2>8 DEF vars, mainVars, configVars, p1Vars
    <2> QED
      BY <2>1, <2>2, <2>3, <2>4, <2>5, <2>6, <2>7, <2>8 DEF Next, Main
  <1> QED
    BY <1>1, <1>2, PTL DEF Spec

\* One descriptor is open at most, and it is the one in use.
LEMMA FdCorrect == Spec => []FdInv
  <1>1. Init => FdInv
    BY DEF Init, P1Init, FdInv, NoLeak, NoDescriptors
  <1>2. FdInv /\ [Next]_vars => FdInv'
    <2> SUFFICES ASSUME FdInv, [Next]_vars PROVE FdInv'
      OBVIOUS
    <2>1. CASE UNCHANGED <<m_fd, descriptors>>
      BY <2>1 DEF FdInv, NoLeak
    <2>2. CASE Reconnect
      <3>1. CASE reconnect(live[filename])
        BY <3>1, Reopened, P1Assumption
      <3> QED
        BY <2>1, <2>2, <3>1 DEF Reconnect, p1Vars
    <2>3. CASE Close
      BY <2>3, Reopened, P1Assumption DEF Close
    <2>4. CASE Write
      BY <2>1, <2>4 DEF Write, handle
    <2>5. CASE Unplug
      BY <2>5 DEF Unplug, DeviceChanges, FdInv, NoLeak
    <2>6. CASE Calls \/ Constructed \/ Argument \/ Begin \/ FirstPass
      BY <2>1, <2>6 DEF Calls, Constructed, Argument, Begin, FirstPass, p1Vars
    <2>7. CASE Pace \/ Wake \/ Stop \/ DestroyLast \/ Exited
      BY <2>1, <2>7 DEF Pace, Wake, Stop, DestroyLast, Exited, p1Vars
    <2>8. CASE Kill \/ Tick \/ ClockStep \/ UNCHANGED vars
      BY <2>1, <2>8 DEF Kill, Tick, ClockStep, vars, p1Vars
    <2> QED
      BY <2>2, <2>3, <2>4, <2>5, <2>6, <2>7, <2>8 DEF Next, Main
  <1> QED
    BY <1>1, <1>2, PTL DEF Spec

\* However often the device goes and comes back, no descriptor is left behind.
THEOREM Leakless == Spec => []NoLeak
  <1>1. FdInv => NoLeak
    BY DEF FdInv
  <1> QED
    BY <1>1, FdCorrect, PTL

\* One step, in the loop or into it.
LEMMA LossStep ==
    ASSUME PhaseInv, FdInv, LossInv, P1Assumption, [Next]_vars
    PROVE  LossInv'
  <1>1. CASE Calls
    <2>1. todo # <<>>
      BY <1>1 DEF Calls, ConfigStep, ConstructStep, CopyStep, DestroyStep, StoreStep,
                  ParseStep, LeaveStep, LogStep, ReadyStep, Now
    <2> QED
      BY <1>1, <2>1 DEF Calls, mainVars, PhaseInv, LossInv, InLoop
  <1>2. CASE Constructed \/ Argument \/ Begin
    BY <1>2 DEF Constructed, Argument, Begin, LossInv, InLoop
  <1>3. CASE FirstPass
    BY <1>3 DEF FirstPass, PhaseInv, LossInv, InLoop, p1Vars, configVars, registryVars
  <1>4. CASE Reconnect
    <2>1. phase' = "write" /\ live' = live
      BY <1>4 DEF Reconnect, configVars, registryVars
    <2>2. CASE reconnect(live[filename])
      <3>1. \A fd \in Lowest(Descriptor \ DOMAIN Closed) : fd # STDOUT_FILENO
        BY DEF Lowest, P1Assumption
      <3> QED
        BY <2>1, <2>2, <3>1 DEF reconnect, LossInv
    <2>3. CASE UNCHANGED p1Vars
      BY <1>4, <2>1, <2>3 DEF Reconnect, p1Vars, LossInv, InLoop
    <2> QED
      BY <1>4, <2>2, <2>3 DEF Reconnect
  <1>5. CASE Write
    <2>1. phase = "write" /\ phase' = "pace" /\ live' = live
      BY <1>5 DEF Write, configVars, registryVars
    <2>2. PICK telegram \in Telegram : handle(telegram)
      BY <1>5 DEF Write
    <2>3. PICK n \in Outcomes :
              /\ m_write_errno' = WriteFailed(n)
              /\ received' = IF m_fd = STDOUT_FILENO \/ n = "failed" THEN received
                             ELSE IF n = "all" THEN telegram ELSE NoTelegram
      BY <2>2 DEF handle
    <2>4. m_p1cache' = telegram /\ UNCHANGED <<m_fd, m_connect_errno>>
      BY <2>2 DEF handle
    <2> QED
      BY <2>1, <2>3, <2>4 DEF LossInv, InLoop, WriteFailed
  <1>6. CASE Pace \/ Wake \/ Stop
    BY <1>6 DEF Pace, Wake, Stop, LossInv, InLoop, p1Vars, configVars, registryVars
  <1>7. CASE Close \/ DestroyLast \/ Exited
    BY <1>7 DEF Close, DestroyLast, Exited, mainVars, LossInv, InLoop
  <1>8. CASE Kill \/ Tick \/ ClockStep
    BY <1>8 DEF Kill, Tick, ClockStep, mainVars, LossInv, InLoop, p1Vars, configVars, registryVars
  <1>9. CASE Unplug
    BY <1>9 DEF Unplug, DeviceChanges, mainVars, LossInv, InLoop, configVars, registryVars
  <1>10. CASE UNCHANGED vars
    BY <1>10 DEF vars, mainVars, LossInv, InLoop, p1Vars, configVars, registryVars
  <1> QED
    BY <1>1, <1>2, <1>3, <1>4, <1>5, <1>6, <1>7, <1>8, <1>9, <1>10 DEF Next, Main

\* Whatever the device does, a pass that did not get the telegram through knows
\* it, and the next one will reconnect.
THEOREM NoLossMissed == Spec => []LossNoticed
  <1>1. Init => LossInv
    BY DEF Init, LossInv, InLoop
  <1>2. PhaseInv /\ FdInv /\ LossInv /\ [Next]_vars => LossInv'
    BY LossStep, P1Assumption
  <1>3. Spec => []PhaseInv
    BY PhaseCorrect
  <1>4. Spec => []FdInv
    BY FdCorrect
  <1>5. LossInv => LossNoticed
    BY DEF LossInv, LossNoticed, InLoop
  <1> QED
    BY <1>1, <1>2, <1>3, <1>4, <1>5, PTL DEF Spec

-----------------------------------------------------------------------------
(* The pacing.                                                             *)

\* The parameter that paces the loop is there, and holds a number.
IntervalKnown == InLoop => Interval \in Int

\* It is main()'s own, and of a type that is.
LEMMA IntervalThere == Spec => []IntervalKnown
  <1>1. StartInv => IntervalKnown
    BY ProgramAssumption DEF StartInv, LifeInv, Timely, RegistryInv, IntervalKnown, Interval
  <1> QED
    BY <1>1, StartCorrect, PTL

ClockTypes ==
    /\ ahead \in Int /\ left \in Nat /\ since \in Nat
    /\ delay \in Nat /\ owed \in Nat /\ steps \in 0..MaxClockSteps

\* How the clock, the pause and the history hang together until somebody sets
\* the clock: in a pass t0 lies as far back as the pass was late and has lasted,
\* in a pause the next turn is a whole interval after the last one's was due.
PaceInv ==
    InLoop /\ steps = 0 =>
        /\ phase # "sleep" /\ since < Interval => ahead = 0 - owed - since
        /\ phase = "sleep" =>
             /\ left > 0 => ahead = left /\ delay = 0
             /\ left = 0 => ahead = 0 - delay
             /\ since + owed < Interval => ahead = Interval - owed - since

\* Out of the loop nothing has happened to the clock.
Fresh == phase \in {"static", "arguments", "main"} => ahead = 0 /\ since = 0 /\ owed = 0

\* One step, in the loop or into it.
LEMMA PaceStep ==
    ASSUME PhaseInv, ClockTypes, PaceInv, Fresh, IntervalKnown, ProgramAssumption, [Next]_vars
    PROVE  ClockTypes' /\ PaceInv' /\ Fresh'
  <1> USE DEF ClockTypes, PaceInv, Fresh, InLoop
  <1>1. CASE Calls
    <2>1. todo # <<>>
      BY <1>1 DEF Calls, ConfigStep, ConstructStep, CopyStep, DestroyStep, StoreStep,
                  ParseStep, LeaveStep, LogStep, ReadyStep, Now
    <2> QED
      BY <1>1, <2>1 DEF Calls, mainVars, clockVars, PhaseInv
  <1>2. CASE Constructed \/ Argument \/ Begin
    BY <1>2 DEF Constructed, Argument, Begin, clockVars
  <1>3. CASE FirstPass
    BY <1>3 DEF FirstPass, clockVars
  <1>4. CASE Reconnect \/ Write
    BY <1>4 DEF Reconnect, Write, clockVars, configVars, registryVars, Interval
  <1>5. CASE Pace
    <2>1. /\ phase = "pace" /\ phase' = "sleep" /\ Interval' = Interval /\ Interval \in Int
          /\ ahead' = NextTurn(ahead + Interval) /\ delay' = 0
          /\ left' = IF ahead' > 0 THEN ahead' ELSE 0
          /\ UNCHANGED <<since, owed, steps>>
      BY <1>5 DEF Pace, configVars, registryVars, Interval, IntervalKnown
    <2> HIDE DEF Interval
    <2> QED
      BY <2>1 DEF NextTurn
  <1>6. CASE Wake
    <2>1. /\ phase = "sleep" /\ phase' = "handle" /\ Interval' = Interval /\ Interval \in Int
          /\ left = 0 /\ since' = 0 /\ owed' = delay /\ UNCHANGED <<ahead, left, delay, steps>>
      BY <1>6 DEF Wake, configVars, registryVars, Interval, IntervalKnown
    <2> QED
      BY <2>1
  <1>7. CASE Tick
    <2>1. /\ Interval' = Interval /\ Interval \in Int /\ phase' = phase /\ InLoop
          /\ ahead' = ahead - 1
          /\ left' = IF left > 0 THEN left - 1 ELSE 0
          /\ since' = IF since < Interval THEN since + 1 ELSE since
          /\ delay' = IF phase = "sleep" /\ left = 0 THEN delay + 1 ELSE delay
          /\ UNCHANGED <<owed, steps>>
      BY <1>7 DEF Tick, mainVars, configVars, registryVars, Interval, IntervalKnown
    <2> QED
      BY <2>1
  <1>8. CASE ClockStep
    <2>1. PICK d \in ClockSteps : ahead' = ahead - d
      BY <1>8 DEF ClockStep
    <2>2. ahead' \in Int /\ InLoop
      BY <1>8, <2>1 DEF ClockStep, ProgramAssumption
    <2>3. steps' # 0
      BY <1>8 DEF ClockStep
    <2> QED
      BY <1>8, <2>2, <2>3 DEF ClockStep, mainVars
  <1>9. CASE Stop \/ Close \/ DestroyLast \/ Exited
    BY <1>9 DEF Stop, Close, DestroyLast, Exited, mainVars, clockVars
  <1>10. CASE Kill
    BY <1>10 DEF Kill, clockVars, configVars, registryVars, Interval
  <1>11. CASE Unplug
    BY <1>11 DEF Unplug, mainVars, clockVars, configVars, registryVars, Interval
  <1>12. CASE UNCHANGED vars
    BY <1>12 DEF vars, mainVars, clockVars, configVars, registryVars, Interval
  <1> QED
    BY <1>1, <1>2, <1>3, <1>4, <1>5, <1>6, <1>7, <1>8, <1>9, <1>10, <1>11, <1>12
       DEF Next, Main

\* The clock, the pause and the history at every step.
LEMMA PaceCorrect == Spec => [](ClockTypes /\ PaceInv /\ Fresh)
  <1>1. Init => ClockTypes /\ PaceInv /\ Fresh
    BY ProgramAssumption DEF Init, ClockTypes, PaceInv, Fresh, InLoop
  <1>2. PhaseInv /\ ClockTypes /\ PaceInv /\ Fresh /\ IntervalKnown /\ [Next]_vars
        => ClockTypes' /\ PaceInv' /\ Fresh'
    BY PaceStep, ProgramAssumption
  <1> QED
    BY <1>1, <1>2, PhaseCorrect, IntervalThere, PTL DEF Spec

\* Whatever a pass or a wake-up takes, until the clock is set no pass begins
\* sooner than an interval after the one before was due.
THEOREM PassesSpaced == Spec => NoBurst
  <1>1. ClockTypes /\ PaceInv /\ IntervalKnown /\ [Next]_vars
        => [phase = "sleep" /\ phase' = "handle" /\ steps = 0 => since + owed >= Interval]_vars
    <2> SUFFICES ASSUME ClockTypes, PaceInv, IntervalKnown, Next,
                        phase = "sleep", phase' = "handle", steps = 0
                 PROVE  since + owed >= Interval
      BY DEF vars
    <2>1. left = 0
      BY DEF Next, Main, Calls, Constructed, Argument, Begin, FirstPass, Reconnect, Write,
             Pace, Wake, Stop, Close, DestroyLast, Exited, Kill, Tick, ClockStep, Unplug, mainVars
    <2> QED
      BY <2>1 DEF ClockTypes, PaceInv, IntervalKnown, InLoop
  <1> QED
    BY <1>1, PaceCorrect, IntervalThere, PTL DEF Spec, NoBurst

-----------------------------------------------------------------------------
(* Types.                                                                  *)

\* One step, as far as the P1 output goes.
LEMMA OutputStep ==
    ASSUME P1TypeOK, P1Assumption, [Next]_vars
    PROVE  P1TypeOK'
  <1> USE DEF P1TypeOK
  <1>1. CASE UNCHANGED p1Vars
    BY <1>1 DEF p1Vars
  <1>2. \A fd \in DOMAIN Closed : Closed[fd] \in BOOLEAN /\ fd \in Descriptor
    BY DEF Closed
  <1>3. CASE m_fd' = STDOUT_FILENO /\ descriptors' = Closed /\ m_connect_errno' \in BOOLEAN
              /\ UNCHANGED <<m_write_errno, m_p1cache, device, received>>
    BY <1>2, <1>3
  <1>4. ASSUME NEW fd \in Lowest(Descriptor \ DOMAIN Closed), m_fd' = fd, m_connect_errno' \in BOOLEAN,
               descriptors' = [other \in DOMAIN Closed \cup {fd} |-> other = fd \/ Closed[other]],
               UNCHANGED <<m_write_errno, m_p1cache, device, received>>
        PROVE  P1TypeOK'
    <2>1. fd \in Descriptor
      BY DEF Lowest
    <2>2. DOMAIN descriptors' \subseteq Descriptor /\ m_fd' \in DOMAIN descriptors'
      BY <1>2, <1>4, <2>1
    <2>3. \A other \in DOMAIN descriptors' : descriptors'[other] \in BOOLEAN
      BY <1>2, <1>4
    <2> QED
      BY <1>4, <2>2, <2>3
  <1>5. CASE reset
    BY <1>3, <1>5 DEF reset
  <1>6. ASSUME NEW file, reconnect(file) PROVE P1TypeOK'
    BY <1>3, <1>4, <1>6 DEF reconnect
  <1>7. ASSUME NEW telegram \in Telegram, handle(telegram) PROVE P1TypeOK'
    BY <1>7 DEF handle, WriteFailed
  <1>8. CASE DeviceChanges
    <2>1. DOMAIN descriptors' = DOMAIN descriptors /\ device' \in {"good", "poor", "gone"}
      BY <1>8 DEF DeviceChanges
    <2>2. \A fd \in DOMAIN descriptors' : descriptors'[fd] \in BOOLEAN
      BY <1>8 DEF DeviceChanges
    <2> QED
      BY <1>8, <2>1, <2>2 DEF DeviceChanges
  <1>9. CASE Reconnect
    BY <1>1, <1>6, <1>9 DEF Reconnect
  <1>10. CASE Write
    BY <1>7, <1>10 DEF Write
  <1>11. CASE Calls \/ Constructed \/ Argument \/ Begin \/ FirstPass \/ Pace \/ Wake \/ Stop
    BY <1>1, <1>11 DEF Calls, Constructed, Argument, Begin, FirstPass, Pace, Wake, Stop
  <1>12. CASE Close \/ DestroyLast \/ Exited \/ Kill \/ Tick \/ ClockStep \/ Unplug \/ UNCHANGED vars
    BY <1>1, <1>5, <1>8, <1>12 DEF Close, DestroyLast, Exited, Kill, Tick, ClockStep, Unplug, vars
  <1> QED
    BY <1>9, <1>10, <1>11, <1>12 DEF Next, Main

\* The signal is pending or not.
SignalTypes == signal \in BOOLEAN

\* The registry is what its type says: also while parameters are constructed by
\* the log lines that others cause, and while they are destroyed.
LEMMA RegistryTypes == ASSUME StartInv PROVE ConfigTypeOK
  <1>1. RegistryInv
    BY DEF StartInv
  <1>2. lock_recurse \in 0..2
    <2>1. PICK depth : Depths(todo, Len(todo), lock_recurse, depth)
      BY DEF StartInv, StackInv
    <2>2. Len(todo) \in Nat
      BY DEF StartInv, StackInv
    <2> QED
      BY <2>1, <2>2 DEF Depths
  <1>3. DOMAIN live = {constructed[i] : i \in DOMAIN constructed}
    <2>1. Lists(constructed, DOMAIN live)
      BY <1>1 DEF RegistryInv
    <2> QED
      BY <2>1, Listed
  <1>4. ASSUME NEW n \in ParamName
        PROVE  LET s == subscribers[n]
               IN  /\ \A i \in DOMAIN s : s[i] \in DOMAIN live /\ NameOf[s[i]] = n
                   /\ \A i, j \in DOMAIN s : s[i] = s[j] => i = j
    <2> PICK S : S = {p \in DOMAIN live : NameOf[p] = n}
      OBVIOUS
    <2>1. Lists(subscribers[n], S)
      BY <1>1 DEF RegistryInv
    <2> QED
      BY <2>1, Listed
  <1> QED
    BY <1>1, <1>2, <1>3, <1>4 DEF RegistryInv, ConfigTypeOK

\* Every variable keeps its type; no name has a subscriber that is gone, and the
\* registry's mutex is never held more than twice.
THEOREM TypeCorrect == Spec => []TypeOK
  <1>1. Init => P1TypeOK /\ SignalTypes
    BY DEF Init, P1Init, NoDescriptors, P1TypeOK, SignalTypes
  <1>2. P1TypeOK /\ [Next]_vars => P1TypeOK'
    BY OutputStep, P1Assumption
  <1>3. SignalTypes /\ [Next]_vars => SignalTypes'
    BY DEF SignalTypes, Next, Main, Calls, Constructed, Argument, Begin, FirstPass, Reconnect, Write,
           Pace, Wake, Stop, Close, DestroyLast, Exited, Kill, Tick, ClockStep, Unplug, vars, mainVars
  <1>4. StartInv => ConfigTypeOK
    BY RegistryTypes
  <1>5. StartInv /\ ConfigTypeOK /\ P1TypeOK /\ SignalTypes /\ ClockTypes => TypeOK
    BY DEF StartInv, ArgumentsInv, SignalTypes, ClockTypes, TypeOK
  <1> QED
    BY <1>1, <1>2, <1>3, <1>4, <1>5, StartCorrect, PaceCorrect, PTL DEF Spec
=============================================================================
