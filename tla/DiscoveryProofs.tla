--------------------------- MODULE DiscoveryProofs ---------------------------
(***************************************************************************)
(* For any services on the network and any order of events, callbacks      *)
(* during construction and destruction among them: the list holds no       *)
(* inverter that is gone, the connection is sent to nothing but inverters  *)
(* and what was resolved before the producer was constructed, and no       *)
(* callback touches a producer that is destroyed.                          *)
(***************************************************************************)
EXTENDS Discovery, SequenceTheorems, TLAPS

-----------------------------------------------------------------------------
(* What callbacks do.                                                      *)

\* A step of a callback has an op and a service.
LEMMA Steps ==
    ASSUME NEW op \in Ops, NEW v \in Service
    PROVE  Do(op, v) \in Step /\ Do(op, v).op = op /\ Do(op, v).service = v
  BY DEF Do, Step

\* What a step calls is about its own service.
LEMMA CallsOf ==
    ASSUME NEW step \in Step
    PROVE  /\ Calls(step) \in Seq(Step)
           /\ \A i \in DOMAIN Calls(step) : Calls(step)[i].service = step.service
  <1>1. step.op \in Ops /\ step.service \in Service
    BY DEF Step
  <1>2. \A op \in Ops : /\ Do(op, step.service) \in Step
                        /\ Do(op, step.service).service = step.service
    BY <1>1, Steps
  <1> DEFINE v == step.service
  <1>3. /\ <<Do("lost", v)>> \in Seq(Step) /\ <<Do("resolved", v)>> \in Seq(Step)
        /\ lost(v) \in Seq(Step) /\ resolved(v) \in Seq(Step) /\ <<>> \in Seq(Step)
    BY <1>2 DEF Ops, lost, resolved
  <1>4. /\ \A i \in DOMAIN lost(v) : lost(v)[i].service = v
        /\ \A i \in DOMAIN resolved(v) : resolved(v)[i].service = v
    BY <1>2 DEF Ops, lost, resolved
  <1>5. CASE step.op = "drop"
    <2>1. Calls(step) = <<Do("lost", v)>> \/ Calls(step) = <<>>
      BY <1>5 DEF Calls
    <2>2. Do("lost", v).service = v
      BY <1>2 DEF Ops
    <2>3. CASE Calls(step) = <<Do("lost", v)>>
      BY <1>3, <2>2, <2>3
    <2>4. CASE Calls(step) = <<>>
      BY <1>3, <2>4
    <2> QED
      BY <2>1, <2>3, <2>4
  <1>6. CASE step.op = "offer"
    <2>1. Calls(step) = <<Do("resolved", v)>> \/ Calls(step) = <<>>
      BY <1>6 DEF Calls
    <2>2. Do("resolved", v).service = v
      BY <1>2 DEF Ops
    <2>3. CASE Calls(step) = <<Do("resolved", v)>>
      BY <1>3, <2>2, <2>3
    <2>4. CASE Calls(step) = <<>>
      BY <1>3, <2>4
    <2> QED
      BY <2>1, <2>3, <2>4
  <1>7. CASE step.op = "lost"
    BY <1>3, <1>4, <1>7 DEF Calls
  <1>8. CASE step.op = "resolved"
    BY <1>3, <1>4, <1>8 DEF Calls
  <1>9. CASE step.op \in {"flag", "push", "erase"}
    <2>1. Calls(step) = <<>>
      BY <1>9 DEF Calls
    <2> QED
      BY <1>3, <2>1
  <1> QED
    BY <1>1, <1>5, <1>6, <1>7, <1>8, <1>9 DEF Ops

\* What a resolver found, found again: its calls are steps.
LEMMA ResolveCalls ==
    ASSUME TypeOK, DiscoveryAssumption, NEW k \in DOMAIN resolvers, NEW a \in Address
    PROVE  /\ [name |-> NameOf[k], address |-> a] \in Service
           /\ resolvers[k] # NoResult => resolvers[k] \in Service /\ resolvers[k].name = NameOf[k]
           /\ Superseded(k) \in Seq(Step)
           /\ <<Do("offer", [name |-> NameOf[k], address |-> a])>> \in Seq(Step)
  <1>1. k \in Key /\ NameOf[k] \in Name
    BY DEF TypeOK, DiscoveryAssumption
  <1>2. [name |-> NameOf[k], address |-> a] \in Service
    BY <1>1 DEF Service
  <1>3. resolvers[k] # NoResult => resolvers[k] \in Service /\ resolvers[k].name = NameOf[k]
    BY <1>1 DEF TypeOK, Service
  <1>4. Superseded(k) \in Seq(Step)
    <2>1. CASE resolvers[k] # NoResult
      <3>1. Do("drop", resolvers[k]) \in Step
        BY <1>3, <2>1, Steps DEF Ops
      <3> QED
        BY <2>1, <3>1 DEF Superseded
    <2>2. CASE resolvers[k] = NoResult
      BY <2>2 DEF Superseded
    <2> QED
      BY <2>1, <2>2
  <1>5. Do("offer", [name |-> NameOf[k], address |-> a]) \in Step
    BY <1>2, Steps DEF Ops
  <1> QED
    BY <1>2, <1>3, <1>4, <1>5

\* The rest of a callback after a step: first what the step calls, then what was
\* left behind it.
LEMMA Left ==
    ASSUME TypeOK, CallbackStep
    PROVE  /\ todo[1] \in Step /\ Head(todo) = todo[1] /\ 1 \in DOMAIN todo
           /\ todo' \in Seq(Step)
           /\ \A i \in DOMAIN todo' :
                 \/ \E j \in DOMAIN Calls(todo[1]) : todo'[i] = Calls(todo[1])[j]
                 \/ \E j \in DOMAIN todo : todo'[i] = todo[j]
           /\ \A j \in DOMAIN Calls(todo[1]) : \E i \in DOMAIN todo' : todo'[i] = Calls(todo[1])[j]
           /\ \A j \in DOMAIN todo : j # 1 => \E i \in DOMAIN todo' : todo'[i] = todo[j]
  <1>1. todo \in Seq(Step) /\ todo # <<>> /\ todo' = Calls(Head(todo)) \o Tail(todo)
    BY DEF CallbackStep, TypeOK
  <1>2. /\ Head(todo) = todo[1] /\ todo[1] \in Step /\ 1 \in DOMAIN todo
        /\ Tail(todo) \in Seq(Step) /\ Len(Tail(todo)) = Len(todo) - 1 /\ Len(todo) \in Nat
        /\ DOMAIN todo = 1 .. Len(todo)
        /\ \A i \in 1 .. Len(Tail(todo)) : Tail(todo)[i] = todo[i + 1]
    BY <1>1, HeadTailProperties
  <1> DEFINE calls == Calls(todo[1])
  <1>3. calls \in Seq(Step) /\ Len(calls) \in Nat /\ DOMAIN calls = 1 .. Len(calls)
    BY <1>2, CallsOf
  <1>4. todo' = calls \o Tail(todo)
    BY <1>1, <1>2
  <1> HIDE DEF calls
  <1>5. /\ todo' \in Seq(Step) /\ Len(todo') = Len(calls) + Len(todo) - 1
        /\ DOMAIN todo' = 1 .. Len(todo')
        /\ \A i \in 1 .. Len(todo') :
              todo'[i] = IF i <= Len(calls) THEN calls[i] ELSE Tail(todo)[i - Len(calls)]
    BY <1>2, <1>3, <1>4, ConcatProperties
  <1>6. ASSUME NEW i \in DOMAIN todo', ~(i <= Len(calls))
        PROVE  \E j \in DOMAIN todo : todo'[i] = todo[j]
    <2>1. i - Len(calls) \in 1 .. Len(Tail(todo)) /\ (i - Len(calls)) + 1 \in DOMAIN todo
      BY <1>2, <1>3, <1>5, <1>6
    <2>2. todo'[i] = todo[(i - Len(calls)) + 1]
      BY <1>2, <1>5, <1>6, <2>1
    <2> QED
      BY <2>1, <2>2
  <1>7. ASSUME NEW i \in DOMAIN todo', i <= Len(calls)
        PROVE  \E j \in DOMAIN calls : todo'[i] = calls[j]
    <2>1. i \in DOMAIN calls /\ todo'[i] = calls[i]
      BY <1>3, <1>5, <1>7
    <2> QED
      BY <2>1
  <1>8. ASSUME NEW j \in DOMAIN calls PROVE \E i \in DOMAIN todo' : todo'[i] = calls[j]
    <2>1. j \in DOMAIN todo' /\ todo'[j] = calls[j]
      BY <1>2, <1>3, <1>5
    <2> QED
      BY <2>1
  <1>9. ASSUME NEW j \in DOMAIN todo, j # 1 PROVE \E i \in DOMAIN todo' : todo'[i] = todo[j]
    <2>1. /\ Len(calls) + (j - 1) \in DOMAIN todo' /\ ~(Len(calls) + (j - 1) <= Len(calls))
          /\ (Len(calls) + (j - 1)) - Len(calls) = j - 1
          /\ j - 1 \in 1 .. Len(Tail(todo)) /\ (j - 1) + 1 = j
      BY <1>2, <1>3, <1>5, <1>9
    <2>2. todo'[Len(calls) + (j - 1)] = todo[j]
      BY <1>2, <1>5, <2>1
    <2> QED
      BY <2>1, <2>2
  <1> QED
    BY <1>2, <1>5, <1>6, <1>7, <1>8, <1>9 DEF calls

-----------------------------------------------------------------------------
(* Types.                                                                  *)

\* TypeOK holds in every reachable state: no service is on the list less than
\* never, whatever is erased, and what a callback still has to do is a step.
THEOREM TypeCorrect == Spec => []TypeOK
  <1>1. Init => TypeOK
    <2> SUFFICES ASSUME Init PROVE TypeOK
      OBVIOUS
    <2>1. todo \in Seq(Step)
      BY DEF Init
    <2>2. m_services \in [Service -> Nat] /\ endpoints \in [Service -> Nat]
      BY DEF Init, NoServices
    <2>3. DOMAIN resolvers = {}
      BY DEF Init, NoResolvers
    <2> QED
      BY <2>1, <2>2, <2>3 DEF Init, TypeOK, ClientStates, Phases
  <1>2. TypeOK /\ [Next]_vars => TypeOK'
    <2> SUFFICES ASSUME TypeOK, [Next]_vars PROVE TypeOK'
      OBVIOUS
    <2> USE DiscoveryAssumption
    <2>1. CASE ClientChanges
      BY <2>1 DEF ClientChanges, on_client_cb, TypeOK, mainVars
    <2>2. CASE BrowserNew
      BY <2>2 DEF BrowserNew, TypeOK, mainVars
    <2>3. CASE on_resolve
      <3>1. PICK k \in DOMAIN resolvers, a \in Address :
                /\ todo' = Superseded(k) \o <<Do("offer", [name |-> NameOf[k], address |-> a])>>
                /\ resolvers' = [resolvers EXCEPT ![k] = [name |-> NameOf[k], address |-> a]]
                /\ early' \subseteq early \cup {[name |-> NameOf[k], address |-> a]}
        BY <2>3 DEF on_resolve
      <3>2. todo' \in Seq(Step) /\ early' \subseteq Service
        <4>1. Superseded(k) \in Seq(Step) /\ <<Do("offer", [name |-> NameOf[k], address |-> a])>> \in Seq(Step)
          BY <3>1, ResolveCalls
        <4>2. todo' \in Seq(Step)
          BY <3>1, <4>1, ConcatProperties
        <4> QED
          BY <3>1, <4>2, ResolveCalls DEF TypeOK
      <3>3. UNCHANGED <<client, group, browser, pc, endpoints, m_services, m_endpoints_changed>>
        BY <2>3 DEF on_resolve, mainVars
      <3> QED
        BY <3>1, <3>2, <3>3 DEF TypeOK
    <2>4. CASE BrowserRemove
      <3>1. PICK k \in DOMAIN resolvers :
                /\ todo' = IF resolvers[k] # NoResult THEN <<Do("lost", resolvers[k])>> ELSE <<>>
                /\ resolvers' = [j \in DOMAIN resolvers \ {k} |-> resolvers[j]]
        BY <2>4 DEF BrowserRemove
      <3>2. resolvers[k] # NoResult => resolvers[k] \in Service
        BY DEF TypeOK, Service, DiscoveryAssumption
      <3>3. todo' \in Seq(Step)
        BY <3>1, <3>2, Steps DEF Ops
      <3>4. UNCHANGED <<client, group, browser, early, pc, endpoints, m_services, m_endpoints_changed>>
        BY <2>4 DEF BrowserRemove, mainVars
      <3> QED
        BY <3>1, <3>3, <3>4 DEF TypeOK
    <2>5. CASE CallbackStep
      <3>1. todo[1] \in Step /\ Head(todo) = todo[1] /\ todo' \in Seq(Step)
        BY <2>5, Left
      <3>2. m_services \in [Service -> Nat] /\ todo[1].service \in Service
        BY <3>1 DEF TypeOK, Step
      <3>3. m_services' \in [Service -> Nat]
        BY <2>5, <3>1, <3>2 DEF CallbackStep, Without
      <3>4. m_endpoints_changed' \in BOOLEAN
        BY <2>5 DEF CallbackStep, TypeOK
      <3> QED
        BY <2>5, <3>1, <3>3, <3>4 DEF CallbackStep, TypeOK, avahiVars, mainVars
    <2>6. CASE Publish
      BY <2>6 DEF Publish, AtConstruction, on_client_cb, TypeOK, Phases
    <2>7. CASE Subscribe
      BY <2>7 DEF Subscribe, TypeOK, Phases
    <2>8. CASE MakeMembers \/ MakeFlag
      BY <2>8 DEF MakeMembers, MakeFlag, TypeOK, Phases, avahiVars
    <2>9. CASE Exchange \/ Copy
      BY <2>9 DEF Exchange, Copy, TypeOK, Phases, avahiVars
    <2>10. CASE DestroyMembers \/ DestroyBase \/ Unsubscribe \/ Unpublish
      BY <2>10 DEF DestroyMembers, DestroyBase, Unsubscribe, Unpublish, TypeOK, Phases, avahiVars, NoResolvers
    <2>11. CASE UNCHANGED vars
      BY <2>11 DEF vars, avahiVars, mainVars, TypeOK
    <2> QED
      BY <2>1, <2>2, <2>3, <2>4, <2>5, <2>6, <2>7, <2>8, <2>9, <2>10, <2>11
         DEF Next, Avahi, Main
  <1> QED
    BY <1>1, <1>2, PTL DEF Spec

-----------------------------------------------------------------------------
(* The objects callbacks work on.                                          *)

\* While there is a browser there is a subscriber.
AliveInv == (browser => Subscribed) /\ SubscriberAlive

\* No callback begins without a browser, and the destructor that takes the
\* browser away waits for the lock.
LEMMA AliveCorrect == Spec => []AliveInv
  <1>1. Init => AliveInv
    BY DEF Init, AliveInv, SubscriberAlive, Subscribed
  <1>2. AliveInv /\ [Next]_vars => AliveInv'
    <2> SUFFICES ASSUME AliveInv, [Next]_vars PROVE AliveInv'
      OBVIOUS
    <2> USE DEF AliveInv, SubscriberAlive, Subscribed
    <2>1. CASE ClientChanges
      BY <2>1 DEF ClientChanges, mainVars
    <2>2. CASE BrowserNew \/ on_resolve \/ BrowserRemove
      BY <2>2 DEF BrowserNew, on_resolve, BrowserRemove, Callback, mainVars
    <2>3. CASE CallbackStep
      BY <2>3 DEF CallbackStep, avahiVars, mainVars
    <2>4. CASE Publish \/ Subscribe \/ Unsubscribe \/ Unpublish
      BY <2>4 DEF Publish, Subscribe, Unsubscribe, Unpublish, LockFree
    <2>5. CASE MakeMembers \/ MakeFlag \/ Exchange \/ Copy \/ DestroyMembers \/ DestroyBase
      BY <2>5 DEF MakeMembers, MakeFlag, Exchange, Copy, DestroyMembers, DestroyBase, avahiVars
    <2>6. CASE UNCHANGED vars
      BY <2>6 DEF vars, avahiVars, mainVars
    <2> QED
      BY <2>1, <2>2, <2>3, <2>4, <2>5, <2>6 DEF Next, Avahi, Main
  <1> QED
    BY <1>1, <1>2, PTL DEF Spec

\* No callback touches a subscriber that is destroyed, early callbacks or not.
THEOREM NeverAfterDestruction == Spec => []SubscriberAlive
  <1>1. AliveInv => SubscriberAlive
    BY DEF AliveInv
  <1> QED
    BY <1>1, AliveCorrect, PTL

\* The page is announced exactly while the client runs, whatever the order of
\* the publisher's construction and the client's changes.
THEOREM PageAnnounced == Spec => []Announced
  <1>1. Init => Announced
    BY DEF Init, Announced, Published
  <1>2. Announced /\ [Next]_vars => Announced'
    <2> SUFFICES ASSUME Announced, [Next]_vars PROVE Announced'
      OBVIOUS
    <2> USE DEF Announced, Published
    <2>1. CASE ClientChanges
      BY <2>1 DEF ClientChanges, on_client_cb, mainVars
    <2>2. CASE BrowserNew \/ on_resolve \/ BrowserRemove \/ CallbackStep
      BY <2>2 DEF BrowserNew, on_resolve, BrowserRemove, CallbackStep, avahiVars, mainVars
    <2>3. CASE Publish
      BY <2>3 DEF Publish, AtConstruction, on_client_cb
    <2>4. CASE Subscribe \/ MakeMembers \/ MakeFlag \/ Exchange \/ Copy
      BY <2>4 DEF Subscribe, MakeMembers, MakeFlag, Exchange, Copy, avahiVars
    <2>5. CASE DestroyMembers \/ DestroyBase \/ Unsubscribe \/ Unpublish
      BY <2>5 DEF DestroyMembers, DestroyBase, Unsubscribe, Unpublish, avahiVars
    <2>6. CASE UNCHANGED vars
      BY <2>6 DEF vars, avahiVars, mainVars
    <2> QED
      BY <2>1, <2>2, <2>3, <2>4, <2>5, <2>6 DEF Next, Avahi, Main
  <1> QED
    BY <1>1, <1>2, PTL DEF Spec

-----------------------------------------------------------------------------
(* The list.                                                               *)

\* To be erased, or asked to be, by the callback in progress.
Doomed(v) == \E i \in DOMAIN todo : todo[i].op \in {"drop", "lost", "erase"} /\ todo[i].service = v

\* A step by which a service may come onto the list.
Brings(step) == step.op \in {"offer", "resolved", "push"}

\* An inverter on the list is found by some resolver or about to be erased; one
\* that is about to be put there is found.
GhostInv ==
    /\ Subscribed =>
         /\ \A v \in Service : Listed(v) /\ v.name \in Inverters => v \in Found \/ Doomed(v)
         /\ \A i \in DOMAIN todo :
               Brings(todo[i]) /\ todo[i].service.name \in Inverters => todo[i].service \in Found
    /\ pc \in {"start", "published"} => m_services = NoServices

\* A service the producer may poll.
Wanted(v) == v.name \in Inverters \/ v \in early

\* Until the producer goes, what is on the list or has passed match() is wanted; as
\* long as the base class is asked, everything that is offered.
WantedInv ==
    /\ pc \in {"base", "members", "idle", "copy", "closing"} =>
         /\ \A v \in Service : Listed(v) => Wanted(v)
         /\ \A i \in DOMAIN todo :
               todo[i].op \in {"resolved", "push"} => Wanted(todo[i].service)
    /\ pc = "base" => \A i \in DOMAIN todo : todo[i].op = "offer" => todo[i].service \in early
    /\ OnlyInverters

\* A list of one.
LEMMA Single ==
    ASSUME NEW x, NEW s, s = <<x>>
    PROVE  \A i \in DOMAIN s : s[i] = x
  OBVIOUS

\* A list of two.
LEMMA Pair ==
    ASSUME NEW x \in Step, NEW y \in Step, NEW s, s = <<x>> \o <<y>>
    PROVE  (\A i \in DOMAIN s : s[i] = x \/ s[i] = y) /\ \E i \in DOMAIN s : s[i] = x
  <1> DEFINE one == <<x>>
             other == <<y>>
  <1>1. /\ one \in Seq(Step) /\ Len(one) = 1 /\ one[1] = x
        /\ other \in Seq(Step) /\ Len(other) = 1 /\ other[1] = y
    OBVIOUS
  <1> HIDE DEF one, other
  <1>2. /\ one \o other \in Seq(Step) /\ Len(one \o other) = 2
        /\ \A i \in 1..2 : (one \o other)[i] = IF i <= 1 THEN one[i] ELSE other[i - 1]
    BY <1>1, ConcatProperties
  <1>3. DOMAIN (one \o other) = 1..2 /\ (one \o other)[1] = x /\ (one \o other)[2] = y
    BY <1>1, <1>2
  <1>4. \A i \in DOMAIN (one \o other) : (one \o other)[i] = x \/ (one \o other)[i] = y
    BY <1>3
  <1>5. \E i \in DOMAIN (one \o other) : (one \o other)[i] = x
    BY <1>3
  <1>6. s = one \o other
    BY DEF one, other
  <1> QED
    BY <1>4, <1>5, <1>6

\* The one or two calls a resolver makes that has found something.
LEMMA Resolved ==
    ASSUME TypeOK, DiscoveryAssumption, NEW k \in DOMAIN resolvers, NEW new \in Service,
           todo' = Superseded(k) \o <<Do("offer", new)>>
    PROVE  /\ \A i \in DOMAIN todo' : \/ todo'[i] = Do("offer", new)
                                      \/ resolvers[k] # NoResult /\ todo'[i] = Do("drop", resolvers[k])
           /\ resolvers[k] # NoResult => \E i \in DOMAIN todo' : todo'[i] = Do("drop", resolvers[k])
  <1>1. CASE resolvers[k] # NoResult
    <2>1. todo' = <<Do("drop", resolvers[k])>> \o <<Do("offer", new)>>
      BY <1>1 DEF Superseded
    <2>2. Do("drop", resolvers[k]) \in Step /\ Do("offer", new) \in Step
      <3>1. resolvers[k] \in Service
        BY <1>1 DEF TypeOK, DiscoveryAssumption, Service
      <3> QED
        BY <3>1, Steps DEF Ops
    <2> DEFINE drop == Do("drop", resolvers[k])
               offer == Do("offer", new)
    <2>3. drop \in Step /\ offer \in Step /\ todo' = <<drop>> \o <<offer>>
      BY <2>1, <2>2
    <2> HIDE DEF drop, offer
    <2>4. /\ \A i \in DOMAIN todo' : todo'[i] = drop \/ todo'[i] = offer
          /\ \E i \in DOMAIN todo' : todo'[i] = drop
      BY <2>3, Pair
    <2> QED
      BY <1>1, <2>4 DEF drop, offer
  <1>2. CASE resolvers[k] = NoResult
    <2> DEFINE offer == Do("offer", new)
    <2>1. todo' = <<>> \o <<offer>> /\ <<offer>> \in Seq(Step)
      BY <1>2, Steps DEF Superseded, Ops
    <2>2. todo' = <<offer>>
      BY <2>1, ConcatEmptySeq
    <2> HIDE DEF offer
    <2>3. \A i \in DOMAIN todo' : todo'[i] = offer
      BY <2>2, Single
    <2> QED
      BY <1>2, <2>3 DEF offer
  <1> QED
    BY <1>1, <1>2

\* A result that is superseded is erased by the callback that learns of it.
LEMMA Replaced ==
    ASSUME TypeOK, GhostInv, Subscribed, todo = <<>>, DiscoveryAssumption,
           NEW k \in DOMAIN resolvers, NEW a \in Address,
           todo' = Superseded(k) \o <<Do("offer", [name |-> NameOf[k], address |-> a])>>,
           resolvers' = [resolvers EXCEPT ![k] = [name |-> NameOf[k], address |-> a]],
           UNCHANGED <<m_services, pc>>
    PROVE  GhostInv'
  <1> DEFINE new == [name |-> NameOf[k], address |-> a]
  <1>1. new \in Service /\ new.name = NameOf[k] /\ new # NoResult
    BY ResolveCalls DEF DiscoveryAssumption
  <1>2. resolvers' = [resolvers EXCEPT ![k] = new]
    OBVIOUS
  <1>3. /\ \A i \in DOMAIN todo' : \/ todo'[i] = Do("offer", new)
                                   \/ resolvers[k] # NoResult /\ todo'[i] = Do("drop", resolvers[k])
        /\ resolvers[k] # NoResult => \E i \in DOMAIN todo' : todo'[i] = Do("drop", resolvers[k])
    BY <1>1, Resolved
  <1> HIDE DEF new
  <1>4. ASSUME NEW v \in Service, Listed(v), v.name \in Inverters PROVE v \in Found' \/ Doomed(v)'
    <2>1. v \in Found
      BY <1>4 DEF GhostInv, Doomed
    <2>2. PICK j \in DOMAIN resolvers : resolvers[j] = v /\ resolvers[j] # NoResult /\ NameOf[j] \in Inverters
      BY <2>1 DEF Found
    <2>3. CASE j # k
      BY <1>2, <2>2, <2>3 DEF Found, TypeOK
    <2>4. CASE j = k
      BY <1>3, <2>2, <2>4 DEF Doomed, Do
    <2> QED
      BY <2>3, <2>4
  <1>5. ASSUME NEW i \in DOMAIN todo', Brings(todo'[i]), todo'[i].service.name \in Inverters
        PROVE  todo'[i].service \in Found'
    <2>1. todo'[i].service = new
      BY <1>3, <1>5 DEF Brings, Do
    <2>2. k \in DOMAIN resolvers' /\ resolvers'[k] = new /\ NameOf[k] \in Inverters
      BY <1>1, <1>2, <1>5, <2>1
    <2> QED
      BY <1>1, <2>1, <2>2 DEF Found
  <1> QED
    BY <1>4, <1>5 DEF GhostInv, Subscribed, Listed, Brings

\* A service that goes is erased by the callback that says so.
LEMMA Removed ==
    ASSUME TypeOK, GhostInv, Subscribed, todo = <<>>, NEW k \in DOMAIN resolvers,
           todo' = IF resolvers[k] # NoResult THEN <<Do("lost", resolvers[k])>> ELSE <<>>,
           resolvers' = [j \in DOMAIN resolvers \ {k} |-> resolvers[j]],
           UNCHANGED <<m_services, pc>>
    PROVE  GhostInv'
  <1>1. /\ \A i \in DOMAIN todo' : resolvers[k] # NoResult /\ todo'[i] = Do("lost", resolvers[k])
        /\ resolvers[k] # NoResult => \E i \in DOMAIN todo' : todo'[i] = Do("lost", resolvers[k])
    <2>1. CASE resolvers[k] # NoResult
      BY <2>1
    <2>2. CASE resolvers[k] = NoResult
      <3>1. todo' = <<>>
        BY <2>2
      <3> QED
        BY <2>2, <3>1
    <2> QED
      BY <2>1, <2>2
  <1>2. ASSUME NEW v \in Service, Listed(v), v.name \in Inverters PROVE v \in Found' \/ Doomed(v)'
    <2>1. v \in Found
      BY <1>2 DEF GhostInv, Doomed
    <2>2. PICK j \in DOMAIN resolvers : resolvers[j] = v /\ resolvers[j] # NoResult /\ NameOf[j] \in Inverters
      BY <2>1 DEF Found
    <2>3. CASE j # k
      BY <2>2, <2>3 DEF Found
    <2>4. CASE j = k
      BY <1>1, <2>2, <2>4 DEF Doomed, Do
    <2> QED
      BY <2>3, <2>4
  <1>3. \A i \in DOMAIN todo' : ~Brings(todo'[i])
    BY <1>1 DEF Brings, Do
  <1> QED
    BY <1>2, <1>3 DEF GhostInv, Subscribed, Listed, Brings

\* What a step calls brings nothing the step did not, and erases an inverter if
\* the step would have.
LEMMA Passed ==
    ASSUME NEW step \in Step
    PROVE  /\ \A j \in DOMAIN Calls(step) : Brings(Calls(step)[j]) => Brings(step)
           /\ step.op \in {"drop", "lost"} /\ step.service.name \in Inverters =>
                 \E j \in DOMAIN Calls(step) : Calls(step)[j].op \in {"drop", "lost", "erase"}
           /\ \A j \in DOMAIN Calls(step) : Calls(step)[j].op \in {"resolved", "push"} =>
                 \/ step.op = "resolved"
                 \/ step.op = "offer" /\ match(step.service.name)
  <1>1. step.op \in Ops
    BY DEF Step
  <1>2. CASE step.op = "drop"
    BY <1>2 DEF Calls, Do, Brings, match
  <1>3. CASE step.op = "offer"
    BY <1>3 DEF Calls, Do, Brings, match
  <1>4. CASE step.op = "lost"
    BY <1>4 DEF Calls, Do, Brings, lost
  <1>5. CASE step.op = "resolved"
    BY <1>5 DEF Calls, Do, Brings, resolved
  <1>6. CASE step.op \in {"flag", "push", "erase"}
    <2>1. Calls(step) = <<>>
      BY <1>6 DEF Calls
    <2> QED
      BY <1>6, <2>1
  <1> QED
    BY <1>1, <1>2, <1>3, <1>4, <1>5, <1>6 DEF Ops

\* Nothing is offered in turn.
LEMMA NotOffered ==
    ASSUME NEW step \in Step, NEW j \in DOMAIN Calls(step)
    PROVE  Calls(step)[j].op # "offer"
  <1>1. step.op \in Ops
    BY DEF Step
  <1>2. CASE step.op = "drop"
    BY <1>2 DEF Calls, Do, match
  <1>3. CASE step.op = "offer"
    BY <1>3 DEF Calls, Do, match
  <1>4. CASE step.op = "lost"
    BY <1>4 DEF Calls, Do, lost
  <1>5. CASE step.op = "resolved"
    BY <1>5 DEF Calls, Do, resolved
  <1>6. CASE step.op \in {"flag", "push", "erase"}
    <2>1. Calls(step) = <<>>
      BY <1>6 DEF Calls
    <2> QED
      BY <2>1
  <1> QED
    BY <1>1, <1>2, <1>3, <1>4, <1>5, <1>6 DEF Ops

\* What one step does to the list.
LEMMA Listing ==
    ASSUME TypeOK, CallbackStep, NEW v \in Service, Listed(v)'
    PROVE  /\ Listed(v) \/ (todo[1].op = "push" /\ todo[1].service = v)
           /\ ~(todo[1].op = "erase" /\ todo[1].service = v)
  <1>1. /\ m_services \in [Service -> Nat] /\ todo[1].service \in Service /\ m_services[v] \in Nat
        /\ m_services' = CASE todo[1].op = "push" -> [m_services EXCEPT ![todo[1].service] = @ + 1]
                           [] todo[1].op = "erase" -> Without(todo[1].service)
                           [] OTHER -> m_services
    BY Left DEF CallbackStep, TypeOK, Step
  <1>2. CASE todo[1].op = "push"
    <2>1. m_services' = [m_services EXCEPT ![todo[1].service] = @ + 1]
      BY <1>1, <1>2
    <2>2. todo[1].service # v => m_services'[v] = m_services[v]
      BY <1>1, <2>1
    <2> QED
      BY <1>2, <2>2 DEF Listed
  <1>3. CASE todo[1].op = "erase"
    <2>1. m_services' = [m_services EXCEPT ![todo[1].service] = 0]
      BY <1>1, <1>3 DEF Without
    <2>2. m_services'[v] = IF todo[1].service = v THEN 0 ELSE m_services[v]
      BY <1>1, <2>1
    <2> QED
      BY <2>2 DEF Listed
  <1>4. CASE todo[1].op \notin {"push", "erase"}
    <2>1. m_services' = m_services
      BY <1>1, <1>4
    <2> QED
      BY <1>4, <2>1 DEF Listed
  <1> QED
    BY <1>2, <1>3, <1>4

\* One step of a callback keeps GhostInv.
LEMMA GhostStep ==
    ASSUME TypeOK, GhostInv, Subscribed, CallbackStep
    PROVE  GhostInv'
  <1>1. UNCHANGED <<resolvers, pc>> /\ Found' = Found
    BY DEF CallbackStep, avahiVars, mainVars, Found
  <1>2. ASSUME NEW v \in Service, Listed(v)', v.name \in Inverters PROVE v \in Found \/ Doomed(v)'
    <2>1. CASE todo[1].op = "push" /\ todo[1].service = v
      BY <1>2, <2>1, Left DEF GhostInv, Brings
    <2>2. CASE Listed(v)
      <3>1. CASE v \in Found
        BY <3>1
      <3>2. CASE Doomed(v)
        <4>1. PICK i \in DOMAIN todo : todo[i].op \in {"drop", "lost", "erase"} /\ todo[i].service = v
          BY <3>2 DEF Doomed
        <4>2. CASE i # 1
          BY <4>1, <4>2, Left DEF Doomed
        <4>3. CASE i = 1
          <5>1. todo[1] \in Step /\ todo[1].op \in {"drop", "lost"} /\ todo[1].service = v
            BY <1>2, <4>1, <4>3, Left, Listing
          <5>2. PICK j \in DOMAIN Calls(todo[1]) : Calls(todo[1])[j].op \in {"drop", "lost", "erase"}
            BY <1>2, <5>1, Passed
          <5>3. Calls(todo[1])[j].service = v
            BY <5>1, CallsOf
          <5> QED
            BY <5>2, <5>3, Left DEF Doomed
        <4> QED
          BY <4>2, <4>3
      <3> QED
        BY <1>2, <2>2, <3>1, <3>2 DEF GhostInv
    <2> QED
      BY <1>2, <2>1, <2>2, Listing
  <1>3. ASSUME NEW i \in DOMAIN todo', Brings(todo'[i]), todo'[i].service.name \in Inverters
        PROVE  todo'[i].service \in Found
    <2>1. CASE \E j \in DOMAIN todo : todo'[i] = todo[j]
      BY <1>3, <2>1 DEF GhostInv
    <2>2. CASE \E j \in DOMAIN Calls(todo[1]) : todo'[i] = Calls(todo[1])[j]
      <3>1. todo[1] \in Step /\ 1 \in DOMAIN todo
        BY Left
      <3>2. PICK j \in DOMAIN Calls(todo[1]) : todo'[i] = Calls(todo[1])[j]
        BY <2>2
      <3>3. todo'[i].service = todo[1].service
        BY <3>1, <3>2, CallsOf
      <3>4. Brings(Calls(todo[1])[j])
        BY <1>3, <3>2
      <3>5. Brings(todo[1])
        BY <3>1, <3>4, Passed
      <3> QED
        BY <1>3, <3>1, <3>3, <3>5 DEF GhostInv
    <2> QED
      BY <2>1, <2>2, Left
  <1> QED
    BY <1>1, <1>2, <1>3 DEF GhostInv, Subscribed, Brings

\* And WantedInv: what is not wanted passes match() only in the base class.
LEMMA WantedStep ==
    ASSUME TypeOK, WantedInv, CallbackStep
    PROVE  WantedInv'
  <1>1. UNCHANGED <<pc, endpoints, early>>
    BY DEF CallbackStep, avahiVars, mainVars
  <1>2. todo[1] \in Step /\ 1 \in DOMAIN todo
    BY Left
  <1>3. ASSUME pc \in {"base", "members", "idle", "copy", "closing"},
               NEW i \in DOMAIN todo', todo'[i].op \in {"resolved", "push"}
        PROVE  Wanted(todo'[i].service)
    <2>1. CASE \E j \in DOMAIN todo : todo'[i] = todo[j]
      BY <1>3, <2>1 DEF WantedInv
    <2>2. CASE \E j \in DOMAIN Calls(todo[1]) : todo'[i] = Calls(todo[1])[j]
      <3>1. todo'[i].service = todo[1].service
        BY <1>2, <2>2, CallsOf
      <3>2. todo[1].op = "resolved" \/ (todo[1].op = "offer" /\ match(todo[1].service.name))
        <4>1. PICK j \in DOMAIN Calls(todo[1]) : todo'[i] = Calls(todo[1])[j]
          BY <2>2
        <4> QED
          BY <1>2, <1>3, <4>1, Passed
      <3>3. CASE todo[1].op = "resolved"
        BY <1>2, <1>3, <3>1, <3>3 DEF WantedInv
      <3>4. CASE todo[1].op = "offer" /\ pc = "base"
        BY <1>2, <3>1, <3>4 DEF WantedInv, Wanted
      <3>5. CASE match(todo[1].service.name) /\ pc # "base"
        BY <1>3, <3>1, <3>5 DEF match, Derived, Wanted
      <3> QED
        BY <3>2, <3>3, <3>4, <3>5
    <2> QED
      BY <2>1, <2>2, Left
  <1>4. ASSUME pc \in {"base", "members", "idle", "copy", "closing"}, NEW v \in Service, Listed(v)'
        PROVE  Wanted(v)
    BY <1>2, <1>4, Listing DEF WantedInv
  <1>5. ASSUME pc = "base", NEW i \in DOMAIN todo', todo'[i].op = "offer"
        PROVE  todo'[i].service \in early
    <2>1. CASE \E j \in DOMAIN todo : todo'[i] = todo[j]
      BY <1>5, <2>1 DEF WantedInv
    <2>2. ASSUME NEW j \in DOMAIN Calls(todo[1]), todo'[i] = Calls(todo[1])[j] PROVE FALSE
      <3>1. Calls(todo[1])[j].op # "offer"
        BY <1>2, NotOffered
      <3> QED
        BY <1>5, <2>2, <3>1
    <2> QED
      BY <2>1, <2>2, Left
  <1> QED
    BY <1>1, <1>3, <1>4, <1>5 DEF WantedInv, Wanted, OnlyInverters

\* GhostInv is inductive.
LEMMA GhostInductive ==
    ASSUME DiscoveryAssumption, TypeOK, AliveInv, GhostInv, [Next]_vars
    PROVE  GhostInv'
  <1> DEFINE Same == UNCHANGED <<todo, m_services, resolvers>>
  <1>1. ASSUME Same, Subscribed' => Subscribed, pc' \in {"start", "published"} => pc \in {"start", "published"}
        PROVE  GhostInv'
    BY <1>1 DEF GhostInv, Listed, Found, Doomed, Brings
  <1>2. CASE ClientChanges
    BY <1>1, <1>2 DEF ClientChanges, mainVars, Subscribed
  <1>3. CASE BrowserNew
    <2>1. todo = <<>> /\ UNCHANGED <<pc, todo, m_services>>
      BY <1>3 DEF BrowserNew, Callback, LockFree, mainVars
    <2>2. PICK k \in Key \ DOMAIN resolvers :
              resolvers' = [j \in DOMAIN resolvers \cup {k} |->
                               IF j = k THEN NoResult ELSE resolvers[j]]
      BY <1>3 DEF BrowserNew
    <2>3. {j \in DOMAIN resolvers' : resolvers'[j] # NoResult /\ NameOf[j] \in Inverters}
          = {j \in DOMAIN resolvers : resolvers[j] # NoResult /\ NameOf[j] \in Inverters}
      BY <2>2
    <2>4. \A j \in DOMAIN resolvers : resolvers'[j] = resolvers[j]
      BY <2>2
    <2>5. Found' = Found
      BY <2>3, <2>4 DEF Found
    <2> QED
      BY <2>1, <2>5 DEF GhostInv, Subscribed, Listed, Doomed, Brings
  <1>4. CASE on_resolve
    <2>1. todo = <<>> /\ Subscribed /\ UNCHANGED <<m_services, pc>>
      BY <1>4 DEF on_resolve, Callback, LockFree, AliveInv, mainVars
    <2> QED
      BY <1>4, <2>1, Replaced DEF on_resolve
  <1>5. CASE BrowserRemove
    <2>1. todo = <<>> /\ Subscribed /\ UNCHANGED <<m_services, pc>>
      BY <1>5 DEF BrowserRemove, Callback, LockFree, AliveInv, mainVars
    <2> QED
      BY <1>5, <2>1, Removed DEF BrowserRemove
  <1>6. CASE CallbackStep
    <2>1. Subscribed
      BY <1>6 DEF CallbackStep, AliveInv, SubscriberAlive
    <2> QED
      BY <1>6, <2>1, GhostStep
  <1>7. CASE Publish
    BY <1>1, <1>7 DEF Publish, Subscribed
  <1>8. CASE Subscribe
    BY <1>8 DEF Subscribe, GhostInv, LockFree, Listed, NoServices, Subscribed
  <1>9. CASE MakeMembers \/ MakeFlag \/ Exchange \/ Copy \/ DestroyMembers \/ DestroyBase
    BY <1>1, <1>9 DEF MakeMembers, MakeFlag, Exchange, Copy, DestroyMembers, DestroyBase,
                      Subscribed, avahiVars
  <1>10. CASE Unsubscribe
    BY <1>10 DEF Unsubscribe, GhostInv, Subscribed
  <1>11. CASE Unpublish
    BY <1>1, <1>11 DEF Unpublish, Subscribed
  <1>12. CASE UNCHANGED vars
    BY <1>1, <1>12 DEF vars, avahiVars, mainVars, Subscribed
  <1> QED
    BY <1>2, <1>3, <1>4, <1>5, <1>6, <1>7, <1>8, <1>9, <1>10, <1>11, <1>12 DEF Next, Avahi, Main

\* WantedInv is inductive beside GhostInv, which has the list empty at first.
LEMMA WantedInductive ==
    ASSUME DiscoveryAssumption, TypeOK, AliveInv, GhostInv, WantedInv, [Next]_vars
    PROVE  WantedInv'
  <1>1. ASSUME UNCHANGED <<todo, m_services, early, endpoints>>, pc' = pc
        PROVE  WantedInv'
    BY <1>1 DEF WantedInv, Listed, Wanted, OnlyInverters
  <1>2. CASE ClientChanges \/ BrowserNew
    BY <1>1, <1>2 DEF ClientChanges, BrowserNew, mainVars
  <1>3. CASE on_resolve
    <2>1. PICK k \in DOMAIN resolvers, a \in Address :
              /\ todo' = Superseded(k) \o <<Do("offer", [name |-> NameOf[k], address |-> a])>>
              /\ early' = IF pc \in {"base", "members"}
                          THEN early \cup {[name |-> NameOf[k], address |-> a]} ELSE early
      BY <1>3 DEF on_resolve
    <2> DEFINE new == [name |-> NameOf[k], address |-> a]
    <2>2. new \in Service
      BY ResolveCalls
    <2>3. todo' = Superseded(k) \o <<Do("offer", new)>> /\ early \subseteq early'
          /\ (pc = "base" => new \in early')
      BY <2>1
    <2> HIDE DEF new
    <2>4. \A i \in DOMAIN todo' : \/ todo'[i] = Do("offer", new)
                                  \/ todo'[i] = Do("drop", resolvers[k])
      BY <2>2, <2>3, Resolved
    <2>5. \A i \in DOMAIN todo' : /\ todo'[i].op \notin {"resolved", "push"}
                                  /\ todo'[i].op = "offer" => todo'[i].service = new
      BY <2>4 DEF Do
    <2>6. UNCHANGED <<pc, m_services, endpoints>>
      BY <1>3 DEF on_resolve, mainVars
    <2>7. \A v : Wanted(v) => Wanted(v)'
      BY <2>3 DEF Wanted
    <2>8. /\ pc' \in {"base", "members", "idle", "copy", "closing"} =>
               \A v \in Service : Listed(v)' => Wanted(v)'
          /\ OnlyInverters'
      BY <2>3, <2>6, <2>7 DEF WantedInv, Listed, OnlyInverters
    <2>9. pc' = "base" => \A i \in DOMAIN todo' : todo'[i].op = "offer" => todo'[i].service \in early'
      BY <2>3, <2>5, <2>6
    <2>10. \A i \in DOMAIN todo' : todo'[i].op \in {"resolved", "push"} => Wanted(todo[i].service)'
      BY <2>5
    <2> QED
      BY <2>8, <2>9, <2>10 DEF WantedInv, Wanted
  <1>4. CASE BrowserRemove
    <2>1. PICK k \in DOMAIN resolvers :
              todo' = IF resolvers[k] # NoResult THEN <<Do("lost", resolvers[k])>> ELSE <<>>
      BY <1>4 DEF BrowserRemove
    <2>2. \A i \in DOMAIN todo' : todo'[i].op = "lost"
      <3>1. CASE resolvers[k] # NoResult
        BY <2>1, <3>1 DEF Do
      <3>2. CASE resolvers[k] = NoResult
        <4>1. todo' = <<>>
          BY <2>1, <3>2
        <4> QED
          BY <4>1
      <3> QED
        BY <3>1, <3>2
    <2>3. UNCHANGED <<pc, early, m_services, endpoints>>
      BY <1>4 DEF BrowserRemove, mainVars
    <2> QED
      BY <2>2, <2>3 DEF WantedInv, Listed, Wanted, OnlyInverters
  <1>5. CASE CallbackStep
    BY <1>5, WantedStep
  <1>6. CASE Publish
    BY <1>6 DEF Publish, WantedInv, OnlyInverters
  <1>7. CASE Subscribe
    BY <1>7 DEF Subscribe, LockFree, WantedInv, GhostInv, Listed, NoServices, OnlyInverters
  <1>8. CASE MakeMembers \/ MakeFlag \/ Exchange \/ DestroyMembers \/ DestroyBase
    BY <1>8 DEF MakeMembers, MakeFlag, Exchange, DestroyMembers, DestroyBase, WantedInv, Listed,
                Wanted, OnlyInverters, avahiVars
  <1>9. CASE Copy
    BY <1>9 DEF Copy, WantedInv, Listed, Wanted, OnlyInverters, avahiVars
  <1>10. CASE Unsubscribe \/ Unpublish
    BY <1>10 DEF Unsubscribe, Unpublish, WantedInv, OnlyInverters
  <1>11. CASE UNCHANGED vars
    BY <1>1, <1>11 DEF vars, avahiVars, mainVars
  <1> QED
    BY <1>2, <1>3, <1>4, <1>5, <1>6, <1>7, <1>8, <1>9, <1>10, <1>11 DEF Next, Avahi, Main

\* What the two theorems below rest on.
LEMMA ListCorrect == Spec => [](TypeOK /\ AliveInv /\ GhostInv /\ WantedInv)
  <1>1. Init => AliveInv /\ GhostInv /\ WantedInv
    BY DEF Init, AliveInv, SubscriberAlive, GhostInv, WantedInv, OnlyInverters, NoServices, Subscribed
  <1>2. TypeOK /\ AliveInv /\ GhostInv /\ WantedInv /\ [Next]_vars => GhostInv' /\ WantedInv'
    BY GhostInductive, WantedInductive, DiscoveryAssumption
  <1>3. Spec => []TypeOK
    BY TypeCorrect
  <1>4. Spec => []AliveInv
    BY AliveCorrect
  <1> QED
    BY <1>1, <1>2, <1>3, <1>4, PTL DEF Spec

\* Whatever comes, moves and goes in whatever order, also while the producer is
\* being constructed or destroyed, the list never keeps an inverter that is gone.
THEOREM GhostFree == Spec => []NoGhosts
  <1>1. GhostInv => NoGhosts
    BY DEF GhostInv, NoGhosts, Doomed
  <1> QED
    BY <1>1, ListCorrect, PTL

\* The connection is never sent to anything that is no inverter, except what was
\* resolved before the producer was constructed.
THEOREM InvertersOnly == Spec => []OnlyInverters
  <1>1. WantedInv => OnlyInverters
    BY DEF WantedInv
  <1> QED
    BY <1>1, ListCorrect, PTL
=============================================================================
