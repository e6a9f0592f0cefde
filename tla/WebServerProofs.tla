--------------------------- MODULE WebServerProofs ---------------------------
(***************************************************************************)
(* For every program of rpc objects and every use clients make of it: a key*)
(* is served by the object that registered it last exactly while that      *)
(* object lives, and no handler runs that is not its object's.             *)
(***************************************************************************)
EXTENDS WebServer, TLAPS

\* An entry names the object that registered its key last, by the address that
\* object has at this point of its life.
EntriesCurrent ==
    \A k \in Key :
        /\ latest[k] # NoObject => KeyOf[latest[k]] = k
        /\ Registered(k) <=> Alive(latest[k])
        /\ Registered(k) =>
             /\ rpcs[k].handler = latest[k]
             /\ rpcs[k].instance = IF life[latest[k]] = "temporary"
                                   THEN Temporary(latest[k]) ELSE Member(latest[k])

RegistryInv == RegistryTypeOK /\ EntriesCurrent

\* A handler in progress keeps the table locked.
HttpInv ==
    /\ lock \in [Locks -> {"free", "main", "http"}]
    /\ http = Idle \/ http \in Busy
    /\ http.step \in {"inner", "run"} => lock["www"] = "http" /\ Alive(http.callee)

-----------------------------------------------------------------------------
(* The table.                                                              *)

\* No two objects have an address in common, and none keeps its own in a move.
LEMMA Addresses ==
    ASSUME NEW o, NEW p
    PROVE  /\ Temporary(o) = Temporary(p) <=> o = p
           /\ Member(o) = Member(p) <=> o = p
           /\ Temporary(o) # Member(p)
  <1>1. Temporary(o) = Temporary(p) => o = p
    <2>1. Temporary(o).of = o /\ Temporary(p).of = p
      BY DEF Temporary
    <2> QED
      BY <2>1
  <1>2. Member(o) = Member(p) => o = p
    <2>1. Member(o).of = o /\ Member(p).of = p
      BY DEF Member
    <2> QED
      BY <2>1
  <1>3. Temporary(o) # Member(p)
    <2>1. Temporary(o).at = "temporary" /\ Member(p).at = "member"
      BY DEF Temporary, Member
    <2> QED
      BY <2>1
  <1> QED
    BY <1>1, <1>2, <1>3

\* The entry of an object's key is the object's, under the address it has, if
\* and only if nobody registered the key after it.
LEMMA OwnsIfLatest ==
    ASSUME NEW o \in Object, RegistryInv
    PROVE  /\ Owns(Temporary(o), KeyOf[o]) <=>
                 latest[KeyOf[o]] = o /\ life[o] = "temporary"
           /\ Owns(Member(o), KeyOf[o]) <=>
                 latest[KeyOf[o]] = o /\ life[o] \in {"moving", "member"}
  <1> DEFINE k == KeyOf[o]
  <1>1. k \in Key /\ o # NoObject
    BY RegistryAssumption
  <1>2. life[o] \in Lives
    BY DEF RegistryInv, RegistryTypeOK
  <1>3. /\ Registered(k) <=> Alive(latest[k])
        /\ Registered(k) => rpcs[k].instance = IF life[latest[k]] = "temporary"
                                               THEN Temporary(latest[k])
                                               ELSE Member(latest[k])
    BY <1>1 DEF RegistryInv, EntriesCurrent
  <1>4. latest[k] = o => (Registered(k) <=> life[o] \in {"temporary", "moving", "member"})
    BY <1>1, <1>2, <1>3 DEF Alive, Lives
  <1>5. CASE latest[k] = o
    BY <1>2, <1>3, <1>4, <1>5, Addresses DEF Owns, Lives
  <1>6. CASE latest[k] # o
    BY <1>3, <1>6, Addresses DEF Owns
  <1> QED
    BY <1>5, <1>6

\* Constructing an object overrules whatever its key had.
LEMMA ConstructKeeps ==
    ASSUME NEW o \in Object, RegistryInv, Construct(o)
    PROVE  RegistryInv'
  <1>1. KeyOf[o] \in Key /\ o # NoObject
    BY RegistryAssumption
  <1>2. /\ latest' = [latest EXCEPT ![KeyOf[o]] = o]
        /\ latest'[KeyOf[o]] = o
        /\ \A k \in Key \ {KeyOf[o]} : latest'[k] = latest[k]
    BY <1>1 DEF Construct, RegistryInv, RegistryTypeOK
  <1>3. PICK l \in {"temporary", "member"}, inst \in Instance :
            /\ life' = [life EXCEPT ![o] = l]
            /\ InitEntry(o, inst)
            /\ inst = IF l = "temporary" THEN Temporary(o) ELSE Member(o)
    <2>1. Temporary(o) \in Instance /\ Member(o) \in Instance
      BY DEF Temporary, Member, Instance
    <2>2. CASE life' = [life EXCEPT ![o] = "temporary"] /\ InitEntry(o, Temporary(o))
      BY <2>1, <2>2
    <2>3. CASE life' = [life EXCEPT ![o] = "member"] /\ InitEntry(o, Member(o))
      BY <2>1, <2>3
    <2> QED
      BY <2>2, <2>3 DEF Construct
  <1>4. /\ DOMAIN rpcs' = DOMAIN rpcs \cup {KeyOf[o]}
        /\ rpcs'[KeyOf[o]] = [instance |-> inst, handler |-> o]
        /\ \A k \in DOMAIN rpcs \ {KeyOf[o]} : rpcs'[k] = rpcs[k]
    BY <1>3 DEF InitEntry
  <1>5. RegistryTypeOK'
    <2>1. latest' \in [Key -> Object \cup {NoObject}]
      BY <1>1, <1>2 DEF RegistryInv, RegistryTypeOK
    <2>2. life' \in [Object -> Lives]
      BY <1>3 DEF RegistryInv, RegistryTypeOK, Lives
    <2>3. DOMAIN rpcs' \subseteq Key /\ \A k \in DOMAIN rpcs' : rpcs'[k] \in Entry
      BY <1>1, <1>4 DEF RegistryInv, RegistryTypeOK, Entry
    <2> QED
      BY <2>1, <2>2, <2>3 DEF RegistryTypeOK
  <1>6. ASSUME NEW k \in Key
        PROVE  /\ latest'[k] # NoObject => KeyOf[latest'[k]] = k
               /\ Registered(k)' <=> Alive(latest[k])'
               /\ Registered(k)' =>
                    /\ rpcs'[k].handler = latest'[k]
                    /\ rpcs'[k].instance = IF life'[latest'[k]] = "temporary"
                                           THEN Temporary(latest'[k])
                                           ELSE Member(latest'[k])
    <2>1. CASE k = KeyOf[o]
      <3>1. life'[o] = l
        BY <1>3 DEF RegistryInv, RegistryTypeOK
      <3>2. latest'[k] = o
        BY <1>2, <2>1
      <3>3. Registered(k)' /\ Alive(latest[k])'
        BY <1>1, <1>4, <2>1, <3>1, <3>2 DEF Registered, Alive
      <3> QED
        BY <1>3, <1>4, <2>1, <3>1, <3>2, <3>3
    <2>2. CASE k # KeyOf[o]
      <3>1. latest'[k] = latest[k] /\ latest[k] # o
        BY <1>1, <1>2, <2>2 DEF RegistryInv, EntriesCurrent
      <3>2. latest[k] # NoObject => life'[latest[k]] = life[latest[k]]
        BY <1>3, <3>1 DEF RegistryInv, RegistryTypeOK
      <3>3. Registered(k)' <=> Registered(k)
        BY <1>4, <2>2 DEF Registered
      <3>4. Alive(latest[k])' <=> Alive(latest[k])
        BY <3>1, <3>2 DEF Alive
      <3>5. Registered(k) => rpcs'[k] = rpcs[k] /\ latest[k] # NoObject
        BY <1>4, <2>2 DEF Registered, RegistryInv, EntriesCurrent, Alive
      <3> QED
        BY <3>1, <3>2, <3>3, <3>4, <3>5 DEF RegistryInv, EntriesCurrent
    <2> QED
      BY <2>1, <2>2
  <1> QED
    BY <1>5, <1>6 DEF RegistryInv, EntriesCurrent

\* The move takes the entry along exactly if it is the object's.
LEMMA MoveKeeps ==
    ASSUME NEW o \in Object, RegistryInv, Move(o)
    PROVE  RegistryInv'
  <1>1. /\ life[o] = "temporary" /\ life' = [life EXCEPT ![o] = "moving"]
        /\ latest' = latest /\ rpcs' = Moved(o)
    BY DEF Move
  <1>2. KeyOf[o] \in Key /\ o # NoObject
    BY RegistryAssumption
  <1>3. \A p \in Object : /\ Alive(p)' <=> Alive(p)
                          /\ p # o => life'[p] = life[p]
                          /\ life'[o] = "moving"
    BY <1>1 DEF Alive, RegistryInv, RegistryTypeOK
  <1>4. Owns(Temporary(o), KeyOf[o]) <=> latest[KeyOf[o]] = o
    BY <1>1, OwnsIfLatest
  <1>5. /\ DOMAIN rpcs' = DOMAIN rpcs
        /\ \A k \in DOMAIN rpcs :
              /\ rpcs'[k].handler = rpcs[k].handler
              /\ rpcs'[k].instance = IF latest[k] = o THEN Member(o) ELSE rpcs[k].instance
              /\ rpcs'[k] \in Entry
    <2>1. CASE Owns(Temporary(o), KeyOf[o])
      <3>1. rpcs' = [rpcs EXCEPT ![KeyOf[o]].instance = Member(o)]
        BY <1>1, <2>1 DEF Moved
      <3>2. \A k \in DOMAIN rpcs : rpcs[k] \in Entry /\ k \in Key
        BY DEF RegistryInv, RegistryTypeOK
      <3>3. \A k \in DOMAIN rpcs : latest[k] = o <=> k = KeyOf[o]
        BY <1>2, <1>4, <2>1, <3>2 DEF RegistryInv, EntriesCurrent
      <3>4. Member(o) \in Instance
        BY DEF Member, Instance
      <3> QED
        BY <3>1, <3>2, <3>3, <3>4 DEF Entry
    <2>2. CASE ~Owns(Temporary(o), KeyOf[o])
      <3>1. rpcs' = rpcs
        BY <1>1, <2>2 DEF Moved
      <3>2. \A k \in DOMAIN rpcs : latest[k] # o
        BY <1>2, <1>4, <2>2 DEF RegistryInv, RegistryTypeOK, EntriesCurrent
      <3> QED
        BY <3>1, <3>2 DEF RegistryInv, RegistryTypeOK
    <2> QED
      BY <2>1, <2>2
  <1>6. RegistryTypeOK'
    BY <1>1, <1>5 DEF RegistryInv, RegistryTypeOK, Lives
  <1>7. ASSUME NEW k \in Key
        PROVE  /\ latest'[k] # NoObject => KeyOf[latest'[k]] = k
               /\ Registered(k)' <=> Alive(latest[k])'
               /\ Registered(k)' =>
                    /\ rpcs'[k].handler = latest'[k]
                    /\ rpcs'[k].instance = IF life'[latest'[k]] = "temporary"
                                           THEN Temporary(latest'[k])
                                           ELSE Member(latest'[k])
    <2>1. latest[k] = NoObject \/ latest[k] \in Object
      BY DEF RegistryInv, RegistryTypeOK
    <2>2. Registered(k)' <=> Registered(k)
      BY <1>5 DEF Registered
    <2>3. Alive(latest[k])' <=> Alive(latest[k])
      BY <1>1, <1>3, <2>1 DEF Alive
    <2>4. Registered(k) => latest[k] \in Object
      BY <2>1 DEF Alive, RegistryInv, EntriesCurrent
    <2> QED
      BY <1>1, <1>3, <1>5, <2>2, <2>3, <2>4 DEF Registered, RegistryInv, EntriesCurrent
  <1> QED
    BY <1>6, <1>7 DEF RegistryInv, EntriesCurrent

\* The destructor of an object moved from finds no entry of its own.
LEMMA DestroyTemporaryKeeps ==
    ASSUME NEW o \in Object, RegistryInv, DestroyTemporary(o)
    PROVE  RegistryInv'
  <1>1. /\ life[o] = "moving" /\ life' = [life EXCEPT ![o] = "member"]
        /\ latest' = latest /\ rpcs' = Erased(Temporary(o))
    BY DEF DestroyTemporary
  <1>2. KeyOf[o] \in Key /\ o # NoObject
    BY RegistryAssumption
  <1>3. ~Owns(Temporary(o), KeyOf[o])
    BY <1>1, OwnsIfLatest
  <1>4. rpcs' = rpcs
    BY <1>1, <1>3 DEF Erased, Temporary
  <1>5. \A p \in Object : /\ Alive(p)' <=> Alive(p)
                          /\ life'[p] = "temporary" <=> life[p] = "temporary"
    BY <1>1 DEF Alive, RegistryInv, RegistryTypeOK
  <1>6. RegistryTypeOK'
    BY <1>1, <1>4 DEF RegistryInv, RegistryTypeOK, Lives
  <1>7. ASSUME NEW k \in Key
        PROVE  /\ Registered(k)' <=> Registered(k)
               /\ Alive(latest[k])' <=> Alive(latest[k])
               /\ Registered(k) => (life'[latest[k]] = "temporary" <=> life[latest[k]] = "temporary")
    <2>1. latest[k] = NoObject \/ latest[k] \in Object
      BY DEF RegistryInv, RegistryTypeOK
    <2>2. Registered(k) => latest[k] \in Object
      BY <2>1 DEF Alive, RegistryInv, EntriesCurrent
    <2> QED
      BY <1>1, <1>4, <1>5, <2>1, <2>2 DEF Registered, Alive
  <1> QED
    BY <1>1, <1>4, <1>6, <1>7 DEF RegistryInv, EntriesCurrent

\* The destructor takes the entry off the table exactly if it is the object's.
LEMMA DestroyKeeps ==
    ASSUME NEW o \in Object, RegistryInv, Destroy(o)
    PROVE  RegistryInv'
  <1>1. /\ life[o] = "member" /\ life' = [life EXCEPT ![o] = "dead"]
        /\ latest' = latest /\ rpcs' = Erased(Member(o))
    BY DEF Destroy
  <1>2. KeyOf[o] \in Key /\ o # NoObject
    BY RegistryAssumption
  <1>3. \A p \in Object \ {o} : life'[p] = life[p]
    BY <1>1 DEF RegistryInv, RegistryTypeOK
  <1>4. life'[o] = "dead"
    BY <1>1 DEF RegistryInv, RegistryTypeOK
  <1>5. Owns(Member(o), KeyOf[o]) <=> latest[KeyOf[o]] = o
    BY <1>1, OwnsIfLatest
  <1>6. /\ DOMAIN rpcs' = {k \in DOMAIN rpcs : latest[k] # o}
        /\ \A k \in DOMAIN rpcs' : rpcs'[k] = rpcs[k]
    <2>1. \A k \in Key : latest[k] = o => k = KeyOf[o]
      BY <1>2 DEF RegistryInv, EntriesCurrent
    <2>2. DOMAIN rpcs \subseteq Key
      BY DEF RegistryInv, RegistryTypeOK
    <2>3. CASE Owns(Member(o), KeyOf[o])
      <3>1. rpcs' = [k \in DOMAIN rpcs \ {KeyOf[o]} |-> rpcs[k]]
        BY <1>1, <2>3 DEF Erased, Member
      <3> QED
        BY <1>5, <2>1, <2>2, <2>3, <3>1
    <2>4. CASE ~Owns(Member(o), KeyOf[o])
      <3>1. rpcs' = rpcs
        BY <1>1, <2>4 DEF Erased, Member
      <3> QED
        BY <1>5, <2>1, <2>2, <2>4, <3>1
    <2> QED
      BY <2>3, <2>4
  <1>7. RegistryTypeOK'
    BY <1>1, <1>6 DEF RegistryInv, RegistryTypeOK, Lives
  <1>8. ASSUME NEW k \in Key
        PROVE  /\ Registered(k)' <=> Registered(k) /\ latest[k] # o
               /\ Alive(latest[k])' <=> Alive(latest[k]) /\ latest[k] # o
               /\ Registered(k)' => rpcs'[k] = rpcs[k] /\ life'[latest[k]] = life[latest[k]]
    <2>1. latest[k] = NoObject \/ latest[k] \in Object
      BY DEF RegistryInv, RegistryTypeOK
    <2>2. Registered(k) => latest[k] \in Object
      BY <2>1 DEF Alive, RegistryInv, EntriesCurrent
    <2>3. Registered(k)' <=> Registered(k) /\ latest[k] # o
      BY <1>6 DEF Registered
    <2>4. Alive(latest[k])' <=> Alive(latest[k]) /\ latest[k] # o
      BY <1>1, <1>3, <1>4, <2>1 DEF Alive
    <2> QED
      BY <1>3, <1>6, <2>2, <2>3, <2>4 DEF Registered
  <1> QED
    BY <1>1, <1>7, <1>8 DEF RegistryInv, EntriesCurrent

-----------------------------------------------------------------------------
(* The program.                                                            *)

\* Whatever the threads do, the table says who is served.
LEMMA RegistryStepKeeps ==
    ASSUME RegistryInv, [Next]_vars
    PROVE  RegistryInv'
  <1>1. CASE UNCHANGED registryVars
    BY <1>1 DEF registryVars, RegistryInv, RegistryTypeOK, EntriesCurrent, Registered,
                Alive
  <1>2. CASE RegistryStep
    BY <1>2, ConstructKeeps, MoveKeeps, DestroyTemporaryKeeps, DestroyKeeps
       DEF RegistryStep
  <1>3. UNCHANGED registryVars \/ RegistryStep
    BY DEF Next, Main, Http, Serve, vars, registryVars, EnterLoop, BeginPass, EndPass,
           BeginSwitch, Signal, Ended, Lookup, HandlerReturns, HandlerThrows, TakeInner,
           AcceptFails, Accept, OnRead, OnWrite, WriteFails, ReadEnds, Connect, Send
  <1> QED
    BY <1>1, <1>2, <1>3

\* The table's invariant holds of every behaviour.
THEOREM TableCorrect == Spec => []RegistryInv
  <1>1. Init => RegistryInv
    BY RegistryAssumption DEF Init, RegistryInit, RegistryInv, RegistryTypeOK, EntriesCurrent, Lives,
           Registered, Alive
  <1>2. RegistryInv /\ [Next]_vars => RegistryInv'
    BY RegistryStepKeeps
  <1> QED
    BY <1>1, <1>2, PTL DEF Spec

\* A key is served by the object that registered it last exactly while that
\* object lives, whatever is overruled, moved or destroyed (www.cpp:340-363).
THEOREM LatestServed == Spec => []ServesLatest
  <1>1. RegistryInv => ServesLatest
    BY DEF RegistryInv, EntriesCurrent, ServesLatest
  <1> QED
    BY <1>1, TableCorrect, PTL

\* The lock is held from the lookup to the response.
LEMMA HttpStepKeeps ==
    ASSUME RegistryInv, HttpInv, [Next]_vars
    PROVE  HttpInv'
  <1> USE DEF HttpInv
  <1>1. ASSUME UNCHANGED <<lock, http, life>>
        PROVE  HttpInv'
    BY <1>1 DEF Alive
  <1>2. CASE RegistryStep
    <2>1. lock' = lock /\ http' = http /\ Free("www")
      BY <1>2 DEF RegistryStep
    <2>2. ~(http.step \in {"inner", "run"})
      BY <2>1 DEF Free
    <2> QED
      BY <2>1, <2>2
  <1>3. CASE BeginPass \/ BeginSwitch \/ EndPass
    <2>1. http' = http /\ life' = life
      BY <1>3 DEF BeginPass, BeginSwitch, EndPass, registryVars
    <2>2. lock' \in [Locks -> {"free", "main", "http"}]
      BY <1>3 DEF BeginPass, BeginSwitch, EndPass, Take
    <2>3. lock["www"] = "http" => lock'["www"] = "http"
      BY <1>3 DEF BeginPass, BeginSwitch, EndPass, Take, Locks
    <2> QED
      BY <2>1, <2>2, <2>3 DEF Alive
  <1>4. ASSUME NEW c \in Connection, OnRead(c)
        PROVE  HttpInv'
    <2>1. lock' = lock /\ life' = life /\ http = Idle
      BY <1>4 DEF OnRead, registryVars
    <2>2. http' = http \/ http' = [step |-> "lookup", on |-> c, callee |-> NoObject]
      BY <1>4 DEF OnRead
    <2> QED
      BY <2>1, <2>2 DEF Idle, Busy, Alive
  <1>5. ASSUME NEW status, Answer(status)
        PROVE  HttpInv'
    BY <1>5 DEF Answer, Idle, Locks
  <1>6. CASE Lookup
    <2>1. CASE Answer("not_found") \/ Answer("bad_request")
      BY <1>5, <2>1
    <2>2. CASE /\ Registered(Served.key) /\ HoldTable
               /\ http' = [http EXCEPT !.callee = rpcs[Served.key].handler,
                                       !.step = IF Inner[Served.key] = "none" THEN "run"
                                                ELSE "inner"]
      <3>1. http \in Busy /\ life' = life
        BY <1>6 DEF Lookup, Idle, registryVars
      <3>2. Served.key \in Key /\ rpcs[Served.key].handler \in Object
        BY <2>2 DEF Registered, RegistryInv, RegistryTypeOK, Entry
      <3>3. Alive(rpcs[Served.key].handler)
        BY <2>2, <3>2 DEF RegistryInv, EntriesCurrent
      <3>4. http' \in Busy /\ http'.callee = rpcs[Served.key].handler
        BY <2>2, <3>1, <3>2 DEF Busy
      <3>5. lock' \in [Locks -> {"free", "main", "http"}] /\ lock'["www"] = "http"
        BY <2>2 DEF HoldTable, Take, Locks
      <3> QED
        BY <3>1, <3>3, <3>4, <3>5 DEF Alive
    <2> QED
      BY <1>6, <2>1, <2>2 DEF Lookup
  <1>7. CASE TakeInner
    <2>1. http.step = "inner" /\ http' = [http EXCEPT !.step = "run"] /\ life' = life
      BY <1>7 DEF TakeInner, registryVars
    <2>2. http \in Busy
      BY <2>1 DEF Idle
    <2>3. http' \in Busy /\ http'.callee = http.callee
      BY <2>1, <2>2 DEF Busy
    <2>4. lock' \in [Locks -> {"free", "main", "http"}] /\ lock'["www"] = "http"
      BY <1>7, <2>1 DEF TakeInner, Take, Locks
    <2> QED
      BY <2>1, <2>3, <2>4 DEF Alive
  <1>8. CASE HandlerReturns \/ HandlerThrows
    BY <1>5, <1>8 DEF HandlerReturns, HandlerThrows, AnswerException
  <1>9. \/ UNCHANGED <<lock, http, life>>
        \/ RegistryStep
        \/ BeginPass \/ BeginSwitch \/ EndPass
        \/ \E c \in Connection : OnRead(c)
        \/ Lookup \/ TakeInner \/ HandlerReturns \/ HandlerThrows
    BY DEF Next, Main, Http, Serve, vars, registryVars, connectionVars, EnterLoop,
           Signal, Ended, AcceptFails, Accept, OnWrite, WriteFails, ReadEnds, Connect, Send
  <1> QED
    BY <1>1, <1>2, <1>3, <1>4, <1>6, <1>7, <1>8, <1>9

\* No handler runs, or waits for another lock, whose object is not alive: not while
\* others are registered, nor while the program shuts down (www.cpp:111-129).
THEOREM CalleeAlive == Spec => []CalledAlive
  <1>1. Init => HttpInv
    BY DEF Init, HttpInv, Idle, Locks
  <1>2. RegistryInv /\ HttpInv /\ [Next]_vars => HttpInv'
    BY HttpStepKeeps
  <1>3. HttpInv => CalledAlive
    BY DEF HttpInv, CalledAlive
  <1> QED
    BY <1>1, <1>2, <1>3, TableCorrect, PTL DEF Spec
-----------------------------------------------------------------------------
(* The connections.                                                        *)

\* A connection's state says which of its requests have been answered; only the
\* connection that is being served is in handle_request.
OrderInv ==
    /\ RepliesInOrder
    /\ http # Idle => phase[http.on] = "serving"
    /\ \A c \in Connection :
          /\ phase[c] \in {"new", "backlog", "reading"} =>
                Len(replies[c]) = taken[c] /\ reply[c] = NoReply
          /\ phase[c] = "serving" =>
                http # Idle /\ http.on = c /\ Len(replies[c]) + 1 = taken[c]
          /\ phase[c] = "writing" =>
                /\ reply[c] \in Reply /\ reply[c].to = taken[c]
                /\ Len(replies[c]) + 1 = taken[c]

ConnectionInv == TypeOK /\ OrderInv

\* The request that is being served is one the client sent.
LEMMA ServedRequest ==
    ASSUME ConnectionInv, http # Idle
    PROVE  /\ http \in Busy /\ http.on \in Connection
           /\ phase[http.on] = "serving"
           /\ taken[http.on] \in 1..MaxRequests
           /\ Served \in Request
  <1>1. http \in Busy /\ http.on \in Connection
    BY DEF ConnectionInv, TypeOK, Busy
  <1>2. phase[http.on] = "serving" /\ Len(replies[http.on]) + 1 = taken[http.on]
    BY <1>1 DEF ConnectionInv, OrderInv
  <1>3. replies[http.on] \in Seq(Reply) /\ taken[http.on] \in 0..MaxRequests
    BY <1>1 DEF ConnectionInv, TypeOK
  <1>4. Len(replies[http.on]) \in Nat
    BY <1>3
  <1>5. taken[http.on] \in 1..MaxRequests
    BY <1>2, <1>3, <1>4, WebServerAssumption
  <1>6. sent[http.on] \in Seq(Requests) /\ taken[http.on] <= Len(sent[http.on])
    BY <1>1 DEF ConnectionInv, TypeOK
  <1>7. Served \in Requests
    BY <1>5, <1>6, WebServerAssumption DEF Served
  <1> QED
    BY <1>1, <1>2, <1>5, <1>7, WebServerAssumption

\* A response is that to the request taken last.
LEMMA AnswerKeeps ==
    ASSUME ConnectionInv, http # Idle, NEW status \in Statuses, Answer(status),
           UNCHANGED <<registryVars, main, listening, sent, taken, replies>>
    PROVE  ConnectionInv'
  <1> DEFINE c == http.on
  <1>1. /\ http \in Busy /\ c \in Connection
        /\ phase[c] = "serving" /\ taken[c] \in 1..MaxRequests
    BY ServedRequest
  <1>2. /\ lock' \in [Locks -> {"free", "main", "http"}]
        /\ reply' = [reply EXCEPT ![c] = [to |-> taken[c], status |-> status]]
        /\ phase' = [phase EXCEPT ![c] = "writing"]
        /\ http' = Idle
    BY DEF Answer, Response, Writing, ConnectionInv, TypeOK
  <1>3. [to |-> taken[c], status |-> status] \in Reply
    BY <1>1 DEF Reply
  <1>4. TypeOK'
    BY <1>1, <1>2, <1>3 DEF ConnectionInv, TypeOK, RegistryTypeOK, registryVars, Phases
  <1>5. \A d \in Connection \ {c} : phase[d] # "serving" /\ phase'[d] = phase[d] /\ reply'[d] = reply[d]
    BY <1>1, <1>2 DEF ConnectionInv, OrderInv, TypeOK
  <1>6. phase'[c] = "writing" /\ reply'[c] = [to |-> taken[c], status |-> status]
    BY <1>1, <1>2 DEF ConnectionInv, TypeOK
  <1>7. Len(replies[c]) + 1 = taken[c]
    BY <1>1 DEF ConnectionInv, OrderInv
  <1>8. OrderInv'
    BY <1>1, <1>2, <1>3, <1>5, <1>6, <1>7 DEF ConnectionInv, OrderInv, RepliesInOrder
  <1> QED
    BY <1>4, <1>8 DEF ConnectionInv

\* Everything else that may happen, on the connections and beside them.
LEMMA ConnectionStepKeeps ==
    ASSUME RegistryInv, ConnectionInv, [Next]_vars
    PROVE  ConnectionInv'
  <1>1. RegistryTypeOK'
    BY RegistryStepKeeps DEF RegistryInv
  <1>2. CASE RegistryStep \/ EnterLoop \/ BeginPass \/ BeginSwitch \/ EndPass \/ Signal
    <2>1. UNCHANGED <<connectionVars, http>>
      BY <1>2 DEF RegistryStep, EnterLoop, BeginPass, BeginSwitch, EndPass, Signal
    <2>2. lock' \in [Locks -> {"free", "main", "http"}]
      BY <1>2 DEF RegistryStep, EnterLoop, BeginPass, BeginSwitch, EndPass, Signal, Take,
                  ConnectionInv, TypeOK
    <2>3. main' \in {"start", "between", "pass", "switch", "exit"}
      BY <1>2 DEF RegistryStep, EnterLoop, BeginPass, BeginSwitch, EndPass, Signal,
                  ConnectionInv, TypeOK
    <2> QED
      BY <1>1, <2>1, <2>2, <2>3
         DEF connectionVars, ConnectionInv, TypeOK, OrderInv, RepliesInOrder
  <1>3. CASE UNCHANGED vars
    BY <1>1, <1>3 DEF vars, ConnectionInv, TypeOK, OrderInv, RepliesInOrder
  <1>4. CASE AcceptFails
    BY <1>1, <1>4 DEF AcceptFails, ConnectionInv, TypeOK, OrderInv, RepliesInOrder
  <1>5. ASSUME NEW c \in Connection, Accept(c) \/ ReadEnds(c) \/ Connect(c)
        PROVE  ConnectionInv'
    <2>1. /\ phase[c] \in {"new", "backlog", "reading"}
          /\ \E q \in {"backlog", "reading", "closed"} : phase' = [phase EXCEPT ![c] = q]
          /\ UNCHANGED <<lock, main, sent, taken, reply, replies, http>>
          /\ listening' = listening
      BY <1>5 DEF Accept, ReadEnds, Connect
    <2>2. TypeOK'
      BY <1>1, <2>1 DEF ConnectionInv, TypeOK, Phases
    <2>3. OrderInv'
      BY <2>1 DEF ConnectionInv, TypeOK, OrderInv, RepliesInOrder
    <2> QED
      BY <2>2, <2>3 DEF ConnectionInv
  <1>6. ASSUME NEW c \in Connection, Send(c)
        PROVE  ConnectionInv'
    <2>1. PICK r \in Requests : sent' = [sent EXCEPT ![c] = Append(@, r)]
      BY <1>6 DEF Send
    <2>2. /\ Len(sent[c]) < MaxRequests
          /\ UNCHANGED <<lock, main, listening, phase, taken, reply, replies, http>>
      BY <1>6 DEF Send
    <2>3. /\ sent[c] \in Seq(Requests) /\ Append(sent[c], r) \in Seq(Requests)
          /\ Len(Append(sent[c], r)) = Len(sent[c]) + 1 /\ Len(sent[c]) \in Nat
      BY DEF ConnectionInv, TypeOK
    <2>4. sent' \in [Connection -> Seq(Requests)]
      BY <2>1, <2>3 DEF ConnectionInv, TypeOK
    <2>5. \A d \in Connection : taken[d] <= Len(sent'[d]) /\ Len(sent'[d]) <= MaxRequests
      BY <2>1, <2>2, <2>3, WebServerAssumption DEF ConnectionInv, TypeOK
    <2>6. TypeOK'
      BY <1>1, <2>2, <2>4, <2>5 DEF ConnectionInv, TypeOK
    <2>7. OrderInv'
      BY <2>2 DEF ConnectionInv, OrderInv, RepliesInOrder
    <2> QED
      BY <2>6, <2>7 DEF ConnectionInv
  <1>7. ASSUME NEW c \in Connection, OnRead(c)
        PROVE  ConnectionInv'
    <2>1. /\ http = Idle /\ phase[c] = "reading" /\ taken[c] < Len(sent[c])
          /\ taken' = [taken EXCEPT ![c] = @ + 1]
          /\ UNCHANGED <<lock, main, listening, sent, replies>>
      BY <1>7 DEF OnRead, MayRead
    <2>2. /\ taken' \in [Connection -> 0..MaxRequests]
          /\ taken'[c] = taken[c] + 1 /\ taken'[c] \in 1..MaxRequests
          /\ \A d \in Connection : taken'[d] <= Len(sent[d])
          /\ \A d \in Connection \ {c} : taken'[d] = taken[d]
      <3>1. /\ taken \in [Connection -> 0..MaxRequests] /\ MaxRequests \in Nat
            /\ sent[c] \in Seq(Requests) /\ Len(sent[c]) \in Nat /\ Len(sent[c]) <= MaxRequests
            /\ \A d \in Connection : taken[d] <= Len(sent[d])
        BY WebServerAssumption DEF ConnectionInv, TypeOK
      <3> QED
        BY <2>1, <3>1
    <2>3. CASE /\ http' = [step |-> "lookup", on |-> c, callee |-> NoObject]
               /\ phase' = [phase EXCEPT ![c] = "serving"]
               /\ reply' = reply
      <3>1. http' \in Busy /\ http'.on = c /\ http' # Idle
        BY <2>3 DEF Busy, Idle
      <3>2. TypeOK'
        BY <1>1, <2>1, <2>2, <2>3, <3>1 DEF ConnectionInv, TypeOK, Phases
      <3>3. OrderInv'
        BY <2>1, <2>2, <2>3, <3>1 DEF ConnectionInv, TypeOK, OrderInv, RepliesInOrder
      <3> QED
        BY <3>2, <3>3 DEF ConnectionInv
    <2>4. ASSUME NEW status \in Statuses,
                 reply' = [reply EXCEPT ![c] = [to |-> taken'[c], status |-> status]],
                 phase' = Writing(c), http' = http
          PROVE  ConnectionInv'
      <3>1. [to |-> taken'[c], status |-> status] \in Reply
        BY <2>2 DEF Reply
      <3>2. TypeOK'
        BY <1>1, <2>1, <2>2, <2>4, <3>1 DEF ConnectionInv, TypeOK, Phases, Writing
      <3>3. OrderInv'
        BY <2>1, <2>2, <2>4, <3>1 DEF ConnectionInv, TypeOK, OrderInv, RepliesInOrder, Writing
      <3> QED
        BY <3>2, <3>3 DEF ConnectionInv
    <2> QED
      BY <1>7, <2>3, <2>4 DEF OnRead, Statuses
  <1>8. ASSUME NEW c \in Connection, OnWrite(c)
        PROVE  ConnectionInv'
    <2>1. /\ http = Idle /\ phase[c] = "writing"
          /\ replies' = [replies EXCEPT ![c] = Append(@, reply[c])]
          /\ reply' = [reply EXCEPT ![c] = NoReply]
          /\ \E q \in {"reading", "closed"} : phase' = [phase EXCEPT ![c] = q]
          /\ UNCHANGED <<lock, main, listening, sent, taken, http>>
      BY <1>8 DEF OnWrite
    <2>2. /\ reply[c] \in Reply /\ reply[c].to = taken[c] /\ Len(replies[c]) + 1 = taken[c]
          /\ replies[c] \in Seq(Reply) /\ Len(replies[c]) \in Nat
      BY <2>1 DEF ConnectionInv, TypeOK, OrderInv
    <2>3. /\ Append(replies[c], reply[c]) \in Seq(Reply)
          /\ Len(Append(replies[c], reply[c])) = taken[c]
          /\ \A n \in 1..Len(replies[c]) : Append(replies[c], reply[c])[n] = replies[c][n]
          /\ Append(replies[c], reply[c])[taken[c]] = reply[c]
      BY <2>2
    <2>4. /\ replies'[c] = Append(replies[c], reply[c])
          /\ \A d \in Connection \ {c} : replies'[d] = replies[d]
      BY <2>1 DEF ConnectionInv, TypeOK
    <2>5. TypeOK'
      BY <1>1, <2>1, <2>3 DEF ConnectionInv, TypeOK, Phases
    <2>6. RepliesInOrder'
      <3>1. \A n \in DOMAIN replies'[c] : replies'[c][n].to = n
        <4>1. \A n \in DOMAIN replies[c] : replies[c][n].to = n
          BY DEF ConnectionInv, OrderInv, RepliesInOrder
        <4> QED
          BY <2>2, <2>3, <2>4, <4>1
      <3> QED
        BY <2>4, <3>1 DEF ConnectionInv, OrderInv, RepliesInOrder
    <2>7. OrderInv'
      BY <2>1, <2>3, <2>4, <2>6 DEF ConnectionInv, TypeOK, OrderInv
    <2> QED
      BY <2>5, <2>7 DEF ConnectionInv
  <1>9. ASSUME NEW c \in Connection, WriteFails(c)
        PROVE  ConnectionInv'
    <2>1. /\ http = Idle /\ phase[c] = "writing"
          /\ reply' = [reply EXCEPT ![c] = NoReply]
          /\ phase' = [phase EXCEPT ![c] = "closed"]
          /\ UNCHANGED <<lock, main, listening, sent, taken, replies, http>>
      BY <1>9 DEF WriteFails
    <2>2. TypeOK'
      BY <1>1, <2>1 DEF ConnectionInv, TypeOK, Phases
    <2>3. OrderInv'
      BY <2>1 DEF ConnectionInv, TypeOK, OrderInv, RepliesInOrder
    <2> QED
      BY <2>2, <2>3 DEF ConnectionInv
  <1>10. CASE Lookup
    <2>1. http # Idle /\ UNCHANGED <<registryVars, main, listening, sent, taken, replies>>
      BY <1>10 DEF Lookup, Idle
    <2>2. CASE Answer("not_found") \/ Answer("bad_request")
      BY <2>1, <2>2, AnswerKeeps DEF Statuses
    <2>3. CASE /\ Registered(Served.key) /\ HoldTable
               /\ http' = [http EXCEPT !.callee = rpcs[Served.key].handler,
                                       !.step = IF Inner[Served.key] = "none" THEN "run"
                                                ELSE "inner"]
               /\ UNCHANGED <<reply, phase>>
      <3>1. rpcs[Served.key].handler \in Object
        BY <2>3 DEF Registered, RegistryInv, RegistryTypeOK, Entry
      <3>2. http \in Busy
        BY <2>1, ServedRequest
      <3>3. http' \in Busy /\ http'.on = http.on
        BY <2>3, <3>1, <3>2 DEF Busy
      <3>4. http' # Idle
        BY <3>3 DEF Busy, Idle
      <3>5. lock' \in [Locks -> {"free", "main", "http"}]
        BY <2>3 DEF HoldTable, Take, ConnectionInv, TypeOK
      <3> QED
        BY <1>1, <2>1, <2>3, <3>3, <3>4, <3>5 DEF ConnectionInv, TypeOK, OrderInv, RepliesInOrder
    <2> QED
      BY <1>10, <2>2, <2>3 DEF Lookup
  <1>11. CASE TakeInner
    <2>1. /\ http.step = "inner" /\ http' = [http EXCEPT !.step = "run"]
          /\ UNCHANGED <<main, connectionVars>>
      BY <1>11 DEF TakeInner
    <2>2. http # Idle /\ http \in Busy
      BY <2>1, ServedRequest DEF Idle
    <2>3. http' \in Busy /\ http'.on = http.on
      BY <2>1, <2>2 DEF Busy
    <2>4. http' # Idle
      BY <2>3 DEF Busy, Idle
    <2>5. lock' \in [Locks -> {"free", "main", "http"}]
      BY <1>11 DEF TakeInner, Take, ConnectionInv, TypeOK
    <2> QED
      BY <1>1, <2>1, <2>2, <2>3, <2>4, <2>5
         DEF connectionVars, ConnectionInv, TypeOK, OrderInv, RepliesInOrder
  <1>12. CASE HandlerReturns \/ HandlerThrows
    <2>1. http # Idle
      BY <1>12 DEF HandlerReturns, HandlerThrows, Idle
    <2> QED
      BY <1>12, <2>1, AnswerKeeps DEF HandlerReturns, HandlerThrows, AnswerException, Statuses
  <1> QED
    BY <1>2, <1>3, <1>4, <1>5, <1>6, <1>7, <1>8, <1>9, <1>10, <1>11, <1>12
       DEF Next, Main, Http, Serve, Ended

\* Where every connection is, for any number of them.
LEMMA ConnectionCorrect == Spec => []ConnectionInv
  <1>1. Init => ConnectionInv
    <2> SUFFICES ASSUME Init PROVE ConnectionInv
      OBVIOUS
    <2>1. RegistryTypeOK
      BY RegistryAssumption DEF Init, RegistryInit, RegistryTypeOK, Lives
    <2>2. TypeOK
      BY <2>1, WebServerAssumption DEF Init, TypeOK, Phases
    <2>3. OrderInv
      BY DEF Init, OrderInv, RepliesInOrder
    <2> QED
      BY <2>2, <2>3 DEF ConnectionInv
  <1>2. RegistryInv /\ ConnectionInv /\ [Next]_vars => ConnectionInv'
    BY ConnectionStepKeeps
  <1> QED
    BY <1>1, <1>2, TableCorrect, PTL DEF Spec

\* TypeOK holds in every reachable state: a response is to a request that was
\* sent, and only a registered object's handler is ever called.
THEOREM TypeCorrect == Spec => []TypeOK
  <1>1. ConnectionInv => TypeOK
    BY DEF ConnectionInv
  <1> QED
    BY <1>1, ConnectionCorrect, PTL

\* Every client gets the responses to its requests in their order, none skipped
\* and none twice, however many clients there are (www.cpp:217-254).
THEOREM OrderKept == Spec => []RepliesInOrder
  <1>1. ConnectionInv => RepliesInOrder
    BY DEF ConnectionInv, OrderInv
  <1> QED
    BY <1>1, ConnectionCorrect, PTL
=============================================================================
