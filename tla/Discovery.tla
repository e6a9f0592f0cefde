------------------------------ MODULE Discovery ------------------------------
(***************************************************************************)
(* How the inverter's addresses reach the Modbus connection: the avahi     *)
(* client and its callbacks (src/service_discovery.cpp), the SMA producer, *)
(* a subscriber, with the flag by which it tells the main thread's poll    *)
(* (src/sma.cpp) to copy the list of services, and the publisher of the    *)
(* program's own page, from their construction to their destruction.       *)
(*                                                                         *)
(* A callback runs to its end on the avahi thread, under the lock of its   *)
(* event loop, but the calls it makes and their effects on what it shares  *)
(* with the main thread are steps: the flag is an atomic, the list has a   *)
(* mutex of its own.  Callbacks may come while the subscriber is being     *)
(* constructed or destroyed: a virtual call goes to the class that the     *)
(* object is of when it is made.                                           *)
(***************************************************************************)
EXTENDS Naturals, Sequences

CONSTANTS
    Key,            \* service_key: interface, protocol, name, domain
    NameOf,         \* [Key -> Name], the key's name and interface
    Name,
    Inverters,      \* names that contain "SMA-Inverter"
    Address,        \* what a resolver may find
    NoResult        \* a resolver that has found nothing yet

VARIABLES
    client,         \* m_client_state; "null" when there is no client
    group,          \* whether the publisher has one (m_group)
    browser,        \* whether there is one for the subscriber's type
    resolvers,      \* browser_info.resolvers: key |-> result
    early,          \* history: services resolved before the SMA producer was
                    \* constructed to its end
    todo,           \* what is left of the callback in progress
    m_services,     \* the subscriber's list: how often each service is on it
    m_endpoints_changed,
    pc,             \* main thread
    endpoints       \* candidates the connection was given last, likewise

avahiVars == <<client, group, browser, resolvers, early>>
mainVars == <<pc, endpoints>>
vars == <<avahiVars, mainVars, todo, m_services, m_endpoints_changed>>

Service == [name: Name, address: Address]

ASSUME DiscoveryAssumption ==
    /\ NameOf \in [Key -> Name] /\ Inverters \subseteq Name
    /\ NoResult \notin Service

\* The states told apart; "waiting" stands for those before and between.
ClientStates == {"waiting", "running", "failure"}

\* The main thread constructs the publisher, then the producer: its base, its
\* members, the flag last.  It polls, and destroys them in reverse.
Phases == {"start", "published", "base", "members", "idle", "copy", "closing", "leaving", "left", "end"}

\* Steps of a callback: the calls of a subscriber, lost() or resolved() if match()
\* says so ("drop", "offer") or in any case, and what these do in turn: flag.store,
\* push_back, std::erase.
Ops == {"drop", "offer", "lost", "resolved", "flag", "push", "erase"}
Step == [op: Ops, service: Service]
Do(op, v) == [op |-> op, service |-> v]

TypeOK ==
    /\ client \in ClientStates \cup {"null"} /\ group \in BOOLEAN
    /\ browser \in BOOLEAN
    /\ DOMAIN resolvers \subseteq Key
    /\ \A k \in DOMAIN resolvers :
          resolvers[k] = NoResult \/ resolvers[k] \in [name: {NameOf[k]}, address: Address]
    /\ m_services \in [Service -> Nat] /\ endpoints \in [Service -> Nat]
    /\ early \subseteq Service
    /\ todo \in Seq(Step)
    /\ m_endpoints_changed \in BOOLEAN
    /\ pc \in Phases

NoResolvers == [k \in {} |-> NoResult]
NoServices == [v \in Service |-> 0]

\* registry(): a client whose first state is told before it is there, or none.
Init ==
    /\ client \in {"null", "waiting", "running"}
    /\ group = FALSE /\ browser = FALSE
    /\ resolvers = NoResolvers /\ early = {} /\ todo = <<>>
    /\ m_services = NoServices /\ endpoints = NoServices
    /\ m_endpoints_changed = FALSE
    /\ pc = "start"

\* Variant: the destructor does not wait for the callback in progress.
Unlocked == TRUE

\* registry::lock(): the event loop's lock is free.
LockFree == todo = <<>>

-----------------------------------------------------------------------------
(* The avahi thread: the client and the publisher.                         *)

\* publisher::impl::on_client_cb: a new group or none.  That the service cannot be
\* added or the group not be committed is logged, and changes nothing.
on_client_cb(state) == group' = (state = "running")

\* Variant: the publisher waits for the next change of the client's state.
LaterOnly == group' = group

AtConstruction == on_client_cb(client)

Published == pc \notin {"start", "end"}

ClientChanges ==
    /\ LockFree /\ client \notin {"null", "failure"}
    /\ client' \in ClientStates \ {client}
    /\ IF Published THEN on_client_cb(client') ELSE group' = group
    /\ UNCHANGED <<browser, resolvers, early, mainVars, todo, m_services, m_endpoints_changed>>

-----------------------------------------------------------------------------
(* The avahi thread: browser and resolvers.                                *)

\* Calls reach producer_impl from its members' construction until its destructor
\* has run, and the base class before and after.
Derived == pc \in {"members", "idle", "copy", "closing"}

match(name) == Derived => name \in Inverters

\* sma.cpp raises the flag first, then changes the list.
lost(v) == IF Derived THEN <<Do("flag", v), Do("erase", v)>> ELSE <<Do("erase", v)>>
resolved(v) == IF Derived THEN <<Do("flag", v), Do("push", v)>> ELSE <<Do("push", v)>>

\* Variant: a new address is added to the old one.
KeepsOld(k) == <<>>

Superseded(k) == IF resolvers[k] # NoResult THEN <<Do("drop", resolvers[k])>> ELSE <<>>

\* A callback may begin; a client that failed makes none any more.
Callback == LockFree /\ browser /\ client # "failure"

\* AVAHI_BROWSER_NEW: a resolver is created (or made anew) for the key.
BrowserNew ==
    /\ Callback
    /\ \E k \in Key \ DOMAIN resolvers :
          resolvers' = [j \in DOMAIN resolvers \cup {k} |->
                           IF j = k THEN NoResult ELSE resolvers[j]]
    /\ UNCHANGED <<client, group, browser, early, mainVars, todo, m_services,
                   m_endpoints_changed>>

\* AVAHI_RESOLVER_FOUND, first or again: the old result is lost, the new resolved.
on_resolve ==
    /\ Callback
    /\ \E k \in DOMAIN resolvers, a \in Address :
          LET result == [name |-> NameOf[k], address |-> a]
          IN  /\ todo' = Superseded(k) \o <<Do("offer", result)>>
              /\ resolvers' = [resolvers EXCEPT ![k] = result]
              /\ early' = IF pc \in {"base", "members"} THEN early \cup {result} ELSE early
    /\ UNCHANGED <<client, group, browser, mainVars, m_services, m_endpoints_changed>>

\* AVAHI_BROWSER_REMOVE: every subscriber loses the result, match or no match.
BrowserRemove ==
    /\ Callback
    /\ \E k \in DOMAIN resolvers :
          /\ todo' = IF resolvers[k] # NoResult THEN <<Do("lost", resolvers[k])>> ELSE <<>>
          /\ resolvers' = [j \in DOMAIN resolvers \ {k} |-> resolvers[j]]
    /\ UNCHANGED <<client, group, browser, early, mainVars, m_services, m_endpoints_changed>>

\* Variant: every service of the type is taken for an inverter.
AnyName(step) ==
    CASE step.op = "drop" -> <<Do("lost", step.service)>>
      [] step.op = "offer" -> <<Do("resolved", step.service)>>
      [] step.op = "lost" -> lost(step.service)
      [] step.op = "resolved" -> resolved(step.service)
      [] OTHER -> <<>>

\* What a call calls in turn.
Calls(step) ==
    CASE step.op = "drop" /\ match(step.service.name) -> <<Do("lost", step.service)>>
      [] step.op = "offer" /\ match(step.service.name) -> <<Do("resolved", step.service)>>
      [] step.op = "lost" -> lost(step.service)
      [] step.op = "resolved" -> resolved(step.service)
      [] OTHER -> <<>>

\* Variant: one of several equal services is taken out.
OneLess(v) == [m_services EXCEPT ![v] = @ - 1]

\* std::erase takes every equal service out, whichever resolver found it.
Without(v) == [m_services EXCEPT ![v] = 0]

CallbackStep ==
    /\ todo # <<>>
    /\ LET step == Head(todo)
       IN  /\ todo' = Calls(step) \o Tail(todo)
           /\ m_endpoints_changed' = (m_endpoints_changed \/ step.op = "flag")
           /\ m_services' = CASE step.op = "push" -> [m_services EXCEPT ![step.service] = @ + 1]
                              [] step.op = "erase" -> Without(step.service)
                              [] OTHER -> m_services
    /\ UNCHANGED <<avahiVars, mainVars>>

-----------------------------------------------------------------------------
(* The main thread: construction.                                          *)

Publish ==
    /\ pc = "start" /\ LockFree
    /\ AtConstruction
    /\ pc' = "published"
    /\ UNCHANGED <<client, browser, resolvers, early, endpoints, todo, m_services,
                   m_endpoints_changed>>

\* subscriber(): without a browser nothing will ever be found.  No other
\* subscriber has made one before, so there are no results to be told at once.
Subscribe ==
    /\ pc = "published" /\ LockFree
    /\ browser' \in BOOLEAN /\ (browser' => client \notin {"null", "failure"})
    /\ pc' = "base"
    /\ UNCHANGED <<client, group, resolvers, early, endpoints, todo, m_services,
                   m_endpoints_changed>>

\* From here on calls reach producer_impl, whose m_port and m_conn are made.
MakeMembers ==
    /\ pc = "base" /\ pc' = "members"
    /\ UNCHANGED <<avahiVars, endpoints, todo, m_services, m_endpoints_changed>>

\* m_endpoints_changed is the last member: whatever it held, it is false now.
MakeFlag ==
    /\ pc = "members" /\ pc' = "idle"
    /\ m_endpoints_changed' = FALSE
    /\ UNCHANGED <<avahiVars, endpoints, todo, m_services>>

-----------------------------------------------------------------------------
(* The main thread: the first lines of the SMA producer's poll.            *)

\* m_endpoints_changed.exchange(false)
Exchange ==
    /\ pc = "idle" /\ m_endpoints_changed
    /\ m_endpoints_changed' = FALSE /\ pc' = "copy"
    /\ UNCHANGED <<avahiVars, endpoints, todo, m_services>>

Copy ==
    /\ pc = "copy"
    /\ endpoints' = m_services /\ pc' = "idle"
    /\ UNCHANGED <<avahiVars, todo, m_services, m_endpoints_changed>>

-----------------------------------------------------------------------------
(* The main thread: destruction, once the loop has ended.                  *)

\* The members of producer_impl go, the flag first; calls still reach its class ...
DestroyMembers ==
    /\ pc = "idle" /\ pc' = "closing"
    /\ UNCHANGED <<avahiVars, endpoints, todo, m_services, m_endpoints_changed>>

\* ... until the destructor of the base class begins, which waits for the lock.
DestroyBase ==
    /\ pc = "closing" /\ pc' = "leaving"
    /\ UNCHANGED <<avahiVars, endpoints, todo, m_services, m_endpoints_changed>>

\* ~subscriber(): the browser goes with its last subscriber.
Unsubscribe ==
    /\ pc = "leaving" /\ LockFree
    /\ browser' = FALSE /\ resolvers' = NoResolvers
    /\ pc' = "left"
    /\ UNCHANGED <<client, group, early, endpoints, todo, m_services, m_endpoints_changed>>

\* ~impl() of the publisher.
Unpublish ==
    /\ pc = "left" /\ LockFree
    /\ group' = FALSE
    /\ pc' = "end"
    /\ UNCHANGED <<client, browser, resolvers, early, endpoints, todo, m_services,
                   m_endpoints_changed>>

Avahi == ClientChanges \/ BrowserNew \/ on_resolve \/ BrowserRemove \/ CallbackStep

Main == \/ Publish \/ Subscribe \/ MakeMembers \/ MakeFlag
        \/ Exchange \/ Copy
        \/ DestroyMembers \/ DestroyBase \/ Unsubscribe \/ Unpublish

Next == Avahi \/ Main

Spec == Init /\ [][Next]_vars

-----------------------------------------------------------------------------
(* Properties.                                                             *)

Listed(v) == m_services[v] > 0

\* The subscriber is there: from its base's construction to its base's destruction.
Subscribed == pc \in {"base", "members", "idle", "copy", "closing", "leaving"}

\* Results of the resolvers there are, as far as they are inverters.
Found == {resolvers[k] : k \in {k \in DOMAIN resolvers :
              resolvers[k] # NoResult /\ NameOf[k] \in Inverters}}

\* Between callbacks the list holds no inverter that is gone or has moved: what
\* was pushed by one callback is erased by the one that supersedes it, however
\* often keys resolve again and whether callbacks meet the base class or
\* producer_impl (service_discovery.cpp:128-136 and 159-165).
NoGhosts ==
    todo = <<>> /\ Subscribed =>
        \A v \in Service : Listed(v) /\ v.name \in Inverters => v \in Found

\* The connection is sent to inverters only: the page's own server publishes the
\* same service type, and is no candidate (sma.cpp:65-67).  Proviso: services that
\* were resolved before the producer was constructed, whose names the base class
\* may have been asked for (service_discovery.h:24); it takes them all.
OnlyInverters ==
    \A v \in Service : endpoints[v] > 0 => v.name \in Inverters \/ v \in early

\* A callback never touches a subscriber that is gone: the destructor waits for
\* the one in progress and takes the browser away before the next
\* (service_discovery.cpp:193-199).
SubscriberAlive == todo # <<>> => Subscribed

\* The publisher has an entry group whenever the client runs, whichever of client
\* and publisher was there first, and never one of a client that does not
\* (service_discovery.cpp:240-259).  A group that could not be filled or
\* committed stays as it is until the client changes.
Announced == Published => (group <=> client = "running")

\* Nothing in progress and no change announced: the connection has the list as
\* it is.  "There are no endpoint candidates (yet)" in the log (modbus.cpp:164)
\* then means the list is empty.  Also without a callback before the producer is
\* constructed, whose flag the initialiser undoes.
NoMissedChange ==
    todo = <<>> /\ pc = "idle" /\ ~m_endpoints_changed /\ early = {} => endpoints = m_services

\* An inverter some resolver still finds is on the list between callbacks, so
\* that "it is no longer a candidate endpoint" (modbus.cpp:135) is said only of
\* one that is gone.
FoundIsListed == todo = <<>> /\ pc = "idle" => \A v \in Found : Listed(v)
=============================================================================
