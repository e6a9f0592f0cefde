----------------------------- MODULE RpcRegistry -----------------------------
(***************************************************************************)
(* The table of RPC handlers (src/www.cpp) and the www::rpc objects that   *)
(* stand for its entries (src/www.h).  Constructing an object registers    *)
(* its handler, destroying it takes the handler off the table; a second    *)
(* object for the same key overrules the first.                            *)
(*                                                                         *)
(* rpc::get and rpc::post return the object by value: a build may construct*)
(* it in place, or construct a temporary, move it and destroy it.  Each of *)
(* these steps takes the table's lock on its own.                          *)
(***************************************************************************)
EXTENDS Naturals

CONSTANTS
    Object,         \* the rpc objects of the program
    Key,            \* rpc::key: method and name
    KeyOf,          \* an object's m_key
    NoObject

ASSUME RegistryAssumption ==
    /\ KeyOf \in [Object -> Key]
    /\ NoObject \notin Object

VARIABLES
    rpcs,           \* registry.rpcs: key |-> [instance, handler]
    life,           \* how far an object's life is
    latest          \* history: the object that registered a key last

registryVars == <<rpcs, life, latest>>

\* "moving": the temporary and the object it is moved to both exist.
Lives == {"unborn", "temporary", "moving", "member", "dead"}

\* Where an rpc is: its address before the move, and after.
Temporary(o) == [at |-> "temporary", of |-> o]
Member(o)    == [at |-> "member", of |-> o]
Instance     == [at: {"temporary", "member"}, of: Object]

\* A handler uses what surrounds the object, so it is named by the object.
Entry == [instance: Instance, handler: Object]

RegistryTypeOK ==
    /\ DOMAIN rpcs \subseteq Key
    /\ \A k \in DOMAIN rpcs : rpcs[k] \in Entry
    /\ life \in [Object -> Lives]
    /\ latest \in [Key -> Object \cup {NoObject}]

RegistryInit ==
    /\ rpcs = [k \in {} |-> NoObject]
    /\ life = [o \in Object |-> "unborn"]
    /\ latest = [k \in Key |-> NoObject]

Registered(k) == k \in DOMAIN rpcs
Owns(inst, k) == Registered(k) /\ rpcs[k].instance = inst

-----------------------------------------------------------------------------
(* What the constructor, the move and the destructor do to the table.       *)

\* rpc::init: an entry under the same key is replaced.
InitEntry(o, inst) ==
    rpcs' = [k \in DOMAIN rpcs \cup {KeyOf[o]} |->
                IF k = KeyOf[o] THEN [instance |-> inst, handler |-> o] ELSE rpcs[k]]

\* Variant: the entry stays with the object moved from.
MoveNothing(o) == rpcs

\* rpc::move: the entry follows the object, if it is still the object's.
Moved(o) ==
    IF Owns(Temporary(o), KeyOf[o])
    THEN [rpcs EXCEPT ![KeyOf[o]].instance = Member(o)]
    ELSE rpcs

\* Variant: whoever is registered under the key goes.
EraseKey(inst) ==
    [k \in DOMAIN rpcs \ {KeyOf[inst.of]} |-> rpcs[k]]

\* rpc::~rpc: only an entry of one's own is erased; the object may have been
\* overruled or moved from.
Erased(inst) ==
    IF Owns(inst, KeyOf[inst.of])
    THEN [k \in DOMAIN rpcs \ {KeyOf[inst.of]} |-> rpcs[k]]
    ELSE rpcs

-----------------------------------------------------------------------------
(* The life of an object.  Each step needs the table's lock for a moment.   *)

Construct(o) ==
    /\ life[o] = "unborn"
    /\ \/ life' = [life EXCEPT ![o] = "temporary"] /\ InitEntry(o, Temporary(o))
       \/ life' = [life EXCEPT ![o] = "member"] /\ InitEntry(o, Member(o))
    /\ latest' = [latest EXCEPT ![KeyOf[o]] = o]

Move(o) ==
    /\ life[o] = "temporary"
    /\ life' = [life EXCEPT ![o] = "moving"]
    /\ rpcs' = Moved(o)
    /\ UNCHANGED latest

DestroyTemporary(o) ==
    /\ life[o] = "moving"
    /\ life' = [life EXCEPT ![o] = "member"]
    /\ rpcs' = Erased(Temporary(o))
    /\ UNCHANGED latest

Destroy(o) ==
    /\ life[o] = "member"
    /\ life' = [life EXCEPT ![o] = "dead"]
    /\ rpcs' = Erased(Member(o))
    /\ UNCHANGED latest

\* The main thread finishes one construction before it begins the next.
UnderConstruction == {o \in Object : life[o] \in {"temporary", "moving"}}

-----------------------------------------------------------------------------
(* Properties.                                                             *)

Alive(o) == o # NoObject /\ life[o] \notin {"unborn", "dead"}

\* A key is served exactly while the object that registered it last is alive,
\* and by that object's handler: an overruled object that goes does not take
\* its successor's entry along, and the temporary of a returned rpc does not
\* take the member's ("this RPC might have been overruled in the meantime",
\* www.cpp:360).
ServesLatest ==
    \A k \in Key :
        /\ Registered(k) <=> Alive(latest[k])
        /\ Registered(k) => rpcs[k].handler = latest[k]
=============================================================================
