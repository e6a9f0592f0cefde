------------------------------ MODULE WebServer ------------------------------
(***************************************************************************)
(* The web server (src/www.cpp): a listener, its connections and the       *)
(* dispatch of requests to RPC handlers, all on one http thread, while the *)
(* main thread registers handlers, runs the control loop and, at the end,  *)
(* destroys the rpc objects.                                               *)
(*                                                                         *)
(* The http thread holds the RPC table's lock for as long as a handler     *)
(* runs; a handler may take another lock inside.  The main thread holds    *)
(* the core registry's lock for a pass and the settings registry's inside. *)
(***************************************************************************)
EXTENDS RpcRegistry, Sequences

CONSTANTS
    Connection,     \* the connections clients may open
    Inner,          \* key |-> the lock its handler takes, or "none"
    Requests,       \* the requests clients send
    MaxRequests     \* bound on the requests of a connection

VARIABLES
    lock,           \* the three registries' locks and who holds them
    main,           \* where the main thread is
    listening,      \* an async_accept is under way
    phase,          \* of each connection
    sent,           \* history: what the client sent
    taken,          \* how many of it the server read
    reply,          \* m_spresponse
    replies,        \* history: what the client got
    http            \* the request in handle_request, and how far it is

vars == <<rpcs, life, latest, lock, main, listening, phase, sent, taken, reply,
          replies, http>>

connectionVars == <<listening, phase, sent, taken, reply, replies>>

Locks == {"www", "core", "settings"}

\* api: the target starts with /api/; supported: the method is GET or POST, or for
\* a file GET or HEAD;
\* readable: the body is JSON and is said to be, or there is none.
Request == [api: BOOLEAN, supported: BOOLEAN, key: Key, readable: BOOLEAN,
            keep_alive: BOOLEAN]

ASSUME WebServerAssumption ==
    /\ Inner \in [Key -> {"none", "core", "settings"}]
    /\ Requests \subseteq Request
    /\ MaxRequests \in Nat

Statuses == {"ok", "bad_request", "not_found", "server_error"}

\* No response, or the one to the n-th request of the connection.
NoReply == [to |-> 0, status |-> "none"]
Reply == [to: 1..MaxRequests, status: Statuses]

Idle == [step |-> "idle"]
Busy == [step: {"lookup", "inner", "run"}, on: Connection, callee: Object \cup {NoObject}]

Phases == {"new", "backlog", "reading", "serving", "writing", "closed"}

TypeOK ==
    /\ RegistryTypeOK
    /\ lock \in [Locks -> {"free", "main", "http"}]
    /\ main \in {"start", "between", "pass", "switch", "exit"}
    /\ listening \in BOOLEAN
    /\ phase \in [Connection -> Phases]
    /\ sent \in [Connection -> Seq(Requests)]
    /\ taken \in [Connection -> 0..MaxRequests]
    /\ \A c \in Connection : taken[c] <= Len(sent[c]) /\ Len(sent[c]) <= MaxRequests
    /\ reply \in [Connection -> Reply \cup {NoReply}]
    /\ replies \in [Connection -> Seq(Reply)]
    /\ http = Idle \/ http \in Busy

Init ==
    /\ RegistryInit
    /\ lock = [l \in Locks |-> "free"]
    /\ main = "start" /\ listening = TRUE
    /\ phase = [c \in Connection |-> "new"]
    /\ sent = [c \in Connection |-> <<>>] /\ taken = [c \in Connection |-> 0]
    /\ reply = [c \in Connection |-> NoReply]
    /\ replies = [c \in Connection |-> <<>>]
    /\ http = Idle

Free(l) == lock[l] = "free"
Take(l, who) == lock' = [lock EXCEPT ![l] = who]

-----------------------------------------------------------------------------
(* The main thread.                                                        *)

\* Static initialisation of the other modules, and their destruction: the web
\* server is up before the first and still up after the last.
RegistryStep ==
    /\ Free("www")
    /\ \/ /\ main = "start"
          /\ \E o \in Object : \/ Construct(o) /\ UnderConstruction = {}
                               \/ Move(o)
                               \/ DestroyTemporary(o)
       \/ /\ main = "exit"
          /\ \E o \in Object : Destroy(o)
    /\ UNCHANGED <<lock, main, connectionVars, http>>

EnterLoop ==
    /\ main = "start" /\ \A o \in Object : life[o] = "member"
    /\ main' = "between"
    /\ UNCHANGED <<registryVars, lock, connectionVars, http>>

BeginPass ==
    /\ main = "between" /\ Free("core")
    /\ Take("core", "main") /\ main' = "pass"
    /\ UNCHANGED <<registryVars, connectionVars, http>>

\* The schedule applies its settings in the middle of a pass.
BeginSwitch ==
    /\ main = "pass" /\ Free("settings")
    /\ Take("settings", "main") /\ main' = "switch"
    /\ UNCHANGED <<registryVars, connectionVars, http>>

EndPass ==
    /\ main \in {"pass", "switch"}
    /\ lock' = [l \in Locks |-> IF lock[l] = "main" THEN "free" ELSE lock[l]]
    /\ main' = "between"
    /\ UNCHANGED <<registryVars, connectionVars, http>>

\* SIGTERM or SIGINT, which only the wait between two passes takes.
Signal ==
    /\ main = "between"
    /\ main' = "exit"
    /\ UNCHANGED <<registryVars, lock, connectionVars, http>>

-----------------------------------------------------------------------------
(* The listener and the connections, between two requests.                 *)

Accept(c) ==
    /\ http = Idle /\ listening /\ phase[c] = "backlog"
    /\ phase' = [phase EXCEPT ![c] = "reading"]
    /\ UNCHANGED <<registryVars, lock, main, listening, sent, taken, reply, replies, http>>

\* After an error nothing is accepted any more.
AcceptFails ==
    /\ http = Idle /\ listening
    /\ listening' = FALSE
    /\ UNCHANGED <<registryVars, lock, main, phase, sent, taken, reply, replies, http>>

\* The client is through, the socket failed, or 300 s passed: do_close or fail,
\* and with the last handler the connection goes.
ReadEnds(c) ==
    /\ http = Idle /\ phase[c] = "reading" /\ taken[c] = Len(sent[c])
    /\ phase' = [phase EXCEPT ![c] = "closed"]
    /\ UNCHANGED <<registryVars, lock, main, listening, sent, taken, reply, replies, http>>

\* Variant: the response is filed under the request before.
Belated(c, status) == [reply EXCEPT ![c] = [to |-> taken[c] - 1, status |-> status]]

Writing(c) == [phase EXCEPT ![c] = "writing"]
Response(c, status) == [reply EXCEPT ![c] = [to |-> taken[c], status |-> status]]

\* Variant: the next request is read before the response is out.
AnyTime(c) == phase[c] \in {"reading", "writing"}

MayRead(c) == phase[c] = "reading"

\* on_read: a request for a file is answered at once, as one whose method is not
\* supported; another one has to be looked up.
OnRead(c) ==
    /\ http = Idle /\ MayRead(c) /\ taken[c] < Len(sent[c])
    /\ taken' = [taken EXCEPT ![c] = @ + 1]
    /\ LET req == sent[c][taken'[c]]
       IN  IF req.api /\ req.supported
           THEN /\ http' = [step |-> "lookup", on |-> c, callee |-> NoObject]
                /\ phase' = [phase EXCEPT ![c] = "serving"]
                /\ reply' = reply
           ELSE /\ \E status \in IF req.supported
                                 THEN {"ok", "bad_request", "not_found", "server_error"}
                                 ELSE {"bad_request"} :
                       reply' = [reply EXCEPT ![c] = [to |-> taken'[c], status |-> status]]
                /\ phase' = Writing(c)
                /\ http' = http
    /\ UNCHANGED <<registryVars, lock, main, listening, sent, replies>>

OnWrite(c) ==
    /\ http = Idle /\ phase[c] = "writing"
    /\ replies' = [replies EXCEPT ![c] = Append(@, reply[c])]
    /\ reply' = [reply EXCEPT ![c] = NoReply]
    /\ phase' = [phase EXCEPT ![c] =
                    IF sent[c][taken[c]].keep_alive THEN "reading" ELSE "closed"]
    /\ UNCHANGED <<registryVars, lock, main, listening, sent, taken, http>>

\* The socket failed, or the 300 s given when the request was awaited are over.
WriteFails(c) ==
    /\ http = Idle /\ phase[c] = "writing"
    /\ reply' = [reply EXCEPT ![c] = NoReply]
    /\ phase' = [phase EXCEPT ![c] = "closed"]
    /\ UNCHANGED <<registryVars, lock, main, listening, sent, taken, replies, http>>

-----------------------------------------------------------------------------
(* handle_request on a request for an RPC.                                 *)

Served == sent[http.on][taken[http.on]]

\* Lets go of the http thread's locks and has the response written.
Answer(status) ==
    /\ lock' = [l \in Locks |-> IF lock[l] = "http" THEN "free" ELSE lock[l]]
    /\ reply' = Response(http.on, status)
    /\ phase' = Writing(http.on)
    /\ http' = Idle

\* Variant: the table's lock is given back before the handler runs.
HoldNothing == lock' = lock

HoldTable == Take("www", "http")

\* The lookup, the check of the body, and into the handler.
Lookup ==
    /\ http.step = "lookup" /\ Free("www")
    /\ \/ /\ ~Registered(Served.key)
          /\ Answer("not_found")
       \/ /\ Registered(Served.key) /\ ~Served.readable
          /\ Answer("bad_request")
       \/ /\ Registered(Served.key) /\ Served.readable
          /\ HoldTable
          /\ http' = [http EXCEPT !.callee = rpcs[Served.key].handler,
                                  !.step = IF Inner[Served.key] = "none" THEN "run"
                                           ELSE "inner"]
          /\ UNCHANGED <<reply, phase>>
    /\ UNCHANGED <<registryVars, main, listening, sent, taken, replies>>

\* The handler waits for the core registry, or for the settings.
TakeInner ==
    /\ http.step = "inner" /\ Free(Inner[Served.key])
    /\ Take(Inner[Served.key], "http")
    /\ http' = [http EXCEPT !.step = "run"]
    /\ UNCHANGED <<registryVars, main, connectionVars>>

\* Variant: an exception leaves handle_request without a response.
NoAnswer(status) ==
    /\ lock' = [l \in Locks |-> IF lock[l] = "http" THEN "free" ELSE lock[l]]
    /\ http' = Idle
    /\ UNCHANGED <<reply, phase>>

AnswerException(status) == Answer(status)

HandlerReturns ==
    /\ http.step = "run"
    /\ Answer("ok")
    /\ UNCHANGED <<registryVars, main, listening, sent, taken, replies>>

\* What it was given does not convert to what it takes.
HandlerThrows ==
    /\ http.step = "run"
    /\ AnswerException("bad_request")
    /\ UNCHANGED <<registryVars, main, listening, sent, taken, replies>>

-----------------------------------------------------------------------------
(* The clients.                                                            *)

Connect(c) ==
    /\ phase[c] = "new"
    /\ phase' = [phase EXCEPT ![c] = "backlog"]
    /\ UNCHANGED <<registryVars, lock, main, listening, sent, taken, reply, replies, http>>

Send(c) ==
    /\ phase[c] \notin {"new", "closed"}
    /\ Len(sent[c]) < MaxRequests
    /\ \E r \in Requests : sent' = [sent EXCEPT ![c] = Append(@, r)]
    /\ UNCHANGED <<registryVars, lock, main, listening, phase, taken, reply, replies, http>>

-----------------------------------------------------------------------------

Main == RegistryStep \/ EnterLoop \/ BeginPass \/ EndPass

Http == Lookup \/ HandlerReturns \/ HandlerThrows

Serve(c) == Accept(c) \/ OnRead(c) \/ OnWrite(c) \/ WriteFails(c)

\* The program may have stopped, and everybody gone.
Ended ==
    /\ main = "exit" /\ \A o \in Object : life[o] = "dead"
    /\ UNCHANGED vars

Next == \/ Main \/ BeginSwitch \/ Signal \/ Ended
        \/ Http \/ TakeInner \/ AcceptFails
        \/ \E c \in Connection : Serve(c) \/ ReadEnds(c) \/ Connect(c) \/ Send(c)

\* Both threads go on; a write ends or fails.  Main's pauses between passes let
\* a handler that waits for the core registry have it in the end.
Fairness ==
    /\ WF_vars(Main) /\ WF_vars(Http) /\ SF_vars(TakeInner)
    /\ \A c \in Connection : WF_vars(Serve(c))

Spec == Init /\ [][Next]_vars /\ Fairness

-----------------------------------------------------------------------------
(* Properties.                                                             *)

\* A handler that runs or is about to belongs to an object that is alive, also
\* while the main thread destroys objects at exit: ~rpc waits for the handler
\* (www.cpp:111-129, 356-363).
CalledAlive == http.step \in {"inner", "run"} => Alive(http.callee)

\* A client gets the responses to its requests in the order it sent them, each
\* once and none skipped, also when it sends without waiting (www.cpp:217-254).
RepliesInOrder ==
    \A c \in Connection : \A n \in DOMAIN replies[c] : replies[c][n].to = n

\* Every request on a connection the listener accepts is answered, or the
\* connection is closed: the three locks do not block each other for ever, and
\* every way through handle_request responds (www.cpp:67-201).
Answered ==
    \A c \in Connection : \A n \in 1..MaxRequests :
        Len(sent[c]) >= n
          ~> \/ Len(replies[c]) >= n \/ phase[c] = "closed"
             \/ (phase[c] = "backlog" /\ ~listening)
=============================================================================
