-------------------------- MODULE ModbusConnection --------------------------
(***************************************************************************)
(* modbus::connection (src/modbus.cpp): one TCP connection to whichever of *)
(* the candidate endpoints accepts it, reads of holding registers over it, *)
(* and the network and devices at the other end.                           *)
(*                                                                         *)
(* Every request carries transaction id 1, and a reply does not say which  *)
(* registers it holds, only how many.  A late reply to a read that timed   *)
(* out can be told from the reply to the next read of as many registers by *)
(* one thing only: after any failure the connection is made anew.          *)
(***************************************************************************)
EXTENDS Naturals, Sequences

CONSTANTS
    Endpoint,       \* addresses with their port
    Register,       \* first registers that are read
    Words,          \* [Register -> Nat], how many are read from there
    Candidates,     \* sequences of endpoints the discovery may report
    None            \* no endpoint, no answer

VARIABLES
    m_endpoints,
    m_curendpoint,
    m_sock,         \* is there a socket?
    m_connect_error,\* TRUE: failed
    m_request_error,
    pc,             \* "idle" between calls, or next step of a call
    todo,           \* endpoints the loop in reconnect() has not tried
    asked,          \* register of the call in progress
    wire,           \* requests sent on this socket and not answered
    inbox,          \* replies arrived on this socket and not read
    mode,           \* how the device behind an endpoint behaves
    result          \* history: last value returned: asked, got, from

vars == <<m_endpoints, m_curendpoint, m_sock, m_connect_error, m_request_error,
          pc, todo, asked, wire, inbox, mode, result>>

errors == <<m_connect_error, m_request_error>>
stream == <<wire, inbox>>

\* A "good" device accepts and answers in time; one that is "slow" accepts and
\* answers late, in part, with an exception or not at all; one that is "down"
\* does neither.
Modes == {"good", "slow", "down"}

\* One arrival: the reply, a Modbus exception, or a piece of a reply.
Kinds == {"whole", "exception", "piece"}
Reply == [register: Register, kind: Kinds]

ASSUME ModbusAssumption ==
    /\ Words \in [Register -> Nat]
    /\ Candidates \subseteq Seq(Endpoint)
    /\ None \notin Endpoint \cup Register

TypeOK ==
    /\ m_endpoints \in Candidates \cup {<<>>}
    /\ m_curendpoint \in Endpoint \cup {None}
    /\ m_sock \in BOOLEAN
    /\ m_connect_error \in BOOLEAN /\ m_request_error \in BOOLEAN
    /\ pc \in {"idle", "connect", "send", "receive"}
    /\ todo \in Seq(Endpoint)
    /\ asked \in Register \cup {None} /\ (pc # "idle" => asked \in Register)
    /\ m_sock => m_curendpoint \in Endpoint
    /\ pc \in {"send", "receive"} => m_sock
    /\ wire \in Seq(Register) /\ inbox \in Seq(Reply)
    /\ mode \in [Endpoint -> Modes]
    /\ result \in [asked: Register, got: Register, from: Endpoint] \cup {None}

Init ==
    /\ m_endpoints = <<>> /\ m_curendpoint = None /\ m_sock = FALSE
    /\ m_connect_error = TRUE /\ m_request_error = FALSE
    /\ pc = "idle" /\ todo = <<>> /\ asked = None
    /\ wire = <<>> /\ inbox = <<>>
    /\ mode \in [Endpoint -> Modes]
    /\ result = None

-----------------------------------------------------------------------------
InSeq(e, s) == \E i \in DOMAIN s : s[i] = e

\* Variant: new candidates are noted, the connection is kept.
KeepsConnection(eps) == m_connect_error

\* "Intentionally disconnect": marks the connection as failed.
Disconnects(eps) ==
    m_connect_error \/ (m_sock /\ ~InSeq(m_curendpoint, eps))

update_endpoint_candidates(eps) ==
    /\ pc = "idle"
    /\ m_endpoints' = eps
    /\ m_connect_error' = Disconnects(eps)
    /\ UNCHANGED <<m_curendpoint, m_sock, m_request_error, pc, todo, asked, stream,
                   mode, result>>

\* Variants: only a failed connection is made anew, not one on which a read
\* failed; only one on which a read failed.
ReconnectsIfDown == m_connect_error
ReconnectsAfterRead == m_request_error

MustReconnect == m_connect_error \/ m_request_error

\* read_holding_registers: enters reconnect() or goes straight to the request.
\* Without candidates reconnect() fails at once.
Call(r) ==
    /\ pc = "idle"
    /\ asked' = r
    /\ \/ /\ ~MustReconnect
          /\ pc' = "send"
          /\ UNCHANGED <<todo, m_connect_error>>
       \/ /\ MustReconnect /\ m_endpoints # <<>>
          /\ todo' = m_endpoints /\ pc' = "connect"
          /\ UNCHANGED m_connect_error
       \/ /\ MustReconnect /\ m_endpoints = <<>>
          /\ m_connect_error' = TRUE /\ pc' = "idle"
          /\ UNCHANGED todo
    /\ UNCHANGED <<m_endpoints, m_curendpoint, m_sock, m_request_error, stream,
                   mode, result>>

\* A new socket: what was under way on the old one is gone with it.
NewSocket ==
    /\ m_curendpoint' = Head(todo)
    /\ wire' = <<>> /\ inbox' = <<>>

Connect ==
    /\ pc = "connect" /\ mode[Head(todo)] # "down"
    /\ NewSocket /\ m_sock' = TRUE
    /\ m_connect_error' = FALSE
    /\ pc' = "send"
    /\ UNCHANGED <<m_endpoints, m_request_error, todo, asked, mode, result>>

\* Variant: a failed attempt ends the loop over the candidates.
GivesUp == <<>>

Remaining == Tail(todo)

\* Refused, unreachable or timed out, or no socket to be had: the loop goes on
\* to the next candidate, after the last one the read returns nullopt.
ConnectFails ==
    /\ pc = "connect" /\ mode[Head(todo)] # "good"
    /\ NewSocket /\ m_sock' \in BOOLEAN
    /\ m_connect_error' = TRUE
    /\ todo' = Remaining
    /\ pc' = IF Remaining = <<>> THEN "idle" ELSE "connect"
    /\ UNCHANGED <<m_endpoints, m_request_error, asked, mode, result>>

Send ==
    /\ pc = "send"
    /\ wire' = Append(wire, asked)
    /\ pc' = "receive"
    /\ UNCHANGED <<m_endpoints, m_curendpoint, m_sock, errors, todo, asked, inbox,
                   mode, result>>

\* Any exception in the request: not writable, not written, nothing to read in
\* time, connection reset.
RequestFails ==
    /\ \/ pc = "send" /\ mode[m_curendpoint] # "good"
       \/ pc = "receive" /\ inbox = <<>> /\ (mode[m_curendpoint] # "good" \/ wire = <<>>)
    /\ m_request_error' = TRUE
    /\ pc' = "idle"
    /\ UNCHANGED <<m_endpoints, m_curendpoint, m_sock, m_connect_error, todo, asked,
                   stream, mode, result>>

\* response::validate on all the bytes one read() returned.
Valid(received) ==
    /\ Len(received) = 1
    /\ received[1].kind = "whole"
    /\ Words[received[1].register] = Words[asked]

Receive ==
    /\ pc = "receive" /\ inbox # <<>>
    /\ inbox' = <<>>
    /\ pc' = "idle"
    /\ m_request_error' = ~Valid(inbox)
    /\ result' = IF Valid(inbox)
                 THEN [asked |-> asked, got |-> inbox[1].register, from |-> m_curendpoint]
                 ELSE result
    /\ UNCHANGED <<m_endpoints, m_curendpoint, m_sock, m_connect_error, todo, asked,
                   wire, mode>>

-----------------------------------------------------------------------------
(* The other end.                                                          *)

Answer ==
    /\ m_sock /\ wire # <<>> /\ mode[m_curendpoint] # "down"
    /\ \E k \in Kinds :
          /\ mode[m_curendpoint] = "good" => k = "whole"
          /\ inbox' = Append(inbox, [register |-> Head(wire), kind |-> k])
    /\ wire' = Tail(wire)
    /\ UNCHANGED <<m_endpoints, m_curendpoint, m_sock, errors, pc, todo, asked,
                   mode, result>>

\* A request gets lost in a device that is not well.
Swallow ==
    /\ m_sock /\ wire # <<>> /\ mode[m_curendpoint] # "good"
    /\ wire' = Tail(wire)
    /\ UNCHANGED <<m_endpoints, m_curendpoint, m_sock, errors, pc, todo, asked,
                   inbox, mode, result>>

Device ==
    /\ \E e \in Endpoint, m \in Modes : mode' = [mode EXCEPT ![e] = m]
    /\ UNCHANGED <<m_endpoints, m_curendpoint, m_sock, errors, pc, todo, asked,
                   stream, result>>

Program == \/ \E r \in Register : Call(r)
           \/ Connect \/ ConnectFails \/ Send \/ RequestFails \/ Receive

Next ==
    \/ \E eps \in Candidates : update_endpoint_candidates(eps)
    \/ Program
    \/ Answer \/ Swallow \/ Device

\* The main loop keeps reading, every step of a read ends by itself or by its
\* timeout, and a good device answers.
Fairness == WF_vars(Program) /\ WF_vars(Answer)

Spec == Init /\ [][Next]_vars /\ Fairness

-----------------------------------------------------------------------------
(* Properties.                                                             *)

\* A value handed to the caller is the reply to the question it asked, never a
\* late reply to an earlier one (modbus.cpp:95-105 and 216-255).
AnswersTheQuestion == result # None => result.got = result.asked

\* A read returns values only of a device that is still a candidate: one the
\* discovery gave up is not read from any more (modbus.cpp:131-140, "Intentionally
\* disconnect ... because it is no longer a candidate endpoint").
ReadsFromCandidate ==
    [][result' # result => InSeq(result'.from, m_endpoints)]_vars

\* The first candidate that accepts connections at all is well.
FirstUpGood ==
    \E i \in DOMAIN m_endpoints :
        /\ mode[m_endpoints[i]] = "good"
        /\ \A j \in 1..(i - 1) : mode[m_endpoints[j]] = "down"

\* When that holds from some time on, the devices staying as they are, reads
\* succeed again and again, whatever went wrong before and however the candidates
\* change: the loop falls through to a device that answers, behind any number that
\* are down (modbus.cpp:161-218).  A device that accepts connections and never
\* answers does keep those behind it from being tried: reconnect() starts from
\* the first each time.
Recovers ==
    \A m \in [Endpoint -> Modes] :
        <>[](mode = m /\ FirstUpGood)
            => []<>(pc = "idle" /\ ~m_connect_error /\ ~m_request_error)
=============================================================================
