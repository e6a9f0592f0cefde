----------------------- MODULE ModbusConnectionProofs -----------------------
(***************************************************************************)
(* What the caller of modbus::connection may rely on, whatever registers,  *)
(* endpoints and lists of candidates there are.                            *)
(***************************************************************************)
EXTENDS ModbusConnection, TLAPS

\* Nothing is under way on the socket.
Clean == wire = <<>> /\ inbox = <<>>

\* What the properties rest on.  TypeOK alone is not inductive: that a request
\* goes out on a socket, and to a candidate, follows from what is known of a
\* connection that is not marked failed.
ConnectionInv ==
    /\ pc = "idle" /\ ~m_connect_error => m_sock /\ InSeq(m_curendpoint, m_endpoints)
    /\ pc \in {"send", "receive"} => m_sock /\ InSeq(m_curendpoint, m_endpoints)
    /\ pc = "connect" => /\ todo # <<>>
                         /\ \A i \in DOMAIN todo : InSeq(todo[i], m_endpoints)

\* A read that has not failed leaves nothing behind, and the only thing a read
\* can find is the reply to its own request.
StreamInv ==
    /\ pc = "idle" /\ ~m_request_error => Clean
    /\ pc = "send" => Clean
    /\ pc = "receive" => \/ wire = <<asked>> /\ inbox = <<>>
                         \/ Clean
                         \/ wire = <<>> /\ \E k \in Kinds :
                              inbox = <<[register |-> asked, kind |-> k]>>

\* The empty sequence is one over any set.
LEMMA NoElements == ASSUME NEW S PROVE <<>> \in Seq(S)
OBVIOUS

\* The first of a sequence, and the others.
LEMMA HeadTail ==
    ASSUME NEW S, NEW s \in Seq(S), s # <<>>
    PROVE  /\ Head(s) \in S /\ Head(s) = s[1] /\ 1 \in DOMAIN s
           /\ Tail(s) \in Seq(S)
           /\ \A i \in DOMAIN Tail(s) : i + 1 \in DOMAIN s /\ Tail(s)[i] = s[i + 1]
OBVIOUS

\* What is received is a reply.
LEMMA ReceivedReply ==
    ASSUME TypeOK, inbox # <<>>
    PROVE  inbox[1] \in Reply
BY HeadTail DEF TypeOK

\* The two invariants hold together.
LEMMA TypeAndConnection == Spec => [](TypeOK /\ ConnectionInv)
<1> DEFINE Inv == TypeOK /\ ConnectionInv
<1>1. Init => Inv
  <2> SUFFICES ASSUME Init PROVE TypeOK /\ ConnectionInv
    OBVIOUS
  <2>1. todo \in Seq(Endpoint) /\ wire \in Seq(Register) /\ inbox \in Seq(Reply)
    BY NoElements DEF Init
  <2> QED
    BY <2>1 DEF Init, TypeOK, ConnectionInv
<1>2. Inv /\ [Next]_vars => Inv'
  <2> SUFFICES ASSUME TypeOK, ConnectionInv, [Next]_vars
               PROVE  TypeOK' /\ ConnectionInv'
    OBVIOUS
  <2> USE DEF errors, stream
  <2>1. ASSUME NEW eps \in Candidates, update_endpoint_candidates(eps)
        PROVE  TypeOK' /\ ConnectionInv'
    BY <2>1 DEF update_endpoint_candidates, Disconnects, TypeOK, ConnectionInv
  <2>2. ASSUME NEW r \in Register, Call(r)
        PROVE  TypeOK' /\ ConnectionInv'
    <3>1. m_endpoints \in Seq(Endpoint)
      BY ModbusAssumption, NoElements DEF TypeOK
    <3>2. \A i \in DOMAIN m_endpoints : InSeq(m_endpoints[i], m_endpoints)
      BY DEF InSeq
    <3> QED
      BY <2>2, <3>1, <3>2 DEF Call, MustReconnect, TypeOK, ConnectionInv
  <2>3. CASE Connect
    <3>1. Head(todo) \in Endpoint /\ InSeq(Head(todo), m_endpoints)
      BY <2>3, HeadTail DEF Connect, TypeOK, ConnectionInv
    <3>2. TypeOK'
      BY <2>3, <3>1, NoElements DEF Connect, NewSocket, TypeOK
    <3>3. ConnectionInv'
      BY <2>3, <3>1 DEF Connect, NewSocket, ConnectionInv
    <3> QED
      BY <3>2, <3>3
  <2>4. CASE ConnectFails
    <3>1. Head(todo) \in Endpoint /\ Tail(todo) \in Seq(Endpoint)
      BY <2>4, HeadTail DEF ConnectFails, TypeOK, ConnectionInv
    <3>2. \A i \in DOMAIN Tail(todo) : InSeq(Tail(todo)[i], m_endpoints)
      BY <2>4, HeadTail DEF ConnectFails, TypeOK, ConnectionInv
    <3>3. TypeOK'
      BY <2>4, <3>1 DEF ConnectFails, NewSocket, Remaining, TypeOK
    <3>4. ConnectionInv'
      BY <2>4, <3>2 DEF ConnectFails, NewSocket, Remaining, ConnectionInv, InSeq
    <3> QED
      BY <3>3, <3>4
  <2>5. CASE Send
    BY <2>5 DEF Send, TypeOK, ConnectionInv, InSeq
  <2>6. CASE RequestFails
    BY <2>6 DEF RequestFails, TypeOK, ConnectionInv, InSeq
  <2>7. CASE Receive
    BY <2>7, ReceivedReply DEF Receive, TypeOK, ConnectionInv, InSeq, Reply
  <2>8. CASE Answer
    <3>1. Head(wire) \in Register /\ Tail(wire) \in Seq(Register)
      BY <2>8, HeadTail DEF Answer, TypeOK
    <3> QED
      BY <2>8, <3>1 DEF Answer, TypeOK, ConnectionInv, InSeq, Reply
  <2>9. CASE Swallow
    <3>1. Tail(wire) \in Seq(Register)
      BY <2>9, HeadTail DEF Swallow, TypeOK
    <3> QED
      BY <2>9, <3>1 DEF Swallow, TypeOK, ConnectionInv, InSeq
  <2>10. CASE Device
    BY <2>10 DEF Device, TypeOK, ConnectionInv, InSeq
  <2>11. CASE UNCHANGED vars
    BY <2>11 DEF vars, TypeOK, ConnectionInv, InSeq
  <2> QED
    BY <2>1, <2>2, <2>3, <2>4, <2>5, <2>6, <2>7, <2>8, <2>9, <2>10, <2>11
    DEF Next, Program
<1> QED
  BY <1>1, <1>2, PTL DEF Spec

\* The connection's variables keep their types; in particular a request is only
\* ever written to a socket (modbus.cpp:216-231).
THEOREM TypeCorrect == Spec => []TypeOK
BY TypeAndConnection, PTL

\* No read returns the reply to another read, although all of them carry the same
\* transaction id (modbus.cpp:95-105 and 216-255).
THEOREM NeverStale == Spec => []AnswersTheQuestion
<1> DEFINE Inv == StreamInv /\ AnswersTheQuestion
<1>1. Init => Inv
  BY DEF Init, StreamInv, Clean, AnswersTheQuestion
<1>2. TypeOK /\ ConnectionInv /\ Inv /\ [Next]_vars => Inv'
  <2> SUFFICES ASSUME TypeOK, ConnectionInv, StreamInv, AnswersTheQuestion, [Next]_vars
               PROVE  StreamInv' /\ AnswersTheQuestion'
    OBVIOUS
  <2> USE DEF errors, stream, Clean
  <2>1. ASSUME NEW eps \in Candidates, update_endpoint_candidates(eps)
        PROVE  StreamInv' /\ AnswersTheQuestion'
    BY <2>1 DEF update_endpoint_candidates, StreamInv, AnswersTheQuestion
  <2>2. ASSUME NEW r \in Register, Call(r)
        PROVE  StreamInv' /\ AnswersTheQuestion'
    BY <2>2 DEF Call, MustReconnect, StreamInv, AnswersTheQuestion
  <2>3. CASE Connect
    BY <2>3 DEF Connect, NewSocket, StreamInv, AnswersTheQuestion
  <2>4. CASE ConnectFails
    BY <2>4 DEF ConnectFails, NewSocket, Remaining, StreamInv, AnswersTheQuestion
  <2>5. CASE Send
    <3>1. wire' = <<asked>>
      BY <2>5 DEF Send, StreamInv, TypeOK
    <3> QED
      BY <2>5, <3>1 DEF Send, StreamInv, AnswersTheQuestion
  <2>6. CASE RequestFails
    BY <2>6 DEF RequestFails, StreamInv, AnswersTheQuestion
  <2>7. CASE Receive
    <3>1. PICK k \in Kinds : wire = <<>> /\ inbox = <<[register |-> asked, kind |-> k]>>
      BY <2>7 DEF Receive, StreamInv
    <3>2. inbox[1].register = asked
      BY <3>1
    <3>3. StreamInv'
      BY <2>7, <3>1 DEF Receive, StreamInv
    <3>4. AnswersTheQuestion'
      BY <2>7, <3>2 DEF Receive, AnswersTheQuestion
    <3> QED
      BY <3>3, <3>4
  <2>8. CASE Answer
    <3>1. pc # "connect" => pc' # "connect"
      BY <2>8 DEF Answer
    <3>2. CASE pc = "receive"
      <4>1. wire = <<asked>> /\ inbox = <<>>
        BY <2>8, <3>2 DEF Answer, StreamInv
      <4>2. PICK k \in Kinds : inbox' = Append(inbox, [register |-> Head(wire), kind |-> k])
        BY <2>8 DEF Answer
      <4>3. Head(wire) = asked /\ Tail(wire) = <<>>
        BY <4>1
      <4>4. inbox' = <<[register |-> asked, kind |-> k]>>
        BY <4>1, <4>2, <4>3
      <4> QED
        BY <2>8, <3>2, <4>3, <4>4 DEF Answer, StreamInv, AnswersTheQuestion
    <3>3. CASE pc # "receive"
      BY <2>8, <3>3 DEF Answer, StreamInv, AnswersTheQuestion
    <3> QED
      BY <3>2, <3>3
  <2>9. CASE Swallow
    <3>1. CASE pc = "receive"
      <4>1. wire = <<asked>> /\ inbox = <<>>
        BY <2>9, <3>1 DEF Swallow, StreamInv
      <4>2. Tail(wire) = <<>>
        BY <4>1
      <4> QED
        BY <2>9, <3>1, <4>1, <4>2 DEF Swallow, StreamInv, AnswersTheQuestion
    <3>2. CASE pc # "receive"
      BY <2>9, <3>2 DEF Swallow, StreamInv, AnswersTheQuestion
    <3> QED
      BY <3>1, <3>2
  <2>10. CASE Device
    BY <2>10 DEF Device, StreamInv, AnswersTheQuestion
  <2>11. CASE UNCHANGED vars
    BY <2>11 DEF vars, StreamInv, AnswersTheQuestion
  <2> QED
    BY <2>1, <2>2, <2>3, <2>4, <2>5, <2>6, <2>7, <2>8, <2>9, <2>10, <2>11
    DEF Next, Program
<1> QED
  BY <1>1, <1>2, TypeAndConnection, PTL DEF Spec

\* Values only ever come from a device that is a candidate at that moment
\* (modbus.cpp:131-140).
THEOREM OnlyCandidates == Spec => ReadsFromCandidate
<1>1. ConnectionInv /\ [Next]_vars =>
        [result' # result => InSeq(result'.from, m_endpoints)]_vars
  <2> SUFFICES ASSUME ConnectionInv, Next, result' # result
               PROVE  InSeq(result'.from, m_endpoints)
    OBVIOUS
  <2>1. Receive
    BY DEF Next, Program, update_endpoint_candidates, Call, Connect, ConnectFails,
       Send, RequestFails, Answer, Swallow, Device
  <2> QED
    BY <2>1 DEF Receive, ConnectionInv
<1> QED
  BY <1>1, TypeAndConnection, PTL DEF Spec, ReadsFromCandidate
=============================================================================
