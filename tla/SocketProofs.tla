---------------------------- MODULE SocketProofs -----------------------------
(***************************************************************************)
(* For any number of requests and connections, any server, packets and     *)
(* time-outs: a connect or reconnect that fails at any step loses no       *)
(* descriptor, RecvPack never waits longer than its time-out and never     *)
(* writes past the caller's buffer, the server reads whole requests, and a *)
(* call returns the whole answer to its own request.                       *)
(***************************************************************************)
EXTENDS Socket, SequenceTheorems, TLAPS

(* The call in progress is a record with all its fields, whose times are   *)
(* integers.                                                               *)
Field == {"at", "req", "retry", "try", "timeout", "left", "n", "k", "buf", "pack", "ret",
          "age", "nage", "waited"}
CallType ==
  /\ call = [f \in Field |-> call[f]]
  /\ call.timeout \in Timeouts \cup {-1} /\ call.left \in Int
  /\ call.age \in Nat /\ call.nage \in Nat /\ call.waited \in Nat

(* While RecvPack waits with a time-out: what RecvN has left, counted from *)
(* now and counted from the start of its loop, ends before the time-out.   *)
TimeInv ==
  Receiving /\ Timed =>
    /\ call.waited <= call.left
    /\ call.age + call.left - call.waited <= call.timeout
    /\ call.age + call.left - call.nage <= call.timeout

Inv == CallType /\ TimeInv

LEMMA Idle == NoCall = [f \in Field |-> NoCall[f]]
BY DEF NoCall, Field

LEMMA AttemptInv ==
  ASSUME NEW r, NEW retry, NEW try, NEW t \in Timeouts \cup {-1}, NEW ret,
         call' = Attempt(r, retry, try, t, ret)
  PROVE  Inv'
<1>1. call' = [f \in Field |-> call'[f]]
  BY DEF Attempt, NoCall, Field
<1>2. /\ call'.at \in {"send", "write"}
      /\ call'.timeout = t /\ call'.left = t
      /\ call'.age = 0 /\ call'.nage = 0 /\ call'.waited = 0
  BY DEF Attempt, NoCall
<1>3. t \in Int
  BY SocketAssumption
<1>4. CallType'
  BY <1>1, <1>2, <1>3 DEF CallType
<1>5. TimeInv'
  BY <1>2 DEF TimeInv, Receiving
<1> QED BY <1>4, <1>5 DEF Inv

(* A call that ends, or is to be tried again, waits no more.               *)
LEMMA EndInv ==
  ASSUME call' = NoCall
  PROVE  Inv'
<1>1. /\ NoCall.at = "idle" /\ NoCall.timeout = -1 /\ NoCall.left = -1
      /\ NoCall.age = 0 /\ NoCall.nage = 0 /\ NoCall.waited = 0
  BY DEF NoCall
<1> QED BY <1>1, Idle DEF Inv, CallType, TimeInv, Receiving

LEMMA Fields == CallType => DOMAIN call = Field
BY DEF CallType

LEMMA FailInv ==
  ASSUME Inv, NEW n, Fail(n)
  PROVE  Inv'
<1>1. CASE call' = NoCall
  BY <1>1, EndInv
<1>2. CASE call' = [call EXCEPT !.at = "again", !.ret = n]
  <2>1. CallType' /\ call'.at = "again"
    BY <1>2, Fields DEF Inv, CallType, Field
  <2> QED BY <2>1 DEF Inv, TimeInv, Receiving
<1> QED BY <1>1, <1>2 DEF Fail

LEMMA InitInv == Init => Inv
BY DEF Init, NoCall, Field, Inv, CallType, TimeInv, Receiving

(* The calls of the user, and the sending of the request.                  *)
LEMMA SendInv ==
  ASSUME Inv, \/ Construct \/ UserClose \/ Again \/ SendInvalid
              \/ WaitWrite \/ WaitWriteEnds \/ SendByte \/ SendStops
  PROVE  Inv'
<1> USE Fields
<1>1. CASE Construct
  BY <1>1, EndInv DEF Construct
<1>2. CASE UserClose
  BY <1>2 DEF UserClose, Inv, CallType, TimeInv, Receiving, Timed
<1>3. CASE Again
  <2>1. CASE call' = Attempt(call.req, TRUE, 2, call.timeout, call.ret)
    BY <2>1, AttemptInv DEF Inv, CallType
  <2> QED BY <1>3, <2>1, EndInv DEF Again
<1>4. CASE SendInvalid \/ WaitWriteEnds
  BY <1>4, FailInv DEF SendInvalid, WaitWriteEnds
<1>5. CASE WaitWrite \/ SendByte
  <2>1. CallType' /\ call'.at = "send"
    BY <1>5 DEF WaitWrite, SendByte, Inv, CallType, Field
  <2> QED BY <2>1 DEF Inv, TimeInv, Receiving
<1>6. CASE SendStops
  <2>1. ASSUME Short PROVE Inv'
    <3>1. CASE Fail(-5)
      BY <3>1, FailInv
    <3>2. ASSUME NEW at \in {"write", "send"}, NEW left \in Int,
                 call' = [call EXCEPT !.n = call.n + call.k, !.k = 0, !.at = at,
                                      !.left = left, !.waited = 0]
          PROVE  Inv'
      <4>1. /\ call'.at = at /\ call'.timeout = call.timeout /\ call'.left = left
            /\ call'.age = call.age /\ call'.nage = call.nage /\ call'.waited = 0
            /\ call' = [f \in Field |-> call'[f]]
        BY <3>2 DEF Inv, CallType, Field
      <4>2. CallType'
        BY <4>1 DEF Inv, CallType
      <4> QED BY <4>1, <4>2 DEF Inv, TimeInv, Receiving
    <3>3. call.left \in Int /\ call.left - call.nage \in Int
      BY DEF Inv, CallType
    <3>4. CASE ~Timed \/ call.k = 0
      <4> DEFINE at == IF Timed THEN "write" ELSE "send"
      <4>1. call' = [call EXCEPT !.n = call.n + call.k, !.k = 0, !.at = at,
                                 !.left = call.left, !.waited = 0]
        BY <2>1, <3>4 DEF Short, Inv, CallType, Field
      <4>2. at \in {"write", "send"}
        OBVIOUS
      <4> QED BY <4>1, <4>2, <3>2, <3>3
    <3>5. CASE Timed /\ call.k # 0 /\ ~ (call.left - call.nage <= 0)
      <4>1. call' = [call EXCEPT !.n = call.n + call.k, !.k = 0, !.at = "write",
                                 !.left = call.left - call.nage, !.waited = 0]
        BY <2>1, <3>5 DEF Short, Inv, CallType, Field
      <4> QED BY <4>1, <3>2, <3>3
    <3>6. CASE Timed /\ call.k # 0 /\ call.left - call.nage <= 0
      BY <2>1, <3>1, <3>6 DEF Short
    <3> QED BY <3>4, <3>5, <3>6
  <2> QED BY <1>6, <2>1, FailInv DEF SendStops
<1> QED BY <1>1, <1>2, <1>3, <1>4, <1>5, <1>6

(* The receiving of the answer: each turn of a loop gives up what it has   *)
(* waited, and the body gets what the header has left.                     *)
LEMMA RecvInv ==
  ASSUME Inv, Sent \/ Recv \/ WaitReadSignal \/ Tick
  PROVE  Inv'
<1> USE Fields
<1>1. CASE Sent
  <2>1. /\ call'.at = "header" /\ call'.timeout = call.timeout /\ call'.left = call.timeout
        /\ call'.age = 0 /\ call'.nage = 0 /\ call'.waited = 0
        /\ call' = [f \in Field |-> call'[f]]
    BY <1>1 DEF Sent, Inv, CallType, Field
  <2>2. call.timeout \in Int
    BY SocketAssumption DEF Inv, CallType
  <2>3. CallType'
    BY <2>1, <2>2 DEF Inv, CallType
  <2>4. TimeInv'
    BY <2>1, <2>2 DEF TimeInv, Timed
  <2> QED BY <2>3, <2>4 DEF Inv
<1>2. CASE RecvPart
  <2>1. CASE Timed /\ call.left - call.nage <= 0
    BY <1>2, <2>1, FailInv DEF RecvPart
  <2>2. CASE ~ (Timed /\ call.left - call.nage <= 0)
    <3> DEFINE left == IF Timed THEN call.left - call.nage ELSE call.left
    <3>1. call' = [call EXCEPT !.n = @ + Avail, !.buf = Read, !.waited = 0, !.left = left]
      BY <1>2, <2>2 DEF RecvPart
    <3>2. /\ left \in Int /\ call.timeout \in Int
          /\ Timed => left = call.left - call.nage /\ left > 0
      BY <2>2, SocketAssumption DEF Inv, CallType
    <3> HIDE DEF left
    <3>3. /\ call'.at = call.at /\ call'.timeout = call.timeout /\ call'.left = left
          /\ call'.age = call.age /\ call'.nage = call.nage /\ call'.waited = 0
          /\ call' = [f \in Field |-> call'[f]]
      BY <3>1 DEF Inv, CallType, Field
    <3>4. CallType'
      BY <3>2, <3>3 DEF Inv, CallType
    <3>5. TimeInv'
      BY <3>2, <3>3 DEF Inv, CallType, TimeInv, Receiving, Timed
    <3> QED BY <3>4, <3>5 DEF Inv
  <2> QED BY <2>1, <2>2
<1>3. CASE RecvHeader
  <2>1. CASE call.timeout > 0 /\ BodyTime < 0
    BY <1>3, <2>1, FailInv DEF RecvHeader
  <2>2. CASE ~ (call.timeout > 0 /\ BodyTime < 0)
    <3>1. PICK pack : \/ Fail(-3) \/ Fail(-4) \/ Succeed(Read)
                      \/ call' = [call EXCEPT !.at = "body", !.buf = Read, !.pack = pack,
                                              !.n = 0, !.left = BodyTime, !.nage = 0,
                                              !.waited = 0]
      BY <1>3, <2>2 DEF RecvHeader
    <3>2. CASE Fail(-3) \/ Fail(-4)
      BY <3>2, FailInv
    <3>3. CASE Succeed(Read)
      BY <3>3, EndInv DEF Succeed
    <3>4. CASE call' = [call EXCEPT !.at = "body", !.buf = Read, !.pack = pack, !.n = 0,
                                    !.left = BodyTime, !.nage = 0, !.waited = 0]
      <4>1. /\ call'.at = "body" /\ call'.timeout = call.timeout /\ call'.left = BodyTime
            /\ call'.age = call.age /\ call'.nage = 0 /\ call'.waited = 0
            /\ call' = [f \in Field |-> call'[f]]
        BY <3>4 DEF Inv, CallType, Field
      <4>2. /\ call.timeout \in Int /\ BodyTime \in Int
            /\ call.timeout > 0 => BodyTime >= 0 /\ BodyTime = call.timeout - call.age
            /\ ~ (call.timeout > 0) => BodyTime = call.timeout
        BY <2>2, SocketAssumption DEF BodyTime, Inv, CallType
      <4>3. CallType'
        BY <4>1, <4>2 DEF Inv, CallType
      <4>4. call.timeout >= 0 => call.age <= call.timeout
        <5>1. Receiving
          BY <1>3 DEF RecvHeader, Receiving
        <5> QED BY <5>1, <4>2 DEF Inv, CallType, TimeInv, Timed
      <4>5. TimeInv'
        BY <4>1, <4>2, <4>4 DEF Inv, CallType, TimeInv, Timed
      <4> QED BY <4>3, <4>5 DEF Inv
    <3> QED BY <3>1, <3>2, <3>3, <3>4
  <2> QED BY <2>1, <2>2
<1>4. CASE RecvBody
  BY <1>4, EndInv DEF RecvBody, Succeed
<1>5. CASE RecvEnd \/ WaitReadExpires \/ WaitReadSignal
  BY <1>5, FailInv DEF RecvEnd, WaitReadExpires, WaitReadSignal
<1>6. CASE Tick
  <2>1. /\ call'.at = call.at /\ call'.timeout = call.timeout /\ call'.left = call.left
        /\ call'.age = call.age + 1 /\ call'.nage = call.nage + 1
        /\ call'.waited = call.waited + 1
        /\ call' = [f \in Field |-> call'[f]]
    BY <1>6 DEF Tick, Inv, CallType, Field
  <2>2. CallType'
    BY <2>1 DEF Inv, CallType
  <2>3. Receiving => call.waited < call.left
    BY <1>6 DEF Tick, Waits, Receiving
  <2>4. call.timeout \in Int
    BY SocketAssumption DEF Inv, CallType
  <2>5. TimeInv'
    BY <2>1, <2>3, <2>4 DEF Inv, CallType, TimeInv, Receiving, Timed
  <2> QED BY <2>2, <2>5 DEF Inv
<1> QED BY <1>1, <1>2, <1>3, <1>4, <1>5, <1>6 DEF Recv

LEMMA NextInv == Inv /\ [Next]_vars => Inv'
<1> SUFFICES ASSUME Inv, [Next]_vars PROVE Inv'
  OBVIOUS
<1>1. CASE UNCHANGED call
  BY <1>1 DEF Inv, CallType, TimeInv, Receiving, Timed
<1>2. ASSUME NEW t \in Timeouts, NEW r, NEW retry, Call(r, retry, t) PROVE Inv'
  BY <1>2, AttemptInv DEF Call
<1>3. ASSUME NEW t \in Timeouts, UserReconnect(t) PROVE UNCHANGED call
  BY <1>3 DEF UserReconnect
<1>4. ASSUME NEW c \in 1 .. Conns, Server(c) PROVE UNCHANGED call
  BY <1>4 DEF Server, ServerRead, ServerWrite, ServerCloses, ServerRefuses, Same
<1>5. CASE UNCHANGED vars
  BY <1>1, <1>5 DEF vars
<1> QED BY <1>1, <1>2, <1>3, <1>4, <1>5, SendInv, RecvInv DEF Next, Client

(* RecvPack never waits longer than its time-out, header and body together *)
(* and however often their loops turn: InTime of the socket run, for any   *)
(* time-outs, packets and server.                                          *)
THEOREM WaitsInTime == Spec => []InTime
<1>1. Inv => InTime
  BY SocketAssumption DEF Inv, CallType, TimeInv, InTime
<1> QED BY InitInv, NextInv, <1>1, PTL DEF Spec

-----------------------------------------------------------------------------
(* The object has exactly its own descriptor open.                         *)
OpenInv == m_iSocket \in 0 .. Conns /\ OneDescriptor

LEMMA AtMostOne ==
  ASSUME \/ m_iSocket' = INVALID_SOCKET /\ open' = {}
         \/ \E c \in 1 .. Conns : m_iSocket' = c /\ open' = {c}
  PROVE  OpenInv'
BY SocketAssumption DEF OpenInv, OneDescriptor, INVALID_SOCKET

LEMMA CreateOpen ==
  ASSUME NEW base, base = {},
         \/ CreateFails(base)
         \/ ConnectFails(base, TRUE) \/ ConnectFails(base, FALSE)
         \/ Connects(base, TRUE) \/ Connects(base, FALSE)
  PROVE  OpenInv'
<1>1. CASE CreateFails(base)
  BY <1>1, AtMostOne DEF CreateFails
<1>2. CASE ConnectFails(base, TRUE) \/ ConnectFails(base, FALSE)
  BY <1>2, AtMostOne DEF ConnectFails, Unopened
<1>3. CASE Connects(base, TRUE) \/ Connects(base, FALSE)
  BY <1>3, AtMostOne DEF Connects, Unopened
<1> QED BY <1>1, <1>2, <1>3

LEMMA ReconnectOpen ==
  ASSUME OpenInv, NEW t, ReconnectFails(t) \/ Reconnects
  PROVE  OpenInv'
<1>1. open \ {m_iSocket} = {}
  BY DEF OpenInv, OneDescriptor
<1>2. CASE ReconnectFails(t)
  <2>1. \/ CreateFails(open \ {m_iSocket})
        \/ ConnectFails(open \ {m_iSocket}, TRUE) \/ ConnectFails(open \ {m_iSocket}, FALSE)
    BY <1>2 DEF ReconnectFails, ConnectFails
  <2> QED BY <1>1, <2>1, CreateOpen
<1>3. CASE Reconnects
  BY <1>1, <1>3, CreateOpen DEF Reconnects
<1> QED BY <1>2, <1>3

(* A connect or reconnect that fails at any step, in a constructor, by the *)
(* user or in the middle of a retry, loses no descriptor: OneDescriptor of *)
(* the socket run, for any number of connections.                          *)
THEOREM NoDescriptorLost == Spec => []OneDescriptor
<1>1. Init => OpenInv
  BY SocketAssumption DEF Init, OpenInv, OneDescriptor, INVALID_SOCKET
<1>2. OpenInv /\ [Next]_vars => OpenInv'
  <2> SUFFICES ASSUME OpenInv, [Next]_vars PROVE OpenInv'
    OBVIOUS
  <2>1. CASE SameSocket \/ UNCHANGED vars
    BY <2>1 DEF SameSocket, vars, OpenInv, OneDescriptor
  <2>2. CASE Construct
    BY <2>2, CreateOpen DEF Construct
  <2>3. CASE UserClose
    BY <2>3, SocketAssumption DEF UserClose, Close, OpenInv, OneDescriptor, INVALID_SOCKET
  <2>4. CASE Again
    BY <2>4, ReconnectOpen DEF Again
  <2>5. ASSUME NEW t, UserReconnect(t) PROVE OpenInv'
    BY <2>5, ReconnectOpen DEF UserReconnect
  <2>6. ASSUME NEW r, NEW retry, NEW t, Call(r, retry, t) PROVE SameSocket
    BY <2>6 DEF Call, SameSocket
  <2>7. ASSUME NEW c, Server(c) PROVE SameSocket
    BY <2>7 DEF Server, ServerRead, ServerWrite, ServerCloses, ServerRefuses, Same, SameSocket
  <2>8. CASE SendInvalid \/ WaitWrite \/ WaitWriteEnds \/ SendByte \/ Sent \/ SendStops
    BY <2>1, <2>8 DEF SendInvalid, WaitWrite, WaitWriteEnds, SendByte, Sent, SendStops, SameConn
  <2>9. CASE Recv \/ WaitReadSignal \/ Tick
    BY <2>1, <2>9 DEF Recv, RecvPart, RecvHeader, RecvBody, RecvEnd, WaitReadExpires,
                      WaitReadSignal, Tick, SameConn
  <2> QED BY <2>1, <2>2, <2>3, <2>4, <2>5, <2>6, <2>7, <2>8, <2>9 DEF Next, Client
<1>3. OpenInv => OneDescriptor
  BY DEF OpenInv
<1> QED BY <1>1, <1>2, <1>3, PTL DEF Spec

-----------------------------------------------------------------------------
(* What is in the streams.  The bytes of a request r, and of an answer of  *)
(* n bytes to it, from the one after the first off bytes on.               *)
Ask   == [req : Nat, pos : Nat]
Reply == [req : Nat, pos : Nat, len : Packs]
OfRequest(q, r, off)   == \A i \in 1 .. Len(q) : q[i] = [req |-> r, pos |-> off + i]
OfAnswer(q, r, off, n) == \A i \in 1 .. Len(q) : q[i] = [req |-> r, pos |-> off + i, len |-> n]

(* Only the object's connection carries anything.                          *)
Links == {"none", "new", "up", "shut", "reset", "gone"}
ConnRec == [link : Links, out : Seq(Ask), got : Seq(Ask), todo : Seq(Reply), in : Seq(Reply)]
Empty(c) == conn[c].out = <<>> /\ conn[c].got = <<>> /\ conn[c].todo = <<>> /\ conn[c].in = <<>>
Streams ==
  /\ m_iSocket \in 0 .. Conns /\ m_PeerAddr \in BOOLEAN
  /\ conn \in [1 .. Conns -> ConnRec]
  /\ \A c \in 1 .. Conns :
       /\ Len(conn[c].out) <= Window /\ Len(conn[c].got) < ReqLen
       /\ IF c = m_iSocket THEN conn[c].link # "none"
                           ELSE Empty(c) /\ conn[c].link \in {"none", "gone"}

(* How much of the request has been sent, and of its answer been read.     *)
Busy == {"write", "send", "header", "body"}
NSent == IF call.at \in {"write", "send"} THEN call.n + call.k ELSE ReqLen
Locals ==
  /\ call.at \in {"none", "idle", "again"} \cup Busy
  /\ call.buf \in Seq(Reply) /\ Len(call.buf) <= rsp_len
  /\ call.req \in Nat /\ call.n \in Nat /\ call.k \in Nat /\ call.try \in {1, 2}
  /\ call.at = "none" => m_iSocket = INVALID_SOCKET
  /\ call.at \in {"write", "send"} => call.n + call.k <= ReqLen /\ call.buf = <<>>
  /\ call.at = "write" => call.k = 0
  /\ call.at \in Busy => IsValid \/ NSent = 0
  /\ call.at = "header" => Len(call.buf) = call.n /\ call.n < hlen
  /\ call.at = "body" => /\ Len(call.buf) = hlen + call.n /\ hlen + call.n < call.pack
                         /\ call.pack \in Packs /\ call.pack <= rsp_len

(* A failed attempt is remembered, and a second one has a new connection.  *)
Failures ==
  /\ \A c \in failed : c \in 1 .. Conns /\ conn[c].link # "none"
  /\ call.at = "again" => /\ m_iSocket \in failed \cup {INVALID_SOCKET}
                          /\ call.ret \in Int /\ call.ret <= 0
  /\ call.at \in Busy /\ call.try = 2 => m_iSocket \notin failed

(* Where the request and its answer are.  The request is under way, ...    *)
Asking(c) ==
  /\ OfRequest(conn[c].got, call.req, 0)
  /\ OfRequest(conn[c].out, call.req, Len(conn[c].got))
  /\ Len(conn[c].got) + Len(conn[c].out) = NSent
  /\ conn[c].todo = <<>> /\ conn[c].in = <<>> /\ call.buf = <<>>

(* ... or its answer is, of which a close may have cut off the rest.       *)
Answering(c, n) ==
  /\ NSent = ReqLen /\ conn[c].got = <<>> /\ conn[c].out = <<>>
  /\ OfAnswer(call.buf, call.req, 0, n)
  /\ OfAnswer(conn[c].in, call.req, Len(call.buf), n)
  /\ OfAnswer(conn[c].todo, call.req, Len(call.buf) + Len(conn[c].in), n)
  /\ Len(call.buf) + Len(conn[c].in) + Len(conn[c].todo) <= n
  /\ call.at = "body" => call.pack = n

Flow ==
  \A c \in 1 .. Conns \ failed : c = m_iSocket =>
    /\ call.at = "idle" => Empty(c)
    /\ call.at \in Busy => Asking(c) \/ \E n \in Packs : Answering(c, n)

Results == last.buf \in Seq(Reply) /\ Len(last.buf) <= rsp_len /\ OwnAnswer

PacketInv == Inv /\ Streams /\ Locals /\ Failures /\ Flow /\ Results

-----------------------------------------------------------------------------
(* A socket that is new to the object, or none.                            *)
LEMMA EmptyConn ==
  ASSUME NEW l \in Links
  PROVE  /\ [NoConn EXCEPT !.link = l] \in ConnRec
         /\ [NoConn EXCEPT !.link = l].link = l /\ [NoConn EXCEPT !.link = l].out = <<>>
         /\ [NoConn EXCEPT !.link = l].got = <<>> /\ [NoConn EXCEPT !.link = l].todo = <<>>
         /\ [NoConn EXCEPT !.link = l].in = <<>>
<1>1. <<>> \in Seq(Ask) /\ <<>> \in Seq(Reply)
  BY EmptySeq
<1> QED BY <1>1 DEF NoConn, ConnRec

LEMMA EmptyLen == Len(<<>>) = 0 /\ 0 <= Window /\ 0 < ReqLen
BY SocketAssumption

Fresh ==
  /\ Streams'
  /\ \A c \in 1 .. Conns : conn[c].link # "none" => conn'[c].link # "none"
  /\ \A c \in 1 .. Conns : m_iSocket' = c => conn[c].link = "none" /\ Empty(c)'

LEMMA ClosedConn ==
  ASSUME Streams
  PROVE  /\ Closed(conn) \in [1 .. Conns -> ConnRec]
         /\ \A c \in 1 .. Conns :
              /\ Closed(conn)[c].out = <<>> /\ Closed(conn)[c].got = <<>>
              /\ Closed(conn)[c].todo = <<>> /\ Closed(conn)[c].in = <<>>
              /\ Closed(conn)[c].link \in {"none", "gone"}
              /\ Closed(conn)[c].link = "none" <=> conn[c].link = "none"
<1>1. /\ Gone \in ConnRec /\ Gone.link = "gone" /\ Gone.out = <<>> /\ Gone.got = <<>>
      /\ Gone.todo = <<>> /\ Gone.in = <<>>
  BY EmptyConn DEF Gone, Links
<1>2. CASE IsValid
  <2>1. m_iSocket \in 1 .. Conns
    BY <1>2, SocketAssumption DEF Streams, IsValid, INVALID_SOCKET
  <2> QED BY <1>1, <1>2, <2>1 DEF Closed, Streams, Empty
<1>3. CASE ~IsValid
  <2>1. \A c \in 1 .. Conns : c # m_iSocket
    BY <1>3, SocketAssumption DEF Streams, IsValid, INVALID_SOCKET
  <2> QED BY <1>3, <2>1 DEF Closed, Streams, Empty
<1> QED BY <1>2, <1>3

LEMMA NoSocket ==
  ASSUME Streams, m_iSocket' = INVALID_SOCKET, conn' = Closed(conn), m_PeerAddr' \in BOOLEAN
  PROVE  Fresh
<1>1. \A c \in 1 .. Conns : c # m_iSocket'
  BY SocketAssumption DEF INVALID_SOCKET
<1>2. Streams'
  BY <1>1, ClosedConn, EmptyLen, SocketAssumption DEF Streams, Empty, INVALID_SOCKET
<1> QED BY <1>1, <1>2, ClosedConn DEF Fresh

Linked(cs, c, l) == [cs EXCEPT ![c].link = l]

LEMMA NewSocket ==
  ASSUME Streams, NEW c \in Unopened, NEW l \in Links \ {"none"}, m_PeerAddr' \in BOOLEAN,
         conn' = Linked(Closed(conn), c, l),
         m_iSocket' = c \/ (m_iSocket' = INVALID_SOCKET /\ l = "gone")
  PROVE  Fresh
<1>1. c \in 1 .. Conns /\ conn[c].link = "none"
  BY DEF Unopened
<1>2. /\ conn' \in [1 .. Conns -> ConnRec]
      /\ \A d \in 1 .. Conns :
           /\ conn'[d].out = <<>> /\ conn'[d].got = <<>>
           /\ conn'[d].todo = <<>> /\ conn'[d].in = <<>>
           /\ d # c => conn'[d].link = Closed(conn)[d].link
      /\ conn'[c].link = l
  <2> DEFINE C == Closed(conn)
  <2>1. C \in [1 .. Conns -> ConnRec] /\ C[c] \in ConnRec
    BY ClosedConn, <1>1
  <2>2. \A d \in 1 .. Conns : /\ C[d].out = <<>> /\ C[d].got = <<>>
                             /\ C[d].todo = <<>> /\ C[d].in = <<>>
    BY ClosedConn
  <2> HIDE DEF C
  <2>3. conn' = [C EXCEPT ![c].link = l]
    BY DEF C, Linked
  <2>4. [C[c] EXCEPT !.link = l] \in ConnRec
    BY <2>1 DEF ConnRec
  <2> QED BY <1>1, <2>1, <2>2, <2>3, <2>4 DEF C, ConnRec
<1>3. Streams'
  <2>1. m_iSocket' \in 0 .. Conns
    BY <1>1, SocketAssumption DEF INVALID_SOCKET
  <2>2. \A d \in 1 .. Conns : d # m_iSocket' => conn'[d].link \in {"none", "gone"}
    BY <1>2, ClosedConn
  <2>3. \A d \in 1 .. Conns : d = m_iSocket' => conn'[d].link # "none"
    BY <1>1, <1>2, SocketAssumption DEF INVALID_SOCKET
  <2> QED BY <1>2, <2>1, <2>2, <2>3, EmptyLen DEF Streams, Empty
<1>4. \A d \in 1 .. Conns : conn[d].link # "none" => conn'[d].link # "none"
  BY <1>1, <1>2, ClosedConn
<1> QED BY <1>1, <1>2, <1>3, <1>4 DEF Fresh, Empty, INVALID_SOCKET

LEMMA Connecting ==
  ASSUME Streams, NEW base, NEW flag \in BOOLEAN,
         CreateFails(base) \/ ConnectFails(base, flag) \/ Connects(base, flag)
  PROVE  Fresh
<1>1. CASE CreateFails(base)
  BY <1>1, NoSocket DEF CreateFails, Streams
<1>2. CASE ConnectFails(base, flag)
  <2>1. PICK c \in Unopened :
             /\ m_iSocket' = IF flag THEN c ELSE INVALID_SOCKET
             /\ conn' = [Closed(conn) EXCEPT ![c].link = IF flag THEN "new" ELSE "gone"]
    BY <1>2 DEF ConnectFails
  <2>2. m_PeerAddr' \in BOOLEAN
    BY <1>2 DEF ConnectFails, Streams
  <2>3. \E l \in Links \ {"none"} :
          /\ conn' = Linked(Closed(conn), c, l)
          /\ m_iSocket' = c \/ (m_iSocket' = INVALID_SOCKET /\ l = "gone")
    <3>1. CASE flag
      BY <2>1, <3>1 DEF Links, Linked
    <3>2. CASE ~flag
      BY <2>1, <3>2 DEF Links, Linked
    <3> QED BY <3>1, <3>2
  <2> QED BY <2>2, <2>3, NewSocket
<1>3. CASE Connects(base, flag)
  <2>1. PICK c \in Unopened, l \in {"up", "reset"} :
             /\ m_iSocket' = c /\ m_PeerAddr' = (flag \/ l = "up")
             /\ conn' = [Closed(conn) EXCEPT ![c].link = l]
    BY <1>3 DEF Connects
  <2>2. l \in Links \ {"none"}
    BY <2>1 DEF Links
  <2>3. m_PeerAddr' \in BOOLEAN
    BY <2>1
  <2>4. m_iSocket' = c /\ conn' = Linked(Closed(conn), c, l)
    BY <2>1 DEF Linked
  <2> QED BY <2>2, <2>3, <2>4, NewSocket
<1> QED BY <1>1, <1>2, <1>3

LEMMA Reconnecting ==
  ASSUME Streams, NEW t \in Int, ReconnectFails(t) \/ Reconnects
  PROVE  Fresh
<1>1. (t < 0) \in BOOLEAN
  OBVIOUS
<1>2. CASE ReconnectFails(t)
  BY <1>1, <1>2, Connecting DEF ReconnectFails
<1>3. CASE Reconnects
  BY <1>3, Connecting DEF Reconnects
<1> QED BY <1>2, <1>3

(* The object is idle or starts a second try, on the new socket.           *)
LEMMA FreshIdle ==
  ASSUME PacketInv, Inv', Fresh, call' = NoCall, UNCHANGED failed, Results'
  PROVE  PacketInv'
<1>1. /\ NoCall.at = "idle" /\ NoCall.buf = <<>> /\ NoCall.req = 0 /\ NoCall.n = 0
      /\ NoCall.k = 0 /\ NoCall.try = 1
  BY DEF NoCall
<1>2. Locals'
  BY <1>1, EmptySeq, SocketAssumption DEF Locals, Busy
<1>3. Failures'
  BY <1>1 DEF Failures, Fresh, PacketInv, Busy
<1>4. Flow'
  BY <1>1, SocketAssumption DEF Flow, Fresh, Busy, INVALID_SOCKET
<1> QED BY <1>2, <1>3, <1>4 DEF PacketInv, Fresh

LEMMA Starting ==
  ASSUME Locals, NEW r \in Nat, NEW retry, NEW try \in {1, 2}, NEW t \in Int, NEW ret,
         call' = Attempt(r, retry, try, t, ret)
  PROVE  /\ Locals' /\ call'.at \in {"write", "send"} /\ call'.req = r /\ call'.try = try
         /\ call'.buf = <<>> /\ NSent' = 0
<1>1. /\ call'.at \in {"write", "send"} /\ call'.req = r /\ call'.try = try
      /\ call'.buf = <<>> /\ call'.n = 0 /\ call'.k = 0
  BY DEF Attempt, NoCall
<1>2. NSent' = 0
  BY <1>1 DEF NSent
<1>3. Locals'
  BY <1>1, <1>2, EmptySeq, SocketAssumption DEF Locals, Busy
<1> QED BY <1>1, <1>2, <1>3

LEMMA AskingNothing ==
  ASSUME NEW c \in 1 .. Conns, Empty(c)', call'.buf = <<>>, NSent' = 0
  PROVE  Asking(c)'
BY EmptyLen DEF Asking, Empty, OfRequest

-----------------------------------------------------------------------------
(* Bytes put at the end of a stream and taken from its beginning.          *)
LEMMA Asked ==
  ASSUME NEW q \in Seq(Ask), NEW r \in Nat, NEW off \in Nat, OfRequest(q, r, off),
         NEW b \in Ask, b = [req |-> r, pos |-> off + Len(q) + 1]
  PROVE  OfRequest(Append(q, b), r, off)
<1>1. /\ Len(q) \in Nat /\ Len(Append(q, b)) = Len(q) + 1
      /\ \A i \in 1 .. Len(q) : Append(q, b)[i] = q[i]
      /\ Append(q, b)[Len(q) + 1] = b
  BY AppendProperties, LenProperties
<1>2. ASSUME NEW i \in 1 .. Len(Append(q, b))
      PROVE  Append(q, b)[i] = [req |-> r, pos |-> off + i]
  <2>1. CASE i = Len(q) + 1
    <3>1. off + Len(q) + 1 = off + i
      BY <1>1, <2>1
    <3> QED BY <1>1, <2>1, <3>1
  <2>2. CASE i # Len(q) + 1
    BY <1>1, <2>2 DEF OfRequest
  <2> QED BY <2>1, <2>2
<1> QED BY <1>2 DEF OfRequest

LEMMA HeadAsked ==
  ASSUME NEW q \in Seq(Ask), NEW r \in Nat, NEW off \in Nat, OfRequest(q, r, off), q # <<>>
  PROVE  /\ Head(q) = [req |-> r, pos |-> off + 1] /\ Len(Tail(q)) = Len(q) - 1
         /\ OfRequest(Tail(q), r, off + 1)
<1>1. /\ Len(q) \in Nat /\ Len(q) # 0 /\ Head(q) = q[1] /\ Tail(q) \in Seq(Ask)
      /\ Len(Tail(q)) = Len(q) - 1 /\ \A i \in 1 .. Len(Tail(q)) : Tail(q)[i] = q[i + 1]
  BY HeadTailProperties, EmptySeq, LenProperties
<1>2. q[1] = [req |-> r, pos |-> off + 1]
  BY <1>1 DEF OfRequest
<1>3. ASSUME NEW i \in 1 .. Len(Tail(q))
      PROVE  Tail(q)[i] = [req |-> r, pos |-> off + 1 + i]
  <2>1. i + 1 \in 1 .. Len(q) /\ off + (i + 1) = off + 1 + i
    BY <1>1
  <2> QED BY <1>1, <2>1 DEF OfRequest
<1> QED BY <1>1, <1>2, <1>3 DEF OfRequest

LEMMA Written ==
  ASSUME NEW q \in Seq(Reply), NEW r \in Nat, NEW off \in Nat, NEW n, OfAnswer(q, r, off, n),
         NEW b \in Reply, b = [req |-> r, pos |-> off + Len(q) + 1, len |-> n]
  PROVE  OfAnswer(Append(q, b), r, off, n)
<1>1. /\ Len(q) \in Nat /\ Len(Append(q, b)) = Len(q) + 1
      /\ \A i \in 1 .. Len(q) : Append(q, b)[i] = q[i]
      /\ Append(q, b)[Len(q) + 1] = b
  BY AppendProperties, LenProperties
<1>2. ASSUME NEW i \in 1 .. Len(Append(q, b))
      PROVE  Append(q, b)[i] = [req |-> r, pos |-> off + i, len |-> n]
  <2>1. CASE i = Len(q) + 1
    <3>1. off + Len(q) + 1 = off + i
      BY <1>1, <2>1
    <3> QED BY <1>1, <2>1, <3>1
  <2>2. CASE i # Len(q) + 1
    BY <1>1, <2>2 DEF OfAnswer
  <2> QED BY <2>1, <2>2
<1> QED BY <1>2 DEF OfAnswer

LEMMA HeadWritten ==
  ASSUME NEW q \in Seq(Reply), NEW r \in Nat, NEW off \in Nat, NEW n, OfAnswer(q, r, off, n),
         q # <<>>
  PROVE  /\ Head(q) = [req |-> r, pos |-> off + 1, len |-> n] /\ Len(Tail(q)) = Len(q) - 1
         /\ OfAnswer(Tail(q), r, off + 1, n)
<1>1. /\ Len(q) \in Nat /\ Len(q) # 0 /\ Head(q) = q[1] /\ Tail(q) \in Seq(Reply)
      /\ Len(Tail(q)) = Len(q) - 1 /\ \A i \in 1 .. Len(Tail(q)) : Tail(q)[i] = q[i + 1]
  BY HeadTailProperties, EmptySeq, LenProperties
<1>2. q[1] = [req |-> r, pos |-> off + 1, len |-> n]
  BY <1>1 DEF OfAnswer
<1>3. ASSUME NEW i \in 1 .. Len(Tail(q))
      PROVE  Tail(q)[i] = [req |-> r, pos |-> off + 1 + i, len |-> n]
  <2>1. i + 1 \in 1 .. Len(q) /\ off + (i + 1) = off + 1 + i
    BY <1>1
  <2> QED BY <1>1, <2>1 DEF OfAnswer
<1> QED BY <1>1, <1>2, <1>3 DEF OfAnswer

LEMMA Cut ==
  ASSUME NEW q \in Seq(Reply), NEW a \in 0 .. Len(q)
  PROVE  /\ SubSeq(q, 1, a) \in Seq(Reply) /\ SubSeq(q, a + 1, Len(q)) \in Seq(Reply)
         /\ Len(SubSeq(q, 1, a)) = a /\ Len(SubSeq(q, a + 1, Len(q))) = Len(q) - a
         /\ \A r \in Nat, off \in Nat : \A n :
              OfAnswer(q, r, off, n) => /\ OfAnswer(SubSeq(q, 1, a), r, off, n)
                                        /\ OfAnswer(SubSeq(q, a + 1, Len(q)), r, off + a, n)
<1> DEFINE A == SubSeq(q, 1, a)
           B == SubSeq(q, a + 1, Len(q))
<1>1. Len(q) \in Nat /\ DOMAIN q = 1 .. Len(q) /\ \A i \in 1 .. Len(q) : q[i] \in Reply
  BY LenProperties, ElementOfSeq
<1>2. a \in Nat /\ Len(q) \in Nat /\ a <= Len(q)
  BY <1>1
<1>3. /\ A \in Seq(Reply) /\ Len(A) = a /\ \A i \in 1 .. a : A[i] = q[i]
  <2>1. \A i \in 1 .. a : q[i] \in Reply
    BY <1>1, <1>2
  <2>2. /\ A \in Seq(Reply) /\ Len(A) = (IF 1 <= a THEN a - 1 + 1 ELSE 0)
        /\ \A i \in 1 .. (a - 1 + 1) : A[i] = q[1 + i - 1]
    BY <1>2, <2>1, SubSeqProperties
  <2> QED BY <1>2, <2>2
<1>4. /\ B \in Seq(Reply) /\ Len(B) = Len(q) - a
      /\ \A i \in 1 .. (Len(q) - a) : B[i] = q[a + i]
  <2>1. \A i \in (a + 1) .. Len(q) : q[i] \in Reply
    BY <1>1, <1>2
  <2>2. a + 1 \in Int /\ Len(q) \in Int
    BY <1>1, <1>2
  <2>3. /\ B \in Seq(Reply)
        /\ Len(B) = (IF a + 1 <= Len(q) THEN Len(q) - (a + 1) + 1 ELSE 0)
        /\ \A i \in 1 .. (Len(q) - (a + 1) + 1) : B[i] = q[a + 1 + i - 1]
    BY <2>1, <2>2, SubSeqProperties
  <2> HIDE DEF B
  <2>4. \A i \in 1 .. (Len(q) - a) : i \in 1 .. (Len(q) - (a + 1) + 1) /\ a + 1 + i - 1 = a + i
    BY <1>1, <1>2
  <2>5. Len(B) = Len(q) - a
    <3>1. (IF a + 1 <= Len(q) THEN Len(q) - (a + 1) + 1 ELSE 0) = Len(q) - a
      BY <1>2
    <3> QED BY <2>3, <3>1
  <2> QED BY <2>3, <2>4, <2>5
<1> HIDE DEF A, B
<1>5. ASSUME NEW r \in Nat, NEW off \in Nat, NEW n, OfAnswer(q, r, off, n)
      PROVE  OfAnswer(A, r, off, n) /\ OfAnswer(B, r, off + a, n)
  <2>1. OfAnswer(A, r, off, n)
    BY <1>1, <1>2, <1>3, <1>5 DEF OfAnswer
  <2>2. ASSUME NEW i \in 1 .. Len(B)
        PROVE  B[i] = [req |-> r, pos |-> (off + a) + i, len |-> n]
    <3>1. a + i \in 1 .. Len(q) /\ off + (a + i) = (off + a) + i /\ B[i] = q[a + i]
      BY <1>1, <1>2, <1>4
    <3> QED BY <1>5, <3>1 DEF OfAnswer
  <2> QED BY <2>1, <2>2 DEF OfAnswer
<1> QED BY <1>3, <1>4, <1>5 DEF A, B

LEMMA Joined ==
  ASSUME NEW b \in Seq(Reply), NEW q \in Seq(Reply), NEW r \in Nat, NEW n,
         OfAnswer(b, r, 0, n), OfAnswer(q, r, Len(b), n)
  PROVE  OfAnswer(b \o q, r, 0, n)
<1>1. /\ Len(b) \in Nat /\ Len(q) \in Nat /\ Len(b \o q) = Len(b) + Len(q)
      /\ \A i \in 1 .. Len(b) + Len(q) :
           (b \o q)[i] = IF i <= Len(b) THEN b[i] ELSE q[i - Len(b)]
  BY ConcatProperties, LenProperties
<1>2. ASSUME NEW i \in 1 .. Len(b \o q)
      PROVE  (b \o q)[i] = [req |-> r, pos |-> 0 + i, len |-> n]
  <2>1. CASE i <= Len(b)
    <3>1. i \in 1 .. Len(b) /\ (b \o q)[i] = b[i]
      BY <1>1, <2>1
    <3> QED BY <3>1 DEF OfAnswer
  <2>2. CASE ~ (i <= Len(b))
    <3>1. i - Len(b) \in 1 .. Len(q) /\ (b \o q)[i] = q[i - Len(b)]
          /\ Len(b) + (i - Len(b)) = 0 + i
      BY <1>1, <2>2
    <3> QED BY <3>1 DEF OfAnswer
  <2> QED BY <2>1, <2>2
<1> QED BY <1>2 DEF OfAnswer

LEMMA WholeAnswer ==
  ASSUME NEW b \in Seq(Reply), NEW r \in Nat, NEW n, OfAnswer(b, r, 0, n), Len(b) = n
  PROVE  b = Answer(r, n)
<1>1. b = [i \in 1 .. n |-> b[i]] /\ n \in Nat
  BY LenProperties
<1>2. \A i \in 1 .. n : b[i] = [req |-> r, pos |-> i, len |-> n]
  BY <1>1 DEF OfAnswer
<1> QED BY <1>1, <1>2 DEF Answer

LEMMA NewAnswer ==
  ASSUME NEW r \in Nat, NEW n \in Packs
  PROVE  Answer(r, n) \in Seq(Reply) /\ Len(Answer(r, n)) = n /\ OfAnswer(Answer(r, n), r, 0, n)
<1>1. n \in Nat /\ \A i \in 1 .. n : [req |-> r, pos |-> i, len |-> n] \in Reply
  BY SocketAssumption DEF Reply
<1>2. Answer(r, n) \in Seq(Reply) /\ Len(Answer(r, n)) = n
  BY <1>1 DEF Answer
<1> QED BY <1>1, <1>2 DEF Answer, OfAnswer

LEMMA WholeRequest ==
  ASSUME NEW q \in Seq(Ask), NEW r \in Nat, OfRequest(q, r, 0), Len(q) = ReqLen
  PROVE  q = Request(r) /\ q[1].req = r
<1>1. q = [i \in 1 .. ReqLen |-> q[i]] /\ ReqLen \in Nat /\ 1 \in 1 .. ReqLen
  BY LenProperties, SocketAssumption
<1>2. \A i \in 1 .. ReqLen : q[i] = [req |-> r, pos |-> i]
  BY <1>1 DEF OfRequest
<1> QED BY <1>1, <1>2 DEF Request

LEMMA RequestByte ==
  ASSUME NEW r \in Nat, NEW i \in 1 .. ReqLen
  PROVE  Request(r)[i] = [req |-> r, pos |-> i] /\ Request(r)[i] \in Ask
BY SocketAssumption DEF Request, Ask

-----------------------------------------------------------------------------
(* Steps of a call on its own socket.                                      *)
SameLinks == \A c \in 1 .. Conns : conn'[c].link = conn[c].link

LEMMA OwnSocket ==
  ASSUME Streams
  PROVE  IsValid <=> m_iSocket \in 1 .. Conns
BY SocketAssumption DEF Streams, IsValid, INVALID_SOCKET

LEMMA IdleCall ==
  /\ NoCall.at = "idle" /\ NoCall.buf = <<>> /\ NoCall.req = 0 /\ NoCall.n = 0
  /\ NoCall.k = 0 /\ NoCall.try = 1
BY DEF NoCall

(* The attempt fails: the connection is remembered.                        *)
LEMMA Failing ==
  ASSUME PacketInv, Inv', call.at \in Busy, SameSocket, Streams', SameLinks,
         NEW n \in Int, n <= 0, Fail(n)
  PROVE  PacketInv'
<1>1. /\ UNCHANGED m_iSocket /\ failed' = failed \cup ({m_iSocket} \ {INVALID_SOCKET})
      /\ \/ call' = [call EXCEPT !.at = "again", !.ret = n] /\ UNCHANGED last
         \/ call' = NoCall /\ Ended(n, call.buf)
  BY DEF Fail, SameSocket
<1>2. /\ call'.at \in {"idle", "again"} /\ call'.buf \in {call.buf, <<>>}
      /\ call'.req \in {call.req, 0} /\ call'.n \in {call.n, 0} /\ call'.k \in {call.k, 0}
      /\ call'.try \in {call.try, 1}
      /\ call'.at = "again" => call'.ret = n
  BY <1>1, IdleCall, Fields DEF PacketInv, Inv, Field
<1>3. Locals'
  <2>1. call.buf \in Seq(Reply) /\ Len(call.buf) <= rsp_len /\ <<>> \in Seq(Reply) /\ Len(<<>>) = 0
    BY EmptySeq DEF PacketInv, Locals
  <2>2. call'.buf \in Seq(Reply) /\ Len(call'.buf) <= rsp_len
    <3>1. CASE call'.buf = call.buf
      BY <2>1, <3>1
    <3>2. CASE call'.buf = <<>>
      BY <2>1, <3>2, SocketAssumption
    <3> QED BY <1>2, <3>1, <3>2
  <2>3. call'.req \in Nat /\ call'.n \in Nat /\ call'.k \in Nat /\ call'.try \in {1, 2}
    BY <1>2 DEF PacketInv, Locals
  <2> QED BY <1>2, <2>2, <2>3 DEF Locals, Busy
<1>4. Failures'
  <2>1. \A c \in failed' : c \in 1 .. Conns /\ conn'[c].link # "none"
    <3>1. \A c \in 1 .. Conns : c = m_iSocket => conn[c].link # "none"
      BY DEF PacketInv, Streams
    <3>2. \A c \in failed' : c \in failed \/ (c = m_iSocket /\ IsValid)
      BY <1>1 DEF IsValid
    <3> QED BY <3>1, <3>2, OwnSocket DEF PacketInv, Failures, SameLinks
  <2> QED BY <1>1, <1>2, <2>1 DEF Failures, Busy
<1>5. Flow'
  <2>1. \A c \in (1 .. Conns) \ failed' : c # m_iSocket'
    BY <1>1, SocketAssumption DEF INVALID_SOCKET
  <2> QED BY <2>1 DEF Flow
<1>6. Results'
  <2>1. CASE UNCHANGED last
    BY <1>1, <2>1 DEF PacketInv, Results, OwnAnswer
  <2>2. CASE Ended(n, call.buf)
    <3>1. last'.res = n /\ last'.buf = call.buf
      BY <2>2 DEF Ended
    <3> QED BY <3>1 DEF PacketInv, Locals, Results, OwnAnswer
  <2> QED BY <1>1, <2>1, <2>2
<1> QED BY <1>3, <1>4, <1>5, <1>6 DEF PacketInv

(* It succeeds: nothing is left on a connection where none has failed.     *)
LEMMA Succeeding ==
  ASSUME PacketInv, Inv', call.at \in Busy, SameSocket, Streams', SameLinks,
         NEW b \in Seq(Reply), Len(b) <= rsp_len, Succeed(b), m_iSocket \in 1 .. Conns,
         m_iSocket \notin failed => b = Answer(call.req, Len(b)) /\ Empty(m_iSocket)'
  PROVE  PacketInv'
<1>1. /\ UNCHANGED <<m_iSocket, failed>> /\ call' = NoCall
      /\ last' = [req |-> call.req, try |-> call.try, res |-> Len(b), buf |-> b,
                  conn |-> m_iSocket]
  BY DEF Succeed, SameSocket, Ended
<1>2. Locals'
  BY <1>1, IdleCall, EmptySeq, SocketAssumption DEF Locals, Busy
<1>3. Failures'
  BY <1>1, IdleCall DEF PacketInv, Failures, Busy, SameLinks
<1>4. Flow'
  BY <1>1, IdleCall DEF Flow, Busy, Empty
<1>5. Results'
  BY <1>1 DEF PacketInv, Results, OwnAnswer, Failures, Locals
<1> QED BY <1>2, <1>3, <1>4, <1>5 DEF PacketInv

(* The call goes on, on a socket of its own.                               *)
LEMMA GoingOn ==
  ASSUME PacketInv, Inv', call.at \in Busy, call'.at \in Busy, SameSocket, Streams', SameLinks,
         call'.try = call.try, UNCHANGED <<last, failed>>, Locals',
         m_iSocket \in 1 .. Conns /\ m_iSocket \notin failed =>
           Asking(m_iSocket)' \/ \E n \in Packs : Answering(m_iSocket, n)'
  PROVE  PacketInv'
<1>1. UNCHANGED m_iSocket
  BY DEF SameSocket
<1>2. Failures'
  BY <1>1 DEF PacketInv, Failures, Busy, SameLinks
<1>3. Flow'
  BY <1>1 DEF Flow, Busy, Asking, Answering
<1>4. Results'
  BY DEF PacketInv, Results, OwnAnswer
<1> QED BY <1>2, <1>3, <1>4 DEF PacketInv

(* What recv takes from the stream is read into the caller's buffer.       *)
LEMMA Taking ==
  ASSUME PacketInv, Receiving, Stream # <<>>, conn' = Taken, SameSocket
  PROVE  /\ Streams' /\ SameLinks /\ m_iSocket \in 1 .. Conns
         /\ Avail \in Nat \ {0} /\ call.n + Avail <= Wanted
         /\ Read \in Seq(Reply) /\ Len(Read) = Len(call.buf) + Avail
         /\ Len(Read) \in Nat \ {0} /\ Read[1] \in Reply
         /\ m_iSocket \notin failed =>
              \E n \in Packs :
                /\ conn'[m_iSocket].got = <<>> /\ conn'[m_iSocket].out = <<>>
                /\ OfAnswer(Read, call.req, 0, n)
                /\ OfAnswer(conn'[m_iSocket].in, call.req, Len(Read), n)
                /\ OfAnswer(conn'[m_iSocket].todo, call.req,
                            Len(Read) + Len(conn'[m_iSocket].in), n)
                /\ Len(Read) + Len(conn'[m_iSocket].in) + Len(conn'[m_iSocket].todo) <= n
                /\ call.at = "body" => call.pack = n
<1> DEFINE m == m_iSocket
           q == conn[m].in
           a == Avail
<1>1. m \in 1 .. Conns /\ conn[m] \in ConnRec /\ conn \in [1 .. Conns -> ConnRec]
  BY OwnSocket, SocketAssumption DEF PacketInv, Locals, Streams, Receiving, Busy, NSent
<1>2. q \in Seq(Reply) /\ Len(q) \in Nat \ {0}
  BY <1>1, EmptySeq DEF ConnRec, Stream
<1>3. a \in 1 .. Len(q) /\ call.n + a <= Wanted
  <2>1. Wanted \in Nat /\ call.n \in Nat /\ call.n < Wanted
    <3>1. CASE call.at = "header"
      BY <3>1, SocketAssumption DEF PacketInv, Locals, Wanted
    <3>2. CASE call.at = "body"
      <4>1. call.pack \in Nat /\ call.n \in Nat /\ hlen \in Nat /\ hlen + call.n < call.pack
        BY <3>2, SocketAssumption DEF PacketInv, Locals
      <4> QED BY <3>2, <4>1 DEF Wanted
    <3> QED BY <3>1, <3>2 DEF Receiving
  <2>2. Stream = q
    BY DEF Stream
  <2> HIDE DEF q
  <2> QED BY <1>2, <2>1, <2>2 DEF Avail
<1>4. Read = call.buf \o SubSeq(q, 1, a) /\ conn' = [conn EXCEPT ![m].in = SubSeq(q, a + 1, Len(q))]
  BY DEF Read, Stream, Taken
<1> HIDE DEF a
<1>5. a \in 0 .. Len(q)
  BY <1>2, <1>3
<1>6. /\ SubSeq(q, 1, a) \in Seq(Reply) /\ SubSeq(q, a + 1, Len(q)) \in Seq(Reply)
      /\ Len(SubSeq(q, 1, a)) = a /\ Len(SubSeq(q, a + 1, Len(q))) = Len(q) - a
  BY <1>2, <1>5, Cut
<1>7. /\ conn' \in [1 .. Conns -> ConnRec]
      /\ \A c \in 1 .. Conns : c # m => conn'[c] = conn[c]
      /\ conn'[m].in = SubSeq(q, a + 1, Len(q))
      /\ conn'[m].todo = conn[m].todo /\ conn'[m].out = conn[m].out
      /\ conn'[m].got = conn[m].got /\ conn'[m].link = conn[m].link
  <2> DEFINE k == [conn[m] EXCEPT !.in = SubSeq(q, a + 1, Len(q))]
  <2>1. conn' = [conn EXCEPT ![m] = k]
    BY <1>1, <1>4
  <2>2. /\ k \in ConnRec /\ k.in = SubSeq(q, a + 1, Len(q)) /\ k.todo = conn[m].todo
        /\ k.out = conn[m].out /\ k.got = conn[m].got /\ k.link = conn[m].link
    <3> DEFINE s == SubSeq(q, a + 1, Len(q))
    <3>1. s \in Seq(Reply)
      BY <1>6
    <3> HIDE DEF s
    <3>2. /\ [conn[m] EXCEPT !.in = s] \in ConnRec
          /\ [conn[m] EXCEPT !.in = s].in = s
          /\ [conn[m] EXCEPT !.in = s].todo = conn[m].todo
          /\ [conn[m] EXCEPT !.in = s].out = conn[m].out
          /\ [conn[m] EXCEPT !.in = s].got = conn[m].got
          /\ [conn[m] EXCEPT !.in = s].link = conn[m].link
      BY <1>1, <3>1 DEF ConnRec
    <3> QED BY <3>2 DEF s
  <2> HIDE DEF k
  <2> QED BY <1>1, <2>1, <2>2
<1>8. Streams' /\ SameLinks
  BY <1>7 DEF PacketInv, Streams, SameSocket, SameLinks, Empty
<1>9. call.buf \in Seq(Reply) /\ Len(call.buf) \in Nat
  BY LenProperties DEF PacketInv, Locals
<1>10. Read \in Seq(Reply) /\ Len(Read) = Len(call.buf) + a
  BY <1>4, <1>6, <1>9, ConcatProperties
<1>11. Len(Read) \in Nat \ {0}
  BY <1>3, <1>9, <1>10
<1>12. Read[1] \in Reply
  BY <1>10, <1>11, ElementOfSeq
<1>13. ASSUME m \notin failed
       PROVE  \E n \in Packs :
                /\ conn'[m].got = <<>> /\ conn'[m].out = <<>>
                /\ OfAnswer(Read, call.req, 0, n)
                /\ OfAnswer(conn'[m].in, call.req, Len(Read), n)
                /\ OfAnswer(conn'[m].todo, call.req, Len(Read) + Len(conn'[m].in), n)
                /\ Len(Read) + Len(conn'[m].in) + Len(conn'[m].todo) <= n
                /\ call.at = "body" => call.pack = n
  <2>1. ~Asking(m)
    BY DEF Asking, Stream
  <2>2. PICK n \in Packs : Answering(m, n)
    BY <1>1, <1>13, <2>1 DEF PacketInv, Flow, Receiving, Busy
  <2>3. call.req \in Nat
    BY DEF PacketInv, Locals
  <2>4. OfAnswer(q, call.req, Len(call.buf), n) /\ OfAnswer(call.buf, call.req, 0, n)
    BY <2>2 DEF Answering
  <2>5. /\ OfAnswer(SubSeq(q, 1, a), call.req, Len(call.buf), n)
        /\ OfAnswer(SubSeq(q, a + 1, Len(q)), call.req, Len(call.buf) + a, n)
    BY <1>2, <1>5, <1>9, <2>3, <2>4, Cut
  <2>6. OfAnswer(Read, call.req, 0, n)
    BY <1>4, <1>6, <1>9, <2>3, <2>4, <2>5, Joined
  <2>7. Len(Read) + Len(conn'[m].in) = Len(call.buf) + Len(q)
    <3>1. Len(conn'[m].in) = Len(q) - a
      BY <1>6, <1>7
    <3> HIDE DEF q
    <3> QED BY <1>2, <1>3, <1>9, <1>10, <3>1
  <2> QED BY <1>7, <1>10, <2>2, <2>5, <2>6, <2>7 DEF Answering
<1>14. Avail \in Nat \ {0} /\ call.n + Avail <= Wanted /\ Len(Read) = Len(call.buf) + Avail
  BY <1>2, <1>3, <1>10 DEF a
<1> QED BY <1>1, <1>8, <1>10, <1>11, <1>12, <1>13, <1>14

-----------------------------------------------------------------------------
LEMMA PacketInit == Init => PacketInv
<1> SUFFICES ASSUME Init PROVE PacketInv
  OBVIOUS
<1>1. /\ <<>> \in Seq(Ask) /\ <<>> \in Seq(Reply) /\ Len(<<>>) = 0
      /\ 0 <= rsp_len /\ 0 <= Window /\ 0 < ReqLen
  BY EmptySeq, SocketAssumption
<1>2. m_iSocket = 0 /\ m_iSocket \in 0 .. Conns /\ \A c \in 1 .. Conns : c # m_iSocket
  BY SocketAssumption DEF Init, INVALID_SOCKET
<1>3. Streams
  BY <1>1, <1>2 DEF Init, Streams, Empty, NoConn, ConnRec, Links
<1>4. /\ call.at = "none" /\ call.buf = <<>> /\ call.req = 0 /\ call.n = 0 /\ call.k = 0
      /\ call.try = 1
  BY DEF Init, NoCall
<1>5. Locals
  BY <1>1, <1>2, <1>4 DEF Locals, Busy, INVALID_SOCKET
<1>6. Failures /\ Flow
  BY <1>2, <1>4 DEF Init, Failures, Flow, Busy
<1>7. Results
  BY <1>1 DEF Init, Results, OwnAnswer
<1> QED BY <1>3, <1>5, <1>6, <1>7, InitInv DEF PacketInv

(* The user's calls, and a second try.                                     *)
LEMMA UserStep ==
  ASSUME PacketInv, Inv',
         \/ Construct \/ UserClose \/ Again
         \/ \E t \in Timeouts : UserReconnect(t)
         \/ \E t \in Timeouts, r \in 1 .. Requests, retry \in BOOLEAN : Call(r, retry, t)
  PROVE  PacketInv'
<1>1. Streams /\ Locals
  BY DEF PacketInv
<1>3. ASSUME UNCHANGED <<last, failed>> PROVE Results'
  BY <1>3 DEF PacketInv, Results, OwnAnswer
<1>4. ASSUME call.at = "idle", call' = call, Fresh, UNCHANGED <<last, failed>>
      PROVE  PacketInv'
  <2>1. Results'
    BY <1>3, <1>4
  <2>2. Locals'
    BY <1>1, <1>4 DEF Locals, Busy
  <2>3. Failures'
    BY <1>4 DEF Failures, Fresh, PacketInv, Busy
  <2>4. Flow'
    BY <1>4 DEF Flow, Fresh, Busy
  <2> QED BY <1>4, <2>1, <2>2, <2>3, <2>4 DEF PacketInv, Fresh
<1>5. CASE Construct
  <2>1. Fresh
    BY <1>1, <1>5, Connecting DEF Construct
  <2> QED BY <1>3, <1>5, <2>1, FreshIdle DEF Construct
<1>6. CASE UserClose
  <2>1. m_PeerAddr' \in BOOLEAN
    BY <1>1, <1>6 DEF UserClose, Close, Streams
  <2>2. Fresh
    BY <1>1, <1>6, <2>1, NoSocket DEF UserClose, Close
  <2> QED BY <1>4, <1>6, <2>2 DEF UserClose
<1>7. ASSUME NEW t \in Timeouts, UserReconnect(t) PROVE PacketInv'
  <2>1. Fresh
    BY <1>1, <1>7, Reconnecting, SocketAssumption DEF UserReconnect
  <2> QED BY <1>4, <1>7, <2>1 DEF UserReconnect
<1>8. CASE Again
  <2>1. call.timeout \in Int /\ call.timeout \in Timeouts \cup {-1} /\ call.req \in Nat
    <3>1. call.timeout \in Timeouts \cup {-1}
      BY DEF PacketInv, Inv, CallType
    <3>2. call.req \in Nat
      BY <1>1 DEF Locals
    <3>3. \A t \in Timeouts : t \in Int
      BY SocketAssumption
    <3> QED BY <3>1, <3>2, <3>3
  <2>2. Fresh /\ UNCHANGED failed
    BY <1>1, <1>8, <2>1, Reconnecting DEF Again
  <2>3. CASE call' = NoCall /\ Ended(call.ret, <<>>)
    <3>1. last'.res = call.ret /\ last'.buf = <<>>
      BY <2>3 DEF Ended
    <3>2. call.ret \in Int /\ call.ret <= 0
      BY <1>8 DEF Again, PacketInv, Failures
    <3>3. Results'
      BY <3>1, <3>2, EmptySeq, SocketAssumption DEF Results, OwnAnswer
    <3> QED BY <2>2, <2>3, <3>3, FreshIdle
  <2>4. CASE call' = Attempt(call.req, TRUE, 2, call.timeout, call.ret) /\ UNCHANGED last
    <3>1. /\ Locals' /\ call'.at \in {"write", "send"} /\ call'.req = call.req
          /\ call'.try = 2 /\ call'.buf = <<>> /\ NSent' = 0
      BY <1>1, <2>1, <2>4, Starting
    <3>2. \A c \in failed : c \in 1 .. Conns /\ conn[c].link # "none"
      BY DEF PacketInv, Failures
    <3>3. \A c \in failed' : c # m_iSocket' /\ c \in 1 .. Conns /\ conn'[c].link # "none"
      BY <2>2, <3>2 DEF Fresh
    <3>4. Failures'
      BY <3>1, <3>3 DEF Failures, Busy
    <3>5. \A c \in 1 .. Conns : c = m_iSocket' => Asking(c)'
      BY <2>2, <3>1, AskingNothing DEF Fresh
    <3>6. Flow'
      BY <3>1, <3>5 DEF Flow, Busy
    <3> QED BY <1>3, <2>2, <2>4, <3>1, <3>4, <3>6 DEF PacketInv, Fresh
  <2> QED BY <1>8, <2>3, <2>4 DEF Again
<1>9. ASSUME NEW t \in Timeouts, NEW r \in 1 .. Requests, NEW retry \in BOOLEAN, Call(r, retry, t)
      PROVE  PacketInv'
  <2>1. t \in Int /\ r \in Nat /\ call.at = "idle"
    BY <1>9, SocketAssumption DEF Call
  <2>2. /\ Locals' /\ call'.at \in {"write", "send"} /\ call'.req = r
        /\ call'.try = 1 /\ call'.buf = <<>> /\ NSent' = 0
    BY <1>1, <1>9, <2>1, Starting DEF Call
  <2>3. UNCHANGED <<m_iSocket, m_PeerAddr, open, conn, last, failed>>
    BY <1>9 DEF Call
  <2>4. Streams'
    BY <1>1, <2>3 DEF Streams, Empty
  <2>5. Failures'
    BY <2>2, <2>3 DEF PacketInv, Failures, Busy
  <2>6. \A c \in (1 .. Conns) \ failed : c = m_iSocket => Asking(c)'
    <3> SUFFICES ASSUME NEW c \in (1 .. Conns) \ failed, c = m_iSocket PROVE Asking(c)'
      OBVIOUS
    <3>1. Empty(c)
      BY <2>1 DEF PacketInv, Flow
    <3>2. Empty(c)'
      BY <2>3, <3>1 DEF Empty
    <3> QED BY <2>2, <3>2, AskingNothing
  <2>7. Flow'
    BY <2>2, <2>3, <2>6 DEF Flow, Busy
  <2> QED BY <1>3, <2>2, <2>3, <2>4, <2>5, <2>7 DEF PacketInv
<1> QED BY <1>5, <1>6, <1>7, <1>8, <1>9

(* The request is sent: the bytes counted so far stay what they are.       *)
LEMMA SendStep ==
  ASSUME PacketInv, Inv',
         \/ SendInvalid \/ WaitWrite \/ WaitWriteEnds \/ SendByte \/ Sent \/ SendStops
  PROVE  PacketInv'
<1>1. Streams /\ Locals /\ DOMAIN call = Field
  BY Fields DEF PacketInv, Inv
<1>2. call.at \in {"write", "send"} /\ call.at \in Busy
  BY DEF SendInvalid, WaitWrite, WaitWriteEnds, SendByte, Sent, SendStops, Busy
<1>3. ASSUME SameConn PROVE Streams' /\ SameLinks /\ SameSocket
  BY <1>1, <1>3 DEF SameConn, SameSocket, SameLinks, Streams, Empty
<1>4. ASSUME SameConn, NEW n \in {-4, -5}, Fail(n) PROVE PacketInv'
  BY <1>2, <1>3, <1>4, Failing
<1>5. ASSUME SameConn, call'.at \in Busy, call'.try = call.try, UNCHANGED <<last, failed>>, Locals',
             call'.buf = call.buf, call'.req = call.req, NSent' = NSent, call'.at # "body"
      PROVE  PacketInv'
  <2>1. ASSUME m_iSocket \in 1 .. Conns, m_iSocket \notin failed
        PROVE  Asking(m_iSocket)' \/ \E n \in Packs : Answering(m_iSocket, n)'
    <3>1. Asking(m_iSocket) \/ \E n \in Packs : Answering(m_iSocket, n)
      BY <1>2, <2>1 DEF PacketInv, Flow
    <3>2. UNCHANGED <<conn, m_iSocket>>
      BY <1>5 DEF SameConn, SameSocket
    <3>3. CASE Asking(m_iSocket)
      BY <1>5, <3>2, <3>3 DEF Asking
    <3>4. ASSUME NEW n \in Packs, Answering(m_iSocket, n) PROVE Answering(m_iSocket, n)'
      BY <1>5, <3>2, <3>4 DEF Answering
    <3> QED BY <3>1, <3>3, <3>4
  <2> QED BY <1>2, <1>3, <1>5, <2>1, GoingOn
<1>6. CASE SendInvalid
  BY <1>4, <1>6 DEF SendInvalid
<1>7. CASE WaitWrite
  <2>1. /\ call'.at = "send" /\ call'.k = 0 /\ call'.n = call.n /\ call'.buf = call.buf
        /\ call'.req = call.req /\ call'.try = call.try /\ UNCHANGED m_iSocket
    BY <1>1, <1>7 DEF WaitWrite, Field, SameConn, SameSocket
  <2>2. call.at = "write" /\ call.k = 0 /\ IsValid
    BY <1>1, <1>7 DEF WaitWrite, Locals
  <2>3. NSent' = NSent
    BY <2>1, <2>2 DEF NSent
  <2>4. Locals'
    BY <1>1, <2>1, <2>2 DEF Locals, Busy, IsValid
  <2> QED BY <1>5, <1>7, <2>1, <2>3, <2>4 DEF WaitWrite, Busy
<1>8. CASE WaitWriteEnds
  BY <1>4, <1>8 DEF WaitWriteEnds
<1>9. CASE Sent
  <2>1. /\ call'.at = "header" /\ call'.n = 0 /\ call'.k = 0 /\ call'.buf = call.buf
        /\ call'.req = call.req /\ call'.try = call.try /\ UNCHANGED m_iSocket
    BY <1>1, <1>9 DEF Sent, Field, SameConn, SameSocket
  <2>2. call.at = "send" /\ call.n + call.k = ReqLen /\ call.buf = <<>>
    BY <1>1, <1>9 DEF Sent, Locals
  <2>3. NSent' = NSent /\ NSent = ReqLen
    BY <2>1, <2>2 DEF NSent
  <2>4. IsValid /\ IsValid'
    BY <1>1, <1>2, <2>1, <2>3, SocketAssumption DEF Locals, IsValid
  <2>5. Len(call'.buf) = 0
    BY <2>1, <2>2, EmptySeq
  <2>6. Locals'
    BY <1>1, <2>1, <2>2, <2>4, <2>5, SocketAssumption DEF Locals, Busy
  <2> QED BY <1>5, <1>9, <2>1, <2>3, <2>6 DEF Sent, Busy
<1>10. CASE SendByte
  <2> DEFINE m == m_iSocket
             i == call.n + call.k + 1
             b == [req |-> call.req, pos |-> i]
             q == conn[m].out
  <2>1. /\ call'.at = "send" /\ call'.n = call.n /\ call'.k = call.k + 1 /\ call'.buf = call.buf
        /\ call'.req = call.req /\ call'.try = call.try /\ UNCHANGED m_iSocket
    BY <1>1, <1>10 DEF SendByte, Field, SameSocket
  <2>2. /\ call.at = "send" /\ IsValid /\ call.n + call.k < ReqLen /\ Len(q) < Window
        /\ call.n \in Nat /\ call.k \in Nat /\ call.req \in Nat
    BY <1>1, <1>10 DEF SendByte, Room, Locals
  <2>3. NSent' = NSent + 1 /\ NSent = call.n + call.k
    BY <2>1, <2>2 DEF NSent
  <2>4. Locals'
    <3>1. call'.n \in Nat /\ call'.k \in Nat /\ call'.n + call'.k <= ReqLen
      BY <2>1, <2>2, SocketAssumption
    <3> QED BY <1>1, <2>1, <2>2, <3>1 DEF Locals, Busy, IsValid
  <2>5. i \in 1 .. ReqLen
    BY <2>2, SocketAssumption
  <2>6. b \in Ask /\ conn' = [conn EXCEPT ![m].out = Append(q, b)]
    BY <1>10, <2>2, <2>5, RequestByte DEF SendByte
  <2>7. m \in 1 .. Conns /\ conn[m] \in ConnRec /\ conn \in [1 .. Conns -> ConnRec]
    BY <1>1, <2>2, OwnSocket DEF Streams
  <2>8. q \in Seq(Ask) /\ Len(q) \in Nat
    BY <2>7, LenProperties DEF ConnRec
  <2>9. Append(q, b) \in Seq(Ask) /\ Len(Append(q, b)) = Len(q) + 1
    BY <2>6, <2>8, AppendProperties
  <2>10. Len(q) + 1 <= Window
    <3> HIDE DEF q
    <3> QED BY <2>2, <2>8, SocketAssumption
  <2>11. /\ conn' \in [1 .. Conns -> ConnRec]
         /\ \A c \in 1 .. Conns : c # m => conn'[c] = conn[c]
         /\ conn'[m].out = Append(q, b) /\ conn'[m].got = conn[m].got
         /\ conn'[m].todo = conn[m].todo /\ conn'[m].in = conn[m].in
         /\ conn'[m].link = conn[m].link
    BY <2>6, <2>7, <2>9 DEF ConnRec
  <2>12. Streams' /\ SameLinks /\ SameSocket
    BY <1>1, <1>10, <2>9, <2>10, <2>11 DEF Streams, SameLinks, SameSocket, SendByte, Empty
  <2>13. ASSUME m \notin failed PROVE Asking(m)'
    <3>1. Asking(m)
      <4>1. ASSUME NEW n, Answering(m, n) PROVE FALSE
        BY <2>2, <2>3, <4>1, SocketAssumption DEF Answering
      <4> QED BY <1>2, <2>7, <2>13, <4>1 DEF PacketInv, Flow
    <3>2. Len(conn[m].got) \in Nat
      BY <2>7, LenProperties DEF ConnRec
    <3>3. OfRequest(q, call.req, Len(conn[m].got)) /\ Len(conn[m].got) + Len(q) = call.n + call.k
      BY <2>3, <3>1 DEF Asking
    <3>4. b = [req |-> call.req, pos |-> Len(conn[m].got) + Len(q) + 1]
      BY <3>3
    <3>5. OfRequest(Append(q, b), call.req, Len(conn[m].got))
      BY <2>2, <2>6, <2>8, <3>2, <3>3, <3>4, Asked
    <3>6. Len(conn[m].got) + Len(Append(q, b)) = NSent'
      <4> DEFINE lg == Len(conn[m].got)
                 lq == Len(q)
                 la == Len(Append(q, b))
      <4>1. lg \in Nat /\ lq \in Nat /\ la = lq + 1 /\ lg + lq = NSent
        BY <2>3, <2>8, <2>9, <3>2, <3>3
      <4> HIDE DEF lg, lq, la
      <4>2. lg + la = NSent'
        BY <2>3, <4>1
      <4> QED BY <4>2 DEF lg, la
    <3> QED BY <2>1, <2>11, <3>1, <3>5, <3>6 DEF Asking
  <2> QED BY <1>2, <1>10, <2>1, <2>4, <2>12, <2>13, GoingOn DEF SendByte, Busy
<1>11. CASE SendStops
  <2>1. ASSUME Short PROVE PacketInv'
    <3>1. CASE Fail(-5)
      BY <1>4, <1>11, <3>1 DEF SendStops
    <3>2. ASSUME NEW at \in {"write", "send"}, NEW left,
                 call' = [call EXCEPT !.n = call.n + call.k, !.k = 0, !.at = at,
                                      !.left = left, !.waited = 0],
                 UNCHANGED <<last, failed>>
          PROVE  PacketInv'
      <4>1. /\ call'.at = at /\ call'.n = call.n + call.k /\ call'.k = 0 /\ call'.buf = call.buf
            /\ call'.req = call.req /\ call'.try = call.try /\ UNCHANGED m_iSocket
        BY <1>1, <1>11, <3>2 DEF SendStops, Field, SameConn, SameSocket
      <4>2. /\ call.at = "send" /\ IsValid /\ call.n \in Nat /\ call.k \in Nat
            /\ call.n + call.k <= ReqLen /\ call.buf = <<>>
        BY <1>1, <1>11 DEF SendStops, Locals
      <4>3. NSent' = NSent /\ call'.n \in Nat /\ call'.n + call'.k <= ReqLen
        <5>1. call.n + call.k \in Nat /\ call.n + call.k + 0 = call.n + call.k
          BY <4>2
        <5>2. NSent = call.n + call.k /\ NSent' = call'.n + call'.k
          BY <4>1, <4>2 DEF NSent
        <5> QED BY <4>1, <4>2, <5>1, <5>2
      <4>4. Locals'
        <5>1. /\ call'.buf \in Seq(Reply) /\ Len(call'.buf) <= rsp_len /\ call'.req \in Nat
              /\ call'.try \in {1, 2}
          BY <1>1, <4>1 DEF Locals
        <5>2. /\ call'.at \in {"write", "send"} /\ call'.at \in Busy /\ call'.k = 0
              /\ call'.k \in Nat /\ call'.buf = <<>> /\ IsValid'
          BY <4>1, <4>2 DEF Busy, IsValid
        <5>3. call'.at # "none" /\ call'.at # "header" /\ call'.at # "body"
          BY <4>1
        <5> QED BY <4>3, <5>1, <5>2, <5>3 DEF Locals
      <4> QED BY <1>5, <1>11, <3>2, <4>1, <4>3, <4>4 DEF SendStops, Busy
    <3>3. CASE ~Timed \/ call.k = 0
      <4> DEFINE at == IF Timed THEN "write" ELSE "send"
      <4>1. /\ call' = [call EXCEPT !.n = call.n + call.k, !.k = 0, !.at = at,
                                   !.left = call.left, !.waited = 0]
            /\ UNCHANGED <<last, failed>>
        BY <1>1, <2>1, <3>3 DEF Short, PacketInv, Inv, CallType, Field
      <4> QED BY <4>1, <3>2
    <3>4. CASE Timed /\ call.k # 0 /\ ~ (call.left - call.nage <= 0)
      BY <2>1, <3>2, <3>4 DEF Short
    <3>5. CASE Timed /\ call.k # 0 /\ call.left - call.nage <= 0
      BY <2>1, <3>1, <3>5 DEF Short
    <3> QED BY <3>3, <3>4, <3>5
  <2> QED BY <1>4, <1>11, <2>1 DEF SendStops
<1> QED BY <1>6, <1>7, <1>8, <1>9, <1>10, <1>11

(* A packet that has been read to its end is the whole answer.             *)
LEMMA WholePacket ==
  ASSUME PacketInv, Receiving, Stream # <<>>, conn' = Taken, SameSocket, m_iSocket \notin failed,
         \A n \in Packs :
           OfAnswer(Read, call.req, 0, n) /\ (call.at = "body" => call.pack = n) => Len(Read) = n
  PROVE  Read = Answer(call.req, Len(Read)) /\ Empty(m_iSocket)'
<1> DEFINE m == m_iSocket
<1>1. /\ Streams' /\ m \in 1 .. Conns /\ Read \in Seq(Reply) /\ Len(Read) \in Nat
      /\ UNCHANGED m_iSocket /\ call.req \in Nat
  BY Taking DEF SameSocket, PacketInv, Locals
<1>2. PICK n \in Packs :
           /\ conn'[m].got = <<>> /\ conn'[m].out = <<>> /\ OfAnswer(Read, call.req, 0, n)
           /\ Len(Read) + Len(conn'[m].in) + Len(conn'[m].todo) <= n
           /\ call.at = "body" => call.pack = n
  BY Taking
<1>3. Len(Read) = n
  BY <1>2
<1>4. Read = Answer(call.req, Len(Read))
  BY <1>1, <1>2, <1>3, WholeAnswer
<1>5. /\ conn'[m].in \in Seq(Reply) /\ conn'[m].todo \in Seq(Reply)
      /\ Len(conn'[m].in) \in Nat /\ Len(conn'[m].todo) \in Nat
  BY <1>1, LenProperties DEF Streams, ConnRec
<1>6. Len(conn'[m].in) = 0 /\ Len(conn'[m].todo) = 0
  <2> DEFINE i == Len(conn'[m].in)
             t == Len(conn'[m].todo)
             l == Len(Read)
  <2>1. l \in Nat /\ i \in Nat /\ t \in Nat /\ l + i + t <= l
    BY <1>1, <1>2, <1>3, <1>5
  <2> HIDE DEF i, t, l
  <2>2. i = 0 /\ t = 0
    BY <2>1
  <2> QED BY <2>2 DEF i, t
<1>7. conn'[m].in = <<>> /\ conn'[m].todo = <<>>
  BY <1>5, <1>6, EmptySeq
<1> QED BY <1>1, <1>2, <1>4, <1>7 DEF Empty

(* The answer is received, or the waiting for it ends.                     *)
LEMMA RecvStep ==
  ASSUME PacketInv, Inv', Recv \/ WaitReadSignal \/ Tick
  PROVE  PacketInv'
<1> DEFINE m == m_iSocket
<1>1. Streams /\ Locals /\ DOMAIN call = Field
  BY Fields DEF PacketInv, Inv
<1>2. ASSUME Receiving PROVE call.at \in Busy /\ NSent = ReqLen
  BY <1>2 DEF Receiving, Busy, NSent
<1>3. ASSUME SameConn PROVE Streams' /\ SameLinks /\ SameSocket
  BY <1>1, <1>3 DEF SameConn, SameSocket, SameLinks, Streams, Empty
<1>4. ASSUME Receiving, SameConn, NEW n \in {0, -1, -2}, Fail(n) PROVE PacketInv'
  BY <1>2, <1>3, <1>4, Failing
<1>5. ASSUME Receiving, Stream # <<>>, conn' = Taken, SameSocket, NEW n \in {-2, -3, -4}, Fail(n)
      PROVE  PacketInv'
  BY <1>2, <1>5, Taking, Failing
<1>6. CASE RecvPart
  <2>1. /\ Receiving /\ Stream # <<>> /\ conn' = Taken /\ SameSocket /\ call.n + Avail < Wanted
        /\ call.at \in Busy
    BY <1>2, <1>6 DEF RecvPart
  <2>2. CASE Timed /\ call.left - call.nage <= 0
    BY <1>5, <1>6, <2>1, <2>2 DEF RecvPart
  <2>3. CASE ~ (Timed /\ call.left - call.nage <= 0)
    <3>1. /\ call'.at = call.at /\ call'.n = call.n + Avail /\ call'.k = call.k
          /\ call'.buf = Read /\ call'.req = call.req /\ call'.try = call.try
          /\ call'.pack = call.pack /\ UNCHANGED <<last, failed, m_iSocket>>
      BY <1>1, <1>6, <2>3 DEF RecvPart, Field, SameSocket
    <3>2. /\ Streams' /\ SameLinks /\ m \in 1 .. Conns /\ Avail \in Nat /\ Read \in Seq(Reply)
          /\ Len(Read) = Len(call.buf) + Avail
      BY <2>1, Taking
    <3>3. /\ Len(Read) <= rsp_len /\ call'.n \in Nat
          /\ call.at = "header" => Len(Read) = call'.n /\ call'.n < hlen
          /\ call.at = "body" => Len(Read) = hlen + call'.n /\ hlen + call'.n < call.pack
      <4>1. call.n \in Nat /\ call'.n = call.n + Avail /\ call'.n < Wanted
        BY <1>1, <2>1, <3>1 DEF Locals
      <4>2. CASE call.at = "header"
        <5>1. Len(call.buf) = call.n /\ Wanted = hlen
          BY <1>1, <4>2 DEF Locals, Wanted
        <5> QED BY <3>2, <4>1, <4>2, <5>1, SocketAssumption
      <4>3. CASE call.at = "body"
        <5> DEFINE b == Len(call.buf)
                   l == Len(Read)
                   n == call.n
                   e == call'.n
                   p == call.pack
                   a == Avail
        <5>1. /\ b = hlen + n /\ Wanted = p - hlen /\ p \in Nat /\ hlen \in Nat
              /\ p <= rsp_len /\ rsp_len \in Nat
          BY <1>1, <4>3, SocketAssumption DEF Locals, Wanted
        <5>2. n \in Nat /\ a \in Nat /\ e = n + a /\ e < Wanted /\ l = b + a
          BY <3>2, <4>1
        <5> HIDE DEF b, l, n, e, p, a
        <5>3. l <= rsp_len /\ e \in Nat /\ l = hlen + e /\ hlen + e < p
          BY <5>1, <5>2
        <5> QED BY <4>3, <5>3 DEF l, e, p
      <4> QED BY <2>1, <4>2, <4>3 DEF Receiving
    <3>4. Locals'
      <4>1. /\ call'.req \in Nat /\ call'.try \in {1, 2} /\ call'.k \in Nat
            /\ call'.at \in {"header", "body"} /\ call'.at \in Busy
            /\ call'.at = "body" => call'.pack \in Packs /\ call'.pack <= rsp_len
        BY <1>1, <2>1, <3>1 DEF Locals, Receiving, Busy
      <4>2. /\ call'.at # "none" /\ call'.at # "write" /\ call'.at \notin {"write", "send"}
            /\ IsValid'
        BY <1>1, <3>1, <3>2, <4>1, OwnSocket DEF IsValid
      <4> QED BY <3>1, <3>2, <3>3, <4>1, <4>2 DEF Locals
    <3>5. ASSUME m \notin failed PROVE \E n \in Packs : Answering(m, n)'
      <4>1. NSent' = ReqLen
        BY <2>1, <3>1 DEF NSent, Receiving
      <4> QED BY <2>1, <3>1, <3>5, <4>1, Taking DEF Answering
    <3> QED BY <2>1, <3>1, <3>2, <3>4, <3>5, GoingOn
  <2> QED BY <2>2, <2>3
<1>7. CASE RecvHeader
  <2>1. /\ Receiving /\ Stream # <<>> /\ conn' = Taken /\ SameSocket /\ call.n + Avail = Wanted
        /\ call.at \in Busy /\ call.at = "header"
    BY <1>2, <1>7 DEF RecvHeader, Receiving
  <2>2. /\ Streams' /\ SameLinks /\ m \in 1 .. Conns /\ Read \in Seq(Reply)
        /\ Len(Read) = hlen /\ Read[1] \in Reply
    <3>1. Len(call.buf) = call.n /\ Wanted = hlen
      BY <1>1, <2>1 DEF Locals, Wanted
    <3> QED BY <2>1, <3>1, Taking
  <2>3. hlen <= rsp_len /\ hlen \in Nat \ {0}
    BY SocketAssumption
  <2>4. CASE call.timeout > 0 /\ BodyTime < 0
    BY <1>5, <1>7, <2>1, <2>4 DEF RecvHeader
  <2>5. ASSUME NEW pack \in pf(Read),
               \/ pack <= 0 /\ Fail(-3)
               \/ pack = hlen /\ Succeed(Read)
               \/ pack > hlen /\ ~Fits(pack) /\ Fail(-4)
               \/ /\ pack > hlen /\ Fits(pack)
                  /\ call' = [call EXCEPT !.at = "body", !.buf = Read, !.pack = pack,
                                          !.n = 0, !.left = BodyTime, !.nage = 0,
                                          !.waited = 0]
                  /\ UNCHANGED <<last, failed>>
        PROVE  PacketInv'
    <3>1. pack \in {0} \cup Packs
      BY <2>2 DEF pf, Reply
    <3>2. ASSUME NEW n \in Packs, OfAnswer(Read, call.req, 0, n) PROVE pack = n
      <4>1. Read[1] = [req |-> call.req, pos |-> 0 + 1, len |-> n]
        BY <2>2, <2>3, <3>2 DEF OfAnswer
      <4> QED BY <4>1 DEF pf
    <3>3. CASE Fail(-3) \/ Fail(-4)
      BY <1>5, <2>1, <3>3
    <3>4. CASE pack = hlen /\ Succeed(Read)
      <4>1. ASSUME m \notin failed PROVE Read = Answer(call.req, Len(Read)) /\ Empty(m)'
        BY <2>1, <2>2, <3>2, <3>4, <4>1, WholePacket
      <4> QED BY <2>1, <2>2, <2>3, <3>4, <4>1, Succeeding
    <3>5. CASE /\ pack > hlen /\ Fits(pack)
               /\ call' = [call EXCEPT !.at = "body", !.buf = Read, !.pack = pack, !.n = 0,
                                       !.left = BodyTime, !.nage = 0, !.waited = 0]
               /\ UNCHANGED <<last, failed>>
      <4>1. /\ call'.at = "body" /\ call'.n = 0 /\ call'.k = call.k
            /\ call'.buf = Read /\ call'.req = call.req /\ call'.try = call.try
            /\ call'.pack = pack /\ UNCHANGED <<last, failed, m_iSocket>>
        BY <1>1, <2>1, <3>5 DEF Field, SameSocket
      <4>2. pack \in Packs /\ pack <= rsp_len /\ hlen + 0 < pack
        BY <2>3, <3>1, <3>5, SocketAssumption DEF Fits
      <4>3. Locals'
        <5>1. /\ call'.req \in Nat /\ call'.try \in {1, 2} /\ call'.k \in Nat
              /\ call'.at \in Busy /\ IsValid'
          BY <1>1, <2>2, <4>1, OwnSocket DEF Locals, Busy, IsValid
        <5> QED BY <2>2, <2>3, <4>1, <4>2, <5>1 DEF Locals
      <4>4. ASSUME m \notin failed PROVE \E n \in Packs : Answering(m, n)'
        <5>1. NSent' = ReqLen
          BY <4>1 DEF NSent
        <5> QED BY <2>1, <3>2, <4>1, <4>4, <5>1, Taking DEF Answering
      <4>5. call'.at \in Busy
        BY <4>1 DEF Busy
      <4> QED BY <2>1, <2>2, <4>1, <4>3, <4>4, <4>5, GoingOn
    <3> QED BY <2>5, <3>3, <3>4, <3>5
  <2> QED BY <1>7, <2>4, <2>5 DEF RecvHeader
<1>8. CASE RecvBody
  <2>1. /\ Receiving /\ Stream # <<>> /\ conn' = Taken /\ SameSocket /\ call.n + Avail = Wanted
        /\ call.at \in Busy /\ call.at = "body" /\ Succeed(Read)
    BY <1>2, <1>8 DEF RecvBody, Receiving
  <2>2. /\ Streams' /\ SameLinks /\ m \in 1 .. Conns /\ Read \in Seq(Reply)
        /\ Avail \in Nat /\ Len(Read) = Len(call.buf) + Avail
    BY <2>1, Taking
  <2>3. Len(Read) = call.pack /\ call.pack <= rsp_len
    <3>1. /\ Len(call.buf) = hlen + call.n /\ Wanted = call.pack - hlen /\ call.pack \in Nat
          /\ hlen \in Nat /\ call.n \in Nat /\ call.pack <= rsp_len
      BY <1>1, <2>1, SocketAssumption DEF Locals, Wanted
    <3> QED BY <2>1, <2>2, <3>1
  <2>4. ASSUME m \notin failed PROVE Read = Answer(call.req, Len(Read)) /\ Empty(m)'
    BY <2>1, <2>3, <2>4, WholePacket
  <2> QED BY <2>1, <2>2, <2>3, <2>4, Succeeding
<1>9. CASE RecvEnd \/ WaitReadExpires \/ WaitReadSignal
  BY <1>4, <1>9 DEF RecvEnd, WaitReadExpires, WaitReadSignal
<1>10. CASE Tick
  <2>1. /\ call'.at = call.at /\ call'.n = call.n /\ call'.k = call.k /\ call'.buf = call.buf
        /\ call'.req = call.req /\ call'.try = call.try /\ call'.pack = call.pack
        /\ call.at \in Busy /\ UNCHANGED <<last, failed, m_iSocket, conn>> /\ SameConn
    BY <1>1, <1>10 DEF Tick, Waits, Field, Busy, Receiving, SameConn, SameSocket
  <2>2. Locals'
    BY <1>1, <2>1 DEF Locals, IsValid, NSent, Busy
  <2>3. ASSUME m \in 1 .. Conns, m \notin failed
        PROVE  Asking(m)' \/ \E n \in Packs : Answering(m, n)'
    <3>1. Asking(m) \/ \E n \in Packs : Answering(m, n)
      BY <2>1, <2>3 DEF PacketInv, Flow
    <3>2. CASE Asking(m)
      BY <2>1, <3>2 DEF Asking, NSent
    <3>3. ASSUME NEW n \in Packs, Answering(m, n) PROVE Answering(m, n)'
      BY <2>1, <3>3 DEF Answering, NSent
    <3> QED BY <3>1, <3>2, <3>3
  <2> QED BY <1>3, <2>1, <2>2, <2>3, GoingOn
<1> QED BY <1>6, <1>7, <1>8, <1>9, <1>10 DEF Recv

(* What the server does with a connection: k is what it makes of it.       *)
LEMMA ServerMakes ==
  ASSUME PacketInv, Inv', Same, NEW c \in 1 .. Conns, c = m_iSocket,
         NEW k \in ConnRec, conn' = [conn EXCEPT ![c] = k], k.link # "none",
         Len(k.out) <= Window, Len(k.got) < ReqLen,
         c \notin failed =>
           /\ call.at = "idle" => Empty(c)'
           /\ call.at \in Busy => Asking(c)' \/ \E n \in Packs : Answering(c, n)'
  PROVE  PacketInv'
<1>1. /\ conn \in [1 .. Conns -> ConnRec] /\ conn' \in [1 .. Conns -> ConnRec] /\ conn'[c] = k
      /\ \A d \in 1 .. Conns : d # c => conn'[d] = conn[d]
      /\ UNCHANGED <<m_iSocket, m_PeerAddr, open, call, last, failed>>
  BY DEF PacketInv, Streams, Same
<1>2. Streams'
  BY <1>1 DEF PacketInv, Streams, Empty
<1>3. Locals'
  BY <1>1 DEF PacketInv, Locals, NSent, IsValid, Busy
<1>4. Failures'
  BY <1>1 DEF PacketInv, Failures, Busy
<1>5. Flow'
  BY <1>1 DEF Flow, Busy
<1>6. Results'
  BY <1>1 DEF PacketInv, Results, OwnAnswer
<1> QED BY <1>2, <1>3, <1>4, <1>5, <1>6 DEF PacketInv

LEMMA ServerStep ==
  ASSUME PacketInv, Inv', NEW c \in 1 .. Conns, Server(c)
  PROVE  PacketInv'
<1> DEFINE r == conn[c]
           q == r.out
           g == r.got
<1>1. /\ r \in ConnRec /\ conn \in [1 .. Conns -> ConnRec] /\ Len(q) <= Window /\ Len(g) < ReqLen
      /\ call.req \in Nat
  BY DEF PacketInv, Streams, Locals
<1>2. c = m_iSocket
  BY DEF PacketInv, Streams, Server, ServerRead, ServerWrite, ServerCloses, ServerRefuses
<1>3. /\ q \in Seq(Ask) /\ g \in Seq(Ask) /\ r.todo \in Seq(Reply) /\ r.in \in Seq(Reply)
      /\ Len(q) \in Nat /\ Len(g) \in Nat
  BY <1>1, LenProperties DEF ConnRec
<1>4. c \notin failed =>
        /\ call.at = "idle" => Empty(c)
        /\ call.at \in Busy => Asking(c) \/ \E n \in Packs : Answering(c, n)
  BY <1>2 DEF PacketInv, Flow
<1>5. CASE ServerRead(c)
  <2> DEFINE h == Head(q)
             w == Append(g, h)
  <2>1. /\ q # <<>> /\ r.link = "up" /\ Same
        /\ \/ /\ Len(w) < ReqLen
              /\ conn' = [conn EXCEPT ![c] = [r EXCEPT !.out = Tail(q), !.got = w]]
           \/ /\ w = Request(w[1].req)
              /\ \E n \in Packs :
                   conn' = [conn EXCEPT ![c] = [r EXCEPT !.out = Tail(q), !.got = <<>>,
                                                        !.todo = r.todo \o Answer(w[1].req, n)]]
           \/ /\ Len(w) = ReqLen /\ w # Request(w[1].req)
              /\ conn' = [conn EXCEPT ![c] = [r EXCEPT !.out = Tail(q), !.got = <<>>,
                                                       !.link = "shut", !.todo = <<>>]]
    BY <1>1, <1>5, ZenonT(60) DEF ServerRead, ConnRec
  <2>2. h \in Ask /\ Tail(q) \in Seq(Ask) /\ Len(Tail(q)) = Len(q) - 1 /\ Len(q) # 0
    BY <1>3, <2>1, HeadTailProperties, EmptySeq
  <2>3. /\ w \in Seq(Ask) /\ Len(w) = Len(g) + 1 /\ w # <<>>
        /\ w[1] \in Ask
    <3>1. w \in Seq(Ask) /\ Len(w) = Len(g) + 1 /\ w # <<>>
      BY <1>3, <2>2, AppendProperties
    <3>2. 1 \in 1 .. Len(w)
      BY <1>3, <3>1
    <3> QED BY <3>1, <3>2, ElementOfSeq
  <2>4. Len(Tail(q)) <= Window /\ 0 < ReqLen
    <3> DEFINE t == Len(Tail(q))
               l == Len(q)
    <3>1. t = l - 1 /\ l \in Nat /\ l <= Window
      BY <1>1, <1>3, <2>2
    <3> HIDE DEF t, l
    <3>2. t <= Window /\ 0 < ReqLen
      BY <3>1, SocketAssumption
    <3> QED BY <3>2 DEF t
  <2>5. <<>> \in Seq(Ask) /\ <<>> \in Seq(Reply) /\ Len(<<>>) = 0
    BY EmptySeq
  <2>6. ~ (c \notin failed /\ call.at = "idle")
    BY <1>4, <2>1 DEF Empty
  (* The request that is under way, with one more byte of it read.         *)
  <2>7. ASSUME c \notin failed, call.at \in Busy
        PROVE  /\ Asking(c) /\ OfRequest(w, call.req, 0) /\ OfRequest(Tail(q), call.req, Len(w))
               /\ Len(w) + Len(Tail(q)) = NSent /\ NSent <= ReqLen
               /\ w[1].req = call.req
    <3>1. Asking(c)
      BY <1>4, <2>1, <2>7 DEF Answering
    <3>2. h = [req |-> call.req, pos |-> Len(g) + 1] /\ OfRequest(Tail(q), call.req, Len(g) + 1)
      BY <1>1, <1>3, <2>1, <3>1, HeadAsked DEF Asking
    <3>3. OfRequest(w, call.req, 0)
      <4>1. h = [req |-> call.req, pos |-> 0 + Len(g) + 1]
        BY <1>3, <3>2
      <4>2. OfRequest(g, call.req, 0)
        BY <3>1 DEF Asking
      <4> HIDE DEF h
      <4> QED BY <1>1, <1>3, <2>2, <4>1, <4>2, Asked
    <3>4. Len(w) + Len(Tail(q)) = NSent
      <4> DEFINE t == Len(Tail(q))
                 l == Len(q)
                 lg == Len(g)
                 lw == Len(w)
      <4>1. t = l - 1 /\ l \in Nat /\ lg \in Nat /\ lw = lg + 1 /\ lg + l = NSent
        BY <1>3, <2>2, <2>3, <3>1 DEF Asking
      <4> HIDE DEF t, l, lg, lw
      <4>2. lw + t = NSent
        BY <4>1
      <4> QED BY <4>2 DEF t, lw
    <3>5. NSent <= ReqLen
      BY SocketAssumption DEF PacketInv, Locals, NSent
    <3>6. w[1] = [req |-> call.req, pos |-> 0 + 1]
      <4>1. 1 \in 1 .. Len(w)
        BY <1>3, <2>3
      <4> QED BY <3>3, <4>1 DEF OfRequest
    <3>7. OfRequest(Tail(q), call.req, Len(w))
      BY <2>3, <3>2
    <3> HIDE DEF w
    <3>8. w[1].req = call.req
      BY <3>6
    <3> QED BY <3>1, <3>3, <3>4, <3>5, <3>7, <3>8
  <2> HIDE DEF w
  <2>8. CASE Len(w) < ReqLen /\ conn' = [conn EXCEPT ![c] = [r EXCEPT !.out = Tail(q), !.got = w]]
    <3> DEFINE k == [r EXCEPT !.out = Tail(q), !.got = w]
    <3>1. /\ k \in ConnRec /\ k.link = r.link /\ k.out = Tail(q) /\ k.got = w
          /\ k.todo = r.todo /\ k.in = r.in
      BY <1>1, <2>2, <2>3 DEF ConnRec
    <3>2. conn' = [conn EXCEPT ![c] = k] /\ conn'[c] = k /\ Len(w) < ReqLen
      BY <1>1, <2>8
    <3> HIDE DEF k
    <3>3. ASSUME c \notin failed, call.at \in Busy PROVE Asking(c)'
      BY <2>1, <2>7, <3>1, <3>2, <3>3 DEF Asking, Same, NSent
    <3>4. k.link # "none" /\ Len(k.out) <= Window /\ Len(k.got) < ReqLen /\ Same
      BY <2>1, <2>4, <3>1, <3>2
    <3> QED BY <1>2, <2>6, <3>1, <3>2, <3>3, <3>4, ServerMakes
  <2>9. ASSUME NEW n \in Packs, w = Request(w[1].req),
               conn' = [conn EXCEPT ![c] = [r EXCEPT !.out = Tail(q), !.got = <<>>,
                                                    !.todo = r.todo \o Answer(w[1].req, n)]]
        PROVE  PacketInv'
    <3> DEFINE a == Answer(w[1].req, n)
               k == [r EXCEPT !.out = Tail(q), !.got = <<>>, !.todo = r.todo \o a]
    <3>1. w[1].req \in Nat
      BY <2>3 DEF Ask
    <3>2. a \in Seq(Reply) /\ Len(a) = n /\ OfAnswer(a, w[1].req, 0, n)
      BY <3>1, NewAnswer
    <3>3. r.todo \o a \in Seq(Reply)
      BY <1>3, <3>2, ConcatProperties
    <3> HIDE DEF a
    <3>4. /\ k \in ConnRec /\ k.link = r.link /\ k.out = Tail(q) /\ k.got = <<>>
          /\ k.todo = r.todo \o a /\ k.in = r.in
      BY <1>1, <2>2, <2>5, <3>3 DEF ConnRec
    <3>5. conn' = [conn EXCEPT ![c] = k] /\ conn'[c] = k
      BY <1>1, <2>9 DEF a
    <3> HIDE DEF k
    <3>6. Len(w) = ReqLen
      BY <2>9, SocketAssumption DEF Request
    <3>7. ASSUME c \notin failed, call.at \in Busy PROVE Answering(c, n)'
      <4>1. /\ r.todo = <<>> /\ r.in = <<>> /\ call.buf = <<>> /\ w[1].req = call.req
            /\ UNCHANGED call
        BY <2>1, <2>7, <3>7 DEF Asking, Same
      <4>2. Len(Tail(q)) = 0 /\ NSent = ReqLen
        <5> DEFINE t == Len(Tail(q))
                   lw == Len(w)
        <5>1. t \in Nat /\ lw = ReqLen /\ lw + t = NSent /\ NSent <= ReqLen
          BY <2>2, <2>7, <3>6, <3>7, LenProperties
        <5> HIDE DEF t, lw
        <5>2. t = 0 /\ NSent = ReqLen
          BY <5>1, SocketAssumption
        <5> QED BY <5>2 DEF t
      <4>3. Tail(q) = <<>>
        BY <2>2, <4>2, EmptySeq
      <4>4. call.at # "body"
        BY <2>5, <4>1, SocketAssumption DEF PacketInv, Locals
      <4>5. k.todo = a
        BY <3>2, <3>4, <4>1, ConcatEmptySeq
      <4>6. NSent' = ReqLen
        BY <4>1, <4>2 DEF NSent
      <4>7. \A s \in Nat : OfAnswer(<<>>, call.req, s, n)
        BY <2>5 DEF OfAnswer
      <4>8. n \in Nat
        BY SocketAssumption
      <4>9. /\ conn'[c].got = <<>> /\ conn'[c].out = <<>> /\ conn'[c].in = <<>>
            /\ conn'[c].todo = a /\ call'.buf = <<>> /\ call'.req = call.req /\ call'.at # "body"
        BY <3>4, <3>5, <4>1, <4>3, <4>4, <4>5
      <4>10. OfAnswer(a, call.req, 0 + 0, n) /\ 0 + 0 + n <= n /\ 0 \in Nat
        BY <3>2, <4>1, <4>8
      <4> QED BY <2>5, <3>2, <4>6, <4>7, <4>9, <4>10 DEF Answering
    <3> QED BY <1>2, <2>1, <2>4, <2>5, <2>6, <3>4, <3>5, <3>7, ServerMakes
  <2>10. CASE /\ Len(w) = ReqLen /\ w # Request(w[1].req)
              /\ conn' = [conn EXCEPT ![c] = [r EXCEPT !.out = Tail(q), !.got = <<>>,
                                                      !.link = "shut", !.todo = <<>>]]
    <3> DEFINE k == [r EXCEPT !.out = Tail(q), !.got = <<>>, !.link = "shut", !.todo = <<>>]
    <3>1. /\ k \in ConnRec /\ k.link = "shut" /\ k.out = Tail(q) /\ k.got = <<>>
      BY <1>1, <2>2, <2>5 DEF ConnRec, Links
    <3>2. conn' = [conn EXCEPT ![c] = k]
      BY <2>10
    <3> HIDE DEF k
    <3>3. ~ (c \notin failed /\ call.at \in Busy)
      BY <1>1, <2>3, <2>7, <2>10, WholeRequest
    <3> QED BY <1>2, <2>1, <2>4, <2>5, <2>6, <3>1, <3>2, <3>3, ServerMakes
  <2> QED BY <2>1, <2>8, <2>9, <2>10
<1>6. CASE ServerWrite(c)
  <2> DEFINE d == r.todo
             h == Head(d)
             i == r.in
             k == [r EXCEPT !.in = Append(i, h), !.todo = Tail(d)]
  <2>1. d # <<>> /\ r.link = "up" /\ Same /\ conn' = [conn EXCEPT ![c] = k]
    BY <1>1, <1>6 DEF ServerWrite, ConnRec
  <2>2. /\ h \in Reply /\ Tail(d) \in Seq(Reply) /\ Len(Tail(d)) = Len(d) - 1
        /\ Len(d) \in Nat \ {0}
    BY <1>3, <2>1, HeadTailProperties, EmptySeq
  <2>3. Append(i, h) \in Seq(Reply) /\ Len(Append(i, h)) = Len(i) + 1 /\ Len(i) \in Nat
    BY <1>3, <2>2, AppendProperties, LenProperties
  <2>4. /\ k \in ConnRec /\ k.link = r.link /\ k.out = q /\ k.got = g
        /\ k.in = Append(i, h) /\ k.todo = Tail(d)
    BY <1>1, <2>2, <2>3 DEF ConnRec
  <2>5. conn'[c] = k
    BY <1>1, <2>1
  <2> HIDE DEF k
  <2>6. ~ (c \notin failed /\ call.at = "idle")
    BY <1>4, <2>1 DEF Empty
  <2>7. ASSUME c \notin failed, call.at \in Busy PROVE \E n \in Packs : Answering(c, n)'
    <3>1. PICK n \in Packs : Answering(c, n)
      BY <1>4, <2>1, <2>7 DEF Asking
    <3>2. UNCHANGED call /\ NSent' = NSent
      BY <2>1 DEF Same, NSent
    <3> DEFINE lb == Len(call.buf)
               li == Len(i)
               ld == Len(d)
               lt == Len(Tail(d))
               la == Len(Append(i, h))
    <3>3. lb \in Nat
      BY LenProperties DEF PacketInv, Locals
    <3>4. OfAnswer(d, call.req, lb + li, n) /\ OfAnswer(i, call.req, lb, n) /\ lb + li + ld <= n
      BY <3>1 DEF Answering
    <3>5. li \in Nat /\ ld \in Nat /\ lt = ld - 1 /\ la = li + 1
      BY <2>2, <2>3
    <3>6. lb + li \in Nat /\ n \in Nat
      <4>1. n \in Nat
        BY SocketAssumption
      <4> HIDE DEF lb, li
      <4> QED BY <3>3, <3>5, <4>1
    <3>7. /\ h = [req |-> call.req, pos |-> lb + li + 1, len |-> n]
          /\ OfAnswer(Tail(d), call.req, lb + li + 1, n)
      <4> DEFINE o == lb + li
      <4>1. d \in Seq(Reply) /\ d # <<>> /\ o \in Nat /\ call.req \in Nat
        BY <1>1, <1>3, <2>1, <3>6
      <4>2. OfAnswer(d, call.req, o, n)
        BY <3>4
      <4> HIDE DEF d, o
      <4>3. /\ Head(d) = [req |-> call.req, pos |-> o + 1, len |-> n]
            /\ OfAnswer(Tail(d), call.req, o + 1, n)
        BY <4>1, <4>2, HeadWritten
      <4> QED BY <4>3 DEF o, d
    <3>8. OfAnswer(Append(i, h), call.req, lb, n)
      <4> HIDE DEF h, lb
      <4> QED BY <1>1, <1>3, <2>2, <3>3, <3>4, <3>7, Written
    <3>9. lb + la = lb + li + 1 /\ lb + la + lt <= n
      <4> HIDE DEF lb, li, ld, lt, la
      <4> QED BY <3>3, <3>4, <3>5, <3>6
    <3>10. OfAnswer(Tail(d), call.req, lb + la, n)
      BY <3>7, <3>9
    <3> QED BY <2>4, <2>5, <3>1, <3>2, <3>4, <3>8, <3>9, <3>10 DEF Answering
  <2> QED BY <1>1, <1>2, <2>1, <2>4, <2>6, <2>7, ServerMakes
<1>7. CASE ServerCloses(c)
  <2>1. PICK l \in {"shut", "reset"} :
             Same /\ conn' = [conn EXCEPT ![c] = [r EXCEPT !.link = l, !.todo = <<>>]]
    BY <1>1, <1>7 DEF ServerCloses
  <2> DEFINE k == [r EXCEPT !.link = l, !.todo = <<>>]
  <2>2. /\ k \in ConnRec /\ k.link # "none" /\ k.out = q /\ k.got = g
        /\ k.in = r.in /\ k.todo = <<>>
    BY <1>1, EmptySeq DEF ConnRec, Links
  <2>3. conn' = [conn EXCEPT ![c] = k] /\ conn'[c] = k
    BY <1>1, <2>1
  <2> HIDE DEF k
  <2>4. UNCHANGED call /\ NSent' = NSent
    BY <2>1 DEF Same, NSent
  <2>5. ASSUME Asking(c) PROVE Asking(c)'
    BY <2>2, <2>3, <2>4, <2>5 DEF Asking
  <2>6. ASSUME NEW n \in Packs, Answering(c, n) PROVE Answering(c, n)'
    <3>1. /\ Len(call.buf) \in Nat /\ Len(r.in) \in Nat /\ Len(r.todo) \in Nat
          /\ n \in Nat /\ Len(<<>>) = 0
      BY <1>3, LenProperties, EmptySeq, SocketAssumption DEF PacketInv, Locals
    <3> DEFINE lb == Len(call.buf)
               li == Len(r.in)
               ld == Len(r.todo)
    <3>2. lb + li + ld <= n
      BY <2>6 DEF Answering
    <3>3. lb + li + 0 <= n
      <4>1. lb \in Nat /\ li \in Nat /\ ld \in Nat /\ n \in Nat
        BY <3>1
      <4> HIDE DEF lb, li, ld
      <4> QED BY <3>2, <4>1
    <3>4. OfAnswer(<<>>, call.req, lb + li, n)
      BY <3>1 DEF OfAnswer
    <3> QED BY <2>2, <2>3, <2>4, <2>6, <3>1, <3>3, <3>4 DEF Answering
  <2>7. Empty(c) => Empty(c)'
    BY <2>2, <2>3 DEF Empty
  <2>8. c \notin failed =>
          /\ call.at = "idle" => Empty(c)'
          /\ call.at \in Busy => Asking(c)' \/ \E n \in Packs : Answering(c, n)'
    BY <1>4, <2>5, <2>6, <2>7
  <2>9. Same /\ Len(k.out) <= Window /\ Len(k.got) < ReqLen
    BY <1>1, <2>1, <2>2
  <2> QED BY <1>2, <2>2, <2>3, <2>8, <2>9, ServerMakes
<1>8. CASE ServerRefuses(c)
  <2> DEFINE k == [r EXCEPT !.link = "reset"]
  <2>1. Same /\ conn' = [conn EXCEPT ![c] = k] /\ conn'[c] = k
    BY <1>1, <1>8 DEF ServerRefuses
  <2>2. /\ k \in ConnRec /\ k.link # "none" /\ k.out = q /\ k.got = g
        /\ k.in = r.in /\ k.todo = r.todo
    BY <1>1 DEF ConnRec, Links
  <2> HIDE DEF k
  <2>3. UNCHANGED call /\ NSent' = NSent
    BY <2>1 DEF Same, NSent
  <2>4. /\ Empty(c) => Empty(c)'
        /\ Asking(c) => Asking(c)'
    BY <2>1, <2>2, <2>3 DEF Empty, Asking
  <2>5. ASSUME NEW n \in Packs, Answering(c, n) PROVE Answering(c, n)'
    BY <2>1, <2>2, <2>3, <2>5 DEF Answering
  <2> QED BY <1>1, <1>2, <1>4, <2>1, <2>2, <2>4, <2>5, ServerMakes
<1> QED BY <1>5, <1>6, <1>7, <1>8 DEF Server

LEMMA PacketNext == PacketInv /\ [Next]_vars => PacketInv'
<1> SUFFICES ASSUME PacketInv, [Next]_vars PROVE PacketInv'
  OBVIOUS
<1>1. Inv'
  BY NextInv DEF PacketInv
<1>2. CASE UNCHANGED vars
  <2>1. UNCHANGED <<m_iSocket, m_PeerAddr, conn, call, last, failed>>
    BY <1>2 DEF vars
  <2>2. Streams' /\ Locals' /\ Failures'
    <3>1. Streams'
      BY <2>1 DEF PacketInv, Streams, Empty
    <3>2. Locals'
      BY <2>1 DEF PacketInv, Locals, NSent, IsValid
    <3>3. Failures'
      BY <2>1 DEF PacketInv, Failures
    <3> QED BY <3>1, <3>2, <3>3
  <2>3. Results'
    BY <2>1 DEF PacketInv, Results, OwnAnswer
  <2>4. Flow'
    <3>1. NSent' = NSent
      BY <2>1 DEF NSent
    <3>2. \A c \in 1 .. Conns : (Empty(c) => Empty(c)') /\ (Asking(c) => Asking(c)')
      BY <2>1, <3>1 DEF Empty, Asking
    <3>3. \A c \in 1 .. Conns, n \in Packs : Answering(c, n) => Answering(c, n)'
      BY <2>1, <3>1 DEF Answering
    <3> QED BY <2>1, <3>2, <3>3 DEF PacketInv, Flow, Busy
  <2> QED BY <1>1, <2>2, <2>3, <2>4 DEF PacketInv
<1>3. ASSUME NEW c \in 1 .. Conns, Server(c) PROVE PacketInv'
  BY <1>1, <1>3, ServerStep
<1> QED BY <1>1, <1>2, <1>3, UserStep, SendStep, RecvStep DEF Next, Client

LEMMA Packets == Spec => []PacketInv
BY PacketInit, PacketNext, PTL DEF Spec

(* The types, and the bounds that the code is trusted to keep: an answer   *)
(* never runs over the caller's buffer, whatever length of 0 or of at least*)
(* a header its header claims, and whatever is left in the stream of a     *)
(* connection that has failed.  Lengths from 1 to hlen - 1, with which the *)
(* body's length would wrap, are excluded by SocketAssumption.             *)
THEOREM TypeCorrect == Spec => []TypeOK
<1>1. PacketInv /\ OneDescriptor => TypeOK
  <2> SUFFICES ASSUME PacketInv, OneDescriptor PROVE TypeOK
    OBVIOUS
  <2>1. open \subseteq 1 .. Conns
    <3>1. \A c \in open : c = m_iSocket /\ IsValid
      BY DEF OneDescriptor, IsValid
    <3>2. IsValid => m_iSocket \in 1 .. Conns
      BY OwnSocket DEF PacketInv
    <3> QED BY <3>1, <3>2
  <2>2. \A c \in 1 .. Conns :
          /\ conn[c].link \in {"none", "new", "up", "shut", "reset", "gone"}
          /\ Len(conn[c].out) <= Window /\ Len(conn[c].got) < ReqLen
    BY DEF PacketInv, Streams, ConnRec, Links
  <2>3. call.at \in {"none", "idle", "write", "send", "header", "body", "again"}
    BY DEF PacketInv, Locals, Busy
  <2> QED BY <2>1, <2>2, <2>3 DEF PacketInv, Streams, Locals, Failures, Results, TypeOK
<1> QED BY Packets, NoDescriptorLost, <1>1, PTL

(* The server never reads a mixture of two requests, or a request with a   *)
(* hole or a repetition, on a connection where no attempt has failed:      *)
(* Framed of the socket run, for requests of any length, windows of any    *)
(* size, and any number of short sends, signals and closes.                *)
THEOREM Framing == Spec => []Framed
<1>1. PacketInv => Framed
  <2> SUFFICES ASSUME PacketInv, NEW c \in (1 .. Conns) \ failed,
                      NEW i \in DOMAIN (conn[c].got \o conn[c].out)
               PROVE  (conn[c].got \o conn[c].out)[i]
                        = [req |-> (conn[c].got \o conn[c].out)[1].req, pos |-> i]
    BY DEF Framed
  <2> DEFINE g == conn[c].got
             q == conn[c].out
             w == g \o q
  <2>1. g \in Seq(Ask) /\ q \in Seq(Ask) /\ Len(g) \in Nat /\ Len(q) \in Nat
    BY LenProperties DEF PacketInv, Streams, ConnRec
  <2>2. /\ w \in Seq(Ask) /\ Len(w) = Len(g) + Len(q)
        /\ \A j \in 1 .. Len(g) + Len(q) : w[j] = IF j <= Len(g) THEN g[j] ELSE q[j - Len(g)]
    BY <2>1, ConcatProperties
  <2>3. i \in 1 .. Len(g) + Len(q)
    BY <2>2, LenProperties
  <2>4. OfRequest(g, call.req, 0) /\ OfRequest(q, call.req, Len(g))
    <3>1. ASSUME Len(g) = 0, Len(q) = 0 PROVE FALSE
      BY <2>3, <3>1
    <3>2. ~ (g = <<>> /\ q = <<>>)
      BY <3>1, EmptySeq
    <3>3. c = m_iSocket /\ ~Empty(c)
      BY <3>2 DEF PacketInv, Streams, Empty
    <3>4. call.at \in Busy
      BY <3>3, SocketAssumption DEF PacketInv, Flow, Locals, Failures, INVALID_SOCKET
    <3>5. Asking(c)
      BY <3>2, <3>3, <3>4 DEF PacketInv, Flow, Answering
    <3> QED BY <3>5 DEF Asking
  <2> HIDE DEF g, q, w
  <2>5. \A j \in 1 .. Len(g) + Len(q) : w[j] = [req |-> call.req, pos |-> j]
    <3> SUFFICES ASSUME NEW j \in 1 .. Len(g) + Len(q) PROVE w[j] = [req |-> call.req, pos |-> j]
      OBVIOUS
    <3>1. CASE j <= Len(g)
      <4>1. j \in 1 .. Len(g) /\ 0 + j = j /\ w[j] = g[j]
        BY <2>1, <2>2, <3>1
      <4> QED BY <2>4, <4>1 DEF OfRequest
    <3>2. CASE ~ (j <= Len(g))
      <4>1. j - Len(g) \in 1 .. Len(q) /\ Len(g) + (j - Len(g)) = j /\ w[j] = q[j - Len(g)]
        BY <2>1, <2>2, <3>2
      <4> QED BY <2>4, <4>1 DEF OfRequest
    <3> QED BY <3>1, <3>2
  <2>6. 1 \in 1 .. Len(g) + Len(q)
    BY <2>1, <2>3
  <2>7. w[1].req = call.req
    <3>1. w[1] = [req |-> call.req, pos |-> 1]
      BY <2>5, <2>6
    <3> QED BY <3>1
  <2> QED BY <2>3, <2>5, <2>7 DEF w, g, q
<1> QED BY Packets, <1>1, PTL

(* What a call returns is the whole answer to its own request, or it was   *)
(* the first try on a connection that a failed call had left in use:       *)
(* OwnAnswer of the socket run, for answers and time-outs of any length    *)
(* and any order of short reads, signals, closes and second tries.         *)
THEOREM AnswersOwn == Spec => []OwnAnswer
<1>1. PacketInv => OwnAnswer
  BY DEF PacketInv, Results
<1> QED BY Packets, <1>1, PTL

=============================================================================
