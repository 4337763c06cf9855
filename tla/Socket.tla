------------------------------- MODULE Socket --------------------------------
(***************************************************************************)
(* CBaseSocket and CTcpClient (net/base_socket.h, base_socket.cpp): a      *)
(* client that sends requests to a server and reads its answers from one   *)
(* TCP connection, with time-outs, signals, a server that closes or resets *)
(* the connection at any time, and a second try on a new connection.       *)
(*                                                                         *)
(* Only the client's thread uses the object; the server, the two streams   *)
(* of a connection and the clock are the other actors.  The client's own   *)
(* steps take no time: the clock moves while it waits in select or send.   *)
(***************************************************************************)
EXTENDS Integers, Sequences

CONSTANTS
  Requests,     \* bound: the calls of the client are numbered 1 .. Requests
  Conns,        \* bound: the connections are numbered 1 .. Conns
  ReqLen,       \* the bytes of a request
  hlen,         \* the bytes of an answer's header
  Packs,        \* the lengths of answers, with their header
  rsp_len,      \* the size of the caller's buffer
  Timeouts,     \* the time-outs calls are made with; negative: none
  Window,       \* how many sent bytes the connection keeps for the server
  MaxTime       \* where the clocks stop; more than every time-out

ASSUME SocketAssumption ==
  /\ Requests \in Nat /\ Conns \in Nat /\ MaxTime \in Nat
  /\ ReqLen \in Nat \ {0} /\ hlen \in Nat \ {0} /\ Window \in Nat \ {0}
  /\ rsp_len \in Nat /\ rsp_len >= hlen
  /\ Packs \subseteq Nat /\ \A n \in Packs : n >= hlen
  /\ Timeouts \subseteq Int /\ \A t \in Timeouts : t < MaxTime

VARIABLES
  m_iSocket,    \* the object's descriptor, or INVALID_SOCKET
  m_PeerAddr,   \* whether the object knows its server's address
  open,         \* the descriptors the process has open
  conn,         \* conn[c]: the two streams of a connection and its server
  call,         \* the call in progress and its local variables
  last,         \* the last call that has ended
  failed        \* the connections on which an attempt has failed

vars == <<m_iSocket, m_PeerAddr, open, conn, call, last, failed>>

INVALID_SOCKET == 0

Request(r)   == [i \in 1 .. ReqLen |-> [req |-> r, pos |-> i]]
Answer(r, n) == [i \in 1 .. n |-> [req |-> r, pos |-> i, len |-> n]]

(* link: "none", a number not yet used; "new", not connected; "up"; "shut",*)
(* closed by the server; "reset"; "gone", closed by the client.            *)
NoConn == [link |-> "none", out |-> <<>>, got |-> <<>>, todo |-> <<>>, in |-> <<>>]

NoCall == [at |-> "idle", req |-> 0, retry |-> FALSE, try |-> 1, timeout |-> -1,
           left |-> -1, n |-> 0, k |-> 0, buf |-> <<>>, pack |-> 0, ret |-> 0,
           age |-> 0, nage |-> 0, waited |-> 0]

(* CBaseSocket's constructor.                                              *)
Init ==
  /\ m_iSocket = INVALID_SOCKET
  /\ m_PeerAddr = FALSE
  /\ open = {}
  /\ conn = [c \in 1 .. Conns |-> NoConn]
  /\ call = [NoCall EXCEPT !.at = "none"]
  /\ last = [req |-> 0, try |-> 1, res |-> 0, buf |-> <<>>, conn |-> 0]
  /\ failed = {}

IsValid == m_iSocket # INVALID_SOCKET
Link    == IF IsValid THEN conn[m_iSocket].link ELSE "none"

-----------------------------------------------------------------------------
(* Descriptors.  What the server still does with a connection that the     *)
(* client has closed reaches nobody.                                       *)
Gone == [NoConn EXCEPT !.link = "gone"]
Closed(cs) == IF IsValid THEN [cs EXCEPT ![m_iSocket] = Gone] ELSE cs
Unopened == {c \in 1 .. Conns : conn[c].link = "none"
                                /\ \A d \in 1 .. c - 1 : conn[d].link # "none"}

(* socket() fails.                                                         *)
CreateFails(base) ==
  /\ m_iSocket' = INVALID_SOCKET
  /\ open' = base
  /\ conn' = Closed(conn)
  /\ UNCHANGED m_PeerAddr

(* connect() fails or its time is over: what stays of the descriptor.      *)
ConnectFails(base, keep) ==
  /\ \E c \in Unopened :
       /\ m_iSocket' = IF keep THEN c ELSE INVALID_SOCKET
       /\ open' = IF keep THEN base \cup {c} ELSE base
       /\ conn' = [Closed(conn) EXCEPT ![c].link = IF keep THEN "new" ELSE "gone"]
  /\ UNCHANGED m_PeerAddr

(* connect() succeeds; the server may be gone again before SaveAddr.  known*)
(* is whether the address of the server is kept in any case.               *)
Connects(base, known) ==
  \E c \in Unopened, l \in {"up", "reset"} :
    /\ m_iSocket' = c
    /\ open' = base \cup {c}
    /\ conn' = [Closed(conn) EXCEPT ![c].link = l]
    /\ m_PeerAddr' = (known \/ l = "up")

(* CTcpClient(host, port, timeout).                                        *)
Construct ==
  /\ call.at = "none"
  /\ call' = NoCall
  /\ CreateFails({}) \/ ConnectFails({}, FALSE) \/ Connects({}, FALSE)
  /\ UNCHANGED <<last, failed>>

Close ==
  /\ m_iSocket' = INVALID_SOCKET
  /\ open' = open \ {m_iSocket}
  /\ conn' = Closed(conn)
  /\ UNCHANGED m_PeerAddr

(* Reconnect(timeout) fails.  A blocking connect that fails leaves its     *)
(* descriptor open.                                                        *)
ReconnectFails(timeout) ==
  \/ CreateFails(open \ {m_iSocket})
  \/ m_PeerAddr /\ ConnectFails(open \ {m_iSocket}, timeout < 0)

(* It returns 0: connected again, or, when the object has never learned an *)
(* address, not connected at all, because connect() of an address of zeros *)
(* (AF_UNSPEC) succeeds and does nothing.                                  *)
Reconnects_Same ==   \* mutant: a socket that is still connected is kept
  IF Link = "up" THEN UNCHANGED <<m_iSocket, m_PeerAddr, open, conn>>
                 ELSE m_PeerAddr /\ Connects(open \ {m_iSocket}, TRUE)
Reconnects_Leaks ==   \* mutant: without Close
  m_PeerAddr /\ Connects(open, TRUE)
Reconnects ==
  \/ m_PeerAddr /\ Connects(open \ {m_iSocket}, TRUE)
  \/ ~m_PeerAddr /\ ConnectFails(open \ {m_iSocket}, TRUE)

(* The user closes or reconnects the object between calls.                 *)
UserClose ==
  /\ call.at = "idle" /\ IsValid
  /\ Close
  /\ UNCHANGED <<call, last, failed>>

UserReconnect(t) ==
  /\ call.at = "idle"
  /\ ReconnectFails(t) \/ Reconnects
  /\ UNCHANGED <<call, last, failed>>

-----------------------------------------------------------------------------
(* SendRecv and SendRecvWithRetry.  Each try starts with SendN.            *)
Timed == call.timeout >= 0

Attempt(r, retry, try, t, ret) ==
  [NoCall EXCEPT !.at = IF t < 0 THEN "send" ELSE "write", !.req = r,
                 !.retry = retry, !.try = try, !.timeout = t, !.left = t, !.ret = ret]

Call(r, retry, t) ==
  /\ call.at = "idle" /\ last.req = r - 1
  /\ call' = Attempt(r, retry, 1, t, 0)
  /\ UNCHANGED <<m_iSocket, m_PeerAddr, open, conn, last, failed>>

(* What the caller gets: the result and what was read into its buffer.     *)
Ended(n, buf) ==
  last' = [req |-> call.req, try |-> call.try, res |-> n, buf |-> buf, conn |-> m_iSocket]

(* An attempt ends with result n <= 0.                                     *)
Fail(n) ==
  /\ failed' = failed \cup ({m_iSocket} \ {INVALID_SOCKET})
  /\ IF call.retry /\ call.try = 1
       THEN /\ call' = [call EXCEPT !.at = "again", !.ret = n]
            /\ UNCHANGED last
       ELSE /\ call' = NoCall
            /\ Ended(n, call.buf)

Succeed(buf) ==
  /\ call' = NoCall
  /\ Ended(Len(buf), buf)
  /\ UNCHANGED failed

Again ==
  /\ call.at = "again"
  /\ \/ /\ ReconnectFails(call.timeout)
        /\ call' = NoCall
        /\ Ended(call.ret, <<>>)
     \/ /\ Reconnects
        /\ call' = Attempt(call.req, TRUE, 2, call.timeout, call.ret)
        /\ UNCHANGED last
  /\ UNCHANGED failed

SameSocket == UNCHANGED <<m_iSocket, m_PeerAddr, open>>
SameConn == SameSocket /\ UNCHANGED conn

-----------------------------------------------------------------------------
(* SendN and WriteN.  n bytes are counted in nwrite, k more are with the   *)
(* send in progress.                                                       *)
Room == Len(conn[m_iSocket].out) < Window
Broken == Link \in {"none", "new", "reset"}
Writable == Broken \/ Room

SendInvalid ==
  /\ call.at \in {"write", "send"} /\ ~IsValid
  /\ Fail(-4)
  /\ SameConn

(* WaitWrite(timeout) says that the socket can be written, ...             *)
WaitWrite ==
  /\ call.at = "write" /\ IsValid /\ Writable
  /\ call' = [call EXCEPT !.at = "send", !.k = 0]
  /\ SameConn /\ UNCHANGED <<last, failed>>

(* ... its time is over, or a signal interrupts it.                        *)
WaitWriteEnds ==
  /\ call.at = "write" /\ IsValid /\ ~Writable
  /\ IF call.waited >= call.left THEN Fail(-5) ELSE Fail(-4)
  /\ SameConn

(* The socket blocks: send takes the bytes one after the other as the      *)
(* window allows ...                                                       *)
SendByte_Again ==   \* mutant: ptr is not moved after a short send
  /\ call.at = "send" /\ IsValid /\ ~Broken /\ Room
  /\ call.n + call.k < ReqLen
  /\ conn' = [conn EXCEPT ![m_iSocket].out = Append(@, Request(call.req)[call.k + 1])]
  /\ call' = [call EXCEPT !.k = @ + 1]
  /\ SameSocket /\ UNCHANGED <<last, failed>>
SendByte ==
  /\ call.at = "send" /\ IsValid /\ ~Broken /\ Room
  /\ call.n + call.k < ReqLen
  /\ conn' = [conn EXCEPT ![m_iSocket].out =
                            Append(@, Request(call.req)[call.n + call.k + 1])]
  /\ call' = [call EXCEPT !.k = @ + 1]
  /\ SameSocket /\ UNCHANGED <<last, failed>>

(* ... and returns when it has them all: RecvPack starts.                  *)
Sent ==
  /\ call.at = "send" /\ call.n + call.k = ReqLen
  /\ call' = [call EXCEPT !.at = "header", !.n = 0, !.k = 0, !.left = call.timeout,
                          !.age = 0, !.nage = 0, !.waited = 0]
  /\ SameConn /\ UNCHANGED <<last, failed>>

(* A signal or an error ends the send early.  With nothing sent that is    *)
(* EINTR, and the loop goes on, or the error; otherwise the loop goes on   *)
(* with the rest, if time is left: timeout -= DiffMillSec(start).          *)
Short ==
  LET left == call.left - call.nage
      more == [call EXCEPT !.n = @ + call.k, !.k = 0]
  IN  IF ~Timed \/ call.k = 0
        THEN /\ call' = [more EXCEPT !.at = IF Timed THEN "write" ELSE "send", !.waited = 0]
             /\ UNCHANGED <<last, failed>>
      ELSE IF left <= 0
        THEN Fail(-5)
        ELSE /\ call' = [more EXCEPT !.at = "write", !.left = left, !.waited = 0]
             /\ UNCHANGED <<last, failed>>

SendStops ==
  /\ call.at = "send" /\ IsValid /\ call.n + call.k < ReqLen
  /\ \/ Broken /\ call.k = 0 /\ Fail(-4)
     \/ Broken /\ call.k > 0 /\ Short
     \/ ~Broken /\ ~Room /\ Short
  /\ SameConn

-----------------------------------------------------------------------------
(* RecvN and ReadN, for the header and then for the body of a packet.      *)
Receiving == call.at \in {"header", "body"}
Stream    == conn[m_iSocket].in
Wanted    == IF call.at = "header" THEN hlen ELSE call.pack - hlen
Avail     == IF Len(Stream) < Wanted - call.n THEN Len(Stream) ELSE Wanted - call.n

(* recv gives what has arrived, up to what is wanted.                      *)
Taken == [conn EXCEPT ![m_iSocket].in = SubSeq(@, Avail + 1, Len(@))]
Read  == call.buf \o SubSeq(Stream, 1, Avail)

(* Some of it: go on if time is left.                                      *)
RecvPart ==
  /\ Receiving /\ Stream # <<>> /\ call.n + Avail < Wanted
  /\ LET left == call.left - call.nage
     IN  IF Timed /\ left <= 0
           THEN Fail(-2)
           ELSE /\ call' = [call EXCEPT !.n = @ + Avail, !.buf = Read, !.waited = 0,
                                        !.left = IF Timed THEN left ELSE @]
                /\ UNCHANGED <<last, failed>>
  /\ conn' = Taken /\ SameSocket

(* The caller's pf reads the header.  What it makes of bytes that are none *)
(* is its own affair; 0 stands for every result that is not positive.  A   *)
(* positive one is "the packet's full length" (base_socket.cpp:847), which *)
(* is at least that of the header: a caller's function that breaks this    *)
(* rule makes the body's length wrap, which is left out.                   *)
pf(header) ==
  IF header[1].pos = 1 THEN {header[1].len} ELSE {0} \cup Packs

(* The time that RecvPack has left for the body.                           *)
BodyTime_Whole == call.timeout   \* mutant: the header's time is not counted
BodyTime == IF call.timeout > 0 THEN call.timeout - call.age ELSE call.timeout

(* The header is complete: RecvPack goes on to the body, if it fits.       *)
Fits_Any(pack) == TRUE   \* mutant: the size of the buffer is not looked at
Fits(pack) == pack <= rsp_len

RecvHeader ==
  /\ call.at = "header" /\ Stream # <<>> /\ call.n + Avail = Wanted
  /\ IF call.timeout > 0 /\ BodyTime < 0
       THEN Fail(-2)
       ELSE \E pack \in pf(Read) :
              \/ pack <= 0 /\ Fail(-3)
              \/ pack = hlen /\ Succeed(Read)
              \/ pack > hlen /\ ~Fits(pack) /\ Fail(-4)
              \/ /\ pack > hlen /\ Fits(pack)
                 /\ call' = [call EXCEPT !.at = "body", !.buf = Read, !.pack = pack,
                                         !.n = 0, !.left = BodyTime, !.nage = 0,
                                         !.waited = 0]
                 /\ UNCHANGED <<last, failed>>
  /\ conn' = Taken /\ SameSocket

RecvBody ==
  /\ call.at = "body" /\ Stream # <<>> /\ call.n + Avail = Wanted
  /\ Succeed(Read)
  /\ conn' = Taken /\ SameSocket

(* The server has closed or reset the connection and nothing is left.      *)
RecvEnd_Not ==   \* mutant: recv's 0 is taken for "try again"
  /\ Receiving /\ Stream = <<>> /\ Link = "reset"
  /\ Fail(-1)
  /\ SameConn
RecvEnd ==
  /\ Receiving /\ Stream = <<>> /\ Link \in {"shut", "reset"}
  /\ IF Link = "shut" THEN Fail(0) ELSE Fail(-1)
  /\ SameConn

(* WaitRead's time is over, or a signal interrupts its select; the read of *)
(* ReadN is repeated after a signal.                                       *)
WaitReadExpires ==
  /\ Receiving /\ Timed /\ Stream = <<>> /\ Link = "up" /\ call.waited >= call.left
  /\ Fail(-2)
  /\ SameConn

WaitReadSignal ==
  /\ Receiving /\ Timed /\ Stream = <<>> /\ Link = "up" /\ call.waited < call.left
  /\ Fail(-1)
  /\ SameConn

-----------------------------------------------------------------------------
(* A millisecond passes for a call that waits in select or in send.        *)
Waits ==
  /\ Timed /\ IsValid
  /\ \/ call.at = "write" /\ ~Writable /\ call.waited < call.left
     \/ call.at = "send" /\ ~Broken /\ ~Room /\ call.n + call.k < ReqLen
     \/ Receiving /\ Stream = <<>> /\ Link = "up" /\ call.waited < call.left

Tick ==
  /\ Waits /\ call.nage < MaxTime
  /\ call' = [call EXCEPT !.age = @ + 1, !.nage = @ + 1, !.waited = @ + 1]
  /\ SameConn /\ UNCHANGED <<last, failed>>

(* The server reads requests, answers each, and closes a connection on     *)
(* which it reads something else.                                          *)
Same == UNCHANGED <<m_iSocket, m_PeerAddr, open, call, last, failed>>

ServerRead(c) ==
  /\ conn[c].link = "up" /\ conn[c].out # <<>>
  /\ LET got  == Append(conn[c].got, Head(conn[c].out))
         rest == [conn[c] EXCEPT !.out = Tail(@), !.got = got]
     IN  \/ /\ Len(got) < ReqLen
            /\ conn' = [conn EXCEPT ![c] = rest]
         \/ /\ got = Request(got[1].req)
            /\ \E n \in Packs :
                 conn' = [conn EXCEPT ![c] = [rest EXCEPT !.got = <<>>,
                                                !.todo = @ \o Answer(got[1].req, n)]]
         \/ /\ Len(got) = ReqLen /\ got # Request(got[1].req)
            /\ conn' = [conn EXCEPT ![c] = [rest EXCEPT !.link = "shut", !.got = <<>>,
                                                               !.todo = <<>>]]
  /\ Same

ServerWrite(c) ==
  /\ conn[c].link = "up" /\ conn[c].todo # <<>>
  /\ conn' = [conn EXCEPT ![c].in = Append(@, Head(conn[c].todo)), ![c].todo = Tail(@)]
  /\ Same

ServerCloses(c) ==
  /\ conn[c].link = "up"
  /\ \E l \in {"shut", "reset"} :
       conn' = [conn EXCEPT ![c] = [@ EXCEPT !.link = l, !.todo = <<>>]]
  /\ Same

(* What is sent to a server that has closed is answered by a reset.        *)
ServerRefuses(c) ==
  /\ conn[c].link = "shut" /\ conn[c].out # <<>>
  /\ conn' = [conn EXCEPT ![c].link = "reset"]
  /\ Same

-----------------------------------------------------------------------------
Recv == RecvPart \/ RecvHeader \/ RecvBody \/ RecvEnd \/ WaitReadExpires

Client ==
  \/ Construct \/ UserClose \/ Again \/ SendInvalid
  \/ WaitWrite \/ WaitWriteEnds \/ SendByte \/ Sent \/ SendStops
  \/ Recv \/ WaitReadSignal
  \/ \E t \in Timeouts :
       \/ UserReconnect(t)
       \/ \E r \in 1 .. Requests, retry \in BOOLEAN : Call(r, retry, t)

Server(c) == ServerRead(c) \/ ServerWrite(c) \/ ServerCloses(c) \/ ServerRefuses(c)

Next == Client \/ Tick \/ \E c \in 1 .. Conns : Server(c)

Spec == Init /\ [][Next]_vars

(* The client's thread runs and the clock moves.  Nothing is asked of the  *)
(* server or of the network.                                               *)
FairSpec == Spec /\ WF_vars(Recv) /\ WF_vars(Tick)

-----------------------------------------------------------------------------
(* Also: an answer never runs over the caller's buffer, as long as pf finds*)
(* no length below that of the header.                                     *)
TypeOK ==
  /\ m_iSocket \in 0 .. Conns
  /\ m_PeerAddr \in BOOLEAN
  /\ open \subseteq 1 .. Conns
  /\ \A c \in 1 .. Conns :
       /\ conn[c].link \in {"none", "new", "up", "shut", "reset", "gone"}
       /\ Len(conn[c].out) <= Window /\ Len(conn[c].got) < ReqLen
  /\ call.at \in {"none", "idle", "write", "send", "header", "body", "again"}
  /\ Len(call.buf) <= rsp_len /\ Len(last.buf) <= rsp_len
  /\ failed \subseteq 1 .. Conns

(* The object has exactly its own descriptor open, whichever step of a     *)
(* connect or reconnect fails.                                             *)
OneDescriptor == open = {m_iSocket} \ {INVALID_SOCKET}

(* What a call returns is the whole answer to its own request.  The one    *)
(* exception is the first try on a connection that a failed call has left  *)
(* in use: an answer that came too late, or the rest of one, is still in   *)
(* its stream.  A second try is always on a new connection.                *)
OwnAnswer ==
  last.res > 0 =>
    \/ last.buf = Answer(last.req, last.res)
    \/ last.try = 1 /\ last.conn \in failed

(* The server never reads a mixture of two requests, or a part of one that *)
(* is followed by another, on a connection where no attempt has failed:    *)
(* short sends and signals are made good.                                  *)
Framed ==
  \A c \in 1 .. Conns \ failed :
    LET got == conn[c].got \o conn[c].out
    IN  \A i \in DOMAIN got : got[i] = [req |-> got[1].req, pos |-> i]

(* RecvPack never waits longer than its time-out, header and body together.*)
InTime == Receiving /\ Timed => call.age <= call.timeout

(* A call with a time-out that waits for its answer ends, whatever server  *)
(* and network do.                                                         *)
RecvEnds == (Receiving /\ Timed) ~> ~Receiving

=============================================================================
