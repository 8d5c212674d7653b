----------------------------- MODULE NtripClient -----------------------------
(***************************************************************************)
(* The NTRIP client of src/ntripclient: NtripClient::ThreadHandler         *)
(* connects to a caster, logs in, and passes what the caster sends to a    *)
(* callback, over and over, while a caller starts and stops it.  The two   *)
(* share socket_fd_ and thread_is_running_ without any lock, so a step is  *)
(* what a thread does between two accesses to socket_fd_, or one system    *)
(* call.  The caller does not start the client before the thread it last   *)
(* started has ended.                                                      *)
(*                                                                         *)
(* Bytes are cells: the status line of a caster that accepts is two cells, *)
(* so that TCP can cut it, and a cell of data says which one it is of      *)
(* which connection.  The process is taken to ignore SIGPIPE, and a send   *)
(* that select allowed to take a whole sentence.                           *)
(***************************************************************************)
EXTENDS Integers, Sequences

CONSTANTS BufSize,     \* NTRIP_SOCKET_BUF_SIZE, in cells
          Tries,       \* reads of login, 10 in the code
          MaxFd,       \* bound on the open sockets of the process
          MaxConns,    \* bound on the connections tried
          MaxData,     \* bound on the cells of data sent on a connection
          MaxStarts,   \* bound on the calls of Start
          MaxStops     \* bound on the calls of Stop

ASSUME NtripAssumption ==
    /\ BufSize \in Nat /\ BufSize >= 2
    /\ Tries \in Nat \ {0}
    /\ {MaxFd, MaxConns, MaxData, MaxStarts, MaxStops} \subseteq Nat

VARIABLES pc,          \* where the thread and the caller are
          ret,         \* where close_socket returns to
          seen,        \* the socket_fd_ that close_socket tested
          running,     \* thread_is_running_
          service,     \* service_is_running_
          fd,          \* socket_fd_
          conn,        \* the sockets of the process, by descriptor
          newFd,       \* the local socket_fd of open_socket
          recvBuf,     \* recv_buffer_
          timeout,     \* reads left in login
          readable,    \* whether select found socket_fd_ readable
          conns, starts, stops,   \* calls of open_socket, Start and Stop
          got          \* the cells passed to the callback

locals == <<newFd, timeout, readable>>
counts == <<starts, stops>>
flags == <<running, service>>
vars == <<pc, ret, seen, flags, fd, conn, conns, locals, recvBuf, counts, got>>

Thread == "thread"
Caller == "caller"
NoFd == -1
Fd == 1..MaxFd

Line(k) == [kind |-> "line", conn |-> 0, n |-> k]
Data(c, n) == [kind |-> "data", conn |-> c, n |-> n]
Cell == [kind : {"line", "data"}, conn : 0..MaxConns, n : 0..(MaxData + 3)]
Accept == <<Line(1), Line(2)>>       \* "ICY 200 OK\r\n"
Refuse == <<Line(3)>>                \* any other status
Junk == Line(0)                      \* what is in a buffer that was not read into

Unused == [peer |-> "none", id |-> 0, asked |-> FALSE, answer |-> "none",
           poked |-> FALSE, wire |-> <<>>, n |-> 0]
Connection(peer, id) == [Unused EXCEPT !.peer = peer, !.id = id]
Connections == [peer : {"none", "opening", "failed", "up", "closed", "reset"}, id : 0..MaxConns,
                asked : BOOLEAN, answer : {"none", "accept", "refuse"}, poked : BOOLEAN,
                wire : Seq(Cell), n : 0..MaxData]

Open == {f \in Fd : conn[f].peer # "none"}
Free == Fd \ Open

-----------------------------------------------------------------------------
(* System calls on a descriptor that may meanwhile be closed, or -1.  send  *)
(* succeeds also when the peer has closed, and then provokes a reset.       *)

SendWorks(f) == f \in Open /\ conn[f].peer \in {"up", "closed"}

\* recv into recv_buffer_: as many cells as have arrived, 0 when the peer has
\* closed, and when there is nothing yet the length that was passed in.
ReadSocket(f) ==
    IF f \notin Open \/ conn[f].peer \notin {"up", "closed"}
    THEN {[ok |-> FALSE, length |-> BufSize, buf |-> recvBuf, left |-> <<>>]}
    ELSE LET wire == conn[f].wire
         IN  IF wire = <<>>
             THEN {[ok |-> TRUE, length |-> IF conn[f].peer = "closed" THEN 0 ELSE BufSize,
                    buf |-> recvBuf, left |-> <<>>]}
             ELSE {[ok |-> TRUE, length |-> k,
                    buf |-> [i \in 1..BufSize |-> IF i <= k THEN wire[i] ELSE recvBuf[i]],
                    left |-> SubSeq(wire, k + 1, Len(wire))] :
                       k \in {i \in 1..BufSize : i <= Len(wire)}}

Received(f, r) == IF f \in Open THEN [conn EXCEPT ![f].wire = r.left] ELSE conn

Goto(p, step) == pc' = [pc EXCEPT ![p] = step]

-----------------------------------------------------------------------------
(* close_socket, called by the thread and by Stop.  The compiler may load   *)
(* socket_fd_ once for the test and the call, or twice.                     *)

CloseSocket(p, back) ==
    /\ Goto(p, "closeTest")
    /\ ret' = [ret EXCEPT ![p] = back]

CloseTest(p) ==
    /\ pc[p] = "closeTest"
    /\ seen' = [seen EXCEPT ![p] = fd]
    /\ Goto(p, IF fd # NoFd THEN "close" ELSE ret[p])
    /\ UNCHANGED <<ret, flags, fd, conn, conns, locals, recvBuf, counts, got>>

Close(p) ==
    /\ pc[p] = "close"
    /\ \E f \in {seen[p], fd} :
           conn' = IF f \in Fd THEN [conn EXCEPT ![f] = Unused] ELSE conn
    /\ Goto(p, "clear")
    /\ UNCHANGED <<ret, seen, flags, fd, conns, locals, recvBuf, counts, got>>

Clear(p) ==
    /\ pc[p] = "clear"
    /\ fd' = NoFd
    /\ Goto(p, ret[p])
    /\ UNCHANGED <<ret, seen, flags, conn, conns, locals, recvBuf, counts, got>>

-----------------------------------------------------------------------------
(* The caller: Init and Start, Stop.                                        *)

Start ==
    /\ pc[Caller] = "idle" /\ pc[Thread] = "ended"
    /\ starts < MaxStarts
    /\ recvBuf' = [i \in 1..BufSize |-> Junk]
    /\ service' = TRUE
    /\ Goto(Thread, "begin")
    /\ starts' = starts + 1
    /\ UNCHANGED <<ret, seen, running, fd, conn, conns, locals, stops, got>>

Stop ==
    /\ pc[Caller] = "idle"
    /\ stops < MaxStops
    /\ service' = FALSE
    /\ running' = FALSE
    /\ CloseSocket(Caller, "idle")
    /\ stops' = stops + 1
    /\ UNCHANGED <<seen, fd, conn, conns, locals, recvBuf, starts, got>>

-----------------------------------------------------------------------------
(* ThreadHandler.                                                           *)

Begin ==
    /\ pc[Thread] = "begin"
    /\ running' = TRUE
    /\ Goto(Thread, "while")
    /\ UNCHANGED <<ret, seen, service, fd, conn, conns, locals, recvBuf, counts, got>>

\* Mutant: the loop connects again without closing the last connection.
WhileOpen ==
    /\ pc[Thread] = "while"
    /\ Goto(Thread, IF running THEN "socket" ELSE "end")
    /\ UNCHANGED <<ret, seen, flags, fd, conn, conns, locals, recvBuf, counts, got>>

While ==
    /\ pc[Thread] = "while"
    /\ CloseSocket(Thread, IF running THEN "socket" ELSE "end")
    /\ UNCHANGED <<seen, flags, fd, conn, conns, locals, recvBuf, counts, got>>

\* There may be no descriptor left, in the process or in the system.
Socket ==
    /\ pc[Thread] = "socket"
    /\ conns < MaxConns
    /\ conns' = conns + 1
    /\ \/ /\ Goto(Thread, "while")
          /\ UNCHANGED <<newFd, conn>>
       \/ \E f \in Free :
             /\ newFd' = f
             /\ conn' = [conn EXCEPT ![f] = Connection("opening", conns + 1)]
             /\ Goto(Thread, "connect")
    /\ UNCHANGED <<ret, seen, flags, fd, timeout, readable, recvBuf, counts, got>>

\* A socket that Stop has closed by mistake cannot be connected either.
Connect ==
    /\ pc[Thread] = "connect"
    /\ \/ /\ newFd \in Open
          /\ conn' = [conn EXCEPT ![newFd].peer = "up"]
          /\ fd' = newFd
          /\ Goto(Thread, "request")
       \/ /\ conn' = IF newFd \in Open THEN [conn EXCEPT ![newFd].peer = "failed"] ELSE conn
          /\ Goto(Thread, "while")
          /\ UNCHANGED fd
    /\ UNCHANGED <<ret, seen, flags, conns, locals, recvBuf, counts, got>>

Request ==
    /\ pc[Thread] = "request"
    /\ IF SendWorks(fd)
       THEN /\ conn' = [conn EXCEPT ![fd].asked = TRUE, ![fd].poked = conn[fd].peer = "closed"]
            /\ timeout' = Tries
            /\ Goto(Thread, "login")
       ELSE Goto(Thread, "while") /\ UNCHANGED <<conn, timeout>>
    /\ UNCHANGED <<ret, seen, flags, fd, conns, newFd, readable, recvBuf, counts, got>>

StartsWithAccept(buf) == SubSeq(buf, 1, 2) = Accept

LoggedIn(r) == r.ok /\ r.length > 0 /\ StartsWithAccept(r.buf)

\* Mutant: login waits as long as it takes.
WaitsOn(r) == r.ok /\ ~LoggedIn(r)

Waits(r) == r.ok /\ ~LoggedIn(r) /\ timeout > 1

Login ==
    /\ pc[Thread] = "login"
    /\ \E r \in ReadSocket(fd) :
           /\ recvBuf' = r.buf
           /\ conn' = Received(fd, r)
           /\ timeout' = timeout - 1
           /\ Goto(Thread, CASE LoggedIn(r)             -> "select"
                             [] Waits(r)                -> "login"
                             [] ~(LoggedIn(r) \/ Waits(r)) -> "while")
    /\ UNCHANGED <<ret, seen, flags, fd, conns, newFd, readable, counts, got>>

\* The bit of -1 is one that select does not look at, nor is any set: it waits
\* for its timeout, as it does when nothing is ready.
Select ==
    /\ pc[Thread] = "select"
    /\ \/ fd = NoFd /\ UNCHANGED <<pc, readable>>
       \/ fd # NoFd /\ fd \notin Open /\ Goto(Thread, "while") /\ UNCHANGED readable
       \/ /\ fd \in Open
          /\ readable' = (conn[fd].wire # <<>> \/ conn[fd].peer # "up")
          /\ \E writable \in IF conn[fd].peer = "reset" THEN {TRUE} ELSE BOOLEAN :
                 Goto(Thread, CASE writable               -> "write"
                                [] ~writable /\ readable' -> "while"
                                [] ~writable /\ ~readable' -> "select")
    /\ UNCHANGED <<ret, seen, flags, fd, conn, conns, newFd, timeout, recvBuf, counts, got>>

\* Mutant: without a sentence of its own to send the client only listens.
OnlyListens ==
    /\ pc[Thread] = "write"
    /\ Goto(Thread, "read")
    /\ UNCHANGED <<ret, seen, flags, fd, conn, conns, locals, recvBuf, counts, got>>

\* When Stop comes after select the bits of -1 are tested, which are clear:
\* that ends the connection, or skips the send, by which test it is.
WriteGga ==
    /\ pc[Thread] = "write"
    /\ IF SendWorks(fd)
       THEN /\ conn' = [conn EXCEPT ![fd].poked = conn[fd].poked \/ conn[fd].peer = "closed"]
            /\ Goto(Thread, "read")
       ELSE /\ Goto(Thread, "while") \/ (fd = NoFd /\ Goto(Thread, "read"))
            /\ UNCHANGED conn
    /\ UNCHANGED <<ret, seen, flags, fd, conns, locals, recvBuf, counts, got>>

\* Mutant: the callback gets the buffer and not what was read into it.
WholeBuffer(r) == r.buf

Delivered(r) == SubSeq(r.buf, 1, r.length)

Read ==
    /\ pc[Thread] = "read"
    /\ \/ /\ ~readable \/ fd = NoFd
          /\ Goto(Thread, "select")
          /\ UNCHANGED <<recvBuf, conn, got>>
       \/ /\ readable
          /\ \E r \in ReadSocket(fd) :
                 /\ recvBuf' = r.buf
                 /\ conn' = Received(fd, r)
                 /\ got' = IF r.ok THEN got \o Delivered(r) ELSE got
                 /\ Goto(Thread, IF r.ok THEN "select" ELSE "while")
    /\ UNCHANGED <<ret, seen, flags, fd, conns, locals, counts>>

End ==
    /\ pc[Thread] = "end"
    /\ running' = FALSE
    /\ service' = FALSE
    /\ Goto(Thread, "ended")
    /\ UNCHANGED <<ret, seen, fd, conn, conns, locals, recvBuf, counts, got>>

-----------------------------------------------------------------------------
(* The caster and the network.                                              *)

OnlyConn == UNCHANGED <<pc, ret, seen, flags, fd, conns, locals, recvBuf, counts, got>>

\* The caster answers a request, once.
Answer(f) ==
    /\ conn[f].peer = "up" /\ conn[f].asked /\ conn[f].answer = "none"
    /\ \/ conn' = [conn EXCEPT ![f].answer = "accept", ![f].wire = Accept]
       \/ conn' = [conn EXCEPT ![f].answer = "refuse", ![f].wire = Refuse]
    /\ OnlyConn

\* A caster that accepted sends corrections.
SendData(f) ==
    /\ conn[f].peer = "up" /\ conn[f].answer = "accept" /\ conn[f].n < MaxData
    /\ conn' = [conn EXCEPT ![f].n = conn[f].n + 1,
                            ![f].wire = Append(conn[f].wire, Data(conn[f].id, conn[f].n + 1))]
    /\ OnlyConn

\* The caster closes the connection; what it sent before still arrives.
PeerCloses(f) ==
    /\ conn[f].peer = "up"
    /\ conn' = [conn EXCEPT ![f].peer = "closed"]
    /\ OnlyConn

\* The connection is lost: keepalive or the caster resets it.
Lost(f) ==
    /\ conn[f].peer \in {"up", "closed"}
    /\ conn' = [conn EXCEPT ![f].peer = "reset", ![f].wire = <<>>]
    /\ OnlyConn

\* Whoever sends to a closed peer is answered with a reset.
Provoked(f) == conn[f].poked /\ Lost(f)

-----------------------------------------------------------------------------
Init ==
    /\ pc = [p \in {Thread, Caller} |-> IF p = Thread THEN "ended" ELSE "idle"]
    /\ ret = [p \in {Thread, Caller} |-> "idle"]
    /\ seen = [p \in {Thread, Caller} |-> NoFd]
    /\ running = FALSE /\ service = FALSE
    /\ fd = NoFd
    /\ conn = [f \in Fd |-> Unused]
    /\ newFd = NoFd /\ timeout = 0 /\ readable = FALSE
    /\ recvBuf = [i \in 1..BufSize |-> Junk]
    /\ conns = 0 /\ starts = 0 /\ stops = 0
    /\ got = <<>>

ThreadNext ==
    \/ Begin \/ While \/ Socket \/ Connect \/ Request \/ Login
    \/ Select \/ WriteGga \/ Read \/ End
    \/ CloseTest(Thread) \/ Close(Thread) \/ Clear(Thread)

CallerNext == CloseTest(Caller) \/ Close(Caller) \/ Clear(Caller)

Caster == \E f \in Fd : Answer(f) \/ SendData(f) \/ PeerCloses(f) \/ Lost(f)

Next == Start \/ Stop \/ ThreadNext \/ CallerNext \/ Caster

\* Both threads run on, and TCP answers what is sent to a peer that has closed.
Spec ==
    /\ Init /\ [][Next]_vars
    /\ WF_vars(ThreadNext) /\ WF_vars(CallerNext)
    /\ \A f \in Fd : WF_vars(Provoked(f))

-----------------------------------------------------------------------------
(* Properties.                                                              *)

Step == {"idle", "ended", "begin", "while", "closeTest", "close", "clear", "socket", "connect",
         "request", "login", "select", "write", "read", "end"}

\* The variables have their types; login reads at most Tries times.
TypeOK ==
    /\ pc \in [{Thread, Caller} -> Step]
    /\ ret \in [{Thread, Caller} -> {"idle", "socket", "end"}]
    /\ seen \in [{Thread, Caller} -> Fd \union {NoFd}]
    /\ running \in BOOLEAN /\ service \in BOOLEAN /\ readable \in BOOLEAN
    /\ fd \in Fd \union {NoFd} /\ newFd \in Fd \union {NoFd}
    /\ conn \in [Fd -> Connections]
    /\ recvBuf \in [1..BufSize -> Cell]
    /\ timeout \in 0..Tries /\ (pc[Thread] = "login" => timeout > 0)
    /\ conns \in 0..MaxConns /\ starts \in 0..MaxStarts /\ stops \in 0..MaxStops
    /\ got \in Seq(Cell)

\* The callback gets nothing but what casters sent, and of the data of a
\* connection one piece, in order, without a hole and nothing twice; nothing of
\* an earlier connection follows.  This is about recv_buffer_ and readSize in
\* ThreadHandler, and about who else closes and opens sockets.
DeliveredAsSent ==
    LET IsData(i) == got[i].kind = "data"
    IN  /\ \A i \in DOMAIN got : got[i] # Junk
        /\ \A i, j \in DOMAIN got :
               i < j /\ IsData(i) /\ IsData(j) /\ (\A k \in (i + 1)..(j - 1) : ~IsData(k)) =>
                   \/ got[j].conn > got[i].conn
                   \/ got[j].conn = got[i].conn /\ got[j].n = got[i].n + 1

\* Until Stop is called, a socket is open only if it is the client's, is being
\* connected, or could not be connected: whichever way the login or the data
\* loop is left, close_socket comes before the next open_socket.
NoSocketLost ==
    stops = 0 => \A f \in Open : \/ f = fd
                                 \/ conn[f].peer = "failed"
                                 \/ f = newFd /\ pc[Thread] = "connect"

\* Unless the client is stopped, a connection that the caster closed or that
\* is lost is given up, and open_socket is called again: recv does not tell, the
\* GGA sentences do.
GivesUpDeadConnection ==
    (pc[Thread] \in {"select", "write", "read"} /\ fd \in Fd /\ conn[fd].peer # "up")
        ~> (pc[Thread] = "socket" \/ stops > 0)

\* The thread wants a connection that the bound on them does not allow.
Exhausted == pc[Thread] = "socket" /\ conns = MaxConns

\* If Stop comes while the thread runs, the thread ends.
StopEnds ==
    (pc[Caller] = "clear" /\ pc[Thread] # "ended") ~> (pc[Thread] = "ended" \/ Exhausted)

\* The client is in its data loop only on a connection that the caster accepted.
CasterAccepted ==
    pc[Thread] = "select" /\ fd \in Open => conn[fd].answer = "accept"
=============================================================================
