-------------------------- MODULE NtripClientProofs --------------------------
(***************************************************************************)
(* The types of NtripClient, that no socket is lost while it is not        *)
(* stopped, and that the callback gets what casters sent, in order.        *)
(***************************************************************************)
EXTENDS NtripClient, SequenceTheorems, TLAPS

Proc == {Thread, Caller}

-----------------------------------------------------------------------------
(* Types.                                                                   *)

\* What can be put into a socket is a cell, and a new socket is a socket.
LEMMA CellTypes ==
    /\ Accept \in Seq(Cell) /\ Refuse \in Seq(Cell) /\ Junk \in Cell
    /\ Unused \in Connections
    /\ \A c \in 0..MaxConns, n \in 0..MaxData : Data(c, n) \in Cell
<1> USE NtripAssumption
<1>1. /\ \A k \in 0..3 : Line(k) \in Cell
      /\ \A c \in 0..MaxConns, n \in 0..MaxData : Data(c, n) \in Cell
  BY DEF Line, Data, Cell
<1>2. /\ Accept \in Seq(Cell) /\ Refuse \in Seq(Cell) /\ Junk \in Cell
  BY <1>1 DEF Accept, Refuse, Junk
<1>3. Unused \in Connections
  <2> HIDE DEF Cell
  <2> QED
    BY DEF Unused, Connections
<1> QED
  BY <1>1, <1>2, <1>3

\* What recv returns: a length within the buffer, a buffer, and what is left.
LEMMA ReadTypes ==
    ASSUME TypeOK, NEW f, NEW r \in ReadSocket(f)
    PROVE  /\ r.length \in 0..BufSize
           /\ r.buf \in [1..BufSize -> Cell]
           /\ r.left \in Seq(Cell)
<1> USE NtripAssumption
<1>e. <<>> \in Seq(Cell) /\ recvBuf \in [1..BufSize -> Cell] /\ BufSize \in 0..BufSize
  BY DEF TypeOK
<1>1. CASE f \notin Open \/ conn[f].peer \notin {"up", "closed"}
  <2>1. r = [ok |-> FALSE, length |-> BufSize, buf |-> recvBuf, left |-> <<>>]
    BY <1>1 DEF ReadSocket
  <2> QED
    BY <2>1, <1>e
<1>2. CASE f \in Open /\ conn[f].peer \in {"up", "closed"}
  <2> DEFINE wire == conn[f].wire
  <2>1. f \in Fd
    BY <1>2 DEF Open
  <2>2. wire \in Seq(Cell)
    BY <2>1 DEF TypeOK, Connections
  <2>3. CASE wire = <<>>
    <3>1. \E k \in 0..BufSize : r = [ok |-> TRUE, length |-> k, buf |-> recvBuf, left |-> <<>>]
      BY <1>2, <2>3 DEF ReadSocket
    <3> QED
      BY <3>1, <1>e
  <2>4. CASE wire # <<>>
    <3>1. PICK k \in {i \in 1..BufSize : i <= Len(wire)} :
              r = [ok |-> TRUE, length |-> k,
                   buf |-> [i \in 1..BufSize |-> IF i <= k THEN wire[i] ELSE recvBuf[i]],
                   left |-> SubSeq(wire, k + 1, Len(wire))]
      BY <1>2, <2>4 DEF ReadSocket
    <3>2. \A i \in 1..k : wire[i] \in Cell
      BY <2>2, <3>1
    <3>3. \A i \in 1..BufSize : recvBuf[i] \in Cell
      BY DEF TypeOK
    <3>4. r.buf \in [1..BufSize -> Cell]
      BY <3>1, <3>2, <3>3
    <3>5. SubSeq(wire, k + 1, Len(wire)) \in Seq(Cell)
      BY <2>2, <3>1
    <3> QED
      BY <3>1, <3>4, <3>5
  <2> QED
    BY <2>3, <2>4
<1> QED
  BY <1>1, <1>2

\* recv keeps the sockets sockets.
LEMMA ReceivedTypes ==
    ASSUME TypeOK, NEW f, NEW r \in ReadSocket(f)
    PROVE  /\ Received(f, r) \in [Fd -> Connections]
           /\ \A g \in Fd : Received(f, r)[g].peer = conn[g].peer
<1>1. r.left \in Seq(Cell)
  BY ReadTypes
<1> QED
  BY <1>1 DEF Received, Open, TypeOK, Connections

\* What happens to a socket leaves it a socket.
LEMMA Updates ==
    ASSUME NEW c \in Connections
    PROVE  /\ \A v \in {"up", "failed", "closed"} : [c EXCEPT !.peer = v] \in Connections
           /\ [c EXCEPT !.peer = "reset", !.wire = <<>>] \in Connections
           /\ [c EXCEPT !.answer = "accept", !.wire = Accept] \in Connections
           /\ [c EXCEPT !.answer = "refuse", !.wire = Refuse] \in Connections
           /\ \A b \in BOOLEAN : /\ [c EXCEPT !.poked = b] \in Connections
                                 /\ [c EXCEPT !.asked = TRUE, !.poked = b] \in Connections
<1>1. <<>> \in Seq(Cell) /\ Accept \in Seq(Cell) /\ Refuse \in Seq(Cell)
  BY CellTypes
<1> DEFINE W == Seq(Cell)
<1> HIDE DEF W
<1>2. <<>> \in W /\ Accept \in W /\ Refuse \in W
  BY <1>1 DEF W
<1>3. Connections = [peer : {"none", "opening", "failed", "up", "closed", "reset"},
                     id : 0..MaxConns, asked : BOOLEAN, answer : {"none", "accept", "refuse"},
                     poked : BOOLEAN, wire : W, n : 0..MaxData]
  BY DEF Connections, W
<1> QED
  BY <1>2, <1>3

\* close_socket and the return from it keep the types.
LEMMA CloseSteps ==
    ASSUME TypeOK, NEW p \in Proc, CloseTest(p) \/ Close(p) \/ Clear(p)
    PROVE  TypeOK'
<1> USE NtripAssumption DEF Proc, Thread, Caller
<1>1. CASE CloseTest(p)
  BY <1>1 DEF CloseTest, TypeOK, Step, Goto, flags, locals, counts
<1>2. CASE Close(p)
  <2>1. conn' \in [Fd -> Connections]
    BY <1>2, CellTypes DEF Close, TypeOK
  <2> QED
    BY <1>2, <2>1 DEF Close, TypeOK, Step, Goto, flags, locals, counts
<1>3. CASE Clear(p)
  BY <1>3 DEF Clear, TypeOK, Step, Goto, flags, locals, counts
<1> QED
  BY <1>1, <1>2, <1>3

\* So do the calls of the caller.
LEMMA CallerSteps ==
    ASSUME TypeOK, Start \/ Stop
    PROVE  TypeOK'
<1> USE NtripAssumption DEF Thread, Caller
<1>1. CASE Start
  <2>1. recvBuf' \in [1..BufSize -> Cell]
    BY <1>1, CellTypes DEF Start
  <2>2. starts' \in 0..MaxStarts
    BY <1>1 DEF Start, TypeOK
  <2> QED
    BY <1>1, <2>1, <2>2 DEF Start, TypeOK, Step, Goto, flags, locals, counts
<1>2. CASE Stop
  <2>1. stops' \in 0..MaxStops
    BY <1>2 DEF Stop, TypeOK
  <2> QED
    BY <1>2, <2>1 DEF Stop, CloseSocket, TypeOK, Step, Goto, flags, locals, counts
<1> QED
  BY <1>1, <1>2

\* So do the steps of the thread that call neither send nor recv.
LEMMA ConnectingSteps ==
    ASSUME TypeOK, Begin \/ While \/ Socket \/ Connect \/ Select \/ End
    PROVE  TypeOK'
<1> USE NtripAssumption DEF Thread, Caller
<1>1. CASE Begin
  BY <1>1 DEF Begin, TypeOK, Step, Goto, flags, locals, counts
<1>2. CASE While
  BY <1>2 DEF While, CloseSocket, TypeOK, Step, Goto, flags, locals, counts
<1>3. CASE Socket
  <2>1. conn' \in [Fd -> Connections] /\ newFd' \in Fd \union {NoFd} /\ conns' \in 0..MaxConns
    <3>1. conns + 1 \in 0..MaxConns
      BY <1>3 DEF Socket, TypeOK
    <3>2. Connection("opening", conns + 1) \in Connections
      BY <3>1, CellTypes DEF Connection, Connections
    <3> QED
      BY <1>3, <3>1, <3>2 DEF Socket, TypeOK, Free
  <2> QED
    BY <1>3, <2>1 DEF Socket, TypeOK, Step, Goto, flags, locals, counts
<1>4. CASE Connect
  <2>1. conn' \in [Fd -> Connections] /\ fd' \in Fd \union {NoFd}
    <3>1. newFd \in Open => newFd \in Fd /\ conn[newFd] \in Connections
      BY DEF Open, TypeOK
    <3>2. newFd \in Open => /\ [conn EXCEPT ![newFd].peer = "up"] \in [Fd -> Connections]
                            /\ [conn EXCEPT ![newFd].peer = "failed"] \in [Fd -> Connections]
      BY <3>1, Updates DEF TypeOK
    <3> QED
      BY <1>4, <3>1, <3>2 DEF Connect, TypeOK
  <2> QED
    BY <1>4, <2>1 DEF Connect, TypeOK, Step, Goto, flags, locals, counts
<1>5. CASE Select
  BY <1>5 DEF Select, TypeOK, Step, Goto, flags, locals, counts
<1>6. CASE End
  BY <1>6 DEF End, TypeOK, Step, Goto, flags, locals, counts
<1> QED
  BY <1>1, <1>2, <1>3, <1>4, <1>5, <1>6

\* So do those that call send or recv.
LEMMA TransferSteps ==
    ASSUME TypeOK, Request \/ Login \/ WriteGga \/ Read
    PROVE  TypeOK'
<1> USE NtripAssumption DEF Thread, Caller
<1>1. CASE Request
  <2>1. conn' \in [Fd -> Connections]
    <3>1. SendWorks(fd) => fd \in Fd /\ conn[fd] \in Connections
      BY DEF SendWorks, Open, TypeOK
    <3>2. (conn[fd].peer = "closed") \in BOOLEAN
      OBVIOUS
    <3>3. SendWorks(fd) =>
              [conn EXCEPT ![fd].asked = TRUE, ![fd].poked = conn[fd].peer = "closed"]
                  \in [Fd -> Connections]
      BY <3>1, <3>2, Updates DEF TypeOK
    <3> QED
      BY <1>1, <3>3 DEF Request, TypeOK
  <2> QED
    BY <1>1, <2>1 DEF Request, TypeOK, Step, Goto, flags, locals, counts
<1>2. CASE Login
  <2>1. PICK r \in ReadSocket(fd) :
            /\ recvBuf' = r.buf /\ conn' = Received(fd, r) /\ timeout' = timeout - 1
            /\ Goto(Thread, CASE LoggedIn(r) -> "select" [] Waits(r) -> "login"
                              [] ~(LoggedIn(r) \/ Waits(r)) -> "while")
    BY <1>2 DEF Login
  <2>2. recvBuf' \in [1..BufSize -> Cell] /\ conn' \in [Fd -> Connections]
    BY <2>1, ReadTypes, ReceivedTypes
  <2>3. timeout' \in 0..Tries /\ (Waits(r) => timeout' > 0)
    BY <1>2, <2>1 DEF Login, TypeOK, Waits
  <2>4. pc' \in [{Thread, Caller} -> Step] /\ (pc'[Thread] = "login" => Waits(r))
    BY <2>1 DEF Goto, TypeOK, Step
  <2> QED
    BY <1>2, <2>2, <2>3, <2>4 DEF Login, TypeOK, flags, counts
<1>3. CASE WriteGga
  <2>1. conn' \in [Fd -> Connections]
    <3>1. SendWorks(fd) => fd \in Fd /\ conn[fd] \in Connections
      BY DEF SendWorks, Open, TypeOK
    <3>2. (conn[fd].poked \/ conn[fd].peer = "closed") \in BOOLEAN
      OBVIOUS
    <3>3. SendWorks(fd) =>
              [conn EXCEPT ![fd].poked = conn[fd].poked \/ conn[fd].peer = "closed"]
                  \in [Fd -> Connections]
      BY <3>1, <3>2, Updates DEF TypeOK
    <3> QED
      BY <1>3, <3>3 DEF WriteGga, TypeOK
  <2> QED
    BY <1>3, <2>1 DEF WriteGga, TypeOK, Step, Goto, flags, locals, counts
<1>4. CASE Read
  <2>1. /\ recvBuf' \in [1..BufSize -> Cell] /\ conn' \in [Fd -> Connections]
        /\ got' \in Seq(Cell)
    <3>1. CASE UNCHANGED <<recvBuf, conn, got>>
      BY <3>1 DEF TypeOK
    <3>2. CASE ~UNCHANGED <<recvBuf, conn, got>>
      <4>1. PICK r \in ReadSocket(fd) :
                recvBuf' = r.buf /\ conn' = Received(fd, r)
                /\ got' = IF r.ok THEN got \o Delivered(r) ELSE got
        BY <1>4, <3>2 DEF Read
      <4>2. Delivered(r) \in Seq(Cell)
        <5>1. r.buf \in Seq(Cell) /\ Len(r.buf) = BufSize /\ r.length \in 0..BufSize
          BY ReadTypes
        <5> QED
          BY <5>1 DEF Delivered
      <4> QED
        BY <4>1, <4>2, ReadTypes, ReceivedTypes DEF TypeOK
    <3> QED
      BY <3>1, <3>2
  <2>2. pc' \in [{Thread, Caller} -> Step] /\ pc'[Thread] # "login"
    BY <1>4 DEF Read, Goto, TypeOK, Step
  <2> QED
    BY <1>4, <2>1, <2>2 DEF Read, TypeOK, flags, locals, counts
<1> QED
  BY <1>1, <1>2, <1>3, <1>4

\* So does what the caster and the network do.
LEMMA PeerSteps ==
    ASSUME TypeOK, Caster
    PROVE  TypeOK'
<1> USE NtripAssumption
<1>1. PICK f \in Fd : Answer(f) \/ SendData(f) \/ PeerCloses(f) \/ Lost(f)
  BY DEF Caster
<1>2. conn[f] \in Connections /\ conn \in [Fd -> Connections] /\ <<>> \in Seq(Cell)
  BY DEF TypeOK
<1>3. conn' \in [Fd -> Connections]
  <2>1. CASE Answer(f)
    BY <2>1, <1>2, Updates DEF Answer
  <2>2. CASE SendData(f)
    <3>1. conn[f].n + 1 \in 0..MaxData /\ conn[f].id \in 0..MaxConns /\ conn[f].wire \in Seq(Cell)
      BY <2>2, <1>2 DEF SendData, Connections
    <3>2. Append(conn[f].wire, Data(conn[f].id, conn[f].n + 1)) \in Seq(Cell)
      BY <3>1, CellTypes
    <3> QED
      BY <2>2, <1>2, <3>1, <3>2 DEF SendData, Connections
  <2>3. CASE PeerCloses(f) \/ Lost(f)
    BY <2>3, <1>2, Updates DEF PeerCloses, Lost
  <2> QED
    BY <1>1, <2>1, <2>2, <2>3
<1>4. OnlyConn
  BY <1>1 DEF Answer, SendData, PeerCloses, Lost
<1> QED
  BY <1>3, <1>4 DEF OnlyConn, TypeOK, flags, locals, counts

\* Every step keeps the types.
LEMMA TypeStep == TypeOK /\ [Next]_vars => TypeOK'
<1> SUFFICES ASSUME TypeOK, [Next]_vars PROVE TypeOK'
  OBVIOUS
<1>1. CASE UNCHANGED vars
  BY <1>1 DEF vars, flags, locals, counts, TypeOK
<1>2. CASE CallerNext
  BY <1>2, CloseSteps DEF CallerNext, Proc
<1>3. CASE ThreadNext
  BY <1>3, CloseSteps, ConnectingSteps, TransferSteps DEF ThreadNext, Proc
<1>4. CASE Start \/ Stop \/ Caster
  BY <1>4, CallerSteps, PeerSteps
<1> QED
  BY <1>1, <1>2, <1>3, <1>4 DEF Next

\* The types of the client and its sockets, for any buffer, number of tries and
\* number of sockets: the reads of login (login in ntrip_client.cpp) are counted
\* down and never past 0.
THEOREM TypeCorrect == Spec => []TypeOK
<1>1. ASSUME Init PROVE TypeOK
  <2>1. conn \in [Fd -> Connections] /\ recvBuf \in [1..BufSize -> Cell] /\ got \in Seq(Cell)
    BY <1>1, CellTypes DEF Init
  <2>2. /\ timeout \in 0..Tries /\ (pc[Thread] = "login" => timeout > 0)
        /\ conns \in 0..MaxConns /\ starts \in 0..MaxStarts /\ stops \in 0..MaxStops
    BY <1>1, NtripAssumption DEF Init, Thread, Caller
  <2>3. /\ pc \in [{Thread, Caller} -> Step]
        /\ ret \in [{Thread, Caller} -> {"idle", "socket", "end"}]
        /\ seen \in [{Thread, Caller} -> Fd \union {NoFd}]
    BY <1>1 DEF Init, Step
  <2> QED
    BY <1>1, <2>1, <2>2, <2>3 DEF Init, TypeOK
<1> QED
  BY <1>1, TypeStep, PTL DEF Spec

-----------------------------------------------------------------------------
(* NoSocketLost.  While it is not stopped, the client has a socket only     *)
(* between connecting it and closing it, and closes the one it has.         *)

Owned(f) ==
    \/ f = fd
    \/ conn[f].peer = "failed"
    \/ f = newFd /\ pc[Thread] = "connect"

Held ==
    stops = 0 =>
        /\ pc[Caller] = "idle"
        /\ pc[Thread] \in {"ended", "begin", "socket", "connect", "end"} => fd = NoFd
        /\ pc[Thread] \in {"closeTest", "close", "clear"} => ret[Thread] \in {"socket", "end"}
        /\ pc[Thread] = "close" => seen[Thread] = fd /\ fd # NoFd
        /\ pc[Thread] = "clear" => fd \notin Open
        /\ \A f \in Open : Owned(f)

\* Steps of other sockets' peers and of what is on the wire change no owner.
LEMMA HeldFrame ==
    ASSUME TypeOK, Held, stops' = stops, fd' = fd, ret' = ret, seen' = seen,
           pc'[Caller] = pc[Caller],
           \A f \in Fd : /\ conn'[f].peer = "none" <=> conn[f].peer = "none"
                         /\ conn[f].peer = "failed" => conn'[f].peer = "failed",
           \/ pc'[Thread] = pc[Thread] /\ newFd' = newFd
           \/ /\ pc[Thread] # "connect"
              /\ pc'[Thread] \in {"while", "request", "login", "select", "write", "read"}
    PROVE  Held'
<1>1. Open' = Open
  BY DEF Open
<1>2. ASSUME NEW f \in Open, Owned(f) PROVE Owned(f)'
  <2>1. f \in Fd
    BY DEF Open
  <2> QED
    BY <1>2, <2>1 DEF Owned
<1> QED
  BY <1>1, <1>2 DEF Held

\* The two ends of close_socket, and what is between them.
LEMMA HeldClose ==
    ASSUME TypeOK, Held, NEW p \in Proc, CloseTest(p) \/ Close(p) \/ Clear(p)
    PROVE  Held'
<1> SUFFICES ASSUME stops' = 0 PROVE Held'
  BY DEF Held
<1>1. stops = 0
  BY DEF CloseTest, Close, Clear, counts
<1>2. p = Thread /\ Thread # Caller
  BY <1>1 DEF Held, Proc, Thread, Caller, CloseTest, Close, Clear
<1>3. CASE CloseTest(p)
  <2>1. /\ pc' = [pc EXCEPT ![Thread] = IF fd # NoFd THEN "close" ELSE ret[Thread]]
        /\ seen' = [seen EXCEPT ![Thread] = fd]
        /\ pc[Thread] = "closeTest" /\ UNCHANGED <<ret, fd, conn, newFd>>
    BY <1>2, <1>3 DEF CloseTest, Goto, locals
  <2>2. Open' = Open /\ \A f \in Open : Owned(f)'
    BY <1>1, <2>1 DEF Held, Open, Owned
  <2> QED
    BY <1>1, <1>2, <2>1, <2>2 DEF Held, TypeOK
<1>4. CASE Close(p)
  <2>1. seen[Thread] = fd /\ fd \in Fd
    BY <1>1, <1>2, <1>4 DEF Held, TypeOK, Close
  <2>2. /\ pc' = [pc EXCEPT ![Thread] = "clear"]
        /\ conn' = [conn EXCEPT ![fd] = Unused]
        /\ pc[Thread] = "close" /\ UNCHANGED <<ret, fd, newFd>>
    BY <1>2, <1>4, <2>1 DEF Close, Goto, locals
  <2>3. Open' = Open \ {fd}
    BY <2>1, <2>2 DEF Open, TypeOK, Unused
  <2>4. \A f \in Open' : Owned(f)'
    BY <1>1, <2>1, <2>2, <2>3 DEF Held, Owned, Open, TypeOK
  <2> QED
    BY <1>1, <1>2, <2>2, <2>3, <2>4 DEF Held, TypeOK
<1>5. CASE Clear(p)
  <2>1. /\ pc' = [pc EXCEPT ![Thread] = ret[Thread]] /\ fd' = NoFd
        /\ pc[Thread] = "clear" /\ UNCHANGED <<ret, conn, newFd>>
    BY <1>2, <1>5 DEF Clear, Goto, locals
  <2>2. Open' = Open /\ \A f \in Open : Owned(f)'
    BY <1>1, <2>1 DEF Held, Open, Owned
  <2> QED
    BY <1>1, <1>2, <2>1, <2>2 DEF Held, TypeOK
<1> QED
  BY <1>3, <1>4, <1>5

\* A step of the thread from one place without a socket to another.
LEMMA HeldIdle ==
    ASSUME TypeOK, Held, Start \/ Begin \/ While \/ End
    PROVE  Held'
<1> SUFFICES ASSUME stops' = 0 PROVE Held'
  BY DEF Held
<1>1. stops = 0 /\ Thread # Caller /\ UNCHANGED <<fd, conn, newFd, seen>>
  BY DEF Start, Begin, While, End, CloseSocket, counts, locals, Thread, Caller
<1>2. Open' = Open /\ (\A f \in Open : f = fd \/ conn[f].peer = "failed")
  BY <1>1 DEF Held, Open, Owned, Start, Begin, While, End
<1>3. \A f \in Open' : Owned(f)'
  BY <1>1, <1>2 DEF Owned
<1>4. /\ pc'[Caller] = pc[Caller]
      /\ pc'[Thread] \in {"begin", "while", "closeTest", "ended"}
      /\ pc'[Thread] \in {"begin", "ended"} => fd = NoFd
      /\ pc'[Thread] = "closeTest" => ret'[Thread] \in {"socket", "end"}
  BY <1>1 DEF Held, Start, Begin, While, End, CloseSocket, Goto, TypeOK
<1> QED
  BY <1>1, <1>3, <1>4 DEF Held

\* open_socket.
LEMMA HeldOpen ==
    ASSUME TypeOK, Held, Socket \/ Connect
    PROVE  Held'
<1> SUFFICES ASSUME stops' = 0 PROVE Held'
  BY DEF Held
<1>1. stops = 0 /\ Thread # Caller /\ UNCHANGED <<ret, seen>>
  BY DEF Socket, Connect, counts, Thread, Caller
<1>2. fd = NoFd /\ NoFd \notin Fd
  BY <1>1 DEF Held, Socket, Connect, NoFd, Fd
<1>3. CASE Socket
  <2>1. \A f \in Open : conn[f].peer = "failed"
    BY <1>1, <1>2, <1>3 DEF Held, Owned, Open, Socket
  <2>2. CASE UNCHANGED <<newFd, conn>>
    <3>1. Open' = Open /\ \A f \in Open : Owned(f)'
      BY <2>1, <2>2 DEF Open, Owned
    <3> QED
      BY <1>1, <1>3, <2>2, <3>1 DEF Held, Socket, Goto, TypeOK, Connection, Unused
  <2>3. CASE \E f \in Free : /\ newFd' = f
                             /\ conn' = [conn EXCEPT ![f] = Connection("opening", conns + 1)]
                             /\ Goto(Thread, "connect")
    <3>1. \A f \in Open' : f = newFd' \/ (f \in Open /\ conn'[f] = conn[f])
      BY <2>3 DEF Open, Free, TypeOK
    <3>2. pc'[Thread] = "connect" /\ pc'[Caller] = pc[Caller]
      BY <1>1, <2>3 DEF Goto, TypeOK
    <3>3. \A f \in Open' : Owned(f)'
      BY <2>1, <3>1, <3>2 DEF Owned
    <3> QED
      BY <1>1, <1>2, <1>3, <3>2, <3>3 DEF Held, Socket
  <2> QED
    BY <1>3, <2>2, <2>3 DEF Socket
<1>4. CASE Connect
  <2>1. \A f \in Open : conn[f].peer = "failed" \/ f = newFd
    BY <1>1, <1>2, <1>4 DEF Held, Owned, Open, Connect
  <2>2. newFd' = newFd /\ pc'[Caller] = pc[Caller] /\ pc'[Thread] \in {"request", "while"}
    BY <1>1, <1>4 DEF Connect, Goto, TypeOK, locals
  <2>3. \A f \in Open' : Owned(f)'
    <3>1. CASE fd' = newFd /\ newFd \in Open /\ conn' = [conn EXCEPT ![newFd].peer = "up"]
      BY <2>1, <3>1 DEF Open, Owned, TypeOK, Connections
    <3>2. CASE conn' = IF newFd \in Open THEN [conn EXCEPT ![newFd].peer = "failed"] ELSE conn
      BY <2>1, <3>2 DEF Open, Owned, TypeOK, Connections
    <3> QED
      BY <1>4, <3>1, <3>2 DEF Connect
  <2> QED
    BY <1>1, <2>2, <2>3 DEF Held
<1> QED
  BY <1>3, <1>4

\* Logging in and passing data on.
LEMMA HeldTransfer ==
    ASSUME TypeOK, Held, Request \/ Login \/ Select \/ WriteGga \/ Read
    PROVE  Held'
<1>1. /\ stops' = stops /\ fd' = fd /\ ret' = ret /\ seen' = seen /\ pc[Thread] # "connect"
  BY DEF Request, Login, Select, WriteGga, Read, counts
<1>2. /\ pc'[Caller] = pc[Caller]
      /\ pc'[Thread] \in {"while", "request", "login", "select", "write", "read"}
  <2>1. Thread # Caller /\ pc \in [{Thread, Caller} -> Step]
    BY DEF Thread, Caller, TypeOK
  <2>2. \/ pc' = pc /\ pc[Thread] = "select"
        \/ \E step \in {"while", "request", "login", "select", "write", "read"} :
               Goto(Thread, step)
    BY DEF Request, Login, Select, WriteGga, Read
  <2> QED
    BY <2>1, <2>2 DEF Goto
<1>3. \A f \in Fd : conn'[f].peer = conn[f].peer
  <2>1. CASE Request
    <3>1. SendWorks(fd) => fd \in Fd /\ conn[fd] \in Connections
      BY DEF SendWorks, Open, TypeOK
    <3>2. \A b : conn[fd] \in Connections =>
              [conn[fd] EXCEPT !.asked = TRUE, !.poked = b].peer = conn[fd].peer
      BY DEF Connections
    <3>3. CASE SendWorks(fd)
      <4>1. PICK b : conn' = [conn EXCEPT ![fd] = [conn[fd] EXCEPT !.asked = TRUE, !.poked = b]]
        BY <2>1, <3>3 DEF Request
      <4> QED
        BY <3>1, <3>2, <3>3, <4>1 DEF TypeOK
    <3>4. CASE ~SendWorks(fd)
      BY <2>1, <3>4 DEF Request
    <3> QED
      BY <3>3, <3>4
  <2>2. CASE Login
    BY <2>2, ReceivedTypes DEF Login
  <2>3. CASE Select
    BY <2>3 DEF Select
  <2>4. CASE WriteGga
    BY <2>4 DEF WriteGga, SendWorks, Open, TypeOK, Connections
  <2>5. CASE Read
    BY <2>5, ReceivedTypes DEF Read
  <2> QED
    BY <2>1, <2>2, <2>3, <2>4, <2>5
<1> QED
  BY <1>1, <1>2, <1>3, HeldFrame

\* The caster and the network.
LEMMA HeldPeers ==
    ASSUME TypeOK, Held, Caster
    PROVE  Held'
<1>1. OnlyConn
  BY DEF Caster, Answer, SendData, PeerCloses, Lost
<1>2. \A f \in Fd : /\ conn'[f].peer = "none" <=> conn[f].peer = "none"
                    /\ conn[f].peer = "failed" => conn'[f].peer = "failed"
  <2>1. PICK g \in Fd : Answer(g) \/ SendData(g) \/ PeerCloses(g) \/ Lost(g)
    BY DEF Caster
  <2>2. conn[g] \in Connections /\ conn \in [Fd -> Connections]
    BY DEF TypeOK
  <2>3. \A f \in Fd : f # g => conn'[f] = conn[f]
    BY <2>1, <2>2 DEF Answer, SendData, PeerCloses, Lost
  <2>4. conn[g].peer \in {"up", "closed"} /\ conn'[g].peer # "none"
    <3>1. CASE Answer(g)
      BY <2>2, <3>1 DEF Answer, Connections
    <3>2. CASE SendData(g)
      BY <2>2, <3>2 DEF SendData, Connections
    <3>3. CASE PeerCloses(g) \/ Lost(g)
      BY <2>2, <3>3 DEF PeerCloses, Lost, Connections
    <3> QED
      BY <2>1, <3>1, <3>2, <3>3
  <2> QED
    BY <2>3, <2>4
<1> QED
  BY <1>1, <1>2, HeldFrame DEF OnlyConn, counts, locals

\* Every step keeps Held.
LEMMA HeldStep == TypeOK /\ Held /\ [Next]_vars => Held'
<1> SUFFICES ASSUME TypeOK, Held, [Next]_vars PROVE Held'
  OBVIOUS
<1>1. CASE UNCHANGED vars
  BY <1>1, HeldFrame DEF vars, counts, locals
<1>2. CASE Stop
  BY <1>2 DEF Stop, Held, TypeOK
<1>3. CASE CallerNext
  BY <1>3, HeldClose DEF CallerNext, Proc
<1>4. CASE ThreadNext
  BY <1>4, HeldClose, HeldIdle, HeldOpen, HeldTransfer DEF ThreadNext, Proc
<1> QED
  BY <1>1, <1>2, <1>3, <1>4, HeldIdle, HeldPeers DEF Next

\* Until Stop is called only a connect that failed leaves a socket behind,
\* however often the client connects again (ThreadHandler, open_socket).
THEOREM SocketsOwned == Spec => []NoSocketLost
<1>1. Init => Held
  BY DEF Init, Held, Open, Unused, Thread, Caller
<1>2. Held => NoSocketLost
  BY DEF Held, NoSocketLost, Owned
<1> QED
  BY <1>1, <1>2, HeldStep, TypeCorrect, PTL DEF Spec

-----------------------------------------------------------------------------
(* DeliveredAsSent.                                                         *)

IsData(cell) == cell.kind = "data"

\* Where the thread has a connection, and where it has not passed anything of it on.
Loop == {"request", "login", "select", "write", "read"}
Fresh == {"connect", "request", "login"}

\* The data on the wire of a connection are the last that were sent, in order, after
\* whatever there still is of the answer.
WireAsSent(c) ==
    /\ \A j \in 1..Len(c.wire) :
          c.wire[j] \in {Line(1), Line(2), Line(3), Data(c.id, c.n - (Len(c.wire) - j))}
    /\ \A j \in 1..Len(c.wire) : IsData(c.wire[j]) =>
          c.answer # "none" /\ \A k \in j..Len(c.wire) : IsData(c.wire[k])

\* The wire goes on after cell m of the data, and has nothing else.
Follows(c, m) ==
    /\ \A j \in 1..Len(c.wire) : c.wire[j] = Data(c.id, m + j)
    /\ c.n = m + Len(c.wire)
    /\ c.answer # "none"

\* A sequence of cells as DeliveredAsSent wants it, the last of its data, and data of
\* connections before or up to c.
AsSent(g) ==
    /\ \A i \in 1..Len(g) : g[i] # Junk
    /\ \A i, j \in 1..Len(g) :
          i < j /\ IsData(g[i]) /\ IsData(g[j]) /\ (\A k \in (i + 1)..(j - 1) : ~IsData(g[k])) =>
              \/ g[j].conn > g[i].conn
              \/ g[j].conn = g[i].conn /\ g[j].n = g[i].n + 1
LastData(g, i) ==
    i \in 1..Len(g) /\ IsData(g[i]) /\ \A k \in 1..Len(g) : IsData(g[k]) => k <= i
Before(g, c) == \A i \in 1..Len(g) : IsData(g[i]) => g[i].conn < c
UpTo(g, c) == \A i \in 1..Len(g) : IsData(g[i]) => g[i].conn <= c
Continues(g, c) == \A i \in 1..Len(g) : LastData(g, i) /\ g[i].conn = c.id => Follows(c, g[i].n)

\* What was passed on is in order, and so is what is on the wires; the socket of the data
\* loop is that of the latest connection, its wire goes on where the callback was left,
\* and recv is called only for what is there.  Without these the next call of recv may
\* well break the order.
Stream ==
    /\ \A f \in Fd : WireAsSent(conn[f])
    /\ pc[Thread] \in {"write", "read"} /\ readable /\ fd \in Open =>
          conn[fd].wire # <<>> \/ conn[fd].peer # "up"
    /\ pc[Thread] = "connect" /\ newFd \in Open => conn[newFd].id = conns
    /\ pc[Thread] \in Loop /\ fd \in Open => conn[fd].id = conns
    /\ pc[Thread] \in Loop /\ fd \in Open /\ conn[fd].peer \in {"up", "closed"} =>
          Continues(got, conn[fd])
    /\ UpTo(got, conns)
    /\ pc[Thread] \in Fresh => Before(got, conns)
    /\ AsSent(got)

\* Lines are not data, and neither is what is in a buffer that was not read into.
LEMMA Cells ==
    /\ \A k : ~IsData(Line(k))
    /\ \A c, n : IsData(Data(c, n)) /\ Data(c, n).conn = c /\ Data(c, n).n = n
    /\ \A c, n : Data(c, n) # Junk
    /\ \A k \in {1, 2, 3} : Line(k) # Junk
BY DEF IsData, Line, Data, Junk

\* A connection whose wire, number and answer are what they were.
LEMMA SameStream ==
    ASSUME NEW c, NEW d, d.wire = c.wire, d.id = c.id, d.n = c.n, d.answer = c.answer
    PROVE  /\ WireAsSent(c) => WireAsSent(d)
           /\ \A m : Follows(c, m) => Follows(d, m)
BY DEF WireAsSent, Follows

\* A wire that was cut from the front.
LEMMA CutStream ==
    ASSUME NEW c \in Connections, NEW d \in Connections, NEW k \in 0..Len(c.wire),
           Len(d.wire) = Len(c.wire) - k, \A j \in 1..(Len(c.wire) - k) : d.wire[j] = c.wire[k + j],
           d.id = c.id, d.n = c.n, d.answer = c.answer, WireAsSent(c)
    PROVE  WireAsSent(d)
<1> DEFINE L == Len(c.wire)
           M == Len(d.wire)
<1>1. c.wire \in Seq(Cell) /\ d.wire \in Seq(Cell) /\ c.n \in Nat
  BY NtripAssumption DEF Connections
<1>2. L \in Nat /\ M \in Nat /\ M = L - k
  BY <1>1
<1>3. /\ \A j \in 1..L : c.wire[j] \in {Line(1), Line(2), Line(3), Data(c.id, c.n - (L - j))}
      /\ \A j \in 1..L : IsData(c.wire[j]) => c.answer # "none" /\ \A h \in j..L : IsData(c.wire[h])
      /\ \A j \in 1..M : d.wire[j] = c.wire[k + j]
  BY <1>2 DEF WireAsSent
<1> HIDE DEF L, M
<1>4. ASSUME NEW j \in 1..M
      PROVE  /\ d.wire[j] \in {Line(1), Line(2), Line(3), Data(d.id, d.n - (M - j))}
             /\ IsData(d.wire[j]) => d.answer # "none" /\ \A h \in j..M : IsData(d.wire[h])
  <2>1. k + j \in 1..L /\ L - (k + j) = M - j /\ \A h \in j..M : k + h \in (k + j)..L /\ h \in 1..M
    BY <1>2, <1>1 DEF L
  <2> QED
    BY <1>3, <2>1
<1> QED
  BY <1>4 DEF WireAsSent, M

\* A wire with one more cell of data.
LEMMA LongerStream ==
    ASSUME NEW c \in Connections, NEW d \in Connections, WireAsSent(c), c.answer = "accept",
           d.wire = Append(c.wire, Data(c.id, c.n + 1)), d.n = c.n + 1, d.id = c.id,
           d.answer = c.answer
    PROVE  WireAsSent(d) /\ \A m \in Nat : Follows(c, m) => Follows(d, m)
<1> DEFINE L == Len(c.wire)
<1>1. c.wire \in Seq(Cell) /\ c.n \in Nat
  BY NtripAssumption DEF Connections
<1>2. /\ L \in Nat /\ Len(d.wire) = L + 1
      /\ \A j \in 1..L : d.wire[j] = c.wire[j]
      /\ d.wire[L + 1] = Data(c.id, c.n + 1)
  BY <1>1
<1>3. /\ \A j \in 1..L : c.wire[j] \in {Line(1), Line(2), Line(3), Data(c.id, c.n - (L - j))}
      /\ \A j \in 1..L : IsData(c.wire[j]) => \A h \in j..L : IsData(c.wire[h])
  BY DEF WireAsSent
<1> HIDE DEF L
<1>4. \A j \in 1..(L + 1) : j \in 1..L \/ j = L + 1
  BY <1>2
<1>5. ASSUME NEW j \in 1..(L + 1)
      PROVE  d.wire[j] \in {Line(1), Line(2), Line(3), Data(d.id, d.n - ((L + 1) - j))}
  <2>1. CASE j \in 1..L
    <3>1. (c.n + 1) - ((L + 1) - j) = c.n - (L - j)
      BY <1>1, <1>2
    <3> QED
      BY <1>2, <1>3, <2>1, <3>1
  <2>2. CASE j = L + 1
    <3>1. (c.n + 1) - ((L + 1) - j) = c.n + 1
      BY <1>1, <1>2, <2>2
    <3> QED
      BY <1>2, <2>2, <3>1
  <2> QED
    BY <1>4, <2>1, <2>2
<1>6. ASSUME NEW j \in 1..(L + 1), IsData(d.wire[j]), NEW h \in j..(L + 1)
      PROVE  IsData(d.wire[h])
  <2>1. CASE h = L + 1
    BY <1>2, <2>1, Cells
  <2>2. CASE h # L + 1
    <3>1. j \in 1..L /\ h \in j..L /\ h \in 1..L
      BY <1>2, <2>2
    <3> QED
      BY <1>2, <1>3, <1>6, <3>1
  <2> QED
    BY <2>1, <2>2
<1>7. ASSUME NEW m \in Nat, Follows(c, m) PROVE Follows(d, m)
  <2>1. /\ \A j \in 1..L : c.wire[j] = Data(c.id, m + j)
        /\ c.n = m + L
    BY <1>7 DEF Follows, L
  <2>2. c.n + 1 = m + (L + 1)
    BY <1>2, <2>1
  <2>3. \A j \in 1..(L + 1) : d.wire[j] = Data(d.id, m + j)
    BY <1>2, <1>4, <2>1, <2>2
  <2> QED
    BY <1>2, <2>2, <2>3 DEF Follows
<1> QED
  BY <1>2, <1>5, <1>6, <1>7 DEF WireAsSent

\* The beginning of a wire, passed on: the order goes on, and with it the rest of the wire.
LEMMA Delivering ==
    ASSUME NEW g \in Seq(Cell), NEW h \in Seq(Cell), NEW c \in Connections, NEW d \in Connections,
           NEW k \in 1..Len(c.wire),
           AsSent(g), UpTo(g, c.id), Continues(g, c), WireAsSent(c),
           Len(h) = Len(g) + k,
           \A i \in 1..Len(g) : h[i] = g[i],
           \A j \in 1..k : h[Len(g) + j] = c.wire[j],
           Len(d.wire) = Len(c.wire) - k, \A j \in 1..(Len(c.wire) - k) : d.wire[j] = c.wire[k + j],
           d.id = c.id, d.n = c.n, d.answer = c.answer
    PROVE  AsSent(h) /\ UpTo(h, c.id) /\ Continues(h, d)
<1> DEFINE L == Len(c.wire)
           G == Len(g)
           w == c.wire
<1>1. w \in Seq(Cell) /\ c.n \in Nat /\ c.id \in Nat /\ L \in Nat /\ G \in Nat /\ k \in 1..L
  BY NtripAssumption DEF Connections
<1>2. /\ Len(h) = G + k
      /\ \A i \in 1..G : h[i] = g[i]
      /\ \A j \in 1..k : h[G + j] = w[j]
      /\ Len(d.wire) = L - k
      /\ \A j \in 1..(L - k) : d.wire[j] = w[k + j]
  OBVIOUS
<1>3. /\ \A j \in 1..L : w[j] \in {Line(1), Line(2), Line(3), Data(c.id, c.n - (L - j))}
      /\ \A j \in 1..L : IsData(w[j]) => c.answer # "none" /\ \A i \in j..L : IsData(w[i])
  BY DEF WireAsSent
<1>4. /\ \A i \in 1..G : g[i] # Junk
      /\ \A i, j \in 1..G :
            i < j /\ IsData(g[i]) /\ IsData(g[j]) /\ (\A e \in (i + 1)..(j - 1) : ~IsData(g[e])) =>
                \/ g[j].conn > g[i].conn
                \/ g[j].conn = g[i].conn /\ g[j].n = g[i].n + 1
  BY DEF AsSent
<1>5. \A i \in 1..G : IsData(g[i]) => g[i].conn <= c.id
  BY DEF UpTo
<1>6. ASSUME NEW i \in 1..G, IsData(g[i]), g[i].conn = c.id,
             \A e \in 1..G : IsData(g[e]) => e <= i
      PROVE  /\ \A j \in 1..L : w[j] = Data(c.id, g[i].n + j)
             /\ c.n = g[i].n + L /\ c.answer # "none"
  BY <1>6 DEF Continues, LastData, Follows
<1>7. \A i \in 1..G : g[i] \in Cell
  BY ElementOfSeq
<1>8. \A i \in 1..G : g[i].conn \in Nat /\ g[i].n \in Nat
  <2>1. \A e \in Cell : e.conn \in Nat /\ e.n \in Nat
    BY NtripAssumption DEF Cell
  <2> QED
    BY <1>7, <2>1
<1>9. \A j \in 1..L : IsData(w[j]) => w[j] = Data(c.id, c.n - (L - j))
  BY <1>3, Cells
<1>10. \A i \in 1..(G + k) : i \in 1..G \/ (i - G \in 1..k /\ i - G \in 1..L /\ G + (i - G) = i)
  BY <1>1
<1> HIDE DEF L, G, w
<1>11. ASSUME NEW i \in 1..(G + k), NEW j \in 1..(G + k), i < j, IsData(h[i]), IsData(h[j]),
              \A e \in (i + 1)..(j - 1) : ~IsData(h[e])
       PROVE  h[j].conn > h[i].conn \/ (h[j].conn = h[i].conn /\ h[j].n = h[i].n + 1)
  <2>1. CASE i \in 1..G /\ j \in 1..G
    <3>1. \A e \in (i + 1)..(j - 1) : e \in 1..G
      BY <1>1, <2>1
    <3>2. h[i] = g[i] /\ h[j] = g[j] /\ \A e \in (i + 1)..(j - 1) : h[e] = g[e]
      BY <1>2, <2>1, <3>1
    <3>3. IsData(g[i]) /\ IsData(g[j]) /\ \A e \in (i + 1)..(j - 1) : ~IsData(g[e])
      BY <1>11, <3>2
    <3>4. g[j].conn > g[i].conn \/ (g[j].conn = g[i].conn /\ g[j].n = g[i].n + 1)
      BY <1>4, <1>11, <2>1, <3>3
    <3> QED
      BY <3>2, <3>4
  <2>2. CASE i \in 1..G /\ j \notin 1..G
    <3> DEFINE p == j - G
    <3>1. p \in 1..k /\ p \in 1..L /\ G + p = j /\ i \in Nat /\ j \in Nat
      BY <1>1, <1>10, <2>2
    <3> HIDE DEF p
    <3>2. h[i] = g[i] /\ h[j] = w[p]
      BY <1>2, <2>2, <3>1
    <3>3. \A e \in 1..G : IsData(g[e]) => e <= i
      <4>1. \A e \in 1..G : e > i => e \in (i + 1)..(j - 1)
        BY <1>1, <3>1
      <4> QED
        BY <1>1, <1>2, <1>11, <2>2, <4>1
    <3>4. h[j].conn = c.id
      <4>1. w[p] = Data(c.id, c.n - (L - p))
        BY <1>9, <1>11, <3>1, <3>2
      <4> QED
        BY <3>2, <4>1, Cells
    <3>5. CASE g[i].conn = c.id
      <4>1. \A q \in 1..L : w[q] = Data(c.id, g[i].n + q)
        BY <1>6, <1>11, <2>2, <3>2, <3>3, <3>5
      <4>2. p = 1
        <5>1. p # 1 => 1 \in 1..L /\ 1 \in 1..k /\ G + 1 \in (i + 1)..(j - 1)
          BY <1>1, <2>2, <3>1
        <5>2. p # 1 => h[G + 1] = w[1] /\ IsData(w[1])
          BY <1>2, <4>1, <5>1, Cells
        <5> QED
          BY <1>11, <5>1, <5>2
      <4>3. h[j].n = g[i].n + 1
        BY <3>1, <3>2, <4>1, <4>2, Cells
      <4> QED
        BY <3>2, <3>4, <3>5, <4>3
    <3>6. CASE g[i].conn # c.id
      <4>1. g[i].conn <= c.id /\ g[i].conn \in Nat
        BY <1>5, <1>8, <1>11, <2>2, <3>2
      <4>2. g[i].conn < c.id
        <5> DEFINE x == g[i].conn
                   y == c.id
        <5>1. x \in Nat /\ y \in Nat /\ x <= y /\ x # y
          BY <1>1, <3>6, <4>1
        <5> HIDE DEF x, y
        <5>2. x < y
          BY <5>1
        <5> QED
          BY <5>2 DEF x, y
      <4>3. h[j].conn > g[i].conn
        BY <1>1, <3>4, <4>1, <4>2
      <4> QED
        BY <3>2, <4>3
    <3> QED
      BY <3>5, <3>6
  <2>3. CASE i \notin 1..G
    <3> DEFINE o == i - G
               p == j - G
    <3>1. o \in 1..k /\ o \in 1..L /\ p \in 1..k /\ p \in 1..L /\ G + o = i /\ G + p = j
      BY <1>1, <1>10, <1>11, <2>3
    <3>2. h[i] = w[o] /\ h[j] = w[p] /\ o < p
      BY <1>1, <1>2, <1>11, <3>1
    <3>3. p = o + 1
      <4>1. p # o + 1 => o + 1 \in o..L /\ o + 1 \in 1..k /\ G + (o + 1) \in (i + 1)..(j - 1)
        BY <1>1, <3>1, <3>2
      <4>2. p # o + 1 => IsData(w[o + 1]) /\ h[G + (o + 1)] = w[o + 1]
        BY <1>2, <1>3, <1>11, <3>1, <3>2, <4>1
      <4> QED
        BY <1>11, <4>1, <4>2
    <3>4. w[o] = Data(c.id, c.n - (L - o)) /\ w[p] = Data(c.id, c.n - (L - p))
      BY <1>9, <1>11, <3>1, <3>2
    <3>5. c.n - (L - p) = (c.n - (L - o)) + 1
      BY <1>1, <3>1, <3>3
    <3> HIDE DEF o, p
    <3> QED
      BY <3>2, <3>4, <3>5, Cells
  <2> QED
    BY <2>1, <2>2, <2>3
<1>12. ASSUME NEW i \in 1..(G + k) PROVE h[i] # Junk
  <2>1. CASE i \in 1..G
    BY <1>2, <1>4, <2>1
  <2>2. CASE i \notin 1..G
    <3>1. h[i] = w[i - G] /\ i - G \in 1..L
      BY <1>2, <1>10, <2>2
    <3> QED
      BY <1>3, <3>1, Cells
  <2> QED
    BY <2>1, <2>2
<1>13. ASSUME NEW i \in 1..(G + k), IsData(h[i]) PROVE h[i].conn <= c.id
  <2>1. CASE i \in 1..G
    BY <1>2, <1>5, <1>13, <2>1
  <2>2. CASE i \notin 1..G
    <3> DEFINE o == i - G
    <3>1. h[i] = w[o] /\ o \in 1..L
      BY <1>2, <1>10, <2>2
    <3> HIDE DEF o
    <3>2. h[i].conn = c.id
      <4>1. w[o] = Data(c.id, c.n - (L - o))
        BY <1>9, <1>13, <3>1
      <4> QED
        BY <3>1, <4>1, Cells
    <3> QED
      BY <1>1, <3>2
  <2> QED
    BY <2>1, <2>2
<1>14. ASSUME NEW i \in 1..(G + k), IsData(h[i]), h[i].conn = c.id,
              \A e \in 1..(G + k) : IsData(h[e]) => e <= i
       PROVE  Follows(d, h[i].n)
  <2>1. CASE i \in 1..G
    <3>1. \A e \in 1..G : IsData(g[e]) => e <= i
      BY <1>1, <1>2, <1>14
    <3>2. w[1] = Data(c.id, g[i].n + 1) /\ h[G + 1] = w[1]
      <4>1. IsData(g[i]) /\ g[i].conn = c.id
        BY <1>2, <1>14, <2>1
      <4>2. \A j \in 1..L : w[j] = Data(c.id, g[i].n + j)
        BY <1>6, <2>1, <3>1, <4>1
      <4>3. 1 \in 1..L /\ 1 \in 1..k
        BY <1>1
      <4> QED
        BY <1>2, <4>2, <4>3
    <3>3. G + 1 \in 1..(G + k) /\ ~(G + 1 <= i)
      BY <1>1, <2>1
    <3> QED
      BY <1>14, <3>2, <3>3, Cells
  <2>2. CASE i \notin 1..G
    <3> DEFINE o == i - G
    <3>1. o \in 1..k /\ o \in 1..L /\ G + o = i
      BY <1>10, <2>2
    <3>2. h[i] = w[o]
      BY <1>2, <3>1
    <3>3. \A e \in o..L : IsData(w[e])
      BY <1>3, <1>14, <3>1, <3>2
    <3>4. o = k
      <4>1. o # k => k \in o..L /\ k \in 1..k /\ G + k \in 1..(G + k) /\ ~(G + k <= i)
        BY <1>1, <3>1
      <4>2. o # k => IsData(h[G + k])
        BY <1>2, <3>3, <4>1
      <4> QED
        BY <1>14, <4>1, <4>2
    <3>5. h[i].n = c.n - (L - k)
      BY <1>9, <1>14, <3>1, <3>2, <3>4, Cells
    <3>6. c.answer # "none"
      BY <1>3, <1>14, <3>1, <3>2
    <3>7. ASSUME NEW j \in 1..(L - k) PROVE d.wire[j] = Data(d.id, h[i].n + j)
      <4>1. k + j \in o..L /\ k + j \in 1..L /\ c.n - (L - (k + j)) = (c.n - (L - k)) + j
        BY <1>1, <3>1, <3>4
      <4>2. d.wire[j] = w[k + j] /\ IsData(w[k + j])
        BY <1>2, <3>3, <4>1
      <4> QED
        BY <1>9, <3>5, <4>1, <4>2
    <3>8. d.n = h[i].n + (L - k)
      BY <1>1, <3>5
    <3> QED
      BY <1>2, <3>6, <3>7, <3>8 DEF Follows
  <2> QED
    BY <2>1, <2>2
<1>15. AsSent(h)
  BY <1>2, <1>11, <1>12 DEF AsSent
<1>16. UpTo(h, c.id)
  BY <1>2, <1>13 DEF UpTo
<1>17. Continues(h, d)
  BY <1>2, <1>14 DEF Continues, LastData
<1> QED
  BY <1>15, <1>16, <1>17

\* Steps that pass nothing on: the loop's connection is the one it was, with the same wire
\* or a longer one, or nothing of it was passed on yet.
LEMMA StreamFrame ==
    ASSUME TypeOK, Stream, got' = got, conns' = conns,
           (\A f \in Fd : WireAsSent(conn[f]))',
           (pc[Thread] \in {"write", "read"} /\ readable /\ fd \in Open =>
               conn[fd].wire # <<>> \/ conn[fd].peer # "up")',
           (pc[Thread] = "connect" /\ newFd \in Open => conn[newFd].id = conns)',
           pc'[Thread] \in Loop /\ fd' \in Open' => conn'[fd'].id = conns,
           pc'[Thread] \in Loop /\ fd' \in Open' /\ conn'[fd'].peer \in {"up", "closed"} =>
               \/ pc[Thread] \in Fresh
               \/ /\ pc[Thread] \in Loop /\ fd \in Open /\ conn[fd].peer \in {"up", "closed"}
                  /\ \A m \in Nat : Follows(conn[fd], m) => Follows(conn'[fd'], m),
           pc'[Thread] \in Fresh => pc[Thread] \in Fresh
    PROVE  Stream'
<1>1. /\ pc[Thread] \in Loop /\ fd \in Open => conn[fd].id = conns
      /\ pc[Thread] \in Loop /\ fd \in Open /\ conn[fd].peer \in {"up", "closed"} =>
            Continues(got, conn[fd])
      /\ UpTo(got, conns)
      /\ pc[Thread] \in Fresh => Before(got, conns)
      /\ AsSent(got)
  BY DEF Stream
<1>2. got \in Seq(Cell) /\ \A i \in 1..Len(got) : got[i].n \in Nat /\ got[i].conn \in Nat
  <2>1. \A e \in Cell : e.n \in Nat /\ e.conn \in Nat
    BY NtripAssumption DEF Cell
  <2>2. got \in Seq(Cell)
    BY DEF TypeOK
  <2>3. \A i \in 1..Len(got) : got[i] \in Cell
    BY <2>2, ElementOfSeq
  <2> QED
    BY <2>1, <2>2, <2>3
<1>3. ASSUME pc'[Thread] \in Loop, fd' \in Open', conn'[fd'].peer \in {"up", "closed"}
      PROVE  Continues(got, conn'[fd'])
  <2>0. conn'[fd'].id = conns
    BY <1>3
  <2>1. CASE pc[Thread] \in Fresh
    <3>1. Before(got, conns) /\ conns \in Nat
      BY <1>1, <2>1, NtripAssumption DEF TypeOK
    <3>2. \A i \in 1..Len(got) : IsData(got[i]) => got[i].conn # conns
      BY <1>2, <3>1 DEF Before
    <3> QED
      BY <2>0, <3>2 DEF Continues, LastData
  <2>2. CASE /\ pc[Thread] \in Loop /\ fd \in Open /\ conn[fd].peer \in {"up", "closed"}
             /\ \A m \in Nat : Follows(conn[fd], m) => Follows(conn'[fd'], m)
    <3>1. conn[fd].id = conns /\ Continues(got, conn[fd])
      BY <1>1, <2>2
    <3> QED
      BY <1>2, <2>0, <2>2, <3>1 DEF Continues
  <2> QED
    BY <1>3, <2>1, <2>2
<1>4. (pc[Thread] \in Loop /\ fd \in Open /\ conn[fd].peer \in {"up", "closed"} =>
          Continues(got, conn[fd]))'
  BY <1>3
<1>5. /\ UpTo(got, conns)' /\ AsSent(got)'
      /\ (pc[Thread] \in Fresh => Before(got, conns))'
  BY <1>1
<1> QED
  BY <1>4, <1>5 DEF Stream

\* Steps that touch no connection.
LEMMA StreamSame ==
    ASSUME TypeOK, Stream, UNCHANGED <<got, conns, conn, newFd>>, fd' \in {fd, NoFd},
           pc'[Thread] \in Loop => pc[Thread] \in Loop,
           pc'[Thread] = "connect" => pc[Thread] = "connect",
           pc'[Thread] \in Fresh => pc[Thread] \in Fresh,
           pc'[Thread] \in {"write", "read"} /\ readable' /\ fd \in Open =>
               \/ pc[Thread] \in {"write", "read"} /\ readable
               \/ conn[fd].wire # <<>> \/ conn[fd].peer # "up"
    PROVE  Stream'
<1>1. Open' = Open /\ NoFd \notin Open
  BY DEF Open, NoFd, Fd
<1>2. fd' \in Open' => fd' = fd /\ fd \in Open
  BY <1>1
<1> QED
  BY <1>1, <1>2, StreamFrame DEF Stream

\* Steps that touch one.
LEMMA StreamOne ==
    ASSUME TypeOK, Stream, UNCHANGED <<got, conns, fd, newFd>>, NEW f \in Fd, NEW d \in Connections,
           conn' = [conn EXCEPT ![f] = d], WireAsSent(d),
           d.peer # "none" => conn[f].peer # "none" /\ d.id = conn[f].id,
           d.peer \in {"up", "closed"} =>
               /\ conn[f].peer \in {"up", "closed"}
               /\ pc[Thread] \in Fresh \/ \A m \in Nat : Follows(conn[f], m) => Follows(d, m),
           pc'[Thread] \in Loop => pc[Thread] \in Loop,
           pc'[Thread] = "connect" => pc[Thread] = "connect",
           pc'[Thread] \in Fresh => pc[Thread] \in Fresh,
           pc'[Thread] \in {"write", "read"} =>
               /\ pc[Thread] \in {"write", "read"} /\ readable' = readable
               /\ conn[f].wire # <<>> \/ conn[f].peer # "up" => d.wire # <<>> \/ d.peer # "up"
    PROVE  Stream'
<1>0. conn \in [Fd -> Connections]
  BY DEF TypeOK
<1>1. /\ conn'[f] = d /\ \A g \in Fd : g # f => conn'[g] = conn[g]
      /\ \A g \in Open' : g \in Open /\ g \in Fd /\ conn'[g].id = conn[g].id
  BY <1>0 DEF Open
<1>2. \A g \in Fd : WireAsSent(conn'[g])
  BY <1>1 DEF Stream
<1>3. ASSUME pc'[Thread] \in {"write", "read"}, readable', fd' \in Open'
      PROVE  conn'[fd'].wire # <<>> \/ conn'[fd'].peer # "up"
  BY <1>1, <1>3 DEF Stream
<1>4. ASSUME pc'[Thread] = "connect", newFd' \in Open' PROVE conn'[newFd'].id = conns'
  BY <1>1, <1>4 DEF Stream
<1>5. ASSUME pc'[Thread] \in Loop, fd' \in Open' PROVE conn'[fd'].id = conns
  BY <1>1, <1>5 DEF Stream
<1>6. ASSUME pc'[Thread] \in Loop, fd' \in Open', conn'[fd'].peer \in {"up", "closed"}
      PROVE  \/ pc[Thread] \in Fresh
             \/ /\ pc[Thread] \in Loop /\ fd \in Open /\ conn[fd].peer \in {"up", "closed"}
                /\ \A m \in Nat : Follows(conn[fd], m) => Follows(conn'[fd'], m)
  BY <1>1, <1>6
<1> QED
  BY <1>2, <1>3, <1>4, <1>5, <1>6, StreamFrame

\* A socket that is closed has nothing on its wire.
LEMMA NoStream ==
    ASSUME NEW c, c.wire = <<>>
    PROVE  WireAsSent(c)
BY DEF WireAsSent

\* close_socket, Start and Stop, and what the thread does between connections.
LEMMA StreamClose ==
    ASSUME TypeOK, Stream,
           \/ Start \/ Stop \/ Begin \/ While \/ End
           \/ \E p \in Proc : CloseTest(p) \/ Close(p) \/ Clear(p)
    PROVE  Stream'
<1> USE DEF Loop, Fresh
<1>0. /\ pc \in [{Thread, Caller} -> Step] /\ ret \in [{Thread, Caller} -> {"idle", "socket", "end"}]
      /\ Thread # Caller
  BY DEF TypeOK, Thread, Caller
<1>1. CASE Start \/ Stop \/ Begin \/ While \/ End
  <2>1. /\ UNCHANGED <<got, conns, conn, newFd, fd, readable>>
        /\ pc'[Thread] = pc[Thread] \/ pc'[Thread] \in {"begin", "while", "closeTest", "ended"}
    BY <1>0, <1>1 DEF Start, Stop, Begin, While, End, CloseSocket, Goto, locals
  <2> QED
    BY <2>1, StreamSame
<1>2. ASSUME NEW p \in Proc, CloseTest(p) \/ Clear(p) PROVE Stream'
  <2>1. /\ UNCHANGED <<got, conns, conn, newFd, readable>> /\ fd' \in {fd, NoFd}
        /\ pc'[Thread] = pc[Thread] \/ pc'[Thread] \in {"close", "idle", "socket", "end"}
    BY <1>0, <1>2 DEF CloseTest, Clear, Goto, locals, Proc
  <2> QED
    BY <2>1, StreamSame
<1>3. ASSUME NEW p \in Proc, Close(p) PROVE Stream'
  <2>1. /\ UNCHANGED <<got, conns, newFd, fd, readable>>
        /\ pc'[Thread] = pc[Thread] \/ pc'[Thread] = "clear"
        /\ conn' = conn \/ \E f \in Fd : conn' = [conn EXCEPT ![f] = Unused]
    BY <1>0, <1>3 DEF Close, Goto, locals, Proc
  <2>2. CASE conn' = conn
    BY <2>1, <2>2, StreamSame
  <2>3. CASE \E f \in Fd : conn' = [conn EXCEPT ![f] = Unused]
    <3>1. PICK f \in Fd : conn' = [conn EXCEPT ![f] = Unused]
      BY <2>3
    <3>2. Unused \in Connections /\ Unused.peer = "none" /\ Unused.wire = <<>>
      BY CellTypes DEF Unused
    <3>3. WireAsSent(Unused)
      BY <3>2, NoStream
    <3> QED
      BY <2>1, <3>1, <3>2, <3>3, StreamOne
  <2> QED
    BY <2>1, <2>2, <2>3
<1> QED
  BY <1>1, <1>2, <1>3

\* The caster and the network.
LEMMA StreamPeers ==
    ASSUME TypeOK, Stream, Caster
    PROVE  Stream'
<1>1. PICK f \in Fd : Answer(f) \/ SendData(f) \/ PeerCloses(f) \/ Lost(f)
  BY DEF Caster
<1>2. UNCHANGED <<pc, got, conns, fd, newFd, readable>>
  BY <1>1 DEF Answer, SendData, PeerCloses, Lost, OnlyConn, locals
<1> DEFINE c == conn[f]
<1>3. c \in Connections /\ conn \in [Fd -> Connections] /\ WireAsSent(c)
      /\ DOMAIN c = {"peer", "id", "asked", "answer", "poked", "wire", "n"}
  <2>1. c \in Connections /\ conn \in [Fd -> Connections]
    BY DEF TypeOK
  <2>2. \A e \in Connections : DOMAIN e = {"peer", "id", "asked", "answer", "poked", "wire", "n"}
    BY DEF Connections
  <2> QED
    BY <2>1, <2>2 DEF Stream
<1>4. ASSUME NEW d, d \in Connections, conn' = [conn EXCEPT ![f] = d], WireAsSent(d),
             c.peer \in {"up", "closed"}, d.id = c.id,
             d.peer \in {"up", "closed"} => \A m \in Nat : Follows(c, m) => Follows(d, m),
             c.wire # <<>> \/ c.peer # "up" => d.wire # <<>> \/ d.peer # "up"
      PROVE  Stream'
  BY <1>2, <1>4, StreamOne
<1> HIDE DEF c
<1>5. CASE Answer(f)
  <2>1. PICK d \in {[c EXCEPT !.answer = "accept", !.wire = Accept],
                    [c EXCEPT !.answer = "refuse", !.wire = Refuse]} :
            conn' = [conn EXCEPT ![f] = d]
    BY <1>5 DEF Answer, c
  <2>2. c.peer = "up" /\ c.answer = "none"
    BY <1>5 DEF Answer, c
  <2>3. /\ d.id = c.id /\ d.peer = "up" /\ d.wire \in {Accept, Refuse}
    BY <1>3, <2>2
  <2>4. d \in Connections
    BY <1>3, Updates
  <2>5. WireAsSent(d) /\ d.wire # <<>>
    <3>1. \A w \in {Accept, Refuse} :
            w # <<>> /\ \A j \in 1..Len(w) : w[j] \in {Line(1), Line(2), Line(3)}
      BY DEF Accept, Refuse
    <3>2. d.wire # <<>> /\ \A j \in 1..Len(d.wire) : d.wire[j] \in {Line(1), Line(2), Line(3)}
      BY <2>3, <3>1
    <3>3. \A j \in 1..Len(d.wire) : ~IsData(d.wire[j])
      BY <3>2, Cells
    <3> QED
      BY <3>2, <3>3 DEF WireAsSent
  <2>6. \A m : ~Follows(c, m)
    BY <2>2 DEF Follows
  <2> QED
    BY <1>4, <2>1, <2>2, <2>3, <2>4, <2>5, <2>6
<1>6. CASE SendData(f)
  <2> DEFINE d == [c EXCEPT !.n = c.n + 1, !.wire = Append(c.wire, Data(c.id, c.n + 1))]
  <2>1. conn' = [conn EXCEPT ![f] = d] /\ c.peer = "up" /\ c.answer = "accept" /\ c.n < MaxData
    BY <1>3, <1>6 DEF SendData, c
  <2>2. /\ d.id = c.id /\ d.peer = "up" /\ d.answer = c.answer /\ d.n = c.n + 1
        /\ d.wire = Append(c.wire, Data(c.id, c.n + 1))
    BY <1>3, <2>1
  <2>3. d \in Connections
    <3>1. c.n + 1 \in 0..MaxData /\ c.id \in 0..MaxConns /\ c.wire \in Seq(Cell)
      BY <1>3, <2>1, NtripAssumption DEF Connections
    <3>2. Append(c.wire, Data(c.id, c.n + 1)) \in Seq(Cell)
      BY <3>1, CellTypes
    <3> QED
      BY <1>3, <3>1, <3>2 DEF Connections
  <2>4. d.wire # <<>>
    <3>1. c.wire \in Seq(Cell)
      BY <1>3 DEF Connections
    <3> QED
      BY <2>2, <3>1
  <2> HIDE DEF d
  <2>5. WireAsSent(d) /\ \A m \in Nat : Follows(c, m) => Follows(d, m)
    BY <1>3, <2>1, <2>2, <2>3, LongerStream
  <2> QED
    BY <1>4, <2>1, <2>2, <2>3, <2>4, <2>5
<1>7. CASE PeerCloses(f)
  <2> DEFINE d == [c EXCEPT !.peer = "closed"]
  <2>1. conn' = [conn EXCEPT ![f] = d] /\ c.peer = "up"
    BY <1>7 DEF PeerCloses, c
  <2>2. /\ d.id = c.id /\ d.peer = "closed" /\ d.answer = c.answer /\ d.n = c.n /\ d.wire = c.wire
    BY <1>3
  <2>3. d \in Connections
    BY <1>3, Updates
  <2> HIDE DEF d
  <2>4. WireAsSent(d) /\ \A m : Follows(c, m) => Follows(d, m)
    BY <1>3, <2>2, SameStream
  <2> QED
    BY <1>4, <2>1, <2>2, <2>3, <2>4
<1>8. CASE Lost(f)
  <2> DEFINE d == [c EXCEPT !.peer = "reset", !.wire = <<>>]
  <2>1. conn' = [conn EXCEPT ![f] = d] /\ c.peer \in {"up", "closed"}
    BY <1>8 DEF Lost, c
  <2>2. d.id = c.id /\ d.peer = "reset" /\ d.wire = <<>>
    BY <1>3
  <2>3. d \in Connections
    BY <1>3, Updates
  <2> HIDE DEF d
  <2>4. WireAsSent(d)
    BY <2>2, NoStream
  <2> QED
    BY <1>4, <2>1, <2>2, <2>3, <2>4
<1> QED
  BY <1>1, <1>5, <1>6, <1>7, <1>8

\* open_socket: what was passed on is of earlier connections.
LEMMA StreamOpen ==
    ASSUME TypeOK, Stream, Socket \/ Connect
    PROVE  Stream'
<1> USE DEF Loop, Fresh
<1>0. /\ pc \in [{Thread, Caller} -> Step] /\ Thread # Caller /\ conn \in [Fd -> Connections]
      /\ conns \in Nat /\ got \in Seq(Cell)
      /\ \A i \in 1..Len(got) : got[i].conn \in Nat
  <2>1. \A e \in Cell : e.conn \in Nat
    BY NtripAssumption DEF Cell
  <2>2. got \in Seq(Cell) /\ conns \in 0..MaxConns
    BY DEF TypeOK
  <2>3. \A i \in 1..Len(got) : got[i] \in Cell
    BY <2>2, ElementOfSeq
  <2> QED
    BY <2>1, <2>2, <2>3, NtripAssumption DEF TypeOK, Thread, Caller
<1>1. CASE Socket
  <2>1. /\ conns' = conns + 1 /\ UNCHANGED <<got, fd, readable>>
    BY <1>1 DEF Socket
  <2>2. UpTo(got, conns)' /\ Before(got, conns)' /\ AsSent(got)'
    <3>1. UpTo(got, conns) /\ AsSent(got)
      BY DEF Stream
    <3>2. \A i \in 1..Len(got) : IsData(got[i]) => got[i].conn < conns + 1
      BY <1>0, <3>1 DEF UpTo
    <3>3. \A i \in 1..Len(got) : IsData(got[i]) => got[i].conn <= conns + 1
      BY <1>0, <3>2
    <3> QED
      BY <2>1, <3>1, <3>2, <3>3 DEF UpTo, Before
  <2>3. CASE Goto(Thread, "while") /\ UNCHANGED <<newFd, conn>>
    <3>1. pc'[Thread] = "while"
      BY <1>0, <2>3 DEF Goto
    <3> QED
      BY <2>1, <2>2, <2>3, <3>1 DEF Stream
  <2>4. CASE \E f \in Free : /\ newFd' = f
                             /\ conn' = [conn EXCEPT ![f] = Connection("opening", conns + 1)]
                             /\ Goto(Thread, "connect")
    <3>1. PICK f \in Free : /\ newFd' = f
                            /\ conn' = [conn EXCEPT ![f] = Connection("opening", conns + 1)]
                            /\ pc'[Thread] = "connect"
      BY <1>0, <2>4 DEF Goto
    <3> DEFINE c == Connection("opening", conns + 1)
    <3>2. c.wire = <<>> /\ c.id = conns + 1
      BY DEF Connection, Unused
    <3>3. WireAsSent(c)
      BY <3>2, NoStream
    <3> HIDE DEF c
    <3>4. conn' = [conn EXCEPT ![f] = c] /\ f \in Fd
      BY <3>1 DEF c, Free
    <3>5. \A g \in Fd : WireAsSent(conn'[g])
      BY <1>0, <3>3, <3>4 DEF Stream
    <3>6. conn'[newFd'].id = conns'
      BY <1>0, <2>1, <3>1, <3>2, <3>4
    <3> QED
      BY <2>2, <3>1, <3>5, <3>6 DEF Stream
  <2> QED
    BY <1>1, <2>3, <2>4 DEF Socket
<1>2. CASE Connect
  <2>1. /\ UNCHANGED <<got, conns, newFd>> /\ pc[Thread] = "connect"
        /\ pc'[Thread] \in {"request", "while"}
    BY <1>0, <1>2 DEF Connect, Goto, locals
  <2>2. CASE conn' = conn /\ pc'[Thread] = "while"
    BY <1>0, <2>1, <2>2, StreamFrame DEF Stream
  <2>3. CASE newFd \in Open /\ \E v \in {"up", "failed"} : conn' = [conn EXCEPT ![newFd].peer = v]
             /\ (pc'[Thread] = "request" => fd' = newFd)
    <3>1. PICK v \in {"up", "failed"} : conn' = [conn EXCEPT ![newFd].peer = v]
      BY <2>3
    <3> DEFINE c == conn[newFd]
               d == [c EXCEPT !.peer = v]
    <3>2. newFd \in Fd /\ c \in Connections /\ WireAsSent(c) /\ c.id = conns
      BY <1>0, <2>1, <2>3 DEF Stream, Open
    <3>3. d.wire = c.wire /\ d.id = c.id /\ d.n = c.n /\ d.answer = c.answer
      BY <3>2 DEF Connections
    <3> HIDE DEF d
    <3>4. WireAsSent(d)
      BY <3>2, <3>3, SameStream
    <3>5. conn' = [conn EXCEPT ![newFd] = d]
      BY <3>1 DEF d
    <3>6. \A g \in Fd : WireAsSent(conn'[g])
      BY <1>0, <3>2, <3>4, <3>5 DEF Stream
    <3>7. conn'[newFd].id = conns
      BY <1>0, <3>2, <3>3, <3>5
    <3> QED
      BY <2>1, <2>3, <3>6, <3>7, StreamFrame
  <2> QED
    BY <1>0, <1>2, <2>1, <2>2, <2>3 DEF Connect, Goto
<1> QED
  BY <1>1, <1>2

\* The request and the GGA sentences change what the peer knows, and nothing on the wire.
LEMMA StreamSend ==
    ASSUME TypeOK, Stream, Request \/ WriteGga \/ Select
    PROVE  Stream'
<1> USE DEF Loop, Fresh
<1>0. /\ pc \in [{Thread, Caller} -> Step] /\ Thread # Caller /\ conn \in [Fd -> Connections]
  BY DEF TypeOK, Thread, Caller
<1>1. CASE Select
  <2>1. UNCHANGED <<got, conns, conn, newFd, fd>> /\ pc[Thread] = "select"
    BY <1>1 DEF Select
  <2>2. \/ pc'[Thread] \in {"while", "select"}
        \/ pc'[Thread] = "write" /\ readable' = (conn[fd].wire # <<>> \/ conn[fd].peer # "up")
    <3>1. CASE fd = NoFd /\ UNCHANGED <<pc, readable>>
      BY <2>1, <3>1
    <3>2. CASE fd # NoFd /\ fd \notin Open /\ Goto(Thread, "while")
      BY <1>0, <3>2 DEF Goto
    <3>3. CASE /\ readable' = (conn[fd].wire # <<>> \/ conn[fd].peer # "up")
               /\ \E step \in {"write", "while", "select"} : Goto(Thread, step)
      BY <1>0, <3>3 DEF Goto
    <3> QED
      BY <1>1, <3>1, <3>2, <3>3 DEF Select
  <2> QED
    BY <2>1, <2>2, StreamSame
<1>2. CASE Request \/ WriteGga
  <2>1. /\ UNCHANGED <<got, conns, newFd, fd, readable>>
        /\ \/ pc[Thread] = "request" /\ pc'[Thread] \in {"login", "while"}
           \/ pc[Thread] = "write" /\ pc'[Thread] \in {"read", "while"}
    BY <1>0, <1>2 DEF Request, WriteGga, Goto, locals
  <2>2. CASE ~SendWorks(fd)
    <3>1. conn' = conn
      BY <1>2, <2>2 DEF Request, WriteGga
    <3>2. pc'[Thread] \in {"write", "read"} => pc[Thread] \in {"write", "read"}
      BY <2>1
    <3> QED
      BY <2>1, <3>1, <3>2, StreamSame
  <2>3. CASE SendWorks(fd)
    <3> DEFINE c == conn[fd]
    <3>1. fd \in Fd /\ fd \in Open /\ c.peer \in {"up", "closed"} /\ c \in Connections /\ WireAsSent(c)
      BY <1>0, <2>3 DEF SendWorks, Open, Stream
    <3>2. PICK b \in BOOLEAN : \/ conn' = [conn EXCEPT ![fd] = [c EXCEPT !.asked = TRUE, !.poked = b]]
                               \/ conn' = [conn EXCEPT ![fd] = [c EXCEPT !.poked = b]]
      <4>1. CASE Request
        <5>1. conn' = [conn EXCEPT ![fd] = [c EXCEPT !.asked = TRUE, !.poked = (c.peer = "closed")]]
          BY <2>3, <4>1 DEF Request
        <5>2. (c.peer = "closed") \in BOOLEAN
          OBVIOUS
        <5> QED
          BY <5>1, <5>2
      <4>2. CASE WriteGga
        <5>1. conn' = [conn EXCEPT ![fd] = [c EXCEPT !.poked = (c.poked \/ c.peer = "closed")]]
          BY <2>3, <4>2 DEF WriteGga
        <5>2. (c.poked \/ c.peer = "closed") \in BOOLEAN
          OBVIOUS
        <5> QED
          BY <5>1, <5>2
      <4> QED
        BY <1>2, <4>1, <4>2
    <3>3. PICK d : /\ d \in {[c EXCEPT !.asked = TRUE, !.poked = b], [c EXCEPT !.poked = b]}
                   /\ conn' = [conn EXCEPT ![fd] = d]
      BY <3>2
    <3>4. /\ d \in Connections /\ d.peer = c.peer
          /\ d.wire = c.wire /\ d.id = c.id /\ d.n = c.n /\ d.answer = c.answer
      <4>1. d \in Connections
        BY <3>1, <3>3, Updates
      <4> QED
        BY <3>1, <3>3, <4>1 DEF Connections
    <3>5. WireAsSent(d) /\ \A m : Follows(c, m) => Follows(d, m)
      BY <3>1, <3>4, SameStream
    <3> QED
      BY <2>1, <3>1, <3>3, <3>4, <3>5, StreamOne
  <2> QED
    BY <2>2, <2>3
<1> QED
  BY <1>1, <1>2

\* recv takes k cells from connection c, which becomes d.
Takes(c, d, r, k) ==
    /\ r.ok /\ k <= BufSize /\ r.length = k
    /\ \A i \in 1..k : r.buf[i] = c.wire[i]
    /\ Len(d.wire) = Len(c.wire) - k
    /\ \A j \in 1..(Len(c.wire) - k) : d.wire[j] = c.wire[k + j]

\* What recv does to the socket it reads: nothing is left on one that has failed, nothing
\* was on the wire, or the first cells of the wire are taken into the buffer.
LEMMA Receiving ==
    ASSUME TypeOK, NEW f \in Open, NEW r \in ReadSocket(f), WireAsSent(conn[f]),
           NEW d, d = [conn[f] EXCEPT !.wire = r.left]
    PROVE  /\ Received(f, r) = [conn EXCEPT ![f] = d]
           /\ d \in Connections /\ d.peer = conn[f].peer /\ d.id = conn[f].id
           /\ d.n = conn[f].n /\ d.answer = conn[f].answer
           /\ WireAsSent(d)
           /\ \/ conn[f].peer \notin {"up", "closed"} /\ ~r.ok
              \/ /\ conn[f].peer \in {"up", "closed"} /\ r.ok
                 /\ conn[f].wire = <<>> /\ d.wire = <<>>
                 /\ conn[f].peer = "closed" => r.length = 0
              \/ /\ conn[f].peer \in {"up", "closed"}
                 /\ \E k \in 1..Len(conn[f].wire) : Takes(conn[f], d, r, k)
<1> DEFINE c == conn[f]
           w == c.wire
<1>1. f \in Fd /\ c \in Connections /\ w \in Seq(Cell) /\ r.left \in Seq(Cell)
  BY ReadTypes DEF Open, TypeOK, Connections
<1>2. Received(f, r) = [conn EXCEPT ![f] = d]
  BY DEF Received
<1>3. /\ d \in Connections /\ d.peer = c.peer /\ d.id = c.id /\ d.n = c.n /\ d.answer = c.answer
      /\ d.wire = r.left
  <2> DEFINE W == Seq(Cell)
  <2>1. r.left \in W
    BY <1>1
  <2> HIDE DEF W
  <2>2. Connections = [peer : {"none", "opening", "failed", "up", "closed", "reset"},
                       id : 0..MaxConns, asked : BOOLEAN, answer : {"none", "accept", "refuse"},
                       poked : BOOLEAN, wire : W, n : 0..MaxData]
    BY DEF Connections, W
  <2> QED
    BY <1>1, <2>1, <2>2
<1>4. CASE c.peer \notin {"up", "closed"}
  <2>1. ~r.ok /\ r.left = <<>>
    BY <1>4 DEF ReadSocket
  <2> QED
    BY <1>2, <1>3, <1>4, <2>1, NoStream
<1>5. CASE c.peer \in {"up", "closed"} /\ w = <<>>
  <2>1. r = [ok |-> TRUE, length |-> IF c.peer = "closed" THEN 0 ELSE BufSize,
             buf |-> recvBuf, left |-> <<>>]
    BY <1>5 DEF ReadSocket
  <2> QED
    BY <1>2, <1>3, <1>5, <2>1, NoStream
<1>6. CASE c.peer \in {"up", "closed"} /\ w # <<>>
  <2>1. PICK k \in {i \in 1..BufSize : i <= Len(w)} :
            r = [ok |-> TRUE, length |-> k,
                 buf |-> [i \in 1..BufSize |-> IF i <= k THEN w[i] ELSE recvBuf[i]],
                 left |-> SubSeq(w, k + 1, Len(w))]
    BY <1>6 DEF ReadSocket
  <2>2. k \in 1..Len(w) /\ k <= BufSize /\ k \in Nat /\ Len(w) \in Nat /\ BufSize \in Nat
    BY <1>1, <2>1, NtripAssumption
  <2>3. r.ok /\ r.length = k /\ \A i \in 1..k : r.buf[i] = w[i]
    <3>1. \A i \in 1..k : i \in 1..BufSize /\ i <= k
      BY <2>2
    <3>2. r.buf = [i \in 1..BufSize |-> IF i <= k THEN w[i] ELSE recvBuf[i]]
      BY <2>1
    <3> QED
      BY <2>1, <3>1, <3>2
  <2>4. d.wire = SubSeq(w, k + 1, Len(w))
    BY <1>3, <2>1
  <2>5. Len(d.wire) = Len(w) - k /\ \A j \in 1..(Len(w) - k) : d.wire[j] = w[k + j]
    <3> DEFINE x == w
    <3>1. x \in Seq(Cell) /\ k \in 1..Len(x) /\ d.wire = SubSeq(x, k + 1, Len(x))
      BY <1>1, <2>2, <2>4
    <3> HIDE DEF x
    <3>2. Len(SubSeq(x, k + 1, Len(x))) = Len(x) - k
      BY <3>1
    <3>3. \A j \in 1..(Len(x) - k) : SubSeq(x, k + 1, Len(x))[j] = x[k + j]
      BY <3>1
    <3>4. Len(d.wire) = Len(x) - k /\ \A j \in 1..(Len(x) - k) : d.wire[j] = x[k + j]
      BY <3>1, <3>2, <3>3
    <3> QED
      BY <3>4 DEF x
  <2>6. WireAsSent(d)
    <3>1. k \in 0..Len(w)
      BY <2>2
    <3> QED
      BY <1>1, <1>3, <2>5, <3>1, CutStream
  <2> QED
    BY <1>2, <1>3, <1>6, <2>2, <2>3, <2>5, <2>6 DEF Takes
<1> QED
  BY <1>4, <1>5, <1>6

\* login reads before anything of the connection is passed on.
LEMMA StreamLogin ==
    ASSUME TypeOK, Stream, Login
    PROVE  Stream'
<1> USE DEF Loop, Fresh
<1>0. /\ pc \in [{Thread, Caller} -> Step] /\ Thread # Caller /\ conn \in [Fd -> Connections]
  BY DEF TypeOK, Thread, Caller
<1>1. PICK r \in ReadSocket(fd) :
          /\ conn' = Received(fd, r)
          /\ Goto(Thread, CASE LoggedIn(r) -> "select" [] Waits(r) -> "login"
                            [] ~(LoggedIn(r) \/ Waits(r)) -> "while")
  BY DEF Login
<1>2. /\ UNCHANGED <<got, conns, fd, newFd, readable>> /\ pc[Thread] = "login"
      /\ pc'[Thread] \in {"select", "login", "while"}
  BY <1>0, <1>1 DEF Login, Goto
<1>3. CASE fd \notin Open
  <2>1. conn' = conn
    BY <1>1, <1>3 DEF Received
  <2> QED
    BY <1>2, <2>1, StreamSame
<1>4. CASE fd \in Open
  <2> DEFINE d == [conn[fd] EXCEPT !.wire = r.left]
  <2>1. WireAsSent(conn[fd]) /\ fd \in Fd
    BY <1>4 DEF Stream, Open
  <2>2. /\ conn' = [conn EXCEPT ![fd] = d]
        /\ d \in Connections /\ d.peer = conn[fd].peer /\ d.id = conn[fd].id /\ WireAsSent(d)
    BY <1>1, <1>4, <2>1, Receiving
  <2> HIDE DEF d
  <2> QED
    BY <1>2, <2>1, <2>2, StreamOne
<1> QED
  BY <1>3, <1>4

\* The data loop reads what follows what it has passed on, and passes that on.
LEMMA StreamRead ==
    ASSUME TypeOK, Stream, Read
    PROVE  Stream'
<1> USE DEF Loop, Fresh
<1>0. /\ pc \in [{Thread, Caller} -> Step] /\ Thread # Caller /\ conn \in [Fd -> Connections]
      /\ got \in Seq(Cell)
  BY DEF TypeOK, Thread, Caller
<1>1. /\ UNCHANGED <<conns, fd, newFd, readable>> /\ pc[Thread] = "read"
      /\ pc'[Thread] \in {"select", "while"}
  BY <1>0 DEF Read, Goto, locals
<1>2. CASE UNCHANGED <<got, conn>>
  BY <1>1, <1>2, StreamSame
<1>3. ASSUME readable, NEW r \in ReadSocket(fd), conn' = Received(fd, r),
             got' = IF r.ok THEN got \o Delivered(r) ELSE got
      PROVE  Stream'
  <2>1. CASE fd \notin Open
    <3>1. conn' = conn /\ ~r.ok
      BY <1>3, <2>1 DEF Received, ReadSocket
    <3> QED
      BY <1>2, <1>3, <3>1
  <2>2. CASE fd \in Open
    <3> DEFINE c == conn[fd]
    <3>0. PICK d : d = [c EXCEPT !.wire = r.left]
      OBVIOUS
    <3>1. WireAsSent(c) /\ fd \in Fd /\ c \in Connections /\ c.wire \in Seq(Cell)
      BY <1>0, <2>2 DEF Stream, Open, Connections
    <3>2. /\ conn' = [conn EXCEPT ![fd] = d] /\ d \in Connections /\ d.peer = c.peer
          /\ d.id = c.id /\ d.n = c.n /\ d.answer = c.answer /\ WireAsSent(d)
      BY <1>3, <2>2, <3>0, <3>1, Receiving
    <3>3. \/ c.peer \notin {"up", "closed"} /\ ~r.ok
          \/ c.peer \in {"up", "closed"} /\ r.ok /\ c.wire = <<>> /\ d.wire = <<>>
             /\ (c.peer = "closed" => r.length = 0)
          \/ c.peer \in {"up", "closed"} /\ \E k \in 1..Len(c.wire) : Takes(c, d, r, k)
      BY <1>3, <2>2, <3>0, <3>1, Receiving, Zenon
    <3>4. c.wire # <<>> \/ c.peer # "up"
      BY <1>1, <1>3, <2>2 DEF Stream
    <3>5. r.buf \in Seq(Cell) /\ Len(r.buf) = BufSize /\ r.length \in 0..BufSize
      BY <1>3, ReadTypes, NtripAssumption
    <3>6. CASE c.peer \notin {"up", "closed"} /\ ~r.ok
      <4>1. got' = got
        BY <1>3, <3>6
      <4> QED
        BY <1>1, <3>1, <3>2, <3>6, <4>1, StreamOne
    <3>7. CASE /\ c.peer = "closed" /\ r.ok /\ c.wire = <<>> /\ d.wire = <<>> /\ r.length = 0
      <4>1. Delivered(r) = <<>>
        BY <3>5, <3>7 DEF Delivered
      <4>2. got' = got
        BY <1>0, <1>3, <3>7, <4>1
      <4>3. \A m : Follows(c, m) => Follows(d, m)
        BY <3>2, <3>7, SameStream
      <4> QED
        BY <1>1, <3>1, <3>2, <3>7, <4>2, <4>3, StreamOne
    <3>8. ASSUME c.peer \in {"up", "closed"}, NEW k \in 1..Len(c.wire), Takes(c, d, r, k)
          PROVE  Stream'
      <4>0. /\ r.ok /\ k <= BufSize /\ r.length = k
            /\ \A i \in 1..k : r.buf[i] = c.wire[i]
            /\ Len(d.wire) = Len(c.wire) - k
            /\ \A j \in 1..(Len(c.wire) - k) : d.wire[j] = c.wire[k + j]
        BY <3>8 DEF Takes
      <4>1. /\ Delivered(r) \in Seq(Cell) /\ Len(Delivered(r)) = k
            /\ \A j \in 1..k : Delivered(r)[j] = c.wire[j]
        <5>1. k \in Nat /\ BufSize \in Nat
          BY <3>1, NtripAssumption
        <5>2. /\ SubSeq(r.buf, 1, k) \in Seq(Cell) /\ Len(SubSeq(r.buf, 1, k)) = k
              /\ \A j \in 1..k : SubSeq(r.buf, 1, k)[j] = r.buf[j]
          BY <3>5, <4>0, <5>1
        <5> QED
          BY <4>0, <5>2 DEF Delivered
      <4>2. got' = got \o Delivered(r)
        BY <1>3, <4>0
      <4> DEFINE e == Delivered(r)
                 h == got \o e
      <4> HIDE DEF e
      <4>3. /\ h \in Seq(Cell) /\ Len(h) = Len(got) + k
            /\ \A i \in 1..Len(got) : h[i] = got[i]
            /\ \A j \in 1..k : h[Len(got) + j] = e[j]
        <5>1. e \in Seq(Cell) /\ Len(e) = k /\ k \in Nat
          BY <3>1, <4>1 DEF e
        <5> QED
          BY <1>0, <5>1
      <4>4. \A j \in 1..k : h[Len(got) + j] = c.wire[j]
        BY <4>1, <4>3 DEF e
      <4> HIDE DEF h
      <4>5. c.id = conns /\ AsSent(got) /\ UpTo(got, c.id) /\ Continues(got, c)
        BY <1>1, <2>2, <3>8 DEF Stream
      <4>6. AsSent(h) /\ UpTo(h, c.id) /\ Continues(h, d)
        <5> DEFINE x == c
        <5>1. x \in Connections /\ WireAsSent(x) /\ k \in 1..Len(x.wire) /\ c = x
          BY <3>1
        <5> HIDE DEF x
        <5>2. /\ AsSent(got) /\ UpTo(got, x.id) /\ Continues(got, x)
              /\ \A j \in 1..k : h[Len(got) + j] = x.wire[j]
              /\ Len(d.wire) = Len(x.wire) - k
              /\ \A j \in 1..(Len(x.wire) - k) : d.wire[j] = x.wire[k + j]
              /\ d.id = x.id /\ d.n = x.n /\ d.answer = x.answer
          BY <3>2, <4>0, <4>4, <4>5 DEF x
        <5>3. AsSent(h) /\ UpTo(h, x.id) /\ Continues(h, d)
          <6>1. /\ got \in Seq(Cell) /\ h \in Seq(Cell) /\ d \in Connections
                /\ Len(h) = Len(got) + k
                /\ \A i \in 1..Len(got) : h[i] = got[i]
            BY <1>0, <3>2, <4>3
          <6>2. ASSUME NEW g \in Seq(Cell), NEW p \in Seq(Cell), NEW y \in Connections,
                       AsSent(g), UpTo(g, y.id), Continues(g, y), WireAsSent(y), k \in 1..Len(y.wire),
                       Len(p) = Len(g) + k, \A i \in 1..Len(g) : p[i] = g[i],
                       \A j \in 1..k : p[Len(g) + j] = y.wire[j],
                       Len(d.wire) = Len(y.wire) - k,
                       \A j \in 1..(Len(y.wire) - k) : d.wire[j] = y.wire[k + j],
                       d.id = y.id, d.n = y.n, d.answer = y.answer
                PROVE  AsSent(p) /\ UpTo(p, y.id) /\ Continues(p, d)
            BY <6>1, <6>2, Delivering
          <6> QED
            BY <5>1, <5>2, <6>1, <6>2
        <5> QED
          BY <5>3 DEF x
      <4>7. got' = h
        BY <4>2 DEF h, e
      <4>8. AsSent(got') /\ UpTo(got', conns') /\ Continues(got', conn'[fd'])
        BY <1>0, <1>1, <3>1, <3>2, <4>5, <4>6, <4>7
      <4>9. /\ \A g \in Fd : WireAsSent(conn'[g])
            /\ conn'[fd'].id = conns'
        BY <1>0, <1>1, <3>1, <3>2, <4>5 DEF Stream
      <4> QED
        BY <1>1, <4>8, <4>9 DEF Stream
    <3> QED
      BY <3>3, <3>4, <3>6, <3>7, <3>8
  <2> QED
    BY <2>1, <2>2
<1> QED
  BY <1>2, <1>3 DEF Read

LEMMA StreamStep == TypeOK /\ Stream /\ [Next]_vars => Stream'
<1> SUFFICES ASSUME TypeOK, Stream, [Next]_vars PROVE Stream'
  OBVIOUS
<1>1. CASE UNCHANGED vars
  <2>1. UNCHANGED <<pc, fd, conn, conns, newFd, readable, got>>
    BY <1>1 DEF vars, locals
  <2> QED
    BY <2>1, StreamSame DEF Loop, Fresh
<1>2. CASE ThreadNext
  BY <1>2, StreamClose, StreamOpen, StreamSend, StreamLogin, StreamRead DEF ThreadNext, Proc
<1>3. CASE CallerNext
  BY <1>3, StreamClose DEF CallerNext, Proc
<1> QED
  BY <1>1, <1>2, <1>3, StreamClose, StreamPeers DEF Next

\* The callback gets what casters sent, the data of a connection in order, without a hole
\* and nothing twice, whatever the sizes of the reads, however often the connection is lost
\* and whenever Stop is called: what recv_buffer_ and readSize give ThreadHandler.
THEOREM DataAsSent == Spec => []DeliveredAsSent
<1>1. Init => Stream
  <2> SUFFICES ASSUME Init PROVE Stream
    OBVIOUS
  <2>1. \A f \in Fd : conn[f].wire = <<>> /\ f \notin Open
    BY DEF Init, Unused, Open
  <2>2. \A f \in Fd : WireAsSent(conn[f])
    BY <2>1, NoStream
  <2>3. got = <<>> /\ pc[Thread] = "ended" /\ conns = 0 /\ fd \notin Open
    BY <2>1 DEF Init, Open
  <2> QED
    BY <2>2, <2>3 DEF Stream, UpTo, AsSent, Loop, Fresh
<1>2. TypeOK /\ Stream => DeliveredAsSent
  <2> SUFFICES ASSUME TypeOK, Stream PROVE DeliveredAsSent
    OBVIOUS
  <2>1. got \in Seq(Cell) /\ DOMAIN got = 1..Len(got)
    BY DEF TypeOK
  <2>2. AsSent(got)
    BY DEF Stream
  <2> QED
    BY <2>1, <2>2 DEF AsSent, DeliveredAsSent, IsData
<1> QED
  BY <1>1, <1>2, StreamStep, TypeCorrect, PTL DEF Spec
=============================================================================
