----------------------------- MODULE NtripTask -----------------------------
(***************************************************************************)
(* The NTRIP client for EC100Y modules, src/ntripclient2: run_socket keeps *)
(* a connection to the caster, sends the position that send_request left   *)
(* in ggaRequestBuffer and passes what the caster sends to a callback.     *)
(* res and sock_fd belong to the task alone, so an attempt to connect is   *)
(* one step; isStopNtripService and the buffer are shared with the caller. *)
(*                                                                         *)
(* The state begins after start_ntrip.  Positions are numbered by the      *)
(* calls of send_request, 0 is an empty buffer; what a caster sends is     *)
(* cells, numbered on each connection.  Other parts of the process open    *)
(* and close descriptors too.                                              *)
(***************************************************************************)
EXTENDS Integers, Sequences

CONSTANTS ReadBufSize,   \* RTCM_READ_BUF_SIZE, in cells
          MaxFd,         \* bound on the descriptors of the process
          MaxAttempts,   \* bound on the calls of open_socket
          MaxRequests,   \* bound on the calls of send_request
          MaxCells       \* bound on the cells sent on a connection

ASSUME NtripTaskAssumption ==
    /\ ReadBufSize \in Nat \ {0}
    /\ MaxFd \in Nat /\ MaxAttempts \in Nat /\ MaxRequests \in Nat /\ MaxCells \in Nat

VARIABLES pc,                    \* where run_socket is
          stopped,               \* isStopNtripService
          res, sockFd,           \* res, sock_fd
          owner,                 \* whose each descriptor is
          attempt, attempts,     \* how the last open_socket ended; how many there were
          isLogined, isAuthed,
          readable,              \* what select said of reading
          peer,                  \* the connection, as the network has it
          wire, sent,            \* cells that have arrived; how many were sent
          caller, mutex,         \* where send_request is; who holds ggaMtx
          gga, size, requests,   \* ggaRequestBuffer, ggaRequestSize, calls of send_request
          wrote,                 \* all that was sent, as <<connection, size, text>>
          skipped, got           \* cells taken for the answer; cells of this connection passed on

socketVars == <<res, sockFd, owner, attempt, attempts>>
flags == <<isLogined, isAuthed, readable>>
network == <<peer, wire, sent>>
mailbox == <<caller, mutex, gga, size, requests>>
output == <<wrote, skipped, got>>
vars == <<pc, stopped, socketVars, flags, network, mailbox, output>>

Fd == 1..MaxFd
Entry(text, length) == [conn |-> attempts, size |-> length, text |-> text]

-----------------------------------------------------------------------------
(* run_socket.                                                              *)

\* close_socket: of the two nothing is reset.
Released == [f \in Fd |-> IF f = sockFd THEN "free" ELSE owner[f]]

\* Mutant: a socket that cannot be bound is not remembered.
ForgetsUnbound(outcome, f) ==
    /\ owner' = [Released EXCEPT ![f] = "task"]
    /\ sockFd' = IF outcome = "bind" THEN sockFd ELSE f

\* From the call of socket on, whether bind and connect succeed or not.
HasSocket(outcome, f) ==
    /\ owner' = [Released EXCEPT ![f] = "task"]
    /\ sockFd' = f

\* open_socket.  A failed getaddrinfo may leave res as it was.
OpenSocket(outcome) ==
    /\ attempt' = outcome
    /\ attempts' = attempts + 1
    /\ res' \in IF outcome = "dns" THEN {"null", IF res = "null" THEN "null" ELSE "freed"}
                                   ELSE {"live"}
    /\ IF outcome \in {"dns", "socket"}
       THEN owner' = Released /\ UNCHANGED sockFd
       ELSE \E f \in Fd : Released[f] = "free" /\ HasSocket(outcome, f)

\* The head of the outer loop, close_socket and open_socket.
Connect ==
    /\ pc = "connect" /\ ~stopped
    /\ attempts < MaxAttempts
    /\ \E outcome \in {"dns", "socket", "bind", "connect", "ok"} :
           /\ OpenSocket(outcome)
           /\ pc' = IF outcome = "ok" THEN "select" ELSE "connect"
           /\ peer' = IF outcome = "ok" THEN "opening" ELSE "none"
    /\ isLogined' = FALSE /\ isAuthed' = FALSE /\ readable' = FALSE
    /\ wire' = <<>> /\ sent' = 0 /\ skipped' = 0 /\ got' = <<>>
    /\ UNCHANGED <<stopped, mailbox, wrote>>

End ==
    /\ pc = "connect" /\ stopped
    /\ pc' = "ended"
    /\ UNCHANGED <<stopped, socketVars, flags, network, mailbox, output>>

AfterWrite(r) == IF r THEN "read" ELSE "select"

\* Mutant: a position is sent only when there is something to read.
SendsOnReceipt(r, w) ==
    pc' = CASE ~w              -> "connect"
            [] w /\ ~isLogined -> "login"
            [] w /\ isLogined  -> IF isAuthed /\ r THEN "lock" ELSE AfterWrite(r)

\* What select found.  A socket that can only be read is taken for a failed
\* connection.
Dispatch(r, w) ==
    pc' = CASE ~w              -> "connect"
            [] w /\ ~isLogined -> "login"
            [] w /\ isLogined  -> IF isAuthed THEN "lock" ELSE AfterWrite(r)

\* select waits without a timeout.  A connection that was refused or reset can be
\* read and written.
Select ==
    /\ pc = "select" /\ peer # "opening"
    /\ readable' = (peer # "up" \/ wire # <<>>)
    /\ \E w \in IF peer = "reset" THEN {TRUE} ELSE BOOLEAN :
           (w \/ readable') /\ Dispatch(readable', w)
    /\ UNCHANGED <<stopped, socketVars, isLogined, isAuthed, network, mailbox, output>>

SelectFails ==
    /\ pc = "select"
    /\ pc' = "connect"
    /\ UNCHANGED <<stopped, socketVars, flags, network, mailbox, output>>

\* Mutant: a login that was sent is taken for accepted.
LoginIsAuth ==
    /\ pc = "login"
    /\ wrote' = Append(wrote, Entry(0, 0))
    /\ isLogined' = TRUE /\ isAuthed' = TRUE
    /\ pc' = AfterWrite(readable)
    /\ UNCHANGED <<stopped, socketVars, readable, network, mailbox, skipped, got>>

\* The login request; whether it could be sent is not looked at.
Login ==
    /\ pc = "login"
    /\ wrote' = Append(wrote, Entry(0, 0))
    /\ isLogined' = TRUE
    /\ pc' = AfterWrite(readable)
    /\ UNCHANGED <<stopped, socketVars, isAuthed, readable, network, mailbox, skipped, got>>

\* Under ggaMtx: the length of what is in ggaRequestBuffer.
LockGga ==
    /\ pc = "lock" /\ mutex = "none"
    /\ IF gga = 0
       THEN pc' = AfterWrite(readable) /\ UNCHANGED <<mutex, size>>
       ELSE pc' = "send" /\ mutex' = "task" /\ size' = gga
    /\ UNCHANGED <<stopped, socketVars, flags, network, caller, gga, requests, output>>

\* The position goes out, or is lost, and is cleared in either case.
SendGga ==
    /\ pc = "send"
    /\ wrote' = Append(wrote, Entry(gga, size))
    /\ gga' = 0
    /\ mutex' = "none"
    /\ pc' = AfterWrite(readable)
    /\ UNCHANGED <<stopped, socketVars, flags, network, caller, size, requests, skipped, got>>

Arrived == IF Len(wire) < ReadBufSize THEN Len(wire) ELSE ReadBufSize

\* The first bytes after the login request are the answer, whatever they are.
TakeData(cells) ==
    IF isLogined /\ ~isAuthed
    THEN isAuthed' = TRUE /\ skipped' = skipped + Len(cells) /\ UNCHANGED got
    ELSE got' = got \o cells /\ UNCHANGED <<isAuthed, skipped>>

\* Mutant: a peer that closed is one that has nothing to say.
ClosedIsNothing == IF peer = "reset" THEN "connect" ELSE "select"

\* read_socket without data: not yet, or a peer that closed, or an error.
NothingRead == IF peer = "up" THEN "select" ELSE "connect"

\* read_socket and what follows.
Read ==
    /\ pc = "read"
    /\ IF wire # <<>>
       THEN /\ TakeData(SubSeq(wire, 1, Arrived))
            /\ wire' = SubSeq(wire, Arrived + 1, Len(wire))
            /\ pc' = "select"
       ELSE /\ pc' = NothingRead
            /\ UNCHANGED <<wire, isAuthed, skipped, got>>
    /\ UNCHANGED <<stopped, socketVars, isLogined, readable, peer, sent, mailbox, wrote>>

-----------------------------------------------------------------------------
(* The callers of sendGGA and stopSdk.                                      *)

\* Mutant: send_request does not lock.
BlankUnlocked ==
    /\ caller = "idle" /\ requests < MaxRequests
    /\ caller' = "copy"
    /\ gga' = 0
    /\ UNCHANGED <<pc, stopped, socketVars, flags, network, mutex, size, requests, output>>

\* send_request: lock, and memset.
Blank ==
    /\ caller = "idle" /\ requests < MaxRequests
    /\ mutex = "none"
    /\ mutex' = "caller"
    /\ caller' = "copy"
    /\ gga' = 0
    /\ UNCHANGED <<pc, stopped, socketVars, flags, network, size, requests, output>>

\* send_request: memcpy, and unlock.
Copy ==
    /\ caller = "copy"
    /\ requests' = requests + 1
    /\ gga' = requests + 1
    /\ mutex' = "none"
    /\ caller' = "idle"
    /\ UNCHANGED <<pc, stopped, socketVars, flags, network, size, output>>

Stop ==
    /\ ~stopped
    /\ stopped' = TRUE
    /\ UNCHANGED <<pc, socketVars, flags, network, mailbox, output>>

-----------------------------------------------------------------------------
(* The network, the caster, and the rest of the process.                    *)

OnlyNetwork == UNCHANGED <<pc, stopped, socketVars, flags, mailbox, output>>

Established ==
    /\ peer = "opening"
    /\ peer' \in {"up", "reset"}
    /\ UNCHANGED <<wire, sent>> /\ OnlyNetwork

\* After the login request a caster answers and sends, in pieces of any size.
CasterSends ==
    /\ peer = "up" /\ isLogined /\ sent < MaxCells
    /\ wire' = Append(wire, sent + 1)
    /\ sent' = sent + 1
    /\ UNCHANGED peer /\ OnlyNetwork

CasterCloses ==
    /\ peer = "up"
    /\ peer' = "closed"
    /\ UNCHANGED <<wire, sent>> /\ OnlyNetwork

Reset ==
    /\ peer \in {"up", "closed"}
    /\ peer' = "reset"
    /\ wire' = <<>>
    /\ UNCHANGED sent /\ OnlyNetwork

Other(f) ==
    /\ owner[f] \in {"free", "other"}
    /\ owner' = [owner EXCEPT ![f] = IF owner[f] = "free" THEN "other" ELSE "free"]
    /\ UNCHANGED <<pc, stopped, res, sockFd, attempt, attempts, flags, network, mailbox, output>>

-----------------------------------------------------------------------------
\* start_ntrip has created ggaMtx and the task.
Init ==
    /\ pc = "connect" /\ stopped = FALSE
    /\ res = "null" /\ sockFd = -1
    /\ owner = [f \in Fd |-> "free"]
    /\ attempt = "none" /\ attempts = 0
    /\ isLogined = FALSE /\ isAuthed = FALSE /\ readable = FALSE
    /\ peer = "none" /\ wire = <<>> /\ sent = 0
    /\ caller = "idle" /\ mutex = "none"
    /\ gga = 0 /\ size = 0 /\ requests = 0
    /\ wrote = <<>> /\ skipped = 0 /\ got = <<>>

Task == Connect \/ End \/ Select \/ Login \/ LockGga \/ SendGga \/ Read

Network == Established \/ CasterSends \/ CasterCloses \/ Reset

Next ==
    \/ Task \/ SelectFails \/ Blank \/ Copy \/ Stop \/ Network
    \/ \E f \in Fd : Other(f)

\* Both threads run on, a connection attempt has an end, and what is sent on a
\* connection leaves the send buffer.
Spec == Init /\ [][Next]_vars /\ WF_vars(Task) /\ WF_vars(Copy) /\ WF_vars(Established)

-----------------------------------------------------------------------------
(* Properties.                                                              *)

Wrote == [conn : 0..MaxAttempts, size : 0..MaxRequests, text : 0..MaxRequests]

\* The variables have their types.
TypeOK ==
    /\ pc \in {"connect", "select", "login", "lock", "send", "read", "ended"}
    /\ stopped \in BOOLEAN
    /\ isLogined \in BOOLEAN /\ isAuthed \in BOOLEAN /\ readable \in BOOLEAN
    /\ res \in {"null", "live", "freed"} /\ sockFd \in Fd \union {-1}
    /\ owner \in [Fd -> {"free", "task", "other"}]
    /\ attempt \in {"none", "dns", "socket", "bind", "connect", "ok"}
    /\ attempts \in 0..MaxAttempts
    /\ peer \in {"none", "opening", "up", "closed", "reset"}
    /\ wire \in Seq(1..MaxCells) /\ sent \in 0..MaxCells
    /\ caller \in {"idle", "copy"} /\ (caller = "copy" => requests < MaxRequests)
    /\ mutex \in {"none", "task", "caller"}
    /\ gga \in 0..MaxRequests /\ size \in 0..MaxRequests /\ requests \in 0..MaxRequests
    /\ wrote \in Seq(Wrote)
    /\ skipped \in 0..MaxCells /\ got \in Seq(1..MaxCells)

\* What close_socket is about to release is the task's own, and no socket of the
\* task is open but the one that close_socket will find: after every way out of
\* open_socket and of the inner loop, but for attempts that failed before they had
\* an address or a socket.  After those res is freed twice, and a descriptor
\* closed twice, which may meanwhile be another's.
ReleasesOwn ==
    /\ \A f \in Fd : owner[f] = "task" => f = sockFd
    /\ res = "freed" => attempt = "dns"
    /\ sockFd # -1 /\ owner[sockFd] # "task" => attempt \in {"dns", "socket"}

\* Over all connections the positions go out whole, each at most once and in the
\* order of the calls of sendGGA; a connection begins with its login request,
\* which is sent once.  This is about ggaRequestBuffer, ggaMtx, and the flags.
WroteInOrder ==
    /\ \A i \in DOMAIN wrote : wrote[i].size = wrote[i].text
    /\ \A i, j \in DOMAIN wrote : i < j =>
           /\ wrote[i].conn <= wrote[j].conn
           /\ wrote[j].text = 0 => wrote[i].conn < wrote[j].conn
           /\ wrote[j].text # 0 => wrote[i].text < wrote[j].text
    /\ \A j \in DOMAIN wrote : wrote[j].text # 0 =>
           \E i \in 1..(j - 1) : wrote[i].conn = wrote[j].conn /\ wrote[i].text = 0

\* The callback gets the cells of a connection in order, without a hole, from the
\* one after what the first read took for the answer; what it has not got is
\* still to be read, unless the connection was reset.
DeliveredAfterAnswer ==
    /\ \A i \in DOMAIN got : got[i] = skipped + i
    /\ \A i \in DOMAIN wire : wire[i] = skipped + Len(got) + i
    /\ peer # "reset" => sent = skipped + Len(got) + Len(wire)
    /\ got # <<>> => skipped > 0

\* A connection that was refused, closed or reset is given up, whatever step the
\* task is in and whatever is still to be read or sent; if stopSdk was called the
\* task then ends.  Nothing else ends it.
LossNoticed ==
    LET lost == peer \in {"closed", "reset"}
    IN  /\ (pc # "ended" /\ lost) ~> pc = "connect"
        /\ (stopped /\ lost) ~> pc = "ended"

\* A position left for an accepted connection is taken, or replaced by the next,
\* as long as the connection holds.
RequestTaken ==
    \A n \in 1..MaxRequests :
        (pc # "ended" /\ isAuthed /\ gga = n) ~> (gga # n \/ peer # "up" \/ pc = "connect")
=============================================================================
