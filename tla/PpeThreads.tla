------------------------------ MODULE PpeThreads ------------------------------
(***************************************************************************)
(* The threads of src/qcom_sa415m/PrecisePosEngineLib/PrecisePosEngine.cpp *)
(* and the two record channels between them.  The threads of the EP        *)
(* library call the ePProvide... functions, the thread of the correction   *)
(* service calls onReceiveCMCC...; each puts a record (DATA_HEADER, body)  *)
(* into a ring.  CorsThreadFunc takes from corsRingBuffer, and for a       *)
(* position report puts a GGA record into gnssRingBuffer; GNSSThreadFunc   *)
(* takes from gnssRingBuffer.                                              *)
(*                                                                         *)
(* A ring is the bounded queue that RingBuffer.tla is proved to implement. *)
(* Bytes are cells: HeaderLen of a header, BodyLen[type] of a body.  A     *)
(* mutex is held between two steps only where another thread can see the   *)
(* difference: DATA_HEADER is one buffer for both rings, so its two        *)
(* fields are written, and read by rb_write, in steps of their own.        *)
(* isTerminated is never set by any code, so the loops never end.          *)
(***************************************************************************)
EXTENDS Integers, Sequences

CONSTANTS EpThreads,   \* threads of the EP library that call the EPInterface
          EpTypes,     \* what the EP library was subscribed to provide
          ServTypes,   \* what the correction service delivers
          HeaderLen,   \* DATA_HEADER_LENGTH
          BodyLen,     \* length of the body, for each type of record
          Capacity,    \* length of each ring
          ObsCounts,   \* the numMeas of measurement reports
          ObsLeap,     \* OBS_NUM_MAX_LEAP
          Garbage,     \* the [len, type] that bytes which are no header may spell
          MaxCalls,    \* bound on the calls of one EP or service thread
          MaxSpurious  \* bound on the spurious wake-ups of the waits

Serv == "serv"     \* the thread startSdk starts
Cors == "corsThr"
Gnss == "ppeThr"
Thread == EpThreads \union {Serv, Cors, Gnss}
Consumers == {Cors, Gnss}

Ring == {"gnss", "cors"}
Types == {"meas", "eph", "gga", "pvt", "rtcm", "status"}
None == "none"
RingOf(type) == IF type \in {"meas", "eph", "gga"} THEN "gnss" ELSE "cors"
Consumer(r) == IF r = "gnss" THEN Gnss ELSE Cors
TakesFrom(c) == IF c = Gnss THEN "gnss" ELSE "cors"

MaxBody == CHOOSE n \in {BodyLen[ty] : ty \in Types} : \A ty \in Types : BodyLen[ty] <= n

HeaderField == [len : 0..MaxBody, type : Types \union {None}]

ASSUME PpeAssumption ==
    /\ EpThreads \intersect {Serv, Cors, Gnss, None} = {}
    /\ EpTypes \subseteq {"meas", "eph", "pvt"}
    /\ ServTypes \subseteq {"rtcm", "status"}
    /\ HeaderLen \in Nat \ {0}
    /\ BodyLen \in [Types -> Nat \ {0}]
    /\ \E m \in Types : \A ty \in Types : BodyLen[ty] <= BodyLen[m]
    /\ Capacity \in [Ring -> Nat]
    /\ \A ty \in Types : HeaderLen + BodyLen[ty] <= Capacity[RingOf(ty)]
    /\ Garbage \subseteq HeaderField
    /\ ObsCounts \subseteq Nat
    /\ ObsLeap \in Nat
    /\ MaxCalls \in Nat
    /\ MaxSpurious \in Nat

VARIABLES
    pc,         \* what each thread does next
    job,        \* the record a producer is putting, [type, obs]
    exists,     \* rb_create of the ring has returned
    ring,       \* the cells in each ring, oldest first
    lock,       \* the holder of mtx_gnss and of mtx_cors
    header,     \* DATA_HEADER[3..6], [len, type]: one buffer, both mutexes
    readBuffer, \* what each consumer's readBuffer holds
    obsNum,     \* obsNum, or NoObs while hasGotObs is false
    subscribed, \* epRequestReportSubscription was called
    calls,      \* bound: how often each EP or service thread has called
    spurious,   \* bound: spurious wake-ups so far
    put,        \* history: records put into each ring
    done,       \* history: the number of the record each consumer processed last,
                \* 0 before the first and for bytes that are not one record
    faults      \* history: what has broken the framing of each ring

channel == <<exists, ring, put, faults>>
reader == <<readBuffer, done>>
calling == <<obsNum, subscribed, calls>>
vars == <<pc, job, exists, ring, lock, header, readBuffer, obsNum, subscribed,
          calls, spurious, put, done, faults>>

NoObs == -1

NoJob == [type |-> None, obs |-> 0]
Blank == [type |-> None, no |-> 0, at |-> 0, hdr |-> [len |-> 0, type |-> None]]

MinOf(a, b) == IF a <= b THEN a ELSE b

Used(r) == IF exists[r] THEN Len(ring[r]) ELSE -1
Free(r) == IF exists[r] THEN Capacity[r] - Len(ring[r]) ELSE -1

\* A mutant of Need: the length of the body forgotten.
NeedHeader(type) == IF type = "gga" THEN 1 ELSE HeaderLen

\* The free space a producer asks for: a GGA record is put as soon as there is any.
Need(type) == IF type = "gga" THEN 1 ELSE HeaderLen + BodyLen[type]

-------------------------------------------------------------------------------
Init ==
    /\ pc = [t \in Thread |-> IF t \in EpThreads THEN "idle"
                              ELSE IF t = Gnss THEN "createGnss" ELSE "off"]
    /\ job = [t \in Thread |-> NoJob]
    /\ exists = [r \in Ring |-> FALSE]
    /\ ring = [r \in Ring |-> <<>>]
    /\ lock = [r \in Ring |-> None]
    /\ header = [len |-> 0, type |-> None]
    /\ readBuffer = [c \in Consumers |->
                       [filled |-> FALSE, hdr |-> Blank.hdr, body |-> [k \in 1..MaxBody |-> Blank]]]
    /\ obsNum = NoObs
    /\ subscribed = FALSE
    /\ calls = [t \in Thread |-> 0]
    /\ spurious = 0
    /\ put = [r \in Ring |-> 0]
    /\ done = [c \in Consumers |-> 0]
    /\ faults = [r \in Ring |-> {}]

Goto(t, label) == pc' = [pc EXCEPT ![t] = label]

-------------------------------------------------------------------------------
\* GNSSThreadFunc before its loop.

createGnss ==
    /\ pc[Gnss] = "createGnss"
    /\ exists' = [exists EXCEPT !["gnss"] = TRUE]
    /\ Goto(Gnss, "createCors")
    /\ UNCHANGED <<job, ring, lock, header, put, faults, reader, calling, spurious>>

createCors ==
    /\ pc[Gnss] = "createCors"
    /\ exists' = [exists EXCEPT !["cors"] = TRUE]
    /\ Goto(Gnss, "startServ")
    /\ UNCHANGED <<job, ring, lock, header, put, faults, reader, calling, spurious>>

\* Without a correction library dlopen fails and no thread calls back.
start_correctServ(loaded) ==
    /\ pc[Gnss] = "startServ"
    /\ pc' = [pc EXCEPT ![Gnss] = "spawn", ![Serv] = IF loaded THEN "idle" ELSE "off"]
    /\ UNCHANGED <<job, lock, header, channel, reader, calling, spurious>>

spawnCors ==
    /\ pc[Gnss] = "spawn"
    /\ pc' = [pc EXCEPT ![Gnss] = "subscribe", ![Cors] = "take"]
    /\ UNCHANGED <<job, lock, header, channel, reader, calling, spurious>>

subscribe ==
    /\ pc[Gnss] = "subscribe"
    /\ subscribed' = TRUE
    /\ Goto(Gnss, "take")
    /\ UNCHANGED <<job, lock, header, channel, reader, obsNum, calls, spurious>>

Boot ==
    \/ createGnss \/ createCors \/ spawnCors \/ subscribe
    \/ \E loaded \in BOOLEAN : start_correctServ(loaded)

-------------------------------------------------------------------------------
\* A producer: ePProvideGnssEphemeris, ePProvideGnssSvMeasurement,
\* ePProvidePosition, onReceiveCMCCRtcmData, onReceiveCMCCStatusData, and the
\* GGA part of CorsThreadFunc.

\* A measurement with OBS_NUM_MAX_LEAP fewer observations than the last one is
\* dropped, and the last count stays; both are read before the mutex is taken.
Skipped(type, obs) == type = "meas" /\ obsNum # NoObs /\ obsNum - obs >= ObsLeap

\* A call of a callback: t has a record to put, or returns at once.
Call(t, type, obs) ==
    /\ pc[t] = "idle"
    /\ calls[t] < MaxCalls
    /\ calls' = [calls EXCEPT ![t] = @ + 1]
    /\ IF Skipped(type, obs)
       THEN UNCHANGED <<pc, job>>
       ELSE /\ job' = [job EXCEPT ![t] = [type |-> type, obs |-> obs]]
            /\ Goto(t, "enter")
    /\ UNCHANGED <<lock, header, channel, reader, obsNum, subscribed, spurious>>

EpCall(t) ==
    /\ subscribed
    /\ \E type \in EpTypes :
          \E obs \in IF type = "meas" THEN ObsCounts ELSE {0} : Call(t, type, obs)

ServCall == \E type \in ServTypes : Call(Serv, type, 0)

\* Take the mutex; without enough space wait for the consumer (and give the
\* mutex back), with it begin the header.
Enter(t) ==
    LET type == job[t].type
        r == RingOf(type)
    IN  /\ pc[t] = "enter"
        /\ lock[r] = None
        /\ IF Free(r) < Need(type)
           THEN /\ Goto(t, "waitW")
                /\ UNCHANGED <<lock, header>>
           ELSE /\ Goto(t, "type")
                /\ lock' = [lock EXCEPT ![r] = t]
                /\ header' = [header EXCEPT !.len = BodyLen[type]]
        /\ UNCHANGED <<job, channel, reader, calling, spurious>>

PutType(t) ==
    /\ pc[t] = "type"
    /\ header' = [header EXCEPT !.type = job[t].type]
    /\ Goto(t, "commit")
    /\ UNCHANGED <<job, lock, channel, reader, calling, spurious>>

\* The cells from to..upto of record number no.
Cells(type, no, hdr, from, upto) ==
    [k \in 1..(upto - from + 1) |->
        [type |-> type, no |-> no, at |-> from + k - 1, hdr |-> hdr]]

\* A mutant of BodyFits: the space is the one found before the header went in.
BodyFitsBefore(r, type, hFits) == BodyLen[type] <= Free(r)

BodyFits(r, type, hFits) == BodyLen[type] <= Free(r) - (IF hFits THEN HeaderLen ELSE 0)

\* rb_write of the header, then of the body; each is rejected whole when it
\* does not fit.  The mutex is given back.
Commit(t) ==
    LET type == job[t].type
        r == RingOf(type)
        no == put[r] + 1
        h == Cells(type, no, header, 1, HeaderLen)
        b == Cells(type, no, Blank.hdr, HeaderLen + 1, HeaderLen + BodyLen[type])
        hFits == HeaderLen <= Free(r)
        bFits == BodyFits(r, type, hFits)
    IN  /\ pc[t] = "commit"
        /\ ring' = [ring EXCEPT ![r] = @ \o (IF hFits THEN h ELSE <<>>)
                                          \o (IF bFits THEN b ELSE <<>>)]
        /\ put' = [put EXCEPT ![r] = IF hFits \/ bFits THEN no ELSE @]
        /\ faults' = [faults EXCEPT ![r] = @
              \union (IF header # [len |-> BodyLen[type], type |-> type] THEN {"torn"} ELSE {})
              \union (IF type = "gga" /\ hFits # bFits THEN {"clipped"} ELSE {})]
        /\ obsNum' = IF type = "meas" THEN job[t].obs ELSE obsNum
        /\ lock' = [lock EXCEPT ![r] = None]
        /\ Goto(t, "notifyR")
        /\ UNCHANGED <<job, exists, header, reader, subscribed, calls, spurious>>

\* A mutant of NotifyR: the cors thread notifies cv_cors_r, its own.
NotifyRWrong(t) ==
    LET c == IF t = Cors THEN Cors ELSE Consumer(RingOf(job[t].type))
        woken == IF pc[c] = "waitR" THEN [pc EXCEPT ![c] = "retake"] ELSE pc
    IN  /\ pc[t] = "notifyR"
        /\ pc' = [woken EXCEPT ![t] = IF t = Cors THEN "take" ELSE "idle"]
        /\ job' = [job EXCEPT ![t] = NoJob]
        /\ UNCHANGED <<lock, header, channel, reader, calling, spurious>>

\* cv_gnss_r.notify_all or cv_cors_r.notify_all, after the unlock; one thread
\* waits on each.  The cors thread then sends the GGA to the service.
NotifyR(t) ==
    LET c == Consumer(RingOf(job[t].type))
        woken == IF pc[c] = "waitR" THEN [pc EXCEPT ![c] = "retake"] ELSE pc
    IN  /\ pc[t] = "notifyR"
        /\ pc' = [woken EXCEPT ![t] = IF t = Cors THEN "take" ELSE "idle"]
        /\ job' = [job EXCEPT ![t] = NoJob]
        /\ UNCHANGED <<lock, header, channel, reader, calling, spurious>>

Produce(t) == Enter(t) \/ PutType(t) \/ Commit(t) \/ NotifyR(t)

-------------------------------------------------------------------------------
\* A consumer: the loops of CorsThreadFunc and GNSSThreadFunc.

\* A mutant of Empty: < for <=.
EmptyStrict(r) == Used(r) < 0

Empty(r) == Used(r) <= 0

\* The bytes of one header.
IsHeader(h) ==
    /\ Len(h) = HeaderLen
    /\ \A k \in 1..HeaderLen : h[k].at = k /\ h[k].no = h[1].no

\* What data_length and data_type may be once rb_read has put h over the front
\* of readBuffer: the header's; what was there, which nothing initialised
\* before the first record; or bytes that were meant for something else.
FieldsRead(c, h) ==
    IF IsHeader(h) THEN {h[1].hdr}
    ELSE IF h = <<>> /\ readBuffer[c].filled THEN {readBuffer[c].hdr}
    ELSE Garbage

\* An if around the wait, not a while: a consumer that was woken reads whatever
\* there is.  Writers are notified only when some of the body was read.
Take(c) ==
    LET r == TakesFrom(c)
        n == MinOf(HeaderLen, Len(ring[r]))
        h == SubSeq(ring[r], 1, n)
        rest == SubSeq(ring[r], n + 1, Len(ring[r]))
    IN  /\ pc[c] \in {"take", "retake"}
        /\ lock[r] = None
        /\ IF pc[c] = "take" /\ Empty(r)
           THEN /\ Goto(c, "waitR")
                /\ UNCHANGED <<ring, readBuffer>>
           ELSE \E hdr \in FieldsRead(c, h) :
                  LET m == MinOf(hdr.len, Len(rest))
                  IN  /\ ring' = [ring EXCEPT ![r] = SubSeq(rest, m + 1, Len(rest))]
                      /\ readBuffer' = [readBuffer EXCEPT ![c] =
                            [filled |-> @.filled \/ n > 0,
                             hdr    |-> hdr,
                             body   |-> [k \in 1..MaxBody |->
                                           IF k <= m THEN rest[k] ELSE @.body[k]]]]
                      /\ Goto(c, IF m > 0 THEN "notifyW"
                                 ELSE IF hdr.len > 0 THEN "process" ELSE "take")
        /\ UNCHANGED <<job, exists, lock, header, put, done, faults, calling, spurious>>

\* The producers that wait for space in r.
Waiting(r) == {t \in Thread : pc[t] = "waitW" /\ RingOf(job[t].type) = r}

\* A mutant of NotifyW: notify_one for notify_all.
NotifyWOne(c) ==
    LET one == IF Waiting(TakesFrom(c)) = {} THEN {}
               ELSE {CHOOSE t \in Waiting(TakesFrom(c)) : TRUE}
    IN  /\ pc[c] = "notifyW"
        /\ pc' = [t \in Thread |-> IF t \in one THEN "enter"
                                   ELSE IF t = c THEN "process" ELSE pc[t]]
        /\ UNCHANGED <<job, lock, header, channel, reader, calling, spurious>>

\* A mutant of NotifyW: both consumers notify cv_cors_w.
NotifyWWrong(c) ==
    /\ pc[c] = "notifyW"
    /\ pc' = [t \in Thread |-> IF t \in Waiting("cors") THEN "enter"
                               ELSE IF t = c THEN "process" ELSE pc[t]]
    /\ UNCHANGED <<job, lock, header, channel, reader, calling, spurious>>

\* A mutant of NotifyW: on to the next record without processing this one.
NotifyWSkips(c) ==
    /\ pc[c] = "notifyW"
    /\ pc' = [t \in Thread |-> IF t \in Waiting(TakesFrom(c)) THEN "enter"
                               ELSE IF t = c THEN "take" ELSE pc[t]]
    /\ UNCHANGED <<job, lock, header, channel, reader, calling, spurious>>

\* cv_gnss_w.notify_all or cv_cors_w.notify_all, after the unlock.
NotifyW(c) ==
    /\ pc[c] = "notifyW"
    /\ pc' = [t \in Thread |-> IF t \in Waiting(TakesFrom(c)) THEN "enter"
                               ELSE IF t = c THEN "process" ELSE pc[t]]
    /\ UNCHANGED <<job, lock, header, channel, reader, calling, spurious>>

\* The number of the record a consumer's buffer and header describe, if they do.
Held(c) ==
    LET hdr == readBuffer[c].hdr
        body == readBuffer[c].body
    IN  IF /\ hdr.type # None
           /\ hdr.len = BodyLen[hdr.type]
           /\ \A k \in 1..hdr.len : /\ body[k].type = hdr.type
                                     /\ body[k].no = body[1].no
                                     /\ body[k].at = HeaderLen + k
        THEN body[1].no ELSE 0

\* The cors thread turns a position report that epposout_gga finds valid into a
\* GGA record; everything else ends outside these rings.
Process(c) ==
    /\ pc[c] = "process"
    /\ done' = IF faults[TakesFrom(c)] = {} THEN [done EXCEPT ![c] = Held(c)] ELSE done
    /\ \/ /\ c = Cors
          /\ readBuffer[c].hdr.type = "pvt"
          /\ job' = [job EXCEPT ![c] = [type |-> "gga", obs |-> 0]]
          /\ Goto(c, "enter")
       \/ /\ Goto(c, "take")
          /\ UNCHANGED job
    /\ UNCHANGED <<lock, header, channel, readBuffer, calling, spurious>>

Consume(c) == Take(c) \/ NotifyW(c) \/ Process(c)

\* A wait of a condition_variable may return without a notification: the
\* consumers go on, the producers look again.
Spurious(t) ==
    /\ spurious < MaxSpurious
    /\ spurious' = spurious + 1
    /\ \/ pc[t] = "waitR" /\ Goto(t, "retake")
       \/ pc[t] = "waitW" /\ Goto(t, "enter")
    /\ UNCHANGED <<job, lock, header, channel, reader, calling>>

-------------------------------------------------------------------------------
Next ==
    \/ Boot
    \/ \E t \in EpThreads : EpCall(t)
    \/ ServCall
    \/ \E t \in Thread : Produce(t) \/ Spurious(t)
    \/ \E c \in Consumers : Consume(c)

\* Every thread that can run does so in the end; nobody has to call, and a
\* wait need not return without a notification.
Fairness ==
    /\ WF_vars(Boot)
    /\ \A t \in Thread : WF_vars(Produce(t))
    /\ \A c \in Consumers : WF_vars(Consume(c))

Spec == Init /\ [][Next]_vars /\ Fairness


-------------------------------------------------------------------------------
Label == {"off", "idle", "enter", "type", "commit", "notifyR", "waitW",
          "createGnss", "createCors", "startServ", "spawn", "subscribe",
          "take", "retake", "waitR", "notifyW", "process"}

Cell == [type : Types \union {None}, no : Nat, at : 0..(HeaderLen + MaxBody), hdr : HeaderField]

Job == [type : Types \union {None}, obs : Int]

\* A thread is putting a record into r.
Busy == {"enter", "type", "commit", "notifyR", "waitW"}
Putting(t, r) == pc[t] \in Busy /\ RingOf(job[t].type) = r

\* The mutex of a ring is held by the thread that is writing a record to it.
MutexHeld ==
    \A t \in Thread : pc[t] \in {"type", "commit"} => lock[RingOf(job[t].type)] = t

\* The types of the variables; a ring never holds more than it has room for,
\* and a mutex is held by the one thread that is writing a record to its ring.
TypeOK ==
    /\ pc \in [Thread -> Label]
    /\ job \in [Thread -> Job]
    /\ \A t \in Thread : pc[t] \in Busy => job[t].type \in Types
    /\ exists \in [Ring -> BOOLEAN]
    /\ ring \in [Ring -> Seq(Cell)]
    /\ \A r \in Ring : Len(ring[r]) <= Capacity[r]
    /\ lock \in [Ring -> Thread \union {None}]
    /\ MutexHeld
    /\ header \in HeaderField
    /\ readBuffer \in [Consumers -> [filled : BOOLEAN, hdr : HeaderField, body : [1..MaxBody -> Cell]]]
    /\ obsNum \in Int
    /\ subscribed \in BOOLEAN
    /\ calls \in [Thread -> 0..MaxCalls]
    /\ spurious \in 0..MaxSpurious
    /\ put \in [Ring -> Nat]
    /\ done \in [Consumers -> Nat]
    /\ faults \in [Ring -> SUBSET {"torn", "clipped"}]

\* GNSSThreadFunc makes the rings, then starts the others, then subscribes.
BootOrder ==
    /\ pc[Gnss] # "createGnss" => exists["gnss"]
    /\ pc[Gnss] \notin {"createGnss", "createCors"} => exists["cors"]
    /\ \A r \in Ring : ~exists[r] => ring[r] = <<>>
    /\ pc[Gnss] \in {"createGnss", "createCors", "startServ"} => pc[Serv] = "off"
    /\ pc[Gnss] \in {"createGnss", "createCors", "startServ", "spawn"} => pc[Cors] = "off"
    /\ pc[Gnss] \in {"createGnss", "createCors", "startServ", "spawn", "subscribe"} => ~subscribed
    /\ ~subscribed => \A t \in EpThreads : pc[t] = "idle"

\* No callback of the EP library or the correction service, and not the cors
\* thread, uses a ring before GNSSThreadFunc has made it.
RingsBeforeCallers ==
    \A t \in Thread, r \in Ring : Putting(t, r) => exists[r]

\* The wake-up of a consumer is not lost between the producer's unlock and its
\* notify_all: while a consumer sleeps next to a record, the notification for
\* it is still to come.
NoLostReader ==
    \A r \in Ring : pc[Consumer(r)] = "waitR" /\ ring[r] # <<>> =>
        \E t \in Thread : pc[t] = "notifyR" /\ Putting(t, r)

\* Nobody waits for space in a ring that has nothing left to be taken, unless
\* the consumer is about to notify: the notify_all that hangs on readSize > 0 is
\* enough as long as the ring holds whole records.
NoLostWriter ==
    \A r \in Ring : Waiting(r) # {} /\ faults[r] = {} =>
        ring[r] # <<>> \/ pc[Consumer(r)] = "notifyW"

\* The cell that follows b is the next of b's record or the first of the next record.
Follows(a, b) ==
    IF b.at < HeaderLen + BodyLen[b.type]
    THEN a.type = b.type /\ a.no = b.no /\ a.at = b.at + 1
    ELSE a.no = b.no + 1 /\ a.at = 1

\* A ring holds whole records, each with its own header, in the order in which
\* they were put and up to the last one, and the consumer has the one before
\* the first of them: what the two rb_writes under the producer's mutex and the
\* two rb_reads under the consumer's are for.
Framed ==
    \A r \in Ring : faults[r] = {} =>
        LET s == ring[r]
            read == Held(Consumer(r))
        IN  /\ s = <<>> => put[r] = read
            /\ s # <<>> =>
                 /\ s[1].no = read + 1 /\ s[1].at = 1
                 /\ s[Len(s)].no = put[r]
                 /\ s[Len(s)].at = HeaderLen + BodyLen[s[Len(s)].type]
            /\ \A k \in 1..(Len(s) - 1) : Follows(s[k + 1], s[k])
            /\ \A k \in DOMAIN s : s[k].at <= HeaderLen =>
                 s[k].hdr = [len |-> BodyLen[s[k].type], type |-> s[k].type]

\* A consumer processes every record, in the order they were put.  It may
\* process one again, woken by a notification that came after it had already
\* taken the record, or by none at all.
InOrder ==
    [][\A c \in Consumers : faults'[TakesFrom(c)] = {} =>
           done'[c] \in {done[c], done[c] + 1}]_vars

\* Without spurious wake-ups a consumer never processes what new char[] left in
\* its readBuffer: the stale notification that wakes it next to an empty ring
\* belongs to a record that it has read.
NoPhantom ==
    spurious = 0 => \A c \in Consumers : pc[c] = "process" => readBuffer[c].filled

Faulty == \E r \in Ring : faults[r] # {}

\* Every record that is put is processed, as long as the framing holds.
Processed ==
    \A r \in Ring : \A n \in 1..(2 * MaxCalls) :
        put[r] >= n ~> done[Consumer(r)] >= n \/ Faulty

\* Every call of a callback returns, as long as the framing holds: the caller
\* does not wait for space for ever.
CallsReturn ==
    \A t \in EpThreads \union {Serv} : pc[t] = "enter" ~> pc[t] = "idle" \/ Faulty

\* The comment in GNSSThreadFunc on position reports: "another thread deal with it".
PvtOnlyInCors == ~(pc[Gnss] = "process" /\ readBuffer[Gnss].hdr.type = "pvt")

===============================================================================
