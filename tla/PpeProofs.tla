------------------------------ MODULE PpeProofs -------------------------------
(***************************************************************************)
(* What holds of the plug-in of the SA415M: of its threads and record      *)
(* channels (PpeThreads), and of what its gnss thread makes of a record    *)
(* (PpeConvert).                                                           *)
(*                                                                         *)
(* Threads.  For any number of EP threads, any lengths of records and      *)
(* rings, any number of calls and of spurious wake-ups, the rings hold     *)
(* whole records in the order in which they were put, and no one waits for *)
(* what is there.                                                          *)
(*                                                                         *)
(* Conversions.  After each measurement of a report the first slots are    *)
(* those of its satellites and hold the last that was said of them         *)
(* (Sorted, SortStep), as long as there is a slot for each (RoomForNew),   *)
(* and the clock comes off all of them at the end (EpochMade).  A          *)
(* measurement goes to the smoothed code and to the history of the same    *)
(* satellite (LockStep), and one more difference makes of a mean, rounded  *)
(* down, a mean of one more (MeanStep, Between, CostNext).                 *)
(*                                                                         *)
(* Induction on the number of measurements or ephemerides is UpTo.         *)
(***************************************************************************)
EXTENDS PpeThreads, PpeConvert, SequenceTheorems, FiniteSetTheorems, WellFoundedInduction, TLAPS

\* The longest body is one of them, and no body is longer.
LEMMA MaxBodyIs ==
    /\ MaxBody \in Nat \ {0}
    /\ \A ty \in Types : BodyLen[ty] \in Nat \ {0} /\ BodyLen[ty] <= MaxBody
<1>1. PICK m \in Types : \A ty \in Types : BodyLen[ty] <= BodyLen[m]
  BY PpeAssumption DEF PpeAssumption
<1>2. \E n \in {BodyLen[ty] : ty \in Types} : \A ty \in Types : BodyLen[ty] <= n
  BY <1>1
<1>3. MaxBody \in {BodyLen[ty] : ty \in Types} /\ \A ty \in Types : BodyLen[ty] <= MaxBody
  BY <1>2 DEF MaxBody
<1> QED
  BY <1>3, PpeAssumption DEF PpeAssumption

\* The threads are distinct, and none of them is None.
LEMMA ThreadsDiffer ==
    /\ Serv \in Thread /\ Cors \in Thread /\ Gnss \in Thread
    /\ EpThreads \subseteq Thread
    /\ None \notin Thread
    /\ \A t \in EpThreads : t # Serv /\ t # Cors /\ t # Gnss
    /\ Consumers \subseteq Thread
BY PpeAssumption DEF PpeAssumption, Thread, Serv, Cors, Gnss, None, Consumers

\* RingOf, Consumer and TakesFrom connect rings and consumers one to one.
LEMMA RingsAndConsumers ==
    /\ \A ty : RingOf(ty) \in Ring
    /\ \A r \in Ring : Consumer(r) \in Consumers /\ TakesFrom(Consumer(r)) = r
    /\ \A c \in Consumers : TakesFrom(c) \in Ring /\ Consumer(TakesFrom(c)) = c
BY DEF RingOf, Ring, Consumer, TakesFrom, Consumers, Cors, Gnss

\* A run of cells of a record is as long as its bounds say.
LEMMA CellsType ==
    ASSUME NEW type \in Types, NEW no \in Nat, NEW hdr \in HeaderField,
           NEW from \in Nat \ {0}, NEW n \in Nat, from + n - 1 <= HeaderLen + MaxBody
    PROVE  /\ Cells(type, no, hdr, from, from + n - 1) \in Seq(Cell)
           /\ Len(Cells(type, no, hdr, from, from + n - 1)) = n
<1>1. (from + n - 1) - from + 1 = n
  OBVIOUS
<1>2. HeaderLen \in Nat /\ MaxBody \in Nat
  BY PpeAssumption, MaxBodyIs DEF PpeAssumption
<1>3. ASSUME NEW k \in 1..n
      PROVE  [type |-> type, no |-> no, at |-> from + k - 1, hdr |-> hdr] \in Cell
  <2>1. from + k - 1 \in 0..(HeaderLen + MaxBody)
    BY <1>2
  <2> QED
    BY <2>1 DEF Cell
<1>4. Cells(type, no, hdr, from, from + n - 1) = [k \in 1..n |->
         [type |-> type, no |-> no, at |-> from + k - 1, hdr |-> hdr]]
  BY <1>1 DEF Cells
<1>5. Cells(type, no, hdr, from, from + n - 1) \in [1..n -> Cell]
  BY <1>3, <1>4
<1> QED
  BY <1>5

\* The cells of a header, and those of a body.
LEMMA HeaderCells ==
    ASSUME NEW type \in Types, NEW no \in Nat, NEW hdr \in HeaderField
    PROVE  /\ Cells(type, no, hdr, 1, HeaderLen) \in Seq(Cell)
           /\ Len(Cells(type, no, hdr, 1, HeaderLen)) = HeaderLen
<1>1. HeaderLen \in Nat /\ MaxBody \in Nat /\ 1 \in Nat \ {0}
  BY PpeAssumption, MaxBodyIs DEF PpeAssumption
<1>2. 1 + HeaderLen - 1 <= HeaderLen + MaxBody /\ 1 + HeaderLen - 1 = HeaderLen
  BY <1>1
<1>3. /\ Cells(type, no, hdr, 1, 1 + HeaderLen - 1) \in Seq(Cell)
      /\ Len(Cells(type, no, hdr, 1, 1 + HeaderLen - 1)) = HeaderLen
  BY <1>1, <1>2, CellsType
<1> QED
  BY <1>2, <1>3

\* The cells of a body.
LEMMA BodyCells ==
    ASSUME NEW type \in Types, NEW no \in Nat, NEW hdr \in HeaderField
    PROVE  LET b == Cells(type, no, hdr, HeaderLen + 1, HeaderLen + BodyLen[type])
           IN  b \in Seq(Cell) /\ Len(b) = BodyLen[type]
<1> DEFINE f == HeaderLen + 1
           n == BodyLen[type]
<1>1. HeaderLen \in Nat /\ MaxBody \in Nat /\ f \in Nat \ {0} /\ n \in Nat /\ n <= MaxBody
  BY PpeAssumption, MaxBodyIs DEF PpeAssumption
<1>2. f + n - 1 <= HeaderLen + MaxBody /\ f + n - 1 = HeaderLen + n
  BY <1>1
<1> HIDE DEF f, n
<1>3. Cells(type, no, hdr, f, f + n - 1) \in Seq(Cell) /\ Len(Cells(type, no, hdr, f, f + n - 1)) = n
  BY <1>1, <1>2, CellsType
<1>4. Cells(type, no, hdr, f, HeaderLen + n) \in Seq(Cell) /\ Len(Cells(type, no, hdr, f, HeaderLen + n)) = n
  BY <1>2, <1>3
<1> QED
  BY <1>4 DEF f, n

\* The blank field and cell have their types.
LEMMA BlankType == Blank \in Cell /\ Blank.hdr \in HeaderField /\ NoJob \in Job
<1>1. MaxBody \in Nat /\ HeaderLen \in Nat
  BY PpeAssumption, MaxBodyIs DEF PpeAssumption
<1> QED
  BY <1>1 DEF Blank, Cell, HeaderField, NoJob, Job


-------------------------------------------------------------------------------
\* Type correctness.

\* The first state has the types.
LEMMA TypeInit == Init => TypeOK
<1> SUFFICES ASSUME Init PROVE TypeOK
  OBVIOUS
<1>1. MaxBody \in Nat /\ HeaderLen \in Nat
  BY PpeAssumption, MaxBodyIs DEF PpeAssumption
<1>2. ring \in [Ring -> Seq(Cell)] /\ \A r \in Ring : Len(ring[r]) <= Capacity[r]
  BY PpeAssumption DEF PpeAssumption, Init
<1>3. readBuffer \in [Consumers -> [filled : BOOLEAN, hdr : HeaderField, body : [1..MaxBody -> Cell]]]
  BY BlankType DEF Init
<1>4. calls \in [Thread -> 0..MaxCalls] /\ spurious \in 0..MaxSpurious
  BY PpeAssumption DEF PpeAssumption, Init
<1>5. pc \in [Thread -> Label] /\ \A t \in Thread : pc[t] \notin Busy
  BY DEF Init, Label, Busy
<1>6. job \in [Thread -> Job]
  BY BlankType DEF Init
<1>7. exists \in [Ring -> BOOLEAN] /\ lock \in [Ring -> Thread \union {None}] /\ put \in [Ring -> Nat]
  BY DEF Init
<1>8. header \in HeaderField /\ done \in [Consumers -> Nat]
  BY <1>1 DEF Init, HeaderField
<1>9. MutexHeld
  BY <1>5 DEF MutexHeld, Busy
<1>10. obsNum \in Int /\ subscribed \in BOOLEAN
  <2>1. obsNum = -1 /\ subscribed = FALSE
    BY DEF Init, NoObs
  <2>2. subscribed \in BOOLEAN
    BY <2>1, Zenon
  <2>3. -1 \in Int
    OBVIOUS
  <2> QED
    BY <2>1, <2>2, <2>3, Zenon
<1>11. faults \in [Ring -> SUBSET {"torn", "clipped"}]
  BY DEF Init
<1> QED
  BY <1>2, <1>3, <1>4, <1>5, <1>6, <1>7, <1>8, <1>9, <1>10, <1>11 DEF TypeOK

\* Start-up keeps the types.
LEMMA TypeBoot == TypeOK /\ Boot => TypeOK'
<1> SUFFICES ASSUME TypeOK, Boot PROVE TypeOK'
  OBVIOUS
<1> USE DEF TypeOK, MutexHeld, Busy, channel, reader, calling, Goto
<1>1. CASE createGnss
  BY <1>1, ThreadsDiffer DEF createGnss, Label, Ring
<1>2. CASE createCors
  BY <1>2, ThreadsDiffer DEF createCors, Label, Ring
<1>3. CASE spawnCors
  BY <1>3, ThreadsDiffer DEF spawnCors, Label
<1>4. CASE subscribe
  BY <1>4, ThreadsDiffer DEF subscribe, Label
<1>5. ASSUME NEW loaded \in BOOLEAN, start_correctServ(loaded) PROVE TypeOK'
  BY <1>5, ThreadsDiffer DEF start_correctServ, Label
<1> QED
  BY <1>1, <1>2, <1>3, <1>4, <1>5 DEF Boot

\* A call of either kind, as the two actions that make one allow it.
LEMMA TypeCall ==
    ASSUME TypeOK, NEW t \in Thread, NEW type \in Types, NEW obs \in Int, Call(t, type, obs)
    PROVE  TypeOK'
<1> USE DEF Call
<1>1. calls' \in [Thread -> 0..MaxCalls]
  BY PpeAssumption DEF PpeAssumption, TypeOK
<1>2. pc' \in [Thread -> Label] /\ job' \in [Thread -> Job]
  <2>1. [type |-> type, obs |-> obs] \in Job
    BY DEF Job
  <2>2. "enter" \in Label
    BY DEF Label
  <2> QED
    BY <2>1, <2>2 DEF TypeOK, Goto
<1>3. \A u \in Thread : pc'[u] \in Busy => job'[u].type \in Types
  BY DEF TypeOK, Goto, Busy
<1>4. MutexHeld'
  BY DEF TypeOK, Goto, MutexHeld
<1> QED
  BY <1>1, <1>2, <1>3, <1>4 DEF TypeOK, channel, reader

\* Taking the mutex keeps the types: it was free.
LEMMA TypeEnter == ASSUME TypeOK, NEW t \in Thread, Enter(t) PROVE TypeOK'
<1>1. job[t].type \in Types /\ BodyLen[job[t].type] \in 0..MaxBody
  BY MaxBodyIs DEF TypeOK, Enter, Busy
<1>2. pc' \in [Thread -> Label] /\ header' \in HeaderField
  <2>1. pc' \in [Thread -> Label]
    BY DEF TypeOK, Enter, Goto, Label
  <2>2. [header EXCEPT !.len = BodyLen[job[t].type]] \in HeaderField
    BY <1>1 DEF TypeOK, HeaderField
  <2> QED
    BY <2>1, <2>2 DEF TypeOK, Enter
<1>3. lock' \in [Ring -> Thread \union {None}]
  BY DEF TypeOK, Enter
<1>4. \A u \in Thread : pc'[u] \in Busy => job'[u].type \in Types
  BY DEF TypeOK, Enter, Goto, Busy
<1>5. MutexHeld'
  BY ThreadsDiffer, RingsAndConsumers DEF TypeOK, Enter, Goto, MutexHeld
<1> QED
  BY <1>2, <1>3, <1>4, <1>5 DEF TypeOK, Enter, channel, reader, calling

\* The second field of the header keeps the types.
LEMMA TypePutType == ASSUME TypeOK, NEW t \in Thread, PutType(t) PROVE TypeOK'
<1>1. pc' \in [Thread -> Label] /\ header' \in HeaderField
  BY DEF TypeOK, PutType, Goto, Label, HeaderField, Busy
<1>2. \A u \in Thread : pc'[u] \in Busy => job'[u].type \in Types
  BY DEF TypeOK, PutType, Goto, Busy
<1>3. MutexHeld'
  BY DEF TypeOK, PutType, Goto, MutexHeld
<1> QED
  BY <1>1, <1>2, <1>3 DEF TypeOK, PutType, channel, reader, calling

\* What Commit appends to a ring, and that there is room for it.
LEMMA CommitFits ==
    ASSUME TypeOK, NEW t \in Thread, Commit(t)
    PROVE  /\ ring' \in [Ring -> Seq(Cell)]
           /\ \A r \in Ring : Len(ring'[r]) <= Capacity[r]
<1> DEFINE type == job[t].type
           r == RingOf(type)
           no == put[r] + 1
           h == Cells(type, no, header, 1, HeaderLen)
           b == Cells(type, no, Blank.hdr, HeaderLen + 1, HeaderLen + BodyLen[type])
           hFits == HeaderLen <= Free(r)
           bFits == BodyFits(r, type, hFits)
           x == IF hFits THEN h ELSE <<>>
           y == IF bFits THEN b ELSE <<>>
<1>1. /\ type \in Types /\ r \in Ring /\ no \in Nat /\ header \in HeaderField
      /\ HeaderLen \in Nat \ {0} /\ BodyLen[type] \in Nat \ {0} /\ BodyLen[type] <= MaxBody
      /\ MaxBody \in Nat /\ Capacity \in [Ring -> Nat]
  <2>1. type \in Types
    BY DEF TypeOK, Commit, Busy
  <2>2. r \in Ring
    BY RingsAndConsumers
  <2>3. put[r] \in Nat /\ header \in HeaderField
    BY <2>2 DEF TypeOK
  <2> HIDE DEF r, type
  <2> QED
    BY <2>1, <2>2, <2>3, MaxBodyIs, PpeAssumption DEF PpeAssumption
<1>2. h \in Seq(Cell) /\ Len(h) = HeaderLen
  <2> HIDE DEF r, type, no
  <2> QED
    BY <1>1, HeaderCells
<1>3. b \in Seq(Cell) /\ Len(b) = BodyLen[type]
  <2> HIDE DEF r, type, no
  <2> QED
    BY <1>1, BodyCells, BlankType
<1>4. x \in Seq(Cell) /\ y \in Seq(Cell)
  BY <1>2, <1>3
<1>5. ring[r] \in Seq(Cell) /\ Len(ring[r]) <= Capacity[r]
  BY <1>1 DEF TypeOK
<1>6. ring[r] \o x \o y \in Seq(Cell) /\ Len(ring[r] \o x \o y) = Len(ring[r]) + Len(x) + Len(y)
  BY <1>4, <1>5
<1>7. Len(x) + Len(y) + Len(ring[r]) <= Capacity[r]
  <2>1. Len(x) = IF hFits THEN HeaderLen ELSE 0
    BY <1>2
  <2>2. Len(y) = IF bFits THEN BodyLen[type] ELSE 0
    BY <1>3
  <2>3. Free(r) = Capacity[r] - Len(ring[r]) \/ Free(r) = -1
    BY DEF Free
  <2>4. Len(ring[r]) \in Nat /\ Capacity[r] \in Nat
    BY <1>1, <1>5
  <2> HIDE DEF r, type, x, y
  <2> QED
    BY <2>1, <2>2, <2>3, <2>4, <1>1, <1>5 DEF BodyFits
<1>8. ring' = [ring EXCEPT ![r] = ring[r] \o x \o y]
  BY DEF Commit
<1> HIDE DEF r, x, y
<1> QED
  BY <1>1, <1>5, <1>6, <1>7, <1>8 DEF TypeOK

\* Writing a record keeps the types and gives the mutex back.
LEMMA TypeCommit == ASSUME TypeOK, NEW t \in Thread, Commit(t) PROVE TypeOK'
<1>1. pc' \in [Thread -> Label] /\ lock' \in [Ring -> Thread \union {None}]
  BY DEF TypeOK, Commit, Goto, Label
<1>2. \A u \in Thread : pc'[u] \in Busy => job'[u].type \in Types
  BY DEF TypeOK, Commit, Goto, Busy
<1>3. MutexHeld'
  BY ThreadsDiffer, RingsAndConsumers DEF TypeOK, Commit, Goto, MutexHeld
<1>4. put' \in [Ring -> Nat] /\ obsNum' \in Int
  <2>1. \A r \in Ring : put[r] \in Nat /\ put[r] + 1 \in Nat
    BY DEF TypeOK
  <2>2. put' \in [Ring -> Nat]
    BY <2>1, RingsAndConsumers DEF TypeOK, Commit
  <2>3. job[t].obs \in Int
    BY DEF TypeOK, Job
  <2> QED
    BY <2>2, <2>3 DEF TypeOK, Commit
<1>5. faults' \in [Ring -> SUBSET {"torn", "clipped"}]
  BY DEF TypeOK, Commit
<1> QED
  BY <1>1, <1>2, <1>3, <1>4, <1>5, CommitFits DEF TypeOK, Commit, reader

\* Notifying the reader keeps the types.
LEMMA TypeNotifyR == ASSUME TypeOK, NEW t \in Thread, NotifyR(t) PROVE TypeOK'
<1>1. pc' \in [Thread -> Label] /\ job' \in [Thread -> Job]
  BY BlankType DEF TypeOK, NotifyR, Label
<1>2. \A u \in Thread : pc'[u] \in Busy => pc[u] = pc'[u] /\ u # t
  BY DEF TypeOK, NotifyR, Busy
<1>3. \A u \in Thread : u # t => job'[u] = job[u]
  BY DEF TypeOK, NotifyR
<1>4. MutexHeld'
  BY <1>2, <1>3 DEF TypeOK, NotifyR, MutexHeld, Busy
<1> QED
  BY <1>1, <1>2, <1>3, <1>4 DEF TypeOK, NotifyR, channel, reader, calling

\* What a consumer takes for the header has the type of one.
LEMMA FieldsType ==
    ASSUME TypeOK, NEW c \in Consumers, NEW h \in Seq(Cell)
    PROVE  FieldsRead(c, h) \subseteq HeaderField
<1>1. IsHeader(h) => h[1].hdr \in HeaderField
  <2> SUFFICES ASSUME IsHeader(h) PROVE h[1].hdr \in HeaderField
    OBVIOUS
  <2>1. 1 \in DOMAIN h
    BY PpeAssumption DEF PpeAssumption, IsHeader
  <2>2. h[1] \in Cell
    BY <2>1
  <2> QED
    BY <2>2 DEF Cell
<1>2. readBuffer[c].hdr \in HeaderField
  BY DEF TypeOK
<1>3. Garbage \subseteq HeaderField
  BY PpeAssumption DEF PpeAssumption
<1> QED
  BY <1>1, <1>2, <1>3 DEF FieldsRead

\* The two parts a header splits a ring into, and what a body leaves of the second.
LEMMA SplitType ==
    ASSUME NEW s \in Seq(Cell), NEW n \in 0..Len(s)
    PROVE  /\ SubSeq(s, 1, n) \in Seq(Cell) /\ Len(SubSeq(s, 1, n)) = n
           /\ SubSeq(s, n + 1, Len(s)) \in Seq(Cell)
           /\ Len(SubSeq(s, n + 1, Len(s))) = Len(s) - n
<1>1. Len(s) \in Nat /\ s \in [1..Len(s) -> Cell]
  OBVIOUS
<1>2. \A i \in 1..n : s[i] \in Cell
  BY <1>1
<1>3. \A i \in n + 1..Len(s) : s[i] \in Cell
  BY <1>1
<1>4. SubSeq(s, 1, n) \in Seq(Cell) /\ Len(SubSeq(s, 1, n)) = n
  BY <1>1, <1>2, SubSeqProperties
<1>5. SubSeq(s, n + 1, Len(s)) \in Seq(Cell) /\ Len(SubSeq(s, n + 1, Len(s))) = Len(s) - n
  <2> DEFINE e == Len(s)
             f == n + 1
  <2>1. e \in Int /\ f \in Int /\ (\A i \in f..e : s[i] \in Cell) /\ f <= e + 1 /\ n = f - 1
    BY <1>1, <1>3
  <2> HIDE DEF e, f
  <2>2. SubSeq(s, f, e) \in Seq(Cell) /\ Len(SubSeq(s, f, e)) = IF f <= e THEN e - f + 1 ELSE 0
    BY <2>1, SubSeqProperties
  <2>3. Len(SubSeq(s, f, e)) = e - n
    BY <2>1, <2>2
  <2> QED
    BY <2>2, <2>3 DEF e, f
<1> QED
  BY <1>4, <1>5

\* A read shortens the ring and overlays cells on cells.
LEMMA TakeType ==
    ASSUME TypeOK, NEW c \in Consumers, Take(c)
    PROVE  /\ pc' \in [Thread -> Label]
           /\ \A t \in Thread : pc'[t] \in Busy => pc[t] = pc'[t]
           /\ ring' \in [Ring -> Seq(Cell)]
           /\ \A q \in Ring : Len(ring'[q]) <= Len(ring[q])
           /\ readBuffer' \in [Consumers ->
                 [filled : BOOLEAN, hdr : HeaderField, body : [1..MaxBody -> Cell]]]
<1> DEFINE r == TakesFrom(c)
           n == MinOf(HeaderLen, Len(ring[r]))
           h == SubSeq(ring[r], 1, n)
           rest == SubSeq(ring[r], n + 1, Len(ring[r]))
<1>1. r \in Ring /\ c \in Thread
  BY RingsAndConsumers, ThreadsDiffer
<1>2. ring[r] \in Seq(Cell) /\ Len(ring[r]) \in Nat
  BY <1>1 DEF TypeOK
<1>3. n \in 0..Len(ring[r])
  BY <1>2, PpeAssumption DEF PpeAssumption, MinOf
<1>4. h \in Seq(Cell) /\ rest \in Seq(Cell) /\ Len(rest) = Len(ring[r]) - n
  BY <1>2, <1>3, SplitType
<1>5. CASE pc[c] = "take" /\ Empty(r)
  <2>1. pc' = [pc EXCEPT ![c] = "waitR"] /\ ring' = ring /\ readBuffer' = readBuffer
    BY <1>5 DEF Take, Goto
  <2>2. \A q \in Ring : Len(ring[q]) \in Nat
    BY DEF TypeOK
  <2>3. pc' \in [Thread -> Label] /\ \A t \in Thread : pc'[t] \in Busy => pc[t] = pc'[t]
    BY <1>1, <2>1 DEF TypeOK, Label, Busy
  <2> QED
    BY <2>1, <2>2, <2>3 DEF TypeOK
<1>6. CASE ~(pc[c] = "take" /\ Empty(r))
  <2> DEFINE m(hdr) == MinOf(hdr.len, Len(rest))
  <2>1. PICK hdr \in FieldsRead(c, h) :
           /\ ring' = [ring EXCEPT ![r] = SubSeq(rest, m(hdr) + 1, Len(rest))]
           /\ readBuffer' = [readBuffer EXCEPT ![c] =
                 [filled |-> @.filled \/ n > 0,
                  hdr    |-> hdr,
                  body   |-> [k \in 1..MaxBody |-> IF k <= m(hdr) THEN rest[k] ELSE @.body[k]]]]
           /\ pc' = [pc EXCEPT ![c] = IF m(hdr) > 0 THEN "notifyW"
                                      ELSE IF hdr.len > 0 THEN "process" ELSE "take"]
    BY <1>6 DEF Take, Goto
  <2>2. hdr \in HeaderField
    BY <1>4, FieldsType
  <2>3. hdr.len \in Nat
    BY <2>2, MaxBodyIs DEF HeaderField
  <2>4. m(hdr) \in 0..Len(rest)
    BY <1>4, <2>3 DEF MinOf
  <2>5. SubSeq(rest, m(hdr) + 1, Len(rest)) \in Seq(Cell)
        /\ Len(SubSeq(rest, m(hdr) + 1, Len(rest))) = Len(rest) - m(hdr)
    <3> HIDE DEF m, rest
    <3> QED
      BY <1>4, <2>4, SplitType
  <2>6. \A k \in 1..MaxBody : k <= m(hdr) => rest[k] \in Cell
    <3> HIDE DEF m, rest
    <3>1. \A k \in 1..Len(rest) : rest[k] \in Cell
      BY <1>4
    <3>2. Len(rest) \in Nat
      BY <1>4
    <3> QED
      BY <2>4, <3>1, <3>2, MaxBodyIs
  <2>7. readBuffer[c].body \in [1..MaxBody -> Cell] /\ readBuffer[c].filled \in BOOLEAN
    BY DEF TypeOK
  <2> DEFINE buf == [filled |-> readBuffer[c].filled \/ n > 0, hdr |-> hdr,
                     body |-> [k \in 1..MaxBody |-> IF k <= m(hdr) THEN rest[k]
                                                    ELSE readBuffer[c].body[k]]]
  <2>8. buf \in [filled : BOOLEAN, hdr : HeaderField, body : [1..MaxBody -> Cell]]
    <3> HIDE DEF m, rest, n
    <3>1. [k \in 1..MaxBody |-> IF k <= m(hdr) THEN rest[k] ELSE readBuffer[c].body[k]]
             \in [1..MaxBody -> Cell]
      BY <2>6, <2>7
    <3>2. (readBuffer[c].filled \/ n > 0) \in BOOLEAN
      OBVIOUS
    <3> QED
      BY <2>2, <3>1, <3>2
  <2>9. readBuffer' = [readBuffer EXCEPT ![c] = buf]
    BY <2>1
  <2>10. readBuffer' \in [Consumers -> [filled : BOOLEAN, hdr : HeaderField, body : [1..MaxBody -> Cell]]]
    <3> HIDE DEF buf
    <3> QED
      BY <2>8, <2>9 DEF TypeOK
  <2>11. ring' \in [Ring -> Seq(Cell)] /\ \A q \in Ring : Len(ring'[q]) <= Len(ring[q])
    <3>1. \A q \in Ring : ring[q] \in Seq(Cell) /\ Len(ring[q]) \in Nat
      BY DEF TypeOK
    <3>2. Len(rest) - m(hdr) <= Len(ring[r])
      <4> HIDE DEF m, rest, r, n
      <4> QED
        BY <1>2, <1>3, <1>4, <2>4
    <3> HIDE DEF m, rest, r
    <3> QED
      BY <1>1, <2>1, <2>5, <3>1, <3>2 DEF TypeOK
  <2>12. pc' \in [Thread -> Label] /\ \A t \in Thread : pc'[t] \in Busy => pc[t] = pc'[t]
    <3> HIDE DEF m
    <3> QED
      BY <1>1, <2>1 DEF TypeOK, Label, Busy
  <2> QED
    BY <2>10, <2>11, <2>12
<1> QED
  BY <1>5, <1>6

\* Reading a record, or going to sleep, keeps the types.
LEMMA TypeTake == ASSUME TypeOK, NEW c \in Consumers, Take(c) PROVE TypeOK'
<1>1. \A r \in Ring : Len(ring'[r]) <= Capacity[r]
  <2>1. \A r \in Ring : Len(ring[r]) \in Nat /\ Len(ring'[r]) \in Nat /\ Capacity[r] \in Nat
    BY TakeType, PpeAssumption DEF TypeOK, PpeAssumption
  <2> QED
    BY <2>1, TakeType DEF TypeOK
<1>2. job' = job /\ lock' = lock
  BY DEF Take
<1>3. \A u \in Thread : pc'[u] \in Busy => job'[u].type \in Types
  BY <1>2, TakeType DEF TypeOK
<1>4. MutexHeld'
  BY <1>2, TakeType DEF TypeOK, MutexHeld, Busy
<1> QED
  BY <1>1, <1>2, <1>3, <1>4, TakeType DEF TypeOK, Take, calling

\* Notifying the writers keeps the types.
LEMMA TypeNotifyW == ASSUME TypeOK, NEW c \in Consumers, NotifyW(c) PROVE TypeOK'
<1>1. pc' \in [Thread -> Label] /\ \A u \in Thread : pc'[u] \in Busy => pc[u] \in Busy
  BY DEF TypeOK, NotifyW, Label, Busy, Waiting
<1>2. \A u \in Thread : pc'[u] \in {"type", "commit"} => pc[u] = pc'[u]
  BY DEF NotifyW
<1>3. MutexHeld'
  BY <1>2 DEF TypeOK, NotifyW, MutexHeld
<1> QED
  BY <1>1, <1>3 DEF TypeOK, NotifyW, channel, reader, calling

\* The number of the record a consumer holds is a number.
LEMMA HeldType == ASSUME TypeOK, NEW c \in Consumers PROVE Held(c) \in Nat
<1>1. readBuffer[c].body[1] \in Cell
  BY MaxBodyIs DEF TypeOK
<1> QED
  BY <1>1 DEF Held, Cell

\* Processing a record keeps the types; a GGA record is one.
LEMMA TypeProcess == ASSUME TypeOK, NEW c \in Consumers, Process(c) PROVE TypeOK'
<1>1. done' \in [Consumers -> Nat]
  BY HeldType DEF TypeOK, Process
<1>2. pc' \in [Thread -> Label] /\ job' \in [Thread -> Job]
  <2>1. [type |-> "gga", obs |-> 0] \in Job
    BY DEF Job, Types
  <2>2. "enter" \in Label /\ "take" \in Label
    BY DEF Label
  <2> QED
    BY <2>1, <2>2 DEF TypeOK, Process, Goto
<1>3. \A u \in Thread : pc'[u] \in Busy => job'[u].type \in Types
  BY DEF TypeOK, Process, Goto, Busy, Types
<1>4. MutexHeld'
  BY DEF TypeOK, Process, Goto, MutexHeld
<1> QED
  BY <1>1, <1>2, <1>3, <1>4 DEF TypeOK, Process, channel, calling

\* A spurious wake-up keeps the types.
LEMMA TypeSpurious == ASSUME TypeOK, NEW t \in Thread, Spurious(t) PROVE TypeOK'
<1>1. spurious' \in 0..MaxSpurious
  BY PpeAssumption DEF PpeAssumption, TypeOK, Spurious
<1>2. pc' \in [Thread -> Label]
  BY DEF TypeOK, Spurious, Goto, Label
<1>3. \A u \in Thread : pc'[u] \in Busy => job'[u].type \in Types
  BY DEF TypeOK, Spurious, Goto, Busy
<1>4. MutexHeld'
  BY DEF TypeOK, Spurious, Goto, MutexHeld
<1> QED
  BY <1>1, <1>2, <1>3, <1>4 DEF TypeOK, Spurious, channel, reader, calling

\* Every step keeps the types, the bounds of the rings and the mutexes.
LEMMA TypeStep == TypeOK /\ [Next]_vars => TypeOK'
<1> SUFFICES ASSUME TypeOK, [Next]_vars PROVE TypeOK'
  OBVIOUS
<1>1. CASE Boot
  BY <1>1, TypeBoot
<1>2. ASSUME NEW t \in EpThreads, EpCall(t) PROVE TypeOK'
  <2>1. PICK type \in EpTypes : \E obs \in IF type = "meas" THEN ObsCounts ELSE {0} : Call(t, type, obs)
    BY <1>2 DEF EpCall
  <2>2. PICK obs \in IF type = "meas" THEN ObsCounts ELSE {0} : Call(t, type, obs)
    BY <2>1
  <2>3. type \in Types /\ obs \in Int /\ t \in Thread
    BY PpeAssumption, ThreadsDiffer DEF PpeAssumption, Types
  <2> QED
    BY <2>2, <2>3, TypeCall
<1>3. CASE ServCall
  <2>1. PICK type \in ServTypes : Call(Serv, type, 0)
    BY <1>3 DEF ServCall
  <2>2. type \in Types
    BY PpeAssumption DEF PpeAssumption, Types
  <2> QED
    BY <2>1, <2>2, TypeCall, ThreadsDiffer
<1>4. ASSUME NEW t \in Thread, Produce(t) PROVE TypeOK'
  BY <1>4, TypeEnter, TypePutType, TypeCommit, TypeNotifyR DEF Produce
<1>5. ASSUME NEW t \in Thread, Spurious(t) PROVE TypeOK'
  BY <1>5, TypeSpurious
<1>6. ASSUME NEW c \in Consumers, Consume(c) PROVE TypeOK'
  BY <1>6, TypeTake, TypeNotifyW, TypeProcess DEF Consume
<1>7. CASE UNCHANGED vars
  BY <1>7 DEF vars, TypeOK, MutexHeld
<1> QED
  BY <1>1, <1>2, <1>3, <1>4, <1>5, <1>6, <1>7 DEF Next

\* The variables keep their types, no ring holds more than it has room for, and
\* no two threads write to one ring at the same time.
THEOREM TypeCorrect == Spec => []TypeOK
<1>1. Init => TypeOK
  BY TypeInit
<1>2. TypeOK /\ [Next]_vars => TypeOK'
  BY TypeStep
<1> QED
  BY <1>1, <1>2, PTL DEF Spec

-------------------------------------------------------------------------------
\* The order in which the threads start.

\* The steps of GNSSThreadFunc before its loop.
BootLabel == {"createGnss", "createCors", "startServ", "spawn", "subscribe"}

\* Nothing is started in the first state.
LEMMA BootInit == Init => BootOrder
BY ThreadsDiffer DEF Init, BootOrder, Gnss, Cors, Serv

\* Each step of start-up does what the next one relies on.
LEMMA BootBoot == TypeOK /\ BootOrder /\ Boot => BootOrder'
<1> SUFFICES ASSUME TypeOK, BootOrder, Boot PROVE BootOrder'
  OBVIOUS
<1> USE ThreadsDiffer DEF Goto, channel, reader, calling, BootOrder
<1>1. CASE createGnss
  BY <1>1 DEF createGnss, TypeOK, Ring, Serv, Cors, Gnss
<1>2. CASE createCors
  BY <1>2 DEF createCors, TypeOK, Ring, Serv, Cors, Gnss
<1>3. CASE spawnCors
  BY <1>3 DEF spawnCors, TypeOK, Serv, Cors, Gnss
<1>4. CASE subscribe
  BY <1>4 DEF subscribe, TypeOK, Serv, Cors, Gnss
<1>5. ASSUME NEW loaded \in BOOLEAN, start_correctServ(loaded) PROVE BootOrder'
  BY <1>5 DEF start_correctServ, TypeOK, Serv, Cors, Gnss
<1> QED
  BY <1>1, <1>2, <1>3, <1>4, <1>5 DEF Boot

\* A step that makes no ring, does not subscribe, leaves a ring that does not
\* exist empty, and moves no thread that is still to be started.
LEMMA BootKept ==
    ASSUME TypeOK, BootOrder, exists' = exists, subscribed' = subscribed,
           \A t \in Thread : pc[t] \in {"off"} \union BootLabel => pc'[t] = pc[t],
           \A t \in Thread : pc'[t] \in BootLabel => pc'[t] = pc[t],
           ~subscribed => \A t \in EpThreads : pc'[t] = pc[t],
           \A r \in Ring : ~exists[r] => ring'[r] = ring[r]
    PROVE  BootOrder'
BY ThreadsDiffer DEF BootOrder, BootLabel

\* A ring that was not made is not written to.
LEMMA CommitNeedsRing ==
    ASSUME TypeOK, NEW t \in Thread, Commit(t)
    PROVE  \A r \in Ring : ~exists[r] => ring'[r] = ring[r]
<1> SUFFICES ASSUME NEW r \in Ring, ~exists[r], r = RingOf(job[t].type) PROVE ring'[r] = ring[r]
  BY DEF Commit, TypeOK
<1>1. job[t].type \in Types
  BY DEF TypeOK, Commit, Busy
<1>2. HeaderLen >= 1 /\ BodyLen[job[t].type] >= 1 /\ HeaderLen \in Nat /\ BodyLen[job[t].type] \in Nat
  BY <1>1, PpeAssumption DEF PpeAssumption
<1>3. Free(r) = -1
  BY DEF Free
<1>4. ~(HeaderLen <= Free(r)) /\ ~BodyFits(r, job[t].type, HeaderLen <= Free(r))
  BY <1>2, <1>3 DEF BodyFits
<1>5. ring' = [ring EXCEPT ![r] = ring[r] \o <<>> \o <<>>]
  BY <1>4 DEF Commit
<1>6. ring[r] \in Seq(Cell)
  BY DEF TypeOK
<1>7. ring[r] \o <<>> \o <<>> = ring[r]
  BY <1>6
<1> QED
  BY <1>5, <1>7 DEF TypeOK

\* A read leaves an empty ring empty.
LEMMA TakeNeedsRing ==
    ASSUME TypeOK, BootOrder, NEW c \in Consumers, Take(c)
    PROVE  \A r \in Ring : ~exists[r] => ring'[r] = ring[r]
<1> SUFFICES ASSUME NEW r \in Ring, ~exists[r] PROVE ring'[r] = ring[r]
  OBVIOUS
<1>1. ring[r] = <<>> /\ ring'[r] \in Seq(Cell) /\ Len(ring'[r]) <= Len(ring[r])
  BY TakeType DEF BootOrder
<1>2. Len(ring'[r]) = 0
  BY <1>1
<1> QED
  BY <1>1, <1>2, EmptySeq

\* Every step keeps the order of start-up.
LEMMA BootStep == TypeOK /\ BootOrder /\ [Next]_vars => BootOrder'
<1> SUFFICES ASSUME TypeOK, BootOrder, [Next]_vars PROVE BootOrder'
  OBVIOUS
<1> USE ThreadsDiffer DEF Goto, channel, reader, calling, BootLabel
<1>1. CASE Boot
  BY <1>1, BootBoot
<1>2. ASSUME NEW t \in EpThreads, EpCall(t) PROVE BootOrder'
  <2>1. subscribed /\ \E type, obs : Call(t, type, obs)
    BY <1>2 DEF EpCall
  <2> QED
    BY <2>1, BootKept DEF Call, TypeOK
<1>3. CASE ServCall
  <2>1. PICK type \in ServTypes : Call(Serv, type, 0)
    BY <1>3 DEF ServCall
  <2> QED
    BY <2>1, BootKept DEF Call, TypeOK
<1>4. ASSUME NEW t \in Thread, Produce(t) PROVE BootOrder'
  <2>1. t \in EpThreads /\ ~subscribed => pc[t] = "idle"
    BY DEF BootOrder
  <2>2. CASE Enter(t)
    BY <2>1, <2>2, BootKept DEF Enter, TypeOK
  <2>3. CASE PutType(t)
    BY <2>1, <2>3, BootKept DEF PutType, TypeOK
  <2>4. CASE Commit(t)
    BY <2>1, <2>4, BootKept, CommitNeedsRing DEF Commit, TypeOK
  <2>5. CASE NotifyR(t)
    <3>1. \A u \in Thread : pc'[u] = pc[u] \/ u = t \/ (u \in Consumers /\ pc[u] = "waitR" /\ pc'[u] = "retake")
      BY <2>5, RingsAndConsumers DEF NotifyR, TypeOK
    <3>2. pc'[t] \in {"take", "idle"} /\ pc[t] = "notifyR"
      BY <2>5, RingsAndConsumers DEF NotifyR, TypeOK
    <3>3. \A u \in EpThreads : u \notin Consumers
      BY DEF Consumers
    <3>4. exists' = exists /\ subscribed' = subscribed /\ ring' = ring
      BY <2>5 DEF NotifyR
    <3> QED
      BY <2>1, <3>1, <3>2, <3>3, <3>4, BootKept
  <2> QED
    BY <1>4, <2>2, <2>3, <2>4, <2>5 DEF Produce
<1>5. ASSUME NEW t \in Thread, Spurious(t) PROVE BootOrder'
  <2>1. t \in EpThreads /\ ~subscribed => pc[t] = "idle"
    BY DEF BootOrder
  <2> QED
    BY <1>5, <2>1, BootKept DEF Spurious, TypeOK
<1>6. ASSUME NEW c \in Consumers, Consume(c) PROVE BootOrder'
  <2>1. c \notin EpThreads /\ c \in Thread
    BY DEF Consumers
  <2>2. CASE Take(c)
    <3>1. pc' = [pc EXCEPT ![c] = pc'[c]]
          /\ pc[c] \in {"take", "retake"} /\ pc'[c] \in {"waitR", "notifyW", "process", "take"}
      BY <2>1, <2>2 DEF Take, TypeOK
    <3>2. exists' = exists /\ subscribed' = subscribed
      BY <2>2 DEF Take
    <3> QED
      BY <2>1, <2>2, <3>1, <3>2, BootKept, TakeNeedsRing DEF TypeOK
  <2>3. CASE NotifyW(c)
    <3>1. \A t \in EpThreads : ~subscribed => pc[t] = "idle"
      BY DEF BootOrder
    <3>2. \A u \in Thread : pc'[u] = pc[u] \/ (pc[u] = "waitW" /\ pc'[u] = "enter")
                             \/ (u = c /\ pc[u] = "notifyW" /\ pc'[u] = "process")
      BY <2>3 DEF NotifyW, Waiting
    <3> QED
      BY <2>1, <2>3, <3>1, <3>2, BootKept DEF NotifyW
  <2>4. CASE Process(c)
    BY <2>1, <2>4, BootKept DEF Process, TypeOK
  <2> QED
    BY <1>6, <2>2, <2>3, <2>4 DEF Consume
<1>7. CASE UNCHANGED vars
  BY <1>7 DEF vars, BootOrder
<1> QED
  BY <1>1, <1>2, <1>3, <1>4, <1>5, <1>6, <1>7 DEF Next

\* Whoever puts a record was started after both rings were made.
LEMMA BootImplies == TypeOK /\ BootOrder => RingsBeforeCallers
<1> SUFFICES ASSUME TypeOK, BootOrder, NEW t \in Thread, NEW r \in Ring, Putting(t, r)
             PROVE  exists[r]
  BY DEF RingsBeforeCallers
<1>1. pc[t] \notin {"off", "idle"} /\ pc[t] \notin BootLabel
  BY DEF Putting, Busy, BootLabel
<1>2. pc[Gnss] \notin {"createGnss", "createCors"}
  BY <1>1, ThreadsDiffer DEF BootOrder, BootLabel, Thread
<1> QED
  BY <1>2 DEF BootOrder, Ring

\* No record is put into a ring that GNSSThreadFunc has not made.
THEOREM RingsExist == Spec => []RingsBeforeCallers
<1>1. Init => TypeOK /\ BootOrder
  BY TypeInit, BootInit
<1>2. TypeOK /\ BootOrder /\ [Next]_vars => TypeOK' /\ BootOrder'
  BY TypeStep, BootStep
<1> QED
  BY <1>1, <1>2, BootImplies, PTL DEF Spec

-------------------------------------------------------------------------------
\* The notification of a consumer.

\* What NoLostReader says of one ring.
Noticed(r) ==
    pc[Consumer(r)] = "waitR" /\ ring[r] # <<>> =>
        \E t \in Thread : pc[t] = "notifyR" /\ Putting(t, r)

\* It stays so when the consumer was asleep before, the ring had something in
\* it before, and no notification for it is given.
LEMMA NoticedKept ==
    ASSUME NEW r \in Ring, Noticed(r),
           pc'[Consumer(r)] = "waitR" => pc[Consumer(r)] = "waitR",
           ring'[r] # <<>> => ring[r] # <<>>,
           \A t \in Thread : pc[t] = "notifyR" /\ Putting(t, r) =>
               pc'[t] = "notifyR" /\ job'[t] = job[t]
    PROVE  Noticed(r)'
BY DEF Noticed, Putting, Busy

\* The consumer goes to sleep only next to an empty ring.
LEMMA NoticedTake ==
    ASSUME TypeOK, BootOrder, NEW c \in Consumers, Take(c), NEW r \in Ring, Noticed(r)
    PROVE  Noticed(r)'
<1> DEFINE q == TakesFrom(c)
<1>1. q \in Ring /\ c \in Thread
  BY RingsAndConsumers, ThreadsDiffer
<1>2. \A t \in Thread : pc[t] = "notifyR" => pc'[t] = "notifyR" /\ job'[t] = job[t]
  BY <1>1 DEF Take, Goto, TypeOK
<1>3. CASE r = q /\ pc'[c] = "waitR"
  <2>1. Empty(r) /\ ring' = ring
    BY <1>1, <1>3 DEF Take, Goto, TypeOK
  <2>2. ring[r] \in Seq(Cell) /\ Len(ring[r]) \in Nat
    BY DEF TypeOK
  <2>3. ring[r] = <<>>
    BY <2>1, <2>2, EmptySeq DEF Empty, Used, BootOrder
  <2> QED
    BY <2>1, <2>3 DEF Noticed
<1>4. CASE r = q /\ pc'[c] # "waitR"
  BY <1>4, RingsAndConsumers DEF Noticed
<1>5. CASE r # q
  <2>1. Consumer(r) # c
    BY <1>5, RingsAndConsumers
  <2>2. ring'[r] = ring[r] /\ pc'[Consumer(r)] = pc[Consumer(r)]
    BY <1>1, <1>5, <2>1, RingsAndConsumers, ThreadsDiffer DEF Take, Goto, TypeOK
  <2> HIDE DEF q
  <2> QED
    BY <1>2, <2>2, NoticedKept
<1> QED
  BY <1>3, <1>4, <1>5

\* Who puts a record notifies next.
LEMMA NoticedCommit ==
    ASSUME TypeOK, NEW t \in Thread, Commit(t), NEW r \in Ring, Noticed(r)
    PROVE  Noticed(r)'
<1>1. pc' = [pc EXCEPT ![t] = "notifyR"] /\ job' = job /\ pc[t] = "commit"
  BY DEF Commit, Goto
<1>2. CASE r = RingOf(job[t].type)
  BY <1>1, <1>2 DEF Noticed, Putting, Busy, TypeOK
<1>3. CASE r # RingOf(job[t].type)
  <2>1. ring'[r] = ring[r]
    BY <1>3 DEF Commit, TypeOK
  <2>2. Consumer(r) \in Thread
    BY RingsAndConsumers, ThreadsDiffer
  <2> QED
    BY <1>1, <2>1, <2>2, NoticedKept DEF TypeOK
<1> QED
  BY <1>2, <1>3

\* A notification wakes the consumer of its ring, and is none for the other.
LEMMA NoticedNotify ==
    ASSUME TypeOK, NEW t \in Thread, NotifyR(t), NEW r \in Ring, Noticed(r)
    PROVE  Noticed(r)'
<1> DEFINE q == RingOf(job[t].type)
<1>1. /\ pc[t] = "notifyR" /\ ring' = ring
      /\ \A u \in Thread : pc'[u] = "waitR" => pc[u] = "waitR" /\ u # Consumer(q)
      /\ \A u \in Thread : u # t /\ pc[u] = "notifyR" => pc'[u] = "notifyR" /\ job'[u] = job[u]
  <2>1. Consumer(q) \in Thread
    BY RingsAndConsumers, ThreadsDiffer
  <2>2. pc[t] = "notifyR" /\ ring' = ring /\ job' = [job EXCEPT ![t] = NoJob]
    BY DEF NotifyR, channel
  <2>3. \A u \in Thread : pc'[u] = IF u = t THEN (IF t = Cors THEN "take" ELSE "idle")
                                  ELSE IF u = Consumer(q) /\ pc[u] = "waitR" THEN "retake" ELSE pc[u]
    <3> HIDE DEF q
    <3>1. pc' = [(IF pc[Consumer(q)] = "waitR" THEN [pc EXCEPT ![Consumer(q)] = "retake"] ELSE pc)
                    EXCEPT ![t] = IF t = Cors THEN "take" ELSE "idle"]
      BY DEF NotifyR, q
    <3> QED
      BY <2>1, <3>1 DEF TypeOK
  <2> HIDE DEF q
  <2>4. \A u \in Thread : u # t => job'[u] = job[u]
    BY <2>2 DEF TypeOK
  <2> QED
    BY <2>2, <2>3, <2>4
<1>2. Consumer(r) \in Thread
  BY RingsAndConsumers, ThreadsDiffer
<1>3. CASE r = q
  BY <1>1, <1>2, <1>3 DEF Noticed
<1>4. CASE r # q
  <2>1. ~Putting(t, r)
    BY <1>4 DEF Putting
  <2> HIDE DEF q
  <2> QED
    BY <1>1, <1>2, <2>1, NoticedKept
<1> QED
  BY <1>3, <1>4

\* Every step keeps the notification of both consumers.
LEMMA ReaderStep ==
    ASSUME TypeOK, BootOrder, NoLostReader, [Next]_vars
    PROVE  NoLostReader'
<1> SUFFICES ASSUME NEW r \in Ring PROVE Noticed(r)'
  BY DEF NoLostReader, Noticed
<1>1. Noticed(r)
  BY DEF NoLostReader, Noticed
<1>2. Consumer(r) \in Thread
  BY RingsAndConsumers, ThreadsDiffer
<1> USE <1>1, <1>2, NoticedKept, ThreadsDiffer DEF Goto, channel, reader, calling
<1>3. CASE Boot
  <2>1. ring' = ring /\ job' = job
    BY <1>3 DEF Boot, createGnss, createCors, spawnCors, subscribe, start_correctServ
  <2>2. \A u \in Thread : pc'[u] = pc[u] \/ (pc[u] # "notifyR" /\ pc'[u] # "waitR")
    <3>1. CASE createGnss \/ createCors \/ subscribe
      BY <3>1 DEF createGnss, createCors, subscribe, TypeOK
    <3>2. CASE spawnCors
      BY <3>2 DEF spawnCors, TypeOK, BootOrder
    <3>3. ASSUME NEW loaded \in BOOLEAN, start_correctServ(loaded)
          PROVE  \A u \in Thread : pc'[u] = pc[u] \/ (pc[u] # "notifyR" /\ pc'[u] # "waitR")
      BY <3>3 DEF start_correctServ, TypeOK, BootOrder
    <3> QED
      BY <1>3, <3>1, <3>2, <3>3 DEF Boot
  <2> QED
    BY <2>1, <2>2
<1>4. ASSUME NEW t \in EpThreads, EpCall(t) PROVE Noticed(r)'
  <2>1. \E type, obs : Call(t, type, obs)
    BY <1>4 DEF EpCall
  <2> QED
    BY <2>1 DEF Call, TypeOK
<1>5. CASE ServCall
  <2>1. PICK type \in ServTypes : Call(Serv, type, 0)
    BY <1>5 DEF ServCall
  <2> QED
    BY <2>1 DEF Call, TypeOK
<1>6. ASSUME NEW t \in Thread, Produce(t) PROVE Noticed(r)'
  <2>1. CASE Enter(t)
    BY <2>1 DEF Enter, TypeOK
  <2>2. CASE PutType(t)
    BY <2>2 DEF PutType, TypeOK
  <2> QED
    BY <1>6, <2>1, <2>2, NoticedCommit, NoticedNotify DEF Produce
<1>7. ASSUME NEW t \in Thread, Spurious(t) PROVE Noticed(r)'
  BY <1>7 DEF Spurious, TypeOK
<1>8. ASSUME NEW c \in Consumers, Consume(c) PROVE Noticed(r)'
  <2>1. CASE NotifyW(c)
    <3>1. \A u \in Thread : pc'[u] = pc[u] \/ (pc[u] # "notifyR" /\ pc'[u] # "waitR")
      BY <2>1 DEF NotifyW, Waiting
    <3> QED
      BY <2>1, <3>1 DEF NotifyW
  <2>2. CASE Process(c)
    <3>1. \A u \in Thread : pc'[u] = pc[u] \/ (pc[u] # "notifyR" /\ pc'[u] # "waitR")
      BY <2>2 DEF Process, TypeOK
    <3>2. \A u \in Thread : pc[u] = "notifyR" => job'[u] = job[u]
      BY <2>2 DEF Process, TypeOK
    <3> QED
      BY <2>2, <3>1, <3>2 DEF Process
  <2> QED
    BY <1>8, <2>1, <2>2, NoticedTake DEF Consume
<1>9. CASE UNCHANGED vars
  BY <1>9 DEF vars
<1> QED
  BY <1>3, <1>4, <1>5, <1>6, <1>7, <1>8, <1>9 DEF Next

\* A consumer never sleeps next to a record whose notification was already
\* given: the notify_all after the unlock is not lost.
THEOREM ReaderNotLost == Spec => []NoLostReader
<1>1. Init => TypeOK /\ BootOrder
  BY TypeInit, BootInit
<1>2. Init => NoLostReader
  BY DEF Init, NoLostReader
<1>3. TypeOK /\ BootOrder /\ [Next]_vars => TypeOK' /\ BootOrder'
  BY TypeStep, BootStep
<1>4. TypeOK /\ BootOrder /\ NoLostReader /\ [Next]_vars => NoLostReader'
  BY ReaderStep
<1> QED
  BY <1>1, <1>2, <1>3, <1>4, PTL DEF Spec

-------------------------------------------------------------------------------
\* The framing of a ring.

\* The length of a record.
RecordLen(type) == HeaderLen + BodyLen[type]

\* Cell k of s is part of a whole record: its cells stand around k, one for
\* each place in the record, and the header says what the record is.
WholeAt(s, k) ==
    LET type == s[k].type
        before == k - s[k].at
    IN  /\ type \in Types
        /\ s[k].at \in 1..RecordLen(type)
        /\ s[k].at <= HeaderLen => s[k].hdr = [len |-> BodyLen[type], type |-> type]
        /\ \A j \in 1..RecordLen(type) :
              /\ before + j \in 1..Len(s)
              /\ s[before + j].type = type
              /\ s[before + j].no = s[k].no
              /\ s[before + j].at = j

\* s holds the records after number read and up to number last.
Records(s, read, last) ==
    /\ \A k \in 1..Len(s) : WholeAt(s, k)
    /\ s = <<>> => last = read
    /\ s # <<>> => /\ s[1].no = read + 1 /\ s[1].at = 1
                   /\ s[Len(s)].no = last
                   /\ s[Len(s)].at = RecordLen(s[Len(s)].type)
    /\ \A k \in 1..(Len(s) - 1) : Follows(s[k + 1], s[k])

\* The space a producer found is there until it has put its record.
SpaceKept ==
    \A t \in Thread : pc[t] \in {"type", "commit"} =>
        Free(RingOf(job[t].type)) >= Need(job[t].type)

\* A readBuffer that nothing was read into holds no cell of a record.
BlankBody ==
    \A c \in Consumers : ~readBuffer[c].filled =>
        \A k \in 1..MaxBody : readBuffer[c].body[k].type = None

\* An unbroken ring goes on where its consumer's readBuffer ends.
RecordsFrom(r) == faults[r] = {} => Records(ring[r], Held(Consumer(r)), put[r])

\* What a consumer processed last is what it holds, or, between the read and
\* the processing, the record before it.
DoneNear(c) ==
    faults[TakesFrom(c)] = {} =>
        \/ done[c] = Held(c)
        \/ pc[c] \in {"notifyW", "process"} /\ Held(c) = done[c] + 1

\* The inductive invariant under Framed, InOrder and NoLostWriter.
FrameInv ==
    /\ SpaceKept
    /\ BlankBody
    /\ \A r \in Ring : RecordsFrom(r)
    /\ \A c \in Consumers : DoneNear(c)

\* What NoLostWriter says of one ring.
SpaceNoticed(r) ==
    Waiting(r) # {} /\ faults[r] = {} => ring[r] # <<>> \/ pc[Consumer(r)] = "notifyW"

\* There is, or was, a record to be read from r.
Fed(r) == ring[r] # <<>> \/ readBuffer[Consumer(r)].filled

\* A notification is given, and without spurious wake-ups a consumer wakes,
\* only next to a ring that was fed.
FedInv ==
    /\ \A t \in Thread, r \in Ring : pc[t] = "notifyR" /\ RingOf(job[t].type) = r => Fed(r)
    /\ spurious = 0 => \A c \in Consumers :
          /\ pc[c] = "retake" => Fed(TakesFrom(c))
          /\ pc[c] \in {"notifyW", "process"} => readBuffer[c].filled

-------------------------------------------------------------------------------
\* Records that come and go.

\* A record has a header and a body.
LEMMA RecordLenIs ==
    ASSUME NEW type \in Types
    PROVE  /\ HeaderLen \in Nat \ {0} /\ BodyLen[type] \in Nat \ {0}
           /\ RecordLen(type) \in Nat \ {0} /\ RecordLen(type) = HeaderLen + BodyLen[type]
<1>1. HeaderLen \in Nat \ {0} /\ BodyLen[type] \in Nat \ {0}
  BY PpeAssumption DEF PpeAssumption
<1> QED
  BY <1>1 DEF RecordLen

\* A record put whole behind whole records is the next of them.
LEMMA AppendRecord ==
    ASSUME NEW s \in Seq(Cell), NEW x \in Seq(Cell), NEW type \in Types,
           NEW read \in Nat, NEW last \in Nat,
           Records(s, read, last),
           Len(x) = Len(s) + RecordLen(type),
           \A k \in 1..Len(s) : x[k] = s[k],
           \A j \in 1..RecordLen(type) :
              /\ x[Len(s) + j].type = type
              /\ x[Len(s) + j].no = last + 1
              /\ x[Len(s) + j].at = j
              /\ j <= HeaderLen => x[Len(s) + j].hdr = [len |-> BodyLen[type], type |-> type]
    PROVE  Records(x, read, last + 1)
<1> DEFINE n == Len(s)
           L == RecordLen(type)
<1>1. n \in Nat /\ L \in Nat \ {0} /\ L = HeaderLen + BodyLen[type] /\ Len(x) = n + L
  BY RecordLenIs
<1>2. ASSUME NEW k \in 1..n PROVE WholeAt(x, k)
  <2> DEFINE before == k - s[k].at
  <2>1. WholeAt(s, k) /\ x[k] = s[k]
    BY DEF Records
  <2>2. /\ s[k].type \in Types
        /\ s[k].at \in 1..RecordLen(s[k].type)
        /\ s[k].at <= HeaderLen => s[k].hdr = [len |-> BodyLen[s[k].type], type |-> s[k].type]
    BY <2>1 DEF WholeAt
  <2>3. ASSUME NEW j \in 1..RecordLen(s[k].type)
        PROVE  /\ before + j \in 1..Len(x)
               /\ x[before + j].type = s[k].type
               /\ x[before + j].no = s[k].no
               /\ x[before + j].at = j
    <3>1. /\ before + j \in 1..n
          /\ s[before + j].type = s[k].type
          /\ s[before + j].no = s[k].no
          /\ s[before + j].at = j
      BY <2>1 DEF WholeAt
    <3> HIDE DEF before
    <3> QED
      BY <1>1, <3>1
  <2> QED
    BY <2>1, <2>2, <2>3 DEF WholeAt
<1>3. ASSUME NEW j \in 1..L PROVE WholeAt(x, n + j)
  <2>1. /\ x[n + j].type = type /\ x[n + j].no = last + 1 /\ x[n + j].at = j
        /\ j <= HeaderLen => x[n + j].hdr = [len |-> BodyLen[type], type |-> type]
    OBVIOUS
  <2>2. (n + j) - j = n
    BY <1>1
  <2>3. ASSUME NEW i \in 1..L
        PROVE  n + i \in 1..Len(x) /\ x[n + i].type = type /\ x[n + i].no = last + 1 /\ x[n + i].at = i
    BY <1>1
  <2> HIDE DEF n
  <2> QED
    BY <2>1, <2>2, <2>3 DEF WholeAt
<1>4. \A k \in 1..Len(x) : WholeAt(x, k)
  <2> SUFFICES ASSUME NEW k \in 1..Len(x) PROVE WholeAt(x, k)
    OBVIOUS
  <2>1. k \in 1..n \/ (k - n \in 1..L /\ k = n + (k - n))
    BY <1>1
  <2> HIDE DEF n, L
  <2> QED
    BY <2>1, <1>2, <1>3
<1>5. x # <<>> /\ 1 \in 1..L /\ L \in 1..L
  BY <1>1
<1>6. x[1].no = read + 1 /\ x[1].at = 1
  <2>1. CASE s = <<>>
    <3>1. n = 0 /\ last = read
      BY <2>1 DEF Records
    <3>2. x[n + 1].no = last + 1 /\ x[n + 1].at = 1
      BY <1>5
    <3> QED
      BY <3>1, <3>2
  <2>2. CASE s # <<>>
    <3>1. 1 \in 1..n
      BY <1>1, <2>2, EmptySeq
    <3> QED
      BY <2>2, <3>1 DEF Records
  <2> QED
    BY <2>1, <2>2
<1>7. x[Len(x)].no = last + 1 /\ x[Len(x)].at = RecordLen(x[Len(x)].type)
  <2>1. x[n + L].type = type /\ x[n + L].no = last + 1 /\ x[n + L].at = L
    BY <1>5
  <2> QED
    BY <1>1, <2>1
<1>8. ASSUME NEW k \in 1..(Len(x) - 1) PROVE Follows(x[k + 1], x[k])
  <2>1. CASE k < n
    <3>1. k \in 1..(n - 1) /\ k \in 1..n /\ k + 1 \in 1..n
      BY <1>1, <2>1
    <3> QED
      BY <3>1 DEF Records
  <2>2. CASE k = n
    <3>1. s # <<>> /\ n \in 1..n
      BY <1>1, <2>2
    <3>2. s[n].no = last /\ s[n].at = RecordLen(s[n].type) /\ x[n] = s[n]
      BY <3>1 DEF Records
    <3>3. x[n + 1].no = last + 1 /\ x[n + 1].at = 1
      BY <1>5
    <3>4. s[n].type \in Types
      BY <3>1 DEF Records, WholeAt
    <3>5. ~(s[n].at < HeaderLen + BodyLen[s[n].type])
      BY <3>2, <3>4, RecordLenIs
    <3> HIDE DEF n
    <3> QED
      BY <2>2, <3>2, <3>3, <3>5 DEF Follows
  <2>3. CASE k > n
    <3> HIDE DEF n, L
    <3>0. n \in Nat /\ L \in Nat /\ L = HeaderLen + BodyLen[type] /\ Len(x) = n + L
      BY <1>1
    <3>1. PICK j \in 1..L : j + 1 \in 1..L /\ k = n + j /\ k + 1 = n + (j + 1) /\ j < HeaderLen + BodyLen[type]
      <4>1. k - n \in 1..L /\ (k - n) + 1 \in 1..L /\ k = n + (k - n) /\ k + 1 = n + ((k - n) + 1)
        BY <2>3, <3>0
      <4>2. k - n < L
        BY <2>3, <3>0
      <4> QED
        BY <3>0, <4>1, <4>2, Zenon
    <3>2. x[n + j].type = type /\ x[n + j].no = last + 1 /\ x[n + j].at = j
      BY <3>1 DEF n, L
    <3>3. x[n + (j + 1)].type = type /\ x[n + (j + 1)].no = last + 1 /\ x[n + (j + 1)].at = j + 1
      BY <3>1 DEF n, L
    <3> QED
      BY <3>1, <3>2, <3>3 DEF Follows
  <2> QED
    BY <1>1, <2>1, <2>2, <2>3
<1> QED
  BY <1>4, <1>5, <1>6, <1>7, <1>8 DEF Records

\* What is left when the first record is taken off whole records.
LEMMA DropRecord ==
    ASSUME NEW s \in Seq(Cell), NEW x \in Seq(Cell), NEW read \in Nat, NEW last \in Nat,
           Records(s, read, last), s # <<>>,
           Len(s) = Len(x) + RecordLen(s[1].type),
           \A k \in 1..Len(x) : x[k] = s[k + RecordLen(s[1].type)]
    PROVE  Records(x, read + 1, last)
<1> DEFINE n == Len(x)
           type == s[1].type
           L == RecordLen(type)
<1>1. 1 \in 1..Len(s)
  BY EmptySeq
<1>2. type \in Types /\ WholeAt(s, 1) /\ s[1].no = read + 1 /\ s[1].at = 1
  BY <1>1 DEF Records, WholeAt
<1>3. n \in Nat /\ L \in Nat \ {0} /\ L = HeaderLen + BodyLen[type] /\ Len(s) = n + L
  <2>1. Len(s) = n + L /\ n \in Nat
    OBVIOUS
  <2> HIDE DEF type, n
  <2> QED
    BY <1>2, <2>1, RecordLenIs
<1>4. \A j \in 1..L : s[j].type = type /\ s[j].no = read + 1 /\ s[j].at = j
  <2> SUFFICES ASSUME NEW j \in 1..L PROVE s[j].type = type /\ s[j].no = read + 1 /\ s[j].at = j
    OBVIOUS
  <2>1. (1 - 1) + j = j
    BY <1>3
  <2> QED
    BY <1>2, <2>1 DEF WholeAt
<1>9. \A k \in 1..n : x[k] = s[k + L]
  OBVIOUS
<1>5. ASSUME NEW k \in 1..n
      PROVE  WholeAt(x, k) /\ k + L \in 1..Len(s) /\ x[k] = s[k + L]
  <2> DEFINE i == k + L
             cell == s[i]
             at == cell.at
             R == RecordLen(cell.type)
             before == i - at
  <2>1. i \in 1..Len(s) /\ x[k] = cell /\ k \in Nat /\ i \in Nat
    <3> HIDE DEF L
    <3> QED
      BY <1>3, <1>9
  <2>2. WholeAt(s, i)
    BY <2>1 DEF Records
  <2> HIDE DEF i
  <2>3. /\ cell.type \in Types
        /\ at \in 1..R
        /\ at <= HeaderLen => cell.hdr = [len |-> BodyLen[cell.type], type |-> cell.type]
        /\ \A j \in 1..R :
              /\ before + j \in 1..Len(s)
              /\ s[before + j].type = cell.type
              /\ s[before + j].no = cell.no
              /\ s[before + j].at = j
    BY <2>2 DEF WholeAt
  <2> HIDE DEF cell
  <2>4. R \in Nat \ {0}
    BY <2>3, RecordLenIs
  <2> HIDE DEF R, at
  <2>5. 1 \in 1..R /\ at \in 1..R /\ at \in Nat /\ before \in Int
    BY <2>1, <2>3, <2>4
  <2> HIDE DEF before
  <2>6. before >= L
    <3> SUFFICES ASSUME before < L PROVE FALSE
      <4> HIDE DEF L
      <4> QED
        BY <1>3, <2>5
    <3>1. before + 1 \in 1..Len(s) /\ s[before + 1].at = 1 /\ s[before + 1].type = cell.type
      BY <2>3, <2>5
    <3>2. before + 1 \in 1..L
      <4> HIDE DEF L
      <4> QED
        BY <1>3, <2>5, <3>1
    <3>3. s[before + 1].at = before + 1 /\ s[before + 1].type = type
      BY <1>4, <3>2
    <3>4. R = L
      BY <3>1, <3>3 DEF R
    <3>5. before = 0
      BY <2>5, <3>1, <3>3
    <3>6. i = at
      BY <2>1, <2>5, <3>5 DEF before
    <3> HIDE DEF L
    <3> QED
      BY <1>3, <2>1, <2>5, <3>4, <3>6 DEF i
  <2>7. ASSUME NEW j \in 1..R
        PROVE  /\ (k - at) + j \in 1..n
               /\ x[(k - at) + j].type = cell.type
               /\ x[(k - at) + j].no = cell.no
               /\ x[(k - at) + j].at = j
    <3>1. /\ before + j \in 1..Len(s)
          /\ s[before + j].type = cell.type
          /\ s[before + j].no = cell.no
          /\ s[before + j].at = j
      BY <2>3
    <3> HIDE DEF L, n
    <3>4. before = (k + L) - at
      BY DEF before, i
    <3>5. L \in Int /\ n \in Int /\ R \in Int
      BY <1>3, <2>4
    <3>6. before + j \in 1..(n + L)
      BY <1>3, <3>1
    <3>7. j \in Int /\ 1 <= j /\ k \in Int /\ at \in Int
      BY <2>1, <2>5, <3>5
    <3>2. (k - at) + j \in 1..n /\ ((k - at) + j) + L = before + j
      BY <2>6, <3>4, <3>5, <3>6, <3>7
    <3>3. x[(k - at) + j] = s[((k - at) + j) + L]
      BY <3>2, <1>9
    <3> QED
      BY <3>1, <3>2, <3>3
  <2>8. WholeAt(x, k)
    BY <2>1, <2>3, <2>7 DEF WholeAt, at, R
  <2> QED
    BY <2>1, <2>8 DEF i, cell
<1>6. s[Len(s)].no = last /\ s[Len(s)].at = RecordLen(s[Len(s)].type)
  BY DEF Records
<1>7. CASE x = <<>>
  <2>1. n = 0 /\ Len(s) = L /\ L \in 1..L
    BY <1>3, <1>7
  <2>2. last = read + 1
    BY <1>4, <1>6, <2>1
  <2> HIDE DEF n
  <2> QED
    BY <1>7, <2>1, <2>2 DEF Records, n
<1>8. CASE x # <<>>
  <2>1. 1 \in 1..n /\ n \in 1..n /\ L \in 1..L /\ L \in 1..(Len(s) - 1)
    BY <1>3, <1>8, EmptySeq
  <2>2. x[1].no = (read + 1) + 1 /\ x[1].at = 1
    <3>1. Follows(s[L + 1], s[L])
      BY <2>1 DEF Records
    <3>2. s[L].type = type /\ s[L].no = read + 1 /\ s[L].at = L
      BY <1>4, <2>1
    <3>3. x[1] = s[L + 1]
      BY <1>3, <2>1
    <3> HIDE DEF type
    <3>4. ~(s[L].at < HeaderLen + BodyLen[s[L].type])
      BY <1>3, <3>2
    <3> QED
      BY <3>1, <3>2, <3>3, <3>4 DEF Follows
  <2>3. x[n] = s[Len(s)]
    BY <1>3, <2>1
  <2>4. ASSUME NEW k \in 1..(n - 1) PROVE Follows(x[k + 1], x[k])
    <3> HIDE DEF L, n
    <3>4. PICK all : all = Len(s)
      OBVIOUS
    <3>5. n \in Nat /\ L \in Nat /\ all = n + L
      BY <1>3, <3>4
    <3>6. k + L \in 1..(all - 1) /\ (k + 1) + L = (k + L) + 1 /\ k \in 1..n /\ k + 1 \in 1..n
      BY <3>5
    <3>1. k + L \in 1..(Len(s) - 1) /\ (k + 1) + L = (k + L) + 1 /\ k \in 1..n /\ k + 1 \in 1..n
      BY <3>4, <3>6, Zenon
    <3>2. Follows(s[(k + L) + 1], s[k + L])
      BY <3>1 DEF Records
    <3>3. x[k] = s[k + L] /\ x[k + 1] = s[(k + 1) + L]
      BY <3>1, <1>9
    <3> QED
      BY <3>1, <3>2, <3>3
  <2> HIDE DEF L
  <2> QED
    BY <1>5, <1>6, <1>8, <2>1, <2>2, <2>3, <2>4 DEF Records
<1> QED
  BY <1>7, <1>8

-------------------------------------------------------------------------------
\* What a read takes.

\* The cells of the two parts of a ring.
LEMMA SplitCells ==
    ASSUME NEW s \in Seq(Cell), NEW n \in 0..Len(s)
    PROVE  /\ \A k \in 1..n : SubSeq(s, 1, n)[k] = s[k]
           /\ \A k \in 1..(Len(s) - n) : SubSeq(s, n + 1, Len(s))[k] = s[n + k]
<1> DEFINE e == Len(s)
           f == n + 1
<1>1. e \in Nat /\ n \in 0..e /\ f \in Int /\ f = n + 1
  OBVIOUS
<1>2. \A i \in 1..e : s[i] \in Cell
  OBVIOUS
<1> HIDE DEF e, f
<1>3. \A k \in 1..n : SubSeq(s, 1, n)[k] = s[k]
  <2>1. n \in Int /\ 1 \in Int /\ \A i \in 1..n : s[i] \in Cell
    BY <1>1, <1>2
  <2>2. \A k \in 1..n - 1 + 1 : SubSeq(s, 1, n)[k] = s[1 + k - 1]
    BY <2>1, SubSeqProperties
  <2>3. \A k \in 1..n : k \in 1..n - 1 + 1 /\ 1 + k - 1 = k
    BY <2>1
  <2> QED
    BY <2>2, <2>3
<1>4. \A k \in 1..(e - n) : SubSeq(s, f, e)[k] = s[n + k]
  <2>1. \A i \in f..e : s[i] \in Cell
    BY <1>1, <1>2
  <2>2. \A k \in 1..e - f + 1 : SubSeq(s, f, e)[k] = s[f + k - 1]
    BY <1>1, <2>1, SubSeqProperties
  <2>3. \A k \in 1..(e - n) : k \in 1..e - f + 1 /\ f + k - 1 = n + k
    BY <1>1
  <2> QED
    BY <2>2, <2>3
<1> QED
  BY <1>3, <1>4 DEF e, f

\* The two rb_reads of c: the front of its ring for the header, the next m cells
\* over the front of the body, and the rest stays.
Reads(c, hdr, m) ==
    LET r == TakesFrom(c)
        n == MinOf(HeaderLen, Len(ring[r]))
    IN  /\ hdr \in FieldsRead(c, SubSeq(ring[r], 1, n))
        /\ m = MinOf(hdr.len, Len(ring[r]) - n)
        /\ Len(ring'[r]) = (Len(ring[r]) - n) - m
        /\ \A k \in 1..Len(ring'[r]) : ring'[r][k] = ring[r][n + (m + k)]
        /\ readBuffer'[c].filled = (readBuffer[c].filled \/ n > 0)
        /\ readBuffer'[c].hdr = hdr
        /\ \A k \in 1..MaxBody :
              readBuffer'[c].body[k] = IF k <= m THEN ring[r][n + k] ELSE readBuffer[c].body[k]
        /\ pc'[c] = IF m > 0 THEN "notifyW" ELSE IF hdr.len > 0 THEN "process" ELSE "take"

\* A consumer that does not go to sleep reads.
LEMMA TakeReads ==
    ASSUME TypeOK, NEW c \in Consumers, Take(c),
           ~(pc[c] = "take" /\ Empty(TakesFrom(c)))
    PROVE  \E hdr \in HeaderField, m \in Nat : Reads(c, hdr, m)
<1> DEFINE r == TakesFrom(c)
           s == ring[r]
           n == MinOf(HeaderLen, Len(s))
           h == SubSeq(s, 1, n)
           rest == SubSeq(s, n + 1, Len(s))
           m(hdr) == MinOf(hdr.len, Len(rest))
<1>1. r \in Ring /\ c \in Thread
  BY RingsAndConsumers, ThreadsDiffer
<1>2. s \in Seq(Cell) /\ Len(s) \in Nat
  BY <1>1 DEF TypeOK
<1>3. n \in 0..Len(s)
  BY <1>2, PpeAssumption DEF PpeAssumption, MinOf
<1>4. PICK hdr \in FieldsRead(c, h) :
         /\ ring' = [ring EXCEPT ![r] = SubSeq(rest, m(hdr) + 1, Len(rest))]
         /\ readBuffer' = [readBuffer EXCEPT ![c] =
               [filled |-> @.filled \/ n > 0,
                hdr    |-> hdr,
                body   |-> [k \in 1..MaxBody |-> IF k <= m(hdr) THEN rest[k] ELSE @.body[k]]]]
         /\ pc' = [pc EXCEPT ![c] = IF m(hdr) > 0 THEN "notifyW"
                                    ELSE IF hdr.len > 0 THEN "process" ELSE "take"]
  BY DEF Take, Goto
<1> DEFINE mm == m(hdr)
<1> HIDE DEF s, n
<1>5. /\ h \in Seq(Cell) /\ rest \in Seq(Cell) /\ Len(rest) = Len(s) - n
      /\ \A k \in 1..(Len(s) - n) : rest[k] = s[n + k]
  BY <1>2, <1>3, SplitType, SplitCells
<1>6. hdr \in HeaderField /\ hdr.len \in Nat
  <2>1. hdr \in HeaderField
    BY <1>4, <1>5, FieldsType
  <2> QED
    BY <2>1, MaxBodyIs DEF HeaderField
<1> HIDE DEF h, rest
<1>7. mm \in 0..Len(rest) /\ mm = MinOf(hdr.len, Len(s) - n) /\ mm \in Nat
  BY <1>2, <1>3, <1>5, <1>6 DEF MinOf
<1> HIDE DEF m, mm
<1>8. ring' = [ring EXCEPT ![r] = SubSeq(rest, mm + 1, Len(rest))]
  BY <1>4 DEF mm
<1>9. /\ Len(SubSeq(rest, mm + 1, Len(rest))) = Len(rest) - mm
      /\ \A k \in 1..(Len(rest) - mm) : SubSeq(rest, mm + 1, Len(rest))[k] = rest[mm + k]
  BY <1>5, <1>7, SplitType, SplitCells
<1> DEFINE x == ring'[r]
<1>10. x = SubSeq(rest, mm + 1, Len(rest))
  BY <1>1, <1>8 DEF TypeOK
<1> HIDE DEF x
<1>11. Len(x) = (Len(s) - n) - mm
  BY <1>5, <1>9, <1>10
<1>12. \A k \in 1..Len(x) : x[k] = s[n + (mm + k)]
  <2> SUFFICES ASSUME NEW k \in 1..Len(x) PROVE x[k] = s[n + (mm + k)]
    OBVIOUS
  <2>1. k \in 1..(Len(rest) - mm) /\ mm + k \in 1..(Len(s) - n)
    BY <1>2, <1>3, <1>5, <1>7, <1>11
  <2> QED
    BY <1>5, <1>9, <1>10, <2>1
<1> DEFINE buf == [filled |-> readBuffer[c].filled \/ n > 0, hdr |-> hdr,
                   body |-> [k \in 1..MaxBody |-> IF k <= mm THEN rest[k]
                                                  ELSE readBuffer[c].body[k]]]
<1>13. readBuffer'[c] = buf
  <2>1. readBuffer' = [readBuffer EXCEPT ![c] = buf]
    BY <1>4 DEF mm
  <2> HIDE DEF buf
  <2> QED
    BY <2>1 DEF TypeOK
<1>14. \A k \in 1..MaxBody :
          readBuffer'[c].body[k] = IF k <= mm THEN s[n + k] ELSE readBuffer[c].body[k]
  <2> SUFFICES ASSUME NEW k \in 1..MaxBody
               PROVE  readBuffer'[c].body[k] = IF k <= mm THEN s[n + k] ELSE readBuffer[c].body[k]
    OBVIOUS
  <2>1. readBuffer'[c].body[k] = IF k <= mm THEN rest[k] ELSE readBuffer[c].body[k]
    BY <1>13
  <2>2. k <= mm => k \in 1..(Len(s) - n)
    BY <1>2, <1>3, <1>5, <1>7, MaxBodyIs
  <2> QED
    BY <1>5, <2>1, <2>2
<1>15. readBuffer'[c].filled = (readBuffer[c].filled \/ n > 0) /\ readBuffer'[c].hdr = hdr
  BY <1>13
<1>16. pc'[c] = IF mm > 0 THEN "notifyW" ELSE IF hdr.len > 0 THEN "process" ELSE "take"
  BY <1>1, <1>4 DEF TypeOK, mm
<1>17. Reads(c, hdr, mm)
  BY <1>4, <1>7, <1>11, <1>12, <1>14, <1>15, <1>16 DEF Reads, r, s, n, h, x
<1> QED
  BY <1>6, <1>7, <1>17

\* A step that does not read leaves what the consumers hold.
LEMMA HeldKept == readBuffer' = readBuffer => \A c \in Consumers : Held(c)' = Held(c)
BY DEF Held

\* A body without a cell of a record is the body of none, whatever the header.
LEMMA NoRecordIn ==
    ASSUME NEW hdr \in HeaderField, NEW body,
           \A k \in 1..MaxBody : body[k].type = None,
           hdr.type # None, hdr.len = BodyLen[hdr.type],
           \A k \in 1..hdr.len : body[k].type = hdr.type
    PROVE  FALSE
<1>1. hdr.type \in Types
  BY DEF HeaderField
<1>2. 1 \in 1..hdr.len /\ 1 \in 1..MaxBody
  BY <1>1, RecordLenIs, MaxBodyIs
<1> QED
  BY <1>2

\* A readBuffer that nothing was read into holds no record.
LEMMA HeldBlank ==
    ASSUME TypeOK, BlankBody, NEW c \in Consumers, ~readBuffer[c].filled
    PROVE  Held(c) = 0
<1>1. readBuffer[c].hdr \in HeaderField /\ \A k \in 1..MaxBody : readBuffer[c].body[k].type = None
  BY DEF TypeOK, BlankBody
<1> QED
  BY <1>1, NoRecordIn DEF Held

\* A read of nothing leaves the body as it was.
LEMMA BlankTake ==
    ASSUME TypeOK, BlankBody, NEW c \in Consumers, Take(c)
    PROVE  BlankBody'
<1>1. \A d \in Consumers : d # c => readBuffer'[d] = readBuffer[d]
  BY DEF Take, TypeOK
<1>2. CASE pc[c] = "take" /\ Empty(TakesFrom(c))
  BY <1>2 DEF Take, BlankBody
<1>3. CASE ~(pc[c] = "take" /\ Empty(TakesFrom(c)))
  <2> DEFINE r == TakesFrom(c)
             n == MinOf(HeaderLen, Len(ring[r]))
  <2>1. PICK hdr \in HeaderField, m \in Nat : Reads(c, hdr, m)
    BY <1>3, TakeReads
  <2> SUFFICES ASSUME ~readBuffer'[c].filled, NEW k \in 1..MaxBody
               PROVE  readBuffer'[c].body[k].type = None
    BY <1>1 DEF BlankBody
  <2>2. ring[r] \in Seq(Cell) /\ Len(ring[r]) \in Nat /\ HeaderLen \in Nat \ {0}
    BY RingsAndConsumers, PpeAssumption DEF TypeOK, PpeAssumption
  <2>3. ~(n > 0) /\ ~readBuffer[c].filled
    BY <2>1 DEF Reads
  <2>4. m = MinOf(hdr.len, Len(ring[r]) - n)
    BY <2>1 DEF Reads
  <2>5. hdr.len \in Nat /\ k \in Nat \ {0}
    BY MaxBodyIs DEF HeaderField
  <2>6. ~(k <= m)
    <3> DEFINE q == Len(ring[r])
    <3>1. q \in Nat /\ n = MinOf(HeaderLen, q) /\ m = MinOf(hdr.len, q - n)
      BY <2>2, <2>4
    <3> HIDE DEF q, n
    <3>2. q = 0 /\ n = 0
      BY <2>2, <2>3, <3>1 DEF MinOf
    <3>3. m = MinOf(hdr.len, 0)
      BY <3>1, <3>2
    <3>4. m = 0
      BY <2>5, <3>3 DEF MinOf
    <3> QED
      BY <2>5, <3>4
  <2>7. readBuffer'[c].body[k] = readBuffer[c].body[k]
    BY <2>1, <2>6 DEF Reads
  <2> QED
    BY <2>3, <2>7 DEF BlankBody
<1> QED
  BY <1>2, <1>3

\* A read from a ring of whole records takes the first of them, whole.
LEMMA TakeRecord ==
    ASSUME TypeOK, BootOrder, NEW c \in Consumers, Take(c), NEW last \in Nat,
           Records(ring[TakesFrom(c)], Held(c), last),
           ring[TakesFrom(c)] # <<>>
    PROVE  /\ Held(c)' = Held(c) + 1
           /\ Records(ring[TakesFrom(c)]', Held(c)', last)
           /\ pc'[c] = "notifyW"
<1> DEFINE r == TakesFrom(c)
           s == ring[r]
           type == s[1].type
           no == s[1].no
           x == ring'[r]
           B == BodyLen[type]
<1>1. r \in Ring /\ s \in Seq(Cell) /\ x \in Seq(Cell)
  BY RingsAndConsumers, TakeType DEF TypeOK
<1>2. exists[r] /\ ~Empty(r)
  <2>1. Len(s) \in Nat /\ Len(s) # 0
    BY <1>1, EmptySeq
  <2> QED
    BY <1>1, <2>1 DEF BootOrder, Empty, Used
<1>3. PICK hdr \in HeaderField, m \in Nat : Reads(c, hdr, m)
  BY <1>2, TakeReads
<1>4. 1 \in 1..Len(s)
  BY <1>1, EmptySeq
<1>5. /\ type \in Types /\ no = Held(c) + 1 /\ s[1].at = 1
      /\ \A j \in 1..RecordLen(type) :
            /\ (1 - 1) + j \in 1..Len(s)
            /\ s[(1 - 1) + j].type = type
            /\ s[(1 - 1) + j].no = no
            /\ s[(1 - 1) + j].at = j
      /\ WholeAt(s, 1)
  <2>1. WholeAt(s, 1) /\ no = Held(c) + 1 /\ s[1].at = 1
    BY <1>4 DEF Records
  <2> HIDE DEF s
  <2> QED
    BY <2>1 DEF WholeAt
<1>6. /\ HeaderLen \in Nat \ {0} /\ B \in Nat \ {0} /\ RecordLen(type) = HeaderLen + B
      /\ MaxBody \in Nat /\ B <= MaxBody
  BY <1>5, RecordLenIs, MaxBodyIs
<1> HIDE DEF s, x, type, no, B
<1>7. ASSUME NEW j \in 1..(HeaderLen + B)
      PROVE  j \in 1..Len(s) /\ s[j].type = type /\ s[j].no = no /\ s[j].at = j
  <2>1. (1 - 1) + j = j
    BY <1>6
  <2> QED
    BY <1>5, <1>6, <2>1
<1>8. Len(s) \in Nat /\ HeaderLen + B <= Len(s)
  <2>1. HeaderLen + B \in 1..(HeaderLen + B)
    BY <1>6
  <2> QED
    BY <1>1, <1>7, <2>1
<1>9. MinOf(HeaderLen, Len(s)) = HeaderLen
  BY <1>6, <1>8 DEF MinOf
<1>10. hdr = [len |-> B, type |-> type]
  <2> DEFINE h == SubSeq(s, 1, HeaderLen)
  <2>1. HeaderLen \in 0..Len(s)
    BY <1>6, <1>8
  <2>2. Len(h) = HeaderLen /\ \A k \in 1..HeaderLen : h[k] = s[k]
    BY <1>1, <2>1, SplitType, SplitCells
  <2> HIDE DEF h
  <2>3. \A k \in 1..HeaderLen : h[k].at = k /\ h[k].no = no
    BY <1>6, <1>7, <2>2
  <2>4. 1 \in 1..HeaderLen
    BY <1>6
  <2>5. IsHeader(h)
    BY <2>2, <2>3, <2>4 DEF IsHeader
  <2>6. hdr \in FieldsRead(c, h)
    BY <1>3, <1>9 DEF Reads, s, r, h
  <2>7. hdr = s[1].hdr
    BY <2>2, <2>4, <2>5, <2>6 DEF FieldsRead
  <2>8. s[1].hdr = [len |-> BodyLen[s[1].type], type |-> s[1].type]
    <3>1. s[1].at <= HeaderLen
      BY <1>5, <1>6
    <3> QED
      BY <1>5, <3>1 DEF WholeAt
  <2> QED
    BY <2>7, <2>8 DEF type, B
<1>11. m = B
  <2>1. m = MinOf(hdr.len, Len(s) - HeaderLen)
    BY <1>3, <1>9 DEF Reads, s, r
  <2> QED
    BY <1>6, <1>8, <1>10, <2>1 DEF MinOf
<1>12. /\ Len(s) = Len(x) + (HeaderLen + B)
       /\ \A k \in 1..Len(x) : x[k] = s[k + (HeaderLen + B)]
  <2>1. /\ Len(x) = (Len(s) - HeaderLen) - B
        /\ \A k \in 1..Len(x) : x[k] = s[HeaderLen + (B + k)]
    BY <1>3, <1>9, <1>11 DEF Reads, s, r, x
  <2>2. \A k \in 1..Len(x) : HeaderLen + (B + k) = k + (HeaderLen + B)
    BY <1>1, <1>6
  <2> QED
    BY <1>6, <1>8, <2>1, <2>2
<1>13. Held(c) \in Nat
  BY HeldType
<1>14. Records(x, Held(c) + 1, last)
  BY <1>1, <1>6, <1>12, <1>13, DropRecord DEF s, r, type
<1>15. Held(c)' = no
  <2> DEFINE buf == readBuffer'[c]
  <2>1. buf.hdr = hdr /\ \A k \in 1..MaxBody : k <= B => buf.body[k] = s[HeaderLen + k]
    BY <1>3, <1>9, <1>11 DEF Reads, s, r
  <2>2. \A k \in 1..B : k \in 1..MaxBody /\ k <= B /\ HeaderLen + k \in 1..(HeaderLen + B)
    BY <1>6
  <2> HIDE DEF buf
  <2>3. \A k \in 1..B : buf.body[k].type = type /\ buf.body[k].no = no /\ buf.body[k].at = HeaderLen + k
    BY <1>7, <2>1, <2>2
  <2>4. 1 \in 1..B /\ type # None
    BY <1>5, <1>6 DEF Types, None
  <2>5. buf.hdr.type = type /\ buf.hdr.len = B /\ B = BodyLen[type]
    BY <1>10, <2>1 DEF B
  <2>6. /\ buf.hdr.type # None
        /\ buf.hdr.len = BodyLen[buf.hdr.type]
        /\ \A k \in 1..buf.hdr.len : /\ buf.body[k].type = buf.hdr.type
                                      /\ buf.body[k].no = buf.body[1].no
                                      /\ buf.body[k].at = HeaderLen + k
        /\ buf.body[1].no = no
    BY <2>3, <2>4, <2>5
  <2> QED
    BY <2>6 DEF Held, buf
<1>16. pc'[c] = "notifyW"
  BY <1>3, <1>6, <1>11 DEF Reads
<1> QED
  BY <1>5, <1>14, <1>15, <1>16 DEF x, r

\* Two functions that agree everywhere are the same.
LEMMA SameFunction ==
    ASSUME NEW S, NEW T, NEW f \in [S -> T], NEW g \in [S -> T], \A x \in S : f[x] = g[x]
    PROVE  f = g
OBVIOUS

\* A read from an empty ring takes nothing, and whatever it finds for a header,
\* the consumer holds what it held.
LEMMA TakeNothing ==
    ASSUME TypeOK, BlankBody, NEW c \in Consumers, Take(c), ring[TakesFrom(c)] = <<>>
    PROVE  /\ Held(c)' = Held(c)
           /\ ring[TakesFrom(c)]' = <<>>
           /\ pc'[c] # "notifyW"
<1> DEFINE r == TakesFrom(c)
<1>1. r \in Ring /\ c \in Thread
  BY RingsAndConsumers, ThreadsDiffer
<1>2. ring'[r] = <<>>
  <2>1. ring'[r] \in Seq(Cell) /\ Len(ring'[r]) <= Len(ring[r])
    BY <1>1, TakeType
  <2>2. Len(ring'[r]) = 0
    BY <2>1
  <2> QED
    BY <2>1, <2>2, EmptySeq
<1>3. CASE pc[c] = "take" /\ Empty(r)
  BY <1>1, <1>2, <1>3, HeldKept DEF Take, Goto, TypeOK
<1>4. CASE ~(pc[c] = "take" /\ Empty(r))
  <2>1. PICK hdr \in HeaderField, m \in Nat : Reads(c, hdr, m)
    BY <1>4, TakeReads
  <2>2. HeaderLen \in Nat \ {0} /\ hdr.len \in Nat /\ MaxBody \in Nat
    BY PpeAssumption, MaxBodyIs DEF PpeAssumption, HeaderField
  <2>3. MinOf(HeaderLen, Len(ring[r])) = 0 /\ Len(ring[r]) - 0 = 0
    BY <2>2 DEF MinOf
  <2>4. m = MinOf(hdr.len, 0)
    BY <2>1, <2>3 DEF Reads
  <2>5. m = 0
    BY <2>2, <2>4 DEF MinOf
  <2>6. pc'[c] # "notifyW"
    BY <2>1, <2>5 DEF Reads
  <2>7. \A k \in 1..MaxBody : readBuffer'[c].body[k] = readBuffer[c].body[k]
    BY <2>1, <2>2, <2>5 DEF Reads
  <2>8. readBuffer'[c].body = readBuffer[c].body
    <3> DEFINE new == readBuffer'[c].body
               old == readBuffer[c].body
               places == 1..MaxBody
    <3>1. new \in [places -> Cell] /\ old \in [places -> Cell]
      BY TakeType DEF TypeOK
    <3>2. \A k \in places : new[k] = old[k]
      BY <2>7
    <3> HIDE DEF new, old, places
    <3>3. new = old
      BY <3>1, <3>2, SameFunction
    <3> QED
      BY <3>3 DEF new, old
  <2>9. readBuffer'[c].filled = readBuffer[c].filled
    <3>1. readBuffer'[c].filled = (readBuffer[c].filled \/ FALSE)
      BY <2>1, <2>3 DEF Reads
    <3>2. readBuffer[c].filled \in BOOLEAN
      BY DEF TypeOK
    <3> QED
      BY <3>1, <3>2
  <2>10. CASE readBuffer[c].filled
    <3>1. hdr \in FieldsRead(c, SubSeq(ring[r], 1, 0))
      BY <2>1, <2>3 DEF Reads
    <3>2. SubSeq(ring[r], 1, 0) = <<>>
      BY SubSeqEmpty
    <3>3. ~IsHeader(<<>>)
      BY <2>2 DEF IsHeader
    <3>4. hdr = readBuffer[c].hdr
      BY <2>10, <3>1, <3>2, <3>3 DEF FieldsRead
    <3>5. readBuffer'[c].hdr = readBuffer[c].hdr
      BY <2>1, <3>4 DEF Reads
    <3>6. Held(c)' = Held(c)
      BY <2>8, <3>5 DEF Held
    <3> QED
      BY <1>2, <2>6, <3>6
  <2>11. CASE ~readBuffer[c].filled
    <3>1. Held(c) = 0
      BY <2>11, HeldBlank
    <3>2. TypeOK' /\ BlankBody' /\ ~readBuffer'[c].filled
      BY <2>9, <2>11, TypeTake, BlankTake
    <3>3. readBuffer'[c].hdr \in HeaderField /\ \A k \in 1..MaxBody : readBuffer'[c].body[k].type = None
      BY <3>2 DEF TypeOK, BlankBody
    <3>4. Held(c)' = 0
      BY <3>3, NoRecordIn DEF Held
    <3> QED
      BY <1>2, <2>6, <3>1, <3>4
  <2> QED
    BY <2>10, <2>11
<1> QED
  BY <1>3, <1>4

-------------------------------------------------------------------------------
\* The steps under the framing.

\* A thread that holds the mutex of a ring, to write its record there.
Writing(t) == pc[t] \in {"type", "commit"}

\* No step of another thread touches the ring that a thread is writing to.
LEMMA SpaceSame ==
    ASSUME SpaceKept,
           \A t \in Thread : Writing(t)' =>
              /\ Writing(t) /\ job'[t] = job[t]
              /\ ring'[RingOf(job[t].type)] = ring[RingOf(job[t].type)]
              /\ exists'[RingOf(job[t].type)] = exists[RingOf(job[t].type)]
    PROVE  SpaceKept'
BY DEF SpaceKept, Writing, Free

\* The space a producer found is still there when it writes: while it holds the
\* mutex nobody else puts into the ring or takes from it.
LEMMA SpaceStep ==
    ASSUME TypeOK, BootOrder, SpaceKept, [Next]_vars
    PROVE  SpaceKept'
<1>1. \A t \in Thread : Writing(t) =>
         lock[RingOf(job[t].type)] = t /\ exists[RingOf(job[t].type)] = TRUE
  <2> SUFFICES ASSUME NEW t \in Thread, Writing(t)
               PROVE  lock[RingOf(job[t].type)] = t /\ exists[RingOf(job[t].type)] = TRUE
    OBVIOUS
  <2>1. Putting(t, RingOf(job[t].type))
    BY DEF Writing, Putting, Busy
  <2>2. exists[RingOf(job[t].type)]
    BY <2>1, BootImplies, RingsAndConsumers DEF RingsBeforeCallers
  <2>3. exists[RingOf(job[t].type)] \in BOOLEAN
    BY RingsAndConsumers DEF TypeOK
  <2> QED
    BY <2>2, <2>3 DEF TypeOK, MutexHeld, Writing
<1> USE ThreadsDiffer, SpaceSame DEF Goto, channel, reader, calling
<1>2. CASE Boot
  <2>1. ring' = ring /\ job' = job
    BY <1>2 DEF Boot, createGnss, createCors, spawnCors, subscribe, start_correctServ
  <2>2. \A t \in Thread : Writing(t)' => Writing(t)
    <3>1. CASE createGnss \/ createCors \/ subscribe \/ spawnCors
      BY <3>1 DEF createGnss, createCors, subscribe, spawnCors, TypeOK, Writing
    <3>2. ASSUME NEW loaded \in BOOLEAN, start_correctServ(loaded)
          PROVE  \A t \in Thread : Writing(t)' => Writing(t)
      BY <3>2 DEF start_correctServ, TypeOK, Writing
    <3> QED
      BY <1>2, <3>1, <3>2 DEF Boot
  <2>3. \A r \in Ring : exists[r] = TRUE => exists'[r] = TRUE
    BY <1>2 DEF Boot, createGnss, createCors, spawnCors, subscribe, start_correctServ, TypeOK
  <2> QED
    BY <1>1, <2>1, <2>2, <2>3, RingsAndConsumers
<1>3. ASSUME NEW t \in EpThreads, EpCall(t) PROVE SpaceKept'
  <2>1. \E type, obs : Call(t, type, obs)
    BY <1>3 DEF EpCall
  <2> QED
    BY <2>1 DEF Call, TypeOK, Writing
<1>4. CASE ServCall
  <2>1. PICK type \in ServTypes : Call(Serv, type, 0)
    BY <1>4 DEF ServCall
  <2> QED
    BY <2>1 DEF Call, TypeOK, Writing
<1>5. ASSUME NEW t \in Thread, Produce(t) PROVE SpaceKept'
  <2>1. CASE Enter(t)
    <3> DEFINE R(u) == RingOf(job[u].type)
    <3>1. ring' = ring /\ exists' = exists /\ job' = job
      BY <2>1 DEF Enter
    <3>2. \A u \in Thread : u # t => pc'[u] = pc[u]
      BY <2>1 DEF Enter, TypeOK
    <3>3. pc'[t] \in {"type", "commit"} => ~(Free(R(t)) < Need(job[t].type))
      BY <2>1 DEF Enter, TypeOK
    <3>4. Free(R(t)) \in Int /\ Need(job[t].type) \in Int
      <4>1. R(t) \in Ring /\ job[t].type \in Types
        BY <2>1, RingsAndConsumers DEF Enter, TypeOK, Busy
      <4>2. Len(ring[R(t)]) \in Nat /\ Capacity[R(t)] \in Nat
        BY <4>1, PpeAssumption DEF TypeOK, PpeAssumption
      <4> HIDE DEF R
      <4> QED
        BY <4>1, <4>2, RecordLenIs DEF Free, Need
    <3> QED
      BY <3>1, <3>2, <3>3, <3>4 DEF SpaceKept, Free
  <2>2. CASE PutType(t)
    BY <2>2 DEF PutType, TypeOK, Writing
  <2>3. CASE Commit(t)
    <3> DEFINE q == RingOf(job[t].type)
    <3>1. job' = job /\ exists' = exists /\ pc' = [pc EXCEPT ![t] = "notifyR"] /\ Writing(t)
      BY <2>3 DEF Commit, Writing
    <3>2. \A r \in Ring : r # q => ring'[r] = ring[r]
      BY <2>3 DEF Commit, TypeOK
    <3> HIDE DEF q
    <3>3. \A u \in Thread : Writing(u)' => u # t /\ Writing(u)
      BY <3>1 DEF Writing, TypeOK
    <3>4. \A u \in Thread : Writing(u)' => RingOf(job[u].type) # q
      BY <1>1, <3>1, <3>3 DEF q
    <3> QED
      BY <3>1, <3>2, <3>3, <3>4, RingsAndConsumers
  <2>4. CASE NotifyR(t)
    <3> DEFINE c == Consumer(RingOf(job[t].type))
    <3>1. c \in Thread
      BY RingsAndConsumers
    <3>2. pc' = [(IF pc[c] = "waitR" THEN [pc EXCEPT ![c] = "retake"] ELSE pc)
                    EXCEPT ![t] = IF t = Cors THEN "take" ELSE "idle"]
      BY <2>4 DEF NotifyR
    <3>3. ring' = ring /\ exists' = exists /\ \A u \in Thread : u # t => job'[u] = job[u]
      BY <2>4 DEF NotifyR, TypeOK
    <3> HIDE DEF c
    <3>4. \A u \in Thread : Writing(u)' => u # t /\ Writing(u)
      BY <3>1, <3>2 DEF TypeOK, Writing
    <3> QED
      BY <3>3, <3>4
  <2> QED
    BY <1>5, <2>1, <2>2, <2>3, <2>4 DEF Produce
<1>6. ASSUME NEW t \in Thread, Spurious(t) PROVE SpaceKept'
  BY <1>6 DEF Spurious, TypeOK, Writing
<1>7. ASSUME NEW c \in Consumers, Consume(c) PROVE SpaceKept'
  <2>1. CASE Take(c)
    <3> DEFINE q == TakesFrom(c)
    <3>1. job' = job /\ exists' = exists /\ lock[q] = None
      BY <2>1 DEF Take
    <3>2. \A r \in Ring : r # q => ring'[r] = ring[r]
      BY <2>1 DEF Take, TypeOK
    <3>3. \A u \in Thread : Writing(u)' => Writing(u)
      BY <2>1, TakeType DEF Writing, Busy
    <3> HIDE DEF q
    <3>4. \A u \in Thread : Writing(u) => RingOf(job[u].type) # q
      BY <1>1, <3>1
    <3> QED
      BY <3>1, <3>2, <3>3, <3>4, RingsAndConsumers
  <2>2. CASE NotifyW(c)
    BY <2>2 DEF NotifyW, Waiting, Writing
  <2>3. CASE Process(c)
    <3>1. ring' = ring /\ exists' = exists
      BY <2>3 DEF Process
    <3>2. \A u \in Thread : Writing(u)' => Writing(u) /\ job'[u] = job[u]
      BY <2>3 DEF Process, TypeOK, Writing
    <3> QED
      BY <3>1, <3>2
  <2> QED
    BY <1>7, <2>1, <2>2, <2>3 DEF Consume
<1>8. CASE UNCHANGED vars
  BY <1>8 DEF vars, Writing
<1> QED
  BY <1>2, <1>3, <1>4, <1>5, <1>6, <1>7, <1>8 DEF Next

\* What the cells of a record are.
LEMMA CellsAre ==
    ASSUME NEW type, NEW no, NEW hdr, NEW from \in Nat, NEW upto \in Nat,
           NEW k \in 1..(upto - from + 1)
    PROVE  Cells(type, no, hdr, from, upto)[k] =
               [type |-> type, no |-> no, at |-> from + k - 1, hdr |-> hdr]
BY DEF Cells

\* A producer that breaks nothing puts the next record, whole, or nothing.
LEMMA CommitRecord ==
    ASSUME TypeOK, BootOrder, SpaceKept, NEW t \in Thread, Commit(t),
           RecordsFrom(RingOf(job[t].type))
    PROVE  RecordsFrom(RingOf(job[t].type))'
<1> DEFINE type == job[t].type
           r == RingOf(type)
           s == ring[r]
           no == put[r] + 1
           h == Cells(type, no, header, 1, HeaderLen)
           b == Cells(type, no, Blank.hdr, HeaderLen + 1, HeaderLen + BodyLen[type])
           hFits == HeaderLen <= Free(r)
           bFits == BodyFits(r, type, hFits)
           read == Held(Consumer(r))
<1> SUFFICES ASSUME faults'[r] = {}
             PROVE  Records(ring'[r], read, put'[r])
  <2>1. readBuffer' = readBuffer /\ job' = job
    BY DEF Commit, reader
  <2>2. Held(Consumer(r))' = read
    BY <2>1, HeldKept, RingsAndConsumers
  <2> QED
    BY <2>1, <2>2 DEF RecordsFrom
<1>1. /\ type \in Types /\ r \in Ring /\ put[r] \in Nat /\ s \in Seq(Cell) /\ Len(s) \in Nat
      /\ header \in HeaderField /\ read \in Nat
  BY RingsAndConsumers, HeldType DEF TypeOK, Commit, Busy
<1>2. HeaderLen \in Nat \ {0} /\ BodyLen[type] \in Nat \ {0} /\ RecordLen(type) = HeaderLen + BodyLen[type]
  BY <1>1, RecordLenIs
<1>3. /\ ring'[r] = s \o (IF hFits THEN h ELSE <<>>) \o (IF bFits THEN b ELSE <<>>)
      /\ put'[r] = IF hFits \/ bFits THEN no ELSE put[r]
  BY <1>1 DEF Commit, TypeOK
<1>4. /\ faults[r] = {}
      /\ header = [len |-> BodyLen[type], type |-> type]
      /\ ~(type = "gga" /\ hFits # bFits)
  <2>1. faults'[r] = faults[r]
            \union (IF header # [len |-> BodyLen[type], type |-> type] THEN {"torn"} ELSE {})
            \union (IF type = "gga" /\ hFits # bFits THEN {"clipped"} ELSE {})
    BY <1>1 DEF Commit, TypeOK
  <2> HIDE DEF type, r, hFits, bFits
  <2> QED
    BY <2>1
<1>5. Records(s, read, put[r])
  BY <1>4 DEF RecordsFrom
<1>6. hFits = bFits
  <2>1. CASE type = "gga"
    <3>1. hFits \in BOOLEAN /\ bFits \in BOOLEAN
      BY DEF BodyFits
    <3> HIDE DEF hFits, bFits
    <3> QED
      BY <1>4, <2>1, <3>1
  <2>2. CASE type # "gga"
    <3>1. Free(r) >= Need(type)
      BY DEF SpaceKept, Commit
    <3>2. Need(type) = HeaderLen + BodyLen[type]
      BY <2>2 DEF Need
    <3>3. Free(r) \in Int
      BY <1>1, PpeAssumption DEF Free, PpeAssumption
    <3> DEFINE free == Free(r)
    <3> HIDE DEF type, r, free
    <3>4. HeaderLen <= free /\ BodyLen[type] <= free - HeaderLen
      BY <1>2, <3>1, <3>2, <3>3 DEF free
    <3> QED
      BY <3>4 DEF BodyFits, free
  <2> QED
    BY <2>1, <2>2
<1> HIDE DEF r, type, s, read, hFits, bFits
<1>7. CASE ~hFits
  <2>1. ring'[r] = s \o <<>> \o <<>> /\ put'[r] = put[r]
    BY <1>3, <1>6, <1>7
  <2>2. ring'[r] = s
    BY <1>1, <2>1
  <2> QED
    BY <1>5, <2>1, <2>2
<1>8. CASE hFits
  <2> DEFINE x == s \o h \o b
  <2>1. ring'[r] = x /\ put'[r] = put[r] + 1
    BY <1>3, <1>6, <1>8
  <2>2. no \in Nat /\ Blank.hdr \in HeaderField
    BY <1>1, BlankType
  <2> HIDE DEF no
  <2>3. h \in Seq(Cell) /\ Len(h) = HeaderLen
    BY <1>1, <2>2, HeaderCells
  <2>4. b \in Seq(Cell) /\ Len(b) = BodyLen[type]
    BY <1>1, <2>2, BodyCells
  <2>5. \A k \in 1..HeaderLen : h[k] = [type |-> type, no |-> no, at |-> k, hdr |-> header]
    <3> SUFFICES ASSUME NEW k \in 1..HeaderLen
                 PROVE  h[k] = [type |-> type, no |-> no, at |-> k, hdr |-> header]
      OBVIOUS
    <3>1. k \in 1..(HeaderLen - 1 + 1) /\ 1 + k - 1 = k
      BY <1>2
    <3> QED
      BY <1>2, <3>1, CellsAre
  <2>6. \A k \in 1..BodyLen[type] :
           b[k].type = type /\ b[k].no = no /\ b[k].at = HeaderLen + k
    <3> SUFFICES ASSUME NEW k \in 1..BodyLen[type]
                 PROVE  b[k].type = type /\ b[k].no = no /\ b[k].at = HeaderLen + k
      OBVIOUS
    <3> DEFINE f == HeaderLen + 1
               e == HeaderLen + BodyLen[type]
    <3>1. f \in Nat /\ e \in Nat /\ k \in 1..(e - f + 1) /\ f + k - 1 = HeaderLen + k
      BY <1>2
    <3> HIDE DEF f, e
    <3>2. Cells(type, no, Blank.hdr, f, e)[k]
             = [type |-> type, no |-> no, at |-> f + k - 1, hdr |-> Blank.hdr]
      BY <3>1 DEF Cells
    <3>3. b = Cells(type, no, Blank.hdr, f, e)
      BY DEF f, e
    <3> HIDE DEF b
    <3> QED
      BY <3>1, <3>2, <3>3
  <2> HIDE DEF h, b
  <2>7. /\ s \o h \in Seq(Cell) /\ Len(s \o h) = Len(s) + HeaderLen
        /\ \A i \in 1..(Len(s) + HeaderLen) :
              (s \o h)[i] = IF i <= Len(s) THEN s[i] ELSE h[i - Len(s)]
    BY <1>1, <2>3, ConcatProperties
  <2> DEFINE y == s \o h
  <2>13. x = y \o b
    OBVIOUS
  <2> HIDE DEF x, y
  <2>8. /\ x \in Seq(Cell) /\ Len(x) = (Len(s) + HeaderLen) + BodyLen[type]
        /\ \A i \in 1..((Len(s) + HeaderLen) + BodyLen[type]) :
              x[i] = IF i <= Len(s) + HeaderLen THEN y[i] ELSE b[i - (Len(s) + HeaderLen)]
    <3>1. y \in Seq(Cell) /\ Len(y) = Len(s) + HeaderLen
      BY <2>7 DEF y
    <3>2. /\ y \o b \in Seq(Cell) /\ Len(y \o b) = Len(y) + Len(b)
          /\ \A i \in 1..(Len(y) + Len(b)) : (y \o b)[i] = IF i <= Len(y) THEN y[i] ELSE b[i - Len(y)]
      BY <2>4, <3>1, ConcatProperties
    <3> QED
      BY <2>4, <2>13, <3>1, <3>2
  <2>9. \A k \in 1..Len(s) : x[k] = s[k]
    BY <1>1, <1>2, <2>7, <2>8 DEF y
  <2>10. ASSUME NEW j \in 1..(HeaderLen + BodyLen[type])
         PROVE  /\ x[Len(s) + j].type = type
                /\ x[Len(s) + j].no = no
                /\ x[Len(s) + j].at = j
                /\ j <= HeaderLen => x[Len(s) + j].hdr = [len |-> BodyLen[type], type |-> type]
    <3> DEFINE i == Len(s) + j
    <3>1. i \in 1..((Len(s) + HeaderLen) + BodyLen[type]) /\ i \in Nat
      BY <1>1, <1>2
    <3>2. CASE j <= HeaderLen
      <4>1. i <= Len(s) + HeaderLen /\ ~(i <= Len(s)) /\ i - Len(s) = j /\ j \in 1..HeaderLen
            /\ i \in 1..(Len(s) + HeaderLen)
        BY <1>1, <1>2, <3>2
      <4> HIDE DEF i
      <4>2. x[i] = y[i]
        BY <2>8, <3>1, <4>1
      <4>3. y[i] = h[j]
        BY <2>7, <4>1 DEF y
      <4>4. h[j] = [type |-> type, no |-> no, at |-> j, hdr |-> header]
        BY <2>5, <4>1
      <4> QED
        BY <1>4, <4>2, <4>3, <4>4 DEF i
    <3>3. CASE ~(j <= HeaderLen)
      <4>1. ~(i <= Len(s) + HeaderLen) /\ i - (Len(s) + HeaderLen) = j - HeaderLen
            /\ j - HeaderLen \in 1..BodyLen[type] /\ HeaderLen + (j - HeaderLen) = j
        BY <1>1, <1>2, <3>3
      <4> HIDE DEF i
      <4>2. x[i] = b[j - HeaderLen]
        BY <2>8, <3>1, <4>1
      <4>3. /\ b[j - HeaderLen].type = type /\ b[j - HeaderLen].no = no
            /\ b[j - HeaderLen].at = HeaderLen + (j - HeaderLen)
        BY <2>6, <4>1
      <4> QED
        BY <3>3, <4>1, <4>2, <4>3 DEF i
    <3> QED
      BY <3>2, <3>3
  <2>11. Len(x) = Len(s) + RecordLen(type)
    BY <1>1, <1>2, <2>8
  <2>12. Records(x, read, put[r] + 1)
    <3>1. \A j \in 1..RecordLen(type) :
            /\ x[Len(s) + j].type = type
            /\ x[Len(s) + j].no = put[r] + 1
            /\ x[Len(s) + j].at = j
            /\ j <= HeaderLen => x[Len(s) + j].hdr = [len |-> BodyLen[type], type |-> type]
      BY <1>2, <2>10 DEF no
    <3> QED
      BY <1>1, <1>5, <2>8, <2>9, <2>11, <3>1, AppendRecord
  <2> QED
    BY <2>1, <2>12
<1> QED
  BY <1>7, <1>8

\* Between its read and its processing a consumer is on its way to the latter.
OnItsWay(c) == pc[c] \in {"notifyW", "process"}

\* What FrameInv says of rings and consumers.
Frames ==
    /\ BlankBody
    /\ \A r \in Ring : RecordsFrom(r)
    /\ \A c \in Consumers : DoneNear(c)

\* A ring that nobody puts into and nobody reads from keeps its records.
LEMMA RecordsKept ==
    ASSUME NEW r \in Ring, RecordsFrom(r),
           ring'[r] = ring[r], put'[r] = put[r], faults'[r] = faults[r],
           readBuffer'[Consumer(r)] = readBuffer[Consumer(r)]
    PROVE  RecordsFrom(r)'
<1>1. Held(Consumer(r))' = Held(Consumer(r))
  BY DEF Held
<1> QED
  BY <1>1 DEF RecordsFrom

\* A consumer that neither reads nor processes keeps its distance.
LEMMA DoneKept ==
    ASSUME NEW c \in Consumers, DoneNear(c),
           faults'[TakesFrom(c)] = {} => faults[TakesFrom(c)] = {},
           done'[c] = done[c], readBuffer'[c] = readBuffer[c],
           OnItsWay(c) => OnItsWay(c)'
    PROVE  DoneNear(c)'
<1>1. Held(c)' = Held(c)
  BY DEF Held
<1> QED
  BY <1>1 DEF DoneNear, OnItsWay

\* A step that neither reads, processes nor writes.
LEMMA FramesKept ==
    ASSUME Frames, ring' = ring, put' = put, faults' = faults,
           readBuffer' = readBuffer, done' = done,
           \A c \in Consumers : OnItsWay(c) => OnItsWay(c)'
    PROVE  Frames'
<1>1. BlankBody'
  BY DEF Frames, BlankBody
<1>2. \A r \in Ring : RecordsFrom(r)'
  BY RecordsKept DEF Frames
<1>3. \A c \in Consumers : DoneNear(c)'
  BY DoneKept DEF Frames
<1> QED
  BY <1>1, <1>2, <1>3 DEF Frames

\* A write keeps the records of its ring and does not touch the other.
LEMMA FramesCommit ==
    ASSUME TypeOK, BootOrder, SpaceKept, Frames, NEW t \in Thread, Commit(t)
    PROVE  Frames'
<1>1. readBuffer' = readBuffer /\ done' = done /\ pc' = [pc EXCEPT ![t] = "notifyR"] /\ pc[t] = "commit"
  BY DEF Commit, reader, Goto
<1>2. ASSUME NEW r \in Ring, r # RingOf(job[t].type)
      PROVE  ring'[r] = ring[r] /\ put'[r] = put[r] /\ faults'[r] = faults[r]
  BY <1>2 DEF Commit, TypeOK
<1>3. ASSUME NEW r \in Ring PROVE RecordsFrom(r)'
  <2>1. RecordsFrom(r) /\ RecordsFrom(RingOf(job[t].type))
    BY RingsAndConsumers DEF Frames
  <2>2. CASE r = RingOf(job[t].type)
    <3>1. RecordsFrom(RingOf(job[t].type))'
      BY <2>1, CommitRecord
    <3>2. job' = job
      BY DEF Commit
    <3> QED
      BY <2>2, <3>1, <3>2
  <2>3. CASE r # RingOf(job[t].type)
    BY <1>1, <1>2, <2>1, <2>3, RecordsKept
  <2> QED
    BY <2>2, <2>3
<1>4. \A r \in Ring : faults'[r] = {} => faults[r] = {}
  BY DEF Commit, TypeOK
<1>5. \A c \in Consumers : OnItsWay(c) => OnItsWay(c)'
  BY <1>1, ThreadsDiffer DEF OnItsWay, TypeOK
<1>6. \A c \in Consumers : DoneNear(c)'
  BY <1>1, <1>4, <1>5, RingsAndConsumers, DoneKept DEF Frames
<1>7. BlankBody'
  BY <1>1 DEF Frames, BlankBody
<1> QED
  BY <1>3, <1>6, <1>7 DEF Frames

\* A read of c moves one record from its ring into its readBuffer, or nothing.
LEMMA FramesTake ==
    ASSUME TypeOK, BootOrder, Frames, NEW c \in Consumers, Take(c)
    PROVE  Frames'
<1> DEFINE r == TakesFrom(c)
<1>1. r \in Ring /\ c \in Thread /\ Consumer(r) = c
  BY RingsAndConsumers, ThreadsDiffer
<1>2. put' = put /\ faults' = faults /\ done' = done /\ pc[c] \in {"take", "retake"}
  BY DEF Take
<1>3. BlankBody'
  BY BlankTake DEF Frames
<1>4. ASSUME NEW q \in Ring, q # r
      PROVE  RecordsFrom(q)'
  <2>1. Consumer(q) # c /\ Consumer(q) \in Consumers
    BY <1>4, RingsAndConsumers
  <2>2. ring'[q] = ring[q] /\ readBuffer'[Consumer(q)] = readBuffer[Consumer(q)]
    BY <1>1, <1>4, <2>1 DEF Take, TypeOK
  <2> QED
    BY <1>2, <2>2, RecordsKept DEF Frames
<1>5. ASSUME NEW d \in Consumers, d # c
      PROVE  DoneNear(d)'
  <2>1. readBuffer'[d] = readBuffer[d] /\ pc'[d] = pc[d]
    BY <1>1, <1>5, ThreadsDiffer DEF Take, TypeOK, Goto
  <2> QED
    BY <1>2, <2>1, DoneKept DEF Frames, OnItsWay
<1>6. ASSUME faults[r] = {}
      PROVE  /\ Records(ring'[r], Held(c)', put[r])
             /\ \/ done[c] = Held(c)'
                \/ pc'[c] \in {"notifyW", "process"} /\ Held(c)' = done[c] + 1
  <2>1. Records(ring[r], Held(c), put[r]) /\ put[r] \in Nat
    BY <1>1, <1>6 DEF Frames, RecordsFrom, TypeOK
  <2>2. done[c] = Held(c)
    BY <1>2, <1>6 DEF Frames, DoneNear
  <2>3. CASE ring[r] = <<>>
    <3>1. Held(c)' = Held(c) /\ ring'[r] = <<>>
      BY <2>3, TakeNothing DEF Frames
    <3> QED
      BY <2>1, <2>2, <2>3, <3>1
  <2>4. CASE ring[r] # <<>>
    <3>1. Held(c)' = Held(c) + 1 /\ Records(ring'[r], Held(c)', put[r]) /\ pc'[c] = "notifyW"
      BY <2>1, <2>4, TakeRecord
    <3> QED
      BY <2>2, <3>1
  <2> QED
    BY <2>3, <2>4
<1>7. RecordsFrom(r)'
  BY <1>1, <1>2, <1>6 DEF RecordsFrom
<1>8. DoneNear(c)'
  BY <1>2, <1>6 DEF DoneNear
<1> QED
  BY <1>3, <1>4, <1>5, <1>7, <1>8 DEF Frames

\* What a consumer has processed is what it holds.
LEMMA FramesProcess ==
    ASSUME TypeOK, Frames, NEW c \in Consumers, Process(c)
    PROVE  Frames'
<1>1. /\ ring' = ring /\ put' = put /\ faults' = faults /\ readBuffer' = readBuffer
      /\ \A u \in Thread : u # c => pc'[u] = pc[u]
  BY DEF Process, channel, Goto, TypeOK
<1>2. BlankBody' /\ \A r \in Ring : RecordsFrom(r)'
  BY <1>1, RecordsKept DEF Frames, BlankBody
<1>3. ASSUME NEW d \in Consumers, d # c PROVE DoneNear(d)'
  <2>1. done'[d] = done[d]
    BY <1>3 DEF Process, TypeOK
  <2> QED
    BY <1>1, <1>3, <2>1, ThreadsDiffer, DoneKept DEF Frames, OnItsWay
<1>4. DoneNear(c)'
  <2>1. faults[TakesFrom(c)] = {} => done'[c] = Held(c)
    BY DEF Process, TypeOK
  <2>2. Held(c)' = Held(c)
    BY <1>1, HeldKept
  <2> QED
    BY <1>1, <2>1, <2>2 DEF DoneNear
<1> QED
  BY <1>2, <1>3, <1>4 DEF Frames

\* Every step keeps the framing.
LEMMA FrameStep ==
    ASSUME TypeOK, BootOrder, FrameInv, [Next]_vars
    PROVE  FrameInv'
<1> SUFFICES Frames'
  BY SpaceStep DEF FrameInv, Frames
<1>1. Frames /\ SpaceKept
  BY DEF FrameInv, Frames
<1> USE ThreadsDiffer DEF Goto, channel, reader, calling
<1>2. CASE Boot
  <2>1. ring' = ring /\ put' = put /\ faults' = faults /\ readBuffer' = readBuffer /\ done' = done
    BY <1>2 DEF Boot, createGnss, createCors, spawnCors, subscribe, start_correctServ
  <2>2. \A u \in Thread : pc'[u] = pc[u] \/ pc[u] \notin {"notifyW", "process"}
    <3>1. CASE createGnss \/ createCors \/ subscribe
      BY <3>1 DEF createGnss, createCors, subscribe, TypeOK
    <3>2. CASE spawnCors
      BY <3>2 DEF spawnCors, TypeOK, BootOrder
    <3>3. ASSUME NEW loaded \in BOOLEAN, start_correctServ(loaded)
          PROVE  \A u \in Thread : pc'[u] = pc[u] \/ pc[u] \notin {"notifyW", "process"}
      BY <3>3 DEF start_correctServ, TypeOK, BootOrder
    <3> QED
      BY <1>2, <3>1, <3>2, <3>3 DEF Boot
  <2> QED
    BY <1>1, <2>1, <2>2, FramesKept DEF OnItsWay
<1>3. ASSUME NEW t \in EpThreads, EpCall(t) PROVE Frames'
  <2>1. \E type, obs : Call(t, type, obs)
    BY <1>3 DEF EpCall
  <2> QED
    BY <1>1, <2>1, FramesKept DEF Call, TypeOK, OnItsWay
<1>4. CASE ServCall
  <2>1. PICK type \in ServTypes : Call(Serv, type, 0)
    BY <1>4 DEF ServCall
  <2> QED
    BY <1>1, <2>1, FramesKept DEF Call, TypeOK, OnItsWay
<1>5. ASSUME NEW t \in Thread, Produce(t) PROVE Frames'
  <2>1. CASE Enter(t)
    BY <1>1, <2>1, FramesKept DEF Enter, TypeOK, OnItsWay
  <2>2. CASE PutType(t)
    BY <1>1, <2>2, FramesKept DEF PutType, TypeOK, OnItsWay
  <2>3. CASE NotifyR(t)
    <3> DEFINE d == Consumer(RingOf(job[t].type))
    <3>1. d \in Thread
      BY RingsAndConsumers
    <3>2. pc[t] = "notifyR" /\
          pc' = [(IF pc[d] = "waitR" THEN [pc EXCEPT ![d] = "retake"] ELSE pc)
                    EXCEPT ![t] = IF t = Cors THEN "take" ELSE "idle"]
      BY <2>3 DEF NotifyR
    <3> HIDE DEF d
    <3>3. \A c \in Consumers : OnItsWay(c) => OnItsWay(c)'
      BY <3>1, <3>2 DEF TypeOK, OnItsWay
    <3> QED
      BY <1>1, <2>3, <3>3, FramesKept DEF NotifyR
  <2> QED
    BY <1>1, <1>5, <2>1, <2>2, <2>3, FramesCommit DEF Produce
<1>6. ASSUME NEW t \in Thread, Spurious(t) PROVE Frames'
  BY <1>1, <1>6, FramesKept DEF Spurious, TypeOK, OnItsWay
<1>7. ASSUME NEW c \in Consumers, Consume(c) PROVE Frames'
  <2>1. CASE NotifyW(c)
    BY <1>1, <2>1, FramesKept DEF NotifyW, Waiting, OnItsWay
  <2> QED
    BY <1>1, <1>7, <2>1, FramesTake, FramesProcess DEF Consume
<1>8. CASE UNCHANGED vars
  BY <1>1, <1>8, FramesKept DEF vars, OnItsWay
<1> QED
  BY <1>2, <1>3, <1>4, <1>5, <1>6, <1>7, <1>8 DEF Next

\* The rings are empty in the first state, and the consumers hold nothing.
LEMMA FrameInit == Init => FrameInv
<1> SUFFICES ASSUME Init PROVE FrameInv
  OBVIOUS
<1>1. \A c \in Consumers : readBuffer[c] =
         [filled |-> FALSE, hdr |-> Blank.hdr, body |-> [k \in 1..MaxBody |-> Blank]]
  BY DEF Init
<1>2. SpaceKept
  BY DEF Init, SpaceKept
<1>3. BlankBody
  <2> SUFFICES ASSUME NEW c \in Consumers, NEW k \in 1..MaxBody
               PROVE  readBuffer[c].body[k].type = None
    BY DEF BlankBody
  <2>1. readBuffer[c].body = [i \in 1..MaxBody |-> Blank]
    BY DEF Init
  <2>2. readBuffer[c].body[k] = Blank
    BY <2>1
  <2>3. Blank.type = None
    BY DEF Blank
  <2> QED
    BY <2>2, <2>3
<1>4. \A c \in Consumers : Held(c) = 0
  BY <1>1 DEF Held, Blank
<1>5. Records(<<>>, 0, 0)
  BY DEF Records
<1>6. \A r \in Ring : RecordsFrom(r)
  BY <1>4, <1>5, RingsAndConsumers DEF RecordsFrom, Init
<1>7. \A c \in Consumers : DoneNear(c)
  BY <1>4 DEF DoneNear, Init
<1> QED
  BY <1>2, <1>3, <1>6, <1>7 DEF FrameInv

\* The framing says all that Framed says.
LEMMA FrameImplies == TypeOK /\ FrameInv => Framed
<1> SUFFICES ASSUME TypeOK, FrameInv, NEW r \in Ring, faults[r] = {}
             PROVE  LET s == ring[r]
                        read == Held(Consumer(r))
                    IN  /\ s = <<>> => put[r] = read
                        /\ s # <<>> =>
                             /\ s[1].no = read + 1 /\ s[1].at = 1
                             /\ s[Len(s)].no = put[r]
                             /\ s[Len(s)].at = HeaderLen + BodyLen[s[Len(s)].type]
                        /\ \A k \in 1..(Len(s) - 1) : Follows(s[k + 1], s[k])
                        /\ \A k \in DOMAIN s : s[k].at <= HeaderLen =>
                             s[k].hdr = [len |-> BodyLen[s[k].type], type |-> s[k].type]
  BY DEF Framed
<1> DEFINE s == ring[r]
           read == Held(Consumer(r))
<1>1. Records(s, read, put[r])
  BY DEF FrameInv, RecordsFrom
<1>2. s \in Seq(Cell) /\ DOMAIN s = 1..Len(s)
  BY DEF TypeOK
<1> HIDE DEF s, read
<1>3. \A k \in 1..Len(s) : s[k].at <= HeaderLen =>
         s[k].hdr = [len |-> BodyLen[s[k].type], type |-> s[k].type]
  BY <1>1 DEF Records, WholeAt
<1>4. /\ s = <<>> => put[r] = read
      /\ s # <<>> => /\ s[1].no = read + 1 /\ s[1].at = 1
                     /\ s[Len(s)].no = put[r]
                     /\ s[Len(s)].at = HeaderLen + BodyLen[s[Len(s)].type]
      /\ \A k \in 1..(Len(s) - 1) : Follows(s[k + 1], s[k])
  BY <1>1 DEF Records, RecordLen
<1> QED
  BY <1>2, <1>3, <1>4 DEF s, read

\* As long as nothing broke its framing a ring holds whole records, each behind
\* its own header, in the order in which they were put and up to the last one.
THEOREM RingsAreFramed == Spec => []Framed
<1>1. Init => TypeOK /\ BootOrder /\ FrameInv
  BY TypeInit, BootInit, FrameInit
<1>2. TypeOK /\ BootOrder /\ FrameInv /\ [Next]_vars => TypeOK' /\ BootOrder' /\ FrameInv'
  BY TypeStep, BootStep, FrameStep
<1>3. TypeOK /\ FrameInv => Framed
  BY FrameImplies
<1> QED
  BY <1>1, <1>2, <1>3, PTL DEF Spec

\* A step of a consumer takes done on by one record at most.
LEMMA DoneStep ==
    ASSUME TypeOK, FrameInv, [Next]_vars, NEW c \in Consumers, faults'[TakesFrom(c)] = {}
    PROVE  done'[c] \in {done[c], done[c] + 1}
<1> USE DEF channel, reader, calling
<1>1. ASSUME NEW d \in Consumers, Process(d)
      PROVE  done'[c] \in {done[c], done[c] + 1}
  <2>1. CASE c = d
    <3>1. faults[TakesFrom(c)] = {} /\ done'[c] = Held(c)
      BY <1>1, <2>1 DEF Process, TypeOK
    <3>2. DoneNear(c)
      BY DEF FrameInv
    <3> QED
      BY <3>1, <3>2 DEF DoneNear
  <2>2. CASE c # d
    BY <1>1, <2>2 DEF Process, TypeOK
  <2> QED
    BY <2>1, <2>2
<1>2. CASE done' = done
  BY <1>2
<1>3. CASE Boot
  BY <1>2, <1>3 DEF Boot, createGnss, createCors, spawnCors, subscribe, start_correctServ
<1>4. ASSUME NEW t \in EpThreads, EpCall(t) PROVE done' = done
  BY <1>4 DEF EpCall, Call
<1>5. CASE ServCall
  BY <1>2, <1>5 DEF ServCall, Call
<1>6. ASSUME NEW t \in Thread, Produce(t) \/ Spurious(t) PROVE done' = done
  BY <1>6 DEF Produce, Enter, PutType, Commit, NotifyR, Spurious
<1>7. ASSUME NEW d \in Consumers, Take(d) \/ NotifyW(d) PROVE done' = done
  BY <1>7 DEF Take, NotifyW
<1>8. CASE UNCHANGED vars
  BY <1>2, <1>8 DEF vars
<1> QED
  BY <1>1, <1>2, <1>3, <1>4, <1>5, <1>6, <1>7, <1>8 DEF Next, Consume

\* A consumer skips no record and does not go back.
THEOREM ProcessedInOrder == Spec => InOrder
<1>1. Init => TypeOK /\ BootOrder /\ FrameInv
  BY TypeInit, BootInit, FrameInit
<1>2. TypeOK /\ BootOrder /\ FrameInv /\ [Next]_vars => TypeOK' /\ BootOrder' /\ FrameInv'
  BY TypeStep, BootStep, FrameStep
<1>3. TypeOK /\ FrameInv /\ [Next]_vars =>
         [\A c \in Consumers : faults'[TakesFrom(c)] = {} => done'[c] \in {done[c], done[c] + 1}]_vars
  BY DoneStep
<1> QED
  BY <1>1, <1>2, <1>3, PTL DEF Spec, InOrder

-------------------------------------------------------------------------------
\* The notification of the producers.

\* No producer of r comes to wait, and what kept the promise keeps it.
LEMMA SpaceNoticedKept ==
    ASSUME NEW r \in Ring, SpaceNoticed(r),
           \A t \in Thread : pc'[t] = "waitW" => pc[t] = "waitW" /\ job'[t] = job[t],
           faults'[r] = {} => faults[r] = {},
           ring[r] # <<>> => ring'[r] # <<>>,
           pc[Consumer(r)] = "notifyW" => pc'[Consumer(r)] = "notifyW"
    PROVE  SpaceNoticed(r)'
<1>1. Waiting(r)' # {} => Waiting(r) # {}
  <2>1. Waiting(r)' \subseteq Waiting(r)
    BY DEF Waiting
  <2> QED
    BY <2>1
<1> QED
  BY <1>1 DEF SpaceNoticed

\* A producer waits only next to a ring with something in it: an empty one has
\* room for every record.
LEMMA SpaceNoticedEnter ==
    ASSUME TypeOK, BootOrder, NEW t \in Thread, Enter(t), NEW r \in Ring, SpaceNoticed(r)
    PROVE  SpaceNoticed(r)'
<1> DEFINE q == RingOf(job[t].type)
<1>1. ring' = ring /\ faults' = faults /\ job' = job /\ q \in Ring /\ pc[t] = "enter" /\ t \in Thread
  BY RingsAndConsumers DEF Enter, channel
<1>2. \A u \in Thread : u # t => pc'[u] = pc[u]
  BY DEF Enter, Goto, TypeOK
<1>3. CASE pc'[t] = "waitW" /\ r = q
  <2>1. Free(q) < Need(job[t].type)
    BY <1>3 DEF Enter, Goto, TypeOK
  <2>2. job[t].type \in Types
    BY <1>1 DEF TypeOK, Busy
  <2>3. exists[q]
    BY <1>1, BootImplies DEF RingsBeforeCallers, Putting, Busy
  <2>4. Free(q) = Capacity[q] - Len(ring[q])
    BY <2>3 DEF Free
  <2>5. /\ HeaderLen \in Nat \ {0} /\ BodyLen[job[t].type] \in Nat \ {0}
        /\ HeaderLen + BodyLen[job[t].type] <= Capacity[q] /\ Capacity[q] \in Nat
    BY <1>1, <2>2, PpeAssumption DEF PpeAssumption
  <2>6. Need(job[t].type) <= HeaderLen + BodyLen[job[t].type] /\ Need(job[t].type) \in Nat
    BY <2>5 DEF Need
  <2>7. ring[q] # <<>>
    <3> SUFFICES ASSUME ring[q] = <<>> PROVE FALSE
      OBVIOUS
    <3>1. Len(ring[q]) = 0
      OBVIOUS
    <3> HIDE DEF q
    <3> QED
      BY <2>1, <2>4, <2>5, <2>6, <3>1
  <2> QED
    BY <1>1, <1>3, <2>7 DEF SpaceNoticed
<1>4. CASE pc'[t] = "waitW" /\ r # q
  <2>1. \A u \in Thread : pc'[u] = "waitW" /\ RingOf(job'[u].type) = r => u # t
    BY <1>1, <1>4
  <2>2. Waiting(r)' \subseteq Waiting(r)
    BY <1>1, <1>2, <2>1 DEF Waiting
  <2>3. pc[Consumer(r)] = "notifyW" => pc'[Consumer(r)] = "notifyW"
    BY <1>1, <1>2, RingsAndConsumers, ThreadsDiffer
  <2>4. Waiting(r)' # {} => Waiting(r) # {}
    BY <2>2
  <2> QED
    BY <1>1, <2>3, <2>4 DEF SpaceNoticed
<1>5. CASE pc'[t] # "waitW"
  <2>1. \A u \in Thread : pc'[u] = "waitW" => pc[u] = "waitW" /\ job'[u] = job[u]
    BY <1>1, <1>2, <1>5
  <2>2. pc[Consumer(r)] = "notifyW" => pc'[Consumer(r)] = "notifyW"
    BY <1>1, <1>2, RingsAndConsumers, ThreadsDiffer
  <2> QED
    BY <1>1, <2>1, <2>2, SpaceNoticedKept
<1> QED
  BY <1>3, <1>4, <1>5

\* A write lengthens a ring or leaves it; a header that fits is written.
LEMMA CommitGrows ==
    ASSUME TypeOK, NEW t \in Thread, Commit(t)
    PROVE  /\ \A q \in Ring : Len(ring[q]) <= Len(ring'[q])
           /\ HeaderLen <= Free(RingOf(job[t].type)) => Len(ring'[RingOf(job[t].type)]) > 0
<1> DEFINE type == job[t].type
           r == RingOf(type)
           no == put[r] + 1
           h == Cells(type, no, header, 1, HeaderLen)
           b == Cells(type, no, Blank.hdr, HeaderLen + 1, HeaderLen + BodyLen[type])
           hFits == HeaderLen <= Free(r)
           x == IF hFits THEN h ELSE <<>>
           y == IF BodyFits(r, type, hFits) THEN b ELSE <<>>
<1>1. type \in Types /\ r \in Ring /\ put[r] \in Nat /\ header \in HeaderField /\ no \in Nat
      /\ HeaderLen \in Nat \ {0}
  BY RingsAndConsumers, PpeAssumption DEF TypeOK, Commit, Busy, PpeAssumption
<1>2. ring' = [ring EXCEPT ![r] = ring[r] \o x \o y]
  BY DEF Commit
<1> HIDE DEF no, type, r, hFits
<1>3. h \in Seq(Cell) /\ Len(h) = HeaderLen /\ b \in Seq(Cell)
  BY <1>1, HeaderCells, BodyCells, BlankType
<1>4. x \in Seq(Cell) /\ y \in Seq(Cell) /\ (hFits => Len(x) > 0)
  BY <1>1, <1>3
<1> HIDE DEF x, y
<1>5. ring[r] \in Seq(Cell) /\ \A q \in Ring : Len(ring[q]) \in Nat
  BY <1>1 DEF TypeOK
<1>6. Len(ring[r] \o x \o y) = Len(ring[r]) + Len(x) + Len(y) /\ Len(x) \in Nat /\ Len(y) \in Nat
  BY <1>4, <1>5
<1> DEFINE z == ring[r] \o x \o y
<1>7. \A q \in Ring : ring'[q] = IF q = r THEN z ELSE ring[q]
  BY <1>1, <1>2 DEF TypeOK
<1>10. Len(z) = Len(ring[r]) + Len(x) + Len(y)
  BY <1>6
<1> HIDE DEF z
<1>8. \A q \in Ring : Len(ring[q]) <= Len(ring'[q])
  BY <1>1, <1>5, <1>6, <1>7, <1>10
<1>9. hFits => Len(ring'[r]) > 0
  BY <1>1, <1>4, <1>5, <1>6, <1>7, <1>10
<1> QED
  BY <1>8, <1>9 DEF hFits, r, type

\* A write leaves something to be taken wherever there was something.
LEMMA SpaceNoticedCommit ==
    ASSUME TypeOK, NEW t \in Thread, Commit(t), NEW r \in Ring, SpaceNoticed(r)
    PROVE  SpaceNoticed(r)'
<1>1. pc' = [pc EXCEPT ![t] = "notifyR"] /\ job' = job /\ pc[t] = "commit"
  BY DEF Commit, Goto
<1>2. faults'[r] = {} => faults[r] = {}
  BY DEF Commit, TypeOK
<1>3. Len(ring[r]) <= Len(ring'[r]) /\ ring[r] \in Seq(Cell) /\ ring'[r] \in Seq(Cell)
  BY CommitGrows, CommitFits DEF TypeOK
<1>4. ring[r] # <<>> => ring'[r] # <<>>
  BY <1>3, EmptySeq
<1>5. pc[Consumer(r)] = "notifyW" => pc'[Consumer(r)] = "notifyW"
  BY <1>1, RingsAndConsumers, ThreadsDiffer DEF TypeOK
<1>6. \A u \in Thread : pc'[u] = "waitW" => pc[u] = "waitW" /\ job'[u] = job[u]
  BY <1>1 DEF TypeOK
<1> QED
  BY <1>2, <1>4, <1>5, <1>6, SpaceNoticedKept

\* A consumer that takes the last record of its ring notifies next.
LEMMA SpaceNoticedTake ==
    ASSUME TypeOK, BootOrder, FrameInv, NEW c \in Consumers, Take(c), NEW r \in Ring, SpaceNoticed(r)
    PROVE  SpaceNoticed(r)'
<1> DEFINE q == TakesFrom(c)
<1>1. q \in Ring /\ c \in Thread /\ Consumer(q) = c /\ pc[c] \in {"take", "retake"}
  BY RingsAndConsumers, ThreadsDiffer DEF Take
<1>2. job' = job /\ faults' = faults /\ \A u \in Thread : u # c => pc'[u] = pc[u]
  BY DEF Take, Goto, TypeOK
<1>3. \A u \in Thread : pc'[u] = "waitW" => pc[u] = "waitW" /\ job'[u] = job[u]
  BY <1>2, TakeType DEF Busy
<1>4. CASE r # q
  <2>1. Consumer(r) # c /\ Consumer(r) \in Thread
    BY <1>4, RingsAndConsumers, ThreadsDiffer
  <2>2. ring'[r] = ring[r]
    BY <1>1, <1>4 DEF Take, TypeOK
  <2> QED
    BY <1>2, <1>3, <2>1, <2>2, SpaceNoticedKept
<1>5. CASE r = q /\ faults[r] = {} /\ ring[r] # <<>>
  <2>1. Records(ring[q], Held(c), put[q]) /\ put[q] \in Nat
    BY <1>1, <1>5 DEF FrameInv, RecordsFrom, TypeOK
  <2>2. pc'[c] = "notifyW"
    BY <1>5, <2>1, TakeRecord
  <2> QED
    BY <1>1, <1>5, <2>2 DEF SpaceNoticed
<1>6. CASE r = q /\ faults[r] = {} /\ ring[r] = <<>>
  <2>1. pc[Consumer(r)] # "notifyW"
    BY <1>1, <1>6
  <2> QED
    BY <1>1, <1>2, <1>3, <1>6, <2>1, SpaceNoticedKept
<1>7. CASE faults[r] # {}
  BY <1>2, <1>7 DEF SpaceNoticed
<1> QED
  BY <1>4, <1>5, <1>6, <1>7

\* The notification reaches everyone who waits for its ring.
LEMMA SpaceNoticedNotify ==
    ASSUME TypeOK, NEW c \in Consumers, NotifyW(c), NEW r \in Ring, SpaceNoticed(r)
    PROVE  SpaceNoticed(r)'
<1> DEFINE q == TakesFrom(c)
<1>1. q \in Ring /\ c \in Thread /\ Consumer(q) = c
  BY RingsAndConsumers, ThreadsDiffer
<1>2. /\ job' = job /\ faults' = faults /\ ring' = ring /\ pc[c] = "notifyW"
      /\ \A u \in Thread : pc'[u] = IF u \in Waiting(q) THEN "enter"
                                    ELSE IF u = c THEN "process" ELSE pc[u]
  BY DEF NotifyW, channel
<1> HIDE DEF q
<1>3. CASE r = q
  <2>1. \A u \in Thread : pc'[u] = "waitW" => pc[u] = "waitW" /\ u \notin Waiting(q)
    BY <1>2
  <2>2. Waiting(r)' = {}
    BY <1>2, <1>3, <2>1 DEF Waiting
  <2> QED
    BY <2>2 DEF SpaceNoticed
<1>4. CASE r # q
  <2>1. Consumer(r) # c /\ Consumer(r) \in Thread
    BY <1>4, RingsAndConsumers, ThreadsDiffer DEF q
  <2>2. pc[Consumer(r)] = "notifyW" => pc'[Consumer(r)] = "notifyW"
    BY <1>2, <2>1 DEF Waiting
  <2>3. \A u \in Thread : pc'[u] = "waitW" => pc[u] = "waitW" /\ job'[u] = job[u]
    BY <1>2
  <2> QED
    BY <1>2, <2>2, <2>3, SpaceNoticedKept
<1> QED
  BY <1>3, <1>4

\* Every step keeps the notification of the producers.
LEMMA WriterStep ==
    ASSUME TypeOK, BootOrder, FrameInv, NoLostWriter, [Next]_vars
    PROVE  NoLostWriter'
<1> SUFFICES ASSUME NEW r \in Ring PROVE SpaceNoticed(r)'
  BY DEF NoLostWriter, SpaceNoticed
<1>1. SpaceNoticed(r)
  BY DEF NoLostWriter, SpaceNoticed
<1>2. Consumer(r) \in Thread
  BY RingsAndConsumers, ThreadsDiffer
<1> USE <1>1, <1>2, SpaceNoticedKept, ThreadsDiffer DEF Goto, channel, reader, calling
<1>3. CASE Boot
  <2>1. ring' = ring /\ job' = job /\ faults' = faults
    BY <1>3 DEF Boot, createGnss, createCors, spawnCors, subscribe, start_correctServ
  <2>2. \A u \in Thread : pc'[u] = pc[u] \/ (pc[u] # "notifyW" /\ pc'[u] # "waitW")
    <3>1. CASE createGnss \/ createCors \/ subscribe
      BY <3>1 DEF createGnss, createCors, subscribe, TypeOK
    <3>2. CASE spawnCors
      BY <3>2 DEF spawnCors, TypeOK, BootOrder
    <3>3. ASSUME NEW loaded \in BOOLEAN, start_correctServ(loaded)
          PROVE  \A u \in Thread : pc'[u] = pc[u] \/ (pc[u] # "notifyW" /\ pc'[u] # "waitW")
      BY <3>3 DEF start_correctServ, TypeOK, BootOrder
    <3> QED
      BY <1>3, <3>1, <3>2, <3>3 DEF Boot
  <2> QED
    BY <2>1, <2>2
<1>4. ASSUME NEW t \in EpThreads, EpCall(t) PROVE SpaceNoticed(r)'
  <2>1. \E type, obs : Call(t, type, obs)
    BY <1>4 DEF EpCall
  <2> QED
    BY <2>1 DEF Call, TypeOK
<1>5. CASE ServCall
  <2>1. PICK type \in ServTypes : Call(Serv, type, 0)
    BY <1>5 DEF ServCall
  <2> QED
    BY <2>1 DEF Call, TypeOK
<1>6. ASSUME NEW t \in Thread, Produce(t) PROVE SpaceNoticed(r)'
  <2>1. CASE PutType(t)
    BY <2>1 DEF PutType, TypeOK
  <2>2. CASE NotifyR(t)
    <3> DEFINE d == Consumer(RingOf(job[t].type))
    <3>1. d \in Thread
      BY RingsAndConsumers
    <3>2. pc[t] = "notifyR" /\
          pc' = [(IF pc[d] = "waitR" THEN [pc EXCEPT ![d] = "retake"] ELSE pc)
                    EXCEPT ![t] = IF t = Cors THEN "take" ELSE "idle"]
      BY <2>2 DEF NotifyR
    <3>3. ring' = ring /\ faults' = faults /\ \A u \in Thread : u # t => job'[u] = job[u]
      BY <2>2 DEF NotifyR, TypeOK
    <3> HIDE DEF d
    <3>4. pc[Consumer(r)] = "notifyW" => pc'[Consumer(r)] = "notifyW"
      BY <3>1, <3>2 DEF TypeOK
    <3>5. \A u \in Thread : pc'[u] = "waitW" => pc[u] = "waitW" /\ u # t
      BY <3>1, <3>2 DEF TypeOK
    <3> QED
      BY <3>3, <3>4, <3>5
  <2> QED
    BY <1>6, <2>1, <2>2, SpaceNoticedEnter, SpaceNoticedCommit DEF Produce
<1>7. ASSUME NEW t \in Thread, Spurious(t) PROVE SpaceNoticed(r)'
  BY <1>7 DEF Spurious, TypeOK
<1>8. ASSUME NEW c \in Consumers, Consume(c) PROVE SpaceNoticed(r)'
  <2>1. CASE Process(c)
    <3>1. ring' = ring /\ faults' = faults
      BY <2>1 DEF Process
    <3>2. \A u \in Thread : pc'[u] = pc[u] \/ (pc[u] = "process" /\ pc'[u] # "waitW")
      BY <2>1 DEF Process, TypeOK
    <3>3. \A u \in Thread : pc'[u] = "waitW" => job'[u] = job[u]
      BY <2>1 DEF Process, TypeOK
    <3> QED
      BY <3>1, <3>2, <3>3
  <2> QED
    BY <1>8, <2>1, SpaceNoticedTake, SpaceNoticedNotify DEF Consume
<1>9. CASE UNCHANGED vars
  BY <1>9 DEF vars
<1> QED
  BY <1>3, <1>4, <1>5, <1>6, <1>7, <1>8, <1>9 DEF Next

\* No producer waits for space in an unbroken ring with nothing left to take.
THEOREM WriterNotLost == Spec => []NoLostWriter
<1>1. Init => TypeOK /\ BootOrder /\ FrameInv
  BY TypeInit, BootInit, FrameInit
<1>2. Init => NoLostWriter
  <2>1. Init => \A r \in Ring : Waiting(r) = {}
    BY DEF Init, Waiting
  <2> QED
    BY <2>1 DEF NoLostWriter
<1>3. TypeOK /\ BootOrder /\ FrameInv /\ [Next]_vars => TypeOK' /\ BootOrder' /\ FrameInv'
  BY TypeStep, BootStep, FrameStep
<1>4. TypeOK /\ BootOrder /\ FrameInv /\ NoLostWriter /\ [Next]_vars => NoLostWriter'
  BY WriterStep
<1> QED
  BY <1>1, <1>2, <1>3, <1>4, PTL DEF Spec

-------------------------------------------------------------------------------
\* What the consumers process.

\* A ring that was fed stays so.
LEMMA FedKept ==
    ASSUME NEW r \in Ring, Fed(r),
           \/ ring'[r] # <<>> \/ readBuffer'[Consumer(r)].filled
           \/ ring'[r] = ring[r] /\ readBuffer'[Consumer(r)] = readBuffer[Consumer(r)]
    PROVE  Fed(r)'
BY DEF Fed

\* The ring that a producer wrote to, or found too full for a GGA record, is not empty.
LEMMA CommitFeeds ==
    ASSUME TypeOK, BootOrder, NEW t \in Thread, Commit(t)
    PROVE  /\ ring'[RingOf(job[t].type)] # <<>>
           /\ \A r \in Ring : ring[r] # <<>> => ring'[r] # <<>>
<1> DEFINE type == job[t].type
           r == RingOf(type)
           s == ring[r]
           hFits == HeaderLen <= Free(r)
<1>1. type \in Types /\ r \in Ring /\ s \in Seq(Cell) /\ Len(s) \in Nat /\ exists[r]
      /\ ring'[r] \in Seq(Cell)
  <2>1. type \in Types /\ r \in Ring
    BY RingsAndConsumers DEF TypeOK, Commit, Busy
  <2>2. Putting(t, r)
    BY DEF Commit, Putting, Busy
  <2> HIDE DEF type, r
  <2>3. exists[r]
    BY <2>1, <2>2, BootImplies DEF RingsBeforeCallers
  <2> QED
    BY <2>1, <2>3, CommitFits DEF TypeOK
<1>2. /\ HeaderLen \in Nat \ {0} /\ BodyLen[type] \in Nat \ {0}
      /\ HeaderLen + BodyLen[type] <= Capacity[r] /\ Capacity[r] \in Nat
  BY <1>1, PpeAssumption DEF PpeAssumption
<1>3. Len(ring[r]) <= Len(ring'[r]) /\ (hFits => Len(ring'[r]) > 0)
  BY <1>1, CommitGrows
<1>4. ~hFits => Len(s) > 0
  <2>1. Free(r) = Capacity[r] - Len(s)
    BY <1>1 DEF Free
  <2> HIDE DEF type, r, s
  <2> QED
    BY <1>1, <1>2, <2>1
<1>5. ring'[r] # <<>>
  <2>1. Len(ring'[r]) \in Nat
    BY <1>1
  <2>2. Len(ring'[r]) # 0
    <3> HIDE DEF r, hFits
    <3> QED
      BY <1>1, <1>3, <1>4, <2>1 DEF s
  <2> QED
    BY <1>1, <2>2, EmptySeq
<1>6. ASSUME NEW q \in Ring, ring[q] # <<>> PROVE ring'[q] # <<>>
  <2>1. Len(ring[q]) <= Len(ring'[q]) /\ ring[q] \in Seq(Cell) /\ ring'[q] \in Seq(Cell)
    BY CommitGrows, CommitFits DEF TypeOK
  <2> QED
    BY <1>6, <2>1, EmptySeq
<1> QED
  BY <1>5, <1>6

\* No notification and no wake-up is new, and what was fed stays fed.
LEMMA FedSame ==
    ASSUME FedInv,
           \A r \in Ring : Fed(r) => Fed(r)',
           \A c \in Consumers : readBuffer[c].filled => readBuffer'[c].filled,
           spurious' = 0 => spurious = 0,
           \A t \in Thread : pc'[t] = "notifyR" => pc[t] = "notifyR" /\ job'[t] = job[t],
           \A c \in Consumers : pc'[c] = "retake" => pc[c] = "retake",
           \A c \in Consumers : OnItsWay(c)' => OnItsWay(c)
    PROVE  FedInv'
<1>1. \A t \in Thread, r \in Ring : pc'[t] = "notifyR" /\ RingOf(job'[t].type) = r => Fed(r)'
  BY RingsAndConsumers DEF FedInv
<1>2. ASSUME spurious' = 0, NEW c \in Consumers
      PROVE  /\ pc'[c] = "retake" => Fed(TakesFrom(c))'
             /\ OnItsWay(c)' => readBuffer'[c].filled
  BY <1>2, RingsAndConsumers DEF FedInv, OnItsWay
<1> QED
  BY <1>1, <1>2 DEF FedInv, OnItsWay

\* Who notifies has written to the ring.
LEMMA FedCommit ==
    ASSUME TypeOK, BootOrder, FedInv, NEW t \in Thread, Commit(t)
    PROVE  FedInv'
<1>1. /\ readBuffer' = readBuffer /\ spurious' = spurious /\ job' = job
      /\ pc' = [pc EXCEPT ![t] = "notifyR"]
  BY DEF Commit, reader, Goto
<1>2. \A r \in Ring : Fed(r) => Fed(r)'
  BY <1>1, CommitFeeds DEF Fed
<1>3. \A u \in Thread, r \in Ring : pc'[u] = "notifyR" /\ RingOf(job'[u].type) = r => Fed(r)'
  <2>1. \A r \in Ring : RingOf(job[t].type) = r => Fed(r)'
    BY <1>1, CommitFeeds DEF Fed
  <2>2. \A u \in Thread : u # t /\ pc'[u] = "notifyR" => pc[u] = "notifyR"
    BY <1>1 DEF TypeOK
  <2> QED
    BY <1>1, <1>2, <2>1, <2>2, RingsAndConsumers DEF FedInv
<1>4. ASSUME spurious' = 0, NEW c \in Consumers
      PROVE  /\ pc'[c] = "retake" => Fed(TakesFrom(c))'
             /\ OnItsWay(c)' => readBuffer'[c].filled
  <2>1. pc'[c] = "retake" => pc[c] = "retake"
    BY <1>1, ThreadsDiffer DEF TypeOK
  <2>2. OnItsWay(c)' => OnItsWay(c)
    BY <1>1, ThreadsDiffer DEF TypeOK, OnItsWay
  <2> QED
    BY <1>1, <1>2, <1>4, <2>1, <2>2, RingsAndConsumers DEF FedInv, OnItsWay
<1> QED
  BY <1>3, <1>4 DEF FedInv, OnItsWay

\* A notified consumer wakes next to a ring that was fed.
LEMMA FedNotify ==
    ASSUME TypeOK, FedInv, NEW t \in Thread, NotifyR(t)
    PROVE  FedInv'
<1> DEFINE q == RingOf(job[t].type)
           d == Consumer(q)
<1>1. d \in Thread /\ d \in Consumers /\ TakesFrom(d) = q /\ q \in Ring
  BY RingsAndConsumers, ThreadsDiffer
<1>2. /\ pc[t] = "notifyR" /\ ring' = ring /\ readBuffer' = readBuffer /\ spurious' = spurious
      /\ \A u \in Thread : u # t => job'[u] = job[u]
      /\ pc' = [(IF pc[d] = "waitR" THEN [pc EXCEPT ![d] = "retake"] ELSE pc)
                    EXCEPT ![t] = IF t = Cors THEN "take" ELSE "idle"]
  BY DEF NotifyR, channel, reader, TypeOK
<1>3. Fed(q)
  BY <1>1, <1>2 DEF FedInv
<1> HIDE DEF q, d
<1>4. \A r \in Ring : Fed(r)' = Fed(r)
  BY <1>2 DEF Fed
<1>5. \A u \in Thread : pc'[u] = "notifyR" => pc[u] = "notifyR" /\ u # t
  BY <1>1, <1>2 DEF TypeOK
<1>6. \A u \in Thread : pc'[u] = "retake" => pc[u] = "retake" \/ u = d
  BY <1>1, <1>2 DEF TypeOK
<1>7. \A u \in Thread : pc'[u] \in {"notifyW", "process"} => pc[u] = pc'[u]
  BY <1>1, <1>2 DEF TypeOK
<1>8. \A u \in Thread, r \in Ring : pc'[u] = "notifyR" /\ RingOf(job'[u].type) = r => Fed(r)'
  BY <1>2, <1>4, <1>5, RingsAndConsumers DEF FedInv
<1>9. ASSUME spurious' = 0, NEW c \in Consumers
      PROVE  /\ pc'[c] = "retake" => Fed(TakesFrom(c))'
             /\ OnItsWay(c)' => readBuffer'[c].filled
  <2>1. pc'[c] = "retake" => Fed(TakesFrom(c))
    BY <1>1, <1>2, <1>3, <1>6, <1>9, ThreadsDiffer DEF FedInv
  <2>2. OnItsWay(c)' => readBuffer[c].filled
    BY <1>2, <1>7, <1>9, ThreadsDiffer DEF FedInv, OnItsWay
  <2> QED
    BY <1>2, <1>4, <2>1, <2>2, RingsAndConsumers
<1> QED
  BY <1>8, <1>9 DEF FedInv, OnItsWay

\* A consumer that reads from a ring that is not empty fills its readBuffer.
LEMMA FedTake ==
    ASSUME TypeOK, BootOrder, FedInv, NEW c \in Consumers, Take(c)
    PROVE  FedInv'
<1> DEFINE q == TakesFrom(c)
           n == MinOf(HeaderLen, Len(ring[q]))
<1>1. q \in Ring /\ c \in Thread /\ Consumer(q) = c /\ pc[c] \in {"take", "retake"}
  BY RingsAndConsumers, ThreadsDiffer DEF Take
<1>2. /\ job' = job /\ spurious' = spurious
      /\ \A u \in Thread : u # c => pc'[u] = pc[u]
      /\ \A d \in Consumers : d # c => readBuffer'[d] = readBuffer[d]
      /\ \A r \in Ring : r # q => ring'[r] = ring[r]
  BY <1>1 DEF Take, Goto, TypeOK
<1>3. ring[q] \in Seq(Cell) /\ Len(ring[q]) \in Nat /\ HeaderLen \in Nat \ {0}
  BY <1>1, PpeAssumption DEF TypeOK, PpeAssumption
<1>4. CASE pc[c] = "take" /\ Empty(q)
  <2>1. ring' = ring /\ readBuffer' = readBuffer /\ pc'[c] = "waitR"
    BY <1>1, <1>4 DEF Take, Goto, TypeOK
  <2> HIDE DEF q
  <2>2. \A u \in Thread : pc'[u] = pc[u] \/ pc'[u] = "waitR"
    BY <1>2, <2>1
  <2>3. \A r \in Ring : Fed(r)' = Fed(r)
    BY <2>1 DEF Fed
  <2> QED
    BY <1>2, <2>1, <2>2, <2>3, FedSame, ThreadsDiffer DEF OnItsWay
<1>5. CASE ~(pc[c] = "take" /\ Empty(q))
  <2>1. PICK hdr \in HeaderField, m \in Nat : Reads(c, hdr, m)
    BY <1>5, TakeReads
  <2>2. readBuffer'[c].filled = (readBuffer[c].filled \/ n > 0)
    BY <2>1 DEF Reads
  <2>3. ring[q] # <<>> => n > 0
    <3> DEFINE l == Len(ring[q])
    <3>1. ring[q] # <<>> => l # 0
      BY <1>3, EmptySeq
    <3>2. l \in Nat
      BY <1>3
    <3> HIDE DEF l
    <3>3. l # 0 => MinOf(HeaderLen, l) > 0
      BY <1>3, <3>2 DEF MinOf
    <3> QED
      BY <3>1, <3>3 DEF l
  <2>4. m = MinOf(hdr.len, Len(ring[q]) - n) /\ hdr.len \in Nat
    BY <2>1, MaxBodyIs DEF Reads, HeaderField
  <2>5. pc'[c] = IF m > 0 THEN "notifyW" ELSE IF hdr.len > 0 THEN "process" ELSE "take"
    BY <2>1 DEF Reads
  <2>6. m > 0 => ring[q] # <<>>
    <3> SUFFICES ASSUME ring[q] = <<>> PROVE ~(m > 0)
      OBVIOUS
    <3>1. Len(ring[q]) = 0
      OBVIOUS
    <3>2. n = 0
      BY <1>3, <3>1 DEF MinOf
    <3>3. Len(ring[q]) - n = 0
      BY <3>1, <3>2
    <3> HIDE DEF q, n
    <3>4. m = MinOf(hdr.len, 0)
      BY <2>4, <3>3
    <3> QED
      BY <2>4, <3>4 DEF MinOf
  <2>7. ~(pc[c] = "retake") => ring[q] # <<>>
    <3> SUFFICES ASSUME pc[c] = "take", ring[q] = <<>> PROVE FALSE
      BY <1>1
    <3>1. Len(ring[q]) = 0
      OBVIOUS
    <3>2. Used(q) \in {0, -1}
      BY <3>1 DEF Used
    <3>3. Empty(q)
      BY <3>2 DEF Empty
    <3> QED
      BY <1>5, <3>3
  <2> HIDE DEF n, q
  <2>8. Fed(q) => readBuffer'[c].filled
    BY <1>1, <2>2, <2>3 DEF Fed
  <2>9. \A r \in Ring : Fed(r) => Fed(r)'
    <3> SUFFICES ASSUME NEW r \in Ring, Fed(r) PROVE Fed(r)'
      OBVIOUS
    <3>1. CASE r = q
      BY <1>1, <2>8, <3>1 DEF Fed
    <3>2. CASE r # q
      <4>1. Consumer(r) # c /\ Consumer(r) \in Consumers
        BY <3>2, RingsAndConsumers DEF q
      <4> QED
        BY <1>2, <3>2, <4>1 DEF Fed
    <3> QED
      BY <3>1, <3>2
  <2>10. \A u \in Thread, r \in Ring : pc'[u] = "notifyR" /\ RingOf(job'[u].type) = r => Fed(r)'
    <3>1. \A u \in Thread : pc'[u] = "notifyR" => pc[u] = "notifyR" /\ job'[u] = job[u]
      BY <1>2, <2>5
    <3> QED
      BY <2>9, <3>1, RingsAndConsumers DEF FedInv
  <2>11. ASSUME spurious' = 0, NEW d \in Consumers, d # c
         PROVE  /\ pc'[d] = "retake" => Fed(TakesFrom(d))'
                /\ OnItsWay(d)' => readBuffer'[d].filled
    <3>1. pc'[d] = pc[d] /\ readBuffer'[d] = readBuffer[d] /\ spurious = 0
      BY <1>2, <2>11, ThreadsDiffer
    <3> QED
      BY <2>9, <3>1, RingsAndConsumers DEF FedInv, OnItsWay
  <2>12. ASSUME spurious' = 0
         PROVE  /\ pc'[c] = "retake" => Fed(TakesFrom(c))'
                /\ OnItsWay(c)' => readBuffer'[c].filled
    <3>1. pc'[c] # "retake"
      BY <2>5
    <3>2. ring[q] # <<>> => Fed(q)
      BY DEF Fed
    <3>3. pc[c] = "retake" => Fed(q)
      BY <1>2, <2>12 DEF FedInv, q
    <3>4. readBuffer'[c].filled
      BY <2>7, <2>8, <3>2, <3>3
    <3> QED
      BY <3>1, <3>4
  <2> QED
    BY <2>10, <2>11, <2>12 DEF FedInv, OnItsWay
<1> QED
  BY <1>4, <1>5

\* Every step keeps it.
LEMMA FedStep ==
    ASSUME TypeOK, BootOrder, FedInv, [Next]_vars
    PROVE  FedInv'
<1> USE ThreadsDiffer DEF Goto, channel, reader, calling
<1>1. ASSUME ring' = ring, readBuffer' = readBuffer
      PROVE  /\ \A r \in Ring : Fed(r) => Fed(r)'
             /\ \A c \in Consumers : readBuffer[c].filled => readBuffer'[c].filled
  BY <1>1 DEF Fed
<1>2. CASE Boot
  <2>1. ring' = ring /\ job' = job /\ readBuffer' = readBuffer /\ spurious' = spurious
    BY <1>2 DEF Boot, createGnss, createCors, spawnCors, subscribe, start_correctServ
  <2>2. \A u \in Thread : pc'[u] = pc[u] \/ pc'[u] \notin {"notifyR", "retake", "notifyW", "process"}
    <3>1. CASE createGnss \/ createCors \/ subscribe \/ spawnCors
      BY <3>1 DEF createGnss, createCors, subscribe, spawnCors, TypeOK
    <3>2. ASSUME NEW loaded \in BOOLEAN, start_correctServ(loaded)
          PROVE  \A u \in Thread : pc'[u] = pc[u] \/ pc'[u] \notin {"notifyR", "retake", "notifyW", "process"}
      BY <3>2 DEF start_correctServ, TypeOK
    <3> QED
      BY <1>2, <3>1, <3>2 DEF Boot
  <2> QED
    BY <1>1, <2>1, <2>2, FedSame DEF OnItsWay
<1>3. ASSUME NEW t \in EpThreads, EpCall(t) PROVE FedInv'
  <2>1. \E type, obs : Call(t, type, obs)
    BY <1>3 DEF EpCall
  <2> QED
    BY <1>1, <2>1, FedSame DEF Call, TypeOK, OnItsWay
<1>4. CASE ServCall
  <2>1. PICK type \in ServTypes : Call(Serv, type, 0)
    BY <1>4 DEF ServCall
  <2> QED
    BY <1>1, <2>1, FedSame DEF Call, TypeOK, OnItsWay
<1>5. ASSUME NEW t \in Thread, Produce(t) PROVE FedInv'
  <2>1. CASE Enter(t)
    BY <1>1, <2>1, FedSame DEF Enter, TypeOK, OnItsWay
  <2>2. CASE PutType(t)
    BY <1>1, <2>2, FedSame DEF PutType, TypeOK, OnItsWay
  <2> QED
    BY <1>5, <2>1, <2>2, FedCommit, FedNotify DEF Produce
<1>6. ASSUME NEW t \in Thread, Spurious(t) PROVE FedInv'
  <2>1. spurious' # 0
    BY <1>6 DEF Spurious, TypeOK
  <2>2. ring' = ring /\ readBuffer' = readBuffer /\ job' = job
    BY <1>6 DEF Spurious
  <2>3. \A u \in Thread : pc'[u] = "notifyR" => pc[u] = "notifyR"
    BY <1>6 DEF Spurious, TypeOK
  <2> QED
    BY <1>1, <2>1, <2>2, <2>3, RingsAndConsumers DEF FedInv
<1>7. ASSUME NEW c \in Consumers, Consume(c) PROVE FedInv'
  <2>1. CASE NotifyW(c)
    <3>1. ring' = ring /\ readBuffer' = readBuffer /\ job' = job /\ spurious' = spurious
      BY <2>1 DEF NotifyW
    <3>2. \A u \in Thread : pc'[u] \in {"notifyR", "retake"} => pc[u] = pc'[u]
      BY <2>1 DEF NotifyW
    <3>3. \A u \in Thread : pc'[u] \in {"notifyW", "process"} => pc[u] \in {"notifyW", "process"}
      BY <2>1 DEF NotifyW
    <3> QED
      BY <1>1, <3>1, <3>2, <3>3, FedSame DEF OnItsWay
  <2>2. CASE Process(c)
    <3>1. ring' = ring /\ readBuffer' = readBuffer /\ spurious' = spurious
      BY <2>2 DEF Process
    <3>2. \A u \in Thread : u # c => pc'[u] = pc[u] /\ job'[u] = job[u]
      BY <2>2 DEF Process, TypeOK
    <3>3. pc'[c] \in {"enter", "take"}
      BY <2>2 DEF Process, TypeOK
    <3> QED
      BY <1>1, <3>1, <3>2, <3>3, FedSame DEF OnItsWay
  <2> QED
    BY <1>7, <2>1, <2>2, FedTake DEF Consume
<1>8. CASE UNCHANGED vars
  BY <1>1, <1>8, FedSame DEF vars, OnItsWay
<1> QED
  BY <1>2, <1>3, <1>4, <1>5, <1>6, <1>7, <1>8 DEF Next

\* Without spurious wake-ups a consumer never processes bytes it did not read.
THEOREM NothingFromNothing == Spec => []NoPhantom
<1>1. Init => TypeOK /\ BootOrder
  BY TypeInit, BootInit
<1>2. Init => FedInv
  <2>1. Init => \A t \in Thread : pc[t] \notin {"notifyR", "retake", "notifyW", "process"}
    BY DEF Init
  <2> QED
    BY <2>1, ThreadsDiffer DEF FedInv
<1>3. TypeOK /\ BootOrder /\ [Next]_vars => TypeOK' /\ BootOrder'
  BY TypeStep, BootStep
<1>4. TypeOK /\ BootOrder /\ FedInv /\ [Next]_vars => FedInv'
  BY FedStep
<1>5. FedInv => NoPhantom
  BY DEF FedInv, NoPhantom
<1> QED
  BY <1>1, <1>2, <1>3, <1>4, <1>5, PTL DEF Spec

-----------------------------------------------------------------------------
(* Induction on numbers, as the search for a least counterexample.          *)

\* A set of natural numbers has a least element.
LEMMA LeastNat ==
    ASSUME NEW S \in SUBSET Nat, S # {}
    PROVE  \E m \in S : \A k \in S : m <= k
<1>1. IsWellFoundedOn(OpToRel(<, Nat), Nat)
  BY NatLessThanWellFounded, Zenon
<1>2. PICK m \in S : \A k \in S : <<k, m>> \notin OpToRel(<, Nat)
  BY <1>1, WFMin, Zenon
<1>3. ASSUME NEW k \in S PROVE m <= k
  <2>1. m \in Nat /\ k \in Nat
    OBVIOUS
  <2>2. ~(k < m)
    BY <1>2, <2>1 DEF OpToRel
  <2> QED
    BY <2>1, <2>2
<1> QED
  BY <1>3

\* A set of numbers up to n that has 0, and with a number the next, has all of them.
LEMMA UpTo ==
    ASSUME NEW n \in Nat, NEW T, 0 \in T, \A i \in 0..(n - 1) : i \in T => i + 1 \in T
    PROVE  0..n \subseteq T
<1> DEFINE S == {i \in 0..n : i \notin T}
<1>1. SUFFICES ASSUME S # {} PROVE FALSE
  OBVIOUS
<1>2. S \in SUBSET Nat
  OBVIOUS
<1>3. PICK m \in S : \A k \in S : m <= k
  <2> HIDE DEF S
  <2> QED
    BY <1>1, <1>2, LeastNat
<1>4. m \in 1..n /\ m - 1 \in 0..(n - 1) /\ m - 1 \notin S
  BY <1>3
<1>5. m - 1 \in T
  BY <1>4
<1> QED
  BY <1>3, <1>4, <1>5

Stepwise(D, first, n, step, g) ==
    g \in [0..n -> D] /\ g[0] = first /\ \A k \in 1..n : g[k] = step[k][g[k - 1]]

\* A function that is defined step by step exists.
LEMMA StepByStep ==
    ASSUME NEW D, NEW first, first \in D, NEW n, n \in Nat, NEW step, step \in [1..n -> [D -> D]]
    PROVE  \E g : Stepwise(D, first, n, step, g)
<1> DEFINE T == {m \in 0..n : \E g \in [0..m -> D] : /\ g[0] = first
                                                    /\ \A k \in 1..m : g[k] = step[k][g[k - 1]]}
<1>1. 0 \in T
  <2> DEFINE g == [k \in 0..0 |-> first]
  <2>1. g \in [0..0 -> D] /\ g[0] = first /\ 0 \in 0..n
    OBVIOUS
  <2>2. \A k \in 1..0 : g[k] = step[k][g[k - 1]]
    OBVIOUS
  <2> HIDE DEF g
  <2> QED
    BY <2>1, <2>2
<1>2. ASSUME NEW m \in 0..(n - 1), m \in T PROVE m + 1 \in T
  <2>1. PICK g \in [0..m -> D] : g[0] = first /\ \A k \in 1..m : g[k] = step[k][g[k - 1]]
    BY <1>2
  <2>2. PICK d : d = step[m + 1][g[m]]
    OBVIOUS
  <2>3. d \in D
    <3>1. m \in 0..m /\ m + 1 \in 1..n
      OBVIOUS
    <3> QED
      BY <2>2, <3>1
  <2> DEFINE h == [k \in 0..(m + 1) |-> IF k = m + 1 THEN d ELSE g[k]]
  <2>4. h \in [0..(m + 1) -> D]
    BY <2>3
  <2>5. h[m + 1] = d /\ \A k \in 0..m : h[k] = g[k]
    OBVIOUS
  <2> HIDE DEF h
  <2>6. ASSUME NEW k \in 1..(m + 1) PROVE h[k] = step[k][h[k - 1]]
    <3>1. CASE k = m + 1
      <4>1. k - 1 = m /\ m \in 0..m
        BY <3>1
      <4>2. h[k - 1] = g[m]
        BY <2>5, <4>1, Zenon
      <4> QED
        BY <2>2, <2>5, <3>1, <4>2, Zenon
    <3>2. CASE k # m + 1
      <4>1. k \in 1..m /\ k \in 0..m /\ k - 1 \in 0..m
        BY <3>2
      <4> QED
        BY <2>1, <2>5, <4>1, Zenon
    <3> QED
      BY <3>1, <3>2
  <2>7. h[0] = first /\ m + 1 \in 0..n
    BY <2>1, <2>5
  <2> QED
    BY <2>4, <2>6, <2>7
<1> HIDE DEF T
<1>3. 0..n \subseteq T
  BY <1>1, <1>2, UpTo
<1>4. n \in T
  BY <1>3
<1> QED
  BY <1>4, Zenon DEF T, Stepwise

-----------------------------------------------------------------------------
(* Ephemerides.                                                             *)

\* The ephemerides of the first k of r, as ppeephcvt's loop appends them
IsPushing(r, f) ==
    f = [k \in 0..Len(r.ephs) |->
            IF k = 0 THEN <<>>
            ELSE IF Healthy(r.ephs[k]) THEN Append(f[k - 1], ServerEphemeris(r.sys, r.ephs[k]))
            ELSE f[k - 1]]

Sent(r) == {ServerEphemeris(r.sys, r.ephs[k]) : k \in {i \in 1..Len(r.ephs) : Healthy(r.ephs[i])}}

Pushes(r, f) ==
    /\ f \in [0..Len(r.ephs) -> Seq(Sent(r))] /\ f[0] = <<>>
    /\ \A k \in 1..Len(r.ephs) :
          f[k] = IF Healthy(r.ephs[k]) THEN Append(f[k - 1], ServerEphemeris(r.sys, r.ephs[k])) ELSE f[k - 1]

\* The loop of ppeephcvt has a value after every ephemeris.
LEMMA PushingExists ==
    ASSUME NEW r, Len(r.ephs) \in Nat
    PROVE  \E f : IsPushing(r, f)
<1> DEFINE n == Len(r.ephs)
           D == Seq(Sent(r))
           step == [k \in 1..n |-> [d \in D |->
                      IF Healthy(r.ephs[k]) THEN Append(d, ServerEphemeris(r.sys, r.ephs[k])) ELSE d]]
<1>1. <<>> \in D
  OBVIOUS
<1>2. step \in [1..n -> [D -> D]]
  <2> SUFFICES ASSUME NEW k \in 1..n, NEW d \in D
               PROVE  (IF Healthy(r.ephs[k]) THEN Append(d, ServerEphemeris(r.sys, r.ephs[k])) ELSE d) \in D
    OBVIOUS
  <2>1. CASE Healthy(r.ephs[k])
    <3>1. ServerEphemeris(r.sys, r.ephs[k]) \in Sent(r)
      BY <2>1, Zenon DEF Sent
    <3>2. Append(d, ServerEphemeris(r.sys, r.ephs[k])) \in D
      BY <3>1
    <3> QED
      BY <2>1, <3>2, Zenon
  <2>2. CASE ~Healthy(r.ephs[k])
    BY <2>2, Zenon
  <2> QED
    BY <2>1, <2>2
<1>3. PICK g : Stepwise(D, <<>>, n, step, g)
  <2> HIDE DEF D, step
  <2> QED
    BY <1>1, <1>2, StepByStep, Zenon
<1>4. ASSUME NEW k \in 1..n
      PROVE  g[k] = IF Healthy(r.ephs[k]) THEN Append(g[k - 1], ServerEphemeris(r.sys, r.ephs[k])) ELSE g[k - 1]
  <2>1. k - 1 \in 0..n
    OBVIOUS
  <2>2. g[k - 1] \in D /\ g[k] = step[k][g[k - 1]]
    BY <1>3, <2>1, Zenon DEF Stepwise
  <2> HIDE DEF D
  <2> QED
    BY <2>2, Zenon
<1>5. g = [k \in 0..n |-> IF k = 0 THEN <<>>
                         ELSE IF Healthy(r.ephs[k]) THEN Append(g[k - 1], ServerEphemeris(r.sys, r.ephs[k]))
                         ELSE g[k - 1]]
  <2>1. ASSUME NEW k \in 0..n
        PROVE  g[k] = IF k = 0 THEN <<>>
                      ELSE IF Healthy(r.ephs[k]) THEN Append(g[k - 1], ServerEphemeris(r.sys, r.ephs[k]))
                      ELSE g[k - 1]
    <3>1. CASE k = 0
      BY <1>3, <3>1, Zenon DEF Stepwise
    <3>2. CASE k # 0
      <4>1. k \in 1..n
        BY <3>2
      <4> QED
        BY <1>4, <3>2, <4>1, Zenon
    <3> QED
      BY <3>1, <3>2
  <2>2. g = [k \in 0..n |-> g[k]]
    BY <1>3, Zenon DEF Stepwise
  <2> QED
    BY <2>1, <2>2, Zenon
<1> QED
  BY <1>5, Zenon DEF IsPushing

\* So that what it gives the engine is the last of such values.
LEMMA PushingIs ==
    ASSUME NEW r, Len(r.ephs) \in Nat, r.sys \in DOMAIN FirstWeek
    PROVE  \E f : Pushes(r, f) /\ ppeephcvt(r) = f[Len(r.ephs)]
<1> DEFINE n == Len(r.ephs)
<1>1. PICK f : f = CHOOSE p : IsPushing(r, p)
  OBVIOUS
<1>2. IsPushing(r, f)
  BY <1>1, PushingExists, Zenon
<1>3. ppeephcvt(r) = f[n]
  BY <1>1, Zenon DEF ppeephcvt, IsPushing
<1>4. f[0] = <<>> /\ DOMAIN f = 0..n
  <2>1. 0 \in 0..n
    OBVIOUS
  <2> QED
    BY <1>2, <2>1, Zenon DEF IsPushing
<1>5. ASSUME NEW k \in 1..n
      PROVE  f[k] = IF Healthy(r.ephs[k]) THEN Append(f[k - 1], ServerEphemeris(r.sys, r.ephs[k])) ELSE f[k - 1]
  <2>1. k \in 0..n /\ k # 0
    OBVIOUS
  <2> QED
    BY <1>2, <2>1, Zenon DEF IsPushing
<1> DEFINE T == {k \in 0..n : f[k] \in Seq(Sent(r))}
<1>6. 0 \in T
  BY <1>4
<1>7. ASSUME NEW k \in 0..(n - 1), k \in T PROVE k + 1 \in T
  <2>1. k + 1 \in 1..n /\ (k + 1) - 1 = k
    OBVIOUS
  <2>2. CASE Healthy(r.ephs[k + 1])
    <3>1. ServerEphemeris(r.sys, r.ephs[k + 1]) \in Sent(r)
      BY <2>1, <2>2, Zenon DEF Sent
    <3>2. f[k + 1] = Append(f[k], ServerEphemeris(r.sys, r.ephs[k + 1]))
      BY <1>5, <2>1, <2>2
    <3>3. PICK S : S = Sent(r)
      OBVIOUS
    <3>4. PICK e : e = ServerEphemeris(r.sys, r.ephs[k + 1])
      OBVIOUS
    <3>5. f[k] \in Seq(S) /\ e \in S /\ f[k + 1] = Append(f[k], e)
      BY <1>7, <3>1, <3>2, <3>3, <3>4
    <3>6. f[k + 1] \in Seq(S)
      BY <3>5
    <3> QED
      BY <2>1, <3>3, <3>6
  <2>3. CASE ~Healthy(r.ephs[k + 1])
    <3>1. f[k + 1] = f[k]
      BY <1>5, <2>1, <2>3
    <3> QED
      BY <1>7, <3>1
  <2> QED
    BY <2>2, <2>3
<1>8. \A k \in 0..n : f[k] \in Seq(Sent(r))
  <2> HIDE DEF T
  <2>1. 0..n \subseteq T
    BY <1>6, <1>7, UpTo
  <2> QED
    BY <2>1 DEF T
<1>9. f \in [0..n -> Seq(Sent(r))]
  <2>1. f = [k \in 0..n |-> f[k]]
    BY <1>2, Zenon DEF IsPushing
  <2> QED
    BY <1>8, <2>1, Zenon
<1> QED
  BY <1>3, <1>4, <1>5, <1>9, Zenon DEF Pushes

\* Nothing that was appended is disturbed by what is appended later.
LEMMA PushedStays ==
    ASSUME NEW r, Len(r.ephs) \in Nat, NEW f, Pushes(r, f), NEW k \in 0..Len(r.ephs), NEW m \in k..Len(r.ephs)
    PROVE  Len(f[k]) <= Len(f[m]) /\ \A p \in 1..Len(f[k]) : f[m][p] = f[k][p]
<1> DEFINE n == Len(r.ephs)
           P(i) == Len(f[k]) <= Len(f[i]) /\ \A p \in 1..Len(f[k]) : f[i][p] = f[k][p]
           T == {i \in 0..n : k <= i => P(i)}
<1>1. \A i \in 0..n : f[i] \in Seq(Sent(r)) /\ Len(f[i]) \in Nat
  BY DEF Pushes
<1>2. 0 \in T
  BY <1>1
<1>3. ASSUME NEW i \in 0..(n - 1), i \in T PROVE i + 1 \in T
  <2>1. i + 1 \in 1..n /\ (i + 1) - 1 = i /\ i \in 0..n /\ i + 1 \in 0..n
    OBVIOUS
  <2>2. CASE k <= i
    <3>1. P(i)
      BY <1>3, <2>2
    <3>2. CASE Healthy(r.ephs[i + 1])
      <4>1. PICK e : e = ServerEphemeris(r.sys, r.ephs[i + 1])
        OBVIOUS
      <4>2. f[i + 1] = Append(f[i], e)
        BY <2>1, <3>2, <4>1 DEF Pushes
      <4>3. Len(f[i + 1]) = Len(f[i]) + 1 /\ \A p \in 1..Len(f[i]) : f[i + 1][p] = f[i][p]
        BY <1>1, <2>1, <4>2
      <4>4. P(i + 1)
        BY <1>1, <2>1, <3>1, <4>3
      <4> QED
        BY <2>1, <4>4
    <3>3. CASE ~Healthy(r.ephs[i + 1])
      <4>1. f[i + 1] = f[i]
        BY <2>1, <3>3 DEF Pushes
      <4> QED
        BY <2>1, <3>1, <4>1
    <3> QED
      BY <3>2, <3>3
  <2>3. CASE k = i + 1
    <3>1. P(i + 1)
      BY <1>1, <2>3
    <3> QED
      BY <2>1, <3>1
  <2>4. CASE k > i + 1
    BY <2>1, <2>4
  <2> QED
    BY <2>2, <2>3, <2>4
<1>4. 0..n \subseteq T
  <2> HIDE DEF T
  <2> QED
    BY <1>2, <1>3, UpTo
<1> QED
  BY <1>4

\* The place of a healthy ephemeris among those given to the engine
LEMMA PushedAt ==
    ASSUME NEW r, Len(r.ephs) \in Nat, NEW f, Pushes(r, f), NEW k \in 1..Len(r.ephs), Healthy(r.ephs[k])
    PROVE  /\ Len(f[k]) \in 1..Len(f[Len(r.ephs)])
           /\ f[Len(r.ephs)][Len(f[k])] = ServerEphemeris(r.sys, r.ephs[k])
           /\ \A i \in 1..(k - 1) : Len(f[i]) < Len(f[k])
<1> DEFINE n == Len(r.ephs)
           e == ServerEphemeris(r.sys, r.ephs[k])
<1>1. f[k] = Append(f[k - 1], e)
  BY DEF Pushes
<1>2. k - 1 \in 0..n /\ k \in 0..n /\ n \in k..n
  OBVIOUS
<1>3. \A i \in 0..n : f[i] \in Seq(Sent(r)) /\ Len(f[i]) \in Nat
  BY DEF Pushes
<1>4. Len(f[k]) = Len(f[k - 1]) + 1 /\ f[k][Len(f[k])] = e
  <2> HIDE DEF e
  <2> QED
    BY <1>1, <1>2, <1>3
<1>5. Len(f[k]) <= Len(f[n]) /\ \A p \in 1..Len(f[k]) : f[n][p] = f[k][p]
  BY <1>2, PushedStays
<1>6. ASSUME NEW i \in 1..(k - 1) PROVE Len(f[i]) < Len(f[k])
  <2>1. i \in 0..n /\ k - 1 \in i..n
    OBVIOUS
  <2>2. Len(f[i]) <= Len(f[k - 1])
    BY <2>1, PushedStays
  <2> QED
    BY <1>2, <1>3, <1>4, <2>1, <2>2
<1> HIDE DEF e
<1>7. Len(f[k]) \in 1..Len(f[n])
  BY <1>2, <1>3, <1>4, <1>5
<1>8. Len(f[k]) \in 1..Len(f[k])
  BY <1>7, <1>2, <1>3
<1> QED
  BY <1>4, <1>5, <1>6, <1>7, <1>8 DEF e

\* A time whose weeks are fewer than N comes back from its week, counted modulo N, and its second.
LEMMA WeekAndSecond ==
    ASSUME NEW W \in Nat \ {0}, NEW N \in Nat \ {0}, NEW x \in Nat, x \div W < N
    PROVE  /\ ((x \div W) % N) * W + (x % W) = x
           /\ (x \div W) % N \in Nat
           /\ x % W \in 0..W - 1
<1>1. x \div W \in Nat /\ (x \div W) * W + (x % W) = x /\ x % W \in 0..W - 1
  OBVIOUS
<1>2. PICK q : q = x \div W
  OBVIOUS
<1>3. q \in Nat /\ q % N = q
  BY <1>1, <1>2
<1>4. (x \div W) % N = x \div W
  BY <1>2, <1>3
<1> QED
  BY <1>1, <1>4, Zenon

\* What is made of an ephemeris is of the instant that the receiver means.
Instant(p, sys, e) ==
    LET start == CASE sys = "GPS" -> 0 [] sys = "GAL" -> 1024 [] sys = "BDS" -> 1356
    IN  /\ e.health = 0 /\ p.ID = satidtrs(sys, e.sv)
        /\ p.toe \in 0..SecondsPerWeek - 1
        /\ (p.week - start) * SecondsPerWeek + p.toe = e.toe

\* A time of fewer weeks than 32 bits of seconds have
InTime(toe) == toe \div SecondsPerWeek <= 7101

\* The ephemeris that is made of one is of its instant.
LEMMA InstantKept ==
    ASSUME NEW sys \in {"GPS", "GAL", "BDS"}, NEW e, Healthy(e), e.toe \in Nat, InTime(e.toe)
    PROVE  Instant(ServerEphemeris(sys, e), sys, e)
<1>1. PICK W : W = SecondsPerWeek
  OBVIOUS
<1>2. W \in Nat \ {0}
  BY <1>1 DEF SecondsPerWeek
<1>3. PICK x : x = e.toe
  OBVIOUS
<1>4. /\ ((x \div W) % 65536) * W + (x % W) = x
      /\ (x \div W) % 65536 \in Nat
      /\ x % W \in 0..W - 1
  <2>1. PICK N : N = 65536
    OBVIOUS
  <2>2. N \in Nat \ {0} /\ x \in Nat /\ x \div W < N
    <3>1. x \div W <= 7101
      BY <1>1, <1>3 DEF InTime
    <3> QED
      BY <1>1, <1>2, <1>3, <2>1, <3>1
  <2>3. /\ ((x \div W) % N) * W + (x % W) = x
        /\ (x \div W) % N \in Nat
        /\ x % W \in 0..W - 1
    BY <1>2, <2>2, WeekAndSecond, Zenon
  <2> QED
    BY <2>1, <2>3
<1>5. PICK q : q = (x \div W) % 65536
  OBVIOUS
<1>6. PICK y : y = x % W
  OBVIOUS
<1>7. PICK start : start = CASE sys = "GPS" -> 0 [] sys = "GAL" -> 1024 [] sys = "BDS" -> 1356
  OBVIOUS
<1>8. FirstWeek[sys] = start /\ start \in Nat
  BY <1>7 DEF FirstWeek
<1>9. PICK p : p = ServerEphemeris(sys, e)
  OBVIOUS
<1>10. p.ID = satidtrs(sys, e.sv) /\ p.week = q + start /\ p.toe = y
  BY <1>1, <1>3, <1>5, <1>6, <1>8, <1>9 DEF ServerEphemeris
<1>11. (p.week - start) * W + p.toe = x
  BY <1>4, <1>5, <1>6, <1>8, <1>10, <1>2
<1>12. p.toe \in 0..W - 1 /\ e.health = 0
  BY <1>4, <1>6, <1>10 DEF Healthy
<1>13. /\ e.health = 0 /\ p.ID = satidtrs(sys, e.sv) /\ p.toe \in 0..SecondsPerWeek - 1
       /\ (p.week - start) * SecondsPerWeek + p.toe = e.toe
  BY <1>1, <1>3, <1>10, <1>11, <1>12
<1>14. Instant(p, sys, e)
  BY <1>7, <1>13 DEF Instant
<1> QED
  BY <1>9, <1>14

\* The healthy ephemerides in their order
InOrderOf(r, p) ==
    \A i, k \in 1..Len(r.ephs) :
        i <= k /\ Healthy(r.ephs[i]) /\ Healthy(r.ephs[k]) /\ r.sys \in {"GPS", "GAL", "BDS"} =>
            \E a, b \in 1..Len(p) :
                /\ a <= b /\ (i < k => a < b)
                /\ p[a].ID = satidtrs(r.sys, r.ephs[i].sv) /\ p[b].ID = satidtrs(r.sys, r.ephs[k].sv)

\* Nothing but healthy ephemerides, each of its instant
OnlyHealthy(r, p) ==
    \A a \in 1..Len(p) : \E i \in 1..Len(r.ephs) : Instant(p[a], r.sys, r.ephs[i])

WeekOfLast(r, p, w) == r.sys = "GPS" /\ p # <<>> => w = Last(p).week

EphemeridesInv == ephReport # <<>> =>
                      InOrderOf(ephReport, pushed) /\ OnlyHealthy(ephReport, pushed)
                         /\ WeekOfLast(ephReport, pushed, week)

\* EphemeridesAsSent in its parts
LEMMA EphemeridesInvIs == EphemeridesInv <=> EphemeridesAsSent
BY Zenon DEF EphemeridesInv, EphemeridesAsSent, InOrderOf, OnlyHealthy, WeekOfLast, Instant

\* What ppeephcvt makes of a report is in its order.
LEMMA ConvertedInOrder ==
    ASSUME NEW r \in EphReports
    PROVE  InOrderOf(r, ppeephcvt(r))
<1> DEFINE n == Len(r.ephs)
<1>1. n \in Nat
  BY EphReportsAssumption
<1>2. SUFFICES ASSUME NEW i \in 1..n, NEW k \in 1..n, i <= k, Healthy(r.ephs[i]), Healthy(r.ephs[k]),
                      r.sys \in {"GPS", "GAL", "BDS"}
               PROVE  \E a, b \in 1..Len(ppeephcvt(r)) :
                         /\ a <= b /\ (i < k => a < b)
                         /\ ppeephcvt(r)[a].ID = satidtrs(r.sys, r.ephs[i].sv)
                         /\ ppeephcvt(r)[b].ID = satidtrs(r.sys, r.ephs[k].sv)
  BY Zenon DEF InOrderOf
<1>3. r.sys \in DOMAIN FirstWeek
  BY <1>2 DEF FirstWeek
<1>4. PICK f : Pushes(r, f) /\ ppeephcvt(r) = f[n]
  BY <1>1, <1>3, PushingIs, Zenon
<1>5. /\ Len(f[i]) \in 1..Len(f[n]) /\ f[n][Len(f[i])] = ServerEphemeris(r.sys, r.ephs[i])
  BY <1>1, <1>2, <1>4, PushedAt, Zenon
<1>6. /\ Len(f[k]) \in 1..Len(f[n]) /\ f[n][Len(f[k])] = ServerEphemeris(r.sys, r.ephs[k])
      /\ \A q \in 1..(k - 1) : Len(f[q]) < Len(f[k])
  BY <1>1, <1>2, <1>4, PushedAt, Zenon
<1>7. i < k => Len(f[i]) < Len(f[k])
  <2>1. i < k => i \in 1..(k - 1)
    BY <1>1, <1>2
  <2> QED
    BY <1>6, <2>1, Zenon
<1>8. Len(f[i]) <= Len(f[k])
  <2>1. CASE i < k
    <3>1. f[n] \in Seq(Sent(r))
      BY <1>1, <1>4 DEF Pushes
    <3>2. Len(f[n]) \in Nat
      BY <3>1
    <3> QED
      BY <1>5, <1>6, <1>7, <2>1, <3>2
  <2>2. CASE i = k
    <3>1. f[n] \in Seq(Sent(r))
      BY <1>1, <1>4 DEF Pushes
    <3>2. Len(f[n]) \in Nat
      BY <3>1
    <3> QED
      BY <1>5, <1>6, <2>2, <3>2
  <2> QED
    BY <1>1, <1>2, <2>1, <2>2
<1>9. /\ f[n][Len(f[i])].ID = satidtrs(r.sys, r.ephs[i].sv)
      /\ f[n][Len(f[k])].ID = satidtrs(r.sys, r.ephs[k].sv)
  BY <1>5, <1>6 DEF ServerEphemeris
<1> QED
  BY <1>4, <1>5, <1>6, <1>7, <1>8, <1>9, Zenon

\* And nothing else is made of it.
LEMMA ConvertedOnlyHealthy ==
    ASSUME NEW r \in EphReports
    PROVE  OnlyHealthy(r, ppeephcvt(r))
<1> DEFINE n == Len(r.ephs)
           p == ppeephcvt(r)
<1>1. n \in Nat /\ \A i \in 1..n : r.ephs[i].toe \in Nat /\ InTime(r.ephs[i].toe)
  BY EphReportsAssumption DEF InTime
<1>2. SUFFICES ASSUME NEW a \in 1..Len(p) PROVE \E i \in 1..n : Instant(p[a], r.sys, r.ephs[i])
  BY DEF OnlyHealthy
<1>3. CASE r.sys \in DOMAIN FirstWeek
  <2>1. PICK f : Pushes(r, f) /\ p = f[n]
    BY <1>1, <1>3, PushingIs, Zenon
  <2>2. n \in 0..n
    BY <1>1
  <2>3. p \in Seq(Sent(r))
    BY <2>1, <2>2, Zenon DEF Pushes
  <2>4. p[a] \in Sent(r)
    <3>1. PICK S : S = Sent(r)
      OBVIOUS
    <3>2. PICK q : q = p
      OBVIOUS
    <3>3. q \in Seq(S) /\ a \in 1..Len(q)
      BY <2>3, <3>1, <3>2
    <3> QED
      BY <3>1, <3>2, <3>3
  <2>5. PICK i \in 1..n : Healthy(r.ephs[i]) /\ p[a] = ServerEphemeris(r.sys, r.ephs[i])
    BY <2>4 DEF Sent
  <2>6. r.sys \in {"GPS", "GAL", "BDS"}
    BY <1>3 DEF FirstWeek
  <2>7. Instant(ServerEphemeris(r.sys, r.ephs[i]), r.sys, r.ephs[i])
    BY <1>1, <2>5, <2>6, InstantKept
  <2> QED
    BY <2>5, <2>7
<1>4. CASE r.sys \notin DOMAIN FirstWeek
  <2>1. p = <<>>
    BY <1>4, Zenon DEF ppeephcvt
  <2>2. 1..Len(p) = {}
    BY <2>1
  <2> QED
    BY <2>2
<1> QED
  BY <1>3, <1>4

\* The ephemerides given to the engine, and the week, are those of the last report at every step.
LEMMA EphemeridesStep == EphemeridesInv /\ [ConvertNext]_convertVars => EphemeridesInv'
<1> SUFFICES ASSUME EphemeridesInv, [ConvertNext]_convertVars PROVE EphemeridesInv'
  OBVIOUS
<1>1. ASSUME NEW r \in EphReports, parseEphemeris(r) PROVE EphemeridesInv'
  <2>1. pushed' = ppeephcvt(r) /\ ephReport' = r
    BY <1>1, Zenon DEF parseEphemeris
  <2>2. InOrderOf(r, pushed') /\ OnlyHealthy(r, pushed')
    BY <2>1, ConvertedInOrder, ConvertedOnlyHealthy, Zenon
  <2>3. WeekOfLast(r, pushed', week')
    BY <1>1, Zenon DEF parseEphemeris, WeekOfLast
  <2> QED
    BY <2>1, <2>2, <2>3, Zenon DEF EphemeridesInv
<1>2. ASSUME UNCHANGED <<pushed, week, ephReport>> PROVE EphemeridesInv'
  BY <1>2, Zenon DEF EphemeridesInv
<1>3. ASSUME NEW r \in Reports, parseMeasurement(r) PROVE EphemeridesInv'
  BY <1>2, <1>3, Zenon DEF parseMeasurement
<1>4. ASSUME NEW res \in Results, RtkReport(res) PROVE EphemeridesInv'
  BY <1>2, <1>4, Zenon DEF RtkReport
<1>5. CASE UNCHANGED convertVars
  BY <1>2, <1>5, Zenon DEF convertVars
<1> QED
  BY <1>1, <1>3, <1>4, <1>5, Zenon DEF ConvertNext

\* EphemeridesAsSent in every behaviour: what ppeephcvt gives the engine for a report are its healthy
\* ephemerides in their order, each of the instant of GPS time that the receiver means, and the week
\* of the reports of positions is that of the last of GPS.
THEOREM EphemeridesArrive == ConvertSpec => []EphemeridesAsSent
<1>1. ConvertInit => EphemeridesInv
  BY Zenon DEF ConvertInit, EphemeridesInv
<1>2. EphemeridesInv /\ [ConvertNext]_convertVars => EphemeridesInv'
  BY EphemeridesStep
<1>3. EphemeridesInv => EphemeridesAsSent
  BY EphemeridesInvIs
<1> QED
  BY <1>1, <1>2, <1>3, PTL DEF ConvertSpec

-----------------------------------------------------------------------------
(* Names and wave lengths.                                                  *)

IdOf(m) == satidtrs(m.sys, m.sv)

\* A name of the receiver has one of the engine, or 0.
LEMMA NameKnown == ASSUME NEW sys, NEW sat PROVE satidtrs(sys, sat) \in Ids \cup {0}
<1>1. CASE sys \notin System \/ sat \notin FirstSat[sys]..LastSat[sys]
  BY <1>1 DEF satidtrs
<1>2. CASE ~(sys \notin System \/ sat \notin FirstSat[sys]..LastSat[sys])
  <2>1. PICK id : id = sat + (FirstId[sys] - FirstSat[sys])
    OBVIOUS
  <2>2. sys \in System /\ FirstId[sys] \in Int /\ LastId[sys] \in Int /\ FirstSat[sys] \in Int /\ LastSat[sys] \in Int
    BY <1>2 DEF System, FirstId, LastId, FirstSat, LastSat
  <2>3. id \in Int /\ FirstId[sys] <= id
    BY <1>2, <2>1, <2>2
  <2>4. satidtrs(sys, sat) = IF id > LastId[sys] THEN 0 ELSE id
    BY <1>2, <2>1, Zenon DEF satidtrs
  <2>5. CASE id > LastId[sys]
    BY <2>4, <2>5
  <2>6. CASE ~(id > LastId[sys])
    <3>1. id \in FirstId[sys]..LastId[sys]
      BY <2>2, <2>3, <2>6
    <3>2. id \in Ids
      BY <2>2, <3>1, Zenon DEF Ids
    <3> QED
      BY <2>4, <2>6, <3>2
  <2> QED
    BY <2>5, <2>6
<1> QED
  BY <1>1, <1>2

\* 0 is the name of none.
LEMMA ZeroIsNoName == 0 \notin Ids /\ \A id \in Ids : id \in Nat /\ id # 0
BY DEF Ids, System, FirstId, LastId

\* Every satellite is of a system.
LEMMA SystemOf == ASSUME NEW id \in Ids PROVE satsys(id) \in System
<1> DEFINE P(s) == id <= LastId[s] /\ \A t \in System : id <= LastId[t] => LastId[s] <= LastId[t]
<1>1. id \in Nat /\ id <= 203
  BY DEF Ids, System, FirstId, LastId
<1>2. CASE id <= 37
  BY <1>1, <1>2 DEF satsys, System, LastId
<1>3. CASE id > 37 /\ id <= 61
  BY <1>1, <1>3 DEF satsys, System, LastId
<1>4. CASE id > 61 /\ id <= 106
  BY <1>1, <1>4 DEF satsys, System, LastId
<1>5. CASE id > 106
  BY <1>1, <1>5 DEF satsys, System, LastId
<1> QED
  BY <1>1, <1>2, <1>3, <1>4, <1>5

\* A wave has a length.
LEMMA WaveOf == ASSUME NEW id \in Ids, NEW b \in Band PROVE satwavelen(id, b) \in Nat \ {0}
BY SystemOf, ConvertAssumption, Zenon DEF satwavelen

-----------------------------------------------------------------------------
(* The slot of a measurement, and what is stored there.                     *)

SmoothRecord == [R : Int, L : Int, lli : Int, count : Nat]
Observation(S) == [R : Int, L : Int, D : Int, slip : S]
SlotRecord(S) == [id : Ids \cup {0}, obs : [Band -> Observation(S)]]

\* Slots, smoothed codes and the last slot while a report is stored; S has the marks of lost carriers
Accumulators(S) ==
    {a \in [slots : [1..MaxSat -> SlotRecord(S)], smooth : [Ids -> SmoothRecord], j : 0..MaxSat] :
        a.j = 0 => a.slots[1].id = 0}

Measurement(m, S) == m.code \in Int /\ m.phase \in Int /\ m.doppler \in Int /\ m.slips \in Int /\ m.lost \in S

Smoothing(m) == sigtype(m.sig) = "L1" /\ logConfig.psrType # 0

LimitOK == logConfig.psrType # 0 => logConfig.smoothCnt \in Nat \ {0}

\* The slot searched for is one that has the satellite or none, the first of these, if there is one.
LEMMA SearchIs ==
    ASSUME NEW S, NEW a \in Accumulators(S), NEW sat
    PROVE  LET j == searchsat(a.slots, sat, a.j)
               fit == {i \in 1..MaxSat : a.slots[i].id \in {sat, 0}}
           IN  j \in 1..MaxSat /\ (fit # {} => j \in fit /\ \A i \in fit : j <= i)
<1> DEFINE fit == {i \in 1..MaxSat : a.slots[i].id \in {sat, 0}}
           j == searchsat(a.slots, sat, a.j)
<1>1. MaxSat \in Nat \ {0}
  BY ConvertAssumption
<1>2. CASE fit = {}
  <2>1. j = a.j
    BY <1>2, Zenon DEF searchsat
  <2>2. a.j \in 0..MaxSat /\ (a.j = 0 => a.slots[1].id = 0)
    BY Zenon DEF Accumulators
  <2>3. a.j # 0
    <3>1. 1 \in 1..MaxSat
      BY <1>1
    <3> QED
      BY <1>2, <2>2, <3>1
  <2>4. a.j \in 1..MaxSat
    BY <1>1, <2>2, <2>3
  <2> HIDE DEF fit
  <2> QED
    BY <1>2, <2>1, <2>4, Zenon DEF fit
<1>3. CASE fit # {}
  <2>1. j = CHOOSE x \in fit : \A y \in fit : x <= y
    BY <1>3, Zenon DEF searchsat, Min
  <2>2. fit \in SUBSET Nat /\ fit \subseteq 1..MaxSat
    BY <1>1
  <2> HIDE DEF fit
  <2>3. \E x \in fit : \A y \in fit : x <= y
    BY <1>3, <2>2, LeastNat
  <2>4. j \in fit /\ \A y \in fit : j <= y
    BY <2>1, <2>3, Zenon
  <2> QED
    BY <2>2, <2>4 DEF fit
<1> QED
  BY <1>2, <1>3

\* A smoothed code is a whole number, as is the counter.
LEMMA SmoothedType ==
    ASSUME LimitOK, logConfig.psrType # 0, NEW s \in SmoothRecord, NEW wave \in Nat \ {0},
           NEW m, m.code \in Int, m.phase \in Int, m.slips \in Int
    PROVE  Smoothed(s, m, wave) \in SmoothRecord
<1>1. PICK M : M = Weight(s)
  OBVIOUS
<1>2. M \in Nat \ {0}
  <2>1. logConfig.smoothCnt \in Nat \ {0}
    BY Zenon DEF LimitOK
  <2>2. s.count \in Nat
    BY DEF SmoothRecord
  <2> QED
    BY <1>1, <2>1, <2>2 DEF Weight
<1>3. PICK z : z = m.code + (M - 1) * (s.R + (m.phase - s.L) * wave)
  OBVIOUS
<1>4. s.R \in Int /\ s.L \in Int /\ s.count \in Nat
  BY DEF SmoothRecord
<1>5. z \in Int
  <2>1. PICK y \in Int : y = (m.phase - s.L) * wave
    BY <1>4
  <2>2. PICK v \in Int : v = s.R + y
    BY <1>4
  <2>3. (M - 1) * v \in Int
    BY <1>2
  <2>4. z = m.code + (M - 1) * v
    BY <1>3, <2>1, <2>2, Zenon
  <2> QED
    BY <2>3, <2>4
<1>6. z \div M \in Int
  BY <1>2, <1>5
<1>7. PICK R : R = z \div M
  OBVIOUS
<1>8. PICK keeps : keeps = (s.lli = m.slips /\ s.L # 0 /\ ~(R - m.code > 20 * Metre \/ m.code - R > 20 * Metre))
  OBVIOUS
<1>9. Smoothed(s, m, wave) = [R |-> IF keeps THEN R ELSE m.code, L |-> m.phase, lli |-> m.slips,
                              count |-> IF keeps THEN s.count + 1 ELSE 1]
  BY <1>1, <1>3, <1>7, <1>8, Zenon DEF Smoothed
<1>10. (IF keeps THEN R ELSE m.code) \in Int /\ (IF keeps THEN s.count + 1 ELSE 1) \in Nat
  BY <1>4, <1>6, <1>7
<1> QED
  BY <1>9, <1>10 DEF SmoothRecord

\* The satellite of the slot that a measurement goes to
HolderOf(a, m) ==
    Named(a.slots[searchsat(a.slots, IdOf(m), a.j)], IdOf(m)).id

\* The observation that is made of a measurement
ObsOf(a, m, id) ==
    Obs(IF Smoothing(m) THEN Smoothed(a.smooth[id], m, satwavelen(id, "L1")).R ELSE m.code, m)

\* What a measurement changes: after is a with m in slot j, for satellite id.
Stores(a, m, j, id, after) ==
    /\ after.j = j
    /\ after.slots = [a.slots EXCEPT ![j] =
          [id |-> id,
           obs |-> [b \in Band |-> IF b = sigtype(m.sig) /\ Stored(b) THEN ObsOf(a, m, id) ELSE a.slots[j].obs[b]]]]
    /\ after.smooth = IF Smoothing(m)
                      THEN [a.smooth EXCEPT ![id] = Smoothed(a.smooth[id], m, satwavelen(id, "L1"))]
                      ELSE a.smooth
    /\ after = [slots |-> after.slots, smooth |-> after.smooth, j |-> after.j]

\* Storing a measurement puts it into the slot searched for, for the satellite of that slot.
LEMMA StoreIs ==
    ASSUME NEW S, NEW a \in Accumulators(S), NEW m, IdOf(m) # 0
    PROVE  Stores(a, m, searchsat(a.slots, IdOf(m), a.j), HolderOf(a, m), Store(a, m))
<1>1. PICK id : id = IdOf(m)
  OBVIOUS
<1>2. PICK j : j = searchsat(a.slots, id, a.j)
  OBVIOUS
<1>3. j \in 1..MaxSat
  BY <1>2, SearchIs
<1>4. a.slots \in [1..MaxSat -> SlotRecord(S)] /\ a.slots[j] \in SlotRecord(S)
  BY <1>3, Zenon DEF Accumulators
<1>5. a.slots[j].obs \in [Band -> Observation(S)]
  BY <1>4 DEF SlotRecord
<1>6. PICK named : named = Named(a.slots[j], id)
  OBVIOUS
<1>7. PICK sid : sid = named.id
  OBVIOUS
<1>8. HolderOf(a, m) = sid
  BY <1>1, <1>2, <1>6, <1>7, Zenon DEF HolderOf
<1>9. named.obs = a.slots[j].obs
  BY <1>6 DEF Named
<1>10. PICK b0 : b0 = [slots |-> [a.slots EXCEPT ![j] = named], smooth |-> a.smooth, j |-> j]
  OBVIOUS
<1>11. Store(a, m) = obscvt(b0, m, j)
  BY <1>1, <1>2, <1>6, <1>10, Zenon DEF Store, IdOf
<1>12. b0.slots = [a.slots EXCEPT ![j] = named] /\ b0.smooth = a.smooth /\ b0.j = j
  BY <1>10
<1>13. b0.slots[j] = named
  BY <1>3, <1>4, <1>12, Zenon
<1>14. PICK band : band = sigtype(m.sig)
  OBVIOUS
<1>15. CASE ~Stored(band)
  <2>1. Store(a, m) = b0
    BY <1>11, <1>14, <1>15, Zenon DEF obscvt
  <2>2. named = [id |-> sid, obs |-> named.obs]
    BY <1>6, <1>7 DEF Named
  <2>3. named.obs = [b \in Band |-> IF b = band /\ Stored(b) THEN ObsOf(a, m, sid) ELSE a.slots[j].obs[b]]
    <3>1. \A b \in Band : (IF b = band /\ Stored(b) THEN ObsOf(a, m, sid) ELSE a.slots[j].obs[b]) = a.slots[j].obs[b]
      BY <1>15, Zenon
    <3>2. a.slots[j].obs = [b \in Band |-> a.slots[j].obs[b]]
      BY <1>5, Zenon
    <3> QED
      BY <1>9, <3>1, <3>2, Zenon
  <2>4. ~Smoothing(m)
    BY <1>14, <1>15, Zenon DEF Smoothing, Stored
  <2> QED
    BY <1>1, <1>2, <1>8, <1>10, <1>12, <1>14, <2>1, <2>2, <2>3, <2>4, Zenon DEF Stores
<1>16. CASE Stored(band)
  <2>1. band \in Band
    <3>1. band \in {"L1", "L2", "L3", "none"}
      BY <1>14, Zenon DEF sigtype
    <3>2. band # "none"
      BY <1>16 DEF Stored
    <3> QED
      BY <3>1, <3>2 DEF Band
  <2>2. PICK s : s = Smoothed(a.smooth[sid], m, satwavelen(sid, band))
    OBVIOUS
  <2>3. PICK o : o = Obs(IF band = "L1" /\ logConfig.psrType # 0 THEN s.R ELSE m.code, m)
    OBVIOUS
  <2>4. Store(a, m) = [slots |-> [b0.slots EXCEPT ![j] = Put(@, band, o)], j |-> b0.j,
                       smooth |-> IF band = "L1" /\ logConfig.psrType # 0 THEN [b0.smooth EXCEPT ![sid] = s] ELSE b0.smooth]
    BY <1>7, <1>11, <1>12, <1>13, <1>14, <1>16, <2>2, <2>3, Zenon DEF obscvt
  <2>5. Smoothing(m) <=> band = "L1" /\ logConfig.psrType # 0
    BY <1>14, Zenon DEF Smoothing
  <2>6. Smoothing(m) => s = Smoothed(a.smooth[sid], m, satwavelen(sid, "L1"))
    BY <2>2, <2>5, Zenon
  <2>7. o = ObsOf(a, m, sid)
    <3>1. CASE Smoothing(m)
      BY <2>3, <2>5, <2>6, <3>1, Zenon DEF ObsOf
    <3>2. CASE ~Smoothing(m)
      BY <2>3, <2>5, <3>2, Zenon DEF ObsOf
    <3> QED
      BY <3>1, <3>2
  <2>8. Put(named, band, o) =
           [id |-> sid,
            obs |-> [b \in Band |-> IF b = band /\ Stored(b) THEN ObsOf(a, m, sid) ELSE a.slots[j].obs[b]]]
    <3>1. [named.obs EXCEPT ![band] = o] =
             [b \in Band |-> IF b = band /\ Stored(b) THEN ObsOf(a, m, sid) ELSE a.slots[j].obs[b]]
      <4>1. \A b \in Band : [named.obs EXCEPT ![band] = o][b] =
                               IF b = band /\ Stored(b) THEN ObsOf(a, m, sid) ELSE a.slots[j].obs[b]
        BY <1>5, <1>9, <1>16, <2>1, <2>7, Zenon
      <4>2. [named.obs EXCEPT ![band] = o] = [b \in Band |-> [named.obs EXCEPT ![band] = o][b]]
        BY <1>5, <1>9, Zenon
      <4> QED
        BY <4>1, <4>2, Zenon
    <3> QED
      BY <1>7, <3>1, Zenon DEF Put
  <2>9. [b0.slots EXCEPT ![j] = Put(@, band, o)] = [a.slots EXCEPT ![j] = Put(named, band, o)]
    BY <1>3, <1>4, <1>12
  <2>10. Store(a, m).j = j /\ Store(a, m).slots = [a.slots EXCEPT ![j] = Put(named, band, o)]
         /\ Store(a, m).smooth = (IF Smoothing(m) THEN [a.smooth EXCEPT ![sid] = s] ELSE a.smooth)
         /\ Store(a, m) = [slots |-> Store(a, m).slots, smooth |-> Store(a, m).smooth, j |-> Store(a, m).j]
    <3>1. PICK st : st = Store(a, m)
      OBVIOUS
    <3>2. PICK sl : sl = [b0.slots EXCEPT ![j] = Put(@, band, o)]
      OBVIOUS
    <3>3. PICK sm : sm = (IF band = "L1" /\ logConfig.psrType # 0 THEN [b0.smooth EXCEPT ![sid] = s] ELSE b0.smooth)
      OBVIOUS
    <3>4. st = [slots |-> sl, j |-> j, smooth |-> sm]
      BY <1>12, <2>4, <3>1, <3>2, <3>3, Zenon
    <3>5. st.slots = sl /\ st.j = j /\ st.smooth = sm /\ st = [slots |-> st.slots, smooth |-> st.smooth, j |-> st.j]
      BY <3>4
    <3>6. sm = (IF Smoothing(m) THEN [a.smooth EXCEPT ![sid] = s] ELSE a.smooth)
      BY <1>12, <2>5, <3>3, Zenon
    <3> QED
      BY <2>9, <3>1, <3>2, <3>5, <3>6, Zenon
  <2>11. PICK st : st = Store(a, m)
    OBVIOUS
  <2>12. st.smooth = (IF Smoothing(m) THEN [a.smooth EXCEPT ![sid] = Smoothed(a.smooth[sid], m, satwavelen(sid, "L1"))]
                      ELSE a.smooth)
    <3>1. CASE Smoothing(m)
      BY <2>6, <2>10, <2>11, <3>1, Zenon
    <3>2. CASE ~Smoothing(m)
      BY <2>10, <2>11, <3>2, Zenon
    <3> QED
      BY <3>1, <3>2
  <2>13. st.slots = [a.slots EXCEPT ![j] = Put(named, band, o)] /\ st.j = j
         /\ st = [slots |-> st.slots, smooth |-> st.smooth, j |-> st.j]
    BY <2>10, <2>11, Zenon
  <2>14. Stores(a, m, j, sid, st)
    BY <1>14, <2>8, <2>12, <2>13, Zenon DEF Stores
  <2> QED
    BY <1>1, <1>2, <1>8, <2>11, <2>14, Zenon
<1> QED
  BY <1>15, <1>16

\* Storing a measurement leaves slots, smoothed codes and the last slot what they should be.
LEMMA StoreClosed ==
    ASSUME LimitOK, NEW S, NEW a \in Accumulators(S), NEW m, Measurement(m, S)
    PROVE  Store(a, m) \in Accumulators(S)
<1>1. CASE IdOf(m) = 0
  BY <1>1, Zenon DEF Store, IdOf
<1>2. CASE IdOf(m) # 0
  <2>1. PICK j : j = searchsat(a.slots, IdOf(m), a.j)
    OBVIOUS
  <2>2. PICK id : id = HolderOf(a, m)
    OBVIOUS
  <2>3. PICK st : st = Store(a, m)
    OBVIOUS
  <2>4. Stores(a, m, j, id, st)
    BY <1>2, <2>1, <2>2, <2>3, StoreIs, Zenon
  <2>5. j \in 1..MaxSat /\ j \in 0..MaxSat /\ j # 0
    <3>1. j \in 1..MaxSat
      BY <2>1, SearchIs
    <3>2. MaxSat \in Nat
      BY ConvertAssumption
    <3> QED
      BY <3>1, <3>2
  <2>6. a.slots \in [1..MaxSat -> SlotRecord(S)] /\ a.slots[j] \in SlotRecord(S) /\ a.smooth \in [Ids -> SmoothRecord]
    BY <2>5, Zenon DEF Accumulators
  <2>7. id \in Ids
    <3>1. IdOf(m) \in Ids
      BY <1>2, NameKnown, Zenon DEF IdOf
    <3>2. a.slots[j].id \in Ids \cup {0}
      BY <2>6 DEF SlotRecord
    <3>3. id = (IF a.slots[j].id = 0 THEN IdOf(m) ELSE a.slots[j].id)
      BY <2>1, <2>2 DEF HolderOf, Named
    <3> QED
      BY <3>1, <3>2, <3>3
  <2>8. Smoothing(m) => Smoothed(a.smooth[id], m, satwavelen(id, "L1")) \in SmoothRecord
    <3> SUFFICES ASSUME Smoothing(m) PROVE Smoothed(a.smooth[id], m, satwavelen(id, "L1")) \in SmoothRecord
      OBVIOUS
    <3>1. logConfig.psrType # 0
      BY Zenon DEF Smoothing
    <3>2. a.smooth[id] \in SmoothRecord
      BY <2>6, <2>7, Zenon
    <3>3. satwavelen(id, "L1") \in Nat \ {0}
      <4>1. "L1" \in Band
        BY DEF Band
      <4> QED
        BY <2>7, <4>1, WaveOf, Zenon
    <3>4. m.code \in Int /\ m.phase \in Int /\ m.slips \in Int
      BY Zenon DEF Measurement
    <3> QED
      BY <3>1, <3>2, <3>3, <3>4, SmoothedType, Zenon
  <2>9. ObsOf(a, m, id) \in Observation(S)
    <3>1. m.code \in Int /\ m.phase \in Int /\ m.doppler \in Int /\ m.lost \in S
      BY Zenon DEF Measurement
    <3>2. PICK code : code = (IF Smoothing(m) THEN Smoothed(a.smooth[id], m, satwavelen(id, "L1")).R ELSE m.code)
      OBVIOUS
    <3>3. code \in Int
      <4>1. CASE Smoothing(m)
        <5>1. PICK s : s = Smoothed(a.smooth[id], m, satwavelen(id, "L1"))
          OBVIOUS
        <5>2. s \in SmoothRecord
          BY <2>8, <4>1, <5>1, Zenon
        <5>3. s.R \in Int
          BY <5>2 DEF SmoothRecord
        <5> QED
          BY <3>2, <4>1, <5>1, <5>3, Zenon
      <4>2. CASE ~Smoothing(m)
        BY <3>1, <3>2, <4>2, Zenon
      <4> QED
        BY <4>1, <4>2
    <3>4. ObsOf(a, m, id) = [R |-> code, L |-> m.phase, D |-> m.doppler, slip |-> m.lost]
      BY <3>2, Zenon DEF ObsOf, Obs
    <3> QED
      <4>1. [R |-> code, L |-> m.phase, D |-> m.doppler, slip |-> m.lost] \in Observation(S)
        BY <3>1, <3>3 DEF Observation
      <4> QED
        BY <3>4, <4>1
  <2>10. PICK slot : slot = [id |-> id,
             obs |-> [b \in Band |-> IF b = sigtype(m.sig) /\ Stored(b) THEN ObsOf(a, m, id) ELSE a.slots[j].obs[b]]]
    OBVIOUS
  <2>11. slot \in SlotRecord(S)
    <3>1. a.slots[j].obs \in [Band -> Observation(S)]
      BY <2>6 DEF SlotRecord
    <3>2. [b \in Band |-> IF b = sigtype(m.sig) /\ Stored(b) THEN ObsOf(a, m, id) ELSE a.slots[j].obs[b]]
             \in [Band -> Observation(S)]
      BY <2>9, <3>1, Zenon
    <3>3. id \in Ids \cup {0}
      BY <2>7
    <3> QED
      BY <2>10, <3>2, <3>3, Zenon DEF SlotRecord
  <2>12. st.slots \in [1..MaxSat -> SlotRecord(S)]
    <3>1. st.slots = [a.slots EXCEPT ![j] = slot]
      BY <2>4, <2>10, Zenon DEF Stores
    <3> QED
      BY <2>5, <2>6, <2>11, <3>1, Zenon
  <2>13. st.smooth \in [Ids -> SmoothRecord]
    <3>1. CASE Smoothing(m)
      <4>1. st.smooth = [a.smooth EXCEPT ![id] = Smoothed(a.smooth[id], m, satwavelen(id, "L1"))]
        BY <2>4, <3>1, Zenon DEF Stores
      <4> QED
        BY <2>6, <2>7, <2>8, <3>1, <4>1, Zenon
    <3>2. CASE ~Smoothing(m)
      BY <2>4, <2>6, <3>2, Zenon DEF Stores
    <3> QED
      BY <3>1, <3>2
  <2>14. st.j = j /\ st = [slots |-> st.slots, smooth |-> st.smooth, j |-> st.j]
    BY <2>4, Zenon DEF Stores
  <2>15. st \in Accumulators(S)
    BY <2>5, <2>12, <2>13, <2>14, Zenon DEF Accumulators
  <2> QED
    BY <2>3, <2>15, Zenon
<1> QED
  BY <1>1, <1>2

IsStoring(r, f) ==
    f = [k \in 0..Len(r.meas) |-> IF k = 0 THEN [slots |-> init_wobs.slots, smooth |-> smooth, j |-> 0]
                                  ELSE Store(f[k - 1], r.meas[k])]

Marks(r) == {FALSE} \cup {r.meas[k].lost : k \in 1..Len(r.meas)}

Measured(r) == Len(r.meas) \in Nat /\ \A k \in 1..Len(r.meas) : Measurement(r.meas[k], Marks(r))

StoresAll(r, f) ==
    /\ f \in [0..Len(r.meas) -> Accumulators(Marks(r))]
    /\ f[0] = [slots |-> init_wobs.slots, smooth |-> smooth, j |-> 0]
    /\ \A k \in 1..Len(r.meas) : f[k] = Store(f[k - 1], r.meas[k])

\* What a report has is measured in whole units.
LEMMA ReportMeasured == ASSUME NEW r \in Reports PROVE Measured(r)
<1>1. Len(r.meas) \in Nat
      /\ \A k \in 1..Len(r.meas) : /\ r.meas[k].code \in Int /\ r.meas[k].phase \in Int /\ r.meas[k].doppler \in Int
                                   /\ r.meas[k].slips \in Int
  BY ReportsAssumption, Zenon
<1>2. \A k \in 1..Len(r.meas) : r.meas[k].lost \in Marks(r)
  BY Zenon DEF Marks
<1> QED
  BY <1>1, <1>2, Zenon DEF Measured, Measurement

\* Before the first measurement all slots are free.
LEMMA NothingStored ==
    ASSUME smooth \in [Ids -> SmoothRecord], NEW r
    PROVE  [slots |-> init_wobs.slots, smooth |-> smooth, j |-> 0] \in Accumulators(Marks(r))
<1>1. init_wobs.slots = [i \in 1..MaxSat |-> NoSlot]
  BY DEF init_wobs, Zero
<1>2. NoSlot \in SlotRecord(Marks(r)) /\ NoSlot.id = 0
  <2>1. FALSE \in Marks(r)
    BY Zenon DEF Marks
  <2>2. 0 \in Int
    OBVIOUS
  <2>3. Unmeasured \in Observation(Marks(r))
    BY <2>1, <2>2, Zenon DEF Unmeasured, Observation
  <2>4. [b \in Band |-> Unmeasured] \in [Band -> Observation(Marks(r))]
    BY <2>3, Zenon
  <2>5. 0 \in Ids \cup {0}
    OBVIOUS
  <2> QED
    BY <2>4, <2>5, Zenon DEF NoSlot, SlotRecord
<1>3. 1 \in 1..MaxSat /\ 0 \in 0..MaxSat
  BY ConvertAssumption
<1>4. PICK sl : sl = init_wobs.slots
  OBVIOUS
<1>5. sl \in [1..MaxSat -> SlotRecord(Marks(r))] /\ sl[1].id = 0
  BY <1>1, <1>2, <1>3, <1>4, Zenon
<1>6. PICK a : a = [slots |-> sl, smooth |-> smooth, j |-> 0]
  OBVIOUS
<1>7. a.slots = sl /\ a.smooth = smooth /\ a.j = 0
  BY <1>6
<1>8. a \in [slots : [1..MaxSat -> SlotRecord(Marks(r))], smooth : [Ids -> SmoothRecord], j : 0..MaxSat]
  BY <1>3, <1>5, <1>6, Zenon
<1>9. a \in Accumulators(Marks(r))
  BY <1>5, <1>7, <1>8, Zenon DEF Accumulators
<1> QED
  BY <1>4, <1>6, <1>9, Zenon

\* The loop of obsqumcom has slots and smoothed codes after every measurement.
LEMMA StoringExists ==
    ASSUME LimitOK, smooth \in [Ids -> SmoothRecord], NEW r, Measured(r)
    PROVE  \E f : IsStoring(r, f)
<1> DEFINE n == Len(r.meas)
           D == Accumulators(Marks(r))
           first == [slots |-> init_wobs.slots, smooth |-> smooth, j |-> 0]
           step == [k \in 1..n |-> [d \in D |-> Store(d, r.meas[k])]]
<1>1. n \in Nat /\ \A k \in 1..n : Measurement(r.meas[k], Marks(r))
  BY Zenon DEF Measured
<1>2. first \in D
  BY NothingStored, Zenon
<1>3. step \in [1..n -> [D -> D]]
  <2> SUFFICES ASSUME NEW k \in 1..n, NEW d \in D PROVE Store(d, r.meas[k]) \in D
    OBVIOUS
  <2> QED
    BY <1>1, StoreClosed, Zenon
<1>4. PICK g : Stepwise(D, first, n, step, g)
  <2> HIDE DEF D, step, first
  <2> QED
    BY <1>1, <1>2, <1>3, StepByStep, Zenon
<1>5. ASSUME NEW k \in 1..n
      PROVE  g[k] = Store(g[k - 1], r.meas[k])
  <2>1. k - 1 \in 0..n
    BY <1>1
  <2>2. g[k - 1] \in D /\ g[k] = step[k][g[k - 1]]
    BY <1>4, <2>1, Zenon DEF Stepwise
  <2> HIDE DEF D
  <2> QED
    BY <2>2, Zenon
<1>6. ASSUME NEW k \in 0..n
      PROVE  g[k] = IF k = 0 THEN first ELSE Store(g[k - 1], r.meas[k])
  <2> HIDE DEF first
  <2>1. CASE k = 0
    BY <1>4, <2>1, Zenon DEF Stepwise
  <2>2. CASE k # 0
    <3>1. k \in 1..n
      BY <1>1, <2>2
    <3> QED
      BY <1>5, <2>2, <3>1, Zenon
  <2> QED
    BY <2>1, <2>2
<1>7. g = [k \in 0..n |-> g[k]]
  BY <1>4, Zenon DEF Stepwise
<1>8. g = [k \in 0..n |-> IF k = 0 THEN first ELSE Store(g[k - 1], r.meas[k])]
  <2> HIDE DEF first
  <2> QED
    BY <1>6, <1>7, Zenon
<1> QED
  BY <1>8, Zenon DEF IsStoring

\* So that they are what the steps make of them.
LEMMA StoringIs ==
    ASSUME LimitOK, smooth \in [Ids -> SmoothRecord], NEW r, Measured(r)
    PROVE  StoresAll(r, Storing(r))
<1> DEFINE n == Len(r.meas)
           D == Accumulators(Marks(r))
<1>1. PICK f : f = Storing(r)
  OBVIOUS
<1>2. IsStoring(r, f)
  <2>1. f = CHOOSE p : IsStoring(r, p)
    BY <1>1, Zenon DEF Storing, IsStoring
  <2> QED
    BY <2>1, StoringExists, Zenon
<1>3. n \in Nat /\ \A k \in 1..n : Measurement(r.meas[k], Marks(r))
  BY Zenon DEF Measured
<1>4. f[0] = [slots |-> init_wobs.slots, smooth |-> smooth, j |-> 0] /\ f = [k \in 0..n |-> f[k]]
  <2>1. 0 \in 0..n
    BY <1>3
  <2> QED
    BY <1>2, <2>1, Zenon DEF IsStoring
<1>5. ASSUME NEW k \in 1..n PROVE f[k] = Store(f[k - 1], r.meas[k])
  <2>1. k \in 0..n /\ k # 0
    BY <1>3
  <2> QED
    BY <1>2, <2>1, Zenon DEF IsStoring
<1> DEFINE T == {k \in 0..n : f[k] \in D}
<1>6. 0 \in T
  <2>1. 0 \in 0..n
    BY <1>3
  <2> QED
    BY <1>4, <2>1, NothingStored, Zenon
<1>7. ASSUME NEW k \in 0..(n - 1), k \in T PROVE k + 1 \in T
  <2>1. k + 1 \in 1..n /\ (k + 1) - 1 = k /\ k + 1 \in 0..n
    BY <1>3
  <2>2. f[k + 1] = Store(f[k], r.meas[k + 1])
    BY <1>5, <2>1
  <2>3. f[k] \in D
    BY <1>7, Zenon
  <2> QED
    BY <1>3, <2>1, <2>2, <2>3, StoreClosed, Zenon
<1>8. 0..n \subseteq T
  <2> HIDE DEF T
  <2> QED
    BY <1>3, <1>6, <1>7, UpTo
<1>9. f \in [0..n -> D]
  <2>1. \A k \in 0..n : f[k] \in D
    <3> HIDE DEF D
    <3> QED
      BY <1>8, Zenon
  <2> QED
    BY <1>4, <2>1, Zenon
<1> QED
  BY <1>1, <1>4, <1>5, <1>9, Zenon DEF StoresAll

-----------------------------------------------------------------------------
(* The slots after the first measurements of a report.                      *)

\* Satellites of the first k measurements, and which of these tell of one in one band
Names(r, k) == {IdOf(r.meas[q]) : q \in 1..k} \ {0}
Told(r, k, id, b) == {q \in 1..k : Says(r.meas[q], id, b)}

\* The code of a measurement in a band, the smoothed one of its satellite if it is to be
CodeIn(m, b, code) == IF b = "L1" /\ logConfig.psrType # 0 THEN code ELSE m.code

\* o is what a measurement says in a band.
Holds(o, m, b, code) ==
    o.L = m.phase /\ o.D = m.doppler /\ o.slip = m.lost /\ o.R = CodeIn(m, b, code)

\* o is the last of what the first k measurements say of id in band b.
Kept(r, k, id, b, o, code) ==
    IF Told(r, k, id, b) = {} \/ ~Stored(b) THEN o = Unmeasured
    ELSE \E q \in Told(r, k, id, b) : /\ \A p \in Told(r, k, id, b) : p <= q
                                      /\ Holds(o, r.meas[q], b, code)

\* The first n slots are taken, by the satellites of the first k measurements.
Sorted(r, k, slots, codes, n) ==
    /\ n \in 0..MaxSat
    /\ \A i \in 1..n : slots[i].id # 0
    /\ \A i \in (n + 1)..MaxSat : slots[i] = NoSlot
    /\ \A i, q \in 1..n : slots[i].id = slots[q].id => i = q
    /\ {slots[i].id : i \in 1..n} = Names(r, k)
    /\ \A i \in 1..n, b \in Band : Kept(r, k, slots[i].id, b, slots[i].obs[b], codes[slots[i].id].R)

\* There are at most 203 names.
LEMMA NamesFinite == ASSUME NEW N \in SUBSET Ids PROVE IsFiniteSet(N)
<1>1. 203 \in Nat /\ N \in SUBSET Nat /\ \A x \in N : x <= 203
  BY DEF Ids, System, FirstId, LastId
<1> QED
  BY <1>1, FS_BoundedSetOfNaturals

Distinct(slots, n) == \A i, q \in 1..n : slots[i].id = slots[q].id => i = q
Taking(slots, n) == {slots[i].id : i \in 1..n}

\* As many slots are taken as there are satellites.
LEMMA SlotsCount ==
    ASSUME NEW n \in Nat, NEW slots, Distinct(slots, n)
    PROVE  Cardinality(Taking(slots, n)) = n
<1> DEFINE f == [i \in 1..n |-> slots[i].id]
           N == {slots[i].id : i \in 1..n}
<1>1. f \in [1..n -> N]
  OBVIOUS
<1>2. f \in Surjection(1..n, N)
  BY <1>1 DEF Surjection
<1>3. f \in Injection(1..n, N)
  <2>1. \A i, q \in 1..n : f[i] = f[q] => i = q
    BY DEF Distinct
  <2> HIDE DEF f, N
  <2> QED
    BY <1>1, <2>1 DEF Injection, IsInjective
<1>4. IsFiniteSet(1..n) /\ Cardinality(1..n) = n
  <2>1. 1 \in Int /\ n \in Int
    OBVIOUS
  <2>2. Cardinality(1..n) = (IF 1 > n THEN 0 ELSE n - 1 + 1) /\ IsFiniteSet(1..n)
    BY <2>1, FS_Interval, Zenon
  <2> QED
    BY <2>2
<1> HIDE DEF f, N
<1>5. Cardinality(N) = n
  BY <1>2, <1>3, <1>4, FS_Surjection, Zenon
<1> QED
  BY <1>5 DEF N, Taking

\* Satellites have names of the engine.
LEMMA NamesIn == ASSUME NEW r, NEW k \in Nat PROVE Names(r, k) \subseteq Ids
BY NameKnown, Zenon DEF Names, IdOf

\* One more measurement is of one more satellite, of one there was, or of none known.
LEMMA NamesGrow ==
    ASSUME NEW r, NEW k \in Nat
    PROVE  Names(r, k + 1) = IF IdOf(r.meas[k + 1]) = 0 THEN Names(r, k)
                             ELSE Names(r, k) \cup {IdOf(r.meas[k + 1])}
<1>1. 1..(k + 1) = 1..k \cup {k + 1}
  OBVIOUS
<1> QED
  BY <1>1, Zenon DEF Names

\* A report that fits has a slot for each of its satellites.
LEMMA RoomForNew ==
    ASSUME NEW r, Len(r.meas) \in Nat, Cardinality(Satellites(r)) <= MaxSat, NEW k \in 0..(Len(r.meas) - 1),
           NEW slots, NEW codes, NEW n, Sorted(r, k, slots, codes, n),
           IdOf(r.meas[k + 1]) # 0, IdOf(r.meas[k + 1]) \notin Names(r, k)
    PROVE  n < MaxSat
<1> DEFINE id == IdOf(r.meas[k + 1])
           N == Names(r, k)
<1>1. k \in Nat /\ n \in Nat /\ MaxSat \in Nat
  BY ConvertAssumption DEF Sorted
<1>2. Cardinality(N) = n
  <2>1. Distinct(slots, n)
    BY Zenon DEF Sorted, Distinct
  <2>2. Cardinality(Taking(slots, n)) = n
    BY <1>1, <2>1, SlotsCount, Zenon
  <2> QED
    BY <2>2, Zenon DEF Sorted, Taking
<1>3. IsFiniteSet(N) /\ IsFiniteSet(Satellites(r))
  <2>1. N \subseteq Ids
    BY <1>1, NamesIn
  <2>2. Satellites(r) \subseteq Ids
    BY NameKnown, Zenon DEF Satellites
  <2> QED
    BY <2>1, <2>2, NamesFinite, Zenon
<1>4. Cardinality(N \cup {id}) = n + 1
  <2> HIDE DEF N, id
  <2>1. id \notin N
    BY DEF N, id
  <2> QED
    BY <1>2, <1>3, <2>1, FS_AddElement, Zenon
<1>5. N \cup {id} \in SUBSET Satellites(r)
  <2>1. 1..k \subseteq 1..Len(r.meas) /\ k + 1 \in 1..Len(r.meas)
    BY <1>1
  <2> QED
    BY <2>1, Zenon DEF Names, Satellites, IdOf
<1> HIDE DEF N, id
<1>6. n + 1 <= Cardinality(Satellites(r)) /\ Cardinality(Satellites(r)) \in Nat
  <2>1. Cardinality(N \cup {id}) <= Cardinality(Satellites(r))
    BY <1>3, <1>5, FS_Subset, Zenon
  <2>2. Cardinality(Satellites(r)) \in Nat
    BY <1>3, FS_CardinalityType, Zenon
  <2> QED
    BY <1>4, <2>1, <2>2
<1> QED
  BY <1>1, <1>6

\* Where a measurement goes: to the slot of its satellite, or to the first free one.
Goes(r, k, slots, n, id, j, n2) ==
    \/ j \in 1..n /\ n2 = n /\ slots[j].id = id /\ id \in Names(r, k)
    \/ j = n + 1 /\ n2 = n + 1 /\ n2 <= MaxSat /\ id \notin Names(r, k) /\ slots[j] = NoSlot

\* In a report that fits every measurement of a known satellite goes to the slot of that satellite.
LEMMA SlotFound ==
    ASSUME NEW r, Len(r.meas) \in Nat, Cardinality(Satellites(r)) <= MaxSat, NEW k \in 0..(Len(r.meas) - 1),
           NEW S, NEW a \in Accumulators(S), NEW n, Sorted(r, k, a.slots, a.smooth, n), IdOf(r.meas[k + 1]) # 0
    PROVE  LET id == IdOf(r.meas[k + 1])
               j == searchsat(a.slots, id, a.j)
           IN  /\ HolderOf(a, r.meas[k + 1]) = id
               /\ \E n2 \in 0..MaxSat : Goes(r, k, a.slots, n, id, j, n2)
<1>1. PICK id : id = IdOf(r.meas[k + 1])
  OBVIOUS
<1>2. PICK j : j = searchsat(a.slots, id, a.j)
  OBVIOUS
<1>3. PICK slots : slots = a.slots
  OBVIOUS
<1>4. n \in Nat /\ MaxSat \in Nat /\ n <= MaxSat
  BY ConvertAssumption DEF Sorted
<1>5. /\ \A i \in 1..n : slots[i].id # 0
      /\ \A i \in (n + 1)..MaxSat : slots[i] = NoSlot
      /\ \A i, q \in 1..n : slots[i].id = slots[q].id => i = q
      /\ {slots[i].id : i \in 1..n} = Names(r, k)
  BY <1>3, Zenon DEF Sorted
<1>6. \A i \in (n + 1)..MaxSat : slots[i].id = 0
  <2>1. NoSlot.id = 0
    BY DEF NoSlot
  <2> QED
    BY <1>5, <2>1, Zenon
<1> DEFINE fit == {i \in 1..MaxSat : slots[i].id \in {id, 0}}
<1>7. j \in 1..MaxSat /\ (fit # {} => j \in fit /\ \A i \in fit : j <= i)
  BY <1>2, <1>3, SearchIs
<1>8. HolderOf(a, r.meas[k + 1]) = IF slots[j].id = 0 THEN id ELSE slots[j].id
  BY <1>1, <1>2, <1>3 DEF HolderOf, Named
<1>9. CASE id \in Names(r, k)
  <2>1. PICK i \in 1..n : slots[i].id = id
    BY <1>5, <1>9, Zenon
  <2>2. i \in fit
    BY <1>4, <2>1
  <2>3. j \in fit /\ j <= i
    BY <1>7, <2>2
  <2>4. j \in 1..n
    BY <1>4, <1>7, <2>1, <2>3
  <2>5. slots[j].id = id
    BY <1>5, <2>3, <2>4
  <2>6. HolderOf(a, r.meas[k + 1]) = id
    BY <1>8, <2>5
  <2>7. Goes(r, k, slots, n, id, j, n) /\ n \in 0..MaxSat
    BY <1>4, <1>9, <2>4, <2>5 DEF Goes
  <2> QED
    BY <1>1, <1>2, <1>3, <2>6, <2>7, Zenon
<1>10. CASE id \notin Names(r, k)
  <2>1. n < MaxSat
    BY <1>1, <1>3, <1>10, RoomForNew, Zenon
  <2>2. n + 1 \in (n + 1)..MaxSat /\ n + 1 \in 1..MaxSat
    BY <1>4, <2>1
  <2>3. n + 1 \in fit
    BY <1>6, <2>2
  <2>4. j \in fit /\ j <= n + 1
    BY <1>7, <2>3
  <2>5. j \notin 1..n
    BY <1>5, <1>10, <2>4
  <2>6. j = n + 1
    BY <1>4, <1>7, <2>4, <2>5
  <2>7. slots[j] = NoSlot /\ slots[j].id = 0
    BY <1>5, <1>6, <2>2, <2>6, Zenon
  <2>8. HolderOf(a, r.meas[k + 1]) = id
    BY <1>8, <2>7
  <2>9. Goes(r, k, slots, n, id, j, n + 1) /\ n + 1 \in 0..MaxSat
    BY <1>4, <1>10, <2>1, <2>6, <2>7 DEF Goes
  <2> QED
    BY <1>1, <1>2, <1>3, <2>8, <2>9, Zenon
<1> QED
  BY <1>9, <1>10

\* A measurement that says nothing of a satellite in a band changes nothing there.
LEMMA KeptOn ==
    ASSUME NEW r, NEW k \in Nat, NEW id, NEW b, NEW o, NEW code, Kept(r, k, id, b, o, code),
           ~Says(r.meas[k + 1], id, b) \/ ~Stored(b)
    PROVE  Kept(r, k + 1, id, b, o, code)
<1>1. 1..(k + 1) = 1..k \cup {k + 1}
  OBVIOUS
<1>2. CASE ~Says(r.meas[k + 1], id, b)
  <2>1. Told(r, k + 1, id, b) = Told(r, k, id, b)
    BY <1>1, <1>2, Zenon DEF Told
  <2> QED
    BY <2>1, Zenon DEF Kept
<1>3. CASE ~Stored(b)
  BY <1>3, Zenon DEF Kept
<1> QED
  BY <1>2, <1>3

\* A smoothed code does not matter where none is kept.
LEMMA KeptAnyCode ==
    ASSUME NEW r, NEW k, NEW id, NEW b, NEW o, NEW code, NEW other, Kept(r, k, id, b, o, code),
           ~(b = "L1" /\ logConfig.psrType # 0) \/ code = other
    PROVE  Kept(r, k, id, b, o, other)
<1>1. \A m : CodeIn(m, b, code) = CodeIn(m, b, other)
  BY DEF CodeIn
<1>2. \A m : Holds(o, m, b, code) => Holds(o, m, b, other)
  BY <1>1, Zenon DEF Holds
<1> QED
  BY <1>2, Zenon DEF Kept

\* The last measurement of a satellite in a band is what is kept of it.
LEMMA KeptLast ==
    ASSUME NEW r, NEW k \in Nat, NEW id, NEW b, NEW o, NEW code,
           Says(r.meas[k + 1], id, b), Stored(b), Holds(o, r.meas[k + 1], b, code)
    PROVE  Kept(r, k + 1, id, b, o, code)
<1>1. k + 1 \in Told(r, k + 1, id, b) /\ \A p \in Told(r, k + 1, id, b) : p <= k + 1
  BY DEF Told
<1>2. Told(r, k + 1, id, b) # {}
  BY <1>1
<1> QED
  BY <1>1, <1>2, Zenon DEF Kept

\* What a slot holds is what its measurements say, after each of them.
LEMMA SortStep ==
    ASSUME LimitOK, NEW r, Measured(r), Cardinality(Satellites(r)) <= MaxSat, NEW k \in 0..(Len(r.meas) - 1),
           NEW a \in Accumulators(Marks(r)), NEW n, Sorted(r, k, a.slots, a.smooth, n)
    PROVE  \E n2 : Sorted(r, k + 1, Store(a, r.meas[k + 1]).slots, Store(a, r.meas[k + 1]).smooth, n2)
<1>1. PICK m : m = r.meas[k + 1]
  OBVIOUS
<1>2. PICK id : id = IdOf(m)
  OBVIOUS
<1>3. PICK slots : slots = a.slots
  OBVIOUS
<1>4. PICK st : st = Store(a, m)
  OBVIOUS
<1>5. k \in Nat /\ MaxSat \in Nat /\ Len(r.meas) \in Nat /\ k + 1 \in 1..Len(r.meas)
  BY ConvertAssumption DEF Measured
<1>6. n \in 0..MaxSat
  BY Zenon DEF Sorted
<1>7. /\ \A i \in 1..n : slots[i].id # 0
      /\ \A i \in (n + 1)..MaxSat : slots[i] = NoSlot
      /\ \A i, q \in 1..n : slots[i].id = slots[q].id => i = q
      /\ {slots[i].id : i \in 1..n} = Names(r, k)
      /\ \A i \in 1..n, b \in Band : Kept(r, k, slots[i].id, b, slots[i].obs[b], a.smooth[slots[i].id].R)
  BY <1>3, Zenon DEF Sorted
<1>8. CASE id = 0
  <2>1. st = a
    BY <1>2, <1>4, <1>8, Zenon DEF Store, IdOf
  <2>2. Names(r, k + 1) = Names(r, k)
    BY <1>1, <1>2, <1>5, <1>8, NamesGrow, Zenon
  <2>3. ASSUME NEW i \in 1..n, NEW b \in Band
        PROVE  Kept(r, k + 1, slots[i].id, b, slots[i].obs[b], a.smooth[slots[i].id].R)
    <3>1. ~Says(m, slots[i].id, b)
      BY <1>2, <1>7, <1>8, Zenon DEF Says, IdOf
    <3> QED
      BY <1>1, <1>5, <1>7, <3>1, KeptOn, Zenon
  <2>4. Sorted(r, k + 1, slots, a.smooth, n)
    BY <1>6, <1>7, <2>2, <2>3, Zenon DEF Sorted
  <2> QED
    BY <1>1, <1>3, <1>4, <2>1, <2>4, Zenon
<1>9. CASE id # 0
  <2>1. PICK j : j = searchsat(slots, id, a.j)
    OBVIOUS
  <2>2. HolderOf(a, m) = id /\ \E n2 \in 0..MaxSat : Goes(r, k, slots, n, id, j, n2)
    <3>1. Len(r.meas) \in Nat
      BY <1>5
    <3> QED
      BY <3>1, <1>1, <1>2, <1>3, <1>9, <2>1, SlotFound, Zenon
  <2>3. PICK n2 \in 0..MaxSat : Goes(r, k, slots, n, id, j, n2)
    BY <2>2, Zenon
  <2>4. Stores(a, m, j, id, st)
    BY <1>2, <1>3, <1>4, <1>9, <2>1, <2>2, StoreIs, Zenon
  <2>5. PICK new : new = [id |-> id,
             obs |-> [b \in Band |-> IF b = sigtype(m.sig) /\ Stored(b) THEN ObsOf(a, m, id) ELSE slots[j].obs[b]]]
    OBVIOUS
  <2>6. PICK after : after = st.slots
    OBVIOUS
  <2>7. after = [slots EXCEPT ![j] = new] /\ slots \in [1..MaxSat -> SlotRecord(Marks(r))]
    BY <1>3, <2>4, <2>5, <2>6, Zenon DEF Stores, Accumulators
  <2>8. n2 \in Nat /\ n \in Nat /\ j \in 1..n2 /\ n <= n2 /\ n2 <= MaxSat /\ j \in 1..MaxSat
        /\ \A i \in 1..n2 : i # j => i \in 1..n
    <3>1. CASE j \in 1..n /\ n2 = n
      BY <1>5, <1>6, <3>1
    <3>2. CASE j = n + 1 /\ n2 = n + 1 /\ n2 <= MaxSat
      BY <1>5, <1>6, <3>2
    <3> QED
      BY <2>3, <3>1, <3>2 DEF Goes
  <2>9. after[j] = new /\ (\A i \in 1..MaxSat : i # j => after[i] = slots[i])
    BY <2>7, <2>8, Zenon
  <2>10. new.id = id /\ \A b \in Band : new.obs[b] = IF b = sigtype(m.sig) /\ Stored(b) THEN ObsOf(a, m, id)
                                                     ELSE slots[j].obs[b]
    BY <2>5
  <2>11. \A i \in 1..n2 : i # j => slots[i].id # id /\ after[i] = slots[i] /\ i \in 1..n /\ i \in 1..MaxSat
    <3> SUFFICES ASSUME NEW i \in 1..n2, i # j
                 PROVE  slots[i].id # id /\ after[i] = slots[i] /\ i \in 1..n /\ i \in 1..MaxSat
      OBVIOUS
    <3>1. i \in 1..n
      BY <2>8
    <3>2. i \in 1..MaxSat
      BY <1>5, <2>8
    <3>3. slots[i].id # id
      <4>1. CASE j \in 1..n /\ slots[j].id = id
        BY <1>7, <3>1, <4>1, Zenon
      <4>2. CASE id \notin Names(r, k)
        BY <1>7, <3>1, <4>2, Zenon
      <4> QED
        BY <2>3, <4>1, <4>2, Zenon DEF Goes
    <3> QED
      BY <2>9, <3>1, <3>2, <3>3, Zenon
  <2>12. \A i \in 1..n2 : after[i].id # 0
    <3> SUFFICES ASSUME NEW i \in 1..n2 PROVE after[i].id # 0
      OBVIOUS
    <3>1. CASE i = j
      BY <1>9, <2>9, <2>10, <3>1, Zenon
    <3>2. CASE i # j
      BY <1>7, <2>11, <3>2, Zenon
    <3> QED
      BY <3>1, <3>2
  <2>13. \A i \in (n2 + 1)..MaxSat : after[i] = NoSlot
    <3> SUFFICES ASSUME NEW i \in (n2 + 1)..MaxSat PROVE after[i] = NoSlot
      OBVIOUS
    <3>1. i \in 1..MaxSat /\ i \in (n + 1)..MaxSat /\ i # j
      BY <1>5, <2>8
    <3> QED
      BY <1>7, <2>9, <3>1, Zenon
  <2>14. \A i, q \in 1..n2 : after[i].id = after[q].id => i = q
    <3> SUFFICES ASSUME NEW i \in 1..n2, NEW q \in 1..n2, after[i].id = after[q].id PROVE i = q
      BY Zenon
    <3>1. after[j].id = id
      BY <2>9, <2>10, Zenon
    <3>2. CASE i = j
      BY <2>11, <3>1, <3>2, Zenon
    <3>3. CASE q = j
      BY <2>11, <3>1, <3>3, Zenon
    <3>4. CASE i # j /\ q # j
      BY <1>7, <2>11, <3>4, Zenon
    <3> QED
      BY <3>2, <3>3, <3>4
  <2>15. {after[i].id : i \in 1..n2} = Names(r, k + 1)
    <3>1. Names(r, k + 1) = Names(r, k) \cup {id}
      BY <1>1, <1>2, <1>5, <1>9, NamesGrow, Zenon
    <3>2. ASSUME NEW i \in 1..n2 PROVE after[i].id \in Names(r, k + 1)
      <4>1. CASE i = j
        BY <2>9, <2>10, <3>1, <4>1, Zenon
      <4>2. CASE i # j
        BY <1>7, <2>11, <3>1, <4>2, Zenon
      <4> QED
        BY <4>1, <4>2
    <3>3. ASSUME NEW x \in Names(r, k + 1) PROVE \E i \in 1..n2 : after[i].id = x
      <4>1. CASE x = id
        BY <2>8, <2>9, <2>10, <4>1, Zenon
      <4>2. CASE x # id
        <5>1. PICK i \in 1..n : slots[i].id = x
          BY <1>7, <3>1, <4>2, Zenon
        <5>2. i \in 1..n2 /\ i \in 1..MaxSat
          BY <1>5, <2>8
        <5>3. i # j
          <6>1. CASE j \in 1..n /\ slots[j].id = id
            BY <4>2, <5>1, <6>1, Zenon
          <6>2. CASE j = n + 1
            BY <2>8, <6>2
          <6> QED
            BY <2>3, <6>1, <6>2, Zenon DEF Goes
        <5> QED
          BY <2>9, <5>1, <5>2, <5>3, Zenon
      <4> QED
        BY <4>1, <4>2
    <3> QED
      BY <3>2, <3>3, Zenon
  <2>16. PICK codes : codes = st.smooth
    OBVIOUS
  <2>17. /\ a.smooth \in [Ids -> SmoothRecord] /\ id \in Ids
         /\ codes = IF Smoothing(m) THEN [a.smooth EXCEPT ![id] = Smoothed(a.smooth[id], m, satwavelen(id, "L1"))]
                    ELSE a.smooth
    <3>1. id \in Ids
      <4>1. id \in Ids \cup {0}
        BY <1>2, NameKnown, Zenon DEF IdOf
      <4> QED
        BY <1>9, <4>1
    <3> QED
      BY <2>4, <2>16, <3>1, Zenon DEF Stores, Accumulators
  <2>18. ASSUME NEW x \in Ids, x # id \/ ~Smoothing(m) PROVE codes[x] = a.smooth[x]
    <3>1. CASE Smoothing(m)
      BY <2>17, <2>18, <3>1, Zenon
    <3>2. CASE ~Smoothing(m)
      BY <2>17, <3>2, Zenon
    <3> QED
      BY <3>1, <3>2
  <2>19. ASSUME NEW i \in 1..n2, NEW b \in Band
         PROVE  Kept(r, k + 1, after[i].id, b, after[i].obs[b], codes[after[i].id].R)
    <3>1. CASE i # j
      <4>1. ~Says(m, slots[i].id, b)
        BY <1>2, <2>11, <3>1, Zenon DEF Says, IdOf
      <4>2. Kept(r, k + 1, slots[i].id, b, slots[i].obs[b], a.smooth[slots[i].id].R)
        BY <1>1, <1>5, <1>7, <2>11, <3>1, <4>1, KeptOn, Zenon
      <4>3. slots[i].id \in Ids /\ slots[i].id # id
        BY <1>5, <1>7, <2>11, <3>1, NamesIn, Zenon
      <4>4. codes[slots[i].id] = a.smooth[slots[i].id]
        BY <2>18, <4>3, Zenon
      <4> QED
        BY <2>11, <3>1, <4>2, <4>4, Zenon
    <3>2. CASE i = j /\ b = sigtype(m.sig) /\ Stored(b)
      <4>1. Says(m, id, b)
        BY <1>2, <3>2, Zenon DEF Says, IdOf
      <4>2. Holds(ObsOf(a, m, id), m, b, codes[id].R)
        <5>1. PICK code : code = (IF Smoothing(m) THEN Smoothed(a.smooth[id], m, satwavelen(id, "L1")).R ELSE m.code)
          OBVIOUS
        <5>2. ObsOf(a, m, id) = [R |-> code, L |-> m.phase, D |-> m.doppler, slip |-> m.lost]
          BY <5>1, Zenon DEF ObsOf, Obs
        <5>3. Smoothing(m) => codes[id].R = code
          BY <2>17, <5>1, Zenon
        <5>4. code = CodeIn(m, b, codes[id].R)
          <6>1. Smoothing(m) <=> b = "L1" /\ logConfig.psrType # 0
            BY <3>2, Zenon DEF Smoothing
          <6>2. CASE Smoothing(m)
            BY <5>3, <6>1, <6>2, Zenon DEF CodeIn
          <6>3. CASE ~Smoothing(m)
            BY <5>1, <6>1, <6>3, Zenon DEF CodeIn
          <6> QED
            BY <6>2, <6>3
        <5> QED
          BY <5>2, <5>4 DEF Holds
      <4>3. Kept(r, k + 1, id, b, ObsOf(a, m, id), codes[id].R)
        BY <1>1, <1>5, <3>2, <4>1, <4>2, KeptLast, Zenon
      <4>4. after[i].id = id /\ after[i].obs[b] = ObsOf(a, m, id)
        BY <2>9, <2>10, <3>2, Zenon
      <4> QED
        BY <4>3, <4>4, Zenon
    <3>3. CASE i = j /\ ~(b = sigtype(m.sig) /\ Stored(b))
      <4>1. after[i].id = id /\ after[i].obs[b] = slots[j].obs[b]
        BY <2>9, <2>10, <3>3, Zenon
      <4>2. ~Says(m, id, b) \/ ~Stored(b)
        BY <3>3, Zenon DEF Says
      <4>3. Kept(r, k, id, b, slots[j].obs[b], a.smooth[id].R)
        <5>1. CASE j \in 1..n /\ slots[j].id = id
          BY <1>7, <5>1, Zenon
        <5>2. CASE id \notin Names(r, k) /\ slots[j] = NoSlot
          <6>1. Told(r, k, id, b) = {}
            BY <1>9, <5>2, Zenon DEF Told, Names, Says, IdOf
          <6>2. slots[j].obs[b] = Unmeasured
            BY <5>2 DEF NoSlot
          <6> QED
            BY <6>1, <6>2, Zenon DEF Kept
        <5> QED
          BY <2>3, <5>1, <5>2, Zenon DEF Goes
      <4>4. Kept(r, k + 1, id, b, slots[j].obs[b], a.smooth[id].R)
        BY <1>1, <1>5, <4>2, <4>3, KeptOn, Zenon
      <4>5. ~(b = "L1" /\ logConfig.psrType # 0) \/ a.smooth[id].R = codes[id].R
        <5>1. CASE Smoothing(m)
          <6>1. sigtype(m.sig) = "L1"
            BY <5>1, Zenon DEF Smoothing
          <6>2. b # "L1"
            BY <3>3, <6>1, Zenon DEF Stored
          <6> QED
            BY <6>2, Zenon
        <5>2. CASE ~Smoothing(m)
          BY <2>17, <2>18, <5>2, Zenon
        <5> QED
          BY <5>1, <5>2
      <4>6. Kept(r, k + 1, id, b, slots[j].obs[b], codes[id].R)
        BY <4>4, <4>5, KeptAnyCode, Zenon
      <4> QED
        BY <4>1, <4>6, Zenon
    <3> QED
      BY <3>1, <3>2, <3>3
  <2>20. Sorted(r, k + 1, after, codes, n2)
    BY <2>12, <2>13, <2>14, <2>15, <2>19, Zenon DEF Sorted
  <2> QED
    BY <1>1, <1>4, <2>6, <2>16, <2>20, Zenon
<1> QED
  BY <1>8, <1>9

\* After the last measurement of a report that fits, the slots are sorted.
LEMMA AllSorted ==
    ASSUME LimitOK, smooth \in [Ids -> SmoothRecord], NEW r, Measured(r), Cardinality(Satellites(r)) <= MaxSat,
           NEW f, StoresAll(r, f)
    PROVE  \A k \in 0..Len(r.meas) : \E n : Sorted(r, k, f[k].slots, f[k].smooth, n)
<1> DEFINE top == Len(r.meas)
           T == {k \in 0..top : \E n : Sorted(r, k, f[k].slots, f[k].smooth, n)}
<1>1. top \in Nat
  BY Zenon DEF Measured
<1>2. 0 \in T
  <2>1. f[0].slots = [i \in 1..MaxSat |-> NoSlot]
    BY DEF StoresAll, init_wobs, Zero
  <2>2. PICK slots : slots = f[0].slots
    OBVIOUS
  <2>3. 0 \in 0..MaxSat /\ 1..0 = {} /\ (0 + 1)..MaxSat = 1..MaxSat
    BY ConvertAssumption
  <2>4. \A i \in (0 + 1)..MaxSat : slots[i] = NoSlot
    BY <2>1, <2>2, <2>3, Zenon
  <2>5. {slots[i].id : i \in 1..0} = Names(r, 0)
    BY <2>3, Zenon DEF Names
  <2>6. Sorted(r, 0, slots, f[0].smooth, 0)
    BY <2>3, <2>4, <2>5, Zenon DEF Sorted
  <2>7. 0 \in 0..top
    BY <1>1
  <2> QED
    BY <2>2, <2>6, <2>7, Zenon
<1>3. ASSUME NEW k \in 0..(top - 1), k \in T PROVE k + 1 \in T
  <2>1. k + 1 \in 1..top /\ (k + 1) - 1 = k /\ k + 1 \in 0..top /\ k \in 0..top
    BY <1>1
  <2>2. PICK n : Sorted(r, k, f[k].slots, f[k].smooth, n)
    BY <1>3, Zenon
  <2>3. f[k + 1] = Store(f[k], r.meas[k + 1]) /\ f[k] \in Accumulators(Marks(r))
    BY <2>1 DEF StoresAll
  <2>4. \E n2 : Sorted(r, k + 1, Store(f[k], r.meas[k + 1]).slots, Store(f[k], r.meas[k + 1]).smooth, n2)
    BY <1>3, <2>2, <2>3, SortStep, Zenon
  <2> QED
    BY <2>1, <2>3, <2>4, Zenon
<1>4. 0..top \subseteq T
  <2> HIDE DEF T
  <2> QED
    BY <1>1, <1>2, <1>3, UpTo
<1> QED
  BY <1>4, Zenon

\* The first n slots are taken and the others free.
TakenUpTo(slots, n) ==
    n \in 0..MaxSat /\ (\A i \in 1..n : slots[i].id # 0) /\ \A i \in (n + 1)..MaxSat : slots[i].id = 0

\* How many slots are taken is found at the first that is free.
LEMMA TakenIs ==
    ASSUME NEW slots, NEW n, TakenUpTo(slots, n)
    PROVE  Taken(slots) = n
<1> DEFINE P(x) == (\A i \in 1..x : slots[i].id # 0) /\ (x = MaxSat \/ slots[x + 1].id = 0)
<1>1. MaxSat \in Nat /\ n \in 0..MaxSat
  BY ConvertAssumption DEF TakenUpTo
<1>2. (\A i \in 1..n : slots[i].id # 0) /\ \A i \in (n + 1)..MaxSat : slots[i].id = 0
  BY Zenon DEF TakenUpTo
<1>3. P(n)
  <2>1. n = MaxSat \/ n + 1 \in (n + 1)..MaxSat
    BY <1>1
  <2> QED
    BY <1>2, <2>1
<1>4. PICK t : t = Taken(slots)
  OBVIOUS
<1>5. t \in 0..MaxSat /\ P(t)
  <2>1. t = CHOOSE x \in 0..MaxSat : P(x)
    BY <1>4, Zenon DEF Taken
  <2> HIDE DEF P
  <2> QED
    BY <1>1, <1>3, <2>1, Zenon
<1>6. ~(t < n)
  <2> SUFFICES ASSUME t < n PROVE FALSE
    OBVIOUS
  <2>1. t + 1 \in 1..n /\ t # MaxSat
    BY <1>1, <1>5
  <2> QED
    BY <1>2, <1>5, <2>1
<1>7. ~(t > n)
  <2> SUFFICES ASSUME t > n PROVE FALSE
    OBVIOUS
  <2>1. n + 1 \in 1..t /\ n + 1 \in (n + 1)..MaxSat
    BY <1>1, <1>5
  <2> QED
    BY <1>2, <1>5, <2>1
<1> QED
  BY <1>1, <1>4, <1>5, <1>6, <1>7

-----------------------------------------------------------------------------
(* The satellites of a report in the order of the slots, whether they fit   *)
(* or not.                                                                  *)

Has(slots, n, id) == \E i \in 1..n : slots[i].id = id

\* The first n slots are those of the satellites of the first k measurements that came first.
Queued(r, k, slots, n) ==
    /\ TakenUpTo(slots, n)
    /\ \A i \in 1..n : slots[i].id \in Names(r, k)
    /\ \A i, q \in 1..n : i < q => ComesBefore(r, slots[i].id, slots[q].id)
    /\ \A id \in Names(r, k) :
        Has(slots, n, id) \/ (n = MaxSat /\ \A i \in 1..n : ComesBefore(r, slots[i].id, id))

\* A satellite that is not among the first measurements comes after all that are.
LEMMA NewComesLater ==
    ASSUME NEW r, Len(r.meas) \in Nat, NEW k \in 0..Len(r.meas), NEW x \in Names(r, k),
           NEW y, y # 0, y \notin Names(r, k)
    PROVE  ComesBefore(r, x, y)
<1>1. PICK p \in 1..k : IdOf(r.meas[p]) = x
  BY Zenon DEF Names
<1>2. p \in 1..Len(r.meas) /\ \A q \in 1..p : q \in 1..k
  OBVIOUS
<1>3. \A q \in 1..k : IdOf(r.meas[q]) # y
  BY Zenon DEF Names
<1> QED
  BY <1>1, <1>2, <1>3, Zenon DEF ComesBefore, IdOf

\* Where a measurement goes leaves the satellites of the slots alone, or adds its own as the last.
Lengthens(slots, after, n, n2, id) ==
    \/ /\ n2 = n /\ (Has(slots, n, id) \/ n = MaxSat)
       /\ \A i \in 1..MaxSat : after[i].id = slots[i].id
    \/ /\ n2 = n + 1 /\ n2 <= MaxSat /\ ~Has(slots, n, id) /\ after[n2].id = id
       /\ \A i \in 1..MaxSat : i # n2 => after[i].id = slots[i].id

LEMMA SlotTaken ==
    ASSUME NEW S, NEW a \in Accumulators(S), NEW m, IdOf(m) # 0, NEW n, TakenUpTo(a.slots, n)
    PROVE  \E n2 \in Nat : Lengthens(a.slots, Store(a, m).slots, n, n2, IdOf(m))
<1>1. PICK id : id = IdOf(m)
  OBVIOUS
<1>2. PICK slots : slots = a.slots
  OBVIOUS
<1>3. PICK j : j = searchsat(slots, id, a.j)
  OBVIOUS
<1>4. PICK after : after = Store(a, m).slots
  OBVIOUS
<1>5. PICK sid : sid = HolderOf(a, m)
  OBVIOUS
<1>6. /\ MaxSat \in Nat /\ n \in Nat /\ n <= MaxSat
      /\ \A i \in 1..n : slots[i].id # 0
      /\ \A i \in (n + 1)..MaxSat : slots[i].id = 0
  BY <1>2, ConvertAssumption DEF TakenUpTo
<1> DEFINE fit == {i \in 1..MaxSat : slots[i].id \in {id, 0}}
<1>7. j \in 1..MaxSat /\ (fit # {} => j \in fit /\ \A i \in fit : j <= i)
  BY <1>2, <1>3, SearchIs
<1>8. sid = IF slots[j].id = 0 THEN id ELSE slots[j].id
  BY <1>1, <1>2, <1>3, <1>5 DEF HolderOf, Named
<1>9. after[j].id = sid /\ \A i \in 1..MaxSat : i # j => after[i].id = slots[i].id
  <2>1. Stores(a, m, j, sid, Store(a, m))
    BY <1>1, <1>2, <1>3, <1>5, StoreIs, Zenon
  <2>2. PICK new : new = [id |-> sid, obs |-> [b \in Band |-> IF b = sigtype(m.sig) /\ Stored(b)
                                                              THEN ObsOf(a, m, sid) ELSE a.slots[j].obs[b]]]
    OBVIOUS
  <2>3. after = [slots EXCEPT ![j] = new] /\ slots \in [1..MaxSat -> SlotRecord(S)]
    BY <1>2, <1>4, <2>1, <2>2, Zenon DEF Stores, Accumulators
  <2>4. new.id = sid
    BY <2>2
  <2> QED
    BY <1>7, <2>3, <2>4, Zenon
<1>10. CASE slots[j].id # 0
  <2>1. \A i \in 1..MaxSat : after[i].id = slots[i].id
    BY <1>8, <1>9, <1>10, Zenon
  <2>2. j \in 1..n
    BY <1>6, <1>7, <1>10
  <2>3. Has(slots, n, id) \/ n = MaxSat
    <3> SUFFICES ASSUME n # MaxSat PROVE Has(slots, n, id)
      OBVIOUS
    <3>1. n + 1 \in 1..MaxSat /\ n + 1 \in (n + 1)..MaxSat
      BY <1>6
    <3>2. n + 1 \in fit
      BY <1>6, <3>1
    <3>3. slots[j].id = id
      BY <1>7, <1>10, <3>2
    <3> QED
      BY <2>2, <3>3, Zenon DEF Has
  <2> QED
    BY <1>1, <1>2, <1>4, <1>6, <2>1, <2>3, Zenon DEF Lengthens
<1>11. CASE slots[j].id = 0
  <2>1. j \in fit /\ \A i \in fit : j <= i
    BY <1>7, <1>11
  <2>2. j \notin 1..n
    BY <1>6, <1>11
  <2>3. n + 1 \in 1..MaxSat /\ n + 1 \in (n + 1)..MaxSat
    BY <1>6, <1>7, <2>2
  <2>4. n + 1 \in fit
    BY <1>6, <2>3
  <2>5. j = n + 1
    BY <1>6, <1>7, <2>1, <2>2, <2>4
  <2>6. ~Has(slots, n, id)
    <3> SUFFICES ASSUME NEW i \in 1..n, slots[i].id = id PROVE FALSE
      BY Zenon DEF Has
    <3>1. i \in fit
      BY <1>6
    <3> QED
      BY <1>6, <2>1, <2>5, <3>1
  <2>7. after[j].id = id
    BY <1>8, <1>9, <1>11, Zenon
  <2>8. n + 1 <= MaxSat /\ n + 1 \in Nat
    BY <1>6, <2>3
  <2>9. Lengthens(slots, after, n, n + 1, id)
    BY <1>9, <2>5, <2>6, <2>7, <2>8, Zenon DEF Lengthens
  <2> QED
    BY <1>1, <1>2, <1>4, <2>8, <2>9, Zenon
<1> QED
  BY <1>10, <1>11

\* After each measurement the slots are in the order in which their satellites came.
LEMMA QueueStep ==
    ASSUME NEW r, Measured(r), NEW k \in 0..(Len(r.meas) - 1), NEW a \in Accumulators(Marks(r)),
           NEW n, Queued(r, k, a.slots, n)
    PROVE  \E n2 : Queued(r, k + 1, Store(a, r.meas[k + 1]).slots, n2)
<1>1. PICK m : m = r.meas[k + 1]
  OBVIOUS
<1>2. PICK id : id = IdOf(m)
  OBVIOUS
<1>3. PICK slots : slots = a.slots
  OBVIOUS
<1>4. PICK after : after = Store(a, m).slots
  OBVIOUS
<1>5. k \in Nat /\ Len(r.meas) \in Nat /\ k \in 0..Len(r.meas) /\ MaxSat \in Nat
  BY ConvertAssumption DEF Measured
<1>6. /\ TakenUpTo(slots, n)
      /\ \A i \in 1..n : slots[i].id \in Names(r, k)
      /\ \A i, q \in 1..n : i < q => ComesBefore(r, slots[i].id, slots[q].id)
      /\ \A x \in Names(r, k) :
            Has(slots, n, x) \/ (n = MaxSat /\ \A i \in 1..n : ComesBefore(r, slots[i].id, x))
  BY <1>3, Zenon DEF Queued
<1>7. /\ n \in Nat /\ n <= MaxSat
      /\ \A i \in 1..n : slots[i].id # 0
      /\ \A i \in (n + 1)..MaxSat : slots[i].id = 0
  BY <1>5, <1>6 DEF TakenUpTo
<1>8. CASE id = 0
  <2>1. Store(a, m) = a
    BY <1>2, <1>8, Zenon DEF Store, IdOf
  <2>2. Names(r, k + 1) = Names(r, k)
    BY <1>1, <1>2, <1>5, <1>8, NamesGrow, Zenon
  <2>3. Queued(r, k + 1, slots, n)
    BY <1>6, <2>2, Zenon DEF Queued
  <2> QED
    BY <1>1, <1>3, <2>1, <2>3, Zenon
<1>9. CASE id # 0
  <2>1. Names(r, k + 1) = Names(r, k) \cup {id}
    BY <1>1, <1>2, <1>5, <1>9, NamesGrow, Zenon
  <2>2. PICK n2 \in Nat : Lengthens(slots, after, n, n2, id)
    BY <1>2, <1>3, <1>4, <1>6, <1>9, SlotTaken, Zenon
  <2>3. ASSUME ~Has(slots, n, id)
        PROVE  \A i \in 1..n : ComesBefore(r, slots[i].id, id)
    <3>1. CASE id \in Names(r, k)
      BY <1>6, <2>3, <3>1, Zenon
    <3>2. CASE id \notin Names(r, k)
      BY <1>5, <1>6, <1>9, <3>2, NewComesLater, Zenon
    <3> QED
      BY <3>1, <3>2
  <2>4. CASE /\ n2 = n /\ (Has(slots, n, id) \/ n = MaxSat)
             /\ \A i \in 1..MaxSat : after[i].id = slots[i].id
    <3>1. \A i \in 1..n : i \in 1..MaxSat
      BY <1>5, <1>7
    <3>2. \A i \in (n + 1)..MaxSat : i \in 1..MaxSat
      BY <1>5, <1>7
    <3>3. \A i \in 1..n : after[i].id = slots[i].id
      BY <2>4, <3>1, Zenon
    <3>4. TakenUpTo(after, n)
      BY <1>6, <2>4, <3>2, <3>3, Zenon DEF TakenUpTo
    <3>5. \A x : Has(after, n, x) <=> Has(slots, n, x)
      BY <3>3, Zenon DEF Has
    <3>6. ASSUME NEW x \in Names(r, k + 1)
          PROVE  Has(after, n, x) \/ (n = MaxSat /\ \A i \in 1..n : ComesBefore(r, after[i].id, x))
      <4>1. CASE x = id
        BY <2>3, <2>4, <3>3, <3>5, <4>1, Zenon
      <4>2. CASE x # id
        <5>1. x \in Names(r, k)
          BY <2>1, <4>2, Zenon
        <5> QED
          BY <1>6, <3>3, <3>5, <5>1, Zenon
      <4> QED
        BY <4>1, <4>2
    <3>7. Queued(r, k + 1, after, n)
      BY <1>6, <2>1, <3>3, <3>4, <3>6, Zenon DEF Queued
    <3> QED
      BY <1>1, <1>4, <3>7, Zenon
  <2>5. CASE /\ n2 = n + 1 /\ n2 <= MaxSat /\ ~Has(slots, n, id) /\ after[n2].id = id
             /\ \A i \in 1..MaxSat : i # n2 => after[i].id = slots[i].id
    <3>1. \A i \in 1..n : i \in 1..MaxSat /\ i # n2 /\ i \in 1..n2
      BY <1>5, <1>7, <2>5
    <3>2. \A i \in (n2 + 1)..MaxSat : i \in 1..MaxSat /\ i # n2 /\ i \in (n + 1)..MaxSat
      BY <1>5, <1>7, <2>5
    <3>3. \A i \in 1..n : after[i].id = slots[i].id
      BY <2>5, <3>1, Zenon
    <3>4. \A i \in 1..n2 : i = n2 \/ i \in 1..n
      BY <1>5, <1>7, <2>5
    <3>5. n2 \in 0..MaxSat /\ n2 \in 1..n2
      BY <1>5, <1>7, <2>5
    <3>6. TakenUpTo(after, n2)
      <4>1. \A i \in 1..n2 : after[i].id # 0
        BY <1>7, <1>9, <2>5, <3>3, <3>4, Zenon
      <4>2. \A i \in (n2 + 1)..MaxSat : after[i].id = 0
        BY <1>7, <2>5, <3>2, Zenon
      <4> QED
        BY <3>5, <4>1, <4>2, Zenon DEF TakenUpTo
    <3>7. \A i \in 1..n2 : after[i].id \in Names(r, k + 1)
      BY <1>6, <2>1, <2>5, <3>3, <3>4, Zenon
    <3>8. ASSUME NEW i \in 1..n2, NEW q \in 1..n2, i < q
          PROVE  ComesBefore(r, after[i].id, after[q].id)
      <4>1. i \in 1..n
        BY <1>7, <2>5, <3>8
      <4>2. CASE q = n2
        BY <2>3, <2>5, <3>3, <4>1, <4>2, Zenon
      <4>3. CASE q \in 1..n
        BY <1>6, <3>3, <3>8, <4>1, <4>3, Zenon
      <4> QED
        BY <3>4, <4>2, <4>3, Zenon
    <3>9. ASSUME NEW x \in Names(r, k + 1) PROVE Has(after, n2, x)
      <4>1. CASE x = id
        BY <2>5, <3>5, <4>1, Zenon DEF Has
      <4>2. CASE x # id
        <5>1. x \in Names(r, k) /\ n # MaxSat
          BY <1>5, <1>7, <2>1, <2>5, <4>2
        <5>2. Has(slots, n, x)
          BY <1>6, <5>1, Zenon
        <5> QED
          BY <3>1, <3>3, <5>2, Zenon DEF Has
      <4> QED
        BY <4>1, <4>2
    <3>10. Queued(r, k + 1, after, n2)
      BY <3>6, <3>7, <3>8, <3>9, Zenon DEF Queued
    <3> QED
      BY <1>1, <1>4, <3>10, Zenon
  <2> QED
    BY <2>2, <2>4, <2>5, Zenon DEF Lengthens
<1> QED
  BY <1>8, <1>9

\* So they are after the last one.
LEMMA AllQueued ==
    ASSUME NEW r, Measured(r), NEW f, StoresAll(r, f)
    PROVE  \E n : Queued(r, Len(r.meas), f[Len(r.meas)].slots, n)
<1> DEFINE top == Len(r.meas)
           T == {k \in 0..top : \E n : Queued(r, k, f[k].slots, n)}
<1>1. top \in Nat
  BY Zenon DEF Measured
<1>2. 0 \in T
  <2>1. f[0].slots = [i \in 1..MaxSat |-> NoSlot]
    BY DEF StoresAll, init_wobs, Zero
  <2>2. PICK slots : slots = f[0].slots
    OBVIOUS
  <2>3. 0 \in 0..MaxSat /\ 1..0 = {} /\ (0 + 1)..MaxSat = 1..MaxSat
    BY ConvertAssumption
  <2>4. NoSlot.id = 0
    BY DEF NoSlot
  <2>5. \A i \in (0 + 1)..MaxSat : slots[i].id = 0
    BY <2>1, <2>2, <2>3, <2>4, Zenon
  <2>6. Names(r, 0) = {}
    BY <2>3, Zenon DEF Names
  <2>7. Queued(r, 0, slots, 0)
    BY <2>3, <2>5, <2>6, Zenon DEF Queued, TakenUpTo
  <2>8. 0 \in 0..top
    BY <1>1
  <2> QED
    BY <2>2, <2>7, <2>8, Zenon
<1>3. ASSUME NEW k \in 0..(top - 1), k \in T PROVE k + 1 \in T
  <2>1. k + 1 \in 1..top /\ (k + 1) - 1 = k /\ k + 1 \in 0..top /\ k \in 0..top
    BY <1>1
  <2>2. PICK n : Queued(r, k, f[k].slots, n)
    BY <1>3, Zenon
  <2>3. f[k + 1] = Store(f[k], r.meas[k + 1]) /\ f[k] \in Accumulators(Marks(r))
    BY <2>1 DEF StoresAll
  <2>4. \E n2 : Queued(r, k + 1, Store(f[k], r.meas[k + 1]).slots, n2)
    BY <1>3, <2>2, <2>3, QueueStep, Zenon
  <2> QED
    BY <2>1, <2>3, <2>4, Zenon
<1>4. 0..top \subseteq T
  <2> HIDE DEF T
  <2> QED
    BY <1>1, <1>2, <1>3, UpTo
<1>5. top \in 0..top
  BY <1>1
<1> QED
  BY <1>4, <1>5, Zenon

-----------------------------------------------------------------------------
(* The clock.                                                               *)

\* What is taken off a carrier in whole cycles
LEMMA WholeCycles ==
    ASSUME NEW d \in Int, NEW w \in Nat \ {0}
    PROVE  d - (d \div w) * w \in 0..(w - 1) /\ d \div w \in Int
OBVIOUS

\* p is o without d
TakenOff(p, o, d, w) ==
    /\ p.D = o.D /\ p.slip = o.slip
    /\ p.L = IF o.L # 0 /\ o.D # 0 THEN o.L - d \div w ELSE o.L
    /\ p.R = IF o.R # 0 /\ o.D # 0 THEN o.R - d ELSE o.R

\* The fields of an observation without the clock
LEMMA OffsetIs ==
    ASSUME NEW bias, NEW id, NEW S, NEW o \in Observation(S), NEW b,
           NEW d, d = bias[satsys(id)] * (LightSpeed - o.D), NEW p, p = Offset(bias, id, o, b)
    PROVE  TakenOff(p, o, d, satwavelen(id, b))
BY DEF Offset, Observation, TakenOff

\* What is held of a measurement is, without the clock, code and carrier less its range.
LEMMA OffsetClears ==
    ASSUME NEW bias, NEW id \in Ids, bias[satsys(id)] \in Int, NEW S, NEW o \in Observation(S), NEW b \in Band, NEW m,
           NEW code, code \in Int, m.phase \in Int, m.doppler \in Int,
           o.L = m.phase, o.D = m.doppler, o.slip = m.lost, o.R = code
    PROVE  Carries(Offset(bias, id, o, b), m, code, satwavelen(id, b), bias[satsys(id)] * (LightSpeed - m.doppler))
<1>1. PICK p : p = Offset(bias, id, o, b)
  OBVIOUS
<1>2. PICK d : d = bias[satsys(id)] * (LightSpeed - m.doppler)
  OBVIOUS
<1>3. PICK w : w = satwavelen(id, b)
  OBVIOUS
<1>4. w \in Nat \ {0}
  BY <1>3, WaveOf, Zenon
<1>5. d \in Int
  <2>1. LightSpeed \in Int
    BY ConvertAssumption
  <2>2. LightSpeed - m.doppler \in Int
    BY <2>1
  <2>3. PICK x \in Int : x = bias[satsys(id)]
    OBVIOUS
  <2>4. x * (LightSpeed - m.doppler) \in Int
    BY <2>2
  <2> QED
    BY <1>2, <2>3, <2>4, Zenon
<1>6. o.L = m.phase /\ o.D = m.doppler /\ o.slip = m.lost /\ o.R = code
  OBVIOUS
<1>7. /\ p.D = m.doppler /\ p.slip = m.lost
      /\ p.L = IF m.phase # 0 /\ m.doppler # 0 THEN m.phase - d \div w ELSE m.phase
      /\ p.R = IF code # 0 /\ m.doppler # 0 THEN code - d ELSE code
  <2>1. PICK e : e = bias[satsys(id)] * (LightSpeed - o.D)
    OBVIOUS
  <2>2. TakenOff(p, o, e, satwavelen(id, b))
    BY <1>1, <2>1, OffsetIs, Zenon
  <2>3. e = d
    BY <1>2, <1>6, <2>1, Zenon
  <2>4. p.D = m.doppler /\ p.slip = m.lost
    BY <1>6, <2>2, Zenon DEF TakenOff
  <2>5. p.L = IF m.phase # 0 /\ m.doppler # 0 THEN m.phase - d \div w ELSE m.phase
    BY <1>3, <1>6, <2>2, <2>3, Zenon DEF TakenOff
  <2>6. p.R = IF code # 0 /\ m.doppler # 0 THEN code - d ELSE code
    BY <1>6, <2>2, <2>3, Zenon DEF TakenOff
  <2> QED
    BY <2>4, <2>5, <2>6, Zenon
<1>8. d - (d \div w) * w \in 0..(w - 1) /\ d \div w \in Int
  BY <1>4, <1>5, WholeCycles
<1>9. m.phase # 0 /\ m.doppler # 0 => d - (m.phase - p.L) * w \in 0..(w - 1)
  <2> SUFFICES ASSUME m.phase # 0, m.doppler # 0 PROVE d - (m.phase - p.L) * w \in 0..(w - 1)
    OBVIOUS
  <2>1. PICK q \in Int : q = d \div w
    BY <1>8
  <2>2. p.L = m.phase - q
    BY <1>7, <2>1
  <2>3. m.phase - p.L = q
    BY <2>1, <2>2
  <2> QED
    BY <1>8, <2>1, <2>3, Zenon
<1>10. code - p.R = IF code = 0 \/ m.doppler = 0 THEN 0 ELSE d
  <2>1. p.R = IF code # 0 /\ m.doppler # 0 THEN code - d ELSE code
    BY <1>7, Zenon
  <2> QED
    BY <1>5, <2>1
<1>11. IF m.phase = 0 \/ m.doppler = 0 THEN p.L = m.phase ELSE d - (m.phase - p.L) * w \in 0..(w - 1)
  BY <1>7, <1>9, Zenon
<1>12. p.D = m.doppler /\ p.slip = m.lost
  BY <1>7, Zenon
<1>13. Carries(p, m, code, w, d)
  BY <1>10, <1>11, <1>12, Zenon DEF Carries
<1> QED
  BY <1>1, <1>2, <1>3, <1>13, Zenon

\* What is said of a satellite in a band by a report
SaidOf(r, id, b) == {k \in 1..Len(r.meas) : Says(r.meas[k], id, b)}

\* The code of a measurement, with the kind of smoothing and the smoothed codes
CodeWith(m, id, b, type, codes) == IF b = "L1" /\ type # 0 THEN codes[id].R ELSE m.code

\* A band of a slot holds the last that the report said.
Arrived(r, id, b, o, type, codes) ==
    IF SaidOf(r, id, b) = {} \/ (type = 0 /\ b # "L1") THEN o = Unmeasured
    ELSE \E k \in SaidOf(r, id, b) :
            /\ \A q \in SaidOf(r, id, b) : q <= k
            /\ Carries(o, r.meas[k], CodeWith(r.meas[k], id, b, type, codes), satwavelen(id, b),
                       r.bias[satsys(id)] * (LightSpeed - r.meas[k].doppler))

\* An epoch is what its report says, if that fits.
Epoch(w, r, type, codes) ==
    /\ FirstCome(w, r)
    /\ Cardinality(Satellites(r)) <= MaxSat =>
        /\ w.n = Cardinality(Satellites(r))
        /\ \A i \in 1..w.n, b \in Band : Arrived(r, w.slots[i].id, b, w.slots[i].obs[b], type, codes)

EpochInv == report # <<>> => Epoch(wobs, report, logConfig.psrType, smooth)

\* EpochAsMeasured in its parts
LEMMA EpochInvIs == EpochInv <=> EpochAsMeasured
BY Zenon DEF EpochInv, EpochAsMeasured, Epoch, Arrived, SaidOf, CodeWith, CodeOf

\* c is the slot s without the clock.
ClearSlot(c, s, bias) ==
    c.id = s.id /\ \A b \in Band : c.obs[b] = Offset(bias, s.id, s.obs[b], b)

\* The slot of an epoch is that of the stored measurements without the clock.
LEMMA SlotOffset ==
    ASSUME NEW S, NEW slots, NEW n \in Nat, NEW bias, NEW i \in 1..n, i \in 1..MaxSat, slots[i] \in SlotRecord(S)
    PROVE  ClearSlot(mesoffset(slots, n, bias)[i], slots[i], bias)
<1>1. PICK s : s = slots[i]
  OBVIOUS
<1>2. ~(i > n)
  OBVIOUS
<1>3. mesoffset(slots, n, bias)[i] = [s EXCEPT !.obs = [b \in Band |-> Offset(bias, s.id, s.obs[b], b)]]
  BY <1>1, <1>2, Zenon DEF mesoffset
<1>4. PICK o : o = [b \in Band |-> Offset(bias, s.id, s.obs[b], b)]
  OBVIOUS
<1>5. PICK t : t = [s EXCEPT !.obs = o]
  OBVIOUS
<1>6. t.id = s.id /\ t.obs = o
  BY <1>1, <1>5 DEF SlotRecord
<1>7. mesoffset(slots, n, bias)[i] = t
  BY <1>3, <1>4, <1>5, Zenon
<1> QED
  BY <1>1, <1>4, <1>6, <1>7, Zenon DEF ClearSlot

\* What obsqumcom makes of a report is what the report says.
LEMMA EpochMade ==
    ASSUME LimitOK, smooth \in [Ids -> SmoothRecord], NEW r \in Reports
    PROVE  LET all == Storing(r)[Len(r.meas)]
               n == Taken(all.slots)
           IN  Epoch([week |-> r.week, t |-> r.msec, n |-> n, slots |-> mesoffset(all.slots, n, r.bias)], r,
                     logConfig.psrType, all.smooth)
<1>1. PICK top : top = Len(r.meas)
  OBVIOUS
<1>2. PICK all : all = Storing(r)[top]
  OBVIOUS
<1>3. PICK slots : slots = all.slots
  OBVIOUS
<1>4. PICK n : n = Taken(slots)
  OBVIOUS
<1>5. Measured(r)
  BY ReportMeasured
<1>6. StoresAll(r, Storing(r))
  BY <1>5, StoringIs, Zenon
<1>7. top \in Nat /\ top \in 0..top
  <2>1. top \in Nat
    BY <1>1, <1>5, Zenon DEF Measured
  <2> QED
    BY <2>1
<1>8. all \in Accumulators(Marks(r))
  BY <1>1, <1>2, <1>6, <1>7, Zenon DEF StoresAll
<1>9. slots \in [1..MaxSat -> SlotRecord(Marks(r))]
  BY <1>3, <1>8, Zenon DEF Accumulators
<1>10. Queued(r, top, slots, n)
  <2>1. PICK x : Queued(r, top, slots, x)
    BY <1>1, <1>2, <1>3, <1>5, <1>6, AllQueued, Zenon
  <2> QED
    BY <1>4, <2>1, TakenIs, Zenon DEF Queued
<1>11. n \in Nat /\ n <= MaxSat /\ MaxSat \in Nat
  BY <1>10, ConvertAssumption DEF Queued, TakenUpTo
<1>12. Names(r, top) = Satellites(r)
  BY <1>1, Zenon DEF Names, Satellites, IdOf
<1>13. \A i \in 1..n : slots[i].id \in Satellites(r)
  BY <1>10, <1>12, Zenon DEF Queued
<1>14. PICK codes : codes = all.smooth
  OBVIOUS
<1>15. PICK clear : clear = mesoffset(slots, n, r.bias)
  OBVIOUS
<1>16. ASSUME NEW i \in 1..n
       PROVE  /\ clear[i].id = slots[i].id /\ slots[i].id \in Ids
              /\ \A b \in Band : clear[i].obs[b] = Offset(r.bias, slots[i].id, slots[i].obs[b], b)
              /\ slots[i].obs \in [Band -> Observation(Marks(r))]
  <2>1. i \in 1..MaxSat
    BY <1>11
  <2>2. slots[i] \in SlotRecord(Marks(r))
    BY <1>9, <2>1, Zenon
  <2>3. slots[i].id \in Ids
    <3>1. slots[i].id \in Satellites(r)
      BY <1>13
    <3> QED
      BY <3>1, NameKnown, Zenon DEF Satellites
  <2>4. slots[i].obs \in [Band -> Observation(Marks(r))]
    BY <2>2 DEF SlotRecord
  <2>5. ClearSlot(clear[i], slots[i], r.bias)
    BY <1>11, <1>15, <2>1, <2>2, SlotOffset, Zenon
  <2> QED
    BY <2>3, <2>4, <2>5, Zenon DEF ClearSlot
<1>17. ASSUME Cardinality(Satellites(r)) <= MaxSat
       PROVE  Sorted(r, top, slots, codes, n) /\ n = Cardinality(Satellites(r))
  <2>1. PICK x : Sorted(r, top, slots, codes, x)
    BY <1>1, <1>2, <1>3, <1>5, <1>6, <1>7, <1>14, <1>17, AllSorted, Zenon
  <2>2. TakenUpTo(slots, x)
    BY <2>1 DEF Sorted, TakenUpTo, NoSlot
  <2>3. x = n
    BY <1>4, <2>2, TakenIs, Zenon
  <2>4. Sorted(r, top, slots, codes, n)
    BY <2>1, <2>3, Zenon
  <2>5. Distinct(slots, n)
    BY <2>4, Zenon DEF Sorted, Distinct
  <2>6. Cardinality(Taking(slots, n)) = n
    BY <1>11, <2>5, SlotsCount, Zenon
  <2>7. Taking(slots, n) = Satellites(r)
    BY <1>12, <2>4, Zenon DEF Taking, Sorted
  <2> QED
    BY <2>4, <2>6, <2>7, Zenon
<1>18. ASSUME Cardinality(Satellites(r)) <= MaxSat, NEW i \in 1..n, NEW b \in Band
       PROVE  Arrived(r, clear[i].id, b, clear[i].obs[b], logConfig.psrType, codes)
  <2>1. PICK id : id = slots[i].id
    OBVIOUS
  <2>2. PICK o : o = slots[i].obs[b]
    OBVIOUS
  <2>3. id \in Ids /\ clear[i].id = id /\ clear[i].obs[b] = Offset(r.bias, id, o, b) /\ o \in Observation(Marks(r))
    BY <1>16, <2>1, <2>2, Zenon
  <2>4. Kept(r, top, id, b, o, codes[id].R)
    BY <1>17, <1>18, <2>1, <2>2, Zenon DEF Sorted
  <2>5. Told(r, top, id, b) = SaidOf(r, id, b)
    BY <1>1, Zenon DEF Told, SaidOf
  <2>6. Stored(b) <=> ~(logConfig.psrType = 0 /\ b # "L1")
    BY DEF Stored, Band
  <2>7. CASE SaidOf(r, id, b) = {} \/ (logConfig.psrType = 0 /\ b # "L1")
    <3>1. o = Unmeasured
      BY <2>4, <2>5, <2>6, <2>7, Zenon DEF Kept
    <3>2. Offset(r.bias, id, Unmeasured, b) = Unmeasured
      BY DEF Offset, Unmeasured
    <3> QED
      BY <2>3, <2>7, <3>1, <3>2, Zenon DEF Arrived
  <2>8. CASE ~(SaidOf(r, id, b) = {} \/ (logConfig.psrType = 0 /\ b # "L1"))
    <3>1. PICK q \in SaidOf(r, id, b) :
              (\A p \in SaidOf(r, id, b) : p <= q) /\ Holds(o, r.meas[q], b, codes[id].R)
      BY <2>4, <2>5, <2>6, <2>8, Zenon DEF Kept
    <3>2. r.meas[q].phase \in Int /\ r.meas[q].doppler \in Int
      BY <1>5, <3>1, Zenon DEF SaidOf, Measured, Measurement
    <3>3. r.bias[satsys(id)] \in Int
      BY <2>3, SystemOf, ReportsAssumption, Zenon
    <3>4. PICK code : code = CodeWith(r.meas[q], id, b, logConfig.psrType, codes)
      OBVIOUS
    <3>5. o.L = r.meas[q].phase /\ o.D = r.meas[q].doppler /\ o.slip = r.meas[q].lost /\ o.R = code
      BY <3>1, <3>4, Zenon DEF Holds, CodeIn, CodeWith
    <3>6. code \in Int
      <4>1. o.R \in Int
        BY <2>3 DEF Observation
      <4> QED
        BY <3>5, <4>1
    <3>7. Carries(clear[i].obs[b], r.meas[q], code, satwavelen(id, b),
                  r.bias[satsys(id)] * (LightSpeed - r.meas[q].doppler))
      BY <2>3, <3>2, <3>3, <3>5, <3>6, OffsetClears, Zenon
    <3> QED
      BY <2>3, <2>8, <3>1, <3>4, <3>7, Zenon DEF Arrived
  <2> QED
    BY <2>7, <2>8
<1>19. PICK w : w = [week |-> r.week, t |-> r.msec, n |-> n, slots |-> clear]
  OBVIOUS
<1>20. w.n = n /\ w.slots = clear
  BY <1>19
<1>21. FirstCome(w, r)
  <2>1. \A i \in 1..n : clear[i].id = slots[i].id
    BY <1>16
  <2>2. /\ \A i \in 1..n : clear[i].id \in Satellites(r)
        /\ \A i, k \in 1..n : i < k => ComesBefore(r, clear[i].id, clear[k].id)
    BY <1>10, <1>13, <2>1, Zenon DEF Queued
  <2>3. ASSUME NEW id \in Satellites(r)
        PROVE  \/ \E i \in 1..n : clear[i].id = id
               \/ n = MaxSat /\ \A i \in 1..MaxSat : ComesBefore(r, clear[i].id, id)
    BY <1>10, <1>12, <2>1, <2>3, Zenon DEF Queued, Has
  <2> QED
    BY <1>20, <2>2, <2>3, Zenon DEF FirstCome
<1>22. Epoch(w, r, logConfig.psrType, codes)
  BY <1>17, <1>18, <1>20, <1>21, Zenon DEF Epoch
<1> QED
  BY <1>1, <1>2, <1>3, <1>4, <1>14, <1>15, <1>19, <1>22, Zenon

-----------------------------------------------------------------------------
(* The mean.                                                                *)

History == Seq([x : Int, slips : Int])

\* A place of a history
LEMMA EntryOf == ASSUME NEW h \in History, NEW i \in 1..Len(h) PROVE h[i] \in [x : Int, slips : Int]
BY ElementOfSeq, Zenon DEF History

IsSum(s, c, f) == f = [i \in 0..c |-> IF i = 0 THEN 0 ELSE f[i - 1] + s[Len(s) - i + 1].x]

\* The sums of the last 0 to c
LEMMA SumExists ==
    ASSUME NEW s \in History, NEW c \in 0..Len(s)
    PROVE  \E f : IsSum(s, c, f)
<1> DEFINE step == [i \in 1..c |-> [d \in Int |-> d + s[Len(s) - i + 1].x]]
<1>1. Len(s) \in Nat /\ c \in Nat
  BY DEF History
<1>2. ASSUME NEW i \in 1..c PROVE s[Len(s) - i + 1].x \in Int
  <2>1. Len(s) - i + 1 \in 1..Len(s)
    BY <1>1
  <2>2. s[Len(s) - i + 1] \in [x : Int, slips : Int]
    BY <2>1, EntryOf, Zenon
  <2> QED
    BY <2>2
<1>3. step \in [1..c -> [Int -> Int]]
  BY <1>2
<1>4. 0 \in Int
  OBVIOUS
<1>5. PICK g : Stepwise(Int, 0, c, step, g)
  <2> HIDE DEF step
  <2> QED
    BY <1>1, <1>3, <1>4, StepByStep, Zenon
<1>6. ASSUME NEW i \in 1..c PROVE g[i] = g[i - 1] + s[Len(s) - i + 1].x
  <2>1. i - 1 \in 0..c
    BY <1>1
  <2>2. g[i - 1] \in Int /\ g[i] = step[i][g[i - 1]]
    BY <1>5, <2>1, Zenon DEF Stepwise
  <2> QED
    BY <2>2, Zenon
<1>7. ASSUME NEW i \in 0..c PROVE g[i] = IF i = 0 THEN 0 ELSE g[i - 1] + s[Len(s) - i + 1].x
  <2>1. CASE i = 0
    BY <1>5, <2>1, Zenon DEF Stepwise
  <2>2. CASE i # 0
    <3>1. i \in 1..c
      BY <1>1, <2>2
    <3> QED
      BY <1>6, <2>2, <3>1, Zenon
  <2> QED
    BY <2>1, <2>2
<1>8. g = [i \in 0..c |-> g[i]]
  BY <1>5, Zenon DEF Stepwise
<1>9. g = [i \in 0..c |-> IF i = 0 THEN 0 ELSE g[i - 1] + s[Len(s) - i + 1].x]
  BY <1>7, <1>8, Zenon
<1> QED
  BY <1>9, Zenon DEF IsSum

Sums(s, c, f) ==
    /\ f[0] = 0 /\ \A i \in 0..c : f[i] \in Int
    /\ \A i \in 1..c : f[i] = f[i - 1] + s[Len(s) - i + 1].x

\* The sum of the last is the last of such sums.
LEMMA TotalIs ==
    ASSUME NEW s \in History, NEW c \in 0..Len(s)
    PROVE  \E f : Sums(s, c, f) /\ Total(s, c) = f[c]
<1>1. Len(s) \in Nat /\ c \in Nat
  BY DEF History
<1>2. PICK f : f = CHOOSE g : IsSum(s, c, g)
  OBVIOUS
<1>3. IsSum(s, c, f)
  BY <1>2, SumExists, Zenon
<1>4. Total(s, c) = f[c]
  BY <1>2, Zenon DEF Total, IsSum
<1>5. f[0] = 0
  <2>1. 0 \in 0..c
    BY <1>1
  <2> QED
    BY <1>3, <2>1, Zenon DEF IsSum
<1>6. ASSUME NEW i \in 1..c PROVE f[i] = f[i - 1] + s[Len(s) - i + 1].x
  <2>1. i \in 0..c /\ i # 0
    BY <1>1
  <2> QED
    BY <1>3, <2>1, Zenon DEF IsSum
<1> DEFINE T == {i \in 0..c : f[i] \in Int}
<1>7. 0 \in T
  BY <1>1, <1>5
<1>8. ASSUME NEW i \in 0..(c - 1), i \in T PROVE i + 1 \in T
  <2>1. i + 1 \in 1..c /\ (i + 1) - 1 = i /\ Len(s) - (i + 1) + 1 \in 1..Len(s)
    BY <1>1
  <2>2. s[Len(s) - (i + 1) + 1] \in [x : Int, slips : Int]
    BY <2>1, EntryOf, Zenon
  <2>3. f[i + 1] = f[i] + s[Len(s) - (i + 1) + 1].x
    BY <1>6, <2>1
  <2>4. f[i + 1] \in Int
    BY <1>8, <2>2, <2>3
  <2> QED
    BY <2>1, <2>4
<1>9. 0..c \subseteq T
  <2> HIDE DEF T
  <2> QED
    BY <1>1, <1>7, <1>8, UpTo
<1>10. \A i \in 0..c : f[i] \in Int
  BY <1>9
<1> QED
  BY <1>4, <1>5, <1>6, <1>10, Zenon DEF Sums

\* The sum of one more
LEMMA TotalNext ==
    ASSUME NEW s \in History, NEW c \in 0..Len(s), NEW e \in [x : Int, slips : Int]
    PROVE  Total(Append(s, e), c + 1) = Total(s, c) + e.x /\ Total(s, c) \in Int
<1>1. PICK h : h = Append(s, e)
  OBVIOUS
<1>2. Len(s) \in Nat /\ c \in Nat /\ h \in History /\ Len(h) = Len(s) + 1 /\ h[Len(s) + 1] = e
      /\ \A i \in 1..Len(s) : h[i] = s[i]
  BY <1>1 DEF History
<1>3. PICK f : Sums(s, c, f) /\ Total(s, c) = f[c]
  BY TotalIs, Zenon
<1>4. PICK g : Sums(h, c + 1, g) /\ Total(h, c + 1) = g[c + 1]
  <2>1. c + 1 \in 0..Len(h)
    BY <1>2
  <2> QED
    BY <1>2, <2>1, TotalIs, Zenon
<1> DEFINE T == {i \in 0..c : g[i + 1] = f[i] + e.x}
<1>5. 0 \in T
  <2>1. 1 \in 1..(c + 1) /\ 1 - 1 = 0 /\ Len(h) - 1 + 1 = Len(s) + 1 /\ 0 + 1 = 1 /\ 0 \in 0..c
    BY <1>2
  <2>2. g[1] = g[1 - 1] + h[Len(h) - 1 + 1].x
    BY <1>4, <2>1, Zenon DEF Sums
  <2>3. g[0] = 0 /\ f[0] = 0
    BY <1>3, <1>4 DEF Sums
  <2>4. g[0 + 1] = f[0] + e.x
    BY <1>2, <2>1, <2>2, <2>3
  <2> QED
    BY <2>1, <2>4
<1>6. ASSUME NEW i \in 0..(c - 1), i \in T PROVE i + 1 \in T
  <2>1. i + 1 \in 1..c /\ (i + 1) + 1 \in 1..(c + 1) /\ i + 1 \in 0..c
    BY <1>2
  <2>2. ((i + 1) + 1) - 1 = i + 1 /\ (i + 1) - 1 = i /\ Len(h) - ((i + 1) + 1) + 1 = Len(s) - (i + 1) + 1
        /\ Len(s) - (i + 1) + 1 \in 1..Len(s)
    BY <1>2
  <2>3. g[(i + 1) + 1] = g[i + 1] + h[Len(h) - ((i + 1) + 1) + 1].x
    BY <1>4, <2>1, <2>2 DEF Sums
  <2>4. f[i + 1] = f[i] + s[Len(s) - (i + 1) + 1].x
    BY <1>3, <2>1, <2>2 DEF Sums
  <2>5. h[Len(h) - ((i + 1) + 1) + 1] = s[Len(s) - (i + 1) + 1]
    BY <1>2, <2>2
  <2>6. s[Len(s) - (i + 1) + 1] \in [x : Int, slips : Int]
    BY <2>2, EntryOf, Zenon
  <2>7. f[i] \in Int /\ e.x \in Int
    <3>1. i \in 0..c
      BY <1>2
    <3> QED
      BY <1>3, <3>1 DEF Sums
  <2>8. g[i + 1] = f[i] + e.x
    BY <1>6
  <2>9. PICK y \in Int : y = s[Len(s) - (i + 1) + 1].x
    BY <2>6
  <2>10. g[(i + 1) + 1] = (f[i] + e.x) + y /\ f[i + 1] = f[i] + y
    BY <2>3, <2>4, <2>5, <2>8, <2>9
  <2>11. g[(i + 1) + 1] = f[i + 1] + e.x
    BY <2>7, <2>9, <2>10
  <2> QED
    BY <2>1, <2>11
<1>7. 0..c \subseteq T
  <2> HIDE DEF T
  <2> QED
    BY <1>2, <1>5, <1>6, UpTo
<1>8. c \in 0..c
  BY <1>2
<1>9. g[c + 1] = f[c] + e.x /\ f[c] \in Int
  BY <1>3, <1>7, <1>8 DEF Sums
<1> QED
  BY <1>1, <1>3, <1>4, <1>9, Zenon

\* No sum of none
LEMMA TotalNone == ASSUME NEW s \in History PROVE Total(s, 0) = 0
<1>1. 0 \in 0..Len(s)
  BY DEF History
<1>2. PICK f : Sums(s, 0, f) /\ Total(s, 0) = f[0]
  BY <1>1, TotalIs, Zenon
<1> QED
  BY <1>2, Zenon DEF Sums

-----------------------------------------------------------------------------
(* One measurement more in a mean.                                          *)

\* New code less its carrier is the mean, rounded down.
Averages(M, new, code, phase, R, L, w) ==
    \E e \in 0..(M - 1) : M * (new - phase * w) = (code - phase * w) + (M - 1) * (R - L * w) - e

\* The mean of M - 1 times d and once x, in terms of code and carrier
LEMMA MeanStep ==
    ASSUME NEW M \in Nat \ {0}, NEW code \in Int, NEW phase \in Int, NEW R \in Int, NEW L \in Int, NEW w \in Int,
           NEW z, z = code + (M - 1) * (R + (phase - L) * w)
    PROVE  Averages(M, z \div M, code, phase, R, L, w)
<1>1. PICK p \in Int : p = phase * w
  OBVIOUS
<1>2. PICK q \in Int : q = L * w
  OBVIOUS
<1>3. (phase - L) * w = p - q
  BY <1>1, <1>2
<1>4. PICK d \in Int : d = R - q
  OBVIOUS
<1>5. R + (phase - L) * w = d + p
  BY <1>3, <1>4
<1>6. PICK g \in Int : g = (M - 1) * d
  OBVIOUS
<1>7. PICK v \in Int : v = M * p
  OBVIOUS
<1>8. (M - 1) * (d + p) = g + v - p
  <2>1. (M - 1) * (d + p) = (M - 1) * d + (M - 1) * p
    OBVIOUS
  <2>2. (M - 1) * p = M * p - p
    OBVIOUS
  <2> QED
    BY <1>6, <1>7, <2>1, <2>2
<1>9. z = code + (g + v - p)
  BY <1>5, <1>8
<1>10. z \in Int
  BY <1>9
<1>11. PICK k \in Int : k = z \div M
  BY <1>10
<1>12. PICK e \in Int : e = z % M
  BY <1>10
<1>13. z = k * M + e /\ e \in 0..(M - 1)
  BY <1>10, <1>11, <1>12
<1>14. M * (k - p) = k * M - v
  BY <1>7
<1>15. PICK u \in Int : u = k * M
  OBVIOUS
<1>16. M * (k - p) = (code - p) + g - e
  BY <1>9, <1>13, <1>14, <1>15
<1>17. M * (z \div M - phase * w) = (code - phase * w) + (M - 1) * (R - L * w) - e
  BY <1>1, <1>2, <1>4, <1>6, <1>11, <1>16
<1> QED
  BY <1>13, <1>17, Zenon DEF Averages

\* A product above minus its factor
LEMMA NotBelow ==
    ASSUME NEW M \in Nat \ {0}, NEW k \in Int, M * k > -M
    PROVE  k >= 0
<1>1. k <= -1 => M * k <= -M
  <2> SUFFICES ASSUME k <= -1 PROVE M * k <= -M
    OBVIOUS
  <2>1. PICK t \in Nat : k = -1 - t
    <3>1. -1 - k \in Nat /\ k = -1 - (-1 - k)
      OBVIOUS
    <3> QED
      BY <3>1
  <2>2. PICK v \in Nat : v = M * t
    OBVIOUS
  <2>3. M * k = -M - v
    BY <2>1, <2>2
  <2> QED
    BY <2>2, <2>3
<1>2. PICK y \in Int : y = M * k
  OBVIOUS
<1> QED
  BY <1>1, <1>2

\* Such a mean lies between the two, also when it is rounded down.
LEMMA Between ==
    ASSUME NEW M \in Nat \ {0}, NEW d \in Int, NEW x \in Int, NEW y \in Int, NEW e \in 0..(M - 1),
           M * y = x + (M - 1) * d - e
    PROVE  (d <= x => d <= y /\ y <= x) /\ (x <= d => x <= y /\ y <= d)
<1>1. PICK a \in Int : a = M * y
  OBVIOUS
<1>2. PICK g \in Int : g = M * d
  OBVIOUS
<1>3. PICK h \in Int : h = M * x
  OBVIOUS
<1>4. a = x + g - d - e
  <2>1. (M - 1) * d = g - d
    BY <1>2
  <2> QED
    BY <1>1, <2>1
<1>5. M * (y - d) = a - g /\ M * (x - y) = h - a /\ M * (y - x) = a - h /\ M * (d - y) = g - a
  BY <1>1, <1>2, <1>3
<1>6. ASSUME d <= x PROVE d <= y /\ y <= x
  <2>1. M * (y - d) > -M
    BY <1>4, <1>5, <1>6
  <2>2. y - d >= 0
    BY <2>1, NotBelow
  <2>3. PICK t \in Nat : t = x - d
    BY <1>6
  <2>4. PICK u \in Nat : u = (M - 1) * t
    OBVIOUS
  <2>5. u = (h - x) - (g - d)
    <3>1. u = M * t - t
      BY <2>4
    <3>2. M * t = h - g
      BY <1>2, <1>3, <2>3
    <3> QED
      BY <2>3, <3>1, <3>2
  <2>6. M * (x - y) > -M
    BY <1>4, <1>5, <2>5
  <2>7. x - y >= 0
    BY <2>6, NotBelow
  <2> QED
    BY <2>2, <2>7
<1>7. ASSUME x <= d PROVE x <= y /\ y <= d
  <2>1. M * (d - y) > -M
    BY <1>4, <1>5, <1>7
  <2>2. d - y >= 0
    BY <2>1, NotBelow
  <2>3. PICK t \in Nat : t = d - x
    BY <1>7
  <2>4. PICK u \in Nat : u = (M - 1) * t
    OBVIOUS
  <2>5. u = (g - d) - (h - x)
    <3>1. u = M * t - t
      BY <2>4
    <3>2. M * t = g - h
      BY <1>2, <1>3, <2>3
    <3> QED
      BY <2>3, <3>1, <3>2
  <2>6. M * (y - x) > -M
    BY <1>4, <1>5, <2>5
  <2>7. y - x >= 0
    BY <2>6, NotBelow
  <2> QED
    BY <2>2, <2>7
<1> QED
  BY <1>6, <1>7

\* What rounding has cost after one more
LEMMA CostNext ==
    ASSUME NEW c \in Nat, NEW d \in Int, NEW x \in Int, NEW y \in Int, NEW e \in 0..c, NEW T \in Int,
           (c + 1) * y = x + c * d - e, 2 * (T - d * c) \in 0..c * (c - 1)
    PROVE  2 * ((T + x) - y * (c + 1)) \in 0..(c + 1) * ((c + 1) - 1)
<1>1. PICK p \in Int : p = d * c
  OBVIOUS
<1>2. PICK s \in Int : s = c * c
  OBVIOUS
<1>3. c * (c - 1) = s - c /\ (c + 1) * ((c + 1) - 1) = s + c /\ c * d = p
  BY <1>1, <1>2
<1>4. PICK a \in Int : a = y * (c + 1)
  OBVIOUS
<1>5. a = x + p - e
  <2>1. (c + 1) * y = a
    BY <1>4
  <2> QED
    BY <1>3, <2>1
<1>6. 2 * (T - p) >= 0 /\ 2 * (T - p) <= s - c
  BY <1>1, <1>3
<1>7. 2 * ((T + x) - a) \in 0..(s + c)
  BY <1>5, <1>6
<1> QED
  BY <1>3, <1>4, <1>7

Entry == [x : Int, slips : Int]

\* s adds to the carrier the mean of the last of h.
MeanOf(s, h, w, limit) ==
    LET d == s.R - s.L * w
        n == Len(h)
    IN  /\ s.count \in 1..n
        /\ s.count <= limit => 2 * (Total(h, s.count) - d * s.count) \in 0..s.count * (s.count - 1)
        /\ \E i, k \in (n - s.count + 1)..n : h[i].x <= d /\ d <= h[k].x

\* The smoothed code and the history of a satellite agree.
Agreed(s, h, w, limit) ==
    /\ s \in SmoothRecord /\ h \in History
    /\ h = <<>> => s = NoSmooth
    /\ h # <<>> => MeanOf(s, h, w, limit) /\ s.lli = Last(h).slips

\* The mean of one difference
LEMMA MeanOfOne ==
    ASSUME NEW h \in History, NEW e \in Entry, NEW s \in SmoothRecord, NEW w \in Int, NEW limit,
           s.count = 1, s.R - s.L * w = e.x
    PROVE  MeanOf(s, Append(h, e), w, limit)
<1>1. PICK g : g = Append(h, e)
  OBVIOUS
<1>2. Len(h) \in Nat /\ Len(g) = Len(h) + 1 /\ g[Len(g)] = e /\ g \in History
  BY <1>1 DEF History, Entry
<1>3. Total(g, 1) = e.x /\ e.x \in Int
  <2>1. 0 \in 0..Len(h) /\ 0 + 1 = 1
    BY <1>2
  <2>2. Total(g, 0 + 1) = Total(h, 0) + e.x
    BY <1>1, <2>1, TotalNext, Zenon DEF Entry
  <2>3. Total(h, 0) = 0
    BY TotalNone
  <2>4. e.x \in Int
    BY DEF Entry
  <2> QED
    BY <2>1, <2>2, <2>3, <2>4
<1>4. PICK d : d = s.R - s.L * w
  OBVIOUS
<1>5. PICK n : n = Len(g)
  OBVIOUS
<1>6. n \in Nat /\ n >= 1 /\ n \in (n - s.count + 1)..n /\ s.count \in 1..n
  BY <1>2, <1>5
<1>7. g[n].x <= d /\ d <= g[n].x
  BY <1>2, <1>3, <1>4, <1>5
<1>8. 2 * (Total(g, s.count) - d * s.count) \in 0..s.count * (s.count - 1)
  BY <1>3, <1>4
<1>9. \E i, k \in (n - s.count + 1)..n : g[i].x <= d /\ d <= g[k].x
  BY <1>6, <1>7, Zenon
<1>10. MeanOf(s, g, w, limit)
  BY <1>4, <1>5, <1>6, <1>8, <1>9, Zenon DEF MeanOf
<1> QED
  BY <1>1, <1>10, Zenon

\* The mean of one more
LEMMA MeanOfMore ==
    ASSUME NEW h \in History, NEW e \in Entry, NEW s \in SmoothRecord, NEW w \in Int, NEW limit \in Nat \ {0},
           NEW M, M = IF s.count < limit THEN s.count + 1 ELSE limit,
           MeanOf(s, h, w, limit), NEW t \in SmoothRecord, t.count = s.count + 1, NEW c \in 0..(M - 1),
           M * (t.R - t.L * w) = e.x + (M - 1) * (s.R - s.L * w) - c
    PROVE  MeanOf(t, Append(h, e), w, limit)
<1>1. PICK g : g = Append(h, e)
  OBVIOUS
<1>2. Len(h) \in Nat /\ Len(g) = Len(h) + 1 /\ g[Len(g)] = e /\ g \in History /\ \A i \in 1..Len(h) : g[i] = h[i]
  BY <1>1 DEF History, Entry
<1>3. PICK d : d = s.R - s.L * w
  OBVIOUS
<1>4. PICK y : y = t.R - t.L * w
  OBVIOUS
<1>5. d \in Int /\ y \in Int
  BY <1>3, <1>4 DEF SmoothRecord
<1>6. PICK n : n = Len(h)
  OBVIOUS
<1>7. /\ s.count \in 1..n
      /\ s.count <= limit => 2 * (Total(h, s.count) - d * s.count) \in 0..s.count * (s.count - 1)
      /\ \E i, k \in (n - s.count + 1)..n : h[i].x <= d /\ d <= h[k].x
  BY <1>3, <1>6, Zenon DEF MeanOf
<1>8. n \in Nat /\ s.count \in Nat /\ M \in Nat \ {0} /\ e.x \in Int
  <2>1. n \in Nat /\ e.x \in Int
    BY <1>2, <1>6 DEF Entry
  <2>2. s.count \in Nat
    BY <1>7, <2>1
  <2>3. M \in Nat \ {0}
    BY <2>2
  <2> QED
    BY <2>1, <2>2, <2>3
<1>9. M * y = e.x + (M - 1) * d - c
  BY <1>3, <1>4
<1>10. (d <= e.x => d <= y /\ y <= e.x) /\ (e.x <= d => e.x <= y /\ y <= d)
  BY <1>5, <1>8, <1>9, Between
<1>11. t.count \in 1..(n + 1)
  BY <1>7, <1>8
<1>12. ASSUME t.count <= limit PROVE 2 * (Total(g, t.count) - y * t.count) \in 0..t.count * (t.count - 1)
  <2>1. PICK q \in Nat : q = s.count
    BY <1>8
  <2>2. M = q + 1 /\ q <= limit
    BY <1>8, <1>12, <2>1
  <2>3. 2 * (Total(h, q) - d * q) \in 0..q * (q - 1)
    BY <1>7, <2>1, <2>2
  <2>4. q \in 0..Len(h)
    BY <1>6, <1>7, <1>8, <2>1
  <2>5. Total(g, q + 1) = Total(h, q) + e.x /\ Total(h, q) \in Int
    BY <1>1, <2>4, TotalNext, Zenon DEF Entry
  <2>6. c \in 0..q /\ (q + 1) * y = e.x + q * d - c
    <3>1. M - 1 = q
      BY <2>1, <2>2
    <3> QED
      BY <1>9, <2>2, <3>1, Zenon
  <2>7. 2 * ((Total(h, q) + e.x) - y * (q + 1)) \in 0..(q + 1) * ((q + 1) - 1)
    BY <1>5, <1>8, <2>3, <2>5, <2>6, CostNext
  <2> QED
    BY <2>1, <2>5, <2>7, Zenon
<1>13. PICK i \in (n - s.count + 1)..n, k \in (n - s.count + 1)..n : h[i].x <= d /\ d <= h[k].x
  BY <1>7
<1>14. /\ i \in 1..n /\ k \in 1..n /\ n + 1 = Len(g)
       /\ i \in ((n + 1) - t.count + 1)..(n + 1) /\ k \in ((n + 1) - t.count + 1)..(n + 1)
       /\ n + 1 \in ((n + 1) - t.count + 1)..(n + 1)
  <2>1. PICK q \in Nat : q = s.count
    BY <1>8
  <2>2. q \in 1..n /\ i \in (n - q + 1)..n /\ k \in (n - q + 1)..n /\ t.count = q + 1
    BY <1>7, <1>13, <2>1
  <2>3. /\ i \in 1..n /\ k \in 1..n
        /\ i \in ((n + 1) - (q + 1) + 1)..(n + 1) /\ k \in ((n + 1) - (q + 1) + 1)..(n + 1)
        /\ n + 1 \in ((n + 1) - (q + 1) + 1)..(n + 1)
    BY <1>8, <2>2
  <2> QED
    BY <1>2, <1>6, <2>2, <2>3
<1>15. g[i].x <= d /\ d <= g[k].x /\ g[n + 1].x = e.x
  BY <1>2, <1>6, <1>13, <1>14
<1>16. g[i].x \in Int /\ g[k].x \in Int
  <2>1. i \in 1..Len(g) /\ k \in 1..Len(g)
    BY <1>14, <1>2, <1>6, <1>8
  <2>2. g[i] \in [x : Int, slips : Int] /\ g[k] \in [x : Int, slips : Int]
    BY <1>2, <2>1, EntryOf, Zenon
  <2> QED
    BY <2>2
<1>17. \E a, b \in ((n + 1) - t.count + 1)..(n + 1) : g[a].x <= y /\ y <= g[b].x
  <2>1. CASE d <= e.x
    <3>1. g[i].x <= y /\ y <= g[n + 1].x
      BY <1>5, <1>8, <1>10, <1>15, <1>16, <2>1
    <3> QED
      BY <1>14, <3>1, Zenon
  <2>2. CASE e.x <= d
    <3>1. g[n + 1].x <= y /\ y <= g[k].x
      BY <1>5, <1>8, <1>10, <1>15, <1>16, <2>2
    <3> QED
      BY <1>14, <3>1, Zenon
  <2> QED
    BY <1>5, <1>8, <2>1, <2>2
<1>18. MeanOf(t, g, w, limit)
  <2>1. n + 1 = Len(g)
    BY <1>14
  <2> QED
    BY <1>4, <1>11, <1>12, <1>17, <2>1, Zenon DEF MeanOf
<1> QED
  BY <1>1, <1>18, Zenon

\* A history without a slip before m
Unslipped(h, m) == IF h # <<>> /\ Last(h).slips # m.slips THEN <<>> ELSE h
EntryFor(m, w) == [x |-> m.code - m.phase * w, slips |-> m.slips]

\* Smoothing one more measurement of a satellite keeps its code the mean.
LEMMA AgreedNext ==
    ASSUME LimitOK, logConfig.psrType # 0, NEW s, NEW h, NEW w \in Nat \ {0}, Agreed(s, h, w, logConfig.smoothCnt),
           NEW m, m.code \in Int, m.phase \in Int, m.slips \in Int
    PROVE  Agreed(Smoothed(s, m, w), Append(Unslipped(h, m), EntryFor(m, w)), w, logConfig.smoothCnt)
<1>1. PICK limit : limit = logConfig.smoothCnt
  OBVIOUS
<1>2. limit \in Nat \ {0}
  BY <1>1 DEF LimitOK
<1>3. s \in SmoothRecord /\ h \in History /\ s.R \in Int /\ s.L \in Int /\ s.count \in Nat
  BY DEF Agreed, SmoothRecord
<1>4. PICK M : M = Weight(s)
  OBVIOUS
<1>5. M = (IF s.count < limit THEN s.count + 1 ELSE limit) /\ M \in Nat \ {0}
  BY <1>1, <1>2, <1>3, <1>4 DEF Weight
<1>20. M \in Nat \ {0}
  BY <1>5, Zenon
<1>6. PICK z : z = m.code + (M - 1) * (s.R + (m.phase - s.L) * w)
  OBVIOUS
<1>7. PICK R : R = z \div M
  OBVIOUS
<1> DEFINE far == R - m.code > 20 * Metre \/ m.code - R > 20 * Metre
           keeps == s.lli = m.slips /\ s.L # 0 /\ ~far
<1>8. PICK t : t = Smoothed(s, m, w)
  OBVIOUS
<1>9. t = [R |-> IF keeps THEN R ELSE m.code, L |-> m.phase, lli |-> m.slips,
           count |-> IF keeps THEN s.count + 1 ELSE 1]
  BY <1>4, <1>6, <1>7, <1>8, Zenon DEF Smoothed
<1> HIDE DEF far
<1>10. t \in SmoothRecord
  BY <1>3, <1>8, SmoothedType, Zenon
<1>11. PICK e : e = EntryFor(m, w)
  OBVIOUS
<1>12. e \in Entry /\ e.x = m.code - m.phase * w /\ e.slips = m.slips
  BY <1>11 DEF EntryFor, Entry
<1>13. PICK u : u = Unslipped(h, m)
  OBVIOUS
<1>14. u \in History
  BY <1>3, <1>13 DEF Unslipped, History
<1>15. PICK g : g = Append(u, e)
  OBVIOUS
<1>16. g \in History /\ g # <<>> /\ Last(g) = e
  BY <1>12, <1>14, <1>15 DEF History, Entry, Last
<1>17. t.lli = m.slips /\ t.L = m.phase
  BY <1>9
<1>18. CASE ~keeps
  <2>1. t.R = m.code /\ t.count = 1
    BY <1>9, <1>18
  <2>2. t.R - t.L * w = e.x
    BY <1>12, <1>17, <2>1
  <2>3. MeanOf(t, g, w, limit)
    <3>1. w \in Int
      OBVIOUS
    <3> QED
      BY <1>10, <1>12, <1>14, <1>15, <2>1, <2>2, <3>1, MeanOfOne, Zenon
  <2>4. Agreed(t, g, w, limit)
    BY <1>10, <1>12, <1>16, <1>17, <2>3, Zenon DEF Agreed
  <2> QED
    BY <1>1, <1>8, <1>11, <1>13, <1>15, <2>4, Zenon
<1>19. CASE keeps
  <2>1. t.R = R /\ t.count = s.count + 1
    BY <1>9, <1>19
  <2>2. h # <<>>
    <3>1. s # NoSmooth
      BY <1>19 DEF NoSmooth
    <3> QED
      BY <3>1, Zenon DEF Agreed
  <2>3. MeanOf(s, h, w, limit) /\ s.lli = Last(h).slips
    BY <1>1, <2>2, Zenon DEF Agreed
  <2>4. u = h
    BY <1>13, <1>19, <2>3, Zenon DEF Unslipped
  <2>5. PICK c \in 0..(M - 1) : M * (R - m.phase * w) = (m.code - m.phase * w) + (M - 1) * (s.R - s.L * w) - c
    <3>1. w \in Int
      OBVIOUS
    <3>2. Averages(M, R, m.code, m.phase, s.R, s.L, w)
      BY <1>3, <1>6, <1>7, <1>20, <3>1, MeanStep, Zenon
    <3> QED
      BY <3>2, Zenon DEF Averages
  <2>6. M * (t.R - t.L * w) = e.x + (M - 1) * (s.R - s.L * w) - c
    BY <1>12, <1>17, <2>1, <2>5, Zenon
  <2>7. MeanOf(t, g, w, limit)
    <3>1. w \in Int
      OBVIOUS
    <3> QED
      BY <1>2, <1>3, <1>5, <1>10, <1>12, <1>15, <2>1, <2>3, <2>4, <2>6, <3>1, MeanOfMore, Zenon
  <2>8. Agreed(t, g, w, limit)
    BY <1>10, <1>12, <1>16, <1>17, <2>7, Zenon DEF Agreed
  <2> QED
    BY <1>1, <1>8, <1>11, <1>13, <1>15, <2>8, Zenon
<1> QED
  BY <1>18, <1>19

-----------------------------------------------------------------------------
(* Smoothed codes and histories, measurement by measurement.                *)

IsFollowing(r, f) ==
    f = [k \in 0..Len(r.meas) |-> IF k = 0 THEN since ELSE Followed(f[k - 1], r.meas[k])]

\* A measurement of L1 is one more of its satellite.
LEMMA FollowedIs ==
    ASSUME NEW acc \in [Ids -> History], NEW m
    PROVE  Followed(acc, m) =
              IF IdOf(m) = 0 \/ sigtype(m.sig) # "L1" THEN acc
              ELSE [acc EXCEPT ![IdOf(m)] =
                      Append(Unslipped(acc[IdOf(m)], m), EntryFor(m, satwavelen(IdOf(m), "L1")))]
<1>1. PICK id : id = IdOf(m)
  OBVIOUS
<1>2. CASE id = 0 \/ sigtype(m.sig) # "L1"
  BY <1>1, <1>2, Zenon DEF Followed, IdOf
<1>3. CASE ~(id = 0 \/ sigtype(m.sig) # "L1")
  <2>1. id \in Ids
    <3>1. id \in Ids \cup {0}
      BY <1>1, NameKnown, Zenon DEF IdOf
    <3> QED
      BY <1>3, <3>1
  <2>2. PICK slipped : slipped = (id \in Ids /\ acc[id] # <<>> /\ Last(acc[id]).slips # m.slips)
    OBVIOUS
  <2>3. PICK e : e = EntryFor(m, satwavelen(id, "L1"))
    OBVIOUS
  <2>4. Followed(acc, m) = [acc EXCEPT ![id] = Append(IF slipped THEN <<>> ELSE @, e)]
    BY <1>1, <1>3, <2>2, <2>3, Zenon DEF Followed, IdOf, EntryFor
  <2>5. (IF slipped THEN <<>> ELSE acc[id]) = Unslipped(acc[id], m)
    <3>1. slipped <=> acc[id] # <<>> /\ Last(acc[id]).slips # m.slips
      BY <2>1, <2>2
    <3> QED
      BY <3>1, Zenon DEF Unslipped
  <2>6. Followed(acc, m) = [acc EXCEPT ![id] = Append(IF slipped THEN <<>> ELSE acc[id], e)]
    BY <2>1, <2>4
  <2> QED
    BY <1>1, <1>3, <2>3, <2>5, <2>6, Zenon
<1> QED
  BY <1>2, <1>3

\* Its history stays one.
LEMMA FollowedClosed ==
    ASSUME NEW acc \in [Ids -> History], NEW S, NEW m, Measurement(m, S)
    PROVE  Followed(acc, m) \in [Ids -> History]
<1>1. PICK id : id = IdOf(m)
  OBVIOUS
<1>2. CASE id = 0 \/ sigtype(m.sig) # "L1"
  BY <1>1, <1>2, FollowedIs, Zenon
<1>3. CASE ~(id = 0 \/ sigtype(m.sig) # "L1")
  <2>1. id \in Ids
    <3>1. id \in Ids \cup {0}
      BY <1>1, NameKnown, Zenon DEF IdOf
    <3> QED
      BY <1>3, <3>1
  <2>2. PICK w : w = satwavelen(id, "L1")
    OBVIOUS
  <2>3. w \in Nat \ {0}
    <3>1. "L1" \in Band
      BY DEF Band
    <3> QED
      BY <2>1, <2>2, <3>1, WaveOf, Zenon
  <2>4. EntryFor(m, w) \in [x : Int, slips : Int]
    BY <2>3 DEF EntryFor, Measurement
  <2>5. Unslipped(acc[id], m) \in History
    <3>1. acc[id] \in History
      BY <2>1, Zenon
    <3> QED
      BY <3>1 DEF Unslipped, History
  <2>6. Append(Unslipped(acc[id], m), EntryFor(m, w)) \in History
    <3>1. PICK u : u = Unslipped(acc[id], m)
      OBVIOUS
    <3>2. PICK e : e = EntryFor(m, w)
      OBVIOUS
    <3>3. Append(u, e) \in History
      BY <2>4, <2>5, <3>1, <3>2 DEF History
    <3> QED
      BY <3>1, <3>2, <3>3, Zenon
  <2>7. Followed(acc, m) = [acc EXCEPT ![id] = Append(Unslipped(acc[id], m), EntryFor(m, w))]
    BY <1>1, <1>3, <2>2, FollowedIs, Zenon
  <2> QED
    BY <2>1, <2>6, <2>7, Zenon
<1> QED
  BY <1>2, <1>3

FollowsAll(r, f) ==
    /\ f \in [0..Len(r.meas) -> [Ids -> History]] /\ f[0] = since
    /\ \A k \in 1..Len(r.meas) : f[k] = Followed(f[k - 1], r.meas[k])

\* There are histories after every measurement.
LEMMA FollowingExists ==
    ASSUME since \in [Ids -> History], NEW r, Measured(r)
    PROVE  \E f : IsFollowing(r, f)
<1> DEFINE n == Len(r.meas)
           D == [Ids -> History]
           step == [k \in 1..n |-> [d \in D |-> Followed(d, r.meas[k])]]
<1>1. n \in Nat /\ \A k \in 1..n : Measurement(r.meas[k], Marks(r))
  BY Zenon DEF Measured
<1>2. since \in D
  OBVIOUS
<1>3. step \in [1..n -> [D -> D]]
  <2> SUFFICES ASSUME NEW k \in 1..n, NEW d \in D PROVE Followed(d, r.meas[k]) \in D
    OBVIOUS
  <2> QED
    BY <1>1, FollowedClosed, Zenon
<1>4. PICK g : Stepwise(D, since, n, step, g)
  <2> HIDE DEF D, step
  <2> QED
    BY <1>1, <1>2, <1>3, StepByStep, Zenon
<1>5. ASSUME NEW k \in 1..n PROVE g[k] = Followed(g[k - 1], r.meas[k])
  <2>1. k - 1 \in 0..n
    BY <1>1
  <2>2. g[k - 1] \in D /\ g[k] = step[k][g[k - 1]]
    BY <1>4, <2>1, Zenon DEF Stepwise
  <2> HIDE DEF D
  <2> QED
    BY <2>2, Zenon
<1>6. ASSUME NEW k \in 0..n PROVE g[k] = IF k = 0 THEN since ELSE Followed(g[k - 1], r.meas[k])
  <2>1. CASE k = 0
    BY <1>4, <2>1, Zenon DEF Stepwise
  <2>2. CASE k # 0
    <3>1. k \in 1..n
      BY <1>1, <2>2
    <3> QED
      BY <1>5, <2>2, <3>1, Zenon
  <2> QED
    BY <2>1, <2>2
<1>7. g = [k \in 0..n |-> g[k]]
  BY <1>4, Zenon DEF Stepwise
<1>8. g = [k \in 0..n |-> IF k = 0 THEN since ELSE Followed(g[k - 1], r.meas[k])]
  BY <1>6, <1>7, Zenon
<1> QED
  BY <1>8, Zenon DEF IsFollowing

\* So that they are what the steps make of them.
LEMMA FollowingIs ==
    ASSUME since \in [Ids -> History], NEW r, Measured(r)
    PROVE  FollowsAll(r, Following(r))
<1> DEFINE n == Len(r.meas)
           D == [Ids -> History]
<1>1. PICK f : f = Following(r)
  OBVIOUS
<1>2. IsFollowing(r, f)
  <2>1. f = CHOOSE p : IsFollowing(r, p)
    BY <1>1, Zenon DEF Following, IsFollowing
  <2> QED
    BY <2>1, FollowingExists, Zenon
<1>3. n \in Nat /\ \A k \in 1..n : Measurement(r.meas[k], Marks(r))
  BY Zenon DEF Measured
<1>4. f[0] = since /\ f = [k \in 0..n |-> f[k]]
  <2>1. 0 \in 0..n
    BY <1>3
  <2> QED
    BY <1>2, <2>1, Zenon DEF IsFollowing
<1>5. ASSUME NEW k \in 1..n PROVE f[k] = Followed(f[k - 1], r.meas[k])
  <2>1. k \in 0..n /\ k # 0
    BY <1>3
  <2> QED
    BY <1>2, <2>1, Zenon DEF IsFollowing
<1> DEFINE T == {k \in 0..n : f[k] \in D}
<1>6. 0 \in T
  <2>1. 0 \in 0..n
    BY <1>3
  <2> QED
    BY <1>4, <2>1, Zenon
<1>7. ASSUME NEW k \in 0..(n - 1), k \in T PROVE k + 1 \in T
  <2>1. k + 1 \in 1..n /\ (k + 1) - 1 = k /\ k + 1 \in 0..n
    BY <1>3
  <2>2. f[k + 1] = Followed(f[k], r.meas[k + 1])
    BY <1>5, <2>1
  <2>3. f[k] \in D
    BY <1>7, Zenon
  <2> QED
    BY <1>3, <2>1, <2>2, <2>3, FollowedClosed, Zenon
<1>8. 0..n \subseteq T
  <2> HIDE DEF T
  <2> QED
    BY <1>3, <1>6, <1>7, UpTo
<1>9. f \in [0..n -> D]
  <2>1. \A k \in 0..n : f[k] \in D
    <3> HIDE DEF D
    <3> QED
      BY <1>8, Zenon
  <2> QED
    BY <1>4, <2>1, Zenon
<1> QED
  BY <1>1, <1>4, <1>5, <1>9, Zenon DEF FollowsAll

\* Every satellite's code is the mean of its history.
AllAgreed(sm, hist, limit) == \A id \in Ids : Agreed(sm[id], hist[id], satwavelen(id, "L1"), limit)

\* One measurement of a report that fits goes to the code and the history of the same satellite.
LEMMA LockStep ==
    ASSUME LimitOK, logConfig.psrType # 0, NEW r, Measured(r), Cardinality(Satellites(r)) <= MaxSat,
           NEW k \in 0..(Len(r.meas) - 1), NEW a \in Accumulators(Marks(r)), NEW n, Sorted(r, k, a.slots, a.smooth, n),
           NEW hist \in [Ids -> History], AllAgreed(a.smooth, hist, logConfig.smoothCnt)
    PROVE  AllAgreed(Store(a, r.meas[k + 1]).smooth, Followed(hist, r.meas[k + 1]), logConfig.smoothCnt)
<1>1. PICK m : m = r.meas[k + 1]
  OBVIOUS
<1>2. PICK id : id = IdOf(m)
  OBVIOUS
<1>3. PICK limit : limit = logConfig.smoothCnt
  OBVIOUS
<1>4. Len(r.meas) \in Nat /\ k + 1 \in 1..Len(r.meas)
  BY DEF Measured
<1>5. m.code \in Int /\ m.phase \in Int /\ m.slips \in Int
  BY <1>1, <1>4, Zenon DEF Measured, Measurement
<1>6. PICK st : st = Store(a, m)
  OBVIOUS
<1>7. PICK fo : fo = Followed(hist, m)
  OBVIOUS
<1>8. CASE id = 0
  <2>1. st = a
    BY <1>2, <1>6, <1>8, Zenon DEF Store, IdOf
  <2>2. fo = hist
    BY <1>2, <1>7, <1>8, FollowedIs, Zenon
  <2> QED
    BY <1>1, <1>6, <1>7, <2>1, <2>2, Zenon
<1>9. CASE id # 0
  <2>1. PICK j : j = searchsat(a.slots, id, a.j)
    OBVIOUS
  <2>2. HolderOf(a, m) = id
    BY <1>1, <1>2, <1>4, <1>9, SlotFound, Zenon
  <2>3. Stores(a, m, j, id, st)
    BY <1>2, <1>6, <1>9, <2>1, <2>2, StoreIs, Zenon
  <2>4. CASE ~Smoothing(m)
    <3>1. st.smooth = a.smooth
      BY <2>3, <2>4, Zenon DEF Stores
    <3>2. fo = hist
      <4>1. sigtype(m.sig) # "L1"
        BY <2>4, Zenon DEF Smoothing
      <4> QED
        BY <1>2, <1>7, <4>1, FollowedIs, Zenon
    <3> QED
      BY <1>1, <1>6, <1>7, <3>1, <3>2, Zenon
  <2>5. CASE Smoothing(m)
    <3>1. PICK w : w = satwavelen(id, "L1")
      OBVIOUS
    <3>2. id \in Ids
      <4>1. id \in Ids \cup {0}
        BY <1>2, NameKnown, Zenon DEF IdOf
      <4> QED
        BY <1>9, <4>1
    <3>3. w \in Nat \ {0}
      <4>1. "L1" \in Band
        BY DEF Band
      <4> QED
        BY <3>1, <3>2, <4>1, WaveOf, Zenon
    <3>4. PICK s : s = Smoothed(a.smooth[id], m, w)
      OBVIOUS
    <3>5. PICK h : h = Append(Unslipped(hist[id], m), EntryFor(m, w))
      OBVIOUS
    <3>6. st.smooth = [a.smooth EXCEPT ![id] = s] /\ a.smooth \in [Ids -> SmoothRecord]
      BY <2>3, <2>5, <3>1, <3>4, Zenon DEF Stores, Accumulators
    <3>7. fo = [hist EXCEPT ![id] = h]
      <4>1. sigtype(m.sig) = "L1"
        BY <2>5, Zenon DEF Smoothing
      <4> QED
        BY <1>2, <1>7, <1>9, <3>1, <3>5, <4>1, FollowedIs, Zenon
    <3>8. Agreed(s, h, w, limit)
      <4>1. Agreed(a.smooth[id], hist[id], w, logConfig.smoothCnt)
        BY <3>1, <3>2, Zenon DEF AllAgreed
      <4> QED
        BY <1>3, <1>5, <3>3, <3>4, <3>5, <4>1, AgreedNext, Zenon
    <3>9. ASSUME NEW i \in Ids PROVE Agreed(st.smooth[i], fo[i], satwavelen(i, "L1"), limit)
      <4>1. CASE i = id
        <5>1. st.smooth[i] = s /\ fo[i] = h
          BY <3>2, <3>6, <3>7, <4>1, Zenon
        <5> QED
          BY <3>1, <3>8, <4>1, <5>1, Zenon
      <4>2. CASE i # id
        <5>1. st.smooth[i] = a.smooth[i] /\ fo[i] = hist[i]
          BY <3>2, <3>6, <3>7, <4>2, Zenon
        <5> QED
          BY <1>3, <5>1, Zenon DEF AllAgreed
      <4> QED
        BY <4>1, <4>2
    <3>10. AllAgreed(st.smooth, fo, limit)
      BY <3>9, Zenon DEF AllAgreed
    <3> QED
      BY <1>1, <1>3, <1>6, <1>7, <3>10, Zenon
  <2> QED
    BY <2>4, <2>5
<1> QED
  BY <1>8, <1>9

\* And so do all measurements of it.
LEMMA LockSteps ==
    ASSUME LimitOK, logConfig.psrType # 0, NEW r, Measured(r), Cardinality(Satellites(r)) <= MaxSat,
           smooth \in [Ids -> SmoothRecord], since \in [Ids -> History],
           AllAgreed(smooth, since, logConfig.smoothCnt)
    PROVE  AllAgreed(Storing(r)[Len(r.meas)].smooth, Following(r)[Len(r.meas)], logConfig.smoothCnt)
<1>1. PICK f : f = Storing(r)
  OBVIOUS
<1>2. PICK g : g = Following(r)
  OBVIOUS
<1>3. StoresAll(r, f) /\ FollowsAll(r, g)
  BY <1>1, <1>2, StoringIs, FollowingIs, Zenon
<1> DEFINE top == Len(r.meas)
           T == {k \in 0..top : AllAgreed(f[k].smooth, g[k], logConfig.smoothCnt)}
<1>4. top \in Nat
  BY Zenon DEF Measured
<1>5. 0 \in T
  <2>1. f[0].smooth = smooth /\ g[0] = since /\ 0 \in 0..top
    BY <1>3, <1>4 DEF StoresAll, FollowsAll
  <2> QED
    BY <2>1, Zenon
<1>6. ASSUME NEW k \in 0..(top - 1), k \in T PROVE k + 1 \in T
  <2>1. k + 1 \in 1..top /\ (k + 1) - 1 = k /\ k + 1 \in 0..top /\ k \in 0..top
    BY <1>4
  <2>2. PICK n : Sorted(r, k, f[k].slots, f[k].smooth, n)
    BY <1>3, <2>1, AllSorted, Zenon
  <2>3. f[k + 1] = Store(f[k], r.meas[k + 1]) /\ f[k] \in Accumulators(Marks(r))
    BY <1>3, <2>1 DEF StoresAll
  <2>4. g[k + 1] = Followed(g[k], r.meas[k + 1]) /\ g[k] \in [Ids -> History]
    BY <1>3, <2>1 DEF FollowsAll
  <2>5. AllAgreed(f[k].smooth, g[k], logConfig.smoothCnt)
    BY <1>6, Zenon
  <2>6. AllAgreed(Store(f[k], r.meas[k + 1]).smooth, Followed(g[k], r.meas[k + 1]), logConfig.smoothCnt)
    BY <2>2, <2>3, <2>4, <2>5, LockStep, Zenon
  <2> QED
    BY <2>1, <2>3, <2>4, <2>6, Zenon
<1>7. 0..top \subseteq T
  <2> HIDE DEF T
  <2> QED
    BY <1>4, <1>5, <1>6, UpTo
<1>8. top \in 0..top
  BY <1>4
<1> QED
  BY <1>1, <1>2, <1>7, <1>8, Zenon

\* Without smoothing nothing is smoothed.
LEMMA NothingSmoothed ==
    ASSUME LimitOK, logConfig.psrType = 0, NEW r, Measured(r), smooth \in [Ids -> SmoothRecord]
    PROVE  Storing(r)[Len(r.meas)].smooth = smooth
<1>1. PICK f : f = Storing(r)
  OBVIOUS
<1>2. StoresAll(r, f)
  BY <1>1, StoringIs, Zenon
<1> DEFINE top == Len(r.meas)
           T == {k \in 0..top : f[k].smooth = smooth}
<1>3. top \in Nat
  BY Zenon DEF Measured
<1>4. 0 \in T
  BY <1>2, <1>3 DEF StoresAll
<1>5. ASSUME NEW k \in 0..(top - 1), k \in T PROVE k + 1 \in T
  <2>1. k + 1 \in 1..top /\ (k + 1) - 1 = k /\ k + 1 \in 0..top /\ k \in 0..top
    BY <1>3
  <2>2. PICK m : m = r.meas[k + 1]
    OBVIOUS
  <2>3. f[k + 1] = Store(f[k], m) /\ f[k] \in Accumulators(Marks(r))
    BY <1>2, <2>1, <2>2 DEF StoresAll
  <2>4. CASE IdOf(m) = 0
    BY <1>5, <2>1, <2>3, <2>4, Zenon DEF Store, IdOf
  <2>5. CASE IdOf(m) # 0
    <3>1. Stores(f[k], m, searchsat(f[k].slots, IdOf(m), f[k].j), HolderOf(f[k], m), Store(f[k], m))
      BY <2>3, <2>5, StoreIs, Zenon
    <3>2. ~Smoothing(m)
      BY Zenon DEF Smoothing
    <3>3. Store(f[k], m).smooth = f[k].smooth
      BY <3>1, <3>2, Zenon DEF Stores
    <3> QED
      BY <1>5, <2>1, <2>3, <3>3, Zenon
  <2> QED
    BY <2>4, <2>5
<1>6. 0..top \subseteq T
  <2> HIDE DEF T
  <2> QED
    BY <1>3, <1>4, <1>5, UpTo
<1>7. top \in 0..top
  BY <1>3
<1> QED
  BY <1>1, <1>6, <1>7, Zenon

-----------------------------------------------------------------------------
(* The invariant of the conversions.                                        *)

\* While every report fitted, the smoothed code of every satellite is the mean of its history.
SmoothInv ==
    /\ smooth \in [Ids -> SmoothRecord]
    /\ ~crowded => since \in [Ids -> History] /\ AllAgreed(smooth, since, logConfig.smoothCnt)

MeasuredInv == LimitOK /\ SmoothInv /\ EpochInv

\* A report that was converted, and all before it, fit.
LEMMA FitsAfter ==
    ASSUME NEW r \in Reports, parseMeasurement(r), ~crowded'
    PROVE  ~crowded /\ Cardinality(Satellites(r)) <= MaxSat
<1>1. crowded' = (crowded \/ Cardinality(Satellites(r)) > MaxSat)
  BY Zenon DEF parseMeasurement
<1>2. ~(Cardinality(Satellites(r)) > MaxSat) /\ ~crowded
  BY <1>1, Zenon
<1>3. IsFiniteSet(Satellites(r))
  <2>1. Satellites(r) \subseteq Ids
    BY NameKnown, Zenon DEF Satellites
  <2> QED
    BY <2>1, NamesFinite, Zenon
<1>4. Cardinality(Satellites(r)) \in Nat /\ MaxSat \in Nat
  BY <1>3, FS_CardinalityType, ConvertAssumption
<1>5. Cardinality(Satellites(r)) <= MaxSat
  BY <1>2, <1>4
<1> QED
  BY <1>2, <1>5

\* obsqumcom keeps the means and makes the epoch of its report.
LEMMA MeasurementStep ==
    ASSUME MeasuredInv, NEW r \in Reports, parseMeasurement(r)
    PROVE  MeasuredInv'
<1>1. logConfig' = logConfig /\ report' = r
  BY Zenon DEF parseMeasurement
<1>2. LimitOK'
  BY <1>1, Zenon DEF MeasuredInv, LimitOK
<1>3. Measured(r)
  BY ReportMeasured
<1>4. ASSUME ~crowded'
      PROVE  /\ smooth \in [Ids -> SmoothRecord] /\ since \in [Ids -> History]
             /\ AllAgreed(smooth, since, logConfig.smoothCnt) /\ Cardinality(Satellites(r)) <= MaxSat
  BY <1>4, FitsAfter, Zenon DEF MeasuredInv, SmoothInv
<1>5. PICK all : all = Storing(r)[Len(r.meas)]
  OBVIOUS
<1>6. smooth' = all.smooth
  BY <1>5, Zenon DEF parseMeasurement, obsqumcom
<1>7. ASSUME ~crowded'
      PROVE  /\ smooth' \in [Ids -> SmoothRecord] /\ since' \in [Ids -> History]
             /\ AllAgreed(smooth', since', logConfig.smoothCnt)
  <2>1. LimitOK
    BY Zenon DEF MeasuredInv
  <2>2. CASE logConfig.psrType = 0
    <3>1. since' = since
      BY <2>2, Zenon DEF parseMeasurement
    <3>2. smooth' = smooth
      BY <1>3, <1>4, <1>5, <1>6, <1>7, <2>1, <2>2, NothingSmoothed, Zenon
    <3> QED
      BY <1>4, <1>7, <3>1, <3>2, Zenon
  <2>3. CASE logConfig.psrType # 0
    <3>1. since' = Following(r)[Len(r.meas)]
      BY <2>3, Zenon DEF parseMeasurement
    <3>2. Len(r.meas) \in 0..Len(r.meas)
      <4>1. Len(r.meas) \in Nat
        BY <1>3, Zenon DEF Measured
      <4> QED
        BY <4>1
    <3>3. since' \in [Ids -> History]
      <4>1. FollowsAll(r, Following(r))
        BY <1>3, <1>4, <1>7, FollowingIs, Zenon
      <4> QED
        BY <3>1, <3>2, <4>1, Zenon DEF FollowsAll
    <3>4. smooth' \in [Ids -> SmoothRecord]
      <4>1. StoresAll(r, Storing(r))
        BY <1>3, <1>4, <1>7, <2>1, StoringIs, Zenon
      <4>2. all \in Accumulators(Marks(r))
        BY <1>5, <3>2, <4>1, Zenon DEF StoresAll
      <4> QED
        BY <1>6, <4>2, Zenon DEF Accumulators
    <3>5. AllAgreed(all.smooth, since', logConfig.smoothCnt)
      BY <1>3, <1>4, <1>5, <1>7, <2>1, <2>3, <3>1, LockSteps, Zenon
    <3> QED
      BY <1>6, <3>3, <3>4, <3>5, Zenon
  <2> QED
    BY <2>2, <2>3
<1>8. SmoothInv'
  <2>1. LimitOK /\ smooth \in [Ids -> SmoothRecord]
    BY Zenon DEF MeasuredInv, SmoothInv
  <2>2. StoresAll(r, Storing(r))
    BY <1>3, <2>1, StoringIs, Zenon
  <2>3. Len(r.meas) \in 0..Len(r.meas)
    <3>1. Len(r.meas) \in Nat
      BY <1>3, Zenon DEF Measured
    <3> QED
      BY <3>1
  <2>4. all \in Accumulators(Marks(r))
    BY <1>5, <2>2, <2>3, Zenon DEF StoresAll
  <2>5. smooth' \in [Ids -> SmoothRecord]
    BY <1>6, <2>4, Zenon DEF Accumulators
  <2> QED
    BY <1>1, <1>7, <2>5, Zenon DEF SmoothInv
<1>9. Epoch(wobs', r, logConfig.psrType, smooth')
  <2>1. LimitOK /\ smooth \in [Ids -> SmoothRecord]
    BY Zenon DEF MeasuredInv, SmoothInv
  <2>2. wobs' = [week |-> r.week, t |-> r.msec, n |-> Taken(all.slots),
                 slots |-> mesoffset(all.slots, Taken(all.slots), r.bias)]
    BY <1>5, Zenon DEF parseMeasurement, obsqumcom
  <2> QED
    BY <1>5, <1>6, <2>1, <2>2, EpochMade, Zenon
<1>10. EpochInv'
  BY <1>1, <1>9, Zenon DEF EpochInv
<1> QED
  BY <1>2, <1>8, <1>10, Zenon DEF MeasuredInv

\* Results and ephemerides leave slots, codes and histories alone.
LEMMA MeasuredKept ==
    ASSUME MeasuredInv, UNCHANGED <<logConfig, smooth, wobs, report, since, crowded>>
    PROVE  MeasuredInv'
<1>1. LimitOK'
  BY Zenon DEF MeasuredInv, LimitOK
<1>2. SmoothInv'
  BY Zenon DEF MeasuredInv, SmoothInv
<1>3. EpochInv'
  BY Zenon DEF MeasuredInv, EpochInv
<1> QED
  BY <1>1, <1>2, <1>3, Zenon DEF MeasuredInv

\* The invariant of the conversions holds at first.
LEMMA MeasuredInit == ConvertInit => MeasuredInv
<1> SUFFICES ASSUME ConvertInit PROVE MeasuredInv
  OBVIOUS
<1>1. LimitOK
  BY ConfsAssumption, Zenon DEF ConvertInit, LimitOK
<1>2. EpochInv
  BY Zenon DEF ConvertInit, EpochInv
<1>3. NoSmooth \in SmoothRecord /\ <<>> \in History
  BY DEF NoSmooth, SmoothRecord, History
<1>4. \A id \in Ids : smooth[id] = NoSmooth /\ since[id] = <<>>
  BY Zenon DEF ConvertInit
<1>5. smooth \in [Ids -> SmoothRecord] /\ since \in [Ids -> History]
  BY <1>3, Zenon DEF ConvertInit
<1>6. ASSUME NEW id \in Ids PROVE Agreed(smooth[id], since[id], satwavelen(id, "L1"), logConfig.smoothCnt)
  BY <1>3, <1>4, Zenon DEF Agreed
<1>7. SmoothInv
  BY <1>5, <1>6, Zenon DEF SmoothInv, AllAgreed
<1> QED
  BY <1>1, <1>2, <1>7, Zenon DEF MeasuredInv

\* Every step keeps the invariant of the conversions.
LEMMA MeasuredStep == MeasuredInv /\ [ConvertNext]_convertVars => MeasuredInv'
<1> SUFFICES ASSUME MeasuredInv, [ConvertNext]_convertVars PROVE MeasuredInv'
  OBVIOUS
<1>1. ASSUME NEW r \in Reports, parseMeasurement(r) PROVE MeasuredInv'
  BY <1>1, MeasurementStep, Zenon
<1>2. ASSUME NEW r \in EphReports, parseEphemeris(r) PROVE MeasuredInv'
  BY <1>2, MeasuredKept, Zenon DEF parseEphemeris
<1>3. ASSUME NEW res \in Results, RtkReport(res) PROVE MeasuredInv'
  BY <1>3, MeasuredKept, Zenon DEF RtkReport
<1>4. CASE UNCHANGED convertVars
  BY <1>4, MeasuredKept, Zenon DEF convertVars
<1> QED
  BY <1>1, <1>2, <1>3, <1>4, Zenon DEF ConvertNext

\* EpochAsMeasured in every behaviour: the epoch of any report has its satellites, each once, in the order in
\* which they came and as many as there are slots; and if that is all of them, of each in every band the last
\* that the report said, with the smoothed code where there is one, less the clock of its own system.
THEOREM EpochsAsMeasured == ConvertSpec => []EpochAsMeasured
<1>1. MeasuredInv => EpochAsMeasured
  BY EpochInvIs, Zenon DEF MeasuredInv
<1> QED
  BY <1>1, MeasuredInit, MeasuredStep, PTL DEF ConvertSpec

\* SmoothedIsMean in every behaviour: what is added to the carrier to have the smoothed code is the mean of
\* the last differences of code and carrier of that satellite, none from before a slip.
THEOREM SmoothedCodes == ConvertSpec => []SmoothedIsMean
<1>1. MeasuredInv => SmoothedIsMean
  <2> SUFFICES ASSUME MeasuredInv PROVE SmoothedIsMean
    OBVIOUS
  <2>1. ASSUME ~crowded, NEW id \in Ids, since[id] # <<>>
        PROVE  MeanOf(smooth[id], since[id], satwavelen(id, "L1"), logConfig.smoothCnt)
    BY <2>1, Zenon DEF MeasuredInv, SmoothInv, AllAgreed, Agreed
  <2> QED
    BY <2>1, Zenon DEF SmoothedIsMean, MeanOf
<1> QED
  BY <1>1, MeasuredInit, MeasuredStep, PTL DEF ConvertSpec
===============================================================================
