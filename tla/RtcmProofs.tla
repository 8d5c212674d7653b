------------------------------ MODULE RtcmProofs ------------------------------
(***************************************************************************)
(* What the decoder of RTCM finds in a stream (RtcmStream), and what it    *)
(* reads out of the messages found (RtcmDecode).                           *)
(*                                                                         *)
(* Framing.  ParseRtcm finds the same messages however the bytes of a      *)
(* source are cut into chunks, finds every frame of a clean source once and*)
(* in order, and keeps no more than the frame that is open.  What its loop *)
(* has after each byte is a function (After) of the bytes; from a place    *)
(* where no frame is open it goes on as it would from the start (Resumed), *)
(* so that parsing again what was kept changes nothing (StepKept).  What a *)
(* piece of the stream comes to is found on the piece alone (FrameAlone,   *)
(* NoiseAlone) and then holds in its place (InPlace), piece after piece    *)
(* (CleanScanned).                                                         *)
(*                                                                         *)
(* Decoding.  Every field is read where it was laid, and over its width    *)
(* (LaidOut, EphemerisReads, HeadReads, CoordinateRead).  The calendar of  *)
(* GLONASS comes back to its day (GlonassDay).  The epoch of the base is of*)
(* the time of the MSM held and the week of the last ephemeris of GPS at   *)
(* every moment (TimeKept), so that PrepareToSolve, which looks a week to  *)
(* either side, finds the instant of the message (EpochPlaced).            *)
(* What the open epoch holds of the messages of a time (EpochAsSent) is    *)
(* followed cell by cell: the columns are read where they lie              *)
(* (ColumnsRead), a cell goes into its slot or makes one (SlotNext,        *)
(* CellPut), a message puts its usable cells (LoopPuts), and what is held  *)
(* is what was put since the epoch was cleared (EpochKept).                *)
(*                                                                         *)
(* Induction on the number of bytes, fields, bits or years is UpTo.        *)
(***************************************************************************)
EXTENDS RtcmStream, RtcmDecode, SequenceTheorems, FiniteSetTheorems, WellFoundedInduction, TLAPS

-----------------------------------------------------------------------------
(* Induction on numbers, as the search for a least counterexample.          *)

\* A set of natural numbers has a least element.
LEMMA LeastNat ==
    ASSUME NEW S \in SUBSET Nat, S # {}
    PROVE  \E m \in S : \A k \in S : m <= k
<1>1. IsWellFoundedOn(OpToRel(<, Nat), Nat)
  BY NatLessThanWellFounded, Zenon
<1>2. PICK m \in S : \A k \in S : <<k, m>> \notin OpToRel(<, Nat)
  BY <1>1, WFMin, Zenon
<1>3. ASSUME NEW k \in S PROVE m <= k
  <2>1. m \in Nat /\ k \in Nat
    OBVIOUS
  <2>2. ~(k < m)
    BY <1>2, <2>1 DEF OpToRel
  <2> QED
    BY <2>1, <2>2
<1> QED
  BY <1>3

\* A set of numbers up to n that has 0, and with a number the next, has all of them.
LEMMA UpTo ==
    ASSUME NEW n \in Nat, NEW T, 0 \in T, \A i \in 0..(n - 1) : i \in T => i + 1 \in T
    PROVE  0..n \subseteq T
<1> DEFINE S == {i \in 0..n : i \notin T}
<1>1. SUFFICES ASSUME S # {} PROVE FALSE
  OBVIOUS
<1>2. S \in SUBSET Nat
  OBVIOUS
<1>3. PICK m \in S : \A k \in S : m <= k
  <2> HIDE DEF S
  <2> QED
    BY <1>1, <1>2, LeastNat
<1>4. m \in 1..n /\ m - 1 \in 0..(n - 1) /\ m - 1 \notin S
  BY <1>3
<1>5. m - 1 \in T
  BY <1>4
<1> QED
  BY <1>3, <1>4, <1>5

-----------------------------------------------------------------------------
(* What the loop of ParseRtcm has after each byte.                          *)

First == [framer |-> Fresh, pos |-> 0, messages |-> <<>>]

Onward(before, ch, i) ==
    LET framer == Feed(before.framer, ch)
    IN  IF framer.type = 0 THEN [before EXCEPT !.framer = framer]
        ELSE [framer |-> framer, pos |-> PosAfter(framer, i),
              messages |-> Append(before.messages, framer.buffer)]

IsAfter(f, data, n) ==
    f = [i \in 0..n |-> IF i = 0 THEN First ELSE Onward(f[i - 1], data[i], i)]

After(data) == CHOOSE f : IsAfter(f, data, Len(data))

\* The loop of ParseRtcm is well defined.
LEMMA AfterExists ==
    ASSUME NEW data, NEW n \in Nat
    PROVE  \E f : IsAfter(f, data, n)
<1> DEFINE T == {m \in Nat : \E f : IsAfter(f, data, m)}
<1>1. 0 \in T
  <2> DEFINE f == [i \in 0..0 |-> First]
  <2>1. IsAfter(f, data, 0)
    BY DEF IsAfter
  <2> QED
    BY <2>1
<1>2. ASSUME NEW m \in 0..(n - 1), m \in T PROVE m + 1 \in T
  <2>1. PICK f : IsAfter(f, data, m)
    BY <1>2
  <2> DEFINE g == [i \in 0..(m + 1) |-> IF i = m + 1 THEN Onward(f[m], data[m + 1], m + 1) ELSE f[i]]
  <2>2. /\ \A i \in 0..m : f[i] = IF i = 0 THEN First ELSE Onward(f[i - 1], data[i], i)
        /\ \A i \in 0..m : g[i] = f[i]
        /\ g[m + 1] = Onward(f[m], data[m + 1], m + 1)
    BY <2>1 DEF IsAfter
  <2>3. ASSUME NEW i \in 0..(m + 1)
        PROVE  g[i] = IF i = 0 THEN First ELSE Onward(g[i - 1], data[i], i)
    <3>1. CASE i = m + 1
      BY <2>2, <3>1
    <3>2. CASE i \in 1..m
      <4>1. i - 1 \in 0..m
        BY <3>2
      <4> QED
        BY <2>2, <3>2, <4>1
    <3>3. CASE i = 0
      BY <2>2, <3>3
    <3> QED
      BY <3>1, <3>2, <3>3
  <2>4. IsAfter(g, data, m + 1)
    BY <2>3 DEF IsAfter
  <2> QED
    BY <2>4
<1> HIDE DEF T
<1>3. 0..n \subseteq T
  BY <1>1, <1>2, UpTo
<1> QED
  BY <1>3 DEF T

\* It starts with nothing, and each byte takes it further.
LEMMA AfterSteps ==
    ASSUME NEW data, Len(data) \in Nat
    PROVE  /\ After(data)[0] = First
           /\ \A i \in 1..Len(data) : After(data)[i] = Onward(After(data)[i - 1], data[i], i)
<1>1. IsAfter(After(data), data, Len(data))
  BY AfterExists, Zenon DEF After
<1> DEFINE f == After(data)
<1> HIDE DEF f
<1>2. f = [i \in 0..Len(data) |-> IF i = 0 THEN First ELSE Onward(f[i - 1], data[i], i)]
  BY <1>1 DEF IsAfter, f
<1>3. \A i \in 0..Len(data) : f[i] = IF i = 0 THEN First ELSE Onward(f[i - 1], data[i], i)
  BY <1>2
<1> QED
  BY <1>3 DEF f

\* Scan has what there is after the last byte.
LEMMA ScanIsAfter ==
    ASSUME NEW data
    PROVE  Scan(data) = After(data)[Len(data)]
BY Zenon DEF Scan, After, IsAfter, First, Onward

-----------------------------------------------------------------------------
(* The byte machine.                                                        *)

IsFramer(f) ==
    /\ f = [state |-> f.state, buffer |-> f.buffer, type |-> f.type]
    /\ f.state \in 0..3
    /\ f.buffer \in Seq(Byte)

\* Two framers that go on alike: what is in a buffer between frames does not matter.
Alike(f, g) == f.state = g.state /\ (f.state # 0 => f.buffer = g.buffer)

\* What a byte does to a framer, by the state the framer is in.
LEMMA FeedBy ==
    ASSUME NEW f, IsFramer(f), NEW ch \in Byte
    PROVE  /\ f.state = 0 /\ ch = Preamble =>
                 Feed(f, ch) = [state |-> 1, buffer |-> <<ch>>, type |-> 0]
           /\ f.state = 0 /\ ch # Preamble =>
                 Feed(f, ch) = [state |-> 0, buffer |-> f.buffer, type |-> 0]
           /\ f.state = 1 => Feed(f, ch) = [state |-> 2, buffer |-> Append(f.buffer, ch), type |-> 0]
           /\ f.state = 2 => Feed(f, ch) = [state |-> IF BadHead(Append(f.buffer, ch)) THEN 0 ELSE 3,
                                            buffer |-> Append(f.buffer, ch), type |-> 0]
           /\ f.state = 3 /\ Len(f.buffer) + 1 < Length(Append(f.buffer, ch)) + 6 =>
                 Feed(f, ch) = [state |-> 3, buffer |-> Append(f.buffer, ch), type |-> 0]
           /\ f.state = 3 /\ ~(Len(f.buffer) + 1 < Length(Append(f.buffer, ch)) + 6) =>
                 Feed(f, ch) = [state |-> 0, buffer |-> Append(f.buffer, ch),
                                type |-> Accepted(Append(f.buffer, ch))]
<1>1. f.buffer \in Seq(Byte) /\ Len(Append(f.buffer, ch)) = Len(f.buffer) + 1
  BY DEF IsFramer
<1>2. f = [state |-> f.state, buffer |-> f.buffer, type |-> f.type]
  BY DEF IsFramer
<1> DEFINE b == Append(f.buffer, ch)
           L == Len(b)
<1> HIDE DEF b, L
<1>3. f.state = 0 => Feed(f, ch) = IF ch = Preamble THEN [state |-> 1, buffer |-> <<ch>>, type |-> 0]
                                   ELSE [f EXCEPT !.type = 0]
  BY DEF Feed
<1>4. f.state = 1 => Feed(f, ch) = [state |-> 2, buffer |-> b, type |-> 0]
  BY DEF Feed, b
<1>5. f.state = 2 => Feed(f, ch) = [state |-> IF BadHead(b) THEN 0 ELSE 3, buffer |-> b, type |-> 0]
  BY DEF Feed, b
<1>6. f.state = 3 => Feed(f, ch) = IF L < Length(b) + 6
                                   THEN [state |-> 3, buffer |-> b, type |-> 0]
                                   ELSE [[state |-> 0, buffer |-> b, type |-> 0] EXCEPT !.type = Accepted(b)]
  BY DEF Feed, b, L
<1>7. [f EXCEPT !.type = 0] = [state |-> f.state, buffer |-> f.buffer, type |-> 0]
  BY <1>2
<1>8. [[state |-> 0, buffer |-> b, type |-> 0] EXCEPT !.type = Accepted(b)]
          = [state |-> 0, buffer |-> b, type |-> Accepted(b)]
  OBVIOUS
<1>9. L = Len(f.buffer) + 1
  BY <1>1 DEF b, L
<1> QED
  BY <1>3, <1>4, <1>5, <1>6, <1>7, <1>8, <1>9 DEF b

\* A framer stays one; a message ends a frame.
LEMMA FeedTypes ==
    ASSUME NEW f, IsFramer(f), NEW ch \in Byte
    PROVE  IsFramer(Feed(f, ch)) /\ (Feed(f, ch).type # 0 => Feed(f, ch).state = 0)
<1>1. <<ch>> \in Seq(Byte) /\ Append(f.buffer, ch) \in Seq(Byte) /\ f.buffer \in Seq(Byte)
  BY DEF IsFramer
<1>2. f.state \in {0, 1, 2, 3}
  BY DEF IsFramer
<1> DEFINE b == Append(f.buffer, ch)
           far == Len(f.buffer) + 1 < Length(b) + 6
<1>3. PICK s \in 0..3, c \in {<<ch>>, f.buffer, b}, t \in {0, Accepted(b)} :
          Feed(f, ch) = [state |-> s, buffer |-> c, type |-> t] /\ (t # 0 => s = 0)
  <2> HIDE DEF b, far
  <2>1. CASE f.state = 0
    BY <2>1, FeedBy
  <2>2. CASE f.state = 1
    BY <2>2, FeedBy DEF b
  <2>3. CASE f.state = 2
    BY <2>3, FeedBy DEF b
  <2>4. CASE f.state = 3 /\ far
    BY <2>4, FeedBy DEF b, far
  <2>5. CASE f.state = 3 /\ ~far
    BY <2>5, FeedBy DEF b, far
  <2> QED
    BY <1>2, <2>1, <2>2, <2>3, <2>4, <2>5
<1>4. c \in Seq(Byte)
  BY <1>1, <1>3
<1> DEFINE u == Feed(f, ch)
<1> HIDE DEF u
<1>5. u = [state |-> s, buffer |-> c, type |-> t]
  BY <1>3 DEF u
<1>6. u.state = s /\ u.buffer = c /\ u.type = t
  BY <1>5
<1> QED
  BY <1>3, <1>4, <1>5, <1>6 DEF IsFramer, u

\* Framers that go on alike find the same messages.
LEMMA FeedAlike ==
    ASSUME NEW f, NEW g, IsFramer(f), IsFramer(g), Alike(f, g), NEW ch \in Byte
    PROVE  /\ Alike(Feed(f, ch), Feed(g, ch))
           /\ Feed(f, ch).type = Feed(g, ch).type
           /\ Feed(f, ch).type # 0 => Feed(f, ch).buffer = Feed(g, ch).buffer
<1>1. CASE f.state = 0
  <2>1. CASE ch = Preamble
    BY <1>1, <2>1, FeedBy DEF Alike
  <2>2. CASE ch # Preamble
    <3>1. /\ Feed(f, ch) = [state |-> 0, buffer |-> f.buffer, type |-> 0]
          /\ Feed(g, ch) = [state |-> 0, buffer |-> g.buffer, type |-> 0]
      BY <1>1, <2>2, FeedBy DEF Alike
    <3>2. /\ Feed(f, ch).state = 0 /\ Feed(f, ch).type = 0
          /\ Feed(g, ch).state = 0 /\ Feed(g, ch).type = 0
      BY <3>1
    <3> QED
      BY <3>2 DEF Alike
  <2> QED
    BY <2>1, <2>2
<1>2. CASE f.state # 0
  <2>1. g.state = f.state /\ g.buffer = f.buffer /\ f.state \in {1, 2, 3}
    BY <1>2 DEF Alike, IsFramer
  <2>2. Feed(f, ch) = Feed(g, ch)
    <3> DEFINE b == Append(f.buffer, ch)
               far == Len(f.buffer) + 1 < Length(b) + 6
    <3>0. b = Append(g.buffer, ch) /\ (far <=> Len(g.buffer) + 1 < Length(Append(g.buffer, ch)) + 6)
      BY <2>1
    <3> HIDE DEF b, far
    <3>1. CASE f.state = 1
      BY <2>1, <3>1, FeedBy
    <3>2. CASE f.state = 2
      BY <2>1, <3>2, FeedBy, ZenonT(60)
    <3>3. CASE f.state = 3 /\ far
      BY <2>1, <3>0, <3>3, FeedBy DEF b, far
    <3>4. CASE f.state = 3 /\ ~far
      BY <2>1, <3>0, <3>4, FeedBy DEF b, far
    <3> QED
      BY <2>1, <3>1, <3>2, <3>3, <3>4
  <2> QED
    BY <2>2 DEF Alike
<1> QED
  BY <1>1, <1>2

-----------------------------------------------------------------------------
(* The loop of ParseRtcm.                                                   *)

IsScan(a) ==
    /\ a = [framer |-> a.framer, pos |-> a.pos, messages |-> a.messages]
    /\ IsFramer(a.framer)
    /\ a.messages \in Seq(Seq(Byte))

\* One byte of the loop: a message is added and pos set, or neither.
LEMMA OnwardBy ==
    ASSUME NEW a, IsScan(a), NEW ch \in Byte, NEW i,
           NEW f, f = Feed(a.framer, ch), NEW b, b = Onward(a, ch, i)
    PROVE  /\ IsScan(b) /\ b.framer = f
           /\ f.type = 0 => b.pos = a.pos /\ b.messages = a.messages
           /\ f.type # 0 => /\ b.pos = i /\ b.messages = Append(a.messages, f.buffer)
                            /\ f.state = 0
<1>1. IsFramer(f) /\ (f.type # 0 => f.state = 0)
  BY FeedTypes DEF IsScan
<1>2. f.buffer \in Seq(Byte) /\ a.messages \in Seq(Seq(Byte))
  BY <1>1 DEF IsFramer, IsScan
<1>3. Append(a.messages, f.buffer) \in Seq(Seq(Byte))
  <2> DEFINE S == Seq(Byte)
  <2>1. f.buffer \in S /\ a.messages \in Seq(S)
    BY <1>2
  <2> HIDE DEF S
  <2>2. Append(a.messages, f.buffer) \in Seq(S)
    BY <2>1
  <2> QED
    BY <2>2 DEF S
<1>4. CASE f.type = 0
  <2>1. b = [a EXCEPT !.framer = f]
    BY <1>4 DEF Onward
  <2>2. a = [framer |-> a.framer, pos |-> a.pos, messages |-> a.messages]
    BY DEF IsScan
  <2>3. b = [framer |-> f, pos |-> a.pos, messages |-> a.messages]
    BY <2>1, <2>2
  <2>4. b.framer = f /\ b.pos = a.pos /\ b.messages = a.messages
    BY <2>3
  <2> QED
    BY <1>1, <1>2, <1>4, <2>3, <2>4 DEF IsScan
<1>5. CASE f.type # 0
  <2>1. b = [framer |-> f, pos |-> i, messages |-> Append(a.messages, f.buffer)]
    BY <1>5 DEF Onward, PosAfter
  <2>2. b.framer = f /\ b.pos = i /\ b.messages = Append(a.messages, f.buffer)
    BY <2>1
  <2> QED
    BY <1>1, <1>3, <1>5, <2>1, <2>2 DEF IsScan
<1> QED
  BY <1>4, <1>5

\* pos is where a message ended, with no frame open and all the messages found.
LEMMA AfterTypes ==
    ASSUME NEW data \in Seq(Byte), NEW A, A = After(data)
    PROVE  \A i \in 0..Len(data) :
              /\ IsScan(A[i]) /\ A[i].pos \in 0..i
              /\ A[A[i].pos].framer.state = 0 /\ A[A[i].pos].messages = A[i].messages
<1> DEFINE n == Len(data)
           Good(i) == /\ IsScan(A[i]) /\ A[i].pos \in 0..i
                      /\ A[A[i].pos].framer.state = 0 /\ A[A[i].pos].messages = A[i].messages
           T == {i \in 0..n : Good(i)}
<1>1. n \in Nat /\ \A i \in 1..n : data[i] \in Byte
  OBVIOUS
<1>2. A[0] = First /\ \A i \in 1..n : A[i] = Onward(A[i - 1], data[i], i)
  BY <1>1, AfterSteps
<1>3. Good(0)
  <2>1. IsFramer(Fresh) /\ Fresh.state = 0
    BY DEF IsFramer, Fresh
  <2>2. /\ First = [framer |-> First.framer, pos |-> First.pos, messages |-> First.messages]
        /\ First.framer = Fresh /\ First.pos = 0 /\ First.messages = <<>>
    BY DEF First
  <2>3. IsScan(First)
    BY <2>1, <2>2 DEF IsScan
  <2> QED
    BY <1>2, <2>1, <2>2, <2>3
<1>4. ASSUME NEW i \in 0..(n - 1), Good(i) PROVE Good(i + 1)
  <2>1. i + 1 \in 1..n /\ (i + 1) - 1 = i
    BY <1>1
  <2> DEFINE a == A[i]
             b == A[i + 1]
             f == Feed(a.framer, data[i + 1])
  <2>2. b = Onward(a, data[i + 1], i + 1) /\ data[i + 1] \in Byte
    BY <1>1, <1>2, <2>1
  <2>3. IsScan(a) /\ a.pos \in 0..i /\ A[a.pos].framer.state = 0 /\ A[a.pos].messages = a.messages
    BY <1>4
  <2> HIDE DEF a, b, f
  <2>4. /\ IsScan(b) /\ b.framer = f
        /\ f.type = 0 => b.pos = a.pos /\ b.messages = a.messages
        /\ f.type # 0 => b.pos = i + 1 /\ f.state = 0
    BY <2>2, <2>3, OnwardBy DEF f
  <2>5. CASE f.type = 0
    <3>1. b.pos \in 0..(i + 1)
      BY <2>3, <2>4, <2>5
    <3> QED
      BY <2>3, <2>4, <2>5, <3>1 DEF b
  <2>6. CASE f.type # 0
    <3>1. b.pos \in 0..(i + 1) /\ A[b.pos] = b
      BY <2>4, <2>6 DEF b
    <3> QED
      BY <2>4, <2>6, <3>1 DEF b
  <2> QED
    BY <2>5, <2>6
<1> HIDE DEF Good
<1>5. 0 \in T /\ \A i \in 0..(n - 1) : i \in T => i + 1 \in T
  BY <1>1, <1>3, <1>4
<1>6. 0..n \subseteq T
  <2> HIDE DEF T, n
  <2> QED
    BY <1>1, <1>5, UpTo
<1> QED
  BY <1>6 DEF Good

\* The beginning of the data gives the beginning of what is found.
LEMMA AfterPrefix ==
    ASSUME NEW data \in Seq(Byte), NEW n \in 0..Len(data)
    PROVE  Scan(SubSeq(data, 1, n)) = After(data)[n]
<1> DEFINE d == SubSeq(data, 1, n)
           A == After(data)
           B == After(d)
           T == {i \in 0..n : B[i] = A[i]}
<1>1. n \in Nat /\ Len(data) \in Nat /\ d \in Seq(Byte) /\ Len(d) = n
      /\ \A i \in 1..n : d[i] = data[i] /\ i \in 1..Len(data)
  OBVIOUS
<1> HIDE DEF d
<1>2. A[0] = First /\ \A i \in 1..Len(data) : A[i] = Onward(A[i - 1], data[i], i)
  BY <1>1, AfterSteps
<1>3. B[0] = First /\ \A i \in 1..n : B[i] = Onward(B[i - 1], d[i], i)
  BY <1>1, AfterSteps
<1> HIDE DEF A, B
<1>4. ASSUME NEW i \in 0..(n - 1), B[i] = A[i] PROVE B[i + 1] = A[i + 1]
  <2>1. i + 1 \in 1..n /\ i + 1 \in 1..Len(data) /\ (i + 1) - 1 = i
    BY <1>1
  <2> QED
    BY <1>1, <1>2, <1>3, <1>4, <2>1
<1>5. 0 \in T /\ \A i \in 0..(n - 1) : i \in T => i + 1 \in T
  BY <1>1, <1>2, <1>3, <1>4
<1>6. 0..n \subseteq T
  <2> HIDE DEF T
  <2> QED
    BY <1>1, <1>5, UpTo
<1>7. B[n] = A[n]
  BY <1>1, <1>6
<1> QED
  BY <1>1, <1>7, ScanIsAfter DEF A, B, d

\* The messages of two scans, one after the other.
Joined(ms, more) == ms \o more

\* Appending to the second of two joined appends to both.
LEMMA JoinedAppend ==
    \A R : \A u, v \in Seq(R), w \in R : Append(Joined(u, v), w) = Joined(u, Append(v, w))
<1> SUFFICES ASSUME NEW R, NEW u \in Seq(R), NEW v \in Seq(R), NEW w \in R
             PROVE  Append(u \o v, w) = u \o Append(v, w)
  BY DEF Joined
<1>1. u \o v \in Seq(R) /\ <<w>> \in Seq(R)
  OBVIOUS
<1>2. Append(u \o v, w) = (u \o v) \o <<w>> /\ Append(v, w) = v \o <<w>>
  BY <1>1, AppendIsConcat
<1>3. (u \o v) \o <<w>> = u \o (v \o <<w>>)
  BY <1>1, ConcatAssociative
<1> QED
  BY <1>2, <1>3

\* Two scans that go on alike, one of which has found some messages more, before.
LEMMA OnwardAlike ==
    ASSUME NEW a, NEW b, IsScan(a), IsScan(b), Alike(b.framer, a.framer),
           NEW ms, ms \in Seq(Seq(Byte)),
           NEW ch \in Byte, NEW i, NEW j
    PROVE  /\ Alike(Onward(b, ch, j).framer, Onward(a, ch, i).framer)
           /\ a.messages = Joined(ms, b.messages) =>
                 Onward(a, ch, i).messages = Joined(ms, Onward(b, ch, j).messages)
<1> DEFINE f == Feed(a.framer, ch)
           g == Feed(b.framer, ch)
           x == Onward(a, ch, i)
           y == Onward(b, ch, j)
<1>1. /\ x.framer = f
      /\ f.type = 0 => x.messages = a.messages
      /\ f.type # 0 => x.messages = Append(a.messages, f.buffer)
  BY OnwardBy
<1>2. /\ y.framer = g
      /\ g.type = 0 => y.messages = b.messages
      /\ g.type # 0 => y.messages = Append(b.messages, g.buffer)
  BY OnwardBy
<1>3. Alike(g, f) /\ g.type = f.type /\ (f.type # 0 => g.buffer = f.buffer)
  BY FeedAlike DEF IsScan
<1>4. f.buffer \in Seq(Byte) /\ b.messages \in Seq(Seq(Byte))
  BY FeedTypes DEF IsScan, IsFramer
<1> HIDE DEF f, g, x, y
<1>5. CASE f.type = 0
  BY <1>1, <1>2, <1>3, <1>5 DEF x, y
<1>6. CASE f.type # 0
  <2>1. Append(Joined(ms, b.messages), f.buffer) = Joined(ms, Append(b.messages, f.buffer))
    BY <1>4, JoinedAppend
  <2> QED
    BY <1>1, <1>2, <1>3, <1>6, <2>1 DEF x, y
<1> QED
  BY <1>5, <1>6

\* From p on one scan of the data, B, goes on as the other, A, does for n bytes.
GoOnAlike(A, B, p, n) ==
    \A i \in 0..n : /\ Alike(B[i].framer, A[p + i].framer)
                    /\ A[p + i].messages = Joined(A[p].messages, B[i].messages)

\* With no frame open the data may as well begin here: what follows is found all the same.
LEMMA Resumed ==
    ASSUME NEW data \in Seq(Byte), NEW rest \in Seq(Byte), NEW p \in 0..Len(data),
           Len(rest) <= Len(data) - p, \A i \in 1..Len(rest) : rest[i] = data[p + i],
           NEW A, A = After(data), NEW B, B = After(rest), A[p].framer.state = 0
    PROVE  GoOnAlike(A, B, p, Len(rest))
<1> DEFINE n == Len(rest)
           Good(i) == /\ Alike(B[i].framer, A[p + i].framer)
                      /\ A[p + i].messages = Joined(A[p].messages, B[i].messages)
           T == {i \in 0..n : Good(i)}
<1>1. n \in Nat /\ Len(data) \in Nat /\ p \in Nat /\ p + n <= Len(data)
      /\ \A i \in 1..n : rest[i] = data[p + i] /\ rest[i] \in Byte
  OBVIOUS
<1>2. /\ \A i \in 1..Len(data) : A[i] = Onward(A[i - 1], data[i], i)
      /\ \A i \in 0..Len(data) : IsScan(A[i])
  BY <1>1, AfterSteps, AfterTypes
<1>3. /\ B[0] = First
      /\ \A i \in 1..n : B[i] = Onward(B[i - 1], rest[i], i)
      /\ \A i \in 0..n : IsScan(B[i])
  BY <1>1, AfterSteps, AfterTypes
<1>4. Good(0)
  <2>1. B[0].framer.state = 0 /\ B[0].messages = <<>>
    BY <1>3 DEF First, Fresh
  <2>2. A[p].messages \in Seq(Seq(Byte)) /\ p + 0 = p
    <3>1. IsScan(A[p])
      BY <1>2
    <3> QED
      BY <1>1, <3>1 DEF IsScan
  <2>3. A[p].messages \o <<>> = A[p].messages
    BY <2>2, ConcatEmptySeq
  <2> QED
    BY <2>1, <2>2, <2>3 DEF Alike, Joined
<1>5. ASSUME NEW i \in 0..(n - 1), Good(i) PROVE Good(i + 1)
  <2>1. /\ i + 1 \in 1..n /\ (i + 1) - 1 = i /\ i \in 0..n
        /\ p + i \in 0..Len(data) /\ p + (i + 1) \in 1..Len(data) /\ (p + (i + 1)) - 1 = p + i
    BY <1>1
  <2>2. /\ A[p + (i + 1)] = Onward(A[p + i], rest[i + 1], p + (i + 1))
        /\ B[i + 1] = Onward(B[i], rest[i + 1], i + 1) /\ rest[i + 1] \in Byte
    BY <1>1, <1>2, <1>3, <2>1
  <2>3. IsScan(A[p]) /\ IsScan(A[p + i]) /\ IsScan(B[i]) /\ Alike(B[i].framer, A[p + i].framer)
    BY <1>1, <1>2, <1>3, <1>5, <2>1
  <2>4. A[p].messages \in Seq(Seq(Byte))
    BY <2>3 DEF IsScan
  <2>5. /\ Alike(B[i + 1].framer, A[p + (i + 1)].framer)
        /\ A[p + i].messages = Joined(A[p].messages, B[i].messages)
              => A[p + (i + 1)].messages = Joined(A[p].messages, B[i + 1].messages)
    <3> DEFINE old == A[p + i]
               oldR == B[i]
               byte == rest[i + 1]
               before == A[p].messages
    <3>1. /\ IsScan(old) /\ IsScan(oldR) /\ Alike(oldR.framer, old.framer)
          /\ before \in Seq(Seq(Byte)) /\ byte \in Byte
      BY <2>2, <2>3, <2>4
    <3> HIDE DEF old, oldR, byte, before
    <3>2. \A j, k : /\ Alike(Onward(oldR, byte, j).framer, Onward(old, byte, k).framer)
                    /\ old.messages = Joined(before, oldR.messages) =>
                          Onward(old, byte, k).messages = Joined(before, Onward(oldR, byte, j).messages)
      BY <3>1, OnwardAlike
    <3>3. PICK j, k : /\ B[i + 1] = Onward(oldR, byte, j)
                      /\ A[p + (i + 1)] = Onward(old, byte, k)
      BY <2>2 DEF old, oldR, byte
    <3>4. /\ Alike(B[i + 1].framer, A[p + (i + 1)].framer)
          /\ old.messages = Joined(before, oldR.messages)
                => A[p + (i + 1)].messages = Joined(before, B[i + 1].messages)
      BY <3>2, <3>3
    <3> QED
      BY <3>4 DEF old, oldR, before
  <2> QED
    BY <1>5, <2>5
<1> HIDE DEF Good
<1>6. 0 \in T /\ \A i \in 0..(n - 1) : i \in T => i + 1 \in T
  BY <1>1, <1>4, <1>5
<1>7. 0..n \subseteq T
  <2> HIDE DEF T, n
  <2> QED
    BY <1>1, <1>6, UpTo
<1> QED
  BY <1>7, Zenon DEF Good, T, n, GoOnAlike

-----------------------------------------------------------------------------
(* The bytes of the source.                                                 *)

IsFlat(f, s, n) == f = [i \in 1..n |-> IF i = 1 THEN s[i] ELSE Joined(f[i - 1], s[i])]

Flat(s) == CHOOSE f : IsFlat(f, s, Len(s))

\* The function in FlattenSeq is well defined.
LEMMA FlatExists ==
    ASSUME NEW s, NEW n \in Nat
    PROVE  \E f : IsFlat(f, s, n)
<1> DEFINE T == {m \in Nat : \E f : IsFlat(f, s, m)}
<1>1. 0 \in T
  <2> DEFINE f == [i \in 1..0 |-> 0]
  <2>1. IsFlat(f, s, 0)
    BY DEF IsFlat
  <2> QED
    BY <2>1
<1>2. ASSUME NEW m \in 0..(n - 1), m \in T PROVE m + 1 \in T
  <2>1. PICK f : IsFlat(f, s, m)
    BY <1>2
  <2> DEFINE last == IF m = 0 THEN s[1] ELSE Joined(f[m], s[m + 1])
  <2> HIDE DEF last
  <2> DEFINE g == [i \in 1..(m + 1) |-> IF i = m + 1 THEN last ELSE f[i]]
  <2>2. /\ \A i \in 1..m : f[i] = IF i = 1 THEN s[i] ELSE Joined(f[i - 1], s[i])
        /\ \A i \in 1..m : g[i] = f[i]
        /\ g[m + 1] = last
    <3>1. f = [i \in 1..m |-> IF i = 1 THEN s[i] ELSE Joined(f[i - 1], s[i])]
      BY <2>1 DEF IsFlat
    <3>2. \A i \in 1..m : f[i] = IF i = 1 THEN s[i] ELSE Joined(f[i - 1], s[i])
      BY <3>1, Zenon
    <3> QED
      BY <3>2
  <2>3. ASSUME NEW i \in 1..(m + 1)
        PROVE  g[i] = IF i = 1 THEN s[i] ELSE Joined(g[i - 1], s[i])
    <3>1. CASE i = m + 1 /\ m = 0
      BY <2>2, <3>1 DEF last
    <3>2. CASE i = m + 1 /\ m # 0
      <4>1. i - 1 = m /\ m \in 1..m /\ i # 1
        BY <3>2
      <4>2. g[i - 1] = f[m] /\ last = Joined(f[m], s[i])
        BY <2>2, <3>2, <4>1 DEF last
      <4> HIDE DEF g
      <4> QED
        BY <2>2, <3>2, <4>1, <4>2
    <3>3. CASE i \in 2..m
      <4>1. i - 1 \in 1..m /\ i # 1 /\ i \in 1..m
        BY <3>3
      <4>2. g[i] = f[i] /\ g[i - 1] = f[i - 1]
        BY <2>2, <4>1
      <4> HIDE DEF g
      <4> QED
        BY <2>2, <4>1, <4>2
    <3>4. CASE i = 1 /\ m # 0
      BY <2>2, <3>4
    <3> QED
      BY <3>1, <3>2, <3>3, <3>4
  <2>4. IsFlat(g, s, m + 1)
    BY <2>3 DEF IsFlat
  <2> QED
    BY <2>4
<1> HIDE DEF T
<1>3. 0..n \subseteq T
  BY <1>1, <1>2, UpTo
<1> QED
  BY <1>3 DEF T

\* It puts piece after piece.
LEMMA FlatSteps ==
    ASSUME NEW s, NEW n \in Nat, Len(s) = n
    PROVE  /\ n = 0 => FlattenSeq(s) = s
           /\ n # 0 => FlattenSeq(s) = Flat(s)[n] /\ Flat(s)[1] = s[1]
           /\ \A i \in 2..n : Flat(s)[i] = Joined(Flat(s)[i - 1], s[i])
<1>1. IsFlat(Flat(s), s, n)
  BY FlatExists, Zenon DEF Flat
<1>2. FlattenSeq(s) = IF n = 0 THEN s ELSE Flat(s)[n]
  <2>1. FlattenSeq(s) = IF Len(s) = 0 THEN s ELSE Flat(s)[Len(s)]
    BY Zenon DEF FlattenSeq, Flat, IsFlat, Joined
  <2> QED
    BY <2>1, Zenon
<1> DEFINE f == Flat(s)
<1> HIDE DEF f
<1>3. \A i \in 1..n : f[i] = IF i = 1 THEN s[i] ELSE Joined(f[i - 1], s[i])
  BY <1>1, Zenon DEF IsFlat, f
<1>4. n # 0 => f[1] = s[1]
  <2>1. n # 0 => 1 \in 1..n
    OBVIOUS
  <2> QED
    BY <1>3, <2>1, Zenon
<1>5. ASSUME NEW i \in 2..n PROVE f[i] = Joined(f[i - 1], s[i])
  <2>1. i \in 1..n /\ i # 1
    OBVIOUS
  <2> QED
    BY <1>3, <2>1, Zenon
<1> QED
  BY <1>2, <1>4, <1>5, Zenon DEF f

\* A sequence of sequences cut short, piece by piece.
LEMMA CutShort ==
    ASSUME NEW S, NEW s \in Seq(S), NEW k \in 0..Len(s), NEW t, t = SubSeq(s, 1, k)
    PROVE  Len(t) = k /\ (\A i \in 1..k : t[i] = s[i]) /\ (k = 0 => t = <<>>)
           /\ (k = Len(s) => t = s) /\ t \in Seq(S)
OBVIOUS

\* The first k pieces in a row are what the function has at k.
LEMMA FlatCutShort ==
    ASSUME NEW S, NEW s \in Seq(S), NEW G, G = Flat(s), NEW k \in 1..Len(s)
    PROVE  FlattenSeq(SubSeq(s, 1, k)) = G[k]
<1> DEFINE n == Len(s)
<1>1. n \in Nat
  OBVIOUS
<1>2. PICK t : t = SubSeq(s, 1, k)
  OBVIOUS
<1>3. PICK H : H = Flat(t)
  OBVIOUS
<1>4. Len(t) = k /\ k \in Nat /\ \A i \in 1..k : t[i] = s[i]
  BY <1>2, CutShort
<1>5. G[1] = s[1] /\ \A i \in 2..n : G[i] = Joined(G[i - 1], s[i])
  <2>1. n # 0
    OBVIOUS
  <2> QED
    BY <1>1, <2>1, FlatSteps, Zenon
<1>6. FlattenSeq(t) = H[k] /\ H[1] = t[1] /\ \A i \in 2..k : H[i] = Joined(H[i - 1], t[i])
  <2>1. k # 0
    OBVIOUS
  <2> QED
    BY <1>3, <1>4, <2>1, FlatSteps, Zenon
<1> DEFINE T == {0} \union {i \in 1..k : H[i] = G[i]}
<1> HIDE DEF n
<1>7. ASSUME NEW i \in 0..(k - 1), i \in T PROVE i + 1 \in T
  <2>1. CASE i = 0
    BY <1>4, <1>5, <1>6, <2>1
  <2>2. CASE i # 0
    <3>1. i \in 1..k /\ i + 1 \in 1..k /\ i + 1 \in 2..k /\ i + 1 \in 2..n /\ (i + 1) - 1 = i /\ H[i] = G[i]
      BY <1>1, <1>7, <2>2 DEF n
    <3>2. H[i + 1] = Joined(H[i], t[i + 1]) /\ G[i + 1] = Joined(G[i], s[i + 1]) /\ t[i + 1] = s[i + 1]
      BY <1>4, <1>5, <1>6, <3>1
    <3> QED
      BY <3>1, <3>2
  <2> QED
    BY <2>1, <2>2
<1> HIDE DEF T
<1>8. 0 \in T
  BY DEF T
<1>9. 0..k \subseteq T
  BY <1>4, <1>7, <1>8, UpTo
<1> QED
  BY <1>2, <1>4, <1>6, <1>9 DEF T

\* What the first k pieces are, with the next.
Flattened(S, s, F) ==
    /\ F[0] = <<>> /\ F[Len(s)] = FlattenSeq(s)
    /\ \A k \in 0..(Len(s) - 1) : F[k + 1] = Joined(F[k], s[k + 1])
    /\ \A k \in 0..Len(s) : F[k] \in Seq(S)

\* They are what FlattenSeq makes of them.
LEMMA Flattening ==
    ASSUME NEW S, NEW s \in Seq(Seq(S)), NEW F, F = [k \in 0..Len(s) |-> FlattenSeq(SubSeq(s, 1, k))]
    PROVE  Flattened(S, s, F)
<1>1. PICK n : n = Len(s)
  OBVIOUS
<1>2. n \in Nat /\ \A i \in 1..n : s[i] \in Seq(S)
  BY <1>1
<1>3. PICK G : G = Flat(s)
  OBVIOUS
<1>4. \A k \in 1..n : F[k] = G[k]
  BY <1>1, <1>2, <1>3, FlatCutShort
<1>5. F[0] = <<>> /\ F[n] = FlattenSeq(s)
  <2>1. PICK t : t = SubSeq(s, 1, 0)
    OBVIOUS
  <2>2. Len(t) = 0 /\ t = <<>>
    BY <1>2, <2>1, CutShort
  <2>3. FlattenSeq(t) = <<>>
    BY <2>2, FlatSteps
  <2>4. SubSeq(s, 1, n) = s
    BY <1>1, <1>2, CutShort
  <2> QED
    BY <1>1, <1>2, <2>1, <2>3, <2>4
<1>6. (n # 0 => G[1] = s[1]) /\ \A i \in 2..n : G[i] = Joined(G[i - 1], s[i])
  BY <1>1, <1>2, <1>3, FlatSteps, Zenon
<1>7. ASSUME NEW k \in 0..(n - 1) PROVE F[k + 1] = Joined(F[k], s[k + 1])
  <2>1. CASE k = 0
    <3>0. n # 0 /\ 1 \in 1..n
      BY <1>2, <2>1
    <3>1. F[1] = s[1] /\ s[1] \in Seq(S)
      BY <1>2, <1>4, <1>6, <3>0, Zenon
    <3>2. Joined(<<>>, s[1]) = s[1]
      BY <3>1, ConcatEmptySeq DEF Joined
    <3> QED
      BY <1>5, <2>1, <3>1, <3>2
  <2>2. CASE k # 0
    <3>1. k \in 1..n /\ k + 1 \in 1..n /\ k + 1 \in 2..n /\ (k + 1) - 1 = k
      BY <1>2, <2>2
    <3> QED
      BY <1>4, <1>6, <3>1
  <2> QED
    BY <2>1, <2>2
<1> DEFINE T == {k \in 0..n : F[k] \in Seq(S)}
<1>8. 0 \in T
  <2>1. <<>> \in Seq(S)
    OBVIOUS
  <2>2. 0 \in 0..n
    BY <1>2
  <2> QED
    BY <1>5, <2>1, <2>2, Zenon
<1>9. ASSUME NEW i \in 0..(n - 1), i \in T PROVE i + 1 \in T
  <2>1. F[i] \in Seq(S) /\ i + 1 \in 0..n /\ s[i + 1] \in Seq(S)
    BY <1>2, <1>9
  <2>2. Joined(F[i], s[i + 1]) \in Seq(S)
    BY <2>1, ConcatProperties DEF Joined
  <2> QED
    BY <1>7, <2>1, <2>2
<1> HIDE DEF T
<1>10. 0..n \subseteq T
  BY <1>2, <1>8, <1>9, UpTo
<1> QED
  BY <1>1, <1>5, <1>7, <1>10, Zenon DEF T, Flattened

-----------------------------------------------------------------------------
(* ParseRtcm, call by call.                                                 *)

\* Of the bytes, n were passed to ParseRtcm: what it found is what is in them, and it keeps them
\* from a place on where no frame is open and after which no message has ended.
InStep(bytes, n, rest, found) ==
    /\ n \in 0..Len(bytes)
    /\ found = After(bytes)[n].messages
    /\ \E p \in 0..n : /\ After(bytes)[p].framer.state = 0
                       /\ After(bytes)[p].messages = found
                       /\ rest = SubSeq(bytes, p + 1, n)

\* The bytes are those of the pieces.
LEMMA BytesTypes ==
    ASSUME stream \in Seq(Pieces)
    PROVE  stream \in Seq(Seq(Byte)) /\ Bytes \in Seq(Byte)
<1>1. stream \in Seq(Seq(Byte))
  BY StreamAssumption, SeqMonotonic DEF Byte
<1>2. PICK F : F = [k \in 0..Len(stream) |-> FlattenSeq(SubSeq(stream, 1, k))]
  OBVIOUS
<1>3. Len(stream) \in 0..Len(stream)
  BY <1>1
<1>4. F[Len(stream)] = FlattenSeq(stream) /\ F[Len(stream)] \in Seq(Byte)
  <2>1. Flattened(Byte, stream, F)
    BY <1>1, <1>2, Flattening, Zenon
  <2> QED
    BY <1>3, <2>1, Zenon DEF Flattened
<1> QED
  BY <1>1, <1>4 DEF Bytes

\* A part of a sequence, element by element.
LEMMA Part ==
    \A S : \A s \in Seq(S) : \A a \in 0..Len(s) : \A b \in a..Len(s) :
       /\ SubSeq(s, a + 1, b) \in Seq(S) /\ Len(SubSeq(s, a + 1, b)) = b - a
       /\ \A i \in 1..(b - a) : SubSeq(s, a + 1, b)[i] = s[a + i]
<1> SUFFICES ASSUME NEW S, NEW s \in Seq(S), NEW a \in 0..Len(s), NEW b \in a..Len(s)
             PROVE  /\ SubSeq(s, a + 1, b) \in Seq(S) /\ Len(SubSeq(s, a + 1, b)) = b - a
                    /\ \A i \in 1..(b - a) : SubSeq(s, a + 1, b)[i] = s[a + i]
  OBVIOUS
<1>1. a \in Nat /\ b \in Nat /\ a <= b /\ a + 1 \in Int /\ b \in Int
      /\ \A i \in (a + 1)..b : s[i] \in S
  OBVIOUS
<1>2. PICK t : t = SubSeq(s, a + 1, b)
  OBVIOUS
<1>3. /\ t \in Seq(S) /\ Len(t) = IF a + 1 <= b THEN b - (a + 1) + 1 ELSE 0
      /\ \A i \in 1..(b - (a + 1) + 1) : t[i] = s[(a + 1) + i - 1]
  BY <1>1, <1>2, SubSeqProperties
<1>4. Len(t) = b - a /\ b - (a + 1) + 1 = b - a /\ \A i \in 1..(b - a) : (a + 1) + i - 1 = a + i
  BY <1>1, <1>3
<1>5. \A i \in 1..(b - a) : t[i] = s[a + i]
  BY <1>3, <1>4, Zenon
<1> QED
  BY <1>2, <1>3, <1>4, <1>5, Zenon

\* Two sequences in a row, element by element.
LEMMA Row ==
    \A S : \A u, v \in Seq(S) :
       /\ Joined(u, v) \in Seq(S) /\ Len(Joined(u, v)) = Len(u) + Len(v)
       /\ \A i \in 1..(Len(u) + Len(v)) : Joined(u, v)[i] = IF i <= Len(u) THEN u[i] ELSE v[i - Len(u)]
BY ConcatProperties DEF Joined

\* What the bytes hold from the p-th on, up to the k-th.
IsPart(part, bytes, p, k) ==
    /\ part \in Seq(Byte) /\ k \in 0..Len(bytes) /\ p \in 0..k
    /\ Len(part) = k - p
    /\ \A i \in 1..(k - p) : part[i] = bytes[p + i]

\* SubSeq takes a part.
LEMMA SubSeqIsPart ==
    ASSUME NEW bytes, bytes \in Seq(Byte), NEW k \in 0..Len(bytes), NEW p \in 0..k
    PROVE  IsPart(SubSeq(bytes, p + 1, k), bytes, p, k)
<1>1. p \in 0..Len(bytes) /\ k \in p..Len(bytes)
  OBVIOUS
<1>2. PICK t : t = SubSeq(bytes, p + 1, k)
  OBVIOUS
<1>3. t \in Seq(Byte) /\ Len(t) = k - p /\ \A i \in 1..(k - p) : t[i] = bytes[p + i]
  BY <1>1, <1>2, Part, Zenon
<1> QED
  BY <1>2, <1>3, Zenon DEF IsPart

\* There is one part from here to there.
LEMMA PartEqual ==
    ASSUME NEW a, NEW b, NEW bytes, NEW p, NEW k, IsPart(a, bytes, p, k), IsPart(b, bytes, p, k)
    PROVE  a = b
<1>1. a \in Seq(Byte) /\ b \in Seq(Byte) /\ Len(a) = Len(b)
  BY Zenon DEF IsPart
<1>2. ASSUME NEW i \in 1..Len(a) PROVE a[i] = b[i]
  BY Zenon DEF IsPart
<1> QED
  BY <1>1, <1>2, SeqEqual, Zenon

\* A part and the part that follows make one.
LEMMA Adjacent ==
    ASSUME NEW bytes, NEW p, NEW n, NEW k, NEW u, NEW v, IsPart(u, bytes, p, n), IsPart(v, bytes, n, k),
           Len(bytes) \in Nat
    PROVE  IsPart(Joined(u, v), bytes, p, k)
<1>1. n \in 0..k /\ k \in 0..Len(bytes) /\ p \in 0..n /\ n \in Nat /\ k \in Nat /\ p \in Nat /\ p \in 0..k
  BY DEF IsPart
<1>2. u \in Seq(Byte) /\ Len(u) = n - p /\ \A i \in 1..(n - p) : u[i] = bytes[p + i]
  BY Zenon DEF IsPart
<1>3. v \in Seq(Byte) /\ Len(v) = k - n /\ \A i \in 1..(k - n) : v[i] = bytes[n + i]
  BY Zenon DEF IsPart
<1>4. PICK data : data = Joined(u, v)
  OBVIOUS
<1>5. /\ data \in Seq(Byte) /\ Len(data) = Len(u) + Len(v)
      /\ \A i \in 1..(Len(u) + Len(v)) : data[i] = IF i <= Len(u) THEN u[i] ELSE v[i - Len(u)]
  <2>1. /\ Joined(u, v) \in Seq(Byte) /\ Len(Joined(u, v)) = Len(u) + Len(v)
        /\ \A i \in 1..(Len(u) + Len(v)) :
              Joined(u, v)[i] = IF i <= Len(u) THEN u[i] ELSE v[i - Len(u)]
    BY <1>2, <1>3, Row
  <2> QED
    BY <1>4, <2>1
<1>6. Len(u) + Len(v) = k - p
  BY <1>1, <1>2, <1>3
<1>7. ASSUME NEW i \in 1..(k - p) PROVE data[i] = bytes[p + i]
  <2>1. CASE i <= n - p
    <3>1. i \in 1..(n - p) /\ i <= Len(u) /\ i \in 1..(Len(u) + Len(v))
      BY <1>1, <1>2, <1>6, <2>1
    <3> QED
      BY <1>2, <1>5, <3>1, Zenon
  <2>2. CASE ~(i <= n - p)
    <3>1. i - (n - p) \in 1..(k - n) /\ n + (i - (n - p)) = p + i /\ ~(i <= Len(u))
          /\ i \in 1..(Len(u) + Len(v)) /\ i - Len(u) = i - (n - p)
      BY <1>1, <1>2, <1>6, <2>2
    <3>2. data[i] = v[i - (n - p)]
      BY <1>5, <3>1, Zenon
    <3>3. v[i - (n - p)] = bytes[n + (i - (n - p))]
      BY <1>3, <3>1, Zenon
    <3> QED
      BY <3>1, <3>2, <3>3, Zenon
  <2> QED
    BY <2>1, <2>2
<1>8. Len(data) = k - p
  BY <1>5, <1>6, Zenon
<1> QED
  BY <1>1, <1>4, <1>5, <1>7, <1>8, Zenon DEF IsPart

\* What a part ends with is a part.
LEMMA EndPart ==
    ASSUME NEW bytes, NEW p, NEW k, NEW data, IsPart(data, bytes, p, k), Len(bytes) \in Nat,
           NEW q \in 0..(k - p)
    PROVE  IsPart(SubSeq(data, q + 1, k - p), bytes, p + q, k)
<1>1. PICK c, len : c = p + q /\ len = k - p
  OBVIOUS
<1>2. data \in Seq(Byte) /\ Len(data) = k - p /\ k \in 0..Len(bytes) /\ p \in 0..k
      /\ \A i \in 1..(k - p) : data[i] = bytes[p + i]
  BY Zenon DEF IsPart
<1>3. c \in 0..k /\ k - c = len - q /\ k \in Nat /\ p \in Nat /\ len \in q..Len(data)
      /\ q \in 0..Len(data) /\ c \in Nat /\ len \in Nat /\ q \in Nat
  BY <1>1, <1>2
<1>4. PICK a : a = SubSeq(data, q + 1, len)
  OBVIOUS
<1>5. a \in Seq(Byte) /\ Len(a) = len - q /\ \A i \in 1..(len - q) : a[i] = data[q + i]
  BY <1>2, <1>3, <1>4, Part, ZenonT(60)
<1>6. ASSUME NEW i \in 1..(k - c) PROVE a[i] = bytes[c + i]
  <2>1. q + i \in 1..(k - p) /\ p + (q + i) = c + i
    BY <1>1, <1>3
  <2>2. data[q + i] = bytes[p + (q + i)]
    BY <1>2, <2>1, Zenon
  <2>3. a[i] = data[q + i]
    BY <1>3, <1>5, Zenon
  <2> QED
    BY <2>1, <2>2, <2>3, Zenon
<1>7. IsPart(a, bytes, c, k)
  BY <1>2, <1>3, <1>5, <1>6, Zenon DEF IsPart
<1> QED
  BY <1>1, <1>4, <1>7, Zenon

\* Where no frame is open, the part that follows is scanned as if it were all.
LEMMA ResumedPart ==
    ASSUME NEW bytes, bytes \in Seq(Byte), NEW p, NEW k, NEW data, IsPart(data, bytes, p, k),
           NEW A, A = After(bytes), NEW B, B = After(data), A[p].framer.state = 0
    PROVE  GoOnAlike(A, B, p, k - p)
<1>1. data \in Seq(Byte) /\ Len(data) = k - p /\ p \in 0..k /\ k \in 0..Len(bytes) /\ Len(bytes) \in Nat
      /\ \A i \in 1..(k - p) : data[i] = bytes[p + i]
  BY DEF IsPart
<1>2. p \in 0..Len(bytes) /\ Len(data) <= Len(bytes) - p
  BY <1>1
<1>3. \A i \in 1..Len(data) : data[i] = bytes[p + i]
  BY <1>1, Zenon
<1>4. GoOnAlike(A, B, p, Len(data))
  BY <1>1, <1>2, <1>3, Resumed, Zenon
<1> QED
  BY <1>1, <1>4, Zenon

\* One call of ParseRtcm keeps step.
LEMMA StepKept ==
    ASSUME NEW bytes, bytes \in Seq(Byte), NEW n, NEW rest, NEW found, InStep(bytes, n, rest, found),
           NEW k \in n..Len(bytes), NEW data, data = Joined(rest, SubSeq(bytes, n + 1, k)),
           NEW scan, scan = Scan(data)
    PROVE  InStep(bytes, k, Unused(data, scan), Joined(found, scan.messages))
<1>1. PICK A, B : A = After(bytes) /\ B = After(data)
  OBVIOUS
<1>2. PICK p \in 0..n : A[p].framer.state = 0 /\ A[p].messages = found /\ rest = SubSeq(bytes, p + 1, n)
  BY <1>1 DEF InStep
<1>3. n \in 0..Len(bytes) /\ p \in 0..Len(bytes) /\ k \in 0..Len(bytes) /\ p \in 0..k /\ k - p \in Nat
      /\ n \in 0..k /\ Len(bytes) \in Nat
      /\ p \in Nat /\ k \in Nat
  BY DEF InStep
<1>4. IsPart(data, bytes, p, k)
  <2>1. PICK u, v : u = SubSeq(bytes, p + 1, n) /\ v = SubSeq(bytes, n + 1, k) /\ data = Joined(u, v)
    BY <1>2, Zenon
  <2>2. IsPart(u, bytes, p, n) /\ IsPart(v, bytes, n, k)
    BY <1>3, <2>1, SubSeqIsPart, Zenon
  <2> QED
    BY <1>3, <2>1, <2>2, Adjacent, Zenon
<1>5. data \in Seq(Byte) /\ Len(data) = k - p /\ scan = B[k - p]
  BY <1>1, <1>4, ScanIsAfter, Zenon DEF IsPart
<1>6. \A i \in 0..(k - p) : /\ Alike(B[i].framer, A[p + i].framer)
                            /\ A[p + i].messages = Joined(A[p].messages, B[i].messages)
  <2>1. GoOnAlike(A, B, p, k - p)
    BY <1>1, <1>2, <1>4, ResumedPart, Zenon
  <2> QED
    BY <2>1, Zenon DEF GoOnAlike
<1>7. /\ scan.pos \in 0..(k - p)
      /\ B[scan.pos].framer.state = 0 /\ B[scan.pos].messages = scan.messages
  <2>1. k - p \in 0..(k - p)
    BY <1>3
  <2> QED
    BY <1>1, <1>5, <2>1, AfterTypes
<1>8. A[k].framer.state = scan.framer.state /\ A[k].messages = Joined(found, scan.messages)
  <2>1. k - p \in 0..(k - p) /\ p + (k - p) = k
    BY <1>3
  <2> QED
    BY <1>2, <1>5, <1>6, <2>1, Zenon DEF Alike
<1>9. CASE scan.framer.state = 0
  <2>1. SubSeq(bytes, k + 1, k) = <<>> /\ k \in 0..k
    BY <1>3, SubSeqEmpty
  <2>2. SubSeq(bytes, k + 1, k) = Unused(data, scan)
    BY <1>9, <2>1, Zenon DEF Unused
  <2> QED
    BY <1>1, <1>3, <1>8, <1>9, <2>1, <2>2, Zenon DEF InStep
<1>10. CASE scan.framer.state # 0
  <2>1. PICK q : q = scan.pos
    OBVIOUS
  <2>2. q \in 0..(k - p) /\ B[q].framer.state = 0 /\ B[q].messages = scan.messages
    BY <1>7, <2>1, Zenon
  <2>3. A[p + q].framer.state = 0 /\ A[p + q].messages = Joined(found, scan.messages)
    BY <1>2, <1>6, <2>2, Zenon DEF Alike
  <2>4. SubSeq(data, q + 1, k - p) = SubSeq(bytes, (p + q) + 1, k)
    <3>1. p + q \in 0..k
      BY <1>3, <2>2
    <3>2. PICK c : c = p + q
      OBVIOUS
    <3>3. IsPart(SubSeq(bytes, c + 1, k), bytes, c, k)
      BY <1>3, <3>1, <3>2, SubSeqIsPart, Zenon
    <3>4. IsPart(SubSeq(data, q + 1, k - p), bytes, c, k)
      BY <1>3, <1>4, <2>2, <3>2, EndPart, Zenon
    <3> QED
      BY <3>2, <3>3, <3>4, PartEqual, Zenon
  <2>5. Unused(data, scan) = SubSeq(bytes, (p + q) + 1, k)
    BY <1>5, <1>10, <2>1, <2>4, Zenon DEF Unused
  <2>6. p + q \in 0..k
    BY <1>3, <2>2
  <2> QED
    BY <1>1, <1>3, <1>8, <2>3, <2>5, <2>6, Zenon DEF InStep
<1> QED
  BY <1>9, <1>10

Stream ==
    /\ stream \in Seq(Pieces)
    /\ InStep(Bytes, sent, remainder, dispatched)

\* Nothing found in no bytes.
LEMMA StreamInit == Init => Stream
<1> SUFFICES ASSUME Init PROVE Stream
  OBVIOUS
<1>1. stream \in Seq(Pieces)
  BY StreamAssumption DEF Init
<1>2. Bytes \in Seq(Byte)
  BY <1>1, BytesTypes
<1>3. PICK bytes : bytes = Bytes
  OBVIOUS
<1>4. PICK A : A = After(bytes)
  OBVIOUS
<1>5. Len(bytes) \in Nat
  BY <1>2, <1>3
<1>6. A[0] = First
  BY <1>4, <1>5, AfterSteps, Zenon
<1>7. A[0].framer.state = 0 /\ A[0].messages = <<>>
  BY <1>6 DEF First, Fresh
<1>8. SubSeq(bytes, 0 + 1, 0) = <<>> /\ 0 \in 0..0 /\ 0 \in 0..Len(bytes)
  BY <1>5, SubSeqEmpty
<1>9. InStep(bytes, 0, <<>>, <<>>)
  BY <1>4, <1>7, <1>8, Zenon DEF InStep
<1> QED
  BY <1>1, <1>3, <1>9 DEF Stream, Init

\* Each call of ParseRtcm keeps the invariant.
LEMMA StreamNext == Stream /\ [Next]_vars => Stream'
<1> SUFFICES ASSUME Stream, [Next]_vars PROVE Stream'
  OBVIOUS
<1>1. CASE UNCHANGED vars
  BY <1>1 DEF Stream, vars, InStep, Bytes
<1>2. ASSUME NEW n \in ChunkSizes, ParseRtcm(n) PROVE Stream'
  <2>1. stream' = stream /\ Bytes' = Bytes /\ sent' = sent + n /\ sent + n <= Len(Bytes)
    BY <1>2 DEF ParseRtcm, Bytes
  <2>2. PICK bytes, k, data, scan :
           /\ bytes = Bytes /\ k = sent + n
           /\ data = Joined(remainder, SubSeq(bytes, sent + 1, k)) /\ scan = Scan(data)
           /\ dispatched' = Joined(dispatched, scan.messages)
           /\ remainder' = Unused(data, scan)
    BY <1>2, Zenon DEF ParseRtcm, Joined
  <2>3. bytes \in Seq(Byte) /\ InStep(bytes, sent, remainder, dispatched)
    BY <2>2, BytesTypes DEF Stream
  <2>4. k \in sent..Len(bytes)
    <3>1. sent \in Nat /\ n \in Nat /\ Len(bytes) \in Nat
      BY <2>3, StreamAssumption DEF InStep
    <3> QED
      BY <2>1, <2>2, <3>1
  <2>5. InStep(bytes, k, Unused(data, scan), Joined(dispatched, scan.messages))
    BY <2>2, <2>3, <2>4, StepKept, Zenon
  <2>6. InStep(Bytes', sent', remainder', dispatched')
    BY <2>1, <2>2, <2>5, Zenon
  <2> QED
    BY <2>1, <2>6 DEF Stream, InStep
<1> QED
  BY <1>1, <1>2 DEF Next

\* What ParseRtcm found and what it keeps fit the bytes it was given.
THEOREM StreamInStep == Spec => []Stream
<1>1. Init => Stream
  BY StreamInit
<1>2. Stream /\ [Next]_vars => Stream'
  BY StreamNext
<1> QED
  BY <1>1, <1>2, PTL DEF Spec

\* Where ParseRtcm is called with what it is given has no influence on what it dispatches.
THEOREM CutsDoNotMatter == Spec => []ChunksDoNotMatter
<1>1. Stream => ChunksDoNotMatter
  <2> SUFFICES ASSUME Stream PROVE ChunksDoNotMatter
    OBVIOUS
  <2>1. Bytes \in Seq(Byte) /\ sent \in 0..Len(Bytes) /\ dispatched = After(Bytes)[sent].messages
    BY BytesTypes DEF Stream, InStep
  <2>2. Scan(SubSeq(Bytes, 1, sent)) = After(Bytes)[sent]
    BY <2>1, AfterPrefix, Zenon
  <2> QED
    BY <2>1, <2>2, Zenon DEF ChunksDoNotMatter
<1> QED
  BY <1>1, StreamInStep, PTL

-----------------------------------------------------------------------------
(* A piece of the stream, on its own.                                       *)

\* The beginning of a piece and its next byte.
LEMMA Growing ==
    ASSUME NEW piece, piece \in Seq(Byte), NEW i \in 1..(Len(piece) - 1), NEW b, b = SubSeq(piece, 1, i + 1)
    PROVE  /\ Append(SubSeq(piece, 1, i), piece[i + 1]) = b
           /\ b \in Seq(Byte) /\ Len(b) = i + 1 /\ \A j \in 1..(i + 1) : b[j] = piece[j]
           /\ i + 1 = Len(piece) => b = piece
           /\ SubSeq(piece, 1, i) \in Seq(Byte) /\ Len(SubSeq(piece, 1, i)) = i
OBVIOUS

\* The beginning of one byte.
LEMMA OneByte ==
    ASSUME NEW piece, piece \in Seq(Byte), Len(piece) > 0
    PROVE  SubSeq(piece, 1, 1) = <<piece[1]>>
<1>1. PICK a, b, c : a = SubSeq(piece, 1, 1) /\ c = piece[1] /\ b = <<c>>
  OBVIOUS
<1>2. 0 \in 0..Len(piece) /\ 1 \in 0..Len(piece) /\ 1 \in 0..Len(piece) /\ 0 + 1 = 1 /\ 1 - 0 = 1
      /\ 0 + 1 = 1 /\ c \in Byte /\ 1 \in 1..1 /\ 0 \in 0..1
  BY <1>1
<1>3. IsPart(SubSeq(piece, 0 + 1, 1), piece, 0, 1)
  BY <1>2, SubSeqIsPart, Zenon
<1>4. a \in Seq(Byte) /\ Len(a) = 1 /\ a[1] = c
  BY <1>1, <1>2, <1>3 DEF IsPart
<1>5. b \in Seq(Byte) /\ Len(b) = 1 /\ b[1] = c
  BY <1>1, <1>2
<1>6. a = b
  BY <1>4, <1>5, SeqEqual
<1> QED
  BY <1>1, <1>6

\* The head of a frame is in its first three bytes.
LEMMA SameHead ==
    ASSUME NEW b, NEW piece, b[2] = piece[2], b[3] = piece[3]
    PROVE  Length(b) = Length(piece) /\ (BadHead(b) <=> BadHead(piece))
BY DEF Length, BadHead, Reserved

\* The first byte of a frame opens it.
LEMMA Opening ==
    ASSUME NEW piece, piece \in Seq(Byte), IsFrame(piece), NEW B, B = After(piece)
    PROVE  B[1].framer = [state |-> 1, buffer |-> SubSeq(piece, 1, 1), type |-> 0] /\ B[1].messages = <<>>
<1>1. Len(piece) \in Nat /\ Len(piece) > 6 /\ piece[1] = Preamble /\ piece[1] \in Byte /\ 1 \in 1..Len(piece)
  BY DEF IsFrame
<1>2. B[0] = First /\ B[1] = Onward(B[0], piece[1], 1)
  BY <1>1, AfterSteps
<1>3. IsScan(First) /\ First.framer = Fresh /\ First.messages = <<>> /\ Fresh.state = 0 /\ IsFramer(Fresh)
  <2>1. 0 \in 0..Len(piece)
    BY <1>1
  <2>2. IsScan(First)
    BY <1>2, <2>1, AfterTypes, Zenon
  <2> QED
    BY <2>2 DEF First, Fresh, IsScan
<1>4. Feed(Fresh, piece[1]) = [state |-> 1, buffer |-> <<piece[1]>>, type |-> 0]
  BY <1>1, <1>3, FeedBy
<1>5. Feed(Fresh, piece[1]).type = 0
  BY <1>4
<1>6. B[1].framer = Feed(Fresh, piece[1]) /\ B[1].messages = <<>>
  BY <1>1, <1>2, <1>3, <1>5, OnwardBy
<1>7. SubSeq(piece, 1, 1) = <<piece[1]>>
  BY <1>1, OneByte
<1> QED
  BY <1>4, <1>6, <1>7

\* Where in a frame the machine is after its first i bytes.
Inside(b, piece, i) ==
    /\ b.framer = [state |-> IF i < 3 THEN i ELSE 3, buffer |-> SubSeq(piece, 1, i), type |-> 0]
    /\ b.messages = <<>>

\* The next byte, up to the last but one, leaves the frame open.
LEMMA StillInside ==
    ASSUME NEW piece, piece \in Seq(Byte), IsFrame(piece), NEW a, IsScan(a),
           NEW i \in 1..(Len(piece) - 2), Inside(a, piece, i)
    PROVE  Inside(Onward(a, piece[i + 1], i + 1), piece, i + 1)
<1>1. PICK b, ch, f : b = SubSeq(piece, 1, i + 1) /\ ch = piece[i + 1] /\ f = a.framer
  OBVIOUS
<1>2. i \in 1..(Len(piece) - 1) /\ i \in Nat /\ ch \in Byte /\ ~BadHead(piece)
      /\ Len(piece) = Length(piece) + 6 /\ Len(piece) \in Nat
  BY <1>1 DEF IsFrame
<1>3. /\ Append(SubSeq(piece, 1, i), ch) = b
      /\ Len(SubSeq(piece, 1, i)) = i /\ \A j \in 1..(i + 1) : b[j] = piece[j]
  BY <1>1, <1>2, Growing
<1>4. IsFramer(f) /\ f.buffer = SubSeq(piece, 1, i) /\ f.state = IF i < 3 THEN i ELSE 3
  BY <1>1, <1>2 DEF Inside, IsScan
<1>5. i >= 2 => Length(b) = Length(piece) /\ ~BadHead(b)
  <2>1. i >= 2 => 2 \in 1..(i + 1) /\ 3 \in 1..(i + 1)
    BY <1>2
  <2> QED
    BY <1>2, <1>3, <2>1, SameHead
<1>6. Feed(f, ch) = [state |-> IF i + 1 < 3 THEN i + 1 ELSE 3, buffer |-> b, type |-> 0]
  <2>1. Append(f.buffer, ch) = b /\ Len(f.buffer) + 1 = i + 1
    BY <1>2, <1>3, <1>4
  <2>2. CASE i = 1
    <3>1. Feed(f, ch) = [state |-> 2, buffer |-> b, type |-> 0]
      <4>1. f.state = 1
        BY <1>4, <2>2
      <4> QED
        BY <1>2, <1>4, <2>1, <4>1, FeedBy, Zenon
    <3> QED
      BY <2>2, <3>1
  <2>3. CASE i = 2
    <3>1. Feed(f, ch) = [state |-> IF BadHead(b) THEN 0 ELSE 3, buffer |-> b, type |-> 0]
      <4>1. f.state = 2
        BY <1>4, <2>3
      <4> QED
        BY <1>2, <1>4, <2>1, <4>1, FeedBy, Zenon
    <3> QED
      BY <1>5, <2>3, <3>1
  <2>4. CASE i > 2
    <3>1. f.state = 3 /\ Len(f.buffer) + 1 < Length(b) + 6
      BY <1>2, <1>4, <1>5, <2>1, <2>4
    <3>2. Feed(f, ch) = [state |-> 3, buffer |-> b, type |-> 0]
      BY <1>2, <1>4, <2>1, <3>1, FeedBy, Zenon
    <3> QED
      BY <1>2, <2>4, <3>2
  <2> QED
    BY <1>2, <2>2, <2>3, <2>4
<1>7. Feed(f, ch).type = 0
  BY <1>6
<1>8. Onward(a, ch, i + 1).framer = Feed(f, ch) /\ Onward(a, ch, i + 1).messages = a.messages
  BY <1>1, <1>2, <1>7, OnwardBy
<1> QED
  BY <1>1, <1>6, <1>8 DEF Inside

\* The last byte of a frame makes it a message.
LEMMA Closing ==
    ASSUME NEW piece, piece \in Seq(Byte), IsFrame(piece), NEW a, IsScan(a),
           Inside(a, piece, Len(piece) - 1)
    PROVE  LET b == Onward(a, piece[Len(piece)], Len(piece))
           IN  b.framer.state = 0 /\ b.messages = <<piece>>
<1>1. PICK ch, f, i : ch = piece[Len(piece)] /\ f = a.framer /\ i = Len(piece) - 1
  OBVIOUS
<1>2. i \in 1..(Len(piece) - 1) /\ i > 3 /\ ch \in Byte /\ i + 1 = Len(piece)
      /\ Len(piece) = Length(piece) + 6 /\ Len(piece) \in Nat /\ CrcHolds(piece) /\ Type(piece) # 0
  BY <1>1 DEF IsFrame
<1>3. Append(SubSeq(piece, 1, i), ch) = piece /\ Len(SubSeq(piece, 1, i)) = i
  <2>1. PICK b : b = SubSeq(piece, 1, i + 1)
    OBVIOUS
  <2> QED
    BY <1>1, <1>2, <2>1, Growing
<1>4. IsFramer(f) /\ f.buffer = SubSeq(piece, 1, i) /\ f.state = 3 /\ a.messages = <<>>
  BY <1>1, <1>2 DEF Inside, IsScan
<1>5. Append(f.buffer, ch) = piece /\ Len(f.buffer) + 1 = i + 1 /\ ~(i + 1 < Length(piece) + 6)
  BY <1>2, <1>3, <1>4
<1>6. Feed(f, ch) = [state |-> 0, buffer |-> piece, type |-> Accepted(piece)]
  BY <1>2, <1>4, <1>5, FeedBy, Zenon
<1>7. Accepted(piece) = Type(piece)
  BY <1>2 DEF Accepted
<1>8. Feed(f, ch).type # 0 /\ Feed(f, ch).buffer = piece /\ Feed(f, ch).state = 0
  BY <1>2, <1>6, <1>7
<1>9. PICK b : b = Onward(a, ch, i + 1)
  OBVIOUS
<1>10. b.framer = Feed(f, ch) /\ b.messages = Append(a.messages, piece)
  BY <1>1, <1>2, <1>8, <1>9, OnwardBy
<1>11. Append(<<>>, piece) = <<piece>>
  OBVIOUS
<1> QED
  BY <1>1, <1>2, <1>4, <1>8, <1>9, <1>10, <1>11

\* A frame is open from its first byte to its last but one, and its last makes it a message.
FrameScanned(A, from, before, piece) ==
    /\ \A i \in 1..(Len(piece) - 1) : A[from + i].framer.state # 0 /\ A[from + i].messages = before
    /\ A[from + Len(piece)].framer.state = 0
    /\ A[from + Len(piece)].messages = Append(before, piece)

\* So it is with a frame on its own.
LEMMA FrameAlone ==
    ASSUME NEW piece, piece \in Seq(Byte), IsFrame(piece)
    PROVE  FrameScanned(After(piece), 0, <<>>, piece)
<1>1. PICK n, m, B : n = Len(piece) - 2 /\ m = Len(piece) /\ B = After(piece)
  OBVIOUS
<1>2. m > 6 /\ n \in Nat /\ m \in Nat /\ n = m - 2
  BY <1>1 DEF IsFrame
<1>3. \A i \in 1..m : B[i] = Onward(B[i - 1], piece[i], i)
  BY <1>1, <1>2, AfterSteps, Zenon
<1>4. \A i \in 0..m : IsScan(B[i])
  BY <1>1, AfterTypes, Zenon
<1> DEFINE T == {i \in 0..n : Inside(B[i + 1], piece, i + 1)}
<1>5. 0 \in T
  <2>1. Inside(B[1], piece, 1)
    BY <1>1, Opening DEF Inside
  <2>2. 0 \in 0..n /\ 0 + 1 = 1
    BY <1>2
  <2> QED
    BY <2>1, <2>2
<1>6. ASSUME NEW i \in 0..(n - 1), i \in T PROVE i + 1 \in T
  <2>1. PICK k : k = i + 1
    OBVIOUS
  <2>2. k \in 1..(Len(piece) - 2) /\ k \in 0..m /\ k + 1 \in 1..m /\ (k + 1) - 1 = k /\ k \in 0..n
    BY <1>1, <1>2, <2>1
  <2>3. Inside(B[k], piece, k) /\ IsScan(B[k]) /\ B[k + 1] = Onward(B[k], piece[k + 1], k + 1)
    BY <1>3, <1>4, <1>6, <2>1, <2>2
  <2>4. Inside(Onward(B[k], piece[k + 1], k + 1), piece, k + 1)
    BY <2>2, <2>3, StillInside, Zenon
  <2> QED
    BY <2>1, <2>2, <2>3, <2>4
<1> HIDE DEF T
<1>7. 0..n \subseteq T
  BY <1>2, <1>5, <1>6, UpTo
<1>8. ASSUME NEW i \in 1..(m - 1) PROVE Inside(B[i], piece, i)
  <2>1. i - 1 \in 0..n /\ (i - 1) + 1 = i
    BY <1>2
  <2> QED
    BY <1>7, <2>1 DEF T
<1>9. ASSUME NEW i \in 1..(m - 1) PROVE B[i].framer.state # 0 /\ B[i].messages = <<>>
  <2>1. PICK b : b = B[i]
    OBVIOUS
  <2>2. b.framer = [state |-> IF i < 3 THEN i ELSE 3, buffer |-> SubSeq(piece, 1, i), type |-> 0]
        /\ b.messages = <<>>
    BY <1>8, <2>1 DEF Inside
  <2>3. b.framer.state = IF i < 3 THEN i ELSE 3
    BY <2>2
  <2>4. b.framer.state # 0
    BY <1>2, <2>3
  <2> QED
    BY <2>1, <2>2, <2>4
<1>10. B[m].framer.state = 0 /\ B[m].messages = <<piece>>
  <2>1. m - 1 \in 1..(m - 1) /\ m - 1 \in 0..m /\ m \in 1..m
    BY <1>2
  <2>2. Inside(B[m - 1], piece, m - 1) /\ IsScan(B[m - 1]) /\ B[m] = Onward(B[m - 1], piece[m], m)
    BY <1>3, <1>4, <1>8, <2>1
  <2> QED
    BY <1>1, <2>2, Closing
<1>11. Append(<<>>, piece) = <<piece>> /\ \A i \in 1..m : 0 + i = i
  BY <1>2
<1>12. m \in 1..m /\ \A i \in 1..(m - 1) : i \in 1..m
  BY <1>2
<1> QED
  BY <1>1, <1>9, <1>10, <1>11, <1>12 DEF FrameScanned

\* Noise without a preamble opens nothing.
NoiseScanned(A, from, before, piece) ==
    \A i \in 0..Len(piece) : A[from + i].framer.state = 0 /\ A[from + i].messages = before

\* So it is with noise on its own.
LEMMA NoiseAlone ==
    ASSUME NEW piece, piece \in Seq(Byte), Harmless(piece)
    PROVE  NoiseScanned(After(piece), 0, <<>>, piece)
<1>1. PICK m, B : m = Len(piece) /\ B = After(piece)
  OBVIOUS
<1>2. m \in Nat /\ \A i \in 1..m : piece[i] \in Byte /\ piece[i] # Preamble
  BY <1>1 DEF Harmless
<1>3. B[0] = First /\ \A i \in 1..m : B[i] = Onward(B[i - 1], piece[i], i)
  BY <1>1, <1>2, AfterSteps, Zenon
<1>4. \A i \in 0..m : IsScan(B[i])
  BY <1>1, AfterTypes, Zenon
<1> DEFINE T == {i \in 0..m : B[i].framer.state = 0 /\ B[i].messages = <<>>}
<1>5. 0 \in T
  <2>1. B[0].framer.state = 0 /\ B[0].messages = <<>>
    BY <1>3 DEF First, Fresh
  <2>2. 0 \in 0..m
    BY <1>2
  <2> QED
    BY <2>1, <2>2
<1>6. ASSUME NEW i \in 0..(m - 1), i \in T PROVE i + 1 \in T
  <2>1. PICK a, b, ch, k : a = B[i] /\ b = B[i + 1] /\ ch = piece[i + 1] /\ k = i + 1
    OBVIOUS
  <2>2. i + 1 \in 1..m /\ i + 1 \in 0..m /\ i \in 0..m /\ (i + 1) - 1 = i
    BY <1>2
  <2>3. b = Onward(a, ch, k) /\ IsScan(a) /\ a.framer.state = 0 /\ a.messages = <<>>
        /\ ch \in Byte /\ ch # Preamble
    BY <1>2, <1>3, <1>4, <1>6, <2>1, <2>2
  <2>4. Feed(a.framer, ch) = [state |-> 0, buffer |-> a.framer.buffer, type |-> 0]
    BY <2>3, FeedBy DEF IsScan
  <2>5. Feed(a.framer, ch).type = 0 /\ Feed(a.framer, ch).state = 0
    BY <2>4
  <2>6. b.framer = Feed(a.framer, ch) /\ b.messages = a.messages
    BY <2>3, <2>5, OnwardBy
  <2> QED
    BY <2>1, <2>2, <2>3, <2>5, <2>6
<1> HIDE DEF T
<1>7. 0..m \subseteq T
  BY <1>2, <1>5, <1>6, UpTo
<1>8. \A i \in 0..m : 0 + i = i
  BY <1>2
<1> QED
  BY <1>1, <1>7, <1>8 DEF NoiseScanned, T

\* Joining nothing, and joining one.
LEMMA JoinedOne ==
    \A R : \A ms \in Seq(R) : /\ Joined(ms, <<>>) = ms
                              /\ \A w \in R : Joined(ms, <<w>>) = Append(ms, w)
BY ConcatEmptySeq, AppendIsConcat DEF Joined

\* In place, a piece is scanned as it is on its own.
LEMMA InPlace ==
    ASSUME NEW bytes, bytes \in Seq(Byte), NEW p, NEW k, NEW piece, IsPart(piece, bytes, p, k),
           NEW A, A = After(bytes), A[p].framer.state = 0
    PROVE  /\ IsFrame(piece) => FrameScanned(A, p, A[p].messages, piece)
           /\ Harmless(piece) => NoiseScanned(A, p, A[p].messages, piece)
<1>1. PICK B, m, ms : B = After(piece) /\ m = Len(piece) /\ ms = A[p].messages
  OBVIOUS
<1>2. piece \in Seq(Byte) /\ m = k - p /\ m \in Nat /\ p \in 0..Len(bytes) /\ p \in Nat
  BY <1>1 DEF IsPart
<1>3. \A i \in 0..m : /\ A[p + i].framer.state = B[i].framer.state
                      /\ A[p + i].messages = Joined(ms, B[i].messages)
  <2>1. GoOnAlike(A, B, p, k - p)
    BY <1>1, ResumedPart, Zenon
  <2> QED
    BY <1>1, <1>2, <2>1, Zenon DEF GoOnAlike, Alike
<1>4. ms \in Seq(Seq(Byte))
  <2>1. IsScan(A[p])
    BY <1>2, AfterTypes, Zenon
  <2> QED
    BY <1>1, <2>1 DEF IsScan
<1>5. Joined(ms, <<>>) = ms /\ Joined(ms, <<piece>>) = Append(ms, piece)
  BY <1>2, <1>4, JoinedOne
<1>6. ASSUME IsFrame(piece) PROVE FrameScanned(A, p, ms, piece)
  <2>1. \A i \in 0..m : 0 + i = i
    BY <1>2
  <2>2. m \in 0..m /\ \A i \in 1..(m - 1) : i \in 0..m
    BY <1>2
  <2>3. FrameScanned(B, 0, <<>>, piece)
    BY <1>1, <1>2, <1>6, FrameAlone, Zenon
  <2>4. /\ \A i \in 1..(m - 1) : B[i].framer.state # 0 /\ B[i].messages = <<>>
        /\ B[m].framer.state = 0 /\ B[m].messages = <<piece>>
    <3>1. Append(<<>>, piece) = <<piece>>
      OBVIOUS
    <3>2. /\ \A i \in 1..(Len(piece) - 1) : B[0 + i].framer.state # 0 /\ B[0 + i].messages = <<>>
          /\ B[0 + Len(piece)].framer.state = 0
          /\ B[0 + Len(piece)].messages = <<piece>>
      BY <2>3, <3>1, Zenon DEF FrameScanned
    <3>3. /\ \A i \in 1..(m - 1) : B[0 + i].framer.state # 0 /\ B[0 + i].messages = <<>>
          /\ B[0 + m].framer.state = 0 /\ B[0 + m].messages = <<piece>>
      BY <1>1, <3>2, Zenon
    <3> QED
      BY <2>1, <2>2, <3>3, ZenonT(60)
  <2>5. /\ \A i \in 1..(m - 1) : A[p + i].framer.state # 0 /\ A[p + i].messages = ms
        /\ A[p + m].framer.state = 0 /\ A[p + m].messages = Append(ms, piece)
    BY <1>3, <1>5, <2>2, <2>4, Zenon
  <2>6. /\ \A i \in 1..(Len(piece) - 1) : A[p + i].framer.state # 0 /\ A[p + i].messages = ms
        /\ A[p + Len(piece)].framer.state = 0 /\ A[p + Len(piece)].messages = Append(ms, piece)
    BY <1>1, <2>5, Zenon
  <2> QED
    BY <2>6, Zenon DEF FrameScanned
<1>7. ASSUME Harmless(piece) PROVE NoiseScanned(A, p, ms, piece)
  <2>1. \A i \in 0..m : 0 + i = i
    BY <1>2
  <2>2. NoiseScanned(B, 0, <<>>, piece)
    BY <1>1, <1>2, <1>7, NoiseAlone, Zenon
  <2>3. \A i \in 0..m : B[i].framer.state = 0 /\ B[i].messages = <<>>
    BY <1>1, <2>1, <2>2, ZenonT(60) DEF NoiseScanned
  <2> QED
    BY <1>1, <1>3, <1>5, <2>3, Zenon DEF NoiseScanned
<1> QED
  BY <1>1, <1>6, <1>7

-----------------------------------------------------------------------------
(* The pieces of the stream, in their places.                               *)

\* The first k pieces in a row.
Rows(s) == [k \in 0..Len(s) |-> FlattenSeq(SubSeq(s, 1, k))]

\* The first k pieces, with the next.
LEMMA RowsBy ==
    ASSUME NEW s, s \in Seq(Seq(Byte)), NEW F, F = Rows(s), NEW n, n = Len(s)
    PROVE  /\ n \in Nat /\ F[0] = <<>> /\ F[n] = FlattenSeq(s)
           /\ \A k \in 0..(n - 1) : F[k + 1] = Joined(F[k], s[k + 1]) /\ s[k + 1] \in Seq(Byte)
           /\ \A k \in 0..n : F[k] \in Seq(Byte) /\ Len(F[k]) \in Nat
<1>1. F = [k \in 0..Len(s) |-> FlattenSeq(SubSeq(s, 1, k))]
  BY DEF Rows
<1>2. /\ F[0] = <<>> /\ F[Len(s)] = FlattenSeq(s)
      /\ \A k \in 0..(Len(s) - 1) : F[k + 1] = Joined(F[k], s[k + 1])
      /\ \A k \in 0..Len(s) : F[k] \in Seq(Byte)
  <2>1. Flattened(Byte, s, F)
    BY <1>1, Flattening, Zenon
  <2> QED
    BY <2>1, Zenon DEF Flattened
<1>3. n \in Nat /\ \A k \in 0..(n - 1) : s[k + 1] \in Seq(Byte)
  OBVIOUS
<1>4. \A u \in Seq(Byte) : Len(u) \in Nat
  OBVIOUS
<1> QED
  BY <1>2, <1>3, <1>4, Zenon

\* The first pieces in a row begin every longer row.
LEMMA Begins ==
    ASSUME NEW s, s \in Seq(Seq(Byte)), NEW F, F = Rows(s), NEW n, n = Len(s), NEW k \in 0..n
    PROVE  \A j \in k..n : IsPart(F[k], F[j], 0, Len(F[k]))
<1>1. /\ n \in Nat /\ k \in Nat
      /\ \A j \in 0..(n - 1) : F[j + 1] = Joined(F[j], s[j + 1]) /\ s[j + 1] \in Seq(Byte)
      /\ \A j \in 0..n : F[j] \in Seq(Byte) /\ Len(F[j]) \in Nat
  <2>1. /\ n \in Nat
        /\ \A j \in 0..(n - 1) : F[j + 1] = Joined(F[j], s[j + 1]) /\ s[j + 1] \in Seq(Byte)
        /\ \A j \in 0..n : F[j] \in Seq(Byte) /\ Len(F[j]) \in Nat
    BY RowsBy, ZenonT(60)
  <2>2. k \in Nat
    BY <2>1
  <2> QED
    BY <2>1, <2>2
<1>2. PICK m, u : m = Len(F[k]) /\ u = F[k]
  OBVIOUS
<1>3. u \in Seq(Byte) /\ m \in Nat /\ Len(u) = m
  BY <1>1, <1>2
<1> DEFINE T == {j \in 0..n : j >= k => IsPart(u, F[j], 0, m)}
<1>4. IsPart(u, u, 0, m)
  BY <1>3 DEF IsPart
<1>5. 0 \in T
  <2>1. 0 >= k => 0 = k
    BY <1>1
  <2>2. 0 \in 0..n
    BY <1>1
  <2> QED
    BY <1>2, <1>4, <2>1, <2>2, Zenon
<1>6. ASSUME NEW j \in 0..(n - 1), j \in T PROVE j + 1 \in T
  <2>1. j + 1 \in 0..n /\ j \in 0..n
    BY <1>1
  <2>2. CASE j + 1 = k
    BY <1>2, <1>4, <2>1, <2>2
  <2>3. CASE j + 1 < k
    BY <1>1, <2>1, <2>3
  <2>4. CASE j + 1 > k
    <3>1. j >= k
      BY <1>1, <2>1, <2>4
    <3>2. PICK v, w, x : v = F[j] /\ w = s[j + 1] /\ x = F[j + 1]
      OBVIOUS
    <3>3. IsPart(u, v, 0, m) /\ v \in Seq(Byte) /\ w \in Seq(Byte) /\ x = Joined(v, w)
      BY <1>1, <1>6, <2>1, <3>1, <3>2
    <3>4. /\ Joined(v, w) \in Seq(Byte) /\ Len(Joined(v, w)) = Len(v) + Len(w)
          /\ \A i \in 1..(Len(v) + Len(w)) : Joined(v, w)[i] = IF i <= Len(v) THEN v[i] ELSE w[i - Len(v)]
      BY <3>3, Row
    <3>5. Len(x) = Len(v) + Len(w) /\ Len(v) \in Nat /\ Len(w) \in Nat
          /\ \A i \in 1..(Len(v) + Len(w)) : x[i] = IF i <= Len(v) THEN v[i] ELSE w[i - Len(v)]
      BY <3>3, <3>4
    <3>6. m \in 0..Len(v) /\ \A i \in 1..m : i \in 1..(m - 0) /\ 0 + i = i
      BY <1>3, <3>3, <3>5 DEF IsPart
    <3>7. m \in 0..Len(x) /\ 0 \in 0..m /\ m - 0 = m
      BY <1>3, <3>5, <3>6
    <3>8. ASSUME NEW i \in 1..(m - 0) PROVE u[i] = x[0 + i]
      <4>1. i <= Len(v) /\ i \in 1..(Len(v) + Len(w)) /\ 0 + i = i
        BY <1>3, <3>5, <3>6
      <4>2. u[i] = v[0 + i]
        BY <3>3, Zenon DEF IsPart
      <4> QED
        BY <3>5, <4>1, <4>2, Zenon
    <3>9. IsPart(u, x, 0, m)
      BY <1>3, <3>7, <3>8, Zenon DEF IsPart
    <3> QED
      BY <2>1, <3>2, <3>9, Zenon
  <2> QED
    BY <1>1, <2>1, <2>2, <2>3, <2>4
<1> HIDE DEF T
<1>7. 0..n \subseteq T
  BY <1>1, <1>5, <1>6, UpTo
<1>8. ASSUME NEW j \in k..n PROVE IsPart(u, F[j], 0, m)
  <2>1. j \in 0..n /\ j >= k
    BY <1>1
  <2> QED
    BY <1>7, <2>1 DEF T
<1> QED
  BY <1>2, <1>8

\* Every piece is where the ones before it end.
InPlaces(s, n, F, bytes) ==
    /\ n \in Nat /\ bytes \in Seq(Byte) /\ Len(F[0]) = 0 /\ Len(F[n]) = Len(bytes)
    /\ \A k \in 0..n : Len(F[k]) \in 0..Len(bytes)
    /\ \A k \in 0..(n - 1) : /\ IsPart(s[k + 1], bytes, Len(F[k]), Len(F[k + 1]))
                             /\ Len(F[k + 1]) = Len(F[k]) + Len(s[k + 1])
    /\ \A j, k \in 0..n : j <= k => Len(F[j]) <= Len(F[k])

\* So they are.
LEMMA Places ==
    ASSUME NEW s, s \in Seq(Seq(Byte))
    PROVE  InPlaces(s, Len(s), Rows(s), FlattenSeq(s))
<1>0. PICK F, n, bytes : F = Rows(s) /\ n = Len(s) /\ bytes = FlattenSeq(s)
  OBVIOUS
<1>1. /\ n \in Nat /\ F[0] = <<>> /\ F[n] = bytes
      /\ \A j \in 0..(n - 1) : F[j + 1] = Joined(F[j], s[j + 1]) /\ s[j + 1] \in Seq(Byte)
      /\ \A j \in 0..n : F[j] \in Seq(Byte) /\ Len(F[j]) \in Nat
  BY <1>0, RowsBy, ZenonT(60)
<1>2. n \in 0..n /\ 0 \in 0..n
  BY <1>1
<1>3. bytes \in Seq(Byte) /\ Len(F[n]) = Len(bytes) /\ Len(bytes) \in Nat
  BY <1>1, <1>2, Zenon
<1>4. Len(F[0]) = 0
  BY <1>1
<1>5. ASSUME NEW j \in 0..n, NEW k \in 0..n, j <= k
      PROVE  IsPart(F[j], F[k], 0, Len(F[j]))
  <2>1. k \in j..n
    BY <1>1, <1>5
  <2> QED
    BY <1>0, <2>1, Begins, Zenon
<1>6. ASSUME NEW j \in 0..n, NEW k \in 0..n, j <= k PROVE Len(F[j]) <= Len(F[k])
  <2>1. Len(F[j]) \in 0..Len(F[k])
    BY <1>5, <1>6, Zenon DEF IsPart
  <2> QED
    BY <1>1, <2>1
<1>7. ASSUME NEW k \in 0..n PROVE IsPart(F[k], bytes, 0, Len(F[k])) /\ Len(F[k]) \in 0..Len(bytes)
  <2>1. k <= n
    BY <1>1
  <2>2. IsPart(F[k], F[n], 0, Len(F[k]))
    BY <1>2, <1>5, <2>1, Zenon
  <2> QED
    BY <1>1, <2>2, Zenon DEF IsPart
<1>8. ASSUME NEW k \in 0..(n - 1)
      PROVE  /\ IsPart(s[k + 1], bytes, Len(F[k]), Len(F[k + 1]))
             /\ Len(F[k + 1]) = Len(F[k]) + Len(s[k + 1])
  <2>1. k \in 0..n /\ k + 1 \in 0..n
    BY <1>1
  <2>2. PICK u, w, x, p, q : u = F[k] /\ w = s[k + 1] /\ x = F[k + 1] /\ p = Len(F[k]) /\ q = Len(F[k + 1])
    OBVIOUS
  <2>3. u \in Seq(Byte) /\ w \in Seq(Byte) /\ p = Len(u) /\ q = Len(x) /\ x = Joined(u, w)
        /\ p \in Nat /\ q \in Nat /\ q \in 0..Len(bytes)
    BY <1>1, <1>7, <2>1, <2>2, Zenon
  <2>4. /\ Joined(u, w) \in Seq(Byte) /\ Len(Joined(u, w)) = Len(u) + Len(w)
        /\ \A i \in 1..(Len(u) + Len(w)) : Joined(u, w)[i] = IF i <= Len(u) THEN u[i] ELSE w[i - Len(u)]
    BY <2>3, Row
  <2>5. q = p + Len(w) /\ Len(w) \in Nat
        /\ \A i \in 1..q : x[i] = IF i <= p THEN u[i] ELSE w[i - p]
    BY <2>3, <2>4
  <2>6. \A i \in 1..(q - 0) : x[i] = bytes[0 + i]
    <3>1. IsPart(x, bytes, 0, q)
      BY <1>7, <2>1, <2>2, Zenon
    <3> QED
      BY <3>1, Zenon DEF IsPart
  <2>7. ASSUME NEW i \in 1..(q - p) PROVE w[i] = bytes[p + i]
    <3>1. p + i \in 1..q /\ p + i \in 1..(q - 0) /\ ~(p + i <= p) /\ (p + i) - p = i /\ 0 + (p + i) = p + i
      BY <2>3, <2>5
    <3>2. x[p + i] = w[(p + i) - p]
      BY <2>5, <3>1, Zenon
    <3>3. x[p + i] = bytes[0 + (p + i)]
      BY <2>6, <3>1, Zenon
    <3> QED
      BY <3>1, <3>2, <3>3, Zenon
  <2>8. p \in 0..q /\ Len(w) = q - p
    BY <2>3, <2>5
  <2>9. IsPart(w, bytes, p, q)
    BY <2>3, <2>7, <2>8, Zenon DEF IsPart
  <2> QED
    BY <2>2, <2>5, <2>9, Zenon
<1> QED
  BY <1>0, <1>1, <1>3, <1>4, <1>6, <1>7, <1>8, Zenon DEF InPlaces

\* Every number of bytes is within one of the pieces.
LEMMA Within ==
    ASSUME NEW n \in Nat, NEW E, E[0] = 0, \A k \in 0..n : E[k] \in Nat, NEW m \in 0..E[n]
    PROVE  \E k \in 0..n : E[k] <= m /\ (k < n => m < E[k + 1])
<1> DEFINE T == {k \in 0..n : E[k] <= m}
<1>1. SUFFICES ASSUME \A k \in 0..n : E[k] <= m => k < n /\ ~(m < E[k + 1]) PROVE FALSE
  BY Zenon
<1>2. 0 \in T
  OBVIOUS
<1>3. ASSUME NEW k \in 0..(n - 1), k \in T PROVE k + 1 \in T
  BY <1>1, <1>3
<1> HIDE DEF T
<1>4. 0..n \subseteq T
  BY <1>2, <1>3, UpTo
<1>5. E[n] <= m /\ n \in 0..n
  BY <1>4 DEF T
<1> QED
  BY <1>1, <1>5

-----------------------------------------------------------------------------
(* What is found in a clean stream.                                         *)

\* Where nothing follows, what there is is all.
NothingFrom(N, M, k) ==
    /\ Len(N) = Len(M) /\ k \in 0..Len(M)
    /\ \A j \in 1..Len(M) : N[j] = IF j <= k THEN M[j] ELSE <<>>

\* So the rest adds nothing.
LEMMA NothingAfter ==
    ASSUME NEW S, NEW M, M \in Seq(Seq(S)), NEW N, N \in Seq(Seq(S)), NEW k, NothingFrom(N, M, k)
    PROVE  FlattenSeq(N) = Rows(M)[k]
<1>0. PICK n : n = Len(M) /\ n = Len(N) /\ k \in 0..n
              /\ \A j \in 1..n : N[j] = IF j <= k THEN M[j] ELSE <<>>
  BY Zenon DEF NothingFrom
<1>1. PICK G, H : G = Rows(M) /\ H = Rows(N)
  OBVIOUS
<1>2. n \in Nat /\ k \in Nat
  <2>1. Len(M) \in Nat
    OBVIOUS
  <2> QED
    BY <1>0, <2>1
<1>3. /\ G[0] = <<>>
      /\ \A j \in 0..(n - 1) : G[j + 1] = Joined(G[j], M[j + 1])
      /\ \A j \in 0..n : G[j] \in Seq(S)
  <2>1. G = [j \in 0..Len(M) |-> FlattenSeq(SubSeq(M, 1, j))]
    BY <1>1 DEF Rows
  <2>2. /\ G[0] = <<>> /\ G[Len(M)] = FlattenSeq(M)
        /\ \A j \in 0..(Len(M) - 1) : G[j + 1] = Joined(G[j], M[j + 1])
        /\ \A j \in 0..Len(M) : G[j] \in Seq(S)
    <3>1. Flattened(S, M, G)
      BY <2>1, Flattening, Zenon
    <3> QED
      BY <3>1, Zenon DEF Flattened
  <2> QED
    BY <1>0, <2>2, Zenon
<1>4. /\ H[0] = <<>> /\ H[n] = FlattenSeq(N)
      /\ \A j \in 0..(n - 1) : H[j + 1] = Joined(H[j], N[j + 1])
  <2>1. H = [j \in 0..Len(N) |-> FlattenSeq(SubSeq(N, 1, j))]
    BY <1>1 DEF Rows
  <2>2. /\ H[0] = <<>> /\ H[Len(N)] = FlattenSeq(N)
        /\ \A j \in 0..(Len(N) - 1) : H[j + 1] = Joined(H[j], N[j + 1])
        /\ \A j \in 0..Len(N) : H[j] \in Seq(S)
    <3>1. Flattened(S, N, H)
      BY <2>1, Flattening, Zenon
    <3> QED
      BY <3>1, Zenon DEF Flattened
  <2> QED
    BY <1>0, <2>2, Zenon
<1> DEFINE T == {j \in 0..n : H[j] = IF j <= k THEN G[j] ELSE G[k]}
<1>5. 0 \in T
  BY <1>2, <1>3, <1>4
<1>6. ASSUME NEW j \in 0..(n - 1), j \in T PROVE j + 1 \in T
  <2>1. j + 1 \in 0..n /\ j + 1 \in 1..n /\ k \in 0..n
    BY <1>0, <1>2
  <2>2. H[j + 1] = Joined(H[j], N[j + 1]) /\ G[j + 1] = Joined(G[j], M[j + 1])
        /\ N[j + 1] = (IF j + 1 <= k THEN M[j + 1] ELSE <<>>) /\ H[j] = (IF j <= k THEN G[j] ELSE G[k])
    BY <1>0, <1>3, <1>4, <1>6, <2>1
  <2>3. CASE j + 1 <= k
    <3>1. j <= k
      BY <1>2, <2>3
    <3> QED
      BY <2>1, <2>2, <2>3, <3>1, Zenon
  <2>4. CASE ~(j + 1 <= k)
    <3>1. j <= k => j = k
      BY <1>2, <2>4
    <3>2. H[j] = G[k] /\ N[j + 1] = <<>>
      BY <2>2, <2>4, <3>1, Zenon
    <3>3. Joined(G[k], <<>>) = G[k]
      <4>1. G[k] \in Seq(S)
        BY <1>3, <2>1, Zenon
      <4> QED
        BY <4>1, JoinedOne, Zenon
    <3> QED
      BY <2>1, <2>2, <2>4, <3>2, <3>3, Zenon
  <2> QED
    BY <2>3, <2>4
<1> HIDE DEF T
<1>7. 0..n \subseteq T
  BY <1>2, <1>5, <1>6, UpTo
<1>8. n \in 0..n /\ (n <= k => n = k)
  BY <1>0, <1>2
<1>9. H[n] = G[k]
  BY <1>7, <1>8 DEF T
<1> QED
  BY <1>1, <1>4, <1>9, Zenon

\* A function on 1..n is a sequence.
LEMMA TupleIsSeq ==
    \A R : \A n \in Nat : \A f \in [1..n -> R] : f \in Seq(R) /\ Len(f) = n
OBVIOUS

\* What each piece of a clean stream is worth.
Worths(s) == [k \in 1..Len(s) |-> IF IsFrame(s[k]) THEN <<s[k]>> ELSE <<>>]

AreWorths(s, n, M, G) ==
    /\ n \in Nat /\ M \in Seq(Seq(Seq(Byte))) /\ Len(M) = n
    /\ \A k \in 1..n : M[k] = IF IsFrame(s[k]) THEN <<s[k]>> ELSE <<>>
    /\ G[0] = <<>> /\ \A k \in 0..n : G[k] \in Seq(Seq(Byte))
    /\ \A k \in 0..(n - 1) : G[k + 1] = IF IsFrame(s[k + 1]) THEN Append(G[k], s[k + 1]) ELSE G[k]

\* So they are, and in a row they are the messages.
LEMMA WorthsBy ==
    ASSUME NEW s, s \in Seq(Seq(Byte))
    PROVE  AreWorths(s, Len(s), Worths(s), Rows(Worths(s)))
<1>0. PICK n, M, G : n = Len(s) /\ M = Worths(s) /\ G = Rows(M)
  OBVIOUS
<1>1. n \in Nat /\ \A k \in 1..n : s[k] \in Seq(Byte)
  BY <1>0
<1>2. \A k \in 1..n : M[k] = IF IsFrame(s[k]) THEN <<s[k]>> ELSE <<>>
  BY <1>0, Zenon DEF Worths
<1>3. M \in [1..n -> Seq(Seq(Byte))]
  <2>1. \A w \in Seq(Byte) : <<w>> \in Seq(Seq(Byte))
    OBVIOUS
  <2>2. <<>> \in Seq(Seq(Byte))
    OBVIOUS
  <2> QED
    BY <1>0, <1>1, <2>1, <2>2, Zenon DEF Worths
<1>4. M \in Seq(Seq(Seq(Byte))) /\ Len(M) = n
  <2>1. PICK R : R = Seq(Seq(Byte))
    OBVIOUS
  <2>2. M \in [1..n -> R] /\ n \in Nat
    BY <1>1, <1>3, <2>1, Zenon
  <2>3. M \in Seq(R) /\ Len(M) = n
    BY <2>2, TupleIsSeq, Zenon
  <2> QED
    BY <2>1, <2>3, Zenon
<1>5. G = [k \in 0..Len(M) |-> FlattenSeq(SubSeq(M, 1, k))]
  BY <1>0 DEF Rows
<1>6. /\ G[0] = <<>>
      /\ \A k \in 0..(n - 1) : G[k + 1] = Joined(G[k], M[k + 1])
      /\ \A k \in 0..n : G[k] \in Seq(Seq(Byte))
  <2>1. /\ G[0] = <<>> /\ G[Len(M)] = FlattenSeq(M)
        /\ \A k \in 0..(Len(M) - 1) : G[k + 1] = Joined(G[k], M[k + 1])
        /\ \A k \in 0..Len(M) : G[k] \in Seq(Seq(Byte))
    <3>1. Flattened(Seq(Byte), M, G)
      BY <1>4, <1>5, Flattening, Zenon
    <3> QED
      BY <3>1, Zenon DEF Flattened
  <2> QED
    BY <1>4, <2>1, Zenon
<1>7. ASSUME NEW k \in 0..(n - 1)
      PROVE  G[k + 1] = IF IsFrame(s[k + 1]) THEN Append(G[k], s[k + 1]) ELSE G[k]
  <2>1. k \in 0..n /\ k + 1 \in 1..n
    BY <1>1
  <2>2. PICK g, w : g = G[k] /\ w = s[k + 1]
    OBVIOUS
  <2>3. g \in Seq(Seq(Byte)) /\ w \in Seq(Byte)
    BY <1>1, <1>6, <2>1, <2>2, Zenon
  <2>4. Joined(g, <<>>) = g /\ Joined(g, <<w>>) = Append(g, w)
    BY <2>3, JoinedOne
  <2> QED
    BY <1>2, <1>6, <2>1, <2>2, <2>4, Zenon
<1> QED
  BY <1>0, <1>1, <1>2, <1>4, <1>6, <1>7, Zenon DEF AreWorths

AllClean(s) == \A k \in 1..Len(s) : IsFrame(s[k]) \/ Harmless(s[k])

\* In a clean stream the machine is between frames at the end of each piece, and has found what the
\* pieces so far are worth; within a piece it finds nothing, and within a frame it stays open.
FoundPieceByPiece(A, s, n, F, G) ==
    /\ \A k \in 0..n : A[Len(F[k])].framer.state = 0 /\ A[Len(F[k])].messages = G[k]
    /\ \A k \in 0..(n - 1) : \A m \in Len(F[k])..(Len(F[k + 1]) - 1) :
          /\ A[m].messages = G[k]
          /\ IsFrame(s[k + 1]) /\ m # Len(F[k]) => A[m].framer.state # 0

\* So it goes.
LEMMA CleanScanned ==
    ASSUME NEW s, s \in Seq(Seq(Byte)), AllClean(s)
    PROVE  FoundPieceByPiece(After(FlattenSeq(s)), s, Len(s), Rows(s), Rows(Worths(s)))
<1>0. PICK n, F, G, A : n = Len(s) /\ F = Rows(s) /\ G = Rows(Worths(s)) /\ A = After(FlattenSeq(s))
  OBVIOUS
<1>1. PICK bytes, M : bytes = FlattenSeq(s) /\ M = Worths(s)
  OBVIOUS
<1>2. /\ n \in Nat /\ bytes \in Seq(Byte) /\ Len(F[0]) = 0 /\ Len(bytes) \in Nat
      /\ \A k \in 0..n : Len(F[k]) \in Nat
      /\ \A k \in 0..(n - 1) : /\ IsPart(s[k + 1], bytes, Len(F[k]), Len(F[k + 1]))
                               /\ Len(F[k + 1]) = Len(F[k]) + Len(s[k + 1])
  <2>1. /\ n \in Nat /\ bytes \in Seq(Byte) /\ Len(F[0]) = 0 /\ Len(F[n]) = Len(bytes)
        /\ \A k \in 0..n : Len(F[k]) \in 0..Len(bytes)
        /\ \A k \in 0..(n - 1) : /\ IsPart(s[k + 1], bytes, Len(F[k]), Len(F[k + 1]))
                                 /\ Len(F[k + 1]) = Len(F[k]) + Len(s[k + 1])
        /\ \A j, k \in 0..n : j <= k => Len(F[j]) <= Len(F[k])
    <3>1. InPlaces(s, n, F, bytes)
      BY <1>0, <1>1, Places, Zenon
    <3> QED
      BY <3>1, Zenon DEF InPlaces
  <2>2. Len(bytes) \in Nat
    BY <2>1
  <2>3. \A i : i \in 0..Len(bytes) => i \in Nat
    BY <2>2
  <2> QED
    BY <2>1, <2>2, <2>3, Zenon
<1>3. /\ G[0] = <<>>
      /\ \A k \in 0..(n - 1) : G[k + 1] = IF IsFrame(s[k + 1]) THEN Append(G[k], s[k + 1]) ELSE G[k]
  <2>1. AreWorths(s, n, M, G)
    BY <1>0, <1>1, WorthsBy, Zenon
  <2> QED
    BY <2>1, Zenon DEF AreWorths
<1>4. A = After(bytes)
  BY <1>0, <1>1
<1>5. \A k \in 0..(n - 1) : k \in 0..n /\ k + 1 \in 0..n /\ k + 1 \in 1..n
  BY <1>2
<1> DEFINE Good(k) == A[Len(F[k])].framer.state = 0 /\ A[Len(F[k])].messages = G[k]
           Between(k) == \A m \in Len(F[k])..(Len(F[k + 1]) - 1) :
                            /\ A[m].messages = G[k]
                            /\ IsFrame(s[k + 1]) /\ m # Len(F[k]) => A[m].framer.state # 0
           T == {k \in 0..n : Good(k)}
<1>6. Good(0)
  <2>1. A[0] = First
    BY <1>2, <1>4, AfterSteps, Zenon
  <2> QED
    BY <1>2, <1>3, <2>1 DEF First, Fresh
<1>7. ASSUME NEW k \in 0..(n - 1), Good(k) PROVE Good(k + 1) /\ Between(k)
  <2>1. PICK p, q, piece, m : p = Len(F[k]) /\ q = Len(F[k + 1]) /\ piece = s[k + 1] /\ m = Len(piece)
    OBVIOUS
  <2>2. IsPart(piece, bytes, p, q) /\ q = p + m /\ p \in Nat /\ q \in Nat /\ piece \in Seq(Byte)
        /\ (IsFrame(piece) \/ Harmless(piece))
    BY <1>0, <1>2, <1>5, <2>1, Zenon DEF IsPart, AllClean
  <2>3. m \in Nat
    BY <2>1, <2>2
  <2>4. A[p].framer.state = 0 /\ A[p].messages = G[k]
    BY <1>7, <2>1, Zenon
  <2>5. /\ IsFrame(piece) => FrameScanned(A, p, A[p].messages, piece)
        /\ Harmless(piece) => NoiseScanned(A, p, A[p].messages, piece)
    BY <1>2, <1>4, <2>2, <2>4, InPlace, Zenon
  <2>6. ~(IsFrame(piece) /\ Harmless(piece))
    <3>1. IsFrame(piece) => piece[1] = Preamble /\ 1 \in DOMAIN piece
      BY <2>2 DEF IsFrame
    <3> QED
      BY <3>1 DEF Harmless
  <2>7. \A j \in p..(q - 1) : j = p \/ (j - p \in 1..(m - 1) /\ p + (j - p) = j)
    BY <2>2, <2>3
  <2>8. CASE IsFrame(piece)
    <3>1. /\ \A i \in 1..(m - 1) : A[p + i].framer.state # 0 /\ A[p + i].messages = G[k]
          /\ A[q].framer.state = 0 /\ A[q].messages = Append(G[k], piece)
      BY <2>1, <2>2, <2>4, <2>5, <2>8, Zenon DEF FrameScanned
    <3>2. ASSUME NEW j \in p..(q - 1) PROVE A[j].messages = G[k] /\ (j # p => A[j].framer.state # 0)
      BY <2>4, <2>7, <3>1, Zenon
    <3>3. G[k + 1] = Append(G[k], piece)
      BY <1>3, <2>1, <2>8, Zenon
    <3> QED
      BY <2>1, <3>1, <3>2, <3>3, Zenon
  <2>9. CASE Harmless(piece)
    <3>1. \A i \in 0..m : A[p + i].framer.state = 0 /\ A[p + i].messages = G[k]
      BY <2>1, <2>4, <2>5, <2>9, Zenon DEF NoiseScanned
    <3>2. m \in 0..m /\ \A i \in 1..(m - 1) : i \in 0..m
      BY <2>3
    <3>3. ASSUME NEW j \in p..(q - 1) PROVE A[j].messages = G[k]
      BY <2>4, <2>7, <3>1, <3>2, Zenon
    <3>4. G[k + 1] = G[k]
      BY <1>3, <2>1, <2>6, <2>9, Zenon
    <3> QED
      BY <2>1, <2>2, <2>6, <2>9, <3>1, <3>2, <3>3, <3>4, Zenon
  <2> QED
    BY <2>2, <2>8, <2>9
<1> HIDE DEF Good, Between
<1>8. 0 \in T /\ \A k \in 0..(n - 1) : k \in T => k + 1 \in T
  BY <1>2, <1>5, <1>6, <1>7
<1> HIDE DEF T
<1>9. 0..n \subseteq T
  BY <1>2, <1>8, UpTo
<1>10. \A k \in 0..n : Good(k)
  BY <1>9 DEF T
<1>11. \A k \in 0..(n - 1) : Between(k)
  BY <1>5, <1>7, <1>10
<1> QED
  BY <1>0, <1>10, <1>11, Zenon DEF Good, Between, FoundPieceByPiece

\* With nothing but frames there is a message for each.
LEMMA OneEach ==
    ASSUME NEW s, s \in Seq(Seq(Byte)), \A k \in 1..Len(s) : IsFrame(s[k]), NEW G, G = Rows(Worths(s))
    PROVE  \A k \in 0..Len(s) : Len(G[k]) = k
<1>1. PICK n, M : n = Len(s) /\ M = Worths(s)
  OBVIOUS
<1>2. AreWorths(s, n, M, G)
  BY <1>1, WorthsBy, Zenon
<1>3. /\ n \in Nat /\ G[0] = <<>> /\ \A k \in 0..n : G[k] \in Seq(Seq(Byte))
      /\ \A k \in 0..(n - 1) : G[k + 1] = IF IsFrame(s[k + 1]) THEN Append(G[k], s[k + 1]) ELSE G[k]
  BY <1>2, Zenon DEF AreWorths
<1>4. \A R : \A g \in Seq(R) : \A w : Len(Append(g, w)) = Len(g) + 1
  OBVIOUS
<1> DEFINE T == {k \in 0..n : Len(G[k]) = k}
<1>5. 0 \in T
  BY <1>3
<1>6. ASSUME NEW k \in 0..(n - 1), k \in T PROVE k + 1 \in T
  <2>1. k + 1 \in 1..Len(s) /\ k \in 0..n /\ k + 1 \in 0..n
    BY <1>1, <1>3
  <2>2. G[k + 1] = Append(G[k], s[k + 1])
    BY <1>3, <2>1, Zenon
  <2>3. Len(Append(G[k], s[k + 1])) = Len(G[k]) + 1
    BY <1>3, <1>4, <2>1, Zenon
  <2> QED
    BY <1>6, <2>1, <2>2, <2>3
<1> HIDE DEF T
<1>7. 0..n \subseteq T
  BY <1>3, <1>5, <1>6, UpTo
<1> QED
  BY <1>1, <1>7 DEF T

\* Which pieces the first m bytes of a clean stream are of, and what is found in them.
IsAt(A, s, n, F, G, m) ==
    \E k \in 0..n : /\ Len(F[k]) <= m /\ (k < n => m < Len(F[k + 1]))
                    /\ A[m].messages = G[k]
                    /\ \/ m = Len(F[k])
                       \/ k < n /\ (IsFrame(s[k + 1]) => A[m].framer.state # 0)

\* They are of some.
LEMMA CleanAt ==
    ASSUME NEW s, s \in Seq(Seq(Byte)), AllClean(s), NEW m \in 0..Len(FlattenSeq(s))
    PROVE  IsAt(After(FlattenSeq(s)), s, Len(s), Rows(s), Rows(Worths(s)), m)
<1>0. PICK n, F, G, A : n = Len(s) /\ F = Rows(s) /\ G = Rows(Worths(s)) /\ A = After(FlattenSeq(s))
  OBVIOUS
<1>1. PICK bytes : bytes = FlattenSeq(s)
  OBVIOUS
<1>2. /\ n \in Nat /\ bytes \in Seq(Byte) /\ Len(F[0]) = 0 /\ Len(F[n]) = Len(bytes)
      /\ \A k \in 0..n : Len(F[k]) \in 0..Len(bytes)
  <2>1. InPlaces(s, n, F, bytes)
    BY <1>0, <1>1, Places, Zenon
  <2> QED
    BY <2>1, Zenon DEF InPlaces
<1>3. /\ \A k \in 0..n : A[Len(F[k])].framer.state = 0 /\ A[Len(F[k])].messages = G[k]
      /\ \A k \in 0..(n - 1) : \A j \in Len(F[k])..(Len(F[k + 1]) - 1) :
            /\ A[j].messages = G[k]
            /\ IsFrame(s[k + 1]) /\ j # Len(F[k]) => A[j].framer.state # 0
  <2>1. FoundPieceByPiece(A, s, n, F, G)
    BY <1>0, CleanScanned, Zenon
  <2> QED
    BY <2>1, Zenon DEF FoundPieceByPiece
<1>4. Len(bytes) \in Nat /\ m \in 0..Len(bytes) /\ n \in 0..n /\ 0 \in 0..n
      /\ \A k \in 0..n : k < n => k \in 0..(n - 1) /\ k + 1 \in 0..n
  BY <1>1, <1>2
<1>5. PICK E : E = [k \in 0..n |-> Len(F[k])]
  OBVIOUS
<1>6. E[0] = 0 /\ (\A k \in 0..n : E[k] \in Nat /\ E[k] = Len(F[k])) /\ m \in 0..E[n]
  BY <1>1, <1>2, <1>4, <1>5
<1>7. PICK k \in 0..n : E[k] <= m /\ (k < n => m < E[k + 1])
  BY <1>2, <1>6, Within
<1>8. Len(F[k]) <= m /\ (k < n => m < Len(F[k + 1])) /\ Len(F[k]) \in Nat /\ m \in Nat
  BY <1>4, <1>6, <1>7
<1>9. ASSUME m = Len(F[k]) PROVE A[m].messages = G[k]
  BY <1>3, <1>8, <1>9, Zenon
<1>10. ASSUME m # Len(F[k])
       PROVE  A[m].messages = G[k] /\ k < n /\ (IsFrame(s[k + 1]) => A[m].framer.state # 0)
  <2>1. k # n
    BY <1>2, <1>4, <1>6, <1>7, <1>8, <1>10
  <2>2. k < n
    BY <1>2, <2>1
  <2>3. k \in 0..(n - 1) /\ Len(F[k + 1]) \in Nat
    BY <1>4, <1>6, <2>2
  <2>4. m \in Len(F[k])..(Len(F[k + 1]) - 1)
    BY <1>8, <2>2, <2>3
  <2> QED
    BY <1>3, <1>8, <1>10, <2>2, <2>3, <2>4, Zenon
<1>11. IsAt(A, s, n, F, G, m)
  <2>1. CASE m = Len(F[k])
    BY <1>8, <1>9, <2>1, Zenon DEF IsAt
  <2>2. CASE m # Len(F[k])
    BY <1>8, <1>10, <2>2, Zenon DEF IsAt
  <2> QED
    BY <2>1, <2>2
<1> QED
  BY <1>0, <1>11, Zenon

\* The words of the model for it.
LEMMA StreamTerms ==
    ASSUME stream \in Seq(Pieces)
    PROVE  /\ stream \in Seq(Seq(Byte)) /\ DOMAIN stream = 1..Len(stream) /\ Len(stream) \in Nat
           /\ \A k \in 0..Len(stream) : EndOf(k) = Len(Rows(stream)[k])
           /\ Clean => AllClean(stream)
<1>1. stream \in Seq(Seq(Byte))
  BY BytesTypes
<1>2. DOMAIN stream = 1..Len(stream) /\ Len(stream) \in Nat
  BY <1>1
<1> QED
  BY <1>1, <1>2, Zenon DEF EndOf, Rows, Clean, AllClean

\* From a clean source every frame is dispatched, once, in order, and no later than in the call
\* that brings its last byte.
THEOREM EveryFrameOnce == Spec => []FramesDispatched
<1>1. Stream => FramesDispatched
  <2> SUFFICES ASSUME Stream, Clean
               PROVE  dispatched = FlattenSeq([k \in DOMAIN stream |-> Found(k)])
    BY DEF FramesDispatched
  <2>1. /\ stream \in Seq(Seq(Byte)) /\ DOMAIN stream = 1..Len(stream) /\ Len(stream) \in Nat
        /\ \A k \in 0..Len(stream) : EndOf(k) = Len(Rows(stream)[k])
        /\ AllClean(stream)
    BY StreamTerms DEF Stream
  <2>2. sent \in 0..Len(FlattenSeq(stream)) /\ dispatched = After(FlattenSeq(stream))[sent].messages
    BY DEF Stream, InStep, Bytes
  <2>3. PICK s, n, F, M, G : s = stream /\ n = Len(s) /\ F = Rows(s) /\ M = Worths(s) /\ G = Rows(M)
    OBVIOUS
  <2>4. PICK k \in 0..n : /\ Len(F[k]) <= sent /\ (k < n => sent < Len(F[k + 1]))
                          /\ After(FlattenSeq(s))[sent].messages = G[k]
    <3>1. IsAt(After(FlattenSeq(s)), s, n, F, G, sent)
      BY <2>1, <2>2, <2>3, CleanAt, Zenon
    <3> QED
      BY <3>1, Zenon DEF IsAt
  <2>5. PICK N : N = [j \in DOMAIN stream |-> Found(j)]
    OBVIOUS
  <2>6. /\ M \in Seq(Seq(Seq(Byte))) /\ Len(M) = n
        /\ \A j \in 1..n : M[j] = IF IsFrame(s[j]) THEN <<s[j]>> ELSE <<>>
    <3>1. AreWorths(s, n, M, G)
      BY <2>1, <2>3, WorthsBy, Zenon
    <3> QED
      BY <3>1, Zenon DEF AreWorths
  <2>7. /\ \A j \in 0..n : Len(F[j]) \in Nat
        /\ \A i, j \in 0..n : i <= j => Len(F[i]) <= Len(F[j])
    <3>1. InPlaces(s, n, F, FlattenSeq(s))
      BY <2>1, <2>3, Places, Zenon
    <3>2. /\ \A j \in 0..n : Len(F[j]) \in 0..Len(FlattenSeq(s))
          /\ \A i, j \in 0..n : i <= j => Len(F[i]) <= Len(F[j])
          /\ FlattenSeq(s) \in Seq(Byte)
      BY <3>1, Zenon DEF InPlaces
    <3>3. \A i : i \in 0..Len(FlattenSeq(s)) => i \in Nat
      BY <3>2
    <3> QED
      BY <3>2, <3>3, Zenon
  <2>8. ASSUME NEW j \in 1..n PROVE N[j] = IF j <= k THEN M[j] ELSE <<>>
    <3>1. j \in DOMAIN stream /\ j \in 0..n /\ s[j] = stream[j] /\ EndOf(j) = Len(F[j]) /\ n \in Nat
          /\ k \in Nat /\ Len(F[j]) \in Nat /\ Len(F[k]) \in Nat
      <4>1. n \in Nat /\ n = Len(stream) /\ s = stream /\ F = Rows(stream)
        BY <2>1, <2>3
      <4>2. j \in 0..n /\ k \in Nat /\ j \in 1..Len(stream)
        BY <4>1
      <4> QED
        BY <2>1, <2>7, <4>1, <4>2, Zenon
    <3>2. N[j] = IF IsFrame(s[j]) /\ Len(F[j]) <= sent THEN <<s[j]>> ELSE <<>>
      BY <2>5, <3>1, Zenon DEF Found
    <3>3. CASE j <= k
      <4>1. Len(F[j]) <= Len(F[k])
        BY <2>7, <3>1, <3>3, Zenon
      <4>2. Len(F[j]) <= sent
        BY <2>2, <2>4, <3>1, <4>1
      <4> QED
        BY <2>6, <3>2, <3>3, <4>2, Zenon
    <3>4. CASE ~(j <= k)
      <4>1. k < n /\ k + 1 \in 0..n /\ k + 1 <= j
        BY <3>1, <3>4
      <4>2. Len(F[k + 1]) <= Len(F[j]) /\ sent < Len(F[k + 1]) /\ Len(F[k + 1]) \in Nat
        BY <2>4, <2>7, <3>1, <4>1, Zenon
      <4>3. ~(Len(F[j]) <= sent)
        BY <2>2, <3>1, <4>2
      <4> QED
        BY <3>2, <3>4, <4>3, Zenon
    <3> QED
      BY <3>3, <3>4
  <2>9. N \in Seq(Seq(Seq(Byte))) /\ Len(N) = n
    <3>1. PICK R : R = Seq(Seq(Byte))
      OBVIOUS
    <3>2. n \in Nat /\ DOMAIN stream = 1..n /\ \A j \in 1..n : stream[j] \in Seq(Byte)
      BY <2>1, <2>3
    <3>3. (\A w \in Seq(Byte) : <<w>> \in Seq(Seq(Byte))) /\ <<>> \in Seq(Seq(Byte))
      OBVIOUS
    <3>4. N \in [1..n -> R]
      BY <2>5, <3>1, <3>2, <3>3, Zenon DEF Found
    <3> QED
      BY <3>1, <3>2, <3>4, TupleIsSeq, Zenon
  <2>10. FlattenSeq(N) = Rows(M)[k]
    <3>1. PICK S : S = Seq(Byte)
      OBVIOUS
    <3>2. M \in Seq(Seq(S)) /\ N \in Seq(Seq(S)) /\ Len(N) = Len(M) /\ k \in 0..Len(M)
      BY <2>6, <2>9, <3>1, Zenon
    <3>3. \A j \in 1..Len(M) : N[j] = IF j <= k THEN M[j] ELSE <<>>
      BY <2>6, <2>8, Zenon
    <3>4. NothingFrom(N, M, k)
      BY <3>2, <3>3, Zenon DEF NothingFrom
    <3> QED
      BY <3>2, <3>4, NothingAfter, Zenon
  <2> QED
    BY <2>2, <2>3, <2>4, <2>5, <2>10, Zenon
<1> QED
  BY <1>1, StreamInStep, PTL

\* What is kept for the next call starts where no frame is open, and from a source of nothing but
\* frames it is the start of the one that is.
THEOREM KeepsOneFrame == Spec => []RemainderIsOpenFrame
<1>1. Stream => RemainderIsOpenFrame
  <2> SUFFICES ASSUME Stream PROVE RemainderIsOpenFrame
    OBVIOUS
  <2>1. /\ stream \in Seq(Seq(Byte)) /\ DOMAIN stream = 1..Len(stream) /\ Len(stream) \in Nat
        /\ \A k \in 0..Len(stream) : EndOf(k) = Len(Rows(stream)[k])
        /\ Clean => AllClean(stream)
    BY StreamTerms DEF Stream
  <2>2. PICK bytes, A, s, n, F, G : bytes = Bytes /\ A = After(bytes) /\ s = stream /\ n = Len(s)
                                    /\ F = Rows(s) /\ G = Rows(Worths(s))
    OBVIOUS
  <2>3. sent \in 0..Len(bytes) /\ bytes = FlattenSeq(s) /\ bytes \in Seq(Byte)
    BY <2>2, BytesTypes DEF Stream, InStep, Bytes
  <2>4. PICK p \in 0..sent : /\ A[p].framer.state = 0 /\ A[p].messages = A[sent].messages
                             /\ remainder = SubSeq(bytes, p + 1, sent)
    BY <2>2, Zenon DEF Stream, InStep
  <2>5. sent \in Nat /\ p \in Nat /\ p \in 0..Len(bytes) /\ n \in Nat
    BY <2>1, <2>2, <2>3
  <2>6. sent - Len(remainder) = p
    <3>1. PICK rest : rest = SubSeq(bytes, p + 1, sent)
      OBVIOUS
    <3>2. IsPart(rest, bytes, p, sent)
      BY <2>3, <3>1, SubSeqIsPart, Zenon
    <3>3. Len(rest) = sent - p
      BY <3>2, Zenon DEF IsPart
    <3> QED
      BY <2>4, <2>5, <3>1, <3>3
  <2>7. remainder = SubSeq(Bytes, sent - Len(remainder) + 1, sent)
    BY <2>2, <2>4, <2>6, Zenon
  <2>8. ASSUME \A k \in DOMAIN stream : IsFrame(stream[k])
        PROVE  \E k \in 0..Len(stream) : EndOf(k) = sent - Len(remainder)
                                         /\ (k < Len(stream) => sent < EndOf(k + 1))
    <3>1. AllClean(s) /\ \A k \in 1..Len(s) : IsFrame(s[k])
      BY <2>1, <2>2, <2>8, Zenon DEF Clean
    <3>2. PICK k \in 0..n : /\ Len(F[k]) <= p /\ (k < n => p < Len(F[k + 1]))
                            /\ A[p].messages = G[k]
                            /\ \/ p = Len(F[k])
                               \/ k < n /\ (IsFrame(s[k + 1]) => A[p].framer.state # 0)
      <4>1. IsAt(A, s, n, F, G, p)
        BY <2>1, <2>2, <2>3, <2>5, <3>1, CleanAt, Zenon
      <4> QED
        BY <4>1, Zenon DEF IsAt
    <3>3. PICK j \in 0..n : /\ Len(F[j]) <= sent /\ (j < n => sent < Len(F[j + 1]))
                            /\ A[sent].messages = G[j]
      <4>1. IsAt(A, s, n, F, G, sent)
        BY <2>1, <2>2, <2>3, <3>1, CleanAt, Zenon
      <4> QED
        BY <4>1, Zenon DEF IsAt
    <3>4. p = Len(F[k])
      <4>1. k < n => k + 1 \in 1..Len(s)
        BY <2>2, <2>5
      <4> QED
        BY <2>4, <3>1, <3>2, <4>1, Zenon
    <3>5. j = k
      <4>1. \A i \in 0..n : Len(G[i]) = i
        BY <2>1, <2>2, <3>1, OneEach, Zenon
      <4>2. Len(G[j]) = j /\ Len(G[k]) = k /\ G[j] = G[k]
        BY <2>4, <3>2, <3>3, <4>1, Zenon
      <4> QED
        BY <4>2, Zenon
    <3>6. k < n => sent < Len(F[k + 1])
      BY <3>3, <3>5, Zenon
    <3>7. k \in 0..Len(stream) /\ EndOf(k) = Len(F[k]) /\ (k < n => EndOf(k + 1) = Len(F[k + 1]))
      <4>1. n = Len(stream) /\ F = Rows(stream) /\ (k < n => k + 1 \in 0..n)
        BY <2>2, <2>5
      <4> QED
        BY <2>1, <4>1, Zenon
    <3>8. EndOf(k) = sent - Len(remainder) /\ (k < Len(stream) => sent < EndOf(k + 1))
      BY <2>2, <2>6, <3>4, <3>6, <3>7, Zenon
    <3> QED
      BY <3>7, <3>8
  <2> QED
    BY <2>7, <2>8 DEF RemainderIsOpenFrame
<1> QED
  BY <1>1, StreamInStep, PTL

-----------------------------------------------------------------------------
(* The bits of a message.                                                   *)

IsBits(bits, n) == n \in Nat /\ Len(bits) = n /\ \E S : bits \in Seq(S)

\* A field of w bits with v begins after the first p bits.
Holds(bits, p, w, v) ==
    p + 1 \in DOMAIN bits /\ bits[p + 1].of = v /\ bits[p + 1].nth = 1 /\ bits[p + 1].width = w

\* It is read from there.
LEMMA HoldsReads ==
    ASSUME NEW bits, NEW p, p \in Nat, NEW w, NEW v, Holds(bits, p, w, v),
           NEW pos, pos \in Int, pos = p + 24
    PROVE  Field(bits, pos, w) = v
<1>1. pos - 23 = p + 1
  OBVIOUS
<1>2. Field(bits, pos, w) = IF p + 1 \in DOMAIN bits /\ bits[p + 1].nth = 1 /\ bits[p + 1].width = w
                            THEN bits[p + 1].of ELSE Garbage
  BY <1>1, Zenon DEF Field
<1> QED
  BY <1>2, Zenon DEF Holds

\* Two pieces of a message in a row
LEMMA TwoPieces ==
    ASSUME NEW a, NEW b, NEW m, NEW n, IsBits(a, m), IsBits(b, n)
    PROVE  /\ IsBits(a \o b, m + n)
           /\ \A p \in Nat : \A w, v : Holds(a, p, w, v) => Holds(a \o b, p, w, v)
           /\ \A p \in Nat : \A w, v : Holds(b, p, w, v) => Holds(a \o b, m + p, w, v)
<1>1. PICK S : a \in Seq(S)
  BY Zenon DEF IsBits
<1>2. PICK T : b \in Seq(T)
  BY Zenon DEF IsBits
<1>3. a \in Seq(S \union T) /\ b \in Seq(S \union T)
  BY <1>1, <1>2
<1>4. m \in Nat /\ n \in Nat /\ Len(a) = m /\ Len(b) = n
  BY Zenon DEF IsBits
<1>5. DOMAIN a = 1..m /\ DOMAIN b = 1..n
  BY <1>3, <1>4
<1>6. PICK c : c = a \o b
  OBVIOUS
<1>7. /\ c \in Seq(S \union T) /\ Len(c) = m + n
      /\ \A i \in 1..(m + n) : c[i] = IF i <= m THEN a[i] ELSE b[i - m]
  <2>1. /\ Joined(a, b) \in Seq(S \union T) /\ Len(Joined(a, b)) = Len(a) + Len(b)
        /\ \A i \in 1..(Len(a) + Len(b)) : Joined(a, b)[i] = IF i <= Len(a) THEN a[i] ELSE b[i - Len(a)]
    BY <1>3, Row, Zenon
  <2> QED
    BY <2>1, <1>4, <1>6, Zenon DEF Joined
<1>8. DOMAIN c = 1..(m + n)
  BY <1>4, <1>7
<1>9. IsBits(c, m + n)
  BY <1>4, <1>7 DEF IsBits
<1>10. ASSUME NEW p \in Nat, NEW w, NEW v, Holds(a, p, w, v) PROVE Holds(c, p, w, v)
  <2>1. p + 1 \in 1..m
    BY <1>5, <1>10, Zenon DEF Holds
  <2>2. p + 1 \in 1..(m + n) /\ p + 1 <= m
    BY <1>4, <2>1
  <2>3. c[p + 1] = a[p + 1]
    BY <1>7, <2>2, Zenon
  <2> QED
    BY <1>8, <1>10, <2>2, <2>3, Zenon DEF Holds
<1>11. ASSUME NEW p \in Nat, NEW w, NEW v, Holds(b, p, w, v) PROVE Holds(c, m + p, w, v)
  <2>1. p + 1 \in 1..n
    BY <1>5, <1>11, Zenon DEF Holds
  <2>2. (m + p) + 1 \in 1..(m + n) /\ ~((m + p) + 1 <= m) /\ ((m + p) + 1) - m = p + 1
    BY <1>4, <2>1
  <2>3. c[(m + p) + 1] = b[((m + p) + 1) - m]
    BY <1>7, <2>2, Zenon
  <2>4. c[(m + p) + 1] = b[p + 1]
    BY <2>2, <2>3, Zenon
  <2> QED
    BY <1>8, <1>11, <2>2, <2>4, Zenon DEF Holds
<1> QED
  BY <1>6, <1>9, <1>10, <1>11, Zenon

\* The fields are of whole widths, and field k begins after P[k] bits.
Widened(fields, n, P) ==
    /\ n \in Nat /\ DOMAIN fields = 1..n
    /\ P[1] = 0 /\ \A k \in 1..n : fields[k].w \in Nat /\ P[k + 1] = P[k] + fields[k].w

\* So does it in the bits.
LEMMA LaidOut ==
    ASSUME NEW fields, NEW n, NEW P, Widened(fields, n, P)
    PROVE  /\ IsBits(Laid(fields), P[n + 1])
           /\ \A k \in 1..n : P[k] \in Nat
           /\ \A k \in 1..n : fields[k].w # 0 => Holds(Laid(fields), P[k], fields[k].w, fields[k].v)
<1> DEFINE V == {fields[k].v : k \in 1..n}
           S == [of : V, nth : Nat, width : Nat]
           s == [k \in 1..n |-> [j \in 1..fields[k].w |->
                    [of |-> fields[k].v, nth |-> j, width |-> fields[k].w]]]
           F == [k \in 0..Len(s) |-> FlattenSeq(SubSeq(s, 1, k))]
<1>1. n \in Nat /\ P[1] = 0 /\ \A k \in 1..n : fields[k].w \in Nat /\ P[k + 1] = P[k] + fields[k].w
  BY Zenon DEF Widened
<1>2. Laid(fields) = FlattenSeq(s)
  BY Zenon DEF Laid, Widened
<1>3. ASSUME NEW k \in 1..n
      PROVE  /\ s[k] \in Seq(S) /\ Len(s[k]) = fields[k].w
             /\ \A j \in 1..fields[k].w : s[k][j] = [of |-> fields[k].v, nth |-> j, width |-> fields[k].w]
  <2>1. PICK w, v : w = fields[k].w /\ v = fields[k].v
    OBVIOUS
  <2>2. w \in Nat /\ v \in V
    BY <1>1, <2>1
  <2>3. s[k] = [j \in 1..w |-> [of |-> v, nth |-> j, width |-> w]]
    BY <2>1
  <2>4. \A j \in 1..w : [of |-> v, nth |-> j, width |-> w] \in S
    BY <2>2
  <2> HIDE DEF S, s, V
  <2> QED
    BY <2>1, <2>2, <2>3, <2>4
<1>4. s \in Seq(Seq(S)) /\ Len(s) = n
  <2>1. \A k \in 1..n : s[k] \in Seq(S)
    BY <1>3
  <2>2. s \in [1..n -> Seq(S)]
    BY <2>1
  <2> HIDE DEF S, s
  <2> QED
    BY <1>1, <2>2, TupleIsSeq, Zenon
<1> HIDE DEF S, s, V
<1>5. Flattened(S, s, F)
  BY <1>4, Flattening, Zenon
<1>6. /\ F[0] = <<>> /\ F[n] = FlattenSeq(s)
      /\ \A k \in 0..(n - 1) : F[k + 1] = Joined(F[k], s[k + 1])
      /\ \A k \in 0..n : F[k] \in Seq(S)
  BY <1>4, <1>5, Zenon DEF Flattened
<1> HIDE DEF F
<1>7. \A k \in 0..(n - 1) : /\ Len(F[k + 1]) = Len(F[k]) + Len(s[k + 1])
                            /\ \A i \in 1..(Len(F[k]) + Len(s[k + 1])) :
                                 F[k + 1][i] = IF i <= Len(F[k]) THEN F[k][i] ELSE s[k + 1][i - Len(F[k])]
  <2> SUFFICES ASSUME NEW k \in 0..(n - 1)
               PROVE  /\ Len(F[k + 1]) = Len(F[k]) + Len(s[k + 1])
                      /\ \A i \in 1..(Len(F[k]) + Len(s[k + 1])) :
                           F[k + 1][i] = IF i <= Len(F[k]) THEN F[k][i] ELSE s[k + 1][i - Len(F[k])]
    OBVIOUS
  <2>1. k \in 0..n /\ k + 1 \in 1..n
    BY <1>1
  <2>2. F[k] \in Seq(S) /\ s[k + 1] \in Seq(S)
    BY <1>3, <1>6, <2>1, Zenon
  <2>3. /\ Len(Joined(F[k], s[k + 1])) = Len(F[k]) + Len(s[k + 1])
        /\ \A i \in 1..(Len(F[k]) + Len(s[k + 1])) :
             Joined(F[k], s[k + 1])[i] = IF i <= Len(F[k]) THEN F[k][i] ELSE s[k + 1][i - Len(F[k])]
    BY <2>2, Row, Zenon
  <2>4. F[k + 1] = Joined(F[k], s[k + 1])
    BY <1>6, Zenon
  <2> QED
    BY <2>3, <2>4, Zenon
<1> DEFINE T == {k \in 0..n : Len(F[k]) = P[k + 1] /\ P[k + 1] \in Nat}
<1>8. 0 \in T
  <2>1. Len(F[0]) = 0 /\ 0 + 1 = 1
    BY <1>6
  <2> QED
    BY <1>1, <2>1
<1>9. ASSUME NEW k \in 0..(n - 1), k \in T PROVE k + 1 \in T
  <2>1. k + 1 \in 1..n /\ k + 1 \in 0..n
    BY <1>1
  <2>2. Len(F[k + 1]) = P[k + 1] + fields[k + 1].w
    BY <1>3, <1>7, <1>9, <2>1
  <2>3. P[(k + 1) + 1] = P[k + 1] + fields[k + 1].w /\ fields[k + 1].w \in Nat
    BY <1>1, <2>1
  <2> QED
    BY <1>9, <2>1, <2>2, <2>3
<1> HIDE DEF T
<1>10. 0..n \subseteq T
  BY <1>1, <1>8, <1>9, UpTo
<1>11. \A k \in 0..n : Len(F[k]) = P[k + 1] /\ P[k + 1] \in Nat
  BY <1>10 DEF T
<1>12. ASSUME NEW k \in 1..n
       PROVE  /\ P[k] \in Nat /\ P[k + 1] = P[k] + fields[k].w
              /\ \A i \in 1..(P[k] + fields[k].w) :
                   F[k][i] = IF i <= P[k] THEN F[k - 1][i] ELSE s[k][i - P[k]]
  <2>1. k - 1 \in 0..(n - 1) /\ k - 1 \in 0..n /\ (k - 1) + 1 = k
    BY <1>1
  <2>2. Len(F[k - 1]) = P[k] /\ P[k] \in Nat
    BY <1>11, <2>1
  <2>3. \A i \in 1..(Len(F[k - 1]) + Len(s[(k - 1) + 1])) :
            F[(k - 1) + 1][i] = IF i <= Len(F[k - 1]) THEN F[k - 1][i]
                                ELSE s[(k - 1) + 1][i - Len(F[k - 1])]
    BY <1>7, <2>1, Zenon
  <2>4. Len(s[k]) = fields[k].w
    BY <1>3
  <2> QED
    BY <1>1, <2>1, <2>2, <2>3, <2>4, Zenon
<1>13. ASSUME NEW k \in 1..n, fields[k].w # 0
       PROVE  Holds(F[n], P[k], fields[k].w, fields[k].v)
  <2> DEFINE b == [of |-> fields[k].v, nth |-> 1, width |-> fields[k].w]
             U == {i \in 0..n : i >= k => (P[k] + 1 <= P[i + 1] /\ F[i][P[k] + 1] = b)}
  <2>1. 0 \in U
    BY <1>1
  <2>2. ASSUME NEW i \in 0..(n - 1), i \in U PROVE i + 1 \in U
    <3>1. i + 1 \in 1..n /\ i + 1 \in 0..n /\ (i + 1) - 1 = i /\ k \in Int /\ i \in Int
      BY <1>1
    <3>2. /\ P[i + 1] \in Nat /\ P[(i + 1) + 1] = P[i + 1] + fields[i + 1].w
          /\ \A h \in 1..(P[i + 1] + fields[i + 1].w) :
               F[i + 1][h] = IF h <= P[i + 1] THEN F[(i + 1) - 1][h] ELSE s[i + 1][h - P[i + 1]]
      BY <1>12, <3>1
    <3>3. P[k] \in Nat /\ fields[i + 1].w \in Nat
      BY <1>1, <1>12, <3>1
    <3>4. CASE i + 1 = k
      <4>1. /\ P[k] + 1 \in 1..(P[k] + fields[k].w) /\ ~(P[k] + 1 <= P[k]) /\ (P[k] + 1) - P[k] = 1
            /\ 1 \in 1..fields[k].w
        BY <1>1, <1>13, <3>3, <3>4
      <4>2. F[k][P[k] + 1] = s[k][1]
        BY <3>2, <3>4, <4>1
      <4>3. s[k][1] = b
        BY <1>3, <4>1
      <4> QED
        BY <3>1, <3>2, <3>3, <3>4, <4>1, <4>2, <4>3
    <3>5. CASE i >= k
      <4>1. P[k] + 1 <= P[i + 1] /\ F[i][P[k] + 1] = b
        BY <2>2, <3>5
      <4>2. P[k] + 1 \in 1..(P[i + 1] + fields[i + 1].w)
        BY <3>2, <3>3, <4>1
      <4>3. F[i + 1][P[k] + 1] = F[i][P[k] + 1]
        BY <3>1, <3>2, <4>1, <4>2
      <4> HIDE DEF b
      <4> QED
        BY <3>1, <3>2, <3>3, <4>1, <4>3
    <3>6. CASE i + 1 < k
      BY <3>1, <3>6
    <3> QED
      BY <3>1, <3>4, <3>5, <3>6
  <2> HIDE DEF U
  <2>3. 0..n \subseteq U
    BY <1>1, <2>1, <2>2, UpTo
  <2>4. P[k] + 1 <= P[n + 1] /\ F[n][P[k] + 1] = b
    BY <1>1, <2>3 DEF U
  <2>5. P[k] + 1 \in DOMAIN F[n]
    <3>1. Len(F[n]) = P[n + 1] /\ P[n + 1] \in Nat /\ F[n] \in Seq(S) /\ P[k] \in Nat
      BY <1>1, <1>6, <1>11, <1>12
    <3> QED
      BY <2>4, <3>1
  <2> QED
    BY <2>4, <2>5 DEF Holds
<1>14. IsBits(F[n], P[n + 1])
  <2>1. F[n] \in Seq(S) /\ Len(F[n]) = P[n + 1] /\ P[n + 1] \in Nat
    BY <1>1, <1>6, <1>11
  <2> QED
    BY <2>1, Zenon DEF IsBits
<1> QED
  BY <1>2, <1>6, <1>12, <1>13, <1>14, Zenon

\* The reads of a decoder are as wide as the fields.
Agree(layout, widths, n) ==
    /\ n \in Nat /\ DOMAIN layout = 1..n /\ Len(widths) = n
    /\ \A k \in 1..n : layout[k][2] = widths[k] /\ widths[k] \in Nat \ {0}

\* Those of 1019
LEMMA Agree1019 == Agree(Layout1019, Widths1019, 30)
<1>1. DOMAIN Layout1019 = 1..30
  BY DEF Layout1019
<1>2. Len(Widths1019) = 30
  BY DEF Widths1019
<1>3. ASSUME NEW k \in 1..30
      PROVE  Layout1019[k][2] = Widths1019[k] /\ Widths1019[k] \in Nat \ {0}
  BY <1>3 DEF Layout1019, Widths1019
<1> QED
  BY <1>1, <1>2, <1>3, Zenon DEF Agree

\* Those of 1042
LEMMA Agree1042 == Agree(Layout1042, Widths1042, 28)
<1>1. DOMAIN Layout1042 = 1..28
  BY DEF Layout1042
<1>2. Len(Widths1042) = 28
  BY DEF Widths1042
<1>3. ASSUME NEW k \in 1..28
      PROVE  Layout1042[k][2] = Widths1042[k] /\ Widths1042[k] \in Nat \ {0}
  BY <1>3 DEF Layout1042, Widths1042
<1> QED
  BY <1>1, <1>2, <1>3, Zenon DEF Agree

\* Those of 1046
LEMMA Agree1046 == Agree(Layout1046, Widths1046, 31)
<1>1. DOMAIN Layout1046 = 1..31
  BY DEF Layout1046
<1>2. Len(Widths1046) = 31
  BY DEF Widths1046
<1>3. ASSUME NEW k \in 1..31
      PROVE  Layout1046[k][2] = Widths1046[k] /\ Widths1046[k] \in Nat \ {0}
  BY <1>3 DEF Layout1046, Widths1046
<1> QED
  BY <1>1, <1>2, <1>3, Zenon DEF Agree

\* Those of 1020
LEMMA Agree1020 == Agree(Layout1020, Widths1020, 38)
<1>1. DOMAIN Layout1020 = 1..38
  BY DEF Layout1020
<1>2. Len(Widths1020) = 38
  BY DEF Widths1020
<1>3. ASSUME NEW k \in 1..38
      PROVE  Layout1020[k][2] = Widths1020[k] /\ Widths1020[k] \in Nat \ {0}
  BY <1>3 DEF Layout1020, Widths1020
<1> QED
  BY <1>1, <1>2, <1>3, Zenon DEF Agree


Stepwise(D, first, n, step, g) ==
    g \in [0..n -> D] /\ g[0] = first /\ \A k \in 1..n : g[k] = step[k][g[k - 1]]

\* A function that is defined step by step exists.
LEMMA StepByStep ==
    ASSUME NEW D, NEW first, first \in D, NEW n, n \in Nat, NEW step, step \in [1..n -> [D -> D]]
    PROVE  \E g : Stepwise(D, first, n, step, g)
<1> DEFINE T == {m \in 0..n : \E g \in [0..m -> D] : /\ g[0] = first
                                                    /\ \A k \in 1..m : g[k] = step[k][g[k - 1]]}
<1>1. 0 \in T
  <2> DEFINE g == [k \in 0..0 |-> first]
  <2>1. g \in [0..0 -> D] /\ g[0] = first /\ 0 \in 0..n
    OBVIOUS
  <2>2. \A k \in 1..0 : g[k] = step[k][g[k - 1]]
    OBVIOUS
  <2> HIDE DEF g
  <2> QED
    BY <2>1, <2>2
<1>2. ASSUME NEW m \in 0..(n - 1), m \in T PROVE m + 1 \in T
  <2>1. PICK g \in [0..m -> D] : g[0] = first /\ \A k \in 1..m : g[k] = step[k][g[k - 1]]
    BY <1>2
  <2>2. PICK d : d = step[m + 1][g[m]]
    OBVIOUS
  <2>3. d \in D
    <3>1. m \in 0..m /\ m + 1 \in 1..n
      OBVIOUS
    <3> QED
      BY <2>2, <3>1
  <2> DEFINE h == [k \in 0..(m + 1) |-> IF k = m + 1 THEN d ELSE g[k]]
  <2>4. h \in [0..(m + 1) -> D]
    BY <2>3
  <2>5. h[m + 1] = d /\ \A k \in 0..m : h[k] = g[k]
    OBVIOUS
  <2> HIDE DEF h
  <2>6. ASSUME NEW k \in 1..(m + 1) PROVE h[k] = step[k][h[k - 1]]
    <3>1. CASE k = m + 1
      <4>1. k - 1 = m /\ m \in 0..m
        BY <3>1
      <4>2. h[k - 1] = g[m]
        BY <2>5, <4>1, Zenon
      <4> QED
        BY <2>2, <2>5, <3>1, <4>2, Zenon
    <3>2. CASE k # m + 1
      <4>1. k \in 1..m /\ k \in 0..m /\ k - 1 \in 0..m
        BY <3>2
      <4> QED
        BY <2>1, <2>5, <4>1, Zenon
    <3> QED
      BY <3>1, <3>2
  <2>7. h[0] = first /\ m + 1 \in 0..n
    BY <2>1, <2>5
  <2> QED
    BY <2>4, <2>6, <2>7
<1> HIDE DEF T
<1>3. 0..n \subseteq T
  BY <1>1, <1>2, UpTo
<1>4. n \in T
  BY <1>3
<1> QED
  BY <1>4, Zenon DEF T, Stepwise

IsStarts(pos, layout) ==
    pos = [k \in DOMAIN layout |-> IF k = 1 THEN 36 ELSE pos[k - 1] + layout[k - 1][2]]

OneAfterAnother(pos, widths, n) ==
    /\ n # 0 => pos[1] = 36
    /\ \A k \in 2..n : pos[k] = pos[k - 1] + widths[k - 1]
    /\ \A k \in 1..n : pos[k] \in Nat

\* The reads of a layout begin one after the other.
LEMMA StartsAre ==
    ASSUME NEW layout, NEW widths, NEW n, Agree(layout, widths, n)
    PROVE  OneAfterAnother(Starts(layout), widths, n)
<1>1. n \in Nat /\ DOMAIN layout = 1..n /\ \A k \in 1..n : layout[k][2] = widths[k] /\ widths[k] \in Nat
  BY Zenon DEF Agree
<1> DEFINE step == [k \in 1..n |-> [d \in Nat |-> d + widths[k]]]
<1>2. step \in [1..n -> [Nat -> Nat]]
  BY <1>1
<1>3. PICK g \in [0..n -> Nat] : g[0] = 36 /\ \A k \in 1..n : g[k] = step[k][g[k - 1]]
  <2>1. 36 \in Nat
    OBVIOUS
  <2> HIDE DEF step
  <2>2. PICK g : Stepwise(Nat, 36, n, step, g)
    BY <1>1, <1>2, <2>1, StepByStep, Zenon
  <2> QED
    BY <2>2, Zenon DEF Stepwise
<1>4. ASSUME NEW k \in 1..n PROVE g[k] = g[k - 1] + widths[k] /\ g[k] \in Nat /\ g[k - 1] \in Nat
  <2>1. k - 1 \in 0..n /\ k \in 0..n
    BY <1>1
  <2> QED
    BY <1>3, <2>1
<1> DEFINE pos == [k \in 1..n |-> g[k - 1]]
<1>5. ASSUME NEW k \in 1..n PROVE pos[k] = IF k = 1 THEN 36 ELSE pos[k - 1] + layout[k - 1][2]
  <2>1. CASE k = 1
    BY <1>3, <2>1
  <2>2. CASE k # 1
    <3>1. k - 1 \in 1..n /\ k \in 1..n
      BY <1>1, <2>2
    <3>2. pos[k - 1] = g[(k - 1) - 1] /\ pos[k] = g[k - 1]
      BY <3>1, Zenon
    <3> HIDE DEF pos
    <3> QED
      BY <1>1, <1>4, <2>2, <3>1, <3>2
  <2> QED
    BY <2>1, <2>2
<1>6. IsStarts(pos, layout)
  <2>1. pos = [k \in 1..n |-> IF k = 1 THEN 36 ELSE pos[k - 1] + layout[k - 1][2]]
    <3>1. \A k \in 1..n : pos[k] = IF k = 1 THEN 36 ELSE pos[k - 1] + layout[k - 1][2]
      BY <1>5
    <3>2. pos = [k \in 1..n |-> pos[k]]
      OBVIOUS
    <3> HIDE DEF pos
    <3> QED
      BY <3>1, <3>2
  <2> QED
    BY <1>1, <2>1, Zenon DEF IsStarts
<1>7. PICK f : f = Starts(layout)
  OBVIOUS
<1>8. IsStarts(f, layout)
  <2>1. f = CHOOSE p : IsStarts(p, layout)
    BY <1>7, Zenon DEF Starts, IsStarts
  <2> QED
    BY <1>6, <2>1, Zenon
<1>9. \A k \in 1..n : f[k] = IF k = 1 THEN 36 ELSE f[k - 1] + layout[k - 1][2]
  <2>1. f = [k \in 1..n |-> IF k = 1 THEN 36 ELSE f[k - 1] + layout[k - 1][2]]
    BY <1>1, <1>8, Zenon DEF IsStarts
  <2> QED
    BY <2>1, Zenon
<1>10. \A k \in 2..n : f[k] = f[k - 1] + widths[k - 1]
  <2> SUFFICES ASSUME NEW k \in 2..n PROVE f[k] = f[k - 1] + widths[k - 1]
    OBVIOUS
  <2>1. k \in 1..n /\ k # 1 /\ k - 1 \in 1..n
    BY <1>1
  <2> QED
    BY <1>1, <1>9, <2>1, Zenon
<1> DEFINE T == {i \in 0..n : i # 0 => f[i] \in Nat}
<1>11. 0 \in T
  BY <1>1
<1>12. ASSUME NEW i \in 0..(n - 1), i \in T PROVE i + 1 \in T
  <2>1. CASE i = 0
    <3>1. i + 1 = 1 /\ 1 \in 1..n
      BY <1>1, <2>1
    <3>2. f[1] = 36
      BY <1>9, <3>1, Zenon
    <3> QED
      BY <3>1, <3>2
  <2>2. CASE i # 0
    <3>1. i + 1 \in 2..n /\ i \in 1..n /\ (i + 1) - 1 = i
      BY <1>1, <2>2
    <3>2. f[i] \in Nat /\ f[i + 1] = f[i] + widths[i] /\ widths[i] \in Nat
      BY <1>1, <1>10, <1>12, <2>2, <3>1
    <3> QED
      BY <3>1, <3>2
  <2> QED
    BY <2>1, <2>2
<1> HIDE DEF T
<1>13. 0..n \subseteq T
  BY <1>1, <1>11, <1>12, UpTo
<1>14. \A k \in 1..n : f[k] \in Nat
  <2> SUFFICES ASSUME NEW k \in 1..n PROVE f[k] \in Nat
    OBVIOUS
  <2>1. k \in 0..n /\ k # 0
    BY <1>1
  <2> QED
    BY <1>13, <2>1 DEF T
<1>15. n # 0 => f[1] = 36
  <2>1. n # 0 => 1 \in 1..n
    BY <1>1
  <2> QED
    BY <1>9, <2>1, Zenon
<1> QED
  BY <1>7, <1>10, <1>14, <1>15, Zenon DEF OneAfterAnother

AllRead(m, layout, n, f) ==
    /\ DOMAIN f = {layout[k][1] : k \in 1..n}
    /\ \A name \in DOMAIN f : f[name] = Sent(m, name)

\* Every field of an ephemeris is read where it was written.
LEMMA EphemerisReads ==
    ASSUME NEW m, NEW layout, NEW n, layout = Layout(m.type), Agree(layout, Widths(m.type), n),
           NEW f, f = ReadAll(EphemerisFrame(m), layout)
    PROVE  AllRead(m, layout, n, f)
<1>1. PICK widths : widths = Widths(m.type)
  OBVIOUS
<1>2. /\ n \in Nat /\ DOMAIN layout = 1..n /\ Len(widths) = n
      /\ \A k \in 1..n : layout[k][2] = widths[k] /\ widths[k] \in Nat \ {0}
  BY <1>1, Zenon DEF Agree
<1>3. PICK pos : pos = Starts(layout)
  OBVIOUS
<1>4. /\ n # 0 => pos[1] = 36
      /\ \A k \in 2..n : pos[k] = pos[k - 1] + widths[k - 1]
      /\ \A k \in 1..n : pos[k] \in Nat
  <2>1. Agree(layout, widths, n)
    BY <1>1
  <2> QED
    BY <1>3, <2>1, StartsAre DEF OneAfterAnother
<1> DEFINE fields == [k \in 1..n |-> Bits(widths[k], Sent(m, layout[k][1]))]
           P == [k \in 1..(n + 1) |-> IF k = 1 THEN 0 ELSE pos[k - 1] + widths[k - 1] - 36]
           head == <<Bits(12, m.type)>>
<1>5. EphemerisFrame(m) = Laid(head) \o Laid(fields)
  BY <1>1, <1>2, Zenon DEF EphemerisFrame
<1>6. \A k \in 1..n : fields[k].w = widths[k] /\ fields[k].v = Sent(m, layout[k][1])
  BY DEF Bits
<1>7. \A k \in 1..n : P[k] = pos[k] - 36
  <2> SUFFICES ASSUME NEW k \in 1..n PROVE P[k] = pos[k] - 36
    OBVIOUS
  <2>1. CASE k = 1
    BY <1>2, <1>4, <2>1
  <2>2. CASE k # 1
    <3>1. k \in 2..n /\ k \in 1..(n + 1)
      BY <1>2, <2>2
    <3>2. P[k] = pos[k - 1] + widths[k - 1] - 36
      BY <2>2, <3>1
    <3>3. pos[k] = pos[k - 1] + widths[k - 1]
      BY <1>4, <3>1
    <3>4. k - 1 \in 1..n
      BY <1>2, <3>1
    <3>5. pos[k - 1] \in Nat /\ widths[k - 1] \in Nat
      BY <1>2, <1>4, <3>4
    <3> HIDE DEF P
    <3> QED
      BY <3>2, <3>3, <3>5
  <2> QED
    BY <2>1, <2>2
<1>8. Widened(fields, n, P)
  <2>1. P[1] = 0
    BY <1>2
  <2>2. ASSUME NEW k \in 1..n PROVE fields[k].w \in Nat /\ P[k + 1] = P[k] + fields[k].w
    <3>1. k + 1 \in 1..(n + 1) /\ k + 1 # 1 /\ (k + 1) - 1 = k
      BY <1>2
    <3>2. P[k + 1] = pos[k] + widths[k] - 36
      BY <3>1
    <3>3. pos[k] \in Nat /\ widths[k] \in Nat /\ fields[k].w = widths[k] /\ P[k] = pos[k] - 36
      BY <1>2, <1>4, <1>6, <1>7
    <3> HIDE DEF P, fields
    <3> QED
      BY <3>2, <3>3
  <2>3. DOMAIN fields = 1..n
    OBVIOUS
  <2> HIDE DEF fields, P
  <2> QED
    BY <1>2, <2>1, <2>2, <2>3, Zenon DEF Widened
<1>9. Widened(head, 1, [k \in 1..2 |-> IF k = 1 THEN 0 ELSE 12])
  BY DEF Widened, Bits
<1> HIDE DEF fields, P, head
<1>10. IsBits(Laid(fields), P[n + 1]) /\ \A k \in 1..n : P[k] \in Nat
  BY <1>8, LaidOut, Zenon
<1>11. \A k \in 1..n : fields[k].w # 0 => Holds(Laid(fields), P[k], fields[k].w, fields[k].v)
  BY <1>8, LaidOut, Zenon
<1>12. IsBits(Laid(head), 12)
  <2> DEFINE Q == [k \in 1..2 |-> IF k = 1 THEN 0 ELSE 12]
  <2>1. Q[1 + 1] = 12
    OBVIOUS
  <2>2. IsBits(Laid(head), Q[1 + 1])
    <3> HIDE DEF Q
    <3>1. Widened(head, 1, Q)
      BY <1>9 DEF Q
    <3> QED
      BY <3>1, LaidOut, Zenon
  <2> QED
    BY <2>1, <2>2
<1>13. \A p \in Nat : \A w, v : Holds(Laid(fields), p, w, v) => Holds(EphemerisFrame(m), 12 + p, w, v)
  BY <1>5, <1>10, <1>12, TwoPieces, Zenon
<1>14. ASSUME NEW k \in 1..n PROVE Field(EphemerisFrame(m), pos[k], widths[k]) = Sent(m, layout[k][1])
  <2>1. /\ widths[k] # 0 /\ fields[k].w = widths[k] /\ fields[k].v = Sent(m, layout[k][1])
        /\ P[k] \in Nat /\ pos[k] \in Nat /\ P[k] = pos[k] - 36
    BY <1>2, <1>4, <1>6, <1>7, <1>10
  <2>2. Holds(EphemerisFrame(m), 12 + P[k], widths[k], Sent(m, layout[k][1]))
    BY <1>11, <1>13, <2>1, Zenon
  <2>3. PICK p : p = 12 + P[k]
    OBVIOUS
  <2>4. p \in Nat /\ pos[k] \in Int /\ pos[k] = p + 24
    BY <2>1, <2>3
  <2>5. Holds(EphemerisFrame(m), p, widths[k], Sent(m, layout[k][1]))
    BY <2>2, <2>3
  <2> QED
    BY <2>4, <2>5, HoldsReads
<1> DEFINE Names == {layout[k][1] : k \in DOMAIN layout}
           At(name) == CHOOSE k \in DOMAIN layout : layout[k][1] = name
<1>15. f = [name \in Names |->
              Field(EphemerisFrame(m), Starts(layout)[At(name)], layout[At(name)][2])]
  BY Zenon DEF ReadAll
<1>16. ASSUME NEW name \in Names
       PROVE  f[name] = Sent(m, name)
  <2>1. PICK k : k = At(name)
    OBVIOUS
  <2>2. k \in DOMAIN layout /\ layout[k][1] = name
    BY <2>1, Zenon
  <2>3. f[name] = Field(EphemerisFrame(m), Starts(layout)[k], layout[k][2])
    <3> HIDE DEF At, Names
    <3> QED
      BY <1>15, <2>1, Zenon
  <2> QED
    BY <1>2, <1>3, <1>14, <2>2, <2>3, Zenon
<1>17. DOMAIN f = Names
  <2> HIDE DEF At, Names
  <2> QED
    BY <1>15, Zenon
<1> QED
  BY <1>2, <1>16, <1>17, Zenon DEF AllRead

-----------------------------------------------------------------------------
(* The calendar of vGetGlonassUTC and rdn.                                  *)

Leap(year) == IF year % 4 = 0 THEN 1 ELSE 0

\* The days of a year before each month, and all of them
Before(year) ==
    <<0, 31, 59 + Leap(year), 90 + Leap(year), 120 + Leap(year), 151 + Leap(year), 181 + Leap(year),
      212 + Leap(year), 243 + Leap(year), 273 + Leap(year), 304 + Leap(year), 334 + Leap(year),
      365 + Leap(year)>>

DaysOf(year) == <<31, IF year % 4 = 0 THEN 29 ELSE 28, 31, 30, 31, 30, 31, 31, 30, 31, 30, 31>>

IsBefore(f, days) == f = [k \in 1..13 |-> IF k = 1 THEN 0 ELSE f[k - 1] + days[k - 1]]

\* They are what vGetGlonassUTC adds up.
LEMMA BeforeIs ==
    ASSUME NEW year, NEW f, IsBefore(f, DaysOf(year))
    PROVE  \A k \in 1..13 : f[k] = Before(year)[k]
<1>1. PICK days : days = DaysOf(year)
  OBVIOUS
<1>2. /\ days[1] = 31 /\ days[2] = 28 + Leap(year) /\ days[3] = 31 /\ days[4] = 30 /\ days[5] = 31
      /\ days[6] = 30 /\ days[7] = 31 /\ days[8] = 31 /\ days[9] = 30 /\ days[10] = 31
      /\ days[11] = 30 /\ days[12] = 31
  BY <1>1 DEF DaysOf, Leap
<1>3. \A k \in 1..13 : f[k] = IF k = 1 THEN 0 ELSE f[k - 1] + days[k - 1]
  <2>1. f = [k \in 1..13 |-> IF k = 1 THEN 0 ELSE f[k - 1] + days[k - 1]]
    BY <1>1, Zenon DEF IsBefore
  <2> QED
    BY <2>1, Zenon
<1>4. f[1] = 0 /\ f[2] = f[1] + days[1] /\ f[3] = f[2] + days[2] /\ f[4] = f[3] + days[3]
      /\ f[5] = f[4] + days[4] /\ f[6] = f[5] + days[5] /\ f[7] = f[6] + days[6]
  BY <1>3
<1>5. /\ f[8] = f[7] + days[7] /\ f[9] = f[8] + days[8] /\ f[10] = f[9] + days[9]
      /\ f[11] = f[10] + days[10] /\ f[12] = f[11] + days[11] /\ f[13] = f[12] + days[12]
  BY <1>3
<1>6. Leap(year) \in Int
  BY DEF Leap
<1>7. f[1] = 0 /\ f[2] = 31 /\ f[3] = 59 + Leap(year) /\ f[4] = 90 + Leap(year)
      /\ f[5] = 120 + Leap(year) /\ f[6] = 151 + Leap(year) /\ f[7] = 181 + Leap(year)
  BY <1>2, <1>4, <1>6
<1>8. /\ f[8] = 212 + Leap(year) /\ f[9] = 243 + Leap(year) /\ f[10] = 273 + Leap(year)
      /\ f[11] = 304 + Leap(year) /\ f[12] = 334 + Leap(year) /\ f[13] = 365 + Leap(year)
  BY <1>2, <1>5, <1>6, <1>7
<1> QED
  BY <1>7, <1>8 DEF Before

Years == 1996..2099
DayOfYear == 1..365
DaysTo(year, d) == 365 * (year - 1980) + (year - 1) \div 4 - 494 + d - 6

InMonth(year, d, k) ==
    /\ k \in 1..12 /\ Before(year)[k] < d /\ d <= Before(year)[k + 1]
    /\ MonthDay(year, d) = <<k, d - Before(year)[k]>>

\* The month of a day is the one whose days before are fewer, and whose last day is not.
LEMMA MonthDayIs ==
    ASSUME NEW year \in Nat, NEW d \in DayOfYear
    PROVE  \E k : InMonth(year, d, k)
<1> DEFINE f == CHOOSE g : IsBefore(g, DaysOf(year))
<1>1. IsBefore(f, DaysOf(year))
  <2> DEFINE g == [k \in 1..13 |-> Before(year)[k]]
  <2>1. ASSUME NEW k \in 1..13 PROVE g[k] = IF k = 1 THEN 0 ELSE g[k - 1] + DaysOf(year)[k - 1]
    <3>1. Before(year)[k] = IF k = 1 THEN 0 ELSE Before(year)[k - 1] + DaysOf(year)[k - 1]
      BY <2>1 DEF Before, DaysOf, Leap
    <3>2. k # 1 => k - 1 \in 1..13
      OBVIOUS
    <3> QED
      BY <3>1, <3>2
  <2>2. g = [k \in 1..13 |-> IF k = 1 THEN 0 ELSE g[k - 1] + DaysOf(year)[k - 1]]
    <3>1. g = [k \in 1..13 |-> g[k]]
      OBVIOUS
    <3> HIDE DEF g
    <3> QED
      BY <2>1, <3>1
  <2>3. IsBefore(g, DaysOf(year))
    BY <2>2, Zenon DEF IsBefore
  <2> QED
    BY <2>3, Zenon
<1>2. MonthDay(year, d) =
        LET month == CHOOSE k \in 1..12 : f[k] < d /\ d <= f[k + 1]
        IN <<month, d - f[month]>>
  BY Zenon DEF MonthDay, IsBefore, DaysOf
<1> HIDE DEF f
<1>3. \A k \in 1..13 : f[k] = Before(year)[k]
  BY <1>1, BeforeIs, Zenon
<1>4. \E k \in 1..12 : f[k] < d /\ d <= f[k + 1]
  <2>1. /\ f[1] = 0 /\ f[2] = 31 /\ f[3] = 59 + Leap(year) /\ f[4] = 90 + Leap(year)
        /\ f[5] = 120 + Leap(year) /\ f[6] = 151 + Leap(year) /\ f[7] = 181 + Leap(year)
        /\ f[8] = 212 + Leap(year) /\ f[9] = 243 + Leap(year) /\ f[10] = 273 + Leap(year)
        /\ f[11] = 304 + Leap(year) /\ f[12] = 334 + Leap(year) /\ f[13] = 365 + Leap(year)
    BY <1>3 DEF Before
  <2>2. Leap(year) \in 0..1
    BY DEF Leap
  <2>3. CASE d <= f[7]
    BY <2>1, <2>2, <2>3 DEF DayOfYear
  <2>4. CASE ~(d <= f[7])
    BY <2>1, <2>2, <2>4 DEF DayOfYear
  <2> QED
    BY <2>3, <2>4
<1>5. PICK month : month = CHOOSE k \in 1..12 : f[k] < d /\ d <= f[k + 1]
  OBVIOUS
<1>6. month \in 1..12 /\ f[month] < d /\ d <= f[month + 1]
  BY <1>4, <1>5, Zenon
<1>7. month \in 1..13 /\ month + 1 \in 1..13
  BY <1>6
<1>8. MonthDay(year, d) = <<month, d - f[month]>>
  BY <1>2, <1>5, Zenon
<1> QED
  BY <1>3, <1>6, <1>7, <1>8 DEF InMonth

\* The days from the origin of GPS to day d of a year.
LEMMA DayIs ==
    ASSUME NEW year, year \in Years, NEW d, d \in DayOfYear
    PROVE  SumDay(<<year>> \o MonthDay(year, d)) = DaysTo(year, d)
<1>1. PICK k : InMonth(year, d, k)
  <2>1. year \in Nat
    BY DEF Years
  <2> QED
    BY <2>1, MonthDayIs, Zenon
<1>2. /\ k \in 1..12 /\ Before(year)[k] < d /\ d <= Before(year)[k + 1]
      /\ MonthDay(year, d) = <<k, d - Before(year)[k]>>
  BY <1>1, Zenon DEF InMonth
<1>3. PICK date : date = <<year>> \o MonthDay(year, d)
  BY Zenon
<1>4. SumDay(date) = rdn(year, k, d - Before(year)[k]) - rdn(1980, 1, 6)
  <2>1. PICK x : x = d - Before(year)[k]
    BY Zenon
  <2>2. date = <<year>> \o <<k, x>>
    BY <1>2, <1>3, <2>1, Zenon
  <2>3. date[1] = year /\ date[2] = k /\ date[3] = x
    BY <2>2
  <2> QED
    BY <2>1, <2>3 DEF SumDay
<1>5. rdn(1980, 1, 6) = 365 * 1979 + 480 + 5
  BY DEF rdn
<1>6. PICK x \in Int : x = d - Before(year)[k] /\ Before(year)[k] \in Int
  BY <1>2 DEF Before, Leap, DayOfYear
<1>7. (year - 1) \div 100 - (year - 1) \div 400 = 15 /\ year \div 100 - year \div 400 = 15
  BY DEF Years
<1> QED
  BY <1>2, <1>3, <1>4, <1>5, <1>6, <1>7 DEF rdn, Before, Leap, Years, DayOfYear, DaysTo

\* So many days after the origin of GPS is day NT of the four years N4 of GLONASS.
DayNumber(N4, NT) == Day1996 + 1461 * (N4 - 1) + NT - 1

\* Day d of the year q after y is day NT of the four years from y on, if that is not 366.
DayOf(NT, y, last, q, d) ==
    /\ q \in 0..3 /\ d \in DayOfYear /\ last[1] = y + q /\ last[2] = d
    /\ NT = d + 365 * q + (IF q = 0 THEN 0 ELSE 1)

\* What the loop of vGetGlonassUTC does once
NextYear(yd) == IF yd[2] > 365 THEN <<yd[1] + 1, yd[2] - 365>> ELSE yd

\* One turn of the loop, for a day of the year and for another day.
LEMMA Turn ==
    ASSUME NEW y \in Int, NEW d \in Int
    PROVE  /\ d <= 365 => NextYear(<<y, d>>) = <<y, d>>
           /\ d > 365 => NextYear(<<y, d>>) = <<y + 1, d - 365>>
BY DEF NextYear

\* The days of four years but day 366
DayOfFour == 1..1461 \ {366}

\* What the loop begins with
FirstDay(y, NT) == IF NT > 366 THEN <<y + 1, NT - 366>> ELSE <<y, NT>>

\* The loop finds year and day.
LEMMA YearFound ==
    ASSUME NEW y, y \in Int, NEW NT, NT \in DayOfFour,
           NEW start, start = FirstDay(y, NT), NEW last, last = NextYear(NextYear(NextYear(start)))
    PROVE  \E q, d : DayOf(NT, y, last, q, d)
<1>0. /\ NT \in 1..1461 /\ NT # 366
      /\ start = IF NT > 366 THEN <<y + 1, NT - 366>> ELSE <<y, NT>>
  BY DEF DayOfFour, FirstDay
<1>1. CASE NT < 366
  <2>1. start = <<y, NT>> /\ NT <= 365 /\ NT \in Int
    BY <1>0, <1>1
  <2>2. NextYear(start) = start
    BY <2>1, Turn
  <2>3. last = <<y, NT>>
    BY <2>1, <2>2
  <2>4. DayOf(NT, y, last, 0, NT)
    BY <1>0, <2>1, <2>3 DEF DayOf, DayOfYear
  <2> QED
    BY <2>4
<1>2. CASE NT >= 367 /\ NT <= 731
  <2>1. start = <<y + 1, NT - 366>> /\ y + 1 \in Int /\ NT - 366 \in Int /\ NT - 366 <= 365
    BY <1>0, <1>2
  <2>2. NextYear(start) = start
    BY <2>1, Turn
  <2>3. last = <<y + 1, NT - 366>>
    BY <2>1, <2>2
  <2>4. DayOf(NT, y, last, 1, NT - 366)
    BY <1>0, <1>2, <2>3 DEF DayOf, DayOfYear
  <2> QED
    BY <2>4
<1>3. CASE NT >= 732 /\ NT <= 1096
  <2>1. start = <<y + 1, NT - 366>> /\ y + 1 \in Int /\ NT - 366 \in Int /\ NT - 366 > 365
    BY <1>0, <1>3
  <2>2. NextYear(start) = <<(y + 1) + 1, (NT - 366) - 365>>
    BY <2>1, Turn
  <2>3. (y + 1) + 1 = y + 2 /\ (NT - 366) - 365 = NT - 731 /\ y + 2 \in Int /\ NT - 731 \in Int
        /\ NT - 731 <= 365
    BY <1>0, <1>3
  <2>4. NextYear(<<y + 2, NT - 731>>) = <<y + 2, NT - 731>>
    BY <2>3, Turn
  <2>5. last = <<y + 2, NT - 731>>
    BY <2>2, <2>3, <2>4
  <2>6. DayOf(NT, y, last, 2, NT - 731)
    BY <1>0, <1>3, <2>5 DEF DayOf, DayOfYear
  <2> QED
    BY <2>6
<1>4. CASE NT >= 1097
  <2>1. start = <<y + 1, NT - 366>> /\ y + 1 \in Int /\ NT - 366 \in Int /\ NT - 366 > 365
    BY <1>0, <1>4
  <2>2. NextYear(start) = <<(y + 1) + 1, (NT - 366) - 365>>
    BY <2>1, Turn
  <2>3. (y + 1) + 1 = y + 2 /\ (NT - 366) - 365 = NT - 731 /\ y + 2 \in Int /\ NT - 731 \in Int
        /\ NT - 731 > 365
    BY <1>0, <1>4
  <2>4. NextYear(<<y + 2, NT - 731>>) = <<(y + 2) + 1, (NT - 731) - 365>>
    BY <2>3, Turn
  <2>5. (y + 2) + 1 = y + 3 /\ (NT - 731) - 365 = NT - 1096 /\ y + 3 \in Int /\ NT - 1096 \in Int
        /\ NT - 1096 <= 365
    BY <1>0, <1>4
  <2>6. NextYear(<<y + 3, NT - 1096>>) = <<y + 3, NT - 1096>>
    BY <2>5, Turn
  <2>7. last = <<y + 3, NT - 1096>>
    BY <2>2, <2>3, <2>4, <2>5, <2>6
  <2>8. DayOf(NT, y, last, 3, NT - 1096)
    BY <1>0, <1>4, <2>7 DEF DayOf, DayOfYear
  <2> QED
    BY <2>8
<1>5. NT < 366 \/ (NT >= 367 /\ NT <= 731) \/ (NT >= 732 /\ NT <= 1096) \/ NT >= 1097
  BY <1>0
<1> QED
  BY <1>1, <1>2, <1>3, <1>4, <1>5

\* Day 366 apart, vGetGlonassUTC and iYMDtoSumDay find it.
LEMMA GlonassDay ==
    ASSUME NEW N4 \in 1..26, NEW NT, NT \in DayOfFour
    PROVE  SumDay(GlonassDate(NT, N4 * 4)) = DayNumber(N4, NT)
<1> DEFINE y == N4 * 4 + 1992
           start == FirstDay(y, NT)
           last == NextYear(NextYear(NextYear(start)))
<1>1. GlonassDate(NT, N4 * 4) = <<last[1]>> \o MonthDay(last[1], last[2])
  BY DEF GlonassDate, NextYear, FirstDay
<1>0. y \in Int
  OBVIOUS
<1>2. y = N4 * 4 + 1992
  OBVIOUS
<1> HIDE DEF y
<1>3. start = FirstDay(y, NT)
  OBVIOUS
<1> HIDE DEF start
<1>4. PICK q, d : DayOf(NT, y, last, q, d)
  BY <1>0, <1>3, YearFound, Zenon
<1> HIDE DEF last
<1>5. /\ q \in 0..3 /\ d \in DayOfYear /\ last[1] = y + q /\ last[2] = d
      /\ NT = d + 365 * q + (IF q = 0 THEN 0 ELSE 1)
  BY <1>4 DEF DayOf
<1> DEFINE year == y + q
<1>6. year \in Years /\ last[1] = year /\ last[2] = d /\ d \in DayOfYear
  BY <1>0, <1>2, <1>5 DEF Years
<1>7. year - 1980 = 4 * N4 + 12 + q /\ (year - 1) \div 4 = N4 + 497 + (IF q = 0 THEN 0 ELSE 1)
  BY <1>0, <1>2, <1>5
<1> HIDE DEF year
<1>8. SumDay(GlonassDate(NT, N4 * 4)) = DaysTo(year, d)
  <2>1. GlonassDate(NT, N4 * 4) = <<year>> \o MonthDay(year, d)
    BY <1>1, <1>6
  <2>2. SumDay(<<year>> \o MonthDay(year, d)) = DaysTo(year, d)
    BY <1>6, DayIs
  <2> QED
    BY <2>1, <2>2, Zenon
<1>9. DaysTo(year, d) = DayNumber(N4, NT)
  <2>1. d \in Int
    BY <1>5 DEF DayOfYear
  <2> QED
    BY <1>5, <1>7, <2>1 DEF DayNumber, Day1996, DaysTo
<1> QED
  BY <1>8, <1>9

\* Its week and second come to the time of the ephemeris.
LEMMA GlonassInTime ==
    ASSUME NEW m, m.type = 1020,
           NEW N4 \in Int, NEW NT \in Int, NEW tb \in Int,
           m.date["N4"] = N4, m.date["NT"] = NT, m.date["tb"] = tb,
           NEW e, NEW l \in Int, l = DayNumber(N4, NT),
           e.week = l \div 7, e.second = (l % 7) * DaySeconds + tb * 900 - 10800 + LeapSecond
    PROVE  InTime(e, m)
<1>1. PICK w \in Int : w = l \div 7
  OBVIOUS
<1>2. PICK r \in Int : r = l % 7
  OBVIOUS
<1>3. l = 7 * w + r
  BY <1>1, <1>2
<1>4. LeapSecond \in Int /\ DaySeconds \in Int
  BY DecodeAssumption DEF DaySeconds
<1>5. (w - 2200) * (7 * DaySeconds) + r * DaySeconds = (l - 2200 * 7) * DaySeconds
  <2>1. \A D \in Int : (w - 2200) * (7 * D) + r * D = ((7 * w + r) - 2200 * 7) * D
    OBVIOUS
  <2> QED
    BY <1>3, <1>4, <2>1
<1>6. PICK t \in Int : t = tb * 900 - 10800 + LeapSecond
  BY <1>4
<1>7. PICK x \in Int, u \in Int, z \in Int :
        x = (w - 2200) * (7 * DaySeconds) /\ u = r * DaySeconds /\ z = (l - 2200 * 7) * DaySeconds
  BY <1>4
<1>8. GlonassTime(m) = z + t
  <2>1. l - 2200 * 7 = Day1996 + 1461 * (N4 - 1) + NT - 1 - 2200 * 7
    BY DEF DayNumber, Day1996
  <2>2. GlonassTime(m) = (l - 2200 * 7) * DaySeconds + tb * 900 - 10800 + LeapSecond
    BY <2>1 DEF GlonassTime
  <2>3. GlonassTime(m) = z + tb * 900 - 10800 + LeapSecond
    BY <1>7, <2>2
  <2> QED
    BY <1>4, <1>6, <2>3
<1>9. e.second = u + t
  BY <1>2, <1>4, <1>6, <1>7
<1>10. InTime(e, m) <=> (e.week - 2200) * (7 * DaySeconds) + e.second = GlonassTime(m)
  BY DEF InTime
<1>11. x + u = z
  BY <1>5, <1>7
<1>12. x + (u + t) = z + t
  BY <1>11
<1> QED
  BY <1>1, <1>7, <1>8, <1>9, <1>10, <1>12

-----------------------------------------------------------------------------
(* Ephemerides.                                                             *)

\* What is read, as it was sent, with the names that are looked at.
ReadsAll(m, f, names) ==
    /\ names \subseteq DOMAIN f
    /\ \A name \in DOMAIN f : f[name] = Sent(m, name)

Is1019(m) == m.type = 1019
Is1042(m) == m.type = 1042
Is1046(m) == m.type = 1046
Is1020(m) == m.type = 1020

Looked1019 == {"sat", "week", "toc", "sqrtA", "Sv_hlth"}
Looked1042 == {"sat", "week", "toc", "sqrtA", "health"}
Looked1046 == {"sat", "week", "toc", "sqrtA", "e5b_hs", "e5b_dvs", "E1B_hs", "E1B_dvs"}
Looked1020 == {"sat", "Bn", "tb", "NT", "N4"}

\* 1019
LEMMA Reads1019 ==
    ASSUME NEW m, Is1019(m), NEW f, f = ReadAll(EphemerisFrame(m), Layout(m.type))
    PROVE  ReadsAll(m, f, Looked1019)
<1>1. Layout(m.type) = Layout1019 /\ Widths(m.type) = Widths1019
  BY DEF Layout, Widths, Is1019
<1>2. PICK n : Agree(Layout1019, Widths1019, n) /\ n = 30
  BY Agree1019
<1>3. Looked1019 \subseteq {Layout1019[k][1] : k \in 1..n}
  <2>1. /\ Layout1019[1][1] = "sat" /\ Layout1019[2][1] = "week" /\ Layout1019[7][1] = "toc"
        /\ Layout1019[18][1] = "sqrtA" /\ Layout1019[28][1] = "Sv_hlth"
    BY DEF Layout1019
  <2> QED
    BY <1>2, <2>1 DEF Looked1019
<1>4. Agree(Layout(m.type), Widths(m.type), n)
  BY <1>1, <1>2
<1>5. AllRead(m, Layout(m.type), n, f)
  BY <1>4, EphemerisReads
<1> QED
  BY <1>1, <1>3, <1>5 DEF ReadsAll, AllRead

\* 1042
LEMMA Reads1042 ==
    ASSUME NEW m, Is1042(m), NEW f, f = ReadAll(EphemerisFrame(m), Layout(m.type))
    PROVE  ReadsAll(m, f, Looked1042)
<1>1. Layout(m.type) = Layout1042 /\ Widths(m.type) = Widths1042
  BY DEF Layout, Widths, Is1042
<1>2. PICK n : Agree(Layout1042, Widths1042, n) /\ n = 28
  BY Agree1042
<1>3. Looked1042 \subseteq {Layout1042[k][1] : k \in 1..n}
  <2>1. /\ Layout1042[1][1] = "sat" /\ Layout1042[2][1] = "week" /\ Layout1042[6][1] = "toc"
        /\ Layout1042[17][1] = "sqrtA" /\ Layout1042[28][1] = "health"
    BY DEF Layout1042
  <2> QED
    BY <1>2, <2>1 DEF Looked1042
<1>4. Agree(Layout(m.type), Widths(m.type), n)
  BY <1>1, <1>2
<1>5. AllRead(m, Layout(m.type), n, f)
  BY <1>4, EphemerisReads
<1> QED
  BY <1>1, <1>3, <1>5 DEF ReadsAll, AllRead

\* 1046
LEMMA Reads1046 ==
    ASSUME NEW m, Is1046(m), NEW f, f = ReadAll(EphemerisFrame(m), Layout(m.type))
    PROVE  ReadsAll(m, f, Looked1046)
<1>1. Layout(m.type) = Layout1046 /\ Widths(m.type) = Widths1046
  BY DEF Layout, Widths, Is1046
<1>2. PICK n : Agree(Layout1046, Widths1046, n) /\ n = 31
  BY Agree1046
<1>3. Looked1046 \subseteq {Layout1046[k][1] : k \in 1..n}
  <2>1. /\ Layout1046[1][1] = "sat" /\ Layout1046[2][1] = "week" /\ Layout1046[6][1] = "toc"
        /\ Layout1046[16][1] = "sqrtA" /\ Layout1046[27][1] = "e5b_hs" /\ Layout1046[28][1] = "e5b_dvs"
        /\ Layout1046[29][1] = "E1B_hs" /\ Layout1046[30][1] = "E1B_dvs"
    BY DEF Layout1046
  <2> QED
    BY <1>2, <2>1 DEF Looked1046
<1>4. Agree(Layout(m.type), Widths(m.type), n)
  BY <1>1, <1>2
<1>5. AllRead(m, Layout(m.type), n, f)
  BY <1>4, EphemerisReads
<1> QED
  BY <1>1, <1>3, <1>5 DEF ReadsAll, AllRead

\* 1020
LEMMA Reads1020 ==
    ASSUME NEW m, Is1020(m), NEW f, f = ReadAll(EphemerisFrame(m), Layout(m.type))
    PROVE  ReadsAll(m, f, Looked1020)
<1>1. Layout(m.type) = Layout1020 /\ Widths(m.type) = Widths1020
  BY DEF Layout, Widths, Is1020
<1>2. PICK n : Agree(Layout1020, Widths1020, n) /\ n = 38
  BY Agree1020
<1>3. Looked1020 \subseteq {Layout1020[k][1] : k \in 1..n}
  <2>1. /\ Layout1020[1][1] = "sat" /\ Layout1020[9][1] = "Bn" /\ Layout1020[11][1] = "tb"
        /\ Layout1020[30][1] = "NT" /\ Layout1020[35][1] = "N4"
    BY DEF Layout1020
  <2> QED
    BY <1>2, <2>1 DEF Looked1020
<1>4. Agree(Layout(m.type), Widths(m.type), n)
  BY <1>1, <1>2
<1>5. AllRead(m, Layout(m.type), n, f)
  BY <1>4, EphemerisReads
<1> QED
  BY <1>1, <1>3, <1>5 DEF ReadsAll, AllRead

\* What ParseEphemeris decodes from what it read
EphemerisOf(m, f) == IF m.type = 1020 THEN Glonass(f) ELSE GpsLike(m.type, f)

\* An ephemeris is of the satellite of its message and may be given when that was sound.
Decoded(e, f, m, sound) ==
    /\ e.type = m.type /\ e.read = f
    /\ e.id - FirstPrn[SystemOf(m.type)] + 1 = m.sat
    /\ MayGive(e) <=> sound

\* When an ephemeris may be given
LEMMA GpsValid ==
    ASSUME NEW type, NEW f, NEW e, e = GpsLike(type, f)
    PROVE  e.valid <=> (bHealth(type, f) = 0 /\ f["sqrtA"] = "good")
BY Zenon DEF GpsLike

\* Healthy, or ill in the one way that leaves nothing in eight bits
Passes(h) == h["e5b_hs"] \in {0, 2} /\ h["e5b_dvs"] = 0 /\ h["E1B_hs"] = 0 /\ h["E1B_dvs"] = 0

\* What is left of the fields of health in eight bits is 0 if they are, or if the first is 2.
LEMMA EightBits ==
    ASSUME NEW a \in 0..3, NEW b \in 0..1, NEW c \in 0..3, NEW d \in 0..1
    PROVE  (a * 128 + b * 64 + c * 2 + d) % 256 = 0 <=> a \in {0, 2} /\ b = 0 /\ c = 0 /\ d = 0
<1>1. b * 64 + c * 2 + d \in 0..127 /\ (b * 64 + c * 2 + d = 0 <=> b = 0 /\ c = 0 /\ d = 0)
  BY SMTT(60)
<1> QED
  BY <1>1

\* One of GLONASS
LEMMA GlonassValid ==
    ASSUME NEW f, NEW e, e = Glonass(f)
    PROVE  e.valid <=> (f["Bn"] \div 128) % 2 = 0
<1> DEFINE lDate == SumDay(GlonassDate(f["NT"], f["N4"] * 4))
           id == f["sat"] + FirstPrn[GLO] - 1
           week == lDate \div 7
           second == (lDate % 7) * DaySeconds + f["tb"] * 900 - 10800 + LeapSecond
           valid == (f["Bn"] \div 128) % 2 = 0
<1>1. e = [type |-> 1020, id |-> id, read |-> f, week |-> week, second |-> second, valid |-> valid]
  BY DEF Glonass
<1> HIDE DEF id, week, second, valid, lDate
<1>2. e.valid <=> valid
  BY <1>1
<1> QED
  BY <1>2 DEF valid

\* Messages of each type have what their type has.
LEMMA OfItsType ==
    ASSUME NEW m \in Ephemerides
    PROVE  /\ Is1019(m) \/ Is1042(m) \/ Is1046(m) \/ Is1020(m)
           /\ Is1019(m) => Has1019(m)
           /\ Is1042(m) => Has1042(m)
           /\ Is1046(m) => Has1046(m)
           /\ Is1020(m) => Has1020(m)
<1>1. \/ Is1019(m) /\ Has1019(m)
      \/ Is1042(m) /\ Has1042(m)
      \/ Is1046(m) /\ Has1046(m)
      \/ Is1020(m) /\ Has1020(m)
  BY EphemeridesAssumption, Zenon DEF Is1019, Is1042, Is1046, Is1020
<1>2. /\ Is1019(m) => ~Is1042(m) /\ ~Is1046(m) /\ ~Is1020(m)
      /\ Is1042(m) => ~Is1046(m) /\ ~Is1020(m)
      /\ Is1046(m) => ~Is1020(m)
  BY DEF Is1019, Is1042, Is1046, Is1020
<1> QED
  BY <1>1, <1>2, Zenon

\* 1019
LEMMA Decoded1019 ==
    ASSUME NEW m, m \in Ephemerides, Is1019(m), NEW f, ReadsAll(m, f, Looked1019),
           NEW e, e = EphemerisOf(m, f)
    PROVE  /\ Decoded(e, f, m, Well(m) /\ m.orbit = "good")
           /\ InTime(e, m) /\ e.id <= LastPrn[GPS]
<1>1. m.type = 1019 /\ m.sat \in 1..37 /\ m.week \in 2048..3071 /\ m.health \in [Sv_hlth : 0..63]
  <2>1. m.type = 1019 /\ Has1019(m)
    BY OfItsType, Zenon DEF Is1019
  <2> QED
    BY <2>1 DEF Has1019
<1>11. DOMAIN m.health = {"Sv_hlth"} /\ (Well(m) <=> m.health["Sv_hlth"] = 0)
  BY <1>1 DEF Well
<1>2. /\ f["sat"] = Sent(m, "sat") /\ f["week"] = Sent(m, "week") /\ f["toc"] = Sent(m, "toc")
      /\ f["sqrtA"] = Sent(m, "sqrtA") /\ f["Sv_hlth"] = Sent(m, "Sv_hlth")
  BY DEF ReadsAll, Looked1019
<1>3. /\ f["sat"] = m.sat /\ f["week"] = m.week % 1024 /\ f["toc"] = m.second /\ f["sqrtA"] = m.orbit
      /\ f["Sv_hlth"] = m.health["Sv_hlth"]
  BY <1>1, <1>2, <1>11 DEF Sent
<1>4. e = GpsLike(1019, f)
  BY <1>1 DEF EphemerisOf
<1>5. SystemOf(1019) = GPS /\ FirstPrn[GPS] = 1 /\ LastPrn[GPS] = 37
  BY DEF SystemOf, FirstPrn, LastPrn, GPS
<1>6. /\ e.type = 1019 /\ e.read = f /\ e.id = f["sat"] + 1 - 1
      /\ e.week = IF f["week"] < 1024 THEN f["week"] + 2048 ELSE f["week"]
      /\ e.second = f["toc"]
  BY <1>4, <1>5 DEF GpsLike
<1>10. e.valid <=> (f["Sv_hlth"] = 0 /\ f["sqrtA"] = "good")
  <2>1. e.valid <=> (bHealth(1019, f) = 0 /\ f["sqrtA"] = "good")
    BY <1>4, GpsValid
  <2> QED
    BY <2>1 DEF bHealth
<1>7. InTime(e, m)
  <2> DEFINE w == m.week
  <2>1. w \in 2048..3071
    BY <1>1
  <2>2. w = m.week
    OBVIOUS
  <2> HIDE DEF w
  <2>3. m.type # 1020
    BY <1>1
  <2>4. e.week = w /\ e.second = m.second
    BY <1>3, <1>6, <2>1, <2>2
  <2> QED
    BY <2>2, <2>3, <2>4 DEF InTime
<1>8. MayGive(e) <=> Well(m) /\ m.orbit = "good"
  BY <1>1, <1>3, <1>6, <1>10, <1>11 DEF MayGive
<1>9. e.id - FirstPrn[SystemOf(m.type)] + 1 = m.sat /\ e.id <= LastPrn[GPS]
  BY <1>1, <1>3, <1>5, <1>6
<1> QED
  BY <1>1, <1>6, <1>7, <1>8, <1>9 DEF Decoded

\* 1042
LEMMA Decoded1042 ==
    ASSUME NEW m, m \in Ephemerides, Is1042(m), NEW f, ReadsAll(m, f, Looked1042),
           NEW e, e = EphemerisOf(m, f)
    PROVE  /\ Decoded(e, f, m, Well(m) /\ m.orbit = "good")
           /\ InTime(e, m) /\ ~(e.id <= LastPrn[GPS])
<1>1. m.type = 1042 /\ m.sat \in 1..63 /\ m.week \in 1356..2711 /\ m.health \in [health : 0..1]
  <2>1. m.type = 1042 /\ Has1042(m)
    BY OfItsType, ZenonT(60) DEF Is1042
  <2> QED
    BY <2>1 DEF Has1042
<1>11. DOMAIN m.health = {"health"} /\ (Well(m) <=> m.health["health"] = 0)
  BY <1>1 DEF Well
<1>2. /\ f["sat"] = Sent(m, "sat") /\ f["week"] = Sent(m, "week") /\ f["toc"] = Sent(m, "toc")
      /\ f["sqrtA"] = Sent(m, "sqrtA") /\ f["health"] = Sent(m, "health")
  BY DEF ReadsAll, Looked1042
<1>3. /\ f["sat"] = m.sat /\ f["week"] = m.week - 1356 /\ f["toc"] = m.second /\ f["sqrtA"] = m.orbit
      /\ f["health"] = m.health["health"]
  BY <1>1, <1>2, <1>11 DEF Sent
<1>4. e = GpsLike(1042, f)
  BY <1>1 DEF EphemerisOf
<1>5. SystemOf(1042) = BDS /\ FirstPrn[BDS] = 141 /\ LastPrn[GPS] = 37
  BY DEF SystemOf, FirstPrn, LastPrn, BDS, GPS
<1>6. /\ e.type = 1042 /\ e.read = f /\ e.id = f["sat"] + 141 - 1
      /\ e.week = IF f["week"] < 1356 THEN f["week"] + 1356 ELSE f["week"]
      /\ e.second = f["toc"]
  BY <1>4, <1>5 DEF GpsLike
<1>10. e.valid <=> (f["health"] = 0 /\ f["sqrtA"] = "good")
  <2>1. e.valid <=> (bHealth(1042, f) = 0 /\ f["sqrtA"] = "good")
    BY <1>4, GpsValid
  <2> QED
    BY <2>1 DEF bHealth
<1>7. InTime(e, m)
  <2> DEFINE w == m.week
  <2>1. w \in 1356..2711
    BY <1>1
  <2>2. w = m.week
    OBVIOUS
  <2> HIDE DEF w
  <2>3. m.type # 1020
    BY <1>1
  <2>4. e.week = w /\ e.second = m.second
    <3>1. w \in Int /\ w - 1356 < 1356 /\ (w - 1356) + 1356 = w
      BY <2>1
    <3>2. f["week"] = w - 1356 /\ f["toc"] = m.second
      BY <1>3, <2>2
    <3>3. e.week = (IF f["week"] < 1356 THEN f["week"] + 1356 ELSE f["week"]) /\ e.second = f["toc"]
      BY <1>6
    <3> QED
      BY <3>1, <3>2, <3>3
  <2> QED
    BY <2>2, <2>3, <2>4 DEF InTime
<1>8. MayGive(e) <=> Well(m) /\ m.orbit = "good"
  BY <1>1, <1>3, <1>6, <1>10, <1>11 DEF MayGive
<1>9. e.id - FirstPrn[SystemOf(m.type)] + 1 = m.sat /\ ~(e.id <= LastPrn[GPS])
  BY <1>1, <1>3, <1>5, <1>6
<1> QED
  BY <1>1, <1>6, <1>7, <1>8, <1>9 DEF Decoded

\* 1046
LEMMA Decoded1046 ==
    ASSUME NEW m, m \in Ephemerides, Is1046(m), NEW f, ReadsAll(m, f, Looked1046),
           NEW e, e = EphemerisOf(m, f)
    PROVE  /\ Decoded(e, f, m, Passes(m.health) /\ m.orbit = "good")
           /\ InTime(e, m) /\ ~(e.id <= LastPrn[GPS])
<1>1. /\ m.type = 1046 /\ m.sat \in 1..63 /\ m.week \in 1024..5119
      /\ m.health \in [e5b_hs : 0..3, e5b_dvs : 0..1, E1B_hs : 0..3, E1B_dvs : 0..1]
  <2>1. m.type = 1046 /\ Has1046(m)
    BY OfItsType, ZenonT(60) DEF Is1046
  <2> QED
    BY <2>1 DEF Has1046
<1>11. /\ DOMAIN m.health = {"e5b_hs", "e5b_dvs", "E1B_hs", "E1B_dvs"}
       /\ m.health["e5b_hs"] \in 0..3 /\ m.health["e5b_dvs"] \in 0..1
       /\ m.health["E1B_hs"] \in 0..3 /\ m.health["E1B_dvs"] \in 0..1
  BY <1>1
<1>2. /\ f["sat"] = Sent(m, "sat") /\ f["week"] = Sent(m, "week") /\ f["toc"] = Sent(m, "toc")
      /\ f["sqrtA"] = Sent(m, "sqrtA")
      /\ \A n \in {"e5b_hs", "e5b_dvs", "E1B_hs", "E1B_dvs"} : f[n] = Sent(m, n)
  BY DEF ReadsAll, Looked1046
<1>3. /\ f["sat"] = m.sat /\ f["week"] = m.week - 1024 /\ f["toc"] = m.second /\ f["sqrtA"] = m.orbit
      /\ \A n \in {"e5b_hs", "e5b_dvs", "E1B_hs", "E1B_dvs"} : f[n] = m.health[n]
  BY <1>1, <1>2, <1>11 DEF Sent
<1>4. e = GpsLike(1046, f)
  BY <1>1 DEF EphemerisOf
<1>5. SystemOf(1046) = GAL /\ FirstPrn[GAL] = 71 /\ LastPrn[GPS] = 37
  BY DEF SystemOf, FirstPrn, LastPrn, GAL, GPS
<1>6. /\ e.type = 1046 /\ e.read = f /\ e.id = f["sat"] + 71 - 1
      /\ e.week = f["week"] + 1024 /\ e.second = f["toc"]
  BY <1>4, <1>5 DEF GpsLike
<1>10. e.valid <=> (Passes(m.health) /\ f["sqrtA"] = "good")
  <2>1. e.valid <=> (bHealth(1046, f) = 0 /\ f["sqrtA"] = "good")
    BY <1>4, GpsValid
  <2>2. bHealth(1046, f) = (m.health["e5b_hs"] * 128 + m.health["e5b_dvs"] * 64 + m.health["E1B_hs"] * 2
                            + m.health["E1B_dvs"]) % 256
    BY <1>3 DEF bHealth
  <2>3. bHealth(1046, f) = 0 <=> Passes(m.health)
    BY <1>11, <2>2, EightBits DEF Passes
  <2> QED
    BY <2>1, <2>3
<1>7. InTime(e, m)
  <2> DEFINE w == m.week
  <2>1. w \in 1024..5119
    BY <1>1
  <2>2. w = m.week
    OBVIOUS
  <2> HIDE DEF w
  <2>3. m.type # 1020
    BY <1>1
  <2>4. e.week = w /\ e.second = m.second
    BY <1>3, <1>6, <2>1, <2>2
  <2> QED
    BY <2>2, <2>3, <2>4 DEF InTime
<1>8. MayGive(e) <=> Passes(m.health) /\ m.orbit = "good"
  BY <1>1, <1>3, <1>6, <1>10 DEF MayGive
<1>9. e.id - FirstPrn[SystemOf(m.type)] + 1 = m.sat /\ ~(e.id <= LastPrn[GPS])
  BY <1>1, <1>3, <1>5, <1>6
<1> QED
  BY <1>1, <1>6, <1>7, <1>8, <1>9 DEF Decoded

\* 1020
LEMMA Decoded1020 ==
    ASSUME NEW m, m \in Ephemerides, Is1020(m), NEW f, ReadsAll(m, f, Looked1020),
           NEW e, e = EphemerisOf(m, f)
    PROVE  /\ Decoded(e, f, m, m.sat \in 1..MaxSysPrn)
           /\ f["Bn"] = 1 \/ Well(m)
           /\ Well(m) => f["Bn"] # 1
           /\ f["NT"] # 366 => InTime(e, m)
<1>1. m.type = 1020 /\ m.sat \in 1..63 /\ m.health \in [Bn : 0..1]
  <2>1. m.type = 1020 /\ Has1020(m)
    BY OfItsType, ZenonT(60) DEF Is1020
  <2> QED
    BY <2>1 DEF Has1020
<1>15. DOMAIN m.health = {"Bn"} /\ m.health["Bn"] \in 0..1 /\ (Well(m) <=> m.health["Bn"] = 0)
  BY <1>1 DEF Well
<1>2. m.date["N4"] \in 1..26 /\ m.date["NT"] \in 1..1461 /\ m.date["tb"] \in 0..95
  <2>1. Has1020(m)
    BY OfItsType, Zenon
  <2> QED
    BY <2>1 DEF Has1020
<1>3. /\ f["sat"] = Sent(m, "sat") /\ f["Bn"] = Sent(m, "Bn") /\ f["tb"] = Sent(m, "tb")
      /\ f["NT"] = Sent(m, "NT") /\ f["N4"] = Sent(m, "N4")
  BY DEF ReadsAll, Looked1020
<1>4. /\ f["sat"] = m.sat /\ f["Bn"] = m.health["Bn"]
      /\ f["tb"] = m.date["tb"] /\ f["NT"] = m.date["NT"] /\ f["N4"] = m.date["N4"]
  BY <1>1, <1>3, <1>15 DEF Sent
<1>5. e = Glonass(f)
  BY <1>1 DEF EphemerisOf
<1>6. SystemOf(1020) = GLO /\ FirstPrn[GLO] = 38 /\ MaxPrn = 204 /\ MaxSysPrn = 38
  BY DEF SystemOf, FirstPrn, GLO, MaxPrn, MaxSysPrn
<1>7. PICK l : l = SumDay(GlonassDate(f["NT"], f["N4"] * 4))
  OBVIOUS
<1>8. /\ e.type = 1020 /\ e.read = f /\ e.id = f["sat"] + 38 - 1
      /\ e.week = l \div 7
      /\ e.second = (l % 7) * DaySeconds + f["tb"] * 900 - 10800 + LeapSecond
  BY <1>5, <1>6, <1>7 DEF Glonass
<1>14. e.valid <=> (f["Bn"] \div 128) % 2 = 0
  BY <1>5, GlonassValid
<1>9. f["Bn"] \in 0..1 /\ (f["Bn"] \div 128) % 2 = 0
  BY <1>4, <1>15
<1>10. MayGive(e) <=> m.sat \in 1..MaxSysPrn
  BY <1>1, <1>4, <1>6, <1>8, <1>9, <1>14 DEF MayGive
<1>11. Decoded(e, f, m, m.sat \in 1..MaxSysPrn)
  BY <1>1, <1>4, <1>6, <1>8, <1>10 DEF Decoded
<1>12. ASSUME f["NT"] # 366 PROVE InTime(e, m)
  <2> DEFINE N4 == m.date["N4"]
             NT == m.date["NT"]
             tb == m.date["tb"]
  <2>1. N4 \in 1..26 /\ NT \in 1..1461 /\ tb \in 0..95
    BY <1>2
  <2>2. NT \in DayOfFour
    BY <1>4, <1>12, <2>1 DEF DayOfFour
  <2>3. l = DayNumber(N4, NT)
    BY <1>4, <1>7, <2>1, <2>2, GlonassDay
  <2>4. l \in Int
    BY <2>3 DEF DayNumber, Day1996
  <2> QED
    <3>1. N4 \in Int /\ NT \in Int /\ tb \in Int
      <4> HIDE DEF N4, NT, tb
      <4> QED
        BY <2>1
    <3>2. e.second = (l % 7) * DaySeconds + tb * 900 - 10800 + LeapSecond /\ e.week = l \div 7
      BY <1>4, <1>8
    <3>3. m.date["N4"] = N4 /\ m.date["NT"] = NT /\ m.date["tb"] = tb
      OBVIOUS
    <3> HIDE DEF N4, NT, tb
    <3> QED
      BY <1>1, <2>3, <2>4, <3>1, <3>2, <3>3, GlonassInTime
<1>13. (f["Bn"] = 1 \/ Well(m)) /\ (Well(m) => f["Bn"] # 1)
  BY <1>4, <1>15
<1> QED
  BY <1>11, <1>12, <1>13

\* What ParseEphemeris gives
Gives(m, e) == SystemOf(m.type) \in Enabled /\ EphFromBase /\ MayGive(e)

\* Day 366
LeapDay(e) == e.type = 1020 /\ e.read["NT"] = 366

\* An ephemeris says what its message says, and is given when that is healthy.
Told(m, e) ==
    /\ e.type = m.type
    /\ \A name \in DOMAIN e.read : e.read[name] = Sent(m, name)
    /\ e.id - FirstPrn[SystemOf(m.type)] + 1 = m.sat
    /\ Healthy(m) => Gives(m, e)
    /\ Gives(m, e) => Healthy(m) \/ IllUnseen(e)
    /\ ~LeapDay(e) => InTime(e, m)
    /\ Is1019(m) <=> ~Is1020(m) /\ e.id <= LastPrn[GPS]

\* A message of GPS or BeiDou read and taken over as it was sent, and in time
WellDecoded(m, f, e) ==
    /\ m.type # 1020
    /\ \A name \in DOMAIN f : f[name] = Sent(m, name)
    /\ Decoded(e, f, m, Well(m) /\ m.orbit = "good")
    /\ InTime(e, m)
    /\ Is1019(m) <=> ~Is1020(m) /\ e.id <= LastPrn[GPS]

\* Such a message is given just when it is healthy.
LEMMA WellTold == ASSUME NEW m, NEW f, NEW e, WellDecoded(m, f, e) PROVE Told(m, e)
<1>0. /\ m.type # 1020 /\ InTime(e, m) /\ \A name \in DOMAIN f : f[name] = Sent(m, name)
      /\ Is1019(m) <=> ~Is1020(m) /\ e.id <= LastPrn[GPS]
  BY Zenon DEF WellDecoded
<1>1. /\ e.type = m.type /\ e.read = f /\ e.id - FirstPrn[SystemOf(m.type)] + 1 = m.sat
      /\ MayGive(e) <=> (Well(m) /\ m.orbit = "good")
  BY Zenon DEF WellDecoded, Decoded
<1>2. Gives(m, e) <=> Healthy(m)
  BY <1>0, <1>1 DEF Gives, Healthy
<1>3. \A name \in DOMAIN e.read : e.read[name] = Sent(m, name)
  BY <1>0, <1>1
<1> QED
  BY <1>0, <1>1, <1>2, <1>3, Zenon DEF Told

\* What is decoded of a message
LEMMA EphemerisTold ==
    ASSUME NEW m, m \in Ephemerides, NEW f, f = ReadAll(EphemerisFrame(m), Layout(m.type)),
           NEW e, e = EphemerisOf(m, f)
    PROVE  Told(m, e)
<1>1. CASE Is1020(m)
  <2>1. ReadsAll(m, f, Looked1020)
    BY <1>1, Reads1020, Zenon
  <2>2. /\ Decoded(e, f, m, m.sat \in 1..MaxSysPrn) /\ (f["Bn"] = 1 \/ Well(m))
        /\ (Well(m) => f["Bn"] # 1) /\ (f["NT"] # 366 => InTime(e, m))
    BY <1>1, <2>1, Decoded1020
  <2>3. m.type = 1020 /\ ~Is1019(m)
    BY <1>1 DEF Is1019, Is1020
  <2>4. e.type = 1020 /\ e.read = f
    BY <2>2, <2>3 DEF Decoded
  <2>5. MayGive(e) <=> m.sat \in 1..MaxSysPrn
    BY <2>2, Zenon DEF Decoded
  <2>6. Healthy(m) => Gives(m, e)
    BY <2>3, <2>5 DEF Healthy, Gives
  <2>7. Gives(m, e) => Healthy(m) \/ IllUnseen(e)
    BY <2>2, <2>3, <2>4, <2>5 DEF Healthy, Gives, IllUnseen
  <2>8. ~LeapDay(e) => InTime(e, m)
    BY <2>2, <2>4 DEF LeapDay
  <2>9. /\ e.type = m.type /\ \A name \in DOMAIN e.read : e.read[name] = Sent(m, name)
        /\ e.id - FirstPrn[SystemOf(m.type)] + 1 = m.sat
    BY <2>1, <2>2, Zenon DEF Decoded, ReadsAll
  <2> QED
    BY <1>1, <2>3, <2>6, <2>7, <2>8, <2>9, Zenon DEF Told
<1>2. CASE Is1019(m)
  <2>1. ReadsAll(m, f, Looked1019)
    BY <1>2, Reads1019, Zenon
  <2>2. Decoded(e, f, m, Well(m) /\ m.orbit = "good") /\ InTime(e, m) /\ e.id <= LastPrn[GPS]
    BY <1>2, <2>1, Decoded1019, Zenon
  <2>3. m.type # 1020 /\ ~Is1020(m)
    BY <1>2 DEF Is1019, Is1020
  <2>4. Is1019(m) <=> ~Is1020(m) /\ e.id <= LastPrn[GPS]
    BY <1>2, <2>2, <2>3, Zenon
  <2>5. \A name \in DOMAIN f : f[name] = Sent(m, name)
    BY <2>1, Zenon DEF ReadsAll
  <2>6. WellDecoded(m, f, e)
    BY <2>2, <2>3, <2>4, <2>5, Zenon DEF WellDecoded
  <2> QED
    BY <2>6, WellTold, Zenon
<1>3. CASE Is1042(m)
  <2>1. ReadsAll(m, f, Looked1042)
    BY <1>3, Reads1042, Zenon
  <2>2. Decoded(e, f, m, Well(m) /\ m.orbit = "good") /\ InTime(e, m) /\ ~(e.id <= LastPrn[GPS])
    BY <1>3, <2>1, Decoded1042, Zenon
  <2>3. m.type # 1020 /\ ~Is1020(m) /\ ~Is1019(m)
    BY <1>3 DEF Is1019, Is1042, Is1020
  <2>4. Is1019(m) <=> ~Is1020(m) /\ e.id <= LastPrn[GPS]
    BY <2>2, <2>3, Zenon
  <2>5. \A name \in DOMAIN f : f[name] = Sent(m, name)
    BY <2>1, Zenon DEF ReadsAll
  <2>6. WellDecoded(m, f, e)
    BY <2>2, <2>3, <2>4, <2>5, Zenon DEF WellDecoded
  <2> QED
    BY <2>6, WellTold, Zenon
<1>4. CASE Is1046(m)
  <2>1. ReadsAll(m, f, Looked1046)
    BY <1>4, Reads1046, Zenon
  <2>2. Decoded(e, f, m, Passes(m.health) /\ m.orbit = "good") /\ InTime(e, m) /\ ~(e.id <= LastPrn[GPS])
    BY <1>4, <2>1, Decoded1046, Zenon
  <2>3. m.type = 1046 /\ ~Is1020(m) /\ ~Is1019(m)
    BY <1>4 DEF Is1019, Is1046, Is1020
  <2>4. /\ e.type = 1046 /\ e.read = f
        /\ MayGive(e) <=> (Passes(m.health) /\ m.orbit = "good")
    BY <2>2, <2>3 DEF Decoded
  <2>5. m.health \in [e5b_hs : 0..3, e5b_dvs : 0..1, E1B_hs : 0..3, E1B_dvs : 0..1]
    <3>1. Has1046(m)
      BY <1>4, OfItsType, Zenon
    <3> QED
      BY <3>1 DEF Has1046
  <2>6. DOMAIN m.health = {"e5b_hs", "e5b_dvs", "E1B_hs", "E1B_dvs"}
    BY <2>5
  <2>7. Well(m) => Passes(m.health)
    BY <2>6 DEF Well, Passes
  <2>8. Passes(m.health) => Well(m) \/ m.health["e5b_hs"] = 2
    BY <2>6 DEF Well, Passes
  <2>9. f["e5b_hs"] = m.health["e5b_hs"]
    <3>1. f["e5b_hs"] = Sent(m, "e5b_hs")
      BY <2>1 DEF ReadsAll, Looked1046
    <3> QED
      BY <2>3, <2>6, <3>1 DEF Sent
  <2>10. Healthy(m) => Gives(m, e)
    BY <2>3, <2>4, <2>7 DEF Healthy, Gives
  <2>11. Gives(m, e) => Healthy(m) \/ IllUnseen(e)
    BY <2>3, <2>4, <2>8, <2>9 DEF Healthy, Gives, IllUnseen
  <2>12. /\ e.type = m.type /\ \A name \in DOMAIN e.read : e.read[name] = Sent(m, name)
         /\ e.id - FirstPrn[SystemOf(m.type)] + 1 = m.sat
    BY <2>1, <2>2, Zenon DEF Decoded, ReadsAll
  <2> QED
    BY <2>2, <2>3, <2>10, <2>11, <2>12, Zenon DEF Told
<1>5. Is1019(m) \/ Is1042(m) \/ Is1046(m) \/ Is1020(m)
  BY OfItsType, Zenon
<1> QED
  BY <1>1, <1>2, <1>3, <1>4, <1>5, Zenon

\* ParseEphemeris by what it decodes.
LEMMA EphemerisParsed ==
    ASSUME NEW m, m \in Ephemerides, ParseEphemeris(m)
    PROVE  \E e : /\ Told(m, e)
                  /\ given' = IF Gives(m, e) THEN e ELSE given
                  /\ current' = IF Gives(m, e) /\ ~Is1020(m) /\ e.id <= LastPrn[GPS]
                                THEN [week |-> e.week, second |-> e.second] ELSE current
                  /\ asked' = IF Healthy(m) THEN m ELSE asked
                  /\ dated' = IF Healthy(m) /\ Is1019(m) THEN m ELSE dated
                  /\ UNCHANGED <<epoch, coord, baseLast, held, heldLast, datedLast, placed>>
<1> DEFINE f == ReadAll(EphemerisFrame(m), Layout(m.type))
           e == EphemerisOf(m, f)
<1>1. Told(m, e)
  <2>1. f = ReadAll(EphemerisFrame(m), Layout(m.type))
    OBVIOUS
  <2> HIDE DEF f
  <2> QED
    BY <2>1, EphemerisTold, Zenon
<1>2. /\ given' = IF Gives(m, e) THEN e ELSE given
      /\ current' = IF Gives(m, e) /\ ~Is1020(m) /\ e.id <= LastPrn[GPS]
                    THEN [week |-> e.week, second |-> e.second] ELSE current
      /\ asked' = IF Healthy(m) THEN m ELSE asked
      /\ dated' = IF Healthy(m) /\ Is1019(m) THEN m ELSE dated
      /\ UNCHANGED <<epoch, coord, baseLast, held, heldLast, datedLast, placed>>
  BY DEF ParseEphemeris, EphemerisOf, Gives, Is1019, Is1020
<1> QED
  BY <1>1, <1>2, Zenon

\* No step but ParseEphemeris touches what was given and asked.
LEMMA OthersKeep ==
    ASSUME [DecodeNext]_decodeVars, ~\E m \in Ephemerides : ParseEphemeris(m)
    PROVE  UNCHANGED <<given, asked, dated, current>>
BY DEF DecodeNext, decodeVars, ParseMsm, ParseCoordinate

\* What the engine was given last, unless it is one of the ill ones that the code does not know (Bn of
\* GLONASS, an e5b_hs of 2), is the last ephemeris of the base that is healthy, plausible and wanted,
\* with every field where it was written, its satellite and, day 366 of GLONASS apart, its week and
\* time: decode_type1019, 1020, 1042 and 1046 with SendEphemerisToQRtk.
THEOREM EphemerisRight == DecodeSpec => []EphemerisAsSent
<1>1. DecodeInit => EphemerisAsSent
  BY DEF DecodeInit, EphemerisAsSent
<1>2. EphemerisAsSent /\ [DecodeNext]_decodeVars => EphemerisAsSent'
  <2> SUFFICES ASSUME EphemerisAsSent, [DecodeNext]_decodeVars PROVE EphemerisAsSent'
    OBVIOUS
  <2>1. ASSUME NEW m \in Ephemerides, ParseEphemeris(m) PROVE EphemerisAsSent'
    <3>1. PICK e : /\ Told(m, e)
                   /\ given' = IF Gives(m, e) THEN e ELSE given
                   /\ asked' = IF Healthy(m) THEN m ELSE asked
      BY <2>1, EphemerisParsed, Zenon
    <3>2. m # <<>>
      BY MessagesAssumption
    <3>3. CASE Healthy(m)
      <4>1. Gives(m, e)
        BY <3>1, <3>3, Zenon DEF Told
      <4>2. given' = e /\ asked' = m
        BY <3>1, <3>3, <4>1
      <4> QED
        BY <3>1, <3>2, <4>2 DEF EphemerisAsSent, Told, LeapDay
    <3>4. CASE ~Healthy(m) /\ Gives(m, e)
      <4>1. IllUnseen(e) /\ given' = e
        BY <3>1, <3>4 DEF Told
      <4> QED
        BY <4>1 DEF EphemerisAsSent, IllUnseen
    <3>5. CASE ~Healthy(m) /\ ~Gives(m, e)
      <4>1. given' = given /\ asked' = asked
        BY <3>1, <3>5
      <4> QED
        BY <4>1 DEF EphemerisAsSent, InTime, GlonassTime, IllUnseen
    <3> QED
      BY <3>3, <3>4, <3>5
  <2>2. CASE ~\E m \in Ephemerides : ParseEphemeris(m)
    <3>1. UNCHANGED <<given, asked>>
      BY <2>2, OthersKeep
    <3> QED
      BY <3>1 DEF EphemerisAsSent, InTime, GlonassTime, IllUnseen
  <2> QED
    BY <2>1, <2>2
<1> QED
  BY <1>1, <1>2, PTL DEF DecodeSpec

-----------------------------------------------------------------------------
(* How long an MSM is.                                                      *)

There(sats, sigs, cells, n) == {k \in 1..n : CellAt(sats, sigs, k) \in cells}

\* As many cells are present as the mask has bits.
LEMMA AsManyCells ==
    ASSUME NEW sats, NEW sigs, NEW cells, NEW n \in Nat, n = Len(sats) * Len(sigs)
    PROVE  /\ Cardinality(There(sats, sigs, cells, n)) \in Nat
           /\ Len(Present(sats, sigs, cells)) = Cardinality(There(sats, sigs, cells, n))
<1> DEFINE S == {CellAt(sats, sigs, k) : k \in 1..n}
           s == [k \in 1..n |-> IF CellAt(sats, sigs, k) \in cells THEN <<CellAt(sats, sigs, k)>> ELSE <<>>]
           F == [k \in 0..Len(s) |-> FlattenSeq(SubSeq(s, 1, k))]
           H(k) == There(sats, sigs, cells, k)
           T == {k \in 0..n : IsFiniteSet(H(k)) /\ Len(F[k]) = Cardinality(H(k))}
<1>1. Present(sats, sigs, cells) = FlattenSeq(s)
  BY Zenon DEF Present
<1>2. ASSUME NEW k \in 1..n
      PROVE  /\ s[k] \in Seq(S)
             /\ s[k] = IF CellAt(sats, sigs, k) \in cells THEN <<CellAt(sats, sigs, k)>> ELSE <<>>
  <2>1. CellAt(sats, sigs, k) \in S
    OBVIOUS
  <2> HIDE DEF S
  <2> QED
    BY <2>1
<1>3. s \in Seq(Seq(S)) /\ Len(s) = n
  <2>1. s \in [1..n -> Seq(S)]
    BY <1>2
  <2> HIDE DEF s, S
  <2> QED
    BY <2>1, TupleIsSeq, Zenon
<1> HIDE DEF s, S
<1>4. Flattened(S, s, F)
  BY <1>3, Flattening, Zenon
<1>5. /\ F[0] = <<>> /\ F[n] = FlattenSeq(s)
      /\ \A k \in 0..(n - 1) : F[k + 1] = Joined(F[k], s[k + 1])
      /\ \A k \in 0..n : F[k] \in Seq(S)
  BY <1>3, <1>4, Zenon DEF Flattened
<1> HIDE DEF F
<1>6. 0 \in T
  <2>1. H(0) = {}
    BY DEF There
  <2>2. Len(F[0]) = 0
    BY <1>5
  <2>3. 0 \in 0..n
    OBVIOUS
  <2> HIDE DEF H
  <2> QED
    BY <2>1, <2>2, <2>3, FS_EmptySet
<1>7. ASSUME NEW k \in 0..(n - 1), k \in T PROVE k + 1 \in T
  <2>1. k + 1 \in 1..n /\ k + 1 \in 0..n /\ k \in 0..n
    OBVIOUS
  <2>2. IsFiniteSet(H(k)) /\ Len(F[k]) = Cardinality(H(k))
    BY <1>7
  <2>3. F[k] \in Seq(S) /\ s[k + 1] \in Seq(S) /\ F[k + 1] = Joined(F[k], s[k + 1])
    BY <1>2, <1>5, <2>1, Zenon
  <2>4. Len(F[k + 1]) = Len(F[k]) + Len(s[k + 1])
    <3>1. Len(Joined(F[k], s[k + 1])) = Len(F[k]) + Len(s[k + 1])
      BY <2>3, Row, Zenon
    <3> QED
      BY <2>3, <3>1, Zenon
  <2>5. CASE CellAt(sats, sigs, k + 1) \in cells
    <3>1. H(k + 1) = H(k) \union {k + 1}
      BY <2>1, <2>5 DEF There
    <3>2. k + 1 \notin H(k)
      BY DEF There
    <3>3. Len(s[k + 1]) = 1
      <4>1. s[k + 1] = <<CellAt(sats, sigs, k + 1)>>
        BY <1>2, <2>1, <2>5, Zenon
      <4> QED
        BY <4>1
    <3> HIDE DEF H
    <3>4. IsFiniteSet(H(k + 1)) /\ Cardinality(H(k + 1)) = Cardinality(H(k)) + 1
      BY <2>2, <3>1, <3>2, FS_AddElement
    <3> QED
      BY <2>1, <2>2, <2>4, <3>3, <3>4
  <2>6. CASE CellAt(sats, sigs, k + 1) \notin cells
    <3>1. H(k + 1) = H(k)
      BY <2>1, <2>6 DEF There
    <3>2. Len(s[k + 1]) = 0
      <4>1. s[k + 1] = <<>>
        BY <1>2, <2>1, <2>6, Zenon
      <4> QED
        BY <4>1
    <3>3. Len(F[k]) \in Nat
      BY <2>3
    <3> HIDE DEF H
    <3> QED
      BY <2>1, <2>2, <2>4, <3>1, <3>2, <3>3
  <2> QED
    BY <2>5, <2>6
<1> HIDE DEF T
<1>8. n \in T
  <2>1. 0..n \subseteq T
    BY <1>6, <1>7, UpTo
  <2> QED
    BY <2>1
<1>9. IsFiniteSet(H(n)) /\ Len(F[n]) = Cardinality(H(n))
  BY <1>8 DEF T
<1> HIDE DEF H
<1>10. Cardinality(H(n)) \in Nat
  BY <1>9, FS_CardinalityType
<1> QED
  BY <1>1, <1>5, <1>9, <1>10, Zenon DEF H

\* Once more
LEMMA OnceMore == ASSUME NEW k \in Nat, NEW w \in Nat PROVE (k + 1) * w = k * w + w /\ k * w \in Nat
OBVIOUS

\* A column of n fields of w bits
LEMMA ColumnLaid ==
    ASSUME NEW n \in Nat, NEW w \in Nat, NEW fields, DOMAIN fields = 1..n, \A k \in 1..n : fields[k].w = w
    PROVE  IsBits(Laid(fields), n * w)
<1> DEFINE P == [k \in 1..(n + 1) |-> (k - 1) * w]
<1>1. P[1] = 0 /\ P[n + 1] = n * w
  <2>1. 1 \in 1..(n + 1) /\ n + 1 \in 1..(n + 1) /\ (n + 1) - 1 = n /\ 1 - 1 = 0 /\ 0 * w = 0
    OBVIOUS
  <2> QED
    BY <2>1, Zenon
<1>2. ASSUME NEW k \in 1..n PROVE fields[k].w \in Nat /\ P[k + 1] = P[k] + fields[k].w
  <2>1. PICK j \in Nat : k = j + 1
    <3>1. k - 1 \in Nat /\ k = (k - 1) + 1
      OBVIOUS
    <3> QED
      BY <3>1
  <2>2. (j + 1) * w = j * w + w
    BY OnceMore
  <2>3. k \in 1..(n + 1) /\ k + 1 \in 1..(n + 1) /\ k - 1 = j /\ (k + 1) - 1 = j + 1
    BY <2>1
  <2>4. P[k] = j * w /\ P[k + 1] = (j + 1) * w
    BY <2>3, Zenon
  <2> HIDE DEF P
  <2> QED
    BY <2>2, <2>4, Zenon
<1> HIDE DEF P
<1>3. Widened(fields, n, P)
  BY <1>1, <1>2, Zenon DEF Widened
<1> QED
  BY <1>1, <1>3, LaidOut, Zenon

\* The columns of the satellites
LEMMA SatelliteLength ==
    ASSUME NEW m, NEW n \in Nat, n = Len(m.sats)
    PROVE  IsBits(SatelliteBits(m), n * IF m.kind = 4 THEN 18 ELSE 36)
<1> DEFINE Col(w, name) == Laid([k \in 1..Len(m.sats) |->
                Bits(w, IF name = "rng" /\ m.sats[k] \in m.dead THEN Range255
                        ELSE <<name, m.sys, m.sats[k], m.tow>>)])
<1>1. ASSUME NEW w \in Nat, NEW name PROVE IsBits(Col(w, name), n * w)
  <2> DEFINE fields == [k \in 1..Len(m.sats) |->
                Bits(w, IF name = "rng" /\ m.sats[k] \in m.dead THEN Range255
                        ELSE <<name, m.sys, m.sats[k], m.tow>>)]
  <2>1. DOMAIN fields = 1..n
    OBVIOUS
  <2>2. \A k \in 1..n : fields[k].w = w
    BY DEF Bits
  <2>3. Col(w, name) = Laid(fields)
    OBVIOUS
  <2> HIDE DEF fields, Col
  <2> QED
    BY <2>1, <2>2, <2>3, ColumnLaid, Zenon
<1>2. SatelliteBits(m) =
        IF m.kind = 4 THEN Col(8, "rng") \o Col(10, "mod")
        ELSE Col(8, "rng") \o Col(4, "ext") \o Col(10, "mod") \o Col(14, "rate")
  BY Zenon DEF SatelliteBits
<1> HIDE DEF Col
<1>3. CASE m.kind = 4
  <2>1. IsBits(Col(8, "rng"), n * 8) /\ IsBits(Col(10, "mod"), n * 10)
    BY <1>1
  <2>2. IsBits(Col(8, "rng") \o Col(10, "mod"), n * 8 + n * 10)
    BY <2>1, TwoPieces, Zenon
  <2>3. n * 8 + n * 10 = n * 18
    OBVIOUS
  <2> QED
    BY <1>2, <1>3, <2>2, <2>3
<1>4. CASE m.kind # 4
  <2>1. /\ IsBits(Col(8, "rng"), n * 8) /\ IsBits(Col(4, "ext"), n * 4)
        /\ IsBits(Col(10, "mod"), n * 10) /\ IsBits(Col(14, "rate"), n * 14)
    BY <1>1
  <2>2. IsBits(Col(8, "rng") \o Col(4, "ext"), n * 8 + n * 4)
    BY <2>1, TwoPieces, Zenon
  <2>3. IsBits(Col(8, "rng") \o Col(4, "ext") \o Col(10, "mod"), n * 8 + n * 4 + n * 10)
    BY <2>1, <2>2, TwoPieces, Zenon
  <2>4. IsBits(Col(8, "rng") \o Col(4, "ext") \o Col(10, "mod") \o Col(14, "rate"),
               n * 8 + n * 4 + n * 10 + n * 14)
    BY <2>1, <2>3, TwoPieces, Zenon
  <2>5. n * 8 + n * 4 + n * 10 + n * 14 = n * 36
    OBVIOUS
  <2> QED
    BY <1>2, <1>4, <2>4, <2>5
<1> QED
  BY <1>3, <1>4

\* The columns of the cells
LEMMA CellLength ==
    ASSUME NEW m, NEW n \in Nat, n = Len(Present(m.sats, m.sigs, m.cells))
    PROVE  IsBits(CellBits(m), n * IF m.kind = 4 THEN 48 ELSE 80)
<1> DEFINE cell == Present(m.sats, m.sigs, m.cells)
           Col(w, name) == Laid([k \in 1..Len(cell) |->
                Bits(w, IF name = "pr" /\ cell[k] \in m.void THEN NotGiven
                        ELSE <<name, m.sys, cell[k], m.tow>>)])
<1>1. ASSUME NEW w \in Nat, NEW name PROVE IsBits(Col(w, name), n * w)
  <2> DEFINE fields == [k \in 1..Len(cell) |->
                Bits(w, IF name = "pr" /\ cell[k] \in m.void THEN NotGiven
                        ELSE <<name, m.sys, cell[k], m.tow>>)]
  <2>1. DOMAIN fields = 1..n
    OBVIOUS
  <2>2. \A k \in 1..n : fields[k].w = w
    BY DEF Bits
  <2>3. Col(w, name) = Laid(fields)
    OBVIOUS
  <2> HIDE DEF fields, Col, cell
  <2> QED
    BY <2>1, <2>2, <2>3, ColumnLaid, Zenon
<1>2. CellBits(m) =
        IF m.kind = 4
        THEN Col(15, "pr") \o Col(22, "cp") \o Col(4, "lock") \o Col(1, "half") \o Col(6, "cnr")
        ELSE Col(20, "pr") \o Col(24, "cp") \o Col(10, "lock") \o Col(1, "half") \o Col(10, "cnr")
               \o Col(15, "frate")
  BY Zenon DEF CellBits
<1> HIDE DEF Col
<1>3. CASE m.kind = 4
  <2>1. /\ IsBits(Col(15, "pr"), n * 15) /\ IsBits(Col(22, "cp"), n * 22)
        /\ IsBits(Col(4, "lock"), n * 4) /\ IsBits(Col(1, "half"), n * 1) /\ IsBits(Col(6, "cnr"), n * 6)
    BY <1>1
  <2>2. IsBits(Col(15, "pr") \o Col(22, "cp"), n * 15 + n * 22)
    BY <2>1, TwoPieces, Zenon
  <2>3. IsBits(Col(15, "pr") \o Col(22, "cp") \o Col(4, "lock"), n * 15 + n * 22 + n * 4)
    BY <2>1, <2>2, TwoPieces, Zenon
  <2>4. IsBits(Col(15, "pr") \o Col(22, "cp") \o Col(4, "lock") \o Col(1, "half"),
               n * 15 + n * 22 + n * 4 + n * 1)
    BY <2>1, <2>3, TwoPieces, Zenon
  <2>5. IsBits(Col(15, "pr") \o Col(22, "cp") \o Col(4, "lock") \o Col(1, "half") \o Col(6, "cnr"),
               n * 15 + n * 22 + n * 4 + n * 1 + n * 6)
    BY <2>1, <2>4, TwoPieces, Zenon
  <2>6. n * 15 + n * 22 + n * 4 + n * 1 + n * 6 = n * 48
    OBVIOUS
  <2> QED
    BY <1>2, <1>3, <2>5, <2>6
<1>4. CASE m.kind # 4
  <2>1. /\ IsBits(Col(20, "pr"), n * 20) /\ IsBits(Col(24, "cp"), n * 24)
        /\ IsBits(Col(10, "lock"), n * 10) /\ IsBits(Col(1, "half"), n * 1)
        /\ IsBits(Col(10, "cnr"), n * 10) /\ IsBits(Col(15, "frate"), n * 15)
    BY <1>1
  <2>2. IsBits(Col(20, "pr") \o Col(24, "cp"), n * 20 + n * 24)
    BY <2>1, TwoPieces, Zenon
  <2>3. IsBits(Col(20, "pr") \o Col(24, "cp") \o Col(10, "lock"), n * 20 + n * 24 + n * 10)
    BY <2>1, <2>2, TwoPieces, Zenon
  <2>4. IsBits(Col(20, "pr") \o Col(24, "cp") \o Col(10, "lock") \o Col(1, "half"),
               n * 20 + n * 24 + n * 10 + n * 1)
    BY <2>1, <2>3, TwoPieces, Zenon
  <2>5. IsBits(Col(20, "pr") \o Col(24, "cp") \o Col(10, "lock") \o Col(1, "half") \o Col(10, "cnr"),
               n * 20 + n * 24 + n * 10 + n * 1 + n * 10)
    BY <2>1, <2>4, TwoPieces, Zenon
  <2>6. IsBits(Col(20, "pr") \o Col(24, "cp") \o Col(10, "lock") \o Col(1, "half") \o Col(10, "cnr")
                 \o Col(15, "frate"), n * 20 + n * 24 + n * 10 + n * 1 + n * 10 + n * 15)
    BY <2>1, <2>5, TwoPieces, Zenon
  <2>7. n * 20 + n * 24 + n * 10 + n * 1 + n * 10 + n * 15 = n * 80
    OBVIOUS
  <2> QED
    BY <1>2, <1>4, <2>6, <2>7
<1> QED
  BY <1>3, <1>4

\* How many cells an MSM may have, and has
CellsOf(m) == Len(m.sats) * Len(m.sigs)
HasCells(m) == Cardinality(There(m.sats, m.sigs, m.cells, CellsOf(m)))

\* They are numbers.
LEMMA CellNumbers ==
    ASSUME NEW m \in Observations
    PROVE  /\ Len(m.sats) \in Nat \ {0} /\ Len(m.sigs) \in Nat \ {0}
           /\ CellsOf(m) \in Nat \ {0} /\ HasCells(m) \in Nat
           /\ Len(Present(m.sats, m.sigs, m.cells)) = HasCells(m)
<1>1. m.sats \in Seq(1..64) /\ m.sats # <<>> /\ m.sigs \in Seq(1..32) /\ m.sigs # <<>>
  BY ObservationsAssumption, Zenon
<1>2. \A S : \A s \in Seq(S) : s # <<>> => Len(s) \in Nat \ {0}
  OBVIOUS
<1>3. Len(m.sats) \in Nat \ {0} /\ Len(m.sigs) \in Nat \ {0}
  BY <1>1, <1>2, Zenon
<1>4. \A a, b \in Nat \ {0} : a * b \in Nat \ {0}
  OBVIOUS
<1>5. CellsOf(m) \in Nat \ {0}
  BY <1>3, <1>4, Zenon DEF CellsOf
<1> QED
  BY <1>3, <1>5, AsManyCells DEF HasCells, CellsOf

\* The head after the time
LEMMA MaskLaid ==
    ASSUME NEW m, NEW n \in Nat \ {0}, n = CellsOf(m)
    PROVE  /\ IsBits(MaskBits(m), 115 + n)
           /\ Holds(MaskBits(m), 0, 1, m.sync) /\ Holds(MaskBits(m), 19, 64, m.sats)
           /\ Holds(MaskBits(m), 83, 32, m.sigs) /\ Holds(MaskBits(m), 115, n, m.cells)
<1> DEFINE fields == <<Bits(1, m.sync), Bits(3, 0), Bits(7, 0), Bits(2, 0), Bits(2, 0), Bits(1, 0),
                       Bits(3, 0), Bits(64, m.sats), Bits(32, m.sigs), Bits(n, m.cells)>>
           P == <<0, 1, 4, 11, 13, 15, 16, 19, 83, 115, 115 + n>>
<1>1. MaskBits(m) = Laid(fields)
  BY Zenon DEF MaskBits, CellsOf
<1>2. /\ fields[1].w = 1 /\ fields[2].w = 3 /\ fields[3].w = 7 /\ fields[4].w = 2 /\ fields[5].w = 2
      /\ fields[6].w = 1 /\ fields[7].w = 3 /\ fields[8].w = 64 /\ fields[9].w = 32 /\ fields[10].w = n
  BY DEF Bits
<1>3. /\ fields[1].v = m.sync /\ fields[8].v = m.sats /\ fields[9].v = m.sigs /\ fields[10].v = m.cells
  BY DEF Bits
<1>4. DOMAIN fields = 1..10
  OBVIOUS
<1>5. /\ P[1] = 0 /\ P[2] = 1 /\ P[3] = 4 /\ P[4] = 11 /\ P[5] = 13 /\ P[6] = 15 /\ P[7] = 16
      /\ P[8] = 19 /\ P[9] = 83 /\ P[10] = 115 /\ P[11] = 115 + n
  OBVIOUS
<1> HIDE DEF fields, P
<1>6. Widened(fields, 10, P)
  <2>1. \A k \in 1..10 : fields[k].w \in Nat /\ P[k + 1] = P[k] + fields[k].w
    BY <1>2, <1>5
  <2> QED
    BY <1>4, <1>5, <2>1 DEF Widened
<1>7. PICK k10 : k10 = 10
  OBVIOUS
<1>8. /\ IsBits(Laid(fields), P[k10 + 1])
      /\ \A k \in 1..k10 : fields[k].w # 0 => Holds(Laid(fields), P[k], fields[k].w, fields[k].v)
  <2>1. Widened(fields, k10, P)
    BY <1>6, <1>7
  <2> QED
    BY <2>1, LaidOut, Zenon
<1>9. IsBits(MaskBits(m), 115 + n)
  BY <1>1, <1>5, <1>7, <1>8
<1>10. ASSUME NEW k \in {1, 8, 9, 10} PROVE Holds(MaskBits(m), P[k], fields[k].w, fields[k].v)
  <2>1. k \in 1..k10 /\ fields[k].w # 0
    BY <1>2, <1>7
  <2> QED
    BY <1>1, <1>8, <2>1, Zenon
<1> QED
  BY <1>2, <1>3, <1>5, <1>9, <1>10

\* The kind and the reference station
LEMMA KindLaid == ASSUME NEW m PROVE IsBits(Laid(<<Bits(12, m.kind), Bits(12, 0)>>), 24)
<1> DEFINE fields == <<Bits(12, m.kind), Bits(12, 0)>>
           P == <<0, 12, 24>>
<1>1. fields[1].w = 12 /\ fields[2].w = 12 /\ DOMAIN fields = 1..2
  BY DEF Bits
<1>2. P[1] = 0 /\ P[2] = 12 /\ P[3] = 24
  OBVIOUS
<1>3. Widened(fields, 2, P)
  <2> HIDE DEF fields, P
  <2> QED
    BY <1>1, <1>2 DEF Widened
<1> HIDE DEF fields, P
<1>4. IsBits(Laid(fields), P[2 + 1])
  BY <1>3, LaidOut, Zenon
<1>5. IsBits(Laid(fields), 24)
  BY <1>2, <1>4
<1> QED
  BY <1>5 DEF fields

\* The time of GLONASS
Moscow(m) == (m.tow + ThreeHours - 2 * LeapSecond) % Week

\* Two fields in thirty bits, or one
LEMMA TimeLaid ==
    ASSUME NEW m
    PROVE  /\ IsBits(Laid(SentTime(m)), 30)
           /\ m.sys = GLO => /\ Holds(Laid(SentTime(m)), 0, 3, Moscow(m) \div Day)
                             /\ Holds(Laid(SentTime(m)), 3, 27, Moscow(m) % Day)
           /\ m.sys # GLO => Holds(Laid(SentTime(m)), 0, 30,
                                   IF m.sys = BDS THEN (m.tow - 28) % Week ELSE m.tow)
<1>1. CASE m.sys = GLO
  <2> DEFINE a == Moscow(m) \div Day
             b == Moscow(m) % Day
             fields == <<Bits(3, a), Bits(27, b)>>
             P == <<0, 3, 30>>
  <2>0. m.sys # BDS
    BY <1>1 DEF GLO, BDS
  <2>1. SentTime(m) = fields
    BY <1>1, <2>0, Zenon DEF SentTime, Moscow
  <2> HIDE DEF a, b
  <2>2. /\ fields[1].w = 3 /\ fields[2].w = 27 /\ DOMAIN fields = 1..2
        /\ fields[1].v = a /\ fields[2].v = b
    BY DEF Bits
  <2>3. P[1] = 0 /\ P[2] = 3 /\ P[3] = 30
    OBVIOUS
  <2> HIDE DEF fields, P
  <2>4. Widened(fields, 2, P)
    BY <2>2, <2>3 DEF Widened
  <2>5. /\ IsBits(Laid(fields), P[2 + 1])
        /\ \A k \in 1..2 : fields[k].w # 0 => Holds(Laid(fields), P[k], fields[k].w, fields[k].v)
    BY <2>4, LaidOut, Zenon
  <2>6. /\ IsBits(Laid(fields), 30) /\ Holds(Laid(fields), 0, 3, a) /\ Holds(Laid(fields), 3, 27, b)
    BY <2>2, <2>3, <2>5
  <2> QED
    BY <1>1, <2>1, <2>6 DEF a, b
<1>2. CASE m.sys # GLO
  <2> DEFINE a == IF m.sys = BDS THEN (m.tow - 28) % Week ELSE m.tow
             fields == <<Bits(30, a)>>
             P == <<0, 30>>
  <2>1. SentTime(m) = fields
    BY <1>2 DEF SentTime
  <2> HIDE DEF a
  <2>2. fields[1].w = 30 /\ DOMAIN fields = 1..1 /\ fields[1].v = a
    BY DEF Bits
  <2>3. P[1] = 0 /\ P[2] = 30
    OBVIOUS
  <2> HIDE DEF fields, P
  <2>4. Widened(fields, 1, P)
    BY <2>2, <2>3 DEF Widened
  <2>5. /\ IsBits(Laid(fields), P[1 + 1])
        /\ \A k \in 1..1 : fields[k].w # 0 => Holds(Laid(fields), P[k], fields[k].w, fields[k].v)
    BY <2>4, LaidOut, Zenon
  <2>6. IsBits(Laid(fields), 30) /\ Holds(Laid(fields), 0, 30, a)
    BY <2>2, <2>3, <2>5
  <2> QED
    BY <1>2, <2>1, <2>6 DEF a
<1> QED
  BY <1>1, <1>2

\* Five pieces of a message in a row
LEMMA FivePieces ==
    ASSUME NEW k, NEW t, NEW h, NEW s, NEW c, NEW nk, NEW nt, NEW nh, NEW ns, NEW nc,
           IsBits(k, nk), IsBits(t, nt), IsBits(h, nh), IsBits(s, ns), IsBits(c, nc)
    PROVE  /\ IsBits(k \o t \o h \o s \o c, nk + nt + nh + ns + nc)
           /\ \A p \in Nat : \A w, v : Holds(t, p, w, v) => Holds(k \o t \o h \o s \o c, nk + p, w, v)
           /\ \A p \in Nat : \A w, v :
                Holds(h, p, w, v) => Holds(k \o t \o h \o s \o c, (nk + nt) + p, w, v)
<1>1. /\ IsBits(k \o t, nk + nt)
      /\ \A p \in Nat : \A w, v : Holds(t, p, w, v) => Holds(k \o t, nk + p, w, v)
  BY TwoPieces, Zenon
<1>2. /\ IsBits(k \o t \o h, nk + nt + nh)
      /\ \A p \in Nat : \A w, v : Holds(k \o t, p, w, v) => Holds(k \o t \o h, p, w, v)
      /\ \A p \in Nat : \A w, v : Holds(h, p, w, v) => Holds(k \o t \o h, (nk + nt) + p, w, v)
  BY <1>1, TwoPieces, Zenon
<1>3. /\ IsBits(k \o t \o h \o s, nk + nt + nh + ns)
      /\ \A p \in Nat : \A w, v : Holds(k \o t \o h, p, w, v) => Holds(k \o t \o h \o s, p, w, v)
  BY <1>2, TwoPieces, Zenon
<1>4. /\ IsBits(k \o t \o h \o s \o c, nk + nt + nh + ns + nc)
      /\ \A p \in Nat : \A w, v :
           Holds(k \o t \o h \o s, p, w, v) => Holds(k \o t \o h \o s \o c, p, w, v)
  BY <1>3, TwoPieces, Zenon
<1>5. nk \in Nat /\ nt \in Nat
  BY Zenon DEF IsBits
<1>6. \A p \in Nat : nk + p \in Nat /\ (nk + nt) + p \in Nat
  BY <1>5
<1> QED
  BY <1>1, <1>2, <1>3, <1>4, <1>6, Zenon

\* The bits of a kind
OfKind(m, four, seven) == IF m.kind = 4 THEN four ELSE seven

\* What decode_msm_head reads, and where the data begin
LEMMA HeadReads ==
    ASSUME NEW m \in Observations, NEW frame, frame = MsmBits(m)
    PROVE  /\ Len(frame) = 169 + CellsOf(m) + Len(m.sats) * OfKind(m, 18, 36)
                             + HasCells(m) * OfKind(m, 48, 80)
           /\ m.sys = GLO => /\ Field(frame, 48, 3) = Moscow(m) \div Day
                             /\ Field(frame, 51, 27) = Moscow(m) % Day
           /\ m.sys # GLO => Field(frame, 48, 30) = IF m.sys = BDS THEN (m.tow - 28) % Week ELSE m.tow
           /\ Field(frame, 78, 1) = m.sync
           /\ Field(frame, 97, 64) = m.sats
           /\ Field(frame, 161, 32) = m.sigs
           /\ Field(frame, 193, CellsOf(m)) = m.cells
<1> DEFINE k == Laid(<<Bits(12, m.kind), Bits(12, 0)>>)
           t == Laid(SentTime(m))
           h == MaskBits(m)
           s == SatelliteBits(m)
           c == CellBits(m)
           ns == Len(m.sats) * OfKind(m, 18, 36)
           nc == HasCells(m) * OfKind(m, 48, 80)
           n == CellsOf(m)
<1>1. frame = k \o t \o h \o s \o c
  BY Zenon DEF MsmBits
<1>2. IsBits(k, 24)
  BY KindLaid, Zenon
<1>3. /\ IsBits(t, 30)
      /\ m.sys = GLO => Holds(t, 0, 3, Moscow(m) \div Day) /\ Holds(t, 3, 27, Moscow(m) % Day)
      /\ m.sys # GLO => Holds(t, 0, 30, IF m.sys = BDS THEN (m.tow - 28) % Week ELSE m.tow)
  BY TimeLaid
<1>4. n \in Nat \ {0} /\ Len(m.sats) \in Nat /\ HasCells(m) \in Nat
  BY CellNumbers
<1>5. IsBits(h, 115 + n) /\ Holds(h, 0, 1, m.sync) /\ Holds(h, 19, 64, m.sats)
      /\ Holds(h, 83, 32, m.sigs) /\ Holds(h, 115, n, m.cells)
  BY <1>4, MaskLaid
<1>6. IsBits(s, ns)
  BY <1>4, SatelliteLength DEF OfKind
<1>7. IsBits(c, nc)
  BY <1>4, CellNumbers, CellLength DEF OfKind
<1> HIDE DEF k, t, h, s, c, ns, nc, n
<1> DEFINE nk == 24
           nt == 30
           nh == 115 + n
<1>8. IsBits(k, nk) /\ IsBits(t, nt) /\ IsBits(h, nh)
  BY <1>2, <1>3, <1>5
<1>9. nk = 24 /\ nt = 30 /\ nh = 115 + n
  OBVIOUS
<1> HIDE DEF nk, nt, nh
<1>10. /\ IsBits(frame, nk + nt + nh + ns + nc)
       /\ \A p \in Nat : \A w, v : Holds(t, p, w, v) => Holds(frame, nk + p, w, v)
       /\ \A p \in Nat : \A w, v : Holds(h, p, w, v) => Holds(frame, (nk + nt) + p, w, v)
  BY <1>1, <1>6, <1>7, <1>8, FivePieces, Zenon
<1>11. \A p \in Nat : \A w, v : Holds(t, p, w, v) => Field(frame, p + 48, w) = v
  <2> SUFFICES ASSUME NEW p \in Nat, NEW w, NEW v, Holds(t, p, w, v)
               PROVE  Field(frame, p + 48, w) = v
    OBVIOUS
  <2>1. Holds(frame, nk + p, w, v)
    BY <1>10, Zenon
  <2>2. nk + p \in Nat /\ p + 48 \in Int /\ p + 48 = (nk + p) + 24
    BY <1>9
  <2> QED
    BY <2>1, <2>2, HoldsReads
<1>12. \A p \in Nat : \A w, v : Holds(h, p, w, v) => Field(frame, p + 78, w) = v
  <2> SUFFICES ASSUME NEW p \in Nat, NEW w, NEW v, Holds(h, p, w, v)
               PROVE  Field(frame, p + 78, w) = v
    OBVIOUS
  <2>1. Holds(frame, (nk + nt) + p, w, v)
    BY <1>10, Zenon
  <2>2. (nk + nt) + p \in Nat /\ p + 78 \in Int /\ p + 78 = ((nk + nt) + p) + 24
    BY <1>9
  <2> QED
    BY <2>1, <2>2, HoldsReads
<1>13. /\ m.sys = GLO => Field(frame, 48, 3) = Moscow(m) \div Day /\ Field(frame, 51, 27) = Moscow(m) % Day
       /\ m.sys # GLO => Field(frame, 48, 30) = IF m.sys = BDS THEN (m.tow - 28) % Week ELSE m.tow
  <2>1. 0 + 48 = 48 /\ 3 + 48 = 51 /\ 0 \in Nat /\ 3 \in Nat
    OBVIOUS
  <2>2. CASE m.sys = GLO
    <3>1. Field(frame, 0 + 48, 3) = Moscow(m) \div Day /\ Field(frame, 3 + 48, 27) = Moscow(m) % Day
      BY <1>3, <1>11, <2>2
    <3> QED
      BY <2>1, <2>2, <3>1
  <2>3. CASE m.sys # GLO
    <3>1. Field(frame, 0 + 48, 30) = IF m.sys = BDS THEN (m.tow - 28) % Week ELSE m.tow
      BY <1>3, <1>11, <2>3
    <3> QED
      BY <2>1, <2>3, <3>1
  <2> QED
    BY <2>2, <2>3
<1>14. /\ Field(frame, 78, 1) = m.sync /\ Field(frame, 97, 64) = m.sats
       /\ Field(frame, 161, 32) = m.sigs /\ Field(frame, 193, n) = m.cells
  <2>1. 0 + 78 = 78 /\ 19 + 78 = 97 /\ 83 + 78 = 161 /\ 115 + 78 = 193
        /\ 0 \in Nat /\ 19 \in Nat /\ 83 \in Nat /\ 115 \in Nat
    OBVIOUS
  <2>2. /\ Field(frame, 0 + 78, 1) = m.sync /\ Field(frame, 19 + 78, 64) = m.sats
        /\ Field(frame, 83 + 78, 32) = m.sigs /\ Field(frame, 115 + 78, n) = m.cells
    BY <1>5, <1>12, <2>1
  <2> QED
    BY <2>1, <2>2
<1>15. Len(frame) = 169 + n + ns + nc
  <2>1. Len(frame) = nk + nt + nh + ns + nc
    BY <1>10, Zenon DEF IsBits
  <2>2. ns \in Nat /\ nc \in Nat
    BY <1>6, <1>7, Zenon DEF IsBits
  <2> QED
    BY <1>4, <1>9, <2>1, <2>2
<1> QED
  BY <1>13, <1>14, <1>15, Zenon DEF n, ns, nc

-----------------------------------------------------------------------------
(* The time of an MSM, and the epoch of the base.                           *)

\* What decode_msm_head comes to
HeadOf(m, h) ==
    /\ h.sync = m.sync /\ h.sats = m.sats /\ h.sigs = m.sigs /\ h.cells = m.cells
    /\ h.ncell = HasCells(m) /\ h.hsize = 193 + CellsOf(m)
    /\ h.tow = HeadTime(m.sys, MsmBits(m))

\* It is what was sent.
LEMMA HeadIs ==
    ASSUME NEW m \in Observations, NEW h, h = MsmHead(m.sys, MsmBits(m))
    PROVE  HeadOf(m, h)
<1>1. PICK frame : frame = MsmBits(m)
  OBVIOUS
<1>2. /\ Field(frame, 78, 1) = m.sync /\ Field(frame, 97, 64) = m.sats
      /\ Field(frame, 161, 32) = m.sigs /\ Field(frame, 193, CellsOf(m)) = m.cells
  BY <1>1, HeadReads, ZenonT(60)
<1>3. /\ h.sync = Field(frame, 78, 1) /\ h.sats = Field(frame, 97, 64)
      /\ h.sigs = Field(frame, 161, 32) /\ h.tow = HeadTime(m.sys, frame)
  BY <1>1 DEF MsmHead
<1>4. h.cells = Field(frame, 193, Len(Field(frame, 97, 64)) * Len(Field(frame, 161, 32)))
  BY <1>1 DEF MsmHead
<1>5. h.hsize = 193 + Len(Field(frame, 97, 64)) * Len(Field(frame, 161, 32))
  BY <1>1 DEF MsmHead
<1> DEFINE cells == Field(frame, 193, Len(Field(frame, 97, 64)) * Len(Field(frame, 161, 32)))
<1>6. h.ncell = Cardinality({k \in 1..Len(Field(frame, 97, 64)) * Len(Field(frame, 161, 32)) :
                               CellAt(Field(frame, 97, 64), Field(frame, 161, 32), k) \in cells})
  BY <1>1 DEF MsmHead
<1>7. h.cells = m.cells /\ cells = m.cells
  BY <1>2, <1>4 DEF CellsOf
<1> HIDE DEF cells
<1>8. h.ncell = HasCells(m)
  BY <1>2, <1>6, <1>7 DEF HasCells, There, CellsOf
<1>9. h.hsize = 193 + CellsOf(m)
  BY <1>2, <1>5 DEF CellsOf
<1> QED
  BY <1>1, <1>2, <1>3, <1>7, <1>8, <1>9 DEF HeadOf

\* decode_msm7 takes an MSM for too short when it has been cut, and only then.
LEMMA CutFound ==
    ASSUME NEW m \in Observations, m.kind = 7, NEW h, HeadOf(m, h)
    PROVE  h.hsize + Len(h.sats) * 36 + h.ncell * 80 > WholeLength(m) <=> m.cut
<1>1. Len(MsmBits(m)) = 169 + CellsOf(m) + Len(m.sats) * 36 + HasCells(m) * 80
  <2>1. OfKind(m, 18, 36) = 36 /\ OfKind(m, 48, 80) = 80
    BY DEF OfKind
  <2>2. PICK frame : frame = MsmBits(m)
    OBVIOUS
  <2>3. Len(frame) = 169 + CellsOf(m) + Len(m.sats) * OfKind(m, 18, 36) + HasCells(m) * OfKind(m, 48, 80)
    BY <2>2, HeadReads, Zenon
  <2> QED
    BY <2>1, <2>2, <2>3
<1>2. CellsOf(m) \in Nat /\ Len(m.sats) \in Nat /\ HasCells(m) \in Nat
  BY CellNumbers
<1>3. PICK x \in Nat : x = CellsOf(m) + Len(m.sats) * 36 + HasCells(m) * 80
  <2>1. \A a, b, c \in Nat : a + b * 36 + c * 80 \in Nat
    OBVIOUS
  <2>2. CellsOf(m) + Len(m.sats) * 36 + HasCells(m) * 80 \in Nat
    BY <1>2, <2>1, Zenon
  <2> QED
    BY <2>2, Zenon
<1>4. Len(MsmBits(m)) = 169 + x
  <2>1. \A a, b, c \in Nat : 169 + a + b * 36 + c * 80 = 169 + (a + b * 36 + c * 80)
    OBVIOUS
  <2>2. 169 + CellsOf(m) + Len(m.sats) * 36 + HasCells(m) * 80
          = 169 + (CellsOf(m) + Len(m.sats) * 36 + HasCells(m) * 80)
    BY <1>2, <2>1, SMTT(60)
  <2> QED
    BY <1>1, <1>3, <2>2
<1>5. h.hsize + Len(h.sats) * 36 + h.ncell * 80 = 193 + x
  <2>1. h.hsize = 193 + CellsOf(m) /\ Len(h.sats) = Len(m.sats) /\ h.ncell = HasCells(m)
    BY DEF HeadOf
  <2>2. \A a, b, c \in Nat : (193 + a) + b * 36 + c * 80 = 193 + (a + b * 36 + c * 80)
    OBVIOUS
  <2>3. (193 + CellsOf(m)) + Len(m.sats) * 36 + HasCells(m) * 80
          = 193 + (CellsOf(m) + Len(m.sats) * 36 + HasCells(m) * 80)
    BY <1>2, <2>2, SMTT(60)
  <2> QED
    BY <1>3, <2>1, <2>3
<1>6. WholeLength(m) = 8 * IF m.cut THEN (200 + x) \div 8 + 3 - 4 ELSE (200 + x) \div 8 + 3
  <2>1. 24 + (169 + x) + 7 = 200 + x
    OBVIOUS
  <2> QED
    BY <1>4, <2>1 DEF WholeLength
<1>7. PICK q \in Int : q = (200 + x) \div 8 /\ 8 * q <= 200 + x /\ 200 + x < 8 * q + 8
  OBVIOUS
<1>8. CASE m.cut
  <2>1. WholeLength(m) = 8 * (q + 3 - 4)
    BY <1>6, <1>7, <1>8
  <2>2. 193 + x > WholeLength(m)
    BY <1>7, <2>1
  <2> QED
    BY <1>5, <1>8, <2>2
<1>9. CASE ~m.cut
  <2>1. WholeLength(m) = 8 * (q + 3)
    BY <1>6, <1>7, <1>9
  <2>2. ~(193 + x > WholeLength(m))
    BY <1>7, <2>1
  <2> QED
    BY <1>5, <1>9, <2>2
<1> QED
  BY <1>8, <1>9

\* What the time in an epoch may be: that of the message, or a week before it.
Timed(m, t) == (t = m.tow \/ t = m.tow - Week) /\ t # 0 /\ -ThreeHours <= t /\ t <= Week - 2

\* A number that is less than a week beside the week
LEMMA Modulo ==
    ASSUME NEW W \in Nat, W # 0, NEW x \in Int
    PROVE  /\ x >= 0 /\ x < W => x % W = x
           /\ x >= W /\ x < 2 * W => x % W = x - W
           /\ x < 0 /\ x >= -W => x % W = x + W
OBVIOUS

\* Days and the rest
LEMMA DaysAndRest ==
    ASSUME NEW D \in Nat, D # 0, NEW x \in Nat
    PROVE  (x \div D) * D + (x % D) = x /\ x \div D \in Nat /\ x % D \in Nat
OBVIOUS

\* The time of an epoch of a regular message
AtTime(tow) == IF tow > Week - 2 THEN tow - Week ELSE tow

\* The time that decode_msm_head reads
LEMMA TimeRead ==
    ASSUME NEW m \in Observations
    PROVE  /\ Timed(m, HeadTime(m.sys, MsmBits(m)))
           /\ Regular(m) => HeadTime(m.sys, MsmBits(m)) = AtTime(m.tow)
<1>1. PICK frame : frame = MsmBits(m)
  OBVIOUS
<1>2. PICK tow \in Int : tow = m.tow /\ 1 <= tow /\ tow <= Week - 1
  <2>1. m.tow \in 1..Week - 1
    BY ObservationsAssumption, Zenon
  <2>2. Week \in Int
    BY DEF Week, Day, DaySeconds
  <2> QED
    BY <2>1, <2>2
<1>3. Week \in Nat /\ Day \in Nat /\ Day # 0 /\ 2 * ThreeHours < Week /\ ThreeHours \in Nat
      /\ 7200 < ThreeHours /\ 28 < Week
  BY DEF Week, Day, DaySeconds, ThreeHours
<1>4. PICK q \in Int : q = ThreeHours - 2 * LeapSecond /\ 0 < q /\ q <= ThreeHours
  BY <1>3, DecodeAssumption, SMTT(60)
<1>8. \A x \in Int : /\ x >= 0 /\ x < Week => x % Week = x
                     /\ x >= Week /\ x < 2 * Week => x % Week = x - Week
                     /\ x < 0 /\ x >= -Week => x % Week = x + Week
  <2>1. Week \in Nat /\ Week # 0
    BY <1>3
  <2> QED
    BY <2>1, Modulo
<1>5. CASE m.sys = GLO
  <2>1. Moscow(m) = (tow + q) % Week
    <3>1. m.tow + ThreeHours - 2 * LeapSecond = tow + q
      BY <1>2, <1>3, <1>4, DecodeAssumption
    <3> QED
      BY <3>1, Zenon DEF Moscow
  <2>2. Field(frame, 48, 3) = Moscow(m) \div Day /\ Field(frame, 51, 27) = Moscow(m) % Day
    BY <1>1, <1>5, HeadReads, Zenon
  <2>3. PICK s \in Nat : s = (tow + q) % Week
    BY <1>2, <1>3, <1>4
  <2>4. (s \div Day) * Day + (s % Day) = s /\ s \div Day \in Nat /\ s % Day \in Nat
    BY <1>3, DaysAndRest
  <2>5. Field(frame, 48, 3) * Day + Field(frame, 51, 27) = s
    BY <2>1, <2>2, <2>3, <2>4, Zenon
  <2>6. tow + q < Week => s = tow + q
    BY <1>2, <1>3, <1>4, <2>3, <1>8
  <2>7. tow + q >= Week => s = tow + q - Week
    BY <1>2, <1>3, <1>4, <2>3, <1>8
  <2>8. PICK t \in Int : t = s - q
    OBVIOUS
  <2>9. HeadTime(m.sys, frame) = AtTime(t)
    <3>1. Field(frame, 48, 3) * Day + Field(frame, 51, 27) - ThreeHours + 2 * LeapSecond = t
      <4>1. Field(frame, 48, 3) * Day \in Int /\ Field(frame, 51, 27) \in Int
        BY <1>3, <2>1, <2>2, <2>3, <2>4
      <4> QED
        BY <1>3, <1>4, <2>5, <2>8, <4>1, DecodeAssumption
    <3> QED
      BY <1>5, <3>1, Zenon DEF HeadTime, AtTime
  <2>10. Timed(m, HeadTime(m.sys, frame))
    BY <1>1, <1>2, <1>3, <1>4, <2>6, <2>7, <2>8, <2>9 DEF Timed, AtTime
  <2>11. ASSUME Regular(m) PROVE t = tow
    <3>1. m.tow + ThreeHours - 2 * LeapSecond < Week
      BY <1>5, <2>11, Zenon DEF Regular
    <3>2. m.tow + ThreeHours - 2 * LeapSecond = tow + q
      BY <1>2, <1>3, <1>4, DecodeAssumption
    <3>3. tow + q < Week
      BY <3>1, <3>2
    <3> QED
      BY <1>2, <1>4, <2>6, <2>8, <3>3
  <2> QED
    BY <1>1, <1>2, <2>9, <2>10, <2>11
<1>6. CASE m.sys = BDS
  <2>0. m.sys # GLO
    BY <1>6 DEF GLO, BDS
  <2>1. Field(frame, 48, 30) = (tow - 28) % Week
    BY <1>1, <1>2, <1>6, <2>0, HeadReads
  <2>2. PICK s \in Nat : s = (tow - 28) % Week
    BY <1>2, <1>3
  <2>3. tow >= 28 => s = tow - 28
    BY <1>2, <1>3, <2>2, <1>8
  <2>4. tow < 28 => s = tow - 28 + Week
    BY <1>2, <1>3, <2>2, <1>8
  <2>5. HeadTime(m.sys, frame) = AtTime(s + 28)
    BY <1>6, <2>0, <2>1, <2>2, Zenon DEF HeadTime, AtTime
  <2>6. Timed(m, HeadTime(m.sys, frame))
    BY <1>1, <1>2, <1>3, <2>3, <2>4, <2>5 DEF Timed, AtTime
  <2>7. HeadTime(m.sys, frame) = AtTime(tow)
    BY <1>2, <1>3, <2>3, <2>4, <2>5 DEF AtTime
  <2> QED
    BY <1>1, <1>2, <2>6, <2>7
<1>7. CASE m.sys # GLO /\ m.sys # BDS
  <2>1. Field(frame, 48, 30) = tow
    BY <1>1, <1>2, <1>7, HeadReads
  <2>2. HeadTime(m.sys, frame) = AtTime(tow + 0)
    BY <1>7, <2>1, Zenon DEF HeadTime, AtTime
  <2>3. tow + 0 = tow
    BY <1>2
  <2>4. Timed(m, HeadTime(m.sys, frame))
    BY <1>1, <1>2, <1>3, <2>2, <2>3 DEF Timed, AtTime
  <2> QED
    BY <1>1, <1>2, <2>2, <2>3, <2>4
<1> QED
  BY <1>5, <1>6, <1>7

IsEpoch(e) == {"t", "week"} \subseteq DOMAIN e

\* An MSM that Decode puts into an epoch
Fits(m) == m.sys \in Enabled /\ ~(m.kind = 7 /\ m.cut)

\* What Decode comes to: an epoch of the time of the message, or the one it was
Comes(m, e, d) ==
    /\ IsEpoch(d.epoch)
    /\ ~Fits(m) => d.epoch = e
    /\ Fits(m) => Timed(m, d.epoch.t)

\* decode_msm4 and decode_msm7 put their observations into the epoch of their time.
LEMMA DecodeComes ==
    ASSUME NEW m \in Observations, NEW any, NEW e, IsEpoch(e), NEW d, d = Decode(m, any, e)
    PROVE  /\ d.res # -2 => Comes(m, e, d)
           /\ e.t = 0 => d.res # -2
           /\ d.res = -2 => Fits(m)
<1> DEFINE frame == MsmBits(m)
           h == MsmHead(m.sys, frame)
           short == h.hsize + Len(h.sats) * 36 + h.ncell * 80 > WholeLength(m)
           cells == Cells(m, h, IF m.kind = 7 THEN Columns7(frame, h) ELSE Columns4(frame, h), any, e)
<1>1. d = IF m.sys \notin Enabled THEN [res |-> h.sync, epoch |-> e]
          ELSE IF m.kind = 7 /\ short THEN [res |-> -1, epoch |-> e]
          ELSE IF e.t \notin {0, h.tow} THEN [res |-> -2, epoch |-> e]
          ELSE [res |-> h.sync,
                epoch |-> [e EXCEPT !.t = h.tow, !.n = cells.n, !.slots = cells.slots]]
  BY DEF Decode
<1>2. HeadOf(m, h)
  <2>1. h = MsmHead(m.sys, MsmBits(m))
    OBVIOUS
  <2> HIDE DEF h
  <2> QED
    BY <2>1, HeadIs, Zenon
<1>3. m.kind = 7 => (short <=> m.cut)
  <2> HIDE DEF h
  <2> QED
    BY <1>2, CutFound
<1> HIDE DEF h, cells, short
<1>4. h.sync = m.sync /\ h.tow = HeadTime(m.sys, MsmBits(m)) /\ h.sync # -2
  <2>1. m.sync \in {0, 1}
    BY ObservationsAssumption, Zenon
  <2> QED
    BY <1>2, <2>1 DEF HeadOf
<1>5. Timed(m, h.tow)
  BY <1>4, TimeRead
<1>6. CASE ~Fits(m)
  <2>1. d.epoch = e /\ d.res # -2
    <3>1. CASE m.sys \notin Enabled
      BY <1>1, <1>4, <3>1
    <3>2. CASE m.sys \in Enabled
      BY <1>1, <1>3, <1>6, <3>2 DEF Fits
    <3> QED
      BY <3>1, <3>2
  <2> QED
    BY <1>6, <2>1 DEF Comes
<1>7. CASE Fits(m)
  <2>1. m.sys \in Enabled /\ ~(m.kind = 7 /\ short)
    BY <1>3, <1>7 DEF Fits
  <2>2. CASE e.t \notin {0, h.tow}
    <3>1. d.res = -2 /\ e.t # 0
      BY <1>1, <2>1, <2>2
    <3> QED
      BY <1>7, <3>1
  <2>3. CASE e.t \in {0, h.tow}
    <3>1. d = [res |-> h.sync,
               epoch |-> [e EXCEPT !.t = h.tow, !.n = cells.n, !.slots = cells.slots]]
      BY <1>1, <2>1, <2>3
    <3>2. d.res # -2
      BY <1>4, <3>1
    <3>3. d.epoch = [e EXCEPT !.t = h.tow, !.n = cells.n, !.slots = cells.slots]
      BY <3>1
    <3>4. IsEpoch(d.epoch) /\ d.epoch.t = h.tow
      <4>1. PICK x, y, z : x = h.tow /\ y = cells.n /\ z = cells.slots
        OBVIOUS
      <4>2. d.epoch = [e EXCEPT !.t = x, !.n = y, !.slots = z]
        BY <3>3, <4>1
      <4>3. d.epoch.t = x /\ DOMAIN d.epoch = DOMAIN e
        BY <4>2 DEF IsEpoch
      <4> QED
        BY <4>1, <4>3 DEF IsEpoch
    <3> QED
      BY <1>5, <1>7, <3>2, <3>4 DEF Comes
  <2> QED
    BY <2>2, <2>3
<1> QED
  BY <1>6, <1>7

\* So does ParseRtcm, which clears the epoch for a message of another time.
LEMMA AgainComes ==
    ASSUME NEW m \in Observations, NEW any, NEW e, IsEpoch(e), NEW d, d = DecodeAgain(m, any, e)
    PROVE  Comes(m, e, d)
<1>1. PICK first : first = Decode(m, any, e)
  OBVIOUS
<1>2. PICK again : again = Decode(m, any, Cleared)
  OBVIOUS
<1>3. d = IF first.res = -2 THEN again ELSE first
  BY <1>1, <1>2 DEF DecodeAgain
<1>4. IsEpoch(Cleared) /\ Cleared.t = 0
  BY DEF Cleared, IsEpoch
<1>5. CASE first.res # -2
  BY <1>1, <1>3, <1>5, DecodeComes
<1>6. CASE first.res = -2
  <2>1. Fits(m)
    BY <1>1, <1>6, DecodeComes
  <2>2. Comes(m, Cleared, again)
    BY <1>2, <1>4, DecodeComes
  <2> QED
    BY <1>3, <1>6, <2>1, <2>2 DEF Comes
<1> QED
  BY <1>5, <1>6

\* A number of weeks that is less than so many is less.
LEMMA FewerWeeks ==
    ASSUME NEW W \in Int, W > 0, NEW k \in Int
    PROVE  /\ k * W < W => k < 1
           /\ k * W > -W => k > -1
           /\ k * W < 2 * W => k < 2
           /\ k * W > -2 * W => k > -2
           /\ k * W > 0 => k > 0
           /\ k * W < 0 => k < 0
<1>1. k >= 1 => k * W >= W
  OBVIOUS
<1>2. k <= -1 => k * W <= -W
  OBVIOUS
<1>3. k >= 2 => k * W >= 2 * W
  OBVIOUS
<1>4. k <= -2 => k * W <= -2 * W
  OBVIOUS
<1>5. k = 0 => k * W = 0
  OBVIOUS
<1>6. PICK x \in Int : x = k * W
  OBVIOUS
<1> QED
  BY <1>1, <1>2, <1>3, <1>4, <1>5, <1>6

\* A message of week mw and time tow, less than half a week from an ephemeris of week dw and time s;
\* t is that time or a week before it.
Beside(W, half, far, mw, tow, dw, s, t) ==
    /\ W \in Nat /\ half \in Nat /\ W = 2 * half /\ half > 0 /\ far \in Nat /\ 2 * far < W
    /\ mw \in Int /\ tow \in Int /\ dw \in Int /\ s \in Int /\ 0 <= s /\ s < W
    /\ t \in Int /\ (t = tow \/ t = tow - W) /\ -far <= t /\ t <= W - 2
    /\ (mw - dw) * W + (tow - s) < half /\ (mw - dw) * W + (tow - s) > -half

\* The week is that of the ephemeris, or one beside it.
LEMMA WeekFound ==
    ASSUME NEW W, NEW half, NEW far, NEW mw, NEW tow, NEW dw, NEW s, NEW t,
           Beside(W, half, far, mw, tow, dw, s, t)
    PROVE  /\ s - t > half => ((dw + 1) - mw) * W + t = tow
           /\ t - s > half => ((dw - 1) - mw) * W + t = tow
           /\ ~(s - t > half) /\ ~(t - s > half) => (dw - mw) * W + t = tow
<1>0. /\ W \in Nat /\ half \in Nat /\ W = 2 * half /\ half > 0 /\ far \in Nat /\ 2 * far < W
      /\ mw \in Int /\ tow \in Int /\ dw \in Int /\ s \in Int /\ 0 <= s /\ s < W
      /\ t \in Int /\ (t = tow \/ t = tow - W) /\ -far <= t /\ t <= W - 2
      /\ (mw - dw) * W + (tow - s) < half /\ (mw - dw) * W + (tow - s) > -half
  BY Zenon DEF Beside
<1>1. PICK z \in Int : (z = 0 \/ z = 1) /\ t = tow - z * W
  <2>1. CASE t = tow
    <3>1. t = tow - 0 * W
      BY <1>0, <2>1
    <3> QED
      BY <3>1
  <2>2. CASE t = tow - W
    <3>1. t = tow - 1 * W
      BY <1>0, <2>2
    <3> QED
      BY <3>1
  <2> QED
    BY <1>0, <2>1, <2>2
<1>2. PICK k \in Int : k = (mw - dw) + z
  BY <1>0
<1>3. PICK x \in Int : x = k * W
  BY <1>0
<1>4. (mw - dw) * W + (tow - s) = x + (t - s)
  <2>1. \A a, b \in Int : (a + b) * W = a * W + b * W
    BY <1>0
  <2>2. x = (mw - dw) * W + z * W
    BY <1>0, <1>2, <1>3, <2>1
  <2>3. PICK a \in Int, b \in Int : a = (mw - dw) * W /\ b = z * W
    BY <1>0
  <2> QED
    BY <1>0, <1>1, <2>2, <2>3
<1>5. x + (t - s) < half /\ x + (t - s) > -half
  BY <1>0, <1>4, Zenon
<1>6. /\ x < W => k < 1
      /\ x > -W => k > -1
      /\ x < W + W => k < 2
      /\ x > -(W + W) => k > -2
      /\ x > 0 => k > 0
      /\ x < 0 => k < 0
  <2>1. /\ k * W < W => k < 1
        /\ k * W > -W => k > -1
        /\ k * W < 2 * W => k < 2
        /\ k * W > -2 * W => k > -2
        /\ k * W > 0 => k > 0
        /\ k * W < 0 => k < 0
    BY <1>0, FewerWeeks
  <2> QED
    BY <1>0, <1>3, <2>1
<1>7. s - t > half => k = 1
  BY <1>0, <1>5, <1>6
<1>8. t - s > half => k = -1
  BY <1>0, <1>5, <1>6
<1>9. ~(s - t > half) /\ ~(t - s > half) => k = 0
  BY <1>0, <1>5, <1>6
<1>10. ASSUME NEW i \in Int, i = k PROVE ((dw + i) - mw) * W + t = tow
  <2>1. (dw + i) - mw = z
    BY <1>0, <1>2, <1>10
  <2>2. PICK b \in Int : b = z * W
    BY <1>0
  <2> QED
    BY <1>0, <1>1, <2>1, <2>2
<1>11. dw + (-1) = dw - 1 /\ dw + 0 = dw
  BY <1>0
<1> QED
  BY <1>7, <1>8, <1>9, <1>10, <1>11

\* Half weeks from the ephemeris d to the message m
Apart(m, d) == (m.week - d.week) * Week + m.tow - 2 * d.second
Near(m, d) == Apart(m, d) < Week \div 2 /\ Apart(m, d) > -(Week \div 2)

\* current is of the ephemeris d.
OfGps(d) ==
    /\ d \in Ephemerides /\ Is1019(d)
    /\ current = [week |-> d.week, second |-> d.second]

\* An ephemeris of GPS
LEMMA GpsEphemeris ==
    ASSUME NEW d \in Ephemerides, Is1019(d)
    PROVE  d.week \in 2048..3071 /\ d.second \in Nat /\ 2 * d.second < Week
<1>1. d.type = 1019 /\ d.week \in 2048..3071
  <2>1. d.type = 1019 /\ Has1019(d)
    BY OfItsType, Zenon DEF Is1019
  <2> QED
    BY <2>1 DEF Has1019
<1>2. d.second \in Nat /\ 2 * d.second < Week
  BY EphemeridesAssumption
<1> QED
  BY <1>1, <1>2

\* PrepareToSolve finds the week of an epoch.
LEMMA EpochPlaced ==
    ASSUME NEW m \in Observations, NEW e, IsEpoch(e), Timed(m, e.t), NEW d, OfGps(d), Near(m, d),
           NEW p, p = PlaceWeek(e)
    PROVE  (p.week - m.week) * Week + p.t = m.tow
<1> DEFINE half == Week \div 2
           s == 2 * d.second
           mw == m.week
           tow == m.tow
           dw == d.week
           t == e.t
<1>1. Week \in Nat /\ half \in Nat /\ Week = 2 * half /\ half > 0 /\ ThreeHours \in Nat
      /\ 2 * ThreeHours < Week
  BY DEF Week, Day, DaySeconds, ThreeHours
<1>2. dw \in 2048..3071 /\ d.second \in Nat /\ s < Week
  BY GpsEphemeris DEF OfGps
<1>3. s \in Int /\ 0 <= s /\ s = d.second * 2
  BY <1>2
<1>4. mw \in Nat /\ tow \in 1..Week - 1
  BY ObservationsAssumption, Zenon
<1>5. tow \in Int /\ t \in Int /\ (t = tow \/ t = tow - Week) /\ -ThreeHours <= t /\ t <= Week - 2
  BY <1>1, <1>4 DEF Timed
<1>6. (mw - dw) * Week + (tow - s) < half /\ (mw - dw) * Week + (tow - s) > -half
  BY DEF Near, Apart
<1>7. current.week = dw /\ current.second = d.second
  BY DEF OfGps
<1>8. p = [e EXCEPT !.week = CASE s - t > half -> dw + 1
                               [] t - s > half -> dw - 1
                               [] OTHER -> dw]
  <2>1. ~(current.week <= 1024)
    BY <1>2, <1>7
  <2>2. p = [e EXCEPT !.week = CASE current.second * 2 - e.t > half -> current.week + 1
                                 [] e.t - current.second * 2 > half -> current.week - 1
                                 [] OTHER -> current.week]
    BY <2>1, Zenon DEF PlaceWeek
  <2>3. current.second * 2 = s
    BY <1>3, <1>7
  <2> QED
    BY <1>7, <2>2, <2>3, Zenon
<1> HIDE DEF half, s, mw, dw, t
<1>9. p.t = t /\ p.week = CASE s - t > half -> dw + 1
                            [] t - s > half -> dw - 1
                            [] OTHER -> dw
  <2>1. PICK week : week = CASE s - t > half -> dw + 1
                             [] t - s > half -> dw - 1
                             [] OTHER -> dw
    OBVIOUS
  <2>2. p = [e EXCEPT !.week = week]
    BY <1>8, <2>1, Zenon
  <2> QED
    BY <2>1, <2>2 DEF IsEpoch, t
<1>10. dw \in Int /\ mw \in Int
  BY <1>2, <1>4
<1>11. /\ s - t > half => ((dw + 1) - mw) * Week + t = tow
       /\ t - s > half => ((dw - 1) - mw) * Week + t = tow
       /\ ~(s - t > half) /\ ~(t - s > half) => (dw - mw) * Week + t = tow
  <2>1. s \in Int /\ 0 <= s /\ s < Week
    BY <1>2, <1>3
  <2> HIDE DEF tow
  <2>2. Beside(Week, half, ThreeHours, mw, tow, dw, s, t)
    BY <1>1, <1>5, <1>6, <1>10, <2>1, Zenon DEF Beside
  <2> QED
    BY <2>2, WeekFound
<1>12. (p.week - mw) * Week + p.t = tow
  <2>1. CASE s - t > half
    <3>1. p.week = dw + 1 /\ p.t = t
      BY <1>1, <1>3, <1>5, <1>9, <2>1
    <3> QED
      BY <1>11, <2>1, <3>1, Zenon
  <2>2. CASE t - s > half
    <3>1. p.week = dw - 1 /\ p.t = t
      BY <1>1, <1>3, <1>5, <1>9, <2>2
    <3> QED
      BY <1>11, <2>2, <3>1, Zenon
  <2>3. CASE ~(s - t > half) /\ ~(t - s > half)
    <3>1. p.week = dw /\ p.t = t
      BY <1>9, <2>3
    <3> QED
      BY <1>11, <2>3, <3>1, Zenon
  <2> QED
    BY <2>1, <2>2, <2>3
<1> QED
  BY <1>12 DEF mw

\* The base epoch is of the instant of m when an ephemeris d near it dates it.
InPlaceOf(p, m, d) == Near(m, d) => (p.week - m.week) * Week + p.t = m.tow

\* The epoch is of the time of the MSM held, and current of the last ephemeris from GPS.
TimeKept ==
    /\ IsEpoch(epoch) /\ held \in Seq(Observations)
    /\ held # <<>> => Timed(Last(held), epoch.t)
    /\ dated # <<>> => OfGps(dated)
    /\ heldLast # <<>> /\ datedLast # <<>> => InPlaceOf(baseLast, Last(heldLast), datedLast)

\* At first there is nothing.
LEMMA TimeInit == DecodeInit => TimeKept
<1> SUFFICES ASSUME DecodeInit PROVE TimeKept
  OBVIOUS
<1>1. epoch = Cleared /\ held = <<>> /\ dated = <<>> /\ heldLast = <<>>
  BY Zenon DEF DecodeInit
<1>2. IsEpoch(epoch) /\ held \in Seq(Observations)
  BY <1>1 DEF Cleared, IsEpoch
<1> QED
  BY <1>1, <1>2, Zenon DEF TimeKept

\* The MSM held after one more
LEMMA HeldWith ==
    ASSUME NEW m \in Observations, held \in Seq(Observations), NEW h, h = Holding(m)
    PROVE  /\ h \in Seq(Observations)
           /\ ~Fits(m) => h = held
           /\ Fits(m) => h # <<>> /\ Last(h) = m
<1>1. CASE ~Fits(m)
  <2>1. h = held
    BY <1>1, Zenon DEF Holding, Fits
  <2> QED
    BY <1>1, <2>1
<1>2. CASE Fits(m)
  <2>1. h = Append(held, m) \/ h = <<m>>
    BY <1>2, Zenon DEF Holding, Fits
  <2>2. CASE h = Append(held, m)
    <3>1. h \in Seq(Observations) /\ Len(h) = Len(held) + 1 /\ h[Len(held) + 1] = m /\ Len(held) \in Nat
      BY <2>2
    <3>2. h # <<>> /\ h[Len(h)] = m
      BY <3>1
    <3> QED
      BY <1>2, <3>1, <3>2, Zenon DEF Last
  <2>3. CASE h = <<m>>
    <3>1. h \in Seq(Observations) /\ h # <<>> /\ h[Len(h)] = m
      BY <2>3
    <3> QED
      BY <1>2, <3>1, Zenon DEF Last
  <2> QED
    BY <2>1, <2>2, <2>3
<1> QED
  BY <1>1, <1>2

\* An MSM
LEMMA TimeMsm ==
    ASSUME TimeKept, NEW m \in Observations, ParseMsm(m)
    PROVE  TimeKept'
<1>1. PICK any : LET decoded == DecodeAgain(m, any, epoch)
                 IN /\ IF decoded.res = 0 /\ coord # <<>>
                       THEN /\ baseLast' = PlaceWeek(decoded.epoch)
                            /\ heldLast' = Holding(m)
                            /\ datedLast' = dated
                            /\ epoch' = Cleared
                            /\ held' = <<>>
                       ELSE /\ epoch' = decoded.epoch
                            /\ held' = Holding(m)
                            /\ UNCHANGED <<baseLast, heldLast, datedLast>>
                    /\ UNCHANGED <<current, dated>>
  BY DEF ParseMsm
<1>2. PICK decoded : decoded = DecodeAgain(m, any, epoch)
  OBVIOUS
<1>3. PICK h : h = Holding(m)
  OBVIOUS
<1>4. IsEpoch(epoch) /\ held \in Seq(Observations) /\ (held # <<>> => Timed(Last(held), epoch.t))
  BY Zenon DEF TimeKept
<1>5. Comes(m, epoch, decoded)
  BY <1>2, <1>4, AgainComes
<1>6. h \in Seq(Observations) /\ (~Fits(m) => h = held) /\ (Fits(m) => h # <<>> /\ Last(h) = m)
  BY <1>3, <1>4, HeldWith
<1>7. IsEpoch(decoded.epoch) /\ (h # <<>> => Timed(Last(h), decoded.epoch.t))
  <2>1. CASE Fits(m)
    BY <1>5, <1>6, <2>1, Zenon DEF Comes
  <2>2. CASE ~Fits(m)
    BY <1>4, <1>5, <1>6, <2>2, Zenon DEF Comes
  <2> QED
    BY <2>1, <2>2
<1>8. OfGps(dated)' <=> OfGps(dated)
  BY <1>1, Zenon DEF OfGps
<1>9. dated' # <<>> => OfGps(dated)'
  BY <1>1, <1>8, Zenon DEF TimeKept
<1>10. CASE decoded.res = 0 /\ coord # <<>>
  <2>1. /\ baseLast' = PlaceWeek(decoded.epoch) /\ heldLast' = h /\ datedLast' = dated
        /\ epoch' = Cleared /\ held' = <<>>
    BY <1>1, <1>2, <1>3, <1>10
  <2>2. IsEpoch(epoch)' /\ (held \in Seq(Observations))' /\ (held # <<>> => Timed(Last(held), epoch.t))'
    BY <2>1 DEF Cleared, IsEpoch
  <2>3. ASSUME h # <<>>, dated # <<>> PROVE InPlaceOf(baseLast', Last(h), dated)
    <3>1. Last(h) \in Observations
      BY <1>6, <2>3 DEF Last
    <3>2. OfGps(dated)
      BY <2>3, Zenon DEF TimeKept
    <3>3. Timed(Last(h), decoded.epoch.t)
      BY <1>7, <2>3
    <3> QED
      BY <1>7, <2>1, <3>1, <3>2, <3>3, EpochPlaced, Zenon DEF InPlaceOf
  <2>4. (heldLast # <<>> /\ datedLast # <<>> => InPlaceOf(baseLast, Last(heldLast), datedLast))'
    BY <2>1, <2>3
  <2> QED
    BY <1>9, <2>2, <2>4, Zenon DEF TimeKept
<1>11. CASE ~(decoded.res = 0 /\ coord # <<>>)
  <2>1. epoch' = decoded.epoch /\ held' = h /\ UNCHANGED <<baseLast, heldLast, datedLast>>
    BY <1>1, <1>2, <1>3, <1>11
  <2>2. IsEpoch(epoch)' /\ (held \in Seq(Observations))' /\ (held # <<>> => Timed(Last(held), epoch.t))'
    BY <1>6, <1>7, <2>1
  <2>3. (heldLast # <<>> /\ datedLast # <<>> => InPlaceOf(baseLast, Last(heldLast), datedLast))'
    BY <2>1 DEF TimeKept
  <2> QED
    BY <1>9, <2>2, <2>3, Zenon DEF TimeKept
<1> QED
  BY <1>10, <1>11

\* An ephemeris
LEMMA TimeEphemeris ==
    ASSUME TimeKept, NEW m \in Ephemerides, ParseEphemeris(m)
    PROVE  TimeKept'
<1>1. PICK e : /\ Told(m, e)
               /\ current' = IF Gives(m, e) /\ ~Is1020(m) /\ e.id <= LastPrn[GPS]
                             THEN [week |-> e.week, second |-> e.second] ELSE current
               /\ dated' = IF Healthy(m) /\ Is1019(m) THEN m ELSE dated
               /\ UNCHANGED <<epoch, baseLast, held, heldLast, datedLast>>
  BY EphemerisParsed, Zenon
<1>2. CASE Healthy(m) /\ Is1019(m)
  <2>1. m.type = 1019 /\ e.type = 1019
    BY <1>1, <1>2 DEF Told, Is1019
  <2>2. ~LeapDay(e)
    BY <2>1 DEF LeapDay
  <2>3. e.week = m.week /\ e.second = m.second
    BY <1>1, <2>1, <2>2 DEF Told, InTime
  <2>4. Gives(m, e) /\ ~Is1020(m) /\ e.id <= LastPrn[GPS]
    BY <1>1, <1>2, Zenon DEF Told
  <2>5. OfGps(dated)'
    BY <1>1, <1>2, <2>3, <2>4 DEF OfGps
  <2> QED
    BY <1>1, <2>5 DEF TimeKept
<1>3. CASE ~(Healthy(m) /\ Is1019(m))
  <2>1. ~(Gives(m, e) /\ ~Is1020(m) /\ e.id <= LastPrn[GPS])
    <3>1. SUFFICES ASSUME Gives(m, e), ~Is1020(m), e.id <= LastPrn[GPS] PROVE FALSE
      OBVIOUS
    <3>2. Is1019(m) /\ (Healthy(m) \/ IllUnseen(e))
      BY <1>1, <3>1, Zenon DEF Told
    <3>3. ~IllUnseen(e)
      BY <1>1, <3>2 DEF Told, IllUnseen, Is1019
    <3> QED
      BY <1>3, <3>2, <3>3
  <2>2. UNCHANGED <<current, dated>>
    BY <1>1, <1>3, <2>1, Zenon
  <2> QED
    BY <1>1, <2>2 DEF TimeKept, OfGps
<1> QED
  BY <1>2, <1>3

\* Any step
LEMMA TimeNext == TimeKept /\ [DecodeNext]_decodeVars => TimeKept'
<1> SUFFICES ASSUME TimeKept, [DecodeNext]_decodeVars PROVE TimeKept'
  OBVIOUS
<1>1. CASE \E m \in Observations : ParseMsm(m)
  BY <1>1, TimeMsm, Zenon
<1>2. CASE \E m \in Ephemerides : ParseEphemeris(m)
  BY <1>2, TimeEphemeris, Zenon
<1>3. CASE UNCHANGED decodeVars \/ \E c \in Coordinates : ParseCoordinate(c)
  <2>1. UNCHANGED <<epoch, held, current, dated, baseLast, heldLast, datedLast>>
    BY <1>3 DEF decodeVars, ParseCoordinate
  <2> QED
    BY <2>1 DEF TimeKept, OfGps
<1> QED
  BY <1>1, <1>2, <1>3, Zenon DEF DecodeNext

\* Week and time of the base epoch are those of its messages, over the turn of the week too:
\* decode_msm_head, decode_type1019, SendEphemerisToQRtk and the choice of the week in
\* PrepareToSolve.
THEOREM PlacedRight == DecodeSpec => []PlacedInTime
<1>1. TimeKept => PlacedInTime
  BY Zenon DEF TimeKept, PlacedInTime, InPlaceOf, Near, Apart
<1> QED
  BY <1>1, TimeInit, TimeNext, PTL DEF DecodeSpec

-----------------------------------------------------------------------------
(* What cells ask for.                                                      *)

Spoken == Observations \X ((1..64) \X (1..32))

\* A cell that was sent has the number of a satellite.
LEMMA IdIs == ASSUME NEW x \in Spoken PROVE Id(x) \in Int
<1>1. PICK m \in Observations, s \in 1..64, g \in 1..32 : x = <<m, <<s, g>>>>
  BY DEF Spoken
<1>2. m.sys \in System
  BY ObservationsAssumption
<1>3. x[1] = m /\ x[2][1] = s
  BY <1>1
<1>4. FirstPrn[m.sys] \in Int
  BY <1>2 DEF FirstPrn, System, GPS, GLO, GAL, BDS
<1> QED
  BY <1>3, <1>4 DEF Id

\* Places have a greatest.
LEMMA Greatest ==
    ASSUME NEW n \in Nat, NEW S \in SUBSET (1..n), S # {}
    PROVE  /\ Newest(S) \in S /\ \A q \in S : q <= Newest(S)
           /\ \A p \in S : (\A q \in S : q <= p) => p = Newest(S)
<1> DEFINE T == {n - p : p \in S}
<1>0. \A p \in S : n - p \in Nat
  OBVIOUS
<1>1. T \in SUBSET Nat /\ T # {}
  BY <1>0
<1>2. PICK t \in T : \A u \in T : t <= u
  <2> HIDE DEF T
  <2> QED
    BY <1>1, LeastNat
<1>3. PICK p \in S : t = n - p
  OBVIOUS
<1>4. \A q \in S : q <= p
  <2> SUFFICES ASSUME NEW q \in S PROVE q <= p
    OBVIOUS
  <2>1. n - q \in T
    OBVIOUS
  <2>2. t <= n - q
    BY <1>2, <2>1
  <2> QED
    BY <1>3, <2>2
<1>5. Newest(S) \in S /\ \A q \in S : q <= Newest(S)
  BY <1>4, Zenon DEF Newest
<1>6. ASSUME NEW r \in S, \A q \in S : q <= r PROVE r = Newest(S)
  <2>1. PICK z \in S : z = Newest(S)
    BY <1>5
  <2>2. r <= z /\ z <= r
    BY <1>5, <1>6, <2>1
  <2>3. r \in Int /\ z \in Int
    OBVIOUS
  <2> QED
    BY <2>1, <2>2, <2>3
<1> QED
  BY <1>5, <1>6

\* p is the place of the first cell of a satellite.
IsFirst(cells, id, p) ==
    p \in 1..Len(cells) /\ Id(cells[p]) = id /\ \A q \in 1..Len(cells) : Id(cells[q]) = id => p <= q

\* There is one.
LEMMA FirstIs ==
    ASSUME NEW cells, Len(cells) \in Nat, NEW id
    PROVE  /\ id \in Ids(cells) => IsFirst(cells, id, FirstOf(cells, id))
           /\ \A p : IsFirst(cells, id, p) => p = FirstOf(cells, id)
<1>1. ASSUME id \in Ids(cells) PROVE \E p : IsFirst(cells, id, p)
  <2> DEFINE S == {p \in 1..Len(cells) : Id(cells[p]) = id}
  <2>1. S \in SUBSET Nat /\ S # {}
    BY <1>1 DEF Ids
  <2>2. PICK p \in S : \A q \in S : p <= q
    <3> HIDE DEF S
    <3> QED
      BY <2>1, LeastNat
  <2> QED
    BY <2>2 DEF IsFirst
<1>2. ASSUME NEW p, IsFirst(cells, id, p) PROVE IsFirst(cells, id, FirstOf(cells, id))
  BY <1>2, Zenon DEF IsFirst, FirstOf
<1>3. ASSUME NEW p, IsFirst(cells, id, p) PROVE p = FirstOf(cells, id)
  <2>1. IsFirst(cells, id, FirstOf(cells, id))
    BY <1>2, <1>3
  <2>2. PICK f : f = FirstOf(cells, id)
    OBVIOUS
  <2>3. IsFirst(cells, id, f)
    BY <2>1, <2>2
  <2>4. p <= f /\ f <= p /\ p \in 1..Len(cells) /\ f \in 1..Len(cells)
    BY <1>3, <2>3, Zenon DEF IsFirst
  <2> QED
    BY <2>2, <2>4
<1> QED
  BY <1>1, <1>2, <1>3, Zenon

\* d is cells with x behind them.
With(d, cells, n, x) ==
    /\ n \in Nat /\ Len(cells) = n /\ Len(d) = n + 1 /\ d[n + 1] = x
    /\ \A p \in 1..n : d[p] = cells[p]

\* Append is that.
LEMMA AppendIsWith ==
    ASSUME NEW cells \in Seq(Spoken), NEW x \in Spoken
    PROVE  /\ With(Append(cells, x), cells, Len(cells), x) /\ Append(cells, x) \in Seq(Spoken)
           /\ \A p \in 1..Len(cells) : cells[p] \in Spoken
BY DEF With

\* The satellites of one cell more
LEMMA IdsNext ==
    ASSUME NEW d, NEW cells, NEW n, NEW x, With(d, cells, n, x)
    PROVE  Ids(d) = Ids(cells) \union {Id(x)}
<1>1. n \in Nat /\ Len(cells) = n /\ Len(d) = n + 1 /\ d[n + 1] = x /\ \A p \in 1..n : d[p] = cells[p]
  BY Zenon DEF With
<1>2. 1..(n + 1) = (1..n) \union {n + 1}
  BY <1>1
<1>3. Ids(d) = {Id(d[p]) : p \in 1..(n + 1)} /\ Ids(cells) = {Id(cells[p]) : p \in 1..n}
  BY <1>1, Zenon DEF Ids
<1>4. \A p \in 1..n : Id(d[p]) = Id(cells[p])
  BY <1>1, Zenon
<1>5. ASSUME NEW id \in Ids(d) PROVE id \in Ids(cells) \union {Id(x)}
  <2>1. PICK p \in 1..(n + 1) : id = Id(d[p])
    BY <1>3, <1>5, Zenon
  <2>2. CASE p = n + 1
    BY <1>1, <2>1, <2>2, Zenon
  <2>3. CASE p \in 1..n
    BY <1>3, <1>4, <2>1, <2>3, Zenon
  <2> QED
    BY <1>2, <2>2, <2>3
<1>6. ASSUME NEW id \in Ids(cells) \union {Id(x)} PROVE id \in Ids(d)
  BY <1>1, <1>2, <1>3, <1>4, <1>6, ZenonT(60)
<1> QED
  BY <1>5, <1>6, Zenon

\* Where they come first
LEMMA FirstNext ==
    ASSUME NEW d, NEW cells, NEW n, NEW x, With(d, cells, n, x)
    PROVE  /\ \A id \in Ids(cells) : FirstOf(d, id) = FirstOf(cells, id) /\ FirstOf(d, id) \in 1..n
           /\ Id(x) \notin Ids(cells) => FirstOf(d, Id(x)) = n + 1
<1>1. n \in Nat /\ Len(cells) = n /\ Len(d) = n + 1 /\ d[n + 1] = x /\ \A p \in 1..n : d[p] = cells[p]
  BY Zenon DEF With
<1>2. ASSUME NEW id \in Ids(cells)
      PROVE  FirstOf(d, id) = FirstOf(cells, id) /\ FirstOf(d, id) \in 1..n
  <2>1. PICK f : f = FirstOf(cells, id)
    OBVIOUS
  <2>2. IsFirst(cells, id, f)
    BY <1>1, <2>1, FirstIs
  <2>3. f \in 1..n /\ Id(cells[f]) = id /\ \A q \in 1..n : Id(cells[q]) = id => f <= q
    BY <1>1, <2>2, Zenon DEF IsFirst
  <2>4. f \in 1..(n + 1) /\ Id(d[f]) = id
    BY <1>1, <2>3
  <2>5. ASSUME NEW q \in 1..(n + 1), Id(d[q]) = id PROVE f <= q
    <3>1. CASE q = n + 1
      BY <1>1, <2>3, <3>1
    <3>2. CASE q \in 1..n
      <4>1. Id(cells[q]) = id
        BY <1>1, <2>5, <3>2, Zenon
      <4> QED
        BY <2>3, <3>2, <4>1
    <3> QED
      BY <1>1, <3>1, <3>2
  <2>6. IsFirst(d, id, f)
    BY <1>1, <2>4, <2>5, Zenon DEF IsFirst
  <2>7. f = FirstOf(d, id)
    <3>1. Len(d) \in Nat
      BY <1>1
    <3> QED
      BY <2>6, <3>1, FirstIs, Zenon
  <2> QED
    BY <2>1, <2>3, <2>7
<1>3. ASSUME Id(x) \notin Ids(cells) PROVE FirstOf(d, Id(x)) = n + 1
  <2>1. \A q \in 1..n : Id(cells[q]) # Id(x)
    BY <1>1, <1>3 DEF Ids
  <2>2. n + 1 \in 1..(n + 1) /\ Id(d[n + 1]) = Id(x)
    BY <1>1
  <2>3. ASSUME NEW q \in 1..(n + 1), Id(d[q]) = Id(x) PROVE n + 1 <= q
    <3>1. CASE q = n + 1
      BY <1>1, <3>1
    <3>2. CASE q \in 1..n
      <4>1. Id(cells[q]) = Id(x)
        BY <1>1, <2>3, <3>2, Zenon
      <4> QED
        BY <2>1, <3>2, <4>1
    <3> QED
      BY <1>1, <3>1, <3>2
  <2>4. IsFirst(d, Id(x), n + 1)
    BY <1>1, <2>2, <2>3, Zenon DEF IsFirst
  <2>5. Len(d) \in Nat
    BY <1>1
  <2> QED
    BY <2>4, <2>5, FirstIs, Zenon
<1> QED
  BY <1>2, <1>3

\* x is of a satellite in a band.
SpeaksOf(x, id, b) == Id(x) = id /\ x[2][2] \in Signals[x[1].sys][b]

\* The places with one cell more
LEMMA InBandNext ==
    ASSUME NEW d, NEW cells, NEW n, NEW x, With(d, cells, n, x), NEW id, NEW b
    PROVE  /\ InBand(cells, id, b) \in SUBSET (1..n) /\ Rated(cells, id, b) \in SUBSET (1..n)
           /\ InBand(d, id, b) = InBand(cells, id, b) \union (IF SpeaksOf(x, id, b) THEN {n + 1} ELSE {})
           /\ Rated(d, id, b) = Rated(cells, id, b)
                \union (IF SpeaksOf(x, id, b) /\ x[1].kind = 7 THEN {n + 1} ELSE {})
<1>1. n \in Nat /\ Len(cells) = n /\ Len(d) = n + 1 /\ d[n + 1] = x /\ \A p \in 1..n : d[p] = cells[p]
  BY Zenon DEF With
<1>2. InBand(cells, id, b) = {p \in 1..n : SpeaksOf(cells[p], id, b)}
  BY <1>1, Zenon DEF InBand, SpeaksOf
<1>3. InBand(d, id, b) = {p \in 1..(n + 1) : SpeaksOf(d[p], id, b)}
  BY <1>1, Zenon DEF InBand, SpeaksOf
<1>4. \A p : p \in 1..(n + 1) <=> p \in 1..n \/ p = n + 1
  BY <1>1
<1>5. n + 1 \notin 1..n
  BY <1>1
<1>6. ASSUME NEW p
      PROVE  p \in InBand(d, id, b) <=> p \in InBand(cells, id, b) \/ (p = n + 1 /\ SpeaksOf(x, id, b))
  <2>1. CASE p = n + 1
    BY <1>1, <1>2, <1>3, <1>4, <1>5, <2>1, Zenon
  <2>2. CASE p # n + 1
    BY <1>1, <1>2, <1>3, <1>4, <2>2, Zenon
  <2> QED
    BY <2>1, <2>2
<1>7. ASSUME NEW p
      PROVE  p \in Rated(d, id, b) <=>
                p \in Rated(cells, id, b) \/ (p = n + 1 /\ SpeaksOf(x, id, b) /\ x[1].kind = 7)
  <2>1. CASE p = n + 1
    <3>1. p \notin InBand(cells, id, b) /\ d[p] = x
      BY <1>1, <1>2, <1>5, <2>1, Zenon
    <3> QED
      BY <1>6, <2>1, <3>1, Zenon DEF Rated
  <2>2. CASE p # n + 1
    <3>1. p \in InBand(cells, id, b) => d[p] = cells[p]
      BY <1>1, <1>2, Zenon
    <3> QED
      BY <1>6, <2>2, <3>1, Zenon DEF Rated
  <2> QED
    BY <2>1, <2>2
<1>8. InBand(cells, id, b) \in SUBSET (1..n) /\ Rated(cells, id, b) \in SUBSET (1..n)
  BY <1>2, Zenon DEF Rated
<1> QED
  BY <1>6, <1>7, <1>8

\* The newest of some places and one behind them all
LEMMA NewestNext ==
    ASSUME NEW n \in Nat, NEW S \in SUBSET (1..n)
    PROVE  Newest(S \union {n + 1}) = n + 1 /\ (S # {} => Newest(S) \in 1..n)
<1>1. S \union {n + 1} \in SUBSET (1..(n + 1)) /\ S \union {n + 1} # {} /\ n + 1 \in Nat
  OBVIOUS
<1>2. \A q \in S \union {n + 1} : q <= n + 1
  OBVIOUS
<1>3. n + 1 = Newest(S \union {n + 1})
  <2>1. PICK T : T = S \union {n + 1}
    OBVIOUS
  <2>2. \A p \in T : (\A q \in T : q <= p) => p = Newest(T)
    BY <1>1, <2>1, Greatest
  <2>3. n + 1 \in T
    BY <2>1
  <2> QED
    BY <1>2, <2>1, <2>2, <2>3, Zenon
<1>4. S # {} => Newest(S) \in S
  BY Greatest
<1> QED
  BY <1>3, <1>4

\* What was said last, with one cell more
LEMMA LastSaidNext ==
    ASSUME NEW d, NEW cells, NEW n, NEW x, With(d, cells, n, x), NEW id, NEW b
    PROVE  /\ LastSaid(d, id, b) = IF SpeaksOf(x, id, b) THEN Said(x[1], x[2]) ELSE LastSaid(cells, id, b)
           /\ LastRate(d, id, b) = IF SpeaksOf(x, id, b) /\ x[1].kind = 7 THEN Rate(x[1], x[2])
                                   ELSE LastRate(cells, id, b)
<1>1. n \in Nat /\ d[n + 1] = x /\ \A p \in 1..n : d[p] = cells[p]
  BY Zenon DEF With
<1>2. PICK S, T : S = InBand(cells, id, b) /\ T = Rated(cells, id, b)
  OBVIOUS
<1>3. PICK U, V : U = InBand(d, id, b) /\ V = Rated(d, id, b)
  OBVIOUS
<1>4. /\ S \in SUBSET (1..n) /\ T \in SUBSET (1..n)
      /\ U = S \union (IF SpeaksOf(x, id, b) THEN {n + 1} ELSE {})
      /\ V = T \union (IF SpeaksOf(x, id, b) /\ x[1].kind = 7 THEN {n + 1} ELSE {})
  BY <1>2, <1>3, InBandNext
<1>5. /\ Newest(S \union {n + 1}) = n + 1 /\ (S # {} => Newest(S) \in 1..n)
      /\ Newest(T \union {n + 1}) = n + 1 /\ (T # {} => Newest(T) \in 1..n)
  BY <1>1, <1>4, NewestNext
<1>6. /\ LastSaid(d, id, b) = IF U = {} THEN NoObs ELSE Said(d[Newest(U)][1], d[Newest(U)][2])
      /\ LastRate(d, id, b) = IF V = {} THEN NoObs ELSE Rate(d[Newest(V)][1], d[Newest(V)][2])
      /\ LastSaid(cells, id, b) = IF S = {} THEN NoObs ELSE Said(cells[Newest(S)][1], cells[Newest(S)][2])
      /\ LastRate(cells, id, b) = IF T = {} THEN NoObs ELSE Rate(cells[Newest(T)][1], cells[Newest(T)][2])
  BY <1>2, <1>3, Zenon DEF LastSaid, LastRate
<1>9. /\ S # {} => d[Newest(S)] = cells[Newest(S)]
      /\ T # {} => d[Newest(T)] = cells[Newest(T)]
  BY <1>1, <1>5, Zenon
<1>7. CASE SpeaksOf(x, id, b)
  <2>1. U = S \union {n + 1} /\ U # {}
    BY <1>4, <1>7
  <2>2. LastSaid(d, id, b) = Said(x[1], x[2])
    BY <1>1, <1>5, <1>6, <2>1, Zenon
  <2> QED
    <3>1. CASE x[1].kind = 7
      <4>1. V = T \union {n + 1} /\ V # {}
        BY <1>4, <1>7, <3>1
      <4>2. LastRate(d, id, b) = Rate(x[1], x[2])
        BY <1>1, <1>5, <1>6, <4>1, Zenon
      <4> QED
        BY <1>7, <2>2, <3>1, <4>2
    <3>2. CASE x[1].kind # 7
      <4>1. V = T
        BY <1>4, <3>2
      <4>2. LastRate(d, id, b) = LastRate(cells, id, b)
        BY <1>6, <1>9, <4>1
      <4> QED
        BY <1>7, <2>2, <3>2, <4>2
    <3> QED
      BY <3>1, <3>2
<1>8. CASE ~SpeaksOf(x, id, b)
  <2>1. U = S /\ V = T
    BY <1>4, <1>8
  <2>2. LastSaid(d, id, b) = LastSaid(cells, id, b) /\ LastRate(d, id, b) = LastRate(cells, id, b)
    BY <1>6, <1>9, <2>1
  <2> QED
    BY <1>8, <2>2
<1> QED
  BY <1>7, <1>8

-----------------------------------------------------------------------------
(* The slots of an epoch, cell by cell.                                     *)

\* The slot that cells ask for, for a satellite
AskedSlot(id, cells) ==
    [id |-> id, l1 |-> LastSaid(cells, id, 1), l2 |-> LastSaid(cells, id, 2),
     d1 |-> LastRate(cells, id, 1), d2 |-> LastRate(cells, id, 2)]

\* A slot with what a cell says
Filled(s, x) ==
    [id |-> s.id,
     l1 |-> IF SpeaksOf(x, s.id, 1) THEN Said(x[1], x[2]) ELSE s.l1,
     l2 |-> IF SpeaksOf(x, s.id, 2) THEN Said(x[1], x[2]) ELSE s.l2,
     d1 |-> IF SpeaksOf(x, s.id, 1) /\ x[1].kind = 7 THEN Rate(x[1], x[2]) ELSE s.d1,
     d2 |-> IF SpeaksOf(x, s.id, 2) /\ x[1].kind = 7 THEN Rate(x[1], x[2]) ELSE s.d2]

\* The slot that one cell more asks for
LEMMA AskedNext ==
    ASSUME NEW d, NEW cells, NEW n, NEW x, With(d, cells, n, x), NEW id
    PROVE  /\ AskedSlot(id, d) = Filled(AskedSlot(id, cells), x)
           /\ id # Id(x) => AskedSlot(id, d) = AskedSlot(id, cells)
<1>1. \A b : /\ LastSaid(d, id, b) = IF SpeaksOf(x, id, b) THEN Said(x[1], x[2]) ELSE LastSaid(cells, id, b)
             /\ LastRate(d, id, b) = IF SpeaksOf(x, id, b) /\ x[1].kind = 7 THEN Rate(x[1], x[2])
                                     ELSE LastRate(cells, id, b)
  BY LastSaidNext
<1>2. AskedSlot(id, d) = Filled(AskedSlot(id, cells), x)
  BY <1>1 DEF AskedSlot, Filled
<1>3. ASSUME id # Id(x) PROVE AskedSlot(id, d) = AskedSlot(id, cells)
  <2>1. \A b : ~SpeaksOf(x, id, b)
    BY <1>3 DEF SpeaksOf
  <2> QED
    BY <1>1, <2>1 DEF AskedSlot
<1> QED
  BY <1>2, <1>3

\* Of a satellite without cells nothing was said.
LEMMA AskedFirst ==
    ASSUME NEW cells, NEW id, id \notin Ids(cells)
    PROVE  AskedSlot(id, cells) = Slot(id)
<1>1. \A b : InBand(cells, id, b) = {} /\ Rated(cells, id, b) = {}
  BY DEF InBand, Rated, Ids
<1>2. \A b : LastSaid(cells, id, b) = NoObs /\ LastRate(cells, id, b) = NoObs
  BY <1>1 DEF LastSaid, LastRate
<1> QED
  BY <1>2 DEF AskedSlot, Slot

\* AsAsked in its parts
AskedParts(slots, cells, l) ==
    /\ l \in Nat /\ Len(slots) = l /\ l <= MaxSat
    /\ \A k \in 1..l : slots[k].id \in Ids(cells) /\ slots[k] = AskedSlot(slots[k].id, cells)
    /\ \A i, k \in 1..l : i < k => FirstOf(cells, slots[i].id) < FirstOf(cells, slots[k].id)
    /\ \A id \in Ids(cells) :
        \/ \E k \in 1..l : slots[k].id = id
        \/ l = MaxSat /\ \A k \in 1..l : FirstOf(cells, slots[k].id) < FirstOf(cells, id)

\* They are that.
LEMMA AskedIsParts ==
    ASSUME NEW slots, NEW cells, NEW l \in Nat, Len(slots) = l
    PROVE  AskedParts(slots, cells, l) <=> AsAsked(slots, cells)
<1>1. (\A k \in 1..Len(slots) :
          LET id == slots[k].id
          IN /\ id \in Ids(cells)
             /\ slots[k] = [id |-> id, l1 |-> LastSaid(cells, id, 1), l2 |-> LastSaid(cells, id, 2),
                            d1 |-> LastRate(cells, id, 1), d2 |-> LastRate(cells, id, 2)])
      <=> \A k \in 1..l : slots[k].id \in Ids(cells) /\ slots[k] = AskedSlot(slots[k].id, cells)
  BY Zenon DEF AskedSlot
<1>2. ASSUME NEW id
      PROVE  (Len(slots) = MaxSat /\ \A k \in 1..MaxSat : FirstOf(cells, slots[k].id) < FirstOf(cells, id))
             <=> (l = MaxSat /\ \A k \in 1..l : FirstOf(cells, slots[k].id) < FirstOf(cells, id))
  OBVIOUS
<1>3. (\A id \in Ids(cells) :
          \/ \E k \in 1..Len(slots) : slots[k].id = id
          \/ Len(slots) = MaxSat /\ \A k \in 1..MaxSat : FirstOf(cells, slots[k].id) < FirstOf(cells, id))
      <=> \A id \in Ids(cells) :
          \/ \E k \in 1..l : slots[k].id = id
          \/ l = MaxSat /\ \A k \in 1..l : FirstOf(cells, slots[k].id) < FirstOf(cells, id)
  BY <1>2, Zenon
<1> QED
  BY <1>1, <1>3, Zenon DEF AsAsked, AskedParts

\* The slots t, which were slots before a cell was put there
InSlots(slots, l, id) == \E k \in 1..l : slots[k].id = id
PutInto(slots, l, x, t) ==
    \/ \E k \in 1..l : slots[k].id = Id(x) /\ t = [slots EXCEPT ![k] = Filled(slots[k], x)]
    \/ ~InSlots(slots, l, Id(x)) /\ l < MaxSat /\ t = Append(slots, Filled(Slot(Id(x)), x))
    \/ ~InSlots(slots, l, Id(x)) /\ l = MaxSat /\ t = slots

IsRow(s, l) == l \in Nat /\ Len(s) = l /\ \E S : s \in Seq(S)

\* The satellites of the slots are different.
LEMMA Different ==
    ASSUME NEW slots, NEW cells, NEW l, AskedParts(slots, cells, l),
           NEW i \in 1..l, NEW k \in 1..l, slots[i].id = slots[k].id, Len(cells) \in Nat
    PROVE  i = k
<1>1. \A id \in Ids(cells) : FirstOf(cells, id) \in Int
  <2> SUFFICES ASSUME NEW id \in Ids(cells) PROVE FirstOf(cells, id) \in Int
    OBVIOUS
  <2>1. IsFirst(cells, id, FirstOf(cells, id))
    BY FirstIs
  <2>2. FirstOf(cells, id) \in 1..Len(cells)
    BY <2>1 DEF IsFirst
  <2> QED
    BY <2>2
<1>2. PICK f : f = FirstOf(cells, slots[i].id) /\ f = FirstOf(cells, slots[k].id)
  OBVIOUS
<1>3. f \in Int
  BY <1>1, <1>2 DEF AskedParts
<1>4. ~(i < k) /\ ~(k < i)
  <2>1. ASSUME i < k PROVE FALSE
    <3>1. f < f
      BY <1>2, <2>1, Zenon DEF AskedParts
    <3> QED
      BY <1>3, <3>1
  <2>2. ASSUME k < i PROVE FALSE
    <3>1. f < f
      BY <1>2, <2>2, Zenon DEF AskedParts
    <3> QED
      BY <1>3, <3>1
  <2> QED
    BY <2>1, <2>2
<1>5. i \in Int /\ k \in Int
  BY DEF AskedParts
<1> QED
  BY <1>4, <1>5

\* The slots are as asked after a cell when they were before.
LEMMA SlotNext ==
    ASSUME NEW slots, NEW l, IsRow(slots, l), NEW cells, NEW d, NEW n, NEW x, With(d, cells, n, x),
           AskedParts(slots, cells, l), NEW t, PutInto(slots, l, x, t)
    PROVE  \E j \in {l, l + 1} : /\ IsRow(t, j) /\ AskedParts(t, d, j)
                                 /\ j = l + 1 <=> ~InSlots(slots, l, Id(x)) /\ l < MaxSat
<1>1. /\ l \in Nat /\ Len(slots) = l /\ l <= MaxSat
      /\ \A k \in 1..l : slots[k].id \in Ids(cells) /\ slots[k] = AskedSlot(slots[k].id, cells)
      /\ \A i, k \in 1..l : i < k => FirstOf(cells, slots[i].id) < FirstOf(cells, slots[k].id)
      /\ \A id \in Ids(cells) :
          \/ \E k \in 1..l : slots[k].id = id
          \/ l = MaxSat /\ \A k \in 1..l : FirstOf(cells, slots[k].id) < FirstOf(cells, id)
  BY Zenon DEF AskedParts
<1>2. PICK S : slots \in Seq(S)
  BY DEF IsRow
<1>3. n \in Nat /\ Len(cells) = n /\ d[n + 1] = x
  BY Zenon DEF With
<1>4. Ids(d) = Ids(cells) \union {Id(x)}
  BY IdsNext
<1>5. /\ \A id \in Ids(cells) : FirstOf(d, id) = FirstOf(cells, id) /\ FirstOf(d, id) \in 1..n
      /\ Id(x) \notin Ids(cells) => FirstOf(d, Id(x)) = n + 1
  BY FirstNext
<1>6. \A id : /\ AskedSlot(id, d) = Filled(AskedSlot(id, cells), x)
              /\ id # Id(x) => AskedSlot(id, d) = AskedSlot(id, cells)
  BY AskedNext
<1>7. MaxSat \in Nat
  BY DecodeAssumption
<1>8. CASE InSlots(slots, l, Id(x))
  <2>1. PICK j \in 1..l : slots[j].id = Id(x) /\ t = [slots EXCEPT ![j] = Filled(slots[j], x)]
    BY <1>8, Zenon DEF PutInto
  <2>2. Len(t) = l /\ (\A k \in 1..l : k # j => t[k] = slots[k]) /\ t[j] = Filled(slots[j], x)
    BY <1>1, <1>2, <2>1
  <2>3. IsRow(t, l)
    <3>1. PICK v : v = Filled(slots[j], x)
      OBVIOUS
    <3>2. slots \in Seq(S \union {v}) /\ j \in 1..Len(slots)
      BY <1>1, <1>2
    <3>3. t \in Seq(S \union {v})
      BY <2>1, <3>1, <3>2, ExceptSeq, Zenon
    <3> QED
      BY <1>1, <2>2, <3>3 DEF IsRow
  <2>4. \A k \in 1..l : t[k].id = slots[k].id /\ t[k] = AskedSlot(slots[k].id, d)
    <3> SUFFICES ASSUME NEW k \in 1..l PROVE t[k].id = slots[k].id /\ t[k] = AskedSlot(slots[k].id, d)
      OBVIOUS
    <3>1. CASE k = j
      <4>1. t[k] = AskedSlot(slots[k].id, d)
        <5>1. t[j] = Filled(AskedSlot(slots[j].id, cells), x)
          BY <1>1, <2>1, <2>2
        <5> QED
          BY <1>6, <3>1, <5>1
      <4> QED
        BY <4>1 DEF AskedSlot
    <3>2. CASE k # j
      <4>1. slots[k].id # Id(x)
        BY <1>3, <2>1, <3>2, Different
      <4> QED
        BY <1>1, <1>6, <2>2, <3>2, <4>1
    <3> QED
      BY <3>1, <3>2
  <2>5. Ids(d) = Ids(cells)
    BY <1>1, <1>4, <2>1
  <2>6. \A k \in 1..l : t[k].id \in Ids(d) /\ t[k] = AskedSlot(t[k].id, d)
    BY <1>1, <2>4, <2>5, Zenon
  <2>7. \A i, k \in 1..l : i < k => FirstOf(d, t[i].id) < FirstOf(d, t[k].id)
    BY <1>1, <1>5, <2>4
  <2>8. ASSUME NEW id \in Ids(d)
        PROVE  \/ \E k \in 1..l : t[k].id = id
               \/ l = MaxSat /\ \A k \in 1..l : FirstOf(d, t[k].id) < FirstOf(d, id)
    <3>1. \/ \E k \in 1..l : slots[k].id = id
          \/ l = MaxSat /\ \A k \in 1..l : FirstOf(cells, slots[k].id) < FirstOf(cells, id)
      BY <1>1, <2>5, <2>8, Zenon
    <3>2. CASE \E k \in 1..l : slots[k].id = id
      BY <2>4, <3>2
    <3>3. CASE l = MaxSat /\ \A k \in 1..l : FirstOf(cells, slots[k].id) < FirstOf(cells, id)
      BY <1>1, <1>5, <2>4, <2>5, <2>8, <3>3
    <3> QED
      BY <3>1, <3>2, <3>3
  <2>9. AskedParts(t, d, l)
    BY <1>1, <2>2, <2>6, <2>7, <2>8, Zenon DEF AskedParts
  <2> QED
    BY <1>1, <1>8, <2>3, <2>9
<1>9. CASE ~InSlots(slots, l, Id(x)) /\ l < MaxSat
  <2>1. t = Append(slots, Filled(Slot(Id(x)), x))
    BY <1>1, <1>7, <1>9 DEF PutInto, InSlots
  <2>2. /\ Len(t) = l + 1 /\ (\A k \in 1..l : t[k] = slots[k]) /\ t[l + 1] = Filled(Slot(Id(x)), x)
        /\ t \in Seq(S \union {Filled(Slot(Id(x)), x)})
    BY <1>1, <1>2, <2>1
  <2>3. IsRow(t, l + 1)
    BY <1>1, <2>2 DEF IsRow
  <2>4. Id(x) \notin Ids(cells)
    <3>1. l # MaxSat
      BY <1>1, <1>7, <1>9
    <3> QED
      BY <1>1, <1>9, <3>1, Zenon DEF InSlots
  <2>5. t[l + 1] = AskedSlot(Id(x), d) /\ t[l + 1].id = Id(x)
    <3>1. Slot(Id(x)) = AskedSlot(Id(x), cells)
      BY <2>4, AskedFirst
    <3>2. t[l + 1] = AskedSlot(Id(x), d)
      BY <1>6, <2>2, <3>1
    <3> QED
      BY <3>2 DEF AskedSlot
  <2>6. \A k \in 1..l : t[k].id = slots[k].id /\ t[k] = AskedSlot(slots[k].id, d)
    BY <1>1, <1>6, <1>9, <2>2, Zenon DEF InSlots
  <2>7. 1..(l + 1) = (1..l) \union {l + 1} /\ l + 1 \in Nat /\ l + 1 <= MaxSat
    BY <1>1, <1>7, <1>9
  <2>8. \A k \in 1..(l + 1) : t[k].id \in Ids(d) /\ t[k] = AskedSlot(t[k].id, d)
    <3> SUFFICES ASSUME NEW k \in 1..(l + 1) PROVE t[k].id \in Ids(d) /\ t[k] = AskedSlot(t[k].id, d)
      OBVIOUS
    <3>1. CASE k = l + 1
      BY <1>4, <2>5, <3>1
    <3>2. CASE k \in 1..l
      BY <1>1, <1>4, <2>6, <3>2
    <3> QED
      BY <2>7, <3>1, <3>2
  <2>9. \A k \in 1..l : FirstOf(d, t[k].id) \in 1..n /\ FirstOf(d, t[k].id) = FirstOf(cells, slots[k].id)
    BY <1>1, <1>5, <2>6, Zenon
  <2>10. FirstOf(d, t[l + 1].id) = n + 1
    BY <1>5, <2>4, <2>5
  <2>11. ASSUME NEW i \in 1..(l + 1), NEW k \in 1..(l + 1), i < k
         PROVE  FirstOf(d, t[i].id) < FirstOf(d, t[k].id)
    <3>1. i \in 1..l
      BY <1>1, <2>11
    <3>2. CASE k = l + 1
      BY <1>3, <2>9, <2>10, <3>1, <3>2
    <3>3. CASE k \in 1..l
      BY <1>1, <2>9, <2>11, <3>1, <3>3
    <3> QED
      BY <2>7, <3>2, <3>3
  <2>12. ASSUME NEW id \in Ids(d) PROVE \E k \in 1..(l + 1) : t[k].id = id
    <3>1. CASE id = Id(x)
      BY <2>5, <2>7, <3>1
    <3>2. CASE id \in Ids(cells)
      <4>1. PICK k \in 1..l : slots[k].id = id
        <5>1. l # MaxSat
          BY <1>1, <1>7, <1>9
        <5> QED
          BY <1>1, <3>2, <5>1, Zenon
      <4> QED
        BY <2>6, <2>7, <4>1
    <3> QED
      BY <1>4, <3>1, <3>2
  <2>13. AskedParts(t, d, l + 1)
    BY <2>2, <2>7, <2>8, <2>11, <2>12, Zenon DEF AskedParts
  <2> QED
    BY <1>1, <1>9, <2>3, <2>13
<1>10. CASE ~InSlots(slots, l, Id(x)) /\ l = MaxSat
  <2>1. t = slots
    BY <1>1, <1>7, <1>10 DEF PutInto, InSlots
  <2>2. \A k \in 1..l : t[k].id \in Ids(d) /\ t[k] = AskedSlot(t[k].id, d)
    <3> SUFFICES ASSUME NEW k \in 1..l PROVE t[k].id \in Ids(d) /\ t[k] = AskedSlot(t[k].id, d)
      OBVIOUS
    <3>1. slots[k].id # Id(x)
      BY <1>10 DEF InSlots
    <3> QED
      BY <1>1, <1>4, <1>6, <2>1, <3>1
  <2>3. \A k \in 1..l : FirstOf(d, t[k].id) \in 1..n /\ FirstOf(d, t[k].id) = FirstOf(cells, slots[k].id)
    BY <1>1, <1>5, <2>1, Zenon
  <2>4. \A i, k \in 1..l : i < k => FirstOf(d, t[i].id) < FirstOf(d, t[k].id)
    BY <1>1, <2>3
  <2>5. ASSUME NEW id \in Ids(d)
        PROVE  \/ \E k \in 1..l : t[k].id = id
               \/ l = MaxSat /\ \A k \in 1..l : FirstOf(d, t[k].id) < FirstOf(d, id)
    <3>1. CASE id \in Ids(cells)
      BY <1>1, <1>5, <2>1, <2>3, <3>1
    <3>2. CASE id \notin Ids(cells)
      <4>1. FirstOf(d, id) = n + 1
        BY <1>4, <1>5, <2>5, <3>2
      <4> QED
        BY <1>3, <1>10, <2>3, <4>1
    <3> QED
      BY <3>1, <3>2
  <2>6. AskedParts(t, d, l)
    BY <1>1, <2>1, <2>2, <2>4, <2>5, Zenon DEF AskedParts
  <2>7. IsRow(t, l)
    BY <2>1
  <2> QED
    BY <1>1, <1>10, <2>6, <2>7
<1> QED
  BY <1>1, <1>7, <1>8, <1>9, <1>10

-----------------------------------------------------------------------------
(* What a cell does to the slots.                                           *)

\* The numbers of cells by satellite and signal
LEMMA Grid ==
    ASSUME NEW a \in Nat \ {0}, NEW L \in Nat \ {0}, NEW k \in 1..(a * L)
    PROVE  (k - 1) \div L + 1 \in 1..a /\ ((k - 1) % L) + 1 \in 1..L
<1>1. PICK i \in Nat : i = k - 1 /\ i < a * L
  <2>1. a * L \in Nat
    OBVIOUS
  <2> QED
    BY <2>1
<1>2. PICK q \in Nat, r \in 0..(L - 1) : i = q * L + r /\ q = i \div L /\ r = i % L
  OBVIOUS
<1>3. q < a
  <2>1. SUFFICES ASSUME q >= a PROVE FALSE
    OBVIOUS
  <2>2. PICK z \in Nat : q = a + z
    <3>1. q - a \in Nat /\ q = a + (q - a)
      BY <2>1
    <3> QED
      BY <3>1
  <2>3. q * L = a * L + z * L
    BY <2>2
  <2>4. z * L \in Nat
    OBVIOUS
  <2> QED
    BY <1>1, <1>2, <2>3, <2>4
<1> QED
  BY <1>1, <1>2, <1>3

\* A number of one range of satellites only, in no gap
LEMMA WaveIs ==
    ASSUME NEW s \in System, NEW id \in FirstPrn[s]..LastPrn[s]
    PROVE  /\ WaveOf(id) = s
           /\ id \in Int /\ ~(id <= 0 \/ id \in LastPrn[GLO] + 1..FirstPrn[GAL] - 1 \/ id > LastPrn[BDS])
<1>1. /\ FirstPrn[GPS] = 1 /\ FirstPrn[GLO] = 38 /\ FirstPrn[GAL] = 71 /\ FirstPrn[BDS] = 141
      /\ LastPrn[GPS] = 37 /\ LastPrn[GLO] = 61 /\ LastPrn[GAL] = 106 /\ LastPrn[BDS] = 203
  BY DEF FirstPrn, LastPrn, GPS, GLO, GAL, BDS
<1>2. \A r \in System : id \in FirstPrn[r]..LastPrn[r] => r = s
  BY <1>1 DEF System
<1>3. WaveOf(id) = s
  BY <1>2, Zenon DEF WaveOf
<1>4. id \in Int /\ ~(id <= 0 \/ id \in LastPrn[GLO] + 1..FirstPrn[GAL] - 1 \/ id > LastPrn[BDS])
  BY <1>1 DEF System
<1> QED
  BY <1>3, <1>4

\* A signal is in one band at most.
LEMMA OneBand ==
    ASSUME NEW s \in System, NEW g \in Int, NEW a \in 1..3, NEW b \in 1..3,
           g \in Signals[s][a], g \in Signals[s][b]
    PROVE  a = b
<1>1. /\ Signals[GPS] = <<2..4, 8..10 \union 15..17, 22..24>> /\ Signals[GLO] = <<2..3, 8..9, {}>>
      /\ Signals[GAL] = <<2..6, 14..16, 22..24>> /\ Signals[BDS] = <<2..4, 14..16, 8..10>>
  BY DEF Signals, GPS, GLO, GAL, BDS
<1>2. a \in {1, 2, 3} /\ b \in {1, 2, 3}
  OBVIOUS
<1>3. CASE s = GPS
  <2>1. Signals[s][1] = 2..4 /\ Signals[s][2] = 8..10 \union 15..17 /\ Signals[s][3] = 22..24
    BY <1>1, <1>3
  <2> QED
    BY <1>2, <2>1
<1>4. CASE s = GLO
  <2>1. Signals[s][1] = 2..3 /\ Signals[s][2] = 8..9 /\ Signals[s][3] = {}
    BY <1>1, <1>4
  <2> QED
    BY <1>2, <2>1
<1>5. CASE s = GAL
  <2>1. Signals[s][1] = 2..6 /\ Signals[s][2] = 14..16 /\ Signals[s][3] = 22..24
    BY <1>1, <1>5
  <2> QED
    BY <1>2, <2>1
<1>6. CASE s = BDS
  <2>1. Signals[s][1] = 2..4 /\ Signals[s][2] = 14..16 /\ Signals[s][3] = 8..10
    BY <1>1, <1>6
  <2> QED
    BY <1>2, <2>1
<1> QED
  BY <1>3, <1>4, <1>5, <1>6 DEF System

\* The band of a signal that has one
IsBand(sys, sig, any, b) ==
    BandOf(sys, sig, any) = b - 1 /\ \A a \in 1..3 : sig \in Signals[sys][a] <=> a = b

\* It is found, whatever is there when there is none.
LEMMA SignalBand ==
    ASSUME NEW m \in Observations, ~Unnamed(m), NEW p \in 1..Len(m.sigs), NEW any
    PROVE  \E b \in 1..3 : IsBand(m.sys, m.sigs[p], any, b)
<1>1. PICK g : g = m.sigs[p]
  OBVIOUS
<1>2. m.sys \in System /\ g \in Int
  <2>1. m.sys \in System /\ m.sigs \in Seq(1..32)
    BY ObservationsAssumption, Zenon
  <2>2. \A S : \A s \in Seq(S) : \A q \in 1..Len(s) : s[q] \in S
    OBVIOUS
  <2>3. g \in 1..32
    BY <1>1, <2>1, <2>2, Zenon
  <2> QED
    BY <2>1, <2>3
<1>3. BandOf(m.sys, g, -1) # -1
  BY <1>1, Zenon DEF Unnamed
<1>4. \E a \in 1..3 : g \in Signals[m.sys][a]
  BY <1>3 DEF BandOf
<1>5. PICK z : z = CHOOSE a \in 1..3 : g \in Signals[m.sys][a]
  OBVIOUS
<1>6. z \in 1..3 /\ g \in Signals[m.sys][z]
  BY <1>4, <1>5, Zenon
<1>7. BandOf(m.sys, g, any) = z - 1
  BY <1>4, <1>5, Zenon DEF BandOf
<1>8. \A a \in 1..3 : g \in Signals[m.sys][a] <=> a = z
  BY <1>2, <1>6, OneBand
<1> QED
  BY <1>1, <1>6, <1>7, <1>8 DEF IsBand

\* What is read of the satellites, and of a cell
SatRead(m, col) ==
    \A s \in 1..Len(m.sats) :
        /\ col.rng[s] = IF m.sats[s] \in m.dead THEN Range255 ELSE <<"rng", m.sys, m.sats[s], m.tow>>
        /\ col.mod[s] = <<"mod", m.sys, m.sats[s], m.tow>>
        /\ m.kind = 7 => col.rate[s] = <<"rate", m.sys, m.sats[s], m.tow>>
CellRead(m, col, j, c) ==
    /\ col.pr[j] = IF c \in m.void THEN NotGiven ELSE <<"pr", m.sys, c, m.tow>>
    /\ col.cp[j] = <<"cp", m.sys, c, m.tow>>
    /\ col.cnr[j] = <<"cnr", m.sys, c, m.tow>>
    /\ m.kind = 7 => col.frate[j] = <<"frate", m.sys, c, m.tow>>

\* A slot is a record of five fields.
IsSlot(z) == z = [id |-> z.id, l1 |-> z.l1, l2 |-> z.l2, d1 |-> z.d1, d2 |-> z.d2]

\* What decode_msm4 and decode_msm7 make of a slot is what the cell says.
LEMMA UpdatedIsFilled ==
    ASSUME NEW m, NEW c, NEW b \in 1..3, \A a \in 1..3 : c[2] \in Signals[m.sys][a] <=> a = b,
           NEW rate, m.kind = 7 => rate = Rate(m, c), NEW z, IsSlot(z), z.id = Id(<<m, c>>)
    PROVE  Updated(z, m, b - 1, Said(m, c), rate) = Filled(z, <<m, c>>)
<1>1. PICK o, y : o = Said(m, c) /\ y = Rate(m, c)
  OBVIOUS
<1>2. PICK x : x = <<m, c>>
  OBVIOUS
<1>3. x[1] = m /\ x[2] = c
  BY <1>2
<1>4. \A a \in 1..3 : SpeaksOf(x, z.id, a) <=> a = b
  BY <1>2, <1>3 DEF SpeaksOf
<1>5. PICK i, l1, l2, d1, d2 : z = [id |-> i, l1 |-> l1, l2 |-> l2, d1 |-> d1, d2 |-> d2]
  BY Zenon DEF IsSlot
<1>6. Filled(z, x) = [id |-> i, l1 |-> IF 1 = b THEN o ELSE l1, l2 |-> IF 2 = b THEN o ELSE l2,
                      d1 |-> IF 1 = b /\ m.kind = 7 THEN y ELSE d1,
                      d2 |-> IF 2 = b /\ m.kind = 7 THEN y ELSE d2]
  <2>1. z.id = i /\ z.l1 = l1 /\ z.l2 = l2 /\ z.d1 = d1 /\ z.d2 = d2
    BY <1>5
  <2>2. (SpeaksOf(x, z.id, 1) <=> 1 = b) /\ (SpeaksOf(x, z.id, 2) <=> 2 = b)
    BY <1>4
  <2> QED
    BY <1>1, <1>3, <2>1, <2>2 DEF Filled
<1>7. CASE b = 1
  <2>1. Updated(z, m, b - 1, o, rate) = [z EXCEPT !.l1 = o, !.d1 = IF m.kind = 7 THEN rate ELSE @]
    BY <1>7 DEF Updated
  <2>2. CASE m.kind = 7
    <3>1. rate = y
      BY <1>1, <2>2
    <3>2. Updated(z, m, b - 1, o, rate) = [z EXCEPT !.l1 = o, !.d1 = y]
      BY <2>1, <2>2, <3>1
    <3>3. [z EXCEPT !.l1 = o, !.d1 = y] = [id |-> i, l1 |-> o, l2 |-> l2, d1 |-> y, d2 |-> d2]
      <4>1. PICK w : w = [z EXCEPT !.l1 = o]
        OBVIOUS
      <4>2. w = [id |-> i, l1 |-> o, l2 |-> l2, d1 |-> d1, d2 |-> d2]
        BY <1>5, <4>1
      <4>3. [w EXCEPT !.d1 = y] = [id |-> i, l1 |-> o, l2 |-> l2, d1 |-> y, d2 |-> d2]
        BY <4>2
      <4>4. [z EXCEPT !.l1 = o, !.d1 = y] = [w EXCEPT !.d1 = y]
        BY <4>1
      <4> QED
        BY <4>3, <4>4
    <3>4. Filled(z, x) = [id |-> i, l1 |-> o, l2 |-> l2, d1 |-> y, d2 |-> d2]
      BY <1>6, <1>7, <2>2
    <3> QED
      BY <1>1, <1>2, <3>2, <3>3, <3>4, Zenon
  <2>3. CASE m.kind # 7
    <3>1. Updated(z, m, b - 1, o, rate) = [z EXCEPT !.l1 = o]
      BY <1>5, <2>1, <2>3
    <3>2. [z EXCEPT !.l1 = o] = [id |-> i, l1 |-> o, l2 |-> l2, d1 |-> d1, d2 |-> d2]
      BY <1>5
    <3>3. Filled(z, x) = [id |-> i, l1 |-> o, l2 |-> l2, d1 |-> d1, d2 |-> d2]
      BY <1>6, <1>7, <2>3
    <3> QED
      BY <1>1, <1>2, <3>1, <3>2, <3>3, Zenon
  <2> QED
    BY <2>2, <2>3
<1>8. CASE b = 2
  <2>1. Updated(z, m, b - 1, o, rate) = [z EXCEPT !.l2 = o, !.d2 = IF m.kind = 7 THEN rate ELSE @]
    BY <1>8 DEF Updated
  <2>2. CASE m.kind = 7
    <3>1. rate = y
      BY <1>1, <2>2
    <3>2. Updated(z, m, b - 1, o, rate) = [z EXCEPT !.l2 = o, !.d2 = y]
      BY <2>1, <2>2, <3>1
    <3>3. [z EXCEPT !.l2 = o, !.d2 = y] = [id |-> i, l1 |-> l1, l2 |-> o, d1 |-> d1, d2 |-> y]
      <4>1. PICK w : w = [z EXCEPT !.l2 = o]
        OBVIOUS
      <4>2. w = [id |-> i, l1 |-> l1, l2 |-> o, d1 |-> d1, d2 |-> d2]
        BY <1>5, <4>1
      <4>3. [w EXCEPT !.d2 = y] = [id |-> i, l1 |-> l1, l2 |-> o, d1 |-> d1, d2 |-> y]
        BY <4>2
      <4>4. [z EXCEPT !.l2 = o, !.d2 = y] = [w EXCEPT !.d2 = y]
        BY <4>1
      <4> QED
        BY <4>3, <4>4
    <3>4. Filled(z, x) = [id |-> i, l1 |-> l1, l2 |-> o, d1 |-> d1, d2 |-> y]
      BY <1>6, <1>8, <2>2
    <3> QED
      BY <1>1, <1>2, <3>2, <3>3, <3>4, Zenon
  <2>3. CASE m.kind # 7
    <3>1. Updated(z, m, b - 1, o, rate) = [z EXCEPT !.l2 = o]
      BY <1>5, <2>1, <2>3
    <3>2. [z EXCEPT !.l2 = o] = [id |-> i, l1 |-> l1, l2 |-> o, d1 |-> d1, d2 |-> d2]
      BY <1>5
    <3>3. Filled(z, x) = [id |-> i, l1 |-> l1, l2 |-> o, d1 |-> d1, d2 |-> d2]
      BY <1>6, <1>8, <2>3
    <3> QED
      BY <1>1, <1>2, <3>1, <3>2, <3>3, Zenon
  <2> QED
    BY <2>2, <2>3
<1>9. CASE b = 3
  <2>1. Updated(z, m, b - 1, o, rate) = z
    BY <1>9 DEF Updated
  <2> QED
    BY <1>1, <1>2, <1>5, <1>6, <1>9, <2>1
<1> QED
  BY <1>7, <1>8, <1>9

\* What bFindObsIndex comes to for a satellite with a number and a signal with a band
FoundIs(slots, l, id, f) ==
    \/ \E k \in 1..l : slots[k].id = id /\ f = [slots |-> slots, added |-> 0, index |-> k]
    \/ /\ ~InSlots(slots, l, id) /\ l < MaxSat
       /\ f = [slots |-> Append(slots, Slot(id)), added |-> 1, index |-> l + 1]
    \/ /\ ~InSlots(slots, l, id) /\ l = MaxSat
       /\ f = [slots |-> slots, added |-> 0, index |-> 0]

\* It comes to no more.
LEMMA SlotFound ==
    ASSUME NEW slots, NEW l, IsRow(slots, l), l <= MaxSat, NEW id, NEW band, band >= 0,
           ~(id <= 0 \/ id \in LastPrn[GLO] + 1..FirstPrn[GAL] - 1 \/ id > LastPrn[BDS]),
           NEW f, f = bFindObsIndex(slots, id, band)
    PROVE  FoundIs(slots, l, id, f)
<1>1. l \in Nat /\ Len(slots) = l /\ MaxSat \in Nat
  BY DecodeAssumption DEF IsRow
<1>2. PICK k : k = IndexOf(slots, id)
  OBVIOUS
<1>3. f = [slots |-> IF k = l + 1 THEN Append(slots, Slot(id)) ELSE slots,
           added |-> IF k = l + 1 THEN 1 ELSE 0, index |-> k]
  BY <1>1, <1>2 DEF bFindObsIndex
<1>4. CASE InSlots(slots, l, id)
  <2>1. k \in 1..l /\ slots[k].id = id
    BY <1>1, <1>2, <1>4, Zenon DEF InSlots, IndexOf
  <2>2. k # l + 1
    BY <1>1, <2>1
  <2> QED
    BY <1>3, <2>1, <2>2 DEF FoundIs
<1>5. CASE ~InSlots(slots, l, id) /\ l < MaxSat
  <2>1. k = l + 1
    BY <1>1, <1>2, <1>5 DEF InSlots, IndexOf
  <2> QED
    BY <1>3, <1>5, <2>1 DEF FoundIs
<1>6. CASE ~InSlots(slots, l, id) /\ ~(l < MaxSat)
  <2>1. k = 0 /\ l = MaxSat
    BY <1>1, <1>2, <1>6 DEF InSlots, IndexOf
  <2>2. k # l + 1
    BY <1>1, <2>1
  <2> QED
    BY <1>3, <1>6, <2>1, <2>2 DEF FoundIs
<1> QED
  BY <1>4, <1>5, <1>6

\* What a cell that is there and has a range does to the slots
LEMMA CellPut ==
    ASSUME NEW m \in Observations, Regular(m), NEW k \in 1..CellsOf(m), NEW c, c = CellAt(m.sats, m.sigs, k),
           NEW h, HeadOf(m, h), NEW col, SatRead(m, col), NEW acc, CellRead(m, col, acc.j, c),
           NEW l, IsRow(acc.slots, l), l <= MaxSat, \A i \in 1..l : IsSlot(acc.slots[i]),
           NEW any, NEW r, r = Cell(m, h, col, any, acc, k - 1)
    PROVE  /\ c \notin m.cells => r = acc
           /\ c \in m.cells /\ c[1] \in m.dead => r = [acc EXCEPT !.j = acc.j + 1]
           /\ c \in m.cells /\ c[1] \notin m.dead =>
                /\ r.j = acc.j + 1
                /\ PutInto(acc.slots, l, <<m, c>>, r.slots)
                /\ r.n = acc.n + IF ~InSlots(acc.slots, l, Id(<<m, c>>)) /\ l < MaxSat THEN 1 ELSE 0
<1>1. h.sats = m.sats /\ h.sigs = m.sigs /\ h.cells = m.cells
  BY DEF HeadOf
<1>2. PICK s, g : s = (k - 1) \div Len(m.sigs) + 1 /\ g = ((k - 1) % Len(m.sigs)) + 1
  OBVIOUS
<1>3. s \in 1..Len(m.sats) /\ g \in 1..Len(m.sigs)
  <2>1. Len(m.sats) \in Nat \ {0} /\ Len(m.sigs) \in Nat \ {0} /\ k \in 1..(Len(m.sats) * Len(m.sigs))
    BY CellNumbers DEF CellsOf
  <2> QED
    BY <1>2, <2>1, Grid
<1>4. c = <<m.sats[s], m.sigs[g]>> /\ c[1] = m.sats[s] /\ c[2] = m.sigs[g]
  BY <1>2 DEF CellAt
<1>5. PICK id : id = m.sats[s] + FirstPrn[m.sys] - 1 /\ id = Id(<<m, c>>)
  BY <1>4 DEF Id
<1>6. PICK band : band = BandOf(m.sys, m.sigs[g], any)
  OBVIOUS
<1>7. PICK b \in 1..3 : band = b - 1 /\ \A a \in 1..3 : m.sigs[g] \in Signals[m.sys][a] <=> a = b
  <2>1. ~Unnamed(m)
    BY Zenon DEF Regular
  <2> QED
    <3>1. \E b \in 1..3 : IsBand(m.sys, m.sigs[g], any, b)
      BY <1>3, <2>1, SignalBand, Zenon
    <3> QED
      BY <1>6, <3>1 DEF IsBand
<1>8. id \in FirstPrn[m.sys]..LastPrn[m.sys] /\ m.sys \in System
  <2>1. m.sys \in System /\ m.sats \in Seq(1..64)
    BY ObservationsAssumption, Zenon
  <2>2. m.sats[s] \in 1..64
    <3>1. \A S : \A q \in Seq(S) : \A p \in 1..Len(q) : q[p] \in S
      OBVIOUS
    <3> QED
      BY <1>3, <2>1, <3>1, Zenon
  <2>3. FirstPrn[m.sys] \in Int
    BY <2>1 DEF FirstPrn, System, GPS, GLO, GAL, BDS
  <2>4. id <= LastPrn[m.sys]
    BY <1>3, <1>5, Zenon DEF Regular
  <2>5. LastPrn[m.sys] \in Int
    BY <2>1 DEF LastPrn, System, GPS, GLO, GAL, BDS
  <2>6. PICK a, f, z : a = m.sats[s] /\ f = FirstPrn[m.sys] /\ z = LastPrn[m.sys]
    OBVIOUS
  <2>7. id = a + f - 1 /\ a \in 1..64 /\ f \in Int /\ z \in Int /\ id <= z
    BY <1>5, <2>2, <2>3, <2>4, <2>5, <2>6
  <2>8. id \in f..z
    BY <2>7
  <2> QED
    BY <2>1, <2>6, <2>8
<1>9. WaveOf(id) = m.sys /\ id \in Int
      /\ ~(id <= 0 \/ id \in LastPrn[GLO] + 1..FirstPrn[GAL] - 1 \/ id > LastPrn[BDS])
  BY <1>8, WaveIs, SMTT(60)
<1> DEFINE j == acc.j
           obs == [pr |-> <<col.rng[s], col.mod[s], col.pr[j]>>,
                   cp |-> <<col.rng[s], col.mod[s], col.cp[j]>>, sn |-> col.cnr[j],
                   wave |-> WaveOf(id)]
           rate == <<col.rate[s], col.frate[j]>>
           found == bFindObsIndex(acc.slots, id, band)
           stored == [found.slots EXCEPT ![found.index] = Updated(@, m, band, obs, rate)]
<1>10. r = IF <<m.sats[s], m.sigs[g]>> \notin m.cells THEN acc
           ELSE IF col.rng[s] = Range255 THEN PassedOver(acc)
           ELSE [j |-> j + 1, n |-> acc.n + found.added,
                 slots |-> IF found.index = 0 THEN found.slots ELSE stored]
  BY <1>1, <1>2, <1>5, <1>6, ZenonT(60) DEF Cell
<1>11. col.rng[s] = Range255 <=> m.sats[s] \in m.dead
  <2>1. Range255 # <<"rng", m.sys, m.sats[s], m.tow>>
    <3>1. Len(Range255) = 1 /\ Len(<<"rng", m.sys, m.sats[s], m.tow>>) = 4
      BY DEF Range255
    <3> QED
      BY <3>1
  <2> QED
    BY <1>3, <2>1 DEF SatRead
<1>12. CASE c \notin m.cells
  <2>1. r = acc
    BY <1>4, <1>10, <1>12
  <2> QED
    BY <1>12, <2>1
<1>13. CASE c \in m.cells /\ c[1] \in m.dead
  <2>1. r = [acc EXCEPT !.j = acc.j + 1]
    BY <1>4, <1>10, <1>11, <1>13 DEF PassedOver
  <2> QED
    BY <1>13, <2>1
<1>14. CASE c \in m.cells /\ c[1] \notin m.dead
  <2>1. col.rng[s] = <<"rng", m.sys, c[1], m.tow>> /\ col.mod[s] = <<"mod", m.sys, c[1], m.tow>>
    BY <1>3, <1>4, <1>14 DEF SatRead
  <2>2. obs = Said(m, c)
    BY <1>9, <2>1 DEF CellRead, Said
  <2>3. m.kind = 7 => rate = Rate(m, c)
    BY <1>3, <1>4 DEF SatRead, CellRead, Rate
  <2>4. r = [j |-> j + 1, n |-> acc.n + found.added,
             slots |-> IF found.index = 0 THEN found.slots ELSE stored]
    BY <1>4, <1>10, <1>11, <1>14
  <2> HIDE DEF obs, rate
  <2>5. PICK x : x = <<m, c>>
    OBVIOUS
  <2>6. \A z : IsSlot(z) /\ z.id = id => Updated(z, m, band, obs, rate) = Filled(z, x)
    <3>1. \A a \in 1..3 : c[2] \in Signals[m.sys][a] <=> a = b
      BY <1>4, <1>7
    <3> QED
      BY <1>5, <1>7, <2>2, <2>3, <2>5, <3>1, UpdatedIsFilled
  <2>7. PICK f : f = found
    OBVIOUS
  <2>8. \/ \E i \in 1..l : acc.slots[i].id = id /\ f = [slots |-> acc.slots, added |-> 0, index |-> i]
        \/ /\ ~InSlots(acc.slots, l, id) /\ l < MaxSat
           /\ f = [slots |-> Append(acc.slots, Slot(id)), added |-> 1, index |-> l + 1]
        \/ /\ ~InSlots(acc.slots, l, id) /\ l = MaxSat
           /\ f = [slots |-> acc.slots, added |-> 0, index |-> 0]
    <3>1. band >= 0
      BY <1>7
    <3>2. FoundIs(acc.slots, l, id, f)
      BY <1>9, <2>7, <3>1, SlotFound
    <3> QED
      BY <3>2 DEF FoundIs
  <2> HIDE DEF found
  <2>9. r = [j |-> acc.j + 1, n |-> acc.n + f.added,
             slots |-> IF f.index = 0 THEN f.slots
                       ELSE [f.slots EXCEPT ![f.index] = Updated(f.slots[f.index], m, band, obs, rate)]]
    BY <2>4, <2>7
  <2> HIDE DEF stored, j
  <2>10. l \in Nat /\ Len(acc.slots) = l
    BY DEF IsRow
  <2>11. PICK S : acc.slots \in Seq(S)
    BY DEF IsRow
  <2>12. CASE \E i \in 1..l : acc.slots[i].id = id /\ f = [slots |-> acc.slots, added |-> 0, index |-> i]
    <3>1. PICK i \in 1..l : acc.slots[i].id = id /\ f = [slots |-> acc.slots, added |-> 0, index |-> i]
      BY <2>12
    <3>2. f.index = i /\ i # 0 /\ f.slots = acc.slots /\ f.added = 0
      BY <2>10, <3>1
    <3>3. r.slots = [acc.slots EXCEPT ![i] = Filled(acc.slots[i], x)]
      BY <2>6, <2>9, <3>1, <3>2
    <3>4. PutInto(acc.slots, l, x, r.slots)
      BY <1>5, <2>5, <3>1, <3>3 DEF PutInto
    <3>5. InSlots(acc.slots, l, id)
      BY <3>1 DEF InSlots
    <3>6. r.j = acc.j + 1 /\ r.n = acc.n + 0
      BY <2>9, <3>2
    <3> QED
      BY <1>5, <1>14, <2>5, <3>4, <3>5, <3>6
  <2>13. CASE /\ ~InSlots(acc.slots, l, id) /\ l < MaxSat
              /\ f = [slots |-> Append(acc.slots, Slot(id)), added |-> 1, index |-> l + 1]
    <3>1. f.index = l + 1 /\ l + 1 # 0 /\ f.slots = Append(acc.slots, Slot(id)) /\ f.added = 1
      BY <2>10, <2>13
    <3>2. f.slots[l + 1] = Slot(id) /\ IsSlot(Slot(id)) /\ Slot(id).id = id
      BY <2>10, <2>11, <3>1 DEF Slot, IsSlot
    <3>3. r.slots = [Append(acc.slots, Slot(id)) EXCEPT ![l + 1] = Filled(Slot(id), x)]
      BY <2>6, <2>9, <3>1, <3>2
    <3>4. r.slots = Append(acc.slots, Filled(Slot(id), x))
      <4>1. PICK u, v : u = Slot(id) /\ v = Filled(Slot(id), x)
        OBVIOUS
      <4>2. [Append(acc.slots, u) EXCEPT ![l + 1] = v] = Append(acc.slots, v)
        <5>1. PICK T : acc.slots \in Seq(T) /\ u \in T /\ v \in T
          <6>1. acc.slots \in Seq(S \union {u, v})
            BY <2>11
          <6> QED
            BY <6>1
        <5>2. PICK a, w : a = Append(acc.slots, u) /\ w = Append(acc.slots, v)
          OBVIOUS
        <5>3. a \in Seq(T) /\ w \in Seq(T) /\ Len(a) = l + 1 /\ Len(w) = l + 1 /\ w[l + 1] = v
              /\ \A i \in 1..l : a[i] = acc.slots[i] /\ w[i] = acc.slots[i]
          BY <2>10, <5>1, <5>2
        <5>4. l + 1 \in 1..Len(a)
          BY <2>10, <5>3
        <5>5. /\ [a EXCEPT ![l + 1] = v] \in Seq(T) /\ Len([a EXCEPT ![l + 1] = v]) = Len(a)
              /\ \A i \in 1..Len(a) : [a EXCEPT ![l + 1] = v][i] = IF i = l + 1 THEN v ELSE a[i]
          BY <5>1, <5>3, <5>4, ExceptSeq
        <5>6. \A i \in 1..(l + 1) : [a EXCEPT ![l + 1] = v][i] = w[i]
          BY <2>10, <5>3, <5>5
        <5>7. [a EXCEPT ![l + 1] = v] = w
          BY <5>3, <5>5, <5>6, SeqEqual
        <5> QED
          BY <5>2, <5>7
      <4> QED
        BY <3>3, <4>1, <4>2
    <3>5. PutInto(acc.slots, l, x, r.slots)
      BY <1>5, <2>5, <2>13, <3>4 DEF PutInto
    <3>6. r.j = acc.j + 1 /\ r.n = acc.n + 1
      BY <2>9, <3>1
    <3> QED
      BY <1>5, <1>14, <2>5, <2>13, <3>5, <3>6
  <2>14. CASE /\ ~InSlots(acc.slots, l, id) /\ l = MaxSat
              /\ f = [slots |-> acc.slots, added |-> 0, index |-> 0]
    <3>1. f.index = 0 /\ f.slots = acc.slots /\ f.added = 0
      BY <2>14
    <3>2. r.slots = acc.slots /\ r.j = acc.j + 1 /\ r.n = acc.n + 0
      BY <2>9, <3>1
    <3>3. PutInto(acc.slots, l, x, r.slots)
      BY <1>5, <2>5, <2>14, <3>2 DEF PutInto
    <3>4. ~(l < MaxSat)
      BY <2>10, <2>14
    <3> QED
      BY <1>5, <1>14, <2>5, <2>14, <3>2, <3>3, <3>4
  <2> QED
    BY <2>8, <2>12, <2>13, <2>14
<1> QED
  BY <1>12, <1>13, <1>14

-----------------------------------------------------------------------------
(* The columns of the data.                                                 *)

\* A column of n fields of w bits that hold vals begins after the first p bits.
ColumnAt(bits, p, n, w, vals) ==
    p \in Nat /\ \A k \in 1..n : Holds(bits, p + (k - 1) * w, w, vals[k])

\* A column is read.
IsColumn(col, n, vals) == \A k \in 1..n : col[k] = vals[k]

\* The fields of a column are where they are read.
LEMMA ColumnReads ==
    ASSUME NEW bits, NEW p, NEW n \in Nat, NEW w \in Nat, NEW vals, ColumnAt(bits, p, n, w, vals),
           NEW pos, pos = p + 24
    PROVE  IsColumn(Column(bits, pos, n, w), n, vals)
<1> SUFFICES ASSUME NEW k \in 1..n PROVE Column(bits, pos, n, w)[k] = vals[k]
  BY DEF IsColumn
<1>1. p \in Nat /\ Holds(bits, p + (k - 1) * w, w, vals[k])
  BY DEF ColumnAt
<1>2. PICK z \in Nat : z = (k - 1) * w
  <2>1. PICK j \in Nat : j = k - 1
    OBVIOUS
  <2>2. j * w \in Nat
    OBVIOUS
  <2> QED
    BY <2>1, <2>2
<1>3. p + z \in Nat /\ pos + z \in Int /\ pos + z = (p + z) + 24
  BY <1>1
<1>4. Holds(bits, p + z, w, vals[k])
  BY <1>1, <1>2
<1>5. Field(bits, pos + z, w) = vals[k]
  <2>1. PICK q, r : q = p + z /\ r = pos + z
    OBVIOUS
  <2>2. q \in Nat /\ r \in Int /\ r = q + 24 /\ Holds(bits, q, w, vals[k])
    BY <1>3, <1>4, <2>1
  <2> QED
    BY <2>1, <2>2, HoldsReads
<1>6. Column(bits, pos, n, w)[k] = Field(bits, pos + (k - 1) * w, w)
  BY DEF Column
<1> QED
  BY <1>2, <1>5, <1>6

\* A column stays one with other pieces beside it.
LEMMA ColumnPieces ==
    ASSUME NEW a, NEW b, NEW la, NEW lb, IsBits(a, la), IsBits(b, lb), NEW n \in Nat, NEW w \in Nat,
           NEW vals, NEW p
    PROVE  /\ IsBits(a \o b, la + lb)
           /\ ColumnAt(a, p, n, w, vals) => ColumnAt(a \o b, p, n, w, vals)
           /\ ColumnAt(b, p, n, w, vals) => ColumnAt(a \o b, la + p, n, w, vals)
<1>1. /\ IsBits(a \o b, la + lb)
      /\ \A q \in Nat : \A v : Holds(a, q, w, v) => Holds(a \o b, q, w, v)
      /\ \A q \in Nat : \A v : Holds(b, q, w, v) => Holds(a \o b, la + q, w, v)
  BY TwoPieces, Zenon
<1>2. \A k \in 1..n : (k - 1) * w \in Nat
  <2> SUFFICES ASSUME NEW k \in 1..n PROVE (k - 1) * w \in Nat
    OBVIOUS
  <2>1. PICK j \in Nat : j = k - 1
    OBVIOUS
  <2>2. j * w \in Nat
    OBVIOUS
  <2> QED
    BY <2>1, <2>2
<1>3. la \in Nat
  BY DEF IsBits
<1>4. ASSUME ColumnAt(a, p, n, w, vals) PROVE ColumnAt(a \o b, p, n, w, vals)
  <2>1. p \in Nat /\ \A k \in 1..n : Holds(a, p + (k - 1) * w, w, vals[k])
    BY <1>4, Zenon DEF ColumnAt
  <2>2. \A k \in 1..n : p + (k - 1) * w \in Nat
    <3>1. \A x \in Nat : p + x \in Nat
      BY <2>1
    <3> QED
      BY <1>2, <3>1, Zenon
  <2> QED
    BY <1>1, <2>1, <2>2, Zenon DEF ColumnAt
<1>5. ASSUME ColumnAt(b, p, n, w, vals) PROVE ColumnAt(a \o b, la + p, n, w, vals)
  <2>1. p \in Nat /\ \A k \in 1..n : Holds(b, p + (k - 1) * w, w, vals[k])
    BY <1>5, Zenon DEF ColumnAt
  <2>2. \A x \in Nat : p + x \in Nat /\ la + (p + x) = (la + p) + x /\ la + p \in Nat
    BY <1>3, <2>1
  <2>3. ASSUME NEW k \in 1..n PROVE Holds(a \o b, (la + p) + (k - 1) * w, w, vals[k])
    <3>1. PICK z \in Nat : z = (k - 1) * w
      BY <1>2
    <3>2. Holds(b, p + z, w, vals[k])
      BY <2>1, <3>1, Zenon
    <3>3. Holds(a \o b, la + (p + z), w, vals[k])
      BY <1>1, <2>2, <3>2, Zenon
    <3> QED
      BY <2>2, <3>1, <3>3, Zenon
  <2>4. la + p \in Nat
    BY <1>3, <2>1
  <2> QED
    BY <2>3, <2>4, Zenon DEF ColumnAt
<1> QED
  BY <1>1, <1>4, <1>5, Zenon

\* A column of n fields of w bits that is laid
LEMMA ColumnIs ==
    ASSUME NEW n \in Nat, NEW w \in Nat \ {0}, NEW fields, NEW vals, DOMAIN fields = 1..n,
           \A k \in 1..n : fields[k].w = w /\ fields[k].v = vals[k]
    PROVE  IsBits(Laid(fields), n * w) /\ ColumnAt(Laid(fields), 0, n, w, vals)
<1> DEFINE P == [k \in 1..(n + 1) |-> (k - 1) * w]
<1>1. P[1] = 0 /\ P[n + 1] = n * w
  <2>1. 1 \in 1..(n + 1) /\ n + 1 \in 1..(n + 1) /\ (n + 1) - 1 = n /\ 1 - 1 = 0 /\ 0 * w = 0
    OBVIOUS
  <2> QED
    BY <2>1, Zenon
<1>2. ASSUME NEW k \in 1..n PROVE fields[k].w \in Nat /\ P[k + 1] = P[k] + fields[k].w
  <2>1. PICK j \in Nat : k = j + 1
    <3>1. k - 1 \in Nat /\ k = (k - 1) + 1
      OBVIOUS
    <3> QED
      BY <3>1
  <2>2. (j + 1) * w = j * w + w
    BY OnceMore
  <2>3. k \in 1..(n + 1) /\ k + 1 \in 1..(n + 1) /\ k - 1 = j /\ (k + 1) - 1 = j + 1
    BY <2>1
  <2>4. P[k] = j * w /\ P[k + 1] = (j + 1) * w
    BY <2>3, Zenon
  <2> HIDE DEF P
  <2> QED
    BY <2>2, <2>4, Zenon
<1>3. ASSUME NEW k \in 1..n PROVE P[k] = 0 + (k - 1) * w
  <2>1. k \in 1..(n + 1)
    OBVIOUS
  <2>2. PICK j \in Nat : j = k - 1
    OBVIOUS
  <2>3. j * w \in Nat
    OBVIOUS
  <2>4. P[k] = j * w
    BY <2>1, <2>2
  <2>5. 0 + j * w = j * w
    BY <2>3
  <2> QED
    BY <2>2, <2>4, <2>5, Zenon
<1> HIDE DEF P
<1>4. Widened(fields, n, P)
  BY <1>1, <1>2, Zenon DEF Widened
<1>5. IsBits(Laid(fields), P[n + 1])
      /\ \A k \in 1..n : fields[k].w # 0 => Holds(Laid(fields), P[k], fields[k].w, fields[k].v)
  BY <1>4, LaidOut, Zenon
<1>6. \A k \in 1..n : Holds(Laid(fields), 0 + (k - 1) * w, w, vals[k])
  <2> SUFFICES ASSUME NEW k \in 1..n PROVE Holds(Laid(fields), 0 + (k - 1) * w, w, vals[k])
    OBVIOUS
  <2>1. fields[k].w = w /\ w # 0 /\ fields[k].v = vals[k]
    OBVIOUS
  <2> QED
    BY <1>3, <1>5, <2>1, Zenon
<1> QED
  BY <1>1, <1>5, <1>6, Zenon DEF ColumnAt

\* What the columns of the satellites hold
SatelliteVals(m, name) ==
    [k \in 1..Len(m.sats) |-> IF name = "rng" /\ m.sats[k] \in m.dead THEN Range255
                              ELSE <<name, m.sys, m.sats[k], m.tow>>]

\* The columns of the satellites are in their places.
LEMMA SatelliteColumns ==
    ASSUME NEW m, NEW n \in Nat, n = Len(m.sats)
    PROVE  /\ IsBits(SatelliteBits(m), n * IF m.kind = 4 THEN 18 ELSE 36)
           /\ ColumnAt(SatelliteBits(m), 0, n, 8, SatelliteVals(m, "rng"))
           /\ m.kind = 4 => ColumnAt(SatelliteBits(m), n * 8, n, 10, SatelliteVals(m, "mod"))
           /\ m.kind # 4 => /\ ColumnAt(SatelliteBits(m), n * 8 + n * 4, n, 10, SatelliteVals(m, "mod"))
                            /\ ColumnAt(SatelliteBits(m), n * 8 + n * 4 + n * 10, n, 14,
                                        SatelliteVals(m, "rate"))
<1> DEFINE Col(w, name) == Laid([k \in 1..Len(m.sats) |->
                Bits(w, IF name = "rng" /\ m.sats[k] \in m.dead THEN Range255
                        ELSE <<name, m.sys, m.sats[k], m.tow>>)])
<1>1. ASSUME NEW w \in Nat \ {0}, NEW name
      PROVE  IsBits(Col(w, name), n * w) /\ ColumnAt(Col(w, name), 0, n, w, SatelliteVals(m, name))
  <2> DEFINE fields == [k \in 1..Len(m.sats) |->
                Bits(w, IF name = "rng" /\ m.sats[k] \in m.dead THEN Range255
                        ELSE <<name, m.sys, m.sats[k], m.tow>>)]
  <2>1. DOMAIN fields = 1..n
    OBVIOUS
  <2>2. \A k \in 1..n : fields[k].w = w /\ fields[k].v = SatelliteVals(m, name)[k]
    BY DEF Bits, SatelliteVals
  <2>3. Col(w, name) = Laid(fields)
    OBVIOUS
  <2> HIDE DEF fields, Col
  <2> QED
    BY <2>1, <2>2, <2>3, ColumnIs, Zenon
<1>2. SatelliteBits(m) =
        IF m.kind = 4 THEN Col(8, "rng") \o Col(10, "mod")
        ELSE Col(8, "rng") \o Col(4, "ext") \o Col(10, "mod") \o Col(14, "rate")
  BY Zenon DEF SatelliteBits
<1> HIDE DEF Col
<1>5. PICK a, b : a = SatelliteVals(m, "rng") /\ b = SatelliteVals(m, "mod")
  OBVIOUS
<1>6. PICK c : c = SatelliteVals(m, "rate")
  OBVIOUS
<1>7. /\ \A k \in Nat : 0 + k = k /\ k + 0 = k
      /\ n * 8 + n * 10 = n * 18 /\ n * 8 + n * 4 + n * 10 + n * 14 = n * 36
      /\ 8 \in Nat /\ 4 \in Nat /\ 10 \in Nat /\ 14 \in Nat
      /\ n * 8 \in Nat /\ n * 4 \in Nat /\ n * 8 + n * 4 \in Nat /\ n * 8 + n * 4 + n * 10 \in Nat
      /\ n * 8 + 0 = n * 8 /\ n * 8 + n * 4 + 0 = n * 8 + n * 4
      /\ n * 8 + n * 4 + n * 10 + 0 = n * 8 + n * 4 + n * 10
  OBVIOUS
<1>3. CASE m.kind = 4
  <2>1. /\ IsBits(Col(8, "rng"), n * 8) /\ ColumnAt(Col(8, "rng"), 0, n, 8, a)
        /\ IsBits(Col(10, "mod"), n * 10) /\ ColumnAt(Col(10, "mod"), 0, n, 10, b)
    BY <1>1, <1>5
  <2>2. /\ IsBits(Col(8, "rng") \o Col(10, "mod"), n * 8 + n * 10)
        /\ ColumnAt(Col(8, "rng") \o Col(10, "mod"), 0, n, 8, a)
        /\ ColumnAt(Col(8, "rng") \o Col(10, "mod"), n * 8 + 0, n, 10, b)
    BY <1>7, <2>1, ColumnPieces
  <2> QED
    BY <1>2, <1>3, <1>5, <1>7, <2>2
<1>4. CASE m.kind # 4
  <2> DEFINE C1 == Col(8, "rng")
             C2 == C1 \o Col(4, "ext")
             C3 == C2 \o Col(10, "mod")
             C4 == C3 \o Col(14, "rate")
  <2>1. /\ IsBits(C1, n * 8) /\ ColumnAt(C1, 0, n, 8, a) /\ IsBits(Col(4, "ext"), n * 4)
        /\ IsBits(Col(10, "mod"), n * 10) /\ ColumnAt(Col(10, "mod"), 0, n, 10, b)
        /\ IsBits(Col(14, "rate"), n * 14) /\ ColumnAt(Col(14, "rate"), 0, n, 14, c)
    BY <1>1, <1>5, <1>6
  <2>5. SatelliteBits(m) = C4
    BY <1>2, <1>4
  <2>2. IsBits(C2, n * 8 + n * 4) /\ ColumnAt(C2, 0, n, 8, a)
    <3> HIDE DEF C1
    <3> QED
      BY <1>7, <2>1, ColumnPieces
  <2> HIDE DEF C1, C2
  <2>3. /\ IsBits(C3, n * 8 + n * 4 + n * 10) /\ ColumnAt(C3, 0, n, 8, a)
        /\ ColumnAt(C3, n * 8 + n * 4 + 0, n, 10, b)
    BY <1>7, <2>1, <2>2, ColumnPieces
  <2> HIDE DEF C3
  <2>4. /\ IsBits(C4, n * 8 + n * 4 + n * 10 + n * 14) /\ ColumnAt(C4, 0, n, 8, a)
        /\ ColumnAt(C4, n * 8 + n * 4 + 0, n, 10, b)
        /\ ColumnAt(C4, n * 8 + n * 4 + n * 10 + 0, n, 14, c)
    <3>1. PICK e : e = n * 8 + n * 4 + n * 10 /\ e \in Nat
      BY <1>7
    <3>2. IsBits(C3, e)
      BY <2>3, <3>1
    <3>3. /\ IsBits(C4, e + n * 14)
          /\ \A p, v : ColumnAt(C3, p, n, 8, v) => ColumnAt(C4, p, n, 8, v)
          /\ \A p, v : ColumnAt(C3, p, n, 10, v) => ColumnAt(C4, p, n, 10, v)
          /\ \A p, v : ColumnAt(Col(14, "rate"), p, n, 14, v) => ColumnAt(C4, e + p, n, 14, v)
      BY <1>7, <2>1, <3>2, ColumnPieces
    <3> QED
      BY <2>1, <2>3, <3>1, <3>3
  <2> HIDE DEF C4
  <2> QED
    BY <1>4, <1>5, <1>6, <1>7, <2>4, <2>5
<1> QED
  BY <1>3, <1>4

\* The first two columns of five, and the last
LEMMA FiveColumns ==
    ASSUME NEW a, NEW b, NEW c, NEW d, NEW e, NEW la, NEW lb, NEW lc, NEW ld, NEW le,
           IsBits(a, la), IsBits(b, lb), IsBits(c, lc), IsBits(d, ld), IsBits(e, le)
    PROVE  /\ IsBits(a \o b \o c \o d \o e, la + lb + lc + ld + le)
           /\ \A n, w \in Nat : \A v :
                /\ ColumnAt(a, 0, n, w, v) => ColumnAt(a \o b \o c \o d \o e, 0, n, w, v)
                /\ ColumnAt(b, 0, n, w, v) => ColumnAt(a \o b \o c \o d \o e, la, n, w, v)
                /\ ColumnAt(e, 0, n, w, v) => ColumnAt(a \o b \o c \o d \o e, la + lb + lc + ld, n, w, v)
<1> DEFINE X2 == a \o b
           X3 == X2 \o c
           X4 == X3 \o d
           X5 == X4 \o e
<1>1. PICK l2, l3, l4 : l2 = la + lb /\ l3 = la + lb + lc /\ l4 = la + lb + lc + ld
  OBVIOUS
<1>2. la \in Nat /\ lb \in Nat /\ lc \in Nat /\ ld \in Nat
  BY DEF IsBits
<1>3. l3 = l2 + lc /\ l4 = l3 + ld /\ la + 0 = la /\ l4 + 0 = l4
  BY <1>1, <1>2
<1>4. /\ IsBits(X2, l2)
      /\ \A n, w \in Nat : \A p, v : ColumnAt(a, p, n, w, v) => ColumnAt(X2, p, n, w, v)
      /\ \A n, w \in Nat : \A p, v : ColumnAt(b, p, n, w, v) => ColumnAt(X2, la + p, n, w, v)
  <2>1. IsBits(X2, la + lb)
    BY TwoPieces, Zenon
  <2> QED
    BY <1>1, <2>1, ColumnPieces, Zenon
<1> HIDE DEF X2
<1>5. /\ IsBits(X3, l3)
      /\ \A n, w \in Nat : \A p, v : ColumnAt(X2, p, n, w, v) => ColumnAt(X3, p, n, w, v)
  <2>1. IsBits(X3, l2 + lc)
    BY <1>4, TwoPieces, Zenon
  <2> QED
    BY <1>3, <1>4, <2>1, ColumnPieces, Zenon
<1> HIDE DEF X3
<1>6. /\ IsBits(X4, l4)
      /\ \A n, w \in Nat : \A p, v : ColumnAt(X3, p, n, w, v) => ColumnAt(X4, p, n, w, v)
  <2>1. IsBits(X4, l3 + ld)
    BY <1>5, TwoPieces, Zenon
  <2> QED
    BY <1>3, <1>5, <2>1, ColumnPieces, Zenon
<1> HIDE DEF X4
<1>7. /\ IsBits(X5, l4 + le)
      /\ \A n, w \in Nat : \A p, v : ColumnAt(X4, p, n, w, v) => ColumnAt(X5, p, n, w, v)
      /\ \A n, w \in Nat : \A p, v : ColumnAt(e, p, n, w, v) => ColumnAt(X5, l4 + p, n, w, v)
  <2>1. IsBits(X5, l4 + le)
    BY <1>6, TwoPieces, Zenon
  <2> QED
    BY <1>6, <2>1, ColumnPieces, Zenon
<1> HIDE DEF X5
<1>8. \A n, w \in Nat : \A v : /\ ColumnAt(a, 0, n, w, v) => ColumnAt(X5, 0, n, w, v)
                               /\ ColumnAt(b, 0, n, w, v) => ColumnAt(X5, la, n, w, v)
                               /\ ColumnAt(e, 0, n, w, v) => ColumnAt(X5, l4, n, w, v)
  BY <1>3, <1>4, <1>5, <1>6, <1>7
<1>9. X5 = a \o b \o c \o d \o e
  BY Zenon DEF X2, X3, X4, X5
<1> QED
  BY <1>1, <1>7, <1>8, <1>9, Zenon

\* What the columns of the cells hold
CellVals(m, name) ==
    LET cell == Present(m.sats, m.sigs, m.cells)
    IN [k \in 1..Len(cell) |-> IF name = "pr" /\ cell[k] \in m.void THEN NotGiven
                               ELSE <<name, m.sys, cell[k], m.tow>>]

\* The columns of the cells are in their places.
CellColumnsAt(bits, n, kind, pr, cp, cnr, frate) ==
    /\ kind = 4 => /\ IsBits(bits, n * 48)
                   /\ ColumnAt(bits, 0, n, 15, pr) /\ ColumnAt(bits, n * 15, n, 22, cp)
                   /\ ColumnAt(bits, n * 15 + n * 22 + n * 4 + n * 1, n, 6, cnr)
    /\ kind # 4 => /\ IsBits(bits, n * 80)
                   /\ ColumnAt(bits, 0, n, 20, pr) /\ ColumnAt(bits, n * 20, n, 24, cp)
                   /\ ColumnAt(bits, n * 20 + n * 24 + n * 10 + n * 1, n, 10, cnr)
                   /\ ColumnAt(bits, n * 20 + n * 24 + n * 10 + n * 1 + n * 10, n, 15, frate)

\* They are there in either kind of message.
LEMMA CellColumns ==
    ASSUME NEW m, NEW n \in Nat, n = Len(Present(m.sats, m.sigs, m.cells))
    PROVE  CellColumnsAt(CellBits(m), n, m.kind, CellVals(m, "pr"), CellVals(m, "cp"),
                         CellVals(m, "cnr"), CellVals(m, "frate"))
<1> DEFINE cell == Present(m.sats, m.sigs, m.cells)
           Col(w, name) == Laid([k \in 1..Len(cell) |->
                Bits(w, IF name = "pr" /\ cell[k] \in m.void THEN NotGiven
                        ELSE <<name, m.sys, cell[k], m.tow>>)])
<1>1. ASSUME NEW w \in Nat \ {0}, NEW name
      PROVE  IsBits(Col(w, name), n * w) /\ ColumnAt(Col(w, name), 0, n, w, CellVals(m, name))
  <2> DEFINE fields == [k \in 1..Len(cell) |->
                Bits(w, IF name = "pr" /\ cell[k] \in m.void THEN NotGiven
                        ELSE <<name, m.sys, cell[k], m.tow>>)]
  <2>1. DOMAIN fields = 1..n
    OBVIOUS
  <2>2. \A k \in 1..n : fields[k].w = w /\ fields[k].v = CellVals(m, name)[k]
    BY DEF Bits, CellVals
  <2>3. Col(w, name) = Laid(fields)
    OBVIOUS
  <2> HIDE DEF fields, Col, cell
  <2> QED
    BY <2>1, <2>2, <2>3, ColumnIs, Zenon
<1>2. CellBits(m) =
        IF m.kind = 4
        THEN Col(15, "pr") \o Col(22, "cp") \o Col(4, "lock") \o Col(1, "half") \o Col(6, "cnr")
        ELSE Col(20, "pr") \o Col(24, "cp") \o Col(10, "lock") \o Col(1, "half") \o Col(10, "cnr")
               \o Col(15, "frate")
  BY Zenon DEF CellBits
<1> HIDE DEF Col, cell
<1>3. PICK pr, cp, cnr, frate : /\ pr = CellVals(m, "pr") /\ cp = CellVals(m, "cp")
                                /\ cnr = CellVals(m, "cnr") /\ frate = CellVals(m, "frate")
  OBVIOUS
<1>4. CASE m.kind = 4
  <2>1. /\ IsBits(Col(15, "pr"), n * 15) /\ ColumnAt(Col(15, "pr"), 0, n, 15, pr)
        /\ IsBits(Col(22, "cp"), n * 22) /\ ColumnAt(Col(22, "cp"), 0, n, 22, cp)
        /\ IsBits(Col(4, "lock"), n * 4) /\ IsBits(Col(1, "half"), n * 1)
        /\ IsBits(Col(6, "cnr"), n * 6) /\ ColumnAt(Col(6, "cnr"), 0, n, 6, cnr)
    BY <1>1, <1>3
  <2>2. PICK X : X = Col(15, "pr") \o Col(22, "cp") \o Col(4, "lock") \o Col(1, "half") \o Col(6, "cnr")
    OBVIOUS
  <2>3. /\ IsBits(X, n * 15 + n * 22 + n * 4 + n * 1 + n * 6)
        /\ \A z, w \in Nat : \A v :
             /\ ColumnAt(Col(15, "pr"), 0, z, w, v) => ColumnAt(X, 0, z, w, v)
             /\ ColumnAt(Col(22, "cp"), 0, z, w, v) => ColumnAt(X, n * 15, z, w, v)
             /\ ColumnAt(Col(6, "cnr"), 0, z, w, v) => ColumnAt(X, n * 15 + n * 22 + n * 4 + n * 1, z, w, v)
    <3>1. PICK la, lb, lc, ld, le : /\ la = n * 15 /\ lb = n * 22 /\ lc = n * 4
                                    /\ ld = n * 1 /\ le = n * 6
      OBVIOUS
    <3>2. PICK A, B, C, D, E : /\ A = Col(15, "pr") /\ B = Col(22, "cp") /\ C = Col(4, "lock")
                               /\ D = Col(1, "half") /\ E = Col(6, "cnr")
      OBVIOUS
    <3>3. IsBits(A, la) /\ IsBits(B, lb) /\ IsBits(C, lc) /\ IsBits(D, ld) /\ IsBits(E, le)
      BY <2>1, <3>1, <3>2
    <3>4. X = A \o B \o C \o D \o E
      BY <2>2, <3>2
    <3>5. /\ IsBits(X, la + lb + lc + ld + le)
          /\ \A z, w \in Nat : \A v :
               /\ ColumnAt(A, 0, z, w, v) => ColumnAt(X, 0, z, w, v)
               /\ ColumnAt(B, 0, z, w, v) => ColumnAt(X, la, z, w, v)
               /\ ColumnAt(E, 0, z, w, v) => ColumnAt(X, la + lb + lc + ld, z, w, v)
      BY <3>3, <3>4, FiveColumns, Zenon
    <3> QED
      BY <3>1, <3>2, <3>5
  <2>4. n * 15 + n * 22 + n * 4 + n * 1 + n * 6 = n * 48
    OBVIOUS
  <2>5. IsBits(X, n * 48)
    BY <2>3, <2>4
  <2>6. /\ ColumnAt(X, 0, n, 15, pr) /\ ColumnAt(X, n * 15, n, 22, cp)
        /\ ColumnAt(X, n * 15 + n * 22 + n * 4 + n * 1, n, 6, cnr)
    <3>1. 15 \in Nat /\ 22 \in Nat /\ 6 \in Nat
      OBVIOUS
    <3> QED
      BY <2>1, <2>3, <3>1, Zenon
  <2>7. X = CellBits(m)
    BY <1>2, <1>4, <2>2
  <2> QED
    BY <1>3, <1>4, <2>5, <2>6, <2>7 DEF CellColumnsAt
<1>5. CASE m.kind # 4
  <2>1. /\ IsBits(Col(20, "pr"), n * 20) /\ ColumnAt(Col(20, "pr"), 0, n, 20, pr)
        /\ IsBits(Col(24, "cp"), n * 24) /\ ColumnAt(Col(24, "cp"), 0, n, 24, cp)
        /\ IsBits(Col(10, "lock"), n * 10) /\ IsBits(Col(1, "half"), n * 1)
        /\ IsBits(Col(10, "cnr"), n * 10) /\ ColumnAt(Col(10, "cnr"), 0, n, 10, cnr)
        /\ IsBits(Col(15, "frate"), n * 15) /\ ColumnAt(Col(15, "frate"), 0, n, 15, frate)
    BY <1>1, <1>3
  <2>2. PICK X : X = Col(20, "pr") \o Col(24, "cp") \o Col(10, "lock") \o Col(1, "half") \o Col(10, "cnr")
    OBVIOUS
  <2>3. /\ IsBits(X, n * 20 + n * 24 + n * 10 + n * 1 + n * 10)
        /\ \A z, w \in Nat : \A v :
             /\ ColumnAt(Col(20, "pr"), 0, z, w, v) => ColumnAt(X, 0, z, w, v)
             /\ ColumnAt(Col(24, "cp"), 0, z, w, v) => ColumnAt(X, n * 20, z, w, v)
             /\ ColumnAt(Col(10, "cnr"), 0, z, w, v) => ColumnAt(X, n * 20 + n * 24 + n * 10 + n * 1, z, w, v)
    <3>1. PICK la, lb, lc, ld, le : /\ la = n * 20 /\ lb = n * 24 /\ lc = n * 10
                                    /\ ld = n * 1 /\ le = n * 10
      OBVIOUS
    <3>2. PICK A, B, C, D, E : /\ A = Col(20, "pr") /\ B = Col(24, "cp") /\ C = Col(10, "lock")
                               /\ D = Col(1, "half") /\ E = Col(10, "cnr")
      OBVIOUS
    <3>3. IsBits(A, la) /\ IsBits(B, lb) /\ IsBits(C, lc) /\ IsBits(D, ld) /\ IsBits(E, le)
      BY <2>1, <3>1, <3>2
    <3>4. X = A \o B \o C \o D \o E
      BY <2>2, <3>2
    <3>5. /\ IsBits(X, la + lb + lc + ld + le)
          /\ \A z, w \in Nat : \A v :
               /\ ColumnAt(A, 0, z, w, v) => ColumnAt(X, 0, z, w, v)
               /\ ColumnAt(B, 0, z, w, v) => ColumnAt(X, la, z, w, v)
               /\ ColumnAt(E, 0, z, w, v) => ColumnAt(X, la + lb + lc + ld, z, w, v)
      BY <3>3, <3>4, FiveColumns, Zenon
    <3> QED
      BY <3>1, <3>2, <3>5
  <2>4. PICK e : e = n * 20 + n * 24 + n * 10 + n * 1 + n * 10
    OBVIOUS
  <2>5. e + n * 15 = n * 80 /\ e + 0 = e
    BY <2>4
  <2>6. PICK Y : Y = X \o Col(15, "frate")
    OBVIOUS
  <2>7. 20 \in Nat /\ 24 \in Nat /\ 10 \in Nat /\ 15 \in Nat
    OBVIOUS
  <2>8. /\ ColumnAt(X, 0, n, 20, pr) /\ ColumnAt(X, n * 20, n, 24, cp)
        /\ ColumnAt(X, n * 20 + n * 24 + n * 10 + n * 1, n, 10, cnr)
    BY <2>1, <2>3, <2>7, Zenon
  <2>9. IsBits(X, e)
    BY <2>3, <2>4
  <2>10. /\ IsBits(Y, e + n * 15)
         /\ \A w \in Nat : \A p, v : ColumnAt(X, p, n, w, v) => ColumnAt(Y, p, n, w, v)
         /\ \A w \in Nat : \A p, v : ColumnAt(Col(15, "frate"), p, n, w, v) => ColumnAt(Y, e + p, n, w, v)
    <3>1. IsBits(Y, e + n * 15)
      BY <2>1, <2>6, <2>9, TwoPieces, Zenon
    <3> QED
      BY <2>1, <2>6, <2>9, <3>1, ColumnPieces, Zenon
  <2>11. /\ ColumnAt(Y, 0, n, 20, pr) /\ ColumnAt(Y, n * 20, n, 24, cp)
         /\ ColumnAt(Y, n * 20 + n * 24 + n * 10 + n * 1, n, 10, cnr)
         /\ ColumnAt(Y, e + 0, n, 15, frate)
    BY <2>1, <2>7, <2>8, <2>10, Zenon
  <2>12. Y = CellBits(m)
    BY <1>2, <1>5, <2>2, <2>6
  <2> QED
    BY <1>3, <1>5, <2>4, <2>5, <2>10, <2>11, <2>12 DEF CellColumnsAt
<1> QED
  BY <1>4, <1>5

\* The columns of the satellites begin at b of the whole message, those of the cells after e more.
ColumnsAt(m, frame, b, e) ==
    /\ \A n, w \in Nat : \A p, v :
        ColumnAt(SatelliteBits(m), p, n, w, v) => ColumnAt(frame, b + p, n, w, v)
    /\ \A n, w \in Nat : \A p, v :
        ColumnAt(CellBits(m), p, n, w, v) => ColumnAt(frame, (b + e) + p, n, w, v)

\* Where they are
LEMMA FramePieces ==
    ASSUME NEW m \in Observations, NEW frame, frame = MsmBits(m), NEW b, b = 169 + CellsOf(m),
           NEW ns, ns = Len(m.sats) * OfKind(m, 18, 36)
    PROVE  ColumnsAt(m, frame, b, ns)
<1> DEFINE k == Laid(<<Bits(12, m.kind), Bits(12, 0)>>)
           t == Laid(SentTime(m))
           h == MaskBits(m)
           s == SatelliteBits(m)
           c == CellBits(m)
           nc == HasCells(m) * OfKind(m, 48, 80)
           n == CellsOf(m)
<1>1. frame = k \o t \o h \o s \o c
  BY Zenon DEF MsmBits
<1>2. IsBits(k, 24)
  BY KindLaid, Zenon
<1>3. IsBits(t, 30)
  BY TimeLaid
<1>4. n \in Nat \ {0} /\ Len(m.sats) \in Nat /\ HasCells(m) \in Nat
  BY CellNumbers
<1>5. IsBits(h, 115 + n)
  BY <1>4, MaskLaid
<1>6. IsBits(s, ns)
  BY <1>4, SatelliteLength DEF OfKind
<1>7. IsBits(c, nc)
  BY <1>4, CellNumbers, CellLength DEF OfKind
<1> HIDE DEF k, t, h, s, c, nc
<1>8. IsBits(k \o t, 54)
  <2>1. PICK x, y : x = 24 /\ y = 30
    OBVIOUS
  <2>2. IsBits(k \o t, x + y)
    BY <1>2, <1>3, <2>1, TwoPieces
  <2> QED
    BY <2>1, <2>2
<1>9. IsBits(k \o t \o h, b)
  <2>1. PICK x, y : x = 54 /\ y = 115 + n
    OBVIOUS
  <2>2. IsBits(k \o t \o h, x + y)
    BY <1>5, <1>8, <2>1, TwoPieces
  <2>3. x + y = b
    BY <1>4, <2>1
  <2> QED
    BY <2>2, <2>3
<1> DEFINE H == k \o t \o h
<1>10. IsBits(H, b) /\ frame = H \o s \o c
  BY <1>1, <1>9
<1> HIDE DEF H
<1>11. /\ IsBits(H \o s, b + ns)
       /\ \A z, w \in Nat : \A p, v : ColumnAt(s, p, z, w, v) => ColumnAt(H \o s, b + p, z, w, v)
  <2>1. IsBits(H \o s, b + ns)
    BY <1>6, <1>10, TwoPieces, Zenon
  <2> QED
    BY <1>6, <1>10, <2>1, ColumnPieces, Zenon
<1>12. PICK X, L : X = H \o s /\ L = b + ns
  OBVIOUS
<1>13. IsBits(X, L) /\ frame = X \o c
  BY <1>10, <1>11, <1>12
<1>14. /\ \A z, w \in Nat : \A p, v : ColumnAt(X, p, z, w, v) => ColumnAt(X \o c, p, z, w, v)
       /\ \A z, w \in Nat : \A p, v : ColumnAt(c, p, z, w, v) => ColumnAt(X \o c, L + p, z, w, v)
  BY <1>7, <1>13, ColumnPieces, Zenon
<1>15. ASSUME NEW z \in Nat, NEW w \in Nat, NEW p, NEW v, ColumnAt(s, p, z, w, v)
       PROVE  ColumnAt(frame, b + p, z, w, v)
  <2>1. ColumnAt(H \o s, b + p, z, w, v)
    BY <1>11, <1>15, Zenon
  <2>2. ColumnAt(X, b + p, z, w, v)
    BY <1>12, <2>1, Zenon
  <2>3. ColumnAt(X \o c, b + p, z, w, v)
    BY <1>14, <2>2, Zenon
  <2> QED
    BY <1>13, <2>3, Zenon
<1>16. ASSUME NEW z \in Nat, NEW w \in Nat, NEW p, NEW v, ColumnAt(c, p, z, w, v)
       PROVE  ColumnAt(frame, (b + ns) + p, z, w, v)
  <2>1. ColumnAt(X \o c, L + p, z, w, v)
    BY <1>14, <1>16, Zenon
  <2> QED
    BY <1>12, <1>13, <2>1, Zenon
<1> QED
  BY <1>15, <1>16, Zenon DEF s, c, ColumnsAt

\* The columns that decode_msm4 and decode_msm7 read
ReadColumns(m, col, ns, nc) ==
    /\ IsColumn(col.rng, ns, SatelliteVals(m, "rng")) /\ IsColumn(col.mod, ns, SatelliteVals(m, "mod"))
    /\ m.kind = 7 => IsColumn(col.rate, ns, SatelliteVals(m, "rate"))
    /\ IsColumn(col.pr, nc, CellVals(m, "pr")) /\ IsColumn(col.cp, nc, CellVals(m, "cp"))
    /\ IsColumn(col.cnr, nc, CellVals(m, "cnr"))
    /\ m.kind = 7 => IsColumn(col.frate, nc, CellVals(m, "frate"))

\* decode_msm4 and decode_msm7 find every column.
LEMMA ColumnsRead ==
    ASSUME NEW m \in Observations, NEW h, HeadOf(m, h),
           NEW col, col = IF m.kind = 7 THEN Columns7(MsmBits(m), h) ELSE Columns4(MsmBits(m), h)
    PROVE  ReadColumns(m, col, Len(m.sats), HasCells(m))
<1>1. PICK frame : frame = MsmBits(m)
  OBVIOUS
<1>2. PICK N, ns, nc : N = CellsOf(m) /\ ns = Len(m.sats) /\ nc = HasCells(m)
  OBVIOUS
<1>3. N \in Nat /\ ns \in Nat /\ nc \in Nat /\ nc = Len(Present(m.sats, m.sigs, m.cells))
  BY <1>2, CellNumbers
<1>4. h.hsize = 193 + N /\ Len(h.sats) = ns /\ h.ncell = nc
  BY <1>2 DEF HeadOf
<1>5. m.kind = 4 \/ m.kind = 7
  <2>1. m.kind \in {4, 7}
    BY ObservationsAssumption, Zenon
  <2> QED
    BY <2>1
<1>6. \A p, pos, v : \A n, w \in Nat :
        ColumnAt(frame, p, n, w, v) /\ pos = p + 24 => IsColumn(Column(frame, pos, n, w), n, v)
  <2> SUFFICES ASSUME NEW p, NEW pos, NEW v, NEW n \in Nat, NEW w \in Nat,
                      ColumnAt(frame, p, n, w, v), pos = p + 24
               PROVE  IsColumn(Column(frame, pos, n, w), n, v)
    OBVIOUS
  <2> QED
    BY ColumnReads
<1>7. PICK rng, mod, rate : /\ rng = SatelliteVals(m, "rng") /\ mod = SatelliteVals(m, "mod")
                            /\ rate = SatelliteVals(m, "rate")
  OBVIOUS
<1>8. PICK pr, cp, cnr, frate : /\ pr = CellVals(m, "pr") /\ cp = CellVals(m, "cp")
                                /\ cnr = CellVals(m, "cnr") /\ frate = CellVals(m, "frate")
  OBVIOUS
<1>9. CellColumnsAt(CellBits(m), nc, m.kind, pr, cp, cnr, frate)
  BY <1>3, <1>8, CellColumns
<1>10. CASE m.kind = 4
  <2>1. PICK b, e : b = 169 + N /\ e = ns * 18
    OBVIOUS
  <2>2. /\ \A n, w \in Nat : \A p, v :
             ColumnAt(SatelliteBits(m), p, n, w, v) => ColumnAt(frame, b + p, n, w, v)
        /\ \A n, w \in Nat : \A p, v :
             ColumnAt(CellBits(m), p, n, w, v) => ColumnAt(frame, (b + e) + p, n, w, v)
    <3>1. e = Len(m.sats) * OfKind(m, 18, 36) /\ b = 169 + CellsOf(m)
      BY <1>2, <1>10, <2>1 DEF OfKind
    <3>2. ColumnsAt(m, frame, b, e)
      BY <1>1, <3>1, FramePieces, Zenon
    <3> QED
      BY <3>2, Zenon DEF ColumnsAt
  <2>3. /\ ColumnAt(frame, b + 0, ns, 8, rng) /\ ColumnAt(frame, b + ns * 8, ns, 10, mod)
    <3>1. /\ ColumnAt(SatelliteBits(m), 0, ns, 8, rng) /\ ColumnAt(SatelliteBits(m), ns * 8, ns, 10, mod)
      BY <1>2, <1>3, <1>7, <1>10, SatelliteColumns
    <3> QED
      BY <1>3, <2>2, <3>1
  <2>4. /\ ColumnAt(frame, (b + e) + 0, nc, 15, pr) /\ ColumnAt(frame, (b + e) + nc * 15, nc, 22, cp)
        /\ ColumnAt(frame, (b + e) + (nc * 15 + nc * 22 + nc * 4 + nc * 1), nc, 6, cnr)
    <3>1. /\ ColumnAt(CellBits(m), 0, nc, 15, pr) /\ ColumnAt(CellBits(m), nc * 15, nc, 22, cp)
          /\ ColumnAt(CellBits(m), nc * 15 + nc * 22 + nc * 4 + nc * 1, nc, 6, cnr)
      BY <1>9, <1>10 DEF CellColumnsAt
    <3> QED
      BY <1>3, <2>2, <3>1
  <2>5. /\ col.rng = Column(frame, h.hsize, ns, 8)
        /\ col.mod = Column(frame, h.hsize + ns * 8, ns, 10)
        /\ col.pr = Column(frame, (h.hsize + ns * 18), nc, 15)
        /\ col.cp = Column(frame, (h.hsize + ns * 18) + nc * 15, nc, 22)
        /\ col.cnr = Column(frame, (h.hsize + ns * 18) + nc * 42, nc, 6)
    BY <1>1, <1>4, <1>10 DEF Columns4
  <2>6. /\ h.hsize = (b + 0) + 24 /\ h.hsize + ns * 8 = (b + ns * 8) + 24
        /\ h.hsize + ns * 18 = ((b + e) + 0) + 24
        /\ (h.hsize + ns * 18) + nc * 15 = ((b + e) + nc * 15) + 24
        /\ (h.hsize + ns * 18) + nc * 42 = ((b + e) + (nc * 15 + nc * 22 + nc * 4 + nc * 1)) + 24
    BY <1>3, <1>4, <2>1
  <2>7. IsColumn(col.rng, ns, rng) /\ IsColumn(col.mod, ns, mod)
    BY <1>3, <1>6, <2>3, <2>5, <2>6
  <2>8. IsColumn(col.pr, nc, pr) /\ IsColumn(col.cp, nc, cp) /\ IsColumn(col.cnr, nc, cnr)
    <3>1. IsColumn(col.pr, nc, pr)
      BY <1>3, <1>6, <2>4, <2>5, <2>6, SMTT(30)
    <3>2. IsColumn(col.cp, nc, cp)
      BY <1>3, <1>6, <2>4, <2>5, <2>6, SMTT(30)
    <3>3. IsColumn(col.cnr, nc, cnr)
      BY <1>3, <1>6, <2>4, <2>5, <2>6, SMTT(30)
    <3> QED
      BY <3>1, <3>2, <3>3
  <2>9. m.kind # 7
    BY <1>10
  <2> QED
    BY <1>2, <1>7, <1>8, <2>7, <2>8, <2>9, Zenon DEF ReadColumns
<1>11. CASE m.kind = 7
  <2>1. PICK b, e : b = 169 + N /\ e = ns * 36
    OBVIOUS
  <2>2. /\ \A n, w \in Nat : \A p, v :
             ColumnAt(SatelliteBits(m), p, n, w, v) => ColumnAt(frame, b + p, n, w, v)
        /\ \A n, w \in Nat : \A p, v :
             ColumnAt(CellBits(m), p, n, w, v) => ColumnAt(frame, (b + e) + p, n, w, v)
    <3>1. e = Len(m.sats) * OfKind(m, 18, 36) /\ b = 169 + CellsOf(m)
      BY <1>2, <1>11, <2>1 DEF OfKind
    <3>2. ColumnsAt(m, frame, b, e)
      BY <1>1, <3>1, FramePieces, Zenon
    <3> QED
      BY <3>2, Zenon DEF ColumnsAt
  <2>3. /\ ColumnAt(frame, b + 0, ns, 8, rng) /\ ColumnAt(frame, b + (ns * 8 + ns * 4), ns, 10, mod)
        /\ ColumnAt(frame, b + (ns * 8 + ns * 4 + ns * 10), ns, 14, rate)
    <3>1. /\ ColumnAt(SatelliteBits(m), 0, ns, 8, rng)
          /\ ColumnAt(SatelliteBits(m), ns * 8 + ns * 4, ns, 10, mod)
          /\ ColumnAt(SatelliteBits(m), ns * 8 + ns * 4 + ns * 10, ns, 14, rate)
      BY <1>2, <1>3, <1>7, <1>11, SatelliteColumns
    <3> QED
      BY <1>3, <2>2, <3>1
  <2>4. /\ ColumnAt(frame, (b + e) + 0, nc, 20, pr) /\ ColumnAt(frame, (b + e) + nc * 20, nc, 24, cp)
        /\ ColumnAt(frame, (b + e) + (nc * 20 + nc * 24 + nc * 10 + nc * 1), nc, 10, cnr)
        /\ ColumnAt(frame, (b + e) + (nc * 20 + nc * 24 + nc * 10 + nc * 1 + nc * 10), nc, 15, frate)
    <3>1. /\ ColumnAt(CellBits(m), 0, nc, 20, pr) /\ ColumnAt(CellBits(m), nc * 20, nc, 24, cp)
          /\ ColumnAt(CellBits(m), nc * 20 + nc * 24 + nc * 10 + nc * 1, nc, 10, cnr)
          /\ ColumnAt(CellBits(m), nc * 20 + nc * 24 + nc * 10 + nc * 1 + nc * 10, nc, 15, frate)
      BY <1>9, <1>11 DEF CellColumnsAt
    <3> QED
      BY <1>3, <2>2, <3>1
  <2> DEFINE mpos == h.hsize + ns * 8 + ns * 4
             rpos == mpos + ns * 10
             i == rpos + ns * 14
             phPos == i + nc * 20
             lckPos == phPos + nc * 24
             cylPos == lckPos + nc * 10
             cnrPos == cylPos + nc
  <2>5. /\ col.rng = Column(frame, h.hsize, ns, 8)
        /\ col.mod = Column(frame, mpos, ns, 10)
        /\ col.rate = Column(frame, rpos, ns, 14)
        /\ col.pr = Column(frame, i, nc, 20)
        /\ col.cp = Column(frame, phPos, nc, 24)
        /\ col.cnr = Column(frame, cnrPos, nc, 10)
        /\ col.frate = Column(frame, cnrPos + nc * 10, nc, 15)
    BY <1>1, <1>4, <1>11 DEF Columns7
  <2>6. /\ h.hsize = (b + 0) + 24 /\ mpos = (b + (ns * 8 + ns * 4)) + 24
        /\ rpos = (b + (ns * 8 + ns * 4 + ns * 10)) + 24
        /\ i = ((b + e) + 0) + 24 /\ phPos = ((b + e) + nc * 20) + 24
        /\ cnrPos = ((b + e) + (nc * 20 + nc * 24 + nc * 10 + nc * 1)) + 24
        /\ cnrPos + nc * 10 = ((b + e) + (nc * 20 + nc * 24 + nc * 10 + nc * 1 + nc * 10)) + 24
    BY <1>3, <1>4, <2>1
  <2> HIDE DEF mpos, rpos, i, phPos, lckPos, cylPos, cnrPos
  <2>7. IsColumn(col.rng, ns, rng) /\ IsColumn(col.mod, ns, mod) /\ IsColumn(col.rate, ns, rate)
    <3>1. IsColumn(col.rng, ns, rng)
      BY <1>3, <1>6, <2>3, <2>5, <2>6, SMTT(30)
    <3>2. IsColumn(col.mod, ns, mod)
      BY <1>3, <1>6, <2>3, <2>5, <2>6, SMTT(30)
    <3>3. IsColumn(col.rate, ns, rate)
      BY <1>3, <1>6, <2>3, <2>5, <2>6, SMTT(30)
    <3> QED
      BY <3>1, <3>2, <3>3
  <2>8. IsColumn(col.pr, nc, pr) /\ IsColumn(col.cp, nc, cp) /\ IsColumn(col.cnr, nc, cnr)
    <3>1. IsColumn(col.pr, nc, pr)
      BY <1>3, <1>6, <2>4, <2>5, <2>6, SMTT(30)
    <3>2. IsColumn(col.cp, nc, cp)
      BY <1>3, <1>6, <2>4, <2>5, <2>6, SMTT(30)
    <3>3. IsColumn(col.cnr, nc, cnr)
      BY <1>3, <1>6, <2>4, <2>5, <2>6, SMTT(30)
    <3> QED
      BY <3>1, <3>2, <3>3
  <2>9. IsColumn(col.frate, nc, frate)
    BY <1>3, <1>6, <2>4, <2>5, <2>6
  <2> QED
    BY <1>2, <1>7, <1>8, <2>7, <2>8, <2>9, Zenon DEF ReadColumns
<1> QED
  BY <1>5, <1>10, <1>11

-----------------------------------------------------------------------------
(* The loops over the cells of a message.                                   *)

\* N counts the cells that are present up to each.
Counts(m, N) ==
    /\ N[0] = 0
    /\ \A k \in 0..CellsOf(m) : N[k] \in Nat
    /\ \A k \in 1..CellsOf(m) :
        /\ CellAt(m.sats, m.sigs, k) \notin m.cells => N[k] = N[k - 1]
        /\ CellAt(m.sats, m.sigs, k) \in m.cells =>
             /\ N[k] = N[k - 1] + 1
             /\ N[k] \in 1..HasCells(m)
             /\ Present(m.sats, m.sigs, m.cells)[N[k]] = CellAt(m.sats, m.sigs, k)

\* b is a with something behind it.
StartsWith(a, b) == Len(a) <= Len(b) /\ \A i \in 1..Len(a) : b[i] = a[i]

\* The n-th cell present is found at n.
LEMMA PresentAt == ASSUME NEW m \in Observations PROVE \E N : Counts(m, N)
<1> DEFINE at(k) == CellAt(m.sats, m.sigs, k)
           S == {at(k) : k \in 1..CellsOf(m)}
           s == [k \in 1..CellsOf(m) |-> IF at(k) \in m.cells THEN <<at(k)>> ELSE <<>>]
           F == [k \in 0..Len(s) |-> FlattenSeq(SubSeq(s, 1, k))]
<1>0. PICK n \in Nat : n = CellsOf(m)
  BY CellNumbers
<1>1. Present(m.sats, m.sigs, m.cells) = FlattenSeq(s)
  BY Zenon DEF Present, CellsOf
<1>2. ASSUME NEW k \in 1..n
      PROVE  s[k] \in Seq(S) /\ s[k] = IF at(k) \in m.cells THEN <<at(k)>> ELSE <<>>
  <2>1. at(k) \in S
    BY <1>0
  <2> HIDE DEF S
  <2> QED
    BY <1>0, <2>1
<1>3. s \in Seq(Seq(S)) /\ Len(s) = n
  <2>1. s \in [1..n -> Seq(S)]
    BY <1>0, <1>2
  <2> HIDE DEF s, S
  <2> QED
    BY <2>1, TupleIsSeq, Zenon
<1> HIDE DEF s, S
<1>4. Flattened(S, s, F)
  BY <1>3, Flattening, Zenon
<1>5. /\ F[0] = <<>> /\ F[n] = FlattenSeq(s)
      /\ \A k \in 0..(n - 1) : F[k + 1] = Joined(F[k], s[k + 1])
      /\ \A k \in 0..n : F[k] \in Seq(S)
  BY <1>3, <1>4, Zenon DEF Flattened
<1> HIDE DEF F
<1>6. \A k \in 0..n : Len(F[k]) \in Nat
  BY <1>5
<1>7. ASSUME NEW k \in 0..(n - 1)
      PROVE  /\ StartsWith(F[k], F[k + 1])
             /\ at(k + 1) \notin m.cells => Len(F[k + 1]) = Len(F[k])
             /\ at(k + 1) \in m.cells => /\ Len(F[k + 1]) = Len(F[k]) + 1
                                         /\ F[k + 1][Len(F[k]) + 1] = at(k + 1)
  <2>1. k \in 0..n /\ k + 1 \in 0..n /\ k + 1 \in 1..n
    OBVIOUS
  <2>2. PICK u, v, w : u = F[k] /\ v = s[k + 1] /\ w = F[k + 1]
    OBVIOUS
  <2>3. u \in Seq(S) /\ v \in Seq(S) /\ w = Joined(u, v)
    BY <1>2, <1>5, <2>1, <2>2, Zenon
  <2>4. /\ Len(w) = Len(u) + Len(v) /\ Len(u) \in Nat /\ Len(v) \in Nat
        /\ \A i \in 1..(Len(u) + Len(v)) : w[i] = IF i <= Len(u) THEN u[i] ELSE v[i - Len(u)]
    <3>1. Len(u) \in Nat /\ Len(v) \in Nat
      BY <2>3
    <3> QED
      BY <2>3, <3>1, Row, Zenon
  <2>5. StartsWith(u, w)
    BY <2>4 DEF StartsWith
  <2>6. v = IF at(k + 1) \in m.cells THEN <<at(k + 1)>> ELSE <<>>
    BY <1>2, <2>1, <2>2, Zenon
  <2>7. CASE at(k + 1) \in m.cells
    <3>1. Len(v) = 1 /\ v[1] = at(k + 1)
      BY <2>6, <2>7
    <3>2. Len(u) + 1 \in 1..(Len(u) + Len(v)) /\ ~(Len(u) + 1 <= Len(u)) /\ (Len(u) + 1) - Len(u) = 1
      BY <2>4, <3>1
    <3>3. w[Len(u) + 1] = at(k + 1) /\ Len(w) = Len(u) + 1
      BY <2>4, <3>1, <3>2
    <3> QED
      BY <2>2, <2>5, <2>7, <3>3
  <2>8. CASE at(k + 1) \notin m.cells
    <3>1. Len(v) = 0
      BY <2>6, <2>8
    <3> QED
      BY <2>2, <2>4, <2>5, <2>8, <3>1
  <2> QED
    BY <2>7, <2>8
<1>8. ASSUME NEW k \in 0..n PROVE StartsWith(F[k], F[n])
  <2> DEFINE T == {j \in 0..n : j >= k => StartsWith(F[k], F[j])}
  <2>1. \A j \in 0..n : j = k => StartsWith(F[k], F[j])
    <3>1. StartsWith(F[k], F[k])
      BY <1>6 DEF StartsWith
    <3> QED
      BY <3>1
  <2>2. 0 \in T
    BY <2>1
  <2>3. ASSUME NEW j \in 0..(n - 1), j \in T PROVE j + 1 \in T
    <3>1. CASE j + 1 <= k
      BY <2>1, <3>1
    <3>2. CASE j + 1 > k
      <4>1. StartsWith(F[k], F[j]) /\ StartsWith(F[j], F[j + 1]) /\ j \in 0..n /\ j + 1 \in 0..n
        BY <1>7, <2>3, <3>2
      <4>2. Len(F[k]) \in Nat /\ Len(F[j]) \in Nat /\ Len(F[j + 1]) \in Nat
        BY <1>6, <4>1
      <4>3. StartsWith(F[k], F[j + 1])
        BY <4>1, <4>2 DEF StartsWith
      <4> QED
        BY <4>1, <4>3
    <3> QED
      BY <3>1, <3>2
  <2> HIDE DEF T
  <2>4. 0..n \subseteq T
    BY <2>2, <2>3, UpTo
  <2>5. n \in T
    BY <2>4
  <2> QED
    BY <2>5 DEF T
<1> DEFINE N == [k \in 0..n |-> Len(F[k])]
<1>9. HasCells(m) = Len(F[n])
  BY <1>1, <1>5, CellNumbers
<1>10. \A k \in 0..n : N[k] = Len(F[k])
  OBVIOUS
<1> HIDE DEF N
<1>11. N[0] = 0
  BY <1>5, <1>10
<1>12. \A k \in 0..n : N[k] \in Nat
  BY <1>6, <1>10
<1>13. ASSUME NEW k \in 1..n
       PROVE  /\ at(k) \notin m.cells => N[k] = N[k - 1]
              /\ at(k) \in m.cells => N[k] = N[k - 1] + 1 /\ N[k] \in 1..HasCells(m) /\ F[n][N[k]] = at(k)
  <2>1. PICK j \in 0..(n - 1) : k = j + 1 /\ j = k - 1
    <3>1. k - 1 \in 0..(n - 1) /\ k = (k - 1) + 1
      OBVIOUS
    <3> QED
      BY <3>1
  <2>2. j \in 0..n /\ j + 1 \in 0..n /\ n \in 0..n
    BY <2>1
  <2>3. N[k] = Len(F[j + 1]) /\ N[k - 1] = Len(F[j])
    BY <1>10, <2>1, <2>2
  <2>4. CASE at(j + 1) \notin m.cells
    BY <1>7, <2>1, <2>3, <2>4
  <2>5. CASE at(j + 1) \in m.cells
    <3>1. Len(F[j + 1]) = Len(F[j]) + 1 /\ F[j + 1][Len(F[j]) + 1] = at(j + 1)
      BY <1>7, <2>5
    <3>2. StartsWith(F[j + 1], F[n]) /\ Len(F[j + 1]) \in Nat /\ Len(F[j]) \in Nat /\ Len(F[n]) \in Nat
      BY <1>6, <1>8, <2>2
    <3>3. N[k] \in 1..Len(F[j + 1]) /\ N[k] \in 1..Len(F[n])
      BY <2>3, <3>1, <3>2 DEF StartsWith
    <3>4. F[n][N[k]] = at(j + 1)
      BY <2>3, <3>1, <3>2, <3>3 DEF StartsWith
    <3> QED
      BY <1>9, <2>1, <2>3, <2>5, <3>1, <3>3, <3>4
  <2> QED
    BY <2>1, <2>4, <2>5
<1>14. Counts(m, N)
  BY <1>0, <1>1, <1>5, <1>11, <1>12, <1>13, Zenon DEF Counts
<1> QED
  BY <1>14

\* There is what UsableOf goes through.
IsThere(f, m, n) ==
    f = [k \in 0..n |->
            IF k = 0 THEN <<>>
            ELSE LET c == CellAt(m.sats, m.sigs, k)
                 IN IF c \in m.cells /\ c[1] \notin m.dead THEN Append(f[k - 1], <<m, c>>)
                    ELSE f[k - 1]]

\* It ends with UsableOf, step by step.
LEMMA UsableRuns ==
    ASSUME NEW m \in Observations
    PROVE  \E f : IsThere(f, m, CellsOf(m)) /\ UsableOf(m) = f[CellsOf(m)]
<1>1. PICK n \in Nat : n = CellsOf(m)
  BY CellNumbers
<1> DEFINE T == {j \in 0..n : \E f : IsThere(f, m, j)}
<1>2. 0 \in T
  <2> DEFINE f == [k \in 0..0 |-> <<>>]
  <2>1. f = [k \in 0..0 |->
            IF k = 0 THEN <<>>
            ELSE LET c == CellAt(m.sats, m.sigs, k)
                 IN IF c \in m.cells /\ c[1] \notin m.dead THEN Append(f[k - 1], <<m, c>>)
                    ELSE f[k - 1]]
    OBVIOUS
  <2>2. IsThere(f, m, 0)
    BY <2>1, Zenon DEF IsThere
  <2> HIDE DEF f
  <2> QED
    BY <2>2
<1>3. ASSUME NEW j \in 0..(n - 1), j \in T PROVE j + 1 \in T
  <2>1. PICK f : IsThere(f, m, j)
    BY <1>3
  <2> DEFINE Go(k, before) == LET c == CellAt(m.sats, m.sigs, k)
                 IN IF c \in m.cells /\ c[1] \notin m.dead THEN Append(before, <<m, c>>) ELSE before
  <2>2. f = [k \in 0..j |-> IF k = 0 THEN <<>> ELSE Go(k, f[k - 1])]
    BY <2>1, Zenon DEF IsThere
  <2> HIDE DEF Go
  <2> DEFINE g == [k \in 0..(j + 1) |-> IF k = j + 1 THEN Go(j + 1, f[j]) ELSE f[k]]
  <2>3. \A k \in 0..j : f[k] = IF k = 0 THEN <<>> ELSE Go(k, f[k - 1])
    BY <2>2, Zenon
  <2>4. g[j + 1] = Go(j + 1, f[j]) /\ \A k \in 0..j : g[k] = f[k]
    OBVIOUS
  <2>5. g = [k \in 0..(j + 1) |-> g[k]]
    OBVIOUS
  <2> HIDE DEF g
  <2>6. ASSUME NEW k \in 0..(j + 1) PROVE g[k] = IF k = 0 THEN <<>> ELSE Go(k, g[k - 1])
    <3>1. CASE k = j + 1
      <4>1. k # 0 /\ k - 1 = j /\ j \in 0..j
        BY <3>1
      <4> QED
        BY <2>4, <3>1, <4>1, Zenon
    <3>2. CASE k # j + 1
      <4>1. k \in 0..j /\ (k # 0 => k - 1 \in 0..j)
        BY <3>2
      <4> QED
        BY <2>3, <2>4, <4>1, Zenon
    <3> QED
      BY <3>1, <3>2
  <2>7. g = [k \in 0..(j + 1) |-> IF k = 0 THEN <<>> ELSE Go(k, g[k - 1])]
    BY <2>5, <2>6, Zenon
  <2>8. IsThere(g, m, j + 1)
    BY <2>7, Zenon DEF IsThere, Go
  <2> QED
    BY <2>8
<1> HIDE DEF T
<1>4. 0..n \subseteq T
  BY <1>2, <1>3, UpTo
<1>5. n \in T
  BY <1>4
<1>6. \E f : IsThere(f, m, n)
  BY <1>5 DEF T
<1>7. PICK f : f = CHOOSE g : IsThere(g, m, n)
  OBVIOUS
<1>8. UsableOf(m) = f[n]
  BY <1>1, <1>7, Zenon DEF UsableOf, IsThere, CellsOf
<1> QED
  BY <1>1, <1>6, <1>7, <1>8, Zenon

\* What Cells goes through, from the slots of an epoch on
IsLoop(f, m, h, col, any, e, n) ==
    f = [i \in 0..n |-> IF i = 0 THEN [j |-> 1, n |-> e.n, slots |-> e.slots]
                        ELSE Cell(m, h, col, any, f[i - 1], i - 1)]

\* It ends with Cells, step by step.
Looped(m, h, col, any, e, n) ==
    \E f : IsLoop(f, m, h, col, any, e, n) /\ Cells(m, h, col, any, e) = f[n]

\* It does.
LEMMA LoopRuns ==
    ASSUME NEW m, NEW h, NEW col, NEW any, NEW e, NEW l \in Nat, l = Len(h.sats) * Len(h.sigs)
    PROVE  Looped(m, h, col, any, e, l)
<1>1. PICK n \in Nat : n = l
  OBVIOUS
<1> DEFINE T == {j \in 0..n : \E f : IsLoop(f, m, h, col, any, e, j)}
           first == [j |-> 1, n |-> e.n, slots |-> e.slots]
<1>2. 0 \in T
  <2> DEFINE f == [k \in 0..0 |-> first]
  <2>1. f = [i \in 0..0 |-> IF i = 0 THEN first ELSE Cell(m, h, col, any, f[i - 1], i - 1)]
    OBVIOUS
  <2>2. IsLoop(f, m, h, col, any, e, 0)
    BY <2>1, Zenon DEF IsLoop
  <2> HIDE DEF f
  <2> QED
    BY <2>2
<1>3. ASSUME NEW j \in 0..(n - 1), j \in T PROVE j + 1 \in T
  <2>1. PICK f : IsLoop(f, m, h, col, any, e, j)
    BY <1>3
  <2> DEFINE Go(k, before) == Cell(m, h, col, any, before, k - 1)
  <2>2. f = [k \in 0..j |-> IF k = 0 THEN first ELSE Go(k, f[k - 1])]
    BY <2>1, Zenon DEF IsLoop
  <2> HIDE DEF Go, first
  <2> DEFINE g == [k \in 0..(j + 1) |-> IF k = j + 1 THEN Go(j + 1, f[j]) ELSE f[k]]
  <2>3. \A k \in 0..j : f[k] = IF k = 0 THEN first ELSE Go(k, f[k - 1])
    BY <2>2, Zenon
  <2>4. g[j + 1] = Go(j + 1, f[j]) /\ \A k \in 0..j : g[k] = f[k]
    OBVIOUS
  <2>5. g = [k \in 0..(j + 1) |-> g[k]]
    OBVIOUS
  <2> HIDE DEF g
  <2>6. ASSUME NEW k \in 0..(j + 1) PROVE g[k] = IF k = 0 THEN first ELSE Go(k, g[k - 1])
    <3>1. CASE k = j + 1
      <4>1. k # 0 /\ k - 1 = j /\ j \in 0..j
        BY <3>1
      <4> QED
        BY <2>4, <3>1, <4>1, Zenon
    <3>2. CASE k # j + 1
      <4>1. k \in 0..j /\ (k # 0 => k - 1 \in 0..j)
        BY <3>2
      <4> QED
        BY <2>3, <2>4, <4>1, Zenon
    <3> QED
      BY <3>1, <3>2
  <2>7. g = [k \in 0..(j + 1) |-> IF k = 0 THEN first ELSE Go(k, g[k - 1])]
    BY <2>5, <2>6, Zenon
  <2>8. IsLoop(g, m, h, col, any, e, j + 1)
    BY <2>7, Zenon DEF IsLoop, Go, first
  <2> QED
    BY <2>8
<1> HIDE DEF T
<1>4. 0..n \subseteq T
  BY <1>2, <1>3, UpTo
<1>5. n \in T
  BY <1>4
<1>6. \E f : IsLoop(f, m, h, col, any, e, n)
  BY <1>5 DEF T
<1>7. PICK f : f = CHOOSE g : IsLoop(g, m, h, col, any, e, n)
  OBVIOUS
<1>8. Cells(m, h, col, any, e) = f[n]
  BY <1>1, <1>7, Zenon DEF Cells, IsLoop
<1> QED
  BY <1>1, <1>6, <1>7, <1>8, Zenon DEF Looped

\* The cells of a message are of satellites and signals.
LEMMA CellSpoken ==
    ASSUME NEW m \in Observations, NEW k \in 1..CellsOf(m)
    PROVE  <<m, CellAt(m.sats, m.sigs, k)>> \in Spoken
<1>1. m.sats \in Seq(1..64) /\ m.sigs \in Seq(1..32)
  BY ObservationsAssumption, Zenon
<1>2. PICK s, g : s = (k - 1) \div Len(m.sigs) + 1 /\ g = ((k - 1) % Len(m.sigs)) + 1
  OBVIOUS
<1>3. s \in 1..Len(m.sats) /\ g \in 1..Len(m.sigs)
  <2>1. Len(m.sats) \in Nat \ {0} /\ Len(m.sigs) \in Nat \ {0} /\ k \in 1..(Len(m.sats) * Len(m.sigs))
    BY CellNumbers DEF CellsOf
  <2> QED
    BY <1>2, <2>1, Grid
<1>4. CellAt(m.sats, m.sigs, k) = <<m.sats[s], m.sigs[g]>>
  BY <1>2 DEF CellAt
<1>5. m.sats[s] \in 1..64 /\ m.sigs[g] \in 1..32
  <2>1. \A S : \A q \in Seq(S) : \A i \in 1..Len(q) : q[i] \in S
    OBVIOUS
  <2> QED
    BY <1>1, <1>3, <2>1, Zenon
<1> QED
  BY <1>4, <1>5 DEF Spoken

\* The usable cells of a message
LEMMA UsableSpoken == ASSUME NEW m \in Observations PROVE UsableOf(m) \in Seq(Spoken)
<1>1. PICK n \in Nat : n = CellsOf(m)
  BY CellNumbers
<1>2. PICK f : IsThere(f, m, n) /\ UsableOf(m) = f[n]
  BY <1>1, UsableRuns, Zenon
<1> DEFINE T == {k \in 0..n : f[k] \in Seq(Spoken)}
<1>3. 0 \in T
  <2>1. f[0] = <<>>
    BY <1>2 DEF IsThere
  <2>2. <<>> \in Seq(Spoken)
    OBVIOUS
  <2>3. f[0] \in Seq(Spoken)
    BY <2>1, <2>2, Zenon
  <2> QED
    BY <2>3
<1>4. ASSUME NEW i \in 0..(n - 1), i \in T PROVE i + 1 \in T
  <2>1. PICK k \in 1..n : k = i + 1 /\ k - 1 = i /\ k \in 0..n /\ k # 0
    <3>1. i + 1 \in 1..n /\ (i + 1) - 1 = i /\ i + 1 \in 0..n /\ i + 1 # 0
      OBVIOUS
    <3> QED
      BY <3>1
  <2>2. PICK c : c = CellAt(m.sats, m.sigs, k)
    OBVIOUS
  <2>3. f[k] = IF c \in m.cells /\ c[1] \notin m.dead THEN Append(f[i], <<m, c>>) ELSE f[i]
    <3>1. f[k] = LET d == CellAt(m.sats, m.sigs, k)
                 IN IF d \in m.cells /\ d[1] \notin m.dead THEN Append(f[k - 1], <<m, d>>) ELSE f[k - 1]
      BY <1>2, <2>1, Zenon DEF IsThere
    <3> QED
      BY <2>1, <2>2, <3>1
  <2>4. PICK x : x = <<m, c>> /\ x \in Spoken
    BY <1>1, <2>2, CellSpoken
  <2>5. f[i] \in Seq(Spoken)
    BY <1>4
  <2>6. f[k] = Append(f[i], x) \/ f[k] = f[i]
    BY <2>3, <2>4
  <2>7. f[k] \in Seq(Spoken)
    <3>1. \A S : \A s \in Seq(S) : \A y \in S : Append(s, y) \in Seq(S)
      OBVIOUS
    <3>2. PICK S : S = Spoken
      OBVIOUS
    <3>3. Append(f[i], x) \in Seq(S)
      BY <2>4, <2>5, <3>1, <3>2
    <3> QED
      BY <2>5, <2>6, <3>2, <3>3
  <2> QED
    BY <2>1, <2>7
<1> HIDE DEF T
<1>5. 0..n \subseteq T
  BY <1>3, <1>4, UpTo
<1>6. n \in T
  BY <1>5
<1> QED
  BY <1>2, <1>6 DEF T

\* A record of the loop
HasLoop(a) == {"j", "n", "slots"} \subseteq DOMAIN a

\* What the loop has after some cells: a place in the columns, and slots as asked
AfterCells(a, j, cells) ==
    /\ HasLoop(a) /\ a.j = j
    /\ \E l : IsRow(a.slots, l) /\ AskedParts(a.slots, cells, l) /\ a.n = l

\* A step of the loop
LEMMA LoopStep ==
    ASSUME NEW m \in Observations, Regular(m), NEW k \in 1..CellsOf(m), NEW c, c = CellAt(m.sats, m.sigs, k),
           NEW h, HeadOf(m, h), NEW col, SatRead(m, col), NEW j \in Nat,
           c \in m.cells => CellRead(m, col, j, c),
           NEW acc, NEW cells \in Seq(Spoken), AfterCells(acc, j, cells),
           NEW any, NEW r, r = Cell(m, h, col, any, acc, k - 1)
    PROVE  /\ c \notin m.cells => AfterCells(r, j, cells)
           /\ c \in m.cells /\ c[1] \in m.dead => AfterCells(r, j + 1, cells)
           /\ c \in m.cells /\ c[1] \notin m.dead => AfterCells(r, j + 1, Append(cells, <<m, c>>))
<1>1. HasLoop(acc) /\ acc.j = j
  BY DEF AfterCells
<1>2. PICK l : IsRow(acc.slots, l) /\ AskedParts(acc.slots, cells, l) /\ acc.n = l
  BY DEF AfterCells
<1>3. l <= MaxSat /\ \A i \in 1..l : IsSlot(acc.slots[i])
  <2>1. \A id : IsSlot(AskedSlot(id, cells))
    BY DEF IsSlot, AskedSlot
  <2>2. l <= MaxSat /\ \A i \in 1..l : acc.slots[i] = AskedSlot(acc.slots[i].id, cells)
    BY <1>2, Zenon DEF AskedParts
  <2>3. \A i \in 1..l : \E id : acc.slots[i] = AskedSlot(id, cells)
    BY <2>2, Zenon
  <2>4. ASSUME NEW i \in 1..l PROVE IsSlot(acc.slots[i])
    <3>1. PICK id : acc.slots[i] = AskedSlot(id, cells)
      BY <2>3, Zenon
    <3>2. PICK z : z = acc.slots[i] /\ z = AskedSlot(id, cells)
      BY <3>1
    <3>3. IsSlot(z)
      BY <2>1, <3>2, SMTT(60)
    <3> QED
      BY <3>2, <3>3
  <2> QED
    BY <2>2, <2>4
<1>4. HasLoop(r)
  BY <1>1, ZenonT(60) DEF Cell, PassedOver, HasLoop
<1>5. CASE c \notin m.cells
  <2>1. r = acc
    BY <1>5 DEF Cell, HeadOf, CellAt
  <2> QED
    BY <1>5, <2>1
<1>6. CASE c \in m.cells
  <2>1. CellRead(m, col, acc.j, c)
    BY <1>1, <1>6
  <2>2. /\ c[1] \in m.dead => r = [acc EXCEPT !.j = acc.j + 1]
        /\ c[1] \notin m.dead =>
             /\ r.j = acc.j + 1
             /\ PutInto(acc.slots, l, <<m, c>>, r.slots)
             /\ r.n = acc.n + IF ~InSlots(acc.slots, l, Id(<<m, c>>)) /\ l < MaxSat THEN 1 ELSE 0
    BY <1>2, <1>3, <1>6, <2>1, CellPut
  <2>3. CASE c[1] \in m.dead
    <3>1. r.j = j + 1 /\ r.slots = acc.slots /\ r.n = acc.n
      BY <1>1, <2>2, <2>3 DEF HasLoop
    <3> QED
      BY <1>2, <1>4, <1>6, <2>3, <3>1 DEF AfterCells
  <2>4. CASE c[1] \notin m.dead
    <3>1. PICK x : x = <<m, c>>
      OBVIOUS
    <3>2. x \in Spoken
      BY <3>1, CellSpoken
    <3>3. PICK d : d = Append(cells, x)
      OBVIOUS
    <3>4. With(d, cells, Len(cells), x)
      BY <3>2, <3>3, AppendIsWith, Zenon
    <3>5. PutInto(acc.slots, l, x, r.slots)
      BY <2>2, <2>4, <3>1
    <3>6. PICK z \in {l, l + 1} : /\ IsRow(r.slots, z) /\ AskedParts(r.slots, d, z)
                                  /\ z = l + 1 <=> ~InSlots(acc.slots, l, Id(x)) /\ l < MaxSat
      BY <1>2, <3>4, <3>5, SlotNext
    <3>7. r.n = z
      <4>1. l \in Nat /\ MaxSat \in Nat
        BY <1>2, DecodeAssumption DEF IsRow
      <4>2. r.n = l + IF ~InSlots(acc.slots, l, Id(x)) /\ l < MaxSat THEN 1 ELSE 0
        BY <1>2, <2>2, <2>4, <3>1
      <4> QED
        BY <3>6, <4>1, <4>2
    <3>8. r.j = j + 1
      BY <1>1, <2>2, <2>4
    <3>9. AfterCells(r, j + 1, d)
      BY <1>4, <3>6, <3>7, <3>8, Zenon DEF AfterCells
    <3> QED
      BY <1>6, <2>4, <3>1, <3>3, <3>9
  <2> QED
    BY <1>6, <2>3, <2>4
<1> QED
  BY <1>5, <1>6

\* An epoch whose slots are as cells ask for, and that counts them
EpochOf(e, cells) == \E l : IsRow(e.slots, l) /\ AskedParts(e.slots, cells, l) /\ e.n = l

\* The loop of decode_msm4 and decode_msm7 puts the usable cells of a message into an epoch.
LEMMA LoopPuts ==
    ASSUME NEW m \in Observations, Regular(m), NEW h, HeadOf(m, h),
           NEW col, col = IF m.kind = 7 THEN Columns7(MsmBits(m), h) ELSE Columns4(MsmBits(m), h),
           NEW any, NEW e, NEW cells \in Seq(Spoken), EpochOf(e, cells),
           NEW r, r = Cells(m, h, col, any, e)
    PROVE  EpochOf(r, Joined(cells, UsableOf(m)))
<1>1. PICK n \in Nat : n = CellsOf(m) /\ n = Len(h.sats) * Len(h.sigs)
  BY CellNumbers DEF HeadOf, CellsOf
<1>2. PICK f : IsThere(f, m, n) /\ UsableOf(m) = f[n]
  BY <1>1, UsableRuns, Zenon
<1>3. PICK acc : IsLoop(acc, m, h, col, any, e, n) /\ Cells(m, h, col, any, e) = acc[n]
  <2>1. Looped(m, h, col, any, e, n)
    BY <1>1, LoopRuns
  <2> QED
    BY <2>1, Zenon DEF Looped
<1>4. PICK N : Counts(m, N)
  BY PresentAt, Zenon
<1>5. PICK P : P = Present(m.sats, m.sigs, m.cells)
  OBVIOUS
<1>6. /\ N[0] = 0 /\ \A k \in 0..n : N[k] \in Nat
      /\ \A k \in 1..n :
        /\ CellAt(m.sats, m.sigs, k) \notin m.cells => N[k] = N[k - 1]
        /\ CellAt(m.sats, m.sigs, k) \in m.cells =>
             /\ N[k] = N[k - 1] + 1 /\ N[k] \in 1..HasCells(m) /\ P[N[k]] = CellAt(m.sats, m.sigs, k)
  BY <1>1, <1>4, <1>5, Zenon DEF Counts
<1>7. ReadColumns(m, col, Len(m.sats), HasCells(m))
  BY ColumnsRead, Zenon
<1>8. SatRead(m, col)
  BY <1>7 DEF ReadColumns, IsColumn, SatelliteVals, SatRead
<1>9. ASSUME NEW j \in 1..HasCells(m) PROVE CellRead(m, col, j, P[j])
  <2>1. Len(P) = HasCells(m)
    BY <1>5, CellNumbers
  <2> QED
    BY <1>5, <1>7, <2>1 DEF ReadColumns, IsColumn, CellVals, CellRead
<1> DEFINE T == {k \in 0..n : /\ f[k] \in Seq(Spoken)
                              /\ AfterCells(acc[k], N[k] + 1, Joined(cells, f[k]))}
<1>10. 0 \in T
  <2>1. f[0] = <<>>
    BY <1>2 DEF IsThere
  <2>2. acc[0] = [j |-> 1, n |-> e.n, slots |-> e.slots]
    BY <1>3 DEF IsLoop
  <2>3. Joined(cells, <<>>) = cells
    BY DEF Joined
  <2>4. HasLoop(acc[0]) /\ acc[0].j = N[0] + 1 /\ acc[0].n = e.n /\ acc[0].slots = e.slots
    BY <1>6, <2>2 DEF HasLoop
  <2>5. AfterCells(acc[0], N[0] + 1, cells)
    BY <2>4 DEF AfterCells, EpochOf
  <2>6. <<>> \in Seq(Spoken)
    OBVIOUS
  <2>7. f[0] \in Seq(Spoken) /\ AfterCells(acc[0], N[0] + 1, Joined(cells, f[0]))
    BY <2>1, <2>3, <2>5, <2>6, Zenon
  <2> QED
    BY <2>7
<1>11. ASSUME NEW i \in 0..(n - 1), i \in T PROVE i + 1 \in T
  <2>1. PICK k \in 1..n : k = i + 1 /\ k - 1 = i /\ k \in 0..n /\ k # 0
    <3>1. i + 1 \in 1..n /\ (i + 1) - 1 = i /\ i + 1 \in 0..n /\ i + 1 # 0
      OBVIOUS
    <3> QED
      BY <3>1
  <2>2. f[i] \in Seq(Spoken) /\ AfterCells(acc[i], N[i] + 1, Joined(cells, f[i])) /\ i \in 0..n
    BY <1>11
  <2>3. PICK c : c = CellAt(m.sats, m.sigs, k)
    OBVIOUS
  <2>4. f[k] = IF c \in m.cells /\ c[1] \notin m.dead THEN Append(f[i], <<m, c>>) ELSE f[i]
    <3>1. f[k] = LET d == CellAt(m.sats, m.sigs, k)
                 IN IF d \in m.cells /\ d[1] \notin m.dead THEN Append(f[k - 1], <<m, d>>) ELSE f[k - 1]
      BY <1>2, <2>1, Zenon DEF IsThere
    <3> QED
      BY <2>1, <2>3, <3>1
  <2>5. acc[k] = Cell(m, h, col, any, acc[i], k - 1)
    BY <1>3, <2>1, Zenon DEF IsLoop
  <2>6. PICK j \in Nat : j = N[i] + 1
    BY <1>6, <2>2
  <2>7. k \in 1..CellsOf(m) /\ N[k - 1] = N[i] /\ N[i] \in Nat
    BY <1>1, <1>6, <2>1, <2>2
  <2>8. /\ c \notin m.cells => N[k] + 1 = j
        /\ c \in m.cells => N[k] + 1 = j + 1 /\ j \in 1..HasCells(m) /\ P[j] = c
    <3>1. /\ c \notin m.cells => N[k] = N[i]
          /\ c \in m.cells => N[k] = N[i] + 1 /\ N[k] \in 1..HasCells(m) /\ P[N[k]] = c
      BY <1>6, <2>1, <2>3, <2>7
    <3> QED
      BY <2>6, <2>7, <3>1
  <2>9. c \in m.cells => CellRead(m, col, j, c)
    BY <1>9, <2>8
  <2>10. PICK u, v : u = Joined(cells, f[i]) /\ v = f[i]
    OBVIOUS
  <2>11. u \in Seq(Spoken) /\ v \in Seq(Spoken) /\ u = Joined(cells, v) /\ AfterCells(acc[i], j, u)
    BY <2>2, <2>6, <2>10, Row, Zenon
  <2>12. /\ c \notin m.cells => AfterCells(acc[k], j, u)
         /\ c \in m.cells /\ c[1] \in m.dead => AfterCells(acc[k], j + 1, u)
         /\ c \in m.cells /\ c[1] \notin m.dead => AfterCells(acc[k], j + 1, Append(u, <<m, c>>))
    BY <1>8, <2>3, <2>5, <2>7, <2>9, <2>11, LoopStep, Zenon
  <2>13. CASE c \in m.cells /\ c[1] \notin m.dead
    <3>1. PICK x : x = <<m, c>> /\ x \in Spoken
      BY <2>3, <2>7, CellSpoken
    <3>2. f[k] = Append(v, x)
      BY <2>4, <2>10, <2>13, <3>1
    <3>3. Append(u, x) = Joined(cells, Append(v, x))
      <4>1. PICK R : R = Spoken
        OBVIOUS
      <4>2. cells \in Seq(R) /\ v \in Seq(R) /\ x \in R
        BY <2>11, <3>1, <4>1
      <4>3. Append(Joined(cells, v), x) = Joined(cells, Append(v, x))
        BY <4>2, JoinedAppend
      <4> QED
        BY <2>11, <4>3
    <3>4. Append(v, x) \in Seq(Spoken)
      BY <2>11, <3>1
    <3>5. AfterCells(acc[k], N[k] + 1, Joined(cells, f[k]))
      BY <2>8, <2>12, <2>13, <3>1, <3>2, <3>3
    <3> QED
      BY <2>1, <3>2, <3>4, <3>5
  <2>14. CASE c \in m.cells /\ c[1] \in m.dead
    <3>1. f[k] = v
      BY <2>4, <2>10, <2>14
    <3>2. AfterCells(acc[k], N[k] + 1, Joined(cells, f[k]))
      BY <2>8, <2>11, <2>12, <2>14, <3>1
    <3> QED
      BY <2>1, <2>11, <3>1, <3>2
  <2>15. CASE c \notin m.cells
    <3>1. f[k] = v
      BY <2>4, <2>10, <2>15
    <3>2. AfterCells(acc[k], N[k] + 1, Joined(cells, f[k]))
      BY <2>8, <2>11, <2>12, <2>15, <3>1
    <3> QED
      BY <2>1, <2>11, <3>1, <3>2
  <2> QED
    BY <2>13, <2>14, <2>15
<1> HIDE DEF T
<1>12. 0..n \subseteq T
  BY <1>10, <1>11, UpTo
<1>13. n \in T
  BY <1>12
<1>14. f[n] \in Seq(Spoken) /\ AfterCells(acc[n], N[n] + 1, Joined(cells, f[n]))
  BY <1>13 DEF T
<1> QED
  BY <1>2, <1>3, <1>14, Zenon DEF AfterCells, EpochOf

-----------------------------------------------------------------------------
(* The base epoch is of the messages of its time.                           *)

\* An epoch has all of its fields.
IsWhole(e) == {"t", "week", "n", "slots"} \subseteq DOMAIN e

\* Decode takes a message of another time for one, and puts a regular one into the epoch of its own.
LEMMA DecodePuts ==
    ASSUME NEW m \in Observations, NEW any, NEW e, IsWhole(e), NEW d, d = Decode(m, any, e)
    PROVE  /\ IsWhole(d.epoch)
           /\ Fits(m) => (d.res = -2 <=> e.t \notin {0, HeadTime(m.sys, MsmBits(m))})
           /\ Fits(m) /\ Regular(m) /\ d.res # -2 =>
                /\ d.epoch.t = AtTime(m.tow)
                /\ UsableOf(m) \in Seq(Spoken)
                /\ \A cells \in Seq(Spoken) :
                     EpochOf(e, cells) => EpochOf(d.epoch, Joined(cells, UsableOf(m)))
<1> DEFINE frame == MsmBits(m)
           h == MsmHead(m.sys, frame)
           short == h.hsize + Len(h.sats) * 36 + h.ncell * 80 > WholeLength(m)
           col == IF m.kind = 7 THEN Columns7(frame, h) ELSE Columns4(frame, h)
           loop == Cells(m, h, col, any, e)
<1>1. d = IF m.sys \notin Enabled THEN [res |-> h.sync, epoch |-> e]
          ELSE IF m.kind = 7 /\ short THEN [res |-> -1, epoch |-> e]
          ELSE IF e.t \notin {0, h.tow} THEN [res |-> -2, epoch |-> e]
          ELSE [res |-> h.sync,
                epoch |-> [e EXCEPT !.t = h.tow, !.n = loop.n, !.slots = loop.slots]]
  BY DEF Decode
<1>2. HeadOf(m, h)
  <2>1. h = MsmHead(m.sys, MsmBits(m))
    OBVIOUS
  <2> HIDE DEF h
  <2> QED
    BY <2>1, HeadIs, Zenon
<1>3. m.kind = 7 => (short <=> m.cut)
  <2> HIDE DEF h
  <2> QED
    BY <1>2, CutFound
<1>4. PICK g, c, l, t : g = h /\ c = col /\ l = loop /\ t = HeadTime(m.sys, MsmBits(m))
  OBVIOUS
<1>5. HeadOf(m, g) /\ c = IF m.kind = 7 THEN Columns7(MsmBits(m), g) ELSE Columns4(MsmBits(m), g)
  BY <1>2, <1>4
<1>6. l = Cells(m, g, c, any, e)
  BY <1>4
<1> HIDE DEF h, short, col, loop
<1>7. h.sync = m.sync /\ h.tow = t /\ h.sync # -2
  <2>1. m.sync \in {0, 1}
    BY ObservationsAssumption, Zenon
  <2> QED
    BY <1>2, <1>4, <2>1 DEF HeadOf
<1>8. CASE ~Fits(m)
  <2>1. d.epoch = e
    <3>1. CASE m.sys \notin Enabled
      BY <1>1, <3>1
    <3>2. CASE m.sys \in Enabled
      BY <1>1, <1>3, <1>8, <3>2 DEF Fits
    <3> QED
      BY <3>1, <3>2
  <2> QED
    BY <1>8, <2>1
<1>9. CASE Fits(m)
  <2>1. m.sys \in Enabled /\ ~(m.kind = 7 /\ short)
    BY <1>3, <1>9 DEF Fits
  <2>2. CASE e.t \notin {0, t}
    <3>1. d.res = -2 /\ d.epoch = e
      BY <1>1, <1>7, <2>1, <2>2
    <3> QED
      BY <1>4, <1>9, <2>2, <3>1
  <2>3. CASE e.t \in {0, t}
    <3>1. d = [res |-> m.sync, epoch |-> [e EXCEPT !.t = t, !.n = l.n, !.slots = l.slots]]
      BY <1>1, <1>4, <1>7, <2>1, <2>3
    <3>2. d.res # -2
      BY <1>7, <3>1
    <3>3. IsWhole(d.epoch) /\ d.epoch.t = t /\ d.epoch.n = l.n /\ d.epoch.slots = l.slots
      <4>1. PICK y, z : y = l.n /\ z = l.slots
        OBVIOUS
      <4>2. PICK w : w = d.epoch
        OBVIOUS
      <4>3. w = [e EXCEPT !.t = t, !.n = y, !.slots = z]
        BY <3>1, <4>1, <4>2
      <4>4. DOMAIN w = DOMAIN e /\ w.t = t /\ w.n = y /\ w.slots = z
        BY <4>3 DEF IsWhole
      <4> QED
        BY <4>1, <4>2, <4>4 DEF IsWhole
    <3>4. ASSUME Regular(m)
          PROVE  /\ d.epoch.t = AtTime(m.tow)
                 /\ UsableOf(m) \in Seq(Spoken)
                 /\ \A cells \in Seq(Spoken) :
                      EpochOf(e, cells) => EpochOf(d.epoch, Joined(cells, UsableOf(m)))
      <4>1. t = AtTime(m.tow)
        BY <1>4, <3>4, TimeRead
      <4>2. ASSUME NEW cells \in Seq(Spoken), EpochOf(e, cells)
            PROVE  EpochOf(d.epoch, Joined(cells, UsableOf(m)))
        <5>1. EpochOf(l, Joined(cells, UsableOf(m)))
          BY <1>5, <1>6, <3>4, <4>2, LoopPuts, Zenon
        <5> QED
          BY <3>3, <5>1, Zenon DEF EpochOf
      <4>3. UsableOf(m) \in Seq(Spoken)
        BY UsableSpoken, Zenon
      <4> QED
        BY <3>3, <4>1, <4>2, <4>3
    <3> QED
      BY <1>4, <1>9, <2>3, <3>2, <3>3, <3>4
  <2> QED
    BY <2>2, <2>3
<1> QED
  BY <1>8, <1>9

\* An epoch without anything
LEMMA ClearedIs == IsWhole(Cleared) /\ Cleared.t = 0 /\ EpochOf(Cleared, <<>>)
<1>1. IsWhole(Cleared) /\ Cleared.t = 0 /\ Cleared.n = 0 /\ Cleared.slots = <<>>
  BY DEF Cleared, IsWhole
<1>2. IsRow(<<>>, 0)
  <2>1. Len(<<>>) = 0 /\ <<>> \in Seq({})
    OBVIOUS
  <2> QED
    BY <2>1 DEF IsRow
<1>3. Ids(<<>>) = {}
  BY DEF Ids
<1>4. AskedParts(<<>>, <<>>, 0)
  <2>1. Len(<<>>) = 0 /\ 0 \in Nat /\ 0 <= MaxSat /\ 1..0 = {}
    BY DecodeAssumption
  <2> QED
    BY <1>3, <2>1, Zenon DEF AskedParts
<1> QED
  BY <1>1, <1>2, <1>4, Zenon DEF EpochOf

\* ParseRtcm puts a regular message into the epoch of its time, and clears one of another time.
LEMMA AgainPuts ==
    ASSUME NEW m \in Observations, NEW any, NEW e, IsWhole(e), NEW d, d = DecodeAgain(m, any, e)
    PROVE  /\ IsWhole(d.epoch)
           /\ Fits(m) /\ Regular(m) =>
                /\ d.epoch.t = AtTime(m.tow)
                /\ \A cells \in Seq(Spoken) : e.t \in {0, AtTime(m.tow)} /\ EpochOf(e, cells) =>
                     EpochOf(d.epoch, Joined(cells, UsableOf(m)))
                /\ e.t \notin {0, AtTime(m.tow)} => EpochOf(d.epoch, Joined(<<>>, UsableOf(m)))
<1>1. PICK first : first = Decode(m, any, e)
  OBVIOUS
<1>2. PICK again : again = Decode(m, any, Cleared)
  OBVIOUS
<1>3. d = IF first.res = -2 THEN again ELSE first
  BY <1>1, <1>2 DEF DecodeAgain
<1>4. PICK z : z = Cleared
  OBVIOUS
<1>5. IsWhole(z) /\ z.t = 0 /\ EpochOf(z, <<>>)
  BY <1>4, ClearedIs
<1>6. PICK t : t = HeadTime(m.sys, MsmBits(m))
  OBVIOUS
<1>7. Regular(m) => t = AtTime(m.tow)
  BY <1>6, TimeRead
<1>8. /\ IsWhole(first.epoch)
      /\ Fits(m) => (first.res = -2 <=> e.t \notin {0, t})
      /\ Fits(m) /\ Regular(m) /\ first.res # -2 =>
           /\ first.epoch.t = AtTime(m.tow)
           /\ \A cells \in Seq(Spoken) :
                EpochOf(e, cells) => EpochOf(first.epoch, Joined(cells, UsableOf(m)))
  BY <1>1, <1>6, DecodePuts
<1>9. /\ IsWhole(again.epoch)
      /\ Fits(m) => (again.res = -2 <=> z.t \notin {0, t})
      /\ Fits(m) /\ Regular(m) /\ again.res # -2 =>
           /\ again.epoch.t = AtTime(m.tow)
           /\ \A cells \in Seq(Spoken) :
                EpochOf(z, cells) => EpochOf(again.epoch, Joined(cells, UsableOf(m)))
  BY <1>2, <1>4, <1>5, <1>6, DecodePuts
<1>10. Fits(m) => again.res # -2
  BY <1>5, <1>9
<1>11. <<>> \in Seq(Spoken)
  OBVIOUS
<1>12. CASE first.res = -2
  <2>1. d = again
    BY <1>3, <1>12
  <2>2. Fits(m) /\ Regular(m) => e.t \notin {0, AtTime(m.tow)}
    BY <1>7, <1>8, <1>12
  <2>3. Fits(m) /\ Regular(m) => /\ again.epoch.t = AtTime(m.tow)
                                 /\ EpochOf(again.epoch, Joined(<<>>, UsableOf(m)))
    BY <1>5, <1>9, <1>10, <1>11, Zenon
  <2> QED
    BY <1>9, <2>1, <2>2, <2>3, Zenon
<1>13. CASE first.res # -2
  <2>1. d = first
    BY <1>3, <1>13
  <2>2. Fits(m) /\ Regular(m) => e.t \in {0, AtTime(m.tow)}
    BY <1>7, <1>8, <1>13
  <2> QED
    BY <1>8, <1>13, <2>1, <2>2, Zenon
<1> QED
  BY <1>12, <1>13

\* The usable cells of messages, with one more
LEMMA UsableNext ==
    ASSUME NEW ms \in Seq(Observations), NEW m \in Observations
    PROVE  /\ Usable(ms) \in Seq(Spoken)
           /\ Usable(Append(ms, m)) = Joined(Usable(ms), UsableOf(m))
<1>1. PICK n \in Nat : n = Len(ms)
  OBVIOUS
<1>2. PICK d : d = Append(ms, m)
  OBVIOUS
<1>3. /\ d \in Seq(Observations) /\ Len(d) = n + 1 /\ d[n + 1] = m
      /\ \A k \in 1..n : d[k] = ms[k] /\ ms[k] \in Observations
  BY <1>1, <1>2
<1> DEFINE s == [k \in 1..Len(d) |-> UsableOf(d[k])]
           r == [k \in 1..Len(ms) |-> UsableOf(ms[k])]
           F == [k \in 0..Len(s) |-> FlattenSeq(SubSeq(s, 1, k))]
<1>4. \A k \in 1..(n + 1) : d[k] \in Observations
  <2>1. \A S : \A q \in Seq(S) : \A i \in 1..Len(q) : q[i] \in S
    OBVIOUS
  <2> QED
    BY <1>3, <2>1, Zenon
<1>5. \A k \in 1..(n + 1) : s[k] = UsableOf(d[k]) /\ s[k] \in Seq(Spoken)
  <2>1. \A k \in 1..(n + 1) : s[k] = UsableOf(d[k])
    BY <1>3
  <2> HIDE DEF s
  <2> QED
    BY <1>4, <2>1, UsableSpoken, Zenon
<1>6. s \in Seq(Seq(Spoken)) /\ Len(s) = n + 1
  <2>1. s \in [1..(n + 1) -> Seq(Spoken)]
    <3>1. s = [k \in 1..(n + 1) |-> s[k]]
      BY <1>3
    <3> HIDE DEF s
    <3> QED
      BY <1>5, <3>1, Zenon
  <2>2. n + 1 \in Nat
    OBVIOUS
  <2> HIDE DEF s
  <2> QED
    BY <2>1, <2>2, TupleIsSeq, Zenon
<1>7. r \in Seq(Seq(Spoken)) /\ Len(r) = n /\ \A k \in 1..n : r[k] = s[k]
  <2>1. \A k \in 1..n : r[k] = UsableOf(ms[k]) /\ k \in 1..(n + 1)
    BY <1>1
  <2>2. r = [k \in 1..n |-> r[k]]
    BY <1>1
  <2> HIDE DEF s, r
  <2>3. \A k \in 1..n : r[k] = s[k]
    BY <1>3, <1>5, <2>1, Zenon
  <2>4. r \in [1..n -> Seq(Spoken)]
    BY <1>5, <2>1, <2>2, <2>3, Zenon
  <2> QED
    BY <2>3, <2>4, TupleIsSeq, Zenon
<1>8. Usable(d) = FlattenSeq(s) /\ Usable(ms) = FlattenSeq(r)
  BY Zenon DEF Usable
<1> HIDE DEF s, r
<1>9. Flattened(Spoken, s, F)
  BY <1>6, Flattening, Zenon
<1>10. F[n + 1] = FlattenSeq(s) /\ F[n + 1] = Joined(F[n], s[n + 1]) /\ F[n] \in Seq(Spoken)
  <2>1. n \in 0..((n + 1) - 1) /\ n \in 0..(n + 1)
    OBVIOUS
  <2> HIDE DEF F
  <2> QED
    BY <1>6, <1>9, <2>1, Zenon DEF Flattened
<1>11. F[n] = FlattenSeq(r)
  <2>1. F[n] = FlattenSeq(SubSeq(s, 1, n))
    <3>1. n \in 0..Len(s)
      BY <1>6
    <3> QED
      BY <3>1, Zenon
  <2>2. SubSeq(s, 1, n) = r
    <3>1. PICK R, q : R = Seq(Spoken) /\ q = SubSeq(s, 1, n)
      OBVIOUS
    <3>2. s \in Seq(R) /\ r \in Seq(R) /\ n \in 0..Len(s) /\ Len(s) = n + 1
      BY <1>6, <1>7, <3>1
    <3>3. q \in Seq(R) /\ Len(q) = n /\ \A i \in 1..n : q[i] = s[i]
      <4>1. 0 \in 0..Len(s) /\ n \in 0..Len(s) /\ 0 + 1 = 1 /\ n - 0 = n
        BY <3>2
      <4>2. /\ SubSeq(s, 0 + 1, n) \in Seq(R) /\ Len(SubSeq(s, 0 + 1, n)) = n - 0
            /\ \A i \in 1..(n - 0) : SubSeq(s, 0 + 1, n)[i] = s[0 + i]
        BY <3>2, <4>1, Part, Zenon
      <4>3. \A i \in 1..n : 0 + i = i
        OBVIOUS
      <4> QED
        BY <3>1, <4>1, <4>2, <4>3
    <3>4. q = r
      BY <1>7, <3>2, <3>3, SeqEqual
    <3> QED
      BY <3>1, <3>4
  <2> QED
    BY <2>1, <2>2
<1>12. s[n + 1] = UsableOf(m)
  <2>1. n + 1 \in 1..(n + 1)
    OBVIOUS
  <2> QED
    BY <1>3, <1>5, <2>1
<1> HIDE DEF F
<1> QED
  BY <1>2, <1>8, <1>10, <1>11, <1>12

\* Those of no message
LEMMA NothingUsable == Usable(<<>>) = <<>>
<1>1. PICK s : s = [k \in 1..0 |-> UsableOf(<<>>[k])]
  OBVIOUS
<1>2. s = <<>>
  <2>1. s \in [1..0 -> {}]
    BY <1>1
  <2>2. s \in Seq({}) /\ Len(s) = 0
    BY <2>1, TupleIsSeq
  <2> QED
    BY <2>2
<1>3. Usable(<<>>) = FlattenSeq(s)
  <2>1. Len(<<>>) = 0
    OBVIOUS
  <2> QED
    BY <1>1, <2>1, Zenon DEF Usable
<1>4. s \in Seq(Seq(Spoken)) /\ Len(s) = 0
  BY <1>2
<1> DEFINE F == [k \in 0..Len(s) |-> FlattenSeq(SubSeq(s, 1, k))]
<1>5. Flattened(Spoken, s, F)
  BY <1>4, Flattening, Zenon
<1> HIDE DEF F
<1>6. F[0] = <<>> /\ F[0] = FlattenSeq(s)
  BY <1>4, <1>5, Zenon DEF Flattened
<1> QED
  BY <1>3, <1>6

\* Those of one message
LEMMA UsableOne ==
    ASSUME NEW m \in Observations
    PROVE  Usable(<<m>>) = Joined(<<>>, UsableOf(m))
<1>1. Usable(<<>>) = <<>>
  BY NothingUsable
<1>2. Append(<<>>, m) = <<m>> /\ <<>> \in Seq(Observations)
  OBVIOUS
<1> QED
  BY <1>1, <1>2, UsableNext, Zenon

\* What an epoch is of messages: their usable cells, and their time when they are regular
EpochTells(e, ms) ==
    /\ IsWhole(e)
    /\ ms = <<>> => e = Cleared
    /\ Sound(ms) => /\ EpochOf(e, Usable(ms))
                    /\ ms # <<>> => e.t = AtTime(Last(ms).tow)

\* The epochs tell what the messages said.
EpochKept ==
    /\ EpochTells(epoch, held)
    /\ Sound(heldLast) => EpochOf(baseLast, Usable(heldLast))

\* An epoch without anything is of no messages.
LEMMA ClearedTells ==
    ASSUME NEW z, z = Cleared
    PROVE  EpochTells(z, <<>>) /\ EpochOf(z, Usable(<<>>))
<1>1. Usable(<<>>) = <<>>
  BY NothingUsable
<1>2. IsWhole(z) /\ EpochOf(z, Usable(<<>>))
  BY <1>1, ClearedIs
<1> QED
  BY <1>2, Zenon DEF EpochTells

\* At first
LEMMA KeptInit == DecodeInit => EpochKept
<1> SUFFICES ASSUME DecodeInit PROVE EpochKept
  OBVIOUS
<1>1. PICK z : z = Cleared
  OBVIOUS
<1>2. epoch = z /\ held = <<>> /\ baseLast = z /\ heldLast = <<>>
  BY <1>1, Zenon DEF DecodeInit
<1>3. EpochTells(z, <<>>) /\ EpochOf(z, Usable(<<>>))
  BY <1>1, ClearedTells
<1> QED
  BY <1>2, <1>3, Zenon DEF EpochKept

\* Messages of one more
LEMMA SoundMore ==
    ASSUME NEW ms \in Seq(Observations), NEW m \in Observations
    PROVE  /\ Sound(Append(ms, m)) => Sound(ms) /\ Regular(m)
           /\ Sound(<<m>>) => Regular(m)
<1>1. PICK n \in Nat : n = Len(ms)
  OBVIOUS
<1>2. PICK d, o : d = Append(ms, m) /\ o = <<m>>
  OBVIOUS
<1>3. /\ Len(d) = n + 1 /\ d[n + 1] = m /\ \A k \in 1..n : d[k] = ms[k]
      /\ Len(o) = 1 /\ o[1] = m
  BY <1>1, <1>2
<1>4. ASSUME Sound(d) PROVE Sound(ms) /\ Regular(m)
  <2>1. \A k \in 1..Len(d) : Regular(d[k])
    BY <1>4, Zenon DEF Sound
  <2>2. n + 1 \in 1..Len(d) /\ \A k \in 1..n : k \in 1..Len(d)
    BY <1>3
  <2>3. Regular(m) /\ \A k \in 1..n : Regular(ms[k])
    BY <1>3, <2>1, <2>2, Zenon
  <2> QED
    BY <1>1, <2>3, Zenon DEF Sound
<1>5. ASSUME Sound(o) PROVE Regular(m)
  <2>1. 1 \in 1..Len(o)
    BY <1>3
  <2> QED
    BY <1>3, <1>5, <2>1, Zenon DEF Sound
<1> QED
  BY <1>2, <1>4, <1>5

\* An MSM of a time is put behind those of it, and one of another time begins an epoch.
LEMMA Puts ==
    ASSUME NEW m \in Observations, NEW any, NEW e, NEW ms \in Seq(Observations), EpochTells(e, ms),
           ms # <<>> => Timed(Last(ms), e.t),
           NEW d, d = DecodeAgain(m, any, e), NEW h,
           h = IF ~Fits(m) THEN ms ELSE IF ms # <<>> /\ Last(ms).tow = m.tow THEN Append(ms, m) ELSE <<m>>
    PROVE  EpochTells(d.epoch, h)
<1>1. IsWhole(e) /\ IsEpoch(e)
  BY DEF EpochTells, IsWhole, IsEpoch
<1>2. /\ IsWhole(d.epoch)
      /\ Fits(m) /\ Regular(m) =>
            /\ d.epoch.t = AtTime(m.tow)
            /\ \A cells \in Seq(Spoken) : e.t \in {0, AtTime(m.tow)} /\ EpochOf(e, cells) =>
                 EpochOf(d.epoch, Joined(cells, UsableOf(m)))
            /\ e.t \notin {0, AtTime(m.tow)} => EpochOf(d.epoch, Joined(<<>>, UsableOf(m)))
  BY <1>1, AgainPuts
<1>3. CASE ~Fits(m)
  <2>1. h = ms
    BY <1>3
  <2>2. d.epoch = e
    BY <1>1, <1>3, AgainComes DEF Comes
  <2> QED
    BY <2>1, <2>2
<1>4. CASE Fits(m) /\ ms # <<>> /\ Last(ms).tow = m.tow
  <2>1. h = Append(ms, m)
    BY <1>4
  <2>2. h # <<>> /\ Last(h) = m
    <3>1. PICK n \in Nat : n = Len(ms)
      OBVIOUS
    <3>2. Len(h) = n + 1 /\ h[n + 1] = m
      BY <2>1, <3>1
    <3>3. h # <<>>
      BY <3>2
    <3> QED
      BY <3>2, <3>3, Zenon DEF Last
  <2>3. ASSUME Sound(h) PROVE EpochOf(d.epoch, Usable(h)) /\ d.epoch.t = AtTime(Last(h).tow)
    <3>1. Sound(ms) /\ Regular(m)
      BY <2>1, <2>3, SoundMore
    <3>2. EpochOf(e, Usable(ms)) /\ e.t = AtTime(m.tow)
      BY <1>4, <3>1 DEF EpochTells
    <3>3. Usable(ms) \in Seq(Spoken) /\ Usable(h) = Joined(Usable(ms), UsableOf(m))
      BY <2>1, UsableNext
    <3>4. e.t \in {0, AtTime(m.tow)}
      BY <3>2
    <3> QED
      BY <1>2, <1>4, <2>2, <3>1, <3>2, <3>3, <3>4, Zenon
  <2> QED
    BY <1>2, <2>2, <2>3, Zenon DEF EpochTells
<1>5. CASE Fits(m) /\ ~(ms # <<>> /\ Last(ms).tow = m.tow)
  <2>1. h = <<m>>
    BY <1>5
  <2>2. h # <<>> /\ Last(h) = m
    <3>1. Len(h) = 1 /\ h[1] = m
      BY <2>1
    <3>2. h # <<>>
      BY <3>1
    <3> QED
      BY <3>1, <3>2, Zenon DEF Last
  <2>3. ASSUME Sound(h) PROVE EpochOf(d.epoch, Usable(h)) /\ d.epoch.t = AtTime(Last(h).tow)
    <3>1. Regular(m)
      BY <2>1, <2>3, SoundMore
    <3>2. Usable(h) = Joined(<<>>, UsableOf(m))
      BY <2>1, UsableOne
    <3>3. EpochOf(d.epoch, Joined(<<>>, UsableOf(m)))
      <4>1. CASE ms = <<>>
        <5>1. PICK z : z = Cleared
          OBVIOUS
        <5>2. e = z /\ z.t = 0 /\ EpochOf(z, <<>>)
          BY <4>1, <5>1, ClearedIs DEF EpochTells
        <5>3. <<>> \in Seq(Spoken) /\ e.t \in {0, AtTime(m.tow)}
          BY <5>2
        <5> QED
          BY <1>2, <1>5, <3>1, <5>2, <5>3, Zenon
      <4>2. CASE ms # <<>>
        <5>1. Last(ms) \in Observations
          <6>1. \A S : \A q \in Seq(S) : q # <<>> => q[Len(q)] \in S
            OBVIOUS
          <6> QED
            BY <4>2, <6>1, Zenon DEF Last
        <5>2. Last(ms).tow \in 1..Week - 1 /\ m.tow \in 1..Week - 1
          BY <5>1, ObservationsAssumption, Zenon
        <5>3. PICK a, b, W : a = Last(ms).tow /\ b = m.tow /\ W = Week
          OBVIOUS
        <5>4. W \in Int /\ a \in 1..(W - 1) /\ b \in 1..(W - 1) /\ a # b
          <6>1. Week \in Int
            BY DEF Week, Day, DaySeconds
          <6> QED
            BY <1>5, <4>2, <5>2, <5>3, <6>1
        <5>5. e.t \notin {0, AtTime(m.tow)}
          <6>1. (e.t = a \/ e.t = a - W) /\ e.t # 0
            BY <4>2, <5>3 DEF Timed
          <6>2. AtTime(m.tow) = b \/ AtTime(m.tow) = b - W
            BY <5>3 DEF AtTime
          <6> QED
            BY <5>4, <6>1, <6>2
        <5> QED
          BY <1>2, <1>5, <3>1, <5>5, Zenon
      <4> QED
        BY <4>1, <4>2
    <3> QED
      BY <1>2, <1>5, <2>2, <3>1, <3>2, <3>3, Zenon
  <2> QED
    BY <1>2, <2>2, <2>3, Zenon DEF EpochTells
<1> QED
  BY <1>3, <1>4, <1>5

\* PrepareToSolve changes nothing of an epoch but its week.
LEMMA PlacedTells ==
    ASSUME NEW e, IsWhole(e), NEW cells, EpochOf(e, cells)
    PROVE  EpochOf(PlaceWeek(e), cells)
<1>1. PICK p : p = PlaceWeek(e)
  OBVIOUS
<1>2. p = e \/ \E w : p = [e EXCEPT !.week = w]
  BY <1>1, ZenonT(60) DEF PlaceWeek
<1>3. p.slots = e.slots /\ p.n = e.n
  BY <1>2 DEF IsWhole
<1> QED
  BY <1>1, <1>3 DEF EpochOf

\* An MSM
LEMMA KeptMsm ==
    ASSUME TimeKept, EpochKept, NEW m \in Observations, ParseMsm(m)
    PROVE  EpochKept'
<1>1. PICK any : LET decoded == DecodeAgain(m, any, epoch)
                 IN IF decoded.res = 0 /\ coord # <<>>
                    THEN /\ baseLast' = PlaceWeek(decoded.epoch)
                         /\ heldLast' = Holding(m)
                         /\ epoch' = Cleared
                         /\ held' = <<>>
                    ELSE /\ epoch' = decoded.epoch
                         /\ held' = Holding(m)
                         /\ UNCHANGED <<baseLast, heldLast>>
  BY DEF ParseMsm
<1>2. PICK d, h, z : d = DecodeAgain(m, any, epoch) /\ h = Holding(m) /\ z = Cleared
  OBVIOUS
<1>3. held \in Seq(Observations) /\ (held # <<>> => Timed(Last(held), epoch.t))
  BY Zenon DEF TimeKept
<1>4. h = IF ~Fits(m) THEN held
          ELSE IF held # <<>> /\ Last(held).tow = m.tow THEN Append(held, m) ELSE <<m>>
  BY <1>2 DEF Holding, Fits
<1>5. EpochTells(epoch, held) /\ (Sound(heldLast) => EpochOf(baseLast, Usable(heldLast)))
  BY Zenon DEF EpochKept
<1>6. EpochTells(d.epoch, h)
  BY <1>2, <1>3, <1>4, <1>5, Puts
<1>7. CASE d.res = 0 /\ coord # <<>>
  <2>1. baseLast' = PlaceWeek(d.epoch) /\ heldLast' = h /\ epoch' = z /\ held' = <<>>
    BY <1>1, <1>2, <1>7
  <2>2. Sound(h) => EpochOf(PlaceWeek(d.epoch), Usable(h))
    BY <1>6, PlacedTells, Zenon DEF EpochTells
  <2>3. PICK b : b = PlaceWeek(d.epoch)
    OBVIOUS
  <2>4. (Sound(heldLast) => EpochOf(baseLast, Usable(heldLast)))'
    BY <2>1, <2>2, <2>3
  <2>5. EpochTells(z, <<>>)
    BY <1>2, ClearedTells
  <2>6. EpochTells(epoch, held)'
    BY <2>1, <2>5
  <2> QED
    BY <2>4, <2>6, Zenon DEF EpochKept
<1>8. CASE ~(d.res = 0 /\ coord # <<>>)
  <2>1. epoch' = d.epoch /\ held' = h /\ baseLast' = baseLast /\ heldLast' = heldLast
    BY <1>1, <1>2, <1>8
  <2>2. EpochTells(epoch, held)'
    BY <1>6, <2>1
  <2>3. (Sound(heldLast) => EpochOf(baseLast, Usable(heldLast)))'
    BY <1>5, <2>1
  <2> QED
    BY <2>2, <2>3, Zenon DEF EpochKept
<1> QED
  BY <1>7, <1>8

\* Any step
LEMMA KeptNext == TimeKept /\ EpochKept /\ [DecodeNext]_decodeVars => EpochKept'
<1> SUFFICES ASSUME TimeKept, EpochKept, [DecodeNext]_decodeVars PROVE EpochKept'
  OBVIOUS
<1>1. CASE \E m \in Observations : ParseMsm(m)
  BY <1>1, KeptMsm, Zenon
<1>2. CASE \/ UNCHANGED decodeVars \/ \E m \in Ephemerides : ParseEphemeris(m)
           \/ \E c \in Coordinates : ParseCoordinate(c)
  <2>1. UNCHANGED <<epoch, held, baseLast, heldLast>>
    BY <1>2 DEF decodeVars, ParseCoordinate, ParseEphemeris
  <2> QED
    BY <2>1 DEF EpochKept, EpochTells
<1> QED
  BY <1>1, <1>2, Zenon DEF DecodeNext

\* An epoch of messages conveys them.
LEMMA OfConveys ==
    ASSUME NEW e, NEW ms, Sound(ms) => EpochOf(e, Usable(ms))
    PROVE  Conveys(e, ms)
<1> SUFFICES ASSUME Sound(ms) PROVE AsAsked(e.slots, Usable(ms)) /\ e.n = Len(e.slots)
  BY Zenon DEF Conveys
<1>1. PICK l : IsRow(e.slots, l) /\ AskedParts(e.slots, Usable(ms), l) /\ e.n = l
  BY DEF EpochOf
<1>2. l \in Nat /\ Len(e.slots) = l
  BY <1>1 DEF IsRow
<1> QED
  BY <1>1, <1>2, AskedIsParts

\* The base epoch, and the one that was made of it, hold what the messages of their time said,
\* whatever order, kinds and systems they came in: each value in the slot of its satellite and band,
\* nothing of an earlier time or from beside a field, and as many slots as they count:
\* decode_msm_head, decode_msm4, decode_msm7, bFindObsIndex and the clearing in ParseRtcm.
THEOREM EpochsAsSent == DecodeSpec => []EpochAsSent
<1>1. EpochKept => EpochAsSent
  <2> SUFFICES ASSUME EpochKept PROVE EpochAsSent
    OBVIOUS
  <2>1. /\ Sound(held) => EpochOf(epoch, Usable(held))
        /\ Sound(heldLast) => EpochOf(baseLast, Usable(heldLast))
    BY Zenon DEF EpochKept, EpochTells
  <2> QED
    BY <2>1, OfConveys, Zenon DEF EpochAsSent
<1> QED
  BY <1>1, TimeInit, TimeNext, KeptInit, KeptNext, PTL DEF DecodeSpec

-----------------------------------------------------------------------------
(* 1005.                                                                    *)

IsPow2(f) == f = [n \in 0..Word + 16 |-> IF n = 0 THEN 1 ELSE 2 * f[n - 1]]

\* Powers of two are there, and double.
LEMMA Pow2Is ==
    /\ Pow2[0] = 1
    /\ \A n \in 0..Word + 16 : Pow2[n] \in Nat \ {0}
    /\ \A n \in 1..Word + 16 : Pow2[n] = 2 * Pow2[n - 1]
<1>1. Word \in Nat
  BY DecodeAssumption
<1> DEFINE m == Word + 16
           D == Nat \ {0}
           step == [k \in 1..m |-> [d \in D |-> 2 * d]]
<1>2. m \in Nat /\ 1 \in D
  BY <1>1
<1>3. step \in [1..m -> [D -> D]]
  OBVIOUS
<1>4. PICK g : Stepwise(D, 1, m, step, g)
  <2> HIDE DEF m, D, step
  <2> QED
    BY <1>2, <1>3, StepByStep, Zenon
<1>5. g \in [0..m -> D] /\ g[0] = 1 /\ \A k \in 1..m : g[k] = 2 * g[k - 1]
  <2>1. g \in [0..m -> D] /\ g[0] = 1 /\ \A k \in 1..m : g[k] = step[k][g[k - 1]]
    BY <1>4, Zenon DEF Stepwise
  <2>2. \A k \in 1..m : k - 1 \in 0..m
    BY <1>2
  <2> QED
    BY <2>1, <2>2
<1>6. IsPow2(g)
  <2>1. \A n \in 0..m : g[n] = IF n = 0 THEN 1 ELSE 2 * g[n - 1]
    <3> SUFFICES ASSUME NEW n \in 0..m PROVE g[n] = IF n = 0 THEN 1 ELSE 2 * g[n - 1]
      OBVIOUS
    <3>1. n # 0 => n \in 1..m
      BY <1>2
    <3> QED
      BY <1>5, <3>1
  <2>2. g = [n \in 0..m |-> g[n]]
    BY <1>5
  <2> QED
    BY <2>1, <2>2 DEF IsPow2
<1>7. IsPow2(Pow2)
  <2>1. Pow2 = CHOOSE f : IsPow2(f)
    BY Zenon DEF Pow2, IsPow2
  <2> QED
    BY <1>6, <2>1, Zenon
<1>8. \A n \in 0..m : Pow2[n] = IF n = 0 THEN 1 ELSE 2 * Pow2[n - 1]
  <2>1. Pow2 = [n \in 0..m |-> IF n = 0 THEN 1 ELSE 2 * Pow2[n - 1]]
    BY <1>7, Zenon DEF IsPow2
  <2> QED
    BY <2>1, Zenon
<1> DEFINE T == {n \in 0..m : Pow2[n] \in D}
<1>9. 0 \in T
  BY <1>2, <1>8
<1>10. ASSUME NEW n \in 0..(m - 1), n \in T PROVE n + 1 \in T
  <2>1. n + 1 \in 0..m /\ n + 1 # 0 /\ (n + 1) - 1 = n
    BY <1>2
  <2>2. Pow2[n + 1] = 2 * Pow2[n]
    BY <1>8, <2>1
  <2> QED
    BY <1>10, <2>1, <2>2
<1> HIDE DEF T
<1>11. 0..m \subseteq T
  BY <1>2, <1>9, <1>10, UpTo
<1>12. Pow2[0] = 1 /\ \A n \in 0..m : Pow2[n] \in D
  BY <1>2, <1>8, <1>11 DEF T
<1>13. \A n \in 1..m : Pow2[n] = 2 * Pow2[n - 1]
  <2>1. \A n \in 1..m : n \in 0..m /\ n # 0
    BY <1>2
  <2> QED
    BY <1>8, <2>1
<1> QED
  BY <1>12, <1>13

\* Quotient and rest are unique.
LEMMA QuotientRest ==
    ASSUME NEW P \in Nat, P # 0, NEW x \in Int, NEW q \in Int, NEW r \in Int, x = q * P + r, 0 <= r, r < P
    PROVE  x \div P = q /\ x % P = r
<1>1. PICK a \in Int : a = x \div P
  OBVIOUS
<1>2. PICK b \in Int : b = x % P
  OBVIOUS
<1>3. x = a * P + b /\ 0 <= b /\ b < P
  BY <1>1, <1>2
<1>4. (a - q) * P = r - b
  BY <1>3
<1>5. a - q < 1 /\ a - q > -1
  <2>1. PICK k \in Int : k = a - q
    OBVIOUS
  <2>2. k * P < P /\ k * P > -P
    BY <1>3, <1>4, <2>1
  <2>3. k < 1 /\ k > -1
    <3>1. P > 0 /\ P \in Int
      OBVIOUS
    <3> QED
      BY <2>2, <3>1, FewerWeeks
  <2> QED
    BY <2>1, <2>3
<1>6. a = q
  BY <1>5
<1> QED
  BY <1>1, <1>2, <1>3, <1>6

\* Half of a quotient is the quotient by twice as much.
LEMMA Halving ==
    ASSUME NEW P \in Nat, P # 0, NEW u \in Int
    PROVE  u \div (2 * P) = (u \div P) \div 2
<1>1. PICK x \in Int, r \in Int : x = u \div P /\ u = x * P + r /\ 0 <= r /\ r < P
  OBVIOUS
<1>2. PICK y \in Int, b \in Int : y = x \div 2 /\ x = 2 * y + b /\ 0 <= b /\ b <= 1
  OBVIOUS
<1>3. u = y * (2 * P) + (b * P + r)
  <2>1. \A a, c \in Int : (2 * a + c) * P = a * (2 * P) + c * P
    OBVIOUS
  <2>2. x * P = y * (2 * P) + b * P
    BY <1>2, <2>1
  <2>3. PICK s \in Int, t \in Int, v \in Int : s = x * P /\ t = y * (2 * P) /\ v = b * P
    OBVIOUS
  <2> QED
    BY <1>1, <2>2, <2>3
<1>4. 0 <= b * P + r /\ b * P + r < 2 * P
  <2>1. b = 0 \/ b = 1
    BY <1>2
  <2>2. CASE b = 0
    BY <1>1, <2>2
  <2>3. CASE b = 1
    BY <1>1, <2>3
  <2> QED
    BY <2>1, <2>2, <2>3
<1>5. u \div (2 * P) = y
  <2>1. PICK Q \in Nat, z \in Int : Q = 2 * P /\ z = b * P + r
    OBVIOUS
  <2>2. Q # 0 /\ u = y * Q + z /\ 0 <= z /\ z < Q
    BY <1>3, <1>4, <2>1
  <2> QED
    BY <2>1, <2>2, QuotientRest
<1> QED
  BY <1>1, <1>2, <1>5

\* A rest with one more bit
LEMMA OneMoreBit ==
    ASSUME NEW P \in Nat, P # 0, NEW x \in Int
    PROVE  x % (2 * P) = 2 * ((x \div 2) % P) + (x % 2)
<1>1. PICK y \in Int, b \in Int : y = x \div 2 /\ b = x % 2 /\ x = 2 * y + b /\ 0 <= b /\ b <= 1
  OBVIOUS
<1>2. PICK q \in Int, r \in Int : q = y \div P /\ r = y % P /\ y = q * P + r /\ 0 <= r /\ r < P
  OBVIOUS
<1>3. x = q * (2 * P) + (2 * r + b) /\ 0 <= 2 * r + b /\ 2 * r + b < 2 * P
  BY <1>1, <1>2
<1>4. PICK Q \in Nat, z \in Int : Q = 2 * P /\ z = 2 * r + b
  BY <1>1, <1>2
<1>5. Q # 0 /\ x = q * Q + z /\ 0 <= z /\ z < Q
  BY <1>3, <1>4
<1>6. x % Q = z
  BY <1>5, QuotientRest
<1> QED
  BY <1>1, <1>2, <1>4, <1>6

\* Higher powers of two are not smaller.
LEMMA Pow2Grows ==
    ASSUME NEW n \in 0..Word + 16
    PROVE  \A k \in 0..n : Pow2[k] <= Pow2[n]
<1>1. Word \in Nat /\ n \in Nat
  BY DecodeAssumption
<1>2. /\ \A k \in 0..Word + 16 : Pow2[k] \in Nat
      /\ \A k \in 1..Word + 16 : Pow2[k] = 2 * Pow2[k - 1]
  BY Pow2Is
<1> DEFINE T == {i \in 0..n : Pow2[n - i] <= Pow2[n]}
<1>3. 0 \in T
  <2>1. 0 \in 0..n /\ n - 0 = n /\ Pow2[n] \in Nat
    BY <1>1, <1>2
  <2> QED
    BY <2>1
<1>4. ASSUME NEW i \in 0..(n - 1), i \in T PROVE i + 1 \in T
  <2>1. i + 1 \in 0..n /\ n - i \in 1..Word + 16 /\ n - i \in 0..Word + 16 /\ n \in 0..Word + 16
        /\ (n - i) - 1 = n - (i + 1) /\ n - (i + 1) \in 0..Word + 16
    BY <1>1
  <2>2. Pow2[n - i] = 2 * Pow2[n - (i + 1)] /\ Pow2[n - (i + 1)] \in Nat /\ Pow2[n] \in Nat
    BY <1>2, <2>1
  <2>3. Pow2[n - i] <= Pow2[n]
    BY <1>4
  <2> QED
    BY <2>1, <2>2, <2>3
<1> HIDE DEF T
<1>5. 0..n \subseteq T
  BY <1>1, <1>3, <1>4, UpTo
<1> QED
  <2> SUFFICES ASSUME NEW k \in 0..n PROVE Pow2[k] <= Pow2[n]
    OBVIOUS
  <2>1. n - k \in 0..n /\ n - (n - k) = k
    BY <1>1
  <2>2. n - k \in T
    BY <1>5, <2>1
  <2> QED
    BY <2>1, <2>2 DEF T

\* A byte of eight bits, and its bits
ByteOf(b1, b2, b3, b4, b5, b6, b7, b8) ==
    b1 * 128 + b2 * 64 + b3 * 32 + b4 * 16 + b5 * 8 + b6 * 4 + b7 * 2 + b8
HasBits(v, b1, b2, b3, b4, b5, b6, b7, b8) ==
    /\ (v \div 128) % 2 = b1 /\ (v \div 64) % 2 = b2 /\ (v \div 32) % 2 = b3
    /\ (v \div 16) % 2 = b4 /\ (v \div 8) % 2 = b5 /\ (v \div 4) % 2 = b6
    /\ (v \div 2) % 2 = b7 /\ (v \div 1) % 2 = b8

\* They are those that it was made of.
LEMMA ByteBits ==
    ASSUME NEW b1, NEW b2, NEW b3, NEW b4, NEW b5, NEW b6, NEW b7, NEW b8,
           b1 \in 0..1, b2 \in 0..1, b3 \in 0..1, b4 \in 0..1, b5 \in 0..1, b6 \in 0..1,
           b7 \in 0..1, b8 \in 0..1
    PROVE  HasBits(ByteOf(b1, b2, b3, b4, b5, b6, b7, b8), b1, b2, b3, b4, b5, b6, b7, b8)
<1> DEFINE v == b1 * 128 + b2 * 64 + b3 * 32 + b4 * 16 + b5 * 8 + b6 * 4 + b7 * 2 + b8
<1>1. v \div 128 = b1 /\ v \div 64 = b1 * 2 + b2 /\ v \div 32 = b1 * 4 + b2 * 2 + b3
  OBVIOUS
<1>2. v \div 16 = b1 * 8 + b2 * 4 + b3 * 2 + b4 /\ v \div 8 = b1 * 16 + b2 * 8 + b3 * 4 + b4 * 2 + b5
  OBVIOUS
<1>3. /\ v \div 4 = b1 * 32 + b2 * 16 + b3 * 8 + b4 * 4 + b5 * 2 + b6
      /\ v \div 2 = b1 * 64 + b2 * 32 + b3 * 16 + b4 * 8 + b5 * 4 + b6 * 2 + b7
      /\ v \div 1 = v
  OBVIOUS
<1> QED
  BY <1>1, <1>2, <1>3 DEF ByteOf, HasBits

\* The first powers
LEMMA SmallPow2 ==
    /\ Pow2[0] = 1 /\ Pow2[1] = 2 /\ Pow2[2] = 4 /\ Pow2[3] = 8 /\ Pow2[4] = 16 /\ Pow2[5] = 32
    /\ Pow2[6] = 64 /\ Pow2[7] = 128
<1>1. Word \in Nat
  BY DecodeAssumption
<1>2. Pow2[0] = 1 /\ \A n \in 1..Word + 16 : Pow2[n] = 2 * Pow2[n - 1]
  BY Pow2Is
<1>3. \A n \in 1..7 : Pow2[n] = 2 * Pow2[n - 1]
  BY <1>1, <1>2
<1> QED
  BY <1>2, <1>3

\* A bit that was packed is found.
LEMMA PackedBits ==
    ASSUME NEW B, NEW n \in Nat, DOMAIN B = 1..n, Len(B) = n, \A i \in 1..n : B[i] \in 0..1,
           NEW i \in 0..(n - 1)
    PROVE  BitOf(Packed(B), i) = B[i + 1]
<1> DEFINE q == i \div 8
           r == i % 8
           b(j) == IF 8 * ((q + 1) - 1) + j > Len(B) THEN 0 ELSE B[8 * ((q + 1) - 1) + j]
<1>1. q \in Nat /\ r \in 0..7 /\ i = 8 * q + r /\ q + 1 \in 1..(n + 7) \div 8
  OBVIOUS
<1>2. Packed(B)[q + 1] = b(1) * 128 + b(2) * 64 + b(3) * 32 + b(4) * 16 + b(5) * 8 + b(6) * 4 + b(7) * 2 + b(8)
  BY <1>1, Zenon DEF Packed
<1> HIDE DEF q, r
<1>3. \A j \in 1..8 : b(j) \in 0..1
  BY <1>1
<1>4. b(r + 1) = B[i + 1]
  BY <1>1
<1> HIDE DEF b
<1>5. PICK v : v = Packed(B)[q + 1]
  OBVIOUS
<1>6. HasBits(v, b(1), b(2), b(3), b(4), b(5), b(6), b(7), b(8))
  <2>1. /\ b(1) \in 0..1 /\ b(2) \in 0..1 /\ b(3) \in 0..1 /\ b(4) \in 0..1 /\ b(5) \in 0..1
        /\ b(6) \in 0..1 /\ b(7) \in 0..1 /\ b(8) \in 0..1
    BY <1>3
  <2>2. v = ByteOf(b(1), b(2), b(3), b(4), b(5), b(6), b(7), b(8))
    BY <1>2, <1>5 DEF ByteOf
  <2> QED
    BY <2>1, <2>2, ByteBits, Zenon
<1>7. BitOf(Packed(B), i) = (v \div Pow2[7 - r]) % 2
  BY <1>5 DEF BitOf, q, r
<1>8. (v \div Pow2[7 - r]) % 2 = b(r + 1)
  BY <1>1, <1>6, SmallPow2 DEF HasBits
<1> QED
  BY <1>4, <1>7, <1>8

\* A function that getbitu builds
IsGathered(f, buff, pos, len) ==
    f = [k \in 0..len |-> IF k = 0 THEN 0 ELSE (f[k - 1] * 2 + BitOf(buff, pos + k - 1)) % Pow2[Word]]

\* The len bits from pos on are those of u, its lowest sh left out.
BitsOf(buff, pos, len, u, sh) ==
    /\ pos \in Nat /\ len \in Nat /\ u \in Nat /\ sh \in Nat
    /\ len <= Word /\ sh + len <= Word + 16
    /\ \A k \in 1..len : BitOf(buff, pos + k - 1) = (u \div Pow2[sh + (len - k)]) % 2

\* getbitu puts them together.
LEMMA GetBits ==
    ASSUME NEW buff, NEW pos, NEW len, NEW u, NEW sh, BitsOf(buff, pos, len, u, sh)
    PROVE  getbitu(buff, pos, len) = (u \div Pow2[sh]) % Pow2[len]
<1>1. /\ pos \in Nat /\ len \in Nat /\ u \in Nat /\ sh \in Nat
      /\ len <= Word /\ sh + len <= Word + 16
      /\ \A k \in 1..len : BitOf(buff, pos + k - 1) = (u \div Pow2[sh + (len - k)]) % 2
  BY Zenon DEF BitsOf
<1>2. Word \in Nat
  BY DecodeAssumption
<1>3. /\ Pow2[0] = 1 /\ \A n \in 0..Word + 16 : Pow2[n] \in Nat \ {0}
      /\ \A n \in 1..Word + 16 : Pow2[n] = 2 * Pow2[n - 1]
  BY Pow2Is
<1>4. Pow2[Word] \in Nat \ {0}
  BY <1>2, <1>3
<1> DEFINE bit == [k \in 1..len |-> (u \div Pow2[sh + (len - k)]) % 2]
           step == [k \in 1..len |-> [d \in Nat |-> (d * 2 + bit[k]) % Pow2[Word]]]
<1>5. ASSUME NEW k \in 1..len PROVE bit[k] \in 0..1
  <2>1. sh + (len - k) \in 0..Word + 16
    BY <1>1, <1>2
  <2>2. Pow2[sh + (len - k)] \in Nat \ {0}
    BY <1>3, <2>1
  <2>3. PICK x \in Int : x = u \div Pow2[sh + (len - k)]
    BY <1>1, <2>2
  <2> QED
    BY <2>3
<1>6. \A k \in 1..len : bit[k] = BitOf(buff, pos + k - 1)
  BY <1>1
<1> HIDE DEF bit
<1>7. step \in [1..len -> [Nat -> Nat]]
  BY <1>4, <1>5
<1>8. PICK g : g \in [0..len -> Nat] /\ g[0] = 0 /\ \A k \in 1..len : g[k] = step[k][g[k - 1]]
  <2> HIDE DEF step
  <2>1. 0 \in Nat
    OBVIOUS
  <2>2. PICK g : Stepwise(Nat, 0, len, step, g)
    BY <1>1, <1>7, <2>1, StepByStep, Zenon
  <2> QED
    BY <2>2, Zenon DEF Stepwise
<1>9. \A k \in 1..len : g[k] = (g[k - 1] * 2 + BitOf(buff, pos + k - 1)) % Pow2[Word]
  <2> SUFFICES ASSUME NEW k \in 1..len
               PROVE  g[k] = (g[k - 1] * 2 + BitOf(buff, pos + k - 1)) % Pow2[Word]
    OBVIOUS
  <2>1. k - 1 \in 0..len
    BY <1>1
  <2>2. g[k - 1] \in Nat
    BY <1>8, <2>1
  <2>3. g[k] = (g[k - 1] * 2 + bit[k]) % Pow2[Word]
    BY <1>8, <2>2
  <2> QED
    BY <1>6, <2>3
<1>10. IsGathered(g, buff, pos, len)
  <2>1. \A k \in 0..len :
          g[k] = IF k = 0 THEN 0 ELSE (g[k - 1] * 2 + BitOf(buff, pos + k - 1)) % Pow2[Word]
    <3> SUFFICES ASSUME NEW k \in 0..len
                 PROVE  g[k] = IF k = 0 THEN 0
                               ELSE (g[k - 1] * 2 + BitOf(buff, pos + k - 1)) % Pow2[Word]
      OBVIOUS
    <3>1. k # 0 => k \in 1..len
      BY <1>1
    <3> QED
      BY <1>8, <1>9, <3>1, Zenon
  <2>2. g = [k \in 0..len |-> g[k]]
    BY <1>8
  <2> QED
    BY <2>1, <2>2, Zenon DEF IsGathered
<1> HIDE DEF step
<1>11. PICK f : f = CHOOSE h : IsGathered(h, buff, pos, len)
  OBVIOUS
<1>12. IsGathered(f, buff, pos, len) /\ getbitu(buff, pos, len) = f[len]
  <2>1. IsGathered(f, buff, pos, len)
    BY <1>10, <1>11, Zenon
  <2> QED
    BY <1>11, <2>1, Zenon DEF getbitu, IsGathered
<1>13. \A k \in 0..len : f[k] = IF k = 0 THEN 0 ELSE (f[k - 1] * 2 + BitOf(buff, pos + k - 1)) % Pow2[Word]
  <2>1. f = [k \in 0..len |-> IF k = 0 THEN 0 ELSE (f[k - 1] * 2 + BitOf(buff, pos + k - 1)) % Pow2[Word]]
    BY <1>12, Zenon DEF IsGathered
  <2> QED
    BY <2>1, Zenon
<1> DEFINE T == {k \in 0..len : f[k] = (u \div Pow2[sh + (len - k)]) % Pow2[k]}
<1>14. 0 \in T
  <2>1. 0 \in 0..len /\ f[0] = 0 /\ sh + (len - 0) \in 0..Word + 16
    BY <1>1, <1>2, <1>13
  <2>2. PICK x \in Int : x = u \div Pow2[sh + (len - 0)]
    <3>1. Pow2[sh + (len - 0)] \in Nat \ {0}
      BY <1>3, <2>1
    <3> QED
      BY <1>1, <3>1
  <2>3. x % Pow2[0] = 0
    BY <1>3
  <2> QED
    BY <2>1, <2>2, <2>3
<1>15. ASSUME NEW k \in 0..(len - 1), k \in T PROVE k + 1 \in T
  <2>1. /\ k + 1 \in 1..len /\ k + 1 \in 0..len /\ k + 1 # 0 /\ (k + 1) - 1 = k
        /\ sh + (len - k) \in 1..Word + 16 /\ (sh + (len - k)) - 1 = sh + (len - (k + 1))
        /\ sh + (len - (k + 1)) \in 0..Word + 16
        /\ k \in 0..Word + 16 /\ k + 1 \in 1..Word + 16 /\ k + 1 \in 0..Word /\ Word \in 0..Word + 16
    BY <1>1, <1>2
  <2>2. PICK P \in Nat : P = Pow2[sh + (len - (k + 1))] /\ P # 0 /\ Pow2[sh + (len - k)] = 2 * P
    BY <1>3, <2>1
  <2>3. PICK R \in Nat : R = Pow2[k] /\ R # 0 /\ Pow2[k + 1] = 2 * R
    BY <1>3, <2>1
  <2>4. PICK x \in Int : x = u \div P
    BY <1>1, <2>2
  <2>5. u \div (2 * P) = x \div 2
    BY <1>1, <2>2, <2>4, Halving
  <2>6. f[k] = (x \div 2) % R
    BY <1>15, <2>2, <2>3, <2>5
  <2>7. BitOf(buff, pos + (k + 1) - 1) = x % 2
    BY <1>1, <2>1, <2>2, <2>4, Zenon
  <2>8. f[k + 1] = (f[k] * 2 + BitOf(buff, pos + (k + 1) - 1)) % Pow2[Word]
    BY <1>13, <2>1, Zenon
  <2>9. f[k + 1] = (2 * ((x \div 2) % R) + (x % 2)) % Pow2[Word]
    <3>1. PICK a \in Int, b \in Int : a = (x \div 2) % R /\ b = x % 2
      BY <2>3
    <3>2. f[k] * 2 + BitOf(buff, pos + (k + 1) - 1) = 2 * a + b
      BY <2>6, <2>7, <3>1
    <3> QED
      BY <2>8, <3>1, <3>2
  <2>10. x % (2 * R) = 2 * ((x \div 2) % R) + (x % 2)
    BY <2>3, OneMoreBit
  <2>11. Pow2[k + 1] <= Pow2[Word]
    BY <2>1, Pow2Grows
  <2>12. PICK Q \in Nat : Q = 2 * R /\ Q # 0
    BY <2>3
  <2>13. PICK y \in Int : y = x % Q /\ 0 <= y /\ y < Q
    BY <2>12
  <2>14. y % Pow2[Word] = y
    <3>1. PICK W \in Nat : W = Pow2[Word] /\ W # 0
      BY <1>4
    <3>2. y < W
      BY <2>3, <2>11, <2>12, <2>13, <3>1
    <3>3. y % W = y
      BY <2>13, <3>1, <3>2, Modulo
    <3> QED
      BY <3>1, <3>3
  <2>15. f[k + 1] = x % Pow2[k + 1]
    BY <2>3, <2>9, <2>10, <2>12, <2>13, <2>14
  <2> QED
    BY <2>1, <2>2, <2>4, <2>15
<1> HIDE DEF T
<1>16. 0..len \subseteq T
  BY <1>1, <1>14, <1>15, UpTo
<1>17. f[len] = (u \div Pow2[sh]) % Pow2[len]
  <2>1. len \in 0..len /\ sh + (len - len) = sh
    BY <1>1
  <2>2. len \in T
    BY <1>16, <2>1
  <2> QED
    BY <2>1, <2>2 DEF T
<1> QED
  BY <1>12, <1>17

\* n bits, and the n bits s in others after the first p
IsBinary(b, n) == n \in Nat /\ Len(b) = n /\ b \in Seq(0..1)
Spells(b, p, s, n) == \A k \in 1..n : b[p + k] = s[k]

\* A number in bits
LEMMA BinaryBits ==
    ASSUME NEW v \in Int, NEW w \in 0..Word + 16
    PROVE  IsBinary(Binary(v, w), w)
<1>1. Word \in Nat
  BY DecodeAssumption
<1>2. \A n \in 0..Word + 16 : Pow2[n] \in Nat \ {0}
  BY Pow2Is
<1>3. w \in Nat /\ Pow2[w] \in Nat \ {0}
  BY <1>1, <1>2
<1>4. PICK u \in Int : u = v % Pow2[w]
  BY <1>3
<1>5. ASSUME NEW k \in 1..w PROVE (u \div Pow2[w - k]) % 2 \in 0..1
  <2>1. w - k \in 0..Word + 16
    BY <1>1, <1>3
  <2>2. PICK P \in Nat \ {0} : P = Pow2[w - k]
    BY <1>2, <2>1
  <2>3. PICK x \in Int : x = u \div P
    BY <2>2
  <2>4. x % 2 \in 0..1
    OBVIOUS
  <2> QED
    BY <2>2, <2>3, <2>4
<1>6. Binary(v, w) = [k \in 1..w |-> (u \div Pow2[w - k]) % 2]
  BY <1>4, Zenon DEF Binary
<1>7. Binary(v, w) \in [1..w -> 0..1]
  BY <1>5, <1>6
<1> QED
  BY <1>3, <1>7 DEF IsBinary

\* Bits after bits
LEMMA BitsAfter ==
    ASSUME NEW a, NEW b, NEW m, NEW n, IsBinary(a, m), IsBinary(b, n)
    PROVE  /\ IsBinary(a \o b, m + n)
           /\ Spells(a \o b, m, b, n)
           /\ \A p \in Nat, w \in Nat : \A s : p + w <= m /\ Spells(a, p, s, w) => Spells(a \o b, p, s, w)
<1>1. m \in Nat /\ n \in Nat /\ Len(a) = m /\ Len(b) = n /\ a \in Seq(0..1) /\ b \in Seq(0..1)
  BY DEF IsBinary
<1>2. PICK c : c = a \o b
  OBVIOUS
<1>3. c \in Seq(0..1) /\ Len(c) = m + n /\ \A i \in 1..(m + n) : c[i] = IF i <= m THEN a[i] ELSE b[i - m]
  <2>1. /\ Joined(a, b) \in Seq(0..1) /\ Len(Joined(a, b)) = Len(a) + Len(b)
        /\ \A i \in 1..(Len(a) + Len(b)) : Joined(a, b)[i] = IF i <= Len(a) THEN a[i] ELSE b[i - Len(a)]
    BY <1>1, Row, Zenon
  <2> QED
    BY <1>1, <1>2, <2>1, Zenon DEF Joined
<1>4. ASSUME NEW k \in 1..n PROVE c[m + k] = b[k]
  <2>1. m + k \in 1..(m + n) /\ ~(m + k <= m) /\ (m + k) - m = k
    BY <1>1
  <2> QED
    BY <1>3, <2>1
<1>5. ASSUME NEW p \in Nat, NEW w \in Nat, NEW s, p + w <= m, Spells(a, p, s, w), NEW k \in 1..w
      PROVE  c[p + k] = s[k]
  <2>1. p + k \in 1..(m + n) /\ p + k <= m
    BY <1>1, <1>5
  <2>2. a[p + k] = s[k]
    BY <1>5 DEF Spells
  <2> QED
    BY <1>3, <2>1, <2>2
<1>6. IsBinary(c, m + n)
  BY <1>1, <1>3 DEF IsBinary
<1> QED
  BY <1>2, <1>4, <1>5, <1>6, ZenonT(60) DEF Spells

\* The quotient and the rest by Pow2[6] of a number of Word + 6 bits
LEMMA HighAndLow ==
    ASSUME NEW v \in Coordinate, NEW u, u = v % Pow2[Word + 6]
    PROVE  /\ u \in Nat /\ (u \div Pow2[6]) % Pow2[Word] = u \div Pow2[6]
           /\ (u \div Pow2[0]) % Pow2[6] = u % Pow2[6]
           /\ AsInt(u \div Pow2[6]) * 64 + (u % Pow2[6]) = v
<1>1. Word \in Nat /\ Word >= 6
  BY DecodeAssumption
<1>2. /\ Pow2[0] = 1 /\ \A n \in 0..Word + 16 : Pow2[n] \in Nat \ {0}
      /\ \A n \in 1..Word + 16 : Pow2[n] = 2 * Pow2[n - 1]
  BY Pow2Is
<1>3. Word - 1 \in 0..Word + 16 /\ \A i \in 0..6 : Word + i \in 1..Word + 16 /\ Word + i \in 0..Word + 16
  BY <1>1
<1>4. PICK h \in Nat : h = Pow2[Word - 1] /\ h # 0
  BY <1>2, <1>3
<1>5. /\ Pow2[Word] = 2 * h /\ Pow2[Word + 5] = 64 * h /\ Pow2[Word + 6] = 128 * h
  <2>1. /\ Word + 0 = Word /\ (Word + 1) - 1 = Word /\ (Word + 2) - 1 = Word + 1 /\ (Word + 3) - 1 = Word + 2
        /\ (Word + 4) - 1 = Word + 3 /\ (Word + 5) - 1 = Word + 4 /\ (Word + 6) - 1 = Word + 5
    BY <1>1
  <2>2. Pow2[Word] = 2 * h /\ Pow2[Word + 1] = 2 * Pow2[Word]
    BY <1>2, <1>3, <1>4, <2>1
  <2>3. /\ Pow2[Word + 2] = 2 * Pow2[Word + 1] /\ Pow2[Word + 3] = 2 * Pow2[Word + 2]
        /\ Pow2[Word + 4] = 2 * Pow2[Word + 3]
    BY <1>2, <1>3, <2>1
  <2>4. Pow2[Word + 5] = 2 * Pow2[Word + 4] /\ Pow2[Word + 6] = 2 * Pow2[Word + 5]
    BY <1>2, <1>3, <2>1
  <2> QED
    BY <2>2, <2>3, <2>4
<1>6. Pow2[6] = 64
  BY SmallPow2
<1>7. v \in Int /\ -(64 * h) <= v /\ v < 64 * h
  BY <1>4, <1>5 DEF Coordinate
<1>8. u = IF v < 0 THEN v + 128 * h ELSE v
  <2>1. PICK M \in Nat : M = 128 * h /\ M # 0
    BY <1>4
  <2>2. CASE v < 0
    <3>1. v >= -M
      BY <1>4, <1>7, <2>1
    <3>2. v % M = v + M
      BY <1>7, <2>1, <2>2, <3>1, Modulo
    <3> QED
      BY <1>5, <2>1, <2>2, <3>2
  <2>3. CASE ~(v < 0)
    <3>1. v = 0 * M + v /\ 0 <= v /\ v < M /\ 0 \in Int
      BY <1>4, <1>7, <2>1, <2>3
    <3>2. v % M = v
      BY <1>7, <2>1, <3>1, QuotientRest
    <3> QED
      BY <1>5, <2>1, <2>3, <3>2
  <2> QED
    BY <2>2, <2>3
<1>9. u \in Nat /\ u < 128 * h
  BY <1>4, <1>7, <1>8
<1>10. PICK H \in Int, L \in Int : H = u \div 64 /\ L = u % 64 /\ u = H * 64 + L /\ 0 <= L /\ L < 64
  BY <1>9
<1>11. 0 <= H /\ H < 2 * h
  BY <1>4, <1>9, <1>10
<1>12. H % Pow2[Word] = H
  <2>1. PICK W \in Nat : W = 2 * h /\ W # 0
    BY <1>4
  <2>2. H = 0 * W + H /\ 0 <= H /\ H < W /\ 0 \in Int
    BY <1>11, <2>1
  <2>3. H % W = H
    BY <2>1, <2>2, QuotientRest
  <2> QED
    BY <1>5, <2>1, <2>3
<1>13. H >= h <=> v < 0
  BY <1>4, <1>7, <1>8, <1>10
<1>14. AsInt(H) = IF H >= h THEN H - 2 * h ELSE H
  BY <1>4, <1>5 DEF AsInt
<1>15. AsInt(H) * 64 + L = v
  <2>1. CASE v < 0
    <3>1. AsInt(H) = H - 2 * h /\ u = v + 128 * h
      BY <1>8, <1>13, <1>14, <2>1
    <3>2. (H - 2 * h) * 64 = H * 64 - 128 * h
      BY <1>4, <1>10
    <3>3. PICK g \in Int : g = 128 * h
      BY <1>4
    <3>4. (H - 2 * h) * 64 = H * 64 - g
      BY <3>2, <3>3
    <3>5. u = v + g
      BY <3>1, <3>3
    <3>6. H * 64 - g + L = v
      BY <1>7, <1>10, <3>3, <3>5
    <3> QED
      BY <3>1, <3>4, <3>6
  <2>2. CASE ~(v < 0)
    <3>1. AsInt(H) = H /\ u = v
      BY <1>8, <1>13, <1>14, <2>2
    <3> QED
      BY <1>7, <1>10, <3>1
  <2> QED
    BY <2>1, <2>2
<1>16. u \div Pow2[0] = u
  BY <1>2, <1>9
<1> QED
  BY <1>6, <1>9, <1>10, <1>12, <1>15, <1>16

\* A number of Word + 6 bits is read from where it was put.
LEMMA CoordinateRead ==
    ASSUME NEW B, NEW n, IsBinary(B, n), NEW p, p \in Nat, p + (Word + 6) <= n, NEW v \in Coordinate,
           Spells(B, p, Binary(v, Word + 6), Word + 6)
    PROVE  getbits_38(Packed(B), p) = v
<1>1. Word \in Nat /\ Word >= 6
  BY DecodeAssumption
<1>2. n \in Nat /\ Len(B) = n /\ DOMAIN B = 1..n /\ \A i \in 1..n : B[i] \in 0..1
  BY DEF IsBinary
<1>3. PICK u : u = v % Pow2[Word + 6]
  OBVIOUS
<1>4. /\ u \in Nat /\ (u \div Pow2[6]) % Pow2[Word] = u \div Pow2[6]
      /\ (u \div Pow2[0]) % Pow2[6] = u % Pow2[6]
      /\ AsInt(u \div Pow2[6]) * 64 + (u % Pow2[6]) = v
  BY <1>3, HighAndLow, Zenon
<1>5. ASSUME NEW k \in 1..(Word + 6)
      PROVE  BitOf(Packed(B), p + k - 1) = (u \div Pow2[(Word + 6) - k]) % 2
  <2>1. (p + k - 1) \in 0..(n - 1) /\ (p + k - 1) + 1 = p + k
    BY <1>1, <1>2
  <2>2. BitOf(Packed(B), p + k - 1) = B[(p + k - 1) + 1]
    BY <1>2, <2>1, PackedBits
  <2>3. B[p + k] = Binary(v, Word + 6)[k]
    BY DEF Spells
  <2>4. Binary(v, Word + 6)[k] = (u \div Pow2[(Word + 6) - k]) % 2
    BY <1>3, Zenon DEF Binary
  <2> QED
    BY <2>1, <2>2, <2>3, <2>4, Zenon
<1>6. BitsOf(Packed(B), p, Word, u, 6)
  <2>1. \A k \in 1..Word : k \in 1..(Word + 6) /\ (Word + 6) - k = 6 + (Word - k)
    BY <1>1
  <2>2. \A k \in 1..Word : BitOf(Packed(B), p + k - 1) = (u \div Pow2[6 + (Word - k)]) % 2
    BY <1>5, <2>1, Zenon
  <2> QED
    BY <1>1, <1>4, <2>2 DEF BitsOf
<1>7. BitsOf(Packed(B), p + Word, 6, u, 0)
  <2>1. \A k \in 1..6 : /\ Word + k \in 1..(Word + 6) /\ (Word + 6) - (Word + k) = 0 + (6 - k)
                        /\ p + (Word + k) - 1 = (p + Word) + k - 1
    BY <1>1
  <2>2. \A k \in 1..6 : BitOf(Packed(B), (p + Word) + k - 1) = (u \div Pow2[0 + (6 - k)]) % 2
    <3> SUFFICES ASSUME NEW k \in 1..6
                 PROVE  BitOf(Packed(B), (p + Word) + k - 1) = (u \div Pow2[0 + (6 - k)]) % 2
      OBVIOUS
    <3>1. BitOf(Packed(B), p + (Word + k) - 1) = (u \div Pow2[(Word + 6) - (Word + k)]) % 2
      BY <1>5, <2>1, Zenon
    <3> QED
      BY <2>1, <3>1
  <2> QED
    BY <1>1, <1>4, <2>2 DEF BitsOf
<1>8. getbitu(Packed(B), p, Word) = u \div Pow2[6]
  <2>1. getbitu(Packed(B), p, Word) = (u \div Pow2[6]) % Pow2[Word]
    BY <1>6, GetBits
  <2> QED
    BY <1>4, <2>1, Zenon
<1>9. getbitu(Packed(B), p + Word, 6) = u % Pow2[6]
  <2>1. getbitu(Packed(B), p + Word, 6) = (u \div Pow2[0]) % Pow2[6]
    BY <1>7, GetBits
  <2> QED
    BY <1>4, <2>1, Zenon
<1>10. getbits(Packed(B), p, Word) = AsInt(u \div Pow2[6])
  <2>1. Word <= Word
    BY <1>1
  <2> QED
    BY <1>8, <2>1, Zenon DEF getbits
<1> QED
  BY <1>4, <1>8, <1>9, <1>10, Zenon DEF getbits_38

\* The bits of a message of coordinates, up to the first and from there on
HeadBits == Binary(211, 8) \o Binary(0, 16) \o Binary(1005, 12) \o Binary(7, 12) \o Binary(63, 6) \o Binary(15, 4)
PlaceBits(c) == HeadBits \o Binary(c[1], Word + 6) \o Binary(3, 2) \o Binary(c[2], Word + 6)
                \o Binary(3, 2) \o Binary(c[3], Word + 6)

\* There are 58 before it.
LEMMA HeadLength == IsBinary(HeadBits, 58)
<1>1. Word \in Nat /\ Word >= 6
  BY DecodeAssumption
<1>2. /\ 8 \in 0..Word + 16 /\ 16 \in 0..Word + 16 /\ 12 \in 0..Word + 16 /\ 6 \in 0..Word + 16
      /\ 4 \in 0..Word + 16
  BY <1>1
<1>3. /\ IsBinary(Binary(211, 8), 8) /\ IsBinary(Binary(0, 16), 16) /\ IsBinary(Binary(1005, 12), 12)
      /\ IsBinary(Binary(7, 12), 12) /\ IsBinary(Binary(63, 6), 6) /\ IsBinary(Binary(15, 4), 4)
  BY <1>2, BinaryBits
<1> DEFINE b1 == Binary(211, 8)
           b2 == Binary(0, 16)
           b3 == Binary(1005, 12)
           b4 == Binary(7, 12)
           b5 == Binary(63, 6)
           b6 == Binary(15, 4)
<1> HIDE DEF b1, b2, b3, b4, b5, b6
<1>4. /\ IsBinary(b1, 8) /\ IsBinary(b2, 16) /\ IsBinary(b3, 12) /\ IsBinary(b4, 12) /\ IsBinary(b5, 6)
      /\ IsBinary(b6, 4)
  BY <1>3 DEF b1, b2, b3, b4, b5, b6
<1>5. IsBinary(b1 \o b2, 8 + 16)
  BY <1>4, BitsAfter
<1>6. IsBinary(b1 \o b2 \o b3, (8 + 16) + 12)
  BY <1>4, <1>5, BitsAfter
<1>7. IsBinary(b1 \o b2 \o b3 \o b4, ((8 + 16) + 12) + 12)
  BY <1>4, <1>6, BitsAfter
<1>8. IsBinary(b1 \o b2 \o b3 \o b4 \o b5, (((8 + 16) + 12) + 12) + 6)
  BY <1>4, <1>7, BitsAfter
<1>9. IsBinary(b1 \o b2 \o b3 \o b4 \o b5 \o b6, ((((8 + 16) + 12) + 12) + 6) + 4)
  BY <1>4, <1>8, BitsAfter
<1>10. ((((8 + 16) + 12) + 12) + 6) + 4 = 58
  OBVIOUS
<1>11. HeadBits = b1 \o b2 \o b3 \o b4 \o b5 \o b6
  BY DEF HeadBits, b1, b2, b3, b4, b5, b6
<1> QED
  BY <1>9, <1>10, <1>11

\* Then the coordinates, with two bits between them
LEMMA PlaceLaid ==
    ASSUME NEW c \in Coordinate \X Coordinate \X Coordinate
    PROVE  /\ IsBinary(PlaceBits(c), 58 + (2 * (Word + 8) + (Word + 6)))
           /\ Spells(PlaceBits(c), 58, Binary(c[1], Word + 6), Word + 6)
           /\ Spells(PlaceBits(c), 58 + (Word + 8), Binary(c[2], Word + 6), Word + 6)
           /\ Spells(PlaceBits(c), 58 + 2 * (Word + 8), Binary(c[3], Word + 6), Word + 6)
<1>1. Word \in Nat /\ Word >= 6
  BY DecodeAssumption
<1>2. PICK W \in Nat : W = Word + 6
  BY <1>1
<1>3. W \in 0..Word + 16 /\ 2 \in 0..Word + 16
  BY <1>1, <1>2
<1>4. c[1] \in Int /\ c[2] \in Int /\ c[3] \in Int
  <2>1. Word + 5 \in 0..Word + 16
    BY <1>1
  <2>2. Pow2[Word + 5] \in Nat
    BY <2>1, Pow2Is
  <2>3. c[1] \in Coordinate /\ c[2] \in Coordinate /\ c[3] \in Coordinate
    OBVIOUS
  <2> QED
    BY <2>2, <2>3 DEF Coordinate
<1> DEFINE h == HeadBits
           x == Binary(c[1], W)
           y == Binary(c[2], W)
           z == Binary(c[3], W)
           s == Binary(3, 2)
<1>5. IsBinary(h, 58) /\ IsBinary(x, W) /\ IsBinary(y, W) /\ IsBinary(z, W) /\ IsBinary(s, 2)
  BY <1>3, <1>4, BinaryBits, HeadLength
<1>6. PlaceBits(c) = h \o x \o s \o y \o s \o z
  BY <1>2, Zenon DEF PlaceBits
<1> DEFINE n1 == 58 + W
           p2 == n1 + 2
           n2 == p2 + W
           p3 == n2 + 2
           n3 == p3 + W
<1>7. /\ n1 \in Nat /\ p2 \in Nat /\ n2 \in Nat /\ p3 \in Nat /\ n3 \in Nat
      /\ n1 = 58 + W /\ p2 = n1 + 2 /\ n2 = p2 + W /\ p3 = n2 + 2 /\ n3 = p3 + W
  OBVIOUS
<1> HIDE DEF h, x, y, z, s, n1, p2, n2, p3, n3
<1>8. IsBinary(h \o x, n1) /\ Spells(h \o x, 58, x, W)
  BY <1>5, <1>7, BitsAfter
<1>9. IsBinary(h \o x \o s, p2) /\ Spells(h \o x \o s, 58, x, W)
  <2>1. 58 + W <= n1 /\ 58 \in Nat
    BY <1>7
  <2> QED
    BY <1>5, <1>7, <1>8, <2>1, BitsAfter
<1>10. /\ IsBinary(h \o x \o s \o y, n2) /\ Spells(h \o x \o s \o y, 58, x, W)
       /\ Spells(h \o x \o s \o y, p2, y, W)
  <2>1. 58 + W <= p2 /\ 58 \in Nat
    BY <1>7
  <2> QED
    BY <1>5, <1>7, <1>9, <2>1, BitsAfter
<1>11. /\ IsBinary(h \o x \o s \o y \o s, p3) /\ Spells(h \o x \o s \o y \o s, 58, x, W)
       /\ Spells(h \o x \o s \o y \o s, p2, y, W)
  <2>1. 58 + W <= n2 /\ p2 + W <= n2 /\ 58 \in Nat
    BY <1>7
  <2> QED
    BY <1>5, <1>7, <1>10, <2>1, BitsAfter
<1>12. /\ IsBinary(h \o x \o s \o y \o s \o z, n3) /\ Spells(h \o x \o s \o y \o s \o z, 58, x, W)
       /\ Spells(h \o x \o s \o y \o s \o z, p2, y, W) /\ Spells(h \o x \o s \o y \o s \o z, p3, z, W)
  <2>1. 58 + W <= p3 /\ p2 + W <= p3 /\ 58 \in Nat
    BY <1>7
  <2> QED
    BY <1>5, <1>7, <1>11, <2>1, BitsAfter
<1>13. p2 = 58 + (Word + 8) /\ p3 = 58 + 2 * (Word + 8) /\ n3 = 58 + (2 * (Word + 8) + (Word + 6))
  BY <1>1, <1>2, <1>7
<1>14. x = Binary(c[1], Word + 6) /\ y = Binary(c[2], Word + 6) /\ z = Binary(c[3], Word + 6)
  BY <1>2 DEF x, y, z
<1> QED
  BY <1>2, <1>6, <1>12, <1>13, <1>14, Zenon

\* decode_type1005 reads what was sent.
LEMMA ArpRead ==
    ASSUME NEW c \in Coordinate \X Coordinate \X Coordinate
    PROVE  Arp(CoordinateFrame(c)) = c
<1>1. Word \in Nat /\ Word >= 6
  BY DecodeAssumption
<1>2. CoordinateFrame(c) = Packed(PlaceBits(c))
  BY Zenon DEF CoordinateFrame, PlaceBits, HeadBits
<1>3. c[1] \in Coordinate /\ c[2] \in Coordinate /\ c[3] \in Coordinate /\ c = <<c[1], c[2], c[3]>>
  OBVIOUS
<1> DEFINE n == 58 + (2 * (Word + 8) + (Word + 6))
<1>4. /\ 58 \in Nat /\ 58 + (Word + 8) \in Nat /\ 58 + 2 * (Word + 8) \in Nat
      /\ 58 + (Word + 6) <= n /\ (58 + (Word + 8)) + (Word + 6) <= n
      /\ (58 + 2 * (Word + 8)) + (Word + 6) <= n
  BY <1>1
<1>5. /\ IsBinary(PlaceBits(c), n)
      /\ Spells(PlaceBits(c), 58, Binary(c[1], Word + 6), Word + 6)
      /\ Spells(PlaceBits(c), 58 + (Word + 8), Binary(c[2], Word + 6), Word + 6)
      /\ Spells(PlaceBits(c), 58 + 2 * (Word + 8), Binary(c[3], Word + 6), Word + 6)
  BY PlaceLaid
<1> HIDE DEF n
<1>6. getbits_38(Packed(PlaceBits(c)), 58) = c[1]
  BY <1>3, <1>4, <1>5, CoordinateRead
<1>7. getbits_38(Packed(PlaceBits(c)), 58 + (Word + 8)) = c[2]
  BY <1>3, <1>4, <1>5, CoordinateRead
<1>8. getbits_38(Packed(PlaceBits(c)), 58 + 2 * (Word + 8)) = c[3]
  BY <1>3, <1>4, <1>5, CoordinateRead
<1>9. /\ 24 + 12 + 12 + 6 + 1 + 1 + 1 + 1 = 58
      /\ 58 + Word + 8 = 58 + (Word + 8)
  BY <1>1
<1>10. Arp(CoordinateFrame(c)) =
         <<getbits_38(CoordinateFrame(c), 58), getbits_38(CoordinateFrame(c), 58 + (Word + 8)),
           getbits_38(CoordinateFrame(c), 58 + 2 * (Word + 8))>>
  BY <1>9 DEF Arp
<1> QED
  BY <1>2, <1>3, <1>6, <1>7, <1>8, <1>10

\* The coordinate of the base is the last one sent without a zero in it, negative ones and those of
\* full width included: getbitu, getbits, getbits_38 and decode_type1005, for every width of an int.
THEOREM CoordinateRight == DecodeSpec => []CoordinateAsSent
<1>1. DecodeInit => CoordinateAsSent
  BY DEF DecodeInit, CoordinateAsSent
<1>2. CoordinateAsSent /\ [DecodeNext]_decodeVars => CoordinateAsSent'
  <2> SUFFICES ASSUME CoordinateAsSent, [DecodeNext]_decodeVars PROVE CoordinateAsSent'
    OBVIOUS
  <2>1. CASE \E m \in Observations : ParseMsm(m)
    BY <2>1, Zenon DEF ParseMsm, CoordinateAsSent
  <2>2. CASE \E m \in Ephemerides : ParseEphemeris(m)
    BY <2>2, ZenonT(60) DEF ParseEphemeris, CoordinateAsSent
  <2>3. CASE \E c \in Coordinates : ParseCoordinate(c)
    <3>1. PICK c \in Coordinates : ParseCoordinate(c)
      BY <2>3
    <3>2. Arp(CoordinateFrame(c)) = c
      BY ArpRead, CoordinatesAssumption
    <3> QED
      BY <3>1, <3>2, Zenon DEF ParseCoordinate, CoordinateAsSent
  <2>4. CASE UNCHANGED decodeVars
    BY <2>4 DEF decodeVars, CoordinateAsSent
  <2> QED
    BY <2>1, <2>2, <2>3, <2>4, Zenon DEF DecodeNext
<1> QED
  BY <1>1, <1>2, PTL DEF DecodeSpec
===============================================================================
