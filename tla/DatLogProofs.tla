---------------------------- MODULE DatLogProofs ----------------------------
(***************************************************************************)
(* The lock of DatLog: that it excludes, in the build for EC100Y until a   *)
(* writer has found the ring full; and that with it what is logged is what *)
(* was put, in order.                                                      *)
(***************************************************************************)
EXTENDS DatLog, SequenceTheorems, TLAPS

\* Whoever is between taking the lock and giving it back.
Holds(t) == pc[t] \in {"test", "inside", "release"} \/ (t = Log /\ pc[t] = "log" /\ ~Posix)

\* There is one lock, with a thread or without.
OneLock ==
    Locked => \A t \in Thread : Holds(t) => count = 0 /\ \A u \in Thread : Holds(u) => u = t

\* A writer sleeps after it found the ring full.
SleptFull == \A w \in Writers : pc[w] = "sleep" => waited

\* Every step of a thread changes the place of that thread, and of those that it
\* wakes.
Moves(t) == \A u \in Thread \ {t} : pc'[u] = pc[u] \/ (pc[u] = "wait" /\ pc'[u] = "again")

-----------------------------------------------------------------------------
(* The lock.                                                                *)

\* A step of a thread that has the lock before or after, or neither.
LEMMA LockKept ==
    ASSUME TypeOK, OneLock, NEW t \in Thread, Moves(t), build' = build,
           Locked' => Locked,
           Locked' => \/ Holds(t) /\ Holds(t)' /\ count' = count
                      \/ Holds(t) /\ ~Holds(t)' /\ count' = 1
                      \/ ~Holds(t) /\ ~Holds(t)' /\ count' = count
                      \/ ~Holds(t) /\ Holds(t)' /\ count = 1 /\ count' = 0
    PROVE  OneLock'
<1> SUFFICES ASSUME Locked' PROVE (\A u \in Thread : Holds(u) => count = 0 /\ \A v \in Thread : Holds(v) => v = u)'
  BY DEF OneLock
<1>1. \A u \in Thread \ {t} : Holds(u)' <=> Holds(u)
  BY DEF Moves, Holds, Posix
<1>2. \A u \in Thread : Holds(u) => count = 0 /\ \A v \in Thread : Holds(v) => v = u
  BY DEF OneLock
<1> QED
  BY <1>1, <1>2

\* A lock that is held is given back once.
LEMMA ReleaseFrees ==
    ASSUME TypeOK, OneLock, Locked, NEW t \in Thread, Holds(t), Release
    PROVE  count' = 1
<1>1. count = 0
  BY DEF OneLock
<1> QED
  BY <1>1, DatLogAssumption DEF Release, Min

\* What a writer does keeps to the lock.
LEMMA WriterLock ==
    ASSUME TypeOK, OneLock, SleptFull, NEW w \in Writers, Call(w) \/ Step(w)
    PROVE  OneLock'
<1> USE DatLogAssumption
<1>0. w \in Thread /\ w # Log /\ Log \in Thread /\ DOMAIN pc = Thread
  BY DEF Thread, Log, TypeOK
<1>1. build' = build /\ (Locked' => Locked) /\ (Posix' <=> Posix)
  BY DEF Call, Step, Test, Sleep, Write, Unlock, NotifyLog, Locked, Posix
<1>2. Moves(w)
  <2>1. CASE NotifyLog(w)
    BY <1>0, <2>1 DEF NotifyLog, Notified, Moves
  <2> QED
    BY <1>0, <2>1 DEF Call, Step, Test, Sleep, Write, Unlock, Goto, Moves
<1>3. Locked' => \/ Holds(w) /\ Holds(w)' /\ count' = count
                 \/ Holds(w) /\ ~Holds(w)' /\ count' = 1
                 \/ ~Holds(w) /\ ~Holds(w)' /\ count' = count
                 \/ ~Holds(w) /\ Holds(w)' /\ count = 1 /\ count' = 0
  <2> SUFFICES ASSUME Locked'
               PROVE \/ Holds(w) /\ Holds(w)' /\ count' = count
                     \/ Holds(w) /\ ~Holds(w)' /\ count' = 1
                     \/ ~Holds(w) /\ ~Holds(w)' /\ count' = count
                     \/ ~Holds(w) /\ Holds(w)' /\ count = 1 /\ count' = 0
    OBVIOUS
  <2>1. CASE Call(w)
    BY <1>0, <2>1 DEF Call, Goto, Holds
  <2>2. CASE Test(w)
    <3>1. CASE Free < size[w]
      <4>1. Holds(w) /\ Release /\ pc'[w] \in {"wait", "sleep"}
        BY <1>0, <2>2, <3>1 DEF Test, Goto, Holds
      <4>2. count' = 1
        BY <1>0, <1>1, <4>1, ReleaseFrees
      <4> QED
        BY <1>0, <4>1, <4>2 DEF Holds
    <3>2. CASE ~(Free < size[w])
      BY <1>0, <2>2, <3>2 DEF Test, Goto, Holds
    <3> QED
      BY <3>1, <3>2
  <2>3. CASE Sleep(w)
    <3>1. ~Posix /\ waited' = waited /\ pc[w] = "sleep"
      BY <1>0, <2>3 DEF Sleep, TypeOK
    <3>2. ~waited
      BY <1>1, <3>1 DEF Locked
    <3> QED
      BY <1>0, <3>1, <3>2 DEF SleptFull
  <2>4. CASE Write(w)
    BY <1>0, <2>4 DEF Write, Goto, Holds
  <2>5. CASE Unlock(w)
    <3>1. Holds(w) /\ Release /\ pc'[w] \in {"notify", "idle"}
      BY <1>0, <2>5 DEF Unlock, Goto, Holds
    <3>2. count' = 1
      BY <1>0, <1>1, <3>1, ReleaseFrees
    <3> QED
      BY <1>0, <3>1, <3>2 DEF Holds
  <2>6. CASE NotifyLog(w)
    BY <1>0, <2>6 DEF NotifyLog, Notified, Holds
  <2> QED
    BY <2>1, <2>2, <2>3, <2>4, <2>5, <2>6 DEF Step
<1> QED
  BY <1>0, <1>1, <1>2, <1>3, LockKept

\* So does what the thread of the log does.
LEMMA LogLock ==
    ASSUME TypeOK, OneLock, LogStep
    PROVE  OneLock'
<1> USE DatLogAssumption
<1>0. Log \in Thread /\ DOMAIN pc = Thread
  BY DEF Thread, TypeOK
<1>1. build' = build /\ (Locked' => Locked) /\ (Posix' <=> Posix)
  <2>1. build' = build /\ waited' = waited
    BY DEF LogStep, TestLog, Read, NotifyWriters, LogBin
  <2> QED
    BY <2>1 DEF Locked, Posix
<1>2. Moves(Log)
  <2>1. CASE NotifyWriters
    BY <1>0, <2>1 DEF NotifyWriters, Notified, Moves
  <2> QED
    BY <1>0, <2>1 DEF LogStep, TestLog, Read, LogBin, Goto, Moves
<1>3. Locked' => \/ Holds(Log) /\ Holds(Log)' /\ count' = count
                 \/ Holds(Log) /\ ~Holds(Log)' /\ count' = 1
                 \/ ~Holds(Log) /\ ~Holds(Log)' /\ count' = count
                 \/ ~Holds(Log) /\ Holds(Log)' /\ count = 1 /\ count' = 0
  <2> SUFFICES ASSUME Locked'
               PROVE \/ Holds(Log) /\ Holds(Log)' /\ count' = count
                     \/ Holds(Log) /\ ~Holds(Log)' /\ count' = 1
                     \/ ~Holds(Log) /\ ~Holds(Log)' /\ count' = count
                     \/ ~Holds(Log) /\ Holds(Log)' /\ count = 1 /\ count' = 0
    OBVIOUS
  <2>r. Holds(Log) /\ Release => count' = 1
    BY <1>0, <1>1, ReleaseFrees
  <2>1. CASE TestLog
    <3>1. Holds(Log)
      BY <2>1 DEF TestLog, Holds
    <3>2. \/ Release /\ pc'[Log] \in {"wait", "acquire"}
          \/ count' = count /\ pc'[Log] = "inside"
      BY <1>0, <2>1 DEF TestLog, Goto
    <3> QED
      BY <2>r, <3>1, <3>2 DEF Holds
  <2>2. CASE Read
    <3>1. Holds(Log)
      BY <2>2 DEF Read, Holds
    <3>2. \/ Release /\ pc'[Log] = "acquire"
          \/ Release /\ pc'[Log] = "notify"
          \/ count' = count /\ pc'[Log] = "log" /\ ~Posix
      <4>1. PICK before \in {seen[Log], ring} :
                /\ Goto(Log, CASE Min(Len(before), ReadMax) = 0           -> "acquire"
                               [] Min(Len(before), ReadMax) > 0 /\ Posix  -> "notify"
                               [] Min(Len(before), ReadMax) > 0 /\ ~Posix -> "log")
                /\ IF Min(Len(before), ReadMax) = 0 \/ Posix THEN Release ELSE UNCHANGED count
        BY <2>2 DEF Read
      <4>2. before \in Seq(Byte) /\ Min(Len(before), ReadMax) \in Nat
        BY <1>0 DEF TypeOK, Min
      <4> DEFINE n == Min(Len(before), ReadMax)
      <4> HIDE DEF n
      <4>3. /\ n \in Nat
            /\ Goto(Log, CASE n = 0 -> "acquire" [] n > 0 /\ Posix -> "notify" [] n > 0 /\ ~Posix -> "log")
            /\ IF n = 0 \/ Posix THEN Release ELSE UNCHANGED count
        BY <4>1, <4>2 DEF n
      <4>4. CASE n = 0
        BY <1>0, <4>3, <4>4 DEF Goto
      <4>5. CASE n > 0 /\ Posix
        BY <1>0, <4>3, <4>5 DEF Goto
      <4>6. CASE n > 0 /\ ~Posix
        BY <1>0, <4>3, <4>6 DEF Goto
      <4> QED
        BY <4>3, <4>4, <4>5, <4>6
    <3> QED
      BY <1>1, <2>r, <3>1, <3>2 DEF Holds
  <2>3. CASE NotifyWriters
    <3>1. Posix /\ pc[Log] = "notify" /\ count' = count
      BY <1>0, <2>3 DEF NotifyWriters, TypeOK
    <3>2. pc'[Log] = "log"
      BY <1>0, <2>3 DEF NotifyWriters, Notified
    <3> QED
      BY <1>1, <3>1, <3>2 DEF Holds
  <2>4. CASE LogBin
    BY <1>0, <1>1, <2>r, <2>4 DEF LogBin, Goto, Holds
  <2> QED
    BY <2>1, <2>2, <2>3, <2>4 DEF LogStep
<1> QED
  BY <1>0, <1>1, <1>2, <1>3, LockKept

\* So does taking it, and waking.
LEMMA AcquireLock ==
    ASSUME TypeOK, OneLock, NEW t \in Thread, Acquire(t) \/ Spurious(t)
    PROVE  OneLock'
<1> USE DatLogAssumption
<1>0. DOMAIN pc = Thread
  BY DEF TypeOK
<1>1. build' = build /\ (Locked' => Locked) /\ (Posix' <=> Posix) /\ Moves(t)
  BY <1>0 DEF Acquire, Spurious, Locked, Posix, Moves, Goto
<1>2. CASE Acquire(t)
  <2>1. ~Holds(t) /\ Holds(t)' /\ count' = count - 1 /\ count > 0
    BY <1>0, <1>2 DEF Acquire, Goto, Holds
  <2>2. Locked => count \in 0..1
    BY DEF TypeOK
  <2> QED
    BY <1>1, <2>1, <2>2, LockKept
<1>3. CASE Spurious(t)
  <2>1. ~Holds(t) /\ ~Holds(t)' /\ count' = count
    BY <1>0, <1>3 DEF Spurious, Goto, Holds
  <2> QED
    BY <1>1, <2>1, LockKept
<1> QED
  BY <1>2, <1>3

-----------------------------------------------------------------------------
(* Types.                                                                   *)

Steps == {"idle", "acquire", "again", "test", "wait", "sleep", "inside", "release", "notify", "log"}

\* The place of a thread after a step, and of those that it wakes.
LEMMA Places ==
    ASSUME TypeOK, NEW t \in Thread, NEW step \in Steps, build' = build,
           pc' = [pc EXCEPT ![t] = step]
             \/ \E threads \in SUBSET Thread : pc' = [Notified(threads) EXCEPT ![t] = step],
           step \in {"wait", "again", "notify"} => Posix, step = "sleep" => ~Posix
    PROVE  /\ pc' \in [Thread -> Steps]
           /\ \A u \in Thread : (pc[u] \in {"wait", "again", "notify"} => Posix)'
                              /\ (pc[u] = "sleep" => ~Posix)'
<1>1. /\ pc \in [Thread -> Steps]
      /\ \A u \in Thread : (pc[u] \in {"wait", "again", "notify"} => Posix) /\ (pc[u] = "sleep" => ~Posix)
  BY DEF TypeOK, Steps
<1>2. Posix' <=> Posix
  BY DEF Posix
<1>3. CASE pc' = [pc EXCEPT ![t] = step]
  BY <1>1, <1>2, <1>3
<1>4. CASE \E threads \in SUBSET Thread : pc' = [Notified(threads) EXCEPT ![t] = step]
  <2>1. PICK threads \in SUBSET Thread : pc' = [Notified(threads) EXCEPT ![t] = step]
    BY <1>4
  <2>2. \A u \in Thread : pc'[u] = step \/ pc'[u] = pc[u] \/ (pc[u] = "wait" /\ pc'[u] = "again")
    BY <2>1 DEF Notified
  <2>3. pc' \in [Thread -> Steps]
    BY <1>1, <2>1 DEF Notified, Steps
  <2> QED
    BY <1>1, <1>2, <2>2, <2>3
<1> QED
  BY <1>3, <1>4

\* The count after giving the lock back.
LEMMA ReleaseTypes ==
    ASSUME TypeOK, OneLock, NEW t \in Thread, Holds(t) \/ ~Locked, Release, Locked' => Locked
    PROVE  count' \in 0..(IF Locked' THEN 1 ELSE MaxCount)
<1> USE DatLogAssumption
<1>1. CASE Locked
  <2>1. count' = 1
    BY <1>1, ReleaseFrees
  <2> QED
    BY <2>1
<1>2. CASE ~Locked
  <2>1. ~Locked' /\ ~Posix /\ count \in 0..MaxCount
    BY <1>2 DEF Locked, TypeOK
  <2> QED
    BY <2>1 DEF Release, Min
<1> QED
  BY <1>1, <1>2

\* What rb_read and rb_write take and leave are bytes.
LEMMA Bytes ==
    ASSUME TypeOK, NEW t \in Thread, NEW before \in {seen[t], ring}
    PROVE  /\ before \in Seq(Byte)
           /\ \A w \in Writers : before \o Record(w) \in Seq(Byte) /\ put \o Record(w) \in Seq(Byte)
           /\ LET n == Min(Len(before), ReadMax)
              IN  n \in Nat /\ SubSeq(before, 1, n) \in Seq(Byte)
                         /\ SubSeq(before, n + 1, Len(before)) \in Seq(Byte)
<1> USE DatLogAssumption
<1>1. before \in Seq(Byte) /\ put \in Seq(Byte)
  BY DEF TypeOK
<1>2. ASSUME NEW w \in Writers PROVE Record(w) \in Seq(Byte)
  <2>0. size[w] \in Sizes \union {0} /\ id[w] \in 0..MaxRecords
    BY DEF TypeOK
  <2>s. \A n \in Sizes : n \in Nat
    OBVIOUS
  <2>n. size[w] \in Nat
    <3>1. CASE size[w] = 0
      BY <3>1
    <3>2. CASE size[w] \in Sizes
      BY <2>s, <3>2, Zenon
    <3> QED
      BY <2>0, <3>1, <3>2
  <2>i. id[w] \in Nat
    BY <2>0
  <2>1. size[w] \in Nat /\ id[w] \in Nat
    BY <2>n, <2>i
  <2>2. \A k \in 1..size[w] : <<id[w], k>> \in Byte
    BY <2>1 DEF Byte
  <2> QED
    BY <2>1, <2>2 DEF Record
<1>3. \A s, u \in Seq(Byte) : s \o u \in Seq(Byte)
  OBVIOUS
<1> DEFINE n == Min(Len(before), ReadMax)
<1>4. n \in Nat /\ n <= Len(before)
  BY <1>1 DEF Min
<1> HIDE DEF n
<1>5. SubSeq(before, 1, n) \in Seq(Byte) /\ SubSeq(before, n + 1, Len(before)) \in Seq(Byte)
  BY <1>1, <1>4
<1> QED
  BY <1>1, <1>2, <1>3, <1>4, <1>5 DEF n

\* The steps of a writer keep the types.
LEMMA WriterTypes ==
    ASSUME TypeOK, OneLock, SleptFull, NEW w \in Writers, Call(w) \/ Step(w)
    PROVE  TypeOK' /\ SleptFull'
<1> USE DatLogAssumption
<1>0. w \in Thread /\ w # Log /\ Log \in Thread /\ DOMAIN pc = Thread
  BY DEF Thread, Log, TypeOK
<1>1. build' = build /\ readBuffer' = readBuffer /\ file' = file /\ out' = out /\ lost' = lost
  BY DEF Call, Step, Test, Sleep, Write, Unlock, NotifyLog
<1>2. (Locked' => Locked) /\ (waited => waited') /\ (Posix' <=> Posix) /\ waited' \in BOOLEAN
  BY DEF Call, Step, Test, Sleep, Write, Unlock, NotifyLog, Locked, Posix, TypeOK
<1>3. size' \in [Writers -> Sizes \union {0}] /\ id' \in [Writers -> 0..MaxRecords]
      /\ records' \in 0..MaxRecords
  BY DEF Call, Step, Test, Sleep, Write, Unlock, NotifyLog, TypeOK
<1>4. PICK step \in Steps :
          /\ pc' = [pc EXCEPT ![w] = step] \/ pc' = [Notified({Log}) EXCEPT ![w] = step]
          /\ step \in {"wait", "again", "notify"} => Posix
          /\ step = "sleep" => ~Posix /\ waited'
  <2>1. CASE NotifyLog(w)
    BY <2>1 DEF NotifyLog, Steps
  <2>2. CASE Call(w)
    BY <2>2 DEF Call, Goto, Steps
  <2>3. CASE Test(w)
    <3>1. CASE Free < size[w]
      BY <2>3, <3>1 DEF Test, Goto, Steps
    <3>2. CASE ~(Free < size[w])
      BY <2>3, <3>2 DEF Test, Goto, Steps
    <3> QED
      BY <3>1, <3>2
  <2>4. CASE Sleep(w) \/ Write(w)
    BY <2>4 DEF Sleep, Write, Goto, Steps
  <2>5. CASE Unlock(w)
    BY <2>5 DEF Unlock, Goto, Steps
  <2> QED
    BY <2>1, <2>2, <2>3, <2>4, <2>5 DEF Step
<1>5. /\ pc' \in [Thread -> Steps]
      /\ \A u \in Thread : (pc[u] \in {"wait", "again", "notify"} => Posix)'
                         /\ (pc[u] = "sleep" => ~Posix)'
  <2>1. {Log} \in SUBSET Thread
    BY <1>0
  <2> QED
    BY <1>0, <1>1, <1>4, <2>1, Places
<1>6. SleptFull'
  <2>1. \A u \in Writers \ {w} : pc'[u] = "sleep" => pc[u] = "sleep"
    BY <1>0, <1>4 DEF Notified, Thread
  <2>2. pc'[w] = "sleep" => waited'
    BY <1>0, <1>4 DEF Notified
  <2> QED
    BY <1>2, <2>1, <2>2 DEF SleptFull
<1>7. count' \in 0..(IF Locked' THEN 1 ELSE MaxCount)
  <2>1. CASE UNCHANGED count
    BY <1>2, <2>1 DEF TypeOK
  <2>2. CASE Release /\ Holds(w)
    BY <1>0, <1>2, <2>2, ReleaseTypes
  <2> QED
    BY <1>0, <2>1, <2>2 DEF Call, Step, Test, Sleep, Write, Unlock, NotifyLog, Holds
<1>8. seen' \in [Thread -> Seq(Byte)] /\ ring' \in Seq(Byte) /\ put' \in Seq(Byte)
  <2>1. CASE Write(w)
    <3>1. PICK before \in {seen[w], ring} :
              IF Capacity - Len(before) < size[w]
              THEN UNCHANGED <<ring, put>>
              ELSE ring' = before \o Record(w) /\ put' = put \o Record(w)
      BY <2>1 DEF Write
    <3>2. before \o Record(w) \in Seq(Byte) /\ put \o Record(w) \in Seq(Byte)
      BY <1>0, Bytes
    <3>3. seen' = seen /\ seen \in [Thread -> Seq(Byte)] /\ ring \in Seq(Byte) /\ put \in Seq(Byte)
      BY <2>1 DEF Write, TypeOK
    <3> QED
      BY <3>1, <3>2, <3>3
  <2>2. CASE ~Write(w)
    BY <2>2 DEF Call, Step, Test, Sleep, Unlock, NotifyLog, TypeOK
  <2> QED
    BY <2>1, <2>2
<1> QED
  BY <1>1, <1>2, <1>3, <1>5, <1>6, <1>7, <1>8 DEF TypeOK, Steps

\* So do those of the thread of the log.
LEMMA LogTypes ==
    ASSUME TypeOK, OneLock, SleptFull, LogStep
    PROVE  TypeOK' /\ SleptFull'
<1> USE DatLogAssumption
<1>0. Log \in Thread /\ DOMAIN pc = Thread /\ Writers \subseteq Thread
  BY DEF Thread, TypeOK
<1>1. UNCHANGED <<build, size, id, records, waited, put>>
  BY DEF LogStep, TestLog, Read, NotifyWriters, LogBin
<1>2. (Locked' <=> Locked) /\ (Posix' <=> Posix)
  BY <1>1 DEF Locked, Posix
<1>n. \A before \in {seen[Log], ring} :
          LET n == Min(Len(before), ReadMax)
          IN  n \in Nat /\ SubSeq(before, 1, n) \in Seq(Byte)
                     /\ SubSeq(before, n + 1, Len(before)) \in Seq(Byte)
  BY <1>0, Bytes
<1>3. PICK step \in {"wait", "acquire", "inside", "notify", "log"} :
          /\ pc' = [pc EXCEPT ![Log] = step] \/ pc' = [Notified(Writers) EXCEPT ![Log] = step]
          /\ step \in {"wait", "notify"} => Posix
  <2>1. CASE TestLog
    <3>1. CASE ring = <<>>
      BY <2>1, <3>1 DEF TestLog, Goto
    <3>2. CASE ring # <<>>
      BY <2>1, <3>2 DEF TestLog, Goto
    <3> QED
      BY <3>1, <3>2
  <2>2. CASE Read
    <3>1. PICK n \in Nat :
              Goto(Log, CASE n = 0 -> "acquire" [] n > 0 /\ Posix -> "notify" [] n > 0 /\ ~Posix -> "log")
      BY <2>2, <1>n DEF Read
    <3>2. CASE n = 0
      BY <3>1, <3>2 DEF Goto
    <3>3. CASE n > 0 /\ Posix
      BY <3>1, <3>3 DEF Goto
    <3>4. CASE n > 0 /\ ~Posix
      <4>0. n # 0 /\ ~Posix
        BY <3>4
      <4>1. pc' = [pc EXCEPT ![Log] = "log"]
        BY <3>1, <3>4, <4>0, Zenon DEF Goto
      <4> QED
        BY <4>1
    <3> QED
      BY <3>2, <3>3, <3>4
  <2>3. CASE NotifyWriters
    BY <2>3 DEF NotifyWriters
  <2>4. CASE LogBin
    BY <2>4 DEF LogBin, Goto
  <2> QED
    BY <2>1, <2>2, <2>3, <2>4 DEF LogStep
<1>5. /\ pc' \in [Thread -> Steps]
      /\ \A u \in Thread : (pc[u] \in {"wait", "again", "notify"} => Posix)'
                         /\ (pc[u] = "sleep" => ~Posix)'
  <2>1. Writers \in SUBSET Thread /\ step \in Steps /\ step # "sleep" /\ step # "again"
    BY <1>0 DEF Steps
  <2> QED
    BY <1>0, <1>1, <1>3, <2>1, Places
<1>6. SleptFull'
  <2>1. \A u \in Writers : u # Log
    BY DEF Log
  <2>2. \A u \in Writers : pc'[u] = "sleep" => pc[u] = "sleep"
    BY <1>0, <1>3, <2>1 DEF Notified
  <2> QED
    BY <1>1, <2>2 DEF SleptFull
<1>7. count' \in 0..(IF Locked' THEN 1 ELSE MaxCount)
  <2>1. CASE UNCHANGED count
    BY <1>2, <2>1 DEF TypeOK
  <2>2. CASE Release /\ Holds(Log)
    BY <1>0, <1>2, <2>2, ReleaseTypes
  <2>3. TestLog \/ Read => Holds(Log)
    BY DEF TestLog, Read, Holds
  <2>4. LogBin => UNCHANGED count \/ (Release /\ Holds(Log))
    BY DEF LogBin, Holds
  <2>5. TestLog \/ Read \/ NotifyWriters => UNCHANGED count \/ Release
    BY DEF TestLog, Read, NotifyWriters
  <2>6. NotifyWriters => UNCHANGED count
    BY DEF NotifyWriters
  <2> QED
    BY <2>1, <2>2, <2>3, <2>4, <2>5, <2>6 DEF LogStep
<1>8. seen' \in [Thread -> Seq(Byte)] /\ ring' \in Seq(Byte) /\ readBuffer' \in Seq(Byte)
      /\ out' \in Seq(Byte) /\ file' \in BOOLEAN /\ lost' \in Nat
  <2>0. /\ seen \in [Thread -> Seq(Byte)] /\ ring \in Seq(Byte) /\ readBuffer \in Seq(Byte)
        /\ out \in Seq(Byte) /\ file \in BOOLEAN /\ lost \in Nat
    BY DEF TypeOK
  <2>1. CASE TestLog
    BY <1>0, <2>0, <2>1 DEF TestLog
  <2>2. CASE Read
    <3>1. PICK before \in {seen[Log], ring} :
              LET n == Min(Len(before), ReadMax)
              IN  readBuffer' = SubSeq(before, 1, n) /\ ring' = SubSeq(before, n + 1, Len(before))
      BY <2>2 DEF Read
    <3>2. readBuffer' \in Seq(Byte) /\ ring' \in Seq(Byte)
      BY <1>n, <3>1
    <3> QED
      BY <2>0, <2>2, <3>2 DEF Read
  <2>3. CASE NotifyWriters
    BY <2>0, <2>3 DEF NotifyWriters
  <2>4. CASE LogBin
    <3>1. out \o readBuffer \in Seq(Byte) /\ Len(readBuffer) \in Nat /\ <<>> \in Seq(Byte)
      BY <2>0
    <3>2. file' \in BOOLEAN /\ seen' = seen /\ ring' = ring /\ readBuffer' = <<>>
      BY <2>0, <2>4 DEF LogBin
    <3>3. out' \in Seq(Byte) /\ lost' \in Nat
      BY <2>0, <2>4, <3>1 DEF LogBin
    <3> QED
      BY <2>0, <3>1, <3>2, <3>3
  <2> QED
    BY <2>1, <2>2, <2>3, <2>4 DEF LogStep
<1> QED
  BY <1>1, <1>2, <1>5, <1>6, <1>7, <1>8 DEF TypeOK, Steps

\* So do taking the lock and waking.
LEMMA AcquireTypes ==
    ASSUME TypeOK, SleptFull, NEW t \in Thread, Acquire(t) \/ Spurious(t)
    PROVE  TypeOK' /\ SleptFull'
<1> USE DatLogAssumption
<1>0. DOMAIN pc = Thread /\ Writers \subseteq Thread
  BY DEF Thread, TypeOK
<1>1. UNCHANGED <<build, ring, size, id, readBuffer, file, records, put, out, lost, waited>>
  BY DEF Acquire, Spurious
<1>2. (Locked' <=> Locked) /\ (Posix' <=> Posix)
  BY <1>1 DEF Locked, Posix
<1>3. PICK step \in {"test", "inside", "again"} :
          pc' = [pc EXCEPT ![t] = step] /\ (step = "again" => Posix)
  <2>1. CASE Acquire(t)
    BY <2>1 DEF Acquire, Goto
  <2>2. CASE Spurious(t)
    BY <2>2 DEF Spurious, Goto, TypeOK
  <2> QED
    BY <2>1, <2>2
<1>4. /\ pc' \in [Thread -> Steps]
      /\ \A u \in Thread : (pc[u] \in {"wait", "again", "notify"} => Posix)'
                         /\ (pc[u] = "sleep" => ~Posix)'
  <2>1. step \in Steps /\ step # "sleep" /\ step # "wait" /\ step # "notify"
    BY DEF Steps
  <2> QED
    BY <1>0, <1>1, <1>3, <2>1, Places
<1>5. SleptFull'
  BY <1>0, <1>1, <1>3 DEF SleptFull
<1>6. count' \in 0..(IF Locked' THEN 1 ELSE MaxCount) /\ seen' \in [Thread -> Seq(Byte)]
  <2>1. CASE Acquire(t)
    BY <1>2, <2>1 DEF Acquire, TypeOK
  <2>2. CASE Spurious(t)
    BY <1>2, <2>2 DEF Spurious, TypeOK
  <2> QED
    BY <2>1, <2>2
<1> QED
  BY <1>1, <1>2, <1>4, <1>5, <1>6 DEF TypeOK, Steps

-----------------------------------------------------------------------------
(* The theorems.                                                            *)

\* Together.
LEMMA Invariance == Spec => [](TypeOK /\ OneLock /\ SleptFull)
<1> USE DatLogAssumption
<1>1. Init => TypeOK /\ OneLock /\ SleptFull
  <2> SUFFICES ASSUME Init PROVE TypeOK /\ OneLock /\ SleptFull
    OBVIOUS
  <2>1. <<>> \in Seq(Byte) /\ DOMAIN pc = Thread
    BY DEF Init
  <2>2. pc \in [Thread -> Steps] /\ \A t \in Thread : pc[t] \in {"idle", "acquire"}
    BY DEF Init, Steps
  <2>3. size \in [Writers -> Sizes \union {0}] /\ id \in [Writers -> 0..MaxRecords]
        /\ records \in 0..MaxRecords /\ seen \in [Thread -> Seq(Byte)]
    BY <2>1 DEF Init
  <2>4. TypeOK
    <3>1. /\ build \in {"posix", "ec100y"} /\ file = FALSE /\ waited = FALSE /\ lost = 0 /\ count = 1
          /\ ring = <<>> /\ readBuffer = <<>> /\ put = <<>> /\ out = <<>>
      BY DEF Init
    <3>2. count \in 0..(IF Locked THEN 1 ELSE MaxCount)
      BY <3>1 DEF Locked
    <3>3. \A t \in Thread : pc[t] \notin {"wait", "again", "notify", "sleep"}
      BY <2>2
    <3> QED
      BY <2>1, <2>2, <2>3, <3>1, <3>2, <3>3 DEF TypeOK, Steps
  <2>5. OneLock
    BY <2>2 DEF OneLock, Holds
  <2>6. SleptFull
    BY <2>2 DEF SleptFull, Thread
  <2> QED
    BY <2>4, <2>5, <2>6
<1>2. (TypeOK /\ OneLock /\ SleptFull) /\ [Next]_vars => (TypeOK /\ OneLock /\ SleptFull)'
  <2> SUFFICES ASSUME TypeOK, OneLock, SleptFull, [Next]_vars
               PROVE  TypeOK' /\ OneLock' /\ SleptFull'
    OBVIOUS
  <2>1. CASE UNCHANGED vars
    BY <2>1 DEF vars, TypeOK, OneLock, SleptFull, Holds, Locked, Posix
  <2>2. ASSUME NEW w \in Writers, Call(w) \/ Step(w) PROVE TypeOK' /\ OneLock' /\ SleptFull'
    BY <2>2, WriterLock, WriterTypes
  <2>3. CASE LogStep
    BY <2>3, LogLock, LogTypes
  <2>4. ASSUME NEW t \in Thread, Acquire(t) \/ Spurious(t) PROVE TypeOK' /\ OneLock' /\ SleptFull'
    BY <2>4, AcquireLock, AcquireTypes
  <2> QED
    BY <2>1, <2>2, <2>3, <2>4 DEF Next
<1> QED
  BY <1>1, <1>2, PTL DEF Spec

\* The variables have their types and the lock is given back once for each time it
\* was taken, for any number of writers, any ring and any records.
THEOREM LogTypeCorrect == Spec => []TypeOK
  BY Invariance, PTL

\* Two threads are at the ring at once only in the build for EC100Y, and only once
\* a writer has found the ring full.
THEOREM LogExclusive == Spec => []Exclusive
<1>1. OneLock => Exclusive
  BY DEF OneLock, Exclusive, Holds
<1> QED
  BY <1>1, Invariance, PTL

-----------------------------------------------------------------------------
(* What is logged.                                                          *)

\* The record of w is in what was put, in one piece.
PutWhole(w) == \E i \in 0..(Len(put) - size[w]) : SubSeq(put, i + 1, i + size[w]) = Record(w)

\* While the lock excludes: a thread inside rb_read or rb_write works on the ring as it
\* is, a writer there has room for its whole record, nothing read waits to be written
\* out when the next read begins, and nothing was written before the file was open.
\* Only with these does a step of a thread keep the order of what is logged.
Orderly ==
    Locked =>
        /\ \A t \in Thread : pc[t] = "inside" => seen[t] = ring
        /\ \A w \in Writers : pc[w] = "inside" => Len(ring) + size[w] <= Capacity
        /\ pc[Log] \notin {"notify", "log"} => readBuffer = <<>>
        /\ ~file => out = <<>>
        /\ lost \in 0..Len(put)
        /\ SubSeq(put, lost + 1, Len(put)) = out \o readBuffer \o ring
        /\ \A w \in Writers : pc[w] \in {"release", "notify", "idle"} /\ size[w] > 0 => PutWhole(w)

\* A part of a sequence.
LEMMA PartOf ==
    ASSUME NEW S, NEW p \in Seq(S), NEW i \in Nat, NEW j \in 0..Len(p)
    PROVE  /\ SubSeq(p, i + 1, j) \in Seq(S)
           /\ Len(SubSeq(p, i + 1, j)) = IF i < j THEN j - i ELSE 0
           /\ \A h \in 1..(j - i) : SubSeq(p, i + 1, j)[h] = p[i + h]
<1>1. Len(p) \in Nat /\ \A h \in 1..Len(p) : p[h] \in S
  BY LenProperties, ElementOfSeq
<1>2. \A h \in (i + 1)..j : p[h] \in S
  BY <1>1
<1>3. /\ i + 1 \in Int /\ j \in Int /\ \A h : h \in Int => (i + 1) + h - 1 = i + h
      /\ j - (i + 1) + 1 = j - i /\ (i + 1 <= j <=> i < j)
  BY <1>1
<1> QED BY <1>2, <1>3, SubSeqProperties

\* What is put comes after what is there.
LEMMA PutAfter ==
    ASSUME NEW S, NEW p \in Seq(S), NEW r \in Seq(S), NEW k \in 0..Len(p)
    PROVE  /\ SubSeq(p \o r, k + 1, Len(p \o r)) = SubSeq(p, k + 1, Len(p)) \o r
           /\ SubSeq(p \o r, Len(p) + 1, Len(p) + Len(r)) = r
           /\ \A n \in 0..(Len(p) - k) : SubSeq(p \o r, k + 1, k + n) = SubSeq(p, k + 1, k + n)
<1> DEFINE q == p \o r
<1>1. /\ q \in Seq(S) /\ Len(q) = Len(p) + Len(r) /\ Len(p) \in Nat /\ Len(r) \in Nat
      /\ \A i \in 1..(Len(p) + Len(r)) : q[i] = IF i <= Len(p) THEN p[i] ELSE r[i - Len(p)]
  BY ConcatProperties, LenProperties
<1> HIDE DEF q
<1>2. SubSeq(q, k + 1, Len(q)) = SubSeq(p, k + 1, Len(p)) \o r
  <2> DEFINE a == SubSeq(q, k + 1, Len(q))
             b == SubSeq(p, k + 1, Len(p))
             c == b \o r
  <2>1. a \in Seq(S) /\ Len(a) = Len(q) - k /\ \A h \in 1..(Len(q) - k) : a[h] = q[k + h]
    BY <1>1, PartOf
  <2>2. b \in Seq(S) /\ Len(b) = Len(p) - k /\ \A h \in 1..(Len(p) - k) : b[h] = p[k + h]
    BY <1>1, PartOf
  <2> HIDE DEF a, b
  <2>3. /\ c \in Seq(S) /\ Len(c) = Len(b) + Len(r)
        /\ \A i \in 1..(Len(b) + Len(r)) : c[i] = IF i <= Len(b) THEN b[i] ELSE r[i - Len(b)]
    BY <2>2, ConcatProperties
  <2> HIDE DEF c
  <2>4. Len(a) = Len(c)
    BY <1>1, <2>1, <2>2, <2>3
  <2>5. \A i \in 1..Len(a) : a[i] = c[i]
    <3> SUFFICES ASSUME NEW i \in 1..Len(a) PROVE a[i] = c[i]
      OBVIOUS
    <3>1. /\ i \in 1..(Len(q) - k) /\ k + i \in 1..(Len(p) + Len(r)) /\ i \in 1..(Len(b) + Len(r))
          /\ i <= Len(b) => i \in 1..(Len(p) - k) /\ k + i <= Len(p)
          /\ ~(i <= Len(b)) => ~(k + i <= Len(p)) /\ (k + i) - Len(p) = i - Len(b)
      BY <1>1, <2>1, <2>2
    <3>2. a[i] = q[k + i]
      BY <2>1, <3>1
    <3>3. CASE i <= Len(b)
      BY <1>1, <2>2, <2>3, <3>1, <3>2, <3>3
    <3>4. CASE ~(i <= Len(b))
      BY <1>1, <2>3, <3>1, <3>2, <3>4
    <3> QED BY <3>3, <3>4
  <2>6. a = c
    BY <2>1, <2>3, <2>4, <2>5, SeqEqual
  <2> QED BY <2>6 DEF a, b, c
<1>3. SubSeq(q, Len(p) + 1, Len(p) + Len(r)) = r
  <2> DEFINE a == SubSeq(q, Len(p) + 1, Len(p) + Len(r))
  <2>1. Len(p) + Len(r) \in 0..Len(q) /\ (Len(p) + Len(r)) - Len(p) = Len(r)
    BY <1>1
  <2>2. a \in Seq(S) /\ Len(a) = Len(r) /\ \A h \in 1..Len(r) : a[h] = q[Len(p) + h]
    BY <1>1, <2>1, PartOf
  <2> HIDE DEF a
  <2>3. \A i \in 1..Len(r) : a[i] = r[i]
    <3> SUFFICES ASSUME NEW i \in 1..Len(r) PROVE a[i] = r[i]
      OBVIOUS
    <3>1. Len(p) + i \in 1..(Len(p) + Len(r)) /\ ~(Len(p) + i <= Len(p)) /\ (Len(p) + i) - Len(p) = i
      BY <1>1
    <3> QED BY <1>1, <2>2, <3>1
  <2>4. a = r
    BY <2>2, <2>3, SeqEqual
  <2> QED BY <2>4 DEF a
<1>4. ASSUME NEW n \in 0..(Len(p) - k) PROVE SubSeq(q, k + 1, k + n) = SubSeq(p, k + 1, k + n)
  <2> DEFINE a == SubSeq(q, k + 1, k + n)
             b == SubSeq(p, k + 1, k + n)
  <2>1. k \in Nat /\ k + n \in 0..Len(q) /\ k + n \in 0..Len(p) /\ (k + n) - k = n
        /\ (k < k + n <=> n # 0) /\ n \in Nat
    BY <1>1
  <2>2. a \in Seq(S) /\ Len(a) = n /\ \A h \in 1..n : a[h] = q[k + h]
    BY <1>1, <2>1, PartOf
  <2>3. b \in Seq(S) /\ Len(b) = n /\ \A h \in 1..n : b[h] = p[k + h]
    BY <2>1, PartOf
  <2> HIDE DEF a, b
  <2>4. \A h \in 1..n : a[h] = b[h]
    <3> SUFFICES ASSUME NEW h \in 1..n PROVE a[h] = b[h]
      OBVIOUS
    <3>1. k + h \in 1..(Len(p) + Len(r)) /\ k + h <= Len(p)
      BY <1>1
    <3> QED BY <1>1, <2>2, <2>3, <3>1
  <2>5. a = b
    BY <2>2, <2>3, <2>4, SeqEqual
  <2> QED BY <2>5 DEF a, b
<1> QED BY <1>2, <1>3, <1>4 DEF q

\* What begins a sequence can be taken off.
LEMMA TakeOff ==
    ASSUME NEW S, NEW p \in Seq(S), NEW b \in Seq(S), NEW r \in Seq(S), NEW k \in 0..Len(p),
           SubSeq(p, k + 1, Len(p)) = b \o r
    PROVE  k + Len(b) \in 0..Len(p) /\ SubSeq(p, (k + Len(b)) + 1, Len(p)) = r
<1> DEFINE n == Len(p) - k
           t == SubSeq(p, k + 1, Len(p))
           m == k + Len(b)
           u == SubSeq(p, m + 1, Len(p))
<1>1. Len(p) \in Nat /\ Len(b) \in Nat /\ Len(r) \in Nat /\ n \in Nat /\ k \in Nat
      /\ m \in Nat
  BY LenProperties
<1>2. Len(t) = n /\ \A i \in 1..n : t[i] = p[k + i]
  BY <1>1, PartOf
<1>3. Len(t) = Len(b) + Len(r)
      /\ \A i \in 1..(Len(b) + Len(r)) : t[i] = IF i <= Len(b) THEN b[i] ELSE r[i - Len(b)]
  BY ConcatProperties
<1> HIDE DEF t
<1>4. Len(b) + Len(r) = Len(p) - k
  BY <1>2, <1>3
<1>5. m \in 0..Len(p) /\ Len(p) - m = Len(r)
  BY <1>1, <1>4
<1>6. u \in Seq(S) /\ Len(u) = Len(r) /\ \A i \in 1..Len(r) : u[i] = p[m + i]
  <2> HIDE DEF m
  <2> QED BY <1>1, <1>5, PartOf
<1> HIDE DEF u
<1>7. \A i \in 1..Len(r) : u[i] = r[i]
  <2> SUFFICES ASSUME NEW i \in 1..Len(r) PROVE u[i] = r[i]
    OBVIOUS
  <2>1. /\ Len(b) + i \in 1..n /\ Len(b) + i \in 1..(Len(b) + Len(r)) /\ ~(Len(b) + i <= Len(b))
        /\ (Len(b) + i) - Len(b) = i /\ k + (Len(b) + i) = m + i
    BY <1>1, <1>4
  <2> QED BY <1>2, <1>3, <1>6, <2>1
<1>8. u = r
  BY <1>6, <1>7, SeqEqual
<1> QED BY <1>5, <1>8 DEF u

\* The record of a writer is made of bytes, as many as its size.
LEMMA RecordBytes ==
    ASSUME TypeOK, NEW w \in Writers
    PROVE  Record(w) \in Seq(Byte) /\ Len(Record(w)) = size[w] /\ size[w] \in Nat
<1> DEFINE T == Sizes \union {0}
<1>1. size[w] \in T /\ id[w] \in 0..MaxRecords
  BY DEF TypeOK
<1>2. \A n \in T : n \in Nat
  BY DatLogAssumption
<1> HIDE DEF T
<1>3. size[w] \in Nat
  BY <1>1, <1>2
<1>4. id[w] \in Nat
  BY <1>1, DatLogAssumption
<1>5. \A k \in 1..size[w] : <<id[w], k>> \in Byte
  BY <1>3, <1>4 DEF Byte
<1> QED
  BY <1>3, <1>5 DEF Record

\* The lock is never given to two threads, so whoever is in the ring is the only one.
LEMMA AloneInside ==
    ASSUME TypeOK, OneLock, Locked, NEW t \in Thread, Holds(t), NEW u \in Thread, Holds(u)
    PROVE  u = t
BY DEF OneLock

\* Steps that put nothing, take nothing and write nothing keep the order, if whoever
\* comes to the ring has just looked at it.
LEMMA OrderlyQuiet ==
    ASSUME TypeOK, Orderly, Locked' => Locked,
           UNCHANGED <<ring, readBuffer, file, put, out, lost>>,
           Locked => \A t \in Thread : pc'[t] = "inside" => seen'[t] = ring,
           Locked => \A w \in Writers : pc'[w] = "inside" => Len(ring) + size'[w] <= Capacity,
           Locked /\ pc'[Log] \notin {"notify", "log"} => readBuffer = <<>>,
           \A w \in Writers :
               pc'[w] \in {"release", "notify", "idle"} =>
                   /\ pc[w] \in {"release", "notify", "idle"}
                   /\ size'[w] = size[w] /\ id'[w] = id[w]
    PROVE  Orderly'
<1> SUFFICES ASSUME Locked'
             PROVE  /\ (\A t \in Thread : pc[t] = "inside" => seen[t] = ring)'
                    /\ (\A w \in Writers : pc[w] = "inside" => Len(ring) + size[w] <= Capacity)'
                    /\ (pc[Log] \notin {"notify", "log"} => readBuffer = <<>>)'
                    /\ (~file => out = <<>>)'
                    /\ (lost \in 0..Len(put))'
                    /\ (SubSeq(put, lost + 1, Len(put)) = out \o readBuffer \o ring)'
                    /\ (\A w \in Writers :
                           pc[w] \in {"release", "notify", "idle"} /\ size[w] > 0 => PutWhole(w))'
  BY DEF Orderly
<1>1. Locked
  OBVIOUS
<1>2. /\ ~file => out = <<>>
      /\ lost \in 0..Len(put)
      /\ SubSeq(put, lost + 1, Len(put)) = out \o readBuffer \o ring
      /\ \A w \in Writers : pc[w] \in {"release", "notify", "idle"} /\ size[w] > 0 => PutWhole(w)
  BY <1>1 DEF Orderly
<1>3. ASSUME NEW w \in Writers, pc'[w] \in {"release", "notify", "idle"}, size'[w] > 0
      PROVE  PutWhole(w)'
  <2>1. size'[w] = size[w] /\ id'[w] = id[w] /\ put' = put /\ PutWhole(w)
    BY <1>2, <1>3
  <2>2. Record(w)' = Record(w)
    BY <2>1 DEF Record
  <2> QED
    BY <2>1, <2>2 DEF PutWhole
<1> QED
  BY <1>1, <1>2, <1>3

\* So every step of a writer but rb_write keeps the order.
LEMMA WriterOrderly ==
    ASSUME TypeOK, OneLock, Orderly, NEW w \in Writers,
           Call(w) \/ Test(w) \/ Sleep(w) \/ Unlock(w) \/ NotifyLog(w)
    PROVE  Orderly'
<1> USE DatLogAssumption
<1>0. /\ w \in Thread /\ w # Log /\ Log \in Thread /\ DOMAIN pc = Thread /\ Writers \subseteq Thread
      /\ DOMAIN size = Writers /\ DOMAIN id = Writers /\ DOMAIN seen = Thread
  BY DEF Thread, Log, TypeOK
<1>1. Locked' => Locked
  BY DEF Call, Test, Sleep, Unlock, NotifyLog, Locked, Posix
<1>2. UNCHANGED <<ring, readBuffer, file, put, out, lost>>
  BY DEF Call, Test, Sleep, Unlock, NotifyLog
<1>3. /\ \A t \in Thread \ {w} : pc'[t] \in {"inside", "notify", "log"} \/ pc[t] \in {"notify", "log"} => pc'[t] = pc[t]
      /\ \A u \in Writers \ {w} :
            pc'[u] \in {"release", "notify", "idle"} => pc'[u] = pc[u]
  BY <1>0 DEF Call, Test, Sleep, Unlock, NotifyLog, Goto, Notified
<1>4. /\ \A t \in Thread \ {w} : seen'[t] = seen[t]
      /\ \A u \in Writers \ {w} : size'[u] = size[u] /\ id'[u] = id[u]
  BY <1>0 DEF Call, Test, Sleep, Unlock, NotifyLog
<1>5. pc'[w] = "inside" => seen'[w] = ring /\ Len(ring) + size'[w] <= Capacity
  <2>1. pc'[w] = "inside" => Test(w) /\ ~(Free < size[w])
    BY <1>0 DEF Call, Test, Sleep, Unlock, NotifyLog, Goto, Notified
  <2>2. size[w] \in Nat /\ Len(ring) \in Nat
    BY RecordBytes DEF TypeOK
  <2>3. ~(Free < size[w]) => Len(ring) + size[w] <= Capacity
    BY <2>2 DEF Free
  <2>4. Test(w) /\ ~(Free < size[w]) => seen' = [seen EXCEPT ![w] = ring] /\ size' = size
    BY DEF Test
  <2> QED
    BY <1>0, <2>1, <2>3, <2>4
<1>6. pc'[w] \in {"release", "notify", "idle"} =>
          pc[w] \in {"release", "notify", "idle"} /\ size'[w] = size[w] /\ id'[w] = id[w]
  <2>1. CASE Call(w) \/ Sleep(w)
    BY <1>0, <2>1 DEF Call, Sleep, Goto
  <2>2. CASE Test(w)
    BY <1>0, <2>2 DEF Test, Goto
  <2>3. CASE Unlock(w) \/ NotifyLog(w)
    BY <1>0, <2>3 DEF Unlock, NotifyLog
  <2> QED
    BY <2>1, <2>2, <2>3
<1>7. Locked => \A t \in Thread : pc'[t] = "inside" => seen'[t] = ring
  BY <1>3, <1>4, <1>5 DEF Orderly
<1>8. Locked => \A u \in Writers : pc'[u] = "inside" => Len(ring) + size'[u] <= Capacity
  BY <1>0, <1>3, <1>4, <1>5 DEF Orderly
<1>9. Locked /\ pc'[Log] \notin {"notify", "log"} => readBuffer = <<>>
  BY <1>0, <1>3 DEF Orderly
<1>10. \A u \in Writers :
          pc'[u] \in {"release", "notify", "idle"} =>
              pc[u] \in {"release", "notify", "idle"} /\ size'[u] = size[u] /\ id'[u] = id[u]
  BY <1>3, <1>4, <1>6
<1> QED
  BY <1>1, <1>2, <1>7, <1>8, <1>9, <1>10, OrderlyQuiet

\* rb_write puts a whole record at the end of what was put and of the ring.
LEMMA WriteOrderly ==
    ASSUME TypeOK, OneLock, Orderly, NEW w \in Writers, Write(w)
    PROVE  Orderly'
<1> USE DatLogAssumption
<1>0. /\ w \in Thread /\ w # Log /\ Log \in Thread /\ DOMAIN pc = Thread /\ Writers \subseteq Thread
      /\ put \in Seq(Byte) /\ ring \in Seq(Byte) /\ out \in Seq(Byte) /\ readBuffer \in Seq(Byte)
  BY DEF Thread, Log, TypeOK
<1>1. (Locked' <=> Locked) /\ UNCHANGED <<seen, size, id, readBuffer, file, out, lost>>
  BY DEF Write, Locked, Posix
<1> SUFFICES ASSUME Locked PROVE Orderly'
  BY <1>1 DEF Orderly
<1>2. /\ \A t \in Thread : pc[t] = "inside" => seen[t] = ring
      /\ \A u \in Writers : pc[u] = "inside" => Len(ring) + size[u] <= Capacity
      /\ pc[Log] \notin {"notify", "log"} => readBuffer = <<>>
      /\ ~file => out = <<>>
      /\ lost \in 0..Len(put)
      /\ SubSeq(put, lost + 1, Len(put)) = out \o readBuffer \o ring
      /\ \A u \in Writers : pc[u] \in {"release", "notify", "idle"} /\ size[u] > 0 => PutWhole(u)
  BY DEF Orderly
<1>3. pc[w] = "inside" /\ pc' = [pc EXCEPT ![w] = "release"]
  BY DEF Write, Goto
<1>4. \A t \in Thread : pc'[t] # "inside"
  <2>1. \A t \in Thread \ {w} : pc'[t] = pc[t] /\ (pc[t] = "inside" => t = w)
    BY <1>0, <1>3, AloneInside DEF Holds
  <2> QED
    BY <1>0, <1>3, <2>1
<1>5. Record(w) \in Seq(Byte) /\ Len(Record(w)) = size[w] /\ size[w] \in Nat
  BY RecordBytes
<1>6. ring' = ring \o Record(w) /\ put' = put \o Record(w)
  <2>1. seen[w] = ring /\ Len(ring) + size[w] <= Capacity
    BY <1>0, <1>2, <1>3
  <2>2. ~(Capacity - Len(ring) < size[w])
    BY <1>0, <1>5, <2>1
  <2> QED
    BY <2>1, <2>2 DEF Write
<1> DEFINE r == Record(w)
<1>r. r \in Seq(Byte)
  BY <1>5
<1> HIDE DEF r
<1>7. SubSeq(put', lost + 1, Len(put')) = out \o readBuffer \o ring'
  <2> DEFINE before == out \o readBuffer
  <2>1. SubSeq(put \o r, lost + 1, Len(put \o r)) = SubSeq(put, lost + 1, Len(put)) \o r
    <3>1. put \in Seq(Byte) /\ lost \in 0..Len(put)
      BY <1>0, <1>2
    <3>2. \A S : \A p, q \in Seq(S) : \A k \in 0..Len(p) :
             SubSeq(p \o q, k + 1, Len(p \o q)) = SubSeq(p, k + 1, Len(p)) \o q
      BY PutAfter
    <3> QED
      BY <1>r, <3>1, <3>2, Zenon
  <2>2. before \in Seq(Byte)
    BY <1>0
  <2>3. SubSeq(put, lost + 1, Len(put)) = before \o ring
    BY <1>2
  <2> HIDE DEF before
  <2>4. (before \o ring) \o r = before \o (ring \o r)
    <3>1. ring \in Seq(Byte)
      BY <1>0
    <3>2. \A a, b, c \in Seq(Byte) : (a \o b) \o c = a \o (b \o c)
      BY ConcatAssociative
    <3> QED
      BY <1>r, <2>2, <3>1, <3>2, Zenon
  <2>5. SubSeq(put \o r, lost + 1, Len(put \o r)) = before \o (ring \o r)
    BY <2>1, <2>3, <2>4
  <2>6. put' = put \o r /\ ring' = ring \o r
    BY <1>6 DEF r
  <2> QED
    BY <2>5, <2>6 DEF before
<1>8. lost \in 0..Len(put')
  BY <1>0, <1>2, <1>5, <1>6
<1>9. ASSUME NEW u \in Writers, pc'[u] \in {"release", "notify", "idle"}, size[u] > 0
      PROVE  PutWhole(u)'
  <2>0. Record(u)' = Record(u) /\ Len(put') = Len(put) + size[w] /\ Len(put) \in Nat
    BY <1>0, <1>1, <1>5, <1>6 DEF Record
  <2>1. CASE u = w
    <3>1. SubSeq(put', Len(put) + 1, Len(put) + size[w]) = Record(w)
      <4>1. 0 \in 0..Len(put)
        BY <2>0
      <4> QED
        BY <1>0, <1>5, <1>6, <4>1, PutAfter
    <3>2. Len(put) \in 0..(Len(put') - size[w])
      BY <1>5, <2>0
    <3> QED
      BY <1>1, <2>0, <2>1, <3>1, <3>2 DEF PutWhole
  <2>2. CASE u # w
    <3>1. PutWhole(u)
      BY <1>0, <1>2, <1>3, <1>9, <2>2
    <3>2. PICK i \in 0..(Len(put) - size[u]) : SubSeq(put, i + 1, i + size[u]) = Record(u)
      BY <3>1 DEF PutWhole
    <3>3. size[u] \in Nat
      BY RecordBytes
    <3>4. i \in 0..Len(put) /\ size[u] \in 0..(Len(put) - i) /\ i \in 0..(Len(put') - size[u])
      BY <1>5, <2>0, <3>3
    <3> DEFINE n == size[u]
    <3> HIDE DEF n
    <3>5. SubSeq(put \o r, i + 1, i + n) = SubSeq(put, i + 1, i + n)
      <4>1. i \in 0..Len(put) /\ n \in 0..(Len(put) - i)
        BY <3>4 DEF n
      <4> QED
        BY <1>0, <1>r, <4>1, PutAfter
    <3>6. SubSeq(put', i + 1, i + size[u]) = SubSeq(put, i + 1, i + size[u])
      BY <1>6, <3>5 DEF n, r
    <3> QED
      BY <1>1, <2>0, <3>2, <3>4, <3>6 DEF PutWhole
  <2> QED
    BY <2>1, <2>2
<1>10. pc'[Log] = pc[Log]
  BY <1>0, <1>3
<1> QED
  BY <1>0, <1>1, <1>2, <1>4, <1>7, <1>8, <1>9, <1>10 DEF Orderly

\* So do taking the lock and waking.
LEMMA AcquireOrderly ==
    ASSUME TypeOK, Orderly, NEW t \in Thread, Acquire(t) \/ Spurious(t)
    PROVE  Orderly'
<1>0. /\ DOMAIN pc = Thread /\ DOMAIN seen = Thread /\ Writers \subseteq Thread
      /\ Log \in Thread /\ Log \notin Writers
  BY DatLogAssumption DEF Thread, TypeOK, Log
<1>1. /\ UNCHANGED <<ring, readBuffer, file, put, out, lost, size, id>> /\ (Locked' => Locked)
      /\ \A u \in Thread \ {t} : pc'[u] = pc[u] /\ seen'[u] = seen[u]
      /\ pc[t] \in {"acquire", "again", "wait"} /\ pc'[t] \in {"test", "inside", "again"}
      /\ pc'[t] = "inside" => t = Log /\ seen'[t] = ring
  <2>1. CASE Acquire(t)
    BY <1>0, <2>1 DEF Acquire, Goto, Locked, Posix
  <2>2. CASE Spurious(t)
    BY <1>0, <2>2 DEF Spurious, Goto, Locked, Posix
  <2> QED
    BY <2>1, <2>2
<1>2. Locked => \A u \in Thread : pc'[u] = "inside" => seen'[u] = ring
  BY <1>1 DEF Orderly
<1>3. Locked => \A w \in Writers : pc'[w] = "inside" => Len(ring) + size'[w] <= Capacity
  BY <1>0, <1>1 DEF Orderly
<1>4. Locked /\ pc'[Log] \notin {"notify", "log"} => readBuffer = <<>>
  BY <1>0, <1>1 DEF Orderly
<1>5. \A w \in Writers :
        pc'[w] \in {"release", "notify", "idle"} =>
            pc[w] \in {"release", "notify", "idle"} /\ size'[w] = size[w] /\ id'[w] = id[w]
  BY <1>0, <1>1
<1> QED
  BY <1>1, <1>2, <1>3, <1>4, <1>5, OrderlyQuiet

\* Looking whether there is something to read and waking the writers keep the order.
LEMMA LogQuietOrderly ==
    ASSUME TypeOK, Orderly, TestLog \/ NotifyWriters
    PROVE  Orderly'
<1>0. /\ DOMAIN pc = Thread /\ DOMAIN seen = Thread /\ Writers \subseteq Thread
      /\ Log \in Thread /\ Log \notin Writers
  BY DatLogAssumption DEF Thread, TypeOK, Log
<1>1. /\ UNCHANGED <<ring, readBuffer, file, put, out, lost, size, id>> /\ (Locked' => Locked)
      /\ \A u \in Thread \ {Log} : seen'[u] = seen[u]
      /\ \A u \in Thread \ {Log} : pc'[u] = pc[u] \/ pc'[u] = "again"
      /\ pc'[Log] = "inside" => seen'[Log] = ring
      /\ pc'[Log] \notin {"notify", "log"} => pc[Log] \notin {"notify", "log"}
  <2>1. CASE TestLog
    <3>1. CASE ring = <<>>
      BY <1>0, <2>1, <3>1 DEF TestLog, Goto, Locked, Posix
    <3>2. CASE ring # <<>>
      BY <1>0, <2>1, <3>2 DEF TestLog, Goto, Locked, Posix
    <3> QED
      BY <3>1, <3>2
  <2>2. CASE NotifyWriters
    BY <1>0, <2>2 DEF NotifyWriters, Notified, Locked, Posix
  <2> QED
    BY <2>1, <2>2
<1>2. Locked => \A u \in Thread : pc'[u] = "inside" => seen'[u] = ring
  BY <1>1 DEF Orderly
<1>3. Locked => \A w \in Writers : pc'[w] = "inside" => Len(ring) + size'[w] <= Capacity
  BY <1>0, <1>1 DEF Orderly
<1>4. Locked /\ pc'[Log] \notin {"notify", "log"} => readBuffer = <<>>
  BY <1>1 DEF Orderly
<1>5. \A w \in Writers :
        pc'[w] \in {"release", "notify", "idle"} =>
            pc[w] \in {"release", "notify", "idle"} /\ size'[w] = size[w] /\ id'[w] = id[w]
  BY <1>0, <1>1
<1> QED
  BY <1>1, <1>2, <1>3, <1>4, <1>5, OrderlyQuiet

\* What is read was at the front of the ring.
LEMMA ReadOrderly ==
    ASSUME TypeOK, OneLock, Orderly, Read
    PROVE  Orderly'
<1>0. /\ DOMAIN pc = Thread /\ Writers \subseteq Thread /\ Log \in Thread /\ Log \notin Writers
      /\ put \in Seq(Byte) /\ ring \in Seq(Byte) /\ out \in Seq(Byte) /\ readBuffer \in Seq(Byte)
  BY DatLogAssumption DEF Thread, TypeOK, Log
<1>1. (Locked' <=> Locked) /\ UNCHANGED <<seen, size, id, file, out, lost, put>>
  BY DEF Read, Locked, Posix
<1> SUFFICES ASSUME Locked PROVE Orderly'
  BY <1>1 DEF Orderly
<1>2. /\ \A t \in Thread : pc[t] = "inside" => seen[t] = ring
      /\ pc[Log] \notin {"notify", "log"} => readBuffer = <<>>
      /\ ~file => out = <<>>
      /\ lost \in 0..Len(put)
      /\ SubSeq(put, lost + 1, Len(put)) = out \o readBuffer \o ring
      /\ \A u \in Writers : pc[u] \in {"release", "notify", "idle"} /\ size[u] > 0 => PutWhole(u)
  BY DEF Orderly
<1>3. pc[Log] = "inside" /\ seen[Log] = ring /\ readBuffer = <<>>
  BY <1>0, <1>2 DEF Read
<1> DEFINE n == Min(Len(ring), ReadMax)
<1>4. n \in 0..Len(ring) /\ Len(ring) \in Nat /\ (n = 0 => Len(ring) = 0)
  BY <1>0, DatLogAssumption DEF Min
<1>5. /\ readBuffer' = SubSeq(ring, 1, n) /\ ring' = SubSeq(ring, n + 1, Len(ring))
      /\ \E step \in {"acquire", "notify", "log"} :
            pc' = [pc EXCEPT ![Log] = step] /\ (step = "acquire" => n = 0)
  <2>1. /\ readBuffer' = SubSeq(ring, 1, n) /\ ring' = SubSeq(ring, n + 1, Len(ring))
        /\ Goto(Log, CASE n = 0           -> "acquire"
                       [] n > 0 /\ Posix  -> "notify"
                       [] n > 0 /\ ~Posix -> "log")
    BY <1>3 DEF Read
  <2> HIDE DEF n
  <2>2. CASE n = 0
    BY <2>1, <2>2 DEF Goto
  <2>3. CASE n # 0 /\ Posix
    <3>1. n > 0
      BY <1>4, <2>3
    <3>2. pc' = [pc EXCEPT ![Log] = "notify"]
      BY <2>1, <2>3, <3>1, Zenon DEF Goto
    <3> QED
      BY <2>1, <3>2
  <2>4. CASE n # 0 /\ ~Posix
    <3>1. n > 0
      BY <1>4, <2>4
    <3>2. pc' = [pc EXCEPT ![Log] = "log"]
      BY <2>1, <2>4, <3>1, Zenon DEF Goto
    <3> QED
      BY <2>1, <3>2
  <2> QED
    BY <2>2, <2>3, <2>4
<1> HIDE DEF n
<1>6. \A t \in Thread : pc'[t] # "inside"
  <2>1. \A t \in Thread \ {Log} : pc'[t] = pc[t] /\ (pc[t] = "inside" => t = Log)
    BY <1>0, <1>3, <1>5, AloneInside DEF Holds
  <2> QED
    BY <1>0, <1>5, <2>1
<1>7. /\ readBuffer' \in Seq(Byte) /\ ring' \in Seq(Byte)
      /\ readBuffer' \o ring' = ring
      /\ n = 0 => readBuffer' = <<>>
  <2>1. /\ 1 \in 1..(Len(ring) + 1) /\ n \in (1 - 1)..Len(ring) /\ Len(ring) \in n..Len(ring)
    BY <1>4
  <2>2. SubSeq(ring, 1, n) \o SubSeq(ring, n + 1, Len(ring)) = SubSeq(ring, 1, Len(ring))
    BY <1>0, <2>1, ConcatAdjacentSubSeq
  <2>3. SubSeq(ring, 1, Len(ring)) = ring
    BY <1>0, SubSeqFull
  <2>4. n = 0 => SubSeq(ring, 1, n) = <<>>
    BY SubSeqEmpty
  <2>5. SubSeq(ring, 1, n) \in Seq(Byte) /\ SubSeq(ring, n + 1, Len(ring)) \in Seq(Byte)
    <3>1. 0 \in Nat /\ n \in Nat /\ Len(ring) \in 0..Len(ring) /\ n \in 0..Len(ring) /\ 0 + 1 = 1
      BY <1>4
    <3>2. SubSeq(ring, n + 1, Len(ring)) \in Seq(Byte)
      BY <1>0, <3>1, PartOf
    <3>3. SubSeq(ring, 0 + 1, n) \in Seq(Byte)
      BY <1>0, <3>1, PartOf
    <3> QED
      BY <3>1, <3>2, <3>3
  <2> QED
    BY <1>5, <2>2, <2>3, <2>4, <2>5
<1>8. SubSeq(put, lost + 1, Len(put)) = out \o readBuffer' \o ring'
  <2>1. out \o <<>> = out
    BY <1>0, ConcatEmptySeq
  <2>2. \A a, b, c \in Seq(Byte) : (a \o b) \o c = a \o (b \o c)
    BY ConcatAssociative
  <2>3. (out \o readBuffer') \o ring' = out \o ring
    BY <1>0, <1>7, <2>2, Zenon
  <2> QED
    BY <1>2, <1>3, <2>1, <2>3
<1>9. ASSUME NEW u \in Writers, pc'[u] \in {"release", "notify", "idle"}, size[u] > 0
      PROVE  PutWhole(u)'
  <2>1. pc'[u] = pc[u] /\ Record(u)' = Record(u)
    BY <1>0, <1>1, <1>5 DEF Record
  <2> QED
    BY <1>1, <1>2, <1>9, <2>1 DEF PutWhole
<1>10. pc'[Log] \notin {"notify", "log"} => readBuffer' = <<>>
  BY <1>0, <1>5, <1>7
<1> QED
  BY <1>0, <1>1, <1>2, <1>6, <1>8, <1>9, <1>10 DEF Orderly

\* What was read is written out after the rest, or is lost, and then nothing was
\* written out before.
LEMMA LogBinOrderly ==
    ASSUME TypeOK, OneLock, Orderly, LogBin
    PROVE  Orderly'
<1>0. /\ DOMAIN pc = Thread /\ Writers \subseteq Thread /\ Log \in Thread /\ Log \notin Writers
      /\ put \in Seq(Byte) /\ ring \in Seq(Byte) /\ out \in Seq(Byte) /\ readBuffer \in Seq(Byte)
      /\ file \in BOOLEAN
  BY DatLogAssumption DEF Thread, TypeOK, Log
<1>1. /\ (Locked' <=> Locked) /\ UNCHANGED <<ring, seen, size, id, put>> /\ readBuffer' = <<>>
      /\ file' \in BOOLEAN
      /\ \A t \in Thread \ {Log} : pc'[t] = pc[t]
      /\ pc'[Log] = "acquire"
  BY <1>0 DEF LogBin, Goto, Locked, Posix
<1> SUFFICES ASSUME Locked PROVE Orderly'
  BY <1>1 DEF Orderly
<1>2. /\ \A t \in Thread : pc[t] = "inside" => seen[t] = ring
      /\ \A u \in Writers : pc[u] = "inside" => Len(ring) + size[u] <= Capacity
      /\ ~file => out = <<>>
      /\ lost \in 0..Len(put)
      /\ SubSeq(put, lost + 1, Len(put)) = out \o readBuffer \o ring
      /\ \A u \in Writers : pc[u] \in {"release", "notify", "idle"} /\ size[u] > 0 => PutWhole(u)
  BY DEF Orderly
<1>3. /\ ~file' => out' = <<>>
      /\ lost' \in 0..Len(put)
      /\ SubSeq(put, lost' + 1, Len(put)) = out' \o <<>> \o ring
  <2>1. CASE file'
    <3>1. out' = out \o readBuffer /\ lost' = lost
      BY <2>1 DEF LogBin
    <3>2. out \o readBuffer \in Seq(Byte)
      BY <1>0
    <3>3. out' \in Seq(Byte)
      BY <3>1, <3>2
    <3>4. out' \o <<>> = out'
      BY <3>3, ConcatEmptySeq
    <3> QED
      BY <1>2, <2>1, <3>1, <3>4
  <2>2. CASE ~file'
    <3>1. ~file /\ out' = out /\ lost' = lost + Len(readBuffer)
      BY <1>0, <2>2 DEF LogBin
    <3>2. out = <<>> /\ SubSeq(put, lost + 1, Len(put)) = <<>> \o readBuffer \o ring
      BY <1>2, <3>1
    <3>3. <<>> \o readBuffer = readBuffer /\ <<>> \o ring = ring /\ <<>> \o <<>> = <<>>
      <4>1. <<>> \in Seq(Byte)
        OBVIOUS
      <4> QED
        BY <1>0, <4>1, ConcatEmptySeq
    <3>4. SubSeq(put, lost + 1, Len(put)) = readBuffer \o ring
      BY <3>2, <3>3
    <3>5. /\ lost + Len(readBuffer) \in 0..Len(put)
          /\ SubSeq(put, (lost + Len(readBuffer)) + 1, Len(put)) = ring
      <4>1. lost \in 0..Len(put)
        BY <1>2
      <4>2. \A p, b, r \in Seq(Byte) : \A k \in 0..Len(p) :
              SubSeq(p, k + 1, Len(p)) = b \o r =>
                  k + Len(b) \in 0..Len(p) /\ SubSeq(p, (k + Len(b)) + 1, Len(p)) = r
        BY TakeOff
      <4> QED
        BY <1>0, <3>4, <4>1, <4>2, Zenon
    <3> QED
      BY <3>1, <3>2, <3>3, <3>5
  <2> QED
    BY <2>1, <2>2
<1>4. ASSUME NEW u \in Writers, pc'[u] \in {"release", "notify", "idle"}, size[u] > 0
      PROVE  PutWhole(u)'
  <2>1. pc'[u] = pc[u] /\ Record(u)' = Record(u)
    BY <1>0, <1>1 DEF Record
  <2> QED
    BY <1>1, <1>2, <1>4, <2>1 DEF PutWhole
<1>5. \A t \in Thread : pc'[t] = "inside" => pc[t] = "inside"
  BY <1>0, <1>1
<1> QED
  BY <1>0, <1>1, <1>2, <1>3, <1>4, <1>5 DEF Orderly

\* The file holds what was put, in order, without a hole and nothing twice, but for a
\* beginning that was read before the file could be opened, and the record of every call
\* that has ended was put, whole: for any number of writers, any ring and any records,
\* in the build for EC100Y until a writer has found the ring full.
THEOREM LogInOrder == Spec => []LoggedInOrder
<1>1. Init => Orderly
  <2> SUFFICES ASSUME Init PROVE Orderly
    OBVIOUS
  <2>1. /\ ring = <<>> /\ readBuffer = <<>> /\ put = <<>> /\ out = <<>> /\ lost = 0
        /\ \A t \in Thread : pc[t] \in {"acquire", "idle"}
        /\ \A w \in Writers : size[w] = 0
    BY DEF Init
  <2>2. <<>> \in Seq(Byte) /\ Len(<<>>) = 0
    OBVIOUS
  <2>3. SubSeq(<<>>, 0 + 1, Len(<<>>)) = <<>> /\ <<>> \o <<>> = <<>>
    BY <2>2, SubSeqEmpty, ConcatEmptySeq
  <2>4. 0 \in 0..Len(<<>>)
    BY <2>2
  <2>5. \A w \in Writers : w \in Thread
    BY DEF Thread
  <2> QED
    BY <2>1, <2>3, <2>4, <2>5 DEF Orderly
<1>2. TypeOK /\ OneLock /\ SleptFull /\ Orderly /\ [Next]_vars => Orderly'
  <2> SUFFICES ASSUME TypeOK, OneLock, SleptFull, Orderly, [Next]_vars PROVE Orderly'
    OBVIOUS
  <2>1. CASE UNCHANGED vars
    BY <2>1 DEF vars, Orderly, Locked, Posix, PutWhole, Record
  <2>2. ASSUME NEW w \in Writers, Call(w) \/ Step(w) PROVE Orderly'
    BY <2>2, WriterOrderly, WriteOrderly DEF Step
  <2>3. CASE LogStep
    BY <2>3, LogQuietOrderly, ReadOrderly, LogBinOrderly DEF LogStep
  <2>4. ASSUME NEW t \in Thread, Acquire(t) \/ Spurious(t) PROVE Orderly'
    BY <2>4, AcquireOrderly
  <2> QED
    BY <2>1, <2>2, <2>3, <2>4 DEF Next
<1>3. Orderly => LoggedInOrder
  BY DEF Orderly, LoggedInOrder, PutWhole
<1> QED
  BY <1>1, <1>2, <1>3, Invariance, PTL DEF Spec
=============================================================================
