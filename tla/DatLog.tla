------------------------------- MODULE DatLog -------------------------------
(***************************************************************************)
(* The log of raw data in src/util-N/logger.cpp: write_data puts a record  *)
(* into a ring, a thread takes out what there is and writes it to a file   *)
(* or a UART.  There are two builds.  The one for POSIX has a mutex and    *)
(* two condition variables; the one for EC100Y has a semaphore and sleeps. *)
(*                                                                         *)
(* A step is what a thread does under the lock between two accesses to the *)
(* ring.  A byte is a pair of its record and its place there, the ring is  *)
(* the queue of RingBuffer.  A call of write_data for a type of data that  *)
(* is not logged does nothing, and is left out.                            *)
(***************************************************************************)
EXTENDS Integers, Sequences, FiniteSets

CONSTANTS Writers,      \* the threads that call write_data
          Capacity,     \* bytes the ring holds
          ReadMax,      \* DAT_LOG_READ_BUFFER_MAX_SIZE
          Sizes,        \* lengths of records
          MaxRecords,   \* bound on the calls of write_data
          MaxCount      \* bound on the count of the semaphore

ASSUME DatLogAssumption ==
    /\ Capacity \in Nat \ {0} /\ ReadMax \in Nat \ {0}
    /\ Sizes \subseteq Nat \ {0}
    /\ MaxRecords \in Nat /\ MaxCount \in Nat \ {0}
    /\ "log" \notin Writers

VARIABLES build,       \* the build, "posix" or "ec100y"
          pc,          \* where each thread is
          count,       \* what is left of mtx_datLog, a mutex or a semaphore
          ring,        \* datLogRingBuffer
          seen,        \* the ring as a thread inside rb_read or rb_write found it
          size, id,    \* of the record of each writer
          readBuffer,  \* what the thread has read
          file,        \* whether _datlogger is open
          records,     \* calls of write_data
          put, out,    \* all bytes that rb_write took; all that were written out
          lost,        \* bytes read while the file could not be opened
          waited       \* whether a writer has found the ring full

vars == <<build, pc, count, ring, seen, size, id, readBuffer, file, records, put, out, lost, waited>>

Log == "log"
Thread == Writers \union {Log}
Posix == build = "posix"

Min(a, b) == IF a < b THEN a ELSE b
Goto(t, step) == pc' = [pc EXCEPT ![t] = step]
Release == count' = IF Posix THEN count + 1 ELSE Min(count + 1, MaxCount)
Record(w) == [k \in 1..size[w] |-> <<id[w], k>>]
Free == Capacity - Len(ring)

-----------------------------------------------------------------------------
(* Locks.                                                                   *)

\* Mutant: a thread that was woken goes on without the lock.
AcquireOnce(t) ==
    /\ pc[t] \in {"acquire", "again"}
    /\ IF pc[t] = "again" THEN UNCHANGED count ELSE count > 0 /\ count' = count - 1
    /\ Goto(t, IF pc[t] = "again" /\ t = Log THEN "inside" ELSE "test")
    /\ seen' = [seen EXCEPT ![t] = ring]
    /\ UNCHANGED <<build, ring, size, id, readBuffer, file, records, put, out, lost, waited>>

\* The mutex or the semaphore is taken; a thread that waits for a condition has
\* it again, and goes on after the wait.
Acquire(t) ==
    /\ pc[t] \in {"acquire", "again"}
    /\ count > 0
    /\ count' = count - 1
    /\ Goto(t, IF pc[t] = "again" /\ t = Log THEN "inside" ELSE "test")
    /\ seen' = [seen EXCEPT ![t] = ring]
    /\ UNCHANGED <<build, ring, size, id, readBuffer, file, records, put, out, lost, waited>>

\* A condition variable may wake without being notified.
Spurious(t) ==
    /\ pc[t] = "wait"
    /\ Goto(t, "again")
    /\ UNCHANGED <<build, count, ring, seen, size, id, readBuffer, file, records, put, out, lost, waited>>

\* Those of threads that wait, notified.
Notified(threads) ==
    [t \in Thread |-> IF t \in threads /\ pc[t] = "wait" THEN "again" ELSE pc[t]]

-----------------------------------------------------------------------------
(* write_data.                                                              *)

Call(w) ==
    /\ pc[w] = "idle"
    /\ records < MaxRecords
    /\ records' = records + 1
    /\ id' = [id EXCEPT ![w] = records + 1]
    /\ \E n \in Sizes : size' = [size EXCEPT ![w] = n]
    /\ Goto(w, "acquire")
    /\ UNCHANGED <<build, count, ring, seen, readBuffer, file, put, out, lost, waited>>

\* Mutant: any space is enough.
TestAnySpace(w) ==
    /\ pc[w] = "test"
    /\ IF Free = 0
       THEN /\ Release /\ waited' = TRUE
            /\ Goto(w, IF Posix THEN "wait" ELSE "sleep")
            /\ UNCHANGED seen
       ELSE /\ seen' = [seen EXCEPT ![w] = ring]
            /\ Goto(w, "inside")
            /\ UNCHANGED <<count, waited>>
    /\ UNCHANGED <<build, ring, size, id, readBuffer, file, records, put, out, lost>>

\* Is there space?  If not, the mutex is given back until a notification, the
\* semaphore until the end of a sleep.
Test(w) ==
    /\ pc[w] = "test"
    /\ IF Free < size[w]
       THEN /\ Release /\ waited' = TRUE
            /\ Goto(w, IF Posix THEN "wait" ELSE "sleep")
            /\ UNCHANGED seen
       ELSE /\ seen' = [seen EXCEPT ![w] = ring]
            /\ Goto(w, "inside")
            /\ UNCHANGED <<count, waited>>
    /\ UNCHANGED <<build, ring, size, id, readBuffer, file, records, put, out, lost>>

\* The loop goes on, and has not taken the semaphore again.
Sleep(w) ==
    /\ pc[w] = "sleep"
    /\ Goto(w, "test")
    /\ UNCHANGED <<build, count, ring, seen, size, id, readBuffer, file, records, put, out, lost, waited>>

\* rb_write takes the whole record or nothing.  Where two threads are inside, one
\* may overwrite what the other has done.
Write(w) ==
    /\ pc[w] = "inside"
    /\ \E before \in {seen[w], ring} :
           IF Capacity - Len(before) < size[w]
           THEN UNCHANGED <<ring, put>>
           ELSE ring' = before \o Record(w) /\ put' = put \o Record(w)
    /\ Goto(w, "release")
    /\ UNCHANGED <<build, count, seen, size, id, readBuffer, file, records, out, lost, waited>>

Unlock(w) ==
    /\ pc[w] = "release"
    /\ Release
    /\ Goto(w, IF Posix THEN "notify" ELSE "idle")
    /\ UNCHANGED <<build, ring, seen, size, id, readBuffer, file, records, put, out, lost, waited>>

NotifyLog(w) ==
    /\ pc[w] = "notify"
    /\ pc' = [Notified({Log}) EXCEPT ![w] = "idle"]
    /\ UNCHANGED <<build, count, ring, seen, size, id, readBuffer, file, records, put, out, lost, waited>>

-----------------------------------------------------------------------------
(* DatLogThreadFunc.                                                        *)

TestLog ==
    /\ pc[Log] = "test"
    /\ IF ring = <<>>
       THEN Release /\ Goto(Log, IF Posix THEN "wait" ELSE "acquire") /\ UNCHANGED seen
       ELSE seen' = [seen EXCEPT ![Log] = ring] /\ Goto(Log, "inside") /\ UNCHANGED count
    /\ UNCHANGED <<build, ring, size, id, readBuffer, file, records, put, out, lost, waited>>

\* rb_read, and with the mutex its release; the semaphore is kept while what was
\* read is written out.
Read ==
    /\ pc[Log] = "inside"
    /\ \E before \in {seen[Log], ring} :
           LET n == Min(Len(before), ReadMax)
           IN  /\ readBuffer' = SubSeq(before, 1, n)
               /\ ring' = SubSeq(before, n + 1, Len(before))
               /\ Goto(Log, CASE n = 0           -> "acquire"
                              [] n > 0 /\ Posix  -> "notify"
                              [] n > 0 /\ ~Posix -> "log")
               /\ IF n = 0 \/ Posix THEN Release ELSE UNCHANGED count
    /\ UNCHANGED <<build, seen, size, id, file, records, put, out, lost, waited>>

\* Mutant: the thread that reads tells nobody.
NotifyNobody ==
    /\ pc[Log] = "notify"
    /\ Goto(Log, "log")
    /\ UNCHANGED <<build, count, ring, seen, size, id, readBuffer, file, records, put, out, lost, waited>>

NotifyWriters ==
    /\ pc[Log] = "notify"
    /\ pc' = [Notified(Writers) EXCEPT ![Log] = "log"]
    /\ UNCHANGED <<build, count, ring, seen, size, id, readBuffer, file, records, put, out, lost, waited>>

\* log_bin: each call tries to open the file until it is open.  A UART always is.
LogBin ==
    /\ pc[Log] = "log"
    /\ file' \in {TRUE, file \/ ~Posix}
    /\ out' = IF file' THEN out \o readBuffer ELSE out
    /\ lost' = IF file' THEN lost ELSE lost + Len(readBuffer)
    /\ readBuffer' = <<>>
    /\ IF Posix THEN UNCHANGED count ELSE Release
    /\ Goto(Log, "acquire")
    /\ UNCHANGED <<build, ring, seen, size, id, records, put, waited>>

-----------------------------------------------------------------------------
Init ==
    /\ build \in {"posix", "ec100y"}
    /\ pc = [t \in Thread |-> IF t = Log THEN "acquire" ELSE "idle"]
    /\ count = 1
    /\ ring = <<>> /\ seen = [t \in Thread |-> <<>>]
    /\ size = [w \in Writers |-> 0] /\ id = [w \in Writers |-> 0]
    /\ readBuffer = <<>> /\ file = FALSE
    /\ records = 0 /\ put = <<>> /\ out = <<>> /\ lost = 0
    /\ waited = FALSE

Step(w) == Test(w) \/ Sleep(w) \/ Write(w) \/ Unlock(w) \/ NotifyLog(w)

LogStep == TestLog \/ Read \/ NotifyWriters \/ LogBin

Next ==
    \/ \E w \in Writers : Call(w) \/ Step(w)
    \/ LogStep
    \/ \E t \in Thread : Acquire(t) \/ Spurious(t)

\* Every thread runs on, and gets the lock if it is free again and again.
Spec ==
    /\ Init /\ [][Next]_vars
    /\ WF_vars(LogStep)
    /\ \A w \in Writers : WF_vars(Step(w))
    /\ \A t \in Thread : SF_vars(Acquire(t))

-----------------------------------------------------------------------------
(* Properties.                                                              *)

Byte == Nat \X Nat

\* With the semaphore a writer that waits gives it back and goes on without it.
Locked == Posix \/ ~waited

\* The variables have their types, and the lock is given back once for each time it
\* was taken.
TypeOK ==
    /\ build \in {"posix", "ec100y"}
    /\ pc \in [Thread -> {"idle", "acquire", "again", "test", "wait", "sleep", "inside",
                          "release", "notify", "log"}]
    /\ \A t \in Thread : (pc[t] \in {"wait", "again", "notify"} => Posix)
                        /\ (pc[t] = "sleep" => ~Posix)
    /\ count \in 0..(IF Locked THEN 1 ELSE MaxCount)
    /\ seen \in [Thread -> Seq(Byte)] /\ ring \in Seq(Byte) /\ readBuffer \in Seq(Byte)
    /\ put \in Seq(Byte) /\ out \in Seq(Byte)
    /\ size \in [Writers -> Sizes \union {0}] /\ id \in [Writers -> 0..MaxRecords]
    /\ file \in BOOLEAN /\ waited \in BOOLEAN
    /\ records \in 0..MaxRecords /\ lost \in Nat

\* Two threads are at the ring at once only in the build for EC100Y, and only once
\* a writer has found the ring full.
Exclusive ==
    Locked => \A t, u \in Thread : {pc[t], pc[u]} \subseteq {"test", "inside", "release"} => t = u

\* The file holds what was put into the ring, in order, without a hole and
\* nothing twice, but for a beginning that was read before the file could be
\* opened; and the record of every call that has ended was put, whole.
LoggedInOrder ==
    Locked =>
        /\ SubSeq(put, lost + 1, Len(put)) = out \o readBuffer \o ring
        /\ \A w \in Writers : pc[w] \in {"release", "notify", "idle"} /\ size[w] > 0 =>
               \E i \in 0..(Len(put) - size[w]) : SubSeq(put, i + 1, i + size[w]) = Record(w)

\* With the mutex every call of write_data with a record that fits the ring
\* returns, however long others wait, and the thread writes out all there is.
LogProgress ==
    Posix => /\ \A w \in Writers : (pc[w] = "acquire" /\ size[w] <= Capacity) ~> pc[w] = "idle"
             /\ (ring # <<>> \/ readBuffer # <<>>) ~> (ring = <<>> /\ readBuffer = <<>>)
=============================================================================
