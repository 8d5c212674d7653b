------------------------------ MODULE RingBuffer ------------------------------
(***************************************************************************)
(* src/util-N/RingBuffer.c: a circular byte buffer with one slot kept      *)
(* empty.  One action per exported function; the callers serialise their   *)
(* calls with a mutex of their own, so an action is a whole call.  A call  *)
(* on a handle that rb_create failed to make gets NULL.                    *)
(***************************************************************************)
EXTENDS Integers, Sequences

CONSTANTS Byte,      \* the values of a byte
          Capacity,  \* the len given to rb_create
          MaxRequest, \* bound on the len passed to rb_write and rb_read
          Zero       \* the byte calloc fills with

ASSUME RingAssumption ==
    /\ Capacity \in Nat
    /\ MaxRequest \in Nat
    /\ Zero \in Byte

VARIABLES live,    \* rb # NULL
          buffer,  \* rb->buffer
          start,   \* rb->start, the index of the oldest byte
          end,     \* rb->end, the index of the first free slot
          ret      \* the last call, its return value and the bytes it handed out

vars == <<live, buffer, start, end, ret>>

length == Capacity + 1
Slot == 0..(length - 1)

Reply(op, val, data) == [op |-> op, val |-> val, data |-> data]

Request == UNION {[1..n -> Byte] : n \in 0..MaxRequest}

MinOf(a, b) == IF a <= b THEN a ELSE b

\* A mutant of SpaceFree: the slot that tells full from empty is given away.
SpaceFreeAll == IF end >= start THEN length - (end - start)
                                ELSE start - end

SpaceFree == IF end >= start THEN length - (end - start) - 1
                             ELSE start - end - 1

SpaceUsed == IF end >= start THEN end - start
                             ELSE length - (start - end)

\* memcpy of data into b from slot at on, and of n bytes of b from slot at on
CopyIn(b, at, data) ==
    [i \in Slot |-> IF at <= i /\ i < at + Len(data) THEN data[i - at + 1] ELSE b[i]]

CopyOut(b, at, n) == [k \in 1..n |-> b[at + k - 1]]

Init ==
    /\ live = FALSE
    /\ buffer = [i \in Slot |-> Zero]
    /\ start = 0
    /\ end = 0
    /\ ret = Reply("none", 0, <<>>)

\* rb_create: either calloc may fail, and then the caller has a NULL handle.
rb_create(ok) ==
    /\ ~live
    /\ live' = ok
    /\ buffer' = [i \in Slot |-> Zero]
    /\ start' = 0
    /\ end' = 0
    /\ ret' = Reply("create", IF ok THEN 1 ELSE 0, <<>>)

\* rb_destroy; a caller that uses the freed handle afterwards is outside the model.
rb_destroy ==
    /\ live' = FALSE
    /\ buffer' = [i \in Slot |-> Zero]
    /\ start' = 0
    /\ end' = 0
    /\ ret' = Reply("destroy", 0, <<>>)

\* A mutant of WrapIn: end is not brought back to the first slots.
WrapInUnreduced(data) ==
    /\ buffer' = CopyIn(buffer, end, data)
    /\ end' = end + Len(data)

\* The two memcpys of a write that reaches past the last slot, or the one of a
\* write that does not.
WrapIn(data) ==
    LET half_tail == length - end
        n == Len(data)
    IN  IF half_tail < n
        THEN /\ buffer' = CopyIn(CopyIn(buffer, end, SubSeq(data, 1, half_tail)),
                                 (end + half_tail) % length,
                                 SubSeq(data, half_tail + 1, n))
             /\ end' = (((end + half_tail) % length) + (n - half_tail)) % length
        ELSE /\ buffer' = CopyIn(buffer, end, data)
             /\ end' = (end + n) % length

rb_write(data) ==
    /\ UNCHANGED <<live, start>>
    /\ IF live /\ Len(data) <= SpaceFree
       THEN /\ WrapIn(data)
            /\ ret' = Reply("write", Len(data), <<>>)
       ELSE /\ UNCHANGED <<buffer, end>>
            /\ ret' = Reply("write", -1, <<>>)

\* The n oldest bytes, gathered by one memcpy or two.
WrapOut(n) ==
    LET half_tail == length - start
    IN  IF half_tail < n
        THEN CopyOut(buffer, start, half_tail)
               \o CopyOut(buffer, (start + half_tail) % length, n - half_tail)
        ELSE CopyOut(buffer, start, n)

\* Where rb_read leaves start before it looks whether the buffer is empty.
Advanced(n) ==
    LET half_tail == length - start
    IN  IF half_tail < n
        THEN (((start + half_tail) % length) + (n - half_tail)) % length
        ELSE (start + n) % length

rb_read(n) ==
    LET rlen == MinOf(n, SpaceUsed)
        rewind == Advanced(rlen) = end
    IN  /\ UNCHANGED <<live, buffer>>
        /\ IF live
           THEN /\ start' = IF rewind THEN 0 ELSE Advanced(rlen)
                /\ end' = IF rewind THEN 0 ELSE end
                /\ ret' = Reply("read", rlen, WrapOut(rlen))
           ELSE /\ UNCHANGED <<start, end>>
                /\ ret' = Reply("read", -1, <<>>)

\* rb_dump copies without taking; NULL when empty or when calloc fails.
rb_dump(ok) ==
    /\ UNCHANGED <<live, buffer, start, end>>
    /\ ret' = IF live /\ SpaceUsed > 0 /\ ok
              THEN Reply("dump", SpaceUsed, WrapOut(SpaceUsed))
              ELSE Reply("dump", 0, <<>>)

rb_cleanup ==
    /\ start' = 0
    /\ end' = 0
    /\ UNCHANGED <<live, buffer>>
    /\ ret' = Reply("cleanup", 0, <<>>)

rb_get_space_free ==
    /\ UNCHANGED <<live, buffer, start, end>>
    /\ ret' = Reply("free", IF live THEN SpaceFree ELSE -1, <<>>)

rb_get_space_used ==
    /\ UNCHANGED <<live, buffer, start, end>>
    /\ ret' = Reply("used", IF live THEN SpaceUsed ELSE -1, <<>>)

Next ==
    \/ \E ok \in BOOLEAN : rb_create(ok) \/ rb_dump(ok)
    \/ \E data \in Request : rb_write(data)
    \/ \E n \in 0..MaxRequest : rb_read(n)
    \/ rb_destroy
    \/ rb_cleanup
    \/ rb_get_space_free
    \/ rb_get_space_used

Spec == Init /\ [][Next]_vars

-------------------------------------------------------------------------------
IsReply(r) ==
    /\ r \in [op : {"none", "create", "destroy", "write", "read", "dump",
                    "cleanup", "free", "used"},
              val : Int, data : Seq(Byte)]
    /\ Len(r.data) <= Capacity

\* Type invariant: both indices name a slot of rb->buffer, so no memcpy of
\* rb_write, rb_read or rb_dump starts outside the allocation, and what a call
\* hands out is no longer than the capacity.
TypeOK ==
    /\ live \in BOOLEAN
    /\ buffer \in [Slot -> Byte]
    /\ start \in Slot
    /\ end \in Slot
    /\ IsReply(ret)

\* The bytes between the indices, oldest first.
content == [i \in 1..SpaceUsed |-> buffer[(start + i - 1) % length]]

\* The refinement mapping: content is computed from the indices, the rest is kept.
Fifo == INSTANCE ByteFifo WITH
            Byte <- Byte, Capacity <- Capacity, MaxRequest <- MaxRequest,
            live <- live, content <- content, ret <- ret

\* The circular buffer behaves as the bounded byte queue ByteFifo: whatever the
\* position of the indices, a write appends exactly its bytes or fails whole,
\* a read returns the oldest bytes in order, and the space functions count them.
ImplementsFifo == Fifo!Spec
===============================================================================
