------------------------------- MODULE ByteFifo -------------------------------
(***************************************************************************)
(* What src/util-N/RingBuffer.c promises its callers, without saying how:  *)
(* a bounded queue of bytes.  A write is all or nothing, a read takes the  *)
(* oldest bytes and never more than are there, a dump looks without        *)
(* taking, a cleanup forgets everything, and every call on a NULL handle   *)
(* fails.  RingBuffer.tla implements this module.                          *)
(***************************************************************************)
EXTENDS Integers, Sequences

CONSTANTS Byte,      \* the values a byte of the buffer can have
          Capacity,  \* the len given to rb_create
          MaxRequest \* bound on the len a caller passes

VARIABLES live,      \* the caller's handle is not NULL
          content,   \* the bytes written and not yet read, oldest first
          ret        \* the last call, what it returned and the bytes it handed out

vars == <<live, content, ret>>

Reply(op, val, data) == [op |-> op, val |-> val, data |-> data]

Request == UNION {[1..n -> Byte] : n \in 0..MaxRequest}

MinOf(a, b) == IF a <= b THEN a ELSE b

Init ==
    /\ live = FALSE
    /\ content = <<>>
    /\ ret = Reply("none", 0, <<>>)

Create(ok) ==
    /\ ~live
    /\ live' = ok
    /\ content' = <<>>
    /\ ret' = Reply("create", IF ok THEN 1 ELSE 0, <<>>)

Destroy ==
    /\ live' = FALSE
    /\ content' = <<>>
    /\ ret' = Reply("destroy", 0, <<>>)

Write(data) ==
    /\ UNCHANGED live
    /\ IF live /\ Len(content) + Len(data) <= Capacity
       THEN /\ content' = content \o data
            /\ ret' = Reply("write", Len(data), <<>>)
       ELSE /\ UNCHANGED content
            /\ ret' = Reply("write", -1, <<>>)

Read(n) ==
    LET taken == MinOf(n, Len(content)) IN
    /\ UNCHANGED live
    /\ IF live
       THEN /\ content' = SubSeq(content, taken + 1, Len(content))
            /\ ret' = Reply("read", taken, SubSeq(content, 1, taken))
       ELSE /\ UNCHANGED content
            /\ ret' = Reply("read", -1, <<>>)

\* The copy a dump returns has to be allocated, so a dump may also give nothing.
Dump(ok) ==
    /\ UNCHANGED <<live, content>>
    /\ ret' = IF ok THEN Reply("dump", Len(content), content)
                    ELSE Reply("dump", 0, <<>>)

Cleanup ==
    /\ content' = <<>>
    /\ UNCHANGED live
    /\ ret' = Reply("cleanup", 0, <<>>)

Space ==
    /\ UNCHANGED <<live, content>>
    /\ \/ ret' = Reply("free", IF live THEN Capacity - Len(content) ELSE -1, <<>>)
       \/ ret' = Reply("used", IF live THEN Len(content) ELSE -1, <<>>)

Next ==
    \/ \E ok \in BOOLEAN : Create(ok) \/ Dump(ok)
    \/ \E data \in Request : Write(data)
    \/ \E n \in 0..MaxRequest : Read(n)
    \/ Destroy \/ Cleanup \/ Space

Spec == Init /\ [][Next]_vars
===============================================================================
