----------------------------- MODULE RingBufferMC -----------------------------
(* A ring of three bytes: every start and end, full, empty and wrapped.        *)
EXTENDS RingBuffer

MCByte == {0, 1}
===============================================================================
