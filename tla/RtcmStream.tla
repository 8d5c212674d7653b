------------------------------ MODULE RtcmStream ------------------------------
(***************************************************************************)
(* How src/OEMRtk-N turns chunks of bytes into RTCM 3 messages: the byte   *)
(* machine CXRawFormat::wGetOneCharOfRTCM32 and the loop of                *)
(* CQRtkImpl::ParseRtcm, which keeps the bytes it could not use and parses *)
(* them again in front of the next chunk.  What a message does once it is  *)
(* found is the subject of RtkEpochs.tla.                                  *)
(*                                                                         *)
(* The source sends a sequence of pieces, each a frame or noise, and cuts  *)
(* the bytes into chunks wherever it likes.                                *)
(***************************************************************************)
EXTENDS Integers, Sequences, SequencesExt

CONSTANTS Pieces,      \* the byte sequences a source sends
          MaxPieces,   \* bound on their number
          ChunkSizes,  \* lengths of the chunks ParseRtcm is called with
          Crc24q(_)    \* crc24q of a byte sequence

VARIABLES stream,      \* what the source sends, as a sequence of pieces
          sent,        \* how many bytes of it have been passed to ParseRtcm
          remainder,   \* the first *pRemainSize bytes of pRtcmBuffer
          dispatched   \* the messages that reached the switch in ParseRtcm

vars == <<stream, sent, remainder, dispatched>>

Byte == 0..255
Preamble == 211        \* 0xD3

ASSUME StreamAssumption ==
    /\ Pieces \subseteq Seq(Byte)
    /\ MaxPieces \in Nat
    /\ ChunkSizes \subseteq Nat \ {0}

-----------------------------------------------------------------------------
(* The byte machine.  buffer holds m_buffer up to m_iPosition; type is what *)
(* the last call returned, 0 for no message.                               *)

Fresh == [state |-> 0, buffer |-> <<>>, type |-> 0]

\* getbitu(m_buffer, 14, 10), getbitu(m_buffer, 8, 6), getbitu(m_buffer, 24, 12)
Length(buffer) == (buffer[2] % 4) * 256 + buffer[3]
Reserved(buffer) == buffer[2] \div 4
Type(buffer) == buffer[4] * 16 + buffer[5] \div 16

BadHead(buffer) == Length(buffer) <= 4 \/ Reserved(buffer) # 0

CrcHolds(buffer) ==
    LET n == 3 + Length(buffer)
    IN Crc24q(SubSeq(buffer, 1, n))
         = buffer[n + 1] * 65536 + buffer[n + 2] * 256 + buffer[n + 3]

Accepted(buffer) == IF CrcHolds(buffer) THEN Type(buffer) ELSE 0

Feed(framer, ch) ==
    LET buffer == Append(framer.buffer, ch)
        To(state) == [state |-> state, buffer |-> buffer, type |-> 0]
    IN CASE framer.state = 0 ->
              IF ch = Preamble THEN [state |-> 1, buffer |-> <<ch>>, type |-> 0]
              ELSE [framer EXCEPT !.type = 0]
         [] framer.state = 1 -> To(2)
         [] framer.state = 2 -> To(IF BadHead(buffer) THEN 0 ELSE 3)
         [] framer.state = 3 ->
              IF Len(buffer) < Length(buffer) + 6 THEN To(3)
              ELSE [To(0) EXCEPT !.type = Accepted(buffer)]

-----------------------------------------------------------------------------
(* One call of ParseRtcm *)

\* Mutant: the byte that completes a message is parsed again.
PosAtLastByte(framer, i) == i - 1

\* pos = i+1, with the indices of C
PosAfter(framer, i) == i

\* The framer, the messages found and pos after the first i bytes of data.
Scan(data) ==
    LET after[i \in 0..Len(data)] ==
          IF i = 0 THEN [framer |-> Fresh, pos |-> 0, messages |-> <<>>]
          ELSE LET before == after[i - 1]
                   framer == Feed(before.framer, data[i])
               IN IF framer.type = 0 THEN [before EXCEPT !.framer = framer]
                  ELSE [framer |-> framer, pos |-> PosAfter(framer, i),
                        messages |-> Append(before.messages, framer.buffer)]
    IN after[Len(data)]

\* Mutant: what does not end with a message is dropped.
Forgotten(data, scan) == <<>>

\* Mutant: a frame that is open is kept without its first byte.
OpenFrameOnly(data, scan) ==
    IF scan.framer.state = 0 THEN <<>>
    ELSE SubSeq(data, Len(data) - Len(scan.framer.buffer) + 2, Len(data))

\* With no frame open the whole buffer is used up, else it is kept from the end of the last
\* message on, noise included.
Unused(data, scan) ==
    IF scan.framer.state = 0 THEN <<>> ELSE SubSeq(data, scan.pos + 1, Len(data))

Bytes == FlattenSeq(stream)

ParseRtcm(n) ==
    /\ sent + n <= Len(Bytes)
    /\ LET data == remainder \o SubSeq(Bytes, sent + 1, sent + n)
           scan == Scan(data)
       IN /\ dispatched' = dispatched \o scan.messages
          /\ remainder' = Unused(data, scan)
    /\ sent' = sent + n
    /\ UNCHANGED stream

Init ==
    /\ \E n \in 1..MaxPieces : stream \in [1..n -> Pieces]
    /\ sent = 0
    /\ remainder = <<>>
    /\ dispatched = <<>>

Next == \E n \in ChunkSizes : ParseRtcm(n)

Spec == Init /\ [][Next]_vars

-----------------------------------------------------------------------------
(* Properties *)

IsFrame(piece) ==
    /\ Len(piece) > 6
    /\ piece[1] = Preamble
    /\ ~BadHead(piece)
    /\ Len(piece) = Length(piece) + 6
    /\ CrcHolds(piece)
    /\ Type(piece) # 0

Harmless(piece) == \A i \in DOMAIN piece : piece[i] # Preamble

\* A source that sends nothing but frames and noise without a preamble.
Clean == \A k \in DOMAIN stream : IsFrame(stream[k]) \/ Harmless(stream[k])

EndOf(k) == Len(FlattenSeq(SubSeq(stream, 1, k)))

\* What a frame is worth once its last byte was passed to ParseRtcm: a message.
Found(k) == IF IsFrame(stream[k]) /\ EndOf(k) <= sent THEN <<stream[k]>> ELSE <<>>

\* Where ParseRtcm is called with what it is given, in how many chunks and cut where, has no
\* influence on the messages it dispatches: they are those of one call with all the bytes.
ChunksDoNotMatter == dispatched = Scan(SubSeq(Bytes, 1, sent)).messages

\* From a clean source every frame is dispatched, once, in order, and not later than in the call
\* that brings its last byte.
FramesDispatched ==
    Clean => dispatched = FlattenSeq([k \in DOMAIN stream |-> Found(k)])

\* What is kept for the next call ends the bytes passed so far and starts after the last message
\* dispatched; while a source sends only frames it is the start of the frame that is open, so that
\* pRtcmBuffer never holds more than one frame and one chunk.
RemainderIsOpenFrame ==
    /\ remainder = SubSeq(Bytes, sent - Len(remainder) + 1, sent)
    /\ (\A k \in DOMAIN stream : IsFrame(stream[k])) =>
           \E k \in 0..Len(stream) : EndOf(k) = sent - Len(remainder)
                                     /\ (k < Len(stream) => sent < EndOf(k + 1))
=============================================================================
