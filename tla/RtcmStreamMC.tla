---------------------------- MODULE RtcmStreamMC ----------------------------
(***************************************************************************)
(* Small instances of RtcmStream for TLC: short frames, frames that are    *)
(* cut or damaged, and noise that looks like the start of a frame.         *)
(***************************************************************************)
EXTENDS RtcmStream

\* Stands for crc24q: any function of the bytes does, as long as damage changes it.
MCCrc(bytes) ==
    LET sum[i \in 0..Len(bytes)] == IF i = 0 THEN 0 ELSE (sum[i - 1] * 3 + bytes[i]) % 65521
    IN sum[Len(bytes)]

Sealed(bytes) == bytes \o <<MCCrc(bytes) \div 65536, (MCCrc(bytes) \div 256) % 256,
                            MCCrc(bytes) % 256>>

Frame1005 == Sealed(<<211, 0, 5, 62, 208, 1, 2, 3>>)
Frame1074 == Sealed(<<211, 0, 6, 67, 32, 211, 0, 5, 9>>)    \* holds what looks like a frame head
FrameType0 == Sealed(<<211, 0, 5, 0, 0, 1, 2, 3>>)
Damaged == [Frame1005 EXCEPT ![7] = 8]
Cut == SubSeq(Frame1074, 1, 6)
TooShort == <<211, 0, 4>>
BadReserved == <<211, 4, 9>>
Noise == <<1, 2>>

MCPieces == {Frame1005, Frame1074, FrameType0, Damaged, Cut, TooShort, BadReserved, Noise}
MCChunks == {1, 2, 3, 5, 8, 13, 30}
=============================================================================
