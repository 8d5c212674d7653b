--------------------------- MODULE RingBufferProofs ---------------------------
(***************************************************************************)
(* For every capacity and every set of bytes: the indices of the ring stay *)
(* in the allocation, and the ring implements ByteFifo.                    *)
(***************************************************************************)
EXTENDS RingBuffer, SequenceTheorems, TLAPS

\* What % gives for the sums of an index and a count that occur in the code.
LEMMA ModOnce ==
  ASSUME NEW a \in Nat
  PROVE  /\ a < length => a % length = a
         /\ length <= a /\ a < length + length => a % length = a - length
         /\ a % length \in Slot
<1>1. length \in Nat \ {0}
  BY RingAssumption DEF length
<1>2. a < length => a % length = a
  BY <1>1
<1>3. length <= a /\ a < length + length => a % length = a - length
  BY <1>1
<1>4. a % length \in Slot
  BY <1>1 DEF Slot
<1>5. QED BY <1>2, <1>3, <1>4

\* Lines 10-34: used and free add up to the capacity.
LEMMA SpaceSplits ==
  ASSUME start \in Slot, end \in Slot
  PROVE  /\ SpaceUsed \in 0..Capacity
         /\ SpaceFree = Capacity - SpaceUsed
         /\ SpaceUsed = (IF end >= start THEN end - start ELSE length - (start - end))
BY RingAssumption DEF SpaceUsed, SpaceFree, Slot, length

\* The slot of the i-th byte, without the modulus.
LEMMA SlotOf ==
  ASSUME start \in Slot, NEW i \in 1..length
  PROVE  /\ start + i - 1 < length => (start + i - 1) % length = start + i - 1
         /\ start + i - 1 >= length => (start + i - 1) % length = start + i - 1 - length
         /\ (start + i - 1) % length \in Slot
<1>1. /\ start + i - 1 \in Nat
      /\ start + i - 1 < length + length
      /\ length \in Nat
  BY RingAssumption DEF Slot, length
<1>2. start + i - 1 < length => (start + i - 1) % length = start + i - 1
  BY <1>1, ModOnce
<1>3. start + i - 1 >= length => (start + i - 1) % length = start + i - 1 - length
  <2> SUFFICES ASSUME start + i - 1 >= length
               PROVE  (start + i - 1) % length = start + i - 1 - length
    OBVIOUS
  <2>1. length <= start + i - 1
    BY <1>1
  <2>2. start \in Nat
    BY RingAssumption DEF Slot, length
  <2>3. QED BY <1>1, <2>1, <2>2, ModOnce
<1>4. (start + i - 1) % length \in Slot
  BY <1>1, ModOnce
<1>5. QED BY <1>2, <1>3, <1>4

\* The content of a ring is as long as SpaceUsed says, and made of bytes.
LEMMA ContentType ==
  ASSUME TypeOK
  PROVE  /\ content \in [1..SpaceUsed -> Byte]
         /\ content \in Seq(Byte)
         /\ Len(content) = SpaceUsed
         /\ SpaceUsed \in 0..Capacity
         /\ DOMAIN content = 1..SpaceUsed
<1>1. SpaceUsed \in 0..Capacity
  BY SpaceSplits DEF TypeOK
<1>2. ASSUME NEW i \in 1..SpaceUsed
      PROVE  buffer[(start + i - 1) % length] \in Byte
  <2>1. i \in 1..length
    BY <1>1, RingAssumption DEF length
  <2>2. QED BY <2>1, SlotOf DEF TypeOK
<1>3. content \in [1..SpaceUsed -> Byte]
  BY <1>2 DEF content
<1>4. QED BY <1>1, <1>3, RingAssumption

-------------------------------------------------------------------------------
\* Lines 121-134, 159-167: one memcpy or two hand out the n oldest bytes.
LEMMA WrapOutIsPrefix ==
  ASSUME TypeOK, NEW n \in 0..SpaceUsed
  PROVE  /\ WrapOut(n) = [i \in 1..n |-> content[i]]
         /\ WrapOut(n) = SubSeq(content, 1, n)
         /\ WrapOut(n) \in Seq(Byte)
         /\ Len(WrapOut(n)) = n
<1> DEFINE half == length - start
<1>1. /\ SpaceUsed \in 0..Capacity
      /\ start \in Slot /\ end \in Slot
      /\ half \in 1..length /\ length \in Nat
      /\ n \in Nat
      /\ content \in Seq(Byte) /\ Len(content) = SpaceUsed
  BY ContentType, RingAssumption DEF TypeOK, Slot, length
<1>2. ASSUME NEW i \in 1..n
      PROVE  content[i] = IF i <= half THEN buffer[start + i - 1]
                                       ELSE buffer[start + i - 1 - length]
  <2>1. i \in 1..length /\ i \in 1..SpaceUsed
    BY <1>1, RingAssumption DEF length
  <2>2. content[i] = buffer[(start + i - 1) % length]
    BY <2>1 DEF content
  <2>3. QED BY <2>1, <2>2, <1>1, SlotOf, RingAssumption DEF Slot, length
<1>3. WrapOut(n) = [i \in 1..n |-> content[i]]
  <2>1. CASE half < n
    <3>1. (start + half) % length = 0
      <4>1. length \in Nat /\ length <= length /\ length < length + length
        BY RingAssumption DEF length
      <4>2. length % length = length - length
        BY <4>1, ModOnce
      <4>3. start + half = length
        BY <1>1, <4>1 DEF Slot
      <4>4. QED BY <4>1, <4>2, <4>3
    <3> DEFINE a == CopyOut(buffer, start, half)
               b == CopyOut(buffer, 0, n - half)
    <3>2. WrapOut(n) = a \o b
      BY <2>1, <3>1 DEF WrapOut
    <3>3. /\ a = [k \in 1..half |-> buffer[start + k - 1]]
          /\ b = [k \in 1..(n - half) |-> buffer[0 + k - 1]]
      BY DEF CopyOut
    <3> HIDE DEF a, b
    <3>4. a \in Seq(Byte) /\ b \in Seq(Byte) /\ Len(a) = half /\ Len(b) = n - half
      <4>1. \A k \in 1..half : start + k - 1 \in Slot
        BY <1>1, RingAssumption DEF Slot, length
      <4>2. \A k \in 1..(n - half) : 0 + k - 1 \in Slot
        BY <1>1, <2>1, RingAssumption DEF Slot, length
      <4>3. a \in [1..half -> Byte] /\ b \in [1..(n - half) -> Byte]
        BY <3>3, <4>1, <4>2 DEF TypeOK
      <4>4. half \in Nat /\ n - half \in Nat
        BY <1>1, <2>1
      <4>5. QED BY <4>3, <4>4
    <3>5. Len(a \o b) = n /\ DOMAIN (a \o b) = 1..n /\ a \o b \in Seq(Byte)
      BY <3>4, <1>1
    <3>6. ASSUME NEW i \in 1..n
          PROVE  (a \o b)[i] = content[i]
      <4>1. CASE i <= half
        <5>1. i \in 1..half /\ (a \o b)[i] = a[i]
          BY <4>1, <3>4, <1>1
        <5>2. QED BY <5>1, <3>3, <1>2, <4>1
      <4>2. CASE i > half
        <5>1. i - half \in 1..(n - half) /\ (a \o b)[i] = b[i - half]
          BY <4>2, <3>4, <1>1
        <5>2. b[i - half] = buffer[0 + (i - half) - 1]
          BY <5>1, <3>3
        <5>3. 0 + (i - half) - 1 = start + i - 1 - length
          BY <1>1, RingAssumption DEF length, Slot
        <5>4. ~(i <= half)
          BY <4>2, <1>1
        <5>5. QED BY <5>1, <5>2, <5>3, <5>4, <1>2
      <4>3. i <= half \/ i > half
        BY <1>1, RingAssumption DEF Slot, length
      <4>4. QED BY <4>1, <4>2, <4>3
    <3>7. a \o b \in [1..n -> Byte]
      BY <3>5, LenProperties
    <3>8. a \o b = [i \in 1..n |-> (a \o b)[i]]
      BY <3>7
    <3>9. QED BY <3>2, <3>6, <3>8
  <2>2. CASE ~(half < n)
    <3>1. WrapOut(n) = [k \in 1..n |-> buffer[start + k - 1]]
      BY <2>2 DEF WrapOut, CopyOut
    <3>2. \A i \in 1..n : i <= half
      BY <2>2, <1>1
    <3>3. QED BY <3>1, <3>2, <1>2
  <2>3. QED BY <2>1, <2>2
<1>4. [i \in 1..n |-> content[i]] = SubSeq(content, 1, n)
  BY <1>1
<1>5. SubSeq(content, 1, n) \in Seq(Byte) /\ Len(SubSeq(content, 1, n)) = n
  BY <1>1
<1>6. QED BY <1>3, <1>4, <1>5

-------------------------------------------------------------------------------
\* Lines 123-134: start moves n slots on, around the end of the buffer.
LEMMA AdvancedIs ==
  ASSUME TypeOK, NEW n \in 0..SpaceUsed
  PROVE  Advanced(n) = IF start + n < length THEN start + n ELSE start + n - length
<1>1. /\ SpaceUsed \in 0..Capacity /\ n \in Nat /\ start \in Nat
      /\ start < length /\ length \in Nat /\ n < length
  BY SpaceSplits, RingAssumption DEF TypeOK, Slot, length
<1>2. CASE length - start < n
  <2>1. (start + (length - start)) % length = 0
    <3>1. start + (length - start) = length /\ length <= length /\ length < length + length
      BY <1>1
    <3>2. length % length = length - length
      BY <1>1, <3>1, ModOnce
    <3>3. QED BY <1>1, <3>1, <3>2
  <2>2. Advanced(n) = (0 + (n - (length - start))) % length
    BY <1>2, <2>1 DEF Advanced
  <2>3. /\ 0 + (n - (length - start)) \in Nat
        /\ 0 + (n - (length - start)) < length
    BY <1>1, <1>2
  <2>4. Advanced(n) = 0 + (n - (length - start))
    BY <2>2, <2>3, ModOnce
  <2>5. QED BY <1>1, <1>2, <2>4
<1>3. CASE ~(length - start < n)
  <2>1. Advanced(n) = (start + n) % length
    BY <1>3 DEF Advanced
  <2>2. start + n \in Nat /\ start + n < length + length
    BY <1>1
  <2>3. CASE start + n < length
    BY <2>1, <2>2, <2>3, ModOnce
  <2>4. CASE ~(start + n < length)
    <3>1. length <= start + n
      BY <1>1, <2>4
    <3>2. (start + n) % length = start + n - length
      BY <1>1, <2>2, <3>1, ModOnce
    <3>3. QED BY <2>1, <2>4, <3>2
  <2>5. QED BY <2>3, <2>4
<1>4. QED BY <1>2, <1>3

\* Lines 116-140: what rb_read leaves is the content without the n oldest bytes.
LEMMA ReadRemoves ==
  ASSUME TypeOK, NEW n \in 0..SpaceUsed,
         buffer' = buffer,
         start' = (IF Advanced(n) = end THEN 0 ELSE Advanced(n)),
         end' = (IF Advanced(n) = end THEN 0 ELSE end)
  PROVE  /\ start' \in Slot /\ end' \in Slot
         /\ content' = SubSeq(content, n + 1, Len(content))
<1> DEFINE to == IF start + n < length THEN start + n ELSE start + n - length
<1>1. /\ SpaceUsed \in 0..Capacity /\ n \in Nat
      /\ start \in Nat /\ start < length
      /\ end \in Nat /\ end < length
      /\ length \in Nat /\ length = Capacity + 1 /\ Capacity \in Nat
      /\ SpaceUsed = (IF end >= start THEN end - start ELSE length - (start - end))
  BY SpaceSplits, RingAssumption DEF TypeOK, Slot, length
<1>2. Advanced(n) = to
  BY AdvancedIs
<1>3. start' \in Slot /\ end' \in Slot
  BY <1>1, <1>2 DEF Slot
<1>4. /\ SpaceUsed' = SpaceUsed - n
      /\ SpaceUsed' # 0 => start' = to
  <2>1. SpaceUsed' = IF end' >= start' THEN end' - start' ELSE length - (start' - end')
    BY DEF SpaceUsed, length
  <2>2. CASE to = end
    <3>1. start' = 0 /\ end' = 0
      BY <1>2, <2>2
    <3>2. SpaceUsed' = 0
      BY <2>1, <3>1
    <3>3. SpaceUsed = n
      BY <1>1, <2>2
    <3>4. QED BY <1>1, <3>2, <3>3
  <2>3. CASE to # end
    <3>1. start' = to /\ end' = end
      BY <1>2, <2>3
    <3>2. SpaceUsed' = SpaceUsed - n
      BY <1>1, <2>1, <2>3, <3>1
    <3>3. QED BY <3>1, <3>2
  <2>4. QED BY <2>2, <2>3
<1>5. ASSUME NEW i \in 1..(SpaceUsed - n)
      PROVE  (start' + i - 1) % length = (start + (n + i) - 1) % length
  <2>1. start' = to
    BY <1>1, <1>4
  <2>2. /\ i \in 1..length /\ n + i \in 1..length
        /\ i \in Nat /\ n + i <= SpaceUsed
    BY <1>1
  <2>3. (start + (n + i) - 1) % length =
           IF start + (n + i) - 1 < length THEN start + (n + i) - 1
                                           ELSE start + (n + i) - 1 - length
    <3>1. start \in Slot
      BY DEF TypeOK
    <3>2. QED BY <1>1, <2>2, <3>1, SlotOf
  <2>4. to + i - 1 \in Nat /\ to \in Nat /\ to < length
    BY <1>1, <2>2
  <2>5. CASE to + i - 1 < length
    <3>1. (to + i - 1) % length = to + i - 1
      BY <2>4, <2>5, ModOnce
    <3>2. QED BY <1>1, <2>1, <2>2, <2>3, <2>5, <3>1
  <2>6. CASE length <= to + i - 1
    <3> DEFINE a == to + i - 1
    <3>1. a \in Nat /\ length <= a /\ a < length + length
      BY <1>1, <2>2, <2>4, <2>6
    <3> HIDE DEF a, to
    <3>2. a % length = a - length
      BY <3>1, ModOnce
    <3>3. (start' + i - 1) % length = a - length
      BY <2>1, <3>2 DEF a
    <3>4. /\ start + (n + i) - 1 < length => a - length = start + (n + i) - 1
          /\ ~(start + (n + i) - 1 < length) => a - length = start + (n + i) - 1 - length
      BY <1>1, <2>2, <3>1 DEF a, to
    <3>5. QED BY <2>3, <3>3, <3>4
  <2>7. QED BY <1>1, <2>2, <2>4, <2>5, <2>6
<1>6. content' = [i \in 1..(SpaceUsed - n) |-> buffer[(start' + i - 1) % length]]
  BY <1>4 DEF content, length
<1>7. content' = [i \in 1..(SpaceUsed - n) |-> content[n + i]]
  <2>1. ASSUME NEW i \in 1..(SpaceUsed - n)
        PROVE  content[n + i] = buffer[(start + (n + i) - 1) % length]
    <3>1. n + i \in 1..SpaceUsed
      BY <1>1
    <3>2. QED BY <3>1 DEF content
  <2>2. QED BY <1>5, <1>6, <2>1
<1>8. SubSeq(content, n + 1, Len(content)) = [i \in 1..(SpaceUsed - n) |-> content[n + i]]
  <2>1. content \in Seq(Byte) /\ Len(content) = SpaceUsed
    BY ContentType
  <2>2. SubSeq(content, n + 1, SpaceUsed)
          = [i \in 1..(1 + SpaceUsed - (n + 1)) |-> content[i + (n + 1) - 1]]
    BY <1>1, <2>1
  <2>3. 1 + SpaceUsed - (n + 1) = SpaceUsed - n
    BY <1>1
  <2>4. \A i \in 1..(SpaceUsed - n) : i + (n + 1) - 1 = n + i
    BY <1>1
  <2>5. QED BY <2>1, <2>2, <2>3, <2>4
<1>9. QED BY <1>3, <1>7, <1>8

-------------------------------------------------------------------------------
\* What one memcpy leaves in each slot.
LEMMA CopyInIs ==
  ASSUME NEW b \in [Slot -> Byte], NEW at \in Nat, NEW data \in Seq(Byte)
  PROVE  /\ CopyIn(b, at, data) \in [Slot -> Byte]
         /\ \A i \in Slot : CopyIn(b, at, data)[i]
               = IF at <= i /\ i < at + Len(data) THEN data[i - at + 1] ELSE b[i]
<1>1. \A i \in Slot : at <= i /\ i < at + Len(data) => data[i - at + 1] \in Byte
  <2> SUFFICES ASSUME NEW i \in Slot, at <= i, i < at + Len(data)
               PROVE  data[i - at + 1] \in Byte
    OBVIOUS
  <2>1. i \in Nat /\ Len(data) \in Nat
    BY RingAssumption, LenProperties DEF Slot, length
  <2>2. i - at + 1 \in 1..Len(data)
    BY <2>1
  <2>3. QED BY <2>2, LenProperties
<1>2. QED BY <1>1 DEF CopyIn

\* Lines 100-111: after a write that fits, the k-th byte of data is in the k-th
\* slot from end, and the slots of the unread bytes are as they were.
LEMMA WrapInIs ==
  ASSUME TypeOK, NEW data \in Seq(Byte), Len(data) <= SpaceFree, WrapIn(data)
  PROVE  /\ buffer' \in [Slot -> Byte]
         /\ end' = IF end + Len(data) < length THEN end + Len(data)
                                              ELSE end + Len(data) - length
         /\ \A i \in Slot : buffer'[i] =
               IF end <= i /\ i < end + Len(data) THEN data[i - end + 1]
               ELSE IF i + length < end + Len(data) THEN data[i + length - end + 1]
               ELSE buffer[i]
<1> DEFINE n == Len(data)
           half == length - end
<1>1. /\ n \in Nat /\ end \in Nat /\ end < length /\ length \in Nat
      /\ n < length /\ half \in 1..length /\ end + half = length
      /\ Slot = 0..(length - 1)
  <2>1. n \in Nat
    BY LenProperties
  <2>2. SpaceFree = Capacity - SpaceUsed /\ SpaceUsed \in 0..Capacity
    BY SpaceSplits DEF TypeOK
  <2>3. QED BY <2>1, <2>2, RingAssumption DEF TypeOK, Slot, length
<1>2. buffer \in [Slot -> Byte]
  BY DEF TypeOK
<1>3. CASE half < n
  <2> DEFINE d1 == SubSeq(data, 1, half)
             d2 == SubSeq(data, half + 1, n)
             b1 == CopyIn(buffer, end, d1)
  <2>1. (end + half) % length = 0
    <3>1. length <= length /\ length < length + length
      BY <1>1
    <3>2. length % length = length - length
      BY <1>1, <3>1, ModOnce
    <3>3. QED BY <1>1, <3>2
  <2>2. buffer' = CopyIn(b1, 0, d2) /\ end' = (0 + (n - half)) % length
    BY <1>3, <2>1 DEF WrapIn
  <2>3. /\ d1 \in Seq(Byte) /\ Len(d1) = half
        /\ \A k \in 1..half : d1[k] = data[k]
    BY <1>1, <1>3, SubSeqProperties
  <2>4. /\ d2 \in Seq(Byte) /\ Len(d2) = n - half
        /\ \A k \in 1..(n - half) : d2[k] = data[half + k]
    BY <1>1, <1>3, SubSeqProperties
  <2>5. end' = n - half /\ n - half = end + n - length
    <3>1. 0 + (n - half) \in Nat /\ 0 + (n - half) < length
      BY <1>1, <1>3
    <3>2. end' = 0 + (n - half)
      BY <2>2, <3>1, ModOnce
    <3>3. QED BY <1>1, <3>2
  <2> HIDE DEF d1, d2, b1, half, n
  <2>6. /\ b1 \in [Slot -> Byte]
        /\ \A i \in Slot : b1[i] = IF end <= i /\ i < end + half THEN d1[i - end + 1]
                                                                ELSE buffer[i]
    <3>1. /\ CopyIn(buffer, end, d1) \in [Slot -> Byte]
          /\ \A i \in Slot : CopyIn(buffer, end, d1)[i]
                = IF end <= i /\ i < end + Len(d1) THEN d1[i - end + 1] ELSE buffer[i]
      BY <1>1, <1>2, <2>3, CopyInIs
    <3>2. QED BY <2>3, <3>1 DEF b1
  <2>7. /\ buffer' \in [Slot -> Byte]
        /\ \A i \in Slot : buffer'[i] = IF 0 <= i /\ i < 0 + (n - half) THEN d2[i - 0 + 1]
                                                                      ELSE b1[i]
    <3>1. /\ CopyIn(b1, 0, d2) \in [Slot -> Byte]
          /\ \A i \in Slot : CopyIn(b1, 0, d2)[i]
                = IF 0 <= i /\ i < 0 + Len(d2) THEN d2[i - 0 + 1] ELSE b1[i]
      <4>1. 0 \in Nat
        OBVIOUS
      <4>2. QED BY ONLY <2>4, <2>6, <4>1, CopyInIs
    <3>2. QED BY <2>2, <2>4, <3>1
  <2>8. ASSUME NEW i \in Slot
        PROVE  buffer'[i] = IF end <= i /\ i < end + n THEN data[i - end + 1]
                            ELSE IF i + length < end + n THEN data[i + length - end + 1]
                            ELSE buffer[i]
    <3>1. i \in Nat /\ i < length
      BY <1>1
    <3>2. CASE i < n - half
      <4>1. buffer'[i] = d2[i + 1]
        BY <1>1, <2>7, <3>1, <3>2
      <4>2. i + 1 \in 1..(n - half)
        BY <1>1, <1>3, <3>1, <3>2
      <4>3. d2[i + 1] = data[half + (i + 1)] /\ half + (i + 1) = i + length - end + 1
        BY <1>1, <2>4, <3>1, <4>2
      <4>4. ~(end <= i) /\ i + length < end + n
        BY <1>1, <3>1, <3>2
      <4>5. QED BY <4>1, <4>3, <4>4
    <3>3. CASE ~(i < n - half)
      <4>1. buffer'[i] = b1[i]
        BY <1>1, <2>7, <3>1, <3>3
      <4>2. ~(i + length < end + n) /\ (end <= i => i < end + n /\ i < end + half)
        BY <1>1, <1>3, <3>1, <3>3
      <4>3. end <= i => i - end + 1 \in 1..half
        BY <1>1, <3>1
      <4>4. QED BY <2>3, <2>6, <4>1, <4>2, <4>3
    <3>4. QED BY <3>2, <3>3
  <2>9. ~(end + n < length)
    BY <1>1, <1>3
  <2>10. QED BY <2>5, <2>7, <2>8, <2>9 DEF n
<1>4. CASE ~(half < n)
  <2>1. buffer' = CopyIn(buffer, end, data) /\ end' = (end + n) % length
    BY <1>4 DEF WrapIn
  <2>2. /\ buffer' \in [Slot -> Byte]
        /\ \A i \in Slot : buffer'[i] = IF end <= i /\ i < end + n THEN data[i - end + 1]
                                                               ELSE buffer[i]
    BY <1>1, <1>2, <2>1, CopyInIs
  <2>3. end + n <= length
    BY <1>1, <1>4
  <2>4. end' = IF end + n < length THEN end + n ELSE end + n - length
    <3>1. CASE end + n < length
      <4>1. end + n \in Nat
        BY <1>1
      <4>2. (end + n) % length = end + n
        BY <3>1, <4>1, ModOnce
      <4>3. QED BY <2>1, <3>1, <4>2
    <3>2. CASE length <= end + n
      <4>1. end + n < length + length /\ end + n \in Nat
        BY <1>1
      <4>2. (end + n) % length = end + n - length
        BY <1>1, <3>2, <4>1, ModOnce
      <4>3. QED BY <1>1, <2>1, <3>2, <4>2
    <3>3. QED BY <1>1, <2>3, <3>1, <3>2
  <2>5. \A i \in Slot : ~(i + length < end + n)
    BY <1>1, <2>3
  <2>6. QED BY <2>2, <2>4, <2>5
<1>5. QED BY <1>3, <1>4

\* Lines 89-113: what rb_write leaves is the content with the new bytes after it.
LEMMA WriteAppends ==
  ASSUME TypeOK, NEW data \in Seq(Byte), Len(data) <= SpaceFree, WrapIn(data),
         start' = start
  PROVE  /\ end' \in Slot
         /\ content' = content \o data
<1> DEFINE n == Len(data)
           used == SpaceUsed
<1>1. /\ n \in Nat /\ start \in Nat /\ start < length /\ end \in Nat /\ end < length
      /\ length \in Nat /\ length = Capacity + 1 /\ Capacity \in Nat
      /\ used \in Nat /\ used + n <= Capacity
      /\ used = (IF end >= start THEN end - start ELSE length - (start - end))
      /\ Slot = 0..(length - 1)
  <2>1. n \in Nat
    BY LenProperties
  <2>2. /\ SpaceFree = Capacity - SpaceUsed /\ SpaceUsed \in 0..Capacity
        /\ SpaceUsed = (IF end >= start THEN end - start ELSE length - (start - end))
    BY SpaceSplits DEF TypeOK
  <2>3. QED BY <2>1, <2>2, RingAssumption DEF TypeOK, Slot, length
<1>2. /\ end' = IF end + n < length THEN end + n ELSE end + n - length
      /\ \A i \in Slot : buffer'[i] =
            IF end <= i /\ i < end + n THEN data[i - end + 1]
            ELSE IF i + length < end + n THEN data[i + length - end + 1]
            ELSE buffer[i]
  BY WrapInIs
<1>3. end' \in Slot
  BY <1>1, <1>2
<1>4. SpaceUsed' = used + n
  <2>1. SpaceUsed' = IF end' >= start' THEN end' - start' ELSE length - (start' - end')
    BY DEF SpaceUsed, length
  <2> HIDE DEF n, used
  <2>2. QED BY <1>1, <1>2, <2>1
<1>5. content' = [i \in 1..(used + n) |-> buffer'[(start + i - 1) % length]]
  BY <1>4 DEF content, length
<1>6. content \in Seq(Byte) /\ Len(content) = used
  BY ContentType
<1>7. /\ content \o data \in Seq(Byte)
      /\ Len(content \o data) = used + n
      /\ \A i \in 1..used : (content \o data)[i] = content[i]
      /\ \A i \in (used + 1)..(used + n) : (content \o data)[i] = data[i - used]
  <2> DEFINE c == content
  <2>1. c \in Seq(Byte) /\ Len(c) = used /\ Len(data) = n /\ n \in Nat /\ used \in Nat
    BY <1>1, <1>6
  <2> HIDE DEF c, n, used
  <2>2. /\ c \o data \in Seq(Byte)
        /\ Len(c \o data) = used + n
        /\ \A i \in 1..(used + n) : (c \o data)[i] = IF i <= used THEN c[i]
                                                              ELSE data[i - used]
    BY <2>1
  <2>3. \A i \in 1..used : i \in 1..(used + n) /\ i <= used
    BY <2>1
  <2>4. \A i \in (used + 1)..(used + n) : i \in 1..(used + n) /\ ~(i <= used)
    BY <2>1
  <2>5. QED BY <2>2, <2>3, <2>4 DEF c
<1> HIDE DEF n, used
<1>8. ASSUME NEW i \in 1..(used + n)
      PROVE  buffer'[(start + i - 1) % length] = (content \o data)[i]
  <2> DEFINE s == (start + i - 1) % length
  <2>1. i \in 1..length /\ i \in Nat
    BY <1>1
  <2>2. /\ s \in Slot
        /\ start + i - 1 < length => s = start + i - 1
        /\ start + i - 1 >= length => s = start + i - 1 - length
    BY <2>1, SlotOf DEF TypeOK
  <2> HIDE DEF s
  <2>3. CASE i <= used
    <3>1. ~(end <= s /\ s < end + n) /\ ~(s + length < end + n)
      BY <1>1, <2>1, <2>2, <2>3
    <3>2. buffer'[s] = buffer[s]
      BY <1>2, <2>2, <3>1
    <3>3. i \in 1..used
      BY <1>1, <2>1, <2>3
    <3>4. content[i] = buffer[s]
      BY <3>3 DEF content, s, used
    <3>5. QED BY <1>7, <3>2, <3>3, <3>4 DEF s
  <2>4. CASE ~(i <= used)
    <3>1. i \in (used + 1)..(used + n)
      BY <1>1, <2>1, <2>4
    <3>2. \/ end <= s /\ s < end + n /\ s - end + 1 = i - used
          \/ /\ ~(end <= s /\ s < end + n) /\ s + length < end + n
             /\ s + length - end + 1 = i - used
      BY <1>1, <2>1, <2>2, <3>1
    <3>3. buffer'[s] = data[i - used]
      BY <1>2, <2>2, <3>2
    <3>4. QED BY <1>7, <3>1, <3>3 DEF s
  <2>5. QED BY <2>3, <2>4
<1>9. content' = [i \in 1..(used + n) |-> (content \o data)[i]]
  BY <1>5, <1>8
<1>10. content \o data = [i \in 1..(used + n) |-> (content \o data)[i]]
  <2>1. content \o data \in [1..(used + n) -> Byte]
    BY <1>7, LenProperties
  <2>2. QED BY <2>1
<1>11. QED BY <1>3, <1>9, <1>10

-------------------------------------------------------------------------------
\* A request is a sequence of bytes.
LEMMA RequestIsSeq == ASSUME NEW data \in Request PROVE data \in Seq(Byte)
BY DEF Request

\* A call that rewinds both indices leaves nothing.
LEMMA RewoundIsEmpty ==
  ASSUME start' = 0, end' = 0
  PROVE  SpaceUsed' = 0 /\ content' = <<>>
<1>1. SpaceUsed' = 0
  BY DEF SpaceUsed
<1>2. content' = [i \in 1..0 |-> buffer'[(start' + i - 1) % length]]
  BY <1>1 DEF content, length
<1>3. QED BY <1>1, <1>2

\* A call that changes neither the bytes nor the indices leaves the content alone.
LEMMA SameContent ==
  ASSUME buffer' = buffer, start' = start, end' = end
  PROVE  content' = content /\ SpaceUsed' = SpaceUsed
<1>1. SpaceUsed' = SpaceUsed
  BY DEF SpaceUsed, length
<1>2. QED BY <1>1 DEF content, length

\* The bytes a dump or a read hands out, and the reply they travel in.
LEMMA ReplyType ==
  ASSUME TypeOK, NEW n \in 0..SpaceUsed,
         NEW op \in {"read", "dump"}
  PROVE  IsReply(Reply(op, n, WrapOut(n)))
<1>1. WrapOut(n) \in Seq(Byte) /\ Len(WrapOut(n)) = n
  BY WrapOutIsPrefix
<1>2. SpaceUsed \in 0..Capacity /\ n \in Int /\ n <= Capacity
  BY SpaceSplits, RingAssumption DEF TypeOK
<1>3. QED BY <1>1, <1>2 DEF Reply, IsReply

\* A reply that hands out no bytes is a reply.
LEMMA EmptyReplyType ==
  ASSUME NEW val \in Int,
         NEW op \in {"none", "create", "destroy", "write", "read", "dump",
                     "cleanup", "free", "used"}
  PROVE  IsReply(Reply(op, val, <<>>))
BY EmptySeq, RingAssumption DEF Reply, IsReply

\* The buffer that calloc made holds bytes.
LEMMA ZeroFilled ==
  /\ 0 \in Slot
  /\ [i \in Slot |-> Zero] \in [Slot -> Byte]
BY RingAssumption DEF Slot, length

\* The most a read can take.
LEMMA TakenRange ==
  ASSUME TypeOK, NEW n \in 0..MaxRequest
  PROVE  /\ MinOf(n, SpaceUsed) \in 0..SpaceUsed
         /\ SpaceUsed \in 0..Capacity /\ SpaceUsed \in 0..SpaceUsed
<1>1. SpaceUsed \in 0..Capacity
  BY SpaceSplits DEF TypeOK
<1>2. QED BY <1>1, RingAssumption DEF MinOf

\* Every call keeps both indices in the allocation.
LEMMA TypeStep == TypeOK /\ [Next]_vars => TypeOK'
<1> SUFFICES ASSUME TypeOK, [Next]_vars PROVE TypeOK'
  OBVIOUS
<1>1. ASSUME NEW ok \in BOOLEAN, rb_create(ok) PROVE TypeOK'
  BY <1>1, ZeroFilled, EmptyReplyType DEF rb_create, TypeOK
<1>2. ASSUME NEW ok \in BOOLEAN, rb_dump(ok) PROVE TypeOK'
  <2>1. SpaceUsed \in 0..SpaceUsed /\ 0 \in Int
    BY SpaceSplits DEF TypeOK
  <2>2. CASE live /\ SpaceUsed > 0 /\ ok
    BY <1>2, <2>1, <2>2, ReplyType DEF rb_dump, TypeOK
  <2>3. CASE ~(live /\ SpaceUsed > 0 /\ ok)
    BY <1>2, <2>1, <2>3, EmptyReplyType DEF rb_dump, TypeOK
  <2>4. QED BY <2>2, <2>3
<1>3. ASSUME NEW data \in Request, rb_write(data) PROVE TypeOK'
  <2>1. data \in Seq(Byte) /\ Len(data) \in Int /\ -1 \in Int
    BY RequestIsSeq, LenProperties
  <2>2. CASE live /\ Len(data) <= SpaceFree
    <3>1. WrapIn(data) /\ start' = start /\ live' = live
      BY <1>3, <2>2 DEF rb_write
    <3>2. buffer' \in [Slot -> Byte] /\ end' \in Slot
      BY <2>1, <2>2, <3>1, WrapInIs, WriteAppends
    <3>3. QED BY <1>3, <2>1, <2>2, <3>1, <3>2, EmptyReplyType DEF rb_write, TypeOK
  <2>3. CASE ~(live /\ Len(data) <= SpaceFree)
    BY <1>3, <2>1, <2>3, EmptyReplyType DEF rb_write, TypeOK
  <2>4. QED BY <2>2, <2>3
<1>4. ASSUME NEW n \in 0..MaxRequest, rb_read(n) PROVE TypeOK'
  <2> DEFINE rlen == MinOf(n, SpaceUsed)
  <2>1. rlen \in 0..SpaceUsed /\ -1 \in Int
    BY TakenRange
  <2> HIDE DEF rlen
  <2>2. CASE live
    <3>1. /\ buffer' = buffer /\ live' = live
          /\ start' = (IF Advanced(rlen) = end THEN 0 ELSE Advanced(rlen))
          /\ end' = (IF Advanced(rlen) = end THEN 0 ELSE end)
          /\ ret' = Reply("read", rlen, WrapOut(rlen))
      BY <1>4, <2>2 DEF rb_read, rlen
    <3>2. start' \in Slot /\ end' \in Slot
      BY <2>1, <3>1, ReadRemoves
    <3>3. QED BY <2>1, <3>1, <3>2, ReplyType DEF TypeOK
  <2>3. CASE ~live
    BY <1>4, <2>1, <2>3, EmptyReplyType DEF rb_read, TypeOK
  <2>4. QED BY <2>2, <2>3
<1>5. CASE rb_destroy
  BY <1>5, ZeroFilled, EmptyReplyType DEF rb_destroy, TypeOK
<1>6. CASE rb_cleanup
  BY <1>6, ZeroFilled, EmptyReplyType DEF rb_cleanup, TypeOK
<1>7. CASE rb_get_space_free
  <2>1. SpaceFree \in Int
    BY SpaceSplits, RingAssumption DEF TypeOK
  <2>2. QED BY <1>7, <2>1, EmptyReplyType DEF rb_get_space_free, TypeOK
<1>8. CASE rb_get_space_used
  <2>1. SpaceUsed \in Int
    BY SpaceSplits, RingAssumption DEF TypeOK
  <2>2. QED BY <1>8, <2>1, EmptyReplyType DEF rb_get_space_used, TypeOK
<1>9. CASE UNCHANGED vars
  BY <1>9 DEF vars, TypeOK
<1>10. QED BY <1>1, <1>2, <1>3, <1>4, <1>5, <1>6, <1>7, <1>8, <1>9 DEF Next

\* For every capacity: no call of the ring leaves an index outside the
\* allocation or hands out more bytes than the buffer can hold.
THEOREM TypeCorrect == Spec => []TypeOK
<1>1. Init => TypeOK
  BY ZeroFilled, EmptyReplyType DEF Init, TypeOK
<1>2. QED BY <1>1, TypeStep, PTL DEF Spec

-------------------------------------------------------------------------------
\* Each call of the ring is a call of the bounded byte queue.
LEMMA FifoStep == TypeOK /\ [Next]_vars => [Fifo!Next]_(Fifo!vars)
<1> SUFFICES ASSUME TypeOK, [Next]_vars PROVE [Fifo!Next]_(Fifo!vars)
  OBVIOUS
<1> USE DEF Reply, Fifo!Reply
<1>1. ASSUME NEW ok \in BOOLEAN, rb_create(ok) PROVE Fifo!Next
  <2>1. content' = <<>>
    BY <1>1, RewoundIsEmpty DEF rb_create
  <2>2. Fifo!Create(ok)
    BY <1>1, <2>1 DEF rb_create, Fifo!Create
  <2>3. QED BY <2>2 DEF Fifo!Next
<1>2. ASSUME NEW ok \in BOOLEAN, rb_dump(ok) PROVE Fifo!Next
  <2>1. content' = content /\ live' = live
    BY <1>2, SameContent DEF rb_dump
  <2>2. /\ SpaceUsed \in 0..SpaceUsed
        /\ Len(content) = SpaceUsed /\ content \in Seq(Byte)
    BY SpaceSplits, ContentType DEF TypeOK
  <2>3. CASE live /\ SpaceUsed > 0 /\ ok
    <3>1. WrapOut(SpaceUsed) = content
      <4>1. WrapOut(SpaceUsed) = [i \in 1..SpaceUsed |-> content[i]]
        BY <2>2, WrapOutIsPrefix
      <4>2. QED BY <4>1, ContentType
    <3>2. Fifo!Dump(TRUE)
      BY <1>2, <2>1, <2>2, <2>3, <3>1 DEF rb_dump, Fifo!Dump
    <3>3. QED BY <3>2 DEF Fifo!Next
  <2>4. CASE ~(live /\ SpaceUsed > 0 /\ ok)
    <3>1. Fifo!Dump(FALSE)
      BY <1>2, <2>1, <2>4 DEF rb_dump, Fifo!Dump
    <3>2. QED BY <3>1 DEF Fifo!Next
  <2>5. QED BY <2>3, <2>4
<1>3. ASSUME NEW data \in Request, rb_write(data) PROVE Fifo!Next
  <2>1. /\ data \in Seq(Byte) /\ data \in Fifo!Request
        /\ Len(content) = SpaceUsed /\ live' = live
        /\ SpaceFree = Capacity - SpaceUsed /\ SpaceUsed \in 0..Capacity
        /\ Len(data) \in Nat
    BY <1>3, RequestIsSeq, ContentType, SpaceSplits, LenProperties
       DEF TypeOK, rb_write, Request, Fifo!Request
  <2>2. Len(data) <= SpaceFree <=> Len(content) + Len(data) <= Capacity
    BY <2>1, RingAssumption
  <2>3. CASE live /\ Len(data) <= SpaceFree
    <3>1. WrapIn(data) /\ start' = start
      BY <1>3, <2>3 DEF rb_write
    <3>2. content' = content \o data
      BY <2>1, <2>3, <3>1, WriteAppends
    <3>3. Fifo!Write(data)
      BY <1>3, <2>1, <2>2, <2>3, <3>2 DEF rb_write, Fifo!Write
    <3>4. QED BY <2>1, <3>3 DEF Fifo!Next
  <2>4. CASE ~(live /\ Len(data) <= SpaceFree)
    <3>1. content' = content
      BY <1>3, <2>4, SameContent DEF rb_write
    <3>2. Fifo!Write(data)
      BY <1>3, <2>1, <2>2, <2>4, <3>1 DEF rb_write, Fifo!Write
    <3>3. QED BY <2>1, <3>2 DEF Fifo!Next
  <2>5. QED BY <2>3, <2>4
<1>4. ASSUME NEW n \in 0..MaxRequest, rb_read(n) PROVE Fifo!Next
  <2> DEFINE rlen == MinOf(n, SpaceUsed)
  <2>1. /\ rlen \in 0..SpaceUsed
        /\ Len(content) = SpaceUsed /\ live' = live
        /\ rlen = Fifo!MinOf(n, Len(content))
    BY <1>4, TakenRange, ContentType DEF rb_read, MinOf, Fifo!MinOf
  <2> HIDE DEF rlen
  <2>2. CASE live
    <3>1. /\ buffer' = buffer
          /\ start' = (IF Advanced(rlen) = end THEN 0 ELSE Advanced(rlen))
          /\ end' = (IF Advanced(rlen) = end THEN 0 ELSE end)
          /\ ret' = Reply("read", rlen, WrapOut(rlen))
      BY <1>4, <2>2 DEF rb_read, rlen
    <3>2. content' = SubSeq(content, rlen + 1, Len(content))
      BY <2>1, <3>1, ReadRemoves
    <3>3. WrapOut(rlen) = SubSeq(content, 1, rlen)
      BY <2>1, WrapOutIsPrefix
    <3>4. Fifo!Read(n)
      BY <2>1, <2>2, <3>1, <3>2, <3>3 DEF Fifo!Read
    <3>5. QED BY <3>4 DEF Fifo!Next
  <2>3. CASE ~live
    <3>1. content' = content
      BY <1>4, <2>3, SameContent DEF rb_read
    <3>2. Fifo!Read(n)
      BY <1>4, <2>1, <2>3, <3>1 DEF rb_read, Fifo!Read
    <3>3. QED BY <3>2 DEF Fifo!Next
  <2>4. QED BY <2>2, <2>3
<1>5. CASE rb_destroy
  <2>1. content' = <<>>
    BY <1>5, RewoundIsEmpty DEF rb_destroy
  <2>2. Fifo!Destroy
    BY <1>5, <2>1 DEF rb_destroy, Fifo!Destroy
  <2>3. QED BY <2>2 DEF Fifo!Next
<1>6. CASE rb_cleanup
  <2>1. content' = <<>>
    BY <1>6, RewoundIsEmpty DEF rb_cleanup
  <2>2. Fifo!Cleanup
    BY <1>6, <2>1 DEF rb_cleanup, Fifo!Cleanup
  <2>3. QED BY <2>2 DEF Fifo!Next
<1>7. CASE rb_get_space_free \/ rb_get_space_used
  <2>1. content' = content
    BY <1>7, SameContent DEF rb_get_space_free, rb_get_space_used
  <2>2. Len(content) = SpaceUsed /\ SpaceFree = Capacity - SpaceUsed
    BY ContentType, SpaceSplits DEF TypeOK
  <2>3. Fifo!Space
    BY <1>7, <2>1, <2>2 DEF rb_get_space_free, rb_get_space_used, Fifo!Space
  <2>4. QED BY <2>3 DEF Fifo!Next
<1>8. CASE UNCHANGED vars
  <2>1. content' = content
    BY <1>8, SameContent DEF vars
  <2>2. QED BY <1>8, <2>1 DEF vars, Fifo!vars
<1>9. QED BY <1>1, <1>2, <1>3, <1>4, <1>5, <1>6, <1>7, <1>8 DEF Next

\* The circular buffer of RingBuffer.c implements the bounded byte queue, for
\* every capacity, every set of bytes and every request length.
THEOREM RingImplementsFifo == Spec => ImplementsFifo
<1>1. Init => Fifo!Init
  <2> SUFFICES ASSUME Init PROVE Fifo!Init
    OBVIOUS
  <2>1. SpaceUsed = 0
    BY DEF Init, SpaceUsed
  <2>2. content = [i \in 1..0 |-> buffer[(start + i - 1) % length]]
    BY <2>1 DEF content
  <2>3. content = <<>>
    BY <2>2
  <2>4. QED BY <2>3 DEF Init, Fifo!Init, Reply, Fifo!Reply
<1>2. QED BY <1>1, FifoStep, TypeCorrect, PTL DEF Spec, ImplementsFifo, Fifo!Spec
===============================================================================
