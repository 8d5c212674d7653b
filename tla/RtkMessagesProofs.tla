---------------------------- MODULE RtkMessagesProofs --------------------------
(***************************************************************************)
(* What is proved of RtkMessages: M919 has the differences of just the     *)
(* satellites that both epochs have, the whole cycles taken off a carrier  *)
(* remain from epoch to epoch, and the bytes of M919 and M916 read back    *)
(* what the engine is given and what was observed.                         *)
(*                                                                         *)
(* The satellites of M919 are picked out of the base epoch one by one, and *)
(* its fields are put satellite after satellite, so that what the picked   *)
(* ones are and where a field is are inductions along the epoch: on        *)
(* numbers, as the search for a least counterexample.  What the engine is  *)
(* given is related to NCycle by Remembered: NCycle has just what was      *)
(* taken off the last difference.  M916 needs no induction: what a         *)
(* satellite without a code leaves is written nowhere.                     *)
(***************************************************************************)
EXTENDS RtkMessages, FiniteSetTheorems, WellFoundedInduction, SequenceTheorems, TLAPS

-----------------------------------------------------------------------------
(* Induction on numbers                                                     *)

\* A set of natural numbers has a least element.
LEMMA LeastNat ==
    ASSUME NEW S \in SUBSET Nat, S # {}
    PROVE  \E m \in S : \A k \in S : m <= k
<1>1. IsWellFoundedOn(OpToRel(<, Nat), Nat)
  BY NatLessThanWellFounded, Zenon
<1>2. PICK m \in S : \A k \in S : <<k, m>> \notin OpToRel(<, Nat)
  BY <1>1, WFMin, Zenon
<1>3. ASSUME NEW k \in S PROVE m <= k
  <2>1. m \in Nat /\ k \in Nat
    OBVIOUS
  <2>2. ~(k < m)
    BY <1>2, <2>1 DEF OpToRel
  <2> QED
    BY <2>1, <2>2
<1> QED
  BY <1>3

\* A set of numbers up to n that has 0, and with a number the next, has all of them.
LEMMA UpTo ==
    ASSUME NEW n \in Nat, NEW T, 0 \in T, \A i \in 0..(n - 1) : i \in T => i + 1 \in T
    PROVE  0..n \subseteq T
<1> DEFINE S == {i \in 0..n : i \notin T}
<1>1. SUFFICES ASSUME S # {} PROVE FALSE
  OBVIOUS
<1>2. S \in SUBSET Nat
  OBVIOUS
<1>3. PICK m \in S : \A k \in S : m <= k
  <2> HIDE DEF S
  <2> QED
    BY <1>1, <1>2, LeastNat
<1>4. m \in 1..n /\ m - 1 \in 0..(n - 1) /\ m - 1 \notin S
  BY <1>3
<1>5. m - 1 \in T
  BY <1>4
<1> QED
  BY <1>3, <1>4, <1>5

-----------------------------------------------------------------------------
(* Piece after piece                                                        *)

Joined(s, t) == s \o t

IsFlat(f, s, n) == f = [i \in 1..n |-> IF i = 1 THEN s[i] ELSE Joined(f[i - 1], s[i])]

Flat(s) == CHOOSE f : IsFlat(f, s, Len(s))

\* The function in FlattenSeq is well defined.
LEMMA FlatExists ==
    ASSUME NEW s, NEW n \in Nat
    PROVE  \E f : IsFlat(f, s, n)
<1> DEFINE T == {m \in Nat : \E f : IsFlat(f, s, m)}
<1>1. 0 \in T
  <2> DEFINE f == [i \in 1..0 |-> 0]
  <2>1. IsFlat(f, s, 0)
    BY DEF IsFlat
  <2> QED
    BY <2>1
<1>2. ASSUME NEW m \in 0..(n - 1), m \in T PROVE m + 1 \in T
  <2>1. PICK f : IsFlat(f, s, m)
    BY <1>2
  <2> DEFINE last == IF m = 0 THEN s[1] ELSE Joined(f[m], s[m + 1])
  <2> HIDE DEF last
  <2> DEFINE g == [i \in 1..(m + 1) |-> IF i = m + 1 THEN last ELSE f[i]]
  <2>2. /\ \A i \in 1..m : f[i] = IF i = 1 THEN s[i] ELSE Joined(f[i - 1], s[i])
        /\ \A i \in 1..m : g[i] = f[i]
        /\ g[m + 1] = last
    <3>1. f = [i \in 1..m |-> IF i = 1 THEN s[i] ELSE Joined(f[i - 1], s[i])]
      BY <2>1 DEF IsFlat
    <3>2. \A i \in 1..m : f[i] = IF i = 1 THEN s[i] ELSE Joined(f[i - 1], s[i])
      BY <3>1, Zenon
    <3> QED
      BY <3>2
  <2>3. ASSUME NEW i \in 1..(m + 1)
        PROVE  g[i] = IF i = 1 THEN s[i] ELSE Joined(g[i - 1], s[i])
    <3>1. CASE i = m + 1 /\ m = 0
      BY <2>2, <3>1 DEF last
    <3>2. CASE i = m + 1 /\ m # 0
      <4>1. i - 1 = m /\ m \in 1..m /\ i # 1
        BY <3>2
      <4>2. g[i - 1] = f[m] /\ last = Joined(f[m], s[i])
        BY <2>2, <3>2, <4>1 DEF last
      <4> HIDE DEF g
      <4> QED
        BY <2>2, <3>2, <4>1, <4>2
    <3>3. CASE i \in 2..m
      <4>1. i - 1 \in 1..m /\ i # 1 /\ i \in 1..m
        BY <3>3
      <4>2. g[i] = f[i] /\ g[i - 1] = f[i - 1]
        BY <2>2, <4>1
      <4> HIDE DEF g
      <4> QED
        BY <2>2, <4>1, <4>2
    <3>4. CASE i = 1 /\ m # 0
      BY <2>2, <3>4
    <3> QED
      BY <3>1, <3>2, <3>3, <3>4
  <2>4. IsFlat(g, s, m + 1)
    BY <2>3 DEF IsFlat
  <2> QED
    BY <2>4
<1> HIDE DEF T
<1>3. 0..n \subseteq T
  BY <1>1, <1>2, UpTo
<1> QED
  BY <1>3 DEF T

\* It puts piece after piece.
IsRow(s, n, G) ==
    /\ n = 0 => FlattenSeq(s) = s
    /\ n # 0 => FlattenSeq(s) = G[n] /\ G[1] = s[1]
    /\ \A i \in 2..n : G[i] = Joined(G[i - 1], s[i])

\* FlattenSeq is the last of its steps.
LEMMA FlatSteps ==
    ASSUME NEW s, NEW n \in Nat, Len(s) = n
    PROVE  IsRow(s, n, Flat(s))
<1>1. IsFlat(Flat(s), s, n)
  BY FlatExists, Zenon DEF Flat
<1>2. FlattenSeq(s) = IF n = 0 THEN s ELSE Flat(s)[n]
  <2>1. FlattenSeq(s) = IF Len(s) = 0 THEN s ELSE Flat(s)[Len(s)]
    BY Zenon DEF FlattenSeq, Flat, IsFlat, Joined
  <2> QED
    BY <2>1, Zenon
<1> DEFINE f == Flat(s)
<1> HIDE DEF f
<1>3. \A i \in 1..n : f[i] = IF i = 1 THEN s[i] ELSE Joined(f[i - 1], s[i])
  BY <1>1, Zenon DEF IsFlat, f
<1>4. n # 0 => f[1] = s[1]
  <2>1. n # 0 => 1 \in 1..n
    OBVIOUS
  <2> QED
    BY <1>3, <2>1, Zenon
<1>5. ASSUME NEW i \in 2..n PROVE f[i] = Joined(f[i - 1], s[i])
  <2>1. i \in 1..n /\ i # 1
    OBVIOUS
  <2> QED
    BY <1>3, <2>1, Zenon
<1> QED
  BY <1>2, <1>4, <1>5, Zenon DEF f, IsRow


\* The row of pieces s in which what is at a place of T is alone, and all else is left out.
Pieces(b, T) == [i \in DOMAIN b |-> IF i \in T THEN <<b[i]>> ELSE <<>>]

\* f has just what is at the first k places of b, as far as they are in T, once each.
PickedUpTo(S, b, T, f, k) ==
    /\ f \in Seq(S) /\ Len(f) <= k
    /\ \A j \in 1..Len(f) : \E i \in T : i <= k /\ f[j] = b[i]
    /\ \A i \in T : i <= k => \E j \in 1..Len(f) : f[j] = b[i]
    /\ \A i, j \in 1..Len(f) : f[i].id = f[j].id => i = j

\* One more at the end
IsLonger(S, f, x, g) ==
    /\ g \in Seq(S) /\ Len(g) = Len(f) + 1 /\ g[Len(f) + 1] = x
    /\ \A j \in 1..Len(f) : g[j] = f[j]

\* A sequence with one more at the end is one longer, and as it was.
LEMMA OneMore ==
    ASSUME NEW S, NEW f, f \in Seq(S), NEW x, x \in S
    PROVE  IsLonger(S, f, x, Joined(f, <<x>>))
BY DEF Joined, IsLonger

\* A step of the pick.
LEMMA PickOne ==
    ASSUME NEW S, NEW n \in Nat, NEW b, \A i \in 1..n : b[i] \in S,
           \A i, j \in 1..n : b[i].id = b[j].id => i = j,
           NEW T \in SUBSET (1..n), NEW k \in 0..(n - 1), NEW f, PickedUpTo(S, b, T, f, k),
           NEW g, g = Joined(f, IF k + 1 \in T THEN <<b[k + 1]>> ELSE <<>>)
    PROVE  PickedUpTo(S, b, T, g, k + 1)
<1>1. /\ f \in Seq(S) /\ Len(f) \in Nat /\ Len(f) <= k
      /\ \A j \in 1..Len(f) : \E i \in T : i <= k /\ f[j] = b[i]
      /\ \A i \in T : i <= k => \E j \in 1..Len(f) : f[j] = b[i]
      /\ \A i, j \in 1..Len(f) : f[i].id = f[j].id => i = j
  BY DEF PickedUpTo
<1>2. \A i \in T : i \in 1..n /\ (i <= k + 1 => i <= k \/ i = k + 1)
  OBVIOUS
<1>3. CASE k + 1 \notin T
  <2>1. g = f
    <3>1. g = Joined(f, <<>>)
      BY <1>3
    <3> QED
      BY <1>1, <3>1, ConcatEmptySeq DEF Joined
  <2>2. \A i \in T : i <= k + 1 => i <= k
    BY <1>2, <1>3
  <2>3. \A i \in T : i <= k => i <= k + 1
    BY <1>2
  <2>4. Len(f) <= k + 1
    BY <1>1
  <2>5. PickedUpTo(S, b, T, f, k + 1)
    <3>1. \A j \in 1..Len(f) : \E i \in T : i <= k + 1 /\ f[j] = b[i]
      BY <1>1, <2>3, Zenon
    <3>2. \A i \in T : i <= k + 1 => \E j \in 1..Len(f) : f[j] = b[i]
      BY <1>1, <2>2, Zenon
    <3> QED
      BY <1>1, <2>4, <3>1, <3>2 DEF PickedUpTo
  <2> QED
    BY <2>1, <2>5
<1>4. CASE k + 1 \in T
  <2>1. PICK x, m : x = b[k + 1] /\ m = Len(f) /\ m \in Nat /\ x \in S
    BY <1>1, <1>2, <1>4
  <2>2. /\ g \in Seq(S) /\ Len(g) = m + 1 /\ g[m + 1] = x
        /\ \A j \in 1..m : g[j] = f[j]
    <3>1. g = Joined(f, <<x>>)
      BY <1>4, <2>1
    <3>2. IsLonger(S, f, x, Joined(f, <<x>>))
      BY <1>1, <2>1, OneMore, Zenon
    <3> QED
      BY <2>1, <3>1, <3>2, Zenon DEF IsLonger
  <2>3. ASSUME NEW j \in 1..Len(g) PROVE \E i \in T : i <= k + 1 /\ g[j] = b[i]
    <3>1. CASE j = m + 1
      BY <1>4, <2>1, <2>2, <3>1
    <3>2. CASE j # m + 1
      <4>1. j \in 1..Len(f) /\ g[j] = f[j]
        <5>1. j \in 1..m
          BY <2>1, <2>2, <3>2
        <5> QED
          BY <2>1, <2>2, <5>1
      <4>2. PICK i \in T : i <= k /\ f[j] = b[i]
        BY <1>1, <4>1
      <4>3. i <= k + 1
        BY <1>2, <4>2
      <4> QED
        BY <4>1, <4>2, <4>3
    <3> QED
      BY <3>1, <3>2
  <2>4. ASSUME NEW i \in T, i <= k + 1 PROVE \E j \in 1..Len(g) : g[j] = b[i]
    <3>1. CASE i = k + 1
      <4>1. m + 1 \in 1..Len(g)
        BY <1>1, <2>1, <2>2
      <4> QED
        BY <2>1, <2>2, <3>1, <4>1
    <3>2. CASE i <= k
      <4>1. PICK j \in 1..Len(f) : f[j] = b[i]
        BY <1>1, <3>2
      <4>2. j \in 1..Len(g) /\ g[j] = f[j]
        <5>1. j \in 1..m
          BY <2>1
        <5> QED
          BY <2>1, <2>2, <5>1
      <4> QED
        BY <4>1, <4>2
    <3> QED
      BY <1>2, <2>4, <3>1, <3>2
  <2>5. \A j \in 1..m : g[j].id # x.id
    <3> SUFFICES ASSUME NEW j \in 1..m, g[j].id = x.id PROVE FALSE
      OBVIOUS
    <3>1. PICK i \in T : i <= k /\ f[j] = b[i]
      BY <1>1, <2>1
    <3>2. b[i].id = b[k + 1].id /\ i \in 1..n /\ k + 1 \in 1..n
      BY <1>2, <2>1, <2>2, <3>1
    <3>3. i = k + 1
      BY <3>2
    <3> QED
      BY <1>2, <3>1, <3>3
  <2>6. ASSUME NEW i \in 1..Len(g), NEW j \in 1..Len(g), g[i].id = g[j].id PROVE i = j
    <3>1. i \in 1..m \/ i = m + 1
      BY <1>1, <2>1, <2>2
    <3>2. j \in 1..m \/ j = m + 1
      BY <1>1, <2>1, <2>2
    <3>3. CASE i \in 1..m /\ j \in 1..m
      BY <1>1, <2>1, <2>2, <2>6, <3>3
    <3> QED
      BY <2>2, <2>5, <2>6, <3>1, <3>2, <3>3
  <2>7. Len(g) <= k + 1
    BY <1>1, <2>1, <2>2
  <2> QED
    BY <2>2, <2>3, <2>4, <2>6, <2>7 DEF PickedUpTo
<1> QED
  BY <1>3, <1>4

\* The pieces in a row are what is at the places of T.
LEMMA Picked ==
    ASSUME NEW S, NEW b \in Seq(S), \A i, j \in DOMAIN b : b[i].id = b[j].id => i = j,
           NEW T \in SUBSET DOMAIN b
    PROVE  PickedUpTo(S, b, T, FlattenSeq(Pieces(b, T)), Len(b))
<1>1. PICK n : n = Len(b) /\ n \in Nat /\ DOMAIN b = 1..n
  OBVIOUS
<1>2. PICK s : s = Pieces(b, T)
  OBVIOUS
<1>3. \A i \in 1..n : s[i] = IF i \in T THEN <<b[i]>> ELSE <<>>
  <2>1. s = [i \in 1..n |-> IF i \in T THEN <<b[i]>> ELSE <<>>]
    BY <1>1, <1>2 DEF Pieces
  <2> QED
    BY <1>1, <2>1
<1>31. Len(s) = n
  BY <1>1, <1>2 DEF Pieces
<1>4. PICK G : G = Flat(s)
  OBVIOUS
<1>5. /\ n = 0 => FlattenSeq(s) = s
      /\ n # 0 => FlattenSeq(s) = G[n] /\ G[1] = s[1]
      /\ \A i \in 2..n : G[i] = Joined(G[i - 1], s[i])
  <2>1. IsRow(s, n, Flat(s))
    BY <1>1, <1>31, FlatSteps, Zenon
  <2> QED
    BY <1>4, <2>1, Zenon DEF IsRow
<1>6. \A i \in 1..n : b[i] \in S
  BY <1>1
<1>7. \A i, j \in 1..n : b[i].id = b[j].id => i = j
  BY <1>1
<1>8. T \in SUBSET (1..n)
  BY <1>1
<1>9. PickedUpTo(S, b, T, <<>>, 0)
  <2>1. \A i \in T : ~(i <= 0)
    BY <1>8
  <2>2. <<>> \in Seq(S) /\ Len(<<>>) = 0 /\ 1..0 = {}
    OBVIOUS
  <2> QED
    BY <2>1, <2>2 DEF PickedUpTo
<1>10. CASE n = 0
  <2>1. s = <<>>
    BY <1>1, <1>2, <1>10 DEF Pieces
  <2> QED
    BY <1>1, <1>2, <1>5, <1>9, <1>10, <2>1
<1>11. CASE n # 0
  <2> DEFINE U == {0} \union {k \in 1..n : PickedUpTo(S, b, T, G[k], k)}
  <2>1. ASSUME NEW k \in 0..(n - 1), k \in U PROVE k + 1 \in U
    <3>1. CASE k = 0
      <4>1. <<b[1]>> \in Seq(S)
        BY <1>1, <1>6, <1>11
      <4>2. G[1] = Joined(<<>>, IF k + 1 \in T THEN <<b[k + 1]>> ELSE <<>>)
        <5>1. G[1] = IF 1 \in T THEN <<b[1]>> ELSE <<>>
          BY <1>1, <1>3, <1>5, <1>11
        <5>2. Joined(<<>>, <<b[1]>>) = <<b[1]>> /\ Joined(<<>>, <<>>) = <<>>
          BY <4>1, ConcatEmptySeq DEF Joined
        <5> QED
          BY <3>1, <5>1, <5>2
      <4>3. PickedUpTo(S, b, T, <<>>, k)
        BY <1>9, <3>1
      <4>4. PickedUpTo(S, b, T, G[1], k + 1)
        BY <1>1, <1>6, <1>7, <1>8, <4>2, <4>3, PickOne
      <4> QED
        BY <1>1, <3>1, <4>4, <1>11
    <3>2. CASE k # 0
      <4>1. k + 1 \in 2..n /\ k + 1 \in 1..n /\ (k + 1) - 1 = k
        BY <1>1, <3>2
      <4>2. PickedUpTo(S, b, T, G[k], k)
        BY <2>1, <3>2
      <4>3. G[k + 1] = Joined(G[k], s[k + 1])
        BY <1>5, <4>1
      <4>4. G[k + 1] = Joined(G[k], IF k + 1 \in T THEN <<b[k + 1]>> ELSE <<>>)
        BY <1>3, <4>1, <4>3
      <4>5. PickedUpTo(S, b, T, G[k + 1], k + 1)
        BY <1>1, <1>6, <1>7, <1>8, <4>2, <4>4, PickOne
      <4> QED
        BY <4>1, <4>5
    <3> QED
      BY <3>1, <3>2
  <2>2. 0 \in U
    OBVIOUS
  <2> HIDE DEF U
  <2>3. 0..n \subseteq U
    BY <1>1, <2>1, <2>2, UpTo
  <2>4. n \in 0..n
    BY <1>1
  <2>5. PickedUpTo(S, b, T, G[n], n)
    BY <1>11, <2>3, <2>4 DEF U
  <2> QED
    BY <1>1, <1>2, <1>5, <1>11, <2>5
<1> QED
  BY <1>10, <1>11

-----------------------------------------------------------------------------
(* Epochs and their satellites                                              *)

\* A week is two halves.
LEMMA WeekParts == SecondsOfWeek \in Nat /\ HalfWeek \in Nat /\ SecondsOfWeek = 2 * HalfWeek
BY SMT DEF SecondsOfWeek, HalfWeek

Epochs == RoverEpochs \union BaseEpochs

\* What is assumed of an epoch
LEMMA EpochTypes ==
    ASSUME NEW e, e \in Epochs
    PROVE  /\ e.week \in Int /\ e.t \in Int /\ e.sats \in Seq(Observed)
           /\ Len(e.sats) <= MaxSat
           /\ \A i, j \in DOMAIN e.sats : e.sats[i].id = e.sats[j].id => i = j
           /\ \A i \in DOMAIN e.sats :
                /\ e.sats[i].id \in Satellites
                /\ \A l \in Band : e.sats[i].obs[l].R \in Int /\ e.sats[i].obs[l].L \in Int
<1>1. e \in [week : Int, t : Int, sats : Seq(Observed)]
  BY EpochsAssumption DEF Epochs
<1>2. Len(e.sats) <= MaxSat /\ \A i, j \in DOMAIN e.sats : e.sats[i].id = e.sats[j].id => i = j
  BY EpochsAssumption DEF Epochs
<1>3. e.sats \in Seq(Observed)
  BY <1>1
<1>4. \A i \in DOMAIN e.sats : e.sats[i] \in Observed
  BY <1>3
<1> QED
  BY <1>1, <1>2, <1>3, <1>4 DEF Observed

\* A satellite is at one place of an epoch.
LEMMA AtItsSlot ==
    ASSUME NEW e, e \in Epochs, NEW i \in DOMAIN e.sats
    PROVE  /\ Slot(e, e.sats[i].id) = i
           /\ Seen(e, e.sats[i].id) = e.sats[i].obs
<1>1. \A j \in DOMAIN e.sats : e.sats[j].id = e.sats[i].id => j = i
  BY EpochTypes
<1>2. Slot(e, e.sats[i].id) = i
  BY <1>1 DEF Slot
<1>3. \A s \in Range(e.sats) : s.id = e.sats[i].id => s = e.sats[i]
  <2>1. ASSUME NEW s \in Range(e.sats), s.id = e.sats[i].id PROVE s = e.sats[i]
    <3>1. PICK j \in DOMAIN e.sats : s = e.sats[j]
      BY <2>1 DEF Range
    <3> QED
      BY <1>1, <2>1, <3>1
  <2> QED
    BY <2>1
<1>4. e.sats[i] \in Range(e.sats)
  BY DEF Range
<1>5. PICK x : x = CHOOSE s \in Range(e.sats) : s.id = e.sats[i].id
  OBVIOUS
<1>6. x \in Range(e.sats) /\ x.id = e.sats[i].id
  BY <1>4, <1>5, Zenon
<1>7. x = e.sats[i]
  BY <1>3, <1>6
<1> QED
  BY <1>2, <1>5, <1>7 DEF Seen

\* The satellites an epoch names
LEMMA IdAt ==
    ASSUME NEW e, e \in Epochs, NEW id, id \in Ids(e)
    PROVE  \E i \in DOMAIN e.sats : e.sats[i].id = id /\ Slot(e, id) = i /\ Seen(e, id) = e.sats[i].obs
<1>1. PICK i \in DOMAIN e.sats : e.sats[i].id = id
  BY DEF Ids
<1> QED
  BY <1>1, AtItsSlot

\* Just the satellites of both epochs that are above the horizon, once each
BothOf(b, r, up) == Ids(b) \cap Ids(r) \cap up

IsCommon(c, b, r, up) ==
    /\ c \in Seq(Observed) /\ Len(c) <= MaxSat
    /\ \A j \in 1..Len(c) : \E i \in DOMAIN b.sats : c[j] = b.sats[i] /\ c[j].id \in BothOf(b, r, up)
    /\ \A id \in BothOf(b, r, up) : \E j \in 1..Len(c) : c[j].id = id
    /\ \A i, j \in 1..Len(c) : c[i].id = c[j].id => i = j

\* Those are the satellites of M919.
LEMMA CommonIs ==
    ASSUME NEW b, b \in Epochs, NEW r, NEW up
    PROVE  IsCommon(Common(b, r, up), b, r, up)
<1>1. /\ b.sats \in Seq(Observed) /\ Len(b.sats) <= MaxSat /\ DOMAIN b.sats = 1..Len(b.sats)
      /\ Len(b.sats) \in Nat
      /\ \A i, j \in DOMAIN b.sats : b.sats[i].id = b.sats[j].id => i = j
  BY EpochTypes
<1>2. PICK T : T = {i \in DOMAIN b.sats : b.sats[i].id \in Ids(r) \cap up}
  OBVIOUS
<1>3. Common(b, r, up) = FlattenSeq(Pieces(b.sats, T))
  <2>1. Pieces(b.sats, T) = [i \in DOMAIN b.sats |->
                                IF b.sats[i].id \in Ids(r) \cap up THEN <<b.sats[i]>> ELSE <<>>]
    BY <1>2 DEF Pieces
  <2> QED
    BY <2>1, Zenon DEF Common
<1>4. PICK c : c = Common(b, r, up)
  OBVIOUS
<1>5. PickedUpTo(Observed, b.sats, T, FlattenSeq(Pieces(b.sats, T)), Len(b.sats))
  <2>1. T \in SUBSET DOMAIN b.sats
    BY <1>2
  <2> QED
    BY <1>1, <2>1, Picked, Zenon
<1>6. PickedUpTo(Observed, b.sats, T, c, Len(b.sats))
  BY <1>3, <1>4, <1>5, Zenon
<1>7. ASSUME NEW i \in T
      PROVE  i \in DOMAIN b.sats /\ b.sats[i].id \in BothOf(b, r, up) /\ i <= Len(b.sats)
  BY <1>1, <1>2 DEF BothOf, Ids
<1>8. ASSUME NEW id \in BothOf(b, r, up) PROVE \E i \in T : b.sats[i].id = id
  BY <1>2 DEF BothOf, Ids
<1>9. c \in Seq(Observed) /\ Len(c) <= Len(b.sats)
  BY <1>6, Zenon DEF PickedUpTo
<1>10. Len(c) <= MaxSat
  BY <1>1, <1>9, BoundsAssumption
<1>11. \A j \in 1..Len(c) : \E i \in DOMAIN b.sats : c[j] = b.sats[i] /\ c[j].id \in BothOf(b, r, up)
  <2>1. \A j \in 1..Len(c) : \E i \in T : c[j] = b.sats[i]
    BY <1>6, Zenon DEF PickedUpTo
  <2> QED
    BY <1>7, <2>1, Zenon
<1>12. \A id \in BothOf(b, r, up) : \E j \in 1..Len(c) : c[j].id = id
  <2> SUFFICES ASSUME NEW id \in BothOf(b, r, up) PROVE \E j \in 1..Len(c) : c[j].id = id
    OBVIOUS
  <2>1. PICK i \in T : b.sats[i].id = id
    BY <1>8, Zenon
  <2>2. i <= Len(b.sats)
    BY <1>7, Zenon
  <2>3. PICK j \in 1..Len(c) : c[j] = b.sats[i]
    BY <1>6, <2>2, Zenon DEF PickedUpTo
  <2> QED
    BY <2>1, <2>3, Zenon
<1>13. \A i, j \in 1..Len(c) : c[i].id = c[j].id => i = j
  BY <1>6, Zenon DEF PickedUpTo
<1> QED
  BY <1>4, <1>9, <1>10, <1>11, <1>12, <1>13 DEF IsCommon

-----------------------------------------------------------------------------
(* The whole cycles taken off a difference                                  *)

Limit(w) == -CycleLimit * w..CycleLimit * w

\* The conversion to int leaves less than a cycle.
LEMMA CutLeaves ==
    ASSUME NEW x, x \in Int, NEW w, w \in Nat \ {0}
    PROVE  Cut0(x, w) \in Int /\ x - Cut0(x, w) * w \in -(w - 1)..(w - 1)
<1>1. ASSUME NEW y \in Nat PROVE y \div w \in Nat /\ y - (y \div w) * w \in 0..(w - 1)
  OBVIOUS
<1>2. CASE x >= 0
  BY <1>1, <1>2 DEF Cut0
<1>3. CASE ~(x >= 0)
  <2>1. PICK y, q : y = -x /\ q = y \div w /\ y \in Nat /\ q \in Nat /\ y - q * w \in 0..(w - 1)
    BY <1>1, <1>3
  <2>2. Cut0(x, w) = -q
    BY <1>3, <2>1 DEF Cut0
  <2>3. (-q) * w = -(q * w) /\ q * w \in Int
    BY <2>1
  <2> QED
    BY <2>1, <2>2, <2>3
<1> QED
  BY <1>2, <1>3

\* What is left is within the limit, and the cycles remain while they keep it there.
LEMMA CyclesTaken ==
    ASSUME NEW n, n \in Int, NEW x, x \in Int, NEW w, w \in Nat \ {0}
    PROVE  /\ CycleOf(n, x, w) \in Int
           /\ x - CycleOf(n, x, w) * w \in Limit(w)
           /\ n # 0 /\ x - n * w \in Limit(w) => CycleOf(n, x, w) = n
<1>1. n # 0 /\ x - n * w \in Limit(w) => CycleOf(n, x, w) = n
  BY DEF CycleOf, Within, Limit
<1>2. CASE n # 0 /\ x - n * w \in Limit(w)
  BY <1>1, <1>2
<1>3. CASE ~(n # 0 /\ x - n * w \in Limit(w))
  <2>1. CycleOf(n, x, w) = Cut0(x, w)
    BY <1>3 DEF CycleOf, Within, Limit
  <2>2. PICK rest : rest = x - Cut0(x, w) * w
    OBVIOUS
  <2>3. rest \in -(w - 1)..(w - 1) /\ Cut0(x, w) \in Int
    BY <2>2, CutLeaves
  <2>4. CycleLimit * w \in Nat /\ CycleLimit * w >= w /\ -CycleLimit * w = -(CycleLimit * w)
    BY BoundsAssumption
  <2>5. rest \in Limit(w)
    BY <2>3, <2>4 DEF Limit
  <2> QED
    BY <1>3, <2>1, <2>2, <2>3, <2>5
<1> QED
  BY <1>2, <1>3

-----------------------------------------------------------------------------
(* What is kept from epoch to epoch                                         *)

Kept ==
    /\ cycle \in [Satellites -> [Band -> Int]]
    /\ wave \in [Satellites -> [Band -> Nat \ {0}]]
    /\ current \in [week : Int, second : TimeOfWeek]
    /\ base = None \/ \E e \in BaseEpochs : base = <<e>>

\* How much more cycles the carriers of base and rover differ by, of satellite id and band l
ExcessOf(b, r, id, l) == Excess(b.sats[Slot(b, id)].obs[l], r.sats[Slot(r, id)].obs[l], wave[id][l])

Both(b, r, id, l) == Measured(b.sats[Slot(b, id)].obs[l], r.sats[Slot(r, id)].obs[l])

\* What two epochs differ by is an integer, and a wavelength is none of 0.
LEMMA ExcessTypes ==
    ASSUME NEW b, b \in Epochs, NEW r, r \in Epochs, NEW id, id \in Ids(b), id \in Ids(r),
           NEW l \in Band, Kept
    PROVE  ExcessOf(b, r, id, l) \in Int /\ id \in Satellites /\ wave[id][l] \in Nat \ {0}
<1>1. PICK i \in DOMAIN b.sats : b.sats[i].id = id /\ Slot(b, id) = i
  BY IdAt
<1>2. PICK j \in DOMAIN r.sats : r.sats[j].id = id /\ Slot(r, id) = j
  BY IdAt
<1>3. /\ id \in Satellites
      /\ b.sats[i].obs[l].R \in Int /\ b.sats[i].obs[l].L \in Int
      /\ r.sats[j].obs[l].R \in Int /\ r.sats[j].obs[l].L \in Int
  BY <1>1, <1>2, EpochTypes
<1>4. wave[id][l] \in Nat \ {0}
  BY <1>3 DEF Kept
<1> QED
  BY <1>1, <1>2, <1>3, <1>4 DEF ExcessOf, Excess

\* The entry of a satellite in a band
EntryOf(b, r, id, l) ==
    IF Both(b, r, id, l)
    THEN [used |-> TRUE,
          pr |-> b.sats[Slot(b, id)].obs[l].R - r.sats[Slot(r, id)].obs[l].R,
          cp |-> ExcessOf(b, r, id, l)
                   - CycleOf(cycle[id][l], ExcessOf(b, r, id, l), wave[id][l]) * wave[id][l],
          w |-> wave[id][l]]
    ELSE Unmeasured

\* M919 of the satellites c
M919Of(b, r, c) ==
    [week |-> GetSinglePosition(r), t |-> r.t,
     sats |-> [i \in 1..Len(c) |-> [PRN |-> c[i].id, Lx |-> [l \in Band |-> EntryOf(b, r, c[i].id, l)]]]]

\* The lesser of a number and one that is not less
LEMMA MinOf ==
    ASSUME NEW m \in Int, NEW n \in Int, m <= n
    PROVE  Min({m, n}) = m
<1>1. PICK x : x = Min({m, n})
  OBVIOUS
<1>2. x = CHOOSE y \in {m, n} : \A z \in {m, n} : y <= z
  BY <1>1, Zenon DEF Min
<1>3. m \in {m, n} /\ \A z \in {m, n} : m <= z
  OBVIOUS
<1>4. x \in {m, n} /\ \A z \in {m, n} : x <= z
  BY <1>2, <1>3, Zenon
<1> QED
  BY <1>1, <1>4

\* The entry of a satellite is that of its places in both epochs.
LEMMA EntryIs ==
    ASSUME NEW b, b \in Epochs, NEW r, NEW k \in DOMAIN b.sats, NEW l \in Band
    PROVE  Differenced(b.sats[k].obs[l], RoverOf(r, b, b.sats[k].id)[l], b.sats[k].id, l)
             = EntryOf(b, r, b.sats[k].id, l)
<1>1. PICK id : id = b.sats[k].id
  OBVIOUS
<1>2. Slot(b, id) = k
  BY <1>1, AtItsSlot
<1> QED
  BY <1>1, <1>2, Zenon DEF Differenced, EntryOf, RoverOf, ExcessOf, Both

\* CreateM919TotalInfor gives M919 of the common satellites.
LEMMA M919Is ==
    ASSUME NEW b, b \in Epochs, NEW r, NEW up
    PROVE  CreateM919TotalInfor(b, r, up) =
             IF r.t \notin TimeOfWeek THEN None ELSE <<M919Of(b, r, Common(b, r, up))>>
<1>1. PICK c : c = Common(b, r, up)
  OBVIOUS
<1>2. IsCommon(c, b, r, up)
  BY <1>1, CommonIs
<1>3. Len(c) \in Nat /\ Len(c) <= MaxSat
  BY <1>2 DEF IsCommon
<1>4. Min({Len(c), MaxSat}) = Len(c)
  BY <1>3, BoundsAssumption, MinOf
<1> DEFINE Entry(s) == [PRN |-> s.id,
                        Lx |-> [l \in Band |-> Differenced(s.obs[l], RoverOf(r, b, s.id)[l], s.id, l)]]
           Of(id) == [PRN |-> id, Lx |-> [l \in Band |-> EntryOf(b, r, id, l)]]
<1>5. ASSUME NEW i \in 1..Len(c) PROVE Entry(c[i]) = Of(c[i].id)
  <2>1. PICK k \in DOMAIN b.sats : c[i] = b.sats[k]
    BY <1>2 DEF IsCommon
  <2>2. \A l \in Band : Differenced(c[i].obs[l], RoverOf(r, b, c[i].id)[l], c[i].id, l)
                         = EntryOf(b, r, c[i].id, l)
    BY <2>1, EntryIs, Zenon
  <2> QED
    BY <2>2, Zenon
<1>6. [i \in 1..Min({Len(c), MaxSat}) |-> Entry(c[i])] = [i \in 1..Len(c) |-> Of(c[i].id)]
  <2> HIDE DEF Entry, Of
  <2> QED
    BY <1>4, <1>5, Zenon
<1>7. CreateM919TotalInfor(b, r, up) =
        IF r.t \notin TimeOfWeek THEN None
        ELSE <<[week |-> GetSinglePosition(r), t |-> r.t,
                sats |-> [i \in 1..Min({Len(c), MaxSat}) |-> Entry(c[i])]]>>
  BY <1>1, Zenon DEF CreateM919TotalInfor
<1> QED
  BY <1>1, <1>6, <1>7, Zenon DEF M919Of

-----------------------------------------------------------------------------
(* What SendEpochToQRtk does                                                *)

\* Both epochs have the satellite, above the horizon, and its code and carrier in the band.
Given(b, r, up, id, l) == id \in BothOf(b, r, up) /\ Both(b, r, id, l)

\* The places of M919 where a satellite has a difference in a band
Places(m, id, l) == {i \in DOMAIN m.sats : m.sats[i].PRN = id /\ m.sats[i].Lx[l].used}

\* The greatest of one
LEMMA MaxOfOne ==
    ASSUME NEW m \in Int
    PROVE  Max({m}) = m
<1>1. Max({m}) = CHOOSE y \in {m} : \A z \in {m} : y >= z
  BY Zenon DEF Max
<1>2. m \in {m} /\ \A z \in {m} : m >= z
  OBVIOUS
<1>3. PICK x : x = Max({m})
  OBVIOUS
<1>4. x \in {m}
  BY <1>1, <1>2, <1>3, Zenon
<1> QED
  BY <1>3, <1>4

\* A satellite has one entry if it is common, and none if not.
PlacedIn(m, b, r, up, id, l) ==
    /\ Given(b, r, up, id, l) =>
         Places(m, id, l) # {} /\ m.sats[Max(Places(m, id, l))].Lx[l] = EntryOf(b, r, id, l)
    /\ ~Given(b, r, up, id, l) => Places(m, id, l) = {}

\* M919 has the entry of a satellite and band just where both epochs have it.
LEMMA PlacesAre ==
    ASSUME NEW b, b \in Epochs, NEW r, NEW up, NEW c, IsCommon(c, b, r, up),
           NEW id, NEW l \in Band, NEW m, m = M919Of(b, r, c)
    PROVE  PlacedIn(m, b, r, up, id, l)
<1>1. /\ Len(c) \in Nat /\ DOMAIN m.sats = 1..Len(c)
      /\ \A i \in 1..Len(c) : m.sats[i].PRN = c[i].id /\ m.sats[i].Lx[l] = EntryOf(b, r, c[i].id, l)
  <2>1. Len(c) \in Nat
    BY DEF IsCommon
  <2>2. m.sats = [i \in 1..Len(c) |-> [PRN |-> c[i].id, Lx |-> [k \in Band |-> EntryOf(b, r, c[i].id, k)]]]
    BY Zenon DEF M919Of
  <2> QED
    BY <2>1, <2>2
<1>2. EntryOf(b, r, id, l).used <=> Both(b, r, id, l)
  BY DEF EntryOf, Unmeasured
<1>3. ASSUME NEW i \in Places(m, id, l)
      PROVE  i \in 1..Len(c) /\ c[i].id = id /\ Given(b, r, up, id, l)
  <2>1. i \in 1..Len(c) /\ c[i].id = id /\ EntryOf(b, r, id, l).used
    BY <1>1, Zenon DEF Places
  <2>2. id \in BothOf(b, r, up)
    BY <2>1 DEF IsCommon
  <2> QED
    BY <1>2, <2>1, <2>2 DEF Given
<1>4. CASE ~Given(b, r, up, id, l)
  BY <1>3, <1>4 DEF PlacedIn
<1>5. CASE Given(b, r, up, id, l)
  <2>1. PICK j \in 1..Len(c) : c[j].id = id
    BY <1>5 DEF Given, IsCommon
  <2>2. j \in Places(m, id, l)
    BY <1>1, <1>2, <1>5, <2>1 DEF Places, Given
  <2>3. \A i \in Places(m, id, l) : i = j
    BY <1>3, <2>1 DEF IsCommon
  <2>4. Places(m, id, l) = {j}
    BY <2>2, <2>3
  <2>5. Max(Places(m, id, l)) = j
    BY <2>4, MaxOfOne
  <2> QED
    BY <1>1, <1>5, <2>1, <2>2, <2>5 DEF PlacedIn
<1> QED
  BY <1>4, <1>5

\* The cycles that are remembered of a satellite and band
CountedOf(b, r, up, id, l) ==
    IF Given(b, r, up, id, l) THEN CycleOf(cycle[id][l], ExcessOf(b, r, id, l), wave[id][l])
    ELSE cycle[id][l]

\* The cycles remembered, satellite by satellite and band by band.
LEMMA CountedIs ==
    ASSUME NEW b, NEW r, NEW up
    PROVE  CountedCycles(b, r, up) = [id \in Satellites |-> [l \in Band |-> CountedOf(b, r, up, id, l)]]
<1> DEFINE C(id, l) ==
        IF id \notin Ids(b) \cap Ids(r) \cap up THEN cycle[id][l]
        ELSE LET p == b.sats[Slot(b, id)].obs[l]
                 q == RoverOf(r, b, id)[l]
                 w == wave[id][l]
             IN  IF Measured(p, q) THEN CycleOf(cycle[id][l], Excess(p, q, w), w) ELSE cycle[id][l]
<1>1. ASSUME NEW id, NEW l PROVE C(id, l) = CountedOf(b, r, up, id, l)
  BY Zenon DEF CountedOf, Given, Both, BothOf, ExcessOf, RoverOf
<1>2. CountedCycles(b, r, up) = [id \in Satellites |-> [l \in Band |-> C(id, l)]]
  BY Zenon DEF CountedCycles
<1> HIDE DEF C
<1>3. \A id \in Satellites : [l \in Band |-> C(id, l)] = [l \in Band |-> CountedOf(b, r, up, id, l)]
  BY <1>1, Zenon
<1> QED
  BY <1>2, <1>3, Zenon

\* The last difference of a satellite and band
SentOf(b, r, up, id, l) ==
    IF Given(b, r, up, id, l)
    THEN [x |-> ExcessOf(b, r, id, l), w |-> wave[id][l],
          cp |-> ExcessOf(b, r, id, l)
                   - CycleOf(cycle[id][l], ExcessOf(b, r, id, l), wave[id][l]) * wave[id][l]]
    ELSE sent[id][l]

\* What PushRover does to what is kept and given
RoverDone(b, r, up) ==
    /\ rover' = <<[epoch |-> r, base |-> b, up |-> up, current |-> current]>>
    /\ r.t \notin TimeOfWeek => info' = None /\ cycle' = cycle /\ sent' = sent
    /\ r.t \in TimeOfWeek =>
         /\ info' = <<M919Of(b, r, Common(b, r, up))>>
         /\ cycle' = [id \in Satellites |-> [l \in Band |-> CountedOf(b, r, up, id, l)]]
         /\ sent' = [id \in Satellites |-> [l \in Band |-> SentOf(b, r, up, id, l)]]

\* A rover epoch in its week makes one message, of what both epochs have.
LEMMA RoverDoes ==
    ASSUME NEW r, r \in Epochs, NEW up, NEW b, b \in Epochs, base = <<b>>, PushRover(r, up)
    PROVE  RoverDone(b, r, up)
<1>1. base[1] = b
  OBVIOUS
<1>2. info' = CreateM919TotalInfor(b, r, up)
  BY <1>1, Zenon DEF PushRover, SendEpochToQRtk
<1>3. cycle' = IF info' = None THEN cycle ELSE CountedCycles(b, r, up)
  BY <1>1, Zenon DEF PushRover, SendEpochToQRtk
<1>4. rover' = <<[epoch |-> r, base |-> b, up |-> up, current |-> current]>>
  BY <1>1, Zenon DEF PushRover
<1>5. sent' = IF info' = None THEN sent
              ELSE [id \in Satellites |-> [l \in Band |->
                      IF Places(info'[1], id, l) = {} THEN sent[id][l]
                      ELSE [x |-> ExcessOf(b, r, id, l), w |-> wave[id][l],
                            cp |-> info'[1].sats[Max(Places(info'[1], id, l))].Lx[l].cp]]]
  BY <1>1, Zenon DEF PushRover, Places, ExcessOf
<1>6. info' = IF r.t \notin TimeOfWeek THEN None ELSE <<M919Of(b, r, Common(b, r, up))>>
  BY <1>2, M919Is, Zenon
<1>7. CASE r.t \notin TimeOfWeek
  BY <1>3, <1>4, <1>5, <1>6, <1>7, Zenon DEF RoverDone
<1>8. CASE r.t \in TimeOfWeek
  <2>1. PICK c, m : c = Common(b, r, up) /\ m = M919Of(b, r, c)
    OBVIOUS
  <2>2. info' = <<m>> /\ info'[1] = m /\ info' # None
    <3>1. info' = <<m>>
      BY <1>6, <1>8, <2>1, Zenon
    <3> QED
      BY <3>1 DEF None
  <2>3. IsCommon(c, b, r, up)
    BY <2>1, CommonIs, Zenon
  <2>4. ASSUME NEW id, NEW l \in Band
        PROVE  (IF Places(m, id, l) = {} THEN sent[id][l]
                ELSE [x |-> ExcessOf(b, r, id, l), w |-> wave[id][l],
                      cp |-> m.sats[Max(Places(m, id, l))].Lx[l].cp])
                 = SentOf(b, r, up, id, l)
    <3>0. PlacedIn(m, b, r, up, id, l)
      BY <2>1, <2>3, PlacesAre, Zenon
    <3>1. CASE Given(b, r, up, id, l)
      <4>1. Places(m, id, l) # {} /\ m.sats[Max(Places(m, id, l))].Lx[l] = EntryOf(b, r, id, l)
        BY <3>0, <3>1, Zenon DEF PlacedIn
      <4>2. EntryOf(b, r, id, l).cp = ExcessOf(b, r, id, l)
              - CycleOf(cycle[id][l], ExcessOf(b, r, id, l), wave[id][l]) * wave[id][l]
        <5>1. Both(b, r, id, l)
          BY <3>1 DEF Given
        <5> QED
          BY <5>1 DEF EntryOf
      <4> QED
        BY <3>1, <4>1, <4>2, Zenon DEF SentOf
    <3>2. CASE ~Given(b, r, up, id, l)
      <4>1. Places(m, id, l) = {}
        BY <3>0, <3>2, Zenon DEF PlacedIn
      <4> QED
        BY <3>2, <4>1, Zenon DEF SentOf
    <3> QED
      BY <3>1, <3>2
  <2>5. sent' = [id \in Satellites |-> [l \in Band |-> SentOf(b, r, up, id, l)]]
    <3> DEFINE D(id, l) == IF Places(m, id, l) = {} THEN sent[id][l]
                           ELSE [x |-> ExcessOf(b, r, id, l), w |-> wave[id][l],
                                 cp |-> m.sats[Max(Places(m, id, l))].Lx[l].cp]
    <3>1. sent' = [id \in Satellites |-> [l \in Band |-> D(id, l)]]
      BY <1>5, <2>2, Zenon
    <3>2. \A id \in Satellites, l \in Band : D(id, l) = SentOf(b, r, up, id, l)
      BY <2>4, Zenon
    <3> HIDE DEF D
    <3>3. \A id \in Satellites : [l \in Band |-> D(id, l)] = [l \in Band |-> SentOf(b, r, up, id, l)]
      BY <3>2, Zenon
    <3> QED
      BY <3>1, <3>3, Zenon
  <2>6. cycle' = [id \in Satellites |-> [l \in Band |-> CountedOf(b, r, up, id, l)]]
    BY <1>3, <2>2, CountedIs, Zenon
  <2> QED
    BY <1>4, <1>8, <2>1, <2>2, <2>5, <2>6, Zenon DEF RoverDone
<1> QED
  BY <1>7, <1>8

-----------------------------------------------------------------------------
(* What is remembered of a difference                                       *)

\* NCycle has what was taken off the last difference of a satellite and band, which is within
\* the limit.
RememberedOf(id, l) ==
    LET s == sent[id][l]
    IN  s # None => /\ s.x \in Int /\ s.w \in Nat \ {0}
                    /\ s.cp = s.x - cycle[id][l] * s.w
                    /\ s.cp \in Limit(s.w)

Remembered == \A id \in Satellites, l \in Band : RememberedOf(id, l)

\* The engine begins with an empty memory, which is well kept.
LEMMA KeptInit == Init => Kept
<1> SUFFICES ASSUME Init PROVE Kept
  OBVIOUS
<1>1. cycle \in [Satellites -> [Band -> Int]]
  BY SatellitesAssumption DEF Init
<1>2. wave \in [Satellites -> [Band -> Nat \ {0}]]
  <2>1. ASSUME NEW id \in Satellites
        PROVE  SignalWave[IF id \in Numbers.BDS THEN "BDS" ELSE "GPS"] \in [Band -> Nat \ {0}]
    BY WavesAssumption, Zenon
  <2> QED
    BY <2>1, Zenon DEF Init, InitWaveLength
<1>3. current \in [week : Int, second : TimeOfWeek]
  <2>1. 0 \in TimeOfWeek
    BY WeekParts DEF TimeOfWeek
  <2>2. current = [week |-> 0, second |-> 0]
    BY Zenon DEF Init
  <2> QED
    BY <2>1, <2>2
<1> QED
  BY <1>1, <1>2, <1>3, Zenon DEF Init, Kept

\* At the beginning nothing was sent.
LEMMA RememberedInit == Init => Remembered
BY DEF Init, Remembered, RememberedOf

\* The base is one that came.
LEMMA BaseIs ==
    ASSUME Kept, base # None
    PROVE  \E b \in BaseEpochs : base = <<b>> /\ b \in Epochs
BY DEF Kept, Epochs

\* A base epoch keeps the types of the memory.
LEMMA PushBaseKept ==
    ASSUME Kept, NEW e \in BaseEpochs, PushBase(e)
    PROVE  Kept'
BY Zenon DEF Kept, PushBase

\* The time of an ephemeris does.
LEMMA EphemerisKept ==
    ASSUME Kept, NEW w \in Weeks, SendEphemerisToQRtk(w)
    PROVE  Kept'
BY WeeksAssumption, Zenon DEF Kept, SendEphemerisToQRtk

\* The channel of a GLONASS satellite gives it a wavelength that is none of 0.
LEMMA GloEphemKept ==
    ASSUME Kept, NEW id \in Satellites, NEW c \in Channels, SendGloEphemToQRtk(id, c)
    PROVE  Kept'
<1>1. wave' \in [Satellites -> [Band -> Nat \ {0}]]
  <2>1. CASE c > 20
    BY <2>1 DEF Kept, SendGloEphemToQRtk
  <2>2. CASE ~(c > 20)
    <3>1. wave' = [wave EXCEPT ![id] = GloWave[c]]
      BY <2>2 DEF SendGloEphemToQRtk
    <3>2. GloWave[c] \in [Band -> Nat \ {0}]
      BY <2>2, WavesAssumption
    <3> QED
      BY <3>1, <3>2 DEF Kept
  <2> QED
    BY <2>1, <2>2
<1> QED
  BY <1>1, Zenon DEF Kept, SendGloEphemToQRtk

\* A rover epoch keeps the types of the memory.
LEMMA RoverKept ==
    ASSUME Kept, NEW r \in RoverEpochs, NEW up, PushRover(r, up)
    PROVE  Kept'
<1>1. PICK b \in BaseEpochs : base = <<b>> /\ b \in Epochs
  BY BaseIs DEF PushRover
<1>2. r \in Epochs
  BY DEF Epochs
<1>3. RoverDone(b, r, up)
  BY <1>1, <1>2, RoverDoes, Zenon
<1>4. cycle' \in [Satellites -> [Band -> Int]]
  <2>1. CASE r.t \notin TimeOfWeek
    BY <1>3, <2>1, Zenon DEF RoverDone, Kept
  <2>2. CASE r.t \in TimeOfWeek
    <3>1. ASSUME NEW id \in Satellites, NEW l \in Band PROVE CountedOf(b, r, up, id, l) \in Int
      <4>1. cycle[id][l] \in Int
        BY DEF Kept
      <4>2. CASE Given(b, r, up, id, l)
        <5>1. id \in Ids(b) /\ id \in Ids(r)
          BY <4>2 DEF Given, BothOf
        <5>2. ExcessOf(b, r, id, l) \in Int /\ wave[id][l] \in Nat \ {0}
          BY <1>1, <1>2, <5>1, ExcessTypes
        <5>3. CycleOf(cycle[id][l], ExcessOf(b, r, id, l), wave[id][l]) \in Int
          BY <4>1, <5>2, CyclesTaken
        <5> QED
          BY <4>2, <5>3 DEF CountedOf
      <4> QED
        BY <4>1, <4>2 DEF CountedOf
    <3>2. cycle' = [id \in Satellites |-> [l \in Band |-> CountedOf(b, r, up, id, l)]]
      BY <1>3, <2>2, Zenon DEF RoverDone
    <3> QED
      BY <3>1, <3>2, Zenon
  <2> QED
    BY <2>1, <2>2
<1> QED
  BY <1>4, Zenon DEF Kept, PushRover

\* Kept is inductive.
LEMMA KeptNext == Kept /\ [Next]_vars => Kept'
<1> SUFFICES ASSUME Kept, [Next]_vars PROVE Kept'
  OBVIOUS
<1>1. ASSUME NEW e \in BaseEpochs, PushBase(e) PROVE Kept'
  BY <1>1, PushBaseKept
<1>2. ASSUME NEW w \in Weeks, SendEphemerisToQRtk(w) PROVE Kept'
  BY <1>2, EphemerisKept
<1>3. ASSUME NEW id \in Satellites \cap Numbers.GLO, NEW c \in Channels, SendGloEphemToQRtk(id, c)
      PROVE  Kept'
  BY <1>3, GloEphemKept
<1>4. ASSUME NEW r \in RoverEpochs, NEW up \in Horizons, PushRover(r, up) PROVE Kept'
  BY <1>4, RoverKept
<1>5. CASE UNCHANGED vars
  BY <1>5, Zenon DEF Kept, vars, memory
<1> QED
  BY <1>1, <1>2, <1>3, <1>4, <1>5, Zenon DEF Next

\* What a difference comes to, with what is remembered then
DifferenceTaken(id, l) ==
    \E x \in Int, w \in Nat \ {0} :
        /\ sent'[id][l] = [x |-> x, w |-> w, cp |-> x - CycleOf(cycle[id][l], x, w) * w]
        /\ cycle'[id][l] = CycleOf(cycle[id][l], x, w)

NothingTaken(id, l) == sent'[id][l] = sent[id][l] /\ cycle'[id][l] = cycle[id][l]

\* A rover epoch brings a satellite and band another difference, or leaves them as they are.
LEMMA RoverTakes ==
    ASSUME Kept, NEW r \in RoverEpochs, NEW up, PushRover(r, up), NEW id \in Satellites, NEW l \in Band
    PROVE  DifferenceTaken(id, l) \/ NothingTaken(id, l)
<1>1. PICK b \in BaseEpochs : base = <<b>> /\ b \in Epochs
  BY BaseIs DEF PushRover
<1>2. r \in Epochs
  BY DEF Epochs
<1>3. RoverDone(b, r, up)
  BY <1>1, <1>2, RoverDoes, Zenon
<1>4. CASE r.t \notin TimeOfWeek
  BY <1>3, <1>4, Zenon DEF RoverDone, NothingTaken
<1>5. CASE r.t \in TimeOfWeek
  <2>1. cycle'[id][l] = CountedOf(b, r, up, id, l) /\ sent'[id][l] = SentOf(b, r, up, id, l)
    <3>1. /\ cycle' = [i \in Satellites |-> [k \in Band |-> CountedOf(b, r, up, i, k)]]
          /\ sent' = [i \in Satellites |-> [k \in Band |-> SentOf(b, r, up, i, k)]]
      BY <1>3, <1>5, Zenon DEF RoverDone
    <3> QED
      BY <3>1
  <2>2. CASE Given(b, r, up, id, l)
    <3>1. id \in Ids(b) /\ id \in Ids(r)
      BY <2>2 DEF Given, BothOf
    <3>2. ExcessOf(b, r, id, l) \in Int /\ wave[id][l] \in Nat \ {0}
      BY <1>1, <1>2, <3>1, ExcessTypes
    <3> QED
      BY <2>1, <2>2, <3>2, Zenon DEF CountedOf, SentOf, DifferenceTaken
  <2>3. CASE ~Given(b, r, up, id, l)
    BY <2>1, <2>3, Zenon DEF CountedOf, SentOf, NothingTaken
  <2> QED
    BY <2>2, <2>3
<1> QED
  BY <1>4, <1>5

\* What else comes leaves them as they are.
LEMMA OthersTake ==
    ASSUME [Next]_vars, NEW id, NEW l, ~\E r \in RoverEpochs, up \in Horizons : PushRover(r, up)
    PROVE  NothingTaken(id, l)
<1>1. ASSUME NEW e \in BaseEpochs, PushBase(e) PROVE NothingTaken(id, l)
  BY <1>1, Zenon DEF PushBase, output, NothingTaken
<1>2. ASSUME NEW w \in Weeks, SendEphemerisToQRtk(w) PROVE NothingTaken(id, l)
  BY <1>2, Zenon DEF SendEphemerisToQRtk, output, NothingTaken
<1>3. ASSUME NEW i \in Satellites \cap Numbers.GLO, NEW c \in Channels, SendGloEphemToQRtk(i, c)
      PROVE  NothingTaken(id, l)
  BY <1>3, Zenon DEF SendGloEphemToQRtk, output, NothingTaken
<1>4. CASE UNCHANGED vars
  BY <1>4, Zenon DEF vars, memory, output, NothingTaken
<1> QED
  BY <1>1, <1>2, <1>3, <1>4, Zenon DEF Next

\* Either way NCycle still has what was taken off.
LEMMA StillRemembered ==
    ASSUME Kept, NEW id \in Satellites, NEW l \in Band,
           RememberedOf(id, l), DifferenceTaken(id, l) \/ NothingTaken(id, l)
    PROVE  RememberedOf(id, l)'
<1>1. CASE NothingTaken(id, l)
  BY <1>1, Zenon DEF NothingTaken, RememberedOf
<1>2. CASE DifferenceTaken(id, l)
  <2>1. PICK x \in Int, w \in Nat \ {0} :
          /\ sent'[id][l] = [x |-> x, w |-> w, cp |-> x - CycleOf(cycle[id][l], x, w) * w]
          /\ cycle'[id][l] = CycleOf(cycle[id][l], x, w)
    BY <1>2 DEF DifferenceTaken
  <2>2. PICK s : s = sent'[id][l]
    OBVIOUS
  <2>3. s.x = x /\ s.w = w /\ s.cp = x - CycleOf(cycle[id][l], x, w) * w
    BY <2>1, <2>2
  <2>4. cycle[id][l] \in Int
    BY DEF Kept
  <2>5. x - CycleOf(cycle[id][l], x, w) * w \in Limit(w)
    BY <2>4, CyclesTaken
  <2> QED
    BY <2>1, <2>2, <2>3, <2>5, Zenon DEF RememberedOf
<1> QED
  BY <1>1, <1>2

\* Remembered is inductive, given Kept.
LEMMA RememberedNext == Kept /\ Remembered /\ [Next]_vars => Remembered'
<1> SUFFICES ASSUME Kept, Remembered, [Next]_vars, NEW id \in Satellites, NEW l \in Band
             PROVE  RememberedOf(id, l)'
  BY Zenon DEF Remembered
<1>1. RememberedOf(id, l)
  BY DEF Remembered
<1>2. DifferenceTaken(id, l) \/ NothingTaken(id, l)
  BY RoverTakes, OthersTake
<1> QED
  BY <1>1, <1>2, StillRemembered

\* The cycles taken off remain, as CycleKept has it, of one satellite and band.
CycleKeptOf(id, l) ==
    sent'[id][l] # None =>
       LET new == sent'[id][l]
           old == sent[id][l]
       IN  /\ new.cp \in Limit(new.w)
           /\ old # None =>
                LET kept == new.x - (old.x - old.cp)
                IN  old.w = new.w /\ old.x # old.cp /\ kept \in Limit(new.w) => new.cp = kept

\* A band that is used again, or not at all, keeps its cycles as far as they fit.
LEMMA CyclesKept ==
    ASSUME Kept, NEW id \in Satellites, NEW l \in Band,
           RememberedOf(id, l), DifferenceTaken(id, l) \/ NothingTaken(id, l)
    PROVE  CycleKeptOf(id, l)
<1>1. PICK old, new : old = sent[id][l] /\ new = sent'[id][l]
  OBVIOUS
<1>2. PICK n : n = cycle[id][l] /\ n \in Int
  BY DEF Kept
<1>3. old # None => /\ old.x \in Int /\ old.w \in Nat \ {0}
                    /\ old.cp = old.x - n * old.w /\ old.cp \in Limit(old.w)
  BY <1>1, <1>2 DEF RememberedOf
<1>4. CASE NothingTaken(id, l)
  <2>1. new = old
    BY <1>1, <1>4 DEF NothingTaken
  <2>2. old # None => old.x - (old.x - old.cp) = old.cp
    <3>1. n * old.w \in Int \/ old = None
      BY <1>2, <1>3
    <3> QED
      BY <1>3, <3>1
  <2> QED
    BY <1>1, <1>3, <2>1, <2>2, Zenon DEF CycleKeptOf
<1>5. CASE DifferenceTaken(id, l)
  <2>1. PICK x \in Int, w \in Nat \ {0} : new = [x |-> x, w |-> w, cp |-> x - CycleOf(n, x, w) * w]
    BY <1>1, <1>2, <1>5 DEF DifferenceTaken
  <2>2. new.x = x /\ new.w = w /\ new.cp = x - CycleOf(n, x, w) * w
    BY <2>1
  <2>3. /\ x - CycleOf(n, x, w) * w \in Limit(w)
        /\ n # 0 /\ x - n * w \in Limit(w) => CycleOf(n, x, w) = n
    BY <1>2, CyclesTaken
  <2>4. ASSUME old # None, old.w = w, old.x # old.cp, x - (old.x - old.cp) \in Limit(w)
        PROVE  new.cp = x - (old.x - old.cp)
    <3>1. PICK taken : taken = n * w
      OBVIOUS
    <3>2. taken \in Int /\ (n = 0 => taken = 0)
      BY <1>2, <3>1
    <3>3. old.x \in Int /\ old.cp = old.x - taken
      BY <1>3, <2>4, <3>1
    <3>4. old.x - old.cp = taken /\ taken # 0
      BY <2>4, <3>2, <3>3
    <3>5. CycleOf(n, x, w) = n
      BY <2>3, <2>4, <3>1, <3>2, <3>4
    <3> QED
      BY <2>2, <3>1, <3>4, <3>5, Zenon
  <2> QED
    BY <1>1, <2>2, <2>3, <2>4, Zenon DEF CycleKeptOf
<1> QED
  BY <1>4, <1>5

\* The carrier less code of a band stays within the limit, and changes from one difference to
\* the next as what was observed, without a jump of whole cycles.
THEOREM CyclesRemain == Spec => CycleKept
<1>1. Init => Kept /\ Remembered
  BY KeptInit, RememberedInit
<1>2. Kept /\ Remembered /\ [Next]_vars => Kept' /\ Remembered'
  BY KeptNext, RememberedNext
<1> DEFINE Remains == \A id \in Satellites, l \in Band :
                        sent'[id][l] # None =>
                           LET new == sent'[id][l]
                               old == sent[id][l]
                           IN  /\ new.cp \in -CycleLimit * new.w..CycleLimit * new.w
                               /\ old # None =>
                                    LET kept == new.x - (old.x - old.cp)
                                    IN  old.w = new.w /\ old.x # old.cp
                                          /\ kept \in -CycleLimit * new.w..CycleLimit * new.w
                                          => new.cp = kept
<1>3. Kept /\ Remembered /\ [Next]_vars => Remains
  <2> SUFFICES ASSUME Kept, Remembered, [Next]_vars PROVE Remains
    OBVIOUS
  <2>1. ASSUME NEW id \in Satellites, NEW l \in Band PROVE CycleKeptOf(id, l)
    <3>1. RememberedOf(id, l)
      BY DEF Remembered
    <3>2. DifferenceTaken(id, l) \/ NothingTaken(id, l)
      BY RoverTakes, OthersTake
    <3> QED
      BY <3>1, <3>2, CyclesKept
  <2> QED
    BY <2>1, Zenon DEF CycleKeptOf, Limit
<1> HIDE DEF Remains
<1>4. Spec => [][Remains]_vars
  BY <1>1, <1>2, <1>3, PTL DEF Spec
<1> QED
  BY <1>4 DEF CycleKept, Remains

-----------------------------------------------------------------------------
(* M919 has what was observed                                               *)

\* What is right of a satellite and band
IsRight(b, r, id, l, d) ==
    LET p == Seen(b, id)[l]
        q == Seen(r, id)[l]
    IN  /\ d.used <=> 0 \notin {p.R, q.R, p.L, q.L}
        /\ d.used => /\ d.pr = p.R - q.R
                     /\ ((p.L - q.L) * d.w - d.pr - d.cp) % d.w = 0

\* A difference in M919 is that of the codes, and of the phases up to whole cycles.
LEMMA EntryRight ==
    ASSUME NEW b, b \in Epochs, NEW r, r \in Epochs, NEW id, id \in Ids(b), id \in Ids(r),
           NEW l \in Band, Kept
    PROVE  IsRight(b, r, id, l, EntryOf(b, r, id, l))
<1>1. PICK i \in DOMAIN b.sats : Slot(b, id) = i /\ b.sats[i].id = id /\ Seen(b, id) = b.sats[i].obs
  BY IdAt
<1>2. PICK j \in DOMAIN r.sats : Slot(r, id) = j /\ r.sats[j].id = id /\ Seen(r, id) = r.sats[j].obs
  BY IdAt
<1>3. PICK p, q : /\ p = b.sats[i].obs[l] /\ q = r.sats[j].obs[l]
                  /\ p.R \in Int /\ p.L \in Int /\ q.R \in Int /\ q.L \in Int
  BY EpochTypes
<1>4. id \in Satellites
  BY <1>1, EpochTypes
<1>5. PICK w, n : w = wave[id][l] /\ n = cycle[id][l] /\ w \in Nat \ {0} /\ n \in Int
  BY <1>4 DEF Kept
<1>6. Both(b, r, id, l) <=> 0 \notin {p.R, q.R, p.L, q.L}
  BY <1>1, <1>2, <1>3 DEF Both, Measured
<1>7. PICK d : d = EntryOf(b, r, id, l)
  OBVIOUS
<1>8. CASE ~Both(b, r, id, l)
  <2>1. ~d.used
    BY <1>7, <1>8 DEF EntryOf, Unmeasured
  <2> QED
    BY <1>1, <1>2, <1>3, <1>6, <1>7, <1>8, <2>1, Zenon DEF IsRight
<1>9. CASE Both(b, r, id, l)
  <2>1. PICK x, taken : x = Excess(p, q, w) /\ taken = CycleOf(n, x, w)
    OBVIOUS
  <2>2. ExcessOf(b, r, id, l) = x
    BY <1>1, <1>2, <1>3, <1>5, <2>1, Zenon DEF ExcessOf
  <2>3. d.used /\ d.pr = p.R - q.R /\ d.cp = x - taken * w /\ d.w = w
    BY <1>1, <1>2, <1>3, <1>5, <1>7, <1>9, <2>1, <2>2 DEF EntryOf
  <2>4. PICK y : y = (p.L - q.L) * w /\ y \in Int
    BY <1>3, <1>5
  <2>5. x = y - (p.R - q.R) /\ x \in Int
    <3>1. x = y - (p.R - q.R)
      BY <2>1, <2>4, Zenon DEF Excess
    <3> QED
      BY <1>3, <2>4, <3>1
  <2>6. taken \in Int
    BY <1>5, <2>1, <2>5, CyclesTaken
  <2>7. PICK z : z = taken * w /\ z \in Int /\ z % w = 0
    BY <1>5, <2>6
  <2>8. y - d.pr - d.cp = z
    <3>1. PICK e : e = p.R - q.R /\ e \in Int
      BY <1>3
    <3>2. d.pr = e /\ d.cp = x - z /\ x = y - e
      BY <2>3, <2>5, <2>7, <3>1, Zenon
    <3> QED
      BY <2>4, <2>5, <2>7, <3>1, <3>2
  <2>9. ((p.L - q.L) * d.w - d.pr - d.cp) % d.w = 0
    BY <2>3, <2>4, <2>7, <2>8
  <2> QED
    BY <1>1, <1>2, <1>3, <1>6, <1>7, <1>9, <2>3, <2>9, Zenon DEF IsRight
<1> QED
  BY <1>8, <1>9

\* The week of an epoch brings it within half a week of the last ephemeris.
LEMMA WeekNearest ==
    ASSUME NEW r, r.t \in TimeOfWeek, Kept, current.week > 1024
    PROVE  (GetSinglePosition(r) - current.week) * SecondsOfWeek + r.t - current.second \in -HalfWeek..HalfWeek
<1>1. PICK W, h, t, s, n : /\ W = SecondsOfWeek /\ h = HalfWeek /\ W = 2 * h /\ h \in Nat
                           /\ t = r.t /\ s = current.second /\ n = current.week
                           /\ t \in 0..W /\ s \in 0..W /\ n \in Int
  BY WeekParts DEF TimeOfWeek, Kept
<1>2. PICK g : g = GetSinglePosition(r)
  OBVIOUS
<1>3. ~(current.week <= 1024)
  BY <1>1
<1>4. g = n + CASE s - t > h -> 1 [] t - s > h -> -1 [] OTHER -> 0
  BY <1>1, <1>2, <1>3, Zenon DEF GetSinglePosition
<1>5. CASE s - t > h
  <2>1. g - n = 1
    BY <1>1, <1>4, <1>5
  <2> QED
    BY <1>1, <1>2, <1>5, <2>1
<1>6. CASE t - s > h
  <2>1. g - n = -1
    BY <1>1, <1>4, <1>6
  <2> QED
    BY <1>1, <1>2, <1>6, <2>1
<1>7. CASE ~(s - t > h) /\ ~(t - s > h)
  <2>1. g - n = 0
    BY <1>1, <1>4, <1>7
  <2> QED
    BY <1>1, <1>2, <1>7, <2>1
<1> QED
  BY <1>5, <1>6, <1>7

\* There are as many entries as common satellites.
LEMMA AsManyAsCommon ==
    ASSUME NEW c, NEW b, NEW r, NEW up, IsCommon(c, b, r, up)
    PROVE  Cardinality(BothOf(b, r, up)) = Len(c)
<1>1. Len(c) \in Nat
  BY DEF IsCommon
<1> DEFINE f == [i \in 1..Len(c) |-> c[i].id]
<1>2. f \in Bijection(1..Len(c), BothOf(b, r, up))
  <2>1. \A i \in 1..Len(c) : f[i] \in BothOf(b, r, up)
    BY DEF IsCommon
  <2>2. \A i, j \in 1..Len(c) : f[i] = f[j] => i = j
    BY DEF IsCommon
  <2>3. \A id \in BothOf(b, r, up) : \E i \in 1..Len(c) : f[i] = id
    BY DEF IsCommon
  <2>4. DOMAIN f = 1..Len(c) /\ f \in [1..Len(c) -> BothOf(b, r, up)]
    BY <2>1
  <2> HIDE DEF f
  <2> QED
    <3>1. f \in Injection(1..Len(c), BothOf(b, r, up)) /\ f \in Surjection(1..Len(c), BothOf(b, r, up))
      BY <2>2, <2>3, <2>4 DEF Injection, Surjection, IsInjective
    <3> QED
      BY <3>1, Zenon DEF Bijection
<1>3. ExistsBijection(1..Len(c), BothOf(b, r, up))
  BY <1>2 DEF ExistsBijection
<1> QED
  BY <1>1, <1>3, FS_CountingElements

\* What M919 has to be of a base epoch, a rover epoch and a horizon, with the time of the last
\* ephemeris
IsObserved(m, b, r, up, cur) ==
    /\ {s.PRN : s \in Range(m.sats)} = BothOf(b, r, up)
    /\ Len(m.sats) = Cardinality(BothOf(b, r, up))
    /\ \A s \in Range(m.sats), l \in Band : IsRight(b, r, s.PRN, l, s.Lx[l])
    /\ cur.week > 1024 =>
         (m.week - cur.week) * SecondsOfWeek + m.t - cur.second \in -HalfWeek..HalfWeek

\* M919 is of just the common satellites, with their differences and the week of the rover.
LEMMA M919Observed ==
    ASSUME NEW b, b \in Epochs, NEW r, r \in Epochs, NEW up, r.t \in TimeOfWeek, Kept
    PROVE  IsObserved(M919Of(b, r, Common(b, r, up)), b, r, up, current)
<1>1. PICK c, m : c = Common(b, r, up) /\ m = M919Of(b, r, c)
  OBVIOUS
<1>2. IsCommon(c, b, r, up)
  BY <1>1, CommonIs, Zenon
<1>3. Len(c) \in Nat
  BY <1>2 DEF IsCommon
<1>4. m.sats = [i \in 1..Len(c) |-> [PRN |-> c[i].id, Lx |-> [l \in Band |-> EntryOf(b, r, c[i].id, l)]]]
  BY <1>1, Zenon DEF M919Of
<1>5. /\ DOMAIN m.sats = 1..Len(c) /\ Len(m.sats) = Len(c)
      /\ \A i \in 1..Len(c) : m.sats[i].PRN = c[i].id
      /\ \A i \in 1..Len(c), l \in Band : m.sats[i].Lx[l] = EntryOf(b, r, c[i].id, l)
  BY <1>3, <1>4
<1>6. {s.PRN : s \in Range(m.sats)} = BothOf(b, r, up)
  <2>1. ASSUME NEW s \in Range(m.sats) PROVE s.PRN \in BothOf(b, r, up)
    <3>1. PICK i \in 1..Len(c) : s = m.sats[i]
      BY <1>5 DEF Range
    <3> QED
      BY <1>2, <1>5, <3>1 DEF IsCommon
  <2>2. ASSUME NEW id \in BothOf(b, r, up) PROVE \E s \in Range(m.sats) : s.PRN = id
    <3>1. PICK i \in 1..Len(c) : c[i].id = id
      BY <1>2 DEF IsCommon
    <3>2. m.sats[i] \in Range(m.sats)
      BY <1>5 DEF Range
    <3> QED
      BY <1>5, <3>1, <3>2
  <2> QED
    BY <2>1, <2>2
<1>7. Len(m.sats) = Cardinality(BothOf(b, r, up))
  BY <1>2, <1>5, AsManyAsCommon
<1>8. ASSUME NEW s \in Range(m.sats), NEW l \in Band PROVE IsRight(b, r, s.PRN, l, s.Lx[l])
  <2>1. PICK i \in 1..Len(c) : s = m.sats[i]
    BY <1>5 DEF Range
  <2>2. PICK id : id = c[i].id /\ id \in BothOf(b, r, up)
    BY <1>2 DEF IsCommon
  <2>3. s.PRN = id /\ s.Lx[l] = EntryOf(b, r, id, l)
    BY <1>5, <2>1, <2>2
  <2>4. id \in Ids(b) /\ id \in Ids(r)
    BY <2>2 DEF BothOf
  <2>5. IsRight(b, r, id, l, EntryOf(b, r, id, l))
    BY <2>4, EntryRight
  <2> QED
    BY <2>3, <2>5
<1>9. current.week > 1024 =>
        (m.week - current.week) * SecondsOfWeek + m.t - current.second \in -HalfWeek..HalfWeek
  <2>1. m.week = GetSinglePosition(r) /\ m.t = r.t
    BY <1>1 DEF M919Of
  <2> QED
    BY <2>1, WeekNearest
<1> QED
  BY <1>1, <1>6, <1>7, <1>8, <1>9, Zenon DEF IsObserved

\* The property, by the epochs that were met last
Observes ==
    info # None => LET h == rover[1] IN h.epoch.t \in TimeOfWeek =>
                       IsObserved(info[1], h.base, h.epoch, h.up, h.current)

\* Observes is inductive, given Kept.
LEMMA ObservesNext == Kept /\ Observes /\ [Next]_vars => Observes'
<1> SUFFICES ASSUME Kept, Observes, [Next]_vars PROVE Observes'
  OBVIOUS
<1>1. CASE UNCHANGED <<info, rover>>
  BY <1>1, Zenon DEF Observes
<1>2. ASSUME NEW e \in BaseEpochs, PushBase(e) PROVE UNCHANGED <<info, rover>>
  BY <1>2, Zenon DEF PushBase, output
<1>3. ASSUME NEW w \in Weeks, SendEphemerisToQRtk(w) PROVE UNCHANGED <<info, rover>>
  BY <1>3, Zenon DEF SendEphemerisToQRtk, output
<1>4. ASSUME NEW i \in Satellites \cap Numbers.GLO, NEW c \in Channels, SendGloEphemToQRtk(i, c)
      PROVE  UNCHANGED <<info, rover>>
  BY <1>4, Zenon DEF SendGloEphemToQRtk, output
<1>5. CASE UNCHANGED vars
  BY <1>1, <1>5, Zenon DEF vars, output
<1>6. ASSUME NEW r \in RoverEpochs, NEW up \in Horizons, PushRover(r, up) PROVE Observes'
  <2>1. PICK b \in BaseEpochs : base = <<b>> /\ b \in Epochs
    BY <1>6, BaseIs DEF PushRover
  <2>2. r \in Epochs
    BY DEF Epochs
  <2>3. RoverDone(b, r, up)
    BY <1>6, <2>1, <2>2, RoverDoes, Zenon
  <2>4. CASE r.t \notin TimeOfWeek
    BY <2>3, <2>4, Zenon DEF RoverDone, Observes
  <2>5. CASE r.t \in TimeOfWeek
    <3>1. PICK m : m = M919Of(b, r, Common(b, r, up))
      OBVIOUS
    <3>2. IsObserved(m, b, r, up, current)
      BY <2>1, <2>2, <2>5, <3>1, M919Observed, Zenon
    <3>3. info'[1] = m
      BY <2>3, <2>5, <3>1 DEF RoverDone
    <3>4. PICK h : h = rover'[1]
      OBVIOUS
    <3>5. h.base = b /\ h.epoch = r /\ h.up = up /\ h.current = current
      BY <2>3, <3>4 DEF RoverDone
    <3> QED
      BY <3>2, <3>3, <3>4, <3>5, Zenon DEF Observes
  <2> QED
    BY <2>4, <2>5
<1> QED
  BY <1>1, <1>2, <1>3, <1>4, <1>5, <1>6, Zenon DEF Next

\* The engine gets each satellite that both epochs have above the horizon, once, with its
\* differences, a carrier's but for whole cycles, and the epoch in the week next to the last
\* ephemeris.
THEOREM DifferencesRight == Spec => []DifferencesAsObserved
<1>1. Init => Kept /\ Observes
  BY KeptInit, Zenon DEF Init, Observes
<1>2. Kept /\ Observes /\ [Next]_vars => Kept' /\ Observes'
  BY KeptNext, ObservesNext
<1>3. Observes => DifferencesAsObserved
  BY Zenon DEF Observes, DifferencesAsObserved, IsObserved, IsRight, BothOf
<1> QED
  BY <1>1, <1>2, <1>3, PTL DEF Spec

-----------------------------------------------------------------------------
(* Row after row                                                            *)

\* Where the k-th of a row of sequences begins
RowsOf(s) == [k \in 0..Len(s) |-> IF k = 0 THEN <<>> ELSE Flat(s)[k]]

\* Up to k, each is where it begins.
PlacedUpTo(s, F, k) ==
    \A i \in 1..k : \A j \in 1..Len(s[i]) :
        Len(F[i - 1]) + j \in 1..Len(F[k]) /\ F[k][Len(F[i - 1]) + j] = s[i][j]

InARow(S, s, n, F) ==
    /\ F[0] = <<>> /\ F[n] = FlattenSeq(s)
    /\ \A k \in 0..n : F[k] \in Seq(S)
    /\ \A k \in 0..(n - 1) : Len(F[k + 1]) = Len(F[k]) + Len(s[k + 1])
    /\ PlacedUpTo(s, F, n)

\* Two sequences, one after the other
IsJoined(S, u, v, g) ==
    /\ g \in Seq(S) /\ Len(g) = Len(u) + Len(v) /\ Len(u) \in Nat /\ Len(v) \in Nat
    /\ \A j \in 1..Len(u) : j \in 1..Len(g) /\ g[j] = u[j]
    /\ \A j \in 1..Len(v) : Len(u) + j \in 1..Len(g) /\ g[Len(u) + j] = v[j]

\* Of two sequences joined, both can be read back.
LEMMA JoinedIs ==
    ASSUME NEW S, NEW u, u \in Seq(S), NEW v, v \in Seq(S)
    PROVE  IsJoined(S, u, v, Joined(u, v))
BY DEF Joined, IsJoined

\* The next in the row
NextPlaced(S, s, F, k) ==
    /\ F[k + 1] \in Seq(S) /\ Len(F[k + 1]) = Len(F[k]) + Len(s[k + 1])
    /\ PlacedUpTo(s, F, k + 1)

\* Joining one more keeps the others at their places.
LEMMA PlaceOne ==
    ASSUME NEW S, NEW s, NEW n \in Nat, NEW F, NEW k \in 0..(n - 1), s[k + 1] \in Seq(S),
           \A i \in 1..k : s[i] \in Seq(S), \A i \in 0..k : F[i] \in Seq(S),
           F[k + 1] = Joined(F[k], s[k + 1]), PlacedUpTo(s, F, k)
    PROVE  NextPlaced(S, s, F, k)
<1>1. PICK u, v, g : u = F[k] /\ v = s[k + 1] /\ g = F[k + 1] /\ u \in Seq(S) /\ v \in Seq(S)
  OBVIOUS
<1>2. /\ g \in Seq(S) /\ Len(g) = Len(u) + Len(v) /\ Len(u) \in Nat /\ Len(v) \in Nat
      /\ \A j \in 1..Len(u) : j \in 1..Len(g) /\ g[j] = u[j]
      /\ \A j \in 1..Len(v) : Len(u) + j \in 1..Len(g) /\ g[Len(u) + j] = v[j]
  <2>1. g = Joined(u, v)
    BY <1>1
  <2>2. IsJoined(S, u, v, Joined(u, v))
    BY <1>1, JoinedIs, Zenon
  <2> QED
    BY <2>1, <2>2, Zenon DEF IsJoined
<1>3. ASSUME NEW i \in 1..(k + 1), NEW j \in 1..Len(s[i])
      PROVE  Len(F[i - 1]) + j \in 1..Len(g) /\ g[Len(F[i - 1]) + j] = s[i][j]
  <2>1. CASE i = k + 1
    <3>1. i - 1 = k
      BY <2>1
    <3> QED
      BY <1>1, <1>2, <2>1, <3>1
  <2>2. CASE i \in 1..k
    <3>1. PICK p : p = Len(F[i - 1]) + j
      OBVIOUS
    <3>2. p \in 1..Len(u) /\ u[p] = s[i][j]
      BY <1>1, <2>2, <3>1, Zenon DEF PlacedUpTo
    <3> QED
      BY <1>2, <3>1, <3>2
  <2> QED
    BY <2>1, <2>2
<1> QED
  BY <1>1, <1>2, <1>3 DEF PlacedUpTo, NextPlaced

\* FlattenSeq puts them in a row.
LEMMA Rows ==
    ASSUME NEW S, NEW s, NEW n \in Nat, Len(s) = n, n = 0 => s = <<>>, \A i \in 1..n : s[i] \in Seq(S),
           NEW F, F = RowsOf(s)
    PROVE  InARow(S, s, n, F)
<1>1. PICK G : G = Flat(s)
  OBVIOUS
<1>2. /\ n = 0 => FlattenSeq(s) = s
      /\ n # 0 => FlattenSeq(s) = G[n] /\ G[1] = s[1]
      /\ \A i \in 2..n : G[i] = Joined(G[i - 1], s[i])
  <2>1. IsRow(s, n, Flat(s))
    BY FlatSteps, Zenon
  <2> QED
    BY <1>1, <2>1, Zenon DEF IsRow
<1>3. F[0] = <<>> /\ \A k \in 1..n : F[k] = G[k]
  BY <1>1 DEF RowsOf
<1>4. ASSUME NEW k \in 0..(n - 1) PROVE F[k + 1] = Joined(F[k], s[k + 1])
  <2>1. CASE k = 0
    <3>0. n # 0 /\ 1 \in 1..n
      OBVIOUS
    <3>1. F[1] = s[1] /\ s[1] \in Seq(S)
      BY <1>2, <1>3, <3>0, Zenon
    <3>2. Joined(<<>>, s[1]) = s[1]
      BY <3>1, ConcatEmptySeq DEF Joined
    <3> QED
      BY <1>3, <2>1, <3>1, <3>2
  <2>2. CASE k # 0
    <3>1. k \in 1..n /\ k + 1 \in 1..n /\ k + 1 \in 2..n /\ (k + 1) - 1 = k
      BY <2>2
    <3> QED
      BY <1>2, <1>3, <3>1
  <2> QED
    BY <2>1, <2>2
<1> DEFINE T == {k \in 0..n : /\ \A i \in 0..k : F[i] \in Seq(S)
                              /\ \A i \in 0..(k - 1) : Len(F[i + 1]) = Len(F[i]) + Len(s[i + 1])
                              /\ PlacedUpTo(s, F, k)}
<1>5. 0 \in T
  <2>1. <<>> \in Seq(S)
    OBVIOUS
  <2>2. 0 \in 0..n /\ (\A i \in 0..0 : i = 0) /\ (\A i \in 0..(0 - 1) : FALSE) /\ (\A i \in 1..0 : FALSE)
    OBVIOUS
  <2> QED
    BY <1>3, <2>1, <2>2, Zenon DEF PlacedUpTo
<1>6. ASSUME NEW k \in 0..(n - 1), k \in T PROVE k + 1 \in T
  <2>1. /\ \A i \in 0..k : F[i] \in Seq(S)
        /\ \A i \in 0..(k - 1) : Len(F[i + 1]) = Len(F[i]) + Len(s[i + 1])
        /\ PlacedUpTo(s, F, k)
    BY <1>6
  <2>2. s[k + 1] \in Seq(S) /\ \A i \in 1..k : s[i] \in Seq(S)
    OBVIOUS
  <2>3. F[k + 1] = Joined(F[k], s[k + 1])
    BY <1>4
  <2>4. /\ F[k + 1] \in Seq(S) /\ Len(F[k + 1]) = Len(F[k]) + Len(s[k + 1])
        /\ PlacedUpTo(s, F, k + 1)
    <3>1. NextPlaced(S, s, F, k)
      BY <2>1, <2>2, <2>3, PlaceOne, Zenon
    <3> QED
      BY <3>1, Zenon DEF NextPlaced
  <2>5. \A i \in 0..(k + 1) : i \in 0..k \/ i = k + 1
    OBVIOUS
  <2>6. \A i \in 0..((k + 1) - 1) : i \in 0..(k - 1) \/ i = k
    OBVIOUS
  <2>7. k + 1 \in 0..n
    OBVIOUS
  <2> QED
    BY <2>1, <2>4, <2>5, <2>6, <2>7, Zenon
<1> HIDE DEF T
<1>7. n \in T
  <2>1. 0..n \subseteq T
    BY <1>5, <1>6, UpTo
  <2> QED
    BY <2>1
<1>8. F[n] = FlattenSeq(s)
  <2>1. CASE n = 0
    BY <1>2, <1>3, <2>1
  <2>2. CASE n # 0
    <3>1. n \in 1..n
      BY <2>2
    <3> QED
      BY <1>2, <1>3, <2>2, <3>1, Zenon
  <2> QED
    BY <2>1, <2>2
<1> QED
  BY <1>3, <1>7, <1>8, Zenon DEF T, InARow

-----------------------------------------------------------------------------
(* M919 as bytes                                                            *)

\* A satellite that GNSS_PRN has right
KnownOne(id) == GNSS_PRN(id) \in System /\ id \in Numbers[GNSS_PRN(id)]

\* Its number is of that system only.
LEMMA SystemIs ==
    ASSUME NEW id, KnownOne(id)
    PROVE  /\ SystemOf(id) = GNSS_PRN(id)
           /\ \A s \in System : id \in Numbers[s] <=> s = GNSS_PRN(id)
<1>1. PICK y : y = GNSS_PRN(id)
  OBVIOUS
<1>2. y \in System /\ id \in Numbers[y]
  BY <1>1 DEF KnownOne
<1>3. \A s \in System : id \in Numbers[s] => s = y
  BY <1>2 DEF System, Numbers
<1>4. PICK x : x = SystemOf(id)
  OBVIOUS
<1>5. x \in System /\ id \in Numbers[x]
  BY <1>2, <1>4, Zenon DEF SystemOf
<1> QED
  BY <1>1, <1>2, <1>3, <1>4, <1>5, Zenon

\* The bands of a system
LEMMA BandsAre ==
    ASSUME NEW s \in System
    PROVE  /\ Bands[s] \in Seq(Band)
           /\ Len(Bands[s]) = IF s \in {"GPS", "GLO"} THEN 2 ELSE 3
<1>1. CASE s = "GPS"
  <2>1. Bands[s] = <<"L1", "L2">>
    BY <1>1 DEF Bands
  <2> QED
    BY <1>1, <2>1 DEF Band
<1>2. CASE s = "GLO"
  <2>1. Bands[s] = <<"L1", "L2">>
    BY <1>2 DEF Bands
  <2> QED
    BY <1>2, <2>1 DEF Band
<1>3. CASE s = "GAL"
  <2>1. Bands[s] = <<"L1", "L2", "L5">>
    BY <1>3 DEF Bands
  <2> QED
    BY <1>3, <2>1 DEF Band
<1>4. CASE s = "BDS"
  <2>1. Bands[s] = <<"L1", "L2", "L5">>
    BY <1>4 DEF Bands
  <2> QED
    BY <1>4, <2>1 DEF Band
<1> QED
  BY <1>1, <1>2, <1>3, <1>4 DEF System

\* The fields of a satellite
FieldsOf(sat, bands, f) ==
    /\ Len(f) = 1 + Len(bands) /\ f[1].of = sat.PRN
    /\ \A k \in 1..Len(bands) : f[1 + k].of = sat.Lx[bands[k]]
    /\ \A S : (\A k \in DOMAIN f : f[k] \in S) => f \in Seq(S)

\* A satellite is its number, and its bands in their order.
LEMMA FieldsAre ==
    ASSUME NEW sat, GNSS_PRN(sat.PRN) \in System
    PROVE  FieldsOf(sat, Bands[GNSS_PRN(sat.PRN)], Fields(sat))
<1>1. PICK bands, n : bands = Bands[GNSS_PRN(sat.PRN)] /\ n = Len(bands) /\ n \in Nat /\ DOMAIN bands = 1..n
  BY BandsAre
<1>2. PICK a, g : /\ a = [is |-> "satellite", of |-> sat.PRN]
                  /\ g = [k \in 1..n |-> [is |-> "band", of |-> sat.Lx[bands[k]]]]
  OBVIOUS
<1>3. PICK f : f = Fields(sat)
  OBVIOUS
<1>4. f = Joined(<<a>>, g)
  BY <1>1, <1>2, <1>3, Zenon DEF Fields, Joined
<1>5. PICK S : S = {a} \union {g[k] : k \in 1..n}
  OBVIOUS
<1>6. <<a>> \in Seq(S) /\ g \in Seq(S) /\ Len(<<a>>) = 1 /\ Len(g) = n
  BY <1>1, <1>2, <1>5
<1>7. IsJoined(S, <<a>>, g, f)
  BY <1>4, <1>6, JoinedIs, Zenon
<1>8. /\ f \in Seq(S) /\ Len(f) = 1 + n /\ f[1] = a
      /\ \A k \in 1..n : f[1 + k] = g[k]
  BY <1>6, <1>7 DEF IsJoined
<1>9. a.of = sat.PRN /\ \A k \in 1..n : g[k].of = sat.Lx[bands[k]]
  BY <1>2
<1>10. \A R : (\A k \in DOMAIN f : f[k] \in R) => f \in Seq(R)
  BY <1>8
<1> QED
  BY <1>1, <1>3, <1>8, <1>9, <1>10 DEF FieldsOf

\* The satellites of a system among the first k
CountOf(sats, s, k) == Cardinality({i \in 1..k : sats[i].PRN \in Numbers[s]})

\* One satellite more counts for its system only.
LEMMA Counting ==
    ASSUME NEW sats, NEW s, NEW k \in Nat
    PROVE  /\ CountOf(sats, s, 0) = 0 /\ CountOf(sats, s, k) \in Nat
           /\ CountOf(sats, s, k + 1)
                = CountOf(sats, s, k) + IF sats[k + 1].PRN \in Numbers[s] THEN 1 ELSE 0
<1> DEFINE At(m) == {i \in 1..m : sats[i].PRN \in Numbers[s]}
<1>1. ASSUME NEW m \in Nat PROVE IsFiniteSet(At(m)) /\ Cardinality(At(m)) \in Nat
  <2>1. IsFiniteSet(1..m)
    BY FS_Interval
  <2>2. At(m) \subseteq 1..m
    OBVIOUS
  <2> QED
    BY <2>1, <2>2, FS_Subset, FS_CardinalityType
<1>2. CountOf(sats, s, 0) = 0
  <2>1. At(0) = {}
    OBVIOUS
  <2> QED
    BY <2>1, FS_EmptySet DEF CountOf
<1>3. CASE sats[k + 1].PRN \in Numbers[s]
  <2>1. At(k + 1) = At(k) \union {k + 1} /\ k + 1 \notin At(k)
    BY <1>3
  <2>2. Cardinality(At(k + 1)) = Cardinality(At(k)) + 1
    BY <1>1, <2>1, FS_AddElement
  <2> QED
    BY <1>1, <1>2, <1>3, <2>2 DEF CountOf
<1>4. CASE sats[k + 1].PRN \notin Numbers[s]
  <2>1. At(k + 1) = At(k)
    BY <1>4
  <2>2. CountOf(sats, s, k + 1) = CountOf(sats, s, k)
    BY <2>1, Zenon DEF CountOf
  <2>3. CountOf(sats, s, k) \in Nat
    BY <1>1 DEF CountOf
  <2> QED
    BY <1>2, <1>4, <2>2, <2>3
<1> QED
  BY <1>3, <1>4

\* What the head announces of the first k satellites
Announced(sats, k) ==
    CountOf(sats, "GPS", k) * 48 + CountOf(sats, "BDS", k) * 64
      + CountOf(sats, "GLO", k) * 48 + CountOf(sats, "GAL", k) * 64

\* A satellite more is announced by as much as its fields take.
LEMMA OneAnnounced ==
    ASSUME NEW sats, NEW k \in Nat, KnownOne(sats[k + 1].PRN)
    PROVE  Announced(sats, k + 1)
             = Announced(sats, k) + 16 * (1 + Len(Bands[GNSS_PRN(sats[k + 1].PRN)]))
<1>1. PICK y, L : y = GNSS_PRN(sats[k + 1].PRN) /\ L = Len(Bands[y])
  OBVIOUS
<1>2. y \in System
  BY <1>1 DEF KnownOne
<1>3. L = IF y \in {"GPS", "GLO"} THEN 2 ELSE 3
  BY <1>1, <1>2, BandsAre
<1>4. ASSUME NEW s \in System
      PROVE  /\ CountOf(sats, s, k) \in Nat
             /\ CountOf(sats, s, k + 1) = CountOf(sats, s, k) + IF s = y THEN 1 ELSE 0
  <2>1. sats[k + 1].PRN \in Numbers[s] <=> s = y
    BY <1>1, SystemIs
  <2> QED
    BY <2>1, Counting
<1>5. PICK a, b, c, d : /\ a = CountOf(sats, "GPS", k) /\ b = CountOf(sats, "BDS", k)
                        /\ c = CountOf(sats, "GLO", k) /\ d = CountOf(sats, "GAL", k)
                        /\ a \in Nat /\ b \in Nat /\ c \in Nat /\ d \in Nat
  BY <1>4 DEF System
<1>6. /\ CountOf(sats, "GPS", k + 1) = a + IF "GPS" = y THEN 1 ELSE 0
      /\ CountOf(sats, "BDS", k + 1) = b + IF "BDS" = y THEN 1 ELSE 0
      /\ CountOf(sats, "GLO", k + 1) = c + IF "GLO" = y THEN 1 ELSE 0
      /\ CountOf(sats, "GAL", k + 1) = d + IF "GAL" = y THEN 1 ELSE 0
  BY <1>4, <1>5 DEF System
<1>7. CASE y = "GPS"
  BY <1>1, <1>3, <1>5, <1>6, <1>7 DEF Announced
<1>8. CASE y = "BDS"
  BY <1>1, <1>3, <1>5, <1>6, <1>8 DEF Announced
<1>9. CASE y = "GLO"
  BY <1>1, <1>3, <1>5, <1>6, <1>9 DEF Announced
<1>10. CASE y = "GAL"
  BY <1>1, <1>3, <1>5, <1>6, <1>10 DEF Announced
<1> QED
  BY <1>2, <1>7, <1>8, <1>9, <1>10 DEF System

\* The head announces what all satellites are announced by.
LEMMA LengthIs ==
    ASSUME NEW sats, NEW n \in Nat, DOMAIN sats = 1..n
    PROVE  iRealMesLen(sats) = 24 + 68 + 132 + Announced(sats, n)
<1>1. \A s \in System : GetM919SatNum(s, sats) = CountOf(sats, s, n)
  BY Zenon DEF GetM919SatNum, CountOf
<1>2. /\ GetM919FrqNum("GPS") = 2 /\ GetM919FrqNum("GLO") = 2
      /\ GetM919FrqNum("GAL") = 3 /\ GetM919FrqNum("BDS") = 3
  BY BandsAre DEF GetM919FrqNum, System
<1>3. PICK a, b, c, d : /\ a = CountOf(sats, "GPS", n) /\ b = CountOf(sats, "BDS", n)
                        /\ c = CountOf(sats, "GLO", n) /\ d = CountOf(sats, "GAL", n)
                        /\ a \in Nat /\ b \in Nat /\ c \in Nat /\ d \in Nat
  BY Counting DEF System
<1>4. /\ GetM919SatNum("GPS", sats) = a /\ GetM919SatNum("BDS", sats) = b
      /\ GetM919SatNum("GLO", sats) = c /\ GetM919SatNum("GAL", sats) = d
  BY <1>1, <1>3 DEF System
<1>5. iRealMesLen(sats) = 24 + a * (16 + 16 * 2) + b * (16 + 16 * 3) + c * (16 + 16 * 2) + d * (16 + 16 * 3)
                            + 68 + 132
  BY <1>2, <1>4 DEF iRealMesLen
<1>6. Announced(sats, n) = a * 48 + b * 64 + c * 48 + d * 64
  BY <1>3, Zenon DEF Announced
<1>7. 16 + 16 * 2 = 48 /\ 16 + 16 * 3 = 64
  OBVIOUS
<1>8. PICK e \in Int, f \in Int, g \in Int, h \in Int :
        e = a * 48 /\ f = b * 64 /\ g = c * 48 /\ h = d * 64
  BY <1>3
<1>9. iRealMesLen(sats) = 24 + e + f + g + h + 68 + 132
  BY <1>5, <1>7, <1>8, Zenon
<1>10. Announced(sats, n) = e + f + g + h
  BY <1>6, <1>8, Zenon
<1>11. 24 + e + f + g + h + 68 + 132 = 24 + 68 + 132 + (e + f + g + h)
  OBVIOUS
<1> QED
  BY <1>9, <1>10, <1>11, Zenon

\* Where the fields of a satellite start, as M919ReadsBack has it
IsStart(sats, f) ==
    f = [i \in DOMAIN sats |-> IF i = 1 THEN 1 ELSE f[i - 1] + 1 + Len(Bands[SystemOf(sats[i - 1].PRN)])]

StartOf(sats) == CHOOSE f : IsStart(sats, f)

\* What is read back of the fields written
FieldsBack(sats, fields) ==
    \A i \in DOMAIN sats :
        /\ fields[StartOf(sats)[i]].of = sats[i].PRN
        /\ \A k \in DOMAIN Bands[SystemOf(sats[i].PRN)] :
             fields[StartOf(sats)[i] + k].of = sats[i].Lx[Bands[SystemOf(sats[i].PRN)][k]]

\* The fields are found where the lengths of those before say, and are as long as announced.
LEMMA FieldsReadBack ==
    ASSUME NEW sats, NEW n \in Nat, DOMAIN sats = 1..n, Len(sats) = n,
           \A i \in 1..n : KnownOne(sats[i].PRN),
           NEW fields, fields = FlattenSeq([i \in DOMAIN sats |-> Fields(sats[i])])
    PROVE  FieldsBack(sats, fields) /\ 16 * Len(fields) = Announced(sats, n) /\ Len(fields) \in Nat
<1>1. PICK s : s = [i \in 1..n |-> Fields(sats[i])]
  OBVIOUS
<1>2. Len(s) = n /\ (\A i \in 1..n : s[i] = Fields(sats[i])) /\ (n = 0 => s = <<>>)
  BY <1>1
<1>3. fields = FlattenSeq(s)
  BY <1>1, Zenon
<1>4. PICK S : S = UNION {{s[i][k] : k \in DOMAIN s[i]} : i \in 1..n}
  OBVIOUS
<1>5. ASSUME NEW i \in 1..n
      PROVE  /\ s[i] \in Seq(S) /\ Len(s[i]) = 1 + Len(Bands[GNSS_PRN(sats[i].PRN)])
             /\ s[i][1].of = sats[i].PRN
             /\ \A k \in 1..Len(Bands[GNSS_PRN(sats[i].PRN)]) :
                  s[i][1 + k].of = sats[i].Lx[Bands[GNSS_PRN(sats[i].PRN)][k]]
  <2>1. GNSS_PRN(sats[i].PRN) \in System
    BY DEF KnownOne
  <2>2. FieldsOf(sats[i], Bands[GNSS_PRN(sats[i].PRN)], s[i])
    BY <1>2, <2>1, FieldsAre
  <2>3. \A k \in DOMAIN s[i] : s[i][k] \in S
    BY <1>4
  <2> QED
    BY <2>2, <2>3 DEF FieldsOf
<1>6. PICK F : F = RowsOf(s)
  OBVIOUS
<1>7. InARow(S, s, n, F)
  BY <1>2, <1>5, <1>6, Rows, Zenon
<1>8. ASSUME NEW i \in 1..n
      PROVE  SystemOf(sats[i].PRN) = GNSS_PRN(sats[i].PRN) /\ GNSS_PRN(sats[i].PRN) \in System
  BY SystemIs DEF KnownOne
<1>9. ASSUME NEW i \in 1..n
      PROVE  Len(Bands[GNSS_PRN(sats[i].PRN)]) \in Nat
             /\ DOMAIN Bands[GNSS_PRN(sats[i].PRN)] = 1..Len(Bands[GNSS_PRN(sats[i].PRN)])
  BY <1>8, BandsAre
<1>10. /\ F[0] = <<>> /\ F[n] = fields
       /\ \A k \in 0..n : Len(F[k]) \in Nat
       /\ \A k \in 0..(n - 1) : Len(F[k + 1]) = Len(F[k]) + Len(s[k + 1])
  <2>1. /\ F[0] = <<>> /\ F[n] = fields
        /\ \A k \in 0..n : F[k] \in Seq(S)
        /\ \A k \in 0..(n - 1) : Len(F[k + 1]) = Len(F[k]) + Len(s[k + 1])
    BY <1>3, <1>7, Zenon DEF InARow
  <2>2. \A k \in 0..n : Len(F[k]) \in Nat
    BY <2>1
  <2> QED
    BY <2>1, <2>2, Zenon
\* The announced length
<1>11. 16 * Len(fields) = Announced(sats, n) /\ Len(fields) \in Nat
  <2> DEFINE T == {k \in 0..n : 16 * Len(F[k]) = Announced(sats, k)}
  <2>1. 0 \in T
    <3>1. \A y \in System : CountOf(sats, y, 0) = 0
      BY Counting
    <3>2. Announced(sats, 0) = 0
      BY <3>1 DEF Announced, System
    <3>3. Len(F[0]) = 0
      BY <1>10
    <3> QED
      BY <3>2, <3>3
  <2>2. ASSUME NEW k \in 0..(n - 1), k \in T PROVE k + 1 \in T
    <3>1. k + 1 \in 1..n /\ k \in Nat /\ k \in 0..n /\ k + 1 \in 0..n
      OBVIOUS
    <3>2. PICK L \in Nat : L = Len(Bands[GNSS_PRN(sats[k + 1].PRN)])
      BY <1>9, <3>1
    <3>3. Announced(sats, k + 1) = Announced(sats, k) + 16 * (1 + L)
      BY <3>1, <3>2, OneAnnounced
    <3>4. Len(F[k + 1]) = Len(F[k]) + (1 + L) /\ Len(F[k]) \in Nat
      BY <1>5, <1>10, <3>1, <3>2
    <3>5. 16 * Len(F[k]) = Announced(sats, k)
      BY <2>2
    <3>6. PICK x \in Nat, y \in Int : x = Len(F[k]) /\ y = Announced(sats, k) /\ 16 * x = y
      BY <3>4, <3>5
    <3>7. 16 * (x + (1 + L)) = 16 * x + 16 * (1 + L)
      OBVIOUS
    <3>8. 16 * Len(F[k + 1]) = Announced(sats, k + 1)
      BY <3>3, <3>4, <3>6, <3>7, Zenon
    <3> QED
      BY <3>1, <3>8
  <2> HIDE DEF T
  <2>3. 0..n \subseteq T
    BY <2>1, <2>2, UpTo
  <2>4. n \in T /\ n \in 0..n
    BY <2>3
  <2> QED
    BY <1>10, <2>4 DEF T
\* The starts
<1>12. PICK start : start = StartOf(sats)
  OBVIOUS
<1>13. \A i \in 1..n : start[i] = 1 + Len(F[i - 1])
  <2> DEFINE L(i) == 1 + Len(F[i - 1])
             g == [i \in 1..n |-> L(i)]
  <2>1. ASSUME NEW i \in 2..n
        PROVE  L(i) = L(i - 1) + 1 + Len(Bands[SystemOf(sats[i - 1].PRN)])
    <3>1. PICK j : j = i - 1 /\ j \in 1..n /\ j - 1 \in 0..(n - 1) /\ j - 1 \in 0..n /\ (j - 1) + 1 = j
      OBVIOUS
    <3>2. PICK m \in Nat : m = Len(Bands[SystemOf(sats[j].PRN)]) /\ Len(s[j]) = 1 + m
      BY <1>5, <1>8, <1>9, <3>1
    <3>3. Len(F[j]) = Len(F[j - 1]) + Len(s[j]) /\ Len(F[j - 1]) \in Nat
      BY <1>10, <3>1
    <3>4. L(i) = 1 + Len(F[j]) /\ L(i - 1) = 1 + Len(F[j - 1])
      BY <3>1, Zenon
    <3>5. PICK q \in Nat : q = Len(F[j - 1])
      BY <3>3
    <3>6. 1 + (q + (1 + m)) = (1 + q) + 1 + m
      OBVIOUS
    <3> QED
      BY <3>1, <3>2, <3>3, <3>4, <3>5, <3>6, Zenon
  <2> HIDE DEF L
  <2>2. L(1) = 1
    BY <1>10 DEF L
  <2>3. \A i \in 1..n : i = 1 \/ (i \in 2..n /\ i - 1 \in 1..n)
    OBVIOUS
  <2>4. \A i \in 1..n : g[i] = IF i = 1 THEN 1 ELSE g[i - 1] + 1 + Len(Bands[SystemOf(sats[i - 1].PRN)])
    BY <2>1, <2>2, <2>3
  <2>5. IsStart(sats, g)
    <3>1. g = [i \in 1..n |-> g[i]]
      OBVIOUS
    <3> HIDE DEF g
    <3>2. g = [i \in 1..n |-> IF i = 1 THEN 1 ELSE g[i - 1] + 1 + Len(Bands[SystemOf(sats[i - 1].PRN)])]
      BY <2>4, <3>1, Zenon
    <3> QED
      BY <3>2, Zenon DEF IsStart
  <2>6. IsStart(sats, start)
    BY <1>12, <2>5, Zenon DEF StartOf
  <2>7. \A i \in 1..n : start[i] = IF i = 1 THEN 1
                                   ELSE start[i - 1] + 1 + Len(Bands[SystemOf(sats[i - 1].PRN)])
    <3>1. start = [i \in 1..n |-> IF i = 1 THEN 1
                                  ELSE start[i - 1] + 1 + Len(Bands[SystemOf(sats[i - 1].PRN)])]
      BY <2>6, Zenon DEF IsStart
    <3> QED
      BY <3>1, Zenon
  <2> DEFINE U == {0} \union {i \in 1..n : start[i] = L(i)}
  <2>8. ASSUME NEW i \in 0..(n - 1), i \in U PROVE i + 1 \in U
    <3>1. CASE i = 0
      <4>1. 1 \in 1..n
        OBVIOUS
      <4> QED
        BY <2>2, <2>7, <3>1, <4>1
    <3>2. CASE i # 0
      <4>1. i + 1 \in 2..n /\ i + 1 \in 1..n /\ (i + 1) - 1 = i /\ i + 1 # 1
        BY <3>2
      <4>2. start[i] = L(i)
        BY <2>8, <3>2
      <4>3. start[i + 1] = start[i] + 1 + Len(Bands[SystemOf(sats[i].PRN)])
        BY <2>7, <4>1
      <4>4. L(i + 1) = L(i) + 1 + Len(Bands[SystemOf(sats[i].PRN)])
        BY <2>1, <4>1
      <4> QED
        BY <4>1, <4>2, <4>3, <4>4
    <3> QED
      BY <3>1, <3>2
  <2>9. 0 \in U
    OBVIOUS
  <2> HIDE DEF U
  <2>10. 0..n \subseteq U
    BY <2>8, <2>9, UpTo
  <2>11. ASSUME NEW i \in 1..n PROVE start[i] = L(i)
    <3>1. i \in 0..n /\ i # 0
      OBVIOUS
    <3>2. i \in U
      BY <2>10, <3>1
    <3> QED
      BY <3>1, <3>2 DEF U
  <2> QED
    BY <2>11 DEF L
\* What is there
<1>14. ASSUME NEW i \in 1..n
       PROVE  /\ fields[start[i]].of = sats[i].PRN
              /\ \A k \in DOMAIN Bands[SystemOf(sats[i].PRN)] :
                   fields[start[i] + k].of = sats[i].Lx[Bands[SystemOf(sats[i].PRN)][k]]
  <2>1. \A j \in 1..Len(s[i]) : fields[Len(F[i - 1]) + j] = s[i][j]
    BY <1>7, <1>10, Zenon DEF InARow, PlacedUpTo
  <2>2. PICK p, bands, m : /\ p = Len(F[i - 1]) /\ p \in Nat /\ start[i] = 1 + p
                           /\ bands = Bands[SystemOf(sats[i].PRN)] /\ m = Len(bands) /\ m \in Nat
                           /\ DOMAIN bands = 1..m /\ Len(s[i]) = 1 + m
    <3>1. i - 1 \in 0..n
      OBVIOUS
    <3>2. PICK bands : bands = Bands[SystemOf(sats[i].PRN)]
      OBVIOUS
    <3>3. Len(bands) \in Nat /\ DOMAIN bands = 1..Len(bands) /\ Len(s[i]) = 1 + Len(bands)
      BY <1>5, <1>8, <1>9, <3>2
    <3>4. Len(F[i - 1]) \in Nat /\ start[i] = 1 + Len(F[i - 1])
      BY <1>10, <1>13, <3>1, Zenon
    <3> QED
      BY <3>2, <3>3, <3>4, Zenon
  <2>3. s[i][1].of = sats[i].PRN /\ \A k \in 1..m : s[i][1 + k].of = sats[i].Lx[bands[k]]
    BY <1>5, <1>8, <2>2
  <2>4. fields[p + 1] = s[i][1] /\ p + 1 = start[i]
    BY <2>1, <2>2
  <2>5. ASSUME NEW k \in 1..m PROVE fields[start[i] + k].of = sats[i].Lx[bands[k]]
    <3>0. start[i] = 1 + p /\ p \in Nat /\ m \in Nat /\ Len(s[i]) = 1 + m
      BY <2>2, Zenon
    <3>1. 1 + k \in 1..Len(s[i]) /\ p + (1 + k) = start[i] + k
      BY <3>0
    <3>2. fields[p + (1 + k)] = s[i][1 + k]
      BY <2>1, <2>2, <3>1
    <3> QED
      BY <2>3, <3>1, <3>2
  <2> QED
    BY <2>2, <2>3, <2>4, <2>5
<1> QED
  BY <1>11, <1>12, <1>14, Zenon DEF FieldsBack

\* What is read back of M919
IsReadBack(m, got, e) ==
    LET sats == m.sats
    IN  /\ got = sats /\ e.bSatNo = Len(sats)
        /\ e.week = m.week /\ e.t = m.t
        /\ FieldsBack(sats, e.fields)
        /\ e.crcAt = e.checked /\ e.length = e.checked + 4

\* What is encoded of a message of known satellites is read back of its bytes.
LEMMA EncodedReadsBack ==
    ASSUME NEW m, NEW S, m.sats \in Seq(S), Known({s.PRN : s \in Range(m.sats)}),
           NEW e, e = EncodeM919_2B(m)
    PROVE  IsReadBack(m, SubSeq(m.sats, 1, e.bSatNo), e)
<1>1. PICK sats \in Seq(S), n \in Nat : sats = m.sats /\ n = Len(sats) /\ DOMAIN sats = 1..n
  OBVIOUS
<1>2. \A i \in 1..n : KnownOne(sats[i].PRN)
  <2>1. ASSUME NEW i \in 1..n PROVE sats[i].PRN \in {s.PRN : s \in Range(m.sats)}
    BY <1>1 DEF Range
  <2> QED
    BY <2>1 DEF Known, KnownOne
<1>3. PICK fields : fields = FlattenSeq([i \in DOMAIN sats |-> Fields(sats[i])])
  OBVIOUS
<1>4. FieldsBack(sats, fields) /\ 16 * Len(fields) = Announced(sats, n) /\ Len(fields) \in Nat
  BY <1>1, <1>2, <1>3, FieldsReadBack, Zenon
<1>5. e = [bSatNo |-> bEncodeSatNum(sats), week |-> m.week, t |-> m.t, fields |-> fields,
           checked |-> 28 + iRealMesLen(sats), crcAt |-> 28 + 24 + 16 * Len(fields) + 68 + 132,
           length |-> 28 + iRealMesLen(sats) + 4]
  BY <1>1, <1>3, Zenon DEF EncodeM919_2B
<1>6. bEncodeSatNum(sats) = n
  <2>1. {i \in DOMAIN sats : GNSS_PRN(sats[i].PRN) \in System} = 1..n
    BY <1>1, <1>2 DEF KnownOne
  <2>2. Cardinality(1..n) = n
    BY <1>1, FS_Interval
  <2>3. bEncodeSatNum(sats) = Cardinality(1..n)
    BY <2>1, Zenon DEF bEncodeSatNum
  <2> QED
    BY <2>2, <2>3, Zenon
<1>7. SubSeq(sats, 1, n) = sats
  BY <1>1
<1>8. e.crcAt = e.checked
  <2>1. PICK a \in Int : a = Announced(sats, n) /\ 16 * Len(fields) = a
    BY <1>4
  <2>2. iRealMesLen(sats) = 24 + 68 + 132 + a
    BY <1>1, <2>1, LengthIs
  <2>3. 28 + (24 + 68 + 132 + a) = 28 + 24 + a + 68 + 132
    OBVIOUS
  <2>4. e.checked = 28 + iRealMesLen(sats) /\ e.crcAt = 28 + 24 + 16 * Len(fields) + 68 + 132
    BY <1>5
  <2> QED
    BY <2>1, <2>2, <2>3, <2>4, Zenon
<1>9. e.bSatNo = n /\ e.week = m.week /\ e.t = m.t /\ e.fields = fields /\ e.length = e.checked + 4
  BY <1>5, <1>6
<1> QED
  BY <1>1, <1>4, <1>7, <1>8, <1>9, Zenon DEF IsReadBack

\* The property, by what was last written
ReadsBack ==
    logging /\ info # None /\ Known({s.PRN : s \in Range(info[1].sats)}) =>
        IsReadBack(info[1], given, m919[1])

\* ReadsBack is inductive, given Kept.
LEMMA ReadsBackNext == Kept /\ ReadsBack /\ [Next]_vars => ReadsBack'
<1> SUFFICES ASSUME Kept, ReadsBack, [Next]_vars PROVE ReadsBack'
  OBVIOUS
<1>1. CASE UNCHANGED <<logging, info, given, m919>>
  BY <1>1, Zenon DEF ReadsBack
<1>2. ASSUME NEW e \in BaseEpochs, PushBase(e) PROVE UNCHANGED <<logging, info, given, m919>>
  BY <1>2, Zenon DEF PushBase, output
<1>3. ASSUME NEW w \in Weeks, SendEphemerisToQRtk(w) PROVE UNCHANGED <<logging, info, given, m919>>
  BY <1>3, Zenon DEF SendEphemerisToQRtk, output
<1>4. ASSUME NEW i \in Satellites \cap Numbers.GLO, NEW c \in Channels, SendGloEphemToQRtk(i, c)
      PROVE  UNCHANGED <<logging, info, given, m919>>
  BY <1>4, Zenon DEF SendGloEphemToQRtk, output
<1>5. CASE UNCHANGED vars
  BY <1>1, <1>5, Zenon DEF vars, memory, output
<1>6. ASSUME NEW r \in RoverEpochs, NEW up \in Horizons, PushRover(r, up) PROVE ReadsBack'
  <2>1. PICK b \in BaseEpochs : base = <<b>> /\ b \in Epochs
    BY <1>6, BaseIs DEF PushRover
  <2>2. r \in Epochs
    BY DEF Epochs
  <2>3. RoverDone(b, r, up)
    BY <1>6, <2>1, <2>2, RoverDoes, Zenon
  <2>4. CASE r.t \notin TimeOfWeek
    BY <2>3, <2>4, Zenon DEF RoverDone, ReadsBack
  <2>5. CASE r.t \in TimeOfWeek /\ logging
    <3>1. PICK c, m : c = Common(b, r, up) /\ m = M919Of(b, r, c)
      OBVIOUS
    <3>2. info' = <<m>> /\ info'[1] = m /\ info' # None
      <4>1. info' = <<m>>
        BY <2>3, <2>5, <3>1, Zenon DEF RoverDone
      <4> QED
        BY <4>1 DEF None
    <3>3. PICK e : e = EncodeM919_2B(m)
      OBVIOUS
    <3>4. m919' = <<e>>
      BY <1>6, <2>5, <3>2, <3>3, Zenon DEF PushRover, SendEpochToQRtk
    <3>5. m919'[1] = e
      BY <3>4
    <3>6. given' = SubSeq(m.sats, 1, e.bSatNo)
      BY <1>6, <2>5, <3>2, <3>5, Zenon DEF PushRover, SendEpochToQRtk
    <3>7. PICK S : m.sats \in Seq(S)
      <4>1. IsCommon(c, b, r, up)
        BY <2>1, <3>1, CommonIs, Zenon
      <4>2. Len(c) \in Nat
        BY <4>1 DEF IsCommon
      <4> DEFINE Entry(i) == [PRN |-> c[i].id, Lx |-> [l \in Band |-> EntryOf(b, r, c[i].id, l)]]
      <4>3. m.sats = [i \in 1..Len(c) |-> Entry(i)]
        BY <3>1, Zenon DEF M919Of
      <4> HIDE DEF Entry
      <4>4. m.sats \in Seq({Entry(i) : i \in 1..Len(c)})
        BY <4>2, <4>3
      <4> QED
        BY <4>4, Zenon
    <3>8. ASSUME Known({s.PRN : s \in Range(m.sats)}) PROVE IsReadBack(m, given', e)
      <4>1. IsReadBack(m, SubSeq(m.sats, 1, e.bSatNo), e)
        BY <3>3, <3>7, <3>8, EncodedReadsBack, Zenon
      <4> QED
        BY <3>6, <4>1, Zenon
    <3> QED
      BY <3>2, <3>5, <3>8, Zenon DEF ReadsBack
  <2>6. CASE ~logging
    <3>1. logging' = logging
      BY <1>6, Zenon DEF PushRover
    <3> QED
      BY <2>6, <3>1, Zenon DEF ReadsBack
  <2> QED
    BY <2>4, <2>5, <2>6
<1> QED
  BY <1>1, <1>2, <1>3, <1>4, <1>5, <1>6, Zenon DEF Next

\* Who reads the bytes of M919 by its head finds the satellites and differences the engine gets,
\* and the checksum of all of it where the length says.
THEOREM BytesRight == Spec => []M919ReadsBack
<1>1. Init => Kept /\ ReadsBack
  BY KeptInit, Zenon DEF Init, ReadsBack
<1>2. Kept /\ ReadsBack /\ [Next]_vars => Kept' /\ ReadsBack'
  BY KeptNext, ReadsBackNext
<1>3. ReadsBack => M919ReadsBack
  BY Zenon DEF ReadsBack, M919ReadsBack, IsReadBack, FieldsBack, StartOf, IsStart
<1> QED
  BY <1>1, <1>2, <1>3, PTL DEF Spec

-----------------------------------------------------------------------------
(* The bytes of M916                                                        *)

\* One satellite of M916, with the code that the one before left for each side
SatIs(b, r, i, id, before, baseBefore) ==
    [id |-> id, flag |-> pbFlag(b, r, i), rover |-> Side(r.sats[i].obs, before),
     base |-> IF id \in Ids(b) THEN Side(b.sats[Slot(b, id)].obs, baseBefore) ELSE NoSide]

\* M916 with the codes R1 that the satellites leave one another
MixedOf(b, r, n, R1) ==
    [week |-> GetSinglePosition(r), t |-> r.t,
     sats |-> [i \in 1..n |-> SatIs(b, r, i, r.sats[i].id, R1[i - 1], R1[n + i - 1])]]

\* M916 is made of one satellite after the other.
LEMMA MixedIs ==
    ASSUME NEW b, NEW r, NEW g, NEW n \in Nat \ {0}, n = Len(r.sats), r.t \in TimeOfWeek
    PROVE  CreateM916TotalInfor(b, r, g) = <<MixedOf(b, r, n, R1After(b, r, g))>>
<1>1. ~(r.t \notin TimeOfWeek \/ n = 0)
  OBVIOUS
<1> QED
  BY <1>1, Zenon DEF CreateM916TotalInfor, MixedOf, SatIs

\* What is written of one side
PartOf(sat, side, bands) ==
    [k \in DOMAIN bands |->
        LET l == bands[k]
        IN  [M |-> l \in sat[side].M, L |-> sat[side].L[l],
             R |-> CASE l = "L1" -> sat[side].R1 [] l = "L2" -> sat[side].R21
                     [] l = "L5" -> sat[side].R51]]

\* One side reads back what was observed.
PartRight(part, obs, bands) ==
    /\ Len(part) = Len(bands)
    /\ \A k \in DOMAIN part :
         /\ part[k].M <=> obs[bands[k]].R > 0
         /\ part[k].M => part[k].R + (IF k = 1 THEN 0 ELSE part[1].R) = obs[bands[k]].R
         /\ part[k].L = (obs[bands[k]].L * 256) % Word

\* The codes of a side, relative to that of its first band, give back those observed.
LEMMA SideReadsBack ==
    ASSUME NEW s \in System, NEW obs, NEW before, NEW sat, NEW side, sat[side] = Side(obs, before),
           \A l \in Band : obs[l].R \in Int
    PROVE  PartRight(PartOf(sat, side, Bands[s]), obs, Bands[s])
<1>1. PICK x : x = Side(obs, before) /\ x = sat[side]
  OBVIOUS
<1>2. /\ x.M = Has(obs) /\ x.R1 = CodeOf(obs, before)
      /\ "L2" \in Has(obs) => x.R21 = obs["L2"].R - x.R1
      /\ "L5" \in Has(obs) => x.R51 = obs["L5"].R - x.R1
      /\ \A l \in Band : x.L[l] = (obs[l].L * 256) % Word
  BY <1>1 DEF Side, CutDouble2Int
<1>3. /\ "L1" \in Has(obs) => x.R1 = obs["L1"].R
      /\ \A l \in Band : l \in Has(obs) <=> obs[l].R > 0
  BY <1>2 DEF CodeOf, Has
<1>4. ASSUME "L2" \in Has(obs) \/ "L5" \in Has(obs) PROVE x.R1 \in Int
  BY <1>2, <1>4 DEF CodeOf, Has, Band
<1>5. PICK bands, p : bands = Bands[s] /\ p = PartOf(sat, side, bands)
  OBVIOUS
<1>6. bands = <<"L1", "L2">> \/ bands = <<"L1", "L2", "L5">>
  BY <1>5 DEF Bands, System
<1>7. /\ Len(p) = Len(bands) /\ DOMAIN p = DOMAIN bands
      /\ \A k \in DOMAIN p : /\ p[k].M <=> bands[k] \in x.M
                             /\ p[k].L = x.L[bands[k]]
                             /\ p[k].R = CASE bands[k] = "L1" -> x.R1 [] bands[k] = "L2" -> x.R21
                                           [] bands[k] = "L5" -> x.R51
  <2>1. p = [k \in DOMAIN bands |->
               [M |-> bands[k] \in x.M, L |-> x.L[bands[k]],
                R |-> CASE bands[k] = "L1" -> x.R1 [] bands[k] = "L2" -> x.R21
                        [] bands[k] = "L5" -> x.R51]]
    BY <1>1, <1>5, Zenon DEF PartOf
  <2>2. Len(p) = Len(bands) /\ DOMAIN p = DOMAIN bands
    BY <1>6, <2>1
  <2> QED
    BY <2>1, <2>2, Zenon
<1>8. p[1].R = x.R1 /\ bands[1] = "L1" /\ bands[2] = "L2" /\ 1 \in DOMAIN bands
  BY <1>6, <1>7
<1>9. ASSUME NEW k \in DOMAIN p
      PROVE  /\ p[k].M <=> obs[bands[k]].R > 0
             /\ p[k].M => p[k].R + (IF k = 1 THEN 0 ELSE p[1].R) = obs[bands[k]].R
             /\ p[k].L = (obs[bands[k]].L * 256) % Word
  <2>1. bands[k] \in Band /\ (k = 1 \/ k = 2 \/ (k = 3 /\ bands[3] = "L5"))
    BY <1>6, <1>7 DEF Band
  <2>2. (p[k].M <=> bands[k] \in Has(obs)) /\ (p[k].M <=> obs[bands[k]].R > 0)
    <3>1. p[k].M <=> bands[k] \in x.M
      BY <1>7, Zenon
    <3>2. bands[k] \in Has(obs) <=> obs[bands[k]].R > 0
      BY <1>3, <2>1, Zenon
    <3> QED
      BY <1>2, <3>1, <3>2, Zenon
  <2>3. p[k].L = (obs[bands[k]].L * 256) % Word
    BY <1>2, <1>7, <2>1, Zenon
  <2>4. ASSUME p[k].M, k = 1 PROVE p[k].R + 0 = obs[bands[k]].R
    BY <1>3, <1>8, <2>2, <2>4 DEF Band
  <2>5. ASSUME p[k].M, k = 2 PROVE p[k].R + p[1].R = obs[bands[k]].R
    <3>1. "L2" \in Has(obs) /\ p[k].R = x.R21
      BY <1>7, <1>8, <2>2, <2>5
    <3>2. x.R21 = obs["L2"].R - x.R1 /\ x.R1 \in Int /\ obs["L2"].R \in Int
      BY <1>2, <1>4, <3>1 DEF Band
    <3> QED
      BY <1>8, <2>5, <3>1, <3>2
  <2>6. ASSUME p[k].M, k = 3 PROVE p[k].R + p[1].R = obs[bands[k]].R
    <3>1. "L5" \in Has(obs) /\ p[k].R = x.R51 /\ bands[k] = "L5"
      BY <1>7, <2>1, <2>2, <2>6
    <3>2. x.R51 = obs["L5"].R - x.R1 /\ x.R1 \in Int /\ obs["L5"].R \in Int
      BY <1>2, <1>4, <3>1 DEF Band
    <3> QED
      BY <1>8, <2>6, <3>1, <3>2
  <2> QED
    BY <2>1, <2>2, <2>3, <2>4, <2>5, <2>6
<1> QED
  BY <1>5, <1>7, <1>9, Zenon DEF PartRight

\* M916 of two epochs that have their common satellites in the same places
SatRight(s, id, b, r) ==
    LET Read(part, obs) == PartRight(part, obs, Bands[SystemOf(s.id)])
    IN  /\ s.id = id
        /\ Read(s.rover, Seen(r, s.id))
        /\ IF s.id \in Ids(b) \cap Ids(r) THEN Read(s.base, Seen(b, s.id)) ELSE s.base = <<>>

M916Right(m, b, r) ==
    /\ Len(m.sats) = Len(r.sats)
    /\ \A i \in DOMAIN m.sats : SatRight(m.sats[i], r.sats[i].id, b, r)

SamePlaces(b, r) == \A id \in Ids(b) \cap Ids(r) : Slot(b, id) = Slot(r, id)

\* The bytes of a satellite
SatWritten(sat) ==
    LET Part(side) == IF ~Written(sat, side) THEN <<>> ELSE PartOf(sat, side, Bands[GNSS_PRN(sat.id)])
    IN  [id |-> sat.id, flag |-> sat.flag, base |-> Part("base"), rover |-> Part("rover")]

\* What is encoded of a satellite, whose flags are right when its place is that in the base
LEMMA SatReadsBack ==
    ASSUME NEW b, b \in Epochs, NEW r, r \in Epochs, NEW i \in DOMAIN r.sats,
           NEW id, id = r.sats[i].id, KnownOne(id), SamePlaces(b, r),
           NEW x, NEW y, NEW sat, sat = SatIs(b, r, i, id, x, y), NEW s, s = SatWritten(sat)
    PROVE  SatRight(s, id, b, r)
<1>1. PICK y0 : y0 = GNSS_PRN(id) /\ y0 \in System /\ SystemOf(id) = y0
  BY SystemIs DEF KnownOne
<1>2. sat.id = id /\ sat.flag = pbFlag(b, r, i) /\ sat["rover"] = Side(r.sats[i].obs, x)
      /\ (id \in Ids(b) => sat["base"] = Side(b.sats[Slot(b, id)].obs, y))
  BY Zenon DEF SatIs
<1>3. /\ s.id = id
      /\ s.rover = IF ~Written(sat, "rover") THEN <<>> ELSE PartOf(sat, "rover", Bands[y0])
      /\ s.base = IF ~Written(sat, "base") THEN <<>> ELSE PartOf(sat, "base", Bands[y0])
  BY <1>1, <1>2, Zenon DEF SatWritten
<1>4. id \in Ids(r) /\ Slot(r, id) = i /\ Seen(r, id) = r.sats[i].obs
      /\ \A l \in Band : r.sats[i].obs[l].R \in Int
  BY AtItsSlot, EpochTypes DEF Ids
<1>5. PartRight(s.rover, Seen(r, id), Bands[y0])
  <2>1. Written(sat, "rover")
    BY <1>2 DEF Written, pbFlag
  <2>2. PartRight(PartOf(sat, "rover", Bands[y0]), r.sats[i].obs, Bands[y0])
    BY <1>1, <1>2, <1>4, SideReadsBack, Zenon
  <2> QED
    BY <1>3, <1>4, <2>1, <2>2, Zenon
<1>6. CASE id \in Ids(b)
  <2>1. PICK j \in DOMAIN b.sats : b.sats[j].id = id /\ Slot(b, id) = j /\ Seen(b, id) = b.sats[j].obs
    BY <1>6, IdAt
  <2>2. j = i
    BY <1>4, <1>6, <2>1 DEF SamePlaces
  <2>3. Written(sat, "base")
    BY <1>2, <1>4, <2>1, <2>2 DEF Written, pbFlag
  <2>4. \A l \in Band : b.sats[j].obs[l].R \in Int
    BY EpochTypes
  <2>5. sat["base"] = Side(b.sats[j].obs, y)
    BY <1>2, <1>6, <2>1, Zenon
  <2>6. PartRight(PartOf(sat, "base", Bands[y0]), b.sats[j].obs, Bands[y0])
    BY <1>1, <2>4, <2>5, SideReadsBack, Zenon
  <2>7. PartRight(s.base, Seen(b, id), Bands[y0])
    BY <1>3, <2>1, <2>3, <2>6, Zenon
  <2> QED
    BY <1>1, <1>3, <1>4, <1>5, <1>6, <2>7, Zenon DEF SatRight
<1>7. CASE id \notin Ids(b)
  <2>1. ~Written(sat, "base")
    <3>1. ASSUME i \in DOMAIN b.sats, b.sats[i].id \in Ids(r) PROVE FALSE
      <4>1. PICK k : k = b.sats[i].id /\ k \in Ids(b) /\ Slot(b, k) = i
        BY <3>1, AtItsSlot DEF Ids
      <4>2. Slot(r, k) = i
        BY <3>1, <4>1 DEF SamePlaces
      <4>3. PICK j \in DOMAIN r.sats : r.sats[j].id = k /\ Slot(r, k) = j
        BY <3>1, <4>1, IdAt
      <4> QED
        BY <1>7, <4>1, <4>2, <4>3
    <3> QED
      BY <1>2, <3>1 DEF Written, pbFlag
  <2> QED
    BY <1>1, <1>3, <1>5, <1>7, <2>1, Zenon DEF SatRight
<1> QED
  BY <1>6, <1>7

\* So M916 is right, whatever was in memory.
LEMMA M916ReadsBack ==
    ASSUME NEW b, b \in Epochs, NEW r, r \in Epochs, NEW g, r.t \in TimeOfWeek, r.sats # <<>>,
           Known(Ids(r)), SamePlaces(b, r)
    PROVE  CreateM916TotalInfor(b, r, g) # None
           /\ M916Right(EncodeM916_2B(CreateM916TotalInfor(b, r, g)[1]), b, r)
<1>1. PICK n \in Nat \ {0} : n = Len(r.sats) /\ DOMAIN r.sats = 1..n
  <2>1. r.sats \in Seq(Observed)
    BY EpochTypes
  <2>2. Len(r.sats) # 0
    BY <2>1
  <2> QED
    BY <2>1, <2>2
<1>2. PICK R1, m : R1 = R1After(b, r, g) /\ m = MixedOf(b, r, n, R1)
  OBVIOUS
<1> DEFINE Sat(i) == SatIs(b, r, i, r.sats[i].id, R1[i - 1], R1[n + i - 1])
<1>3. CreateM916TotalInfor(b, r, g) = <<m>>
  BY <1>1, <1>2, MixedIs, Zenon
<1>4. PICK e : e = EncodeM916_2B(m)
  OBVIOUS
<1>5. m.sats = [i \in 1..n |-> Sat(i)]
  BY <1>2, Zenon DEF MixedOf
<1> HIDE DEF Sat
<1>6. e.sats = [i \in 1..n |-> SatWritten(Sat(i))]
  <2>1. e.sats = [i \in DOMAIN m.sats |-> SatWritten(m.sats[i])]
    BY <1>4, Zenon DEF EncodeM916_2B, SatWritten, PartOf
  <2> QED
    BY <1>5, <2>1
<1>7. ASSUME NEW i \in 1..n PROVE SatRight(SatWritten(Sat(i)), r.sats[i].id, b, r)
  <2>1. KnownOne(r.sats[i].id)
    BY <1>1 DEF Known, KnownOne, Ids
  <2>2. Sat(i) = SatIs(b, r, i, r.sats[i].id, R1[i - 1], R1[n + i - 1])
    BY Zenon DEF Sat
  <2> QED
    BY <1>1, <2>1, <2>2, SatReadsBack, Zenon
<1>8. M916Right(e, b, r)
  <2>1. Len(e.sats) = n /\ DOMAIN e.sats = 1..n /\ \A i \in 1..n : e.sats[i] = SatWritten(Sat(i))
    BY <1>6
  <2> QED
    BY <1>1, <1>7, <2>1 DEF M916Right
<1>9. <<m>>[1] = m /\ <<m>> # None
  BY DEF None
<1> QED
  BY <1>3, <1>4, <1>8, <1>9, Zenon

\* The property, by the epochs that were met last
ReadsBack916 ==
    LET h == rover[1]
    IN  /\ logging /\ rover # None /\ h.epoch.t \in TimeOfWeek /\ h.epoch.sats # <<>>
        /\ Known(Ids(h.epoch)) /\ SamePlaces(h.base, h.epoch)
        => M916Right(m916[1], h.base, h.epoch)

\* ReadsBack916 is inductive, given Kept.
LEMMA ReadsBack916Next == Kept /\ ReadsBack916 /\ [Next]_vars => ReadsBack916'
<1> SUFFICES ASSUME Kept, ReadsBack916, [Next]_vars PROVE ReadsBack916'
  OBVIOUS
<1>1. CASE UNCHANGED <<logging, rover, m916>>
  BY <1>1, Zenon DEF ReadsBack916
<1>2. ASSUME NEW e \in BaseEpochs, PushBase(e) PROVE UNCHANGED <<logging, rover, m916>>
  BY <1>2, Zenon DEF PushBase, output
<1>3. ASSUME NEW w \in Weeks, SendEphemerisToQRtk(w) PROVE UNCHANGED <<logging, rover, m916>>
  BY <1>3, Zenon DEF SendEphemerisToQRtk, output
<1>4. ASSUME NEW i \in Satellites \cap Numbers.GLO, NEW c \in Channels, SendGloEphemToQRtk(i, c)
      PROVE  UNCHANGED <<logging, rover, m916>>
  BY <1>4, Zenon DEF SendGloEphemToQRtk, output
<1>5. CASE UNCHANGED vars
  BY <1>1, <1>5, Zenon DEF vars, memory, output
<1>6. ASSUME NEW r \in RoverEpochs, NEW up \in Horizons, PushRover(r, up) PROVE ReadsBack916'
  <2>1. PICK b \in BaseEpochs : base = <<b>> /\ b \in Epochs
    BY <1>6, BaseIs DEF PushRover
  <2>2. r \in Epochs
    BY DEF Epochs
  <2>3. PICK h : h = [epoch |-> r, base |-> b, up |-> up, current |-> current]
    OBVIOUS
  <2>4. rover' = <<h>> /\ rover'[1] = h /\ h.epoch = r /\ h.base = b /\ logging' = logging
    <3>1. rover' = <<h>>
      BY <1>6, <2>1, <2>2, <2>3, RoverDoes, Zenon DEF RoverDone
    <3>2. logging' = logging
      BY <1>6, Zenon DEF PushRover
    <3> QED
      BY <2>3, <3>1, <3>2
  <2>5. PICK g \in Garbage :
          m916' = IF logging /\ CreateM916TotalInfor(b, r, g) # None
                  THEN <<EncodeM916_2B(CreateM916TotalInfor(b, r, g)[1])>> ELSE m916
    <3>1. base[1] = b
      BY <2>1
    <3> QED
      BY <1>6, <3>1, Zenon DEF PushRover, SendEpochToQRtk
  <2>6. ASSUME logging, r.t \in TimeOfWeek, r.sats # <<>>, Known(Ids(r)), SamePlaces(b, r)
        PROVE  M916Right(m916'[1], b, r)
    <3>1. PICK e : e = EncodeM916_2B(CreateM916TotalInfor(b, r, g)[1])
      OBVIOUS
    <3>2. CreateM916TotalInfor(b, r, g) # None /\ M916Right(e, b, r)
      BY <2>1, <2>2, <2>6, <3>1, M916ReadsBack, Zenon
    <3>3. m916' = <<e>>
      BY <2>5, <2>6, <3>1, <3>2, Zenon
    <3>4. m916'[1] = e
      BY <3>3
    <3> QED
      BY <3>2, <3>4, Zenon
  <2> QED
    BY <2>4, <2>6, Zenon DEF ReadsBack916
<1> QED
  BY <1>1, <1>2, <1>3, <1>4, <1>5, <1>6, Zenon DEF Next

\* When the satellites that both epochs have are in the same places of both, the bytes of M916 give
\* back the rover's codes and phases of each satellite and the base's of just those that it has.
THEOREM MixedRight == Spec => []M916AsObserved
<1>1. Init => Kept /\ ReadsBack916
  BY KeptInit, Zenon DEF Init, ReadsBack916
<1>2. Kept /\ ReadsBack916 /\ [Next]_vars => Kept' /\ ReadsBack916'
  BY KeptNext, ReadsBack916Next
<1>3. ReadsBack916 => M916AsObserved
  BY Zenon DEF ReadsBack916, M916AsObserved, M916Right, SatRight, PartRight, SamePlaces
<1> QED
  BY <1>1, <1>2, <1>3, PTL DEF Spec
=============================================================================
