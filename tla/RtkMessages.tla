------------------------------ MODULE RtkMessages ------------------------------
(***************************************************************************)
(* What CQRtkImpl (src/OEMRtk-N/QRtkImpl.cpp) makes of a rover epoch and   *)
(* the last base epoch: M919, the differences that the engine solves, with *)
(* the whole cycles it remembers from epoch to epoch; M916, the same       *)
(* observations undifferenced; and both as the bytes that are logged.  How *)
(* epochs get here is in RtkEpochs.tla.                                    *)
(*                                                                         *)
(* Codes are integers in tenths of a metre, as in M916, phases in cycles   *)
(* of so many of these; a quotient by a wavelength is kept as its          *)
(* numerator and the wavelength.  A message is a sequence of its fields of *)
(* 16 bytes, with the numbers of bytes in front of and behind them.  Left  *)
(* out: positions, signal to noise, slips, azimuth, and the differences of *)
(* two bands of the base that M919 has besides; the Doppler, which is in   *)
(* neither message.  Both messages are configured (_rtk_dat_type).         *)
(***************************************************************************)
EXTENDS Integers, Sequences, FiniteSets, SequencesExt, FiniteSetsExt

CONSTANTS Satellites,     \* the numbers of the satellites that may come
          SignalWave,     \* the wavelengths of GPS and BDS
          GloWave,        \* the wavelengths of a channel of GLONASS
          MaxSat,         \* MAXSAT
          CycleLimit,     \* CYCLE_LIMIT
          Word,           \* one more than the greatest unsigned int
          Garbage,        \* what is in memory that nobody has written
          Beyond,         \* what lies behind the end of GNSS_PRN
          RoverEpochs, BaseEpochs,    \* the epochs that may come
          Horizons,       \* the sets of satellites that the engine may see above the horizon
          Weeks,          \* the weeks and seconds that an ephemeris of GPS may have
          Channels,       \* the channels a GLONASS ephemeris may name
          MaxSteps        \* bound on the epochs and ephemerides

VARIABLES cycle,          \* NCycle
          wave,           \* m_theX
          current,        \* m_nWeekCurForRTCM, m_dSecondCurForRTCM
          base,           \* m_baseLastEpoch
          logging,        \* log_config._dat_type & RAW_DATA_OUTPUT_SINOINTER
          info,           \* m919TotalInfo of the last SendEpochToQRtk
          given,          \* the satellites that SendOneEpochToRtk got with it
          m919, m916,     \* what was last written to the log
          rover,          \* the last rover epoch; the base, the horizon and the ephemeris it met
          sent,           \* the last difference of every satellite and band given to the engine
          steps           \* epochs and ephemerides so far

memory == <<cycle, wave, current, base, logging>>
output == <<info, given, m919, m916, rover, sent>>
vars == <<memory, output, steps>>

Band == {"L1", "L2", "L5"}
System == {"GPS", "GLO", "GAL", "BDS"}
None == <<>>
SecondsOfWeek == 7 * 24 * 60 * 60
HalfWeek == 7 * 12 * 60 * 60
TimeOfWeek == 0..SecondsOfWeek
Numbers == [GPS |-> 1..37, GLO |-> 38..61, GAL |-> 71..106, BDS |-> 141..203]

Observed == [id : Satellites, obs : [Band -> [R : Int, L : Int]]]

ASSUME BoundsAssumption ==
    CycleLimit \in Nat \ {0} /\ MaxSat \in Nat /\ Word \in Nat \ {0} /\ MaxSteps \in Nat

ASSUME SatellitesAssumption ==
    /\ Satellites \subseteq UNION {Numbers[s] : s \in System}
    /\ Garbage \subseteq Int /\ Beyond \in System \cup {"Unknown"}

ASSUME WavesAssumption ==
    /\ \A s \in {"GPS", "BDS"} : SignalWave[s] \in [Band -> Nat \ {0}]
    /\ \A c \in Channels : c > 20 \/ GloWave[c] \in [Band -> Nat \ {0}]

\* An epoch names a satellite once (bFindObsIndex).
ASSUME EpochsAssumption ==
    /\ RoverEpochs \cup BaseEpochs \subseteq [week : Int, t : Int, sats : Seq(Observed)]
    /\ \A e \in RoverEpochs \cup BaseEpochs :
         Len(e.sats) <= MaxSat /\ \A i, j \in DOMAIN e.sats : e.sats[i].id = e.sats[j].id => i = j

\* The second of an ephemeris is one of a week.
ASSUME WeeksAssumption == Weeks \subseteq [week : Int, second : TimeOfWeek]

-----------------------------------------------------------------------------
\* Satellites

SystemOf(id) == CHOOSE s \in System : id \in Numbers[s]

\* The table the encoders look a satellite up in, of 201 entries
GNSS_PRN(id) ==
    CASE id \in 1..32 -> "GPS" [] id \in 38..61 -> "GLO" [] id \in 71..110 -> "GAL"
      [] id \in 141..177 -> "BDS" [] id > 200 -> Beyond [] OTHER -> "Unknown"

InitWaveLength == [id \in Satellites |-> SignalWave[IF id \in Numbers.BDS THEN "BDS" ELSE "GPS"]]

Ids(e) == {e.sats[i].id : i \in DOMAIN e.sats}
Slot(e, id) == CHOOSE i \in DOMAIN e.sats : e.sats[i].id = id

-----------------------------------------------------------------------------
\* M919

\* Mutant: the satellites of the two epochs are matched by their place.
RoverBySlot(r, b, id) == r.sats[IF Slot(b, id) \in DOMAIN r.sats THEN Slot(b, id) ELSE 1].obs

RoverOf(r, b, id) == r.sats[Slot(r, id)].obs

\* The conversion to int.
Cut0(x, w) == IF x >= 0 THEN x \div w ELSE -((-x) \div w)

Within(x, n, w) == x - n * w \in -CycleLimit * w..CycleLimit * w

\* Mutant: the cycles are counted anew in every epoch.
Recounted(n, x, w) == Cut0(x, w)

\* The whole cycles taken off a difference: those of the last epoch while they will do.
CycleOf(n, x, w) == IF n # 0 /\ Within(x, n, w) THEN n ELSE Cut0(x, w)

Unmeasured == [used |-> FALSE, pr |-> 0, cp |-> 0, w |-> 1]
Measured(a, b) == a.R # 0 /\ b.R # 0 /\ a.L # 0 /\ b.L # 0

\* How much more cycles the carriers of base and rover differ by than their codes
Excess(a, b, w) == (a.L - b.L) * w - (a.R - b.R)

Differenced(a, b, id, band) ==
    LET w == wave[id][band]
        x == Excess(a, b, w)
    IN  IF ~Measured(a, b) THEN Unmeasured
        ELSE [used |-> TRUE, pr |-> a.R - b.R, cp |-> x - CycleOf(cycle[id][band], x, w) * w, w |-> w]

\* The week of a rover epoch: that which brings it next to the last ephemeris
GetSinglePosition(e) ==
    IF current.week <= 1024 THEN e.week
    ELSE current.week + CASE current.second - e.t > HalfWeek -> 1
                          [] e.t - current.second > HalfWeek -> -1
                          [] OTHER -> 0

\* The satellites of the base that the rover has too, above the horizon
Common(b, r, up) ==
    FlattenSeq([i \in DOMAIN b.sats |->
                   IF b.sats[i].id \in Ids(r) \cap up THEN <<b.sats[i]>> ELSE <<>>])

CreateM919TotalInfor(b, r, up) ==
    LET common == Common(b, r, up)
        Entry(s) == [PRN |-> s.id,
                     Lx |-> [l \in Band |-> Differenced(s.obs[l], RoverOf(r, b, s.id)[l], s.id, l)]]
    IN  IF r.t \notin TimeOfWeek THEN None
        ELSE <<[week |-> GetSinglePosition(r), t |-> r.t,
                sats |-> [i \in 1..Min({Len(common), MaxSat}) |-> Entry(common[i])]]>>

CountedCycles(b, r, up) ==
    [id \in Satellites |-> [l \in Band |->
        IF id \notin Ids(b) \cap Ids(r) \cap up THEN cycle[id][l]
        ELSE LET p == b.sats[Slot(b, id)].obs[l]
                 q == RoverOf(r, b, id)[l]
                 w == wave[id][l]
             IN  IF Measured(p, q) THEN CycleOf(cycle[id][l], Excess(p, q, w), w) ELSE cycle[id][l]]]

-----------------------------------------------------------------------------
\* M919 as bytes

\* The bands bFrqFlag and bFrqFlagHigh name, in the order they are written
Bands == [GPS |-> <<"L1", "L2">>, GLO |-> <<"L1", "L2">>, GAL |-> <<"L1", "L2", "L5">>,
          BDS |-> <<"L1", "L2", "L5">>, Unknown |-> <<>>]

\* Mutant: the bands of GLONASS are taken for three.
GetM919FrqNum3(sys) == IF sys = "GLO" THEN 3 ELSE Len(Bands[sys])

GetM919FrqNum(sys) == Len(Bands[sys])

GetM919SatNum(sys, sats) == Cardinality({i \in DOMAIN sats : sats[i].PRN \in Numbers[sys]})

\* What the head says follows it: a head of M919, the satellites, and what is behind them
iRealMesLen(sats) ==
    LET LenOf(s) == GetM919SatNum(s, sats) * (16 + 16 * GetM919FrqNum(s))
    IN  24 + LenOf("GPS") + LenOf("BDS") + LenOf("GLO") + LenOf("GAL") + 68 + 132

Fields(sat) ==
    <<[is |-> "satellite", of |-> sat.PRN]>>
        \o [k \in DOMAIN Bands[GNSS_PRN(sat.PRN)] |->
               [is |-> "band", of |-> sat.Lx[Bands[GNSS_PRN(sat.PRN)][k]]]]

\* The satellites that are counted while they are written
bEncodeSatNum(sats) == Cardinality({i \in DOMAIN sats : GNSS_PRN(sats[i].PRN) \in System})

\* The checksum is of the bytes the head announces, and comes where the writing has got to.
EncodeM919_2B(m) ==
    LET fields == FlattenSeq([i \in DOMAIN m.sats |-> Fields(m.sats[i])])
    IN  [bSatNo |-> bEncodeSatNum(m.sats), week |-> m.week, t |-> m.t, fields |-> fields,
         checked |-> 28 + iRealMesLen(m.sats), crcAt |-> 28 + 24 + 16 * Len(fields) + 68 + 132,
         length |-> 28 + iRealMesLen(m.sats) + 4]

-----------------------------------------------------------------------------
\* M916, and its bytes

CutDouble2Int(x) == x % Word

NoSide == [M |-> {}, R1 |-> 0, R21 |-> 0, R51 |-> 0, L |-> [l \in Band |-> 0]]

Has(obs) == {l \in Band : obs[l].R > 0}

\* R1: the code of the first band that a satellite has, or that of the one before if it has none
CodeOf(obs, before) ==
    LET M == Has(obs)
    IN  CASE "L1" \in M -> obs["L1"].R [] "L1" \notin M /\ "L2" \in M -> obs["L2"].R
          [] M = {"L5"} -> obs["L5"].R [] M = {} -> before

\* One side of a satellite
Side(obs, before) ==
    LET R1 == CodeOf(obs, before)
    IN  [M |-> Has(obs), R1 |-> R1, R21 |-> IF "L2" \in Has(obs) THEN obs["L2"].R - R1 ELSE 0,
         R51 |-> IF "L5" \in Has(obs) THEN obs["L5"].R - R1 ELSE 0,
         L |-> [l \in Band |-> CutDouble2Int(obs[l].L * 256)]]

\* pbFlag: of the rover at the place of the satellite in the rover epoch, which is that in the
\* message, and of the base at its place in the base epoch
pbFlag(b, r, i) ==
    (IF i \in DOMAIN r.sats THEN {"rover"} ELSE {})
        \cup (IF i \in DOMAIN b.sats /\ b.sats[i].id \in Ids(r) THEN {"base"} ELSE {})

\* R1 is one variable, of the loop over the rover's satellites and of that over the base's after it.
R1After(b, r, garbage) ==
    LET n == Len(r.sats)
        R1[k \in 0..2 * n] ==
            IF k = 0 THEN garbage
            ELSE IF k <= n THEN CodeOf(r.sats[k].obs, R1[k - 1])
            ELSE LET id == r.sats[k - n].id
                 IN  IF id \in Ids(b) THEN CodeOf(b.sats[Slot(b, id)].obs, R1[k - 1]) ELSE R1[k - 1]
    IN  R1

CreateM916TotalInfor(b, r, garbage) ==
    LET n == Len(r.sats)
        R1 == R1After(b, r, garbage)
        SatOf(i, id) ==
            [id |-> id, flag |-> pbFlag(b, r, i), rover |-> Side(r.sats[i].obs, R1[i - 1]),
             base |-> IF id \in Ids(b) THEN Side(b.sats[Slot(b, id)].obs, R1[n + i - 1]) ELSE NoSide]
    IN  IF r.t \notin TimeOfWeek \/ n = 0 THEN None
        ELSE <<[week |-> GetSinglePosition(r), t |-> r.t,
                sats |-> [i \in 1..n |-> SatOf(i, r.sats[i].id)]]>>

\* Mutant: the base's part is written where there is one of the rover.
WrittenByRover(sat, side) == "rover" \in sat.flag

Written(sat, side) == side \in sat.flag

\* The bands of a satellite are written for those sides that its flag names.
EncodeM916_2B(m) ==
    LET Part(sat, side) ==
            IF ~Written(sat, side) THEN <<>>
            ELSE [k \in DOMAIN Bands[GNSS_PRN(sat.id)] |->
                    LET l == Bands[GNSS_PRN(sat.id)][k]
                    IN  [M |-> l \in sat[side].M, L |-> sat[side].L[l],
                         R |-> CASE l = "L1" -> sat[side].R1 [] l = "L2" -> sat[side].R21
                                 [] l = "L5" -> sat[side].R51]]
    IN  [week |-> m.week, t |-> m.t,
         sats |-> [i \in DOMAIN m.sats |-> [id |-> m.sats[i].id, flag |-> m.sats[i].flag,
                                            base |-> Part(m.sats[i], "base"),
                                            rover |-> Part(m.sats[i], "rover")]]]

-----------------------------------------------------------------------------
Init ==
    /\ \E g \in Garbage : cycle = [id \in Satellites |-> [l \in Band |-> g]]
    /\ wave = InitWaveLength
    /\ current = [week |-> 0, second |-> 0]
    /\ base = None /\ logging \in BOOLEAN
    /\ info = None /\ given = None /\ m919 = None /\ m916 = None /\ rover = None
    /\ sent = [id \in Satellites |-> [l \in Band |-> None]]
    /\ steps = 0

\* Another epoch or ephemeris, of at most MaxSteps
Another == steps < MaxSteps /\ steps' = steps + 1

\* A base epoch is published, and never cleared.
PushBase(e) ==
    /\ Another
    /\ base' = <<e>>
    /\ UNCHANGED <<cycle, wave, current, logging, output>>

SendEphemerisToQRtk(w) ==
    /\ Another
    /\ current' = w
    /\ UNCHANGED <<cycle, wave, base, logging, output>>

SendGloEphemToQRtk(id, channel) ==
    /\ Another
    /\ wave' = IF channel > 20 THEN wave ELSE [wave EXCEPT ![id] = GloWave[channel]]
    /\ UNCHANGED <<cycle, current, base, logging, output>>

\* What Solve has done when it calls SendOneEpochToRtk: the message is logged first, and its
\* number of satellites set to that of those written.
SendEpochToQRtk(b, r, up) ==
    /\ info' = CreateM919TotalInfor(b, r, up)
    /\ cycle' = IF info' = None THEN cycle ELSE CountedCycles(b, r, up)
    /\ m919' = IF logging /\ info' # None THEN <<EncodeM919_2B(info'[1])>> ELSE m919
    /\ given' = IF info' = None THEN given
                ELSE IF logging THEN SubSeq(info'[1].sats, 1, m919'[1].bSatNo)
                ELSE info'[1].sats
    /\ \E g \in Garbage :
        LET m == CreateM916TotalInfor(b, r, g)
        IN  m916' = IF logging /\ m # None THEN <<EncodeM916_2B(m[1])>> ELSE m916

PushRover(r, up) ==
    /\ Another
    /\ base # None
    /\ SendEpochToQRtk(base[1], r, up)
    /\ rover' = <<[epoch |-> r, base |-> base[1], up |-> up, current |-> current]>>
    /\ sent' = IF info' = None THEN sent
               ELSE [id \in Satellites |-> [l \in Band |->
                       LET now == {i \in DOMAIN info'[1].sats : info'[1].sats[i].PRN = id
                                                                  /\ info'[1].sats[i].Lx[l].used}
                           a == base[1].sats[Slot(base[1], id)].obs[l]
                           b == r.sats[Slot(r, id)].obs[l]
                       IN  IF now = {} THEN sent[id][l]
                           ELSE [x |-> Excess(a, b, wave[id][l]), w |-> wave[id][l],
                                 cp |-> info'[1].sats[Max(now)].Lx[l].cp]]]
    /\ UNCHANGED <<wave, current, base, logging>>

Next ==
    \/ \E e \in BaseEpochs : PushBase(e)
    \/ \E w \in Weeks : SendEphemerisToQRtk(w)
    \/ \E id \in Satellites \cap Numbers.GLO, c \in Channels : SendGloEphemToQRtk(id, c)
    \/ \E r \in RoverEpochs, up \in Horizons : PushRover(r, up)

Spec == Init /\ [][Next]_vars

-----------------------------------------------------------------------------
\* Properties

Seen(e, id) == (CHOOSE s \in Range(e.sats) : s.id = id).obs

\* The engine gets each satellite that both epochs have and that is above the horizon, once, with
\* the differences of that satellite and band, a carrier's but for whole cycles, where both have
\* them; and the rover epoch in the week next to the last ephemeris.
DifferencesAsObserved ==
    info # None =>
        LET m == info[1]
            h == rover[1]
            common == Ids(h.base) \cap Ids(h.epoch) \cap h.up
            Right(id, l, d) ==
                LET p == Seen(h.base, id)[l]
                    q == Seen(h.epoch, id)[l]
                IN  /\ d.used <=> 0 \notin {p.R, q.R, p.L, q.L}
                    /\ d.used => /\ d.pr = p.R - q.R
                                 /\ ((p.L - q.L) * d.w - d.pr - d.cp) % d.w = 0
        IN  h.epoch.t \in TimeOfWeek =>
              /\ {s.PRN : s \in Range(m.sats)} = common /\ Len(m.sats) = Cardinality(common)
              /\ \A s \in Range(m.sats), l \in Band : Right(s.PRN, l, s.Lx[l])
              /\ h.current.week > 1024 =>
                    (m.week - h.current.week) * SecondsOfWeek + m.t - h.current.second \in -HalfWeek..HalfWeek

\* The carrier less code of a band stays within CYCLE_LIMIT cycles; and from one difference to
\* the next it changes as what was observed, without a jump of whole cycles, unless it would
\* leave the limit, the wavelength changes, or there were none to take off.
CycleKept ==
    [][\A id \in Satellites, l \in Band :
         sent'[id][l] # None =>
            LET new == sent'[id][l]
                old == sent[id][l]
            IN  /\ new.cp \in -CycleLimit * new.w..CycleLimit * new.w
                /\ old # None =>
                     LET kept == new.x - (old.x - old.cp)
                     IN  old.w = new.w /\ old.x # old.cp /\ kept \in -CycleLimit * new.w..CycleLimit * new.w
                           => new.cp = kept]_vars

Known(sats) == \A id \in sats : GNSS_PRN(id) \in System /\ id \in Numbers[GNSS_PRN(id)]

\* Who reads M919 by its head, and by the bands of the system of each satellite, finds the
\* satellites the engine gets, their differences in their bands, and the checksum of all of it
\* where the length says.
M919ReadsBack ==
    logging /\ info # None /\ Known({s.PRN : s \in Range(info[1].sats)}) =>
        LET m == m919[1]
            sats == info[1].sats
            BandsOf(i) == Bands[SystemOf(sats[i].PRN)]
            Start[i \in DOMAIN sats] == IF i = 1 THEN 1 ELSE Start[i - 1] + 1 + Len(BandsOf(i - 1))
        IN  /\ given = sats /\ m.bSatNo = Len(sats)
            /\ m.week = info[1].week /\ m.t = info[1].t
            /\ \A i \in DOMAIN sats :
                 /\ m.fields[Start[i]].of = sats[i].PRN
                 /\ \A k \in DOMAIN BandsOf(i) : m.fields[Start[i] + k].of = sats[i].Lx[BandsOf(i)[k]]
            /\ m.crcAt = m.checked /\ m.length = m.checked + 4

\* When the satellites that both epochs have are in the same places of both, M916 gives back the
\* rover's codes and phases of each satellite, and the base's of just those that it has.
M916AsObserved ==
    LET h == rover[1]
        Both == Ids(h.base) \cap Ids(h.epoch)
        ReadsBack(part, obs, id) ==
            LET bands == Bands[SystemOf(id)]
            IN  /\ Len(part) = Len(bands)
                /\ \A k \in DOMAIN part :
                     /\ part[k].M <=> obs[bands[k]].R > 0
                     /\ part[k].M => part[k].R + (IF k = 1 THEN 0 ELSE part[1].R) = obs[bands[k]].R
                     /\ part[k].L = (obs[bands[k]].L * 256) % Word
    IN  /\ logging /\ rover # None /\ h.epoch.t \in TimeOfWeek /\ h.epoch.sats # <<>>
        /\ Known(Ids(h.epoch)) /\ \A id \in Both : Slot(h.base, id) = Slot(h.epoch, id)
        => /\ Len(m916[1].sats) = Len(h.epoch.sats)
           /\ \A i \in DOMAIN m916[1].sats :
                LET s == m916[1].sats[i]
                IN  /\ s.id = h.epoch.sats[i].id
                    /\ ReadsBack(s.rover, Seen(h.epoch, s.id), s.id)
                    /\ IF s.id \in Both THEN ReadsBack(s.base, Seen(h.base, s.id), s.id)
                       ELSE s.base = <<>>

-----------------------------------------------------------------------------
\* What comments say, and the code does not do

\* The comment of QRtkImpl.cpp:2388 has the number of satellites set to those encoded, lest it
\* be another than that of the data: the satellites the engine gets are those of the epoch, logged
\* or not, and what is checked is what is written.
CountAsEncoded ==
    logging /\ info # None => given = info[1].sats /\ m919[1].crcAt = m919[1].checked

\* A satellite of M916 has the flag of the base if the base has the satellite.
FlagsOfSatellites ==
    logging /\ rover # None /\ rover[1].epoch.t \in TimeOfWeek /\ rover[1].epoch.sats # <<>> =>
        \A s \in Range(m916[1].sats) : "base" \in s.flag <=> s.id \in Ids(rover[1].base)
=============================================================================
