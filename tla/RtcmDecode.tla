------------------------------ MODULE RtcmDecode ------------------------------
(***************************************************************************)
(* What the messages say that CQRtkImpl::ParseRtcm (src/OEMRtk-N) finds:   *)
(* the observations of MSM4 and MSM7, the ephemerides 1019, 1020, 1042 and *)
(* 1046 and the coordinate of 1005, from one source, the base.  How bytes  *)
(* become messages is in RtcmStream.tla, what two sources do with their    *)
(* epochs in RtkEpochs.tla.                                                *)
(*                                                                         *)
(* A message is laid out bit by bit by what sends it (Laid), and read back *)
(* at the positions the decoder computes (Field): a read that does not     *)
(* meet a field of its width gives Garbage.  What a field holds is a token *)
(* unless something depends on it; units and factors are left out.  The    *)
(* coordinate of 1005 is real bits in real bytes.  The time of an MSM is   *)
(* counted in half seconds, which is fine enough for the comparison of     *)
(* milliseconds in decode_msm4.  Left out: the slip counters, which are    *)
(* made from time and satellite, and the codes ParseRtcm returns.          *)
(***************************************************************************)
EXTENDS Integers, Sequences, FiniteSets, SequencesExt, FiniteSetsExt

CONSTANTS Observations,   \* the MSM that may come
          Ephemerides,    \* the ephemeris messages that may come
          Coordinates,    \* the coordinates of the 1005 that may come
          MaxMessages,    \* bound on the messages
          MaxSat,         \* MAXSAT
          Word,           \* the bits of an int, 32 in the code
          Enabled,        \* _constellationMask
          LeapSecond,     \* m_iLeapSecond and LEAP_SECONDS
          EphFromBase,    \* not log_config._rtk_eph_type
          Garbage         \* what is read where no field is

VARIABLES epoch,          \* m_baseEpoch
          current,        \* m_nWeekCurForRTCM, m_dSecondCurForRTCM
          coord,          \* m_baseCoord.ARP; <<>> while m_bHasBaseCoord is false
          baseLast,       \* m_baseLastEpoch
          given,          \* the last ephemeris sent to the engine; <<>> when there is none
          held,           \* the MSM of one time that came last
          heldLast,       \* the MSM that baseLast was made of
          dated,          \* the last GPS ephemeris given
          datedLast,      \* the one that had been given when baseLast was made
          asked,          \* the last message that was an ephemeris to give
          placed,         \* the last coordinate sent that no component of is zero
          number          \* messages so far

decodeVars == <<epoch, current, coord, baseLast, given, held, heldLast, dated, datedLast, asked, placed, number>>

GPS == "GPS"
GLO == "GLO"
GAL == "GAL"
BDS == "BDS"
System == {GPS, GLO, GAL, BDS}

DaySeconds == 24 * 60 * 60
Day == 2 * DaySeconds     \* half seconds
Week == 7 * Day
ThreeHours == 3 * 2 * 3600
FirstPrn == [GPS |-> 1, GLO |-> 38, GAL |-> 71, BDS |-> 141]
LastPrn == [GPS |-> 37, GLO |-> 61, GAL |-> 106, BDS |-> 203]
MaxPrn == 204
MaxSysPrn == 38

ASSUME DecodeAssumption ==
    /\ MaxMessages \in Nat /\ MaxSat \in Nat /\ Word \in Nat /\ Word >= 6 /\ LeapSecond \in 0..3600
    /\ Enabled \subseteq System /\ EphFromBase \in BOOLEAN

\* An MSM is of an instant of its week and has satellites and signals, and no more than the 64 cells
\* of a cell mask.
ASSUME ObservationsAssumption ==
    \A m \in Observations :
        /\ m.week \in Nat /\ m.tow \in 1..Week - 1
        /\ m.sys \in System /\ m.kind \in {4, 7} /\ m.sync \in {0, 1} /\ m.cut \in BOOLEAN
        /\ m.sats \in Seq(1..64) \ {<<>>} /\ m.sigs \in Seq(1..32) \ {<<>>}
        /\ Len(m.sats) * Len(m.sigs) <= 64

\* Satellites have numbers of their fields, the times are of a week, and the weeks are those that the
\* fields tell apart: of GPS from 2019 on, of BeiDou to the end of 2031, which is when
\* decode_type1042 begins to take them for others.  The years of GLONASS are 1996 to 2099.
Has1019(m) == m.sat \in 1..37 /\ m.week \in 2048..3071 /\ m.health \in [Sv_hlth : 0..63]
Has1042(m) == m.sat \in 1..63 /\ m.week \in 1356..2711 /\ m.health \in [health : 0..1]
Has1046(m) ==
    /\ m.sat \in 1..63 /\ m.week \in 1024..5119
    /\ m.health \in [e5b_hs : 0..3, e5b_dvs : 0..1, E1B_hs : 0..3, E1B_dvs : 0..1]
Has1020(m) ==
    /\ m.sat \in 1..63 /\ m.health \in [Bn : 0..1]
    /\ m.date["N4"] \in 1..26 /\ m.date["NT"] \in 1..1461 /\ m.date["tb"] \in 0..95

ASSUME EphemeridesAssumption ==
    \A m \in Ephemerides :
        /\ \/ m.type = 1019 /\ Has1019(m)
           \/ m.type = 1042 /\ Has1042(m)
           \/ m.type = 1046 /\ Has1046(m)
           \/ m.type = 1020 /\ Has1020(m)
        /\ m.second \in Nat /\ 2 * m.second < Week

\* <<>> stands for no message.
ASSUME MessagesAssumption == <<>> \notin Ephemerides

-----------------------------------------------------------------------------
(* Messages as they are sent, and reading them *)

Range255 == <<"255">>     \* a range that is not given
NotGiven == <<"void">>    \* a fine range that is not given

Bits(w, v) == [w |-> w, v |-> v]

\* The bits of fields, one after the other.  A bit knows of what field it is the first, the second...
Laid(fields) ==
    FlattenSeq([k \in DOMAIN fields |->
        [j \in 1..fields[k].w |-> [of |-> fields[k].v, nth |-> j, width |-> fields[k].w]]])

\* getbitu and getbits of len bits from bit pos of a message on; the bits begin after a head of 24.
Field(bits, pos, len) ==
    IF pos - 23 \in DOMAIN bits /\ bits[pos - 23].nth = 1 /\ bits[pos - 23].width = len
    THEN bits[pos - 23].of ELSE Garbage

\* Cell k of an MSM: the cells go satellite after satellite.
CellAt(sats, sigs, k) ==
    <<sats[(k - 1) \div Len(sigs) + 1], sigs[((k - 1) % Len(sigs)) + 1]>>

\* The cells of an MSM that are present
Present(sats, sigs, cells) ==
    FlattenSeq([k \in 1..Len(sats) * Len(sigs) |->
        IF CellAt(sats, sigs, k) \in cells THEN <<CellAt(sats, sigs, k)>> ELSE <<>>])

\* The time a system counts by: BDT is 14 s behind GPST; GLONASS is the day of the week and the
\* time of day in Moscow, 3 h ahead of UTC.
SentTime(m) ==
    CASE m.sys = GLO ->
           LET moscow == (m.tow + ThreeHours - 2 * LeapSecond) % Week
           IN <<Bits(3, moscow \div Day), Bits(27, moscow % Day)>>
      [] m.sys = BDS -> <<Bits(30, (m.tow - 28) % Week)>>
      [] OTHER -> <<Bits(30, m.tow)>>

SatelliteBits(m) ==
    LET Col(w, name) == Laid([k \in 1..Len(m.sats) |->
            Bits(w, IF name = "rng" /\ m.sats[k] \in m.dead THEN Range255
                    ELSE <<name, m.sys, m.sats[k], m.tow>>)])
    IN IF m.kind = 4 THEN Col(8, "rng") \o Col(10, "mod")
       ELSE Col(8, "rng") \o Col(4, "ext") \o Col(10, "mod") \o Col(14, "rate")

CellBits(m) ==
    LET cell == Present(m.sats, m.sigs, m.cells)
        Col(w, name) == Laid([k \in 1..Len(cell) |->
            Bits(w, IF name = "pr" /\ cell[k] \in m.void THEN NotGiven
                    ELSE <<name, m.sys, cell[k], m.tow>>)])
    IN IF m.kind = 4
       THEN Col(15, "pr") \o Col(22, "cp") \o Col(4, "lock") \o Col(1, "half") \o Col(6, "cnr")
       ELSE Col(20, "pr") \o Col(24, "cp") \o Col(10, "lock") \o Col(1, "half") \o Col(10, "cnr")
              \o Col(15, "frate")

\* The head after the time
MaskBits(m) ==
    Laid(<<Bits(1, m.sync), Bits(3, 0), Bits(7, 0), Bits(2, 0), Bits(2, 0), Bits(1, 0), Bits(3, 0),
           Bits(64, m.sats), Bits(32, m.sigs), Bits(Len(m.sats) * Len(m.sigs), m.cells)>>)

MsmBits(m) ==
    Laid(<<Bits(12, m.kind), Bits(12, 0)>>) \o Laid(SentTime(m)) \o MaskBits(m)
        \o SatelliteBits(m) \o CellBits(m)

\* 8 * m_wWholeLength.  cut: the message ends 4 bytes early.
WholeLength(m) ==
    LET bytes == (24 + Len(MsmBits(m)) + 7) \div 8 + 3
    IN 8 * IF m.cut THEN bytes - 4 ELSE bytes

-----------------------------------------------------------------------------
(* MSM *)

\* The time in decode_msm_head; from 604799 s on it wraps, below 0 it does not.
HeadTime(sys, frame) ==
    LET t == IF sys = GLO
             THEN Field(frame, 48, 3) * Day + Field(frame, 51, 27) - ThreeHours + 2 * LeapSecond
             ELSE Field(frame, 48, 30) + IF sys = BDS THEN 28 ELSE 0
    IN IF t > Week - 2 THEN t - Week ELSE t

\* decode_msm_head
MsmHead(sys, frame) ==
    LET sats == Field(frame, 97, 64)
        sigs == Field(frame, 161, 32)
        cells == Field(frame, 193, Len(sats) * Len(sigs))
    IN [tow |-> HeadTime(sys, frame), sync |-> Field(frame, 78, 1), sats |-> sats,
        sigs |-> sigs, cells |-> cells,
        ncell |-> Cardinality({k \in 1..Len(sats) * Len(sigs) : CellAt(sats, sigs, k) \in cells}),
        hsize |-> 193 + Len(sats) * Len(sigs)]

\* One column of n fields of a width, from a position on
Column(frame, pos, n, width) == [k \in 1..n |-> Field(frame, pos + (k - 1) * width, width)]

\* The data of decode_msm4, column after column
Columns4(frame, h) ==
    LET nsat == Len(h.sats)
        i == h.hsize + nsat * 18
    IN [rng |-> Column(frame, h.hsize, nsat, 8),
        mod |-> Column(frame, h.hsize + nsat * 8, nsat, 10),
        rate |-> <<>>, frate |-> <<>>,
        pr |-> Column(frame, i, h.ncell, 15),
        cp |-> Column(frame, i + h.ncell * 15, h.ncell, 22),
        cnr |-> Column(frame, i + h.ncell * 42, h.ncell, 6)]

\* The data of decode_msm7, each column with its own position
Columns7(frame, h) ==
    LET nsat == Len(h.sats)
        rng_mPos == h.hsize + nsat * 8 + nsat * 4
        ratePos == rng_mPos + nsat * 10
        i == ratePos + nsat * 14
        phPos == i + h.ncell * 20
        lckPos == phPos + h.ncell * 24
        cylPos == lckPos + h.ncell * 10
        cnrPos == cylPos + h.ncell
    IN [rng |-> Column(frame, h.hsize, nsat, 8),
        mod |-> Column(frame, rng_mPos, nsat, 10),
        rate |-> Column(frame, ratePos, nsat, 14),
        frate |-> Column(frame, cnrPos + h.ncell * 10, h.ncell, 15),
        pr |-> Column(frame, i, h.ncell, 20),
        cp |-> Column(frame, phPos, h.ncell, 24),
        cnr |-> Column(frame, cnrPos, h.ncell, 10)]

\* The signals by the first letters of their names in gps_sig, glo_sig, gal_sig, bds_sig, which is
\* what bFindObsIndex looks at
Signals == [GPS |-> <<2..4, 8..10 \union 15..17, 22..24>>, GLO |-> <<2..3, 8..9, {}>>,
            GAL |-> <<2..6, 14..16, 22..24>>, BDS |-> <<2..4, 14..16, 8..10>>]

\* iType; it is not set for a signal of another name, as E6 and E5 of Galileo, and any then.
BandOf(sys, sig, any) ==
    IF \E b \in 1..3 : sig \in Signals[sys][b]
    THEN (CHOOSE b \in 1..3 : sig \in Signals[sys][b]) - 1 ELSE any

NoObs == <<>>
Slot(id) == [id |-> id, l1 |-> NoObs, l2 |-> NoObs, d1 |-> NoObs, d2 |-> NoObs]
Cleared == [t |-> 0, week |-> 0, n |-> 0, slots |-> <<>>]

\* The satellites of an epoch are told apart by pbID, which is filled from the front.
IndexOf(slots, id) ==
    IF \E k \in 1..Len(slots) : slots[k].id = id
    THEN CHOOSE k \in 1..Len(slots) : slots[k].id = id
    ELSE IF Len(slots) < MaxSat THEN Len(slots) + 1 ELSE 0

\* bFindObsIndex: the slots with one for id, how many are new, where that of id is; index 0 when it
\* may not be used
bFindObsIndex(slots, id, band) ==
    LET k == IndexOf(slots, id)
        new == k = Len(slots) + 1
        refused == id <= 0 \/ id \in LastPrn[GLO] + 1..FirstPrn[GAL] - 1 \/ id > LastPrn[BDS]
    IN IF refused THEN [slots |-> slots, added |-> 0, index |-> 0]
       ELSE [slots |-> IF new THEN Append(slots, Slot(id)) ELSE slots,
             added |-> IF new /\ band >= 0 THEN 1 ELSE 0,
             index |-> IF band >= 0 THEN k ELSE 0]

\* The system whose wavelength is used goes by the number of the satellite.
WaveOf(id) ==
    IF \E s \in System : id \in FirstPrn[s]..LastPrn[s]
    THEN CHOOSE s \in System : id \in FirstPrn[s]..LastPrn[s] ELSE GPS

\* What is said of a satellite goes to the band; only an MSM7 says the rate.
Updated(slot, m, band, obs, rate) ==
    CASE band = 0 -> [slot EXCEPT !.l1 = obs, !.d1 = IF m.kind = 7 THEN rate ELSE @]
      [] band = 1 -> [slot EXCEPT !.l2 = obs, !.d2 = IF m.kind = 7 THEN rate ELSE @]
      [] OTHER -> slot

\* Mutant: a cell without a range is not counted.
NotCounted(acc) == acc

\* A cell of a satellite without a range is counted all the same.
PassedOver(acc) == [acc EXCEPT !.j = @ + 1]

\* The body of the loop over satellites and signals in decode_msm4 and decode_msm7: j counts the
\* cells that are there, those of a satellite without a range included.
Cell(m, h, col, any, acc, i) ==
    LET s == i \div Len(h.sigs) + 1
        sig == h.sigs[(i % Len(h.sigs)) + 1]
        j == acc.j
        id == h.sats[s] + FirstPrn[m.sys] - 1
        band == BandOf(m.sys, sig, any)
        obs == [pr |-> <<col.rng[s], col.mod[s], col.pr[j]>>,
                cp |-> <<col.rng[s], col.mod[s], col.cp[j]>>, sn |-> col.cnr[j],
                wave |-> WaveOf(id)]
        rate == <<col.rate[s], col.frate[j]>>
        found == bFindObsIndex(acc.slots, id, band)
        stored == [found.slots EXCEPT ![found.index] = Updated(@, m, band, obs, rate)]
    IN IF <<h.sats[s], sig>> \notin h.cells THEN acc
       ELSE IF col.rng[s] = Range255 THEN PassedOver(acc)
       ELSE [j |-> j + 1, n |-> acc.n + found.added,
             slots |-> IF found.index = 0 THEN found.slots ELSE stored]

\* The loop, from the slots of an epoch on
Cells(m, h, col, any, e) ==
    LET acc[i \in 0..Len(h.sats) * Len(h.sigs)] ==
            IF i = 0 THEN [j |-> 1, n |-> e.n, slots |-> e.slots]
            ELSE Cell(m, h, col, any, acc[i - 1], i - 1)
    IN acc[Len(h.sats) * Len(h.sigs)]

\* decode_msm4, decode_msm7: the result and the epoch
Decode(m, any, e) ==
    LET frame == MsmBits(m)
        h == MsmHead(m.sys, frame)
    IN IF m.sys \notin Enabled THEN [res |-> h.sync, epoch |-> e]
       ELSE IF m.kind = 7 /\ h.hsize + Len(h.sats) * 36 + h.ncell * 80 > WholeLength(m)
            THEN [res |-> -1, epoch |-> e]
       ELSE IF e.t \notin {0, h.tow} THEN [res |-> -2, epoch |-> e]
       ELSE LET cells == Cells(m, h, IF m.kind = 7 THEN Columns7(frame, h) ELSE Columns4(frame, h), any, e)
            IN [res |-> h.sync,
                epoch |-> [e EXCEPT !.t = h.tow, !.n = cells.n, !.slots = cells.slots]]

\* A message of another time begins a new epoch.
DecodeAgain(m, any, e) ==
    LET first == Decode(m, any, e)
    IN IF first.res = -2 THEN Decode(m, any, Cleared) ELSE first

Unnamed(m) == \E k \in 1..Len(m.sigs) : BandOf(m.sys, m.sigs[k], -1) = -1

\* Mutant: the week of the last ephemeris will do.
SameWeek(e) == IF current.week <= 1024 THEN e ELSE [e EXCEPT !.week = current.week]

\* PrepareToSolve for the base: the week of its epoch is that of the last GPS ephemeris or one beside it.
PlaceWeek(e) ==
    IF current.week <= 1024 THEN e
    ELSE [e EXCEPT !.week = CASE current.second * 2 - e.t > Week \div 2 -> current.week + 1
                              [] e.t - current.second * 2 > Week \div 2 -> current.week - 1
                              [] OTHER -> current.week]

\* The messages of the time of m so far, with m; none of them says a week.
Holding(m) ==
    IF m.sys \notin Enabled \/ (m.kind = 7 /\ m.cut) THEN held
    ELSE IF held # <<>> /\ Last(held).tow = m.tow THEN Append(held, m) ELSE <<m>>

\* An MSM, and PrepareToSolve when it is the last of its epoch.
ParseMsm(m) ==
    \E any \in IF Unnamed(m) THEN -1..2 ELSE {-1} :
        LET decoded == DecodeAgain(m, any, epoch)
        IN /\ number < MaxMessages
           /\ number' = number + 1
           /\ IF decoded.res = 0 /\ coord # <<>>
              THEN /\ baseLast' = PlaceWeek(decoded.epoch)
                   /\ heldLast' = Holding(m)
                   /\ datedLast' = dated
                   /\ epoch' = Cleared
                   /\ held' = <<>>
              ELSE /\ epoch' = decoded.epoch
                   /\ held' = Holding(m)
                   /\ UNCHANGED <<baseLast, heldLast, datedLast>>
           /\ UNCHANGED <<current, coord, given, dated, asked, placed>>

-----------------------------------------------------------------------------
(* Ephemerides.  A layout lists the reads of a decoder from bit 36 on. *)

Layout1019 == <<
    <<"sat", 6>>, <<"week", 10>>, <<"Sv_acc", 4>>, <<"L2_code", 2>>, <<"iodt", 14>>, <<"iode", 8>>,
    <<"toc", 16>>, <<"f2", 8>>, <<"f1", 16>>, <<"f0", 22>>, <<"iodc", 10>>, <<"crs", 16>>,
    <<"delt_n", 16>>, <<"M0", 32>>, <<"cuc", 16>>, <<"e", 32>>, <<"cus", 16>>, <<"sqrtA", 32>>,
    <<"toe", 16>>, <<"cic", 16>>, <<"Omega0", 32>>, <<"cis", 16>>, <<"i0", 32>>, <<"crc", 16>>,
    <<"omega", 32>>, <<"Omegadot", 24>>, <<"tgd", 8>>, <<"Sv_hlth", 6>>, <<"flag", 1>>,
    <<"fit", 1>> >>

Layout1042 == <<
    <<"sat", 6>>, <<"week", 13>>, <<"URAI", 4>>, <<"IDOT", 14>>, <<"AODE", 5>>, <<"toc", 17>>,
    <<"a2", 11>>, <<"a1", 22>>, <<"a0", 24>>, <<"AODC", 5>>, <<"crs", 18>>, <<"deltn", 16>>,
    <<"M0", 32>>, <<"cuc", 18>>, <<"e", 32>>, <<"cus", 18>>, <<"sqrtA", 32>>, <<"toe", 17>>,
    <<"cic", 18>>, <<"Omega0", 32>>, <<"cis", 18>>, <<"i0", 32>>, <<"crc", 18>>, <<"omega", 32>>,
    <<"dot_Omega", 24>>, <<"tgd1", 10>>, <<"tgd2", 10>>, <<"health", 1>> >>

Layout1046 == <<
    <<"sat", 6>>, <<"week", 12>>, <<"iode", 10>>, <<"sva", 8>>, <<"idot", 14>>, <<"toc", 14>>,
    <<"f2", 6>>, <<"f1", 21>>, <<"f0", 31>>, <<"crs", 16>>, <<"deln", 16>>, <<"M0", 32>>,
    <<"cuc", 16>>, <<"e", 32>>, <<"cus", 16>>, <<"sqrtA", 32>>, <<"toe", 14>>, <<"cic", 16>>,
    <<"OMG0", 32>>, <<"cis", 16>>, <<"i0", 32>>, <<"crc", 16>>, <<"omg", 32>>, <<"OMGd", 24>>,
    <<"tgd1", 10>>, <<"tgd2", 10>>, <<"e5b_hs", 2>>, <<"e5b_dvs", 1>>, <<"E1B_hs", 2>>,
    <<"E1B_dvs", 1>>, <<"rsv", 2>> >>

Layout1020 == <<
    <<"sat", 6>>, <<"fre_num", 5>>, <<"alm_hth", 1>>, <<"alm_hth_ind", 1>>, <<"P1", 2>>,
    <<"hh", 5>>, <<"mm", 6>>, <<"ss", 1>>, <<"Bn", 1>>, <<"P2", 1>>, <<"tb", 7>>, <<"xvel", 24>>,
    <<"xpos", 27>>, <<"xacc", 5>>, <<"yvel", 24>>, <<"ypos", 27>>, <<"yacc", 5>>, <<"zvel", 24>>,
    <<"zpos", 27>>, <<"zacc", 5>>, <<"p3", 1>>, <<"gamman", 11>>, <<"M_p", 2>>, <<"M_l3", 1>>,
    <<"taun", 22>>, <<"deltataun", 5>>, <<"En", 5>>, <<"M_p4", 1>>, <<"FT", 4>>, <<"NT", 11>>,
    <<"M", 2>>, <<"AOAD", 1>>, <<"NA", 11>>, <<"tao_c", 32>>, <<"N4", 5>>, <<"tao_gps", 22>>,
    <<"M_l5", 1>>, <<"rev", 7>> >>

Layout(type) == CASE type = 1019 -> Layout1019 [] type = 1042 -> Layout1042
                  [] type = 1046 -> Layout1046 [] type = 1020 -> Layout1020

\* The widths of the fields of these messages as they are sent
Widths1019 == <<6, 10, 4, 2, 14, 8, 16, 8, 16, 22, 10, 16, 16, 32, 16, 32, 16, 32, 16, 16, 32, 16, 32,
                16, 32, 24, 8, 6, 1, 1>>
Widths1042 == <<6, 13, 4, 14, 5, 17, 11, 22, 24, 5, 18, 16, 32, 18, 32, 18, 32, 17, 18, 32, 18, 32, 18,
                32, 24, 10, 10, 1>>
Widths1046 == <<6, 12, 10, 8, 14, 14, 6, 21, 31, 16, 16, 32, 16, 32, 16, 32, 14, 16, 32, 16, 32, 16, 32,
                24, 10, 10, 2, 1, 2, 1, 2>>
Widths1020 == <<6, 5, 1, 1, 2, 5, 6, 1, 1, 1, 7, 24, 27, 5, 24, 27, 5, 24, 27, 5, 1, 11, 2, 1, 22, 5, 5,
                1, 4, 11, 2, 1, 11, 32, 5, 22, 1, 7>>
Widths(type) == CASE type = 1019 -> Widths1019 [] type = 1042 -> Widths1042
                  [] type = 1046 -> Widths1046 [] type = 1020 -> Widths1020

\* What a field of an ephemeris message holds: the weeks count from 1980, 2006 and 1999.
Sent(m, name) ==
    CASE name = "sat" -> m.sat
      [] name = "week" /\ m.type = 1019 -> m.week % 1024
      [] name = "week" /\ m.type = 1042 -> m.week - 1356
      [] name = "week" /\ m.type = 1046 -> m.week - 1024
      [] name = "toc" -> m.second
      [] name = "sqrtA" -> m.orbit
      [] name \in {"N4", "NT", "tb"} -> m.date[name]
      [] name \in DOMAIN m.health -> m.health[name]
      [] OTHER -> name

EphemerisFrame(m) ==
    Laid(<<Bits(12, m.type)>>) \o Laid([k \in 1..Len(Widths(m.type)) |->
        Bits(Widths(m.type)[k], Sent(m, Layout(m.type)[k][1]))])

\* Where each read of a layout begins
Starts(layout) ==
    LET pos[k \in DOMAIN layout] == IF k = 1 THEN 36 ELSE pos[k - 1] + layout[k - 1][2]
    IN pos

\* The reads of a decoder, by name
ReadAll(frame, layout) ==
    [name \in {layout[k][1] : k \in DOMAIN layout} |->
        LET k == CHOOSE k \in DOMAIN layout : layout[k][1] = name
        IN Field(frame, Starts(layout)[k], layout[k][2])]

SystemOf(type) == CASE type = 1019 -> GPS [] type = 1042 -> BDS
                    [] type = 1046 -> GAL [] type = 1020 -> GLO

\* The day d of a year from a month on, as <<month, day>>
MonthDay(year, d) ==
    LET days == <<31, IF year % 4 = 0 THEN 29 ELSE 28, 31, 30, 31, 30, 31, 31, 30, 31, 30, 31>>
        before[k \in 1..13] == IF k = 1 THEN 0 ELSE before[k - 1] + days[k - 1]
        month == CHOOSE k \in 1..12 : before[k] < d /\ d <= before[k + 1]
    IN <<month, d - before[month]>>

\* vGetGlonassUTC: year, month and day of day M_Nt of four years
GlonassDate(M_Nt, M_N4) ==
    LET year == M_N4 + 1992
        start == IF M_Nt > 366 THEN <<year + 1, M_Nt - 366>> ELSE <<year, M_Nt>>
        Skip(yd) == IF yd[2] > 365 THEN <<yd[1] + 1, yd[2] - 365>> ELSE yd
        last == Skip(Skip(Skip(start)))
    IN <<last[1]>> \o MonthDay(last[1], last[2])

rdn(y0, m0, d) ==
    LET y == IF m0 < 3 THEN y0 - 1 ELSE y0
        m == IF m0 < 3 THEN m0 + 12 ELSE m0
    IN 365 * y + y \div 4 - y \div 100 + y \div 400 + (153 * m - 457) \div 5 + d - 306

\* iYMDtoSumDay of a date with a year of four digits
SumDay(date) == rdn(date[1], date[2], date[3]) - rdn(1980, 1, 6)

\* decode_type1020: Bn is read as one bit, of which bit 7 is kept.
Glonass(f) ==
    LET lDate == SumDay(GlonassDate(f["NT"], f["N4"] * 4))
    IN [type |-> 1020, id |-> f["sat"] + FirstPrn[GLO] - 1, read |-> f,
        week |-> lDate \div 7,
        second |-> (lDate % 7) * DaySeconds + f["tb"] * 900 - 10800 + LeapSecond,
        valid |-> (f["Bn"] \div 128) % 2 = 0]

\* Mutant: only one of the signals of Galileo is looked at.
HealthOfE5b(type, f) ==
    CASE type = 1019 -> f["Sv_hlth"] [] type = 1042 -> f["health"]
      [] OTHER -> (f["e5b_hs"] * 128 + f["e5b_dvs"] * 64) % 256

\* What bHealth, an unsigned char, has: of the two bits of e5b_hs only the lower one stays in it.
bHealth(type, f) ==
    CASE type = 1019 -> f["Sv_hlth"] [] type = 1042 -> f["health"]
      [] OTHER -> (f["e5b_hs"] * 128 + f["e5b_dvs"] * 64 + f["E1B_hs"] * 2 + f["E1B_dvs"]) % 256

\* decode_type1019, decode_type1042, decode_type1046: "good" is a sqrtA from 4000 to 7000.
GpsLike(type, f) ==
    LET raw == f["week"]
        week == CASE type = 1019 -> IF raw < 1024 THEN raw + 2048 ELSE raw
                  [] type = 1042 -> IF raw < 1356 THEN raw + 1356 ELSE raw
                  [] OTHER -> raw + 1024
    IN [type |-> type, id |-> f["sat"] + FirstPrn[SystemOf(type)] - 1, read |-> f,
        week |-> week, second |-> f["toc"],
        valid |-> bHealth(type, f) = 0 /\ f["sqrtA"] = "good"]

\* What may be given to the engine: a GLONASS satellite also has to have a number of its system.
MayGive(e) ==
    /\ e.valid
    /\ e.type = 1020 => e.id \in 1..MaxPrn /\ e.id - FirstPrn[GLO] \in 0..MaxSysPrn - 1

\* Every field of health says so.
Well(m) == \A name \in DOMAIN m.health : m.health[name] = 0

\* What an ephemeris message ought to be given for
Healthy(m) ==
    /\ SystemOf(m.type) \in Enabled /\ EphFromBase
    /\ Well(m)
    /\ m.type = 1020 => m.sat \in 1..MaxSysPrn
    /\ m.type # 1020 => m.orbit = "good"

\* SendEphemerisToQRtk takes week and time of an ephemeris from GPS, SendGloEphemToQRtk does not.
ParseEphemeris(m) ==
    LET f == ReadAll(EphemerisFrame(m), Layout(m.type))
        e == IF m.type = 1020 THEN Glonass(f) ELSE GpsLike(m.type, f)
        gives == SystemOf(m.type) \in Enabled /\ EphFromBase /\ MayGive(e)
    IN /\ number < MaxMessages
       /\ number' = number + 1
       /\ given' = IF gives THEN e ELSE given
       /\ current' = IF gives /\ m.type # 1020 /\ e.id <= LastPrn[GPS]
                     THEN [week |-> e.week, second |-> e.second] ELSE current
       /\ asked' = IF Healthy(m) THEN m ELSE asked
       /\ dated' = IF Healthy(m) /\ m.type = 1019 THEN m ELSE dated
       /\ UNCHANGED <<epoch, coord, baseLast, held, heldLast, datedLast, placed>>

-----------------------------------------------------------------------------
(* 1005: three coordinates of Word + 6 bits each, where the code has 38 *)

\* Powers of two
Pow2[n \in 0..Word + 16] == IF n = 0 THEN 1 ELSE 2 * Pow2[n - 1]

\* What a coordinate may be
Coordinate == -Pow2[Word + 5]..Pow2[Word + 5] - 1

ASSUME CoordinatesAssumption == Coordinates \subseteq Coordinate \X Coordinate \X Coordinate

\* A number of w bits, the highest first, and bits packed into bytes
Binary(v, w) == [k \in 1..w |-> ((v % Pow2[w]) \div Pow2[w - k]) % 2]
Packed(bits) ==
    [k \in 1..(Len(bits) + 7) \div 8 |->
        LET b(n) == IF 8 * (k - 1) + n > Len(bits) THEN 0 ELSE bits[8 * (k - 1) + n]
        IN b(1) * 128 + b(2) * 64 + b(3) * 32 + b(4) * 16 + b(5) * 8 + b(6) * 4 + b(7) * 2 + b(8)]

CoordinateFrame(c) ==
    Packed(Binary(211, 8) \o Binary(0, 16) \o Binary(1005, 12) \o Binary(7, 12) \o Binary(63, 6)
           \o Binary(15, 4) \o Binary(c[1], Word + 6) \o Binary(3, 2) \o Binary(c[2], Word + 6)
           \o Binary(3, 2) \o Binary(c[3], Word + 6))

\* Bit i of a buffer
BitOf(buff, i) == (buff[(i \div 8) + 1] \div Pow2[7 - (i % 8)]) % 2

\* An unsigned int of Word bits
getbitu(buff, pos, len) ==
    LET bits[k \in 0..len] ==
            IF k = 0 THEN 0 ELSE (bits[k - 1] * 2 + BitOf(buff, pos + k - 1)) % Pow2[Word]
    IN bits[len]

\* (int): numbers from half of the range on are negative.
AsInt(bits) == IF bits >= Pow2[Word - 1] THEN bits - Pow2[Word] ELSE bits

\* Mutant: a field as wide as an int is not taken for signed.
Unsigned(buff, pos, len) ==
    LET bits == getbitu(buff, pos, len)
    IN IF len <= 0 \/ Word <= len \/ bits < Pow2[len - 1] THEN bits
       ELSE AsInt(bits + Pow2[Word] - Pow2[len])

getbits(buff, pos, len) ==
    LET bits == getbitu(buff, pos, len)
    IN IF len <= 0 \/ Word <= len \/ bits < Pow2[len - 1] THEN AsInt(bits)
       ELSE AsInt(bits + Pow2[Word] - Pow2[len])         \* bits | (~0u << len)

getbits_38(buff, pos) == getbits(buff, pos, Word) * 64 + getbitu(buff, pos + Word, 6)

\* decode_type1005: one bit and a reserved one, or two, between the coordinates
Arp(buff) ==
    LET i == 24 + 12 + 12 + 6 + 1 + 1 + 1 + 1
    IN <<getbits_38(buff, i), getbits_38(buff, i + Word + 8), getbits_38(buff, i + 2 * (Word + 8))>>

ParseCoordinate(c) ==
    LET arp == Arp(CoordinateFrame(c))
    IN /\ number < MaxMessages
       /\ number' = number + 1
       /\ coord' = IF \A k \in 1..3 : arp[k] # 0 THEN arp ELSE coord
       /\ placed' = IF \A k \in 1..3 : c[k] # 0 THEN c ELSE placed
       /\ UNCHANGED <<epoch, current, baseLast, given, held, heldLast, dated, datedLast, asked>>

-----------------------------------------------------------------------------

DecodeInit ==
    /\ epoch = Cleared
    /\ baseLast = Cleared
    /\ current = [week |-> 0, second |-> 0]
    /\ coord = <<>>
    /\ given = <<>>
    /\ held = <<>>
    /\ heldLast = <<>>
    /\ dated = <<>>
    /\ datedLast = <<>>
    /\ asked = <<>>
    /\ placed = <<>>
    /\ number = 0

DecodeNext ==
    \/ \E m \in Observations : ParseMsm(m)
    \/ \E m \in Ephemerides : ParseEphemeris(m)
    \/ \E c \in Coordinates : ParseCoordinate(c)

DecodeSpec == DecodeInit /\ [][DecodeNext]_decodeVars

-----------------------------------------------------------------------------
(* Properties *)

\* What a cell says, in terms of what was sent
Said(m, c) ==
    LET Tok(name, x) == <<name, m.sys, x, m.tow>>
    IN [pr |-> <<Tok("rng", c[1]), Tok("mod", c[1]), IF c \in m.void THEN NotGiven ELSE Tok("pr", c)>>,
        cp |-> <<Tok("rng", c[1]), Tok("mod", c[1]), Tok("cp", c)>>,
        sn |-> Tok("cnr", c), wave |-> m.sys]

Rate(m, c) == <<<<"rate", m.sys, c[1], m.tow>>, <<"frate", m.sys, c, m.tow>>>>

\* The cells of a message that have a range, in the order they were sent, as <<message, cell>>
UsableOf(m) ==
    LET there[k \in 0..Len(m.sats) * Len(m.sigs)] ==
            IF k = 0 THEN <<>>
            ELSE LET c == CellAt(m.sats, m.sigs, k)
                 IN IF c \in m.cells /\ c[1] \notin m.dead THEN Append(there[k - 1], <<m, c>>)
                    ELSE there[k - 1]
    IN there[Len(m.sats) * Len(m.sigs)]

Usable(messages) == FlattenSeq([k \in 1..Len(messages) |-> UsableOf(messages[k])])

\* The satellite of a usable cell
Id(x) == x[2][1] + FirstPrn[x[1].sys] - 1

Ids(cells) == {Id(cells[p]) : p \in 1..Len(cells)}

\* The place of its first cell
FirstOf(cells, id) ==
    CHOOSE p \in 1..Len(cells) :
        Id(cells[p]) = id /\ \A q \in 1..Len(cells) : Id(cells[q]) = id => p <= q

\* The places of its cells in a band, and of those among them with a rate
InBand(cells, id, b) ==
    {p \in 1..Len(cells) : Id(cells[p]) = id /\ cells[p][2][2] \in Signals[cells[p][1].sys][b]}
Rated(cells, id, b) == {p \in InBand(cells, id, b) : cells[p][1].kind = 7}

\* The last of some places
Newest(places) == CHOOSE p \in places : \A q \in places : q <= p

\* What was said of a satellite in a band last, and the last rate
LastSaid(cells, id, b) ==
    LET p == Newest(InBand(cells, id, b))
    IN IF InBand(cells, id, b) = {} THEN NoObs ELSE Said(cells[p][1], cells[p][2])
LastRate(cells, id, b) ==
    LET p == Newest(Rated(cells, id, b))
    IN IF Rated(cells, id, b) = {} THEN NoObs ELSE Rate(cells[p][1], cells[p][2])

\* The slots that the cells ask for: the satellites as they came, as many as there is room for,
\* and in each band what came last
AsAsked(slots, cells) ==
    /\ Len(slots) <= MaxSat
    /\ \A k \in 1..Len(slots) :
        LET id == slots[k].id
        IN /\ id \in Ids(cells)
           /\ slots[k] = [id |-> id, l1 |-> LastSaid(cells, id, 1), l2 |-> LastSaid(cells, id, 2),
                          d1 |-> LastRate(cells, id, 1), d2 |-> LastRate(cells, id, 2)]
    /\ \A i, k \in 1..Len(slots) : i < k => FirstOf(cells, slots[i].id) < FirstOf(cells, slots[k].id)
    /\ \A id \in Ids(cells) :
        \/ \E k \in 1..Len(slots) : slots[k].id = id
        \/ Len(slots) = MaxSat /\ \A k \in 1..MaxSat : FirstOf(cells, slots[k].id) < FirstOf(cells, id)

\* Three cases in which the code does something else: a signal whose name has no band; GLONASS in
\* the first three hours of a week in Moscow, when its times are a week behind the others; and a
\* satellite beyond the numbers of its system, which is refused or taken for one of the next.
Regular(m) ==
    /\ ~Unnamed(m)
    /\ m.sys = GLO => m.tow + ThreeHours - 2 * LeapSecond < Week
    /\ \A k \in 1..Len(m.sats) : m.sats[k] + FirstPrn[m.sys] - 1 <= LastPrn[m.sys]

Sound(messages) == \A k \in 1..Len(messages) : Regular(messages[k])

\* An epoch is of the messages, and counts its slots.
Conveys(e, messages) ==
    Sound(messages) => AsAsked(e.slots, Usable(messages)) /\ e.n = Len(e.slots)

\* The epoch holds what the messages of one time of the week said, whatever order, kinds and
\* systems they came in: each value in the slot of its satellite and band, nothing of an earlier
\* time, no cell in the place of another after one without a range, nothing from beside a field;
\* and n counts the slots.
EpochAsSent == Conveys(epoch, held) /\ Conveys(baseLast, heldLast)

\* The last ephemeris from GPS dates the base epoch: its week and time are the instant of its
\* messages when the two are less than half a week apart, over the turn of the week too, and
\* whatever ephemerides come later.
PlacedInTime ==
    (heldLast # <<>> /\ datedLast # <<>>) =>
        LET m == Last(heldLast)
            apart == (m.week - datedLast.week) * Week + m.tow - 2 * datedLast.second
        IN (apart < Week \div 2 /\ apart > -(Week \div 2))
             => (baseLast.week - m.week) * Week + baseLast.t = m.tow

\* Day one of 1996, which the four years of GLONASS count from, in days since the origin of GPS
Day1996 == 5839

\* The time of a GLONASS ephemeris, in seconds from the start of week 2200 on
GlonassTime(m) ==
    (Day1996 + 1461 * (m.date["N4"] - 1) + m.date["NT"] - 1 - 2200 * 7) * DaySeconds
        + m.date["tb"] * 900 - 10800 + LeapSecond

InTime(e, m) ==
    IF m.type = 1020 THEN (e.week - 2200) * (7 * DaySeconds) + e.second = GlonassTime(m)
    ELSE e.week = m.week /\ e.second = m.second

\* An ill satellite that the code takes for a healthy one: of GLONASS, since Bn is lost, and of
\* Galileo with an e5b_hs of 2, since that leaves bHealth 0.
IllUnseen(e) ==
    \/ e.type = 1020 /\ e.read["Bn"] = 1
    \/ e.type = 1046 /\ e.read["e5b_hs"] = 2

\* The engine was last given the last ephemeris it was sent that is healthy, plausible and wanted:
\* every field read where it was written, its satellite, and its week and time, which for GLONASS
\* come from the day of four years. Whatever the fields of health say, no other is given but the
\* two kinds of IllUnseen; day 366 is another matter (GlonassDated).
EphemerisAsSent ==
    (given # <<>> /\ ~IllUnseen(given)) =>
        /\ asked # <<>>
        /\ asked.type = given.type
        /\ \A name \in DOMAIN given.read : given.read[name] = Sent(asked, name)
        /\ given.id - FirstPrn[SystemOf(asked.type)] + 1 = asked.sat
        /\ ~(given.type = 1020 /\ given.read["NT"] = 366) => InTime(given, asked)

\* "无效星历" (an invalid ephemeris, src/OEMRtk-N/QRtkImpl.cpp:721) is refused: no ephemeris of Galileo
\* is given of which a field of health says that the satellite is ill. decode_type1046 shifts e5b_hs
\* by seven into eight bits, and a 2 in it is lost.
GalileoIllRefused ==
    (given # <<>> /\ given.type = 1046) =>
        \A name \in {"e5b_hs", "e5b_dvs", "E1B_hs", "E1B_dvs"} : given.read[name] = 0

\* "记录星期数" (note the number of the week, src/OEMRtk-N/RtcmDecode.cpp:2232): week and time of a
\* GLONASS ephemeris are those of its day. vGetGlonassUTC takes day 366, the last of a leap year,
\* for the first day of the next, and decode_type1020 dates the ephemeris a day late.
GlonassDated == (given # <<>> /\ given.type = 1020 /\ given.read["Bn"] = 0) => InTime(given, asked)

\* The coordinate of the base is the last one sent without a zero in it, negative ones and those of
\* full width included, wherever its bits are cut by the bytes.
CoordinateAsSent == coord = placed
=============================================================================
