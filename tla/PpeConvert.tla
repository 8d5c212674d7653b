------------------------------ MODULE PpeConvert ------------------------------
(***************************************************************************)
(* What the gnss thread of the SA415M plug-in makes of a record:           *)
(* obsqumcom turns a measurement report into an epoch of the RTK engine    *)
(* and smooths its codes, ppeephcvt turns an ephemeris report into         *)
(* ephemerides of the engine, and ppeout_rtk a result of the engine into   *)
(* the report for the receiver.  How the records come is in                *)
(* PpeThreads.tla, what the engine does with an epoch in RtkEpochs.tla.    *)
(*                                                                         *)
(* Codes are integers in a unit of which a metre has Metre, carrier phases *)
(* are in cycles of Wave[system][band] units, and a Doppler is a speed in  *)
(* the unit of LightSpeed.  Left out: signal to noise, azimuth and         *)
(* elevation, the orbit of an ephemeris, and where a result is.            *)
(***************************************************************************)
EXTENDS Integers, Sequences, FiniteSets, SequencesExt, FiniteSetsExt

CONSTANTS MaxSat,         \* MAXSAT
          DefaultCount,   \* the count handler_log_conf presets, 1000 in the code
          Metre, LightSpeed, Wave,
          Confs,          \* the configuration files: sequences of <<section, name, value>>
          Reports,        \* the measurement reports that may come
          EphReports,     \* the ephemeris reports that may come
          Results,        \* the results of the engine that may come
          MaxReports      \* bound on the reports and results

VARIABLES conf,           \* the configuration file read
          logConfig,      \* log_config: _rtk_psr_type, _rtk_smooth_cnt
          smooth,         \* m_smooth
          wobs,           \* ppes.wobs
          week,           \* week
          posReport,      \* posReport
          pushed,         \* the ephemerides given to the engine for the last report
          report,         \* the last measurement report
          ephReport,      \* the last ephemeris report
          solution,       \* bStatusFlag of the last result
          since,          \* code minus carrier of every L1 since the last slip
          crowded,        \* some report had more than MaxSat satellites
          number          \* reports and results so far

convertVars == <<conf, logConfig, smooth, wobs, week, posReport, pushed, report, ephReport,
                solution, since, crowded, number>>

Band == {"L1", "L2", "L3"}
System == {"GPS", "GLO", "GAL", "BDS"}
SecondsPerWeek == 604800

ASSUME ConvertAssumption ==
    /\ MaxSat \in Nat \ {0} /\ DefaultCount \in Nat \ {0} /\ Metre \in Nat \ {0} /\ LightSpeed \in Int
    /\ \A s \in System, b \in Band : Wave[s][b] \in Nat \ {0}
    /\ \A c \in Confs : c # <<>>

\* A report has measurements in whole units, and the clock of every system.
ASSUME ReportsAssumption ==
    \A r \in Reports :
        /\ Len(r.meas) \in Nat /\ \A s \in System : r.bias[s] \in Int
        /\ \A i \in 1..Len(r.meas) :
            /\ r.meas[i].code \in Int /\ r.meas[i].phase \in Int /\ r.meas[i].doppler \in Int
            /\ r.meas[i].slips \in Int

\* fullToeSec has 32 bits, which are 7101 weeks.
ASSUME EphReportsAssumption ==
    \A r \in EphReports :
        /\ Len(r.ephs) \in Nat
        /\ \A i \in 1..Len(r.ephs) : r.ephs[i].toe \in Nat /\ r.ephs[i].toe \div SecondsPerWeek <= 7101

-----------------------------------------------------------------------------
\* The configuration

\* One line of the file.  The count is set to its default before the line is looked at.
LogConf(c, line) ==
    LET preset == [c EXCEPT !.smoothCnt = DefaultCount]
    IN  CASE line[1] = "DATA" /\ line[2] = "RTK_PSR_SMOOTH" -> [preset EXCEPT !.psrType = line[3] % 256]
          [] line[1] = "DATA" /\ line[2] = "RTK_SMOOTH_COUNT" -> [preset EXCEPT !.smoothCnt = line[3] % 65536]
          [] OTHER -> preset

Configured(lines) == FoldLeft(LogConf, [psrType |-> 0, smoothCnt |-> 0], lines)

\* The count divides, so that there is no smoothing with a count of 0.
ASSUME ConfsAssumption ==
    \A c \in Confs : Configured(c).psrType # 0 => Configured(c).smoothCnt \in Nat \ {0}

-----------------------------------------------------------------------------
\* Names: of the receiver and of the engine

FirstSat == [GPS |-> 1, GLO |-> 65, GAL |-> 301, BDS |-> 201]
LastSat == [GPS |-> 32, GLO |-> 96, GAL |-> 336, BDS |-> 237]
FirstId == [GPS |-> 1, GLO |-> 38, GAL |-> 71, BDS |-> 141]
LastId == [GPS |-> 37, GLO |-> 61, GAL |-> 106, BDS |-> 203]
Ids == UNION {FirstId[s]..LastId[s] : s \in System}

satidtrs(sys, sat) ==
    IF sys \notin System \/ sat \notin FirstSat[sys]..LastSat[sys] THEN 0
    ELSE LET id == sat + (FirstId[sys] - FirstSat[sys])
         IN  IF id > LastId[sys] THEN 0 ELSE id

satsys(id) == CHOOSE s \in System : id <= LastId[s] /\ \A t \in System : id <= LastId[t] => LastId[s] <= LastId[t]

\* The band of a signal, "none" for one the engine does not know
sigtype(sig) ==
    CASE sig \in {"GPS_L1CA", "GLONASS_G1_CA", "GALILEO_E1_C", "BEIDOU_B1_I"} -> "L1"
      [] sig \in {"GPS_L2C_L", "GLONASS_G2_CA", "GALILEO_E5B_Q", "BEIDOU_B2_I"} -> "L2"
      [] sig \in {"GPS_L5_Q", "GALILEO_E5A_Q"} -> "L3"
      [] OTHER -> "none"

satwavelen(id, band) == Wave[satsys(id)][band]

-----------------------------------------------------------------------------
\* Observations

Unmeasured == [R |-> 0, L |-> 0, D |-> 0, slip |-> FALSE]
NoSlot == [id |-> 0, obs |-> [b \in Band |-> Unmeasured]]

\* ppes as it is before the first report
Zero == [week |-> 0, t |-> 0, n |-> 0, slots |-> [i \in 1..MaxSat |-> NoSlot]]

init_wobs == Zero

\* The slot of sat: the one it has, or the first free one.  When there is neither,
\* the slot of the measurement before.
searchsat(slots, sat, j) ==
    LET fit == {i \in 1..MaxSat : slots[i].id \in {sat, 0}}
    IN  IF fit = {} THEN j ELSE Min(fit)

\* How much of the smoothed code the next one keeps
Weight(s) == IF s.count < logConfig.smoothCnt THEN s.count + 1 ELSE logConfig.smoothCnt

\* Mutant: a slip starts the code anew and leaves the counter
CountsOn(s, m, wave) ==
    LET M == Weight(s)
        R == (m.code + (M - 1) * (s.R + (m.phase - s.L) * wave)) \div M
        far == R - m.code > 20 * Metre \/ m.code - R > 20 * Metre
        keeps == s.lli = m.slips /\ s.L # 0 /\ ~far
    IN  [R |-> IF keeps THEN R ELSE m.code, L |-> m.phase, lli |-> m.slips,
         count |-> IF far THEN 1 ELSE s.count + 1]

\* The L1 code of a measurement, carried on with its carrier from the last one
Smoothed(s, m, wave) ==
    LET M == Weight(s)
        R == (m.code + (M - 1) * (s.R + (m.phase - s.L) * wave)) \div M
        far == R - m.code > 20 * Metre \/ m.code - R > 20 * Metre
        keeps == s.lli = m.slips /\ s.L # 0 /\ ~far
    IN  [R |-> IF keeps THEN R ELSE m.code, L |-> m.phase, lli |-> m.slips,
         count |-> IF keeps THEN s.count + 1 ELSE 1]

\* Without smoothing, obscom stores L1 and drops the rest
Stored(band) == band = "L1" \/ (logConfig.psrType # 0 /\ band # "none")

Obs(code, m) == [R |-> code, L |-> m.phase, D |-> m.doppler, slip |-> m.lost]

\* A slot with an observation put into it
Put(slot, band, o) == [id |-> slot.id, obs |-> [slot.obs EXCEPT ![band] = o]]

obscvt(acc, m, j) ==
    LET id == acc.slots[j].id
        band == sigtype(m.sig)
        smoothing == band = "L1" /\ logConfig.psrType # 0
        s == Smoothed(acc.smooth[id], m, satwavelen(id, band))
        o == Obs(IF smoothing THEN s.R ELSE m.code, m)
    IN  IF ~Stored(band) THEN acc
        ELSE [slots |-> [acc.slots EXCEPT ![j] = Put(@, band, o)], j |-> acc.j,
              smooth |-> IF smoothing THEN [acc.smooth EXCEPT ![id] = s] ELSE acc.smooth]

\* The slot gets its satellite when it has none.
Named(slot, id) == [id |-> IF slot.id = 0 THEN id ELSE slot.id, obs |-> slot.obs]

Store(acc, m) ==
    LET id == satidtrs(m.sys, m.sv)
        j == searchsat(acc.slots, id, acc.j)
    IN  IF id = 0 THEN acc
        ELSE obscvt([slots |-> [acc.slots EXCEPT ![j] = Named(@, id)], smooth |-> acc.smooth, j |-> j], m, j)

\* Mutant: the clock of GPS for every system
GpsOffset(bias, id, o, band) ==
    LET d == bias["GPS"] * (LightSpeed - o.D)
    IN  [o EXCEPT !.L = IF @ # 0 /\ o.D # 0 THEN @ - d \div satwavelen(id, band) ELSE @,
                  !.R = IF @ # 0 /\ o.D # 0 THEN @ - d ELSE @]

\* What the clock of a system is ahead of the receiver's, taken off code and carrier
Offset(bias, id, o, band) ==
    LET d == bias[satsys(id)] * (LightSpeed - o.D)
    IN  [o EXCEPT !.L = IF @ # 0 /\ o.D # 0 THEN @ - d \div satwavelen(id, band) ELSE @,
                  !.R = IF @ # 0 /\ o.D # 0 THEN @ - d ELSE @]

mesoffset(slots, n, bias) ==
    [i \in 1..MaxSat |->
        IF i > n THEN slots[i]
        ELSE [slots[i] EXCEPT !.obs = [b \in Band |-> Offset(bias, slots[i].id, @[b], b)]]]

\* Slots and smoothed codes after each measurement
Storing(r) ==
    LET acc[k \in 0..Len(r.meas)] ==
            IF k = 0 THEN [slots |-> init_wobs.slots, smooth |-> smooth, j |-> 0]
            ELSE Store(acc[k - 1], r.meas[k])
    IN  acc

\* How many slots there are up to the first free one
Taken(slots) ==
    CHOOSE n \in 0..MaxSat : /\ \A i \in 1..n : slots[i].id # 0
                             /\ n = MaxSat \/ slots[n + 1].id = 0

obsqumcom(r) ==
    LET all == Storing(r)[Len(r.meas)]
        n == Taken(all.slots)
    IN  /\ smooth' = all.smooth
        /\ wobs' = [week |-> r.week, t |-> r.msec, n |-> n, slots |-> mesoffset(all.slots, n, r.bias)]

-----------------------------------------------------------------------------
\* Ephemerides

\* Mutant: all weeks are counted from that of GPS
OneCalendar == [GPS |-> 0, GAL |-> 0, BDS |-> 0]

\* The week of GPS in which the weeks of a system begin
FirstWeek == [GPS |-> 0, GAL |-> 1024, BDS |-> 1356]

Healthy(e) == e.health = 0

ServerEphemeris(sys, e) ==
    [ID |-> satidtrs(sys, e.sv), week |-> ((e.toe \div SecondsPerWeek) % 65536) + FirstWeek[sys],
     toe |-> e.toe % SecondsPerWeek]

\* Ephemerides of GLONASS and of systems the engine does not know are not converted
ppeephcvt(r) ==
    IF r.sys \notin DOMAIN FirstWeek THEN <<>>
    ELSE LET ephs[k \in 0..Len(r.ephs)] ==
                 IF k = 0 THEN <<>>
                 ELSE IF Healthy(r.ephs[k]) THEN Append(ephs[k - 1], ServerEphemeris(r.sys, r.ephs[k]))
                 ELSE ephs[k - 1]
         IN  ephs[Len(r.ephs)]

-----------------------------------------------------------------------------
\* Reports of positions

FlagsOf(status) ==
    {f \in {"GNSS_USED", "DGNSS_CORR", "RTK_CORR", "RTK_FIXED"} :
        \/ f = "GNSS_USED" /\ status > 0
        \/ f = "DGNSS_CORR" /\ status > 1
        \/ f = "RTK_CORR" /\ status >= 4
        \/ f = "RTK_FIXED" /\ status = 4}

ppeout_rtk(res) ==
    [week |-> week, msec |-> res.msec, flags |-> posReport.flags \cup FlagsOf(res.status),
     valid |-> res.status > 0]

-----------------------------------------------------------------------------
NoSmooth == [R |-> 0, L |-> 0, lli |-> 0, count |-> 0]

ConvertInit ==
    /\ conf \in Confs /\ logConfig = Configured(conf)
    /\ smooth = [id \in Ids |-> NoSmooth] /\ wobs = Zero /\ week = 0
    /\ posReport = [week |-> 0, msec |-> 0, flags |-> {}, valid |-> FALSE]
    /\ pushed = <<>> /\ report = <<>> /\ ephReport = <<>> /\ solution = 0
    /\ since = [id \in Ids |-> <<>>] /\ crowded = FALSE
    /\ number = 0

Satellites(r) == {satidtrs(r.meas[i].sys, r.meas[i].sv) : i \in 1..Len(r.meas)} \ {0}

\* The history of a satellite after one measurement
Followed(acc, m) ==
    LET id == satidtrs(m.sys, m.sv)
        x == m.code - m.phase * satwavelen(id, "L1")
        slipped == id \in Ids /\ acc[id] # <<>> /\ Last(acc[id]).slips # m.slips
    IN  IF id = 0 \/ sigtype(m.sig) # "L1" THEN acc
        ELSE [acc EXCEPT ![id] = Append(IF slipped THEN <<>> ELSE @, [x |-> x, slips |-> m.slips])]

\* The histories after each measurement
Following(r) ==
    LET acc[k \in 0..Len(r.meas)] == IF k = 0 THEN since ELSE Followed(acc[k - 1], r.meas[k])
    IN  acc

\* Another report, of at most MaxReports
Another == number < MaxReports /\ number' = number + 1

parseMeasurement(r) ==
    /\ Another
    /\ obsqumcom(r)
    /\ report' = r
    /\ since' = IF logConfig.psrType # 0 THEN Following(r)[Len(r.meas)] ELSE since
    /\ crowded' = (crowded \/ Cardinality(Satellites(r)) > MaxSat)
    /\ UNCHANGED <<conf, logConfig, week, posReport, pushed, ephReport, solution>>

parseEphemeris(r) ==
    /\ Another
    /\ pushed' = ppeephcvt(r)
    /\ week' = IF r.sys = "GPS" /\ pushed' # <<>> THEN Last(pushed').week ELSE week
    /\ ephReport' = r
    /\ UNCHANGED <<conf, logConfig, smooth, wobs, posReport, report, solution, since, crowded>>

RtkReport(res) ==
    /\ Another
    /\ posReport' = ppeout_rtk(res)
    /\ solution' = res.status
    /\ UNCHANGED <<conf, logConfig, smooth, wobs, week, pushed, report, ephReport, since, crowded>>

ConvertNext ==
    \/ \E r \in Reports : parseMeasurement(r)
    \/ \E r \in EphReports : parseEphemeris(r)
    \/ \E res \in Results : RtkReport(res)

ConvertSpec == ConvertInit /\ [][ConvertNext]_convertVars

-----------------------------------------------------------------------------
\* Properties

\* m is of one satellite in one band.
Says(m, id, band) == satidtrs(m.sys, m.sv) = id /\ sigtype(m.sig) = band

\* The code that an epoch has for a measurement: its own, or the smoothed one of its satellite
CodeOf(m, id, band) == IF band = "L1" /\ logConfig.psrType # 0 THEN smooth[id].R ELSE m.code

\* Code and carrier of o are those of m, both less the range that the clock is ahead: the carrier in
\* whole cycles, as its unit is.  A zero is no measurement.
Carries(o, m, code, wave, range) ==
    /\ o.D = m.doppler /\ o.slip = m.lost
    /\ IF m.phase = 0 \/ m.doppler = 0 THEN o.L = m.phase
       ELSE range - (m.phase - o.L) * wave \in 0..(wave - 1)
    /\ code - o.R = IF code = 0 \/ m.doppler = 0 THEN 0 ELSE range

\* In a report, x is measured before y is for the first time.
ComesBefore(r, x, y) ==
    \E p \in 1..Len(r.meas) : /\ satidtrs(r.meas[p].sys, r.meas[p].sv) = x
                              /\ \A q \in 1..p : satidtrs(r.meas[q].sys, r.meas[q].sv) # y

\* The satellites have slots as they came first in the report, and one has none only when
\* all slots are those of earlier ones.
FirstCome(w, r) ==
    /\ \A i \in 1..w.n : w.slots[i].id \in Satellites(r)
    /\ \A i, k \in 1..w.n : i < k => ComesBefore(r, w.slots[i].id, w.slots[k].id)
    /\ \A id \in Satellites(r) :
        \/ \E i \in 1..w.n : w.slots[i].id = id
        \/ w.n = MaxSat /\ \A i \in 1..MaxSat : ComesBefore(r, w.slots[i].id, id)

\* obsqumcom sorts what a report says by satellite and band.  Whatever order the measurements
\* are in, and even if they are of more than MaxSat satellites, the satellites have one slot
\* each in the order in which they came, up to the last slot.  After a report that fits every
\* satellite of it has a slot, and that holds in every band the last thing the report said of
\* this satellite in this band, with the smoothed code if it is to be, less the clock of its own
\* system, and nothing of another satellite or of an earlier report.
EpochAsMeasured ==
    report # <<>> =>
        /\ FirstCome(wobs, report)
        /\ Cardinality(Satellites(report)) <= MaxSat =>
            /\ wobs.n = Cardinality(Satellites(report))
            /\ \A i \in 1..wobs.n, b \in Band :
                LET id == wobs.slots[i].id
                    said == {k \in 1..Len(report.meas) : Says(report.meas[k], id, b)}
                    o == wobs.slots[i].obs[b]
                IN  IF said = {} \/ (logConfig.psrType = 0 /\ b # "L1") THEN o = Unmeasured
                    ELSE \E k \in said :
                            LET m == report.meas[k]
                            IN  /\ \A q \in said : q <= k
                                /\ Carries(o, m, CodeOf(m, id, b), satwavelen(id, b),
                                           report.bias[satsys(id)] * (LightSpeed - m.doppler))

\* The sum of the last c differences
Total(s, c) ==
    LET sum[i \in 0..c] == IF i = 0 THEN 0 ELSE sum[i - 1] + s[Len(s) - i + 1].x
    IN  sum[c]

\* Smoothing: what obscvt adds to the carrier to have the code of a satellite is the mean of
\* the differences of code and carrier of the last measurements of this very satellite, as
\* many as its counter says while that is not above the limit, and always lies between the
\* least and the greatest of them; a difference from before a slip has no part in it, and
\* epochs in which the satellite was not seen do not disturb it.  The mean is rounded down at
\* each measurement, which after c of them has cost less than c / 2 units.
SmoothedIsMean ==
    ~crowded =>
        \A id \in Ids : since[id] # <<>> =>
            LET s == smooth[id]
                d == s.R - s.L * satwavelen(id, "L1")
                n == Len(since[id])
            IN  /\ s.count \in 1..n
                /\ s.count <= logConfig.smoothCnt =>
                      2 * (Total(since[id], s.count) - d * s.count) \in 0..s.count * (s.count - 1)
                /\ \E i, k \in (n - s.count + 1)..n : since[id][i].x <= d /\ d <= since[id][k].x

\* What the engine is given for an ephemeris report are the healthy ephemerides of it, in
\* their order, each of the instant of GPS time the receiver means, and the week that the
\* reports of positions get is the week of the last of GPS.
EphemeridesAsSent ==
    ephReport # <<>> =>
        /\ \A i, k \in 1..Len(ephReport.ephs) :
            i <= k /\ Healthy(ephReport.ephs[i]) /\ Healthy(ephReport.ephs[k])
              /\ ephReport.sys \in {"GPS", "GAL", "BDS"} =>
                \E p, q \in 1..Len(pushed) :
                    /\ p <= q /\ (i < k => p < q)
                    /\ pushed[p].ID = satidtrs(ephReport.sys, ephReport.ephs[i].sv)
                    /\ pushed[q].ID = satidtrs(ephReport.sys, ephReport.ephs[k].sv)
        /\ \A p \in 1..Len(pushed) : \E i \in 1..Len(ephReport.ephs) :
            LET e == ephReport.ephs[i]
                start == CASE ephReport.sys = "GPS" -> 0
                           [] ephReport.sys = "GAL" -> 1024
                           [] ephReport.sys = "BDS" -> 1356
            IN  /\ e.health = 0 /\ pushed[p].ID = satidtrs(ephReport.sys, e.sv)
                /\ pushed[p].toe \in 0..SecondsPerWeek - 1
                /\ (pushed[p].week - start) * SecondsPerWeek + pushed[p].toe = e.toe
        /\ ephReport.sys = "GPS" /\ pushed # <<>> => week = Last(pushed).week

\* The flags of a report are those the table above ppeout_rtk has for the kind of solution.
FlagsOfSolution == posReport.flags = FlagsOf(solution)

\* The smoothing count is the one the configuration file gives.
SmoothCountConfigured ==
    \A i \in 1..Len(conf) :
        conf[i][2] = "RTK_SMOOTH_COUNT" => logConfig.smoothCnt = conf[i][3]
=============================================================================
