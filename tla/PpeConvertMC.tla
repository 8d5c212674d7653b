---------------------------- MODULE PpeConvertMC ----------------------------
(***************************************************************************)
(* A small instance of PpeConvert for TLC: a metre is six units, and the   *)
(* codes of the smoothed satellites differ by multiples of 108 units, so   *)
(* that the means of up to three of them are whole.                        *)
(***************************************************************************)
EXTENDS PpeConvert

MCWave == [GPS |-> [L1 |-> 1, L2 |-> 2, L3 |-> 2], GLO |-> [L1 |-> 2, L2 |-> 4, L3 |-> 4],
           GAL |-> [L1 |-> 1, L2 |-> 2, L3 |-> 4], BDS |-> [L1 |-> 2, L2 |-> 1, L3 |-> 1]]

\* A measurement of L1 whose code is x more than its carrier
L1(sys, sv, sig, x, phase, slips) ==
    [sys |-> sys, sv |-> sv, sig |-> sig, code |-> phase * MCWave[sys]["L1"] + x, phase |-> phase,
     doppler |-> 4, slips |-> slips, lost |-> FALSE]

Gps(x, phase, slips) == L1("GPS", 5, "GPS_L1CA", x, phase, slips)
Bds(x, phase, slips) == L1("BDS", 203, "BEIDOU_B1_I", x, phase, slips)
Glo(sv) == L1("GLO", sv, "GLONASS_G1_CA", 108, 1500, 0)
GpsL2 == [Gps(216, 2000, 0) EXCEPT !.sig = "GPS_L2C_L", !.lost = TRUE]
Sbas == [Gps(0, 1000, 0) EXCEPT !.sys = "SBS", !.sv = 120]
Unknown == [Gps(0, 1000, 0) EXCEPT !.sys = "GAL", !.sv = 301, !.sig = "GALILEO_E1_X"]
E5a == [Unknown EXCEPT !.sig = "GALILEO_E5A_Q"]

Clocks == [GPS |-> 1, GLO |-> 2, GAL |-> -1, BDS |-> 3]
Report(msec, meas) == [week |-> 2200, msec |-> msec, bias |-> Clocks, meas |-> meas]

MCReports ==
    {Report(1, <<Gps(0, 1000, 0)>>), Report(2, <<Gps(108, 1010, 0)>>), Report(3, <<Gps(324, 1000, 0)>>),
     Report(4, <<Gps(108, 1007, 1)>>), Report(5, <<[Gps(2160, 0, 0) EXCEPT !.doppler = 0]>>),
     Report(6, <<Bds(108, 1000, 0), Gps(0, 1004, 0), GpsL2, Sbas>>),
     Report(7, <<Gps(108, 1000, 1), GpsL2, Bds(0, 996, 0), Glo(90), [GpsL2 EXCEPT !.lost = FALSE]>>),
     Report(8, <<E5a, Glo(70)>>), Report(9, <<Unknown, Bds(216, 1000, 0)>>),
     Report(10, <<Gps(0, 1000, 0), Bds(108, 1000, 0), Glo(70)>>)}

Conf(psr, count) ==
    <<<<"LOG", "LOG_LEVEL", 1>>, <<"DATA", "RTK_PSR_SMOOTH", psr>>, <<"DATA", "RTK_SMOOTH_COUNT", count>>>>
MCConfs == {Conf(0, 2), Conf(1, 2), Conf(1, 3)}
\* The same with a key behind the count
FollowedConfs == {Append(Conf(1, 2), <<"DATA", "RTK_EPH_TYPE", 0>>)}

Eph(sv, health, wn, second) == [sv |-> sv, health |-> health, toe |-> wn * SecondsPerWeek + second]
Ephs(sys, ephs) == [sys |-> sys, ephs |-> ephs]

MCEphReports ==
    {Ephs("GPS", <<Eph(5, 0, 2200, 604784), Eph(6, 1, 2202, 0), Eph(7, 0, 2201, 0)>>),
     Ephs("GPS", <<Eph(6, 1, 2201, 16)>>), Ephs("GAL", <<Eph(301, 0, 1176, 600), Eph(340, 0, 1176, 600)>>),
     Ephs("BDS", <<Eph(201, 1, 845, 0), Eph(203, 0, 844, 604799)>>),
     Ephs("GLO", <<Eph(70, 0, 0, 0)>>), Ephs("QZS", <<Eph(193, 0, 0, 0)>>)}

MCResults == {[status |-> s, msec |-> 1000 * s] : s \in {0, 1, 2, 4, 5}}
=============================================================================
