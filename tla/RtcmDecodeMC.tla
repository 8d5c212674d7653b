---------------------------- MODULE RtcmDecodeMC ----------------------------
(***************************************************************************)
(* Small instances of RtcmDecode for TLC: two instants at the turn of a    *)
(* week, of four systems with two satellites each.                         *)
(***************************************************************************)
EXTENDS RtcmDecode

Msm(kind, sys, week, tow, sync, sigs, cells) ==
    [kind |-> kind, sys |-> sys, week |-> week, tow |-> tow, sync |-> sync, sats |-> <<1, 2>>,
     sigs |-> sigs, cells |-> cells, dead |-> {}, void |-> {}, cut |-> FALSE]

Both == {<<1, 2>>, <<2, 2>>}
\* Two bands with different cells, one of them twice
TwoBands == Msm(7, GPS, 2300, 1209599, 1, <<2, 3, 8>>, {<<1, 2>>, <<1, 3>>, <<1, 8>>, <<2, 8>>})
NoRange == [TwoBands EXCEPT !.dead = {1}]
Msm4 == Msm(4, GPS, 2300, 1209599, 1, <<2, 8>>, {<<1, 2>>, <<2, 8>>, <<2, 2>>})
Last4 == [Msm4 EXCEPT !.sync = 0, !.void = {<<2, 2>>}]
Cut == [TwoBands EXCEPT !.cut = TRUE]

MCObservations ==
    {TwoBands, NoRange, Msm4, Last4, Cut,
     Msm(4, BDS, 2300, 1209599, 1, <<2, 8>>, {<<1, 2>>, <<2, 8>>}),
     Msm(7, BDS, 2301, 20, 0, <<2, 14>>, {<<1, 2>>, <<2, 14>>}),
     Msm(4, GLO, 2300, 1209599, 0, <<2>>, Both),
     Msm(4, GLO, 2301, 20, 1, <<2>>, Both),
     Msm(7, GAL, 2301, 20, 0, <<2, 9>>, {<<1, 2>>, <<1, 9>>}),
     Msm(7, GPS, 2301, 20, 0, <<2>>, Both),
     [Msm(4, GLO, 2301, 20, 1, <<2>>, {<<1, 2>>, <<38, 2>>}) EXCEPT !.sats = <<1, 38>>]}

Eph(type, sat, week, second, health) ==
    [type |-> type, sat |-> sat, week |-> week, second |-> second, health |-> health, orbit |-> "good",
     date |-> [N4 |-> 8, NT |-> 1, tb |-> 0]]
Gps(sat, week, second, Sv_hlth) == Eph(1019, sat, week, second, [Sv_hlth |-> Sv_hlth])
Gal(e5b_hs, e5b_dvs, E1B_hs, E1B_dvs) ==
    Eph(1046, 11, 2300, 60, [e5b_hs |-> e5b_hs, e5b_dvs |-> e5b_dvs, E1B_hs |-> E1B_hs, E1B_dvs |-> E1B_dvs])
Glo(NT, tb, Bn) == [Eph(1020, 3, 0, 0, [Bn |-> Bn]) EXCEPT !.date = [N4 |-> 8, NT |-> NT, tb |-> tb]]

MCEphemerides ==
    {Gps(5, 2300, 604784, 0), Gps(6, 2301, 16, 0), Gps(5, 2300, 32, 32),
     [Gps(7, 2300, 32, 0) EXCEPT !.orbit = "bad"],
     Eph(1042, 9, 2300, 8, [health |-> 0]), Eph(1042, 9, 2300, 8, [health |-> 1]),
     Gal(0, 0, 0, 0), Gal(0, 0, 0, 1), Gal(2, 0, 0, 0), Gal(2, 0, 2, 0), Gal(3, 0, 0, 0),
     Glo(1, 0, 0), Glo(59, 12, 0), Glo(60, 11, 0), Glo(366, 95, 0), Glo(367, 0, 0),
     Glo(1096, 5, 0), Glo(1461, 95, 0), Glo(700, 50, 1)}

MCCoordinates == {<<1, -1, 8191>>, <<-8192, 64, -65>>, <<0, 5, 6>>}
=============================================================================
