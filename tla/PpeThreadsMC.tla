----------------------------- MODULE PpeThreadsMC -----------------------------
(***************************************************************************)
(* Small instances of PpeThreads for TLC: short records, rings with room   *)
(* for two records or so, so that they fill up and space runs out between  *)
(* a header and its body.                                                  *)
(***************************************************************************)
EXTENDS PpeThreads, TLC

CONSTANTS ep1, ep2  \* model values

MCEpOne == {ep1}
MCEpTwo == {ep1, ep2}
EpSymmetry == Permutations(MCEpTwo)

MCReports == {"meas", "pvt"}
MCPositions == {"pvt"}
MCObservations == {"meas", "eph"}
MCCorrections == {"rtcm"}
MCNothing == {}

\* As in the program, a header is longer than a status and shorter than a
\* GGA sentence, and measurements are the longest.
MCBodyLen ==
    [type \in Types |->
        CASE type = "meas"   -> 4
          [] type = "eph"    -> 3
          [] type = "pvt"    -> 3
          [] type = "gga"    -> 2
          [] type = "rtcm"   -> 2
          [] type = "status" -> 1]

MCRoomForTwo == [r \in Ring |-> 10]
MCRoom == [r \in Ring |-> IF r = "gnss" THEN 7 ELSE 6]

MCCounts == {0, 2}

\* Nothing at all, and a position report.
MCGarbage == {[len |-> 0, type |-> None], [len |-> 3, type |-> "pvt"]}

\* A length without a type that a thread would act on.
MCNoType == {[len |-> 1, type |-> None]}

===============================================================================
