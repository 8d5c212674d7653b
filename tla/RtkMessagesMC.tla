---------------------------- MODULE RtkMessagesMC ----------------------------
(***************************************************************************)
(* Small instances of RtkMessages for TLC: a satellite of each system, of  *)
(* two bases that order them differently, and a rover that loses bands,    *)
(* satellites and cycles.                                                  *)
(***************************************************************************)
EXTENDS RtkMessages

Waves(a, b, c) == [L1 |-> a, L2 |-> b, L5 |-> c]
MCSignalWave == [GPS |-> Waves(2, 3, 4), BDS |-> Waves(3, 4, 5)]
MCGloWave == [c \in 0..20 |-> Waves(1 + (c % 3), 4, 4)]

\* A satellite whose codes are r, r - 1 and r + 2, and carriers l, 2 l and 3 l; less those lost
O(R, L) == [R |-> R, L |-> L]
Sat(id, r, l, lost) ==
    [id |-> id,
     obs |-> [b \in Band |-> IF b \in lost THEN O(0, 0)
                             ELSE CASE b = "L1" -> O(r, l) [] b = "L2" -> O(r - 1, 2 * l)
                                    [] b = "L5" -> O(r + 2, 3 * l)]]
Epoch(week, t, sats) == [week |-> week, t |-> t, sats |-> sats]

MCBaseEpochs ==
    {Epoch(2300, 604799, <<Sat(5, 40, 30, {}), Sat(38, 50, -3, {"L5"}), Sat(71, 44, 7, {}),
                           Sat(150, 60, 9, {})>>),
     Epoch(2301, 0, <<Sat(71, 44, 7, {"L1"}), Sat(5, 40, 30, {})>>)}

MCRoverEpochs ==
    {Epoch(0, 604799, <<Sat(5, 30, l, {}), Sat(38, 45, 4, {"L2", "L5"}), Sat(71, 40, 6, {})>>)
        : l \in {8, 9, 12, 20}}
    \cup {Epoch(2300, 0, <<Sat(71, 40, 6, {"L1", "L2"}), Sat(5, 30, 9, {"L2"}), Sat(150, 58, 2, {})>>),
          Epoch(2300, 604800, <<Sat(6, 30, 9, {}), Sat(5, 31, 9, {"L1", "L2", "L5"})>>),
          Epoch(2300, -5, <<Sat(5, 30, 8, {})>>),
          Epoch(2300, 5, <<>>)}

MCHorizons == {{5, 6, 38, 71, 150}, {5, 71}}
MCWeeks == {[week |-> 2300, second |-> 604784], [week |-> 2301, second |-> 16],
            [week |-> 100, second |-> 16]}

\* A satellite of BDS that GNSS_PRN does not have
NewBaseEpochs == {Epoch(2300, 10, <<Sat(178, 40, 30, {}), Sat(5, 40, 30, {})>>)}
NewRoverEpochs == {Epoch(2300, 10, <<Sat(178, 30, 8, {}), Sat(5, 30, 9, {})>>)}
=============================================================================
