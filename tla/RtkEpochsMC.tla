----------------------------- MODULE RtkEpochsMC -----------------------------
(***************************************************************************)
(* Small instances of RtkEpochs for TLC.                                   *)
(***************************************************************************)
EXTENDS RtkEpochs

MCSystems == <<"GPS", "GLO", "BDS">>
MCEnabled == {"GPS", "GLO"}     \* the message that ends an epoch is of no enabled system
MCTow == [n \in 1..MaxEpochs |-> n * 1000]
MCWeekStart == [n \in 1..MaxEpochs |-> (n - 1) * 1000]
MCOneCoord == {"here"}
MCNone == {}
MCBase == {Base}
MCRover == {Rover}
MCBoth == Source
=============================================================================
