------------------------------ MODULE RtkEpochs ------------------------------
(***************************************************************************)
(* How CQRtkImpl (src/OEMRtk-N/QRtkImpl.cpp) puts epochs of observations   *)
(* together and hands a pair of a base and a rover epoch to the RTK        *)
(* engine.  One thread brings the messages of the base, one what comes     *)
(* from the rover, as RTCM messages or as whole epochs; the last base      *)
(* epoch is what they share, under m_mtxBase.  The copies of an epoch into *)
(* and out of m_baseLastEpoch take two steps, one for each half, so that   *)
(* what the mutex is for can be seen.                                      *)
(*                                                                         *)
(* An epoch is its time t in milliseconds (dInt2 of WangEpoch.t, 0 when it *)
(* was cleared), the coordinate in its x, y, z, and the observations in it *)
(* as pairs of epoch number and system.  m_rovLastEpoch, elevations and    *)
(* the results are left out, and ephemerides are messages without effect.  *)
(***************************************************************************)
EXTENDS Integers, Sequences

CONSTANTS Systems,     \* the systems of an epoch, in the order their messages are sent
          Enabled,     \* _constellationMask
          Tow,         \* time of week in milliseconds of each epoch
          MaxEpochs,   \* bound on the epochs a source sends
          MayLose,     \* whether messages and epochs may get lost
          ByRtcm,      \* the sources that use PushRtcm
          ByEpoch,     \* the sources that use PushEpoch
          ByGGA,       \* the sources whose coordinate comes from PushGGA
          Coords       \* coordinates, all components nonzero

VARIABLES next,        \* [n, k]: epoch and position in Systems a source sends next
          received,    \* the observations that have reached a source's parser
          epoch,       \* m_rovEpoch, m_baseEpoch
          hasAll,      \* m_bHasRovAllEpoch, m_bHasBaseAllEpoch
          coord,       \* m_rovCoord, m_baseCoord
          hasCoord,    \* m_bHasRovCoord, m_bHasBaseCoord
          baseLast,    \* m_baseLastEpoch, by halves
          hasBaseLast, \* m_bHasBaseLastAllEpoch
          mtxBase,     \* the source whose thread holds m_mtxBase, or Free
          pc,          \* where the thread of each source is
          solving,     \* the local baseEpoch in Solve, by halves
          solved       \* the pairs passed to SendEpochToQRtk

sent == <<next, received>>
coords == <<coord, hasCoord>>
shared == <<baseLast, hasBaseLast, mtxBase>>
vars == <<sent, epoch, hasAll, coords, shared, pc, solving, solved>>

Rover == "rover"
Base == "base"
Source == {Rover, Base}
Free == "free"
Zero == "zero"         \* a coordinate after memset, or of a 1005 without one
Half == {"low", "high"}

ASSUME EpochsAssumption ==
    /\ Systems \in Seq(STRING) /\ Systems # <<>>
    /\ MaxEpochs \in Nat
    /\ Tow \in [1..MaxEpochs -> Nat]
    /\ \A m, n \in 1..MaxEpochs : Tow[m] = Tow[n] => m = n
    /\ MayLose \in BOOLEAN
    /\ ByRtcm \subseteq Source /\ ByEpoch \subseteq Source /\ ByRtcm \intersect ByEpoch = {}
    /\ ByGGA \subseteq Source
    /\ Zero \notin Coords

System == {Systems[k] : k \in 1..Len(Systems)}
Observation == [n : 1..MaxEpochs, sys : System]
Epoch == [t : Nat, obs : SUBSET Observation, at : Coords \union {Zero}]

\* An epoch after memset
Cleared == [t |-> 0, obs |-> {}, at |-> Zero]

-----------------------------------------------------------------------------
(* What the sources send *)

Advance(s) ==
    next' = [next EXCEPT ![s] =
                IF s \in ByRtcm /\ @.k < Len(Systems) THEN [n |-> @.n, k |-> @.k + 1]
                ELSE [n |-> @.n + 1, k |-> 1]]

Lose(s) ==
    /\ MayLose
    /\ s \in ByRtcm \union ByEpoch
    /\ next[s].n <= MaxEpochs
    /\ Advance(s)
    /\ UNCHANGED <<received, epoch, hasAll, coords, shared, pc, solving, solved>>

-----------------------------------------------------------------------------
(* The messages and PrepareToSolve *)

\* Mutant: the time of an epoch that was begun is not looked at.
Piled(e, m) ==
    IF m.sys \notin Enabled THEN e ELSE [e EXCEPT !.t = Tow[m.n], !.obs = @ \union {m}]

\* Mutant: an epoch is always begun anew.
Restarted(e, m) ==
    IF m.sys \notin Enabled THEN e ELSE [Cleared EXCEPT !.t = Tow[m.n], !.obs = {m}]

\* decode_msm4, decode_msm7: a message of another time (-2) clears the epoch and is decoded again.
Decoded(e, m) ==
    IF m.sys \notin Enabled THEN e
    ELSE LET into == IF e.t \in {0, Tow[m.n]} THEN e ELSE Cleared
         IN [into EXCEPT !.t = Tow[m.n], !.obs = @ \union {m}]

\* The end of a message or of PushEpoch: with a complete epoch, PrepareToSolve.  The base goes on
\* to publish its epoch, the rover to Solve, both from taking m_mtxBase on.
Prepare(s, e, all) ==
    LET ready == all /\ hasCoord'[s]
    IN /\ epoch' = [epoch EXCEPT ![s] = e]
       /\ hasAll' = [hasAll EXCEPT ![s] = ready]
       /\ pc' = [pc EXCEPT ![s] = IF ready /\ (s = Rover => hasBaseLast) THEN "lock" ELSE "idle"]

\* MSM4 or MSM7; the sync bit of the last message of an epoch is 0, which completes it, also when
\* its system is not enabled.
ParseMsm(s) ==
    LET m == [n |-> next[s].n, sys |-> Systems[next[s].k]]
    IN /\ pc[s] = "idle"
       /\ s \in ByRtcm
       /\ next[s].n <= MaxEpochs
       /\ Advance(s)
       /\ received' = [received EXCEPT ![s] = @ \union {m}]
       /\ UNCHANGED coords
       /\ Prepare(s, Decoded(epoch[s], m), hasAll[s] \/ next[s].k = Len(Systems))
       /\ UNCHANGED <<shared, solving, solved>>

\* Mutant: a coordinate is taken as it comes.
AnyCoord(c) == TRUE

Usable(c) == c # Zero

Parse1005(s, c) ==
    /\ pc[s] = "idle"
    /\ s \in ByRtcm
    /\ coord' = [coord EXCEPT ![s] = IF Usable(c) THEN c ELSE @]
    /\ hasCoord' = [hasCoord EXCEPT ![s] = @ \/ Usable(c)]
    /\ Prepare(s, epoch[s], hasAll[s])
    /\ UNCHANGED <<sent, shared, solving, solved>>

\* Any other message, or an MSM that does not decode: only the flag is looked at.
ParseOther(s) ==
    /\ pc[s] = "idle"
    /\ s \in ByRtcm
    /\ UNCHANGED coords
    /\ Prepare(s, epoch[s], hasAll[s])
    /\ UNCHANGED <<sent, shared, solving, solved>>

PushEpoch(s) ==
    LET whole == {[n |-> next[s].n, sys |-> y] : y \in System}
    IN /\ pc[s] = "idle"
       /\ s \in ByEpoch
       /\ next[s].n <= MaxEpochs
       /\ Advance(s)
       /\ received' = [received EXCEPT ![s] = @ \union whole]
       /\ UNCHANGED coords
       /\ Prepare(s, [Cleared EXCEPT !.t = Tow[next[s].n], !.obs = whole], TRUE)
       /\ UNCHANGED <<shared, solving, solved>>

\* decode_nmea fails without effect on a GGA with empty fields; a sentence that is no GGA leaves
\* the coordinate alone and still sets the flag.
PushGGA(s, isGGA, c) ==
    /\ pc[s] = "idle"
    /\ s \in ByGGA
    /\ coord' = IF isGGA THEN [coord EXCEPT ![s] = c] ELSE coord
    /\ hasCoord' = [hasCoord EXCEPT ![s] = TRUE]
    /\ UNCHANGED <<sent, epoch, hasAll, shared, pc, solving, solved>>

-----------------------------------------------------------------------------
(* The last base epoch, and Solve *)

Unguarded(s) == TRUE        \* mutant

Available(s) == mtxBase = Free

Lock(s) ==
    /\ pc[s] = "lock"
    /\ Available(s)
    /\ mtxBase' = s
    /\ pc' = [pc EXCEPT ![s] = "low"]
    /\ UNCHANGED <<sent, epoch, hasAll, coords, baseLast, hasBaseLast, solving, solved>>

\* The coordinate is put into the base epoch before it is copied.
PublishLow ==
    /\ pc[Base] = "low"
    /\ epoch' = [epoch EXCEPT ![Base].at = coord[Base]]
    /\ baseLast' = [baseLast EXCEPT !["low"] = epoch'[Base]]
    /\ pc' = [pc EXCEPT ![Base] = "high"]
    /\ UNCHANGED <<sent, hasAll, coords, hasBaseLast, mtxBase, solving, solved>>

PublishHigh ==
    /\ pc[Base] = "high"
    /\ baseLast' = [baseLast EXCEPT !["high"] = epoch[Base]]
    /\ hasBaseLast' = TRUE
    /\ mtxBase' = Free
    /\ epoch' = [epoch EXCEPT ![Base] = Cleared]
    /\ hasAll' = [hasAll EXCEPT ![Base] = FALSE]
    /\ pc' = [pc EXCEPT ![Base] = "idle"]
    /\ UNCHANGED <<sent, coords, solving, solved>>

CopyLow ==
    /\ pc[Rover] = "low"
    /\ solving' = [solving EXCEPT !["low"] = baseLast["low"]]
    /\ pc' = [pc EXCEPT ![Rover] = "high"]
    /\ UNCHANGED <<sent, epoch, hasAll, coords, shared, solved>>

CopyHigh ==
    /\ pc[Rover] = "high"
    /\ solving' = [solving EXCEPT !["high"] = baseLast["high"]]
    /\ mtxBase' = Free
    /\ pc' = [pc EXCEPT ![Rover] = "send"]
    /\ UNCHANGED <<sent, epoch, hasAll, coords, baseLast, hasBaseLast, solved>>

Solve ==
    /\ pc[Rover] = "send"
    /\ solved' = Append(solved, [base |-> solving, rover |-> epoch[Rover]])
    /\ epoch' = [epoch EXCEPT ![Rover] = Cleared]
    /\ hasAll' = [hasAll EXCEPT ![Rover] = FALSE]
    /\ pc' = [pc EXCEPT ![Rover] = "idle"]
    /\ UNCHANGED <<sent, coords, shared, solving>>

-----------------------------------------------------------------------------
Init ==
    /\ next = [s \in Source |-> [n |-> 1, k |-> 1]]
    /\ received = [s \in Source |-> {}]
    /\ epoch = [s \in Source |-> Cleared]
    /\ hasAll = [s \in Source |-> FALSE]
    /\ coord = [s \in Source |-> Zero]
    /\ hasCoord = [s \in Source |-> FALSE]
    /\ baseLast = [h \in Half |-> Cleared]
    /\ hasBaseLast = FALSE
    /\ mtxBase = Free
    /\ pc = [s \in Source |-> "idle"]
    /\ solving = [h \in Half |-> Cleared]
    /\ solved = <<>>

Next ==
    \/ \E s \in Source :
          \/ Lose(s) \/ ParseMsm(s) \/ ParseOther(s) \/ PushEpoch(s) \/ Lock(s)
          \/ \E c \in Coords \union {Zero} : Parse1005(s, c)
          \/ \E c \in Coords, isGGA \in BOOLEAN : PushGGA(s, isGGA, c)
    \/ PublishLow \/ PublishHigh \/ CopyLow \/ CopyHigh \/ Solve

Spec == Init /\ [][Next]_vars

-----------------------------------------------------------------------------
(* Properties *)

Step == {"idle", "lock", "low", "high"}

TypeOK ==
    /\ next \in [Source -> [n : 1..(MaxEpochs + 1), k : 1..Len(Systems)]]
    /\ received \in [Source -> SUBSET Observation]
    /\ epoch \in [Source -> Epoch]
    /\ hasAll \in [Source -> BOOLEAN]
    /\ coord \in [Source -> Coords \union {Zero}]
    /\ hasCoord \in [Source -> BOOLEAN]
    /\ baseLast \in [Half -> Epoch]
    /\ hasBaseLast \in BOOLEAN
    /\ mtxBase \in Source \union {Free}
    /\ pc \in [Source -> Step \union {"send"}]
    /\ pc[Base] # "send"
    /\ solving \in [Half -> Epoch]
    /\ solved \in Seq([base : [Half -> Epoch], rover : Epoch])

\* The engine never gets a base epoch of which one half is older than the other, whenever the base
\* thread publishes a new one.
Untorn == \A i \in 1..Len(solved) : solved[i].base["low"] = solved[i].base["high"]

SameTime(e) == \A o \in e.obs : Tow[o.n] = e.t

\* The observations of an epoch given to the engine, of the base or of the rover, are all of the
\* time the epoch carries, whatever messages were lost and wherever an epoch was broken off
\* ("t differs, clear", QRtkImpl.cpp:757 and 809).
OneTime ==
    \A i \in 1..Len(solved) :
        SameTime(solved[i].base["low"]) /\ SameTime(solved[i].base["high"])
        /\ SameTime(solved[i].rover)

Arrived(s, t) == {o \in received[s] : Tow[o.n] = t /\ o.sys \in Enabled}

\* A base epoch that was given to the engine has everything that arrived for its time, of the
\* systems that are enabled.
NothingLeftOut ==
    \A i \in 1..Len(solved) :
        solved[i].base["high"].obs = Arrived(Base, solved[i].base["high"].t)

\* The engine gets a base epoch only with a coordinate that the base station gave.
BasePlaced == \A i \in 1..Len(solved) : solved[i].base["high"].at \in Coords

\* The engine gets no rover epoch that waits for more of its messages ("this epoch has not ended,
\* please go on waiting", QRtkImpl.cpp:776 and 828).
RoverEnded ==
    \A i \in 1..Len(solved) : \A o \in solved[i].rover.obs :
        o.n < next[Rover].n
=============================================================================
