--------------------------- MODULE RtkEpochsProofs ---------------------------
(***************************************************************************)
(* Theorems about RtkEpochs: types, the exclusion that m_mtxBase gives the *)
(* copies of the last base epoch, what an epoch is made of, the coordinate *)
(* it carries, and the epochs of a rover that sends them whole.            *)
(***************************************************************************)
EXTENDS RtkEpochs, TLAPS

-----------------------------------------------------------------------------
(* Types *)

\* The names of the systems are a set of strings, and an epoch has at least one message.
LEMMA SystemFacts ==
    /\ Len(Systems) \in Nat \ {0}
    /\ \A k \in 1..Len(Systems) : Systems[k] \in System
<1>1. Len(Systems) \in Nat /\ (Len(Systems) = 0 => Systems = <<>>)
  BY EpochsAssumption
<1> QED BY <1>1, EpochsAssumption DEF System

\* A cleared epoch is an epoch.
LEMMA ClearedType == Cleared \in Epoch
BY DEF Cleared, Epoch

\* Decoding a message gives an epoch.
LEMMA DecodedType ==
    ASSUME NEW e \in Epoch, NEW m \in Observation
    PROVE  Decoded(e, m) \in Epoch
<1>1. Tow[m.n] \in Nat
  BY EpochsAssumption DEF Observation
<1>2. PICK f \in Epoch : Decoded(e, m) = e
                         \/ Decoded(e, m) = [f EXCEPT !.t = Tow[m.n], !.obs = @ \union {m}]
  BY ClearedType DEF Decoded
<1>3. f.obs \union {m} \in SUBSET Observation
  BY DEF Epoch
<1> QED BY <1>1, <1>2, <1>3 DEF Epoch

\* The observation a source sends next.
LEMMA NextObservation ==
    ASSUME TypeOK, NEW s \in Source, next[s].n <= MaxEpochs
    PROVE  /\ next[s].n \in 1..MaxEpochs
           /\ [n |-> next[s].n, sys |-> Systems[next[s].k]] \in Observation
           /\ {[n |-> next[s].n, sys |-> y] : y \in System} \in SUBSET Observation
<1>1. next[s].n \in 1..(MaxEpochs + 1) /\ next[s].k \in 1..Len(Systems)
  BY DEF TypeOK
<1>2. next[s].n \in 1..MaxEpochs
  BY <1>1, EpochsAssumption
<1> QED BY <1>1, <1>2, SystemFacts DEF Observation

\* The cursor stays in its range.
LEMMA AdvanceType ==
    ASSUME TypeOK, NEW s \in Source, next[s].n <= MaxEpochs, Advance(s)
    PROVE  next' \in [Source -> [n : 1..(MaxEpochs + 1), k : 1..Len(Systems)]]
<1>1. next[s].n \in 1..MaxEpochs /\ next[s].k \in 1..Len(Systems)
  BY NextObservation DEF TypeOK
<1>2. next[s].n + 1 \in 1..(MaxEpochs + 1) /\ 1 \in 1..Len(Systems)
  BY <1>1, SystemFacts, EpochsAssumption
<1>3. next[s].k < Len(Systems) => next[s].k + 1 \in 1..Len(Systems)
  BY <1>1, SystemFacts
<1>4. next \in [Source -> [n : 1..(MaxEpochs + 1), k : 1..Len(Systems)]]
  BY DEF TypeOK
<1>5. CASE s \in ByRtcm /\ next[s].k < Len(Systems)
  <2>1. next' = [next EXCEPT ![s] = [n |-> next[s].n, k |-> next[s].k + 1]]
    BY <1>5 DEF Advance
  <2> QED BY <1>1, <1>2, <1>3, <1>4, <1>5, <2>1
<1>6. CASE ~(s \in ByRtcm /\ next[s].k < Len(Systems))
  <2>1. next' = [next EXCEPT ![s] = [n |-> next[s].n + 1, k |-> 1]]
    BY <1>6 DEF Advance
  <2> QED BY <1>2, <1>4, <2>1
<1> QED BY <1>5, <1>6

\* PrepareToSolve leaves its variables well typed.
LEMMA PrepareType ==
    ASSUME TypeOK, NEW s \in Source, NEW e \in Epoch, NEW all \in BOOLEAN,
           pc[s] = "idle", hasCoord' \in [Source -> BOOLEAN], Prepare(s, e, all)
    PROVE  /\ epoch' \in [Source -> Epoch]
           /\ hasAll' \in [Source -> BOOLEAN]
           /\ pc' \in [Source -> Step \union {"send"}]
           /\ pc'[Base] # "send"
<1> DEFINE ready == all /\ hasCoord'[s]
           go == IF ready /\ (s = Rover => hasBaseLast) THEN "lock" ELSE "idle"
<1>1. ready \in BOOLEAN /\ go \in {"lock", "idle"}
  OBVIOUS
<1>2. /\ epoch' = [epoch EXCEPT ![s] = e]
      /\ hasAll' = [hasAll EXCEPT ![s] = ready]
      /\ pc' = [pc EXCEPT ![s] = go]
  BY DEF Prepare
<1> HIDE DEF ready, go
<1> QED BY <1>1, <1>2 DEF TypeOK, Step, Source, Base, Rover

\* What every parsing action leaves alone: the shared epoch, the solution in progress and the
\* thread of the other source.
Quiet(s) ==
    /\ UNCHANGED <<shared, solving, solved>>
    /\ \A r \in Source \ {s} : pc'[r] = pc[r] /\ epoch'[r] = epoch[r]
    /\ \/ pc' = pc /\ epoch' = epoch
       \/ pc[s] = "idle" /\ pc'[s] \in {"idle", "lock"}

\* The actions of the parsers are quiet.
LEMMA QuietActions ==
    ASSUME TypeOK, NEW s \in Source,
           \/ Lose(s) \/ ParseMsm(s) \/ ParseOther(s) \/ PushEpoch(s)
           \/ \E c \in Coords \union {Zero} : Parse1005(s, c)
           \/ \E c \in Coords, isGGA \in BOOLEAN : PushGGA(s, isGGA, c)
    PROVE  Quiet(s)
<1>1. ASSUME NEW e, NEW all, pc[s] = "idle", Prepare(s, e, all), UNCHANGED <<shared, solving, solved>>
      PROVE  Quiet(s)
  BY <1>1 DEF Prepare, Quiet, TypeOK
<1>2. Lose(s) => Quiet(s)
  BY DEF Lose, Quiet
<1>3. ParseMsm(s) => Quiet(s)
  BY <1>1 DEF ParseMsm
<1>4. ParseOther(s) => Quiet(s)
  BY <1>1 DEF ParseOther
<1>5. PushEpoch(s) => Quiet(s)
  BY <1>1 DEF PushEpoch
<1>6. ASSUME NEW c, Parse1005(s, c) PROVE Quiet(s)
  BY <1>1, <1>6 DEF Parse1005
<1>7. ASSUME NEW c, NEW isGGA, PushGGA(s, isGGA, c) PROVE Quiet(s)
  BY <1>7 DEF PushGGA, Quiet
<1> QED BY <1>2, <1>3, <1>4, <1>5, <1>6, <1>7

\* What the quiet part of a step keeps of the type invariant.
QuietType ==
    /\ baseLast \in [Half -> Epoch]
    /\ hasBaseLast \in BOOLEAN
    /\ mtxBase \in Source \union {Free}
    /\ solving \in [Half -> Epoch]
    /\ solved \in Seq([base : [Half -> Epoch], rover : Epoch])

\* Every step keeps the type invariant.
LEMMA TypeStep == TypeOK /\ [Next]_vars => TypeOK'
<1> SUFFICES ASSUME TypeOK, [Next]_vars PROVE TypeOK'
  OBVIOUS
<1> USE DEF sent, coords, shared
<1>0. QuietType /\ (UNCHANGED <<shared, solving, solved>> => QuietType')
  BY DEF TypeOK, QuietType
<1>1. ASSUME NEW s \in Source, Lose(s) PROVE TypeOK'
  BY <1>1, AdvanceType DEF Lose, TypeOK
<1>2. ASSUME NEW s \in Source, ParseMsm(s) PROVE TypeOK'
  <2> DEFINE m == [n |-> next[s].n, sys |-> Systems[next[s].k]]
             all == hasAll[s] \/ next[s].k = Len(Systems)
  <2>1. /\ pc[s] = "idle" /\ next[s].n <= MaxEpochs /\ Advance(s) /\ UNCHANGED coords
        /\ received' = [received EXCEPT ![s] = @ \union {m}]
        /\ Prepare(s, Decoded(epoch[s], m), all)
        /\ UNCHANGED <<shared, solving, solved>>
    BY <1>2 DEF ParseMsm
  <2>2. m \in Observation
    BY <2>1, NextObservation
  <2>3. all \in BOOLEAN /\ epoch[s] \in Epoch /\ hasCoord' \in [Source -> BOOLEAN]
    BY <2>1 DEF TypeOK
  <2> HIDE DEF m, all
  <2>4. Decoded(epoch[s], m) \in Epoch
    BY <2>2, <2>3, DecodedType
  <2>5. received' \in [Source -> SUBSET Observation]
    BY <2>1, <2>2 DEF TypeOK
  <2>6. /\ epoch' \in [Source -> Epoch] /\ hasAll' \in [Source -> BOOLEAN]
        /\ pc' \in [Source -> Step \union {"send"}] /\ pc'[Base] # "send"
    BY <2>1, <2>3, <2>4, PrepareType
  <2> QED BY <1>0, <2>1, <2>5, <2>6, AdvanceType DEF TypeOK, QuietType
<1>3. ASSUME NEW s \in Source, ParseOther(s) PROVE TypeOK'
  <2>1. /\ epoch' \in [Source -> Epoch] /\ hasAll' \in [Source -> BOOLEAN]
        /\ pc' \in [Source -> Step \union {"send"}] /\ pc'[Base] # "send"
    BY <1>3, PrepareType DEF ParseOther, TypeOK
  <2> QED BY <1>0, <1>3, <2>1 DEF TypeOK, QuietType, ParseOther
<1>4. ASSUME NEW s \in Source, PushEpoch(s) PROVE TypeOK'
  <2> DEFINE whole == {[n |-> next[s].n, sys |-> y] : y \in System}
             e == [Cleared EXCEPT !.t = Tow[next[s].n], !.obs = whole]
  <2>1. /\ pc[s] = "idle" /\ next[s].n <= MaxEpochs /\ Advance(s) /\ UNCHANGED coords
        /\ received' = [received EXCEPT ![s] = @ \union whole]
        /\ Prepare(s, e, TRUE)
        /\ UNCHANGED <<shared, solving, solved>>
    BY <1>4 DEF PushEpoch
  <2>2. whole \in SUBSET Observation /\ next[s].n \in 1..MaxEpochs
    BY <2>1, NextObservation
  <2>3. Tow[next[s].n] \in Nat
    BY <2>2, EpochsAssumption
  <2> HIDE DEF whole
  <2>4. e \in Epoch
    BY <2>2, <2>3 DEF Cleared, Epoch
  <2> HIDE DEF e
  <2>5. received' \in [Source -> SUBSET Observation]
    BY <2>1, <2>2 DEF TypeOK
  <2>6. hasCoord' \in [Source -> BOOLEAN]
    BY <2>1 DEF TypeOK
  <2>7. /\ epoch' \in [Source -> Epoch] /\ hasAll' \in [Source -> BOOLEAN]
        /\ pc' \in [Source -> Step \union {"send"}] /\ pc'[Base] # "send"
    BY <2>1, <2>4, <2>6, PrepareType
  <2> QED BY <1>0, <2>1, <2>5, <2>7, AdvanceType DEF TypeOK, QuietType
<1>5. ASSUME NEW s \in Source, Lock(s) PROVE TypeOK'
  BY <1>5 DEF Lock, TypeOK, Step, Source, Base, Rover
<1>6. ASSUME NEW s \in Source, NEW c \in Coords \union {Zero}, Parse1005(s, c) PROVE TypeOK'
  <2>1. coord' \in [Source -> Coords \union {Zero}] /\ hasCoord' \in [Source -> BOOLEAN]
    BY <1>6 DEF Parse1005, TypeOK, Usable
  <2>2. /\ epoch' \in [Source -> Epoch] /\ hasAll' \in [Source -> BOOLEAN]
        /\ pc' \in [Source -> Step \union {"send"}] /\ pc'[Base] # "send"
    BY <1>6, <2>1, PrepareType DEF Parse1005, TypeOK
  <2> QED BY <1>0, <1>6, <2>1, <2>2 DEF TypeOK, QuietType, Parse1005
<1>7. ASSUME NEW s \in Source, NEW c \in Coords, NEW isGGA \in BOOLEAN, PushGGA(s, isGGA, c)
      PROVE  TypeOK'
  BY <1>7 DEF PushGGA, TypeOK
<1>8. ASSUME PublishLow PROVE TypeOK'
  <2>0. [epoch[Base] EXCEPT !.at = coord[Base]] \in Epoch
    BY DEF TypeOK, Epoch, Source
  <2>1. epoch' \in [Source -> Epoch]
    BY <1>8, <2>0 DEF PublishLow, TypeOK, Source
  <2>2. baseLast' \in [Half -> Epoch]
    BY <1>8, <2>1 DEF PublishLow, TypeOK, Source
  <2> QED BY <1>8, <2>1, <2>2 DEF PublishLow, TypeOK, Step, Source, Base, Rover
<1>9. ASSUME PublishHigh PROVE TypeOK'
  BY <1>9, ClearedType DEF PublishHigh, TypeOK, Step, Source, Base, Rover
<1>10. ASSUME CopyLow PROVE TypeOK'
  BY <1>10 DEF CopyLow, TypeOK, Step, Half, Source, Base, Rover
<1>11. ASSUME CopyHigh PROVE TypeOK'
  BY <1>11 DEF CopyHigh, TypeOK, Step, Half, Source, Base, Rover
<1>12. ASSUME Solve PROVE TypeOK'
  <2>1. [base |-> solving, rover |-> epoch[Rover]] \in [base : [Half -> Epoch], rover : Epoch]
    BY DEF TypeOK, Source
  <2>2. solved' \in Seq([base : [Half -> Epoch], rover : Epoch])
    BY <1>12, <2>1 DEF Solve, TypeOK
  <2> QED BY <1>12, <2>2, ClearedType DEF Solve, TypeOK, Step, Source, Base, Rover
<1>13. ASSUME UNCHANGED vars PROVE TypeOK'
  BY <1>13 DEF vars, TypeOK
<1> QED BY <1>1, <1>2, <1>3, <1>4, <1>5, <1>6, <1>7, <1>8, <1>9, <1>10, <1>11, <1>12, <1>13 DEF Next

\* The variables of the epoch assembly keep their types, for every order of systems, every set of
\* times and every number of epochs.
THEOREM TypeCorrect == Spec => []TypeOK
<1>1. Init => TypeOK
  <2> SUFFICES ASSUME Init PROVE TypeOK
    OBVIOUS
  <2>1. 1 \in 1..(MaxEpochs + 1) /\ 1 \in 1..Len(Systems)
    BY SystemFacts, EpochsAssumption
  <2>2. next \in [Source -> [n : 1..(MaxEpochs + 1), k : 1..Len(Systems)]]
    BY <2>1 DEF Init
  <2>3. solved \in Seq([base : [Half -> Epoch], rover : Epoch])
    BY DEF Init
  <2> QED BY <2>2, <2>3, ClearedType DEF Init, TypeOK, Step, Source, Base, Rover
<1> QED BY <1>1, TypeStep, PTL DEF Spec

-----------------------------------------------------------------------------
(* The mutex and the halves *)

\* A thread is between taking and releasing m_mtxBase just when it holds it.
MutexHeld == \A s \in Source : mtxBase = s <=> pc[s] \in {"low", "high"}

\* The halves of the last base epoch differ only while the base thread is between them, and those
\* of a copy only while the rover thread is.
Halves ==
    /\ pc[Base] = "high" => baseLast["low"] = epoch[Base]
    /\ pc[Base] # "high" => baseLast["low"] = baseLast["high"]
    /\ pc[Rover] = "high" => solving["low"] = baseLast["low"]
    /\ pc[Rover] = "send" => solving["low"] = solving["high"]

Guarded == MutexHeld /\ Halves /\ Untorn

\* Quiet actions keep the mutex and the halves.
LEMMA QuietGuarded ==
    ASSUME TypeOK, Guarded, NEW s \in Source, Quiet(s)
    PROVE  Guarded'
<1>1. UNCHANGED <<baseLast, mtxBase, solving, solved>>
  BY DEF Quiet, shared
<1>2. \A r \in Source : pc'[r] = pc[r] \/ (pc[r] = "idle" /\ pc'[r] \in {"idle", "lock"})
  BY DEF Quiet
<1>3. MutexHeld'
  BY <1>1, <1>2 DEF Guarded, MutexHeld
<1>4. pc[Base] = "high" => epoch'[Base] = epoch[Base]
  BY DEF Quiet, Source
<1>5. Base \in Source /\ Rover \in Source
  BY DEF Source
<1>6. Halves'
  BY <1>1, <1>2, <1>4, <1>5 DEF Guarded, Halves
<1> QED BY <1>1, <1>3, <1>6 DEF Guarded, Untorn

\* Every step keeps them.
LEMMA GuardedStep == TypeOK /\ Guarded /\ [Next]_vars => Guarded'
<1> SUFFICES ASSUME TypeOK, Guarded, [Next]_vars PROVE Guarded'
  OBVIOUS
<1> USE DEF Source, Base, Rover
<1>0. pc \in [Source -> Step \union {"send"}] /\ mtxBase \in Source \union {Free}
  BY DEF TypeOK
<1>1. ASSUME NEW s \in Source, Lock(s) PROVE Guarded'
  <2>1. mtxBase = Free /\ mtxBase' = s /\ pc[s] = "lock" /\ pc' = [pc EXCEPT ![s] = "low"]
    BY <1>1 DEF Lock, Available
  <2>2. MutexHeld'
    BY <1>0, <2>1 DEF Guarded, MutexHeld, Free
  <2>3. UNCHANGED <<baseLast, epoch, solving, solved>>
    BY <1>1 DEF Lock
  <2>4. Halves'
    BY <1>0, <2>1, <2>3 DEF Guarded, Halves
  <2> QED BY <2>2, <2>3, <2>4 DEF Guarded, Untorn
<1>2. ASSUME PublishLow PROVE Guarded'
  <2>1. pc[Rover] \notin {"low", "high"} /\ mtxBase = Base
    BY <1>0, <1>2 DEF PublishLow, Guarded, MutexHeld
  <2>2. MutexHeld'
    BY <1>0, <1>2, <2>1 DEF PublishLow, Guarded, MutexHeld, shared
  <2>3. baseLast'["low"] = epoch'[Base] /\ pc'[Base] = "high" /\ pc'[Rover] = pc[Rover]
    BY <1>0, <1>2 DEF PublishLow, TypeOK, Half
  <2>4. UNCHANGED <<solving, solved>>
    BY <1>2 DEF PublishLow
  <2>5. Halves'
    BY <2>1, <2>3, <2>4 DEF Guarded, Halves
  <2> QED BY <2>2, <2>4, <2>5 DEF Guarded, Untorn
<1>3. ASSUME PublishHigh PROVE Guarded'
  <2>1. pc[Rover] \notin {"low", "high"} /\ mtxBase = Base
    BY <1>0, <1>3 DEF PublishHigh, Guarded, MutexHeld
  <2>2. pc'[Base] = "idle" /\ pc'[Rover] = pc[Rover] /\ mtxBase' = Free
    BY <1>0, <1>3 DEF PublishHigh
  <2>3. MutexHeld'
    BY <2>1, <2>2 DEF Guarded, MutexHeld, Free
  <2>4. baseLast'["low"] = baseLast'["high"]
    BY <1>3 DEF PublishHigh, Guarded, Halves, TypeOK, Half
  <2>5. UNCHANGED <<solving, solved>>
    BY <1>3 DEF PublishHigh
  <2>6. Halves'
    BY <2>1, <2>2, <2>4, <2>5 DEF Guarded, Halves
  <2> QED BY <2>3, <2>5, <2>6 DEF Guarded, Untorn
<1>4. ASSUME CopyLow PROVE Guarded'
  <2>1. pc'[Rover] = "high" /\ pc'[Base] = pc[Base] /\ pc[Rover] = "low"
    BY <1>0, <1>4 DEF CopyLow
  <2>2. UNCHANGED <<epoch, shared, solved>>
    BY <1>4 DEF CopyLow
  <2>3. MutexHeld'
    BY <2>1, <2>2 DEF Guarded, MutexHeld, shared
  <2>4. solving'["low"] = baseLast["low"]
    BY <1>4 DEF CopyLow, TypeOK, Half
  <2>5. Halves'
    BY <2>1, <2>2, <2>4 DEF Guarded, Halves, shared
  <2> QED BY <2>2, <2>3, <2>5 DEF Guarded, Untorn
<1>5. ASSUME CopyHigh PROVE Guarded'
  <2>1. /\ pc[Rover] = "high" /\ pc'[Rover] = "send" /\ pc'[Base] = pc[Base]
        /\ mtxBase' = Free
    BY <1>0, <1>5 DEF CopyHigh
  <2>2. mtxBase = Rover /\ pc[Base] \notin {"low", "high"}
    BY <1>0, <2>1 DEF Guarded, MutexHeld
  <2>3. MutexHeld'
    BY <2>1, <2>2 DEF MutexHeld, Free
  <2>4. UNCHANGED <<epoch, baseLast, solved>>
    BY <1>5 DEF CopyHigh
  <2>5. solving'["low"] = solving["low"] /\ solving'["high"] = baseLast["high"]
    BY <1>5 DEF CopyHigh, TypeOK, Half
  <2>6. Halves'
    BY <2>1, <2>2, <2>4, <2>5 DEF Guarded, Halves
  <2> QED BY <2>3, <2>4, <2>6 DEF Guarded, Untorn
<1>6. ASSUME Solve PROVE Guarded'
  <2>1. /\ pc[Rover] = "send" /\ pc'[Rover] = "idle" /\ pc'[Base] = pc[Base]
        /\ UNCHANGED <<mtxBase, baseLast, solving>> /\ epoch'[Base] = epoch[Base]
    BY <1>0, <1>6 DEF Solve, shared, TypeOK
  <2>2. MutexHeld'
    BY <2>1 DEF Guarded, MutexHeld
  <2>3. Halves'
    BY <2>1 DEF Guarded, Halves
  <2>4. solving["low"] = solving["high"]
    BY <2>1 DEF Guarded, Halves
  <2>5. solved \in Seq([base : [Half -> Epoch], rover : Epoch])
        /\ solved' = Append(solved, [base |-> solving, rover |-> epoch[Rover]])
    BY <1>6 DEF Solve, TypeOK
  <2>6. Untorn'
    BY <2>4, <2>5 DEF Guarded, Untorn
  <2> QED BY <2>2, <2>3, <2>6 DEF Guarded
<1>7. ASSUME UNCHANGED vars PROVE Guarded'
  BY <1>7 DEF vars, shared, Guarded, MutexHeld, Halves, Untorn
<1> QED BY <1>1, <1>2, <1>3, <1>4, <1>5, <1>6, <1>7, QuietActions, QuietGuarded DEF Next

\* m_mtxBase does what it is there for: Solve never works with a base epoch that is half of one
\* and half of the next.
THEOREM BaseUntorn == Spec => []Untorn
<1>1. Init => Guarded
  <2>1. Init => MutexHeld /\ Halves
    BY DEF Init, MutexHeld, Halves, Half, Source, Base, Rover, Free
  <2>2. Init => Untorn
    BY DEF Init, Untorn
  <2> QED BY <2>1, <2>2 DEF Guarded
<1>2. Guarded => Untorn
  BY DEF Guarded
<1> QED BY <1>1, <1>2, TypeCorrect, GuardedStep, PTL DEF Spec

-----------------------------------------------------------------------------
(* What epochs are made of *)

\* No epoch has the time 0, which is also that of a cleared one.
NoneAtZero == \A n \in 1..MaxEpochs : Tow[n] # 0

Sound(e) == SameTime(e) /\ (e.t = 0 => e.obs = {})

Timed ==
    /\ \A s \in Source : Sound(epoch[s])
    /\ \A h \in Half : SameTime(baseLast[h]) /\ SameTime(solving[h])
    /\ OneTime

\* A message is added to an epoch of its own time only.
LEMMA DecodedSound ==
    ASSUME NoneAtZero, NEW e \in Epoch, Sound(e), NEW m \in Observation
    PROVE  Sound(Decoded(e, m))
<1>1. Tow[m.n] # 0 /\ Tow[m.n] \in Nat
  BY EpochsAssumption DEF NoneAtZero, Observation
<1> DEFINE into == IF e.t \in {0, Tow[m.n]} THEN e ELSE Cleared
           new == [into EXCEPT !.t = Tow[m.n], !.obs = @ \union {m}]
<1>2. into \in Epoch /\ \A o \in into.obs : Tow[o.n] = Tow[m.n]
  BY ClearedType DEF Sound, SameTime, Cleared
<1>3. new.t = Tow[m.n] /\ new.obs = into.obs \union {m}
  BY <1>2 DEF Epoch
<1>4. Decoded(e, m) = IF m.sys \notin Enabled THEN e ELSE new
  BY DEF Decoded
<1> HIDE DEF into, new
<1>5. Sound(new)
  BY <1>1, <1>2, <1>3 DEF Sound, SameTime
<1> QED BY <1>4, <1>5

\* The parsers leave every epoch sound.
LEMMA ParsedSound ==
    ASSUME TypeOK, NoneAtZero, \A r \in Source : Sound(epoch[r]), NEW s \in Source,
           \/ Lose(s) \/ ParseMsm(s) \/ ParseOther(s) \/ PushEpoch(s)
           \/ \E c \in Coords \union {Zero} : Parse1005(s, c)
           \/ \E c \in Coords, isGGA \in BOOLEAN : PushGGA(s, isGGA, c)
    PROVE  \A r \in Source : Sound(epoch'[r])
<1>1. ASSUME NEW e, NEW all, Sound(e), Prepare(s, e, all)
      PROVE  \A r \in Source : Sound(epoch'[r])
  <2>1. epoch' = [epoch EXCEPT ![s] = e]
    BY <1>1 DEF Prepare
  <2> QED BY <1>1, <2>1 DEF TypeOK
<1>2. CASE ParseMsm(s)
  <2> DEFINE m == [n |-> next[s].n, sys |-> Systems[next[s].k]]
  <2>1. m \in Observation
    BY <1>2, NextObservation DEF ParseMsm
  <2>2. Prepare(s, Decoded(epoch[s], m), hasAll[s] \/ next[s].k = Len(Systems))
    BY <1>2 DEF ParseMsm
  <2>3. epoch[s] \in Epoch
    BY DEF TypeOK
  <2> HIDE DEF m
  <2> QED BY <1>1, <2>1, <2>2, <2>3, DecodedSound
<1>3. CASE PushEpoch(s)
  <2> DEFINE whole == {[n |-> next[s].n, sys |-> y] : y \in System}
             e == [Cleared EXCEPT !.t = Tow[next[s].n], !.obs = whole]
  <2>1. Prepare(s, e, TRUE) /\ next[s].n <= MaxEpochs
    BY <1>3 DEF PushEpoch
  <2>2. Tow[next[s].n] # 0
    BY <2>1, NextObservation DEF NoneAtZero
  <2>3. e.t = Tow[next[s].n] /\ e.obs = whole
    BY DEF Cleared
  <2>4. Sound(e)
    BY <2>2, <2>3 DEF Sound, SameTime
  <2> QED BY <1>1, <2>1, <2>4
<1>4. Lose(s) => epoch' = epoch
  BY DEF Lose
<1>5. ParseOther(s) => \A r \in Source : Sound(epoch'[r])
  BY <1>1 DEF ParseOther
<1>6. ASSUME NEW c, Parse1005(s, c) PROVE \A r \in Source : Sound(epoch'[r])
  BY <1>1, <1>6 DEF Parse1005
<1>7. ASSUME NEW c, NEW isGGA, PushGGA(s, isGGA, c) PROVE epoch' = epoch
  BY <1>7 DEF PushGGA
<1> QED BY <1>2, <1>3, <1>4, <1>5, <1>6, <1>7

\* A coordinate does not change the observations of an epoch.
LEMMA PlacedSound ==
    ASSUME NEW e \in Epoch, NEW c PROVE Sound([e EXCEPT !.at = c]) <=> Sound(e)
<1>1. [e EXCEPT !.at = c].t = e.t /\ [e EXCEPT !.at = c].obs = e.obs
  BY DEF Epoch
<1> QED BY <1>1 DEF Sound, SameTime

\* Every step keeps the times together.
LEMMA TimedStep == TypeOK /\ NoneAtZero /\ Timed /\ [Next]_vars => Timed'
<1> SUFFICES ASSUME TypeOK, NoneAtZero, Timed, [Next]_vars PROVE Timed'
  OBVIOUS
<1> USE DEF Source, Base, Rover, Half
<1>0. Sound(Cleared)
  BY DEF Sound, SameTime, Cleared
<1>1. ASSUME NEW s \in Source, Quiet(s), \A r \in Source : Sound(epoch'[r]) PROVE Timed'
  BY <1>1 DEF Timed, OneTime, Quiet, shared
<1>2. ASSUME NEW s \in Source, Lock(s) PROVE Timed'
  BY <1>2 DEF Lock, Timed, OneTime
<1>3. ASSUME PublishLow PROVE Timed'
  <2>1. epoch[Base] \in Epoch /\ epoch'[Base] = [epoch[Base] EXCEPT !.at = coord[Base]]
        /\ epoch'[Rover] = epoch[Rover]
    BY <1>3 DEF PublishLow, TypeOK
  <2>2. Sound(epoch'[Base])
    BY <2>1, PlacedSound DEF Timed
  <2>3. baseLast'["low"] = epoch'[Base] /\ baseLast'["high"] = baseLast["high"]
    BY <1>3 DEF PublishLow, TypeOK
  <2>4. UNCHANGED <<solving, solved>>
    BY <1>3 DEF PublishLow
  <2> QED BY <2>1, <2>2, <2>3, <2>4 DEF Timed, OneTime, Sound
<1>4. ASSUME PublishHigh PROVE Timed'
  <2>1. baseLast'["high"] = epoch[Base] /\ baseLast'["low"] = baseLast["low"]
        /\ epoch'[Base] = Cleared /\ epoch'[Rover] = epoch[Rover]
    BY <1>4 DEF PublishHigh, TypeOK
  <2>2. UNCHANGED <<solving, solved>>
    BY <1>4 DEF PublishHigh
  <2> QED BY <1>0, <2>1, <2>2 DEF Timed, OneTime, Sound
<1>5. ASSUME CopyLow \/ CopyHigh PROVE Timed'
  <2>1. \A h \in Half : solving'[h] = solving[h] \/ solving'[h] = baseLast[h]
    BY <1>5 DEF CopyLow, CopyHigh, TypeOK
  <2>2. UNCHANGED <<epoch, baseLast, solved>>
    BY <1>5 DEF CopyLow, CopyHigh, shared
  <2> QED BY <2>1, <2>2 DEF Timed, OneTime
<1>6. ASSUME Solve PROVE Timed'
  <2>1. epoch'[Base] = epoch[Base] /\ epoch'[Rover] = Cleared
        /\ UNCHANGED <<baseLast, solving>>
    BY <1>6 DEF Solve, TypeOK, shared
  <2>2. SameTime(solving["low"]) /\ SameTime(solving["high"]) /\ SameTime(epoch[Rover])
    BY DEF Timed, Sound
  <2>3. solved \in Seq([base : [Half -> Epoch], rover : Epoch])
        /\ solved' = Append(solved, [base |-> solving, rover |-> epoch[Rover]])
    BY <1>6 DEF Solve, TypeOK
  <2>4. \A i \in 1..Len(solved') : solved'[i] = [base |-> solving, rover |-> epoch[Rover]]
                                  \/ (i \in 1..Len(solved) /\ solved'[i] = solved[i])
    BY <2>3
  <2>5. OneTime'
    BY <2>2, <2>4 DEF Timed, OneTime
  <2> QED BY <1>0, <2>1, <2>5 DEF Timed
<1>7. ASSUME UNCHANGED vars PROVE Timed'
  BY <1>7 DEF vars, shared, Timed, OneTime
<1> QED BY <1>1, <1>2, <1>3, <1>4, <1>5, <1>6, <1>7, QuietActions, ParsedSound DEF Next, Timed

\* As long as no epoch begins at the very start of a week, the engine gets only epochs whose
\* observations all have the time of the epoch, whatever gets lost.
THEOREM EpochsOfOneTime == ASSUME NoneAtZero PROVE Spec => []OneTime
<1>1. Init => Timed
  <2> SUFFICES ASSUME Init PROVE Timed
    OBVIOUS
  <2>1. Sound(Cleared)
    BY DEF Sound, SameTime, Cleared
  <2>2. OneTime
    BY DEF Init, OneTime
  <2> QED BY <2>1, <2>2 DEF Init, Timed, Sound
<1>2. TypeOK /\ Timed /\ [Next]_vars => Timed'
  BY TimedStep
<1>3. Timed => OneTime
  BY DEF Timed
<1> QED BY <1>1, <1>2, <1>3, TypeCorrect, PTL DEF Spec

-----------------------------------------------------------------------------
(* What arrived is in the epoch *)

\* All observations of an epoch number came before the one the base sends next.
Before(n) == n < next[Base].n

\* Nothing more can arrive for an epoch, and what did is in it.
Final(e) ==
    /\ e.obs = Arrived(Base, e.t)
    /\ \A n \in 1..MaxEpochs : Tow[n] = e.t => Before(n)

Collected ==
    /\ \A o \in received[Base] : o.n <= next[Base].n
    /\ next[Base].k = 1 => \A o \in received[Base] : Before(o.n)
    /\ pc[Base] = "idle" => ~hasAll[Base]
    /\ pc[Base] # "idle" => (\A o \in received[Base] : Before(o.n)) /\ Final(epoch[Base])
    /\ epoch[Base].obs = Arrived(Base, epoch[Base].t)
    /\ epoch[Base].t # 0 => \E o \in received[Base] : Tow[o.n] = epoch[Base].t
    /\ \A o \in received[Base] :
          o.n = next[Base].n /\ o.sys \in Enabled => epoch[Base].t = Tow[o.n]
    /\ \A h \in Half : Final(baseLast[h]) /\ Final(solving[h])
    /\ \A i \in 1..Len(solved) : Final(solved[i].base["high"])

\* The numbers a source sends do not go back, and an observation that arrives is not of an earlier
\* epoch, so that an epoch that was final stays so.
LEMMA FinalStays ==
    ASSUME TypeOK, NEW e, Final(e), next'[Base].n \in Nat, next[Base].n <= next'[Base].n,
           \A o \in received[Base] : o \in received'[Base],
           \A o \in received'[Base] : o \in received[Base] \/ o.n = next[Base].n,
           \A o \in received'[Base] : o.n \in 1..MaxEpochs
    PROVE  Final(e)'
<1>1. next[Base].n \in Nat
  BY DEF TypeOK, Source
<1>2. Arrived(Base, e.t)' = Arrived(Base, e.t)
  BY <1>1 DEF Arrived, Final, Before
<1>3. \A n \in 1..MaxEpochs : Tow[n] = e.t => Before(n)'
  BY <1>1, EpochsAssumption DEF Final, Before
<1> QED BY <1>2, <1>3 DEF Final

\* Steps that neither send nor use what was sent keep the observations of the base.
LEMMA FinalSame ==
    ASSUME NEW e, UNCHANGED sent PROVE Final(e)' <=> Final(e)
BY DEF sent, Final, Arrived, Before

\* A step that changes nothing of the base but the half copied keeps the invariant.
LEMMA BaseSame ==
    ASSUME TypeOK, Collected,
           next'[Base] = next[Base], received'[Base] = received[Base],
           hasAll'[Base] = hasAll[Base], pc'[Base] = pc[Base], epoch'[Base] = epoch[Base],
           UNCHANGED <<baseLast, solving, solved>>
    PROVE  Collected'
BY DEF Collected, Final, Arrived, Before

\* A quiet step of the rover leaves the base alone.
LEMMA RoverQuiet ==
    ASSUME TypeOK, Collected,
           \/ Lose(Rover) \/ ParseMsm(Rover) \/ ParseOther(Rover) \/ PushEpoch(Rover)
           \/ \E c \in Coords \union {Zero} : Parse1005(Rover, c)
           \/ \E c \in Coords, isGGA \in BOOLEAN : PushGGA(Rover, isGGA, c)
    PROVE  Collected'
<1> USE DEF Source, Base, Rover
<1>1. Quiet(Rover)
  BY QuietActions
<1>2. pc'[Base] = pc[Base] /\ epoch'[Base] = epoch[Base] /\ UNCHANGED <<baseLast, solving, solved>>
  BY <1>1 DEF Quiet, shared
<1>3. next'[Base] = next[Base] /\ received'[Base] = received[Base]
  BY DEF Lose, ParseMsm, ParseOther, PushEpoch, Parse1005, PushGGA, Advance, sent, TypeOK
<1>4. hasAll'[Base] = hasAll[Base]
  BY DEF Lose, ParseMsm, ParseOther, PushEpoch, Parse1005, PushGGA, Prepare, TypeOK
<1> QED BY <1>2, <1>3, <1>4, BaseSame

\* Where the base that sends messages stands next.
LEMMA BaseAdvance ==
    ASSUME TypeOK, Base \in ByRtcm, next[Base].n <= MaxEpochs, Advance(Base)
    PROVE  /\ next[Base].n \in Nat /\ next'[Base].n \in Nat /\ next[Base].k \in Nat
           /\ \/ next[Base].k # Len(Systems) /\ next'[Base].n = next[Base].n
                 /\ next'[Base].k # 1
              \/ next[Base].k = Len(Systems) /\ next'[Base].n = next[Base].n + 1
                 /\ next'[Base].k = 1
<1>1. /\ next[Base].n \in 1..(MaxEpochs + 1) /\ next[Base].k \in 1..Len(Systems)
      /\ Base \in DOMAIN next
  BY DEF TypeOK, Source
<1>2. next'[Base] = IF next[Base].k < Len(Systems)
                    THEN [n |-> next[Base].n, k |-> next[Base].k + 1]
                    ELSE [n |-> next[Base].n + 1, k |-> 1]
  BY <1>1 DEF Advance
<1> QED BY <1>1, <1>2, SystemFacts, EpochsAssumption

\* A message that is lost keeps the invariant.
LEMMA BaseLose ==
    ASSUME TypeOK, Collected, Base \in ByRtcm, Lose(Base)
    PROVE  Collected'
<1>1. next[Base].n <= MaxEpochs /\ Advance(Base)
      /\ UNCHANGED <<received, epoch, hasAll, pc, baseLast, solving, solved>>
  BY DEF Lose, shared
<1>2. \A o \in received[Base] : o.n \in 1..MaxEpochs
  BY DEF TypeOK, Observation, Source
<1>3. /\ next[Base].n \in Nat /\ next'[Base].n \in Nat
      /\ next'[Base].n = next[Base].n \/ next'[Base].n = next[Base].n + 1
      /\ next'[Base].k = 1 => next'[Base].n = next[Base].n + 1
  BY <1>1, BaseAdvance
<1>4. \A e : Final(e) => Final(e)'
  BY <1>1, <1>2, <1>3, FinalStays
<1>5. \A o \in received[Base] :
        /\ o.n <= next'[Base].n
        /\ next'[Base].k = 1 => o.n < next'[Base].n
        /\ o.n < next[Base].n => o.n < next'[Base].n
        /\ o.n = next'[Base].n => o.n = next[Base].n
  BY <1>2, <1>3 DEF Collected
<1>6. Arrived(Base, epoch[Base].t)' = Arrived(Base, epoch[Base].t)
  BY <1>1 DEF Arrived
<1> QED BY <1>1, <1>4, <1>5, <1>6 DEF Collected, Before

\* The observations among obs that belong to the time t.
Timely(obs, t) == {o \in obs : Tow[o.n] = t /\ o.sys \in Enabled}

\* An epoch holds what arrived for it, and stays with what the messages of one number bring.
LEMMA DecodedCollects ==
    ASSUME TypeOK, NoneAtZero, Collected, NEW m \in Observation, m.n = next[Base].n,
           received'[Base] = received[Base] \union {m}
    PROVE  LET e == Decoded(epoch[Base], m)
           IN /\ e.obs = Timely(received'[Base], e.t)
              /\ e.t # 0 => \E o \in received'[Base] : Tow[o.n] = e.t
              /\ \A o \in received'[Base] :
                    o.n = m.n /\ o.sys \in Enabled => e.t = Tow[o.n]
<1> DEFINE old == epoch[Base]
           e == Decoded(old, m)
<1>1. old \in Epoch /\ Tow[m.n] # 0
  BY DEF TypeOK, Source, NoneAtZero, Observation
<1>2. /\ old.obs = Arrived(Base, old.t)
      /\ old.t # 0 => \E o \in received[Base] : Tow[o.n] = old.t
      /\ \A o \in received[Base] : o.n = m.n /\ o.sys \in Enabled => old.t = Tow[o.n]
  BY DEF Collected
<1>3. \A o \in received[Base] : o.n \in 1..MaxEpochs /\ Tow[o.n] # 0
  BY DEF TypeOK, Observation, Source, NoneAtZero
<1>4. CASE m.sys \notin Enabled
  <2>1. e = old
    BY <1>4 DEF Decoded
  <2> HIDE DEF old, e
  <2>2. \A t : Timely(received'[Base], t) = Timely(received[Base], t)
    BY <1>4 DEF Timely
  <2>3. old.obs = Timely(received[Base], old.t)
    BY <1>2 DEF Arrived, Timely
  <2>4. e.obs = Timely(received'[Base], e.t)
    BY <2>1, <2>2, <2>3
  <2> QED BY <1>2, <1>4, <2>1, <2>4 DEF e, old
<1>5. CASE m.sys \in Enabled
  <2> DEFINE into == IF old.t \in {0, Tow[m.n]} THEN old ELSE Cleared
  <2>1. into \in Epoch /\ e = [into EXCEPT !.t = Tow[m.n], !.obs = @ \union {m}]
    BY <1>1, <1>5, ClearedType DEF Decoded
  <2>2. old.t # Tow[m.n] => Arrived(Base, Tow[m.n]) = {}
    <3>1. \A o \in received[Base] : Tow[o.n] = Tow[m.n] => o.n = m.n
      BY <1>3, EpochsAssumption DEF Observation
    <3> QED BY <1>2, <3>1 DEF Arrived
  <2>3. old.t = 0 => old.obs = {}
    BY <1>2, <1>3 DEF Arrived
  <2>4. into.obs = Arrived(Base, Tow[m.n])
    BY <1>2, <2>2, <2>3 DEF Cleared
  <2> HIDE DEF old, e, into
  <2>5. e.t = Tow[m.n] /\ e.obs = into.obs \union {m}
    BY <2>1 DEF Epoch
  <2>6. Timely(received'[Base], Tow[m.n]) = Arrived(Base, Tow[m.n]) \union {m}
    BY <1>5 DEF Arrived, Timely
  <2>7. e.obs = Timely(received'[Base], e.t)
    BY <2>4, <2>5, <2>6
  <2> QED BY <2>5, <2>7 DEF e, old
<1> QED BY <1>4, <1>5

\* A message that arrives keeps the invariant.
LEMMA BaseParse ==
    ASSUME TypeOK, NoneAtZero, Collected, Base \in ByRtcm, ParseMsm(Base)
    PROVE  Collected'
<1> DEFINE m == [n |-> next[Base].n, sys |-> Systems[next[Base].k]]
           e == Decoded(epoch[Base], m)
           all == hasAll[Base] \/ next[Base].k = Len(Systems)
           ready == all /\ hasCoord'[Base]
<1>1. /\ pc[Base] = "idle" /\ next[Base].n <= MaxEpochs /\ Advance(Base)
      /\ received' = [received EXCEPT ![Base] = @ \union {m}]
      /\ Prepare(Base, e, all)
      /\ UNCHANGED <<baseLast, solving, solved>>
  BY DEF ParseMsm, shared
<1>2. m \in Observation /\ m.n = next[Base].n
  BY <1>1, NextObservation DEF Source
<1>3. received'[Base] = received[Base] \union {m}
  BY <1>1 DEF TypeOK, Source
<1>4. /\ epoch'[Base] = e /\ hasAll'[Base] = ready
      /\ pc'[Base] = IF ready THEN "lock" ELSE "idle"
  BY <1>1 DEF Prepare, TypeOK, Source, Base, Rover
<1>5. ready => next[Base].k = Len(Systems)
  BY <1>1 DEF Collected
<1> HIDE DEF ready, all, m
<1>6. /\ e.obs = Timely(received'[Base], e.t)
      /\ e.t # 0 => \E o \in received'[Base] : Tow[o.n] = e.t
      /\ \A o \in received'[Base] : o.n = m.n /\ o.sys \in Enabled => e.t = Tow[o.n]
  BY <1>2, <1>3, DecodedCollects
<1> HIDE DEF e
<1>7. /\ next[Base].n \in Nat /\ next'[Base].n \in Nat
      /\ next'[Base].n = next[Base].n \/ next'[Base].n = next[Base].n + 1
      /\ next'[Base].k = 1 => next'[Base].n = next[Base].n + 1
      /\ next[Base].k = Len(Systems) => next'[Base].n = next[Base].n + 1
  BY <1>1, BaseAdvance
<1>8. \A o \in received'[Base] : o.n \in 1..MaxEpochs /\ o.n <= next[Base].n
  <2>1. \A o \in received[Base] : o \in Observation /\ o.n <= next[Base].n
    BY DEF TypeOK, Source, Collected
  <2> QED BY <1>2, <1>3, <1>7, <2>1 DEF Observation
<1>9. \A f : Final(f) => Final(f)'
  <2>1. /\ \A o \in received[Base] : o \in received'[Base]
        /\ \A o \in received'[Base] : o \in received[Base] \/ o.n = next[Base].n
    BY <1>2, <1>3
  <2>2. next[Base].n <= next'[Base].n
    BY <1>7
  <2> QED BY <1>7, <1>8, <2>1, <2>2, FinalStays
<1>10. \A o \in received'[Base] :
         /\ o.n <= next'[Base].n
         /\ next'[Base].k = 1 => o.n < next'[Base].n
         /\ ready => o.n < next'[Base].n
         /\ o.n = next'[Base].n => o.n = m.n
  BY <1>2, <1>5, <1>7, <1>8, EpochsAssumption
<1>11. (epoch[Base].obs = Arrived(Base, epoch[Base].t))'
  BY <1>4, <1>6 DEF Arrived, Timely
<1>12. ready => Final(epoch[Base])'
  <2>1. ASSUME ready, NEW n \in 1..MaxEpochs, Tow[n] = e.t PROVE n < next'[Base].n
    <3>1. PICK o \in received'[Base] : Tow[o.n] = e.t
      BY <1>6, <2>1 DEF NoneAtZero
    <3>2. o.n = n
      BY <1>8, <2>1, <3>1, EpochsAssumption
    <3> QED BY <1>10, <2>1, <3>1, <3>2
  <2> QED BY <1>4, <1>11, <2>1 DEF Final, Before
<1>13. /\ (\A o \in received[Base] : o.n <= next[Base].n)'
       /\ (next[Base].k = 1 => \A o \in received[Base] : Before(o.n))'
       /\ (pc[Base] = "idle" => ~hasAll[Base])'
       /\ (pc[Base] # "idle" => (\A o \in received[Base] : Before(o.n)) /\ Final(epoch[Base]))'
  BY <1>4, <1>10, <1>12 DEF Before
<1>14. /\ (epoch[Base].t # 0 => \E o \in received[Base] : Tow[o.n] = epoch[Base].t)'
       /\ (\A o \in received[Base] :
             o.n = next[Base].n /\ o.sys \in Enabled => epoch[Base].t = Tow[o.n])'
  BY <1>4, <1>6, <1>10
<1>15. /\ (\A h \in Half : Final(baseLast[h]) /\ Final(solving[h]))'
       /\ (\A i \in 1..Len(solved) : Final(solved[i].base["high"]))'
  BY <1>1, <1>9 DEF Collected
<1> QED BY <1>11, <1>13, <1>14, <1>15 DEF Collected

\* Every step keeps the invariant, if the base sends messages.
LEMMA CollectedStep ==
    TypeOK /\ NoneAtZero /\ Base \in ByRtcm /\ Collected /\ [Next]_vars => Collected'
<1> SUFFICES ASSUME TypeOK, NoneAtZero, Base \in ByRtcm, Collected, [Next]_vars
             PROVE  Collected'
  OBVIOUS
<1> USE DEF Half
<1>0. Base \in Source /\ Rover \in Source /\ Base # Rover /\ \A s \in Source : s \in {Base, Rover}
  BY DEF Source, Base, Rover
<1>1. ParseOther(Base) => Collected'
  <2> SUFFICES ASSUME ParseOther(Base) PROVE Collected'
    OBVIOUS
  <2>1. pc[Base] = "idle" /\ hasAll[Base] = FALSE
    BY <1>0 DEF ParseOther, Collected, TypeOK
  <2>2. epoch'[Base] = epoch[Base] /\ hasAll'[Base] = FALSE /\ pc'[Base] = "idle"
    BY <1>0, <2>1 DEF ParseOther, Prepare, TypeOK
  <2> QED BY <2>1, <2>2, BaseSame DEF ParseOther, sent, shared
<1>2. ASSUME NEW c, Parse1005(Base, c) PROVE Collected'
  <2>1. pc[Base] = "idle" /\ hasAll[Base] = FALSE
    BY <1>0, <1>2 DEF Parse1005, Collected, TypeOK
  <2>2. epoch'[Base] = epoch[Base] /\ hasAll'[Base] = FALSE /\ pc'[Base] = "idle"
    BY <1>0, <1>2, <2>1 DEF Parse1005, Prepare, TypeOK
  <2> QED BY <1>2, <2>1, <2>2, BaseSame DEF Parse1005, sent, shared
<1>3. ASSUME NEW c, NEW isGGA, PushGGA(Base, isGGA, c) PROVE Collected'
  BY <1>3, BaseSame DEF PushGGA, sent, shared
<1>4. PushEpoch(Base) => FALSE
  BY EpochsAssumption DEF PushEpoch
<1>5. ASSUME NEW s \in Source, Lock(s) PROVE Collected'
  <2>1. UNCHANGED <<sent, epoch, hasAll, baseLast, solving, solved>>
    BY <1>5 DEF Lock
  <2>2. pc'[Base] = pc[Base] \/ (pc[Base] = "lock" /\ pc'[Base] = "low")
    BY <1>0, <1>5 DEF Lock, TypeOK
  <2>3. \A e : Final(e)' <=> Final(e)
    BY <2>1, FinalSame
  <2>4. (pc[Base] # "idle" => (\A o \in received[Base] : Before(o.n)) /\ Final(epoch[Base]))'
    BY <2>1, <2>2, <2>3 DEF Collected, Before, sent
  <2>5. (pc[Base] = "idle" => ~hasAll[Base])'
    BY <2>1, <2>2 DEF Collected
  <2> QED BY <2>1, <2>3, <2>4, <2>5 DEF Collected, Before, Arrived, sent
<1>6. ASSUME PublishLow PROVE Collected'
  <2>1. /\ epoch[Base] \in Epoch /\ epoch'[Base] = [epoch[Base] EXCEPT !.at = coord[Base]]
        /\ baseLast'["low"] = epoch'[Base] /\ baseLast'["high"] = baseLast["high"]
        /\ pc[Base] # "idle" /\ pc'[Base] # "idle"
        /\ UNCHANGED <<sent, hasAll, solving, solved>>
    BY <1>0, <1>6 DEF PublishLow, TypeOK
  <2>2. epoch'[Base].t = epoch[Base].t /\ epoch'[Base].obs = epoch[Base].obs
    BY <2>1 DEF Epoch
  <2>3. \A e : Final(e)' <=> Final(e)
    BY <2>1, FinalSame
  <2>4. Final(epoch[Base])'
    BY <2>1, <2>2 DEF Collected, Final, Arrived, Before, sent
  <2>5. Final(baseLast["low"])' /\ Final(baseLast["high"])'
    BY <2>1, <2>3, <2>4 DEF Collected
  <2>6. \A h \in Half : Final(solving[h])'
    BY <2>1, <2>3 DEF Collected
  <2>7. (\A i \in 1..Len(solved) : Final(solved[i].base["high"]))'
    BY <2>1, <2>3 DEF Collected
  <2>8. (epoch[Base].obs = Arrived(Base, epoch[Base].t))'
    BY <2>4 DEF Final
  <2>9. /\ (epoch[Base].t # 0 => \E o \in received[Base] : Tow[o.n] = epoch[Base].t)'
        /\ (\A o \in received[Base] :
              o.n = next[Base].n /\ o.sys \in Enabled => epoch[Base].t = Tow[o.n])'
    BY <2>1, <2>2 DEF Collected, sent
  <2>10. /\ (\A o \in received[Base] : o.n <= next[Base].n)'
         /\ (\A o \in received[Base] : Before(o.n))'
    BY <2>1 DEF Collected, Before, sent
  <2> QED BY <2>1, <2>4, <2>5, <2>6, <2>7, <2>8, <2>9, <2>10 DEF Collected
<1>7. ASSUME PublishHigh PROVE Collected'
  <2>1. /\ epoch'[Base] = Cleared
        /\ baseLast'["high"] = epoch[Base] /\ baseLast'["low"] = baseLast["low"]
        /\ pc[Base] # "idle" /\ pc'[Base] = "idle" /\ hasAll'[Base] = FALSE
        /\ UNCHANGED <<sent, solving, solved>>
    BY <1>0, <1>7 DEF PublishHigh, TypeOK
  <2>2. \A e : Final(e)' <=> Final(e)
    BY <2>1, FinalSame
  <2>3. Final(baseLast["low"])' /\ Final(baseLast["high"])'
    BY <2>1, <2>2 DEF Collected
  <2>4. \A h \in Half : Final(solving[h])'
    BY <2>1, <2>2 DEF Collected
  <2>5. (\A i \in 1..Len(solved) : Final(solved[i].base["high"]))'
    BY <2>1, <2>2 DEF Collected
  <2>6. \A o \in received[Base] : o.n \in 1..MaxEpochs /\ Before(o.n)
    BY <1>0, <2>1 DEF Collected, TypeOK, Observation
  <2>7. (epoch[Base].obs = Arrived(Base, epoch[Base].t))'
    BY <2>1, <2>6 DEF Cleared, Arrived, NoneAtZero, sent
  <2>8. next[Base].n \in Nat
    BY <1>0 DEF TypeOK
  <2>9. \A o \in received'[Base] :
           Before(o.n)' /\ o.n <= next'[Base].n /\ o.n # next'[Base].n
    BY <2>1, <2>6, <2>8 DEF Before, sent
  <2>10. epoch'[Base].t = 0
    BY <2>1 DEF Cleared
  <2> QED BY <2>1, <2>3, <2>4, <2>5, <2>7, <2>9, <2>10 DEF Collected
<1>8. ASSUME CopyLow \/ CopyHigh PROVE Collected'
  <2>1. /\ \A h \in Half : solving'[h] = solving[h] \/ solving'[h] = baseLast[h]
        /\ pc'[Base] = pc[Base]
        /\ UNCHANGED <<sent, epoch, hasAll, baseLast, solved>>
    BY <1>0, <1>8 DEF CopyLow, CopyHigh, TypeOK, shared
  <2>2. \A e : Final(e)' <=> Final(e)
    BY <2>1, FinalSame
  <2>3. \A h \in Half : Final(solving[h])'
    BY <2>1, <2>2 DEF Collected
  <2> QED BY <2>1, <2>2, <2>3 DEF Collected, Arrived, Before, sent
<1>9. ASSUME Solve PROVE Collected'
  <2>1. /\ epoch'[Base] = epoch[Base] /\ hasAll'[Base] = hasAll[Base] /\ pc'[Base] = pc[Base]
        /\ UNCHANGED <<sent, baseLast, solving>>
    BY <1>0, <1>9 DEF Solve, TypeOK, shared
  <2>2. \A e : Final(e)' <=> Final(e)
    BY <2>1, FinalSame
  <2>3. solved \in Seq([base : [Half -> Epoch], rover : Epoch])
        /\ solved' = Append(solved, [base |-> solving, rover |-> epoch[Rover]])
    BY <1>9 DEF Solve, TypeOK
  <2>4. \A i \in 1..Len(solved') : solved'[i] = [base |-> solving, rover |-> epoch[Rover]]
                                  \/ (i \in 1..Len(solved) /\ solved'[i] = solved[i])
    BY <2>3
  <2>5. \A i \in 1..Len(solved') : Final(solved'[i].base["high"])
    BY <2>4 DEF Collected
  <2>6. (\A i \in 1..Len(solved) : Final(solved[i].base["high"]))'
    BY <2>2, <2>5
  <2> QED BY <2>1, <2>2, <2>6 DEF Collected, Arrived, Before, sent
<1>10. ASSUME UNCHANGED vars PROVE Collected'
  BY <1>10, BaseSame DEF vars, sent, shared
<1> QED BY <1>0, <1>1, <1>2, <1>3, <1>4, <1>5, <1>6, <1>7, <1>8, <1>9, <1>10,
           RoverQuiet, BaseLose, BaseParse DEF Next

\* As long as no epoch begins at the very start of a week, a base epoch the engine gets holds every
\* observation of an enabled system that arrived for its time, whatever was lost before or after.
THEOREM BaseComplete ==
    ASSUME NoneAtZero, Base \in ByRtcm PROVE Spec => []NothingLeftOut
<1>1. Init => Collected
  <2> SUFFICES ASSUME Init PROVE Collected
    OBVIOUS
  <2>1. /\ received[Base] = {} /\ epoch[Base] = Cleared /\ pc[Base] = "idle"
        /\ hasAll[Base] = FALSE /\ \A h \in Half : baseLast[h] = Cleared /\ solving[h] = Cleared
        /\ Len(solved) = 0
    BY DEF Init, Source
  <2>2. Final(Cleared)
    BY <2>1 DEF Final, Cleared, Arrived, NoneAtZero
  <2>3. Cleared.t = 0 /\ Cleared.obs = Arrived(Base, Cleared.t)
    BY <2>2 DEF Final, Cleared
  <2>4. \A i \in 1..Len(solved) : Final(solved[i].base["high"])
    BY <2>1
  <2>5. \A h \in Half : Final(baseLast[h]) /\ Final(solving[h])
    BY <2>1, <2>2
  <2> QED BY <2>1, <2>3, <2>4, <2>5 DEF Collected
<1>2. TypeOK /\ Collected /\ [Next]_vars => Collected'
  BY CollectedStep
<1>3. Collected => NothingLeftOut
  BY DEF Collected, Final, NothingLeftOut
<1> QED BY <1>1, <1>2, <1>3, TypeCorrect, PTL DEF Spec

-----------------------------------------------------------------------------
(* The coordinate of the base *)

\* The flag of the base's coordinate is only set over one of the station, and from there the
\* coordinate goes with the base epoch to the engine.  The flags and where the threads are carry it:
\* the property itself says nothing of the epochs that are still on the way.
Placed ==
    /\ hasCoord[Base] => coord[Base] \in Coords
    /\ pc[Base] # "idle" => hasCoord[Base]
    /\ pc[Base] = "high" => epoch[Base].at \in Coords
    /\ hasBaseLast => baseLast["high"].at \in Coords
    /\ pc[Rover] # "idle" => hasBaseLast
    /\ pc[Rover] = "send" => solving["high"].at \in Coords
    /\ BasePlaced

\* The end of a parser's action keeps the invariant, when its coordinate goes with its flag.
LEMMA PreparePlaced ==
    ASSUME TypeOK, Placed, NEW s \in Source, NEW e, NEW all, pc[s] = "idle", Prepare(s, e, all),
           UNCHANGED <<shared, solving, solved>>,
           hasCoord'[Base] => coord'[Base] \in Coords,
           hasCoord[Base] => hasCoord'[Base]
    PROVE  Placed'
<1> USE DEF Source, Base, Rover
<1>1. pc' = [pc EXCEPT ![s] = IF (all /\ hasCoord'[s]) /\ (s = Rover => hasBaseLast)
                              THEN "lock" ELSE "idle"]
      /\ epoch' = [epoch EXCEPT ![s] = e]
  BY DEF Prepare
<1>2. pc \in [Source -> Step \union {"send"}] /\ epoch \in [Source -> Epoch]
  BY DEF TypeOK
<1>3. UNCHANGED <<baseLast, hasBaseLast, solving, solved>>
  BY DEF shared
<1>4. CASE s = Base
  <2>1. pc'[Rover] = pc[Rover] /\ pc'[Base] \in {"lock", "idle"}
        /\ (pc'[Base] # "idle" => hasCoord'[Base])
    BY <1>1, <1>2, <1>4
  <2> QED BY <1>3, <2>1 DEF Placed, BasePlaced
<1>5. CASE s = Rover
  <2>1. /\ pc'[Base] = pc[Base] /\ epoch'[Base] = epoch[Base] /\ pc'[Rover] \in {"lock", "idle"}
        /\ pc'[Rover] # "idle" => hasBaseLast
    BY <1>1, <1>2, <1>5
  <2> QED BY <1>3, <2>1 DEF Placed, BasePlaced
<1> QED BY <1>4, <1>5

\* Every step keeps the invariant, if the base station's coordinate comes with its messages.
LEMMA PlacedStep == TypeOK /\ Base \notin ByGGA /\ Placed /\ [Next]_vars => Placed'
<1> SUFFICES ASSUME TypeOK, Base \notin ByGGA, Placed, [Next]_vars PROVE Placed'
  OBVIOUS
<1>0. /\ Base \in Source /\ Rover \in Source /\ Base # Rover
      /\ pc \in [Source -> Step \union {"send"}] /\ epoch \in [Source -> Epoch]
      /\ coord \in [Source -> Coords \union {Zero}] /\ hasCoord \in [Source -> BOOLEAN]
      /\ "high" \in Half /\ "low" \in Half /\ DOMAIN baseLast = Half /\ DOMAIN solving = Half
  BY DEF TypeOK, Source, Base, Rover, Half
<1> HIDE DEF Source, Base, Rover
<1>1. ASSUME NEW s \in Source, Lose(s) PROVE Placed'
  BY <1>1 DEF Lose, coords, shared, Placed, BasePlaced
<1>2. ASSUME NEW s \in Source, ParseMsm(s) PROVE Placed'
  BY <1>2, PreparePlaced DEF ParseMsm, coords, Placed
<1>3. ASSUME NEW s \in Source, ParseOther(s) PROVE Placed'
  BY <1>3, PreparePlaced DEF ParseOther, coords, Placed
<1>4. ASSUME NEW s \in Source, PushEpoch(s) PROVE Placed'
  BY <1>4, PreparePlaced DEF PushEpoch, coords, Placed
<1>5. ASSUME NEW s \in Source, NEW c \in Coords \union {Zero}, Parse1005(s, c) PROVE Placed'
  <2>1. /\ coord' = [coord EXCEPT ![s] = IF Usable(c) THEN c ELSE @]
        /\ hasCoord' = [hasCoord EXCEPT ![s] = @ \/ Usable(c)]
    BY <1>5 DEF Parse1005
  <2>2. Usable(c) => c \in Coords
    BY DEF Usable
  <2>3. hasCoord'[Base] => coord'[Base] \in Coords
    BY <1>0, <2>1, <2>2 DEF Placed
  <2>4. hasCoord[Base] => hasCoord'[Base]
    BY <1>0, <2>1
  <2> QED BY <1>5, <2>3, <2>4, PreparePlaced DEF Parse1005
<1>6. ASSUME NEW s \in Source, NEW c \in Coords, NEW isGGA \in BOOLEAN, PushGGA(s, isGGA, c)
      PROVE  Placed'
  <2>1. s # Base
    BY <1>6 DEF PushGGA
  <2>2. coord'[Base] = coord[Base] /\ hasCoord'[Base] = hasCoord[Base]
    BY <1>0, <1>6, <2>1 DEF PushGGA
  <2> QED BY <1>6, <2>2 DEF PushGGA, shared, Placed, BasePlaced
<1>7. ASSUME NEW s \in Source, Lock(s) PROVE Placed'
  <2>1. \A r \in Source : /\ pc'[r] # "idle" => pc[r] # "idle"
                          /\ pc'[r] \in {"high", "send"} => pc'[r] = pc[r]
    BY <1>0, <1>7 DEF Lock
  <2> QED BY <1>0, <1>7, <2>1 DEF Lock, coords, Placed, BasePlaced
<1>8. ASSUME PublishLow PROVE Placed'
  <2>1. pc[Base] = "low" /\ pc'[Base] = "high" /\ pc'[Rover] = pc[Rover]
    BY <1>0, <1>8 DEF PublishLow
  <2>2. epoch'[Base] = [epoch[Base] EXCEPT !.at = coord[Base]] /\ epoch[Base] \in Epoch
    BY <1>0, <1>8 DEF PublishLow
  <2>3. epoch'[Base].at = coord[Base]
    BY <2>2 DEF Epoch
  <2>4. baseLast'["high"] = baseLast["high"]
    BY <1>0, <1>8 DEF PublishLow
  <2> QED BY <1>8, <2>1, <2>3, <2>4 DEF PublishLow, coords, Placed, BasePlaced
<1>9. ASSUME PublishHigh PROVE Placed'
  <2>1. pc[Base] = "high" /\ pc'[Base] = "idle" /\ pc'[Rover] = pc[Rover]
    BY <1>0, <1>9 DEF PublishHigh
  <2>2. baseLast'["high"] = epoch[Base]
    BY <1>0, <1>9 DEF PublishHigh
  <2> QED BY <1>9, <2>1, <2>2 DEF PublishHigh, coords, Placed, BasePlaced
<1>10. ASSUME CopyLow PROVE Placed'
  <2>1. pc[Rover] = "low" /\ pc'[Rover] = "high" /\ pc'[Base] = pc[Base]
    BY <1>0, <1>10 DEF CopyLow
  <2> QED BY <1>10, <2>1 DEF CopyLow, coords, shared, Placed, BasePlaced
<1>11. ASSUME CopyHigh PROVE Placed'
  <2>1. pc[Rover] = "high" /\ pc'[Base] = pc[Base]
    BY <1>0, <1>11 DEF CopyHigh
  <2>2. solving'["high"] = baseLast["high"]
    BY <1>0, <1>11 DEF CopyHigh
  <2> QED BY <1>11, <2>1, <2>2 DEF CopyHigh, coords, Placed, BasePlaced
<1>12. ASSUME Solve PROVE Placed'
  <2>1. pc[Rover] = "send" /\ pc'[Rover] = "idle" /\ pc'[Base] = pc[Base]
        /\ epoch'[Base] = epoch[Base]
    BY <1>0, <1>12 DEF Solve
  <2>2. solved \in Seq([base : [Half -> Epoch], rover : Epoch])
        /\ solved' = Append(solved, [base |-> solving, rover |-> epoch[Rover]])
    BY <1>12 DEF Solve, TypeOK
  <2>3. \A i \in 1..Len(solved') : solved'[i] = [base |-> solving, rover |-> epoch[Rover]]
                                   \/ (i \in 1..Len(solved) /\ solved'[i] = solved[i])
    BY <2>2
  <2>4. BasePlaced'
    BY <2>1, <2>3 DEF Placed, BasePlaced
  <2> QED BY <1>12, <2>1, <2>4 DEF Solve, coords, shared, Placed
<1>13. ASSUME UNCHANGED vars PROVE Placed'
  BY <1>13 DEF vars, coords, shared, Placed, BasePlaced
<1> QED BY <1>1, <1>2, <1>3, <1>4, <1>5, <1>6, <1>7, <1>8, <1>9, <1>10, <1>11, <1>12, <1>13 DEF Next

\* The engine never gets a base epoch before the base station's coordinate is known, and the
\* coordinate goes with the epoch, however the two threads interleave.  PushGGA raises the flag for
\* any sentence, and nothing in the repository calls it for the base.
THEOREM BaseIsPlaced == ASSUME Base \notin ByGGA PROVE Spec => []BasePlaced
<1>1. Init => Placed
  BY DEF Init, Placed, BasePlaced, Source
<1>2. TypeOK /\ Placed /\ [Next]_vars => Placed'
  BY PlacedStep
<1>3. Placed => BasePlaced
  BY DEF Placed
<1> QED BY <1>1, <1>2, <1>3, TypeCorrect, PTL DEF Spec

-----------------------------------------------------------------------------
(* The rover's whole epochs *)

\* The rover's epoch, and those given to the engine, are behind what the rover sends next.
Ended ==
    /\ \A o \in epoch[Rover].obs : o.n < next[Rover].n
    /\ RoverEnded

\* The rover's next epoch never goes back.
LEMMA EndedLater ==
    ASSUME Ended, epoch'[Rover] \in {epoch[Rover], Cleared}, UNCHANGED solved,
           next'[Rover].n >= next[Rover].n, next[Rover].n \in Nat, next'[Rover].n \in Nat,
           \A o \in epoch[Rover].obs : o.n \in Nat,
           \A i \in 1..Len(solved) : \A o \in solved[i].rover.obs : o.n \in Nat
    PROVE  Ended'
BY DEF Ended, RoverEnded, Cleared

\* Every step keeps the invariant, if the rover sends whole epochs.
LEMMA EndedStep == TypeOK /\ Rover \notin ByRtcm /\ Ended /\ [Next]_vars => Ended'
<1> SUFFICES ASSUME TypeOK, Rover \notin ByRtcm, Ended, [Next]_vars PROVE Ended'
  OBVIOUS
<1>0. /\ Base \in Source /\ Rover \in Source /\ Base # Rover /\ \A s \in Source : s \in {Base, Rover}
      /\ next \in [Source -> [n : 1..(MaxEpochs + 1), k : 1..Len(Systems)]]
      /\ epoch \in [Source -> Epoch]
      /\ solved \in Seq([base : [Half -> Epoch], rover : Epoch])
  BY DEF TypeOK, Source, Base, Rover
<1> HIDE DEF Source, Base, Rover
<1>1. /\ next[Rover].n \in Nat
      /\ \A o \in epoch[Rover].obs : o.n \in Nat
      /\ \A i \in 1..Len(solved) : \A o \in solved[i].rover.obs : o.n \in Nat
  <2>1. \A e \in Epoch : \A o \in e.obs : o.n \in Nat
    BY DEF Epoch, Observation
  <2> DEFINE Pair == [base : [Half -> Epoch], rover : Epoch]
  <2>p. \A p \in Pair : p.rover \in Epoch
    OBVIOUS
  <2> HIDE DEF Pair
  <2>2. solved \in Seq(Pair)
    BY <1>0 DEF Pair
  <2>3. \A i \in 1..Len(solved) : solved[i].rover \in Epoch
    BY <2>2, <2>p
  <2> QED BY <1>0, <2>1, <2>3
<1>2. ASSUME next'[Rover] = next[Rover], epoch'[Rover] \in {epoch[Rover], Cleared},
             UNCHANGED solved
      PROVE  Ended'
  BY <1>1, <1>2, EndedLater
<1>3. ASSUME NEW s \in Source, Advance(s) PROVE s # Rover => next'[Rover] = next[Rover]
  BY <1>0, <1>3 DEF Advance
<1>4. ASSUME Advance(Rover) PROVE next'[Rover].n = next[Rover].n + 1
  BY <1>0, <1>4 DEF Advance
<1>5. ASSUME NEW s \in Source, NEW e, NEW all, Prepare(s, e, all) PROVE s # Rover => epoch'[Rover] = epoch[Rover]
  BY <1>0, <1>5 DEF Prepare
<1>6. ASSUME NEW s \in Source, Lose(s) PROVE Ended'
  <2>1. UNCHANGED <<epoch, solved>> /\ Advance(s)
    BY <1>6 DEF Lose
  <2>2. next'[Rover].n = next[Rover].n \/ next'[Rover].n = next[Rover].n + 1
    BY <1>0, <1>3, <1>4, <2>1
  <2> QED BY <1>1, <2>1, <2>2, EndedLater
<1>7. ASSUME NEW s \in Source, ParseMsm(s) PROVE Ended'
  <2>1. s # Rover
    BY <1>7 DEF ParseMsm
  <2> QED BY <1>2, <1>3, <1>5, <1>7, <2>1 DEF ParseMsm
<1>8. ASSUME NEW s \in Source, ParseOther(s) PROVE Ended'
  <2>1. s # Rover
    BY <1>8 DEF ParseOther
  <2> QED BY <1>2, <1>5, <1>8, <2>1 DEF ParseOther, sent
<1>9. ASSUME NEW s \in Source, NEW c, Parse1005(s, c) PROVE Ended'
  <2>1. s # Rover
    BY <1>9 DEF Parse1005
  <2> QED BY <1>2, <1>5, <1>9, <2>1 DEF Parse1005, sent
<1>10. ASSUME NEW s \in Source, PushEpoch(s) PROVE Ended'
  <2> DEFINE whole == {[n |-> next[s].n, sys |-> y] : y \in System}
             e == [Cleared EXCEPT !.t = Tow[next[s].n], !.obs = whole]
  <2>1. Advance(s) /\ Prepare(s, e, TRUE) /\ UNCHANGED solved
    BY <1>10 DEF PushEpoch
  <2>2. s # Rover => Ended'
    BY <1>2, <1>3, <1>5, <2>1
  <2>3. CASE s = Rover
    <3>1. epoch'[Rover] = e /\ next'[Rover].n = next[Rover].n + 1
      BY <1>0, <1>4, <2>1, <2>3 DEF Prepare
    <3>2. e.obs = whole /\ \A o \in whole : o.n = next[Rover].n
      BY <2>3 DEF Cleared
    <3> HIDE DEF e, whole
    <3>3. \A o \in epoch'[Rover].obs : o.n < next'[Rover].n
      BY <1>1, <3>1, <3>2
    <3>4. RoverEnded'
      BY <1>1, <2>1, <3>1 DEF Ended, RoverEnded
    <3> QED BY <3>3, <3>4 DEF Ended
  <2> QED BY <2>2, <2>3
<1>11. ASSUME NEW s \in Source, NEW c, NEW isGGA, PushGGA(s, isGGA, c) PROVE Ended'
  BY <1>2, <1>11 DEF PushGGA, sent
<1>12. ASSUME NEW s \in Source, Lock(s) PROVE Ended'
  BY <1>2, <1>12 DEF Lock, sent
<1>13. ASSUME PublishLow \/ PublishHigh \/ CopyLow \/ CopyHigh PROVE Ended'
  <2>1. epoch'[Rover] = epoch[Rover] /\ UNCHANGED <<next, solved>>
    BY <1>0, <1>13 DEF PublishLow, PublishHigh, CopyLow, CopyHigh, sent
  <2> QED BY <1>2, <2>1
<1>14. ASSUME Solve PROVE Ended'
  <2>1. /\ solved' = Append(solved, [base |-> solving, rover |-> epoch[Rover]])
        /\ epoch'[Rover] = Cleared /\ next' = next
    BY <1>0, <1>14 DEF Solve, sent
  <2>2. \A i \in 1..Len(solved') : solved'[i] = [base |-> solving, rover |-> epoch[Rover]]
                                   \/ (i \in 1..Len(solved) /\ solved'[i] = solved[i])
    BY <1>0, <2>1
  <2>3. RoverEnded'
    BY <2>1, <2>2 DEF Ended, RoverEnded
  <2> QED BY <2>1, <2>3 DEF Ended, Cleared
<1>15. ASSUME UNCHANGED vars PROVE Ended'
  BY <1>2, <1>15 DEF vars, sent
<1> QED BY <1>6, <1>7, <1>8, <1>9, <1>10, <1>11, <1>12, <1>13, <1>14, <1>15 DEF Next

\* A rover that hands in whole epochs with PushEpoch never has one solved that waits for more: what
\* the stale flag of a complete epoch (QRtkImpl.cpp:899) breaks for RTCM messages cannot happen to it.
THEOREM WholeEpochsEnd == ASSUME Rover \notin ByRtcm PROVE Spec => []RoverEnded
<1>1. Init => Ended
  BY DEF Init, Ended, RoverEnded, Cleared, Source
<1>2. TypeOK /\ Ended /\ [Next]_vars => Ended'
  BY EndedStep
<1>3. Ended => RoverEnded
  BY DEF Ended
<1> QED BY <1>1, <1>2, <1>3, TypeCorrect, PTL DEF Spec
=============================================================================
