-------------------------- MODULE NtripTaskProofs --------------------------
(***************************************************************************)
(* The types of NtripTask, what close_socket releases, the order of what   *)
(* is sent, and what the callback gets.                                    *)
(***************************************************************************)
EXTENDS NtripTask, TLAPS

\* ggaMtx is held where the code holds it, and while the task sends a position
\* it is the one it took the length of.
MutexHeld ==
    /\ mutex = "caller" <=> caller = "copy"
    /\ mutex = "task" <=> pc = "send"
    /\ pc = "send" => size = gga /\ gga # 0

\* A position in the buffer is the newest, and was not sent.
GgaIsNew ==
    /\ gga # 0 => gga = requests
    /\ \A i \in DOMAIN wrote : /\ wrote[i].text <= requests
                               /\ gga # 0 => wrote[i].text < gga

\* The flags tell what was sent on the connection.
FlagsAgree ==
    /\ pc = "login" => ~isLogined
    /\ pc \in {"lock", "send"} => isLogined
    /\ \A i \in DOMAIN wrote : /\ wrote[i].conn <= attempts
                               /\ ~isLogined => wrote[i].conn < attempts
    /\ isLogined => \E i \in DOMAIN wrote : wrote[i].conn = attempts /\ wrote[i].text = 0

\* Cells come after the login, and are passed on after the answer.
CellsAgree ==
    /\ wire # <<>> => isLogined
    /\ isAuthed => skipped > 0
    /\ ~isAuthed => got = <<>>
    /\ peer \in {"none", "opening", "reset"} => wire = <<>>

SendInv == MutexHeld /\ GgaIsNew /\ FlagsAgree /\ WroteInOrder

CellInv == CellsAgree /\ DeliveredAfterAnswer

-----------------------------------------------------------------------------
(* Types.                                                                   *)

\* An attempt to connect keeps the types.
LEMMA ConnectTypes ==
    ASSUME TypeOK, Connect
    PROVE  TypeOK'
<1> USE NtripTaskAssumption
<1>1. PICK outcome \in {"dns", "socket", "bind", "connect", "ok"} :
          /\ OpenSocket(outcome)
          /\ pc' = IF outcome = "ok" THEN "select" ELSE "connect"
          /\ peer' = IF outcome = "ok" THEN "opening" ELSE "none"
  BY DEF Connect
<1>2. attempts' \in 0..MaxAttempts
  BY <1>1 DEF Connect, OpenSocket, TypeOK
<1>3. Released \in [Fd -> {"free", "task", "other"}]
  BY DEF Released, TypeOK
<1>4. owner' \in [Fd -> {"free", "task", "other"}] /\ sockFd' \in Fd \union {-1}
  BY <1>1, <1>3 DEF OpenSocket, HasSocket, TypeOK
<1>5. res' \in {"null", "live", "freed"} /\ attempt' = outcome
  BY <1>1 DEF OpenSocket
<1>6. wire' \in Seq(1..MaxCells) /\ got' \in Seq(1..MaxCells)
  BY DEF Connect
<1>7. wrote' \in Seq(Wrote)
  BY DEF Connect, TypeOK
<1>8. pc' \in {"connect", "select"} /\ peer' \in {"none", "opening"}
  BY <1>1
<1>9. attempt' \in {"dns", "socket", "bind", "connect", "ok"}
  BY <1>5
<1>10. sent' \in 0..MaxCells /\ skipped' \in 0..MaxCells
  BY DEF Connect
<1>11. caller' = caller /\ mutex' = mutex /\ gga' = gga /\ size' = size /\ requests' = requests
  BY DEF Connect, mailbox
<1> HIDE DEF Wrote
<1> QED
  BY <1>2, <1>4, <1>5, <1>6, <1>7, <1>8, <1>9, <1>10, <1>11 DEF Connect, TypeOK

\* So do the other steps of the task.
LEMMA TaskTypes ==
    ASSUME TypeOK, End \/ Select \/ SelectFails \/ Login \/ LockGga \/ SendGga
    PROVE  TypeOK'
<1> USE NtripTaskAssumption DEF socketVars, flags, network, mailbox, output
<1>1. CASE End
  BY <1>1 DEF End, TypeOK
<1>2. CASE Select
  <2>1. readable' \in BOOLEAN
    BY <1>2 DEF Select
  <2>2. pc' \in {"connect", "select", "login", "lock", "read"}
    BY <1>2 DEF Select, Dispatch, AfterWrite
  <2> QED
    BY <1>2, <2>1, <2>2 DEF Select, TypeOK
<1>3. CASE SelectFails
  BY <1>3 DEF SelectFails, TypeOK
<1>4. CASE Login
  <2>1. Entry(0, 0) \in Wrote
    BY DEF Entry, Wrote, TypeOK
  <2>2. wrote' \in Seq(Wrote)
    BY <1>4, <2>1 DEF Login, TypeOK
  <2> QED
    BY <1>4, <2>2 DEF Login, TypeOK, AfterWrite
<1>5. CASE LockGga
  BY <1>5 DEF LockGga, TypeOK, AfterWrite
<1>6. CASE SendGga
  <2>1. Entry(gga, size) \in Wrote
    BY DEF Entry, Wrote, TypeOK
  <2>2. wrote' \in Seq(Wrote)
    BY <1>6, <2>1 DEF SendGga, TypeOK
  <2> QED
    BY <1>6, <2>2 DEF SendGga, TypeOK, AfterWrite
<1> QED
  BY <1>1, <1>2, <1>3, <1>4, <1>5, <1>6

\* Two sequences of cells joined: their length and what is where.
LEMMA Joined ==
    ASSUME NEW S, NEW s \in Seq(S), NEW t \in Seq(S)
    PROVE  /\ s \o t \in Seq(S)
           /\ Len(s \o t) = Len(s) + Len(t)
           /\ \A i \in DOMAIN (s \o t) :
                  \/ i \in DOMAIN s /\ (s \o t)[i] = s[i]
                  \/ i - Len(s) \in DOMAIN t /\ (s \o t)[i] = t[i - Len(s)]
  OBVIOUS

\* A cell appended likewise.
LEMMA Appended ==
    ASSUME NEW S, NEW s \in Seq(S), NEW e \in S
    PROVE  /\ Append(s, e) \in Seq(S)
           /\ Len(Append(s, e)) = Len(s) + 1
           /\ \A i \in DOMAIN Append(s, e) :
                  \/ i \in DOMAIN s /\ Append(s, e)[i] = s[i]
                  \/ i = Len(s) + 1 /\ Append(s, e)[i] = e
  OBVIOUS

\* Of a nonempty socket at least one cell is read, and the rest is left.
LEMMA ReadCells ==
    ASSUME TypeOK, wire # <<>>
    PROVE  LET cells == SubSeq(wire, 1, Arrived)
               rest == SubSeq(wire, Arrived + 1, Len(wire))
           IN  /\ Arrived \in 1..Len(wire)
               /\ cells \in Seq(1..MaxCells) /\ rest \in Seq(1..MaxCells)
               /\ Len(cells) = Arrived /\ Len(rest) = Len(wire) - Arrived
               /\ \A i \in DOMAIN cells : cells[i] = wire[i]
               /\ \A i \in DOMAIN rest : Arrived + i \in DOMAIN wire /\ rest[i] = wire[Arrived + i]
<1> USE NtripTaskAssumption
<1>1. wire \in Seq(1..MaxCells) /\ Len(wire) \in Nat \ {0}
  BY DEF TypeOK
<1>2. Arrived \in 1..Len(wire)
  BY <1>1 DEF Arrived
<1> DEFINE k == Arrived
<1> HIDE DEF k
<1>3. k \in 1..Len(wire)
  BY <1>2 DEF k
<1>4. /\ SubSeq(wire, 1, k) \in Seq(1..MaxCells) /\ Len(SubSeq(wire, 1, k)) = k
      /\ \A i \in DOMAIN SubSeq(wire, 1, k) : SubSeq(wire, 1, k)[i] = wire[i]
  BY <1>1, <1>3
<1>5. /\ SubSeq(wire, k + 1, Len(wire)) \in Seq(1..MaxCells)
      /\ Len(SubSeq(wire, k + 1, Len(wire))) = Len(wire) - k
      /\ \A i \in DOMAIN SubSeq(wire, k + 1, Len(wire)) :
             k + i \in DOMAIN wire /\ SubSeq(wire, k + 1, Len(wire))[i] = wire[k + i]
  BY <1>1, <1>3
<1> QED
  BY <1>3, <1>4, <1>5 DEF k

\* So does a read, as no more cells are taken than were sent.
LEMMA ReadTypes ==
    ASSUME TypeOK, CellInv, Read
    PROVE  TypeOK'
<1> USE NtripTaskAssumption
<1>0. wrote' \in Seq(Wrote) /\ wire \in Seq(1..MaxCells) /\ got \in Seq(1..MaxCells)
  BY DEF Read, TypeOK
<1>1. CASE wire = <<>>
  BY <1>0, <1>1 DEF Read, NothingRead, TypeOK, socketVars, mailbox
<1>2. CASE wire # <<>>
  <2> DEFINE cells == SubSeq(wire, 1, Arrived)
             rest == SubSeq(wire, Arrived + 1, Len(wire))
  <2>1. /\ cells \in Seq(1..MaxCells) /\ rest \in Seq(1..MaxCells)
        /\ Len(cells) = Arrived /\ Arrived \in 1..Len(wire)
    BY <1>2, ReadCells
  <2>2. TakeData(cells) /\ wire' = rest /\ pc' = "select"
    BY <1>2 DEF Read
  <2>3. sent = skipped + Len(got) + Len(wire) /\ Len(got) \in Nat /\ Len(wire) \in Nat
    BY <1>0, <1>2 DEF CellInv, CellsAgree, DeliveredAfterAnswer
  <2>4. skipped + Len(cells) \in 0..MaxCells
    BY <2>1, <2>3 DEF TypeOK
  <2> HIDE DEF cells, rest
  <2>5. skipped' \in 0..MaxCells /\ isAuthed' \in BOOLEAN
    BY <2>2, <2>4 DEF TakeData, TypeOK
  <2>6. got' = got \/ got' = got \o cells
    BY <2>2 DEF TakeData
  <2>7. got' \in Seq(1..MaxCells)
    <3>1. got \o cells \in Seq(1..MaxCells)
      BY <1>0, <2>1, Joined
    <3> QED
      BY <1>0, <2>6, <3>1
  <2> QED
    BY <1>0, <2>1, <2>2, <2>5, <2>7 DEF Read, TypeOK, socketVars, mailbox
<1> QED
  BY <1>1, <1>2

\* So do the callers, the network and the rest of the process.
LEMMA OutsideTypes ==
    ASSUME TypeOK, Blank \/ Copy \/ Stop \/ Network \/ \E f \in Fd : Other(f)
    PROVE  TypeOK'
<1> USE NtripTaskAssumption
<1>0. wrote' \in Seq(Wrote) /\ got' \in Seq(1..MaxCells)
  BY DEF Blank, Copy, Stop, Network, Established, CasterSends, CasterCloses, Reset, OnlyNetwork,
         Other, output, TypeOK
<1>1. CASE Blank
  BY <1>0, <1>1 DEF Blank, TypeOK, socketVars, flags, network, output
<1>2. CASE Copy
  <2>1. requests + 1 \in 0..MaxRequests
    BY <1>2 DEF Copy, TypeOK
  <2> QED
    BY <1>0, <1>2, <2>1 DEF Copy, TypeOK, socketVars, flags, network, output
<1>3. CASE Stop
  BY <1>0, <1>3 DEF Stop, TypeOK, socketVars, flags, network, mailbox, output
<1>4. CASE Network
  <2>0. CasterSends => sent + 1 \in 1..MaxCells /\ wire \in Seq(1..MaxCells)
    BY DEF CasterSends, TypeOK
  <2>1. wire' \in Seq(1..MaxCells) /\ sent' \in 0..MaxCells
    <3>1. CASE CasterSends
      <4>1. Append(wire, sent + 1) \in Seq(1..MaxCells)
        BY <2>0, <3>1, Appended
      <4> QED
        BY <2>0, <3>1, <4>1 DEF CasterSends
    <3>2. CASE Established \/ CasterCloses \/ Reset
      <4>1. wire \in Seq(1..MaxCells) /\ sent \in 0..MaxCells /\ <<>> \in Seq(1..MaxCells)
        BY DEF TypeOK
      <4> QED
        BY <3>2, <4>1 DEF Established, CasterCloses, Reset
    <3> QED
      BY <1>4, <3>1, <3>2 DEF Network
  <2>2. peer' \in {"none", "opening", "up", "closed", "reset"}
    BY <1>4 DEF Network, Established, CasterSends, CasterCloses, Reset, TypeOK
  <2>3. OnlyNetwork
    BY <1>4 DEF Network, Established, CasterSends, CasterCloses, Reset
  <2> QED
    BY <1>0, <2>1, <2>2, <2>3 DEF OnlyNetwork, TypeOK, socketVars, flags, mailbox, output
<1>5. CASE \E f \in Fd : Other(f)
  <2>1. owner' \in [Fd -> {"free", "task", "other"}]
    BY <1>5 DEF Other, TypeOK
  <2> QED
    BY <1>0, <1>5, <2>1 DEF Other, TypeOK, flags, network, mailbox, output
<1> QED
  BY <1>1, <1>2, <1>3, <1>4, <1>5

-----------------------------------------------------------------------------
(* What close_socket releases.                                              *)

\* Only an attempt to connect and the rest of the process touch descriptors.
LEMMA ReleasesStep ==
    ASSUME TypeOK, ReleasesOwn, [Next]_vars
    PROVE  ReleasesOwn'
<1> USE NtripTaskAssumption
<1>1. CASE Connect
  <2>1. PICK outcome \in {"dns", "socket", "bind", "connect", "ok"} : OpenSocket(outcome)
    BY <1>1 DEF Connect
  <2>2. \A f \in Fd : Released[f] # "task"
    BY DEF Released, ReleasesOwn
  <2>3. CASE outcome \in {"dns", "socket"}
    BY <2>1, <2>2, <2>3 DEF OpenSocket, ReleasesOwn
  <2>4. CASE outcome \in {"bind", "connect", "ok"}
    <3>1. PICK f \in Fd : HasSocket(outcome, f)
      BY <2>1, <2>4 DEF OpenSocket
    <3>2. res' = "live"
      BY <2>1, <2>4 DEF OpenSocket
    <3>3. \A g \in Fd : owner'[g] = "task" => g = f
      BY <2>2, <3>1 DEF HasSocket, Released
    <3>4. owner'[f] = "task" /\ sockFd' = f
      BY <3>1 DEF HasSocket, Released
    <3> QED
      BY <3>2, <3>3, <3>4 DEF ReleasesOwn
  <2> QED
    BY <2>3, <2>4
<1>2. CASE \E f \in Fd : Other(f)
  <2>1. PICK f \in Fd : Other(f)
    BY <1>2
  <2>2. \A g \in Fd : owner'[g] = "task" <=> owner[g] = "task"
    BY <2>1 DEF Other, TypeOK
  <2>3. sockFd' = sockFd /\ res' = res /\ attempt' = attempt /\ sockFd \in Fd \union {-1}
    BY <2>1 DEF Other, TypeOK
  <2> QED
    BY <2>2, <2>3 DEF ReleasesOwn
<1>3. CASE ~Connect /\ ~\E f \in Fd : Other(f)
  <2>1. UNCHANGED socketVars
    BY <1>3 DEF Next, Task, Network, vars, End, Select, SelectFails, Login, LockGga, SendGga, Read,
           Blank, Copy, Stop, OnlyNetwork, Established, CasterSends, CasterCloses, Reset
  <2> QED
    BY <2>1 DEF socketVars, ReleasesOwn
<1> QED
  BY <1>1, <1>2, <1>3

-----------------------------------------------------------------------------
(* What is sent.                                                            *)

\* What is appended is in order when its connection is the last one, begun by its
\* login, and its text newer than all before.
LEMMA AppendOrder ==
    ASSUME TypeOK, SendInv, NEW e \in Wrote, wrote' = Append(wrote, e),
           e.conn = attempts, e.size = e.text,
           e.text = 0 => ~isLogined,
           e.text # 0 => isLogined /\ \A i \in DOMAIN wrote : wrote[i].text < e.text
    PROVE  /\ WroteInOrder'
           /\ DOMAIN wrote' = 1..(Len(wrote) + 1)
           /\ wrote'[Len(wrote) + 1] = e
           /\ \A i \in DOMAIN wrote : i \in DOMAIN wrote' /\ wrote'[i] = wrote[i]
           /\ \A i \in DOMAIN wrote' : i \in DOMAIN wrote \/ i = Len(wrote) + 1
<1>1. wrote \in Seq(Wrote) /\ Len(wrote) \in Nat /\ DOMAIN wrote = 1..Len(wrote)
  BY DEF TypeOK
<1> DEFINE n == Len(wrote) + 1
<1>2. /\ DOMAIN wrote' = 1..n /\ wrote'[n] = e
      /\ \A i \in DOMAIN wrote : i \in DOMAIN wrote' /\ wrote'[i] = wrote[i] /\ i < n
      /\ \A i \in DOMAIN wrote' : i \in DOMAIN wrote \/ i = n
  BY <1>1
<1> HIDE DEF n
<1>3. \A i \in DOMAIN wrote : wrote[i] \in Wrote
  BY <1>1
<1>4. \A i \in DOMAIN wrote : wrote[i].conn \in Nat /\ wrote[i].text \in Nat
  BY <1>3, NtripTaskAssumption DEF Wrote
<1>5. e.conn \in Nat /\ e.text \in Nat /\ n \in Nat
  BY <1>1, NtripTaskAssumption DEF Wrote, n
<1>6. \A i \in DOMAIN wrote' : wrote'[i].size = wrote'[i].text
  BY <1>2 DEF SendInv, WroteInOrder
<1>7. \A i, j \in DOMAIN wrote' : i < j =>
          /\ wrote'[i].conn <= wrote'[j].conn
          /\ wrote'[j].text = 0 => wrote'[i].conn < wrote'[j].conn
          /\ wrote'[j].text # 0 => wrote'[i].text < wrote'[j].text
  <2> TAKE i, j \in DOMAIN wrote'
  <2> HAVE i < j
  <2>1. CASE j \in DOMAIN wrote
    <3>1. i \in DOMAIN wrote
      BY <1>1, <1>2, <2>1, <1>5
    <3> QED
      BY <1>2, <2>1, <3>1 DEF SendInv, WroteInOrder
  <2>2. CASE j = n
    <3>1. i \in DOMAIN wrote
      BY <1>2, <1>5, <2>2
    <3>2. wrote'[i] = wrote[i] /\ wrote'[j] = e
      BY <1>2, <2>2, <3>1
    <3>3. wrote[i].conn <= attempts /\ (~isLogined => wrote[i].conn < attempts)
      BY <3>1 DEF SendInv, FlagsAgree
    <3> QED
      BY <3>1, <3>2, <3>3
  <2> QED
    BY <1>2, <2>1, <2>2
<1>8. \A j \in DOMAIN wrote' : wrote'[j].text # 0 =>
          \E i \in 1..(j - 1) : wrote'[i].conn = wrote'[j].conn /\ wrote'[i].text = 0
  <2> TAKE j \in DOMAIN wrote'
  <2> HAVE wrote'[j].text # 0
  <2>1. CASE j \in DOMAIN wrote
    <3>1. PICK i \in 1..(j - 1) : wrote[i].conn = wrote[j].conn /\ wrote[i].text = 0
      BY <1>2, <2>1 DEF SendInv, WroteInOrder
    <3>2. i \in DOMAIN wrote
      BY <1>1, <2>1, <3>1
    <3> QED
      BY <1>2, <2>1, <3>1, <3>2
  <2>2. CASE j = n
    <3>1. PICK i \in DOMAIN wrote : wrote[i].conn = attempts /\ wrote[i].text = 0
      BY <1>2, <2>2 DEF SendInv, FlagsAgree
    <3>2. i \in 1..(j - 1)
      BY <1>1, <2>2, <3>1 DEF n
    <3> QED
      BY <1>2, <2>2, <3>1, <3>2
  <2> QED
    BY <1>2, <2>1, <2>2
<1> QED
  BY <1>2, <1>6, <1>7, <1>8 DEF WroteInOrder, n

\* What is sent keeps to the order.
LEMMA SendStep ==
    ASSUME TypeOK, SendInv, [Next]_vars
    PROVE  SendInv'
<1> USE NtripTaskAssumption
<1>0. wrote \in Seq(Wrote) /\ gga \in Nat /\ requests \in Nat /\ attempts \in Nat
  BY DEF TypeOK
<1>w. \A i \in DOMAIN wrote : wrote[i].conn \in Nat /\ wrote[i].text \in Nat
  <2>1. \A i \in DOMAIN wrote : wrote[i] \in Wrote
    BY <1>0
  <2> QED
    BY <2>1 DEF Wrote
<1>1. CASE Connect
  <2>1. /\ UNCHANGED <<mailbox, wrote>> /\ isLogined' = FALSE /\ pc' \in {"connect", "select"}
        /\ attempts' = attempts + 1 /\ pc = "connect"
    BY <1>1 DEF Connect, OpenSocket
  <2>2. MutexHeld' /\ GgaIsNew'
    BY <2>1 DEF SendInv, MutexHeld, GgaIsNew, mailbox
  <2>3. FlagsAgree'
    BY <1>0, <1>w, <2>1 DEF SendInv, FlagsAgree
  <2> QED
    BY <2>1, <2>2, <2>3 DEF SendInv, WroteInOrder
<1>2. CASE Login
  <2>1. /\ wrote' = Append(wrote, Entry(0, 0)) /\ isLogined' = TRUE /\ pc = "login"
        /\ pc' \in {"select", "read"} /\ UNCHANGED <<mailbox, attempts>>
    BY <1>2 DEF Login, AfterWrite, socketVars
  <2>2. Entry(0, 0) \in Wrote
    BY DEF Entry, Wrote, TypeOK
  <2>3. ~isLogined
    BY <2>1 DEF SendInv, FlagsAgree
  <2> DEFINE e == Entry(0, 0)
  <2>4. e.conn = attempts /\ e.size = 0 /\ e.text = 0
    BY DEF Entry
  <2> HIDE DEF e
  <2>5. /\ WroteInOrder' /\ DOMAIN wrote' = 1..(Len(wrote) + 1) /\ wrote'[Len(wrote) + 1] = e
        /\ \A i \in DOMAIN wrote : i \in DOMAIN wrote' /\ wrote'[i] = wrote[i]
        /\ \A i \in DOMAIN wrote' : i \in DOMAIN wrote \/ i = Len(wrote) + 1
    BY <2>1, <2>2, <2>3, <2>4, AppendOrder DEF e
  <2>6. MutexHeld'
    BY <2>1 DEF SendInv, MutexHeld, mailbox
  <2>7. GgaIsNew'
    BY <1>0, <2>1, <2>4, <2>5 DEF SendInv, GgaIsNew, mailbox
  <2>8. FlagsAgree'
    <3>1. Len(wrote) + 1 \in DOMAIN wrote'
      BY <1>0, <2>5
    <3> QED
      BY <1>0, <2>1, <2>4, <2>5, <3>1 DEF SendInv, FlagsAgree
  <2> QED
    BY <2>5, <2>6, <2>7, <2>8 DEF SendInv
<1>3. CASE SendGga
  <2>1. /\ wrote' = Append(wrote, Entry(gga, size)) /\ gga' = 0 /\ mutex' = "none" /\ pc = "send"
        /\ pc' \in {"select", "read"} /\ UNCHANGED <<caller, requests, attempts, isLogined>>
    BY <1>3 DEF SendGga, AfterWrite, socketVars, flags
  <2> DEFINE e == Entry(gga, size)
  <2>2. /\ e.conn = attempts /\ e.size = e.text /\ e.text = gga /\ gga # 0 /\ isLogined
        /\ gga = requests
    BY <2>1 DEF Entry, SendInv, MutexHeld, FlagsAgree, GgaIsNew
  <2>3. e \in Wrote
    BY DEF Entry, Wrote, TypeOK
  <2>4. \A i \in DOMAIN wrote : wrote[i].text < gga
    BY <2>2 DEF SendInv, GgaIsNew
  <2>e. wrote' = Append(wrote, e)
    BY <2>1
  <2> HIDE DEF e
  <2>5. /\ WroteInOrder' /\ DOMAIN wrote' = 1..(Len(wrote) + 1) /\ wrote'[Len(wrote) + 1] = e
        /\ \A i \in DOMAIN wrote : i \in DOMAIN wrote' /\ wrote'[i] = wrote[i]
        /\ \A i \in DOMAIN wrote' : i \in DOMAIN wrote \/ i = Len(wrote) + 1
    BY <2>2, <2>3, <2>4, <2>e, AppendOrder
  <2>6. MutexHeld'
    BY <2>1 DEF SendInv, MutexHeld
  <2>7. GgaIsNew'
    BY <1>0, <2>1, <2>2, <2>5 DEF SendInv, GgaIsNew
  <2>8. FlagsAgree'
    BY <1>0, <2>1, <2>2, <2>5 DEF SendInv, FlagsAgree
  <2> QED
    BY <2>5, <2>6, <2>7, <2>8 DEF SendInv
<1>4. CASE UNCHANGED <<wrote, attempts, isLogined>>
           /\ (End \/ Select \/ SelectFails \/ LockGga \/ Read \/ UNCHANGED pc)
           /\ (LockGga \/ Blank \/ Copy \/ UNCHANGED mailbox)
  <2>1. WroteInOrder'
    BY <1>4 DEF SendInv, WroteInOrder
  <2>2. FlagsAgree'
    <3>1. pc' = "login" => ~isLogined'
      BY <1>4 DEF End, Select, SelectFails, LockGga, Read, NothingRead, Dispatch, AfterWrite,
             SendInv, FlagsAgree
    <3>2. pc' \in {"lock", "send"} => isLogined'
      BY <1>4 DEF End, Select, SelectFails, LockGga, Read, NothingRead, Dispatch, AfterWrite,
             SendInv, FlagsAgree
    <3>3. wrote' = wrote /\ attempts' = attempts /\ isLogined' = isLogined
      BY <1>4
    <3>4. (pc = "login" => ~isLogined)' /\ (pc \in {"lock", "send"} => isLogined)'
      BY <3>1, <3>2
    <3> QED
      BY <3>3, <3>4 DEF SendInv, FlagsAgree
  <2>3. MutexHeld' /\ GgaIsNew'
    <3>1. CASE LockGga
      BY <1>4, <3>1 DEF LockGga, AfterWrite, SendInv, MutexHeld, GgaIsNew
    <3>2. CASE Blank
      BY <1>0, <1>4, <3>2 DEF Blank, SendInv, MutexHeld, GgaIsNew
    <3>3. CASE Copy
      BY <1>0, <1>w, <1>4, <3>3 DEF Copy, SendInv, MutexHeld, GgaIsNew
    <3>4. CASE UNCHANGED mailbox /\ ~LockGga
      <4>1. (pc' = "send") <=> (pc = "send")
        BY <1>4, <3>4 DEF End, Select, SelectFails, Read, NothingRead, Dispatch, AfterWrite
      <4> QED
        BY <1>4, <3>4, <4>1 DEF SendInv, MutexHeld, GgaIsNew, mailbox
    <3> QED
      BY <1>4, <3>1, <3>2, <3>3, <3>4
  <2> QED
    BY <2>1, <2>2, <2>3 DEF SendInv
<1>5. Connect \/ Login \/ SendGga \/
      (/\ UNCHANGED <<wrote, attempts, isLogined>>
       /\ End \/ Select \/ SelectFails \/ LockGga \/ Read \/ UNCHANGED pc
       /\ LockGga \/ Blank \/ Copy \/ UNCHANGED mailbox)
  BY DEF Next, Task, Network, vars, End, Select, SelectFails, LockGga, Read, Blank, Copy, Stop,
         OnlyNetwork, Established, CasterSends, CasterCloses, Reset, Other, socketVars, flags, output
<1> QED
  BY <1>1, <1>2, <1>3, <1>4, <1>5

-----------------------------------------------------------------------------
(* What the callback gets.                                                  *)

\* A read passes on what follows, or takes it for the answer.
LEMMA ReadStep ==
    ASSUME TypeOK, CellInv, Read
    PROVE  CellInv'
<1> USE NtripTaskAssumption
<1>0. wire \in Seq(1..MaxCells) /\ got \in Seq(1..MaxCells) /\ skipped \in Nat /\ sent \in Nat
  BY DEF TypeOK
<1>1. CASE wire = <<>>
  BY <1>1 DEF Read, CellInv, CellsAgree, DeliveredAfterAnswer
<1>2. CASE wire # <<>>
  <2> DEFINE k == Arrived
             cells == SubSeq(wire, 1, k)
             rest == SubSeq(wire, k + 1, Len(wire))
  <2>1. /\ k \in 1..Len(wire)
        /\ cells \in Seq(1..MaxCells) /\ rest \in Seq(1..MaxCells)
        /\ Len(cells) = k /\ Len(rest) = Len(wire) - k
        /\ \A i \in DOMAIN cells : cells[i] = wire[i]
        /\ \A i \in DOMAIN rest : k + i \in DOMAIN wire /\ rest[i] = wire[k + i]
    BY <1>2, ReadCells
  <2>2. TakeData(cells) /\ wire' = rest /\ isLogined
        /\ isLogined' = isLogined /\ peer' = peer /\ sent' = sent
        /\ peer \notin {"none", "opening", "reset"}
    BY <1>2 DEF Read, CellInv, CellsAgree
  <2>3. /\ \A i \in DOMAIN got : got[i] = skipped + i
        /\ \A i \in DOMAIN wire : wire[i] = skipped + Len(got) + i
        /\ sent = skipped + Len(got) + Len(wire)
        /\ isAuthed => skipped > 0
        /\ ~isAuthed => got = <<>>
    BY <2>2 DEF CellInv, CellsAgree, DeliveredAfterAnswer
  <2> HIDE DEF k, cells, rest
  <2>l. Len(got) \in Nat /\ Len(wire) \in Nat /\ k \in Nat \ {0} /\ Len(rest) \in Nat
    BY <1>0, <2>1
  <2>4. CASE ~isAuthed
    <3>1. isAuthed' = TRUE /\ skipped' = skipped + k /\ got' = <<>> /\ got = <<>>
      BY <2>1, <2>2, <2>3, <2>4 DEF TakeData
    <3>2. \A i \in DOMAIN wire' : wire'[i] = skipped' + Len(got') + i
      <4> SUFFICES ASSUME NEW i \in DOMAIN wire' PROVE wire'[i] = skipped' + Len(got') + i
        OBVIOUS
      <4>1. wire'[i] = skipped + Len(got) + (k + i) /\ i \in Nat
        BY <2>1, <2>2, <2>3
      <4>2. Len(got) = 0 /\ Len(got') = 0
        BY <3>1
      <4> QED
        BY <1>0, <2>l, <3>1, <4>1, <4>2
    <3>3. sent' = skipped' + Len(got') + Len(wire') /\ skipped' > 0
      <4>1. Len(got) = 0 /\ Len(got') = 0
        BY <3>1
      <4>2. Len(wire') = Len(wire) - k
        BY <2>1, <2>2
      <4>3. sent' = skipped + Len(wire)
        BY <1>0, <2>2, <2>3, <2>l, <4>1
      <4> QED
        BY <1>0, <2>l, <3>1, <4>1, <4>2, <4>3
    <3> QED
      <4>1. CellsAgree'
        BY <2>2, <3>1, <3>3 DEF CellsAgree
      <4>2. DeliveredAfterAnswer'
        <5>1. DOMAIN got' = {}
          BY <3>1
        <5> QED
          BY <3>1, <3>2, <3>3, <5>1 DEF DeliveredAfterAnswer
      <4> QED
        BY <4>1, <4>2 DEF CellInv
  <2>5. CASE isAuthed
    <3>1. isAuthed' = isAuthed /\ skipped' = skipped /\ got' = got \o cells
      BY <2>2, <2>5 DEF TakeData
    <3> DEFINE C == 1..MaxCells
    <3>c. got \in Seq(C) /\ cells \in Seq(C)
      BY <1>0, <2>1
    <3> HIDE DEF C
    <3>0. /\ Len(got \o cells) = Len(got) + Len(cells)
          /\ \A i \in DOMAIN (got \o cells) :
                 \/ i \in DOMAIN got /\ (got \o cells)[i] = got[i]
                 \/ i - Len(got) \in DOMAIN cells /\ (got \o cells)[i] = cells[i - Len(got)]
      BY <3>c, Joined, Zenon
    <3>2. Len(got') = Len(got) + k
      BY <2>1, <3>0, <3>1
    <3>3. \A i \in DOMAIN got' : got'[i] = skipped' + i
      <4> SUFFICES ASSUME NEW i \in DOMAIN got' PROVE got'[i] = skipped' + i
        OBVIOUS
      <4>1. \/ i \in DOMAIN got /\ got'[i] = got[i]
            \/ i - Len(got) \in DOMAIN cells /\ got'[i] = cells[i - Len(got)]
        BY <3>0, <3>1
      <4>2. CASE i \in DOMAIN got /\ got'[i] = got[i]
        BY <2>3, <3>1, <4>2
      <4>3. CASE i - Len(got) \in DOMAIN cells /\ got'[i] = cells[i - Len(got)]
        <5>1. i - Len(got) \in DOMAIN wire /\ got'[i] = wire[i - Len(got)]
          BY <1>0, <2>1, <4>3
        <5>2. got'[i] = skipped + Len(got) + (i - Len(got))
          BY <2>3, <5>1
        <5>3. i \in Int
          BY <1>0, <2>1, <2>l, <3>1
        <5> QED
          BY <1>0, <2>l, <3>1, <5>2, <5>3
      <4> QED
        BY <4>1, <4>2, <4>3
    <3>4. \A i \in DOMAIN wire' : wire'[i] = skipped' + Len(got') + i
      <4> SUFFICES ASSUME NEW i \in DOMAIN wire' PROVE wire'[i] = skipped' + Len(got') + i
        OBVIOUS
      <4>1. wire'[i] = skipped + Len(got) + (k + i) /\ i \in Nat
        BY <2>1, <2>2, <2>3
      <4> QED
        BY <1>0, <2>l, <3>1, <3>2, <4>1
    <3>5. sent' = skipped' + Len(got') + Len(wire')
      <4>1. Len(wire') = Len(wire) - k
        BY <2>1, <2>2
      <4> QED
        BY <1>0, <2>2, <2>3, <2>l, <3>1, <3>2, <4>1
    <3> QED
      <4>1. CellsAgree'
        BY <2>2, <2>3, <2>5, <3>1 DEF CellsAgree
      <4>2. DeliveredAfterAnswer'
        BY <2>3, <2>5, <3>1, <3>3, <3>4, <3>5 DEF DeliveredAfterAnswer
      <4> QED
        BY <4>1, <4>2 DEF CellInv
  <2> QED
    BY <2>4, <2>5
<1> QED
  BY <1>1, <1>2

\* The other steps only add cells, or drop them all.
LEMMA CellStep ==
    ASSUME TypeOK, CellInv, [Next]_vars
    PROVE  CellInv'
<1> USE NtripTaskAssumption
<1>0. wire \in Seq(1..MaxCells) /\ got \in Seq(1..MaxCells) /\ skipped \in Nat /\ sent \in Nat
  BY DEF TypeOK
<1>1. CASE Connect
  BY <1>1 DEF Connect, CellInv, CellsAgree, DeliveredAfterAnswer
<1>2. CASE Read
  BY <1>2, ReadStep
<1>3. CASE CasterSends
  <2>1. /\ wire' = Append(wire, sent + 1) /\ sent' = sent + 1 /\ isLogined /\ peer = "up"
        /\ UNCHANGED <<isLogined, isAuthed, peer, skipped, got>>
    BY <1>3 DEF CasterSends, OnlyNetwork, flags, output
  <2>2. sent = skipped + Len(got) + Len(wire)
    BY <2>1 DEF CellInv, DeliveredAfterAnswer
  <2>3. \A i \in DOMAIN wire : wire[i] = skipped + Len(got) + i
    BY DEF CellInv, DeliveredAfterAnswer
  <2>4. \A i \in DOMAIN wire' : wire'[i] = skipped' + Len(got') + i
    <3> SUFFICES ASSUME NEW i \in DOMAIN wire' PROVE wire'[i] = skipped' + Len(got') + i
      OBVIOUS
    <3>1. sent + 1 \in 1..MaxCells
      BY <1>3 DEF CasterSends, TypeOK
    <3>2. \/ i \in DOMAIN wire /\ wire'[i] = wire[i]
          \/ i = Len(wire) + 1 /\ wire'[i] = sent + 1
      <4>1. \A j \in DOMAIN Append(wire, sent + 1) :
                \/ j \in DOMAIN wire /\ Append(wire, sent + 1)[j] = wire[j]
                \/ j = Len(wire) + 1 /\ Append(wire, sent + 1)[j] = sent + 1
        BY <1>0, <3>1, Appended
      <4> QED
        BY <2>1, <4>1
    <3>3. Len(wire) \in Nat /\ Len(got) \in Nat
      BY <1>0
    <3>4. CASE i \in DOMAIN wire /\ wire'[i] = wire[i]
      BY <2>1, <2>3, <3>4
    <3>5. CASE i = Len(wire) + 1 /\ wire'[i] = sent + 1
      BY <1>0, <2>1, <2>2, <3>3, <3>5
    <3> QED
      BY <3>2, <3>4, <3>5
  <2>5. sent' = skipped' + Len(got') + Len(wire')
    BY <1>0, <2>1, <2>2
  <2> QED
    BY <2>1, <2>4, <2>5 DEF CellInv, CellsAgree, DeliveredAfterAnswer
<1>4. CASE Established \/ CasterCloses \/ Reset
  <2>1. UNCHANGED <<isLogined, isAuthed, skipped, got, sent>>
    BY <1>4 DEF Established, CasterCloses, Reset, OnlyNetwork, flags, output
  <2>2. CASE peer' = "reset" /\ wire' = <<>>
    BY <2>1, <2>2 DEF CellInv, CellsAgree, DeliveredAfterAnswer
  <2>3. CASE peer' # "reset" /\ peer # "reset" /\ wire' = wire
    <3>1. peer' \in {"up", "closed"}
      BY <1>4, <2>3 DEF Established, CasterCloses, Reset
    <3> QED
      BY <2>1, <2>3, <3>1 DEF CellInv, CellsAgree, DeliveredAfterAnswer
  <2>4. CASE Established /\ peer' = "reset" /\ wire # <<>>
    BY <2>4 DEF CellInv, CellsAgree, Established
  <2> QED
    BY <1>4, <2>2, <2>3, <2>4 DEF Established, CasterCloses, Reset
<1>5. CASE Login
  BY <1>5 DEF Login, network, CellInv, CellsAgree, DeliveredAfterAnswer
<1>6. CASE UNCHANGED <<isLogined, isAuthed, network, skipped, got>>
  BY <1>6 DEF network, CellInv, CellsAgree, DeliveredAfterAnswer
<1> QED
  BY <1>1, <1>2, <1>3, <1>4, <1>5, <1>6
     DEF Next, Task, Network, vars, End, Select, SelectFails, LockGga, SendGga, Blank, Copy, Stop,
         Other, flags, output

-----------------------------------------------------------------------------
(* The theorems.                                                            *)

\* Together.
LEMMA Invariance == Spec => [](TypeOK /\ ReleasesOwn /\ SendInv /\ CellInv)
<1> USE NtripTaskAssumption
<1>1. Init => TypeOK /\ ReleasesOwn /\ SendInv /\ CellInv
  <2> SUFFICES ASSUME Init PROVE TypeOK /\ ReleasesOwn /\ SendInv /\ CellInv
    OBVIOUS
  <2>1. TypeOK
    <3>1. wire \in Seq(1..MaxCells) /\ got \in Seq(1..MaxCells) /\ wrote \in Seq(Wrote)
      BY DEF Init
    <3>2. owner \in [Fd -> {"free", "task", "other"}]
      BY DEF Init
    <3> HIDE DEF Wrote
    <3>3. /\ attempts \in 0..MaxAttempts /\ sent \in 0..MaxCells /\ skipped \in 0..MaxCells
          /\ gga \in 0..MaxRequests /\ size \in 0..MaxRequests /\ requests \in 0..MaxRequests
      BY DEF Init
    <3> QED
      BY <3>1, <3>2, <3>3 DEF Init, TypeOK
  <2>2. ReleasesOwn
    BY DEF Init, ReleasesOwn
  <2>3. SendInv
    BY DEF Init, SendInv, MutexHeld, GgaIsNew, FlagsAgree, WroteInOrder
  <2>4. CellInv
    BY DEF Init, CellInv, CellsAgree, DeliveredAfterAnswer
  <2> QED
    BY <2>1, <2>2, <2>3, <2>4
<1>2. TypeOK /\ CellInv /\ [Next]_vars => TypeOK'
  <2> SUFFICES ASSUME TypeOK, CellInv, [Next]_vars PROVE TypeOK'
    OBVIOUS
  <2>1. CASE UNCHANGED vars
    BY <2>1 DEF vars, socketVars, flags, network, mailbox, output, TypeOK
  <2> QED
    BY <2>1, ConnectTypes, TaskTypes, ReadTypes, OutsideTypes DEF Next, Task
<1>3. (TypeOK /\ ReleasesOwn /\ SendInv /\ CellInv) /\ [Next]_vars
          => (TypeOK /\ ReleasesOwn /\ SendInv /\ CellInv)'
  BY <1>2, ReleasesStep, SendStep, CellStep
<1> QED
  BY <1>1, <1>3, PTL DEF Spec

\* The variables of the EC100Y client have their types, for any number of
\* descriptors, connections, positions and cells.
THEOREM TaskTypeCorrect == Spec => []TypeOK
  BY Invariance, PTL

\* close_socket releases the task's own, but after an attempt that failed early.
THEOREM OwnReleased == Spec => []ReleasesOwn
  BY Invariance, PTL

\* Positions go out whole, in order and at most once, each after the login.
THEOREM SentInOrder == Spec => []WroteInOrder
<1>1. SendInv => WroteInOrder
  BY DEF SendInv
<1> QED
  BY <1>1, Invariance, PTL

\* The callback gets what follows the answer, in order and without a hole.
THEOREM AnswerThenData == Spec => []DeliveredAfterAnswer
<1>1. CellInv => DeliveredAfterAnswer
  BY DEF CellInv
<1> QED
  BY <1>1, Invariance, PTL
=============================================================================
