# Verification of the SinoGNSS RTK client

This directory holds TLA+ models of the SinoGNSS RTK client: a library that
the GNSS software of a vehicle loads, which takes satellite observations from
it and correction data from an NTRIP caster, lets an RTK engine solve them,
and reports the position.  `PROJECT.json` lists the components, the runs, the
lines of code each definition models, the mutants of the code that each
property rejects, the theorems, and the hazards.

## The system

| Component | Source | State | Operations |
|---|---|---|---|
| Ring buffer | `util-N/RingBuffer.c` | buffer, `start`, `end` | create, write, read, dump, cleanup, used, free |
| PPE threads | `qcom_sa415m/PrecisePosEngineLib/PrecisePosEngine.cpp`, and the same in `qcom_9628` | two rings, two mutexes, four condition variables, `DATA_HEADER`, `obsNum`, a read buffer per thread | callbacks of the EP library and the correction service, `CorsThreadFunc`, `GNSSThreadFunc`, start-up |
| PPE conversions | `.../ppecom.cpp` | per-satellite smoothing and slip counters, tables | observations, ephemerides and positions to and from the formats of the engine |
| RTK front end | `OEMRtk-N/QRtkImpl.cpp` | rover and base epoch with their flags, remainders of RTCM, coordinates | `PushRtcm`, `PushEpoch`, `PushGGA`, `PrepareToSolve`, `Solve`, encodings |
| RTCM framing | `OEMRtk-N/RawFormat.cpp` | state of the frame | one byte at a time |
| RTCM decoding | `OEMRtk-N/RtcmDecode.cpp` | epochs, coordinate, current week | one message |
| NTRIP client (Linux) | `ntripclient/` | socket, login state, receive buffer, running flag | start, stop, the client thread |
| NTRIP client (EC100Y) | `ntripclient2/` | address, socket, login flags, GGA mailbox, stop flag | start, stop, send request, the task |
| Logger | `util-N/logger.cpp` | log ring, configuration, one format buffer | `write_data`, `log_msg`, the log thread |
| Configuration, serial port | `util-N/ini.c`, `serialport.cpp` | - | I/O |

The threads of the EP library call the `ePProvide...` functions, the thread of
the NTRIP client calls `onReceiveCMCC...`.  Each copies its data as a record
(header, body) into a ring.  `CorsThreadFunc` takes corrections and position
reports from `corsRingBuffer`; it hands corrections to the engine, turns a
position into a GGA sentence, puts that into `gnssRingBuffer`, and gives it to
the NTRIP client for the caster.  `GNSSThreadFunc` takes measurements,
ephemerides and GGA sentences from `gnssRingBuffer` and feeds the engine, which
solves when it has a rover epoch and a base epoch, and reports the position.
Both threads may log what they take through the log ring.

What is hard about it: producers, consumers and the mutexes between them; a
header buffer shared by both rings; condition variables with an `if` in place
of a `while`; results of `rb_write` that nobody looks at; sockets closed by
another thread; messages cut anywhere by TCP; epochs assembled from several
messages and two threads.  The hazards in `PROJECT.json` say where.

## Modules

| Module | What it is |
|---|---|
| `ByteFifo` | what a ring promises: a bounded queue of bytes, all or nothing on write, as much as there is on read |
| `RingBuffer` | `RingBuffer.c`, with its indices, its two memcpys and its spare slot; `ImplementsFifo` maps it to `ByteFifo` |
| `RingBufferMC` | a ring of four slots for TLC |
| `RingBufferProofs` | `RingBuffer` implements `ByteFifo`, for every capacity |
| `PpeThreads` | the callbacks and threads of `PrecisePosEngine.cpp` and the record channels between them |
| `PpeThreadsMC` | small instances for TLC |
| `PpeProofs` | the threads: types, start-up, framing, order and notifications, for any number of threads and any lengths; the conversions: epochs, smoothed codes and ephemerides, for any reports |
| `RtcmStream` | the byte machine of `RawFormat.cpp` and the loop of `ParseRtcm` around it |
| `RtcmStreamMC` | short frames, whole, cut and damaged, and noise |
| `RtcmProofs` | chunks do not matter, every frame is dispatched once, and what is kept, for any stream and chunks; times, ephemerides and coordinates come out of messages as sent |
| `RtkEpochs` | how `QRtkImpl.cpp` puts rover and base epochs together and hands them to the engine |
| `RtkEpochsMC` | small instances for TLC |
| `NtripClient` | `ntrip_client.cpp`: the client thread, start and stop, the caster |
| `NtripClientProofs` | types, which sockets stay open, and what the callback gets, for any number of connections |
| `RtkEpochsProofs` | types, `m_mtxBase`, what epochs are made of, where the base is, and whole rover epochs, for any systems and times |
| `RtcmDecode` | what the messages say that `ParseRtcm` finds: observations, ephemerides, coordinates, times |
| `RtcmDecodeMC` | messages around the turn of a week |
| `PpeConvert` | `ppecom.cpp`: measurements, ephemerides and results to and from the engine's formats, smoothing, and the configuration that steers it |
| `PpeConvertMC` | crowded and broken reports, three calendars |
| `RtkMessages` | M919 and M916, which `QRtkImpl.cpp` makes of a rover and a base epoch, as messages and as logged |
| `RtkMessagesMC` | satellites of four systems in different orders |
| `RtkMessagesProofs` | differences, cycles and the bytes of both messages, for any epochs, satellites and wavelengths |
| `NtripTask` | `ntripclient2/`: the task of the EC100Y client, its mailbox, the network |
| `NtripTaskProofs` | types, what is released, what is written and delivered in which order, for any bounds |
| `DatLog` | `logger.cpp`: `write_data`, the log ring and its thread, in both builds |
| `DatLogProofs` | types, the exclusive use of the ring, and what gets into the file, for any writers and sizes |

### RingBuffer

One action per exported function.  Callers serialise their calls with their own
mutex, so a call is one step.  `content` is the refinement mapping: the slots
from `start` to `end` around the end of the buffer.  `rb_init` of the static
variant is `rb_create` with an allocation that cannot fail.

### PpeThreads

`pc` says what each thread does next.  The steps of a producer:

    idle -Call-> enter -Enter-> type -PutType-> commit -Commit-> notifyR -NotifyR-> idle
                   ^  \-> waitW (no space; gives the mutex back)
                   \--------/  NotifyW of the consumer, or a spurious wake-up

and of a consumer:

    take -Take-> notifyW -NotifyW-> process -Process-> take
      \-> waitR (empty) -NotifyR-> retake -Take-> ...

A step ends where another thread can see the difference.  A mutex is visible
between the steps only from `Enter` to `Commit`: `DATA_HEADER` is written there
field by field, and the other ring's producers write it under the other mutex.
`Take` holds its mutex from the test to the unlock and touches nothing that is
shared outside it.  `NotifyR` and `NotifyW` come after the unlock, as in the
code.  `retake` is the `if` around the wait: a woken consumer does not test again.

The rings are sequences, which is what `RingBufferProofs` allows.  Bytes are
cells that say of which record they are, and a header cell carries the
`[len, type]` that `DATA_HEADER` held.  What a consumer makes of bytes that are
no header is any member of `Garbage`, and so is what an uninitialised
`readBuffer` spells.  A length is at most that of the longest body.

The ghost variables `put`, `done` and `faults` number the records, remember
what was processed last, and record that the framing of a ring was broken by
one of the two causes the code has: `torn` (a header overwritten by the other
ring's producer) and `clipped` (a GGA record whose header was accepted and
whose body was not).  `Framed`, `InOrder`, `NoLostWriter` and the liveness
properties speak of rings without faults, `NoPhantom` of what happens before a
spurious wake-up; every other property of all states.

`qcom_9628/PrecisePosEngineLib/PrecisePosEngine.cpp` has the same callbacks, threads and rings, line by
line.  It differs in log lines, in the subscription, in two more calls of the correction
library after its start (`setRtcmUserInfo`, `setSourceID`), and in the branch of
`GNSSThreadFunc` for position reports, which is commented out: nothing that the model
has.  So `PpeThreads` and its proofs are about both; the map names the lines of the SA415M.

Left out: the correction service being stopped (no code calls
`stop_correctServ`), what the engine does with a record, the configuration, the
lengths of a record that would not fit `readBuffer`, a failing `rb_create`, and
tearing within one 16-bit field of the header.

### RtcmStream

One action, `ParseRtcm`, for one call with the next chunk of a stream.  `Feed`
is `wGetOneCharOfRTCM32`; `Scan` is the loop, as a recursive function over the
prefixes of the data.  The outer `while (true)` starts another pass only when
the last byte ended a message; that pass finds no bytes and the framer reset,
so that everything is used up: `Unused` says so for both ways out.  Bytes are
numbers, the header fields are extracted as in the code; `Crc24q` is a
constant, of which only that it sees damage matters.  What a message
does is left to `RtkEpochs` and `RtcmDecode`.

### RtkEpochs

One thread per source.  `ParseMsm`, `Parse1005`, `ParseOther`, `PushEpoch` and
`PushGGA` are what a source can call, each up to the point where its thread
wants `m_mtxBase`: nothing before it is shared but `m_bHasBaseLastAllEpoch`,
which the rover reads without the lock.  From there

    base:  lock -Lock-> low -PublishLow-> high -PublishHigh-> idle
    rover: lock -Lock-> low -CopyLow-> high -CopyHigh-> send -Solve-> idle

with the `memcpy` of an epoch in two halves.  An epoch is its time, its
coordinate and the set of `[n, sys]` in it, `n` numbering the epochs a source
sends; so the model knows what an epoch ought to contain and the code
does not.  `Tow` gives the time of each epoch; that it is 0 for an epoch at the
start of a week is what `rtk_week_start` is about.  A source sends its epochs
in order and `Lose` drops messages.  The message that ends an epoch ends it
also when its system is not enabled.

Left out: ephemerides, week numbers, `m_rovLastEpoch` with the doppler,
elevations, `m_encodeBuffer` and the reports.  Rover and base coordinates have
one writer each: GGA sentences reach `PushGGA` through `gnssRingBuffer`.

### NtripClient

`pc` says where the client thread and the caller are:

    begin -Begin-> while -While-> close_socket -> socket -Socket-> connect -Connect-> request
    request -Request-> login -Login-> select -Select-> write -WriteGga-> read -Read-> select
    while -While-> close_socket -> end -End-> ended

and whatever fails goes back to `while`.  `close_socket` is `CloseTest`,
`Close`, `Clear` for whoever calls it, with `ret` the place to return to.  The
client has no lock, so a step ends wherever the other thread's access to
`socket_fd_` makes a difference.  Where the race on `socket_fd_` leaves the
compiler a choice (one load or two in `close_socket`) or leaves the test of a
bit of descriptor -1, the action allows each outcome.

`conn` is the process's table of sockets with what the kernel and the caster
know of each connection.  `recv` takes any number of the cells that have arrived,
up to the buffer's size; the caster's answer is two cells, which TCP may cut.
`recv_buffer_` keeps what no `recv` overwrote.

Left out: a start while the thread of an earlier one still runs, SIGPIPE
(ignored), `send` of a part, `set_gga_buffer` (nothing reads the sentence: the
caster gets a constant one), other descriptors of the process, the
configuration, the request's text.  The destructor is a `Stop`.

### NtripTask

`res` and `sock_fd` belong to the task alone, so that `close_socket` and `open_socket` are
one step, `Connect`, with one outcome for each way out:

    connect -Connect-> select -Select-> login -Login-> select
                       select -Select-> lock -LockGga-> send -SendGga-> read or select
                       select -Select-> read -Read-> select, or connect when the connection is lost
    connect -End-> ended   (isStopNtripService)

`Dispatch` is the order of the tests after `select`: writable, logged in, authenticated, then
readable.  `send_request` is `Blank` and `Copy` under `ggaMtx`, `Stop` only sets the
flag, which the task looks at when the connection is lost.  `close_socket` resets neither `res` nor `sock_fd`, which is
why `owner` says whose each descriptor of the process is, and `Other` lets the rest
of the process open and close its own.  The mailbox is cleared whatever `send` did,
and the first bytes that arrive are taken for the answer, whatever they say.  The
caster and the network are `Established`, `CasterSends`, `CasterCloses`, `Reset`.

Left out: the text of requests and of positions, and what `start_ntrip` does before
there is a task.  The socket library is external.

### DatLog

`build` is chosen in `Init`.  A writer

    idle -Call-> acquire -Acquire-> test -Test-> inside -Write-> release -Unlock-> notify or idle
                                     \-> wait (posix), sleep (ec100y), and back

and the log thread `acquire`, `test`, `inside` (`Read`), `notify`, `log` (`LogBin`).
`seen` is the ring as a thread found it when it got the lock, so that two threads in
the ring at once may overwrite what the other did.  In the EC100Y build that happens: a
writer that found the ring full gives the semaphore back, sleeps, and goes on
without it; `waited` remembers it, and `Exclusive` and `LoggedInOrder` speak of
states before.  What the thread read while the file could not be opened is lost, and
`lost` counts it.  A record longer than the ring waits for ever, and the thread that
logs it with it: one of the lengths in the run is such a record.

The ring is a sequence, as `RingBufferProofs` allows.  Left out: `log_msg` and
the text log, file names and sizes, and the end of the thread, since nothing sets `isTerminated`.

### RtcmDecode

Whoever sends lays a message out bit by bit (`Laid`; a bit knows its field), the decoder computes its
positions (`Field`), and a read that does not meet a field of its width yields `Garbage`.
`ParseMsm` is `decode_msm4` and `decode_msm7` with their heads, masks, cells
and slots; the bands of signals are the tables of the code, and a signal without a band
leaves the band of the cell before, or whatever was there (`any`), in `iType`.
`ParseEphemeris` is 1019, 1020, 1042 and 1046, each with its layout and its tests
of health; `ParseCoordinate` is 1005, with real bits in real bytes and an `int` of
`Word` bits.  `PlaceWeek` is how
`PrepareToSolve` finds the week of the epoch.

As in the code: the health `Bn` of GLONASS is read as one bit and its bit 7 looked at, so that
every satellite is healthy (`RtcmDecode.cpp:2193`); `bHealth` has eight bits, so that of the two bits of
Galileo's `e5b_hs` only the lower one counts, and a satellite that is ill with a 2 there is given
(`RtcmDecode.cpp:1717`; `IllUnseen` names these two cases, and `EphemerisAsSent` excepts them); a GLONASS time in the first three
hours of a Moscow week comes out negative; MSM7 uses the constant `LEAP_SECONDS` where
MSM4 uses `m_iLeapSecond`; MSM7 tests the length three bytes too leniently and MSM4
not at all; a BeiDou week below 1356 in the message has 1356 added (`RtcmDecode.cpp:2280`), so that from
week 2712 of GPS (the end of 2031) on, whose field is not below it, the week comes out 1356 too
low; `EphemeridesAssumption` ends before it.  An MSM says the time of the week and no week, so that
messages just weeks apart go into one epoch, and `held` takes them for one time (`Holding`).
`EpochAsSent` leaves out (`Regular`) the three messages of which the code does not keep what they
say: a signal whose name has no band, GLONASS in the first three hours of a Moscow week, and a satellite beyond
the numbers of its system, which `bFindObsIndex` refuses or takes for one of the next system.
`ObservationsAssumption` has at most 64 cells in a message, as the standard does.  The fields of health have the values that are sent, `sqrtA` is only good or bad, and
of the other fields of an orbit the model has that they are read from where they were written: not their scales, nor
that some (`tgd` of 1019, `sva` of 1046) are read and not kept.  Of `getbits` only reads as wide as an `int`, those of
the coordinate, are made of bits.  Left out: the slip counters, the return codes, and the decoders that
`ParseRtcm` never calls.

### PpeConvert

`parseMeasurement` is `obsqumcom` with everything it calls: `satidtrs`,
`Store` (a slot for each satellite; `Storing` is its loop, `Taken` the count at its end),
`obscvt` with `Smoothed`, and the clock offsets of each system.  `parseEphemeris` is `ppeephcvt` with the three calendars, and `RtkReport`
is `ppeout_rtk`.  `LogConf` is `handler_log_conf`, one line at a time.  Codes are
integers, a carrier is in cycles, and a division is rounded down: the carrier loses its clock in whole
cycles, and a running mean loses at each measurement less than a unit, which `SmoothedIsMean` counts.
`since`, a ghost, keeps code minus carrier of each satellite since its last slip, with which
`SmoothedIsMean` compares the smoothed code.  The assumptions: reports are of integers
(`ReportsAssumption`), `fullToeSec` is a `uint32` (`EphReportsAssumption`).

`EpochAsMeasured` ties the epoch to its report, and its smoothed codes to `smooth`, which `SmoothedIsMean` ties to
the history.

As in the code: in a report of more than `MAXSAT` satellites the measurements of those without a slot are
written over those of the measurement before, and smooth its code.  `EpochAsMeasured` says of such a report who has the slots
(`FirstCome`) and nothing of what they hold, and all of the next report that fits; `SmoothedIsMean` speaks of the time
until the first such report (`crowded`), since a code that was smoothed with another satellite stays in the mean; ephemerides of QZSS and GLONASS are
dropped; a Galileo satellite out of range is pushed with the ID 0; a result is
dated with the week of the last GPS ephemeris, and its `utcTimestampMs` is GPS time
(`EnginePluginAPI.h:1043` says UTC).  A smoothing count of 0 would divide by zero and is excluded
(`ConfsAssumption`).  Left out: orbits, covariances, azimuth and elevation, `cycleSlipCount`
(which may wrap), GGA sentences, debug printing.

### RtkMessages

`PushRover` is `SendEpochToQRtk` with what it calls, in its order: `CreateM919TotalInfor`
and its cycles (`CycleOf`, `CountedCycles`), the encoding for the log, `SendOneEpochToRtk`, and
M916.  `PushBase`, `SendEphemerisToQRtk` and `SendGloEphemToQRtk` change what it
remembers.  Codes are in tenths of a metre, a quotient by a wavelength is kept as its
numerator, and a message is a sequence of its fields of 16 bytes.

As in the code: `NCycle` is not initialised (`Garbage`), and a count of 0 means there is
none, so that it is made anew in every epoch; satellites of Galileo, and of
GLONASS before their ephemeris, have the wavelengths of GPS; M916 keeps the R1 of
the satellite before for one without (`R1After`).  Noted and not modelled: the time
offset in M919 overflows an `int` beyond 214 s of difference (`QRtkImpl.cpp:1321`), a
`uint16_t` length is passed as a `UINT32 &` (1800), `CreateMes723Info` sets
its flag with `=` where it means `|=` (1095).  Left out: positions, azimuth, slips, and
the Doppler, which is in neither message.

## Runs

| Run | Question | Bounds |
|---|---|---|
| `ring_fifo` | is the ring a queue, wherever the indices have got to? | 2 byte values, capacity 3, requests up to 4 |
| `ppe_reports` | start-up, framing and order with measurements and positions; is every record processed, does every call return? | 1 EP thread, 2 calls; room for one record, in `gnssRingBuffer` and a byte |
| `ppe_corrections` | positions and corrections in one ring, GGA in the other: is a waiting writer forgotten, is an unread buffer processed? | 1 EP thread and the service, 2 calls each, 1 spurious wake-up |
| `ppe_torn` | does a position report reach the wrong thread? (it does) | 1 EP thread, 2 calls, room for two records |
| `rtcm_stream` | do chunk boundaries matter, and what is kept? | streams of up to 3 of 8 pieces, chunks of 7 lengths |
| `rtk_epochs` | what are the epochs made of that the engine gets? | 3 systems, 2 enabled, 3 epochs of each source, anything lost |
| `ntrip_client` | what reaches the callback, what stays open, does it reconnect, with a stop at any moment? | 2 starts, 1 stop, 2 connections and descriptors, 2 cells of data each, a buffer of 3 |
| `ntrip_task` | what is released, written and delivered; is a loss noticed, a position taken? | 3 attempts, 2 requests, 2 descriptors, 3 cells a connection, a buffer of 2 |
| `dat_log` | who is in the ring at once, what gets into the file, does everyone get on? | 2 writers, 3 records of 2 or 4 bytes, a ring of 3, reads of 1, a semaphore up to 2 |
| `rtcm_decode` | are observations, ephemerides, coordinates and their times as sent? | 3 messages, 3 slots, an `int` of 8 bits |
| `ppe_convert` | are observations, smoothed codes and ephemerides as measured? | 4 reports, 2 slots, smoothing over 2 or 3 |
| `rtk_messages` | are differences, cycles and logged messages those of the epochs? | 5 epochs and ephemerides, one satellite of each system and a second of GPS, `CYCLE_LIMIT` 2, words of 12 bits |

Besides, `tlc -workers 2 -config X.cfg M` with

| `X.cfg`, `M` | shows |
|---|---|
| `RtkRtcmRover`, `RtkEpochsMC` | a rover epoch is solved before it has ended (2 epochs, nothing lost) |
| `RtkWeekStart`, `RtkEpochsMC` | epochs are mixed at the start of a week |
| `NtripStop`, `NtripClient` | `Stop` need not end the thread |
| `NtripLogin`, `NtripClient` | an old answer logs the client in |
| `GlonassDay`, `RtcmDecodeMC` | the last day of a leap year is dated a day late |
| `GalileoHealth`, `RtcmDecodeMC` | an ill Galileo satellite is taken for healthy |
| `PpeFlags`, `PpeConvertMC` | the flags of a fixed solution stay |
| `SmoothCount`, `PpeConvertMC` | the configured smoothing count is lost |
| `NewBeidou`, `RtkMessagesMC` | BeiDou satellites from 178 on are counted and not encoded |
| `M916Flags`, `RtkMessagesMC` | base parts of M916 are missing or of other satellites |
| `PpeObservations`, `PpeThreadsMC` | no writer is forgotten when two EP threads (symmetric) wait for one ring; this one passes |

Why these bounds suffice: with HeaderLen 2 and bodies of 1 to 4 a ring of 6 or
7 fills after one measurement, so that producers wait, a GGA header fits where
its body does not, and a GGA record is refused altogether; two calls give a
record in front of the one that is put, and a stale one behind it.  Each of
these situations was confirmed to be reached.  As in the program a header is
shorter than a GGA sentence, and a measurement is the longest record.  In
`ppe_corrections` what is read where there is no header is a length without a type; that it
may also be a position report is in `ppe_reports` and `ppe_torn`.

`rtcm_stream` has every kind of piece next to every other and between two, and
with chunks of one byte every cut.  In `rtk_epochs` three epochs give one that
was broken off, one that is published while the rover copies its predecessor,
and one that follows; the last system is the one that is not enabled.  The time 0
is left out there, since `RtkWeekStart` shows what it does.

Two connections on two descriptors give one beside a failed one, one that has the
number of a closed one, and one after another login.  A buffer of three cells
holds an answer with data behind it, and keeps a cell that was never read into.
Two reads of `login` are one that is too early and one that is not, where the
code makes ten.  `ntrip_client` and `ntrip_task` run the modules themselves, whose
constants are numbers.  In `ntrip_task` three attempts give one that fails early
after a good one, and one after that; two requests, one that replaces another.

In `dat_log` a record of 2 in a ring of 3 makes the second wait, reads of one byte
make the thread wake writers before there is space, and the record of 4 never fits.
In `rtcm_decode` three messages are an epoch that changes in its middle, or an
ephemeris between two; in `ppe_convert` four reports let a mean be full, lose its
satellite, and go on; in `rtk_messages` five steps are two base epochs and two
rover epochs with an ephemeris between.  Their inputs (the definitions of the MC modules) have
unknown signals, missing ranges, slips, jumps and lost bands.

In the RTCM, RTK, NTRIP, conversion and message runs the inputs come to an end, and
nothing more can happen.  In every PPE run the calls are bounded, and in `dat_log` the
records, so the system may come to rest with its threads waiting: deadlock is not checked there.

### Fairness

`Spec` of `PpeThreads` has weak fairness for each thread's own steps: a
thread that can run does so in the end.  Nobody has to call, the service need
not be loaded, and no wait returns by itself.  `std::mutex` does not promise
that a contending thread gets it; the calls are bounded, so that in the end a
mutex stays free, and weak fairness is enough.

In `NtripTask` the task and a `send_request` that has begun go on, and a connection
that is being opened is established or refused in the end.  `SelectFails` is no step the task has to take,
the caster need not send, and nobody has to call.  A connection that is up is writable again in the end.

In `DatLog` every thread goes on, and gets the lock if it is free again and again:
strong fairness for `Acquire`, since a waiting thread may find it taken each time it looks.  A scheduler that never
lets a waiting thread have a mutex is excluded, as it is on the systems the code runs on.

## Findings

* `ppe_torn`: `DATA_HEADER` is written under two mutexes.  A GGA record gets
  the length and type of a position report, and `GNSSThreadFunc` takes the
  bytes that follow for its body.
* `RtkRtcmRover` (`RoverEnded`): the flag of a complete rover epoch outlives the epoch when
  there is no base epoch yet; the first message of the next epoch is then solved
  alone, where the code says it goes on waiting.  Rover epochs that come
  through `PushEpoch`, as on the SA415M, are whole.
* `RtkWeekStart` (`OneTime`): a time of 0 is taken for an empty epoch, so that at second 0
  of the week an epoch that lost its last message is not cleared, where the code says it is.
* `NtripStop` (`StopEnds`): `stop_ntrip` is to stop the thread and wait for it.  It does not
  wait, and the data loop does not look at the flag: it selects on descriptor -1
  for good, or, if the stop came during `connect`, goes on.
* `NtripLogin` (`CasterAccepted`): the first `recv` of a login comes before the answer and leaves the
  length that of the buffer; an answer left from the last connection counts.
* `GlonassDay` (`GlonassDated`): the day 366 of a leap year, 31 December, is dated 1 January.
* `GalileoHealth` (`GalileoIllRefused`): four fields of health are added into eight bits, and an `e5b_hs` of 2 is
  shifted out of them; the ephemeris is given as that of a healthy satellite.
* `PpeFlags` (`FlagsOfSolution`): `ppeout_rtk` only ever sets flags, in a report that is not cleared.
* `SmoothCount` (`SmoothCountConfigured`): each call of `handler_log_conf`, for whatever key,
  sets the count back to 1000 first.
* `NewBeidou` (`CountAsEncoded`): `GNSS_PRN` ends BeiDou at 177, the numbers go to 203; such a
  satellite counts in the length of M919 and is not written, and with the log on the engine gets one satellite less.
* `M916Flags` (`FlagsOfSatellites`): the flag of the base part is set at the place of the satellite
  in the base epoch and read at its place in the message.

## Proofs

* `RingBufferProofs!TypeCorrect`, `RingImplementsFifo`: from
  `RingAssumption` alone.  `Fifo == INSTANCE ByteFifo WITH content <- content, ...` is the abstract
  ring, its `content` computed from the indices, and `ImplementsFifo` its specification.  The mapping is by the content of the ring: each
  lemma says what one operator does to it (`WrapOutIsPrefix`, `ReadRemoves`,
  `WrapInIs`, `WriteAppends`), the step theorem puts them together.
* `PpeProofs!TypeCorrect`: from `PpeAssumption`.  `TypeOK` holds the
  strengthening that makes it inductive: a busy thread has a record of a
  known type, and the thread between `Enter` and `Commit` holds the mutex of
  its ring; hence there is one, and the space `Enter` saw is still there.
* `RingsExist`: with `BootOrder`, which relates the step of start-up to the
  rings made, the threads started and the subscription.  No run lists it.
* `ReaderNotLost`: `NoLostReader` is inductive given the two above.  The
  consumer sleeps only next to an empty ring, and who fills it notifies next.
* `RingsAreFramed`, `ProcessedInOrder`: from `FrameInv`.  `Framed` speaks of the ring alone,
  where the next record may be anything; `Records` says of an unbroken ring that its cells are
  those of the records from the one after what the consumer holds up to the last one put,
  `SpaceKept` that the space a producer saw is there when it puts, `BlankBody`
  that what was never read is no record, and `DoneNear` how far the
  consumer is between its read and its processing.
* `WriterNotLost`: `SpaceNoticed` adds that the consumer of an empty ring next to which a producer
  waits is about to notify it.
* `NothingFromNothing`: from `FedInv`: a notification is given, and without spurious wake-ups
  a consumer wakes, only when there is or was a record to be read.
* `EphemeridesArrive`: from `ConvertAssumption` and `EphReportsAssumption`.  Each ephemeris goes behind those before it
  (`PushingIs`), hence what was pushed is in the order of the report and has an origin in it (`PushedAt`); week and second of the
  calendar, taken together, are the instant of the receiver (`InstantKept`).
* `EpochsAsMeasured`: with `ReportsAssumption`, for reports that fit and those that do not.  `Queued`, by induction along
  the report: the first slots are taken, in the order in which their satellites came, and a satellite without a slot
  came after all that have one; a measurement lengthens them by its satellite or leaves them alone (`SlotTaken`, `QueueStep`).
  `Sorted`, for those that fit: the slots are of the
  satellites of the first measurements, each once, and every band of a slot holds
  the last that was said of it.  As long as the satellites fit there is a free slot for a new one (`RoomForNew`), so that one more
  measurement keeps this (`SortStep`); in the end the clocks are taken off (`EpochMade`).
* `SmoothedCodes`: with `ConfsAssumption`.  `MeasuredInv` has the smoothed codes of all satellites agree with
  their histories, those of no history with `NoSmooth`, and the counter of slips with the last entry, without which
  the next one would not know whether it begins anew.  The slots alone say which code a measurement moves, so that `LockStep` needs
  `Sorted`; one mean is in `MeanStep`: it stays between the differences (`Between`) and costs
  less than its count in units more (`CostNext`).
* `RtcmProofs!StreamInStep`: from `StreamAssumption`.  `After(data)[n]` is what the loop
  of `ParseRtcm` has after n bytes.  `Stream` says that what was dispatched is
  what is found in all bytes passed so far, in one go, and that what is kept begins
  at a place where no frame was open and after which none has ended.  The property alone is not
  inductive: it does not say that parsing the kept bytes again finds nothing a second time.
* `CutsDoNotMatter`, `EveryFrameOnce`, `KeepsOneFrame`: from `Stream`.  Of a clean stream each piece
  is scanned alone (`FrameAlone`, `NoiseAlone`), and then in its place (`InPlace`).
* `EphemerisRight`: from `DecodeAssumption`, `EphemeridesAssumption` and `MessagesAssumption`, for every value of the
  fields of health.  What is left of those of Galileo in eight bits is 0 just when they are, or when the first is 2 and
  the others 0 (`EightBits`); that one and the `Bn` of GLONASS are what `IllUnseen` excepts.
  Where a layout reads is where the fields were laid (`LaidOut`, `StartsAre`), and over their
  widths (`Agree1019` to `Agree1020`), so that every read yields what was sent (`EphemerisReads`).  The
  weeks come back from their fields, and the date of GLONASS by the calendar: `vGetGlonassUTC`
  finds year and day in at most three turns (`YearFound`), month and day (`MonthDayIs`), and
  `iYMDtoSumDay` counts them again (`GlonassDay`).  Day 366 is excluded, as in the finding.
* `PlacedRight`: with `ObservationsAssumption`, and not the property of one step that it looks.
  Masks, satellites and cells are as long as the decoder takes them to be (`CutFound`), and the time of
  the head is that of the message or, for GLONASS, a week before it (`TimeRead`).  `TimeKept` says at every moment
  that the open epoch is of the time of the MSM held and the current week of the last GPS
  ephemeris; when both are within half a week, the week that `PrepareToSolve` picks is the
  message's (`WeekFound`).
* `CoordinateRight`: with `CoordinatesAssumption`.  A bit that was packed into bytes is found there
  (`PackedBits`), `getbitu` gathers a quotient and a rest by powers of two (`GetBits`), and
  the high word, taken as signed, with the low six bits is the number (`HighAndLow`).  `Word` is any
  width from 6 on.
* `EpochsAsSent`: from `DecodeAssumption` and `ObservationsAssumption`.  Each column is read where it
  lies (`ColumnsRead`), and the cells present, in the order of the mask, are its rows.  A cell goes
  into the slot of its satellite, makes one, or finds no room (`CellPut`, `SlotNext`); the loop over the cells has, at
  every moment, put the usable ones before (`AfterCells`, `LoopPuts`).  `EpochKept` says of the steps
  what the open epoch holds, with `TimeKept`: a message of another time has another time in its head, so that the
  epoch is cleared, and one of the same time has not, so that it is not.
* `RtkEpochsProofs!TypeCorrect`: from `EpochsAssumption`.
* `BaseUntorn`: `Guarded` adds to `Untorn` that a thread holds `m_mtxBase` just
  between taking and releasing it, and between which steps the halves may differ.
  `QuietActions` says once what no parser touches.
* `EpochsOfOneTime`: if no epoch has the time 0 (`NoneAtZero`; the finding
  shows that it is needed).  `Timed` speaks of all epochs, not only of those
  solved, and adds that an epoch without a time is empty.
* `BaseComplete`: if moreover the base sends messages.  `Collected` relates the
  open epoch to the position of the source: what has arrived with the number it
  sends next is in the open epoch, and once the base thread is past `idle`
  nothing more can arrive for it.
* `BaseIsPlaced`: if no GGA sentence is passed for the base, as nothing in the repository does.
  `Placed` follows the coordinate from the flag to the epoch on its way to the engine.
* `WholeEpochsEnd`: if the rover's epochs come through `PushEpoch`; the finding shows
  that it is needed.  `Ended` adds that the open epoch is behind what is sent next.
* `NtripClientProofs!TypeCorrect`: from `NtripAssumption`.
* `SocketsOwned`: `NoSocketLost` with `Held`: while not stopped, the client has a
  socket only between connecting and closing it, `close_socket` closes the one it
  tested, and after the close it is open no more.  A stop may break this (between
  the close and the clearing a connect may succeed, whose socket is then
  forgotten), which is why the property ends there.
* `DataAsSent`: `Stream` adds to `DeliveredAsSent` that the cells on each wire are in order, that
  the wire of the data loop goes on where the callback was left, that its socket is that of the latest
  connection, and that `recv` is called only for what is there.
* `NtripTaskProofs!TaskTypeCorrect`, `OwnReleased`: from `NtripTaskAssumption`.
  `ReleasesOwn` is inductive given the types.
* `SentInOrder`: `SendInv` adds to `WroteInOrder` who holds `ggaMtx` (`MutexHeld`), that
  what is in the mailbox is newer than all that was written (`GgaIsNew`), and that
  the login flags say what was written on this connection (`FlagsAgree`).
* `AnswerThenData`: `CellInv` adds to `DeliveredAfterAnswer` what the flags say of
  the cells taken (`CellsAgree`).
* `DatLogProofs!LogTypeCorrect`: from `DatLogAssumption`.  `OneLock` counts: the
  threads between taking and giving the lock, and what is left of it, make one; `SleptFull` has the
  writer that sleeps remembered in `waited`.
* `LogExclusive`: `Exclusive` follows from `OneLock`.
* `LogInOrder`: `Orderly` says that what was put since the beginning that was lost is what is
  in the file, in the buffer of the log thread and in the ring, one after the other, and that whoever is inside the ring
  sees it as it is and has room for its record.
* `RtkMessagesProofs!DifferencesRight`, `CyclesRemain`: from the five assumptions of `RtkMessages`:
  epochs have distinct satellites with numbers of their system and at most `MAXSAT` of them, wavelengths are
  positive, and an ephemeris is of a second of its week.  `Kept` is the types; `Observes` states
  the property by the epochs met last; `Remembered` has `NCycle` just what was taken off the last
  difference, without which the next one says nothing of a jump.
* `BytesRight`: M919 reads back, by induction along the satellites (`PlaceOne`, `FieldsReadBack`);
  the length of the head, which the code sums by systems, is counted satellite by satellite (`Announced`).
* `MixedRight`: M916 reads back, for every content of `R1`.

Induction over numbers is done by searching a least counterexample
(`LeastNat`, `UpTo`), the recursive functions of the library by the equations of their chosen value.

Every safety invariant of the passing runs is a theorem.  Only model-checked: the liveness
properties (`Processed`, `CallsReturn`,
`GivesUpDeadConnection`, `LossNoticed`, `RequestTaken`, `LogProgress`); and what
needs ENABLED, which are out of the prover's reach.

## Not modelled

* The RTK core: a closed binary, of which the repository has the header.
* The plug-in headers `EnginePluginAPI.h` and `EnginePluginLog.h` (about 6500 lines for both chips):
  declarations of the vendor, modelled where `src` uses them.
* CSerialPort, a vendored library, and `serialport.cpp`, I/O through it behind a build flag.
* `ini.c`, the inih parser: a pass over strings; what its handler does with a key is `LogConf`.
* `log_msg` and the text log: formatting into a shared buffer and I/O.
* The conversions of the 9628 (`qcom_9628/PrecisePosEngineLib/ppecom.cpp`): a near-duplicate of
  those of the SA415M.  `obscom` computes the code from `systemMsec` less
  the time of transmission, looks at validity masks and handles L2 and L3; week, toe, toc,
  ws and tgd of ephemerides and the covariance of positions are not set, and there is no flag for
  a fixed solution.
* The floating-point parts of what is modelled: orbits, elevations, the Doppler, and the
  conversions of coordinates.
* M71 and M723 as bytes, NMEA sentences, debug output: formatting.

These, with the vendor's and the library's headers, the copies in `bak`, and the 22 compiler tests
that CMake left in build directories (about 9300 lines), are most of the lines of the repository; that is why the
definitions stand for an eighth of all of them.  Of the program's own logic they cover
the threads, the queues, the sockets, the decoding, the epochs and the messages.

## Plan

Done: `RingBuffer` with `ByteFifo`, `PpeThreads`, `RtcmStream`, `RtkEpochs`,
`NtripClient`, `NtripTask`, `DatLog`, `RtcmDecode`, `PpeConvert`, `RtkMessages`.  To come, in this order:

1. Overlapping starts of `NtripClient`.
2. What differs in the conversions of the 9628.
3. The encodings of M71 and M723.
