# Verification of the IMU Test Harness

TLA+ models of the IMU Test Harness, the TLC runs that check them on small
instances, and TLAPS proofs of their main invariants.  Paths are relative to
the repository, which sits in `src/`; the host application is `src/src/`, the
firmware of the sensor board `src/microcontroller/main/`.

## 1. The system

A sensor board (an ESP32 with an SH-2 sensor hub) reads linear acceleration,
rotation vector and rotation rate and sends them as framed packets over a
serial line.  The host application reads the packets and the sentences of a
GPS receiver, fuses them in a Kalman filter and records fixes and estimates in
a SQLite file.  A Python script beside the firmware records the readings of the
board and of two GPS receivers in a database of its own.

### 1.1 Components

| Part | Code | State it keeps | Operations | Model |
|---|---|---|---|---|
| Record logger | `DatabaseManager.cpp` | queue, running flag, counters, the writer thread with its batch | Start, Stop, EnqueueGpsUpdate, EnqueueEkfOutput, WriterLoop, WriteBatch | `DatabaseManager`, `RecordLog` |
| IMU manager | `IMUManager.cpp` | latest fix and its sent flag, three readings and their ready flags, last EKF time | InstallEkf, SensorCallback, UpdateLatestGps | `IMUManager` |
| Serial service | `SerialComService.cpp`, `BoostSerialPort.cpp` | running flag, thread, port | Start, Stop, the reading loop | `SerialComService` |
| Packet reader | `IMUSerialPortReader.cpp` | place in the byte stream, current status | Callback, RegisterStatusCallback | `HostLink`, `Board` |
| GPS reader and manager | `gps/NmeaReader.cpp`, `gps/GpsManager.cpp` | one-message mailbox with ready flag, polling flag and thread | Start, Stop, Callback, GetNmeaMessage | `GpsManager` |
| Controller | `RadarPositionNavigationController.cpp` | filter on/off flag, running flag, latest estimate | StartAndConfigureRadarPNT, StopRadarPNT, TotalDestruction, the two filter callbacks | `RadarPositionNavigationController` |
| Kalman filter | `IMUGPSFusionKF.cpp` | state, covariances, two residual windows and their counters | Step (two forms), Clean | `IMUGPSFusionKF` (windows and noise updates) |
| Board: sensor service | `sh2service.c` | twelve flags and handles, two timestamps, event queue, status | sh2service_start, sh2service_stop, three tasks, two driver callbacks | `Sh2Service` |
| Board: serial line | `serial.c`, `main.c` | attitude of the last rotation; the listening task | send_*_t, imu_callback, rx_handle, process_rx_buffer, serial_command_callback, app_main | `HostLink`, `Board` |
| Board: status reports | `sh2service.c` 121-136, 421-441 | status and time of the last report | update_imu_status, the repetition of the callback task | `Board` |
| Checksum | `crc.c` (board and host) | shift register | cm_ini, cm_nxt, cm_blk, cm_crc | `Crc16` |
| Recording script | `microcontroller/test.py` | bounded queue, batch, stop event, error of the writer | the writer thread, gps_reader, main, stop_database_writer | `Recorder`, `RecordLog` |
| Host main | `main.cpp` | owner of everything | construction and shutdown order | not modelled, section 7 |
| nmea_multicast_app | `src/nmea_multicast_app/` | a copy of the serial service, a multicast socket | read and forward sentences | not modelled, section 7 |
| Configuration, declination, conversions, plotting | `YamlConfigService.cpp`, `MagneticDeclination.cpp`, `utils.hpp`, scripts | none after the call | | not modelled |
| SH-2 driver | `microcontroller/third_party/sh2` | | the calls of the service | vendored; in `Sh2Service` only how its calls return, or do not |

### 1.2 Threads and how they meet

On the host, `main` owns everything and calls Start, Stop and the destructors.
The **IMU serial thread** runs the packet reader, the IMU manager, the filter
and the enqueueing of estimates in one call chain.  The **GPS serial thread**
fills the mailbox, the **GPS polling thread** empties it every 10 ms into the
IMU manager and the logger.  The logger's **writer thread** is the only user of
the database.  The logger has a mutex and a condition variable; IMU manager,
mailbox and controller share fields and flags between threads without a lock.

On the board, `app_main` starts the **service task** (driver, resets), which
leaves a **recovery task** behind when it fails; the recovery task creates the
next service task.  The **callback task** takes events from a queue and sends
frames; the status is sent by whichever task changes it and once a second by
the callback task.  The **listening task** reads commands, of which one restarts
the board.  All share volatile flags without a lock.

The recording script has a writer thread, one thread for each receiver and the
main thread; a bounded queue, an event and an error field connect them.

### 1.3 What is hard here

* Unlocked hand-overs: a fix or a message is copied field by field while it is
  overwritten, flags are set and cleared in two steps.
* Stop against threads that wait, read, time out or throw; a missed
  notification; the order in which two threads are joined.
* Transactions that roll back after part of a batch; counters that must agree
  with the table all the same.
* The board's tasks, which know of each other only through flags that are
  cleared one after the other, and a hub that may reset or fall silent at any
  point of this, inside a driver call that waits for it as well.
* A byte stream without any structure but a start byte.
* Two tasks that report the same status with times taken before the write, to a
  host that believes the newest time, while the clock starts anew with each
  restart of the board.
* A sentinel that has to pass a full queue whose reader may be dead, and threads
  that end without telling anybody.

`PROJECT.json` lists each hazard at the line where it bites, with the
properties that would catch it.

### 1.4 What makes each component correct

| Part | Correctness |
|---|---|
| Record logger | records are settled in order, each once, in whole transactions; Stop settles all that came before it; counters follow queue and table |
| IMU manager | an EKF call uses new readings and a fix no older than the one before; a fix reaches the EKF, whole and once unless an update overlaps the call; dt does not wrap |
| Serial service | after Stop nothing runs and the port is closed; Stop returns, for each of its users |
| Packet reader | no way out of the callback leaves the stream off a frame boundary; damage stays local; no payload is taken for another kind |
| GPS reader | as the IMU manager, and Stop leaves neither thread |
| Controller | one thread uses the filter at a time; a run sees no state of the run before; every operation returns; no filter starts from a position that is not finite |
| Filter | each window holds the last N residuals, the noise is that of its own window |
| Sensor service | a started service is served by some task, the driver has one user, sensors lost come back or the board restarts, a silent hub is not shown as healthy, Stop returns; the last three as far as the driver's calls return |
| Serial line of the board | a command is heard when it is sent, and a damaged packet is not one |
| Status reports | whatever order the two senders get into and whatever is lost, the host comes to know the status |
| Checksum | the register holds the remainder of the polynomial division |
| Recording script | as the record logger; the recording ends, and a failed writer ends it |

## 2. The modules

`X` is the model of a component, `XProofs` holds its theorems.  `BoardProofs` is
about three models, `Board`, `HostLink` and `Recorder`, whose definitions therefore
have different names (`LinkSpec`, `ScriptSpec`); its last sections are about
`Crc16` and the commands of `Board`.  `RecordLog` has no theorems of its own.

| Module | Uses | Remarks |
|---|---|---|
| `RecordLog` | | abstract: records accepted in order are stored or given up in order, a batch at a time |
| `DatabaseManager` | `RecordLog` (refinement) | one action per lock region; `WriteBatch` with its record cursor and rollback |
| `IMUManager` | | `copyTime`, `copyLat`, `copyLon` are the field copies of line 48-60; dispatch and update interleave between them |
| `SerialComService` | | reading thread as a sequence of stages; used by the next two |
| `GpsManager` | extends `SerialComService` | its serial thread runs NmeaReader's callback |
| `RadarPositionNavigationController` | extends `SerialComService` | its serial thread runs the filter callbacks |
| `IMUGPSFusionKF` | | residuals are step numbers; the noise is the window it was computed from |
| `Sh2Service` | | `pc` gives the stage of each task that uses the driver; the driver stages are shared by the three callers; `DriverCalls` are the stages inside a call of the driver, which a hung hub need not let return |
| `HostLink` | | the line is a sequence of bytes; the reader's callback is one action per ReadExact |
| `Crc16` | | registers and polynomials are sets of exponents; `Remainder` is the reference |
| `Board` | extends `Crc16` | commands in, statuses out, the host's `currentImuStatus`; times are distances from the present, so that the clock needs no bound |
| `Recorder` | `RecordLog` (refinement) | a measurement is the name of its source; the deadline is a flag that time sets |

Variables keep the names of the code without the prefix (`m_running` is
`running`, `s_sh2_ready` is `ready`); a variable marked "history" in its comment
is read only by properties, one marked "counter" only by a bound.  Definitions
whose name begins with `Mut` are plausible bugs: put in place of the definition
they follow the name of, each makes TLC find a property violated
(`PROJECT.json`, "mutants").

Racy writes of several fields are modelled in program order; the C++ memory
model would allow more, so properties about races hold for builds that keep
that order.

## 3. The runs

All bounds are constants in the cfg files or named in the module.

| Run | Instance | What it shows |
|---|---|---|
| `logger` | 2 producers, 3 records, 2 sessions | no loss, duplicate or overtaking; counters; Stop flushes and returns though its notification can be missed; refinement of `RecordLog` |
| `imu` | 2 fixes with several stamps, a sensor clock, 1 restart of the board | the EKF does not go back in time; unless an update overlaps a dispatch each fix arrives whole and once; each call uses two new readings; dt wraps only after a restart; a stored fix or a newer one arrives |
| `sent_flag` | 2 fixes | finding, section 5 |
| `gps` | 3 lines, 2 starts | Stop leaves no thread; messages whole, once and in order unless a store overlaps a copy; a message or a newer one is delivered |
| `controller` | 3 runs of the tracking | filter and estimate of a run are its own; Start, Stop and destruction return |
| `windows` | depths 0, 1, 3, periods 0, 1, 2, 8 steps | windows and noise updates |
| `prior_covariance` | as `windows` | finding, section 5 |
| `sh2` | 2 starts, 1 fault of the hub, 1 attempt | see 1.4, whichever step the hub's reset or silence, a Stop or a failing task creation meets; hub and driver need not let a call return |
| `link` | 1 damaged frame or failed read, up to 7 unaccepted frames | resynchronisation; a message of no use costs nothing; no payload is taken for another kind |
| `status_heard` | no damage | finding, section 5 |
| `board` | a second of 3 ticks, writes up to 2 ticks late, clock of the boot before up to 3 ticks ahead; every packet of the reset command with a byte altered, two bits flipped, a byte lost or inserted; a packet in front of or behind other bytes, parts of packets | commands, checksum, agreement of host and board |
| `recorder` | 2 receivers, queue of 2, batches of 2, 3 measurements | nothing lost before the sentinel, refinement of `RecordLog`, the recording ends unless it is interrupted again, an idle queue is flushed, a failed writer is noticed |

The properties of the passing runs.  Type invariants are not among them: they are
proved where a module has theorems, and stated in the module elsewhere.

| Property | Says |
|---|---|
| `UnsettledInOrder` | stored or dropped, in the batch, queued: together, in this order, what was enqueued |
| `QueuedCountersTrail`, `WrittenCountersExact` | queued counters lag by the producers between unlock and count; written ones are exact until a write fails |
| `StopFlushes`, `StopReturns`, `EventuallySettled` | when Stop returns all that was accepted is settled; it returns; a running logger settles every record without being stopped |
| `ImplementsLog` | the logger refines `RecordLog` |
| `FixesInOrder`, `ExactUnlessRaced`, `FixReachesEkf` | fixes of EKF calls never go back; whole and once unless raced; a stored fix or a newer one is used |
| `CallsUseFreshReadings`, `DtNeverWraps` | no reading serves two calls; dt wraps only after a restart of the board |
| `StoppedManagerIsQuiet` | after Stop neither thread runs and no callback follows |
| `OnceUnlessRaced`, `NewestReachesCallback` | messages of the GPS receiver, as for fixes |
| `FilterUsedByOneThread`, `EstimateOfThisRun`, `OperationsReturn` | the main thread and the serial thread never share the filter; estimates belong to the run; an operation returns although it joins a thread that may be in a blocking read, or waits for a mutex that a throwing step has kept |
| `WindowIsRecent`, `NoiseIsOfItsWindow` | a window is the last residuals; each noise comes from its own window |
| `AlwaysServed`, `DriverUsedByOneTask`, `QueueAliveWhenUsed` | a started service has a task that serves or restores it; no two tasks are in the driver; no task uses a deleted queue |
| `ConfiguredUnlessInterrupted`, `FailureIsReported`, `SilenceIsReported`, `SensorsComeBack`, `StopReturns` | configured means all sensors are on, unless a reset was noticed while they were enabled; a recovery attempt is not shown as healthy before it has enabled a sensor nor after it has failed; a hub that stays silent is not shown as healthy for ever, although three places report HEALTHY on their own; lost sensors return, the board restarts, or a stop or such a reset intervenes; Stop returns from every stage. The three liveness properties make one exception: a task that stays for ever inside a driver call while the hub hangs (section 5) |
| `NothingLostWithoutFault`, `DamageIsLocal`, `KindsAreKept` | an undamaged line loses no accepted frame; one fault costs at most six frames if no payload contains the start byte; a payload keeps its kind |
| `CommandsHeardAsSent`, `ChecksumIsRemainder` | a packet at the beginning of a read is heard whatever follows it, a damaged one is not; `crc.c` computes the remainder |
| `HostAgreesWhenQuiet` | with no frame under way the host has the board's status, unless a change was not written, a side restarted or the repetition overtook a change since |
| `StatusArrives` | while the callback task runs every status reaches the host or changes, also after all of these |
| `StopWritesAll`, `RecorderStops`, `MeasurementsReachDisk`, `FailureEndsRecording` | what was put by threads that were waited for is in the database when the recording has ended; it ends with a full queue or a dead writer, unless a second interrupt ends main on the way; nothing waits in a batch for ever; a failed writer gives exit code 1 |

The board is followed until a Start meets a task that has survived the Stop
before it (`overlapped`), and its properties are about what happens before that:
Stop waits for the handles to become null and cannot see a task that stands
between two of its flags, a weakness listed in section 5.

Why the bounds are enough: two producers and three records let one record be
queued, one in the batch and one enqueued after Stop; two sessions start the
writer again after a failure.  Two fixes let the second overwrite
the copy of the first, with one tick of the sensor clock and a restart at any
point of it; three fixes with the clock at rest, and a clock to 4 with one fix,
pass as well (97 000 and 139 000 states).  Windows of depth 3 wrap twice in eight
steps.  One fault of the hub meets every stage of start, service and recovery,
and two starts let the second meet what the first left.  Seven unaccepted
frames are one more than `DamageIsLocal` allows.  In the board's run a frame
can be two thirds of a second late, so that those of the two tasks overtake each
other, and the clock of the boot before can be a whole period ahead; some 2 500 damaged packets are every one of the kinds named.
A queue of two is full while the writer holds one measurement, a batch of two is
full or partial, and three measurements fill the queue again behind a batch.
Two faults of the hub instead of one (240 000 states instead of 130 000) show
nothing new.  Without their exception the three liveness properties of the
sensor service are violated, by a hub that hangs inside a driver call.

`CHECK_DEADLOCK FALSE` stands where the program stops or the bound is used up:
the logger after its last session, GpsManager after `std::terminate`, the board's
service after `esp_restart`, the recording script at its end.

### 3.1 Fairness

* Logger: the writer and the owner are scheduled (WF); SQLite may fail, but not
  for ever.  Producers owe nothing.
* IMU manager, GPS: the threads are scheduled; readings and polls keep coming;
  no fairness for updates.
* Controller: an operation that has been called goes on, the serial thread is
  scheduled, and the line delivers or fails.  Without that Stop waits for a
  blocking read, as it does in the code.  Nothing is assumed of calls.
* Sensor service: the tasks are scheduled by FreeRTOS, ten seconds of silence pass, and a
  reset notice is read while the driver is serviced.  Nothing is assumed of the
  hub or of calls of Start and Stop, and of a task inside a driver call only
  that it goes on while the hub is alive (`Returns`): `txProcess` (`shtp.c`
  157-163) repeats a write for as long as `hal_write` returns 0, and `opProcess`
  (`sh2.c` 643-658) waits for an answer without a limit.  `HandoverIsOver` is a timing assumption:
  the creator of a service task returns from a delay of 10 ms before the new
  task has waited out a reset of one second, two seconds of settling or ten of
  silence.
* Board: tasks are scheduled, time passes, and a repetition that is tried again
  and again is written at last (SF).  A change of the status may fail to be
  written every time; restarts, commands and changes are owed by nobody.
* Recording script: the three kinds of threads are scheduled and waits with a
  timeout end.  The database may fail at any statement, receivers and the line at
  any read.

## 4. The proofs

Every theorem holds for all values of the constants; some state properties no
run repeats, which follow from the invariants shown here.  Type correctness comes
first, then an inductive invariant that names what the program counter promises:

* `DatabaseManagerProofs`: settled, batch and queue, in this order, are what was
  enqueued, and the cursor of `WriteBatch` splits the batch; from this order,
  empty batches at the swap, the flush at Stop (the stop flag is seen with the
  lock held, after the queue) and the refinement, one step per action.  The queued
  counters and the producers that have released the mutex without counting make
  up what was accepted; as long as no write has failed, the written counters make
  up the committed rows and the part of the batch the open transaction has
  inserted.  Both rest on what counting does to a sequence that grows by one
  element or by another sequence.
* `IMUManagerProofs`: the stamps of the fix in the call, of the fix being copied
  and of the stored fix increase in this order; ready readings are unused ones;
  the last EKF time is not ahead of the sensor clock unless the board restarted.
  For exact delivery (`Exact`): while nothing has raced, at most one of the two
  threads is at work; the stored fix is whole and the newest but for the fields
  the update has still to write, the copy likewise for the fields still to be
  copied; a fix has been sent exactly if the flag says so, except between the call
  and the setting of the flag.
* `SerialComServiceProofs`: the thread exists exactly between Start and the join;
  `GpsManagerProofs` and `RadarPositionNavigationControllerProofs` first show that
  each of their behaviours is one of the service, and inherit its invariants.
  Exact delivery rests on what the poller's stage says about the mailbox; the
  controller's theorems on the filter being off whenever the main thread
  touches it.
* `IMUGPSFusionKFProofs`: a window is the tail of the residual history, by
  lemmas on the ring index.  The noise is that of its window because the counter
  agrees with the history (`Rhythm`): of the pushes into a full window it counts
  those since the last update, so that their number is a multiple of the period
  and the counter.
* `Sh2ServiceProofs`: the four flags of the service and recovery tasks say where
  the tasks are, with the exceptions the order of their assignments leaves: a
  service task that has given up its flags and is about to request the recovery,
  a recovery task that has given up its own before it decides on the restart.
  While no Start has overlapped a task of the run before, the owner is inside the
  driver only when nobody else is alive, the two others never meet except in
  the hand-over, and a started service keeps one of them; so somebody serves, the
  driver has one user, and the queue outlives them.  The one user makes
  configuring exact (`Configuring`): until its last stage the flag is off, and
  each stage finds the sensors of the stages before, unless the hub or a noticed
  reset has spoilt them.  `Reporting`: from the reopening of the driver until the
  first sensor is on, or the attempt has failed, a recovery shows no HEALTHY, since
  no other user of the driver is there to report it and the hub, with no sensor
  enabled, delivers nothing that would.  The constants may have any values.
* `BoardProofs`, status reports: a status that is neither on its way nor excused is
  that of the host.  The argument is an order of times: what the host has is not
  newer than the change under way, and a repetition that was timed after the
  change carries its status, because the change is stored before its frame is
  written and the overtaking repetition is excused.
* `BoardProofs`, packet reader: each byte on the line knows its frame and its place
  there, or is of no frame, whatever damage does.  Of a message that has agreed
  with one frame so far, type and length are those of that frame (`LinkKinds`); a
  type byte the host knows by another name has another length, so a message that
  is accepted either is of the frame's kind or holds bytes of more than one.
  Without damage the reader stands at a beginning of the only frame on the line,
  or before an empty line, after every ReadExact (`LinkWhole`), with one frame
  unaccepted at most.  Each frame missing, and each message in progress that has
  agreed with a frame so far, is counted once (`AcceptedOnce`), so that no frame is
  accepted twice; type correctness follows.  In step with the frames the reader
  writes no payload past its buffer; damaged, at most one byte (`OverrunBounded`).
* `BoardProofs`, damage: after its one fault the reader either is in step again,
  with what was lost fixed (`InStep`), or out of step in a way that bounds the loss
  (`OutOfStep`): the bytes it will still swallow before it looks for a start byte are
  paid for.  A believed length owes at most 75 bytes, length and checksum, of which
  the damaged frame supplies ten and each later frame, all of it lost, at least
  fourteen; behind what is owed there is no start byte (`Covers`, `NoStart`).  A line
  that is truncated, misses a byte, has a text byte more or an altered one starts
  within this bound (`DamageFits`); so does every failed read (`OutFails`); the
  step of each ReadExact keeps it (`StaysOut`), because a payload byte is no start
  byte when `clean` holds, and a reader that looks for a start byte with a
  whole frame ahead is in step.  When the line is empty and something is still
  owed, 14 (lost - 1) < 65, so that at most five frames are lost; the sixth is the
  last the reader can need.
* `BoardProofs`, recording script: what is in the database, what is in the batch
  and what is in the queue is, in this order, what was put, with the sentinel at
  the one place main has put it (`Recorded`); a writer that closes has passed the
  sentinel or failed, and only threads that main has abandoned can put anything
  behind it (`Waited`).  The receivers are those with a table, GPS1 and GPS2
  (`ReceiversAssumption`).  The refinement of `RecordLog` maps each step.

* `BoardProofs`, checksum: the register of `crc.c` is the remainder for every
  sequence of bytes (`RegisterIsRemainder`).  When k bytes have entered, what the
  division has left of the dividend is the register, as many places up as there
  are bits to come, exclusive or the bytes to come, which no subtraction has
  reached (`Low`).  One bit shifted out is one coefficient removed (`OneBit`), eight
  of them a byte (`OneByte`).  What a recursive function computes is an induction
  over data; it is done here without an operator as parameter: a function with
  the equation exists (`Iterates`), so that CHOOSE gives one, and a fact that fails
  for some index fails for a least one (`LeastIs`).
* `BoardProofs`, commands: what `process_rx_buffer` hands on is the byte behind a
  start byte, the id and the length of a command, with a checksum that agrees
  (`HeardIsChecked`); the packet of any command at the beginning of a read is handed
  on (`LeadingHeard`).  Eight shifts make each bit of the register an exclusive or of
  at most four bits of the one before (`RolledBits`); so they are linear
  (`RolledXor`) and can be undone (`RolledBack`), and one bit of a command changes two
  bits of the checksum at least (`OneBitRolls`).  Two different packets thus differ
  in three bits or more, and in more than one byte: an altered byte, two flipped
  bits or a lost byte leave no packet, of whichever command (`DamageUnheard`).  A byte
  inserted is shown for the reset command and the byte 46 the reads of `Board`
  hold.  `CommandsHeard` and `ChecksumDivides` put this together for the run's reads.

Only model-checked: all liveness (out of the prover's reach), and the three runs
that find a violation.  Every safety property of a passing run is a theorem.

## 5. Where code and documents disagree

* `sent_flag`: a fix stored during the EKF call is marked as sent
  (`IMUManager.cpp` 113) and never used.
* `prior_covariance`: an IMU-only step returns the prior covariance where the
  header promises the posterior (`IMUGPSFusionKF.hpp` 51).
* `status_heard`: board and host number status and rotation rate the other way
  round, so status packets, and rotation rates, are dropped.  The values of the
  statuses differ as well: the board's 2 is HEALTHY, the host's IMU_UNAVAILABLE.
  `Board` shows what becomes of statuses with the type byte the host expects.

Smaller ones, seen while modelling and not run: the depth statistic of the
logger is that of the last enqueue; its written counters keep
the rows of a transaction that was rolled back; a message or a fix may
be torn when store and copy overlap; a fix may be sent twice when the flag is
cleared between copy and mark; a service that was stopped reads a closed port
when started again; Stop waits for a line that is silent; IsRunning stays true
while the filter is disabled after a bad percentile; a hub reset noticed inside
`configure_sensors` is covered up by its last line and costs the sensors enabled
before it; a failing `sh2_setCalConfig` changes no status; Stop of the sensor
service may return while a task is between two of its flags.

With a hub that hangs the driver of the board need not return.  `hal_write`
(`sh2service.c` 239-242) returns 0 when the hub does not acknowledge, and
`txProcess` (`shtp.c` 157-163) then writes again, for ever; `sh2_setFrs` (833),
`sh2_setCalConfig` (569) and `sh2_saveDcdNow` (908) also wait for an answer without
a limit (`sh2.c` 643-658), and `sh2_devReset` (609, 850) and the enabling of sensors
(550) write until the hub acknowledges.  The task watchdog only prints, since
`CONFIG_ESP_TASK_WDT_PANIC` is not set.  So neither soft reset, recovery nor
restart is sure to follow a hang, Stop may wait for the task, a Start at boot
without a hub does not come back, and a HEALTHY reported by an acceleration just
before, while the sensors are being enabled, is repeated for ever.  The writes have no
error either, so that the two branches of `configure_sensors` that report
SENSOR_INITIALIZATION_ERROR are not reached.

On the line between board and host: the checksum of a command is taken from the
start of the read (`serial.c` 73), so that a command behind other bytes, or a
second one in the same read, is refused; a command that two reads share is lost;
the buffer is processed once for each of its bytes (105), so that a command other
than reset is handed on as often.  After a restart the host refuses
the new statuses until the clock of the board passes the last time of the boot
before; a board whose start has failed meanwhile, and which repeats nothing, goes
on being shown as it was.
The host's initial status byte, 2, is HEALTHY on the board: a first HEALTHY is not
a change and its time is not kept.  The bench script `serialTest.py` looks for
frames that begin with 0xFF (11), the board's begin with 0xA5 (`serial.c` 11).
The reader admits a length of 73 (`IMUSerialPortReader.cpp` 62), but its buffer of
75 bytes (47) has room for 72 behind the header of three (66): such a length, which
only damage produces, writes one byte past the end.  The frames of the board are
shorter (`OverrunIsOneByte`).

In the recording script: a GPS thread ends without a word when the queue is full
(`test.py` 448) and takes the other receiver with it on a serial error (460), and
main, which never looks at the stop event, goes on without them; with fewer than
two receivers the exception (497) leaves the writer thread, and so the program,
running; rows of a third receiver are counted but not stored (188-241, 387, 395, 503-505);
a second interrupt inside the finally block (577-583) ends main at once, and if the
sentinel has not been put the program waits for its writer for ever;
when the deadline passes with an empty batch it is not renewed, and the writer
polls the queue without a pause until the next measurement.

In `main.cpp`: `keepRunning` is never cleared, so that nothing typed stops the
program (45-46); GpsManager has no destructor and main never calls its Stop, so
that an exception of StartAndConfigureRadarPNT (43), which comes after gps.Start
(41), destroys a joinable thread and terminates the process, while the callback
of the GPS thread refers to a controller that is destroyed before it.

## 6. Plan

Modelled first was what loses or mixes up data: logger, hand-over of fixes,
serial service, GPS, controller, windows, sensor service, line; then the command
receiver, the status reports, the checksum and the recording script.  What is
left, in order:

1. Damage twice: how many frames two faults cost, for which the model has the
   bound `MaxFaults` already.
2. The counts of accurate events in `Sh2Service`, when they come to influence
   something another part sees; when the calibration is saved is left open now.

## 7. Not modelled

* Floating point: matrix arithmetic, magnetic model, coordinate conversion.
* Parsing of configuration, of NMEA sentences and of the script's lines beyond
  accepted or ignored; path syntax, baud rates, pins, the I2C transport.
* SQLite itself: statements and transactions succeed or fail.
* `main.cpp`: it constructs the modelled parts in a line and waits in a loop that
  does not end; what follows the loop is never reached, and what its order
  implies is in section 5.
* `nmea_multicast_app`: one callback of a copy of the serial service hands each
  valid sentence to one UDP send; it keeps no state between sentences.
* The contents of the board's event queue and the events it drops: each event is
  sent as it is and none is owed to the host.  The counts that lead to the saving
  of calibration data touch nothing another part sees; the saving itself is a
  driver call of `Sh2Service`.
* The protocol of the vendored SH-2 driver, of which only its callbacks appear and
  how its calls return or do not; a byte written past the reader's buffer;
  the plotting scripts; the bench script that prints frames.
