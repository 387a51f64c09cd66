# TLA+ specifications of the megaDog robot

The repository holds the software of a four-legged robot: the firmware of an
STM32H7 that relays joint commands to twelve motor drivers, and the ROS 2
packages of the host that compute those commands. These
modules specify the part that decides *whether a motor may push*: command
streams, timeouts, fault latches, sessions, the finite-state machine, and the
hand-over between the optimiser's thread and the control thread. Numbers
(angles, torques, the optimisation) are abstracted to what these decisions tell
apart.

Paths below are relative to the repository; `fw/` is `firmware/stm32h7/`.

## 1. The system

```
 gui --/megadog/cmd--> MegadogController --calls--> MegadogWbcRuntime
                          |  ^   (control thread)        |  MPC thread
              command     |  | state interfaces          '- OCS2 MPC/MRT
              interfaces  v  |
                       RealSystem  <--/imu/data-- imu_kalman_filter
             /joint_cmd |   ^ /joint_fb, /joint_diag      ^ /imu/raw
   - - - - - - - - - - -v- -|- - - - micro-ROS, UART - - -|- - - - -
                     microros_bridge --> actuator_if --> CAN 1, CAN 2
                       fw/main.c superloop                12 drivers
```

| Component | State it keeps | Operations | What makes it correct |
|---|---|---|---|
| Topology (`fw/app/inc/motor_topology.h`) | tables | joint to bus and id, and back | decoding inverts encoding; everybody uses the tables |
| Actuator interface (`fw/app/src/actuator_if.c`) | ok, fault and pending masks, telemetry ages, what each joint is required to answer | `Actuator_SetTarget`, `_Disable`, `_OnBabyAlpha2Frame`, `_ServiceSafety`, `_ReenableAll`, `_GetMeasured`, `_Init` | no force on old telemetry, none to an offline joint; a latched joint is released; no joint is latched without a fault |
| Main loop (`fw/main.c`) | timestamps, the watchdog's latch | one iteration: spin, drain, watchdog, safety, publish, IMU, re-enable | a lost command stream takes all force away, in bounded time, once |
| micro-ROS bridge (`fw/app/src/microros_bridge.c`) | connection state, entities and their flags, command counters, sequence baseline | spin, ping, entity creation and cleanup, command callback, publishers | counters are exact; no force while it blocks; a session is whole or gone |
| micro-ROS transport (`fw/app/src/microros_transport.c`) | a ring of bytes with two indices | interrupt, `Transport_Open`, `_Close`, `_Read`, `_Write` | bytes stay in order, none is lost while there is room; no call waits |
| IMU on the MCU (`fw/main.c`, `fw/app/src/mpu6050.c`) | ready flag, error count, retry time | read, retry | a working sensor is read, a failed one reported |
| IMU filter (`src/imu_kalman_filter`) | last time, calibration, filters | callback, reset | the bias is of a robot at rest; old samples give no estimates |
| Hardware interface (`src/main_bot_hardware`) | latest feedback and its time | `on_configure`, `read`, `write`, callbacks | old feedback is never handed on; missing feedback is recognisable |
| Controller (`src/megadog_controller`) | FSM state, clocks, stand-up latch, held effort and blend | life cycle, `/megadog/cmd`, `update` | complete stand-up, zero in HOME, no torque step, clocks the runtime can trust |
| WBC runtime (`src/megadog_wbc`) | reset flag, counts, gait schedule, policy buffer | `update`, `beginNewLocomotionSegment`, MPC thread | no stale or mixed policy; the hold ends |
| OCS2 hand-over (`src/ocs2`, vendored) | policy and reference buffers | `updatePolicy`, `moveToBuffer`, `preSolverRun` | as the runtime assumes it |

What is hard here: the firmware is one thread, but it blocks in the bridge while
its timers run; drivers reset and buses die at any time; the transmit FIFO
rejects frames; the transport to the host loses and delays; the host restarts;
and on the host three threads (controller manager, ROS executor, MPC thread)
share data under a mutex, a `try_lock`, or single atomics. `PROJECT.json` lists
each hazard at its line, with the properties aimed at it.

## 2. Modules

| Module | Models | Uses |
|---|---|---|
| `Topology` | joint, bus and id tables, and the bus choices that bypass them | |
| `Actuator` | the actuator interface after boot; drivers and buses as environment | `Topology` |
| `Boot` | `Actuator_Init`: its handshake with the drivers, frame by frame | `Topology`, `Actuator` |
| `Superloop` | the main loop, bridge and watchdog around it | `Actuator` |
| `Session` | creation, use and cleanup of the bridge's micro-ROS session | `Entities` |
| `Entities` | what the client library asks of its user (abstract) | |
| `RxRing` | the transport's receive ring between interrupt and loop | `ByteQueue` |
| `ByteQueue` | a bounded first-in first-out queue (abstract) | |
| `ImuPath` | the IMU from the sensor to the controller | |
| `CommandStream` | sequence numbers of `/joint_cmd`, host to firmware | |
| `JointFeedback` | joint feedback, driver to controller, across three threads | |
| `WbcRuntime` | control thread, MPC thread and policy hand-over | |
| `Controller` | FSM, stand-up, clocks, hold and blend | |
| `SuperloopProofs` | theorems about `Actuator` and `Superloop` | both, `TLAPS` |
| `BootProofs` | theorems about `Boot` | it, `TLAPS` |
| `HostLinkProofs` | theorems about `JointFeedback` and `CommandStream` | both, `TLAPS` |
| other `*Proofs` | theorems about the module of that name | it and `TLAPS` |

Three abstract specifications are implemented by detailed ones. `ByteQueue` is
what the ring promises, and `RxRing` maps its array and two indices to the
queue (`ImplementsQueue`). `Entities` is the order in which the client library
lets entities be made and finalised, and `Session` follows it whatever fails
(`ImplementsEntities`). `Actuator` plays that role for the loop: it lets its
operations happen in any order; `Superloop` fixes their order and adds blocking
and the watchdog (`LoopImplementsActuator`; its variables include those of
`Actuator`, so the mapping is the identity), which carries every theorem
about `Actuator` over to the loop. `Boot` is linked to `Actuator` too: boot
ends in one of its initial states (`BootLeavesInit`).

A definition whose name ends in `Bug` is a seeded fault: a variant of the
definition that follows it, with which the property named in `PROJECT.json` is
shown to fail.

### Actuator

Sets of joints stand for the bit masks and per-joint flags: `jointOk`
(`g_joint_ok`), `runtimeFault`, `disablePending`, `hasFeedback`,
`feedbackRequired`, `activeRequired`. An age is `Tick_GetMs() - timestamp`,
saturated. A command is the set `hot` of joints it asks for force
(`active_requested`); limits and conversions do not matter to who may push. The
driver variables `enabled`, `force` and `calibrated` are the drivers' own
state, and `reply` is the telemetry frame on its way back. A frame to a bus
that is off leaves no trace; a frame may be rejected if `"txfull"` is among the
`Faults`. One call is one action, as one thread makes them all.

`Faults` says what the environment may do in a run: reject frames, lose a bus,
reset a driver, lose a reply. Separate runs combine those that interact.

`Init` is what `Actuator_Init` leaves: any set of joints that answered.

### Boot

`phase`, `cur`, `other` and `tries` say where `Actuator_Init` is: the round of
DISABLE, then PING, HANDSHAKE and ENABLE of one joint after the other, then
HOME and SETUP_LIMITS, with `keepalive_others` after each joint and exchange. A
frame waits in the FIFO of its bus (`txq`) until the bus takes it; a bus
without power takes none, and a full FIFO turns frames away. Drivers may be as
the last session left them, enabled and with a target, may get their power
late, and may not answer. Time is counted per joint (`unreminded`), in the
waits of the exchanges: a wait takes its timeout, or any part of it if the
answer comes (`Pass`). Its unit is what a live bus needs to drain its FIFO,
about 4 ms.

What the model shows of the code beyond its properties: a joint whose HOME was
not read is not driven any more, but its driver stays enabled, limp, and
without limits; and with the deployed timeouts a joint may wait for its
reminder for up to three seconds in boot (two exchanges of five turns of 300
ms), where the main loop reminds it every 500 ms. No driver loses its power during boot in the model; afterwards
that is `HotPlug` of `Actuator`.

### Superloop

`pc` walks through an iteration: bridge spin (`Connect`, `Disconnect`,
`Command`, `NoCommand`), drain of FIFO 1 and 2, `Watchdog`, `Service`,
`Reenable`. Time passes only while the bridge blocks, at most `SpinBudget` when
connected (ping of 2 x 50 ms) and without bound while a session is created.
`arrived` separates frames in the FIFO from frames on the wire. `late` is the
watchdog's comparison, made with the time sampled after the spin.

### Session

`doing` and `at` are the library call the bridge is in. An agent appears and
disappears between any two calls; an init call succeeds only with an agent that
answers and a free slot, and may fail with one. `handle` is what the static
handles name, `held` what the library holds, `lifecycle` the bridge's flags:
the code is right if these three agree where it matters. A fini call frees its
slot without an agent, as the client library does. The agent keeps the session
while it is there.

### RxRing

The interrupt preempts the reader between any two of its accesses to the ring,
so an iteration of `Transport_Read` is three actions and the handler is one.
The receiver has one data register; a byte that finds it full sets the overrun
flag (`ore`). While the transport is open the interrupt is faster than the
line (at 921600 baud a byte takes 11 microseconds, the handler a few dozen
instructions; no other interrupt is enabled and none is ever masked), so only a
closed transport is overrun.
Closing leaves bytes of the old session in the ring; the next one reads them,
and the framing layer of the client library skips them.

### ImuPath

One tick is the IMU's sampling period. In each the main loop takes at most one
turn (`Poll`): it reads, counts errors, retries, or is blocked in the bridge.
Messages on the `wire` may never have been sent and arrive in order within
`Latency`. The filter keeps which samples it counted; `worst` and `blind` are
history variables that say how long the robot moved between them. `imuAge` is
what the controller looks at, `sampleAge` what it means. `StampsJump` is the
wrap of `Tick_GetMs`: it costs a calibrated filter one sample and restarts a
calibration. `BecomeCalm` starts the time from which nothing disturbs the path.

Error messages may be lost, so a calibration can go on across a sensor that was
re-initialised: what bounds its bias is the gap, not the message.

### CommandStream

`Period` is a control period in which the host writes, or does not. The
transport is in order and loses. `Restart` and `Latency` are assumptions about
the environment: a host needs longer to start again than watchdog, spin and
transport together, and a command does not survive longer than `Latency`. They
are needed: with a faster restart (`Restart` = 2), or with a sequence number of
four values, TLC finds a repeated or reordered command that never was.
The deployed values (256 numbers; 40 periods of watchdog, 20 of spin) satisfy
the assumptions with 68 periods to spare.

### JointFeedback

A position is the age of its sample. `Telemetry`, `Latch` and `PublishJointFb`
belong to the firmware, `JointFbCallback` to the ROS executor, `Read` and
`Update` to the controller manager. The reads and writes under
`joint_fb_mutex_` are the atomic steps. `Fb` marks the names that `CommandStream` has too, as the
proofs about both are in one module.

### WbcRuntime

The only question asked of a datum is whether it belongs to the present
segment. `current` holds the shared data that do, `job` what the running solve
has read, `buffer` and `active` what their policies were solved from; a new
segment empties them. This makes the model finite without a bound on time.
`ctl` and `mpc` are the program counters of the two threads; every access to
something shared is a step of its own. The gait schedule is shared, too: a
solve does not only read it but cuts and tiles it (`GetModeSchedule`), and one
that has an observation of another clock may replace the retiled schedule by a
stance. `cut` remembers that, as nothing retiles it within the segment. `NoSwap` is the `try_lock` that fails,
`SolverFails` the exception that ends the MPC thread.

### Controller

Time counts control periods. The effort is abstracted to where it comes from
(`written`). The runtime's answer is any it can give, so no property here
depends on `WbcRuntime`. `/megadog/cmd` arrives at any point between updates.
The states of the trot family differ in the velocity they ask for, which is
not modelled, so one state stands for all.

## 3. Runs

| Run | Instance | Shows |
|---|---|---|
| `actuator` | 2 joints on one bus, rejected frames, bus-off, driver resets, lost replies; 644 000 states | masks consistent, no force on old telemetry, none to offline joints, a restart latches nothing, no latched joint is forgotten |
| `superloop` | 2 joints on 2 buses, bus-off, lost replies; 181 000 | force and the firmware's belief agree, both ways; the watchdog is complete, in time, and only for a lost stream; no force while reconnecting; force outlives the stream by a bounded time; latched joints end up limp |
| `wbc` | 2 settle advances, as deployed; 136 000 | no policy that mixes segments, except for a schedule cut by an old solve; hold outlasts reset, no step back, the hold ends |
| `controller` | stand-up and blend of 2 periods, time up to 6; 102 000 | complete stand-up, segment clock from zero, no unannounced restart, no step out of a hold |
| `command_stream` | 8 numbers, 10 commands, 2 host processes; 36 000 | counters exact; baselines never cross a restart |
| `joint_feedback` | 2 joints, timeouts of 2, latency 1, one message in flight; 593 000 | age of a position is bounded by the two timeouts and the latency |
| `boot` | 4 joints on 2 buses, a FIFO of 5, 2 tries; 235 000 | boot ends in a state of `Actuator`'s `Init`, starts no force, lets no joint starve |
| `session` | ping interval 3; 152 | the library's rules are kept, nothing leaks, connected means complete; reconnects, notices loss |
| `rx_ring` | 4 slots, 2 byte values, reads of up to 2; 14 500 | the ring is a bounded queue; drops only when full; reads return |
| `imu_path` | 3 errors, retry after 2, 3 samples, gap 3, latency 1, freshness 4; 154 000 | bias of a robot at rest, attitude recent, and it comes back |

Type invariants are proved for all instances (section 5); only `boot` also
checks that of `Boot`, which bounds the FIFOs.

*Bounds.* Two joints are enough for every interaction of the actuator code: its
loops treat joints alike, except for the order in which `ServiceSafety` serves
one bus (two joints of one bus, `actuator`) and for the two buses (joints 0 and
9, `superloop`). These are of the legs LF and RH, where the safety service's
own table is right; what happens on the others is a finding below. Frames are
not rejected in `superloop`: the watchdog does not survive that (section 4).
Timeouts are a few ticks: the code compares ages with them, and all orders of
"before", "at" and "after" occur; ages saturate at or above the largest
comparison. A boot of four joints has on each bus a joint that is calibrated
and one that waits, and a FIFO of five fills up in front of a bus without
power; retries are 2 where the code has 5 and 20, as each repeats the one
before. A session has no bound but the ping interval, which only has to leave
room for spins. Four slots and reads of two let the indices wrap, the ring fill
and a read end on both of its conditions; two byte values tell order and
duplication apart. The IMU's constants keep the order of the deployed ones (10
ms samples, 3 errors, retry after 1 s, 200 samples, gap 0.1 s, freshness 0.2 s)
except that the retry is shorter, and are large enough that a calibration is
interrupted at each of its samples. `MaxSent` is above `SeqRange`, so that
numbers wrap. `MaxTime` leaves room after a stand-up for a blend and a second
segment; commands and life cycle restart the clock as often as they like. The
control periods of `Controller` are uniform and a blend takes at least two; the
code's constants are 3 s and 50 ms, at 200 Hz on the robot and 1 kHz in
simulation.

*Fairness.* `Superloop` assumes that the loop does not stop (no path of it
waits for an event), that frames on a live wire arrive, and that time passes:
strong fairness of the tick, because it is enabled only while the bridge spins.
`WbcRuntime` assumes that the controller is called periodically, that the MPC
thread is scheduled, and strong fairness of the swap, as `updatePolicy` does
not meet the MPC thread's short critical section every single time. `Boot`
assumes that the firmware runs and a live bus drains. `Session` assumes that
the loop runs, and that an init call that is made again and again with an agent
there succeeds sometimes (strong fairness for each entity): nothing but lost
bytes makes it fail then. `RxRing` assumes that a pending interrupt is taken
and that the reader runs in between (strong fairness, because each interrupt
suspends it). `ImuPath` assumes that turns, messages and ticks happen; that the
sensor works and the robot rests is a premise of `ImuComesBack`, not an
assumption.

*Deadlock* is checked except for `WbcRuntime`, where an exception on the control
thread (`threw`) really ends it.

## 4. Where the code and its documentation differ

TLC finds these two violated; `PROJECT.json` quotes the sentences.

| Run | What happens |
|---|---|
| `actuator_misrouted_disable` | `ServiceSafety` derives the bus from `joint < 6`, which `motor_topology.h:21` forbids: the MOTOR_DISABLE of a latched LH or RF joint disables a driver of the other bus that is not latched, and the latched one keeps its last command |
| `rx_ring_overrun` | bytes that arrive while the transport is closed set the receiver's overrun flag; nothing clears it, and once `Transport_Open` enables the interrupt its handler, which looks at RXNE alone, is entered for ever: the call does not return and the loop stands still |

The rest have a configuration of their own, to be run by hand
(`tlc -config <file>.cfg <module>`), and no entry among the runs, because they
share a cause with one above, contradict only the intent of a comment, or are a
choice a maintainer may defend:

| Configuration | What happens |
|---|---|
| `ActuatorBusOffLatch.cfg` | the same `joint < 6` latches joints whose bus is alive when the other bus dies |
| `ActuatorHotPlug.cfg` | a driver that resets while no force is requested, or between two looks at it, is enabled again by the 500 ms re-enable and driven without its limits, against `actuator_if.c:492-495` and firmware `README.md:84` |
| `SuperloopSlowPing.cfg` | after a ping that took 100 ms, a command is judged before the telemetry that waits in the FIFO is drained, and latches a healthy joint |
| `SuperloopTxFull.cfg` | the watchdog's zero-gain frame is not retried when the FIFO is full, and firmware `README.md:83` promises that no force of an old command is kept |
| `WbcRuntimeRanAfterBegin.cfg` | the hold counts solves, but not whether their policy was picked up, so the one that is evaluated next may be older than the reset (`MegadogWbcRuntime.h:152-154`) |
| `WbcRuntimeSawTheSegment.cfg` | the hold may end with a policy solved from an observation made before the segment: after a time jump the MPC thread solves twice before the next observation is stored |
| `WbcRuntimeReturns.cfg` | `getPolicy` (`MegadogWbcRuntime.cpp:609`) is outside the `try` and throws on the control thread if the very first `try_lock` failed |
| `WbcRuntimeSchedule.cfg` | the worker is enabled before the new observation is stored (`MegadogWbcRuntime.cpp:565-575`), so a solve with the old clock's observation deletes the newly tiled gait schedule and leaves a stance in its place (`GaitSchedule.cpp:84-93`); later solves of the segment do not get it back. `ConsistentPolicy` holds with this exception |
| `ControllerHome.cfg` | a control period above 50 ms in HOME writes the last WBC effort (`MegadogController.cpp:834`, against `MegadogController.h:49-50`) |
| `ControllerBlend.cfg` | a pending blend survives HOME and a new stand-up, so the first driven tick starts from an effort of the session before |
| `JointFeedbackFake.cfg` | a joint without feedback is driven as if its position were zero (`MegadogController.cpp:868`) |

## 5. Proofs

All theorems are for every value of the constants that satisfies the modules'
assumptions (any set of joints, any timeouts, any settle count from two on, any
latency); a theorem that needs more names it as a hypothesis. They use the TLA+ standard library's facts and nothing unproved.

*Actuator.* `TypeCorrect` is inductive by itself. `LatchConsistent` and
`NoStaleForce` are proved together as `BookInv`: `SetTarget` keeps a joint
required only if it is fresh, which bounds its telemetry age against the
command's (`KeptAreFresh`), and that a latch clears a joint out of the required
sets needs the masks to agree. `OfflineStaysLimp` and `RestartIsSafe` are
action properties; the first needs that force implies an enabled driver, since
a re-enabled driver would otherwise push again. `LatchedAreOwed` holds even if
frames are rejected, as `ServiceSafety` keeps the bit of a frame that was not
accepted; it assumes that the safety table is right on the joints at hand
(`SafetyTableRight`). `BeliefIsTrue`, the converse of `ForceTracked`, says that
the driver of a joint that is believed active does push; it rests on
`OnlineIsEnabled`: only a joint that is offline, has lost its limits, or sits
on a dead bus is not enabled. `ForceTracked` needs all of these, and that
frames are not rejected. Without these assumptions they are false, as the
findings show.

*Superloop.* `LoopImplementsActuator` maps each step of the loop to a step of
`Actuator` or a stutter. `WatchdogWorks` then follows from `ForceTracked` and
one invariant of the loop (`SpentInv`): once the watchdog has fired, nothing is
believed active until the next command. `ForceDoesNotLast` and
`LimpWhileReconnecting` need two more. `StreamInv` bounds the age of the last
command while the watchdog is armed, through the time the spin may block and
the timestamp taken after it. `OwedInv` says that outside of an iteration no
MOTOR_DISABLE is owed on a live bus: `ForceTracked` lets a driver push that the
firmware wants to disable, so the bound on force also needs that the safety
service, which runs in the iteration of the latch, gets its frame through.
`WatchdogIsJust` follows from `StreamInv`: what the watchdog compares is the
age of the last command.

*WbcRuntime.* `HoldIsLongEnough` explains the constant
`kMpcResetSettleAdvances` = 2: between request and reset, at most the one solve
that was running can be counted, so `HoldInv` keeps `since` at 0, or at 1 with
the MPC thread at the top of its loop. With one settle advance the running
solve's count ends the hold while the flag is still set. `PoliciesAreConsistent`
rests on an order: the control thread publishes gait, targets, observation, and
the MPC thread reads observation, then references (`SharedInv` says how far
each has got). For the schedule this is not enough, since a solve may also
delete it: `Scheduled` and `RetiledOnce` say that once it is retiled it is
there for every solve unless it was cut, which the theorem excepts, as the code
does not prevent it (section 4). `FreshIsKept` needs that whatever is in flight or in the buffer
is at least as new as the active policy.

*JointFeedback.* The type invariant carries the argument: it bounds a sample by
where it is (telemetry below its timeout, plus the message's age, plus the age
of the latest message), and `FeedbackIsRecent` follows at the step where `read`
hands the sample on.

*CommandStream.* That the eight-bit numbers never mislead rests on three facts
about different clocks. `Numbered` ties a number to its age: between a command
and the latest one there are no more numbers than periods have passed, and
everything in flight is of this process, because a host restarts more slowly
than a command gets lost. `Watched` says that a baseline is held only while the
watchdog is armed, so `Baseline` bounds its age by the watchdog's timeout and
the blocked spin. Together they bound the distance of any arriving number to
the baseline by `CmdTimeout + SpinBudget + Latency`, and `TimeoutsFit` keeps
this within half the range (`StampDistance`: then the remainder that the code
computes is the true distance). The order of the channel (`InOrder`) does the
rest: what arrives is ahead of the baseline, so the counters agree with the
history (`DiagnosticsAreExact`), and a baseline is never compared across
processes (`BaselineSurvivesNoRestart`).

*Boot.* The parts of the invariant are proved one after the other. `PlaceInv`
says where the loops can be, `FeedbackInv` that exactly the joints before the
present one are calibrated, `PowerInv` that who answered has power, `QueueInv`
that no DISABLE waits behind another frame. `BootIsLimp` needs `ForceInv`: a
driver with an old target has its DISABLE before it, in the loop or in the
FIFO, and ahead of any ENABLE. That boot ends in a state of `Actuator`'s `Init`
(`BootHandsOver`) is harder, as two things could go wrong. The driver could be
disabled after it has reported its HOME: `EnabledInv` (who reports Active has
no DISABLE waiting). Or its SETUP_LIMITS, whose missing acknowledgement is
ignored, could find the FIFO full: `ProbeInv` says that a HOME is read only
after the probe, the last frame of the FIFO, has left it, and `RoomInv` that
the reminders sent since then are one per other joint of the bus, so that there
is room for one more.

`RemindersAreInTime` adds time. `WaitInv` bounds how long a joint has waited in
each phase by the turns that are over, answered or not, since an answer may
come when the timeout is all but over; it is only inductive if each reminder is
accepted, so `BacklogInv` bounds what is in the FIFO ahead of a joint that has
waited: a turn that took time has drained the buses that are up, and only the
frames of the exchange and of the round can have come since (`AckInv` is what
`ProbeInv` is, for SETUP_LIMITS). The bound is exact: in `Boot.cfg` TLC finds
waits just below it. The theorem assumes `RoundsFit`, a FIFO of two
frames per joint of a bus; the code has 16 for 6 joints. The assumption is
needed in kind: with one frame per joint, where the other theorems hold, TLC
finds a joint that starves (`Boot.cfg` with `TxFifo = 2`). It is not the least
one: with three frames for two joints TLC finds none, while the bound of the
proof counts each frame of a round as if none had been taken meanwhile.

*Controller.* The counts that the properties speak of (`rampTicks`, `trotTicks`)
are history variables, so the invariant ties them to the clocks of the code:
`StandupInv` (periods of the ramp are the clock plus one), `SegmentInv` (periods
of the segment are the distance to its epoch, which lies at the end of a
stand-up that was under way), `CallInv` (the last call was not later than
the present clock, or the runtime has been told), and `EffortInv` (a hold leaves
a blend to be made).

*RxRing.* The type invariant needs what the reader knows between its steps: the
slot it copies is in use, whatever the interrupt does, because the interrupt
never moves the head. The refinement is then a statement about the
sequence between the two indices: a store appends to it, an advance takes its
head, and everything else leaves it (`Occupied`, with the wrap in two cases).

*Session.* One invariant names, for each call the bridge is in, what is held,
flagged and named: a prefix of the entities while creating, the same prefix
cut from above while cleaning up, all or nothing in the loop.

*ImuPath.* `FreshIsRecent` is simple: an estimate is at most `Latency` old when
it arrives. `BiasIsClean` is not: the filter sees samples and their distance,
while motion happens at the sensor. `WireInv` says of each two neighbours on
the wire, of the last message the filter saw and the first one on the wire, and
of the last one sent and now, that a motion which both of them missed is
shorter than the distance between them. The check against the largest gap then
bounds it.

*Only model-checked:* the liveness properties (`LatchedIsServed`, `HoldEnds`,
`CallsReturn`, `BootEnds`, `Reconnects`, `LossIsNoticed`, `ImuComesBack`), as
fairness and ENABLED are out of the proof system's reach. Every safety and
action property of a passing run has a theorem.

## 6. Not modelled

Bit packing and fixed-point conversion, the arithmetic of the Kalman filter,
whole-body control and state estimation mathematics (real numbers, out of TLC's
reach), register-level drivers, the diagnostics topics, the GUI, the robot
description, and the vendored packages (OCS2 with CppAD, except the policy
hand-over; qpOASES, legged_control, micro-ROS). The vendored packages are
nearly all of the repository's lines, so the lines the modules map are about
one in a hundred of the whole, but most of the control logic that this
project's authors wrote. `PROJECT.json` gives a reason for each component, and
a note for each hazard that no property covers.

## 7. Plan

In order of weight for the robot's safety.

Done: `Topology` and `Actuator`; `Superloop`; `WbcRuntime`; `Controller`;
`CommandStream`; `JointFeedback`; `Boot`; `Session` with `Entities`; `RxRing`
with `ByteQueue`; `ImuPath`; the proofs of section 5.

Open:

1. One abstract driver (off, limp, enabled, with or without limits) that both
   `Boot` and `Actuator` refine, so that boot and loop are one behaviour.
2. `Clock`: the wrap of `Tick_GetMs` under the timeouts of the loop and of the
   actuator interface, as `ImuPath` has it for the IMU.
3. `Controller` composed with `WbcRuntime`: what happens to the robot when the
   solver's thread has died, and the base reference latched from a placeholder.
