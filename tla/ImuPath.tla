-------------------------------- MODULE ImuPath --------------------------------
(***************************************************************************)
(* From the sensor to the controller: the firmware polls the MPU6050 and   *)
(* re-initialises it after a few errors (main.c), the host calibrates a    *)
(* filter on it while the robot stands still (imu_kalman_filter), and the  *)
(* controller takes its attitude for fresh for a while                     *)
(* (MegadogController.cpp). Nothing is acknowledged on the way: a message  *)
(* can be lost, and a loop that is blocked takes no sample.                *)
(*                                                                         *)
(* One tick is the period of the sensor. The arithmetic of the filter is   *)
(* left out; what is kept is which samples it uses.                        *)
(***************************************************************************)
EXTENDS Naturals, Sequences

CONSTANTS
  MaxErrors,    \* IMU_MAX_CONSECUTIVE_READ_ERRORS
  RetryPeriod,  \* IMU_RETRY_PERIOD_MS, in ticks
  Samples,      \* calibration_samples
  MaxGap,       \* maximum_dt, in ticks
  Latency,      \* a message arrives within this many ticks
  FreshFor      \* how long the controller takes an attitude for fresh

ASSUME ImuAssumption ==
  {MaxErrors, RetryPeriod, Samples, MaxGap, Latency, FreshFor} \subseteq Nat \ {0}

VARIABLES
  imuReady,    \* imu_ready
  errors,      \* imu_consecutive_read_errors
  sinceRetry,  \* now - last_imu_retry_ms, up to the period
  sampled,     \* this tick's turn of the main loop is over
  sensor,      \* the sensor works or fails
  robot,       \* the robot stands still or moves
  run, worst,  \* for how long it moves, and the longest since the last message
  wire,        \* messages under way, oldest first
  haveStamp,   \* have_compact_stamp_, have_last_timestamp_
  lastAge,     \* now - last_compact_stamp_ms_, saturated
  count,       \* calibration_count_
  calibrated,  \* calibrated_
  blind,       \* the longest motion within the window of the calibration
  hasData,     \* latest_real_imu_state_.has_data
  imuAge,      \* the age of that state, up to FreshFor
  sampleAge,   \* the age of the sample it comes from, saturated
  calm         \* from now on nothing disturbs the path

mcuVars == <<imuReady, errors, sinceRetry, sampled, wire>>
bodyVars == <<sensor, robot, run, worst, calm>>
filterVars == <<haveStamp, lastAge, count, calibrated, blind>>
stateVars == <<hasData, imuAge, sampleAge>>
vars == <<mcuVars, bodyVars, filterVars, stateVars>>

MaxAge == MaxGap + Latency + 1
MaxSampleAge == FreshFor + Latency + 1
AtMost(bound, n) == IF n > bound THEN bound ELSE n
Longer(a, b) == IF a > b THEN a ELSE b

Messages == [age : 0 .. Latency, status : {"ok", "error"}, robot : {"still", "moves"},
             worst : 0 .. MaxGap]

TypeOK ==
  /\ imuReady \in BOOLEAN /\ errors \in 0 .. MaxErrors
  /\ imuReady => errors < MaxErrors
  /\ sinceRetry \in 0 .. RetryPeriod
  /\ sampled \in BOOLEAN /\ calm \in BOOLEAN
  /\ sensor \in {"works", "fails"} /\ robot \in {"still", "moves"}
  /\ run \in 0 .. MaxGap /\ worst \in 0 .. MaxGap
  /\ wire \in Seq(Messages)
  /\ haveStamp \in BOOLEAN /\ lastAge \in 0 .. MaxAge
  /\ count \in 0 .. Samples /\ calibrated \in BOOLEAN
  /\ calibrated <=> count = Samples
  /\ blind \in 0 .. MaxGap
  /\ hasData \in BOOLEAN
  /\ imuAge \in 0 .. FreshFor /\ sampleAge \in 0 .. MaxSampleAge

\* The first MPU6050_Init may have failed.
Init ==
  /\ imuReady \in BOOLEAN /\ errors = 0 /\ sinceRetry = 0 /\ sampled = FALSE
  /\ sensor = (IF imuReady THEN "works" ELSE "fails")
  /\ robot = "still" /\ run = 0 /\ worst = 0 /\ calm = FALSE
  /\ wire = <<>>
  /\ haveStamp = FALSE /\ lastAge = MaxAge /\ count = 0 /\ calibrated = FALSE
  /\ blind = 0
  /\ hasData = FALSE /\ imuAge = FreshFor /\ sampleAge = MaxSampleAge

-----------------------------------------------------------------------------
(* The IMU part of the main loop.                                          *)

\* MicroRosBridge_PublishImuRaw: best effort, and nothing without a session.
Publish(status) ==
  \/ /\ wire' = Append(wire, [age |-> 0, status |-> status, robot |-> robot,
                              worst |-> worst])
     /\ worst' = run
  \/ ~calm /\ UNCHANGED <<wire, worst>>

Turn == ~sampled /\ sampled' = TRUE

ReadOk ==
  /\ imuReady /\ sensor = "works"
  /\ Turn
  /\ errors' = 0
  /\ Publish("ok")
  /\ UNCHANGED <<imuReady, sinceRetry, sensor, robot, run, calm>>

Retry ==
  /\ ~imuReady /\ sinceRetry = RetryPeriod
  /\ Turn
  /\ sinceRetry' = 0 /\ errors' = 0
  /\ imuReady' = (sensor = "works")
  /\ IF sensor = "works" THEN UNCHANGED <<wire, worst>> ELSE Publish("error")
  /\ UNCHANGED <<sensor, robot, run, calm>>

ReadFails ==
  /\ imuReady /\ sensor = "fails"
  /\ Turn
  /\ errors' = errors + 1
  /\ Publish("error")
  /\ IF errors' >= MaxErrors THEN imuReady' = FALSE /\ sinceRetry' = 0
                             ELSE UNCHANGED <<imuReady, sinceRetry>>
  /\ UNCHANGED <<sensor, robot, run, calm>>

\* No retry is due, or the loop is blocked in the bridge for this tick.
NoTurn ==
  /\ (~imuReady /\ sinceRetry < RetryPeriod) \/ ~calm
  /\ Turn
  /\ UNCHANGED <<imuReady, errors, sinceRetry, wire, bodyVars>>

Poll ==
  /\ ReadOk \/ ReadFails \/ Retry \/ NoTurn
  /\ UNCHANGED <<filterVars, stateVars>>

-----------------------------------------------------------------------------
(* The filter node and the subscription of the controller.                 *)

Restart == count' = 0 /\ calibrated' = FALSE /\ blind' = 0

\* An estimate is published and arrives at the controller.
Estimate(m) == hasData' = TRUE /\ imuAge' = 0 /\ sampleAge' = m.age

\* ImuKalman::reset, on any message that is not OK.
ErrorReceived(m) ==
  /\ m.status = "error"
  /\ haveStamp' = FALSE /\ Restart
  /\ UNCHANGED <<lastAge, stateVars>>

\* Two samples too far apart, or with the wrap of the clock between them.
GapTooLong(m) == haveStamp /\ lastAge - m.age > MaxGap

\* Fault: a gap is only skipped.
GapBug(m) ==
  /\ GapTooLong(m)
  /\ UNCHANGED <<count, calibrated, blind, stateVars>>
Gap(m) ==
  /\ GapTooLong(m)
  /\ IF calibrated THEN UNCHANGED <<count, calibrated, blind>> ELSE Restart
  /\ UNCHANGED stateVars

\* The sample that completes the calibration is an estimate already.
Calibrate(m) ==
  /\ ~GapTooLong(m) /\ ~calibrated
  /\ \/ m.robot = "moves" /\ Restart /\ UNCHANGED stateVars
     \/ /\ m.robot = "still"
        /\ count' = count + 1
        /\ calibrated' = (count' = Samples)
        /\ blind' = IF count = 0 THEN 0 ELSE Longer(blind, m.worst)
        /\ IF calibrated' THEN Estimate(m) ELSE UNCHANGED stateVars

Track(m) ==
  /\ ~GapTooLong(m) /\ calibrated
  /\ Estimate(m)
  /\ UNCHANGED <<count, calibrated, blind>>

\* Fault: a rejected sample leaves the last time as it was.
SampleReceivedBug(m) ==
  /\ m.status = "ok"
  /\ haveStamp' = TRUE /\ lastAge' = IF GapTooLong(m) THEN lastAge ELSE m.age
  /\ Gap(m) \/ Calibrate(m) \/ Track(m)
SampleReceived(m) ==
  /\ m.status = "ok"
  /\ haveStamp' = TRUE /\ lastAge' = m.age
  /\ Gap(m) \/ Calibrate(m) \/ Track(m)

Receive ==
  /\ wire # <<>>
  /\ ErrorReceived(Head(wire)) \/ SampleReceived(Head(wire))
  /\ wire' = Tail(wire)
  /\ UNCHANGED <<imuReady, errors, sinceRetry, sampled, bodyVars>>

-----------------------------------------------------------------------------
(* Time, the sensor and the robot.                                         *)

\* The robot starts and stops; the sensor fails and recovers.
Tick ==
  /\ sampled /\ sampled' = FALSE
  /\ \A i \in DOMAIN wire : wire[i].age < Latency
  /\ wire' = [i \in DOMAIN wire |-> [wire[i] EXCEPT !.age = @ + 1]]
  /\ sinceRetry' = AtMost(RetryPeriod, sinceRetry + 1)
  /\ lastAge' = AtMost(MaxAge, lastAge + 1)
  /\ imuAge' = AtMost(FreshFor, imuAge + 1)
  /\ sampleAge' = AtMost(MaxSampleAge, sampleAge + 1)
  /\ robot' \in IF calm THEN {"still"} ELSE {"still", "moves"}
  /\ sensor' \in IF calm THEN {"works"} ELSE {"works", "fails"}
  /\ run' = IF robot' = "moves" THEN AtMost(MaxGap, run + 1) ELSE 0
  /\ worst' = Longer(worst, run')
  /\ UNCHANGED <<imuReady, errors, haveStamp, count, calibrated, blind, hasData, calm>>

\* Tick_GetMs wraps after 30 bits: every difference across the wrap is huge.
StampsJump ==
  /\ ~calm /\ wire = <<>> /\ haveStamp
  /\ lastAge' = MaxAge /\ sinceRetry' = RetryPeriod
  /\ UNCHANGED <<imuReady, errors, sampled, wire, bodyVars>>
  /\ UNCHANGED <<haveStamp, count, calibrated, blind, stateVars>>

BecomeCalm ==
  /\ ~calm /\ calm' = TRUE
  /\ UNCHANGED <<mcuVars, sensor, robot, run, worst, filterVars, stateVars>>

Next == Poll \/ Receive \/ Tick \/ StampsJump \/ BecomeCalm

\* Every tick comes to its end.
Fairness == WF_vars(Poll) /\ WF_vars(Receive) /\ WF_vars(Tick)

Spec == Init /\ [][Next]_vars /\ Fairness

-----------------------------------------------------------------------------
(* Properties.                                                             *)

\* MegadogController.cpp:860. Fault: an attitude is good for ever.
FreshBug == hasData
Fresh == hasData /\ imuAge < FreshFor

\* The bias is never taken over a stretch of motion: what the lost samples
\* between two counted ones can hide is shorter than the largest gap
\* (imu_kalman.cpp:268-281, 287-293).
BiasIsOfStillness == count > 0 => blind < MaxGap

\* A fresh attitude comes from a sample no older than the freshness and the
\* latency together, whatever was lost or rejected since.
AttitudeIsRecent == Fresh => sampleAge < FreshFor + Latency

\* When sensor, robot and transport are calm, the controller gets a fresh
\* attitude and keeps it: the sensor is retried, the calibration completes.
ImuComesBack == <>calm => <>[]Fresh
=============================================================================
