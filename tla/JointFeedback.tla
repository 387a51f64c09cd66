---------------------------- MODULE JointFeedback ----------------------------
(***************************************************************************)
(* The way of a joint's measured position up to the controller: driver     *)
(* telemetry, the firmware's /joint_fb, RealSystem's callback and read(),  *)
(* MegadogController::update.                                              *)
(*                                                                         *)
(* A position is abstracted to the age of its sample, in ticks, at the     *)
(* moment it is used; NoData stands for what is not there, NaN included.   *)
(* The firmware's loop, the ROS executor that runs the callback and the    *)
(* controller manager are three threads.                                   *)
(***************************************************************************)
EXTENDS Integers, FiniteSets

CONSTANTS
  Joint,
  TelemetryTimeout,  \* ACTUATOR_TELEMETRY_TIMEOUT_MS
  TopicTimeout,      \* kJointFbTimeout
  FbLatency,           \* a message that is older than this is lost
  InFlight           \* messages on their way at a time (a bound for TLC)

ASSUME FeedbackAssumption ==
  /\ TelemetryTimeout \in Nat \ {0} /\ TopicTimeout \in Nat \ {0}
  /\ FbLatency \in Nat /\ InFlight \in Nat \ {0}

VARIABLES
  telemetryAge,  \* now - g_last_telemetry_ms, NoData before the first frame
  jointOk,       \* g_joint_ok
  fbChannel,       \* /joint_fb messages on their way
  latest,        \* latest_joint_fb_, of the joints in its valid_mask
  topicAge,      \* now - latest_joint_fb_time_, saturated at the timeout
  hasFb,         \* has_joint_fb_
  cycle,         \* the controller manager calls read(), then update()
  position,      \* position_state_, with the sample's age at that read()
  effort         \* per joint, what its effort was computed from

fbVars == <<telemetryAge, jointOk, fbChannel, latest, topicAge, hasFb, cycle, position, effort>>

NoData == -1
MaxSample == TelemetryTimeout - 1 + FbLatency + TopicTimeout - 1

\* The samples of a message, or of the latest one, `age` ticks after it was
\* composed.
Samples(age) == [Joint -> NoData..TelemetryTimeout - 1 + age]
Message == UNION {[samples : Samples(age), age : {age}] : age \in 0..FbLatency}

FbTypeOK ==
  /\ telemetryAge \in [Joint -> NoData..TelemetryTimeout]
  /\ jointOk \subseteq Joint
  /\ fbChannel \subseteq Message
  /\ latest \in Samples(FbLatency + topicAge)
  /\ topicAge \in 0..TopicTimeout /\ hasFb \in BOOLEAN
  /\ cycle \in {"read", "update"}
  /\ position \in [Joint -> Int]
  /\ effort \in [Joint -> {"none", "measured", "fake"}]

\* Boot and on_configure.
FbInit ==
  /\ jointOk \in SUBSET Joint
  /\ telemetryAge \in [Joint -> {NoData, 0}]
  /\ \A j \in jointOk : telemetryAge[j] # NoData
  /\ fbChannel = {}
  /\ latest = [j \in Joint |-> NoData] /\ topicAge = TopicTimeout /\ hasFb = FALSE
  /\ cycle = "read"
  /\ position = [j \in Joint |-> NoData]
  /\ effort = [j \in Joint |-> "none"]

-----------------------------------------------------------------------------
(* The firmware.                                                           *)

Telemetry(j) ==
  /\ telemetryAge' = [telemetryAge EXCEPT ![j] = 0]
  /\ UNCHANGED <<jointOk, fbChannel, latest, topicAge, hasFb, cycle, position, effort>>

Latch(j) ==
  /\ jointOk' = jointOk \ {j}
  /\ UNCHANGED <<telemetryAge, fbChannel, latest, topicAge, hasFb, cycle, position, effort>>

\* Actuator_GetMeasured.
Valid ==
  {j \in jointOk : telemetryAge[j] # NoData /\ telemetryAge[j] < TelemetryTimeout}

PublishJointFb ==
  /\ Cardinality(fbChannel) < InFlight
  /\ LET samples == [j \in Joint |-> IF j \in Valid THEN telemetryAge[j] ELSE NoData]
     IN  fbChannel' = fbChannel \cup {[samples |-> samples, age |-> 0]}
  /\ UNCHANGED <<telemetryAge, jointOk, latest, topicAge, hasFb, cycle, position, effort>>

-----------------------------------------------------------------------------
(* RealSystem.                                                             *)

\* on_configure, between two cycles.
Configure ==
  /\ cycle = "read"
  /\ position' = [j \in Joint |-> NoData]
  /\ latest' = [j \in Joint |-> NoData] /\ topicAge' = TopicTimeout /\ hasFb' = FALSE
  /\ UNCHANGED <<telemetryAge, jointOk, fbChannel, cycle, effort>>

JointFbCallback(msg) ==
  /\ latest' = msg.samples /\ topicAge' = 0 /\ hasFb' = TRUE
  /\ fbChannel' = fbChannel \ {msg}
  /\ UNCHANGED <<telemetryAge, jointOk, cycle, position, effort>>

GotFbEverBug == hasFb
GotFb == hasFb /\ topicAge < TopicTimeout

Read ==
  /\ cycle = "read" /\ cycle' = "update"
  /\ position' = IF GotFb THEN latest ELSE [j \in Joint |-> NoData]
  /\ UNCHANGED <<telemetryAge, jointOk, fbChannel, latest, topicAge, hasFb, effort>>

\* MegadogController::update: in HOME no effort is computed; out of it the
\* stand-up ramp and the WBC take every joint, a NaN as zero.
Update(driving) ==
  /\ cycle = "update" /\ cycle' = "read"
  /\ effort' = [j \in Joint |-> IF ~driving THEN "none"
                                ELSE IF position[j] = NoData THEN "fake" ELSE "measured"]
  /\ UNCHANGED <<telemetryAge, jointOk, fbChannel, latest, topicAge, hasFb, position>>

-----------------------------------------------------------------------------
(* Time and the transport. A cycle of the controller is below a tick.      *)

OlderSample(age) == IF age = NoData THEN NoData ELSE age + 1
OlderMessage(msg) ==
  [samples |-> [j \in Joint |-> OlderSample(msg.samples[j])], age |-> msg.age + 1]

Tick ==
  /\ cycle = "read"
  /\ telemetryAge' = [j \in Joint |-> IF telemetryAge[j] = TelemetryTimeout
                                        THEN TelemetryTimeout ELSE OlderSample(telemetryAge[j])]
  /\ fbChannel' = {OlderMessage(msg) : msg \in {m \in fbChannel : m.age < FbLatency}}
  /\ IF topicAge < TopicTimeout
       THEN topicAge' = topicAge + 1 /\ latest' = [j \in Joint |-> OlderSample(latest[j])]
       ELSE UNCHANGED <<topicAge, latest>>
  /\ UNCHANGED <<jointOk, hasFb, cycle, position, effort>>

LoseFb(msg) ==
  /\ fbChannel' = fbChannel \ {msg}
  /\ UNCHANGED <<telemetryAge, jointOk, latest, topicAge, hasFb, cycle, position, effort>>

FbNext ==
  \/ \E j \in Joint : Telemetry(j) \/ Latch(j)
  \/ PublishJointFb
  \/ \E msg \in fbChannel : JointFbCallback(msg) \/ LoseFb(msg)
  \/ Configure \/ Read
  \/ \E driving \in BOOLEAN : Update(driving)
  \/ Tick

FbSpec == FbInit /\ [][FbNext]_fbVars

-----------------------------------------------------------------------------
(* Properties.                                                             *)

\* The two timeouts compose: whatever was lost or late on the way, a position
\* the controller gets was sampled less than their sum plus the latency ago
\* (actuator_if.c:689-690, real_system.cpp:182).
StalenessIsBounded ==
  \A j \in Joint : position[j] <= MaxSample

\* A joint without valid feedback is not driven as if it were at zero
\* (real_system.cpp:132-134).
NoFakeFeedback == \A j \in Joint : effort[j] # "fake"
=============================================================================
