------------------------------ MODULE Actuator ------------------------------
(***************************************************************************)
(* The actuator interface of the STM32H7 firmware (app/src/actuator_if.c)  *)
(* after Actuator_Init: it turns joint commands into CAN frames for the    *)
(* motor drivers, tracks their telemetry, and latches a joint offline when *)
(* its driver falls silent, reports Disabled, or loses its bus.            *)
(*                                                                         *)
(* Angles, gains and torques are abstracted to what the safety logic tells *)
(* apart: whether a command asks a joint for force (active_requested).     *)
(* Time is counted in ticks; an age is the unsigned difference             *)
(* Tick_GetMs() - timestamp, saturated at MaxAge.                          *)
(*                                                                         *)
(* The drivers and the CAN controllers are the environment: `enabled`,     *)
(* `force` and `calibrated` are driver state, `reply` holds the telemetry  *)
(* frame a driver has sent and main() has not drained yet.                 *)
(***************************************************************************)
EXTENDS Topology, FiniteSets

CONSTANTS
  Joint,             \* the joints of the instance
  TelemetryTimeout,  \* ACTUATOR_TELEMETRY_TIMEOUT_MS, in ticks
  MaxAge,            \* ages saturate here
  Faults             \* what the environment may do

ASSUME JointAssumption == Joint \subseteq JointIndex
ASSUME TimeAssumption ==
  /\ TelemetryTimeout \in Nat \ {0}
  /\ MaxAge \in Nat
  /\ MaxAge >= TelemetryTimeout
ASSUME FaultsAssumption == Faults \subseteq {"txfull", "busoff", "hotplug", "rxloss"}

VARIABLES
  jointOk,           \* g_joint_ok
  runtimeFault,      \* g_runtime_fault_mask
  disablePending,    \* g_disable_pending_mask
  hasFeedback,       \* g_has_feedback
  telemetryAge,      \* now - g_last_telemetry_ms
  statusDisabled,    \* joints whose g_status_raw_le is 0x0000
  feedbackRequired,  \* g_feedback_required
  activeRequired,    \* g_active_required
  hasSetTarget,      \* g_has_set_target
  setTargetAge,      \* now - g_last_set_target_ms
  busOff,            \* buses whose controller is in bus-off
  enabled,           \* drivers that accept PD frames
  force,             \* drivers whose last PD frame asks for force
  calibrated,        \* drivers whose RAM still holds their limits
  reply              \* telemetry on its way to main()

latchVars == <<jointOk, runtimeFault, disablePending>>
feedbackVars == <<hasFeedback, telemetryAge, statusDisabled>>
commandVars == <<feedbackRequired, activeRequired, hasSetTarget, setTargetAge>>
driverVars == <<enabled, force, calibrated, reply>>
vars == <<latchVars, feedbackVars, commandVars, busOff, driverVars>>

Age == 0..MaxAge
Older(age) == IF age < MaxAge THEN age + 1 ELSE age

TypeOK ==
  /\ jointOk \subseteq Joint
  /\ runtimeFault \subseteq Joint
  /\ disablePending \subseteq Joint
  /\ hasFeedback \subseteq Joint
  /\ telemetryAge \in [Joint -> Age]
  /\ statusDisabled \subseteq Joint
  /\ feedbackRequired \subseteq Joint
  /\ activeRequired \subseteq Joint
  /\ hasSetTarget \in BOOLEAN
  /\ setTargetAge \in Age
  /\ busOff \subseteq Bus
  /\ enabled \subseteq Joint
  /\ force \subseteq Joint
  /\ calibrated \subseteq Joint
  /\ reply \in [Joint -> {"none", "active", "disabled"}]

\* What Actuator_Init leaves: the joints whose HOME was read are ok, enabled,
\* at zero gain and within their limits. A joint that failed may be in any
\* state, and keeps the force of the previous session if even its boot-time
\* MOTOR_DISABLE was not accepted.
Init ==
  /\ jointOk \in SUBSET Joint
  /\ runtimeFault = {} /\ disablePending = {}
  /\ hasFeedback = jointOk
  /\ telemetryAge \in [Joint -> Age]
  /\ statusDisabled = Joint \ jointOk
  /\ feedbackRequired = {} /\ activeRequired = {}
  /\ hasSetTarget = FALSE /\ setTargetAge = MaxAge
  /\ busOff = {}
  /\ \E failed \in SUBSET (Joint \ jointOk) : enabled = jointOk \cup failed
  /\ force \in SUBSET (IF "txfull" \in Faults THEN enabled \ jointOk ELSE {})
  /\ calibrated = jointOk
  /\ reply = [j \in Joint |-> "none"]

-----------------------------------------------------------------------------
(* The drivers and their buses.                                            *)

OnBus(S) == {j \in S : BusForJoint(j) \notin busOff}

\* CAN_Transmit accepts a frame while the FIFO of its bus has room. The FIFO
\* drains on a live bus; in bus-off it fills up and nothing leaves it.
Accepted(S) ==
  {acc \in SUBSET S : "txfull" \in Faults \/ OnBus(S) \subseteq acc}

\* The drivers in `to` answer a PD frame with telemetry; a frame that finds
\* the receive FIFO full is dropped.
Answer(to) ==
  reply' = [j \in Joint |->
              IF j \in to /\ reply[j] = "none"
                THEN IF j \in enabled THEN "active" ELSE "disabled"
                ELSE reply[j]]

\* Drivers in `to` receive a PD frame; those in `hot` are asked for force.
DeliverPd(to, hot) ==
  /\ force' = (force \ (to \cap enabled)) \cup (to \cap enabled \cap hot)
  /\ Answer(to)
  /\ UNCHANGED <<enabled, calibrated>>

-----------------------------------------------------------------------------
(* The interface. A definition named ...Bug is a seeded fault: the variant   *)
(* of the definition below it that a property is shown to detect.            *)

\* latch_runtime_fault for the joints of S; `sent` are the pending bits that
\* ServiceSafety clears in the same call.
PendingLostBug(S, sent) == disablePending \ sent
PendingAssignedBug(S, sent) == IF S = {} THEN disablePending \ sent ELSE S
Pending(S, sent) == (disablePending \cup S) \ sent

OnlineKeptBug(S) == jointOk
Online(S) == jointOk \ S

Latch(S, sent) ==
  /\ jointOk' = Online(S)
  /\ runtimeFault' = runtimeFault \cup S
  /\ disablePending' = Pending(S, sent)

\* The joints whose last telemetry is younger than the timeout.
FreshLateBug == {j \in hasFeedback : telemetryAge[j] <= TelemetryTimeout}
Fresh == {j \in hasFeedback : telemetryAge[j] < TelemetryTimeout}

StreamRestarted == ~hasSetTarget \/ setTargetAge >= TelemetryTimeout

\* What the first memsets of Actuator_SetTarget leave of a required set.
AtStartBug(required) == required
AtStart(required) == IF StreamRestarted THEN {} ELSE required

\* The per-joint loop of Actuator_SetTarget: `hot` are the joints the clamped
\* command asks for force. A joint is refused when it has not answered the
\* commands so far, or answers that its driver is disabled.
Silent == (jointOk \ Fresh) \cap AtStart(feedbackRequired)
FoundDisabled(hot) ==
  jointOk \cap Fresh \cap hot \cap AtStart(activeRequired) \cap statusDisabled
Refused(hot) == Silent \cup FoundDisabled(hot)

AddressedBug(hot) == Joint \ Refused(hot)
Addressed(hot) == jointOk \ Refused(hot)

\* A stale joint gets a zero-gain probe instead, which leaves the required
\* sets alone, as does a frame the bus does not accept.
SetTarget(hot) ==
  /\ \E acc \in Accepted(Addressed(hot)) :
       LET driven == acc \cap Fresh
           keep(required) == AtStart(required) \ (Refused(hot) \cup driven)
       IN /\ feedbackRequired' = keep(feedbackRequired) \cup driven
          /\ activeRequired' = keep(activeRequired) \cup (driven \cap hot)
          /\ DeliverPd(OnBus(acc), hot \cap Fresh)
  /\ Latch(Refused(hot), {})
  /\ setTargetAge' = 0 /\ hasSetTarget' = TRUE
  /\ UNCHANGED <<feedbackVars, busOff>>

\* Actuator_Disable: one zero-gain round, then forget the stream.
DisableKeepsBeliefBug ==
  /\ \E acc \in Accepted(jointOk) : DeliverPd(OnBus(acc), {})
  /\ setTargetAge' = 0 /\ hasSetTarget' = FALSE
  /\ UNCHANGED <<latchVars, feedbackVars, feedbackRequired, activeRequired, busOff>>
Disable ==
  /\ \E acc \in Accepted(jointOk) : DeliverPd(OnBus(acc), {})
  /\ feedbackRequired' = {} /\ activeRequired' = {}
  /\ setTargetAge' = 0 /\ hasSetTarget' = FALSE
  /\ UNCHANGED <<latchVars, feedbackVars, busOff>>

\* Actuator_OnBabyAlpha2Frame, called by main() with a frame that driver d
\* sent: its bus and the id in data[0] say whose telemetry it is.
OnFrame(d) ==
  LET j   == JointFromSource(BusForJoint(d), IdForJoint(d))
      bad == {j} \cap activeRequired \cap (IF reply[d] = "disabled" THEN {j} ELSE {})
  IN /\ reply[d] # "none"
     /\ reply' = [reply EXCEPT ![d] = "none"]
     /\ hasFeedback' = hasFeedback \cup {j}
     /\ telemetryAge' = [telemetryAge EXCEPT ![j] = 0]
     /\ statusDisabled' = IF reply[d] = "disabled" THEN statusDisabled \cup {j}
                                                   ELSE statusDisabled \ {j}
     /\ Latch(bad, {})
     /\ feedbackRequired' = feedbackRequired \ bad
     /\ activeRequired' = activeRequired \ bad
     /\ UNCHANGED <<hasSetTarget, setTargetAge, busOff, enabled, force, calibrated>>

\* Actuator_ServiceSafety: joints of an off bus are latched; on a live bus the
\* pending MOTOR_DISABLEs go out in joint order until one is not accepted.
InOrder(acc, pend) ==
  \A j \in acc, i \in pend :
    (SafetyBus(i) = SafetyBus(j) /\ i < j) => i \in acc

ServiceSafety ==
  LET lost == {j \in jointOk : SafetyBus(j) \in busOff}
      pend == {j \in disablePending : SafetyBus(j) \notin busOff}
  IN \E acc \in SUBSET pend :
       /\ InOrder(acc, pend)
       /\ "txfull" \in Faults \/ acc = pend
       /\ Latch(lost, acc)
       /\ feedbackRequired' = feedbackRequired \ lost
       /\ activeRequired' = activeRequired \ lost
       /\ LET hit == {SafetyReaches(j) : j \in acc}
          IN enabled' = enabled \ hit /\ force' = force \ hit
       /\ UNCHANGED <<feedbackVars, hasSetTarget, setTargetAge, busOff,
                      calibrated, reply>>

\* Actuator_ReenableAll: the periodic MOTOR_ENABLE to every ok joint.
ReenableAll ==
  /\ \E acc \in Accepted(jointOk) : enabled' = enabled \cup OnBus(acc)
  /\ UNCHANGED <<latchVars, feedbackVars, commandVars, busOff,
                 force, calibrated, reply>>

-----------------------------------------------------------------------------
(* The environment.                                                        *)

\* A bus goes bus-off; CAN_Start runs at boot only, so it never comes back.
GoBusOff(b) ==
  /\ "busoff" \in Faults /\ b \notin busOff
  /\ busOff' = busOff \cup {b}
  /\ UNCHANGED <<latchVars, feedbackVars, commandVars, driverVars>>

\* A driver is unplugged or resets: disabled, no target, limits gone.
HotPlug(j) ==
  /\ "hotplug" \in Faults
  /\ enabled' = enabled \ {j} /\ force' = force \ {j}
  /\ calibrated' = calibrated \ {j}
  /\ UNCHANGED <<latchVars, feedbackVars, commandVars, busOff, reply>>

\* A telemetry frame is lost on the bus or overrun in the receive FIFO.
LoseReply(j) ==
  /\ "rxloss" \in Faults /\ reply[j] # "none"
  /\ reply' = [reply EXCEPT ![j] = "none"]
  /\ UNCHANGED <<latchVars, feedbackVars, commandVars, busOff,
                 enabled, force, calibrated>>

Tick ==
  /\ telemetryAge' = [j \in Joint |-> Older(telemetryAge[j])]
  /\ setTargetAge' = Older(setTargetAge)
  /\ UNCHANGED <<latchVars, hasFeedback, statusDisabled, feedbackRequired,
                 activeRequired, hasSetTarget, busOff, driverVars>>

Environment ==
  \/ \E b \in Bus : GoBusOff(b)
  \/ \E j \in Joint : HotPlug(j) \/ LoseReply(j)
  \/ Tick

Next ==
  \/ \E hot \in SUBSET Joint : SetTarget(hot)
  \/ Disable
  \/ \E j \in Joint : OnFrame(j)
  \/ ServiceSafety
  \/ ReenableAll
  \/ Environment

Spec == Init /\ [][Next]_vars

-----------------------------------------------------------------------------
(* Properties.                                                             *)

HoldsForce(j) == j \in enabled \cap force

\* The masks agree: a latched joint is offline, only a latched joint owes a
\* MOTOR_DISABLE, force is believed only of joints that must answer, and those
\* are online and have answered before. Every place that latches or clears
\* (SetTarget, OnFrame, ServiceSafety, Disable) has to keep all of it.
LatchConsistent ==
  /\ runtimeFault \cap jointOk = {}
  /\ disablePending \subseteq runtimeFault
  /\ activeRequired \subseteq feedbackRequired
  /\ feedbackRequired \subseteq jointOk
  /\ jointOk \subseteq hasFeedback

\* A joint that is being driven was heard from less than one timeout before
\* the last command: SetTarget drops, probes or latches a silent joint, it
\* never sends it force on old telemetry (actuator_if.c:528-534 and 581).
NoStaleForce ==
  \A j \in feedbackRequired :
    telemetryAge[j] < setTargetAge + TelemetryTimeout

\* No driver pushes behind the firmware's back: while its bus lives, a driver
\* that holds a force command is one the firmware believes active, or one it
\* still owes a MOTOR_DISABLE.
ForceIsTracked ==
  \A j \in Joint :
    HoldsForce(j) /\ BusForJoint(j) \notin busOff
      => j \in activeRequired \cup disablePending

\* The converse: a joint believed active is being driven, unless its driver
\* lost power or its bus is gone, so the Disabled test of OnFrame and
\* SetTarget never latches a joint that is doing what it was told.
BeliefMatchesDriver ==
  \A j \in activeRequired :
    HoldsForce(j) \/ j \notin calibrated \/ BusForJoint(j) \in busOff

\* A joint that is offline, for a failed boot or a latched fault, is never
\* given force again before a reboot (actuator_if.c:494-495).
OfflineGainsNoForce ==
  [][\A j \in Joint \ jointOk : HoldsForce(j)' => HoldsForce(j)]_vars

\* The first command of a stream latches no joint, whatever the gap before it
\* did to the telemetry ages (actuator_if.c:510-511).
RestartNeverLatches ==
  [][StreamRestarted /\ ~StreamRestarted' => runtimeFault' = runtimeFault]_vars

\* A MOTOR_DISABLE disables the driver it was meant for: a driver loses its
\* enable in ServiceSafety only if its joint is latched.
DisableOnlyToLatched ==
  [][ServiceSafety => enabled \ enabled' \subseteq runtimeFault']_vars

\* Bus-off latches the joints of that bus and no other: a joint on two live
\* buses is latched only when it was being commanded.
BusOffLatchIsLocal ==
  [][ServiceSafety =>
       \A j \in runtimeFault' \ runtimeFault : BusForJoint(j) \in busOff]_vars

\* Force is only ever commanded of a driver whose limits are those of this
\* boot: after a reset or hot-plug the joint stays out until a reboot
\* (actuator_if.c:492-495, README.md:84 of the firmware).
ForceOnlyIfCalibrated == \A j \in Joint : HoldsForce(j) => j \in calibrated

\* A latched joint is limp, or its bus is off, or the firmware still owes it a
\* MOTOR_DISABLE: rejected frames, a second latch and the periodic re-enable
\* between latch and service lose none (actuator_if.h:45-48).
LatchedIsOwed ==
  \A j \in runtimeFault :
    HoldsForce(j) /\ BusForJoint(j) \notin busOff => j \in disablePending
=============================================================================
