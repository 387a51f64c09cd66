-------------------------- MODULE SuperloopProofs --------------------------
(***************************************************************************)
(* Proofs about Actuator, and about the main loop around it, for every set *)
(* of joints, every timeout and every set of faults. The superloop is one  *)
(* of the schedules of the actuator interface, so what is proved of Spec   *)
(* holds of LoopSpec as well; the watchdog comes on top of it.             *)
(***************************************************************************)
EXTENDS Superloop, TLAPS

-----------------------------------------------------------------------------
(* The actuator interface.                                                 *)

\* The decoding table of joint_from_feedback_source inverts the two sending
\* tables: a reply is booked on the joint whose driver sent it.
LEMMA RoundTrip ==
  \A j \in JointIndex : JointFromSource(BusForJoint(j), IdForJoint(j)) = j
<1>1. SUFFICES ASSUME NEW j \in JointIndex
               PROVE  JointFromSource(BusForJoint(j), IdForJoint(j)) = j
  OBVIOUS
<1>2. j \in 0..11
  BY DEF JointIndex
<1>3. /\ j \div 3 = (IF j < 3 THEN 0 ELSE IF j < 6 THEN 1 ELSE IF j < 9 THEN 2 ELSE 3)
      /\ j % 3 = j - 3 * (j \div 3)
  BY <1>2
<1> QED
  BY <1>2, <1>3 DEF JointFromSource, BusForJoint, IdForJoint, LegGroupForJoint, JointTypeForJoint

\* The firmware starts well typed.
LEMMA TypeInit == Init => TypeOK
<1> SUFFICES ASSUME Init PROVE TypeOK
  OBVIOUS
<1>1. enabled \subseteq Joint /\ force \subseteq Joint
  BY DEF Init
<1>2. MaxAge \in Age
  BY TimeAssumption DEF Age
<1>3. reply \in [Joint -> {"none", "active", "disabled"}]
  BY DEF Init
<1> QED
  BY <1>1, <1>2, <1>3 DEF Init, TypeOK

\* The timestamps only grow older, up to the bound.
LEMMA OlderIsAge == \A age \in Age : Older(age) \in Age
  BY TimeAssumption DEF Older, Age

\* Every call and every driver keeps the types.
LEMMA TypeNext == TypeOK /\ [Next]_vars => TypeOK'
<1> SUFFICES ASSUME TypeOK, [Next]_vars PROVE TypeOK'
  OBVIOUS
<1> USE DEF TypeOK, latchVars, feedbackVars, commandVars, driverVars
<1>1. ASSUME NEW hot \in SUBSET Joint, SetTarget(hot) PROVE TypeOK'
  <2>1. PICK acc \in Accepted(Addressed(hot)) :
           LET driven == acc \cap Fresh
               keep(required) == AtStart(required) \ (Refused(hot) \cup driven)
           IN /\ feedbackRequired' = keep(feedbackRequired) \cup driven
              /\ activeRequired' = keep(activeRequired) \cup (driven \cap hot)
              /\ DeliverPd(OnBus(acc), hot \cap Fresh)
    BY <1>1 DEF SetTarget
  <2>2. acc \subseteq Joint
    BY <2>1 DEF Accepted, Addressed
  <2>3. Refused(hot) \subseteq Joint
    BY DEF Refused, Silent, FoundDisabled
  <2>4. feedbackRequired' \subseteq Joint /\ activeRequired' \subseteq Joint
    BY <2>1, <2>2 DEF AtStart
  <2>5. force' \subseteq Joint /\ reply' \in [Joint -> {"none", "active", "disabled"}]
    BY <2>1, <2>2 DEF DeliverPd, Answer, OnBus
  <2>6. setTargetAge' \in Age
    BY <1>1, TimeAssumption DEF SetTarget, Age
  <2> QED
    BY <1>1, <2>1, <2>3, <2>4, <2>5, <2>6 DEF SetTarget, Latch, Online, Pending, DeliverPd
<1>2. ASSUME Disable PROVE TypeOK'
  <2>1. PICK acc \in Accepted(jointOk) : DeliverPd(OnBus(acc), {})
    BY <1>2 DEF Disable
  <2>2. force' \subseteq Joint /\ reply' \in [Joint -> {"none", "active", "disabled"}]
    BY <2>1 DEF DeliverPd, Answer, OnBus, Accepted
  <2>3. setTargetAge' \in Age
    BY <1>2, TimeAssumption DEF Disable, Age
  <2> QED
    BY <1>2, <2>1, <2>2, <2>3 DEF Disable, DeliverPd
<1>3. ASSUME NEW d \in Joint, OnFrame(d) PROVE TypeOK'
  <2>1. JointFromSource(BusForJoint(d), IdForJoint(d)) = d
    BY RoundTrip, JointAssumption
  <2>2. telemetryAge' \in [Joint -> Age]
    BY <1>3, <2>1, TimeAssumption DEF OnFrame, Age
  <2>3. hasFeedback' \subseteq Joint /\ statusDisabled' \subseteq Joint
    BY <1>3, <2>1 DEF OnFrame
  <2>4. reply' \in [Joint -> {"none", "active", "disabled"}]
    BY <1>3 DEF OnFrame
  <2> QED
    BY <1>3, <2>1, <2>2, <2>3, <2>4 DEF OnFrame, Latch, Online, Pending
<1>4. ASSUME ServiceSafety PROVE TypeOK'
  BY <1>4 DEF ServiceSafety, Latch, Online, Pending
<1>5. ASSUME ReenableAll PROVE TypeOK'
  BY <1>5 DEF ReenableAll, Accepted, OnBus
<1>6. ASSUME NEW b \in Bus, GoBusOff(b) PROVE TypeOK'
  BY <1>6 DEF GoBusOff
<1>7. ASSUME NEW j \in Joint, HotPlug(j) PROVE TypeOK'
  BY <1>7 DEF HotPlug
<1>8. ASSUME NEW j \in Joint, LoseReply(j) PROVE TypeOK'
  BY <1>8 DEF LoseReply
<1>9. ASSUME Tick PROVE TypeOK'
  <2>1. telemetryAge' \in [Joint -> Age] /\ setTargetAge' \in Age
    BY <1>9, OlderIsAge DEF Tick
  <2> QED
    BY <1>9, <2>1 DEF Tick
<1>10. CASE UNCHANGED vars
  BY <1>10 DEF vars
<1> QED
  BY <1>1, <1>2, <1>3, <1>4, <1>5, <1>6, <1>7, <1>8, <1>9, <1>10 DEF Next, Environment

\* Every reachable state of the actuator interface is well-typed.
THEOREM TypeCorrect == Spec => []TypeOK
<1>1. Init => TypeOK
  BY TypeInit
<1>2. TypeOK /\ [Next]_vars => TypeOK'
  BY TypeNext
<1> QED
  BY <1>1, <1>2, PTL DEF Spec

-----------------------------------------------------------------------------
(* The inductive invariant of the bookkeeping: the masks and the telemetry *)
(* ages, independent of what the drivers do.                               *)

BookInv == LatchConsistent /\ NoStaleForce

\* At the start nothing is latched or required.
LEMMA BookInit == Init => BookInv
  BY DEF Init, BookInv, LatchConsistent, NoStaleForce

\* What the joints not refused by SetTarget have in common: those that were
\* required to answer are fresh.
LEMMA KeptAreFresh ==
  ASSUME NEW hot, LatchConsistent
  PROVE  /\ AtStart(feedbackRequired) \ Refused(hot) \subseteq Fresh
         /\ AtStart(activeRequired) \subseteq AtStart(feedbackRequired)
         /\ AtStart(feedbackRequired) \subseteq jointOk
         /\ Refused(hot) \subseteq jointOk
  BY DEF AtStart, Refused, Silent, FoundDisabled, LatchConsistent

\* Every step keeps the masks in agreement and the required joints fresh.
LEMMA BookNext == TypeOK /\ BookInv /\ [Next]_vars => BookInv'
<1> SUFFICES ASSUME TypeOK, BookInv, [Next]_vars PROVE BookInv'
  OBVIOUS
<1>0. LatchConsistent /\ NoStaleForce
  BY DEF BookInv
<1> USE DEF latchVars, feedbackVars, commandVars, driverVars
<1>1. ASSUME NEW hot \in SUBSET Joint, SetTarget(hot) PROVE BookInv'
  <2>1. PICK acc \in Accepted(Addressed(hot)) :
           LET driven == acc \cap Fresh
               keep(required) == AtStart(required) \ (Refused(hot) \cup driven)
           IN /\ feedbackRequired' = keep(feedbackRequired) \cup driven
              /\ activeRequired' = keep(activeRequired) \cup (driven \cap hot)
    BY <1>1 DEF SetTarget
  <2>2. acc \subseteq jointOk \ Refused(hot)
    BY DEF Accepted, Addressed
  <2>3. feedbackRequired' \subseteq Fresh \cap (jointOk \ Refused(hot))
    BY <1>0, <2>1, <2>2, KeptAreFresh
  <2>4. activeRequired' \subseteq feedbackRequired'
    BY <1>0, <2>1, <2>2, KeptAreFresh
  <2>5. LatchConsistent'
    BY <1>0, <1>1, <2>3, <2>4, KeptAreFresh
       DEF LatchConsistent, SetTarget, Latch, Online, Pending
  <2>6. \A j \in feedbackRequired' : telemetryAge[j] < TelemetryTimeout
    BY <2>3 DEF Fresh
  <2>7. setTargetAge' = 0 /\ telemetryAge' = telemetryAge
    BY <1>1 DEF SetTarget
  <2>8. NoStaleForce'
    BY <2>6, <2>7, TimeAssumption DEF NoStaleForce
  <2> QED
    BY <2>5, <2>8 DEF BookInv
<1>2. ASSUME Disable PROVE BookInv'
  BY <1>0, <1>2 DEF Disable, BookInv, LatchConsistent, NoStaleForce
<1>3. ASSUME NEW d \in Joint, OnFrame(d) PROVE BookInv'
  <2>1. JointFromSource(BusForJoint(d), IdForJoint(d)) = d
    BY RoundTrip, JointAssumption
  <2>2. LatchConsistent'
    BY <1>0, <1>3, <2>1 DEF OnFrame, Latch, Online, Pending, LatchConsistent
  <2>3. ASSUME NEW j \in feedbackRequired' PROVE telemetryAge'[j] < setTargetAge' + TelemetryTimeout
    <3>1. j \in feedbackRequired /\ j \in Joint /\ setTargetAge' = setTargetAge
      BY <1>3, <2>1, <2>3 DEF OnFrame, TypeOK
    <3>2. telemetryAge'[j] = telemetryAge[j] \/ telemetryAge'[j] = 0
      BY <1>3, <2>1, <3>1 DEF OnFrame, TypeOK
    <3>3. telemetryAge[j] < setTargetAge + TelemetryTimeout /\ setTargetAge \in Nat
      BY <1>0, <3>1, TimeAssumption DEF NoStaleForce, TypeOK, Age
    <3> QED
      BY <3>1, <3>2, <3>3, TimeAssumption
  <2> QED
    BY <2>2, <2>3 DEF BookInv, NoStaleForce
<1>4. ASSUME ServiceSafety PROVE BookInv'
  <2>1. LatchConsistent'
    BY <1>0, <1>4 DEF ServiceSafety, Latch, Online, Pending, LatchConsistent
  <2>2. NoStaleForce'
    BY <1>0, <1>4 DEF ServiceSafety, NoStaleForce
  <2> QED
    BY <2>1, <2>2 DEF BookInv
<1>5. ASSUME Tick PROVE BookInv'
  <2>1. LatchConsistent'
    BY <1>0, <1>5 DEF Tick, LatchConsistent
  <2>2. ASSUME NEW j \in feedbackRequired' PROVE telemetryAge'[j] < setTargetAge' + TelemetryTimeout
    <3>1. j \in feedbackRequired /\ j \in Joint
      BY <1>5, <2>2 DEF Tick, TypeOK
    <3>2. telemetryAge'[j] = Older(telemetryAge[j]) /\ setTargetAge' = Older(setTargetAge)
      BY <1>5, <3>1 DEF Tick
    <3>3. telemetryAge[j] \in 0..MaxAge /\ setTargetAge \in 0..MaxAge
      BY <3>1 DEF TypeOK, Age
    <3>4. telemetryAge[j] < setTargetAge + TelemetryTimeout
      BY <1>0, <3>1 DEF NoStaleForce
    <3> QED
      BY <3>2, <3>3, <3>4, TimeAssumption DEF Older
  <2> QED
    BY <2>1, <2>2 DEF BookInv, NoStaleForce
<1>6. ASSUME \/ ReenableAll
             \/ \E b \in Bus : GoBusOff(b)
             \/ \E j \in Joint : HotPlug(j) \/ LoseReply(j)
             \/ UNCHANGED vars
      PROVE  BookInv'
  <2>1. UNCHANGED <<latchVars, feedbackVars, commandVars>>
    BY <1>6 DEF ReenableAll, GoBusOff, HotPlug, LoseReply, vars
  <2> QED
    BY <1>0, <2>1 DEF BookInv, LatchConsistent, NoStaleForce
<1> QED
  BY <1>1, <1>2, <1>3, <1>4, <1>5, <1>6 DEF Next, Environment

\* The fault masks, the two required sets and the online set never disagree,
\* whatever the order of commands, frames, faults and services.
THEOREM MasksAgree == Spec => []LatchConsistent
<1>1. Init => TypeOK /\ BookInv
  BY TypeInit, BookInit
<1>2. (TypeOK /\ BookInv) /\ [Next]_vars => (TypeOK /\ BookInv)'
  BY TypeNext, BookNext
<1>3. TypeOK /\ BookInv => LatchConsistent
  BY DEF BookInv
<1> QED
  BY <1>1, <1>2, <1>3, PTL DEF Spec

\* A joint that is being driven was heard from less than one timeout before
\* the last command.
THEOREM ForceNeedsFeedback == Spec => []NoStaleForce
<1>1. Init => TypeOK /\ BookInv
  BY TypeInit, BookInit
<1>2. (TypeOK /\ BookInv) /\ [Next]_vars => (TypeOK /\ BookInv)'
  BY TypeNext, BookNext
<1>3. TypeOK /\ BookInv => NoStaleForce
  BY DEF BookInv
<1> QED
  BY <1>1, <1>2, <1>3, PTL DEF Spec

-----------------------------------------------------------------------------
(* The drivers. A driver that is disabled has forgotten its force command, *)
(* so MOTOR_ENABLE alone never makes one push.                             *)

ForceNeedsEnable == force \subseteq enabled

\* What one PD round does to the force the drivers hold.
LEMMA PdRound ==
  ASSUME NEW to, NEW hot, DeliverPd(to, hot), ForceNeedsEnable
  PROVE  /\ enabled' = enabled /\ calibrated' = calibrated
         /\ ForceNeedsEnable'
         /\ \A j : j \in force' => j \in force \/ j \in to \cap hot
         /\ \A j : j \in to /\ j \notin hot => j \notin force'
         /\ \A j : j \in to \cap enabled \cap hot => j \in force'
         /\ \A j : j \notin to => (j \in force' <=> j \in force)
  BY DEF DeliverPd, ForceNeedsEnable

\* No driver pushes after boot.
LEMMA EnableInit == Init => ForceNeedsEnable
  BY DEF Init, ForceNeedsEnable

\* The PD round of SetTarget goes to online joints on live buses only.
LEMMA TargetRound ==
  ASSUME NEW hot \in SUBSET Joint, SetTarget(hot)
  PROVE  \E to : /\ to \subseteq Addressed(hot)
                 /\ DeliverPd(to, hot \cap Fresh)
                 /\ "txfull" \notin Faults => OnBus(Addressed(hot)) = to
                 /\ to \cap Fresh \subseteq feedbackRequired'
                 /\ to \cap Fresh \cap hot \subseteq activeRequired'
                 /\ \A j \in activeRequired' :
                      \/ j \in to \cap Fresh \cap hot
                      \/ BusForJoint(j) \in busOff
                      \/ j \in AtStart(activeRequired) \ (Refused(hot) \cup (to \cap Fresh))
<1>1. PICK acc \in Accepted(Addressed(hot)) :
         LET driven == acc \cap Fresh
             keep(required) == AtStart(required) \ (Refused(hot) \cup driven)
         IN /\ feedbackRequired' = keep(feedbackRequired) \cup driven
            /\ activeRequired' = keep(activeRequired) \cup (driven \cap hot)
            /\ DeliverPd(OnBus(acc), hot \cap Fresh)
  BY DEF SetTarget
<1>2. acc \subseteq Addressed(hot) /\ OnBus(acc) \subseteq acc
  BY DEF Accepted, OnBus
<1>3. "txfull" \notin Faults => OnBus(Addressed(hot)) = OnBus(acc)
  BY DEF Accepted, OnBus
<1>4. \A j \in acc : j \in OnBus(acc) \/ BusForJoint(j) \in busOff
  BY DEF OnBus
<1> QED
  <2> WITNESS OnBus(acc)
  <2> QED
    BY <1>1, <1>2, <1>3, <1>4

\* A driver that gains force is enabled, and one that is disabled loses it.
LEMMA EnableNext == ForceNeedsEnable /\ [Next]_vars => ForceNeedsEnable'
<1> SUFFICES ASSUME ForceNeedsEnable, [Next]_vars PROVE ForceNeedsEnable'
  OBVIOUS
<1>1. ASSUME NEW hot \in SUBSET Joint, SetTarget(hot) PROVE ForceNeedsEnable'
  BY <1>1, TargetRound, PdRound
<1>2. ASSUME Disable PROVE ForceNeedsEnable'
  BY <1>2, PdRound DEF Disable
<1>3. ASSUME Next, ~(\E hot \in SUBSET Joint : SetTarget(hot)), ~Disable
      PROVE  ForceNeedsEnable'
  BY <1>3 DEF Next, Environment, ForceNeedsEnable, OnFrame, ServiceSafety,
              ReenableAll, GoBusOff, HotPlug, LoseReply, Tick, driverVars
<1> QED
  BY <1>1, <1>2, <1>3 DEF vars, driverVars, ForceNeedsEnable

\* No step of the firmware or its environment gives force to a joint that is
\* offline, whether it failed at boot or was latched later.
THEOREM OfflineStaysLimp == Spec => OfflineGainsNoForce
<1>1. ASSUME ForceNeedsEnable, [Next]_vars
      PROVE  [\A j \in Joint \ jointOk : HoldsForce(j)' => HoldsForce(j)]_vars
  <2>1. ASSUME NEW hot \in SUBSET Joint, SetTarget(hot), NEW j \in Joint \ jointOk
        PROVE  HoldsForce(j)' => HoldsForce(j)
    BY <1>1, <2>1, TargetRound, PdRound DEF HoldsForce, Addressed
  <2>2. ASSUME Disable, NEW j \in Joint \ jointOk
        PROVE  HoldsForce(j)' => HoldsForce(j)
    BY <1>1, <2>2, PdRound DEF HoldsForce, Disable
  <2>3. ASSUME Next, ~(\E hot \in SUBSET Joint : SetTarget(hot)), ~Disable,
               NEW j \in Joint \ jointOk
        PROVE  HoldsForce(j)' => HoldsForce(j)
    BY <1>1, <2>3 DEF Next, Environment, ForceNeedsEnable, HoldsForce, OnFrame,
          ServiceSafety, ReenableAll, GoBusOff, HotPlug, LoseReply, Tick, driverVars
  <2> QED
    BY <1>1, <2>1, <2>2, <2>3
<1> QED
  BY <1>1, EnableInit, EnableNext, PTL DEF Spec, OfflineGainsNoForce

\* The first command of a stream never latches a joint.
THEOREM RestartIsSafe == Spec => RestartNeverLatches
<1>1. ASSUME TypeOK, [Next]_vars
      PROVE  [StreamRestarted /\ ~StreamRestarted' => runtimeFault' = runtimeFault]_vars
  <2>1. ASSUME NEW hot \in SUBSET Joint, SetTarget(hot), StreamRestarted
        PROVE  runtimeFault' = runtimeFault
    BY <2>1 DEF SetTarget, Latch, Refused, Silent, FoundDisabled, AtStart
  <2>2. ASSUME Tick PROVE runtimeFault' = runtimeFault
    BY <2>2 DEF Tick, latchVars
  <2>3. ASSUME Disable PROVE runtimeFault' = runtimeFault
    BY <2>3 DEF Disable, latchVars
  <2>4. ASSUME Next, ~(\E hot \in SUBSET Joint : SetTarget(hot)), ~Disable, ~Tick
        PROVE  StreamRestarted' = StreamRestarted
    <3>1. hasSetTarget' = hasSetTarget /\ setTargetAge' = setTargetAge
      BY <2>4 DEF Next, Environment, OnFrame, ServiceSafety,
                  ReenableAll, GoBusOff, HotPlug, LoseReply, commandVars
    <3> QED
      BY <3>1 DEF StreamRestarted
  <2> QED
    BY <1>1, <2>1, <2>2, <2>3, <2>4
<1> QED
  BY <1>1, TypeInit, TypeNext, PTL DEF Spec, RestartNeverLatches

-----------------------------------------------------------------------------
(* The firmware's beliefs and the drivers. The two facts need the table    *)
(* Actuator_ServiceSafety uses to be the real one on the joints at hand:   *)
(* it is for the legs LF and RH, and not for LH and RF.                    *)

SafetyTableRight == \A j \in Joint : SafetyBus(j) = BusForJoint(j)

\* With the right table a MOTOR_DISABLE reaches the joint it is meant for.
LEMMA DisableReaches ==
  ASSUME SafetyTableRight, NEW j \in Joint
  PROVE  SafetyReaches(j) = j
  BY RoundTrip, JointAssumption DEF SafetyTableRight, SafetyReaches

\* Without trust in the transmit FIFOs: what is owed to a latched joint is not
\* forgotten, since only online joints get PD frames or a MOTOR_ENABLE.
LEMMA OwedNext ==
  ASSUME SafetyTableRight, TypeOK, LatchConsistent, LatchedIsOwed, [Next]_vars,
         ForceNeedsEnable
  PROVE  LatchedIsOwed'
<1> USE DEF LatchedIsOwed, HoldsForce, latchVars, feedbackVars, commandVars, driverVars
<1>1. ASSUME NEW hot \in SUBSET Joint, SetTarget(hot) PROVE LatchedIsOwed'
  <2>1. PICK to : to \subseteq Addressed(hot) /\ DeliverPd(to, hot \cap Fresh)
    BY <1>1, TargetRound
  <2>2. /\ enabled' = enabled
        /\ \A j : j \notin to => (j \in force' <=> j \in force)
    BY <2>1, PdRound
  <2>3. /\ busOff' = busOff
        /\ runtimeFault' = runtimeFault \cup Refused(hot)
        /\ disablePending' = disablePending \cup Refused(hot)
    BY <1>1 DEF SetTarget, Latch, Pending
  <2>4. \A j \in runtimeFault' : j \notin to
    BY <2>1, <2>3 DEF Addressed, LatchConsistent
  <2> QED
    BY <2>2, <2>3, <2>4
<1>2. ASSUME Disable PROVE LatchedIsOwed'
  <2>1. PICK acc \in Accepted(jointOk) : DeliverPd(OnBus(acc), {})
    BY <1>2 DEF Disable
  <2>2. enabled' = enabled /\ \A j : j \in force' => j \in force
    BY <2>1, PdRound
  <2> QED
    BY <1>2, <2>2 DEF Disable
<1>3. ASSUME NEW d \in Joint, OnFrame(d) PROVE LatchedIsOwed'
  BY <1>3 DEF OnFrame, Latch, Pending
<1>4. ASSUME ServiceSafety PROVE LatchedIsOwed'
  <2> DEFINE lost == {j \in jointOk : SafetyBus(j) \in busOff}
             pend == {j \in disablePending : SafetyBus(j) \notin busOff}
  <2>1. PICK acc \in SUBSET pend :
          /\ Latch(lost, acc)
          /\ LET hit == {SafetyReaches(j) : j \in acc}
             IN enabled' = enabled \ hit /\ force' = force \ hit
          /\ busOff' = busOff
    BY <1>4 DEF ServiceSafety
  <2>2. \A j \in acc : j \notin enabled'
    BY <2>1, DisableReaches DEF TypeOK
  <2>3. /\ runtimeFault' = runtimeFault \cup lost
        /\ disablePending' = (disablePending \cup lost) \ acc
        /\ enabled' \subseteq enabled /\ force' \subseteq force
    BY <2>1 DEF Latch, Pending
  <2> HIDE DEF lost, pend
  <2> QED
    BY <2>1, <2>2, <2>3
<1>5. ASSUME ReenableAll PROVE LatchedIsOwed'
  BY <1>5 DEF ReenableAll, Accepted, OnBus, ForceNeedsEnable
<1>6. ASSUME NEW b \in Bus, GoBusOff(b) PROVE LatchedIsOwed'
  BY <1>6 DEF GoBusOff
<1>7. ASSUME (\E j \in Joint : HotPlug(j) \/ LoseReply(j)) \/ Tick \/ UNCHANGED vars
      PROVE  LatchedIsOwed'
  BY <1>7 DEF HotPlug, LoseReply, Tick, vars
<1> QED
  BY <1>1, <1>2, <1>3, <1>4, <1>5, <1>6, <1>7 DEF Next, Environment

\* Where the safety table agrees with the topology, a latched joint that still
\* pushes on a live bus has its MOTOR_DISABLE pending, rejected frames or not.
THEOREM LatchedAreOwed ==
  ASSUME SafetyTableRight
  PROVE  Spec => []LatchedIsOwed
<1>1. Init => LatchedIsOwed
  BY DEF Init, LatchedIsOwed
<1> QED
  BY <1>1, OwedNext, TypeCorrect, MasksAgree, EnableInit, EnableNext, PTL DEF Spec

TrackInv == TypeOK /\ LatchConsistent /\ ForceNeedsEnable /\ ForceIsTracked

\* Unless a frame is rejected, a driver that pushes after a step is known to the firmware.
LEMMA TrackNext ==
  ASSUME SafetyTableRight, "txfull" \notin Faults, TrackInv, NoStaleForce, [Next]_vars
  PROVE  ForceIsTracked'
<1> USE DEF latchVars, feedbackVars, commandVars, driverVars
<1>0. TypeOK /\ LatchConsistent /\ ForceNeedsEnable /\ ForceIsTracked
  BY DEF TrackInv
<1>1. ASSUME NEW hot \in SUBSET Joint, SetTarget(hot) PROVE ForceIsTracked'
  <2>1. PICK to : /\ to \subseteq Addressed(hot)
                  /\ DeliverPd(to, hot \cap Fresh)
                  /\ OnBus(Addressed(hot)) = to
                  /\ to \cap Fresh \cap hot \subseteq activeRequired'
    BY <1>1, TargetRound
  <2>2. disablePending' = disablePending \cup Refused(hot) /\ busOff' = busOff
    BY <1>1 DEF SetTarget, Latch, Pending
  <2>3. ASSUME NEW j \in Joint, j \in enabled', j \in force', BusForJoint(j) \notin busOff
        PROVE  j \in activeRequired' \cup disablePending'
    <3>1. enabled' = enabled /\ (j \in to => j \in hot \cap Fresh)
      BY <1>0, <2>1, <2>3, PdRound
    <3>2. CASE j \in to
      BY <2>1, <3>1, <3>2
    <3>3. CASE j \notin to /\ j \in jointOk
      BY <2>1, <2>2, <2>3, <3>3 DEF OnBus, Addressed
    <3>4. CASE j \notin to /\ j \notin jointOk
      <4>1. j \in force
        BY <1>0, <2>1, <2>3, <3>4, PdRound
      <4>2. j \in activeRequired \cup disablePending
        BY <1>0, <2>3, <3>1, <4>1 DEF ForceIsTracked, HoldsForce
      <4> QED
        BY <1>0, <2>2, <3>4, <4>2 DEF LatchConsistent
    <3> QED
      BY <3>2, <3>3, <3>4
  <2> QED
    BY <2>2, <2>3 DEF ForceIsTracked, HoldsForce
<1>2. ASSUME Disable PROVE ForceIsTracked'
  <2>1. DeliverPd(OnBus(jointOk), {}) /\ UNCHANGED <<latchVars, busOff>>
    BY <1>2 DEF Disable, Accepted, OnBus
  <2>2. ASSUME NEW j \in Joint, j \in enabled', j \in force', BusForJoint(j) \notin busOff
        PROVE  j \in disablePending
    <3>1. enabled' = enabled /\ j \in force /\ j \notin OnBus(jointOk)
      BY <1>0, <2>1, <2>2, PdRound
    <3> QED
      BY <1>0, <2>2, <3>1 DEF OnBus, ForceIsTracked, HoldsForce, LatchConsistent
  <2> QED
    BY <2>1, <2>2 DEF ForceIsTracked, HoldsForce
<1>3. ASSUME NEW d \in Joint, OnFrame(d) PROVE ForceIsTracked'
  BY <1>0, <1>3 DEF OnFrame, Latch, Pending, ForceIsTracked, HoldsForce
<1>4. ASSUME ServiceSafety PROVE ForceIsTracked'
  <2>1. PICK acc \in SUBSET disablePending :
           LET lost == {j \in jointOk : SafetyBus(j) \in busOff}
           IN /\ Latch(lost, acc)
              /\ activeRequired' = activeRequired \ lost
              /\ enabled' = enabled \ {SafetyReaches(j) : j \in acc}
              /\ force' = force \ {SafetyReaches(j) : j \in acc}
              /\ busOff' = busOff
    BY <1>4 DEF ServiceSafety
  <2>2. \A j \in acc : j \notin enabled'
    BY <1>0, <2>1, DisableReaches DEF TypeOK
  <2>3. \A j \in Joint : BusForJoint(j) \notin busOff =>
           j \notin {i \in jointOk : SafetyBus(i) \in busOff}
    BY DEF SafetyTableRight
  <2> QED
    BY <1>0, <2>1, <2>2, <2>3 DEF Latch, Pending, ForceIsTracked, HoldsForce
<1>5. ASSUME ReenableAll PROVE ForceIsTracked'
  BY <1>0, <1>5 DEF ReenableAll, ForceIsTracked, HoldsForce, ForceNeedsEnable
<1>6. ASSUME NEW b \in Bus, GoBusOff(b) PROVE ForceIsTracked'
  BY <1>0, <1>6 DEF GoBusOff, ForceIsTracked, HoldsForce
<1>7. ASSUME (\E j \in Joint : HotPlug(j) \/ LoseReply(j)) \/ Tick \/ UNCHANGED vars
      PROVE  ForceIsTracked'
  BY <1>0, <1>7 DEF HotPlug, LoseReply, Tick, vars, ForceIsTracked, HoldsForce
<1> QED
  BY <1>1, <1>2, <1>3, <1>4, <1>5, <1>6, <1>7 DEF Next, Environment

\* While the transmit FIFOs never fill, a driver on a live bus that holds a
\* force command is believed active or has a MOTOR_DISABLE coming.
THEOREM ForceTracked ==
  ASSUME SafetyTableRight, "txfull" \notin Faults
  PROVE  Spec => []ForceIsTracked
<1>1. Init => TrackInv /\ BookInv
  <2>1. Init => ForceIsTracked
    BY DEF Init, ForceIsTracked, HoldsForce
  <2> QED
    BY <2>1, TypeInit, BookInit, EnableInit DEF TrackInv, BookInv
<1>2. (TrackInv /\ BookInv) /\ [Next]_vars => (TrackInv /\ BookInv)'
  BY TypeNext, BookNext, EnableNext, TrackNext DEF TrackInv, BookInv
<1>3. TrackInv /\ BookInv => ForceIsTracked
  BY DEF TrackInv
<1> QED
  BY <1>1, <1>2, <1>3, PTL DEF Spec

-----------------------------------------------------------------------------
(* The converse of ForceIsTracked. A driver of an online joint is enabled  *)
(* unless it lost power or its bus, so it takes the force it is sent.      *)

OnlineIsEnabled ==
  \A j \in jointOk : j \in enabled \/ j \notin calibrated \/ BusForJoint(j) \in busOff

BeliefInv == TypeOK /\ BookInv /\ OnlineIsEnabled /\ BeliefMatchesDriver

\* The driver of an online joint stays enabled, unless it lost its limits or its bus.
LEMMA OnlineNext ==
  ASSUME SafetyTableRight, TypeOK, LatchConsistent, OnlineIsEnabled, ForceNeedsEnable,
         [Next]_vars
  PROVE  OnlineIsEnabled'
<1> USE DEF OnlineIsEnabled, latchVars, feedbackVars, commandVars, driverVars
<1>1. ASSUME NEW hot \in SUBSET Joint, SetTarget(hot) PROVE OnlineIsEnabled'
  <2>1. enabled' = enabled /\ calibrated' = calibrated
    BY <1>1, TargetRound, PdRound
  <2> QED
    BY <1>1, <2>1 DEF SetTarget, Latch, Online
<1>2. ASSUME Disable PROVE OnlineIsEnabled'
  <2>1. enabled' = enabled /\ calibrated' = calibrated
    BY <1>2, PdRound DEF Disable
  <2> QED
    BY <1>2, <2>1 DEF Disable
<1>3. ASSUME NEW d \in Joint, OnFrame(d) PROVE OnlineIsEnabled'
  BY <1>3 DEF OnFrame, Latch, Online
<1>4. ASSUME ServiceSafety PROVE OnlineIsEnabled'
  <2>1. PICK acc \in SUBSET disablePending :
          enabled' = enabled \ {SafetyReaches(j) : j \in acc}
    BY <1>4 DEF ServiceSafety
  <2>2. \A j \in jointOk : j \in enabled => j \in enabled'
    BY <2>1, DisableReaches DEF LatchConsistent, TypeOK
  <2> QED
    BY <1>4, <2>2 DEF ServiceSafety, Latch, Online
<1>5. ASSUME ReenableAll PROVE OnlineIsEnabled'
  BY <1>5 DEF ReenableAll
<1>6. ASSUME NEW b \in Bus, GoBusOff(b) PROVE OnlineIsEnabled'
  BY <1>6 DEF GoBusOff
<1>7. ASSUME (\E j \in Joint : HotPlug(j) \/ LoseReply(j)) \/ Tick \/ UNCHANGED vars
      PROVE  OnlineIsEnabled'
  BY <1>7 DEF HotPlug, LoseReply, Tick, vars
<1> QED
  BY <1>1, <1>2, <1>3, <1>4, <1>5, <1>6, <1>7 DEF Next, Environment

\* What the firmware requires of a joint stays true of its driver.
LEMMA BeliefNext ==
  ASSUME SafetyTableRight, BeliefInv, ForceNeedsEnable, [Next]_vars
  PROVE  BeliefMatchesDriver'
<1>0. /\ TypeOK /\ LatchConsistent /\ OnlineIsEnabled
      /\ \A j \in activeRequired :
           (j \in enabled /\ j \in force) \/ j \notin calibrated \/ BusForJoint(j) \in busOff
  BY DEF BeliefInv, BookInv, BeliefMatchesDriver, HoldsForce
<1> USE DEF BeliefMatchesDriver, HoldsForce, latchVars, feedbackVars, commandVars, driverVars
<1>1. ASSUME NEW hot \in SUBSET Joint, SetTarget(hot) PROVE BeliefMatchesDriver'
  <2>1. PICK to : /\ to \subseteq Addressed(hot)
                  /\ DeliverPd(to, hot \cap Fresh)
                  /\ \A j \in activeRequired' :
                       \/ j \in to \cap Fresh \cap hot
                       \/ BusForJoint(j) \in busOff
                       \/ j \in AtStart(activeRequired) \ (Refused(hot) \cup (to \cap Fresh))
    BY <1>1, TargetRound
  <2>2. /\ enabled' = enabled /\ calibrated' = calibrated
        /\ \A j : j \in to \cap enabled \cap hot \cap Fresh => j \in force'
        /\ \A j : j \notin to => (j \in force' <=> j \in force)
    BY <2>1, PdRound
  <2>3. busOff' = busOff
    BY <1>1 DEF SetTarget
  <2>4. ASSUME NEW j \in activeRequired'
        PROVE  (j \in enabled' /\ j \in force') \/ j \notin calibrated' \/ BusForJoint(j) \in busOff'
    <3>1. CASE j \in to \cap Fresh \cap hot
      <4>1. j \in jointOk
        BY <2>1, <3>1 DEF Addressed
      <4> QED
        BY <1>0, <2>2, <2>3, <3>1, <4>1 DEF OnlineIsEnabled
    <3>2. CASE BusForJoint(j) \in busOff
      BY <2>3, <3>2
    <3>3. CASE j \in AtStart(activeRequired) \ (Refused(hot) \cup (to \cap Fresh))
      <4>1. j \in Fresh
        BY <1>0, <3>3, KeptAreFresh
      <4>2. j \notin to /\ j \in activeRequired
        BY <3>3, <4>1 DEF AtStart
      <4> QED
        BY <1>0, <2>2, <2>3, <4>2
    <3> QED
      BY <2>1, <2>4, <3>1, <3>2, <3>3
  <2> QED
    BY <2>4
<1>2. ASSUME Disable PROVE BeliefMatchesDriver'
  BY <1>2 DEF Disable
<1>3. ASSUME NEW d \in Joint, OnFrame(d) PROVE BeliefMatchesDriver'
  BY <1>0, <1>3 DEF OnFrame
<1>4. ASSUME ServiceSafety PROVE BeliefMatchesDriver'
  <2>1. PICK acc \in SUBSET disablePending :
           /\ enabled' = enabled \ {SafetyReaches(j) : j \in acc}
           /\ force' = force \ {SafetyReaches(j) : j \in acc}
    BY <1>4 DEF ServiceSafety
  <2>2. \A j \in activeRequired : /\ j \in enabled => j \in enabled'
                                  /\ j \in force => j \in force'
    BY <1>0, <2>1, DisableReaches DEF LatchConsistent, TypeOK
  <2> QED
    BY <1>0, <1>4, <2>2 DEF ServiceSafety
<1>5. ASSUME ReenableAll PROVE BeliefMatchesDriver'
  BY <1>0, <1>5 DEF ReenableAll
<1>6. ASSUME NEW b \in Bus, GoBusOff(b) PROVE BeliefMatchesDriver'
  BY <1>0, <1>6 DEF GoBusOff
<1>7. ASSUME (\E j \in Joint : HotPlug(j) \/ LoseReply(j)) \/ Tick \/ UNCHANGED vars
      PROVE  BeliefMatchesDriver'
  BY <1>0, <1>7 DEF HotPlug, LoseReply, Tick, vars
<1> QED
  BY <1>1, <1>2, <1>3, <1>4, <1>5, <1>6, <1>7 DEF Next, Environment

\* A joint the firmware believes active is driven, unless its driver lost
\* power or its bus is gone.
THEOREM BeliefIsTrue ==
  ASSUME SafetyTableRight
  PROVE  Spec => []BeliefMatchesDriver
<1>1. Init => BeliefInv
  <2>1. Init => OnlineIsEnabled /\ BeliefMatchesDriver
    BY DEF Init, OnlineIsEnabled, BeliefMatchesDriver
  <2> QED
    BY <2>1, TypeInit, BookInit DEF BeliefInv
<1>2. (BeliefInv /\ ForceNeedsEnable) /\ [Next]_vars => (BeliefInv /\ ForceNeedsEnable)'
  BY TypeNext, BookNext, EnableNext, OnlineNext, BeliefNext DEF BeliefInv, BookInv
<1>3. BeliefInv => BeliefMatchesDriver
  BY DEF BeliefInv
<1> QED
  BY <1>1, <1>2, <1>3, EnableInit, PTL DEF Spec

-----------------------------------------------------------------------------
(* The main loop is a schedule of it.                                      *)

\* A step of the loop is a call of the actuator interface, a step of its environment, or none.
LEMMA LoopStep == [LoopNext]_allVars => [Next]_vars
<1> SUFFICES ASSUME LoopNext PROVE [Next]_vars
  BY DEF allVars
<1>1. CASE Iteration
  <2>1. ASSUME NEW hot \in SUBSET Joint, Command(hot) PROVE [Next]_vars
    BY <2>1 DEF Command, Next
  <2>2. ASSUME NEW d \in Joint, Drain(d) PROVE [Next]_vars
    BY <2>2 DEF Drain, Next
  <2>3. CASE Watchdog
    BY <2>3 DEF Watchdog, Next
  <2>4. CASE Service
    BY <2>4 DEF Service, Next
  <2>5. CASE Reenable
    BY <2>5 DEF Reenable, Next
  <2>6. CASE Connect \/ Disconnect \/ NoCommand \/ Drained
    BY <2>6 DEF Connect, Disconnect, NoCommand, Drained
  <2> QED
    BY <1>1, <2>1, <2>2, <2>3, <2>4, <2>5, <2>6 DEF Iteration
<1>2. CASE \E d \in Joint : Arrive(d)
  BY <1>2 DEF Arrive
<1>3. CASE LoopTick
  BY <1>3 DEF LoopTick, Next, Environment
<1>4. CASE LoopFault
  BY <1>4 DEF LoopFault, Next, Environment
<1> QED
  BY <1>1, <1>2, <1>3, <1>4 DEF LoopNext

\* Every run of the superloop is a run of the actuator interface: main.c uses
\* it in no way that the theorems above do not cover.
THEOREM LoopImplementsActuator == LoopSpec => Spec
<1>1. LoopInit => Init
  BY DEF LoopInit
<1> QED
  BY <1>1, LoopStep, PTL DEF LoopSpec, Spec

-----------------------------------------------------------------------------
(* The watchdog. Once it has fired, the firmware believes no joint active, *)
(* so by ForceTracked the only drivers that may still push are those with  *)
(* a MOTOR_DISABLE pending.                                                *)

SpentInv == watchdogSpent => activeRequired = {}

\* Once the watchdog has fired nothing is required until a command comes.
LEMMA SpentNext == SpentInv /\ [LoopNext]_allVars => SpentInv'
<1> SUFFICES ASSUME SpentInv, [LoopNext]_allVars PROVE SpentInv'
  OBVIOUS
<1> USE DEF SpentInv
<1>1. ASSUME NEW hot \in SUBSET Joint, Command(hot) PROVE SpentInv'
  BY <1>1 DEF Command, CountCommand
<1>2. ASSUME NEW d \in Joint, Drain(d) PROVE SpentInv'
  BY <1>2 DEF Drain, OnFrame
<1>3. CASE Watchdog
  BY <1>3 DEF Watchdog, Disable, vars, commandVars
<1>4. CASE Service
  BY <1>4 DEF Service, ServiceSafety
<1>5. CASE Reenable
  BY <1>5 DEF Reenable, ReenableAll, vars, commandVars
<1>6. CASE Connect \/ Disconnect \/ NoCommand \/ Drained
  BY <1>6 DEF Connect, Disconnect, NoCommand, Drained, vars, commandVars
<1>7. CASE LoopTick
  BY <1>7 DEF LoopTick, Tick
<1>8. CASE LoopFault
  BY <1>8 DEF LoopFault, GoBusOff, HotPlug, LoseReply, commandVars
<1>9. CASE \E d \in Joint : Arrive(d)
  BY <1>9 DEF Arrive, vars, commandVars
<1>10. CASE UNCHANGED allVars
  BY <1>10 DEF allVars, vars, loopVars, commandVars
<1> QED
  BY <1>1, <1>2, <1>3, <1>4, <1>5, <1>6, <1>7, <1>8, <1>9, <1>10 DEF LoopNext, Iteration

\* While the transmit FIFOs have room, a watchdog that has fired has released
\* the force of every joint on a live bus that is not about to be disabled.
THEOREM WatchdogWorks ==
  ASSUME SafetyTableRight, "txfull" \notin Faults
  PROVE  LoopSpec => []WatchdogReleasesForce
<1>1. LoopInit => SpentInv
  BY DEF LoopInit, Init, SpentInv
<1>2. SpentInv /\ ForceIsTracked => WatchdogReleasesForce
  BY DEF SpentInv, ForceIsTracked, WatchdogReleasesForce, Pushing
<1>3. LoopSpec => []ForceIsTracked
  BY ForceTracked, LoopImplementsActuator, PTL
<1> QED
  BY <1>1, <1>2, <1>3, SpentNext, PTL DEF LoopSpec

-----------------------------------------------------------------------------
(* The types of the loop.                                                  *)

\* The loop starts well typed.
LEMMA LoopTypeInit == LoopInit => LoopTypeOK
<1> SUFFICES ASSUME LoopInit PROVE LoopTypeOK
  OBVIOUS
<1>1. TypeOK
  BY TypeInit DEF LoopInit
<1>2. /\ connected \in BOOLEAN /\ received \in BOOLEAN
      /\ late \in BOOLEAN /\ watchdogSpent \in BOOLEAN
  BY Zenon DEF LoopInit
<1> QED
  BY <1>1, <1>2, LoopAssumption DEF LoopInit, LoopTypeOK

\* What the spin samples.
LEMMA SampleType ==
  ASSUME AfterSpin
  PROVE  /\ late' \in BOOLEAN
         /\ pc = "spin" /\ pc' = "drain1" /\ blocked' = 0
         /\ late' <=> received' /\ commandAge' >= CmdTimeout
<1>1. late' = TRUE \/ late' = FALSE
  BY DEF AfterSpin, Sample
<1>2. late' \in BOOLEAN
  BY <1>1, Zenon
<1> QED
  BY <1>2 DEF AfterSpin, Sample

\* Every part of an iteration keeps the types.
LEMMA LoopTypeNext == LoopTypeOK /\ [LoopNext]_allVars => LoopTypeOK'
<1> SUFFICES ASSUME LoopTypeOK, [LoopNext]_allVars PROVE LoopTypeOK'
  OBVIOUS
<1>0. TypeOK'
  BY TypeNext, LoopStep DEF LoopTypeOK
<1> USE LoopAssumption DEF LoopTypeOK, vars, driverVars
<1>1. CASE Connect \/ Disconnect \/ NoCommand
  <2>1. connected' \in BOOLEAN
    <3>1. connected' = FALSE \/ connected' \in BOOLEAN
      BY <1>1 DEF Connect, Disconnect, NoCommand
    <3> QED
      BY <3>1, Zenon
  <2> QED
    BY <1>0, <1>1, <2>1, SampleType DEF Connect, Disconnect, NoCommand
<1>2. ASSUME NEW hot \in SUBSET Joint, Command(hot) PROVE LoopTypeOK'
  <2>1. received' \in BOOLEAN /\ watchdogSpent' \in BOOLEAN
    BY <1>2, Zenon DEF Command, CountCommand
  <2>2. \A j \in Joint : reply[j] # "none" => reply'[j] # "none"
    BY <1>2 DEF Command, SetTarget, DeliverPd, Answer
  <2>3. arrived' \subseteq {j \in Joint : reply'[j] # "none"}
    BY <1>2, <2>2 DEF Command
  <2> QED
    BY <1>0, <1>2, <2>1, <2>3, SampleType DEF Command
<1>3. ASSUME NEW d \in Joint, Drain(d) PROVE LoopTypeOK'
  <2>1. \A j \in Joint \ {d} : reply'[j] = reply[j]
    BY <1>3 DEF Drain, OnFrame, TypeOK
  <2> QED
    BY <1>0, <1>3, <2>1 DEF Drain
<1>4. CASE Drained
  BY <1>0, <1>4 DEF Drained, DrainStep
<1>5. CASE Watchdog
  <2>1. watchdogSpent' \in BOOLEAN
    <3>1. watchdogSpent' = TRUE \/ watchdogSpent' = watchdogSpent
      BY <1>5 DEF Watchdog
    <3> QED
      BY <3>1, Zenon
  <2>2. \A j \in Joint : reply[j] # "none" => reply'[j] # "none"
    BY <1>5 DEF Watchdog, Disable, DeliverPd, Answer
  <2> QED
    BY <1>0, <1>5, <2>1, <2>2 DEF Watchdog, Goto
<1>6. CASE Service
  BY <1>0, <1>6 DEF Service, Goto, ServiceSafety
<1>7. CASE Reenable
  BY <1>0, <1>7 DEF Reenable, Goto, ReenableAll
<1>8. CASE \E d \in Joint : Arrive(d)
  BY <1>0, <1>8 DEF Arrive
<1>9. CASE LoopTick
  <2>1. blocked' \in 0..SpinBudget /\ commandAge' \in 0..MaxCmdAge
    BY <1>9 DEF LoopTick
  <2> QED
    BY <1>0, <1>9, <2>1 DEF LoopTick, Tick
<1>10. CASE LoopFault
  BY <1>0, <1>10 DEF LoopFault
<1>11. CASE UNCHANGED allVars
  BY <1>0, <1>11 DEF allVars, loopVars
<1> QED
  BY <1>1, <1>2, <1>3, <1>4, <1>5, <1>6, <1>7, <1>8, <1>9, <1>10, <1>11
     DEF LoopNext, Iteration

\* Every reachable state of the main loop is well typed.
THEOREM LoopTypeCorrect == LoopSpec => []LoopTypeOK
BY LoopTypeInit, LoopTypeNext, PTL DEF LoopSpec

-----------------------------------------------------------------------------
(* How long force can last. A stream that has not been given up is younger *)
(* than the timeout at the end of an iteration, ages by the spin, and is   *)
(* judged by its age after the spin; one that has been given up leaves     *)
(* nothing but the MOTOR_DISABLEs that Service sends in the same iteration.*)

\* On live buses no MOTOR_DISABLE is owed.
NothingOwed == \A j \in disablePending : BusForJoint(j) \in busOff

StreamInv ==
  /\ watchdogSpent \/ received
  /\ pc \in {"drain1", "drain2", "watchdog"} =>
       (late <=> received /\ commandAge >= CmdTimeout)
  /\ ~watchdogSpent =>
       /\ pc = "spin" => connected /\ commandAge < CmdTimeout + blocked
       /\ pc \in {"drain1", "drain2", "watchdog"} => commandAge < CmdTimeout + SpinBudget
       /\ pc \in {"service", "reenable"} => connected /\ commandAge < CmdTimeout

OwedInv ==
  /\ pc \in {"spin", "reenable"} => NothingOwed
  /\ pc \in {"drain1", "drain2", "watchdog"} /\ watchdogSpent => NothingOwed
  /\ pc = "service" => NothingOwed \/ commandAge < CmdTimeout + SpinBudget

BoundInv == StreamInv /\ OwedInv

\* Before the first command nothing is owed.
LEMMA BoundInit == LoopInit => BoundInv
BY DEF LoopInit, Init, BoundInv, StreamInv, OwedInv, NothingOwed

\* Until the watchdog fires, the last command is no older than its timeout and a blocked spin.
LEMMA StreamNext == LoopTypeOK /\ StreamInv /\ [LoopNext]_allVars => StreamInv'
<1> SUFFICES ASSUME LoopTypeOK, StreamInv, [LoopNext]_allVars PROVE StreamInv'
  OBVIOUS
<1>0. /\ commandAge \in Nat /\ blocked \in 0..SpinBudget
      /\ CmdTimeout \in Nat \ {0} /\ SpinBudget \in Nat
  BY LoopAssumption DEF LoopTypeOK
<1> USE DEF StreamInv
<1>1. CASE Connect \/ Disconnect \/ NoCommand
  <2>1. UNCHANGED <<received, commandAge, watchdogSpent>>
    BY <1>1 DEF Connect, Disconnect, NoCommand
  <2>2. /\ pc = "spin" /\ pc' = "drain1"
        /\ late' <=> received /\ commandAge >= CmdTimeout
    BY <1>1, SampleType DEF Connect, Disconnect, NoCommand
  <2>3. ~watchdogSpent => commandAge < CmdTimeout + SpinBudget
    BY <1>0, <2>2
  <2> QED
    BY <2>1, <2>2, <2>3
<1>2. ASSUME NEW hot \in SUBSET Joint, Command(hot) PROVE StreamInv'
  <2>1. commandAge' = 0 /\ received' = TRUE /\ AfterSpin
    BY <1>2 DEF Command
  <2> QED
    BY <1>0, <2>1, SampleType
<1>3. ASSUME NEW d \in Joint, Drain(d) PROVE StreamInv'
  BY <1>3 DEF Drain
<1>4. CASE Drained
  BY <1>0, <1>4 DEF Drained, DrainStep
<1>5. CASE Watchdog
  BY <1>0, <1>5 DEF Watchdog, Goto, StreamLost
<1>6. CASE Service
  BY <1>6 DEF Service, Goto
<1>7. CASE Reenable
  BY <1>0, <1>7 DEF Reenable, Goto
<1>8. CASE \E d \in Joint : Arrive(d)
  BY <1>8 DEF Arrive
<1>9. CASE LoopTick
  BY <1>0, <1>9 DEF LoopTick
<1>10. CASE LoopFault
  BY <1>10 DEF LoopFault
<1>11. CASE UNCHANGED allVars
  BY <1>11 DEF allVars, loopVars
<1> QED
  BY <1>1, <1>2, <1>3, <1>4, <1>5, <1>6, <1>7, <1>8, <1>9, <1>10, <1>11
     DEF LoopNext, Iteration

\* A MOTOR_DISABLE stays owed on a live bus only from a recent command to the next service.
LEMMA ServedNext ==
  ASSUME SafetyTableRight, "txfull" \notin Faults, LoopTypeOK, StreamInv, OwedInv,
         SpentInv, [LoopNext]_allVars
  PROVE  OwedInv'
<1>0. /\ commandAge \in Nat /\ blocked \in 0..SpinBudget
      /\ CmdTimeout \in Nat \ {0} /\ SpinBudget \in Nat
  BY LoopAssumption DEF LoopTypeOK
<1> USE DEF OwedInv, NothingOwed
<1>1. CASE Connect \/ Disconnect \/ NoCommand
  <2>1. AfterSpin /\ UNCHANGED <<disablePending, busOff, watchdogSpent>>
    BY <1>1 DEF Connect, Disconnect, NoCommand, vars, latchVars
  <2> QED
    BY <2>1, SampleType
<1>2. ASSUME NEW hot \in SUBSET Joint, Command(hot) PROVE OwedInv'
  <2>1. AfterSpin /\ watchdogSpent' = FALSE
    BY <1>2 DEF Command, CountCommand
  <2> QED
    BY <2>1, SampleType
<1>3. ASSUME NEW d \in Joint, Drain(d) PROVE OwedInv'
  <2>1. watchdogSpent => disablePending' = disablePending
    BY <1>3 DEF Drain, OnFrame, Latch, Pending, SpentInv
  <2>2. pc \in {"drain1", "drain2"} /\ pc' = pc /\ busOff' = busOff
        /\ watchdogSpent' = watchdogSpent
    BY <1>3 DEF Drain, OnFrame, DrainStep
  <2> QED
    BY <2>1, <2>2
<1>4. CASE Drained
  BY <1>4 DEF Drained, DrainStep, vars, latchVars
<1>5. CASE Watchdog
  <2>1. /\ pc = "watchdog" /\ pc' = "service"
        /\ UNCHANGED <<disablePending, busOff, commandAge>>
    BY <1>5 DEF Watchdog, Goto, Disable, vars, latchVars
  <2> QED
    BY <1>0, <2>1 DEF StreamInv
<1>6. CASE Service
  <2>1. pc' = "reenable"
    BY <1>6 DEF Service, Goto
  <2>2. /\ disablePending' = (disablePending \cup {j \in jointOk : SafetyBus(j) \in busOff})
                             \ {j \in disablePending : SafetyBus(j) \notin busOff}
        /\ busOff' = busOff
    BY <1>6 DEF Service, ServiceSafety, Latch, Pending
  <2>3. NothingOwed'
    BY <2>2 DEF SafetyTableRight, LoopTypeOK, TypeOK
  <2> QED
    BY <2>1, <2>3
<1>7. CASE Reenable
  BY <1>7 DEF Reenable, Goto, ReenableAll, vars, latchVars
<1>8. CASE \E d \in Joint : Arrive(d)
  BY <1>8 DEF Arrive, vars, latchVars
<1>9. CASE LoopTick
  BY <1>9 DEF LoopTick, Tick, latchVars
<1>10. CASE LoopFault
  <2>1. /\ busOff \subseteq busOff' /\ disablePending' = disablePending
        /\ UNCHANGED <<pc, commandAge, watchdogSpent>>
    BY <1>10 DEF LoopFault, GoBusOff, HotPlug, LoseReply, latchVars
  <2> QED
    BY <2>1
<1>11. CASE UNCHANGED allVars
  BY <1>11 DEF allVars, loopVars, vars, latchVars
<1> QED
  BY <1>1, <1>2, <1>3, <1>4, <1>5, <1>6, <1>7, <1>8, <1>9, <1>10, <1>11
     DEF LoopNext, Iteration

\* The invariants of the loop hold together.
LEMMA LoopInvariants ==
  ASSUME SafetyTableRight, "txfull" \notin Faults
  PROVE  LoopSpec => [](LoopTypeOK /\ SpentInv /\ BoundInv /\ ForceIsTracked)
<1>1. LoopInit => LoopTypeOK /\ SpentInv /\ BoundInv
  BY LoopTypeInit, BoundInit DEF LoopInit, Init, SpentInv
<1>2. (LoopTypeOK /\ SpentInv /\ BoundInv) /\ [LoopNext]_allVars
        => (LoopTypeOK /\ SpentInv /\ BoundInv)'
  BY LoopTypeNext, SpentNext, StreamNext, ServedNext DEF BoundInv
<1>3. LoopSpec => []ForceIsTracked
  BY ForceTracked, LoopImplementsActuator, PTL
<1> QED
  BY <1>1, <1>2, <1>3, PTL DEF LoopSpec

\* What may push: a joint of a stream that has not been given up, or one that
\* is owed a MOTOR_DISABLE.
LEMMA WhoPushes ==
  ASSUME ForceIsTracked, SpentInv
  PROVE  Pushing # {} => ~watchdogSpent \/ ~NothingOwed
BY DEF ForceIsTracked, SpentInv, NothingOwed, Pushing

\* The drivers are limp when the bridge starts to create a session.
THEOREM LimpWhileReconnecting ==
  ASSUME SafetyTableRight, "txfull" \notin Faults
  PROVE  LoopSpec => []NoForceWhileReconnecting
<1>1. SpentInv /\ BoundInv /\ ForceIsTracked => NoForceWhileReconnecting
  BY WhoPushes DEF BoundInv, StreamInv, OwedInv, NoForceWhileReconnecting
<1> QED
  BY <1>1, LoopInvariants, PTL

\* Force outlives the last command by the timeout and one spin at most.
THEOREM ForceDoesNotLast ==
  ASSUME SafetyTableRight, "txfull" \notin Faults
  PROVE  LoopSpec => []ForceIsBounded
<1>1. LoopTypeOK /\ SpentInv /\ BoundInv /\ ForceIsTracked => ForceIsBounded
  <2> SUFFICES ASSUME LoopTypeOK, SpentInv, BoundInv, ForceIsTracked, Pushing # {}
               PROVE  commandAge < CmdTimeout + SpinBudget
    BY DEF ForceIsBounded
  <2>1. /\ commandAge \in Nat /\ blocked \in 0..SpinBudget
        /\ CmdTimeout \in Nat \ {0} /\ SpinBudget \in Nat
        /\ pc \in {"spin", "drain1", "drain2", "watchdog", "service", "reenable"}
    BY LoopAssumption DEF LoopTypeOK
  <2> QED
    BY <2>1, WhoPushes DEF BoundInv, StreamInv, OwedInv
<1> QED
  BY <1>1, LoopInvariants, PTL

\* The watchdog never ends a stream whose agent is there and whose command
\* has just come in.
THEOREM WatchdogIsJust == LoopSpec => WatchdogOnlyWhenLost
<1>1. LoopTypeOK /\ StreamInv /\ [LoopNext]_allVars
        => [hasSetTarget /\ ~hasSetTarget' => ~connected \/ commandAge >= CmdTimeout]_allVars
  <2> SUFFICES ASSUME LoopTypeOK, StreamInv, LoopNext, hasSetTarget, ~hasSetTarget'
               PROVE  ~connected \/ commandAge >= CmdTimeout
    BY DEF allVars
  <2>1. CASE Watchdog
    BY <2>1 DEF Watchdog, Goto, StreamLost, StreamInv, vars, commandVars
  <2>2. CASE \E hot \in SUBSET Joint : Command(hot)
    BY <2>2 DEF Command, SetTarget
  <2>3. ASSUME NEW d \in Joint, Drain(d) PROVE hasSetTarget' = hasSetTarget
    BY <2>3 DEF Drain, OnFrame
  <2>4. CASE Connect \/ Disconnect \/ NoCommand \/ Drained
    BY <2>4 DEF Connect, Disconnect, NoCommand, Drained, vars, commandVars
  <2>5. CASE Service \/ Reenable
    BY <2>5 DEF Service, ServiceSafety, Reenable, ReenableAll, vars, commandVars
  <2>6. CASE (\E d \in Joint : Arrive(d)) \/ LoopTick \/ LoopFault
    BY <2>6 DEF Arrive, LoopTick, Tick, LoopFault, GoBusOff, HotPlug, LoseReply,
                vars, commandVars
  <2> QED
    BY <2>1, <2>2, <2>3, <2>4, <2>5, <2>6 DEF LoopNext, Iteration
<1>2. LoopInit => StreamInv
  BY BoundInit DEF BoundInv
<1> QED
  BY <1>1, <1>2, LoopTypeInit, LoopTypeNext, StreamNext, PTL
     DEF LoopSpec, WatchdogOnlyWhenLost
=============================================================================
