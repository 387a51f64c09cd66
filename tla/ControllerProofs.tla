-------------------------- MODULE ControllerProofs --------------------------
(***************************************************************************)
(* The invariants of the controller's FSM, for every length of the         *)
(* stand-up, of the blend and of a run.                                    *)
(***************************************************************************)
EXTENDS Controller, TLAPS

\* Out of HOME the stand-up is latched and its periods are counted by the clock.
StandupInv ==
  seen # "home" =>
    /\ standup
    /\ rampTicks = IF wbcTime < Standup THEN wbcTime + 1 ELSE Standup
    /\ written \in {"wbc", "blend", "hold"} => wbcTime >= Standup

\* A segment that was requested in a stand-up starts with its end, any other
\* at once; its periods are counted by the clock.
SegmentInv ==
  seen = "trot" =>
    /\ epoch >= Standup
    /\ wbcTime < epoch => trotTicks = 0 /\ epoch = Standup
    /\ wbcTime >= epoch => trotTicks = wbcTime - epoch + 1

\* The last call was made by a runtime that still exists, and a trot continues
\* from it or has announced that it does not.
CallInv ==
  /\ lastCall # -1 => runtime
  /\ seen = "trot" /\ ~told => lastCall <= RuntimeTime("trot", wbcTime, epoch, standup)
  /\ ~surprised

\* A hold is to be blended out, from the start of a blend, unless the way
\* leads through a stand-up.
EffortInv ==
  /\ holdActive => blend < Blend
  /\ written = "hold" /\ seen # "home" => holdActive /\ blend = 0

IInv == TypeOK /\ StandupInv /\ SegmentInv /\ CallInv /\ EffortInv

\* The invariant holds on activation.
LEMMA InitInv == Init => IInv
<1> SUFFICES ASSUME Init PROVE IInv
  OBVIOUS
<1>1. TypeOK
  <2>1. /\ activated \in BOOLEAN /\ standup \in BOOLEAN /\ runtime \in BOOLEAN
        /\ holdActive \in BOOLEAN /\ told \in BOOLEAN /\ surprised \in BOOLEAN
    BY Zenon DEF Init
  <2> QED
    BY <2>1, ControllerAssumption DEF Init, TypeOK, FsmState, Source
<1>2. StandupInv /\ SegmentInv
  BY DEF Init, StandupInv, SegmentInv
<1>3. CallInv /\ EffortInv
  BY DEF Init, CallInv, EffortInv
<1> QED
  BY <1>1, <1>2, <1>3 DEF IInv

-----------------------------------------------------------------------------
(* What happens between two regular updates.                               *)

Quiet ==
  \/ Activate \/ Deactivate \/ BadPeriod \/ TimeJump
  \/ (\E state \in FsmState : Command(state))
  \/ UNCHANGED vars

\* Steps that are not a regular update keep the types.
LEMMA QuietType == TypeOK /\ Quiet => TypeOK'
<1> SUFFICES ASSUME TypeOK, Quiet PROVE TypeOK'
  OBVIOUS
<1> USE ControllerAssumption
        DEF TypeOK, clockVars, effortVars, historyVars, FsmState, Source
<1>1. CASE Activate
  <2>1. activated' \in BOOLEAN /\ runtime' \in BOOLEAN /\ holdActive' \in BOOLEAN
    BY <1>1, Zenon DEF Activate
  <2> QED
    BY <1>1, <2>1 DEF Activate
<1>2. CASE Deactivate
  <2>1. activated' \in BOOLEAN /\ runtime' \in BOOLEAN
    BY <1>2, Zenon DEF Deactivate
  <2> QED
    BY <1>2, <2>1 DEF Deactivate
<1>3. CASE BadPeriod
  BY <1>3 DEF BadPeriod
<1>4. CASE TimeJump
  BY <1>4 DEF TimeJump
<1>5. CASE \E state \in FsmState : Command(state)
  BY <1>5 DEF Command
<1>6. CASE UNCHANGED vars
  BY <1>6 DEF vars
<1> QED
  BY <1>1, <1>2, <1>3, <1>4, <1>5, <1>6 DEF Quiet

\* Steps that are not a regular update keep the invariant.
LEMMA QuietNext == IInv /\ Quiet => IInv'
<1> SUFFICES ASSUME IInv, Quiet PROVE IInv'
  OBVIOUS
<1>1. TypeOK'
  BY QuietType DEF IInv
<1> USE DEF IInv, StandupInv, SegmentInv, CallInv, EffortInv, RuntimeTime,
            clockVars, effortVars, historyVars
<1>2. CASE Activate
  <2>1. StandupInv' /\ SegmentInv'
    BY <1>2 DEF Activate
  <2>2. CallInv' /\ EffortInv'
    BY <1>2 DEF Activate
  <2> QED
    BY <1>1, <2>1, <2>2
<1>3. CASE Deactivate
  <2>1. StandupInv' /\ SegmentInv' /\ EffortInv'
    BY <1>3 DEF Deactivate
  <2>2. RuntimeTime("trot", wbcTime, epoch, standup) \in Nat
    BY ControllerAssumption DEF TypeOK
  <2>3. CallInv'
    BY <1>3, <2>2 DEF Deactivate
  <2> QED
    BY <1>1, <2>1, <2>3
<1>4. CASE BadPeriod
  BY <1>1, <1>4 DEF BadPeriod
<1>5. CASE TimeJump
  <2>1. StandupInv' /\ SegmentInv' /\ EffortInv'
    BY <1>5 DEF TimeJump
  <2>2. CallInv'
    BY <1>5 DEF TimeJump
  <2> QED
    BY <1>1, <2>1, <2>2
<1>6. CASE \E state \in FsmState : Command(state)
  BY <1>1, <1>6 DEF Command
<1>7. CASE UNCHANGED vars
  BY <1>1, <1>7 DEF vars
<1> QED
  BY <1>2, <1>3, <1>4, <1>5, <1>6, <1>7 DEF Quiet

-----------------------------------------------------------------------------
(* A regular update, in the parts it is made of.                           *)

\* The clock and the start of the segment, without their primes.
LEMMA ClockStep ==
  ASSUME IInv, Tick
  PROVE  /\ wbcTime' \in 0..MaxTime /\ epoch' \in 0..MaxTime /\ standup' \in BOOLEAN
         /\ seen' = fsm
         /\ fsm # "home" => standup'
         /\ Leaving => wbcTime' = 0
         /\ fsm # "home" /\ seen # "home" => wbcTime' = wbcTime + 1
         /\ Entering => epoch' = IF Standup > wbcTime' THEN Standup ELSE wbcTime'
         /\ fsm = "trot" /\ seen = "trot" => epoch' = epoch
<1>1. /\ wbcTime' \in 0..MaxTime
      /\ Leaving => wbcTime' = 0
      /\ fsm # "home" /\ seen # "home" => wbcTime' = wbcTime + 1
  BY ControllerAssumption DEF IInv, TypeOK, Tick, Clock, Leaving
<1>2. standup' \in BOOLEAN /\ seen' = fsm
  BY Zenon DEF Tick, Epoch
<1>3. fsm # "home" => standup'
  BY DEF IInv, StandupInv, Tick, Epoch, Leaving
<1>4. Entering => epoch' = IF Standup > wbcTime' THEN Standup ELSE wbcTime'
  BY <1>3 DEF Tick, Epoch, Entering, SegmentStart
<1>5. fsm = "trot" /\ seen = "trot" => epoch' = epoch
  BY DEF Tick, Epoch, Entering
<1>6. epoch' \in 0..MaxTime
  BY <1>1, ControllerAssumption DEF IInv, TypeOK, Tick, Epoch, SegmentStart
<1> QED
  BY <1>1, <1>2, <1>3, <1>4, <1>5, <1>6

\* The runtime is made and called only by a state that is past its stand-up, and is not taken away.
LEMMA RuntimeStep ==
  ASSUME NEW fresh \in BOOLEAN, runtime \in BOOLEAN, Runtime(fresh)
  PROVE  runtime' \in BOOLEAN /\ (runtime => runtime') /\ fsm # "home" /\ ~Ramping
<1>1. runtime' = runtime \/ runtime' = TRUE
  BY Zenon DEF Runtime
<1>2. runtime' \in BOOLEAN /\ (runtime => runtime')
  BY <1>1, Zenon
<1> QED
  BY <1>2, Zenon DEF Runtime

\* Where the effort comes from, and what becomes of the hold.
EffortNext ==
  /\ written' \in Source
  /\ lastValid' \in {"none", "present", "past"}
  /\ runtime' \in BOOLEAN /\ holdActive' \in BOOLEAN
  /\ holdActive' => lastValid' # "none"
  /\ blend' \in 0..Blend
  /\ holdActive' => blend' < Blend
  /\ written' = "hold" => holdActive' /\ blend' = 0
  /\ written' \in {"wbc", "blend", "hold"} => fsm # "home" /\ ~Ramping
  /\ runtime => runtime'

\* Where the effort of an update comes from, and what it does to hold and blend.
LEMMA EffortStep == ASSUME IInv, Tick PROVE EffortNext
<1> USE DEF EffortNext
<1>1. /\ runtime \in BOOLEAN /\ holdActive \in BOOLEAN /\ blend \in 0..Blend
      /\ lastValid \in {"none", "present", "past"} /\ (holdActive => lastValid # "none")
      /\ holdActive => blend < Blend
  BY DEF IInv, TypeOK, EffortInv
<1>2. CASE /\ Home \/ StandupRamp
           /\ lastValid' = IF Leaving /\ lastValid # "none" THEN "past" ELSE lastValid
  <2>1. /\ runtime' = runtime /\ holdActive' = holdActive /\ blend' = blend
        /\ written' \in {"zero", "ramp"}
    BY <1>2 DEF Home, StandupRamp
  <2> QED
    BY <1>1, <1>2, <2>1 DEF Source
<1>3. ASSUME NEW fresh \in BOOLEAN, Runtime(fresh), Hold, UNCHANGED lastValid
      PROVE  EffortNext
  <2>1. runtime' \in BOOLEAN /\ (runtime => runtime') /\ fsm # "home" /\ ~Ramping
    BY <1>1, <1>3, RuntimeStep
  <2>2. holdActive' \in BOOLEAN
    <3>1. holdActive' = TRUE \/ holdActive' = FALSE
      BY <1>3 DEF Hold
    <3> QED
      BY <3>1, Zenon
  <2>3. /\ blend' = 0 /\ lastValid' = lastValid
        /\ holdActive' <=> lastValid # "none"
        /\ written' = IF lastValid = "none" THEN "zero" ELSE "hold"
    BY <1>3 DEF Hold
  <2> QED
    BY <1>1, <2>1, <2>2, <2>3, ControllerAssumption DEF Source
<1>4. ASSUME NEW fresh \in BOOLEAN, Runtime(fresh), Drive, lastValid' = "present"
      PROVE  EffortNext
  <2>1. runtime' \in BOOLEAN /\ (runtime => runtime') /\ fsm # "home" /\ ~Ramping
    BY <1>1, <1>4, RuntimeStep
  <2>2. holdActive' \in BOOLEAN
    <3>1. holdActive' = TRUE \/ holdActive' = FALSE \/ holdActive' = holdActive
      BY <1>4 DEF Drive
    <3> QED
      BY <1>1, <3>1, Zenon
  <2> QED
    BY <1>1, <1>4, <2>1, <2>2, ControllerAssumption DEF Drive, Source
<1> QED
  BY <1>2, <1>3, <1>4 DEF Tick

\* What is remembered of the update.
LEMMA MemoryStep ==
  ASSUME IInv, Tick
  PROVE  \E called \in BOOLEAN :
           /\ Remember(called)
           /\ called => runtime' /\ fsm # "home"
BY Zenon DEF Tick, Runtime

\* An update keeps the count of the stand-up.
LEMMA TickStandup == ASSUME IInv, Tick PROVE StandupInv'
<1>1. PICK called \in BOOLEAN : Remember(called)
  BY MemoryStep
<1>2. CASE fsm = "home"
  BY <1>2, ClockStep DEF StandupInv
<1>3. CASE fsm # "home"
  <2>1. rampTicks' = IF Leaving THEN 1
                     ELSE IF wbcTime' < Standup THEN rampTicks + 1 ELSE rampTicks
    BY <1>1, <1>3, ClockStep DEF Remember, Ramping
  <2>2. rampTicks' = IF wbcTime' < Standup THEN wbcTime' + 1 ELSE Standup
    BY <1>3, <2>1, ClockStep, ControllerAssumption
       DEF IInv, TypeOK, StandupInv, Leaving
  <2>3. written' \in {"wbc", "blend", "hold"} => wbcTime' >= Standup
    BY <1>3, EffortStep, ClockStep, ControllerAssumption DEF EffortNext, Ramping
  <2> QED
    BY <1>3, <2>2, <2>3, ClockStep DEF StandupInv
<1> QED
  BY <1>2, <1>3

\* An update keeps the count of the segment.
LEMMA TickSegment == ASSUME IInv, Tick PROVE SegmentInv' /\ trotTicks' \in 0..MaxTime + 1
<1>1. PICK called \in BOOLEAN : Remember(called)
  BY MemoryStep
<1>2. CASE fsm # "trot"
  BY <1>1, <1>2, ClockStep DEF SegmentInv, Remember, IInv, TypeOK
<1>3. CASE fsm = "trot"
  <2>1. trotTicks' = LET before == IF Entering THEN 0 ELSE trotTicks
                     IN  IF wbcTime' < Standup THEN before ELSE before + 1
    BY <1>1, <1>3, ClockStep, ControllerAssumption DEF Remember, Ramping, Entering
  <2>2. CASE Entering
    BY <1>3, <2>1, <2>2, ClockStep, ControllerAssumption DEF SegmentInv
  <2>3. CASE ~Entering
    <3>1. seen = "trot" /\ epoch' = epoch /\ wbcTime' = wbcTime + 1
      BY <1>3, <2>3, ClockStep DEF Entering
    <3> QED
      BY <2>1, <2>3, <3>1, ClockStep, ControllerAssumption
         DEF IInv, TypeOK, SegmentInv
  <2> QED
    BY <2>2, <2>3
<1> QED
  BY <1>2, <1>3

\* An update calls the runtime with a clock it knows of.
LEMMA TickCall == ASSUME IInv, Tick PROVE CallInv' /\ lastCall' \in -1..MaxTime
<1> DEFINE time == RuntimeTime(fsm, wbcTime', epoch', standup')
           now == told \/ (Entering /\ runtime)
<1>1. PICK called \in BOOLEAN : Remember(called) /\ (called => runtime' /\ fsm # "home")
  BY MemoryStep
<1>2. time \in 0..MaxTime
  BY ClockStep, ControllerAssumption DEF RuntimeTime
<1>3. fsm = "trot" /\ ~now => lastCall <= time
  <2> SUFFICES ASSUME fsm = "trot", ~now PROVE lastCall <= time
    OBVIOUS
  <2>1. CASE Entering
    <3>1. lastCall = -1
      BY <2>1 DEF IInv, CallInv
    <3> QED
      BY <1>2, <3>1
  <2>2. CASE ~Entering
    <3>1. seen = "trot" /\ epoch' = epoch /\ wbcTime' = wbcTime + 1 /\ ~told
      BY <2>2, ClockStep DEF Entering
    <3> HIDE DEF now
    <3>2. lastCall <= RuntimeTime("trot", wbcTime, epoch, standup)
      BY <3>1 DEF IInv, CallInv
    <3> QED
      BY <3>1, <3>2, ControllerAssumption DEF IInv, TypeOK, RuntimeTime
  <2> QED
    BY <2>1, <2>2
<1>4. lastCall \in -1..MaxTime /\ ~surprised /\ (lastCall # -1 => runtime)
  BY DEF IInv, TypeOK, CallInv
<1>5. CASE called
  <2>1. lastCall' = time /\ runtime' /\ fsm # "home"
    BY <1>1, <1>5 DEF Remember
  <2>2. surprised' = (surprised \/ (fsm = "trot" /\ time < lastCall /\ ~now))
    BY <1>1, <1>5 DEF Remember
  <2>3. ~(fsm = "trot" /\ time < lastCall /\ ~now)
    <3> HIDE DEF now
    <3> QED
      BY <1>2, <1>3, <1>4
  <2>4. ~surprised'
    <3> HIDE DEF now, time
    <3> QED
      BY <1>4, <2>2, <2>3
  <2>5. seen' = "trot" => lastCall' <= RuntimeTime("trot", wbcTime', epoch', standup')
    BY <1>2, <2>1, ClockStep, ControllerAssumption DEF RuntimeTime
  <2> QED
    BY <1>2, <2>1, <2>4, <2>5 DEF CallInv
<1>6. CASE ~called
  <2>1. told' = now /\ lastCall' = lastCall /\ surprised' = surprised
    BY <1>1, <1>6 DEF Remember
  <2>2. seen' = "trot" /\ ~told' => lastCall' <= RuntimeTime("trot", wbcTime', epoch', standup')
    <3> HIDE DEF now
    <3> QED
      BY <1>3, <2>1, ClockStep
  <2>3. lastCall' # -1 => runtime'
    BY <1>4, <2>1, EffortStep DEF EffortNext
  <2> QED
    BY <1>4, <2>1, <2>2, <2>3 DEF CallInv
<1> QED
  BY <1>5, <1>6

\* An update keeps the types.
LEMMA TickType == ASSUME IInv, Tick PROVE TypeOK'
<1>1. PICK called \in BOOLEAN : Remember(called)
  BY MemoryStep
<1>2. rampTicks' \in 0..Standup
  <2>1. CASE fsm = "home"
    BY <1>1, <2>1, ControllerAssumption DEF Remember, Leaving, IInv, TypeOK
  <2>2. CASE fsm # "home"
    BY <2>2, TickStandup, ClockStep, ControllerAssumption DEF StandupInv
  <2> QED
    BY <2>1, <2>2
<1>3. told' \in BOOLEAN /\ surprised' \in BOOLEAN
  <2>1. told \in BOOLEAN /\ surprised \in BOOLEAN
    BY DEF IInv, TypeOK
  <2> QED
    BY <1>1, <2>1, Zenon DEF Remember
<1>4. activated' \in BOOLEAN /\ fsm' \in FsmState /\ seen' \in FsmState
  BY ClockStep DEF Tick, IInv, TypeOK
<1> QED
  BY <1>2, <1>3, <1>4, ClockStep, EffortStep, TickSegment, TickCall
     DEF TypeOK, EffortNext

\* Every step keeps the invariant.
LEMMA InvNext == IInv /\ [Next]_vars => IInv'
<1> SUFFICES ASSUME IInv, [Next]_vars PROVE IInv'
  OBVIOUS
<1>1. CASE Tick
  <2>1. EffortInv'
    BY <1>1, EffortStep DEF EffortNext, EffortInv
  <2> QED
    BY <1>1, <2>1, TickType, TickStandup, TickSegment, TickCall DEF IInv
<1>2. CASE Quiet
  BY <1>2, QuietNext
<1> QED
  BY <1>1, <1>2 DEF Next, Quiet

-----------------------------------------------------------------------------
(* The theorems.                                                           *)

\* The invariant holds in every reachable state of the controller.
THEOREM Invariance == Spec => []IInv
BY InitInv, InvNext, PTL DEF Spec

\* Every reachable state of the controller is well typed.
THEOREM TypeCorrect == Spec => []TypeOK
<1>1. IInv => TypeOK
  BY DEF IInv
<1> QED
  BY <1>1, Invariance, PTL

\* The WBC takes over only after a complete stand-up.
THEOREM StandupCompletes == Spec => []StandupIsComplete
<1>1. IInv => StandupIsComplete
  BY ControllerAssumption DEF IInv, TypeOK, StandupInv, StandupIsComplete
<1> QED
  BY <1>1, Invariance, PTL

\* The clock of a locomotion segment starts at zero.
THEOREM SegmentsStartAtZero == Spec => []SegmentClockStartsAtZero
<1>1. IInv => SegmentClockStartsAtZero
  BY ControllerAssumption
     DEF IInv, TypeOK, SegmentInv, SegmentClockStartsAtZero, RuntimeTime
<1> QED
  BY <1>1, Invariance, PTL

\* The runtime is told before its clock goes back.
THEOREM RestartsAreAnnounced == Spec => []NoUnannouncedRestart
<1>1. IInv => NoUnannouncedRestart
  BY DEF IInv, CallInv, NoUnannouncedRestart
<1> QED
  BY <1>1, Invariance, PTL

\* An effort that was held is blended out, it does not step.
THEOREM HoldsAreBlendedOut == Spec => HoldIsBlendedOut
<1>1. IInv /\ [Next]_vars => [written = "hold" => written' # "wbc"]_vars
  <2> SUFFICES ASSUME IInv, Next, written = "hold", written' = "wbc" PROVE FALSE
    BY DEF vars
  <2>1. CASE Tick
    <3>1. fsm # "home" /\ ~Ramping
      BY <2>1, EffortStep DEF EffortNext
    <3>2. seen # "home"
      BY <2>1, <3>1, ClockStep, ControllerAssumption DEF Leaving, Ramping
    <3>3. holdActive /\ blend = 0
      BY <3>2 DEF IInv, EffortInv
    <3> QED
      BY <2>1, <3>3, ControllerAssumption
         DEF Tick, Home, StandupRamp, Hold, Drive
  <2>2. CASE Quiet
    BY <2>2 DEF Quiet, Activate, Deactivate, BadPeriod, TimeJump, Command, vars
  <2> QED
    BY <2>1, <2>2 DEF Next, Quiet
<1> QED
  BY <1>1, Invariance, PTL DEF Spec, HoldIsBlendedOut
=============================================================================
