----------------------------- MODULE Controller -----------------------------
(***************************************************************************)
(* MegadogController, the ros2_control controller of the robot: the FSM    *)
(* that /megadog/cmd drives, the stand-up ramp, the clock it gives to the  *)
(* WBC runtime, and the effort it writes when the runtime has none.        *)
(*                                                                         *)
(* Torques are abstracted to where they come from.  Time is counted in     *)
(* control periods.  The runtime's answer is any of those update() has.    *)
(***************************************************************************)
EXTENDS Integers

CONSTANTS
  Standup,   \* kStandupDurationS, in control periods
  Blend,     \* kEffortBlendDurationS, in control periods
  MaxTime    \* wbc_time_s_ is cut off here

ASSUME ControllerAssumption ==
  /\ Standup \in Nat \ {0} /\ Blend \in Nat /\ Blend >= 2
  /\ MaxTime \in Nat /\ MaxTime > Standup

\* STAND and STAND_WBC are alike here, and so are the trot-family states.
FsmState == {"home", "stand", "nmpc", "trot"}

VARIABLES
  activated,   \* the controller is in its active lifecycle state
  fsm,         \* fsm_state_, written by the /megadog/cmd callback
  seen,        \* last_fsm_state_seen_
  wbcTime,     \* wbc_time_s_
  epoch,       \* locomotion_runtime_epoch_wbc_time_s_
  standup,     \* standup_start_latched_
  runtime,     \* runtime_ # nullptr
  lastValid,   \* last_valid_effort_: none, or of the present or a past session
  holdActive,  \* effort_hold_active_
  blend,       \* effort_blend_elapsed_s_
  written,     \* where the effort on the command interfaces comes from
  rampTicks,   \* history: stand-up periods since HOME
  trotTicks,   \* history: periods driven since the trot was entered
  lastCall,    \* history: time of the last MPC call, -1 if there is none
  told,        \* history: the runtime was told of a new segment since then
  surprised    \* history: a trot call whose clock went back unannounced

clockVars == <<wbcTime, epoch, standup>>
effortVars == <<lastValid, holdActive, blend>>
historyVars == <<rampTicks, trotTicks, lastCall, told, surprised>>
vars == <<activated, fsm, seen, clockVars, runtime, effortVars, written, historyVars>>

Source == {"zero", "ramp", "wbc", "blend", "hold", "frozen"}

TypeOK ==
  /\ activated \in BOOLEAN /\ fsm \in FsmState /\ seen \in FsmState
  /\ wbcTime \in 0..MaxTime /\ epoch \in 0..MaxTime
  /\ standup \in BOOLEAN /\ runtime \in BOOLEAN
  /\ lastValid \in {"none", "present", "past"}
  /\ holdActive \in BOOLEAN
  /\ holdActive => lastValid # "none"
  /\ blend \in 0..Blend
  /\ written \in Source
  /\ rampTicks \in 0..Standup /\ trotTicks \in 0..MaxTime + 1
  /\ lastCall \in -1..MaxTime /\ told \in BOOLEAN /\ surprised \in BOOLEAN

Init ==
  /\ activated = FALSE /\ fsm = "home" /\ seen = "home"
  /\ wbcTime = 0 /\ epoch = 0 /\ standup = FALSE
  /\ runtime = FALSE
  /\ lastValid = "none" /\ holdActive = FALSE /\ blend = 0
  /\ written = "zero"
  /\ rampTicks = 0 /\ trotTicks = 0
  /\ lastCall = -1 /\ told = FALSE /\ surprised = FALSE

-----------------------------------------------------------------------------
\* on_activate. The latch of the stand-up is the one thing it leaves alone.
Activate ==
  /\ ~activated /\ activated' = TRUE
  /\ fsm' = "home" /\ seen' = "home"
  /\ wbcTime' = 0 /\ epoch' = 0 /\ runtime' = FALSE
  /\ lastValid' = "none" /\ holdActive' = FALSE /\ blend' = 0
  /\ lastCall' = -1
  /\ UNCHANGED <<standup, written, rampTicks, trotTicks, told, surprised>>

\* on_deactivate: the effort on the interfaces stays.
Deactivate ==
  /\ activated /\ activated' = FALSE
  /\ runtime' = FALSE /\ lastCall' = -1
  /\ UNCHANGED <<fsm, seen, clockVars, effortVars, written, rampTicks, trotTicks,
                 told, surprised>>

\* The /megadog/cmd callback, on its own thread.
Command(state) ==
  /\ fsm' = state
  /\ UNCHANGED <<activated, seen, clockVars, runtime, effortVars, written, historyVars>>

\* A control period that is not a positive number.
BadPeriod ==
  /\ activated
  /\ written' = "zero"
  /\ UNCHANGED <<activated, fsm, seen, clockVars, runtime, effortVars, historyVars>>

\* A control period above kMaxControllerPeriodS.
TimeJump ==
  /\ activated
  /\ written' = IF lastValid = "none" THEN "zero" ELSE "frozen"
  /\ told' = (told \/ runtime)
  /\ UNCHANGED <<activated, fsm, seen, clockVars, runtime, effortVars, rampTicks,
                 trotTicks, lastCall, surprised>>

-----------------------------------------------------------------------------
(* A regular update. `fsm` is loaded once, at its start.                   *)

Leaving == seen = "home" /\ fsm # "home"

EnteringOnlyFromStandBug == fsm = "trot" /\ seen = "stand"
Entering == fsm = "trot" /\ seen # "trot"

ClockRunsOnBug ==
  wbcTime' = IF fsm # "home" THEN wbcTime + 1 ELSE wbcTime
Clock ==
  wbcTime' = IF Leaving THEN 0 ELSE IF fsm # "home" THEN wbcTime + 1 ELSE wbcTime

SegmentStartBug == wbcTime'
SegmentStart ==
  IF standup' /\ Standup > wbcTime' THEN Standup ELSE wbcTime'

Epoch ==
  /\ standup' = (fsm # "home" /\ (Leaving \/ standup))
  /\ epoch' = IF fsm = "home" THEN 0 ELSE IF Entering THEN SegmentStart ELSE epoch

\* The time the runtime is called with.
RuntimeTime(state, time, start, latched) ==
  LET from == IF state \in {"stand", "nmpc"} /\ latched THEN Standup ELSE start
  IN  IF time > from THEN time - from ELSE 0

Ramping == standup' /\ wbcTime' < Standup

Home ==
  /\ fsm = "home"
  /\ written' = "zero"
  /\ UNCHANGED <<runtime, holdActive, blend>>

StandupRamp ==
  /\ fsm # "home" /\ Ramping
  /\ written' = "ramp"
  /\ UNCHANGED <<runtime, holdActive, blend>>

\* The runtime is created, which may fail, and called, if an IMU or a base
\* pose is fresh.
Runtime(fresh) ==
  /\ fsm # "home" /\ ~Ramping
  /\ runtime' \in IF fresh THEN {runtime, TRUE} ELSE {runtime}

\* The runtime has an effort: ramp up to it after a hold.
Drive ==
  IF holdActive
    THEN /\ blend' = blend + 1
         /\ holdActive' = (blend' < Blend)
         /\ written' = IF holdActive' THEN "blend" ELSE "wbc"
    ELSE /\ written' = "wbc"
         /\ UNCHANGED <<holdActive, blend>>

BlendNotRestartedBug ==
  /\ written' = IF lastValid = "none" THEN "zero" ELSE "hold"
  /\ holdActive' = (lastValid # "none")
  /\ UNCHANGED blend
\* It has none: hold the last one.
Hold ==
  /\ written' = IF lastValid = "none" THEN "zero" ELSE "hold"
  /\ holdActive' = (lastValid # "none")
  /\ blend' = 0

\* What the properties remember of an update.
Remember(called) ==
  /\ rampTicks' = IF Leaving THEN 1
                  ELSE IF fsm # "home" /\ Ramping THEN rampTicks + 1 ELSE rampTicks
  /\ trotTicks' = LET before == IF fsm = "trot" /\ seen # "trot" THEN 0 ELSE trotTicks
                  IN  IF fsm = "trot" /\ ~Ramping THEN before + 1 ELSE before
  /\ LET time == RuntimeTime(fsm, wbcTime', epoch', standup')
         now == told \/ (Entering /\ runtime)
     IN  IF called
           THEN /\ lastCall' = time /\ told' = FALSE
                /\ surprised' = (surprised \/ (fsm = "trot" /\ time < lastCall /\ ~now))
           ELSE /\ told' = now /\ UNCHANGED <<lastCall, surprised>>

Tick ==
  /\ activated
  /\ wbcTime < MaxTime \/ fsm = "home" \/ Leaving
  /\ Clock /\ Epoch
  /\ seen' = fsm
  /\ UNCHANGED <<activated, fsm>>
  /\ \/ /\ Home \/ StandupRamp
        /\ lastValid' = IF Leaving /\ lastValid # "none" THEN "past" ELSE lastValid
        /\ Remember(FALSE)
     \/ \E fresh \in BOOLEAN :
          /\ Runtime(fresh)
          /\ Remember(fresh /\ runtime' /\ fsm \in {"nmpc", "trot"})
          /\ \/ Hold /\ UNCHANGED lastValid
             \/ fresh /\ runtime' /\ Drive /\ lastValid' = "present"

Next ==
  \/ Activate \/ Deactivate \/ BadPeriod \/ TimeJump \/ Tick
  \/ \E state \in FsmState : Command(state)

Spec == Init /\ [][Next]_vars

-----------------------------------------------------------------------------
(* Properties.                                                             *)

\* The WBC takes over only after a complete stand-up from wherever the joints
\* were when HOME was left (MegadogController.cpp:1052-1072).
StandupIsComplete ==
  seen # "home" /\ written \in {"wbc", "blend", "hold"} => rampTicks = Standup

\* After a hold the effort is ramped from the held one to the WBC's, it does
\* not step (MegadogController.cpp:99-115, MegadogController.h:173-177).
HoldIsBlendedOut ==
  [][written = "hold" => written' # "wbc"]_vars

\* The clock of a locomotion segment starts at zero with the first period in
\* which the segment may be driven, whether the trot was entered from a
\* stand, from HOME, or in the middle of a stand-up (MegadogController.cpp:997).
SegmentClockStartsAtZero ==
  seen = "trot" /\ trotTicks > 0
    => RuntimeTime(seen, wbcTime, epoch, standup) = trotTicks - 1

\* The runtime never sees its clock go back in a trot it was not told of
\* (MegadogWbcRuntime.h:137-145).
NoUnannouncedRestart == ~surprised

\* In HOME the effort is zero and stays zero (MegadogController.h:49-50).
HomeIsLimp ==
  [][seen = "home" /\ fsm = "home" /\ written = "zero" => written' = "zero"]_vars

\* A blend releases a hold: after a stand-up, which has nothing to release,
\* the effort does not start from an older one (MegadogController.h:173-177).
BlendReleasesHold == [][written = "ramp" => written' # "blend"]_vars
=============================================================================
