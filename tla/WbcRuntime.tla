----------------------------- MODULE WbcRuntime -----------------------------
(***************************************************************************)
(* MegadogWbcRuntime: the real-time control thread (update and             *)
(* beginNewLocomotionSegment, called by MegadogController) and the MPC     *)
(* thread (mpcThreadFunction) share the reference manager, the gait        *)
(* schedule, the observation and the policy buffer of OCS2's MRT.          *)
(*                                                                         *)
(* The numbers are abstracted to one question: does a datum belong to the  *)
(* present locomotion segment?  `current` is the shared data that do, and  *)
(* a policy is the set of those it was solved from.  A new segment empties *)
(* all these sets, so no clock and no generation number has to be kept.    *)
(* A segment either restarts the caller's clock or, after a time jump,     *)
(* goes on with it: "clock" marks observations of the present clock.       *)
(***************************************************************************)
EXTENDS Naturals

CONSTANTS
  Settle   \* kMpcResetSettleAdvances

ASSUME SettleAssumption == Settle \in Nat /\ Settle >= 2

\* What a policy of the segment is solved from in any case.
Input == {"observation", "targets", "reset"}
Datum == Input \cup {"schedule", "clock"}

VARIABLES
  mode,            \* how the controller drives the runtime, see CallerMode
  ctl,             \* the next step of the control thread
  mpc,             \* the next step of the MPC thread
  worker,          \* mpc_worker_enabled_
  resetRequested,  \* mpc_reset_requested_
  awaiting,        \* mpc_awaiting_fresh_policy_
  since,           \* mpc_advance_count_ - mpc_reset_request_advance_count_
  activeGait,      \* active_gait_name_
  current,         \* the shared data of the present segment
  observed,        \* setCurrentObservation has been called since the warm-up
  cut,             \* a solve for another clock has cut the retiled schedule
  begun,           \* the segment was announced by beginNewLocomotionSegment
  job,             \* what the running solve has read so far
  buffer,          \* bufferPrimalSolutionPtr_
  newInBuffer,     \* newPolicyInBuffer_
  active,          \* activePrimalSolutionPtr_
  swapped          \* activePrimalSolutionPtr_ # nullptr

callerVars == <<mode, begun>>
holdVars == <<resetRequested, awaiting, since>>
gaitVars == <<activeGait, cut>>
policyVars == <<buffer, newInBuffer, active, swapped>>
dataVars == <<current, observed, job>>
vars == <<callerVars, holdVars, gaitVars, policyVars, dataVars, ctl, mpc, worker>>

\* HOME and a tick without a runtime call; STAND or STAND_WBC; STAND_NMPC;
\* the trot family.
CallerMode == {"home", "stance", "nmpc", "trot"}

TypeOK ==
  /\ mode \in CallerMode
  /\ ctl \in {"idle", "count", "enable", "targets", "observe", "swap", "evaluate", "threw"}
  /\ mpc \in {"top", "check", "read", "take", "publish", "advance", "stopped"}
  /\ worker \in BOOLEAN /\ resetRequested \in BOOLEAN /\ awaiting \in BOOLEAN
  /\ since \in 0..Settle
  /\ activeGait \in {"none", "stance", "trot"}
  /\ cut \in BOOLEAN /\ begun \in BOOLEAN /\ observed \in BOOLEAN
  /\ newInBuffer \in BOOLEAN /\ swapped \in BOOLEAN
  /\ current \subseteq Datum /\ job \subseteq Datum
  /\ buffer \subseteq Datum /\ active \subseteq Datum

\* The constructor, with its warm-up solve, at the first non-HOME command.
Init ==
  /\ mode \in CallerMode \ {"home"} /\ begun = FALSE
  /\ ctl = "idle" /\ mpc = "top" /\ worker = FALSE
  /\ resetRequested = FALSE /\ awaiting = FALSE /\ since = 0
  /\ activeGait = "stance" /\ cut = FALSE
  /\ current = {"clock"} /\ observed = FALSE /\ job = {}
  /\ buffer = {} /\ newInBuffer = TRUE
  /\ active = {} /\ swapped = FALSE

-----------------------------------------------------------------------------
(* The caller: MegadogController::update between two runtime calls.        *)

\* Nothing that was stored or read before belongs to the new segment; what
\* is in `kept` still has the right time.
NewSegment(kept) ==
  /\ current' = current \cap kept
  /\ job' = job \cap kept
  /\ buffer' = {} /\ active' = {} /\ cut' = FALSE
  /\ UNCHANGED <<newInBuffer, swapped, observed>>

\* When the clock restarts, only the warm-up observation, at zero, keeps a
\* right time.
Restart == IF observed THEN {} ELSE {"clock"}

\* beginNewLocomotionSegment stores the reset flag and then reads the count
\* of solves; the MPC thread may run in between.
Begin(kept) ==
  /\ ctl = "idle" /\ ctl' = "count"
  /\ begun' = TRUE /\ NewSegment(kept)
  /\ resetRequested' = TRUE /\ awaiting' = TRUE
  /\ UNCHANGED <<since, activeGait, mpc, worker>>

BeginFrozenGaitBug ==
  /\ ctl = "count" /\ ctl' = "idle"
  /\ since' = 0
  /\ UNCHANGED <<callerVars, resetRequested, awaiting, gaitVars, policyVars,
                 mpc, worker, dataVars>>
BeginCount ==
  /\ ctl = "count" /\ ctl' = "idle"
  /\ since' = 0 /\ activeGait' = "none"
  /\ UNCHANGED <<callerVars, resetRequested, awaiting, cut, policyVars,
                 mpc, worker, dataVars>>

\* A locomotion state is entered: the runtime's clock restarts at zero.
EnterTrot ==
  /\ mode # "trot" /\ mode' = "trot"
  /\ Begin(Restart)

\* A control period above kMaxControllerPeriodS, in any state: the segment
\* is announced again, on the same clock.
TimeJump ==
  /\ Begin({"clock"})
  /\ UNCHANGED mode

\* Leaving HOME restarts the clock, leaving the trot for a stand moves it:
\* neither is announced.
Rebase ==
  /\ ctl = "idle"
  /\ mode \in {"home", "trot"} /\ mode' \in {"stance", "nmpc"}
  /\ begun' = FALSE /\ NewSegment(Restart)
  /\ UNCHANGED <<ctl, mpc, worker, holdVars, activeGait>>

\* To HOME, or from one stand to the other.
Switch ==
  /\ ctl = "idle"
  /\ \/ mode' = "home"
     \/ mode \in {"stance", "nmpc"} /\ mode' \in {"stance", "nmpc"}
  /\ UNCHANGED <<begun, ctl, mpc, worker, holdVars, gaitVars, policyVars, dataVars>>

-----------------------------------------------------------------------------
(* MegadogWbcRuntime::update, on the control thread.                       *)

Running == mpc # "stopped"

GaitOf == [nmpc |-> "stance", trot |-> "trot"]

\* Stance hold: no MPC; the worker is suspended.
StanceHold ==
  /\ ctl = "idle" /\ mode = "stance" /\ Running
  /\ worker' = FALSE
  /\ UNCHANGED <<callerVars, holdVars, gaitVars, policyVars, ctl, mpc, dataVars>>

\* setGaitTemplateIfNeeded: another gait name retiles the schedule from now
\* on, the same name at most extends it.
SetGait ==
  /\ ctl = "idle" /\ mode \in DOMAIN GaitOf /\ Running
  /\ ctl' = "enable"
  /\ activeGait' = GaitOf[mode]
  /\ IF activeGait # activeGait'
       THEN current' = current \cup {"schedule"} /\ cut' = FALSE
       ELSE UNCHANGED <<current, cut>>
  /\ UNCHANGED <<callerVars, holdVars, policyVars, mpc, worker, observed, job>>

EnableForgottenBug ==
  /\ ctl = "enable" /\ ctl' = "targets"
  /\ UNCHANGED <<callerVars, holdVars, gaitVars, policyVars, mpc, worker, dataVars>>
Enable ==
  /\ ctl = "enable" /\ ctl' = "targets"
  /\ worker' = TRUE
  /\ UNCHANGED <<callerVars, holdVars, gaitVars, policyVars, mpc, dataVars>>

SetTargetTrajectories ==
  /\ ctl = "targets" /\ ctl' = "observe"
  /\ current' = current \cup {"targets"}
  /\ UNCHANGED <<callerVars, holdVars, gaitVars, policyVars, mpc, worker, observed, job>>

SetCurrentObservation ==
  /\ ctl = "observe" /\ ctl' = "swap"
  /\ current' = current \cup {"observation", "clock"} /\ observed' = TRUE
  /\ UNCHANGED <<callerVars, holdVars, gaitVars, policyVars, mpc, worker, job>>

\* updatePolicy: the two pointers are swapped, so the buffer keeps the policy
\* that was active.
SwapAgainBug ==
  /\ ctl = "swap" /\ ctl' = "evaluate"
  /\ newInBuffer
  /\ active' = buffer /\ buffer' = active
  /\ newInBuffer' = newInBuffer /\ swapped' = TRUE
  /\ UNCHANGED <<callerVars, holdVars, gaitVars, mpc, worker, dataVars>>
Swap ==
  /\ ctl = "swap" /\ ctl' = "evaluate"
  /\ newInBuffer
  /\ active' = buffer /\ buffer' = active
  /\ newInBuffer' = FALSE /\ swapped' = TRUE
  /\ UNCHANGED <<callerVars, holdVars, gaitVars, mpc, worker, dataVars>>

\* Nothing new, or the MPC thread has the lock.
NoSwap ==
  /\ ctl = "swap" /\ ctl' = "evaluate"
  /\ ~newInBuffer \/ mpc = "publish"
  /\ UNCHANGED <<callerVars, holdVars, gaitVars, policyVars, mpc, worker, dataVars>>

SettledEarlyBug == since >= Settle - 1
Settled == since >= Settle
Holding == awaiting /\ ~Settled

\* The policy is held back, evaluated, or not there: getPolicy throws.
Evaluate ==
  /\ ctl = "evaluate"
  /\ \/ Holding /\ ctl' = "idle" /\ UNCHANGED awaiting
     \/ ~Holding /\ swapped /\ ctl' = "idle" /\ awaiting' = FALSE
     \/ ~Holding /\ ~swapped /\ ctl' = "threw" /\ UNCHANGED awaiting
  /\ UNCHANGED <<callerVars, resetRequested, since, gaitVars, policyVars, mpc,
                 worker, dataVars>>

-----------------------------------------------------------------------------
(* mpcThreadFunction, on the MPC thread.                                   *)

\* The reset flag is exchanged, and the solver reset, at the top of the loop.
Top ==
  /\ mpc = "top" /\ mpc' = "check"
  /\ resetRequested' = FALSE
  /\ current' = IF resetRequested THEN current \cup {"reset"} ELSE current
  /\ UNCHANGED <<callerVars, awaiting, since, gaitVars, policyVars, ctl, worker, observed, job>>

Check ==
  /\ mpc = "check"
  /\ mpc' = IF worker THEN "read" ELSE "top"
  /\ UNCHANGED <<callerVars, holdVars, gaitVars, policyVars, ctl, worker, dataVars>>

\* advanceMpc copies the observation...
ReadObservation ==
  /\ mpc = "read" /\ mpc' = "take"
  /\ job' = current \cap {"observation", "clock", "reset"}
  /\ UNCHANGED <<callerVars, holdVars, gaitVars, policyVars, ctl, worker, current, observed>>

\* getModeSchedule extends the schedule to the observation's time, puts a stance
\* in the place of all that is older than it by a horizon, and keeps the result.
\* That is the past, unless the observation is of another clock: then it may be
\* the schedule that was just retiled, which nothing retiles again.
GetModeSchedule ==
  \/ UNCHANGED <<current, cut>>
  \/ /\ "clock" \notin job /\ "schedule" \in current
     /\ current' = current \ {"schedule"} /\ cut' = TRUE

\* ...and ReferenceManager::preSolverRun takes the references.
TakeReferences ==
  /\ mpc = "take" /\ mpc' = "publish"
  /\ GetModeSchedule
  /\ job' = job \cup (current' \cap {"targets", "schedule"})
  /\ UNCHANGED <<callerVars, holdVars, activeGait, policyVars, ctl, worker, observed>>

\* An exception of the solver ends the thread.
SolverFails ==
  /\ mpc = "publish" /\ mpc' = "stopped"
  /\ UNCHANGED <<callerVars, holdVars, gaitVars, policyVars, ctl, worker, dataVars>>

\* copyToBuffer.
Publish ==
  /\ mpc = "publish" /\ mpc' = "advance"
  /\ buffer' = job /\ newInBuffer' = TRUE
  /\ UNCHANGED <<callerVars, holdVars, gaitVars, active, swapped, ctl, worker, dataVars>>

CountAdvance ==
  /\ mpc = "advance" /\ mpc' = "top"
  /\ since' = IF since < Settle THEN since + 1 ELSE since
  /\ job' = {}
  /\ UNCHANGED <<callerVars, resetRequested, awaiting, gaitVars, policyVars, ctl,
                 worker, current, observed>>

-----------------------------------------------------------------------------
Caller == EnterTrot \/ TimeJump \/ Rebase \/ Switch

Update ==
  \/ BeginCount \/ StanceHold \/ SetGait \/ Enable
  \/ SetTargetTrajectories \/ SetCurrentObservation
  \/ Swap \/ NoSwap \/ Evaluate

MpcThread ==
  \/ Top \/ Check \/ ReadObservation \/ TakeReferences
  \/ SolverFails \/ Publish \/ CountAdvance

Next == Caller \/ Update \/ MpcThread

Spec == Init /\ [][Next]_vars

\* The controller is called periodically, the MPC thread is scheduled, and
\* the try_lock of updatePolicy does not collide with it every single time.
FairSpec == Spec /\ WF_vars(Update) /\ WF_vars(MpcThread) /\ SF_vars(Swap)

-----------------------------------------------------------------------------
(* Properties.                                                             *)

\* After a segment is announced, a policy that was solved from one of its
\* observations was solved from its targets and its retiled gait schedule
\* too, unless a solve that still had an observation of the segment before has
\* cut that schedule. So a frozen gait on re-entry does not come from a schedule
\* that was not retiled or from a policy that mixes segments
\* (MegadogWbcRuntime.cpp:424-458); RetiledScheduleSurvives, below, is about the
\* exception.
Consistent(policy) ==
  "observation" \in policy => "targets" \in policy /\ ("schedule" \in policy \/ cut)

ConsistentPolicy ==
  begun => Consistent(active) /\ (newInBuffer => Consistent(buffer))

\* The hold outlasts the reset: once update() lets policies through again,
\* the MPC thread has taken the reset request (MegadogWbcRuntime.h:147-156).
HoldOutlastsReset == resetRequested => awaiting

\* Within a segment the control thread never falls back from a policy that was
\* solved, after the reset, from the segment's observation and targets to an
\* older one (MRT_BASE.cpp:165).
FreshStays ==
  [][Input \subseteq active => Input \subseteq active' \/ current' \subseteq {"clock"}]_vars

\* While the robot trots, the hold ends and a policy of the segment becomes
\* active, unless the segment is cut short or the MPC thread has died.
HoldEnds ==
  (mode = "trot" /\ begun) ~>
    \/ Input \subseteq active /\ ~awaiting
    \/ mode # "trot" \/ current \subseteq {"clock"}
    \/ ~Running \/ ctl = "threw"

Accepted == ctl = "evaluate" /\ begun /\ ~Holding

\* update() holds until a policy of a solve that ran after the segment was
\* announced is confirmed (MegadogWbcRuntime.h:152-156).
AcceptedRanAfterBegin == Accepted => "reset" \in active

\* The policy that is evaluated at the new segment's time is not the stale
\* one of the segment before (MegadogWbcRuntime.cpp:585-601).
AcceptedSawTheSegment == Accepted => "observation" \in active

\* A missing policy makes update() return false, it does not make it throw
\* (MegadogWbcRuntime.h:132-133).
UpdateReturns == ctl # "threw"

\* The gait does not freeze when it is entered again: the schedule that is
\* retiled for a segment is there for all its solves. A solve for the old clock
\* may replace it by a stance (MegadogWbcRuntime.cpp:424-458, 565-575).
RetiledScheduleSurvives == begun => ~cut
=============================================================================
