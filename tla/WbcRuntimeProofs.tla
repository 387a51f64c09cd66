-------------------------- MODULE WbcRuntimeProofs --------------------------
(***************************************************************************)
(* Theorems about the MPC hand-over, for every number of settle advances.  *)
(***************************************************************************)
EXTENDS WbcRuntime, TLAPS

-----------------------------------------------------------------------------
(* Type correctness.                                                       *)

ControlOK ==
  /\ mode \in CallerMode
  /\ ctl \in {"idle", "count", "enable", "targets", "observe", "swap", "evaluate", "threw"}
  /\ mpc \in {"top", "check", "read", "take", "publish", "advance", "stopped"}
  /\ activeGait \in {"none", "stance", "trot"}
  /\ since \in 0..Settle

FlagsOK ==
  /\ worker \in BOOLEAN /\ resetRequested \in BOOLEAN /\ awaiting \in BOOLEAN
  /\ cut \in BOOLEAN /\ begun \in BOOLEAN /\ observed \in BOOLEAN
  /\ newInBuffer \in BOOLEAN /\ swapped \in BOOLEAN

DataOK ==
  /\ current \subseteq Datum /\ job \subseteq Datum
  /\ buffer \subseteq Datum /\ active \subseteq Datum

\* The type invariant in three parts, by who writes the variables.
LEMMA TypeParts == TypeOK <=> ControlOK /\ FlagsOK /\ DataOK
  BY DEF TypeOK, ControlOK, FlagsOK, DataOK

\* The runtime starts well typed.
LEMMA TypeInit == Init => TypeOK
<1> SUFFICES ASSUME Init PROVE TypeOK
  OBVIOUS
<1>1. ControlOK
  BY SettleAssumption DEF Init, ControlOK, CallerMode
<1>2. FlagsOK
  BY DEF Init, FlagsOK
<1>3. DataOK
  BY DEF Init, DataOK, Datum
<1> QED
  BY <1>1, <1>2, <1>3, TypeParts

\* Every step keeps the types of the program counters and the caller's variables.
LEMMA ControlNext == ControlOK /\ [Next]_vars => ControlOK'
<1> SUFFICES ASSUME ControlOK, [Next]_vars PROVE ControlOK'
  OBVIOUS
<1> USE SettleAssumption DEF ControlOK, CallerMode, callerVars, holdVars, gaitVars
<1>1. CASE EnterTrot \/ TimeJump
  BY <1>1 DEF EnterTrot, TimeJump, Begin
<1>2. CASE Rebase \/ Switch \/ BeginCount
  BY <1>2 DEF Rebase, Switch, BeginCount
<1>3. CASE StanceHold \/ SetGait \/ Enable
  BY <1>3 DEF StanceHold, SetGait, Enable, GaitOf
<1>4. CASE SetTargetTrajectories \/ SetCurrentObservation
  BY <1>4 DEF SetTargetTrajectories, SetCurrentObservation
<1>5. CASE Swap \/ NoSwap \/ Evaluate
  BY <1>5 DEF Swap, NoSwap, Evaluate
<1>6. CASE Top \/ Check \/ ReadObservation
  BY <1>6 DEF Top, Check, ReadObservation
<1>7. CASE TakeReferences
  BY <1>7 DEF TakeReferences, GetModeSchedule, GetModeSchedule
<1>8. CASE SolverFails \/ Publish \/ CountAdvance
  BY <1>8 DEF SolverFails, Publish, CountAdvance
<1>9. CASE UNCHANGED vars
  BY <1>9 DEF vars
<1> QED
  BY <1>1, <1>2, <1>3, <1>4, <1>5, <1>6, <1>7, <1>8, <1>9
  DEF Next, Caller, Update, MpcThread

\* Every step keeps the types of the flags and counts.
LEMMA FlagsNext == FlagsOK /\ [Next]_vars => FlagsOK'
<1> SUFFICES ASSUME FlagsOK, [Next]_vars PROVE FlagsOK'
  OBVIOUS
<1> USE DEF FlagsOK, callerVars, holdVars, gaitVars, policyVars, dataVars, NewSegment
<1>1. CASE EnterTrot \/ TimeJump
  BY <1>1 DEF EnterTrot, TimeJump, Begin
<1>2. CASE Rebase \/ Switch \/ BeginCount
  BY <1>2 DEF Rebase, Switch, BeginCount
<1>3. CASE StanceHold \/ SetGait \/ Enable
  BY <1>3 DEF StanceHold, SetGait, Enable, GaitOf
<1>4. CASE SetTargetTrajectories \/ SetCurrentObservation
  BY <1>4 DEF SetTargetTrajectories, SetCurrentObservation
<1>5. CASE Swap \/ NoSwap \/ Evaluate
  BY <1>5 DEF Swap, NoSwap, Evaluate
<1>6. CASE Top \/ Check \/ ReadObservation
  BY <1>6 DEF Top, Check, ReadObservation
<1>7. CASE TakeReferences
  BY <1>7 DEF TakeReferences, GetModeSchedule, GetModeSchedule
<1>8. CASE SolverFails \/ Publish \/ CountAdvance
  BY <1>8 DEF SolverFails, Publish, CountAdvance
<1>9. CASE UNCHANGED vars
  BY <1>9 DEF vars
<1> QED
  BY <1>1, <1>2, <1>3, <1>4, <1>5, <1>6, <1>7, <1>8, <1>9
  DEF Next, Caller, Update, MpcThread

\* Every step keeps the types of the shared data.
LEMMA DataNext == DataOK /\ [Next]_vars => DataOK'
<1> SUFFICES ASSUME DataOK, [Next]_vars PROVE DataOK'
  OBVIOUS
<1> {"observation", "targets", "schedule", "reset", "clock"} \subseteq Datum
  BY DEF Datum, Input
<1> USE DEF DataOK, policyVars, dataVars, NewSegment
<1>1. CASE EnterTrot \/ TimeJump
  BY <1>1 DEF EnterTrot, TimeJump, Begin
<1>2. CASE Rebase \/ Switch \/ BeginCount
  BY <1>2 DEF Rebase, Switch, BeginCount
<1>3. CASE StanceHold \/ SetGait \/ Enable
  BY <1>3 DEF StanceHold, SetGait, Enable, GaitOf
<1>4. CASE SetTargetTrajectories \/ SetCurrentObservation
  BY <1>4 DEF SetTargetTrajectories, SetCurrentObservation
<1>5. CASE Swap \/ NoSwap \/ Evaluate
  BY <1>5 DEF Swap, NoSwap, Evaluate
<1>6. CASE Top \/ Check \/ ReadObservation
  BY <1>6 DEF Top, Check, ReadObservation
<1>7. CASE TakeReferences
  BY <1>7 DEF TakeReferences, GetModeSchedule, GetModeSchedule
<1>8. CASE SolverFails \/ Publish \/ CountAdvance
  BY <1>8 DEF SolverFails, Publish, CountAdvance
<1>9. CASE UNCHANGED vars
  BY <1>9 DEF vars
<1> QED
  BY <1>1, <1>2, <1>3, <1>4, <1>5, <1>6, <1>7, <1>8, <1>9
  DEF Next, Caller, Update, MpcThread

\* Every step keeps the types.
LEMMA TypeNext == TypeOK /\ [Next]_vars => TypeOK'
<1>1. TypeOK' <=> ControlOK' /\ FlagsOK' /\ DataOK'
  BY DEF TypeOK, ControlOK, FlagsOK, DataOK
<1> QED
  BY <1>1, TypeParts, ControlNext, FlagsNext, DataNext

\* Every reachable state of the hand-over is well-typed: in particular the
\* schedule only ever has one of the gaits of gait.info.
THEOREM TypeCorrect == Spec => []TypeOK
  BY TypeInit, TypeNext, PTL DEF Spec

-----------------------------------------------------------------------------
(* The hold. At most one solve can be counted between the request and the  *)
(* reset: the one that was running. With two to wait for, the hold cannot  *)
(* end before the reset flag is taken.                                     *)

HoldInv ==
  resetRequested =>
    /\ awaiting
    /\ ctl = "count" \/ since = 0 \/ (since = 1 /\ mpc = "top")

\* Every step of either thread keeps the count between request and reset.
LEMMA HoldNext == TypeOK /\ HoldInv /\ [Next]_vars => HoldInv'
<1> SUFFICES ASSUME TypeOK, HoldInv, [Next]_vars PROVE HoldInv'
  OBVIOUS
<1> USE SettleAssumption DEF HoldInv, holdVars
<1>1. CASE EnterTrot \/ TimeJump
  BY <1>1 DEF EnterTrot, TimeJump, Begin
<1>2. CASE Rebase \/ Switch \/ BeginCount
  BY <1>2 DEF Rebase, Switch, BeginCount
<1>3. CASE StanceHold \/ SetGait \/ Enable
  BY <1>3 DEF StanceHold, SetGait, Enable
<1>4. CASE SetTargetTrajectories \/ SetCurrentObservation \/ Swap \/ NoSwap
  BY <1>4 DEF SetTargetTrajectories, SetCurrentObservation, Swap, NoSwap
<1>5. CASE Evaluate
  <2>1. resetRequested' = resetRequested /\ since' = since /\ mpc' = mpc
    BY <1>5 DEF Evaluate
  <2>2. ctl = "evaluate"
    BY <1>5 DEF Evaluate
  <2>3. ASSUME resetRequested PROVE awaiting'
    <3>1. ~Settled
      BY <2>2, <2>3 DEF Settled
    <3> QED
      BY <3>1, <2>3, <1>5 DEF Evaluate, Holding
  <2> QED
    BY <2>1, <2>2, <2>3
<1>6. CASE Top \/ Check \/ ReadObservation
  BY <1>6 DEF Top, Check, ReadObservation
<1>7. CASE TakeReferences \/ SolverFails \/ Publish
  BY <1>7 DEF TakeReferences, GetModeSchedule, SolverFails, Publish
<1>8. CASE CountAdvance
  BY <1>8 DEF CountAdvance, TypeOK
<1>9. CASE UNCHANGED vars
  BY <1>9 DEF vars
<1> QED
  BY <1>1, <1>2, <1>3, <1>4, <1>5, <1>6, <1>7, <1>8, <1>9 DEF Next, Caller, Update, MpcThread

\* The hold outlasts the reset for every number of settle advances from two
\* on; with one, TLC finds the counterexample (see the README).
THEOREM HoldIsLongEnough == Spec => []HoldOutlastsReset
<1>1. Init => HoldInv
  BY DEF Init, HoldInv
<1>2. HoldInv => HoldOutlastsReset
  BY DEF HoldInv, HoldOutlastsReset
<1> QED
  BY <1>1, <1>2, HoldNext, TypeCorrect, PTL DEF Spec

-----------------------------------------------------------------------------
(* Policies do not mix segments. The control thread publishes the gait,    *)
(* the targets and the observation in this order, the MPC thread reads     *)
(* them in the opposite one. The schedule, once retiled, is only lost in a *)
(* cut, so a solve finds it or `cut` is set; and a cut is not undone while *)
(* the segment lasts, as its gait is retiled only once.                    *)

AfterSchedule == {"enable", "targets", "observe", "swap", "evaluate"}
AfterTargets == {"observe", "swap", "evaluate"}

Scheduled == "schedule" \in current \/ cut
RetiledOnce ==
  /\ ctl # "count" =>
       /\ mode \in {"stance", "nmpc"} => activeGait \in {"none", "stance"}
       /\ mode = "trot" => activeGait \in {"none", "trot"}
  /\ ctl = "count" \/ activeGait = "none" => "schedule" \notin current /\ ~cut

SharedInv ==
  /\ RetiledOnce
  /\ activeGait # "none" /\ ctl # "count" => Scheduled
  /\ ctl \in AfterSchedule => Scheduled
  /\ ctl \in AfterTargets => "targets" \in current
  /\ Consistent(current)
  /\ mpc = "take" => ("observation" \in job => Consistent(current) /\ "observation" \in current)
  /\ mpc = "publish" => Consistent(job)
  /\ newInBuffer => Consistent(buffer)
  /\ Consistent(active)

PolicyInv == begun => SharedInv

\* Every step keeps the order in which a segment's data are published and read.
LEMMA PolicyNext == TypeOK /\ PolicyInv /\ [Next]_vars => PolicyInv'
<1> SUFFICES ASSUME TypeOK, PolicyInv, [Next]_vars, begun' PROVE SharedInv'
  BY DEF PolicyInv
<1> USE DEF PolicyInv, SharedInv, Scheduled, RetiledOnce, Consistent, AfterSchedule, AfterTargets,
            callerVars, holdVars, gaitVars, policyVars, dataVars
<1>1. CASE EnterTrot \/ TimeJump
  <2>1. {"observation", "schedule"} \cap (current' \cup job') = {}
    BY <1>1 DEF EnterTrot, TimeJump, Begin, NewSegment, Restart
  <2> QED
    BY <1>1, <2>1 DEF EnterTrot, TimeJump, Begin, NewSegment
<1>2. CASE Rebase
  BY <1>2 DEF Rebase
<1>3. CASE Switch
  BY <1>3 DEF Switch
<1>4. CASE BeginCount
  BY <1>4 DEF BeginCount
<1>5. CASE StanceHold
  BY <1>5 DEF StanceHold
<1>6. CASE SetGait
  <2>1. mode \in {"nmpc", "trot"} /\ activeGait' = GaitOf[mode] /\ ctl = "idle" /\ begun
    BY <1>6 DEF SetGait, GaitOf
  <2>2. activeGait = "none" \/ activeGait' = activeGait
    BY <2>1 DEF GaitOf
  <2>3. CASE activeGait = "none"
    BY <1>6, <2>1, <2>3 DEF SetGait, GaitOf
  <2>4. CASE activeGait # "none"
    BY <1>6, <2>1, <2>2, <2>4 DEF SetGait, GaitOf
  <2> QED
    BY <2>3, <2>4
<1>7. CASE Enable
  BY <1>7 DEF Enable
<1>8. CASE SetTargetTrajectories
  BY <1>8 DEF SetTargetTrajectories
<1>9. CASE SetCurrentObservation
  BY <1>9 DEF SetCurrentObservation
<1>10. CASE Swap
  BY <1>10 DEF Swap
<1>11. CASE NoSwap
  BY <1>11 DEF NoSwap
<1>12. CASE Evaluate
  BY <1>12 DEF Evaluate
<1>13. CASE Top
  BY <1>13 DEF Top
<1>14. CASE Check
  BY <1>14 DEF Check
<1>15. CASE ReadObservation
  BY <1>15 DEF ReadObservation
<1>16. CASE TakeReferences
  BY <1>16 DEF TakeReferences, GetModeSchedule, GetModeSchedule
<1>17. CASE SolverFails
  BY <1>17 DEF SolverFails
<1>18. CASE Publish
  BY <1>18 DEF Publish
<1>19. CASE CountAdvance
  BY <1>19 DEF CountAdvance
<1>20. CASE UNCHANGED vars
  BY <1>20 DEF vars
<1> QED
  BY <1>1, <1>2, <1>3, <1>4, <1>5, <1>6, <1>7, <1>8, <1>9, <1>10, <1>11, <1>12,
     <1>13, <1>14, <1>15, <1>16, <1>17, <1>18, <1>19, <1>20
  DEF Next, Caller, Update, MpcThread

\* A policy solved from an observation of an announced segment was solved
\* from the segment's own targets, and from its retiled schedule unless a solve
\* for another clock has cut that.
THEOREM PoliciesAreConsistent == Spec => []ConsistentPolicy
<1>1. Init => PolicyInv
  BY DEF Init, PolicyInv
<1>2. PolicyInv => ConsistentPolicy
  BY DEF PolicyInv, SharedInv, ConsistentPolicy
<1> QED
  BY <1>1, <1>2, PolicyNext, TypeCorrect, PTL DEF Spec

-----------------------------------------------------------------------------
(* Progress is not undone: all that the MPC thread has in flight or in the *)
(* buffer is at least as new as the active policy.                         *)

Fresh(policy) == Input \subseteq policy
FreshHeld == Fresh(active) \/ (newInBuffer /\ Fresh(buffer))

FreshInv ==
  /\ job \cap Input \subseteq current
  /\ buffer \cap Input \subseteq current /\ active \cap Input \subseteq current
  /\ FreshHeld /\ mpc = "take" => {"observation", "reset"} \subseteq job
  /\ FreshHeld /\ mpc = "publish" => Fresh(job)
  /\ Fresh(active) /\ newInBuffer => Fresh(buffer)

\* Once a policy of the segment is held, nothing older is under way.
LEMMA FreshNext == TypeOK /\ FreshInv /\ [Next]_vars => FreshInv'
<1> SUFFICES ASSUME TypeOK, FreshInv, [Next]_vars PROVE FreshInv'
  OBVIOUS
<1> USE DEF FreshInv, FreshHeld, Fresh, Input, callerVars, holdVars, gaitVars,
            policyVars, dataVars
<1>1. CASE EnterTrot \/ TimeJump \/ Rebase
  <2>1. /\ job' \cap Input \subseteq current' /\ buffer' = {} /\ active' = {}
    BY <1>1 DEF EnterTrot, TimeJump, Rebase, Begin, NewSegment, Restart
  <2> QED
    BY <2>1
<1>2. CASE Switch \/ BeginCount \/ StanceHold \/ Enable
  BY <1>2 DEF Switch, BeginCount, StanceHold, Enable
<1>3. CASE SetGait \/ SetTargetTrajectories
  BY <1>3 DEF SetGait, SetTargetTrajectories
<1>4. CASE SetCurrentObservation
  BY <1>4 DEF SetCurrentObservation
<1>5. CASE Swap
  BY <1>5 DEF Swap
<1>6. CASE NoSwap \/ Evaluate
  BY <1>6 DEF NoSwap, Evaluate
<1>7. CASE Top \/ Check
  BY <1>7 DEF Top, Check
<1>8. CASE ReadObservation
  BY <1>8 DEF ReadObservation
<1>9. CASE TakeReferences
  BY <1>9 DEF TakeReferences, GetModeSchedule, GetModeSchedule
<1>10. CASE SolverFails \/ Publish \/ CountAdvance
  BY <1>10 DEF SolverFails, Publish, CountAdvance
<1>11. CASE UNCHANGED vars
  BY <1>11 DEF vars
<1> QED
  BY <1>1, <1>2, <1>3, <1>4, <1>5, <1>6, <1>7, <1>8, <1>9, <1>10, <1>11
  DEF Next, Caller, Update, MpcThread

\* A step either keeps a policy of the segment active or starts a new segment.
LEMMA FreshStep ==
  ASSUME FreshInv, [Next]_vars, Input \subseteq active
  PROVE  Input \subseteq active' \/ current' \subseteq {"clock"}
<1> USE DEF callerVars, holdVars, gaitVars, policyVars, dataVars
<1>1. CASE EnterTrot \/ TimeJump \/ Rebase
  BY <1>1 DEF EnterTrot, TimeJump, Rebase, Begin, NewSegment, Restart
<1>2. CASE Switch \/ BeginCount \/ StanceHold \/ Enable
  BY <1>2 DEF Switch, BeginCount, StanceHold, Enable
<1>3. CASE SetGait \/ SetTargetTrajectories \/ SetCurrentObservation
  BY <1>3 DEF SetGait, SetTargetTrajectories, SetCurrentObservation
<1>4. CASE Swap
  BY <1>4 DEF Swap, FreshInv, Fresh
<1>5. CASE NoSwap \/ Evaluate
  BY <1>5 DEF NoSwap, Evaluate
<1>6. CASE Top \/ Check \/ ReadObservation \/ TakeReferences
  BY <1>6 DEF Top, Check, ReadObservation, TakeReferences, GetModeSchedule
<1>7. CASE SolverFails \/ Publish \/ CountAdvance
  BY <1>7 DEF SolverFails, Publish, CountAdvance
<1>8. CASE UNCHANGED vars
  BY <1>8 DEF vars
<1> QED
  BY <1>1, <1>2, <1>3, <1>4, <1>5, <1>6, <1>7, <1>8 DEF Next, Caller, Update, MpcThread

\* Once a policy of the present segment is active, the control thread never
\* swaps an older one back in.
THEOREM FreshIsKept == Spec => FreshStays
<1>1. Init => FreshInv
  BY DEF Init, FreshInv, FreshHeld, Fresh, Input
<1>2. FreshInv /\ [Next]_vars =>
        [Input \subseteq active => Input \subseteq active' \/ current' \subseteq {"clock"}]_vars
  BY FreshStep
<1> QED
  BY <1>1, <1>2, FreshNext, TypeCorrect, PTL DEF Spec, FreshStays
=============================================================================
