----------------------------- MODULE Superloop -----------------------------
(***************************************************************************)
(* The firmware's main loop (main.c) around the actuator interface: spin   *)
(* the micro-ROS bridge, drain the two receive FIFOs, run the /joint_cmd   *)
(* watchdog, service the safety latches, re-enable the drivers.            *)
(*                                                                         *)
(* One thread: the steps of an iteration happen in this order, and time    *)
(* passes while the loop blocks in MicroRosBridge_SpinSome, where a ping   *)
(* of the agent takes up to SpinBudget ticks and the creation of a session *)
(* has no bound of its own.  The rest of an iteration is far below a tick. *)
(***************************************************************************)
EXTENDS Actuator

CONSTANTS
  CmdTimeout,   \* JOINT_CMD_TIMEOUT_MS, in ticks
  SpinBudget,   \* PING_TIMEOUT_MS * PING_ATTEMPTS, in ticks
  MaxCmdAge     \* the command age saturates here

ASSUME LoopAssumption ==
  /\ CmdTimeout \in Nat \ {0}
  /\ SpinBudget \in Nat
  /\ MaxCmdAge \in Nat
  /\ MaxCmdAge >= CmdTimeout + SpinBudget

VARIABLES
  pc,             \* the next step of the iteration
  connected,      \* state = STATE_CONNECTED
  received,       \* has_received_joint_cmd
  commandAge,     \* now - last_joint_cmd_ms
  late,           \* the age, sampled after the spin, has reached the timeout
  watchdogSpent,  \* joint_cmd_disable_latch_count = command_rx_count
  blocked,        \* ticks spent in the current spin
  arrived         \* replies that are in a receive FIFO, not on the wire

loopVars == <<pc, connected, received, commandAge, late, watchdogSpent, blocked, arrived>>
allVars == <<vars, loopVars>>

LoopTypeOK ==
  /\ TypeOK
  /\ pc \in {"spin", "drain1", "drain2", "watchdog", "service", "reenable"}
  /\ connected \in BOOLEAN /\ received \in BOOLEAN
  /\ late \in BOOLEAN /\ watchdogSpent \in BOOLEAN
  /\ commandAge \in 0..MaxCmdAge
  /\ blocked \in 0..SpinBudget
  /\ arrived \subseteq {j \in Joint : reply[j] # "none"}

\* MicroRosBridge_Begin and the locals of main(). The two counters start
\* equal, at zero.
LoopInit ==
  /\ Init
  /\ pc = "spin" /\ connected = FALSE /\ received = FALSE
  /\ commandAge = MaxCmdAge /\ late = FALSE
  /\ watchdogSpent = TRUE
  /\ blocked = 0 /\ arrived = {}

-----------------------------------------------------------------------------
(* MicroRosBridge_SpinSome. The watchdog's timestamp is taken when it      *)
(* returns.                                                                *)

SampleEarlyBug == late' = (received /\ commandAge >= CmdTimeout)
SampleLooseBug == late' = (received' /\ commandAge' > CmdTimeout)
Sample == late' = (received' /\ commandAge' >= CmdTimeout)

AfterSpin ==
  /\ pc = "spin" /\ pc' = "drain1"
  /\ blocked' = 0 /\ Sample

\* The session and its entities are created, or cleaned up for a new try.
Connect ==
  /\ ~connected
  /\ connected' \in BOOLEAN
  /\ UNCHANGED <<vars, received, commandAge, watchdogSpent, arrived>>
  /\ AfterSpin

\* A ping is due and fails.
Disconnect ==
  /\ connected /\ connected' = FALSE
  /\ UNCHANGED <<vars, received, commandAge, watchdogSpent, arrived>>
  /\ AfterSpin

\* command_rx_count moves away from the count the watchdog has latched.
CountCommandBug == watchdogSpent' = watchdogSpent
CountCommand == watchdogSpent' = FALSE

\* JointCmdCallback: at most one command per spin.
Command(hot) ==
  /\ connected
  /\ SetTarget(hot)
  /\ commandAge' = 0 /\ received' = TRUE
  /\ CountCommand
  /\ UNCHANGED <<connected, arrived>>
  /\ AfterSpin

NoCommand ==
  /\ connected
  /\ UNCHANGED <<vars, connected, received, commandAge, watchdogSpent, arrived>>
  /\ AfterSpin

-----------------------------------------------------------------------------
(* The rest of the iteration.                                              *)

Goto(from, to) == pc = from /\ pc' = to

DrainStep == [drain1 |-> [bus |-> 1, next |-> "drain2"],
              drain2 |-> [bus |-> 2, next |-> "watchdog"]]

\* while (CAN_IsRxPending) CAN_Receive: one frame, or the FIFO is empty.
Drain(d) ==
  /\ pc \in DOMAIN DrainStep /\ BusForJoint(d) = DrainStep[pc].bus
  /\ d \in arrived
  /\ OnFrame(d)
  /\ arrived' = arrived \ {d}
  /\ UNCHANGED <<pc, connected, received, commandAge, late, watchdogSpent, blocked>>

Drained ==
  /\ pc \in DOMAIN DrainStep
  /\ \A d \in arrived : BusForJoint(d) # DrainStep[pc].bus
  /\ pc' = DrainStep[pc].next
  /\ UNCHANGED <<vars, connected, received, commandAge, late, watchdogSpent,
                 blocked, arrived>>

StreamLostByAgeBug == received /\ late /\ ~watchdogSpent
StreamLost == received /\ (~connected \/ late) /\ ~watchdogSpent

\* The watchdog disables once per stream: a new command re-arms it.
Watchdog ==
  /\ Goto("watchdog", "service")
  /\ IF StreamLost
       THEN Disable /\ watchdogSpent' = TRUE
       ELSE UNCHANGED <<vars, watchdogSpent>>
  /\ UNCHANGED <<connected, received, commandAge, late, blocked, arrived>>

Service ==
  /\ Goto("service", "reenable")
  /\ ServiceSafety
  /\ UNCHANGED <<connected, received, commandAge, late, watchdogSpent, blocked, arrived>>

\* The 500 ms period: ReenableAll in some iterations.
Reenable ==
  /\ Goto("reenable", "spin")
  /\ ReenableAll \/ UNCHANGED vars
  /\ UNCHANGED <<connected, received, commandAge, late, watchdogSpent, blocked, arrived>>

-----------------------------------------------------------------------------
(* The environment.                                                        *)

Arrive(d) ==
  /\ reply[d] # "none" /\ d \notin arrived
  /\ arrived' = arrived \cup {d}
  /\ UNCHANGED <<vars, pc, connected, received, commandAge, late, watchdogSpent, blocked>>

\* Frames are on the wire for less than a tick.
LoopTick ==
  /\ pc = "spin" /\ \A d \in Joint : reply[d] # "none" => d \in arrived
  /\ connected => blocked < SpinBudget
  /\ Tick
  /\ commandAge' = IF commandAge < MaxCmdAge THEN commandAge + 1 ELSE commandAge
  /\ blocked' = IF connected THEN blocked + 1 ELSE blocked
  /\ UNCHANGED <<pc, connected, received, late, watchdogSpent, arrived>>

LoopFault ==
  /\ \/ \E b \in Bus : GoBusOff(b)
     \/ \E d \in Joint : HotPlug(d) \/ LoseReply(d)
  /\ arrived' = {d \in arrived : reply'[d] # "none"}
  /\ UNCHANGED <<pc, connected, received, commandAge, late, watchdogSpent, blocked>>

Iteration ==
  \/ Connect \/ Disconnect \/ NoCommand
  \/ \E hot \in SUBSET Joint : Command(hot)
  \/ \E d \in Joint : Drain(d)
  \/ Drained \/ Watchdog \/ Service \/ Reenable

LoopNext ==
  \/ Iteration
  \/ \E d \in Joint : Arrive(d)
  \/ LoopTick
  \/ LoopFault

\* The loop never stops, frames on the wire get through, and the clock runs
\* however short the spins are.
LoopFairness ==
  /\ WF_allVars(Iteration)
  /\ WF_allVars(\E d \in Joint : Arrive(d))
  /\ SF_allVars(LoopTick)

LoopSpec == LoopInit /\ [][LoopNext]_allVars
FairLoopSpec == LoopSpec /\ LoopFairness

-----------------------------------------------------------------------------
(* Properties.                                                             *)

Pushing == {j \in Joint : HoldsForce(j) /\ BusForJoint(j) \notin busOff}

\* After the watchdog has fired, and until the next command, no driver on a
\* live bus holds force (main.c:495-503, README.md:83 of the firmware).
WatchdogReleasesForce ==
  received /\ watchdogSpent => Pushing \subseteq disablePending

\* The bridge only goes into the unbounded creation of a session once the
\* force of the lost stream is gone.
NoForceWhileReconnecting == pc = "spin" /\ ~connected => Pushing = {}

\* Force outlives the last command by the timeout and one blocked spin, even
\* if the agent, the laptop or the cable disappears at the worst moment.
ForceIsBounded ==
  Pushing # {} => commandAge < CmdTimeout + SpinBudget

\* The watchdog acts on a lost agent or an old command, never on a stream
\* whose command has just come in (main.c:466-468).
WatchdogOnlyWhenLost ==
  [][hasSetTarget /\ ~hasSetTarget' => ~connected \/ commandAge >= CmdTimeout]_allVars

\* The loop sends the MOTOR_DISABLEs until the latched joints have them.
LatchedIsServed == []<>(runtimeFault \cap Pushing = {})

\* With drivers that answer every frame, buses that stay up and no frame
\* lost, no joint is latched: a latch takes a continuous loss of telemetry, a
\* bus-off or a driver that reports Disabled (README.md:84 of the firmware).
OnlyFaultsLatch == runtimeFault = {}
=============================================================================
