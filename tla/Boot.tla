--------------------------------- MODULE Boot ---------------------------------
(***************************************************************************)
(* Actuator_Init (app/src/actuator_if.c): what the firmware does to the    *)
(* motor drivers before its main loop starts. The MCU may have rebooted    *)
(* under drivers that kept their power, their enable and the last target   *)
(* they were given, so it disables all of them, then calls, enables and    *)
(* calibrates one after the other, with retries, and reminds the others in *)
(* between, because a driver that is not reminded falls into standby.      *)
(*                                                                         *)
(* A frame waits in the transmit FIFO of its bus (lib/src/can.c) until the *)
(* bus takes it, in order; CAN repeats it until a node acknowledges it. A  *)
(* bus whose drivers have no power yet takes none. Time is spent only in   *)
(* waiting for answers; a wait is over when the answer is there, which may *)
(* be at any time up to its timeout, or when the timeout is. The unit of   *)
(* time is what a bus that is up needs to drain its FIFO (4 ms); an answer *)
(* that takes less counts as one that takes no time.                       *)
(***************************************************************************)
EXTENDS Topology, FiniteSets, Sequences

CONSTANTS
  Joint,      \* the joints of the instance
  TxFifo,     \* CAN_NUM_TXFQ_ELEM
  Tries,      \* sends of PING, HANDSHAKE and SETUP_LIMITS: retries + 1
  HomeTries,  \* probes of read_home_logical
  Wait,       \* how long send_wait waits for an answer
  HomeWait    \* how long read_home_logical does

OnBus(b) == {j \in Joint : BusForJoint(j) = b}

ASSUME JointAssumption == Joint \subseteq JointIndex /\ Joint # {}
ASSUME CountAssumption == {Tries, HomeTries, Wait, HomeWait} \subseteq Nat \ {0}

\* One DISABLE to each joint of a bus fits the FIFO: 16 elements, 6 joints.
ASSUME FifoAssumption ==
  TxFifo \in Nat /\ \A b \in Bus : Cardinality(OnBus(b)) <= TxFifo

NoJoint == 12

\* More than the longest time a joint may wait for a reminder, where
\* `unreminded` saturates. Between two reminders lie the PING and the HANDSHAKE
\* of another joint, or its own HOME, its own SETUP and the next joint's HOME;
\* each may take all its turns, whether the last one is answered or not.
Longer(a, b) == IF a > b THEN a ELSE b
Shorter(a, b) == IF a < b THEN a ELSE b
Starved == 1 + Longer(2 * Tries * Wait, 2 * HomeTries * HomeWait + Tries * Wait)

VARIABLES
  phase,       \* where Actuator_Init is
  cur,         \* the joint of the loop it is in
  other,       \* the joint keepalive_others is at
  tries,       \* sends of the present frame so far
  waiting,     \* the frame was accepted, its answer is awaited
  ok,          \* g_joint_ok
  hasFeedback, \* g_has_feedback
  txq,         \* what waits in the transmit FIFO of a bus
  rx,          \* answers in the receive FIFO of a bus
  busUp,       \* buses with a node that acknowledges
  powered,     \* drivers that have power
  enabled,     \* drivers that accept PD frames
  force,       \* drivers whose last target asks for force
  calibrated,  \* drivers that hold the limits of this boot
  unreminded   \* how long a joint has waited for its last MOTOR_ENABLE

position == <<phase, cur, other, tries, waiting>>
driverVars == <<powered, enabled, force, calibrated>>
vars == <<position, ok, hasFeedback, txq, rx, busUp, driverVars, unreminded>>

Phases == {"disable", "ping", "hs", "enable", "keep", "home", "keepHome",
           "keepLost", "setup", "keepSetup", "done"}
Opcodes == {"disable", "ping", "hs", "enable", "probe", "setup"}
Answers == {"ping", "hs", "page0", "page0disabled", "setup"}

TypeOK ==
  /\ phase \in Phases
  /\ cur \in Joint \cup {NoJoint} /\ other \in Joint \cup {NoJoint}
  /\ tries \in 0 .. Tries + HomeTries
  /\ waiting \in BOOLEAN
  /\ ok \subseteq Joint /\ hasFeedback \subseteq Joint
  /\ txq \in [Bus -> Seq(Joint \X Opcodes)]
  /\ \A b \in Bus : Len(txq[b]) <= TxFifo
  /\ rx \in [Bus -> SUBSET (Joint \X Answers)]
  /\ busUp \subseteq Bus
  /\ powered \subseteq Joint /\ enabled \subseteq powered
  /\ force \subseteq powered /\ calibrated \subseteq powered
  /\ unreminded \in [Joint -> 0 .. Starved]

\* The loops run in joint order.
FirstOf(S) ==
  IF S = {} THEN NoJoint ELSE CHOOSE j \in S : \A i \in S : j <= i
After(j) == FirstOf({i \in Joint : i > j})

\* After the memsets. A driver with power may be as the last session left it,
\* with a target, and enabled or in standby.
Init ==
  /\ phase = "disable" /\ cur = FirstOf(Joint) /\ other = NoJoint
  /\ tries = 0 /\ waiting = FALSE
  /\ ok = {} /\ hasFeedback = {}
  /\ txq = [b \in Bus |-> <<>>] /\ rx = [b \in Bus |-> {}]
  /\ powered \in SUBSET Joint
  /\ busUp = {BusForJoint(j) : j \in powered}
  /\ enabled \in SUBSET powered /\ force \in SUBSET powered
  /\ calibrated = {}
  /\ unreminded = [j \in Joint |-> 0]

-----------------------------------------------------------------------------
(* The firmware.                                                           *)

CurBus == BusForJoint(cur)

\* can_tx: a frame that finds the FIFO full is given up.
Fits(j) == Len(txq[BusForJoint(j)]) < TxFifo
\* Fault: the fill level is not looked at.
SendBug(j, op) == txq' = [txq EXCEPT ![BusForJoint(j)] = Append(@, <<j, op>>)]
Send(j, op) ==
  txq' = IF Fits(j) THEN [txq EXCEPT ![BusForJoint(j)] = Append(@, <<j, op>>)]
                    ELSE txq

Goto(p, j) ==
  /\ phase' = p /\ cur' = j
  /\ tries' = 0 /\ waiting' = FALSE

\* Each of the two loops over the joints ends where the next one starts.
NextPing == IF After(cur) = NoJoint THEN Goto("home", FirstOf(ok))
                                    ELSE Goto("ping", After(cur))
NextHome(stillOk) ==
  LET next == FirstOf({j \in stillOk : j > cur})
  IN IF next = NoJoint THEN Goto("done", NoJoint) ELSE Goto("home", next)

\* Fault: only the joints that are known to answer are disabled.
DisableAllBug ==
  /\ phase = "disable"
  /\ Goto("ping", FirstOf(Joint))
  /\ UNCHANGED <<other, ok, hasFeedback, txq, rx, busUp, driverVars, unreminded>>

\* disable_all_drivers_best_effort, a frame at a time.
DisableAll ==
  /\ phase = "disable"
  /\ Send(cur, "disable")
  /\ IF After(cur) = NoJoint THEN Goto("ping", FirstOf(Joint))
                             ELSE Goto("disable", After(cur))
  /\ UNCHANGED <<other, ok, hasFeedback, rx, busUp, driverVars, unreminded>>

\* What each phase sends, waits for, and how often.
Frame == CASE phase = "ping" -> "ping" [] phase = "hs" -> "hs"
           [] phase = "home" -> "probe" [] phase = "setup" -> "setup"
Wanted == CASE phase = "ping" -> "ping" [] phase = "hs" -> "hs"
            [] phase = "home" -> "page0" [] phase = "setup" -> "setup"
Limit == IF phase = "home" THEN HomeTries ELSE Tries
Asking == phase \in {"ping", "hs", "home", "setup"} /\ cur # NoJoint

\* One turn of the loop of send_wait or read_home_logical.
Ask ==
  /\ Asking /\ ~waiting /\ tries < Limit
  /\ Send(cur, Frame)
  /\ waiting' = Fits(cur) /\ tries' = tries + 1
  /\ UNCHANGED <<phase, cur, other, ok, hasFeedback, rx, busUp, driverVars, unreminded>>

\* Fault: a telemetry frame is a HOME whatever status it reports.
AnsweredBug == {a \in rx[CurBus] : a[1] = cur /\ (a[2] = Wanted \/ phase = "home")} # {}
Answered == <<cur, Wanted>> \in rx[CurBus]

\* keepalive_others starts at the first joint that is ok.
Others == ok \ {cur}
Remind(p) ==
  /\ phase' = p /\ other' = FirstOf(Others)
  /\ tries' = 0 /\ waiting' = FALSE
  /\ UNCHANGED cur

\* How long one turn waits.
Timeout == IF phase = "home" THEN HomeWait ELSE Wait

\* A wait has taken t units; if that is any time, a bus that is up has drained.
Pass(t) ==
  /\ t > 0 => \A b \in busUp : txq[b] = <<>>
  /\ unreminded' = [j \in Joint |->
       IF j \in ok THEN Shorter(Starved, unreminded[j] + t) ELSE 0]

\* The answer is there, in time. What else was received is skipped, or never
\* waited for again.
Match ==
  /\ waiting /\ Answered
  /\ \E t \in 0 .. Timeout : Pass(t)
  /\ rx' = [rx EXCEPT ![CurBus] = {}]
  /\ \/ phase = "ping" /\ Goto("hs", cur) /\ UNCHANGED other
     \/ phase = "hs" /\ Goto("enable", cur) /\ UNCHANGED other
     \/ phase = "home" /\ Remind("keepHome")
     \/ phase = "setup" /\ Remind("keepSetup")
  /\ UNCHANGED <<ok, hasFeedback, txq, busUp, driverVars>>

\* The timeout of one turn; frames that did not match are gone.
TimedOut ==
  /\ waiting /\ ~Answered
  /\ Pass(Timeout)
  /\ waiting' = FALSE
  /\ rx' = [rx EXCEPT ![CurBus] = {}]
  /\ UNCHANGED <<phase, cur, other, tries, ok, hasFeedback, txq, busUp, driverVars>>

\* Fault: a HOME that was not read is asked for again without end.
GiveUpBug ==
  /\ Asking /\ ~waiting /\ tries = Limit
  /\ \/ phase \in {"ping", "hs"} /\ Remind("keep")
     \/ phase = "home" /\ Goto("home", cur) /\ UNCHANGED other
     \/ phase = "setup" /\ Remind("keepSetup")
  /\ UNCHANGED <<ok, hasFeedback, txq, rx, busUp, driverVars, unreminded>>

\* No turn is left. A missing acknowledgement of SETUP_LIMITS is ignored.
GiveUp ==
  /\ Asking /\ ~waiting /\ tries = Limit
  /\ \/ phase \in {"ping", "hs"} /\ Remind("keep")
     \/ phase = "home" /\ Remind("keepLost")
     \/ phase = "setup" /\ Remind("keepSetup")
  /\ UNCHANGED <<ok, hasFeedback, txq, rx, busUp, driverVars, unreminded>>

\* The MOTOR_ENABLE of ping_handshake_enable; its acceptance makes a joint ok.
Enable ==
  /\ phase = "enable"
  /\ Send(cur, "enable")
  /\ ok' = IF Fits(cur) THEN ok \cup {cur} ELSE ok
  /\ Remind("keep")
  /\ UNCHANGED <<hasFeedback, rx, busUp, driverVars, unreminded>>

\* keepalive_others, a frame at a time. Fault: it stops before the present joint.
KeepaliveBug ==
  /\ phase \in {"keep", "keepHome", "keepLost", "keepSetup"} /\ other # NoJoint
  /\ Send(other, "enable")
  /\ unreminded' = IF Fits(other) THEN [unreminded EXCEPT ![other] = 0] ELSE unreminded
  /\ other' = FirstOf({j \in Others : j > other /\ j < cur})
  /\ UNCHANGED <<phase, cur, tries, waiting, ok, hasFeedback, rx, busUp, driverVars>>
Keepalive ==
  /\ phase \in {"keep", "keepHome", "keepLost", "keepSetup"} /\ other # NoJoint
  /\ Send(other, "enable")
  /\ unreminded' = IF Fits(other) THEN [unreminded EXCEPT ![other] = 0] ELSE unreminded
  /\ other' = FirstOf({j \in Others : j > other})
  /\ UNCHANGED <<phase, cur, tries, waiting, ok, hasFeedback, rx, busUp, driverVars>>

\* What follows a round of reminders. The joint whose HOME was not read is not
\* ok any more, but nothing disables its driver.
Reminded ==
  /\ other = NoJoint
  /\ \/ phase = "keep" /\ NextPing /\ UNCHANGED <<ok, hasFeedback>>
     \/ /\ phase = "keepHome" /\ Goto("setup", cur)
        /\ hasFeedback' = hasFeedback \cup {cur} /\ UNCHANGED ok
     \/ /\ phase = "keepLost" /\ ok' = ok \ {cur} /\ NextHome(ok')
        /\ UNCHANGED hasFeedback
     \/ phase = "keepSetup" /\ NextHome(ok) /\ UNCHANGED <<ok, hasFeedback>>
  /\ UNCHANGED <<other, txq, rx, busUp, driverVars, unreminded>>

\* No joint answered: there is nothing to calibrate.
NothingOk ==
  /\ phase = "home" /\ cur = NoJoint
  /\ Goto("done", NoJoint)
  /\ UNCHANGED <<other, ok, hasFeedback, txq, rx, busUp, driverVars, unreminded>>

Firmware ==
  \/ DisableAll \/ Ask \/ Match \/ TimedOut \/ GiveUp
  \/ Enable \/ Keepalive \/ Reminded \/ NothingOk

-----------------------------------------------------------------------------
(* The buses and the drivers.                                              *)

\* A driver with power obeys a frame and answers it, if it does; the answer may
\* be lost. One without power misses it. A driver may refuse to be enabled: its
\* telemetry then says Disabled.
Obey(j, op) ==
  LET answer == CASE op = "probe" -> {IF j \in enabled THEN "page0" ELSE "page0disabled"}
                  [] op \in {"ping", "hs", "setup"} -> {op}
                  [] OTHER -> {}
      b == BusForJoint(j)
  IN /\ \/ op = "disable" /\ enabled' = enabled \ {j}
        \/ op = "enable" /\ enabled' = enabled \cup {j}
        \/ op # "disable" /\ enabled' = enabled
     /\ force' = IF op = "disable" \/ (op = "probe" /\ j \in enabled)
                   THEN force \ {j} ELSE force
     /\ calibrated' = IF op = "setup" THEN calibrated \cup {j} ELSE calibrated
     /\ \E heard \in SUBSET answer :
          rx' = [rx EXCEPT ![b] = @ \cup {<<j, a>> : a \in heard}]

Deliver(b) ==
  /\ b \in busUp /\ txq[b] # <<>>
  /\ txq' = [txq EXCEPT ![b] = Tail(@)]
  /\ LET f == Head(txq[b])
     IN IF f[1] \in powered THEN Obey(f[1], f[2])
                            ELSE UNCHANGED <<enabled, force, calibrated, rx>>
  /\ UNCHANGED <<position, ok, hasFeedback, busUp, powered, unreminded>>

\* A driver gets its power after the MCU did; it comes up limp.
PowerUp(j) ==
  /\ j \notin powered
  /\ powered' = powered \cup {j}
  /\ busUp' = busUp \cup {BusForJoint(j)}
  /\ UNCHANGED <<position, ok, hasFeedback, txq, rx, enabled, force, calibrated, unreminded>>

Environment == (\E b \in Bus : Deliver(b)) \/ (\E j \in Joint : PowerUp(j))

\* Boot is over: the main loop takes over.
Done == phase = "done" /\ UNCHANGED vars

Next == Firmware \/ Environment \/ Done

\* The firmware runs and a live bus drains.
Spec == Init /\ [][Next]_vars /\ WF_vars(Firmware) /\ \A b \in Bus : WF_vars(Deliver(b))

-----------------------------------------------------------------------------
(* Properties.                                                             *)

HoldsForce(j) == j \in enabled \cap force

\* No driver starts to push during boot, although each is enabled while it may
\* still hold the target of the session before: the DISABLE that clears it is
\* ahead of every ENABLE on its bus (actuator_if.c:141-144).
BootGainsNoForce == [][\A j \in Joint : HoldsForce(j)' => HoldsForce(j)]_vars

\* The state the main loop starts from, as the module Actuator sees it.
Act == INSTANCE Actuator WITH
  TelemetryTimeout <- 1, MaxAge <- 1, Faults <- {},
  jointOk <- ok, runtimeFault <- {}, disablePending <- {},
  telemetryAge <- [j \in Joint |-> 0], statusDisabled <- Joint \ hasFeedback,
  feedbackRequired <- {}, activeRequired <- {},
  hasSetTarget <- FALSE, setTargetAge <- 1,
  busOff <- {}, reply <- [j \in Joint |-> "none"]

\* Whatever answered or did not, boot ends in an initial state of Actuator once
\* the last frames have left the FIFOs: the joints that are ok are enabled, limp
\* and limited, and no other driver pushes.
BootLeavesInit ==
  phase = "done" /\ (\A b \in Bus : txq[b] = <<>>) => Act!Init

\* No joint that is ok waits longer for a MOTOR_ENABLE than another joint's PING
\* and HANDSHAKE can take, or its own HOME and SETUP and the next joint's HOME
\* (actuator_if.c:203-207, 345-346): no reminder in between is missed or refused.
NoJointStarves == \A j \in ok : unreminded[j] < Starved

\* Boot comes to an end, whatever answers.
BootEnds == <>(phase = "done")
=============================================================================
