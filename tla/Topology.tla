------------------------------ MODULE Topology ------------------------------
(***************************************************************************)
(* The static tables of the robot's wiring (app/inc/motor_topology.h and   *)
(* the decoding table of app/src/actuator_if.c): twelve joints in the      *)
(* ROS/OCS2 order LF, LH, RF, RH, three per leg, on two CAN-FD buses of    *)
(* six motor ids each.                                                     *)
(***************************************************************************)
EXTENDS Integers

JointIndex == 0..11
Bus == 1..2
MotorId == 1..6

\* Motor_LegGroupForJoint: 0 = LF, 1 = LH, 2 = RF, 3 = RH.
LegGroupForJoint(j) == j \div 3

\* Motor_JointTypeForJoint: 1 = abad, 2 = hip, 3 = knee.
JointTypeForJoint(j) == (j % 3) + 1

\* Motor_BusForJoint: the front legs (LF, RF) on CAN1, the hind legs on CAN2.
BusForJoint(j) == IF LegGroupForJoint(j) \in {0, 2} THEN 1 ELSE 2

\* Motor_IdForJoint: the right leg of a bus has ids 1-3, the left leg 4-6.
IdForJoint(j) ==
  JointTypeForJoint(j) + (IF LegGroupForJoint(j) \in {0, 1} THEN 3 ELSE 0)

\* joint_from_feedback_source: which joint speaks with this id on this bus.
JointFromSource(bus, id) ==
  IF bus = 1 THEN (IF id <= 3 THEN id + 5 ELSE id - 4)
             ELSE (IF id <= 3 THEN id + 8 ELSE id - 1)

\* The six joints Actuator_ServiceSafety takes to be on a bus (first/end).
SafetyBus(j) == IF j < 6 THEN 1 ELSE 2

\* The driver that a system frame addressed to joint j reaches when it is
\* sent on the bus Actuator_ServiceSafety chooses.
SafetyReaches(j) == JointFromSource(SafetyBus(j), IdForJoint(j))
=============================================================================
