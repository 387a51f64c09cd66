------------------------------- MODULE Entities -------------------------------
(***************************************************************************)
(* What the micro-ROS client library asks of its user: an entity is made   *)
(* once, after those it depends on, and is finalised once, before them.    *)
(* The library has a single slot for each entity of the bridge             *)
(* (colcon.meta: 1 node, 3 publishers, 1 subscription).                    *)
(***************************************************************************)
EXTENDS Naturals

support == 1     \* rclc_support_t: the session
node == 2
joint_fb == 3    \* the three publishers
imu_raw == 4
joint_diag == 5
joint_cmd == 6   \* the subscription
executor == 7

Entity == support .. executor

Needs(e) ==
  CASE e = support -> {}
    [] e \in {node, executor} -> {support}
    [] OTHER -> {node}

Dependants(e) == {d \in Entity : e \in Needs(d)}

VARIABLE live    \* the slots in use

NothingLive == live = {}

Make(e) ==
  /\ e \notin live /\ Needs(e) \subseteq live
  /\ live' = live \cup {e}

Finalise(e) ==
  /\ e \in live /\ Dependants(e) \cap live = {}
  /\ live' = live \ {e}

Use == \E e \in Entity : Make(e) \/ Finalise(e)

EntitiesSpec == NothingLive /\ [][Use]_live
=============================================================================
