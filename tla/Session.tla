-------------------------------- MODULE Session --------------------------------
(***************************************************************************)
(* The session of the micro-ROS bridge (app/src/microros_bridge.c): how    *)
(* MicroRosBridge_SpinSome creates the entities of the node one by one,    *)
(* any of which may fail, cleans up by flags, publishes and spins while    *)
(* connected, and finds out by a ping that the agent is gone.              *)
(*                                                                         *)
(* Each library call is a step; an agent appears and disappears between    *)
(* any two of them. The library keeps what it made, `held`, until it is    *)
(* finalised, whatever becomes of the handle that names it; a call that    *)
(* fails keeps nothing.                                                    *)
(***************************************************************************)
EXTENDS Naturals

CONSTANT PingInterval   \* PING_INTERVAL_MS, in ticks

ASSUME IntervalAssumption == PingInterval \in Nat \ {0}

VARIABLES
  state,      \* waiting for the agent, or connected
  doing,      \* the call the loop is in
  at,         \* the entity of that call
  lifecycle,  \* entity_lifecycle
  handle,     \* the static handles that name an entity
  held,       \* what the library holds
  executes,   \* the subscriptions the executor runs
  sincePing,  \* now - last_ping_ms, up to the interval
  agent       \* whether there is one that answers

\* The library's own rules, of what it holds.
INSTANCE Entities WITH live <- held

bridgeVars == <<state, doing, at, lifecycle, handle, executes>>
vars == <<bridgeVars, held, sincePing, agent>>

TypeOK ==
  /\ state \in {"waiting", "connected"}
  /\ doing \in {"loop", "create", "subscribe", "destroy"}
  /\ at \in Entity
  /\ lifecycle \subseteq Entity
  /\ handle \subseteq Entity
  /\ held \subseteq Entity
  /\ executes \subseteq {joint_cmd}
  /\ sincePing \in 0 .. PingInterval
  /\ agent \in {"there", "gone"}

Init ==
  /\ state = "waiting" /\ doing = "loop" /\ at = support
  /\ lifecycle = {} /\ handle = {} /\ held = {} /\ executes = {}
  /\ sincePing = 0
  /\ agent \in {"there", "gone"}

-----------------------------------------------------------------------------
ResetEntityHandles == lifecycle' = {} /\ handle' = {} /\ executes' = {}

\* STATE_WAITING_AGENT: CreateEntities starts.
CreateEntities ==
  /\ state = "waiting" /\ doing = "loop"
  /\ doing' = "create" /\ at' = support
  /\ ResetEntityHandles
  /\ UNCHANGED <<state, held, sincePing, agent>>

\* The init call of one entity. It needs the agent and a free slot.
\* Fault: the flag is set before the result is known.
CreateBug(success) ==
  /\ doing = "create"
  /\ success => agent = "there" /\ at \notin held
  /\ lifecycle' = lifecycle \cup {at}
  /\ IF success
       THEN /\ handle' = handle \cup {at} /\ held' = held \cup {at}
            /\ IF at = executor THEN doing' = "subscribe" /\ UNCHANGED at
                                ELSE at' = at + 1 /\ UNCHANGED doing
       ELSE /\ doing' = "destroy" /\ at' = executor
            /\ UNCHANGED <<handle, held>>
  /\ UNCHANGED <<state, executes, sincePing, agent>>
\* Fault: a failure is left to the next CreateEntities.
CreateNoCleanupBug(success) ==
  /\ doing = "create"
  /\ success => agent = "there" /\ at \notin held
  /\ IF success
       THEN /\ lifecycle' = lifecycle \cup {at}
            /\ handle' = handle \cup {at} /\ held' = held \cup {at}
            /\ IF at = executor THEN doing' = "subscribe" /\ UNCHANGED at
                                ELSE at' = at + 1 /\ UNCHANGED doing
       ELSE /\ doing' = "loop" /\ at' = support
            /\ UNCHANGED <<lifecycle, handle, held>>
  /\ UNCHANGED <<state, executes, sincePing, agent>>
Create(success) ==
  /\ doing = "create"
  /\ success => agent = "there" /\ at \notin held
  /\ IF success
       THEN /\ lifecycle' = lifecycle \cup {at}
            /\ handle' = handle \cup {at} /\ held' = held \cup {at}
            /\ IF at = executor THEN doing' = "subscribe" /\ UNCHANGED at
                                ELSE at' = at + 1 /\ UNCHANGED doing
       ELSE /\ doing' = "destroy" /\ at' = executor
            /\ UNCHANGED <<lifecycle, handle, held>>
  /\ UNCHANGED <<state, executes, sincePing, agent>>

\* rclc_executor_add_subscription, which has no flag: its failure ends in the
\* same cleanup. Fault: its result is not looked at.
AddSubscriptionBug(success) ==
  /\ doing = "subscribe"
  /\ doing' = "loop" /\ at' = support
  /\ state' = "connected" /\ sincePing' = 0
  /\ executes' = IF success THEN {joint_cmd} ELSE {}
  /\ UNCHANGED <<lifecycle, handle, held, agent>>
AddSubscription(success) ==
  /\ doing = "subscribe"
  /\ IF success
       THEN /\ doing' = "loop" /\ at' = support
            /\ state' = "connected" /\ executes' = {joint_cmd} /\ sincePing' = 0
       ELSE /\ doing' = "destroy" /\ at' = executor
            /\ UNCHANGED <<state, executes, sincePing>>
  /\ UNCHANGED <<lifecycle, handle, held, agent>>

\* One step of DestroyEntities: from the executor down to the session, what
\* the flags name. A fini call frees the slot even when no agent answers it;
\* called with a handle that names nothing it frees nothing.
\* Fault: the node goes before its publishers.
NextDownBug == [e \in Entity |->
  CASE e = joint_cmd -> node [] e = node -> joint_diag [] e = joint_fb -> support
    [] e = support -> support [] OTHER -> e - 1]
NextDown == [e \in Entity |-> IF e = support THEN support ELSE e - 1]

DestroyEntities ==
  /\ doing = "destroy"
  /\ held' = IF at \in lifecycle \cap handle THEN held \ {at} ELSE held
  /\ IF at = support
       THEN /\ doing' = "loop" /\ UNCHANGED at
            /\ state' = "waiting"
            /\ ResetEntityHandles
       ELSE /\ at' = NextDown[at] /\ UNCHANGED <<doing, state>>
            /\ handle' = IF at \in lifecycle THEN handle \ {at} ELSE handle
            /\ UNCHANGED <<lifecycle, executes>>
  /\ UNCHANGED <<sincePing, agent>>

\* STATE_CONNECTED: a ping is due. One that is not answered ends the session;
\* one can be lost with the agent there.
\* Fault: the entities of the lost session are left to CreateEntities.
PingBug(answered) ==
  /\ state = "connected" /\ doing = "loop" /\ sincePing = PingInterval
  /\ answered => agent = "there"
  /\ sincePing' = 0
  /\ state' = IF answered THEN "connected" ELSE "waiting"
  /\ UNCHANGED <<doing, at, lifecycle, handle, held, executes, agent>>
Ping(answered) ==
  /\ state = "connected" /\ doing = "loop" /\ sincePing = PingInterval
  /\ answered => agent = "there"
  /\ sincePing' = 0
  /\ IF answered THEN UNCHANGED <<doing, at>>
                 ELSE doing' = "destroy" /\ at' = executor
  /\ UNCHANGED <<state, lifecycle, handle, held, executes, agent>>

\* No ping is due: the bridge spins its executor and publishes. Time passes;
\* the clock may run while the loop is elsewhere, but counts only here.
\* Fault: a spin counts as a sign of life.
SpinBug ==
  /\ state = "connected" /\ doing = "loop" /\ sincePing < PingInterval
  /\ sincePing' \in {0, 1}
  /\ UNCHANGED <<bridgeVars, held, agent>>
Spin ==
  /\ state = "connected" /\ doing = "loop" /\ sincePing < PingInterval
  /\ sincePing' = sincePing + 1
  /\ UNCHANGED <<bridgeVars, held, agent>>

SpinSome ==
  \/ CreateEntities \/ DestroyEntities \/ Spin
  \/ \E success \in BOOLEAN :
       Create(success) \/ AddSubscription(success) \/ Ping(success)

AgentChanges == agent' \in {"there", "gone"} \ {agent} /\ UNCHANGED <<bridgeVars, held, sincePing>>

Next == SpinSome \/ AgentChanges

\* The loop runs on, and a call that can succeed again and again is not failed
\* for ever: with the agent there, nothing but lost bytes makes it fail.
Fairness ==
  /\ WF_vars(SpinSome)
  /\ \A e \in Entity : SF_vars(at = e /\ Create(TRUE))
  /\ SF_vars(AddSubscription(TRUE))

Spec == Init /\ [][Next]_vars /\ Fairness

-----------------------------------------------------------------------------
(* Properties.                                                             *)

\* Whatever fails and whenever the agent goes, entities are made after and
\* finalised before those they depend on (microros_bridge.c:66-68).
ImplementsEntities == EntitiesSpec

\* No fini call is given a handle that names nothing (microros_bridge.c:67).
FiniIsGivenLive == doing = "destroy" /\ at \in lifecycle => at \in handle \cap held

\* The library never holds an entity that no handle names any more, which
\* nothing could free and whose slot the next session would find taken.
NothingForgotten == held \subseteq handle

\* While the main loop may spin and publish, every handle it uses is live and
\* the executor has the subscription.
ConnectedIsComplete ==
  state = "connected" /\ doing = "loop" => held = Entity /\ executes = {joint_cmd}

\* An agent that stays is connected to again, however often sessions failed.
Reconnects == <>[](agent = "there") => []<>(state = "connected")

\* An agent that is gone for good is noticed, and its session given up.
LossIsNoticed == <>[](agent = "gone") => <>[](state = "waiting" /\ held = {})
=============================================================================
