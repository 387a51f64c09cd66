----------------------------- MODULE SessionProofs -----------------------------
(***************************************************************************)
(* The safety properties of Session. The invariant behind all of them:     *)
(* lifecycle, handle and held agree, and are always a first part of the    *)
(* order in which the entities are made, because cleanup undoes it from    *)
(* the end.                                                                *)
(***************************************************************************)
EXTENDS Session, TLAPS

InLoop ==
  doing = "loop" =>
    /\ state = "waiting" => lifecycle = {} /\ handle = {} /\ executes = {}
    /\ state = "connected" => lifecycle = Entity /\ handle = Entity /\ executes = {joint_cmd}

InCreate ==
  /\ doing = "create" =>
       /\ state = "waiting"
       /\ \A e \in Entity : (e \in lifecycle <=> e < at) /\ (e \in handle <=> e < at)
  /\ doing = "subscribe" =>
       state = "waiting" /\ lifecycle = Entity /\ handle = Entity

InDestroy ==
  doing = "destroy" =>
    /\ \A e \in lifecycle : \A d \in Entity : d < e => d \in lifecycle
    /\ \A e \in Entity : e \in handle <=> e \in lifecycle /\ e <= at

IInv == TypeOK /\ held = handle /\ InLoop /\ InCreate /\ InDestroy

\* The entities are seven, in the order in which they are made.
LEMMA EntityFacts ==
  /\ Entity = 1 .. 7
  /\ support = 1 /\ executor = 7
  /\ \A e \in Entity : \A d \in Needs(e) : d \in Entity /\ d < e
BY DEF Entity, support, node, executor, joint_fb, imu_raw, joint_diag,
       joint_cmd, Needs

\* A set that holds all of 1 .. 7 but perhaps the last is complete with it.
LEMMA LastOneAdded ==
  ASSUME NEW S, S \subseteq 1 .. 7, \A e \in 1 .. 7 : e # 7 => e \in S
  PROVE  S \cup {7} = 1 .. 7
<1>1. 7 \in 1 .. 7
  OBVIOUS
<1>2. \A e : e \in S \cup {7} <=> e \in 1 .. 7
  BY <1>1, Zenon
<1>3. QED
  BY <1>2, Zenon

\* The invariant holds before the first session.
LEMMA InitIInv == Init => IInv
BY IntervalAssumption
DEF Entity, support, executor, Init, IInv, TypeOK, InLoop, InCreate, InDestroy

\* Every call of the library keeps the invariant, whether it fails or not.
LEMMA StepIInv == IInv /\ [Next]_vars => IInv'
<1> SUFFICES ASSUME IInv, [Next]_vars PROVE IInv'
  OBVIOUS
<1> USE IntervalAssumption DEF Entity, support, executor
<1>1. CASE CreateEntities
  BY <1>1 DEF CreateEntities, ResetEntityHandles, IInv, TypeOK, InLoop,
              InCreate, InDestroy
<1>2. ASSUME NEW success \in BOOLEAN, Create(success) PROVE IInv'
  <2>1. CASE success /\ at = executor
    <3>1. /\ doing' = "subscribe" /\ lifecycle' = Entity /\ handle' = Entity
          /\ held' = handle' /\ UNCHANGED <<at, state, executes, sincePing, agent>>
      <4>1. /\ lifecycle' = lifecycle \cup {7} /\ handle' = handle \cup {7}
            /\ held' = held \cup {7} /\ doing' = "subscribe"
            /\ UNCHANGED <<at, state, executes, sincePing, agent>>
        BY <1>2, <2>1 DEF Create
      <4>2. \A e \in 1 .. 7 : e # 7 => e \in lifecycle /\ e \in handle
        BY <1>2, <2>1 DEF Create, IInv, TypeOK, InCreate
      <4>3. lifecycle \subseteq 1 .. 7 /\ handle \subseteq 1 .. 7 /\ held = handle
        BY DEF IInv, TypeOK
      <4>4. lifecycle' = 1 .. 7 /\ handle' = 1 .. 7
        BY <4>1, <4>2, <4>3, LastOneAdded, Zenon
      <4>5. QED
        BY <4>1, <4>3, <4>4
    <3>2. QED
      BY <1>2, <3>1 DEF Create, IInv, TypeOK, InLoop, InCreate, InDestroy
  <2>2. CASE success /\ at # executor
    <3>1. /\ doing' = "create" /\ at' = at + 1
          /\ lifecycle' = lifecycle \cup {at} /\ handle' = handle \cup {at}
          /\ held' = handle' /\ UNCHANGED <<state, executes, sincePing, agent>>
      BY <1>2, <2>2 DEF Create, IInv
    <3>2. QED
      BY <1>2, <2>2, <3>1 DEF Create, IInv, TypeOK, InLoop, InCreate, InDestroy
  <2>3. CASE ~success
    <3>1. /\ doing' = "destroy" /\ at' = executor
          /\ UNCHANGED <<lifecycle, handle, held, state, executes, sincePing, agent>>
      BY <1>2, <2>3 DEF Create
    <3>2. QED
      BY <1>2, <3>1 DEF Create, IInv, TypeOK, InLoop, InCreate, InDestroy
  <2>4. QED
    BY <2>1, <2>2, <2>3
<1>3. ASSUME NEW success \in BOOLEAN, AddSubscription(success) PROVE IInv'
  BY <1>3 DEF AddSubscription, IInv, TypeOK, InLoop, InCreate, InDestroy
<1>4. CASE DestroyEntities
  <2>1. CASE at = support
    <3>1. held' = {}
      <4>1. handle \subseteq {1} /\ held = handle /\ (1 \in held => 1 \in lifecycle)
        BY <1>4, <2>1 DEF DestroyEntities, IInv, TypeOK, InDestroy
      <4>2. QED
        BY <1>4, <2>1, <4>1 DEF DestroyEntities
    <3>2. QED
      BY <1>4, <2>1, <3>1 DEF DestroyEntities, ResetEntityHandles, IInv, TypeOK,
                              InLoop, InCreate, InDestroy
  <2>2. CASE at # support
    <3>1. /\ at' = at - 1 /\ handle' = handle \ {at} /\ held' = handle'
          /\ doing' = "destroy"
          /\ UNCHANGED <<lifecycle, state, executes, sincePing, agent>>
      BY <1>4, <2>2 DEF DestroyEntities, NextDown, IInv, TypeOK, InDestroy
    <3>2. QED
      BY <1>4, <2>2, <3>1 DEF DestroyEntities, IInv, TypeOK, InLoop, InCreate,
                              InDestroy
  <2>3. QED
    BY <2>1, <2>2
<1>5. ASSUME NEW answered \in BOOLEAN, Ping(answered) PROVE IInv'
  BY <1>5 DEF Ping, IInv, TypeOK, InLoop, InCreate, InDestroy
<1>6. CASE Spin
  BY <1>6 DEF Spin, bridgeVars, IInv, TypeOK, InLoop, InCreate, InDestroy
<1>7. CASE AgentChanges
  BY <1>7 DEF AgentChanges, bridgeVars, IInv, TypeOK, InLoop, InCreate, InDestroy
<1>8. CASE UNCHANGED vars
  BY <1>8 DEF vars, bridgeVars, IInv, TypeOK, InLoop, InCreate, InDestroy
<1>9. QED
  BY <1>1, <1>2, <1>3, <1>4, <1>5, <1>6, <1>7, <1>8 DEF Next, SpinSome

\* The invariant holds in every reachable state of the bridge.
LEMMA Invariant == Spec => []IInv
BY InitIInv, StepIInv, PTL DEF Spec

\* The type invariant of the session.
THEOREM TypeCorrect == Spec => []TypeOK
<1>1. IInv => TypeOK
  BY DEF IInv
<1>2. QED
  BY <1>1, Invariant, PTL

\* Cleanup by flags never hands a dead or zeroed handle to a fini function
\* (microros_bridge.c:66-68).
THEOREM CleanupIsSafe == Spec => []FiniIsGivenLive
<1>1. IInv => FiniIsGivenLive
  BY EntityFacts DEF IInv, TypeOK, InDestroy, FiniIsGivenLive
<1>2. QED
  BY <1>1, Invariant, PTL

\* Whatever fails, in whatever order, no entity is left without a handle.
THEOREM NothingLeaks == Spec => []NothingForgotten
<1>1. IInv => NothingForgotten
  BY DEF IInv, TypeOK, InLoop, InCreate, InDestroy, NothingForgotten
<1>2. QED
  BY <1>1, Invariant, PTL

\* A connected bridge has all its entities.
THEOREM ConnectedHasAll == Spec => []ConnectedIsComplete
<1>1. IInv => ConnectedIsComplete
  BY DEF IInv, TypeOK, InLoop, ConnectedIsComplete
<1>2. QED
  BY <1>1, Invariant, PTL

\* The bridge uses the library by its rules: every step of the loop makes an
\* entity after those it needs, finalises one before them, or does neither.
THEOREM SessionImplementsEntities == Spec => ImplementsEntities
<1>1. Init => NothingLive
  BY DEF Init, NothingLive
<1>2. IInv /\ [Next]_vars => [Use]_held
  <2> SUFFICES ASSUME IInv, [Next]_vars PROVE [Use]_held
    OBVIOUS
  <2> USE EntityFacts
  <2>1. ASSUME NEW success \in BOOLEAN, Create(success) PROVE [Use]_held
    <3>1. CASE success
      <4>1. Make(at)
        BY <2>1, <3>1 DEF Create, IInv, TypeOK, InCreate, Make
      <4>2. QED
        BY <4>1 DEF Use, IInv, TypeOK
    <3>2. CASE ~success
      BY <2>1, <3>2 DEF Create
    <3>3. QED
      BY <3>1, <3>2
  <2>2. CASE DestroyEntities
    <3>1. CASE at \in lifecycle \cap handle
      <4>1. Dependants(at) \cap held = {}
        BY <2>2, <3>1 DEF DestroyEntities, IInv, TypeOK, InDestroy, Dependants
      <4>2. at \in held /\ held' = held \ {at}
        BY <2>2, <3>1 DEF DestroyEntities, IInv, InDestroy
      <4>3. QED
        BY <4>1, <4>2 DEF Finalise, Use, IInv, TypeOK
    <3>2. CASE at \notin lifecycle \cap handle
      BY <2>2, <3>2 DEF DestroyEntities
    <3>3. QED
      BY <3>1, <3>2
  <2>3. CASE CreateEntities \/ Spin \/ AgentChanges \/ UNCHANGED vars
    BY <2>3 DEF CreateEntities, Spin, AgentChanges, vars
  <2>4. ASSUME NEW success \in BOOLEAN, AddSubscription(success) \/ Ping(success)
        PROVE [Use]_held
    BY <2>4 DEF AddSubscription, Ping
  <2>5. QED
    BY <2>1, <2>2, <2>3, <2>4 DEF Next, SpinSome
<1>3. QED
  BY <1>1, <1>2, Invariant, PTL DEF Spec, ImplementsEntities, EntitiesSpec
=============================================================================
