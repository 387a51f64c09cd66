------------------------------ MODULE BootProofs ------------------------------
(***************************************************************************)
(* Actuator_Init for every set of joints, every number of tries, all       *)
(* timeouts, and every depth of the transmit FIFOs that holds one frame    *)
(* per joint of a bus; RemindersAreInTime needs two frames per joint.      *)
(***************************************************************************)
EXTENDS Boot, SequenceTheorems, FiniteSetTheorems, TLAPS

-----------------------------------------------------------------------------
(* Joints, buses and counts.                                               *)

\* Joints are numbers below NoJoint, each on one of the two buses.
LEMMA JointFacts ==
  /\ \A j \in Joint : j \in 0..11 /\ j \in Nat /\ j < NoJoint /\ BusForJoint(j) \in Bus
  /\ NoJoint \notin Joint /\ NoJoint = 12
BY JointAssumption DEF JointIndex, NoJoint, BusForJoint, Bus

\* A set of joints that is not empty has a first one.
LEMMA FirstExists ==
  ASSUME NEW S \in SUBSET Joint, S # {}
  PROVE  \E j \in S : \A i \in S : j <= i
<1> SUFFICES ASSUME \A j \in S : \E i \in S : i < j
             PROVE  FALSE
  BY JointFacts
<1>0. \A j \in S : j \in 0..11
  BY JointFacts
<1>1. 0 \notin S /\ 1 \notin S /\ 2 \notin S
  BY <1>0
<1>2. 3 \notin S /\ 4 \notin S /\ 5 \notin S
  BY <1>0, <1>1
<1>3. 6 \notin S /\ 7 \notin S /\ 8 \notin S
  BY <1>0, <1>1, <1>2
<1>4. 9 \notin S /\ 10 \notin S /\ 11 \notin S
  BY <1>0, <1>1, <1>2, <1>3
<1> QED BY <1>0, <1>1, <1>2, <1>3, <1>4

\* What FirstOf finds.
LEMMA FirstOfIs ==
  ASSUME NEW S \in SUBSET Joint
  PROVE  /\ FirstOf(S) \in Joint \cup {NoJoint}
         /\ FirstOf(S) = NoJoint <=> S = {}
         /\ FirstOf(S) # NoJoint => FirstOf(S) \in S
         /\ \A i \in S : FirstOf(S) <= i
<1>1. CASE S = {}
  BY <1>1 DEF FirstOf
<1>2. CASE S # {}
  <2>1. FirstOf(S) \in S /\ \A i \in S : FirstOf(S) <= i
    BY <1>2, FirstExists DEF FirstOf
  <2> QED BY <1>2, <2>1, JointFacts
<1> QED BY <1>1, <1>2

\* The joint after another one: nothing lies between them.
LEMMA AfterIs ==
  ASSUME NEW j \in Joint
  PROVE  /\ After(j) \in Joint \cup {NoJoint}
         /\ j < After(j)
         /\ \A i \in Joint : i < After(j) <=> i <= j
<1> DEFINE S == {i \in Joint : i > j}
<1>1. /\ FirstOf(S) \in Joint \cup {NoJoint}
      /\ FirstOf(S) = NoJoint <=> S = {}
      /\ FirstOf(S) # NoJoint => FirstOf(S) \in S
      /\ \A i \in S : FirstOf(S) <= i
  BY FirstOfIs
<1>2. After(j) = FirstOf(S)
  BY DEF After
<1>3. j < FirstOf(S)
  BY <1>1, JointFacts
<1>4. ASSUME NEW i \in Joint PROVE i < FirstOf(S) <=> i <= j
  <2>1. CASE i <= j
    BY <1>1, <1>3, <2>1, JointFacts
  <2>2. CASE ~(i <= j)
    <3>1. i \in S
      BY <2>2, JointFacts
    <3> HIDE DEF S
    <3> QED BY <1>1, <2>2, <3>1, JointFacts
  <2> QED BY <2>1, <2>2
<1> QED BY <1>1, <1>2, <1>3, <1>4

\* The joints of a bus before a given place.
Before(b, x) == {j \in OnBus(b) : j < x}

\* They are finitely many.
LEMMA BusIsFinite ==
  ASSUME NEW b \in Bus
  PROVE  IsFiniteSet(OnBus(b)) /\ Cardinality(OnBus(b)) \in Nat
<1>1. OnBus(b) \in SUBSET Nat /\ 11 \in Nat /\ \A j \in OnBus(b) : j <= 11
  BY JointFacts DEF OnBus
<1>2. IsFiniteSet(OnBus(b))
  BY <1>1, FS_BoundedSetOfNaturals
<1> QED BY <1>2, FS_CardinalityType

\* A smaller set of joints of a bus has no more elements.
LEMMA CountGrows ==
  ASSUME NEW b \in Bus, NEW T \in SUBSET OnBus(b), NEW S \in SUBSET T
  PROVE  /\ Cardinality(S) \in Nat /\ Cardinality(T) \in Nat
         /\ Cardinality(S) <= Cardinality(T)
         /\ Cardinality(T) <= Cardinality(OnBus(b))
<1>1. IsFiniteSet(OnBus(b))
  BY BusIsFinite
<1>2. IsFiniteSet(T) /\ Cardinality(T) <= Cardinality(OnBus(b))
  BY <1>1, FS_Subset
<1>3. IsFiniteSet(S) /\ Cardinality(S) <= Cardinality(T)
  BY <1>2, FS_Subset
<1> QED BY <1>2, <1>3, FS_CardinalityType

\* One joint more is one element more.
LEMMA CountOneMore ==
  ASSUME NEW b \in Bus, NEW T \in SUBSET OnBus(b), NEW S \in SUBSET T,
         NEW j \in T, j \notin S
  PROVE  Cardinality(S) + 1 <= Cardinality(T)
<1>1. S \cup {j} \in SUBSET T /\ S \in SUBSET OnBus(b)
  OBVIOUS
<1>2. IsFiniteSet(S)
  BY BusIsFinite, FS_Subset
<1>3. Cardinality(S \cup {j}) = Cardinality(S) + 1
  BY <1>2, FS_AddElement
<1>4. Cardinality(S \cup {j}) <= Cardinality(T)
  BY <1>1, CountGrows
<1> QED BY <1>3, <1>4

-----------------------------------------------------------------------------
(* The FIFOs.                                                              *)

Frames == Joint \X Opcodes

\* What is known of the FIFO of a bus.
LEMMA QueueTypes ==
  ASSUME TypeOK, NEW b \in Bus
  PROVE  /\ txq[b] \in Seq(Frames) /\ Len(txq[b]) \in Nat /\ Len(txq[b]) <= TxFifo
         /\ \A i \in 1..Len(txq[b]) :
              /\ txq[b][i] \in Frames
              /\ txq[b][i][1] \in Joint /\ txq[b][i][2] \in Opcodes
              /\ txq[b][i] = <<txq[b][i][1], txq[b][i][2]>>
<1>1. txq[b] \in Seq(Frames) /\ Len(txq[b]) <= TxFifo
  BY DEF TypeOK, Frames
<1>2. \A i \in 1..Len(txq[b]) : txq[b][i] \in Frames
  BY <1>1, ElementOfSeq
<1>3. \A f \in Frames : f[1] \in Joint /\ f[2] \in Opcodes /\ f = <<f[1], f[2]>>
  BY DEF Frames
<1> QED BY <1>1, <1>2, <1>3, LenProperties

\* What Send does: on the joint's bus a frame is added at the end, if it fits;
\* no other FIFO is touched.
LEMMA SendIs ==
  ASSUME TypeOK, NEW j \in Joint, NEW op \in Opcodes, Send(j, op)
  PROVE  /\ txq' \in [Bus -> Seq(Frames)]
         /\ \A b \in Bus : b # BusForJoint(j) \/ ~Fits(j) => txq'[b] = txq[b]
         /\ Fits(j) =>
              LET b == BusForJoint(j) IN
              /\ Len(txq'[b]) = Len(txq[b]) + 1
              /\ \A i \in 1..Len(txq[b]) : txq'[b][i] = txq[b][i]
              /\ txq'[b][Len(txq[b]) + 1] = <<j, op>>
         /\ \A b \in Bus : Len(txq'[b]) \in Nat /\ Len(txq'[b]) <= TxFifo
<1> DEFINE b0 == BusForJoint(j)
           f == <<j, op>>
<1>1. b0 \in Bus /\ f \in Frames /\ TxFifo \in Nat
  BY JointFacts, FifoAssumption DEF Frames
<1>2. txq \in [Bus -> Seq(Frames)] /\ \A b \in Bus : Len(txq[b]) \in Nat /\ Len(txq[b]) <= TxFifo
  BY QueueTypes DEF TypeOK, Frames
<1>3. CASE Fits(j)
  <2>1. txq' = [txq EXCEPT ![b0] = Append(@, f)]
    BY <1>3 DEF Send
  <2>2. txq'[b0] = Append(txq[b0], f) /\ \A b \in Bus : b # b0 => txq'[b] = txq[b]
    BY <1>1, <1>2, <2>1
  <2> HIDE DEF f, b0
  <2>3. /\ Append(txq[b0], f) \in Seq(Frames)
        /\ Len(Append(txq[b0], f)) = Len(txq[b0]) + 1
        /\ \A i \in 1..Len(txq[b0]) : Append(txq[b0], f)[i] = txq[b0][i]
        /\ Append(txq[b0], f)[Len(txq[b0]) + 1] = f
    BY <1>1, <1>2, AppendProperties
  <2>4. txq' \in [Bus -> Seq(Frames)]
    BY <1>1, <1>2, <2>1, <2>3
  <2>5. Len(txq[b0]) < TxFifo
    BY <1>3 DEF Fits, b0
  <2>6. \A b \in Bus : Len(txq'[b]) \in Nat /\ Len(txq'[b]) <= TxFifo
    BY <1>1, <1>2, <2>2, <2>3, <2>5
  <2> QED BY <1>3, <2>2, <2>3, <2>4, <2>6 DEF f, b0
<1>4. CASE ~Fits(j)
  BY <1>2, <1>4 DEF Send
<1> QED BY <1>3, <1>4

\* What Deliver does to the FIFOs: the first frame leaves one of them.
LEMMA TakeIs ==
  ASSUME TypeOK, NEW b \in Bus, txq[b] # <<>>, txq' = [txq EXCEPT ![b] = Tail(@)]
  PROVE  /\ txq' \in [Bus -> Seq(Frames)]
         /\ \A c \in Bus : c # b => txq'[c] = txq[c]
         /\ 1 \in 1..Len(txq[b]) /\ Head(txq[b]) = txq[b][1]
         /\ Len(txq'[b]) = Len(txq[b]) - 1
         /\ \A i \in 1..Len(txq'[b]) : i + 1 \in 1..Len(txq[b]) /\ txq'[b][i] = txq[b][i + 1]
         /\ \A c \in Bus : Len(txq'[c]) \in Nat /\ Len(txq'[c]) <= TxFifo
<1>1. txq \in [Bus -> Seq(Frames)] /\ TxFifo \in Nat
      /\ \A c \in Bus : Len(txq[c]) \in Nat /\ Len(txq[c]) <= TxFifo
  BY QueueTypes, FifoAssumption DEF TypeOK, Frames
<1>2. txq'[b] = Tail(txq[b]) /\ \A c \in Bus : c # b => txq'[c] = txq[c]
  BY <1>1
<1>3. Len(txq[b]) \in Nat \ {0} /\ Head(txq[b]) = txq[b][1]
  BY <1>1, EmptySeq
<1>4. /\ Tail(txq[b]) \in Seq(Frames) /\ Len(Tail(txq[b])) = Len(txq[b]) - 1
      /\ \A i \in 1..Len(Tail(txq[b])) : Tail(txq[b])[i] = txq[b][i + 1]
  BY <1>1, HeadTailProperties
<1>5. txq' \in [Bus -> Seq(Frames)]
  BY <1>1, <1>4
<1>6. \A c \in Bus : Len(txq'[c]) \in Nat /\ Len(txq'[c]) <= TxFifo
  BY <1>1, <1>2, <1>3, <1>4
<1> QED BY <1>2, <1>3, <1>4, <1>5, <1>6

-----------------------------------------------------------------------------
(* The invariant.                                                          *)

\* A frame for the joint waits in the FIFO of its bus.
Queued(j, op) ==
  \E i \in 1..Len(txq[BusForJoint(j)]) : txq[BusForJoint(j)][i] = <<j, op>>

PingPhases == {"disable", "ping", "hs", "enable", "keep"}
HomePhases == {"home", "keepHome", "keepLost", "setup", "keepSetup"}
KeepPhases == {"keep", "keepHome", "keepLost", "keepSetup"}

\* Where Actuator_Init is, and which joint it is at.
PlaceInv ==
  /\ phase \notin {"home", "done"} => cur \in Joint
  /\ phase = "done" => cur = NoJoint
  /\ other # NoJoint => phase \in KeepPhases
  /\ waiting => phase \in {"ping", "hs", "home", "setup"} /\ cur \in Joint /\ tries > 0
  /\ phase \in HomePhases /\ cur # NoJoint => cur \in ok
  /\ phase = "home" /\ cur = NoJoint => ok = {}
  /\ phase = "disable" => ok = {}

\* The joints whose calibration is over are those before the present one.
FeedbackInv ==
  /\ phase \in PingPhases => hasFeedback = {}
  /\ phase \in {"home", "keepHome", "keepLost", "done"} => hasFeedback = {j \in ok : j < cur}
  /\ phase \in {"setup", "keepSetup"} => hasFeedback = {j \in ok : j <= cur}

\* Who answers has power.
PowerInv ==
  /\ \A j \in powered : BusForJoint(j) \in busUp
  /\ ok \subseteq powered
  /\ phase \in {"hs", "enable"} => cur \in powered
  /\ \A b \in Bus : \A a \in rx[b] : a[1] \in powered

\* Every frame is on the bus of its joint, and no DISABLE waits behind another
\* kind of frame. There are no more of them than joints were disabled.
QueueInv ==
  /\ \A b \in Bus : \A i \in 1..Len(txq[b]) : BusForJoint(txq[b][i][1]) = b
  /\ \A b \in Bus : \A i, k \in 1..Len(txq[b]) :
       i < k /\ txq[b][k][2] = "disable" => txq[b][i][2] = "disable"
  /\ phase = "disable" => \A b \in Bus :
       /\ \A i \in 1..Len(txq[b]) : txq[b][i][2] = "disable"
       /\ Len(txq[b]) <= Cardinality(Before(b, cur))

\* A driver that still has the target of the last session will be disabled.
ForceInv ==
  \A j \in force : (phase = "disable" /\ cur <= j) \/ Queued(j, "disable")

\* A driver that reports a HOME accepts PD frames, and nothing will undo it.
StaysEnabled(j) == j \in enabled /\ ~Queued(j, "disable")
EnabledInv ==
  /\ \A b \in Bus : \A a \in rx[b] : a[2] = "page0" => StaysEnabled(a[1])
  /\ phase = "keepHome" => StaysEnabled(cur)
  /\ \A j \in hasFeedback : StaysEnabled(j)

\* Exactly the joints whose HOME was read get their limits.
SetupInv ==
  /\ calibrated \subseteq hasFeedback
  /\ \A j \in Joint : Queued(j, "setup") => j \in hasFeedback
  /\ \A j \in hasFeedback :
       \/ phase = "setup" /\ cur = j /\ tries = 0
       \/ j \in calibrated
       \/ Queued(j, "setup")

\* Joints that may have been asked for their HOME.
Probed(j) ==
  /\ phase \notin PingPhases
  /\ j < cur \/ (j = cur /\ ~(phase = "home" /\ tries = 0))

\* Nothing that the joint was asked is under way.
NotAsked(j, op, answer) ==
  ~Queued(j, op) /\ <<j, answer>> \notin rx[BusForJoint(j)]

\* What it was asked is the last frame of the FIFO.
AskedLast(j, op, answer) ==
  LET q == txq[BusForJoint(j)] IN
  /\ <<j, answer>> \notin rx[BusForJoint(j)]
  /\ \A i \in 1..Len(q) : q[i] = <<j, op>> <=> i = Len(q)

\* An answer is one to the frame that is waited for: it is not there before that
\* frame has left the FIFO, and all that was before it.
WaitsFor(j, p, op, answer) ==
  phase = p /\ cur = j =>
    IF waiting THEN txq[BusForJoint(j)] # <<>> => AskedLast(j, op, answer)
               ELSE NotAsked(j, op, answer)

ProbeInv ==
  /\ \A j \in Joint : Queued(j, "probe") => Probed(j)
  /\ \A b \in Bus : \A a \in rx[b] : a[2] = "page0" => Probed(a[1])
  /\ \A j \in Joint : WaitsFor(j, "home", "probe", "page0")

\* So the FIFO has room for the first SETUP_LIMITS of a joint.
RoomInv ==
  /\ other # NoJoint => other # cur
  /\ phase = "keepHome" =>
       Len(txq[CurBus]) <= Cardinality(Before(CurBus, other) \ {cur})
  /\ phase = "setup" /\ tries = 0 => Len(txq[CurBus]) < TxFifo

-----------------------------------------------------------------------------
(* Types and places.                                                       *)

\* The longest wait is a number.
LEMMA StarvedIsNat == Starved \in Nat
<1> DEFINE a == 2 * Tries * Wait
           b == 2 * HomeTries * HomeWait
           c == Tries * Wait
<1>1. /\ Tries \in Nat \ {0} /\ HomeTries \in Nat \ {0}
      /\ Wait \in Nat \ {0} /\ HomeWait \in Nat \ {0}
  BY CountAssumption
<1>2. 2 * Tries \in Nat /\ 2 * HomeTries \in Nat
  BY <1>1
<1>3. a \in Nat /\ b \in Nat /\ c \in Nat
  BY <1>1, <1>2, SMT
<1> HIDE DEF a, b, c
<1>4. 1 + Longer(a, b + c) \in Nat
  BY <1>3 DEF Longer
<1> QED BY <1>4 DEF Starved, a, b, c

\* A wait takes time, and no more than its timeout.
LEMMA TimeoutIs ==
  Timeout \in Nat /\ Timeout > 0 /\ \A t \in 0 .. Timeout : t \in Nat /\ t <= Timeout
BY CountAssumption DEF Timeout

\* What the time that passes changes.
LEMMA PassIs ==
  ASSUME TypeOK, NEW t \in Nat, Pass(t)
  PROVE  /\ unreminded' \in [Joint -> 0 .. Starved]
         /\ \A j \in ok : unreminded'[j] = Shorter(Starved, unreminded[j] + t)
         /\ \A j \in Joint \ ok : unreminded'[j] = 0
         /\ t = 0 \/ \A b \in busUp : txq[b] = <<>>
<1>1. ASSUME NEW j \in Joint
      PROVE  (IF j \in ok THEN Shorter(Starved, unreminded[j] + t) ELSE 0) \in 0 .. Starved
  BY StarvedIsNat DEF Shorter, TypeOK
<1>2. unreminded' =
        [j \in Joint |-> IF j \in ok THEN Shorter(Starved, unreminded[j] + t) ELSE 0]
  BY DEF Pass
<1>3. ok \subseteq Joint
  BY DEF TypeOK
<1>4. t = 0 \/ \A b \in busUp : txq[b] = <<>>
  BY DEF Pass
<1> QED BY <1>1, <1>2, <1>3, <1>4

\* A full timeout finds the buses that are up drained.
LEMMA FullWait ==
  ASSUME TypeOK, Pass(Timeout)
  PROVE  /\ unreminded' \in [Joint -> 0 .. Starved]
         /\ \A b \in busUp : txq[b] = <<>>
BY TimeoutIs, PassIs

\* Boot starts at the first joint.
LEMMA CoreInit == Init => TypeOK /\ PlaceInv
<1> SUFFICES ASSUME Init PROVE TypeOK /\ PlaceInv
  OBVIOUS
<1>1. cur \in Joint
  BY FirstOfIs, JointAssumption DEF Init
<1>2. txq \in [Bus -> Seq(Joint \X Opcodes)] /\ \A b \in Bus : Len(txq[b]) <= TxFifo
  BY FifoAssumption, EmptySeq DEF Init
<1>3. unreminded \in [Joint -> 0 .. Starved] /\ tries \in 0 .. Tries + HomeTries
  BY StarvedIsNat, CountAssumption DEF Init
<1>4. busUp \subseteq Bus /\ powered \subseteq Joint
  BY JointFacts DEF Init
<1>5. waiting \in BOOLEAN /\ waiting = FALSE
  BY Zenon DEF Init
<1>6. TypeOK
  BY <1>1, <1>2, <1>3, <1>4, <1>5 DEF Init, TypeOK, Phases
<1>7. PlaceInv
  BY <1>1, <1>5, JointFacts DEF Init, PlaceInv, HomePhases
<1> QED BY <1>6, <1>7

\* The bus of the present joint.
LEMMA CurBusIsBus == ASSUME cur \in Joint PROVE CurBus \in Bus
BY JointFacts DEF CurBus

\* A joint of the rounds is a joint.
LEMMA CurIsJoint ==
  ASSUME TypeOK, PlaceInv, phase \notin {"home", "done"} \/ waiting \/ Asking
  PROVE  cur \in Joint
BY DEF TypeOK, PlaceInv, Asking

\* What a step of the firmware leaves alone.
Quiet == UNCHANGED <<busUp, powered, enabled, force, calibrated>>

\* The first DISABLE of a joint, and the last.
LEMMA CoreDisableAll ==
  ASSUME TypeOK, PlaceInv, DisableAll
  PROVE  TypeOK' /\ PlaceInv'
<1>1. cur \in Joint
  BY CurIsJoint DEF DisableAll
<1>2. /\ Send(cur, "disable") /\ Quiet
      /\ UNCHANGED <<other, ok, hasFeedback, rx, unreminded>>
  BY DEF DisableAll, Quiet, driverVars
<1>3. txq' \in [Bus -> Seq(Joint \X Opcodes)] /\ \A b \in Bus : Len(txq'[b]) <= TxFifo
  BY <1>1, <1>2, SendIs DEF Opcodes, Frames
<1>4. /\ cur' \in Joint /\ phase' \in {"disable", "ping"}
      /\ tries' = 0 /\ waiting' = FALSE
  <2>1. After(cur) \in Joint \cup {NoJoint} /\ FirstOf(Joint) \in Joint
    BY <1>1, AfterIs, FirstOfIs, JointAssumption
  <2> QED BY <2>1 DEF DisableAll, Goto
<1>5. waiting' \in BOOLEAN /\ ~waiting'
  BY <1>4, Zenon
<1>6. TypeOK'
  BY <1>2, <1>3, <1>4, <1>5, CountAssumption DEF TypeOK, Phases, Quiet
<1>7. other = NoJoint /\ ok = {}
  BY DEF PlaceInv, DisableAll, KeepPhases
<1>8. PlaceInv'
  BY <1>2, <1>4, <1>5, <1>7, JointFacts DEF PlaceInv, HomePhases
<1> QED BY <1>6, <1>8

\* A turn of the loop that asks.
LEMMA CoreAsk ==
  ASSUME TypeOK, PlaceInv, Ask
  PROVE  TypeOK' /\ PlaceInv'
<1>1. cur \in Joint /\ phase \in {"ping", "hs", "home", "setup"}
  BY CurIsJoint DEF Ask, Asking
<1>2. /\ Send(cur, Frame) /\ Quiet
      /\ UNCHANGED <<phase, cur, other, ok, hasFeedback, rx, unreminded>>
      /\ tries' = tries + 1 /\ waiting' = Fits(cur) /\ tries < Limit
  BY DEF Ask, Quiet, driverVars
<1>3. Frame \in Opcodes
  BY <1>1 DEF Frame, Opcodes
<1>4. txq' \in [Bus -> Seq(Joint \X Opcodes)] /\ \A b \in Bus : Len(txq'[b]) <= TxFifo
  BY <1>1, <1>2, <1>3, SendIs DEF Frames
<1>5. tries' \in 0 .. Tries + HomeTries /\ tries' > 0
  BY <1>2, CountAssumption DEF TypeOK, Limit
<1>6. waiting' \in BOOLEAN
  BY <1>2, SMT DEF Fits
<1>7. TypeOK'
  BY <1>2, <1>4, <1>5, <1>6 DEF TypeOK, Quiet
<1>8. PlaceInv'
  BY <1>1, <1>2, <1>5 DEF PlaceInv
<1> QED BY <1>7, <1>8

\* The first of the others, to be reminded.
LEMMA OtherIs ==
  ASSUME TypeOK, NEW S \in SUBSET Others
  PROVE  FirstOf(S) \in Joint \cup {NoJoint}
BY FirstOfIs DEF Others, TypeOK

\* A round of reminders starts.
LEMMA CoreRemind ==
  ASSUME TypeOK, PlaceInv, cur \in Joint, NEW p \in KeepPhases, Remind(p),
         p = "keep" \/ cur \in ok, Quiet, ok' \in SUBSET Joint, ok \subseteq ok',
         UNCHANGED hasFeedback, unreminded' \in [Joint -> 0 .. Starved],
         txq' \in [Bus -> Seq(Joint \X Opcodes)], \A b \in Bus : Len(txq'[b]) <= TxFifo,
         rx' \in [Bus -> SUBSET (Joint \X Answers)]
  PROVE  TypeOK' /\ PlaceInv'
<1>1. other' \in Joint \cup {NoJoint}
  BY OtherIs DEF Remind
<1>2. waiting' \in BOOLEAN /\ ~waiting' /\ tries' = 0 /\ phase' = p /\ cur' = cur
  BY Zenon DEF Remind
<1>3. TypeOK'
  BY <1>1, <1>2, CountAssumption DEF TypeOK, Quiet, Phases, KeepPhases
<1>4. PlaceInv'
  BY <1>2, JointFacts DEF PlaceInv, KeepPhases, HomePhases
<1> QED BY <1>3, <1>4

\* A FIFO of answers that is emptied.
LEMMA ForgetIs ==
  ASSUME TypeOK, rx' = [rx EXCEPT ![CurBus] = {}]
  PROVE  /\ rx' \in [Bus -> SUBSET (Joint \X Answers)]
         /\ \A b \in Bus : rx'[b] \subseteq rx[b]
         /\ CurBus \in Bus => rx'[CurBus] = {}
BY DEF TypeOK

\* An answer, and what it leads to.
LEMMA CoreMatch ==
  ASSUME TypeOK, PlaceInv, Match
  PROVE  TypeOK' /\ PlaceInv'
<1>1. cur \in Joint
  BY CurIsJoint DEF Match
<1>2. /\ Quiet /\ UNCHANGED <<ok, hasFeedback, txq>>
      /\ rx' \in [Bus -> SUBSET (Joint \X Answers)]
      /\ unreminded' \in [Joint -> 0 .. Starved]
  BY ForgetIs, PassIs, TimeoutIs DEF Match, Quiet, driverVars
<1>3. ASSUME NEW p \in {"hs", "enable"}, Goto(p, cur), UNCHANGED other,
             phase \in {"ping", "hs"}
      PROVE  TypeOK' /\ PlaceInv'
  <2>1. waiting' \in BOOLEAN /\ ~waiting' /\ tries' = 0 /\ phase' = p /\ cur' = cur
    BY <1>3, Zenon DEF Goto
  <2>2. TypeOK'
    BY <1>2, <1>3, <2>1, CountAssumption DEF TypeOK, Quiet, Phases
  <2>3. PlaceInv'
    BY <1>1, <1>2, <1>3, <2>1 DEF PlaceInv, KeepPhases, HomePhases
  <2> QED BY <2>2, <2>3
<1>4. ASSUME NEW p \in {"keepHome", "keepSetup"}, Remind(p), phase \in {"home", "setup"}
      PROVE  TypeOK' /\ PlaceInv'
  <2>1. p \in KeepPhases /\ cur \in ok
    BY <1>1, <1>4, JointFacts DEF PlaceInv, KeepPhases, HomePhases
  <2> QED BY <1>1, <1>2, <1>4, <2>1, CoreRemind DEF TypeOK
<1> QED BY <1>3, <1>4 DEF Match

\* The end of a wait.
LEMMA CoreTimedOut ==
  ASSUME TypeOK, PlaceInv, TimedOut
  PROVE  TypeOK' /\ PlaceInv'
<1>1. cur \in Joint
  BY CurIsJoint DEF TimedOut
<1>2. /\ Quiet /\ UNCHANGED <<phase, cur, other, tries, ok, hasFeedback, txq>>
      /\ rx' \in [Bus -> SUBSET (Joint \X Answers)]
  BY ForgetIs DEF TimedOut, Quiet, driverVars
<1>3. unreminded' \in [Joint -> 0 .. Starved]
  BY FullWait DEF TimedOut
<1>4. waiting' \in BOOLEAN /\ ~waiting'
  BY Zenon DEF TimedOut
<1>5. TypeOK'
  BY <1>2, <1>3, <1>4 DEF TypeOK, Quiet
<1>6. PlaceInv'
  BY <1>1, <1>2, <1>4 DEF PlaceInv
<1> QED BY <1>5, <1>6

\* A joint that does not answer.
LEMMA CoreGiveUp ==
  ASSUME TypeOK, PlaceInv, GiveUp
  PROVE  TypeOK' /\ PlaceInv'
<1>1. cur \in Joint
  BY CurIsJoint DEF GiveUp
<1>2. Quiet /\ UNCHANGED <<ok, hasFeedback, txq, rx, unreminded>>
  BY DEF GiveUp, Quiet, driverVars
<1>3. PICK p \in KeepPhases : Remind(p) /\ (p = "keep" \/ phase \in {"home", "setup"})
  BY DEF GiveUp, KeepPhases
<1>4. p = "keep" \/ cur \in ok
  BY <1>1, <1>3, JointFacts DEF PlaceInv, HomePhases
<1> QED BY <1>1, <1>2, <1>3, <1>4, CoreRemind DEF TypeOK

\* A joint becomes ok.
LEMMA CoreEnable ==
  ASSUME TypeOK, PlaceInv, Enable
  PROVE  TypeOK' /\ PlaceInv'
<1>1. cur \in Joint
  BY CurIsJoint DEF Enable
<1>2. /\ Quiet /\ UNCHANGED <<hasFeedback, rx, unreminded>>
      /\ Send(cur, "enable") /\ Remind("keep")
      /\ ok' = IF Fits(cur) THEN ok \cup {cur} ELSE ok
  BY DEF Enable, Quiet, driverVars
<1>3. txq' \in [Bus -> Seq(Joint \X Opcodes)] /\ \A b \in Bus : Len(txq'[b]) <= TxFifo
  BY <1>1, <1>2, SendIs DEF Opcodes, Frames
<1>4. ok' \in SUBSET Joint /\ ok \subseteq ok'
  BY <1>1, <1>2 DEF TypeOK
<1>5. rx' \in [Bus -> SUBSET (Joint \X Answers)] /\ "keep" \in KeepPhases
  BY <1>2 DEF TypeOK, KeepPhases
<1> QED BY <1>1, <1>2, <1>3, <1>4, <1>5, CoreRemind DEF TypeOK

\* A reminder.
LEMMA CoreKeepalive ==
  ASSUME TypeOK, PlaceInv, Keepalive
  PROVE  TypeOK' /\ PlaceInv' /\ other \in Joint
<1>1. cur \in Joint /\ other \in Joint /\ phase \in KeepPhases
  BY CurIsJoint DEF Keepalive, TypeOK, KeepPhases
<1>2. /\ Quiet /\ UNCHANGED <<phase, cur, tries, waiting, ok, hasFeedback, rx>>
      /\ Send(other, "enable")
      /\ unreminded' = IF Fits(other) THEN [unreminded EXCEPT ![other] = 0] ELSE unreminded
      /\ other' = FirstOf({j \in Others : j > other})
  BY DEF Keepalive, Quiet, driverVars
<1>3. txq' \in [Bus -> Seq(Joint \X Opcodes)] /\ \A b \in Bus : Len(txq'[b]) <= TxFifo
  BY <1>1, <1>2, SendIs DEF Opcodes, Frames
<1>4. other' \in Joint \cup {NoJoint}
  BY <1>2, OtherIs
<1>5. unreminded' \in [Joint -> 0 .. Starved]
  <2>1. CASE Fits(other)
    <3>1. unreminded' = [unreminded EXCEPT ![other] = 0]
      BY <1>2, <2>1
    <3>2. 0 \in 0 .. Starved /\ unreminded \in [Joint -> 0 .. Starved]
      BY StarvedIsNat DEF TypeOK
    <3> QED BY <3>1, <3>2
  <2>2. CASE ~Fits(other)
    BY <1>2, <2>2 DEF TypeOK
  <2> QED BY <2>1, <2>2
<1>6. TypeOK'
  BY <1>2, <1>3, <1>4, <1>5 DEF TypeOK, Quiet
<1>7. PlaceInv'
  BY <1>1, <1>2 DEF PlaceInv
<1> QED BY <1>1, <1>6, <1>7

\* The loop goes on with the next joint that is ok, or ends.
LEMMA CoreNextHome ==
  ASSUME TypeOK, PlaceInv, NEW left \in SUBSET ok, cur \in Joint, NextHome(left), ok' = left,
         hasFeedback' \in SUBSET Joint, other = NoJoint, phase # "disable",
         Quiet, UNCHANGED <<other, txq, rx, unreminded>>
  PROVE  /\ TypeOK' /\ PlaceInv' /\ tries' = 0 /\ ~waiting'
         /\ cur < cur' /\ \A j \in left : j < cur' <=> j <= cur
         /\ IF cur' = NoJoint THEN phase' = "done" ELSE phase' = "home" /\ cur' \in left
<1> DEFINE S == {j \in left : j > cur}
<1>1. /\ FirstOf(S) \in Joint \cup {NoJoint}
      /\ FirstOf(S) = NoJoint <=> S = {}
      /\ FirstOf(S) # NoJoint => FirstOf(S) \in S
      /\ \A i \in S : FirstOf(S) <= i
  BY FirstOfIs DEF TypeOK
<1>2. /\ cur' = FirstOf(S) /\ tries' = 0 /\ waiting' = FALSE
      /\ phase' = IF cur' = NoJoint THEN "done" ELSE "home"
  BY DEF NextHome, Goto
<1>3. waiting' \in BOOLEAN /\ ~waiting'
  BY <1>2, Zenon
<1>4. cur' # NoJoint => cur' \in left
  BY <1>1, <1>2
<1>5. cur < cur'
  BY <1>1, <1>2, JointFacts
<1>6. ASSUME NEW j \in left PROVE j < cur' <=> j <= cur
  <2>1. j \in Joint /\ cur' \in Joint \cup {NoJoint}
    BY <1>1, <1>2 DEF TypeOK
  <2>2. CASE j <= cur
    BY <1>5, <2>1, <2>2, JointFacts
  <2>3. CASE ~(j <= cur)
    <3>1. j \in S
      BY <2>1, <2>3, JointFacts
    <3>2. cur' <= j
      BY <1>1, <1>2, <3>1
    <3> QED BY <2>1, <2>3, <3>2, JointFacts
  <2> QED BY <2>2, <2>3
<1>7. TypeOK'
  BY <1>1, <1>2, <1>3, CountAssumption DEF TypeOK, Phases, Quiet
<1>8. PlaceInv'
  BY <1>2, <1>3, <1>4, JointFacts DEF PlaceInv, HomePhases
<1> QED BY <1>2, <1>3, <1>4, <1>5, <1>6, <1>7, <1>8

\* The end of a round of reminders.
LEMMA CoreReminded ==
  ASSUME TypeOK, PlaceInv, Reminded
  PROVE  TypeOK' /\ PlaceInv'
<1>1. cur \in Joint /\ other = NoJoint
  BY CurIsJoint DEF Reminded
<1>2. Quiet /\ UNCHANGED <<other, txq, rx, unreminded>>
  BY DEF Reminded, Quiet, driverVars
<1>3. CASE phase = "keep" /\ NextPing /\ UNCHANGED <<ok, hasFeedback>>
  <2>1. /\ tries' = 0 /\ waiting' = FALSE
        /\ \/ phase' = "home" /\ cur' = FirstOf(ok)
           \/ phase' = "ping" /\ cur' = After(cur) /\ After(cur) # NoJoint
    BY <1>3 DEF NextPing, Goto
  <2>2. waiting' \in BOOLEAN /\ ~waiting'
    BY <2>1, Zenon
  <2>3. FirstOf(ok) \in Joint \cup {NoJoint} /\ (FirstOf(ok) = NoJoint <=> ok = {})
        /\ (FirstOf(ok) # NoJoint => FirstOf(ok) \in ok)
    BY FirstOfIs DEF TypeOK
  <2>4. After(cur) \in Joint \cup {NoJoint}
    BY <1>1, AfterIs
  <2>5. TypeOK'
    BY <1>2, <1>3, <2>1, <2>2, <2>3, <2>4, CountAssumption DEF TypeOK, Phases, Quiet
  <2>6. PlaceInv'
    BY <1>1, <1>2, <1>3, <2>1, <2>2, <2>3, <2>4 DEF PlaceInv, HomePhases
  <2> QED BY <2>5, <2>6
<1>4. CASE phase = "keepHome" /\ Goto("setup", cur)
           /\ hasFeedback' = hasFeedback \cup {cur} /\ UNCHANGED ok
  <2>1. waiting' \in BOOLEAN /\ ~waiting' /\ tries' = 0 /\ phase' = "setup" /\ cur' = cur
    BY <1>4, Zenon DEF Goto
  <2>2. TypeOK'
    BY <1>1, <1>2, <1>4, <2>1, CountAssumption DEF TypeOK, Phases, Quiet
  <2>3. PlaceInv'
    BY <1>1, <1>2, <1>4, <2>1 DEF PlaceInv, HomePhases
  <2> QED BY <2>2, <2>3
<1>5. CASE phase = "keepLost" /\ ok' = ok \ {cur} /\ NextHome(ok') /\ UNCHANGED hasFeedback
  <2>1. ok \ {cur} \in SUBSET ok /\ NextHome(ok \ {cur}) /\ hasFeedback' \in SUBSET Joint
    BY <1>5 DEF TypeOK
  <2> QED BY <1>1, <1>2, <1>5, <2>1, CoreNextHome
<1>6. CASE phase = "keepSetup" /\ NextHome(ok) /\ UNCHANGED <<ok, hasFeedback>>
  <2>1. hasFeedback' \in SUBSET Joint
    BY <1>6 DEF TypeOK
  <2> QED BY <1>1, <1>2, <1>6, <2>1, CoreNextHome
<1> QED BY <1>3, <1>4, <1>5, <1>6 DEF Reminded

\* No joint answered at all.
LEMMA CoreNothingOk ==
  ASSUME TypeOK, PlaceInv, NothingOk
  PROVE  TypeOK' /\ PlaceInv'
<1>1. /\ Quiet /\ UNCHANGED <<other, ok, hasFeedback, txq, rx, unreminded>>
      /\ phase' = "done" /\ cur' = NoJoint /\ tries' = 0 /\ phase = "home" /\ cur = NoJoint
  BY DEF NothingOk, Quiet, Goto, driverVars
<1>2. waiting' \in BOOLEAN /\ ~waiting'
  BY Zenon DEF NothingOk, Goto
<1>3. TypeOK'
  BY <1>1, <1>2, CountAssumption DEF TypeOK, Quiet, Phases
<1>4. PlaceInv'
  BY <1>1, <1>2 DEF PlaceInv, HomePhases, KeepPhases
<1> QED BY <1>3, <1>4

\* What a driver with power does with a frame.
LEMMA ObeyIs ==
  ASSUME TypeOK, NEW j \in powered, NEW op \in Opcodes, Obey(j, op)
  PROVE  /\ enabled' \in SUBSET powered
         /\ enabled' \in {enabled, enabled \cup {j}, enabled \ {j}}
         /\ op # "disable" => enabled \subseteq enabled'
         /\ op # "enable" => enabled' \subseteq enabled
         /\ force' \in SUBSET force /\ force \ {j} \subseteq force'
         /\ op = "disable" => j \notin force' /\ j \notin enabled'
         /\ calibrated' = IF op = "setup" THEN calibrated \cup {j} ELSE calibrated
         /\ rx' \in [Bus -> SUBSET (Joint \X Answers)]
         /\ \A b \in Bus : \A a \in rx'[b] :
              \/ a \in rx[b]
              \/ /\ b = BusForJoint(j) /\ a[1] = j /\ op \in {"ping", "hs", "setup", "probe"}
                 /\ a[2] = "page0" => op = "probe" /\ j \in enabled
                 /\ a[2] = "setup" => op = "setup"
<1> DEFINE answer ==
      CASE op = "probe" -> {IF j \in enabled THEN "page0" ELSE "page0disabled"}
        [] op \in {"ping", "hs", "setup"} -> {op}
        [] OTHER -> {}
<1>1. j \in Joint /\ BusForJoint(j) \in Bus
  BY JointFacts DEF TypeOK
<1>2. /\ \/ op = "disable" /\ enabled' = enabled \ {j}
         \/ op = "enable" /\ enabled' = enabled \cup {j}
         \/ op # "disable" /\ enabled' = enabled
      /\ force' = IF op = "disable" \/ (op = "probe" /\ j \in enabled)
                    THEN force \ {j} ELSE force
      /\ calibrated' = IF op = "setup" THEN calibrated \cup {j} ELSE calibrated
      /\ \E heard \in SUBSET answer :
           rx' = [rx EXCEPT ![BusForJoint(j)] = @ \cup {<<j, a>> : a \in heard}]
  BY DEF Obey
<1>3. PICK heard \in SUBSET answer :
        rx' = [rx EXCEPT ![BusForJoint(j)] = @ \cup {<<j, a>> : a \in heard}]
  BY <1>2
<1>4. ASSUME NEW a \in heard
      PROVE  /\ a \in Answers /\ op \in {"ping", "hs", "setup", "probe"}
             /\ a = "page0" => op = "probe" /\ j \in enabled
             /\ a = "setup" => op = "setup"
  BY <1>4 DEF Answers, Opcodes
<1> HIDE DEF answer
<1>5. {<<j, a>> : a \in heard} \in SUBSET (Joint \X Answers)
  BY <1>1, <1>4
<1>6. /\ rx'[BusForJoint(j)] = rx[BusForJoint(j)] \cup {<<j, a>> : a \in heard}
      /\ \A b \in Bus : b # BusForJoint(j) => rx'[b] = rx[b]
      /\ rx' \in [Bus -> SUBSET (Joint \X Answers)]
  BY <1>1, <1>3, <1>5 DEF TypeOK
<1>7. \A b \in Bus : \A a \in rx'[b] :
         \/ a \in rx[b]
         \/ /\ b = BusForJoint(j) /\ a[1] = j /\ op \in {"ping", "hs", "setup", "probe"}
            /\ a[2] = "page0" => op = "probe" /\ j \in enabled
            /\ a[2] = "setup" => op = "setup"
  BY <1>4, <1>6
<1>8. /\ enabled' \in SUBSET powered
      /\ enabled' \in {enabled, enabled \cup {j}, enabled \ {j}}
      /\ op # "disable" => enabled \subseteq enabled'
      /\ op # "enable" => enabled' \subseteq enabled
      /\ op = "disable" => j \notin enabled'
  BY <1>2 DEF TypeOK
<1>9. /\ force' \in SUBSET force /\ force \ {j} \subseteq force'
      /\ op = "disable" => j \notin force'
  BY <1>2
<1> QED BY <1>2, <1>6, <1>7, <1>8, <1>9

\* A frame reaches its driver, which may have no power to obey it.
LEMMA DeliverIs ==
  ASSUME TypeOK, NEW b \in Bus, Deliver(b)
  PROVE  /\ txq[b] # <<>> /\ txq' = [txq EXCEPT ![b] = Tail(@)]
         /\ 1 \in 1..Len(txq[b]) /\ Head(txq[b]) = txq[b][1]
         /\ txq[b][1][1] \in Joint /\ txq[b][1][2] \in Opcodes
         /\ UNCHANGED <<position, ok, hasFeedback, busUp, powered, unreminded>>
         /\ \/ txq[b][1][1] \in powered /\ Obey(txq[b][1][1], txq[b][1][2])
            \/ txq[b][1][1] \notin powered /\ UNCHANGED <<enabled, force, calibrated, rx>>
<1>1. txq[b] # <<>> /\ txq' = [txq EXCEPT ![b] = Tail(@)]
  BY DEF Deliver
<1>2. 1 \in 1..Len(txq[b]) /\ Head(txq[b]) = txq[b][1]
  BY <1>1, TakeIs
<1>3. txq[b][1][1] \in Joint /\ txq[b][1][2] \in Opcodes
  BY <1>2, QueueTypes
<1> QED BY <1>1, <1>2, <1>3 DEF Deliver

\* A frame that is delivered.
LEMMA CoreDeliver ==
  ASSUME TypeOK, PlaceInv, NEW b \in Bus, Deliver(b)
  PROVE  TypeOK' /\ PlaceInv'
<1> DEFINE f == txq[b][1]
<1>1. /\ txq[b] # <<>> /\ txq' = [txq EXCEPT ![b] = Tail(@)]
      /\ f[1] \in Joint /\ f[2] \in Opcodes
      /\ UNCHANGED <<position, ok, hasFeedback, busUp, powered, unreminded>>
      /\ \/ f[1] \in powered /\ Obey(f[1], f[2])
         \/ f[1] \notin powered /\ UNCHANGED <<enabled, force, calibrated, rx>>
  BY DeliverIs
<1> HIDE DEF f
<1>2. txq' \in [Bus -> Seq(Joint \X Opcodes)] /\ \A c \in Bus : Len(txq'[c]) <= TxFifo
  BY <1>1, TakeIs DEF Frames
<1>3. /\ enabled' \subseteq powered /\ force' \subseteq powered /\ calibrated' \subseteq powered
      /\ rx' \in [Bus -> SUBSET (Joint \X Answers)]
  <2>1. CASE f[1] \in powered /\ Obey(f[1], f[2])
    BY <1>1, <2>1, ObeyIs DEF TypeOK
  <2>2. CASE UNCHANGED <<enabled, force, calibrated, rx>>
    BY <2>2 DEF TypeOK
  <2> QED BY <1>1, <2>1, <2>2
<1>4. UNCHANGED <<phase, cur, other, tries, waiting, ok, hasFeedback, busUp, powered, unreminded>>
  BY <1>1 DEF position
<1>5. TypeOK'
  BY <1>2, <1>3, <1>4 DEF TypeOK
<1>6. PlaceInv'
  BY <1>4 DEF PlaceInv
<1> QED BY <1>5, <1>6

\* A driver that gets its power.
LEMMA CorePowerUp ==
  ASSUME TypeOK, PlaceInv, NEW j \in Joint, PowerUp(j)
  PROVE  TypeOK' /\ PlaceInv'
<1>1. TypeOK'
  BY JointFacts DEF TypeOK, PowerUp, position
<1>2. PlaceInv'
  BY DEF PlaceInv, PowerUp, position
<1> QED BY <1>1, <1>2

\* Types and places are inductive by themselves.
LEMMA CoreNext == TypeOK /\ PlaceInv /\ [Next]_vars => TypeOK' /\ PlaceInv'
<1> SUFFICES ASSUME TypeOK, PlaceInv, [Next]_vars PROVE TypeOK' /\ PlaceInv'
  OBVIOUS
<1>1. CASE UNCHANGED vars
  BY <1>1 DEF TypeOK, PlaceInv, vars, position, driverVars
<1> QED
  BY <1>1, CoreDisableAll, CoreAsk, CoreMatch, CoreTimedOut, CoreGiveUp, CoreEnable,
     CoreKeepalive, CoreReminded, CoreNothingOk, CoreDeliver, CorePowerUp
     DEF Next, Firmware, Environment, Done

-----------------------------------------------------------------------------
(* What the steps do, in the terms of the other parts of the invariant.    *)

\* The four ends of a round of reminders.
LEMMA RemindedIs ==
  ASSUME TypeOK, PlaceInv, Reminded
  PROVE  /\ cur \in Joint /\ tries' = 0 /\ ~waiting' /\ UNCHANGED <<other, txq, rx>>
         /\ \/ /\ phase = "keep" /\ UNCHANGED <<ok, hasFeedback>>
               /\ phase' = "ping" /\ cur' \in Joint /\ cur < cur'
            \/ /\ phase = "keep" /\ UNCHANGED <<ok, hasFeedback>>
               /\ phase' = "home" /\ cur' = FirstOf(ok)
            \/ /\ phase = "keepHome" /\ phase' = "setup" /\ UNCHANGED <<cur, ok>>
               /\ hasFeedback' = hasFeedback \cup {cur}
            \/ /\ phase \in {"keepLost", "keepSetup"} /\ phase' \in {"home", "done"}
               /\ ok' = IF phase = "keepLost" THEN ok \ {cur} ELSE ok
               /\ UNCHANGED hasFeedback
               /\ cur < cur' /\ \A j \in ok' : j < cur' <=> j <= cur
<1>1. cur \in Joint /\ other = NoJoint
  BY CurIsJoint DEF Reminded
<1>2. Quiet /\ UNCHANGED <<other, txq, rx, unreminded>>
  BY DEF Reminded, Quiet, driverVars
<1>3. CASE phase = "keep" /\ NextPing /\ UNCHANGED <<ok, hasFeedback>>
  <2>1. ~waiting'
    BY <1>3, Zenon DEF NextPing, Goto
  <2>2. After(cur) \in Joint \cup {NoJoint} /\ cur < After(cur)
    BY <1>1, AfterIs
  <2> QED BY <1>1, <1>2, <1>3, <2>1, <2>2 DEF NextPing, Goto
<1>4. CASE phase = "keepHome" /\ Goto("setup", cur)
           /\ hasFeedback' = hasFeedback \cup {cur} /\ UNCHANGED ok
  <2>1. ~waiting'
    BY <1>4, Zenon DEF Goto
  <2> QED BY <1>1, <1>2, <1>4, <2>1 DEF Goto
<1>5. CASE phase = "keepLost" /\ ok' = ok \ {cur} /\ NextHome(ok') /\ UNCHANGED hasFeedback
  <2>1. /\ ok \ {cur} \in SUBSET ok /\ NextHome(ok \ {cur}) /\ hasFeedback' \in SUBSET Joint
        /\ ok' = ok \ {cur}
    BY <1>5 DEF TypeOK
  <2>2. /\ tries' = 0 /\ ~waiting' /\ cur < cur' /\ \A j \in ok' : j < cur' <=> j <= cur
        /\ phase' \in {"home", "done"}
    BY <1>1, <1>2, <1>5, <2>1, CoreNextHome
  <2> QED BY <1>1, <1>2, <1>5, <2>2
<1>6. CASE phase = "keepSetup" /\ NextHome(ok) /\ UNCHANGED <<ok, hasFeedback>>
  <2>1. hasFeedback' \in SUBSET Joint
    BY <1>6 DEF TypeOK
  <2>2. /\ tries' = 0 /\ ~waiting' /\ cur < cur' /\ \A j \in ok' : j < cur' <=> j <= cur
        /\ phase' \in {"home", "done"}
    BY <1>1, <1>2, <1>6, <2>1, CoreNextHome
  <2> QED BY <1>1, <1>2, <1>6, <2>2
<1> QED BY <1>3, <1>4, <1>5, <1>6 DEF Reminded

\* What an answer or the lack of one leads to.
LEMMA OutcomeIs ==
  ASSUME TypeOK, PlaceInv, Match \/ GiveUp
  PROVE  /\ cur \in Joint /\ cur' = cur /\ tries' = 0 /\ ~waiting'
         /\ UNCHANGED <<ok, hasFeedback, txq>>
         /\ \/ waiting /\ \E t \in 0 .. Timeout : Pass(t)
            \/ ~waiting /\ tries = Limit /\ UNCHANGED unreminded
         /\ phase' \in KeepPhases => other' = FirstOf(Others)
         /\ \/ phase = "ping" /\ phase' = "hs" /\ waiting /\ <<cur, "ping">> \in rx[CurBus]
            \/ phase = "hs" /\ phase' = "enable"
            \/ phase \in {"ping", "hs"} /\ phase' = "keep"
            \/ phase = "home" /\ phase' = "keepLost" /\ ~waiting
            \/ /\ phase = "home" /\ phase' = "keepHome" /\ waiting
               /\ <<cur, "page0">> \in rx[CurBus] /\ other' = FirstOf(Others)
            \/ /\ phase = "setup" /\ phase' = "keepSetup"
               /\ \/ waiting /\ <<cur, "setup">> \in rx[CurBus]
                  \/ ~waiting /\ tries = Tries
<1>1. cur \in Joint
  BY CurIsJoint DEF Match, GiveUp
<1>2. ~waiting'
  BY Zenon DEF Match, GiveUp, Goto, Remind
<1>3. CASE Match
  BY <1>1, <1>2, <1>3 DEF Match, Goto, Remind, Answered, Wanted, KeepPhases
<1>4. CASE GiveUp
  BY <1>1, <1>2, <1>4 DEF GiveUp, Remind, Limit
<1> QED BY <1>3, <1>4

\* After the DISABLE frames: a step of the firmware sends at most one frame of
\* another kind, and takes answers away.
Later ==
  /\ phase # "disable" /\ phase' # "disable" /\ Quiet
  /\ \A b \in Bus : rx'[b] \subseteq rx[b]
  /\ \/ txq' = txq
     \/ \E j \in Joint, op \in Opcodes \ {"disable"} :
          /\ Send(j, op)
          /\ op = "probe" => phase = "home" /\ j = cur
          /\ op = "setup" => phase = "setup" /\ j = cur

LaterSteps ==
  Ask \/ Match \/ TimedOut \/ GiveUp \/ Enable \/ Keepalive \/ Reminded \/ NothingOk

\* Every step of the firmware after the DISABLE frames is of that kind.
LEMMA LaterIs ==
  ASSUME TypeOK, PlaceInv, LaterSteps
  PROVE  Later
<1>1. CASE Ask
  <2>1. cur \in Joint /\ phase \in {"ping", "hs", "home", "setup"}
    BY <1>1, CurIsJoint DEF Ask, Asking
  <2>2. Frame \in Opcodes \ {"disable"} /\ (Frame = "probe" => phase = "home")
        /\ (Frame = "setup" => phase = "setup")
    BY <2>1 DEF Frame, Opcodes
  <2>3. Send(cur, Frame) /\ phase' = phase /\ rx' = rx /\ Quiet
    BY <1>1 DEF Ask, Quiet, driverVars
  <2> QED BY <2>1, <2>2, <2>3 DEF Later
<1>2. CASE Match
  <2>1. Quiet /\ txq' = txq /\ \A b \in Bus : rx'[b] \subseteq rx[b]
    BY <1>2, ForgetIs DEF Match, Quiet, driverVars
  <2>2. phase # "disable" /\ phase' # "disable"
    BY <1>2, OutcomeIs
  <2> QED BY <2>1, <2>2 DEF Later
<1>3. CASE TimedOut
  <2>1. /\ Quiet /\ txq' = txq /\ \A b \in Bus : rx'[b] \subseteq rx[b]
        /\ phase' = phase /\ waiting
    BY <1>3, ForgetIs DEF TimedOut, Quiet, driverVars
  <2> QED BY <2>1 DEF Later, PlaceInv
<1>4. CASE GiveUp
  <2>1. Quiet /\ txq' = txq /\ rx' = rx
    BY <1>4 DEF GiveUp, Quiet, driverVars
  <2>2. phase # "disable" /\ phase' # "disable"
    BY <1>4, OutcomeIs
  <2> QED BY <2>1, <2>2 DEF Later
<1>5. CASE Enable
  <2>1. Quiet /\ Send(cur, "enable") /\ rx' = rx /\ phase = "enable" /\ phase' = "keep"
    BY <1>5 DEF Enable, Remind, Quiet, driverVars
  <2>2. cur \in Joint /\ "enable" \in Opcodes \ {"disable"}
    BY <2>1 DEF PlaceInv, Opcodes
  <2> QED BY <2>1, <2>2 DEF Later
<1>6. CASE Keepalive
  <2>1. Quiet /\ Send(other, "enable") /\ rx' = rx /\ phase' = phase /\ phase # "disable"
    BY <1>6 DEF Keepalive, Quiet, driverVars
  <2>2. other \in Joint /\ "enable" \in Opcodes \ {"disable"}
    BY <1>6, CoreKeepalive DEF Opcodes
  <2> QED BY <2>1, <2>2 DEF Later
<1>7. CASE Reminded
  <2>1. Quiet /\ txq' = txq /\ rx' = rx
    BY <1>7 DEF Reminded, Quiet, driverVars
  <2>2. phase # "disable" /\ phase' # "disable"
    BY <1>7, RemindedIs
  <2> QED BY <2>1, <2>2 DEF Later
<1>8. CASE NothingOk
  BY <1>8 DEF NothingOk, Goto, Later, Quiet, driverVars
<1> QED BY <1>1, <1>2, <1>3, <1>4, <1>5, <1>6, <1>7, <1>8 DEF LaterSteps

\* Every step is one of these.
LEMMA StepIs ==
  ASSUME [Next]_vars
  PROVE  \/ UNCHANGED vars \/ DisableAll \/ LaterSteps
         \/ (\E b \in Bus : Deliver(b)) \/ (\E j \in Joint : PowerUp(j))
BY DEF Next, Firmware, Environment, Done, LaterSteps

-----------------------------------------------------------------------------
(* Which joints were calibrated.                                           *)

\* No joint has feedback when boot begins.
LEMMA FeedbackInit == Init => FeedbackInv
BY DEF Init, FeedbackInv, PingPhases

\* A joint gets its feedback when its turn of the second loop ends well.
LEMMA FeedbackNext ==
  ASSUME TypeOK, PlaceInv, FeedbackInv, [Next]_vars
  PROVE  FeedbackInv'
<1>1. CASE UNCHANGED <<phase, cur, ok, hasFeedback>>
  BY <1>1 DEF FeedbackInv
<1>2. CASE DisableAll
  BY <1>2 DEF DisableAll, Goto, FeedbackInv, PingPhases
<1>3. CASE Match \/ GiveUp
  <2>1. UNCHANGED <<cur, ok, hasFeedback>>
    BY <1>3, OutcomeIs
  <2>2. \/ phase \in PingPhases /\ phase' \in PingPhases
        \/ phase = "home" /\ phase' \in {"keepHome", "keepLost"}
        \/ phase = "setup" /\ phase' = "keepSetup"
    BY <1>3, OutcomeIs DEF PingPhases
  <2> QED BY <2>1, <2>2 DEF FeedbackInv, PingPhases
<1>4. CASE Enable
  BY <1>4 DEF Enable, Remind, FeedbackInv, PingPhases
<1>5. CASE Reminded
  <2>1. CASE phase = "keep" /\ phase' = "ping" /\ UNCHANGED hasFeedback
    BY <2>1 DEF FeedbackInv, PingPhases
  <2>2. CASE phase = "keep" /\ phase' = "home" /\ UNCHANGED <<ok, hasFeedback>>
             /\ cur' = FirstOf(ok)
    <3>1. \A i \in ok : i \in Joint /\ FirstOf(ok) <= i
          /\ FirstOf(ok) \in Joint \cup {NoJoint}
      BY FirstOfIs DEF TypeOK
    <3>2. {j \in ok : j < FirstOf(ok)} = {}
      BY <3>1, JointFacts
    <3> QED BY <2>2, <3>2 DEF FeedbackInv, PingPhases
  <2>3. CASE phase = "keepHome" /\ phase' = "setup" /\ UNCHANGED <<cur, ok>>
             /\ hasFeedback' = hasFeedback \cup {cur}
    <3>1. cur \in ok /\ ok \subseteq Joint
      BY <1>5, <2>3, RemindedIs, JointFacts DEF PlaceInv, HomePhases, TypeOK
    <3>2. {j \in ok : j < cur} \cup {cur} = {j \in ok : j <= cur}
      BY <3>1, JointFacts
    <3> QED BY <2>3, <3>2 DEF FeedbackInv, PingPhases
  <2>4. CASE /\ phase \in {"keepLost", "keepSetup"} /\ phase' \in {"home", "done"}
             /\ ok' = IF phase = "keepLost" THEN ok \ {cur} ELSE ok
             /\ UNCHANGED hasFeedback
             /\ cur < cur' /\ \A j \in ok' : j < cur' <=> j <= cur
    <3>1. {j \in ok' : j < cur'} = {j \in ok' : j <= cur}
      BY <2>4
    <3>2. {j \in ok' : j <= cur} = hasFeedback
      <4>1. CASE phase = "keepSetup"
        BY <2>4, <4>1 DEF FeedbackInv
      <4>2. CASE phase = "keepLost"
        <5>1. \A j \in ok : j \in Nat /\ cur \in Nat
          BY <1>5, RemindedIs, JointFacts DEF TypeOK
        <5>2. {j \in ok \ {cur} : j <= cur} = {j \in ok : j < cur}
          BY <5>1
        <5> QED BY <2>4, <4>2, <5>2 DEF FeedbackInv
      <4> QED BY <2>4, <4>1, <4>2
    <3> QED BY <2>4, <3>1, <3>2 DEF FeedbackInv, PingPhases
  <2> QED BY <1>5, <2>1, <2>2, <2>3, <2>4, RemindedIs
<1>6. CASE NothingOk
  BY <1>6 DEF NothingOk, Goto, FeedbackInv, PingPhases
<1>7. Ask \/ TimedOut \/ Keepalive => UNCHANGED <<phase, cur, ok, hasFeedback>>
  BY DEF Ask, TimedOut, Keepalive
<1>8. \A b \in Bus : Deliver(b) => UNCHANGED <<phase, cur, ok, hasFeedback>>
  BY DEF Deliver, position
<1>9. \A j \in Joint : PowerUp(j) => UNCHANGED <<phase, cur, ok, hasFeedback>>
  BY DEF PowerUp, position
<1>10. UNCHANGED vars => UNCHANGED <<phase, cur, ok, hasFeedback>>
  BY DEF vars, position
<1> QED BY <1>1, <1>2, <1>3, <1>4, <1>5, <1>6, <1>7, <1>8, <1>9, <1>10, StepIs DEF LaterSteps

-----------------------------------------------------------------------------
(* Who has power.                                                          *)

\* A bus is up when boot begins if a driver on it has power.
LEMMA PowerInit == Init => PowerInv
<1> SUFFICES ASSUME Init PROVE PowerInv
  OBVIOUS
<1>1. rx = [b \in Bus |-> {}] /\ busUp = {BusForJoint(j) : j \in powered} /\ ok = {}
      /\ phase = "disable"
  BY DEF Init
<1> QED BY <1>1 DEF PowerInv

\* A joint is called ok after its driver has answered.
LEMMA PowerNext ==
  ASSUME TypeOK, PlaceInv, PowerInv, [Next]_vars
  PROVE  PowerInv'
<1>1. CASE UNCHANGED vars
  BY <1>1 DEF PowerInv, vars, position, driverVars
<1>2. CASE DisableAll
  BY <1>2 DEF DisableAll, Goto, PowerInv, driverVars
<1>3. CASE LaterSteps
  <2>1. Quiet /\ \A b \in Bus : rx'[b] \subseteq rx[b]
    BY <1>3, LaterIs DEF Later
  <2>2. ok' \subseteq powered
    <3>1. CASE Enable
      BY <3>1 DEF PowerInv, Enable
    <3>2. CASE Reminded
      BY <3>2, RemindedIs DEF PowerInv
    <3>3. Ask \/ Match \/ TimedOut \/ GiveUp \/ Keepalive \/ NothingOk => ok' = ok
      BY DEF Ask, Match, TimedOut, GiveUp, Keepalive, NothingOk
    <3> QED BY <1>3, <3>1, <3>2, <3>3 DEF LaterSteps, PowerInv
  <2>3. phase' \in {"hs", "enable"} => cur' \in powered
    <3>1. CASE Match \/ GiveUp
      <4>1. CASE phase = "ping" /\ phase' = "hs" /\ <<cur, "ping">> \in rx[CurBus]
        BY <3>1, <4>1, OutcomeIs, CurBusIsBus DEF PowerInv
      <4>2. CASE phase = "hs" /\ phase' = "enable"
        BY <3>1, <4>2, OutcomeIs DEF PowerInv
      <4> QED BY <3>1, <4>1, <4>2, OutcomeIs
    <3>2. Reminded => phase' \notin {"hs", "enable"}
      BY RemindedIs
    <3>3. Enable \/ NothingOk => phase' \notin {"hs", "enable"}
      BY DEF Enable, NothingOk, Remind, Goto
    <3>4. Ask \/ TimedOut \/ Keepalive => phase' = phase /\ cur' = cur
      BY DEF Ask, TimedOut, Keepalive
    <3> QED BY <1>3, <3>1, <3>2, <3>3, <3>4 DEF LaterSteps, PowerInv
  <2> QED BY <2>1, <2>2, <2>3 DEF PowerInv, Quiet
<1>4. ASSUME NEW b \in Bus, Deliver(b) PROVE PowerInv'
  <2>1. /\ UNCHANGED <<position, ok, hasFeedback, busUp, powered, unreminded>>
        /\ txq[b][1][1] \in Joint /\ txq[b][1][2] \in Opcodes
        /\ \/ txq[b][1][1] \in powered /\ Obey(txq[b][1][1], txq[b][1][2])
           \/ txq[b][1][1] \notin powered /\ UNCHANGED <<enabled, force, calibrated, rx>>
    BY <1>4, DeliverIs
  <2>2. \A c \in Bus : \A a \in rx'[c] : a[1] \in powered
    <3>1. CASE UNCHANGED rx
      BY <3>1 DEF PowerInv
    <3>2. CASE txq[b][1][1] \in powered /\ Obey(txq[b][1][1], txq[b][1][2])
      <4> DEFINE j == txq[b][1][1]
                 op == txq[b][1][2]
      <4>1. j \in powered /\ op \in Opcodes /\ Obey(j, op)
        BY <2>1, <3>2
      <4> HIDE DEF j, op
      <4>2. \A c \in Bus : \A a \in rx'[c] : a \in rx[c] \/ a[1] = j
        BY <4>1, ObeyIs
      <4> QED BY <4>1, <4>2 DEF PowerInv
    <3> QED BY <2>1, <3>1, <3>2
  <2> QED BY <2>1, <2>2 DEF PowerInv, position
<1>5. ASSUME NEW j \in Joint, PowerUp(j) PROVE PowerInv'
  BY <1>5 DEF PowerUp, PowerInv, position
<1> QED BY <1>1, <1>2, <1>3, <1>4, <1>5, StepIs

-----------------------------------------------------------------------------
(* What waits in the FIFOs.                                                *)

\* The FIFOs are empty when boot begins.
LEMMA QueueInit == Init => QueueInv
<1> SUFFICES ASSUME Init PROVE QueueInv
  OBVIOUS
<1>1. cur \in Joint /\ txq = [b \in Bus |-> <<>>]
  BY CoreInit DEF Init, PlaceInv
<1>2. \A b \in Bus : Len(txq[b]) = 0 /\ 1..Len(txq[b]) = {}
  BY <1>1, EmptySeq
<1>3. \A b \in Bus : Cardinality(Before(b, cur)) \in Nat
  BY CountGrows DEF Before
<1> QED BY <1>2, <1>3 DEF QueueInv

\* A frame that is sent after the DISABLE frames does not come before one.
LEMMA QueueSend ==
  ASSUME TypeOK, QueueInv, NEW j \in Joint, NEW op \in Opcodes, Send(j, op),
         op # "disable" \/ phase = "disable"
  PROVE  /\ \A b \in Bus : \A i \in 1..Len(txq'[b]) : BusForJoint(txq'[b][i][1]) = b
         /\ \A b \in Bus : \A i, k \in 1..Len(txq'[b]) :
              i < k /\ txq'[b][k][2] = "disable" => txq'[b][i][2] = "disable"
<1> SUFFICES ASSUME NEW b \in Bus
             PROVE  /\ \A i \in 1..Len(txq'[b]) : BusForJoint(txq'[b][i][1]) = b
                    /\ \A i, k \in 1..Len(txq'[b]) :
                         i < k /\ txq'[b][k][2] = "disable" => txq'[b][i][2] = "disable"
  OBVIOUS
<1>1. CASE b # BusForJoint(j) \/ ~Fits(j)
  BY <1>1, SendIs DEF QueueInv
<1>2. CASE b = BusForJoint(j) /\ Fits(j)
  <2>1. /\ Len(txq'[b]) = Len(txq[b]) + 1 /\ Len(txq[b]) \in Nat
        /\ \A i \in 1..Len(txq[b]) : txq'[b][i] = txq[b][i]
        /\ txq'[b][Len(txq[b]) + 1] = <<j, op>>
    BY <1>2, SendIs, QueueTypes
  <2>2. \A i \in 1..Len(txq'[b]) :
          \/ i \in 1..Len(txq[b]) /\ txq'[b][i] = txq[b][i]
          \/ i = Len(txq[b]) + 1 /\ txq'[b][i][1] = j /\ txq'[b][i][2] = op
    BY <2>1
  <2>3. \A i \in 1..Len(txq'[b]) : BusForJoint(txq'[b][i][1]) = b
    BY <1>2, <2>2 DEF QueueInv
  <2>4. ASSUME NEW i \in 1..Len(txq'[b]), NEW k \in 1..Len(txq'[b]), i < k,
               txq'[b][k][2] = "disable"
        PROVE  txq'[b][i][2] = "disable"
    <3>1. i \in 1..Len(txq[b]) /\ txq'[b][i] = txq[b][i]
      BY <2>1, <2>4
    <3>2. CASE k \in 1..Len(txq[b])
      BY <2>1, <2>4, <3>1, <3>2 DEF QueueInv
    <3>3. CASE k = Len(txq[b]) + 1
      <4>1. op = "disable"
        BY <2>1, <2>4, <3>3
      <4> QED BY <3>1, <4>1 DEF QueueInv
    <3> QED BY <2>1, <3>2, <3>3
  <2> QED BY <2>3, <2>4
<1> QED BY <1>1, <1>2

\* The DISABLE of a joint finds room: there are no more of them than joints.
LEMMA DisableFits ==
  ASSUME TypeOK, PlaceInv, QueueInv, phase = "disable"
  PROVE  /\ cur \in Joint /\ Fits(cur)
         /\ LET b == BusForJoint(cur) IN
            Len(txq[b]) + 1 <= Cardinality(Before(b, After(cur)))
         /\ \A b \in Bus : Cardinality(Before(b, cur)) <= Cardinality(Before(b, After(cur)))
<1> DEFINE b == BusForJoint(cur)
<1>1. cur \in Joint /\ b \in Bus
  BY JointFacts DEF PlaceInv
<1>2. After(cur) \in Joint \cup {NoJoint} /\ \A i \in Joint : i < After(cur) <=> i <= cur
  BY <1>1, AfterIs
<1>3. \A c \in Bus : Before(c, After(cur)) = {j \in OnBus(c) : j <= cur}
  BY <1>2 DEF Before, OnBus
<1>4. ASSUME NEW c \in Bus
      PROVE  /\ Before(c, cur) \in SUBSET Before(c, After(cur))
             /\ Before(c, After(cur)) \in SUBSET OnBus(c)
  <2>1. \A j \in OnBus(c) : j < cur => j <= cur
    BY <1>1, JointFacts DEF OnBus
  <2> QED BY <1>3, <2>1 DEF Before
<1>5. cur \in Before(b, After(cur)) /\ cur \notin Before(b, cur)
  <2>1. cur \in OnBus(b) /\ ~(cur < cur) /\ cur <= cur
    BY <1>1, JointFacts DEF OnBus
  <2> QED BY <1>1, <1>3, <2>1 DEF Before
<1>6. Cardinality(Before(b, cur)) + 1 <= Cardinality(Before(b, After(cur)))
  BY <1>1, <1>4, <1>5, CountOneMore
<1>7. /\ \A c \in Bus : Cardinality(Before(c, cur)) <= Cardinality(Before(c, After(cur)))
      /\ Cardinality(Before(b, After(cur))) <= Cardinality(OnBus(b))
      /\ Cardinality(Before(b, cur)) \in Nat /\ Cardinality(Before(b, After(cur))) \in Nat
  BY <1>1, <1>4, CountGrows
<1>8. Len(txq[b]) <= Cardinality(Before(b, cur)) /\ Len(txq[b]) \in Nat
  BY <1>1, QueueTypes DEF QueueInv
<1>9. Cardinality(OnBus(b)) <= TxFifo /\ Cardinality(OnBus(b)) \in Nat /\ TxFifo \in Nat
  BY <1>1, FifoAssumption, BusIsFinite
<1>10. Fits(cur)
  BY <1>6, <1>7, <1>8, <1>9 DEF Fits
<1>11. Len(txq[b]) + 1 <= Cardinality(Before(b, After(cur)))
  BY <1>6, <1>7, <1>8
<1> QED BY <1>1, <1>7, <1>10, <1>11

\* DISABLE frames come first.
LEMMA QueueNext ==
  ASSUME TypeOK, PlaceInv, QueueInv, [Next]_vars
  PROVE  QueueInv'
<1>1. CASE UNCHANGED <<phase, cur, txq>>
  BY <1>1 DEF QueueInv, Before
<1>2. CASE DisableAll
  <2>1. /\ Send(cur, "disable") /\ phase = "disable" /\ cur \in Joint
        /\ "disable" \in Opcodes
        /\ phase' = "disable" => cur' = After(cur)
    BY <1>2 DEF DisableAll, Goto, PlaceInv, Opcodes
  <2>2. ASSUME NEW b \in Bus, phase' = "disable"
        PROVE  /\ \A i \in 1..Len(txq'[b]) : txq'[b][i][2] = "disable"
               /\ Len(txq'[b]) <= Cardinality(Before(b, cur'))
    <3>1. /\ Cardinality(Before(b, cur)) <= Cardinality(Before(b, After(cur)))
          /\ Cardinality(Before(b, cur)) \in Nat /\ Cardinality(Before(b, After(cur))) \in Nat
          /\ Len(txq[b]) <= Cardinality(Before(b, cur)) /\ Len(txq[b]) \in Nat
          /\ \A i \in 1..Len(txq[b]) : txq[b][i][2] = "disable"
      BY <2>1, DisableFits, CountGrows, QueueTypes DEF Before, QueueInv
    <3>2. CASE b # BusForJoint(cur)
      <4>1. txq'[b] = txq[b]
        BY <2>1, <3>2, SendIs
      <4> QED BY <2>1, <2>2, <3>1, <4>1
    <3>3. CASE b = BusForJoint(cur)
      <4>1. /\ Len(txq'[b]) = Len(txq[b]) + 1
            /\ \A i \in 1..Len(txq[b]) : txq'[b][i] = txq[b][i]
            /\ txq'[b][Len(txq[b]) + 1] = <<cur, "disable">>
        BY <2>1, <3>3, SendIs, DisableFits
      <4>2. Len(txq[b]) + 1 <= Cardinality(Before(b, After(cur)))
        BY <2>1, <3>3, DisableFits
      <4>3. \A i \in 1..Len(txq'[b]) :
              \/ i \in 1..Len(txq[b]) /\ txq'[b][i] = txq[b][i]
              \/ i = Len(txq[b]) + 1 /\ txq'[b][i][2] = "disable"
        BY <3>1, <4>1
      <4> QED BY <2>1, <2>2, <3>1, <4>1, <4>2, <4>3
    <3> QED BY <3>2, <3>3
  <2> QED BY <2>1, <2>2, QueueSend DEF QueueInv
<1>3. CASE LaterSteps
  <2>1. phase' # "disable" /\ (txq' = txq
          \/ \E j \in Joint, op \in Opcodes \ {"disable"} : Send(j, op))
    BY <1>3, LaterIs DEF Later
  <2>2. CASE txq' = txq
    BY <2>1, <2>2 DEF QueueInv
  <2>3. CASE \E j \in Joint, op \in Opcodes \ {"disable"} : Send(j, op)
    BY <2>1, <2>3, QueueSend DEF QueueInv
  <2> QED BY <2>1, <2>2, <2>3
<1>4. ASSUME NEW b \in Bus, Deliver(b) PROVE QueueInv'
  <2>1. /\ \A c \in Bus : c # b => txq'[c] = txq[c]
        /\ Len(txq'[b]) = Len(txq[b]) - 1 /\ Len(txq'[b]) \in Nat /\ Len(txq[b]) \in Nat
        /\ \A i \in 1..Len(txq'[b]) : i + 1 \in 1..Len(txq[b]) /\ txq'[b][i] = txq[b][i + 1]
        /\ UNCHANGED <<phase, cur>>
    BY <1>4, TakeIs, DeliverIs, QueueTypes DEF position
  <2>2. \A c \in Bus : \A i \in 1..Len(txq'[c]) : BusForJoint(txq'[c][i][1]) = c
    BY <2>1 DEF QueueInv
  <2>3. ASSUME NEW c \in Bus, NEW i \in 1..Len(txq'[c]), NEW k \in 1..Len(txq'[c]),
               i < k, txq'[c][k][2] = "disable"
        PROVE  txq'[c][i][2] = "disable"
    <3>1. CASE c # b
      BY <2>1, <2>3, <3>1 DEF QueueInv
    <3>2. CASE c = b
      <4>1. i + 1 \in 1..Len(txq[b]) /\ k + 1 \in 1..Len(txq[b]) /\ i + 1 < k + 1
        BY <2>1, <2>3, <3>2
      <4>2. txq'[b][i] = txq[b][i + 1] /\ txq'[b][k] = txq[b][k + 1]
        BY <2>1, <2>3, <3>2
      <4> DEFINE p == i + 1
                 q == k + 1
      <4>3. p \in 1..Len(txq[b]) /\ q \in 1..Len(txq[b]) /\ p < q
            /\ txq'[b][i] = txq[b][p] /\ txq'[b][k] = txq[b][q]
        BY <4>1, <4>2
      <4> HIDE DEF p, q
      <4> QED BY <2>3, <3>2, <4>3 DEF QueueInv
    <3> QED BY <3>1, <3>2
  <2>4. ASSUME NEW c \in Bus, phase' = "disable"
        PROVE  /\ \A i \in 1..Len(txq'[c]) : txq'[c][i][2] = "disable"
               /\ Len(txq'[c]) <= Cardinality(Before(c, cur'))
    <3>1. Cardinality(Before(c, cur)) \in Nat /\ Before(c, cur') = Before(c, cur)
          /\ Len(txq[c]) <= Cardinality(Before(c, cur))
          /\ \A i \in 1..Len(txq[c]) : txq[c][i][2] = "disable"
      BY <2>1, <2>4, CountGrows DEF Before, QueueInv
    <3>2. CASE c # b
      BY <2>1, <3>1, <3>2
    <3>3. CASE c = b
      <4>1. Len(txq'[c]) <= Len(txq[c])
        BY <2>1, <3>3
      <4>2. \A i \in 1..Len(txq'[c]) : txq'[c][i][2] = "disable"
        BY <2>1, <3>1, <3>3
      <4> QED BY <2>1, <3>1, <3>3, <4>1, <4>2
    <3> QED BY <3>2, <3>3
  <2> QED BY <2>2, <2>3, <2>4 DEF QueueInv
<1>5. \A j \in Joint : PowerUp(j) => UNCHANGED <<phase, cur, txq>>
  BY DEF PowerUp, position
<1>6. UNCHANGED vars => UNCHANGED <<phase, cur, txq>>
  BY DEF vars, position
<1> QED BY <1>1, <1>2, <1>3, <1>4, <1>5, <1>6, StepIs

-----------------------------------------------------------------------------
(* Old targets.                                                            *)

\* What Send adds to what waits.
LEMMA QueuedSend ==
  ASSUME TypeOK, NEW j \in Joint, NEW op \in Opcodes, Send(j, op)
  PROVE  \A i \in Joint, o \in Opcodes :
           Queued(i, o)' <=> Queued(i, o) \/ (Fits(j) /\ i = j /\ o = op)
<1> SUFFICES ASSUME NEW i \in Joint, NEW o \in Opcodes
             PROVE  Queued(i, o)' <=> Queued(i, o) \/ (Fits(j) /\ i = j /\ o = op)
  OBVIOUS
<1> DEFINE b == BusForJoint(i)
<1>1. b \in Bus /\ Len(txq[b]) \in Nat
  BY JointFacts, QueueTypes
<1>2. Queued(i, o) <=> \E k \in 1..Len(txq[b]) : txq[b][k] = <<i, o>>
  BY DEF Queued
<1>3. Queued(i, o)' <=> \E k \in 1..Len(txq'[b]) : txq'[b][k] = <<i, o>>
  BY DEF Queued
<1>4. CASE ~Fits(j) \/ b # BusForJoint(j)
  BY <1>1, <1>2, <1>3, <1>4, SendIs
<1>5. CASE Fits(j) /\ b = BusForJoint(j)
  <2>1. /\ Len(txq'[b]) = Len(txq[b]) + 1
        /\ \A k \in 1..Len(txq[b]) : txq'[b][k] = txq[b][k]
        /\ txq'[b][Len(txq[b]) + 1] = <<j, op>>
    BY <1>5, SendIs
  <2> HIDE DEF b
  <2>2. \A k \in 1..Len(txq'[b]) :
          \/ k \in 1..Len(txq[b]) /\ txq'[b][k] = txq[b][k]
          \/ k = Len(txq[b]) + 1 /\ txq'[b][k] = <<j, op>>
    BY <1>1, <2>1
  <2>3. 1..Len(txq[b]) \subseteq 1..Len(txq'[b]) /\ Len(txq[b]) + 1 \in 1..Len(txq'[b])
    BY <1>1, <2>1
  <2>4. <<i, o>> = <<j, op>> <=> i = j /\ o = op
    OBVIOUS
  <2> QED BY <1>2, <1>3, <1>5, <2>1, <2>2, <2>3, <2>4
<1> QED BY <1>4, <1>5

\* What a delivery takes from it.
LEMMA QueuedTake ==
  ASSUME TypeOK, QueueInv, NEW b \in Bus, Deliver(b)
  PROVE  /\ BusForJoint(txq[b][1][1]) = b /\ Queued(txq[b][1][1], txq[b][1][2])
         /\ \A i \in Joint, o \in Opcodes :
              /\ Queued(i, o)' => Queued(i, o)
              /\ Queued(i, o) => Queued(i, o)' \/ (txq[b][1][1] = i /\ txq[b][1][2] = o)
<1>1. /\ \A c \in Bus : c # b => txq'[c] = txq[c]
      /\ Len(txq'[b]) = Len(txq[b]) - 1 /\ Len(txq'[b]) \in Nat /\ Len(txq[b]) \in Nat
      /\ \A i \in 1..Len(txq'[b]) : i + 1 \in 1..Len(txq[b]) /\ txq'[b][i] = txq[b][i + 1]
      /\ 1 \in 1..Len(txq[b])
      /\ txq[b][1] = <<txq[b][1][1], txq[b][1][2]>>
  BY TakeIs, DeliverIs, QueueTypes
<1>2. BusForJoint(txq[b][1][1]) = b /\ Queued(txq[b][1][1], txq[b][1][2])
  BY <1>1 DEF QueueInv, Queued
<1>3. ASSUME NEW i \in Joint, NEW o \in Opcodes
      PROVE  /\ Queued(i, o)' => Queued(i, o)
             /\ Queued(i, o) => Queued(i, o)' \/ (txq[b][1][1] = i /\ txq[b][1][2] = o)
  <2> DEFINE c == BusForJoint(i)
             f == <<i, o>>
  <2>1. c \in Bus /\ f[1] = i /\ f[2] = o
    BY JointFacts
  <2>2. Queued(i, o) <=> \E k \in 1..Len(txq[c]) : txq[c][k] = f
    BY DEF Queued
  <2>3. Queued(i, o)' <=> \E k \in 1..Len(txq'[c]) : txq'[c][k] = f
    BY DEF Queued
  <2> HIDE DEF c, f
  <2>4. CASE c # b
    BY <1>1, <2>1, <2>2, <2>3, <2>4
  <2>5. CASE c = b
    <3>1. ASSUME NEW k \in 1..Len(txq[b]), k # 1
          PROVE  k - 1 \in 1..Len(txq'[b]) /\ txq'[b][k - 1] = txq[b][k]
      <4>1. k - 1 \in 1..Len(txq'[b]) /\ (k - 1) + 1 = k
        BY <1>1, <3>1
      <4> QED BY <1>1, <4>1
    <3>2. ASSUME Queued(i, o) PROVE Queued(i, o)' \/ txq[b][1] = f
      <4>1. PICK k \in 1..Len(txq[b]) : txq[b][k] = f
        BY <2>2, <2>5, <3>2
      <4>2. CASE k = 1
        BY <4>1, <4>2
      <4>3. CASE k # 1
        BY <2>3, <2>5, <3>1, <4>1, <4>3
      <4> QED BY <4>2, <4>3
    <3>3. ASSUME Queued(i, o)' PROVE Queued(i, o)
      <4>1. PICK k \in 1..Len(txq'[b]) : txq'[b][k] = f
        BY <2>3, <2>5, <3>3
      <4> QED BY <1>1, <2>2, <2>5, <4>1
    <3> QED BY <2>1, <3>2, <3>3
  <2> QED BY <2>4, <2>5
<1> QED BY <1>2, <1>3

\* Every old target is still to be cleared when boot begins.
LEMMA ForceInit == Init => ForceInv
<1> SUFFICES ASSUME Init PROVE ForceInv
  OBVIOUS
<1>1. phase = "disable" /\ cur = FirstOf(Joint) /\ force \subseteq Joint
  BY DEF Init
<1>2. \A j \in Joint : FirstOf(Joint) <= j
  BY FirstOfIs
<1> QED BY <1>1, <1>2 DEF ForceInv

\* A DISABLE waits for each old target until it has cleared it.
LEMMA ForceNext ==
  ASSUME TypeOK, PlaceInv, QueueInv, ForceInv, [Next]_vars
  PROVE  ForceInv'
<1>0. "disable" \in Opcodes /\ force \subseteq Joint
  BY DEF Opcodes, TypeOK
<1>1. CASE UNCHANGED <<phase, cur, txq, force>>
  BY <1>1 DEF ForceInv, Queued
<1>2. CASE DisableAll
  <2>1. /\ phase = "disable" /\ Send(cur, "disable") /\ force' = force
        /\ IF After(cur) = NoJoint THEN phase' = "ping"
                                   ELSE phase' = "disable" /\ cur' = After(cur)
    BY <1>2 DEF DisableAll, Goto, driverVars
  <2>2. cur \in Joint /\ Fits(cur)
    BY <2>1, DisableFits
  <2>3. After(cur) \in Joint \cup {NoJoint} /\ \A i \in Joint : i < After(cur) <=> i <= cur
    BY <2>2, AfterIs
  <2>4. \A i \in Joint : Queued(i, "disable")' <=> Queued(i, "disable") \/ i = cur
    BY <1>0, <2>1, <2>2, QueuedSend
  <2>5. ASSUME NEW j \in force
        PROVE  (phase' = "disable" /\ cur' <= j) \/ Queued(j, "disable")'
    <3>1. j \in Joint
      BY <1>0
    <3>2. CASE Queued(j, "disable") \/ j = cur
      BY <2>4, <3>1, <3>2
    <3>3. CASE cur <= j /\ j # cur
      <4>1. ~(j < After(cur))
        BY <2>2, <2>3, <3>1, <3>3, JointFacts
      <4>2. After(cur) # NoJoint /\ After(cur) <= j
        BY <2>3, <3>1, <4>1, JointFacts
      <4> QED BY <2>1, <4>2
    <3> QED BY <3>2, <3>3 DEF ForceInv
  <2> QED BY <2>1, <2>5 DEF ForceInv
<1>3. CASE LaterSteps
  <2>1. phase # "disable" /\ force' = force
        /\ (txq' = txq \/ \E j \in Joint, op \in Opcodes \ {"disable"} : Send(j, op))
    BY <1>3, LaterIs DEF Later, Quiet
  <2>2. \A i \in Joint : Queued(i, "disable") => Queued(i, "disable")'
    <3>1. CASE txq' = txq
      BY <3>1 DEF Queued
    <3>2. CASE \E j \in Joint, op \in Opcodes \ {"disable"} : Send(j, op)
      BY <1>0, <3>2, QueuedSend
    <3> QED BY <2>1, <3>1, <3>2
  <2> QED BY <1>0, <2>1, <2>2 DEF ForceInv
<1>4. ASSUME NEW b \in Bus, Deliver(b) PROVE ForceInv'
  <2> DEFINE d == txq[b][1][1]
             op == txq[b][1][2]
  <2>1. /\ d \in Joint /\ op \in Opcodes /\ UNCHANGED <<phase, cur>>
        /\ \/ d \in powered /\ Obey(d, op)
           \/ d \notin powered /\ UNCHANGED force
    BY <1>4, DeliverIs DEF position
  <2>2. \A i \in Joint : Queued(i, "disable") =>
          Queued(i, "disable")' \/ (d = i /\ op = "disable")
    BY <1>0, <1>4, QueuedTake
  <2> HIDE DEF d, op
  <2>3. force' \subseteq force /\ (op = "disable" => d \notin force')
    <3>1. CASE d \in powered /\ Obey(d, op)
      BY <2>1, <3>1, ObeyIs
    <3>2. CASE d \notin powered /\ UNCHANGED force
      BY <3>2 DEF TypeOK
    <3> QED BY <2>1, <3>1, <3>2
  <2> QED BY <1>0, <2>1, <2>2, <2>3 DEF ForceInv
<1>5. \A j \in Joint : PowerUp(j) => UNCHANGED <<phase, cur, txq, force>>
  BY DEF PowerUp, position
<1>6. UNCHANGED vars => UNCHANGED <<phase, cur, txq, force>>
  BY DEF vars, position, driverVars
<1> QED BY <1>1, <1>2, <1>3, <1>4, <1>5, <1>6, StepIs

-----------------------------------------------------------------------------
(* Drivers that stay enabled.                                              *)

\* No HOME was reported when boot begins.
LEMMA EnabledInit == Init => EnabledInv
BY DEF Init, EnabledInv

\* Once a joint is asked for its HOME, nothing disables it any more.
LEMMA EnabledNext ==
  ASSUME TypeOK, PlaceInv, FeedbackInv, QueueInv, ProbeInv, EnabledInv, [Next]_vars
  PROVE  EnabledInv'
<1>0. "disable" \in Opcodes
  BY DEF Opcodes
<1>1. CASE UNCHANGED <<phase, cur, rx, txq, enabled, hasFeedback>>
  BY <1>1 DEF EnabledInv, StaysEnabled, Queued
<1>2. CASE DisableAll
  <2>1. /\ phase = "disable" /\ phase' \in {"disable", "ping"}
        /\ UNCHANGED <<rx, hasFeedback>>
    BY <1>2 DEF DisableAll, Goto
  <2>2. hasFeedback = {} /\ \A b \in Bus : \A a \in rx[b] : a[2] # "page0"
    BY <2>1 DEF FeedbackInv, ProbeInv, Probed, PingPhases
  <2> QED BY <2>1, <2>2 DEF EnabledInv
<1>3. CASE LaterSteps
  <2>1. enabled' = enabled /\ (\A b \in Bus : rx'[b] \subseteq rx[b])
        /\ (txq' = txq \/ \E j \in Joint, op \in Opcodes \ {"disable"} : Send(j, op))
    BY <1>3, LaterIs DEF Later, Quiet
  <2>2. \A i \in Joint : StaysEnabled(i) => StaysEnabled(i)'
    <3>1. CASE txq' = txq
      BY <2>1, <3>1 DEF Queued, StaysEnabled
    <3>2. CASE \E j \in Joint, op \in Opcodes \ {"disable"} : Send(j, op)
      BY <1>0, <2>1, <3>2, QueuedSend DEF StaysEnabled
    <3> QED BY <2>1, <3>1, <3>2
  <2>3. \A b \in Bus : \A a \in rx[b] : a[1] \in Joint
    BY DEF TypeOK
  <2>4. \A b \in Bus : \A a \in rx'[b] : a[2] = "page0" => StaysEnabled(a[1])'
    BY <2>1, <2>2, <2>3 DEF EnabledInv
  <2>5. \A j \in Joint : phase' = "keepHome" /\ cur' = j => StaysEnabled(j)'
    <3>1. CASE Match \/ GiveUp
      <4>1. phase' = "keepHome" =>
              cur' = cur /\ cur \in Joint /\ <<cur, "page0">> \in rx[CurBus]
        BY <3>1, OutcomeIs
      <4>2. phase' = "keepHome" => StaysEnabled(cur)
        BY <4>1, CurBusIsBus DEF EnabledInv
      <4> QED BY <2>2, <4>1, <4>2
    <3>2. Keepalive => phase' = phase /\ cur' = cur
      BY DEF Keepalive
    <3>3. Reminded => phase' # "keepHome"
      BY RemindedIs
    <3>4. Ask \/ TimedOut \/ Enable \/ NothingOk => phase' # "keepHome"
      BY DEF Ask, Asking, TimedOut, Enable, Remind, NothingOk, Goto, PlaceInv
    <3> QED BY <1>3, <2>2, <3>1, <3>2, <3>3, <3>4 DEF LaterSteps, EnabledInv
  <2>6. \A j \in hasFeedback' : StaysEnabled(j)'
    <3>1. hasFeedback' = hasFeedback
          \/ (hasFeedback' = hasFeedback \cup {cur} /\ phase = "keepHome")
      <4>1. Match \/ GiveUp => hasFeedback' = hasFeedback
        BY OutcomeIs
      <4>2. Ask \/ TimedOut \/ Enable \/ Keepalive \/ NothingOk => hasFeedback' = hasFeedback
        BY DEF Ask, TimedOut, Enable, Keepalive, NothingOk
      <4>3. Reminded => hasFeedback' = hasFeedback
              \/ (hasFeedback' = hasFeedback \cup {cur} /\ phase = "keepHome")
        BY RemindedIs
      <4> QED BY <1>3, <4>1, <4>2, <4>3 DEF LaterSteps
    <3>2. phase = "keepHome" => cur \in Joint
      BY DEF PlaceInv
    <3> QED BY <2>2, <3>1, <3>2 DEF EnabledInv, TypeOK
  <2>7. cur' \in Joint \cup {NoJoint} /\ (phase' = "keepHome" => cur' \in Joint)
    <3>1. TypeOK' /\ PlaceInv'
      BY CoreNext
    <3> QED BY <3>1 DEF TypeOK, PlaceInv
  <2> QED BY <2>4, <2>5, <2>6, <2>7 DEF EnabledInv, StaysEnabled, Queued
<1>4. ASSUME NEW b \in Bus, Deliver(b) PROVE EnabledInv'
  <2> DEFINE d == txq[b][1][1]
             op == txq[b][1][2]
  <2>1. /\ d \in Joint /\ op \in Opcodes /\ UNCHANGED <<phase, cur, hasFeedback>>
        /\ \/ d \in powered /\ Obey(d, op)
           \/ d \notin powered /\ UNCHANGED <<enabled, rx>>
        /\ 1 \in 1..Len(txq[b])
    BY <1>4, DeliverIs DEF position
  <2>2. /\ BusForJoint(d) = b /\ Queued(d, op)
        /\ \A i \in Joint : Queued(i, "disable")' => Queued(i, "disable")
    BY <1>0, <1>4, QueuedTake
  <2>3. op # "disable" => ~Queued(d, "disable")
    <3>1. SUFFICES ASSUME op # "disable", NEW k \in 1..Len(txq[b]),
                          txq[b][k] = <<d, "disable">>
                   PROVE  FALSE
      BY <2>2 DEF Queued
    <3>2. k # 1 /\ txq[b][k][2] = "disable"
      BY <3>1
    <3>3. 1 < k
      BY <2>1, <3>2, QueueTypes
    <3> QED BY <2>1, <3>1, <3>2, <3>3 DEF QueueInv
  <2> HIDE DEF d, op
  <2>4. \A i \in Joint : StaysEnabled(i) => StaysEnabled(i)'
    <3>1. ASSUME NEW i \in Joint, StaysEnabled(i) PROVE i \in enabled'
      <4>1. CASE d \in powered /\ Obey(d, op)
        <5>1. enabled \subseteq enabled' \/ (op = "disable" /\ enabled' = enabled \ {d})
              \/ enabled' = enabled
          BY <2>1, <4>1, ObeyIs
        <5> QED BY <2>2, <3>1, <5>1 DEF StaysEnabled
      <4>2. CASE UNCHANGED enabled
        BY <3>1, <4>2 DEF StaysEnabled
      <4> QED BY <2>1, <4>1, <4>2
    <3> QED BY <2>2, <3>1 DEF StaysEnabled
  <2>5. ASSUME NEW c \in Bus, NEW a \in rx'[c], a[2] = "page0" PROVE StaysEnabled(a[1])'
    <3>1. a \in rx[c] \/ (a[1] = d /\ op = "probe" /\ d \in enabled)
      <4>1. CASE d \in powered /\ Obey(d, op)
        BY <2>1, <2>5, <4>1, ObeyIs
      <4>2. CASE UNCHANGED rx
        BY <2>5, <4>2
      <4> QED BY <2>1, <4>1, <4>2
    <3>2. StaysEnabled(a[1]) /\ a[1] \in Joint
      BY <2>1, <2>3, <2>5, <3>1 DEF EnabledInv, StaysEnabled, TypeOK
    <3> QED BY <2>4, <3>2
  <2>6. phase' = "keepHome" => StaysEnabled(cur)'
    <3>1. cur' = cur /\ (phase = "keepHome" => cur \in Joint)
      BY <2>1 DEF PlaceInv
    <3> QED BY <2>1, <2>4, <3>1 DEF EnabledInv, StaysEnabled, Queued
  <2>7. \A j \in hasFeedback' : StaysEnabled(j)'
    BY <2>1, <2>4 DEF EnabledInv, TypeOK
  <2> QED BY <2>5, <2>6, <2>7 DEF EnabledInv
<1>5. \A j \in Joint : PowerUp(j) => UNCHANGED <<phase, cur, rx, txq, enabled, hasFeedback>>
  BY DEF PowerUp, position
<1>6. UNCHANGED vars => UNCHANGED <<phase, cur, rx, txq, enabled, hasFeedback>>
  BY DEF vars, position, driverVars
<1> QED BY <1>1, <1>2, <1>3, <1>4, <1>5, <1>6, StepIs

-----------------------------------------------------------------------------
(* The calibration of the joints that answered.                            *)

\* No joint holds limits when boot begins.
LEMMA SetupInit == Init => SetupInv
<1> SUFFICES ASSUME Init PROVE SetupInv
  OBVIOUS
<1>1. calibrated = {} /\ hasFeedback = {} /\ txq = [b \in Bus |-> <<>>]
  BY DEF Init
<1>2. \A b \in Bus : 1..Len(txq[b]) = {}
  BY <1>1, EmptySeq
<1> QED BY <1>1, <1>2, JointFacts DEF SetupInv, Queued

\* A joint with feedback is ok, so its driver has power.
LEMMA FeedbackHasPower ==
  ASSUME TypeOK, FeedbackInv, PowerInv
  PROVE  hasFeedback \subseteq powered
<1>1. hasFeedback \subseteq ok
  BY DEF TypeOK, FeedbackInv, Phases, PingPhases
<1> QED BY <1>1 DEF PowerInv

\* The first SETUP_LIMITS of a joint is not lost.
LEMMA SetupNext ==
  ASSUME TypeOK, PlaceInv, FeedbackInv, PowerInv, QueueInv, RoomInv, SetupInv, [Next]_vars
  PROVE  SetupInv'
<1>0. /\ "setup" \in Opcodes /\ hasFeedback \subseteq Joint
      /\ \A j \in Joint : Queued(j, "setup") => j \in hasFeedback
  BY DEF Opcodes, TypeOK, SetupInv
<1>1. SUFFICES
        /\ hasFeedback \subseteq hasFeedback'
        /\ calibrated' \subseteq hasFeedback'
        /\ \A j \in Joint : Queued(j, "setup")' => j \in hasFeedback'
        /\ \A j \in hasFeedback' :
             \/ phase' = "setup" /\ cur' = j /\ tries' = 0
             \/ j \in calibrated' \/ Queued(j, "setup")'
  BY <1>1 DEF SetupInv
<1>2. CASE UNCHANGED <<phase, cur, tries, txq, calibrated, hasFeedback>>
  BY <1>0, <1>2 DEF SetupInv, Queued
<1>3. CASE DisableAll
  <2>1. phase = "disable" /\ Send(cur, "disable") /\ UNCHANGED <<hasFeedback, calibrated>>
    BY <1>3 DEF DisableAll, driverVars
  <2>2. cur \in Joint /\ "disable" \in Opcodes /\ hasFeedback = {}
    BY <2>1 DEF PlaceInv, Opcodes, FeedbackInv, PingPhases
  <2> QED BY <1>0, <2>1, <2>2, QueuedSend DEF SetupInv
<1>4. CASE LaterSteps
  <2>1. calibrated' = calibrated
        /\ \/ txq' = txq
           \/ \E j \in Joint, op \in Opcodes :
                Send(j, op) /\ (op = "setup" => phase = "setup" /\ j = cur)
    BY <1>4, LaterIs DEF Later, Quiet
  <2>2. phase = "setup" => cur \in hasFeedback
    <3>1. phase = "setup" => cur \in ok /\ cur <= cur
      BY JointFacts DEF PlaceInv, HomePhases
    <3> QED BY <3>1 DEF FeedbackInv
  <2>3. /\ \A j \in Joint : Queued(j, "setup") => Queued(j, "setup")'
        /\ \A j \in Joint : Queued(j, "setup")' => j \in hasFeedback
    <3>1. CASE txq' = txq
      BY <1>0, <3>1 DEF Queued
    <3>2. CASE \E j \in Joint, op \in Opcodes :
                 Send(j, op) /\ (op = "setup" => phase = "setup" /\ j = cur)
      BY <1>0, <2>2, <3>2, QueuedSend
    <3> QED BY <2>1, <3>1, <3>2
  <2>4. hasFeedback' = hasFeedback
        \/ /\ hasFeedback' = hasFeedback \cup {cur} /\ phase = "keepHome"
           /\ phase' = "setup" /\ cur' = cur /\ tries' = 0
    <3>1. Match \/ GiveUp => hasFeedback' = hasFeedback
      BY OutcomeIs
    <3>2. Ask \/ TimedOut \/ Enable \/ Keepalive \/ NothingOk => hasFeedback' = hasFeedback
      BY DEF Ask, TimedOut, Enable, Keepalive, NothingOk
    <3>3. Reminded => hasFeedback' = hasFeedback
        \/ /\ hasFeedback' = hasFeedback \cup {cur} /\ phase = "keepHome"
           /\ phase' = "setup" /\ cur' = cur /\ tries' = 0
      BY RemindedIs
    <3> QED BY <1>4, <3>1, <3>2, <3>3 DEF LaterSteps
  <2>5. ASSUME NEW j \in hasFeedback
        PROVE  \/ phase' = "setup" /\ cur' = j /\ tries' = 0
               \/ j \in calibrated' \/ Queued(j, "setup")'
    <3>1. CASE j \in calibrated \/ Queued(j, "setup")
      BY <1>0, <2>1, <2>3, <3>1
    <3>2. CASE phase = "setup" /\ cur = j /\ tries = 0
      <4>1. CASE UNCHANGED <<phase, cur, tries>>
        BY <3>2, <4>1
      <4>2. CASE ~(UNCHANGED <<phase, cur, tries>>)
        <5>1. CASE Ask
          <6>1. cur \in Joint /\ Send(cur, "setup") /\ Fits(cur)
            BY <3>2, <5>1, CurIsJoint DEF Ask, Frame, RoomInv, Fits, CurBus
          <6> QED BY <1>0, <3>2, <6>1, QueuedSend
        <5>2. ~Match /\ ~GiveUp
          BY <3>2, CountAssumption DEF Match, GiveUp, PlaceInv, Limit
        <5>3. TimedOut => UNCHANGED <<phase, cur, tries>>
          BY DEF TimedOut
        <5>4. ~Enable /\ ~Keepalive /\ ~Reminded /\ ~NothingOk
          BY <3>2 DEF Enable, Keepalive, Reminded, NothingOk
        <5> QED BY <1>4, <4>2, <5>1, <5>2, <5>3, <5>4 DEF LaterSteps
      <4> QED BY <4>1, <4>2
    <3> QED BY <3>1, <3>2 DEF SetupInv
  <2> QED BY <2>1, <2>3, <2>4, <2>5 DEF SetupInv
<1>5. ASSUME NEW b \in Bus, Deliver(b)
      PROVE  /\ hasFeedback \subseteq hasFeedback'
             /\ calibrated' \subseteq hasFeedback'
             /\ \A j \in Joint : Queued(j, "setup")' => j \in hasFeedback'
             /\ \A j \in hasFeedback' :
                  \/ phase' = "setup" /\ cur' = j /\ tries' = 0
                  \/ j \in calibrated' \/ Queued(j, "setup")'
  <2> DEFINE d == txq[b][1][1]
             op == txq[b][1][2]
  <2>1. /\ d \in Joint /\ op \in Opcodes
        /\ UNCHANGED <<phase, cur, tries, hasFeedback>>
        /\ \/ d \in powered /\ Obey(d, op)
           \/ d \notin powered /\ UNCHANGED calibrated
    BY <1>5, DeliverIs DEF position
  <2>2. /\ Queued(d, op)
        /\ \A i \in Joint : /\ Queued(i, "setup")' => Queued(i, "setup")
                            /\ Queued(i, "setup") =>
                                 Queued(i, "setup")' \/ (d = i /\ op = "setup")
    BY <1>0, <1>5, QueuedTake
  <2> HIDE DEF d, op
  <2>3. calibrated' = IF d \in powered /\ op = "setup" THEN calibrated \cup {d} ELSE calibrated
    <3>1. CASE d \in powered /\ Obey(d, op)
      BY <2>1, <3>1, ObeyIs
    <3>2. CASE d \notin powered /\ UNCHANGED calibrated
      BY <3>2
    <3> QED BY <2>1, <3>1, <3>2
  <2>4. hasFeedback \subseteq powered
    BY FeedbackHasPower
  <2> QED BY <1>0, <2>1, <2>2, <2>3, <2>4 DEF SetupInv
<1>6. \A j \in Joint :
        PowerUp(j) => UNCHANGED <<phase, cur, tries, txq, calibrated, hasFeedback>>
  BY DEF PowerUp, position
<1>7. UNCHANGED vars => UNCHANGED <<phase, cur, tries, txq, calibrated, hasFeedback>>
  BY DEF vars, position, driverVars
<1> QED BY <1>2, <1>3, <1>4, <1>5, <1>6, <1>7, StepIs

-----------------------------------------------------------------------------
(* Probes and their answers.                                               *)

\* No joint was asked for its HOME when boot begins.
LEMMA ProbeInit == Init => ProbeInv
<1> SUFFICES ASSUME Init PROVE ProbeInv
  OBVIOUS
<1>1. phase = "disable" /\ txq = [b \in Bus |-> <<>>] /\ rx = [b \in Bus |-> {}]
  BY DEF Init
<1>2. \A b \in Bus : 1..Len(txq[b]) = {}
  BY <1>1, EmptySeq
<1> QED BY <1>1, <1>2, JointFacts DEF ProbeInv, WaitsFor, Queued

\* A joint that may have been asked for its HOME stays one.
LEMMA ProbedStays ==
  ASSUME TypeOK, PlaceInv, LaterSteps, NEW j \in Joint, Probed(j)
  PROVE  Probed(j)'
<1>1. phase \notin PingPhases /\ (j < cur \/ (j = cur /\ ~(phase = "home" /\ tries = 0)))
  BY DEF Probed
<1>2. SUFFICES phase' \notin PingPhases
               /\ (j < cur' \/ (j = cur' /\ ~(phase' = "home" /\ tries' = 0)))
  BY DEF Probed
<1>3. CASE Ask
  BY <1>1, <1>3 DEF Ask, TypeOK
<1>4. CASE Match \/ GiveUp
  BY <1>1, <1>4, OutcomeIs DEF PingPhases
<1>5. CASE TimedOut \/ Keepalive
  BY <1>1, <1>5 DEF TimedOut, Keepalive
<1>6. CASE Enable
  BY <1>1, <1>6 DEF Enable, PingPhases
<1>7. CASE Reminded
  <2>1. CASE phase = "keepHome" /\ phase' = "setup" /\ UNCHANGED cur
    BY <1>1, <2>1 DEF PingPhases
  <2>2. CASE phase' \in {"home", "done"} /\ cur < cur'
    <3>1. cur \in Nat /\ cur' \in Nat /\ j \in Nat
      <4>1. cur \in Joint \cup {NoJoint} /\ cur' \in Joint \cup {NoJoint}
        BY <1>7, CoreReminded DEF TypeOK
      <4> QED BY <4>1, JointFacts
    <3> QED BY <1>1, <2>2, <3>1 DEF PingPhases
  <2> QED BY <1>1, <1>7, <2>1, <2>2, RemindedIs DEF PingPhases
<1>8. CASE NothingOk
  BY <1>1, <1>8, JointFacts DEF NothingOk, Goto, PingPhases
<1> QED BY <1>3, <1>4, <1>5, <1>6, <1>7, <1>8 DEF LaterSteps

\* What a delivery adds to the answers: that of the joint that was asked.
LEMMA AnswerIsNew ==
  ASSUME TypeOK, QueueInv, NEW b \in Bus, Deliver(b)
  PROVE  \A c \in Bus : \A a \in rx'[c] :
           \/ a \in rx[c]
           \/ /\ c = b /\ a[1] = txq[b][1][1]
              /\ a[2] = "page0" => txq[b][1][2] = "probe"
              /\ a[2] = "setup" => txq[b][1][2] = "setup"
<1> DEFINE d == txq[b][1][1]
           op == txq[b][1][2]
<1>1. /\ d \in Joint /\ op \in Opcodes /\ BusForJoint(d) = b
      /\ \/ d \in powered /\ Obey(d, op)
         \/ d \notin powered /\ UNCHANGED rx
  BY DeliverIs, QueuedTake
<1> HIDE DEF d, op
<1>2. \A c \in Bus : \A a \in rx'[c] :
        \/ a \in rx[c]
        \/ /\ c = b /\ a[1] = d
           /\ a[2] = "page0" => op = "probe"
           /\ a[2] = "setup" => op = "setup"
  <2>1. CASE d \in powered /\ Obey(d, op)
    BY <1>1, <2>1, ObeyIs
  <2>2. CASE UNCHANGED rx
    BY <2>2
  <2> QED BY <1>1, <2>1, <2>2
<1> QED BY <1>2 DEF d, op

\* Frames and answers of probes are those of joints that may have been asked.
LEMMA ProbesAreOfProbed ==
  ASSUME TypeOK, PlaceInv, QueueInv, ProbeInv, [Next]_vars
  PROVE  /\ \A j \in Joint : Queued(j, "probe")' => Probed(j)'
         /\ \A b \in Bus : \A a \in rx'[b] : a[2] = "page0" => Probed(a[1])'
<1>0. /\ "probe" \in Opcodes
      /\ \A j \in Joint : Queued(j, "probe") => Probed(j)
      /\ \A b \in Bus : \A a \in rx[b] :
           a[1] \in Joint /\ (a[2] = "page0" => Probed(a[1]))
  BY DEF ProbeInv, TypeOK, Opcodes
<1>1. CASE UNCHANGED <<phase, cur, tries, rx, txq>>
  BY <1>0, <1>1 DEF Probed, Queued
<1>2. CASE DisableAll
  <2>1. phase = "disable" /\ Send(cur, "disable") /\ rx' = rx
        /\ cur \in Joint /\ "disable" \in Opcodes
    BY <1>2 DEF DisableAll, PlaceInv, Opcodes
  <2>2. \A j \in Joint : ~Probed(j)
    BY <2>1 DEF Probed, PingPhases
  <2>3. \A j \in Joint : ~Queued(j, "probe")'
    BY <1>0, <2>1, <2>2, QueuedSend
  <2> QED BY <1>0, <2>1, <2>2, <2>3
<1>3. CASE LaterSteps
  <2>1. /\ \A b \in Bus : rx'[b] \subseteq rx[b]
        /\ \/ txq' = txq
           \/ \E j \in Joint, op \in Opcodes :
                Send(j, op) /\ (op = "probe" => phase = "home" /\ j = cur)
    BY <1>3, LaterIs DEF Later
  <2>2. \A j \in Joint : Probed(j) => Probed(j)'
    BY <1>3, ProbedStays
  <2>3. \A b \in Bus : \A a \in rx'[b] : a[2] = "page0" => Probed(a[1])'
    BY <1>0, <2>1, <2>2
  <2>4. CASE txq' = txq
    <3>1. \A j \in Joint : Queued(j, "probe")' => Queued(j, "probe")
      BY <2>4 DEF Queued
    <3> QED BY <1>0, <2>2, <2>3, <3>1
  <2>5. CASE \E j \in Joint, op \in Opcodes :
               Send(j, op) /\ (op = "probe" => phase = "home" /\ j = cur)
    <3>1. PICK j \in Joint, op \in Opcodes :
            Send(j, op) /\ (op = "probe" => phase = "home" /\ j = cur)
      BY <2>5
    <3>2. ASSUME op = "probe", Fits(j) PROVE Probed(j)'
      <4>1. CASE Ask
        <5>1. phase' = "home" /\ cur' = j /\ tries' > 0
          BY <3>1, <3>2, <4>1 DEF Ask, TypeOK
        <5> QED BY <5>1 DEF Probed, PingPhases
      <4>2. Match \/ GiveUp \/ Reminded => txq' = txq
        BY OutcomeIs, RemindedIs
      <4>3. TimedOut \/ NothingOk => txq' = txq
        BY DEF TimedOut, NothingOk
      <4>4. ~Enable /\ ~Keepalive
        BY <3>1, <3>2 DEF Enable, Keepalive
      <4>5. txq' # txq
        <5> DEFINE b == BusForJoint(j)
        <5>1. Len(txq'[b]) = Len(txq[b]) + 1 /\ Len(txq[b]) \in Nat
          BY <3>1, <3>2, SendIs, JointFacts, QueueTypes
        <5> QED BY <5>1
      <4> QED BY <1>3, <4>1, <4>2, <4>3, <4>4, <4>5 DEF LaterSteps
    <3>3. \A i \in Joint :
            Queued(i, "probe")' => Queued(i, "probe") \/ (Fits(j) /\ i = j /\ op = "probe")
      BY <1>0, <3>1, QueuedSend
    <3> QED BY <1>0, <2>2, <2>3, <3>2, <3>3
  <2> QED BY <2>1, <2>4, <2>5
<1>4. ASSUME NEW b \in Bus, Deliver(b)
      PROVE  /\ \A j \in Joint : Queued(j, "probe")' => Probed(j)'
             /\ \A c \in Bus : \A a \in rx'[c] : a[2] = "page0" => Probed(a[1])'
  <2>1. UNCHANGED <<phase, cur, tries>> /\ txq[b][1][1] \in Joint
    BY <1>4, DeliverIs DEF position
  <2>2. \A j \in Joint : Probed(j)' <=> Probed(j)
    BY <2>1 DEF Probed
  <2>3. /\ \A j \in Joint : Queued(j, "probe")' => Queued(j, "probe")
        /\ Queued(txq[b][1][1], txq[b][1][2])
    BY <1>0, <1>4, QueuedTake
  <2>4. \A c \in Bus : \A a \in rx'[c] : a[2] = "page0" =>
          a \in rx[c] \/ (a[1] = txq[b][1][1] /\ txq[b][1][2] = "probe")
    BY <1>4, AnswerIsNew
  <2> QED BY <1>0, <2>1, <2>2, <2>3, <2>4
<1>5. \A j \in Joint : PowerUp(j) => UNCHANGED <<phase, cur, tries, rx, txq>>
  BY DEF PowerUp, position
<1>6. UNCHANGED vars => UNCHANGED <<phase, cur, tries, rx, txq>>
  BY DEF vars, position
<1> QED BY <1>1, <1>2, <1>3, <1>4, <1>5, <1>6, StepIs

\* A joint is asked when nothing it was asked is under way, and its answer or
\* the timeout is awaited.
LEMMA WaitsForNext ==
  ASSUME TypeOK, PlaceInv, PowerInv, QueueInv, [Next]_vars,
         NEW j \in Joint, NEW p, NEW op, NEW answer,
         \/ p = "home" /\ op = "probe" /\ answer = "page0"
         \/ p = "setup" /\ op = "setup" /\ answer = "setup",
         WaitsFor(j, p, op, answer),
         Reminded /\ phase' = p /\ cur' = j => NotAsked(j, op, answer)'
  PROVE  WaitsFor(j, p, op, answer)'
<1>0. op \in Opcodes /\ p \in {"home", "setup"}
  BY DEF Opcodes
<1> SUFFICES ASSUME phase' = p, cur' = j
             PROVE  /\ waiting' /\ txq'[BusForJoint(j)] # <<>> => AskedLast(j, op, answer)'
                    /\ ~waiting' => NotAsked(j, op, answer)'
  BY DEF WaitsFor
<1> DEFINE q == BusForJoint(j)
<1>1. /\ q \in Bus /\ Len(txq[q]) \in Nat /\ txq[q] \in Seq(Frames)
      /\ phase = p /\ cur = j /\ waiting /\ txq[q] # <<>> => AskedLast(j, op, answer)
      /\ phase = p /\ cur = j /\ ~waiting => NotAsked(j, op, answer)
  BY JointFacts, QueueTypes DEF WaitsFor
<1>2. CASE UNCHANGED <<phase, cur, waiting, txq, rx>>
  BY <1>1, <1>2 DEF NotAsked, AskedLast, Queued
<1>3. CASE Reminded
  <2>1. ~waiting'
    BY <1>3, RemindedIs
  <2> QED BY <1>3, <2>1
<1>4. CASE Ask
  <2>1. /\ phase = p /\ cur = j /\ ~waiting /\ Send(j, op) /\ rx' = rx
        /\ waiting' = Fits(j)
    BY <1>4 DEF Ask, Frame
  <2>2. ~Queued(j, op) /\ <<j, answer>> \notin rx'[q]
    BY <1>1, <2>1 DEF NotAsked
  <2>3. CASE Fits(j)
    <3>1. /\ Len(txq'[q]) = Len(txq[q]) + 1
          /\ \A i \in 1..Len(txq[q]) : txq'[q][i] = txq[q][i] /\ txq[q][i] # <<j, op>>
          /\ txq'[q][Len(txq[q]) + 1] = <<j, op>>
      BY <1>0, <2>1, <2>2, <2>3, SendIs DEF Queued
    <3>2. \A i \in 1..Len(txq'[q]) : i \in 1..Len(txq[q]) \/ i = Len(txq'[q])
      BY <1>1, <3>1
    <3>3. \A i \in 1..Len(txq[q]) : i # Len(txq'[q])
      BY <1>1, <3>1
    <3>4. \A i \in 1..Len(txq'[q]) : txq'[q][i] = <<j, op>> <=> i = Len(txq'[q])
      BY <3>1, <3>2, <3>3
    <3> QED BY <2>1, <2>2, <2>3, <3>4 DEF AskedLast
  <2>4. CASE ~Fits(j)
    <3>1. ~waiting' /\ ~Queued(j, op)'
      BY <1>0, <2>1, <2>2, <2>4, QueuedSend
    <3> QED BY <2>2, <3>1 DEF NotAsked
  <2> QED BY <2>3, <2>4
<1>5. CASE TimedOut
  <2>1. /\ phase = p /\ cur = j /\ \A b \in busUp : txq[b] = <<>>
        /\ rx' = [rx EXCEPT ![CurBus] = {}] /\ txq' = txq
    BY <1>5, FullWait DEF TimedOut
  <2>2. ~waiting'
    BY <1>5, Zenon DEF TimedOut
  <2>3. j \in ok
    BY <2>1, JointFacts DEF PlaceInv, HomePhases
  <2>4. txq'[q] = <<>>
    BY <2>1, <2>3 DEF PowerInv
  <2>5. 1..Len(txq'[q]) = {}
    BY <2>4, EmptySeq
  <2>6. rx'[q] = {}
    BY <1>1, <2>1, ForgetIs DEF CurBus
  <2> QED BY <2>2, <2>5, <2>6 DEF NotAsked, Queued
<1>6. ASSUME NEW b \in Bus, Deliver(b)
      PROVE  /\ waiting' /\ txq'[q] # <<>> => AskedLast(j, op, answer)'
             /\ ~waiting' => NotAsked(j, op, answer)'
  <2> DEFINE d == txq[b][1][1]
             o == txq[b][1][2]
  <2>1. UNCHANGED <<phase, cur, waiting>> /\ txq[b][1] = <<d, o>>
    BY <1>6, DeliverIs, QueueTypes DEF position
  <2>2. /\ Queued(d, o) /\ (Queued(j, op)' => Queued(j, op))
        /\ BusForJoint(d) = b
    BY <1>0, <1>6, QueuedTake
  <2>3. <<j, answer>> \in rx'[q] =>
          <<j, answer>> \in rx[q] \/ (b = q /\ d = j /\ o = op)
    BY <1>1, <1>6, AnswerIsNew
  <2>4. ASSUME ~waiting PROVE NotAsked(j, op, answer)'
    BY <1>1, <2>1, <2>2, <2>3, <2>4 DEF NotAsked
  <2>5. ASSUME waiting, txq'[q] # <<>> PROVE AskedLast(j, op, answer)'
    <3>1. CASE b # q
      <4>1. txq'[q] = txq[q]
        BY <1>1, <1>6, <3>1, TakeIs, DeliverIs
      <4> QED BY <1>1, <2>1, <2>3, <2>5, <3>1, <4>1 DEF AskedLast
    <3>2. CASE b = q
      <4>1. /\ txq[q] # <<>> /\ Len(txq'[q]) = Len(txq[q]) - 1 /\ Len(txq'[q]) \in Nat
            /\ txq'[q] \in Seq(Frames)
            /\ \A i \in 1..Len(txq'[q]) : i + 1 \in 1..Len(txq[q])
                                         /\ txq'[q][i] = txq[q][i + 1]
            /\ 1 \in 1..Len(txq[q])
        BY <1>1, <1>6, <3>2, TakeIs, DeliverIs
      <4>2. /\ <<j, answer>> \notin rx[q]
            /\ \A i \in 1..Len(txq[q]) : txq[q][i] = <<j, op>> <=> i = Len(txq[q])
        BY <1>1, <2>1, <2>5, <4>1 DEF AskedLast
      <4>3. Len(txq'[q]) # 0
        BY <2>5, <4>1, EmptySeq
      <4>4. Len(txq[q]) # 1
        BY <1>1, <4>1, <4>3
      <4>5. txq[q][1] # <<j, op>>
        BY <4>1, <4>2, <4>4
      <4>6. <<j, answer>> \notin rx'[q]
        BY <2>1, <2>3, <3>2, <4>2, <4>5
      <4>7. ASSUME NEW i \in 1..Len(txq'[q])
            PROVE  txq'[q][i] = <<j, op>> <=> i = Len(txq'[q])
        <5>1. txq'[q][i] = <<j, op>> <=> i + 1 = Len(txq[q])
          BY <4>1, <4>2
        <5> QED BY <1>1, <4>1, <5>1
      <4> QED BY <4>6, <4>7 DEF AskedLast
    <3> QED BY <3>1, <3>2
  <2> QED BY <2>1, <2>4, <2>5
<1>7. Match \/ GiveUp => phase' # p
  BY OutcomeIs
<1>8. DisableAll \/ Enable \/ NothingOk => phase' # p
  BY DEF DisableAll, Enable, NothingOk, Goto, Remind
<1>9. Keepalive => phase' # p
  BY DEF Keepalive
<1>10. \A i \in Joint : PowerUp(i) => UNCHANGED <<phase, cur, waiting, txq, rx>>
  BY DEF PowerUp, position
<1>11. UNCHANGED vars => UNCHANGED <<phase, cur, waiting, txq, rx>>
  BY DEF vars, position
<1> QED
  BY <1>2, <1>3, <1>4, <1>5, <1>6, <1>7, <1>8, <1>9, <1>10, <1>11, StepIs DEF LaterSteps

\* The probes of a joint.
LEMMA ProbeNext ==
  ASSUME TypeOK, PlaceInv, PowerInv, QueueInv, ProbeInv, [Next]_vars
  PROVE  ProbeInv'
<1>1. /\ \A j \in Joint : Queued(j, "probe")' => Probed(j)'
      /\ \A b \in Bus : \A a \in rx'[b] : a[2] = "page0" => Probed(a[1])'
  BY ProbesAreOfProbed
<1>2. ASSUME NEW j \in Joint, Reminded, phase' = "home", cur' = j
      PROVE  NotAsked(j, "probe", "page0")'
  <2>1. tries' = 0
    BY <1>2, RemindedIs
  <2>2. ~Probed(j)'
    BY <1>2, <2>1, JointFacts DEF Probed
  <2> QED BY <1>1, <2>2, JointFacts DEF NotAsked
<1>3. \A j \in Joint : WaitsFor(j, "home", "probe", "page0")'
  BY <1>2, WaitsForNext DEF ProbeInv
<1> QED BY <1>1, <1>3 DEF ProbeInv

-----------------------------------------------------------------------------
(* Room in the FIFO.                                                       *)

\* No round of reminders is under way when boot begins.
LEMMA RoomInit == Init => RoomInv
BY DEF Init, RoomInv

\* The joints of a bus are counted without the present one.
LEMMA OthersCount ==
  ASSUME NEW b \in Bus, NEW x \in Joint \cup {NoJoint}, NEW j \in Joint
  PROVE  Cardinality(Before(b, x) \ {j}) \in Nat
BY CountGrows DEF Before

\* The reminders are for the others.
LEMMA OtherNext ==
  ASSUME TypeOK, PlaceInv, other # NoJoint => other # cur, [Next]_vars
  PROVE  other' # NoJoint => other' # cur'
<1>1. \A S \in SUBSET Others : FirstOf(S) # NoJoint => FirstOf(S) # cur
  BY FirstOfIs DEF Others, TypeOK
<1>2. CASE UNCHANGED <<other, cur>>
  BY <1>2
<1>3. CASE Match \/ GiveUp \/ Enable
  BY <1>1, <1>3 DEF Match, GiveUp, Enable, Goto, Remind
<1>4. CASE Keepalive
  <2>1. {j \in Others : j > other} \in SUBSET Others
    OBVIOUS
  <2> QED BY <1>1, <1>4, <2>1 DEF Keepalive
<1>5. DisableAll \/ Reminded \/ NothingOk => other' = NoJoint
  BY DEF DisableAll, Reminded, NothingOk, PlaceInv, KeepPhases
<1>6. Ask \/ TimedOut => UNCHANGED <<other, cur>>
  BY DEF Ask, TimedOut
<1>7. \A b \in Bus : Deliver(b) => UNCHANGED <<other, cur>>
  BY DEF Deliver, position
<1>8. \A j \in Joint : PowerUp(j) => UNCHANGED <<other, cur>>
  BY DEF PowerUp, position
<1>9. UNCHANGED vars => UNCHANGED <<other, cur>>
  BY DEF vars, position
<1> QED BY <1>2, <1>3, <1>4, <1>5, <1>6, <1>7, <1>8, <1>9, StepIs DEF LaterSteps

\* Between the answer of a joint and its first SETUP_LIMITS, one frame is sent
\* to each of the others.
LEMMA RoomNext ==
  ASSUME TypeOK, PlaceInv, QueueInv, ProbeInv, RoomInv, [Next]_vars
  PROVE  RoomInv'
<1>0. (other # NoJoint => other # cur) /\ (other' # NoJoint => other' # cur')
  BY OtherNext DEF RoomInv
<1>1. CASE UNCHANGED <<phase, cur, other, tries, txq>>
  BY <1>0, <1>1 DEF RoomInv, CurBus, Before
<1>2. CASE Match \/ GiveUp
  <2>1. phase' # "setup"
    BY <1>2, OutcomeIs
  <2>2. ASSUME phase' = "keepHome"
        PROVE  /\ CurBus' = CurBus
               /\ Len(txq'[CurBus]) <= Cardinality(Before(CurBus, other') \ {cur'})
    <3>1. /\ cur \in Joint /\ cur' = cur /\ txq' = txq /\ phase = "home" /\ waiting
          /\ <<cur, "page0">> \in rx[CurBus] /\ other' = FirstOf(Others)
      BY <1>2, <2>2, OutcomeIs
    <3>2. txq[CurBus] = <<>>
      BY <3>1 DEF ProbeInv, WaitsFor, AskedLast, CurBus
    <3>3. Len(txq[CurBus]) = 0
      BY <3>2, EmptySeq
    <3>4. other' \in Joint \cup {NoJoint} /\ other' # cur
      <4>1. Others \in SUBSET Joint /\ cur \notin Others
        BY DEF Others, TypeOK
      <4> QED BY <3>1, <4>1, FirstOfIs, JointFacts
    <3>5. Cardinality(Before(CurBus, other') \ {cur}) \in Nat
      BY <3>1, <3>4, OthersCount, CurBusIsBus
    <3> QED BY <3>1, <3>3, <3>4, <3>5 DEF CurBus
  <2> QED BY <1>0, <2>1, <2>2 DEF RoomInv
<1>3. CASE Keepalive
  <2>1. /\ cur \in Joint /\ other \in Joint
        /\ UNCHANGED <<phase, cur>> /\ Send(other, "enable") /\ "enable" \in Opcodes
        /\ phase \in KeepPhases /\ other' = FirstOf({j \in Others : j > other})
    BY <1>3, CoreKeepalive, CurIsJoint DEF Keepalive, KeepPhases, Opcodes
  <2>2. ASSUME phase = "keepHome"
        PROVE  /\ Len(txq'[CurBus]) <= Cardinality(Before(CurBus, other') \ {cur})
    <3> DEFINE S == {j \in Others : j > other}
               was == Before(CurBus, other) \ {cur}
               is == Before(CurBus, other') \ {cur}
    <3>1. S \in SUBSET Joint /\ cur \notin S /\ \A j \in S : other < j
      BY <2>1, JointFacts DEF Others, TypeOK
    <3>2. other' = FirstOf(S)
      BY <2>1
    <3> HIDE DEF S
    <3>3. other' \in Joint \cup {NoJoint} /\ other' # cur /\ other < other'
      BY <2>1, <3>1, <3>2, FirstOfIs, JointFacts
    <3>4. CurBus \in Bus /\ other # cur /\ Len(txq[CurBus]) <= Cardinality(was)
          /\ Len(txq[CurBus]) \in Nat
      BY <1>0, <2>1, <2>2, JointFacts, CurBusIsBus, QueueTypes DEF RoomInv
    <3>5. was \in SUBSET is /\ is \in SUBSET OnBus(CurBus) /\ other \notin was
      <4>1. \A j \in OnBus(CurBus) : j < other => j < other'
        BY <2>1, <3>3, JointFacts DEF OnBus
      <4>2. ~(other < other)
        BY <2>1, JointFacts
      <4> QED BY <4>1, <4>2 DEF Before
    <3>6. /\ Cardinality(was) <= Cardinality(is)
          /\ Cardinality(was) \in Nat /\ Cardinality(is) \in Nat
      BY <3>4, <3>5, CountGrows
    <3>7. CASE BusForJoint(other) = CurBus /\ Fits(other)
      <4>1. other \in is
        BY <2>1, <3>3, <3>4, <3>7 DEF Before, OnBus
      <4>2. Cardinality(was) + 1 <= Cardinality(is)
        BY <3>4, <3>5, <4>1, CountOneMore
      <4>3. Len(txq'[CurBus]) = Len(txq[CurBus]) + 1
        BY <2>1, <3>7, SendIs
      <4> HIDE DEF was, is
      <4>4. Len(txq'[CurBus]) <= Cardinality(is)
        BY <3>4, <3>6, <4>2, <4>3
      <4> QED BY <3>3, <4>4 DEF is
    <3>8. CASE ~(BusForJoint(other) = CurBus /\ Fits(other))
      <4>1. txq'[CurBus] = txq[CurBus]
        BY <2>1, <3>4, <3>8, SendIs
      <4> HIDE DEF was, is
      <4>2. Len(txq'[CurBus]) <= Cardinality(is)
        BY <3>4, <3>6, <4>1
      <4> QED BY <3>3, <4>2 DEF is
    <3> QED BY <3>7, <3>8
  <2> QED BY <1>0, <2>1, <2>2 DEF RoomInv, KeepPhases, CurBus
<1>4. CASE Reminded
  <2>1. phase' # "keepHome"
    BY <1>4, RemindedIs
  <2>2. ASSUME phase' = "setup" PROVE Len(txq'[CurBus']) < TxFifo
    <3>1. phase = "keepHome" /\ other = NoJoint /\ cur \in Joint /\ UNCHANGED <<cur, txq>>
      BY <1>4, <2>2, RemindedIs DEF Reminded
    <3>2. CurBus \in Bus /\ cur \in OnBus(CurBus)
      BY <3>1, CurBusIsBus DEF OnBus, CurBus
    <3>3. Before(CurBus, NoJoint) = OnBus(CurBus)
      BY JointFacts DEF Before, OnBus
    <3> DEFINE rest == OnBus(CurBus) \ {cur}
    <3>4. Len(txq[CurBus]) <= Cardinality(rest) /\ Len(txq[CurBus]) \in Nat
      BY <3>1, <3>2, <3>3, QueueTypes DEF RoomInv
    <3>5. rest \in SUBSET OnBus(CurBus) /\ cur \notin rest
      OBVIOUS
    <3>6. Cardinality(rest) + 1 <= Cardinality(OnBus(CurBus)) /\ Cardinality(rest) \in Nat
      BY <3>2, <3>5, CountOneMore, CountGrows
    <3>7. /\ Cardinality(OnBus(CurBus)) <= TxFifo /\ TxFifo \in Nat
          /\ Cardinality(OnBus(CurBus)) \in Nat
      BY <3>2, FifoAssumption, BusIsFinite
    <3> HIDE DEF rest
    <3>8. Len(txq[CurBus]) < TxFifo
      BY <3>4, <3>6, <3>7
    <3> QED BY <3>1, <3>8 DEF CurBus
  <2> QED BY <1>0, <2>1, <2>2 DEF RoomInv
<1>5. CASE Ask
  <2>1. phase' = phase /\ tries' # 0 /\ phase # "keepHome"
    BY <1>5 DEF Ask, Asking, TypeOK
  <2> QED BY <1>0, <2>1 DEF RoomInv
<1>6. CASE TimedOut
  <2>1. UNCHANGED <<phase, cur, other, tries, txq>>
    BY <1>6 DEF TimedOut
  <2> QED BY <1>1, <2>1
<1>7. CASE DisableAll \/ Enable \/ NothingOk
  BY <1>0, <1>7 DEF DisableAll, Enable, NothingOk, Goto, Remind, RoomInv
<1>8. ASSUME NEW b \in Bus, Deliver(b) PROVE RoomInv'
  <2>1. UNCHANGED <<phase, cur, other, tries>>
    BY <1>8, DeliverIs DEF position
  <2>2. phase \in {"keepHome", "setup"} =>
          cur \in Joint /\ CurBus \in Bus /\ CurBus' = CurBus
    BY <2>1, CurBusIsBus DEF PlaceInv, CurBus
  <2>3. \A c \in Bus : Len(txq'[c]) \in Nat /\ Len(txq[c]) \in Nat
                      /\ Len(txq'[c]) <= Len(txq[c])
    <3>1. /\ \A c \in Bus : c # b => txq'[c] = txq[c]
          /\ Len(txq'[b]) = Len(txq[b]) - 1
          /\ \A c \in Bus : Len(txq'[c]) \in Nat /\ Len(txq[c]) \in Nat
      BY <1>8, TakeIs, DeliverIs, QueueTypes
    <3> QED BY <3>1
  <2>4. ASSUME phase = "keepHome"
        PROVE  /\ Len(txq'[CurBus']) <= Cardinality(Before(CurBus', other') \ {cur'})
    <3>1. Cardinality(Before(CurBus, other) \ {cur}) \in Nat
      BY <2>2, <2>4, OthersCount DEF TypeOK
    <3>2. /\ Len(txq[CurBus]) <= Cardinality(Before(CurBus, other) \ {cur})
      BY <2>4 DEF RoomInv
    <3>3. Before(CurBus', other') \ {cur'} = Before(CurBus, other) \ {cur}
      BY <2>1, <2>2, <2>4 DEF Before
    <3>4. Len(txq'[CurBus]) <= Cardinality(Before(CurBus, other) \ {cur})
      BY <2>2, <2>3, <2>4, <3>1, <3>2
    <3> QED BY <2>1, <2>2, <2>4, <3>2, <3>3, <3>4
  <2>5. ASSUME phase = "setup", tries = 0 PROVE Len(txq'[CurBus']) < TxFifo
    BY <2>2, <2>3, <2>5, FifoAssumption DEF RoomInv
  <2> QED BY <1>0, <2>1, <2>4, <2>5 DEF RoomInv
<1>9. \A j \in Joint : PowerUp(j) => UNCHANGED <<phase, cur, other, tries, txq>>
  BY DEF PowerUp, position
<1>10. UNCHANGED vars => UNCHANGED <<phase, cur, other, tries, txq>>
  BY DEF vars, position
<1> QED
  BY <1>1, <1>2, <1>3, <1>4, <1>5, <1>6, <1>7, <1>8, <1>9, <1>10, StepIs DEF LaterSteps

-----------------------------------------------------------------------------
(* Reminders.                                                              *)

\* A FIFO holds two rounds of reminders: it has 16 elements, and there are 6 joints
\* on each bus.
RoundsFit == \A b \in Bus : 2 * Cardinality(OnBus(b)) <= TxFifo

\* What k turns take at most, answered or not.
Spent(k, d) == k * d

\* The turns of the present exchange that are over.
Turns == IF waiting THEN tries - 1 ELSE tries

\* The calibration of a joint: each of the two exchanges may take all its turns,
\* and the last of them may be answered when its timeout is all but over.
OwnSpent == Spent(HomeTries, HomeWait) + Spent(Tries, Wait)

\* How long the present joint may have waited for a reminder, and how long the
\* others that are ok.
CurWaited ==
  CASE phase = "home"      -> Spent(Turns, HomeWait)
    [] phase \in {"keepHome", "keepLost"} -> Spent(HomeTries, HomeWait)
    [] phase = "setup"     -> Spent(HomeTries, HomeWait) + Spent(Turns, Wait)
    [] phase = "keepSetup" -> OwnSpent
    [] OTHER -> 0
OthersWaited ==
  CASE phase = "ping" -> Spent(Turns, Wait)
    [] phase = "hs"   -> Spent(Tries, Wait) + Spent(Turns, Wait)
    [] phase \in {"enable", "keep"} -> Spent(2 * Tries, Wait)
    [] phase = "home" -> OwnSpent + Spent(Turns, HomeWait)
    [] phase \in {"keepHome", "keepLost"} -> OwnSpent + Spent(HomeTries, HomeWait)
    [] phase = "setup"     -> Spent(Turns, Wait)
    [] phase = "keepSetup" -> Spent(Tries, Wait)
    [] OTHER -> OwnSpent

\* Nobody has waited longer. A round has reminded the joints before `other`.
WaitInv ==
  /\ phase \in {"ping", "hs", "home", "setup"} => tries <= Limit
  /\ phase \in PingPhases => \A j \in Joint \ ok : unreminded[j] = 0
  /\ phase \in {"ping", "hs", "enable"} => \A j \in ok : j < cur
  /\ phase = "keep" => \A j \in ok : j <= cur
  /\ \A j \in ok : unreminded[j] <= (IF j = cur THEN CurWaited ELSE OthersWaited)
  /\ phase \in KeepPhases => \A j \in ok \ {cur} : j < other => unreminded[j] = 0

\* The acknowledgement of SETUP_LIMITS, as that of a probe. Each of these frames
\* fits, because the one before it has been waited for.
AckInv ==
  /\ \A b \in Bus : \A a \in rx[b] : a[2] = "setup" => a[1] \in hasFeedback
  /\ \A j \in Joint : WaitsFor(j, "setup", "setup", "setup")
  /\ phase = "setup" /\ ~waiting /\ tries > 0 => txq[CurBus] = <<>>

\* The frames that a round has sent on a bus.
Round(b) == Cardinality(Before(b, other) \ {cur})

\* Frames to the present joint are on its bus only.
Mine(b, k) == IF b = CurBus THEN k ELSE 0
Asked == IF waiting THEN 1 ELSE 0

\* The frames that are ahead of a joint that has waited: each turn that is over
\* has drained the FIFOs.
Backlog(b) ==
  CASE phase = "ping"   -> Mine(b, Asked)
    [] phase = "hs"     -> Mine(b, 1 + Asked)
    [] phase = "enable" -> Mine(b, 2)
    [] phase = "keep"   -> Mine(b, 3) + Round(b)
    [] phase = "home"   -> Cardinality(OnBus(b)) - 1 + Mine(b, Asked)
    [] phase \in {"keepHome", "keepLost"} -> Cardinality(OnBus(b)) - 1 + Round(b)
    [] phase = "setup"     -> Mine(b, Asked)
    [] phase = "keepSetup" -> Mine(b, 1) + Round(b)
    [] OTHER -> TxFifo

BacklogInv ==
  /\ \A j \in ok \ {cur} :
       unreminded[j] > 0 => Len(txq[BusForJoint(j)]) <= Backlog(BusForJoint(j))
  /\ phase = "keepSetup" => Len(txq[CurBus]) <= Round(CurBus)

-----------------------------------------------------------------------------
(* Reminders: acknowledgements, time and backlog.                          *)

\* Turns add up.
LEMMA SpentFacts ==
  ASSUME NEW d \in Nat
  PROVE  /\ Spent(0, d) = 0
         /\ \A k \in Nat : Spent(k, d) \in Nat /\ Spent(k + 1, d) = Spent(k, d) + d
         /\ \A k, m \in Nat : Spent(k + m, d) = Spent(k, d) + Spent(m, d)
         /\ \A k, m \in Nat : k <= m => Spent(k, d) <= Spent(m, d)
<1>1. Spent(0, d) = 0
  BY DEF Spent
<1>2. \A k \in Nat : Spent(k, d) \in Nat
  BY DEF Spent
<1>3. \A k, m \in Nat : Spent(k + m, d) = Spent(k, d) + Spent(m, d)
  BY DEF Spent
<1>4. Spent(1, d) = d
  BY DEF Spent
<1>5. \A k \in Nat : Spent(k + 1, d) = Spent(k, d) + d
  BY <1>3, <1>4
<1>6. ASSUME NEW k \in Nat, NEW m \in Nat, k <= m PROVE Spent(k, d) <= Spent(m, d)
  <2>1. m - k \in Nat /\ k + (m - k) = m
    BY <1>6
  <2>2. Spent(k + (m - k), d) = Spent(k, d) + Spent(m - k, d)
    BY <1>3, <2>1
  <2>3. Spent(m, d) = Spent(k, d) + Spent(m - k, d)
    BY <2>1, <2>2
  <2> QED BY <1>2, <2>1, <2>3
<1> QED BY <1>1, <1>2, <1>3, <1>5, <1>6

\* The numbers of the bounds, and how they compare.
LEMMA SpentBounds ==
  /\ Wait \in Nat \ {0} /\ HomeWait \in Nat \ {0} /\ Tries \in Nat \ {0}
  /\ HomeTries \in Nat \ {0}
  /\ Spent(Tries, Wait) \in Nat /\ Spent(HomeTries, HomeWait) \in Nat
  /\ Spent(2 * Tries, Wait) = Spent(Tries, Wait) + Spent(Tries, Wait)
  /\ OwnSpent = Spent(HomeTries, HomeWait) + Spent(Tries, Wait)
  /\ Starved \in Nat
  /\ Spent(2 * Tries, Wait) < Starved
  /\ OwnSpent + Spent(HomeTries, HomeWait) < Starved
<1>1. Wait \in Nat \ {0} /\ HomeWait \in Nat \ {0} /\ Tries \in Nat \ {0}
      /\ HomeTries \in Nat \ {0}
  BY CountAssumption
<1>2. Spent(Tries, Wait) \in Nat /\ Spent(HomeTries, HomeWait) \in Nat
  BY <1>1, SpentFacts
<1>3. ASSUME NEW k \in Nat, NEW d \in Nat PROVE Spent(2 * k, d) = Spent(k, d) + Spent(k, d)
  <2>1. k + k = 2 * k
    OBVIOUS
  <2>2. Spent(k + k, d) = Spent(k, d) + Spent(k, d)
    BY SpentFacts
  <2> QED BY <2>1, <2>2
<1>4. Spent(2 * Tries, Wait) = Spent(Tries, Wait) + Spent(Tries, Wait)
  BY <1>1, <1>3
<1>5. Spent(2 * HomeTries, HomeWait) = Spent(HomeTries, HomeWait) + Spent(HomeTries, HomeWait)
  BY <1>1, <1>3
<1>6. Starved = 1 + Longer(Spent(2 * Tries, Wait),
                           Spent(2 * HomeTries, HomeWait) + Spent(Tries, Wait))
  BY DEF Starved, Spent
<1>7. OwnSpent = Spent(HomeTries, HomeWait) + Spent(Tries, Wait)
  BY DEF OwnSpent
<1> QED BY <1>1, <1>2, <1>4, <1>5, <1>6, <1>7, StarvedIsNat DEF Longer

\* The turns that are over are no more than the limit.
LEMMA TurnsAre ==
  ASSUME TypeOK, PlaceInv
  PROVE  /\ Turns \in Nat /\ tries \in Nat
         /\ waiting => Turns + 1 = tries
         /\ ~waiting => Turns = tries
BY CountAssumption DEF TypeOK, PlaceInv, Turns

\* No limits were acknowledged when boot begins.
LEMMA AckInit == Init => AckInv
BY DEF Init, AckInv, WaitsFor

\* SETUP_LIMITS are acknowledged by the joint that is being set up.
LEMMA AckNext ==
  ASSUME TypeOK, PlaceInv, FeedbackInv, PowerInv, QueueInv, SetupInv, RoomInv, AckInv,
         [Next]_vars
  PROVE  AckInv'
<1>0. "setup" \in Opcodes
  BY DEF Opcodes
<1>1. \A b \in Bus : \A a \in rx'[b] : a[2] = "setup" => a[1] \in hasFeedback'
  <2>1. hasFeedback \subseteq hasFeedback'
    <3>1. Match \/ GiveUp \/ Reminded => hasFeedback \subseteq hasFeedback'
      BY OutcomeIs, RemindedIs
    <3>2. DisableAll \/ Ask \/ TimedOut \/ Enable \/ Keepalive \/ NothingOk
            => hasFeedback' = hasFeedback
      BY DEF DisableAll, Ask, TimedOut, Enable, Keepalive, NothingOk
    <3>3. /\ \A b \in Bus : Deliver(b) => hasFeedback' = hasFeedback
          /\ \A j \in Joint : PowerUp(j) => hasFeedback' = hasFeedback
          /\ UNCHANGED vars => hasFeedback' = hasFeedback
      BY DEF Deliver, PowerUp, vars
    <3> QED BY <3>1, <3>2, <3>3, StepIs DEF LaterSteps
  <2>2. CASE DisableAll \/ UNCHANGED vars \/ \E j \in Joint : PowerUp(j)
    <3>1. rx' = rx
      BY <2>2 DEF DisableAll, vars, PowerUp
    <3> QED BY <2>1, <3>1 DEF AckInv
  <2>3. CASE LaterSteps
    BY <2>1, <2>3, LaterIs DEF Later, AckInv
  <2>4. ASSUME NEW b \in Bus, Deliver(b)
        PROVE  \A c \in Bus : \A a \in rx'[c] : a[2] = "setup" => a[1] \in hasFeedback'
    <3>1. Queued(txq[b][1][1], txq[b][1][2]) /\ txq[b][1][1] \in Joint
      BY <2>4, QueuedTake, DeliverIs
    <3>2. \A c \in Bus : \A a \in rx'[c] : a[2] = "setup" =>
            a \in rx[c] \/ (a[1] = txq[b][1][1] /\ txq[b][1][2] = "setup")
      BY <2>4, AnswerIsNew
    <3> QED BY <2>1, <3>1, <3>2 DEF AckInv, SetupInv
  <2> QED BY <2>2, <2>3, <2>4, StepIs
<1>2. ASSUME NEW j \in Joint, Reminded, phase' = "setup", cur' = j
      PROVE  NotAsked(j, "setup", "setup")'
  <2>1. phase = "keepHome" /\ cur = j /\ UNCHANGED <<txq, rx>>
    BY <1>2, RemindedIs
  <2>2. j \notin hasFeedback
    <3>1. ~(j < j)
      BY JointFacts
    <3> QED BY <2>1, <3>1 DEF FeedbackInv
  <2>3. ~Queued(j, "setup") /\ <<j, "setup">> \notin rx[BusForJoint(j)]
    BY <2>2, JointFacts DEF SetupInv, AckInv
  <2> QED BY <2>1, <2>3 DEF NotAsked, Queued
<1>3. \A j \in Joint : WaitsFor(j, "setup", "setup", "setup")'
  BY <1>2, WaitsForNext DEF AckInv
<1>4. ASSUME phase' = "setup", ~waiting', tries' > 0 PROVE txq'[CurBus'] = <<>>
  <2>1. CASE UNCHANGED <<phase, cur, waiting, tries, txq>>
    BY <1>4, <2>1 DEF AckInv, CurBus
  <2>2. CASE Ask
    <3>1. /\ phase = "setup" /\ ~waiting /\ ~Fits(cur) /\ cur \in Joint
          /\ tries \in Nat
      BY <1>4, <2>2, CurIsJoint, TurnsAre DEF Ask
    <3>2. CASE tries = 0
      BY <3>1, <3>2 DEF RoomInv, Fits, CurBus
    <3>3. CASE tries > 0
      <4>1. CurBus \in Bus /\ cur \in OnBus(CurBus) /\ txq[CurBus] = <<>>
        BY <3>1, <3>3, CurBusIsBus DEF AckInv, OnBus, CurBus
      <4>2. Cardinality({}) = 0 /\ Cardinality({}) + 1 <= Cardinality(OnBus(CurBus))
        BY <4>1, CountOneMore, FS_EmptySet
      <4>3. /\ Cardinality(OnBus(CurBus)) <= TxFifo /\ TxFifo \in Nat
            /\ Cardinality(OnBus(CurBus)) \in Nat
        BY <4>1, FifoAssumption, BusIsFinite
      <4>4. Len(txq[CurBus]) = 0
        BY <4>1, EmptySeq
      <4>5. Len(txq[CurBus]) < TxFifo
        BY <4>2, <4>3, <4>4
      <4> QED BY <3>1, <4>5 DEF Fits, CurBus
    <3> QED BY <3>1, <3>2, <3>3
  <2>3. CASE TimedOut
    <3>1. /\ phase = "setup" /\ UNCHANGED <<cur, txq>> /\ waiting
          /\ \A b \in busUp : txq[b] = <<>>
      BY <1>4, <2>3, FullWait DEF TimedOut
    <3>2. cur \in ok
      BY <3>1, JointFacts DEF PlaceInv, HomePhases
    <3> QED BY <3>1, <3>2 DEF PowerInv, CurBus
  <2>4. Match \/ GiveUp \/ Reminded => phase' # "setup" \/ tries' = 0
    BY OutcomeIs, RemindedIs
  <2>5. DisableAll \/ Enable \/ Keepalive \/ NothingOk => phase' # "setup"
    BY DEF DisableAll, Enable, Keepalive, NothingOk, Goto, Remind
  <2>6. ASSUME NEW b \in Bus, Deliver(b) PROVE txq'[CurBus'] = <<>>
    <3>1. UNCHANGED <<phase, cur, waiting, tries>>
      BY <2>6, DeliverIs DEF position
    <3>2. CurBus' = CurBus /\ CurBus \in Bus /\ txq[CurBus] = <<>>
      <4>1. cur \in Joint
        BY <1>4, <3>1 DEF PlaceInv
      <4> QED BY <1>4, <3>1, <4>1, CurBusIsBus DEF AckInv, CurBus
    <3>3. txq[b] # <<>> /\ \A c \in Bus : c # b => txq'[c] = txq[c]
      BY <2>6, TakeIs, DeliverIs
    <3> QED BY <3>2, <3>3
  <2>7. \A j \in Joint : PowerUp(j) => UNCHANGED <<phase, cur, waiting, tries, txq>>
    BY DEF PowerUp, position
  <2>8. UNCHANGED vars => UNCHANGED <<phase, cur, waiting, tries, txq>>
    BY DEF vars, position
  <2> QED BY <1>4, <2>1, <2>2, <2>3, <2>4, <2>5, <2>6, <2>7, <2>8, StepIs DEF LaterSteps
<1> QED BY <1>1, <1>3, <1>4 DEF AckInv

\* What a round has sent on the bus of the joint it is at.
LEMMA RoundCount ==
  ASSUME TypeOK, cur \in Joint, NEW b \in Bus, other \in OnBus(b), other # cur
  PROVE  /\ Round(b) \in Nat /\ Cardinality(OnBus(b)) \in Nat
         /\ Round(b) + 1 <= Cardinality(OnBus(b))
         /\ b = CurBus => Round(b) + 2 <= Cardinality(OnBus(b))
<1> DEFINE S == Before(b, other) \ {cur}
           T == OnBus(b) \ {other}
<1>1. ~(other < other)
  BY JointFacts DEF OnBus
<1>2. S \in SUBSET T /\ T \in SUBSET OnBus(b) /\ other \notin T /\ cur \notin S
  BY <1>1 DEF Before
<1>3. Cardinality(T) + 1 <= Cardinality(OnBus(b))
  BY <1>2, CountOneMore
<1>4. /\ Cardinality(S) \in Nat /\ Cardinality(T) \in Nat /\ Cardinality(OnBus(b)) \in Nat
      /\ Cardinality(S) <= Cardinality(T)
  BY <1>2, CountGrows, BusIsFinite
<1>5. b = CurBus => Cardinality(S) + 1 <= Cardinality(T)
  <2>1. b = CurBus => cur \in T
    BY DEF OnBus, CurBus
  <2> QED BY <1>2, <2>1, CountOneMore
<1> HIDE DEF S, T
<1>6. /\ Cardinality(S) + 1 <= Cardinality(OnBus(b))
      /\ b = CurBus => Cardinality(S) + 2 <= Cardinality(OnBus(b))
  BY <1>3, <1>4, <1>5
<1> QED BY <1>4, <1>6 DEF Round, S

\* A round grows by the joint it has just reminded.
LEMMA RoundGrows ==
  ASSUME TypeOK, PlaceInv, RoomInv, Keepalive, NEW b \in Bus
  PROVE  /\ Round(b) \in Nat /\ Round(b)' \in Nat /\ Round(b) <= Round(b)'
         /\ b = BusForJoint(other) => Round(b) + 1 <= Round(b)'
<1> DEFINE S == {j \in Others : j > other}
           was == Before(b, other) \ {cur}
           is == Before(b, other') \ {cur}
<1>1. /\ other \in Joint /\ other # cur /\ cur' = cur
      /\ other' = FirstOf(S)
  BY CoreKeepalive, JointFacts DEF Keepalive, RoomInv
<1>2. S \in SUBSET Joint /\ \A j \in S : other < j
  BY <1>1, JointFacts DEF Others, TypeOK
<1> HIDE DEF S
<1>3. other < other' /\ other' \in Joint \cup {NoJoint}
  BY <1>1, <1>2, FirstOfIs, JointFacts
<1>4. was \in SUBSET is /\ is \in SUBSET OnBus(b) /\ other \notin was
  <2>1. \A j \in OnBus(b) : j < other => j < other'
    BY <1>1, <1>3, JointFacts DEF OnBus
  <2>2. ~(other < other)
    BY <1>1, JointFacts
  <2> QED BY <2>1, <2>2 DEF Before
<1>5. /\ Cardinality(was) <= Cardinality(is)
      /\ Cardinality(was) \in Nat /\ Cardinality(is) \in Nat
  BY <1>4, CountGrows
<1>6. ASSUME b = BusForJoint(other) PROVE Cardinality(was) + 1 <= Cardinality(is)
  <2>1. other \in is
    BY <1>1, <1>3, <1>6 DEF Before, OnBus
  <2> QED BY <1>4, <2>1, CountOneMore
<1>7. Round(b) = Cardinality(was)
  BY DEF Round
<1>8. Round(b)' = Cardinality(is)
  BY <1>1 DEF Round, Before
<1> QED BY <1>5, <1>6, <1>7, <1>8

\* A round starts with nothing sent.
LEMMA RoundIsNat ==
  ASSUME TypeOK, NEW b \in Bus
  PROVE  Round(b) \in Nat
BY CountGrows DEF Round, Before

\* The reminder of a joint that has waited finds room.
LEMMA ReminderFits ==
  ASSUME TypeOK, PlaceInv, RoomInv, BacklogInv, RoundsFit, Keepalive,
         other \in ok, unreminded[other] > 0
  PROVE  Fits(other)
<1> DEFINE b == BusForJoint(other)
           n == Cardinality(OnBus(b))
           q == Len(txq[b])
           r == Round(b)
<1>1. /\ cur \in Joint /\ other \in Joint /\ other # cur /\ phase \in KeepPhases
      /\ b \in Bus /\ other \in OnBus(b)
  BY CoreKeepalive, CurIsJoint, JointFacts DEF Keepalive, RoomInv, KeepPhases, OnBus
<1>2. /\ r \in Nat /\ n \in Nat /\ r + 1 <= n
      /\ b = CurBus => r + 2 <= n
  BY <1>1, RoundCount
<1>3. q <= Backlog(b)
  BY <1>1 DEF BacklogInv
<1>4. 2 * n <= TxFifo /\ TxFifo \in Nat /\ q \in Nat
  BY <1>1, FifoAssumption, QueueTypes DEF RoundsFit
<1>5. /\ phase = "keep" => Backlog(b) = (IF b = CurBus THEN 3 ELSE 0) + r
      /\ phase \in {"keepHome", "keepLost"} => Backlog(b) = n - 1 + r
      /\ phase = "keepSetup" => Backlog(b) = (IF b = CurBus THEN 1 ELSE 0) + r
  BY DEF Backlog, Mine
<1>6. Fits(other) <=> q < TxFifo
  BY DEF Fits
<1> HIDE DEF n, q, r
<1>7. CASE phase = "keep"
  <2>1. CASE b = CurBus
    <3>1. Backlog(b) = 3 + r
      BY <1>5, <1>7, <2>1
    <3>2. q < TxFifo
      BY <1>2, <1>3, <1>4, <2>1, <3>1
    <3> QED BY <1>6, <3>2
  <2>2. CASE b # CurBus
    <3>1. Backlog(b) = 0 + r
      BY <1>5, <1>7, <2>2
    <3>2. q < TxFifo
      BY <1>2, <1>3, <1>4, <3>1
    <3> QED BY <1>6, <3>2
  <2> QED BY <2>1, <2>2
<1>8. CASE phase \in {"keepHome", "keepLost"}
  BY <1>2, <1>3, <1>4, <1>5, <1>6, <1>8
<1>9. CASE phase = "keepSetup"
  BY <1>2, <1>3, <1>4, <1>5, <1>6, <1>9
<1> QED BY <1>1, <1>7, <1>8, <1>9 DEF KeepPhases

-----------------------------------------------------------------------------
(* How long a joint waits.                                                 *)

\* No joint has waited when boot begins.
LEMMA WaitInit == Init => WaitInv
<1> SUFFICES ASSUME Init PROVE WaitInv
  OBVIOUS
<1>1. phase = "disable" /\ ok = {} /\ \A j \in Joint : unreminded[j] = 0
  BY DEF Init
<1> QED BY <1>1 DEF WaitInv, PingPhases, KeepPhases

\* The waits of a joint while it is one of the others, at the end of each
\* exchange.
LEMMA WaitOutcome ==
  ASSUME TypeOK, PlaceInv, WaitInv, Match \/ GiveUp
  PROVE  WaitInv'
<1>1. /\ cur \in Joint /\ cur' = cur /\ tries' = 0 /\ ~waiting' /\ ok' = ok
      /\ phase' \in KeepPhases => other' = FirstOf(Others)
  BY OutcomeIs
<1>2. Turns' = 0 /\ Turns \in Nat /\ tries \in Nat /\ (waiting => Turns + 1 = tries)
      /\ (~waiting => Turns = tries)
  BY <1>1, TurnsAre DEF Turns
<1>3. \A j \in ok : unreminded[j] \in Nat /\ j \in Joint
  BY StarvedIsNat DEF TypeOK
<1>4. phase' \in KeepPhases => \A j \in ok \ {cur} : ~(j < other')
  <2>1. \A j \in Others : /\ FirstOf(Others) <= j /\ j \in Joint
                           /\ FirstOf(Others) \in Joint \cup {NoJoint}
    BY FirstOfIs DEF Others, TypeOK
  <2> QED BY <1>1, <2>1, JointFacts DEF Others
<1>5. /\ Spent(0, Wait) = 0 /\ Spent(0, HomeWait) = 0
      /\ \A k \in Nat : /\ Spent(k, Wait) \in Nat /\ Spent(k, HomeWait) \in Nat
                        /\ Spent(k + 1, Wait) = Spent(k, Wait) + Wait
                        /\ Spent(k + 1, HomeWait) = Spent(k, HomeWait) + HomeWait
                        /\ k <= Tries => Spent(k, Wait) <= Spent(Tries, Wait)
                        /\ k <= HomeTries => Spent(k, HomeWait) <= Spent(HomeTries, HomeWait)
  BY SpentFacts, CountAssumption
<1>6. tries <= (IF phase = "home" THEN HomeTries ELSE Tries)
  BY OutcomeIs DEF WaitInv, Limit
<1>7. \A j \in ok : unreminded[j] <= IF j = cur THEN CurWaited ELSE OthersWaited
  BY DEF WaitInv
<1>8. /\ phase' \in PingPhases => phase \in PingPhases
      /\ phase' \in {"hs", "enable", "keep"} => phase \in {"ping", "hs"}
  BY OutcomeIs DEF WaitInv, PingPhases
<1>9. phase \in {"ping", "hs"} => \A j \in ok : j < cur /\ j # cur
  BY <1>1, <1>3, JointFacts DEF WaitInv
<1>10. ASSUME NEW j \in ok
       PROVE  /\ unreminded'[j] \in Nat
              /\ waiting => unreminded'[j] <= unreminded[j] + Timeout
              /\ ~waiting => unreminded'[j] = unreminded[j]
  <2>1. ASSUME NEW t \in 0 .. Timeout, Pass(t)
        PROVE  unreminded'[j] \in Nat /\ unreminded'[j] <= unreminded[j] + Timeout
    <3>1. t \in Nat /\ t <= Timeout /\ Timeout \in Nat
      BY TimeoutIs
    <3>2. unreminded'[j] = Shorter(Starved, unreminded[j] + t)
      BY <2>1, <3>1, PassIs
    <3> QED BY <1>3, <3>1, <3>2, StarvedIsNat DEF Shorter
  <2> QED BY <1>3, <2>1, OutcomeIs
<1>11. \A j \in ok : unreminded'[j] <= IF j = cur THEN CurWaited' ELSE OthersWaited'
  <2> SUFFICES ASSUME NEW j \in ok
               PROVE  unreminded'[j] <= IF j = cur THEN CurWaited' ELSE OthersWaited'
    OBVIOUS
  <2> DEFINE w == unreminded[j]
             v == unreminded'[j]
             T0 == Spent(Turns, Wait)
             H0 == Spent(Turns, HomeWait)
             T1 == Spent(tries, Wait)
             H1 == Spent(tries, HomeWait)
             T2 == Spent(Tries, Wait)
             H2 == Spent(HomeTries, HomeWait)
  <2>1. /\ w \in Nat /\ v \in Nat /\ T0 \in Nat /\ H0 \in Nat /\ T1 \in Nat /\ H1 \in Nat
        /\ T2 \in Nat /\ H2 \in Nat /\ Spent(2 * Tries, Wait) = T2 + T2
        /\ OwnSpent = H2 + T2 /\ Wait \in Nat /\ HomeWait \in Nat
    BY <1>2, <1>3, <1>5, <1>10, SpentBounds
  <2>2. (phase # "home" => T1 <= T2) /\ (phase = "home" => H1 <= H2)
    BY <1>2, <1>5, <1>6
  <2>3. /\ waiting => T1 = T0 + Wait /\ H1 = H0 + HomeWait
        /\ ~waiting => T1 = T0 /\ H1 = H0
    BY <1>2, <1>5
  <2>4. /\ waiting => v <= w + (IF phase = "home" THEN HomeWait ELSE Wait)
        /\ ~waiting => v = w
    BY <1>10 DEF Timeout
  <2>5. /\ phase = "ping" => j # cur /\ w <= T0
        /\ phase = "hs" => j # cur /\ w <= T2 + T0
        /\ phase = "home" => w <= IF j = cur THEN H0 ELSE OwnSpent + H0
        /\ phase = "setup" => w <= IF j = cur THEN H2 + T0 ELSE T0
    BY <1>7, <1>9 DEF CurWaited, OthersWaited
  <2>6. /\ phase' = "hs" => OthersWaited' = T2
        /\ phase' \in {"enable", "keep"} => OthersWaited' = T2 + T2
        /\ phase' \in {"keepHome", "keepLost"} => CurWaited' = H2 /\ OthersWaited' = OwnSpent + H2
        /\ phase' = "keepSetup" => CurWaited' = OwnSpent /\ OthersWaited' = T2
    BY <1>2, <1>5, <2>1 DEF CurWaited, OthersWaited
  <2> HIDE DEF w, v, T0, H0, T1, H1, T2, H2
  <2>7. /\ phase = "ping" => v <= T1
        /\ phase = "hs" => v <= T2 + T1
        /\ phase = "home" => v <= IF j = cur THEN H1 ELSE OwnSpent + H1
        /\ phase = "setup" => v <= IF j = cur THEN H2 + T1 ELSE T1
    <3>1. CASE waiting
      BY <2>1, <2>3, <2>4, <2>5, <3>1
    <3>2. CASE ~waiting
      BY <2>1, <2>3, <2>4, <2>5, <3>2
    <3> QED BY <3>1, <3>2
  <2>8. CASE phase = "ping" /\ phase' = "hs"
    BY <2>1, <2>2, <2>5, <2>6, <2>7, <2>8 DEF v
  <2>9. CASE phase = "hs" /\ phase' = "enable"
    BY <2>1, <2>2, <2>5, <2>6, <2>7, <2>9 DEF v
  <2>10. CASE phase \in {"ping", "hs"} /\ phase' = "keep"
    BY <2>1, <2>2, <2>5, <2>6, <2>7, <2>10 DEF v
  <2>11. CASE phase = "home" /\ phase' \in {"keepHome", "keepLost"}
    BY <2>1, <2>2, <2>6, <2>7, <2>11 DEF v
  <2>12. CASE phase = "setup" /\ phase' = "keepSetup"
    BY <2>1, <2>2, <2>6, <2>7, <2>12 DEF v
  <2> QED BY <2>8, <2>9, <2>10, <2>11, <2>12, OutcomeIs
<1>12. phase' = "keep" => \A j \in ok : j <= cur
  BY <1>1, <1>3, <1>8, <1>9, JointFacts
<1>13. phase' \notin {"ping", "home", "setup"} /\ (phase' = "hs" => tries' <= Limit')
  BY <1>1, CountAssumption, OutcomeIs DEF Limit
<1>14. phase' \in PingPhases => \A j \in Joint \ ok : unreminded'[j] = 0
  <2>1. \A t \in 0 .. Timeout : Pass(t) => \A j \in Joint \ ok : unreminded'[j] = 0
    BY TimeoutIs, PassIs
  <2>2. phase' \in PingPhases => \A j \in Joint \ ok : unreminded[j] = 0
    BY <1>8 DEF WaitInv
  <2> QED BY <2>1, <2>2, OutcomeIs
<1> QED BY <1>1, <1>4, <1>8, <1>9, <1>11, <1>12, <1>13, <1>14 DEF WaitInv

\* A turn that is over has been waited for, by every joint that is ok.
LEMMA WaitTimedOut ==
  ASSUME TypeOK, PlaceInv, WaitInv, TimedOut
  PROVE  WaitInv'
<1>1. /\ UNCHANGED <<phase, cur, tries, ok>> /\ waiting
      /\ phase \in {"ping", "hs", "home", "setup"} /\ cur \in Joint
  BY DEF TimedOut, PlaceInv
<1>2. ~waiting'
  BY Zenon DEF TimedOut
<1> DEFINE d == IF phase = "home" THEN HomeWait ELSE Wait
<1>3. unreminded' = [j \in Joint |->
         IF j \in ok THEN Shorter(Starved, unreminded[j] + d) ELSE 0]
  BY DEF TimedOut, Pass, Timeout
<1>4. Turns \in Nat /\ Turns + 1 = tries /\ Turns' = Turns + 1
  BY <1>1, <1>2, TurnsAre DEF Turns
<1>5. /\ Spent(Turns + 1, Wait) = Spent(Turns, Wait) + Wait
      /\ Spent(Turns + 1, HomeWait) = Spent(Turns, HomeWait) + HomeWait
      /\ Spent(Turns, Wait) \in Nat /\ Spent(Turns, HomeWait) \in Nat
      /\ Wait \in Nat /\ HomeWait \in Nat
  BY <1>4, SpentFacts, CountAssumption
<1>6. ASSUME NEW j \in ok
      PROVE  unreminded'[j] <= IF j = cur THEN CurWaited' ELSE OthersWaited'
  <2> DEFINE w == unreminded[j]
             T0 == Spent(Turns, Wait)
             H0 == Spent(Turns, HomeWait)
             T2 == Spent(Tries, Wait)
             H2 == Spent(HomeTries, HomeWait)
  <2>0. w \in Nat /\ j \in Joint /\ Starved \in Nat
    BY <1>6, StarvedIsNat DEF TypeOK
  <2>1. w \in Nat /\ j \in Joint /\ Starved \in Nat
        /\ T2 \in Nat /\ H2 \in Nat /\ OwnSpent \in Nat
    <3>1. T2 \in Nat /\ H2 \in Nat /\ OwnSpent = H2 + T2
      BY SpentBounds
    <3> HIDE DEF T2, H2
    <3>2. OwnSpent \in Nat
      BY <3>1
    <3> QED BY <2>0, <3>1, <3>2
  <2>2. unreminded'[j] = Shorter(Starved, w + d)
    BY <1>3, <1>6, <2>1
  <2>3. unreminded'[j] <= w + d
    BY <1>5, <2>1, <2>2 DEF Shorter
  <2>4. w <= IF j = cur THEN CurWaited ELSE OthersWaited
    BY DEF WaitInv
  <2>5. phase \in {"ping", "hs"} => j # cur
    <3>1. phase \in {"ping", "hs"} => j < cur
      BY DEF WaitInv
    <3> QED BY <1>1, <2>1, <3>1, JointFacts
  <2>6. /\ phase = "ping" => j # cur /\ w <= T0 /\ d = Wait
        /\ phase = "hs" => j # cur /\ w <= T2 + T0 /\ d = Wait
        /\ phase = "home" => d = HomeWait /\ w <= IF j = cur THEN H0 ELSE OwnSpent + H0
        /\ phase = "setup" => d = Wait /\ w <= IF j = cur THEN H2 + T0 ELSE T0
    BY <2>4, <2>5 DEF CurWaited, OthersWaited
  <2>7. /\ phase = "ping" => OthersWaited' = T0 + Wait
        /\ phase = "hs" => OthersWaited' = T2 + (T0 + Wait)
        /\ phase = "home" => CurWaited' = H0 + HomeWait
                             /\ OthersWaited' = OwnSpent + (H0 + HomeWait)
        /\ phase = "setup" => CurWaited' = H2 + (T0 + Wait) /\ OthersWaited' = T0 + Wait
    BY <1>1, <1>4, <1>5 DEF CurWaited, OthersWaited
  <2>8. T0 \in Nat /\ H0 \in Nat
    BY <1>5
  <2> DEFINE v == unreminded'[j]
  <2>9. v <= w + d /\ v \in Int
    BY <1>5, <2>1, <2>2, <2>3 DEF Shorter
  <2> HIDE DEF w, T0, H0, T2, H2, d, v
  <2>10. CASE phase = "ping"
    BY <1>5, <2>1, <2>6, <2>7, <2>8, <2>9, <2>10 DEF v
  <2>11. CASE phase = "hs"
    BY <1>5, <2>1, <2>6, <2>7, <2>8, <2>9, <2>11 DEF v
  <2>12. CASE phase = "home"
    BY <1>5, <2>1, <2>6, <2>7, <2>8, <2>9, <2>12 DEF v
  <2>13. CASE phase = "setup"
    BY <1>5, <2>1, <2>6, <2>7, <2>8, <2>9, <2>13 DEF v
  <2> QED BY <1>1, <2>10, <2>11, <2>12, <2>13
<1>7. \A j \in Joint \ ok : unreminded'[j] = 0
  BY <1>3
<1>8. phase' \notin KeepPhases
  BY <1>1 DEF KeepPhases
<1>9. tries' <= Limit' /\ (phase' \in {"ping", "hs", "enable"} => \A j \in ok : j < cur)
      /\ phase' # "keep"
  BY <1>1 DEF WaitInv, Limit
<1> QED BY <1>1, <1>6, <1>7, <1>8, <1>9 DEF WaitInv

\* A joint that is reminded waits no more.
LEMMA WaitKeepalive ==
  ASSUME TypeOK, PlaceInv, RoomInv, WaitInv, BacklogInv, RoundsFit, Keepalive
  PROVE  WaitInv' /\ (other \in ok => unreminded'[other] = 0)
<1>1. /\ UNCHANGED <<phase, cur, tries, waiting, ok>> /\ phase \in KeepPhases
      /\ other \in Joint /\ other' = FirstOf({j \in Others : j > other})
      /\ unreminded' = IF Fits(other) THEN [unreminded EXCEPT ![other] = 0] ELSE unreminded
  BY CoreKeepalive DEF Keepalive, KeepPhases
<1>2. /\ \A j \in Joint : unreminded[j] \in Nat /\ j \in Nat
      /\ ok \subseteq Joint
      /\ unreminded \in [Joint -> 0 .. Starved]
  BY StarvedIsNat, JointFacts DEF TypeOK
<1>3. /\ \A j \in Joint : unreminded'[j] = unreminded[j] \/ unreminded'[j] = 0
      /\ \A j \in Joint : unreminded[j] = 0 => unreminded'[j] = 0
      /\ Fits(other) => unreminded'[other] = 0
  <2>1. CASE Fits(other)
    <3>1. unreminded' = [unreminded EXCEPT ![other] = 0]
      BY <1>1, <2>1
    <3> QED BY <1>1, <1>2, <3>1
  <2>2. CASE ~Fits(other)
    BY <1>1, <2>2
  <2> QED BY <2>1, <2>2
<1>4. other \in ok => unreminded'[other] = 0
  <2>1. other \in ok => unreminded[other] = 0 \/ Fits(other)
    BY <1>1, <1>2, ReminderFits
  <2> QED BY <1>1, <1>3, <2>1
<1>5. ASSUME NEW j \in ok \ {cur}, j < other' PROVE unreminded'[j] = 0
  <2> DEFINE S == {i \in Others : i > other}
  <2>1. \A i \in S : FirstOf(S) <= i /\ FirstOf(S) \in Joint \cup {NoJoint}
    BY FirstOfIs, <1>2 DEF Others
  <2>2. j \notin S
    BY <1>1, <1>2, <1>5, <2>1, JointFacts
  <2>3. j = other \/ j < other
    BY <1>1, <1>2, <1>5, <2>2 DEF Others
  <2> QED BY <1>1, <1>2, <1>3, <1>4, <1>5, <2>3 DEF WaitInv
<1>6. CurWaited' = CurWaited /\ OthersWaited' = OthersWaited
  BY <1>1 DEF CurWaited, OthersWaited, Turns, OwnSpent
<1>7. \A j \in ok : unreminded'[j] <= IF j = cur THEN CurWaited ELSE OthersWaited
  <2> SUFFICES ASSUME NEW j \in ok
               PROVE  unreminded'[j] <= IF j = cur THEN CurWaited ELSE OthersWaited
    OBVIOUS
  <2> DEFINE m == IF j = cur THEN CurWaited ELSE OthersWaited
  <2>1. unreminded[j] <= m /\ unreminded[j] \in Nat /\ j \in Joint
    BY <1>2 DEF WaitInv
  <2>2. m \in Nat
    <3>1. /\ Spent(HomeTries, HomeWait) \in Nat /\ OwnSpent \in Nat
          /\ Spent(2 * Tries, Wait) \in Nat /\ Spent(Tries, Wait) \in Nat
      BY SpentBounds
    <3> QED BY <1>1, <3>1 DEF CurWaited, OthersWaited, KeepPhases
  <2> HIDE DEF m
  <2>3. unreminded'[j] <= m
    BY <1>3, <2>1, <2>2
  <2> QED BY <2>3 DEF m
<1>8. phase \in PingPhases => \A j \in Joint \ ok : unreminded'[j] = 0
  BY <1>3 DEF WaitInv
<1> QED BY <1>1, <1>4, <1>5, <1>6, <1>7, <1>8 DEF WaitInv, Limit

\* At the end of a round nobody else has waited.
LEMMA WaitReminded ==
  ASSUME TypeOK, PlaceInv, WaitInv, Reminded
  PROVE  WaitInv'
<1>1. /\ cur \in Joint /\ tries' = 0 /\ ~waiting' /\ other = NoJoint
      /\ unreminded' = unreminded
  BY RemindedIs DEF Reminded
<1>2. /\ ok \subseteq Joint /\ \A j \in Joint : unreminded[j] \in Nat
      /\ \A j \in Joint \cup {NoJoint} : j \in Nat
      /\ cur' \in Joint \cup {NoJoint}
  BY CoreReminded, StarvedIsNat, JointFacts DEF TypeOK
<1>3. \A j \in ok \ {cur} : unreminded[j] = 0
  <2>1. phase \in KeepPhases
    BY DEF Reminded, KeepPhases
  <2> QED BY <1>1, <1>2, <2>1, JointFacts DEF WaitInv
<1>4. Turns' = 0 /\ Spent(0, Wait) = 0 /\ Spent(0, HomeWait) = 0
  BY <1>1, SpentFacts, CountAssumption DEF Turns
<1>5. /\ Spent(HomeTries, HomeWait) \in Nat /\ OwnSpent \in Nat
      /\ Tries \in Nat /\ HomeTries \in Nat /\ Spent(Tries, Wait) \in Nat
  BY SpentBounds
<1>6. phase' \in {"ping", "home", "setup", "done"} =>
        /\ CurWaited' \in Nat /\ OthersWaited' \in Nat
        /\ phase' = "setup" => CurWaited' = Spent(HomeTries, HomeWait)
        /\ phase' \in {"home", "done"} => OthersWaited' = OwnSpent
        /\ 0 <= Limit'
  BY <1>4, <1>5 DEF CurWaited, OthersWaited, Limit
<1>7. CASE /\ phase = "keep" /\ UNCHANGED <<ok, hasFeedback>>
           /\ \/ phase' = "ping" /\ cur' \in Joint /\ cur < cur'
              \/ phase' = "home" /\ cur' = FirstOf(ok)
  <2>1. cur \in ok => unreminded[cur] <= 0
    BY <1>7 DEF WaitInv, CurWaited
  <2>2. \A j \in ok : unreminded[j] = 0
    BY <1>1, <1>2, <1>3, <2>1
  <2>3. phase' = "ping" => \A j \in ok : j < cur'
    BY <1>1, <1>2, <1>7 DEF WaitInv
  <2>4. \A j \in Joint \ ok : unreminded[j] = 0
    BY <1>7 DEF WaitInv, PingPhases
  <2> QED BY <1>1, <1>6, <1>7, <2>2, <2>3, <2>4 DEF WaitInv, KeepPhases, PingPhases
<1>8. CASE /\ phase = "keepHome" /\ phase' = "setup" /\ UNCHANGED <<cur, ok>>
           /\ hasFeedback' = hasFeedback \cup {cur}
  <2>1. cur \in ok => unreminded[cur] <= Spent(HomeTries, HomeWait)
    BY <1>8 DEF WaitInv, CurWaited
  <2>2. \A j \in ok : unreminded[j] <= IF j = cur THEN CurWaited' ELSE OthersWaited'
    BY <1>3, <1>6, <1>8, <2>1
  <2> QED BY <1>1, <1>6, <1>8, <2>2 DEF WaitInv, KeepPhases, PingPhases
<1>9. CASE /\ phase \in {"keepLost", "keepSetup"} /\ phase' \in {"home", "done"}
           /\ ok' = IF phase = "keepLost" THEN ok \ {cur} ELSE ok
           /\ UNCHANGED hasFeedback
           /\ cur < cur' /\ \A j \in ok' : j < cur' <=> j <= cur
  <2>1. cur # cur'
    BY <1>1, <1>2, <1>9
  <2>2. cur \in ok' => unreminded[cur] <= OwnSpent
    BY <1>9 DEF WaitInv, CurWaited
  <2>3. \A j \in ok' : unreminded[j] <= IF j = cur' THEN CurWaited' ELSE OthersWaited'
    <3> SUFFICES ASSUME NEW j \in ok'
                 PROVE  unreminded[j] <= IF j = cur' THEN CurWaited' ELSE OthersWaited'
      OBVIOUS
    <3>1. j \in ok
      BY <1>9
    <3>2. CASE j = cur
      BY <1>6, <1>9, <2>1, <2>2, <3>2
    <3>3. CASE j # cur
      BY <1>3, <1>6, <1>9, <3>1, <3>3
    <3> QED BY <3>2, <3>3
  <2> QED BY <1>1, <1>6, <1>9, <2>3 DEF WaitInv, KeepPhases, PingPhases
<1> QED BY <1>7, <1>8, <1>9, RemindedIs

\* Time is accounted for in every step.
LEMMA WaitNext ==
  ASSUME TypeOK, PlaceInv, RoomInv, WaitInv, BacklogInv, RoundsFit, [Next]_vars
  PROVE  WaitInv'
<1>1. CASE UNCHANGED <<phase, cur, other, tries, waiting, ok, unreminded>>
  BY <1>1 DEF WaitInv, CurWaited, OthersWaited, Turns, OwnSpent, Limit
<1>2. CASE DisableAll
  <2>1. /\ phase = "disable" /\ phase' \in {"disable", "ping"} /\ tries' = 0
        /\ UNCHANGED <<ok, unreminded>> /\ ok = {}
    BY <1>2 DEF DisableAll, Goto, PlaceInv
  <2>2. \A j \in Joint : unreminded[j] = 0
    BY <2>1 DEF WaitInv, PingPhases
  <2>3. 0 <= Limit'
    BY CountAssumption DEF Limit
  <2> QED BY <2>1, <2>2, <2>3 DEF WaitInv, KeepPhases
<1>3. CASE Ask
  <2>1. /\ UNCHANGED <<phase, cur, ok, unreminded>> /\ ~waiting /\ tries < Limit
        /\ tries' = tries + 1 /\ phase \in {"ping", "hs", "home", "setup"}
        /\ Limit' = Limit /\ Limit \in Nat
    BY <1>3, CountAssumption DEF Ask, Asking, Limit
  <2>2. Turns' \in Nat /\ Turns \in Nat /\ Turns <= Turns'
    BY <1>3, <2>1, TurnsAre, CoreAsk DEF Turns
  <2>3. Spent(Turns, Wait) <= Spent(Turns', Wait)
        /\ Spent(Turns, HomeWait) <= Spent(Turns', HomeWait)
        /\ Spent(Turns, Wait) \in Nat /\ Spent(Turns', Wait) \in Nat
        /\ Spent(Turns, HomeWait) \in Nat /\ Spent(Turns', HomeWait) \in Nat
    BY <2>2, SpentFacts, CountAssumption
  <2>4. /\ Spent(Tries, Wait) \in Nat /\ OwnSpent \in Nat
        /\ Spent(HomeTries, HomeWait) \in Nat
    BY SpentBounds
  <2>5. /\ OthersWaited \in Nat /\ OthersWaited' \in Nat /\ OthersWaited <= OthersWaited'
        /\ CurWaited \in Nat /\ CurWaited' \in Nat /\ CurWaited <= CurWaited'
    BY <2>1, <2>3, <2>4 DEF CurWaited, OthersWaited
  <2>6. \A j \in ok : unreminded[j] <= IF j = cur THEN CurWaited' ELSE OthersWaited'
    <3> SUFFICES ASSUME NEW j \in ok
                 PROVE  unreminded[j] <= IF j = cur THEN CurWaited' ELSE OthersWaited'
      OBVIOUS
    <3>1. unreminded[j] \in Nat
      BY StarvedIsNat DEF TypeOK
    <3>2. unreminded[j] <= IF j = cur THEN CurWaited ELSE OthersWaited
      BY DEF WaitInv
    <3>3. CASE j = cur
      BY <2>5, <3>1, <3>2, <3>3
    <3>4. CASE j # cur
      BY <2>5, <3>1, <3>2, <3>4
    <3> QED BY <3>3, <3>4
  <2>7. tries' <= Limit'
    BY <2>1, TurnsAre
  <2>8. phase' \notin KeepPhases /\ phase' # "keep"
    BY <2>1 DEF KeepPhases
  <2> QED BY <2>1, <2>6, <2>7, <2>8 DEF WaitInv
<1>4. CASE Enable
  <2>1. /\ phase = "enable" /\ phase' = "keep" /\ cur' = cur /\ unreminded' = unreminded
        /\ ok' = (IF Fits(cur) THEN ok \cup {cur} ELSE ok)
        /\ other' = FirstOf(Others) /\ cur \in Joint
    BY <1>4 DEF Enable, Remind, PlaceInv
  <2>2. /\ \A j \in ok : j < cur /\ j \in Joint
        /\ \A j \in Joint : unreminded[j] \in Nat /\ j \in Nat
    BY <2>1, StarvedIsNat, JointFacts DEF TypeOK, WaitInv
  <2>3. cur \notin ok /\ unreminded[cur] = 0
    BY <2>1, <2>2 DEF WaitInv, PingPhases
  <2>4. \A j \in Others : FirstOf(Others) <= j /\ FirstOf(Others) \in Joint \cup {NoJoint}
    BY FirstOfIs DEF Others, TypeOK
  <2>5. \A j \in ok' \ {cur} : ~(j < other')
    BY <2>1, <2>2, <2>4, JointFacts DEF Others
  <2>6. CurWaited' = 0 /\ OthersWaited' = OthersWaited
    BY <2>1 DEF CurWaited, OthersWaited
  <2>7. \A j \in ok' : unreminded[j] <= IF j = cur THEN CurWaited' ELSE OthersWaited'
    BY <2>1, <2>3, <2>6 DEF WaitInv
  <2>8. (\A j \in ok' : j <= cur) /\ \A j \in Joint \ ok' : unreminded[j] = 0
    BY <2>1, <2>2 DEF WaitInv, PingPhases
  <2> QED BY <2>1, <2>5, <2>7, <2>8 DEF WaitInv
<1>5. CASE NothingOk
  <2>1. ok = {} /\ ok' = ok /\ phase' = "done"
    BY <1>5 DEF NothingOk, Goto, PlaceInv
  <2> QED BY <2>1 DEF WaitInv, PingPhases, KeepPhases
<1>6. \A b \in Bus :
        Deliver(b) => UNCHANGED <<phase, cur, other, tries, waiting, ok, unreminded>>
  BY DEF Deliver, position
<1>7. \A j \in Joint :
        PowerUp(j) => UNCHANGED <<phase, cur, other, tries, waiting, ok, unreminded>>
  BY DEF PowerUp, position
<1>8. UNCHANGED vars => UNCHANGED <<phase, cur, other, tries, waiting, ok, unreminded>>
  BY DEF vars, position
<1> QED
  BY <1>1, <1>2, <1>3, <1>4, <1>5, <1>6, <1>7, <1>8, WaitOutcome, WaitTimedOut,
     WaitKeepalive, WaitReminded, StepIs DEF LaterSteps

-----------------------------------------------------------------------------
(* The frames ahead of a joint that has waited.                            *)

\* The parts of a backlog are numbers.
LEMMA BacklogTypes ==
  ASSUME TypeOK, NEW b \in Bus
  PROVE  /\ Len(txq[b]) \in Nat /\ TxFifo \in Nat /\ Len(txq[b]) <= TxFifo
         /\ Cardinality(OnBus(b)) \in Nat /\ Round(b) \in Nat /\ Backlog(b) \in Int
<1>1. /\ Len(txq[b]) \in Nat /\ TxFifo \in Nat /\ Len(txq[b]) <= TxFifo
      /\ Cardinality(OnBus(b)) \in Nat /\ Round(b) \in Nat
  BY QueueTypes, FifoAssumption, BusIsFinite, RoundIsNat
<1>2. Asked \in {0, 1} /\ \A k \in Int : Mine(b, k) \in Int
  BY DEF Asked, Mine
<1> DEFINE n == Cardinality(OnBus(b))
           r == Round(b)
<1>3. /\ Mine(b, Asked) \in Int /\ Mine(b, 1 + Asked) \in Int /\ Mine(b, 2) \in Int
      /\ Mine(b, 3) \in Int /\ Mine(b, 1) \in Int
  BY <1>2
<1> HIDE DEF n, r
<1>4. Backlog(b) \in Int
  BY <1>1, <1>3 DEF Backlog, n, r
<1> QED BY <1>1, <1>4

\* A bus with a joint has one at least.
LEMMA BusHasOne ==
  ASSUME NEW j \in Joint
  PROVE  /\ BusForJoint(j) \in Bus /\ j \in OnBus(BusForJoint(j))
         /\ 1 <= Cardinality(OnBus(BusForJoint(j)))
<1>1. BusForJoint(j) \in Bus /\ j \in OnBus(BusForJoint(j))
  BY JointFacts DEF OnBus
<1>2. Cardinality({}) = 0 /\ Cardinality({}) + 1 <= Cardinality(OnBus(BusForJoint(j)))
  BY <1>1, CountOneMore, FS_EmptySet
<1>3. Cardinality(OnBus(BusForJoint(j))) \in Nat
  BY <1>1, BusIsFinite
<1> QED BY <1>1, <1>2, <1>3

\* How a frame lengthens a FIFO.
LEMMA SendLengthens ==
  ASSUME TypeOK, NEW j \in Joint, NEW op \in Opcodes, Send(j, op), NEW b \in Bus
  PROVE  /\ Len(txq'[b]) \in Nat
         /\ Len(txq'[b]) <= Len(txq[b]) + 1
         /\ b # BusForJoint(j) \/ ~Fits(j) => Len(txq'[b]) = Len(txq[b])
<1>1. b # BusForJoint(j) \/ ~Fits(j) => txq'[b] = txq[b]
  BY SendIs
<1>2. b = BusForJoint(j) /\ Fits(j) => Len(txq'[b]) = Len(txq[b]) + 1
  BY SendIs
<1>3. Len(txq[b]) \in Nat
  BY QueueTypes
<1> QED BY <1>1, <1>2, <1>3

\* A turn adds its frame.
LEMMA BacklogAsk ==
  ASSUME TypeOK, PlaceInv, BacklogInv, Ask
  PROVE  BacklogInv'
<1>1. /\ UNCHANGED <<phase, cur, other, ok, unreminded>> /\ ~waiting
      /\ cur \in Joint /\ phase \in {"ping", "hs", "home", "setup"}
      /\ Send(cur, Frame) /\ Frame \in Opcodes
  BY CurIsJoint DEF Ask, Asking, Frame, Opcodes
<1>2. waiting' <=> Fits(cur)
  BY DEF Ask, Fits
<1>3. ASSUME NEW j \in ok \ {cur}, unreminded[j] > 0
      PROVE  Len(txq'[BusForJoint(j)]) <= Backlog(BusForJoint(j))'
  <2> DEFINE b == BusForJoint(j)
             n == Cardinality(OnBus(b))
             q == Len(txq[b])
             p == Len(txq'[b])
  <2>1. b \in Bus
    BY <1>3, JointFacts DEF TypeOK
  <2>2. /\ q \in Nat /\ p \in Nat /\ n \in Nat /\ p <= q + 1
        /\ b # CurBus \/ ~Fits(cur) => p = q
    BY <1>1, <2>1, BacklogTypes, SendLengthens DEF CurBus
  <2>3. q <= Backlog(b)
    BY <1>3 DEF BacklogInv
  <2>4. /\ Asked = 0 /\ (Fits(cur) => Asked' = 1) /\ (~Fits(cur) => Asked' = 0)
        /\ CurBus' = CurBus
    BY <1>1, <1>2 DEF Asked, CurBus
  <2>5. /\ phase = "ping" => Backlog(b) = Mine(b, Asked)
        /\ phase = "hs" => Backlog(b) = Mine(b, 1 + Asked)
        /\ phase = "home" => Backlog(b) = n - 1 + Mine(b, Asked)
        /\ phase = "setup" => Backlog(b) = Mine(b, Asked)
    BY DEF Backlog
  <2>6. /\ phase = "ping" => Backlog(b)' = Mine(b, Asked)'
        /\ phase = "hs" => Backlog(b)' = Mine(b, 1 + Asked)'
        /\ phase = "home" => Backlog(b)' = n - 1 + Mine(b, Asked)'
        /\ phase = "setup" => Backlog(b)' = Mine(b, Asked)'
    BY <1>1 DEF Backlog
  <2>7. /\ Mine(b, Asked) = 0 /\ Mine(b, 1 + Asked) = IF b = CurBus THEN 1 ELSE 0
        /\ Mine(b, Asked)' = IF b = CurBus /\ Fits(cur) THEN 1 ELSE 0
        /\ Mine(b, 1 + Asked)' =
             IF b = CurBus THEN (IF Fits(cur) THEN 2 ELSE 1) ELSE 0
    BY <2>4 DEF Mine
  <2>8. p <= Backlog(b)'
    <3> HIDE DEF b, n, q, p
    <3>1. CASE b = CurBus /\ Fits(cur)
      BY <1>1, <2>2, <2>3, <2>5, <2>6, <2>7, <3>1
    <3>2. CASE b = CurBus /\ ~Fits(cur)
      BY <1>1, <2>2, <2>3, <2>5, <2>6, <2>7, <3>2
    <3>3. CASE b # CurBus
      BY <1>1, <2>2, <2>3, <2>5, <2>6, <2>7, <3>3
    <3> QED BY <3>1, <3>2, <3>3
  <2> QED BY <2>8
<1> QED BY <1>1, <1>3 DEF BacklogInv

\* The end of an exchange: what was sent in it is still counted.
LEMMA BacklogOutcome ==
  ASSUME TypeOK, PlaceInv, PowerInv, ProbeInv, AckInv, BacklogInv, Match \/ GiveUp
  PROVE  BacklogInv'
<1>1. /\ cur \in Joint /\ cur' = cur /\ UNCHANGED <<ok, txq>>
  BY OutcomeIs
<1>2. ~waiting'
  BY OutcomeIs
<1>0. \A b \in Bus : Round(b)' \in Nat /\ Round(b)' = Cardinality(Before(b, other') \ {cur'})
  <2>1. \A b \in Bus : Before(b, other') \ {cur'} \in SUBSET OnBus(b)
    BY DEF Before
  <2>2. \A b \in Bus : Cardinality(Before(b, other') \ {cur'}) \in Nat
    BY <2>1, CountGrows
  <2>3. \A b \in Bus : Round(b)' = Cardinality(Before(b, other') \ {cur'})
    BY DEF Round, Before
  <2> QED BY <2>2, <2>3
<1>3. /\ CurBus \in Bus /\ CurBus' = CurBus
      /\ 1 <= Cardinality(OnBus(CurBus)) /\ Cardinality(OnBus(CurBus)) \in Nat
  BY <1>1, BusHasOne, BusIsFinite DEF CurBus
<1>4. phase' = "keepHome" => Len(txq[CurBus]) = 0
  <2> SUFFICES ASSUME phase' = "keepHome" PROVE Len(txq[CurBus]) = 0
    OBVIOUS
  <2>1. phase = "home" /\ waiting /\ <<cur, "page0">> \in rx[CurBus]
    BY OutcomeIs
  <2>2. txq[CurBus] = <<>>
    BY <1>1, <2>1 DEF ProbeInv, WaitsFor, AskedLast, CurBus
  <2> QED BY <2>2, EmptySeq
<1>5. phase' = "keepSetup" => Len(txq[CurBus]) = 0
  <2> SUFFICES ASSUME phase' = "keepSetup" PROVE Len(txq[CurBus]) = 0
    OBVIOUS
  <2>1. phase = "setup" /\ (\/ waiting /\ <<cur, "setup">> \in rx[CurBus]
                            \/ ~waiting /\ tries = Tries)
    BY OutcomeIs
  <2>2. CASE waiting /\ <<cur, "setup">> \in rx[CurBus]
    <3>1. txq[CurBus] = <<>>
      BY <1>1, <2>1, <2>2 DEF AckInv, WaitsFor, AskedLast, CurBus
    <3> QED BY <3>1, EmptySeq
  <2>3. CASE ~waiting /\ tries = Tries
    <3>1. tries > 0
      BY <2>3, CountAssumption
    <3>2. txq[CurBus] = <<>>
      BY <2>1, <2>3, <3>1 DEF AckInv
    <3> QED BY <3>2, EmptySeq
  <2> QED BY <2>1, <2>2, <2>3
<1>6. ASSUME NEW b \in Bus, Len(txq[b]) <= Backlog(b) \/ Len(txq[b]) = 0,
             1 <= Cardinality(OnBus(b))
      PROVE  Len(txq[b]) <= Backlog(b)'
  <2> DEFINE n == Cardinality(OnBus(b))
             q == Len(txq[b])
             r == Round(b)'
  <2>1. q \in Nat /\ n \in Nat /\ 1 <= n
    BY <1>6, BacklogTypes
  <2>2. r \in Nat
    BY <1>0
  <2>3. /\ waiting => Asked = 1
        /\ ~waiting => Asked = 0
        /\ Asked' = 0
    BY <1>2 DEF Asked
  <2>4. /\ phase = "ping" => Backlog(b) = Mine(b, Asked)
        /\ phase = "hs" => Backlog(b) = Mine(b, 1 + Asked)
        /\ phase = "home" => Backlog(b) = n - 1 + Mine(b, Asked)
        /\ phase = "setup" => Backlog(b) = Mine(b, Asked)
    BY DEF Backlog
  <2>5. /\ phase' = "hs" => Backlog(b)' = Mine(b, 1 + Asked)'
        /\ phase' = "enable" => Backlog(b)' = Mine(b, 2)'
        /\ phase' = "keep" => Backlog(b)' = Mine(b, 3)' + r
        /\ phase' \in {"keepHome", "keepLost"} => Backlog(b)' = n - 1 + r
        /\ phase' = "keepSetup" => Backlog(b)' = Mine(b, 1)' + r
    BY DEF Backlog
  <2>6. /\ \A k \in Int : Mine(b, k) = IF b = CurBus THEN k ELSE 0
        /\ Mine(b, 1 + Asked)' = IF b = CurBus THEN 1 ELSE 0
        /\ Mine(b, 1)' = IF b = CurBus THEN 1 ELSE 0
        /\ Mine(b, 2)' = IF b = CurBus THEN 2 ELSE 0
        /\ Mine(b, 3)' = IF b = CurBus THEN 3 ELSE 0
    BY <1>3, <2>3 DEF Mine
  <2>7. /\ phase' = "keepHome" /\ b = CurBus => q = 0
    BY <1>4
  <2>8. q <= Backlog(b) \/ q = 0
    BY <1>6
  <2>9. Asked \in {0, 1}
    BY DEF Asked
  <2> HIDE DEF n, q, r
  <2>10. Mine(b, Asked) = (IF b = CurBus THEN Asked ELSE 0)
         /\ Mine(b, 1 + Asked) = (IF b = CurBus THEN 1 + Asked ELSE 0)
    BY <2>6, <2>9
  <2>11. q <= Backlog(b)'
    <3>1. CASE phase = "ping" /\ phase' = "hs" /\ waiting
      BY <2>1, <2>2, <2>3, <2>4, <2>5, <2>6, <2>8, <2>9, <2>10, <3>1
    <3>2. CASE phase = "hs" /\ phase' = "enable"
      BY <2>1, <2>2, <2>4, <2>5, <2>6, <2>8, <2>9, <2>10, <3>2
    <3>3. CASE phase \in {"ping", "hs"} /\ phase' = "keep"
      BY <2>1, <2>2, <2>4, <2>5, <2>6, <2>8, <2>9, <2>10, <3>3
    <3>4. CASE phase = "home" /\ phase' = "keepLost" /\ ~waiting
      BY <2>1, <2>2, <2>3, <2>4, <2>5, <2>6, <2>8, <2>9, <2>10, <3>4
    <3>5. CASE phase = "home" /\ phase' = "keepHome" /\ waiting
      BY <2>1, <2>2, <2>4, <2>5, <2>6, <2>7, <2>8, <2>9, <2>10, <3>5
    <3>6. CASE phase = "setup" /\ phase' = "keepSetup"
      BY <2>1, <2>2, <2>4, <2>5, <2>6, <2>8, <2>9, <2>10, <3>6
    <3> QED BY <3>1, <3>2, <3>3, <3>4, <3>5, <3>6, OutcomeIs
  <2> QED BY <2>11 DEF q
<1>7. \A j \in ok \ {cur} :
        unreminded'[j] > 0 => Len(txq[BusForJoint(j)]) <= Backlog(BusForJoint(j))'
  <2> SUFFICES ASSUME NEW j \in ok \ {cur}, unreminded'[j] > 0
               PROVE  Len(txq[BusForJoint(j)]) <= Backlog(BusForJoint(j))'
    OBVIOUS
  <2>1. j \in Joint /\ BusForJoint(j) \in busUp /\ unreminded[j] \in 0 .. Starved
    BY DEF TypeOK, PowerInv
  <2>2. ASSUME NEW t \in 0 .. Timeout, Pass(t)
        PROVE  unreminded'[j] = unreminded[j] \/ txq[BusForJoint(j)] = <<>>
    <3>1. t \in Nat
      BY TimeoutIs
    <3>2. unreminded'[j] = Shorter(Starved, unreminded[j] + t)
          /\ (t = 0 \/ txq[BusForJoint(j)] = <<>>)
      BY <2>1, <2>2, <3>1, PassIs
    <3>3. t = 0 => unreminded'[j] = unreminded[j]
      BY <2>1, <3>2, StarvedIsNat DEF Shorter
    <3> QED BY <3>2, <3>3
  <2>3. unreminded'[j] = unreminded[j] \/ txq[BusForJoint(j)] = <<>>
    BY <2>2, OutcomeIs
  <2>4. CASE unreminded'[j] = unreminded[j]
    <3>1. Len(txq[BusForJoint(j)]) <= Backlog(BusForJoint(j))
      BY <2>4 DEF BacklogInv
    <3> QED BY <1>6, <2>1, <3>1, BusHasOne
  <2>5. CASE txq[BusForJoint(j)] = <<>>
    <3>1. Len(txq[BusForJoint(j)]) = 0
      BY <2>5, EmptySeq
    <3> QED BY <1>6, <2>1, <3>1, BusHasOne
  <2> QED BY <2>3, <2>4, <2>5
<1>8. (phase = "keepSetup" => Len(txq[CurBus]) <= Round(CurBus))'
  <2> DEFINE r == Cardinality(Before(CurBus, other') \ {cur'})
  <2>1. r \in Nat
    BY <1>0, <1>3
  <2>2. txq'[CurBus] = txq[CurBus]
    BY <1>1
  <2> HIDE DEF r
  <2>3. phase' = "keepSetup" => Len(txq'[CurBus]) <= r
    BY <1>5, <2>1, <2>2
  <2>4. Round(CurBus)' = r
    BY <1>3 DEF Round, Before, r
  <2> QED BY <1>3, <2>3, <2>4
<1> QED BY <1>1, <1>7, <1>8 DEF BacklogInv

\* A wait ends when the buses that are up have drained.
LEMMA BacklogTimedOut ==
  ASSUME TypeOK, PlaceInv, PowerInv, TimedOut
  PROVE  BacklogInv'
<1>1. /\ UNCHANGED <<phase, cur, ok, txq>> /\ waiting
      /\ phase \in {"ping", "hs", "home", "setup"}
      /\ \A b \in busUp : txq[b] = <<>>
  BY FullWait DEF TimedOut, PlaceInv
<1>2. ~waiting'
  BY Zenon DEF TimedOut
<1>3. ASSUME NEW j \in ok
      PROVE  Len(txq[BusForJoint(j)]) <= Backlog(BusForJoint(j))'
  <2> DEFINE b == BusForJoint(j)
             n == Cardinality(OnBus(b))
  <2>1. j \in Joint /\ b \in busUp
    BY <1>3 DEF TypeOK, PowerInv
  <2>2. Len(txq[b]) = 0
    BY <1>1, <2>1, EmptySeq
  <2>3. 1 <= n /\ n \in Nat
    BY <2>1, BusHasOne, BusIsFinite
  <2>4. Asked' = 0
    BY <1>2 DEF Asked
  <2>5. Mine(b, Asked)' = 0 /\ Mine(b, 1 + Asked)' \in {0, 1}
    BY <2>4 DEF Mine
  <2>6. /\ phase = "ping" => Backlog(b)' = Mine(b, Asked)'
        /\ phase = "hs" => Backlog(b)' = Mine(b, 1 + Asked)'
        /\ phase = "home" => Backlog(b)' = n - 1 + Mine(b, Asked)'
        /\ phase = "setup" => Backlog(b)' = Mine(b, Asked)'
    BY <1>1 DEF Backlog
  <2> HIDE DEF n
  <2>7. 0 <= Backlog(b)'
    BY <1>1, <2>3, <2>5, <2>6
  <2> QED BY <2>2, <2>7
<1> QED BY <1>1, <1>3 DEF BacklogInv

\* The MOTOR_ENABLE of the joint that becomes ok is the third frame to it.
LEMMA BacklogEnable ==
  ASSUME TypeOK, PlaceInv, BacklogInv, Enable
  PROVE  BacklogInv'
<1>1. /\ phase = "enable" /\ phase' = "keep" /\ cur' = cur /\ cur \in Joint
      /\ unreminded' = unreminded /\ ok' \ {cur} \subseteq ok
      /\ Send(cur, "enable") /\ "enable" \in Opcodes
  BY DEF Enable, Remind, PlaceInv, Opcodes
<1>2. ASSUME NEW j \in ok' \ {cur}, unreminded[j] > 0
      PROVE  Len(txq'[BusForJoint(j)]) <= Backlog(BusForJoint(j))'
  <2> DEFINE b == BusForJoint(j)
             q == Len(txq[b])
             p == Len(txq'[b])
             r == Round(b)'
  <2>1. j \in ok /\ j # cur /\ b \in Bus
    BY <1>1, <1>2, JointFacts DEF TypeOK
  <2>2. q \in Nat /\ p \in Nat /\ p <= q + 1 /\ (b # CurBus => p = q)
    BY <1>1, <2>1, BacklogTypes, SendLengthens DEF CurBus
  <2>3. r \in Nat
    <3>1. Before(b, other') \ {cur'} \in SUBSET OnBus(b)
      BY DEF Before
    <3>2. Cardinality(Before(b, other') \ {cur'}) \in Nat
      BY <2>1, <3>1, CountGrows
    <3> QED BY <3>2 DEF Round, Before
  <2>4. q <= Backlog(b)
    BY <1>2, <2>1 DEF BacklogInv
  <2>5. Backlog(b) = (IF b = CurBus THEN 2 ELSE 0)
    BY <1>1 DEF Backlog, Mine
  <2>6. Backlog(b)' = (IF b = CurBus THEN 3 ELSE 0) + r
    BY <1>1 DEF Backlog, Mine, CurBus
  <2> HIDE DEF q, p, r, b
  <2>7. CASE b = CurBus
    <3>1. q <= 2 /\ Backlog(b)' = 3 + r
      BY <2>4, <2>5, <2>6, <2>7
    <3>2. p <= Backlog(b)'
      BY <2>2, <2>3, <3>1
    <3> QED BY <3>2 DEF p, b
  <2>8. CASE b # CurBus
    <3>1. q <= 0 /\ Backlog(b)' = 0 + r /\ p = q
      BY <2>2, <2>4, <2>5, <2>6, <2>8
    <3>2. p <= Backlog(b)'
      BY <2>2, <2>3, <3>1
    <3> QED BY <3>2 DEF p, b
  <2> QED BY <2>7, <2>8
<1> QED BY <1>1, <1>2 DEF BacklogInv

\* A reminder is one frame of the round.
LEMMA BacklogKeepalive ==
  ASSUME TypeOK, PlaceInv, RoomInv, WaitInv, BacklogInv, RoundsFit, Keepalive
  PROVE  BacklogInv'
<1>1. /\ UNCHANGED <<phase, cur, ok>> /\ phase \in KeepPhases /\ cur \in Joint
      /\ other \in Joint /\ Send(other, "enable") /\ "enable" \in Opcodes
  BY CoreKeepalive, CurIsJoint DEF Keepalive, KeepPhases, Opcodes
<1>2. \A j \in ok : unreminded'[j] > 0 => j # other /\ unreminded'[j] = unreminded[j]
  <2>1. unreminded' = IF Fits(other) THEN [unreminded EXCEPT ![other] = 0] ELSE unreminded
    BY DEF Keepalive
  <2>2. other \in ok => unreminded'[other] = 0
    BY WaitKeepalive
  <2>3. \A j \in ok : j # other => unreminded'[j] = unreminded[j]
    BY <2>1 DEF TypeOK
  <2> QED BY <2>2, <2>3
<1>3. ASSUME NEW b \in Bus
      PROVE  /\ Len(txq[b]) <= Round(b) => Len(txq'[b]) <= Round(b)'
             /\ Len(txq[b]) <= Backlog(b) => Len(txq'[b]) <= Backlog(b)'
  <2> DEFINE n == Cardinality(OnBus(b))
             q == Len(txq[b])
             p == Len(txq'[b])
             r == Round(b)
             s == Round(b)'
  <2>1. /\ q \in Nat /\ p \in Nat /\ n \in Nat /\ p <= q + 1
        /\ b # BusForJoint(other) => p = q
    BY <1>1, BacklogTypes, SendLengthens
  <2>2. r \in Nat /\ s \in Nat /\ r <= s /\ (b = BusForJoint(other) => r + 1 <= s)
    BY RoundGrows
  <2>3. /\ phase = "keep" => Backlog(b) = (IF b = CurBus THEN 3 ELSE 0) + r
        /\ phase \in {"keepHome", "keepLost"} => Backlog(b) = n - 1 + r
        /\ phase = "keepSetup" => Backlog(b) = (IF b = CurBus THEN 1 ELSE 0) + r
    BY DEF Backlog, Mine
  <2>4. /\ phase = "keep" => Backlog(b)' = (IF b = CurBus THEN 3 ELSE 0) + s
        /\ phase \in {"keepHome", "keepLost"} => Backlog(b)' = n - 1 + s
        /\ phase = "keepSetup" => Backlog(b)' = (IF b = CurBus THEN 1 ELSE 0) + s
    BY <1>1 DEF Backlog, Mine, CurBus
  <2> HIDE DEF n, q, p, r, s
  <2>5. p <= q + (s - r)
    BY <2>1, <2>2
  <2>6. PICK m \in Int : Backlog(b) = m + r /\ Backlog(b)' = m + s
    <3>1. CASE phase = "keep"
      BY <2>3, <2>4, <3>1
    <3>2. CASE phase \in {"keepHome", "keepLost"}
      <4>1. n - 1 \in Int /\ Backlog(b) = (n - 1) + r /\ Backlog(b)' = (n - 1) + s
        BY <2>1, <2>3, <2>4, <3>2
      <4> QED BY <4>1
    <3>3. CASE phase = "keepSetup"
      BY <2>3, <2>4, <3>3
    <3> QED BY <1>1, <3>1, <3>2, <3>3 DEF KeepPhases
  <2>7. q <= r => p <= s
    BY <2>1, <2>2, <2>5
  <2>8. q <= m + r => p <= m + s
    BY <2>1, <2>2, <2>5
  <2> QED BY <2>6, <2>7, <2>8 DEF q, p, r, s
<1>4. ASSUME NEW j \in ok \ {cur}, unreminded'[j] > 0
      PROVE  Len(txq'[BusForJoint(j)]) <= Backlog(BusForJoint(j))'
  <2>1. BusForJoint(j) \in Bus /\ unreminded[j] > 0
    BY <1>2, <1>4, JointFacts DEF TypeOK
  <2> QED BY <1>3, <1>4, <2>1 DEF BacklogInv
<1>5. phase = "keepSetup" => Len(txq'[CurBus]) <= Round(CurBus)'
  <2>1. CurBus \in Bus
    BY <1>1, CurBusIsBus
  <2>2. \A b \in Bus : b = CurBus /\ phase = "keepSetup" => Len(txq'[b]) <= Round(b)'
    BY <1>3 DEF BacklogInv
  <2> QED BY <1>1, <2>1, <2>2 DEF CurBus, Round, Before
<1> QED BY <1>1, <1>4, <1>5 DEF BacklogInv, CurBus, Round, Before

\* After a round only the joint it was held for has waited.
LEMMA BacklogReminded ==
  ASSUME TypeOK, PlaceInv, WaitInv, BacklogInv, Reminded
  PROVE  BacklogInv'
<1>1. /\ cur \in Joint /\ other = NoJoint
      /\ UNCHANGED <<txq, unreminded>> /\ phase' # "keepSetup" /\ ~waiting'
  BY RemindedIs DEF Reminded
<1>2. \A j \in ok \ {cur} : unreminded[j] = 0
  <2>1. phase \in KeepPhases /\ \A j \in ok : j < other
    BY <1>1, JointFacts DEF Reminded, KeepPhases, TypeOK
  <2> QED BY <2>1 DEF WaitInv
<1>3. phase = "keep" => \A j \in ok : unreminded[j] = 0
  <2>1. phase = "keep" /\ cur \in ok => unreminded[cur] <= 0 /\ unreminded[cur] \in Nat
    BY StarvedIsNat DEF WaitInv, CurWaited, TypeOK
  <2> QED BY <1>2, <2>1
<1>4. ASSUME NEW j \in ok' \ {cur'}, unreminded[j] > 0
      PROVE  j = cur /\ phase = "keepSetup" /\ phase' \in {"home", "done"}
  <2>1. ok' \subseteq ok
    BY RemindedIs
  <2>2. j = cur /\ phase # "keep"
    BY <1>2, <1>3, <1>4, <2>1
  <2>3. phase # "keepHome"
    <3>1. phase = "keepHome" => cur' = cur
      BY RemindedIs
    <3> QED BY <1>4, <2>2, <3>1
  <2>4. phase # "keepLost"
    <3>1. phase = "keepLost" => ok' = ok \ {cur}
      BY RemindedIs
    <3> QED BY <1>4, <2>2, <3>1
  <2> QED BY <2>2, <2>3, <2>4, RemindedIs
<1>5. ASSUME NEW j \in Joint, j = cur, phase = "keepSetup", phase' \in {"home", "done"}
      PROVE  Len(txq[BusForJoint(j)]) <= Backlog(BusForJoint(j))'
  <2> DEFINE b == BusForJoint(j)
             n == Cardinality(OnBus(b))
             q == Len(txq[b])
             r == Cardinality(OnBus(b) \ {j})
  <2>1. b \in Bus /\ j \in OnBus(b)
    BY BusHasOne
  <2>2. r + 1 <= n /\ r \in Nat /\ n \in Nat
    <3>1. OnBus(b) \ {j} \in SUBSET OnBus(b) /\ j \notin OnBus(b) \ {j}
      OBVIOUS
    <3> QED BY <2>1, <3>1, CountOneMore, CountGrows
  <2>3. q <= r
    <3>1. Before(b, NoJoint) = OnBus(b)
      BY JointFacts DEF Before, OnBus
    <3> QED BY <1>1, <1>5, <3>1 DEF BacklogInv, Round, CurBus
  <2>4. q \in Nat /\ q <= TxFifo
    BY <2>1, BacklogTypes
  <2>5. Mine(b, Asked)' = 0
    BY <1>1 DEF Asked, Mine
  <2>6. /\ phase' = "home" => Backlog(b)' = n - 1 + Mine(b, Asked)'
        /\ phase' = "done" => Backlog(b)' = TxFifo
    BY DEF Backlog
  <2> HIDE DEF n, q, r, b
  <2>7. q <= Backlog(b)'
    BY <1>5, <2>2, <2>3, <2>4, <2>5, <2>6
  <2> QED BY <2>7 DEF q, b
<1>6. \A j \in ok' \ {cur'} :
        unreminded[j] > 0 => Len(txq[BusForJoint(j)]) <= Backlog(BusForJoint(j))'
  BY <1>1, <1>4, <1>5
<1> QED BY <1>1, <1>6 DEF BacklogInv

\* The backlog is accounted for in every step.
LEMMA BacklogNext ==
  ASSUME TypeOK, PlaceInv, PowerInv, ProbeInv, RoomInv, AckInv, WaitInv, BacklogInv, RoundsFit,
         [Next]_vars
  PROVE  BacklogInv'
<1>1. CASE UNCHANGED <<phase, cur, other, waiting, ok, txq, unreminded>>
  BY <1>1 DEF BacklogInv, Backlog, Round, Before, Mine, Asked, CurBus
<1>2. CASE (DisableAll \/ NothingOk)
  <2>1. ok = {} /\ ok' = ok /\ phase' # "keepSetup"
    BY <1>2 DEF DisableAll, NothingOk, Goto, PlaceInv
  <2> QED BY <2>1 DEF BacklogInv
<1>3. ASSUME NEW b \in Bus, Deliver(b) PROVE BacklogInv'
  <2>1. UNCHANGED <<phase, cur, other, waiting, ok, unreminded>>
    BY <1>3, DeliverIs DEF position
  <2>2. \A c \in Bus : Len(txq'[c]) \in Nat /\ Len(txq[c]) \in Nat /\ Len(txq'[c]) <= Len(txq[c])
    <3>1. /\ \A c \in Bus : c # b => txq'[c] = txq[c]
          /\ Len(txq'[b]) = Len(txq[b]) - 1
          /\ \A c \in Bus : Len(txq'[c]) \in Nat
      BY <1>3, DeliverIs, TakeIs
    <3>2. \A c \in Bus : Len(txq[c]) \in Nat
      BY QueueTypes
    <3>3. Len(txq'[b]) <= Len(txq[b])
      BY <3>1, <3>2
    <3> QED BY <3>1, <3>2, <3>3
  <2>3. \A c \in Bus : Backlog(c)' = Backlog(c) /\ Round(c)' = Round(c)
    BY <2>1 DEF Backlog, Round, Before, Mine, Asked, CurBus
  <2>4. \A c \in Bus : Backlog(c) \in Int /\ Round(c) \in Nat
    BY BacklogTypes
  <2>5. ASSUME NEW j \in ok \ {cur}, unreminded[j] > 0
        PROVE  Len(txq'[BusForJoint(j)]) <= Backlog(BusForJoint(j))'
    <3> DEFINE c == BusForJoint(j)
    <3>1. c \in Bus /\ Len(txq[c]) <= Backlog(c)
      BY <2>5, JointFacts DEF BacklogInv, TypeOK
    <3> HIDE DEF c
    <3>2. Len(txq'[c]) <= Backlog(c)'
      BY <2>2, <2>3, <2>4, <3>1
    <3> QED BY <3>2 DEF c
  <2>6. phase = "keepSetup" => Len(txq'[CurBus]) <= Round(CurBus)
    <3> SUFFICES ASSUME phase = "keepSetup" PROVE Len(txq'[CurBus]) <= Round(CurBus)
      OBVIOUS
    <3>1. CurBus \in Bus /\ Len(txq[CurBus]) <= Round(CurBus)
      BY CurBusIsBus DEF BacklogInv, PlaceInv
    <3> QED BY <2>2, <2>4, <3>1
  <2> QED BY <2>1, <2>5, <2>6 DEF BacklogInv, CurBus, Round, Before
<1>4. \A j \in Joint :
        PowerUp(j) => UNCHANGED <<phase, cur, other, waiting, ok, txq, unreminded>>
  BY DEF PowerUp, position
<1>5. UNCHANGED vars => UNCHANGED <<phase, cur, other, waiting, ok, txq, unreminded>>
  BY DEF vars, position
<1> QED
  BY <1>1, <1>2, <1>3, <1>4, <1>5, BacklogAsk, BacklogOutcome, BacklogTimedOut, BacklogEnable,
     BacklogKeepalive, BacklogReminded, StepIs DEF LaterSteps

\* Nobody is ok when boot begins.
LEMMA BacklogInit == Init => BacklogInv
BY DEF Init, BacklogInv

\* No wait is as long as the bound.
LEMMA WaitsAreShort ==
  ASSUME TypeOK, PlaceInv, WaitInv
  PROVE  NoJointStarves
<1> SUFFICES ASSUME NEW j \in ok PROVE unreminded[j] < Starved
  BY DEF NoJointStarves
<1> DEFINE w == unreminded[j]
           T0 == Spent(Turns, Wait)
           H0 == Spent(Turns, HomeWait)
           T2 == Spent(Tries, Wait)
           H2 == Spent(HomeTries, HomeWait)
           D == Spent(2 * Tries, Wait)
<1>1. w \in Nat /\ Starved \in Nat /\ Turns \in Nat
  BY StarvedIsNat, TurnsAre DEF TypeOK
<1>2. /\ T2 \in Nat /\ H2 \in Nat
      /\ D = T2 + T2 /\ OwnSpent = H2 + T2
      /\ D < Starved /\ OwnSpent + H2 < Starved
  BY SpentBounds
<1>3. /\ phase \in {"ping", "hs", "setup"} => T0 \in Nat /\ T0 <= T2
      /\ phase = "home" => H0 \in Nat /\ H0 <= H2
  <2>1. phase \in {"ping", "hs", "home", "setup"} => Turns <= Limit
    <3>1. phase \in {"ping", "hs", "home", "setup"} => tries <= Limit
      BY DEF WaitInv
    <3>2. Limit \in Nat
      BY CountAssumption DEF Limit
    <3> QED BY <3>1, <3>2, TurnsAre
  <2>2. Tries \in Nat /\ HomeTries \in Nat /\ Wait \in Nat /\ HomeWait \in Nat
    BY CountAssumption
  <2>3. phase \in {"ping", "hs", "setup"} => T0 \in Nat /\ T0 <= T2
    <3>1. phase \in {"ping", "hs", "setup"} => Turns <= Tries
      BY <2>1 DEF Limit
    <3> QED BY <1>1, <2>2, <3>1, SpentFacts
  <2>4. phase = "home" => H0 \in Nat /\ H0 <= H2
    <3>1. phase = "home" => Turns <= HomeTries
      BY <2>1 DEF Limit
    <3> QED BY <1>1, <2>2, <3>1, SpentFacts
  <2> QED BY <2>3, <2>4
<1>4. w <= IF j = cur THEN CurWaited ELSE OthersWaited
  BY DEF WaitInv
<1>5. CurWaited =
        CASE phase = "home" -> H0 [] phase \in {"keepHome", "keepLost"} -> H2
          [] phase = "setup" -> H2 + T0 [] phase = "keepSetup" -> OwnSpent [] OTHER -> 0
  BY DEF CurWaited
<1>6. OthersWaited =
        CASE phase = "ping" -> T0 [] phase = "hs" -> T2 + T0
          [] phase \in {"enable", "keep"} -> D [] phase = "home" -> OwnSpent + H0
          [] phase \in {"keepHome", "keepLost"} -> OwnSpent + H2
          [] phase = "setup" -> T0 [] phase = "keepSetup" -> T2 [] OTHER -> OwnSpent
  BY DEF OthersWaited
<1> HIDE DEF w, T0, H0, T2, H2, D
<1>7. CurWaited < Starved
  BY <1>1, <1>2, <1>3, <1>5
<1>8. OthersWaited < Starved /\ CurWaited \in Nat /\ OthersWaited \in Nat
  BY <1>1, <1>2, <1>3, <1>5, <1>6
<1>9. w < Starved
  BY <1>1, <1>4, <1>7, <1>8
<1> QED BY <1>9 DEF w

-----------------------------------------------------------------------------
(* The theorems.                                                           *)

BootInv ==
  /\ TypeOK /\ PlaceInv /\ FeedbackInv /\ PowerInv
  /\ QueueInv /\ ForceInv /\ EnabledInv /\ SetupInv /\ ProbeInv /\ RoomInv

\* The invariant holds when boot begins.
LEMMA BootInvInit == Init => BootInv
BY CoreInit, FeedbackInit, PowerInit, QueueInit, ForceInit, EnabledInit, SetupInit,
   ProbeInit, RoomInit DEF BootInv

\* Every step preserves the invariant.
LEMMA BootInvNext == BootInv /\ [Next]_vars => BootInv'
<1> SUFFICES ASSUME BootInv, [Next]_vars PROVE BootInv'
  OBVIOUS
<1>1. TypeOK /\ PlaceInv /\ FeedbackInv /\ PowerInv
      /\ QueueInv /\ ForceInv /\ EnabledInv /\ SetupInv /\ ProbeInv /\ RoomInv
  BY DEF BootInv
<1>2. TypeOK' /\ PlaceInv' /\ FeedbackInv' /\ PowerInv'
  BY <1>1, CoreNext, FeedbackNext, PowerNext
<1>3. QueueInv' /\ ForceInv' /\ EnabledInv'
  BY <1>1, QueueNext, ForceNext, EnabledNext
<1>4. SetupInv' /\ ProbeInv' /\ RoomInv'
  BY <1>1, SetupNext, ProbeNext, RoomNext
<1> QED BY <1>2, <1>3, <1>4 DEF BootInv

\* The invariant holds in every state of Actuator_Init.
THEOREM BootInvariant == Spec => []BootInv
BY BootInvInit, BootInvNext, PTL DEF Spec

\* Type correctness: the loops stay within the joints, the FIFOs within their
\* depth, and only drivers with power have a state.
THEOREM TypeCorrect == Spec => []TypeOK
<1>1. BootInv => TypeOK
  BY DEF BootInv
<1> QED BY <1>1, BootInvariant, PTL

\* A driver that is enabled does not hold an old target.
LEMMA GainsNoForce ==
  BootInv /\ [Next]_vars => [\A j \in Joint : HoldsForce(j)' => HoldsForce(j)]_vars
<1> SUFFICES ASSUME BootInv, [Next]_vars, ~UNCHANGED vars,
                    NEW j \in Joint, j \in enabled', j \in force'
             PROVE  j \in enabled /\ j \in force
  BY DEF HoldsForce
<1>1. TypeOK /\ PlaceInv /\ QueueInv /\ ForceInv
  BY DEF BootInv
<1>2. CASE UNCHANGED <<enabled, force>>
  BY <1>2
<1>3. ASSUME NEW b \in Bus, Deliver(b) PROVE j \in enabled /\ j \in force
  <2> DEFINE d == txq[b][1][1]
             op == txq[b][1][2]
  <2>1. /\ d \in Joint /\ op \in Opcodes /\ 1 \in 1..Len(txq[b])
        /\ \/ d \in powered /\ Obey(d, op)
           \/ d \notin powered /\ UNCHANGED <<enabled, force>>
    BY <1>1, <1>3, DeliverIs
  <2>2. BusForJoint(d) = b
    BY <1>1, <1>3, QueuedTake
  <2>3. (phase = "disable" /\ cur <= d) \/ Queued(d, "disable") => op = "disable"
    <3>1. phase = "disable" => op = "disable"
      BY <1>1, <2>1 DEF QueueInv
    <3>2. ASSUME Queued(d, "disable") PROVE op = "disable"
      <4>1. PICK k \in 1..Len(txq[b]) : txq[b][k] = <<d, "disable">>
        BY <2>2, <3>2 DEF Queued
      <4>2. txq[b][k][2] = "disable" /\ (k = 1 \/ 1 < k)
        BY <1>1, <2>1, <4>1, QueueTypes
      <4> QED BY <1>1, <2>1, <4>2 DEF QueueInv
    <3> QED BY <3>1, <3>2
  <2> HIDE DEF d, op
  <2>4. CASE UNCHANGED <<enabled, force>>
    BY <2>4
  <2>5. CASE d \in powered /\ Obey(d, op)
    <3>1. /\ force' \in SUBSET force /\ enabled' \in {enabled, enabled \cup {d}, enabled \ {d}}
          /\ op = "disable" => d \notin force'
      BY <1>1, <2>1, <2>5, ObeyIs
    <3>2. CASE d = j
      BY <1>1, <2>3, <3>1, <3>2 DEF ForceInv
    <3>3. CASE d # j
      BY <3>1, <3>3
    <3> QED BY <3>2, <3>3
  <2> QED BY <2>1, <2>4, <2>5
<1>4. DisableAll => UNCHANGED <<enabled, force>>
  BY DEF DisableAll, driverVars
<1>5. LaterSteps => UNCHANGED <<enabled, force>>
  BY <1>1, LaterIs DEF Later, Quiet
<1>6. \A i \in Joint : PowerUp(i) => UNCHANGED <<enabled, force>>
  BY DEF PowerUp
<1> QED BY <1>2, <1>3, <1>4, <1>5, <1>6, StepIs

\* No driver starts to push during boot, whatever the last session left in it.
THEOREM BootIsLimp == Spec => BootGainsNoForce
BY BootInvariant, GainsNoForce, PTL DEF Spec, BootGainsNoForce

\* What the invariant says of the end of boot.
LEMMA LeavesInit == BootInv => BootLeavesInit
<1> SUFFICES ASSUME BootInv, phase = "done", \A b \in Bus : txq[b] = <<>>
             PROVE  Act!Init
  BY DEF BootLeavesInit
<1>1. /\ TypeOK /\ PlaceInv /\ FeedbackInv /\ PowerInv /\ ForceInv /\ EnabledInv /\ SetupInv
      /\ ok \subseteq Joint /\ enabled \subseteq Joint
  BY DEF BootInv, TypeOK
<1>2. \A j \in Joint, o \in Opcodes : ~Queued(j, o)
  <2>1. \A b \in Bus : 1..Len(txq[b]) = {}
    BY EmptySeq
  <2> QED BY <2>1, JointFacts DEF Queued
<1>3. hasFeedback = ok
  <2>1. {j \in ok : j < NoJoint} = ok
    BY <1>1, JointFacts
  <2> QED BY <1>1, <2>1 DEF FeedbackInv, PlaceInv
<1>4. force = {}
  <2>1. force \subseteq Joint /\ "disable" \in Opcodes
    BY <1>1 DEF TypeOK, Opcodes
  <2> QED BY <1>1, <1>2, <2>1 DEF ForceInv
<1>5. ok \subseteq enabled
  BY <1>1, <1>3 DEF EnabledInv, StaysEnabled
<1>6. calibrated = ok
  BY <1>1, <1>2, <1>3 DEF SetupInv, Opcodes
<1>7. \E failed \in SUBSET (Joint \ ok) : enabled = ok \cup failed
  <2>1. enabled \ ok \in SUBSET (Joint \ ok) /\ enabled = ok \cup (enabled \ ok)
    BY <1>1, <1>5
  <2> QED BY <2>1
<1>8. [j \in Joint |-> 0] \in [Joint -> Act!Age]
  BY DEF Act!Age
<1> QED BY <1>1, <1>3, <1>4, <1>6, <1>7, <1>8 DEF Act!Init

\* Whatever answered or did not, boot hands over to the main loop in an initial
\* state of Actuator.
THEOREM BootHandsOver == Spec => []BootLeavesInit
BY BootInvariant, LeavesInit, PTL

\* What the time a joint waits rests on.
ReminderInv == BootInv /\ AckInv /\ WaitInv /\ BacklogInv

\* It holds from the start.
LEMMA ReminderInvInit == Init => ReminderInv
BY BootInvInit, AckInit, WaitInit, BacklogInit DEF ReminderInv

\* It is preserved by every step when a FIFO holds two rounds.
LEMMA ReminderInvNext == RoundsFit /\ ReminderInv /\ [Next]_vars => ReminderInv'
<1> SUFFICES ASSUME RoundsFit, ReminderInv, [Next]_vars PROVE ReminderInv'
  OBVIOUS
<1>1. /\ BootInv /\ AckInv /\ WaitInv /\ BacklogInv
      /\ TypeOK /\ PlaceInv /\ FeedbackInv /\ PowerInv
      /\ QueueInv /\ SetupInv /\ ProbeInv /\ RoomInv
  BY DEF ReminderInv, BootInv
<1>2. BootInv'
  BY <1>1, BootInvNext
<1>3. AckInv'
  BY <1>1, AckNext
<1>4. WaitInv'
  BY <1>1, WaitNext
<1>5. BacklogInv'
  BY <1>1, BacklogNext
<1> QED BY <1>2, <1>3, <1>4, <1>5 DEF ReminderInv

\* Reminders come in time: whichever joints answer, and at whatever point of
\* their timeouts, no joint that is ok waits longer for a MOTOR_ENABLE than all
\* turns of another joint's PING and HANDSHAKE take, or all those of its own HOME
\* and SETUP and of the next joint's HOME, if a FIFO holds two rounds.
THEOREM RemindersAreInTime ==
  ASSUME RoundsFit
  PROVE  Spec => []NoJointStarves
<1>1. RoundsFit
  OBVIOUS
<1>2. ReminderInv /\ [Next]_vars => ReminderInv'
  BY <1>1, ReminderInvNext
<1>3. ReminderInv => NoJointStarves
  BY WaitsAreShort DEF ReminderInv, BootInv
<1> QED BY <1>2, <1>3, ReminderInvInit, PTL DEF Spec
=============================================================================
