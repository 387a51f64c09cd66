--------------------------- MODULE HostLinkProofs ---------------------------
(***************************************************************************)
(* The two directions of the link between host and firmware: joint         *)
(* feedback up, for every set of joints, every pair of timeouts and every  *)
(* latency, and the numbered commands down, for every range of numbers     *)
(* that the timeouts fit into.                                             *)
(***************************************************************************)
EXTENDS JointFeedback, CommandStream, SequenceTheorems, TLAPS

-----------------------------------------------------------------------------
(* JointFeedback. Its typing is inductive because it bounds the age of a   *)
(* sample by where the sample is, and the staleness bound follows.         *)

\* A sample that is one tick older still fits a message that is one tick older.
LEMMA OlderSamples ==
  ASSUME NEW age \in Nat, NEW samples \in Samples(age)
  PROVE  [j \in Joint |-> OlderSample(samples[j])] \in Samples(age + 1)
<1>1. ASSUME NEW j \in Joint
      PROVE  OlderSample(samples[j]) \in NoData..TelemetryTimeout - 1 + (age + 1)
  BY <1>1, FeedbackAssumption DEF Samples, OlderSample, NoData
<1> QED BY <1>1 DEF Samples

\* Feedback without a valid position is well-formed at every age.
LEMMA NoSamples ==
  ASSUME NEW age \in Nat
  PROVE  [j \in Joint |-> NoData] \in Samples(age)
BY FeedbackAssumption DEF Samples, NoData

\* Every message is well-formed while it travels.
LEMMA MessageFields ==
  ASSUME NEW msg \in Message
  PROVE  /\ msg.age \in 0..FbLatency
         /\ msg.samples \in Samples(msg.age)
         /\ msg = [samples |-> msg.samples, age |-> msg.age]
BY DEF Message

\* What PublishJointFb sends is a message.
LEMMA MessageIntro ==
  ASSUME NEW age \in 0..FbLatency, NEW samples \in Samples(age)
  PROVE  [samples |-> samples, age |-> age] \in Message
BY DEF Message

\* A younger sample fits wherever an older one does.
LEMMA SamplesGrow ==
  ASSUME NEW a \in Nat, NEW b \in Nat, a <= b
  PROVE  Samples(a) \subseteq Samples(b)
<1>1. NoData..TelemetryTimeout - 1 + a \subseteq NoData..TelemetryTimeout - 1 + b
  BY FeedbackAssumption DEF NoData
<1> QED BY <1>1 DEF Samples

FbInv == FbTypeOK /\ StalenessIsBounded

\* The invariant holds before the first telemetry.
LEMMA FbInitInv == FbInit => FbInv
<1> SUFFICES ASSUME FbInit PROVE FbInv
  OBVIOUS
<1>1. latest \in Samples(FbLatency + topicAge)
  BY NoSamples, FeedbackAssumption DEF FbInit
<1>2. telemetryAge \in [Joint -> NoData..TelemetryTimeout]
  BY FeedbackAssumption DEF FbInit, NoData
<1>3. position \in [Joint -> Int] /\ StalenessIsBounded
  BY FeedbackAssumption DEF FbInit, StalenessIsBounded, NoData, MaxSample
<1>4. topicAge \in 0..TopicTimeout
  BY FeedbackAssumption DEF FbInit
<1>5. effort \in [Joint -> {"none", "measured", "fake"}]
  BY DEF FbInit
<1> QED BY <1>1, <1>2, <1>3, <1>4, <1>5 DEF FbInit, FbInv, FbTypeOK

\* Every step of the three threads keeps the invariant.
LEMMA FbNextInv == FbInv /\ [FbNext]_fbVars => FbInv'
<1> SUFFICES ASSUME FbInv, [FbNext]_fbVars PROVE FbInv'
  OBVIOUS
<1> USE FeedbackAssumption
<1>1. ASSUME NEW j \in Joint, Telemetry(j) PROVE FbInv'
  BY <1>1 DEF FbInv, FbTypeOK, StalenessIsBounded, Telemetry, NoData, Samples
<1>2. ASSUME NEW j \in Joint, Latch(j) PROVE FbInv'
  BY <1>2 DEF FbInv, FbTypeOK, StalenessIsBounded, Latch, Samples
<1>3. CASE PublishJointFb
  <2> DEFINE samples == [j \in Joint |-> IF j \in Valid THEN telemetryAge[j] ELSE NoData]
  <2>1. samples \in Samples(0)
    BY DEF FbInv, FbTypeOK, Valid, Samples, NoData
  <2>2. [samples |-> samples, age |-> 0] \in Message
    BY <2>1, MessageIntro
  <2>3. fbChannel' \subseteq Message
    BY <1>3, <2>2 DEF PublishJointFb, FbInv, FbTypeOK
  <2> QED BY <1>3, <2>3 DEF FbInv, FbTypeOK, StalenessIsBounded, PublishJointFb, Samples
<1>4. ASSUME NEW msg \in fbChannel, JointFbCallback(msg) PROVE FbInv'
  <2>1. msg.age \in 0..FbLatency /\ msg.samples \in Samples(msg.age)
    BY MessageFields DEF FbInv, FbTypeOK
  <2>2. latest' \in Samples(FbLatency + topicAge')
    BY <1>4, <2>1, SamplesGrow DEF JointFbCallback
  <2> QED BY <1>4, <2>2 DEF FbInv, FbTypeOK, StalenessIsBounded, JointFbCallback
<1>5. ASSUME NEW msg \in fbChannel, LoseFb(msg) PROVE FbInv'
  BY <1>5 DEF FbInv, FbTypeOK, StalenessIsBounded, LoseFb, Samples
<1>6. CASE Configure
  <2>1. latest' \in Samples(FbLatency + topicAge')
    BY <1>6, NoSamples DEF Configure
  <2>2. position' \in [Joint -> Int] /\ StalenessIsBounded'
    BY <1>6 DEF Configure, StalenessIsBounded, NoData, MaxSample
  <2>3. topicAge' \in 0..TopicTimeout
    BY <1>6 DEF Configure
  <2> QED BY <1>6, <2>1, <2>2, <2>3 DEF FbInv, FbTypeOK, Configure
<1>7. CASE Read
  <2>1. ASSUME GotFb, NEW j \in Joint
        PROVE  latest[j] \in Int /\ latest[j] <= MaxSample
    BY <2>1 DEF FbInv, FbTypeOK, GotFb, Samples, NoData, MaxSample
  <2>2. position' \in [Joint -> Int] /\ StalenessIsBounded'
    <3>1. CASE GotFb
      <4>1. position' = latest
        BY <1>7, <3>1 DEF Read
      <4>2. latest \in [Joint -> Int]
        BY DEF FbInv, FbTypeOK, Samples, NoData
      <4> QED BY <4>1, <4>2, <3>1, <2>1 DEF StalenessIsBounded, MaxSample
    <3>2. CASE ~GotFb
      BY <1>7, <3>2 DEF Read, StalenessIsBounded, NoData, MaxSample
    <3> QED BY <3>1, <3>2
  <2> QED BY <1>7, <2>2 DEF FbInv, FbTypeOK, Read, Samples
<1>8. ASSUME NEW driving \in BOOLEAN, Update(driving) PROVE FbInv'
  BY <1>8 DEF FbInv, FbTypeOK, StalenessIsBounded, Update, Samples
<1>9. CASE Tick
  <2>1. fbChannel' \subseteq Message
    <3> SUFFICES ASSUME NEW msg \in fbChannel, msg.age < FbLatency
                 PROVE  OlderMessage(msg) \in Message
      BY <1>9 DEF Tick
    <3>1. msg.age \in 0..FbLatency /\ msg.samples \in Samples(msg.age)
      BY MessageFields DEF FbInv, FbTypeOK
    <3>2. msg.age + 1 \in 0..FbLatency
      BY <3>1
    <3>3. [j \in Joint |-> OlderSample(msg.samples[j])] \in Samples(msg.age + 1)
      BY <3>1, OlderSamples
    <3> QED BY <3>2, <3>3, MessageIntro DEF OlderMessage
  <2>2. topicAge' \in 0..TopicTimeout /\ latest' \in Samples(FbLatency + topicAge')
    <3>1. CASE topicAge < TopicTimeout
      <4>1. latest' = [j \in Joint |-> OlderSample(latest[j])] /\ topicAge' = topicAge + 1
        BY <1>9, <3>1 DEF Tick
      <4>2. latest' \in Samples(FbLatency + topicAge + 1)
        BY <4>1, OlderSamples DEF FbInv, FbTypeOK
      <4> QED BY <4>1, <4>2, <3>1 DEF FbInv, FbTypeOK
    <3>2. CASE ~(topicAge < TopicTimeout)
      BY <1>9, <3>2 DEF Tick, FbInv, FbTypeOK
    <3> QED BY <3>1, <3>2
  <2>3. telemetryAge' \in [Joint -> NoData..TelemetryTimeout]
    BY <1>9 DEF Tick, FbInv, FbTypeOK, OlderSample, NoData
  <2> QED BY <1>9, <2>1, <2>2, <2>3 DEF FbInv, FbTypeOK, StalenessIsBounded, Tick
<1>10. CASE UNCHANGED fbVars
  BY <1>10 DEF FbInv, FbTypeOK, StalenessIsBounded, fbVars, Samples
<1> QED BY <1>1, <1>2, <1>3, <1>4, <1>5, <1>6, <1>7, <1>8, <1>9, <1>10 DEF FbNext

\* Every reachable state is well-typed: in particular no sample in a message,
\* or kept by RealSystem, is older than the timeouts let it be there.
THEOREM FbTypeCorrect == FbSpec => []FbTypeOK
<1>1. FbInv => FbTypeOK
  BY DEF FbInv
<1> QED BY FbInitInv, FbNextInv, <1>1, PTL DEF FbSpec

\* A position the controller gets was sampled by its driver less than the two
\* timeouts plus the latency ago (actuator_if.c:689-690, real_system.cpp:182).
THEOREM FeedbackIsRecent == FbSpec => []StalenessIsBounded
<1>1. FbInv => StalenessIsBounded
  BY DEF FbInv
<1> QED BY FbInitInv, FbNextInv, <1>1, PTL DEF FbSpec

-----------------------------------------------------------------------------
(* CommandStream. First the arithmetic of numbers that wrap.               *)

\* A multiple of R that is closer to zero than R is zero.
LEMMA SmallMultiple ==
  ASSUME NEW R \in Nat \ {0}, NEW q \in Int, -R < R * q, R * q < R
  PROVE  q = 0
<1>1. CASE q >= 1
  <2>1. R * q >= R
    BY <1>1, SMT
  <2> QED BY <2>1
<1>2. CASE q <= -1
  <2>1. R * q <= -R
    BY <1>2, SMT
  <2> QED BY <2>1
<1> QED BY <1>1, <1>2

\* The remainder is the only number below R that is left by a multiple of R.
LEMMA RemainderIs ==
  ASSUME NEW R \in Nat \ {0}, NEW a \in Int, NEW q \in Int, NEW r \in 0..R - 1,
         a = (R * q) + r
  PROVE  a % R = r
<1> DEFINE p == a \div R
<1>1. p \in Int /\ a % R \in 0..R - 1 /\ a = (R * p) + (a % R)
  BY SMT
<1>2. R * (p - q) = r - (a % R)
  BY <1>1, SMT
<1> HIDE DEF p
<1>3. p - q = 0
  BY <1>1, <1>2, SmallMultiple
<1> QED BY <1>1, <1>3, SMT

\* The difference of two stamps, in the width of a stamp, is the difference of
\* the numbers they were made from, if that is below the width.
LEMMA StampDistance ==
  ASSUME NEW R \in Nat \ {0}, NEW a \in Int, NEW b \in Int, a - b \in 0..R - 1
  PROVE  ((a % R) - (b % R)) % R = a - b
<1> DEFINE p == a \div R
           q == b \div R
           ra == a % R
           rb == b % R
           d == ra - rb
<1>1. p \in Int /\ ra \in 0..R - 1 /\ a = (R * p) + ra
  BY SMT
<1>2. q \in Int /\ rb \in 0..R - 1 /\ b = (R * q) + rb
  BY SMT
<1> HIDE DEF p, q, ra, rb
<1>3. R * (q - p) = (R * q) - (R * p) /\ R * q \in Int /\ R * p \in Int
  BY <1>1, <1>2, SMT
<1>4. d \in Int /\ q - p \in Int /\ d = (R * (q - p)) + (a - b)
  BY <1>1, <1>2, <1>3
<1> HIDE DEF d
<1>5. d % R = a - b
  BY <1>4, RemainderIs
<1> QED BY <1>5 DEF d, ra, rb

-----------------------------------------------------------------------------
(* The channel.                                                            *)

Command == [id : Id, age : 0..Latency]

\* What RemoveAt leaves, element by element.
LEMMA RemoveAtElements ==
  ASSUME NEW S, NEW s \in Seq(S), NEW i \in 1..Len(s)
  PROVE  /\ RemoveAt(s, i) \in Seq(S)
         /\ Len(RemoveAt(s, i)) = Len(s) - 1
         /\ \A k \in 1..Len(s) - 1 :
              RemoveAt(s, i)[k] = IF k < i THEN s[k] ELSE s[k + 1]
<1> DEFINE before == SubSeq(s, 1, i - 1)
           after == SubSeq(s, i + 1, Len(s))
<1>1. /\ Len(s) \in Nat
      /\ \A k \in 1..Len(s) : s[k] \in S
  BY LenProperties, ElementOfSeq
<1>2. /\ before \in Seq(S) /\ Len(before) = i - 1
      /\ \A k \in 1..i - 1 : before[k] = s[k]
  <2>1. \A k \in 1..i - 1 : s[k] \in S
    BY <1>1
  <2>2. /\ before \in Seq(S)
        /\ Len(before) = IF 1 <= i - 1 THEN (i - 1) - 1 + 1 ELSE 0
        /\ \A k \in 1..(i - 1) - 1 + 1 : before[k] = s[1 + k - 1]
    BY <1>1, <2>1, SubSeqProperties
  <2> QED BY <1>1, <2>2
<1>3. /\ after \in Seq(S) /\ Len(after) = Len(s) - i
      /\ \A k \in 1..Len(s) - i : after[k] = s[i + k]
  <2>1. \A k \in i + 1..Len(s) : s[k] \in S
    BY <1>1
  <2>2. /\ after \in Seq(S)
        /\ Len(after) = IF i + 1 <= Len(s) THEN Len(s) - (i + 1) + 1 ELSE 0
        /\ \A k \in 1..Len(s) - (i + 1) + 1 : after[k] = s[i + 1 + k - 1]
    BY <1>1, <2>1, SubSeqProperties
  <2> QED BY <1>1, <2>2
<1>4. RemoveAt(s, i) = before \o after
  BY DEF RemoveAt
<1> HIDE DEF before, after
<1>5. /\ before \o after \in Seq(S)
      /\ Len(before \o after) = Len(before) + Len(after)
      /\ \A k \in 1..Len(before) + Len(after) :
           (before \o after)[k] = IF k <= Len(before) THEN before[k] ELSE after[k - Len(before)]
  BY <1>2, <1>3, ConcatProperties
<1> QED BY <1>1, <1>2, <1>3, <1>4, <1>5

\* A command, one period later.
LEMMA OlderCommand ==
  ASSUME NEW cmd \in Command
  PROVE  /\ cmd.age \in 0..Latency /\ cmd.id \in Id
         /\ [cmd EXCEPT !.age = @ + 1] = [id |-> cmd.id, age |-> cmd.age + 1]
         /\ [id |-> cmd.id, age |-> cmd.age + 1] \in [id : Id, age : Nat]
BY StreamAssumption DEF Command

\* A period makes every command one period older; the oldest may be lost.
LEMMA AliveElements ==
  ASSUME channel \in Seq(Command)
  PROVE  /\ Alive \in Seq([id : Id, age : Nat]) /\ Len(Alive) \in Nat
         /\ \E old \in [1..Len(Alive) -> 1..Len(channel)] :
              /\ \A k \in 1..Len(Alive) :
                   Alive[k] = [id |-> channel[old[k]].id, age |-> channel[old[k]].age + 1]
              /\ \A k \in 1..Len(Alive) : old[k] = 1 => channel[1].age # Latency
              /\ \A i, k \in 1..Len(Alive) : i < k => old[i] < old[k]
<1> DEFINE Aged == [id : Id, age : Nat]
           Older1(k) == [id |-> channel[k].id, age |-> channel[k].age + 1]
<1>1. Len(channel) \in Nat /\ \A k \in 1..Len(channel) : channel[k] \in Command
  BY LenProperties, ElementOfSeq
<1>2. \A k \in 1..Len(channel) : Older1(k) \in Aged /\ Older[k] = Older1(k)
  BY <1>1, OlderCommand DEF Older
<1>3. Older \in Seq(Aged) /\ Len(Older) = Len(channel)
  <2>1. Older = [k \in 1..Len(channel) |-> Older[k]]
    BY DEF Older
  <2>2. \A k \in 1..Len(channel) : Older[k] \in Aged
    BY <1>2
  <2> HIDE DEF Aged
  <2>3. [k \in 1..Len(channel) |-> Older[k]] \in Seq(Aged)
    BY <1>1, <2>2, IsASeq
  <2>4. DOMAIN Older = 1..Len(channel)
    BY DEF Older
  <2>5. Older \in Seq(Aged)
    BY <2>1, <2>3
  <2> QED BY <1>1, <2>4, <2>5, LenProperties
<1>4. CASE channel # <<>> /\ channel[1].age = Latency
  <2>1. Alive = Tail(Older)
    BY <1>4 DEF Alive
  <2>2. Len(channel) # 0
    BY <1>4, EmptySeq, <1>1
  <2>3. Older # <<>>
    BY <2>2, <1>3
  <2>4. /\ Tail(Older) \in Seq(Aged)
        /\ Len(Tail(Older)) = Len(Older) - 1
        /\ \A k \in 1..Len(Tail(Older)) : Tail(Older)[k] = Older[k + 1]
    BY <1>3, <2>3, HeadTailProperties
  <2>5. /\ Len(Alive) = Len(channel) - 1 /\ Len(Alive) \in Nat
        /\ \A k \in 1..Len(Alive) : k + 1 \in 1..Len(channel) /\ Alive[k] = Older1(k + 1)
    BY <2>1, <2>2, <2>4, <1>1, <1>2, <1>3
  <2>6. Alive \in Seq(Aged)
    BY <2>1, <2>4
  <2> DEFINE old == [k \in 1..Len(Alive) |-> k + 1]
  <2>7. /\ old \in [1..Len(Alive) -> 1..Len(channel)]
        /\ \A k \in 1..Len(Alive) : Alive[k] = Older1(old[k]) /\ old[k] # 1
        /\ \A i, k \in 1..Len(Alive) : i < k => old[i] < old[k]
    <3> HIDE DEF Older1
    <3> QED BY <2>5
  <2> HIDE DEF old
  <2> QED BY <2>5, <2>6, <2>7
<1>5. CASE ~(channel # <<>> /\ channel[1].age = Latency)
  <2>1. Alive = Older
    BY <1>5 DEF Alive
  <2>2. /\ Len(Alive) = Len(channel) /\ Len(Alive) \in Nat
        /\ \A k \in 1..Len(Alive) : Alive[k] = Older1(k)
    BY <2>1, <1>1, <1>2, <1>3
  <2>3. Alive \in Seq(Aged) /\ (channel # <<>> => channel[1].age # Latency)
    BY <1>3, <1>5, <2>1
  <2> DEFINE old == [k \in 1..Len(Alive) |-> k]
  <2>4. /\ old \in [1..Len(Alive) -> 1..Len(channel)]
        /\ \A k \in 1..Len(Alive) : Alive[k] = Older1(old[k]) /\ old[k] = k
        /\ \A i, k \in 1..Len(Alive) : i < k => old[i] < old[k]
    <3> HIDE DEF Older1
    <3> QED BY <2>2
  <2>5. \A k \in 1..Len(Alive) : old[k] = 1 => channel[1].age # Latency
    <3>1. ASSUME NEW k \in 1..Len(Alive) PROVE channel # <<>>
      BY <2>2, <3>1, <1>1, EmptySeq
    <3> QED BY <2>3, <3>1
  <2> HIDE DEF old
  <2> QED BY <2>2, <2>3, <2>4, <2>5
<1> QED BY <1>4, <1>5

-----------------------------------------------------------------------------
(* The invariant. A number travels with its age: between a command and the *)
(* latest one there are no more numbers than periods have passed, so what  *)
(* bounds ages and silence bounds the distance of two numbers.             *)

\* What is in flight was sent by this process, and not before its number says.
Numbered ==
  \A i \in 1..Len(channel) :
    /\ channel[i].id.process = process /\ channel[i].id.number < sent
    /\ sent <= channel[i].id.number + 1 + channel[i].age
    /\ pause <= channel[i].age

InOrder ==
  \A i, k \in 1..Len(channel) : i < k =>
    channel[i].id.number < channel[k].id.number /\ channel[i].age > channel[k].age

\* A baseline is held only under the watchdog's eyes.
Watched == hasLast => received /\ ~spent /\ connected

\* It is that of a recent command of this process, and behind all in flight.
Baseline ==
  hasLast =>
    /\ silence < CmdTimeout + blocked
    /\ newest.process = process /\ last = Stamp(newest)
    /\ newest.number < sent /\ sent <= newest.number + 1 + Latency + silence
    /\ pause <= Latency + silence
    /\ \A i \in 1..Len(channel) : newest.number < channel[i].id.number

StreamInv == TypeOK /\ Numbered /\ InOrder /\ Watched /\ Baseline /\ CountsAreExact

\* The firmware starts without a baseline and with nothing in flight.
LEMMA StreamInit == Init => StreamInv
<1> SUFFICES ASSUME Init PROVE StreamInv
  OBVIOUS
<1> USE StreamAssumption DEF Init
<1>1. channel \in Seq(Command) /\ Len(channel) = 0
  BY EmptySeq
<1>2. TypeOK
  <2>1. newest \in Id /\ last \in 0..SeqRange - 1
    <3>1. SeqRange # 0
      BY TimeoutsFit DEF Half
    <3> QED BY <3>1 DEF Id
  <2>2. connected \in BOOLEAN /\ hasLast \in BOOLEAN /\ received \in BOOLEAN /\ spent \in BOOLEAN
    BY Zenon
  <2>3. silence \in 0..MaxSilence
    BY DEF MaxSilence
  <2> QED BY <1>1, <2>1, <2>2, <2>3 DEF TypeOK, Command
<1> QED BY <1>1, <1>2 DEF StreamInv, Numbered, InOrder, Watched, Baseline, CountsAreExact

\* The channel is a sequence of commands with typed fields.
LEMMA ChannelTypes ==
  ASSUME TypeOK
  PROVE  /\ channel \in Seq(Command) /\ Len(channel) \in Nat
         /\ \A i \in 1..Len(channel) :
              /\ channel[i] \in Command
              /\ channel[i].age \in 0..Latency /\ channel[i].id \in Id
              /\ channel[i].id.process \in 1..MaxProcess
              /\ channel[i].id.number \in 0..MaxSent
<1>1. channel \in Seq(Command)
  BY DEF TypeOK, Command
<1>2. \A i \in 1..Len(channel) : channel[i] \in Command
  BY <1>1, ElementOfSeq
<1> QED BY <1>1, <1>2, LenProperties, OlderCommand DEF Id

\* What survives a period is young enough to be in flight.
LEMMA AliveTypes ==
  ASSUME TypeOK, InOrder
  PROVE  Alive \in Seq(Command)
<1> USE StreamAssumption
<1>1. Len(Alive) \in Nat /\ Alive \in Seq([id : Id, age : Nat])
  BY ChannelTypes, AliveElements
<1>9. PICK old \in [1..Len(Alive) -> 1..Len(channel)] :
        /\ \A k \in 1..Len(Alive) :
             Alive[k] = [id |-> channel[old[k]].id, age |-> channel[old[k]].age + 1]
        /\ \A k \in 1..Len(Alive) : old[k] = 1 => channel[1].age # Latency
  BY ChannelTypes, AliveElements
<1>2. ASSUME NEW k \in 1..Len(Alive)
      PROVE  Alive[k] \in Command
  <2>1. old[k] \in 1..Len(channel) /\ 1 \in 1..Len(channel)
    BY ChannelTypes
  <2>2. channel[old[k]].age \in 0..Latency /\ channel[1].age \in 0..Latency
    BY <2>1, ChannelTypes
  <2>3. channel[old[k]].age < Latency
    <3>1. CASE old[k] = 1
      BY <1>9, <2>2, <3>1
    <3>2. CASE 1 < old[k]
      <4>1. channel[1].age > channel[old[k]].age
        BY <2>1, <3>2 DEF InOrder
      <4> QED BY <2>2, <4>1
    <3> QED BY <2>1, <3>1, <3>2
  <2>4. channel[old[k]].id \in Id /\ channel[old[k]].age + 1 \in 0..Latency
    BY <2>1, <2>2, <2>3, ChannelTypes
  <2>5. Alive[k] = [id |-> channel[old[k]].id, age |-> channel[old[k]].age + 1]
    BY <1>9
  <2> QED BY <2>4, <2>5 DEF Command
<1>3. Alive = [k \in 1..Len(Alive) |-> Alive[k]]
  BY <1>1, LenProperties
<1>4. [k \in 1..Len(Alive) |-> Alive[k]] \in Seq(Command)
  BY <1>1, <1>2, IsASeq
<1> QED BY <1>3, <1>4

\* A period keeps the invariant, whether the host writes in it or not: every
\* bound on numbers has an age or a silence in it that grows with them.
LEMMA PeriodKeeps ==
  ASSUME StreamInv, NEW write \in BOOLEAN, Period(write)
  PROVE  StreamInv'
<1> DEFINE new == [id |-> [process |-> process, number |-> sent], age |-> 0]
<1>1. /\ process \in 1..MaxProcess /\ sent \in 0..MaxSent /\ pause \in 0..Restart
      /\ silence \in 0..MaxSilence /\ blocked \in 0..SpinBudget
      /\ newest \in Id /\ newest.number \in 0..MaxSent
      /\ CmdTimeout \in Nat /\ SpinBudget \in Nat /\ Latency \in Nat
      /\ Restart \in Nat /\ MaxSent \in Nat
  BY StreamAssumption DEF StreamInv, TypeOK, Id
<1>2. Len(Alive) \in Nat /\ Len(channel) \in Nat
  BY ChannelTypes, AliveElements DEF StreamInv
<1>3. Alive \in Seq(Command)
  BY AliveTypes DEF StreamInv
<1>20. PICK old \in [1..Len(Alive) -> 1..Len(channel)] :
        /\ \A k \in 1..Len(Alive) :
             Alive[k] = [id |-> channel[old[k]].id, age |-> channel[old[k]].age + 1]
        /\ \A i, k \in 1..Len(Alive) : i < k => old[i] < old[k]
  BY ChannelTypes, AliveElements DEF StreamInv
<1>4. ASSUME NEW k \in 1..Len(Alive)
      PROVE  /\ old[k] \in 1..Len(channel)
             /\ Alive[k].id = channel[old[k]].id /\ Alive[k].age = channel[old[k]].age + 1
             /\ channel[old[k]].age \in 0..Latency
             /\ channel[old[k]].id.number \in 0..MaxSent
             /\ channel[old[k]].id.process = process /\ channel[old[k]].id.number < sent
             /\ sent <= channel[old[k]].id.number + 1 + channel[old[k]].age
             /\ pause <= channel[old[k]].age
             /\ hasLast => newest.number < channel[old[k]].id.number
  <2>1. old[k] \in 1..Len(channel)
    BY <1>2
  <2>2. /\ channel[old[k]].age \in 0..Latency
        /\ channel[old[k]].id.number \in 0..MaxSent
    BY <2>1, ChannelTypes DEF StreamInv
  <2>3. Alive[k] = [id |-> channel[old[k]].id, age |-> channel[old[k]].age + 1]
    BY <1>20
  <2>4. Alive[k].id = channel[old[k]].id /\ Alive[k].age = channel[old[k]].age + 1
    BY <2>3
  <2> QED BY <2>1, <2>2, <2>4 DEF StreamInv, Numbered, Baseline
<1>5. ASSUME NEW i \in 1..Len(Alive), NEW k \in 1..Len(Alive), i < k
      PROVE  Alive[i].id.number < Alive[k].id.number /\ Alive[i].age > Alive[k].age
  <2>1. old[i] < old[k]
    BY <1>5, <1>20
  <2>2. channel[old[i]].id.number < channel[old[k]].id.number
        /\ channel[old[i]].age > channel[old[k]].age
    BY <1>4, <2>1 DEF StreamInv, InOrder
  <2>3. /\ Alive[i].id = channel[old[i]].id /\ Alive[i].age = channel[old[i]].age + 1
        /\ channel[old[i]].age \in 0..Latency
    BY <1>4
  <2>4. /\ Alive[k].id = channel[old[k]].id /\ Alive[k].age = channel[old[k]].age + 1
        /\ channel[old[k]].age \in 0..Latency
    BY <1>4
  <2> QED BY <2>2, <2>3, <2>4
<1>6. /\ Len(channel') \in Nat /\ channel' \in Seq(Command)
      /\ \A k \in 1..Len(channel') :
           \/ k \in 1..Len(Alive) /\ channel'[k] = Alive[k]
           \/ write /\ k = Len(Alive) + 1 /\ channel'[k] = new
  <2>1. CASE write
    <3>1. new \in Command
      BY <1>1 DEF Command, Id
    <3>2. channel' = Append(Alive, new)
      BY <2>1 DEF Period
    <3>3. /\ channel' \in Seq(Command) /\ Len(channel') = Len(Alive) + 1
          /\ \A k \in 1..Len(Alive) : channel'[k] = Alive[k]
          /\ channel'[Len(Alive) + 1] = new
      BY <1>3, <3>1, <3>2, AppendProperties
    <3> HIDE DEF new
    <3> QED BY <1>2, <2>1, <3>3
  <2>2. CASE ~write
    <3>1. channel' = Alive
      BY <2>2 DEF Period
    <3> QED BY <1>2, <1>3, <3>1
  <2> QED BY <2>1, <2>2
<1>7. /\ pause' \in 0..Restart /\ sent' \in 0..MaxSent
      /\ IF write THEN sent' = sent + 1 /\ pause' = 0
                  ELSE sent' = sent /\ pause' <= pause + 1
  BY <1>1 DEF Period
<1>8. TypeOK'
  <2>1. silence' \in 0..MaxSilence /\ blocked' \in 0..SpinBudget
    BY <1>1 DEF Period, MaxSilence, StreamInv, TypeOK
  <2> QED BY <1>6, <1>7, <2>1 DEF StreamInv, TypeOK, Command, Period, seqVars, counters, history
<1>9. Numbered'
  <2> SUFFICES ASSUME NEW k \in 1..Len(channel')
               PROVE  /\ channel'[k].id.process = process' /\ channel'[k].id.number < sent'
                      /\ sent' <= channel'[k].id.number + 1 + channel'[k].age
                      /\ pause' <= channel'[k].age
    BY DEF Numbered
  <2>1. process' = process
    BY DEF Period
  <2>2. CASE k \in 1..Len(Alive) /\ channel'[k] = Alive[k]
    <3> DEFINE n == channel[old[k]].id.number
               a == channel[old[k]].age
    <3>1. /\ channel'[k].id.process = process
          /\ channel'[k].id.number = n /\ channel'[k].age = a + 1
      BY <1>4, <2>2
    <3>2. /\ a \in Nat /\ n \in Nat
          /\ n < sent /\ sent <= n + 1 + a /\ pause <= a
      BY <1>1, <1>4, <2>2
    <3>3. /\ sent' <= sent + 1 /\ sent <= sent' /\ pause' <= pause + 1
          /\ sent' \in Nat /\ pause' \in Nat
      BY <1>1, <1>7
    <3> HIDE DEF n, a
    <3>4. n < sent' /\ sent' <= n + 1 + (a + 1) /\ pause' <= a + 1
      BY <1>1, <3>2, <3>3
    <3> QED BY <2>1, <3>1, <3>4
  <2>3. CASE write /\ channel'[k] = new
    BY <1>1, <1>7, <2>1, <2>3
  <2> QED BY <1>6, <2>2, <2>3
<1>10. InOrder'
  <2> SUFFICES ASSUME NEW i \in 1..Len(channel'), NEW k \in 1..Len(channel'), i < k
               PROVE  channel'[i].id.number < channel'[k].id.number
                      /\ channel'[i].age > channel'[k].age
    BY DEF InOrder
  <2>1. i \in 1..Len(Alive) /\ channel'[i] = Alive[i]
    BY <1>2, <1>6
  <2>2. CASE k \in 1..Len(Alive) /\ channel'[k] = Alive[k]
    BY <1>5, <2>1, <2>2
  <2>3. CASE channel'[k] = new
    <3>1. /\ channel'[i].id = channel[old[i]].id /\ channel'[i].age = channel[old[i]].age + 1
          /\ channel[old[i]].age \in 0..Latency /\ channel[old[i]].id.number < sent
      BY <1>4, <2>1
    <3>2. channel'[k].id.number = sent /\ channel'[k].age = 0
      BY <2>3
    <3> QED BY <3>1, <3>2
  <2> QED BY <1>6, <2>2, <2>3
<1>11. Watched'
  BY DEF StreamInv, Watched, Period, seqVars
<1>12. Baseline'
  <2> SUFFICES ASSUME hasLast
               PROVE  /\ silence' < CmdTimeout + blocked'
                      /\ newest.process = process /\ last = Stamp(newest)
                      /\ newest.number < sent' /\ sent' <= newest.number + 1 + Latency + silence'
                      /\ pause' <= Latency + silence'
                      /\ \A i \in 1..Len(channel') : newest.number < channel'[i].id.number
    BY DEF Baseline, Period, seqVars, history, Stamp
  <2>1. /\ silence < CmdTimeout + blocked
        /\ newest.process = process /\ last = Stamp(newest)
        /\ newest.number < sent /\ sent <= newest.number + 1 + Latency + silence
        /\ pause <= Latency + silence
    BY DEF StreamInv, Baseline
  <2>2. silence' = silence + 1 /\ blocked' = blocked + 1
    <3>1. connected
      BY DEF StreamInv, Watched
    <3>2. blocked < SpinBudget
      BY <3>1 DEF Period
    <3> QED BY <1>1, <2>1, <3>1, <3>2 DEF Period, MaxSilence
  <2>3. ASSUME NEW i \in 1..Len(channel')
        PROVE  newest.number < channel'[i].id.number
    <3>1. CASE i \in 1..Len(Alive) /\ channel'[i] = Alive[i]
      BY <1>4, <3>1
    <3>2. CASE channel'[i] = new
      BY <2>1, <3>2
    <3> QED BY <1>6, <3>1, <3>2
  <2>4. /\ sent' <= sent + 1 /\ sent <= sent' /\ pause' <= pause + 1
        /\ sent' \in Nat /\ pause' \in Nat
    BY <1>1, <1>7
  <2> DEFINE n == newest.number
  <2>5. /\ n \in Nat /\ n < sent /\ sent <= n + 1 + Latency + silence
        /\ silence < CmdTimeout + blocked /\ pause <= Latency + silence
    BY <1>1, <2>1
  <2> HIDE DEF n
  <2>6. /\ silence' < CmdTimeout + blocked'
        /\ n < sent' /\ sent' <= n + 1 + Latency + silence'
        /\ pause' <= Latency + silence'
    BY <1>1, <2>2, <2>4, <2>5
  <2> QED BY <2>1, <2>3, <2>6 DEF n
<1>13. CountsAreExact'
  BY DEF StreamInv, CountsAreExact, Period, counters, history
<1> QED BY <1>8, <1>9, <1>10, <1>11, <1>12, <1>13 DEF StreamInv

\* The head of the channel and what is behind it.
LEMMA HeadOfChannel ==
  ASSUME TypeOK, channel # <<>>
  PROVE  /\ 1 \in 1..Len(channel) /\ Head(channel) = channel[1]
         /\ Tail(channel) \in Seq(Command) /\ Len(Tail(channel)) = Len(channel) - 1
         /\ \A k \in 1..Len(Tail(channel)) :
              k + 1 \in 1..Len(channel) /\ Tail(channel)[k] = channel[k + 1]
<1>1. channel \in Seq(Command) /\ Len(channel) \in Nat
  BY ChannelTypes
<1>2. Len(channel) \in Nat \ {0}
  BY <1>1, EmptySeq
<1>3. /\ Tail(channel) \in Seq(Command) /\ Len(Tail(channel)) = Len(channel) - 1
      /\ \A k \in 1..Len(Tail(channel)) : Tail(channel)[k] = channel[k + 1]
  BY <1>1, HeadTailProperties
<1>4. Head(channel) = channel[1]
  BY <1>1
<1> QED BY <1>2, <1>3, <1>4

\* What remains of the channel is in the same order: the part of the invariant
\* that speaks of each command in flight, for a channel that lost one.
LEMMA Shorter ==
  ASSUME StreamInv, NEW rest \in Seq(Command), Len(rest) \in Nat,
         NEW old \in [1..Len(rest) -> 1..Len(channel)],
         \A k \in 1..Len(rest) : rest[k] = channel[old[k]],
         \A i, k \in 1..Len(rest) : i < k => old[i] < old[k],
         channel' = rest, UNCHANGED <<process, sent, pause>>
  PROVE  Numbered' /\ InOrder'
<1>1. \A k \in 1..Len(rest) : old[k] \in 1..Len(channel)
  OBVIOUS
<1>2. Numbered'
  BY <1>1 DEF StreamInv, Numbered
<1>3. InOrder'
  BY <1>1 DEF StreamInv, InOrder
<1> QED BY <1>2, <1>3

\* A loss changes only the channel.
LEMMA LoseKeeps ==
  ASSUME StreamInv, NEW i \in 1..Len(channel), Lose(i)
  PROVE  StreamInv'
<1> DEFINE rest == RemoveAt(channel, i)
           old == [k \in 1..Len(rest) |-> IF k < i THEN k ELSE k + 1]
<1>1. channel \in Seq(Command) /\ Len(channel) \in Nat
  BY ChannelTypes DEF StreamInv
<1>2. /\ rest \in Seq(Command) /\ Len(rest) = Len(channel) - 1
      /\ \A k \in 1..Len(channel) - 1 :
           rest[k] = IF k < i THEN channel[k] ELSE channel[k + 1]
  BY <1>1, RemoveAtElements
<1>3. channel' = rest /\ UNCHANGED <<hostVars, connected, seqVars, watchVars, blocked, counters, history>>
  BY DEF Lose
<1> HIDE DEF rest
<1>4. /\ Len(rest) \in Nat /\ old \in [1..Len(rest) -> 1..Len(channel)]
      /\ \A k \in 1..Len(rest) : rest[k] = channel[old[k]]
      /\ \A m, k \in 1..Len(rest) : m < k => old[m] < old[k]
  BY <1>1, <1>2
<1> HIDE DEF old
<1>5. UNCHANGED <<process, sent, pause>>
  BY <1>3 DEF hostVars
<1>6. Numbered' /\ InOrder'
  BY <1>2, <1>3, <1>4, <1>5, Shorter
<1>7. TypeOK'
  BY <1>2, <1>3
     DEF StreamInv, TypeOK, Command, hostVars, seqVars, watchVars, counters, history
<1>8. Watched' /\ CountsAreExact'
  BY <1>3 DEF StreamInv, Watched, CountsAreExact, seqVars, watchVars, counters, history
<1>9. Baseline'
  <2>1. hasLast => \A k \in 1..Len(rest) : newest.number < rest[k].id.number
    BY <1>4 DEF StreamInv, Baseline
  <2> QED BY <1>3, <2>1
       DEF StreamInv, Baseline, Stamp, hostVars, seqVars, watchVars, counters, history
<1> QED BY <1>6, <1>7, <1>8, <1>9 DEF StreamInv

\* A host that starts again was silent for longer than a command may travel or
\* a baseline be kept.
LEMMA RestartKeeps ==
  ASSUME StreamInv, HostRestarts
  PROVE  StreamInv' /\ channel = <<>> /\ ~hasLast
<1> USE StreamAssumption
<1>1. pause = Restart /\ Latency < Restart /\ CmdTimeout + SpinBudget + Latency < Restart
  BY TimeoutsFit DEF HostRestarts
<1>2. channel \in Seq(Command) /\ Len(channel) = 0 /\ channel = <<>>
  <2>1. ASSUME 1 \in 1..Len(channel) PROVE FALSE
    <3>1. pause <= channel[1].age /\ channel[1].age \in 0..Latency
      BY <2>1, ChannelTypes DEF StreamInv, Numbered
    <3> QED BY <1>1, <3>1
  <2>2. channel \in Seq(Command) /\ Len(channel) \in Nat
    BY ChannelTypes DEF StreamInv
  <2>3. Len(channel) = 0
    BY <2>1, <2>2
  <2> QED BY <2>2, <2>3, EmptySeq
<1>3. ~hasLast
  <2>1. silence \in Nat /\ blocked \in 0..SpinBudget
    BY DEF StreamInv, TypeOK
  <2> QED BY <1>1, <2>1 DEF StreamInv, Baseline
<1>4. TypeOK'
  BY DEF StreamInv, TypeOK, HostRestarts, seqVars, watchVars, counters, history
<1>5. channel' = channel /\ hasLast' = hasLast
  BY DEF HostRestarts, seqVars
<1>6. CountsAreExact'
  BY DEF StreamInv, CountsAreExact, HostRestarts, counters, history
<1>7. Numbered' /\ InOrder' /\ Watched' /\ Baseline'
  BY <1>2, <1>3, <1>5 DEF Numbered, InOrder, Watched, Baseline
<1> QED BY <1>2, <1>3, <1>4, <1>6, <1>7 DEF StreamInv

\* A turn without a command drops the baseline, or finds it still watched.
LEMMA IdleKeeps ==
  ASSUME StreamInv, Idle
  PROVE  StreamInv'
<1> USE StreamAssumption
<1>1. TypeOK'
  BY DEF StreamInv, TypeOK, Idle, hostVars, counters, history
<1>2. Numbered' /\ InOrder' /\ CountsAreExact'
  BY DEF StreamInv, Numbered, InOrder, CountsAreExact, Idle, hostVars, counters, history
<1>3. hasLast' =>
        hasLast /\ received /\ ~spent /\ connected' /\ ~(silence >= CmdTimeout) /\ ~spent'
  BY DEF StreamInv, Watched, Idle, NewBaseline
<1>4. Watched'
  BY <1>3 DEF Watched, Idle
<1>5. Baseline'
  <2>1. silence' = silence /\ blocked' = 0 /\ silence \in Nat
    BY DEF Idle, StreamInv, TypeOK
  <2>2. hasLast' => silence' < CmdTimeout + blocked'
    BY <1>3, <2>1
  <2> QED BY <1>3, <2>2
       DEF StreamInv, Baseline, Stamp, Idle, hostVars, counters, history
<1> QED BY <1>1, <1>2, <1>4, <1>5 DEF StreamInv

\* A command that finds a baseline is ahead of it by the distance of their
\* numbers, which is at most half the range of the stamps: so the firmware
\* books exactly what is missing in between.
LEMMA Booked ==
  ASSUME StreamInv, hasLast, channel # <<>>, Account(Stamp(channel[1].id))
  PROVE  /\ channel[1].id.process = newest.process
         /\ channel[1].id.number - newest.number \in Nat \ {0}
         /\ hasLast' = hasLast /\ last' = Stamp(channel[1].id)
         /\ gaps' = gaps + (channel[1].id.number - newest.number - 1)
         /\ duplicates' = duplicates /\ outOfOrder' = outOfOrder
<1> DEFINE n == channel[1].id.number
           m == newest.number
           seq == Stamp(channel[1].id)
<1>1. 1 \in 1..Len(channel)
  BY HeadOfChannel DEF StreamInv
<1>2. n \in Nat /\ m \in Nat /\ sent \in Nat /\ silence \in Nat /\ blocked \in 0..SpinBudget
  BY <1>1, ChannelTypes, StreamAssumption DEF StreamInv, TypeOK, Id
<1>3. n < sent /\ channel[1].id.process = newest.process
  BY <1>1 DEF StreamInv, Numbered, Baseline
<1>4. m < n /\ sent <= m + 1 + Latency + silence /\ silence < CmdTimeout + blocked
  BY <1>1 DEF StreamInv, Baseline
<1>5. Half \in Nat /\ Half < SeqRange /\ SeqRange \in Nat \ {0} /\ 0 < Half
  BY StreamAssumption, TimeoutsFit DEF Half
<1>6. n - m \in 1..Half
  <2>1. CmdTimeout \in Nat /\ SpinBudget \in Nat /\ Latency \in Nat
        /\ CmdTimeout + SpinBudget + Latency <= Half
    BY StreamAssumption, TimeoutsFit
  <2> HIDE DEF n, m
  <2> QED BY <1>2, <1>3, <1>4, <1>5, <2>1
<1>7. Delta(seq) = n - m
  <2>1. last = m % SeqRange /\ seq = n % SeqRange
    BY DEF StreamInv, Baseline, Stamp
  <2>2. ((n % SeqRange) - (m % SeqRange)) % SeqRange = n - m
    <3> HIDE DEF n, m
    <3>1. n \in Int /\ m \in Int /\ n - m \in 0..SeqRange - 1
      BY <1>2, <1>5, <1>6
    <3>2. SeqRange \in Nat \ {0}
      BY <1>5
    <3> QED BY <3>1, <3>2, StampDistance
  <2> HIDE DEF n, m, seq
  <2> QED BY <2>1, <2>2 DEF Delta
<1>8. Delta(seq) # 0 /\ Delta(seq) <= Half
  <2> HIDE DEF n, m, seq
  <2> QED BY <1>5, <1>6, <1>7
<1>9. /\ hasLast' = hasLast /\ last' = seq /\ gaps' = gaps + Gap(Delta(seq))
      /\ duplicates' = duplicates /\ outOfOrder' = outOfOrder
  <2>1. Account(seq)
    OBVIOUS
  <2> HIDE DEF n, m, seq
  <2> QED BY <1>8, <2>1 DEF Account
<1>10. gaps' = gaps + (n - m - 1) /\ n - m \in Nat \ {0}
  <2> HIDE DEF n, m, seq
  <2> QED BY <1>6, <1>7, <1>9 DEF Gap
<1> QED BY <1>3, <1>9, <1>10

\* A command becomes the baseline. The age that it arrives with takes over, as
\* the bound on what was sent since, from the silence before it.
LEMMA ReceiveKeeps ==
  ASSUME StreamInv, Receive
  PROVE  StreamInv'
<1> DEFINE id == channel[1].id
           rest == Tail(channel)
           old == [k \in 1..Len(rest) |-> k + 1]
<1>1. /\ channel # <<>> /\ connected /\ Account(Stamp(Head(channel).id))
      /\ Remember(Head(channel).id) /\ channel' = rest
      /\ silence' = 0 /\ received' = TRUE /\ spent' = FALSE /\ blocked' = 0
      /\ UNCHANGED <<process, sent, pause, connected>>
  BY DEF Receive, hostVars
<1>2. /\ 1 \in 1..Len(channel) /\ Head(channel) = channel[1]
      /\ rest \in Seq(Command) /\ Len(rest) = Len(channel) - 1
      /\ \A k \in 1..Len(rest) : k + 1 \in 1..Len(channel) /\ rest[k] = channel[k + 1]
  BY <1>1, HeadOfChannel DEF StreamInv
<1>3. Len(channel) \in Nat /\ id \in Id /\ id.number \in Nat /\ channel[1].age \in 0..Latency
  BY <1>2, ChannelTypes, StreamAssumption DEF StreamInv
<1>4. Account(Stamp(id)) /\ Remember(id)
  BY <1>1, <1>2
<1> HIDE DEF rest
<1>5. /\ Len(rest) \in Nat /\ old \in [1..Len(rest) -> 1..Len(channel)]
      /\ \A k \in 1..Len(rest) : rest[k] = channel[old[k]] /\ old[k] > 1
      /\ \A m, k \in 1..Len(rest) : m < k => old[m] < old[k]
  BY <1>2, <1>3
<1> HIDE DEF old
<1>6. Numbered' /\ InOrder'
  BY <1>1, <1>2, <1>5, Shorter
<1>7. hasLast' = TRUE /\ last' = Stamp(id)
  <2>1. CASE hasLast
    BY <1>1, <1>4, <2>1, Booked
  <2>2. CASE ~hasLast
    BY <1>4, <2>2 DEF Account
  <2> QED BY <2>1, <2>2
<1>8. CountsAreExact' /\ gaps' \in Nat /\ missing' \in Nat
  <2>1. CountsAreExact /\ gaps \in Nat /\ missing \in Nat
    BY DEF StreamInv, TypeOK
  <2>2. CASE hasLast
    <3>1. /\ id.process = newest.process /\ id.number - newest.number \in Nat \ {0}
          /\ gaps' = gaps + (id.number - newest.number - 1)
          /\ duplicates' = duplicates /\ outOfOrder' = outOfOrder
      BY <1>1, <1>4, <2>2, Booked
    <3>2. missing' = missing + (id.number - newest.number - 1)
      BY <1>4, <2>2, <3>1 DEF Remember
    <3> QED BY <2>1, <3>1, <3>2 DEF CountsAreExact
  <2>3. CASE ~hasLast
    BY <1>4, <2>1, <2>3 DEF Account, Remember, counters, CountsAreExact
  <2> QED BY <2>2, <2>3
<1>9. newest' = id
  BY <1>4 DEF Remember
<1>10. TypeOK'
  <2>1. last' \in 0..SeqRange - 1
    <3>1. SeqRange \in Nat \ {0}
      BY StreamAssumption, TimeoutsFit DEF Half
    <3> HIDE DEF id
    <3> QED BY <1>3, <1>7, <3>1 DEF Stamp
  <2>2. duplicates' \in Nat /\ outOfOrder' \in Nat
    BY <1>8 DEF CountsAreExact
  <2>3. silence' \in 0..MaxSilence /\ blocked' \in 0..SpinBudget
    BY <1>1, StreamAssumption DEF MaxSilence
  <2>4. received' \in BOOLEAN /\ spent' \in BOOLEAN /\ hasLast' \in BOOLEAN
    BY <1>1, <1>7, Zenon
  <2>5. process' \in 1..MaxProcess /\ sent' \in 0..MaxSent /\ pause' \in 0..Restart /\ connected' \in BOOLEAN
    BY <1>1 DEF StreamInv, TypeOK
  <2> HIDE DEF id
  <2> QED BY <1>1, <1>2, <1>3, <1>8, <1>9, <2>1, <2>2, <2>3, <2>4, <2>5 DEF TypeOK, Command
<1>11. Watched'
  BY <1>1 DEF Watched
<1>12. Baseline'
  <2>1. /\ id.process = process /\ id.number < sent
        /\ sent <= id.number + 1 + channel[1].age /\ pause <= channel[1].age
    BY <1>2 DEF StreamInv, Numbered
  <2>2. \A k \in 1..Len(rest) : id.number < rest[k].id.number
    BY <1>2, <1>5 DEF StreamInv, InOrder
  <2>3. sent \in Nat /\ pause \in Nat /\ Latency \in Nat /\ CmdTimeout \in Nat \ {0}
    BY StreamAssumption DEF StreamInv, TypeOK
  <2> DEFINE n == id.number
             a == channel[1].age
  <2>4. n \in Nat /\ a \in 0..Latency /\ n < sent /\ sent <= n + 1 + a /\ pause <= a
    BY <1>3, <2>1
  <2> HIDE DEF n, a
  <2>5. n < sent /\ sent <= n + 1 + Latency + 0 /\ pause <= Latency + 0 /\ 0 < CmdTimeout + 0
    BY <2>3, <2>4
  <2>6. n = id.number
    BY DEF n
  <2> HIDE DEF id
  <2> QED BY <1>1, <1>7, <1>9, <2>1, <2>2, <2>5, <2>6 DEF Baseline, Stamp
<1> QED BY <1>6, <1>8, <1>10, <1>11, <1>12 DEF StreamInv

-----------------------------------------------------------------------------

\* Every step of host, transport and firmware keeps the invariant.
LEMMA StreamNext == StreamInv /\ [Next]_vars => StreamInv'
<1> SUFFICES ASSUME StreamInv, [Next]_vars PROVE StreamInv'
  OBVIOUS
<1>1. CASE UNCHANGED vars
  BY <1>1 DEF StreamInv, TypeOK, Numbered, InOrder, Watched, Baseline, CountsAreExact, Stamp,
     vars, hostVars, seqVars, watchVars, counters, history
<1> QED
  BY <1>1, PeriodKeeps, RestartKeeps, LoseKeeps, ReceiveKeeps, IdleKeeps DEF Next

\* Every reachable state of the command stream is well typed.
THEOREM TypeCorrect == Spec => []TypeOK
<1>1. StreamInv => TypeOK
  BY DEF StreamInv
<1> QED BY StreamInit, StreamNext, <1>1, PTL DEF Spec

\* Through wrap-around, losses, blocked spins, lost sessions and restarts of
\* the host, the counters of /joint_diag are exact, for every range of numbers
\* and all timeouts that fit into half of it (microros_bridge.c:100-129).
THEOREM DiagnosticsAreExact == Spec => []CountsAreExact
<1>1. StreamInv => CountsAreExact
  BY DEF StreamInv
<1> QED BY StreamInit, StreamNext, <1>1, PTL DEF Spec

\* A command is never compared with one of another process of the host
\* (main.c:512-515).
THEOREM BaselineSurvivesNoRestart == Spec => BaselineIsOfOneProcess
<1>1. StreamInv /\ [Next]_vars =>
        [hasLast /\ newest' # newest => newest'.process = newest.process]_vars
  <2> SUFFICES ASSUME StreamInv, Next, hasLast, newest' # newest
               PROVE  newest'.process = newest.process
    OBVIOUS
  <2>1. Receive
    BY DEF Next, Period, HostRestarts, Lose, Idle, history
  <2>2. /\ channel # <<>> /\ Account(Stamp(Head(channel).id)) /\ newest' = Head(channel).id
    BY <2>1 DEF Receive, Remember
  <2>3. Head(channel) = channel[1]
    BY <2>2, HeadOfChannel DEF StreamInv
  <2> QED BY <2>2, <2>3, Booked
<1> QED BY StreamInit, StreamNext, <1>1, PTL DEF Spec, BaselineIsOfOneProcess
=============================================================================
