--------------------------- MODULE ImuPathProofs ---------------------------
(***************************************************************************)
(* The safety properties of the IMU's path, for all of its constants.      *)
(***************************************************************************)
EXTENDS ImuPath, TLAPS

-----------------------------------------------------------------------------
(* The inductive invariant. A message carries the longest motion since the *)
(* message before it. If both were taken at rest, that motion lies between *)
(* them, so it is shorter than the difference of their ages. The message   *)
(* before the first one on the wire is the one the filter saw last.        *)

Collecting == count > 0 /\ ~calibrated

\* The motion before m, if the message before it was taken at rest.
Linked(age, m) == m.robot = "still" => m.worst = 0 \/ m.worst < age - m.age

\* The same for the message that has not been sent yet.
Since(age) == worst <= age /\ (robot = "still" => worst = 0 \/ worst < age)

MotionInv == run <= worst /\ (robot = "still" => run = 0)

WireInv ==
  /\ \A i \in 1 .. Len(wire) - 1 : wire[i].robot = "still" => Linked(wire[i].age, wire[i + 1])
  /\ Collecting /\ wire # <<>> => Linked(lastAge, wire[1])
  /\ Collecting /\ wire = <<>> => Since(lastAge)
  /\ wire # <<>> => (wire[Len(wire)].robot = "still" => Since(wire[Len(wire)].age))

BiasInv ==
  /\ count > 0 => haveStamp
  /\ BiasIsOfStillness

AgeInv == hasData /\ imuAge < FreshFor => sampleAge <= imuAge + Latency

IInv == TypeOK /\ MotionInv /\ WireInv /\ BiasInv /\ AgeInv

\* The constants, one by one.
LEMMA Positive ==
  /\ MaxErrors \in Nat \ {0} /\ RetryPeriod \in Nat \ {0} /\ Samples \in Nat \ {0}
  /\ MaxGap \in Nat \ {0} /\ Latency \in Nat \ {0} /\ FreshFor \in Nat \ {0}
BY ImuAssumption

\* The invariant holds at power-on.
LEMMA InitInv == Init => IInv
<1> SUFFICES ASSUME Init PROVE IInv
  OBVIOUS
<1>1. /\ imuReady \in BOOLEAN /\ sampled \in BOOLEAN
      /\ calm \in BOOLEAN /\ haveStamp \in BOOLEAN /\ calibrated \in BOOLEAN
      /\ hasData \in BOOLEAN
  BY Zenon DEF Init
<1>2. TypeOK
  BY <1>1, Positive DEF Init, TypeOK, MaxAge, MaxSampleAge
<1>3. MotionInv /\ WireInv /\ BiasInv /\ AgeInv
  BY Positive DEF Init, MotionInv, WireInv, Collecting, BiasInv, BiasIsOfStillness, AgeInv
<1> QED
  BY <1>2, <1>3 DEF IInv

-----------------------------------------------------------------------------
(* The main loop.                                                          *)

\* Whatever it publishes, the wire stays in order.
LEMMA PublishStep ==
  ASSUME IInv, NEW status \in {"ok", "error"}, Publish(status),
         UNCHANGED <<filterVars, robot, run>>
  PROVE  /\ wire' \in Seq(Messages) /\ worst' \in 0 .. MaxGap
         /\ MotionInv' /\ WireInv' /\ BiasInv'
<1> DEFINE m == [age |-> 0, status |-> status, robot |-> robot, worst |-> worst]
<1> USE DEF IInv, filterVars, Collecting
<1>0. UNCHANGED <<count, calibrated, blind, haveStamp, lastAge, robot, run>>
  OBVIOUS
<1>1. CASE UNCHANGED <<wire, worst>>
  BY <1>0, <1>1 DEF TypeOK, MotionInv, WireInv, BiasInv, BiasIsOfStillness, Since
<1>2. CASE wire' = Append(wire, m) /\ worst' = run
  <2>1. m \in Messages
    BY Positive DEF Messages, TypeOK
  <2>2. wire \in Seq(Messages) /\ run \in 0 .. MaxGap
    BY DEF TypeOK
  <2>3. wire' \in Seq(Messages)
    BY <1>2, <2>1, <2>2
  <2>4. /\ Len(wire') = Len(wire) + 1 /\ wire'[Len(wire')] = m
        /\ \A i \in 1 .. Len(wire) : wire'[i] = wire[i]
    BY <1>2, <2>1, <2>2
  <2>5. MotionInv'
    BY <1>0, <1>2, <2>2 DEF MotionInv
  <2>6. ASSUME NEW age \in Nat, Since(age) PROVE Linked(age, m)
    BY <2>6 DEF Since, Linked
  <2>7. m.robot = "still" => Since(0)'
    BY <1>0, <1>2, <2>2 DEF MotionInv, Since
  <2>8. /\ lastAge \in Nat
        /\ wire # <<>> => Len(wire) \in 1 .. Len(wire) /\ wire[Len(wire)].age \in Nat
    <3>1. lastAge \in Nat
      BY Positive DEF TypeOK, MaxAge
    <3>2. wire # <<>> => Len(wire) \in 1 .. Len(wire) /\ wire[Len(wire)] \in Messages
      BY <2>2
    <3> QED
      BY <3>1, <3>2, Positive DEF Messages
  <2>9. WireInv'
    BY <1>0, <2>2, <2>3, <2>4, <2>6, <2>7, <2>8 DEF WireInv
  <2> QED
    BY <1>0, <1>2, <2>2, <2>3, <2>5, <2>9 DEF BiasInv, BiasIsOfStillness
<1> QED
  BY <1>1, <1>2 DEF Publish

\* A turn of the main loop keeps the invariant.
LEMMA PollNext == IInv /\ Poll => IInv'
<1> SUFFICES ASSUME IInv, Poll PROVE IInv'
  OBVIOUS
<1>1. UNCHANGED <<filterVars, stateVars, sensor, robot, run, calm>>
  BY DEF Poll, ReadOk, ReadFails, Retry, NoTurn, bodyVars
<1>2. \/ UNCHANGED <<wire, worst>>
      \/ \E status \in {"ok", "error"} : Publish(status)
  BY DEF Poll, ReadOk, ReadFails, Retry, NoTurn, bodyVars
<1>3. /\ wire' \in Seq(Messages) /\ worst' \in 0 .. MaxGap
      /\ MotionInv' /\ WireInv' /\ BiasInv'
  <2>1. CASE UNCHANGED <<wire, worst>>
    BY <1>1, <2>1 DEF IInv, TypeOK, MotionInv, WireInv, Collecting, Since, BiasInv,
                      BiasIsOfStillness, filterVars
  <2> QED
    BY <1>1, <1>2, <2>1, PublishStep
<1>4. AgeInv'
  BY <1>1 DEF IInv, AgeInv, stateVars
<1>5. /\ errors' \in 0 .. MaxErrors /\ (imuReady' => errors' < MaxErrors)
      /\ sinceRetry' \in 0 .. RetryPeriod
  BY Positive DEF Poll, ReadOk, ReadFails, Retry, NoTurn, IInv, TypeOK
<1>6. imuReady' \in BOOLEAN
  <2>1. imuReady' = TRUE \/ imuReady' = FALSE \/ imuReady' = imuReady
    BY DEF Poll, ReadOk, ReadFails, Retry, NoTurn
  <2>2. imuReady \in BOOLEAN
    BY DEF IInv, TypeOK
  <2> QED
    BY <2>1, <2>2, Zenon
<1>7. sampled' \in BOOLEAN
  <2>1. sampled' = TRUE
    BY DEF Poll, ReadOk, ReadFails, Retry, NoTurn, Turn
  <2> QED
    BY <2>1, Zenon
<1>8. TypeOK'
  BY <1>1, <1>3, <1>5, <1>6, <1>7 DEF IInv, TypeOK, filterVars, stateVars
<1> QED
  BY <1>3, <1>4, <1>8 DEF IInv

-----------------------------------------------------------------------------
(* The filter.                                                             *)

\* What the oldest message on the wire and the rest are like.
LEMMA HeadStep ==
  ASSUME IInv, wire # <<>>
  PROVE  /\ Head(wire) \in Messages /\ Head(wire) = wire[1]
         /\ Tail(wire) \in Seq(Messages) /\ Len(Tail(wire)) = Len(wire) - 1
         /\ \A i \in 1 .. Len(wire) - 1 : Tail(wire)[i] = wire[i + 1]
         /\ Len(wire) \in Nat \ {0}
BY DEF IInv, TypeOK

\* The message that is received takes the place of the last one seen.
LEMMA WireStep ==
  ASSUME IInv, wire # <<>>, wire' = Tail(wire), UNCHANGED bodyVars,
         Collecting' => Head(wire).robot = "still" /\ lastAge' = Head(wire).age
  PROVE  WireInv'
<1>1. UNCHANGED <<robot, worst>>
  BY DEF bodyVars
<1>2. \A i \in 1 .. Len(wire) - 1 : wire[i].robot = "still" => Linked(wire[i].age, wire[i + 1])
  BY DEF IInv, WireInv
<1>3. \A i \in 1 .. Len(wire') - 1 :
         wire'[i].robot = "still" => Linked(wire'[i].age, wire'[i + 1])
  BY <1>2, HeadStep
<1>4. wire' # <<>> => Len(wire') >= 1 /\ wire'[1] = wire[2] /\ wire'[Len(wire')] = wire[Len(wire)]
  BY HeadStep
<1>5. Collecting' /\ wire' # <<>> => Linked(lastAge', wire'[1])
  BY <1>2, <1>4, HeadStep
<1>6. wire' # <<>> => (wire'[Len(wire')].robot = "still" => Since(wire[Len(wire)].age)')
  BY <1>1, <1>4 DEF IInv, WireInv, Since
<1>7. Collecting' /\ wire' = <<>> => Since(lastAge)'
  <2> SUFFICES ASSUME Collecting', wire' = <<>> PROVE Since(lastAge)'
    OBVIOUS
  <2>1. Len(wire) = 1
    BY HeadStep
  <2> QED
    BY <1>1, <2>1, HeadStep DEF IInv, WireInv, Since
<1> QED
  BY <1>3, <1>5, <1>6, <1>7 DEF WireInv

\* A message at the filter keeps the invariant.
LEMMA ReceiveNext == IInv /\ Receive => IInv'
<1> SUFFICES ASSUME IInv, Receive PROVE IInv'
  OBVIOUS
<1> DEFINE m == Head(wire)
<1>1. /\ wire # <<>> /\ wire' = Tail(wire)
      /\ UNCHANGED <<imuReady, errors, sinceRetry, sampled, bodyVars>>
  BY DEF Receive
<1>2. /\ m \in Messages /\ m = wire[1] /\ wire' \in Seq(Messages)
  BY <1>1, HeadStep
<1>3. /\ m.age \in 0 .. Latency /\ m.worst \in 0 .. MaxGap /\ m.robot \in {"still", "moves"}
  BY <1>2 DEF Messages
<1>4. /\ count \in 0 .. Samples /\ (calibrated <=> count = Samples)
      /\ lastAge \in 0 .. MaxAge /\ blind \in 0 .. MaxGap
      /\ calibrated \in BOOLEAN /\ haveStamp \in BOOLEAN
      /\ Samples \in Nat \ {0} /\ MaxGap \in Nat \ {0} /\ Latency \in Nat \ {0}
      /\ (count > 0 => haveStamp) /\ (count > 0 => blind < MaxGap)
  BY Positive DEF IInv, TypeOK, BiasInv, BiasIsOfStillness
<1>5. ErrorReceived(m) \/ SampleReceived(m)
  BY DEF Receive
<1> HIDE DEF m
<1>6. /\ count' \in 0 .. Samples /\ (calibrated' <=> count' = Samples)
      /\ lastAge' \in 0 .. MaxAge /\ blind' \in 0 .. MaxGap
      /\ (count' > 0 => haveStamp') /\ (count' > 0 => blind' < MaxGap)
      /\ Collecting' => m.robot = "still" /\ lastAge' = m.age
  <2>1. CASE ErrorReceived(m)
    BY <1>4, <2>1 DEF ErrorReceived, Restart, Collecting
  <2>2. CASE SampleReceived(m)
    <3>1. haveStamp' = TRUE /\ lastAge' = m.age /\ m.age \in 0 .. MaxAge
      BY <1>3, <1>4, <2>2 DEF SampleReceived, MaxAge
    <3>2. CASE Gap(m)
      BY <1>4, <3>1, <3>2 DEF Gap, Restart, Collecting
    <3>3. CASE Track(m)
      BY <1>4, <3>1, <3>3 DEF Track, Collecting
    <3>4. CASE Calibrate(m)
      <4>1. CASE m.robot = "moves"
        BY <1>4, <3>1, <3>4, <4>1 DEF Calibrate, Restart, Collecting
      <4>2. CASE m.robot = "still"
        <5>1. /\ count' = count + 1 /\ ~calibrated /\ ~GapTooLong(m)
              /\ calibrated' <=> count' = Samples
              /\ blind' = IF count = 0 THEN 0 ELSE Longer(blind, m.worst)
          BY <3>4, <4>2 DEF Calibrate
        <5>2. count > 0 => m.worst < MaxGap
          <6> SUFFICES ASSUME count > 0 PROVE m.worst < MaxGap
            OBVIOUS
          <6>1. lastAge - m.age <= MaxGap
            BY <1>3, <1>4, <5>1 DEF GapTooLong, MaxAge
          <6>2. m.worst = 0 \/ m.worst < lastAge - m.age
            BY <1>1, <1>2, <4>2, <5>1 DEF IInv, WireInv, Collecting, Linked
          <6> QED
            BY <1>3, <1>4, <6>1, <6>2 DEF MaxAge
        <5>3. count + 1 \in 0 .. Samples
          BY <1>4, <5>1
        <5>4. blind' \in 0 .. MaxGap /\ blind' < MaxGap
          BY <1>3, <1>4, <5>1, <5>2 DEF Longer
        <5> QED
          BY <3>1, <4>2, <5>1, <5>3, <5>4 DEF Collecting
      <4> QED
        BY <1>3, <4>1, <4>2
    <3> QED
      BY <2>2, <3>2, <3>3, <3>4 DEF SampleReceived
  <2> QED
    BY <1>5, <2>1, <2>2
<1>7. WireInv'
  BY <1>1, <1>6, WireStep DEF m
<1>8. MotionInv'
  BY <1>1 DEF IInv, MotionInv, bodyVars
<1>9. UNCHANGED stateVars \/ Estimate(m)
  BY <1>5 DEF ErrorReceived, SampleReceived, Gap, Calibrate, Track
<1>10. hasData' \in BOOLEAN /\ imuAge' \in 0 .. FreshFor /\ sampleAge' \in 0 .. MaxSampleAge
  <2>1. CASE UNCHANGED stateVars
    BY <2>1 DEF IInv, TypeOK, stateVars
  <2>2. CASE Estimate(m)
    <3>1. hasData' \in BOOLEAN
      BY <2>2, Zenon DEF Estimate
    <3> QED
      BY <1>3, <2>2, <3>1, Positive DEF Estimate, MaxSampleAge
  <2> QED
    BY <1>9, <2>1, <2>2
<1>11. AgeInv'
  <2>1. CASE UNCHANGED stateVars
    BY <2>1 DEF IInv, AgeInv, stateVars
  <2>2. CASE Estimate(m)
    <3>1. imuAge' = 0 /\ sampleAge' = m.age /\ m.age <= 0 + Latency
      BY <1>3, <1>4, <2>2 DEF Estimate
    <3> QED
      BY <3>1 DEF AgeInv
  <2> QED
    BY <1>9, <2>1, <2>2
<1>12. haveStamp' \in BOOLEAN /\ calibrated' \in BOOLEAN
  <2>1. haveStamp' = TRUE \/ haveStamp' = FALSE
    BY <1>5 DEF ErrorReceived, SampleReceived
  <2>2. calibrated' = TRUE \/ calibrated' = FALSE \/ calibrated' = calibrated
    BY <1>5 DEF ErrorReceived, SampleReceived, Gap, Calibrate, Track, Restart
  <2> QED
    BY <1>4, <2>1, <2>2, Zenon
<1>13. TypeOK'
  BY <1>1, <1>2, <1>6, <1>10, <1>12 DEF IInv, TypeOK, bodyVars
<1> QED
  BY <1>6, <1>7, <1>8, <1>11, <1>13 DEF IInv, BiasInv, BiasIsOfStillness

-----------------------------------------------------------------------------
(* Time.                                                                   *)

\* A tick keeps the invariant: motion and message grow older together.
LEMMA TickNext == IInv /\ Tick => IInv'
<1> SUFFICES ASSUME IInv, Tick PROVE IInv'
  OBVIOUS
<1> USE Positive
<1>1. /\ wire \in Seq(Messages) /\ run \in 0 .. MaxGap /\ worst \in 0 .. MaxGap
      /\ lastAge \in 0 .. MaxAge /\ run <= worst /\ (robot = "still" => run = 0)
  BY DEF IInv, TypeOK, MotionInv
<1>2. /\ Len(wire) \in Nat
      /\ wire' = [i \in 1 .. Len(wire) |-> [wire[i] EXCEPT !.age = @ + 1]]
      /\ \A i \in 1 .. Len(wire) : wire[i] \in Messages /\ wire[i].age < Latency
  <2>1. Len(wire) \in Nat /\ DOMAIN wire = 1 .. Len(wire)
    BY <1>1
  <2> QED
    BY <1>1, <2>1 DEF Tick
<1>3. \A i \in 1 .. Len(wire) :
        /\ wire'[i] \in Messages
        /\ wire'[i].age = wire[i].age + 1
        /\ wire'[i].worst = wire[i].worst /\ wire'[i].robot = wire[i].robot
        /\ wire[i].age \in Nat /\ wire[i].worst \in 0 .. MaxGap
  <2> TAKE i \in 1 .. Len(wire)
  <2>1. /\ wire[i] \in Messages /\ wire[i].age < Latency
        /\ wire'[i] = [wire[i] EXCEPT !.age = @ + 1]
    BY <1>2
  <2> QED
    BY <2>1 DEF Messages
<1>4. wire' \in Seq(Messages) /\ Len(wire') = Len(wire)
  <2>1. wire' \in [1 .. Len(wire) -> Messages]
    BY <1>2, <1>3
  <2> QED
    BY <1>2, <2>1
<1>5. /\ run' \in 0 .. MaxGap /\ worst' \in 0 .. MaxGap /\ run' <= worst'
      /\ robot' \in {"still", "moves"} /\ (robot' = "still" => run' = 0 /\ worst' = worst)
      /\ worst' <= worst + 1
  BY <1>1 DEF Tick, AtMost, Longer
<1>6. /\ lastAge' \in 0 .. MaxAge
      /\ lastAge' = lastAge + 1 \/ (lastAge' = MaxAge /\ lastAge = MaxAge)
  <2>1. MaxAge \in Nat
    BY DEF MaxAge
  <2>2. lastAge' = IF lastAge + 1 > MaxAge THEN MaxAge ELSE lastAge + 1
    BY DEF Tick, AtMost
  <2> QED
    BY <1>1, <2>1, <2>2
<1>7. UNCHANGED <<imuReady, errors, haveStamp, count, calibrated, blind, hasData, calm>>
  BY DEF Tick
<1>8. ASSUME NEW age \in Nat, Since(age)
      PROVE  Since(age + 1)'
  BY <1>1, <1>5, <1>8 DEF Since
<1>9. WireInv'
  <2>1. \A i \in 1 .. Len(wire') - 1 :
          wire'[i].robot = "still" => Linked(wire'[i].age, wire'[i + 1])
    <3> SUFFICES ASSUME NEW i \in 1 .. Len(wire) - 1, wire'[i].robot = "still"
                 PROVE  Linked(wire'[i].age, wire'[i + 1])
      BY <1>4
    <3>1. i \in 1 .. Len(wire) /\ i + 1 \in 1 .. Len(wire)
      BY <1>1
    <3>2. Linked(wire[i].age, wire[i + 1])
      BY <1>3, <3>1 DEF IInv, WireInv
    <3> QED
      BY <1>3, <3>1, <3>2 DEF Linked
  <2>2. Collecting' /\ wire' # <<>> => Linked(lastAge', wire'[1])
    <3> SUFFICES ASSUME Collecting', wire' # <<>> PROVE Linked(lastAge', wire'[1])
      OBVIOUS
    <3>1. wire # <<>> /\ 1 \in 1 .. Len(wire)
      BY <1>1, <1>4
    <3>2. Linked(lastAge, wire[1])
      BY <1>7, <3>1 DEF IInv, WireInv, Collecting
    <3>3. wire'[1].age <= Latency
      BY <1>3, <3>1 DEF Messages
    <3> QED
      BY <1>1, <1>3, <1>6, <3>1, <3>2, <3>3 DEF Linked, MaxAge
  <2>3. Collecting' /\ wire' = <<>> => Since(lastAge)'
    <3> SUFFICES ASSUME Collecting', wire' = <<>> PROVE Since(lastAge)'
      OBVIOUS
    <3>1. wire = <<>>
      BY <1>1, <1>4
    <3>2. Since(lastAge)
      BY <1>7, <3>1 DEF IInv, WireInv, Collecting
    <3>3. CASE lastAge' = lastAge + 1
      BY <1>1, <1>8, <3>2, <3>3 DEF Since
    <3>4. CASE lastAge' = MaxAge
      BY <1>5, <3>4 DEF Since, MaxAge
    <3> QED
      BY <1>6, <3>3, <3>4
  <2>4. wire' # <<>> => (wire'[Len(wire')].robot = "still" => Since(wire[Len(wire)].age)')
    <3> SUFFICES ASSUME wire' # <<>>, wire'[Len(wire')].robot = "still"
                 PROVE  Since(wire[Len(wire)].age)'
      OBVIOUS
    <3> DEFINE last == Len(wire)
    <3>1. wire # <<>> /\ last \in 1 .. Len(wire)
      BY <1>1, <1>4
    <3>2. /\ wire[last].robot = "still" /\ wire[last].age \in Nat
          /\ wire'[Len(wire')].age = wire[last].age + 1
      BY <1>2, <1>3, <3>1
    <3>3. Since(wire[last].age)
      BY <3>1, <3>2 DEF IInv, WireInv
    <3> QED
      BY <1>1, <1>5, <3>2, <3>3 DEF Since
  <2> QED
    BY <2>1, <2>2, <2>3, <2>4 DEF WireInv
<1>10. MotionInv' /\ BiasInv'
  BY <1>5, <1>7 DEF IInv, MotionInv, BiasInv, BiasIsOfStillness
<1>11. /\ imuAge' \in 0 .. FreshFor /\ sampleAge' \in 0 .. MaxSampleAge
       /\ sinceRetry' \in 0 .. RetryPeriod /\ AgeInv'
  <2>1. /\ imuAge \in 0 .. FreshFor /\ sampleAge \in 0 .. MaxSampleAge
        /\ sinceRetry \in 0 .. RetryPeriod /\ MaxSampleAge \in Nat
    BY DEF IInv, TypeOK, MaxSampleAge
  <2>2. /\ imuAge' = IF imuAge + 1 > FreshFor THEN FreshFor ELSE imuAge + 1
        /\ sampleAge' = IF sampleAge + 1 > MaxSampleAge THEN MaxSampleAge ELSE sampleAge + 1
        /\ sinceRetry' = IF sinceRetry + 1 > RetryPeriod THEN RetryPeriod ELSE sinceRetry + 1
    BY DEF Tick, AtMost
  <2>3. AgeInv'
    BY <1>7, <2>1, <2>2 DEF IInv, AgeInv
  <2> QED
    BY <2>1, <2>2, <2>3
<1>12. sampled' \in BOOLEAN
  BY Zenon DEF Tick
<1>13. sensor' \in {"works", "fails"}
  BY DEF Tick
<1>14. TypeOK'
  BY <1>4, <1>5, <1>6, <1>7, <1>11, <1>12, <1>13 DEF IInv, TypeOK
<1> QED
  BY <1>9, <1>10, <1>11, <1>14 DEF IInv

\* Every step keeps the invariant.
LEMMA InvNext == IInv /\ [Next]_vars => IInv'
<1> SUFFICES ASSUME IInv, [Next]_vars PROVE IInv'
  OBVIOUS
<1> USE DEF vars, mcuVars, bodyVars, filterVars, stateVars
<1>1. CASE Poll
  BY <1>1, PollNext
<1>2. CASE Receive
  BY <1>2, ReceiveNext
<1>3. CASE Tick
  BY <1>3, TickNext
<1>4. CASE StampsJump
  <2>1. lastAge' = MaxAge /\ MaxAge \in 0 .. MaxAge
    BY <1>4, Positive DEF StampsJump, MaxAge
  <2>2. Since(MaxAge)'
    BY <1>4, Positive DEF StampsJump, IInv, TypeOK, Since, MaxAge
  <2>3. WireInv'
    BY <1>4, <2>1, <2>2 DEF StampsJump, IInv, WireInv, Since
  <2> QED
    BY <1>4, <2>1, <2>3, Positive
       DEF StampsJump, IInv, TypeOK, MotionInv, BiasInv, BiasIsOfStillness, AgeInv
<1>5. CASE BecomeCalm
  <2>1. calm' \in BOOLEAN
    BY <1>5, Zenon DEF BecomeCalm
  <2> QED
    BY <1>5, <2>1 DEF BecomeCalm, IInv, TypeOK, MotionInv, WireInv, Collecting, Since,
                      BiasInv, BiasIsOfStillness, AgeInv
<1>6. CASE UNCHANGED vars
  BY <1>6 DEF IInv, TypeOK, MotionInv, WireInv, Collecting, Since, BiasInv,
              BiasIsOfStillness, AgeInv
<1> QED
  BY <1>1, <1>2, <1>3, <1>4, <1>5, <1>6 DEF Next

-----------------------------------------------------------------------------
(* The theorems.                                                           *)

\* The invariant holds in every reachable state of the path.
THEOREM Invariance == Spec => []IInv
BY InitInv, InvNext, PTL DEF Spec

\* Every reachable state of the path is well typed.
THEOREM TypeCorrect == Spec => []TypeOK
<1>1. IInv => TypeOK
  BY DEF IInv
<1> QED
  BY <1>1, Invariance, PTL

\* No lost sample hides a motion in the calibration that is longer than the
\* largest gap the filter accepts.
THEOREM BiasIsClean == Spec => []BiasIsOfStillness
<1>1. IInv => BiasIsOfStillness
  BY DEF IInv, BiasInv
<1> QED
  BY <1>1, Invariance, PTL

\* What the controller takes for fresh is recent.
THEOREM FreshIsRecent == Spec => []AttitudeIsRecent
<1>1. IInv => AttitudeIsRecent
  BY Positive DEF IInv, TypeOK, AgeInv, AttitudeIsRecent, Fresh, MaxSampleAge
<1> QED
  BY <1>1, Invariance, PTL
=============================================================================
