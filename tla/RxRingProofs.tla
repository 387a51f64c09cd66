----------------------------- MODULE RxRingProofs -----------------------------
(***************************************************************************)
(* The receive ring implements the bounded queue, for every ring size and  *)
(* every set of bytes.                                                     *)
(***************************************************************************)
EXTENDS RxRing, SequenceTheorems, TLAPS

USE RingAssumption, NoByteIsNoByte

\* The index arithmetic without the modulus.
LEMMA AfterWraps ==
  ASSUME NEW i \in Slots
  PROVE  /\ After(i) = IF i + 1 = RingSize THEN 0 ELSE i + 1
         /\ After(i) \in Slots
  BY DEF After, Slots

-----------------------------------------------------------------------------
(* The inductive invariant.                                                *)

\* The reader has room for the byte it is about to copy.
ReadFits == pc = "copy" => Len(buffer) < length

\* The slot the reader is at is in use: the interrupt does not catch up with it.
SlotInUse == pc \in {"copy", "advance"} => head # tail

\* The last byte copied is still in its slot.
SlotIsCopied ==
  pc = "advance" => Len(buffer) > 0 /\ buffer[Len(buffer)] = ring[head]

RingInv == TypeOK /\ ReadFits /\ SlotInUse /\ SlotIsCopied

\* The empty ring satisfies the invariant.
LEMMA InitRing == Init => RingInv
  BY EmptySeq DEF Init, RingInv, TypeOK, ReadFits, SlotInUse, SlotIsCopied, Slots

\* The bytes already copied, when one more is.
LEMMA CopyAppends ==
  ASSUME TypeOK, ReadFits, pc = "copy", buffer' = Append(buffer, ring[head])
  PROVE  /\ buffer' \in Seq(Bytes)
         /\ Len(buffer') = Len(buffer) + 1
         /\ Len(buffer') <= length
         /\ buffer'[Len(buffer')] = ring[head]
         /\ SubSeq(buffer', 1, Len(buffer)) = buffer
  <1>1. buffer \in Seq(Bytes) /\ ring[head] \in Bytes /\ length \in Nat
    BY DEF TypeOK, Slots
  <1>2. Len(buffer) \in Nat
    BY <1>1, LenProperties
  <1>3. /\ buffer' \in Seq(Bytes)
        /\ Len(buffer') = Len(buffer) + 1
        /\ buffer'[Len(buffer) + 1] = ring[head]
        /\ \A i \in 1 .. Len(buffer) : buffer'[i] = buffer[i]
    BY <1>1, AppendProperties
  <1>4. Len(buffer) + 1 <= length
    BY <1>1, <1>2 DEF ReadFits
  <1>5. SubSeq(buffer', 1, Len(buffer)) = buffer
    <2>1. \A i \in 1 .. Len(buffer) : buffer'[i] \in Bytes
      BY <1>1, <1>3, ElementOfSeq
    <2>2. /\ SubSeq(buffer', 1, Len(buffer)) \in Seq(Bytes)
          /\ Len(SubSeq(buffer', 1, Len(buffer))) = Len(buffer)
          /\ \A i \in 1 .. Len(buffer) : SubSeq(buffer', 1, Len(buffer))[i] = buffer'[i]
      BY <2>1, <1>2, SubSeqProperties
    <2>3. QED
      BY <1>1, <1>3, <2>2, SeqEqual
  <1>6. QED
    BY <1>3, <1>4, <1>5

\* A filled buffer is the one before its last byte, and that byte.
LEMMA LastIsAppended ==
  ASSUME TypeOK, Len(buffer) > 0, buffer[Len(buffer)] = ring[head]
  PROVE  /\ buffer = Append(SubSeq(buffer, 1, Len(buffer) - 1), ring[head])
         /\ Len(SubSeq(buffer, 1, Len(buffer) - 1)) < MaxRead
  <1> DEFINE n == Len(buffer) - 1
             front == SubSeq(buffer, 1, n)
  <1>1. buffer \in Seq(Bytes) /\ ring[head] \in Bytes
    BY DEF TypeOK, Slots
  <1>2. Len(buffer) \in Nat /\ n \in Nat /\ n + 1 = Len(buffer) /\ n < MaxRead
    BY <1>1, LenProperties DEF TypeOK
  <1> HIDE DEF n
  <1>3. \A i \in 1 .. n : buffer[i] \in Bytes
    BY <1>1, <1>2, ElementOfSeq
  <1>4. /\ front \in Seq(Bytes) /\ Len(front) = n
        /\ \A i \in 1 .. n : front[i] = buffer[i]
    BY <1>2, <1>3, SubSeqProperties
  <1> HIDE DEF front
  <1>5. /\ Append(front, ring[head]) \in Seq(Bytes)
        /\ Len(Append(front, ring[head])) = n + 1
        /\ \A i \in 1 .. n : Append(front, ring[head])[i] = buffer[i]
        /\ Append(front, ring[head])[n + 1] = ring[head]
    BY <1>1, <1>4, AppendProperties
  <1>6. \A i \in 1 .. n + 1 : Append(front, ring[head])[i] = buffer[i]
    <2>1. ASSUME NEW i \in 1 .. n + 1 PROVE i = n + 1 \/ i \in 1 .. n
      BY <1>2
    <2>2. QED
      BY <1>2, <1>5, <2>1
  <1>7. buffer = Append(front, ring[head])
    BY <1>1, <1>2, <1>5, <1>6, SeqEqual
  <1>8. QED
    BY <1>2, <1>4, <1>7 DEF front, n

\* The interrupt and the reader keep the invariant, whoever comes first.
LEMMA RingStep ==
  ASSUME RingInv, [Next]_vars
  PROVE  RingInv'
  <1> USE DEF RingInv, TypeOK, ReadFits, SlotInUse, SlotIsCopied, uart, reader
  <1>1. ASSUME NEW b \in Bytes, ByteArrives(b) PROVE RingInv'
    BY <1>1 DEF ByteArrives
  <1>2. CASE Irq
    <2>1. CASE rdr = NoByte
      BY <1>2, <2>1 DEF Irq
    <2>2. CASE rdr # NoByte /\ After(tail) = head
      BY <1>2, <2>2 DEF Irq, Store
    <2>3. CASE rdr # NoByte /\ After(tail) # head
      <3>1. /\ ring' = [ring EXCEPT ![tail] = rdr] /\ tail' = After(tail)
            /\ rdr' = NoByte /\ UNCHANGED <<rxneie, ore, head, reader>>
        BY <1>2, <2>3 DEF Irq, Store
      <3>2. tail' \in Slots /\ ring' \in [Slots -> Bytes]
        BY <2>3, <3>1, AfterWraps
      <3>3. pc = "advance" => ring'[head] = ring[head]
        BY <3>1
      <3>4. QED
        BY <2>3, <3>1, <3>2, <3>3
    <2>4. QED
      BY <2>1, <2>2, <2>3
  <1>3. CASE Open
    BY <1>3 DEF Open
  <1>4. CASE Opened
    BY <1>4 DEF Opened
  <1>5. CASE Close
    BY <1>5 DEF Close
  <1>6. ASSUME NEW n \in 1 .. MaxRead, Read(n) PROVE RingInv'
    BY <1>6, EmptySeq DEF Read
  <1>7. CASE Test
    <2>1. CASE Len(buffer) < length /\ head # tail
      BY <1>7, <2>1 DEF Test
    <2>2. CASE ~(Len(buffer) < length /\ head # tail)
      <3>1. /\ pc' = "idle" /\ buffer' = <<>>
            /\ UNCHANGED <<uart, ring, head, tail, length>>
        BY <1>7, <2>2 DEF Test
      <3>2. buffer' \in Seq(Bytes) /\ Len(buffer') = 0
        BY <3>1, EmptySeq
      <3>3. QED
        BY <3>1, <3>2
    <2>3. QED
      BY <2>1, <2>2
  <1>8. CASE Copy
    <2>1. Len(buffer) \in Nat
      BY LenProperties
    <2>2. QED
      BY <1>8, <2>1, CopyAppends DEF Copy
  <1>9. CASE Advance
    BY <1>9, AfterWraps DEF Advance
  <1>10. CASE UNCHANGED vars
    BY <1>10 DEF vars
  <1>11. QED
    BY <1>1, <1>2, <1>3, <1>4, <1>5, <1>6, <1>7, <1>8, <1>9, <1>10 DEF Next, CallStep

\* The invariant holds in every reachable state of the ring.
LEMMA RingInvariant == Spec => []RingInv
  BY InitRing, RingStep, PTL DEF Spec

\* The indices stay inside the ring and no call overruns its buffer.
THEOREM TypeCorrect == Spec => []TypeOK
  <1>1. RingInv => TypeOK
    BY DEF RingInv
  <1>2. QED
    BY <1>1, RingInvariant, PTL
-----------------------------------------------------------------------------
(* The refinement.                                                         *)

\* What the indices say of how much the ring holds.
LEMMA OccupiedSlots ==
  ASSUME TypeOK
  PROVE  /\ Occupied \in 0 .. RingSize - 1
         /\ Occupied = 0 <=> head = tail
         /\ Occupied = RingSize - 1 <=> After(tail) = head
         /\ \A k \in 0 .. RingSize - 1 : Slot(k) \in Slots
  <1>1. After(tail) = IF tail + 1 = RingSize THEN 0 ELSE tail + 1
    BY AfterWraps DEF TypeOK
  <1>2. QED
    BY <1>1 DEF TypeOK, Slots, Occupied, Slot

\* A function on 1 .. n is a sequence of length n.
LEMMA LengthOfFunction ==
  ASSUME NEW S, NEW n \in Nat, NEW f \in [1 .. n -> S]
  PROVE  f \in Seq(S) /\ Len(f) = n
  <1>1. f \in Seq(S)
    BY SeqDef
  <1>2. Len(f) \in Nat /\ DOMAIN f = 1 .. Len(f)
    BY <1>1, LenProperties
  <1>3. 1 .. Len(f) = 1 .. n
    BY <1>2
  <1>4. QED
    BY <1>1, <1>2, <1>3

\* The contents are a sequence as long as the occupied part of the ring.
ContentsOK == Contents \in Seq(Bytes) /\ Len(Contents) = Occupied

\* What the ring holds is a sequence of bytes.
LEMMA ContentsAreASequence == TypeOK => ContentsOK
  <1> SUFFICES ASSUME TypeOK PROVE ContentsOK
    OBVIOUS
  <1>1. Occupied \in Nat
    BY OccupiedSlots
  <1>2. Contents \in [1 .. Occupied -> Bytes]
    BY OccupiedSlots DEF Contents, TypeOK
  <1>3. QED
    BY <1>1, <1>2, LengthOfFunction DEF ContentsOK

\* So it is after a step.
LEMMA ContentsStayASequence == TypeOK' => ContentsOK'
  BY ContentsAreASequence, PTL

\* The empty ring is the empty queue.
LEMMA InitMaps == Init => Queue!Init
  <1>1. SUFFICES ASSUME Init PROVE Queue!Init
    OBVIOUS
  <1>2. Occupied = 0
    BY <1>1 DEF Init, Occupied
  <1>3. TypeOK
    BY <1>1, InitRing DEF RingInv
  <1>4. Contents = <<>>
    BY <1>2, <1>3, ContentsAreASequence, EmptySeq DEF ContentsOK
  <1>5. HandedOut = <<>>
    BY <1>1 DEF Init, HandedOut
  <1>6. QED
    BY <1>4, <1>5 DEF Queue!Init

\* Storing a byte appends it to the contents.
LEMMA StoreAccepts ==
  ASSUME TypeOK, TypeOK', rdr # NoByte, After(tail) # head, UNCHANGED head,
         ring' = [ring EXCEPT ![tail] = rdr], tail' = After(tail)
  PROVE  Len(Contents) < RingSize - 1 /\ Contents' = Append(Contents, rdr)
  <1>1. /\ Contents \in Seq(Bytes) /\ Len(Contents) = Occupied
        /\ Contents' \in Seq(Bytes) /\ Len(Contents') = Occupied'
    BY ContentsAreASequence, ContentsStayASequence DEF ContentsOK
  <1>2. rdr \in Bytes
    BY DEF TypeOK
  <1>3. Occupied \in 0 .. RingSize - 2
    BY OccupiedSlots
  <1>4. Occupied' = Occupied + 1
    <2>1. tail' = IF tail + 1 = RingSize THEN 0 ELSE tail + 1
      BY AfterWraps DEF TypeOK
    <2>2. QED
      BY <2>1 DEF TypeOK, Slots, Occupied
  <1>5. /\ Append(Contents, rdr) \in Seq(Bytes)
        /\ Len(Append(Contents, rdr)) = Occupied + 1
        /\ \A i \in 1 .. Occupied : Append(Contents, rdr)[i] = Contents[i]
        /\ Append(Contents, rdr)[Occupied + 1] = rdr
    BY <1>1, <1>2, AppendProperties
  <1>6. ASSUME NEW i \in 1 .. Occupied + 1
        PROVE  Contents'[i] = Append(Contents, rdr)[i]
    <2>1. Contents'[i] = ring'[Slot(i - 1)']
      BY <1>4, <1>3 DEF Contents
    <2>2. Slot(i - 1)' = Slot(i - 1) /\ Slot(i - 1) \in Slots
      BY <1>3, OccupiedSlots DEF Slot
    <2>3. CASE i = Occupied + 1
      <3>1. Slot(i - 1) = tail
        BY <2>3 DEF TypeOK, Slots, Occupied, Slot
      <3>2. QED
        BY <2>1, <2>2, <2>3, <3>1, <1>5 DEF TypeOK
    <2>4. CASE i \in 1 .. Occupied
      <3>1. Slot(i - 1) # tail
        BY <1>3, <2>4 DEF TypeOK, Slots, Occupied, Slot
      <3>2. Contents[i] = ring[Slot(i - 1)]
        BY <2>4 DEF Contents
      <3>3. QED
        BY <2>1, <2>2, <2>4, <3>1, <3>2, <1>5 DEF TypeOK
    <2>5. i = Occupied + 1 \/ i \in 1 .. Occupied
      BY <1>3
    <2>6. QED
      BY <2>3, <2>4, <2>5
  <1>7. Contents' = Append(Contents, rdr)
    BY <1>1, <1>4, <1>5, <1>6, SeqEqual
  <1>8. QED
    BY <1>1, <1>3, <1>7

\* Advancing the head removes the oldest byte.
LEMMA AdvanceTakes ==
  ASSUME TypeOK, TypeOK', head # tail, head' = After(head), UNCHANGED <<ring, tail>>
  PROVE  Contents # <<>> /\ Head(Contents) = ring[head] /\ Contents' = Tail(Contents)
  <1>1. /\ Contents \in Seq(Bytes) /\ Len(Contents) = Occupied
        /\ Contents' \in Seq(Bytes) /\ Len(Contents') = Occupied'
    BY ContentsAreASequence, ContentsStayASequence DEF ContentsOK
  <1>2. Occupied \in 1 .. RingSize - 1
    BY OccupiedSlots DEF TypeOK
  <1>. head' = IF head + 1 = RingSize THEN 0 ELSE head + 1
    BY AfterWraps DEF TypeOK
  <1>3. Occupied' = Occupied - 1
    BY <1>2 DEF TypeOK, Slots, Occupied
  <1>4. Contents # <<>>
    BY <1>1, <1>2, EmptySeq
  <1>5. Head(Contents) = ring[head]
    <2>1. Head(Contents) = Contents[1]
      BY <1>1, <1>4
    <2>2. Contents[1] = ring[Slot(0)] /\ Slot(0) = head
      BY <1>2 DEF Contents, Slot, TypeOK, Slots
    <2>3. QED
      BY <2>1, <2>2
  <1>6. /\ Tail(Contents) \in Seq(Bytes)
        /\ Len(Tail(Contents)) = Occupied - 1
        /\ \A i \in 1 .. Occupied - 1 : Tail(Contents)[i] = Contents[i + 1]
    BY <1>1, <1>4, HeadTailProperties
  <1>7. ASSUME NEW i \in 1 .. Occupied - 1
        PROVE  Contents'[i] = Tail(Contents)[i]
    <2>1. Contents'[i] = ring[Slot(i - 1)']
      BY <1>3 DEF Contents
    <2>2. Contents[i + 1] = ring[Slot(i)]
      BY <1>2 DEF Contents
    <2>3. Slot(i - 1)' = Slot(i)
      BY <1>2 DEF TypeOK, Slots, Slot
    <2>4. QED
      BY <2>1, <2>2, <2>3, <1>6
  <1>8. Contents' = Tail(Contents)
    BY <1>1, <1>3, <1>6, <1>7, SeqEqual
  <1>9. QED
    BY <1>4, <1>5, <1>8

\* Every step of the ring is a step of the queue, or changes nothing of it.
LEMMA StepMaps ==
  ASSUME RingInv, RingInv', [Next]_vars
  PROVE  [Queue!Next]_Queue!vars
  <1> USE DEF RingInv, uart, reader
  <1>a. TypeOK /\ TypeOK'
    OBVIOUS
  <1>s. ASSUME UNCHANGED <<ring, head, tail>>
        PROVE  UNCHANGED Contents
    BY <1>s DEF Contents, Occupied, Slot
  <1>1. ASSUME NEW b \in Bytes, ByteArrives(b) PROVE [Queue!Next]_Queue!vars
    BY <1>1, <1>s DEF ByteArrives, HandedOut, Queue!vars
  <1>2. CASE Irq
    <2>1. UNCHANGED HandedOut
      BY <1>2 DEF Irq, HandedOut
    <2>2. CASE rdr # NoByte /\ After(tail) # head
      <3>1. /\ ring' = [ring EXCEPT ![tail] = rdr] /\ tail' = After(tail)
            /\ UNCHANGED head
        BY <1>2, <2>2 DEF Irq, Store
      <3>2. Len(Contents) < RingSize - 1 /\ Contents' = Append(Contents, rdr)
        BY <1>a, <2>2, <3>1, StoreAccepts
      <3>3. rdr \in Bytes
        BY <2>2 DEF TypeOK
      <3>4. Queue!Accept(rdr)
        BY <2>1, <3>2 DEF Queue!Accept
      <3>5. QED
        BY <3>3, <3>4 DEF Queue!Next
    <2>3. CASE ~(rdr # NoByte /\ After(tail) # head)
      BY <1>2, <2>1, <2>3, <1>s DEF Irq, Store, Queue!vars
    <2>4. QED
      BY <2>2, <2>3
  <1>3. CASE Open
    BY <1>3, <1>s DEF Open, HandedOut, Queue!vars
  <1>4. CASE Opened
    BY <1>4, <1>s DEF Opened, HandedOut, Queue!vars
  <1>5. CASE Close
    BY <1>5, <1>s DEF Close, HandedOut, Queue!vars
  <1>6. ASSUME NEW n \in 1 .. MaxRead, Read(n) PROVE [Queue!Next]_Queue!vars
    <2>1. Queue!Return
      BY <1>6, <1>s DEF Read, HandedOut, Queue!Return
    <2>2. QED
      BY <2>1 DEF Queue!Next
  <1>7. CASE Test
    <2>1. CASE Len(buffer) < length /\ head # tail
      BY <1>7, <2>1, <1>s DEF Test, HandedOut, Queue!vars
    <2>2. CASE ~(Len(buffer) < length /\ head # tail)
      <3>1. Queue!Return
        BY <1>7, <2>2, <1>s DEF Test, HandedOut, Queue!Return
      <3>2. QED
        BY <3>1 DEF Queue!Next
    <2>3. QED
      BY <2>1, <2>2
  <1>8. CASE Copy
    <2>1. /\ pc = "copy" /\ pc' = "advance" /\ buffer' = Append(buffer, ring[head])
          /\ UNCHANGED <<ring, head, tail>>
      BY <1>8 DEF Copy
    <2>2. /\ Len(buffer') = Len(buffer) + 1
          /\ SubSeq(buffer', 1, Len(buffer)) = buffer
      BY <1>a, <2>1, CopyAppends
    <2>3. buffer \in Seq(Bytes)
      BY DEF TypeOK
    <2>4. Len(buffer) \in Nat
      BY <2>3, LenProperties
    <2>5. Len(buffer') - 1 = Len(buffer)
      BY <2>2, <2>4
    <2>6. HandedOut' = HandedOut
      BY <2>1, <2>2, <2>5 DEF HandedOut
    <2>7. QED
      BY <2>1, <2>6, <1>s DEF Queue!vars
  <1>9. CASE Advance
    <2>1. /\ pc = "advance" /\ pc' = "test" /\ head' = After(head)
          /\ UNCHANGED <<ring, tail, buffer>>
      BY <1>9 DEF Advance
    <2>2. head # tail /\ Len(buffer) > 0 /\ buffer[Len(buffer)] = ring[head]
      BY <2>1 DEF SlotInUse, SlotIsCopied
    <2>3. /\ Contents # <<>> /\ Head(Contents) = ring[head]
          /\ Contents' = Tail(Contents)
      BY <1>a, <2>1, <2>2, AdvanceTakes
    <2>4. /\ HandedOut = SubSeq(buffer, 1, Len(buffer) - 1)
          /\ HandedOut' = buffer
      BY <2>1 DEF HandedOut
    <2>5. buffer = Append(HandedOut, ring[head]) /\ Len(HandedOut) < MaxRead
      BY <1>a, <2>2, <2>4, LastIsAppended
    <2>6. Queue!Take
      BY <2>3, <2>4, <2>5 DEF Queue!Take
    <2>7. QED
      BY <2>6 DEF Queue!Next
  <1>10. CASE UNCHANGED vars
    BY <1>10, <1>s DEF vars, HandedOut, Queue!vars
  <1>11. QED
    BY <1>1, <1>2, <1>3, <1>4, <1>5, <1>6, <1>7, <1>8, <1>9, <1>10 DEF Next, CallStep

\* The ring between interrupt and reader is a first-in first-out queue of
\* RingSize - 1 bytes (ImplementsQueue, whatever the ring's size).
THEOREM RingImplementsQueue == Spec => ImplementsQueue
  <1>1. Init => Queue!Init
    BY InitMaps
  <1>2. RingInv /\ RingInv' /\ [Next]_vars => [Queue!Next]_Queue!vars
    BY StepMaps
  <1>3. QED
    BY <1>1, <1>2, RingInvariant, PTL DEF Spec, ImplementsQueue, Queue!Spec

\* No byte is dropped while a slot is free.
THEOREM DropNeedsAFullRing == Spec => DropsOnlyWhenFull
  <1> DEFINE Drop == rdr # NoByte /\ rdr' = NoByte /\ UNCHANGED tail
  <1>1. ASSUME RingInv, [Next]_vars, Drop
        PROVE  Occupied = RingSize - 1
    <2> USE <1>1 DEF uart, reader
    <2>1. Irq
      BY DEF Next, CallStep, ByteArrives, Open, Opened, Close, Read, Test, Copy,
             Advance, vars
    <2>2. tail \in Slots
      BY DEF RingInv, TypeOK
    <2>3. After(tail) # tail
      BY <2>2, AfterWraps DEF Slots
    <2>4. After(tail) = head
      BY <2>1, <2>3 DEF Irq, Store
    <2>5. QED
      BY <2>4, OccupiedSlots DEF RingInv
  <1>2. RingInv /\ [Next]_vars => [Drop => Occupied = RingSize - 1]_vars
    BY <1>1
  <1>3. QED
    BY <1>2, RingInvariant, PTL DEF Spec, DropsOnlyWhenFull
=============================================================================
