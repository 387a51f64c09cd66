-------------------------------- MODULE RxRing --------------------------------
(***************************************************************************)
(* The receive path of the micro-ROS transport                             *)
(* (app/src/microros_transport.c): the interrupt of USART1 moves bytes     *)
(* from the data register into a ring, Transport_Read moves them out. No   *)
(* lock: rx_tail is written by the interrupt alone, rx_head by the reader  *)
(* alone. The interrupt preempts the reader between any two of its         *)
(* accesses and is never preempted by it, so a handler is one action and   *)
(* an iteration of the reader is three.                                    *)
(*                                                                         *)
(* The receiver is the STM32H7's: a byte that arrives while the data       *)
(* register is full is lost and sets the overrun flag, which requests the  *)
(* same interrupt as a received byte. Nothing in the firmware clears that  *)
(* flag or disables it. An enabled receiver is not overrun: no other       *)
(* interrupt is enabled, none is ever masked, and the handler takes a      *)
(* small part of a byte's time on the line.                                *)
(***************************************************************************)
EXTENDS Naturals, Sequences

CONSTANTS
  Bytes,     \* values of a byte
  RingSize,  \* RX_RING_SIZE
  MaxRead    \* the largest length a caller asks for

ASSUME RingAssumption == RingSize \in Nat \ {0, 1} /\ MaxRead \in Nat \ {0}

NoByte == "none"
ASSUME NoByteIsNoByte == NoByte \notin Bytes

VARIABLES
  rxneie,    \* USART_CR1_RXNEIE: the transport is open
  rdr,       \* the data register; NoByte when RXNE is clear
  ore,       \* the overrun flag
  ring,      \* rx_ring
  head,      \* rx_head
  tail,      \* rx_tail
  pc,        \* where the reader is
  length,    \* Transport_Read's argument
  buffer     \* Transport_Read's destination, as far as it is filled

uart == <<rxneie, rdr, ore>>
reader == <<pc, length, buffer>>
vars == <<uart, ring, head, tail, reader>>

Slots == 0 .. RingSize - 1

TypeOK ==
  /\ rxneie \in BOOLEAN /\ ore \in BOOLEAN
  /\ rdr \in Bytes \cup {NoByte}
  /\ ring \in [Slots -> Bytes]
  /\ head \in Slots /\ tail \in Slots
  /\ pc \in {"idle", "opening", "test", "copy", "advance"}
  /\ length \in 1 .. MaxRead
  /\ buffer \in Seq(Bytes)
  /\ Len(buffer) <= length

\* The static initialisers; what the ring holds before its first byte does not
\* matter.
Init ==
  /\ rxneie = FALSE /\ rdr = NoByte /\ ore = FALSE
  /\ \E b \in Bytes : ring = [i \in Slots |-> b]
  /\ head = 0 /\ tail = 0
  /\ pc = "idle" /\ length = MaxRead /\ buffer = <<>>

After(i) == (i + 1) % RingSize

-----------------------------------------------------------------------------
(* The receiver and the interrupt.                                         *)

ByteArrives(b) ==
  /\ rxneie => rdr = NoByte
  /\ IF rdr = NoByte
     THEN rdr' = b /\ UNCHANGED ore
     ELSE ore' = TRUE /\ UNCHANGED rdr
  /\ UNCHANGED <<rxneie, ring, head, tail, reader>>

\* While it is pending, the reader does not run.
InterruptPending == rxneie /\ (rdr # NoByte \/ ore)

\* Fault: the test for a full ring is forgotten.
StoreOverwritesBug ==
  /\ ring' = [ring EXCEPT ![tail] = rdr]
  /\ tail' = After(tail)

\* Fault: a slot too many is left free.
StoreEarlyBug ==
  IF After(tail) # head /\ After(After(tail)) # head
  THEN /\ ring' = [ring EXCEPT ![tail] = rdr]
       /\ tail' = After(tail)
  ELSE UNCHANGED <<ring, tail>>

\* A full ring keeps what it has.
Store ==
  IF After(tail) # head
  THEN /\ ring' = [ring EXCEPT ![tail] = rdr]
       /\ tail' = After(tail)
  ELSE UNCHANGED <<ring, tail>>

\* Reading the data register clears RXNE; the overrun flag stays.
Irq ==
  /\ InterruptPending
  /\ IF rdr # NoByte
     THEN Store /\ rdr' = NoByte
     ELSE UNCHANGED <<ring, tail, rdr>>
  /\ UNCHANGED <<rxneie, ore, head, reader>>

-----------------------------------------------------------------------------
(* The reader's side, on the main loop.                                    *)

\* The interrupt is enabled inside the call, which has yet to return.
Open ==
  /\ pc = "idle" /\ ~InterruptPending
  /\ rxneie' = TRUE /\ pc' = "opening"
  /\ UNCHANGED <<rdr, ore, ring, head, tail, length, buffer>>

Opened ==
  /\ pc = "opening" /\ ~InterruptPending
  /\ pc' = "idle"
  /\ UNCHANGED <<uart, ring, head, tail, length, buffer>>

\* The ring keeps its bytes: the next session finds them.
Close ==
  /\ pc = "idle" /\ ~InterruptPending
  /\ rxneie' = FALSE
  /\ UNCHANGED <<rdr, ore, ring, head, tail, reader>>

Read(n) ==
  /\ pc = "idle" /\ rxneie /\ ~InterruptPending
  /\ length' = n /\ buffer' = <<>> /\ pc' = "test"
  /\ UNCHANGED <<uart, ring, head, tail>>

\* Fault: the read waits until the buffer is full, as an earlier version did.
TestBug ==
  /\ pc = "test" /\ ~InterruptPending
  /\ IF Len(buffer) < length
     THEN head # tail /\ pc' = "copy" /\ UNCHANGED buffer
     ELSE pc' = "idle" /\ buffer' = <<>>
  /\ UNCHANGED <<uart, ring, head, tail, length>>

\* The loop's condition; when it fails, the bytes go to the caller.
Test ==
  /\ pc = "test" /\ ~InterruptPending
  /\ IF Len(buffer) < length /\ head # tail
     THEN pc' = "copy" /\ UNCHANGED buffer
     ELSE pc' = "idle" /\ buffer' = <<>>
  /\ UNCHANGED <<uart, ring, head, tail, length>>

Copy ==
  /\ pc = "copy" /\ ~InterruptPending
  /\ buffer' = Append(buffer, ring[head])
  /\ pc' = "advance"
  /\ UNCHANGED <<uart, ring, head, tail, length>>

Advance ==
  /\ pc = "advance" /\ ~InterruptPending
  /\ head' = After(head)
  /\ pc' = "test"
  /\ UNCHANGED <<uart, ring, tail, length, buffer>>

CallStep == Opened \/ Test \/ Copy \/ Advance

Next ==
  \/ \E b \in Bytes : ByteArrives(b)
  \/ Irq
  \/ Open \/ Close
  \/ \E n \in 1 .. MaxRead : Read(n)
  \/ CallStep

\* The reader is the only thread: it runs whenever no interrupt is pending.
\* A pending interrupt is taken.
Fairness == SF_vars(CallStep) /\ WF_vars(Irq)

Spec == Init /\ [][Next]_vars /\ Fairness

-----------------------------------------------------------------------------
(* What the ring holds, oldest first.                                      *)

Occupied == IF tail >= head THEN tail - head ELSE tail - head + RingSize
Slot(k) == IF head + k < RingSize THEN head + k ELSE head + k - RingSize
Contents == [k \in 1 .. Occupied |-> ring[Slot(k - 1)]]

\* A byte that is copied but still in its slot has not been handed out.
HandedOut == IF pc = "advance" THEN SubSeq(buffer, 1, Len(buffer) - 1) ELSE buffer

Queue == INSTANCE ByteQueue WITH
  Capacity <- RingSize - 1, queue <- Contents, handedOut <- HandedOut

\* The ring, with its two indices, the slot that is never used and the reader
\* that copies before it advances, is the bounded queue: no byte is lost,
\* doubled or overtaken except one that finds RingSize - 1 bytes waiting.
ImplementsQueue == Queue!Spec

\* A drop needs a full ring: the handler of a byte either queues it or found
\* all slots but one in use.
DropsOnlyWhenFull ==
  [][rdr # NoByte /\ rdr' = NoByte /\ UNCHANGED tail => Occupied = RingSize - 1]_vars

\* A call comes back without waiting for bytes, whatever arrives meanwhile
\* (microros_transport.c:72-78), as long as the receiver is not overrun.
CallsReturn == []~ore => (pc # "idle" ~> pc = "idle")

\* The same without the condition: what the comment "RX remains
\* interrupt-driven and non-blocking" says of every call.
CallsNeverBlock == pc # "idle" ~> pc = "idle"
=============================================================================
