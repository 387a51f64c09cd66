------------------------------ MODULE ByteQueue ------------------------------
(***************************************************************************)
(* What the receive ring promises the XRCE layer: a first-in first-out     *)
(* queue of at most Capacity bytes. The bytes a call hands out are the     *)
(* oldest ones that were accepted, in order, each once, and at most        *)
(* MaxRead of them. A byte that is dropped leaves no trace here.           *)
(***************************************************************************)
EXTENDS Naturals, Sequences

CONSTANTS Bytes, Capacity, MaxRead

VARIABLES
  queue,      \* bytes that wait
  handedOut   \* bytes the present call of the reader has taken

vars == <<queue, handedOut>>

Init == queue = <<>> /\ handedOut = <<>>

Accept(b) ==
  /\ Len(queue) < Capacity
  /\ queue' = Append(queue, b)
  /\ UNCHANGED handedOut

Take ==
  /\ queue # <<>>
  /\ Len(handedOut) < MaxRead
  /\ handedOut' = Append(handedOut, Head(queue))
  /\ queue' = Tail(queue)

\* The call returns to its caller.
Return ==
  /\ handedOut' = <<>>
  /\ UNCHANGED queue

Next == (\E b \in Bytes : Accept(b)) \/ Take \/ Return

Spec == Init /\ [][Next]_vars
=============================================================================
