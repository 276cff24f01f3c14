------------------------------ MODULE ByteFifo ------------------------------
(***************************************************************************)
(* What a send queue promises, with none of its storage: a bounded FIFO of *)
(* bytes.  A push is all or nothing, a pop removes a prefix, and moving    *)
(* the queue away leaves it empty.                                         *)
(***************************************************************************)
EXTENDS Naturals, Sequences

CONSTANTS Byte, Capacity

VARIABLE fifo

Init == fifo = <<>>

Push(data) ==
  /\ Len(fifo) + Len(data) <= Capacity
  /\ fifo' = fifo \o data

Pop(n) ==
  /\ n <= Len(fifo)
  /\ fifo' = SubSeq(fifo, n + 1, Len(fifo))

MoveAway == fifo' = <<>>

\* The bytes a push may carry: any sequence that fits an empty queue.
Data == UNION { [1..n -> Byte] : n \in 0..Capacity }

Next ==
  \/ MoveAway
  \/ \E n \in 0..Len(fifo) : Pop(n)
  \/ \E data \in Data : Push(data)

Spec == Init /\ [][Next]_fifo
=============================================================================
