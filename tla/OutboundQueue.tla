---------------------------- MODULE OutboundQueue ----------------------------
(***************************************************************************)
(* The owner's send queue: a static ring followed by a list of overflow    *)
(* ("spill") segments.  The ring is the logical head of the queue; data    *)
(* may enter it only while there is no spill.  All the sizes are bounded   *)
(* and a rejected append changes nothing.                                  *)
(*                                                                         *)
(* ring is the storage with stale bytes left in place, exactly as the      *)
(* vector keeps them, so that a wrong head or size shows up as a wrong     *)
(* byte and not as a missing one.                                          *)
(***************************************************************************)
EXTENDS Naturals, Sequences, SequencesExt

CONSTANTS
  Byte,            \* the bytes that may be queued
  NoByte,          \* content of a ring cell that was never written
  RingBytes,       \* ring_bytes
  MaxTotalBytes,   \* max_total_bytes
  MaxSegments,     \* max_segments
  MaxMerged        \* kMaxMergedSegmentBytes

\* What the parameters have to be; assumed wherever they are given values.
QueueConstants ==
  /\ NoByte \notin Byte
  /\ {RingBytes, MaxTotalBytes, MaxSegments, MaxMerged} \subseteq Nat

VARIABLE queue     \* [cap, ring, head, size, spill, listBytes]

(***************************************************************************)
(* Construction.  An impossible geometry leaves a queue that refuses every *)
(* non-empty append and owns no ring.                                      *)
(***************************************************************************)
GeometryValid ==
  /\ RingBytes # 0 /\ MaxTotalBytes # 0 /\ MaxSegments # 0
  /\ RingBytes <= MaxTotalBytes

RingOf(n) == [i \in 0..(n - 1) |-> NoByte]

EmptyQueue(n) ==
  [cap |-> n, ring |-> RingOf(n), head |-> 0, size |-> 0,
   spill |-> <<>>, listBytes |-> 0]

QueueInit == queue = EmptyQueue(IF GeometryValid THEN RingBytes ELSE 0)

(***************************************************************************)
(* Queries.                                                                *)
(***************************************************************************)
TotalBytes == queue.size + queue.listBytes

\* Slip: the first view always runs to the physical end of the ring.
ContiguousToEnd(q) == IF q.size = 0 THEN 0 ELSE q.cap - q.head

\* The ring as GatherViews exposes it: the run up to the physical end, then
\* the wrapped rest.
Contiguous(q) == IF q.size < q.cap - q.head THEN q.size ELSE q.cap - q.head

RingViews(q) ==
  LET one == [i \in 1..Contiguous(q) |-> q.ring[q.head + i - 1]]
      two == [i \in 1..(q.size - Contiguous(q)) |-> q.ring[i - 1]]
  IN  (IF q.size # 0 THEN <<one>> ELSE <<>>)
      \o (IF q.size > Contiguous(q) THEN <<two>> ELSE <<>>)

AllViews(q) == RingViews(q) \o q.spill

GatherViews(maxViews) ==
  LET all == AllViews(queue)
  IN  SubSeq(all, 1, IF Len(all) < maxViews THEN Len(all) ELSE maxViews)

\* The logical content of the queue, in the order it is to be sent: what the
\* ring holds counted from its head, then the segments.
Content(q) ==
  [i \in 1..q.size |-> q.ring[(q.head + i - 1) % q.cap]] \o FlattenSeq(q.spill)

(***************************************************************************)
(* Append.  The part that does not fit the ring is merged into the last    *)
(* segment when the result stays small, otherwise it is a segment of its   *)
(* own; a full segment list rejects the whole append.                      *)
(***************************************************************************)
\* Slip: reuse freed ring cells although older bytes wait in the
\* spill, which puts new bytes in front of them.
RingSpaceIgnoresSpill(q) == q.cap - q.size

RingSpace(q) == IF q.spill = <<>> THEN q.cap - q.size ELSE 0

ToRing(q, n) == IF n < RingSpace(q) THEN n ELSE RingSpace(q)

CanMerge(q, n) ==
  /\ n # 0 /\ q.spill # <<>>
  /\ Len(Last(q.spill)) + n <= MaxMerged

\* Slip: the limit on segments is off by one.
AppendAcceptedOneMore(data) ==
  \/ data = <<>>
  \/ LET rest == Len(data) - ToRing(queue, Len(data)) IN
     /\ GeometryValid
     /\ Len(data) <= MaxTotalBytes - TotalBytes
     /\ rest # 0 => CanMerge(queue, rest) \/ Len(queue.spill) <= MaxSegments

AppendAccepted(data) ==
  \/ data = <<>>
  \/ LET rest == Len(data) - ToRing(queue, Len(data)) IN
     /\ GeometryValid
     /\ Len(data) <= MaxTotalBytes - TotalBytes
     /\ rest # 0 => CanMerge(queue, rest) \/ Len(queue.spill) < MaxSegments

\* The two memcpys: consecutive cells from the tail of the ring, wrapping.
RingWrite(q, data, n) ==
  [i \in DOMAIN q.ring |->
     LET k == (i + q.cap - ((q.head + q.size) % q.cap)) % q.cap
     IN  IF k < n THEN data[k + 1] ELSE q.ring[i]]

SpillWrite(q, part) ==
  IF part = <<>> THEN q.spill
  ELSE IF CanMerge(q, Len(part))
       THEN [q.spill EXCEPT ![Len(q.spill)] = @ \o part]
       ELSE Append(q.spill, part)

\* A moved-from queue owns no ring any more, so its appends go to the spill.
QueueAppended(q, data) ==
  LET n    == ToRing(q, Len(data))
      part == SubSeq(data, n + 1, Len(data))
  IN  [q EXCEPT !.spill     = SpillWrite(q, part),
                !.listBytes = @ + Len(part),
                !.ring      = IF n = 0 THEN @ ELSE RingWrite(q, data, n),
                !.size      = @ + n]

AppendQueue(data) ==
  /\ AppendAccepted(data)
  /\ queue' = IF data = <<>> THEN queue ELSE QueueAppended(queue, data)

(***************************************************************************)
(* ConsumeSent: drop the n bytes that the kernel took, first from the ring *)
(* (in at most two runs), then from the segments in order.                 *)
(***************************************************************************)
SpillSizes(q, k) ==
  LET sum[i \in 0..Len(q.spill)] ==
        IF i = 0 THEN 0 ELSE sum[i - 1] + Len(q.spill[i])
  IN  sum[k]

SpillAfter(q, n) ==
  LET gone == { k \in 0..Len(q.spill) : SpillSizes(q, k) <= n }
      k    == CHOOSE j \in gone : \A i \in gone : i <= j
      cut  == n - SpillSizes(q, k)
      rest == SubSeq(q.spill, k + 1, Len(q.spill))
  IN  IF cut = 0 THEN rest
      ELSE [rest EXCEPT ![1] = SubSeq(@, cut + 1, Len(@))]

Consumed(q, n) ==
  LET fromRing == IF n < q.size THEN n ELSE q.size
      m        == n - fromRing
  IN  [q EXCEPT !.head      = IF fromRing = 0 THEN @ ELSE (@ + fromRing) % q.cap,
                !.size      = @ - fromRing,
                !.spill     = SpillAfter(q, m),
                !.listBytes = @ - m]

ConsumeSent(n) ==
  /\ n <= TotalBytes
  /\ queue' = Consumed(queue, n)

(***************************************************************************)
(* Being the source of a move: the storage goes away, the geometry stays   *)
(* valid, and the queue may be used again without a ring.                  *)
(***************************************************************************)
MovedFrom == queue' = EmptyQueue(0)

-----------------------------------------------------------------------------
QueueNext ==
  \/ \E n \in 0..MaxTotalBytes : \E data \in [1..n -> Byte] : AppendQueue(data)
  \/ \E n \in 0..TotalBytes : ConsumeSent(n)
  \/ MovedFrom

QueueSpec == QueueInit /\ [][QueueNext]_queue

-----------------------------------------------------------------------------
\* Type invariant of the queue's storage (OutboundQueue.hpp, private members).
QueueTypeOK ==
  /\ queue.cap \in {0, RingBytes}
  /\ queue.ring \in [0..(queue.cap - 1) -> Byte \cup {NoByte}]
  /\ queue.head \in 0..queue.cap
  /\ queue.size \in 0..queue.cap
  /\ queue.spill \in Seq(Seq(Byte))
  /\ queue.listBytes \in Nat

\* Resource bounds of OutboundQueue::Append, beside the types: whatever sequence of appends,
\* partial sends and moves happened, the bytes stay within max_total_bytes, the
\* overflow segments within max_segments, no empty segment is kept (it would
\* make GatherViews hand the kernel an empty view) and the cached list_bytes_
\* counter is the real size of the segments.
BoundsHold ==
  /\ QueueTypeOK
  /\ TotalBytes <= MaxTotalBytes
  /\ Len(queue.spill) <= MaxSegments
  /\ \A i \in DOMAIN queue.spill : queue.spill[i] # <<>>
  /\ queue.listBytes = SpillSizes(queue, Len(queue.spill))

\* GatherViews hands the kernel a prefix of the queue, in order, however few
\* views are asked for: the prefix the following ConsumeSent removes.
GatherIsPrefix ==
  \A maxViews \in 0..(MaxSegments + 2) :
    IsPrefix(FlattenSeq(GatherViews(maxViews)), Content(queue))

\* The queue with its ring, wrap-around, merging and partial consumption
\* implements a bounded FIFO of bytes: the order in which Append accepted bytes
\* is the order in which ConsumeSent releases them.
Fifo == INSTANCE ByteFifo WITH fifo <- Content(queue), Capacity <- MaxTotalBytes
ImplementsFifo == Fifo!Spec

\* OutboundQueue.hpp as a whole: a queue within its limits, gathered in
\* prefixes, whose bytes leave in the order Append took them.
QueueCorrect ==
  /\ [](BoundsHold /\ GatherIsPrefix)
  /\ ImplementsFifo

=============================================================================
