------------------------------ MODULE SpscQueue ------------------------------
(***************************************************************************)
(* What SPSCRingBuffer (src/common/spsc_ring_buffer.hpp) promises the      *)
(* producer and the consumer: a bounded FIFO whose two ends learn of each  *)
(* other's progress late.  The only thing the acquire loads of the ring    *)
(* guarantee is that a thread never sees the other side go backwards, so   *)
(* the producer may take a queue for full, and the consumer for empty,     *)
(* that no longer is.                                                      *)
(***************************************************************************)
EXTENDS Integers, Sequences

CONSTANTS Values,      \* what is transported (T)
          Capacity     \* the template parameter Capacity; one slot is unused

\* static_assert(Capacity > 1): at least one usable slot.
ASSUME CapacityAssumption == Capacity \in Nat /\ Capacity > 1

VARIABLES accepted,    \* every value tryPush returned true for, in order
          delivered,   \* every value tryPop returned true with, in order
          seenPops,    \* how many pops the producer knows of
          seenPushes   \* how many pushes the consumer knows of

queueVars == <<accepted, delivered, seenPops, seenPushes>>

QueueInit ==
    /\ accepted = <<>> /\ delivered = <<>>
    /\ seenPops = 0 /\ seenPushes = 0

\* SPSCRingBuffer::capacity(): one slot tells full from empty.
UsableCapacity == Capacity - 1

\* The producer learns of some of the pops it did not know of.
LearnPops ==
    /\ seenPops' \in seenPops .. Len(delivered)
    /\ UNCHANGED <<accepted, delivered, seenPushes>>

\* The consumer learns of some of the pushes it did not know of.
LearnPushes ==
    /\ seenPushes' \in seenPushes .. Len(accepted)
    /\ UNCHANGED <<accepted, delivered, seenPops>>

\* A tryPush that returns true.
Push(v) ==
    /\ Len(accepted) - seenPops < UsableCapacity
    /\ accepted' = Append(accepted, v)
    /\ UNCHANGED <<delivered, seenPops, seenPushes>>

\* A tryPop that returns true: it hands out the oldest value not yet popped.
Pop ==
    /\ Len(delivered) < seenPushes
    /\ delivered' = Append(delivered, accepted[Len(delivered) + 1])
    /\ UNCHANGED <<accepted, seenPops, seenPushes>>

QueueNext ==
    \/ LearnPops
    \/ LearnPushes
    \/ \E v \in Values : Push(v)
    \/ Pop

QueueSpec == QueueInit /\ [][QueueNext]_queueVars
=============================================================================
