--------------------------- MODULE SpscRingBuffer ---------------------------
(***************************************************************************)
(* SPSCRingBuffer (src/common/spsc_ring_buffer.hpp), one step per access   *)
(* to shared memory, under the C++ memory model.                           *)
(*                                                                         *)
(* An atomic index is the sequence of the values stored to it (its         *)
(* modification order).  Its only writer always reads the last one; the    *)
(* other thread's acquire load returns any entry not older than the one it *)
(* read before.  Loading an entry synchronises with the release store that *)
(* wrote it, so the number of stores a thread has seen is also how much of *)
(* the other thread's work happens before its own next step: with it, two  *)
(* unordered accesses to one slot are a data race.                         *)
(***************************************************************************)
EXTENDS SpscQueue

CONSTANTS NoValue,      \* a slot never written
          MaxPushes,    \* bound: successful tryPush calls in a behaviour
          MaxFailures   \* bound: failed calls counted on either side

ASSUME NoValueAssumption == NoValue \notin Values
ASSUME BoundAssumption == MaxPushes \in Nat /\ MaxFailures \in Nat

VARIABLES head_, tail_,            \* modification orders of the atomics
          buffer_,
          pushCount, popCount, pushFailures, popFailures, highWaterMark,
          ppc, pushing,            \* the producer in tryPush(pushing)
          cpc, value,              \* the consumer in tryPop(value)
          lastWrite, lastRead,     \* per slot: which push wrote, which pop read it last
          maxDepth                 \* the largest number of elements ever queued

ringVars == <<head_, tail_, buffer_>>
metrics_ == <<pushCount, popCount, pushFailures, popFailures, highWaterMark>>
producerVars == <<ppc, pushing>>
consumerVars == <<cpc, value>>
raceVars == <<lastWrite, lastRead>>
vars == <<queueVars, ringVars, metrics_, producerVars, consumerVars, raceVars, maxDepth>>

Slots == 0 .. Capacity - 1

Init ==
    /\ QueueInit
    /\ head_ = <<0>> /\ tail_ = <<0>>
    /\ buffer_ = [s \in Slots |-> NoValue]
    /\ pushCount = 0 /\ popCount = 0
    /\ pushFailures = 0 /\ popFailures = 0 /\ highWaterMark = 0
    /\ ppc = "idle" /\ pushing = NoValue
    /\ cpc = "idle" /\ value = NoValue
    /\ lastWrite = [s \in Slots |-> 0] /\ lastRead = [s \in Slots |-> 0]
    /\ maxDepth = 0

-----------------------------------------------------------------------------
\* Variant: no wrap-around.
increment_noWrap(index) == index + 1

increment(index) == (index + 1) % Capacity

\* What the last store to an atomic left in it.
Current(atomic) == atomic[Len(atomic)]

\* Variant: a wrapped ring counted against its usable slots.
sizeOf_usable(head, tail) == IF head >= tail THEN head - tail ELSE Capacity - 1 - tail + head

\* The depth computed from a pair of indexes (size(), and currentSize in tryPush).
sizeOf(head, tail) == IF head >= tail THEN head - tail ELSE Capacity - tail + head

\* The first store to tail_ is its initial value: n pops are known when entry
\* n + 1 of the modification order is.
TailSeen == tail_[seenPops + 1]

-----------------------------------------------------------------------------
(* tryPush *)

\* Variant: the ring is never taken for full.
tryPushLoad_neverFull(v, known) ==
    /\ ppc = "idle"
    /\ seenPops' = known
    /\ Len(accepted) < MaxPushes
    /\ ppc' = "write" /\ pushing' = v
    /\ UNCHANGED <<accepted, delivered, seenPushes, ringVars, metrics_, consumerVars, raceVars, maxDepth>>

\* Loads head_ and tail_; returns false on a full ring.
tryPushLoad(v, known) ==
    /\ ppc = "idle"
    /\ seenPops' = known
    /\ IF increment(Current(head_)) = tail_[known + 1]
       THEN /\ pushFailures < MaxFailures
            /\ pushFailures' = pushFailures + 1
            /\ UNCHANGED producerVars
       ELSE /\ Len(accepted) < MaxPushes
            /\ ppc' = "write" /\ pushing' = v
            /\ UNCHANGED pushFailures
    /\ UNCHANGED <<accepted, delivered, seenPushes, ringVars, pushCount, popCount,
                   popFailures, highWaterMark, consumerVars, raceVars, maxDepth>>

\* buffer_[head] = value
tryPushWrite ==
    /\ ppc = "write"
    /\ ppc' = "publish"
    /\ buffer_' = [buffer_ EXCEPT ![Current(head_)] = pushing]
    /\ lastWrite' = [lastWrite EXCEPT ![Current(head_)] = Len(head_)]
    /\ UNCHANGED <<queueVars, head_, tail_, metrics_, pushing, consumerVars, lastRead, maxDepth>>

\* head_.store(nextHead, release): the value is in the queue.
tryPushPublish ==
    /\ ppc = "publish"
    /\ ppc' = "count"
    /\ head_' = Append(head_, increment(Current(head_)))
    /\ accepted' = Append(accepted, pushing)
    /\ maxDepth' = IF Len(accepted') - Len(delivered) > maxDepth
                   THEN Len(accepted') - Len(delivered) ELSE maxDepth
    /\ UNCHANGED <<delivered, seenPops, seenPushes, tail_, buffer_, metrics_, pushing,
                   consumerVars, raceVars>>

\* Variant: the depth is computed from the head before the push.
tryPushCount_oldHead ==
    /\ ppc = "count"
    /\ ppc' = "idle" /\ pushing' = NoValue
    /\ pushCount' = pushCount + 1
    /\ LET currentSize == sizeOf(head_[Len(head_) - 1], TailSeen)
       IN  highWaterMark' = IF currentSize > highWaterMark THEN currentSize ELSE highWaterMark
    /\ UNCHANGED <<queueVars, ringVars, popCount, pushFailures, popFailures,
                   consumerVars, raceVars, maxDepth>>

\* The metrics, from the tail read before the store; returns true.
tryPushCount ==
    /\ ppc = "count"
    /\ ppc' = "idle" /\ pushing' = NoValue
    /\ pushCount' = pushCount + 1
    /\ LET currentSize == sizeOf(Current(head_), TailSeen)
       IN  highWaterMark' = IF currentSize > highWaterMark THEN currentSize ELSE highWaterMark
    /\ UNCHANGED <<queueVars, ringVars, popCount, pushFailures, popFailures,
                   consumerVars, raceVars, maxDepth>>

-----------------------------------------------------------------------------
(* tryPop *)

\* Variant: head_ is loaded with memory_order_relaxed, which synchronises with
\* nothing.
tryPopLoad_relaxed(known) ==
    /\ cpc = "idle" /\ Current(tail_) # head_[known + 1]
    /\ cpc' = "read"
    /\ UNCHANGED <<queueVars, ringVars, metrics_, producerVars, value, raceVars, maxDepth>>

\* Variant: a full ring is taken for an empty one.
tryPopLoad_fullIsEmpty(known) ==
    /\ cpc = "idle"
    /\ seenPushes' = known
    /\ IF head_[known + 1] \in {Current(tail_), (Current(tail_) + Capacity - 1) % Capacity}
       THEN /\ popFailures < MaxFailures
            /\ popFailures' = popFailures + 1
            /\ UNCHANGED cpc
       ELSE /\ cpc' = "read"
            /\ UNCHANGED popFailures
    /\ UNCHANGED <<accepted, delivered, seenPops, ringVars, pushCount, popCount,
                   pushFailures, highWaterMark, producerVars, value, raceVars, maxDepth>>

\* Loads tail_ and head_; returns false on an empty ring.
tryPopLoad(known) ==
    /\ cpc = "idle"
    /\ seenPushes' = known
    /\ IF Current(tail_) = head_[known + 1]
       THEN /\ popFailures < MaxFailures
            /\ popFailures' = popFailures + 1
            /\ UNCHANGED cpc
       ELSE /\ cpc' = "read"
            /\ UNCHANGED popFailures
    /\ UNCHANGED <<accepted, delivered, seenPops, ringVars, pushCount, popCount,
                   pushFailures, highWaterMark, producerVars, value, raceVars, maxDepth>>

\* value = buffer_[tail]
tryPopRead ==
    /\ cpc = "read"
    /\ cpc' = "publish"
    /\ value' = buffer_[Current(tail_)]
    /\ lastRead' = [lastRead EXCEPT ![Current(tail_)] = Len(tail_)]
    /\ UNCHANGED <<queueVars, ringVars, metrics_, producerVars, lastWrite, maxDepth>>

\* tail_.store(increment(tail), release): the slot is free again.
tryPopPublish ==
    /\ cpc = "publish"
    /\ cpc' = "count"
    /\ tail_' = Append(tail_, increment(Current(tail_)))
    /\ delivered' = Append(delivered, value)
    /\ UNCHANGED <<accepted, seenPops, seenPushes, head_, buffer_, metrics_, producerVars,
                   value, raceVars, maxDepth>>

\* The pop counter; returns true.
tryPopCount ==
    /\ cpc = "count"
    /\ cpc' = "idle"
    /\ popCount' = popCount + 1
    /\ UNCHANGED <<queueVars, ringVars, pushCount, pushFailures, popFailures, highWaterMark,
                   producerVars, value, raceVars, maxDepth>>

-----------------------------------------------------------------------------
Producer ==
    \/ \E v \in Values, known \in seenPops .. Len(delivered) : tryPushLoad(v, known)
    \/ tryPushWrite
    \/ tryPushPublish
    \/ tryPushCount

Consumer ==
    \/ \E known \in seenPushes .. Len(accepted) : tryPopLoad(known)
    \/ tryPopRead
    \/ tryPopPublish
    \/ tryPopCount

Next == Producer \/ Consumer

Spec == Init /\ [][Next]_vars

\* Both threads keep running, and a store to an atomic becomes visible to the
\* consumer's polling after finitely many loads.
FairSpec ==
    /\ Spec
    /\ WF_vars(tryPushWrite \/ tryPushPublish \/ tryPushCount)
    /\ WF_vars(tryPopRead \/ tryPopPublish \/ tryPopCount)
    /\ SF_vars(tryPopLoad(Len(accepted)))
-----------------------------------------------------------------------------
(* Properties *)

\* The indexes stay inside the buffer, the threads inside their calls, and a
\* view never runs ahead of what the other thread did.
TypeOK ==
    /\ accepted \in Seq(Values) /\ delivered \in Seq(Values)
    /\ seenPops \in 0 .. Len(delivered) /\ seenPushes \in 0 .. Len(accepted)
    /\ head_ \in Seq(Slots) /\ tail_ \in Seq(Slots)
    /\ buffer_ \in [Slots -> Values \cup {NoValue}]
    /\ pushCount \in Nat /\ popCount \in Nat
    /\ pushFailures \in 0 .. MaxFailures /\ popFailures \in 0 .. MaxFailures
    /\ highWaterMark \in Nat /\ maxDepth \in Nat
    /\ ppc \in {"idle", "write", "publish", "count"}
    /\ cpc \in {"idle", "read", "publish", "count"}
    /\ pushing \in Values \cup {NoValue} /\ value \in Values \cup {NoValue}
    /\ lastWrite \in [Slots -> Nat] /\ lastRead \in [Slots -> Nat]

\* tryPush writes a slot only after the last tryPop that read it happens before
\* the write, and tryPop reads a slot only after the tryPush that wrote it
\* happens before the read: the non-atomic buffer_ has no data race, whatever
\* stale index the acquire loads return.
NoDataRace ==
    /\ ppc = "write" => lastRead[Current(head_)] <= seenPops
    /\ cpc = "read" => lastWrite[Current(tail_)] <= seenPushes

\* highWaterMark is computed from a tail_ that may be stale by then.  Between
\* calls of tryPush it still never reports less than the deepest the queue has
\* been, nor more than the ring can hold.
HighWaterMarkHonest ==
    /\ ppc # "count" => maxDepth <= highWaterMark
    /\ highWaterMark <= UsableCapacity

\* size(), empty() and full() read head_ and tail_ one after the other.  While
\* neither thread is between a store and its counter, the pair of indexes gives
\* the exact depth, and the relaxed counters agree with it.
IndexesGiveDepth ==
    LET depth == Len(accepted) - Len(delivered)
    IN  /\ sizeOf(Current(head_), Current(tail_)) = depth
        /\ (increment(Current(head_)) = Current(tail_)) <=> (depth = UsableCapacity)
        /\ (ppc # "count" /\ cpc # "count") => pushCount - popCount = depth

\* The ring implements the bounded FIFO: what tryPop returns is what tryPush
\* accepted, in order, none lost, none repeated, never more than fits.
RefinesQueue == QueueSpec

\* Whatever tryPush accepted, the polling consumer eventually gets.
AcceptedIsDelivered ==
    \A n \in 1 .. MaxPushes : (Len(accepted) >= n) ~> (Len(delivered) >= n)
=============================================================================
