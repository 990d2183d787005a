----------------------- MODULE SpscRingBufferProofs -----------------------
(***************************************************************************)
(* For every capacity, every set of values and every number of calls: the  *)
(* ring buffer has no data race, implements the bounded FIFO of SpscQueue, *)
(* and its high-water mark is honest.                                      *)
(***************************************************************************)
EXTENDS SpscRingBuffer, TLAPS

\* Division with remainder, as increment() and the slot of a push use it.
LEMMA DivMod ==
    ASSUME NEW C \in Nat, C > 0, NEW a \in Nat
    PROVE  /\ a % C \in 0 .. C - 1
           /\ a \div C \in Nat
           /\ a = C * (a \div C) + (a % C)
BY Z3

\* Distinct multiples of the capacity are a whole lap apart.
LEMMA Gap ==
    ASSUME NEW C \in Nat, C > 0, NEW q1 \in Nat, NEW q2 \in Nat, q1 < q2
    PROVE  C * q2 >= C * q1 + C
<1>1. C * (q1 + 1) = C * q1 + C
  OBVIOUS
<1>2. C * q2 = C * (q1 + 1) + C * (q2 - q1 - 1)
  OBVIOUS
<1>3. C * (q2 - q1 - 1) >= 0
  OBVIOUS
<1> QED BY <1>1, <1>2, <1>3

\* Quotient and remainder are unique.
LEMMA Unique ==
    ASSUME NEW C \in Nat, C > 0, NEW q1 \in Nat, NEW q2 \in Nat,
           NEW r1 \in 0 .. C - 1, NEW r2 \in 0 .. C - 1,
           C * q1 + r1 = C * q2 + r2
    PROVE  q1 = q2 /\ r1 = r2
<1>1. CASE q1 < q2
  <2>1. C * q2 >= C * q1 + C BY Gap, <1>1
  <2> QED BY <2>1
<1>2. CASE q2 < q1
  <2>1. C * q1 >= C * q2 + C BY Gap, <1>2
  <2> QED BY <2>1
<1>3. CASE q1 = q2
  BY <1>3
<1> QED BY <1>1, <1>2, <1>3

\* increment() applied to a wrapped index is the wrapped successor.
LEMMA ModSucc ==
    ASSUME NEW C \in Nat, C > 1, NEW a \in Nat
    PROVE  ((a % C) + 1) % C = (a + 1) % C
<1> DEFINE q == a \div C
           r == a % C
           p == (a + 1) \div C
           s == (a + 1) % C
<1>1. r \in 0 .. C - 1 /\ q \in Nat /\ a = C * q + r
  BY DivMod
<1>2. s \in 0 .. C - 1 /\ p \in Nat /\ a + 1 = C * p + s
  BY DivMod
<1> HIDE DEF q, r, p, s
<1>3. CASE r + 1 < C
  <2>1. (r + 1) % C = r + 1
    <3>1. (r + 1) % C \in 0 .. C - 1 /\ (r + 1) \div C \in Nat
            /\ r + 1 = C * ((r + 1) \div C) + ((r + 1) % C)
      BY <1>1, DivMod
    <3>2. r + 1 = C * 0 + (r + 1)
      BY <1>1
    <3> QED BY <3>1, <3>2, <1>1, <1>3, Unique
  <2>2. C * p + s = C * q + (r + 1) /\ r + 1 \in 0 .. C - 1
    BY <1>1, <1>2, <1>3
  <2>3. s = r + 1
    BY <2>2, <1>1, <1>2, Unique
  <2> QED BY <2>1, <2>3 DEF r, s
<1>4. CASE r + 1 = C
  <2>1. C % C = 0
    <3>1. C % C \in 0 .. C - 1 /\ C \div C \in Nat
            /\ C = C * (C \div C) + (C % C)
      BY DivMod
    <3>2. C = C * 1 + 0
      OBVIOUS
    <3> QED BY <3>1, <3>2, Unique
  <2>2. C * p + s = C * (q + 1) + 0 /\ q + 1 \in Nat
    BY <1>1, <1>2, <1>4
  <2>3. s = 0
    BY <2>2, <1>1, <1>2, Unique
  <2> QED BY <2>1, <2>3, <1>4 DEF r, s
<1> QED BY <1>1, <1>3, <1>4

\* Two positions share a slot only when they are at least a lap apart.
LEMMA ModDistinct ==
    ASSUME NEW C \in Nat, C > 1, NEW a \in Nat, NEW b \in Nat, a < b, a % C = b % C
    PROVE  b - a >= C
<1>1. a % C \in 0 .. C - 1 /\ a \div C \in Nat /\ a = C * (a \div C) + (a % C)
  BY DivMod
<1>2. b % C \in 0 .. C - 1 /\ b \div C \in Nat /\ b = C * (b \div C) + (b % C)
  BY DivMod
<1>3. a \div C # b \div C
  BY <1>1, <1>2
<1>4. CASE a \div C < b \div C
  <2>1. C * (b \div C) >= C * (a \div C) + C
    BY <1>1, <1>2, <1>4, Gap
  <2> QED BY <2>1, <1>1, <1>2
<1>5. CASE b \div C < a \div C
  <2>1. C * (a \div C) >= C * (b \div C) + C
    BY <1>1, <1>2, <1>5, Gap
  <2> QED BY <2>1, <1>1, <1>2
<1> QED BY <1>1, <1>2, <1>3, <1>4, <1>5

\* A lap further is the same slot: a full ring's next head meets the tail.
LEMMA ModLap ==
    ASSUME NEW C \in Nat, C > 1, NEW a \in Nat
    PROVE  (a + C) % C = a % C
<1> DEFINE q == a \div C
           r == a % C
           p == (a + C) \div C
           s == (a + C) % C
<1>1. r \in 0 .. C - 1 /\ q \in Nat /\ a = C * q + r
  BY DivMod
<1>2. s \in 0 .. C - 1 /\ p \in Nat /\ a + C = C * p + s
  BY DivMod
<1> HIDE DEF q, r, p, s
<1>3. C * p + s = C * (q + 1) + r /\ q + 1 \in Nat
  BY <1>1, <1>2
<1>4. s = r
  BY <1>1, <1>2, <1>3, Unique
<1> QED BY <1>4 DEF r, s

\* sizeOf(head, tail) recovers the distance of two positions less than a lap apart.
LEMMA ModGap ==
    ASSUME NEW C \in Nat, C > 1, NEW a \in Nat, NEW b \in Nat, a <= b, b - a < C
    PROVE  b - a = IF b % C >= a % C THEN (b % C) - (a % C) ELSE C - (a % C) + (b % C)
<1>1. a % C \in 0 .. C - 1 /\ a \div C \in Nat /\ a = C * (a \div C) + (a % C)
  BY DivMod
<1>2. b % C \in 0 .. C - 1 /\ b \div C \in Nat /\ b = C * (b \div C) + (b % C)
  BY DivMod
<1>3. CASE a \div C = b \div C
  BY <1>1, <1>2, <1>3
<1>4. CASE b \div C = (a \div C) + 1
  <2>1. C * (b \div C) = C * (a \div C) + C
    BY <1>1, <1>2, <1>4
  <2> QED BY <2>1, <1>1, <1>2
<1>5. CASE a \div C + 1 < b \div C
  <2>1. C * (b \div C) >= C * ((a \div C) + 1) + C
    BY <1>1, <1>2, <1>5, Gap
  <2>2. C * ((a \div C) + 1) = C * (a \div C) + C
    BY <1>1
  <2> QED BY <2>1, <2>2, <1>1, <1>2
<1>6. CASE b \div C < a \div C
  <2>1. C * (a \div C) >= C * (b \div C) + C
    BY <1>1, <1>2, <1>6, Gap
  <2> QED BY <2>1, <1>1, <1>2
<1> QED BY <1>1, <1>2, <1>3, <1>4, <1>5, <1>6

-----------------------------------------------------------------------------
(* The inductive invariant *)

\* The k-th store to an index wrote k % Capacity: indexes are the numbers of
\* pushes and pops, wrapped.
IndexInv ==
    /\ Len(head_) = Len(accepted) + 1
    /\ Len(tail_) = Len(delivered) + 1
    /\ \A i \in 1 .. Len(head_) : head_[i] = (i - 1) % Capacity
    /\ \A i \in 1 .. Len(tail_) : tail_[i] = (i - 1) % Capacity

\* Each side's knowledge of the other bounds what it may do.
ViewInv ==
    /\ Len(delivered) <= seenPushes
    /\ cpc \in {"read", "publish"} => Len(delivered) < seenPushes
    /\ Len(accepted) - seenPops <= Capacity - 1
    /\ ppc \in {"write", "publish"} => Len(accepted) - seenPops < Capacity - 1

\* The slots between tail and head hold the accepted values not yet delivered.
ContentInv ==
    /\ \A i \in Len(delivered) + 1 .. Len(accepted) : buffer_[(i - 1) % Capacity] = accepted[i]
    /\ ppc \in {"write", "publish"} => pushing \in Values
    /\ ppc = "publish" => buffer_[Len(accepted) % Capacity] = pushing
    /\ cpc = "publish" => value = accepted[Len(delivered) + 1]

\* Which push wrote a slot in use, and which pops may have read a slot.
RaceInv ==
    /\ \A i \in Len(delivered) + 1 .. Len(accepted) : lastWrite[(i - 1) % Capacity] = i
    /\ ppc = "publish" => lastWrite[Len(accepted) % Capacity] = Len(accepted) + 1
    /\ \A s \in Slots : lastRead[s] # 0 =>
          /\ (lastRead[s] - 1) % Capacity = s
          /\ lastRead[s] <= Len(delivered) + 1
          /\ lastRead[s] = Len(delivered) + 1 => cpc = "publish"

\* What the high-water mark has yet to catch up with.
DepthInv ==
    /\ highWaterMark <= Capacity - 1
    /\ maxDepth <= highWaterMark \/ (ppc = "count" /\ maxDepth <= Len(accepted) - seenPops)

\* The relaxed counters lag the queue by the call that has yet to count.
CountInv ==
    /\ pushCount + (IF ppc = "count" THEN 1 ELSE 0) = Len(accepted)
    /\ popCount + (IF cpc = "count" THEN 1 ELSE 0) = Len(delivered)

Inv == TypeOK /\ IndexInv /\ ViewInv /\ ContentInv /\ RaceInv /\ DepthInv /\ CountInv

\* The facts about the indexes every step uses: the producer's and the
\* consumer's own index, and what each loads of the other's.
LEMMA IndexFacts ==
    ASSUME Inv
    PROVE  /\ Current(head_) = Len(accepted) % Capacity
           /\ Current(tail_) = Len(delivered) % Capacity
           /\ Current(head_) \in Slots /\ Current(tail_) \in Slots
           /\ increment(Current(head_)) = (Len(accepted) + 1) % Capacity
           /\ increment(Current(tail_)) = (Len(delivered) + 1) % Capacity
           /\ increment(Current(head_)) \in Slots /\ increment(Current(tail_)) \in Slots
           /\ \A k \in 0 .. Len(accepted) : head_[k + 1] = k % Capacity
           /\ \A k \in 0 .. Len(delivered) : tail_[k + 1] = k % Capacity
           /\ seenPops \in Nat /\ Len(delivered) \in Nat /\ seenPushes \in Nat /\ Len(accepted) \in Nat
           /\ seenPops <= Len(delivered) /\ Len(delivered) <= seenPushes
           /\ seenPushes <= Len(accepted)
<1>1. /\ seenPops \in Nat /\ Len(delivered) \in Nat /\ seenPushes \in Nat /\ Len(accepted) \in Nat
      /\ seenPops <= Len(delivered) /\ Len(delivered) <= seenPushes
      /\ seenPushes <= Len(accepted)
  BY DEF Inv, TypeOK, ViewInv
<1>2. /\ Current(head_) = Len(accepted) % Capacity
      /\ Current(tail_) = Len(delivered) % Capacity
  BY <1>1 DEF Inv, IndexInv, Current
<1>3. /\ increment(Current(head_)) = (Len(accepted) + 1) % Capacity
      /\ increment(Current(tail_)) = (Len(delivered) + 1) % Capacity
  BY <1>1, <1>2, CapacityAssumption, ModSucc DEF increment
<1>4. /\ Current(head_) \in Slots /\ Current(tail_) \in Slots
      /\ increment(Current(head_)) \in Slots /\ increment(Current(tail_)) \in Slots
  BY <1>1, <1>2, <1>3, CapacityAssumption, DivMod DEF Slots
<1>5. /\ \A k \in 0 .. Len(accepted) : head_[k + 1] = k % Capacity
      /\ \A k \in 0 .. Len(delivered) : tail_[k + 1] = k % Capacity
  BY <1>1 DEF Inv, IndexInv
<1> QED BY <1>1, <1>2, <1>3, <1>4, <1>5

\* A new ring satisfies the invariant.
LEMMA InitInv == Init => Inv
<1> SUFFICES ASSUME Init PROVE Inv
  OBVIOUS
<1>1. 0 \in Slots /\ 0 % Capacity = 0
  <2>1. 0 % Capacity \in 0 .. Capacity - 1 /\ 0 \div Capacity \in Nat
          /\ 0 = Capacity * (0 \div Capacity) + (0 % Capacity)
    BY CapacityAssumption, DivMod
  <2>2. 0 = Capacity * 0 + 0 /\ 0 \in 0 .. Capacity - 1
    BY CapacityAssumption
  <2> QED BY <2>1, <2>2, CapacityAssumption, Unique DEF Slots
<1>2. TypeOK
  BY <1>1, CapacityAssumption, BoundAssumption DEF Init, QueueInit, TypeOK
<1>3. IndexInv
  BY <1>1 DEF Init, QueueInit, IndexInv
<1>4. ViewInv /\ ContentInv /\ RaceInv /\ DepthInv
  BY CapacityAssumption DEF Init, QueueInit, ViewInv, ContentInv, RaceInv, DepthInv
<1>5. CountInv
  BY DEF Init, QueueInit, CountInv
<1> QED BY <1>2, <1>3, <1>4, <1>5 DEF Inv

\* A load of tail_ by tryPush preserves the invariant: passing the full check
\* leaves room for one more.
LEMMA PushLoadInv ==
    ASSUME Inv, NEW v \in Values, NEW known \in seenPops .. Len(delivered), tryPushLoad(v, known)
    PROVE  Inv'
<1> USE DEF tryPushLoad, queueVars, ringVars, metrics_, producerVars, consumerVars, raceVars
<1>1. /\ known \in 0 .. Len(delivered) /\ known \in Nat
      /\ Len(delivered) <= Len(accepted) /\ Len(accepted) \in Nat
  BY IndexFacts
<1>2. TypeOK'
  <2>1. seenPops' \in 0 .. Len(delivered')
    BY <1>1
  <2>2. pushFailures' \in 0 .. MaxFailures
    <3>1. pushFailures \in 0 .. MaxFailures /\ MaxFailures \in Nat
      BY BoundAssumption DEF Inv, TypeOK
    <3>2. pushFailures' = pushFailures \/ (pushFailures < MaxFailures /\ pushFailures' = pushFailures + 1)
      OBVIOUS
    <3> QED BY ONLY <3>1, <3>2
  <2>3. ppc' \in {"idle", "write", "publish", "count"} /\ pushing' \in Values \cup {NoValue}
    BY DEF Inv, TypeOK
  <2> QED BY <2>1, <2>2, <2>3 DEF Inv, TypeOK
<1>3. Len(accepted) - known <= Capacity - 1
  BY <1>1, CapacityAssumption DEF Inv, ViewInv, TypeOK
<1>4. ppc' = "write" => Len(accepted) - known < Capacity - 1
  <2> SUFFICES ASSUME ppc' = "write", Len(accepted) - known = Capacity - 1
               PROVE  FALSE
    BY <1>1, <1>3, CapacityAssumption
  <2>1. increment(Current(head_)) # tail_[known + 1]
    BY DEF Inv, TypeOK
  <2>2. (Len(accepted) + 1) % Capacity # known % Capacity
    BY <2>1, <1>1, IndexFacts
  <2>3. Len(accepted) + 1 = known + Capacity
    BY <1>1, CapacityAssumption
  <2> QED BY <2>2, <2>3, <1>1, CapacityAssumption, ModLap
<1>5. IndexInv'
  BY DEF Inv, IndexInv
<1>6. ViewInv'
  BY <1>3, <1>4 DEF Inv, ViewInv, TypeOK
<1>7. ContentInv'
  BY DEF Inv, ContentInv, TypeOK
<1>8. RaceInv'
  BY DEF Inv, RaceInv
<1>9. DepthInv'
  BY DEF Inv, DepthInv
<1>20. CountInv'
  BY DEF Inv, CountInv, TypeOK
<1> QED BY <1>2, <1>5, <1>6, <1>7, <1>8, <1>9, <1>20 DEF Inv
\* Writing the slot at head_ touches none of the slots in use: they are less
\* than a lap behind it.
LEMMA PushWriteInv ==
    ASSUME Inv, tryPushWrite
    PROVE  Inv'
<1> USE DEF tryPushWrite, queueVars, ringVars, metrics_, producerVars, consumerVars, raceVars
<1>1. /\ Current(head_) = Len(accepted) % Capacity /\ Current(head_) \in Slots
      /\ Len(delivered) \in Nat /\ Len(accepted) \in Nat /\ seenPops \in Nat
      /\ seenPops <= Len(delivered) /\ Len(accepted) - seenPops < Capacity - 1
  BY IndexFacts DEF Inv, ViewInv
<1>2. \A i \in Len(delivered) + 1 .. Len(accepted) :
        (i - 1) % Capacity \in Slots /\ (i - 1) % Capacity # Current(head_)
  <2> SUFFICES ASSUME NEW i \in Len(delivered) + 1 .. Len(accepted)
               PROVE  (i - 1) % Capacity \in Slots /\ (i - 1) % Capacity # Len(accepted) % Capacity
    BY <1>1
  <2>1. i - 1 \in Nat /\ i - 1 < Len(accepted) /\ ~(Len(accepted) - (i - 1) >= Capacity)
    BY <1>1, CapacityAssumption
  <2>2. (i - 1) % Capacity \in Slots
    BY <2>1, CapacityAssumption, DivMod DEF Slots
  <2>3. (i - 1) % Capacity # Len(accepted) % Capacity
    BY <2>1, <1>1, CapacityAssumption, ModDistinct
  <2> QED BY <2>2, <2>3
<1>3. TypeOK'
  <2>1. /\ buffer_' \in [Slots -> Values \cup {NoValue}]
        /\ lastWrite' \in [Slots -> Nat]
    BY <1>1 DEF Inv, TypeOK
  <2> QED BY <2>1 DEF Inv, TypeOK
<1>4. IndexInv'
  BY DEF Inv, IndexInv
<1>5. ViewInv'
  BY DEF Inv, ViewInv
<1>6. ContentInv'
  <2>1. \A i \in Len(delivered) + 1 .. Len(accepted) :
          buffer_'[(i - 1) % Capacity] = buffer_[(i - 1) % Capacity]
    BY <1>2 DEF Inv, TypeOK
  <2>2. buffer_'[Len(accepted) % Capacity] = pushing
    BY <1>1 DEF Inv, TypeOK
  <2> QED BY <2>1, <2>2 DEF Inv, ContentInv
<1>7. RaceInv'
  <2>1. \A i \in Len(delivered) + 1 .. Len(accepted) :
          lastWrite'[(i - 1) % Capacity] = lastWrite[(i - 1) % Capacity]
    BY <1>2 DEF Inv, TypeOK
  <2>2. lastWrite'[Len(accepted) % Capacity] = Len(accepted) + 1
    BY <1>1 DEF Inv, TypeOK, IndexInv
  <2> QED BY <2>1, <2>2 DEF Inv, RaceInv
<1>8. DepthInv'
  BY DEF Inv, DepthInv
<1>20. CountInv'
  BY DEF Inv, CountInv, TypeOK
<1> QED BY <1>3, <1>4, <1>5, <1>6, <1>7, <1>8, <1>20 DEF Inv

\* Publishing head_ adds the written slot to those in use.
LEMMA PushPublishInv ==
    ASSUME Inv, tryPushPublish
    PROVE  Inv'
<1> USE DEF tryPushPublish, queueVars, ringVars, metrics_, producerVars, consumerVars, raceVars
<1>1. /\ Len(accepted) \in Nat /\ Len(delivered) \in Nat /\ seenPops \in Nat /\ seenPushes \in Nat
      /\ seenPops <= Len(delivered) /\ Len(delivered) <= seenPushes /\ seenPushes <= Len(accepted)
      /\ increment(Current(head_)) = (Len(accepted) + 1) % Capacity
      /\ increment(Current(head_)) \in Slots
  BY IndexFacts
<1>2. pushing \in Values /\ accepted \in Seq(Values) /\ head_ \in Seq(Slots)
  BY DEF Inv, TypeOK, ContentInv
<1>3. /\ accepted' = Append(accepted, pushing) /\ accepted' \in Seq(Values)
      /\ Len(accepted') = Len(accepted) + 1
      /\ accepted'[Len(accepted) + 1] = pushing
      /\ \A i \in 1 .. Len(accepted) : accepted'[i] = accepted[i]
  BY <1>2
<1>4. /\ head_' \in Seq(Slots) /\ Len(head_') = Len(head_) + 1
      /\ head_'[Len(head_) + 1] = (Len(accepted) + 1) % Capacity
      /\ \A i \in 1 .. Len(head_) : head_'[i] = head_[i]
  BY <1>1, <1>2
<1>5. /\ maxDepth' \in Nat
      /\ maxDepth' = maxDepth \/ maxDepth' = Len(accepted') - Len(delivered)
  BY <1>1, <1>3 DEF Inv, TypeOK
<1>6. TypeOK'
  <2>1. seenPushes' \in 0 .. Len(accepted') /\ seenPops' \in 0 .. Len(delivered')
    <3>1. seenPushes' = seenPushes /\ seenPops' = seenPops /\ Len(delivered') = Len(delivered)
      OBVIOUS
    <3> QED BY ONLY <3>1, <1>1, <1>3
  <2>2. ppc' = "count" /\ accepted' \in Seq(Values) /\ head_' \in Seq(Slots) /\ maxDepth' \in Nat
    BY <1>3, <1>4, <1>5
  <2> HIDE DEF tryPushPublish
  <2>3. UNCHANGED <<delivered, tail_, buffer_, pushCount, popCount, pushFailures, popFailures,
                    highWaterMark, cpc, pushing, value, lastWrite, lastRead>>
    BY DEF tryPushPublish
  <2> QED BY <2>1, <2>2, <2>3 DEF Inv, TypeOK
<1>7. IndexInv'
  <2>1. Len(head_) = Len(accepted) + 1
    BY DEF Inv, IndexInv
  <2>2. \A i \in 1 .. Len(head_') : head_'[i] = (i - 1) % Capacity
    BY <2>1, <1>1, <1>4 DEF Inv, IndexInv
  <2> QED BY <2>1, <2>2, <1>3, <1>4 DEF Inv, IndexInv
<1>8. ViewInv'
  BY <1>1, <1>3, CapacityAssumption DEF Inv, ViewInv
<1>9. ContentInv'
  <2>1. \A i \in Len(delivered) + 1 .. Len(accepted) + 1 : buffer_[(i - 1) % Capacity] = accepted'[i]
    <3> SUFFICES ASSUME NEW i \in Len(delivered) + 1 .. Len(accepted) + 1
                 PROVE  buffer_[(i - 1) % Capacity] = accepted'[i]
      OBVIOUS
    <3>1. CASE i = Len(accepted) + 1
      <4>1. i - 1 = Len(accepted)
        BY <3>1, <1>1
      <4> QED BY <4>1, <3>1, <1>3 DEF Inv, ContentInv
    <3>2. CASE i \in Len(delivered) + 1 .. Len(accepted)
      BY <3>2, <1>1, <1>3 DEF Inv, ContentInv
    <3> QED BY <3>1, <3>2, <1>1
  <2>2. cpc = "publish" => value = accepted'[Len(delivered) + 1]
    BY <1>1, <1>3 DEF Inv, ContentInv, ViewInv
  <2> QED BY <2>1, <2>2, <1>3 DEF Inv, ContentInv
<1>10. RaceInv'
  <2>1. \A i \in Len(delivered) + 1 .. Len(accepted) + 1 : lastWrite[(i - 1) % Capacity] = i
    BY <1>1 DEF Inv, RaceInv
  <2> QED BY <2>1, <1>3 DEF Inv, RaceInv
<1>11. DepthInv'
  <2>1. /\ highWaterMark \in Nat /\ maxDepth \in Nat /\ highWaterMark <= Capacity - 1
        /\ maxDepth <= highWaterMark
    BY DEF Inv, DepthInv, TypeOK
  <2>2. highWaterMark' = highWaterMark /\ seenPops' = seenPops /\ ppc' = "count"
    OBVIOUS
  <2>3. maxDepth' <= highWaterMark \/ maxDepth' <= Len(accepted') - seenPops
    BY <1>1, <1>3, <1>5, <2>1
  <2> QED BY ONLY <2>1, <2>2, <2>3 DEF DepthInv
<1>20. CountInv'
  <2>1. /\ ppc = "publish" /\ ppc' = "count" /\ pushCount' = pushCount
        /\ cpc' = cpc /\ popCount' = popCount /\ delivered' = delivered
    OBVIOUS
  <2>2. /\ pushCount \in Nat
        /\ pushCount + (IF ppc = "count" THEN 1 ELSE 0) = Len(accepted)
        /\ popCount + (IF cpc = "count" THEN 1 ELSE 0) = Len(delivered)
    BY DEF Inv, CountInv, TypeOK
  <2>3. pushCount = Len(accepted)
    BY ONLY <2>1, <2>2, <1>1
  <2>4. Len(accepted') = Len(accepted) + 1
    BY <1>3
  <2> QED BY ONLY <2>1, <2>2, <2>3, <2>4 DEF CountInv
<1> QED BY <1>6, <1>7, <1>8, <1>9, <1>10, <1>11, <1>20 DEF Inv

\* The metrics step: the depth computed from the tail seen before the store is
\* the number of pushes less the number of pops known of.
LEMMA PushCountInv ==
    ASSUME Inv, tryPushCount
    PROVE  Inv'
<1> USE DEF tryPushCount, queueVars, ringVars, metrics_, producerVars, consumerVars, raceVars
<1>1. /\ Len(accepted) \in Nat /\ seenPops \in Nat /\ seenPops <= Len(accepted)
      /\ Len(accepted) - seenPops < Capacity
      /\ Current(head_) = Len(accepted) % Capacity /\ TailSeen = seenPops % Capacity
  <2>1. Len(accepted) - seenPops <= Capacity - 1
    BY DEF Inv, ViewInv
  <2>2. /\ Len(accepted) \in Nat /\ seenPops \in 0 .. Len(delivered) /\ seenPops <= Len(accepted)
        /\ Current(head_) = Len(accepted) % Capacity
        /\ \A k \in 0 .. Len(delivered) : tail_[k + 1] = k % Capacity
    BY IndexFacts
  <2> QED BY <2>1, <2>2, CapacityAssumption DEF TailSeen
<1>2. sizeOf(Current(head_), TailSeen) = Len(accepted) - seenPops
  <2>1. sizeOf(Len(accepted) % Capacity, seenPops % Capacity) = Len(accepted) - seenPops
    BY <1>1, CapacityAssumption, ModGap DEF sizeOf
  <2> QED BY <2>1, <1>1
<1>3. /\ highWaterMark' \in Nat /\ highWaterMark' <= Capacity - 1
      /\ maxDepth <= highWaterMark'
  <2>1. highWaterMark' = IF Len(accepted) - seenPops > highWaterMark
                         THEN Len(accepted) - seenPops ELSE highWaterMark
    BY <1>2
  <2>2. /\ highWaterMark \in Nat /\ maxDepth \in Nat /\ highWaterMark <= Capacity - 1
        /\ maxDepth <= highWaterMark \/ maxDepth <= Len(accepted) - seenPops
    BY DEF Inv, DepthInv, TypeOK
  <2> QED BY ONLY <2>1, <2>2, <1>1, CapacityAssumption
<1>4. TypeOK'
  BY <1>3, SMTT(30) DEF Inv, TypeOK
<1>5. IndexInv'
  BY DEF Inv, IndexInv
<1>6. ViewInv' /\ ContentInv'
  BY DEF Inv, ViewInv, ContentInv
<1>7. RaceInv'
  BY DEF Inv, RaceInv
<1>8. DepthInv'
  BY <1>3 DEF DepthInv
<1>20. CountInv'
  BY DEF Inv, CountInv, TypeOK
<1> QED BY <1>4, <1>5, <1>6, <1>7, <1>8, <1>20 DEF Inv

\* A load of head_ by tryPop: passing the empty check means a known push has
\* not been popped.
LEMMA PopLoadInv ==
    ASSUME Inv, NEW known \in seenPushes .. Len(accepted), tryPopLoad(known)
    PROVE  Inv'
<1> USE DEF tryPopLoad, queueVars, ringVars, metrics_, producerVars, consumerVars, raceVars
<1>1. /\ known \in 0 .. Len(accepted) /\ known \in Nat /\ Len(delivered) \in Nat
      /\ Len(delivered) <= known
      /\ head_[known + 1] = known % Capacity /\ Current(tail_) = Len(delivered) % Capacity
  BY IndexFacts
<1>2. TypeOK'
  <2>1. popFailures' \in 0 .. MaxFailures
    <3>1. popFailures \in 0 .. MaxFailures /\ MaxFailures \in Nat
      BY BoundAssumption DEF Inv, TypeOK
    <3>2. popFailures' = popFailures \/ (popFailures < MaxFailures /\ popFailures' = popFailures + 1)
      OBVIOUS
    <3> QED BY ONLY <3>1, <3>2
  <2>2. cpc' \in {"idle", "read", "publish", "count"}
    BY DEF Inv, TypeOK
  <2> QED BY <2>1, <2>2, <1>1 DEF Inv, TypeOK
<1>3. cpc' = "read" => Len(delivered) < known
  BY <1>1
<1>4. IndexInv'
  BY DEF Inv, IndexInv
<1>5. ViewInv'
  BY <1>1, <1>3 DEF Inv, ViewInv
<1>6. ContentInv'
  BY DEF Inv, ContentInv
<1>7. RaceInv'
  BY DEF Inv, RaceInv
<1>8. DepthInv'
  BY DEF Inv, DepthInv
<1>20. CountInv'
  BY DEF Inv, CountInv, TypeOK
<1> QED BY <1>2, <1>4, <1>5, <1>6, <1>7, <1>8, <1>20 DEF Inv

\* Reading the slot at tail_ yields the oldest value not yet delivered.
LEMMA PopReadInv ==
    ASSUME Inv, tryPopRead
    PROVE  Inv'
<1> USE DEF tryPopRead, queueVars, ringVars, metrics_, producerVars, consumerVars, raceVars
<1>1. /\ Len(delivered) \in Nat /\ Len(accepted) \in Nat
      /\ Len(delivered) + 1 \in Len(delivered) + 1 .. Len(accepted)
      /\ Len(delivered) + 1 \in 1 .. Len(accepted)
      /\ Current(tail_) = Len(delivered) % Capacity /\ Current(tail_) \in Slots
      /\ Len(tail_) = Len(delivered) + 1
  <2>1. Len(delivered) < seenPushes /\ Len(tail_) = Len(delivered) + 1
    BY DEF Inv, ViewInv, IndexInv
  <2>2. /\ Len(delivered) \in Nat /\ Len(accepted) \in Nat /\ seenPushes \in Nat
        /\ seenPushes <= Len(accepted)
        /\ Current(tail_) = Len(delivered) % Capacity /\ Current(tail_) \in Slots
    BY IndexFacts
  <2>3. /\ Len(delivered) + 1 \in Len(delivered) + 1 .. Len(accepted)
        /\ Len(delivered) + 1 \in 1 .. Len(accepted)
    BY ONLY <2>1, <2>2
  <2> QED BY ONLY <2>1, <2>2, <2>3
<1>2. value' = accepted[Len(delivered) + 1] /\ value' \in Values
  <2>1. (Len(delivered) + 1) - 1 = Len(delivered)
    BY <1>1
  <2>2. buffer_[Len(delivered) % Capacity] = accepted[Len(delivered) + 1]
    BY <1>1, <2>1 DEF Inv, ContentInv
  <2>3. accepted[Len(delivered) + 1] \in Values
    <3>1. accepted \in Seq(Values)
      BY DEF Inv, TypeOK
    <3> QED BY ONLY <1>1, <3>1
  <2> QED BY <1>1, <2>2, <2>3
<1>3. TypeOK'
  <2>1. lastRead' \in [Slots -> Nat]
    <3>1. lastRead \in [Slots -> Nat]
      BY DEF Inv, TypeOK
    <3>2. lastRead' = [lastRead EXCEPT ![Current(tail_)] = Len(delivered) + 1]
      BY <1>1
    <3> QED BY ONLY <1>1, <3>1, <3>2
  <2>2. cpc' = "publish" /\ value' \in Values \cup {NoValue}
    BY <1>2
  <2>3. UNCHANGED <<accepted, delivered, seenPops, seenPushes, head_, tail_, buffer_, pushCount,
                    popCount, pushFailures, popFailures, highWaterMark, maxDepth, ppc, pushing,
                    lastWrite>>
    OBVIOUS
  <2> HIDE DEF tryPopRead
  <2> QED BY <2>1, <2>2, <2>3 DEF Inv, TypeOK
<1>4. IndexInv'
  BY DEF Inv, IndexInv
<1>5. ViewInv'
  BY DEF Inv, ViewInv
<1>6. ContentInv'
  BY <1>2 DEF Inv, ContentInv
<1>7. RaceInv'
  <2>1. \A s \in Slots : lastRead'[s] # 0 =>
          /\ (lastRead'[s] - 1) % Capacity = s
          /\ lastRead'[s] <= Len(delivered) + 1
    <3> SUFFICES ASSUME NEW s \in Slots, lastRead'[s] # 0
                 PROVE  /\ (lastRead'[s] - 1) % Capacity = s
                        /\ lastRead'[s] <= Len(delivered) + 1
      OBVIOUS
    <3>1. CASE s = Current(tail_)
      <4>1. lastRead'[s] = Len(delivered) + 1 /\ (Len(delivered) + 1) - 1 = Len(delivered)
        <5>1. lastRead \in [Slots -> Nat]
          BY DEF Inv, TypeOK
        <5>2. lastRead'[s] = Len(tail_)
          BY <5>1, <3>1
        <5> QED BY ONLY <5>2, <1>1
      <4> QED BY <4>1, <3>1, <1>1
    <3>2. CASE s # Current(tail_)
      <4>1. lastRead'[s] = lastRead[s]
        BY <3>2, <1>1 DEF Inv, TypeOK
      <4> QED BY <4>1 DEF Inv, RaceInv
    <3> QED BY <3>1, <3>2
  <2> QED BY <2>1 DEF Inv, RaceInv
<1>8. DepthInv'
  BY DEF Inv, DepthInv
<1>20. CountInv'
  BY DEF Inv, CountInv, TypeOK
<1> QED BY <1>3, <1>4, <1>5, <1>6, <1>7, <1>8, <1>20 DEF Inv

\* Publishing tail_ delivers the value and retires its slot.
LEMMA PopPublishInv ==
    ASSUME Inv, tryPopPublish
    PROVE  Inv'
<1> USE DEF tryPopPublish, queueVars, ringVars, metrics_, producerVars, consumerVars, raceVars
<1>1. /\ Len(accepted) \in Nat /\ Len(delivered) \in Nat /\ seenPops \in Nat /\ seenPushes \in Nat
      /\ seenPops <= Len(delivered) /\ Len(delivered) < seenPushes /\ seenPushes <= Len(accepted)
      /\ increment(Current(tail_)) = (Len(delivered) + 1) % Capacity
      /\ increment(Current(tail_)) \in Slots
  BY IndexFacts DEF Inv, ViewInv
<1>2. value \in Values /\ delivered \in Seq(Values) /\ tail_ \in Seq(Slots)
  <2>1. Len(delivered) + 1 \in 1 .. Len(accepted)
    BY <1>1
  <2>2. accepted \in Seq(Values) /\ delivered \in Seq(Values) /\ tail_ \in Seq(Slots)
    BY DEF Inv, TypeOK
  <2>3. value = accepted[Len(delivered) + 1]
    BY DEF Inv, ContentInv
  <2> QED BY ONLY <2>1, <2>2, <2>3
<1>3. delivered' \in Seq(Values) /\ Len(delivered') = Len(delivered) + 1
  BY <1>2
<1>4. /\ tail_' \in Seq(Slots) /\ Len(tail_') = Len(tail_) + 1
      /\ tail_'[Len(tail_) + 1] = (Len(delivered) + 1) % Capacity
      /\ \A i \in 1 .. Len(tail_) : tail_'[i] = tail_[i]
  BY <1>1, <1>2
<1>5. TypeOK'
  <2>1. seenPops' \in 0 .. Len(delivered') /\ seenPushes' \in 0 .. Len(accepted')
    <3>1. seenPops' = seenPops /\ seenPushes' = seenPushes /\ Len(accepted') = Len(accepted)
      OBVIOUS
    <3> QED BY ONLY <3>1, <1>1, <1>3
  <2>2. cpc' = "count" /\ delivered' \in Seq(Values) /\ tail_' \in Seq(Slots)
    BY <1>3, <1>4
  <2>3. UNCHANGED <<accepted, head_, buffer_, pushCount, popCount, pushFailures, popFailures,
                    highWaterMark, maxDepth, ppc, pushing, value, lastWrite, lastRead>>
    OBVIOUS
  <2> HIDE DEF tryPopPublish
  <2> QED BY <2>1, <2>2, <2>3 DEF Inv, TypeOK
<1>6. IndexInv'
  <2>1. Len(tail_) = Len(delivered) + 1
    BY DEF Inv, IndexInv
  <2>2. \A i \in 1 .. Len(tail_') : tail_'[i] = (i - 1) % Capacity
    BY <2>1, <1>1, <1>4 DEF Inv, IndexInv
  <2> QED BY <2>1, <2>2, <1>3, <1>4 DEF Inv, IndexInv
<1>7. ViewInv'
  BY <1>1, <1>3 DEF Inv, ViewInv
<1>8. \A i \in Len(delivered') + 1 .. Len(accepted) : i \in Len(delivered) + 1 .. Len(accepted)
  BY <1>1, <1>3
<1>9. ContentInv'
  BY <1>8 DEF Inv, ContentInv
<1>10. RaceInv'
  <2>1. \A s \in Slots : lastRead[s] # 0 =>
          /\ (lastRead[s] - 1) % Capacity = s
          /\ lastRead[s] <= Len(delivered') + 1 /\ lastRead[s] # Len(delivered') + 1
    <3>1. \A s \in Slots : lastRead[s] \in Nat
      BY DEF Inv, TypeOK
    <3>2. \A s \in Slots : lastRead[s] # 0 =>
            (lastRead[s] - 1) % Capacity = s /\ lastRead[s] <= Len(delivered) + 1
      BY DEF Inv, RaceInv
    <3> QED BY ONLY <3>1, <3>2, <1>1, <1>3
  <2> QED BY <2>1, <1>8 DEF Inv, RaceInv
<1>11. DepthInv'
  BY DEF Inv, DepthInv
<1>20. CountInv'
  <2>1. popCount \in Nat /\ popCount = Len(delivered)
    BY DEF Inv, CountInv, TypeOK
  <2> QED BY <2>1, <1>3 DEF Inv, CountInv
<1> QED BY <1>5, <1>6, <1>7, <1>9, <1>10, <1>11, <1>20 DEF Inv

\* The pop counter touches nothing the invariant relates.
LEMMA PopCountInv ==
    ASSUME Inv, tryPopCount
    PROVE  Inv'
<1> USE DEF tryPopCount, queueVars, ringVars, metrics_, producerVars, consumerVars, raceVars
<1>1. TypeOK'
  <2>1. popCount' \in Nat /\ cpc' \in {"idle", "read", "publish", "count"}
    BY DEF Inv, TypeOK
  <2>2. UNCHANGED <<accepted, delivered, seenPops, seenPushes, head_, tail_, buffer_, pushCount,
                    pushFailures, popFailures, highWaterMark, maxDepth, ppc, pushing, value,
                    lastWrite, lastRead>>
    OBVIOUS
  <2> HIDE DEF tryPopCount
  <2> QED BY <2>1, <2>2 DEF Inv, TypeOK
<1>2. IndexInv' /\ ViewInv' /\ ContentInv'
  BY DEF Inv, IndexInv, ViewInv, ContentInv
<1>3. RaceInv' /\ DepthInv'
  BY DEF Inv, RaceInv, DepthInv
<1>20. CountInv'
  BY DEF Inv, CountInv, TypeOK
<1> QED BY <1>1, <1>2, <1>3, <1>20 DEF Inv

\* A step of neither thread changes nothing.
LEMMA StutterInv ==
    ASSUME Inv, UNCHANGED vars
    PROVE  Inv'
<1> USE DEF vars, queueVars, ringVars, metrics_, producerVars, consumerVars, raceVars
<1>1. TypeOK'
  BY DEF Inv, TypeOK
<1>2. IndexInv' /\ ViewInv' /\ ContentInv'
  BY DEF Inv, IndexInv, ViewInv, ContentInv
<1>3. RaceInv' /\ DepthInv'
  BY DEF Inv, RaceInv, DepthInv
<1>20. CountInv'
  BY DEF Inv, CountInv, TypeOK
<1> QED BY <1>1, <1>2, <1>3, <1>20 DEF Inv

\* Every step of either thread preserves the invariant.
LEMMA NextInv == Inv /\ [Next]_vars => Inv'
<1> SUFFICES ASSUME Inv, [Next]_vars PROVE Inv'
  OBVIOUS
<1>1. ASSUME NEW v \in Values, NEW known \in seenPops .. Len(delivered), tryPushLoad(v, known)
      PROVE  Inv'
  BY <1>1, PushLoadInv
<1>2. CASE tryPushWrite
  BY <1>2, PushWriteInv
<1>3. CASE tryPushPublish
  BY <1>3, PushPublishInv
<1>4. CASE tryPushCount
  BY <1>4, PushCountInv
<1>5. ASSUME NEW known \in seenPushes .. Len(accepted), tryPopLoad(known)
      PROVE  Inv'
  BY <1>5, PopLoadInv
<1>6. CASE tryPopRead
  BY <1>6, PopReadInv
<1>7. CASE tryPopPublish
  BY <1>7, PopPublishInv
<1>8. CASE tryPopCount
  BY <1>8, PopCountInv
<1>9. CASE UNCHANGED vars
  BY <1>9, StutterInv
<1> QED
  BY <1>1, <1>2, <1>3, <1>4, <1>5, <1>6, <1>7, <1>8, <1>9 DEF Next, Producer, Consumer

\* The invariant holds in every reachable state.
THEOREM InvariantHolds == Spec => []Inv
BY InitInv, NextInv, PTL DEF Spec

-----------------------------------------------------------------------------
(* What follows from it *)

\* Indexes, views and program counters keep their types.
THEOREM TypeCorrect == Spec => []TypeOK
<1>1. Inv => TypeOK
  BY DEF Inv
<1> QED BY <1>1, InvariantHolds, PTL

\* No access to buffer_ by one thread is unordered with an access to the same
\* slot by the other, for every capacity and every staleness of the loads.
THEOREM RaceFreedom == Spec => []NoDataRace
<1>1. Inv => NoDataRace
  <2> SUFFICES ASSUME Inv PROVE NoDataRace
    OBVIOUS
  <2>0. /\ Current(head_) = Len(accepted) % Capacity /\ Current(head_) \in Slots
        /\ Current(tail_) = Len(delivered) % Capacity
        /\ seenPops \in Nat /\ Len(delivered) \in Nat /\ seenPushes \in Nat /\ Len(accepted) \in Nat
        /\ Len(delivered) <= seenPushes /\ seenPushes <= Len(accepted)
    BY IndexFacts
  <2>1. ASSUME ppc = "write" PROVE lastRead[Current(head_)] <= seenPops
    <3> DEFINE r == lastRead[Current(head_)]
    <3>1. r \in Nat /\ Len(accepted) - seenPops < Capacity - 1
      BY <2>0, <2>1 DEF Inv, TypeOK, ViewInv
    <3>2. CASE r = 0
      BY <3>2, <2>0
    <3>3. CASE r # 0
      <4>1. /\ (r - 1) % Capacity = Len(accepted) % Capacity
            /\ r <= Len(delivered) + 1
            /\ r = Len(delivered) + 1 => cpc = "publish"
        BY <3>3, <2>0 DEF Inv, RaceInv
      <4>2. r - 1 \in Nat /\ r - 1 < Len(accepted)
        <5>1. cpc = "publish" => Len(delivered) < seenPushes
          BY DEF Inv, ViewInv
        <5> HIDE DEF r
        <5> QED BY <5>1, <4>1, <3>1, <3>3, <2>0
      <4>3. Len(accepted) - (r - 1) >= Capacity
        BY <4>1, <4>2, <2>0, CapacityAssumption, ModDistinct
      <4> HIDE DEF r
      <4>4. r <= seenPops
        BY <4>3, <3>1, <2>0, CapacityAssumption
      <4> QED BY <4>4 DEF r
    <3> QED BY <3>2, <3>3
  <2>2. ASSUME cpc = "read" PROVE lastWrite[Current(tail_)] <= seenPushes
    <3>1. Len(delivered) < seenPushes
      BY <2>2 DEF Inv, ViewInv
    <3>2. /\ Len(delivered) + 1 \in Len(delivered) + 1 .. Len(accepted)
          /\ (Len(delivered) + 1) - 1 = Len(delivered)
      BY <3>1, <2>0
    <3>3. lastWrite[Len(delivered) % Capacity] = Len(delivered) + 1
      BY <3>2 DEF Inv, RaceInv
    <3> QED BY <3>1, <3>3, <2>0
  <2> QED BY <2>1, <2>2 DEF NoDataRace
<1> QED BY <1>1, InvariantHolds, PTL

\* The high-water mark that tryPush computes from a stale tail never
\* under-reports between calls and never exceeds the usable capacity.
THEOREM HighWaterMark == Spec => []HighWaterMarkHonest
<1>1. Inv => HighWaterMarkHonest
  BY DEF Inv, DepthInv, HighWaterMarkHonest, UsableCapacity
<1> QED BY <1>1, InvariantHolds, PTL

\* The indexes, read together, give the exact depth and the exact full test,
\* and between calls so do the counters.
THEOREM DepthFromIndexes == Spec => []IndexesGiveDepth
<1>1. Inv => IndexesGiveDepth
  <2> SUFFICES ASSUME Inv PROVE IndexesGiveDepth
    OBVIOUS
  <2> DEFINE h == Len(accepted)
             t == Len(delivered)
  <2>1. /\ h \in Nat /\ t \in Nat /\ t <= h /\ h - t < Capacity
        /\ Current(head_) = h % Capacity /\ Current(tail_) = t % Capacity
        /\ increment(Current(head_)) = (h + 1) % Capacity
    <3>1. Len(accepted) - seenPops <= Capacity - 1
      BY DEF Inv, ViewInv
    <3> QED BY <3>1, IndexFacts, CapacityAssumption
  <2>2. (ppc # "count" /\ cpc # "count") => pushCount - popCount = h - t
    <3>1. ppc # "count" => pushCount = Len(accepted)
      BY DEF Inv, CountInv, TypeOK
    <3>2. cpc # "count" => popCount = Len(delivered)
      BY DEF Inv, CountInv, TypeOK
    <3> QED BY <3>1, <3>2
  <2> HIDE DEF h, t
  <2>3. sizeOf(h % Capacity, t % Capacity) = h - t
    BY <2>1, CapacityAssumption, ModGap DEF sizeOf
  <2>4. h - t = Capacity - 1 => (h + 1) % Capacity = t % Capacity
    <3> SUFFICES ASSUME h - t = Capacity - 1 PROVE (h + 1) % Capacity = t % Capacity
      OBVIOUS
    <3>1. h + 1 = t + Capacity
      BY <2>1, CapacityAssumption
    <3> QED BY <3>1, <2>1, CapacityAssumption, ModLap
  <2>5. (h + 1) % Capacity = t % Capacity => h - t = Capacity - 1
    <3> SUFFICES ASSUME (h + 1) % Capacity = t % Capacity PROVE h - t = Capacity - 1
      OBVIOUS
    <3>1. h + 1 \in Nat /\ t < h + 1
      BY <2>1
    <3>2. (h + 1) - t >= Capacity
      BY <3>1, <2>1, CapacityAssumption, ModDistinct
    <3> QED BY <3>2, <2>1, CapacityAssumption
  <2> QED BY <2>1, <2>2, <2>3, <2>4, <2>5 DEF IndexesGiveDepth, UsableCapacity, h, t
<1> QED BY <1>1, InvariantHolds, PTL

\* The ring buffer implements the bounded FIFO queue.
THEOREM Refinement == Spec => RefinesQueue
<1>1. Init => QueueInit
  BY DEF Init
<1>2. Inv /\ [Next]_vars => [QueueNext]_queueVars
  <2> SUFFICES ASSUME Inv, [Next]_vars PROVE [QueueNext]_queueVars
    OBVIOUS
  <2> USE DEF queueVars, ringVars, metrics_, producerVars, consumerVars, raceVars
  <2>1. ASSUME NEW v \in Values, NEW known \in seenPops .. Len(delivered), tryPushLoad(v, known)
        PROVE  LearnPops
    BY <2>1 DEF tryPushLoad, LearnPops
  <2>2. CASE tryPushWrite \/ tryPushCount \/ tryPopRead \/ tryPopCount
    BY <2>2 DEF tryPushWrite, tryPushCount, tryPopRead, tryPopCount
  <2>3. ASSUME tryPushPublish PROVE \E v \in Values : Push(v)
    <3>1. pushing \in Values /\ Len(accepted) - seenPops < UsableCapacity
      BY <2>3 DEF tryPushPublish, Inv, ContentInv, ViewInv, UsableCapacity
    <3>2. Push(pushing)
      BY <3>1, <2>3 DEF tryPushPublish, Push
    <3> QED BY <3>1, <3>2
  <2>4. ASSUME NEW known \in seenPushes .. Len(accepted), tryPopLoad(known)
        PROVE  LearnPushes
    BY <2>4 DEF tryPopLoad, LearnPushes
  <2>5. ASSUME tryPopPublish PROVE Pop
    BY <2>5 DEF tryPopPublish, Pop, Inv, ViewInv, ContentInv
  <2>6. CASE UNCHANGED vars
    BY <2>6 DEF vars
  <2> QED
    BY <2>1, <2>2, <2>3, <2>4, <2>5, <2>6 DEF Next, Producer, Consumer, QueueNext
<1> QED BY <1>1, <1>2, InvariantHolds, PTL DEF Spec, RefinesQueue, QueueSpec
=============================================================================
