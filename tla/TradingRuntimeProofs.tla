------------------------ MODULE TradingRuntimeProofs ------------------------
(***************************************************************************)
(* For every queue capacity, pool, ring, burst and feed, and every number  *)
(* of calls of the one thread that controls the pipeline and feeds it:     *)
(*                                                                         *)
(*   MarketDataPipeline: the worker is never overwritten, stop() drains    *)
(*   the queue, and processedCount() is exact;                             *)
(*                                                                         *)
(*   Receiver: the polling loop neither leaks an mbuf nor frees one twice, *)
(*   and what it holds are frames that arrived;                            *)
(*                                                                         *)
(*   TradingRuntime: main() leaves its wait only when the consumer has     *)
(*   everything it accepted, the consumer sees the feed in order and       *)
(*   nothing twice, and no mbuf is lost.  Every step of the runtime is a   *)
(*   step of the pipeline, of the receiver or of both, so their invariants *)
(*   carry over; what is added relates the program counter of main() and   *)
(*   the position in the feed to the queue.                                *)
(***************************************************************************)
EXTENDS TradingRuntime, FiniteSetTheorems, TLAPS

-----------------------------------------------------------------------------
(* MarketDataPipeline *)

\* What the lifecycle steps use of Max.
LEMMA MaxOfTwo ==
    ASSUME NEW a \in Nat, NEW b \in Nat
    PROVE  Max({a, b}) \in Nat /\ Max({a, b}) \in {a, b} /\ Max({a, b}) >= a /\ Max({a, b}) >= b
<1>1. \E x \in {a, b} : \A y \in {a, b} : x >= y
  <2>1. CASE a >= b BY <2>1
  <2>2. CASE b >= a BY <2>2
  <2> QED BY <2>1, <2>2
<1>2. Max({a, b}) \in {a, b} /\ \A y \in {a, b} : Max({a, b}) >= y
  BY <1>1 DEF Max
<1> QED BY <1>2

-----------------------------------------------------------------------------
(* MarketDataPipeline: the inductive invariant *)

\* A thread that both feeds and controls is in one of four situations: before
\* start() or after stop(), between the exchange and the new thread, running, or
\* waiting for the worker.
Lifecycle ==
    /\ pc[Producer] = "idle" /\ ~running_ => worker_ = "empty" /\ wpc = "none"
    /\ pc[Producer] = "spawn" => running_ /\ worker_ = "empty" /\ wpc = "none"
    /\ pc[Producer] = "idle" /\ running_ => worker_ = "joinable" /\ wpc \in {"check", "dispatch"}
    /\ pc[Producer] = "join" => /\ ~running_ /\ worker_ = "joinable"
                                /\ wpc \in {"check", "dispatch", "drain", "exited"}

\* The pushes before stop() are known to the worker when it starts to drain, and
\* popped when it has drained.
Drained ==
    /\ pc[Producer] = "join" => acceptedAtStop <= runningView
    /\ wpc = "drain" => acceptedAtStop <= seenPushes
    /\ wpc = "exited" => acceptedAtStop <= Len(delivered)
    /\ ~running_ /\ pc[Producer] = "idle" => acceptedAtStop <= Len(delivered)

\* Every event popped since start() is in processedCount_ or in the count of the
\* dispatch() under way.
Counted ==
    /\ deliveredAtStart <= Len(delivered)
    /\ wpc # "none" => processedCount_ + dispatched = Len(delivered) - deliveredAtStart
    /\ wpc \in {"check", "exited"} => dispatched = 0
    /\ wpc = "none" /\ pc[Producer] = "idle" /\ starts > 0 =>
         processedCount_ = Len(delivered) - deliveredAtStart

\* What was popped is what was pushed, and the worker pops only what it knows of.
Popped ==
    /\ Len(delivered) <= seenPushes
    /\ \A i \in 1 .. Len(delivered) : delivered[i] = accepted[i]

PipelineInv == PipelineTypeOK /\ ~terminated /\ Lifecycle /\ Drained /\ Counted /\ Popped

\* One thread controls the pipeline and feeds it, as in the runtimes.
OneThread == Controllers = {Producer}

LEMMA PipelineInitInv == OneThread /\ PipelineInit => PipelineInv
<1> SUFFICES ASSUME OneThread, PipelineInit
             PROVE  PipelineInv
  OBVIOUS
<1> USE DEF OneThread, PipelineInit, QueueInit
<1>1. accepted = <<>> /\ delivered = <<>> /\ <<>> \in Seq(Values) /\ Len(<<>>) = 0
  OBVIOUS
<1>2. running_ \in BOOLEAN /\ terminated \in BOOLEAN /\ ~terminated /\ ~running_
  BY Zenon
<1>3. pc \in [Controllers -> {"idle", "spawn", "join"}] /\ view \in [Controllers -> Nat]
      /\ pc[Producer] = "idle"
  OBVIOUS
<1>4. PipelineTypeOK
  BY <1>1, <1>2, <1>3, PipelineAssumption DEF PipelineTypeOK
<1>5. Lifecycle /\ Drained /\ Counted /\ Popped
  BY <1>1, <1>2, <1>3 DEF Lifecycle, Drained, Counted, Popped
<1> QED BY <1>2, <1>4, <1>5 DEF PipelineInv

\* exchange() by the producer, which has all pushes behind it.
LEMMA Exchanged ==
    ASSUME OneThread, PipelineInv, NEW new \in BOOLEAN, exchange(Producer, new)
    PROVE  /\ running_' = new
           /\ runningView' = Len(accepted)
           /\ view' \in [Controllers -> Nat]
<1>1. Len(accepted) \in Nat /\ runningView \in 0 .. Len(accepted)
  BY DEF PipelineInv, PipelineTypeOK
<1>2. ViewOf(Producer) = Len(accepted)
  BY DEF ViewOf
<1>3. Max({ViewOf(Producer), runningView}) = Len(accepted)
  BY <1>1, <1>2, MaxOfTwo
<1>4. view \in [Controllers -> Nat]
  BY DEF PipelineInv, PipelineTypeOK
<1> QED BY <1>1, <1>3, <1>4, Zenon DEF exchange

LEMMA StartInv ==
    ASSUME OneThread, PipelineInv, start(Producer)
    PROVE  PipelineInv'
<1>1. running_' = TRUE /\ runningView' = Len(accepted) /\ view' \in [Controllers -> Nat]
  BY Exchanged, Zenon DEF start
<1>2. UNCHANGED <<accepted, delivered, seenPops, seenPushes, processedCount_, worker_, wpc, dispatched,
                  terminated, acceptedAtStop, deliveredAtStart>> /\ pc[Producer] = "idle"
  BY DEF start, queueVars, workerVars
<1>3. \/ running_ /\ pc' = pc /\ starts' = starts
      \/ ~running_ /\ pc' = [pc EXCEPT ![Producer] = "spawn"] /\ starts' = starts + 1
  BY DEF start
<1>4. starts < MaxStarts
  BY DEF start
<1>5. PipelineTypeOK'
  <2>1. pc' \in [Controllers -> {"idle", "spawn", "join"}] /\ starts' \in 0 .. MaxStarts
    BY <1>3, <1>4, PipelineAssumption DEF PipelineInv, PipelineTypeOK
  <2>2. running_' \in BOOLEAN /\ terminated' \in BOOLEAN
    BY <1>1, <1>2 DEF PipelineInv, PipelineTypeOK
  <2> QED BY <1>1, <1>2, <2>1, <2>2 DEF PipelineInv, PipelineTypeOK
<1>6. pc'[Producer] = IF running_ THEN "idle" ELSE "spawn"
  BY <1>2, <1>3 DEF PipelineInv, PipelineTypeOK, OneThread
<1>7. Lifecycle'
  BY <1>1, <1>2, <1>3, <1>6 DEF PipelineInv, Lifecycle
<1>8. Drained'
  BY <1>1, <1>2, <1>3, <1>6 DEF PipelineInv, Lifecycle, Drained
<1>9. Counted'
  BY <1>1, <1>2, <1>3, <1>6 DEF PipelineInv, Lifecycle, Counted
<1>10. Popped'
  BY <1>2 DEF PipelineInv, Popped
<1> QED BY <1>2, <1>5, <1>7, <1>8, <1>9, <1>10 DEF PipelineInv

LEMMA SpawnInv ==
    ASSUME OneThread, PipelineInv, spawn(Producer)
    PROVE  PipelineInv'
<1>1. pc[Producer] = "spawn" /\ running_ /\ worker_ = "empty" /\ wpc = "none"
  BY DEF spawn, PipelineInv, Lifecycle
<1>2. UNCHANGED <<accepted, delivered, seenPops, running_, runningView, view, starts, acceptedAtStop>>
  BY DEF spawn
<1>3. /\ worker_' = "joinable" /\ wpc' = "check" /\ dispatched' = 0 /\ processedCount_' = 0
      /\ terminated' = terminated /\ deliveredAtStart' = Len(delivered)
      /\ pc' = [pc EXCEPT ![Producer] = "idle"]
      /\ seenPushes' = Max({seenPushes, ViewOf(Producer)})
  BY <1>1 DEF spawn
<1>4. seenPushes' = Len(accepted)
  <2>1. Len(accepted) \in Nat /\ seenPushes \in 0 .. Len(accepted)
    BY DEF PipelineInv, PipelineTypeOK
  <2> QED BY <1>3, <2>1, MaxOfTwo DEF ViewOf
<1>5. Len(delivered) \in Nat /\ Len(accepted) \in Nat
  BY DEF PipelineInv, PipelineTypeOK
<1>6. pc' \in [Controllers -> {"idle", "spawn", "join"}] /\ pc'[Producer] = "idle"
  BY <1>3 DEF PipelineInv, PipelineTypeOK, OneThread
<1>7. running_' = TRUE /\ running_' \in BOOLEAN /\ terminated' \in BOOLEAN
  BY <1>1, <1>2, <1>3 DEF PipelineInv, PipelineTypeOK
<1>8. PipelineTypeOK'
  BY <1>2, <1>3, <1>4, <1>5, <1>6, <1>7 DEF PipelineInv, PipelineTypeOK
<1>9. Lifecycle' /\ Drained' /\ Counted'
  BY <1>2, <1>3, <1>5, <1>6, <1>7 DEF Lifecycle, Drained, Counted
<1>10. Popped'
  BY <1>2, <1>4, <1>5 DEF PipelineInv, PipelineTypeOK, Popped
<1> QED BY <1>3, <1>8, <1>9, <1>10 DEF PipelineInv

LEMMA StopInv ==
    ASSUME OneThread, PipelineInv, stop(Producer)
    PROVE  PipelineInv'
<1>1. running_' = FALSE /\ runningView' = Len(accepted) /\ view' \in [Controllers -> Nat]
  BY Exchanged, Zenon DEF stop
<1>2. UNCHANGED <<accepted, delivered, seenPops, seenPushes, processedCount_, worker_, wpc, dispatched,
                  terminated, starts, deliveredAtStart>> /\ pc[Producer] = "idle"
  BY DEF stop, queueVars, workerVars
<1>3. \/ ~running_ /\ pc' = pc /\ acceptedAtStop' = acceptedAtStop
      \/ running_ /\ pc' = [pc EXCEPT ![Producer] = "join"] /\ acceptedAtStop' = Len(accepted)
  BY DEF stop
<1>4. Len(delivered) \in Nat /\ Len(accepted) \in Nat
  BY DEF PipelineInv, PipelineTypeOK
<1>5. PipelineTypeOK'
  <2>1. pc' \in [Controllers -> {"idle", "spawn", "join"}] /\ acceptedAtStop' \in Nat
    BY <1>3, <1>4 DEF PipelineInv, PipelineTypeOK
  <2>2. running_' \in BOOLEAN /\ terminated' \in BOOLEAN
    BY <1>1, <1>2, Zenon DEF PipelineInv, PipelineTypeOK
  <2> QED BY <1>1, <1>2, <1>4, <2>1, <2>2 DEF PipelineInv, PipelineTypeOK
<1>6. pc'[Producer] = IF running_ THEN "join" ELSE "idle"
  BY <1>2, <1>3 DEF PipelineInv, PipelineTypeOK, OneThread
<1>7. Lifecycle'
  BY <1>1, <1>2, <1>3, <1>6 DEF PipelineInv, Lifecycle
<1>8. Drained'
  BY <1>1, <1>2, <1>3, <1>4, <1>6 DEF PipelineInv, Lifecycle, Drained
<1>9. Counted'
  BY <1>1, <1>2, <1>3, <1>6 DEF PipelineInv, Lifecycle, Counted
<1>10. Popped'
  BY <1>2 DEF PipelineInv, Popped
<1> QED BY <1>2, <1>5, <1>7, <1>8, <1>9, <1>10 DEF PipelineInv

LEMMA JoinInv ==
    ASSUME OneThread, PipelineInv, join(Producer)
    PROVE  PipelineInv'
<1>1. pc[Producer] = "join" /\ ~running_ /\ worker_ = "joinable" /\ wpc = "exited"
  BY DEF join, PipelineInv, Lifecycle
<1>2. UNCHANGED <<accepted, delivered, seenPushes, running_, runningView, processedCount_, dispatched,
                  terminated, starts, acceptedAtStop, deliveredAtStart>>
  BY DEF join
<1>3. /\ worker_' = "empty" /\ wpc' = "none" /\ seenPops' = Len(delivered)
      /\ pc' = [pc EXCEPT ![Producer] = "idle"]
      /\ view' = [view EXCEPT ![Producer] = Max({ViewOf(Producer), seenPushes})]
  BY DEF join
<1>4. Len(delivered) \in Nat /\ Len(accepted) \in Nat
  BY DEF PipelineInv, PipelineTypeOK
<1>5. view' \in [Controllers -> Nat]
  <2>1. ViewOf(Producer) \in Nat /\ seenPushes \in Nat /\ view \in [Controllers -> Nat]
    BY <1>4 DEF ViewOf, PipelineInv, PipelineTypeOK
  <2> QED BY <1>3, <2>1, MaxOfTwo, Zenon
<1>6. pc' \in [Controllers -> {"idle", "spawn", "join"}] /\ pc'[Producer] = "idle"
  BY <1>3 DEF PipelineInv, PipelineTypeOK, OneThread
<1>7. running_' = FALSE /\ running_' \in BOOLEAN /\ terminated' \in BOOLEAN
  BY <1>1, <1>2 DEF PipelineInv, PipelineTypeOK
<1>8. PipelineTypeOK'
  BY <1>2, <1>3, <1>4, <1>5, <1>6, <1>7 DEF PipelineInv, PipelineTypeOK
<1>9. Lifecycle' /\ Drained'
  BY <1>1, <1>2, <1>3, <1>6, <1>7 DEF PipelineInv, Lifecycle, Drained
<1>10. Counted'
  BY <1>1, <1>2, <1>3, <1>4, <1>6 DEF PipelineInv, PipelineTypeOK, Counted
<1>11. Popped'
  BY <1>2 DEF PipelineInv, Popped
<1> QED BY <1>2, <1>8, <1>9, <1>10, <1>11 DEF PipelineInv

LEMMA SubmitInv ==
    ASSUME OneThread, PipelineInv, NEW v \in Values, NEW known \in seenPops .. Len(delivered),
           submit(v, known)
    PROVE  PipelineInv'
<1>1. UNCHANGED <<delivered, seenPushes, running_, runningView, processedCount_, worker_, wpc, dispatched,
                  pc, view, terminated, starts, acceptedAtStop, deliveredAtStart>> /\ seenPops' = known
  BY DEF submit, stateVars, workerVars, controlVars
<1>2. accepted \in Seq(Values) /\ delivered \in Seq(Values)
      /\ seenPops \in Nat /\ seenPushes \in 0 .. Len(accepted) /\ runningView \in 0 .. Len(accepted)
  BY DEF PipelineInv, PipelineTypeOK
<1>3. /\ accepted' \in Seq(Values) /\ Len(accepted') >= Len(accepted)
      /\ \A i \in 1 .. Len(accepted) : accepted'[i] = accepted[i]
  <2>1. CASE accepted' = accepted BY <1>2, <2>1
  <2>2. CASE accepted' = Append(accepted, v) BY <1>2, <2>2
  <2> QED BY <2>1, <2>2 DEF submit
<1>4. PipelineTypeOK'
  <2>1. known \in 0 .. Len(delivered)
    BY <1>2
  <2>2. seenPushes \in 0 .. Len(accepted') /\ runningView \in 0 .. Len(accepted')
    BY <1>2, <1>3
  <2> QED BY <1>1, <1>2, <1>3, <2>1, <2>2 DEF PipelineInv, PipelineTypeOK
<1>5. Lifecycle' /\ Drained' /\ Counted'
  BY <1>1 DEF PipelineInv, Lifecycle, Drained, Counted
<1>6. Popped'
  BY <1>1, <1>2, <1>3 DEF PipelineInv, Popped
<1> QED BY <1>1, <1>4, <1>5, <1>6 DEF PipelineInv

LEMMA CheckInv ==
    ASSUME OneThread, PipelineInv, check
    PROVE  PipelineInv'
<1>1. UNCHANGED <<accepted, delivered, seenPops, running_, runningView, processedCount_, worker_, dispatched,
                  pc, view, terminated, starts, acceptedAtStop, deliveredAtStart>> /\ wpc = "check"
  BY DEF check, stateVars, controlVars
<1>2. wpc' = IF running_ THEN "dispatch" ELSE "drain"
  BY DEF check
<1>3. seenPushes \in Nat /\ seenPushes <= Len(accepted) /\ runningView \in Nat
      /\ runningView <= Len(accepted) /\ Len(accepted) \in Nat /\ Len(delivered) \in Nat
      /\ acceptedAtStop \in Nat
  BY DEF PipelineInv, PipelineTypeOK
<1>4. /\ seenPushes' \in 0 .. Len(accepted)
      /\ seenPushes' >= seenPushes /\ seenPushes' >= runningView
  BY <1>3, MaxOfTwo DEF check
<1>5. PipelineTypeOK'
  BY <1>1, <1>2, <1>4 DEF PipelineInv, PipelineTypeOK
<1>6. pc[Producer] \in {"idle", "spawn", "join"}
  BY DEF PipelineInv, PipelineTypeOK, OneThread
<1>7. Lifecycle'
  BY <1>1, <1>2, <1>6 DEF PipelineInv, Lifecycle
<1>8. Drained'
  BY <1>1, <1>2, <1>3, <1>4, <1>6 DEF PipelineInv, Lifecycle, Drained
<1>9. Counted'
  BY <1>1, <1>2 DEF PipelineInv, Counted
<1>10. Popped'
  BY <1>1, <1>3, <1>4 DEF PipelineInv, Popped
<1> QED BY <1>1, <1>5, <1>7, <1>8, <1>9, <1>10 DEF PipelineInv

LEMMA DispatchInv ==
    ASSUME OneThread, PipelineInv, NEW known \in seenPushes .. Len(accepted), dispatch(known)
    PROVE  PipelineInv'
<1>1. UNCHANGED <<accepted, seenPops, running_, runningView, worker_, pc, view, terminated, starts,
                  acceptedAtStop, deliveredAtStart>> /\ seenPushes' = known /\ wpc \in {"dispatch", "drain"}
  BY DEF dispatch, controlVars
<1>2. /\ accepted \in Seq(Values) /\ delivered \in Seq(Values) /\ seenPops \in 0 .. Len(delivered)
      /\ seenPushes \in Nat /\ processedCount_ \in Nat /\ dispatched \in Nat
      /\ acceptedAtStop \in Nat /\ deliveredAtStart \in Nat
  BY DEF PipelineInv, PipelineTypeOK
<1>3. known \in 0 .. Len(accepted) /\ seenPushes <= known
  BY <1>2
<1>4. pc[Producer] \in {"idle", "spawn", "join"}
  BY DEF PipelineInv, PipelineTypeOK, OneThread
<1>5. CASE Len(delivered) < known
  <2>1. /\ delivered' = Append(delivered, accepted[Len(delivered) + 1])
        /\ dispatched' = dispatched + 1 /\ UNCHANGED <<wpc, processedCount_>>
    BY <1>5 DEF dispatch
  <2>2. accepted[Len(delivered) + 1] \in Values
    BY <1>2, <1>3, <1>5
  <2>3. /\ delivered' \in Seq(Values) /\ Len(delivered') = Len(delivered) + 1
        /\ delivered'[Len(delivered) + 1] = accepted[Len(delivered) + 1]
        /\ \A i \in 1 .. Len(delivered) : delivered'[i] = delivered[i]
    BY <1>2, <2>1, <2>2
  <2>4. PipelineTypeOK'
    <3>1. seenPops \in 0 .. Len(delivered') /\ dispatched' \in Nat
      BY <1>2, <2>1, <2>3
    <3> QED BY <1>1, <1>3, <2>1, <2>3, <3>1 DEF PipelineInv, PipelineTypeOK
  <2>5. Lifecycle'
    BY <1>1, <2>1 DEF PipelineInv, Lifecycle
  <2>6. Drained'
    BY <1>1, <1>2, <1>3, <2>1, <2>3 DEF PipelineInv, Lifecycle, Drained
  <2>7. Counted'
    <3>1. /\ deliveredAtStart <= Len(delivered)
          /\ processedCount_ + dispatched = Len(delivered) - deliveredAtStart
      BY <1>1 DEF PipelineInv, Counted
    <3>2. /\ deliveredAtStart <= Len(delivered) + 1
          /\ processedCount_ + (dispatched + 1) = (Len(delivered) + 1) - deliveredAtStart
      BY <1>2, <3>1
    <3> QED BY <1>1, <2>1, <2>3, <3>2 DEF Counted
  <2>8. Popped'
    <3>1. Len(delivered') <= seenPushes'
      BY <1>1, <1>2, <1>3, <1>5, <2>3
    <3>2. \A i \in 1 .. Len(delivered') : delivered'[i] = accepted'[i]
      <4>1. \A i \in 1 .. Len(delivered') : i \in 1 .. Len(delivered) \/ i = Len(delivered) + 1
        BY <1>2, <2>3
      <4>2. \A i \in 1 .. Len(delivered) : delivered'[i] = accepted[i]
        BY <2>3 DEF PipelineInv, Popped
      <4> QED BY <1>1, <2>3, <4>1, <4>2
    <3> QED BY <3>1, <3>2 DEF Popped
  <2> QED BY <1>1, <2>4, <2>5, <2>6, <2>7, <2>8 DEF PipelineInv
<1>6. CASE ~(Len(delivered) < known)
  <2>1. /\ processedCount_' = processedCount_ + dispatched /\ dispatched' = 0
        /\ wpc' = (IF wpc = "dispatch" THEN "check" ELSE "exited") /\ delivered' = delivered
    BY <1>6 DEF dispatch
  <2>2. PipelineTypeOK'
    <3>1. processedCount_' \in Nat /\ dispatched' \in Nat /\ wpc' \in {"check", "exited"}
      BY <1>2, <2>1
    <3> QED BY <1>1, <1>3, <2>1, <3>1 DEF PipelineInv, PipelineTypeOK
  <2>3. Lifecycle'
    BY <1>1, <1>4, <2>1 DEF PipelineInv, Lifecycle
  <2>4. Drained'
    BY <1>1, <1>2, <1>3, <1>4, <1>6, <2>1 DEF PipelineInv, Lifecycle, Drained
  <2>5. Counted'
    BY <1>1, <1>2, <2>1 DEF PipelineInv, Counted
  <2>6. Popped'
    BY <1>1, <1>2, <1>3, <2>1 DEF PipelineInv, Popped
  <2> QED BY <1>1, <2>2, <2>3, <2>4, <2>5, <2>6 DEF PipelineInv
<1> QED BY <1>5, <1>6

LEMMA PipelineStep ==
    ASSUME OneThread, PipelineInv, [PipelineNext]_pipelineVars
    PROVE  PipelineInv'
<1>1. CASE UNCHANGED pipelineVars
  <2>1. UNCHANGED <<accepted, delivered, seenPops, seenPushes, running_, runningView, processedCount_, worker_,
                    wpc, dispatched, pc, view, terminated, starts, acceptedAtStop, deliveredAtStart>>
    BY <1>1 DEF pipelineVars, queueVars, stateVars, workerVars, controlVars
  <2>2. PipelineTypeOK'
    BY <2>1 DEF PipelineInv, PipelineTypeOK
  <2>3. Lifecycle' /\ Drained' /\ Counted' /\ Popped'
    BY <2>1 DEF PipelineInv, Lifecycle, Drained, Counted, Popped
  <2> QED BY <2>1, <2>2, <2>3 DEF PipelineInv
<1>2. CASE \E t \in Controllers : Control(t)
  <2>1. start(Producer) \/ spawn(Producer) \/ stop(Producer) \/ join(Producer)
    BY <1>2 DEF Control, OneThread
  <2> QED BY <2>1, StartInv, SpawnInv, StopInv, JoinInv
<1>3. CASE Submit
  BY <1>3, SubmitInv DEF Submit
<1>4. CASE Worker
  BY <1>4, CheckInv, DispatchInv DEF Worker, Dispatch
<1> QED BY <1>1, <1>2, <1>3, <1>4 DEF PipelineNext

-----------------------------------------------------------------------------
(* MarketDataPipeline: the theorems *)

\* The invariant holds in every state of the pipeline.
THEOREM PipelineInvariant ==
    ASSUME OneThread
    PROVE  PipelineSpec => []PipelineInv
<1>1. PipelineInit => PipelineInv
  BY PipelineInitInv
<1>2. PipelineInv /\ [PipelineNext]_pipelineVars => PipelineInv'
  BY PipelineStep
<1> QED BY <1>1, <1>2, PTL DEF PipelineSpec

\* "Drain events that were queued before shutdown": whatever the last poll
\* missed, when stop() has returned the consumer has every event accepted
\* before it was called.
THEOREM StopDrainsQueue ==
    ASSUME OneThread
    PROVE  PipelineSpec => []StopDrains
<1>1. PipelineInv => StopDrains
  <2> SUFFICES ASSUME PipelineInv, ~running_, \A t \in Controllers : pc[t] = "idle"
               PROVE  Len(delivered) >= acceptedAtStop
    BY DEF StopDrains
  <2>1. pc[Producer] = "idle"
    BY DEF OneThread
  <2>2. Len(delivered) \in Nat /\ acceptedAtStop \in Nat
    BY DEF PipelineInv, PipelineTypeOK
  <2> QED BY <2>1, <2>2 DEF PipelineInv, Drained
<1> QED BY <1>1, PipelineInvariant, PTL

\* processedCount() is the number of events consumed since start(), up to the
\* dispatch() under way.
THEOREM ProcessedCountIsExact ==
    ASSUME OneThread
    PROVE  PipelineSpec => []ProcessedCountExact
<1>1. PipelineInv => ProcessedCountExact
  BY DEF PipelineInv, Counted, ProcessedCountExact, OneThread
<1> QED BY <1>1, PipelineInvariant, PTL

\* start() never assigns a thread to worker_ while it is joinable, so that
\* std::terminate is not called, however often start() and stop() alternate.
THEOREM NeverTerminates ==
    ASSUME OneThread
    PROVE  PipelineSpec => []NoTerminate
<1>1. PipelineInv => NoTerminate
  BY DEF PipelineInv, NoTerminate
<1> QED BY <1>1, PipelineInvariant, PTL

-----------------------------------------------------------------------------
(* Receiver: the inductive invariant *)

ReceiverTypes ==
    /\ rxStep \in {"setup", "poll", "packet", "free", "returned"}
    /\ pool \subseteq Mbufs /\ content \in [Mbufs -> 0 .. MaxFrames]
    /\ ring \in Seq(Mbufs) /\ packets \in Seq(Mbufs)
    /\ arrived \in Seq({"itch", "malformed", "other"}) /\ Len(arrived) <= MaxFrames
    /\ packets = <<>> <=> rxStep \notin {"packet", "free"}

\* An mbuf is in one place: it is not free while the ring or the burst has it,
\* neither has it twice, and not both have it.
OnePlace ==
    /\ \A i \in 1 .. Len(ring) : ring[i] \notin pool
    /\ \A i \in 1 .. Len(packets) : packets[i] \notin pool
    /\ \A i, j \in 1 .. Len(ring) : i # j => ring[i] # ring[j]
    /\ \A i, j \in 1 .. Len(packets) : i # j => packets[i] # packets[j]
    /\ \A i \in 1 .. Len(ring), j \in 1 .. Len(packets) : ring[i] # packets[j]

NoneLost == \A m \in Mbufs :
    \/ m \in pool
    \/ \E i \in 1 .. Len(ring) : ring[i] = m
    \/ \E i \in 1 .. Len(packets) : packets[i] = m

AllCounted == Cardinality(pool) + Len(ring) + Len(packets) = Cardinality(Mbufs)

\* Frames are held in the order of their arrival, the burst before the ring.
InOrder ==
    /\ \A i \in 1 .. Len(ring) : content[ring[i]] \in 1 .. Len(arrived)
    /\ \A i \in 1 .. Len(packets) : content[packets[i]] \in 1 .. Len(arrived)
    /\ \A i, j \in 1 .. Len(ring) : i < j => content[ring[i]] < content[ring[j]]
    /\ \A i, j \in 1 .. Len(packets) : i < j => content[packets[i]] < content[packets[j]]
    /\ \A i \in 1 .. Len(ring), j \in 1 .. Len(packets) : content[packets[j]] < content[ring[i]]

ReceiverInv == ReceiverTypes /\ OnePlace /\ NoneLost /\ AllCounted /\ InOrder

\* What the steps use of the sequence operators.
LEMMA Appended ==
    ASSUME NEW S, NEW s \in Seq(S), NEW e \in S
    PROVE  /\ Append(s, e) \in Seq(S) /\ Len(Append(s, e)) = Len(s) + 1
           /\ \A i \in 1 .. Len(s) : Append(s, e)[i] = s[i]
           /\ Append(s, e)[Len(s) + 1] = e
           /\ \A i \in 1 .. Len(Append(s, e)) :
                  (i \in 1 .. Len(s) /\ Append(s, e)[i] = s[i]) \/ (i = Len(s) + 1 /\ Append(s, e)[i] = e)
<1>1. Append(s, e) \in Seq(S) /\ Len(Append(s, e)) = Len(s) + 1
  OBVIOUS
<1>2. (\A i \in 1 .. Len(s) : Append(s, e)[i] = s[i]) /\ Append(s, e)[Len(s) + 1] = e
  OBVIOUS
<1>3. \A i \in 1 .. Len(Append(s, e)) :
          (i \in 1 .. Len(s) /\ Append(s, e)[i] = s[i]) \/ (i = Len(s) + 1 /\ Append(s, e)[i] = e)
  <2> TAKE i \in 1 .. Len(Append(s, e))
  <2>1. i \in 1 .. Len(s) \/ i = Len(s) + 1
    BY <1>1
  <2>2. CASE i \in 1 .. Len(s)
    BY <1>2, <2>2, Zenon
  <2>3. CASE i = Len(s) + 1
    BY <1>2, <2>3, Zenon
  <2> QED BY <2>1, <2>2, <2>3
<1> QED BY <1>1, <1>2, <1>3

LEMMA EmptyIsLengthZero ==
    ASSUME NEW S, NEW s \in Seq(S)
    PROVE  s = <<>> <=> Len(s) = 0
OBVIOUS

LEMMA ReceiverInitInv == ReceiverInit => ReceiverInv
<1> SUFFICES ASSUME ReceiverInit PROVE ReceiverInv
  OBVIOUS
<1> USE DEF ReceiverInit
<1>1. ReceiverTypes
  BY ReceiverAssumption DEF ReceiverTypes
<1>2. OnePlace /\ NoneLost /\ InOrder
  BY DEF OnePlace, NoneLost, InOrder
<1>3. AllCounted
  BY ReceiverAssumption, FS_CardinalityType DEF AllCounted
<1> QED BY <1>1, <1>2, <1>3 DEF ReceiverInv

LEMMA PoolFinite ==
    ASSUME ReceiverInv
    PROVE  IsFiniteSet(pool) /\ Cardinality(pool) \in Nat
<1>1. IsFiniteSet(pool)
  BY ReceiverAssumption, FS_Subset DEF ReceiverInv, ReceiverTypes
<1> QED BY <1>1, FS_CardinalityType

LEMMA SamePlaces ==
    ASSUME ReceiverInv, UNCHANGED <<pool, content, ring, packets, arrived>>
    PROVE  OnePlace' /\ NoneLost' /\ AllCounted' /\ InOrder'
<1>1. OnePlace'
  BY DEF ReceiverInv, OnePlace
<1>2. NoneLost'
  BY DEF ReceiverInv, NoneLost
<1>3. AllCounted'
  BY DEF ReceiverInv, AllCounted
<1>4. InOrder'
  BY DEF ReceiverInv, InOrder
<1> QED BY <1>1, <1>2, <1>3, <1>4

\* The NIC stores a frame: the mbuf moves from the pool to the end of the ring.
Stored(kind, m) ==
    /\ rxStep \notin {"setup", "returned"} /\ Len(arrived) < MaxFrames
    /\ arrived' = Append(arrived, kind) /\ pool' = pool \ {m}
    /\ content' = [content EXCEPT ![m] = Len(arrived')] /\ ring' = Append(ring, m)
    /\ UNCHANGED <<rxStep, packets>>

\* What Stored does to the places and the contents, index by index.
LEMMA StoredEffect ==
    ASSUME ReceiverInv, NEW kind \in {"itch", "malformed", "other"}, NEW m \in pool, Stored(kind, m)
    PROVE  /\ pool' = pool \ {m} /\ UNCHANGED <<rxStep, packets>>
           /\ Len(arrived') = Len(arrived) + 1 /\ \A n \in 1 .. Len(arrived) : arrived'[n] = arrived[n]
           /\ ring' \in Seq(Mbufs) /\ Len(ring') = Len(ring) + 1
           /\ \A i \in 1 .. Len(ring) : i \in 1 .. Len(ring') /\ ring'[i] = ring[i]
           /\ Len(ring) + 1 \in 1 .. Len(ring') /\ ring'[Len(ring) + 1] = m
           /\ \A i \in 1 .. Len(ring') :
                  (i \in 1 .. Len(ring) /\ ring'[i] = ring[i]) \/ (i = Len(ring) + 1 /\ ring'[i] = m)
           /\ content'[m] = Len(arrived) + 1
           /\ \A i \in 1 .. Len(ring) : content'[ring[i]] = content[ring[i]]
           /\ \A i \in 1 .. Len(packets) : content'[packets[i]] = content[packets[i]]
<1>1. m \in Mbufs /\ ring \in Seq(Mbufs) /\ packets \in Seq(Mbufs) /\ content \in [Mbufs -> 0 .. MaxFrames]
      /\ arrived \in Seq({"itch", "malformed", "other"})
  BY DEF ReceiverInv, ReceiverTypes
<1>2. /\ pool' = pool \ {m} /\ ring' = Append(ring, m) /\ arrived' = Append(arrived, kind)
      /\ content' = [content EXCEPT ![m] = Len(arrived')] /\ UNCHANGED <<rxStep, packets>>
  BY DEF Stored
<1>3. Len(arrived') = Len(arrived) + 1 /\ \A n \in 1 .. Len(arrived) : arrived'[n] = arrived[n]
  <2>1. arrived \in Seq({"itch", "malformed", "other"}) /\ kind \in {"itch", "malformed", "other"}
    BY <1>1
  <2>2. /\ Len(Append(arrived, kind)) = Len(arrived) + 1
        /\ \A n \in 1 .. Len(arrived) : Append(arrived, kind)[n] = arrived[n]
    BY ONLY <2>1, Appended
  <2> QED BY <1>2, <2>2
<1>4. /\ ring' \in Seq(Mbufs) /\ Len(ring') = Len(ring) + 1
      /\ \A i \in 1 .. Len(ring) : ring'[i] = ring[i]
      /\ ring'[Len(ring) + 1] = m
      /\ \A i \in 1 .. Len(ring') :
            (i \in 1 .. Len(ring) /\ ring'[i] = ring[i]) \/ (i = Len(ring) + 1 /\ ring'[i] = m)
  <2>1. PICK r : r = Append(ring, m)
    OBVIOUS
  <2>2. PICK n \in Nat : n = Len(ring)
    BY <1>1
  <2>3. /\ r \in Seq(Mbufs) /\ Len(r) = n + 1 /\ \A i \in 1 .. n : r[i] = ring[i]
        /\ r[n + 1] = m
    BY <1>1, <2>1, <2>2, Appended
  <2>4. \A i \in 1 .. n + 1 : i \in 1 .. n \/ i = n + 1
    BY <2>2
  <2> QED BY <1>2, <2>1, <2>2, <2>3, <2>4
<1>5. /\ \A i \in 1 .. Len(ring) : i \in 1 .. Len(ring) + 1
      /\ Len(ring) + 1 \in 1 .. Len(ring) + 1
  <2>1. Len(ring) \in Nat
    BY <1>1
  <2> QED BY <2>1
<1>6. /\ \A i \in 1 .. Len(ring) : ring[i] \in Mbufs /\ ring[i] # m
      /\ \A i \in 1 .. Len(packets) : packets[i] \in Mbufs /\ packets[i] # m
  BY <1>1 DEF ReceiverInv, OnePlace
<1>7. content'[m] = Len(arrived) + 1
  BY <1>1, <1>2, <1>3
<1>8. \A p \in Mbufs : p # m => content'[p] = content[p]
  BY <1>1, <1>2
<1>9. /\ \A i \in 1 .. Len(ring) : content'[ring[i]] = content[ring[i]]
      /\ \A i \in 1 .. Len(packets) : content'[packets[i]] = content[packets[i]]
  BY <1>6, <1>8
<1> QED BY <1>2, <1>3, <1>4, <1>5, <1>7, <1>9

LEMMA StoreInv ==
    ASSUME ReceiverInv, NEW kind \in {"itch", "malformed", "other"}, NEW m \in pool, Stored(kind, m)
    PROVE  ReceiverInv'
<1>1. /\ pool' = pool \ {m} /\ UNCHANGED <<rxStep, packets>> /\ ring' \in Seq(Mbufs)
      /\ Len(arrived') = Len(arrived) + 1 /\ Len(ring') = Len(ring) + 1
  BY StoredEffect
<1>2. Len(arrived) \in Nat /\ Len(ring) \in Nat /\ Len(packets) \in Nat
  BY DEF ReceiverInv, ReceiverTypes
<1>3. \A i \in 1 .. Len(ring') :
          (i \in 1 .. Len(ring) /\ ring'[i] = ring[i]) \/ (i = Len(ring) + 1 /\ ring'[i] = m)
  BY StoredEffect
<1>4. ReceiverTypes'
  <2>1. m \in Mbufs /\ MaxFrames \in Nat /\ arrived \in Seq({"itch", "malformed", "other"})
        /\ content \in [Mbufs -> 0 .. MaxFrames]
    BY ReceiverAssumption DEF ReceiverInv, ReceiverTypes
  <2>2. arrived' \in Seq({"itch", "malformed", "other"}) /\ Len(arrived') <= MaxFrames
    <3>1. arrived' = Append(arrived, kind) /\ Len(arrived) < MaxFrames
      BY DEF Stored
    <3> QED BY <1>1, <1>2, <2>1, <3>1, Appended
  <2>3. Len(arrived') \in 0 .. MaxFrames
    BY <1>1, <1>2, <2>1, <2>2
  <2>4. content' \in [Mbufs -> 0 .. MaxFrames]
    BY <2>1, <2>3 DEF Stored
  <2> QED BY <1>1, <2>2, <2>4 DEF ReceiverInv, ReceiverTypes
<1>5. OnePlace'
  <2>1. \A i \in 1 .. Len(ring') : ring'[i] \notin pool'
    BY <1>1, <1>3 DEF ReceiverInv, OnePlace
  <2>2. \A i \in 1 .. Len(packets') : packets'[i] \notin pool'
    BY <1>1 DEF ReceiverInv, OnePlace
  <2>3. \A i, j \in 1 .. Len(ring') : i # j => ring'[i] # ring'[j]
    BY <1>3 DEF ReceiverInv, OnePlace
  <2>4. \A i, j \in 1 .. Len(packets') : i # j => packets'[i] # packets'[j]
    BY <1>1 DEF ReceiverInv, OnePlace
  <2>5. \A i \in 1 .. Len(ring'), j \in 1 .. Len(packets') : ring'[i] # packets'[j]
    BY <1>1, <1>3 DEF ReceiverInv, OnePlace
  <2> QED BY <2>1, <2>2, <2>3, <2>4, <2>5 DEF OnePlace
<1>6. NoneLost'
  <2>1. (\A i \in 1 .. Len(ring) : i \in 1 .. Len(ring') /\ ring'[i] = ring[i])
        /\ Len(ring) + 1 \in 1 .. Len(ring') /\ ring'[Len(ring) + 1] = m
    BY StoredEffect
  <2> SUFFICES ASSUME NEW b \in Mbufs
               PROVE  \/ b \in pool'
                      \/ \E i \in 1 .. Len(ring') : ring'[i] = b
                      \/ \E i \in 1 .. Len(packets') : packets'[i] = b
    BY DEF NoneLost
  <2>2. CASE b = m
    BY <2>1, <2>2
  <2>3. CASE b \in pool /\ b # m
    BY <1>1, <2>3
  <2>4. CASE \E i \in 1 .. Len(ring) : ring[i] = b
    BY <2>1, <2>4
  <2>5. CASE \E i \in 1 .. Len(packets) : packets[i] = b
    BY <1>1, <2>5
  <2> QED BY <2>2, <2>3, <2>4, <2>5 DEF ReceiverInv, NoneLost
<1>7. AllCounted'
  <2>1. Cardinality(pool') = Cardinality(pool) - 1
    BY <1>1, PoolFinite, FS_RemoveElement, Zenon
  <2> QED BY <1>1, <1>2, <2>1, PoolFinite DEF ReceiverInv, AllCounted
<1>8. InOrder'
  <2>1. /\ \A i \in 1 .. Len(ring) : content'[ring[i]] = content[ring[i]]
        /\ \A i \in 1 .. Len(packets) : content'[packets[i]] = content[packets[i]]
        /\ content'[m] = Len(arrived) + 1
    BY StoredEffect
  <2>2. \A n \in 1 .. Len(arrived) : n \in 1 .. Len(arrived') /\ n < Len(arrived) + 1
    BY <1>1, <1>2
  <2>3. Len(arrived) + 1 \in 1 .. Len(arrived')
    BY <1>1, <1>2
  <2>4. \A i \in 1 .. Len(ring) : content'[ring[i]] \in 1 .. Len(arrived)
    BY <2>1, Zenon DEF ReceiverInv, InOrder
  <2>5. \A i \in 1 .. Len(packets) : content'[packets[i]] \in 1 .. Len(arrived)
    BY <2>1 DEF ReceiverInv, InOrder
  <2>6. \A i \in 1 .. Len(ring') : content'[ring'[i]] \in 1 .. Len(arrived')
    BY <1>3, <2>1, <2>2, <2>3, <2>4
  <2>7. \A i \in 1 .. Len(packets') : content'[packets'[i]] \in 1 .. Len(arrived')
    BY <1>1, <2>2, <2>5
  <2>8. \A i, j \in 1 .. Len(ring') : i < j => content'[ring'[i]] < content'[ring'[j]]
    <3> SUFFICES ASSUME NEW i \in 1 .. Len(ring'), NEW j \in 1 .. Len(ring'), i < j
                 PROVE  content'[ring'[i]] < content'[ring'[j]]
      OBVIOUS
    <3>1. i \in 1 .. Len(ring) /\ ring'[i] = ring[i]
      BY <1>1, <1>2, <1>3
    <3>2. CASE j \in 1 .. Len(ring) /\ ring'[j] = ring[j]
      BY <2>1, <3>1, <3>2 DEF ReceiverInv, InOrder
    <3>3. CASE ring'[j] = m
      BY <2>1, <2>2, <2>4, <3>1, <3>3
    <3> QED BY <1>3, <3>2, <3>3
  <2>9. \A i, j \in 1 .. Len(packets') : i < j => content'[packets'[i]] < content'[packets'[j]]
    BY <1>1, <2>1 DEF ReceiverInv, InOrder
  <2>10. \A i \in 1 .. Len(ring'), j \in 1 .. Len(packets') : content'[packets'[j]] < content'[ring'[i]]
    <3> TAKE i \in 1 .. Len(ring'), j \in 1 .. Len(packets')
    <3>1. j \in 1 .. Len(packets) /\ packets'[j] = packets[j]
      BY <1>1
    <3>2. CASE i \in 1 .. Len(ring) /\ ring'[i] = ring[i]
      BY <2>1, <3>1, <3>2 DEF ReceiverInv, InOrder
    <3>3. CASE ring'[i] = m
      BY <2>1, <2>2, <2>5, <3>1, <3>3, Zenon
    <3> QED BY <1>3, <3>2, <3>3
  <2> QED BY <2>6, <2>7, <2>8, <2>9, <2>10 DEF InOrder
<1> QED BY <1>4, <1>5, <1>6, <1>7, <1>8 DEF ReceiverInv

\* The NIC loses a frame.
LEMMA LoseInv ==
    ASSUME ReceiverInv, NEW kind \in {"itch", "malformed", "other"}, Len(arrived) < MaxFrames,
           arrived' = Append(arrived, kind), UNCHANGED <<rxStep, pool, content, ring, packets>>
    PROVE  ReceiverInv'
<1>1. Len(arrived) \in Nat /\ arrived \in Seq({"itch", "malformed", "other"}) /\ MaxFrames \in Nat
  BY ReceiverAssumption DEF ReceiverInv, ReceiverTypes
<1>2. Len(arrived') = Len(arrived) + 1 /\ arrived' \in Seq({"itch", "malformed", "other"})
  BY <1>1, Appended
<1>3. ReceiverTypes'
  BY <1>1, <1>2 DEF ReceiverInv, ReceiverTypes
<1>4. OnePlace' /\ NoneLost' /\ AllCounted'
  BY DEF ReceiverInv, OnePlace, NoneLost, AllCounted
<1>5. InOrder'
  <2>1. \A n \in 1 .. Len(arrived) : n \in 1 .. Len(arrived')
    BY <1>1, <1>2
  <2> QED BY <2>1 DEF ReceiverInv, InOrder
<1> QED BY <1>3, <1>4, <1>5 DEF ReceiverInv

\* rte_eth_rx_burst moves the front of the ring to the burst.
LEMMA BurstInv ==
    ASSUME ReceiverInv, rxBurst
    PROVE  ReceiverInv'
<1> DEFINE n == IF Len(ring) < BurstSize THEN Len(ring) ELSE BurstSize
<1>1. /\ ring \in Seq(Mbufs) /\ Len(ring) \in Nat /\ Len(ring) > 0 /\ packets = <<>>
      /\ BurstSize \in Nat /\ BurstSize > 0
  BY ReceiverAssumption DEF rxBurst, ReceiverInv, ReceiverTypes
<1>2. n \in 1 .. Len(ring)
  BY <1>1
<1>3. packets' = SubSeq(ring, 1, n) /\ ring' = SubSeq(ring, n + 1, Len(ring))
  BY DEF rxBurst
<1>4. rxStep' = "packet" /\ UNCHANGED <<pool, content, arrived>>
  BY DEF rxBurst
<1> HIDE DEF n
<1>5. /\ packets' \in Seq(Mbufs) /\ Len(packets') = n
      /\ \A i \in 1 .. n : packets'[i] = ring[i]
  BY <1>1, <1>2, <1>3
<1>6. /\ ring' \in Seq(Mbufs) /\ Len(ring') = Len(ring) - n
      /\ \A i \in 1 .. Len(ring) - n : ring'[i] = ring[n + i]
  BY <1>1, <1>2, <1>3
<1>7. /\ \A i \in 1 .. Len(packets') : i \in 1 .. Len(ring) /\ packets'[i] = ring[i]
      /\ \A i \in 1 .. Len(ring') : n + i \in 1 .. Len(ring) /\ ring'[i] = ring[n + i]
  <2>1. (\A i \in 1 .. n : i \in 1 .. Len(ring)) /\ \A i \in 1 .. Len(ring) - n : n + i \in 1 .. Len(ring)
    BY <1>1, <1>2
  <2> QED BY <1>5, <1>6, <2>1
<1>8. \A i \in 1 .. Len(ring'), j \in 1 .. Len(packets') : j < n + i /\ n + i # j
  BY <1>1, <1>2, <1>5, <1>6
<1>9. \A i, j \in 1 .. Len(ring') : (i # j => n + i # n + j) /\ (i < j => n + i < n + j)
  BY <1>1, <1>2, <1>6
<1>10. ReceiverTypes'
  <2>1. packets' # <<>>
    BY <1>2, <1>5
  <2> QED BY <1>4, <1>5, <1>6, <2>1 DEF ReceiverInv, ReceiverTypes
<1>11. OnePlace'
  <2>1. \A i \in 1 .. Len(ring') : ring'[i] \notin pool'
    BY <1>4, <1>7 DEF ReceiverInv, OnePlace
  <2>2. \A i \in 1 .. Len(packets') : packets'[i] \notin pool'
    BY <1>4, <1>7 DEF ReceiverInv, OnePlace
  <2>3. \A i, j \in 1 .. Len(ring) : i # j => ring[i] # ring[j]
    BY DEF ReceiverInv, OnePlace
  <2>4. \A i, j \in 1 .. Len(ring') : i # j => ring'[i] # ring'[j]
    <3> SUFFICES ASSUME NEW i \in 1 .. Len(ring'), NEW j \in 1 .. Len(ring'), i # j
                 PROVE  ring'[i] # ring'[j]
      OBVIOUS
    <3>1. n + i # n + j
      BY <1>9
    <3>2. /\ n + i \in 1 .. Len(ring) /\ ring'[i] = ring[n + i]
          /\ n + j \in 1 .. Len(ring) /\ ring'[j] = ring[n + j]
      BY <1>7
    <3> QED BY <2>3, <3>1, <3>2
  <2>5. \A i, j \in 1 .. Len(packets') : i # j => packets'[i] # packets'[j]
    BY <1>7, <2>3
  <2>6. \A i \in 1 .. Len(ring'), j \in 1 .. Len(packets') : ring'[i] # packets'[j]
    BY <1>7, <1>8, <2>3
  <2> QED BY <2>1, <2>2, <2>4, <2>5, <2>6 DEF OnePlace
<1>12. NoneLost'
  <2> SUFFICES ASSUME NEW m \in Mbufs, m \notin pool
               PROVE  \/ \E i \in 1 .. Len(ring') : ring'[i] = m
                      \/ \E i \in 1 .. Len(packets') : packets'[i] = m
    BY <1>4 DEF NoneLost
  <2>1. PICK k \in 1 .. Len(ring) : ring[k] = m
    BY <1>1 DEF ReceiverInv, NoneLost
  <2>2. CASE k <= n
    <3>1. k \in 1 .. Len(packets')
      BY <1>1, <1>2, <1>5, <2>2
    <3> QED BY <1>7, <2>1, <3>1
  <2>3. CASE k > n
    <3>1. k - n \in 1 .. Len(ring') /\ n + (k - n) = k
      BY <1>1, <1>2, <1>6, <2>3
    <3> QED BY <1>7, <2>1, <3>1
  <2> QED BY <1>1, <1>2, <2>2, <2>3
<1>13. AllCounted'
  BY <1>1, <1>2, <1>4, <1>5, <1>6, PoolFinite DEF ReceiverInv, AllCounted
<1>14. InOrder'
  <2>1. /\ \A i \in 1 .. Len(ring) : content[ring[i]] \in 1 .. Len(arrived)
        /\ \A i, j \in 1 .. Len(ring) : i < j => content[ring[i]] < content[ring[j]]
    BY DEF ReceiverInv, InOrder
  <2>2. \A i \in 1 .. Len(ring') : content'[ring'[i]] \in 1 .. Len(arrived')
    BY <1>4, <1>7, <2>1, Zenon
  <2>3. \A i \in 1 .. Len(packets') : content'[packets'[i]] \in 1 .. Len(arrived')
    BY <1>4, <1>7, <2>1
  <2>4. \A i, j \in 1 .. Len(ring') : i < j => content'[ring'[i]] < content'[ring'[j]]
    BY <1>4, <1>7, <1>9, <2>1, Zenon
  <2>5. \A i, j \in 1 .. Len(packets') : i < j => content'[packets'[i]] < content'[packets'[j]]
    BY <1>4, <1>7, <2>1
  <2>6. \A i \in 1 .. Len(ring'), j \in 1 .. Len(packets') : content'[packets'[j]] < content'[ring'[i]]
    BY <1>4, <1>7, <1>8, <2>1
  <2> QED BY <2>2, <2>3, <2>4, <2>5, <2>6 DEF InOrder
<1> QED BY <1>10, <1>11, <1>12, <1>13, <1>14 DEF ReceiverInv

LEMMA SubmitPayloadInv ==
    ASSUME ReceiverInv, submitPayload
    PROVE  ReceiverInv'
<1>1. rxStep = "packet" /\ rxStep' = "free" /\ UNCHANGED <<pool, content, ring, packets, arrived>>
  BY DEF submitPayload
<1>2. ReceiverTypes'
  BY <1>1 DEF ReceiverInv, ReceiverTypes
<1>3. OnePlace' /\ NoneLost' /\ AllCounted' /\ InOrder'
  BY <1>1, SamePlaces
<1> QED BY <1>2, <1>3 DEF ReceiverInv

\* rte_pktmbuf_free gives the head of the burst back to the pool.
LEMMA FreeInv ==
    ASSUME ReceiverInv, free
    PROVE  ReceiverInv'
<1>1. /\ packets \in Seq(Mbufs) /\ packets # <<>> /\ Len(packets) \in Nat /\ Len(packets) >= 1
      /\ ring \in Seq(Mbufs) /\ Len(ring) \in Nat
  BY DEF free, ReceiverInv, ReceiverTypes
<1>2. Head(packets) = packets[1] /\ packets[1] \in Mbufs /\ 1 \in 1 .. Len(packets)
  BY <1>1
<1>3. /\ Tail(packets) \in Seq(Mbufs) /\ Len(Tail(packets)) = Len(packets) - 1
      /\ \A i \in 1 .. Len(packets) - 1 : Tail(packets)[i] = packets[i + 1]
  BY <1>1
<1>4. /\ pool' = pool \cup {packets[1]} /\ packets' = Tail(packets)
      /\ rxStep' = (IF Len(packets) > 1 THEN "packet" ELSE "poll")
      /\ UNCHANGED <<content, ring, arrived>>
  BY <1>2 DEF free
<1>5. \A i \in 1 .. Len(packets') : i + 1 \in 1 .. Len(packets) /\ i + 1 # 1 /\ packets'[i] = packets[i + 1]
  BY <1>1, <1>3, <1>4
<1>6. \A i, j \in 1 .. Len(packets') : (i # j => i + 1 # j + 1) /\ (i < j => i + 1 < j + 1)
  BY <1>1, <1>3, <1>4
<1>7. ReceiverTypes'
  <2>0. packets' \in Seq(Mbufs) /\ Len(packets') = Len(packets) - 1
    BY <1>3, <1>4
  <2>1. packets' = <<>> <=> ~(Len(packets) > 1)
    BY <1>1, <2>0, EmptyIsLengthZero
  <2>2. packets' = <<>> <=> rxStep' \notin {"packet", "free"}
    BY <1>4, <2>1
  <2> QED BY <1>2, <1>3, <1>4, <2>2 DEF ReceiverInv, ReceiverTypes
<1>8. OnePlace'
  BY <1>2, <1>4, <1>5, <1>6 DEF ReceiverInv, OnePlace
<1>9. NoneLost'
  <2> SUFFICES ASSUME NEW m \in Mbufs, NEW k \in 1 .. Len(packets), packets[k] = m, m # packets[1]
               PROVE  \E i \in 1 .. Len(packets') : packets'[i] = m
    BY <1>4 DEF ReceiverInv, NoneLost
  <2>1. k - 1 \in 1 .. Len(packets') /\ (k - 1) + 1 = k
    BY <1>1, <1>3, <1>4
  <2> QED BY <1>5, <2>1, Zenon
<1>10. AllCounted'
  <2>1. Cardinality(pool') = Cardinality(pool) + 1
    BY <1>2, <1>4, PoolFinite, FS_AddElement, Zenon DEF ReceiverInv, OnePlace
  <2> QED BY <1>1, <1>3, <1>4, <2>1, PoolFinite DEF ReceiverInv, AllCounted
<1>11. InOrder'
  <2>1. \A i \in 1 .. Len(packets') : content'[packets'[i]] = content[packets[i + 1]]
    BY <1>4, <1>5
  <2>2. \A i \in 1 .. Len(packets') : content'[packets'[i]] \in 1 .. Len(arrived')
    BY <1>4, <1>5, <2>1 DEF ReceiverInv, InOrder
  <2>3. \A i, j \in 1 .. Len(packets') : i < j => content'[packets'[i]] < content'[packets'[j]]
    BY <1>5, <1>6, <2>1 DEF ReceiverInv, InOrder
  <2>4. \A i \in 1 .. Len(ring'), j \in 1 .. Len(packets') : content'[packets'[j]] < content'[ring'[i]]
    BY <1>4, <1>5, <2>1 DEF ReceiverInv, InOrder
  <2>5. /\ \A i \in 1 .. Len(ring') : content'[ring'[i]] \in 1 .. Len(arrived')
        /\ \A i, j \in 1 .. Len(ring') : i < j => content'[ring'[i]] < content'[ring'[j]]
    BY <1>4 DEF ReceiverInv, InOrder
  <2> QED BY <2>2, <2>3, <2>4, <2>5 DEF InOrder
<1> QED BY <1>7, <1>8, <1>9, <1>10, <1>11 DEF ReceiverInv

LEMMA ReceiverStep ==
    ASSUME ReceiverInv, [ReceiverNext]_receiverVars
    PROVE  ReceiverInv'
<1>1. CASE UNCHANGED receiverVars
  <2>1. UNCHANGED <<rxStep, pool, content, ring, packets, arrived>>
    BY <1>1 DEF receiverVars
  <2>2. ReceiverTypes'
    BY <2>1 DEF ReceiverInv, ReceiverTypes
  <2>3. OnePlace' /\ NoneLost' /\ AllCounted' /\ InOrder'
    BY <2>1, SamePlaces
  <2> QED BY <2>2, <2>3 DEF ReceiverInv
<1>2. CASE setup
  <2>1. rxStep = "setup" /\ rxStep' \in {"poll", "returned"} /\ UNCHANGED <<pool, content, ring, packets, arrived>>
    BY <1>2 DEF setup
  <2>2. ReceiverTypes'
    BY <2>1 DEF ReceiverInv, ReceiverTypes
  <2>3. OnePlace' /\ NoneLost' /\ AllCounted' /\ InOrder'
    BY <2>1, SamePlaces
  <2> QED BY <2>2, <2>3 DEF ReceiverInv
<1>3. CASE Arrival
  <2>1. PICK kind \in {"itch", "malformed", "other"} : arrive(kind)
    BY <1>3 DEF Arrival
  <2>2. /\ rxStep \notin {"setup", "returned"} /\ Len(arrived) < MaxFrames
        /\ arrived' = Append(arrived, kind) /\ UNCHANGED <<rxStep, packets>>
    BY <2>1 DEF arrive
  <2>3. CASE UNCHANGED <<pool, content, ring>>
    BY <2>2, <2>3, LoseInv
  <2>4. CASE \E m \in pool : Stored(kind, m)
    BY <2>4, StoreInv
  <2> QED BY <2>1, <2>3, <2>4 DEF arrive, Stored
<1> QED BY <1>1, <1>2, <1>3, BurstInv, SubmitPayloadInv, FreeInv DEF ReceiverNext

\* What a burst and a free do to the places, for what is composed with the loop.
LEMMA BurstEffect ==
    ASSUME ReceiverInv, rxBurst
    PROVE  /\ \A i \in 1 .. Len(packets') : \E k \in 1 .. Len(ring) : packets'[i] = ring[k]
           /\ \A i \in 1 .. Len(ring') : \E k \in 1 .. Len(ring) : ring'[i] = ring[k]
<1> DEFINE n == IF Len(ring) < BurstSize THEN Len(ring) ELSE BurstSize
<1>1. ring \in Seq(Mbufs) /\ Len(ring) \in Nat /\ BurstSize \in Nat
  BY ReceiverAssumption DEF ReceiverInv, ReceiverTypes
<1>2. n \in 0 .. Len(ring)
  BY <1>1
<1>3. packets' = SubSeq(ring, 1, n) /\ ring' = SubSeq(ring, n + 1, Len(ring))
  BY DEF rxBurst
<1> HIDE DEF n
<1>4. Len(packets') = n /\ \A i \in 1 .. n : i \in 1 .. Len(ring) /\ packets'[i] = ring[i]
  BY <1>1, <1>2, <1>3
<1>5. Len(ring') = Len(ring) - n
      /\ \A i \in 1 .. Len(ring) - n : n + i \in 1 .. Len(ring) /\ ring'[i] = ring[n + i]
  BY <1>1, <1>2, <1>3
<1> QED BY <1>4, <1>5, Zenon

LEMMA FreeEffect ==
    ASSUME ReceiverInv, free
    PROVE  \A i \in 1 .. Len(packets') :
               i + 1 \in 1 .. Len(packets) /\ i + 1 > 1 /\ packets'[i] = packets[i + 1]
<1>1. packets \in Seq(Mbufs) /\ packets # <<>> /\ Len(packets) \in Nat
  BY DEF free, ReceiverInv, ReceiverTypes
<1>2. packets' = Tail(packets) /\ Len(packets') = Len(packets) - 1
  BY <1>1 DEF free
<1>3. \A i \in 1 .. Len(packets) - 1 : packets'[i] = packets[i + 1]
  BY <1>1, <1>2
<1>4. \A i \in 1 .. Len(packets) - 1 : i + 1 \in 1 .. Len(packets) /\ i + 1 > 1
  BY <1>1
<1> QED BY <1>2, <1>3, <1>4

LEMMA AccountedByInv == ReceiverInv => MbufsAccounted
<1> SUFFICES ASSUME ReceiverInv PROVE MbufsAccounted
  OBVIOUS
<1>1. ring \in Seq(Mbufs) /\ packets \in Seq(Mbufs) /\ pool \subseteq Mbufs
  BY DEF ReceiverInv, ReceiverTypes
<1>2. pool \cup Range(ring) \cup Range(packets) = Mbufs
  BY <1>1 DEF Range, ReceiverInv, NoneLost
<1> QED BY <1>2 DEF MbufsAccounted, ReceiverInv, AllCounted

-----------------------------------------------------------------------------
(* Receiver: the theorem *)

\* Whatever the NIC does between two steps of the loop, every mbuf is free, in
\* the ring or in the burst, and in one of them only.
THEOREM LoopAccountsForMbufs == ReceiverSpec => []MbufsAccounted
<1>1. ReceiverInit => ReceiverInv
  BY ReceiverInitInv
<1>2. ReceiverInv /\ [ReceiverNext]_receiverVars => ReceiverInv'
  BY ReceiverStep
<1>3. ReceiverInv => MbufsAccounted
  BY AccountedByInv
<1> QED BY <1>1, <1>2, <1>3, PTL DEF ReceiverSpec

-----------------------------------------------------------------------------
(* TradingRuntime: the inductive invariant *)

FeedTypes ==
    /\ mode \in {"Replay", "Dpdk"}
    /\ next \in Nat \ {0} /\ replayedMessages \in Nat
    /\ mode = "Replay" => /\ feed \in [1 .. FeedLength -> Values \cup {Malformed}]
                          /\ \A i \in 1 .. FeedLength : feed[i] \in {i, Malformed}

\* Where main() is in terms of the pipeline's calls: it starts it once, stops it
\* once and is never between the two parts of either elsewhere.
MainSteps ==
    /\ step \in {"open", "failed", "receive", "done"} => pc[Producer] = "idle" /\ ~running_
    /\ step \in {"replay", "run"} => pc[Producer] \in {"idle", "spawn"} /\ running_
    /\ step = "wait" => pc[Producer] = "idle" /\ running_
    /\ step = "stop" => pc[Producer] = "join"
    /\ step \in {"open", "failed"} \/ pc[Producer] = "spawn" => accepted = <<>> /\ delivered = <<>>
    /\ step \in {"replay", "wait", "receive"} => mode = "Replay"
    /\ step = "run" => mode = "Dpdk"
    /\ step \in {"open", "failed", "replay", "run", "wait", "stop", "receive", "done"}

\* processedCount() counts from the start, replayedMessages what was accepted,
\* and nothing is queued any more once stop() is called.
Tallies ==
    /\ deliveredAtStart = 0
    /\ mode = "Replay" => replayedMessages = Len(accepted)
    /\ mode = "Replay" /\ step \in {"stop", "receive", "done"} => Len(delivered) = Len(accepted)

\* A message main() has dispatched: an ITCH message of the feed that comes before
\* all that is still to be dispatched.
Behind(v) ==
    IF mode = "Replay"
    THEN v \in 1 .. FeedLength /\ v < next /\ feed[v] # Malformed
    ELSE /\ v \in 1 .. Len(arrived) /\ arrived[v] = "itch"
         /\ \A i \in 1 .. Len(ring) : v < content[ring[i]]
         /\ \A i \in 1 .. Len(packets) : i > 1 \/ rxStep # "free" => v < content[packets[i]]

FeedInOrder ==
    /\ \A i, j \in 1 .. Len(accepted) : i < j => accepted[i] < accepted[j]
    /\ \A i \in 1 .. Len(accepted) : Behind(accepted[i])
    /\ \A r \in refused : Behind(r)
    /\ \A i \in 1 .. Len(accepted) : accepted[i] \notin refused

\* The sink passed on every ITCH payload it was given.
PayloadsDispatched ==
    /\ submitted \in Seq(Nat)
    /\ \A i \in 1 .. Len(submitted) : submitted[i] \in 1 .. Len(arrived)
    /\ \A i \in 1 .. Len(submitted) :
          arrived[submitted[i]] = "itch" =>
              submitted[i] \in refused \/ \E k \in 1 .. Len(accepted) : accepted[k] = submitted[i]

MainInv == FeedTypes /\ MainSteps /\ Tallies
FeedInv == FeedInOrder /\ PayloadsDispatched

RuntimeInv == PipelineInv /\ ReceiverInv /\ MainInv /\ FeedInv

LEMMA MainIsOnlyThread == OneThread
BY MainAssumption DEF OneThread

LEMMA RuntimeInitInv == Init => RuntimeInv
<1> SUFFICES ASSUME Init PROVE RuntimeInv
  OBVIOUS
<1>1. PipelineInv /\ ReceiverInv
  BY PipelineInitInv, ReceiverInitInv, MainIsOnlyThread DEF Init
<1>2. /\ accepted = <<>> /\ delivered = <<>> /\ deliveredAtStart = 0 /\ ~running_
      /\ pc[Producer] = "idle" /\ submitted = <<>> /\ refused = {} /\ step = "open"
      /\ replayedMessages = 0 /\ next = 1
  BY MainAssumption DEF Init, PipelineInit, QueueInit, ReceiverInit
<1>3. FeedTypes
  <2>1. mode \in {"Replay", "Dpdk"}
    BY DEF Init
  <2>2. mode = "Replay" => /\ feed \in [1 .. FeedLength -> Values \cup {Malformed}]
                           /\ \A i \in 1 .. FeedLength : feed[i] \in {i, Malformed}
    BY DEF Init
  <2> QED BY <1>2, <2>1, <2>2 DEF FeedTypes
<1>4. MainSteps /\ Tallies
  BY <1>2 DEF MainSteps, Tallies
<1>5. FeedInv
  BY <1>2 DEF FeedInv, FeedInOrder, PayloadsDispatched
<1> QED BY <1>1, <1>3, <1>4, <1>5 DEF RuntimeInv, MainInv

\* What main() dispatches is an event.
LEMMA RecordIsEvent ==
    ASSUME RuntimeInv, step = "replay", next <= FeedLength, feed[next] # Malformed
    PROVE  next \in 1 .. FeedLength /\ feed[next] = next /\ next \in Values
<1>1. mode = "Replay" /\ next \in Nat \ {0} /\ FeedLength \in Nat
  BY FeedAssumption DEF RuntimeInv, MainInv, MainSteps, FeedTypes
<1>2. next \in 1 .. FeedLength
  BY <1>1
<1>3. feed[next] \in {next, Malformed}
  BY <1>1, <1>2 DEF RuntimeInv, MainInv, FeedTypes
<1> QED BY <1>2, <1>3, FeedAssumption

LEMMA FrameIsEvent ==
    ASSUME RuntimeInv, rxStep = "packet"
    PROVE  /\ Head(packets) = packets[1] /\ 1 \in 1 .. Len(packets)
           /\ content[packets[1]] \in 1 .. Len(arrived) /\ content[packets[1]] \in Values
<1>1. packets # <<>> /\ packets \in Seq(Mbufs)
  BY DEF RuntimeInv, ReceiverInv, ReceiverTypes
<1>2. Head(packets) = packets[1] /\ 1 \in 1 .. Len(packets)
  BY <1>1
<1>3. content[packets[1]] \in 1 .. Len(arrived)
  BY <1>2 DEF RuntimeInv, ReceiverInv, InOrder
<1>4. Len(arrived) \in Nat /\ MaxFrames \in Nat /\ Len(arrived) <= MaxFrames
  BY ReceiverAssumption DEF RuntimeInv, ReceiverInv, ReceiverTypes
<1>5. content[packets[1]] \in 1 .. MaxFrames
  BY <1>3, <1>4
<1> QED BY <1>2, <1>3, <1>5, FeedAssumption

-----------------------------------------------------------------------------
(* TradingRuntime: the runtime only composes: its steps are steps of the two components *)

LEMMA StepsOfPipeline ==
    ASSUME RuntimeInv, [Next]_vars
    PROVE  [PipelineNext]_pipelineVars
<1>1. CASE UNCHANGED pipelineVars
  BY <1>1
<1>2. CASE start(main) \/ spawn(main) \/ stop(main) \/ join(main)
  BY <1>2, MainAssumption DEF main, PipelineNext, Control
<1>3. ASSUME NEW known \in seenPops .. Len(delivered), Replay(known) PROVE PipelineNext
  <2>1. feed[next] \in Values /\ submit(feed[next], known)
    BY <1>3, RecordIsEvent DEF Replay, dispatchMessage
  <2> QED BY <2>1 DEF PipelineNext, Submit
<1>4. ASSUME NEW known \in seenPops .. Len(delivered), Payload(known) PROVE [PipelineNext]_pipelineVars
  <2>1. CASE UNCHANGED pipelineVars
    BY <2>1
  <2>2. CASE submit(content[Head(packets)], known)
    <3>1. content[Head(packets)] \in Values
      BY <1>4, FrameIsEvent DEF Payload, submitPayload
    <3> QED BY <2>2, <3>1 DEF PipelineNext, Submit
  <2> QED BY <1>4, <2>1, <2>2 DEF Payload, dispatchMessage
<1>5. CASE WorkerThread
  BY <1>5 DEF WorkerThread, PipelineNext
<1>6. CASE MainThread
  <2>1. CASE OpenFails \/ SkipMalformed \/ EndOfFile \/ Setup \/ Poll
    BY <1>1, <2>1 DEF OpenFails, SkipMalformed, EndOfFile, Setup, Poll
  <2>2. CASE Start \/ Spawn \/ WaitThenStop \/ RunReturned \/ Join
    BY <1>2, <2>2 DEF Start, Spawn, WaitThenStop, RunReturned, Join
  <2> QED BY <1>3, <1>4, <1>6, <2>1, <2>2 DEF MainThread
<1>7. CASE Nic \/ ReceiveResponse \/ Finished \/ Idle \/ UNCHANGED vars
  BY <1>1, <1>7 DEF Nic, ReceiveResponse, Finished, Idle, vars
<1> QED BY <1>5, <1>6, <1>7 DEF Next

LEMMA StepsOfReceiver ==
    ASSUME [Next]_vars
    PROVE  [ReceiverNext]_receiverVars
<1>1. CASE UNCHANGED receiverVars
  BY <1>1
<1>2. CASE setup \/ rxBurst \/ free \/ submitPayload \/ Arrival
  BY <1>2 DEF ReceiverNext
<1>3. CASE MainThread
  <2>1. CASE OpenFails \/ Start \/ Spawn \/ SkipMalformed \/ EndOfFile \/ WaitThenStop \/ RunReturned \/ Join
    BY <1>1, <2>1 DEF OpenFails, Start, Spawn, SkipMalformed, EndOfFile, WaitThenStop, RunReturned, Join
  <2>2. CASE Setup \/ Poll
    BY <1>2, <2>2 DEF Setup, Poll
  <2>3. CASE \E known \in seenPops .. Len(delivered) : Replay(known) \/ Payload(known)
    BY <1>1, <1>2, <2>3, Zenon DEF Replay, Payload
  <2> QED BY <1>3, <2>1, <2>2, <2>3 DEF MainThread
<1>4. CASE WorkerThread \/ Nic \/ ReceiveResponse \/ Finished \/ Idle \/ UNCHANGED vars
  BY <1>1, <1>2, <1>4 DEF WorkerThread, Nic, ReceiveResponse, Finished, Idle, vars
<1> QED BY <1>3, <1>4 DEF Next

-----------------------------------------------------------------------------
(* TradingRuntime: main() and the pipeline *)

mainVars == <<mode, feed, next, replayedMessages>>

LEMMA SameTypes ==
    ASSUME RuntimeInv, UNCHANGED mainVars
    PROVE  FeedTypes'
BY DEF RuntimeInv, MainInv, FeedTypes, mainVars

\* The counts the steps below compare, and where main() is.
LEMMA RuntimeFacts ==
    ASSUME RuntimeInv
    PROVE  /\ Len(accepted) \in Nat /\ Len(delivered) \in Nat /\ Len(delivered) <= Len(accepted)
           /\ accepted \in Seq(Values) /\ delivered \in Seq(Values)
           /\ pc[Producer] \in {"idle", "spawn", "join"}
           /\ pc \in [Controllers -> {"idle", "spawn", "join"}] /\ Producer \in Controllers
<1>1. /\ accepted \in Seq(Values) /\ delivered \in Seq(Values)
      /\ pc \in [Controllers -> {"idle", "spawn", "join"}] /\ Producer \in Controllers
  BY MainAssumption DEF RuntimeInv, PipelineInv, PipelineTypeOK
<1>2. Len(delivered) <= seenPushes /\ seenPushes \in 0 .. Len(accepted)
  BY DEF RuntimeInv, PipelineInv, Popped, PipelineTypeOK
<1>3. Len(accepted) \in Nat /\ Len(delivered) \in Nat
  BY <1>1
<1>4. Len(delivered) <= Len(accepted)
  BY <1>2, <1>3
<1> QED BY <1>1, <1>3, <1>4

LEMMA StartMain ==
    ASSUME RuntimeInv, Start
    PROVE  MainInv'
<1>1. /\ step = "open" /\ step' = (IF mode = "Replay" THEN "replay" ELSE "run")
      /\ UNCHANGED <<mode, feed, next, replayedMessages>>
  BY DEF Start, replayVars
<1>2. ~running_ /\ accepted = <<>> /\ delivered = <<>>
  BY <1>1 DEF RuntimeInv, MainInv, MainSteps
<1>3. /\ running_' = TRUE /\ pc' = [pc EXCEPT ![Producer] = "spawn"]
      /\ UNCHANGED <<accepted, delivered, deliveredAtStart>>
  BY <1>2 DEF Start, start, exchange, queueVars, main
<1>4. pc'[Producer] = "spawn"
  BY <1>3, RuntimeFacts
<1>5. mode \in {"Replay", "Dpdk"}
  BY DEF RuntimeInv, MainInv, FeedTypes
<1>6. MainSteps'
  BY <1>1, <1>2, <1>3, <1>4, <1>5 DEF MainSteps
<1>7. Tallies'
  BY <1>1, <1>2, <1>3 DEF RuntimeInv, MainInv, Tallies
<1> QED BY <1>1, <1>6, <1>7, SameTypes DEF MainInv, mainVars

LEMMA SpawnMain ==
    ASSUME RuntimeInv, Spawn
    PROVE  MainInv'
<1>1. /\ pc[Producer] = "spawn" /\ UNCHANGED <<mode, feed, next, replayedMessages, step>>
      /\ UNCHANGED <<accepted, delivered, running_>>
      /\ pc' = [pc EXCEPT ![Producer] = "idle"] /\ deliveredAtStart' = Len(delivered)
  BY DEF Spawn, spawn, replayVars, main
<1>2. accepted = <<>> /\ delivered = <<>> /\ step \in {"replay", "run"}
  BY <1>1 DEF RuntimeInv, MainInv, MainSteps
<1>3. pc'[Producer] = "idle"
  BY <1>1, RuntimeFacts
<1>4. MainSteps'
  BY <1>1, <1>2, <1>3 DEF RuntimeInv, MainInv, MainSteps
<1>5. Tallies'
  BY <1>1, <1>2 DEF RuntimeInv, MainInv, Tallies
<1> QED BY <1>1, <1>4, <1>5, SameTypes DEF MainInv, mainVars

\* Steps of main() that touch neither the pipeline nor replayedMessages.
LEMMA AsideMain ==
    ASSUME RuntimeInv,
           \/ OpenFails \/ SkipMalformed \/ EndOfFile \/ ReceiveResponse
           \/ UNCHANGED <<pipelineVars, replayVars, step>>
    PROVE  MainInv'
<1>1. UNCHANGED <<accepted, delivered, deliveredAtStart, pc, running_, mode, feed, replayedMessages>>
  BY Zenon DEF OpenFails, SkipMalformed, EndOfFile, ReceiveResponse, pipelineVars, queueVars, stateVars,
         controlVars, replayVars
<1>2. \/ step' = step
      \/ step = "open" /\ step' = "failed"
      \/ step = "replay" /\ pc[Producer] = "idle" /\ step' = "wait"
      \/ step = "receive" /\ step' = "done"
  BY DEF OpenFails, SkipMalformed, EndOfFile, ReceiveResponse, main
<1>3. next' = next \/ next' = next + 1
  BY DEF OpenFails, SkipMalformed, EndOfFile, ReceiveResponse, replayVars
<1>4. FeedTypes'
  <2>1. next' \in Nat \ {0}
    BY <1>3 DEF RuntimeInv, MainInv, FeedTypes
  <2> QED BY <1>1, <2>1, Zenon DEF RuntimeInv, MainInv, FeedTypes
<1>5. MainSteps'
  BY <1>1, <1>2 DEF RuntimeInv, MainInv, MainSteps
<1>6. Tallies'
  BY <1>1, <1>2 DEF RuntimeInv, MainInv, Tallies
<1> QED BY <1>4, <1>5, <1>6 DEF MainInv

\* submit() by main(), of a record or of a payload.
LEMMA SubmitMain ==
    ASSUME RuntimeInv, NEW v \in Values, NEW known, submit(v, known), step' = step, step \in {"replay", "run"},
           UNCHANGED <<mode, feed>>, next' \in Nat \ {0},
           \/ mode = "Dpdk" /\ replayedMessages' = replayedMessages
           \/ replayedMessages' = replayedMessages + (Len(accepted') - Len(accepted))
    PROVE  MainInv'
<1>1. UNCHANGED <<delivered, deliveredAtStart, pc, running_>> /\ pc[Producer] = "idle"
  BY RuntimeFacts DEF submit, stateVars, controlVars
<1>2. accepted' \in Seq(Values) /\ Len(accepted') \in Nat /\ Len(accepted') >= Len(accepted)
  <2>1. CASE accepted' = accepted
    BY <2>1, RuntimeFacts
  <2>2. CASE accepted' = Append(accepted, v)
    BY <2>2, RuntimeFacts
  <2> QED BY <2>1, <2>2 DEF submit
<1>3. replayedMessages \in Nat /\ mode \in {"Replay", "Dpdk"} /\ (mode = "Replay" => replayedMessages = Len(accepted))
  BY DEF RuntimeInv, MainInv, FeedTypes, Tallies
<1>4. replayedMessages' \in Nat /\ (mode = "Replay" => replayedMessages' = Len(accepted'))
  BY <1>2, <1>3, RuntimeFacts
<1>5. FeedTypes'
  BY <1>4 DEF RuntimeInv, MainInv, FeedTypes
<1>6. MainSteps'
  BY <1>1 DEF RuntimeInv, MainInv, MainSteps
<1>7. Tallies'
  BY <1>1, <1>4 DEF RuntimeInv, MainInv, Tallies
<1> QED BY <1>5, <1>6, <1>7 DEF MainInv

\* The wait is over only when nothing is queued: processedCount() counts from an
\* empty queue and only what was popped.
LEMMA WaitedForAll ==
    ASSUME RuntimeInv, WaitThenStop
    PROVE  Len(delivered) = Len(accepted)
<1>1. step = "wait" /\ processedCount_ >= replayedMessages
  BY DEF WaitThenStop
<1>2. pc[Producer] = "idle" /\ running_ /\ mode = "Replay"
  BY <1>1 DEF RuntimeInv, MainInv, MainSteps
<1>3. replayedMessages = Len(accepted) /\ deliveredAtStart = 0
  BY <1>2 DEF RuntimeInv, MainInv, Tallies
<1>4. wpc # "none"
  BY <1>2 DEF RuntimeInv, PipelineInv, Lifecycle
<1>5. processedCount_ + dispatched = Len(delivered) - deliveredAtStart
  BY <1>4 DEF RuntimeInv, PipelineInv, Counted
<1>6. processedCount_ \in Nat /\ dispatched \in Nat
  BY DEF RuntimeInv, PipelineInv, PipelineTypeOK
<1> QED BY <1>1, <1>3, <1>5, <1>6, RuntimeFacts

LEMMA StopMain ==
    ASSUME RuntimeInv, WaitThenStop \/ RunReturned
    PROVE  MainInv'
<1>1. /\ step \in {"wait", "run"} /\ step' = "stop" /\ stop(main)
      /\ UNCHANGED <<mode, feed, next, replayedMessages>>
  BY DEF WaitThenStop, RunReturned, InRun, replayVars
<1>2. running_
  BY <1>1 DEF RuntimeInv, MainInv, MainSteps
<1>3. /\ pc' = [pc EXCEPT ![Producer] = "join"] /\ running_' = FALSE
      /\ UNCHANGED <<accepted, delivered, deliveredAtStart>>
  BY <1>1, <1>2 DEF stop, exchange, queueVars, main
<1>4. pc'[Producer] = "join"
  BY <1>3, RuntimeFacts
<1>5. mode = "Replay" => Len(delivered) = Len(accepted)
  <2>1. CASE WaitThenStop
    BY <2>1, WaitedForAll
  <2>2. CASE RunReturned
    BY <2>2 DEF RunReturned, InRun, RuntimeInv, MainInv, MainSteps
  <2> QED BY <2>1, <2>2
<1>6. MainSteps'
  BY <1>1, <1>3, <1>4 DEF MainSteps
<1>7. Tallies'
  BY <1>1, <1>3, <1>5 DEF RuntimeInv, MainInv, Tallies
<1> QED BY <1>1, <1>6, <1>7, SameTypes DEF MainInv, mainVars

LEMMA JoinMain ==
    ASSUME RuntimeInv, Join
    PROVE  MainInv'
<1>1. /\ step = "stop" /\ step' = (IF tls /\ mode = "Replay" THEN "receive" ELSE "done")
      /\ UNCHANGED <<mode, feed, next, replayedMessages>>
      /\ pc' = [pc EXCEPT ![Producer] = "idle"]
      /\ UNCHANGED <<accepted, delivered, deliveredAtStart, running_>>
  BY DEF Join, join, replayVars, main
<1>2. pc[Producer] = "join" /\ pc'[Producer] = "idle"
  BY <1>1, RuntimeFacts DEF RuntimeInv, MainInv, MainSteps
<1>3. ~running_
  BY <1>2 DEF RuntimeInv, PipelineInv, Lifecycle
<1>4. MainSteps'
  BY <1>1, <1>2, <1>3 DEF MainSteps
<1>5. Tallies'
  BY <1>1 DEF RuntimeInv, MainInv, Tallies
<1> QED BY <1>1, <1>4, <1>5, SameTypes DEF MainInv, mainVars

LEMMA WorkerMain ==
    ASSUME RuntimeInv, WorkerThread
    PROVE  MainInv'
<1>1. /\ UNCHANGED <<mode, feed, next, replayedMessages, step>>
      /\ UNCHANGED <<accepted, running_, pc, deliveredAtStart>>
      /\ wpc # "none"
  BY DEF WorkerThread, Worker, check, Dispatch, dispatch, stateVars, controlVars, replayVars
<1>2. pc[Producer] # "spawn" /\ step \notin {"open", "failed"}
  BY <1>1 DEF RuntimeInv, PipelineInv, Lifecycle, MainInv, MainSteps
<1>3. Len(delivered) = Len(accepted) => delivered' = delivered
  <2>1. CASE check
    BY <2>1 DEF check
  <2>2. CASE Dispatch
    <3> SUFFICES ASSUME Len(delivered) = Len(accepted)
                 PROVE  delivered' = delivered
      OBVIOUS
    <3>1. PICK known \in seenPushes .. Len(accepted) : dispatch(known)
      BY <2>2 DEF Dispatch
    <3>2. seenPushes \in Nat
      BY RuntimeFacts DEF RuntimeInv, PipelineInv, PipelineTypeOK
    <3>3. ~(Len(delivered) < known)
      BY <3>1, <3>2, RuntimeFacts
    <3> QED BY <3>1, <3>3 DEF dispatch
  <2> QED BY <2>1, <2>2 DEF WorkerThread, Worker
<1>4. MainSteps'
  BY <1>1, <1>2 DEF RuntimeInv, MainInv, MainSteps
<1>5. Tallies'
  BY <1>1, <1>3 DEF RuntimeInv, MainInv, Tallies
<1> QED BY <1>1, <1>4, <1>5, SameTypes DEF MainInv, mainVars

LEMMA MainStep ==
    ASSUME RuntimeInv, [Next]_vars
    PROVE  MainInv'
<1>1. ASSUME NEW known \in seenPops .. Len(delivered), Replay(known) PROVE MainInv'
  <2>1. feed[next] \in Values /\ next' \in Nat \ {0}
    <3>1. next \in Nat \ {0} /\ next' = next + 1
      BY <1>1 DEF Replay, RuntimeInv, MainInv, FeedTypes
    <3>2. feed[next] \in Values
      BY <1>1, RecordIsEvent DEF Replay
    <3> QED BY <3>1, <3>2
  <2>2. /\ submit(feed[next], known) /\ step' = step /\ step \in {"replay", "run"} /\ UNCHANGED <<mode, feed>>
        /\ replayedMessages' = replayedMessages + (Len(accepted') - Len(accepted))
    BY <1>1 DEF Replay, dispatchMessage
  <2> QED BY <2>1, <2>2, SubmitMain
<1>2. ASSUME NEW known \in seenPops .. Len(delivered), Payload(known) PROVE MainInv'
  <2>1. CASE UNCHANGED pipelineVars
    BY <1>2, <2>1, AsideMain DEF Payload
  <2>2. CASE submit(content[Head(packets)], known)
    <3>1. content[Head(packets)] \in Values
      BY <1>2, FrameIsEvent DEF Payload, submitPayload
    <3>2. /\ step = "run" /\ step' = step /\ UNCHANGED <<mode, feed, next, replayedMessages>>
      BY <1>2 DEF Payload, InRun, replayVars
    <3>3. mode = "Dpdk" /\ next' \in Nat \ {0}
      BY <3>2 DEF RuntimeInv, MainInv, MainSteps, FeedTypes
    <3> QED BY <2>2, <3>1, <3>2, <3>3, SubmitMain
  <2> QED BY <1>2, <2>1, <2>2 DEF Payload, dispatchMessage
<1>3. CASE MainThread
  <2>1. CASE OpenFails \/ SkipMalformed \/ EndOfFile
    BY <2>1, AsideMain
  <2>2. CASE Setup \/ Poll
    BY <2>2, AsideMain DEF Setup, Poll
  <2>3. CASE Start \/ Spawn \/ WaitThenStop \/ RunReturned \/ Join
    BY <2>3, StartMain, SpawnMain, StopMain, JoinMain
  <2> QED BY <1>1, <1>2, <1>3, <2>1, <2>2, <2>3 DEF MainThread
<1>4. CASE Nic \/ ReceiveResponse \/ Finished \/ Idle \/ UNCHANGED vars
  BY <1>4, AsideMain DEF Nic, Finished, Idle, vars
<1> QED BY <1>3, <1>4, WorkerMain DEF Next

-----------------------------------------------------------------------------
(* TradingRuntime: the order of the feed *)

\* No step of the receiver or of main() puts a message in front of one that has
\* been dispatched.
LEMMA BehindKept ==
    ASSUME RuntimeInv, UNCHANGED <<mode, feed>>, next' \in {next, next + 1},
           UNCHANGED receiverVars \/ setup \/ rxBurst \/ submitPayload \/ free \/ Arrival,
           NEW v, Behind(v)
    PROVE  Behind(v)'
<1>1. CASE mode = "Replay"
  <2>1. v \in 1 .. FeedLength /\ v < next /\ feed[v] # Malformed /\ next \in Nat /\ FeedLength \in Nat
    BY <1>1, FeedAssumption DEF Behind, RuntimeInv, MainInv, FeedTypes
  <2>2. v < next'
    BY <2>1
  <2> QED BY <1>1, <2>1, <2>2 DEF Behind
<1>2. CASE mode # "Replay"
  <2>1. /\ v \in 1 .. Len(arrived) /\ arrived[v] = "itch"
        /\ \A i \in 1 .. Len(ring) : v < content[ring[i]]
        /\ \A i \in 1 .. Len(packets) : i > 1 \/ rxStep # "free" => v < content[packets[i]]
    BY <1>2, Zenon DEF Behind
  <2>2. ReceiverInv /\ arrived \in Seq({"itch", "malformed", "other"}) /\ Len(arrived) \in Nat
    BY DEF RuntimeInv, ReceiverInv, ReceiverTypes
  <2> SUFFICES /\ v \in 1 .. Len(arrived') /\ arrived'[v] = "itch"
               /\ \A i \in 1 .. Len(ring') : v < content'[ring'[i]]
               /\ \A i \in 1 .. Len(packets') : i > 1 \/ rxStep' # "free" => v < content'[packets'[i]]
    BY <1>2 DEF Behind
  <2>3. CASE UNCHANGED receiverVars
    BY <2>1, <2>3 DEF receiverVars
  <2>4. CASE setup
    <3>1. UNCHANGED <<content, ring, packets, arrived>> /\ rxStep = "setup"
      BY <2>4 DEF setup
    <3> QED BY <2>1, <3>1
  <2>5. CASE submitPayload
    <3>1. UNCHANGED <<content, ring, packets, arrived>> /\ rxStep = "packet"
      BY <2>5 DEF submitPayload
    <3> QED BY <2>1, <3>1
  <2>6. CASE rxBurst
    <3>1. UNCHANGED <<content, arrived>>
      BY <2>6 DEF rxBurst
    <3> QED BY <2>1, <2>2, <2>6, <3>1, BurstEffect
  <2>7. CASE free
    <3>1. UNCHANGED <<content, ring, arrived>>
      BY <2>7 DEF free
    <3>2. \A i \in 1 .. Len(packets') :
              i + 1 \in 1 .. Len(packets) /\ i + 1 > 1 /\ packets'[i] = packets[i + 1]
      BY <2>2, <2>7, FreeEffect
    <3> QED BY <2>1, <3>1, <3>2
  <2>8. CASE Arrival
    <3>1. PICK kind \in {"itch", "malformed", "other"} : arrive(kind)
      BY <2>8 DEF Arrival
    <3>2. arrived' = Append(arrived, kind) /\ UNCHANGED <<rxStep, packets>>
      BY <3>1 DEF arrive
    <3>3. v \in 1 .. Len(arrived') /\ arrived'[v] = "itch" /\ v < Len(arrived) + 1
      <4>1. Len(arrived') = Len(arrived) + 1 /\ arrived'[v] = arrived[v]
        <5>1. /\ arrived \in Seq({"itch", "malformed", "other"}) /\ v \in 1 .. Len(arrived)
              /\ kind \in {"itch", "malformed", "other"}
          BY <2>1, <2>2, <3>1
        <5>2. /\ Len(Append(arrived, kind)) = Len(arrived) + 1
              /\ \A i \in 1 .. Len(arrived) : Append(arrived, kind)[i] = arrived[i]
          BY ONLY <5>1, Appended
        <5> QED BY <3>2, <5>1, <5>2
      <4>2. v \in 1 .. Len(arrived) + 1 /\ v < Len(arrived) + 1
        BY <2>1, <2>2
      <4> QED BY <2>1, <4>1, <4>2, Zenon
    <3>4. CASE UNCHANGED <<content, ring>>
      BY <2>1, <3>2, <3>3, <3>4, Zenon
    <3>5. ASSUME NEW m \in pool, Stored(kind, m)
          PROVE  /\ \A i \in 1 .. Len(ring') : v < content'[ring'[i]]
                 /\ \A i \in 1 .. Len(packets') : i > 1 \/ rxStep' # "free" => v < content'[packets'[i]]
      <4>1. /\ \A i \in 1 .. Len(ring') :
                  (i \in 1 .. Len(ring) /\ ring'[i] = ring[i]) \/ (i = Len(ring) + 1 /\ ring'[i] = m)
            /\ content'[m] = Len(arrived) + 1
            /\ \A i \in 1 .. Len(ring) : content'[ring[i]] = content[ring[i]]
            /\ \A i \in 1 .. Len(packets) : content'[packets[i]] = content[packets[i]]
        BY <2>2, <3>5, StoredEffect, Zenon
      <4>2. \A i \in 1 .. Len(ring') : v < content'[ring'[i]]
        BY <2>1, <3>3, <4>1
      <4>3. \A i \in 1 .. Len(packets') : i > 1 \/ rxStep' # "free" => v < content'[packets'[i]]
        BY <2>1, <3>2, <4>1
      <4> QED BY <4>2, <4>3, Zenon
    <3> QED BY <3>1, <3>3, <3>4, <3>5, Zenon DEF arrive, Stored
  <2> QED BY <2>3, <2>4, <2>5, <2>6, <2>7, <2>8, Zenon
<1> QED BY <1>1, <1>2

\* Frames keep their kind.
LEMMA KindsKept ==
    ASSUME RuntimeInv, [ReceiverNext]_receiverVars, NEW n \in 1 .. Len(arrived)
    PROVE  n \in 1 .. Len(arrived') /\ arrived'[n] = arrived[n]
<1>1. CASE arrived' = arrived
  BY <1>1
<1>2. CASE Arrival
  <2>1. PICK kind \in {"itch", "malformed", "other"} : arrived' = Append(arrived, kind)
    BY <1>2 DEF Arrival, arrive
  <2>2. arrived \in Seq({"itch", "malformed", "other"}) /\ Len(arrived) \in Nat
    BY DEF RuntimeInv, ReceiverInv, ReceiverTypes
  <2>3. Len(arrived') = Len(arrived) + 1 /\ arrived'[n] = arrived[n]
    BY <2>1, <2>2, Appended
  <2> QED BY <2>2, <2>3
<1> QED BY <1>1, <1>2 DEF ReceiverNext, receiverVars, setup, rxBurst, submitPayload, free

\* Nothing is dispatched.
LEMMA FeedKept ==
    ASSUME RuntimeInv, [ReceiverNext]_receiverVars, UNCHANGED <<mode, feed, accepted, refused, submitted>>,
           next' \in {next, next + 1}
    PROVE  FeedInv'
<1>1. \A v : Behind(v) => Behind(v)'
  BY BehindKept DEF ReceiverNext
<1>2. FeedInOrder'
  BY <1>1 DEF RuntimeInv, FeedInv, FeedInOrder
<1>3. PayloadsDispatched'
  BY KindsKept DEF RuntimeInv, FeedInv, PayloadsDispatched
<1> QED BY <1>2, <1>3 DEF FeedInv

\* v is dispatched: it comes after all that was, and the queue takes or refuses it.
LEMMA DispatchFeed ==
    ASSUME RuntimeInv, NEW v \in Values, NEW known, dispatchMessage(v, known),
           \A u : Behind(u) => Behind(u)', \A u : Behind(u) => u < v /\ u # v, Behind(v)'
    PROVE  /\ FeedInOrder' /\ refused \subseteq refused'
           /\ \A k \in 1 .. Len(accepted) : k \in 1 .. Len(accepted') /\ accepted'[k] = accepted[k]
           /\ v \in refused' \/ \E k \in 1 .. Len(accepted') : accepted'[k] = v
<1>1. /\ \A i, j \in 1 .. Len(accepted) : i < j => accepted[i] < accepted[j]
      /\ \A i \in 1 .. Len(accepted) : Behind(accepted[i])
      /\ \A r \in refused : Behind(r)
      /\ \A i \in 1 .. Len(accepted) : accepted[i] \notin refused
  BY DEF RuntimeInv, FeedInv, FeedInOrder
<1>2. CASE accepted' = accepted
  <2>1. refused' = refused \cup {v}
    BY <1>2 DEF dispatchMessage
  <2>2. \A i \in 1 .. Len(accepted) : accepted[i] \notin refused'
    BY <1>1, <2>1
  <2>3. \A r \in refused' : Behind(r)'
    BY <1>1, <2>1
  <2>4. FeedInOrder'
    BY <1>1, <1>2, <2>2, <2>3 DEF FeedInOrder
  <2> QED BY <1>2, <2>1, <2>4
<1>3. CASE accepted' = Append(accepted, v)
  <2>1. accepted \in Seq(Values) /\ Len(accepted) \in Nat
    BY RuntimeFacts
  <2>2. /\ Len(accepted') = Len(accepted) + 1 /\ accepted'[Len(accepted) + 1] = v
        /\ \A i \in 1 .. Len(accepted) : accepted'[i] = accepted[i]
        /\ \A i \in 1 .. Len(accepted') : (i \in 1 .. Len(accepted) /\ accepted'[i] = accepted[i])
                                           \/ (i = Len(accepted) + 1 /\ accepted'[i] = v)
    BY <1>3, <2>1, Appended
  <2>3. refused' = refused
    BY <2>1, <2>2 DEF dispatchMessage
  <2>4. \A i, j \in 1 .. Len(accepted') : i < j => accepted'[i] < accepted'[j]
    <3> SUFFICES ASSUME NEW i \in 1 .. Len(accepted'), NEW j \in 1 .. Len(accepted'), i < j
                 PROVE  accepted'[i] < accepted'[j]
      OBVIOUS
    <3>1. i \in 1 .. Len(accepted) /\ accepted'[i] = accepted[i]
      BY <2>1, <2>2
    <3>2. CASE j \in 1 .. Len(accepted) /\ accepted'[j] = accepted[j]
      BY <1>1, <3>1, <3>2
    <3>3. CASE accepted'[j] = v
      BY <1>1, <3>1, <3>3
    <3> QED BY <2>2, <3>2, <3>3
  <2>5. (\A i \in 1 .. Len(accepted) : Behind(accepted[i]))'
    <3> SUFFICES ASSUME NEW i \in 1 .. Len(accepted')
                 PROVE  Behind(accepted[i])'
      OBVIOUS
    <3>1. CASE i \in 1 .. Len(accepted) /\ accepted'[i] = accepted[i]
      <4>1. Behind(accepted[i])
        BY <1>1, <3>1
      <4> QED BY <3>1, <4>1
    <3>2. CASE accepted'[i] = v
      BY <3>2
    <3> QED BY <2>2, <3>1, <3>2
  <2>6. \A i \in 1 .. Len(accepted') : accepted'[i] \notin refused'
    BY <1>1, <2>2, <2>3
  <2>7. \A r \in refused' : Behind(r)'
    BY <1>1, <2>3
  <2>8. FeedInOrder'
    BY <2>4, <2>5, <2>6, <2>7 DEF FeedInOrder
  <2>9. \A k \in 1 .. Len(accepted) : k \in 1 .. Len(accepted')
    BY <2>1, <2>2
  <2>10. Len(accepted) + 1 \in 1 .. Len(accepted')
    BY <2>1, <2>2
  <2> QED BY <2>2, <2>3, <2>8, <2>9, <2>10
<1> QED BY <1>2, <1>3 DEF dispatchMessage, submit

LEMMA ReplayFeed ==
    ASSUME RuntimeInv, NEW known \in seenPops .. Len(delivered), Replay(known)
    PROVE  FeedInv'
<1>1. /\ step = "replay" /\ next <= FeedLength /\ feed[next] # Malformed /\ next' = next + 1
      /\ dispatchMessage(feed[next], known) /\ UNCHANGED <<receiverVars, mode, feed>>
  BY DEF Replay
<1>2. next \in 1 .. FeedLength /\ feed[next] = next /\ next \in Values /\ mode = "Replay"
  BY <1>1, RecordIsEvent DEF RuntimeInv, MainInv, MainSteps
<1>3. \A u : Behind(u) => Behind(u)'
  BY <1>1, BehindKept
<1>4. PICK v : v = next
  OBVIOUS
<1>5. \A u : Behind(u) => u < v /\ u # v
  <2> SUFFICES ASSUME NEW u, Behind(u) PROVE u < next /\ u # next
    BY <1>4
  <2>1. u \in 1 .. FeedLength /\ u < next
    BY <1>2 DEF Behind
  <2> QED BY <1>2, <2>1
<1>6. Behind(v)'
  <2>1. v \in 1 .. FeedLength /\ v < next' /\ feed'[v] # Malformed
    BY <1>1, <1>2, <1>4
  <2> QED BY <1>1, <1>2, <2>1, Zenon DEF Behind
<1>7. v \in Values /\ dispatchMessage(v, known)
  BY <1>1, <1>2, <1>4
<1>8. /\ FeedInOrder' /\ refused \subseteq refused'
      /\ \A k \in 1 .. Len(accepted) : k \in 1 .. Len(accepted') /\ accepted'[k] = accepted[k]
  BY <1>3, <1>5, <1>6, <1>7, DispatchFeed
<1>9. PayloadsDispatched'
  <2>1. UNCHANGED <<submitted, arrived>>
    BY <1>1 DEF receiverVars
  <2> QED BY <1>8, <2>1 DEF RuntimeInv, FeedInv, PayloadsDispatched
<1> QED BY <1>8, <1>9 DEF FeedInv

LEMMA PayloadFeed ==
    ASSUME RuntimeInv, NEW known \in seenPops .. Len(delivered), Payload(known)
    PROVE  FeedInv'
<1>1. /\ step = "run" /\ submitPayload /\ UNCHANGED <<mode, feed, next>>
      /\ rxStep = "packet" /\ rxStep' = "free" /\ UNCHANGED <<content, ring, packets, arrived>>
  BY Zenon DEF Payload, InRun, submitPayload, replayVars
<1>2. mode = "Dpdk"
  BY <1>1 DEF RuntimeInv, MainInv, MainSteps
<1>3. PICK v : v = content[packets[1]]
  OBVIOUS
<1>4. /\ v = content[Head(packets)] /\ 1 \in 1 .. Len(packets)
      /\ v \in 1 .. Len(arrived) /\ v \in Values
  BY <1>1, <1>3, FrameIsEvent, Zenon
<1>5. \A u : Behind(u) => Behind(u)'
  BY <1>1, BehindKept
<1>6. submitted' = IF arrived[v] # "other" THEN Append(submitted, v) ELSE submitted
  BY <1>4 DEF Payload, submitPayload
<1>7. submitted \in Seq(Nat) /\ v \in Nat
  BY <1>4 DEF RuntimeInv, FeedInv, PayloadsDispatched
<1>8. /\ submitted' \in Seq(Nat)
      /\ \A i \in 1 .. Len(submitted') :
             (i \in 1 .. Len(submitted) /\ submitted'[i] = submitted[i]) \/ submitted'[i] = v
  <2>1. CASE submitted' = submitted
    BY <1>7, <2>1
  <2>2. CASE submitted' = Append(submitted, v)
    <3>1. /\ Append(submitted, v) \in Seq(Nat)
          /\ \A i \in 1 .. Len(Append(submitted, v)) :
                (i \in 1 .. Len(submitted) /\ Append(submitted, v)[i] = submitted[i])
                \/ (i = Len(submitted) + 1 /\ Append(submitted, v)[i] = v)
      BY <1>7, Appended
    <3> QED BY <2>2, <3>1, Zenon
  <2> QED BY <1>6, <2>1, <2>2
<1>9. CASE arrived[v] = "itch"
  <2>1. dispatchMessage(v, known)
    BY <1>4, <1>9 DEF Payload
  <2>2. \A u : Behind(u) => u < v /\ u # v
    <3> SUFFICES ASSUME NEW u, Behind(u) PROVE u < v /\ u # v
      OBVIOUS
    <3>1. u \in 1 .. Len(arrived) /\ u < content[packets[1]]
      BY <1>1, <1>2, <1>4 DEF Behind
    <3> QED BY <1>3, <1>4, <3>1
  <2>3. Behind(v)'
    <3>1. \A i \in 1 .. Len(ring) : v < content[ring[i]]
      BY <1>3, <1>4, Zenon DEF RuntimeInv, ReceiverInv, InOrder
    <3>2. \A i \in 1 .. Len(packets) : i > 1 => v < content[packets[i]]
      BY <1>3, <1>4 DEF RuntimeInv, ReceiverInv, InOrder
    <3> QED BY <1>1, <1>2, <1>4, <1>9, <3>1, <3>2, Zenon DEF Behind
  <2>4. /\ FeedInOrder' /\ refused \subseteq refused'
        /\ \A k \in 1 .. Len(accepted) : k \in 1 .. Len(accepted') /\ accepted'[k] = accepted[k]
        /\ v \in refused' \/ \E k \in 1 .. Len(accepted') : accepted'[k] = v
    BY <1>4, <1>5, <2>1, <2>2, <2>3, DispatchFeed
  <2>5. PayloadsDispatched'
    BY <1>1, <1>4, <1>8, <2>4, Zenon DEF RuntimeInv, FeedInv, PayloadsDispatched
  <2> QED BY <2>4, <2>5 DEF FeedInv
<1>10. CASE arrived[v] # "itch"
  <2>1. UNCHANGED <<accepted, refused>>
    BY <1>4, <1>10 DEF Payload, pipelineVars, queueVars
  <2>2. FeedInOrder'
    BY <1>5, <2>1 DEF RuntimeInv, FeedInv, FeedInOrder
  <2>3. PayloadsDispatched'
    BY <1>1, <1>4, <1>8, <1>10, <2>1, Zenon DEF RuntimeInv, FeedInv, PayloadsDispatched
  <2> QED BY <2>2, <2>3 DEF FeedInv
<1> QED BY <1>9, <1>10

LEMMA FeedStep ==
    ASSUME RuntimeInv, [Next]_vars
    PROVE  FeedInv'
<1>1. [ReceiverNext]_receiverVars
  BY StepsOfReceiver
<1>2. CASE \/ UNCHANGED vars \/ OpenFails \/ Start \/ Spawn \/ EndOfFile \/ WaitThenStop \/ RunReturned \/ Join
           \/ Setup \/ Poll \/ SkipMalformed \/ WorkerThread \/ Nic \/ ReceiveResponse \/ Finished \/ Idle
  <2>1. UNCHANGED <<mode, feed>> /\ next' \in {next, next + 1}
    BY <1>2, Zenon DEF vars, replayVars, OpenFails, Start, Spawn, EndOfFile, WaitThenStop, RunReturned, Join, Setup, Poll,
                SkipMalformed, WorkerThread, Nic, ReceiveResponse, Finished, Idle
  <2>2. refused' = refused
    BY <1>2, Zenon DEF vars, OpenFails, Start, Spawn, EndOfFile, WaitThenStop, RunReturned, Join, Setup, Poll,
                SkipMalformed, WorkerThread, Nic, ReceiveResponse, Finished, Idle
  <2>3. submitted' = submitted
    BY <1>2, Zenon DEF vars, receiverVars, OpenFails, Start, Spawn, EndOfFile, WaitThenStop, RunReturned, Join, Setup, Poll,
                SkipMalformed, WorkerThread, Nic, ReceiveResponse, Finished, Idle, setup, rxBurst, free,
                Arrival, arrive
  <2>4. accepted' = accepted
    <3>1. CASE Start \/ Spawn \/ WaitThenStop \/ RunReturned \/ Join
      BY <3>1, Zenon DEF Start, Spawn, WaitThenStop, RunReturned, Join, start, spawn, stop, join, queueVars
    <3>2. CASE WorkerThread
      BY <3>2 DEF WorkerThread, Worker, check, Dispatch, dispatch
    <3>3. CASE UNCHANGED pipelineVars
      BY <3>3 DEF pipelineVars, queueVars
    <3> QED BY <1>2, <3>1, <3>2, <3>3 DEF vars, OpenFails, EndOfFile, Setup, Poll, SkipMalformed, Nic,
                                          ReceiveResponse, Finished, Idle
  <2> QED BY <1>1, <2>1, <2>2, <2>3, <2>4, FeedKept
<1>3. CASE \E known \in seenPops .. Len(delivered) : Replay(known) \/ Payload(known)
  BY <1>3, ReplayFeed, PayloadFeed
<1> QED BY <1>2, <1>3 DEF Next, MainThread

-----------------------------------------------------------------------------
(* TradingRuntime: the theorems *)

\* The invariant holds in every state of the runtime.
THEOREM RuntimeInvariant == Spec => []RuntimeInv
<1>1. Init => RuntimeInv
  BY RuntimeInitInv
<1>2. RuntimeInv /\ [Next]_vars => RuntimeInv'
  <2> SUFFICES ASSUME RuntimeInv, [Next]_vars PROVE RuntimeInv'
    OBVIOUS
  <2>1. PipelineInv'
    BY StepsOfPipeline, PipelineStep, MainIsOnlyThread DEF RuntimeInv
  <2>2. ReceiverInv'
    BY StepsOfReceiver, ReceiverStep DEF RuntimeInv
  <2> QED BY <2>1, <2>2, MainStep, FeedStep DEF RuntimeInv
<1> QED BY <1>1, <1>2, PTL DEF Spec

\* main() uses the pipeline and the receiver only through their operations: what
\* it does to them is a behaviour of each, so what each promises holds in it.
THEOREM RuntimeRunsItsParts ==
    Spec => /\ PipelineInit /\ [][PipelineNext]_pipelineVars
            /\ ReceiverSpec
<1>1. Init => PipelineInit /\ ReceiverInit
  BY DEF Init
<1>2. RuntimeInv /\ [Next]_vars => [PipelineNext]_pipelineVars
  BY StepsOfPipeline
<1>3. [Next]_vars => [ReceiverNext]_receiverVars
  BY StepsOfReceiver
<1> QED BY <1>1, <1>2, <1>3, RuntimeInvariant, PTL DEF Spec, ReceiverSpec

\* main() leaves the wait on processedCount() only when the consumer has applied
\* every event the queue accepted; what it then reports is exact.
THEOREM ReportIsExact == Spec => []ReportedIsConsumed
<1>1. RuntimeInv => ReportedIsConsumed
  BY DEF RuntimeInv, MainInv, Tallies, ReportedIsConsumed
<1> QED BY <1>1, RuntimeInvariant, PTL

\* In both modes the consumer sees ITCH messages of the feed only, in its order
\* and none twice, and an ITCH payload the sink was given is in the queue or was
\* refused by it: reusing mbufs, bursts and a full queue change nothing of that.
THEOREM ConsumerFollowsFeed == Spec => []ConsumerSeesFeed
<1>1. RuntimeInv => ConsumerSeesFeed
  <2> SUFFICES ASSUME RuntimeInv PROVE ConsumerSeesFeed
    OBVIOUS
  <2>1. \A i \in 1 .. Len(delivered) : i \in 1 .. Len(accepted) /\ delivered[i] = accepted[i]
    <3>1. \A i \in 1 .. Len(delivered) : i \in 1 .. Len(accepted)
      BY RuntimeFacts
    <3> QED BY <3>1 DEF RuntimeInv, PipelineInv, Popped
  <2>2. /\ \A i, j \in 1 .. Len(accepted) : i < j => accepted[i] < accepted[j]
        /\ \A i \in 1 .. Len(accepted) : Behind(accepted[i]) /\ accepted[i] \notin refused
    BY DEF RuntimeInv, FeedInv, FeedInOrder
  <2>3. \A i, j \in 1 .. Len(delivered) : i < j => delivered[i] < delivered[j]
    BY <2>1, <2>2
  <2>4. \A i \in 1 .. Len(delivered) : IF mode = "Replay" THEN feed[delivered[i]] # Malformed
                                       ELSE arrived[delivered[i]] = "itch"
    BY <2>1, <2>2 DEF Behind
  <2>5. \A x : x \in Range(accepted) <=> \E k \in 1 .. Len(accepted) : accepted[k] = x
    BY RuntimeFacts DEF Range
  <2>6. refused \cap Range(accepted) = {}
    BY <2>2, <2>5
  <2>7. \A i \in 1 .. Len(submitted) :
            arrived[submitted[i]] = "itch" => submitted[i] \in refused \cup Range(accepted)
    BY <2>5 DEF RuntimeInv, FeedInv, PayloadsDispatched
  <2> QED BY <2>3, <2>4, <2>6, <2>7 DEF ConsumerSeesFeed
<1> QED BY <1>1, RuntimeInvariant, PTL

\* The same accounting of mbufs when main() drives the loop and the queue behind
\* the sink may be full.
THEOREM RuntimeAccountsForMbufs == Spec => []MbufsAccounted
<1>1. RuntimeInv => MbufsAccounted
  BY AccountedByInv DEF RuntimeInv
<1> QED BY <1>1, RuntimeInvariant, PTL
=============================================================================
