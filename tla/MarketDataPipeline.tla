------------------------- MODULE MarketDataPipeline -------------------------
(***************************************************************************)
(* MarketDataPipeline and Dispatcher (src/pipeline/): a producer submits   *)
(* events to the ring buffer, a worker thread polls it and hands each      *)
(* event to the consumer, and controlling threads start and stop the       *)
(* worker.  The ring is represented by what it promises (SpscQueue), so a  *)
(* poll may still miss an event the producer has already queued.           *)
(*                                                                         *)
(* What one thread did before a store to running_, a thread creation or a  *)
(* join happens before what follows the matching load, thread start or     *)
(* return.  Only the pushes matter here, so a view is a number of pushes.  *)
(***************************************************************************)
EXTENDS SpscQueue, FiniteSetsExt

CONSTANTS Controllers,   \* threads that call start() and stop()
          Producer,      \* the one thread that calls submit()
          MaxSubmits,    \* bound: events accepted in a behaviour
          MaxStarts      \* bound: effective start() calls

ASSUME PipelineAssumption == MaxSubmits \in Nat /\ MaxStarts \in Nat

VARIABLES running_,         \* the atomic flag ...
          runningView,      \* ... and the pushes that happen before its last store
          processedCount_,
          worker_,          \* the std::thread member: "empty" or "joinable"
          wpc,              \* where the worker thread is; "none" when there is none
          dispatched,       \* dispatchedCount of the dispatch() in progress
          pc,               \* where each controlling thread is
          view,             \* the pushes that happen before its next step
          terminated,       \* std::terminate was called
          starts,           \* number of effective start() calls
          acceptedAtStop, deliveredAtStart   \* what the last stop()/start() found

workerVars == <<wpc, dispatched>>
controlVars == <<pc, view, terminated, starts, acceptedAtStop, deliveredAtStart>>
stateVars == <<running_, runningView, processedCount_, worker_>>
pipelineVars == <<queueVars, stateVars, workerVars, controlVars>>

PipelineInit ==
    /\ QueueInit
    /\ running_ = FALSE /\ runningView = 0
    /\ processedCount_ = 0
    /\ worker_ = "empty" /\ wpc = "none" /\ dispatched = 0
    /\ pc = [t \in Controllers |-> "idle"]
    /\ view = [t \in Controllers |-> 0]
    /\ terminated = FALSE /\ starts = 0
    /\ acceptedAtStop = 0 /\ deliveredAtStart = 0

-----------------------------------------------------------------------------
(* The controlling threads *)

\* A thread that also submits has all pushes behind it.
ViewOf(t) == IF t = Producer THEN Len(accepted) ELSE view[t]

\* running_.exchange(new): reads the last store and replaces it.
exchange(t, new) ==
    LET known == Max({ViewOf(t), runningView})
    IN  /\ running_' = new
        /\ runningView' = known
        /\ view' = [view EXCEPT ![t] = known]

\* start(): nothing to do when already running.
start(t) ==
    /\ ~terminated /\ pc[t] = "idle"
    /\ starts < MaxStarts
    /\ exchange(t, TRUE)
    /\ IF running_
       THEN UNCHANGED <<pc, starts>>
       ELSE pc' = [pc EXCEPT ![t] = "spawn"] /\ starts' = starts + 1
    /\ UNCHANGED <<queueVars, processedCount_, worker_, workerVars, terminated,
                   acceptedAtStop, deliveredAtStart>>

\* start(), continued: resets the count and assigns a new thread to worker_.
\* Assigning to a std::thread that is still joinable calls std::terminate.
spawn(t) ==
    /\ ~terminated /\ pc[t] = "spawn"
    /\ pc' = [pc EXCEPT ![t] = "idle"]
    /\ processedCount_' = 0
    /\ deliveredAtStart' = Len(delivered)
    /\ IF worker_ = "joinable"
       THEN terminated' = TRUE /\ UNCHANGED <<worker_, workerVars, seenPushes>>
       ELSE /\ worker_' = "joinable" /\ wpc' = "check" /\ dispatched' = 0
            /\ seenPushes' = Max({seenPushes, ViewOf(t)})
            /\ UNCHANGED terminated
    /\ UNCHANGED <<accepted, delivered, seenPops, running_, runningView, view, starts, acceptedAtStop>>

\* stop(): nothing to do when not running.
stop(t) ==
    /\ ~terminated /\ pc[t] = "idle"
    /\ exchange(t, FALSE)
    /\ IF running_
       THEN pc' = [pc EXCEPT ![t] = "join"] /\ acceptedAtStop' = Len(accepted)
       ELSE UNCHANGED <<pc, acceptedAtStop>>
    /\ UNCHANGED <<queueVars, processedCount_, worker_, workerVars, terminated, starts, deliveredAtStart>>

\* Variant: stop() returns without joining the worker.
join_detached(t) ==
    /\ ~terminated /\ pc[t] = "join"
    /\ pc' = [pc EXCEPT ![t] = "idle"]
    /\ UNCHANGED <<queueVars, stateVars, workerVars, view, terminated, starts,
                   acceptedAtStop, deliveredAtStart>>

\* stop(), continued: joins the worker if there is one, once it has finished.
join(t) ==
    /\ ~terminated /\ pc[t] = "join"
    /\ worker_ = "joinable" => wpc = "exited"
    /\ pc' = [pc EXCEPT ![t] = "idle"]
    /\ worker_' = "empty" /\ wpc' = "none"
    /\ seenPops' = IF t = Producer THEN Len(delivered) ELSE seenPops
    /\ view' = [view EXCEPT ![t] = Max({ViewOf(t), seenPushes})]
    /\ UNCHANGED <<accepted, delivered, seenPushes, running_, runningView, processedCount_, dispatched,
                   terminated, starts, acceptedAtStop, deliveredAtStart>>

\* submit() is tryPush: known is how many pops its load of tail_ shows.
submit(v, known) ==
    /\ ~terminated
    /\ Producer \in Controllers => pc[Producer] = "idle"
    /\ seenPops' = known
    /\ IF Len(accepted) - known < UsableCapacity
       THEN Len(accepted) < MaxSubmits /\ accepted' = Append(accepted, v)
       ELSE UNCHANGED accepted
    /\ UNCHANGED <<delivered, seenPushes, stateVars, workerVars, controlVars>>

-----------------------------------------------------------------------------
(* The worker thread: processingLoop() and Dispatcher::dispatch() *)

\* Variant: the worker leaves without the final drain.
check_noDrain ==
    /\ ~terminated /\ wpc = "check"
    /\ seenPushes' = Max({seenPushes, runningView})
    /\ wpc' = IF running_ THEN "dispatch" ELSE "exited"
    /\ UNCHANGED <<accepted, delivered, seenPops, stateVars, dispatched, controlVars>>

\* Variant: the worker does not look at running_.
check_ignoresStop ==
    /\ ~terminated /\ wpc = "check"
    /\ wpc' = "dispatch"
    /\ UNCHANGED <<queueVars, stateVars, dispatched, controlVars>>

\* while (running_.load(acquire))
check ==
    /\ ~terminated /\ wpc = "check"
    /\ seenPushes' = Max({seenPushes, runningView})
    /\ wpc' = IF running_ THEN "dispatch" ELSE "drain"
    /\ UNCHANGED <<accepted, delivered, seenPops, stateVars, dispatched, controlVars>>

\* Variant: what the final drain dispatches is not counted.
dispatch_drainUncounted(known) ==
    /\ ~terminated /\ wpc \in {"dispatch", "drain"}
    /\ seenPushes' = known
    /\ IF Len(delivered) < known
       THEN /\ delivered' = Append(delivered, accepted[Len(delivered) + 1])
            /\ dispatched' = dispatched + 1
            /\ UNCHANGED <<wpc, processedCount_>>
       ELSE /\ processedCount_' = processedCount_ + (IF wpc = "dispatch" THEN dispatched ELSE 0)
            /\ dispatched' = 0
            /\ wpc' = IF wpc = "dispatch" THEN "check" ELSE "exited"
            /\ UNCHANGED delivered
    /\ UNCHANGED <<accepted, seenPops, running_, runningView, worker_, controlVars>>

\* Variant: one event is always left in the queue.
dispatch_leavesLast(known) ==
    /\ ~terminated /\ wpc \in {"dispatch", "drain"}
    /\ seenPushes' = known
    /\ IF Len(delivered) + 1 < known
       THEN /\ delivered' = Append(delivered, accepted[Len(delivered) + 1])
            /\ dispatched' = dispatched + 1
            /\ UNCHANGED <<wpc, processedCount_>>
       ELSE /\ processedCount_' = processedCount_ + dispatched
            /\ dispatched' = 0
            /\ wpc' = IF wpc = "dispatch" THEN "check" ELSE "exited"
            /\ UNCHANGED delivered
    /\ UNCHANGED <<accepted, seenPops, running_, runningView, worker_, controlVars>>

\* One turn of dispatch(): pop and consume, or finish on an empty queue and
\* add what was dispatched to processedCount_.  known is how many pushes the
\* load of head_ shows.
dispatch(known) ==
    /\ ~terminated /\ wpc \in {"dispatch", "drain"}
    /\ seenPushes' = known
    /\ IF Len(delivered) < known
       THEN /\ delivered' = Append(delivered, accepted[Len(delivered) + 1])
            /\ dispatched' = dispatched + 1
            /\ UNCHANGED <<wpc, processedCount_>>
       ELSE /\ processedCount_' = processedCount_ + dispatched
            /\ dispatched' = 0
            /\ wpc' = IF wpc = "dispatch" THEN "check" ELSE "exited"
            /\ UNCHANGED delivered
    /\ UNCHANGED <<accepted, seenPops, running_, runningView, worker_, controlVars>>

Dispatch == \E known \in seenPushes .. Len(accepted) : dispatch(known)

Worker == check \/ Dispatch

-----------------------------------------------------------------------------
Control(t) == start(t) \/ spawn(t) \/ stop(t) \/ join(t)

Submit == \E v \in Values, known \in seenPops .. Len(delivered) : submit(v, known)

PipelineNext == (\E t \in Controllers : Control(t)) \/ Submit \/ Worker

\* The worker thread keeps running and eventually sees what was queued; a
\* started call goes on to its end.  Nobody has to call anything.
Fairness ==
    /\ WF_pipelineVars(check)
    /\ SF_pipelineVars(dispatch(Len(accepted)))
    /\ \A t \in Controllers : WF_pipelineVars(spawn(t)) /\ WF_pipelineVars(join(t))

PipelineSpec == PipelineInit /\ [][PipelineNext]_pipelineVars /\ Fairness

-----------------------------------------------------------------------------
(* Properties *)

\* Types of the lifecycle state, and views that never exceed what was pushed.
PipelineTypeOK ==
    /\ accepted \in Seq(Values) /\ delivered \in Seq(Values)
    /\ seenPops \in 0 .. Len(delivered) /\ seenPushes \in 0 .. Len(accepted)
    /\ running_ \in BOOLEAN /\ terminated \in BOOLEAN
    /\ runningView \in 0 .. Len(accepted)
    /\ processedCount_ \in Nat /\ dispatched \in Nat
    /\ worker_ \in {"empty", "joinable"}
    /\ wpc \in {"none", "check", "dispatch", "drain", "exited"}
    /\ pc \in [Controllers -> {"idle", "spawn", "join"}]
    /\ view \in [Controllers -> Nat]
    /\ starts \in 0 .. MaxStarts
    /\ acceptedAtStop \in Nat /\ deliveredAtStart \in Nat

\* "Drain events that were queued before shutdown": when stop() has returned,
\* every event accepted before it was called has reached the consumer, although
\* the last poll before running_ was cleared may have missed some of them.
StopDrains ==
    (~running_ /\ \A t \in Controllers : pc[t] = "idle") => Len(delivered) >= acceptedAtStop

\* After stop() returns, processedCount() is exactly the number of events the
\* consumer got since start(); while running it never runs ahead of them.
ProcessedCountExact ==
    /\ wpc # "none" /\ (\A t \in Controllers : pc[t] # "spawn") =>
         processedCount_ + dispatched = Len(delivered) - deliveredAtStart
    /\ (wpc = "none" /\ starts > 0 /\ \A t \in Controllers : pc[t] = "idle") =>
         processedCount_ = Len(delivered) - deliveredAtStart

\* start() and stop() never assign a new thread over one that was not joined.
NoTerminate == ~terminated

\* stop() always returns.
StopReturns == \A t \in Controllers : (pc[t] = "join") ~> (pc[t] = "idle")

\* An event accepted while the worker is left running is eventually consumed.
RunningConsumes ==
    \A n \in 1 .. MaxSubmits : (Len(accepted) >= n /\ running_) ~> (Len(delivered) >= n)
=============================================================================
