--------------------------- MODULE TradingRuntime ---------------------------
(***************************************************************************)
(* The main thread of src/apps/trading_runtime.cpp, once the transport is  *)
(* connected.  In replay mode it starts the pipeline, dispatches every     *)
(* message of the replay file to it, waits until as many events have been  *)
(* processed as were accepted, and stops it.  In DPDK mode it starts the   *)
(* pipeline and stays in Receiver::run(), which hands it the payloads of   *)
(* the frames.                                                             *)
(***************************************************************************)
EXTENDS MarketDataPipeline, Receiver

CONSTANTS Malformed,    \* a record ItchReplayDispatcher::dispatch rejects
          FeedLength    \* bound: records in the replay file

\* A record of the file, or a frame, is identified by its number.
ASSUME FeedAssumption ==
    /\ FeedLength \in Nat /\ Malformed \notin Values
    /\ 1 .. FeedLength \subseteq Values /\ 1 .. MaxFrames \subseteq Values

\* The main thread is the producer and the only controlling thread.
ASSUME MainAssumption == Controllers = {Producer}

VARIABLES mode,               \* InputMode: "Replay" or "Dpdk"
          feed,               \* the records up to the end, a zero length or a truncation
          next,               \* the record readNext() returns next
          replayedMessages,
          tls,                \* orders go out over TLS (tlsTransportRaw # nullptr)
          step,               \* where main() is
          refused             \* what dispatch() returned false for because the queue was full

replayVars == <<mode, feed, next, replayedMessages, tls>>
vars == <<pipelineVars, receiverVars, replayVars, step, refused>>

main == Producer

Init ==
    /\ PipelineInit /\ ReceiverInit
    /\ mode \in {"Replay", "Dpdk"}
    /\ feed \in IF mode = "Replay" THEN {f \in [1 .. FeedLength -> Values \cup {Malformed}] :
                                            \A i \in 1 .. FeedLength : f[i] \in {i, Malformed}}
               ELSE {<<>>}
    /\ next = 1 /\ replayedMessages = 0 /\ refused = {}
    /\ tls \in BOOLEAN
    /\ step = "open"

\* The file cannot be opened, or DPDK not initialised: main() returns 1.
OpenFails ==
    /\ step = "open" /\ step' = "failed"
    /\ UNCHANGED <<pipelineVars, receiverVars, replayVars, refused>>

Start ==
    /\ step = "open" /\ step' = IF mode = "Replay" THEN "replay" ELSE "run"
    /\ start(main)
    /\ UNCHANGED <<receiverVars, replayVars, refused>>

Spawn == spawn(main) /\ UNCHANGED <<receiverVars, replayVars, step, refused>>

\* ItchReplayDispatcher::dispatch of an ITCH message submits one event, once; a
\* full queue makes it return false and the event is gone.
dispatchMessage(v, known) ==
    /\ submit(v, known)
    /\ refused' = IF accepted' = accepted THEN refused \cup {v} ELSE refused

-----------------------------------------------------------------------------
(* Replay mode *)

\* Variant: an event the queue refused is counted as well.
Replay_countsRefused(known) ==
    /\ step = "replay" /\ next <= FeedLength
    /\ feed[next] # Malformed
    /\ dispatchMessage(feed[next], known)
    /\ next' = next + 1
    /\ replayedMessages' = replayedMessages + 1
    /\ UNCHANGED <<receiverVars, mode, feed, tls, step>>

Replay(known) ==
    /\ step = "replay" /\ next <= FeedLength
    /\ feed[next] # Malformed
    /\ dispatchMessage(feed[next], known)
    /\ next' = next + 1
    /\ replayedMessages' = replayedMessages + (Len(accepted') - Len(accepted))
    /\ UNCHANGED <<receiverVars, mode, feed, tls, step>>

\* dispatch() of any other record returns false without submitting.
SkipMalformed ==
    /\ step = "replay" /\ pc[main] = "idle" /\ next <= FeedLength
    /\ feed[next] = Malformed
    /\ next' = next + 1
    /\ UNCHANGED <<pipelineVars, receiverVars, mode, feed, replayedMessages, tls, step, refused>>

EndOfFile ==
    /\ step = "replay" /\ pc[main] = "idle" /\ next > FeedLength
    /\ step' = "wait"
    /\ UNCHANGED <<pipelineVars, receiverVars, replayVars, refused>>

\* Variant: stop() is called without waiting.
WaitThenStop_atOnce ==
    /\ step = "wait"
    /\ step' = "stop"
    /\ stop(main)
    /\ UNCHANGED <<receiverVars, replayVars, refused>>

\* while (processedCount() < replayedMessages) yield(); then stop().
WaitThenStop ==
    /\ step = "wait"
    /\ processedCount_ >= replayedMessages
    /\ step' = "stop"
    /\ stop(main)
    /\ UNCHANGED <<receiverVars, replayVars, refused>>

-----------------------------------------------------------------------------
(* DPDK mode: Receiver::run() on the main thread *)

InRun == step = "run" /\ pc[main] = "idle"

Setup == InRun /\ setup /\ UNCHANGED <<pipelineVars, replayVars, step, refused>>

Poll == InRun /\ (rxBurst \/ free) /\ UNCHANGED <<pipelineVars, replayVars, step, refused>>

\* ItchUdpPayloadSink::submit dispatches the payload as one ITCH message.
Payload(known) ==
    /\ InRun /\ submitPayload
    /\ IF arrived[content[Head(packets)]] = "itch"
       THEN dispatchMessage(content[Head(packets)], known)
       ELSE UNCHANGED <<pipelineVars, refused>>
    /\ UNCHANGED <<replayVars, step>>

\* run() has returned, which it does only when its set-up failed.
RunReturned ==
    /\ InRun /\ rxStep = "returned"
    /\ step' = "stop"
    /\ stop(main)
    /\ UNCHANGED <<receiverVars, replayVars, refused>>

Nic == step = "run" /\ Arrival /\ UNCHANGED <<pipelineVars, replayVars, step, refused>>

-----------------------------------------------------------------------------
Join ==
    /\ step = "stop"
    /\ step' = IF tls /\ mode = "Replay" THEN "receive" ELSE "done"
    /\ join(main)
    /\ UNCHANGED <<receiverVars, replayVars, refused>>

\* Over TLS a replay ends with one blocking receive; it returns when the
\* exchange answers or closes, which nothing in this process ensures.
ReceiveResponse ==
    /\ step = "receive" /\ step' = "done"
    /\ UNCHANGED <<pipelineVars, receiverVars, replayVars, refused>>

\* main() has returned.
Finished ==
    /\ step \in {"done", "failed"}
    /\ UNCHANGED vars

Idle == step = "run" /\ rxStep = "poll" /\ ring = <<>> /\ UNCHANGED vars

MainThread ==
    \/ OpenFails \/ Start \/ Spawn
    \/ (\E known \in seenPops .. Len(delivered) : Replay(known) \/ Payload(known))
    \/ SkipMalformed \/ EndOfFile \/ WaitThenStop
    \/ Setup \/ Poll \/ RunReturned \/ Join

WorkerThread == Worker /\ UNCHANGED <<receiverVars, replayVars, step, refused>>

Next == MainThread \/ WorkerThread \/ Nic \/ ReceiveResponse \/ Finished \/ Idle

\* Both threads run, and a poll eventually sees what was queued.
Spec ==
    /\ Init /\ [][Next]_vars
    /\ WF_vars(MainThread)
    /\ WF_vars(check /\ UNCHANGED <<receiverVars, replayVars, step, refused>>)
    /\ SF_vars(dispatch(Len(accepted)) /\ UNCHANGED <<receiverVars, replayVars, step, refused>>)

-----------------------------------------------------------------------------
(* Properties *)

\* main() never spins forever on processedCount() and never hangs in stop(): it
\* gets to its end, to the receive that waits for the exchange, or into the
\* polling loop of the receiver.
RuntimeSettles ==
    <>(step \in {"receive", "done", "failed"} \/ rxStep \in {"poll", "packet", "free"})

\* What main() reports as processed is what the consumer has applied: the wait
\* cannot be left, nor the book read, with an accepted event still queued.
ReportedIsConsumed ==
    step \in {"stop", "receive", "done"} /\ mode = "Replay" =>
        Len(delivered) = replayedMessages /\ Len(accepted) = replayedMessages

\* The consumer sees the feed in its order, each message at most once and none
\* but ITCH messages: neither the reuse of an mbuf nor a full queue makes it see
\* one twice, early or in place of another.  What it never sees the NIC had no
\* room for or the queue refused.
ConsumerSeesFeed ==
    /\ \A i, j \in 1 .. Len(delivered) : i < j => delivered[i] < delivered[j]
    /\ \A i \in 1 .. Len(delivered) :
          IF mode = "Replay" THEN feed[delivered[i]] # Malformed
          ELSE arrived[delivered[i]] = "itch"
    /\ refused \cap Range(accepted) = {}
    /\ step = "run" =>
          \A i \in 1 .. Len(submitted) :
              arrived[submitted[i]] = "itch" => submitted[i] \in refused \cup Range(accepted)

\* An ITCH frame the NIC stored gets through both threads to the consumer,
\* unless the queue was full when its turn came.
FramesReachConsumer ==
    \A frame \in 1 .. MaxFrames :
        (frame \in Range(kept) /\ arrived[frame] = "itch")
            ~> (frame \in Range(delivered) \cup refused)

\* Replay reproduces the recorded feed: at the end the consumer has seen every
\* well-formed record of the file.
ReplayReproducesFeed ==
    step = "done" => delivered = SelectSeq(feed, LAMBDA record : record \in Values)
=============================================================================
