------------------------------ MODULE Receiver ------------------------------
(***************************************************************************)
(* Receiver (src/dpdk/receiver/receiver.cpp): the polling loop of the live *)
(* input.  The NIC writes frames into mbufs of the receiver's pool while   *)
(* the loop takes them in bursts, hands the ITCH payload of each to the    *)
(* sink and frees the mbuf.                                                *)
(*                                                                         *)
(* A frame is reduced to whether it fails the header checks of the loop    *)
(* ("other"), carries an ITCH message ("itch") or bytes the sink cannot    *)
(* decode ("malformed").                                                   *)
(***************************************************************************)
EXTENDS Integers, Sequences, Functions, FiniteSets

CONSTANTS Mbufs,         \* the mempool
          RxRingSize, BurstSize,
          MaxFrames      \* bound: frames that arrive in a behaviour

ASSUME ReceiverAssumption ==
    /\ IsFiniteSet(Mbufs)
    /\ RxRingSize \in Nat \ {0} /\ BurstSize \in Nat \ {0} /\ MaxFrames \in Nat

VARIABLES rxStep,      \* "setup", "poll", "packet", "free" or "returned"
          pool,        \* free mbufs
          content,     \* the frame in each mbuf, free or not
          ring,        \* mbufs of the frames the NIC has received
          packets,     \* the rest of the burst
          arrived,     \* the kinds of the frames so far
          kept,        \* the frames the NIC stored, in order
          submitted    \* the frames given to the sink, in order

receiverVars == <<rxStep, pool, content, ring, packets, arrived, kept, submitted>>

ReceiverInit ==
    /\ rxStep = "setup"
    /\ pool = Mbufs /\ content = [m \in Mbufs |-> 0]
    /\ ring = <<>> /\ packets = <<>>
    /\ arrived = <<>> /\ kept = <<>> /\ submitted = <<>>

\* The NIC: a frame without an mbuf or a place in the ring is lost (imissed,
\* rx_nombuf).
arrive(kind) ==
    /\ rxStep \notin {"setup", "returned"} /\ Len(arrived) < MaxFrames
    /\ arrived' = Append(arrived, kind)
    /\ \/ \E m \in pool :
             /\ Len(ring) < RxRingSize
             /\ pool' = pool \ {m}
             /\ content' = [content EXCEPT ![m] = Len(arrived')]
             /\ ring' = Append(ring, m)
             /\ kept' = Append(kept, Len(arrived'))
       \/ /\ pool = {} \/ Len(ring) = RxRingSize
          /\ UNCHANGED <<pool, content, ring, kept>>
    /\ UNCHANGED <<rxStep, packets, submitted>>

\* createMempool, configurePort, setupRxQueue, setupTxQueue and startPort: run()
\* returns when one fails or there is no port.
setup ==
    /\ rxStep = "setup"
    /\ rxStep' \in {"poll", "returned"}
    /\ UNCHANGED <<pool, content, ring, packets, arrived, kept, submitted>>

\* rte_eth_rx_burst
rxBurst ==
    /\ rxStep = "poll" /\ ring # <<>>
    /\ LET received == IF Len(ring) < BurstSize THEN Len(ring) ELSE BurstSize
       IN  /\ packets' = SubSeq(ring, 1, received)
           /\ ring' = SubSeq(ring, received + 1, Len(ring))
    /\ rxStep' = "packet"
    /\ UNCHANGED <<pool, content, arrived, kept, submitted>>

\* The headers are checked; the payload, a view of the mbuf, goes to the sink,
\* whose result is ignored.
submitPayload ==
    /\ rxStep = "packet" /\ packets # <<>>
    /\ submitted' = LET frame == content[Head(packets)]
                    IN  IF arrived[frame] # "other" THEN Append(submitted, frame) ELSE submitted
    /\ rxStep' = "free"
    /\ UNCHANGED <<pool, content, ring, packets, arrived, kept>>

\* Variant: the whole burst is freed with its first packet.
free_tooMany ==
    /\ rxStep = "free"
    /\ pool' = pool \cup Range(packets)
    /\ packets' = Tail(packets)
    /\ rxStep' = IF Len(packets) > 1 THEN "packet" ELSE "poll"
    /\ UNCHANGED <<content, ring, arrived, kept, submitted>>

\* Variant: the mbuf of a frame that is not for us is not freed.
free_itchOnly ==
    /\ rxStep = "free"
    /\ pool' = IF arrived[content[Head(packets)]] # "other" THEN pool \cup {Head(packets)} ELSE pool
    /\ packets' = Tail(packets)
    /\ rxStep' = IF Len(packets) > 1 THEN "packet" ELSE "poll"
    /\ UNCHANGED <<content, ring, arrived, kept, submitted>>

\* Variant: the rest of the burst is left.
free_breaks ==
    /\ rxStep = "free"
    /\ pool' = pool \cup Range(packets)
    /\ packets' = <<>>
    /\ rxStep' = "poll"
    /\ UNCHANGED <<content, ring, arrived, kept, submitted>>

\* rte_pktmbuf_free, on every path through the body; then the next packet.
free ==
    /\ rxStep = "free"
    /\ pool' = pool \cup {Head(packets)}
    /\ packets' = Tail(packets)
    /\ rxStep' = IF Len(packets) > 1 THEN "packet" ELSE "poll"
    /\ UNCHANGED <<content, ring, arrived, kept, submitted>>

Arrival == \E kind \in {"itch", "malformed", "other"} : arrive(kind)

ReceiverNext == setup \/ rxBurst \/ submitPayload \/ free \/ Arrival

ReceiverSpec == ReceiverInit /\ [][ReceiverNext]_receiverVars

-----------------------------------------------------------------------------
(* Properties *)

\* Every mbuf is free, in the ring or in the burst, and in one of them only: none
\* leaks on an early exit of the body and none is freed twice.
MbufsAccounted ==
    /\ Cardinality(pool) + Len(ring) + Len(packets) = Cardinality(Mbufs)
    /\ pool \cup Range(ring) \cup Range(packets) = Mbufs
=============================================================================
