----------------------------- MODULE OrderEntry -----------------------------
(***************************************************************************)
(* The order path of trading_runtime composed with the exchange server:    *)
(* MarketDataStrategyConsumer hands an OrderIntent to Gateway::submit,     *)
(* which asks RiskManager::check, sends the order through                  *)
(* OuchExecutionSink and a TCP or TLS transport, and on success adds it to *)
(* the position (src/gateway, src/risk, src/execution/ouch).  The runtime  *)
(* reads no response while it trades and waits for one at the end.  It     *)
(* uses TLS; TcpOuchTransport, which tests and benchmarks use instead, is  *)
(* driven here in the same way, without the wait.                          *)
(*                                                                         *)
(* The transport's calls block.  Here the trading thread does one call of  *)
(* send or recv on the socket at a time while the server runs.             *)
(***************************************************************************)
EXTENDS ExchangeTcpServer

CONSTANTS Trader,            \* the runtime, the only client
          Prices, Quantities,  \* of the intents the strategy produces
          MaxOrderQuantity, MaxOrderValue, MaxPosition,
          ValueBits,         \* width of orderValue
          SendRoom           \* order units the sockets hold before send blocks

ASSUME OrderEntryAssumption ==
    /\ Trader \in Clients /\ SendRoom \in Nat \ {0}
    /\ MaxPosition \in Nat /\ ValueBits \in Nat /\ Quantities \subseteq Nat

VARIABLES step,      \* where the trading thread is
          sent,      \* the orders given to the transport
          sentUnits, \* how much of the last one is out
          nextUserRefNum_,
          position,  \* positions_[accountId]
          broken     \* the socket has reported an error, and reports it again

traderVars == <<step, sent, sentUnits, nextUserRefNum_, position, broken>>
allVars == <<vars, traderVars>>

EntryInit ==
    /\ Init
    /\ step = "connecting" /\ sent = <<>> /\ sentUnits = 0 /\ nextUserRefNum_ = 1
    /\ position = 0 /\ broken = FALSE

Signed(o) == IF o.side = "Buy" THEN o.quantity ELSE -o.quantity

Abs(n) == IF n < 0 THEN -n ELSE n

-----------------------------------------------------------------------------
(* TcpOuchTransport::connect and TlsOuchTransport::connect *)

\* TcpOuchTransport is connected when the socket is.
tcpConnect ==
    /\ step = "connecting" /\ ~tls /\ connect(Trader)
    /\ step' = "ready"
    /\ UNCHANGED <<sent, sentUnits, nextUserRefNum_, position, broken>>

\* TlsOuchTransport goes on to the handshake.
tlsConnect ==
    /\ step = "connecting" /\ tls
    /\ connect(Trader) \/ shake(Trader)
    /\ step' = IF net'[Trader].shaken = Flights THEN "ready" ELSE step
    /\ UNCHANGED <<sent, sentUnits, nextUserRefNum_, position, broken>>

\* close() and return 1
connectFails ==
    /\ step = "connecting"
    /\ step' = "done"
    /\ net' = [net EXCEPT ![Trader].peer = "closed"]
    /\ UNCHANGED <<serverVars, sent, sentUnits, nextUserRefNum_, position, broken>>

-----------------------------------------------------------------------------
(* Gateway::submit *)

\* Variant: the position limit holds for buying only.
check_oneSided(o) ==
    /\ o.price > 0 /\ o.quantity # 0 /\ o.quantity <= MaxOrderQuantity
    /\ (o.price * o.quantity) % 2 ^ ValueBits <= MaxOrderValue
    /\ position + Signed(o) <= MaxPosition

\* RiskManager::check
check(o) ==
    /\ o.price > 0 /\ o.quantity # 0 /\ o.quantity <= MaxOrderQuantity
    /\ (o.price * o.quantity) % 2 ^ ValueBits <= MaxOrderValue
    /\ Abs(position + Signed(o)) <= MaxPosition

\* OuchExecutionSink::submit: an intent becomes a numbered EnterOrder; a number
\* is used up even if the send fails.
EnterOrder(o) ==
    [userRefNum |-> nextUserRefNum_, side |-> o.side, price |-> o.price, quantity |-> o.quantity]

\* Variant: the order is counted before it is sent.
submit_countsFirst(o) ==
    /\ step = "ready" /\ nextUserRefNum_ <= MaxOrders
    /\ check(o)
    /\ step' = "sending" /\ sent' = Append(sent, EnterOrder(o)) /\ sentUnits' = 0
    /\ nextUserRefNum_' = nextUserRefNum_ + 1
    /\ position' = position + Signed(o)
    /\ UNCHANGED <<vars, broken>>

\* A rejected intent leaves everything as it is; an accepted one is given to the
\* transport.
submit(o) ==
    /\ step = "ready" /\ nextUserRefNum_ <= MaxOrders
    /\ check(o)
    /\ step' = "sending" /\ sent' = Append(sent, EnterOrder(o)) /\ sentUnits' = 0
    /\ nextUserRefNum_' = nextUserRefNum_ + 1
    /\ UNCHANGED <<vars, position, broken>>

\* The blocking socket takes one more unit.  What is sent to a connection that
\* the server closed is accepted until the error comes back.
Put ==
    /\ step = "sending" /\ ~broken
    /\ net[Trader].written - net[Trader].consumed < SendRoom \/ net[Trader].conn = "closed"
    /\ net' = [net EXCEPT ![Trader].written = @ + 1]
    /\ sentUnits' = sentUnits + 1
    /\ step' = IF sentUnits' = FrameSize THEN "sent" ELSE step
    /\ UNCHANGED <<serverVars, sent, nextUserRefNum_, position, broken>>

\* The loops of TcpOuchTransport::send and of TlsOuchTransport::send.
tcpSend == ~tls /\ Put
tlsSend == tls /\ Put

\* Variant: every error is retried like EINTR.
sendFails_retries ==
    /\ step = "sending" /\ (broken \/ net[Trader].conn = "closed")
    /\ broken' = TRUE
    /\ UNCHANGED <<vars, step, sent, sentUnits, nextUserRefNum_, position>>

\* The call fails: submit returns without counting the order.
sendFails ==
    /\ step = "sending" /\ (broken \/ net[Trader].conn = "closed")
    /\ step' = "ready" /\ broken' = TRUE
    /\ sent' = SubSeq(sent, 1, Len(sent) - 1)
    /\ UNCHANGED <<vars, sentUnits, nextUserRefNum_, position>>

\* RiskManager::onAccepted
onAccepted ==
    /\ step = "sent"
    /\ position' = position + Signed(sent[Len(sent)])
    /\ step' = "ready"
    /\ UNCHANGED <<vars, sent, sentUnits, nextUserRefNum_, broken>>

-----------------------------------------------------------------------------
(* The end of the runtime *)

\* The replay is over and the pipeline stopped: over TLS, wait for one Accepted.
finish ==
    /\ step = "ready"
    /\ step' = IF tls THEN "receiving" ELSE "closing"
    /\ UNCHANGED <<vars, sent, sentUnits, nextUserRefNum_, position, broken>>

\* Variant: the end of the connection is retried.
receive_retries ==
    /\ step = "receiving" /\ take(Trader)
    /\ step' = IF net'[Trader].taken = ResponseSize THEN "closing" ELSE step
    /\ UNCHANGED <<sent, sentUnits, nextUserRefNum_, position, broken>>

\* TlsOuchTransport::receive: a whole response, or the end of the connection.
receive ==
    /\ step = "receiving"
    /\ \/ /\ take(Trader)
          /\ step' = IF net'[Trader].taken = ResponseSize THEN "closing" ELSE step
       \/ /\ net[Trader].conn = "closed" /\ net[Trader].taken = Len(net[Trader].delivered)
          /\ step' = "closing" /\ UNCHANGED vars
    /\ UNCHANGED <<sent, sentUnits, nextUserRefNum_, position, broken>>

\* The transport's destructor, or the end of the process at any moment.
close ==
    /\ step # "done" /\ net[Trader].conn # "none"
    /\ step' = "done"
    /\ net' = [net EXCEPT ![Trader].peer = IF step = "closing" THEN "closed" ELSE "reset"]
    /\ UNCHANGED <<serverVars, sent, sentUnits, nextUserRefNum_, position, broken>>

Trading ==
    \/ tcpConnect \/ tlsConnect \/ tcpSend \/ tlsSend \/ sendFails \/ onAccepted \/ receive
    \/ (step = "closing" /\ close)

\* What MicrostructureStrategy may ask for: either side, at a price of the book.
Intents == [side : {"Buy", "Sell"}, price : Prices, quantity : Quantities]

\* MarketDataStrategyConsumer::consume, after the book: the result is ignored.
consume == \E o \in Intents : submit(o)

ServerStep == Server /\ UNCHANGED traderVars

EntryNext ==
    \/ Trading \/ ServerStep
    \/ consume \/ finish \/ connectFails \/ close
    \/ (loopFails /\ UNCHANGED traderVars)

EntrySpec ==
    /\ EntryInit /\ [][EntryNext]_allVars
    /\ WF_allVars(ServerStep) /\ WF_allVars(Trading)

-----------------------------------------------------------------------------
(* Properties *)

\* Net quantity of the first n orders of s.
NetQuantity(s, n) ==
    LET total[i \in 0 .. n] == IF i = 0 THEN 0 ELSE total[i - 1] + Signed(s[i])
    IN  total[n]

Exposure(n) == NetQuantity(sent, n)

\* The position is that of the orders sent, and covers every order the exchange
\* has processed except the one whose send has just returned: the exchange never
\* runs ahead of the risk check by more than that.
PositionCoversExchange ==
    LET inFlight == IF step \in {"sending", "sent"} THEN 1 ELSE 0
    IN  step # "done" =>
            /\ position = Exposure(Len(sent) - inFlight)
            /\ processed[Trader] <= Len(sent) - (IF step = "sending" THEN 1 ELSE 0)

\* What the exchange has processed is within MaxPosition, whatever was lost when
\* a connection ended: the orders processed are a prefix of the orders sent.
ExposureWithinLimit == Abs(Exposure(processed[Trader])) <= MaxPosition

\* submit always returns although the runtime reads no response: the exchange
\* never stops reading to wait for a client, it closes it.
SubmitReturns == (step \in {"sending", "sent"}) ~> (step \notin {"sending", "sent"})

\* The wait for a response ends when an order was sent.
ResponseArrives == (step = "receiving" /\ sent # <<>>) ~> (step # "receiving")
=============================================================================
