---------------------------- MODULE TickToTrade -----------------------------
(***************************************************************************)
(* The bytes on the way from a market-data message to the answer to an     *)
(* order: the message comes out of a replay file or a frame and becomes an *)
(* event; the strategy may answer with an intent, which goes to the        *)
(* exchange as an OUCH EnterOrder; the exchange's answer comes back.  What *)
(* the strategy decides is left open, its symbol is the event's            *)
(* (src/strategy/microstructure_strategy.cpp).  The queue, the risk check, *)
(* the connection and the matching are the business of other modules.      *)
(***************************************************************************)
EXTENDS ItchWire, OuchWire

CONSTANTS Messages,             \* what a feed may say
          Headers,              \* the headers the frames of a feed may have
          FeedLength,           \* bound: messages in a feed
          Prices, Quantities,   \* of the intents
          Fills                 \* quantities of the trades

VARIABLES input,       \* "Replay" or "Dpdk"
          feed,        \* the messages
          headers,     \* of the frames that carry them
          stream,      \* the file: as many bytes of the records as were written
          position,    \* in the file, or frames received
          events,      \* what was submitted to the pipeline
          step,
          intents,     \* given to OuchExecutionSink, whose number is the index
          wire,        \* the bytes of the OUCH message on its way
          orders,      \* decoded by the exchange
          report,      \* what the client has decoded
          whole        \* ... from an answer without missing bytes

inputVars == <<input, feed, headers, stream>>
reportVars == <<report, whole>>
vars == <<inputVars, position, events, step, intents, wire, orders, reportVars>>

\* A feed as a file.
Records(f) == FlattenSeq([i \in 1 .. Len(f) |-> writeMessage(makeMessage(f[i]))])

\* A file whose writer stopped early ends anywhere.
Init ==
    /\ feed \in [1 .. FeedLength -> Messages]
    /\ \/ /\ input = "Replay" /\ headers = <<>>
          /\ \E n \in 0 .. Len(Records(feed)) : stream = SubSeq(Records(feed), 1, n)
       \/ /\ input = "Dpdk" /\ stream = <<>>
          /\ headers \in Headers
    /\ position = 0 /\ events = <<>> /\ step = "read"
    /\ intents = <<>> /\ wire = <<>> /\ orders = <<>> /\ report = Nothing /\ whole = FALSE

\* A message in a UDP datagram, an IPv4 packet and a frame, padded.
Frame(h, payload) ==
    LET datagram == writeUint(1, 2) \o h.port \o writeUint(8 + Len(payload), 2)
                        \o writeUint(0, 2) \o payload
        options == [i \in 1 .. 4 * (h.ihl - 5) |-> 1]
        packet == <<16 * h.version + h.ihl, 0>> \o writeUint(4 * h.ihl + Len(datagram), 2)
                      \o <<0, 0, 0, 0, 64, h.protocol>> \o [i \in 1 .. 10 |-> 1] \o options \o datagram
    IN  [i \in 1 .. 12 |-> 1] \o h.etherType \o packet \o [i \in 1 .. h.padding |-> 0]

-----------------------------------------------------------------------------
(* Market data *)

\* dispatch() of what was read: an event for the consumer, or the next message.
Deliver(event) ==
    IF event = Nothing THEN UNCHANGED <<events, step>>
    ELSE events' = Append(events, event) /\ step' = "consume"

\* while (reader.readNext(message)) dispatcher.dispatch(message)
ReadRecord ==
    /\ step = "read" /\ input = "Replay"
    /\ LET message == readNext(stream, position)
       IN  IF message = Nothing
           THEN step' = "done" /\ UNCHANGED <<position, events>>
           ELSE /\ position' = position + 2 + Len(message)
                /\ Deliver(dispatchMessage(message))
    /\ UNCHANGED <<inputVars, intents, wire, orders, reportVars>>

\* One frame in Receiver::run, with ItchUdpPayloadSink::submit.
ReceiveFrame ==
    /\ step = "read" /\ input = "Dpdk" /\ position < FeedLength
    /\ position' = position + 1
    /\ LET payload == udpPayload(Frame(headers[position'], makeMessage(feed[position'])))
       IN  Deliver(IF payload = Nothing THEN Nothing ELSE dispatchMessage(payload))
    /\ UNCHANGED <<inputVars, intents, wire, orders, reportVars>>

-----------------------------------------------------------------------------
(* Orders *)

\* MarketDataStrategyConsumer::consume without an intent.
NoIntent ==
    /\ step = "consume" /\ step' = "read"
    /\ UNCHANGED <<inputVars, position, events, intents, wire, orders, reportVars>>

\* MicrostructureStrategy::onMarketData: an intent on either side.
Intent(side, price, quantity) ==
    [side |-> side, symbol |-> Last(events).symbol, price |-> price, quantity |-> quantity]

\* It needs a market of two sides, hence orders on both.
TwoSided ==
    \A side \in {"Buy", "Sell"} :
        \E i \in 1 .. Len(events) : events[i].type = "AddOrder" /\ events[i].side = side

\* OuchExecutionSink::submit sends the intent.
Submit(side, price, quantity) ==
    /\ step = "consume" /\ TwoSided
    /\ step' = "sent"
    /\ intents' = Append(intents, Intent(side, price, quantity))
    /\ wire' = encodeEnterOrder(EnterOrderOf(Last(intents'), Len(intents')))
    /\ UNCHANGED <<inputVars, position, events, orders, reportVars>>

\* ExchangeOuchHandler::handleEnterOrder
HandleEnterOrder ==
    /\ step = "sent" /\ decodeEnterOrder(wire) # Nothing
    /\ step' = "answered"
    /\ orders' = Append(orders, decodeEnterOrder(wire))
    /\ wire' = encodeAccepted(AcceptedOf(Last(orders'), Len(orders')))
    /\ UNCHANGED <<inputVars, position, events, intents, reportVars>>

Accepted == step = "reported" /\ report # Nothing /\ report.type = "Accepted"

\* ExchangeExecutionListener::onTrade, for an order that was answered.
OnTrade(quantity) ==
    /\ Accepted /\ quantity <= Last(orders).quantity
    /\ step' = "answered"
    /\ wire' = encodeExecuted([timestamp |-> 0, userRefNum |-> Last(orders).userRefNum,
                   quantity |-> quantity, price |-> Last(orders).price, liquidityFlag |-> Char.R,
                   matchNumber |-> Len(orders), appendageLength |-> 0])
    /\ UNCHANGED <<inputVars, position, events, intents, orders, reportVars>>

\* An exchange other than the one of the repository may also cancel an order, or
\* reject a change to it with an appendage.
VenueAnswers ==
    /\ Accepted /\ step' = "answered"
    /\ LET order == Last(orders)
       IN  wire' \in
             {<<Char.C>> \o writeUint(1, 8) \o writeUint(order.userRefNum, 4)
                  \o writeUint(order.quantity, 4) \o <<Char.U>>,
              <<Char.J>> \o writeUint(1, 8) \o writeUint(order.userRefNum, 4) \o writeUint(42, 2)
                  \o order.clOrdId \o writeUint(3, 2) \o <<2, 1, 1>>}
    /\ UNCHANGED <<inputVars, position, events, intents, orders, reportVars>>

\* OuchResponseDispatcher::dispatch of the first n bytes of the answer.
DispatchResponse(n) ==
    /\ step = "answered"
    /\ report' = dispatchResponse(SubSeq(wire, 1, n))
    /\ whole' = (n = Len(wire))
    /\ step' = "reported" /\ wire' = <<>>
    /\ UNCHANGED <<inputVars, position, events, intents, orders>>

\* The answer has been printed and is forgotten.
Continue ==
    /\ step = "reported" /\ step' = "read"
    /\ report' = Nothing /\ whole' = FALSE
    /\ UNCHANGED <<inputVars, position, events, intents, wire, orders>>

Next ==
    \/ ReadRecord \/ ReceiveFrame
    \/ NoIntent
    \/ (\E side \in {"Buy", "Sell"}, price \in Prices, quantity \in Quantities :
            Submit(side, price, quantity))
    \/ HandleEnterOrder
    \/ (\E quantity \in Fills : OnTrade(quantity))
    \/ VenueAnswers
    \/ (\E n \in {0, 1, Len(wire) - 1, Len(wire)} : DispatchResponse(n))
    \/ Continue

Spec == Init /\ [][Next]_vars

-----------------------------------------------------------------------------
(* Properties *)

\* What a message says, without bytes; nothing for one the book does not need.
Says(m) ==
    LET with == [type |-> m.type, orderId |-> m.orderReferenceNumber, newOrderId |-> 0,
                 side |-> "Buy", symbol |-> NoSymbol, price |-> 0, quantity |-> 0]
    IN  CASE m.type = "AddOrder" -> [with EXCEPT !.side = m.side, !.symbol = m.stock,
                                                 !.price = m.price, !.quantity = m.shares]
          [] m.type \in {"CancelOrder", "ExecuteOrder"} -> [with EXCEPT !.quantity = m.shares]
          [] m.type = "DeleteOrder" -> with
          [] m.type = "ReplaceOrder" -> [with EXCEPT !.newOrderId = m.newReferenceNumber,
                                                     !.price = m.price, !.quantity = m.shares]

\* The size of a message in the ITCH format.
Size == [AddOrder |-> 36, CancelOrder |-> 23, DeleteOrder |-> 19, ExecuteOrder |-> 31,
         ReplaceOrder |-> 35, Other |-> 12]

\* A message that reaches the dispatcher: all of it is in the file, or its frame
\* is UDP over IPv4 for the feed's port.
Arrives(i) ==
    IF input = "Replay"
    THEN FoldLeft(LAMBDA sum, m : sum + 2 + Size[m.type], 0, SubSeq(feed, 1, i)) <= Len(stream)
    ELSE /\ headers[i].etherType = <<8, 0>> /\ headers[i].version = 4
         /\ headers[i].protocol = 17 /\ headers[i].port = <<35, 40>>

\* The events submitted are what the feed says, message by message and in its
\* order: a message of another type is passed over whole, a record cut off ends
\* the replay without an event made of its beginning, and neither IP options nor
\* padding shift the payload.
EventsFollowFeed ==
    LET said(n) == SelectSeq([i \in 1 .. n |-> i],
                             LAMBDA i : Arrives(i) /\ feed[i].type # "Other")
        follows(n) == events = [k \in 1 .. Len(said(n)) |-> Says(feed[said(n)[k]])]
    IN  /\ \E n \in 0 .. FeedLength : follows(n)
        /\ (step = "done" \/ (input = "Dpdk" /\ position = FeedLength)) => follows(FeedLength)

\* The exchange decodes exactly the order that was meant, and what the client
\* decodes from an answer is about that order and repeats its fields; an answer
\* with bytes missing is recognised as such, whatever its kind.
OrdersSurviveWire ==
    /\ \A i \in 1 .. Len(orders) : orders[i] = EnterOrderOf(intents[i], i)
    /\ Len(orders) = Len(intents) - (IF step = "sent" THEN 1 ELSE 0)
    /\ step = "reported" => (whole <=> report # Nothing)
    /\ report # Nothing =>
          LET r == report
          IN  /\ r.userRefNum = Len(orders)
              /\ CASE r.type = "Accepted" -> r = AcceptedOf(orders[r.userRefNum], r.userRefNum)
                   [] r.type = "Executed" -> /\ r.price = intents[r.userRefNum].price
                                             /\ r.quantity \in 1 .. intents[r.userRefNum].quantity
                   [] r.type = "Canceled" -> r.quantity = intents[r.userRefNum].quantity
                   [] r.type = "Rejected" -> r.clOrdId = orders[r.userRefNum].clOrdId

\* "An OrderIntent describes the desired action using fields such as ... symbol":
\* an order names an instrument the feed named.
OrdersNameInstrument ==
    \A i \in 1 .. Len(intents) :
        \E m \in ToSet(feed) : m.type = "AddOrder" /\ m.stock = intents[i].symbol
=============================================================================
