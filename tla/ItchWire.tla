------------------------------ MODULE ItchWire ------------------------------
(***************************************************************************)
(* ITCH messages as they come in: out of a replay file                     *)
(* (src/market_data/replay/) or as the payload of a UDP datagram           *)
(* (src/dpdk/), through parser, mapper and ItchReplayDispatcher, to a      *)
(* MarketDataEvent.                                                        *)
(***************************************************************************)
EXTENDS WireFormat

NoSymbol == [i \in 1 .. 8 |-> 0]    \* Symbol{}

-----------------------------------------------------------------------------
(* What is written: packed structs, integers in network order *)

\* Type, stock locate, tracking number and timestamp.
MessageHeader(type) == <<type>> \o writeUint(0, 2) \o writeUint(0, 2) \o [i \in 1 .. 6 |-> 0]

\* makeAddOrder
makeAddOrder(m) ==
    MessageHeader(Char.A) \o writeUint(m.orderReferenceNumber, 8)
        \o <<IF m.side = "Buy" THEN Char.B ELSE Char.S>>
        \o writeUint(m.shares, 4) \o m.stock \o writeUint(m.price, 4)

\* The other messages of a feed; the repository has no writer for them.
makeMessage(m) ==
    CASE m.type = "AddOrder" -> makeAddOrder(m)
      [] m.type = "CancelOrder" ->
           MessageHeader(Char.X) \o writeUint(m.orderReferenceNumber, 8) \o writeUint(m.shares, 4)
      [] m.type = "DeleteOrder" -> MessageHeader(Char.D) \o writeUint(m.orderReferenceNumber, 8)
      [] m.type = "ExecuteOrder" ->
           MessageHeader(Char.E) \o writeUint(m.orderReferenceNumber, 8) \o writeUint(m.shares, 4)
               \o writeUint(m.matchNumber, 8)
      [] m.type = "ReplaceOrder" ->
           MessageHeader(Char.U) \o writeUint(m.orderReferenceNumber, 8)
               \o writeUint(m.newReferenceNumber, 8) \o writeUint(m.shares, 4) \o writeUint(m.price, 4)
      [] m.type = "Other" -> MessageHeader(Char.S) \o <<Char.O>>

\* writeMessage: a record of the file is a 16-bit length and the message.
writeMessage(bytes) == writeUint(Len(bytes), 2) \o bytes

-----------------------------------------------------------------------------
(* Parsers: a view of the struct, fields converted from network order *)

parseAddOrder(data) ==
    IF Len(data) < 36 THEN Nothing
    ELSE [orderReferenceNumber |-> Uint(data, 11, 8), buySellIndicator |-> Byte(data, 19),
          shares |-> Uint(data, 20, 4), stock |-> At(data, 24, 8), price |-> Uint(data, 32, 4)]

parseOrderCancel(data) ==
    IF Len(data) < 23 THEN Nothing
    ELSE [orderReferenceNumber |-> Uint(data, 11, 8), cancelledShares |-> Uint(data, 19, 4)]

parseOrderDelete(data) ==
    IF Len(data) < 19 THEN Nothing
    ELSE [orderReferenceNumber |-> Uint(data, 11, 8)]

parseOrderExecuted(data) ==
    IF Len(data) < 31 THEN Nothing
    ELSE [orderReferenceNumber |-> Uint(data, 11, 8), executedShares |-> Uint(data, 19, 4),
          matchNumber |-> Uint(data, 23, 8)]

parseOrderReplace(data) ==
    IF Len(data) < 35 THEN Nothing
    ELSE [originalOrderReferenceNumber |-> Uint(data, 11, 8),
          newOrderReferenceNumber |-> Uint(data, 19, 8),
          shares |-> Uint(data, 27, 4), price |-> Uint(data, 31, 4)]

-----------------------------------------------------------------------------
(* ItchReplayDispatcher *)

\* MarketDataEvent with its default member values.
MarketDataEvent(type, orderId) ==
    [type |-> type, orderId |-> orderId, newOrderId |-> 0, side |-> "Buy", symbol |-> NoSymbol,
     price |-> 0, quantity |-> 0]

\* AddOrderMapper::fromWire
AddOrderFromWire(wire) ==
    [orderReferenceNumber |-> wire.orderReferenceNumber, isBuy |-> wire.buySellIndicator = Char.B,
     shares |-> wire.shares, symbol |-> wire.stock, price |-> wire.price]

\* The event of a message that was parsed, or nothing.
addOrderEvent(wire) ==
    LET order == AddOrderFromWire(wire)
    IN  [MarketDataEvent("AddOrder", order.orderReferenceNumber) EXCEPT
            !.side = IF order.isBuy THEN "Buy" ELSE "Sell", !.symbol = order.symbol,
            !.price = order.price, !.quantity = order.shares]

cancelOrderEvent(wire) ==
    [MarketDataEvent("CancelOrder", wire.orderReferenceNumber) EXCEPT !.quantity = wire.cancelledShares]

deleteOrderEvent(wire) == MarketDataEvent("DeleteOrder", wire.orderReferenceNumber)

executeOrderEvent(wire) ==
    [MarketDataEvent("ExecuteOrder", wire.orderReferenceNumber) EXCEPT !.quantity = wire.executedShares]

replaceOrderEvent(wire) ==
    [MarketDataEvent("ReplaceOrder", wire.originalOrderReferenceNumber) EXCEPT
        !.newOrderId = wire.newOrderReferenceNumber,
        !.price = wire.price, !.quantity = wire.shares]

\* ItchReplayDispatcher::dispatch, up to the submit.
dispatchMessage(data) ==
    LET type == IF Len(data) = 0 THEN 0 ELSE Byte(data, 0)
        Parsed(wire, Event(_)) == IF wire = Nothing THEN Nothing ELSE Event(wire)
    IN  CASE type = Char.A -> Parsed(parseAddOrder(data), addOrderEvent)
          [] type = Char.X -> Parsed(parseOrderCancel(data), cancelOrderEvent)
          [] type = Char.D -> Parsed(parseOrderDelete(data), deleteOrderEvent)
          [] type = Char.E -> Parsed(parseOrderExecuted(data), executeOrderEvent)
          [] type = Char.U -> Parsed(parseOrderReplace(data), replaceOrderEvent)
          [] OTHER -> Nothing

-----------------------------------------------------------------------------
(* ItchReplayReader *)

\* readNext: the message at a position of the file, or nothing at its end, at a
\* length of zero and at a record that is not complete.
readNext(stream, position) ==
    IF position + 2 > Len(stream) \/ Uint(stream, position, 2) = 0
        \/ position + 2 + Uint(stream, position, 2) > Len(stream)
    THEN Nothing
    ELSE At(stream, position + 2, Uint(stream, position, 2))

-----------------------------------------------------------------------------
(* EthernetParser, IPv4Parser and UDPParser as Receiver::run uses them *)

etherType(frame) == Uint(frame, 12, 2)

\* Variant: headers without options are assumed.
headerLengthBytes_fixed(packet) == 20

headerLengthBytes(packet) == (Byte(packet, 0) % 16) * 4

\* IPv4Parser::parse
parseIPv4(packet) ==
    /\ Len(packet) >= 20
    /\ Byte(packet, 0) \div 16 = 4
    /\ headerLengthBytes(packet) >= 20
    /\ Len(packet) >= headerLengthBytes(packet)

\* IPv4Parser::payload and payloadLength
IPv4Payload(packet) ==
    LET totalLength == Uint(packet, 2, 2)
    IN  IF totalLength < headerLengthBytes(packet) THEN <<>>
        ELSE SubSeq(packet, headerLengthBytes(packet) + 1, totalLength)

\* UDPParser::payload and payloadLength
UDPPayload(datagram) ==
    IF Uint(datagram, 4, 2) < 8 THEN <<>>
    ELSE At(datagram, 8, Uint(datagram, 4, 2) - 8)

IPv4EtherType == readUint(<<8, 0>>)
UdpProtocol == 17
ItchPort == readUint(<<35, 40>>)     \* 9000

\* The body of Receiver::run: the payload for the sink, or nothing.
udpPayload(frame) ==
    LET packet == SubSeq(frame, 15, Len(frame))
    IN  IF Len(frame) < 14 THEN Nothing
        ELSE IF etherType(frame) # IPv4EtherType THEN Nothing
        ELSE IF ~parseIPv4(packet) THEN Nothing
        ELSE IF Byte(packet, 9) # UdpProtocol THEN Nothing
        ELSE LET datagram == IPv4Payload(packet)
             IN  IF Len(datagram) < 8 THEN Nothing
                 ELSE IF Uint(datagram, 2, 2) # ItchPort THEN Nothing
                 ELSE UDPPayload(datagram)
=============================================================================
