------------------------------ MODULE OuchWire ------------------------------
(***************************************************************************)
(* The OUCH messages on the wire (src/execution/ouch/): what the client    *)
(* encodes and the exchange decodes, and the other way round.  Encoder and *)
(* decoder of a message are separate code, each with its own offsets.      *)
(***************************************************************************)
EXTENDS WireFormat

SideByte(side) == IF side = "Buy" THEN Char.B ELSE Char.S

SideOf(byte) == IF byte = Char.B THEN "Buy" ELSE "Sell"

-----------------------------------------------------------------------------
(* EnterOrder: client to exchange *)

\* OuchExecutionSink::submit: the order an intent becomes.
EnterOrderOf(intent, userRefNum) ==
    [userRefNum |-> userRefNum, side |-> intent.side, quantity |-> intent.quantity,
     symbol |-> intent.symbol, price |-> intent.price, timeInForce |-> Char.Zero,
     display |-> Char.Y, capacity |-> Char.A, isoEligibility |-> Char.N, crossType |-> Char.N,
     clOrdId |-> [i \in 1 .. 14 |-> 0], appendageLength |-> 0]

\* OuchEncoder::encode
encodeEnterOrder(order) ==
    Buffer(47, Char.Space,
        << <<0, <<Char.O>> >>,
           <<1, writeUint(order.userRefNum, 4)>>,
           <<5, <<SideByte(order.side)>> >>,
           <<6, writeUint(order.quantity, 4)>>,
           <<10, order.symbol>>,
           <<18, writeUint(order.price, 8)>>,
           <<26, <<order.timeInForce, order.display, order.capacity, order.isoEligibility, order.crossType>> >>,
           <<31, order.clOrdId>>,
           <<45, writeUint(0, 2)>> >>)

\* OuchDecoder::decodeEnterOrder
decodeEnterOrder(data) ==
    IF Len(data) < 47 \/ Byte(data, 0) # Char.O THEN Nothing
    ELSE [userRefNum |-> Uint(data, 1, 4), side |-> SideOf(Byte(data, 5)),
          quantity |-> Uint(data, 6, 4), symbol |-> At(data, 10, 8), price |-> Uint(data, 18, 8),
          timeInForce |-> Byte(data, 26), display |-> Byte(data, 27), capacity |-> Byte(data, 28),
          isoEligibility |-> Byte(data, 29), crossType |-> Byte(data, 30),
          clOrdId |-> At(data, 31, 14), appendageLength |-> Uint(data, 45, 2)]

-----------------------------------------------------------------------------
(* Accepted and Executed: exchange to client *)

\* ExchangeOuchHandler::handleEnterOrder: the answer to an order.
AcceptedOf(order, orderId) ==
    [type |-> "Accepted", timestamp |-> 0, userRefNum |-> order.userRefNum, side |-> order.side,
     quantity |-> order.quantity, symbol |-> order.symbol, price |-> order.price,
     timeInForce |-> order.timeInForce, display |-> order.display,
     orderReferenceNumber |-> orderId, capacity |-> order.capacity,
     isoEligibility |-> order.isoEligibility, crossType |-> order.crossType,
     orderState |-> Char.L, clOrdId |-> order.clOrdId, appendageLength |-> 0]

\* Variant: the price is written as a 32-bit field.
encodeAccepted_price32(accepted) ==
    Buffer(64, Char.Space,
        << <<0, <<Char.A>> >>,
           <<1, writeUint(accepted.timestamp, 8)>>,
           <<9, writeUint(accepted.userRefNum, 4)>>,
           <<13, <<SideByte(accepted.side)>> >>,
           <<14, writeUint(accepted.quantity, 4)>>,
           <<18, accepted.symbol>>,
           <<26, writeUint(0, 4) \o writeUint(accepted.price, 4)>>,
           <<34, <<accepted.timeInForce, accepted.display>> >>,
           <<36, writeUint(accepted.orderReferenceNumber, 8)>>,
           <<44, <<accepted.capacity, accepted.isoEligibility, accepted.crossType, accepted.orderState>> >>,
           <<48, accepted.clOrdId>>,
           <<62, writeUint(accepted.appendageLength, 2)>> >>)

\* AcceptedEncoder::encode
encodeAccepted(accepted) ==
    Buffer(64, Char.Space,
        << <<0, <<Char.A>> >>,
           <<1, writeUint(accepted.timestamp, 8)>>,
           <<9, writeUint(accepted.userRefNum, 4)>>,
           <<13, <<SideByte(accepted.side)>> >>,
           <<14, writeUint(accepted.quantity, 4)>>,
           <<18, accepted.symbol>>,
           <<26, writeUint(accepted.price, 8)>>,
           <<34, <<accepted.timeInForce, accepted.display>> >>,
           <<36, writeUint(accepted.orderReferenceNumber, 8)>>,
           <<44, <<accepted.capacity, accepted.isoEligibility, accepted.crossType, accepted.orderState>> >>,
           <<48, accepted.clOrdId>>,
           <<62, writeUint(accepted.appendageLength, 2)>> >>)

\* A message of the fixed size and the appendage it announces, or nothing.
Complete(data, fixedSize, message) ==
    IF Len(data) < fixedSize + message.appendageLength THEN Nothing ELSE message

\* OuchDecoder::decodeAccepted
decodeAccepted(data) ==
    IF Len(data) < 64 \/ Byte(data, 0) # Char.A THEN Nothing
    ELSE Complete(data, 64,
         [type |-> "Accepted", timestamp |-> Uint(data, 1, 8), userRefNum |-> Uint(data, 9, 4),
          side |-> SideOf(Byte(data, 13)), quantity |-> Uint(data, 14, 4),
          symbol |-> At(data, 18, 8), price |-> Uint(data, 26, 8), timeInForce |-> Byte(data, 34),
          display |-> Byte(data, 35), orderReferenceNumber |-> Uint(data, 36, 8),
          capacity |-> Byte(data, 44), isoEligibility |-> Byte(data, 45),
          crossType |-> Byte(data, 46), orderState |-> Byte(data, 47),
          clOrdId |-> At(data, 48, 14), appendageLength |-> Uint(data, 62, 2)])

\* ExecutedEncoder::encode
encodeExecuted(executed) ==
    Buffer(36, 0,
        << <<0, <<Char.E>> >>,
           <<1, writeUint(executed.timestamp, 8)>>,
           <<9, writeUint(executed.userRefNum, 4)>>,
           <<13, writeUint(executed.quantity, 4)>>,
           <<17, writeUint(executed.price, 8)>>,
           <<25, <<executed.liquidityFlag>> >>,
           <<26, writeUint(executed.matchNumber, 8)>>,
           <<34, writeUint(executed.appendageLength, 2)>> >>)

\* OuchDecoder::decodeExecuted
decodeExecuted(data) ==
    IF Len(data) < 36 \/ Byte(data, 0) # Char.E THEN Nothing
    ELSE Complete(data, 36,
         [type |-> "Executed", timestamp |-> Uint(data, 1, 8), userRefNum |-> Uint(data, 9, 4),
          quantity |-> Uint(data, 13, 4), price |-> Uint(data, 17, 8),
          liquidityFlag |-> Byte(data, 25), matchNumber |-> Uint(data, 26, 8),
          appendageLength |-> Uint(data, 34, 2)])

\* OuchDecoder::decodeRejected; the exchange of this repository never sends one.
decodeRejected(data) ==
    IF Len(data) < 31 \/ Byte(data, 0) # Char.J THEN Nothing
    ELSE Complete(data, 31,
         [type |-> "Rejected", timestamp |-> Uint(data, 1, 8), userRefNum |-> Uint(data, 9, 4),
          reason |-> Uint(data, 13, 2), clOrdId |-> At(data, 15, 14),
          appendageLength |-> Uint(data, 29, 2)])

\* OuchDecoder::decodeCanceled; likewise.
decodeCanceled(data) ==
    IF Len(data) < 18 \/ Byte(data, 0) # Char.C THEN Nothing
    ELSE [type |-> "Canceled", timestamp |-> Uint(data, 1, 8), userRefNum |-> Uint(data, 9, 4),
          quantity |-> Uint(data, 13, 4), reason |-> Byte(data, 17), appendageLength |-> 0]

\* OuchResponseDispatcher::dispatch
dispatchResponse(data) ==
    CASE Len(data) = 0 -> Nothing
      [] Len(data) > 0 /\ Byte(data, 0) = Char.A -> decodeAccepted(data)
      [] Len(data) > 0 /\ Byte(data, 0) = Char.J -> decodeRejected(data)
      [] Len(data) > 0 /\ Byte(data, 0) = Char.E -> decodeExecuted(data)
      [] Len(data) > 0 /\ Byte(data, 0) = Char.C -> decodeCanceled(data)
      [] OTHER -> Nothing
=============================================================================
