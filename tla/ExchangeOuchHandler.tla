------------------------ MODULE ExchangeOuchHandler ------------------------
(***************************************************************************)
(* The order path of the exchange (src/exchange/): ExchangeOuchHandler     *)
(* enters OUCH orders into the matching engine, ExchangeOrderSessionMap    *)
(* remembers who sent them, and the dispatcher passes every trade to       *)
(* PositionManager and then to ExchangeExecutionListener, in the order in  *)
(* which the integration test of the handler registers them.  Orders of    *)
(* in-process accounts reach the engine through                            *)
(* MatchingEngineExecutionSink and are unknown to the session map.         *)
(***************************************************************************)
EXTENDS MatchingEngine, SequencesExt

CONSTANTS Remote,         \* accounts that enter their orders over OUCH
          NoResponse

ASSUME HandlerAssumption == Remote \subseteq Accounts

VARIABLES orderToUserRef_,   \* ExchangeOrderSessionMap: a function on the order ids registered
          positions_,        \* PositionManager
          lastResponses_,    \* ExchangeExecutionListener: the Executed of each side
          userRefNum,        \* orders each OUCH client has sent: it numbers them
          sentAs             \* by order id, the number its client gave it

exchangeVars == <<orderToUserRef_, positions_, lastResponses_, userRefNum, sentAs>>

ExchangeInit ==
    /\ Init
    /\ orderToUserRef_ = <<>>
    /\ positions_ = [account \in Accounts |-> 0]
    /\ lastResponses_ = [buy |-> NoResponse, sell |-> NoResponse]
    /\ userRefNum = [account \in Remote |-> 0] /\ sentAs = <<>>

\* MatchingEngineExecutionSink::submit
submit(account, side, price, quantity) ==
    /\ account \notin Remote
    /\ submitOrder(account, side, price, quantity)
    /\ UNCHANGED exchangeVars

registerOrder(map, orderId, ref) ==
    [id \in DOMAIN map \cup {orderId} |-> IF id = orderId THEN ref ELSE map[id]]

\* Variant: an order is registered once it has been matched.
handleEnterOrder_registersLate(account, side, price, quantity) ==
    /\ account \in Remote
    /\ submitOrder(account, side, price, quantity)
    /\ userRefNum' = [userRefNum EXCEPT ![account] = @ + 1]
    /\ sentAs' = registerOrder(sentAs, sequence_', userRefNum'[account])
    /\ orderToUserRef_' = IF incoming' # NULL THEN orderToUserRef_
                          ELSE registerOrder(orderToUserRef_, sequence_', userRefNum'[account])
    /\ UNCHANGED <<positions_, lastResponses_>>

\* The order is prepared and registered before process() matches it; the handler
\* then answers Accepted with its id.
handleEnterOrder(account, side, price, quantity) ==
    /\ account \in Remote
    /\ submitOrder(account, side, price, quantity)
    /\ userRefNum' = [userRefNum EXCEPT ![account] = @ + 1]
    /\ sentAs' = registerOrder(sentAs, sequence_', userRefNum'[account])
    /\ orderToUserRef_' = registerOrder(orderToUserRef_, sequence_', userRefNum'[account])
    /\ UNCHANGED <<positions_, lastResponses_>>

\* An order the pool has no room for: nothing is prepared or registered, and
\* the client is not answered.
rejectEnterOrder(account) ==
    /\ account \in Remote /\ incoming = NULL /\ Acquired(orderPool_) = NULL
    /\ Cardinality(DOMAIN submitted) < MaxOrders /\ userRefNum[account] < MaxOrders
    /\ userRefNum' = [userRefNum EXCEPT ![account] = @ + 1]
    /\ UNCHANGED <<vars, orderToUserRef_, positions_, lastResponses_, sentAs>>

-----------------------------------------------------------------------------
(* The listeners *)

Executed(ref, trade) ==
    [userRefNum |-> ref, quantity |-> trade.quantity, price |-> trade.price,
     matchNumber |-> trade.sequence]

\* find() and the response built when it knows the order.
ResponseTo(id, trade, kept) ==
    IF id \in DOMAIN orderToUserRef_ THEN Executed(orderToUserRef_[id], trade) ELSE kept

\* ExchangeExecutionListener::onTrade
onTrade(trade) ==
    lastResponses_' = [buy |-> ResponseTo(trade.buy, trade, NoResponse),
                       sell |-> ResponseTo(trade.sell, trade, NoResponse)]

\* Variant: the seller is forgotten.
updatePositions_buyerOnly(trade) ==
    positions_' = [positions_ EXCEPT ![trade.buy_account_id] = @ + trade.quantity]

\* PositionManager::onTrade: the two sides may be one account.
updatePositions(trade) ==
    LET bought == [positions_ EXCEPT ![trade.buy_account_id] = @ + trade.quantity]
    IN  positions_' = [bought EXCEPT ![trade.sell_account_id] = @ - trade.quantity]

\* EventDispatcher::publish runs the listeners in the middle of matchOne.
matchAndPublish ==
    /\ matchOne
    /\ IF trades' = trades THEN UNCHANGED exchangeVars
       ELSE updatePositions(Last(trades')) /\ onTrade(Last(trades'))
            /\ UNCHANGED <<orderToUserRef_, userRefNum, sentAs>>

finish == executeTradeEnd /\ UNCHANGED exchangeVars

ExchangeNext ==
    \/ \E account \in Accounts, side \in Side, price \in Prices, quantity \in Quantities :
          \/ submit(account, side, price, quantity)
          \/ handleEnterOrder(account, side, price, quantity)
    \/ \E account \in Accounts : rejectEnterOrder(account)
    \/ matchAndPublish
    \/ finish

allVars == <<vars, exchangeVars>>
ExchangeSpec == ExchangeInit /\ [][ExchangeNext]_allVars

-----------------------------------------------------------------------------
(* Properties *)

\* Each side of the last trade that came over OUCH has an Executed, under the
\* reference its client gave the order, however long the order rested and
\* whatever was entered, matched or rejected since; a side that did not come
\* over OUCH has none, not even an older one.
ExecutionsAddressed ==
    trades # <<>> =>
        LET trade == Last(trades)
            Expected(id) == IF submitted[id].account \notin Remote THEN NoResponse
                            ELSE Executed(sentAs[id], trade)
        IN  lastResponses_ = [buy |-> Expected(trade.buy), sell |-> Expected(trade.sell)]

\* What the position manager adds up trade by trade is what the orders have
\* lost: an account's position is the filled part of its bids less that of its
\* asks, also when it trades with itself, and no position is created or lost.
PositionsMatchFills ==
    LET Filled(account, side) ==
            MapThenSumSet(LAMBDA id : submitted[id].quantity - Left(id),
                          {id \in DOMAIN submitted : submitted[id].account = account
                                                     /\ submitted[id].side = side})
    IN  /\ \A account \in Accounts :
              positions_[account] = Filled(account, "Buy") - Filled(account, "Sell")
        /\ MapThenSumSet(LAMBDA account : positions_[account], Accounts) = 0
=============================================================================
