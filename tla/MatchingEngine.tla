--------------------------- MODULE MatchingEngine ---------------------------
(***************************************************************************)
(* MatchingEngine (src/orderbook/software/): orders from the pool are      *)
(* matched against the book, and what remains of them rests in it.  The    *)
(* engine has one caller at a time; the loop of executeTrade is one step   *)
(* per trade, because listeners run in the middle of it.                   *)
(***************************************************************************)
EXTENDS ArrayOrderBook

CONSTANTS Accounts,       \* accounts that submit orders
          Prices,         \* prices orders arrive with: 0 means "none" to the book
          Quantities,     \* quantities they arrive with; nothing rejects zero
          MaxOrders       \* bound: orders submitted in a behaviour

ASSUME EngineAssumption ==
    /\ Prices \subseteq Price \ {0} /\ Quantities \subseteq 0 .. 2 ^ QuantityBits - 1
    /\ MaxOrders \in Nat

VARIABLES book_, orderPool_, sequence_,
          incoming,       \* the order executeTrade is working on, or NULL
          matching,       \* its loop has not been left by break
          trades,         \* the trades published
          submitted       \* each order submitted, by id: its account, side and quantity

vars == <<book_, orderPool_, sequence_, incoming, matching, trades, submitted>>

Init ==
    /\ book_ = EmptyBook /\ orderPool_ = FullPool /\ sequence_ = 1000
    /\ incoming = NULL /\ matching = FALSE
    /\ trades = <<>> /\ submitted = <<>>

Opposite(side) == IF side = "Buy" THEN "Sell" ELSE "Buy"

\* bestBid() or bestAsk(), as the order sees it; callers test for none.
BestOpposite(order) == <<Opposite(order.side), book_.best[Opposite(order.side)]>>

canCross(order) ==
    LET l == BestOpposite(order)
    IN  /\ l[2] # 0
        /\ IF order.side = "Buy" THEN order.price >= book_.levels[l].price
                                 ELSE order.price <= book_.levels[l].price

\* prepareOrder: the order as it is filled in, with the next sequence number.
prepareOrder(account, side, price, quantity) ==
    [id |-> sequence_ + 1, account_id |-> account, side |-> side, price |-> price, quantity |-> quantity,
     level |-> NoLevel, prev |-> NULL, next |-> NULL]

\* submitOrder: prepareOrder fails on an empty pool; process() adds an order
\* that does not cross and goes into executeTrade with one that does.
submitOrder(account, side, price, quantity) ==
    LET o == Acquired(orderPool_)
        order == prepareOrder(account, side, price, quantity)
        prepared == [book_ EXCEPT !.orders[o] = order]
    IN  /\ incoming = NULL /\ o # NULL
        /\ Cardinality(DOMAIN submitted) < MaxOrders
        /\ orderPool_' = acquire(orderPool_)
        /\ sequence_' = sequence_ + 1
        /\ submitted' = [id \in DOMAIN submitted \cup {order.id} |->
                            IF id # order.id THEN submitted[id]
                            ELSE [account |-> account, side |-> side, quantity |-> quantity]]
        /\ IF canCross(order)
           THEN book_' = prepared /\ incoming' = o /\ matching' = TRUE
           ELSE book_' = addOrder(prepared, o) /\ UNCHANGED <<incoming, matching>>
        /\ UNCHANGED trades

Looping ==
    matching /\ book_.orders[incoming].quantity > 0 /\ canCross(book_.orders[incoming])

\* Variant: the trade reports all of the incoming order.
createTrade_whole(order, resting, traded) ==
    LET bid == IF order.side = "Buy" THEN order ELSE resting
        ask == IF order.side = "Buy" THEN resting ELSE order
    IN  [sequence |-> sequence_ + 1, buy |-> bid.id, sell |-> ask.id,
         buy_account_id |-> bid.account_id, sell_account_id |-> ask.account_id,
         price |-> resting.price, quantity |-> order.quantity]

createTrade(order, resting, traded) ==
    LET bid == IF order.side = "Buy" THEN order ELSE resting
        ask == IF order.side = "Buy" THEN resting ELSE order
    IN  [sequence |-> sequence_ + 1, buy |-> bid.id, sell |-> ask.id,
         buy_account_id |-> bid.account_id, sell_account_id |-> ask.account_id,
         price |-> resting.price, quantity |-> traded]

tradedQuantity(order, resting) == Min({order.quantity, resting.quantity})

\* Variant: the level's total is left to cancelOrder.
Fill_noTotal(b, r, traded) ==
    [b EXCEPT !.orders[incoming].quantity = @ - traded, !.orders[r].quantity = @ - traded]

Fill(b, r, traded) ==
    [b EXCEPT !.orders[incoming].quantity = @ - traded,
              !.orders[r].quantity = @ - traded,
              !.levels[b.orders[r].level].total_quantity = Wrap(@ - traded)]

\* Variant: the loop goes on after an empty trade.
Continues_always(traded) == TRUE

\* What matchOne returns.
Continues(traded) == traded > 0

\* matchOne: one turn of the loop; a trade of quantity zero ends it.
matchOne ==
    LET order == book_.orders[incoming]
        l == BestOpposite(order)
        r == front(book_, l)
        resting == book_.orders[r]
        traded == tradedQuantity(order, resting)
        reduced == Fill(book_, r, traded)
    IN  /\ incoming # NULL /\ Looping
        /\ IF r = NULL
           THEN matching' = FALSE /\ UNCHANGED <<book_, orderPool_, sequence_, trades>>
           ELSE /\ trades' = Append(trades, createTrade(order, resting, traded))
                /\ sequence_' = sequence_ + 1
                /\ IF resting.quantity = traded
                   THEN /\ book_' = cancelOrder(reduced, resting.id)
                        /\ orderPool_' = release(orderPool_, Cancelled(reduced, resting.id))
                   ELSE book_' = reduced /\ UNCHANGED orderPool_
                /\ matching' = Continues(traded)
        /\ UNCHANGED <<incoming, submitted>>

\* Variant: a filled order is not given back to the pool.
executeTradeEnd_unreleased ==
    /\ incoming # NULL /\ ~Looping
    /\ book_' = IF book_.orders[incoming].quantity > 0 THEN addOrder(book_, incoming) ELSE book_
    /\ incoming' = NULL /\ matching' = FALSE
    /\ UNCHANGED <<orderPool_, sequence_, trades, submitted>>

\* The end of executeTrade, after the loop.
executeTradeEnd ==
    /\ incoming # NULL /\ ~Looping
    /\ IF book_.orders[incoming].quantity > 0
       THEN book_' = addOrder(book_, incoming) /\ UNCHANGED orderPool_
       ELSE orderPool_' = release(orderPool_, incoming) /\ UNCHANGED book_
    /\ incoming' = NULL /\ matching' = FALSE
    /\ UNCHANGED <<sequence_, trades, submitted>>

Next ==
    \/ \E account \in Accounts, side \in Side, price \in Prices, quantity \in Quantities :
          submitOrder(account, side, price, quantity)
    \/ matchOne
    \/ executeTradeEnd

Spec == Init /\ [][Next]_vars

-----------------------------------------------------------------------------
(* Properties *)

AddressesOf(l) == Range(OrdersAt(book_, l))
InBook == UNION {AddressesOf(l) : l \in Level}
Taking == {incoming} \ {NULL}

\* What is left of the order at address o, as the outside sees it.
OrderAt(o) == [id |-> book_.orders[o].id, side |-> book_.orders[o].side,
               price |-> book_.orders[o].price, quantity |-> book_.orders[o].quantity]

\* Matching follows price-time priority, at the resting price, over any
\* sequence of submitOrder calls and partial fills.
Promise == INSTANCE PriceTimePriority WITH
    resting <- {OrderAt(o) : o \in InBook},
    taker <- {OrderAt(o) : o \in Taking},
    tape <- [i \in 1 .. Len(trades) |-> [buy |-> trades[i].buy, sell |-> trades[i].sell,
                                         price |-> trades[i].price, quantity |-> trades[i].quantity]]
FollowsPriceTimePriority == Promise!EngineSpec

\* Quantity is neither created nor lost: what was submitted under an id has
\* been traded, rests in the book, or is still being matched.
Left(id) == MapThenSumSet(LAMBDA o : book_.orders[o].quantity,
                          {o \in orderPool_.in_use_ : book_.orders[o].id = id})
QuantityConserved ==
    LET Traded(id) == MapThenSumSet(LAMBDA i : trades[i].quantity,
                                    {i \in 1 .. Len(trades) : id \in {trades[i].buy, trades[i].sell}})
    IN  \A id \in DOMAIN submitted : submitted[id].quantity = Traded(id) + Left(id)

\* matchOne and cancelOrder together keep each level's total: the fill is taken
\* off once, although both of them subtract.
LevelTotalsExact ==
    \A l \in Level :
        book_.levels[l].total_quantity =
            Wrap(MapThenSumSet(LAMBDA o : book_.orders[o].quantity, AddressesOf(l)))

\* An order is in use exactly while it rests or is being matched, so a slot is
\* never recycled under a list and never lost to the pool.
NoLeak ==
    /\ orderPool_.in_use_ = InBook \cup Taking
    /\ incoming \notin InBook
    /\ Range(orderPool_.free_list_) = Address \ orderPool_.in_use_
    /\ Len(orderPool_.free_list_) = PoolCapacity - Cardinality(orderPool_.in_use_)

\* executeTrade returns: every turn of its loop uses up some of the incoming
\* order or is the last one.
EveryTurnProgresses ==
    [][incoming # NULL /\ incoming' # NULL =>
          book_'.orders[incoming].quantity < book_.orders[incoming].quantity \/ ~matching']_vars
=============================================================================
