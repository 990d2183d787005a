----------------------- MODULE MarketDataBookConsumer -----------------------
(***************************************************************************)
(* MarketDataBookConsumer (src/pipeline/): applies the events of the feed  *)
(* to the order book, with orders from its own pool.                       *)
(*                                                                         *)
(* The feed numbers new orders upwards and prices them within the levels   *)
(* of the book.  Events may be missing (the queue before the consumer      *)
(* drops them when full), so any other event may name an order the book    *)
(* has never had or no longer has.                                         *)
(***************************************************************************)
EXTENDS ArrayOrderBook

CONSTANTS MaxId,          \* bound: order ids the feed uses
          Prices,         \* prices it uses: 0 means "none" to the book
          Quantities      \* quantities it uses

ASSUME FeedAssumption ==
    /\ MaxId \in Nat /\ Prices \subseteq Price \ {0}
    /\ Quantities \subseteq 0 .. 2 ^ QuantityBits - 1

VARIABLES book_, orderPool_,
          lastId          \* the last id the feed has used

vars == <<book_, orderPool_, lastId>>

Ids == 1 .. MaxId

Init ==
    /\ book_ = EmptyBook
    /\ orderPool_ = FullPool
    /\ lastId = 0

\* An order is silently dropped when the pool has none left.
AddOrder(id, side, price, quantity) ==
    LET o == Acquired(orderPool_)
        filled == [book_ EXCEPT !.orders[o] =
                      [id |-> id, side |-> side, price |-> price, quantity |-> quantity,
                       level |-> NoLevel, prev |-> NULL, next |-> NULL]]
    IN  /\ id = lastId + 1 /\ lastId' = id
        /\ orderPool_' = acquire(orderPool_)
        /\ book_' = IF o = NULL THEN book_ ELSE addOrder(filled, o)

CancelOrder(id, quantity) ==
    /\ book_' = reduceOrder(book_, id, quantity)
    /\ orderPool_' = release(orderPool_, Reduced(book_, id, quantity))
    /\ UNCHANGED lastId

\* Variant: the order is not given back to the pool.
DeleteOrder_unreleased(id) ==
    /\ book_' = cancelOrder(book_, id)
    /\ UNCHANGED <<orderPool_, lastId>>

DeleteOrder(id) ==
    /\ book_' = cancelOrder(book_, id)
    /\ orderPool_' = release(orderPool_, Cancelled(book_, id))
    /\ UNCHANGED lastId

ExecuteOrder(id, quantity) ==
    /\ book_' = executeOrder(book_, id, quantity)
    /\ orderPool_' = release(orderPool_, Reduced(book_, id, quantity))
    /\ UNCHANGED lastId

ReplaceOrder(id, newId, quantity, price) ==
    /\ newId = lastId + 1 /\ lastId' = newId
    /\ book_' = replaceOrder(book_, id, newId, quantity, price)
    /\ UNCHANGED orderPool_

Next ==
    \E id \in Ids :
        \/ DeleteOrder(id)
        \/ \E quantity \in Quantities :
              \/ CancelOrder(id, quantity)
              \/ ExecuteOrder(id, quantity)
              \/ \E price \in Prices :
                    \/ \E side \in Side : AddOrder(id, side, price, quantity)
                    \/ \E newId \in Ids : ReplaceOrder(id, newId, quantity, price)

Spec == Init /\ [][Next]_vars

\* What tells two states apart.  The fields left in an order that is not in use
\* are overwritten before they are read, and no operation reads total_quantity.
LiveView ==
    <<[o \in orderPool_.in_use_ |-> book_.orders[o]],
      [l \in Level |-> <<book_.levels[l].head, book_.levels[l].tail, book_.levels[l].price>>],
      book_.bitmap, book_.best, book_.index, orderPool_, lastId>>

-----------------------------------------------------------------------------
(* Properties *)

AddressesOf(l) == Range(OrdersAt(book_, l))

\* The book is the one the feed describes: queues in time priority, at every
\* moment the best price of each side, and a pool slot for every order until
\* the pool is really full.
FeedBook == INSTANCE LimitOrderBook WITH
    Sides <- Side, Capacity <- PoolCapacity,
    queue <- [l \in Side \X Prices |->
                 LET list == OrdersAt(book_, l)
                 IN  [i \in 1 .. Len(list) |-> [id |-> book_.orders[list[i]].id,
                                                quantity |-> book_.orders[list[i]].quantity]]],
    top <- book_.best
RefinesLimitOrderBook == FeedBook!BookSpec

\* A list is the same in both directions and every order on it points back at
\* its level, which carries its price: remove() relies on all three.  Every link
\* is an order of the pool.
ListsIntact ==
    /\ book_.orders \in [Address -> [id : 0 .. MaxId, side : Side, price : Price, quantity : Nat,
                                     level : Level \cup {NoLevel},
                                     prev : Address \cup {NULL}, next : Address \cup {NULL}]]
    /\ book_.levels \in [Level -> [price : Price, head : Address \cup {NULL},
                                   tail : Address \cup {NULL}, total_quantity : Nat]]
    /\ \A l \in Level :
          /\ OrdersAt(book_, l) = OrdersFromTail(book_, l)
          /\ \A o \in AddressesOf(l) :
                /\ book_.orders[o].level = l
                /\ book_.levels[l].price = l[2]
                /\ <<book_.orders[o].side, book_.orders[o].price>> = l

\* No order is lost or recycled too early: an address is in use, on the list of
\* exactly one level and in the index under its id, or it is free, once.
NoLeak ==
    /\ orderPool_.in_use_ = UNION {AddressesOf(l) : l \in Level}
    /\ orderPool_.in_use_ = Range(book_.index)
    /\ \A id \in DOMAIN book_.index : book_.orders[book_.index[id]].id = id
    /\ Range(orderPool_.free_list_) = Address \ orderPool_.in_use_
    /\ Len(orderPool_.free_list_) = PoolCapacity - Cardinality(orderPool_.in_use_)

\* The bitmaps say which levels have orders, in words and bits as refreshBest
\* searches them.
BitmapMatchesLevels ==
    \A s \in Side :
        {wb[1] * BitsPerBitmapWord + wb[2] :
            wb \in {wb \in Word \X Bit : wb[2] \in book_.bitmap[s][wb[1]]}} = ActivePrices(book_, s)

\* The best bid and ask quantities that the feature extractor reads are the
\* quantities resting at those levels.
BestQuantityIsResting ==
    \A s \in Side :
        LET l == <<s, book_.best[s]>>
        IN  book_.best[s] # 0 =>
                book_.levels[l].total_quantity =
                    Wrap(MapThenSumSet(LAMBDA o : book_.orders[o].quantity, AddressesOf(l)))
=============================================================================
