--------------------------- MODULE ArrayOrderBook ---------------------------
(***************************************************************************)
(* The order book (src/orderbook/software/): ArrayOrderBook, its           *)
(* PriceLevels, and the OrderPool that owns the orders.  Each operation is *)
(* an operator from the state before a call to the state after it, so that *)
(* a handler that makes several calls composes them.                       *)
(*                                                                         *)
(* A book b is a record:                                                   *)
(*   orders   the orders, by address (OrderPool::storage_)                 *)
(*   levels   bid_levels_ and ask_levels_, by <<side, price>>              *)
(*   bitmap   the two level bitmaps: a word is its set of bits             *)
(*   best     best_bid_ and best_ask_; 0 for none                          *)
(*   index    order_index_: a function on the ids present                  *)
(* The linked list of a level runs through the orders' prev and next.      *)
(***************************************************************************)
EXTENDS Integers, Sequences, FiniteSets, FiniteSetsExt, Functions

CONSTANTS PoolCapacity,        \* orders in the pool and ids in the index
          MaxPriceLevels,
          BitsPerBitmapWord,
          QuantityBits         \* width of Quantity

ASSUME BookAssumption ==
    /\ PoolCapacity \in Nat \ {0} /\ MaxPriceLevels \in Nat \ {0}
    /\ BitsPerBitmapWord \in Nat \ {0}
    /\ QuantityBits \in Nat \ {0} /\ 2 ^ QuantityBits > 0

NULL == 0
NoLevel == <<>>
Address == 1 .. PoolCapacity
Side == {"Buy", "Sell"}
Price == 0 .. MaxPriceLevels - 1
Level == Side \X Price
Word == 0 .. ((MaxPriceLevels + BitsPerBitmapWord - 1) \div BitsPerBitmapWord) - 1
Bit == 0 .. BitsPerBitmapWord - 1

\* Unsigned arithmetic on Quantity wraps.
Wrap(n) == n % (2 ^ QuantityBits)

EmptyBook ==
    [orders |-> [o \in Address |->
                    [id |-> 0, side |-> "Buy", price |-> 0, quantity |-> 0,
                     level |-> NoLevel, prev |-> NULL, next |-> NULL]],
     levels |-> [l \in Level |-> [price |-> 0, head |-> NULL, tail |-> NULL, total_quantity |-> 0]],
     bitmap |-> [s \in Side |-> [w \in Word |-> {}]],
     best |-> [s \in Side |-> 0],
     index |-> [id \in {} |-> NULL]]

-----------------------------------------------------------------------------
(* OrderPool: p is a record of free_list_ and the set of addresses in_use_ *)

FullPool == [free_list_ |-> [i \in Address |-> i], in_use_ |-> {}]

\* The order acquire() returns.
Acquired(p) == IF p.free_list_ = <<>> THEN NULL ELSE p.free_list_[Len(p.free_list_)]

acquire(p) ==
    IF p.free_list_ = <<>> THEN p
    ELSE [free_list_ |-> SubSeq(p.free_list_, 1, Len(p.free_list_) - 1),
          in_use_ |-> p.in_use_ \cup {Acquired(p)}]

\* release() after owns(): nullptr and orders already released are ignored.
release(p, o) ==
    IF o \notin p.in_use_ THEN p
    ELSE [free_list_ |-> Append(p.free_list_, o), in_use_ |-> p.in_use_ \ {o}]

-----------------------------------------------------------------------------
(* PriceLevel *)

empty(b, l) == b.levels[l].head = NULL

\* Variant of front: the newest order.
front_newest(b, l) == b.levels[l].tail

front(b, l) == b.levels[l].head

\* Assignments through a pointer that may be nullptr.
SetNext(orders, o, next) == IF o # NULL THEN [orders EXCEPT ![o].next = next] ELSE orders
SetPrev(orders, o, prev) == IF o # NULL THEN [orders EXCEPT ![o].prev = prev] ELSE orders

SetLinks(orders, o, l, prev, next) ==
    [orders EXCEPT ![o] = [@ EXCEPT !.level = l, !.prev = prev, !.next = next]]

push_back(b, l, o) ==
    LET tail == b.levels[l].tail
    IN  [b EXCEPT
           !.orders = SetNext(SetLinks(@, o, l, tail, NULL), tail, o),
           !.levels[l] = [price |-> @.price,
                          head |-> IF tail # NULL THEN @.head ELSE o,
                          tail |-> o,
                          total_quantity |-> Wrap(@.total_quantity + b.orders[o].quantity)]]

\* A level after an order has left it.
LevelWithout(level, order) ==
    [price |-> level.price,
     head |-> IF order.prev # NULL THEN level.head ELSE order.next,
     tail |-> IF order.next # NULL THEN level.tail ELSE order.prev,
     total_quantity |-> Wrap(level.total_quantity - order.quantity)]

\* Variant: the next order keeps its link to the removed one.
remove_oneWay(b, l, o) ==
    [b EXCEPT
       !.orders = SetLinks(SetNext(@, @[o].prev, @[o].next), o, NoLevel, NULL, NULL),
       !.levels[l] = LevelWithout(@, b.orders[o])]

remove(b, l, o) ==
    LET prev == b.orders[o].prev
        next == b.orders[o].next
    IN  [b EXCEPT
           !.orders = SetLinks(SetPrev(SetNext(@, prev, next), next, prev), o, NoLevel, NULL, NULL),
           !.levels[l] = LevelWithout(@, b.orders[o])]

-----------------------------------------------------------------------------
(* The bitmaps *)

WordOf(price) == price \div BitsPerBitmapWord
BitOf(price) == price % BitsPerBitmapWord

setLevelActive(b, s, price) == [b EXCEPT !.bitmap[s][WordOf(price)] = @ \cup {BitOf(price)}]

\* Variant: the bit is searched in the first word.
clearLevelActive_firstWord(b, s, price) == [b EXCEPT !.bitmap[s][0] = @ \ {BitOf(price)}]

clearLevelActive(b, s, price) == [b EXCEPT !.bitmap[s][WordOf(price)] = @ \ {BitOf(price)}]

\* Variant: every word is masked.
refreshBestBid_maskAll(b) ==
    LET first == WordOf(b.best["Buy"])
        Masked(w) == {bit \in b.bitmap["Buy"][w] : bit < BitOf(b.best["Buy"])}
        words == {w \in 0 .. first : Masked(w) # {}}
    IN  IF b.best["Buy"] = 0 THEN b
        ELSE [b EXCEPT !.best["Buy"] =
                 IF words = {} THEN 0
                 ELSE Max(words) * BitsPerBitmapWord + Max(Masked(Max(words)))]

\* The word of the best price masked to the prices below it (lowerBitsMask),
\* then the words below that one, down to the first that is not zero.
refreshBestBid(b) ==
    LET first == WordOf(b.best["Buy"])
        Masked(w) == {bit \in b.bitmap["Buy"][w] : w = first => bit < BitOf(b.best["Buy"])}
        words == {w \in 0 .. first : Masked(w) # {}}
    IN  IF b.best["Buy"] = 0 THEN b
        ELSE [b EXCEPT !.best["Buy"] =
                 IF words = {} THEN 0
                 ELSE Max(words) * BitsPerBitmapWord + Max(Masked(Max(words)))]

\* Likewise upwards, from the bits above the best price.
refreshBestAsk(b) ==
    LET first == WordOf(b.best["Sell"])
        Masked(w) == {bit \in b.bitmap["Sell"][w] : w = first => bit >= BitOf(b.best["Sell"]) + 1}
        words == {w \in Word : w >= first /\ Masked(w) # {}}
    IN  IF b.best["Sell"] = 0 THEN b
        ELSE [b EXCEPT !.best["Sell"] =
                 IF words = {} THEN 0
                 ELSE Min(words) * BitsPerBitmapWord + Min(Masked(Min(words)))]

-----------------------------------------------------------------------------
(* ArrayOrderBook *)

\* order_index_.insert: its result is ignored.
IndexInsert(b, id, o) ==
    IF id \in DOMAIN b.index \/ Cardinality(DOMAIN b.index) < PoolCapacity
    THEN [b EXCEPT !.index = [x \in DOMAIN @ \cup {id} |-> IF x = id THEN o ELSE @[x]]]
    ELSE b

BetterPrice(side, price, best) ==
    best = 0 \/ (IF side = "Buy" THEN price > best ELSE price < best)

\* The first order at a price makes its level active.
Activate(b, l) ==
    IF empty(b, l) THEN setLevelActive([b EXCEPT !.levels[l].price = l[2]], l[1], l[2]) ELSE b

\* A better price becomes the best.
Improve(b, l) ==
    IF BetterPrice(l[1], l[2], b.best[l[1]]) THEN [b EXCEPT !.best[l[1]] = l[2]] ELSE b

addOrder(b, o) ==
    LET l == <<b.orders[o].side, b.orders[o].price>>
    IN  IndexInsert(Improve(push_back(Activate(b, l), l, o), l), b.orders[o].id, o)

\* The order cancelOrder(id) returns.
Cancelled(b, id) == IF id \in DOMAIN b.index THEN b.index[id] ELSE NULL

\* The last order of a price has left its level.
Deactivate(b, side, price) ==
    LET cleared == clearLevelActive(b, side, price)
    IN  IF price # b.best[side] THEN cleared
        ELSE IF side = "Buy" THEN refreshBestBid(cleared) ELSE refreshBestAsk(cleared)

Leave(b, l, o) ==
    LET removed == remove(b, l, o)
    IN  IF empty(removed, l) THEN Deactivate(removed, b.orders[o].side, b.orders[o].price)
        ELSE removed

cancelOrder(b, id) ==
    IF id \notin DOMAIN b.index THEN b
    ELSE [Leave(b, b.orders[b.index[id]].level, b.index[id]) EXCEPT
             !.index = Restrict(@, DOMAIN @ \ {id})]

\* reduceOrder acts only on a known order and a quantity it has left.
Reducible(b, id, quantity) ==
    id \in DOMAIN b.index /\ quantity > 0 /\ quantity <= b.orders[b.index[id]].quantity

\* removed_order of the result.
Reduced(b, id, quantity) ==
    IF Reducible(b, id, quantity) /\ quantity = b.orders[b.index[id]].quantity
    THEN b.index[id] ELSE NULL

\* A partial reduction leaves the level's total_quantity as it was.
reduceOrder(b, id, quantity) ==
    IF ~Reducible(b, id, quantity) THEN b
    ELSE IF quantity = b.orders[b.index[id]].quantity THEN cancelOrder(b, id)
    ELSE [b EXCEPT !.orders[b.index[id]].quantity = @ - quantity]

executeOrder(b, id, quantity) == reduceOrder(b, id, quantity)

Replaceable(b, id, newId, quantity) ==
    /\ newId # 0 /\ quantity # 0 /\ newId # id
    /\ newId \notin DOMAIN b.index
    /\ id \in DOMAIN b.index

\* The order keeps its address and side and joins the queue of its new price.
replaceOrder(b, id, newId, quantity, price) ==
    LET o == b.index[id]
        Changed(order) == [id |-> newId, side |-> order.side, price |-> price, quantity |-> quantity,
                           level |-> NoLevel, prev |-> NULL, next |-> NULL]
    IN  IF ~Replaceable(b, id, newId, quantity) THEN b
        ELSE addOrder([cancelOrder(b, id) EXCEPT !.orders[o] = Changed(@)], o)

-----------------------------------------------------------------------------
(* Reading a book *)

\* The orders passed on the way from o along a link, and one more unless it is NULL.
Further(o, link) ==
    [passed \in Seq(Address) |->
        LET x == IF passed = <<>> THEN o ELSE link[passed[Len(passed)]]
        IN  IF x = NULL THEN passed ELSE Append(passed, x)]

\* All of them; a list that does not end is cut off after more orders than there are.
Walk(o, link) ==
    LET path[n \in 0 .. PoolCapacity + 1] == IF n = 0 THEN <<>> ELSE Further(o, link)[path[n - 1]]
    IN  IF o = NULL THEN <<>> ELSE path[PoolCapacity + 1]

\* The addresses on the list of level l, from head along next.
OrdersAt(b, l) == Walk(b.levels[l].head, [o \in Address |-> b.orders[o].next])

\* The same list read from tail along prev, turned round.
OrdersFromTail(b, l) ==
    LET list == Walk(b.levels[l].tail, [o \in Address |-> b.orders[o].prev])
    IN  [i \in 1 .. Len(list) |-> list[Len(list) + 1 - i]]

ActivePrices(b, s) == {price \in Price : ~empty(b, <<s, price>>)}
=============================================================================
