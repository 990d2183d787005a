--------------------------- MODULE LimitOrderBook ---------------------------
(***************************************************************************)
(* What a book built from a market-data feed promises: at every price of   *)
(* each side a first-in first-out queue of orders, the best price of each  *)
(* side, and room for Capacity orders.                                     *)
(***************************************************************************)
EXTENDS Integers, Sequences, FiniteSetsExt

CONSTANTS Sides, Prices, Quantities, Ids,
          Capacity      \* resting orders the book has room for

VARIABLES queue,        \* the orders [id, quantity] at each <<side, price>>, oldest first
          top           \* the best price of each side; 0 for none

bookVars == <<queue, top>>

\* The highest bid, the lowest ask.
Best(q, s) ==
    LET active == {price \in Prices : q[<<s, price>>] # <<>>}
    IN  IF active = {} THEN 0 ELSE IF s = "Buy" THEN Max(active) ELSE Min(active)

BookInit ==
    /\ queue = [l \in Sides \X Prices |-> <<>>]
    /\ top = [s \in Sides |-> 0]

-----------------------------------------------------------------------------
(* Steps from the queues q to the queues r *)

Places(q) == UNION {{<<l, i>> : i \in 1 .. Len(q[l])} : l \in DOMAIN q}
OrderAt(q, place) == q[place[1]][place[2]]
Without(q, place) ==
    [q EXCEPT ![place[1]] = SubSeq(@, 1, place[2] - 1) \o SubSeq(@, place[2] + 1, Len(@))]

Newest(list) == list[Len(list)]

\* One more order, last in the queue l.
Joins(q, r, l) ==
    /\ r[l] # <<>>
    /\ Newest(r[l]).id \in Ids /\ Newest(r[l]).quantity \in Quantities
    /\ r = [q EXCEPT ![l] = Append(@, Newest(r[l]))]

\* A new order joins the queue of its price while there is room.
Add(q, r) ==
    /\ Cardinality(Places(q)) < Capacity
    /\ \E l \in DOMAIN q : Joins(q, r, l)

Delete(q, r, place) == r = Without(q, place)

\* A reduced order keeps its place until nothing is left of it.
Reduce(q, r, place) ==
    \E quantity \in Quantities :
        LET left == OrderAt(q, place).quantity - quantity
        IN  /\ quantity > 0 /\ left >= 0
            /\ r = IF left = 0 THEN Without(q, place)
                   ELSE [q EXCEPT ![place[1]][place[2]].quantity = left]

\* A replacement has an id that is not resting and loses its place: it queues
\* behind the orders at its new price.
Replace(q, r, place) ==
    \E price \in Prices :
        LET l == <<place[1][1], price>>
        IN  /\ Joins(Without(q, place), r, l)
            /\ Newest(r[l]).quantity > 0
            /\ \A other \in Places(q) : OrderAt(q, other).id # Newest(r[l]).id

\* An event for an order that is not there, or one that is not valid, changes
\* nothing.  (q and r are bound so that each is computed once in a step.)
BookNext ==
    \E q \in {queue}, r \in {queue'} :
        /\ \/ r = q
           \/ Add(q, r)
           \/ \E place \in Places(q) :
                 Delete(q, r, place) \/ Reduce(q, r, place) \/ Replace(q, r, place)
        /\ top' = [s \in Sides |-> Best(r, s)]

BookSpec == BookInit /\ [][BookNext]_bookVars
=============================================================================
