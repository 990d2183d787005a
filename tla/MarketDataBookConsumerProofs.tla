-------------------- MODULE MarketDataBookConsumerProofs --------------------
(***************************************************************************)
(* Proofs about MarketDataBookConsumer, for every size of the pool, of the *)
(* book and of its bitmap words, every set of prices and quantities and    *)
(* every number of orders.                                                 *)
(***************************************************************************)
EXTENDS MarketDataBookConsumer, ArrayOrderBookProofs

-----------------------------------------------------------------------------
(* Types *)

Link == Address \cup {NULL}

OrderRecord == [id : 0 .. MaxId, side : Side, price : Price, quantity : Nat,
                level : Level \cup {NoLevel}, prev : Link, next : Link]

LevelRecord == [price : Price, head : Link, tail : Link, total_quantity : Nat]

Typed(b) == b.orders \in [Address -> OrderRecord] /\ b.levels \in [Level -> LevelRecord]

LEMMA WrapType == ASSUME NEW n \in Int PROVE Wrap(n) \in Nat
<1>1. PICK m \in Int : m = 2 ^ QuantityBits /\ m > 0
  BY BookAssumption
<1>2. n % m \in Nat
  BY <1>1
<1> QED BY <1>1, <1>2 DEF Wrap

LEMMA LinksType ==
    ASSUME NEW orders \in [Address -> OrderRecord], NEW o \in Link, NEW x \in Link
    PROVE  /\ SetNext(orders, o, x) \in [Address -> OrderRecord]
           /\ SetPrev(orders, o, x) \in [Address -> OrderRecord]
<1>1. CASE o = NULL
  BY <1>1 DEF SetNext, SetPrev
<1>2. CASE o # NULL
  <2>1. o \in Address /\ orders[o] \in OrderRecord
    BY <1>2 DEF Link
  <2>2. [orders[o] EXCEPT !.next = x] \in OrderRecord /\ [orders[o] EXCEPT !.prev = x] \in OrderRecord
    BY <2>1 DEF OrderRecord
  <2> QED BY <1>2, <2>1, <2>2 DEF SetNext, SetPrev
<1> QED BY <1>1, <1>2

LEMMA SetLinksType ==
    ASSUME NEW orders \in [Address -> OrderRecord], NEW o \in Address,
           NEW l \in Level \cup {NoLevel}, NEW prev \in Link, NEW next \in Link
    PROVE  SetLinks(orders, o, l, prev, next) \in [Address -> OrderRecord]
<1>1. [orders[o] EXCEPT !.level = l, !.prev = prev, !.next = next] \in OrderRecord
  BY Zenon DEF OrderRecord
<1> QED BY <1>1 DEF SetLinks

LEMMA ActivateType ==
    ASSUME NEW b, Shape(b), Typed(b), NEW l \in Level
    PROVE  LET a == Activate(b, l) IN Typed(a) /\ Shape(a) /\ a.orders = b.orders
<1>1. PICK a : a = Activate(b, l)
  OBVIOUS
<1>2. l[2] \in Price
  BY LevelParts
<1>3. /\ DOMAIN a = DOMAIN b /\ a.orders = b.orders
      /\ a.levels = b.levels \/ a.levels = [b.levels EXCEPT ![l].price = l[2]]
  BY <1>1 DEF Activate, setLevelActive, Shape
<1>4. [b.levels[l] EXCEPT !.price = l[2]] \in LevelRecord
  BY <1>2 DEF Typed, LevelRecord
<1>5. a.levels \in [Level -> LevelRecord]
  BY <1>3, <1>4 DEF Typed
<1>6. \A m \in Level : LevelFields \subseteq DOMAIN a.levels[m]
  BY <1>5 DEF LevelRecord, LevelFields
<1> QED BY <1>1, <1>3, <1>5, <1>6 DEF Typed, Shape

LEMMA PushBackType ==
    ASSUME NEW b, Shape(b), Typed(b), NEW l \in Level, NEW o \in Address
    PROVE  Typed(push_back(b, l, o))
<1>1. PICK c, tail : c = push_back(b, l, o) /\ tail = b.levels[l].tail
  OBVIOUS
<1>2. /\ tail \in Link /\ o \in Link /\ NULL \in Link /\ b.levels[l].head \in Link
      /\ b.levels[l].price \in Price
      /\ b.levels[l].total_quantity \in Nat /\ b.orders[o].quantity \in Nat
  BY <1>1 DEF Typed, LevelRecord, OrderRecord, Link
<1>3. PICK linked \in [Address -> OrderRecord] : linked = SetLinks(b.orders, o, l, tail, NULL)
  BY <1>2, SetLinksType DEF Typed
<1>4. c.orders = SetNext(linked, tail, o)
  BY <1>1, <1>3 DEF push_back, Shape
<1>5. c.orders \in [Address -> OrderRecord]
  BY <1>2, <1>3, <1>4, LinksType
<1>6. PICK total \in Nat : total = Wrap(b.levels[l].total_quantity + b.orders[o].quantity)
  BY <1>2, WrapType
<1>7. PICK level :
         level = [price |-> b.levels[l].price, head |-> IF tail # NULL THEN b.levels[l].head ELSE o,
                  tail |-> o, total_quantity |-> total]
  BY Zenon
<1>10. level \in LevelRecord
  BY <1>2, <1>7 DEF LevelRecord
<1>8. c.levels = [b.levels EXCEPT ![l] = level]
  BY <1>1, <1>6, <1>7 DEF push_back, Shape
<1>9. c.levels \in [Level -> LevelRecord]
  BY <1>8, <1>10 DEF Typed
<1> QED BY <1>1, <1>5, <1>9 DEF Typed

LEMMA RemoveType ==
    ASSUME NEW b, Shape(b), Typed(b), NEW l \in Level, NEW o \in Address
    PROVE  Typed(remove(b, l, o))
<1>1. PICK c, prev, next : c = remove(b, l, o) /\ prev = b.orders[o].prev /\ next = b.orders[o].next
  OBVIOUS
<1>2. /\ prev \in Link /\ next \in Link /\ NULL \in Link /\ b.levels[l].head \in Link
      /\ b.levels[l].tail \in Link /\ b.levels[l].price \in Price
      /\ b.levels[l].total_quantity \in Nat /\ b.orders[o].quantity \in Nat
  BY <1>1 DEF Typed, LevelRecord, OrderRecord, Link
<1>3. PICK forward \in [Address -> OrderRecord] : forward = SetNext(b.orders, prev, next)
  BY <1>2, LinksType DEF Typed
<1>4. PICK unlinked \in [Address -> OrderRecord] : unlinked = SetPrev(forward, next, prev)
  BY <1>2, <1>3, LinksType
<1>5. c.orders = SetLinks(unlinked, o, NoLevel, NULL, NULL)
  <2>1. c.orders = SetLinks(SetPrev(SetNext(b.orders, b.orders[o].prev, b.orders[o].next),
                                    b.orders[o].next, b.orders[o].prev), o, NoLevel, NULL, NULL)
    BY <1>1 DEF remove, Shape
  <2> QED BY <1>1, <1>3, <1>4, <2>1
<1>6. c.orders \in [Address -> OrderRecord]
  <2>1. NoLevel \in Level \cup {NoLevel}
    OBVIOUS
  <2>2. SetLinks(unlinked, o, NoLevel, NULL, NULL) \in [Address -> OrderRecord]
    BY ONLY <1>2, <1>4, <2>1, o \in Address, SetLinksType, Zenon
  <2> QED BY <1>5, <2>2
<1>7. PICK total \in Nat : total = Wrap(b.levels[l].total_quantity - b.orders[o].quantity)
  BY <1>2, WrapType
<1>8. PICK level : level = LevelWithout(b.levels[l], b.orders[o])
  OBVIOUS
<1>9. level \in LevelRecord
  BY <1>1, <1>2, <1>7, <1>8 DEF LevelWithout, LevelRecord
<1>10. c.levels = [b.levels EXCEPT ![l] = level]
  BY <1>1, <1>8 DEF remove, Shape
<1>11. c.levels \in [Level -> LevelRecord]
  BY <1>9, <1>10 DEF Typed
<1> QED BY <1>1, <1>6, <1>11 DEF Typed

-----------------------------------------------------------------------------
(* The inductive invariant *)

\* The book b, the pool p and the last id n agree with the queues q: an order is
\* in use while it is in a queue, its id is one the feed has used, and only the
\* levels of prices of the feed have orders.
Consistent(b, p, n, q) ==
    /\ Sound(b, q) /\ Typed(b) /\ PoolSound(p)
    /\ \A o \in Address : o \in p.in_use_ <=> On(q, o)
    /\ n \in 0 .. MaxId /\ DOMAIN b.index \subseteq 1 .. n
    /\ \A l \in Level : Len(q[l]) # 0 => l[2] \in Prices

Lists(b) == [l \in Level |-> OrdersAt(b, l)]

BookInv == Consistent(book_, orderPool_, lastId, Lists(book_))

LEMMA SoundLists ==
    ASSUME NEW b, NEW q, Sound(b, q)
    PROVE  q = Lists(b) /\ \A l \in Level : OrdersAt(b, l) = q[l] /\ OrdersFromTail(b, l) = q[l]
<1>1. \A l \in Level : OrdersAt(b, l) = q[l] /\ OrdersFromTail(b, l) = q[l]
  BY ReadLists DEF Sound
<1>2. q = [l \in Level |-> q[l]]
  BY DEF Sound, Queues
<1> QED BY <1>1, <1>2 DEF Lists

LEMMA InitConsistent == Consistent(EmptyBook, FullPool, 0, NoOrders)
<1>1. Sound(EmptyBook, NoOrders) /\ \A o : ~On(NoOrders, o)
  BY EmptyBookSound
<1>2. PoolSound(FullPool) /\ FullPool.in_use_ = {}
  BY FullPoolSound
<1>3. Typed(EmptyBook)
  <2>1. [id |-> 0, side |-> "Buy", price |-> 0, quantity |-> 0,
         level |-> NoLevel, prev |-> NULL, next |-> NULL] \in OrderRecord
    BY BookAssumption, FeedAssumption DEF OrderRecord, Side, Price, Link
  <2>2. [price |-> 0, head |-> NULL, tail |-> NULL, total_quantity |-> 0] \in LevelRecord
    BY BookAssumption, FeedAssumption DEF LevelRecord, Price, Link
  <2> QED BY <2>1, <2>2 DEF EmptyBook, Typed
<1>4. \A l \in Level : Len(NoOrders[l]) = 0
  BY DEF NoOrders
<1>5. DOMAIN EmptyBook.index = {} /\ 0 \in 0 .. MaxId
  BY FeedAssumption DEF EmptyBook
<1> QED BY <1>1, <1>2, <1>3, <1>4, <1>5 DEF Consistent

-----------------------------------------------------------------------------
(* What an order that joins or leaves a queue changes *)

Id(b, o) == b.orders[o].id
Quantity(b, o) == b.orders[o].quantity

\* From b to c order o, filled in as record, has joined the end of its queue.
Joins(b, c, q, o, record) ==
    /\ Sound(c, Joined(q, <<record.side, record.price>>, o)) /\ Typed(c)
    /\ DOMAIN c.index = DOMAIN b.index \cup {record.id}
    /\ \A x \in Address : /\ Id(c, x) = IF x = o THEN record.id ELSE Id(b, x)
                          /\ Quantity(c, x) = IF x = o THEN record.quantity ELSE Quantity(b, x)

LEMMA FillAndAdd ==
    ASSUME NEW b, NEW q, Sound(b, q), Typed(b), NEW o \in Address, ~On(q, o), NEW record \in OrderRecord,
           record.price # 0, record.id \notin DOMAIN b.index,
           NEW filled, filled = [b EXCEPT !.orders[o] = record]
    PROVE  Joins(b, addOrder(filled, o), q, o, record)
<1>1. /\ DOMAIN filled = DOMAIN b /\ filled.levels = b.levels /\ filled.bitmap = b.bitmap
      /\ filled.best = b.best /\ filled.index = b.index
      /\ filled.orders = [b.orders EXCEPT ![o] = record]
  BY DEF Sound, Shape
<1>2. /\ filled.orders \in [Address -> OrderRecord] /\ filled.orders[o] = record
      /\ \A x \in Address \ {o} : filled.orders[x] = b.orders[x]
  BY <1>1 DEF Typed
<1>3. Typed(filled)
  BY <1>1, <1>2 DEF Typed
<1>4. Shape(filled)
  <2>1. \A x \in Address : OrderFields \subseteq DOMAIN filled.orders[x]
    BY <1>2 DEF OrderRecord, OrderFields
  <2> QED BY <1>1, <1>2, <2>1 DEF Sound, Shape
<1>5. Agree(b, filled, q)
  BY <1>1, <1>2, <1>4 DEF Agree
<1>6. Sound(filled, q)
  BY <1>5, AgreeSound
<1>7. PICK l \in Level : l = <<record.side, record.price>> /\ l[2] # 0
  <2>1. PICK s \in Side, p \in Price : s = record.side /\ p = record.price
    BY DEF OrderRecord
  <2>2. <<s, p>> \in Level /\ <<s, p>>[2] # 0
    BY <2>1, LevelParts
  <2> QED BY <2>1, <2>2
<1>8. PICK c : c = addOrder(filled, o)
  OBVIOUS
<1>9. Added(filled, c, q, l, o)
  BY <1>1, <1>2, <1>6, <1>7, <1>8, AddSound, Zenon
<1>10. Typed(c)
  <2>1. PICK a : a = Activate(filled, l)
    OBVIOUS
  <2>2. Typed(a) /\ Shape(a)
    BY <1>3, <1>4, <2>1, ActivateType
  <2>3. Typed(push_back(a, l, o))
    BY <2>2, PushBackType
  <2> QED BY <1>9, <2>1, <2>3 DEF Typed, Added
<1>11. DOMAIN c.index = DOMAIN b.index \cup {record.id}
  BY <1>1, <1>2, <1>9 DEF Added
<1>12. ASSUME NEW x \in Address
       PROVE  c.orders[x].id = filled.orders[x].id /\ c.orders[x].quantity = filled.orders[x].quantity
  <2>1. SameData(filled, c)
    BY <1>9 DEF Added
  <2>2. OrderFields \subseteq DOMAIN filled.orders[x]
    BY <1>4, <1>12 DEF Shape
  <2> QED BY <1>12, <2>1, <2>2 DEF SameData, OrderFields, LinkFields
<1>13. ASSUME NEW x \in Address
       PROVE  /\ Id(c, x) = IF x = o THEN record.id ELSE Id(b, x)
              /\ Quantity(c, x) = IF x = o THEN record.quantity ELSE Quantity(b, x)
  BY <1>2, <1>12, <1>13 DEF Id, Quantity
<1> QED BY <1>7, <1>8, <1>9, <1>10, <1>11, <1>13 DEF Joins, Added

\* From b to c the order of id, in place i of the queue of l, has left.
Leaves(b, c, q, l, i, id) ==
    /\ Sound(c, LeftBy(q, l, i)) /\ Typed(c)
    /\ DOMAIN c.index = DOMAIN b.index \ {id}
    /\ \A x \in Address : /\ Id(c, x) = Id(b, x) /\ Quantity(c, x) = Quantity(b, x)
                          /\ c.orders[x].side = b.orders[x].side

LEMMA TakeAway ==
    ASSUME NEW b, NEW q, Sound(b, q), Typed(b), NEW id \in DOMAIN b.index
    PROVE  \E l \in Level : \E i \in 1 .. Len(q[l]) :
              q[l][i] = b.index[id] /\ Leaves(b, cancelOrder(b, id), q, l, i, id)
<1>1. On(q, b.index[id])
  BY DEF Sound, Indexed
<1>2. PICK l \in Level : \E i \in 1 .. Len(q[l]) : q[l][i] = b.index[id]
  BY <1>1 DEF On
<1>3. PICK i \in 1 .. Len(q[l]) : q[l][i] = b.index[id]
  BY <1>2
<1>4. PICK c : c = cancelOrder(b, id)
  OBVIOUS
<1>5. Withdrawn(b, c, q, l, i, id)
  BY <1>3, <1>4, CancelSound
<1>6. Typed(c)
  <2>1. q[l][i] \in Address
    BY <1>3 DEF Sound, Indexed
  <2>2. Typed(remove(b, l, q[l][i]))
    BY <2>1, RemoveType DEF Sound
  <2> QED BY <1>5, <2>2 DEF Withdrawn, Typed
<1>7. ASSUME NEW x \in Address
      PROVE  /\ Id(c, x) = Id(b, x) /\ Quantity(c, x) = Quantity(b, x)
             /\ c.orders[x].side = b.orders[x].side
  <2>1. SameData(b, c)
    BY <1>5 DEF Withdrawn
  <2>2. OrderFields \subseteq DOMAIN b.orders[x]
    BY <1>7 DEF Sound, Shape
  <2> QED BY <1>7, <2>1, <2>2 DEF SameData, OrderFields, LinkFields, Id, Quantity
<1> QED BY <1>3, <1>4, <1>5, <1>6, <1>7 DEF Leaves, Withdrawn

-----------------------------------------------------------------------------
(* The steps keep the invariant *)

LEMMA AddConsistent ==
    ASSUME NEW b, NEW p, NEW n, NEW q, Consistent(b, p, n, q), n + 1 \in Ids,
           NEW side \in Side, NEW price \in Prices, NEW quantity \in Quantities,
           NEW o, o = Acquired(p), o # NULL, NEW record,
           record = [id |-> n + 1, side |-> side, price |-> price, quantity |-> quantity,
                     level |-> NoLevel, prev |-> NULL, next |-> NULL],
           NEW c, c = addOrder([b EXCEPT !.orders[o] = record], o)
    PROVE  /\ o \in Address /\ ~On(q, o) /\ Joins(b, c, q, o, record)
           /\ Consistent(c, acquire(p), n + 1, Joined(q, <<side, price>>, o))
<1>1. /\ Sound(b, q) /\ Typed(b) /\ PoolSound(p) /\ \A x \in Address : x \in p.in_use_ <=> On(q, x)
      /\ n \in 0 .. MaxId /\ DOMAIN b.index \subseteq 1 .. n
  BY DEF Consistent
<1>2. PICK pool : pool = acquire(p)
  OBVIOUS
<1>3. PoolSound(pool) /\ o \in Address \ p.in_use_ /\ pool.in_use_ = p.in_use_ \cup {o}
  BY <1>1, <1>2, AcquireSound
<1>4. ~On(q, o)
  BY <1>1, <1>3
<1>5. price \in Price /\ price # 0 /\ quantity \in Nat
  BY FeedAssumption
<1>6. record \in OrderRecord
  BY <1>5 DEF OrderRecord, Ids, Link
<1>7. n + 1 \in 1 .. MaxId /\ n + 1 \notin 1 .. n /\ n + 1 \in 0 .. MaxId /\ 1 .. n \subseteq 1 .. n + 1
      /\ n + 1 \in 1 .. n + 1
  BY <1>1 DEF Ids
<1>8. record.price # 0 /\ record.id \notin DOMAIN b.index
  BY <1>1, <1>5, <1>7
<1>9. Joins(b, c, q, o, record)
  BY <1>1, <1>3, <1>4, <1>6, <1>8, FillAndAdd
<1>10. PICK l \in Level : l = <<side, price>> /\ l[2] = price
  BY <1>5, LevelParts, Zenon
<1>11. PICK r : r = Joined(q, l, o)
  OBVIOUS
<1>12. Sound(c, r) /\ Typed(c) /\ DOMAIN c.index = DOMAIN b.index \cup {n + 1}
  BY <1>9, <1>10, <1>11 DEF Joins
<1>13. \A x \in Address : x \in pool.in_use_ <=> On(r, x)
  BY <1>1, <1>3, <1>4, <1>11, JoinedQueues DEF Sound
<1>14. DOMAIN c.index \subseteq 1 .. n + 1
  BY <1>1, <1>7, <1>12
<1>15. ASSUME NEW m \in Level, Len(r[m]) # 0 PROVE m[2] \in Prices
  <2>1. m # l => r[m] = q[m]
    BY <1>1, <1>11, <1>15 DEF Joined, Sound, Queues
  <2> QED BY <1>10, <1>15, <2>1 DEF Consistent
<1>16. Consistent(c, pool, n + 1, r)
  BY <1>3, <1>7, <1>12, <1>13, <1>14, <1>15 DEF Consistent
<1> QED BY <1>2, <1>3, <1>4, <1>9, <1>10, <1>11, <1>16

LEMMA DropConsistent ==
    ASSUME NEW b, NEW p, NEW n, NEW q, Consistent(b, p, n, q), n + 1 \in Ids, Acquired(p) = NULL
    PROVE  Consistent(b, acquire(p), n + 1, q)
<1>1. p.free_list_ = <<>>
  <2>1. p.free_list_ \in Seq(Address)
    BY DEF Consistent, PoolSound
  <2>2. p.free_list_ # <<>> => p.free_list_[Len(p.free_list_)] \in Address
    BY <2>1
  <2> QED BY <2>2, BookAssumption DEF Acquired, Address, NULL
<1>2. acquire(p) = p
  BY <1>1 DEF acquire
<1>3. n + 1 \in 0 .. MaxId /\ DOMAIN b.index \subseteq 1 .. n + 1
  BY DEF Consistent, Ids
<1> QED BY <1>2, <1>3 DEF Consistent

LEMMA LeftConsistent ==
    ASSUME NEW b, NEW p, NEW n, NEW q, Consistent(b, p, n, q), NEW id \in DOMAIN b.index,
           NEW o, o = b.index[id], NEW l \in Level, NEW i \in 1 .. Len(q[l]), q[l][i] = o,
           NEW c, Leaves(b, c, q, l, i, id)
    PROVE  Consistent(c, release(p, o), n, LeftBy(q, l, i))
<1>1. /\ Sound(b, q) /\ Typed(b) /\ PoolSound(p) /\ \A x \in Address : x \in p.in_use_ <=> On(q, x)
      /\ n \in 0 .. MaxId /\ DOMAIN b.index \subseteq 1 .. n
  BY DEF Consistent
<1>2. o \in Address /\ On(q, o)
  BY <1>1 DEF Sound, Indexed
<1>3. PICK pool : pool = release(p, o)
  OBVIOUS
<1>4. PoolSound(pool) /\ pool.in_use_ = p.in_use_ \ {o}
  BY <1>1, <1>2, <1>3, ReleaseSound
<1>5. PICK r : r = LeftBy(q, l, i)
  OBVIOUS
<1>6. \A x \in Address : x \in pool.in_use_ <=> On(r, x)
  BY <1>1, <1>4, <1>5, CutQueues DEF Sound
<1>7. Sound(c, r) /\ Typed(c) /\ DOMAIN c.index \subseteq 1 .. n
  BY <1>1, <1>5 DEF Leaves
<1>8. ASSUME NEW m \in Level, Len(r[m]) # 0 PROVE m[2] \in Prices
  <2>1. m # l => r[m] = q[m]
    BY <1>1, <1>5, <1>8 DEF LeftBy, Sound, Queues
  <2>2. Len(q[l]) # 0
    BY <1>1 DEF Sound, Queues
  <2> QED BY <1>8, <2>1, <2>2 DEF Consistent
<1> QED BY <1>1, <1>3, <1>4, <1>5, <1>6, <1>7, <1>8 DEF Consistent

\* A partial reduction.
LEMMA ReduceConsistent ==
    ASSUME NEW b, NEW p, NEW n, NEW q, Consistent(b, p, n, q), NEW o \in Address, NEW quantity \in Nat,
           quantity < b.orders[o].quantity, NEW c, c = [b EXCEPT !.orders[o].quantity = @ - quantity]
    PROVE  /\ Consistent(c, p, n, q)
           /\ \A x \in Address :
                 /\ Id(c, x) = Id(b, x)
                 /\ Quantity(c, x) = IF x = o THEN Quantity(b, x) - quantity ELSE Quantity(b, x)
<1>1. Sound(b, q) /\ Typed(b)
  BY DEF Consistent
<1>2. PICK left \in Nat : left = b.orders[o].quantity - quantity
  BY <1>1 DEF Typed, OrderRecord
<1>3. PICK record : record = [b.orders[o] EXCEPT !.quantity = left]
  BY Zenon
<1>4. /\ record \in OrderRecord /\ record.quantity = left /\ record.id = b.orders[o].id
      /\ record.side = b.orders[o].side /\ record.price = b.orders[o].price
      /\ record.level = b.orders[o].level /\ record.prev = b.orders[o].prev
      /\ record.next = b.orders[o].next
  BY <1>1, <1>3 DEF Typed, OrderRecord
<1>5. /\ DOMAIN c = DOMAIN b /\ c.levels = b.levels /\ c.bitmap = b.bitmap
      /\ c.best = b.best /\ c.index = b.index
      /\ c.orders = [b.orders EXCEPT ![o] = record]
  BY <1>1, <1>2, <1>3 DEF Sound, Shape
<1>6. /\ c.orders \in [Address -> OrderRecord] /\ c.orders[o] = record
      /\ \A x \in Address \ {o} : c.orders[x] = b.orders[x]
  BY <1>1, <1>4, <1>5 DEF Typed
<1>7. Shape(c)
  <2>1. \A x \in Address : OrderFields \subseteq DOMAIN c.orders[x]
    BY <1>6 DEF OrderRecord, OrderFields
  <2> QED BY <1>1, <1>5, <1>6, <2>1 DEF Sound, Shape
<1>8. Agree(b, c, q)
  BY <1>4, <1>5, <1>6, <1>7 DEF Agree
<1>9. Sound(c, q)
  BY <1>1, <1>8, AgreeSound
<1>10. Typed(c)
  BY <1>1, <1>5, <1>6 DEF Typed
<1>11. Consistent(c, p, n, q)
  BY <1>5, <1>9, <1>10 DEF Consistent
<1> QED BY <1>2, <1>4, <1>6, <1>11 DEF Id, Quantity

\* From b to c the order in place i of the queue of l has a new id, price and
\* quantity and has joined the end of its new queue.
Moves(b, c, q, l, i, newId, quantity, price) ==
    /\ Sound(c, Joined(LeftBy(q, l, i), <<l[1], price>>, q[l][i])) /\ Typed(c)
    /\ \A x \in Address : /\ Id(c, x) = IF x = q[l][i] THEN newId ELSE Id(b, x)
                          /\ Quantity(c, x) = IF x = q[l][i] THEN quantity ELSE Quantity(b, x)

LEMMA ReplaceConsistent ==
    ASSUME NEW b, NEW p, NEW n, NEW q, Consistent(b, p, n, q), n + 1 \in Ids, NEW id \in DOMAIN b.index,
           NEW price \in Prices, NEW quantity \in Quantities, quantity # 0,
           NEW c, c = replaceOrder(b, id, n + 1, quantity, price)
    PROVE  \E l \in Level : \E i \in 1 .. Len(q[l]) :
              /\ Moves(b, c, q, l, i, n + 1, quantity, price)
              /\ Consistent(c, p, n + 1, Joined(LeftBy(q, l, i), <<l[1], price>>, q[l][i]))
<1>1. /\ Sound(b, q) /\ Typed(b) /\ \A x \in Address : x \in p.in_use_ <=> On(q, x)
      /\ n \in 0 .. MaxId /\ DOMAIN b.index \subseteq 1 .. n
  BY DEF Consistent
<1>2. PICK d : d = cancelOrder(b, id)
  OBVIOUS
<1>3. PICK l \in Level : \E i \in 1 .. Len(q[l]) : q[l][i] = b.index[id] /\ Leaves(b, d, q, l, i, id)
  BY <1>1, <1>2, TakeAway
<1>4. PICK i \in 1 .. Len(q[l]) : q[l][i] = b.index[id] /\ Leaves(b, d, q, l, i, id)
  BY <1>3
<1>5. PICK o \in Address : o = q[l][i] /\ o = b.index[id] /\ On(q, o)
  BY <1>1, <1>4 DEF Sound, Indexed
<1>6. PICK r : r = LeftBy(q, l, i)
  OBVIOUS
<1>7. Queues(r) /\ \A x \in Address : On(r, x) <=> On(q, x) /\ x # o
  BY <1>1, <1>5, <1>6, CutQueues, Zenon DEF Sound
<1>8. /\ Sound(d, r) /\ Typed(d) /\ DOMAIN d.index = DOMAIN b.index \ {id}
      /\ \A x \in Address : /\ Id(d, x) = Id(b, x) /\ Quantity(d, x) = Quantity(b, x)
                            /\ d.orders[x].side = b.orders[x].side
  BY <1>4, <1>6 DEF Leaves
<1>9. PICK s \in Side : s = l[1] /\ s = d.orders[o].side
  <2>1. PlacedAt(b, q, l, i, o)
    BY <1>1, <1>4, <1>5 DEF Sound, Links
  <2> QED BY <1>8, <2>1, LevelParts DEF PlacedAt
<1>10. price \in Price /\ price # 0 /\ quantity \in Nat
  BY FeedAssumption
<1>11. PICK record : record = [id |-> n + 1, side |-> s, price |-> price, quantity |-> quantity,
                               level |-> NoLevel, prev |-> NULL, next |-> NULL]
  BY Zenon
<1>12. record \in OrderRecord
  BY <1>10, <1>11 DEF OrderRecord, Ids, Link
<1>13. n + 1 \in 1 .. MaxId /\ n + 1 \notin 1 .. n /\ n + 1 \in 0 .. MaxId /\ 1 .. n \subseteq 1 .. n + 1
       /\ n + 1 \in 1 .. n + 1 /\ n + 1 # 0 /\ n + 1 # id
  BY <1>1 DEF Ids
<1>14. Replaceable(b, id, n + 1, quantity)
  BY <1>1, <1>13 DEF Replaceable
<1>15. PICK e : e = [d EXCEPT !.orders[o] = record]
  BY Zenon
<1>16. c = addOrder(e, o)
  <2>1. e = [d EXCEPT !.orders[o] = [id |-> n + 1, side |-> d.orders[o].side, price |-> price, quantity |-> quantity,
                                     level |-> NoLevel, prev |-> NULL, next |-> NULL]]
    BY <1>9, <1>11, <1>15
  <2> QED BY <1>2, <1>5, <1>14, <2>1 DEF replaceOrder
<1>17. record.price # 0 /\ record.id \notin DOMAIN d.index /\ ~On(r, o)
  BY <1>1, <1>7, <1>8, <1>10, <1>11, <1>13
<1>18. Joins(d, c, r, o, record)
  BY <1>8, <1>12, <1>15, <1>16, <1>17, FillAndAdd
<1>19. PICK k \in Level : k = <<s, price>> /\ k = <<l[1], price>> /\ k[2] = price
  BY <1>9, <1>10, LevelParts, Zenon
<1>20. PICK t : t = Joined(r, k, o)
  OBVIOUS
<1>21. /\ Sound(c, t) /\ Typed(c) /\ DOMAIN c.index = DOMAIN d.index \cup {n + 1}
       /\ \A x \in Address : /\ Id(c, x) = IF x = o THEN n + 1 ELSE Id(b, x)
                             /\ Quantity(c, x) = IF x = o THEN quantity ELSE Quantity(b, x)
  BY <1>8, <1>11, <1>18, <1>19, <1>20 DEF Joins
<1>22. Moves(b, c, q, l, i, n + 1, quantity, price)
  BY <1>5, <1>6, <1>19, <1>20, <1>21 DEF Moves
<1>23. \A x \in Address : x \in p.in_use_ <=> On(t, x)
  BY <1>1, <1>5, <1>7, <1>17, <1>20, JoinedQueues
<1>24. DOMAIN c.index \subseteq 1 .. n + 1
  BY <1>1, <1>8, <1>13, <1>21
<1>25. ASSUME NEW m \in Level, Len(t[m]) # 0 PROVE m[2] \in Prices
  <2>1. m # k => t[m] = r[m]
    BY <1>7, <1>20, <1>25 DEF Joined, Queues
  <2>2. m # l => r[m] = q[m]
    BY <1>1, <1>6, <1>25 DEF LeftBy, Sound, Queues
  <2>3. Len(q[l]) # 0
    BY <1>1, <1>4 DEF Sound, Queues
  <2> QED BY <1>19, <1>25, <2>1, <2>2, <2>3 DEF Consistent
<1>26. Consistent(c, p, n + 1, t)
  BY <1>13, <1>21, <1>23, <1>24, <1>25 DEF Consistent
<1> QED BY <1>4, <1>5, <1>6, <1>19, <1>20, <1>22, <1>26, Zenon

-----------------------------------------------------------------------------
(* What a step does to the queues: from b and q to c and r *)

SameOrder(b, c, x) == Id(c, x) = Id(b, x) /\ Quantity(c, x) = Quantity(b, x)

Keeps(b, c, q, r) == r = q /\ \A x \in Address : On(q, x) => SameOrder(b, c, x)

Enters(b, c, q, r, l, o) ==
    /\ l[2] \in Prices /\ ~On(q, o) /\ r = Joined(q, l, o)
    /\ Id(c, o) \in Ids /\ Quantity(c, o) \in Quantities
    /\ \A x \in Address : On(q, x) => SameOrder(b, c, x)

Goes(b, c, q, r, l, i) ==
    r = LeftBy(q, l, i) /\ \A x \in Address : On(q, x) => SameOrder(b, c, x)

Shrinks(b, c, q, r, l, i, quantity) ==
    /\ r = q /\ quantity > 0 /\ quantity < Quantity(b, q[l][i])
    /\ \A x \in Address :
          /\ Id(c, x) = Id(b, x)
          /\ Quantity(c, x) = IF x = q[l][i] THEN Quantity(b, x) - quantity ELSE Quantity(b, x)

Changes(b, c, q, r, l, i, price) ==
    /\ r = Joined(LeftBy(q, l, i), <<l[1], price>>, q[l][i])
    /\ Id(c, q[l][i]) \in Ids /\ Quantity(c, q[l][i]) \in Quantities \ {0}
    /\ \A x \in Address : On(q, x) => Id(b, x) # Id(c, q[l][i])
    /\ \A x \in Address \ {q[l][i]} : SameOrder(b, c, x)

Effect(b, c, q, r) ==
    \/ Keeps(b, c, q, r)
    \/ \E l \in Level, o \in Address : Enters(b, c, q, r, l, o)
    \/ \E l \in Level : \E i \in 1 .. Len(q[l]) :
          \/ Goes(b, c, q, r, l, i)
          \/ \E quantity \in Quantities : Shrinks(b, c, q, r, l, i, quantity)
          \/ \E price \in Prices : Changes(b, c, q, r, l, i, price)

LEMMA UnchangedEffect == ASSUME NEW b, NEW q PROVE Effect(b, b, q, q)
BY DEF Effect, Keeps, SameOrder

\* nullptr is not given back.
LEMMA ReleaseNull == ASSUME NEW b, NEW p, NEW n, NEW q, Consistent(b, p, n, q) PROVE release(p, NULL) = p
BY BookAssumption DEF Consistent, PoolSound, release, Address, NULL

LEMMA CancelStep ==
    ASSUME NEW b, NEW p, NEW n, NEW q, Consistent(b, p, n, q), NEW id,
           NEW c, c = cancelOrder(b, id), NEW o, o = Cancelled(b, id)
    PROVE  \E r : Consistent(c, release(p, o), n, r) /\ Effect(b, c, q, r)
<1>1. CASE id \notin DOMAIN b.index
  <2>1. c = b /\ o = NULL
    BY <1>1 DEF cancelOrder, Cancelled
  <2> QED BY <2>1, ReleaseNull, UnchangedEffect
<1>2. CASE id \in DOMAIN b.index
  <2>1. o = b.index[id] /\ Sound(b, q) /\ Typed(b)
    BY <1>2 DEF Cancelled, Consistent
  <2>2. PICK l \in Level : \E i \in 1 .. Len(q[l]) : q[l][i] = b.index[id] /\ Leaves(b, c, q, l, i, id)
    BY <1>2, <2>1, TakeAway
  <2>3. PICK i \in 1 .. Len(q[l]) : q[l][i] = o /\ Leaves(b, c, q, l, i, id)
    BY <2>1, <2>2
  <2>4. Consistent(c, release(p, o), n, LeftBy(q, l, i))
    BY <1>2, <2>1, <2>3, LeftConsistent
  <2>5. Goes(b, c, q, LeftBy(q, l, i), l, i)
    BY <2>3 DEF Goes, Leaves, SameOrder
  <2> QED BY <2>3, <2>4, <2>5 DEF Effect
<1> QED BY <1>1, <1>2

LEMMA ReduceStep ==
    ASSUME NEW b, NEW p, NEW n, NEW q, Consistent(b, p, n, q), NEW id, NEW quantity \in Quantities,
           NEW c, c = reduceOrder(b, id, quantity), NEW o, o = Reduced(b, id, quantity)
    PROVE  \E r : Consistent(c, release(p, o), n, r) /\ Effect(b, c, q, r)
<1>1. CASE ~Reducible(b, id, quantity)
  <2>1. c = b /\ o = NULL
    BY <1>1 DEF reduceOrder, Reduced
  <2> QED BY <2>1, ReleaseNull, UnchangedEffect
<1>2. CASE Reducible(b, id, quantity) /\ quantity = b.orders[b.index[id]].quantity
  <2>1. c = cancelOrder(b, id) /\ o = Cancelled(b, id)
    BY <1>2 DEF reduceOrder, Reduced, Reducible, Cancelled
  <2> QED BY <2>1, CancelStep
<1>3. CASE Reducible(b, id, quantity) /\ quantity # b.orders[b.index[id]].quantity
  <2>1. Sound(b, q) /\ Typed(b)
    BY DEF Consistent
  <2>2. PICK x \in Address : x = b.index[id] /\ On(q, x)
    BY <1>3, <2>1 DEF Reducible, Sound, Indexed
  <2>3. quantity \in Nat /\ b.orders[x].quantity \in Nat
    BY <2>1, <2>2, FeedAssumption DEF Typed, OrderRecord
  <2>4. quantity > 0 /\ quantity < b.orders[x].quantity
    BY <1>3, <2>2, <2>3 DEF Reducible
  <2>5. c = [b EXCEPT !.orders[x].quantity = @ - quantity] /\ o = NULL
    BY <1>3, <2>2 DEF reduceOrder, Reduced
  <2>6. /\ Consistent(c, p, n, q)
        /\ \A y \in Address :
              /\ Id(c, y) = Id(b, y)
              /\ Quantity(c, y) = IF y = x THEN Quantity(b, y) - quantity ELSE Quantity(b, y)
    BY <2>3, <2>4, <2>5, ReduceConsistent
  <2>7. PICK l \in Level : \E i \in 1 .. Len(q[l]) : q[l][i] = x
    BY <2>2 DEF On
  <2>8. PICK i \in 1 .. Len(q[l]) : q[l][i] = x
    BY <2>7
  <2>9. Shrinks(b, c, q, q, l, i, quantity)
    BY <2>4, <2>6, <2>8 DEF Shrinks, Quantity
  <2> QED BY <2>5, <2>6, <2>8, <2>9, ReleaseNull DEF Effect
<1> QED BY <1>1, <1>2, <1>3

LEMMA AddStep ==
    ASSUME NEW b, NEW p, NEW n, NEW q, Consistent(b, p, n, q), n + 1 \in Ids,
           NEW side \in Side, NEW price \in Prices, NEW quantity \in Quantities,
           NEW o, o = Acquired(p), NEW record,
           record = [id |-> n + 1, side |-> side, price |-> price, quantity |-> quantity,
                     level |-> NoLevel, prev |-> NULL, next |-> NULL],
           NEW c, c = IF o = NULL THEN b ELSE addOrder([b EXCEPT !.orders[o] = record], o)
    PROVE  \E r : Consistent(c, acquire(p), n + 1, r) /\ Effect(b, c, q, r)
<1>1. CASE o = NULL
  BY <1>1, DropConsistent, UnchangedEffect, Zenon
<1>2. CASE o # NULL
  <2>1. PICK l \in Level : l = <<side, price>> /\ l[2] = price
    BY LevelParts, FeedAssumption, Zenon
  <2>2. /\ o \in Address /\ ~On(q, o) /\ Joins(b, c, q, o, record)
        /\ Consistent(c, acquire(p), n + 1, Joined(q, l, o))
    BY <1>2, <2>1, AddConsistent
  <2>3. /\ Id(c, o) = n + 1 /\ Quantity(c, o) = quantity
        /\ \A x \in Address : On(q, x) => SameOrder(b, c, x)
    BY <2>2 DEF Joins, SameOrder
  <2>4. Enters(b, c, q, Joined(q, l, o), l, o)
    BY <2>1, <2>2, <2>3 DEF Enters
  <2> QED BY <2>2, <2>4 DEF Effect
<1> QED BY <1>1, <1>2

LEMMA ReplaceStep ==
    ASSUME NEW b, NEW p, NEW n, NEW q, Consistent(b, p, n, q), n + 1 \in Ids, NEW id,
           NEW price \in Prices, NEW quantity \in Quantities,
           NEW c, c = replaceOrder(b, id, n + 1, quantity, price)
    PROVE  \E r : Consistent(c, p, n + 1, r) /\ Effect(b, c, q, r)
<1>1. CASE ~(id \in DOMAIN b.index /\ quantity # 0)
  <2>1. c = b
    BY <1>1 DEF replaceOrder, Replaceable
  <2>2. n + 1 \in 0 .. MaxId /\ DOMAIN b.index \subseteq 1 .. n + 1
    BY DEF Consistent, Ids
  <2>3. Consistent(b, p, n + 1, q)
    BY <2>2 DEF Consistent
  <2> QED BY <2>1, <2>3, UnchangedEffect
<1>2. CASE id \in DOMAIN b.index /\ quantity # 0
  <2>1. PICK l \in Level : \E i \in 1 .. Len(q[l]) :
           /\ Moves(b, c, q, l, i, n + 1, quantity, price)
           /\ Consistent(c, p, n + 1, Joined(LeftBy(q, l, i), <<l[1], price>>, q[l][i]))
    BY <1>2, ReplaceConsistent
  <2>2. PICK i \in 1 .. Len(q[l]) :
           /\ Moves(b, c, q, l, i, n + 1, quantity, price)
           /\ Consistent(c, p, n + 1, Joined(LeftBy(q, l, i), <<l[1], price>>, q[l][i]))
    BY <2>1
  <2>3. PICK r : r = Joined(LeftBy(q, l, i), <<l[1], price>>, q[l][i])
    OBVIOUS
  <2>4. q[l][i] \in Address
    BY DEF Consistent, Sound, Queues
  <2>5. \A x \in Address : On(q, x) => Id(b, x) # n + 1
    <3>1. \A x \in Address : On(q, x) => Id(b, x) \in 1 .. n
      BY DEF Consistent, Sound, Indexed, Id
    <3>2. n + 1 \notin 1 .. n
      BY DEF Consistent
    <3> QED BY <3>1, <3>2
  <2>6. Changes(b, c, q, r, l, i, price)
    BY <1>2, <2>2, <2>3, <2>4, <2>5 DEF Changes, Moves, SameOrder
  <2> QED BY <2>2, <2>3, <2>6 DEF Effect
<1> QED BY <1>1, <1>2

LEMMA StepEffect ==
    ASSUME NEW q, Consistent(book_, orderPool_, lastId, q), [Next]_vars
    PROVE  \E r : Consistent(book_', orderPool_', lastId', r) /\ Effect(book_, book_', q, r)
<1>1. ASSUME NEW id \in Ids, DeleteOrder(id)
      PROVE  \E r : Consistent(book_', orderPool_', lastId', r) /\ Effect(book_, book_', q, r)
  BY <1>1, CancelStep DEF DeleteOrder
<1>2. ASSUME NEW id \in Ids, NEW quantity \in Quantities, CancelOrder(id, quantity) \/ ExecuteOrder(id, quantity)
      PROVE  \E r : Consistent(book_', orderPool_', lastId', r) /\ Effect(book_, book_', q, r)
  BY <1>2, ReduceStep DEF CancelOrder, ExecuteOrder, executeOrder
<1>3. ASSUME NEW id \in Ids, NEW side \in Side, NEW price \in Prices, NEW quantity \in Quantities,
             AddOrder(id, side, price, quantity)
      PROVE  \E r : Consistent(book_', orderPool_', lastId', r) /\ Effect(book_, book_', q, r)
  <2>1. PICK o, record, b, c :
           /\ o = Acquired(orderPool_) /\ b = book_ /\ c = book_'
           /\ record = [id |-> lastId + 1, side |-> side, price |-> price, quantity |-> quantity,
                        level |-> NoLevel, prev |-> NULL, next |-> NULL]
    BY Zenon
  <2>2. c = IF o = NULL THEN b ELSE addOrder([b EXCEPT !.orders[o] = record], o)
    BY <1>3, <2>1 DEF AddOrder
  <2>3. lastId + 1 \in Ids /\ lastId' = lastId + 1 /\ orderPool_' = acquire(orderPool_)
    BY <1>3 DEF AddOrder
  <2>4. \E r : Consistent(c, acquire(orderPool_), lastId + 1, r) /\ Effect(b, c, q, r)
    BY <1>3, <2>1, <2>2, <2>3, AddStep
  <2> QED BY <2>1, <2>3, <2>4
<1>4. ASSUME NEW id \in Ids, NEW newId \in Ids, NEW price \in Prices, NEW quantity \in Quantities,
             ReplaceOrder(id, newId, quantity, price)
      PROVE  \E r : Consistent(book_', orderPool_', lastId', r) /\ Effect(book_, book_', q, r)
  <2>1. lastId + 1 \in Ids /\ lastId' = lastId + 1 /\ orderPool_' = orderPool_
        /\ book_' = replaceOrder(book_, id, lastId + 1, quantity, price)
    BY <1>4 DEF ReplaceOrder
  <2>2. \E r : Consistent(book_', orderPool_, lastId + 1, r) /\ Effect(book_, book_', q, r)
    BY <1>4, <2>1, ReplaceStep
  <2> QED BY <2>1, <2>2
<1>5. CASE UNCHANGED vars
  BY <1>5, UnchangedEffect DEF vars
<1> QED BY <1>1, <1>2, <1>3, <1>4, <1>5 DEF Next

\* The book, the pool and the queues stay consistent whatever the feed sends.
THEOREM BookInvariant == Spec => []BookInv
<1>1. Init => BookInv
  <2> SUFFICES ASSUME Init PROVE BookInv
    OBVIOUS
  <2>1. Consistent(book_, orderPool_, lastId, NoOrders)
    BY InitConsistent DEF Init
  <2>2. NoOrders = Lists(book_)
    BY <2>1, SoundLists DEF Consistent
  <2> QED BY <2>1, <2>2 DEF BookInv
<1>2. BookInv /\ [Next]_vars => BookInv'
  <2> SUFFICES ASSUME BookInv, [Next]_vars PROVE BookInv'
    OBVIOUS
  <2>1. PICK r : Consistent(book_', orderPool_', lastId', r)
    BY StepEffect DEF BookInv
  <2>2. r = Lists(book_')
    BY <2>1, SoundLists DEF Consistent
  <2> QED BY <2>1, <2>2 DEF BookInv
<1> QED BY <1>1, <1>2, PTL DEF Spec

-----------------------------------------------------------------------------
(* The invariants *)

\* What reading the book shows of the queues.
LEMMA ReadBook ==
    ASSUME NEW b, NEW q, Sound(b, q), NEW l \in Level
    PROVE  /\ OrdersAt(b, l) = q[l] /\ OrdersFromTail(b, l) = q[l]
           /\ Range(OrdersAt(b, l)) = {q[l][i] : i \in 1 .. Len(q[l])}
           /\ empty(b, l) <=> Len(q[l]) = 0
<1>1. OrdersAt(b, l) = q[l] /\ OrdersFromTail(b, l) = q[l] /\ q[l] \in Seq(Address)
  BY SoundLists DEF Sound, Queues
<1>2. DOMAIN q[l] = 1 .. Len(q[l])
  BY <1>1
<1>3. Range(OrdersAt(b, l)) = {q[l][i] : i \in 1 .. Len(q[l])}
  BY <1>1, <1>2 DEF Range
<1>4. EndsAt(b, q, l) /\ (Len(q[l]) # 0 => q[l][1] \in Address)
  BY <1>1 DEF Sound, Links
<1>5. empty(b, l) <=> Len(q[l]) = 0
  BY <1>4, BookAssumption DEF empty, EndsAt, Address, NULL
<1> QED BY <1>1, <1>3, <1>5

\* The lists of the levels stay intact, whatever order of events the feed sends.
THEOREM ListsStayIntact == Spec => []ListsIntact
<1>1. BookInv => ListsIntact
  <2> SUFFICES ASSUME BookInv PROVE ListsIntact
    OBVIOUS
  <2>1. PICK q : Sound(book_, q) /\ Typed(book_)
    BY DEF BookInv, Consistent
  <2>2. ASSUME NEW l \in Level, NEW o \in AddressesOf(l)
        PROVE  /\ book_.orders[o].level = l /\ book_.levels[l].price = l[2]
               /\ <<book_.orders[o].side, book_.orders[o].price>> = l
    <3>1. PICK i \in 1 .. Len(q[l]) : o = q[l][i]
      BY <2>1, <2>2, ReadBook DEF AddressesOf
    <3>2. PlacedAt(book_, q, l, i, o) /\ EndsAt(book_, q, l) /\ q[l] \in Seq(Address)
      BY <2>1, <2>2, <3>1 DEF Sound, Links, Queues
    <3>3. l = <<l[1], l[2]>>
      BY <2>2, LevelParts
    <3> QED BY <3>1, <3>2, <3>3 DEF PlacedAt, EndsAt
  <2>3. \A l \in Level : OrdersAt(book_, l) = OrdersFromTail(book_, l)
    BY <2>1, ReadBook
  <2>4. /\ book_.orders \in [Address -> [id : 0 .. MaxId, side : Side, price : Price, quantity : Nat,
                                         level : Level \cup {NoLevel},
                                         prev : Address \cup {NULL}, next : Address \cup {NULL}]]
        /\ book_.levels \in [Level -> [price : Price, head : Address \cup {NULL},
                                       tail : Address \cup {NULL}, total_quantity : Nat]]
    BY <2>1 DEF Typed, OrderRecord, LevelRecord, Link
  <2> QED BY <2>2, <2>3, <2>4 DEF ListsIntact
<1> QED BY <1>1, BookInvariant, PTL

\* The free list has as many orders as are not in use.
LEMMA FreeCount ==
    ASSUME NEW p, PoolSound(p)
    PROVE  /\ Range(p.free_list_) = Address \ p.in_use_
           /\ Len(p.free_list_) = PoolCapacity - Cardinality(p.in_use_)
<1>1. PICK f \in Seq(Address) : f = p.free_list_
  BY DEF PoolSound
<1>2. PICK n \in Nat : n = Len(f) /\ DOMAIN f = 1 .. n
  OBVIOUS
<1>3. Range(f) = Address \ p.in_use_
  <2>1. /\ \A i \in 1 .. n : f[i] \in Address
        /\ \A o \in Address : o \in p.in_use_ <=> \A i \in 1 .. n : f[i] # o
    BY <1>1, <1>2 DEF PoolSound
  <2> QED BY <1>2, <2>1 DEF Range
<1>4. f \in Bijection(1 .. n, Range(f))
  <2>1. f \in [1 .. n -> Range(f)]
    BY <1>2 DEF Range
  <2>2. \A i, j \in 1 .. n : f[i] = f[j] => i = j
    BY <1>1, <1>2 DEF PoolSound
  <2>3. f \in Injection(1 .. n, Range(f))
    BY <1>2, <2>1, <2>2 DEF Injection, IsInjective
  <2>4. f \in Surjection(1 .. n, Range(f))
    BY <1>2, <2>1 DEF Surjection, Range
  <2> QED BY <2>3, <2>4 DEF Bijection
<1>5. IsFiniteSet(1 .. n) /\ Cardinality(1 .. n) = n
  <2>1. 1 \in Int /\ n \in Int
    OBVIOUS
  <2>2. IsFiniteSet(1 .. n) /\ Cardinality(1 .. n) = IF 1 > n THEN 0 ELSE n - 1 + 1
    BY ONLY <2>1, FS_Interval
  <2> QED BY <2>2
<1>6. Cardinality(Range(f)) = n
  BY <1>4, <1>5, FS_Bijection DEF ExistsBijection
<1>7. IsFiniteSet(Address) /\ Cardinality(Address) = PoolCapacity
  BY FS_Interval, BookAssumption DEF Address
<1>8. PICK used : used = p.in_use_ /\ used \subseteq Address /\ Address \cap used = used
  BY DEF PoolSound
<1>9. Cardinality(Address \ used) = Cardinality(Address) - Cardinality(Address \cap used)
  BY <1>7, FS_Difference, Zenon
<1> QED BY <1>1, <1>2, <1>3, <1>6, <1>7, <1>8, <1>9, Zenon

\* No order of the pool is lost, given out twice or left in the index.
THEOREM NothingLeaks == Spec => []NoLeak
<1>1. BookInv => NoLeak
  <2> SUFFICES ASSUME BookInv PROVE NoLeak
    OBVIOUS
  <2>1. PICK q : Consistent(book_, orderPool_, lastId, q)
    BY DEF BookInv
  <2>2. /\ Sound(book_, q) /\ PoolSound(orderPool_) /\ orderPool_.in_use_ \subseteq Address
        /\ \A o \in Address : o \in orderPool_.in_use_ <=> On(q, o)
    BY <2>1 DEF Consistent, PoolSound
  <2>3. \A o : On(q, o) => o \in Address
    BY <2>2 DEF On, Sound, Queues
  <2>4. orderPool_.in_use_ = UNION {AddressesOf(l) : l \in Level}
    <3>1. \A l \in Level : AddressesOf(l) = {q[l][i] : i \in 1 .. Len(q[l])}
      BY <2>2, ReadBook DEF AddressesOf
    <3>2. \A o : o \in UNION {AddressesOf(l) : l \in Level} <=> On(q, o)
      BY <3>1 DEF On
    <3> QED BY <2>2, <2>3, <3>2
  <2>5. /\ orderPool_.in_use_ = Range(book_.index)
        /\ \A id \in DOMAIN book_.index : book_.orders[book_.index[id]].id = id
    <3>1. Indexed(book_, q)
      BY <2>2 DEF Sound
    <3>2. \A o \in Address : On(q, o) <=> \E id \in DOMAIN book_.index : book_.index[id] = o
      BY <3>1 DEF Indexed
    <3>3. \A id \in DOMAIN book_.index : book_.index[id] \in Address
      BY <3>1 DEF Indexed
    <3> QED BY <2>2, <3>1, <3>2, <3>3 DEF Indexed, Range
  <2> QED BY <2>2, <2>4, <2>5, FreeCount, Zenon DEF NoLeak
<1> QED BY <1>1, BookInvariant, PTL

\* The bitmaps say at every moment which levels have orders.
THEOREM BitmapsMatch == Spec => []BitmapMatchesLevels
<1>1. BookInv => BitmapMatchesLevels
  <2> SUFFICES ASSUME BookInv, NEW s \in Side
               PROVE  {wb[1] * BitsPerBitmapWord + wb[2] :
                          wb \in {wb \in Word \X Bit : wb[2] \in book_.bitmap[s][wb[1]]}}
                      = ActivePrices(book_, s)
    BY DEF BitmapMatchesLevels
  <2>1. PICK q : Sound(book_, q)
    BY DEF BookInv, Consistent
  <2>2. PICK S : S = Active(q)[s] /\ S \subseteq Price
    BY ActiveType
  <2>3. ActivePrices(book_, s) = S
    <3>1. \A p \in Price : <<s, p>> \in Level /\ (empty(book_, <<s, p>>) <=> Len(q[<<s, p>>]) = 0)
      BY <2>1, LevelParts, ReadBook
    <3> QED BY <2>2, <3>1 DEF ActivePrices, Active
  <2>4. \A w \in Word, bit \in Bit : bit \in book_.bitmap[s][w] <=> w * BitsPerBitmapWord + bit \in S
    BY <2>1, <2>2 DEF Sound, Bits
  <2>5. \A p \in S : \E w \in Word, bit \in Bit : p = w * BitsPerBitmapWord + bit
    BY <2>2, PriceParts
  <2>6. \A wb \in Word \X Bit : wb[1] \in Word /\ wb[2] \in Bit
    OBVIOUS
  <2>7. PICK B : B = {wb \in Word \X Bit : wb[2] \in book_.bitmap[s][wb[1]]}
    BY Zenon
  <2>8. \A wb \in B : wb[1] * BitsPerBitmapWord + wb[2] \in S
    BY <2>4, <2>6, <2>7
  <2>9. ASSUME NEW p \in S PROVE \E wb \in B : p = wb[1] * BitsPerBitmapWord + wb[2]
    <3>1. PICK w \in Word, bit \in Bit : p = w * BitsPerBitmapWord + bit
      BY <2>5, <2>9
    <3>2. bit \in book_.bitmap[s][w]
      BY <2>4, <2>9, <3>1
    <3>3. <<w, bit>> \in Word \X Bit /\ <<w, bit>>[1] = w /\ <<w, bit>>[2] = bit
      OBVIOUS
    <3>4. <<w, bit>> \in B
      BY <2>7, <3>2, <3>3
    <3> QED BY <3>1, <3>3, <3>4
  <2> QED BY <2>3, <2>7, <2>8, <2>9
<1> QED BY <1>1, BookInvariant, PTL

=============================================================================
