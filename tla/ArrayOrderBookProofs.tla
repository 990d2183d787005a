------------------------ MODULE ArrayOrderBookProofs ------------------------
(***************************************************************************)
(* The operations of ArrayOrderBook and OrderPool keep the lists, bitmaps, *)
(* best prices, index and pool in agreement with a queue of orders for     *)
(* each level.                                                             *)
(***************************************************************************)
EXTENDS PriceLevelProofs

-----------------------------------------------------------------------------
(* The book *)

\* The prices of each side that have orders.
Active(q) == [s \in Side |-> {p \in Price : Len(q[<<s, p>>]) # 0}]

\* The index finds the orders that are on a list, by their ids, and no others.
Indexed(b, q) ==
    /\ b.index \in [DOMAIN b.index -> Address]
    /\ \A id \in DOMAIN b.index : On(q, b.index[id]) /\ b.orders[b.index[id]].id = id
    /\ \A o \in Address : On(q, o) => b.orders[o].id \in DOMAIN b.index /\ b.index[b.orders[o].id] = o

BestPrices(b, q) ==
    /\ b.best \in [Side -> Price]
    /\ \A s \in Side : 0 \notin Active(q)[s] /\ IsTop(b.best[s], Active(q)[s], s)

\* The book is in order: lists, bitmaps, best prices and index agree with q.
Sound(b, q) ==
    /\ Shape(b) /\ Queues(q) /\ Links(b, q)
    /\ Bits(b, Active(q)) /\ BestPrices(b, q) /\ Indexed(b, q)

LEMMA ActiveType == ASSUME NEW q PROVE Active(q) \in [Side -> SUBSET Price]
BY DEF Active

LEMMA LevelParts ==
    /\ \A s \in Side, p \in Price : <<s, p>> \in Level /\ <<s, p>>[1] = s /\ <<s, p>>[2] = p
    /\ \A l \in Level : l[1] \in Side /\ l[2] \in Price /\ l = <<l[1], l[2]>>
BY DEF Level

LEMMA JoinedActive ==
    ASSUME NEW q, Queues(q), NEW l \in Level, NEW o \in Address
    PROVE  Active(Joined(q, l, o)) = WithPrice(Active(q), l[1], l[2])
<1>1. PICK r : r = Joined(q, l, o)
  OBVIOUS
<1>2. \A m \in Level : Len(r[m]) # 0 <=> Len(q[m]) # 0 \/ m = l
  BY <1>1 DEF Joined, Queues
<1>3. PICK x \in Side, y \in Price : x = l[1] /\ y = l[2] /\ l = <<x, y>>
  BY LevelParts
<1>4. ASSUME NEW s \in Side
      PROVE  {p \in Price : Len(r[<<s, p>>]) # 0} =
                IF s = x THEN {p \in Price : Len(q[<<s, p>>]) # 0} \cup {y}
                ELSE {p \in Price : Len(q[<<s, p>>]) # 0}
  <2>1. \A p \in Price : <<s, p>> \in Level /\ (<<s, p>> = l <=> s = x /\ p = y)
    BY <1>3, <1>4, LevelParts
  <2>2. \A p \in Price : Len(r[<<s, p>>]) # 0 <=> Len(q[<<s, p>>]) # 0 \/ (s = x /\ p = y)
    BY <1>2, <2>1
  <2> QED BY <1>3, <2>2
<1> QED BY <1>1, <1>3, <1>4, Zenon DEF Active, WithPrice

LEMMA LeftActive ==
    ASSUME NEW q, Queues(q), NEW l \in Level, NEW i \in 1 .. Len(q[l])
    PROVE  Active(LeftBy(q, l, i)) =
              IF Len(q[l]) = 1 THEN WithoutPrice(Active(q), l[1], l[2]) ELSE Active(q)
<1>1. PICK r : r = LeftBy(q, l, i)
  OBVIOUS
<1>2. Len(q[l]) \in Nat /\ q[l] \in Seq(Address)
  BY DEF Queues
<1>3. Len(r[l]) = Len(q[l]) - 1 /\ \A m \in Level \ {l} : r[m] = q[m]
  BY <1>1, <1>2, CutSequence DEF LeftBy, Queues
<1>4. \A m \in Level : Len(r[m]) # 0 <=> Len(q[m]) # 0 /\ ~(m = l /\ Len(q[l]) = 1)
  <2>1. Len(r[l]) # 0 <=> Len(q[l]) # 0 /\ Len(q[l]) # 1
    BY <1>2, <1>3
  <2> QED BY <1>3, <2>1, Zenon
<1>5. PICK x \in Side, y \in Price : x = l[1] /\ y = l[2] /\ l = <<x, y>>
  BY LevelParts
<1>6. ASSUME NEW s \in Side
      PROVE  {p \in Price : Len(r[<<s, p>>]) # 0} =
                IF s = x /\ Len(q[l]) = 1 THEN {p \in Price : Len(q[<<s, p>>]) # 0} \ {y}
                ELSE {p \in Price : Len(q[<<s, p>>]) # 0}
  <2>1. \A p \in Price : <<s, p>> \in Level /\ (<<s, p>> = l <=> s = x /\ p = y)
    BY <1>5, <1>6, LevelParts
  <2>2. \A p \in Price : Len(r[<<s, p>>]) # 0 <=>
           Len(q[<<s, p>>]) # 0 /\ ~(s = x /\ p = y /\ Len(q[l]) = 1)
    BY <1>4, <2>1
  <2> QED BY <1>5, <2>2
<1>7. CASE Len(q[l]) = 1
  BY <1>1, <1>5, <1>6, <1>7, Zenon DEF Active, WithoutPrice
<1>8. CASE Len(q[l]) # 1
  BY <1>1, <1>6, <1>8 DEF Active
<1> QED BY <1>7, <1>8

\* An index of orders has room while one order is on no list.
LEMMA IndexHasRoom ==
    ASSUME NEW b, NEW q, Indexed(b, q), NEW o \in Address, ~On(q, o)
    PROVE  Cardinality(DOMAIN b.index) < PoolCapacity
<1>1. PICK index, ids : index = b.index /\ ids = DOMAIN index
  OBVIOUS
<1>2. index \in [ids -> Address \ {o}]
  BY <1>1 DEF Indexed
<1>3. \A x, y \in ids : index[x] = index[y] => x = y
  BY <1>1 DEF Indexed
<1>4. index \in Injection(ids, Address \ {o})
  BY <1>2, <1>3 DEF Injection, IsInjective
<1>5. IsFiniteSet(Address) /\ Cardinality(Address) = PoolCapacity
  BY FS_Interval, BookAssumption DEF Address
<1>6. IsFiniteSet(Address \ {o}) /\ Cardinality(Address \ {o}) = PoolCapacity - 1
  BY <1>5, FS_RemoveElement
<1>7. IsFiniteSet(ids) /\ Cardinality(ids) <= PoolCapacity - 1
  BY <1>4, <1>6, FS_Injection
<1>8. Cardinality(ids) \in Nat
  BY <1>7, FS_CardinalityType
<1> QED BY <1>1, <1>7, <1>8, BookAssumption

\* c is b up to quantities and up to orders that are on no list.
Agree(b, c, q) ==
    /\ Shape(c) /\ c.bitmap = b.bitmap /\ c.best = b.best /\ c.index = b.index
    /\ \A l \in Level : /\ c.levels[l].head = b.levels[l].head /\ c.levels[l].tail = b.levels[l].tail
                        /\ c.levels[l].price = b.levels[l].price
    /\ \A o \in Address : On(q, o) =>
          /\ c.orders[o].id = b.orders[o].id /\ c.orders[o].side = b.orders[o].side
          /\ c.orders[o].price = b.orders[o].price /\ c.orders[o].level = b.orders[o].level
          /\ c.orders[o].prev = b.orders[o].prev /\ c.orders[o].next = b.orders[o].next

LEMMA AgreeSound ==
    ASSUME NEW b, NEW c, NEW q, Sound(b, q), Agree(b, c, q)
    PROVE  Sound(c, q)
<1>1. ASSUME NEW l \in Level PROVE EndsAt(c, q, l)
  BY <1>1 DEF Sound, Links, EndsAt, Agree
<1>2. ASSUME NEW l \in Level, NEW i \in 1 .. Len(q[l]) PROVE PlacedAt(c, q, l, i, q[l][i])
  <2>1. PICK p \in Address : p = q[l][i]
    BY <1>2 DEF Sound, Queues
  <2>2. PlacedAt(b, q, l, i, p) /\ On(q, p)
    BY <1>2, <2>1 DEF Sound, Links, On
  <2>3. PlacedAt(c, q, l, i, p)
    BY <2>2 DEF PlacedAt, Agree
  <2> QED BY <2>1, <2>3
<1>3. Links(c, q)
  BY <1>1, <1>2 DEF Links
<1>4. Bits(c, Active(q))
  BY DEF Sound, Agree, Bits
<1>5. BestPrices(c, q)
  BY DEF Sound, Agree, BestPrices
<1>6. Indexed(c, q)
  BY DEF Sound, Agree, Indexed
<1> QED BY <1>3, <1>4, <1>5, <1>6 DEF Sound, Agree

\* a is b with the level l active: the lists are as before.
Activated(b, a, q, l) ==
    /\ Shape(a) /\ Links(a, q) /\ a.levels[l].price = l[2]
    /\ Bits(a, WithPrice(Active(q), l[1], l[2]))
    /\ a.orders = b.orders /\ a.best = b.best /\ a.index = b.index
    /\ \A m \in Level : a.levels[m].total_quantity = b.levels[m].total_quantity

LEMMA ActivateLevel ==
    ASSUME NEW b, NEW q, Sound(b, q), NEW l \in Level, NEW a, a = Activate(b, l)
    PROVE  Activated(b, a, q, l)
<1>0. PICK s \in Side, p \in Price : l = <<s, p>> /\ l[1] = s /\ l[2] = p
  BY LevelParts
<1>1. PICK S \in [Side -> SUBSET Price] : S = Active(q)
  BY ActiveType
<1>2. p \in S[s] <=> Len(q[l]) # 0
  BY <1>0, <1>1 DEF Active
<1>3. empty(b, l) <=> Len(q[l]) = 0
  <2>1. EndsAt(b, q, l) /\ q[l] \in Seq(Address)
    BY <1>0 DEF Sound, Links, Queues
  <2>2. Len(q[l]) # 0 => q[l][1] \in Address
    BY <2>1
  <2> QED BY <2>1, <2>2, BookAssumption DEF empty, EndsAt, Address, NULL
<1>4. CASE empty(b, l)
  <2>1. PICK d : d = [b EXCEPT !.levels[l].price = p]
    BY Zenon
  <2>2. /\ DOMAIN d = DOMAIN b /\ d.orders = b.orders /\ d.bitmap = b.bitmap
        /\ d.best = b.best /\ d.index = b.index
        /\ d.levels = [b.levels EXCEPT ![l].price = p]
    BY <2>1 DEF Sound, Shape
  <2>3. /\ DOMAIN d.levels = Level
        /\ \A m \in Level :
              /\ DOMAIN d.levels[m] = DOMAIN b.levels[m]
              /\ d.levels[m].head = b.levels[m].head /\ d.levels[m].tail = b.levels[m].tail
              /\ d.levels[m].total_quantity = b.levels[m].total_quantity
              /\ d.levels[m].price = IF m = l THEN p ELSE b.levels[m].price
    BY <1>0, <2>2 DEF Sound, Shape, LevelFields
  <2>4. Shape(d)
    BY <2>2, <2>3 DEF Sound, Shape
  <2>5. Bits(d, S)
    BY <1>1, <2>2 DEF Sound, Bits
  <2>6. a = setLevelActive(d, s, p)
    BY <1>0, <1>4, <2>1 DEF Activate
  <2>7. /\ Bits(a, WithPrice(S, s, p))
        /\ DOMAIN a = DOMAIN d /\ a.orders = d.orders /\ a.levels = d.levels
        /\ a.best = d.best /\ a.index = d.index
    BY <2>4, <2>5, <2>6, SetBit
  <2>8. Shape(a)
    BY <2>4, <2>7 DEF Shape
  <2>9. ASSUME NEW m \in Level PROVE EndsAt(a, q, m)
    <3>1. EndsAt(b, q, m)
      BY <2>9 DEF Sound, Links
    <3> QED BY <1>0, <1>3, <1>4, <2>3, <2>7, <2>9, <3>1 DEF EndsAt
  <2>10. ASSUME NEW m \in Level, NEW i \in 1 .. Len(q[m]) PROVE PlacedAt(a, q, m, i, q[m][i])
    <3>1. PlacedAt(b, q, m, i, q[m][i]) /\ a.orders = b.orders
      BY <2>2, <2>7, <2>10 DEF Sound, Links
    <3> QED BY <3>1 DEF PlacedAt
  <2>11. Links(a, q)
    BY <2>9, <2>10 DEF Links
  <2>12. a.levels[l].price = p /\ \A m \in Level : a.levels[m].total_quantity = b.levels[m].total_quantity
    BY <2>3, <2>7
  <2>13. a.orders = b.orders /\ a.best = b.best /\ a.index = b.index
    BY <2>2, <2>7
  <2> QED BY <1>0, <1>1, <2>7, <2>8, <2>11, <2>12, <2>13 DEF Activated
<1>5. CASE ~empty(b, l)
  <2>1. a = b
    BY <1>5 DEF Activate
  <2>2. WithPrice(S, s, p) = S
    BY <1>2, <1>3, <1>5 DEF WithPrice
  <2>3. EndsAt(b, q, l)
    BY <1>0 DEF Sound, Links
  <2>4. b.levels[l].price = p
    BY <1>0, <1>3, <1>5, <2>3 DEF EndsAt
  <2> QED BY <1>0, <1>1, <2>1, <2>2, <2>4, Zenon DEF Sound, Activated
<1> QED BY <1>4, <1>5

\* c is b once addOrder has put o at the end of the queue of l.
Added(b, c, q, l, o) ==
    /\ Sound(c, Joined(q, l, o)) /\ SameData(b, c)
    /\ c.orders = push_back(Activate(b, l), l, o).orders
    /\ c.levels = push_back(Activate(b, l), l, o).levels
    /\ c.index = [x \in DOMAIN b.index \cup {b.orders[o].id} |-> IF x = b.orders[o].id THEN o ELSE b.index[x]]
    /\ \A m \in Level :
          c.levels[m].total_quantity =
             IF m = l THEN Wrap(b.levels[m].total_quantity + b.orders[o].quantity)
             ELSE b.levels[m].total_quantity

LEMMA BetterIsTop ==
    ASSUME NEW S \in SUBSET Price, NEW s \in Side, NEW p \in Price, NEW n \in Price, 0 \notin S, p # 0,
           IsTop(n, S, s)
    PROVE  IsTop(IF BetterPrice(s, p, n) THEN p ELSE n, S \cup {p}, s)
<1>1. \A x \in S \cup {p, n} : x \in Int
  BY DEF Price
<1>2. CASE n = 0
  <2>1. S = {} /\ BetterPrice(s, p, n)
    BY <1>2 DEF IsTop, BetterPrice
  <2> QED BY <1>1, <2>1 DEF IsTop
<1>3. CASE n # 0
  <2>1. n \in S /\ \A x \in S : IF s = "Buy" THEN x <= n ELSE n <= x
    BY <1>3 DEF IsTop
  <2>2. BetterPrice(s, p, n) <=> IF s = "Buy" THEN p > n ELSE p < n
    BY <1>3 DEF BetterPrice
  <2> QED BY <1>1, <2>1, <2>2 DEF IsTop
<1> QED BY <1>2, <1>3

LEMMA SameLinks ==
    ASSUME NEW b, NEW c, NEW q, Links(b, q), c.orders = b.orders, c.levels = b.levels
    PROVE  Links(c, q)
<1>1. \A l \in Level : EndsAt(c, q, l)
  BY DEF Links, EndsAt
<1>2. ASSUME NEW l \in Level, NEW i \in 1 .. Len(q[l]) PROVE PlacedAt(c, q, l, i, q[l][i])
  <2>1. PlacedAt(b, q, l, i, q[l][i])
    BY <1>2 DEF Links
  <2> QED BY <2>1 DEF PlacedAt
<1> QED BY <1>1, <1>2 DEF Links

\* addOrder keeps a sound book sound: the order joins the end of its queue.
LEMMA AddSound ==
    ASSUME NEW b, NEW q, Sound(b, q), NEW o \in Address, ~On(q, o), NEW l \in Level,
           l = <<b.orders[o].side, b.orders[o].price>>, l[2] # 0,
           b.orders[o].id \notin DOMAIN b.index
    PROVE  Added(b, addOrder(b, o), q, l, o)
<1>0. PICK s \in Side, p \in Price : l = <<s, p>> /\ l[1] = s /\ l[2] = p
  BY LevelParts
<1>1. PICK id : id = b.orders[o].id
  OBVIOUS
<1>2. PICK a : a = Activate(b, l)
  OBVIOUS
<1>3. Activated(b, a, q, l)
  BY <1>2, ActivateLevel
<1>4. PICK d : d = push_back(a, l, o)
  OBVIOUS
<1>5. Links(d, Joined(q, l, o)) /\ Pushed(a, d, l, o, a.levels[l].tail)
  <2>1. /\ Shape(a) /\ Links(a, q) /\ Queues(q) /\ a.levels[l].price = l[2]
        /\ a.orders[o].side = l[1] /\ a.orders[o].price = l[2]
    BY <1>0, <1>3 DEF Activated, Sound
  <2> QED BY <1>4, <2>1, PushBackLinks
<1>6. PICK e : e = Improve(d, l)
  OBVIOUS
<1>7. Shape(d) /\ d.best = b.best /\ d.index = b.index /\ d.bitmap = a.bitmap /\ SameData(b, d)
  <2>1. a.best = b.best /\ a.index = b.index /\ a.orders = b.orders
    BY <1>3 DEF Activated
  <2>2. Shape(d) /\ d.best = a.best /\ d.index = a.index /\ d.bitmap = a.bitmap /\ SameData(a, d)
    BY <1>5 DEF Pushed
  <2> QED BY <2>1, <2>2 DEF SameData
<1>8. PICK n \in Price : n = b.best[s] /\ IsTop(n, Active(q)[s], s)
  BY DEF Sound, BestPrices
<1>9. /\ DOMAIN e = DOMAIN d /\ e.orders = d.orders /\ e.levels = d.levels
      /\ e.bitmap = d.bitmap /\ e.index = d.index
  BY <1>6, <1>7 DEF Improve, Shape
<1>10. e.best \in [Side -> Price] /\ \A x \in Side : e.best[x] = IF x = s /\ BetterPrice(s, p, n) THEN p ELSE b.best[x]
  <2>1. e.best = IF BetterPrice(s, p, n) THEN [b.best EXCEPT ![s] = p] ELSE b.best
    BY <1>0, <1>6, <1>7, <1>8 DEF Improve, Shape
  <2>2. b.best \in [Side -> Price]
    BY DEF Sound, BestPrices
  <2> QED BY <2>1, <2>2
<1>11. PICK c : c = IndexInsert(e, id, o)
  OBVIOUS
<1>12. c = addOrder(b, o)
  BY <1>1, <1>2, <1>4, <1>6, <1>11 DEF addOrder
<1>13. Cardinality(DOMAIN e.index) < PoolCapacity
  BY <1>7, <1>9, IndexHasRoom DEF Sound
<1>14. /\ DOMAIN c = DOMAIN e /\ c.orders = d.orders /\ c.levels = d.levels
       /\ c.bitmap = d.bitmap /\ c.best = e.best
       /\ c.index = [x \in DOMAIN b.index \cup {id} |-> IF x = id THEN o ELSE b.index[x]]
  BY <1>7, <1>9, <1>11, <1>13 DEF IndexInsert, Shape
<1>15. PICK r : r = Joined(q, l, o)
  OBVIOUS
<1>16. Queues(r) /\ \A x \in Address : On(r, x) <=> On(q, x) \/ x = o
  BY <1>15, JoinedQueues DEF Sound
<1>17. Shape(c)
  BY <1>7, <1>9, <1>14 DEF Shape
<1>18. Links(c, r)
  BY <1>5, <1>14, <1>15, SameLinks
<1>19. Active(r) = WithPrice(Active(q), s, p)
  BY <1>0, <1>15, JoinedActive DEF Sound
<1>20. Bits(c, Active(r))
  <2>1. Bits(a, Active(r)) /\ c.bitmap = a.bitmap
    BY <1>0, <1>3, <1>7, <1>14, <1>19 DEF Activated
  <2> QED BY <2>1 DEF Bits
<1>21. BestPrices(c, r)
  <2>1. \A x \in Side : Active(r)[x] = IF x = s THEN Active(q)[x] \cup {p} ELSE Active(q)[x]
    BY <1>19, ActiveType, Zenon DEF WithPrice
  <2>2. ASSUME NEW x \in Side PROVE 0 \notin Active(r)[x] /\ IsTop(c.best[x], Active(r)[x], x)
    <3>1. 0 \notin Active(q)[x] /\ IsTop(b.best[x], Active(q)[x], x) /\ Active(q)[x] \in SUBSET Price
      BY <2>2, ActiveType DEF Sound, BestPrices
    <3>2. CASE x = s
      <4>1. IsTop(IF BetterPrice(s, p, n) THEN p ELSE n, Active(q)[s] \cup {p}, s)
        BY <1>0, <1>8, <3>1, <3>2, BetterIsTop, Zenon
      <4>2. c.best[x] = IF BetterPrice(s, p, n) THEN p ELSE n
        BY <1>8, <1>10, <1>14, <3>2
      <4> QED BY <1>0, <2>1, <3>1, <3>2, <4>1, <4>2
    <3>3. CASE x # s
      BY <1>10, <1>14, <2>1, <3>1, <3>3, Zenon
    <3> QED BY <3>2, <3>3
  <2> QED BY <1>10, <1>14, <2>2 DEF BestPrices
<1>22. \A x \in Address : c.orders[x].id = b.orders[x].id
  BY <1>7, <1>14 DEF SameData, Sound, Shape, OrderFields, LinkFields
<1>23. Indexed(c, r)
  <2>1. Indexed(b, q)
    BY DEF Sound
  <2>2. DOMAIN c.index = DOMAIN b.index \cup {id} /\ c.index \in [DOMAIN c.index -> Address]
    BY <1>14, <2>1 DEF Indexed
  <2>3. ASSUME NEW x \in DOMAIN c.index PROVE On(r, c.index[x]) /\ c.orders[c.index[x]].id = x
    <3>1. CASE x = id
      <4>1. c.index[x] = o
        BY <1>14, <2>2, <2>3, <3>1
      <4> QED BY <1>1, <1>16, <1>22, <3>1, <4>1
    <3>2. CASE x # id
      <4>1. x \in DOMAIN b.index /\ c.index[x] = b.index[x]
        BY <1>14, <2>2, <2>3, <3>2
      <4>2. b.index[x] \in Address /\ On(q, b.index[x]) /\ b.orders[b.index[x]].id = x
        BY <2>1, <4>1 DEF Indexed
      <4> QED BY <1>16, <1>22, <4>1, <4>2
    <3> QED BY <3>1, <3>2
  <2>4. ASSUME NEW x \in Address, On(r, x)
        PROVE  c.orders[x].id \in DOMAIN c.index /\ c.index[c.orders[x].id] = x
    <3>1. CASE x = o
      <4>1. c.orders[x].id = id
        BY <1>1, <1>22, <3>1
      <4> QED BY <1>14, <2>2, <3>1, <4>1
    <3>2. CASE x # o
      <4>1. On(q, x)
        BY <1>16, <2>4, <3>2
      <4>2. b.orders[x].id \in DOMAIN b.index /\ b.index[b.orders[x].id] = x
        BY <2>1, <4>1 DEF Indexed
      <4>3. b.orders[x].id # id
        BY <1>1, <4>2
      <4> QED BY <1>14, <1>22, <2>2, <4>2, <4>3
    <3> QED BY <3>1, <3>2
  <2> QED BY <2>2, <2>3, <2>4 DEF Indexed
<1>24. Sound(c, r)
  BY <1>16, <1>17, <1>18, <1>20, <1>21, <1>23 DEF Sound
<1>25. SameData(b, c)
  BY <1>7, <1>14 DEF SameData
<1>26. ASSUME NEW m \in Level
       PROVE  c.levels[m].total_quantity =
                 IF m = l THEN Wrap(b.levels[m].total_quantity + b.orders[o].quantity)
                 ELSE b.levels[m].total_quantity
  <2>1. a.levels[m].total_quantity = b.levels[m].total_quantity /\ a.orders = b.orders
    BY <1>3, <1>26 DEF Activated
  <2>2. d.levels[m].total_quantity =
           IF m = l THEN Wrap(a.levels[m].total_quantity + a.orders[o].quantity)
           ELSE a.levels[m].total_quantity
    BY <1>5, <1>26, Zenon DEF Pushed
  <2> QED BY <1>14, <2>1, <2>2
<1> QED BY <1>1, <1>2, <1>4, <1>12, <1>14, <1>15, <1>24, <1>25, <1>26, Zenon DEF Added

\* c is b once the order in place i of the queue of l has left its level; the
\* index still has it.
Left(b, c, q, l, i) ==
    /\ Shape(c) /\ Links(c, LeftBy(q, l, i)) /\ Bits(c, Active(LeftBy(q, l, i)))
    /\ BestPrices(c, LeftBy(q, l, i)) /\ c.index = b.index /\ SameData(b, c)
    /\ c.orders = remove(b, l, q[l][i]).orders /\ c.levels = remove(b, l, q[l][i]).levels
    /\ \A m \in Level :
          c.levels[m].total_quantity =
             IF m = l THEN Wrap(b.levels[m].total_quantity - b.orders[q[l][i]].quantity)
             ELSE b.levels[m].total_quantity

\* The bitmap and the best price when the last order of a price has gone.
LEMMA DeactivateLevel ==
    ASSUME NEW b, NEW S \in [Side -> SUBSET Price], Shape(b), Bits(b, S), b.best \in [Side -> Price],
           NEW s \in Side, NEW p \in S[s], \A x \in Side : 0 \notin S[x] /\ IsTop(b.best[x], S[x], x),
           NEW c, c = Deactivate(b, s, p), NEW T, T = WithoutPrice(S, s, p)
    PROVE  /\ DOMAIN c = DOMAIN b /\ c.orders = b.orders /\ c.levels = b.levels /\ c.index = b.index
           /\ Bits(c, T) /\ c.best \in [Side -> Price]
           /\ \A x \in Side : IsTop(c.best[x], T[x], x)
<1>1. p \in Price /\ p \in Int /\ p # 0
  BY DEF Price
<1>2. PICK d : d = clearLevelActive(b, s, p)
  OBVIOUS
<1>3. /\ Bits(d, T) /\ DOMAIN d = DOMAIN b /\ d.orders = b.orders /\ d.levels = b.levels
      /\ d.best = b.best /\ d.index = b.index
  BY <1>1, <1>2, ClearBit
<1>4. Shape(d)
  BY <1>3 DEF Shape
<1>5. T \in [Side -> SUBSET Price] /\ T[s] = S[s] \ {p} /\ \A x \in Side \ {s} : T[x] = S[x]
  BY DEF WithoutPrice
<1>6. PICK n \in Price : n = b.best[s] /\ IsTop(n, S[s], s)
  OBVIOUS
<1>7. n \in S[s] /\ \A x \in S[s] : x \in Int /\ IF s = "Buy" THEN x <= n ELSE n <= x
  BY <1>6 DEF IsTop, Price
<1>8. CASE p # n
  <2>1. c = d
    BY <1>2, <1>6, <1>8 DEF Deactivate
  <2>2. IsTop(n, T[s], s)
    BY <1>5, <1>7, <1>8 DEF IsTop
  <2>3. \A x \in Side : IsTop(c.best[x], T[x], x)
    BY <1>3, <1>5, <1>6, <2>1, <2>2, Zenon
  <2> QED BY <1>3, <2>1, <2>3
<1>9. CASE p = n /\ s = "Buy"
  <2>1. c = refreshBestBid(d)
    BY <1>2, <1>6, <1>9 DEF Deactivate
  <2>2. \A x \in T["Buy"] : x < d.best["Buy"]
    BY <1>1, <1>3, <1>5, <1>6, <1>7, <1>9
  <2>3. d.best["Buy"] # 0 /\ d.best \in [Side -> Price]
    BY <1>1, <1>3, <1>6, <1>9
  <2>4. /\ DOMAIN c = DOMAIN d /\ c.orders = d.orders /\ c.levels = d.levels
        /\ c.bitmap = d.bitmap /\ c.index = d.index
        /\ c.best \in [Side -> Price] /\ c.best["Sell"] = d.best["Sell"]
        /\ IsTop(c.best["Buy"], T["Buy"], "Buy")
    BY <1>3, <1>4, <1>5, <2>1, <2>2, <2>3, RefreshBid
  <2>5. IsTop(c.best["Sell"], T["Sell"], "Sell")
    BY <1>3, <1>5, <1>9, <2>4 DEF Side
  <2>6. \A x \in Side : IsTop(c.best[x], T[x], x)
    BY <2>4, <2>5 DEF Side
  <2>7. Bits(c, T)
    BY <1>3, <2>4 DEF Bits
  <2> QED BY <1>3, <2>4, <2>6, <2>7
<1>10. CASE p = n /\ s = "Sell"
  <2>1. c = refreshBestAsk(d)
    BY <1>2, <1>6, <1>10 DEF Deactivate
  <2>2. \A x \in T["Sell"] : d.best["Sell"] < x
    BY <1>1, <1>3, <1>5, <1>6, <1>7, <1>10
  <2>3. d.best["Sell"] # 0 /\ d.best \in [Side -> Price]
    BY <1>1, <1>3, <1>6, <1>10
  <2>4. /\ DOMAIN c = DOMAIN d /\ c.orders = d.orders /\ c.levels = d.levels
        /\ c.bitmap = d.bitmap /\ c.index = d.index
        /\ c.best \in [Side -> Price] /\ c.best["Buy"] = d.best["Buy"]
        /\ IsTop(c.best["Sell"], T["Sell"], "Sell")
    BY <1>3, <1>4, <1>5, <2>1, <2>2, <2>3, RefreshAsk
  <2>5. IsTop(c.best["Buy"], T["Buy"], "Buy")
    BY <1>3, <1>5, <1>10, <2>4 DEF Side
  <2>6. \A x \in Side : IsTop(c.best[x], T[x], x)
    BY <2>4, <2>5 DEF Side
  <2>7. Bits(c, T)
    BY <1>3, <2>4 DEF Bits
  <2> QED BY <1>3, <2>4, <2>6, <2>7
<1> QED BY <1>8, <1>9, <1>10 DEF Side

LEMMA LeaveLevel ==
    ASSUME NEW b, NEW q, Sound(b, q), NEW l \in Level, NEW i \in 1 .. Len(q[l]), NEW o, o = q[l][i],
           NEW c, c = Leave(b, l, o)
    PROVE  Left(b, c, q, l, i)
<1>0. PICK s \in Side, p \in Price : l = <<s, p>> /\ l[1] = s /\ l[2] = p
  BY LevelParts
<1>1. PICK d : d = remove(b, l, o)
  OBVIOUS
<1>2. PICK r : r = LeftBy(q, l, i)
  OBVIOUS
<1>3. Links(d, r) /\ Removed(b, d, l, o, b.orders[o].prev, b.orders[o].next)
  BY <1>1, <1>2, RemoveLinks DEF Sound
<1>4. o \in Address /\ b.orders[o].side = s /\ b.orders[o].price = p
  <2>1. PlacedAt(b, q, l, i, o) /\ q[l] \in Seq(Address)
    BY DEF Sound, Links, Queues
  <2> QED BY <1>0, <2>1 DEF PlacedAt
<1>5. Shape(d) /\ SameData(b, d) /\ d.bitmap = b.bitmap /\ d.best = b.best /\ d.index = b.index
  BY <1>3, Zenon DEF Removed
<1>6. \A m \in Level :
         d.levels[m].total_quantity =
            IF m = l THEN Wrap(b.levels[m].total_quantity - b.orders[o].quantity)
            ELSE b.levels[m].total_quantity
  BY <1>3, Zenon DEF Removed
<1>7. Queues(r) /\ Len(r[l]) = Len(q[l]) - 1
  <2>1. q \in [Level -> Seq(Address)] /\ q[l] \in Seq(Address)
    BY DEF Sound, Queues
  <2>2. r[l] = Cut(q[l], i)
    BY <1>2, <2>1 DEF LeftBy
  <2> QED BY <1>2, <2>1, <2>2, CutQueues, CutSequence DEF Sound
<1>8. empty(d, l) <=> Len(q[l]) = 1
  <2>1. EndsAt(d, r, l) /\ r[l] \in Seq(Address)
    BY <1>3, <1>7 DEF Links, Queues
  <2>2. Len(r[l]) # 0 => r[l][1] \in Address
    BY <2>1
  <2>3. empty(d, l) <=> Len(r[l]) = 0
    BY <2>1, <2>2, BookAssumption DEF empty, EndsAt, Address, NULL
  <2>4. Len(q[l]) \in Nat
    BY DEF Sound, Queues
  <2> QED BY <1>7, <2>3, <2>4
<1>9. PICK S \in [Side -> SUBSET Price] : S = Active(q)
  BY ActiveType
<1>10. PICK T : T = Active(r) /\ T = IF Len(q[l]) = 1 THEN WithoutPrice(S, s, p) ELSE S
  BY <1>0, <1>2, <1>9, LeftActive DEF Sound
<1>11. Bits(d, S) /\ d.best \in [Side -> Price] /\ \A x \in Side : 0 \notin S[x] /\ IsTop(d.best[x], S[x], x)
  BY <1>5, <1>9 DEF Sound, Bits, BestPrices
<1>12. /\ DOMAIN c = DOMAIN d /\ c.orders = d.orders /\ c.levels = d.levels /\ c.index = d.index
       /\ Bits(c, T) /\ c.best \in [Side -> Price]
       /\ \A x \in Side : 0 \notin T[x] /\ IsTop(c.best[x], T[x], x)
  <2>1. CASE Len(q[l]) = 1
    <3>1. c = Deactivate(d, s, p) /\ T = WithoutPrice(S, s, p)
      BY <1>1, <1>4, <1>8, <1>10, <2>1 DEF Leave
    <3>2. p \in S[s]
      BY <1>0, <1>9, <2>1 DEF Active
    <3>3. /\ DOMAIN c = DOMAIN d /\ c.orders = d.orders /\ c.levels = d.levels /\ c.index = d.index
          /\ Bits(c, T) /\ c.best \in [Side -> Price]
          /\ \A x \in Side : IsTop(c.best[x], T[x], x)
      BY <1>5, <1>11, <3>1, <3>2, DeactivateLevel
    <3>4. \A x \in Side : T[x] \subseteq S[x]
      BY <3>1 DEF WithoutPrice
    <3> QED BY <1>11, <3>3, <3>4
  <2>2. CASE Len(q[l]) # 1
    <3>1. c = d /\ T = S
      BY <1>1, <1>8, <1>10, <2>2 DEF Leave
    <3> QED BY <1>11, <3>1
  <2> QED BY <2>1, <2>2
<1>13. Shape(c)
  BY <1>5, <1>12 DEF Shape
<1>14. Links(c, r)
  BY <1>3, <1>12, SameLinks
<1>15. BestPrices(c, r)
  BY <1>10, <1>12 DEF BestPrices
<1>16. SameData(b, c)
  BY <1>5, <1>12 DEF SameData
<1>17. \A m \in Level :
          c.levels[m].total_quantity =
             IF m = l THEN Wrap(b.levels[m].total_quantity - b.orders[q[l][i]].quantity)
             ELSE b.levels[m].total_quantity
  BY <1>6, <1>12
<1> QED BY <1>1, <1>2, <1>5, <1>10, <1>12, <1>13, <1>14, <1>15, <1>16, <1>17, Zenon DEF Left

\* c is b once cancelOrder has taken the order in place i of the queue of l.
Withdrawn(b, c, q, l, i, id) ==
    /\ Sound(c, LeftBy(q, l, i)) /\ SameData(b, c)
    /\ c.orders = remove(b, l, q[l][i]).orders /\ c.levels = remove(b, l, q[l][i]).levels
    /\ DOMAIN c.index = DOMAIN b.index \ {id}
    /\ \A m \in Level :
          c.levels[m].total_quantity =
             IF m = l THEN Wrap(b.levels[m].total_quantity - b.orders[q[l][i]].quantity)
             ELSE b.levels[m].total_quantity

\* cancelOrder keeps a sound book sound: the order leaves its queue.
LEMMA CancelSound ==
    ASSUME NEW b, NEW q, Sound(b, q), NEW id \in DOMAIN b.index, NEW l \in Level,
           NEW i \in 1 .. Len(q[l]), q[l][i] = b.index[id]
    PROVE  Withdrawn(b, cancelOrder(b, id), q, l, i, id)
<1>1. PICK o \in Address : o = b.index[id] /\ o = q[l][i] /\ b.orders[o].id = id
  BY DEF Sound, Indexed
<1>2. b.orders[o].level = l
  <2>1. PlacedAt(b, q, l, i, o)
    BY <1>1 DEF Sound, Links
  <2> QED BY <2>1 DEF PlacedAt
<1>3. PICK d : d = Leave(b, l, o)
  OBVIOUS
<1>4. Left(b, d, q, l, i)
  BY <1>1, <1>3, LeaveLevel
<1>5. PICK c : c = cancelOrder(b, id)
  OBVIOUS
<1>6. /\ DOMAIN c = DOMAIN d /\ c.orders = d.orders /\ c.levels = d.levels
      /\ c.bitmap = d.bitmap /\ c.best = d.best
      /\ c.index = [x \in DOMAIN b.index \ {id} |-> b.index[x]]
  <2>1. c = [d EXCEPT !.index = Restrict(@, DOMAIN @ \ {id})]
    BY <1>1, <1>2, <1>3, <1>5, Zenon DEF cancelOrder
  <2>2. Shape(d) /\ d.index = b.index
    BY <1>4 DEF Left
  <2> QED BY <2>1, <2>2 DEF Restrict, Shape
<1>7. PICK r : r = LeftBy(q, l, i)
  OBVIOUS
<1>8. Queues(r) /\ \A x \in Address : On(r, x) <=> On(q, x) /\ x # o
  BY <1>1, <1>7, CutQueues DEF Sound
<1>9. Shape(d) /\ Links(d, r) /\ Bits(d, Active(r)) /\ BestPrices(d, r) /\ SameData(b, d)
  BY <1>4, <1>7 DEF Left
<1>10. Shape(c) /\ SameData(b, c)
  BY <1>6, <1>9 DEF Shape, SameData
<1>11. Links(c, r)
  BY <1>6, <1>9, SameLinks
<1>12. Bits(c, Active(r)) /\ BestPrices(c, r)
  BY <1>6, <1>9 DEF Bits, BestPrices
<1>13. \A x \in Address : c.orders[x].id = b.orders[x].id
  BY <1>10 DEF SameData, Sound, Shape, OrderFields, LinkFields
<1>14. Indexed(c, r)
  <2>1. Indexed(b, q)
    BY DEF Sound
  <2>2. DOMAIN c.index = DOMAIN b.index \ {id} /\ \A x \in DOMAIN c.index : c.index[x] = b.index[x]
    BY <1>6
  <2>3. c.index \in [DOMAIN c.index -> Address]
    BY <1>6, <2>1 DEF Indexed
  <2>4. ASSUME NEW x \in DOMAIN c.index PROVE On(r, c.index[x]) /\ c.orders[c.index[x]].id = x
    BY <1>1, <1>8, <1>13, <2>1, <2>2, <2>4 DEF Indexed
  <2>5. ASSUME NEW x \in Address, On(r, x)
        PROVE  c.orders[x].id \in DOMAIN c.index /\ c.index[c.orders[x].id] = x
    BY <1>1, <1>8, <1>13, <2>1, <2>2, <2>5 DEF Indexed
  <2> QED BY <2>3, <2>4, <2>5 DEF Indexed
<1>15. Sound(c, r)
  BY <1>8, <1>10, <1>11, <1>12, <1>14 DEF Sound
<1>16. \A m \in Level :
          c.levels[m].total_quantity =
             IF m = l THEN Wrap(b.levels[m].total_quantity - b.orders[q[l][i]].quantity)
             ELSE b.levels[m].total_quantity
  BY <1>4, <1>6 DEF Left
<1>17. DOMAIN c.index = DOMAIN b.index \ {id}
  BY <1>6
<1>18. c.orders = remove(b, l, q[l][i]).orders /\ c.levels = remove(b, l, q[l][i]).levels
  BY <1>4, <1>6 DEF Left
<1> QED BY <1>5, <1>7, <1>10, <1>15, <1>16, <1>17, <1>18 DEF Withdrawn

\* The book starts sound, with nothing on any list.
NoOrders == [l \in Level |-> <<>>]

LEMMA EmptyBookSound == Sound(EmptyBook, NoOrders) /\ \A o : ~On(NoOrders, o)
<1>1. PICK q : q = NoOrders
  OBVIOUS
<1>2. q \in [Level -> Seq(Address)] /\ \A l \in Level : q[l] = <<>> /\ Len(q[l]) = 0
  BY <1>1 DEF NoOrders
<1>3. PICK b : b = EmptyBook
  OBVIOUS
<1>4. /\ DOMAIN b.orders = Address /\ DOMAIN b.levels = Level
      /\ \A o \in Address : OrderFields \subseteq DOMAIN b.orders[o]
      /\ \A l \in Level : /\ LevelFields \subseteq DOMAIN b.levels[l]
                          /\ b.levels[l].head = NULL /\ b.levels[l].tail = NULL
      /\ b.bitmap = [s \in Side |-> [w \in Word |-> {}]] /\ b.best = [s \in Side |-> 0]
      /\ DOMAIN b.index = {} /\ b.index \in [{} -> Address]
  BY <1>3 DEF EmptyBook, OrderFields, LevelFields
<1>5. Shape(b)
  BY <1>3, <1>4 DEF Shape, EmptyBook
<1>6. Queues(q)
  BY <1>2 DEF Queues
<1>7. Links(b, q)
  <2>1. \A l \in Level : EndsAt(b, q, l)
    BY <1>2, <1>4 DEF EndsAt
  <2> QED BY <1>2, <2>1 DEF Links
<1>8. \A s \in Side : Active(q)[s] = {}
  <2>1. \A s \in Side, p \in Price : Len(q[<<s, p>>]) = 0
    BY <1>2, LevelParts, Zenon
  <2> QED BY <2>1 DEF Active
<1>9. Bits(b, Active(q))
  BY <1>4, <1>8 DEF Bits
<1>10. BestPrices(b, q)
  BY <1>4, <1>8, BookAssumption DEF BestPrices, IsTop, Price
<1>11. \A o : ~On(q, o)
  BY <1>2 DEF On
<1>12. Indexed(b, q)
  BY <1>4, <1>11 DEF Indexed
<1> QED BY <1>1, <1>3, <1>5, <1>6, <1>7, <1>9, <1>10, <1>11, <1>12 DEF Sound

-----------------------------------------------------------------------------
(* OrderPool *)

\* The orders are in use or, once each, on the free list.
PoolSound(p) ==
    /\ DOMAIN p = {"free_list_", "in_use_"}
    /\ p.free_list_ \in Seq(Address) /\ p.in_use_ \subseteq Address
    /\ \A i, j \in 1 .. Len(p.free_list_) : p.free_list_[i] = p.free_list_[j] => i = j
    /\ \A o \in Address : o \in p.in_use_ <=> \A i \in 1 .. Len(p.free_list_) : p.free_list_[i] # o

LEMMA FullPoolSound == PoolSound(FullPool) /\ FullPool.in_use_ = {}
<1>1. FullPool.free_list_ = [i \in 1 .. PoolCapacity |-> i] /\ FullPool.in_use_ = {}
  BY DEF FullPool, Address
<1>2. FullPool.free_list_ \in Seq(Address) /\ Len(FullPool.free_list_) = PoolCapacity
  BY <1>1, BookAssumption DEF Address
<1> QED BY <1>1, <1>2, Zenon DEF PoolSound, FullPool, Address

\* acquire takes an order that was free, if there is one.
LEMMA AcquireSound ==
    ASSUME NEW p, PoolSound(p), Acquired(p) # NULL
    PROVE  /\ PoolSound(acquire(p)) /\ Acquired(p) \in Address \ p.in_use_
           /\ acquire(p).in_use_ = p.in_use_ \cup {Acquired(p)}
<1>1. PICK f \in Seq(Address) : f = p.free_list_
  BY DEF PoolSound
<1>2. PICK n \in Nat : n = Len(f) /\ n # 0
  BY <1>1 DEF Acquired
<1>3. PICK o \in Address : o = f[n] /\ o = Acquired(p)
  BY <1>1, <1>2 DEF Acquired
<1>4. PICK g : g = SubSeq(f, 1, n - 1)
  BY Zenon
<1>10. g \in Seq(Address) /\ Len(g) = n - 1 /\ \A i \in 1 .. n - 1 : g[i] = f[i]
  BY <1>2, <1>4
<1>11. n \in 1 .. n /\ \A i \in 1 .. n - 1 : i \in 1 .. n /\ i # n
  BY <1>2
<1>5. acquire(p) = [free_list_ |-> g, in_use_ |-> p.in_use_ \cup {o}]
  BY <1>1, <1>2, <1>3, <1>4 DEF acquire, Acquired
<1>6. /\ p.in_use_ \subseteq Address
      /\ \A i, j \in 1 .. n : f[i] = f[j] => i = j
      /\ \A x \in Address : x \in p.in_use_ <=> \A i \in 1 .. n : f[i] # x
  BY <1>1, <1>2 DEF PoolSound
<1>7. o \notin p.in_use_
  BY <1>3, <1>6, <1>11, Zenon
<1>8. \A i, j \in 1 .. n - 1 : g[i] = g[j] => i = j
  BY <1>6, <1>10, <1>11
<1>9. \A x \in Address : x \in p.in_use_ \cup {o} <=> \A i \in 1 .. n - 1 : g[i] # x
  <2>1. \A x \in Address : (\A i \in 1 .. n : f[i] # x) <=> (\A i \in 1 .. n - 1 : f[i] # x) /\ f[n] # x
    BY <1>2
  <2>2. \A i \in 1 .. n - 1 : f[i] # o
    BY <1>3, <1>6, <1>11, Zenon
  <2> QED BY <1>3, <1>6, <1>10, <2>1, <2>2
<1> QED BY <1>3, <1>5, <1>6, <1>7, <1>8, <1>9, <1>10 DEF PoolSound

\* release gives back an order that is in use.
LEMMA ReleaseSound ==
    ASSUME NEW p, PoolSound(p), NEW o \in p.in_use_
    PROVE  PoolSound(release(p, o)) /\ release(p, o).in_use_ = p.in_use_ \ {o}
<1>1. PICK f \in Seq(Address) : f = p.free_list_
  BY DEF PoolSound
<1>2. PICK n \in Nat : n = Len(f)
  OBVIOUS
<1>3. o \in Address
  BY DEF PoolSound
<1>11. PICK g : g = Append(f, o)
  BY Zenon
<1>4. /\ g \in Seq(Address) /\ Len(g) = n + 1 /\ g[n + 1] = o
      /\ \A i \in 1 .. n : g[i] = f[i]
  BY <1>2, <1>3, <1>11
<1>5. release(p, o) = [free_list_ |-> g, in_use_ |-> p.in_use_ \ {o}]
  BY <1>1, <1>11 DEF release
<1>6. /\ p.in_use_ \subseteq Address
      /\ \A i, j \in 1 .. n : f[i] = f[j] => i = j
      /\ \A x \in Address : x \in p.in_use_ <=> \A i \in 1 .. n : f[i] # x
  BY <1>1, <1>2 DEF PoolSound
<1>7. \A i \in 1 .. n + 1 : i = n + 1 \/ i \in 1 .. n
  BY <1>2
<1>8. \A i \in 1 .. n : g[i] # o
  BY <1>3, <1>4, <1>6
<1>9. \A i, j \in 1 .. n + 1 : g[i] = g[j] => i = j
  BY <1>2, <1>4, <1>6, <1>7, <1>8
<1>10. \A x \in Address : x \in p.in_use_ \ {o} <=> \A i \in 1 .. n + 1 : g[i] # x
  <2>1. ASSUME NEW x \in Address, x \in p.in_use_ \ {o}, NEW i \in 1 .. n + 1 PROVE g[i] # x
    BY <1>4, <1>6, <1>7, <2>1
  <2>2. ASSUME NEW x \in Address, \A i \in 1 .. n + 1 : g[i] # x PROVE x \in p.in_use_ \ {o}
    <3>1. n + 1 \in 1 .. n + 1 /\ \A i \in 1 .. n : i \in 1 .. n + 1
      BY <1>2
    <3> QED BY <1>4, <1>6, <2>2, <3>1
  <2> QED BY <2>1, <2>2
<1> QED BY <1>4, <1>5, <1>6, <1>9, <1>10 DEF PoolSound
=============================================================================
