-------------------------- MODULE PriceLevelProofs --------------------------
(***************************************************************************)
(* What the lists of PriceLevel and the bitmaps of ArrayOrderBook hold     *)
(* after each operation: a queue of orders read in either direction, and   *)
(* the best active price.                                                  *)
(***************************************************************************)
EXTENDS ArrayOrderBook, FiniteSetTheorems, WellFoundedInduction, TLAPS

-----------------------------------------------------------------------------
(* Induction and walks *)

\* Induction on the natural numbers, from least counterexamples.
LEMMA Induction ==
    ASSUME NEW S, 0 \in S, \A n \in Nat : n \in S => n + 1 \in S
    PROVE  Nat \subseteq S
<1> SUFFICES ASSUME Nat \ S # {} PROVE FALSE
  OBVIOUS
<1>1. PICK m \in Nat \ S : \A n \in Nat \ S : ~(<<n, m>> \in OpToRel(<, Nat))
  BY NatLessThanWellFounded, WFMin, Zenon
<1>2. m # 0
  OBVIOUS
<1>3. m - 1 \in Nat /\ m - 1 < m
  BY <1>2
<1>4. m - 1 \in S
  BY <1>1, <1>3, Zenon DEF OpToRel
<1> QED BY <1>3, <1>4

\* What a walk of up to N steps has passed after each, when step is what one does.
IsPath(path, N, step) == path = [n \in 0 .. N |-> IF n = 0 THEN <<>> ELSE step[path[n - 1]]]

LEMMA PathExists == ASSUME NEW step, NEW N \in Nat PROVE \E path : IsPath(path, N, step)
<1> DEFINE S == {n \in Nat : \E path : IsPath(path, n, step)}
<1>1. 0 \in S
  <2>1. IsPath([n \in 0 .. 0 |-> <<>>], 0, step)
    BY DEF IsPath
  <2> QED BY <2>1
<1>2. ASSUME NEW n \in Nat, n \in S PROVE n + 1 \in S
  <2>1. PICK path : IsPath(path, n, step)
    BY <1>2
  <2> DEFINE more == [m \in 0 .. n + 1 |-> IF m <= n THEN path[m] ELSE step[path[n]]]
  <2>2. \A m \in 0 .. n + 1 : more[m] = IF m = 0 THEN <<>> ELSE step[more[m - 1]]
    BY <2>1 DEF IsPath
  <2>3. IsPath(more, n + 1, step)
    BY <2>2 DEF IsPath
  <2> QED BY <2>3
<1> QED BY <1>1, <1>2, Induction, Zenon

\* Walk finds the list s: it starts at s[1] and the link leads from each order to
\* the next one and from the last one to NULL.
Follows(s, o, link) ==
    /\ s \in Seq(Address)
    /\ \A i, j \in 1 .. Len(s) : s[i] = s[j] => i = j
    /\ o = IF Len(s) = 0 THEN NULL ELSE s[1]
    /\ \A i \in 1 .. Len(s) : link[s[i]] = IF i = Len(s) THEN NULL ELSE s[i + 1]

\* A list without repetition is no longer than there are orders.
LEMMA ListIsShort ==
    ASSUME NEW s \in Seq(Address), \A i, j \in 1 .. Len(s) : s[i] = s[j] => i = j
    PROVE  Len(s) <= PoolCapacity
<1>1. s \in Injection(1 .. Len(s), Address)
  BY DEF Injection, IsInjective
<1>2. IsFiniteSet(Address) /\ Cardinality(Address) = PoolCapacity
  BY FS_Interval, BookAssumption DEF Address
<1>3. Cardinality(1 .. Len(s)) = Len(s)
  BY FS_Interval
<1> QED BY <1>1, <1>2, <1>3, FS_Injection

LEMMA WalkIs ==
    ASSUME NEW o, o # NULL, NEW link
    PROVE  \E path : IsPath(path, PoolCapacity + 1, Further(o, link)) /\ Walk(o, link) = path[PoolCapacity + 1]
<1> DEFINE path == CHOOSE f : f = [n \in 0 .. PoolCapacity + 1 |->
                      IF n = 0 THEN <<>> ELSE Further(o, link)[f[n - 1]]]
<1>1. Walk(o, link) = path[PoolCapacity + 1]
  BY DEF Walk
<1>2. IsPath(path, PoolCapacity + 1, Further(o, link))
  <2>1. PoolCapacity + 1 \in Nat
    BY BookAssumption
  <2>2. \E f : f = [n \in 0 .. PoolCapacity + 1 |-> IF n = 0 THEN <<>> ELSE Further(o, link)[f[n - 1]]]
    <3>1. PICK f : IsPath(f, PoolCapacity + 1, Further(o, link))
      BY <2>1, PathExists
    <3>2. f = [n \in 0 .. PoolCapacity + 1 |-> IF n = 0 THEN <<>> ELSE Further(o, link)[f[n - 1]]]
      BY <3>1, Zenon DEF IsPath
    <3> QED BY <3>2, Zenon
  <2> QED BY <2>2, Zenon DEF IsPath
<1> QED BY <1>1, <1>2, Zenon

\* The first n elements of s.
Prefix(s, n) == [i \in 1 .. n |-> s[i]]

LEMMA WalkFinds == ASSUME NEW s, NEW o, NEW link, Follows(s, o, link) PROVE Walk(o, link) = s
<1>2. PICK k \in Nat : k = Len(s) /\ k <= PoolCapacity
  BY ListIsShort DEF Follows
<1>3. PoolCapacity \in Nat /\ s \in Seq(Address) /\ \A i \in 1 .. k : s[i] \in Address /\ s[i] # NULL
  BY <1>2, BookAssumption DEF Follows, Address, NULL
<1>4. CASE k = 0
  <2>1. o = NULL
    BY <1>2, <1>4 DEF Follows
  <2>2. s = Prefix(s, 0)
    <3>1. s = [i \in 1 .. k |-> s[i]]
      BY <1>2, <1>3
    <3> QED BY <1>4, <3>1 DEF Prefix
  <2>3. Prefix(s, 0) = <<>>
    BY DEF Prefix
  <2> QED BY <2>1, <2>2, <2>3 DEF Walk
<1>5. CASE k # 0
  <2>1. o = s[1] /\ o # NULL
    BY <1>2, <1>3, <1>5 DEF Follows
  <2>2. PICK step : step = Further(o, link)
    OBVIOUS
  <2>3. PICK path : IsPath(path, PoolCapacity + 1, step) /\ Walk(o, link) = path[PoolCapacity + 1]
    BY <2>1, <2>2, WalkIs
  <2>4. \A m \in 0 .. k : Prefix(s, m) \in Seq(Address) /\ Len(Prefix(s, m)) = m
    BY <1>3 DEF Prefix
  <2>5. ASSUME NEW m \in 0 .. k - 1 PROVE step[Prefix(s, m)] = Prefix(s, m + 1)
    <3>1. PICK p \in Seq(Address) : p = Prefix(s, m) /\ Len(p) = m
      BY <2>4, <2>5
    <3>2. (IF p = <<>> THEN o ELSE link[p[Len(p)]]) = s[m + 1]
      <4>1. CASE m = 0
        BY <2>1, <3>1, <4>1
      <4>2. CASE m # 0
        <5>1. p # <<>> /\ p[m] = s[m] /\ m \in 1 .. k /\ m # k
          BY <3>1, <4>2 DEF Prefix
        <5>2. link[s[m]] = s[m + 1]
          BY <1>2, <5>1 DEF Follows
        <5> QED BY <3>1, <5>1, <5>2
      <4> QED BY <4>1, <4>2
    <3>3. s[m + 1] \in Address /\ s[m + 1] # NULL
      BY <1>3, <2>5
    <3>4. step[p] = Append(p, s[m + 1])
      BY <2>2, <3>1, <3>2, <3>3 DEF Further
    <3>5. Append(p, s[m + 1]) = Prefix(s, m + 1)
      <4>1. PICK r : r = Append(p, s[m + 1])
        OBVIOUS
      <4>2. r \in Seq(Address) /\ Len(r) = m + 1 /\ r[m + 1] = s[m + 1] /\ \A i \in 1 .. m : r[i] = p[i]
        BY <3>1, <3>3, <4>1
      <4>3. \A i \in 1 .. m : p[i] = s[i]
        BY <3>1 DEF Prefix
      <4>4. \A i \in 1 .. m + 1 : r[i] = s[i]
        BY <4>2, <4>3
      <4>5. r = [i \in 1 .. m + 1 |-> r[i]]
        BY <4>2
      <4> QED BY <4>1, <4>4, <4>5 DEF Prefix
    <3> QED BY <3>1, <3>4, <3>5
  <2>6. Prefix(s, k) = s /\ step[s] = s
    <3>1. s = [i \in 1 .. k |-> s[i]]
      BY <1>2, <1>3
    <3>2. s # <<>> /\ link[s[k]] = NULL
      BY <1>2, <1>3, <1>5 DEF Follows
    <3> QED BY <1>2, <1>3, <2>2, <3>1, <3>2 DEF Prefix, Further
  <2> DEFINE S == {n \in Nat : n <= PoolCapacity + 1 => path[n] = Prefix(s, IF n < k THEN n ELSE k)}
  <2>7. 0 \in S
    <3>1. path[0] = <<>>
      BY <1>3, <2>3 DEF IsPath
    <3>2. Prefix(s, 0) = <<>>
      BY DEF Prefix
    <3> QED BY <1>5, <3>1, <3>2
  <2>8. ASSUME NEW n \in Nat, n \in S PROVE n + 1 \in S
    <3> SUFFICES ASSUME n + 1 <= PoolCapacity + 1
                 PROVE  path[n + 1] = Prefix(s, IF n + 1 < k THEN n + 1 ELSE k)
      OBVIOUS
    <3>1. path[n + 1] = step[path[n]] /\ path[n] = Prefix(s, IF n < k THEN n ELSE k)
      BY <1>3, <2>3, <2>8 DEF IsPath
    <3>2. CASE n < k
      BY <2>5, <3>1, <3>2
    <3>3. CASE ~(n < k)
      BY <2>6, <3>1, <3>3
    <3> QED BY <3>2, <3>3
  <2>9. Nat \subseteq S
    <3> HIDE DEF S
    <3> QED BY <2>7, <2>8, Induction
  <2>10. path[PoolCapacity + 1] = Prefix(s, k)
    BY <1>2, <1>3, <2>9
  <2> QED BY <2>3, <2>6, <2>10
<1> QED BY <1>4, <1>5

-----------------------------------------------------------------------------
(* PriceLevel: what push_back and remove do to each field *)

OrderFields == {"id", "side", "price", "quantity", "level", "prev", "next"}
LinkFields == {"level", "prev", "next"}
LevelFields == {"price", "head", "tail", "total_quantity"}

\* A book has its fields, and so have its orders and levels.  An order may have
\* more: account_id, for the matching engine.
Shape(b) ==
    /\ {"orders", "levels", "bitmap", "best", "index"} \subseteq DOMAIN b
    /\ DOMAIN b.orders = Address /\ \A o \in Address : OrderFields \subseteq DOMAIN b.orders[o]
    /\ DOMAIN b.levels = Level /\ \A l \in Level : LevelFields \subseteq DOMAIN b.levels[l]

\* From b to c the orders change in their links only.
SameData(b, c) ==
    \A o \in Address :
        /\ DOMAIN c.orders[o] = DOMAIN b.orders[o]
        /\ \A f \in DOMAIN b.orders[o] \ LinkFields : c.orders[o][f] = b.orders[o][f]

Pushed(b, c, l, o, tail) ==
    /\ Shape(c) /\ SameData(b, c)
    /\ c.bitmap = b.bitmap /\ c.best = b.best /\ c.index = b.index
    /\ \A m \in Level :
          /\ c.levels[m].price = b.levels[m].price
          /\ c.levels[m].head = IF m = l /\ tail = NULL THEN o ELSE b.levels[m].head
          /\ c.levels[m].tail = IF m = l THEN o ELSE b.levels[m].tail
          /\ c.levels[m].total_quantity =
                IF m = l THEN Wrap(b.levels[m].total_quantity + b.orders[o].quantity)
                ELSE b.levels[m].total_quantity
    /\ \A p \in Address :
          /\ c.orders[p].level = IF p = o THEN l ELSE b.orders[p].level
          /\ c.orders[p].prev = IF p = o THEN tail ELSE b.orders[p].prev
          /\ c.orders[p].next = IF p = o THEN NULL ELSE IF p = tail THEN o ELSE b.orders[p].next

LEMMA PushBackFields ==
    ASSUME NEW b, Shape(b), NEW l \in Level, NEW o \in Address,
           NEW tail \in (Address \cup {NULL}) \ {o}, b.levels[l].tail = tail
    PROVE  Pushed(b, push_back(b, l, o), l, o, tail)
<1>1. PICK orders : orders = b.orders
  OBVIOUS
<1>2. PICK linked : linked = SetLinks(orders, o, l, tail, NULL)
  OBVIOUS
<1>3. PICK after : after = SetNext(linked, tail, o)
  OBVIOUS
<1>4. PICK c : c = push_back(b, l, o)
  OBVIOUS
<1>5. /\ DOMAIN c = DOMAIN b /\ c.orders = after
      /\ c.bitmap = b.bitmap /\ c.best = b.best /\ c.index = b.index
  BY <1>1, <1>2, <1>3, <1>4 DEF push_back, Shape
<1>6. c.levels = [b.levels EXCEPT ![l] =
                    [price |-> @.price, head |-> IF tail # NULL THEN @.head ELSE o, tail |-> o,
                     total_quantity |-> Wrap(@.total_quantity + b.orders[o].quantity)]]
  BY <1>4 DEF push_back, Shape
<1>7. \A p \in Address : NULL # p
  BY BookAssumption DEF Address, NULL
<1>8. /\ DOMAIN linked = Address
      /\ \A p \in Address :
            /\ DOMAIN linked[p] = DOMAIN orders[p]
            /\ \A f \in DOMAIN orders[p] \ LinkFields : linked[p][f] = orders[p][f]
            /\ linked[p].level = IF p = o THEN l ELSE orders[p].level
            /\ linked[p].prev = IF p = o THEN tail ELSE orders[p].prev
            /\ linked[p].next = IF p = o THEN NULL ELSE orders[p].next
  BY <1>1, <1>2, Zenon DEF SetLinks, Shape, OrderFields, LinkFields
<1>9. /\ DOMAIN after = Address
      /\ \A p \in Address :
            /\ DOMAIN after[p] = DOMAIN linked[p]
            /\ \A f \in DOMAIN linked[p] \ {"next"} : after[p][f] = linked[p][f]
            /\ after[p].next = IF p = tail THEN o ELSE linked[p].next
  BY <1>1, <1>3, <1>7, <1>8 DEF SetNext, Shape, OrderFields
<1>10. Shape(c)
  <2>1. DOMAIN c.levels = Level /\ \A m \in Level : LevelFields \subseteq DOMAIN c.levels[m]
    BY <1>6 DEF Shape, LevelFields
  <2> QED BY <1>1, <1>5, <1>8, <1>9, <2>1 DEF Shape
<1>11. SameData(b, c)
  BY <1>1, <1>5, <1>8, <1>9 DEF SameData, LinkFields
<1>12. \A m \in Level :
          /\ c.levels[m].price = b.levels[m].price
          /\ c.levels[m].head = IF m = l /\ tail = NULL THEN o ELSE b.levels[m].head
          /\ c.levels[m].tail = IF m = l THEN o ELSE b.levels[m].tail
          /\ c.levels[m].total_quantity =
                IF m = l THEN Wrap(b.levels[m].total_quantity + b.orders[o].quantity)
                ELSE b.levels[m].total_quantity
  BY <1>6 DEF Shape, LevelFields
<1>13. \A p \in Address :
          /\ c.orders[p].level = IF p = o THEN l ELSE b.orders[p].level
          /\ c.orders[p].prev = IF p = o THEN tail ELSE b.orders[p].prev
          /\ c.orders[p].next = IF p = o THEN NULL ELSE IF p = tail THEN o ELSE b.orders[p].next
  BY <1>1, <1>5, <1>8, <1>9 DEF Shape, OrderFields
<1> QED BY <1>4, <1>5, <1>10, <1>11, <1>12, <1>13 DEF Pushed

Removed(b, c, l, o, prev, next) ==
    /\ Shape(c) /\ SameData(b, c)
    /\ c.bitmap = b.bitmap /\ c.best = b.best /\ c.index = b.index
    /\ \A m \in Level :
          /\ c.levels[m].price = b.levels[m].price
          /\ c.levels[m].head = IF m = l /\ prev = NULL THEN next ELSE b.levels[m].head
          /\ c.levels[m].tail = IF m = l /\ next = NULL THEN prev ELSE b.levels[m].tail
          /\ c.levels[m].total_quantity =
                IF m = l THEN Wrap(b.levels[m].total_quantity - b.orders[o].quantity)
                ELSE b.levels[m].total_quantity
    /\ \A p \in Address :
          /\ c.orders[p].level = IF p = o THEN NoLevel ELSE b.orders[p].level
          /\ c.orders[p].prev = IF p = o THEN NULL ELSE IF p = next THEN prev ELSE b.orders[p].prev
          /\ c.orders[p].next = IF p = o THEN NULL ELSE IF p = prev THEN next ELSE b.orders[p].next

LEMMA RemoveFields ==
    ASSUME NEW b, Shape(b), NEW l \in Level, NEW o \in Address,
           NEW prev \in (Address \cup {NULL}) \ {o}, NEW next \in (Address \cup {NULL}) \ {o},
           b.orders[o].prev = prev, b.orders[o].next = next
    PROVE  Removed(b, remove(b, l, o), l, o, prev, next)
<1>1. PICK orders : orders = b.orders
  OBVIOUS
<1>2. PICK forward : forward = SetNext(orders, prev, next)
  OBVIOUS
<1>3. PICK unlinked : unlinked = SetPrev(forward, next, prev)
  OBVIOUS
<1>4. PICK after : after = SetLinks(unlinked, o, NoLevel, NULL, NULL)
  OBVIOUS
<1>5. PICK c : c = remove(b, l, o)
  OBVIOUS
<1>6. /\ DOMAIN c = DOMAIN b /\ c.orders = after
      /\ c.bitmap = b.bitmap /\ c.best = b.best /\ c.index = b.index
  BY <1>1, <1>2, <1>3, <1>4, <1>5 DEF remove, Shape
<1>7. c.levels = [b.levels EXCEPT ![l] = LevelWithout(@, b.orders[o])]
  BY <1>5 DEF remove, Shape
<1>8. \A p \in Address : NULL # p
  BY BookAssumption DEF Address, NULL
<1>9. /\ DOMAIN forward = Address
      /\ \A p \in Address :
            /\ DOMAIN forward[p] = DOMAIN orders[p]
            /\ \A f \in DOMAIN orders[p] \ {"next"} : forward[p][f] = orders[p][f]
            /\ forward[p].next = IF p = prev THEN next ELSE orders[p].next
  BY <1>1, <1>2, <1>8 DEF SetNext, Shape, OrderFields
<1>10. /\ DOMAIN unlinked = Address
       /\ \A p \in Address :
             /\ DOMAIN unlinked[p] = DOMAIN forward[p]
             /\ \A f \in DOMAIN forward[p] \ {"prev"} : unlinked[p][f] = forward[p][f]
             /\ unlinked[p].prev = IF p = next THEN prev ELSE forward[p].prev
  BY <1>1, <1>3, <1>8, <1>9 DEF SetPrev, Shape, OrderFields
<1>11. \A p \in Address :
          /\ DOMAIN unlinked[p] = DOMAIN orders[p] /\ OrderFields \subseteq DOMAIN unlinked[p]
          /\ \A f \in DOMAIN orders[p] \ LinkFields : unlinked[p][f] = orders[p][f]
          /\ unlinked[p].level = orders[p].level
          /\ unlinked[p].next = IF p = prev THEN next ELSE orders[p].next
          /\ unlinked[p].prev = IF p = next THEN prev ELSE orders[p].prev
  BY <1>1, <1>9, <1>10 DEF Shape, OrderFields, LinkFields
<1>12. /\ DOMAIN after = Address
       /\ \A p \in Address :
             /\ DOMAIN after[p] = DOMAIN orders[p]
             /\ \A f \in DOMAIN orders[p] \ LinkFields : after[p][f] = orders[p][f]
             /\ after[p].level = IF p = o THEN NoLevel ELSE orders[p].level
             /\ after[p].prev = IF p = o THEN NULL ELSE IF p = next THEN prev ELSE orders[p].prev
             /\ after[p].next = IF p = o THEN NULL ELSE IF p = prev THEN next ELSE orders[p].next
  <2>1. DOMAIN after = Address
    BY <1>4, <1>10 DEF SetLinks
  <2>2. \A p \in Address \ {o} : after[p] = unlinked[p]
    BY <1>4, <1>10 DEF SetLinks
  <2>3. after[o] = [unlinked[o] EXCEPT !.level = NoLevel, !.prev = NULL, !.next = NULL]
    BY <1>4, <1>10 DEF SetLinks
  <2>4. /\ DOMAIN after[o] = DOMAIN unlinked[o]
        /\ \A f \in DOMAIN unlinked[o] \ LinkFields : after[o][f] = unlinked[o][f]
        /\ after[o].level = NoLevel /\ after[o].prev = NULL /\ after[o].next = NULL
    BY <1>11, <2>3, Zenon DEF OrderFields, LinkFields
  <2> QED BY <1>11, <2>1, <2>2, <2>4
<1>13. Shape(c)
  <2>1. DOMAIN c.levels = Level /\ \A m \in Level : LevelFields \subseteq DOMAIN c.levels[m]
    BY <1>7 DEF LevelWithout, Shape, LevelFields
  <2> QED BY <1>1, <1>6, <1>12, <2>1 DEF Shape
<1>14. SameData(b, c)
  BY <1>1, <1>6, <1>12 DEF SameData
<1>15. \A m \in Level :
          /\ c.levels[m].price = b.levels[m].price
          /\ c.levels[m].head = IF m = l /\ prev = NULL THEN next ELSE b.levels[m].head
          /\ c.levels[m].tail = IF m = l /\ next = NULL THEN prev ELSE b.levels[m].tail
          /\ c.levels[m].total_quantity =
                IF m = l THEN Wrap(b.levels[m].total_quantity - b.orders[o].quantity)
                ELSE b.levels[m].total_quantity
  BY <1>7 DEF LevelWithout, Shape, LevelFields
<1> QED BY <1>1, <1>5, <1>6, <1>12, <1>13, <1>14, <1>15 DEF Removed

-----------------------------------------------------------------------------
(* The lists: q gives the orders on the list of each level, oldest first *)

\* A level has the ends of its list, and its price once it has orders.
EndsAt(b, q, l) ==
    /\ b.levels[l].head = IF Len(q[l]) = 0 THEN NULL ELSE q[l][1]
    /\ b.levels[l].tail = IF Len(q[l]) = 0 THEN NULL ELSE q[l][Len(q[l])]
    /\ Len(q[l]) # 0 => b.levels[l].price = l[2]

\* Order p, in place i of the list of l, points at its level and its neighbours.
PlacedAt(b, q, l, i, p) ==
    /\ b.orders[p].level = l /\ b.orders[p].side = l[1] /\ b.orders[p].price = l[2]
    /\ b.orders[p].prev = IF i = 1 THEN NULL ELSE q[l][i - 1]
    /\ b.orders[p].next = IF i = Len(q[l]) THEN NULL ELSE q[l][i + 1]

\* The levels and the orders on their lists point at each other as q says.
Links(b, q) ==
    /\ \A l \in Level : EndsAt(b, q, l)
    /\ \A l \in Level : \A i \in 1 .. Len(q[l]) : PlacedAt(b, q, l, i, q[l][i])

\* An order is at most once on at most one list.
Queues(q) ==
    /\ q \in [Level -> Seq(Address)]
    /\ \A l, m \in Level : \A i \in 1 .. Len(q[l]), j \in 1 .. Len(q[m]) :
          q[l][i] = q[m][j] => l = m /\ i = j

On(q, o) == \E l \in Level : \E i \in 1 .. Len(q[l]) : q[l][i] = o

LEMMA OnePlace ==
    ASSUME NEW q, Queues(q), NEW l \in Level, NEW m \in Level,
           NEW i \in 1 .. Len(q[l]), NEW j \in 1 .. Len(q[m]), q[l][i] = q[m][j]
    PROVE  l = m /\ i = j
BY DEF Queues

\* Reading the lists in either direction yields q.
LEMMA ReadLists ==
    ASSUME NEW b, NEW q, Links(b, q), Queues(q), NEW l \in Level
    PROVE  OrdersAt(b, l) = q[l] /\ OrdersFromTail(b, l) = q[l]
<1>1. PICK s \in Seq(Address) : s = q[l]
  BY DEF Queues
<1>2. \A i, j \in 1 .. Len(s) : s[i] = s[j] => i = j
  BY <1>1 DEF Queues
<1>3. \A i \in 1 .. Len(s) :
         /\ s[i] \in Address
         /\ b.orders[s[i]].prev = IF i = 1 THEN NULL ELSE s[i - 1]
         /\ b.orders[s[i]].next = IF i = Len(s) THEN NULL ELSE s[i + 1]
  BY <1>1 DEF Links, PlacedAt
<1>4. OrdersAt(b, l) = s
  <2>1. PICK link : link = [o \in Address |-> b.orders[o].next]
    BY Zenon
  <2>2. PICK head : head = b.levels[l].head
    OBVIOUS
  <2>3. Follows(s, head, link)
    BY <1>1, <1>2, <1>3, <2>1, <2>2 DEF Follows, Links, EndsAt
  <2> QED BY <2>1, <2>2, <2>3, WalkFinds DEF OrdersAt
<1>5. OrdersFromTail(b, l) = s
  <2>1. PICK link : link = [o \in Address |-> b.orders[o].prev]
    BY Zenon
  <2>2. PICK tail : tail = b.levels[l].tail
    OBVIOUS
  <2>3. PICK k \in Nat : k = Len(s)
    OBVIOUS
  <2>4. PICK r : r = [i \in 1 .. k |-> s[k + 1 - i]]
    BY Zenon
  <2>5. \A i \in 1 .. k : k + 1 - i \in 1 .. k /\ r[i] = s[k + 1 - i]
    BY <2>3, <2>4
  <2>6. r \in Seq(Address) /\ Len(r) = k
    BY <1>3, <2>3, <2>4, <2>5
  <2>7. Follows(r, tail, link)
    <3>1. \A i, j \in 1 .. k : r[i] = r[j] => i = j
      BY <1>2, <2>3, <2>5
    <3>2. tail = IF k = 0 THEN NULL ELSE r[1]
      BY <1>1, <2>2, <2>3, <2>5 DEF Links, EndsAt
    <3>3. \A i \in 1 .. k : link[r[i]] = IF i = k THEN NULL ELSE r[i + 1]
      <4> SUFFICES ASSUME NEW i \in 1 .. k PROVE link[r[i]] = IF i = k THEN NULL ELSE r[i + 1]
        OBVIOUS
      <4>1. PICK j \in 1 .. k : j = k + 1 - i
        BY <2>5
      <4>2. r[i] = s[j] /\ s[j] \in Address /\ link[s[j]] = IF j = 1 THEN NULL ELSE s[j - 1]
        BY <1>3, <2>1, <2>3, <2>5, <4>1, Zenon
      <4>3. j = 1 <=> i = k
        BY <4>1
      <4>4. i # k => r[i + 1] = s[j - 1]
        <5> SUFFICES ASSUME i # k PROVE r[i + 1] = s[j - 1]
          OBVIOUS
        <5>1. i + 1 \in 1 .. k /\ k + 1 - (i + 1) = j - 1
          BY <4>1
        <5> QED BY <2>5, <5>1
      <4> QED BY <4>2, <4>3, <4>4
    <3> QED BY <2>6, <3>1, <3>2, <3>3 DEF Follows
  <2>8. Walk(tail, link) = r
    BY <2>7, WalkFinds
  <2>9. OrdersFromTail(b, l) = [i \in 1 .. k |-> r[k + 1 - i]]
    BY <2>1, <2>2, <2>6, <2>8, Zenon DEF OrdersFromTail
  <2>10. \A i \in 1 .. k : r[k + 1 - i] = s[i]
    BY <2>3, <2>5
  <2> QED BY <2>3, <2>9, <2>10
<1> QED BY <1>1, <1>4, <1>5

\* The lists once o has joined the list of l.
Joined(q, l, o) == [q EXCEPT ![l] = Append(@, o)]

LEMMA JoinedQueues ==
    ASSUME NEW q, Queues(q), NEW l \in Level, NEW o \in Address, ~On(q, o)
    PROVE  /\ Queues(Joined(q, l, o))
           /\ \A p : On(Joined(q, l, o), p) <=> On(q, p) \/ p = o
<1>1. PICK r : r = Joined(q, l, o)
  OBVIOUS
<1>2. PICK s \in Seq(Address) : s = q[l]
  BY DEF Queues
<1>3. /\ r \in [Level -> Seq(Address)] /\ \A m \in Level \ {l} : r[m] = q[m]
      /\ r[l] = Append(s, o) /\ Len(r[l]) = Len(s) + 1 /\ r[l][Len(s) + 1] = o
      /\ \A i \in 1 .. Len(s) : r[l][i] = s[i]
  BY <1>1, <1>2 DEF Joined, Queues
<1>4. \A m \in Level : \A i \in 1 .. Len(r[m]) :
         \/ m = l /\ i = Len(s) + 1 /\ r[m][i] = o
         \/ i \in 1 .. Len(q[m]) /\ r[m][i] = q[m][i] /\ r[m][i] # o
  BY <1>2, <1>3 DEF On
<1>5. \A m, k \in Level : \A i \in 1 .. Len(r[m]), j \in 1 .. Len(r[k]) :
         r[m][i] = r[k][j] => m = k /\ i = j
  <2> SUFFICES ASSUME NEW m \in Level, NEW k \in Level,
                      NEW i \in 1 .. Len(r[m]), NEW j \in 1 .. Len(r[k]), r[m][i] = r[k][j]
               PROVE  m = k /\ i = j
    OBVIOUS
  <2>0. PICK x : x = r[m][i] /\ x = r[k][j]
    OBVIOUS
  <2>1. CASE x = o
    <3>1. m = l /\ i = Len(s) + 1
      BY <1>4, <2>0, <2>1
    <3>2. k = l /\ j = Len(s) + 1
      BY <1>4, <2>0, <2>1, Zenon
    <3> QED BY <3>1, <3>2
  <2>2. CASE x # o
    <3>1. i \in 1 .. Len(q[m]) /\ x = q[m][i]
      BY <1>4, <2>0, <2>2
    <3>2. j \in 1 .. Len(q[k]) /\ x = q[k][j]
      BY <1>4, <2>0, <2>2
    <3>3. i \in 1 .. Len(q[m]) /\ j \in 1 .. Len(q[k]) /\ q[m][i] = q[k][j]
      BY <3>1, <3>2
    <3> QED BY ONLY <3>3, Queues(q), m \in Level, k \in Level, OnePlace
  <2> QED BY <2>1, <2>2
<1>6. \A p : On(r, p) <=> On(q, p) \/ p = o
  <2>1. ASSUME NEW p, On(r, p) PROVE On(q, p) \/ p = o
    BY <1>4, <2>1 DEF On
  <2>2. On(r, o)
    BY <1>2, <1>3 DEF On
  <2>3. ASSUME NEW p, On(q, p) PROVE On(r, p)
    <3>1. PICK m \in Level : \E i \in 1 .. Len(q[m]) : q[m][i] = p
      BY <2>3 DEF On
    <3>2. PICK i \in 1 .. Len(q[m]) : q[m][i] = p
      BY <3>1
    <3>3. i \in 1 .. Len(r[m]) /\ r[m][i] = p
      <4>1. CASE m = l
        <5>1. i \in 1 .. Len(s) /\ Len(s) \in Nat /\ s[i] = p
          BY <1>2, <3>2, <4>1
        <5> QED BY <1>3, <4>1, <5>1
      <4>2. CASE m # l
        BY <1>3, <3>2, <4>2
      <4> QED BY <4>1, <4>2
    <3> QED BY <3>3 DEF On
  <2> QED BY <2>1, <2>2, <2>3
<1> QED BY <1>1, <1>3, <1>5, <1>6 DEF Queues

LEMMA PushBackLinks ==
    ASSUME NEW b, NEW q, Shape(b), Links(b, q), Queues(q), NEW l \in Level, NEW o \in Address,
           ~On(q, o), b.orders[o].side = l[1], b.orders[o].price = l[2], b.levels[l].price = l[2]
    PROVE  /\ Links(push_back(b, l, o), Joined(q, l, o))
           /\ Pushed(b, push_back(b, l, o), l, o, b.levels[l].tail)
<1>1. PICK s \in Seq(Address) : s = q[l]
  BY DEF Queues
<1>2. PICK n \in Nat : n = Len(s)
  OBVIOUS
<1>3. PICK tail : tail = b.levels[l].tail
  OBVIOUS
<1>4. tail = (IF n = 0 THEN NULL ELSE s[n]) /\ b.levels[l].head = IF n = 0 THEN NULL ELSE s[1]
  BY <1>1, <1>2, <1>3 DEF Links, EndsAt
<1>5. tail \in (Address \cup {NULL}) \ {o}
  BY <1>1, <1>2, <1>4, BookAssumption DEF On, Address, NULL
<1>6. PICK c : c = push_back(b, l, o)
  OBVIOUS
<1>7. Pushed(b, c, l, o, tail)
  BY <1>3, <1>5, <1>6, PushBackFields
<1>8. PICK r : r = Joined(q, l, o)
  OBVIOUS
<1>9. /\ r \in [Level -> Seq(Address)] /\ \A m \in Level \ {l} : r[m] = q[m]
      /\ r[l] = Append(s, o) /\ Len(r[l]) = n + 1 /\ r[l][n + 1] = o
      /\ \A i \in 1 .. n : r[l][i] = s[i]
  BY <1>1, <1>2, <1>8 DEF Joined, Queues
<1>10. NULL \notin Address
  BY BookAssumption DEF Address, NULL
<1>11. \A m \in Level : \A i \in 1 .. Len(q[m]) : q[m][i] \in Address /\ q[m][i] # o
  BY DEF On, Queues
<1>12. \A p \in Address : c.orders[p].side = b.orders[p].side /\ c.orders[p].price = b.orders[p].price
  BY <1>7 DEF Pushed, SameData, Shape, OrderFields, LinkFields
<1>13. ASSUME NEW m \in Level PROVE EndsAt(c, r, m)
  <2>1. CASE m # l
    <3>1. EndsAt(b, q, m) /\ r[m] = q[m]
      BY <1>9, <2>1 DEF Links
    <3> QED BY <1>7, <2>1, <3>1 DEF Pushed, EndsAt
  <2>2. /\ c.levels[l].head = r[l][1] /\ c.levels[l].tail = r[l][n + 1]
        /\ c.levels[l].price = l[2]
    BY <1>1, <1>2, <1>4, <1>7, <1>9, <1>10 DEF Pushed
  <2>3. CASE m = l
    BY <1>2, <1>9, <2>2, <2>3 DEF EndsAt
  <2> QED BY <2>1, <2>3
<1>14. ASSUME NEW m \in Level, NEW i \in 1 .. Len(r[m]) PROVE PlacedAt(c, r, m, i, r[m][i])
  <2>1. CASE m # l
    <3>1. r[m] = q[m] /\ i \in 1 .. Len(q[m])
      BY <1>9, <1>14, <2>1
    <3>2. PICK p \in Address : p = q[m][i] /\ p # o
      BY <1>11, <3>1
    <3>3. p # tail
      BY <1>1, <1>2, <1>4, <1>10, <2>1, <3>1, <3>2 DEF Queues
    <3>4. /\ c.orders[p].level = b.orders[p].level /\ c.orders[p].prev = b.orders[p].prev
          /\ c.orders[p].next = b.orders[p].next
      BY <1>7, <3>2, <3>3 DEF Pushed
    <3>5. PlacedAt(b, q, m, i, p)
      BY <3>1, <3>2 DEF Links
    <3> QED BY <1>12, <3>1, <3>2, <3>4, <3>5 DEF PlacedAt
  <2>2. CASE m = l /\ i = n + 1
    <3>1. r[m][i] = o /\ i = Len(r[m])
      BY <1>9, <2>2
    <3>2. /\ c.orders[o].level = l /\ c.orders[o].prev = tail /\ c.orders[o].next = NULL
          /\ c.orders[o].side = l[1] /\ c.orders[o].price = l[2]
      BY <1>7, <1>12 DEF Pushed
    <3>3. i # 1 => i - 1 = n /\ n \in 1 .. n /\ n > 0
      BY <1>2, <2>2
    <3>4. i # 1 => r[m][i - 1] = s[n] /\ tail = s[n]
      BY <1>4, <1>9, <2>2, <3>3
    <3>5. i = 1 => tail = NULL
      BY <1>2, <1>4, <2>2
    <3> QED BY <2>2, <3>1, <3>2, <3>4, <3>5 DEF PlacedAt
  <2>3. CASE m = l /\ i \in 1 .. n
    <3>1. PICK p \in Address : p = s[i] /\ p # o /\ r[m][i] = p
      BY <1>1, <1>2, <1>9, <1>11, <2>3
    <3>2. p = tail <=> i = n
      BY <1>1, <1>2, <1>4, <2>3, <3>1 DEF Queues
    <3>3. PlacedAt(b, q, l, i, p)
      BY <1>1, <1>2, <2>3, <3>1 DEF Links
    <3>4. /\ c.orders[p].level = b.orders[p].level /\ c.orders[p].prev = b.orders[p].prev
          /\ c.orders[p].next = IF i = n THEN o ELSE b.orders[p].next
      BY <1>7, <3>1, <3>2 DEF Pushed
    <3>5. (i # 1 => r[l][i - 1] = s[i - 1]) /\ r[l][i + 1] = IF i = n THEN o ELSE s[i + 1]
      BY <1>2, <1>9, <2>3
    <3>6. i # Len(r[m]) /\ (i = Len(q[l]) <=> i = n) /\ s = q[l]
      BY <1>1, <1>2, <1>9, <2>3
    <3> QED BY <1>12, <2>3, <3>1, <3>3, <3>4, <3>5, <3>6 DEF PlacedAt
  <2> QED BY <1>9, <1>14, <2>1, <2>2, <2>3
<1>15. Links(c, r)
  BY <1>13, <1>14 DEF Links
<1> QED BY <1>3, <1>6, <1>7, <1>8, <1>15

\* The list s without its element i, and the lists once it has left the list of l.
Cut(s, i) == [j \in 1 .. Len(s) - 1 |-> IF j < i THEN s[j] ELSE s[j + 1]]
LeftBy(q, l, i) == [q EXCEPT ![l] = Cut(@, i)]

LEMMA CutSequence ==
    ASSUME NEW s \in Seq(Address), NEW i \in 1 .. Len(s)
    PROVE  Cut(s, i) \in Seq(Address) /\ Len(Cut(s, i)) = Len(s) - 1
<1>1. \A j \in 1 .. Len(s) - 1 : (IF j < i THEN s[j] ELSE s[j + 1]) \in Address
  OBVIOUS
<1>2. Len(s) - 1 \in Nat
  OBVIOUS
<1> QED BY <1>1, <1>2 DEF Cut

LEMMA CutQueues ==
    ASSUME NEW q, Queues(q), NEW l \in Level, NEW i \in 1 .. Len(q[l])
    PROVE  /\ Queues(LeftBy(q, l, i))
           /\ \A p : On(LeftBy(q, l, i), p) <=> On(q, p) /\ p # q[l][i]
<1>1. PICK r : r = LeftBy(q, l, i)
  OBVIOUS
<1>2. PICK s \in Seq(Address) : s = q[l]
  BY DEF Queues
<1>3. PICK n \in Nat : n = Len(s) /\ i \in 1 .. n
  BY <1>2
<1>4. /\ r \in [Level -> Seq(Address)] /\ \A m \in Level \ {l} : r[m] = q[m]
      /\ r[l] = Cut(s, i)
  BY <1>1, <1>2, CutSequence DEF LeftBy, Queues
<1>5. /\ Len(r[l]) = n - 1
      /\ \A j \in 1 .. n - 1 : r[l][j] = IF j < i THEN s[j] ELSE s[j + 1]
  BY <1>2, <1>3, <1>4, CutSequence DEF Cut
<1>6. ASSUME NEW m \in Level, NEW j \in 1 .. Len(r[m])
      PROVE  LET k == IF m = l /\ j >= i THEN j + 1 ELSE j
             IN  k \in 1 .. Len(q[m]) /\ r[m][j] = q[m][k] /\ (m = l => k # i)
  BY <1>2, <1>3, <1>4, <1>5, <1>6
<1>7. \A m, k \in Level : \A j \in 1 .. Len(r[m]), h \in 1 .. Len(r[k]) :
         r[m][j] = r[k][h] => m = k /\ j = h
  <2> SUFFICES ASSUME NEW m \in Level, NEW k \in Level,
                      NEW j \in 1 .. Len(r[m]), NEW h \in 1 .. Len(r[k]), r[m][j] = r[k][h]
               PROVE  m = k /\ j = h
    OBVIOUS
  <2>1. PICK x \in Int : x = (IF m = l /\ j >= i THEN j + 1 ELSE j)
                         /\ x \in 1 .. Len(q[m]) /\ r[m][j] = q[m][x]
    BY <1>6
  <2>2. PICK y \in Int : y = (IF k = l /\ h >= i THEN h + 1 ELSE h)
                         /\ y \in 1 .. Len(q[k]) /\ r[k][h] = q[k][y]
    BY <1>6
  <2>3. m = k /\ x = y
    <3>1. x \in 1 .. Len(q[m]) /\ y \in 1 .. Len(q[k]) /\ q[m][x] = q[k][y]
      BY <2>1, <2>2, Zenon
    <3> QED BY ONLY <3>1, Queues(q), m \in Level, k \in Level, OnePlace
  <2> QED BY <1>3, <2>1, <2>2, <2>3
<1>8. \A p : On(r, p) <=> On(q, p) /\ p # q[l][i]
  <2>1. ASSUME NEW p, On(r, p) PROVE On(q, p) /\ p # q[l][i]
    <3>1. PICK m \in Level : \E j \in 1 .. Len(r[m]) : r[m][j] = p
      BY <2>1 DEF On
    <3>2. PICK j \in 1 .. Len(r[m]) : r[m][j] = p
      BY <3>1
    <3>3. PICK x \in Int : x \in 1 .. Len(q[m]) /\ p = q[m][x] /\ (m = l => x # i)
      BY <1>6, <3>2
    <3>4. On(q, p)
      BY <3>3 DEF On
    <3>5. ASSUME p = q[l][i] PROVE FALSE
      <4>1. x \in 1 .. Len(q[m]) /\ i \in 1 .. Len(q[l]) /\ q[m][x] = q[l][i]
        BY <3>3, <3>5
      <4>2. m = l /\ x = i
        BY ONLY <4>1, Queues(q), m \in Level, l \in Level, OnePlace
      <4> QED BY <3>3, <4>2
    <3> QED BY <3>4, <3>5
  <2>2. ASSUME NEW p, On(q, p), p # q[l][i] PROVE On(r, p)
    <3>1. PICK m \in Level : \E j \in 1 .. Len(q[m]) : q[m][j] = p
      BY <2>2 DEF On
    <3>2. PICK j \in 1 .. Len(q[m]) : q[m][j] = p
      BY <3>1
    <3>3. CASE m # l
      BY <1>4, <3>2, <3>3 DEF On
    <3>4. CASE m = l
      <4>1. j # i /\ j \in 1 .. n /\ s[j] = p
        BY <1>2, <1>3, <2>2, <3>2, <3>4
      <4>2. PICK k \in 1 .. n - 1 : k = IF j < i THEN j ELSE j - 1
        BY <1>3, <4>1
      <4>3. r[l][k] = p /\ k \in 1 .. Len(r[l])
        BY <1>3, <1>5, <4>1, <4>2
      <4> QED BY <4>3 DEF On
    <3> QED BY <3>3, <3>4
  <2> QED BY <2>1, <2>2
<1> QED BY <1>1, <1>4, <1>7, <1>8 DEF Queues

LEMMA RemoveLinks ==
    ASSUME NEW b, NEW q, Shape(b), Links(b, q), Queues(q), NEW l \in Level,
           NEW i \in 1 .. Len(q[l]), NEW o, o = q[l][i]
    PROVE  /\ Links(remove(b, l, o), LeftBy(q, l, i))
           /\ Removed(b, remove(b, l, o), l, o, b.orders[o].prev, b.orders[o].next)
<1>1. PICK s \in Seq(Address) : s = q[l]
  BY DEF Queues
<1>2. PICK n \in Nat : n = Len(s) /\ i \in 1 .. n
  BY <1>1
<1>3. \A j, k \in 1 .. n : s[j] = s[k] => j = k
  BY <1>1, <1>2 DEF Queues
<1>4. PICK prev, next : prev = b.orders[o].prev /\ next = b.orders[o].next
  BY Zenon
<1>5. o \in Address /\ o = s[i] /\ PlacedAt(b, q, l, i, o)
  BY <1>1, <1>2 DEF Links
<1>6. prev = (IF i = 1 THEN NULL ELSE s[i - 1]) /\ next = IF i = n THEN NULL ELSE s[i + 1]
  BY <1>1, <1>2, <1>4, <1>5 DEF PlacedAt
<1>7. NULL \notin Address
  BY BookAssumption DEF Address, NULL
<1>8. \A j \in 1 .. n : s[j] \in Address /\ (s[j] = o => j = i)
  BY <1>2, <1>3, <1>5
<1>9. prev \in (Address \cup {NULL}) \ {o} /\ next \in (Address \cup {NULL}) \ {o}
  BY <1>2, <1>5, <1>6, <1>7, <1>8
<1>10. PICK c : c = remove(b, l, o)
  OBVIOUS
<1>11. Removed(b, c, l, o, prev, next)
  BY <1>4, <1>5, <1>9, <1>10, RemoveFields
<1>12. PICK r : r = LeftBy(q, l, i)
  OBVIOUS
<1>13. /\ r \in [Level -> Seq(Address)] /\ \A m \in Level \ {l} : r[m] = q[m]
       /\ r[l] = Cut(s, i)
  BY <1>1, <1>12, CutSequence DEF LeftBy, Queues
<1>14. /\ Len(r[l]) = n - 1
       /\ \A j \in 1 .. n - 1 : r[l][j] = IF j < i THEN s[j] ELSE s[j + 1]
  BY <1>1, <1>2, <1>13, CutSequence DEF Cut
<1>15. \A p \in Address : c.orders[p].side = b.orders[p].side /\ c.orders[p].price = b.orders[p].price
  BY <1>11 DEF Removed, SameData, Shape, OrderFields, LinkFields
<1>16. ASSUME NEW m \in Level PROVE EndsAt(c, r, m)
  <2>1. EndsAt(b, q, m)
    BY <1>16 DEF Links
  <2>2. CASE m # l
    BY <1>11, <1>13, <2>1, <2>2 DEF Removed, EndsAt
  <2>3. CASE m = l
    <3>1. /\ b.levels[l].head = s[1] /\ b.levels[l].tail = s[n] /\ b.levels[l].price = l[2]
      BY <1>1, <1>2, <2>1, <2>3 DEF EndsAt
    <3>2. /\ c.levels[l].price = l[2]
          /\ c.levels[l].head = IF prev = NULL THEN next ELSE s[1]
          /\ c.levels[l].tail = IF next = NULL THEN prev ELSE s[n]
      BY <1>11, <3>1 DEF Removed
    <3>3. c.levels[l].head = IF n = 1 THEN NULL ELSE r[l][1]
      <4>1. CASE i = 1
        <5>1. prev = NULL /\ next = IF n = 1 THEN NULL ELSE s[2]
          BY <1>2, <1>6, <4>1
        <5>2. n # 1 => 1 \in 1 .. n - 1 /\ ~(1 < i)
          BY <1>2, <4>1
        <5>3. n # 1 => r[l][1] = s[1 + 1]
          BY <1>14, <5>2
        <5> QED BY <3>2, <5>1, <5>3
      <4>2. CASE i # 1
        <5>1. n # 1 /\ 1 \in 1 .. n - 1 /\ 1 < i /\ i - 1 \in 1 .. n
          BY <1>2, <4>2
        <5>2. prev # NULL
          BY <1>6, <1>7, <1>8, <4>2, <5>1
        <5>3. r[l][1] = s[1]
          BY <1>14, <5>1
        <5> QED BY <3>2, <5>1, <5>2, <5>3
      <4> QED BY <4>1, <4>2
    <3>4. c.levels[l].tail = IF n = 1 THEN NULL ELSE r[l][n - 1]
      <4>1. CASE i = n
        <5>1. next = NULL /\ prev = IF n = 1 THEN NULL ELSE s[n - 1]
          BY <1>2, <1>6, <4>1
        <5>2. n # 1 => n - 1 \in 1 .. n - 1 /\ n - 1 < i
          BY <1>2, <4>1
        <5>3. n # 1 => r[l][n - 1] = s[n - 1]
          BY <1>14, <5>2
        <5> QED BY <3>2, <5>1, <5>3
      <4>2. CASE i # n
        <5>1. n # 1 /\ n - 1 \in 1 .. n - 1 /\ ~(n - 1 < i) /\ i + 1 \in 1 .. n /\ n - 1 + 1 = n
          BY <1>2, <4>2
        <5>2. next # NULL
          BY <1>6, <1>7, <1>8, <4>2, <5>1
        <5>3. r[l][n - 1] = s[n]
          BY <1>14, <5>1
        <5> QED BY <3>2, <5>1, <5>2, <5>3
      <4> QED BY <4>1, <4>2
    <3> QED BY <1>2, <1>14, <2>3, <3>2, <3>3, <3>4 DEF EndsAt
  <2> QED BY <2>2, <2>3
<1>17. ASSUME NEW m \in Level, NEW j \in 1 .. Len(r[m]) PROVE PlacedAt(c, r, m, j, r[m][j])
  <2>1. CASE m # l
    <3>1. r[m] = q[m] /\ j \in 1 .. Len(q[m])
      BY <1>13, <1>17, <2>1
    <3>2. PICK p \in Address : p = q[m][j] /\ PlacedAt(b, q, m, j, p)
      BY <3>1 DEF Links, Queues
    <3>3. \A k \in 1 .. n : s[k] # p
      BY <1>1, <1>2, <2>1, <3>1, <3>2, OnePlace
    <3>4. p # o /\ p # prev /\ p # next
      BY <1>2, <1>5, <1>6, <1>7, <3>3
    <3>5. /\ c.orders[p].level = b.orders[p].level /\ c.orders[p].prev = b.orders[p].prev
          /\ c.orders[p].next = b.orders[p].next
      BY <1>11, <3>2, <3>4 DEF Removed
    <3> QED BY <1>15, <3>1, <3>2, <3>5 DEF PlacedAt
  <2>2. CASE m = l
    <3>1. j \in 1 .. n - 1
      BY <1>14, <1>17, <2>2
    <3>2. PICK x \in 1 .. n : x = IF j < i THEN j ELSE j + 1
      BY <1>2, <3>1
    <3>3. PICK p \in Address : p = s[x] /\ p = r[l][j] /\ p # o
      BY <1>2, <1>8, <1>14, <3>1, <3>2
    <3>4. PlacedAt(b, q, l, x, p)
      BY <1>1, <1>2, <3>2, <3>3, Zenon DEF Links
    <3>5. /\ b.orders[p].level = l /\ b.orders[p].side = l[1] /\ b.orders[p].price = l[2]
          /\ b.orders[p].prev = IF x = 1 THEN NULL ELSE s[x - 1]
          /\ b.orders[p].next = IF x = n THEN NULL ELSE s[x + 1]
      BY <1>1, <1>2, <3>4 DEF PlacedAt
    <3>6. (p = prev <=> x = i - 1) /\ (p = next <=> x = i + 1)
      <4>1. p = prev <=> x = i - 1
        <5>1. CASE i = 1
          BY <1>6, <1>7, <3>2, <3>3, <5>1
        <5>2. CASE i # 1
          <6>1. i - 1 \in 1 .. n /\ prev = s[i - 1]
            BY <1>2, <1>6, <5>2
          <6> QED BY <1>3, <3>2, <3>3, <6>1, Zenon
        <5> QED BY <5>1, <5>2
      <4>2. p = next <=> x = i + 1
        <5>1. CASE i = n
          BY <1>6, <1>7, <3>2, <3>3, <5>1
        <5>2. CASE i # n
          <6>1. i + 1 \in 1 .. n /\ next = s[i + 1]
            BY <1>2, <1>6, <5>2
          <6> QED BY <1>3, <3>2, <3>3, <6>1, Zenon
        <5> QED BY <5>1, <5>2
      <4> QED BY <4>1, <4>2
    <3>7. /\ c.orders[p].level = l /\ c.orders[p].side = l[1] /\ c.orders[p].price = l[2]
          /\ c.orders[p].prev = IF x = i + 1 THEN prev ELSE b.orders[p].prev
          /\ c.orders[p].next = IF x = i - 1 THEN next ELSE b.orders[p].next
      BY <1>11, <1>15, <3>3, <3>5, <3>6, Zenon DEF Removed
    <3>8. c.orders[p].prev = IF j = 1 THEN NULL ELSE r[l][j - 1]
      <4>1. CASE j = 1
        BY <1>2, <1>6, <3>1, <3>2, <3>5, <3>7, <4>1
      <4>2. CASE j # 1
        <5>1. r[l][j - 1] = IF j - 1 < i THEN s[j - 1] ELSE s[j]
          BY <1>2, <1>14, <3>1, <4>2
        <5> QED BY <1>2, <1>6, <3>1, <3>2, <3>5, <3>7, <4>2, <5>1
      <4> QED BY <4>1, <4>2
    <3>9. c.orders[p].next = IF j = n - 1 THEN NULL ELSE r[l][j + 1]
      <4>1. CASE j = n - 1
        <5>1. (x = n /\ x # i - 1) \/ (x = n - 1 /\ x = i - 1 /\ i = n)
          BY <1>2, <3>1, <3>2, <4>1
        <5> QED BY <1>6, <3>5, <3>7, <4>1, <5>1
      <4>2. CASE j # n - 1
        <5>1. r[l][j + 1] = IF j + 1 < i THEN s[j + 1] ELSE s[j + 1 + 1]
          BY <1>2, <1>14, <3>1, <4>2
        <5> QED BY <1>2, <1>6, <3>1, <3>2, <3>5, <3>7, <4>2, <5>1
      <4> QED BY <4>1, <4>2
    <3> QED BY <1>14, <2>2, <3>3, <3>7, <3>8, <3>9 DEF PlacedAt
  <2> QED BY <2>1, <2>2
<1>18. Links(c, r)
  BY <1>16, <1>17 DEF Links
<1> QED BY <1>4, <1>10, <1>11, <1>12, <1>18

-----------------------------------------------------------------------------
(* Numbers, least and greatest elements *)

\* Division with remainder.
LEMMA DivMod ==
    ASSUME NEW C \in Nat, C > 0, NEW a \in Nat
    PROVE  /\ a % C \in 0 .. C - 1
           /\ a \div C \in Nat
           /\ a = C * (a \div C) + (a % C)
BY Z3

\* A product grows by at least one factor with the other.
LEMMA Multiples ==
    ASSUME NEW C \in Nat, NEW a \in Nat, NEW b \in Nat, a < b
    PROVE  a * C + C <= b * C
<1>1. b * C = a * C + C + (b - a - 1) * C
  OBVIOUS
<1>2. (b - a - 1) * C >= 0
  OBVIOUS
<1>3. a * C \in Int /\ b * C \in Int /\ (b - a - 1) * C \in Int
  OBVIOUS
<1> QED BY <1>1, <1>2, <1>3

\* A set of natural numbers has a least element, and a greatest if it is bounded.
LEMMA LeastOf ==
    ASSUME NEW S, S \subseteq Nat, S # {}
    PROVE  \E m \in S : \A n \in S : m <= n
<1> DEFINE R == {p \in Nat \X Nat : p[1] < p[2]}
<1>1. IsWellFoundedOn(R, Nat)
  BY NatLessThanWellFounded DEF OpToRel
<1>2. PICK m \in S : \A n \in S : <<n, m>> \notin R
  BY <1>1, WFMin, Zenon
<1>3. \A n \in S : ~(n < m)
  BY <1>2, Zenon
<1> QED BY <1>3

LEMMA MinOf ==
    ASSUME NEW S, S \subseteq Nat, S # {}
    PROVE  Min(S) \in S /\ \A n \in S : Min(S) <= n
<1>1. \E m \in S : \A n \in S : m =< n
  BY LeastOf, Zenon
<1> QED BY <1>1, Zenon DEF Min

LEMMA MaxOf ==
    ASSUME NEW S, NEW k \in Nat, S \subseteq 0 .. k, S # {}
    PROVE  Max(S) \in S /\ \A n \in S : n <= Max(S)
<1>0. PICK T : T = {k - n : n \in S}
  BY Zenon
<1>1. T \subseteq Nat
  BY <1>0
<1>2. T # {}
  BY <1>0, Zenon
<1>3. PICK m \in T : \A n \in T : m <= n
  BY <1>1, <1>2, LeastOf, Zenon
<1>4. PICK x \in S : m = k - x
  BY <1>0, <1>3
<1>5. \A n \in S : x >= n
  BY <1>0, <1>3, <1>4
<1>6. \E y \in S : \A n \in S : y >= n
  BY <1>5
<1>7. Max(S) \in S /\ \A n \in S : Max(S) >= n
  BY <1>6, Zenon DEF Max
<1> QED BY <1>7

\* n is the best of the prices in S for side s, or 0 when there is none.
IsTop(n, S, s) ==
    \/ S = {} /\ n = 0
    \/ n \in S /\ \A p \in S : IF s = "Buy" THEN p <= n ELSE n <= p

-----------------------------------------------------------------------------
(* The bitmaps *)

\* Every price has a bit of its own.
LEMMA PriceParts ==
    ASSUME NEW p \in Price
    PROVE  /\ WordOf(p) \in Word /\ BitOf(p) \in Bit
           /\ WordOf(p) * BitsPerBitmapWord + BitOf(p) = p
<1>1. PICK B \in Nat : B = BitsPerBitmapWord /\ B > 0
  BY BookAssumption
<1>2. PICK M \in Nat : M = MaxPriceLevels /\ M > 0
  BY BookAssumption
<1>3. p \in Nat /\ p <= M - 1
  BY <1>2 DEF Price
<1>4. PICK w \in Nat, bit \in 0 .. B - 1 : w = p \div B /\ bit = p % B /\ p = B * w + bit
  BY <1>1, <1>3, DivMod
<1>5. PICK N \in Nat, k \in 0 .. B - 1 :
         N = (M + B - 1) \div B /\ k = (M + B - 1) % B /\ M + B - 1 = B * N + k
  <2>1. M + B - 1 \in Nat
    BY <1>1, <1>2
  <2> QED BY <1>1, <2>1, DivMod
<1>6. w <= N - 1
  <2> SUFFICES ASSUME N <= w PROVE FALSE
    OBVIOUS
  <2>1. N * B <= w * B
    <3>1. CASE N = w
      BY <3>1
    <3>2. CASE N < w
      BY <3>2, <1>1, Multiples
    <3> QED BY <3>1, <3>2
  <2>2. N * B = B * N /\ w * B = B * w /\ B * N \in Int /\ B * w \in Int
    OBVIOUS
  <2> QED BY <1>1, <1>2, <1>3, <1>4, <1>5, <2>1, <2>2
<1>7. w * B = B * w
  OBVIOUS
<1> QED BY <1>1, <1>2, <1>4, <1>5, <1>6, <1>7 DEF WordOf, BitOf, Word, Bit

\* Prices are ordered by their words, and in a word by their bits.
LEMMA PriceOrder ==
    ASSUME NEW v \in Nat, NEW w \in Nat, NEW a \in Bit, NEW c \in Bit
    PROVE  /\ v < w => v * BitsPerBitmapWord + a < w * BitsPerBitmapWord + c
           /\ v = w => (v * BitsPerBitmapWord + a < w * BitsPerBitmapWord + c <=> a < c)
           /\ v * BitsPerBitmapWord + a = w * BitsPerBitmapWord + c => v = w /\ a = c
           /\ v * BitsPerBitmapWord + a \in Nat
<1>1. PICK B \in Nat : B = BitsPerBitmapWord /\ B > 0
  BY BookAssumption
<1>2. a \in 0 .. B - 1 /\ c \in 0 .. B - 1
  BY <1>1 DEF Bit
<1>3. v * B \in Nat /\ w * B \in Nat
  OBVIOUS
<1>4. v < w => v * B + B <= w * B
  BY <1>1, Multiples
<1>5. w < v => w * B + B <= v * B
  BY <1>1, Multiples
<1> QED BY <1>1, <1>2, <1>3, <1>4, <1>5

\* The bits set are those of the prices in S, for each side.
Bits(b, S) ==
    /\ b.bitmap \in [Side -> [Word -> SUBSET Bit]]
    /\ \A s \in Side, w \in Word, bit \in Bit :
          bit \in b.bitmap[s][w] <=> w * BitsPerBitmapWord + bit \in S[s]

WithPrice(S, s, p) == [S EXCEPT ![s] = @ \cup {p}]
WithoutPrice(S, s, p) == [S EXCEPT ![s] = @ \ {p}]

LEMMA SetBit ==
    ASSUME NEW b, NEW S \in [Side -> SUBSET Price], Shape(b), Bits(b, S), NEW s \in Side, NEW p \in Price,
           NEW c, c = setLevelActive(b, s, p)
    PROVE  /\ Bits(c, WithPrice(S, s, p))
           /\ DOMAIN c = DOMAIN b /\ c.orders = b.orders /\ c.levels = b.levels
           /\ c.best = b.best /\ c.index = b.index
<1>1. PICK x \in Word : x = WordOf(p)
  BY PriceParts
<1>2. PICK y \in Bit : y = BitOf(p) /\ x * BitsPerBitmapWord + y = p
  BY <1>1, PriceParts
<1>3. c = [b EXCEPT !.bitmap[s][x] = @ \cup {y}]
  BY <1>1, <1>2 DEF setLevelActive
<1>4. /\ DOMAIN c = DOMAIN b /\ c.orders = b.orders /\ c.levels = b.levels
      /\ c.best = b.best /\ c.index = b.index
      /\ c.bitmap = [b.bitmap EXCEPT ![s][x] = @ \cup {y}]
  BY <1>3 DEF Shape
<1>5. /\ c.bitmap \in [Side -> [Word -> SUBSET Bit]]
      /\ \A t \in Side, w \in Word :
            c.bitmap[t][w] = IF t = s /\ w = x THEN b.bitmap[t][w] \cup {y} ELSE b.bitmap[t][w]
  <2>1. PICK bm \in [Side -> [Word -> SUBSET Bit]] : bm = b.bitmap
    BY DEF Bits
  <2>2. PICK set \in SUBSET Bit : set = bm[s][x] \cup {y}
    BY Zenon
  <2>3. PICK row \in [Word -> SUBSET Bit] : row = [bm[s] EXCEPT ![x] = set]
    BY Zenon
  <2>4. c.bitmap = [bm EXCEPT ![s] = row]
    BY <1>4, <2>1, <2>2, <2>3
  <2>5. c.bitmap \in [Side -> [Word -> SUBSET Bit]]
    BY <2>4
  <2>6. ASSUME NEW t \in Side, NEW w \in Word
        PROVE  c.bitmap[t][w] = IF t = s /\ w = x THEN bm[t][w] \cup {y} ELSE bm[t][w]
    <3>1. CASE t = s
      <4>1. c.bitmap[t] = row /\ row[w] = IF w = x THEN set ELSE bm[s][w]
        BY <2>3, <2>4, <2>6, <3>1
      <4> QED BY <2>2, <3>1, <4>1, Zenon
    <3>2. CASE t # s
      BY <2>4, <2>6, <3>2
    <3> QED BY <3>1, <3>2
  <2> QED BY <2>1, <2>5, <2>6, Zenon
<1>6. ASSUME NEW t \in Side, NEW w \in Word, NEW bit \in Bit
      PROVE  bit \in c.bitmap[t][w] <=> w * BitsPerBitmapWord + bit \in [S EXCEPT ![s] = @ \cup {p}][t]
  <2>1. bit \in b.bitmap[t][w] <=> w * BitsPerBitmapWord + bit \in S[t]
    BY <1>6 DEF Bits
  <2>2. w \in Nat /\ x \in Nat
    BY <1>1, <1>6 DEF Word
  <2>3. w * BitsPerBitmapWord + bit = p <=> w = x /\ bit = y
    BY <1>2, <1>6, <2>2, PriceOrder
  <2>4. CASE t = s
    <3>1. [S EXCEPT ![s] = @ \cup {p}][t] = S[t] \cup {p}
      BY <2>4
    <3>2. c.bitmap[t][w] = IF w = x THEN b.bitmap[t][w] \cup {y} ELSE b.bitmap[t][w]
      BY <1>5, <2>4, Zenon
    <3> QED BY <2>1, <2>3, <3>1, <3>2
  <2>5. CASE t # s
    BY <1>5, <2>1, <2>5, Zenon
  <2> QED BY <2>4, <2>5
<1> QED BY <1>4, <1>5, <1>6 DEF Bits, WithPrice

LEMMA ClearBit ==
    ASSUME NEW b, NEW S \in [Side -> SUBSET Price], Shape(b), Bits(b, S), NEW s \in Side, NEW p \in Price,
           NEW c, c = clearLevelActive(b, s, p)
    PROVE  /\ Bits(c, WithoutPrice(S, s, p))
           /\ DOMAIN c = DOMAIN b /\ c.orders = b.orders /\ c.levels = b.levels
           /\ c.best = b.best /\ c.index = b.index
<1>1. PICK x \in Word : x = WordOf(p)
  BY PriceParts
<1>2. PICK y \in Bit : y = BitOf(p) /\ x * BitsPerBitmapWord + y = p
  BY <1>1, PriceParts
<1>3. c = [b EXCEPT !.bitmap[s][x] = @ \ {y}]
  BY <1>1, <1>2 DEF clearLevelActive
<1>4. /\ DOMAIN c = DOMAIN b /\ c.orders = b.orders /\ c.levels = b.levels
      /\ c.best = b.best /\ c.index = b.index
      /\ c.bitmap = [b.bitmap EXCEPT ![s][x] = @ \ {y}]
  BY <1>3 DEF Shape
<1>5. /\ c.bitmap \in [Side -> [Word -> SUBSET Bit]]
      /\ \A t \in Side, w \in Word :
            c.bitmap[t][w] = IF t = s /\ w = x THEN b.bitmap[t][w] \ {y} ELSE b.bitmap[t][w]
  <2>1. PICK bm \in [Side -> [Word -> SUBSET Bit]] : bm = b.bitmap
    BY DEF Bits
  <2>2. PICK set \in SUBSET Bit : set = bm[s][x] \ {y}
    BY Zenon
  <2>3. PICK row \in [Word -> SUBSET Bit] : row = [bm[s] EXCEPT ![x] = set]
    BY Zenon
  <2>4. c.bitmap = [bm EXCEPT ![s] = row]
    BY <1>4, <2>1, <2>2, <2>3
  <2>5. c.bitmap \in [Side -> [Word -> SUBSET Bit]]
    BY <2>4
  <2>6. ASSUME NEW t \in Side, NEW w \in Word
        PROVE  c.bitmap[t][w] = IF t = s /\ w = x THEN bm[t][w] \ {y} ELSE bm[t][w]
    <3>1. CASE t = s
      <4>1. c.bitmap[t] = row /\ row[w] = IF w = x THEN set ELSE bm[s][w]
        BY <2>3, <2>4, <2>6, <3>1
      <4> QED BY <2>2, <3>1, <4>1, Zenon
    <3>2. CASE t # s
      BY <2>4, <2>6, <3>2
    <3> QED BY <3>1, <3>2
  <2> QED BY <2>1, <2>5, <2>6, Zenon
<1>6. ASSUME NEW t \in Side, NEW w \in Word, NEW bit \in Bit
      PROVE  bit \in c.bitmap[t][w] <=> w * BitsPerBitmapWord + bit \in [S EXCEPT ![s] = @ \ {p}][t]
  <2>1. bit \in b.bitmap[t][w] <=> w * BitsPerBitmapWord + bit \in S[t]
    BY <1>6 DEF Bits
  <2>2. w \in Nat /\ x \in Nat
    BY <1>1, <1>6 DEF Word
  <2>3. w * BitsPerBitmapWord + bit = p <=> w = x /\ bit = y
    BY <1>2, <1>6, <2>2, PriceOrder
  <2>4. CASE t = s
    <3>1. [S EXCEPT ![s] = @ \ {p}][t] = S[t] \ {p}
      BY <2>4
    <3>2. c.bitmap[t][w] = IF w = x THEN b.bitmap[t][w] \ {y} ELSE b.bitmap[t][w]
      BY <1>5, <2>4, Zenon
    <3> QED BY <2>1, <2>3, <3>1, <3>2
  <2>5. CASE t # s
    BY <1>5, <2>1, <2>5, Zenon
  <2> QED BY <2>4, <2>5
<1> QED BY <1>4, <1>5, <1>6 DEF Bits, WithoutPrice

LEMMA WordsAre == \E N \in Nat : Word = 0 .. N - 1
<1>1. MaxPriceLevels + BitsPerBitmapWord - 1 \in Nat /\ BitsPerBitmapWord \in Nat /\ BitsPerBitmapWord > 0
  BY BookAssumption
<1>2. (MaxPriceLevels + BitsPerBitmapWord - 1) \div BitsPerBitmapWord \in Nat
  BY <1>1, DivMod
<1> QED BY <1>2 DEF Word

\* The best bid was x, which is not active any more: the search downwards from
\* it ends at the best of what is active.
LEMMA RefreshBid ==
    ASSUME NEW b, NEW S \in [Side -> SUBSET Price], Shape(b), Bits(b, S), b.best \in [Side -> Price],
           b.best["Buy"] # 0, \A p \in S["Buy"] : p < b.best["Buy"],
           NEW c, c = refreshBestBid(b)
    PROVE  /\ DOMAIN c = DOMAIN b /\ c.orders = b.orders /\ c.levels = b.levels
           /\ c.bitmap = b.bitmap /\ c.index = b.index
           /\ c.best \in [Side -> Price] /\ c.best["Sell"] = b.best["Sell"]
           /\ IsTop(c.best["Buy"], S["Buy"], "Buy")
<1>0. "Buy" \in Side /\ "Sell" \in Side
  BY DEF Side
<1>1. PICK x \in Price : x = b.best["Buy"]
  BY <1>0
<1>2. PICK A \in SUBSET Price : A = S["Buy"]
  BY <1>0
<1>3. PICK first \in Word : first = WordOf(x)
  BY PriceParts
<1>4. PICK y \in Bit : y = BitOf(x) /\ first * BitsPerBitmapWord + y = x
  BY <1>3, PriceParts
<1>5. PICK bm : bm = b.bitmap["Buy"]
  OBVIOUS
<1> DEFINE Masked(w) == {bit \in bm[w] : w = first => bit < y}
<1>6. PICK words : words = {w \in 0 .. first : Masked(w) # {}}
  BY Zenon
<1>7. PICK best : best = IF words = {} THEN 0
                         ELSE Max(words) * BitsPerBitmapWord + Max(Masked(Max(words)))
  BY Zenon
<1>8. c = [b EXCEPT !.best["Buy"] = best]
  BY <1>1, <1>3, <1>4, <1>5, <1>6, <1>7 DEF refreshBestBid
<1>9. /\ DOMAIN c = DOMAIN b /\ c.orders = b.orders /\ c.levels = b.levels
      /\ c.bitmap = b.bitmap /\ c.index = b.index
      /\ c.best = [b.best EXCEPT !["Buy"] = best]
  BY <1>8 DEF Shape
<1>10. PICK B \in Nat : B = BitsPerBitmapWord /\ B > 0
  BY BookAssumption
<1>11. 0 .. first \subseteq Word /\ first \in Nat /\ Bit = 0 .. B - 1 /\ Word \subseteq Nat
  <2>1. PICK N \in Nat : Word = 0 .. N - 1
    BY WordsAre
  <2> QED BY <1>10, <2>1 DEF Bit
<1>12. ASSUME NEW w \in 0 .. first PROVE Masked(w) \subseteq 0 .. B - 1 
  BY <1>0, <1>5, <1>11 DEF Bits
<1>13. ASSUME NEW w \in 0 .. first, NEW bit \in Bit
       PROVE  bit \in Masked(w) <=> w * B + bit \in A
  <2>1. bit \in bm[w] <=> w * B + bit \in A
    BY <1>0, <1>2, <1>5, <1>10, <1>11 DEF Bits
  <2>2. w * B + bit \in A => w * B + bit < x
    BY <1>1, <1>2
  <2>3. w = first => (w * B + bit < x <=> bit < y)
    BY <1>4, <1>10, <1>11, PriceOrder
  <2> QED BY <2>1, <2>2, <2>3
<1>14. ASSUME NEW p \in A
       PROVE  WordOf(p) \in words /\ BitOf(p) \in Masked(WordOf(p)) /\ p = WordOf(p) * B + BitOf(p)
  <2>1. PICK v \in Word, bit \in Bit : v = WordOf(p) /\ bit = BitOf(p) /\ v * B + bit = p
    BY <1>2, <1>10, <1>14, PriceParts
  <2>2. p < x
    BY <1>1, <1>2, <1>14
  <2>3. v <= first
    <3> SUFFICES ASSUME first < v PROVE FALSE
      BY <1>11, <2>1
    <3>1. first * B + y < v * B + bit
      BY <1>10, <1>11, <2>1, PriceOrder
    <3> QED BY <1>4, <1>10, <2>1, <2>2, <3>1 DEF Price
  <2>4. v \in 0 .. first
    BY <1>11, <2>1, <2>3
  <2>5. bit \in Masked(v)
    BY <1>13, <1>14, <2>1, <2>4
  <2> QED BY <1>6, <2>1, <2>4, <2>5
<1>15. IsTop(best, A, "Buy")
  <2>1. CASE words = {}
    <3>1. A = {}
      BY <1>14, <2>1
    <3> QED BY <1>7, <2>1, <3>1 DEF IsTop
  <2>2. CASE words # {}
    <3>1. PICK W : W = Max(words)
      OBVIOUS
    <3>2. W \in words /\ \A v \in words : v <= W
      <4>1. words \subseteq 0 .. first
        BY <1>6
      <4> QED BY <1>11, <2>2, <3>1, <4>1, MaxOf, Zenon
    <3>3. W \in 0 .. first /\ Masked(W) # {}
      BY <1>6, <3>2
    <3>4. PICK set : set = Masked(W)
      BY Zenon
    <3>5. PICK M : M = Max(set)
      OBVIOUS
    <3>6. M \in set /\ \A bit \in set : bit <= M
      <4>1. B - 1 \in Nat /\ set \subseteq 0 .. B - 1 /\ set # {}
        BY <1>10, <1>12, <3>3, <3>4
      <4> QED BY <3>5, <4>1, MaxOf, Zenon
    <3>7. M \in Bit /\ best = W * B + M
      BY <1>7, <1>10, <1>11, <1>12, <2>2, <3>1, <3>3, <3>4, <3>5, <3>6
    <3>8. best \in A
      BY <1>13, <3>3, <3>4, <3>6, <3>7
    <3>9. ASSUME NEW p \in A PROVE p <= best
      <4>1. PICK v, bit : v \in words /\ bit \in Masked(v) /\ p = v * B + bit
        BY <1>14, <3>9
      <4>2. v \in 0 .. first /\ v <= W /\ bit \in Bit
        BY <1>6, <1>11, <1>12, <3>2, <4>1
      <4>3. CASE v < W
        <5>1. v * B + bit < W * B + M
          BY <1>10, <1>11, <3>3, <3>7, <4>2, <4>3, PriceOrder
        <5>2. p \in Int /\ best \in Int
          BY <1>2, <3>8, <3>9 DEF Price
        <5> QED BY <3>7, <4>1, <5>1, <5>2
      <4>4. CASE v = W
        <5>1. bit <= M
          BY <3>4, <3>6, <4>1, <4>4
        <5>2. W * B \in Int /\ bit \in Int /\ M \in Int
          BY <1>10, <1>11, <3>3, <3>7, <4>2
        <5> QED BY <3>7, <4>1, <4>4, <5>1, <5>2
      <4> QED BY <1>11, <3>3, <4>2, <4>3, <4>4
    <3> QED BY <3>8, <3>9 DEF IsTop
  <2> QED BY <2>1, <2>2
<1>16. best \in Price
  BY <1>2, <1>15, BookAssumption DEF IsTop, Price
<1> QED BY <1>0, <1>2, <1>9, <1>15, <1>16

\* The best ask was x, which is not active any more: the search upwards from
\* it ends at the best of what is active.
LEMMA RefreshAsk ==
    ASSUME NEW b, NEW S \in [Side -> SUBSET Price], Shape(b), Bits(b, S), b.best \in [Side -> Price],
           b.best["Sell"] # 0, \A p \in S["Sell"] : b.best["Sell"] < p,
           NEW c, c = refreshBestAsk(b)
    PROVE  /\ DOMAIN c = DOMAIN b /\ c.orders = b.orders /\ c.levels = b.levels
           /\ c.bitmap = b.bitmap /\ c.index = b.index
           /\ c.best \in [Side -> Price] /\ c.best["Buy"] = b.best["Buy"]
           /\ IsTop(c.best["Sell"], S["Sell"], "Sell")
<1>0. "Buy" \in Side /\ "Sell" \in Side
  BY DEF Side
<1>1. PICK x \in Price : x = b.best["Sell"]
  BY <1>0
<1>2. PICK A \in SUBSET Price : A = S["Sell"]
  BY <1>0
<1>3. PICK first \in Word : first = WordOf(x)
  BY PriceParts
<1>4. PICK y \in Bit : y = BitOf(x) /\ first * BitsPerBitmapWord + y = x
  BY <1>3, PriceParts
<1>5. PICK bm : bm = b.bitmap["Sell"]
  OBVIOUS
<1> DEFINE Masked(w) == {bit \in bm[w] : w = first => bit >= y + 1}
<1>6. PICK words : words = {w \in Word : w >= first /\ Masked(w) # {}}
  BY Zenon
<1>7. PICK best : best = IF words = {} THEN 0
                         ELSE Min(words) * BitsPerBitmapWord + Min(Masked(Min(words)))
  BY Zenon
<1>8. c = [b EXCEPT !.best["Sell"] = best]
  BY <1>1, <1>3, <1>4, <1>5, <1>6, <1>7 DEF refreshBestAsk
<1>9. /\ DOMAIN c = DOMAIN b /\ c.orders = b.orders /\ c.levels = b.levels
      /\ c.bitmap = b.bitmap /\ c.index = b.index
      /\ c.best = [b.best EXCEPT !["Sell"] = best]
  BY <1>8 DEF Shape
<1>10. PICK B \in Nat : B = BitsPerBitmapWord /\ B > 0
  BY BookAssumption
<1>11. first \in Nat /\ Bit = 0 .. B - 1 /\ Word \subseteq Nat
  <2>1. PICK N \in Nat : Word = 0 .. N - 1
    BY WordsAre
  <2> QED BY <1>10, <2>1 DEF Bit
<1>12. ASSUME NEW w \in Word, w >= first PROVE Masked(w) \subseteq 0 .. B - 1 
  BY <1>0, <1>5, <1>11, <1>12 DEF Bits
<1>13. ASSUME NEW w \in Word, w >= first, NEW bit \in Bit
       PROVE  bit \in Masked(w) <=> w * B + bit \in A
  <2>1. bit \in bm[w] <=> w * B + bit \in A
    BY <1>0, <1>2, <1>5, <1>10, <1>11, <1>13 DEF Bits
  <2>2. w * B + bit \in A => x < w * B + bit
    BY <1>1, <1>2
  <2>3. w = first => (x < w * B + bit <=> bit >= y + 1)
    BY <1>4, <1>10, <1>11, <1>13, PriceOrder
  <2> QED BY <2>1, <2>2, <2>3
<1>14. ASSUME NEW p \in A
       PROVE  WordOf(p) \in words /\ BitOf(p) \in Masked(WordOf(p)) /\ p = WordOf(p) * B + BitOf(p)
  <2>1. PICK v \in Word, bit \in Bit : v = WordOf(p) /\ bit = BitOf(p) /\ v * B + bit = p
    BY <1>2, <1>10, <1>14, PriceParts
  <2>2. x < p
    BY <1>1, <1>2, <1>14
  <2>3. v >= first
    <3> SUFFICES ASSUME v < first PROVE FALSE
      BY <1>11, <2>1
    <3>1. v * B + bit < first * B + y
      BY <1>10, <1>11, <2>1, PriceOrder
    <3> QED BY <1>4, <1>10, <2>1, <2>2, <3>1 DEF Price
  <2>4. v \in Word /\ v >= first
    BY <1>11, <2>1, <2>3
  <2>5. bit \in Masked(v)
    BY <1>13, <1>14, <2>1, <2>4
  <2> QED BY <1>6, <2>1, <2>4, <2>5
<1>15. IsTop(best, A, "Sell")
  <2>1. CASE words = {}
    <3>1. A = {}
      BY <1>14, <2>1
    <3> QED BY <1>7, <2>1, <3>1 DEF IsTop
  <2>2. CASE words # {}
    <3>1. PICK W : W = Min(words)
      OBVIOUS
    <3>2. W \in words /\ \A v \in words : W <= v
      <4>1. words \subseteq Nat
        BY <1>6, <1>11, Zenon
      <4> QED BY <1>11, <2>2, <3>1, <4>1, MinOf, Zenon
    <3>3. W \in Word /\ W >= first /\ Masked(W) # {}
      BY <1>6, <3>2
    <3>4. PICK set : set = Masked(W)
      BY Zenon
    <3>5. PICK M : M = Min(set)
      OBVIOUS
    <3>6. M \in set /\ \A bit \in set : M <= bit
      <4>1. set \subseteq Nat /\ set # {}
        BY <1>10, <1>12, <3>3, <3>4
      <4> QED BY <3>5, <4>1, MinOf, Zenon
    <3>7. M \in Bit /\ best = W * B + M
      BY <1>7, <1>10, <1>11, <1>12, <2>2, <3>1, <3>3, <3>4, <3>5, <3>6
    <3>8. best \in A
      BY <1>13, <3>3, <3>4, <3>6, <3>7
    <3>9. ASSUME NEW p \in A PROVE best <= p
      <4>1. PICK v, bit : v \in words /\ bit \in Masked(v) /\ p = v * B + bit
        BY <1>14, <3>9
      <4>2. v \in Word /\ v >= first /\ W <= v /\ bit \in Bit
        BY <1>6, <1>11, <1>12, <3>2, <4>1
      <4>3. CASE W < v
        <5>1. W * B + M < v * B + bit
          BY <1>10, <1>11, <3>3, <3>7, <4>2, <4>3, PriceOrder
        <5>2. p \in Int /\ best \in Int
          BY <1>2, <3>8, <3>9 DEF Price
        <5> QED BY <3>7, <4>1, <5>1, <5>2
      <4>4. CASE v = W
        <5>1. M <= bit
          BY <3>4, <3>6, <4>1, <4>4
        <5>2. W * B \in Int /\ bit \in Int /\ M \in Int
          BY <1>10, <1>11, <3>3, <3>7, <4>2
        <5> QED BY <3>7, <4>1, <4>4, <5>1, <5>2
      <4> QED BY <1>11, <3>3, <4>2, <4>3, <4>4
    <3> QED BY <3>8, <3>9 DEF IsTop
  <2> QED BY <2>1, <2>2
<1>16. best \in Price
  BY <1>2, <1>15, BookAssumption DEF IsTop, Price
<1> QED BY <1>0, <1>2, <1>9, <1>15, <1>16
=============================================================================
