--------------------- MODULE MarketDataBookRefinement ---------------------
(***************************************************************************)
(* Proof that MarketDataBookConsumer implements LimitOrderBook: the lists  *)
(* of the array book are the queues of the feed, and every event, in       *)
(* whatever way the pool and the index take it, is a step of the queues.   *)
(***************************************************************************)
EXTENDS MarketDataBookConsumerProofs

-----------------------------------------------------------------------------
(* The queues that the lists stand for *)

Entry(b, o) == [id |-> Id(b, o), quantity |-> Quantity(b, o)]
Entries(b, list) == [i \in 1 .. Len(list) |-> Entry(b, list[i])]
Queue(b, q) == [l \in Side \X Prices |-> Entries(b, q[l])]

LEMMA FeedLevels ==
    /\ Side \X Prices \subseteq Level
    /\ \A l \in Level : l[2] \in Prices => l \in Side \X Prices
BY LevelParts, FeedAssumption DEF Level

LEMMA SameEntries ==
    ASSUME NEW b, NEW c, NEW list, Len(list) \in Nat,
           \A i \in 1 .. Len(list) : SameOrder(b, c, list[i])
    PROVE  Entries(c, list) = Entries(b, list)
BY DEF Entries, Entry, SameOrder

LEMMA EntriesAre ==
    ASSUME NEW b, NEW list \in Seq(Address)
    PROVE  /\ Entries(b, list) \in Seq({Entry(b, o) : o \in Address})
           /\ Len(Entries(b, list)) = Len(list)
           /\ \A i \in 1 .. Len(list) : Entries(b, list)[i] = Entry(b, list[i])
<1>1. PICK n \in Nat : n = Len(list)
  OBVIOUS
<1>2. \A i \in 1 .. n : list[i] \in Address
  BY <1>1
<1>3. Entries(b, list) \in [1 .. n -> {Entry(b, o) : o \in Address}]
  BY <1>1, <1>2 DEF Entries
<1> QED BY <1>1, <1>3 DEF Entries

\* An order that joins the list of l joins its queue.
LEMMA JoinQueue ==
    ASSUME NEW b, NEW c, NEW q, Queues(q), NEW l \in Side \X Prices, NEW o \in Address,
           \A x \in Address : On(q, x) => SameOrder(b, c, x),
           Id(c, o) \in Ids, Quantity(c, o) \in Quantities,
           NEW Q, Q = Queue(b, q), NEW R, R = Queue(c, Joined(q, l, o))
    PROVE  FeedBook!Joins(Q, R, l) /\ FeedBook!Newest(R[l]) = Entry(c, o)
<1>1. q \in [Level -> Seq(Address)] /\ l \in Level
  BY FeedLevels DEF Queues
<1>2. PICK s \in Seq(Address) : s = q[l]
  BY <1>1
<1>3. PICK n \in Nat : n = Len(s)
  OBVIOUS
<1>4. ASSUME NEW m \in Side \X Prices PROVE Entries(c, q[m]) = Entries(b, q[m])
  <2>1. m \in Level /\ q[m] \in Seq(Address)
    BY <1>1, <1>4, FeedLevels
  <2>2. \A i \in 1 .. Len(q[m]) : q[m][i] \in Address /\ On(q, q[m][i])
    BY <2>1 DEF On
  <2> QED BY <2>1, <2>2, SameEntries
<1>5. PICK t : t = Append(s, o)
  BY Zenon
<1>6. t \in Seq(Address) /\ Len(t) = n + 1 /\ t[n + 1] = o /\ \A i \in 1 .. n : t[i] = s[i]
  BY <1>3, <1>5
<1>7. /\ Joined(q, l, o)[l] = t
      /\ \A m \in Side \X Prices : m # l => Joined(q, l, o)[m] = q[m]
  BY <1>1, <1>2, <1>5, FeedLevels DEF Joined
<1>8. PICK E : E = Entries(b, s)
  OBVIOUS
<1>9. PICK T : T = {Entry(b, x) : x \in Address} \cup {Entry(c, o)}
  BY Zenon
<1>10. E \in Seq(T) /\ Len(E) = n /\ \A i \in 1 .. n : E[i] = Entry(b, s[i])
  <2>1. E \in Seq({Entry(b, x) : x \in Address}) /\ Len(E) = n /\ \A i \in 1 .. n : E[i] = Entry(b, s[i])
    BY <1>3, <1>8, EntriesAre
  <2> QED BY <1>9, <2>1
<1>11. Entries(c, t) = Append(E, Entry(c, o))
  <2>1. Entries(c, t) = [i \in 1 .. n + 1 |-> Entry(c, t[i])]
    BY <1>6 DEF Entries
  <2>2. PICK A : A = Append(E, Entry(c, o))
    BY Zenon
  <2>3. A \in Seq(T) /\ Len(A) = n + 1 /\ A[n + 1] = Entry(c, o) /\ \A i \in 1 .. n : A[i] = E[i]
    BY <1>3, <1>9, <1>10, <2>2
  <2>4. A = [i \in 1 .. n + 1 |-> A[i]]
    BY <2>3
  <2>5. \A i \in 1 .. n : Entry(c, s[i]) = Entry(b, s[i])
    <3>1. \A i \in 1 .. n : s[i] \in Address /\ On(q, s[i])
      BY <1>1, <1>2, <1>3 DEF On
    <3> QED BY <3>1 DEF SameOrder, Entry
  <2>6. \A i \in 1 .. n + 1 : i \in 1 .. n \/ i = n + 1
    BY <1>3
  <2>7. \A i \in 1 .. n + 1 : A[i] = Entry(c, t[i])
    BY <1>6, <1>10, <2>3, <2>5, <2>6
  <2> QED BY <2>1, <2>2, <2>4, <2>7, Zenon
<1>12. /\ Q \in [Side \X Prices -> {Q[m] : m \in Side \X Prices}] /\ Q[l] = E
       /\ R = [m \in Side \X Prices |-> IF m = l THEN Append(E, Entry(c, o)) ELSE Q[m]]
  BY <1>2, <1>4, <1>7, <1>8, <1>11, Zenon DEF Queue
<1>13. /\ R[l] = Append(E, Entry(c, o)) /\ Len(R[l]) = n + 1 /\ R[l][n + 1] = Entry(c, o)
       /\ R[l] # <<>>
  <2>1. R[l] = Append(E, Entry(c, o))
    BY <1>12
  <2>2. Entry(c, o) \in T
    BY <1>9
  <2>3. Append(E, Entry(c, o)) \in Seq(T) /\ Len(Append(E, Entry(c, o))) = n + 1
        /\ Append(E, Entry(c, o))[n + 1] = Entry(c, o)
    BY <1>3, <1>10, <2>2
  <2>4. Len(R[l]) # 0
    BY <1>3, <2>1, <2>3
  <2> QED BY <2>1, <2>3, <2>4
<1>14. FeedBook!Newest(R[l]) = Entry(c, o)
  BY <1>13 DEF FeedBook!Newest
<1>15. R = [Q EXCEPT ![l] = Append(@, Entry(c, o))]
  BY <1>12, Zenon
<1>16. Entry(c, o).id \in Ids /\ Entry(c, o).quantity \in Quantities
  BY DEF Entry
<1> QED BY <1>13, <1>14, <1>15, <1>16 DEF FeedBook!Joins

\* An order that leaves the list of l leaves its queue.
LEMMA LeaveQueue ==
    ASSUME NEW b, NEW c, NEW q, Queues(q), NEW l \in Side \X Prices, NEW i \in 1 .. Len(q[l]),
           \A x \in Address : On(q, x) /\ x # q[l][i] => SameOrder(b, c, x),
           NEW Q, Q = Queue(b, q)
    PROVE  Queue(c, LeftBy(q, l, i)) = FeedBook!Without(Q, <<l, i>>)
<1>1. q \in [Level -> Seq(Address)] /\ l \in Level
  BY FeedLevels DEF Queues
<1>2. PICK s \in Seq(Address) : s = q[l]
  BY <1>1
<1>3. PICK n \in Nat : n = Len(s) /\ i \in 1 .. n
  BY <1>2
<1>4. PICK t : t = Cut(s, i)
  OBVIOUS
<1>5. t \in Seq(Address) /\ Len(t) = n - 1 /\ \A j \in 1 .. n - 1 : t[j] = IF j < i THEN s[j] ELSE s[j + 1]
  BY <1>2, <1>3, <1>4, CutSequence DEF Cut
<1>6. ASSUME NEW m \in Side \X Prices, m # l PROVE Entries(c, q[m]) = Entries(b, q[m])
  <2>1. m \in Level /\ q[m] \in Seq(Address)
    BY <1>1, <1>6, FeedLevels
  <2>2. \A j \in 1 .. Len(q[m]) : q[m][j] \in Address /\ On(q, q[m][j]) /\ q[m][j] # q[l][i]
    BY <1>1, <1>6, <2>1 DEF On, Queues
  <2> QED BY <2>1, <2>2, SameEntries
<1>7. \A j \in 1 .. n : j # i => Entry(c, s[j]) = Entry(b, s[j])
  <2>1. \A j \in 1 .. n : s[j] \in Address /\ On(q, s[j]) /\ (j # i => s[j] # q[l][i])
    BY <1>1, <1>2, <1>3 DEF On, Queues
  <2> QED BY <2>1 DEF SameOrder, Entry
<1>8. PICK E, T : E = Entries(b, s) /\ T = {Entry(b, x) : x \in Address}
  BY Zenon
<1>9. E \in Seq(T) /\ Len(E) = n /\ \A j \in 1 .. n : E[j] = Entry(b, s[j])
  BY <1>3, <1>8, EntriesAre
<1>10. PICK A : A = SubSeq(E, 1, i - 1) \o SubSeq(E, i + 1, Len(E))
  BY Zenon
<1>11. /\ A \in Seq(T) /\ Len(A) = n - 1
       /\ \A j \in 1 .. n - 1 : A[j] = IF j < i THEN E[j] ELSE E[j + 1]
  <2>1. PICK F, G : F = SubSeq(E, 1, i - 1) /\ G = SubSeq(E, i + 1, n)
    BY Zenon
  <2>2. F \in Seq(T) /\ Len(F) = i - 1 /\ \A j \in 1 .. i - 1 : F[j] = E[j]
    BY <1>3, <1>9, <2>1
  <2>3. G \in Seq(T) /\ Len(G) = n - i /\ \A j \in 1 .. n - i : G[j] = E[i + j]
    BY <1>3, <1>9, <2>1
  <2>4. A = F \o G
    BY <1>9, <1>10, <2>1
  <2>5. A \in Seq(T) /\ Len(A) = n - 1
    BY <1>3, <2>2, <2>3, <2>4
  <2>6. ASSUME NEW j \in 1 .. n - 1 PROVE A[j] = IF j < i THEN E[j] ELSE E[j + 1]
    <3>1. CASE j < i
      <4>1. j \in 1 .. i - 1
        BY <1>3, <2>6, <3>1
      <4>2. A[j] = F[j]
        BY <1>3, <2>2, <2>3, <2>4, <4>1
      <4> QED BY <2>2, <3>1, <4>1, <4>2
    <3>2. CASE ~(j < i)
      <4>1. PICK k \in 1 .. n - i : k = j - (i - 1) /\ i + k = j + 1
        BY <1>3, <2>6, <3>2
      <4>2. A[j] = G[k]
        <5>1. j \in 1 .. Len(F) + Len(G) /\ ~(j <= Len(F)) /\ k = j - Len(F)
          BY <1>3, <2>2, <2>3, <2>6, <3>2, <4>1
        <5>2. (F \o G)[j] = G[j - Len(F)]
          BY <2>2, <2>3, <5>1
        <5> QED BY <2>4, <5>1, <5>2
      <4> QED BY <2>3, <3>2, <4>1, <4>2
    <3> QED BY <3>1, <3>2
  <2> QED BY <2>5, <2>6
<1>12. Entries(c, t) = A
  <2>1. Entries(c, t) = [j \in 1 .. n - 1 |-> Entry(c, t[j])]
    BY <1>5 DEF Entries
  <2>2. A = [j \in 1 .. n - 1 |-> A[j]]
    BY <1>11
  <2>3. ASSUME NEW j \in 1 .. n - 1 PROVE A[j] = Entry(c, t[j])
    <3>1. PICK k \in 1 .. n : k = (IF j < i THEN j ELSE j + 1) /\ k # i
      BY <1>3, <2>3
    <3>2. t[j] = s[k] /\ A[j] = E[k]
      BY <1>5, <1>11, <2>3, <3>1
    <3> QED BY <1>7, <1>9, <3>1, <3>2
  <2> QED BY <2>1, <2>2, <2>3
<1>13. /\ LeftBy(q, l, i)[l] = t
       /\ \A m \in Side \X Prices : m # l => LeftBy(q, l, i)[m] = q[m]
  BY <1>1, <1>2, <1>4, FeedLevels DEF LeftBy
<1>14. DOMAIN Q = Side \X Prices /\ Q[l] = E /\ \A m \in Side \X Prices : Q[m] = Entries(b, q[m])
  BY <1>2, <1>8 DEF Queue
<1>15. Queue(c, LeftBy(q, l, i)) = [m \in Side \X Prices |-> IF m = l THEN A ELSE Q[m]]
  BY <1>6, <1>12, <1>13, <1>14 DEF Queue
<1>16. FeedBook!Without(Q, <<l, i>>) = [Q EXCEPT ![l] = A]
  BY <1>10, <1>14 DEF FeedBook!Without
<1>17. [Q EXCEPT ![l] = A] = [m \in Side \X Prices |-> IF m = l THEN A ELSE Q[m]]
  BY <1>14, Zenon
<1> QED BY <1>15, <1>16, <1>17

LEMMA PlacesAre ==
    ASSUME NEW b, NEW q, Queues(q), NEW Q, Q = Queue(b, q)
    PROVE  /\ \A place : place \in FeedBook!Places(Q) <=>
                 \E l \in Side \X Prices : \E i \in 1 .. Len(q[l]) : place = <<l, i>>
           /\ \A l \in Side \X Prices : \A i \in 1 .. Len(q[l]) :
                 FeedBook!OrderAt(Q, <<l, i>>) = Entry(b, q[l][i])
<1>1. ASSUME NEW l \in Side \X Prices
      PROVE  Len(Q[l]) = Len(q[l]) /\ \A i \in 1 .. Len(q[l]) : Q[l][i] = Entry(b, q[l][i])
  <2>1. PICK list \in Seq(Address) : list = q[l]
    BY <1>1, FeedLevels DEF Queues
  <2>2. Q[l] = Entries(b, list)
    BY <1>1, <2>1 DEF Queue
  <2>3. /\ Len(Entries(b, list)) = Len(list)
        /\ \A i \in 1 .. Len(list) : Entries(b, list)[i] = Entry(b, list[i])
    BY <2>1, EntriesAre, Zenon
  <2> QED BY <2>1, <2>2, <2>3
<1>2. DOMAIN Q = Side \X Prices
  BY DEF Queue
<1>3. \A place : place \in FeedBook!Places(Q) <=>
         \E l \in Side \X Prices : \E i \in 1 .. Len(q[l]) : place = <<l, i>>
  BY <1>1, <1>2 DEF FeedBook!Places
<1>4. ASSUME NEW l \in Side \X Prices, NEW i \in 1 .. Len(q[l])
      PROVE  FeedBook!OrderAt(Q, <<l, i>>) = Entry(b, q[l][i])
  BY <1>1, <1>4 DEF FeedBook!OrderAt
<1> QED BY <1>3, <1>4

LEMMA FeedCardinality == ASSUME NEW S PROVE FeedBook!Cardinality(S) = Cardinality(S)
BY DEF Cardinality, IsFiniteSet, FeedBook!Cardinality, FeedBook!IsFiniteSet

\* There is room in the book while an order of the pool is in no queue.
LEMMA BookHasRoom ==
    ASSUME NEW b, NEW q, Queues(q), NEW o \in Address, ~On(q, o), NEW Q, Q = Queue(b, q)
    PROVE  FeedBook!Cardinality(FeedBook!Places(Q)) < PoolCapacity
<1>1. PICK P : P = FeedBook!Places(Q)
  OBVIOUS
<1>2. ASSUME NEW place \in P
      PROVE  /\ place[1] \in Level /\ place[2] \in 1 .. Len(q[place[1]]) /\ place = <<place[1], place[2]>>
             /\ q[place[1]][place[2]] \in Address \ {o}
  <2>1. PICK l \in Side \X Prices : \E i \in 1 .. Len(q[l]) : place = <<l, i>>
    BY <1>1, <1>2, PlacesAre
  <2>2. PICK i \in 1 .. Len(q[l]) : place = <<l, i>>
    BY <2>1
  <2>3. l \in Level /\ q[l] \in Seq(Address) /\ place[1] = l /\ place[2] = i
    BY <2>2, FeedLevels DEF Queues
  <2>4. q[l][i] \in Address /\ q[l][i] # o
    BY <2>2, <2>3 DEF On
  <2> QED BY <2>2, <2>3, <2>4
<1>3. PICK f : f = [place \in P |-> q[place[1]][place[2]]]
  BY Zenon
<1>4. f \in [P -> Address \ {o}]
  BY <1>2, <1>3
<1>5. ASSUME NEW x \in P, NEW y \in P, f[x] = f[y] PROVE x = y
  <2>1. q[x[1]][x[2]] = q[y[1]][y[2]]
    BY <1>3, <1>5
  <2>2. x[1] = y[1] /\ x[2] = y[2]
    BY <1>2, <1>5, <2>1, OnePlace
  <2>3. x = <<x[1], x[2]>> /\ y = <<y[1], y[2]>>
    BY <1>2, <1>5
  <2> QED BY <2>2, <2>3
<1>6. f \in Injection(P, Address \ {o})
  BY <1>4, <1>5 DEF Injection, IsInjective
<1>7. IsFiniteSet(Address) /\ Cardinality(Address) = PoolCapacity
  BY FS_Interval, BookAssumption DEF Address
<1>8. IsFiniteSet(Address \ {o}) /\ Cardinality(Address \ {o}) = PoolCapacity - 1
  BY <1>7, FS_RemoveElement
<1>9. IsFiniteSet(P) /\ Cardinality(P) <= PoolCapacity - 1
  BY <1>6, <1>8, FS_Injection
<1>10. Cardinality(P) \in Nat
  BY <1>9, FS_CardinalityType
<1>11. Cardinality(P) < PoolCapacity
  BY <1>9, <1>10, BookAssumption
<1> QED BY <1>1, <1>11, FeedCardinality

\* The best prices of the book are those of the queues.
LEMMA BestIsTop ==
    ASSUME NEW b, NEW p, NEW n, NEW q, Consistent(b, p, n, q), NEW Q, Q = Queue(b, q)
    PROVE  b.best = [s \in Side |-> FeedBook!Best(Q, s)]
<1>1. /\ Sound(b, q) /\ Queues(q) /\ b.best \in [Side -> Price]
      /\ \A s \in Side : IsTop(b.best[s], Active(q)[s], s)
  BY DEF Consistent, Sound, BestPrices
<1>2. ASSUME NEW s \in Side PROVE b.best[s] = FeedBook!Best(Q, s)
  <2>1. PICK S \in SUBSET Price : S = Active(q)[s]
    BY <1>2, ActiveType
  <2>2. {price \in Prices : Q[<<s, price>>] # <<>>} = S
    <3>1. ASSUME NEW price \in Prices PROVE Q[<<s, price>>] # <<>> <=> Len(q[<<s, price>>]) # 0
      <4>1. <<s, price>> \in Side \X Prices /\ <<s, price>> \in Level
        BY <1>2, <3>1, FeedLevels
      <4>2. q[<<s, price>>] \in Seq(Address) /\ Q[<<s, price>>] = Entries(b, q[<<s, price>>])
        BY <1>1, <4>1 DEF Queues, Queue
      <4>3. /\ Entries(b, q[<<s, price>>]) \in Seq({Entry(b, o) : o \in Address})
            /\ Len(Entries(b, q[<<s, price>>])) = Len(q[<<s, price>>])
        BY <4>2, EntriesAre
      <4> QED BY <4>2, <4>3
    <3>2. S \subseteq Prices
      <4>1. \A price \in Price : Len(q[<<s, price>>]) # 0 => price \in Prices
        BY <1>2, LevelParts DEF Consistent
      <4> QED BY <1>2, <2>1, <4>1 DEF Active
    <3>3. \A price \in S : Len(q[<<s, price>>]) # 0
      BY <1>2, <2>1 DEF Active
    <3>4. \A price \in Prices : Len(q[<<s, price>>]) # 0 => price \in S
      BY <1>2, <2>1, FeedAssumption DEF Active
    <3> QED BY <3>1, <3>2, <3>3, <3>4
  <2>3. PICK x : x = b.best[s] /\ IsTop(x, S, s)
    BY <1>1, <1>2, <2>1
  <2>4. FeedBook!Best(Q, s) = IF S = {} THEN 0 ELSE IF s = "Buy" THEN FeedBook!Max(S) ELSE FeedBook!Min(S)
    BY <2>2, Zenon DEF FeedBook!Best
  <2>5. CASE S = {}
    BY <2>3, <2>4, <2>5 DEF IsTop
  <2>6. CASE S # {}
    <3>1. x \in S /\ \A y \in S : IF s = "Buy" THEN y <= x ELSE x <= y
      BY <2>3, <2>6 DEF IsTop
    <3>2. \A y \in S : y \in Int
      BY DEF Price
    <3>3. CASE s = "Buy"
      <4>1. \E z \in S : \A y \in S : z >= y
        BY <3>1, <3>2, <3>3
      <4>2. FeedBook!Max(S) \in S /\ \A y \in S : FeedBook!Max(S) >= y
        BY <4>1, Zenon DEF FeedBook!Max
      <4>3. FeedBook!Max(S) = x
        BY <3>1, <3>2, <3>3, <4>2
      <4> QED BY <2>3, <2>4, <2>6, <3>3, <4>3
    <3>4. CASE s # "Buy"
      <4>1. \E z \in S : \A y \in S : z <= y
        BY <3>1, <3>4
      <4>2. FeedBook!Min(S) \in S /\ \A y \in S : FeedBook!Min(S) <= y
        BY <4>1, Zenon DEF FeedBook!Min
      <4>3. FeedBook!Min(S) = x
        BY <3>1, <3>2, <3>4, <4>2
      <4> QED BY <2>3, <2>4, <2>6, <3>4, <4>3
    <3> QED BY <3>3, <3>4
  <2> QED BY <2>5, <2>6
<1>3. b.best = [s \in Side |-> b.best[s]]
  BY <1>1
<1> QED BY <1>2, <1>3

FeedStep(Q, R) ==
    \/ R = Q
    \/ FeedBook!Add(Q, R)
    \/ \E place \in FeedBook!Places(Q) :
          FeedBook!Delete(Q, R, place) \/ FeedBook!Reduce(Q, R, place) \/ FeedBook!Replace(Q, R, place)

LEMMA KeepsQueue ==
    ASSUME NEW b, NEW c, NEW q, Queues(q), NEW r, Keeps(b, c, q, r)
    PROVE  Queue(c, r) = Queue(b, q)
<1>1. r = q /\ \A x \in Address : On(q, x) => SameOrder(b, c, x)
  BY DEF Keeps
<1>2. ASSUME NEW m \in Side \X Prices PROVE Entries(c, q[m]) = Entries(b, q[m])
  <2>1. PICK s \in Seq(Address) : s = q[m] /\ m \in Level
    BY <1>2, FeedLevels DEF Queues
  <2>2. \A i \in 1 .. Len(s) : s[i] \in Address /\ On(q, s[i])
    BY <2>1 DEF On
  <2>3. \A i \in 1 .. Len(s) : SameOrder(b, c, s[i])
    BY <1>1, <2>2
  <2>4. Len(s) \in Nat
    OBVIOUS
  <2>5. Entries(c, s) = Entries(b, s)
    BY ONLY <2>3, <2>4, SameEntries
  <2> QED BY <2>1, <2>5
<1> QED BY <1>1, <1>2 DEF Queue

LEMMA EntersQueue ==
    ASSUME NEW b, NEW c, NEW q, Queues(q), NEW l \in Level, NEW o \in Address, NEW r,
           Enters(b, c, q, r, l, o)
    PROVE  FeedBook!Add(Queue(b, q), Queue(c, r))
<1>1. PICK Q, R : Q = Queue(b, q) /\ R = Queue(c, r)
  OBVIOUS
<1>2. l \in Side \X Prices /\ ~On(q, o)
  BY FeedLevels DEF Enters
<1>3. /\ r = Joined(q, l, o) /\ Id(c, o) \in Ids /\ Quantity(c, o) \in Quantities
      /\ \A x \in Address : On(q, x) => SameOrder(b, c, x)
  BY DEF Enters
<1>4. R = Queue(c, Joined(q, l, o))
  BY <1>1, <1>3
<1>5. FeedBook!Joins(Q, R, l)
  BY <1>1, <1>2, <1>3, <1>4, JoinQueue
<1>6. FeedBook!Cardinality(FeedBook!Places(Q)) < PoolCapacity
  BY <1>1, <1>2, BookHasRoom
<1>7. DOMAIN Q = Side \X Prices
  BY <1>1 DEF Queue
<1>8. FeedBook!Add(Q, R)
  BY <1>2, <1>5, <1>6, <1>7 DEF FeedBook!Add
<1> QED BY <1>1, <1>8

LEMMA GoesQueue ==
    ASSUME NEW b, NEW c, NEW q, Queues(q), NEW l \in Side \X Prices, NEW i \in 1 .. Len(q[l]), NEW r,
           Goes(b, c, q, r, l, i)
    PROVE  FeedBook!Delete(Queue(b, q), Queue(c, r), <<l, i>>)
<1>1. PICK Q, R : Q = Queue(b, q) /\ R = Queue(c, r)
  OBVIOUS
<1>2. r = LeftBy(q, l, i) /\ \A x \in Address : On(q, x) => SameOrder(b, c, x)
  BY DEF Goes
<1>3. R = FeedBook!Without(Q, <<l, i>>)
  BY <1>1, <1>2, LeaveQueue
<1> QED BY <1>1, <1>3 DEF FeedBook!Delete

LEMMA ShrinksQueue ==
    ASSUME NEW b, Typed(b), NEW c, NEW q, Queues(q), NEW l \in Side \X Prices, NEW i \in 1 .. Len(q[l]),
           NEW quantity \in Quantities, NEW r, Shrinks(b, c, q, r, l, i, quantity)
    PROVE  FeedBook!Reduce(Queue(b, q), Queue(c, r), <<l, i>>)
<1>1. PICK Q, R : Q = Queue(b, q) /\ R = Queue(c, r)
  OBVIOUS
<1>2. l \in Level /\ q \in [Level -> Seq(Address)]
  BY FeedLevels DEF Queues
<1>3. PICK s \in Seq(Address) : s = q[l]
  BY <1>2
<1>4. PICK k \in Nat : k = Len(s) /\ i \in 1 .. k
  BY <1>3
<1>5. PICK o \in Address : o = s[i] /\ o = q[l][i]
  BY <1>3, <1>4
<1>6. /\ r = q /\ quantity > 0 /\ quantity < Quantity(b, o)
      /\ \A x \in Address : x # o => SameOrder(b, c, x)
      /\ Id(c, o) = Id(b, o) /\ Quantity(c, o) = Quantity(b, o) - quantity
  BY <1>5 DEF Shrinks, SameOrder
<1>7. quantity \in Nat
  <2>1. Quantities \subseteq Nat
    BY FeedAssumption
  <2> QED BY <2>1
<1>8. Quantity(b, o) \in Nat
  <2>1. b.orders[o] \in OrderRecord
    BY DEF Typed
  <2> QED BY <2>1 DEF OrderRecord, Quantity
<1>9. PICK left \in Nat : left = Quantity(b, o) - quantity /\ left # 0 /\ left >= 0
  BY <1>6, <1>7, <1>8
<1>10. \A j \in 1 .. k : s[j] \in Address /\ (j # i => s[j] # o)
  BY <1>2, <1>3, <1>4, <1>5 DEF Queues
<1>11. \A j \in 1 .. k : j # i => SameOrder(b, c, s[j])
  BY <1>6, <1>10
<1>12. Id(c, s[i]) = Id(b, s[i]) /\ Quantity(c, s[i]) = left
  BY <1>5, <1>6, <1>9
<1>13. PICK E, D : E = Entries(b, s) /\ D = Entries(c, s)
  OBVIOUS
<1>14. D = [E EXCEPT ![i].quantity = left]
  <2>1. /\ E = [j \in 1 .. k |-> Entry(b, s[j])]
        /\ D = [j \in 1 .. k |-> Entry(c, s[j])]
    BY <1>4, <1>13 DEF Entries
  <2>2. \A j \in 1 .. k : j # i => Entry(c, s[j]) = Entry(b, s[j])
    BY <1>11 DEF Entry, SameOrder
  <2>3. Entry(c, s[i]) = [Entry(b, s[i]) EXCEPT !.quantity = left]
    BY <1>12 DEF Entry
  <2>4. D = [E EXCEPT ![i] = [E[i] EXCEPT !.quantity = left]]
    BY <1>4, <2>1, <2>2, <2>3, Zenon
  <2> QED BY <2>4
<1>15. ASSUME NEW m \in Side \X Prices, m # l PROVE Entries(c, q[m]) = Entries(b, q[m])
  <2>1. PICK t \in Seq(Address) : t = q[m] /\ m \in Level
    BY <1>2, <1>15, FeedLevels
  <2>2. \A j \in 1 .. Len(t) : t[j] \in Address /\ t[j] # o
    BY <1>2, <1>5, <1>15, <2>1 DEF Queues
  <2>3. \A j \in 1 .. Len(t) : SameOrder(b, c, t[j])
    BY <1>6, <2>2
  <2>4. Len(t) \in Nat
    OBVIOUS
  <2>5. Entries(c, t) = Entries(b, t)
    BY ONLY <2>3, <2>4, SameEntries
  <2> QED BY <2>1, <2>5
<1>16. /\ Q = [m \in Side \X Prices |-> Entries(b, q[m])] /\ Q[l] = E
       /\ R = [m \in Side \X Prices |-> Entries(c, q[m])] /\ R[l] = D
  BY <1>1, <1>3, <1>6, <1>13 DEF Queue
<1>17. DOMAIN Q = Side \X Prices /\ \A m \in Side \X Prices : m # l => R[m] = Q[m]
  BY <1>15, <1>16
<1>18. R = [m \in Side \X Prices |-> IF m = l THEN D ELSE Q[m]]
  BY <1>16, <1>17
<1>19. R = [Q EXCEPT ![l] = D]
  BY <1>17, <1>18, Zenon
<1>20. R = [Q EXCEPT ![l][i].quantity = left]
  BY <1>14, <1>16, <1>19, Zenon
<1>21. FeedBook!OrderAt(Q, <<l, i>>) = Entry(b, o)
  BY <1>1, <1>5, PlacesAre
<1>22. left = FeedBook!OrderAt(Q, <<l, i>>).quantity - quantity
  <2>1. Entry(b, o).quantity = Quantity(b, o)
    BY DEF Entry
  <2> QED BY <1>9, <1>21, <2>1
<1>23. <<l, i>>[1] = l /\ <<l, i>>[2] = i
  OBVIOUS
<1>24. FeedBook!Reduce(Q, R, <<l, i>>)
  BY <1>6, <1>9, <1>20, <1>22, <1>23, Zenon DEF FeedBook!Reduce
<1> QED BY <1>1, <1>24

LEMMA ChangesQueue ==
    ASSUME NEW b, NEW c, NEW q, Queues(q), NEW l \in Side \X Prices, NEW i \in 1 .. Len(q[l]),
           NEW price \in Prices, NEW r, Changes(b, c, q, r, l, i, price)
    PROVE  FeedBook!Replace(Queue(b, q), Queue(c, r), <<l, i>>)
<1>1. PICK Q, R : Q = Queue(b, q) /\ R = Queue(c, r)
  OBVIOUS
<1>2. l \in Level /\ q \in [Level -> Seq(Address)]
  BY FeedLevels DEF Queues
<1>3. PICK o \in Address : o = q[l][i]
  BY <1>2
<1>4. PICK t : t = LeftBy(q, l, i)
  OBVIOUS
<1>5. PICK k \in Side \X Prices : k = <<l[1], price>>
  BY Zenon
<1>6. /\ r = Joined(t, k, o) /\ Id(c, o) \in Ids /\ Quantity(c, o) \in Quantities /\ Quantity(c, o) # 0
      /\ \A x \in Address : On(q, x) => Id(b, x) # Id(c, o)
      /\ \A x \in Address \ {o} : SameOrder(b, c, x)
  BY <1>3, <1>4, <1>5 DEF Changes
<1>7. Queues(t) /\ \A x \in Address : On(t, x) <=> On(q, x) /\ x # o
  BY <1>2, <1>3, <1>4, CutQueues
<1>8. PICK W : W = FeedBook!Without(Q, <<l, i>>)
  OBVIOUS
<1>9. Queue(b, t) = W
  <2>1. \A x \in Address : SameOrder(b, b, x)
    BY DEF SameOrder
  <2> QED BY <1>1, <1>4, <1>8, <2>1, LeaveQueue
<1>10. FeedBook!Joins(W, R, k) /\ FeedBook!Newest(R[k]) = Entry(c, o)
  <2>1. \A x \in Address : On(t, x) => SameOrder(b, c, x)
    BY <1>6, <1>7
  <2>2. R = Queue(c, Joined(t, k, o)) /\ W = Queue(b, t)
    BY <1>1, <1>6, <1>9
  <2>3. Queues(t) /\ Id(c, o) \in Ids /\ Quantity(c, o) \in Quantities
    BY <1>6, <1>7
  <2>4. k \in Side \X Prices /\ o \in Address
    OBVIOUS
  <2> QED BY ONLY <2>1, <2>2, <2>3, <2>4, JoinQueue
<1>11. Entry(c, o).id = Id(c, o) /\ Entry(c, o).quantity = Quantity(c, o)
  BY DEF Entry
<1>12. FeedBook!Newest(R[k]).quantity > 0
  <2>1. Quantities \subseteq Nat
    BY FeedAssumption
  <2>2. PICK n \in Nat : n = Quantity(c, o)
    BY <1>6, <2>1, Zenon
  <2> QED BY <1>6, <1>10, <1>11, <2>2
<1>13. ASSUME NEW other \in FeedBook!Places(Q)
       PROVE  FeedBook!OrderAt(Q, other).id # FeedBook!Newest(R[k]).id
  <2>1. PICK m \in Side \X Prices : \E j \in 1 .. Len(q[m]) : other = <<m, j>>
    BY <1>1, <1>13, PlacesAre
  <2>2. PICK j \in 1 .. Len(q[m]) : other = <<m, j>>
    BY <2>1
  <2>3. PICK x : x = q[m][j]
    OBVIOUS
  <2>4. FeedBook!OrderAt(Q, <<m, j>>) = Entry(b, x)
    BY <1>1, <2>3, PlacesAre
  <2>5. x \in Address /\ On(q, x)
    <3>1. PICK s \in Seq(Address) : s = q[m] /\ m \in Level
      BY <1>2, FeedLevels
    <3> QED BY <2>3, <3>1 DEF On
  <2>6. Id(b, x) # Id(c, o) /\ Entry(b, x).id = Id(b, x)
    BY <1>6, <2>5 DEF Entry
  <2> QED BY <1>10, <1>11, <2>2, <2>4, <2>6
<1>14. <<l, i>>[1][1] = l[1]
  OBVIOUS
<1>15. FeedBook!Replace(Q, R, <<l, i>>)
  BY <1>5, <1>8, <1>10, <1>12, <1>13, <1>14 DEF FeedBook!Replace
<1> QED BY <1>1, <1>15

\* What a step does to the lists is a step of the queues.
LEMMA QueueStep ==
    ASSUME NEW b, NEW p, NEW n, NEW q, Consistent(b, p, n, q), NEW c, NEW r, Effect(b, c, q, r),
           NEW Q, Q = Queue(b, q), NEW R, R = Queue(c, r)
    PROVE  FeedStep(Q, R)
<1>1. Queues(q) /\ Typed(b) /\ \A l \in Level : Len(q[l]) # 0 => l[2] \in Prices
  BY DEF Consistent, Sound
<1>2. CASE Keeps(b, c, q, r)
  BY <1>1, <1>2, KeepsQueue DEF FeedStep
<1>3. CASE \E l \in Level, o \in Address : Enters(b, c, q, r, l, o)
  BY <1>1, <1>3, EntersQueue DEF FeedStep
<1>4. ASSUME NEW l \in Level, NEW i \in 1 .. Len(q[l]) 
      PROVE  l \in Side \X Prices /\ <<l, i>> \in FeedBook!Places(Q)
  <2>1. PICK s \in Seq(Address) : s = q[l]
    BY <1>1 DEF Queues
  <2>2. Len(q[l]) # 0
    BY <2>1
  <2>3. l \in Side \X Prices
    BY <1>1, <2>2, FeedLevels
  <2> QED BY <1>1, <2>3, PlacesAre
<1>5. ASSUME NEW l \in Level, NEW i \in 1 .. Len(q[l]), Goes(b, c, q, r, l, i) PROVE FeedStep(Q, R)
  <2>1. FeedBook!Delete(Q, R, <<l, i>>)
    BY <1>1, <1>4, <1>5, GoesQueue
  <2> QED BY <1>4, <2>1 DEF FeedStep
<1>6. ASSUME NEW l \in Level, NEW i \in 1 .. Len(q[l]), NEW quantity \in Quantities,
             Shrinks(b, c, q, r, l, i, quantity)
      PROVE  FeedStep(Q, R)
  <2>1. FeedBook!Reduce(Q, R, <<l, i>>)
    BY <1>1, <1>4, <1>6, ShrinksQueue
  <2> QED BY <1>4, <2>1 DEF FeedStep
<1>7. ASSUME NEW l \in Level, NEW i \in 1 .. Len(q[l]), NEW price \in Prices,
             Changes(b, c, q, r, l, i, price)
      PROVE  FeedStep(Q, R)
  <2>1. FeedBook!Replace(Q, R, <<l, i>>)
    BY <1>1, <1>4, <1>7, ChangesQueue
  <2> QED BY <1>4, <2>1 DEF FeedStep
<1> QED BY <1>2, <1>3, <1>5, <1>6, <1>7 DEF Effect

FeedQueue ==
    [l \in Side \X Prices |->
        LET list == OrdersAt(book_, l)
        IN  [i \in 1 .. Len(list) |-> [id |-> book_.orders[list[i]].id,
                                       quantity |-> book_.orders[list[i]].quantity]]]

LEMMA FeedQueueIs ==
    ASSUME NEW q, Sound(book_, q)
    PROVE  FeedQueue = Queue(book_, q)
<1>1. \A l \in Side \X Prices : OrdersAt(book_, l) = q[l]
  BY SoundLists, FeedLevels
<1> QED BY <1>1 DEF FeedQueue, Queue, Entries, Entry, Id, Quantity

\* The array book, its lists, bitmaps, index and pool implement the queues of
\* orders and best prices that the feed describes.
THEOREM BookRefinesFeed == Spec => RefinesLimitOrderBook
<1>1. Init => FeedBook!BookInit
  <2> SUFFICES ASSUME Init PROVE FeedBook!BookInit
    OBVIOUS
  <2>1. Consistent(book_, orderPool_, lastId, NoOrders)
    BY InitConsistent DEF Init
  <2>2. FeedQueue = Queue(book_, NoOrders)
    BY <2>1, FeedQueueIs DEF Consistent
  <2>3. \A l \in Side \X Prices : NoOrders[l] = <<>>
    BY FeedLevels DEF NoOrders
  <2>4. \A l \in Side \X Prices : Entries(book_, NoOrders[l]) = <<>>
    BY <2>3 DEF Entries
  <2>5. FeedQueue = [l \in Side \X Prices |-> <<>>]
    BY <2>2, <2>4 DEF Queue
  <2>6. book_.best = [s \in Side |-> 0]
    BY DEF Init, EmptyBook
  <2> QED BY <2>5, <2>6 DEF FeedBook!BookInit, FeedQueue
<1>2. BookInv /\ [Next]_vars => [FeedBook!BookNext]_(FeedBook!bookVars)
  <2> SUFFICES ASSUME BookInv, [Next]_vars PROVE FeedBook!BookNext
    OBVIOUS
  <2>1. PICK q : Consistent(book_, orderPool_, lastId, q)
    BY DEF BookInv
  <2>2. PICK r : Consistent(book_', orderPool_', lastId', r) /\ Effect(book_, book_', q, r)
    BY <2>1, StepEffect
  <2>3. PICK Q, R : Q = Queue(book_, q) /\ R = Queue(book_', r)
    OBVIOUS
  <2>4. FeedStep(Q, R)
    BY <2>1, <2>2, <2>3, QueueStep
  <2>5. book_'.best = [s \in Side |-> FeedBook!Best(R, s)]
    BY <2>2, <2>3, BestIsTop
  <2>6. FeedQueue = Q /\ FeedQueue' = R
    <3>1. FeedQueue = Q
      BY <2>1, <2>3, FeedQueueIs DEF Consistent
    <3>2. \A l \in Side \X Prices : OrdersAt(book_', l) = r[l]
      BY <2>2, SoundLists, FeedLevels DEF Consistent
    <3>3. FeedQueue' = R
      BY <2>3, <3>2 DEF FeedQueue, Queue, Entries, Entry, Id, Quantity
    <3> QED BY <3>1, <3>3
  <2> QED BY <2>4, <2>5, <2>6, Zenon DEF FeedBook!BookNext, FeedQueue, FeedStep
<1> QED BY <1>1, <1>2, BookInvariant, PTL DEF Spec, RefinesLimitOrderBook, FeedBook!BookSpec
=============================================================================
