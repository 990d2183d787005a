------------------------- MODULE FixedHashMapProofs -------------------------
(***************************************************************************)
(* For every capacity, every set of keys and values and every hash         *)
(* function: the open-addressing table is a bounded map, and size_ counts  *)
(* its keys.                                                               *)
(***************************************************************************)
EXTENDS FixedHashMap, FiniteSetTheorems, FunctionTheorems, WellFoundedInduction, TLAPS

(* Numbers *)

\* Every set of natural numbers that is not empty has a least element.
LEMMA LeastElement ==
    ASSUME NEW T \in SUBSET Nat, T # {}
    PROVE  \E x \in T : \A y \in T : x <= y
<1> DEFINE R == {p \in Nat \X Nat : p[1] < p[2]}
<1>1. IsWellFoundedOn(R, Nat)
  BY NatLessThanWellFounded DEF OpToRel
<1>2. PICK x \in T : \A y \in T : <<y, x>> \notin R
  BY <1>1, WFMin
<1>3. \A y \in T : ~(y < x)
  BY <1>2
<1>4. \A y \in T : x <= y
  BY <1>3
<1> QED
  BY <1>4

\* Min is that element.
LEMMA MinIsLeast ==
    ASSUME NEW T \in SUBSET Nat, T # {}
    PROVE  Min(T) \in T /\ \A y \in T : Min(T) <= y
BY LeastElement DEF Min

\* A probe that goes past the end of the table wraps around once.
LEMMA WrapOnce ==
    ASSUME NEW C \in Nat, C > 0, NEW a \in 0 .. 2 * C - 1
    PROVE  a % C = IF a < C THEN a ELSE a - C
<1>1. /\ a % C \in 0 .. C - 1 /\ a \div C \in Nat
      /\ a = C * (a \div C) + (a % C)
  BY Z3
<1>2. CASE a \div C = 0
  BY <1>1, <1>2
<1>3. CASE a \div C = 1
  BY <1>1, <1>3
<1>4. CASE a \div C >= 2
  <2>1. C * (a \div C) = 2 * C + C * ((a \div C) - 2)
    BY <1>1
  <2>2. C * ((a \div C) - 2) >= 0
    BY <1>1, <1>4
  <2> QED
    BY <1>1, <2>1, <2>2
<1> QED
  BY <1>1, <1>2, <1>3, <1>4

-----------------------------------------------------------------------------
(* The inductive invariant *)

Occupied == {i \in Index : entries_[i].state = "Occupied"}

TypeOK ==
    /\ entries_ \in [Index -> [key : Keys \cup {NoKey}, value : MapValues \cup {NoValue},
                               state : {"Empty", "Occupied", "Deleted"}]]
    /\ hash \in [Keys -> Index]
    /\ \A i \in Occupied : entries_[i].key \in Keys /\ entries_[i].value \in MapValues

\* No probe that looks for a key that is present meets an empty entry first.
Reachable ==
    \A k \in Keys : \A p \in Index :
        Holds(Probe(k, p), k) => \A q \in 0 .. p - 1 : entries_[Probe(k, q)].state # "Empty"

\* No key is stored twice.
Once == \A k \in Keys : \A i, j \in Index : Holds(i, k) /\ Holds(j, k) => i = j

HashInv == TypeOK /\ Reachable /\ Once /\ SizeExact

-----------------------------------------------------------------------------
(* Probing *)

\* The probes of a key visit every entry exactly once.
LEMMA ProbesVisitAll ==
    ASSUME hash \in [Keys -> Index], NEW k \in Keys
    PROVE  /\ \A p \in Index : Probe(k, p) \in Index
           /\ \A p, q \in Index : Probe(k, p) = Probe(k, q) => p = q
           /\ \A i \in Index : \E p \in Index : Probe(k, p) = i
<1> DEFINE h == hash[k]
<1>1. h \in Index /\ Capacity \in Nat /\ Capacity > 0
  BY MapAssumption
<1> HIDE DEF h
<1>2. \A p \in Index : Probe(k, p) = IF h + p < Capacity THEN h + p ELSE h + p - Capacity
  <2> TAKE p \in Index
  <2>0. PICK a : a = h + p
    OBVIOUS
  <2>1. a \in 0 .. 2 * Capacity - 1
    BY <2>0, <1>1 DEF Index
  <2>2. a % Capacity = IF a < Capacity THEN a ELSE a - Capacity
    BY <1>1, <2>1, WrapOnce
  <2> QED
    <3>1. Probe(k, p) = a % Capacity
      BY <2>0 DEF Probe, h
    <3> QED BY <2>0, <2>2, <3>1, <1>1 DEF Index
<1>3. \A p \in Index : Probe(k, p) \in Index
  BY <1>1, <1>2 DEF Index
<1>4. \A p, q \in Index : Probe(k, p) = Probe(k, q) => p = q
  BY <1>1, <1>2 DEF Index
<1>5. ASSUME NEW i \in Index PROVE \E p \in Index : Probe(k, p) = i
  <2>1. CASE i >= h
    <3>1. i - h \in Index /\ Probe(k, i - h) = i
      BY <1>1, <1>2, <2>1 DEF Index
    <3> QED BY <3>1
  <2>2. CASE i < h
    <3>1. i - h + Capacity \in Index /\ Probe(k, i - h + Capacity) = i
      BY <1>1, <1>2, <2>2 DEF Index
    <3> QED BY <3>1
  <2> QED BY <2>1, <2>2, <1>1 DEF Index
<1> QED
  BY <1>3, <1>4, <1>5

\* Stop is the first probe that meets the key or an empty entry.
LEMMA StopIsFirst ==
    ASSUME NEW k \in Keys
    PROVE  /\ Stop(k) \in 0 .. Capacity
           /\ \A p \in 0 .. Stop(k) - 1 :
                 entries_[Probe(k, p)].state # "Empty" /\ ~Holds(Probe(k, p), k)
           /\ Stop(k) < Capacity =>
                 entries_[Probe(k, Stop(k))].state = "Empty" \/ Holds(Probe(k, Stop(k)), k)
<1> DEFINE S == {p \in 0 .. Capacity - 1 :
                    entries_[Probe(k, p)].state = "Empty" \/ Holds(Probe(k, p), k)}
           T == S \cup {Capacity}
<1>1. T \in SUBSET Nat /\ T # {}
  BY MapAssumption
<1>2. Stop(k) = Min(T)
  BY DEF Stop
<1>3. Stop(k) \in T /\ \A y \in T : Stop(k) <= y
  BY <1>1, <1>2, MinIsLeast
<1>4. Stop(k) \in 0 .. Capacity
  BY <1>3, MapAssumption
<1>5. \A p \in 0 .. Stop(k) - 1 : p \notin T /\ p \in 0 .. Capacity - 1
  BY <1>3, <1>4, MapAssumption
<1>6. Stop(k) < Capacity => Stop(k) \in S
  BY <1>3, MapAssumption
<1> QED
  BY <1>4, <1>5, <1>6

\* find returns the entry that holds the key, and nullptr only if none does.
LEMMA FoundIsHolder ==
    ASSUME HashInv, NEW k \in Keys
    PROVE  /\ \A i \in Index : Holds(i, k) => Found(k) = i
           /\ Found(k) # Capacity => Found(k) \in Index /\ Holds(Found(k), k)
<1>1. hash \in [Keys -> Index]
  BY DEF HashInv, TypeOK
<1>2. Stop(k) < Capacity => Stop(k) \in Index
  BY StopIsFirst, MapAssumption DEF Index
<1>3. Found(k) # Capacity =>
          Stop(k) < Capacity /\ Found(k) = Probe(k, Stop(k)) /\ Holds(Found(k), k)
  BY DEF Found
<1>4. Found(k) # Capacity => Found(k) \in Index /\ Holds(Found(k), k)
  BY <1>1, <1>2, <1>3, ProbesVisitAll
<1>5. ASSUME NEW i \in Index, Holds(i, k) PROVE Found(k) = i
  <2>1. PICK p \in Index : Probe(k, p) = i
    BY <1>1, ProbesVisitAll
  <2>2. i \in Occupied /\ entries_[i].key = k
    BY <1>5 DEF Holds, Occupied
  <2>3. \A q \in 0 .. p - 1 : entries_[Probe(k, q)].state # "Empty"
    BY <2>1, <1>5 DEF HashInv, Reachable
  <2>4. entries_[i].state # "Empty"
    BY <2>2 DEF Occupied
  <2>5. Stop(k) <= p
    <3>1. ~(p \in 0 .. Stop(k) - 1)
      BY <2>1, <1>5, StopIsFirst
    <3> QED BY <3>1, StopIsFirst, MapAssumption DEF Index
  <2>6. Stop(k) < Capacity
    BY <2>5, MapAssumption, StopIsFirst DEF Index
  <2>7. Stop(k) \in 0 .. p
    BY <2>5, StopIsFirst DEF Index
  <2>8. entries_[Probe(k, Stop(k))].state # "Empty"
    BY <2>1, <2>3, <2>4, <2>7 DEF Index
  <2>9. Holds(Probe(k, Stop(k)), k)
    BY <2>6, <2>8, StopIsFirst
  <2>10. Probe(k, Stop(k)) \in Index
    BY <1>1, <1>2, <2>6, ProbesVisitAll
  <2>11. Probe(k, Stop(k)) = i
    BY <1>5, <2>9, <2>10 DEF HashInv, Once
  <2>12. Found(k) = Probe(k, Stop(k))
    BY <2>6, <2>9 DEF Found
  <2> QED
    BY <2>11, <2>12
<1> QED
  BY <1>4, <1>5

\* insert stores a new key in an entry that is free and that its probes reach;
\* it cannot only when every entry is occupied.
LEMMA TargetIsFree ==
    ASSUME HashInv, NEW k \in Keys, Found(k) = Capacity
    PROVE  /\ Target(k) # Capacity =>
                 /\ Target(k) \in Index \ Occupied
                 /\ \E p \in Index : /\ Probe(k, p) = Target(k)
                                     /\ \A q \in 0 .. p - 1 : entries_[Probe(k, q)].state # "Empty"
           /\ Target(k) = Capacity => Occupied = Index
<1>1. hash \in [Keys -> Index]
  BY DEF HashInv, TypeOK
<1>2. \A i \in Index : ~Holds(i, k)
  BY FoundIsHolder, MapAssumption DEF Index
<1>3. Stop(k) \in 0 .. Capacity /\ Capacity \in Nat
  BY StopIsFirst, MapAssumption
<1>4. Stop(k) < Capacity => Stop(k) \in Index /\ entries_[Probe(k, Stop(k))].state = "Empty"
  <2> SUFFICES ASSUME Stop(k) < Capacity
               PROVE  Stop(k) \in Index /\ entries_[Probe(k, Stop(k))].state = "Empty"
    OBVIOUS
  <2>1. Stop(k) \in Index
    BY <1>3 DEF Index
  <2>2. ~Holds(Probe(k, Stop(k)), k)
    BY <1>1, <1>2, <2>1, ProbesVisitAll
  <2> QED BY <2>1, <2>2, StopIsFirst
<1>5. CASE Tombstones(k) # {}
  <2> DEFINE p == Min(Tombstones(k))
  <2>1. Tombstones(k) \in SUBSET Nat
    BY <1>3 DEF Tombstones
  <2>2. p \in Tombstones(k)
    BY <1>5, <2>1, MinIsLeast
  <2>3. p \in 0 .. Stop(k) - 1 /\ entries_[Probe(k, p)].state = "Deleted" /\ p \in Index
    BY <2>2, <1>3 DEF Tombstones, Index
  <2>4. \A q \in 0 .. p - 1 : entries_[Probe(k, q)].state # "Empty"
    BY <2>3, <1>3, StopIsFirst
  <2>5. Probe(k, p) \in Index \ Occupied
    BY <2>3, <1>1, ProbesVisitAll DEF Occupied
  <2>6. Target(k) = Probe(k, p)
    BY <1>5 DEF Target
  <2>7. Target(k) # Capacity
    BY <2>5, <2>6, <1>3 DEF Index
  <2> QED BY <2>3, <2>4, <2>5, <2>6, <2>7
<1>6. CASE Tombstones(k) = {} /\ Stop(k) < Capacity
  <2>1. Target(k) = Probe(k, Stop(k))
    BY <1>6 DEF Target
  <2>2. Probe(k, Stop(k)) \in Index \ Occupied
    BY <1>4, <1>6, <1>1, ProbesVisitAll DEF Occupied
  <2>3. Target(k) # Capacity
    BY <2>1, <2>2, <1>3 DEF Index
  <2> QED BY <1>4, <1>6, <2>1, <2>2, <2>3, StopIsFirst
<1>7. CASE Tombstones(k) = {} /\ ~(Stop(k) < Capacity)
  <2>1. Target(k) = Capacity /\ Stop(k) = Capacity
    BY <1>7, <1>3 DEF Target
  <2>2. ASSUME NEW i \in Index PROVE i \in Occupied
    <3>1. PICK p \in Index : Probe(k, p) = i
      BY <1>1, ProbesVisitAll
    <3>2. p \in 0 .. Stop(k) - 1
      BY <2>1 DEF Index
    <3>3. entries_[i].state # "Empty"
      BY <3>1, <3>2, StopIsFirst
    <3>4. entries_[i].state # "Deleted"
      BY <3>1, <3>2, <1>7 DEF Tombstones
    <3> QED BY <3>3, <3>4 DEF HashInv, TypeOK, Occupied
  <2> QED BY <2>1, <2>2 DEF Occupied
<1> QED
  BY <1>5, <1>6, <1>7

-----------------------------------------------------------------------------
(* What the table shows *)

Lookup(k) == LET i == Found(k) IN IF i # Capacity THEN entries_[i].value ELSE NoValue

\* A lookup gives the value stored with the key, NoValue if there is none, and
\* size_ counts the keys present.
LookupExact ==
    /\ \A k \in Keys :
          /\ \A i \in Index : Holds(i, k) => Lookup(k) = entries_[i].value
          /\ (\A i \in Index : ~Holds(i, k)) => Lookup(k) = NoValue
          /\ Lookup(k) # NoValue <=> \E i \in Index : Holds(i, k)
    /\ Cardinality({k \in Keys : Lookup(k) # NoValue}) = Cardinality(Occupied)

\* The entries are finitely many.
LEMMA OccupiedIsFinite ==
    /\ IsFiniteSet(Index) /\ Cardinality(Index) = Capacity
    /\ IsFiniteSet(Occupied) /\ Cardinality(Occupied) \in Nat
<1>1. IsFiniteSet(Index) /\ Cardinality(Index) = Capacity
  <2>1. 0 \in Int /\ Capacity - 1 \in Int /\ ~(0 > Capacity - 1) /\ Capacity - 1 - 0 + 1 = Capacity
    BY MapAssumption
  <2> QED BY <2>1, FS_Interval DEF Index
<1>2. Occupied \in SUBSET Index
  BY DEF Occupied
<1> QED
  BY <1>1, <1>2, FS_Subset, FS_CardinalityType

\* size_ counts the occupied entries.
LEMMA SizeIsOccupied == HashInv => size_ = Cardinality(Occupied)
BY DEF HashInv, SizeExact, Occupied

\* The invariant says which entry a lookup finds.
LEMMA InvariantGivesLookup == HashInv => LookupExact
<1> SUFFICES ASSUME HashInv PROVE LookupExact
  OBVIOUS
<1>1. ASSUME NEW k \in Keys
      PROVE  /\ \A i \in Index : Holds(i, k) => Lookup(k) = entries_[i].value
             /\ (\A i \in Index : ~Holds(i, k)) => Lookup(k) = NoValue
             /\ Lookup(k) # NoValue <=> \E i \in Index : Holds(i, k)
  <2>1. ASSUME NEW i \in Index, Holds(i, k)
        PROVE  Lookup(k) = entries_[i].value /\ Lookup(k) # NoValue
    <3>1. Found(k) = i /\ i # Capacity
      BY <2>1, FoundIsHolder, MapAssumption DEF Index
    <3>2. entries_[i].value \in MapValues
      BY <2>1 DEF HashInv, TypeOK, Holds, Occupied
    <3> QED BY <3>1, <3>2, MapAssumption DEF Lookup
  <2>2. ASSUME \A i \in Index : ~Holds(i, k) PROVE Lookup(k) = NoValue
    BY <2>2, FoundIsHolder DEF Lookup
  <2> QED BY <2>1, <2>2
<1>2. Cardinality({k \in Keys : Lookup(k) # NoValue}) = Cardinality(Occupied)
  <2> DEFINE P == {k \in Keys : Lookup(k) # NoValue}
             f == [i \in Occupied |-> entries_[i].key]
  <2>1. IsFiniteSet(Occupied)
    BY OccupiedIsFinite
  <2>2. f \in [Occupied -> P]
    BY <1>1 DEF HashInv, TypeOK, Occupied, Holds
  <2>3. \A a, b \in Occupied : f[a] = f[b] => a = b
    BY DEF HashInv, TypeOK, Once, Occupied, Holds
  <2>4. \A t \in P : \E s \in Occupied : f[s] = t
    BY <1>1 DEF Occupied, Holds
  <2>5. ExistsBijection(Occupied, P)
    BY <2>2, <2>3, <2>4, Fun_IsBij, Fun_ExistsBij
  <2> QED BY <2>1, <2>5, FS_Bijection
<1> QED
  BY <1>1, <1>2 DEF LookupExact

-----------------------------------------------------------------------------
(* One step per case of insert and erase *)

\* Storing another value under a key that is present.
Overwrite(k, v) ==
    /\ Found(k) # Capacity
    /\ entries_' = [entries_ EXCEPT ![Found(k)].value = v]
    /\ UNCHANGED <<size_, hash>>

\* Storing a key that is not present.
StoreNew(k, v) ==
    /\ Found(k) = Capacity /\ Target(k) # Capacity
    /\ entries_' = [entries_ EXCEPT ![Target(k)] = [key |-> k, value |-> v, state |-> "Occupied"]]
    /\ size_' = size_ + 1 /\ UNCHANGED hash

\* Leaving a tombstone.
Bury(k) ==
    /\ Found(k) # Capacity
    /\ entries_' = [entries_ EXCEPT ![Found(k)].state = "Deleted"]
    /\ size_' = size_ - 1 /\ UNCHANGED hash


\* After the step key k has value w, and every other key the one it had.
After(k, w) == \A x \in Keys : Lookup(x)' = IF x = k THEN w ELSE Lookup(x)

\* The lookups that the invariant gives, after a step as well.
LEMMA LookupAfter == HashInv' => LookupExact'
BY InvariantGivesLookup, PTL

\* The probes of a key do not change.
LEMMA ProbesFixed ==
    ASSUME hash' = hash
    PROVE  \A k, p : Probe(k, p)' = Probe(k, p)
BY DEF Probe

\* What was reachable stays so: no step makes an entry empty again.
LEMMA ReachableStep ==
    ASSUME HashInv, hash' = hash,
           \A i \in Index : entries_'[i].state = "Empty" => entries_[i].state = "Empty",
           \A x \in Keys : \A i \in Index : Holds(i, x)' =>
               \/ Holds(i, x)
               \/ \A p \in Index : Probe(x, p) = i =>
                      \A q \in 0 .. p - 1 : entries_[Probe(x, q)].state # "Empty"
    PROVE  Reachable'
<1> SUFFICES ASSUME NEW x \in Keys, NEW p \in Index, Holds(Probe(x, p), x)',
                    NEW q \in 0 .. p - 1
             PROVE  entries_'[Probe(x, q)'].state # "Empty"
  BY DEF Reachable
<1>0. PICK i \in Index : i = Probe(x, p)
  BY ProbesVisitAll DEF HashInv, TypeOK
<1>1. entries_[Probe(x, q)].state # "Empty"
  <2>1. Holds(i, x)'
    BY <1>0, ProbesFixed DEF Holds
  <2> QED BY <2>1, <1>0 DEF HashInv, Reachable
<1>2. q \in Index
  BY MapAssumption DEF Index
<1>3. Probe(x, q) \in Index
  BY <1>2, ProbesVisitAll DEF HashInv, TypeOK
<1> QED
  BY <1>1, <1>3, ProbesFixed

\* Storing another value keeps the invariant: the keys stay where they are.
LEMMA OverwriteKeepsInv ==
    ASSUME HashInv, NEW k \in Keys, NEW v \in MapValues, Overwrite(k, v)
    PROVE  HashInv' /\ After(k, v)
<1>1. Found(k) \in Index /\ Holds(Found(k), k)
  BY FoundIsHolder DEF Overwrite
<1>2. PICK t \in Index : t = Found(k) /\ Holds(t, k)
  BY <1>1
<1>3. /\ entries_' = [entries_ EXCEPT ![t].value = v]
      /\ size_' = size_ /\ hash' = hash
  BY <1>2 DEF Overwrite
<1>4. \A i \in Index : /\ entries_'[i].state = entries_[i].state
                       /\ entries_'[i].key = entries_[i].key
  BY <1>3 DEF HashInv, TypeOK
<1>5. Occupied' = Occupied
  BY <1>4 DEF Occupied
<1>6. TypeOK'
  <2>1. entries_' \in [Index -> [key : Keys \cup {NoKey}, value : MapValues \cup {NoValue},
                               state : {"Empty", "Occupied", "Deleted"}]]
    BY <1>3 DEF HashInv, TypeOK
  <2>2. hash' \in [Keys -> Index]
    BY <1>3 DEF HashInv, TypeOK
  <2>3. \A i \in Occupied' : entries_'[i].key \in Keys /\ entries_'[i].value \in MapValues
    BY <1>3, <1>4, <1>5 DEF HashInv, TypeOK, Occupied
  <2> QED BY <2>1, <2>2, <2>3 DEF TypeOK
<1>7. \A x \in Keys, i \in Index : Holds(i, x)' <=> Holds(i, x)
  BY <1>4 DEF Holds
<1>8. Reachable'
  BY <1>3, <1>4, <1>7, ReachableStep
<1>9. Once'
  BY <1>7 DEF HashInv, Once
<1>10. SizeExact'
  BY <1>3, <1>5 DEF HashInv, SizeExact, Occupied
<1>11. HashInv'
  BY <1>6, <1>8, <1>9, <1>10 DEF HashInv
<1>12. ASSUME NEW x \in Keys PROVE Lookup(x)' = IF x = k THEN v ELSE Lookup(x)
  <2>1. CASE x = k
    <3>1. Holds(t, k)' /\ entries_'[t].value = v
      BY <1>2, <1>3, <1>7 DEF HashInv, TypeOK
    <3> QED BY <2>1, <3>1, <1>11, LookupAfter DEF LookupExact
  <2>2. ASSUME x # k, NEW i \in Index, Holds(i, x) PROVE Lookup(x)' = Lookup(x)
    <3>1. Holds(i, x)' /\ entries_'[i].value = entries_[i].value
      BY <1>2, <1>3, <1>7, <2>2 DEF HashInv, TypeOK, Holds
    <3> QED BY <2>2, <3>1, <1>11, LookupAfter, InvariantGivesLookup DEF LookupExact
  <2>3. ASSUME \A i \in Index : ~Holds(i, x) PROVE Lookup(x)' = Lookup(x)
    BY <2>3, <1>7, <1>11, LookupAfter, InvariantGivesLookup DEF LookupExact
  <2> QED BY <2>1, <2>2, <2>3
<1> QED
  BY <1>11, <1>12 DEF After

\* Storing a new key keeps the invariant: the entry was free, the key was not
\* there, and its probes pass no empty entry on the way.
LEMMA StoreNewKeepsInv ==
    ASSUME HashInv, NEW k \in Keys, NEW v \in MapValues, StoreNew(k, v)
    PROVE  HashInv' /\ After(k, v)
<1>1. PICK t \in Index \ Occupied :
          /\ t = Target(k)
          /\ \E p \in Index : /\ Probe(k, p) = t
                              /\ \A q \in 0 .. p - 1 : entries_[Probe(k, q)].state # "Empty"
  BY TargetIsFree DEF StoreNew
<1>2. /\ entries_' = [entries_ EXCEPT ![t] = [key |-> k, value |-> v, state |-> "Occupied"]]
      /\ size_' = size_ + 1 /\ hash' = hash
  BY <1>1 DEF StoreNew
<1>3. \A i \in Index \ {t} : entries_'[i] = entries_[i]
  BY <1>2 DEF HashInv, TypeOK
<1>4. entries_'[t] = [key |-> k, value |-> v, state |-> "Occupied"]
  BY <1>2 DEF HashInv, TypeOK
<1>5. Occupied' = Occupied \cup {t}
  BY <1>3, <1>4 DEF Occupied
<1>6. TypeOK'
  <2>1. entries_' \in [Index -> [key : Keys \cup {NoKey}, value : MapValues \cup {NoValue},
                               state : {"Empty", "Occupied", "Deleted"}]]
    BY <1>2 DEF HashInv, TypeOK
  <2>2. hash' \in [Keys -> Index]
    BY <1>2 DEF HashInv, TypeOK
  <2>3. \A i \in Occupied' : entries_'[i].key \in Keys /\ entries_'[i].value \in MapValues
    BY <1>3, <1>4, <1>5 DEF HashInv, TypeOK, Occupied
  <2> QED BY <2>1, <2>2, <2>3 DEF TypeOK
<1>7. \A x \in Keys, i \in Index : Holds(i, x)' <=> Holds(i, x) \/ (i = t /\ x = k)
  BY <1>1, <1>3, <1>4 DEF Holds, Occupied
<1>8. Reachable'
  <2>1. hash \in [Keys -> Index]
    BY DEF HashInv, TypeOK
  <2>2. \A p \in Index : Probe(k, p) = t =>
            \A q \in 0 .. p - 1 : entries_[Probe(k, q)].state # "Empty"
    BY <1>1, <2>1, ProbesVisitAll
  <2>3. \A i \in Index : entries_'[i].state = "Empty" => entries_[i].state = "Empty"
    BY <1>3, <1>4
  <2> QED BY <1>2, <1>7, <2>2, <2>3, ReachableStep
<1>9. Once'
  <2>1. \A i \in Index : ~Holds(i, k)
    BY FoundIsHolder, MapAssumption DEF StoreNew, Index
  <2> QED BY <2>1, <1>7 DEF HashInv, Once
<1>10. SizeExact'
  <2>1. Cardinality(Occupied') = Cardinality(Occupied) + 1
    BY <1>1, <1>5, OccupiedIsFinite, FS_AddElement
  <2>2. size_' = Cardinality(Occupied')
    BY <1>2, <2>1, SizeIsOccupied
  <2> QED BY <2>2 DEF SizeExact, Occupied
<1>11. HashInv'
  BY <1>6, <1>8, <1>9, <1>10 DEF HashInv
<1>12. ASSUME NEW x \in Keys PROVE Lookup(x)' = IF x = k THEN v ELSE Lookup(x)
  <2>1. CASE x = k
    <3>1. Holds(t, k)' /\ entries_'[t].value = v
      BY <1>4, <1>7
    <3> QED BY <2>1, <3>1, <1>11, LookupAfter DEF LookupExact
  <2>2. ASSUME x # k, NEW i \in Index, Holds(i, x) PROVE Lookup(x)' = Lookup(x)
    <3>1. Holds(i, x)' /\ entries_'[i].value = entries_[i].value
      BY <1>1, <1>3, <1>7, <2>2 DEF Holds, Occupied
    <3> QED BY <2>2, <3>1, <1>11, LookupAfter, InvariantGivesLookup DEF LookupExact
  <2>3. ASSUME x # k, \A i \in Index : ~Holds(i, x) PROVE Lookup(x)' = Lookup(x)
    BY <2>3, <1>7, <1>11, LookupAfter, InvariantGivesLookup DEF LookupExact
  <2> QED BY <2>1, <2>2, <2>3
<1> QED
  BY <1>11, <1>12 DEF After

\* A tombstone keeps the invariant: it is not empty, so every other key stays
\* reachable.
LEMMA BuryKeepsInv ==
    ASSUME HashInv, NEW k \in Keys, Bury(k)
    PROVE  HashInv' /\ After(k, NoValue)
<1>1. PICK t \in Index : t = Found(k) /\ Holds(t, k)
  BY FoundIsHolder DEF Bury
<1>2. /\ entries_' = [entries_ EXCEPT ![t].state = "Deleted"]
      /\ size_' = size_ - 1 /\ hash' = hash
  BY <1>1 DEF Bury
<1>3. \A i \in Index \ {t} : entries_'[i] = entries_[i]
  BY <1>2 DEF HashInv, TypeOK
<1>4. entries_'[t].state = "Deleted" /\ t \in Occupied
  BY <1>1, <1>2 DEF HashInv, TypeOK, Holds, Occupied
<1>5. Occupied' = Occupied \ {t}
  BY <1>3, <1>4 DEF Occupied
<1>6. TypeOK'
  <2>1. entries_' \in [Index -> [key : Keys \cup {NoKey}, value : MapValues \cup {NoValue},
                               state : {"Empty", "Occupied", "Deleted"}]]
    BY <1>2 DEF HashInv, TypeOK
  <2>2. hash' \in [Keys -> Index]
    BY <1>2 DEF HashInv, TypeOK
  <2>3. \A i \in Occupied' : entries_'[i].key \in Keys /\ entries_'[i].value \in MapValues
    BY <1>3, <1>5 DEF HashInv, TypeOK, Occupied
  <2> QED BY <2>1, <2>2, <2>3 DEF TypeOK
<1>7. \A x \in Keys, i \in Index : Holds(i, x)' <=> Holds(i, x) /\ i # t
  BY <1>3, <1>4 DEF Holds
<1>8. Reachable'
  <2>1. \A i \in Index : entries_'[i].state = "Empty" => entries_[i].state = "Empty"
    BY <1>3, <1>4
  <2> QED BY <1>2, <1>7, <2>1, ReachableStep
<1>9. Once'
  BY <1>7 DEF HashInv, Once
<1>10. SizeExact'
  <2>1. Cardinality(Occupied') = Cardinality(Occupied) - 1
    BY <1>4, <1>5, OccupiedIsFinite, FS_RemoveElement
  <2>2. size_' = Cardinality(Occupied')
    BY <1>2, <2>1, SizeIsOccupied
  <2> QED BY <2>2 DEF SizeExact, Occupied
<1>11. HashInv'
  BY <1>6, <1>8, <1>9, <1>10 DEF HashInv
<1>12. ASSUME NEW x \in Keys PROVE Lookup(x)' = IF x = k THEN NoValue ELSE Lookup(x)
  <2>1. CASE x = k
    <3>1. \A i \in Index : ~Holds(i, k)'
      BY <1>1, <1>7 DEF HashInv, Once
    <3> QED BY <2>1, <3>1, <1>11, LookupAfter DEF LookupExact
  <2>2. ASSUME x # k, NEW i \in Index, Holds(i, x) PROVE Lookup(x)' = Lookup(x)
    <3>1. Holds(i, x)' /\ entries_'[i].value = entries_[i].value
      BY <1>1, <1>3, <1>7, <2>2 DEF Holds
    <3> QED BY <2>2, <3>1, <1>11, LookupAfter, InvariantGivesLookup DEF LookupExact
  <2>3. ASSUME x # k, \A i \in Index : ~Holds(i, x) PROVE Lookup(x)' = Lookup(x)
    BY <2>3, <1>7, <1>11, LookupAfter, InvariantGivesLookup DEF LookupExact
  <2> QED BY <2>1, <2>2, <2>3
<1> QED
  BY <1>11, <1>12 DEF After

\* Every call is one of the cases.
LEMMA Cases ==
    ASSUME [Next]_vars
    PROVE  \/ \E k \in Keys : \E v \in MapValues :
                 /\ Overwrite(k, v) \/ StoreNew(k, v)
                 /\ answer' = <<"insert", k, TRUE>>
           \/ \E k \in Keys : \E v \in MapValues :
                 /\ Found(k) = Capacity /\ Target(k) = Capacity
                 /\ UNCHANGED <<entries_, size_, hash>> /\ answer' = <<"insert", k, FALSE>>
           \/ \E k \in Keys : Bury(k) /\ answer' = <<"erase", k, TRUE>>
           \/ \E k \in Keys :
                 /\ Found(k) = Capacity
                 /\ UNCHANGED <<entries_, size_, hash>> /\ answer' = <<"erase", k, FALSE>>
           \/ UNCHANGED vars
<1>1. CASE UNCHANGED vars
  BY <1>1
<1>2. ASSUME NEW k \in Keys, erase(k)
      PROVE  \/ Bury(k) /\ answer' = <<"erase", k, TRUE>>
             \/ /\ Found(k) = Capacity
                /\ UNCHANGED <<entries_, size_, hash>> /\ answer' = <<"erase", k, FALSE>>
  <2>1. CASE Found(k) # Capacity
    BY <1>2, <2>1 DEF erase, Bury
  <2>2. CASE Found(k) = Capacity
    BY <1>2, <2>2 DEF erase
  <2> QED BY <2>1, <2>2
<1>3. ASSUME NEW k \in Keys, NEW v \in MapValues, insert(k, v)
      PROVE  \/ /\ Overwrite(k, v) \/ StoreNew(k, v)
                /\ answer' = <<"insert", k, TRUE>>
             \/ /\ Found(k) = Capacity /\ Target(k) = Capacity
                /\ UNCHANGED <<entries_, size_, hash>> /\ answer' = <<"insert", k, FALSE>>
  BY <1>3 DEF insert, Overwrite, StoreNew
<1> QED
  BY <1>1, <1>2, <1>3 DEF Next

\* An empty table satisfies the invariant.
LEMMA EmptyTable == Init => HashInv
<1> SUFFICES ASSUME Init PROVE HashInv
  OBVIOUS
<1>1. Occupied = {}
  BY DEF Init, Occupied
<1>2. TypeOK
  BY <1>1 DEF Init, TypeOK
<1>3. \A k \in Keys, i \in Index : ~Holds(i, k)
  BY <1>1 DEF Holds, Occupied
<1>4. Reachable
  BY <1>2, <1>3, ProbesVisitAll DEF Reachable, TypeOK
<1>5. Once
  BY <1>3 DEF Once
<1>6. SizeExact
  BY <1>1, FS_EmptySet DEF Init, SizeExact, Occupied
<1> QED BY <1>2, <1>4, <1>5, <1>6 DEF HashInv

\* The invariant of the table: typed entries, every key stored once and reachable
\* by its probes, and size_ exact.
THEOREM HashMapInvariant == Spec => []HashInv
<1>1. Init => HashInv
  BY EmptyTable
<1>2. HashInv /\ [Next]_vars => HashInv'
  <2> SUFFICES ASSUME HashInv, [Next]_vars PROVE HashInv'
    OBVIOUS
  <2>1. CASE UNCHANGED <<entries_, size_, hash>>
    BY <2>1 DEF HashInv, TypeOK, Occupied, Reachable, Once, SizeExact, Holds, Probe
  <2> QED
    BY <2>1, Cases, OverwriteKeepsInv, StoreNewKeepsInv, BuryKeepsInv DEF vars
<1> QED
  BY <1>1, <1>2, PTL DEF Spec

\* size() is the number of keys in the table after any sequence of insert and
\* erase, tombstones reused or not.
THEOREM SizeIsExact == Spec => []SizeExact
<1>1. HashInv => SizeExact
  BY DEF HashInv
<1> QED
  BY <1>1, HashMapInvariant, PTL

-----------------------------------------------------------------------------
(* Refinement *)

\* A call that changes no entry changes no lookup.
LEMMA LookupsKept ==
    ASSUME UNCHANGED <<entries_, size_, hash>>
    PROVE  \A k \in Keys : Lookup(k)' = Lookup(k)
<1>1. \A k, p : Probe(k, p)' = Probe(k, p)
  BY ProbesFixed
<1>2. ASSUME NEW k \in Keys PROVE Stop(k)' = Stop(k)
  BY DEF Stop, Holds, Probe
<1>3. ASSUME NEW k \in Keys PROVE Found(k)' = Found(k)
  BY <1>2 DEF Found, Holds, Probe
<1> QED
  BY <1>3 DEF Lookup

\* BoundedMap counts as this module does.
LEMMA SameCardinality == \A S : Abstract!Cardinality(S) = Cardinality(S)
BY DEF Cardinality, IsFiniteSet, Abstract!Cardinality, Abstract!IsFiniteSet

\* FixedHashMap implements BoundedMap: insert, find and erase answer as a map of
\* at most Capacity keys would, for every hash function and whatever was erased.
THEOREM TableIsBoundedMap == Spec => IsBoundedMap
<1> DEFINE map == [k \in Keys |-> LET i == Found(k) IN IF i # Capacity THEN entries_[i].value ELSE NoValue]
<1>1. \A k \in Keys : map[k] = Lookup(k)
  BY DEF Lookup
<1>2. \A k \in Keys : map'[k] = Lookup(k)'
  BY DEF Lookup
<1>3. ASSUME NEW k \in Keys, NEW w, After(k, w) PROVE map' = [map EXCEPT ![k] = w]
  BY <1>1, <1>2, <1>3 DEF After
<1>4. \A k \in Keys : Abstract!Present(k) <=> Lookup(k) # NoValue
  BY DEF Abstract!Present, Lookup
<1>5. {k \in Keys : Abstract!Present(k)} = {k \in Keys : Lookup(k) # NoValue}
  BY <1>4
<1>6. Init => Abstract!MapInit
  <2> SUFFICES ASSUME Init PROVE Abstract!MapInit
    OBVIOUS
  <2>1. HashInv
    BY EmptyTable
  <2>2. \A k \in Keys, i \in Index : ~Holds(i, k)
    BY DEF Init, Holds
  <2>3. \A k \in Keys : Lookup(k) = NoValue
    BY <2>1, <2>2, InvariantGivesLookup DEF LookupExact
  <2> QED BY <2>3 DEF Init, Abstract!MapInit, Lookup
<1>7. HashInv /\ [Next]_vars => [Abstract!MapNext]_(Abstract!mapVars)
  <2> SUFFICES ASSUME HashInv, [Next]_vars PROVE [Abstract!MapNext]_(Abstract!mapVars)
    OBVIOUS
  <2>0. LookupExact
    BY InvariantGivesLookup
  <2>1. ASSUME NEW k \in Keys, NEW v \in MapValues, Overwrite(k, v), answer' = <<"insert", k, TRUE>>
        PROVE  Abstract!Put(k, v)
    <3>1. Lookup(k) # NoValue
      BY <2>0, <2>1, FoundIsHolder DEF Overwrite, LookupExact
    <3>2. map' = [map EXCEPT ![k] = v]
      BY <1>3, <2>1, OverwriteKeepsInv
    <3> QED BY <1>4, <2>1, <3>1, <3>2 DEF Abstract!Put
  <2>2. ASSUME NEW k \in Keys, NEW v \in MapValues, StoreNew(k, v), answer' = <<"insert", k, TRUE>>
        PROVE  Abstract!Put(k, v)
    <3>1. Occupied # Index /\ Occupied \in SUBSET Index
      BY <2>2, TargetIsFree DEF StoreNew, Occupied
    <3>2. Cardinality(Occupied) < Capacity
      BY <3>1, OccupiedIsFinite, FS_Subset, MapAssumption
    <3>3. Cardinality({x \in Keys : Abstract!Present(x)}) < Capacity
      BY <1>5, <2>0, <3>2 DEF LookupExact
    <3>4. map' = [map EXCEPT ![k] = v]
      BY <1>3, <2>2, StoreNewKeepsInv
    <3> QED BY <2>2, <3>3, <3>4, SameCardinality DEF Abstract!Put
  <2>3. ASSUME NEW k \in Keys, Found(k) = Capacity, Target(k) = Capacity,
               UNCHANGED <<entries_, size_, hash>>, answer' = <<"insert", k, FALSE>>
        PROVE  \A v : Abstract!Put(k, v)
    <3>1. Lookup(k) = NoValue
      BY <2>3 DEF Lookup
    <3>2. Cardinality(Occupied) = Capacity
      BY <2>3, TargetIsFree, OccupiedIsFinite
    <3>3. Cardinality({x \in Keys : Abstract!Present(x)}) = Capacity
      BY <1>5, <2>0, <3>2 DEF LookupExact
    <3>4. map' = map
      BY <1>1, <1>2, <2>3, LookupsKept
    <3> QED BY <1>4, <2>3, <3>1, <3>3, <3>4, SameCardinality DEF Abstract!Put
  <2>4. ASSUME NEW k \in Keys, Bury(k), answer' = <<"erase", k, TRUE>>
        PROVE  Abstract!Remove(k)
    <3>1. Lookup(k) # NoValue
      BY <2>0, <2>4, FoundIsHolder DEF Bury, LookupExact
    <3>2. map' = [map EXCEPT ![k] = NoValue]
      BY <1>3, <2>4, BuryKeepsInv
    <3> QED BY <1>4, <2>4, <3>1, <3>2 DEF Abstract!Remove
  <2>5. ASSUME NEW k \in Keys, Found(k) = Capacity,
               UNCHANGED <<entries_, size_, hash>>, answer' = <<"erase", k, FALSE>>
        PROVE  Abstract!Remove(k)
    <3>1. Lookup(k) = NoValue
      BY <2>5 DEF Lookup
    <3>2. map' = map
      BY <1>1, <1>2, <2>5, LookupsKept
    <3>3. [map EXCEPT ![k] = NoValue] = map
      BY <1>1, <3>1
    <3>4. Abstract!Present(k) = FALSE
      BY <1>4, <3>1 DEF Abstract!Present
    <3>5. answer' = <<"erase", k, Abstract!Present(k)>>
      BY ONLY <2>5, <3>4
    <3> QED BY <3>2, <3>3, <3>5 DEF Abstract!Remove
  <2>6. ASSUME UNCHANGED vars PROVE UNCHANGED Abstract!mapVars
    <3>1. map' = map
      BY <1>1, <1>2, <2>6, LookupsKept DEF vars
    <3> QED BY <2>6, <3>1 DEF vars, Abstract!mapVars
  <2> QED BY <2>1, <2>2, <2>3, <2>4, <2>5, <2>6, Cases DEF Abstract!MapNext
<1> QED
  BY <1>6, <1>7, HashMapInvariant, PTL DEF Spec, IsBoundedMap, Abstract!MapSpec
=============================================================================
