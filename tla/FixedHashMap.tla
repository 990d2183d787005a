---------------------------- MODULE FixedHashMap ----------------------------
(***************************************************************************)
(* FixedHashMap (src/common/fixed_hash_map.hpp): open addressing with      *)
(* linear probing and tombstones.  It is the index of the order book, from *)
(* order id to order.                                                      *)
(***************************************************************************)
EXTENDS Integers, FiniteSets, FiniteSetsExt

CONSTANTS Keys, MapValues,
          NoKey, NoValue,     \* what a default-constructed Entry holds
          Capacity

ASSUME MapAssumption == Capacity \in Nat \ {0} /\ NoValue \notin MapValues

VARIABLES entries_, size_,
          hash,       \* std::hash of each key modulo Capacity, arbitrary but fixed
          answer      \* the last modifying call and what it returned

vars == <<entries_, size_, hash, answer>>

Index == 0 .. Capacity - 1

Init ==
    /\ entries_ = [i \in Index |-> [key |-> NoKey, value |-> NoValue, state |-> "Empty"]]
    /\ size_ = 0
    /\ hash \in [Keys -> Index]
    /\ answer = <<>>

-----------------------------------------------------------------------------
\* The entry visited by probe number p: nextIndex applied p times.
Probe(k, p) == (hash[k] + p) % Capacity

Holds(i, k) == entries_[i].state = "Occupied" /\ entries_[i].key = k

\* The probe at which the loops of insert, find and erase stop: the key itself
\* or an empty entry; Capacity when every entry was visited.
Stop(k) ==
    Min({p \in 0 .. Capacity - 1 : entries_[Probe(k, p)].state = "Empty" \/ Holds(Probe(k, p), k)}
            \cup {Capacity})

\* find(k) and contains(k): the entry pointed at, or Capacity for nullptr.
Found(k) ==
    LET stop == Stop(k)
    IN  IF stop < Capacity /\ Holds(Probe(k, stop), k) THEN Probe(k, stop) ELSE Capacity

\* first_deleted: tombstones passed on the way.
Tombstones(k) == {p \in 0 .. Stop(k) - 1 : entries_[Probe(k, p)].state = "Deleted"}

\* Variant: tombstones are not used again.
Target_freshOnly(k) == IF Stop(k) < Capacity THEN Probe(k, Stop(k)) ELSE Capacity

\* Where insert stores a key that is not present; Capacity when it cannot.
Target(k) ==
    IF Tombstones(k) # {} THEN Probe(k, Min(Tombstones(k)))
    ELSE IF Stop(k) < Capacity THEN Probe(k, Stop(k)) ELSE Capacity

insert(k, v) ==
    /\ \/ /\ Found(k) # Capacity
          /\ entries_' = [entries_ EXCEPT ![Found(k)].value = v]
          /\ answer' = <<"insert", k, TRUE>>
          /\ UNCHANGED size_
       \/ /\ Found(k) = Capacity /\ Target(k) # Capacity
          /\ entries_' = [entries_ EXCEPT ![Target(k)] = [key |-> k, value |-> v, state |-> "Occupied"]]
          /\ size_' = size_ + 1
          /\ answer' = <<"insert", k, TRUE>>
       \/ /\ Found(k) = Capacity /\ Target(k) = Capacity
          /\ answer' = <<"insert", k, FALSE>>
          /\ UNCHANGED <<entries_, size_>>
    /\ UNCHANGED hash

\* Variant: size_ is not decremented.
erase_uncounted(k) ==
    /\ Found(k) # Capacity
    /\ entries_' = [entries_ EXCEPT ![Found(k)].state = "Deleted"]
    /\ answer' = <<"erase", k, TRUE>>
    /\ UNCHANGED <<size_, hash>>

\* erase leaves a tombstone, with key and value still in it.
erase(k) ==
    /\ IF Found(k) # Capacity
       THEN /\ entries_' = [entries_ EXCEPT ![Found(k)].state = "Deleted"]
            /\ size_' = size_ - 1
       ELSE UNCHANGED <<entries_, size_>>
    /\ answer' = <<"erase", k, Found(k) # Capacity>>
    /\ UNCHANGED hash

Next == \E k \in Keys : erase(k) \/ \E v \in MapValues : insert(k, v)

Spec == Init /\ [][Next]_vars

-----------------------------------------------------------------------------
(* Properties *)

\* size() counts the keys present.
SizeExact == size_ = Cardinality({i \in Index : entries_[i].state = "Occupied"})

\* The table is a map of at most Capacity keys: what find shows and what insert
\* and erase return is what BoundedMap gives, whatever hashes collide.
Abstract == INSTANCE BoundedMap WITH
    map <- [k \in Keys |-> LET i == Found(k) IN IF i # Capacity THEN entries_[i].value ELSE NoValue]
IsBoundedMap == Abstract!MapSpec
=============================================================================
