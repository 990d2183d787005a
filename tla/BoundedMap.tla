----------------------------- MODULE BoundedMap -----------------------------
(***************************************************************************)
(* What FixedHashMap (src/common/fixed_hash_map.hpp) promises: a map of at *)
(* most Capacity keys.  An insertion fails only when the key is new and    *)
(* Capacity keys are present, however many were erased before.             *)
(***************************************************************************)
EXTENDS Naturals, FiniteSets

CONSTANTS Keys, MapValues,
          NoValue,      \* the value of a key that is not present
          Capacity

VARIABLES map,          \* the value of each key
          answer        \* the last modifying call and what it returned

mapVars == <<map, answer>>

Present(k) == map[k] # NoValue

MapInit == map = [k \in Keys |-> NoValue] /\ answer = <<>>

Put(k, v) ==
    \/ /\ answer' = <<"insert", k, TRUE>>
       /\ Present(k) \/ Cardinality({x \in Keys : Present(x)}) < Capacity
       /\ map' = [map EXCEPT ![k] = v]
    \/ /\ answer' = <<"insert", k, FALSE>>
       /\ ~Present(k) /\ Cardinality({x \in Keys : Present(x)}) = Capacity
       /\ UNCHANGED map

Remove(k) ==
    /\ answer' = <<"erase", k, Present(k)>>
    /\ map' = [map EXCEPT ![k] = NoValue]

MapNext == \E k \in Keys : Remove(k) \/ \E v \in MapValues : Put(k, v)

MapSpec == MapInit /\ [][MapNext]_mapVars
=============================================================================
