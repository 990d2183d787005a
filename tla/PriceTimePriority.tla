------------------------- MODULE PriceTimePriority -------------------------
(***************************************************************************)
(* What the matching engine promises: an arriving order trades with the    *)
(* resting orders of the other side that its limit admits, best price      *)
(* first and oldest first among equals, each time at the resting order's   *)
(* price; what is left of it rests.  Order ids tell age.                   *)
(***************************************************************************)
EXTENDS Integers, Sequences, FiniteSets

VARIABLES resting,   \* orders [id, side, price, quantity]
          taker,     \* the order being matched: a set of at most one
          tape       \* trades [buy, sell, price, quantity], in order

engineVars == <<resting, taker, tape>>

EngineInit == resting = {} /\ taker = {} /\ tape = <<>>

Crosses(t, r) ==
    /\ t.side # r.side
    /\ IF t.side = "Buy" THEN t.price >= r.price ELSE t.price <= r.price

\* r1 has priority over r2, both resting on the same side.
Before(r1, r2) ==
    IF r1.price = r2.price THEN r1.id < r2.id
    ELSE IF r1.side = "Sell" THEN r1.price < r2.price ELSE r1.price > r2.price

Less(r, quantity) == [r EXCEPT !.quantity = @ - quantity]

\* A new order is younger than all others.
Arrive ==
    /\ taker = {} /\ Cardinality(taker') = 1
    /\ \A t \in taker', r \in resting : t.id > r.id
    /\ UNCHANGED <<resting, tape>>

\* An order that crosses nothing when it arrives rests at once.
ArriveAndRest ==
    /\ taker = {} /\ UNCHANGED <<taker, tape>>
    /\ resting \subseteq resting' /\ Cardinality(resting' \ resting) = 1
    /\ \A t \in resting' \ resting : \A r \in resting : t.id > r.id /\ ~Crosses(t, r)

Match(t, r) ==
    LET traded == IF t.quantity < r.quantity THEN t.quantity ELSE r.quantity
    IN  /\ Crosses(t, r) /\ t.quantity > 0
        /\ \A other \in resting \ {r} : other.side = r.side => Before(r, other)
        /\ tape' = Append(tape, [buy |-> IF t.side = "Buy" THEN t.id ELSE r.id,
                                 sell |-> IF t.side = "Buy" THEN r.id ELSE t.id,
                                 price |-> r.price, quantity |-> traded])
        /\ taker' = {Less(t, traded)}
        /\ resting' = (resting \ {r}) \cup
                      (IF traded < r.quantity THEN {Less(r, traded)} ELSE {})

\* The remainder rests when it crosses no more, or when the last trade was with
\* an order of quantity zero, which ends the matching.
Rest(t) ==
    /\ t.quantity > 0
    /\ (\A r \in resting : ~Crosses(t, r)) \/ (tape # <<>> /\ tape[Len(tape)].quantity = 0)
    /\ resting' = resting \cup {t} /\ taker' = {}
    /\ UNCHANGED tape

Filled(t) ==
    /\ t.quantity = 0 /\ taker' = {}
    /\ UNCHANGED <<resting, tape>>

EngineNext ==
    \/ Arrive \/ ArriveAndRest
    \/ \E t \in taker : Rest(t) \/ Filled(t) \/ \E r \in resting : Match(t, r)

EngineSpec == EngineInit /\ [][EngineNext]_engineVars
=============================================================================
