------------------------------ MODULE Delivery ------------------------------
(***************************************************************************)
(* What a pipeline program does with each item, whatever its queues and    *)
(* threads do: items are generated in the order of their ids, visit the    *)
(* stages one after the other, and end freed (processed by the sink, or    *)
(* dropped where a queue was full) or forgotten in a destroyed queue.      *)
(***************************************************************************)
EXTENDS Integers

CONSTANTS NStages, Items

VARIABLE place    \* where each item is

InQueue(q) == <<"queue", q>>
AtStage(s) == <<"stage", s>>
New == <<"new", 0>>
AtSink == <<"sink", 0>>
Freed == <<"freed", 0>>
Forgotten == <<"forgotten", 0>>

Init == place = [x \in Items |-> New]

(* The moves of one item, from place p to place r.                          *)
Generate(p, r) == p = New /\ r \in {InQueue(0), Freed}

Process(p, r) == \E s \in 1 .. NStages : p = InQueue(s - 1) /\ r = AtStage(s)

Forward(p, r) == \E s \in 1 .. NStages : p = AtStage(s) /\ r \in {InQueue(s), Freed}

Consume(p, r) == <<p, r>> \in {<<InQueue(NStages), AtSink>>, <<AtSink, Freed>>}

Advance(x) ==
  LET p == place[x]
      r == place'[x]
  IN  /\ Generate(p, r) \/ Process(p, r) \/ Forward(p, r) \/ Consume(p, r)
      /\ p = New => \A y \in Items : y < x => place[y] # New
      /\ place' = [place EXCEPT ![x] = r]

Destroy(q) ==
  place' = [x \in Items |-> IF place[x] = InQueue(q) THEN Forgotten ELSE place[x]]

Next == (\E x \in Items : Advance(x)) \/ (\E q \in 0 .. NStages : Destroy(q))

Spec == Init /\ [][Next]_place
=============================================================================
