------------------------------ MODULE Migration -------------------------------
(* What a migration promises: its N statements take effect one at a time, none *)
(* before the ones it may need, none twice, and none is undone.               *)
EXTENDS Naturals

CONSTANT N

VARIABLE applied  \* the statements that took effect

Init == applied = {}

TakesEffect(k) ==
  /\ k \notin applied
  /\ 1..(k - 1) \subseteq applied
  /\ applied' = applied \union {k}

Next == \E k \in 1..N : TakesEffect(k)

Spec == Init /\ [][Next]_applied
=============================================================================
