----------------------------- MODULE BoundedLog -----------------------------
(* What the log stream promises: a log that remembers the last Capacity     *)
(* entries in the order they were appended, and that can be wiped.          *)
EXTENDS Naturals, Sequences

CONSTANTS Capacity, Entry

VARIABLE window

Init == window = <<>>

Remember(e) ==
  window' = IF Len(window) < Capacity THEN Append(window, e)
                                      ELSE Append(Tail(window), e)

Clear == window' = <<>>

Next == (\E e \in Entry : Remember(e)) \/ Clear

Spec == Init /\ [][Next]_window
=============================================================================
