------------------------- MODULE MCSlotReservation -------------------------
(* Instances of SlotReservation for TLC: an hour, the hour that overlaps    *)
(* its second half, and the hour that starts when it ends.                  *)
EXTENDS SlotReservation, TLC

Nine     == [start |-> 2, end |-> 4]
HalfNine == [start |-> 3, end |-> 5]
OneSlot  == {Nine}
TwoSlots == {Nine, HalfNine}
Symmetric == Permutations(Sessions) \cup Permutations(Requests)
=============================================================================
