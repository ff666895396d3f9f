------------------------ MODULE MCPaymentLifecycle ------------------------
(* Instances of PaymentLifecycle for TLC. *)
EXTENDS PaymentLifecycle, TLC

Symmetric == Permutations(Requests)
=============================================================================
