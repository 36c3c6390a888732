------------------------------ MODULE MCCheckout -----------------------------
(* Small instances of Checkout for TLC. *)
EXTENDS Checkout, TLC

SwapWorkers == Permutations(Workers) \cup Permutations(OnlineOrders)
                 \cup Permutations(CashOrders)

=============================================================================
