---------------------------- MODULE MCTicketSales ----------------------------
(* Small instances of TicketSales for TLC. *)
EXTENDS TicketSales, TLC

CONSTANTS ann, bob, s1, s2, s3

SwapWorkers == Permutations(Workers)

\* Ann buys one and, in another sale, two at once; Bob buys one.
Customer == [s \in Sales |-> IF s = s2 THEN bob ELSE ann]
Quantity == [s \in Sales |-> IF s = s3 THEN 2 ELSE 1]

\* More seats, fewer, and a pause.
Restocks == {[total |-> 3, active |-> TRUE], [total |-> 1, active |-> TRUE],
             [total |-> 2, active |-> FALSE]}

OneMore == {[total |-> 2, active |-> TRUE]}

=============================================================================
