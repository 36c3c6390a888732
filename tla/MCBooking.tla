------------------------------ MODULE MCBooking ------------------------------
(* Instances of Booking for TLC. *)
EXTENDS Booking, TLC

Symmetric == Permutations(Requests)

Move(a, t)  == [kind |-> "status", actor |-> a, target |-> t]
Call(k, a)  == [kind |-> k, actor |-> a, target |-> "none"]

\* One way of making each change, and one call that is refused.
OneOfEach ==
    {Move("manager", t) : t \in {"confirmed", "in_progress", "completed", "rejected"}} \cup
    {Move("owner", "cancelled"), Call("read", "owner"), Call("cash", "manager"),
     Call("remove", "owner"), Call("task", "manager"), Call("checklist", "manager"),
     Call("cash", "other")}

\* The calls that end a booking or race with its end.
Endings ==
    {Move("manager", "confirmed"), Move("manager", "completed"),
     Move("owner", "cancelled"), Call("read", "owner"), Call("remove", "owner")}

\* The way to a delivered event.
HappyPath == {Move("manager", "confirmed"), Move("manager", "completed")}
=============================================================================
