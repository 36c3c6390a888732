----------------------------- MODULE EventCatalogue -----------------------------
(***************************************************************************)
(* A public event as everybody reads it: its times and its ticket types,    *)
(* whether the catalogue lists it, what its page says about buying, what    *)
(* the organizer's dashboard counts and what a customer's tickets say.      *)
(* Requests come one at a time: how they interleave is TicketSales'.        *)
(*                                                                         *)
(* Time goes in half days, two to a day and fourteen to a week; day 0 is a  *)
(* Sunday, and 0 as the end of something means that it is not set.          *)
(***************************************************************************)
EXTENDS Integers, Sequences, FiniteSets, FiniteSetsExt

CONSTANTS
    Types,       \* ticket types
    Terms,       \* what a ticket type may be created or edited to
    Starts, Ends,   \* the times an event may be given
    Ceilings,    \* maxPerCustomer of the event
    Sales,       \* calls of startBooking
    Customers, Quantities,
    FirstInstant, LastInstant,   \* bounds of the clock
    MonthDays

\* Checked where the constants get their values.
CatalogueAssumption ==
    /\ IsFiniteSet(Types) /\ IsFiniteSet(Sales) /\ IsFiniteSet(Quantities)
    /\ Terms \subseteq [total : Nat, active : BOOLEAN, from : Nat, until : Nat, max : Nat, price : Nat]
    /\ Starts \cup Ends \cup Ceilings \cup Quantities \cup {FirstInstant} \subseteq Nat
    /\ MonthDays \in Nat /\ MonthDays >= 7

VARIABLES
    event,     \* status, times and ceiling
    types,     \* the ticket types
    bookings,  \* the event booking of each sale
    now

catalogueVars == <<event, types, bookings, now>>

NoType    == [total |-> 0, active |-> FALSE, from |-> 0, until |-> 0, max |-> 0, price |-> 0,
              available |-> 0, at |-> "none"]
NoBooking == [by |-> "", type |-> "", quantity |-> 0, amount |-> 0, payment |-> "none",
              status |-> "none", minted |-> 0, inside |-> 0]

Final  == {"completed", "cancelled"}
OnShow == {"published", "sold_out"}
Public == OnShow \cup {"completed"}
Moves  == [draft |-> {"published", "cancelled"}, published |-> {"draft"} \cup Final,
           sold_out |-> {"draft"} \cup Final, completed |-> {}, cancelled |-> {}]

\* assertTimes of an event, assertSalesWindow of a ticket type.
TimesHold(start, end) == end = 0 \/ end > start

Init ==
    /\ event \in {[status |-> "draft", starts |-> s, ends |-> e, max |-> m] :
                    s \in Starts, e \in Ends \cup {0}, m \in Ceilings}
    /\ TimesHold(event.starts, event.ends)
    /\ types = [t \in Types |-> NoType]
    /\ bookings = [s \in Sales |-> NoBooking]
    /\ now = FirstInstant

-----------------------------------------------------------------------------
(* The rules, as the functions of access.ts.                                *)

Listed(ty)      == {t \in Types : ty[t].at = "shelf"}
Holding(b)      == b.status \in {"pending", "confirmed"}
InWindow(t, at) == (types[t].from = 0 \/ at >= types[t].from) /\ (types[t].until = 0 \/ at <= types[t].until)

IsOnSale(t, at) ==
    /\ event.status = "published"
    /\ types[t].at = "shelf" /\ types[t].active /\ types[t].available > 0
    /\ InWindow(t, at)

IsSoldOut(ty) ==
    LET stocked == {t \in Listed(ty) : ty[t].active /\ ty[t].total > 0}
    IN stocked # {} /\ \A t \in stocked : ty[t].available <= 0

\* Faulty variant: whether the event still sells is not asked.
SaleStateAnyway ==
    LET stocked == {t \in Listed(types) : types[t].active /\ types[t].available > 0}
    IN IF IsSoldOut(types) THEN "sold_out"
       ELSE IF \E t \in Types : IsOnSale(t, now) THEN "on_sale"
       ELSE IF stocked = {} THEN "unavailable"
       ELSE IF \E t \in stocked : types[t].from > now THEN "upcoming" ELSE "closed"

Opening == {types[t].from : t \in {u \in Listed(types) : types[u].active /\ types[u].available > 0}}

\* saleStateOf.
SaleState ==
    IF IsSoldOut(types) THEN "sold_out"
    ELSE IF \E t \in Types : IsOnSale(t, now) THEN "on_sale"
    ELSE IF Opening = {} THEN "unavailable"
    ELSE IF event.status = "published" /\ \E o \in Opening : o > now THEN "upcoming" ELSE "closed"

OpensAt == CHOOSE o \in Opening : o > now /\ \A p \in Opening : p > now => o <= p

PerCustomerLimit(t) ==
    Min({types[t].available} \cup {m \in {event.max, types[t].max} : m > 0})

SeatsHeld(S) == SumFunction([s \in {x \in S : Holding(bookings[x])} |-> bookings[s].quantity])
Of(t)        == {s \in Sales : bookings[s].type = t}
By(c)        == {s \in Sales : bookings[s].by = c}
Allowance(c, t) == PerCustomerLimit(t) - SeatsHeld(By(c) \cap Of(t))

-----------------------------------------------------------------------------
(* The organizer.                                                           *)

\* refreshSoldOut, behind everything that moves stock.
Refresh(ev, ty) ==
    event' = [ev EXCEPT !.status = IF @ \notin OnShow THEN @
                                   ELSE IF IsSoldOut(ty) THEN "sold_out" ELSE "published"]

Update ==
    /\ event.status \notin Final
    /\ \E s \in Starts, e \in Ends \cup {0}, m \in Ceilings :
         /\ TimesHold(s, e)
         /\ event' = [event EXCEPT !.starts = s, !.ends = e, !.max = m]
    /\ UNCHANGED <<types, bookings, now>>

Shelved(t, terms, available) ==
    [f \in DOMAIN NoType |-> CASE f = "at" -> "shelf" [] f = "available" -> available [] OTHER -> terms[f]]

CreateTicketType(t, terms) ==
    /\ event.status \notin Final /\ types[t].at = "none" /\ TimesHold(terms.from, terms.until)
    /\ types' = [types EXCEPT ![t] = Shelved(t, terms, terms.total)]
    /\ Refresh(event, types')
    /\ UNCHANGED <<bookings, now>>

Sold(t) == types[t].total - types[t].available

\* Faulty variant: what is left is set to the new total.
UpdateTicketTypeAssigned(t, terms) ==
    /\ event.status \notin Final /\ types[t].at = "shelf"
    /\ TimesHold(terms.from, terms.until) /\ terms.total >= Sold(t)
    /\ types' = [types EXCEPT ![t] = Shelved(t, terms, terms.total)]
    /\ Refresh(event, types')
    /\ UNCHANGED <<bookings, now>>

\* Stock moves by the difference.
UpdateTicketType(t, terms) ==
    /\ event.status \notin Final /\ types[t].at = "shelf"
    /\ TimesHold(terms.from, terms.until) /\ terms.total >= Sold(t)
    /\ types' = [types EXCEPT ![t] = Shelved(t, terms, terms.total - Sold(t))]
    /\ Refresh(event, types')
    /\ UNCHANGED <<bookings, now>>

ArchiveTicketType(t) ==
    /\ types[t].at = "shelf"
    /\ \A s \in Of(t) : ~Holding(bookings[s])
    /\ types' = [types EXCEPT ![t].at = "archived"]
    /\ Refresh(event, types')
    /\ UNCHANGED <<bookings, now>>

ChangeStatus(to) ==
    /\ to \in Moves[event.status]
    /\ to = "published" => Listed(types) # {}
    /\ LET moved == [event EXCEPT !.status = to]
       IN IF to = "published" THEN Refresh(moved, types) ELSE event' = moved
    /\ UNCHANGED <<types, bookings, now>>

-----------------------------------------------------------------------------
(* The customers and the door.                                              *)

\* startBooking: free seats are confirmed and minted at once; a gateway that
\* refuses gives the seats of the others back.
StartBooking(s, c, t, n) ==
    LET amount == types[t].price * n
        booking == [by |-> c, type |-> t, quantity |-> n, amount |-> amount, inside |-> 0,
                    payment |-> "pending", status |-> "pending", minted |-> 0]
    IN /\ bookings[s] = NoBooking
       /\ IsOnSale(t, now) /\ n <= Allowance(c, t)
       /\ \/ /\ bookings' = [bookings EXCEPT ![s] =
                    IF amount = 0
                    THEN [booking EXCEPT !.payment = "paid", !.status = "confirmed", !.minted = n]
                    ELSE booking]
             /\ types' = [types EXCEPT ![t].available = @ - n]
             /\ Refresh(event, types')
          \/ /\ amount > 0
             /\ bookings' = [bookings EXCEPT ![s] = [booking EXCEPT !.status = "cancelled"]]
             /\ UNCHANGED <<event, types>>
       /\ UNCHANGED now

\* confirmBooking, and mint behind it.
ConfirmBooking(s) ==
    /\ bookings[s].status = "pending"
    /\ bookings' = [bookings EXCEPT ![s] =
         [@ EXCEPT !.payment = "paid", !.status = "confirmed", !.minted = bookings[s].quantity]]
    /\ UNCHANGED <<event, types, now>>

\* A signature that does not verify.
RefuseSignature(s) ==
    /\ bookings[s].status = "pending" /\ bookings[s].payment # "failed"
    /\ bookings' = [bookings EXCEPT ![s].payment = "failed"]
    /\ UNCHANGED <<event, types, now>>

DoorIsOpen == event.status \in Public

CheckIn(s) ==
    /\ DoorIsOpen /\ bookings[s].status = "confirmed"
    /\ bookings[s].inside < bookings[s].minted
    /\ bookings' = [bookings EXCEPT ![s].inside = @ + 1]
    /\ UNCHANGED <<event, types, now>>

Tick ==
    /\ now < LastInstant
    /\ now' = now + 1
    /\ UNCHANGED <<event, types, bookings>>

Next ==
    \/ Update \/ Tick
    \/ \E to \in {"draft", "published"} \cup Final : ChangeStatus(to)
    \/ \E t \in Types : ArchiveTicketType(t)
    \/ \E t \in Types, terms \in Terms : CreateTicketType(t, terms) \/ UpdateTicketType(t, terms)
    \/ \E s \in Sales, c \in Customers, t \in Types, n \in Quantities : StartBooking(s, c, t, n)
    \/ \E s \in Sales : ConfirmBooking(s) \/ RefuseSignature(s) \/ CheckIn(s)

Spec == Init /\ [][Next]_catalogueVars

-----------------------------------------------------------------------------
(* What is read.                                                            *)

\* dashboard and summaryFor.
Dashboard ==
    LET paid == {s \in Sales : bookings[s].status = "confirmed" /\ bookings[s].payment = "paid"}
    IN [sold      |-> SumFunction([s \in Sales |-> bookings[s].minted]),
        checkedIn |-> SumFunction([s \in Sales |-> bookings[s].inside]),
        capacity  |-> SumFunction([t \in Listed(types) |-> types[t].total]),
        remaining |-> SumFunction([t \in Listed(types) |-> types[t].available]),
        bookings  |-> Cardinality({s \in Sales : Holding(bookings[s])}),
        revenue   |-> SumFunction([s \in paid |-> bookings[s].amount])]

\* attendees: one row per ticket.
Attendees(checkIn) ==
    {ticket \in Sales \X (1..Max(Quantities \cup {0})) :
        LET s == ticket[1]  i == ticket[2]
        IN  /\ i <= bookings[s].minted
            /\ checkIn = (IF i <= bookings[s].inside THEN "checked_in" ELSE "pending")}

\* myTickets: the word on each ticket.
MyTickets(c) ==
    [s \in By(c) |-> [i \in 1..bookings[s].minted |->
        IF i <= bookings[s].inside THEN "checked_in"
        ELSE IF now > (IF event.ends = 0 THEN event.starts ELSE event.ends) THEN "completed"
        ELSE "upcoming"]]

Day(at)     == at \div 2
Weekday(at) == Day(at) % 7
EndOfDay(d) == 2 * d + 1
Later(a, b) == IF a > b THEN a ELSE b

\* Faulty variant: on a Sunday the weekend is the next one.
WindowAhead(when) ==
    LET friday == now + 2 * (5 - Weekday(now)) - (now % 2) IN
    CASE when = "today"   -> now..EndOfDay(Day(now))
      [] when = "weekend" -> Later(friday, now)..EndOfDay(Day(now) + 7 - Weekday(now))
      [] when = "month"   -> now..EndOfDay(Day(now) + MonthDays)

\* whenWindow.
Window(when) ==
    LET untilSunday == IF Weekday(now) = 0 THEN 0 ELSE 7 - Weekday(now)
        friday == 2 * (Day(now) + 5 - Weekday(now))
        weekend == IF Weekday(now) # 0 /\ Weekday(now) < 5 THEN Later(friday, now) ELSE now
    IN CASE when = "today"   -> now..EndOfDay(Day(now))
         [] when = "weekend" -> weekend..EndOfDay(Day(now) + untilSunday)
         [] when = "month"   -> now..EndOfDay(Day(now) + MonthDays)

\* browse, for the one event.
Browsed(when) ==
    /\ event.status \in Public
    /\ event.ends > now \/ (event.ends = 0 /\ event.starts > now)
    /\ when = "any" \/ event.starts \in Window(when)

-----------------------------------------------------------------------------
(* Properties.                                                             *)

\* The sign on a listed event tells its shelf, over all its ticket types and
\* whatever was edited, archived, sold or given back.
SignTellsTheShelf == event.status \in OnShow => (event.status = "sold_out" <=> IsSoldOut(types))

\* The one word about buying is true of every instant to come, if nobody
\* edits: what opens opens when it says, and the rest never does.
SaleWordIsTrue ==
    LET sellsAt(at) == \E t \in Types : IsOnSale(t, at)
    IN /\ SaleState = "on_sale" <=> sellsAt(now)
       /\ SaleState = "upcoming" => sellsAt(OpensAt) /\ \A at \in now..(OpensAt - 1) : ~sellsAt(at)
       /\ SaleState \notin {"on_sale", "upcoming"} =>
            \A at \in now..(2 * LastInstant) : ~sellsAt(at)

\* The organizer's figures are the customers' seats: what is left and what is
\* held make the capacity, nobody's ticket is of an archived type, tickets are
\* as many as the seats confirmed, and every reader counts the same at the door.
FiguresAgree ==
    /\ Dashboard.capacity = Dashboard.remaining + SeatsHeld(Sales)
    /\ \A t \in Listed(types) : Sold(t) = SeatsHeld(Of(t)) /\ types[t].available >= 0
    /\ Dashboard.sold = SeatsHeld({s \in Sales : bookings[s].status = "confirmed"})
    /\ Cardinality(Attendees("checked_in")) = Dashboard.checkedIn
    /\ Cardinality(Attendees("checked_in") \cup Attendees("pending")) = Dashboard.sold
    /\ \A c \in Customers : \A s \in By(c) : Len(MyTickets(c)[s]) = bookings[s].minted

\* The calendar's slices: the weekend is what is left of this week's Friday to
\* Sunday, and all that today or the weekend lists is listed for the month.
SlicesAreSound ==
    /\ Browsed("today") \/ Browsed("weekend") => Browsed("month")
    /\ event.starts > now /\ Browsed("any") =>
         (Browsed("weekend") <=> /\ Weekday(event.starts) \in {5, 6, 0}
                                 /\ Day(event.starts) - Day(now) <= (7 - Weekday(now)) % 7)

\* customer-public-event.service.ts: "an event that started an hour ago is not
\* something anybody can still buy a ticket to".
NothingToBuyOnceStarted == event.starts < now => \A t \in Types : ~IsOnSale(t, now)

\* customer-public-event.service.ts: a ticket loses its QR because "showing a
\* code that will be refused at the door wastes somebody's evening".
ShownCodesOpenTheDoor == \A s \in Sales : bookings[s].minted > bookings[s].inside => DoorIsOpen

=============================================================================
