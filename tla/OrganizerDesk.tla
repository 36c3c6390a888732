------------------------------ MODULE OrganizerDesk ------------------------------
(***************************************************************************)
(* An organizer's calendar and money: the days blocked by hand, the days    *)
(* booked, what the public profile promises of the days ahead, the month's  *)
(* figures and the statement of what is earned, deducted and still to be    *)
(* paid out.  Days count from a Sunday; money is whole rupees, and rates    *)
(* are percents.                                                            *)
(***************************************************************************)
EXTENDS Integers, FiniteSets, FiniteSetsExt

CONSTANTS
    Callers,      \* requests in flight at once
    Bookings,     \* the organizer's bookings
    Days,         \* the days this is about, one after another
    WorkingDays,  \* of the week, 0 is Sunday; empty when never filled in
    Horizon,      \* days looked ahead (120 in the code)
    Amounts       \* what bookings are worth

\* Checked where the constants get their values.
DeskAssumption ==
    /\ Days \subseteq Nat /\ Days # {} /\ Horizon \in Nat
    /\ IsFiniteSet(Bookings) /\ Amounts \subseteq Nat

VARIABLES
    bookings,  \* status, day and amount of each
    busy,      \* busyDates of the profile
    today,     \* the day it is
    tier,      \* sets the commission
    desk,      \* per request: where it stands and the array it will store
    asked      \* the days whose last stored answer was "blocked"

deskVars == <<bookings, busy, today, tier, desk, asked>>

NoBooking == [status |-> "none", day |-> 0, amount |-> 0]
NoDesk    == [at |-> "idle", day |-> 0, blocked |-> FALSE, dates |-> {}]

Init ==
    /\ bookings = [b \in Bookings |-> NoBooking]
    /\ busy = {} /\ asked = {}
    /\ today = Min(Days)
    /\ tier = "silver"
    /\ desk = [c \in Callers |-> NoDesk]

At(c, l) == desk[c].at = l

-----------------------------------------------------------------------------
(* setDateBlocked: the array is built from the one read and stored whole,   *)
(* which counts __v up and asks for the one read.                           *)

LoadDates(c) ==
    /\ At(c, "idle")
    /\ \E d \in Days, blocked \in BOOLEAN :
         /\ blocked # (d \in busy)
         /\ desk' = [desk EXCEPT ![c] = [at |-> "save", day |-> d, blocked |-> blocked,
                      dates |-> IF blocked THEN busy \cup {d} ELSE busy \ {d}]]
    /\ UNCHANGED <<bookings, busy, today, tier, asked>>

\* Faulty variant: the last array stored wins.
RivalsGoOn(c) == desk' = [desk EXCEPT ![c] = NoDesk]

\* Whoever read the array before it was stored is refused.
RivalsFail(c) ==
    desk' = [x \in Callers |-> IF x # c /\ At(x, "save") THEN [NoDesk EXCEPT !.at = "conflict"]
                               ELSE IF x = c THEN NoDesk ELSE desk[x]]

SaveDates(c) ==
    /\ At(c, "save")
    /\ busy' = desk[c].dates
    /\ asked' = IF desk[c].blocked THEN asked \cup {desk[c].day} ELSE asked \ {desk[c].day}
    /\ RivalsFail(c)
    /\ UNCHANGED <<bookings, today, tier>>

Conflict(c) ==
    /\ At(c, "conflict")
    /\ desk' = [desk EXCEPT ![c] = NoDesk]
    /\ UNCHANGED <<bookings, busy, today, tier, asked>>

-----------------------------------------------------------------------------
(* Around it: Booking and Standing.                                         *)

Book(b) ==
    /\ bookings[b] = NoBooking
    /\ \E d \in {x \in Days : x >= today}, m \in Amounts :
         bookings' = [bookings EXCEPT ![b] = [status |-> "awaiting", day |-> d, amount |-> m]]
    /\ UNCHANGED <<busy, today, tier, desk, asked>>

NextStatus == [none |-> {}, awaiting |-> {"confirmed", "rejected", "expired", "cancelled"},
               confirmed |-> {"in_progress", "completed", "cancelled"}, in_progress |-> {"completed", "cancelled"},
               completed |-> {}, rejected |-> {}, expired |-> {}, cancelled |-> {}]

Advance(b) ==
    /\ \E s \in NextStatus[bookings[b].status] : bookings' = [bookings EXCEPT ![b].status = s]
    /\ UNCHANGED <<busy, today, tier, desk, asked>>

Promote ==
    /\ tier' = CASE tier = "silver" -> "gold" [] OTHER -> "platinum"
    /\ tier' # tier
    /\ UNCHANGED <<bookings, busy, today, desk, asked>>

Midnight ==
    /\ today + 1 \in Days
    /\ today' = today + 1
    /\ UNCHANGED <<bookings, busy, tier, desk, asked>>

Next ==
    \/ \E c \in Callers : LoadDates(c) \/ SaveDates(c) \/ Conflict(c)
    \/ \E b \in Bookings : Book(b) \/ Advance(b)
    \/ Promote
    \/ Midnight

Spec == Init /\ [][Next]_deskVars

-----------------------------------------------------------------------------
(* The public profile.                                                      *)

WorksOn(d) == WorkingDays = {} \/ d % 7 \in WorkingDays
IsFree(d)  == WorksOn(d) /\ d \notin busy

Nowhere == -1
NextFree ==
    LET Ahead == {d \in today..(today + Horizon - 1) : IsFree(d)}
    IN IF Ahead = {} THEN Nowhere ELSE Min(Ahead)

\* Faulty variant: the days of that week that are over count as well.
SlotsOfTheWholeWeek ==
    IF NextFree = Nowhere THEN 0
    ELSE Cardinality({i \in 0..6 : IsFree(NextFree - (NextFree % 7) + i)})

SlotsLeftThatWeek ==
    IF NextFree = Nowhere THEN 0
    ELSE Cardinality({i \in 0..6 : LET d == NextFree - (NextFree % 7) + i IN d >= today /\ IsFree(d)})

-----------------------------------------------------------------------------
(* The organizer's own screens.                                             *)

With(S)    == {b \in Bookings : bookings[b].status \in S}
Worth(B)   == SumFunction([b \in B |-> bookings[b].amount])
Commission == [silver |-> 12, gold |-> 8, platinum |-> 6][tier]
Round(n)   == (n + 50) \div 100

\* getCalendar: booked unless it was cancelled or declined.
Booked == {b \in Bookings : bookings[b].status \notin {"none", "cancelled", "rejected"}}
Calendar == [bookedDates |-> {bookings[b].day : b \in Booked}, blockedDates |-> busy]

\* getDashboard.
Dashboard == [activeBookings |-> With({"confirmed", "in_progress"}), monthEarnings |-> Worth(Booked),
              next7Days |-> {b \in Booked : bookings[b].day \in today..(today + 7)}]

\* getEarnings: the commission is taken of the sum, what was paid out is
\* summed booking by booking.
Earning    == With({"confirmed", "in_progress", "completed"})
NetOf(b)   == Round(bookings[b].amount * (100 - Commission))
PaidNet(B) == SumFunction([b \in B |-> NetOf(b)])

\* Faulty variant: what the customers paid counts as paid out.
EarningsGross ==
    LET total == Worth(Earning)  commission == Round(total * Commission)
    IN [totalEarned |-> total, commission |-> commission, netPayout |-> total - commission,
        pendingPayout |-> total - commission - Worth(With({"completed"}))]

Earnings ==
    LET total == Worth(Earning)  commission == Round(total * Commission)
    IN [totalEarned |-> total, commission |-> commission, netPayout |-> total - commission,
        pendingPayout |-> total - commission - PaidNet(With({"completed"}))]

-----------------------------------------------------------------------------

\* A day an organizer was told is blocked is off the market until somebody
\* unblocks it: two taps at once do not undo each other, one of them fails.
BlockedIsKept == busy = asked

\* What the profile claims of the week is what a customer can still ask for:
\* the next free day is one of the slots, none is over, and an organizer with
\* nothing free makes no claim.
SlotsAreAhead ==
    /\ (NextFree = Nowhere) = (SlotsLeftThatWeek = 0)
    /\ NextFree # Nowhere =>
         SlotsLeftThatWeek <= 7 - (IF NextFree \div 7 = today \div 7 THEN today % 7 ELSE 0)

\* The calendar and what is offered of it.
CalendarIsKept == BlockedIsKept /\ SlotsAreAhead

\* The rupees still to be paid out are those of the bookings not yet
\* delivered, to a rupee a booking: two ways of rounding never drift further,
\* at any tier.
PayoutsAddUp ==
    LET due == PaidNet(Earning \ With({"completed"}))
    IN /\ Earnings.pendingPayout - due \in -Cardinality(Bookings)..Cardinality(Bookings)
       /\ Earnings.netPayout + Earnings.commission = Earnings.totalEarned
       /\ Earnings.totalEarned <= Dashboard.monthEarnings

\* organizer-profile.schema.ts says busyDates are the dates "the organizer is
\* already booked": a day the profile calls free has no confirmed event.
FreeIsUnbooked == \A b \in With({"confirmed", "in_progress"}) : bookings[b].day # NextFree

=============================================================================
