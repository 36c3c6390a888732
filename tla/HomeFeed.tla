-------------------------------- MODULE HomeFeed --------------------------------
(***************************************************************************)
(* Home's "current event": one customer's plans, briefs and bookings are    *)
(* read side by side, deduplicated and ranked, while the records go on      *)
(* moving.  An event is followed through all three; the brief may have been *)
(* built from its plan or from scratch, the booking comes from the brief.   *)
(***************************************************************************)
EXTENDS Integers, Sequences, FiniteSets, Functions

CONSTANTS
    Events,    \* the events of the customer
    Homes,     \* home requests in flight at once
    MaxMoves   \* writes that may land while a home request is under way

VARIABLES
    event,  \* per event: its plan, its brief and its booking
    home,   \* per home request: what it read so far
    moves   \* per home request: the writes since it started

\* One customer has finitely many events. Checked where the constants get their values.
FeedAssumption == IsFiniteSet(Events)

homeVars == <<event, home, moves>>

NoEvent == [plan |-> "none", brief |-> "none", fromPlan |-> FALSE, quotes |-> 0, booking |-> "none"]
NoHome  == [at |-> "idle", left |-> {}, copy |-> [e \in Events |-> NoEvent],
            dropped |-> {}, asked |-> {}, shown |-> <<>>]

Init ==
    /\ event = [e \in Events |-> NoEvent]
    /\ home = [h \in Homes |-> NoHome]
    /\ moves = [h \in Homes |-> 0]

-----------------------------------------------------------------------------
(* The stages.                                                              *)

Rank == [draft |-> 1, submitted |-> 2, quotes_received |-> 3, quote_accepted |-> 4, booking_created |-> 5,
         booking_confirmed |-> 6, in_progress |-> 7, completed |-> 8]

BookingStage(status) ==
    CASE status = "confirmed"   -> "booking_confirmed"
      [] status = "in_progress" -> "in_progress"
      [] status = "completed"   -> "completed"
      [] OTHER                  -> "booking_created"

QuoteStage(status, quotes) ==
    IF status = "accepted" THEN "quote_accepted"
    ELSE IF status = "quoted" \/ quotes > 0 THEN "quotes_received" ELSE "submitted"

PlanStage(status) == IF status = "submitted" THEN "submitted" ELSE "draft"

-----------------------------------------------------------------------------
(* What the three services call active.  An expired booking is not among    *)
(* the terminal ones.                                                       *)

ActivePlan(r)  == r.plan \in {"draft", "submitted"}
ActiveBrief(r) == r.brief \in {"open", "quoted", "accepted"}
LiveBooking(r) == r.booking \notin {"none", "cancelled", "rejected", "completed"}

Card(source, e, stage) == [source |-> source, event |-> e, rank |-> Rank[stage], fresh |-> FALSE]

\* Faulty variant: the bookings that were read are not held against the briefs.
BookedNone(copy) == {e \in Events : FALSE}

\* The briefs of the bookings that were read.
Booked(copy) == {e \in Events : LiveBooking(copy[e])}

\* The plans an active brief was built from.
Covered(copy, active) == {e \in active : copy[e].fromPlan}

Candidates(copy, dropped) ==
    LET briefs == {e \in Events : ActiveBrief(copy[e])} \ dropped
        plans  == {e \in Events : ActivePlan(copy[e])} \ Covered(copy, briefs)
    IN {Card("booking", e, BookingStage(copy[e].booking)) : e \in Booked(copy)}
       \cup {Card("quote", e, QuoteStage(copy[e].brief, copy[e].quotes)) : e \in briefs}
       \cup {Card("plan", e, PlanStage(copy[e].plan)) : e \in plans}

\* Furthest along first, ties in the order pushed: bookings, briefs, plans.
Pushed == [booking |-> 1, quote |-> 2, plan |-> 3]
NotAfter(c, d) == c.rank > d.rank \/ (c.rank = d.rank /\ Pushed[c.source] <= Pushed[d.source])

\* Faulty variant: in the order pushed.
OrderedAsRead(cards, unread) ==
    LET listed == CHOOSE s \in Bijection(1..Cardinality(cards), cards) :
                    \A i, j \in DOMAIN s : i < j => Pushed[s[i].source] <= Pushed[s[j].source]
    IN IF cards = {} THEN <<>> ELSE [listed EXCEPT ![1].fresh = unread]

Ranked(cards) ==
    CHOOSE s \in Bijection(1..Cardinality(cards), cards) :
        \A i, j \in DOMAIN s : i < j => NotAfter(s[i], s[j])

\* The first card carries the badge.
Ordered(cards, unread) ==
    IF cards = {} THEN <<>> ELSE [Ranked(cards) EXCEPT ![1].fresh = unread]

\* The briefs dropped when nothing moves: booked ones, whatever became of
\* the booking if the brief was accepted.
Represented(w) == {e \in Events : LiveBooking(w[e]) \/ (w[e].brief = "accepted" /\ w[e].booking # "none")}

-----------------------------------------------------------------------------
(* A home request: four reads at once, then one look per accepted brief.    *)

Open(h) ==
    /\ home[h].at = "idle"
    /\ home' = [home EXCEPT ![h] = [NoHome EXCEPT !.at = "read",
                 !.left = {"plans", "briefs", "quotations", "bookings"}]]
    /\ moves' = [moves EXCEPT ![h] = 0]
    /\ UNCHANGED event

\* The copy once one more of the four lists is in.
With(copy, what) ==
    [e \in Events |->
        CASE what = "plans"      -> [copy[e] EXCEPT !.plan = event[e].plan]
          [] what = "briefs"     -> [copy[e] EXCEPT !.brief = event[e].brief, !.fromPlan = event[e].fromPlan]
          [] what = "quotations" -> [copy[e] EXCEPT !.quotes = event[e].quotes]
          [] what = "bookings"   -> [copy[e] EXCEPT !.booking = event[e].booking]]

\* The quotations of a brief are counted after the briefs were found.
Read(h) ==
    /\ home[h].at = "read"
    /\ \E what \in home[h].left :
         /\ what = "quotations" => "briefs" \notin home[h].left
         /\ home' = [home EXCEPT ![h] = [home[h] EXCEPT
              !.left = home[h].left \ {what},
              !.at = IF home[h].left = {what} THEN "filter" ELSE "read",
              !.copy = With(home[h].copy, what)]]
    /\ UNCHANGED <<event, moves>>

\* Faulty variant: an accepted brief is kept without a look at its booking.
AskNot(h) ==
    /\ home[h].at = "filter"
    /\ home' = [home EXCEPT ![h].at = "show", ![h].dropped = Booked(home[h].copy)]
    /\ UNCHANGED <<event, moves>>

\* existsForRequest: does any booking exist, whatever its status.
Ask(h) ==
    /\ home[h].at = "filter"
    /\ LET booked == Booked(home[h].copy)
           toAsk  == {e \in Events : home[h].copy[e].brief = "accepted"} \ (booked \cup home[h].asked)
       IN IF toAsk = {}
          THEN home' = [home EXCEPT ![h].at = "show", ![h].dropped = @ \cup booked]
          ELSE \E e \in toAsk :
                 home' = [home EXCEPT ![h].asked = @ \cup {e},
                           ![h].dropped = IF event[e].booking # "none" THEN @ \cup {e} ELSE @]
    /\ UNCHANGED <<event, moves>>

Show(h) ==
    /\ home[h].at = "show"
    /\ \E unread \in BOOLEAN :
         home' = [home EXCEPT ![h] = [@ EXCEPT !.at = "shown",
                   !.shown = Ordered(Candidates(home[h].copy, home[h].dropped), unread)]]
    /\ UNCHANGED <<event, moves>>

Close(h) ==
    /\ home[h].at = "shown"
    /\ home' = [home EXCEPT ![h] = NoHome]
    /\ UNCHANGED <<event, moves>>

-----------------------------------------------------------------------------
(* The records move on, each by the service that keeps it.                  *)

Write(e, r) ==
    /\ \A h \in Homes : home[h].at = "idle" \/ moves[h] < MaxMoves
    /\ event' = [event EXCEPT ![e] = r]
    /\ moves' = [h \in Homes |-> IF home[h].at = "idle" THEN 0 ELSE moves[h] + 1]
    /\ UNCHANGED home

PlanMoves(e) ==
    \/ event[e].plan = "none" /\ event[e].brief = "none" /\ Write(e, [event[e] EXCEPT !.plan = "draft"])
    \/ event[e].plan = "draft" /\ Write(e, [event[e] EXCEPT !.plan = "submitted"])

BriefMoves(e) ==
    LET r == event[e] IN
    \/ r.brief = "none" /\ \E p \in {FALSE, r.plan = "submitted"} :
         Write(e, [r EXCEPT !.brief = "open", !.fromPlan = p])
    \/ r.brief = "open" /\ Write(e, [r EXCEPT !.brief = "quoted", !.quotes = 1])
    \/ r.brief = "quoted" /\ Write(e, [r EXCEPT !.brief = "open", !.quotes = 0])
    \/ r.brief = "quoted" /\ Write(e, [r EXCEPT !.brief = "accepted"])
    \/ r.brief \in {"open", "quoted"} /\ Write(e, [r EXCEPT !.brief = "cancelled"])

BookingMoves(e) ==
    LET r == event[e]
        Next_(from, to) == r.booking = from /\ Write(e, [r EXCEPT !.booking = to])
    IN \/ r.brief = "accepted" /\ Next_("none", "pending")
       \/ \E to \in {"confirmed", "rejected", "expired"} : Next_("pending", to)
       \/ Next_("confirmed", "in_progress")
       \/ Next_("in_progress", "completed")
       \/ \E from \in {"pending", "confirmed"} : Next_(from, "cancelled")

Next ==
    \/ \E h \in Homes : Open(h) \/ Read(h) \/ Ask(h) \/ Show(h) \/ Close(h)
    \/ \E e \in Events : PlanMoves(e) \/ BriefMoves(e) \/ BookingMoves(e)

Spec == Init /\ [][Next]_homeVars

-----------------------------------------------------------------------------

\* What Home shows of the records as they stand, when nothing moves.
Now == Ordered(Candidates(event, Represented(event)), FALSE)

Feeds == {Now} \cup {home[h].shown : h \in Homes}

\* However the reads interleave with the writes, a brief and the booking made
\* from it are never two cards of one feed.
BriefOrBooking ==
    \A f \in Feeds : \A i, j \in DOMAIN f :
        f[i].event = f[j].event /\ f[i].source = "quote" => f[j].source # "booking"

\* Every event with a record that is still open has a card, and the card shown
\* first is as far along as any record of the account.
NothingIsHidden ==
    /\ \A e \in Events :
         \/ LiveBooking(event[e])
         \/ ActiveBrief(event[e]) /\ event[e].booking = "none"
         \/ ActivePlan(event[e]) /\ ~ActiveBrief(event[e])
         => \E i \in DOMAIN Now : Now[i].event = e
    /\ Now # <<>> => \A e \in Events :
         /\ LiveBooking(event[e]) => Rank[BookingStage(event[e].booking)] <= Now[1].rank
         /\ event[e].brief = "accepted" /\ event[e].booking = "none" => 4 <= Now[1].rank

\* "a plan that produced a brief is that brief": a plan and what became of its
\* brief are one event, and one card.
PlanIsItsBrief ==
    \A f \in Feeds : \A i, j \in DOMAIN f : f[i].event = f[j].event /\ event[f[i].event].fromPlan => i = j

\* A request no write came between shows exactly the records as they stand,
\* although it looked each accepted brief up again.
SettledIsNow ==
    \A h \in Homes : home[h].at = "shown" /\ moves[h] = 0 =>
        \E u \in BOOLEAN :
            Range(home[h].shown) = {[c EXCEPT !.fresh = u /\ c = Now[1]] : c \in Range(Now)}

=============================================================================
