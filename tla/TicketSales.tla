----------------------------- MODULE TicketSales -----------------------------
(***************************************************************************)
(* One public event with one ticket type: the stock of seats, the bookings *)
(* that hold them, the tickets minted for the bookings, the SOLD_OUT sign  *)
(* and the door.  PublicEventService is the organizer's side of it,        *)
(* CustomerPublicEventService the customers'.                              *)
(*                                                                         *)
(* A worker is one request in flight; when it is answered it takes another.*)
(* Every awaited database or gateway call is an action.  `out', `rewritten'*)
(* and `entries' are history: no code reads them.  Prices and the sales    *)
(* window are left to chance: a sale may be free or not.                   *)
(***************************************************************************)
EXTENDS Integers, FiniteSets

CONSTANTS
    Workers,         \* requests that may be in flight at once
    Served,          \* the kinds of requests that are made
    Sales,           \* calls of startBooking, each the booking it may make
    CustomerOf,      \* the customer behind each sale
    Wanted,          \* dto.quantity of each sale
    Ceiling,         \* the narrower maxPerCustomer that is set, 0 for none
    InitialTotal,    \* totalQuantity of the ticket type when it is created
    Edits,           \* what updateTicketType may send: a total and a status
    MaxFaults        \* bound on requests that die and calls that fail

Statuses == {"draft", "published", "sold_out", "completed", "cancelled"}
Final    == {"completed", "cancelled"}
OnShow   == {"published", "sold_out"}
Moves    == {"publish", "unpublish", "complete", "cancel"}
Kinds    == {"sale", "confirm", "unverified", "edit", "archive", "view", "scan"}
              \cup Moves

NoSale   == "no sale"
NoEdit   == [total |-> 0, active |-> FALSE]
NoTicket == <<NoSale, 0>>

ASSUME TicketAssumption ==
    /\ NoSale \notin Sales
    /\ IsFiniteSet(Sales)
    /\ Served \subseteq Kinds
    /\ Wanted \in [Sales -> Nat \ {0}]
    /\ {Ceiling, InitialTotal, MaxFaults} \subseteq Nat
    /\ Edits \subseteq [total : Nat, active : BOOLEAN]

VARIABLES
    event,        \* status of the event
    total,        \* type.totalQuantity
    available,    \* type.availableQuantity
    active,       \* type.status is ACTIVE
    archived,     \* type.archived
    bookings,     \* the event booking of each sale, if there is one
    offered,      \* sales whose gateway order reached the customer
    captured,     \* gateway: sales whose order was paid
    minted,       \* tickets minted for each booking
    inside,       \* the tickets that are CHECKED_IN
    pc, call,     \* per worker: where it stands, and what it was asked
    copy,         \* what it read of the event, its stock and the booking
    faults,
    out,          \* seats taken off the shelf and not put back
    rewritten,    \* an edit of the stock was saved over sales it had not seen
    entries       \* people let in on the tickets of each booking

stock   == <<total, available, active, archived>>
paying  == <<offered, captured>>
door    == <<inside, entries>>
history == <<out, rewritten>>
locals  == <<call, copy>>
vars    == <<event, stock, bookings, paying, minted, door, pc, locals, faults,
             history>>

-----------------------------------------------------------------------------

NoBooking == [status |-> "none", payment |-> "none"]
Pending   == [status |-> "pending", payment |-> "pending"]
Paid      == [status |-> "confirmed", payment |-> "paid"]

NoCall == [kind |-> "none", sale |-> NoSale, edit |-> NoEdit, ticket |-> NoTicket]
NoCopy == [event |-> "draft", total |-> 0, available |-> 0, active |-> FALSE,
           payment |-> "none"]

Goto(w, l)   == pc' = [pc EXCEPT ![w] = l]
Carry(w, l)  == Goto(w, l) /\ UNCHANGED locals
Sale(w)      == call[w].sale
Kind(w)      == call[w].kind
Seats(s)     == {s} \X (1 .. Wanted[s])
Holds(s)     == bookings[s].status \in {"pending", "confirmed"}
SeatsOf(S)   == UNION {Seats(s) : s \in S}
Tickets(s)   == {s} \X (1 .. minted[s])

Finish(w) ==
    /\ Goto(w, "idle")
    /\ call' = [call EXCEPT ![w] = NoCall]
    /\ copy' = [copy EXCEPT ![w] = NoCopy]

\* The request is answered.  The customer can pay for a booking from when
\* startBooking has returned its order.
Answer(w) ==
    /\ Finish(w)
    /\ offered' = offered \cup
           {s \in Sales : /\ pc[w] \in {"shelf", "sign"} /\ Kind(w) = "sale"
                         /\ s = Sale(w) /\ bookings[s] = Pending}
    /\ UNCHANGED captured

\* create and createTicketType: a draft with its stock on the shelf.
Init ==
    /\ event = "draft"
    /\ total = InitialTotal
    /\ available = InitialTotal
    /\ active = TRUE
    /\ archived = FALSE
    /\ bookings = [s \in Sales |-> NoBooking]
    /\ offered = {}
    /\ captured = {}
    /\ minted = [s \in Sales |-> 0]
    /\ inside = {}
    /\ pc = [w \in Workers |-> "idle"]
    /\ call = [w \in Workers |-> NoCall]
    /\ copy = [w \in Workers |-> NoCopy]
    /\ faults = 0
    /\ out = {}
    /\ rewritten = FALSE
    /\ entries = [s \in Sales |-> 0]

-----------------------------------------------------------------------------
(* Requests arrive.                                                        *)

\* Every handler but confirmBooking begins by reading the event.
Take(w, c, l) ==
    /\ pc[w] = "idle"
    /\ c.kind \in Served
    /\ call' = [call EXCEPT ![w] = c]
    /\ copy' = [copy EXCEPT ![w] =
                  [NoCopy EXCEPT !.event = event,
                                 !.payment = IF c.sale = NoSale THEN "none"
                                             ELSE bookings[c.sale].payment]]
    /\ Goto(w, l)
    /\ UNCHANGED <<event, stock, bookings, paying, minted, door, faults, history>>

Call(kind) == [NoCall EXCEPT !.kind = kind]

\* startBooking: only a published event sells.  A refused sale may be tried
\* again; a call made after one that died with its seats is another sale.
StartBooking(w, s) ==
    /\ event = "published"
    /\ bookings[s] = NoBooking
    /\ Seats(s) \cap out = {}
    /\ \A v \in Workers : Sale(v) # s
    /\ Take(w, [Call("sale") EXCEPT !.sale = s], "type")

\* Faulty variant: the signature is not looked at.
ConfirmUnpaid(w, s) ==
    /\ s \in offered
    /\ bookings[s].status = "pending"
    /\ Take(w, [Call("confirm") EXCEPT !.sale = s], "confirm")

\* confirmBooking, with the gateway's signature and without one.  A booking
\* that is not PENDING is answered as it is.
Confirm(w, s) ==
    /\ s \in captured
    /\ bookings[s].status = "pending"
    /\ Take(w, [Call("confirm") EXCEPT !.sale = s], "confirm")

\* Faulty variant: a booking's status is asked after its signature.
ConfirmUnverifiedAny(w, s) ==
    /\ s \in offered
    /\ Take(w, [Call("unverified") EXCEPT !.sale = s], "refuse")

ConfirmUnverified(w, s) ==
    /\ s \in offered
    /\ bookings[s].status = "pending"
    /\ Take(w, [Call("unverified") EXCEPT !.sale = s], "refuse")

\* updateTicketType: a completed or cancelled event is not edited.
UpdateTicketType(w, e) ==
    /\ event \notin Final
    /\ Take(w, [Call("edit") EXCEPT !.edit = e], "edit")

ArchiveTicketType(w) == Take(w, Call("archive"), "sold")

ALLOWED_TRANSITIONS ==
    [publish   |-> [from |-> {"draft"},             to |-> "published"],
     unpublish |-> [from |-> OnShow,                to |-> "draft"],
     complete  |-> [from |-> OnShow,                to |-> "completed"],
     cancel    |-> [from |-> OnShow \cup {"draft"}, to |-> "cancelled"]]

ChangeStatus(w, m) ==
    /\ event \in ALLOWED_TRANSITIONS[m].from
    /\ Take(w, Call(m), IF m = "publish" THEN "sellable" ELSE "move")

\* findOne and the lists: a sold-out event is held against its stock.
View(w) ==
    /\ event = "sold_out"
    /\ Take(w, Call("view"), "stocktake")

\* checkIn: the door of a draft or cancelled event is shut; a ticket is good
\* while nobody used it and its booking is confirmed.
Scan(w, t) ==
    /\ event \in OnShow \cup {"completed"}
    /\ t \in Tickets(t[1]) \ inside
    /\ bookings[t[1]].status = "confirmed"
    /\ Take(w, [Call("scan") EXCEPT !.ticket = t], "admit")

Pay(s) ==
    /\ s \in offered \ captured
    /\ bookings[s].status = "pending"
    /\ captured' = captured \cup {s}
    /\ UNCHANGED <<event, stock, bookings, offered, minted, door, pc, locals, faults,
                   history>>

-----------------------------------------------------------------------------
(* startBooking.                                                           *)

\* A step that only reads: it goes on at `l' or refuses.
Look(w, from, ok, l) ==
    /\ pc[w] = from
    /\ IF ok THEN Carry(w, l) /\ UNCHANGED paying ELSE Answer(w)
    /\ UNCHANGED <<event, stock, bookings, minted, door, faults, history>>

\* isOnSale.
ReadType(w) ==
    /\ pc[w] = "type"
    /\ IF active /\ ~archived /\ available > 0
         THEN /\ copy' = [copy EXCEPT ![w].available = available]
              /\ Goto(w, "held")
              /\ UNCHANGED <<call, paying>>
         ELSE Answer(w)
    /\ UNCHANGED <<event, stock, bookings, minted, door, faults, history>>

perCustomerLimit(n) == IF Ceiling = 0 \/ n < Ceiling THEN n ELSE Ceiling

\* Faulty variant: seats that are not paid for yet do not count.
ConfirmedOfCustomer(c) ==
    Cardinality(SeatsOf({s \in Sales : /\ CustomerOf[s] = c
                                       /\ bookings[s].status = "confirmed"}))

\* heldByCustomer.
HeldByCustomer(c) ==
    Cardinality(SeatsOf({s \in Sales : CustomerOf[s] = c /\ Holds(s)}))

Allowance(w) ==
    perCustomerLimit(copy[w].available) - HeldByCustomer(CustomerOf[Sale(w)])

CountHeld(w) == Look(w, "held", Wanted[Sale(w)] <= Allowance(w), "reserve")

\* Faulty variant: the decrement does not ask whether that many are left.
ReserveUnasked(w) ==
    /\ pc[w] = "reserve"
    /\ available' = available - Wanted[Sale(w)]
    /\ out' = out \cup Seats(Sale(w))
    /\ Carry(w, "book")
    /\ UNCHANGED <<event, total, active, archived, bookings, paying, minted, door,
                   faults, rewritten>>

\* reserve: one update with the remaining count in its filter.
Reserve(w) ==
    /\ pc[w] = "reserve"
    /\ IF available >= Wanted[Sale(w)]
         THEN /\ available' = available - Wanted[Sale(w)]
              /\ out' = out \cup Seats(Sale(w))
              /\ Carry(w, "book")
              /\ UNCHANGED paying
         ELSE /\ Answer(w)
              /\ UNCHANGED <<available, out>>
    /\ UNCHANGED <<event, total, active, archived, bookings, minted, door, faults,
                   rewritten>>

\* A free sale is settled as it is written.
Book(w) ==
    /\ pc[w] = "book"
    /\ \/ /\ bookings' = [bookings EXCEPT ![Sale(w)] = Paid]
          /\ Carry(w, "count")
       \/ /\ bookings' = [bookings EXCEPT ![Sale(w)] = Pending]
          /\ Carry(w, "gateway")
    /\ UNCHANGED <<event, stock, paying, minted, door, faults, history>>

Fails(w, from, l) ==
    /\ pc[w] = from
    /\ faults < MaxFaults
    /\ faults' = faults + 1
    /\ Carry(w, l)
    /\ UNCHANGED <<event, stock, bookings, paying, minted, door, history>>

BookFails(w)    == Fails(w, "book", "giveback")
GatewayFails(w) == Fails(w, "gateway", "release")

\* gatewayOrder, and the order's id saved on the booking.
OpenOrder(w) == Look(w, "gateway", TRUE, "reload")

Release(w) ==
    /\ available' = available + Wanted[Sale(w)]
    /\ out' = out \ Seats(Sale(w))
    /\ UNCHANGED <<event, total, active, archived, bookings, minted, door, faults,
                   rewritten>>

GiveBack(w) == pc[w] = "giveback" /\ Release(w) /\ Answer(w)

\* releaseBooking: the seats first, then the booking.
ReleaseSeats(w) == pc[w] = "release" /\ Release(w) /\ Carry(w, "unbook") /\ UNCHANGED paying

CancelBooking(w) ==
    /\ pc[w] = "unbook"
    /\ bookings' = [bookings EXCEPT ![Sale(w)].status = "cancelled"]
    /\ Answer(w)
    /\ UNCHANGED <<event, stock, minted, door, faults, history>>

-----------------------------------------------------------------------------
(* confirmBooking and mint.                                                *)

\* Faulty variant: the tickets are left to whoever asks for them.
SaveConfirmedOnly(w) ==
    /\ pc[w] = "confirm"
    /\ bookings' = [bookings EXCEPT ![Sale(w)] = Paid]
    /\ Answer(w)
    /\ UNCHANGED <<event, stock, minted, door, faults, history>>

\* booking.save(), found by its id alone.
SaveConfirmed(w) ==
    /\ pc[w] = "confirm"
    /\ bookings' = [bookings EXCEPT ![Sale(w)] = Paid]
    /\ Carry(w, "count")
    /\ UNCHANGED <<event, stock, paying, minted, door, faults, history>>

\* The same, of a payment that could not be verified: only what changed on
\* the copy is written.
SaveUnverified(w) ==
    /\ pc[w] = "refuse"
    /\ bookings' = IF copy[w].payment = "failed" THEN bookings
                   ELSE [bookings EXCEPT ![Sale(w)].payment = "failed"]
    /\ Answer(w)
    /\ UNCHANGED <<event, stock, minted, door, faults, history>>

\* mint gives back the booking's tickets if it has any; a sale goes on to
\* look at the sign, a confirmation does not.
CountTickets(w) ==
    /\ pc[w] = "count"
    /\ \/ minted[Sale(w)] = 0 /\ Carry(w, "mint") /\ UNCHANGED paying
       \/ minted[Sale(w)] > 0 /\ Kind(w) = "sale" /\ Carry(w, "reload") /\ UNCHANGED paying
       \/ minted[Sale(w)] > 0 /\ Kind(w) # "sale" /\ Answer(w)
    /\ UNCHANGED <<event, stock, bookings, minted, door, faults, history>>

\* Faulty variant: a free sale does not look at the sign.
InsertTicketsOnly(w) ==
    /\ pc[w] = "mint"
    /\ minted' = [minted EXCEPT ![Sale(w)] = @ + Wanted[Sale(w)]]
    /\ Answer(w)
    /\ UNCHANGED <<event, stock, bookings, door, faults, history>>

InsertTickets(w) ==
    /\ pc[w] = "mint"
    /\ minted' = [minted EXCEPT ![Sale(w)] = @ + Wanted[Sale(w)]]
    /\ \/ Kind(w) = "sale" /\ Carry(w, "reload") /\ UNCHANGED paying
       \/ Kind(w) # "sale" /\ Answer(w)
    /\ UNCHANGED <<event, stock, bookings, door, faults, history>>

-----------------------------------------------------------------------------
(* The sign: refreshSoldOut and healSoldOut.                               *)

\* isSoldOut, of the one type there is.
IsSoldOut == ~archived /\ active /\ total > 0 /\ available <= 0

\* refreshSoldOutById.
Reload(w) ==
    /\ pc[w] = "reload"
    /\ copy' = [copy EXCEPT ![w].event = event]
    /\ Goto(w, "shelf")
    /\ UNCHANGED <<event, stock, bookings, paying, minted, door, call, faults, history>>

\* Faulty variant: the sign of an event that is not on show is seen to, too.
ReadShelfAlways(w) ==
    LET next == IF IsSoldOut THEN "sold_out" ELSE "published" IN
    /\ pc[w] = "shelf"
    /\ copy' = [copy EXCEPT ![w].event = next]
    /\ Goto(w, "sign")
    /\ UNCHANGED <<event, stock, bookings, paying, minted, door, call, faults, history>>

\* What the sign should say is compared with the event as it was loaded.
ReadShelf(w) ==
    LET next == IF IsSoldOut THEN "sold_out" ELSE "published" IN
    /\ pc[w] = "shelf"
    /\ IF copy[w].event \in OnShow \ {next}
         THEN /\ copy' = [copy EXCEPT ![w].event = next]
              /\ Goto(w, "sign")
              /\ UNCHANGED <<call, paying>>
         ELSE Answer(w)
    /\ UNCHANGED <<event, stock, bookings, minted, door, faults, history>>

\* event.save(), found by its id alone.
SaveSign(w) ==
    /\ pc[w] = "sign"
    /\ event' = copy[w].event
    /\ Answer(w)
    /\ UNCHANGED <<stock, bookings, minted, door, faults, history>>

\* Faulty variant: the sign is taken down when it is right.
TakeStockInverted(w) == Look(w, "stocktake", IsSoldOut, "heal")

TakeStock(w) == Look(w, "stocktake", ~IsSoldOut, "heal")

Heal(w) ==
    /\ pc[w] = "heal"
    /\ event' = IF event = "sold_out" THEN "published" ELSE event
    /\ Answer(w)
    /\ UNCHANGED <<stock, bookings, minted, door, faults, history>>

-----------------------------------------------------------------------------
(* The organizer.                                                          *)

Sold(w) == copy[w].total - copy[w].available

\* Faulty variant: the total may go below what is sold.
LoadTypeUnchecked(w) ==
    /\ pc[w] = "edit"
    /\ copy' = [copy EXCEPT ![w] = [@ EXCEPT !.total = total, !.available = available,
                                             !.active = active]]
    /\ Goto(w, "restock")
    /\ UNCHANGED <<event, stock, bookings, paying, minted, door, call, faults, history>>

\* The total cannot go below what the copy says is sold.
LoadType(w) ==
    /\ pc[w] = "edit"
    /\ IF ~archived /\ call[w].edit.total >= total - available
         THEN /\ copy' = [copy EXCEPT ![w] = [@ EXCEPT !.total = total,
                                                       !.available = available,
                                                       !.active = active]]
              /\ Goto(w, "restock")
              /\ UNCHANGED <<call, paying>>
         ELSE Answer(w)
    /\ UNCHANGED <<event, stock, bookings, minted, door, faults, history>>

\* Faulty variant: the stock is assigned, not moved by the difference.
SaveTypeAssigned(w) ==
    LET e == call[w].edit
        restock == e.total # copy[w].total
    IN
    /\ pc[w] = "restock"
    /\ total' = IF restock THEN e.total ELSE total
    /\ available' = IF restock THEN e.total ELSE available
    /\ active' = IF e.active # copy[w].active THEN e.active ELSE active
    /\ rewritten' = (rewritten \/ (restock /\ total - available # Sold(w)))
    /\ Carry(w, "shelf")
    /\ UNCHANGED <<event, archived, bookings, paying, minted, door, faults, out>>

\* type.save(): the paths that changed on the copy are written, as values.
SaveType(w) ==
    LET e == call[w].edit
        restock == e.total # copy[w].total
    IN
    /\ pc[w] = "restock"
    /\ total' = IF restock THEN e.total ELSE total
    /\ available' = IF restock THEN e.total - Sold(w) ELSE available
    /\ active' = IF e.active # copy[w].active THEN e.active ELSE active
    /\ rewritten' = (rewritten \/ (restock /\ total - available # Sold(w)))
    /\ Carry(w, "shelf")
    /\ UNCHANGED <<event, archived, bookings, paying, minted, door, faults, out>>

\* Faulty variant: only bookings that are confirmed hold a type.
CountConfirmed(w) ==
    Look(w, "sold", \A s \in Sales : bookings[s].status # "confirmed", "retire")

\* A type somebody holds is not archived.
CountHolders(w) == Look(w, "sold", \A s \in Sales : ~Holds(s), "retire")

Retire(w) ==
    /\ pc[w] = "retire"
    /\ archived' = TRUE
    /\ Carry(w, "shelf")
    /\ UNCHANGED <<event, total, available, active, bookings, paying, minted, door,
                   faults, history>>

\* changeStatus: nothing to sell, nothing to publish.
CountSellable(w) == Look(w, "sellable", ~archived, "move")

SaveStatus(w) ==
    LET to == ALLOWED_TRANSITIONS[Kind(w)].to IN
    /\ pc[w] = "move"
    /\ event' = to
    /\ IF to = "published"
         THEN /\ copy' = [copy EXCEPT ![w].event = to]
              /\ Goto(w, "shelf")
              /\ UNCHANGED <<call, paying>>
         ELSE Answer(w)
    /\ UNCHANGED <<stock, bookings, minted, door, faults, history>>

-----------------------------------------------------------------------------
(* The door.                                                               *)

\* Faulty variant: the ticket is found by its id alone.
AdmitById(w) ==
    LET t == call[w].ticket IN
    /\ pc[w] = "admit"
    /\ inside' = inside \cup {t}
    /\ entries' = [entries EXCEPT ![t[1]] = @ + 1]
    /\ Answer(w)
    /\ UNCHANGED <<event, stock, bookings, minted, faults, history>>

\* One conditional update from VALID to CHECKED_IN.
Admit(w) ==
    LET t == call[w].ticket IN
    /\ pc[w] = "admit"
    /\ inside' = inside \cup {t}
    /\ entries' = IF t \in inside THEN entries
                  ELSE [entries EXCEPT ![t[1]] = @ + 1]
    /\ Answer(w)
    /\ UNCHANGED <<event, stock, bookings, minted, faults, history>>

-----------------------------------------------------------------------------

Die(w) ==
    /\ faults < MaxFaults
    /\ pc[w] # "idle"
    /\ Finish(w)
    /\ faults' = faults + 1
    /\ UNCHANGED <<event, stock, bookings, paying, minted, door, history>>

Arrive(w) ==
    \/ \E s \in Sales : StartBooking(w, s) \/ Confirm(w, s) \/ ConfirmUnverified(w, s)
    \/ \E e \in Edits : UpdateTicketType(w, e)
    \/ ArchiveTicketType(w)
    \/ \E m \in Moves : ChangeStatus(w, m)
    \/ View(w)
    \/ \E s \in Sales : \E t \in Tickets(s) : Scan(w, t)

\* A request in flight goes on.
Progress(w) ==
    \/ ReadType(w) \/ CountHeld(w) \/ Reserve(w) \/ Book(w) \/ GiveBack(w)
    \/ OpenOrder(w) \/ ReleaseSeats(w) \/ CancelBooking(w)
    \/ SaveConfirmed(w) \/ SaveUnverified(w) \/ CountTickets(w) \/ InsertTickets(w)
    \/ Reload(w) \/ ReadShelf(w) \/ SaveSign(w) \/ TakeStock(w) \/ Heal(w)
    \/ LoadType(w) \/ SaveType(w) \/ CountHolders(w) \/ Retire(w)
    \/ CountSellable(w) \/ SaveStatus(w) \/ Admit(w)

Next ==
    \/ \E w \in Workers :
         Arrive(w) \/ Progress(w) \/ BookFails(w) \/ GatewayFails(w) \/ Die(w)
    \/ \E s \in Sales : Pay(s)

Spec == Init /\ [][Next]_vars

\* A request in flight is executed, and people go on looking at the event.
FairSpec ==
    /\ Spec
    /\ \A w \in Workers : WF_vars(Progress(w)) /\ SF_vars(View(w))

-----------------------------------------------------------------------------
(* Properties.                                                             *)

Steps == {"idle", "type", "held", "reserve", "book", "gateway", "giveback", "release",
          "unbook", "confirm", "refuse", "count", "mint", "reload", "shelf", "sign",
          "stocktake", "heal", "edit", "restock", "sold", "retire", "sellable", "move",
          "admit"}

AllTickets == Sales \X (Nat \ {0})

TypeOK ==
    /\ event \in Statuses
    /\ total \in Nat
    /\ available \in Nat
    /\ {active, archived, rewritten} \subseteq BOOLEAN
    /\ bookings \in [Sales -> [status : {"none", "pending", "confirmed", "cancelled"},
                               payment : {"none", "pending", "paid", "failed"}]]
    /\ captured \subseteq offered
    /\ offered \subseteq Sales
    /\ minted \in [Sales -> Nat]
    /\ inside \subseteq AllTickets
    /\ pc \in [Workers -> Steps]
    /\ call \in [Workers -> [kind : Kinds \cup {"none"}, sale : Sales \cup {NoSale},
                             edit : Edits \cup {NoEdit},
                             ticket : AllTickets \cup {NoTicket}]]
    /\ copy \in [Workers -> [event : Statuses, total : Nat, available : Nat,
                             active : BOOLEAN,
                             payment : {"none", "pending", "paid", "failed"}]]
    /\ faults \in 0 .. MaxFaults
    /\ out \subseteq SeatsOf(Sales)
    /\ entries \in [Sales -> Nat]

\* "Of two callers racing for the last seat, exactly one gets it": seats are
\* on the shelf or out, none appears and none is lost, and whoever is
\* confirmed or was asked to pay has their seats, whatever fails in between.
\* It is stated of a stock no edit was saved over; see NeverOversold.
StockIsConserved ==
    /\ rewritten \/ available + Cardinality(out) = total
    /\ \A s \in Sales :
         s \in offered \/ bookings[s].status = "confirmed" => Seats(s) \subseteq out

\* "Stock moves by the difference, never by assignment": not more seats are
\* out than the organizer put on sale.
NeverOversold == Cardinality(out) <= total

\* Tickets exist only for confirmed bookings, and a booking the customer was
\* asked to pay for is confirmed only once it was paid.
TicketsAreEarned ==
    \A s \in Sales :
        /\ minted[s] > 0 => bookings[s].status = "confirmed"
        /\ s \in offered /\ bookings[s].status = "confirmed" => s \in captured

\* "Two staff scanning the same QR in the same second cannot both be told
\* allowed": as many people came in on a booking as its tickets were used,
\* and only tickets that were minted are.
AdmittedOnce ==
    \A s \in Sales :
        LET used == {t \in inside : t[1] = s} IN
        used \subseteq Tickets(s) /\ entries[s] = Cardinality(used)

\* Whoever is confirmed gets tickets, unless a request died.
ConfirmedGetsTickets ==
    \A s \in Sales :
        bookings[s].status = "confirmed" ~> minted[s] > 0 \/ faults > 0

\* "An event flagged that way would stay unbuyable forever, so it is
\* corrected the moment anyone looks at it", whoever died before the sign
\* was put right.
SoldOutIsHealed ==
    (event = "sold_out" /\ ~IsSoldOut) ~> (event # "sold_out" \/ IsSoldOut)

\* "After a sale the sign on the catalogue has to agree with the shelf":
\* between requests, if none died, it does.
SignAgrees ==
    (\A w \in Workers : pc[w] = "idle") /\ faults = 0 /\ event \in OnShow
        => (event = "sold_out" <=> IsSoldOut)

\* "Four bookings of one are refused exactly where one booking of four would
\* be": nobody holds more than the ceiling.
CeilingHolds ==
    \A c \in {CustomerOf[s] : s \in Sales} :
        Ceiling > 0 => Cardinality(SeatsOf({s \in Sales : CustomerOf[s] = c /\ Holds(s)}))
                         <= Ceiling

\* "An event that has happened or been called off is history, and history is
\* not edited back into the catalogue."
HistoryStays == [][event' # event => event \notin Final]_vars

\* "A booking already confirmed returns its existing tickets rather than
\* minting a second set": one ticket per seat, and confirmed means paid.
OneTicketPerSeat ==
    \A s \in Sales :
        /\ minted[s] \in {0, Wanted[s]}
        /\ bookings[s].status = "confirmed" => bookings[s].payment = "paid"

\* "A ticket whose type has vanished is a ticket nobody at the door can
\* explain": nobody who was answered holds a ticket of an archived type.
HeldIsNotArchived ==
    archived => \A s \in Sales : bookings[s].status # "confirmed" /\ s \notin captured

\* A ceiling that is not set is no ceiling: whoever asks for what is left, and
\* meets no other buyer, is not refused.
NoCeilingOfMine ==
    \A w \in Workers :
        pc[w] = "held" /\ Ceiling = 0 /\ Wanted[Sale(w)] <= copy[w].available
            => Wanted[Sale(w)] <= Allowance(w)

=============================================================================
