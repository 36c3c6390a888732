------------------------- MODULE TicketSales_proofs --------------------------
(***************************************************************************)
(* TicketSales keeps its types, conserves the stock, mints only what was   *)
(* earned and admits a ticket once, for any number of workers, sales and   *)
(* deaths.                                                                 *)
(*                                                                         *)
(* The argument: a sale is made by one worker, which nobody else can       *)
(* disturb before it has answered, because only then can the sale be paid  *)
(* and confirmed (OneSeller, Fits).  Fits says what each stage of a worker *)
(* knows of the sale it serves: whether its seats are out, whether its     *)
(* booking is written and paid.  OthersFit is the frame: a step of one     *)
(* worker leaves what the others know true.                                *)
(***************************************************************************)
EXTENDS TicketSales, FiniteSetTheorems, TLAPS

Selling(w) == Kind(w) = "sale"

\* The steps that only startBooking takes.
SaleSteps == {"type", "held", "reserve", "book", "gateway", "giveback", "release",
              "unbook", "reload"}

\* What a worker knows of the sale it serves.
FitsSale(w) ==
    /\ Selling(w) =>
          /\ Sale(w) \in Sales \ offered
          /\ pc[w] \in SaleSteps \cup {"count", "mint", "reload", "shelf", "sign"}
    /\ pc[w] \in SaleSteps => Selling(w)
    /\ pc[w] = "confirm" => Sale(w) \in captured
    /\ pc[w] = "refuse" => Sale(w) \in offered
    /\ pc[w] \in {"count", "mint"} =>
          /\ Sale(w) \in Sales
          /\ bookings[Sale(w)].status = "confirmed"
    /\ pc[w] \in {"type", "held", "reserve"} =>
          /\ bookings[Sale(w)] = NoBooking
          /\ Seats(Sale(w)) \cap out = {}
    /\ pc[w] \in {"book", "giveback"} =>
          /\ bookings[Sale(w)] = NoBooking
          /\ Seats(Sale(w)) \subseteq out
    /\ pc[w] \in {"gateway", "release"} =>
          /\ bookings[Sale(w)] = Pending
          /\ Seats(Sale(w)) \subseteq out
    /\ pc[w] = "unbook" => bookings[Sale(w)] = Pending
    /\ Selling(w) /\ pc[w] \in {"reload", "shelf", "sign"} =>
          /\ Holds(Sale(w))
          /\ Seats(Sale(w)) \subseteq out

\* What the calls that serve no sale carry.
FitsCall(w) ==
    /\ pc[w] = "idle" => call[w] = NoCall
    /\ pc[w] = "restock" => call[w].edit.total >= Sold(w)
    /\ pc[w] = "move" => Kind(w) \in Moves
    /\ pc[w] = "sellable" => Kind(w) \in Moves
    /\ pc[w] = "admit" => /\ call[w].ticket[1] \in Sales
                          /\ call[w].ticket \in Tickets(call[w].ticket[1])

Fits == \A w \in Workers : FitsSale(w) /\ FitsCall(w)

OneSeller ==
    \A v, w \in Workers : Selling(v) /\ Selling(w) /\ Sale(v) = Sale(w) => v = w

\* Whoever was asked to pay, or is confirmed, has a booking and its seats.
SeatsHeld ==
    /\ \A s \in offered : Holds(s)
    /\ \A s \in Sales :
         s \in offered \/ bookings[s].status = "confirmed" => Seats(s) \subseteq out

Conserved ==
    /\ IsFiniteSet(out)
    /\ rewritten \/ available + Cardinality(out) = total

Admitted == IsFiniteSet(inside) /\ AdmittedOnce

IInv ==
    /\ TypeOK
    /\ Fits
    /\ OneSeller
    /\ SeatsHeld
    /\ Conserved
    /\ TicketsAreEarned
    /\ Admitted

-----------------------------------------------------------------------------
(* Seats.                                                                  *)

LEMMA SeatsFinite ==
    ASSUME NEW s \in Sales
    PROVE  /\ IsFiniteSet(Seats(s))
           /\ Cardinality(Seats(s)) = Wanted[s]
           /\ Wanted[s] \in Nat \ {0}
           /\ Seats(s) \subseteq SeatsOf(Sales)
<1>1. Wanted[s] \in Nat \ {0}
  BY TicketAssumption DEF TicketAssumption
<1>2. IsFiniteSet({s}) /\ Cardinality({s}) = 1
  BY FS_Singleton
<1>3. IsFiniteSet(1 .. Wanted[s]) /\ Cardinality(1 .. Wanted[s]) = Wanted[s]
  BY <1>1, FS_Interval
<1>4. /\ IsFiniteSet({s} \X (1 .. Wanted[s]))
      /\ Cardinality({s} \X (1 .. Wanted[s])) = Wanted[s]
  <2>1. /\ IsFiniteSet({s} \X (1 .. Wanted[s]))
        /\ Cardinality({s} \X (1 .. Wanted[s]))
             = Cardinality({s}) * Cardinality(1 .. Wanted[s])
    BY <1>2, <1>3, FS_Product, Zenon
  <2>2. 1 * Wanted[s] = Wanted[s]
    BY <1>1
  <2> QED
    BY <2>1, <2>2, <1>2, <1>3
<1> QED
  BY <1>1, <1>4 DEF Seats, SeatsOf

LEMMA SeatsDisjoint ==
    ASSUME NEW s \in Sales, NEW t \in Sales, s # t
    PROVE  Seats(s) \cap Seats(t) = {}
BY DEF Seats

-----------------------------------------------------------------------------
(* What a step changes.                                                    *)

StepOf(w) ==
    Arrive(w) \/ Progress(w) \/ BookFails(w) \/ GatewayFails(w) \/ Die(w)

\* Nothing but what the worker itself knows, the event and the paying.
Quiet == UNCHANGED <<total, available, active, archived, out, rewritten, bookings,
                     minted, door>>

Writes(w) ==
    \/ Reserve(w) \/ GiveBack(w) \/ ReleaseSeats(w) \/ SaveType(w)
    \/ Book(w) \/ CancelBooking(w) \/ SaveConfirmed(w) \/ SaveUnverified(w)
    \/ InsertTickets(w) \/ Admit(w) \/ Retire(w)

LEMMA StepsQuietOrWrite ==
    ASSUME NEW w \in Workers, StepOf(w)
    PROVE  Quiet \/ Writes(w)
<1>1. CASE Arrive(w)
  BY <1>1 DEF Arrive, StartBooking, Confirm, ConfirmUnverified, UpdateTicketType,
     ArchiveTicketType, ChangeStatus, View, Scan, Take, Quiet, stock, history
<1>2. CASE BookFails(w) \/ GatewayFails(w) \/ Die(w)
  BY <1>2 DEF BookFails, GatewayFails, Fails, Die, Quiet, stock, history
<1>3. CASE Progress(w)
  <2>1. CASE ReadType(w) \/ CountHeld(w) \/ OpenOrder(w) \/ CountTickets(w)
    BY <2>1 DEF ReadType, CountHeld, OpenOrder, CountTickets, Look, Quiet, stock, history
  <2>2. CASE Reload(w) \/ ReadShelf(w) \/ SaveSign(w) \/ TakeStock(w) \/ Heal(w)
    BY <2>2 DEF Reload, ReadShelf, SaveSign, TakeStock, Heal, Look, Quiet, stock, history
  <2>3. CASE LoadType(w) \/ CountHolders(w) \/ CountSellable(w) \/ SaveStatus(w)
    BY <2>3 DEF LoadType, CountHolders, CountSellable, SaveStatus, Look, Quiet,
       stock, history
  <2> QED
    BY <1>3, <2>1, <2>2, <2>3 DEF Progress, Writes
<1> QED
  BY <1>1, <1>2, <1>3 DEF StepOf

\* A request answered or going on: only a sale at the sign offers its order.
Offers(w) ==
    /\ captured' = captured
    /\ offered' # offered =>
         /\ pc[w] \in {"shelf", "sign"}
         /\ Selling(w)
         /\ bookings[Sale(w)] = Pending
         /\ offered' = offered \cup {Sale(w)}

LEMMA AnswerOffers ==
    ASSUME NEW w \in Workers, Answer(w), FitsSale(w)
    PROVE  Offers(w)
<1>1. CASE pc[w] \in {"shelf", "sign"} /\ Selling(w) /\ bookings[Sale(w)] = Pending
  BY <1>1 DEF Answer, Offers, Selling, FitsSale
<1>2. CASE ~(pc[w] \in {"shelf", "sign"} /\ Selling(w) /\ bookings[Sale(w)] = Pending)
  <2>1. offered' = offered
    BY <1>2 DEF Answer, Selling
  <2> QED
    BY <2>1 DEF Answer, Offers
<1> QED
  BY <1>1, <1>2

LEMMA StepsOffer ==
    ASSUME NEW w \in Workers, StepOf(w), FitsSale(w)
    PROVE  Offers(w)
<1>1. paying' = paying \/ Answer(w)
  <2>1. CASE Arrive(w)
    BY <2>1 DEF Arrive, StartBooking, Confirm, ConfirmUnverified, UpdateTicketType,
       ArchiveTicketType, ChangeStatus, View, Scan, Take
  <2>2. CASE BookFails(w) \/ GatewayFails(w) \/ Die(w)
    BY <2>2 DEF BookFails, GatewayFails, Fails, Die
  <2>3. CASE Progress(w)
    <3>1. CASE ReadType(w) \/ CountHeld(w) \/ OpenOrder(w) \/ CountTickets(w)
                 \/ Reserve(w) \/ Book(w) \/ GiveBack(w) \/ ReleaseSeats(w)
      BY <3>1 DEF ReadType, CountHeld, OpenOrder, CountTickets, Look, Reserve, Book,
         GiveBack, ReleaseSeats, paying
    <3>2. CASE Reload(w) \/ ReadShelf(w) \/ SaveSign(w) \/ TakeStock(w) \/ Heal(w)
                 \/ CancelBooking(w) \/ SaveConfirmed(w) \/ SaveUnverified(w)
      BY <3>2 DEF Reload, ReadShelf, SaveSign, TakeStock, Heal, Look, CancelBooking,
         SaveConfirmed, SaveUnverified, paying
    <3>3. CASE LoadType(w) \/ CountHolders(w) \/ Retire(w) \/ CountSellable(w)
                 \/ SaveStatus(w) \/ SaveType(w) \/ InsertTickets(w) \/ Admit(w)
      BY <3>3 DEF LoadType, CountHolders, Retire, CountSellable, SaveStatus, Look,
         SaveType, InsertTickets, Admit, paying
    <3> QED
      BY <2>3, <3>1, <3>2, <3>3 DEF Progress
  <2> QED
    BY <2>1, <2>2, <2>3 DEF StepOf
<1>2. CASE paying' = paying
  BY <1>2 DEF Offers, paying
<1> QED
  BY <1>1, <1>2, AnswerOffers

\* A step moves one worker.
LEMMA StepsMoveOne ==
    ASSUME TypeOK, NEW w \in Workers, StepOf(w)
    PROVE  \A v \in Workers \ {w} : pc'[v] = pc[v] /\ call'[v] = call[v] /\ copy'[v] = copy[v]
<1> USE DEF TypeOK, Goto, Carry, Finish, Answer, locals
<1>1. CASE Arrive(w)
  BY <1>1 DEF Arrive, StartBooking, Confirm, ConfirmUnverified, UpdateTicketType,
     ArchiveTicketType, ChangeStatus, View, Scan, Take
<1>2. CASE BookFails(w) \/ GatewayFails(w) \/ Die(w)
  BY <1>2 DEF BookFails, GatewayFails, Fails, Die
<1>3. CASE Progress(w)
  <2>1. CASE ReadType(w) \/ CountHeld(w) \/ OpenOrder(w) \/ CountTickets(w)
    BY <2>1 DEF ReadType, CountHeld, OpenOrder, CountTickets, Look
  <2>2. CASE Reserve(w) \/ Book(w) \/ GiveBack(w) \/ ReleaseSeats(w)
    BY <2>2 DEF Reserve, Book, GiveBack, ReleaseSeats
  <2>3. CASE Reload(w) \/ ReadShelf(w) \/ SaveSign(w) \/ TakeStock(w) \/ Heal(w)
    BY <2>3 DEF Reload, ReadShelf, SaveSign, TakeStock, Heal, Look
  <2>4. CASE CancelBooking(w) \/ SaveConfirmed(w) \/ SaveUnverified(w)
    BY <2>4 DEF CancelBooking, SaveConfirmed, SaveUnverified
  <2>5. CASE LoadType(w) \/ CountHolders(w) \/ Retire(w) \/ CountSellable(w)
    BY <2>5 DEF LoadType, CountHolders, Retire, CountSellable, Look
  <2>6. CASE SaveStatus(w) \/ SaveType(w) \/ InsertTickets(w) \/ Admit(w)
    BY <2>6 DEF SaveStatus, SaveType, InsertTickets, Admit
  <2> QED
    BY <1>3, <2>1, <2>2, <2>3, <2>4, <2>5, <2>6 DEF Progress
<1> QED
  BY <1>1, <1>2, <1>3 DEF StepOf

-----------------------------------------------------------------------------
(* What a step of one worker leaves alone.                                 *)

Undisturbed(w) ==
    /\ \A s \in Sales :
         bookings'[s] # bookings[s] => s = Sale(w) /\ (Selling(w) \/ s \in offered)
    /\ \A s \in Sales : bookings[s].status = "confirmed" => bookings'[s].status = "confirmed"
    /\ \A s \in Sales : minted'[s] \in Nat /\ minted'[s] >= minted[s]
    /\ \A s \in Sales :
         (s = Sale(w) /\ Selling(w)) \/ Seats(s) \cap out' = Seats(s) \cap out

LEMMA StepsUndisturb ==
    ASSUME TypeOK, NEW w \in Workers, StepOf(w), FitsSale(w)
    PROVE  Undisturbed(w)
<1>0. \A s \in Sales : minted[s] \in Nat
  BY DEF TypeOK
<1>1. CASE Quiet
  BY <1>0, <1>1 DEF Quiet, Undisturbed
<1>2. CASE Reserve(w)
  <2>1. Selling(w) /\ Sale(w) \in Sales
    BY <1>2 DEF FitsSale, SaleSteps, Reserve
  <2>2. out' \in {out, out \cup Seats(Sale(w))}
    BY <1>2 DEF Reserve
  <2>3. \A s \in Sales : s # Sale(w) => Seats(s) \cap Seats(Sale(w)) = {}
    BY <2>1, SeatsDisjoint
  <2>4. \A s \in Sales : s # Sale(w) => Seats(s) \cap out' = Seats(s) \cap out
    BY <2>2, <2>3
  <2> QED
    BY <1>0, <1>2, <2>1, <2>4 DEF Reserve, Undisturbed
<1>3. CASE GiveBack(w) \/ ReleaseSeats(w)
  <2>1. Selling(w) /\ Sale(w) \in Sales
    BY <1>3 DEF FitsSale, SaleSteps, GiveBack, ReleaseSeats
  <2>2. out' = out \ Seats(Sale(w)) /\ UNCHANGED <<bookings, minted>>
    BY <1>3 DEF GiveBack, ReleaseSeats, Release
  <2>3. \A s \in Sales : s # Sale(w) => Seats(s) \cap Seats(Sale(w)) = {}
    BY <2>1, SeatsDisjoint
  <2>4. \A s \in Sales : s # Sale(w) => Seats(s) \cap out' = Seats(s) \cap out
    BY <2>2, <2>3
  <2> QED
    BY <1>0, <2>1, <2>2, <2>4 DEF Undisturbed
<1>4. CASE SaveType(w) \/ Admit(w) \/ Retire(w)
  <2>1. UNCHANGED <<bookings, minted, out>>
    BY <1>4 DEF SaveType, Admit, Retire, history
  <2> QED
    BY <1>0, <2>1 DEF Undisturbed
<1>5. CASE Book(w) \/ CancelBooking(w)
  <2>1. Selling(w) /\ Sale(w) \in Sales
    BY <1>5 DEF FitsSale, SaleSteps, Book, CancelBooking
  <2>2. bookings[Sale(w)].status # "confirmed"
    BY <1>5 DEF FitsSale, Book, CancelBooking, Pending, NoBooking
  <2>3. \A s \in Sales : s # Sale(w) => bookings'[s] = bookings[s]
    BY <1>5 DEF TypeOK, Book, CancelBooking
  <2>4. UNCHANGED <<minted, out>>
    BY <1>5 DEF Book, CancelBooking, history
  <2> QED
    BY <1>0, <2>1, <2>2, <2>3, <2>4 DEF Undisturbed
<1>6. CASE SaveConfirmed(w) \/ SaveUnverified(w)
  <2>1. Sale(w) \in offered /\ Sale(w) \in Sales
    BY <1>6 DEF FitsSale, TypeOK, SaveConfirmed, SaveUnverified
  <2>2. \A s \in Sales : s # Sale(w) => bookings'[s] = bookings[s]
    BY <1>6 DEF TypeOK, SaveConfirmed, SaveUnverified
  <2>3. bookings[Sale(w)].status = "confirmed" => bookings'[Sale(w)].status = "confirmed"
    BY <1>6, <2>1 DEF TypeOK, SaveConfirmed, SaveUnverified, Paid
  <2>4. UNCHANGED <<minted, out>>
    BY <1>6 DEF SaveConfirmed, SaveUnverified, history
  <2> QED
    BY <1>0, <2>1, <2>2, <2>3, <2>4 DEF Undisturbed
<1>7. CASE InsertTickets(w)
  <2>1. Sale(w) \in Sales /\ Wanted[Sale(w)] \in Nat
    BY <1>7, SeatsFinite DEF FitsSale, InsertTickets
  <2>2. \A s \in Sales : minted'[s] \in Nat /\ minted'[s] >= minted[s]
    BY <1>0, <1>7, <2>1 DEF TypeOK, InsertTickets
  <2> QED
    BY <1>7, <2>2 DEF InsertTickets, Undisturbed, history
<1> QED
  BY <1>1, <1>2, <1>3, <1>4, <1>5, <1>6, <1>7, StepsQuietOrWrite DEF Writes

-----------------------------------------------------------------------------
(* What the others know stays true.                                        *)

LEMMA OthersFit ==
    ASSUME TypeOK, Fits, OneSeller, NEW w \in Workers, StepOf(w),
           NEW v \in Workers \ {w}
    PROVE  FitsSale(v)' /\ FitsCall(v)'
<1>1. FitsSale(v) /\ FitsCall(v) /\ FitsSale(w)
  BY DEF Fits
<1>2. pc'[v] = pc[v] /\ call'[v] = call[v] /\ copy'[v] = copy[v]
  BY StepsMoveOne
<1>3. Undisturbed(w) /\ Offers(w)
  BY <1>1, StepsUndisturb, StepsOffer
<1>4. offered \subseteq offered' /\ captured' = captured
  BY <1>3 DEF Offers
<1>5. /\ Selling(v)' = Selling(v)
      /\ Sale(v)' = Sale(v)
      /\ Sold(v)' = Sold(v)
      /\ Kind(v)' = Kind(v)
  BY <1>2 DEF Selling, Kind, Sale, Sold
<1>6. ASSUME Selling(v)
      PROVE  /\ Sale(v) \in Sales \ offered'
             /\ bookings'[Sale(v)] = bookings[Sale(v)]
             /\ Seats(Sale(v)) \cap out' = Seats(Sale(v)) \cap out
  <2>1. Sale(v) \in Sales \ offered
    BY <1>1, <1>6 DEF FitsSale
  <2>2. ~(Sale(v) = Sale(w) /\ Selling(w))
    BY <1>6 DEF OneSeller
  <2> QED
    BY <2>1, <2>2, <1>3 DEF Undisturbed, Offers
<1>7. FitsSale(v)'
  <2>1. (Selling(v) =>
            /\ Sale(v) \in Sales \ offered
            /\ pc[v] \in SaleSteps \cup {"count", "mint", "reload", "shelf", "sign"})'
    BY <1>1, <1>2, <1>5, <1>6 DEF FitsSale, SaleSteps
  <2>2. (pc[v] \in SaleSteps => Selling(v))'
    BY <1>1, <1>2, <1>5 DEF FitsSale, SaleSteps
  <2>3. (pc[v] = "confirm" => Sale(v) \in captured)'
    BY <1>1, <1>2, <1>4, <1>5 DEF FitsSale
  <2>4. (pc[v] = "refuse" => Sale(v) \in offered)'
    BY <1>1, <1>2, <1>4, <1>5 DEF FitsSale
  <2>5. (pc[v] \in {"count", "mint"} =>
             /\ Sale(v) \in Sales
             /\ bookings[Sale(v)].status = "confirmed")'
    BY <1>1, <1>2, <1>3, <1>5 DEF FitsSale, Undisturbed
  <2>6. pc[v] \in SaleSteps \/ (Selling(v) /\ pc[v] \in {"reload", "shelf", "sign"})
           => Selling(v)
    BY <1>1 DEF FitsSale
  <2>7. (/\ pc[v] \in {"type", "held", "reserve"} =>
              /\ bookings[Sale(v)] = NoBooking
              /\ Seats(Sale(v)) \cap out = {}
         /\ pc[v] \in {"book", "giveback"} =>
              /\ bookings[Sale(v)] = NoBooking
              /\ Seats(Sale(v)) \subseteq out)'
    BY <1>1, <1>2, <1>5, <1>6, <2>6 DEF FitsSale, SaleSteps, NoBooking, Seats
  <2>8. (/\ pc[v] \in {"gateway", "release"} =>
              /\ bookings[Sale(v)] = Pending
              /\ Seats(Sale(v)) \subseteq out
         /\ pc[v] = "unbook" => bookings[Sale(v)] = Pending)'
    BY <1>1, <1>2, <1>5, <1>6, <2>6 DEF FitsSale, SaleSteps, Pending, Seats
  <2>9. (Selling(v) /\ pc[v] \in {"reload", "shelf", "sign"} =>
             /\ Holds(Sale(v))
             /\ Seats(Sale(v)) \subseteq out)'
    BY <1>1, <1>2, <1>5, <1>6, <2>6 DEF FitsSale, Holds, Seats
  <2> QED
    BY <2>1, <2>2, <2>3, <2>4, <2>5, <2>7, <2>8, <2>9 DEF FitsSale
<1>8. FitsCall(v)'
  <2>1. (pc[v] = "admit" => /\ call[v].ticket[1] \in Sales
                            /\ call[v].ticket \in Tickets(call[v].ticket[1]))'
    <3>1. \A s \in Sales : minted[s] \in Nat /\ minted'[s] \in Nat /\ minted'[s] >= minted[s]
      BY <1>3 DEF TypeOK, Undisturbed
    <3>2. \A s \in Sales : Tickets(s) \subseteq Tickets(s)'
      BY <3>1 DEF Tickets
    <3> QED
      BY <1>1, <1>2, <3>2 DEF FitsCall
  <2> QED
    BY <1>1, <1>2, <1>5, <2>1 DEF FitsCall
<1> QED
  BY <1>7, <1>8

-----------------------------------------------------------------------------
(* What the worker that moved knows is true.                               *)

LEMMA FinishFits ==
    ASSUME TypeOK, NEW w \in Workers, Finish(w)
    PROVE  FitsSale(w)' /\ FitsCall(w)'
<1>1. pc'[w] = "idle" /\ call'[w] = NoCall
  BY DEF TypeOK, Finish, Goto
<1> QED
  BY <1>1 DEF FitsSale, FitsCall, Selling, Kind, NoCall, SaleSteps

LEMMA AnswerFits ==
    ASSUME TypeOK, NEW w \in Workers, Answer(w)
    PROVE  FitsSale(w)' /\ FitsCall(w)'
BY FinishFits DEF Answer

LEMMA ArriveFits ==
    ASSUME TypeOK, SeatsHeld, NEW w \in Workers, Arrive(w)
    PROVE  FitsSale(w)' /\ FitsCall(w)'
<1>1. ASSUME NEW s \in Sales, StartBooking(w, s)
      PROVE  FitsSale(w)' /\ FitsCall(w)'
  <2>1. pc'[w] = "type" /\ call'[w].kind = "sale" /\ call'[w].sale = s
    BY <1>1 DEF TypeOK, StartBooking, Take, Goto, Call, NoCall
  <2>2. bookings'[s] = NoBooking /\ Seats(s) \cap out' = {} /\ offered' = offered
    BY <1>1 DEF StartBooking, Take, paying, history
  <2>3. s \notin offered
    BY <1>1 DEF StartBooking, SeatsHeld, Holds, NoBooking
  <2> QED
    BY <2>1, <2>2, <2>3 DEF FitsSale, FitsCall, Selling, Kind, Sale, SaleSteps, Seats
<1>2. ASSUME NEW s \in Sales, Confirm(w, s) \/ ConfirmUnverified(w, s)
      PROVE  FitsSale(w)' /\ FitsCall(w)'
  <2>1. /\ \/ pc'[w] = "confirm" /\ s \in captured
           \/ pc'[w] = "refuse" /\ s \in offered
        /\ call'[w].kind \in {"confirm", "unverified"}
        /\ call'[w].sale = s
    <3>1. CASE Confirm(w, s)
      BY <3>1 DEF TypeOK, Confirm, Take, Goto, Call, NoCall
    <3>2. CASE ConfirmUnverified(w, s)
      BY <3>2 DEF TypeOK, ConfirmUnverified, Take, Goto, Call, NoCall
    <3> QED
      BY <1>2, <3>1, <3>2
  <2>2. captured' = captured /\ offered' = offered
    BY <1>2 DEF Confirm, ConfirmUnverified, Take, paying
  <2> QED
    BY <2>1, <2>2 DEF FitsSale, FitsCall, Selling, Kind, Sale, SaleSteps
<1>3. ASSUME \/ \E e \in Edits : UpdateTicketType(w, e)
             \/ ArchiveTicketType(w)
             \/ \E m \in Moves : ChangeStatus(w, m)
             \/ View(w)
      PROVE  FitsSale(w)' /\ FitsCall(w)'
  <2>1. /\ pc'[w] \in {"edit", "sold", "sellable", "move", "stocktake"}
        /\ call'[w].kind # "sale"
        /\ pc'[w] \in {"sellable", "move"} => call'[w].kind \in Moves
    <3>1. CASE \E e \in Edits : UpdateTicketType(w, e)
      BY <3>1 DEF TypeOK, UpdateTicketType, Take, Goto, Call, NoCall
    <3>2. CASE ArchiveTicketType(w) \/ View(w)
      BY <3>2 DEF TypeOK, ArchiveTicketType, View, Take, Goto, Call, NoCall
    <3>3. CASE \E m \in Moves : ChangeStatus(w, m)
      BY <3>3 DEF TypeOK, ChangeStatus, Take, Goto, Call, NoCall, Moves
    <3> QED
      BY <1>3, <3>1, <3>2, <3>3
  <2> QED
    BY <2>1 DEF FitsSale, FitsCall, Selling, Kind, SaleSteps
<1>4. ASSUME NEW s \in Sales, NEW t \in Tickets(s), Scan(w, t)
      PROVE  FitsSale(w)' /\ FitsCall(w)'
  <2>1. pc'[w] = "admit" /\ call'[w].kind = "scan" /\ call'[w].ticket = t
    BY <1>4 DEF TypeOK, Scan, Take, Goto, Call, NoCall
  <2>2. t[1] = s /\ minted' = minted
    BY <1>4 DEF Scan, Take, Tickets
  <2>3. t \in Tickets(t[1])'
    BY <2>2, <1>4 DEF Tickets
  <2> QED
    BY <2>1, <2>2, <2>3 DEF FitsSale, FitsCall, Selling, Kind, SaleSteps
<1> QED
  BY <1>1, <1>2, <1>3, <1>4 DEF Arrive

LEMMA SaleStepsFit ==
    ASSUME TypeOK, NEW w \in Workers, FitsSale(w),
           \/ ReadType(w) \/ CountHeld(w) \/ Reserve(w) \/ Book(w) \/ GiveBack(w)
           \/ OpenOrder(w) \/ ReleaseSeats(w) \/ CancelBooking(w)
           \/ BookFails(w) \/ GatewayFails(w)
    PROVE  FitsSale(w)' /\ FitsCall(w)'
<1>1. Selling(w) /\ Sale(w) \in Sales \ offered
  <2>1. pc[w] \in SaleSteps
    BY DEF ReadType, CountHeld, Reserve, Book, GiveBack, OpenOrder, ReleaseSeats,
       CancelBooking, BookFails, GatewayFails, Fails, Look, SaleSteps
  <2> QED
    BY <2>1 DEF FitsSale
<1>2. CASE Answer(w)
  BY <1>2, AnswerFits
<1>3. ASSUME ~Answer(w)
      PROVE  call'[w] = call[w] /\ offered' = offered
  BY <1>3 DEF TypeOK, ReadType, CountHeld, Reserve, Book, GiveBack, OpenOrder,
     ReleaseSeats, CancelBooking, BookFails, GatewayFails, Fails, Look, Carry, locals,
     paying
<1>4. ASSUME ~Answer(w)
      PROVE  /\ Selling(w)'
             /\ Sale(w)' = Sale(w)
             /\ Sale(w) \in Sales \ offered'
  BY <1>1, <1>3, <1>4 DEF Selling, Kind, Sale
<1>5. CASE ~Answer(w) /\ (ReadType(w) \/ CountHeld(w))
  <2>1. /\ pc'[w] \in {"held", "reserve"}
        /\ bookings[Sale(w)] = NoBooking
        /\ Seats(Sale(w)) \cap out = {}
        /\ UNCHANGED <<bookings, out>>
    BY <1>5 DEF TypeOK, FitsSale, ReadType, CountHeld, Look, Carry, Goto, history
  <2> QED
    BY <1>4, <1>5, <2>1 DEF FitsSale, FitsCall, SaleSteps, Seats, NoBooking
<1>6. CASE ~Answer(w) /\ Reserve(w)
  <2>1. /\ pc'[w] = "book"
        /\ bookings[Sale(w)] = NoBooking
        /\ Seats(Sale(w)) \subseteq out'
        /\ bookings' = bookings
    BY <1>6 DEF TypeOK, FitsSale, Reserve, Carry, Goto
  <2> QED
    BY <1>4, <1>6, <2>1 DEF FitsSale, FitsCall, SaleSteps, Seats, NoBooking
<1>7. CASE ~Answer(w) /\ Book(w)
  <2>1. /\ \/ pc'[w] = "count" /\ bookings'[Sale(w)] = Paid
           \/ pc'[w] = "gateway" /\ bookings'[Sale(w)] = Pending
        /\ Seats(Sale(w)) \subseteq out
        /\ out' = out
    BY <1>1, <1>7 DEF TypeOK, FitsSale, Book, Carry, Goto, history
  <2> QED
    BY <1>4, <1>7, <2>1 DEF FitsSale, FitsCall, SaleSteps, Seats, Paid, Pending
<1>8. CASE ~Answer(w) /\ (BookFails(w) \/ GatewayFails(w))
  <2>1. /\ \/ pc'[w] = "giveback" /\ bookings[Sale(w)] = NoBooking
           \/ pc'[w] = "release" /\ bookings[Sale(w)] = Pending
        /\ Seats(Sale(w)) \subseteq out
        /\ UNCHANGED <<bookings, out>>
    BY <1>8 DEF TypeOK, FitsSale, BookFails, GatewayFails, Fails, Carry, Goto, history
  <2> QED
    BY <1>4, <1>8, <2>1 DEF FitsSale, FitsCall, SaleSteps, Seats, Pending, NoBooking
<1>9. CASE ~Answer(w) /\ OpenOrder(w)
  <2>1. /\ pc'[w] = "reload"
        /\ bookings[Sale(w)] = Pending
        /\ Seats(Sale(w)) \subseteq out
        /\ UNCHANGED <<bookings, out>>
    BY <1>9 DEF TypeOK, FitsSale, OpenOrder, Look, Carry, Goto, history
  <2>2. Holds(Sale(w))'
    BY <2>1, <1>4, <1>9 DEF Holds, Pending
  <2> QED
    BY <1>4, <1>9, <2>1, <2>2 DEF FitsSale, FitsCall, SaleSteps, Seats, Pending
<1>10. CASE ~Answer(w) /\ ReleaseSeats(w)
  <2>1. /\ pc'[w] = "unbook"
        /\ bookings[Sale(w)] = Pending
        /\ bookings' = bookings
    BY <1>10 DEF TypeOK, FitsSale, ReleaseSeats, Release, Carry, Goto
  <2> QED
    BY <1>4, <1>10, <2>1 DEF FitsSale, FitsCall, SaleSteps, Pending
<1> QED
  BY <1>2, <1>5, <1>6, <1>7, <1>8, <1>9, <1>10 DEF GiveBack, CancelBooking

LEMMA ConfirmStepsFit ==
    ASSUME TypeOK, SeatsHeld, NEW w \in Workers, FitsSale(w),
           \/ SaveConfirmed(w) \/ SaveUnverified(w) \/ CountTickets(w)
           \/ InsertTickets(w)
    PROVE  FitsSale(w)' /\ FitsCall(w)'
<1>1. CASE Answer(w)
  BY <1>1, AnswerFits
<1>2. ASSUME ~Answer(w)
      PROVE  /\ Selling(w)' = Selling(w)
             /\ Sale(w)' = Sale(w)
             /\ offered' = offered
  BY <1>2 DEF TypeOK, SaveConfirmed, SaveUnverified, CountTickets, InsertTickets, Carry,
     locals, paying, Selling, Kind, Sale
<1>3. CASE ~Answer(w) /\ SaveConfirmed(w)
  <2>1. pc'[w] = "count" /\ pc[w] = "confirm"
    BY <1>3 DEF TypeOK, SaveConfirmed, Carry, Goto
  <2>2. Sale(w) \in offered /\ Sale(w) \in Sales
    BY <2>1 DEF FitsSale, TypeOK
  <2>3. bookings'[Sale(w)].status = "confirmed"
    BY <1>3, <2>2 DEF TypeOK, SaveConfirmed, Paid
  <2>4. ~Selling(w)
    BY <2>2 DEF FitsSale
  <2> QED
    BY <1>2, <1>3, <2>1, <2>2, <2>3, <2>4 DEF FitsSale, FitsCall, SaleSteps
<1>4. CASE ~Answer(w) /\ (CountTickets(w) \/ InsertTickets(w))
  <2>1. pc[w] \in {"count", "mint"}
    BY <1>4 DEF CountTickets, InsertTickets
  <2>2. Sale(w) \in Sales /\ bookings[Sale(w)].status = "confirmed"
    BY <2>1 DEF FitsSale
  <2>3. bookings' = bookings /\ out' = out
    BY <1>4 DEF CountTickets, InsertTickets, history
  <2>4. pc'[w] = "mint" \/ (pc'[w] = "reload" /\ Selling(w))
    BY <1>4 DEF TypeOK, CountTickets, InsertTickets, Carry, Goto, Selling
  <2>5. Holds(Sale(w))' /\ Seats(Sale(w))' \subseteq out'
    <3>1. Seats(Sale(w))' = Seats(Sale(w))
      BY <1>2, <1>4 DEF Seats
    <3>2. Seats(Sale(w)) \subseteq out
      BY <2>2 DEF SeatsHeld
    <3> QED
      BY <1>2, <1>4, <2>2, <2>3, <3>1, <3>2 DEF Holds
  <2>6. Selling(w) => Sale(w) \in Sales \ offered
    BY DEF FitsSale
  <2> QED
    BY <1>2, <1>4, <2>2, <2>3, <2>4, <2>5, <2>6 DEF FitsSale, FitsCall, SaleSteps
<1> QED
  BY <1>1, <1>3, <1>4 DEF SaveUnverified

LEMMA SignStepsFit ==
    ASSUME TypeOK, NEW w \in Workers, FitsSale(w),
           Reload(w) \/ ReadShelf(w) \/ SaveSign(w) \/ TakeStock(w) \/ Heal(w)
    PROVE  FitsSale(w)' /\ FitsCall(w)'
<1>1. CASE Answer(w)
  BY <1>1, AnswerFits
<1>2. CASE ~Answer(w)
  <2>1. /\ Selling(w)' = Selling(w)
        /\ Sale(w)' = Sale(w)
        /\ offered' = offered
        /\ bookings' = bookings
        /\ out' = out
    BY <1>2 DEF TypeOK, Reload, ReadShelf, SaveSign, TakeStock, Heal, Look, Carry,
       locals, paying, history, Selling, Kind, Sale
  <2>2. \/ pc[w] \in {"reload", "shelf"} /\ pc'[w] \in {"shelf", "sign"}
        \/ pc[w] = "stocktake" /\ pc'[w] = "heal"
    BY <1>2 DEF TypeOK, Reload, ReadShelf, SaveSign, TakeStock, Heal, Look, Carry, Goto
  <2>3. Selling(w) /\ pc[w] \in {"reload", "shelf"} =>
          Holds(Sale(w))' /\ Seats(Sale(w))' \subseteq out'
    BY <2>1 DEF FitsSale, Holds, Seats
  <2>4. Selling(w) => Sale(w) \in Sales \ offered
    BY DEF FitsSale
  <2>5. pc[w] = "stocktake" => ~Selling(w)
    BY DEF FitsSale, SaleSteps
  <2> QED
    BY <2>1, <2>2, <2>3, <2>4, <2>5 DEF FitsSale, FitsCall, SaleSteps
<1> QED
  BY <1>1, <1>2

LEMMA OrganizerStepsFit ==
    ASSUME TypeOK, NEW w \in Workers, FitsSale(w), FitsCall(w),
           \/ LoadType(w) \/ SaveType(w) \/ CountHolders(w) \/ Retire(w)
           \/ CountSellable(w) \/ SaveStatus(w) \/ Admit(w)
    PROVE  FitsSale(w)' /\ FitsCall(w)'
<1>1. CASE Answer(w)
  BY <1>1, AnswerFits
<1>2. CASE ~Answer(w)
  <2>1. call' = call /\ offered' = offered
    BY <1>2 DEF LoadType, SaveType, CountHolders, Retire, CountSellable, SaveStatus,
       Admit, Look, Carry, locals, paying
  <2>2. pc[w] \in {"edit", "restock", "sold", "retire", "sellable", "move"}
    BY <1>2 DEF LoadType, SaveType, CountHolders, Retire, CountSellable, SaveStatus,
       Admit, Look
  <2>3. pc'[w] \in {"restock", "shelf", "retire", "move"}
    BY <1>2 DEF TypeOK, LoadType, SaveType, CountHolders, Retire, CountSellable,
       SaveStatus, Admit, Look, Carry, Goto
  <2>4. FitsCall(w)'
    <3>1. pc'[w] = "restock" => call[w].edit.total >= copy'[w].total - copy'[w].available
      <4>1. CASE LoadType(w)
        <5>1. call[w].edit.total >= total - available
          BY <1>2, <4>1 DEF LoadType
        <5>2. copy'[w].total = total /\ copy'[w].available = available
          <6>1. copy' = [copy EXCEPT ![w] = [@ EXCEPT !.total = total,
                                                      !.available = available,
                                                      !.active = active]]
            BY <1>2, <4>1 DEF LoadType
          <6>2. copy'[w] = [copy[w] EXCEPT !.total = total, !.available = available,
                                           !.active = active]
            BY <6>1 DEF TypeOK
          <6> QED
            BY <6>2 DEF TypeOK
        <5> QED
          BY <5>1, <5>2
      <4>2. CASE ~LoadType(w)
        BY <1>2, <2>3, <4>2 DEF TypeOK, SaveType, CountHolders, Retire, CountSellable,
           SaveStatus, Admit, Look, Carry, Goto
      <4> QED
        BY <4>1, <4>2
    <3>2. pc'[w] = "move" => Kind(w) \in Moves
      BY <1>2, <2>3 DEF TypeOK, FitsCall, LoadType, SaveType, CountHolders, Retire,
         CountSellable, SaveStatus, Admit, Look, Carry, Goto
    <3> QED
      BY <2>1, <2>3, <3>1, <3>2 DEF FitsCall, Kind, Sold
  <2>5. ~Selling(w)
    BY <2>2 DEF FitsSale, SaleSteps
  <2> QED
    BY <2>1, <2>3, <2>4, <2>5 DEF FitsSale, SaleSteps, Selling, Kind
<1> QED
  BY <1>1, <1>2

LEMMA StepsFit ==
    ASSUME TypeOK, Fits, OneSeller, SeatsHeld, NEW w \in Workers, StepOf(w)
    PROVE  Fits'
<1>1. FitsSale(w) /\ FitsCall(w)
  BY DEF Fits
<1>2. FitsSale(w)' /\ FitsCall(w)'
  <2>1. CASE Die(w)
    BY <2>1, FinishFits DEF Die
  <2> QED
    BY <1>1, <2>1, ArriveFits, SaleStepsFit, ConfirmStepsFit, SignStepsFit,
       OrganizerStepsFit DEF StepOf, Progress
<1>3. \A v \in Workers \ {w} : FitsSale(v)' /\ FitsCall(v)'
  BY OthersFit
<1> QED
  BY <1>2, <1>3 DEF Fits

\* A sale begins only when nobody makes it.
LEMMA StepsOneSeller ==
    ASSUME TypeOK, OneSeller, NEW w \in Workers, StepOf(w)
    PROVE  OneSeller'
<1>1. \A v \in Workers \ {w} : call'[v] = call[v]
  BY StepsMoveOne
<1>2. \/ call'[w] = call[w]
      \/ call'[w].kind # "sale"
      \/ \A v \in Workers : call[v].sale # call'[w].sale
  <2>1. ASSUME NEW s \in Sales, StartBooking(w, s)
        PROVE  \A v \in Workers : call[v].sale # call'[w].sale
    BY <2>1 DEF TypeOK, StartBooking, Take, Call, NoCall, Sale
  <2>2. ASSUME NEW s \in Sales, Confirm(w, s) \/ ConfirmUnverified(w, s)
        PROVE  call'[w].kind # "sale"
    <3>1. CASE Confirm(w, s)
      BY <3>1 DEF TypeOK, Confirm, Take, Call, NoCall
    <3>2. CASE ConfirmUnverified(w, s)
      BY <3>2 DEF TypeOK, ConfirmUnverified, Take, Call, NoCall
    <3> QED
      BY <2>2, <3>1, <3>2
  <2>3. ASSUME \/ \E e \in Edits : UpdateTicketType(w, e)
               \/ ArchiveTicketType(w) \/ View(w)
        PROVE  call'[w].kind # "sale"
    <3>1. ASSUME NEW e \in Edits, UpdateTicketType(w, e)
          PROVE  call'[w].kind # "sale"
      BY <3>1 DEF TypeOK, UpdateTicketType, Take, Call, NoCall
    <3>2. CASE ArchiveTicketType(w)
      BY <3>2 DEF TypeOK, ArchiveTicketType, Take, Call, NoCall
    <3>3. CASE View(w)
      BY <3>3 DEF TypeOK, View, Take, Call, NoCall
    <3> QED
      BY <2>3, <3>1, <3>2, <3>3
  <2>4. CASE \E m \in Moves : ChangeStatus(w, m)
    BY <2>4 DEF TypeOK, ChangeStatus, Take, Call, NoCall, Moves
  <2>5. CASE \E s \in Sales : \E t \in Tickets(s) : Scan(w, t)
    BY <2>5 DEF TypeOK, Scan, Take, Call, NoCall
  <2>6. CASE Finish(w)
    BY <2>6 DEF TypeOK, Finish, NoCall
  <2>7. CASE ~Arrive(w) /\ ~Finish(w)
    <3>1. call' = call
      <4>1. CASE Progress(w) /\ (\/ ReadType(w) \/ CountHeld(w) \/ Reserve(w) \/ Book(w)
                                 \/ GiveBack(w) \/ OpenOrder(w) \/ ReleaseSeats(w)
                                 \/ CancelBooking(w) \/ SaveConfirmed(w)
                                 \/ SaveUnverified(w) \/ CountTickets(w)
                                 \/ InsertTickets(w))
        BY <2>7, <4>1 DEF ReadType, CountHeld, Reserve, Book, GiveBack, OpenOrder,
           ReleaseSeats, CancelBooking, SaveConfirmed, SaveUnverified, CountTickets,
           InsertTickets, Look, Carry, Answer, locals
      <4>2. CASE \/ Reload(w) \/ ReadShelf(w) \/ SaveSign(w) \/ TakeStock(w) \/ Heal(w)
                 \/ LoadType(w) \/ SaveType(w) \/ CountHolders(w) \/ Retire(w)
                 \/ CountSellable(w) \/ SaveStatus(w) \/ Admit(w)
        BY <2>7, <4>2 DEF Reload, ReadShelf, SaveSign, TakeStock, Heal, LoadType,
           SaveType, CountHolders, Retire, CountSellable, SaveStatus, Admit, Look, Carry,
           Answer, locals
      <4>3. CASE BookFails(w) \/ GatewayFails(w) \/ Die(w)
        BY <2>7, <4>3 DEF BookFails, GatewayFails, Fails, Die, Carry, locals
      <4> QED
        BY <2>7, <4>1, <4>2, <4>3 DEF StepOf, Progress
    <3> QED
      BY <3>1
  <2> QED
    BY <2>1, <2>2, <2>3, <2>4, <2>5, <2>6, <2>7 DEF Arrive
<1> QED
  BY <1>1, <1>2 DEF OneSeller, Selling, Sale, Kind

-----------------------------------------------------------------------------
(* The safety invariants.                                                  *)

LEMMA StepsHoldSeats ==
    ASSUME TypeOK, Fits, SeatsHeld, NEW w \in Workers, StepOf(w)
    PROVE  SeatsHeld'
<1>1. FitsSale(w) /\ Undisturbed(w) /\ Offers(w)
  BY StepsUndisturb, StepsOffer DEF Fits
<1>2. ASSUME NEW s \in Sales, s \in offered' \ offered
      PROVE  Holds(s)' /\ Seats(s) \subseteq out'
  <2>1. /\ pc[w] \in {"shelf", "sign"}
        /\ Selling(w)
        /\ bookings[s] = Pending
        /\ s = Sale(w)
    BY <1>1, <1>2 DEF Offers
  <2>2. Seats(s) \subseteq out
    BY <1>1, <2>1 DEF FitsSale
  <2>3. Quiet
    BY <2>1, StepsQuietOrWrite DEF Writes, Retire, Reserve, GiveBack, ReleaseSeats, SaveType,
       Book, CancelBooking, SaveConfirmed, SaveUnverified, InsertTickets, Admit
  <2> QED
    BY <2>1, <2>2, <2>3 DEF Quiet, Holds, Pending
<1>3. ASSUME NEW s \in offered
      PROVE  Holds(s)'
  <2>1. s \in Sales /\ Holds(s)
    BY DEF TypeOK, SeatsHeld
  <2>2. CASE Quiet \/ SaveType(w) \/ Admit(w) \/ InsertTickets(w) \/ Reserve(w)
               \/ GiveBack(w) \/ ReleaseSeats(w) \/ Retire(w)
    BY <2>1, <2>2 DEF Quiet, Retire, SaveType, Admit, InsertTickets, Reserve, GiveBack,
       ReleaseSeats, Release, Holds
  <2>3. CASE Book(w) \/ CancelBooking(w)
    <3>1. Selling(w)
      BY <1>1, <2>3 DEF FitsSale, SaleSteps, Book, CancelBooking
    <3>2. Sale(w) # s
      BY <1>1, <3>1 DEF FitsSale
    <3> QED
      BY <2>1, <2>3, <3>2 DEF TypeOK, Book, CancelBooking, Holds
  <2>4. CASE SaveConfirmed(w)
    BY <2>1, <2>4 DEF TypeOK, SaveConfirmed, Holds, Paid
  <2>5. CASE SaveUnverified(w)
    BY <2>1, <2>5 DEF TypeOK, SaveUnverified, Holds
  <2> QED
    BY <2>2, <2>3, <2>4, <2>5, StepsQuietOrWrite DEF Writes
<1>4. ASSUME NEW s \in Sales, s \in offered \/ bookings[s].status = "confirmed"
      PROVE  Seats(s) \subseteq out'
  <2>1. Seats(s) \subseteq out
    BY <1>4 DEF SeatsHeld
  <2>2. CASE Seats(s) \cap out' = Seats(s) \cap out
    BY <2>1, <2>2
  <2>3. CASE s = Sale(w) /\ Selling(w)
    <3>1. bookings[s].status = "confirmed"
      BY <1>1, <1>4, <2>3 DEF FitsSale
    <3>2. ~(GiveBack(w) \/ ReleaseSeats(w))
      BY <1>1, <2>3, <3>1 DEF FitsSale, GiveBack, ReleaseSeats, NoBooking, Pending
    <3>3. out \subseteq out'
      BY <3>2, StepsQuietOrWrite DEF Writes, Retire, Quiet, Reserve, SaveType, Book,
         CancelBooking, SaveConfirmed, SaveUnverified, InsertTickets, Admit, history
    <3> QED
      BY <2>1, <3>3
  <2> QED
    BY <1>1, <2>2, <2>3 DEF Undisturbed
<1>5. ASSUME NEW s \in Sales, bookings'[s].status = "confirmed",
             bookings[s].status # "confirmed", s \notin offered
      PROVE  Seats(s) \subseteq out'
  <2>1. s = Sale(w) /\ Selling(w)
    BY <1>1, <1>5 DEF Undisturbed
  <2>2. Book(w) \/ CancelBooking(w)
    <3>1. bookings' # bookings
      BY <1>5
    <3>2. ~SaveConfirmed(w) /\ ~SaveUnverified(w)
      BY <1>1, <2>1 DEF FitsSale, SaleSteps, SaveConfirmed, SaveUnverified
    <3> QED
      BY <3>1, <3>2, StepsQuietOrWrite DEF Writes, Retire, Quiet, Reserve, SaveType, GiveBack,
         ReleaseSeats, Release, InsertTickets, Admit
  <2>3. CASE Book(w)
    BY <1>1, <2>1, <2>3 DEF FitsSale, Book, history
  <2>4. CASE CancelBooking(w)
    BY <1>5, <2>1, <2>4 DEF TypeOK, CancelBooking
  <2> QED
    BY <2>2, <2>3, <2>4
<1>6. \A s \in offered' : Holds(s)'
  BY <1>1, <1>2, <1>3 DEF Offers, FitsSale
<1>7. ASSUME NEW s \in Sales, s \in offered' \/ bookings'[s].status = "confirmed"
      PROVE  Seats(s) \subseteq out'
  BY <1>2, <1>4, <1>5, <1>7
<1> QED
  BY <1>6, <1>7 DEF SeatsHeld, Seats

LEMMA StepsConserve ==
    ASSUME TypeOK, Fits, Conserved, NEW w \in Workers, StepOf(w)
    PROVE  Conserved'
<1>1. FitsSale(w)
  BY DEF Fits
<1>2. Cardinality(out) \in Nat /\ total \in Nat /\ available \in Nat
  BY FS_CardinalityType DEF Conserved, TypeOK
<1>3. CASE UNCHANGED <<total, available, rewritten, out>>
  BY <1>3 DEF Conserved
<1>4. CASE Reserve(w) /\ out' # out
  <2>1. Sale(w) \in Sales /\ Seats(Sale(w)) \cap out = {}
    BY <1>1, <1>4 DEF FitsSale, SaleSteps, Reserve
  <2>2. /\ out' = out \cup Seats(Sale(w))
        /\ available' = available - Wanted[Sale(w)]
        /\ UNCHANGED <<total, rewritten>>
    BY <1>4 DEF Reserve
  <2>3. /\ IsFiniteSet(out')
        /\ Cardinality(out') = Cardinality(out) + Cardinality(Seats(Sale(w)))
                                 - Cardinality(out \cap Seats(Sale(w)))
    <3>1. IsFiniteSet(out) /\ IsFiniteSet(Seats(Sale(w)))
      BY <2>1, SeatsFinite DEF Conserved
    <3> QED
      BY <2>2, <3>1, FS_Union
  <2>4. Cardinality(out \cap Seats(Sale(w))) = 0
    <3>1. out \cap Seats(Sale(w)) = {}
      BY <2>1
    <3> QED
      BY <3>1, FS_EmptySet
  <2>5. Cardinality(Seats(Sale(w))) = Wanted[Sale(w)] /\ Wanted[Sale(w)] \in Nat
    BY <2>1, SeatsFinite
  <2> QED
    BY <1>2, <2>2, <2>3, <2>4, <2>5 DEF Conserved
<1>5. CASE GiveBack(w) \/ ReleaseSeats(w)
  <2>1. Sale(w) \in Sales /\ Seats(Sale(w)) \subseteq out
    BY <1>1, <1>5 DEF FitsSale, SaleSteps, GiveBack, ReleaseSeats
  <2>2. /\ out' = out \ Seats(Sale(w))
        /\ available' = available + Wanted[Sale(w)]
        /\ UNCHANGED <<total, rewritten>>
    BY <1>5 DEF GiveBack, ReleaseSeats, Release
  <2>3. /\ IsFiniteSet(out')
        /\ Cardinality(out') = Cardinality(out) - Cardinality(out \cap Seats(Sale(w)))
    BY <2>2, FS_Difference DEF Conserved
  <2>4. Cardinality(out \cap Seats(Sale(w))) = Cardinality(Seats(Sale(w)))
    <3>1. out \cap Seats(Sale(w)) = Seats(Sale(w))
      BY <2>1
    <3> QED
      BY <3>1
  <2>5. Cardinality(Seats(Sale(w))) = Wanted[Sale(w)] /\ Wanted[Sale(w)] \in Nat
    BY <2>1, SeatsFinite
  <2> QED
    BY <1>2, <2>2, <2>3, <2>4, <2>5 DEF Conserved
<1>6. CASE SaveType(w)
  <2> DEFINE restock == call[w].edit.total # copy[w].total
  <2>1. /\ total' = IF restock THEN call[w].edit.total ELSE total
        /\ available' = IF restock THEN call[w].edit.total - Sold(w) ELSE available
        /\ rewritten' = (rewritten \/ (restock /\ total - available # Sold(w)))
        /\ out' = out
    BY <1>6 DEF SaveType
  <2>2. call[w].edit.total \in Int /\ Sold(w) \in Int
    BY TicketAssumption DEF TicketAssumption, TypeOK, NoEdit, Sold
  <2>3. CASE restock /\ ~rewritten'
    <3>1. ~rewritten /\ total - available = Sold(w)
      BY <2>1, <2>3
    <3>2. available + Cardinality(out) = total
      BY <3>1 DEF Conserved
    <3>3. available' + Cardinality(out) = total'
      BY <1>2, <2>1, <2>2, <2>3, <3>1, <3>2
    <3> QED
      BY <2>1, <3>3 DEF Conserved
  <2>4. CASE ~restock
    BY <2>1, <2>4 DEF Conserved
  <2>5. CASE rewritten'
    BY <2>1, <2>5 DEF Conserved
  <2> QED
    BY <2>3, <2>4, <2>5
<1>7. \/ UNCHANGED <<total, available, rewritten, out>>
      \/ Reserve(w) /\ out' # out
      \/ GiveBack(w) \/ ReleaseSeats(w) \/ SaveType(w)
  <2>1. CASE Reserve(w)
    <3>1. CASE available >= Wanted[Sale(w)]
      <4>1. Sale(w) \in Sales /\ Seats(Sale(w)) \cap out = {}
        BY <1>1, <2>1 DEF FitsSale, SaleSteps, Reserve
      <4>2. Seats(Sale(w)) # {}
        BY <4>1, SeatsFinite, FS_EmptySet
      <4> QED
        BY <2>1, <3>1, <4>1, <4>2 DEF Reserve
    <3>2. CASE ~(available >= Wanted[Sale(w)])
      BY <2>1, <3>2 DEF Reserve
    <3> QED
      BY <3>1, <3>2
  <2> QED
    BY <2>1, StepsQuietOrWrite DEF Writes, Retire, Quiet, Book, CancelBooking, SaveConfirmed,
       SaveUnverified, InsertTickets, Admit, stock, history
<1> QED
  BY <1>3, <1>4, <1>5, <1>6, <1>7

LEMMA StepsEarnTickets ==
    ASSUME TypeOK, Fits, TicketsAreEarned, NEW w \in Workers, StepOf(w)
    PROVE  TicketsAreEarned'
<1>1. FitsSale(w) /\ Undisturbed(w) /\ Offers(w)
  BY StepsUndisturb, StepsOffer DEF Fits
<1>2. ASSUME NEW s \in Sales, minted'[s] > 0
      PROVE  bookings'[s].status = "confirmed"
  <2>1. CASE minted[s] > 0
    BY <1>1, <2>1 DEF TicketsAreEarned, Undisturbed
  <2>2. CASE ~(minted[s] > 0)
    <3>1. minted' # minted
      BY <1>2, <2>2
    <3>2. InsertTickets(w)
      BY <3>1, StepsQuietOrWrite DEF Writes, Retire, Quiet, Reserve, GiveBack, ReleaseSeats,
         Release, SaveType, Book, CancelBooking, SaveConfirmed, SaveUnverified, Admit
    <3>3. s = Sale(w)
      BY <1>2, <2>2, <3>2 DEF TypeOK, InsertTickets
    <3> QED
      BY <1>1, <3>2, <3>3 DEF FitsSale, InsertTickets
  <2> QED
    BY <2>1, <2>2
<1>3. ASSUME NEW s \in Sales, s \in offered', bookings'[s].status = "confirmed"
      PROVE  s \in captured'
  <2>1. CASE s \in offered /\ bookings[s].status = "confirmed"
    BY <1>1, <2>1 DEF TicketsAreEarned, Offers
  <2>2. CASE s \in offered /\ bookings[s].status # "confirmed"
    <3>1. s = Sale(w)
      BY <1>1, <1>3, <2>2 DEF Undisturbed
    <3>2. ~Selling(w)
      BY <1>1, <2>2, <3>1 DEF FitsSale
    <3>3. ~Book(w) /\ ~CancelBooking(w)
      BY <1>1, <3>2 DEF FitsSale, SaleSteps, Book, CancelBooking
    <3>4. ~SaveUnverified(w)
      BY <1>3, <2>2, <3>1 DEF TypeOK, SaveUnverified
    <3>5. SaveConfirmed(w)
      BY <1>3, <2>2, <3>3, <3>4, StepsQuietOrWrite DEF Writes, Retire, Quiet, Reserve, GiveBack,
         ReleaseSeats, Release, SaveType, InsertTickets, Admit
    <3> QED
      BY <1>1, <3>1, <3>5 DEF FitsSale, SaveConfirmed, Offers
  <2>3. CASE s \notin offered
    <3>1. /\ pc[w] \in {"shelf", "sign"}
          /\ bookings[s] = Pending
      BY <1>1, <1>3, <2>3 DEF Offers
    <3>2. Quiet
      BY <3>1, StepsQuietOrWrite DEF Writes, Retire, Reserve, GiveBack, ReleaseSeats, SaveType,
         Book, CancelBooking, SaveConfirmed, SaveUnverified, InsertTickets, Admit
    <3> QED
      BY <1>3, <3>1, <3>2 DEF Quiet, Pending
  <2> QED
    BY <2>1, <2>2, <2>3
<1> QED
  BY <1>2, <1>3 DEF TicketsAreEarned

LEMMA StepsAdmitOnce ==
    ASSUME TypeOK, Fits, Admitted, NEW w \in Workers, StepOf(w)
    PROVE  Admitted'
<1> DEFINE Used(s) == {t \in inside : t[1] = s}
<1>1. FitsSale(w) /\ FitsCall(w) /\ Undisturbed(w)
  BY StepsUndisturb DEF Fits
<1>2. \A s \in Sales : Tickets(s) \subseteq Tickets(s)'
  <2>1. \A s \in Sales : minted[s] \in Nat /\ minted'[s] \in Nat /\ minted'[s] >= minted[s]
    BY <1>1 DEF TypeOK, Undisturbed
  <2> QED
    BY <2>1 DEF Tickets
<1>3. \A s \in Sales : Used(s) \subseteq Tickets(s) /\ entries[s] = Cardinality(Used(s))
  BY DEF Admitted, AdmittedOnce
<1>4. CASE inside' = inside /\ entries' = entries
  <2>1. \A s \in Sales : Used(s)' = Used(s)
    BY <1>4
  <2> QED
    BY <1>2, <1>3, <1>4, <2>1 DEF Admitted, AdmittedOnce
<1>5. CASE Admit(w)
  <2> DEFINE t == call[w].ticket
  <2>1. t[1] \in Sales /\ t \in Tickets(t[1])
    BY <1>1, <1>5 DEF FitsCall, Admit
  <2>2. inside' = inside \cup {t}
    BY <1>5 DEF Admit
  <2>3. CASE t \in inside
    <3>1. inside' = inside /\ entries' = entries
      BY <1>5, <2>2, <2>3 DEF Admit
    <3> QED
      BY <1>4, <3>1
  <2>4. CASE t \notin inside
    <3>1. entries' = [entries EXCEPT ![t[1]] = @ + 1]
      BY <1>5, <2>4 DEF Admit
    <3>2. IsFiniteSet(inside')
      BY <2>2, FS_AddElement DEF Admitted
    <3>3. ASSUME NEW s \in Sales
          PROVE  Used(s)' \subseteq Tickets(s)' /\ entries'[s] = Cardinality(Used(s)')
      <4>1. CASE s = t[1]
        <5>1. Used(s)' = Used(s) \cup {t} /\ t \notin Used(s)
          BY <2>2, <2>4, <4>1
        <5>2. IsFiniteSet(Used(s))
          BY FS_Subset DEF Admitted
        <5>3. Cardinality(Used(s) \cup {t}) = Cardinality(Used(s)) + 1
          BY <5>1, <5>2, FS_AddElement
        <5>4. entries'[s] = entries[s] + 1
          BY <2>1, <3>1, <4>1 DEF TypeOK
        <5>5. t \in Tickets(s)'
          BY <1>2, <2>1, <4>1
        <5> HIDE DEF Used, t
        <5> QED
          BY <1>2, <1>3, <5>1, <5>3, <5>4, <5>5
      <4>2. CASE s # t[1]
        <5>1. Used(s)' = Used(s)
          BY <2>2, <4>2
        <5>2. entries'[s] = entries[s]
          BY <3>1, <4>2 DEF TypeOK
        <5> HIDE DEF Used, t
        <5> QED
          BY <1>2, <1>3, <5>1, <5>2
      <4> QED
        BY <4>1, <4>2
    <3> QED
      BY <3>2, <3>3 DEF Admitted, AdmittedOnce
  <2> QED
    BY <2>3, <2>4
<1> QED
  BY <1>4, <1>5, StepsQuietOrWrite DEF Writes, Retire, Quiet, Reserve, GiveBack, ReleaseSeats,
     Release, SaveType, Book, CancelBooking, SaveConfirmed, SaveUnverified,
     InsertTickets, door

-----------------------------------------------------------------------------
(* Types.                                                                  *)

Locals ==
    /\ pc \in [Workers -> Steps]
    /\ call \in [Workers -> [kind : Kinds \cup {"none"}, sale : Sales \cup {NoSale},
                             edit : Edits \cup {NoEdit},
                             ticket : AllTickets \cup {NoTicket}]]
    /\ copy \in [Workers -> [event : Statuses, total : Nat, available : Nat,
                             active : BOOLEAN,
                             payment : {"none", "pending", "paid", "failed"}]]

StockTyped ==
    /\ total \in Nat
    /\ available \in Nat
    /\ {active, archived, rewritten} \subseteq BOOLEAN
    /\ out \subseteq SeatsOf(Sales)

RecordsTyped ==
    /\ bookings \in [Sales -> [status : {"none", "pending", "confirmed", "cancelled"},
                               payment : {"none", "pending", "paid", "failed"}]]
    /\ minted \in [Sales -> Nat]
    /\ inside \subseteq AllTickets
    /\ entries \in [Sales -> Nat]

LEMMA TypeParts ==
    TypeOK <=> /\ Locals /\ StockTyped /\ RecordsTyped
               /\ event \in Statuses
               /\ captured \subseteq offered /\ offered \subseteq Sales
               /\ faults \in 0 .. MaxFaults
BY DEF TypeOK, Locals, StockTyped, RecordsTyped

LEMMA FinishTyped ==
    ASSUME Locals, NEW w \in Workers, Finish(w)
    PROVE  Locals'
<1>1. pc' \in [Workers -> Steps]
  BY DEF Locals, Finish, Goto, Steps
<1>2. NoCall \in [kind : Kinds \cup {"none"}, sale : Sales \cup {NoSale},
                  edit : Edits \cup {NoEdit}, ticket : AllTickets \cup {NoTicket}]
  BY DEF NoCall
<1>3. NoCopy \in [event : Statuses, total : Nat, available : Nat, active : BOOLEAN,
                  payment : {"none", "pending", "paid", "failed"}]
  BY DEF NoCopy, Statuses
<1> QED
  BY <1>1, <1>2, <1>3 DEF Locals, Finish

LEMMA TakeTyped ==
    ASSUME TypeOK, NEW w \in Workers, NEW l \in Steps,
           NEW c \in [kind : Kinds \cup {"none"}, sale : Sales \cup {NoSale},
                      edit : Edits \cup {NoEdit}, ticket : AllTickets \cup {NoTicket}],
           Take(w, c, l)
    PROVE  Locals'
<1>1. pc' \in [Workers -> Steps]
  BY DEF TypeOK, Take, Goto
<1>2. call' \in [Workers -> [kind : Kinds \cup {"none"}, sale : Sales \cup {NoSale},
                             edit : Edits \cup {NoEdit},
                             ticket : AllTickets \cup {NoTicket}]]
  BY DEF TypeOK, Take
<1>3. (IF c.sale = NoSale THEN "none" ELSE bookings[c.sale].payment)
        \in {"none", "pending", "paid", "failed"}
  BY DEF TypeOK
<1>4. copy' \in [Workers -> [event : Statuses, total : Nat, available : Nat,
                             active : BOOLEAN,
                             payment : {"none", "pending", "paid", "failed"}]]
  BY <1>3 DEF TypeOK, Take, NoCopy
<1> QED
  BY <1>1, <1>2, <1>4 DEF Locals

LEMMA ArriveTyped ==
    ASSUME TypeOK, NEW w \in Workers, Arrive(w)
    PROVE  Locals'
<1> DEFINE Calls == [kind : Kinds \cup {"none"}, sale : Sales \cup {NoSale},
                     edit : Edits \cup {NoEdit}, ticket : AllTickets \cup {NoTicket}]
<1>1. ASSUME NEW s \in Sales, StartBooking(w, s) \/ Confirm(w, s) \/ ConfirmUnverified(w, s)
      PROVE  Locals'
  <2>1. \A k \in {"sale", "confirm", "unverified"} : [Call(k) EXCEPT !.sale = s] \in Calls
    BY DEF Call, NoCall, Kinds
  <2> QED
    BY <1>1, <2>1, TakeTyped DEF StartBooking, Confirm, ConfirmUnverified, Steps
<1>2. ASSUME NEW e \in Edits, UpdateTicketType(w, e)
      PROVE  Locals'
  <2>1. [Call("edit") EXCEPT !.edit = e] \in Calls
    BY DEF Call, NoCall, Kinds
  <2> QED
    BY <1>2, <2>1, TakeTyped DEF UpdateTicketType, Steps
<1>3. CASE ArchiveTicketType(w) \/ View(w)
  <2>1. \A k \in {"archive", "view"} : Call(k) \in Calls
    BY DEF Call, NoCall, Kinds
  <2> QED
    BY <1>3, <2>1, TakeTyped DEF ArchiveTicketType, View, Steps
<1>4. ASSUME NEW m \in Moves, ChangeStatus(w, m)
      PROVE  Locals'
  <2>1. Call(m) \in Calls
    BY DEF Call, NoCall, Kinds
  <2>2. (IF m = "publish" THEN "sellable" ELSE "move") \in Steps
    BY DEF Steps
  <2> QED
    BY <1>4, <2>1, <2>2, TakeTyped DEF ChangeStatus
<1>5. ASSUME NEW s \in Sales, NEW t \in Tickets(s), Scan(w, t)
      PROVE  Locals'
  <2>1. t \in AllTickets
    BY DEF Tickets, AllTickets, TypeOK
  <2>2. [Call("scan") EXCEPT !.ticket = t] \in Calls
    BY <2>1 DEF Call, NoCall, Kinds
  <2> QED
    BY <1>5, <2>2, TakeTyped DEF Scan, Steps
<1> QED
  BY <1>1, <1>2, <1>3, <1>4, <1>5 DEF Arrive

LEMMA ProgressTyped ==
    ASSUME TypeOK, Fits, NEW w \in Workers,
           Progress(w) \/ BookFails(w) \/ GatewayFails(w)
    PROVE  Locals'
<1> DEFINE Copies == [event : Statuses, total : Nat, available : Nat, active : BOOLEAN,
                      payment : {"none", "pending", "paid", "failed"}]
<1>1. Locals
  BY DEF TypeOK, Locals
<1>2. CASE Finish(w)
  BY <1>1, <1>2, FinishTyped
<1>3. ASSUME NEW l \in Steps, Goto(w, l), call' = call, copy' \in [Workers -> Copies]
      PROVE  Locals'
  BY <1>1, <1>3 DEF Locals, Goto
<1>4. ASSUME NEW l \in Steps, Carry(w, l)
      PROVE  Locals'
  BY <1>1, <1>4 DEF Locals, Carry, Goto, locals
<1>5. \A x \in Statuses : [copy EXCEPT ![w].event = x] \in [Workers -> Copies]
  BY DEF TypeOK
<1>6. ASSUME NEW c \in Copies
       PROVE  [copy EXCEPT ![w] = c] \in [Workers -> Copies]
  BY DEF TypeOK
<1>7. CASE ReadType(w) /\ ~Finish(w)
  <2>1. Goto(w, "held") /\ call' = call /\ copy' \in [Workers -> Copies]
    BY <1>7 DEF ReadType, Answer, TypeOK
  <2> QED
    BY <1>3, <2>1 DEF Steps
<1>8. CASE Reload(w)
  <2>1. Goto(w, "shelf") /\ call' = call /\ copy' \in [Workers -> Copies]
    BY <1>8 DEF Reload, TypeOK
  <2> QED
    BY <1>3, <2>1 DEF Steps
<1>9. CASE ReadShelf(w) /\ ~Finish(w)
  <2>1. Goto(w, "sign") /\ call' = call /\ copy' \in [Workers -> Copies]
    BY <1>9, <1>5 DEF ReadShelf, Answer, Statuses
  <2> QED
    BY <1>3, <2>1 DEF Steps
<1>10. CASE LoadType(w) /\ ~Finish(w)
  <2> DEFINE c == [copy[w] EXCEPT !.total = total, !.available = available,
                                  !.active = active]
  <2>1. c \in Copies
    BY DEF TypeOK
  <2>2. Goto(w, "restock") /\ call' = call /\ copy' = [copy EXCEPT ![w] = c]
    BY <1>10 DEF LoadType, Answer, TypeOK
  <2>3. Goto(w, "restock") /\ call' = call /\ copy' \in [Workers -> Copies]
    BY <1>6, <2>1, <2>2
  <2> QED
    BY <1>3, <2>3 DEF Steps
<1>11. CASE SaveStatus(w) /\ ~Finish(w)
  <2>1. Goto(w, "shelf") /\ call' = call /\ copy' \in [Workers -> Copies]
    BY <1>11, <1>5 DEF SaveStatus, Answer, Statuses
  <2> QED
    BY <1>3, <2>1 DEF Steps
<1>12. CASE ~Finish(w) /\ ~ReadType(w) /\ ~Reload(w) /\ ~ReadShelf(w) /\ ~LoadType(w)
              /\ ~SaveStatus(w)
  <2>1. \E l \in Steps : Carry(w, l)
    <3>1. CASE CountHeld(w) \/ Reserve(w) \/ Book(w) \/ GiveBack(w) \/ OpenOrder(w)
                 \/ ReleaseSeats(w) \/ CancelBooking(w) \/ BookFails(w) \/ GatewayFails(w)
      BY <1>12, <3>1 DEF CountHeld, Reserve, Book, GiveBack, OpenOrder, ReleaseSeats,
         CancelBooking, BookFails, GatewayFails, Fails, Look, Answer, Steps
    <3>2. CASE SaveConfirmed(w) \/ SaveUnverified(w) \/ CountTickets(w) \/ InsertTickets(w)
                 \/ SaveSign(w) \/ TakeStock(w) \/ Heal(w)
      BY <1>12, <3>2 DEF SaveConfirmed, SaveUnverified, CountTickets, InsertTickets,
         SaveSign, TakeStock, Heal, Look, Answer, Steps
    <3>3. CASE SaveType(w) \/ CountHolders(w) \/ Retire(w) \/ CountSellable(w) \/ Admit(w)
      BY <1>12, <3>3 DEF SaveType, CountHolders, Retire, CountSellable, Look, Admit,
         Answer, Steps
    <3> QED
      BY <1>12, <3>1, <3>2, <3>3 DEF Progress
  <2> QED
    BY <1>4, <2>1
<1> QED
  BY <1>2, <1>7, <1>8, <1>9, <1>10, <1>11, <1>12

LEMMA StockStepsTyped ==
    ASSUME TypeOK, Fits, NEW w \in Workers, StepOf(w)
    PROVE  StockTyped'
<1>1. FitsSale(w) /\ FitsCall(w)
  BY DEF Fits
<1>2. StockTyped
  BY DEF TypeOK, StockTyped
<1>3. CASE Quiet \/ Book(w) \/ CancelBooking(w) \/ SaveConfirmed(w) \/ SaveUnverified(w)
             \/ InsertTickets(w) \/ Admit(w)
  BY <1>2, <1>3 DEF StockTyped, Quiet, Book, CancelBooking, SaveConfirmed,
     SaveUnverified, InsertTickets, Admit, stock, history
<1>4. CASE Retire(w)
  BY <1>2, <1>4 DEF StockTyped, Retire, history
<1>5. CASE Reserve(w)
  <2>1. Sale(w) \in Sales
    BY <1>1, <1>5 DEF FitsSale, SaleSteps, Reserve
  <2>2. Wanted[Sale(w)] \in Nat /\ Seats(Sale(w)) \subseteq SeatsOf(Sales)
    BY <2>1, SeatsFinite
  <2> QED
    BY <1>2, <1>5, <2>2 DEF StockTyped, Reserve
<1>6. CASE GiveBack(w) \/ ReleaseSeats(w)
  <2>1. Sale(w) \in Sales
    BY <1>1, <1>6 DEF FitsSale, SaleSteps, GiveBack, ReleaseSeats
  <2>2. Wanted[Sale(w)] \in Nat
    BY <2>1, SeatsFinite
  <2> QED
    BY <1>2, <1>6, <2>2 DEF StockTyped, GiveBack, ReleaseSeats, Release
<1>7. CASE SaveType(w)
  <2>1. /\ call[w].edit \in [total : Nat, active : BOOLEAN]
        /\ Sold(w) \in Int
        /\ call[w].edit.total >= Sold(w)
    <3>1. call[w].edit \in Edits \cup {NoEdit}
      BY DEF TypeOK
    <3>2. Edits \cup {NoEdit} \subseteq [total : Nat, active : BOOLEAN]
      <4>1. NoEdit \in [total : Nat, active : BOOLEAN]
        BY DEF NoEdit
      <4>2. Edits \subseteq [total : Nat, active : BOOLEAN]
        BY TicketAssumption, Zenon DEF TicketAssumption
      <4> QED
        BY <4>1, <4>2, Zenon
    <3>3. Sold(w) \in Int
      BY DEF TypeOK, Sold
    <3>4. call[w].edit.total >= Sold(w)
      BY <1>1, <1>7 DEF FitsCall, SaveType
    <3> QED
      BY <3>1, <3>2, <3>3, <3>4
  <2>2. total' \in Nat /\ available' \in Nat
    BY <1>2, <1>7, <2>1 DEF StockTyped, SaveType
  <2>3. active' \in {active, call[w].edit.active} /\ UNCHANGED <<archived, out>>
    BY <1>7 DEF SaveType
  <2>4. active' \in BOOLEAN
    BY <1>2, <2>1, <2>3 DEF StockTyped
  <2>5. rewritten' \in BOOLEAN
    BY <1>7 DEF SaveType
  <2> QED
    BY <1>2, <2>2, <2>3, <2>4, <2>5 DEF StockTyped
<1> QED
  BY <1>3, <1>4, <1>5, <1>6, <1>7, StepsQuietOrWrite DEF Writes

LEMMA RecordStepsTyped ==
    ASSUME TypeOK, Fits, NEW w \in Workers, StepOf(w)
    PROVE  RecordsTyped'
<1>1. FitsSale(w) /\ FitsCall(w)
  BY DEF Fits
<1>2. RecordsTyped
  BY DEF TypeOK, RecordsTyped
<1>3. CASE Quiet \/ SaveType(w) \/ Reserve(w) \/ GiveBack(w) \/ ReleaseSeats(w)
             \/ Retire(w)
  BY <1>2, <1>3 DEF RecordsTyped, Quiet, Retire, door, SaveType, Reserve, GiveBack, ReleaseSeats,
     Release
<1>4. CASE Book(w) \/ SaveConfirmed(w)
  <2>1. bookings' \in {[bookings EXCEPT ![Sale(w)] = Paid],
                       [bookings EXCEPT ![Sale(w)] = Pending]}
    BY <1>4 DEF Book, SaveConfirmed
  <2>2. UNCHANGED <<minted, door>>
    BY <1>4 DEF Book, SaveConfirmed
  <2> QED
    BY <1>2, <2>1, <2>2 DEF RecordsTyped, Paid, Pending, door
<1>5. CASE CancelBooking(w)
  BY <1>2, <1>5 DEF RecordsTyped, CancelBooking, door
<1>6. CASE SaveUnverified(w)
  BY <1>2, <1>6 DEF RecordsTyped, SaveUnverified, door
<1>7. CASE InsertTickets(w)
  <2>1. Sale(w) \in Sales /\ Wanted[Sale(w)] \in Nat
    BY <1>1, <1>7, SeatsFinite DEF FitsSale, InsertTickets
  <2>2. minted' \in [Sales -> Nat]
    BY <1>2, <1>7, <2>1 DEF RecordsTyped, InsertTickets
  <2> QED
    BY <1>2, <1>7, <2>2 DEF RecordsTyped, InsertTickets, door
<1>8. CASE Admit(w)
  <2>1. call[w].ticket[1] \in Sales /\ call[w].ticket \in AllTickets
    BY <1>1, <1>8 DEF FitsCall, Admit, Tickets, AllTickets, TypeOK
  <2>2. inside' \subseteq AllTickets
    BY <1>2, <1>8, <2>1 DEF RecordsTyped, Admit
  <2>3. entries' \in [Sales -> Nat]
    BY <1>2, <1>8, <2>1 DEF RecordsTyped, Admit
  <2> QED
    BY <1>2, <1>8, <2>2, <2>3 DEF RecordsTyped, Admit
<1> QED
  BY <1>3, <1>4, <1>5, <1>6, <1>7, <1>8, StepsQuietOrWrite DEF Writes

LEMMA OthersTyped ==
    ASSUME TypeOK, Fits, NEW w \in Workers, StepOf(w)
    PROVE  event' \in Statuses /\ faults' \in 0 .. MaxFaults
<1>1. FitsCall(w)
  BY DEF Fits
<1>2. MaxFaults \in Nat
  BY TicketAssumption DEF TicketAssumption
<1>3. CASE Arrive(w)
  BY <1>3 DEF Arrive, StartBooking, Confirm, ConfirmUnverified, UpdateTicketType,
     ArchiveTicketType, ChangeStatus, View, Scan, Take, TypeOK
<1>4. CASE BookFails(w) \/ GatewayFails(w) \/ Die(w)
  BY <1>2, <1>4 DEF BookFails, GatewayFails, Fails, Die, TypeOK
<1>5. CASE Progress(w)
  <2>1. faults' = faults
    <3>1. CASE ReadType(w) \/ CountHeld(w) \/ OpenOrder(w) \/ CountTickets(w)
                 \/ Reserve(w) \/ Book(w) \/ GiveBack(w) \/ ReleaseSeats(w)
      BY <3>1 DEF ReadType, CountHeld, OpenOrder, CountTickets, Look, Reserve, Book,
         GiveBack, ReleaseSeats, Release
    <3>2. CASE Reload(w) \/ ReadShelf(w) \/ SaveSign(w) \/ TakeStock(w) \/ Heal(w)
                 \/ CancelBooking(w) \/ SaveConfirmed(w) \/ SaveUnverified(w)
      BY <3>2 DEF Reload, ReadShelf, SaveSign, TakeStock, Heal, Look, CancelBooking,
         SaveConfirmed, SaveUnverified
    <3>3. CASE LoadType(w) \/ CountHolders(w) \/ Retire(w) \/ CountSellable(w)
                 \/ SaveStatus(w) \/ SaveType(w) \/ InsertTickets(w) \/ Admit(w)
      BY <3>3 DEF LoadType, CountHolders, Retire, CountSellable, SaveStatus, Look,
         SaveType, InsertTickets, Admit
    <3> QED
      BY <1>5, <3>1, <3>2, <3>3 DEF Progress
  <2>2. event' \in Statuses
    <3>1. CASE ReadType(w) \/ CountHeld(w) \/ OpenOrder(w) \/ CountTickets(w)
                 \/ Reserve(w) \/ Book(w) \/ GiveBack(w) \/ ReleaseSeats(w)
      BY <3>1 DEF ReadType, CountHeld, OpenOrder, CountTickets, Look, Reserve, Book,
         GiveBack, ReleaseSeats, Release, TypeOK
    <3>2. CASE Reload(w) \/ ReadShelf(w) \/ TakeStock(w) \/ Heal(w)
                 \/ CancelBooking(w) \/ SaveConfirmed(w) \/ SaveUnverified(w)
      BY <3>2 DEF Reload, ReadShelf, TakeStock, Heal, Look, CancelBooking,
         SaveConfirmed, SaveUnverified, TypeOK, Statuses
    <3>3. CASE LoadType(w) \/ CountHolders(w) \/ Retire(w) \/ CountSellable(w)
                 \/ SaveType(w) \/ InsertTickets(w) \/ Admit(w)
      BY <3>3 DEF LoadType, CountHolders, Retire, CountSellable, Look,
         SaveType, InsertTickets, Admit, TypeOK
    <3>4. CASE SaveSign(w)
      BY <3>4 DEF SaveSign, TypeOK
    <3>5. CASE SaveStatus(w)
      <4>1. Kind(w) \in Moves
        BY <1>1, <3>5 DEF FitsCall, SaveStatus
      <4>2. \A m \in Moves : ALLOWED_TRANSITIONS[m].to \in Statuses
        BY DEF Moves, ALLOWED_TRANSITIONS, Statuses
      <4> QED
        BY <3>5, <4>1, <4>2 DEF SaveStatus
    <3> QED
      BY <1>5, <3>1, <3>2, <3>3, <3>4, <3>5 DEF Progress
  <2> QED
    BY <2>1, <2>2 DEF TypeOK
<1> QED
  BY <1>3, <1>4, <1>5 DEF StepOf

-----------------------------------------------------------------------------
(* The theorems.                                                           *)

LEMMA InitHolds == Init => IInv
<1> SUFFICES ASSUME Init PROVE IInv
  OBVIOUS
<1>1. TypeOK
  <2>1. NoCall \in [kind : Kinds \cup {"none"}, sale : Sales \cup {NoSale},
                    edit : Edits \cup {NoEdit}, ticket : AllTickets \cup {NoTicket}]
    BY DEF NoCall
  <2>2. Locals
    BY <2>1 DEF Init, Locals, NoCopy, Statuses, Steps
  <2>3. StockTyped /\ RecordsTyped
    BY TicketAssumption DEF TicketAssumption, Init, StockTyped, RecordsTyped, NoBooking
  <2> QED
    BY <2>2, <2>3, TicketAssumption, TypeParts DEF TicketAssumption, Init, Statuses
<1>2. Fits /\ OneSeller
  BY DEF Init, Fits, FitsSale, FitsCall, OneSeller, Selling, Kind, NoCall, SaleSteps
<1>3. SeatsHeld /\ TicketsAreEarned
  BY DEF Init, SeatsHeld, TicketsAreEarned, NoBooking
<1>4. IsFiniteSet({}) /\ Cardinality({}) = 0
  BY FS_EmptySet
<1>5. Conserved
  BY <1>4, TicketAssumption DEF TicketAssumption, Init, Conserved
<1>6. Admitted
  <2>1. \A s \in Sales : {t \in inside : t[1] = s} = {}
    BY DEF Init
  <2> QED
    BY <1>4, <2>1 DEF Init, Admitted, AdmittedOnce
<1> QED
  BY <1>1, <1>2, <1>3, <1>5, <1>6 DEF IInv

LEMMA WorkerStepHolds ==
    ASSUME IInv, NEW w \in Workers, StepOf(w)
    PROVE  IInv'
<1> USE DEF IInv
<1>1. FitsSale(w) /\ Offers(w)
  BY StepsOffer DEF Fits
<1>2. Locals'
  <2>1. CASE Die(w)
    BY <2>1, TypeParts, FinishTyped DEF Die
  <2> QED
    BY <2>1, ArriveTyped, ProgressTyped DEF StepOf
<1>3. captured' \subseteq offered' /\ offered' \subseteq Sales
  BY <1>1 DEF TypeOK, Offers, FitsSale
<1>4. TypeOK'
  <2>1. StockTyped' /\ RecordsTyped' /\ event' \in Statuses /\ faults' \in 0 .. MaxFaults
    BY StockStepsTyped, RecordStepsTyped, OthersTyped
  <2> QED
    BY <1>2, <1>3, <2>1 DEF TypeOK, Locals, StockTyped, RecordsTyped
<1> QED
  BY <1>4, StepsFit, StepsOneSeller, StepsHoldSeats, StepsConserve, StepsEarnTickets,
     StepsAdmitOnce

LEMMA PayHolds ==
    ASSUME IInv, NEW s \in Sales, Pay(s)
    PROVE  IInv'
<1>1. /\ captured' = captured \cup {s}
      /\ s \in offered
      /\ UNCHANGED <<event, total, available, active, archived, bookings, offered, minted,
                     inside, entries, pc, call, copy, faults, out, rewritten>>
  BY DEF Pay, stock, door, locals, history
<1>2. TypeOK'
  BY <1>1 DEF IInv, TypeOK
<1>3. Fits'
  BY <1>1 DEF IInv, Fits, FitsSale, FitsCall, Selling, Kind, Sale, Sold, Seats, Holds,
     Tickets
<1>4. OneSeller' /\ SeatsHeld' /\ Conserved' /\ TicketsAreEarned' /\ Admitted'
  <2>1. OneSeller' /\ SeatsHeld'
    BY <1>1 DEF IInv, OneSeller, Selling, Kind, Sale, SeatsHeld, Holds, Seats
  <2>2. Conserved' /\ TicketsAreEarned'
    BY <1>1 DEF IInv, Conserved, TicketsAreEarned
  <2>3. Admitted'
    BY <1>1 DEF IInv, Admitted, AdmittedOnce, Tickets
  <2> QED
    BY <2>1, <2>2, <2>3
<1> QED
  BY <1>2, <1>3, <1>4 DEF IInv

LEMMA StutterHolds == IInv /\ UNCHANGED vars => IInv'
<1> SUFFICES ASSUME IInv, UNCHANGED vars PROVE IInv'
  OBVIOUS
<1> USE DEF vars, stock, paying, door, locals, history
<1>1. TypeOK'
  BY DEF IInv, TypeOK
<1>2. Fits' /\ OneSeller'
  BY DEF IInv, Fits, FitsSale, FitsCall, OneSeller, Selling, Kind, Sale, Sold, Seats, Holds,
     Tickets
<1>3. SeatsHeld' /\ Conserved' /\ TicketsAreEarned' /\ Admitted'
  BY DEF IInv, SeatsHeld, Conserved, TicketsAreEarned, Admitted, AdmittedOnce, Seats,
     Holds, Tickets
<1> QED
  BY <1>1, <1>2, <1>3 DEF IInv

\* The inductive invariant holds in every state a run of the sales reaches.
THEOREM Invariance == Spec => []IInv
<1>1. IInv /\ [Next]_vars => IInv'
  BY WorkerStepHolds, PayHolds, StutterHolds DEF Next, StepOf
<1> QED
  BY InitHolds, <1>1, PTL DEF Spec

\* Every variable keeps its type; in particular the shelf never goes below
\* empty, whoever races for its last seat.
THEOREM TypeCorrect == Spec => []TypeOK
<1>1. IInv => TypeOK
  BY DEF IInv
<1> QED
  BY <1>1, Invariance, PTL

\* reserve and release: seats are on the shelf or out, as long as no edit of
\* the stock was saved over a sale it had not seen, and whoever was asked to
\* pay or is confirmed has their seats.
THEOREM SeatsNeverLost == Spec => []StockIsConserved
<1>1. IInv => StockIsConserved
  BY DEF IInv, Conserved, SeatsHeld, StockIsConserved
<1> QED
  BY <1>1, Invariance, PTL

\* confirmBooking and mint: tickets only for confirmed bookings, and a booking
\* the customer was asked to pay for is confirmed only once it was paid.
THEOREM TicketsOnlyEarned == Spec => []TicketsAreEarned
<1>1. IInv => TicketsAreEarned
  BY DEF IInv
<1> QED
  BY <1>1, Invariance, PTL

\* checkIn: as many people came in on a booking as its tickets were used, and
\* only tickets that were minted are.
THEOREM OneEntryPerTicket == Spec => []AdmittedOnce
<1>1. IInv => AdmittedOnce
  BY DEF IInv, Admitted
<1> QED
  BY <1>1, Invariance, PTL

=============================================================================
