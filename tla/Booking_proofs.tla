--------------------------- MODULE Booking_proofs ----------------------------
(***************************************************************************)
(* Proofs about Booking, for every set of requests, every set of jobs and  *)
(* every number of crashes.                                                *)
(*                                                                         *)
(* The argument.  A save that moves a booking forward carries the __v it   *)
(* loaded, and every save that changes the status increments __v; so where *)
(* the two agree the copy is not stale (FreshCopies), and a forward move   *)
(* decided on the copy is right for the row.  A save without the __v may   *)
(* land on anything, but only ever writes a closed status.  Hence the      *)
(* statuses that are over are left by no step, and so everything a request *)
(* does after it has ended a booking finds it still over (EndingsAreOver). *)
(***************************************************************************)
EXTENDS Booking, TLAPS

USE DEF Deleted

\* A request that is about to save a status saves one that exists.
ApplyTyped == \A r \in Requests : pc[r] = "apply" => job[r].target \in Statuses

TInv == TypeOK /\ ApplyTyped

AfterEnding == {"release", "claim", "gateway", "record", "putback"}

\* Nothing leads to pending: checkout creates bookings past it.
NoPending ==
    /\ status # "pending"
    /\ \A r \in Requests : seen[r].status # "pending"

FreshCopies ==
    \A r \in Requests :
        /\ seen[r].version <= version
        /\ (pc[r] # "idle" /\ seen[r].version = version /\ status # Deleted)
             => seen[r].status = status

ClosedCopies ==
    \A r \in Requests :
        seen[r].status \in Closed => status \in Closed \cup {Deleted}

\* What Decide has established stays true: nobody else touches the copy.
DecisionsHold ==
    \A r \in Requests :
        /\ pc[r] = "apply" => /\ job[r].target \in Statuses
                              /\ job[r].target \in ALLOWED_TRANSITIONS[seen[r].status]
        /\ pc[r] = "delete" => seen[r].status \in Closed

EndingsAreOver ==
    \A r \in Requests : pc[r] \in AfterEnding => status \in Over

IInv ==
    /\ TInv
    /\ NoPending
    /\ FreshCopies
    /\ ClosedCopies
    /\ DecisionsHold
    /\ EndingsAreOver
    /\ MoneyBackOnlyWhenOver

-----------------------------------------------------------------------------
(* The transition table leads nowhere from a status that is over, and      *)
(* nowhere into pending.                                                   *)
LEMMA TransitionTable ==
    ASSUME NEW s \in Statuses, NEW t \in ALLOWED_TRANSITIONS[s]
    PROVE  /\ s \notin TERMINAL
           /\ t \in Statuses
           /\ t # "pending"
           /\ s # "pending" /\ t \notin Closed => t \notin Awaiting
  BY DEF ALLOWED_TRANSITIONS, Statuses, TERMINAL, Closed, Awaiting

\* The statuses fall into those that are over and those that are live.
LEMMA StatusSets ==
    /\ Closed \subseteq Over
    /\ Closed \subseteq Statuses
    /\ TERMINAL \subseteq Over
    /\ Deleted \in Over
    /\ Deleted \notin Statuses
    /\ Over = TERMINAL \cup {Deleted}
    /\ Statuses \ Closed = STEP_ORDER
    /\ "expired" \in Closed
  BY DEF Closed, Over, TERMINAL, Statuses, STEP_ORDER

LEMMA StatusJobs ==
    ASSUME NEW j \in Jobs \cup {NoJob}, j.kind = "status"
    PROVE  j.target \in Statuses
  BY BookingAssumption DEF BookingAssumption, AllJobs, NoJob

LEMMA TypingStep == TInv /\ [Next]_vars => TInv'
<1> SUFFICES ASSUME TInv, [Next]_vars PROVE TInv'
  OBVIOUS
<1> USE BookingAssumption DEF BookingAssumption, TInv, TypeOK, ApplyTyped,
        PcInFlight, Goto, Snapshots
<1>1. CASE WindowPasses
  BY <1>1 DEF WindowPasses, docVars, effects, faults
<1>2. ASSUME NEW r \in Requests, Load(r) PROVE TInv'
  BY <1>2 DEF Load, docVars, effects, world, faults
<1>3. ASSUME NEW r \in Requests, Decide(r) PROVE TInv'
  <2>1. Moves(r) => job[r].target \in Statuses
    BY StatusJobs DEF Moves
  <2> QED
    BY <1>3, <2>1 DEF Decide, docVars, effects, world, faults
<1>4. ASSUME NEW r \in Requests, SaveLapse(r) PROVE TInv'
  BY <1>4 DEF SaveLapse, Matches, Statuses, effects, world, faults
<1>5. ASSUME NEW r \in Requests, SaveStatus(r) PROVE TInv'
  <2>1. job[r].target \in Statuses
    BY <1>5 DEF SaveStatus
  <2>2. window' \in BOOLEAN
    BY <1>5 DEF SaveStatus
  <2>3. status' \in Statuses \cup {Deleted} /\ version' \in Nat
    BY <1>5, <2>1 DEF SaveStatus
  <2> QED
    BY <1>5, <2>2, <2>3 DEF SaveStatus, effects, world, faults
<1>6. ASSUME NEW r \in Requests, SaveCredit(r) PROVE TInv'
  BY <1>6 DEF SaveCredit, Matches, effects, world, faults
<1>7. ASSUME NEW r \in Requests, SettleCashOrder(r) \/ SaveEdit(r) \/ DeleteRow(r)
      PROVE  TInv'
  BY <1>7 DEF SettleCashOrder, SaveEdit, DeleteRow, docVars, effects, world, faults
<1>8. ASSUME NEW r \in Requests,
             ReleaseCoupon(r) \/ ClaimRefund(r) \/ GatewayRefunds(r) \/ GatewayThrows(r)
      PROVE  TInv'
  BY <1>8 DEF ReleaseCoupon, ClaimRefund, GatewayRefunds, GatewayThrows,
              docVars, effects, world, faults
<1>9. ASSUME NEW r \in Requests,
             RecordRefund(r) \/ RecordThrows(r) \/ PutBack(r) \/ Die(r)
      PROVE  TInv'
  BY <1>9 DEF RecordRefund, RecordThrows, PutBack, Die,
              docVars, effects, world, faults
<1>10. CASE UNCHANGED vars
  BY <1>10 DEF vars, docVars, effects, world, faults
<1> QED
  BY <1>1, <1>2, <1>3, <1>4, <1>5, <1>6, <1>7, <1>8, <1>9, <1>10
     DEF Next, Progress

LEMMA InitTyped == Init => TInv
<1> SUFFICES ASSUME Init PROVE TInv
  OBVIOUS
<1>1. NoSnap \in Snapshots
  BY DEF NoSnap, Snapshots, Statuses
<1>2. window \in BOOLEAN /\ overdue \in BOOLEAN
  BY DEF Init
<1> QED
  BY <1>1, <1>2, BookingAssumption
     DEF BookingAssumption, Init, TInv, TypeOK, ApplyTyped, Statuses

\* Type correctness: the document, the order and every copy of them keep
\* their shape through every handler.
THEOREM TypeCorrect == Spec => []TypeOK
<1>1. TInv => TypeOK
  BY DEF TInv
<1> QED
  BY InitTyped, TypingStep, <1>1, PTL DEF Spec

-----------------------------------------------------------------------------
(* The inductive step, one lemma per save that changes the status and one  *)
(* for everything else.                                                    *)

USE DEF Goto

\* A status that is saved forward was decided on a fresh copy.
LEMMA ForwardIsFresh ==
    ASSUME IInv, NEW r \in Requests, pc[r] = "apply",
           job[r].target \in STEP_ORDER, Matches(r, TRUE)
    PROVE  /\ status = seen[r].status
           /\ job[r].target \in ALLOWED_TRANSITIONS[status]
           /\ status \notin Over
<1>1. status # Deleted /\ version = seen[r].version
  BY DEF Matches
<1>2. status = seen[r].status /\ status \in Statuses
  BY <1>1 DEF IInv, FreshCopies, TInv, TypeOK
<1>3. job[r].target \in ALLOWED_TRANSITIONS[status]
  BY <1>2 DEF IInv, DecisionsHold
<1>4. status \notin TERMINAL
  BY <1>2, <1>3, TransitionTable
<1> QED
  BY <1>1, <1>2, <1>3, <1>4, StatusSets

\* The only thing ever saved over a booking that is over is a closed status.
LEMMA SavedStatus ==
    ASSUME IInv, NEW r \in Requests, SaveStatus(r)
    PROVE  \/ UNCHANGED <<status, version>>
           \/ /\ version' = version + 1
              /\ status' = job[r].target
              /\ status' \in Closed \/ status \notin Over
              /\ status' \in Statuses \ {"pending"}
              /\ status' \in STEP_ORDER => status' \in ALLOWED_TRANSITIONS[status]
              /\ status' \in TERMINAL \/ pc'[r] = "done"
<1>1. /\ pc[r] = "apply"
      /\ job[r].target \in ALLOWED_TRANSITIONS[seen[r].status]
      /\ job[r].target \in Statuses /\ seen[r].status \in Statuses
      /\ pc \in [Requests -> PcInFlight \cup {"idle", "done"}]
  BY DEF SaveStatus, IInv, DecisionsHold, TInv, TypeOK, Snapshots
<1>2. job[r].target # "pending"
  BY <1>1, TransitionTable
<1>3. CASE job[r].target \in Closed
  <2>1. job[r].target \notin STEP_ORDER
    BY <1>3, StatusSets
  <2> QED
    BY <1>1, <1>2, <1>3, <2>1 DEF SaveStatus, TERMINAL
<1>4. CASE job[r].target \in STEP_ORDER /\ Matches(r, TRUE)
  <2>1. Matches(r, job[r].target \in STEP_ORDER)
    BY <1>4 DEF Matches
  <2> QED
    BY <1>1, <1>2, <1>4, <2>1, ForwardIsFresh DEF SaveStatus
<1>5. CASE job[r].target \in STEP_ORDER /\ ~Matches(r, TRUE)
  <2>1. ~Matches(r, job[r].target \in STEP_ORDER)
    BY <1>5 DEF Matches
  <2> QED
    BY <1>1, <2>1 DEF SaveStatus
<1> QED
  BY <1>1, <1>3, <1>4, <1>5, StatusSets

\* What one step may do to the status and the version of the row.
RowStep ==
    /\ version' \in Nat /\ version' >= version
    /\ \/ status' = status
       \/ status' = Deleted /\ status \in Closed \cup {Deleted}
       \/ /\ version' = version + 1
          /\ status' \in Closed \/ status \notin Over
          /\ status' \in Statuses \ {"pending"}
          /\ status' \in STEP_ORDER => status' \in ALLOWED_TRANSITIONS[status]

LEMMA EveryRowStep == IInv /\ [Next]_vars => RowStep
<1> SUFFICES ASSUME IInv, [Next]_vars PROVE RowStep
  OBVIOUS
<1>0. version \in Nat
  BY DEF IInv, TInv, TypeOK
<1> USE <1>0 DEF RowStep
<1>1. ASSUME NEW r \in Requests, SaveLapse(r) PROVE RowStep
  BY <1>1, StatusSets DEF SaveLapse, Matches, Statuses, STEP_ORDER
<1>2. ASSUME NEW r \in Requests, SaveStatus(r) PROVE RowStep
  BY <1>2, SavedStatus
<1>3. ASSUME NEW r \in Requests, SaveCredit(r) \/ SaveEdit(r) PROVE RowStep
  BY <1>3 DEF SaveCredit, SaveEdit, Matches
<1>4. ASSUME NEW r \in Requests, DeleteRow(r) PROVE RowStep
  <2>1. status \in Closed \cup {Deleted}
    BY <1>4 DEF DeleteRow, IInv, DecisionsHold, ClosedCopies
  <2> QED
    BY <1>4, <2>1 DEF DeleteRow
<1>5. CASE UNCHANGED docVars
  BY <1>5 DEF docVars
<1> QED
  BY <1>1, <1>2, <1>3, <1>4, <1>5
     DEF Next, Progress, vars, WindowPasses, Load, Decide, SettleCashOrder,
         ReleaseCoupon, ClaimRefund, GatewayRefunds, GatewayThrows,
         RecordRefund, RecordThrows, PutBack, Die

\* What one step may do to a request: load, or keep what it has loaded.
LocalStep(r) ==
    \/ Load(r)
    \/ /\ seen'[r] = seen[r] /\ job'[r] = job[r]
       /\ pc'[r] = "idle" <=> pc[r] = "idle"

LEMMA EveryLocalStep ==
    ASSUME TInv, [Next]_vars, NEW r \in Requests
    PROVE  LocalStep(r)
<1> USE DEF TInv, TypeOK, LocalStep
<1>1. ASSUME NEW q \in Requests, Load(q) PROVE LocalStep(r)
  BY <1>1 DEF Load
<1>2. ASSUME NEW q \in Requests, Decide(q) PROVE LocalStep(r)
  BY <1>2 DEF Decide
<1>3. ASSUME NEW q \in Requests, SaveLapse(q) \/ SaveStatus(q) PROVE LocalStep(r)
  BY <1>3 DEF SaveLapse, SaveStatus
<1>4. ASSUME NEW q \in Requests, SaveCredit(q) \/ SaveEdit(q) \/ DeleteRow(q)
                                 \/ SettleCashOrder(q)
      PROVE  LocalStep(r)
  BY <1>4 DEF SaveCredit, SaveEdit, DeleteRow, SettleCashOrder
<1>5. ASSUME NEW q \in Requests, ReleaseCoupon(q) \/ ClaimRefund(q)
                                 \/ GatewayRefunds(q) \/ GatewayThrows(q)
      PROVE  LocalStep(r)
  BY <1>5 DEF ReleaseCoupon, ClaimRefund, GatewayRefunds, GatewayThrows
<1>6. ASSUME NEW q \in Requests, RecordRefund(q) \/ RecordThrows(q) \/ PutBack(q) \/ Die(q)
      PROVE  LocalStep(r)
  BY <1>6 DEF RecordRefund, RecordThrows, PutBack, Die, PcInFlight
<1>7. CASE WindowPasses \/ UNCHANGED vars
  BY <1>7 DEF WindowPasses, vars
<1> QED
  BY <1>1, <1>2, <1>3, <1>4, <1>5, <1>6, <1>7 DEF Next, Progress

\* How a request gets to the places the invariant speaks of.
Arrivals(r) ==
    /\ pc'[r] = "apply" => pc[r] = "apply" \/ Moves(r)
    /\ pc'[r] = "delete" => pc[r] = "delete" \/ Removes(r)
    /\ pc'[r] \in AfterEnding => pc[r] \in AfterEnding \/ status' \in TERMINAL

LEMMA EveryArrival ==
    ASSUME IInv, [Next]_vars, NEW r \in Requests
    PROVE  Arrivals(r)
<1> USE DEF Arrivals, AfterEnding
<1>0. pc \in [Requests -> PcInFlight \cup {"idle", "done"}]
  BY DEF IInv, TInv, TypeOK
<1> USE <1>0
<1>1. ASSUME NEW q \in Requests, Load(q) PROVE Arrivals(r)
  BY <1>1 DEF Load
<1>2. ASSUME NEW q \in Requests, Decide(q) PROVE Arrivals(r)
  BY <1>2 DEF Decide
<1>3. ASSUME NEW q \in Requests, SaveLapse(q) PROVE Arrivals(r)
  BY <1>3 DEF SaveLapse, Matches, TERMINAL, Closed
<1>4. ASSUME NEW q \in Requests, SaveStatus(q) PROVE Arrivals(r)
  BY <1>4 DEF SaveStatus, Matches
<1>5. ASSUME NEW q \in Requests, SaveCredit(q) \/ SaveEdit(q) \/ DeleteRow(q)
                                 \/ SettleCashOrder(q)
      PROVE  Arrivals(r)
  BY <1>5 DEF SaveCredit, SaveEdit, DeleteRow, SettleCashOrder
<1>6. ASSUME NEW q \in Requests, ReleaseCoupon(q) \/ ClaimRefund(q)
                                 \/ GatewayRefunds(q) \/ GatewayThrows(q)
      PROVE  Arrivals(r)
  BY <1>6 DEF ReleaseCoupon, ClaimRefund, GatewayRefunds, GatewayThrows
<1>7. ASSUME NEW q \in Requests, RecordRefund(q) \/ RecordThrows(q) \/ PutBack(q) \/ Die(q)
      PROVE  Arrivals(r)
  BY <1>7 DEF RecordRefund, RecordThrows, PutBack, Die
<1>8. CASE WindowPasses \/ UNCHANGED vars
  BY <1>8 DEF WindowPasses, vars
<1> QED
  BY <1>1, <1>2, <1>3, <1>4, <1>5, <1>6, <1>7, <1>8 DEF Next, Progress

\* Only a request that has ended the booking moves the coupon or the refund.
LEMMA OnlyEndingsMoveMoney ==
    ASSUME [Next]_vars
    PROVE  \/ UNCHANGED <<coupon, returned>> /\ (order' = "refunded" => order = "refunded")
           \/ /\ \E r \in Requests : pc[r] \in AfterEnding
              /\ status' = status
<1> USE DEF AfterEnding
<1>1. ASSUME NEW q \in Requests, ReleaseCoupon(q) \/ ClaimRefund(q) \/ GatewayRefunds(q)
      PROVE  /\ \E r \in Requests : pc[r] \in AfterEnding
             /\ status' = status
  BY <1>1 DEF ReleaseCoupon, ClaimRefund, GatewayRefunds, docVars
<1>2. ASSUME NEW q \in Requests, SettleCashOrder(q) \/ PutBack(q)
      PROVE  UNCHANGED <<coupon, returned>> /\ (order' = "refunded" => order = "refunded")
  BY <1>2 DEF SettleCashOrder, PutBack
<1>3. CASE UNCHANGED effects
  BY <1>3 DEF effects
<1> QED
  BY <1>1, <1>2, <1>3
     DEF Next, Progress, vars, WindowPasses, Load, Decide, SaveLapse, SaveStatus,
         SaveCredit, SaveEdit, DeleteRow, GatewayThrows, RecordRefund,
         RecordThrows, Die

LEMMA IInvStep == IInv /\ [Next]_vars => IInv'
<1> SUFFICES ASSUME IInv, [Next]_vars PROVE IInv'
  OBVIOUS
<1>1. TInv'
  BY TypingStep DEF IInv
<1>2. RowStep
  BY EveryRowStep
<1>3. \A r \in Requests : LocalStep(r) /\ Arrivals(r)
  BY EveryLocalStep, EveryArrival DEF IInv
<1>4. \A r \in Requests : Load(r) => /\ seen'[r].status = status
                                     /\ seen'[r].version = version
                                     /\ status \in Statuses
                                     /\ UNCHANGED <<status, version>>
  BY DEF Load, IInv, TInv, TypeOK, docVars
<1>5. NoPending'
  <2>1. status' # "pending"
    BY <1>2 DEF RowStep, IInv, NoPending, Closed, Statuses
  <2> QED
    BY <1>3, <1>4, <2>1 DEF LocalStep, IInv, NoPending
<1>6. FreshCopies'
  <2> SUFFICES ASSUME NEW r \in Requests
               PROVE  /\ seen'[r].version <= version'
                      /\ (pc'[r] # "idle" /\ seen'[r].version = version' /\ status' # Deleted)
                           => seen'[r].status = status'
    BY DEF FreshCopies
  <2>0. version \in Nat /\ seen[r].version \in Nat
    BY DEF IInv, TInv, TypeOK, Snapshots
  <2>1. CASE Load(r)
    BY <1>4, <2>0, <2>1
  <2>2. CASE seen'[r] = seen[r] /\ (pc'[r] = "idle" <=> pc[r] = "idle")
    <3>1. /\ seen[r].version <= version
          /\ (pc[r] # "idle" /\ seen[r].version = version /\ status # Deleted)
               => seen[r].status = status
      BY DEF IInv, FreshCopies
    <3>2. \/ status' = status
          \/ status' = Deleted
          \/ version' = version + 1
      BY <1>2 DEF RowStep
    <3>3. version' \in Nat /\ version' >= version
      BY <1>2 DEF RowStep
    <3> QED
      BY <2>0, <2>2, <3>1, <3>2, <3>3
  <2> QED
    BY <1>3, <2>1, <2>2 DEF LocalStep
<1>7. status \in Closed \cup {Deleted} => status' \in Closed \cup {Deleted}
  BY <1>2, StatusSets DEF RowStep, Over
<1>8. ClosedCopies'
  BY <1>3, <1>4, <1>7 DEF ClosedCopies, LocalStep, IInv
<1>9. DecisionsHold'
  <2> SUFFICES ASSUME NEW r \in Requests
               PROVE  /\ pc'[r] = "apply" =>
                           /\ job'[r].target \in Statuses
                           /\ job'[r].target \in ALLOWED_TRANSITIONS[seen'[r].status]
                      /\ pc'[r] = "delete" => seen'[r].status \in Closed
    BY DEF DecisionsHold
  <2>1. CASE Load(r)
    BY <2>1 DEF Load, IInv, TInv, TypeOK
  <2>2. CASE seen'[r] = seen[r] /\ job'[r] = job[r]
    <3>1. pc'[r] = "apply" => job[r].target \in ALLOWED_TRANSITIONS[seen[r].status]
      BY <1>3 DEF Arrivals, Moves, IInv, DecisionsHold
    <3>2. pc'[r] = "delete" => seen[r].status \in Closed
      BY <1>3 DEF Arrivals, Removes, IInv, DecisionsHold, NoPending
    <3>3. pc'[r] = "apply" => job'[r].target \in Statuses
      BY <1>1 DEF TInv, ApplyTyped
    <3> QED
      BY <2>2, <3>1, <3>2, <3>3
  <2> QED
    BY <1>3, <2>1, <2>2 DEF LocalStep
<1>10. status \in Over => status' \in Over
  BY <1>2, StatusSets DEF RowStep
<1>11. EndingsAreOver'
  BY <1>3, <1>10, StatusSets DEF Arrivals, IInv, EndingsAreOver
<1>12. MoneyBackOnlyWhenOver'
  BY <1>10, OnlyEndingsMoveMoney DEF MoneyBackOnlyWhenOver, IInv, EndingsAreOver
<1> QED
  BY <1>1, <1>5, <1>6, <1>8, <1>9, <1>11, <1>12 DEF IInv

LEMMA InitIInv == Init => IInv
<1> SUFFICES ASSUME Init PROVE IInv
  OBVIOUS
<1>1. \A r \in Requests : pc[r] = "idle" /\ seen[r] = NoSnap
  BY DEF Init
<1>2. NoPending /\ FreshCopies /\ ClosedCopies
  BY <1>1 DEF Init, NoPending, FreshCopies, ClosedCopies, NoSnap, Closed
<1>3. DecisionsHold /\ EndingsAreOver
  BY <1>1 DEF DecisionsHold, EndingsAreOver, AfterEnding
<1>4. MoneyBackOnlyWhenOver
  BY DEF Init, MoneyBackOnlyWhenOver
<1> QED
  BY <1>2, <1>3, <1>4, InitTyped DEF IInv

LEMMA Invariance == Spec => []IInv
  BY InitIInv, IInvStep, PTL DEF Spec

-----------------------------------------------------------------------------
(* The theorems.                                                           *)

\* Whatever races on it, a booking that was cancelled, declined or let lapse
\* is never brought back to life.
THEOREM ClosedForever == Spec => ClosedStaysClosed
<1>1. IInv /\ [Next]_vars =>
        [(status \in Closed) => (status' \in (Closed \cup {Deleted}))]_vars
  BY EveryRowStep, StatusSets DEF RowStep
<1> QED
  BY <1>1, Invariance, PTL DEF Spec, ClosedStaysClosed

\* Every move forward is allowed from the status the row has, although it was
\* decided on a copy.
THEOREM ForwardMovesAllowed == Spec => AdvanceIsLegal
<1>1. IInv /\ [Next]_vars =>
        [(status' # status /\ status' \in STEP_ORDER)
           => status' \in ALLOWED_TRANSITIONS[status]]_vars
  BY EveryRowStep, StatusSets DEF RowStep, STEP_ORDER
<1> QED
  BY <1>1, Invariance, PTL DEF Spec, AdvanceIsLegal

\* Only a closed booking is deleted, although the check was on a copy.
THEOREM DeletedWhenClosed == Spec => OnlyClosedIsDeleted
<1>1. IInv /\ [Next]_vars =>
        [(status # Deleted /\ status' = Deleted) => status \in Closed]_vars
  BY EveryRowStep, StatusSets DEF RowStep
<1> QED
  BY <1>1, Invariance, PTL DEF Spec, OnlyClosedIsDeleted

\* The coupon and the advance come back only for a booking that is, and
\* stays, over.
THEOREM MoneyBackWhenOver == Spec => []MoneyBackOnlyWhenOver
<1>1. IInv => MoneyBackOnlyWhenOver
  BY DEF IInv
<1> QED
  BY <1>1, Invariance, PTL

-----------------------------------------------------------------------------
(* The refund.  A request between its claim and its answer keeps the order *)
(* at refunded, which is what keeps the claim of every other one away.     *)

OneRefunding ==
    /\ \A r \in Refunding : order = "refunded"
    /\ \A q, r \in Refunding : q = r
    /\ CashIsNeverRefunded

\* As long as no write fails, returned says where the one refund stands.
RefundStages ==
    /\ \A r \in Requests : pc[r] \in {"gateway", "putback"} => returned = 0
    /\ order # "refunded" => returned = 0
    /\ returned <= 1

\* The steps that are not part of a refund change neither the order (but for
\* a cash order being settled) nor who is refunding, except by leaving.
Aside ==
    /\ UNCHANGED <<method, returned>>
    /\ order' = order \/ (order = "cash_due" /\ order' = "paid")
    /\ \A r \in Requests : r \in Refunding' => r \in Refunding /\ pc'[r] = pc[r]

RefundStep ==
    \/ Aside
    \/ \E r \in Requests : \/ ClaimRefund(r) \/ GatewayRefunds(r) \/ GatewayThrows(r)
                           \/ RecordThrows(r) \/ PutBack(r)

LEMMA EveryRefundStep == TypeOK /\ [Next]_vars => RefundStep
<1> SUFFICES ASSUME TypeOK, [Next]_vars PROVE RefundStep
  OBVIOUS
<1>0. pc \in [Requests -> PcInFlight \cup {"idle", "done"}]
  BY DEF TypeOK
<1> USE <1>0 DEF RefundStep, Aside, Refunding
<1>1. ASSUME NEW q \in Requests, Load(q) \/ Decide(q) PROVE RefundStep
  BY <1>1 DEF Load, Decide, effects, world
<1>2. ASSUME NEW q \in Requests, SaveLapse(q) \/ SaveStatus(q) PROVE RefundStep
  BY <1>2 DEF SaveLapse, SaveStatus, effects, world
<1>3. ASSUME NEW q \in Requests, SaveCredit(q) \/ SaveEdit(q) \/ DeleteRow(q)
      PROVE  RefundStep
  BY <1>3 DEF SaveCredit, SaveEdit, DeleteRow, effects, world
<1>4. ASSUME NEW q \in Requests, SettleCashOrder(q) \/ ReleaseCoupon(q)
      PROVE  RefundStep
  BY <1>4 DEF SettleCashOrder, ReleaseCoupon, world
<1>5. ASSUME NEW q \in Requests, RecordRefund(q) \/ Die(q) PROVE RefundStep
  BY <1>5 DEF RecordRefund, Die, effects, world
<1>6. CASE WindowPasses \/ UNCHANGED vars
  BY <1>6 DEF WindowPasses, vars, effects, world
<1> QED
  BY <1>1, <1>2, <1>3, <1>4, <1>5, <1>6 DEF Next, Progress

LEMMA OneRefundingStep == TypeOK /\ OneRefunding /\ [Next]_vars => OneRefunding'
<1> SUFFICES ASSUME TypeOK, OneRefunding, [Next]_vars PROVE OneRefunding'
  OBVIOUS
<1>0. pc \in [Requests -> PcInFlight \cup {"idle", "done"}] /\ returned \in Nat
  BY DEF TypeOK
<1> USE <1>0 DEF OneRefunding, Refunding, CashIsNeverRefunded
<1>1. CASE Aside
  BY <1>1 DEF Aside
<1>2. ASSUME NEW r \in Requests, ClaimRefund(r) PROVE OneRefunding'
  BY <1>2 DEF ClaimRefund, Refundable, world
<1>3. ASSUME NEW r \in Requests, GatewayRefunds(r) PROVE OneRefunding'
  BY <1>3 DEF GatewayRefunds, world
<1>4. ASSUME NEW r \in Requests, GatewayThrows(r) \/ RecordThrows(r) PROVE OneRefunding'
  BY <1>4 DEF GatewayThrows, RecordThrows, world, effects
<1>5. ASSUME NEW r \in Requests, PutBack(r) PROVE OneRefunding'
  BY <1>5 DEF PutBack, world
<1> QED
  BY EveryRefundStep, <1>1, <1>2, <1>3, <1>4, <1>5 DEF RefundStep

LEMMA RefundStagesStep ==
    ASSUME MaxWriteErrors = 0
    PROVE  TypeOK /\ OneRefunding /\ RefundStages /\ [Next]_vars => RefundStages'
<1> SUFFICES ASSUME TypeOK, OneRefunding, RefundStages, [Next]_vars
             PROVE  RefundStages'
  OBVIOUS
<1>0. /\ pc \in [Requests -> PcInFlight \cup {"idle", "done"}]
      /\ returned \in Nat
      /\ writeErrors \in Nat
  BY BookingAssumption DEF TypeOK, BookingAssumption
<1> USE <1>0 DEF OneRefunding, RefundStages, Refunding
<1>1. CASE Aside
  BY <1>1 DEF Aside
<1>2. ASSUME NEW r \in Requests, ClaimRefund(r) PROVE RefundStages'
  BY <1>2 DEF ClaimRefund, Refundable
<1>3. ASSUME NEW r \in Requests, GatewayRefunds(r) PROVE RefundStages'
  BY <1>3 DEF GatewayRefunds
<1>4. ASSUME NEW r \in Requests, GatewayThrows(r) PROVE RefundStages'
  BY <1>4 DEF GatewayThrows, effects
<1>5. ASSUME NEW r \in Requests, RecordThrows(r) PROVE RefundStages'
  BY <1>5 DEF RecordThrows
<1>6. ASSUME NEW r \in Requests, PutBack(r) PROVE RefundStages'
  BY <1>6 DEF PutBack
<1> QED
  BY EveryRefundStep, <1>1, <1>2, <1>3, <1>4, <1>5, <1>6 DEF RefundStep

LEMMA InitRefund == Init => OneRefunding /\ RefundStages
  BY DEF Init, OneRefunding, RefundStages, Refunding, CashIsNeverRefunded

\* A cash advance never comes back through the gateway.
THEOREM CashStaysOut == Spec => []CashIsNeverRefunded
<1>1. OneRefunding => CashIsNeverRefunded
  BY DEF OneRefunding
<1> QED
  BY <1>1, TypeCorrect, InitRefund, OneRefundingStep, PTL DEF Spec

\* However many requests end the booking, and whichever of them die, the
\* gateway refunds it at most once, provided its answer can always be stored.
THEOREM RefundedAtMostOnce ==
    ASSUME MaxWriteErrors = 0
    PROVE  Spec => []RefundOnce
<1>1. RefundStages => RefundOnce
  BY DEF RefundStages, RefundOnce
<1>2. TypeOK /\ OneRefunding /\ RefundStages /\ [Next]_vars => RefundStages'
  BY RefundStagesStep
<1> QED
  BY <1>1, <1>2, TypeCorrect, InitRefund, OneRefundingStep, PTL DEF Spec

-----------------------------------------------------------------------------
(* The implementation of BookingPromise.                                   *)

LEMMA PromiseStep ==
    IInv /\ IInv' /\ OneRefunding /\ [Next]_vars
      => [Promise!Next]_<<PhaseOf, AdvanceOf>>
<1> SUFFICES ASSUME IInv, OneRefunding, [Next]_vars
             PROVE  [Promise!Next]_<<PhaseOf, AdvanceOf>>
  OBVIOUS
<1>0. returned \in Nat /\ status \in Statuses \cup {Deleted}
  BY DEF IInv, TInv, TypeOK
<1>1. CASE UNCHANGED <<order, returned>>
  <2>1. UNCHANGED AdvanceOf
    BY <1>1 DEF AdvanceOf
  <2>2. PhaseOf' = PhaseOf \/ Promise!Agree \/ Promise!End
    <3>1. CASE status \in Over
      <4>1. status' \in Over
        BY <3>1, EveryRowStep, StatusSets DEF RowStep
      <4> QED
        BY <3>1, <4>1 DEF PhaseOf
    <3>2. CASE status \notin Over /\ status' \in Over
      BY <3>2, <2>1 DEF PhaseOf, Promise!End
    <3>3. CASE status \notin Over /\ status' \notin Over
      <4>1. status' = status \/ status' \in ALLOWED_TRANSITIONS[status]
        BY <3>3, EveryRowStep, StatusSets DEF RowStep
      <4>2. status \in Statuses /\ status # "pending" /\ status' \notin Closed
        BY <1>0, <3>3, StatusSets DEF IInv, NoPending
      <4>3. status' = status \/ status' \notin Awaiting
        BY <4>1, <4>2, TransitionTable
      <4> QED
        BY <3>3, <4>3, <2>1 DEF PhaseOf, Promise!Agree
    <3> QED
      BY <3>1, <3>2, <3>3
  <2> QED
    BY <2>1, <2>2 DEF Promise!Next
<1>2. ASSUME NEW r \in Requests, SettleCashOrder(r)
      PROVE  UNCHANGED <<PhaseOf, AdvanceOf>>
  BY <1>2 DEF SettleCashOrder, PhaseOf, AdvanceOf, docVars
<1>3. ASSUME NEW r \in Requests, ClaimRefund(r)
      PROVE  UNCHANGED <<PhaseOf, AdvanceOf>> \/ Promise!BeginReturn
  <2>1. status \in Over
    BY <1>3 DEF ClaimRefund, IInv, EndingsAreOver, AfterEnding
  <2> QED
    BY <1>0, <1>3, <2>1
       DEF ClaimRefund, Refundable, docVars, PhaseOf, AdvanceOf, Promise!BeginReturn
<1>4. ASSUME NEW r \in Requests, GatewayRefunds(r) \/ PutBack(r)
      PROVE  UNCHANGED <<PhaseOf, AdvanceOf>> \/ Promise!Answer
  <2>1. order = "refunded"
    BY <1>4 DEF GatewayRefunds, PutBack, OneRefunding, Refunding
  <2> QED
    BY <1>0, <1>4, <2>1
       DEF GatewayRefunds, PutBack, docVars, PhaseOf, AdvanceOf, Promise!Answer
<1> QED
  BY <1>1, <1>2, <1>3, <1>4
     DEF Next, Progress, vars, effects, WindowPasses, Load, Decide, SaveLapse,
         SaveStatus, SaveCredit, SaveEdit, DeleteRow, ReleaseCoupon,
         GatewayThrows, RecordRefund, RecordThrows, Die, Promise!Next

\* The booking of the code, with its racing requests, refused refunds and
\* dying handlers, implements the booking as promised.
THEOREM ImplementsPromise == Spec => KeepsPromise
<1>1. Init => Promise!Init
  BY DEF Init, Promise!Init, PhaseOf, AdvanceOf, Over, TERMINAL, Closed, Awaiting
<1> QED
  BY <1>1, PromiseStep, Invariance, TypeCorrect, InitRefund, OneRefundingStep, PTL
     DEF Spec, KeepsPromise, Promise!Spec, Promise!promiseVars
=============================================================================
