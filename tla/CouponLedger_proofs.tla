------------------------- MODULE CouponLedger_proofs -------------------------
(***************************************************************************)
(* Proofs about CouponLedger, for every set of checkouts, releases and     *)
(* edits, every limit and every number of crashes.                         *)
(*                                                                         *)
(* The argument.  The history variable `slots' names the bookings that     *)
(* hold a slot; the counter is its cardinality (Counted).  A call about to *)
(* give a slot back is the only one for its booking and the booking still  *)
(* holds it (GiveBacks), because the reversal that led there flipped a row *)
(* nobody can flip again; so every decrement takes one booking out of      *)
(* `slots', and every increment puts a new one in (CheckoutStages).        *)
(***************************************************************************)
EXTENDS CouponLedger, FiniteSetTheorems, TLAPS

PcValues == {"idle", "read", "judged", "claimed", "redeemed", "find",
             "reverse", "giveback", "done", "dead"}

Typed ==
    /\ coupon \in Terms
    /\ usedCount \in Nat
    /\ rows \in [Checkouts -> {"none", "redeemed", "reversed"}]
    /\ booked \subseteq Checkouts
    /\ inWindow \in BOOLEAN
    /\ pc \in [Procs \cup Editors -> PcValues]
    /\ target \in [Procs -> Procs]
    /\ copy \in [Checkouts \cup Editors -> [terms : Terms, used : Nat]]
    /\ crashes \in 0 .. MaxCrashes
    /\ slots \subseteq Checkouts
    /\ spent \subseteq Checkouts
    /\ peak \in Nat

Counted == usedCount = Cardinality(slots)

\* What a checkout has done by the time it stands at each step.
CheckoutStages ==
    \A c \in Checkouts :
        /\ target[c] = c
        /\ pc[c] \in {"idle", "read", "judged"} => c \notin slots \cup spent
        /\ pc[c] \in {"idle", "read", "judged", "claimed"} => rows[c] = "none"
        /\ pc[c] = "claimed" => c \in slots
        /\ pc[c] = "redeemed" => rows[c] = "redeemed"
        /\ rows[c] = "redeemed" => c \in slots
        /\ c \in booked => pc[c] = "done"

\* Only bookings that exist are released from outside.
CancelTargets ==
    \A p \in Cancels :
        /\ pc[p] \in {"idle", "find", "reverse", "giveback", "done", "dead"}
        /\ pc[p] \in {"find", "reverse", "giveback"} => target[p] \in booked

GiveBacks ==
    \A p \in Procs :
        pc[p] = "giveback" =>
            /\ target[p] \in slots
            /\ rows[target[p]] # "redeemed"
            /\ \A q \in Procs :
                  pc[q] = "giveback" /\ target[q] = target[p] => q = p

\* The largest limit so far bounds the present one.
PeakIsPeak ==
    peak # 0 => coupon.usageLimit # 0 /\ coupon.usageLimit <= peak

IInv ==
    /\ Typed
    /\ Counted
    /\ CheckoutStages
    /\ CancelTargets
    /\ GiveBacks
    /\ DiscountIsLedgered
    /\ PeakIsPeak
    /\ LimitHolds

-----------------------------------------------------------------------------
(* Typing.                                                                 *)

LEMMA EditsTyped ==
    ASSUME NEW t \in Terms, NEW u \in Terms, NEW e \in Edits, NEW fs
    PROVE  Merge(t, fs, e.terms) \in Terms
<1>1. e.terms \in Terms
  BY CouponAssumption DEF CouponAssumption
<1> QED
  BY <1>1 DEF Merge, Terms

LEMMA PublishedTyped == Published \in Terms
BY CouponAssumption DEF CouponAssumption, Published, Terms

LEMMA InitTyped == Init => Typed
<1> SUFFICES ASSUME Init PROVE Typed
  OBVIOUS
<1> QED
  BY PublishedTyped, CouponAssumption
     DEF Init, Typed, CouponAssumption, NoCopy, PcValues, Procs

LEMMA TypingStep == Typed /\ [Next]_vars => Typed'
<1> SUFFICES ASSUME Typed, [Next]_vars PROVE Typed'
  OBVIOUS
<1>1. ASSUME NEW c \in Checkouts, Redeeming(c) PROVE Typed'
  <2>1. CASE ReadCoupon(c)
    BY <2>1 DEF Typed, ReadCoupon, Goto, document, history, PcValues
  <2>2. CASE Judge(c)
    BY <2>2 DEF Typed, Judge, Goto, document, history, PcValues
  <2>3. CASE Claim(c)
    <3>1. usedCount' \in Nat /\ slots' \subseteq Checkouts
      BY <2>3 DEF Typed, Claim
    <3>2. pc' \in [Procs \cup Editors -> PcValues]
      BY <2>3 DEF Typed, Claim, Goto, PcValues
    <3> QED
      BY <2>3, <3>1, <3>2 DEF Typed, Claim
  <2>4. CASE ClaimRefused(c)
    BY <2>4 DEF Typed, ClaimRefused, Goto, document, history, PcValues
  <2>5. CASE InsertRow(c)
    BY <2>5 DEF Typed, InsertRow, Goto, document, history, PcValues
  <2>6. CASE InsertFails(c)
    BY <2>6 DEF Typed, InsertFails, Goto, document, history, PcValues
  <2>7. CASE WriteBooking(c)
    BY <2>7 DEF Typed, WriteBooking, Goto, document, history, PcValues
  <2>8. CASE BookingFails(c)
    BY <2>8 DEF Typed, BookingFails, Goto, document, history, PcValues
  <2> QED
    BY <1>1, <2>1, <2>2, <2>3, <2>4, <2>5, <2>6, <2>7, <2>8 DEF Redeeming
<1>2. ASSUME NEW p \in Procs, Releasing(p) PROVE Typed'
  <2>1. CASE FindRows(p)
    BY <2>1 DEF Typed, FindRows, Goto, document, history, PcValues
  <2>2. CASE Reverse(p)
    BY <2>2 DEF Typed, Reverse, Goto, document, history, PcValues
  <2>3. CASE GiveBack(p)
    BY <2>3 DEF Typed, GiveBack, Goto, PcValues
  <2> QED
    BY <1>2, <2>1, <2>2, <2>3 DEF Releasing
<1>3. ASSUME NEW p \in Cancels, StartRelease(p) PROVE Typed'
  BY <1>3 DEF Typed, StartRelease, Goto, document, history, PcValues, Procs
<1>4. ASSUME NEW p \in Procs, Die(p) PROVE Typed'
  BY <1>4, CouponAssumption
     DEF CouponAssumption, Typed, Die, Goto, document, history, PcValues
<1>5. ASSUME NEW p \in Editors, Editing(p) PROVE Typed'
  <2>1. CASE ReadCoupon(p)
    BY <2>1 DEF Typed, ReadCoupon, Goto, document, history, PcValues
  <2>2. CASE SaveTerms(p)
    <3>1. coupon' \in Terms
      <4>1. coupon \in Terms
        BY DEF Typed
      <4>2. PICK e \in Edits :
              coupon' = coupon \/
              coupon' = Merge(coupon, Dirty(copy[p].terms, e), e.terms)
        BY <2>2 DEF SaveTerms
      <4> QED
        BY <4>1, <4>2, EditsTyped
    <3>2. coupon'.usageLimit \in Nat
      BY <3>1 DEF Terms
    <3>3. peak' \in Nat
      BY <2>2, <3>2 DEF SaveTerms, Typed, Larger
    <3> QED
      BY <2>2, <3>1, <3>3 DEF Typed, SaveTerms, Goto, PcValues
  <2> QED
    BY <1>5, <2>1, <2>2 DEF Editing
<1>6. CASE WindowCloses
  BY <1>6 DEF Typed, WindowCloses, document, calls, history
<1>7. CASE UNCHANGED vars
  BY <1>7 DEF Typed, vars, document, calls, history
<1> QED
  BY <1>1, <1>2, <1>3, <1>4, <1>5, <1>6, <1>7 DEF Next

-----------------------------------------------------------------------------
(* The invariant is preserved.                                             *)

\* The three kinds of calls are told apart by who makes them.
LEMMA Disjoint ==
    /\ Checkouts \subseteq Procs /\ Cancels \subseteq Procs
    /\ \A p \in Procs : p \notin Editors
    /\ \A p \in Procs : p \in Checkouts \/ p \in Cancels
    /\ \A c \in Checkouts : c \notin Cancels
BY CouponAssumption DEF CouponAssumption, Procs

LEMMA SlotsFinite == Typed => IsFiniteSet(slots) /\ Cardinality(slots) \in Nat
BY CouponAssumption, FS_Subset, FS_CardinalityType DEF Typed, CouponAssumption

LEMMA CountStep == IInv /\ [Next]_vars => Counted'
<1> SUFFICES ASSUME IInv, [Next]_vars PROVE Counted'
  OBVIOUS
<1>0. IsFiniteSet(slots) /\ Cardinality(slots) \in Nat /\ usedCount = Cardinality(slots)
  BY SlotsFinite DEF IInv, Counted
<1>1. ASSUME NEW c \in Checkouts, Claim(c) PROVE Counted'
  <2>1. c \notin slots
    BY <1>1 DEF IInv, CheckoutStages, Claim
  <2>2. Cardinality(slots \cup {c}) = Cardinality(slots) + 1
    BY <1>0, <2>1, FS_AddElement
  <2> QED
    BY <1>0, <1>1, <2>2 DEF Counted, Claim
<1>2. ASSUME NEW p \in Procs, GiveBack(p) PROVE Counted'
  <2>1. target[p] \in slots
    BY <1>2 DEF IInv, GiveBacks, GiveBack
  <2>2. Cardinality(slots \ {target[p]}) = Cardinality(slots) - 1
    BY <1>0, <2>1, FS_RemoveElement
  <2>3. Cardinality(slots) # 0
    BY <1>0, <2>1, FS_EmptySet
  <2> QED
    BY <1>0, <1>2, <2>2, <2>3 DEF Counted, GiveBack
<1>3. CASE UNCHANGED <<usedCount, slots>>
  BY <1>0, <1>3 DEF Counted
<1> QED
  BY <1>1, <1>2, <1>3
     DEF Next, vars, document, history, Redeeming, Releasing, Editing, ReadCoupon,
         Judge, ClaimRefused, InsertRow, InsertFails, WriteBooking, BookingFails,
         FindRows, Reverse, StartRelease, Die, SaveTerms, WindowCloses

LEMMA StagesStep == IInv /\ [Next]_vars => CheckoutStages'
<1> SUFFICES ASSUME IInv, [Next]_vars PROVE CheckoutStages'
  OBVIOUS
<1> USE Disjoint DEF IInv, Typed, Goto, document, history, PcValues, CheckoutStages, CancelTargets, GiveBacks
<1>1. ASSUME NEW c \in Checkouts, Redeeming(c) PROVE CheckoutStages'
  <2>1. CASE ReadCoupon(c)
    BY <2>1 DEF ReadCoupon
  <2>2. CASE Judge(c)
    BY <2>2 DEF Judge
  <2>3. CASE Claim(c)
    BY <2>3 DEF Claim
  <2>4. CASE ClaimRefused(c)
    BY <2>4 DEF ClaimRefused
  <2>5. CASE InsertRow(c)
    BY <2>5 DEF InsertRow
  <2>6. CASE InsertFails(c)
    BY <2>6 DEF InsertFails
  <2>7. CASE WriteBooking(c)
    BY <2>7 DEF WriteBooking
  <2>8. CASE BookingFails(c)
    BY <2>8 DEF BookingFails
  <2> QED
    BY <1>1, <2>1, <2>2, <2>3, <2>4, <2>5, <2>6, <2>7, <2>8 DEF Redeeming
<1>2. ASSUME NEW p \in Procs, Releasing(p) PROVE CheckoutStages'
  <2>1. CASE FindRows(p)
    BY <2>1 DEF FindRows
  <2>2. CASE Reverse(p)
    BY <2>2 DEF Reverse
  <2>3. CASE GiveBack(p)
    BY <2>3 DEF GiveBack
  <2> QED
    BY <1>2, <2>1, <2>2, <2>3 DEF Releasing
<1>3. ASSUME NEW p \in Cancels, StartRelease(p) PROVE CheckoutStages'
  BY <1>3 DEF StartRelease
<1>4. ASSUME NEW p \in Procs, Die(p) PROVE CheckoutStages'
  BY <1>4 DEF Die
<1>5. ASSUME NEW p \in Editors, Editing(p) PROVE CheckoutStages'
  <2>1. CASE ReadCoupon(p)
    BY <2>1 DEF ReadCoupon
  <2>2. CASE SaveTerms(p)
    BY <2>2 DEF SaveTerms
  <2> QED
    BY <1>5, <2>1, <2>2 DEF Editing
<1>6. CASE WindowCloses
  BY <1>6 DEF WindowCloses, calls
<1>7. CASE UNCHANGED vars
  BY <1>7 DEF vars, calls
<1> QED
  BY <1>1, <1>2, <1>3, <1>4, <1>5, <1>6, <1>7 DEF Next

LEMMA TargetsStep == IInv /\ [Next]_vars => CancelTargets'
<1> SUFFICES ASSUME IInv, [Next]_vars PROVE CancelTargets'
  OBVIOUS
<1> USE Disjoint DEF IInv, Typed, Goto, document, history, PcValues, CheckoutStages, CancelTargets
<1>1. ASSUME NEW c \in Checkouts, Redeeming(c) PROVE CancelTargets'
  <2>1. CASE ReadCoupon(c)
    BY <2>1 DEF ReadCoupon
  <2>2. CASE Judge(c)
    BY <2>2 DEF Judge
  <2>3. CASE Claim(c)
    BY <2>3 DEF Claim
  <2>4. CASE ClaimRefused(c)
    BY <2>4 DEF ClaimRefused
  <2>5. CASE InsertRow(c)
    BY <2>5 DEF InsertRow
  <2>6. CASE InsertFails(c)
    BY <2>6 DEF InsertFails
  <2>7. CASE WriteBooking(c)
    BY <2>7 DEF WriteBooking
  <2>8. CASE BookingFails(c)
    BY <2>8 DEF BookingFails
  <2> QED
    BY <1>1, <2>1, <2>2, <2>3, <2>4, <2>5, <2>6, <2>7, <2>8 DEF Redeeming
<1>2. ASSUME NEW p \in Procs, Releasing(p) PROVE CancelTargets'
  <2>1. CASE FindRows(p)
    BY <2>1 DEF FindRows
  <2>2. CASE Reverse(p)
    BY <2>2 DEF Reverse
  <2>3. CASE GiveBack(p)
    BY <2>3 DEF GiveBack
  <2> QED
    BY <1>2, <2>1, <2>2, <2>3 DEF Releasing
<1>3. ASSUME NEW p \in Cancels, StartRelease(p) PROVE CancelTargets'
  BY <1>3 DEF StartRelease
<1>4. ASSUME NEW p \in Procs, Die(p) PROVE CancelTargets'
  BY <1>4 DEF Die
<1>5. ASSUME NEW p \in Editors, Editing(p) PROVE CancelTargets'
  <2>1. CASE ReadCoupon(p)
    BY <2>1 DEF ReadCoupon
  <2>2. CASE SaveTerms(p)
    BY <2>2 DEF SaveTerms
  <2> QED
    BY <1>5, <2>1, <2>2 DEF Editing
<1>6. CASE WindowCloses
  BY <1>6 DEF WindowCloses, calls
<1>7. CASE UNCHANGED vars
  BY <1>7 DEF vars, calls
<1> QED
  BY <1>1, <1>2, <1>3, <1>4, <1>5, <1>6, <1>7 DEF Next

LEMMA GiveBacksStep == IInv /\ [Next]_vars => GiveBacks'
<1> SUFFICES ASSUME IInv, [Next]_vars PROVE GiveBacks'
  OBVIOUS
<1> USE Disjoint DEF IInv, Typed, Goto, document, history, PcValues, CheckoutStages, CancelTargets, GiveBacks
<1>1. ASSUME NEW c \in Checkouts, Redeeming(c) PROVE GiveBacks'
  <2>1. CASE ReadCoupon(c)
    BY <2>1 DEF ReadCoupon
  <2>2. CASE Judge(c)
    BY <2>2 DEF Judge
  <2>3. CASE Claim(c)
    BY <2>3 DEF Claim
  <2>4. CASE ClaimRefused(c)
    BY <2>4 DEF ClaimRefused
  <2>5. CASE InsertRow(c)
    BY <2>5 DEF InsertRow
  <2>6. CASE InsertFails(c)
    BY <2>6 DEF InsertFails
  <2>7. CASE WriteBooking(c)
    BY <2>7 DEF WriteBooking
  <2>8. CASE BookingFails(c)
    BY <2>8 DEF BookingFails
  <2> QED
    BY <1>1, <2>1, <2>2, <2>3, <2>4, <2>5, <2>6, <2>7, <2>8 DEF Redeeming
<1>2. ASSUME NEW p \in Procs, Releasing(p) PROVE GiveBacks'
  <2>1. CASE FindRows(p)
    BY <2>1 DEF FindRows
  <2>2. CASE Reverse(p)
    BY <2>2 DEF Reverse
  <2>3. CASE GiveBack(p)
    BY <2>3 DEF GiveBack
  <2> QED
    BY <1>2, <2>1, <2>2, <2>3 DEF Releasing
<1>3. ASSUME NEW p \in Cancels, StartRelease(p) PROVE GiveBacks'
  BY <1>3 DEF StartRelease
<1>4. ASSUME NEW p \in Procs, Die(p) PROVE GiveBacks'
  BY <1>4 DEF Die
<1>5. ASSUME NEW p \in Editors, Editing(p) PROVE GiveBacks'
  <2>1. CASE ReadCoupon(p)
    BY <2>1 DEF ReadCoupon
  <2>2. CASE SaveTerms(p)
    BY <2>2 DEF SaveTerms
  <2> QED
    BY <1>5, <2>1, <2>2 DEF Editing
<1>6. CASE WindowCloses
  BY <1>6 DEF WindowCloses, calls
<1>7. CASE UNCHANGED vars
  BY <1>7 DEF vars, calls
<1> QED
  BY <1>1, <1>2, <1>3, <1>4, <1>5, <1>6, <1>7 DEF Next

LEMMA LedgerStep == IInv /\ [Next]_vars => DiscountIsLedgered'
<1> SUFFICES ASSUME IInv, [Next]_vars PROVE DiscountIsLedgered'
  OBVIOUS
<1> USE Disjoint DEF IInv, Typed, Goto, document, history, PcValues, CheckoutStages, CancelTargets, GiveBacks, DiscountIsLedgered
<1>1. ASSUME NEW c \in Checkouts, Redeeming(c) PROVE DiscountIsLedgered'
  <2>1. CASE ReadCoupon(c)
    BY <2>1 DEF ReadCoupon
  <2>2. CASE Judge(c)
    BY <2>2 DEF Judge
  <2>3. CASE Claim(c)
    BY <2>3 DEF Claim
  <2>4. CASE ClaimRefused(c)
    BY <2>4 DEF ClaimRefused
  <2>5. CASE InsertRow(c)
    BY <2>5 DEF InsertRow
  <2>6. CASE InsertFails(c)
    BY <2>6 DEF InsertFails
  <2>7. CASE WriteBooking(c)
    BY <2>7 DEF WriteBooking
  <2>8. CASE BookingFails(c)
    BY <2>8 DEF BookingFails
  <2> QED
    BY <1>1, <2>1, <2>2, <2>3, <2>4, <2>5, <2>6, <2>7, <2>8 DEF Redeeming
<1>2. ASSUME NEW p \in Procs, Releasing(p) PROVE DiscountIsLedgered'
  <2>1. CASE FindRows(p)
    BY <2>1 DEF FindRows
  <2>2. CASE Reverse(p)
    BY <2>2 DEF Reverse
  <2>3. CASE GiveBack(p)
    BY <2>3 DEF GiveBack
  <2> QED
    BY <1>2, <2>1, <2>2, <2>3 DEF Releasing
<1>3. ASSUME NEW p \in Cancels, StartRelease(p) PROVE DiscountIsLedgered'
  BY <1>3 DEF StartRelease
<1>4. ASSUME NEW p \in Procs, Die(p) PROVE DiscountIsLedgered'
  BY <1>4 DEF Die
<1>5. ASSUME NEW p \in Editors, Editing(p) PROVE DiscountIsLedgered'
  <2>1. CASE ReadCoupon(p)
    BY <2>1 DEF ReadCoupon
  <2>2. CASE SaveTerms(p)
    BY <2>2 DEF SaveTerms
  <2> QED
    BY <1>5, <2>1, <2>2 DEF Editing
<1>6. CASE WindowCloses
  BY <1>6 DEF WindowCloses, calls
<1>7. CASE UNCHANGED vars
  BY <1>7 DEF vars, calls
<1> QED
  BY <1>1, <1>2, <1>3, <1>4, <1>5, <1>6, <1>7 DEF Next

LEMMA LimitStep == IInv /\ [Next]_vars => PeakIsPeak' /\ LimitHolds'
<1> SUFFICES ASSUME IInv, [Next]_vars PROVE PeakIsPeak' /\ LimitHolds'
  OBVIOUS
<1> USE DEF IInv, Typed, PeakIsPeak, LimitHolds
<1>0. coupon.usageLimit \in Nat
  BY DEF Terms
<1>1. ASSUME NEW c \in Checkouts, Claim(c) PROVE PeakIsPeak' /\ LimitHolds'
  BY <1>0, <1>1 DEF Claim, Claimable, CanClaim
<1>2. ASSUME NEW p \in Procs, GiveBack(p) PROVE PeakIsPeak' /\ LimitHolds'
  BY <1>0, <1>2 DEF GiveBack
<1>3. ASSUME NEW p \in Editors, SaveTerms(p) PROVE PeakIsPeak' /\ LimitHolds'
  <2>1. coupon' \in Terms
    BY TypingStep
  <2>2. coupon'.usageLimit \in Nat
    BY <2>1 DEF Terms
  <2>3. peak' = Larger(peak, coupon'.usageLimit) /\ usedCount' = usedCount
    BY <1>3 DEF SaveTerms
  <2> QED
    BY <2>2, <2>3 DEF Larger
<1>4. CASE UNCHANGED <<coupon, usedCount, peak>>
  BY <1>4
<1> QED
  BY <1>1, <1>2, <1>3, <1>4
     DEF Next, vars, document, history, Redeeming, Releasing, Editing, ReadCoupon,
         Judge, ClaimRefused, InsertRow, InsertFails, WriteBooking, BookingFails,
         FindRows, Reverse, StartRelease, Die, WindowCloses

LEMMA IInvStep == IInv /\ [Next]_vars => IInv'
BY TypingStep, CountStep, StagesStep, TargetsStep, GiveBacksStep, LedgerStep,
   LimitStep DEF IInv

LEMMA InitIInv == Init => IInv
<1> SUFFICES ASSUME Init PROVE IInv
  OBVIOUS
<1>1. Typed
  BY InitTyped
<1>2. Counted
  BY FS_EmptySet DEF Init, Counted
<1>3. CheckoutStages /\ CancelTargets /\ GiveBacks /\ DiscountIsLedgered
  BY Disjoint
     DEF Init, CheckoutStages, CancelTargets, GiveBacks, DiscountIsLedgered
<1>4. PeakIsPeak /\ LimitHolds
  BY CouponAssumption
     DEF CouponAssumption, Init, PeakIsPeak, LimitHolds, Published
<1> QED
  BY <1>1, <1>2, <1>3, <1>4 DEF IInv

LEMMA Invariance == Spec => []IInv
BY InitIInv, IInvStep, PTL DEF Spec

-----------------------------------------------------------------------------
(* The theorems.                                                           *)

\* Every reachable state is well typed; in particular the counter never
\* exceeds the number of checkouts and never goes below zero.
THEOREM TypeCorrect == Spec => []TypeOK
<1>1. IInv => TypeOK
  <2> SUFFICES ASSUME IInv PROVE TypeOK
    OBVIOUS
  <2>1. Cardinality(slots) <= Cardinality(Checkouts)
    BY CouponAssumption, FS_Subset DEF CouponAssumption, IInv, Typed
  <2>2. Cardinality(Checkouts) \in Nat
    BY CouponAssumption, FS_CardinalityType DEF CouponAssumption
  <2>3. usedCount \in 0 .. Cardinality(Checkouts)
    BY <2>1, <2>2 DEF IInv, Typed, Counted
  <2> QED
    BY <2>3 DEF IInv, Typed, TypeOK, PcValues
<1> QED
  BY <1>1, Invariance, PTL

\* usedCount is the number of slots out, and every redemption that stands
\* has one, whatever races, fails or dies.
THEOREM CounterIsRight == Spec => []CounterCoversLedger
<1>1. IInv => CounterCoversLedger
  BY DEF IInv, Counted, CheckoutStages, CounterCoversLedger, Redeemed
<1> QED
  BY <1>1, Invariance, PTL

\* The coupon is never handed out beyond the largest limit it ever had.
THEOREM NeverOversold == Spec => []LimitHolds
<1>1. IInv => LimitHolds
  BY DEF IInv
<1> QED
  BY <1>1, Invariance, PTL

\* A discounted booking has its redemption on record.
THEOREM DiscountsOnRecord == Spec => []DiscountIsLedgered
<1>1. IInv => DiscountIsLedgered
  BY DEF IInv
<1> QED
  BY <1>1, Invariance, PTL

-----------------------------------------------------------------------------
(* Nothing is lost while no call dies.                                     *)

\* Whoever holds a slot without a standing redemption, or a redemption
\* without a booking, has a call under way that will see to it.
InGoodHands(c) ==
    /\ c \in slots =>
          \/ rows[c] = "redeemed"
          \/ pc[c] = "claimed"
          \/ \E p \in Procs : pc[p] = "giveback" /\ target[p] = c
    /\ rows[c] = "redeemed" =>
          c \in booked \/ pc[c] \in {"redeemed", "find", "reverse"}

NothingLost == crashes = 0 => \A c \in Checkouts : InGoodHands(c)

LEMMA NothingLostStep == IInv /\ NothingLost /\ [Next]_vars => NothingLost'
<1> SUFFICES ASSUME IInv, NothingLost, [Next]_vars PROVE NothingLost'
  OBVIOUS
<1> USE Disjoint DEF IInv, Typed, Goto, document, history, PcValues, CheckoutStages, CancelTargets, GiveBacks, NothingLost, InGoodHands
<1>1. ASSUME NEW c \in Checkouts, Redeeming(c) PROVE NothingLost'
  <2>1. CASE ReadCoupon(c)
    BY <2>1 DEF ReadCoupon
  <2>2. CASE Judge(c)
    BY <2>2 DEF Judge
  <2>3. CASE Claim(c)
    BY <2>3 DEF Claim
  <2>4. CASE ClaimRefused(c)
    BY <2>4 DEF ClaimRefused
  <2>5. CASE InsertRow(c)
    BY <2>5 DEF InsertRow
  <2>6. CASE InsertFails(c)
    BY <2>6 DEF InsertFails
  <2>7. CASE WriteBooking(c)
    BY <2>7 DEF WriteBooking
  <2>8. CASE BookingFails(c)
    BY <2>8 DEF BookingFails
  <2> QED
    BY <1>1, <2>1, <2>2, <2>3, <2>4, <2>5, <2>6, <2>7, <2>8 DEF Redeeming
<1>2. ASSUME NEW p \in Procs, Releasing(p) PROVE NothingLost'
  <2>1. CASE FindRows(p)
    BY <2>1 DEF FindRows
  <2>2. CASE Reverse(p)
    BY <2>2 DEF Reverse
  <2>3. CASE GiveBack(p)
    BY <2>3 DEF GiveBack
  <2> QED
    BY <1>2, <2>1, <2>2, <2>3 DEF Releasing
<1>3. ASSUME NEW p \in Cancels, StartRelease(p) PROVE NothingLost'
  BY <1>3 DEF StartRelease
<1>4. ASSUME NEW p \in Procs, Die(p) PROVE NothingLost'
  BY <1>4 DEF Die
<1>5. ASSUME NEW p \in Editors, Editing(p) PROVE NothingLost'
  <2>1. CASE ReadCoupon(p)
    BY <2>1 DEF ReadCoupon
  <2>2. CASE SaveTerms(p)
    BY <2>2 DEF SaveTerms
  <2> QED
    BY <1>5, <2>1, <2>2 DEF Editing
<1>6. CASE WindowCloses
  BY <1>6 DEF WindowCloses, calls
<1>7. CASE UNCHANGED vars
  BY <1>7 DEF vars, calls
<1> QED
  BY <1>1, <1>2, <1>3, <1>4, <1>5, <1>6, <1>7 DEF Next

\* With no call dead and none under way, the counter, the ledger and the
\* bookings agree.
THEOREM AgreementAtRest == Spec => []AgreeAtRest
<1>1. Init => NothingLost
  BY DEF Init, NothingLost, InGoodHands
<1>2. IInv /\ NothingLost => AgreeAtRest
  <2> SUFFICES ASSUME IInv, NothingLost, Resting, crashes = 0 PROVE Settled
    BY DEF AgreeAtRest
  <2>1. \A c \in Checkouts : InGoodHands(c)
    BY DEF NothingLost
  <2>2. slots = Redeemed
    BY <2>1, Disjoint
       DEF IInv, Typed, CheckoutStages, Resting, Redeemed, InGoodHands
  <2>3. Redeemed \subseteq booked
    BY <2>1, Disjoint DEF Resting, Redeemed, InGoodHands
  <2> QED
    BY <2>2, <2>3 DEF IInv, Counted, Settled
<1> QED
  BY <1>1, <1>2, NothingLostStep, Invariance, PTL DEF Spec

-----------------------------------------------------------------------------
(* The implementation of CouponSlots.                                      *)

LEMMA SlotStep ==
    IInv /\ IInv' /\ [Next]_vars
      => [Slots!Next]_<<slots, spent, coupon.usageLimit>>
<1> SUFFICES ASSUME IInv, IInv', [Next]_vars
             PROVE  [Slots!Next]_<<slots, spent, coupon.usageLimit>>
  OBVIOUS
<1>1. ASSUME NEW c \in Checkouts, Claim(c) PROVE Slots!Take(c)
  <2>1. c \notin slots \cup spent
    BY <1>1 DEF IInv, CheckoutStages, Claim
  <2>2. /\ usedCount = Cardinality(slots)
        /\ usedCount \in Nat /\ coupon.usageLimit \in Nat
    BY DEF IInv, Counted, Typed, Terms
  <2>3. CanClaim(coupon.usageLimit, usedCount)
    BY <1>1 DEF Claim, Claimable
  <2>4. Slots!LeavesOne
    BY <2>2, <2>3
       DEF CanClaim, Slots!LeavesOne, Slots!Cardinality, Cardinality
  <2> QED
    BY <1>1, <2>1, <2>4 DEF Claim, Slots!Take
<1>2. ASSUME NEW p \in Procs, GiveBack(p) PROVE Slots!GiveBack(target[p])
  <2>1. target[p] \in slots
    BY <1>2 DEF IInv, GiveBacks, GiveBack
  <2> QED
    BY <1>2, <2>1 DEF GiveBack, Slots!GiveBack
<1>3. ASSUME NEW p \in Procs, GiveBack(p) PROVE target[p] \in Checkouts
  BY <1>3 DEF IInv, Typed, GiveBacks, GiveBack
<1>4. ASSUME NEW p \in Editors, SaveTerms(p) PROVE Slots!SetLimit
  BY <1>4 DEF SaveTerms, IInv, Typed, Terms, Slots!SetLimit
<1>5. CASE UNCHANGED <<coupon, slots, spent>>
  BY <1>5
<1> QED
  BY <1>1, <1>2, <1>3, <1>4, <1>5
     DEF Next, vars, document, history, Redeeming, Releasing, Editing, ReadCoupon,
         Judge, ClaimRefused, InsertRow, InsertFails, WriteBooking, BookingFails,
         FindRows, Reverse, StartRelease, Die, WindowCloses, Slots!Next

\* The coupon's counter, racing calls, failures and edits and all,
\* implements the slot counter.
THEOREM ImplementsSlots == Spec => KeepsPromise
<1>1. Init => Slots!Init
  BY CouponAssumption DEF CouponAssumption, Init, Slots!Init, Published
<1> QED
  BY <1>1, SlotStep, Invariance, PTL DEF Spec, KeepsPromise, Slots!Spec

=============================================================================
