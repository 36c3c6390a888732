-------------------------- MODULE CustomerSide_proofs -------------------------
(***************************************************************************)
(* What a request and its quotations, an invitation, its guest list and    *)
(* its album, the saved addresses, the planning board, the plan wizard,    *)
(* the coupons, Home, the contact desk, a conversation and the organizers  *)
(* a plan is shown promise, for any number of callers and rows.  Each part  *)
(* has an instance of its component's module; MCCustomerSide checks the     *)
(* same properties on small ones.                                          *)
(*                                                                         *)
(* Quotations.  Two handlers that overlap can leave an accepted quotation  *)
(* with an open request, so what is claimed of the rows is claimed where    *)
(* they do not (Alone): then Around says, for every place the one handler   *)
(* can be at, what the rows owe while it is there.  The screens agree      *)
(* without that, from the types alone.                                     *)
(*                                                                         *)
(* The invitation.  A copy that a handler holds never is ahead of the row,  *)
(* and one of the same version has the same requests (CopyIsSound): that   *)
(* is what makes a save of the loaded array overwrite nothing.             *)
(*                                                                         *)
(* The guest list.  A number has one row because every write of a number    *)
(* goes through the index (RowNumbered), and a share is safe in the call    *)
(* that sent it until it is on the row.                                    *)
(*                                                                         *)
(* The album.  A stored item that has no row yet is one upload's own        *)
(* (InsertIsOwn), and nothing takes files from under a row but a removal,   *)
(* which leaves the row marked as leaving until it is gone (FilesStay).     *)
(*                                                                         *)
(* The addresses.  Between the step that takes the mark away and the one    *)
(* that gives it back there is one request, and what it holds says which    *)
(* address will have it (AddressInv).                                       *)
(*                                                                         *)
(* The board.  A post that is saved back from a copy was approved for the   *)
(* label the copy has, or another edit crossed it (PostIsSound).            *)
(*                                                                         *)
(* The plans.  A slug, once given, stays that occasion's whoever is at work *)
(* (SetupInv); and a draft is one because the request that inserts it found *)
(* none, where no other is at work (DraftInv).                              *)
(*                                                                         *)
(* The coupons.  An order that nobody edited the coupon of is for what it   *)
(* would be quoted now (OrderFits), a booking has the numbers of its order  *)
(* and of its ledger row (BookingFits), and a counter is the number of      *)
(* bookings that hold a slot.  The lists are sorts: a sorted list exists    *)
(* (SortExists), and whatever the code's sort does with ties is one.        *)
(*                                                                         *)
(* Home.  A request either was disturbed, or what it has read so far is     *)
(* how the records stand (KnowsNow), whichever list it read first.          *)
(*                                                                         *)
(* The contact desk and the conversation.  What a request at work has read  *)
(* and written is told apart by where it is (Filing, TalkFits), which is    *)
(* enough where no other is at work; a call that fails in a conversation    *)
(* leaves its debt on record (lost), and the next refresh pays it.          *)
(*                                                                         *)
(* The organizers.  The comparison is a total order because ties go by the  *)
(* order found; and a factor that is no smaller can only raise the score    *)
(* (Weighs), so the one behind never was better.                            *)
(***************************************************************************)
EXTENDS Integers, Sequences, FiniteSets, FiniteSetTheorems, SequenceTheorems, WellFoundedInduction, TLAPS

CONSTANTS
    Callers,
    Organizers, Quotes, Prices, BroadcastLimit, MaxBrief, MaxVersion, FullForms,
    Cards, Designs, Targets, Requests, Legacy,
    Ids, Phones, BadPhone, Sends,
    Uploads, Media, Guests, SubEvents, Prints, InvitedTo, InitialSettings, Switches, MaxPerGuest,
    MaxCreated, Ideas, Labels, Slots,
    Keys, Occasions, Plans, Codes,
    Coupons, Owner, Platform, Offers, Edits, Editors, Admins, Quotations, Organizer, Price,
    AdvancePercentage, LastDay, CLAIMABLE_LIMIT, CLAIMABLE_CANDIDATES,
    Events, Homes, MaxMoves,
    Contacts, Replies, PageSize, REPLY_MESSAGE_LIMIT, MaxMessages,
    Directory, Contexts, PerGuest, DefaultFlat

VARIABLES
    request, quote, task,
    invitation, guest, desk, made,
    guests, call, handed,
    settings, media, files, upload, leaving, passed,
    book, chosen, slip, ideas, vision, agreed, crossed,
    menu, plans, told,
    coupon, used, redemptions, order, booking, today,
    event, home, moves,
    contact, inbox, mailed, last,
    thread, conv, profile, lost, seen,
    active, busy, asked, answer

Briefs   == INSTANCE QuoteLifecycle
Versions == INSTANCE InvitationVersions
Invitees == INSTANCE GuestList
Album    == INSTANCE Memories
Book     == INSTANCE Addresses
Board    == INSTANCE PlanningBoard
Wizard   == INSTANCE PlanDesk WITH rows <- menu
Discounts == INSTANCE CouponDesk WITH rows <- redemptions
Feed      == INSTANCE HomeFeed
Support   == INSTANCE SupportDesk WITH row <- contact
Talks     == INSTANCE Conversations
Match     == INSTANCE PlanMatch

-----------------------------------------------------------------------------
(* Facts about finite sets and sorted lists that the parts below use.       *)

\* Every set of numbers that are not negative has a least one.
LEMMA Smallest == ASSUME NEW S \in SUBSET Nat, S # {} PROVE \E m \in S : \A n \in S : m <= n
  <1> DEFINE R == {p \in Nat \X Nat : p[1] < p[2]}
  <1>1. IsWellFoundedOn(R, Nat)
    BY NatLessThanWellFounded DEF OpToRel
  <1>2. PICK m \in S : \A n \in S : ~(<<n, m>> \in R)
    BY <1>1, WFMin
  <1>3. \A n \in S : ~(n < m)
    <2> TAKE n \in S
    <2>1. <<n, m>> \in Nat \X Nat /\ <<n, m>>[1] = n /\ <<n, m>>[2] = m
      OBVIOUS
    <2>2. <<n, m>> \notin R
      BY <1>2
    <2> QED  BY <2>1, <2>2
  <1> QED  BY <1>3

\* A bounded set of numbers has a highest one: its distance to the bound is the least.
LEMMA Largest ==
    ASSUME NEW S \in SUBSET Nat, S # {}, NEW bound \in Nat, \A n \in S : n <= bound
    PROVE  \E m \in S : \A n \in S : m >= n
  <1> DEFINE U == {m \in Nat : \A n \in S : n <= m}
  <1>1. PICK m \in U : \A n \in U : m <= n
    BY Smallest
  <1>2. CASE m \in S
    BY <1>1, <1>2
  <1>3. CASE m \notin S
    <2>1. \A n \in S : n < m
      BY <1>1, <1>3
    <2>2. PICK n \in S : TRUE
      OBVIOUS
    <2>3. m - 1 \in U
      BY <1>1, <2>1, <2>2
    <2> QED  BY <1>1, <2>3
  <1> QED  BY <1>2, <1>3

\* Induction over a finite set: a family that has every set whose smaller subsets it has.
LEMMA SetInduction ==
    ASSUME NEW S, IsFiniteSet(S), NEW P,
           \A s \in SUBSET S : (\A x \in s : s \ {x} \in P) => s \in P
    PROVE  S \in P
  <1> SUFFICES ASSUME S \notin P PROVE FALSE
    OBVIOUS
  <1> DEFINE Bad == {s \in SUBSET S : s \notin P}
             Sizes == {Cardinality(s) : s \in Bad}
  <1>1. \A s \in SUBSET S : IsFiniteSet(s) /\ Cardinality(s) \in Nat
    BY FS_Subset, FS_CardinalityType
  <1>2. Sizes \in SUBSET Nat /\ Sizes # {}
    BY <1>1
  <1>3. PICK m \in Sizes : \A n \in Sizes : m <= n
    BY <1>2, Smallest
  <1>4. PICK s \in Bad : m = Cardinality(s)
    OBVIOUS
  <1>5. PICK x \in s : s \ {x} \notin P
    OBVIOUS
  <1>6. Cardinality(s \ {x}) = Cardinality(s) - 1
    BY <1>1, <1>5, FS_RemoveElement
  <1>7. Cardinality(s \ {x}) \in Sizes
    BY <1>5
  <1>8. Cardinality(s) \in Nat /\ ~(Cardinality(s) <= Cardinality(s) - 1)
    BY <1>1
  <1> HIDE DEF Bad, Sizes
  <1> QED  BY <1>3, <1>4, <1>6, <1>7, <1>8

\* A total order that R is, on S.
Orders(R, S) ==
    /\ \A x, y \in S : <<x, y>> \in R \/ <<y, x>> \in R
    /\ \A x, y, z \in S : <<x, y>> \in R /\ <<y, z>> \in R => <<x, z>> \in R

\* A finite set that is not empty has a last element.
LEMMA LastIs ==
    ASSUME NEW S, IsFiniteSet(S), S # {}, NEW R, Orders(R, S)
    PROVE  \E x \in S : \A y \in S : <<y, x>> \in R
  <1> DEFINE P == {s \in SUBSET S : s = {} \/ \E x \in s : \A y \in s : <<y, x>> \in R}
  <1>1. ASSUME NEW s \in SUBSET S, \A x \in s : s \ {x} \in P PROVE s \in P
    <2>1. CASE s = {}
      BY <2>1
    <2>2. CASE s # {}
      <3>1. PICK x \in s : TRUE
        BY <2>2
      <3>2. s \ {x} \in P
        BY <1>1, <3>1
      <3>3. CASE s \ {x} = {}
        <4>1. \A y \in s : y = x
          BY <3>3
        <4>2. \A y \in s : <<y, x>> \in R
          BY <4>1, <3>1 DEF Orders
        <4> QED  BY <4>2, <3>1
      <3>4. CASE s \ {x} # {}
        <4>1. PICK z \in s \ {x} : \A y \in s \ {x} : <<y, z>> \in R
          BY <3>2, <3>4
        <4>2. x \in S /\ z \in S /\ \A y \in s : y \in S
          BY <3>1, <4>1
        <4>3. CASE <<x, z>> \in R
          <5>1. \A y \in s : <<y, z>> \in R
            BY <4>1, <4>3
          <5> QED  BY <5>1, <4>1
        <4>4. CASE <<z, x>> \in R
          <5>1. <<x, x>> \in R
            BY <4>2 DEF Orders
          <5>2. \A y \in s : <<y, x>> \in R
            BY <4>1, <4>2, <4>4, <5>1 DEF Orders
          <5> QED  BY <5>2, <3>1
        <4> QED  BY <4>2, <4>3, <4>4 DEF Orders
      <3> QED  BY <3>3, <3>4
    <2> QED  BY <2>1, <2>2
  <1>2. S \in P
    <2> HIDE DEF P
    <2> QED  BY <1>1, SetInduction
  <1> QED  BY <1>2

\* s lists S, each element once, in the order R.
Lists(s, S, R) ==
    /\ s \in [1..Cardinality(S) -> S]
    /\ \A i, j \in 1..Cardinality(S) : s[i] = s[j] => i = j
    /\ \A x \in S : \E i \in 1..Cardinality(S) : s[i] = x
    /\ \A i, j \in 1..Cardinality(S) : i < j => <<s[i], s[j]>> \in R

\* A finite set can be listed in any total order: what the code's sorts return exists.
LEMMA SortExists ==
    ASSUME NEW S, IsFiniteSet(S), NEW R, Orders(R, S)
    PROVE  \E s : Lists(s, S, R)
  <1> DEFINE P == {T \in SUBSET S : \E s : Lists(s, T, R)}
  <1>1. ASSUME NEW T \in SUBSET S, \A x \in T : T \ {x} \in P PROVE T \in P
    <2>0. IsFiniteSet(T) /\ Orders(R, T)
      BY FS_Subset DEF Orders
    <2>1. CASE T = {}
      <3>1. Cardinality(T) = 0 /\ 1..0 = {}
        BY <2>1, FS_EmptySet
      <3>2. Lists([i \in {} |-> 0], T, R)
        BY <3>1, <2>1 DEF Lists
      <3> QED  BY <3>2
    <2>2. CASE T # {}
      <3>1. PICK x \in T : \A y \in T : <<y, x>> \in R
        BY <2>0, <2>2, LastIs
      <3>2. PICK s : Lists(s, T \ {x}, R)
        BY <1>1, <3>1
      <3> DEFINE n == Cardinality(T \ {x})
                 t == [i \in 1..(n + 1) |-> IF i = n + 1 THEN x ELSE s[i]]
      <3>3. n \in Nat /\ Cardinality(T) = n + 1
        <4>1. IsFiniteSet(T \ {x}) /\ Cardinality(T \ {x}) = Cardinality(T) - 1
          BY <2>0, <3>1, FS_RemoveElement
        <4>2. Cardinality(T) \in Nat /\ Cardinality(T \ {x}) \in Nat
          BY <4>1, <2>0, FS_CardinalityType
        <4> QED  BY <4>1, <4>2
      <3>4. /\ s \in [1..n -> T \ {x}]
            /\ \A i, j \in 1..n : s[i] = s[j] => i = j
            /\ \A y \in T \ {x} : \E i \in 1..n : s[i] = y
            /\ \A i, j \in 1..n : i < j => <<s[i], s[j]>> \in R
        BY <3>2 DEF Lists
      <3> HIDE DEF n
      <3>5. \A i \in 1..(n + 1) : i = n + 1 \/ i \in 1..n
        BY <3>3
      <3>6. \A i \in 1..n : i \in 1..(n + 1) /\ i # n + 1 /\ t[i] = s[i] /\ s[i] \in T /\ s[i] # x
        BY <3>3, <3>4
      <3>7. n + 1 \in 1..(n + 1) /\ t[n + 1] = x
        BY <3>3
      <3>8. t \in [1..(n + 1) -> T]
        BY <3>5, <3>6, <3>1
      <3> HIDE DEF t
      <3>9. \A i, j \in 1..(n + 1) : t[i] = t[j] => i = j
        BY <3>4, <3>5, <3>6, <3>7
      <3>10. \A y \in T : \E i \in 1..(n + 1) : t[i] = y
        BY <3>4, <3>6, <3>7
      <3>11. \A i, j \in 1..(n + 1) : i < j => <<t[i], t[j]>> \in R
        <4> SUFFICES ASSUME NEW i \in 1..(n + 1), NEW j \in 1..(n + 1), i < j PROVE <<t[i], t[j]>> \in R
          OBVIOUS
        <4>1. i \in 1..n
          BY <3>3
        <4>2. CASE j = n + 1
          BY <4>1, <4>2, <3>1, <3>6, <3>7
        <4>3. CASE j \in 1..n
          BY <4>1, <4>3, <3>4, <3>6
        <4> QED  BY <4>2, <4>3, <3>5
      <3>12. Lists(t, T, R)
        BY <3>3, <3>8, <3>9, <3>10, <3>11 DEF Lists
      <3> QED  BY <3>12
    <2> QED  BY <2>1, <2>2
  <1>2. S \in P
    <2> HIDE DEF P
    <2> QED  BY <1>1, SetInduction
  <1> QED  BY <1>2

-----------------------------------------------------------------------------
(* The request and its quotations (QuoteLifecycle).                         *)

\* A caller that names a quotation names one of them.
Named(t) ==
    t.at \in {"accept", "siblings", "close", "reject", "withdraw", "revise"} => t.q \in Quotes

\* Before the request is made there is nothing.
NothingYet ==
    request.status = "none" => /\ \A q \in Quotes : quote[q].status = "none"
                               /\ \A c \in Callers : task[c].at = "idle"

BookedIn(rows)    == \E q \in Quotes : rows[q].status = "accepted"
ClosedIn(r, rows) == BookedIn(rows) => r.status = "accepted"
PricedIn(r, rows) == \A q \in Quotes : rows[q].status \in Briefs!Live => rows[q].priced = r.brief

\* What the one call under way knows of the rows.
Knows(t, r, rows) ==
    /\ t.at \in {"edit", "supersede", "saveOpen", "saveBrief", "cancel", "decline", "quoted"}
         => ~BookedIn(rows)
    /\ t.at \in {"saveOpen", "saveBrief"} => \A q \in Quotes : rows[q].status \notin Briefs!Live
    /\ t.at = "respond" => t.status = r.status /\ t.brief = r.brief
    /\ t.at = "revise" => /\ t.status = rows[t.q].status /\ t.status \notin {"accepted", "none"}
                          /\ t.brief = r.brief

\* ... and what holds of the rows around it.
Around(t, r, rows) ==
    /\ Knows(t, r, rows)
    /\ t.at \notin {"siblings", "close"} => ClosedIn(r, rows)
    /\ FullForms => PricedIn(r, rows)

\* The inductive invariant of a request and its quotations.
QuoteInv ==
    /\ Briefs!TypeOK
    /\ \A c \in Callers : Named(task[c])
    /\ NothingYet
    /\ Briefs!Alone => /\ \A c \in Callers : Around(task[c], request, quote)
                       /\ Callers = {} => ClosedIn(request, quote) /\ PricedIn(request, quote)

\* No request and no quotation satisfy the invariant.
LEMMA QuoteInit == ASSUME Briefs!QuoteAssumption, Briefs!Init PROVE QuoteInv
  <1>1. Briefs!NoRow \in Briefs!QuoteRows /\ Briefs!NoRow.status = "none"
    BY DEF Briefs!NoRow, Briefs!QuoteRows
  <1>2. Briefs!Idle \in Briefs!Tasks /\ Briefs!Idle.at = "idle"
    BY DEF Briefs!Idle, Briefs!Tasks
  <1>3. Briefs!NoRequest \in Briefs!RequestRows
    BY DEF Briefs!NoRequest, Briefs!RequestRows
  <1>4. Briefs!TypeOK
    BY <1>1, <1>2, <1>3 DEF Briefs!Init, Briefs!TypeOK
  <1>5. /\ \A q \in Quotes : quote[q].status = "none"
        /\ \A c \in Callers : task[c].at = "idle"
    BY <1>1, <1>2 DEF Briefs!Init
  <1> QED  BY <1>4, <1>5 DEF QuoteInv, Named, NothingYet, Around, Knows, ClosedIn, BookedIn, PricedIn,
           Briefs!Live

\* One caller moves, on whatever rows it leaves.
LEMMA TaskMoves ==
    ASSUME QuoteInv, NEW c \in Callers, NEW t \in Briefs!Tasks, task' = [task EXCEPT ![c] = t],
           Named(t), NEW r \in Briefs!RequestRows, NEW rows \in [Quotes -> Briefs!QuoteRows],
           request' = r, quote' = rows, r.status # "none",
           Briefs!Alone => Around(t, r, rows)
    PROVE  QuoteInv'
  <1>1. Briefs!TypeOK'
    BY DEF QuoteInv, Briefs!TypeOK
  <1>2. (\A d \in Callers : Named(task[d]))'
    BY DEF QuoteInv, Briefs!TypeOK, Named
  <1>3. NothingYet'
    BY DEF NothingYet
  <1>4. (Briefs!Alone => \A d \in Callers : Around(task[d], request, quote))'
    <2> SUFFICES ASSUME Briefs!Alone, NEW d \in Callers PROVE Around(task[d], request, quote)'
      BY DEF Briefs!Alone
    <2>1. task'[d] = t
      BY DEF QuoteInv, Briefs!TypeOK, Briefs!Alone
    <2> QED  BY <2>1 DEF Around, Knows, ClosedIn, BookedIn, PricedIn
  <1> QED  BY <1>1, <1>2, <1>3, <1>4 DEF QuoteInv

\* What the invariant says of one caller.
LEMMA TasksAreTyped ==
    ASSUME QuoteInv, NEW c \in Callers
    PROVE  /\ task[c] \in Briefs!Tasks /\ Named(task[c])
           /\ request \in Briefs!RequestRows /\ quote \in [Quotes -> Briefs!QuoteRows]
           /\ task[c].at # "idle" => request.status # "none"
           /\ Briefs!Alone => Around(task[c], request, quote)
  BY DEF QuoteInv, Briefs!TypeOK, NothingYet

\* A caller at rest names nothing.
LEMMA IdleIsTyped == Briefs!Idle \in Briefs!Tasks /\ Briefs!Idle.at = "idle" /\ Named(Briefs!Idle)
  BY DEF Briefs!Idle, Briefs!Tasks, Named

\* A caller that goes on, or ends.
LEMMA GotoMoves ==
    ASSUME QuoteInv, NEW c \in Callers,
           NEW l \in {"siblings", "close", "supersede", "saveOpen", "saveBrief", "decline",
                      "quoted", "ask"},
           Briefs!Goto(c, l), l \in {"siblings", "close"} => task[c].q \in Quotes,
           NEW r \in Briefs!RequestRows, NEW rows \in [Quotes -> Briefs!QuoteRows],
           request' = r, quote' = rows, r.status # "none",
           Briefs!Alone => \A t \in Briefs!Tasks : t.at = l => Around(t, r, rows)
    PROVE  QuoteInv'
  <1> DEFINE t == [task[c] EXCEPT !.at = l]
  <1>1. task[c] \in Briefs!Tasks
    BY TasksAreTyped
  <1>2. t \in Briefs!Tasks /\ t.at = l /\ t.q = task[c].q
    BY <1>1 DEF Briefs!Tasks
  <1>3. task' = [task EXCEPT ![c] = t]
    BY DEF Briefs!Goto
  <1>4. Named(t)
    BY <1>2 DEF Named
  <1> HIDE DEF t
  <1> QED  BY <1>2, <1>3, <1>4, TaskMoves

\* A caller that ends.
LEMMA FinishMoves ==
    ASSUME QuoteInv, NEW c \in Callers, Briefs!Finish(c),
           NEW r \in Briefs!RequestRows, NEW rows \in [Quotes -> Briefs!QuoteRows],
           request' = r, quote' = rows, r.status # "none",
           Briefs!Alone => ClosedIn(r, rows) /\ (FullForms => PricedIn(r, rows))
    PROVE  QuoteInv'
  <1>1. Around(Briefs!Idle, r, rows) <=> ClosedIn(r, rows) /\ (FullForms => PricedIn(r, rows))
    BY IdleIsTyped DEF Around, Knows
  <1> QED  BY <1>1, IdleIsTyped, TaskMoves DEF Briefs!Finish

\* What a row looks like once its status is written.
LEMMA SetIs ==
    ASSUME NEW rows \in [Quotes -> Briefs!QuoteRows], NEW q \in Quotes, NEW s \in Briefs!QuoteStatuses
    PROVE  LET new == [rows EXCEPT ![q].status = s]
           IN  /\ new \in [Quotes -> Briefs!QuoteRows]
               /\ \A p \in Quotes : /\ new[p].status = IF p = q THEN s ELSE rows[p].status
                                    /\ new[p].priced = rows[p].priced
                                    /\ new[p].price = rows[p].price /\ new[p].v = rows[p].v
  BY DEF Briefs!QuoteRows

\* What the rows look like once updateMany wrote one status over the live ones.
LEMMA AllLiveIs ==
    ASSUME QuoteInv, NEW s \in Briefs!QuoteStatuses
    PROVE  /\ Briefs!AllLive(s) \in [Quotes -> Briefs!QuoteRows]
           /\ \A p \in Quotes :
                /\ Briefs!AllLive(s)[p].status = IF quote[p].status \in Briefs!Live THEN s
                                                 ELSE quote[p].status
                /\ Briefs!AllLive(s)[p].priced = quote[p].priced
                /\ Briefs!AllLive(s)[p].price = quote[p].price /\ Briefs!AllLive(s)[p].v = quote[p].v
  <1>1. \A p \in Quotes : p \in Briefs!LiveQuotes <=> quote[p].status \in Briefs!Live
    BY DEF Briefs!LiveQuotes, Briefs!Status
  <1>2. \A p \in Quotes : quote[p] \in Briefs!QuoteRows
    BY DEF QuoteInv, Briefs!TypeOK
  <1>3. \A row \in Briefs!QuoteRows : /\ [row EXCEPT !.status = s] \in Briefs!QuoteRows
                                      /\ [row EXCEPT !.status = s].status = s
                                      /\ [row EXCEPT !.status = s].priced = row.priced
                                      /\ [row EXCEPT !.status = s].price = row.price
    BY DEF Briefs!QuoteRows
  <1> QED  BY <1>1, <1>2, <1>3 DEF Briefs!AllLive

\* Asking for quotations makes the request or names more organizers.
LEMMA AskKeeps ==
    ASSUME QuoteInv, NEW target \in Organizers \cup {Briefs!NoOne}, NEW R \in SUBSET Organizers,
           Briefs!Ask(target, R)
    PROVE  QuoteInv'
  <1>1. /\ \A q \in Quotes : quote[q].status = "none"
        /\ \A c \in Callers : task[c].at = "idle"
        /\ quote' = quote /\ task' = task
    BY DEF Briefs!Ask, Briefs!Created, QuoteInv, NothingYet
  <1>2. request' \in Briefs!RequestRows /\ request'.status = "open"
    BY DEF Briefs!Ask, Briefs!RequestRows, Briefs!RequestStatuses
  <1>3. Briefs!TypeOK'
    BY <1>1, <1>2 DEF QuoteInv, Briefs!TypeOK
  <1> QED  BY <1>1, <1>2, <1>3 DEF QuoteInv, Named, NothingYet, Around, Knows, ClosedIn, BookedIn,
           PricedIn, Briefs!Live

\* A handler that passed its checks is on its way.
LEMMA BeginKeeps ==
    ASSUME QuoteInv, NEW c \in Callers, NEW q \in Quotes \cup {Briefs!NoQuote},
           NEW l \in {"accept", "reject", "withdraw", "edit", "cancel", "respond", "revise"},
           Briefs!Begin(c, q, l), request.status # "none",
           l \in {"accept", "reject", "withdraw", "revise"} => q \in Quotes /\ q # Briefs!NoQuote,
           l \in {"edit", "cancel"} => request.status # "accepted" /\ q = Briefs!NoQuote,
           l = "respond" => q = Briefs!NoQuote,
           l = "revise" => quote[q].status \notin {"none", "accepted"}
    PROVE  QuoteInv'
  <1> DEFINE t == [at |-> l, q |-> q, status |-> IF q = Briefs!NoQuote
                  THEN request.status ELSE quote[q].status, brief |-> request.brief,
                  v |-> IF q = Briefs!NoQuote THEN 0 ELSE quote[q].v]
  <1>0. request \in Briefs!RequestRows /\ quote \in [Quotes -> Briefs!QuoteRows]
    BY TasksAreTyped
  <1>1. t \in Briefs!Tasks
    <2>1. request.status \in Briefs!RequestStatuses \cup {"none"} /\ request.brief \in Nat
      BY <1>0 DEF Briefs!RequestRows
    <2>2. q # Briefs!NoQuote => quote[q].status \in Briefs!QuoteStatuses \cup {"none"} /\ quote[q].v \in Nat
      BY <1>0 DEF Briefs!QuoteRows
    <2> QED  BY <2>1, <2>2 DEF Briefs!Tasks
  <1>2. task' = [task EXCEPT ![c] = t] /\ request' = request /\ quote' = quote
    BY DEF Briefs!Begin, Briefs!Status
  <1>3. Named(t)
    BY DEF Named
  <1>4. Briefs!Alone => Around(t, request, quote)
    <2> SUFFICES ASSUME Briefs!Alone PROVE Around(t, request, quote)
      OBVIOUS
    <2>1. ClosedIn(request, quote) /\ (FullForms => PricedIn(request, quote))
      BY TasksAreTyped DEF Around, Briefs!Begin, Briefs!At
    <2>2. Knows(t, request, quote)
      BY <2>1 DEF Knows, ClosedIn
    <2> QED  BY <2>1, <2>2 DEF Around
  <1> HIDE DEF t
  <1> QED  BY <1>0, <1>1, <1>2, <1>3, <1>4, TaskMoves

\* Every handler begins with what its checks read.
LEMMA ArriveKeeps ==
    ASSUME QuoteInv, Briefs!QuoteAssumption, NEW c \in Callers, Briefs!Arrive(c)
    PROVE  QuoteInv'
  <1>1. \A q \in Quotes : q # Briefs!NoQuote
    BY DEF Briefs!QuoteAssumption
  <1>2. \A q \in Quotes : quote[q].status # "none" => request.status # "none"
    BY DEF QuoteInv, NothingYet
  <1>3. CASE Briefs!UpdateRequest(c)
    BY <1>3, BeginKeeps DEF Briefs!UpdateRequest
  <1>4. CASE Briefs!CancelRequest(c)
    BY <1>4, BeginKeeps DEF Briefs!CancelRequest, Briefs!Created
  <1>5. CASE Briefs!Respond(c)
    BY <1>5, BeginKeeps DEF Briefs!Respond, Briefs!Created
  <1>6. ASSUME NEW q \in Quotes, Briefs!Accept(c, q) PROVE QuoteInv'
    BY <1>1, <1>2, <1>6, BeginKeeps DEF Briefs!Accept, Briefs!Received, Briefs!Status
  <1>7. ASSUME NEW q \in Quotes, Briefs!Reject(c, q) PROVE QuoteInv'
    BY <1>1, <1>2, <1>7, BeginKeeps DEF Briefs!Reject, Briefs!Received, Briefs!Status
  <1>8. ASSUME NEW q \in Quotes, Briefs!UpdateQuotation(c, q) PROVE QuoteInv'
    BY <1>1, <1>2, <1>8, BeginKeeps DEF Briefs!UpdateQuotation, Briefs!Status
  <1>9. ASSUME NEW q \in Quotes, Briefs!WithdrawQuotation(c, q) PROVE QuoteInv'
    BY <1>1, <1>2, <1>9, BeginKeeps DEF Briefs!WithdrawQuotation, Briefs!Status
  <1> QED  BY <1>3, <1>4, <1>5, <1>6, <1>7, <1>8, <1>9 DEF Briefs!Arrive

\* Accepting saves the quotation, rejects its siblings, then closes the request.
LEMMA AcceptsKeep ==
    ASSUME QuoteInv, NEW c \in Callers,
           Briefs!SaveAccepted(c) \/ Briefs!RejectSiblings(c) \/ Briefs!CloseRequest(c)
    PROVE  QuoteInv'
  <1> DEFINE q == task[c].q
  <1>1. /\ task[c] \in Briefs!Tasks /\ q \in Quotes /\ request.status # "none"
        /\ request \in Briefs!RequestRows /\ quote \in [Quotes -> Briefs!QuoteRows]
    BY TasksAreTyped DEF Briefs!SaveAccepted, Briefs!RejectSiblings, Briefs!CloseRequest, Briefs!At, Named
  <1> HIDE DEF q
  <1>2. CASE Briefs!SaveAccepted(c)
    <2> DEFINE rows == IF task[c].status = "accepted" THEN quote
                       ELSE [quote EXCEPT ![q].status = "accepted"]
    <2>1. "accepted" \in Briefs!QuoteStatuses /\ "accepted" \notin Briefs!Live
      BY DEF Briefs!QuoteStatuses, Briefs!Live
    <2>2. rows \in [Quotes -> Briefs!QuoteRows]
            /\ \A p \in Quotes : rows[p].priced = quote[p].priced
                                  /\ rows[p].status \in {quote[p].status, "accepted"}
      BY <1>1, <2>1, SetIs
    <2>3. quote' = rows /\ request' = request /\ Briefs!Goto(c, "siblings")
      BY <1>2 DEF Briefs!SaveAccepted, Briefs!Set, q
    <2>4. Briefs!Alone => \A t \in Briefs!Tasks : t.at = "siblings" => Around(t, request, rows)
      <3> SUFFICES ASSUME Briefs!Alone, NEW t \in Briefs!Tasks, t.at = "siblings", FullForms
                   PROVE  PricedIn(request, rows)
        BY DEF Around, Knows
      <3> QED  BY <2>1, <2>2, TasksAreTyped DEF Around, PricedIn
    <2> HIDE DEF rows
    <2> QED  BY <1>1, <2>2, <2>3, <2>4, GotoMoves DEF q
  <1>3. CASE Briefs!RejectSiblings(c)
    <2> DEFINE rows == [Briefs!AllLive("rejected") EXCEPT ![q] = quote[q]]
    <2>1. "rejected" \in Briefs!QuoteStatuses /\ "rejected" \notin Briefs!Live
      BY DEF Briefs!QuoteStatuses, Briefs!Live
    <2>2. rows \in [Quotes -> Briefs!QuoteRows]
            /\ \A p \in Quotes : rows[p].priced = quote[p].priced
                                  /\ rows[p].status \in {quote[p].status, "rejected"}
      BY <1>1, <2>1, AllLiveIs
    <2>3. quote' = rows /\ request' = request /\ Briefs!Goto(c, "close")
      BY <1>3 DEF Briefs!RejectSiblings, q
    <2>4. Briefs!Alone => \A t \in Briefs!Tasks : t.at = "close" => Around(t, request, rows)
      <3> SUFFICES ASSUME Briefs!Alone, NEW t \in Briefs!Tasks, t.at = "close", FullForms
                   PROVE  PricedIn(request, rows)
        BY DEF Around, Knows
      <3> QED  BY <2>1, <2>2, TasksAreTyped DEF Around, PricedIn
    <2> HIDE DEF rows
    <2> QED  BY <1>1, <2>2, <2>3, <2>4, GotoMoves DEF q
  <1>4. CASE Briefs!CloseRequest(c)
    <2> DEFINE r == [request EXCEPT !.status = "accepted"]
    <2>1. r \in Briefs!RequestRows /\ r.status = "accepted" /\ r.brief = request.brief
      BY <1>1 DEF Briefs!RequestRows, Briefs!RequestStatuses
    <2>2. quote' = quote /\ request' = r /\ Briefs!Finish(c)
      BY <1>4 DEF Briefs!CloseRequest
    <2> HIDE DEF r
    <2>3. Briefs!Alone => ClosedIn(r, quote) /\ (FullForms => PricedIn(r, quote))
      BY <2>1, TasksAreTyped DEF Around, ClosedIn, PricedIn
    <2> QED  BY <1>1, <2>1, <2>2, <2>3, FinishMoves
  <1> QED  BY <1>2, <1>3, <1>4

\* Rejecting and withdrawing save one quotation.
LEMMA RefusalsKeep ==
    ASSUME QuoteInv, NEW c \in Callers, Briefs!SaveRejected(c) \/ Briefs!SaveWithdrawn(c)
    PROVE  QuoteInv'
  <1> DEFINE q == task[c].q
  <1>1. /\ q \in Quotes /\ request.status # "none"
        /\ request \in Briefs!RequestRows /\ quote \in [Quotes -> Briefs!QuoteRows]
    BY TasksAreTyped DEF Briefs!SaveRejected, Briefs!SaveWithdrawn, Briefs!At, Named
  <1>2. ASSUME NEW s \in {"rejected", "withdrawn"}, quote' \in {quote, Briefs!Set(q, s)},
               request' = request, Briefs!Finish(c), task[c].at \in {"reject", "withdraw"}
        PROVE  QuoteInv'
    <2> HIDE DEF q
    <2>1. s \in Briefs!QuoteStatuses /\ s \notin Briefs!Live /\ s # "accepted"
      BY DEF Briefs!QuoteStatuses, Briefs!Live
    <2> DEFINE rows == quote'
    <2>2. rows \in [Quotes -> Briefs!QuoteRows]
            /\ \A p \in Quotes : rows[p].priced = quote[p].priced
                                  /\ rows[p].status \in {quote[p].status, s}
      <3>1. CASE quote' = quote
        BY <1>1, <3>1
      <3>2. CASE quote' = [quote EXCEPT ![q].status = s]
        BY <1>1, <2>1, <3>2, SetIs
      <3> QED  BY <1>2, <3>1, <3>2 DEF Briefs!Set
    <2>3. Briefs!Alone => ClosedIn(request, rows) /\ (FullForms => PricedIn(request, rows))
      BY <1>2, <2>1, <2>2, TasksAreTyped DEF Around, ClosedIn, BookedIn, PricedIn
    <2> QED  BY <1>1, <1>2, <2>2, <2>3, FinishMoves
  <1> QED  BY <1>2 DEF Briefs!SaveRejected, Briefs!SaveWithdrawn, Briefs!At

\* Editing the request supersedes what priced the old brief before the brief is saved.
LEMMA EditsKeep ==
    ASSUME QuoteInv, NEW c \in Callers, Briefs!FindLive(c) \/ Briefs!Supersede(c) \/ Briefs!SaveBrief(c)
    PROVE  QuoteInv'
  <1>1. /\ task[c] \in Briefs!Tasks /\ request.status # "none"
        /\ request \in Briefs!RequestRows /\ quote \in [Quotes -> Briefs!QuoteRows]
        /\ Briefs!Alone => /\ ~BookedIn(quote)
                           /\ Knows(task[c], request, quote)
                           /\ FullForms => PricedIn(request, quote)
    BY TasksAreTyped DEF Briefs!FindLive, Briefs!Supersede, Briefs!SaveBrief, Briefs!At, Around, Knows
  <1>2. CASE Briefs!FindLive(c)
    <2>1. quote' = quote /\ request' = request
      BY <1>2 DEF Briefs!FindLive
    <2>2. Briefs!LiveQuotes = {} <=> \A q \in Quotes : quote[q].status \notin Briefs!Live
      BY DEF Briefs!LiveQuotes, Briefs!Status
    <2>3. \A t \in Briefs!Tasks : t.at = "supersede" /\ Briefs!Alone => Around(t, request, quote)
      BY <1>1 DEF Around, Knows, ClosedIn
    <2>4. \A t \in Briefs!Tasks : t.at = "saveBrief" /\ Briefs!Alone /\ Briefs!LiveQuotes = {}
                                    => Around(t, request, quote)
      BY <1>1, <2>2 DEF Around, Knows, ClosedIn
    <2>5. CASE Briefs!LiveQuotes = {}
      BY <1>1, <1>2, <2>1, <2>4, <2>5, GotoMoves DEF Briefs!FindLive
    <2>6. CASE Briefs!LiveQuotes # {}
      BY <1>1, <1>2, <2>1, <2>3, <2>6, GotoMoves DEF Briefs!FindLive
    <2> QED  BY <2>5, <2>6
  <1>3. CASE Briefs!Supersede(c)
    <2> DEFINE rows == Briefs!AllLive("superseded")
    <2>1. "superseded" \in Briefs!QuoteStatuses /\ "superseded" \notin Briefs!Live
      BY DEF Briefs!QuoteStatuses, Briefs!Live
    <2>2. rows \in [Quotes -> Briefs!QuoteRows]
            /\ \A p \in Quotes : rows[p].status = IF quote[p].status \in Briefs!Live
                                                   THEN "superseded" ELSE quote[p].status
      BY <2>1, AllLiveIs
    <2>3. quote' = rows /\ request' = request /\ Briefs!Goto(c, "saveOpen")
      BY <1>3 DEF Briefs!Supersede
    <2> HIDE DEF rows
    <2>4. /\ \A p \in Quotes : rows[p].status \notin Briefs!Live
          /\ ~BookedIn(quote) => ~BookedIn(rows)
      BY <2>1, <2>2 DEF BookedIn
    <2>5. Briefs!Alone => \A t \in Briefs!Tasks : t.at = "saveOpen" => Around(t, request, rows)
      BY <1>1, <2>4 DEF Around, Knows, ClosedIn, PricedIn
    <2> QED  BY <1>1, <2>2, <2>3, <2>5, GotoMoves
  <1>4. CASE Briefs!SaveBrief(c)
    <2> DEFINE s == IF Briefs!At(c, "saveOpen") /\ task[c].status # "open" THEN "open"
                    ELSE request.status
               r == [request EXCEPT !.brief = request.brief + 1, !.status = s]
    <2>1. s \in Briefs!RequestStatuses /\ s # "none" /\ request.brief + 1 \in Nat
      BY <1>1 DEF Briefs!RequestRows, Briefs!RequestStatuses
    <2>2. quote' = quote /\ request' = r /\ Briefs!Finish(c)
      BY <1>4, Zenon DEF Briefs!SaveBrief
    <2> HIDE DEF s
    <2>3. r \in Briefs!RequestRows
      BY <1>1, <2>1 DEF Briefs!RequestRows
    <2>4. r.status = s
      BY <1>1 DEF Briefs!RequestRows
    <2> HIDE DEF r
    <2>5. Briefs!Alone => ClosedIn(r, quote) /\ (FullForms => PricedIn(r, quote))
      BY <1>1, <1>4 DEF ClosedIn, PricedIn, Knows, Briefs!SaveBrief
    <2> QED  BY <1>1, <2>1, <2>2, <2>3, <2>4, <2>5, FinishMoves
  <1> QED  BY <1>2, <1>3, <1>4

\* Cancelling closes the request, then declines what is live.
LEMMA CancelsKeep ==
    ASSUME QuoteInv, NEW c \in Callers, Briefs!SaveCancelled(c) \/ Briefs!DeclineLive(c) \/ Briefs!SaveQuoted(c)
    PROVE  QuoteInv'
  <1>1. /\ task[c] \in Briefs!Tasks /\ request.status # "none"
        /\ request \in Briefs!RequestRows /\ quote \in [Quotes -> Briefs!QuoteRows]
        /\ Briefs!Alone => ~BookedIn(quote) /\ (FullForms => PricedIn(request, quote))
    BY TasksAreTyped DEF Briefs!SaveCancelled, Briefs!DeclineLive, Briefs!SaveQuoted, Briefs!At, Around, Knows
  <1>2. ASSUME NEW s \in {"cancelled", "quoted"}
        PROVE  LET r == [request EXCEPT !.status = s]
               IN  /\ r \in Briefs!RequestRows /\ r.status # "none"
                   /\ r.brief = request.brief
    BY <1>1 DEF Briefs!RequestRows, Briefs!RequestStatuses
  <1>3. CASE Briefs!SaveCancelled(c)
    <2>1. /\ request' \in Briefs!RequestRows /\ request'.status # "none"
          /\ request'.brief = request.brief /\ quote' = quote /\ Briefs!Goto(c, "decline")
      BY <1>1, <1>2, <1>3 DEF Briefs!SaveCancelled
    <2>2. Briefs!Alone => \A t \in Briefs!Tasks : t.at = "decline" => Around(t, request', quote)
      BY <1>1, <2>1 DEF Around, Knows, ClosedIn, PricedIn
    <2> QED  BY <1>1, <2>1, <2>2, GotoMoves
  <1>4. CASE Briefs!SaveQuoted(c)
    <2>1. /\ request' \in Briefs!RequestRows /\ request'.status # "none"
          /\ request'.brief = request.brief /\ quote' = quote /\ Briefs!Finish(c)
      BY <1>1, <1>2, <1>4 DEF Briefs!SaveQuoted
    <2>2. Briefs!Alone => ClosedIn(request', quote) /\ (FullForms => PricedIn(request', quote))
      BY <1>1, <2>1 DEF ClosedIn, PricedIn
    <2> QED  BY <1>1, <2>1, <2>2, FinishMoves
  <1>5. CASE Briefs!DeclineLive(c)
    <2> DEFINE rows == Briefs!AllLive("rejected")
    <2>1. "rejected" \in Briefs!QuoteStatuses /\ "rejected" \notin Briefs!Live
      BY DEF Briefs!QuoteStatuses, Briefs!Live
    <2>2. rows \in [Quotes -> Briefs!QuoteRows]
            /\ \A p \in Quotes : rows[p].status = IF quote[p].status \in Briefs!Live
                                                   THEN "rejected" ELSE quote[p].status
      BY <2>1, AllLiveIs
    <2>3. quote' = rows /\ request' = request /\ Briefs!Finish(c)
      BY <1>5 DEF Briefs!DeclineLive
    <2> HIDE DEF rows
    <2>4. Briefs!Alone => ClosedIn(request, rows) /\ (FullForms => PricedIn(request, rows))
      BY <1>1, <2>1, <2>2 DEF ClosedIn, BookedIn, PricedIn
    <2> QED  BY <1>1, <2>2, <2>3, <2>4, FinishMoves
  <1> QED  BY <1>3, <1>4, <1>5

\* A new quotation prices the brief it read.
LEMMA CreateQuotationKeeps ==
    ASSUME QuoteInv, NEW c \in Callers, Briefs!CreateQuotation(c)
    PROVE  QuoteInv'
  <1>1. /\ task[c] \in Briefs!Tasks /\ request.status # "none"
        /\ request \in Briefs!RequestRows /\ quote \in [Quotes -> Briefs!QuoteRows]
        /\ Briefs!Alone => /\ ClosedIn(request, quote) /\ (FullForms => PricedIn(request, quote))
                           /\ task[c].status = request.status /\ task[c].brief = request.brief
    BY TasksAreTyped DEF Briefs!CreateQuotation, Briefs!At, Around, Knows
  <1>2. PICK q \in Quotes, o \in Organizers, p \in Prices, draft \in BOOLEAN :
         /\ quote[q].status = "none"
         /\ quote' = [quote EXCEPT ![q] =
                        [status |-> IF draft THEN "draft" ELSE "sent", by |-> o,
                         price |-> p, priced |-> task[c].brief, v |-> 0]]
         /\ IF ~draft /\ task[c].status = "open" THEN Briefs!Goto(c, "quoted") ELSE Briefs!Finish(c)
    BY DEF Briefs!CreateQuotation, Briefs!Status
  <1> DEFINE row == [status |-> IF draft THEN "draft" ELSE "sent", by |-> o, price |-> p,
                     priced |-> task[c].brief, v |-> 0]
             rows == [quote EXCEPT ![q] = row]
  <1>3. row \in Briefs!QuoteRows /\ row.status \in {"draft", "sent"} /\ row.priced = task[c].brief
    BY <1>1 DEF Briefs!QuoteRows, Briefs!QuoteStatuses, Briefs!Tasks
  <1>4. quote' = rows /\ request' = request
    BY <1>2 DEF Briefs!CreateQuotation
  <1> HIDE DEF row
  <1>5. rows \in [Quotes -> Briefs!QuoteRows] /\ \A x \in Quotes : rows[x] = IF x = q THEN row ELSE quote[x]
    BY <1>1, <1>3
  <1> HIDE DEF rows
  <1>6. Briefs!Alone => /\ ClosedIn(request, rows) /\ (FullForms => PricedIn(request, rows))
                        /\ BookedIn(rows) => BookedIn(quote)
    BY <1>1, <1>3, <1>5 DEF ClosedIn, BookedIn, PricedIn
  <1>7. Briefs!Alone /\ task[c].status = "open" => ~BookedIn(rows)
    BY <1>1, <1>6 DEF ClosedIn
  <1>8. Briefs!Alone /\ task[c].status = "open"
                => \A t \in Briefs!Tasks : t.at = "quoted" => Around(t, request, rows)
    BY <1>6, <1>7 DEF Around, Knows
  <1>9. CASE ~draft /\ task[c].status = "open"
    BY <1>1, <1>2, <1>4, <1>5, <1>8, <1>9, GotoMoves
  <1>10. CASE ~(~draft /\ task[c].status = "open")
    BY <1>1, <1>2, <1>4, <1>5, <1>6, <1>10, FinishMoves
  <1> QED  BY <1>9, <1>10

\* A revision reads the request it prices.
LEMMA ReadOpenKeeps ==
    ASSUME QuoteInv, NEW c \in Callers, Briefs!ReadOpen(c)
    PROVE  QuoteInv'
  <1>1. /\ request.status # "none"
        /\ request \in Briefs!RequestRows /\ quote \in [Quotes -> Briefs!QuoteRows]
        /\ Briefs!Alone => /\ ClosedIn(request, quote) /\ (FullForms => PricedIn(request, quote))
        /\ request' = request /\ quote' = quote
    BY TasksAreTyped DEF Briefs!ReadOpen, Briefs!At, Around
  <1>2. CASE request.status = "open"
    <2>1. Briefs!Alone => \A t \in Briefs!Tasks : t.at = "quoted" => Around(t, request, quote)
      BY <1>1, <1>2 DEF Around, Knows, ClosedIn
    <2> QED  BY <1>1, <1>2, <2>1, GotoMoves DEF Briefs!ReadOpen
  <1>3. CASE request.status # "open"
    BY <1>1, <1>3, FinishMoves DEF Briefs!ReadOpen
  <1> QED  BY <1>2, <1>3

\* A revision replaces price and version together.
LEMMA SaveRevisionKeeps ==
    ASSUME QuoteInv, NEW c \in Callers, Briefs!SaveRevision(c)
    PROVE  QuoteInv'
  <1> DEFINE q == task[c].q
  <1>1. /\ task[c] \in Briefs!Tasks /\ request.status # "none" /\ q \in Quotes
        /\ request \in Briefs!RequestRows /\ quote \in [Quotes -> Briefs!QuoteRows]
        /\ Briefs!Alone => /\ ClosedIn(request, quote) /\ (FullForms => PricedIn(request, quote))
                           /\ task[c].status = quote[q].status /\ task[c].status # "accepted"
                           /\ task[c].brief = request.brief
        /\ request' = request
    BY TasksAreTyped DEF Briefs!SaveRevision, Briefs!At, Around, Knows, Named
  <1>2. PICK send \in BOOLEAN, lines \in {TRUE, FullForms} :
         LET next == IF task[c].status # "draft" THEN "updated"
                     ELSE IF send THEN "sent" ELSE "draft"
             row  == IF next = task[c].status THEN quote[task[c].q]
                     ELSE [quote[task[c].q] EXCEPT !.status = next]
         IN  \/ /\ lines /\ quote[task[c].q].v # task[c].v
                /\ Briefs!Finish(c)
                /\ UNCHANGED quote
             \/ /\ lines /\ quote[task[c].q].v = task[c].v
                /\ \E p \in Prices :
                     quote' = [quote EXCEPT ![task[c].q] = [row EXCEPT !.price = p,
                                 !.priced = task[c].brief, !.v = row.v + 1]]
                /\ IF next = "sent" THEN Briefs!Goto(c, "ask") ELSE Briefs!Finish(c)
             \/ /\ ~lines
                /\ quote' = [quote EXCEPT ![task[c].q] = row]
                /\ IF next = "sent" THEN Briefs!Goto(c, "ask") ELSE Briefs!Finish(c)
    BY DEF Briefs!SaveRevision
  <1> DEFINE next == IF task[c].status # "draft" THEN "updated" ELSE IF send THEN "sent" ELSE "draft"
             row  == IF next = task[c].status THEN quote[q] ELSE [quote[q] EXCEPT !.status = next]
  <1> HIDE DEF q
  <1>3. /\ row \in Briefs!QuoteRows
        /\ row.status = IF next = task[c].status THEN quote[q].status ELSE next
        /\ next \in {"updated", "sent", "draft"}
    BY <1>1 DEF Briefs!QuoteRows, Briefs!QuoteStatuses
  \* The row that is saved, with or without new lines.
  <1>4. ASSUME NEW new \in Briefs!QuoteRows, quote' = [quote EXCEPT ![q] = new],
               new.status = row.status, FullForms => new.priced = task[c].brief,
               IF next = "sent" THEN Briefs!Goto(c, "ask") ELSE Briefs!Finish(c)
        PROVE  QuoteInv'
    <2> DEFINE rows == [quote EXCEPT ![q] = new]
    <2>1. rows \in [Quotes -> Briefs!QuoteRows] /\ \A x \in Quotes : rows[x] = IF x = q THEN new ELSE quote[x]
      BY <1>1
    <2>2. quote' = rows
      BY <1>4
    <2> HIDE DEF rows, next, row
    <2>3. Briefs!Alone => row.status # "accepted"
      BY <1>1, <1>3
    <2>4. Briefs!Alone => ClosedIn(request, rows) /\ (FullForms => PricedIn(request, rows))
      BY <1>1, <1>4, <2>1, <2>3 DEF ClosedIn, BookedIn, PricedIn
    <2>5. Briefs!Alone => \A t \in Briefs!Tasks : t.at = "ask" => Around(t, request, rows)
      BY <2>4 DEF Around, Knows
    <2>6. CASE next = "sent"
      BY <1>1, <1>4, <2>1, <2>2, <2>5, <2>6, GotoMoves
    <2>7. CASE next # "sent"
      BY <1>1, <1>4, <2>1, <2>2, <2>4, <2>7, FinishMoves
    <2> QED  BY <2>6, <2>7
  <1>5. CASE Briefs!Finish(c) /\ UNCHANGED quote
    BY <1>1, <1>5, FinishMoves
  <1>6. ASSUME NEW p \in Prices,
               quote' = [quote EXCEPT ![q] = [row EXCEPT !.price = p, !.priced = task[c].brief,
                                                         !.v = row.v + 1]],
               IF next = "sent" THEN Briefs!Goto(c, "ask") ELSE Briefs!Finish(c)
        PROVE  QuoteInv'
    <2> DEFINE new == [row EXCEPT !.price = p, !.priced = task[c].brief, !.v = row.v + 1]
    <2> HIDE DEF row, next
    <2>1. row.v + 1 \in Nat /\ task[c].brief \in Nat
      BY <1>1, <1>3 DEF Briefs!QuoteRows, Briefs!Tasks
    <2>2. new \in Briefs!QuoteRows /\ new.status = row.status /\ new.priced = task[c].brief
      BY <1>3, <2>1 DEF Briefs!QuoteRows
    <2> QED  BY <1>4, <1>6, <2>2
  <1>7. CASE /\ ~lines /\ quote' = [quote EXCEPT ![q] = row]
             /\ IF next = "sent" THEN Briefs!Goto(c, "ask") ELSE Briefs!Finish(c)
    <2>1. ~FullForms
      BY <1>7
    <2> HIDE DEF row, next
    <2> QED  BY <1>3, <1>4, <1>7, <2>1
  <1>8. \/ Briefs!Finish(c) /\ UNCHANGED quote
        \/ /\ \E p \in Prices :
                quote' = [quote EXCEPT ![q] = [row EXCEPT !.price = p, !.priced = task[c].brief,
                                                          !.v = row.v + 1]]
           /\ IF next = "sent" THEN Briefs!Goto(c, "ask") ELSE Briefs!Finish(c)
        \/ /\ ~lines /\ quote' = [quote EXCEPT ![q] = row]
           /\ IF next = "sent" THEN Briefs!Goto(c, "ask") ELSE Briefs!Finish(c)
    BY <1>2 DEF q
  <1> QED  BY <1>5, <1>6, <1>7, <1>8

\* Every step keeps the invariant.
LEMMA QuoteStep ==
    ASSUME QuoteInv, Briefs!QuoteAssumption, [Briefs!Next]_(Briefs!vars)
    PROVE  QuoteInv'
  <1>1. CASE UNCHANGED Briefs!vars
    BY <1>1 DEF Briefs!vars, QuoteInv, Briefs!TypeOK, Named, NothingYet, Around, Knows, ClosedIn, BookedIn,
                PricedIn, Briefs!Alone
  <1>2. CASE Briefs!CreateFromDraft \/ Briefs!CreateForOrganizers
    BY <1>2, AskKeeps DEF Briefs!CreateFromDraft, Briefs!CreateForOrganizers
  <1>3. ASSUME NEW c \in Callers, Briefs!Arrive(c) PROVE QuoteInv'
    BY <1>3, ArriveKeeps
  <1>4. ASSUME NEW c \in Callers, Briefs!Step(c) PROVE QuoteInv'
    BY <1>4, AcceptsKeep, RefusalsKeep, EditsKeep, CancelsKeep, CreateQuotationKeeps,
       ReadOpenKeeps, SaveRevisionKeeps DEF Briefs!Step
  <1> QED  BY <1>1, <1>2, <1>3, <1>4 DEF Briefs!Next

\* The invariant holds of every behaviour of a request and its quotations.
LEMMA QuoteInvHolds == ASSUME Briefs!QuoteAssumption PROVE Briefs!Spec => []QuoteInv
  <1>1. Briefs!Init => QuoteInv
    BY QuoteInit
  <1>2. QuoteInv /\ [Briefs!Next]_(Briefs!vars) => QuoteInv'
    BY QuoteStep
  <1> QED  BY <1>1, <1>2, PTL DEF Briefs!Spec

\* The rows a screen asks for are the quotations in those statuses.
LEMMA RowsIs ==
    ASSUME NEW S
    PROVE  Briefs!Rows(S) = {q \in Quotes : quote[q].status \in S}
  BY DEF Briefs!Rows, Briefs!Status

\* The spread a summary shows spans the price of every quotation it counts.
LEMMA SpreadHolds ==
    ASSUME Briefs!QuoteAssumption, Briefs!TypeOK, NEW P \in SUBSET Quotes, NEW q \in P, quote[q].price # 0
    PROVE  Briefs!Spread(P).lowest <= quote[q].price /\ quote[q].price <= Briefs!Spread(P).highest
  <1> DEFINE T == Briefs!Totals(P)
  <1>1. PICK dearest \in Nat : \A p \in Prices : p <= dearest
    BY DEF Briefs!QuoteAssumption
  <1>2. \A p \in P : quote[p].price \in Prices \cup {0}
    BY DEF Briefs!TypeOK, Briefs!QuoteRows
  <1>3. T \in SUBSET Nat /\ quote[q].price \in T /\ \A n \in T : n <= dearest
    BY <1>1, <1>2 DEF Briefs!Totals, Briefs!QuoteAssumption
  <1>4. Briefs!Spread(P) = [lowest |-> CHOOSE m \in T : \A n \in T : m <= n,
                            highest |-> CHOOSE m \in T : \A n \in T : m >= n]
    BY <1>3 DEF Briefs!Spread
  <1> HIDE DEF T
  <1>5. \E m \in T : \A n \in T : m <= n
    BY <1>3, Smallest
  <1>6. \E m \in T : \A n \in T : m >= n
    BY <1>3, Largest
  <1>7. Briefs!Spread(P).lowest = CHOOSE m \in T : \A n \in T : m <= n
    BY <1>4
  <1>8. Briefs!Spread(P).highest = CHOOSE m \in T : \A n \in T : m >= n
    BY <1>4
  <1>9. \A n \in T : Briefs!Spread(P).lowest <= n
    BY <1>5, <1>7
  <1>10. \A n \in T : Briefs!Spread(P).highest >= n /\ Briefs!Spread(P).highest \in Nat
    BY <1>3, <1>6, <1>8
  <1> QED  BY <1>3, <1>9, <1>10

\* What the customer's list, the comparison and the summary say of one request follows
\* from the rows they read: they are one story, whatever those rows are.
LEMMA ScreensAgreeWhenTyped ==
    ASSUME Briefs!QuoteAssumption, Briefs!TypeOK
    PROVE  Briefs!ScreensAgree
  <1> DEFINE shown == Briefs!Rows(Briefs!QuoteStatuses \ Briefs!Dead)
  <1>1. \A q \in Quotes : quote[q].status \in Briefs!QuoteStatuses \cup {"none"}
    BY DEF Briefs!TypeOK, Briefs!QuoteRows
  <1>2. Briefs!QuoteStatuses \ {"draft", "withdrawn", "superseded"} = Briefs!QuoteStatuses \ Briefs!Dead
    BY DEF Briefs!Dead
  <1>3. /\ Briefs!HomeCard.count = Briefs!Cardinality(shown)
        /\ Briefs!HomeCard.spread = Briefs!Spread(shown)
        /\ Briefs!HomeCard.decided = (\E q \in shown : Briefs!Status(q) = "accepted")
        /\ Briefs!HomeCard.awaiting = request.recipients \ Briefs!Authors(shown)
    BY DEF Briefs!HomeCard
  <1>4. /\ Briefs!RequestPage.awaiting = request.recipients \ Briefs!Authors(Briefs!Received)
        /\ Briefs!RequestPage.quotations = Briefs!Received
    BY DEF Briefs!RequestPage
  <1>5. Briefs!Responses = shown /\ Briefs!AdminCount = Briefs!Cardinality(shown)
    BY <1>2 DEF Briefs!Responses, Briefs!AdminCount
  <1>6. shown = {q \in Quotes : quote[q].status \in Briefs!QuoteStatuses \ Briefs!Dead}
    BY RowsIs
  <1>7. Briefs!Received = {q \in Quotes : quote[q].status \notin {"none", "draft"}}
    BY DEF Briefs!Received, Briefs!Status
  <1> HIDE DEF shown
  <1>8. shown \subseteq Briefs!Received
    BY <1>6, <1>7 DEF Briefs!QuoteStatuses, Briefs!Dead
  <1>9. \A q \in Briefs!Received \ shown : quote[q].status \in {"withdrawn", "superseded"}
    BY <1>1, <1>6, <1>7 DEF Briefs!Dead
  <1>10. \A q \in Briefs!Received : Briefs!Timeline[q] = IF quote[q].status \in Briefs!Live THEN "quoted"
                                                        ELSE quote[q].status
    BY DEF Briefs!Timeline, Briefs!Status
  <1>11. DOMAIN Briefs!Timeline = Briefs!Received
    BY DEF Briefs!Timeline
  <1>12. Briefs!HomeCard.decided <=> \E q \in DOMAIN Briefs!Timeline : Briefs!Timeline[q] = "accepted"
    BY <1>3, <1>6, <1>7, <1>8, <1>9, <1>10, <1>11 DEF Briefs!Live, Briefs!Status
  <1>13. Briefs!RequestPage.awaiting \subseteq Briefs!HomeCard.awaiting
    BY <1>3, <1>4, <1>8 DEF Briefs!Authors
  <1>14. \A o \in Briefs!HomeCard.awaiting \ Briefs!RequestPage.awaiting, q \in Briefs!RequestPage.quotations :
           quote[q].by = o => Briefs!Timeline[q] \in {"withdrawn", "superseded"}
    <2> SUFFICES ASSUME NEW q \in Briefs!Received, quote[q].by \notin Briefs!Authors(shown)
                 PROVE  Briefs!Timeline[q] \in {"withdrawn", "superseded"}
      BY <1>3, <1>4
    <2>1. q \notin shown
      BY DEF Briefs!Authors
    <2> QED  BY <1>9, <1>10, <2>1 DEF Briefs!Live
  <1>15. \A q \in shown : quote[q].price # 0 =>
           /\ Briefs!Spread(shown).lowest <= quote[q].price
           /\ quote[q].price <= Briefs!Spread(shown).highest
    BY <1>6, SpreadHolds
  <1> QED  BY <1>3, <1>5, <1>12, <1>13, <1>14, <1>15 DEF Briefs!ScreensAgree

\* The screens of a request agree however many handlers run at once; and where handlers
\* do not overlap, an accepted quotation closes its request (acceptQuotation), and with
\* full forms whatever can still be compared prices the brief as it now reads
\* (updateRequest supersedes what priced the old one).
THEOREM BriefsStaySound ==
    ASSUME Briefs!QuoteAssumption
    PROVE  Briefs!Spec => []Briefs!BriefsAreSound
  <1>1. QuoteInv => Briefs!BriefsAreSound
    <2> SUFFICES ASSUME QuoteInv PROVE Briefs!BriefsAreSound
      OBVIOUS
    <2>1. Briefs!ScreensAgree
      BY ScreensAgreeWhenTyped DEF QuoteInv
    <2>2. ASSUME Briefs!Alone, Briefs!AtRest
          PROVE  ClosedIn(request, quote) /\ (FullForms => PricedIn(request, quote))
      BY <2>2 DEF QuoteInv, Around, Briefs!AtRest, Briefs!At
    <2>3. ASSUME Briefs!Alone PROVE Briefs!BookableIsClosed
      <3>1. Briefs!Bookable # {} => BookedIn(quote)
        BY RowsIs DEF Briefs!Bookable, BookedIn
      <3> QED  BY <2>2, <2>3, <3>1 DEF Briefs!BookableIsClosed, ClosedIn
    <2>4. ASSUME Briefs!Alone, FullForms PROVE Briefs!LivePricesTheBrief
      <3>1. \A q \in Briefs!LiveQuotes : q \in Quotes /\ quote[q].status \in Briefs!Live
        BY DEF Briefs!LiveQuotes, Briefs!Status
      <3> QED  BY <2>2, <2>4, <3>1 DEF Briefs!LivePricesTheBrief, PricedIn
    <2> QED  BY <2>1, <2>3, <2>4 DEF Briefs!BriefsAreSound
  <1> QED  BY <1>1, QuoteInvHolds, PTL

\* No step of a handler that runs alone changes accepted terms.
LEMMA PricesStand ==
    ASSUME QuoteInv, Briefs!Alone, [Briefs!Next]_(Briefs!vars)
    PROVE  Briefs!TermsStand
  <1> SUFFICES ASSUME NEW q \in Quotes, quote[q].status = "accepted"
               PROVE  Briefs!SameTerms(quote'[q], quote[q])
    BY DEF Briefs!TermsStand, Briefs!Status
  <1> USE DEF Briefs!SameTerms
  <1>0. quote \in [Quotes -> Briefs!QuoteRows]
    BY DEF QuoteInv, Briefs!TypeOK
  <1>1. CASE UNCHANGED quote
    BY <1>1
  <1>2. ASSUME NEW p \in Quotes, NEW s \in Briefs!QuoteStatuses, quote' = Briefs!Set(p, s)
        PROVE  Briefs!SameTerms(quote'[q], quote[q])
    BY <1>0, <1>2, SetIs DEF Briefs!Set
  <1>3. ASSUME NEW s \in Briefs!QuoteStatuses, quote' = Briefs!AllLive(s)
        PROVE  Briefs!SameTerms(quote'[q], quote[q])
    BY <1>3, AllLiveIs
  <1>4. ASSUME NEW c \in Callers, Briefs!Step(c) PROVE Briefs!SameTerms(quote'[q], quote[q])
    <2>1. {"accepted", "rejected", "withdrawn", "superseded"} \subseteq Briefs!QuoteStatuses
      BY DEF Briefs!QuoteStatuses
    <2>2. CASE Briefs!SaveAccepted(c) \/ Briefs!SaveRejected(c) \/ Briefs!SaveWithdrawn(c)
      <3>1. task[c].q \in Quotes
        BY <2>2, TasksAreTyped DEF Named, Briefs!SaveAccepted, Briefs!SaveRejected, Briefs!SaveWithdrawn, Briefs!At
      <3> QED  BY <1>1, <1>2, <2>1, <2>2, <3>1 DEF Briefs!SaveAccepted, Briefs!SaveRejected, Briefs!SaveWithdrawn
    <2>3. CASE Briefs!RejectSiblings(c)
      BY <1>0, <2>1, <2>3, AllLiveIs DEF Briefs!RejectSiblings
    <2>4. CASE Briefs!Supersede(c) \/ Briefs!DeclineLive(c)
      BY <1>3, <2>1, <2>4 DEF Briefs!Supersede, Briefs!DeclineLive
    <2>5. CASE Briefs!CreateQuotation(c)
      BY <1>0, <2>5 DEF Briefs!CreateQuotation, Briefs!Status
    <2>6. CASE Briefs!SaveRevision(c)
      <3>0. task[c].at = "revise"
        BY <2>6 DEF Briefs!SaveRevision, Briefs!At
      <3>1. q # task[c].q
        BY <3>0, TasksAreTyped DEF Around, Knows
      <3>2. \E new : quote' \in {quote, [quote EXCEPT ![task[c].q] = new]}
        BY <2>6 DEF Briefs!SaveRevision
      <3> QED  BY <1>0, <3>1, <3>2
    <2>7. CASE Briefs!CloseRequest(c) \/ Briefs!FindLive(c) \/ Briefs!SaveBrief(c) \/ Briefs!SaveCancelled(c)
                      \/ Briefs!SaveQuoted(c) \/ Briefs!ReadOpen(c)
      BY <1>1, <2>7 DEF Briefs!CloseRequest, Briefs!FindLive, Briefs!SaveBrief, Briefs!SaveCancelled, Briefs!SaveQuoted,
                        Briefs!ReadOpen
    <2> QED  BY <1>4, <2>2, <2>3, <2>4, <2>5, <2>6, <2>7 DEF Briefs!Step
  <1>5. ASSUME NEW c \in Callers, Briefs!Arrive(c) PROVE UNCHANGED quote
    BY <1>5 DEF Briefs!Arrive, Briefs!UpdateRequest, Briefs!CancelRequest, Briefs!Respond, Briefs!Accept, Briefs!Reject,
                Briefs!UpdateQuotation, Briefs!WithdrawQuotation, Briefs!Begin
  <1>6. CASE Briefs!CreateFromDraft \/ Briefs!CreateForOrganizers
    BY <1>1, <1>6 DEF Briefs!CreateFromDraft, Briefs!CreateForOrganizers, Briefs!Ask
  <1>7. CASE UNCHANGED Briefs!vars
    BY <1>1, <1>7 DEF Briefs!vars
  <1> QED  BY <1>1, <1>4, <1>5, <1>6, <1>7 DEF Briefs!Next

\* Where handlers do not overlap, no step changes the price of a quotation the customer
\* accepted, the brief it prices or the version of its lines: updateQuotation refuses it,
\* and nothing else writes them.
THEOREM AcceptedPricesStand ==
    ASSUME Briefs!QuoteAssumption, Briefs!Alone
    PROVE  Briefs!Spec => Briefs!AcceptedTermsStand
  <1>1. QuoteInv /\ [Briefs!Next]_(Briefs!vars) => [Briefs!TermsStand]_(Briefs!vars)
    BY PricesStand
  <1> QED  BY <1>1, QuoteInvHolds, PTL DEF Briefs!Spec, Briefs!AcceptedTermsStand

-----------------------------------------------------------------------------
(* The invitation and its versions (InvitationVersions).                    *)

\* The types of a card, a version, a row and a handler, with no model values.
CardRows == [seen : {"none", "all", "mine", "theirs", "hidden"}, url : BOOLEAN, live : BOOLEAN]
Contents ==
    [cards  : [Cards -> CardRows],
     target : Cards \cup {"", "none"}]
InvitationRows ==
    [status : {"none", "draft", "sent", "approved"}, work : Contents, sent : Contents,
     published : Contents, unsent : BOOLEAN, marked : BOOLEAN, asked : SUBSET Requests,
     open : SUBSET Requests, v : Nat]
Desks == [at : {"idle", "edit", "send", "resolve", "approve", "request"}, copy : InvitationRows]

InvitationTypes ==
    /\ invitation \in InvitationRows
    /\ desk \in [Callers -> Desks]
    /\ made \subseteq Requests

\* A row that is not there has nothing on it, and content always names a day.
RowIsSound(row) ==
    /\ row.status = "none" => row = Versions!NoRow
    /\ row.work.target # "none"

\* What a loaded copy still says of the row.
CopyIsSound(t, row) ==
    t.at # "idle" =>
      /\ row.status # "none"
      /\ RowIsSound(t.copy)
      /\ t.copy.v <= row.v
      /\ t.copy.v = row.v => t.copy.asked = row.asked

\* Without rows of before: an approved row has a published version.
ApprovedHasVersion(row) == ~Legacy /\ row.status = "approved" => row.published # Versions!NoVersion

\* Without overlaps: the copy is the row, and what is shown was sent.
SentIsShown(row) ==
    ~Legacy =>
      /\ row.status \in {"sent", "approved"} => row.sent # Versions!NoVersion
      /\ row.status = "approved" => row.published = row.sent
AloneKnows ==
    Versions!Alone =>
             /\ \A c \in Callers : desk[c].at # "idle" => desk[c].copy = invitation
             /\ \A c \in Callers : desk[c].at = "approve" => invitation.status \in {"sent", "approved"}
             /\ SentIsShown(invitation)

\* The inductive invariant of an invitation.
InvitationInv ==
    /\ InvitationTypes
    /\ RowIsSound(invitation)
    /\ \A c \in Callers : CopyIsSound(desk[c], invitation)
    /\ Versions!RequestsKept
    /\ ApprovedHasVersion(invitation)
    /\ AloneKnows

\* A version that was published stays, or gives way to another.
PublishedStays == invitation.published # Versions!NoVersion => invitation'.published # Versions!NoVersion
StepKeeps == InvitationInv' /\ PublishedStays

\* The rows a behaviour starts from are rows.
LEMMA RowsAreRows ==
    ASSUME Versions!InvitationAssumption
    PROVE  /\ {Versions!NoRow, Versions!Draft, Versions!OldRow} \subseteq InvitationRows
           /\ RowIsSound(Versions!NoRow) /\ RowIsSound(Versions!Draft) /\ RowIsSound(Versions!OldRow)
           /\ Versions!NoVersion \in Contents /\ Versions!NoCard \in CardRows
  <1>1. Versions!NoCard \in CardRows
    BY DEF Versions!NoCard, CardRows
  <1>2. Versions!NoVersion \in Contents /\ Versions!Blank \in Contents /\ Versions!Blank.target = ""
    BY <1>1 DEF Versions!NoVersion, Versions!Blank, Contents
  <1>3. Versions!NoRow \in InvitationRows
    BY <1>2 DEF Versions!NoRow, InvitationRows
  <1>4. Versions!NoRow.work = Versions!Blank /\ Versions!Draft.work = Versions!Blank /\ Versions!OldRow.work = Versions!Blank
    BY DEF Versions!NoRow, Versions!Draft, Versions!OldRow
  <1>5. Versions!Draft \in InvitationRows /\ Versions!Draft.status = "draft"
    BY <1>3 DEF Versions!NoRow, Versions!Draft, InvitationRows
  <1>6. Versions!OldRow \in InvitationRows /\ Versions!OldRow.status = "approved"
    BY <1>3 DEF Versions!NoRow, Versions!OldRow, InvitationRows
  <1>7. RowIsSound(Versions!NoRow) /\ RowIsSound(Versions!Draft) /\ RowIsSound(Versions!OldRow)
    BY <1>2, <1>4, <1>5, <1>6 DEF RowIsSound
  <1> QED  BY <1>1, <1>2, <1>3, <1>5, <1>6, <1>7

\* No row, or a row of before, satisfies the invariant.
LEMMA InvitationInit ==
    ASSUME Versions!InvitationAssumption, Versions!Init
    PROVE  InvitationInv
  <1>1. /\ invitation \in {Versions!NoRow, Versions!OldRow} /\ (~Legacy => invitation = Versions!NoRow)
        /\ desk = [c \in Callers |-> [at |-> "idle", copy |-> Versions!NoRow]] /\ made = {}
    BY DEF Versions!Init, Versions!InvitationAssumption
  <1>2. InvitationTypes /\ RowIsSound(invitation)
    BY <1>1, RowsAreRows DEF InvitationTypes, Desks
  <1>3. \A c \in Callers : desk[c].at = "idle"
    BY <1>1
  <1>4. invitation = Versions!NoRow => invitation.status = "none"
    BY DEF Versions!NoRow
  <1> QED
    BY <1>1, <1>2, <1>3, <1>4 DEF InvitationInv, CopyIsSound, Versions!RequestsKept, ApprovedHasVersion, AloneKnows,
       SentIsShown

\* A handler's last step: the row is saved, or left.
LEMMA RowMoves ==
    ASSUME InvitationInv, NEW c \in Callers, NEW row \in InvitationRows,
           NEW t \in Desks, desk' = [desk EXCEPT ![c] = t], invitation' = row,
           made' \subseteq Requests, made' \subseteq row.asked,
           RowIsSound(row), CopyIsSound(t, row), ApprovedHasVersion(row),
           row.status = "none" => invitation.status = "none",
           invitation.v <= row.v, invitation.v = row.v => row.asked = invitation.asked,
           invitation.published # Versions!NoVersion => row.published # Versions!NoVersion,
           Versions!Alone => /\ t.at # "idle" => t.copy = row
                             /\ t.at = "approve" => row.status \in {"sent", "approved"}
                             /\ SentIsShown(row)
    PROVE  StepKeeps
  <1>1. InvitationTypes'
    BY DEF InvitationInv, InvitationTypes
  <1>2. \A d \in Callers : CopyIsSound(desk'[d], row)
    <2> SUFFICES ASSUME NEW d \in Callers, d # c PROVE CopyIsSound(desk'[d], row)
      BY DEF InvitationInv, InvitationTypes
    <2>1. CopyIsSound(desk[d], invitation) /\ desk'[d] = desk[d]
      BY DEF InvitationInv, InvitationTypes
    <2>2. desk[d].copy.v \in Nat /\ row.v \in Nat /\ invitation.v \in Nat
      BY DEF InvitationInv, InvitationTypes, InvitationRows, Desks
    <2> QED  BY <2>1, <2>2 DEF CopyIsSound
  <1>3. Versions!RequestsKept' /\ RowIsSound(invitation)' /\ ApprovedHasVersion(invitation)'
    BY DEF Versions!RequestsKept, RowIsSound, ApprovedHasVersion
  <1>4. AloneKnows'
    <2> SUFFICES ASSUME Versions!Alone PROVE AloneKnows'
      BY DEF AloneKnows, Versions!Alone
    <2>1. \A d \in Callers : desk'[d] = t
      BY DEF InvitationInv, InvitationTypes, Versions!Alone
    <2> QED  BY <2>1 DEF AloneKnows, SentIsShown
  <1> QED  BY <1>1, <1>2, <1>3, <1>4 DEF InvitationInv, StepKeeps, PublishedStays

\* What the invariant says of one handler and its copy.
LEMMA CopiesAreTyped ==
    ASSUME InvitationInv, NEW c \in Callers
    PROVE  /\ desk[c] \in Desks /\ Versions!Copy(c) \in InvitationRows /\ invitation \in InvitationRows
           /\ CopyIsSound(desk[c], invitation) /\ Versions!Copy(c) = desk[c].copy
           /\ RowIsSound(invitation) /\ ApprovedHasVersion(invitation)
           /\ made \subseteq Requests /\ made \subseteq invitation.asked
           /\ Versions!Alone => /\ desk[c].at # "idle" => Versions!Copy(c) = invitation
                                /\ desk[c].at = "approve" => invitation.status \in {"sent", "approved"}
                                /\ SentIsShown(invitation)
  BY DEF InvitationInv, InvitationTypes, Desks, Versions!Copy, AloneKnows, Versions!RequestsKept

\* getOrCreate loads the row, or makes it, for a handler of the organizer.
LEMMA OpenKeeps ==
    ASSUME InvitationInv, Versions!InvitationAssumption, NEW c \in Callers,
           NEW l \in {"edit", "send", "resolve"}, Versions!Open(c, l)
    PROVE  StepKeeps
  <1> DEFINE row == IF invitation.status = "none" THEN Versions!Draft ELSE invitation
             t == [at |-> l, copy |-> row]
  <1>1. row \in InvitationRows /\ t \in Desks /\ RowIsSound(row) /\ row.status # "none"
    BY CopiesAreTyped, RowsAreRows DEF Desks, Versions!Draft, Versions!NoRow
  <1>2. row.v = invitation.v /\ row.asked = invitation.asked /\ row.published = invitation.published
    BY CopiesAreTyped DEF RowIsSound, Versions!Draft, Versions!NoRow
  <1>3. ApprovedHasVersion(row) /\ (Versions!Alone => SentIsShown(row))
    BY CopiesAreTyped DEF ApprovedHasVersion, SentIsShown, Versions!Draft, Versions!NoRow
  <1>4. desk' = [desk EXCEPT ![c] = t] /\ invitation' = row /\ made' = made
    BY DEF Versions!Open
  <1>5. row.v \in Nat
    BY <1>1 DEF InvitationRows
  <1>6. CopyIsSound(t, row) /\ t.copy = row /\ t.at = l
    BY <1>1, <1>5 DEF CopyIsSound
  <1>7. made' \subseteq row.asked /\ made' \subseteq Requests
    BY <1>2, <1>4, CopiesAreTyped
  <1>8. invitation.v <= row.v /\ (invitation.v = row.v => row.asked = invitation.asked)
    BY <1>2, <1>5
  <1>9. t.at # "approve"
    BY <1>6
  <1> HIDE DEF row, t
  <1> QED  BY <1>1, <1>2, <1>3, <1>4, <1>6, <1>7, <1>8, <1>9, RowMoves

\* The customer acts on what was sent.
LEMMA SharedKeeps ==
    ASSUME InvitationInv, NEW c \in Callers, NEW l \in {"approve", "request"}, Versions!Shared(c, l)
    PROVE  StepKeeps
  <1> DEFINE t == [at |-> l, copy |-> invitation]
  <1>1. invitation \in InvitationRows /\ t \in Desks /\ invitation.v \in Nat
          /\ invitation.status \in {"sent", "approved"}
    BY CopiesAreTyped DEF Desks, Versions!Shared, InvitationRows
  <1>2. CopyIsSound(t, invitation) /\ t.copy = invitation
    BY <1>1, CopiesAreTyped DEF CopyIsSound
  <1>3. desk' = [desk EXCEPT ![c] = t] /\ invitation' = invitation /\ made' = made
    BY DEF Versions!Shared
  <1>4. /\ RowIsSound(invitation) /\ ApprovedHasVersion(invitation)
        /\ made' \subseteq Requests /\ made' \subseteq invitation.asked
        /\ invitation.v <= invitation.v
        /\ Versions!Alone => SentIsShown(invitation)
    BY <1>1, <1>3, CopiesAreTyped
  <1> HIDE DEF t
  <1> QED  BY <1>1, <1>2, <1>3, <1>4, RowMoves

\* What the row has to satisfy after a handler that ends.
LEMMA EndKeeps ==
    ASSUME InvitationInv, Versions!InvitationAssumption, NEW c \in Callers, Versions!Finish(c), ~Versions!At(c, "idle"),
           NEW row \in InvitationRows, invitation' = row,
           made' \subseteq Requests, made' \subseteq row.asked,
           row.status # "none", row.work.target # "none", ApprovedHasVersion(row),
           invitation.v <= row.v, invitation.v = row.v => row.asked = invitation.asked,
           invitation.published # Versions!NoVersion => row.published # Versions!NoVersion,
           Versions!Alone => SentIsShown(row)
    PROVE  StepKeeps
  <1> DEFINE t == [at |-> "idle", copy |-> Versions!NoRow]
  <1>1. t \in Desks /\ CopyIsSound(t, row) /\ t.at = "idle"
    BY RowsAreRows DEF Desks, CopyIsSound
  <1>2. desk' = [desk EXCEPT ![c] = t]
    BY DEF Versions!Finish
  <1>3. RowIsSound(row)
    BY DEF RowIsSound
  <1> HIDE DEF t
  <1> QED  BY <1>1, <1>2, <1>3, RowMoves

\* ... and of one that leaves the row.
LEMMA RefusedKeeps ==
    ASSUME InvitationInv, Versions!InvitationAssumption, NEW c \in Callers, Versions!Finish(c), ~Versions!At(c, "idle"),
           invitation' = invitation, made' = made
    PROVE  StepKeeps
  <1>1. invitation.v \in Nat /\ invitation \in InvitationRows
    BY CopiesAreTyped DEF InvitationRows
  <1>2. invitation.status # "none" /\ invitation.work.target # "none"
    BY CopiesAreTyped DEF CopyIsSound, RowIsSound, Versions!At
  <1> QED  BY <1>1, <1>2, CopiesAreTyped, EndKeeps

\* A save that answers requests writes the whole array it loaded: version and the
\* array agree, or nothing is answered.
LEMMA AnsweredIs ==
    ASSUME InvitationInv, NEW c \in Callers, NEW row \in InvitationRows, NEW S \in SUBSET Requests,
           S # {} => Versions!Copy(c).asked = row.asked
    PROVE  LET a == Versions!Answered(c, row, S)
           IN  /\ a \in InvitationRows /\ a.asked = row.asked
               /\ a.status = row.status /\ a.work = row.work /\ a.sent = row.sent
               /\ a.published = row.published
               /\ a.v = IF S = {} THEN row.v ELSE row.v + 1
  <1>1. Versions!Copy(c).asked \subseteq Requests /\ Versions!Copy(c).open \subseteq Requests
    BY CopiesAreTyped DEF InvitationRows
  <1>2. CASE S = {}
    BY <1>2 DEF Versions!Answered
  <1>3. CASE S # {}
    <2> DEFINE a == Versions!Answered(c, row, S)
    <2>1. a = [row EXCEPT !.asked = Versions!Copy(c).asked, !.open = Versions!Copy(c).open \ S, !.v = row.v + 1]
      BY <1>3 DEF Versions!Answered
    <2>2. row.v + 1 \in Nat /\ Versions!Copy(c).open \ S \in SUBSET Requests
      BY <1>1 DEF InvitationRows
    <2>3. a \in InvitationRows
      BY <1>1, <2>1, <2>2 DEF InvitationRows
    <2>4. /\ a.asked = row.asked /\ a.status = row.status /\ a.work = row.work
          /\ a.sent = row.sent /\ a.published = row.published /\ a.v = row.v + 1
      BY <1>3, <2>1 DEF InvitationRows
    <2> QED  BY <1>3, <2>3, <2>4
  <1> QED  BY <1>2, <1>3

\* updateForOrganizer saves what it changed, and no request.
LEMMA EditKeeps ==
    ASSUME InvitationInv, Versions!InvitationAssumption, NEW c \in Callers, Versions!UpdateForOrganizer(c)
    PROVE  StepKeeps
  <1>0. Versions!Finish(c) /\ ~Versions!At(c, "idle") /\ made' = made /\ desk[c].at # "idle"
    BY DEF Versions!UpdateForOrganizer, Versions!At
  <1>1. PICK given \in BOOLEAN, blocks \in BOOLEAN, named \in BOOLEAN, marked \in BOOLEAN :
       \E dto \in [Cards -> Designs \cup {Versions!NoCard}], t \in Targets \cup {Versions!Copy(c).work.target} :
         LET cards == IF given THEN [e \in Cards |-> Versions!LiveFields(dto[e])]
                               ELSE Versions!Copy(c).work.cards
             ok    == /\ named /\ t # "" => cards[t] # Versions!NoCard
                      /\ given \/ blocks => invitation.v = Versions!Copy(c).v
         IN  /\ ~given => dto = Versions!Copy(c).work.cards
             /\ named <=> t # Versions!Copy(c).work.target
             /\ marked => blocks /\ Versions!Copy(c).marked
             /\ invitation' = IF ok THEN Versions!Edited(c, given, blocks, named, marked, cards, t)
                              ELSE invitation
    BY Zenon DEF Versions!UpdateForOrganizer
  <1>a. PICK dto \in [Cards -> Designs \cup {Versions!NoCard}], t \in Targets \cup {Versions!Copy(c).work.target} :
         LET cards == IF given THEN [e \in Cards |-> Versions!LiveFields(dto[e])]
                               ELSE Versions!Copy(c).work.cards
             ok    == /\ named /\ t # "" => cards[t] # Versions!NoCard
                      /\ given \/ blocks => invitation.v = Versions!Copy(c).v
         IN  invitation' = IF ok THEN Versions!Edited(c, given, blocks, named, marked, cards, t)
                              ELSE invitation
    BY <1>1
  <1> DEFINE cp == Versions!Copy(c)
  <1>2. cp \in InvitationRows /\ cp.work.target # "none" /\ invitation \in InvitationRows
    BY <1>0, CopiesAreTyped DEF CopyIsSound, RowIsSound
  <1>3. t \in Cards \cup {""} /\ t # "none"
    BY <1>2 DEF Versions!InvitationAssumption, InvitationRows, Contents
  <1>4. \A e \in Cards : Versions!LiveFields(dto[e]) \in CardRows
    <2> TAKE e \in Cards
    <2>1. dto[e] \in CardRows
      <3>1. Designs \subseteq CardRows /\ Versions!NoCard \in CardRows
        BY RowsAreRows DEF Versions!InvitationAssumption, CardRows
      <3> QED  BY <3>1
    <2>2. (dto[e].live /\ dto[e].url) \in BOOLEAN
      OBVIOUS
    <2> QED  BY <2>1, <2>2 DEF Versions!LiveFields, CardRows
  <1> DEFINE cards == [e \in Cards |-> Versions!LiveFields(dto[e])]
             row == Versions!Edited(c, given, blocks, named, marked,
                                    IF given THEN cards ELSE cp.work.cards, t)
  <1>5. cards \in [Cards -> CardRows]
    BY <1>4
  <1>6. CASE invitation' = invitation
    BY <1>0, <1>6, RefusedKeeps
  <1>7. CASE invitation' # invitation
    <2>1. invitation' = row
      BY <1>a, <1>7
    <2> HIDE DEF cards, cp
    <2>2. /\ row \in InvitationRows /\ row.asked = invitation.asked
          /\ row.status = invitation.status /\ row.sent = invitation.sent
          /\ row.published = invitation.published /\ invitation.v <= row.v
          /\ row.work.target \in {t, invitation.work.target}
      <3> DEFINE w == [invitation.work EXCEPT !.cards = IF given THEN cards ELSE @,
                                              !.target = IF named THEN t ELSE @]
                 n == IF given \/ blocks THEN invitation.v + 1 ELSE invitation.v
                 m == IF blocks THEN marked ELSE invitation.marked
                 u == IF cp.unsent THEN invitation.unsent ELSE TRUE
      <3>1. invitation.work \in Contents /\ invitation.v \in Nat
             /\ invitation.marked \in BOOLEAN /\ invitation.unsent \in BOOLEAN
        BY <1>2 DEF InvitationRows
      <3>2. w \in Contents /\ w.target \in {t, invitation.work.target}
        BY <1>3, <1>5, <3>1 DEF Contents
      <3>3. n \in Nat /\ invitation.v <= n
        BY <3>1
      <3>4. m \in BOOLEAN
        BY <3>1
      <3>5. u \in BOOLEAN
        BY <3>1
      <3>6. row = [invitation EXCEPT !.work = w, !.marked = m, !.unsent = u, !.v = n]
        BY <1>2 DEF InvitationRows, Versions!Edited, cp
      <3> HIDE DEF w, n, m, u, row
      <3> QED  BY <1>2, <3>2, <3>3, <3>4, <3>5, <3>6 DEF InvitationRows
    <2>3. invitation.status # "none" /\ invitation.work.target # "none"
      BY <1>0, CopiesAreTyped DEF CopyIsSound, RowIsSound
    <2>4. ApprovedHasVersion(row) /\ (Versions!Alone => SentIsShown(row))
      BY <2>2, CopiesAreTyped DEF ApprovedHasVersion, SentIsShown
    <2>5. made' \subseteq Requests /\ made' \subseteq row.asked
      BY <1>0, <2>2, CopiesAreTyped
    <2> HIDE DEF row
    <2> QED  BY <1>0, <1>3, <2>1, <2>2, <2>3, <2>4, <2>5, EndKeeps
  <1> QED  BY <1>6, <1>7

\* sendToCustomer sends the copy it loaded and answers what that copy had open.
LEMMA SendToKeeps ==
    ASSUME InvitationInv, Versions!InvitationAssumption, NEW c \in Callers, Versions!SendToCustomer(c)
    PROVE  StepKeeps
  <1> DEFINE cp == Versions!Copy(c)
             sent == [invitation EXCEPT !.sent = cp.work,
                      !.unsent = IF cp.unsent THEN FALSE ELSE @,
                      !.status = IF cp.status = "sent" THEN @ ELSE "sent"]
             row == Versions!Answered(c, sent, cp.open)
  <1>0. Versions!Finish(c) /\ ~Versions!At(c, "idle") /\ made' = made /\ desk[c].at # "idle"
    BY DEF Versions!SendToCustomer, Versions!At
  <1>1. /\ cp \in InvitationRows /\ cp.work.target # "none" /\ invitation \in InvitationRows
        /\ invitation.status # "none" /\ invitation.work.target # "none"
        /\ cp.v = invitation.v => cp.asked = invitation.asked
    BY <1>0, CopiesAreTyped DEF CopyIsSound, RowIsSound
  <1>2. CASE invitation' = invitation
    BY <1>0, <1>2, RefusedKeeps
  <1>3. CASE invitation' # invitation
    <2>1. invitation' = row /\ (cp.open = {} \/ invitation.v = cp.v)
      BY <1>3 DEF Versions!SendToCustomer
    <2> HIDE DEF cp
    <2>2. /\ sent \in InvitationRows /\ sent.asked = invitation.asked /\ sent.v = invitation.v
          /\ sent.work = invitation.work /\ sent.published = invitation.published
          /\ sent.sent = cp.work /\ sent.status \in {"sent", invitation.status}
          /\ sent.status = IF cp.status = "sent" THEN invitation.status ELSE "sent"
      BY <1>1 DEF InvitationRows
    <2> HIDE DEF sent
    <2>3. cp.open \subseteq Requests /\ sent.v \in Nat
      BY <1>1, <2>2 DEF InvitationRows
    <2>4. cp.open # {} => Versions!Copy(c).asked = sent.asked
      BY <1>1, <2>1, <2>2 DEF cp
    <2>5. /\ row \in InvitationRows /\ row.asked = sent.asked
          /\ row.status = sent.status /\ row.work = sent.work /\ row.sent = sent.sent
          /\ row.published = sent.published
          /\ row.v = IF cp.open = {} THEN sent.v ELSE sent.v + 1
      BY <2>2, <2>3, <2>4, AnsweredIs
    <2> HIDE DEF row
    <2>6. invitation.v <= row.v /\ row.asked = invitation.asked
      BY <2>2, <2>3, <2>5
    <2>7. ApprovedHasVersion(row)
      BY <2>2, <2>5, CopiesAreTyped DEF ApprovedHasVersion
    <2>8. cp.work # Versions!NoVersion
      BY <1>1 DEF Versions!NoVersion
    <2>9. Versions!Alone => SentIsShown(row)
      <3> SUFFICES ASSUME Versions!Alone PROVE SentIsShown(row)
        OBVIOUS
      <3>1. cp = invitation
        BY <1>0, CopiesAreTyped DEF cp
      <3>2. row.status = "sent"
        BY <2>2, <2>5, <3>1
      <3> QED  BY <2>2, <2>5, <2>8, <3>2 DEF SentIsShown
    <2>10. /\ made' \subseteq Requests /\ made' \subseteq row.asked
           /\ row.status # "none" /\ row.work.target # "none"
      BY <1>0, <1>1, <2>2, <2>5, CopiesAreTyped
    <2> QED  BY <1>0, <2>1, <2>2, <2>5, <2>6, <2>7, <2>9, <2>10, EndKeeps
  <1> QED  BY <1>2, <1>3

\* resolveChangeRequest answers one request, or fails on a newer version.
LEMMA ResolveKeeps ==
    ASSUME InvitationInv, Versions!InvitationAssumption, NEW c \in Callers, Versions!ResolveChangeRequest(c)
    PROVE  StepKeeps
  <1> DEFINE cp == Versions!Copy(c)
  <1>0. Versions!Finish(c) /\ ~Versions!At(c, "idle") /\ made' = made /\ desk[c].at # "idle"
    BY DEF Versions!ResolveChangeRequest, Versions!At
  <1>1. PICK r \in cp.asked :
         invitation' = IF invitation.v = cp.v THEN Versions!Answered(c, invitation, {r}) ELSE invitation
    BY DEF Versions!ResolveChangeRequest
  <1> DEFINE row == Versions!Answered(c, invitation, {r})
  <1>2. /\ cp \in InvitationRows /\ invitation \in InvitationRows
        /\ invitation.status # "none" /\ invitation.work.target # "none"
        /\ cp.v = invitation.v => cp.asked = invitation.asked
    BY <1>0, CopiesAreTyped DEF CopyIsSound, RowIsSound
  <1>3. CASE invitation' = invitation
    BY <1>0, <1>3, RefusedKeeps
  <1>4. CASE invitation' # invitation
    <2>1. invitation' = row /\ invitation.v = cp.v
      BY <1>1, <1>4
    <2>2. {r} \in SUBSET Requests /\ invitation.v \in Nat
      BY <1>2 DEF InvitationRows
    <2>3. /\ row \in InvitationRows /\ row.asked = invitation.asked
          /\ row.status = invitation.status /\ row.work = invitation.work
          /\ row.sent = invitation.sent /\ row.published = invitation.published
          /\ row.v = invitation.v + 1
      BY <1>2, <2>1, <2>2, AnsweredIs
    <2> HIDE DEF row
    <2>4. ApprovedHasVersion(row) /\ (Versions!Alone => SentIsShown(row))
      BY <2>3, CopiesAreTyped DEF ApprovedHasVersion, SentIsShown
    <2>5. /\ made' \subseteq Requests /\ made' \subseteq row.asked /\ invitation.v <= row.v
      BY <1>0, <2>2, <2>3, CopiesAreTyped
    <2> QED  BY <1>0, <1>2, <2>1, <2>3, <2>4, <2>5, EndKeeps
  <1> QED  BY <1>3, <1>4

\* approve publishes what was sent, or what is being worked on when nothing was.
LEMMA ApproveKeeps ==
    ASSUME InvitationInv, Versions!InvitationAssumption, NEW c \in Callers, Versions!Approve(c)
    PROVE  StepKeeps
  <1> DEFINE cp == Versions!Copy(c)
             row == [invitation EXCEPT
                 !.published = IF cp.sent = Versions!NoVersion THEN cp.work ELSE cp.sent,
                 !.status = IF cp.status = "approved" THEN @ ELSE "approved",
                 !.marked = TRUE]
  <1>0. Versions!Finish(c) /\ ~Versions!At(c, "idle") /\ made' = made /\ desk[c].at = "approve"
    BY DEF Versions!Approve, Versions!At
  <1>1. /\ cp \in InvitationRows /\ cp.work.target # "none" /\ invitation \in InvitationRows
        /\ invitation.status # "none" /\ invitation.work.target # "none"
    BY <1>0, CopiesAreTyped DEF CopyIsSound, RowIsSound
  <1>2. CASE invitation' = invitation
    BY <1>0, <1>2, RefusedKeeps
  <1>3. CASE invitation' # invitation
    <2>1. invitation' = row
      BY <1>3 DEF Versions!Approve
    <2> HIDE DEF cp
    <2>2. /\ row \in InvitationRows /\ row.asked = invitation.asked /\ row.v = invitation.v
          /\ row.work = invitation.work /\ row.sent = invitation.sent
          /\ row.published = IF cp.sent = Versions!NoVersion THEN cp.work ELSE cp.sent
          /\ row.status = IF cp.status = "approved" THEN invitation.status ELSE "approved"
      BY <1>1 DEF InvitationRows
    <2> HIDE DEF row
    <2>3. row.published # Versions!NoVersion
      BY <1>1, <2>2 DEF Versions!NoVersion
    <2>4. ApprovedHasVersion(row)
      BY <2>3 DEF ApprovedHasVersion
    <2>5. Versions!Alone => SentIsShown(row)
      <3> SUFFICES ASSUME Versions!Alone, ~Legacy PROVE SentIsShown(row)
        BY DEF SentIsShown
      <3>1. cp = invitation /\ invitation.status \in {"sent", "approved"} /\ SentIsShown(invitation)
        BY <1>0, CopiesAreTyped DEF cp
      <3> QED  BY <2>2, <3>1 DEF SentIsShown
    <2>6. /\ made' \subseteq Requests /\ made' \subseteq row.asked /\ invitation.v <= row.v
          /\ row.status # "none" /\ row.work.target # "none"
      BY <1>0, <1>1, <2>2, CopiesAreTyped DEF InvitationRows
    <2> QED  BY <1>0, <2>1, <2>2, <2>3, <2>4, <2>5, <2>6, EndKeeps
  <1> QED  BY <1>2, <1>3

\* requestChange pushes one request onto the row it loaded.
LEMMA RequestKeeps ==
    ASSUME InvitationInv, Versions!InvitationAssumption, NEW c \in Callers, Versions!RequestChange(c)
    PROVE  StepKeeps
  <1> PICK r \in Requests \ made :
         /\ invitation' = [invitation EXCEPT !.asked = @ \cup {r}, !.open = @ \cup {r}, !.v = @ + 1]
         /\ made' = made \cup {r}
    BY DEF Versions!RequestChange
  <1> DEFINE row == [invitation EXCEPT !.asked = @ \cup {r}, !.open = @ \cup {r}, !.v = @ + 1]
  <1>0. Versions!Finish(c) /\ ~Versions!At(c, "idle") /\ desk[c].at = "request" /\ invitation' = row
    BY DEF Versions!RequestChange, Versions!At
  <1>1. /\ invitation \in InvitationRows /\ invitation.status # "none"
        /\ invitation.work.target # "none" /\ invitation.v \in Nat
    BY <1>0, CopiesAreTyped DEF CopyIsSound, RowIsSound, InvitationRows
  <1>2. /\ row \in InvitationRows /\ row.asked = invitation.asked \cup {r}
        /\ row.status = invitation.status /\ row.work = invitation.work
        /\ row.sent = invitation.sent /\ row.published = invitation.published
        /\ row.v = invitation.v + 1
    <2>1. /\ invitation.asked \cup {r} \in SUBSET Requests
          /\ invitation.open \cup {r} \in SUBSET Requests
          /\ invitation.v + 1 \in Nat
      BY <1>1 DEF InvitationRows
    <2> QED  BY <1>1, <2>1 DEF InvitationRows
  <1> HIDE DEF row
  <1>3. ApprovedHasVersion(row) /\ (Versions!Alone => SentIsShown(row))
    BY <1>2, CopiesAreTyped DEF ApprovedHasVersion, SentIsShown
  <1>4. /\ made' \subseteq Requests /\ made' \subseteq row.asked /\ invitation.v <= row.v
        /\ invitation.v # row.v
    BY <1>1, <1>2, CopiesAreTyped
  <1> QED  BY <1>0, <1>1, <1>2, <1>3, <1>4, EndKeeps

\* Every step keeps the invariant and whatever is published.
LEMMA InvitationStep ==
    ASSUME InvitationInv, Versions!InvitationAssumption, [Versions!Next]_(Versions!invitationVars)
    PROVE  StepKeeps
  <1>1. CASE UNCHANGED <<invitation, desk, made>>
    BY <1>1 DEF InvitationInv, InvitationTypes, CopyIsSound, RowIsSound, ApprovedHasVersion,
                SentIsShown, AloneKnows, Versions!RequestsKept, Versions!Alone,
                StepKeeps, PublishedStays
  <1>2. CASE Versions!GetForOrganizer
    <2>1. invitation = Versions!NoRow
      BY <1>2 DEF Versions!GetForOrganizer, InvitationInv, RowIsSound
    <2>2. Versions!Draft \in InvitationRows /\ RowIsSound(Versions!Draft)
      BY RowsAreRows
    <2>3. /\ Versions!Draft.v = invitation.v /\ Versions!Draft.asked = invitation.asked
          /\ Versions!Draft.status = "draft"
      BY <2>1 DEF Versions!Draft, Versions!NoRow
    <2>4. invitation' = Versions!Draft /\ desk' = desk /\ made' = made
      BY <1>2 DEF Versions!GetForOrganizer
    <2>5. \A c \in Callers : desk[c].at = "idle"
      BY <2>1 DEF InvitationInv, CopyIsSound, Versions!NoRow
    <2>6. InvitationTypes' /\ RowIsSound(invitation)' /\ Versions!RequestsKept'
      BY <2>2, <2>3, <2>4 DEF InvitationInv, InvitationTypes, RowIsSound, Versions!RequestsKept
    <2>7. ApprovedHasVersion(invitation)' /\ (\A c \in Callers : CopyIsSound(desk[c], invitation))'
      BY <2>3, <2>4, <2>5 DEF ApprovedHasVersion, CopyIsSound
    <2>8. AloneKnows'
      BY <2>3, <2>4, <2>5 DEF AloneKnows, SentIsShown
    <2>9. Versions!Draft.published = Versions!NoRow.published
      BY DEF Versions!Draft, Versions!NoRow
    <2> QED  BY <2>1, <2>4, <2>6, <2>7, <2>8, <2>9 DEF InvitationInv, StepKeeps, PublishedStays
  <1>3. CASE Versions!ViewByToken \/ Versions!DismissNotification \/ Versions!PingLive
    BY <1>1, <1>3 DEF Versions!ViewByToken, Versions!DismissNotification, Versions!PingLive
  <1>4. CASE \E c \in Callers : Versions!OrganizerCall(c) \/ Versions!CustomerCall(c)
    BY <1>4, OpenKeeps, SharedKeeps DEF Versions!OrganizerCall, Versions!CustomerCall
  <1>5. CASE \E c \in Callers : Versions!Save(c)
    BY <1>5, EditKeeps, SendToKeeps, ResolveKeeps, ApproveKeeps, RequestKeeps DEF Versions!Save
  <1>6. CASE UNCHANGED Versions!invitationVars
    BY <1>1, <1>6 DEF Versions!invitationVars
  <1> QED  BY <1>2, <1>3, <1>4, <1>5, <1>6 DEF Versions!Next

\* The invariant holds of every behaviour of an invitation.
LEMMA InvitationInvHolds == ASSUME Versions!InvitationAssumption PROVE Versions!Spec => []InvitationInv
  <1>1. Versions!Init => InvitationInv
    BY InvitationInit
  <1>2. InvitationInv /\ [Versions!Next]_(Versions!invitationVars) => InvitationInv'
    BY InvitationStep DEF StepKeeps
  <1> QED  BY <1>1, <1>2, PTL DEF Versions!Spec

\* However many handlers load and save the row at once, no change request that was
\* answered "made" is overwritten; and where handlers do not overlap, an approved
\* invitation shows its guests the version that was approved (sendToCustomer, approve).
THEOREM VersionsStandKept ==
    ASSUME Versions!InvitationAssumption
    PROVE  Versions!Spec => []Versions!VersionsAreKept
  <1>1. InvitationInv => Versions!VersionsAreKept
    BY DEF InvitationInv, AloneKnows, SentIsShown, Versions!VersionsAreKept, Versions!ApprovedIsPublished,
           Versions!CustomerView, Versions!Alone
  <1> QED  BY <1>1, InvitationInvHolds, PTL

\* With no approved row from before versions were kept, a guest link that opens keeps
\* opening through every edit, send, answer and approval, however they overlap.
THEOREM GuestLinksStayLive ==
    ASSUME Versions!InvitationAssumption, ~Legacy
    PROVE  Versions!Spec => Versions!LinkStaysLive
  <1>1. InvitationInv /\ [Versions!Next]_(Versions!invitationVars) => [Versions!StaysLive]_(Versions!invitationVars)
    <2> SUFFICES ASSUME InvitationInv, [Versions!Next]_(Versions!invitationVars)
                 PROVE  Versions!StaysLive
      OBVIOUS
    <2>1. PublishedStays
      BY InvitationStep DEF StepKeeps
    <2>2. Versions!IsLiveForGuests => invitation.published # Versions!NoVersion
      BY DEF InvitationInv, ApprovedHasVersion, Versions!IsLiveForGuests
    <2>3. invitation'.published # Versions!NoVersion => Versions!IsLiveForGuests'
      BY DEF Versions!IsLiveForGuests, Versions!NoVersion, Versions!NoCard
    <2> QED  BY <2>1, <2>2, <2>3 DEF Versions!StaysLive, PublishedStays
  <1> QED  BY <1>1, InvitationInvHolds, PTL DEF Versions!Spec, Versions!LinkStaysLive

-----------------------------------------------------------------------------
(* The guest list (GuestList).                                              *)

\* The instance counts a set as this module does.
LEMMA SameCount == \A S : Invitees!Cardinality(S) = Cardinality(S)
  BY Zenon DEF Invitees!Cardinality, Cardinality
\* The rows of the guest list and the calls under way, with the types that need no
\* model values.
GuestRows == [phone : Phones \cup {"none"}, shares : SUBSET Sends]
CallRows ==
    [at : {"idle", "find", "create", "raced", "clash", "save", "send", "record"},
     does : {"none", "add", "share"}, phone : Phones \cup {"none"}, id : Ids \cup {"none"},
     copy : GuestRows, send : Sends \cup {"none"}]

GuestTypes ==
    /\ guests \in [Ids -> GuestRows]
    /\ call \in [Callers -> CallRows]
    /\ handed \subseteq Ids \X Sends

\* What a call under way knows.
CallIsSound(t, rows, sent) ==
    /\ t.at \in {"find", "create", "raced", "clash", "save"} => t.phone \in Phones
    /\ t.at \in {"clash", "save", "send", "record"} => t.id \in Ids /\ rows[t.id] # Invitees!NoGuest
    /\ t.at = "record" => t.send \in Sends /\ <<t.id, t.send>> \in sent
CallsAreSound == \A c \in Callers : CallIsSound(call[c], guests, handed)

\* Two rows never hold one number; and what was handed to the messenger is told apart.
NumbersDiffer ==
    \A g, h \in Ids : guests[g].phone \in Phones /\ guests[g].phone = guests[h].phone => g = h

HandedOnce == \A h, k \in handed : h[2] = k[2] => h = k

\* The inductive invariant of a guest list.
GuestInv == GuestTypes /\ CallsAreSound /\ NumbersDiffer /\ HandedOnce /\ Invitees!SharesAreKept

\* The look-up by number (findOne({ event, phone })) finds the rows that hold it.
LEMMA HavingIs ==
    ASSUME Invitees!GuestAssumption, NEW p \in Phones
    PROVE  Invitees!Having(p) = {g \in Ids : guests[g].phone = p}
  BY DEF Invitees!GuestAssumption, Invitees!Having, Invitees!Listed, Invitees!NoGuest

\* An empty list satisfies the invariant.
LEMMA GuestInit == ASSUME Invitees!GuestAssumption, Invitees!Init PROVE GuestInv
  <1>1. GuestTypes
    BY DEF Invitees!Init, GuestTypes, GuestRows, CallRows, Invitees!NoGuest, Invitees!NoCall
  <1>2. CallsAreSound
    BY DEF Invitees!Init, CallsAreSound, CallIsSound, Invitees!NoCall
  <1>3. NumbersDiffer /\ HandedOnce /\ Invitees!SharesAreKept
    BY DEF Invitees!GuestAssumption, Invitees!Init, NumbersDiffer, HandedOnce, Invitees!SharesAreKept, Invitees!NoGuest
  <1> QED  BY <1>1, <1>2, <1>3 DEF GuestInv

\* A call that goes on or ends without touching the list keeps the invariant.
LEMMA CallMoves ==
    ASSUME GuestInv, NEW c \in Callers, NEW t \in CallRows, Invitees!Goto(c, t),
           CallIsSound(t, guests, handed), UNCHANGED <<guests, handed>>, ~Invitees!At(c, "record")
    PROVE  GuestInv'
  <1>1. GuestTypes'
    BY DEF GuestInv, GuestTypes, Invitees!Goto
  <1>2. CallsAreSound'
    BY DEF GuestInv, GuestTypes, CallsAreSound, CallIsSound, Invitees!Goto
  <1>3. NumbersDiffer' /\ HandedOnce'
    BY DEF GuestInv, NumbersDiffer, HandedOnce
  <1>4. Invitees!SharesAreKept'
    BY DEF GuestInv, GuestTypes, Invitees!SharesAreKept, Invitees!Goto, Invitees!At
  <1> QED  BY <1>1, <1>2, <1>3, <1>4 DEF GuestInv

\* The idle call fits every list.
LEMMA NoCallIsSound ==
    Invitees!NoCall \in CallRows /\ \A rows, sent : CallIsSound(Invitees!NoCall, rows, sent)
  BY DEF Invitees!NoCall, Invitees!NoGuest, CallRows, GuestRows, CallIsSound

\* What the invariant says of one call.
LEMMA CallsAreTyped ==
    ASSUME GuestInv, NEW c \in Callers
    PROVE  call[c] \in CallRows /\ CallIsSound(call[c], guests, handed)
  BY DEF GuestInv, GuestTypes, CallsAreSound

\* Writing a number nobody else holds, as the unique index makes sure, keeps the
\* invariant: this is the step both an insert and a renumbering take.
LEMMA RowNumbered ==
    ASSUME GuestInv, Invitees!GuestAssumption, NEW c \in Callers, NEW t \in CallRows, Invitees!Goto(c, t),
           NEW g \in Ids, NEW p \in Phones, Invitees!Having(p) \subseteq {g},
           guests' = [guests EXCEPT ![g].phone = p],
           CallIsSound(t, guests', handed'), UNCHANGED handed, ~Invitees!At(c, "record")
    PROVE  GuestInv'
  <1>0. \A h \in Ids : guests[h] # Invitees!NoGuest => guests'[h] # Invitees!NoGuest
    BY DEF GuestInv, GuestTypes, GuestRows, Invitees!NoGuest, Invitees!GuestAssumption
  <1>1. GuestTypes'
    BY DEF GuestInv, GuestTypes, GuestRows, Invitees!Goto
  <1>2. CallsAreSound'
    BY <1>0 DEF GuestInv, GuestTypes, CallRows, CallsAreSound, CallIsSound, Invitees!Goto
  <1>3. NumbersDiffer'
    <2> SUFFICES ASSUME NEW x \in Ids, NEW y \in Ids, guests'[x].phone \in Phones,
                        guests'[x].phone = guests'[y].phone
                 PROVE  x = y
      BY DEF NumbersDiffer
    <2>1. \A z \in Ids : guests'[z].phone = IF z = g THEN p ELSE guests[z].phone
      BY DEF GuestInv, GuestTypes, GuestRows
    <2>2. \A z \in Ids : guests[z].phone = p => z = g
      BY HavingIs
    <2> QED  BY <2>1, <2>2 DEF GuestInv, NumbersDiffer
  <1>4. HandedOnce'
    BY DEF GuestInv, HandedOnce
  <1>5. Invitees!SharesAreKept'
    <2>1. \A z \in Ids : guests'[z].shares = guests[z].shares
      BY DEF GuestInv, GuestTypes, GuestRows
    <2> QED  BY <2>1 DEF GuestInv, GuestTypes, Invitees!SharesAreKept, Invitees!Goto, Invitees!At
  <1> QED  BY <1>1, <1>2, <1>3, <1>4, <1>5 DEF GuestInv

\* Adding or sharing starts by reading the number, and refuses a bad one.
LEMMA AddsKeep ==
    ASSUME GuestInv, NEW c \in Callers, NEW does \in {"add", "share"}, Invitees!AddGuest(c, does)
    PROVE  GuestInv'
  <1> PICK p \in Phones \cup {BadPhone} :
             IF p = BadPhone THEN UNCHANGED call
             ELSE Invitees!Goto(c, [Invitees!NoCall EXCEPT !.at = "find", !.does = does, !.phone = p])
    BY DEF Invitees!AddGuest
  <1>1. CASE p = BadPhone
    <2> UNCHANGED <<guests, call, handed>>
      BY <1>1 DEF Invitees!AddGuest
    <2> QED  BY DEF GuestInv, GuestTypes, CallsAreSound, CallIsSound, NumbersDiffer, HandedOnce,
                    Invitees!SharesAreKept, Invitees!At
  <1>2. CASE p # BadPhone
    <2> DEFINE t == [Invitees!NoCall EXCEPT !.at = "find", !.does = does, !.phone = p]
    <2>1. t \in CallRows /\ CallIsSound(t, guests, handed)
      BY <1>2 DEF Invitees!NoCall, Invitees!NoGuest, CallRows, GuestRows, CallIsSound
    <2>2. Invitees!Goto(c, t)
      BY <1>2
    <2>3. UNCHANGED <<guests, handed>> /\ ~Invitees!At(c, "record")
      BY DEF Invitees!AddGuest, Invitees!At
    <2> HIDE DEF t
    <2> QED  BY <2>1, <2>2, <2>3, CallMoves
  <1> QED  BY <1>1, <1>2

\* A guest that is found is answered, or its share goes on with the copy found.
LEMMA FoundKeeps ==
    ASSUME GuestInv, Invitees!GuestAssumption, NEW c \in Callers, NEW g \in Invitees!Having(call[c].phone),
           call[c].phone \in Phones, Invitees!Found(c, g), UNCHANGED <<guests, handed>>, ~Invitees!At(c, "record")
    PROVE  GuestInv'
  <1>1. CASE call[c].does = "share"
    <2> DEFINE t == [call[c] EXCEPT !.at = "send", !.id = g, !.copy = guests[g]]
    <2>1. call[c] \in CallRows /\ g \in Ids /\ guests[g] \in GuestRows /\ guests[g] # Invitees!NoGuest
      BY CallsAreTyped, HavingIs DEF GuestInv, GuestTypes, Invitees!Having, Invitees!Listed
    <2>2. t \in CallRows /\ CallIsSound(t, guests, handed)
      BY <2>1 DEF CallRows, CallIsSound
    <2>3. Invitees!Goto(c, t)
      BY <1>1 DEF Invitees!Found
    <2> HIDE DEF t
    <2> QED  BY <2>2, <2>3, CallMoves
  <1>2. CASE call[c].does # "share"
    BY <1>2, NoCallIsSound, CallMoves DEF Invitees!Found, Invitees!Finish
  <1> QED  BY <1>1, <1>2

\* The look-up before an insert and the one after a lost race.
LEMMA FindsKeep ==
    ASSUME GuestInv, Invitees!GuestAssumption, NEW c \in Callers, Invitees!FindExisting(c) \/ Invitees!FindRaced(c)
    PROVE  GuestInv'
  <1>1. call[c] \in CallRows /\ CallIsSound(call[c], guests, handed) /\ call[c].phone \in Phones
    BY CallsAreTyped DEF Invitees!FindExisting, Invitees!FindRaced, Invitees!At, CallIsSound
  <1>2. UNCHANGED <<guests, handed>> /\ ~Invitees!At(c, "record")
    BY DEF Invitees!FindExisting, Invitees!FindRaced, Invitees!At
  <1>3. CASE Invitees!Having(call[c].phone) # {}
    BY <1>1, <1>2, <1>3, FoundKeeps DEF Invitees!FindExisting, Invitees!FindRaced
  <1>4. CASE Invitees!Having(call[c].phone) = {} /\ Invitees!FindExisting(c)
    <2> DEFINE t == [call[c] EXCEPT !.at = "create"]
    <2>1. t \in CallRows /\ CallIsSound(t, guests, handed)
      BY <1>1 DEF CallRows, CallIsSound
    <2>2. Invitees!Goto(c, t)
      BY <1>4 DEF Invitees!FindExisting
    <2> HIDE DEF t
    <2> QED  BY <1>2, <2>1, <2>2, CallMoves
  <1>5. CASE Invitees!Having(call[c].phone) = {} /\ Invitees!FindRaced(c)
    BY <1>2, <1>5, NoCallIsSound, CallMoves DEF Invitees!FindRaced, Invitees!Finish
  <1> QED  BY <1>3, <1>4, <1>5

\* The insert: the index refuses a number that came in since the look-up.
LEMMA CreateKeeps ==
    ASSUME GuestInv, Invitees!GuestAssumption, NEW c \in Callers, Invitees!CreateGuest(c)
    PROVE  GuestInv'
  <1>1. call[c] \in CallRows /\ CallIsSound(call[c], guests, handed) /\ call[c].phone \in Phones
    BY CallsAreTyped DEF Invitees!CreateGuest, Invitees!At, CallIsSound
  <1>2. UNCHANGED handed /\ ~Invitees!At(c, "record")
    BY DEF Invitees!CreateGuest, Invitees!At
  <1>3. CASE Invitees!Having(call[c].phone) # {}
    <2> DEFINE t == [call[c] EXCEPT !.at = "raced"]
    <2>1. t \in CallRows /\ CallIsSound(t, guests, handed)
      BY <1>1 DEF CallRows, CallIsSound
    <2>2. Invitees!Goto(c, t) /\ UNCHANGED guests
      BY <1>3 DEF Invitees!CreateGuest
    <2> HIDE DEF t
    <2> QED  BY <1>2, <2>1, <2>2, CallMoves
  <1>4. CASE Invitees!Having(call[c].phone) = {}
    <2> PICK g \in Ids : Invitees!Insert(c, g)
      BY <1>4 DEF Invitees!CreateGuest
    <2> DEFINE t == IF call[c].does = "share"
                      THEN [call[c] EXCEPT !.at = "send", !.id = g, !.copy = guests'[g]]
                      ELSE Invitees!NoCall
    <2>1. guests' = [guests EXCEPT ![g].phone = call[c].phone] /\ Invitees!Goto(c, t)
      BY DEF Invitees!Insert, Invitees!Finish
    <2>2. guests'[g] \in GuestRows /\ guests'[g] # Invitees!NoGuest
      BY <1>1, <2>1 DEF GuestInv, GuestTypes, GuestRows, Invitees!NoGuest, Invitees!GuestAssumption
    <2>3. t \in CallRows /\ CallIsSound(t, guests', handed')
      BY <1>1, <2>2, NoCallIsSound DEF CallRows, CallIsSound, Invitees!NoCall
    <2> HIDE DEF t
    <2> QED  BY <1>1, <1>2, <1>4, <2>1, <2>3, RowNumbered
  <1> QED  BY <1>3, <1>4

\* Renumbering a guest: the copy, the clash check, and a save the index may refuse.
LEMMA RenumberKeeps ==
    ASSUME GuestInv, Invitees!GuestAssumption, NEW c \in Callers,
           Invitees!UpdateGuest(c) \/ Invitees!CheckClash(c) \/ Invitees!SaveGuest(c)
    PROVE  GuestInv'
  <1>0. call[c] \in CallRows /\ CallIsSound(call[c], guests, handed)
    BY CallsAreTyped
  <1>1. CASE Invitees!UpdateGuest(c)
    <2> PICK g \in Invitees!Listed, p \in Phones :
          Invitees!Goto(c, [Invitees!NoCall EXCEPT !.at = IF p = guests[g].phone THEN "idle" ELSE "clash",
                                                   !.phone = p, !.id = g, !.copy = guests[g]])
      BY <1>1 DEF Invitees!UpdateGuest
    <2> DEFINE t == [Invitees!NoCall EXCEPT !.at = IF p = guests[g].phone THEN "idle" ELSE "clash",
                                            !.phone = p, !.id = g, !.copy = guests[g]]
    <2>1. g \in Ids /\ guests[g] \in GuestRows /\ guests[g] # Invitees!NoGuest
      BY DEF GuestInv, GuestTypes, Invitees!Listed
    <2>2. t \in CallRows /\ CallIsSound(t, guests, handed)
      BY <2>1 DEF CallRows, CallIsSound, Invitees!NoCall
    <2>3. UNCHANGED <<guests, handed>> /\ ~Invitees!At(c, "record") /\ Invitees!Goto(c, t)
      BY <1>1 DEF Invitees!UpdateGuest, Invitees!At
    <2> HIDE DEF t
    <2> QED  BY <2>2, <2>3, CallMoves
  <1>2. CASE Invitees!CheckClash(c)
    <2> DEFINE t == IF Invitees!Having(call[c].phone) = {} THEN [call[c] EXCEPT !.at = "save"]
                    ELSE Invitees!NoCall
    <2>1. t \in CallRows /\ CallIsSound(t, guests, handed)
      BY <1>0, <1>2, NoCallIsSound DEF CallRows, CallIsSound, Invitees!CheckClash, Invitees!At
    <2>2. UNCHANGED <<guests, handed>> /\ ~Invitees!At(c, "record") /\ Invitees!Goto(c, t)
      BY <1>2 DEF Invitees!CheckClash, Invitees!At, Invitees!Finish
    <2> HIDE DEF t
    <2> QED  BY <2>1, <2>2, CallMoves
  <1>3. CASE Invitees!SaveGuest(c)
    <2>1. call[c].phone \in Phones /\ call[c].id \in Ids
      BY <1>0, <1>3 DEF Invitees!SaveGuest, Invitees!At, CallIsSound
    <2>2. UNCHANGED handed /\ ~Invitees!At(c, "record") /\ Invitees!Goto(c, Invitees!NoCall)
      BY <1>3 DEF Invitees!SaveGuest, Invitees!At, Invitees!Finish
    <2>3. CASE Invitees!Having(call[c].phone) \subseteq {call[c].id}
      <3>1. guests' = [guests EXCEPT ![call[c].id].phone = call[c].phone]
        BY <1>3, <2>3 DEF Invitees!SaveGuest
      <3> QED  BY <2>1, <2>2, <2>3, <3>1, NoCallIsSound, RowNumbered
    <2>4. CASE ~(Invitees!Having(call[c].phone) \subseteq {call[c].id})
      BY <1>3, <2>2, <2>4, NoCallIsSound, CallMoves DEF Invitees!SaveGuest
    <2> QED  BY <2>3, <2>4
  <1> QED  BY <1>1, <1>2, <1>3

\* A share of a listed guest starts from a copy.
LEMMA ShareKeeps ==
    ASSUME GuestInv, NEW c \in Callers, Invitees!Share(c)
    PROVE  GuestInv'
  <1> PICK g \in Invitees!Listed :
        Invitees!Goto(c, [Invitees!NoCall EXCEPT !.at = "send", !.does = "share", !.id = g, !.copy = guests[g]])
    BY DEF Invitees!Share
  <1> DEFINE t == [Invitees!NoCall EXCEPT !.at = "send", !.does = "share", !.id = g, !.copy = guests[g]]
  <1>1. g \in Ids /\ guests[g] \in GuestRows /\ guests[g] # Invitees!NoGuest
    BY DEF GuestInv, GuestTypes, Invitees!Listed
  <1>2. t \in CallRows /\ CallIsSound(t, guests, handed)
    BY <1>1 DEF CallRows, CallIsSound, Invitees!NoCall
  <1>3. UNCHANGED <<guests, handed>> /\ ~Invitees!At(c, "record") /\ Invitees!Goto(c, t)
    BY DEF Invitees!Share, Invitees!At
  <1> HIDE DEF t
  <1> QED  BY <1>2, <1>3, CallMoves

\* The message goes out before the share is recorded.
LEMMA SendKeeps ==
    ASSUME GuestInv, NEW c \in Callers, Invitees!SendTo(c)
    PROVE  GuestInv'
  <1> PICK s \in Invitees!Unused :
        /\ handed' = handed \cup {<<call[c].id, s>>}
        /\ Invitees!Goto(c, [call[c] EXCEPT !.at = "record", !.send = s])
    BY DEF Invitees!SendTo
  <1> DEFINE t == [call[c] EXCEPT !.at = "record", !.send = s]
  <1>1. call[c] \in CallRows /\ CallIsSound(call[c], guests, handed) /\ call[c].at = "send"
    BY CallsAreTyped DEF Invitees!SendTo, Invitees!At
  <1>2. s \in Sends /\ \A h \in handed : h[2] # s
    BY DEF Invitees!Unused
  <1>3. t \in CallRows /\ CallIsSound(t, guests', handed') /\ t.at = "record" /\ t.send = s
    BY <1>1, <1>2 DEF CallRows, CallIsSound, Invitees!SendTo
  <1>4. Invitees!Goto(c, t) /\ UNCHANGED guests
    BY DEF Invitees!SendTo
  <1> HIDE DEF t
  <1>5. GuestTypes'
    BY <1>1, <1>2, <1>3, <1>4 DEF GuestInv, GuestTypes, Invitees!Goto, CallIsSound
  <1>6. CallsAreSound'
    BY <1>3, <1>4 DEF GuestInv, GuestTypes, CallsAreSound, CallIsSound, Invitees!Goto
  <1>7. NumbersDiffer' /\ HandedOnce'
    BY <1>2, <1>4 DEF GuestInv, NumbersDiffer, HandedOnce
  <1>8. Invitees!SharesAreKept'
    BY <1>1, <1>3, <1>4 DEF GuestInv, GuestTypes, Invitees!SharesAreKept, Invitees!Goto, Invitees!At
  <1> QED  BY <1>5, <1>6, <1>7, <1>8 DEF GuestInv

\* Recording the share is a $push on the row itself, so no share is lost to a copy.
LEMMA RecordKeeps ==
    ASSUME GuestInv, NEW c \in Callers, Invitees!RecordShare(c)
    PROVE  GuestInv'
  <1> DEFINE g == call[c].id
             s == call[c].send
  <1>1. g \in Ids /\ s \in Sends /\ <<g, s>> \in handed /\ guests[g] # Invitees!NoGuest
    BY CallsAreTyped DEF Invitees!RecordShare, Invitees!At, CallIsSound
  <1>2. guests' = [guests EXCEPT ![g].shares = @ \cup {s}] /\ UNCHANGED handed
           /\ Invitees!Goto(c, Invitees!NoCall)
    BY DEF Invitees!RecordShare, Invitees!Finish
  <1> HIDE DEF g, s
  <1>3. \A h \in Ids : /\ guests'[h].phone = guests[h].phone
                       /\ guests'[h].shares = IF h = g THEN guests[h].shares \cup {s}
                                              ELSE guests[h].shares
                       /\ guests[h] # Invitees!NoGuest => guests'[h] # Invitees!NoGuest
    BY <1>1, <1>2 DEF GuestInv, GuestTypes, GuestRows, Invitees!NoGuest
  <1>4. GuestTypes'
    BY <1>1, <1>2, NoCallIsSound DEF GuestInv, GuestTypes, GuestRows, Invitees!Goto
  <1>5. CallsAreSound'
    BY <1>2, <1>3 DEF GuestInv, GuestTypes, CallsAreSound, CallIsSound, Invitees!Goto, Invitees!NoCall, CallRows
  <1>6. NumbersDiffer' /\ HandedOnce'
    BY <1>2, <1>3 DEF GuestInv, NumbersDiffer, HandedOnce
  <1>7. Invitees!SharesAreKept'
    <2> SUFFICES ASSUME NEW h \in handed
                 PROVE  \/ h[2] \in guests'[h[1]].shares
                        \/ \E d \in Callers : (Invitees!At(d, "record") /\ call[d].send = h[2])'
      BY <1>2 DEF Invitees!SharesAreKept
    <2>0. h[1] \in Ids
      BY DEF GuestInv, GuestTypes
    <2>1. CASE h[2] \in guests[h[1]].shares
      BY <1>3, <2>0, <2>1
    <2>2. CASE h[2] = s
      <3>1. h = <<g, s>>
        BY <1>1, <2>2 DEF GuestInv, HandedOnce
      <3>2. h[1] = g /\ h[2] = s
        BY <3>1
      <3> QED  BY <1>1, <1>3, <3>2
    <2>3. CASE \E d \in Callers \ {c} : Invitees!At(d, "record") /\ call[d].send = h[2]
      BY <1>2, <2>3 DEF GuestInv, GuestTypes, Invitees!Goto, Invitees!At
    <2> QED  BY <2>1, <2>2, <2>3 DEF GuestInv, Invitees!SharesAreKept, s
  <1> QED  BY <1>4, <1>5, <1>6, <1>7 DEF GuestInv

\* Every step keeps the invariant.
LEMMA GuestStep ==
    ASSUME GuestInv, Invitees!GuestAssumption, [Invitees!Next]_(Invitees!guestVars)
    PROVE  GuestInv'
  <1>1. CASE UNCHANGED Invitees!guestVars
    BY <1>1 DEF Invitees!guestVars, GuestInv, GuestTypes, CallsAreSound, CallIsSound, NumbersDiffer,
                HandedOnce, Invitees!SharesAreKept, Invitees!At
  <1>2. CASE Invitees!Next
    BY <1>2, AddsKeep, FindsKeep, CreateKeeps, RenumberKeeps, ShareKeeps, SendKeeps, RecordKeeps
       DEF Invitees!Next
  <1> QED  BY <1>1, <1>2

\* The invariant holds of every behaviour of the guest list.
LEMMA GuestInvHolds == ASSUME Invitees!GuestAssumption PROVE Invitees!Spec => []GuestInv
  <1>1. Invitees!Init => GuestInv
    BY GuestInit
  <1>2. GuestInv /\ [Invitees!Next]_(Invitees!guestVars) => GuestInv'
    BY GuestStep
  <1> QED  BY <1>1, <1>2, PTL DEF Invitees!Spec

\* A set whose elements are all equal has at most one.
LEMMA AtMostOne ==
    ASSUME NEW S, \A x, y \in S : x = y
    PROVE  Cardinality(S) <= 1
  <1>1. CASE S = {}
    BY <1>1, FS_EmptySet
  <1>2. CASE S # {}
    <2> PICK x \in S : S = {x}
      BY <1>2
    <2> QED  BY FS_Singleton
  <1> QED  BY <1>1, <1>2

\* However many requests add, share with and renumber guests at once, a number has one
\* row (addGuest and shareWithGuest answer the row the index kept) and every share that
\* went out is on record or about to be (recordShare).
THEOREM GuestsStayOnTheList ==
    ASSUME Invitees!GuestAssumption
    PROVE  Invitees!Spec => []Invitees!GuestsAreKept
  <1>1. GuestInv => Invitees!GuestsAreKept
    <2> SUFFICES ASSUME GuestInv PROVE Invitees!GuestsAreKept
      OBVIOUS
    <2>1. \A p \in Phones : \A x, y \in Invitees!Having(p) : x = y
      BY HavingIs DEF GuestInv, NumbersDiffer
    <2>2. \A p \in Phones : Cardinality(Invitees!Having(p)) <= 1
      BY <2>1, AtMostOne
    <2>3. Invitees!OneGuestPerNumber
      BY <2>2, SameCount DEF Invitees!OneGuestPerNumber
    <2> QED  BY <2>3 DEF Invitees!GuestsAreKept, GuestInv
  <1> QED  BY <1>1, GuestInvHolds, PTL

-----------------------------------------------------------------------------
(* The album (Memories).                                                    *)

\* Who uploads, and the types of an item and of an upload under way.
Hands == Guests \cup {"none", "host", "organizer"}
Tags  == SubEvents \cup {""}
MediaRows ==
    [by : Hands, sub : Tags, status : {"none", "pending", "published", "hidden"},
     moderation : {"none", "notRequired", "awaiting", "approved", "rejected"},
     visibility : {"none", "uploader", "gallery"}, quality : {"ok", "flagged"},
     flags : SUBSET {"blurry", "rejected"}, parts : SUBSET Album!Parts,
     print : Prints \cup {"none"}, likes : SUBSET Guests]
UploadRows ==
    [at : {"idle", "store", "insert", "files", "delete"}, by : Hands, sub : Tags,
     print : Prints \cup {"none"}, blurry : BOOLEAN, awaiting : BOOLEAN,
     id : Media \cup {"none"}, parts : SUBSET Album!Parts]

MemoryTypes ==
    /\ settings \in [{"enabled", "guestUpload", "guestView", "guestDownload", "moderation"}
                       -> BOOLEAN]
    /\ media \in [Media -> MediaRows]
    /\ upload \in [Uploads -> UploadRows]

\* An item whose files were stored has no row yet, and is nobody else's.
InsertIsOwn ==
    \A u \in Uploads : Album!At(u, "insert") =>
      /\ upload[u].id \in Media /\ media[upload[u].id] = Album!NoMedia
      /\ \A p \in upload[u].parts : <<upload[u].id, p>> \in files
      /\ \A v \in Uploads \ {u} :
           upload[v].at \in {"insert", "files", "delete"} => upload[v].id # upload[u].id

\* Only a removal takes files from under a row.
FilesStay == \A m \in Media : m \in leaving \/ \A p \in media[m].parts : <<m, p>> \in files

RemovalsName == \A u \in Uploads : upload[u].at \in {"files", "delete"} => upload[u].id \in Media

\* What is past moderation was passed.
WasPassed == \A m \in Media : Album!IsPastModeration(media[m].moderation) => m \in passed

\* The inductive invariant of an album.
MemoryInv == MemoryTypes /\ InsertIsOwn /\ FilesStay /\ RemovalsName /\ WasPassed

\* No item and no upload are of their types.
LEMMA NothingIsTyped == Album!NoMedia \in MediaRows /\ Album!NoUpload \in UploadRows
  BY DEF Album!NoMedia, Album!NoUpload, MediaRows, UploadRows, Hands, Tags

\* An empty album satisfies the invariant.
LEMMA MemoryInit == ASSUME Album!MemoriesAssumption, Album!Init PROVE MemoryInv
  <1>1. MemoryTypes
    BY NothingIsTyped DEF Album!Init, Album!MemoriesAssumption, MemoryTypes
  <1>2. \A u \in Uploads : upload[u].at = "idle"
    BY DEF Album!Init, Album!NoUpload
  <1>3. \A m \in Media : media[m].parts = {} /\ media[m].moderation = "none"
    BY DEF Album!Init, Album!NoMedia
  <1> QED
    BY <1>1, <1>2, <1>3 DEF MemoryInv, InsertIsOwn, FilesStay, RemovalsName, WasPassed, Album!At,
                            Album!IsPastModeration

\* The calls that change one row leave its files and what is being inserted.
LEMMA RowKeeps ==
    ASSUME MemoryInv, NEW m \in Album!Rows, NEW row \in MediaRows, row.parts = media[m].parts,
           media' = [media EXCEPT ![m] = row], Album!Kept,
           Album!IsPastModeration(row.moderation) => m \in passed',
           \A n \in Media \ {m} : n \in passed => n \in passed'
    PROVE  MemoryInv'
  <1>0. m \in Media /\ media[m] # Album!NoMedia
    BY DEF Album!Rows
  <1>1. MemoryTypes'
    BY <1>0 DEF MemoryInv, MemoryTypes, Album!Kept
  <1>2. \A n \in Media : media'[n].parts = media[n].parts /\ (n # m => media'[n] = media[n])
    BY <1>0 DEF MemoryInv, MemoryTypes
  <1>3. InsertIsOwn'
    BY <1>0, <1>2 DEF MemoryInv, InsertIsOwn, Album!Kept, Album!At
  <1>4. FilesStay' /\ RemovalsName'
    BY <1>2 DEF MemoryInv, FilesStay, RemovalsName, Album!Kept
  <1>5. media'[m] = row
    BY <1>0 DEF MemoryInv, MemoryTypes
  <1>6. WasPassed'
    BY <1>2, <1>5 DEF MemoryInv, WasPassed, Album!IsPastModeration
  <1> QED  BY <1>1, <1>3, <1>4, <1>6 DEF MemoryInv

\* Hiding, moderating, overriding and liking change one row in place.
LEMMA RowStep ==
    ASSUME MemoryInv, NEW m \in Album!Rows, NEW b \in BOOLEAN,
           \/ Album!SetHidden(m, b) \/ Album!Moderate(m, b)
           \/ \E g \in Guests : Album!Override(m, g) \/ Album!Like(m, g, b)
    PROVE  MemoryInv'
  <1>0. /\ m \in Media /\ media[m] \in MediaRows
        /\ Album!IsPastModeration(media[m].moderation) => m \in passed
    BY DEF Album!Rows, MemoryInv, MemoryTypes, WasPassed
  <1>1. CASE Album!SetHidden(m, b)
    <2> DEFINE row == [media[m] EXCEPT !.status = IF b THEN "hidden" ELSE "published"]
    <2>1. /\ row \in MediaRows /\ row.parts = media[m].parts
          /\ row.moderation = media[m].moderation
      BY <1>0 DEF MediaRows
    <2>2. media' = [media EXCEPT ![m] = row] /\ Album!Kept /\ passed' = passed
      BY <1>1 DEF Album!SetHidden
    <2> HIDE DEF row
    <2> QED  BY <1>0, <2>1, <2>2, RowKeeps
  <1>2. CASE Album!Moderate(m, b)
    <2> DEFINE row == IF b
           THEN [media[m] EXCEPT !.moderation = "approved", !.status = "published",
                                 !.visibility = "gallery"]
           ELSE [media[m] EXCEPT !.moderation = "rejected", !.status = "hidden",
                                 !.flags = media[m].flags \cup {"rejected"}]
    <2>1. media[m].flags \cup {"rejected"} \in SUBSET {"blurry", "rejected"}
      BY <1>0 DEF MediaRows
    <2>2. /\ row \in MediaRows /\ row.parts = media[m].parts
          /\ row.moderation = IF b THEN "approved" ELSE "rejected"
      BY <1>0, <2>1 DEF MediaRows
    <2>3. /\ media' = [media EXCEPT ![m] = row] /\ Album!Kept
          /\ passed' = IF b THEN passed \cup {m} ELSE passed \ {m}
      BY <1>2 DEF Album!Moderate
    <2> HIDE DEF row
    <2>4. Album!IsPastModeration(row.moderation) => m \in passed'
      BY <2>2, <2>3 DEF Album!IsPastModeration
    <2>5. \A n \in Media \ {m} : n \in passed => n \in passed'
      BY <2>3
    <2> QED  BY <2>2, <2>3, <2>4, <2>5, RowKeeps
  <1>3. ASSUME NEW g \in Guests, Album!Override(m, g) PROVE MemoryInv'
    <2> DEFINE row == [media[m] EXCEPT !.visibility = "gallery", !.flags = {}, !.quality = "ok"]
    <2>1. /\ row \in MediaRows /\ row.parts = media[m].parts
          /\ row.moderation = media[m].moderation
      BY <1>0 DEF MediaRows
    <2>2. media' = [media EXCEPT ![m] = row] /\ Album!Kept /\ passed' = passed
      BY <1>0, <1>3 DEF Album!Override, MemoryInv, MemoryTypes
    <2> HIDE DEF row
    <2> QED  BY <1>0, <2>1, <2>2, RowKeeps
  <1>4. ASSUME NEW g \in Guests, Album!Like(m, g, b) PROVE MemoryInv'
    <2> DEFINE likes == IF b THEN media[m].likes \cup {g} ELSE media[m].likes \ {g}
               row == [media[m] EXCEPT !.likes = likes]
    <2>1. likes \in SUBSET Guests
      BY <1>0 DEF MediaRows
    <2>2. media' = [media EXCEPT ![m] = row] /\ Album!Kept /\ passed' = passed
      BY <1>4 DEF Album!Like
    <2> HIDE DEF likes
    <2>3. /\ row \in MediaRows /\ row.parts = media[m].parts
          /\ row.moderation = media[m].moderation
      BY <1>0, <2>1 DEF MediaRows
    <2> HIDE DEF row
    <2> QED  BY <1>0, <2>2, <2>3, RowKeeps
  <1> QED  BY <1>1, <1>2, <1>3, <1>4

\* An upload that is let in has stored nothing yet.
LEMMA IngestKeeps ==
    ASSUME MemoryInv, NEW u \in Uploads, NEW who \in Hands, NEW allowed \in SUBSET SubEvents,
           Album!At(u, "idle"), Album!Ingest(u, who, allowed)
    PROVE  MemoryInv'
  <1> PICK p \in Prints, blurry \in BOOLEAN, s \in Album!SubEventFor(allowed) :
        upload' = [upload EXCEPT ![u] = [Album!NoUpload EXCEPT !.at = "store", !.by = who,
                      !.sub = s, !.print = p, !.blurry = blurry,
                      !.awaiting = settings.moderation]]
    BY DEF Album!Ingest
  <1> DEFINE t == [Album!NoUpload EXCEPT !.at = "store", !.by = who, !.sub = s, !.print = p,
                                         !.blurry = blurry, !.awaiting = settings.moderation]
  <1>1. settings.moderation \in BOOLEAN /\ s \in Tags
    BY DEF MemoryInv, MemoryTypes, Album!SubEventFor, Tags
  <1>2. t \in UploadRows /\ t.at = "store"
    BY <1>1 DEF Album!NoUpload, UploadRows
  <1>3. upload' = [upload EXCEPT ![u] = t] /\ UNCHANGED <<settings, media, files, leaving, passed>>
    BY DEF Album!Ingest
  <1> HIDE DEF t
  <1>4. \A v \in Uploads : upload'[v] = IF v = u THEN t ELSE upload[v]
    BY <1>3 DEF MemoryInv, MemoryTypes
  <1>5. MemoryTypes'
    BY <1>2, <1>3 DEF MemoryInv, MemoryTypes
  <1>6. InsertIsOwn' /\ FilesStay' /\ RemovalsName' /\ WasPassed'
    BY <1>2, <1>3, <1>4 DEF MemoryInv, InsertIsOwn, FilesStay, RemovalsName, WasPassed, Album!At
  <1> QED  BY <1>5, <1>6 DEF MemoryInv

\* Storing picks an identity no row and no upload has.
LEMMA StoreKeeps ==
    ASSUME MemoryInv, NEW u \in Uploads, Album!Store(u)
    PROVE  MemoryInv'
  <1> PICK m \in Album!Fresh, parts \in {{Album!Originals}, Album!Parts} :
         /\ files' = files \cup {<<m, p>> : p \in parts}
         /\ upload' = [upload EXCEPT ![u].at = "insert", ![u].id = m, ![u].parts = parts]
    BY DEF Album!Store
  <1>1. m \in Media /\ media[m] = Album!NoMedia /\ parts \in SUBSET Album!Parts
          /\ \A v \in Uploads : upload[v].id # m
    BY DEF Album!Fresh, Album!Rows, Album!Parts
  <1>2. \A v \in Uploads \ {u} : upload'[v] = upload[v]
    BY DEF MemoryInv, MemoryTypes
  <1>3. /\ upload'[u] \in UploadRows /\ upload'[u].at = "insert" /\ upload'[u].id = m
        /\ upload'[u].parts = parts
    BY <1>1 DEF MemoryInv, MemoryTypes, UploadRows
  <1>4. UNCHANGED <<settings, media, leaving, passed>> /\ files \subseteq files'
          /\ \A p \in parts : <<m, p>> \in files'
    BY DEF Album!Store
  <1>5. MemoryTypes'
    BY <1>2, <1>3, <1>4 DEF MemoryInv, MemoryTypes
  <1>6. InsertIsOwn'
    <2> SUFFICES ASSUME NEW v \in Uploads, upload'[v].at = "insert"
                 PROVE  /\ upload'[v].id \in Media /\ media[upload'[v].id] = Album!NoMedia
                        /\ \A p \in upload'[v].parts : <<upload'[v].id, p>> \in files'
                        /\ \A w \in Uploads \ {v} :
                             upload'[w].at \in {"insert", "files", "delete"}
                               => upload'[w].id # upload'[v].id
      BY <1>4 DEF InsertIsOwn, Album!At
    <2>1. CASE v = u
      BY <1>1, <1>2, <1>3, <1>4, <2>1
    <2>2. CASE v # u
      BY <1>1, <1>2, <1>3, <1>4, <2>2 DEF MemoryInv, InsertIsOwn, Album!At
    <2> QED  BY <2>1, <2>2
  <1>7. RemovalsName'
    BY <1>2, <1>3 DEF MemoryInv, RemovalsName
  <1>8. FilesStay' /\ WasPassed'
    BY <1>4 DEF MemoryInv, FilesStay, WasPassed
  <1> QED  BY <1>5, <1>6, <1>7, <1>8 DEF MemoryInv

\* The row is made when its files are there.
LEMMA InsertKeeps ==
    ASSUME MemoryInv, NEW u \in Uploads, Album!InsertMedia(u)
    PROVE  MemoryInv'
  <1> DEFINE t == upload[u]
             row == [by |-> t.by, sub |-> t.sub,
         status     |-> IF t.awaiting THEN "pending" ELSE "published",
         moderation |-> IF t.awaiting THEN "awaiting" ELSE "notRequired",
         visibility |-> IF t.blurry THEN "uploader" ELSE "gallery",
         quality    |-> IF t.blurry THEN "flagged" ELSE "ok",
         flags      |-> IF t.blurry THEN {"blurry"} ELSE {},
         parts      |-> t.parts, print |-> t.print, likes |-> {}]
  <1>1. t \in UploadRows
    BY DEF MemoryInv, MemoryTypes
  <1>2. /\ row \in MediaRows /\ row.parts = t.parts
        /\ row.moderation = IF t.awaiting THEN "awaiting" ELSE "notRequired"
    BY <1>1 DEF UploadRows, MediaRows
  <1>3. /\ media' = [media EXCEPT ![t.id] = row]
        /\ upload' = [upload EXCEPT ![u] = Album!NoUpload]
        /\ UNCHANGED <<settings, files, leaving>>
        /\ passed' = IF t.awaiting THEN passed ELSE passed \cup {t.id}
    BY DEF Album!InsertMedia, Album!Finish
  <1>4. /\ t.id \in Media /\ \A p \in t.parts : <<t.id, p>> \in files
        /\ \A v \in Uploads \ {u} :
             upload[v].at \in {"insert", "files", "delete"} => upload[v].id # t.id
    BY DEF MemoryInv, InsertIsOwn, Album!InsertMedia
  <1> HIDE DEF t, row
  <1>5. MemoryTypes'
    BY <1>2, <1>3, NothingIsTyped DEF MemoryInv, MemoryTypes
  <1>6. \A v \in Uploads : upload'[v] = IF v = u THEN Album!NoUpload ELSE upload[v]
    BY <1>3 DEF MemoryInv, MemoryTypes
  <1>7. Album!NoUpload.at = "idle"
    BY DEF Album!NoUpload
  <1>8. \A n \in Media : media'[n] = IF n = t.id THEN row ELSE media[n]
    BY <1>3 DEF MemoryInv, MemoryTypes
  <1>9. InsertIsOwn' /\ RemovalsName'
    BY <1>3, <1>4, <1>6, <1>7, <1>8 DEF MemoryInv, InsertIsOwn, RemovalsName, Album!At
  <1>10. FilesStay'
    BY <1>2, <1>3, <1>4, <1>8 DEF MemoryInv, FilesStay
  <1>11. WasPassed'
    BY <1>2, <1>3, <1>8 DEF MemoryInv, WasPassed, Album!IsPastModeration
  <1> QED  BY <1>5, <1>9, <1>10, <1>11 DEF MemoryInv

\* A removal names a row, which nobody inserts.
LEMMA LoadToRemoveKeeps ==
    ASSUME MemoryInv, NEW u \in Uploads, Album!LoadToRemove(u)
    PROVE  MemoryInv'
  <1> PICK m \in Album!Rows :
        upload' = [upload EXCEPT ![u] = [Album!NoUpload EXCEPT !.at = "files", !.id = m,
                                                               !.parts = media[m].parts]]
    BY DEF Album!LoadToRemove
  <1> DEFINE t == [Album!NoUpload EXCEPT !.at = "files", !.id = m, !.parts = media[m].parts]
  <1>1. m \in Media /\ media[m] # Album!NoMedia /\ media[m].parts \in SUBSET Album!Parts
    BY DEF Album!Rows, MemoryInv, MemoryTypes, MediaRows
  <1>2. t \in UploadRows /\ t.at = "files" /\ t.id = m
    BY <1>1, NothingIsTyped DEF Album!NoUpload, UploadRows
  <1>3. UNCHANGED <<settings, media, files, leaving, passed>> /\ upload' = [upload EXCEPT ![u] = t]
    BY DEF Album!LoadToRemove
  <1> HIDE DEF t
  <1>4. \A v \in Uploads : upload'[v] = IF v = u THEN t ELSE upload[v]
    BY <1>3 DEF MemoryInv, MemoryTypes
  <1>5. MemoryTypes'
    BY <1>2, <1>3 DEF MemoryInv, MemoryTypes
  <1>6. InsertIsOwn' /\ RemovalsName'
    BY <1>1, <1>2, <1>3, <1>4 DEF MemoryInv, InsertIsOwn, RemovalsName, Album!At
  <1>7. FilesStay' /\ WasPassed'
    BY <1>3 DEF MemoryInv, FilesStay, WasPassed
  <1> QED  BY <1>5, <1>6, <1>7 DEF MemoryInv

\* A removal takes the files of its own item only, and the row is known to go.
LEMMA RemoveKeeps ==
    ASSUME MemoryInv, NEW u \in Uploads, Album!RemoveFiles(u)
    PROVE  MemoryInv'
  <1> DEFINE d == upload[u]
  <1> PICK gone \in SUBSET {<<d.id, p>> : p \in d.parts} : files' = files \ gone
    BY DEF Album!RemoveFiles
  <1>1. /\ leaving' = leaving \cup ({d.id} \cap Album!Rows)
        /\ upload' = [upload EXCEPT ![u].at = "delete"]
        /\ UNCHANGED <<settings, media, passed>> /\ d.at = "files" /\ d.id \in Media /\ d \in UploadRows
    BY DEF Album!RemoveFiles, Album!At, MemoryInv, MemoryTypes, RemovalsName
  <1>2. \A v \in Uploads : upload'[v] = IF v = u THEN [d EXCEPT !.at = "delete"] ELSE upload[v]
    BY <1>1 DEF MemoryInv, MemoryTypes
  <1>3. upload'[u] \in UploadRows /\ upload'[u].at = "delete" /\ upload'[u].id = d.id
    BY <1>1, <1>2 DEF UploadRows
  <1>4. \A n \in Media \ {d.id} : \A p : <<n, p>> \in files => <<n, p>> \in files'
    OBVIOUS
  <1>5. d.id \in leaving' \/ media[d.id].parts = {}
    <2>1. Album!NoMedia.parts = {}
      BY DEF Album!NoMedia
    <2> HIDE DEF d
    <2> QED  BY <1>1, <2>1 DEF Album!Rows
  <1>6. MemoryTypes'
    BY <1>1, <1>2, <1>3 DEF MemoryInv, MemoryTypes
  <1>7. InsertIsOwn'
    <2> SUFFICES ASSUME NEW v \in Uploads, upload'[v].at = "insert"
                 PROVE  /\ upload'[v].id \in Media /\ media[upload'[v].id] = Album!NoMedia
                        /\ \A p \in upload'[v].parts : <<upload'[v].id, p>> \in files'
                        /\ \A w \in Uploads \ {v} :
                             upload'[w].at \in {"insert", "files", "delete"}
                               => upload'[w].id # upload'[v].id
      BY <1>1 DEF InsertIsOwn, Album!At
    <2>1. v # u /\ upload'[v] = upload[v]
      BY <1>2, <1>3
    <2>2. upload[v].id \in Media \ {d.id} /\ media[upload[v].id] = Album!NoMedia
      BY <1>1, <2>1 DEF MemoryInv, InsertIsOwn, Album!At
    <2> HIDE DEF d
    <2> QED  BY <1>2, <1>3, <1>4, <2>1, <2>2 DEF MemoryInv, InsertIsOwn, Album!At
  <1>8. RemovalsName' /\ WasPassed'
    BY <1>1, <1>2, <1>3 DEF MemoryInv, RemovalsName, WasPassed
  <1>9. FilesStay'
    BY <1>1, <1>4, <1>5 DEF MemoryInv, FilesStay
  <1> QED  BY <1>6, <1>7, <1>8, <1>9 DEF MemoryInv

\* The row goes last.
LEMMA DeleteKeeps ==
    ASSUME MemoryInv, NEW u \in Uploads, Album!DeleteRow(u)
    PROVE  MemoryInv'
  <1> DEFINE m == upload[u].id
  <1>1. /\ m \in Media /\ UNCHANGED <<settings, files>>
        /\ media' = [media EXCEPT ![m] = Album!NoMedia]
        /\ upload' = [upload EXCEPT ![u] = Album!NoUpload]
        /\ leaving' = leaving \ {m} /\ passed' = passed \ {m} /\ upload[u].at = "delete"
    BY DEF Album!DeleteRow, Album!Finish, Album!At, MemoryInv, RemovalsName
  <1>2. MemoryTypes'
    BY <1>1, NothingIsTyped DEF MemoryInv, MemoryTypes
  <1>3. \A v \in Uploads : upload'[v] = IF v = u THEN Album!NoUpload ELSE upload[v]
    BY <1>1 DEF MemoryInv, MemoryTypes
  <1>4. /\ Album!NoUpload.at = "idle" /\ Album!NoMedia.parts = {}
        /\ ~Album!IsPastModeration(Album!NoMedia.moderation)
    BY DEF Album!NoUpload, Album!NoMedia, Album!IsPastModeration
  <1>5. \A n \in Media : media'[n] = IF n = m THEN Album!NoMedia ELSE media[n]
    BY <1>1 DEF MemoryInv, MemoryTypes
  <1> HIDE DEF m
  <1>6. InsertIsOwn' /\ RemovalsName'
    BY <1>1, <1>3, <1>4, <1>5 DEF MemoryInv, InsertIsOwn, RemovalsName, Album!At
  <1>7. FilesStay' /\ WasPassed'
    BY <1>1, <1>4, <1>5 DEF MemoryInv, FilesStay, WasPassed
  <1> QED  BY <1>2, <1>6, <1>7 DEF MemoryInv

\* A call that stops midway leaves the rows and the files as they are.
LEMMA StopKeeps ==
    ASSUME MemoryInv, NEW u \in Uploads, Album!Stop(u)
    PROVE  MemoryInv'
  <1>1. upload' = [upload EXCEPT ![u] = Album!NoUpload]
          /\ UNCHANGED <<settings, media, files, leaving, passed>>
    BY DEF Album!Stop, Album!Finish
  <1>2. \A v \in Uploads : upload'[v] = IF v = u THEN Album!NoUpload ELSE upload[v]
    BY <1>1 DEF MemoryInv, MemoryTypes
  <1>3. Album!NoUpload.at = "idle"
    BY DEF Album!NoUpload
  <1>4. MemoryTypes'
    BY <1>1, NothingIsTyped DEF MemoryInv, MemoryTypes
  <1> QED
    BY <1>1, <1>2, <1>3, <1>4 DEF MemoryInv, InsertIsOwn, FilesStay, RemovalsName, WasPassed, Album!At

\* Every step keeps the invariant.
LEMMA MemoryStep ==
    ASSUME MemoryInv, Album!MemoriesAssumption, [Album!Next]_(Album!memoryVars)
    PROVE  MemoryInv'
  <1>1. CASE UNCHANGED Album!memoryVars
    BY <1>1 DEF Album!memoryVars, MemoryInv, MemoryTypes, InsertIsOwn, FilesStay, RemovalsName,
                WasPassed, Album!At
  <1>2. CASE Album!SaveSettings
    <2>1. settings' \in [{"enabled", "guestUpload", "guestView", "guestDownload", "moderation"}
                           -> BOOLEAN]
      BY <1>2 DEF Album!SaveSettings, MemoryInv, MemoryTypes
    <2> QED
      BY <1>2, <2>1 DEF Album!SaveSettings, MemoryInv, MemoryTypes, InsertIsOwn, FilesStay,
                        RemovalsName, WasPassed, Album!At
  <1>3. ASSUME NEW u \in Uploads,
               (\E g \in Guests : Album!Upload(u, g))
                 \/ \E who \in {"host", "organizer"} : Album!UploadAsStaff(u, who)
        PROVE  MemoryInv'
    BY <1>3, IngestKeeps DEF Album!Upload, Album!UploadAsStaff, Album!MemoriesAssumption, Hands
  <1>4. ASSUME NEW u \in Uploads,
               \/ Album!Store(u) \/ Album!InsertMedia(u) \/ Album!LoadToRemove(u)
               \/ Album!RemoveFiles(u) \/ Album!DeleteRow(u) \/ Album!Stop(u)
        PROVE  MemoryInv'
    BY <1>4, StoreKeeps, InsertKeeps, LoadToRemoveKeeps, RemoveKeeps, DeleteKeeps, StopKeeps
  <1>5. ASSUME NEW m \in Album!Rows,
               \/ \E b \in BOOLEAN : Album!SetHidden(m, b) \/ Album!Moderate(m, b)
               \/ \E g \in Guests : Album!Override(m, g) \/ \E on \in BOOLEAN : Album!Like(m, g, on)
        PROVE  MemoryInv'
    BY <1>5, RowStep
  <1> QED  BY <1>1, <1>2, <1>3, <1>4, <1>5 DEF Album!Next

\* However uploads and removals interleave, call by call, and wherever one fails or dies, with
\* verdicts, overrides and hiding as single steps in between: the gallery's query and the rule
\* for one item agree on what a guest can see; a guest sees of others only what nobody had to
\* pass or the host's last verdict passed; and a row has its files but for one whose removal has
\* begun.
THEOREM AlbumsStayWhole ==
    ASSUME Album!MemoriesAssumption
    PROVE  Album!Spec => []Album!AlbumIsWhole
  <1>1. Album!Init => MemoryInv
    BY MemoryInit
  <1>2. MemoryInv /\ [Album!Next]_(Album!memoryVars) => MemoryInv'
    BY MemoryStep
  <1>3. MemoryInv => Album!AlbumIsWhole
    <2>1. Album!GalleryIsReadable
      BY DEF Album!GalleryIsReadable, Album!Gallery, Album!Item, Album!PublishedFilter, Album!CanReadMedia,
             Album!IsInGallery, Album!IsPastModeration, Album!Of, Album!StateOf, Album!Awaiting
    <2>2. MemoryInv => Album!RowsHaveFiles
      BY DEF MemoryInv, FilesStay, Album!RowsHaveFiles, Album!Rows
    <2>3. MemoryInv => Album!OnlyWhatWasPassed
      <3>1. \A g : \A m \in (Album!Item(g) \cup Album!Download(g)) \ Album!Of(g) :
              m \in Media /\ Album!IsPastModeration(media[m].moderation)
        BY DEF Album!Item, Album!Download, Album!CanReadMedia, Album!IsInGallery, Album!Of, Album!Rows
      <3>2. \A g : \A m \in Album!Gallery(g) :
              m \in Media /\ Album!IsPastModeration(media[m].moderation)
        BY DEF Album!Gallery, Album!PublishedFilter, Album!IsPastModeration, Album!Rows
      <3> QED  BY <3>1, <3>2 DEF MemoryInv, WasPassed, Album!OnlyWhatWasPassed
    <2> QED  BY <2>1, <2>2, <2>3 DEF Album!AlbumIsWhole
  <1> QED  BY <1>1, <1>2, <1>3, PTL DEF Album!Spec

-----------------------------------------------------------------------------
(* The saved addresses (Addresses).                                         *)

\* The types of an address and of a request at the book.
AddressRows == [there : BOOLEAN, default : BOOLEAN]
AddressDesks == [at : {"idle", "clear", "write", "delete", "find", "heir"}, id : Nat, copy : BOOLEAN,
                 asked : {"yes", "no", "unsaid"}]

\* The addresses there are and the marked ones, in rows b; the mark is where the choice n is.
There(b) == {a \in DOMAIN b : b[a].there}
Marks(b) == {a \in There(b) : b[a].default}
Matches(b, n, s) == s = "no" => Marks(b) = IF n = 0 THEN {} ELSE {n}

\* What a request that stands at d owes the rows b, the choice n and the history s.
AddressFits(d, b, n, s) ==
    /\ d.at \in {"idle", "clear", "delete"} => Matches(b, n, s)
    /\ d.at = "clear" => d.asked = "yes"
    /\ d.at \in {"clear", "write"} => d.id = 0 \/ d.id \in There(b)
    /\ d.at = "write" =>
         IF d.asked = "yes" THEN Marks(b) = {}
         ELSE Matches(b, n, s) /\ (d.id # 0 => d.copy = b[d.id].default)
    /\ d.at \in {"delete", "heir"} => d.id \in There(b) /\ d.copy = b[d.id].default
    /\ d.at = "find" /\ s = "no" =>
         Marks(b) = {} /\ n = IF There(b) = {} THEN 0 ELSE Book!Newest(There(b))
    /\ d.at = "heir" /\ s = "no" => Marks(b) = {} /\ n = d.id

\* The inductive invariant of a book that one request at a time is at.
AddressInv ==
    /\ book \in Seq(AddressRows)
    /\ chosen \in Nat
    /\ desk \in [Callers -> AddressDesks]
    /\ Callers = {} => Matches(book, chosen, slip)
    /\ \A c \in Callers : AddressFits(desk[c], book, chosen, slip)

\* An empty book satisfies the invariant.
LEMMA AddressInit == ASSUME Book!Init PROVE AddressInv
  <1>1. Book!NoDesk \in AddressDesks /\ Book!NoDesk.at = "idle"
    BY DEF Book!NoDesk, AddressDesks
  <1>2. book \in Seq(AddressRows) /\ Len(book) = 0
    BY EmptySeq DEF Book!Init
  <1>3. There(book) = {}
    BY <1>2, LenProperties DEF There
  <1>4. AddressFits(Book!NoDesk, book, chosen, slip)
    BY <1>1, <1>3 DEF Book!Init, AddressFits, Matches, Marks
  <1>5. Matches(book, chosen, slip)
    BY <1>3 DEF Book!Init, Matches, Marks
  <1> QED  BY <1>1, <1>2, <1>4, <1>5 DEF Book!Init, AddressInv

\* The rows are where their places say.
LEMMA BookIs ==
    ASSUME AddressInv
    PROVE  /\ Len(book) \in Nat /\ DOMAIN book = 1..Len(book)
           /\ \A a \in 1..Len(book) : book[a] \in AddressRows
           /\ There(book) \subseteq 1..Len(book) /\ There(book) \in SUBSET Nat
           /\ There(book) = Book!Saved /\ Marks(book) = Book!Default
  BY LenProperties, ElementOfSeq DEF AddressInv, There, Marks, Book!Saved, Book!Default

\* One request at a time: what it owes when it has gone on is all that is owed.
LEMMA AddressGoes ==
    ASSUME AddressInv, Book!Alone, NEW c \in Callers, NEW d \in AddressDesks, Book!Goto(c, d),
           book' \in Seq(AddressRows), chosen' \in Nat, AddressFits(d, book', chosen', slip')
    PROVE  AddressInv'
  <1>1. desk' \in [Callers -> AddressDesks] /\ desk'[c] = d
    BY DEF AddressInv, Book!Goto
  <1>2. \A e \in Callers : e = c
    BY DEF Book!Alone
  <1> QED  BY <1>1, <1>2 DEF AddressInv

\* A request at rest.
LEMMA AddressRests ==
    ASSUME AddressInv, Book!Alone, NEW c \in Callers, Book!Done(c),
           book' \in Seq(AddressRows), chosen' \in Nat, Matches(book', chosen', slip')
    PROVE  AddressInv'
  <1>1. Book!NoDesk \in AddressDesks /\ Book!NoDesk.at = "idle"
    BY DEF Book!NoDesk, AddressDesks
  <1>2. AddressFits(Book!NoDesk, book', chosen', slip')
    BY <1>1 DEF AddressFits
  <1> QED  BY <1>1, <1>2, AddressGoes DEF Book!Done

\* A row that is written moves its own place only.
LEMMA RowWritten ==
    ASSUME AddressInv, NEW a \in 1..Len(book), NEW row \in AddressRows, book' = [book EXCEPT ![a] = row]
    PROVE  /\ book' \in Seq(AddressRows) /\ book'[a] = row
           /\ There(book') = IF row.there THEN There(book) \cup {a} ELSE There(book) \ {a}
           /\ Marks(book') = IF row.there /\ row.default THEN Marks(book) \cup {a} ELSE Marks(book) \ {a}
  <1>1. /\ book' \in Seq(AddressRows) /\ Len(book') = Len(book)
        /\ \A b \in 1..Len(book) : book'[b] = IF b = a THEN row ELSE book[b]
    BY ExceptSeq DEF AddressInv
  <1>2. DOMAIN book' = 1..Len(book) /\ DOMAIN book = 1..Len(book)
    BY <1>1, LenProperties DEF AddressInv
  <1>3. There(book') = IF row.there THEN There(book) \cup {a} ELSE There(book) \ {a}
    BY <1>1, <1>2 DEF There
  <1>4. Marks(book') = IF row.there /\ row.default THEN Marks(book) \cup {a} ELSE Marks(book) \ {a}
    BY <1>1, <1>2 DEF Marks, There
  <1> QED  BY <1>1, <1>3, <1>4

\* create is on its way to clear the marks or to write.
LEMMA CreateKeepsBook ==
    ASSUME AddressInv, Book!Alone, NEW c \in Callers, Book!Create(c) PROVE AddressInv'
  <1>1. PICK mark \in BOOLEAN :
          Book!Goto(c, [Book!NoDesk EXCEPT !.at = IF mark THEN "clear" ELSE "write",
                                           !.asked = IF mark THEN "yes" ELSE "no"])
    BY DEF Book!Create
  <1> DEFINE d == [Book!NoDesk EXCEPT !.at = IF mark THEN "clear" ELSE "write",
                                      !.asked = IF mark THEN "yes" ELSE "no"]
  <1>2. /\ d \in AddressDesks /\ d.id = 0 /\ d.at = IF mark THEN "clear" ELSE "write"
        /\ d.asked = IF mark THEN "yes" ELSE "no"
    BY DEF Book!NoDesk, AddressDesks
  <1> HIDE DEF d
  <1>3. desk[c].at = "idle" /\ UNCHANGED <<book, chosen, slip>>
    BY DEF Book!Create, Book!At
  <1>4. Matches(book, chosen, slip)
    BY <1>3 DEF AddressInv, AddressFits
  <1>5. AddressFits(d, book', chosen', slip')
    BY <1>2, <1>3, <1>4 DEF AddressFits
  <1>6. Book!Goto(c, d)
    BY <1>1 DEF d
  <1>7. book' \in Seq(AddressRows) /\ chosen' \in Nat
    BY <1>3 DEF AddressInv
  <1> QED  BY <1>2, <1>5, <1>6, <1>7, AddressGoes

\* An update and a removal hold the address as they loaded it.
LEMMA LoadsKeepBook ==
    ASSUME AddressInv, Book!Alone, NEW c \in Callers, Book!LoadOwned(c) \/ Book!LoadToRemove(c)
    PROVE  AddressInv'
  <1>1. desk[c].at = "idle" /\ UNCHANGED <<book, chosen, slip>>
    BY DEF Book!LoadOwned, Book!LoadToRemove, Book!At
  <1>2. PICK d \in AddressDesks :
          /\ Book!Goto(c, d) /\ d.at \in {"clear", "write", "delete"} /\ d.id \in There(book)
          /\ d.copy = book[d.id].default
          /\ d.at = "clear" <=> d.asked = "yes"
    <2>1. \A a \in There(book) : a \in Nat /\ book[a].default \in BOOLEAN
      BY BookIs DEF AddressRows
    <2>2. CASE Book!LoadOwned(c)
      <3>1. PICK a \in There(book), want \in {"yes", "no", "unsaid"} :
              Book!Goto(c, [at |-> IF want = "yes" THEN "clear" ELSE "write", id |-> a,
                            copy |-> book[a].default, asked |-> want])
        BY <2>2, BookIs DEF Book!LoadOwned
      <3> DEFINE d == [at |-> IF want = "yes" THEN "clear" ELSE "write", id |-> a,
                       copy |-> book[a].default, asked |-> want]
      <3>2. /\ d \in AddressDesks /\ d.id = a /\ d.copy = book[a].default /\ d.asked = want
            /\ d.at = IF want = "yes" THEN "clear" ELSE "write"
        BY <2>1 DEF AddressDesks
      <3>3. Book!Goto(c, d)
        BY <3>1
      <3> HIDE DEF d
      <3> QED  BY <3>2, <3>3
    <2>3. CASE Book!LoadToRemove(c)
      <3>1. PICK a \in There(book) :
              Book!Goto(c, [Book!NoDesk EXCEPT !.at = "delete", !.id = a, !.copy = book[a].default])
        BY <2>3, BookIs DEF Book!LoadToRemove
      <3> DEFINE d == [Book!NoDesk EXCEPT !.at = "delete", !.id = a, !.copy = book[a].default]
      <3>2. /\ d \in AddressDesks /\ d.at = "delete" /\ d.id = a /\ d.copy = book[a].default
            /\ d.asked = "unsaid"
        BY <2>1 DEF Book!NoDesk, AddressDesks
      <3>3. Book!Goto(c, d)
        BY <3>1
      <3> HIDE DEF d
      <3> QED  BY <3>2, <3>3
    <2> QED  BY <2>2, <2>3
  <1>3. Matches(book, chosen, slip)
    BY <1>1 DEF AddressInv, AddressFits
  <1>4. AddressFits(d, book', chosen', slip')
    BY <1>1, <1>2, <1>3 DEF AddressFits
  <1>5. book' \in Seq(AddressRows) /\ chosen' \in Nat
    BY <1>1 DEF AddressInv
  <1> QED  BY <1>2, <1>4, <1>5, AddressGoes

\* Clearing the marks keeps every address.
LEMMA ClearKeepsBook ==
    ASSUME AddressInv, Book!Alone, NEW c \in Callers, Book!ClearDefault(c) PROVE AddressInv'
  <1>1. Len(book) \in Nat /\ DOMAIN book = 1..Len(book) /\ \A a \in 1..Len(book) : book[a] \in AddressRows
    BY BookIs
  <1> DEFINE bare(a) == [book[a] EXCEPT !.default = FALSE]
  <1>2. book' = [a \in 1..Len(book) |-> bare(a)]
    BY <1>1 DEF Book!ClearDefault
  <1>3. \A a \in 1..Len(book) : bare(a) \in AddressRows /\ bare(a).there = book[a].there /\ ~bare(a).default
    BY <1>1 DEF AddressRows
  <1> HIDE DEF bare
  <1>4. book' \in Seq(AddressRows)
    <2>1. book' \in [1..Len(book) -> AddressRows]
      BY <1>2, <1>3
    <2> QED  BY <2>1, <1>1
  <1>5. DOMAIN book' = 1..Len(book) /\ There(book') = There(book) /\ Marks(book') = {}
    BY <1>1, <1>2, <1>3 DEF There, Marks
  <1> DEFINE d == [desk[c] EXCEPT !.at = "write"]
  <1>6. d \in AddressDesks /\ d.at = "write" /\ d.id = desk[c].id /\ d.asked = desk[c].asked
    BY DEF AddressDesks, AddressInv
  <1>7. Book!Goto(c, d) /\ desk[c].at = "clear" /\ chosen' = chosen
    BY DEF Book!ClearDefault, Book!At
  <1> HIDE DEF d
  <1>8. d.asked = "yes" /\ (d.id = 0 \/ d.id \in There(book))
    BY <1>6, <1>7 DEF AddressInv, AddressFits
  <1>9. AddressFits(d, book', chosen', slip')
    BY <1>5, <1>6, <1>8 DEF AddressFits
  <1> QED  BY <1>4, <1>6, <1>7, <1>9, AddressGoes DEF AddressInv

\* A new address is marked after the others' marks went, or not at all.
LEMMA WriteNewKeepsBook ==
    ASSUME AddressInv, Book!Alone, NEW c \in Callers, Book!WriteNew(c) PROVE AddressInv'
  <1> DEFINE mark == desk[c].asked = "yes"
             row == [there |-> TRUE, default |-> mark]
             n == Len(book) + 1
  <1>1. Len(book) \in Nat /\ DOMAIN book = 1..Len(book) /\ n \in Nat /\ n # 0 /\ n \notin 1..Len(book)
    BY BookIs
  <1>2. mark \in BOOLEAN /\ row \in AddressRows
    BY DEF AddressRows
  <1>3. /\ book' = Append(book, row) /\ Book!Done(c) /\ desk[c].at = "write"
        /\ chosen' = IF mark THEN n ELSE chosen
        /\ slip' = IF mark THEN "no" ELSE slip
    BY DEF Book!WriteNew, Book!At
  <1>4. IF mark THEN Marks(book) = {} ELSE Matches(book, chosen, slip)
    BY <1>3 DEF AddressInv, AddressFits
  <1>5. row.there /\ row.default = mark
    OBVIOUS
  <1> HIDE DEF mark, row, n
  <1>6. /\ book' \in Seq(AddressRows) /\ Len(book') = n /\ book'[n] = row
        /\ \A a \in 1..Len(book) : book'[a] = book[a]
    BY <1>2, <1>3, AppendProperties DEF AddressInv, n
  <1>7. DOMAIN book' = 1..Len(book) \cup {n}
    BY <1>1, <1>6, LenProperties DEF n
  <1>8. Marks(book') = IF mark THEN Marks(book) \cup {n} ELSE Marks(book)
    BY <1>1, <1>5, <1>6, <1>7 DEF Marks, There
  <1>9. Matches(book', chosen', slip') /\ chosen' \in Nat
    BY <1>1, <1>2, <1>3, <1>4, <1>8 DEF Matches, AddressInv
  <1> QED  BY <1>3, <1>6, <1>9, AddressRests

\* The mark that is saved is the one asked for.
LEMMA SaveKeepsBook ==
    ASSUME AddressInv, Book!Alone, NEW c \in Callers, Book!Save(c) PROVE AddressInv'
  <1> DEFINE d == desk[c]
  <1>1. /\ d \in AddressDesks /\ d.at = "write" /\ d.id # 0 /\ d.id \in There(book) /\ d.id \in Nat
        /\ IF d.asked = "yes" THEN Marks(book) = {}
           ELSE Matches(book, chosen, slip) /\ d.copy = book[d.id].default
        /\ Book!Done(c)
    BY DEF Book!Save, Book!At, AddressInv, AddressFits, AddressDesks
  <1>2. /\ d.id \in 1..Len(book) /\ book[d.id].there /\ book[d.id] \in AddressRows
        /\ book[d.id].default <=> d.id \in Marks(book)
    BY <1>1, BookIs DEF There, Marks
  <1>3. /\ book' = CASE d.asked = "yes" /\ ~d.copy -> [book EXCEPT ![d.id].default = TRUE]
                     [] d.asked = "no" /\ d.copy   -> [book EXCEPT ![d.id].default = FALSE]
                     [] OTHER -> book
        /\ chosen' = CASE d.asked = "yes" -> d.id
                       [] d.asked = "no" /\ chosen = d.id -> 0
                       [] OTHER -> chosen
        /\ slip' = CASE d.asked = "yes" /\ d.copy  -> "again"
                     [] d.asked = "yes" /\ ~d.copy -> "no"
                     [] OTHER -> slip
    BY <1>2 DEF Book!Save
  <1>4. d.asked \in {"yes", "no", "unsaid"} /\ d.copy \in BOOLEAN /\ chosen \in Nat
    BY <1>1 DEF AddressDesks, AddressInv
  <1> HIDE DEF d
  <1>5. CASE d.asked = "yes" /\ ~d.copy
    <2> DEFINE row == [book[d.id] EXCEPT !.default = TRUE]
    <2>1. row \in AddressRows /\ row.there /\ row.default
      BY <1>2 DEF AddressRows
    <2>2. book' = [book EXCEPT ![d.id] = row] /\ chosen' = d.id
      BY <1>3, <1>5
    <2> HIDE DEF row
    <2>3. book' \in Seq(AddressRows) /\ Marks(book') = {d.id}
      BY <1>1, <1>2, <1>5, <2>1, <2>2, RowWritten
    <2> QED  BY <1>1, <2>2, <2>3, AddressRests DEF Matches
  <1>6. CASE d.asked = "no" /\ d.copy
    <2> DEFINE row == [book[d.id] EXCEPT !.default = FALSE]
    <2>1. row \in AddressRows /\ row.there /\ ~row.default
      BY <1>2 DEF AddressRows
    <2>2. /\ book' = [book EXCEPT ![d.id] = row] /\ slip' = slip
          /\ chosen' = IF chosen = d.id THEN 0 ELSE chosen
      BY <1>3, <1>6
    <2> HIDE DEF row
    <2>3. book' \in Seq(AddressRows) /\ Marks(book') = Marks(book) \ {d.id}
      BY <1>2, <2>1, <2>2, RowWritten
    <2>4. Matches(book', chosen', slip') /\ chosen' \in Nat
      BY <1>1, <1>4, <1>6, <2>2, <2>3 DEF Matches
    <2> QED  BY <1>1, <2>3, <2>4, AddressRests
  <1>7. CASE d.asked = "yes" /\ d.copy
    <2>1. book' = book /\ chosen' = d.id /\ slip' = "again"
      BY <1>3, <1>7
    <2> QED  BY <1>1, <2>1, AddressRests DEF Matches, AddressInv
  <1>8. CASE d.asked # "yes" /\ ~(d.asked = "no" /\ d.copy)
    <2>1. book' = book /\ slip' = slip
      BY <1>3, <1>8
    <2>2. chosen' = IF d.asked = "no" /\ chosen = d.id THEN 0 ELSE chosen
      BY <1>3, <1>8
    <2>3. d.asked = "no" => d.id \notin Marks(book)
      BY <1>1, <1>2, <1>8
    <2>4. Matches(book', chosen', slip') /\ chosen' \in Nat
      BY <1>1, <1>4, <1>8, <2>1, <2>2, <2>3 DEF Matches
    <2> QED  BY <1>1, <2>1, <2>4, AddressRests DEF AddressInv
  <1> QED  BY <1>4, <1>5, <1>6, <1>7, <1>8

\* There is a newest among the addresses that are left.
LEMMA NewestIs ==
    ASSUME AddressInv, NEW S \in SUBSET There(book), S # {}
    PROVE  Book!Newest(S) \in S
  <1>1. S \in SUBSET Nat /\ Len(book) \in Nat /\ \A a \in S : a <= Len(book)
    BY BookIs
  <1>2. \E a \in S : \A b \in S : b <= a
    BY <1>1, Largest
  <1> QED  BY <1>2 DEF Book!Newest

\* Without the address that is removed, its heir is the newest of the rest.
LEMMA DeleteKeepsBook ==
    ASSUME AddressInv, Book!Alone, NEW c \in Callers, Book!DeleteOne(c) PROVE AddressInv'
  <1> DEFINE d == desk[c]
             left == There(book) \ {d.id}
  <1>1. /\ d \in AddressDesks /\ d.at = "delete" /\ d.id \in There(book) /\ d.copy = book[d.id].default
        /\ Matches(book, chosen, slip) /\ chosen \in Nat
    BY DEF Book!DeleteOne, Book!At, AddressInv, AddressFits
  <1>2. /\ d.id \in 1..Len(book) /\ d.id # 0
        /\ d.copy <=> d.id \in Marks(book)
        /\ left = Book!Left(d.id) /\ left \subseteq There(book) /\ left \in SUBSET Nat
    BY <1>1, BookIs DEF Marks, There, Book!Left
  <1>3. /\ book' = [book EXCEPT ![d.id] = Book!Absent] /\ slip' = slip
        /\ chosen' = IF chosen # d.id THEN chosen
                     ELSE IF left = {} THEN 0 ELSE Book!Newest(left)
        /\ IF d.copy THEN Book!Goto(c, [d EXCEPT !.at = "find"]) ELSE Book!Done(c)
    BY <1>2 DEF Book!DeleteOne
  <1>4. Book!Absent \in AddressRows /\ ~Book!Absent.there
    BY DEF Book!Absent, AddressRows
  <1> HIDE DEF d
  <1>5. /\ book' \in Seq(AddressRows) /\ There(book') = left
        /\ Marks(book') = Marks(book) \ {d.id}
    BY <1>2, <1>3, <1>4, RowWritten
  <1>6. chosen' \in Nat
    BY <1>1, <1>2, <1>3, NewestIs
  <1>7. CASE d.copy
    <2> DEFINE e == [d EXCEPT !.at = "find"]
    <2>1. e \in AddressDesks /\ e.at = "find" /\ Book!Goto(c, e)
      BY <1>1, <1>3, <1>7 DEF AddressDesks
    <2> HIDE DEF e
    <2>2. slip = "no" => chosen = d.id /\ Marks(book') = {}
      BY <1>1, <1>2, <1>5, <1>7 DEF Matches
    <2>3. AddressFits(e, book', chosen', slip')
      BY <1>3, <1>5, <2>1, <2>2 DEF AddressFits
    <2> QED  BY <1>5, <1>6, <2>1, <2>3, AddressGoes
  <1>8. CASE ~d.copy
    <2>1. slip = "no" => chosen # d.id /\ Marks(book') = Marks(book)
      BY <1>1, <1>2, <1>5, <1>8 DEF Matches
    <2>2. Matches(book', chosen', slip')
      BY <1>1, <1>3, <2>1 DEF Matches
    <2> QED  BY <1>3, <1>5, <1>6, <1>8, <2>2, AddressRests
  <1> QED  BY <1>7, <1>8

\* The newest of what is left is the one the request goes on with.
LEMMA FindKeepsBook ==
    ASSUME AddressInv, Book!Alone, NEW c \in Callers, Book!FindHeir(c) PROVE AddressInv'
  <1> DEFINE n == Book!Newest(There(book))
             d == [desk[c] EXCEPT !.at = "heir", !.id = n, !.copy = book[n].default]
  <1>1. /\ UNCHANGED <<book, chosen, slip>> /\ desk[c] \in AddressDesks
        /\ slip = "no" => Marks(book) = {} /\ chosen = IF There(book) = {} THEN 0 ELSE n
        /\ IF There(book) = {} THEN Book!Done(c) ELSE Book!Goto(c, d)
    BY BookIs DEF Book!FindHeir, Book!At, AddressInv, AddressFits
  <1>2. book' \in Seq(AddressRows) /\ chosen' \in Nat
    BY <1>1 DEF AddressInv
  <1>3. CASE There(book) = {}
    BY <1>1, <1>2, <1>3, AddressRests DEF Matches
  <1>4. CASE There(book) # {}
    <2>1. n \in There(book)
      BY <1>4, NewestIs
    <2>2. n \in Nat /\ book[n].default \in BOOLEAN
      BY <2>1, BookIs DEF AddressRows
    <2>3. d \in AddressDesks /\ d.at = "heir" /\ d.id = n /\ d.copy = book[n].default
      BY <1>1, <2>2 DEF AddressDesks
    <2> HIDE DEF d, n
    <2>4. AddressFits(d, book', chosen', slip')
      BY <1>1, <1>4, <2>1, <2>3 DEF AddressFits
    <2> QED  BY <1>1, <1>2, <1>4, <2>3, <2>4, AddressGoes
  <1> QED  BY <1>3, <1>4

\* The heir gets the mark nobody has.
LEMMA HeirKeepsBook ==
    ASSUME AddressInv, Book!Alone, NEW c \in Callers, Book!SaveHeir(c) PROVE AddressInv'
  <1> DEFINE d == desk[c]
             row == [book[d.id] EXCEPT !.default = TRUE]
  <1>1. /\ d \in AddressDesks /\ d.at = "heir" /\ d.id \in There(book) /\ d.copy = book[d.id].default
        /\ slip = "no" => Marks(book) = {} /\ chosen = d.id
        /\ Book!Done(c) /\ UNCHANGED <<chosen, slip>> /\ chosen \in Nat
    BY DEF Book!SaveHeir, Book!At, AddressInv, AddressFits
  <1>2. d.id \in 1..Len(book) /\ book[d.id].there /\ book[d.id] \in AddressRows /\ d.id # 0
    BY <1>1, BookIs DEF There
  <1>3. book' = IF ~d.copy THEN [book EXCEPT ![d.id] = row] ELSE book
    BY <1>2 DEF Book!SaveHeir
  <1>4. row \in AddressRows /\ row.there /\ row.default
    BY <1>2 DEF AddressRows
  <1> HIDE DEF d, row
  <1>5. CASE ~d.copy
    <2>1. book' \in Seq(AddressRows) /\ Marks(book') = Marks(book) \cup {d.id}
      BY <1>2, <1>3, <1>4, <1>5, RowWritten
    <2>2. Matches(book', chosen', slip')
      BY <1>1, <1>2, <2>1 DEF Matches
    <2> QED  BY <1>1, <2>1, <2>2, AddressRests
  <1>6. CASE d.copy
    <2>1. slip # "no"
      BY <1>1, <1>6 DEF Marks
    <2> QED  BY <1>1, <1>3, <1>6, <2>1, AddressRests DEF Matches, AddressInv
  <1> QED  BY <1>5, <1>6, <1>1 DEF AddressDesks

\* A request that stops before its first write has changed nothing, and one that stops
\* after it has left a mark to put right.
LEMMA StopKeepsBook ==
    ASSUME AddressInv, Book!Alone, NEW c \in Callers, Book!Stop(c) PROVE AddressInv'
  <1> DEFINE d == desk[c]
  <1>1. /\ d \in AddressDesks /\ d.at # "idle" /\ Book!Done(c) /\ UNCHANGED <<book, chosen>>
        /\ slip' = IF d.at \in {"find", "heir"} \/ (d.at = "write" /\ d.asked = "yes")
                   THEN "stopped" ELSE slip
        /\ AddressFits(d, book, chosen, slip) /\ book \in Seq(AddressRows) /\ chosen \in Nat
    BY DEF Book!Stop, Book!At, AddressInv
  <1> HIDE DEF d
  <1>2. Matches(book', chosen', slip')
    BY <1>1 DEF AddressFits, AddressDesks, Matches
  <1> QED  BY <1>1, <1>2, AddressRests

\* Every step keeps the invariant.
LEMMA AddressStep ==
    ASSUME Book!Alone PROVE AddressInv /\ [Book!Next]_(Book!addressVars) => AddressInv'
  <1> SUFFICES ASSUME AddressInv, [Book!Next]_(Book!addressVars) PROVE AddressInv'
    OBVIOUS
  <1>1. CASE UNCHANGED Book!addressVars
    <2>1. UNCHANGED <<book, desk, chosen, slip>>
      BY <1>1 DEF Book!addressVars
    <2> QED  BY <2>1 DEF AddressInv
  <1>2. CASE Book!Next
    <2>1. PICK c \in Callers :
            \/ Book!Create(c) \/ Book!LoadOwned(c) \/ Book!ClearDefault(c) \/ Book!WriteNew(c)
            \/ Book!Save(c) \/ Book!LoadToRemove(c) \/ Book!DeleteOne(c) \/ Book!FindHeir(c)
            \/ Book!SaveHeir(c) \/ Book!Stop(c)
      BY <1>2 DEF Book!Next
    <2> QED
      BY <2>1, CreateKeepsBook, LoadsKeepBook, ClearKeepsBook, WriteNewKeepsBook, SaveKeepsBook,
         DeleteKeepsBook, FindKeepsBook, HeirKeepsBook, StopKeepsBook
  <1> QED  BY <1>1, <1>2

\* Where requests do not overlap, through every order of creating, choosing, unmarking and
\* removing, and with a failure or a death at any call, the marked address is the one chosen
\* last or the newest of the rest where that one was removed, and no other: but for the slips
\* that OneIsChosen names.
THEOREM AddressesStayChosen ==
    ASSUME Book!Alone
    PROVE  Book!Spec => []Book!OneIsChosen
  <1>1. Book!Init => AddressInv
    BY AddressInit
  <1>2. AddressInv /\ [Book!Next]_(Book!addressVars) => AddressInv'
    BY AddressStep
  <1>3. AddressInv => Book!OneIsChosen
    <2> SUFFICES ASSUME AddressInv, Book!Idle, slip = "no"
                 PROVE  Book!Default = IF chosen = 0 THEN {} ELSE {chosen}
      BY DEF Book!OneIsChosen
    <2>1. Marks(book) = Book!Default
      BY BookIs
    <2> QED  BY <2>1 DEF AddressInv, AddressFits, Matches, Book!Idle, Book!At
  <1> QED  BY <1>1, <1>2, <1>3, PTL DEF Book!Spec

-----------------------------------------------------------------------------
(* The planning board (PlanningBoard).                                      *)

\* What a post is, and what a request holds of one.
LabelsOrNone == Labels \cup {"none"}
PostRows  == [author : {"none", "customer", "organizer"}, type : {"idea", "question", "update"},
              reply : BOOLEAN, approval : {"none", "pending", "approved"}, label : LabelsOrNone]
BoardDesks == [at : {"idle", "approve", "reply", "vision", "create"}, idea : Ideas \cup {"none"},
               copy : PostRows, label : LabelsOrNone, fill : SUBSET Slots, clear : SUBSET Slots,
               was : SUBSET Slots]

\* The types of posts and requests.
BoardTypes == /\ ideas \in [Ideas -> PostRows]
              /\ agreed \in [Ideas -> LabelsOrNone]
              /\ desk \in [Callers -> BoardDesks]

\* The vision has slots that there are.
VisionIsTyped == vision \in [exists : BOOLEAN, filled : SUBSET Slots]

\* A post whose approvals and whose replies that ask stayed apart: an approval under way has
\* found the label the post has, and a reply that found it asking leaves it asking.
PostIsSound(i) ==
    /\ ideas[i].approval = "approved" => ideas[i].label = agreed[i]
    /\ \A c \in Callers : desk[c].at = "approve" /\ desk[c].idea = i =>
         desk[c].copy.label = ideas[i].label /\ ~Board!Asking(i)
    /\ \A c \in Callers :
         /\ desk[c].at = "reply" /\ desk[c].idea = i /\ desk[c].label # "none"
         /\ desk[c].copy.approval = "pending"
         => ideas[i].approval = "pending"

\* The inductive invariant of a board.
BoardInv == BoardTypes /\ \A i \in Ideas \ crossed : PostIsSound(i)

\* No post and no request are of their types.
LEMMA BlankPost == Board!NoIdea \in PostRows /\ Board!NoDesk \in BoardDesks /\ Board!NoDesk.at = "idle"
                   /\ Board!NoIdea.approval = "none" /\ Board!NoIdea.label = "none"
  BY DEF Board!NoIdea, Board!NoDesk, PostRows, BoardDesks, LabelsOrNone

\* An empty board satisfies the invariant.
LEMMA BoardStart == Board!Init => BoardInv /\ VisionIsTyped
  <1> SUFFICES ASSUME Board!Init PROVE BoardInv /\ VisionIsTyped
    OBVIOUS
  <1>1. BoardTypes
    BY BlankPost DEF Board!Init, BoardTypes, LabelsOrNone
  <1>2. \A c \in Callers : desk[c].at = "idle"
    BY BlankPost DEF Board!Init
  <1>3. \A i \in Ideas : ideas[i].approval = "none"
    BY BlankPost DEF Board!Init
  <1>4. VisionIsTyped
    BY DEF Board!Init, VisionIsTyped
  <1> QED  BY <1>1, <1>2, <1>3, <1>4 DEF BoardInv, PostIsSound

\* A request that goes on, and who else is where.
LEMMA BoardGoes ==
    ASSUME BoardTypes, NEW c \in Callers, NEW d \in BoardDesks, desk' = [desk EXCEPT ![c] = d]
    PROVE  /\ desk' \in [Callers -> BoardDesks] /\ desk'[c] = d
           /\ \A e \in Callers : e # c => desk'[e] = desk[e]
           /\ d.at # "reply" => \A i : Board!Asking(i)' => Board!Asking(i)
  <1>1. desk' \in [Callers -> BoardDesks] /\ \A e \in Callers : desk'[e] = IF e = c THEN d ELSE desk[e]
    BY DEF BoardTypes
  <1> QED  BY <1>1 DEF Board!Asking, Board!At

\* A request that neither approves nor asks from here on, and leaves the posts, keeps the invariant.
LEMMA BoardRests ==
    ASSUME BoardInv, NEW c \in Callers, NEW d \in BoardDesks, desk' = [desk EXCEPT ![c] = d],
           d.at \notin {"approve", "reply"}, UNCHANGED <<ideas, agreed, crossed>>
    PROVE  BoardInv'
  <1>1. /\ BoardTypes' /\ desk'[c] = d /\ \A e \in Callers : e # c => desk'[e] = desk[e]
        /\ \A i : Board!Asking(i)' => Board!Asking(i)
    BY BoardGoes DEF BoardInv, BoardTypes
  <1>2. \A i \in Ideas \ crossed : PostIsSound(i)'
    BY <1>1 DEF BoardInv, PostIsSound
  <1> QED  BY <1>1, <1>2 DEF BoardInv

\* A new post asks for nothing.
LEMMA PostKeepsBoard == ASSUME BoardInv, NEW c \in Callers, Board!Post(c) PROVE BoardInv'
  <1>1. PICK i \in Ideas \ Board!Posted, a \in {"customer", "organizer"}, t \in {"idea", "question", "update"} :
          ideas' = [ideas EXCEPT ![i] = [Board!NoIdea EXCEPT !.author = a, !.type = Board!TypeOf(a, t)]]
    BY DEF Board!Post
  <1> DEFINE q == [Board!NoIdea EXCEPT !.author = a, !.type = Board!TypeOf(a, t)]
  <1>2. Board!TypeOf(a, t) \in {"idea", "question", "update"}
    BY DEF Board!TypeOf
  <1>3. q \in PostRows /\ q.approval = "none" /\ q.label = "none"
    BY <1>2 DEF Board!NoIdea, PostRows, LabelsOrNone
  <1>4. ideas[i].approval = "none" /\ ideas[i].label = "none"
    BY BlankPost DEF Board!Posted
  <1> HIDE DEF q
  <1>5. ideas' = [ideas EXCEPT ![i] = q] /\ UNCHANGED <<desk, agreed, crossed>>
    BY <1>1 DEF Board!Post, q
  <1>6. BoardTypes'
    BY <1>3, <1>5 DEF BoardInv, BoardTypes
  <1>7. \A j \in Ideas : ideas'[j].approval = ideas[j].approval /\ ideas'[j].label = ideas[j].label
    BY <1>3, <1>4, <1>5 DEF BoardInv, BoardTypes
  <1>8. \A j \in Ideas \ crossed : PostIsSound(j)'
    BY <1>5, <1>7 DEF BoardInv, PostIsSound, Board!Asking, Board!At
  <1> QED  BY <1>5, <1>6, <1>8 DEF BoardInv

\* approve finds the label the post has; a reply that asks meanwhile crosses it.
LEMMA LoadToApproveKeepsBoard ==
    ASSUME BoardInv, NEW c \in Callers, Board!LoadToApprove(c) PROVE BoardInv'
  <1>1. PICK i \in Board!Posted :
          /\ Board!Goto(c, [Board!NoDesk EXCEPT !.at = "approve", !.idea = i, !.copy = ideas[i]])
          /\ crossed' = IF Board!Asking(i) THEN crossed \cup {i} ELSE crossed
    BY DEF Board!LoadToApprove
  <1> DEFINE d == [Board!NoDesk EXCEPT !.at = "approve", !.idea = i, !.copy = ideas[i]]
  <1>2. i \in Ideas /\ ideas[i] \in PostRows
    BY DEF Board!Posted, BoardInv, BoardTypes
  <1>3. d \in BoardDesks /\ d.at = "approve" /\ d.idea = i /\ d.copy = ideas[i]
    BY <1>2 DEF Board!NoDesk, BoardDesks, LabelsOrNone
  <1> HIDE DEF d
  <1>4. desk' = [desk EXCEPT ![c] = d] /\ UNCHANGED <<ideas, agreed>>
    BY <1>1 DEF Board!LoadToApprove, Board!Goto, d
  <1>5. /\ BoardTypes' /\ desk'[c] = d /\ \A e \in Callers : e # c => desk'[e] = desk[e]
        /\ \A j : Board!Asking(j)' => Board!Asking(j)
    BY <1>3, <1>4, BoardGoes DEF BoardInv, BoardTypes
  <1>6. ASSUME NEW j \in Ideas \ crossed' PROVE PostIsSound(j)'
    <2>1. j \in Ideas \ crossed /\ PostIsSound(j) /\ (j = i => ~Board!Asking(j))
      BY <1>1, <1>6 DEF BoardInv
    <2> QED  BY <1>3, <1>4, <1>5, <2>1 DEF PostIsSound
  <1> QED  BY <1>5, <1>6 DEF BoardInv

\* What is approved is the label that was found, which is the one that stands.
LEMMA ApproveKeepsBoard ==
    ASSUME BoardInv, NEW c \in Callers, Board!Approve(c) PROVE BoardInv'
  <1> DEFINE i == desk[c].idea
             p == [ideas[i] EXCEPT !.approval = "approved"]
             l == desk[c].copy.label
  <1>1. desk[c] \in BoardDesks /\ desk[c].at = "approve" /\ l \in LabelsOrNone
    BY DEF Board!Approve, Board!At, BoardInv, BoardTypes, BoardDesks, PostRows
  <1>2. i \in Ideas => p \in PostRows /\ p.approval = "approved" /\ p.label = ideas[i].label
    BY DEF BoardInv, BoardTypes, PostRows
  <1>3. /\ ideas' = [ideas EXCEPT ![i] = p] /\ agreed' = [agreed EXCEPT ![i] = l] /\ crossed' = crossed
        /\ desk' = [desk EXCEPT ![c] = Board!NoDesk]
    BY DEF Board!Approve, Board!Done, Board!Goto
  <1>4. desk[c].idea = i /\ desk[c].copy.label = l
    OBVIOUS
  <1> HIDE DEF i, p, l
  <1>5. /\ desk' \in [Callers -> BoardDesks] /\ desk'[c] = Board!NoDesk
        /\ \A e \in Callers : e # c => desk'[e] = desk[e]
        /\ \A j : Board!Asking(j)' => Board!Asking(j)
    BY <1>3, BlankPost, BoardGoes DEF BoardInv
  <1>6. BoardTypes'
    BY <1>1, <1>2, <1>3, <1>5 DEF BoardInv, BoardTypes
  <1>7. ASSUME NEW j \in Ideas \ crossed PROVE PostIsSound(j)'
    <2>1. PostIsSound(j) /\ j \in Ideas
      BY <1>7 DEF BoardInv
    <2>2. CASE j # i
      <3>1. ideas'[j] = ideas[j] /\ agreed'[j] = agreed[j]
        BY <1>3, <2>1, <2>2 DEF BoardInv, BoardTypes
      <3> QED  BY <1>5, <2>1, <3>1, BlankPost DEF PostIsSound
    <2>3. CASE j = i
      <3>1. ideas'[j] = p /\ agreed'[j] = l /\ l = ideas[j].label /\ ~Board!Asking(j)
        BY <1>1, <1>3, <1>4, <2>1, <2>3 DEF BoardInv, BoardTypes, PostIsSound
      <3>2. p.label = ideas[j].label
        BY <1>2, <2>1, <2>3
      <3>3. \A e \in Callers : ~(desk'[e].at = "reply" /\ desk'[e].idea = j /\ desk'[e].label # "none")
        BY <1>5, <3>1, BlankPost DEF Board!Asking, Board!At
      <3> QED  BY <1>5, <2>1, <3>1, <3>2, <3>3, BlankPost DEF PostIsSound
    <2> QED  BY <2>2, <2>3
  <1> QED  BY <1>3, <1>6, <1>7 DEF BoardInv

\* A reply that asks while somebody approves crosses the post.
LEMMA LoadToReplyKeepsBoard ==
    ASSUME BoardInv, NEW c \in Callers, Board!LoadToReply(c) PROVE BoardInv'
  <1>1. PICK i \in Board!Posted, l \in LabelsOrNone :
          /\ Board!Goto(c, [Board!NoDesk EXCEPT !.at = "reply", !.idea = i, !.copy = ideas[i], !.label = l])
          /\ crossed' = IF l # "none" /\ Board!Approving(i) THEN crossed \cup {i} ELSE crossed
    BY DEF Board!LoadToReply, LabelsOrNone
  <1> DEFINE d == [Board!NoDesk EXCEPT !.at = "reply", !.idea = i, !.copy = ideas[i], !.label = l]
  <1>2. i \in Ideas /\ ideas[i] \in PostRows
    BY DEF Board!Posted, BoardInv, BoardTypes
  <1>3. d \in BoardDesks /\ d.at = "reply" /\ d.idea = i /\ d.copy = ideas[i] /\ d.label = l
    BY <1>2 DEF Board!NoDesk, BoardDesks
  <1> HIDE DEF d
  <1>4. desk' = [desk EXCEPT ![c] = d] /\ UNCHANGED <<ideas, agreed>>
    BY <1>1 DEF Board!LoadToReply, Board!Goto, d
  <1>5. BoardTypes' /\ desk'[c] = d /\ \A e \in Callers : e # c => desk'[e] = desk[e]
    BY <1>3, <1>4, BoardGoes DEF BoardInv, BoardTypes
  <1>6. \A j : Board!Asking(j)' => Board!Asking(j) \/ (j = i /\ l # "none")
    BY <1>3, <1>5 DEF Board!Asking, Board!At
  <1>7. ASSUME NEW j \in Ideas \ crossed' PROVE PostIsSound(j)'
    <2>1. j \in Ideas \ crossed /\ PostIsSound(j) /\ (j = i /\ l # "none" => ~Board!Approving(j))
      BY <1>1, <1>7 DEF BoardInv
    <2>2. \A e \in Callers : desk'[e].at = "approve" /\ desk'[e].idea = j =>
            desk'[e].copy.label = ideas[j].label /\ ~Board!Asking(j)'
      BY <1>3, <1>5, <1>6, <2>1 DEF PostIsSound, Board!Approving, Board!At
    <2>3. \A e \in Callers :
            /\ desk'[e].at = "reply" /\ desk'[e].idea = j /\ desk'[e].label # "none"
            /\ desk'[e].copy.approval = "pending"
            => ideas[j].approval = "pending"
      BY <1>3, <1>5, <2>1 DEF PostIsSound
    <2> QED  BY <1>4, <2>1, <2>2, <2>3 DEF PostIsSound
  <1> QED  BY <1>5, <1>7 DEF BoardInv

\* A reply that asks leaves the post asking, or was crossed.
LEMMA ReplyKeepsBoard ==
    ASSUME BoardInv, NEW c \in Callers, Board!Reply(c) PROVE BoardInv'
  <1> DEFINE d == desk[c]
             i == d.idea
             label == IF d.label \in {"none", d.copy.label} THEN ideas[i].label ELSE d.label
             approval == IF d.label = "none" \/ d.copy.approval = "pending"
                         THEN ideas[i].approval ELSE "pending"
             p == [ideas[i] EXCEPT !.reply = TRUE, !.label = label, !.approval = approval]
  <1>1. d \in BoardDesks /\ d.at = "reply" /\ d.label \in LabelsOrNone
    BY DEF Board!Reply, Board!At, BoardInv, BoardTypes, BoardDesks
  <1>2. ideas' = [ideas EXCEPT ![i] = p]
    <2>1. i \in Ideas => ideas[i] \in PostRows
      BY DEF BoardInv, BoardTypes
    <2>2. ideas' = [ideas EXCEPT ![i].reply = TRUE, ![i].label = label, ![i].approval = approval]
      BY DEF Board!Reply
    <2> HIDE DEF label, approval, d, i
    <2> QED  BY <2>1, <2>2 DEF BoardInv, BoardTypes
  <1>3. i \in Ideas => /\ p \in PostRows /\ p.label = label /\ p.approval = approval
                       /\ label \in LabelsOrNone /\ approval \in {"none", "pending", "approved"}
    <2> SUFFICES ASSUME i \in Ideas PROVE /\ p \in PostRows /\ p.label = label /\ p.approval = approval
                       /\ label \in LabelsOrNone /\ approval \in {"none", "pending", "approved"}
      OBVIOUS
    <2>1. ideas[i] \in PostRows
      BY DEF BoardInv, BoardTypes
    <2>2. label \in LabelsOrNone /\ approval \in {"none", "pending", "approved"}
      BY <1>1, <2>1 DEF PostRows
    <2> HIDE DEF label, approval, i, d
    <2> QED  BY <2>1, <2>2 DEF PostRows
  <1>4. /\ agreed' = agreed /\ desk' = [desk EXCEPT ![c] = Board!NoDesk]
        /\ crossed' = IF d.label # "none" /\ ideas'[i].approval = "pending" /\ ~Board!Approving(i)
                      THEN crossed \ {i} ELSE crossed
    BY DEF Board!Reply, Board!Uncross, Board!Done, Board!Goto
  <1>5. d.label = "none" => label = ideas[i].label /\ approval = ideas[i].approval
    OBVIOUS
  <1>6. d.label # "none" /\ d.copy.approval # "pending" => approval = "pending"
    OBVIOUS
  <1>7. d.label # "none" /\ d.copy.approval = "pending" => approval = ideas[i].approval
    OBVIOUS
  <1>8. i = d.idea /\ d = desk[c]
    OBVIOUS
  <1> HIDE DEF d, i, label, approval, p
  <1>9. /\ desk' \in [Callers -> BoardDesks] /\ desk'[c] = Board!NoDesk
        /\ \A e \in Callers : e # c => desk'[e] = desk[e]
        /\ \A j : Board!Asking(j)' => Board!Asking(j)
    BY <1>4, BlankPost, BoardGoes DEF BoardInv
  <1>10. BoardTypes'
    BY <1>2, <1>3, <1>4, <1>9 DEF BoardInv, BoardTypes
  <1>11. ASSUME NEW j \in Ideas \ crossed' PROVE PostIsSound(j)'
    <2>1. j \in Ideas
      BY <1>11
    <2>2. CASE j # i
      <3>1. ideas'[j] = ideas[j] /\ j \notin crossed
        BY <1>2, <1>4, <1>11, <2>2 DEF BoardInv, BoardTypes
      <3>2. PostIsSound(j)
        BY <2>1, <3>1 DEF BoardInv
      <3> QED  BY <1>4, <1>9, <3>1, <3>2, BlankPost DEF PostIsSound
    <2>3. CASE j = i /\ d.label = "none"
      <3>1. ideas'[j].label = ideas[j].label /\ ideas'[j].approval = ideas[j].approval /\ j \notin crossed
        BY <1>2, <1>3, <1>4, <1>5, <1>11, <2>1, <2>3 DEF BoardInv, BoardTypes
      <3>2. PostIsSound(j)
        BY <2>1, <3>1 DEF BoardInv
      <3> QED  BY <1>4, <1>9, <3>1, <3>2, BlankPost DEF PostIsSound
    <2>4. CASE j = i /\ d.label # "none"
      <3>1. Board!Asking(j)
        BY <1>1, <1>8, <2>4 DEF Board!Asking, Board!At
      <3>2. ideas'[j].approval = approval
        BY <1>2, <1>3, <2>1, <2>4 DEF BoardInv, BoardTypes
      <3>3. j \notin crossed => approval = "pending" /\ ~Board!Approving(j)
        <4> SUFFICES ASSUME j \notin crossed PROVE approval = "pending" /\ ~Board!Approving(j)
          OBVIOUS
        <4>1. PostIsSound(j)
          BY <2>1 DEF BoardInv
        <4>2. approval = "pending"
          BY <1>1, <1>6, <1>7, <1>8, <2>4, <4>1 DEF PostIsSound
        <4>3. ~Board!Approving(j)
          BY <3>1, <4>1 DEF PostIsSound, Board!Approving, Board!At
        <4> QED  BY <4>2, <4>3
      <3>4. approval = "pending" /\ ~Board!Approving(j)
        BY <1>4, <1>11, <2>4, <3>2, <3>3
      <3>5. \A e \in Callers : ~(desk'[e].at = "approve" /\ desk'[e].idea = j)
        BY <1>9, <3>4, BlankPost DEF Board!Approving, Board!At
      <3> QED  BY <3>2, <3>4, <3>5 DEF PostIsSound
    <2> QED  BY <2>2, <2>3, <2>4
  <1> QED  BY <1>10, <1>11 DEF BoardInv

\* The vision is beside the posts, and a request that stops leaves them.
LEMMA VisionKeepsBoard ==
    ASSUME BoardInv, VisionIsTyped, NEW c \in Callers,
           Board!VisionFor(c) \/ Board!CreateVision(c) \/ Board!UpdateVision(c) \/ Board!Stop(c)
    PROVE  BoardInv'
  <1>1. UNCHANGED <<ideas, agreed, crossed>>
    BY DEF Board!VisionFor, Board!CreateVision, Board!UpdateVision, Board!Stop
  <1>2. CASE Board!UpdateVision(c) \/ Board!Stop(c)
    BY <1>1, <1>2, BlankPost, BoardRests DEF Board!UpdateVision, Board!Stop, Board!Done, Board!Goto
  <1>3. desk[c] \in BoardDesks
    BY DEF BoardInv, BoardTypes
  <1>4. CASE Board!CreateVision(c)
    <2>1. [desk[c] EXCEPT !.at = "vision"] \in BoardDesks /\ [desk[c] EXCEPT !.at = "vision"].at = "vision"
      BY <1>3 DEF BoardDesks
    <2>2. PICK d \in BoardDesks : d.at \notin {"approve", "reply"} /\ desk' = [desk EXCEPT ![c] = d]
      BY <1>4, <2>1, BlankPost DEF Board!CreateVision, Board!Done, Board!Goto
    <2> QED  BY <1>1, <2>2, BoardRests
  <1>5. CASE Board!VisionFor(c)
    <2>1. PICK F \in SUBSET Slots, E \in SUBSET Slots, at \in {"vision", "create"} :
            desk' = [desk EXCEPT ![c] = [Board!NoDesk EXCEPT !.at = at, !.fill = F, !.clear = E,
                                                             !.was = vision.filled]]
      BY <1>5 DEF Board!VisionFor, Board!Goto
    <2> DEFINE d == [Board!NoDesk EXCEPT !.at = at, !.fill = F, !.clear = E, !.was = vision.filled]
    <2>2. d \in BoardDesks /\ d.at = at /\ desk' = [desk EXCEPT ![c] = d]
      BY <2>1, BlankPost DEF Board!NoDesk, BoardDesks, VisionIsTyped
    <2> HIDE DEF d
    <2> QED  BY <1>1, <2>2, BoardRests
  <1> QED  BY <1>2, <1>4, <1>5

\* Filling and clearing slots keeps to the slots there are.
LEMMA VisionStaysTyped ==
    ASSUME BoardInv, VisionIsTyped, [Board!Next]_(Board!boardVars)
    PROVE  VisionIsTyped'
  <1>1. CASE vision' = vision
    BY <1>1 DEF VisionIsTyped
  <1>2. CASE \E c \in Callers : Board!CreateVision(c)
    BY <1>2 DEF VisionIsTyped, Board!CreateVision
  <1>3. CASE \E c \in Callers : Board!UpdateVision(c)
    <2>0. PICK c \in Callers : Board!UpdateVision(c)
      BY <1>3
    <2>1. PICK same \in SUBSET (desk[c].fill \cap desk[c].was) :
            vision' = [vision EXCEPT !.filled = (@ \cup (desk[c].fill \ same))
                                                  \ (desk[c].clear \cap desk[c].was)]
      BY <2>0 DEF Board!UpdateVision
    <2>2. desk[c].fill \subseteq Slots
      BY DEF BoardInv, BoardTypes, BoardDesks
    <2> DEFINE filled == (vision.filled \cup (desk[c].fill \ same)) \ (desk[c].clear \cap desk[c].was)
    <2>3. filled \in SUBSET Slots
      BY <2>2 DEF VisionIsTyped
    <2>4. vision' = [vision EXCEPT !.filled = filled]
      BY <2>1
    <2> HIDE DEF filled
    <2> QED  BY <2>3, <2>4 DEF VisionIsTyped
  <1> QED
    BY <1>1, <1>2, <1>3 DEF Board!Next, Board!boardVars, Board!Post, Board!LoadToApprove, Board!Approve,
       Board!LoadToReply, Board!Reply, Board!VisionFor, Board!Stop

\* Every step keeps the invariant.
LEMMA BoardStep ==
    BoardInv /\ VisionIsTyped /\ [Board!Next]_(Board!boardVars) => BoardInv' /\ VisionIsTyped'
  <1> SUFFICES ASSUME BoardInv, VisionIsTyped, [Board!Next]_(Board!boardVars) PROVE BoardInv'
    BY VisionStaysTyped
  <1>1. CASE UNCHANGED Board!boardVars
    <2>1. UNCHANGED <<ideas, desk, agreed, crossed>>
      BY <1>1 DEF Board!boardVars
    <2> QED  BY <2>1 DEF BoardInv, BoardTypes, PostIsSound, Board!Asking, Board!At
  <1>2. ASSUME NEW c \in Callers,
               \/ Board!Post(c) \/ Board!LoadToApprove(c) \/ Board!Approve(c) \/ Board!LoadToReply(c)
               \/ Board!Reply(c) \/ Board!VisionFor(c) \/ Board!CreateVision(c) \/ Board!UpdateVision(c)
               \/ Board!Stop(c)
        PROVE  BoardInv'
    BY <1>2, PostKeepsBoard, LoadToApproveKeepsBoard, ApproveKeepsBoard, LoadToReplyKeepsBoard,
       ReplyKeepsBoard, VisionKeepsBoard
  <1> QED  BY <1>1, <1>2 DEF Board!Next

\* However approvals, replies and posts overlap, and wherever one stops, an approval stands for
\* the label it found: a post that is asked about again is not approved until it is approved
\* again, but where an approval and a reply that asks overlapped (approve, reply).
THEOREM BoardsStayHonest == Board!Spec => []Board!ApprovalIsForTheLabel
  <1>1. BoardInv => Board!ApprovalIsForTheLabel
    BY DEF BoardInv, PostIsSound, Board!ApprovalIsForTheLabel, Board!Posted
  <1> QED  BY <1>1, BoardStart, BoardStep, PTL DEF Board!Spec

-----------------------------------------------------------------------------
(* The plan wizard and its setup (PlanDesk).                                *)

\* The occasions: a row that is there has a slug of its own for good, whoever adds and edits.
Occasion(x) == x.key \in Keys /\ x = [key |-> x.key, active |-> x.active, order |-> x.order]
\* The inductive invariant of the occasions.
RowsInv == /\ menu = [r \in Occasions |-> menu[r]]
           /\ \A r \in Occasions : menu[r] = Wizard!NoRow \/ Occasion(menu[r])
           /\ \A r, x \in Wizard!Live : menu[r].key = menu[x].key => r = x

\* The inductive invariant of the setup: a request that inserts names a slug.
SetupInv == /\ RowsInv
            /\ desk = [c \in Callers |-> desk[c]]
            /\ \A c \in Callers : desk[c].at = "insert" => desk[c].key \in Keys

\* Retiring and reordering leave the slug.
LEMMA UpdateRowKeeps ==
    ASSUME Wizard!PlanAssumption, RowsInv, NEW c, Wizard!UpdateRow(c) PROVE RowsInv'
  <1>1. PICK r \in Wizard!Live : menu' \in {[menu EXCEPT ![r].active = ~@], [menu EXCEPT ![r].order = 0]}
    BY DEF Wizard!UpdateRow
  <1> DEFINE old == menu[r]
  <1>2. r \in Occasions /\ old # Wizard!NoRow /\ Occasion(old)
    BY DEF Wizard!Live, RowsInv
  <1>3. PICK y : menu' = [menu EXCEPT ![r] = y] /\ y.key = old.key /\ Occasion(y)
    <2>1. CASE menu' = [menu EXCEPT ![r].active = ~@]
      <3>1. menu' = [menu EXCEPT ![r] = [old EXCEPT !.active = ~@]]
        BY <2>1
      <3>2. [old EXCEPT !.active = ~@] = [key |-> old.key, active |-> ~old.active, order |-> old.order]
        BY <1>2 DEF Occasion
      <3>3. Occasion([key |-> old.key, active |-> ~old.active, order |-> old.order])
        BY <1>2 DEF Occasion
      <3> QED  BY <3>1, <3>2, <3>3
    <2>2. CASE menu' = [menu EXCEPT ![r].order = 0]
      <3>1. menu' = [menu EXCEPT ![r] = [old EXCEPT !.order = 0]]
        BY <2>2
      <3>2. [old EXCEPT !.order = 0] = [key |-> old.key, active |-> old.active, order |-> 0]
        BY <1>2 DEF Occasion
      <3>3. Occasion([key |-> old.key, active |-> old.active, order |-> 0])
        BY <1>2 DEF Occasion
      <3> QED  BY <3>1, <3>2, <3>3
    <2> QED  BY <1>1, <2>1, <2>2
  <1>4. y # Wizard!NoRow
    <2>1. Wizard!NoRow.key = "" /\ "" \notin Keys
      BY DEF Wizard!NoRow, Wizard!PlanAssumption
    <2>2. y.key \in Keys
      BY <1>3 DEF Occasion
    <2> QED  BY <2>1, <2>2
  <1> HIDE DEF old
  <1>5. menu' = [z \in Occasions |-> IF z = r THEN y ELSE menu[z]]
    BY <1>3 DEF RowsInv
  <1>6. \A z \in Occasions : menu'[z] # Wizard!NoRow =>
          menu[z] # Wizard!NoRow /\ menu'[z].key = menu[z].key
    BY <1>2, <1>3, <1>4, <1>5 DEF old
  <1>7. RowsInv'
    <2>1. menu' = [z \in Occasions |-> menu'[z]]
      BY <1>5
    <2>2. \A z \in Occasions : menu'[z] = Wizard!NoRow \/ Occasion(menu'[z])
      BY <1>3, <1>5 DEF RowsInv
    <2>3. \A z \in Wizard!Live' : z \in Wizard!Live /\ menu'[z].key = menu[z].key
      BY <1>5, <1>6 DEF Wizard!Live
    <2>4. \A z, w \in Wizard!Live' : menu'[z].key = menu'[w].key => z = w
      BY <2>3 DEF RowsInv
    <2> QED  BY <2>1, <2>2, <2>4 DEF RowsInv
  <1> QED  BY <1>7

\* The unique index refuses a slug that came in since the look-up.
LEMMA InsertKeyKeeps ==
    ASSUME Wizard!PlanAssumption, SetupInv, NEW c \in Callers, Wizard!InsertKey(c) PROVE RowsInv'
  <1> DEFINE k == desk[c].key
  <1>1. k \in Keys
    BY DEF Wizard!InsertKey, Wizard!At, SetupInv
  <1>2. CASE UNCHANGED menu
    BY <1>2 DEF SetupInv, RowsInv, Wizard!Live
  <1>3. CASE ~UNCHANGED menu
    <2>1. \A r \in Wizard!Live : menu[r].key # k
      BY <1>3 DEF Wizard!InsertKey
    <2>2. PICK r \in Occasions \ Wizard!Live :
            menu' = [menu EXCEPT ![r] = [key |-> k, active |-> TRUE, order |-> desk[c].order]]
      BY <1>3 DEF Wizard!InsertKey
    <2> DEFINE y == [key |-> k, active |-> TRUE, order |-> desk[c].order]
    <2>3. Occasion(y) /\ y # Wizard!NoRow /\ y.key = k
      BY <1>1 DEF Occasion, Wizard!NoRow
    <2> HIDE DEF y, k
    <2>4. menu' = [z \in Occasions |-> IF z = r THEN y ELSE menu[z]]
      BY <2>2 DEF y, k, SetupInv, RowsInv
    <2>5. menu[r] = Wizard!NoRow
      BY <2>2 DEF Wizard!Live
    <2>6. RowsInv'
      <3>1. menu' = [z \in Occasions |-> menu'[z]]
        BY <2>4
      <3>2. \A z \in Occasions : menu'[z] = Wizard!NoRow \/ Occasion(menu'[z])
        BY <2>3, <2>4 DEF SetupInv, RowsInv
      <3>3. \A z \in Wizard!Live' : z # r => z \in Wizard!Live /\ menu'[z].key = menu[z].key
        BY <2>4 DEF Wizard!Live
      <3>4. r \in Occasions /\ menu'[r].key = k
        BY <2>2, <2>3, <2>4
      <3>5. \A z, w \in Wizard!Live' : menu'[z].key = menu'[w].key => z = w
        BY <2>1, <3>3, <3>4 DEF SetupInv, RowsInv
      <3> QED  BY <3>1, <3>2, <3>5 DEF RowsInv
    <2> QED  BY <2>6
  <1> QED  BY <1>2, <1>3

\* Only the look-up of a slug brings a request to insert it.
LEMMA SetupGoes ==
    ASSUME SetupInv, NEW c \in Callers, [Wizard!Next]_(Wizard!planVars)
    PROVE  /\ desk' = [x \in Callers |-> desk'[x]]
           /\ \A x \in Callers : desk'[x].at = "insert" => desk'[x].key \in Keys
  <1> USE DEF SetupInv
  <1>1. CASE UNCHANGED desk
    BY <1>1
  <1>2. ASSUME NEW x \in Callers, NEW d, desk' = [desk EXCEPT ![x] = d],
               d.at = "insert" => d.key \in Keys
        PROVE  /\ desk' = [y \in Callers |-> desk'[y]]
               /\ \A y \in Callers : desk'[y].at = "insert" => desk'[y].key \in Keys
    BY <1>2
  <1>3. Wizard!NoDesk.at = "idle"
    BY DEF Wizard!NoDesk
  <1>4. ASSUME NEW x \in Callers, Wizard!FindKey(x)
        PROVE  \E d : desk' = [desk EXCEPT ![x] = d] /\ (d.at = "insert" => d.key \in Keys)
    <2>1. PICK k \in Keys :
            desk' = [desk EXCEPT ![x] = [Wizard!NoDesk EXCEPT !.at = "insert", !.key = k,
                                                              !.order = Wizard!NextOrder]]
      BY <1>4 DEF Wizard!FindKey, Wizard!Goto
    <2>2. [Wizard!NoDesk EXCEPT !.at = "insert", !.key = k, !.order = Wizard!NextOrder].key = k
      BY DEF Wizard!NoDesk
    <2> QED  BY <2>1, <2>2
  <1>5. ASSUME NEW x \in Callers, Wizard!FindNoDraft(x)
        PROVE  \E d : desk' = [desk EXCEPT ![x] = d] /\ (d.at = "insert" => d.key \in Keys)
    <2>1. PICK o \in Wizard!Asked :
            desk' = [desk EXCEPT ![x] = [Wizard!NoDesk EXCEPT !.at = "upsert", !.key = Wizard!Or(o, "")]]
      BY <1>5 DEF Wizard!FindNoDraft, Wizard!Goto
    <2>2. [Wizard!NoDesk EXCEPT !.at = "upsert", !.key = Wizard!Or(o, "")].at = "upsert"
      BY DEF Wizard!NoDesk
    <2> QED  BY <2>1, <2>2
  <1>6. ASSUME NEW x \in Callers, Wizard!FindDraft(x)
        PROVE  \E d : desk' = [desk EXCEPT ![x] = d] /\ (d.at = "insert" => d.key \in Keys)
    <2>1. PICK p, copy, key, k :
            desk' = [desk EXCEPT ![x] = [Wizard!NoDesk EXCEPT !.at = "submit", !.plan = p, !.copy = copy,
                                                              !.key = key, !.code = k]]
      BY <1>6 DEF Wizard!FindDraft, Wizard!Goto
    <2>2. [Wizard!NoDesk EXCEPT !.at = "submit", !.plan = p, !.copy = copy, !.key = key,
                                !.code = k].at = "submit"
      BY DEF Wizard!NoDesk
    <2> QED  BY <2>1, <2>2
  <1>7. ASSUME NEW x \in Callers, Wizard!FindPlan(x)
        PROVE  \E d : desk' = [desk EXCEPT ![x] = d] /\ (d.at = "insert" => d.key \in Keys)
    <2>1. PICK p \in Plans, o \in Wizard!Asked, at \in {"save", "delete"} :
            desk' = [desk EXCEPT ![x] = [Wizard!NoDesk EXCEPT !.at = at, !.plan = p,
                       !.copy = plans[p].occasion, !.key = Wizard!Or(o, plans[p].occasion)]]
      BY <1>7 DEF Wizard!FindPlan, Wizard!Goto
    <2> DEFINE d == [Wizard!NoDesk EXCEPT !.at = at, !.plan = p, !.copy = plans[p].occasion,
                                          !.key = Wizard!Or(o, plans[p].occasion)]
    <2>2. d.at = at /\ desk' = [desk EXCEPT ![x] = d]
      BY <2>1 DEF Wizard!NoDesk
    <2> HIDE DEF d
    <2> QED  BY <2>2
  <1>8. ASSUME NEW x \in Callers, Wizard!Done(x)
        PROVE  \E d : desk' = [desk EXCEPT ![x] = d] /\ (d.at = "insert" => d.key \in Keys)
    BY <1>3, <1>8 DEF Wizard!Done, Wizard!Goto
  <1>9. \/ UNCHANGED desk
        \/ \E x \in Callers : \/ Wizard!FindKey(x) \/ Wizard!FindNoDraft(x) \/ Wizard!FindDraft(x)
                              \/ Wizard!FindPlan(x) \/ Wizard!Done(x)
    BY DEF Wizard!Next, Wizard!planVars, Wizard!UpdateRow, Wizard!SaveDraft, Wizard!InsertKey,
           Wizard!InsertDraft, Wizard!Submit, Wizard!UpdatePlan, Wizard!RemovePlan, Wizard!Stop
  <1> QED  BY <1>1, <1>2, <1>4, <1>5, <1>6, <1>7, <1>8, <1>9

\* Every step keeps the invariant of the setup.
LEMMA SetupStep ==
    ASSUME Wizard!PlanAssumption PROVE SetupInv /\ [Wizard!Next]_(Wizard!planVars) => SetupInv'
  <1> SUFFICES ASSUME SetupInv, [Wizard!Next]_(Wizard!planVars) PROVE SetupInv'
    OBVIOUS
  <1>1. CASE UNCHANGED menu
    <2>1. RowsInv'
      BY <1>1 DEF SetupInv, RowsInv, Wizard!Live
    <2>2. /\ desk' = [x \in Callers |-> desk'[x]]
          /\ \A x \in Callers : desk'[x].at = "insert" => desk'[x].key \in Keys
      <3>1. CASE Callers = {}
        BY <3>1 DEF Wizard!Next, Wizard!planVars, SetupInv
      <3>2. CASE Callers # {}
        BY <3>2, SetupGoes
      <3> QED  BY <3>1, <3>2
    <2> QED  BY <2>1, <2>2 DEF SetupInv
  <1>2. ASSUME NEW c \in Callers, Wizard!InsertKey(c) \/ Wizard!UpdateRow(c) PROVE SetupInv'
    <2>1. RowsInv'
      BY <1>2, InsertKeyKeeps, UpdateRowKeeps DEF SetupInv
    <2> QED  BY <2>1, <1>2, SetupGoes DEF SetupInv
  <1> QED
    BY <1>1, <1>2 DEF Wizard!Next, Wizard!planVars, Wizard!FindKey, Wizard!SaveDraft, Wizard!FindNoDraft,
       Wizard!InsertDraft, Wizard!FindDraft, Wizard!Submit, Wizard!FindPlan, Wizard!UpdatePlan,
       Wizard!RemovePlan, Wizard!Stop

\* No occasion satisfies the invariant of the setup.
LEMMA SetupStart == Wizard!Init => SetupInv
  <1>1. Wizard!NoDesk.at = "idle"
    BY DEF Wizard!NoDesk
  <1> QED  BY <1>1 DEF Wizard!Init, SetupInv, RowsInv, Wizard!Live

\* However many admins are at work, a slug names one occasion: the look-up before an insert
\* is not what keeps it so, the unique index is (insert, update).
THEOREM KeysStayDifferent ==
    ASSUME Wizard!PlanAssumption PROVE Wizard!Spec => []Wizard!KeysDiffer
  <1>1. SetupInv => Wizard!KeysDiffer
    BY DEF SetupInv, RowsInv, Wizard!KeysDiffer
  <1> QED  BY <1>1, SetupStart, SetupStep, PTL DEF Wizard!Spec

\* The occasion a plan may name, and the plans.
Texts    == Keys \cup {""}
PlanRows == [status : {"none", "draft", "submitted"}, occasion : Texts, code : Codes \cup {0}]

\* The plans t and what the customer was told, h: one draft at most, every code told is the code
\* of the plan it was told for, and what was submitted has an occasion and a code.
PlansSound(t, h) ==
    /\ t \in [Plans -> PlanRows]
    /\ \A p, q \in Plans : t[p].status = "draft" /\ t[q].status = "draft" => p = q
    /\ \A x \in h : x[1] \in Plans /\ t[x[1]].status = "submitted" /\ t[x[1]].code = x[2]
    /\ \A p \in Plans : t[p].status = "submitted" => t[p].occasion # "" /\ t[p].code # 0

\* What a request that stands at d holds of the plans t.
PlanHeld(d, t) ==
    /\ d.at \in {"upsert", "submit", "save"} => d.key \in Texts
    /\ d.at = "upsert" => \A p \in Plans : t[p].status # "draft"
    /\ d.at = "submit" =>
         /\ d.code \in Codes
         /\ d.plan # 0 => d.plan \in Plans /\ t[d.plan].status = "draft" /\ d.copy = t[d.plan].occasion
    /\ d.at \in {"save", "delete"} => d.plan \in Plans

\* The inductive invariant of the plans of a customer whose requests do not overlap.
DraftInv ==
    /\ desk = [c \in Callers |-> desk[c]]
    /\ PlansSound(plans, told)
    /\ \A c \in Callers : PlanHeld(desk[c], plans)

\* No plan and no request.
LEMMA BlankPlan ==
    /\ Wizard!NoPlan \in PlanRows /\ Wizard!NoPlan.status = "none"
    /\ \A t : PlanHeld(Wizard!NoDesk, t)
  BY DEF Wizard!NoPlan, PlanRows, Texts, PlanHeld, Wizard!NoDesk

\* No plan satisfies the invariant of the plans.
LEMMA DraftStart == Wizard!Init => DraftInv
  <1> SUFFICES ASSUME Wizard!Init PROVE DraftInv
    OBVIOUS
  <1>1. PlansSound(plans, told)
    BY BlankPlan DEF Wizard!Init, PlansSound
  <1>2. \A c \in Callers : desk[c] = Wizard!NoDesk
    BY DEF Wizard!Init
  <1> QED  BY <1>1, <1>2, BlankPlan DEF Wizard!Init, DraftInv

\* One request at a time: what it holds when it has gone on is all that is held.
LEMMA DraftGoes ==
    ASSUME Wizard!Alone, DraftInv, NEW c \in Callers, NEW d, Wizard!Goto(c, d),
           PlanHeld(d, plans'), PlansSound(plans', told')
    PROVE  DraftInv'
  <1>1. desk' = [x \in Callers |-> desk'[x]] /\ desk'[c] = d
    BY DEF DraftInv, Wizard!Goto
  <1>2. \A x \in Callers : x = c
    BY DEF Wizard!Alone
  <1> QED  BY <1>1, <1>2 DEF DraftInv

\* A request at rest.
LEMMA DraftRests ==
    ASSUME Wizard!Alone, DraftInv, NEW c \in Callers, Wizard!Done(c), PlansSound(plans', told')
    PROVE  DraftInv'
  BY DraftGoes, BlankPlan DEF Wizard!Done

\* A plan that is written is a draft only where it was the one draft, and takes along what
\* was told of it.
LEMMA PlanWritten ==
    ASSUME DraftInv, NEW p \in Plans, NEW q \in PlanRows, plans' = [plans EXCEPT ![p] = q],
           q.status = "draft" => \A x \in Plans : plans[x].status = "draft" => x = p,
           q.status = "submitted" => q.occasion # "" /\ q.code # 0,
           \A x \in told' : \/ x[1] = p /\ q.status = "submitted" /\ q.code = x[2]
                            \/ x[1] # p /\ x \in told
    PROVE  PlansSound(plans', told')
  <1>1. plans' \in [Plans -> PlanRows] /\ \A x \in Plans : plans'[x] = IF x = p THEN q ELSE plans[x]
    BY DEF DraftInv, PlansSound
  <1>2. \A x, y \in Plans : plans'[x].status = "draft" /\ plans'[y].status = "draft" => x = y
    BY <1>1 DEF DraftInv, PlansSound
  <1>3. ASSUME NEW x \in told'
        PROVE  x[1] \in Plans /\ plans'[x[1]].status = "submitted" /\ plans'[x[1]].code = x[2]
    <2>1. CASE x[1] = p
      BY <2>1, <1>1
    <2>2. CASE x[1] # p
      BY <2>2, <1>1 DEF DraftInv, PlansSound
    <2> QED  BY <2>1, <2>2
  <1>4. \A x \in Plans : plans'[x].status = "submitted" => plans'[x].occasion # "" /\ plans'[x].code # 0
    BY <1>1 DEF DraftInv, PlansSound
  <1> QED  BY <1>1, <1>2, <1>3, <1>4 DEF PlansSound

\* What a request names of an occasion.
LEMMA OrIs == \A o \in Wizard!Asked, old \in Texts : Wizard!Or(o, old) \in Texts
  BY DEF Wizard!Asked, Wizard!Or, Texts

\* The setup leaves the plans.
LEMMA SetupKeepsPlans ==
    ASSUME Wizard!Alone, DraftInv, NEW c \in Callers,
           Wizard!FindKey(c) \/ Wizard!InsertKey(c) \/ Wizard!UpdateRow(c) \/ Wizard!Stop(c)
    PROVE  DraftInv'
  <1>1. UNCHANGED <<plans, told>>
    BY DEF Wizard!FindKey, Wizard!InsertKey, Wizard!UpdateRow, Wizard!Stop
  <1>2. PlansSound(plans', told')
    BY <1>1 DEF DraftInv
  <1>3. CASE Wizard!UpdateRow(c)
    BY <1>1, <1>3 DEF Wizard!UpdateRow, DraftInv
  <1>4. CASE Wizard!InsertKey(c) \/ Wizard!Stop(c)
    BY <1>2, <1>4, DraftRests DEF Wizard!InsertKey, Wizard!Stop
  <1>5. CASE Wizard!FindKey(c)
    <2>1. PICK k \in Keys :
            Wizard!Goto(c, [Wizard!NoDesk EXCEPT !.at = "insert", !.key = k, !.order = Wizard!NextOrder])
      BY <1>5 DEF Wizard!FindKey
    <2> DEFINE d == [Wizard!NoDesk EXCEPT !.at = "insert", !.key = k, !.order = Wizard!NextOrder]
    <2>2. d.at = "insert" /\ Wizard!Goto(c, d)
      BY <2>1 DEF Wizard!NoDesk
    <2> HIDE DEF d
    <2>3. PlanHeld(d, plans')
      BY <2>2 DEF PlanHeld
    <2> QED  BY <1>2, <2>2, <2>3, DraftGoes
  <1> QED  BY <1>3, <1>4, <1>5

\* A draft is changed in place, and inserted where none was: nobody else is at work.
LEMMA DraftsKeepPlans ==
    ASSUME Wizard!Alone, DraftInv, NEW c \in Callers,
           Wizard!SaveDraft(c) \/ Wizard!FindNoDraft(c) \/ Wizard!InsertDraft(c)
    PROVE  DraftInv'
  <1>1. CASE Wizard!SaveDraft(c)
    <2>1. PICK p \in Wizard!Drafts, o \in Wizard!Asked :
            plans' = [plans EXCEPT ![p].occasion = Wizard!Or(o, plans[p].occasion)]
      BY <1>1 DEF Wizard!SaveDraft
    <2> DEFINE q == [plans[p] EXCEPT !.occasion = Wizard!Or(o, plans[p].occasion)]
    <2>2. p \in Plans /\ plans[p] \in PlanRows /\ plans[p].status = "draft"
      BY DEF Wizard!Drafts, DraftInv, PlansSound
    <2>3. q \in PlanRows /\ q.status = "draft"
      <3>1. Wizard!Or(o, plans[p].occasion) \in Texts
        BY <2>2, OrIs DEF PlanRows
      <3> QED  BY <2>2, <3>1 DEF PlanRows
    <2>4. plans' = [plans EXCEPT ![p] = q]
      BY <2>1
    <2> HIDE DEF q
    <2>5. \A x \in Plans : plans[x].status = "draft" => x = p
      BY <2>2 DEF DraftInv, PlansSound
    <2>6. \A x \in told' : x[1] # p /\ x \in told
      BY <1>1, <2>2 DEF Wizard!SaveDraft, DraftInv, PlansSound
    <2>7. PlansSound(plans', told')
      BY <2>2, <2>3, <2>4, <2>5, <2>6, PlanWritten
    <2>8. \A x \in Callers : desk[x].at = "idle" /\ desk' = desk
      BY <1>1 DEF Wizard!SaveDraft, Wizard!At, Wizard!Alone
    <2>9. \A x \in Callers : PlanHeld(desk[x], plans')
      BY <2>8 DEF PlanHeld
    <2>10. desk' = desk
      BY <1>1 DEF Wizard!SaveDraft
    <2> QED  BY <2>7, <2>9, <2>10 DEF DraftInv
  <1>2. CASE Wizard!FindNoDraft(c)
    <2>1. PICK o \in Wizard!Asked :
            Wizard!Goto(c, [Wizard!NoDesk EXCEPT !.at = "upsert", !.key = Wizard!Or(o, "")])
      BY <1>2 DEF Wizard!FindNoDraft
    <2> DEFINE d == [Wizard!NoDesk EXCEPT !.at = "upsert", !.key = Wizard!Or(o, "")]
    <2>2. Wizard!Or(o, "") \in Texts
      BY OrIs DEF Texts
    <2>3. d.at = "upsert" /\ d.key \in Texts /\ Wizard!Goto(c, d)
      BY <2>1, <2>2 DEF Wizard!NoDesk
    <2> HIDE DEF d
    <2>4. UNCHANGED <<plans, told>> /\ Wizard!Drafts = {}
      BY <1>2 DEF Wizard!FindNoDraft
    <2>5. PlanHeld(d, plans')
      BY <2>3, <2>4 DEF PlanHeld, Wizard!Drafts
    <2> QED  BY <2>3, <2>4, <2>5, DraftGoes DEF DraftInv
  <1>3. CASE Wizard!InsertDraft(c)
    <2> DEFINE q == [status |-> "draft", occasion |-> desk[c].key, code |-> 0]
    <2>1. PICK p \in Wizard!Free : plans' = [plans EXCEPT ![p] = q]
      BY <1>3 DEF Wizard!InsertDraft
    <2>2. desk[c].at = "upsert" /\ PlanHeld(desk[c], plans) /\ told' = told /\ Wizard!Done(c)
      BY <1>3 DEF Wizard!InsertDraft, Wizard!At, DraftInv
    <2>3. q \in PlanRows /\ q.status = "draft"
      BY <2>2 DEF PlanRows, PlanHeld
    <2>4. p \in Plans /\ plans[p].status = "none"
      BY BlankPlan DEF Wizard!Free
    <2> HIDE DEF q
    <2>5. \A x \in Plans : plans[x].status = "draft" => x = p
      BY <2>2 DEF PlanHeld
    <2>6. \A x \in told' : x[1] # p /\ x \in told
      BY <2>2, <2>4 DEF DraftInv, PlansSound
    <2>7. PlansSound(plans', told')
      BY <2>1, <2>3, <2>4, <2>5, <2>6, PlanWritten
    <2> QED  BY <2>2, <2>7, DraftRests
  <1> QED  BY <1>1, <1>2, <1>3

\* submit holds the draft as it stands.
LEMMA FindDraftKeepsPlans ==
    ASSUME Wizard!Alone, DraftInv, NEW c \in Callers, Wizard!FindDraft(c) PROVE DraftInv'
  <1>1. PICK o \in Wizard!Asked, k \in Codes, p \in IF Wizard!Drafts = {} THEN {0} ELSE Wizard!Drafts :
          LET copy == IF p = 0 THEN "" ELSE plans[p].occasion IN
          Wizard!Goto(c, [Wizard!NoDesk EXCEPT !.at = "submit", !.plan = p, !.copy = copy,
                                               !.key = Wizard!Or(o, copy), !.code = k])
    BY DEF Wizard!FindDraft
  <1> DEFINE copy == IF p = 0 THEN "" ELSE plans[p].occasion
             d == [Wizard!NoDesk EXCEPT !.at = "submit", !.plan = p, !.copy = copy,
                                        !.key = Wizard!Or(o, copy), !.code = k]
  <1>2. p # 0 => p \in Plans /\ plans[p].status = "draft" /\ plans[p].occasion \in Texts
    BY DEF Wizard!Drafts, DraftInv, PlansSound, PlanRows
  <1>3. copy \in Texts /\ (p # 0 => copy = plans[p].occasion)
    BY <1>2 DEF Texts
  <1> HIDE DEF copy
  <1>4. /\ d.at = "submit" /\ d.plan = p /\ d.copy = copy /\ d.key = Wizard!Or(o, copy) /\ d.code = k
        /\ Wizard!Goto(c, d)
    BY <1>1 DEF Wizard!NoDesk, copy
  <1> HIDE DEF d
  <1>5. UNCHANGED <<plans, told>>
    BY DEF Wizard!FindDraft
  <1>6. PlanHeld(d, plans')
    BY <1>2, <1>3, <1>4, <1>5, OrIs DEF PlanHeld
  <1> QED  BY <1>4, <1>5, <1>6, DraftGoes DEF DraftInv

\* The draft becomes the plan, or a plan is inserted where none was; either has an occasion.
LEMMA SubmitKeepsPlans ==
    ASSUME Wizard!PlanAssumption, Wizard!Alone, DraftInv, NEW c \in Callers, Wizard!Submit(c)
    PROVE  DraftInv'
  <1> DEFINE d == desk[c]
  <1>1. PICK p \in IF d.plan = 0 THEN Wizard!Free ELSE {d.plan} :
          IF d.key = "" \/ (d.plan # 0 /\ plans[p] = Wizard!NoPlan) THEN UNCHANGED <<plans, told>>
          ELSE /\ plans' = [plans EXCEPT ![p] = [status |-> "submitted", code |-> d.code,
                     occasion |-> IF d.plan # 0 /\ d.key = d.copy THEN plans[p].occasion ELSE d.key]]
               /\ told' = told \cup {<<p, d.code>>}
    BY DEF Wizard!Submit
  <1>2. /\ d.at = "submit" /\ PlanHeld(d, plans) /\ Wizard!Done(c)
        /\ d.key \in Texts /\ d.code \in Codes /\ d.code # 0
        /\ d.plan # 0 => d.plan \in Plans /\ plans[d.plan].status = "draft" /\ d.copy = plans[d.plan].occasion
    BY DEF Wizard!Submit, Wizard!At, DraftInv, PlanHeld, Wizard!PlanAssumption
  <1>3. p \in Plans /\ plans[p].status # "submitted" /\ (d.plan # 0 => p = d.plan)
    BY <1>2, BlankPlan DEF Wizard!Free
  <1> HIDE DEF d
  <1>4. CASE UNCHANGED <<plans, told>>
    BY <1>2, <1>4, DraftRests DEF DraftInv
  <1>5. CASE d.key # "" /\ ~UNCHANGED <<plans, told>>
    <2> DEFINE occasion == IF d.plan # 0 /\ d.key = d.copy THEN plans[p].occasion ELSE d.key
               q == [status |-> "submitted", code |-> d.code, occasion |-> occasion]
    <2>1. occasion = d.key
      BY <1>2, <1>3
    <2>2. plans' = [plans EXCEPT ![p] = q] /\ told' = told \cup {<<p, d.code>>}
      BY <1>1, <1>5
    <2>3. q \in PlanRows /\ q.status = "submitted" /\ q.occasion = d.key /\ q.code = d.code
      BY <1>2, <2>1 DEF PlanRows
    <2> HIDE DEF q, occasion
    <2>4. \A x \in told' : \/ x[1] = p /\ q.status = "submitted" /\ q.code = x[2]
                           \/ x[1] # p /\ x \in told
      <3>1. <<p, d.code>>[1] = p /\ <<p, d.code>>[2] = d.code
        OBVIOUS
      <3>2. \A x \in told : x[1] # p
        BY <1>3 DEF DraftInv, PlansSound
      <3>3. \A x \in told' : x \in told \/ x = <<p, d.code>>
        BY <2>2
      <3> QED  BY <2>3, <3>1, <3>2, <3>3
    <2>5. PlansSound(plans', told')
      BY <1>2, <1>3, <1>5, <2>2, <2>3, <2>4, PlanWritten
    <2> QED  BY <1>2, <2>5, DraftRests
  <1> QED  BY <1>1, <1>4, <1>5

\* An update and a removal are of a plan there is.
LEMMA PlanKeepsPlans ==
    ASSUME Wizard!Alone, DraftInv, NEW c \in Callers,
           Wizard!FindPlan(c) \/ Wizard!UpdatePlan(c) \/ Wizard!RemovePlan(c)
    PROVE  DraftInv'
  <1>1. CASE Wizard!FindPlan(c)
    <2>1. PICK p \in Plans \ Wizard!Free, o \in Wizard!Asked, at \in {"save", "delete"} :
            Wizard!Goto(c, [Wizard!NoDesk EXCEPT !.at = at, !.plan = p, !.copy = plans[p].occasion,
                                                 !.key = Wizard!Or(o, plans[p].occasion)])
      BY <1>1 DEF Wizard!FindPlan
    <2> DEFINE d == [Wizard!NoDesk EXCEPT !.at = at, !.plan = p, !.copy = plans[p].occasion,
                                          !.key = Wizard!Or(o, plans[p].occasion)]
    <2>2. Wizard!Or(o, plans[p].occasion) \in Texts
      BY OrIs DEF DraftInv, PlansSound, PlanRows
    <2>3. d.at = at /\ d.plan = p /\ d.key \in Texts /\ Wizard!Goto(c, d)
      BY <2>1, <2>2 DEF Wizard!NoDesk
    <2> HIDE DEF d
    <2>4. UNCHANGED <<plans, told>> /\ PlanHeld(d, plans')
      BY <1>1, <2>3 DEF Wizard!FindPlan, PlanHeld
    <2> QED  BY <2>3, <2>4, DraftGoes DEF DraftInv
  <1>2. CASE Wizard!UpdatePlan(c)
    <2> DEFINE d == desk[c]
               p == d.plan
               q == [plans[p] EXCEPT !.occasion = d.key]
    <2>1. d.at = "save" /\ p \in Plans /\ d.key \in Texts /\ Wizard!Done(c) /\ told' = told
      BY <1>2 DEF Wizard!UpdatePlan, Wizard!At, DraftInv, PlanHeld
    <2>2. plans' = IF d.key \in {"", d.copy} \/ plans[p] = Wizard!NoPlan THEN plans
                   ELSE [plans EXCEPT ![p] = q]
      BY <1>2 DEF Wizard!UpdatePlan
    <2>3. plans[p] \in PlanRows
      BY <2>1 DEF DraftInv, PlansSound
    <2>4. q \in PlanRows /\ q.status = plans[p].status /\ q.code = plans[p].code /\ q.occasion = d.key
      BY <2>1, <2>3 DEF PlanRows
    <2> HIDE DEF d, p, q
    <2>5. CASE plans' = plans
      BY <2>1, <2>5, DraftRests DEF DraftInv
    <2>6. CASE d.key # "" /\ plans' = [plans EXCEPT ![p] = q]
      <3>1. q.status = "draft" => \A x \in Plans : plans[x].status = "draft" => x = p
        BY <2>1, <2>4 DEF DraftInv, PlansSound
      <3>2. \A x \in told' : \/ x[1] = p /\ q.status = "submitted" /\ q.code = x[2]
                             \/ x[1] # p /\ x \in told
        BY <2>1, <2>4 DEF DraftInv, PlansSound
      <3>3. q.status = "submitted" => q.occasion # "" /\ q.code # 0
        BY <2>1, <2>4, <2>6 DEF DraftInv, PlansSound
      <3>4. PlansSound(plans', told')
        BY <2>1, <2>4, <2>6, <3>1, <3>2, <3>3, PlanWritten
      <3> QED  BY <2>1, <3>4, DraftRests
    <2> QED  BY <2>2, <2>5, <2>6
  <1>3. CASE Wizard!RemovePlan(c)
    <2> DEFINE p == desk[c].plan
    <2>1. /\ p \in Plans /\ Wizard!Done(c) /\ plans' = [plans EXCEPT ![p] = Wizard!NoPlan]
          /\ told' = {x \in told : x[1] # p}
      BY <1>3 DEF Wizard!RemovePlan, Wizard!At, DraftInv, PlanHeld
    <2> HIDE DEF p
    <2>2. PlansSound(plans', told')
      BY <2>1, BlankPlan, PlanWritten
    <2> QED  BY <2>1, <2>2, DraftRests
  <1> QED  BY <1>1, <1>2, <1>3

\* Every step keeps the invariant of the plans.
LEMMA DraftStep ==
    ASSUME Wizard!PlanAssumption, Wizard!Alone
    PROVE  DraftInv /\ [Wizard!Next]_(Wizard!planVars) => DraftInv'
  <1> SUFFICES ASSUME DraftInv, [Wizard!Next]_(Wizard!planVars) PROVE DraftInv'
    OBVIOUS
  <1>1. CASE UNCHANGED Wizard!planVars
    <2>1. UNCHANGED <<plans, desk, told>>
      BY <1>1 DEF Wizard!planVars
    <2> QED  BY <2>1 DEF DraftInv
  <1>2. CASE Wizard!Next
    BY <1>2, SetupKeepsPlans, DraftsKeepPlans, FindDraftKeepsPlans, SubmitKeepsPlans, PlanKeepsPlans
       DEF Wizard!Next
  <1> QED  BY <1>1, <1>2

\* The instance counts a set as this module does.
LEMMA PlanCounts == \A S : Wizard!Cardinality(S) = Cardinality(S) /\ (Wizard!IsFiniteSet(S) <=> IsFiniteSet(S))
  BY Zenon DEF Wizard!Cardinality, Cardinality, Wizard!IsFiniteSet, IsFiniteSet

\* The invariant says so.
LEMMA DraftReads == DraftInv => Wizard!OneDraftOneCode
  <1> SUFFICES ASSUME DraftInv PROVE Wizard!OneDraftOneCode
    OBVIOUS
  <1>1. Wizard!Drafts = {} \/ \E p : Wizard!Drafts = {p}
    BY DEF DraftInv, PlansSound, Wizard!Drafts
  <1>2. Cardinality(Wizard!Drafts) <= 1
    <2>1. CASE Wizard!Drafts = {}
      BY <2>1, FS_EmptySet
    <2>2. ASSUME NEW p, Wizard!Drafts = {p} PROVE Cardinality(Wizard!Drafts) <= 1
      <3>1. Cardinality({p}) = 1
        BY FS_Singleton
      <3> QED  BY <2>2, <3>1
    <2> QED  BY <1>1, <2>1, <2>2
  <1> QED  BY <1>2, PlanCounts DEF Wizard!OneDraftOneCode, DraftInv, PlansSound

\* A customer whose requests do not overlap, and fail or die at any call, has one draft at most,
\* every code they were told is on the plan it was told for, and a submitted plan names an
\* occasion and a code (saveDraft, submit, update, remove).
THEOREM DraftsStayOne ==
    ASSUME Wizard!PlanAssumption, Wizard!Alone PROVE Wizard!Spec => []Wizard!OneDraftOneCode
  <1> QED  BY DraftStart, DraftStep, DraftReads, PTL DEF Wizard!Spec

-----------------------------------------------------------------------------
(* The coupons (CouponDesk).                                                *)

\* The instance counts a set as this module does.
LEMMA CouponCounts == \A S : Discounts!Cardinality(S) = Cardinality(S) /\ (Discounts!IsFiniteSet(S) <=> IsFiniteSet(S))
  BY Zenon DEF Discounts!Cardinality, Discounts!IsFiniteSet, Cardinality, IsFiniteSet

\* A sort by key lists each element once, by key.
LEMMA SortedIs ==
    ASSUME NEW S, IsFiniteSet(S), NEW key, \A x \in S : key[x] \in Int
    PROVE  /\ Discounts!Sorted(S, key) \in [1..Cardinality(S) -> S] /\ Cardinality(S) \in Nat
           /\ \A x \in S : \E i \in 1..Cardinality(S) : Discounts!Sorted(S, key)[i] = x
           /\ \A i, j \in 1..Cardinality(S) :
                i < j => key[Discounts!Sorted(S, key)[i]] <= key[Discounts!Sorted(S, key)[j]]
  <1> DEFINE R == {p \in S \X S : key[p[1]] <= key[p[2]]}
             n == Cardinality(S)
             Fits(s) == \A i, j \in DOMAIN s : i < j => key[s[i]] <= key[s[j]]
  <1>1. \A x, y \in S : <<x, y>> \in R <=> key[x] <= key[y]
    OBVIOUS
  <1> HIDE DEF R
  <1>2. Orders(R, S)
    BY <1>1 DEF Orders
  <1>3. PICK s : Lists(s, S, R)
    BY <1>2, SortExists
  <1>4. s \in Discounts!Bijection(1..n, S) /\ Fits(s)
    <2>1. /\ s \in [1..n -> S]
          /\ \A i, j \in 1..n : s[i] = s[j] => i = j
          /\ \A x \in S : \E i \in 1..n : s[i] = x
          /\ \A i, j \in 1..n : i < j => <<s[i], s[j]>> \in R
      BY <1>3 DEF Lists
    <2> HIDE DEF n
    <2>2. s \in Discounts!Bijection(1..n, S)
      BY <2>1 DEF Discounts!Bijection, Discounts!Injection, Discounts!Surjection, Discounts!IsInjective
    <2>3. \A i, j \in 1..n : i < j => key[s[i]] <= key[s[j]]
      BY <2>1, <1>1
    <2> QED  BY <2>1, <2>2, <2>3
  <1>5. Discounts!Sorted(S, key) = CHOOSE t \in Discounts!Bijection(1..n, S) : Fits(t)
    BY CouponCounts DEF Discounts!Sorted
  <1> HIDE DEF Fits
  <1>6. Discounts!Sorted(S, key) \in Discounts!Bijection(1..n, S) /\ Fits(Discounts!Sorted(S, key))
    BY <1>4, <1>5
  <1> DEFINE t == Discounts!Sorted(S, key)
  <1> HIDE DEF t
  <1>7. t \in [1..n -> S] /\ \A x \in S : \E i \in 1..n : t[i] = x
    BY <1>6 DEF Discounts!Bijection, Discounts!Injection, Discounts!Surjection, t
  <1>8. \A i, j \in 1..n : i < j => key[t[i]] <= key[t[j]]
    BY <1>6, <1>7 DEF Fits, t
  <1>9. n \in Nat
    BY FS_CardinalityType
  <1> QED  BY <1>7, <1>8, <1>9 DEF t


\* A percentage of a number, rounded down, is a number; of a hundred or more it is not 0.
LEMMA Percent ==
    ASSUME NEW a \in Nat, NEW p \in Nat
    PROVE  (a * p) \div 100 \in Nat /\ (a >= 100 /\ p >= 1 => (a * p) \div 100 >= 1)
  <1>1. a * p \in Nat
    BY SMT
  <1>2. a >= 100 /\ p >= 1 => a * p >= 100
    BY SMT
  <1> DEFINE m == a * p
  <1> HIDE DEF m
  <1>3. m \in Nat => m \div 100 \in Nat /\ (m >= 100 => m \div 100 >= 1)
    BY SMT
  <1> QED  BY <1>1, <1>2, <1>3 DEF m

\* A percentage of an amount, rounded, is at most the amount.
LEMMA Part ==
    ASSUME NEW a \in Nat, NEW p \in 0..100
    PROVE  (a * p + 50) \div 100 \in 0..a
  <1>1. a * p \in Nat /\ a * p <= a * 100
    BY SMT
  <1> DEFINE m == a * p
  <1> HIDE DEF m
  <1>2. m \in Nat /\ m <= a * 100 => (m + 50) \div 100 \in 0..a
    BY SMT
  <1> QED  BY <1>1, <1>2 DEF m

\* A stored coupon, or none.
CouponRows == Discounts!Terms \cup {Discounts!NoTerms}

\* The numbers of a coupon.
LEMMA RowIs ==
    ASSUME NEW t \in CouponRows
    PROVE  /\ t.value \in Nat /\ t.cap \in Nat /\ t.min \in Nat /\ t.starts \in Nat /\ t.ends \in Nat
           /\ t.limit \in Nat /\ t.perCustomer \in Nat
           /\ t # Discounts!NoTerms => t \in Discounts!Terms /\ t.value >= 1
           /\ t = Discounts!NoTerms => t.status = "none" /\ t.value = 0
  BY DEF CouponRows, Discounts!Terms, Discounts!NoTerms, Discounts!None

\* What a coupon takes off is never more than the bill, and of a hundred rupees or more
\* something (discountFor).
LEMMA DiscountIs ==
    ASSUME NEW t \in CouponRows, NEW a \in Nat
    PROVE  /\ Discounts!DiscountFor(t, a) \in 0..a
           /\ t # Discounts!NoTerms /\ a >= 100 => Discounts!DiscountFor(t, a) > 0
  <1> DEFINE raw == IF t.type = "percentage" THEN (a * t.value) \div 100 ELSE t.value
             capped == IF t.type = "percentage" /\ t.cap > 0 THEN Discounts!Smaller(raw, t.cap) ELSE raw
  <1>1. t.value \in Nat /\ t.cap \in Nat /\ (t # Discounts!NoTerms => t.value >= 1)
    BY RowIs
  <1>2. raw \in Nat /\ (t # Discounts!NoTerms /\ a >= 100 => raw >= 1)
    BY <1>1, Percent
  <1>3. Discounts!DiscountFor(t, a) = IF a <= 0 THEN 0 ELSE Discounts!Larger(0, Discounts!Smaller(capped, a))
    BY Zenon DEF Discounts!DiscountFor
  <1> HIDE DEF raw
  <1>4. capped \in Nat /\ (t # Discounts!NoTerms /\ a >= 100 => capped >= 1)
    BY <1>1, <1>2 DEF Discounts!Smaller
  <1> HIDE DEF capped
  <1> QED  BY <1>3, <1>4 DEF Discounts!Smaller, Discounts!Larger

\* Discount and final price add up to the price (quote).
LEMMA QuoteIs ==
    ASSUME Discounts!CouponAssumption, coupon \in [Coupons -> CouponRows], NEW q \in Quotations,
           NEW k \in Coupons \cup {Discounts!None}
    PROVE  LET f == Discounts!Quote(q, k) IN
           /\ f.code = k /\ f.discount \in 0..Price[q] /\ f.final \in Nat
           /\ f.discount + f.final = Price[q]
           /\ Discounts!Advance(q, f.final) \in 0..f.final
           /\ k \in Coupons => f.discount = Discounts!DiscountFor(coupon[k], Price[q])
  <1> DEFINE off == IF k = Discounts!None THEN 0 ELSE Discounts!DiscountFor(coupon[k], Price[q])
             final == Discounts!Larger(0, Price[q] - off)
  <1>1. Price[q] \in Nat /\ AdvancePercentage[q] \in 0..100 /\ (k \in Coupons => k # Discounts!None)
    BY DEF Discounts!CouponAssumption
  <1>2. off \in 0..Price[q]
    <2>1. CASE k = Discounts!None
      BY <1>1, <2>1
    <2>2. CASE k # Discounts!None
      <3>1. coupon[k] \in CouponRows
        BY <2>2
      <3> QED  BY <3>1, <1>1, <2>2, DiscountIs
    <2> QED  BY <2>1, <2>2
  <1>3. k \in Coupons => off = Discounts!DiscountFor(coupon[k], Price[q])
    BY <1>1
  <1>4. Discounts!Quote(q, k) = [code |-> k, discount |-> off, final |-> final]
    BY DEF Discounts!Quote
  <1> HIDE DEF off
  <1>5. final \in Nat /\ off + final = Price[q]
    BY <1>1, <1>2 DEF Discounts!Larger
  <1> HIDE DEF final
  <1>6. Discounts!Advance(q, final) \in 0..final
    BY <1>1, <1>5, Part DEF Discounts!Advance
  <1> QED  BY <1>2, <1>3, <1>4, <1>5, <1>6

\* picker

\* Both lists of the picker are one: what can be used, best first (listAvailable).
LEMMA PickerLists ==
    ASSUME coupon \in [Coupons -> CouponRows], today \in Nat, NEW q \in Quotations
    PROVE  Discounts!ListAvailable(q) = Discounts!Sorted({k \in Coupons : Discounts!Usable(k, q)}, Discounts!BestFirst(q))
  <1> DEFINE C == {k \in Coupons : coupon[k].status = "active" /\ Discounts!InWindow(coupon[k])
                                     /\ Discounts!Works(k, Organizer[q])}
  <1>1. \A k \in Coupons : Discounts!Usable(k, q) => k \in C
    <2> SUFFICES ASSUME NEW k \in Coupons, Discounts!Usable(k, q) PROVE k \in C
      OBVIOUS
    <2>1. coupon[k] \in CouponRows
      OBVIOUS
    <2>2. coupon[k].starts \in Nat /\ coupon[k].ends \in Nat
      BY <2>1, RowIs
    <2> QED  BY <2>2 DEF Discounts!Usable, Discounts!NoReasonAgainst, Discounts!InWindow
  <1>2. {k \in C : Discounts!Usable(k, q)} = {k \in Coupons : Discounts!Usable(k, q)}
    BY <1>1
  <1>3. Discounts!ListAvailable(q) = Discounts!Sorted({k \in C : Discounts!Usable(k, q)}, Discounts!BestFirst(q))
    BY Zenon DEF Discounts!ListAvailable
  <1> HIDE DEF C
  <1> QED  BY <1>2, <1>3

\* The picker lists what checkout would take, and what is left to pay only rises.
LEMMA PickerAgrees ==
    ASSUME Discounts!CouponAssumption, coupon \in [Coupons -> CouponRows], today \in Nat, NEW q \in Quotations
    PROVE  /\ Discounts!Range(Discounts!ListAvailable(q)) = {k \in Coupons : Discounts!Usable(k, q)}
           /\ \A i, j \in DOMAIN Discounts!ListAvailable(q) : i < j =>
                Discounts!Quote(q, Discounts!ListAvailable(q)[j]).final >= Discounts!Quote(q, Discounts!ListAvailable(q)[i]).final
  <1> DEFINE S == {k \in Coupons : Discounts!Usable(k, q)}
             key == Discounts!BestFirst(q)
             list == Discounts!Sorted(S, key)
             n == Cardinality(S)
  <1>1. IsFiniteSet(S)
    BY FS_Subset, CouponCounts DEF Discounts!CouponAssumption
  <1>2. Price[q] \in Nat /\ Discounts!None \notin Coupons
    BY DEF Discounts!CouponAssumption
  <1>3. \A k \in Coupons : Discounts!DiscountFor(coupon[k], Price[q]) \in 0..Price[q]
    BY <1>2, DiscountIs
  <1>4. \A k \in S : k \in Coupons /\ key[k] = -Discounts!DiscountFor(coupon[k], Price[q]) /\ key[k] \in Int
    BY <1>3 DEF Discounts!BestFirst
  <1>5. Discounts!ListAvailable(q) = list
    BY PickerLists
  <1> HIDE DEF S, key
  <1>6. /\ list \in [1..n -> S]
        /\ \A x \in S : \E i \in 1..n : list[i] = x
        /\ \A i, j \in 1..n : i < j => key[list[i]] <= key[list[j]]
    BY <1>1, <1>4, SortedIs
  <1> HIDE DEF list, n
  <1>7. Discounts!Range(list) = S
    BY <1>6 DEF Discounts!Range
  <1>8. \A i, j \in DOMAIN list : i < j => Discounts!Quote(q, list[j]).final >= Discounts!Quote(q, list[i]).final
    <2> SUFFICES ASSUME NEW i \in DOMAIN list, NEW j \in DOMAIN list, i < j
                 PROVE  Discounts!Quote(q, list[j]).final >= Discounts!Quote(q, list[i]).final
      OBVIOUS
    <2>1. list[i] \in S /\ list[j] \in S /\ key[list[i]] <= key[list[j]]
      BY <1>6
    <2> DEFINE a == list[i]
               b == list[j]
    <2>2. a \in Coupons /\ b \in Coupons /\ a \in S /\ b \in S
      BY <2>1, <1>4
    <2> DEFINE x == Discounts!Quote(q, a).final
               y == Discounts!Quote(q, b).final
               d == Discounts!DiscountFor(coupon[a], Price[q])
               e == Discounts!DiscountFor(coupon[b], Price[q])
    <2>3. -d <= -e
      BY <2>1, <2>2, <1>4
    <2>4. d \in 0..Price[q] /\ e \in 0..Price[q]
      BY <2>2, <1>3
    <2>5. x \in Nat /\ d + x = Price[q]
      BY <2>2, QuoteIs
    <2>6. y \in Nat /\ e + y = Price[q]
      BY <2>2, QuoteIs
    <2> HIDE DEF x, y, d, e
    <2>7. y >= x
      BY <2>3, <2>4, <2>5, <2>6, <1>2
    <2> QED  BY <2>7 DEF x, y, a, b
  <1> QED  BY <1>5, <1>7, <1>8 DEF S

\* A coupon the strip may show works for somebody the customer engaged (claimable).
LEMMA CardWorks ==
    ASSUME Discounts!CouponAssumption, coupon \in [Coupons -> CouponRows], used \in [Coupons -> Nat], today \in Nat,
           NEW k \in Discounts!Claimable, Discounts!MayAgain(k)
    PROVE  /\ Owner[k] \in Discounts!Engaged \cup {Platform}
           /\ \A o \in Discounts!Engaged : Discounts!Works(k, o) => Discounts!NoReasonAgainst(k, o, Discounts!Larger(coupon[k].min, 100))
  <1>1. /\ k \in Coupons /\ coupon[k].status = "active" /\ Discounts!InWindow(coupon[k]) /\ Discounts!SlotLeft(k)
        /\ Owner[k] \in Discounts!Engaged \cup {Platform}
    BY DEF Discounts!Claimable
  <1>2. coupon[k] \in CouponRows
    BY <1>1
  <1>3. /\ coupon[k].min \in Nat /\ coupon[k].starts \in Nat /\ coupon[k].ends \in Nat
        /\ coupon[k] # Discounts!NoTerms
    BY <1>1, <1>2, RowIs
  <1> DEFINE a == Discounts!Larger(coupon[k].min, 100)
  <1>4. a \in Nat /\ a >= 100 /\ a >= coupon[k].min
    BY <1>3 DEF Discounts!Larger
  <1>5. Discounts!DiscountFor(coupon[k], a) > 0
    <2> HIDE DEF a
    <2> QED  BY <1>2, <1>3, <1>4, DiscountIs
  <1>6. ~(coupon[k].starts # 0 /\ coupon[k].starts > today) /\ ~(coupon[k].ends # 0 /\ coupon[k].ends < today)
    BY <1>1, <1>3 DEF Discounts!InWindow
  <1> HIDE DEF a
  <1> QED  BY <1>1, <1>4, <1>5, <1>6 DEF Discounts!NoReasonAgainst, a

\* The strip shows such coupons, soonest deadline first.
LEMMA StripLeads ==
    ASSUME Discounts!CouponAssumption, coupon \in [Coupons -> CouponRows], used \in [Coupons -> Nat], today \in Nat,
           NEW S \in Discounts!Found, NEW i \in DOMAIN Discounts!Strip(S)
    PROVE  LET k == Discounts!Strip(S)[i] IN
           /\ Owner[k] \in Discounts!Engaged \cup {Platform}
           /\ \A o \in Discounts!Engaged : Discounts!Works(k, o) => Discounts!NoReasonAgainst(k, o, Discounts!Larger(coupon[k].min, 100))
           /\ \A l \in S : Discounts!MayAgain(l) /\ Discounts!Deadline(l) < Discounts!Deadline(k) => \E j \in 1..i : Discounts!Strip(S)[j] = l
  <1> DEFINE T == {k \in S : Discounts!MayAgain(k)}
             key == [k \in Coupons |-> Discounts!Deadline(k)]
             list == Discounts!Sorted(T, key)
             n == Cardinality(T)
             m == Discounts!Smaller(n, CLAIMABLE_LIMIT)
  <1>1. S \subseteq Discounts!Claimable /\ Discounts!Claimable \subseteq Coupons
    BY DEF Discounts!Found, Discounts!Claimable
  <1>2. IsFiniteSet(T) /\ T \subseteq Coupons
    <2>1. T \subseteq Coupons
      BY <1>1
    <2> HIDE DEF T
    <2> QED  BY <2>1, FS_Subset, CouponCounts DEF Discounts!CouponAssumption
  <1>3. \A k \in Coupons : Discounts!Deadline(k) \in Nat
    <2> TAKE k \in Coupons
    <2>1. coupon[k] \in CouponRows
      OBVIOUS
    <2>2. coupon[k].ends \in Nat
      BY <2>1, RowIs
    <2> QED  BY <2>2 DEF Discounts!Deadline, Discounts!CouponAssumption
  <1>4. \A k \in T : key[k] = Discounts!Deadline(k) /\ key[k] \in Int
    BY <1>2, <1>3
  <1>5. Discounts!Strip(S) = SubSeq(list, 1, Discounts!Smaller(Len(list), CLAIMABLE_LIMIT))
    BY Zenon DEF Discounts!Strip
  <1>t. \A k \in T : k \in S /\ Discounts!MayAgain(k)
    OBVIOUS
  <1>s. \A k \in S : Discounts!MayAgain(k) => k \in T
    OBVIOUS
  <1> HIDE DEF T, key
  <1>6. /\ list \in [1..n -> T] /\ n \in Nat
        /\ \A x \in T : \E j \in 1..n : list[j] = x
        /\ \A g, h \in 1..n : g < h => key[list[g]] <= key[list[h]]
    BY <1>2, <1>4, SortedIs
  <1> HIDE DEF list, n
  <1>7. list \in Seq(T) /\ Len(list) = n
    BY <1>6
  <1>8. m \in 0..n
    BY <1>6 DEF Discounts!Smaller, Discounts!CouponAssumption
  <1>9. Discounts!Strip(S) = SubSeq(list, 1, m)
    BY <1>5, <1>7
  <1> HIDE DEF m
  <1>10. DOMAIN Discounts!Strip(S) = 1..m /\ \A j \in 1..m : Discounts!Strip(S)[j] = list[j]
    BY <1>6, <1>7, <1>8, <1>9
  <1>11. i \in 1..m /\ i \in 1..n /\ Discounts!Strip(S)[i] = list[i] /\ list[i] \in T
    BY <1>6, <1>8, <1>10
  <1> DEFINE k == list[i]
  <1>12. k \in Discounts!Claimable /\ Discounts!MayAgain(k) /\ k \in T
    BY <1>1, <1>t, <1>11
  <1>13. /\ Owner[k] \in Discounts!Engaged \cup {Platform}
         /\ \A o \in Discounts!Engaged : Discounts!Works(k, o) => Discounts!NoReasonAgainst(k, o, Discounts!Larger(coupon[k].min, 100))
    <2> HIDE DEF k
    <2> QED  BY <1>12, CardWorks
  <1>14. ASSUME NEW l \in S, Discounts!MayAgain(l), Discounts!Deadline(l) < Discounts!Deadline(k)
         PROVE  \E j \in 1..i : Discounts!Strip(S)[j] = l
    <2>1. l \in T
      BY <1>14, <1>s
    <2>2. PICK j \in 1..n : list[j] = l
      BY <2>1, <1>6
    <2>3. j <= i
      <3> SUFFICES ASSUME i < j PROVE FALSE
        BY <1>11, <2>2, <1>6
      <3>1. key[list[i]] <= key[list[j]]
        BY <1>6, <1>11, <2>2
      <3>2. Discounts!Deadline(k) <= Discounts!Deadline(l)
        BY <3>1, <2>1, <2>2, <1>4, <1>12
      <3>3. Discounts!Deadline(k) \in Nat /\ Discounts!Deadline(l) \in Nat
        BY <1>2, <1>3, <1>12, <2>1
      <3> QED  BY <3>2, <3>3, <1>14
    <2>4. j \in 1..i /\ j \in 1..m
      BY <2>2, <2>3, <1>11, <1>8, <1>6
    <2> QED  BY <2>2, <2>4, <1>10
  <1> QED  BY <1>11, <1>13, <1>14

\* So picker, strip and checkout judge alike.
LEMMA PickerIsRight ==
    ASSUME Discounts!CouponAssumption, coupon \in [Coupons -> CouponRows], used \in [Coupons -> Nat], today \in Nat
    PROVE  Discounts!PickerKeepsItsWord
  BY PickerAgrees, StripLeads DEF Discounts!PickerKeepsItsWord

\* invariant

\* The types of an order, of a redemption and of a booking.
OrderRows == [code : Coupons \cup {Discounts!None}, discount : Nat, total : Nat, amount : Nat,
           status : {"none", "created", "paid", "cash_due"}, fresh : BOOLEAN]
RedemptionRows == [code : Coupons \cup {Discounts!None}, discount : Nat, final : Nat, status : {"none", "redeemed", "reversed"}]
BookingRows == [code : Coupons \cup {Discounts!None}, discount : Nat, amount : Nat, advance : Nat, paid : Nat,
             status : {"none", "placed", "over"}]

\* What the code takes off the price, with the terms as cp has them.
Off(cp, q, k) == IF k = Discounts!None THEN 0 ELSE Discounts!DiscountFor(cp[k], Price[q])

\* An order nobody edited the coupon of is for what it would be quoted today.
OrderFits(o, q, cp) ==
    o # Discounts!NoOrder /\ o.fresh =>
        /\ o.code \in Coupons => cp[o.code] # Discounts!NoTerms
        /\ o.discount = Off(cp, q, o.code) /\ o.total = Price[q] - o.discount
        /\ o.amount = Discounts!Advance(q, o.total)

\* A booking's numbers add up ...
NumbersFit(b, q) ==
    /\ b.discount + b.amount = Price[q] /\ b.discount \in 0..Price[q]
    /\ b.advance \in 0..b.amount /\ b.paid \in {0, b.advance}

\* ... the ledger says the same of it ...
RowFits(b, r) ==
    /\ b.code = Discounts!None => r = Discounts!NoRow
    /\ b.code # Discounts!None =>
         /\ r.code = b.code /\ r.discount = b.discount /\ r.final = b.amount
         /\ r.status = IF b.status = "placed" THEN "redeemed" ELSE "reversed"

\* ... and where nobody edited the coupon since, they are what the order asked.
AsAsked(b, o) == o.fresh => b.advance = o.amount /\ b.amount = o.total /\ b.discount = o.discount

\* Before a booking there is nothing; then all three hold.
BookingFits(b, r, o, q) ==
    \/ b = Discounts!Unbooked /\ r = Discounts!NoRow
    \/ /\ b.status # "none" /\ o # Discounts!NoOrder
       /\ NumbersFit(b, q) /\ RowFits(b, r) /\ AsAsked(b, o)

\* An editor's copy is of a coupon there is.
CopyFits(d, cp) == d.copy # Discounts!NoTerms => d.code \in Coupons /\ cp[d.code] # Discounts!NoTerms

\* The bookings that hold a slot of k.
Takers(rs, k) == {q \in Quotations : rs[q].code = k /\ rs[q].status = "redeemed"}

\* The inductive invariant: types, and every order, booking, redemption and counter as above.
CouponInv ==
    /\ coupon \in [Coupons -> CouponRows] /\ used \in [Coupons -> Nat] /\ today \in Nat
    /\ redemptions \in [Quotations -> RedemptionRows] /\ order \in [Quotations -> OrderRows]
    /\ booking \in [Quotations -> BookingRows]
    /\ desk \in [Editors -> [code : Coupons \cup {Discounts!None}, copy : CouponRows]]
    /\ \A e \in Editors : CopyFits(desk[e], coupon)
    /\ \A q \in Quotations : OrderFits(order[q], q, coupon)
    /\ \A q \in Quotations : BookingFits(booking[q], redemptions[q], order[q], q)
    /\ \A k \in Coupons : used[k] = Cardinality(Takers(redemptions, k))

\* No order, no booking and no copy are of their types.
LEMMA NothingFits ==
    /\ Discounts!NoRow \in RedemptionRows /\ Discounts!NoOrder \in OrderRows /\ Discounts!Unbooked \in BookingRows /\ Discounts!NoTerms \in CouponRows
    /\ Discounts!NoDesk \in [code : Coupons \cup {Discounts!None}, copy : CouponRows] /\ Discounts!NoDesk.copy = Discounts!NoTerms
  BY DEF Discounts!NoRow, Discounts!NoOrder, Discounts!Unbooked, Discounts!NoTerms, Discounts!NoDesk, Discounts!None, RedemptionRows, OrderRows, BookingRows, CouponRows

\* Nothing on sale satisfies the invariant.
LEMMA CouponInit ==
    ASSUME Discounts!Init PROVE CouponInv
  <1>1. /\ coupon = [k \in Coupons |-> Discounts!NoTerms] /\ used = [k \in Coupons |-> 0] /\ today = 1
        /\ redemptions = [q \in Quotations |-> Discounts!NoRow] /\ order = [q \in Quotations |-> Discounts!NoOrder]
        /\ booking = [q \in Quotations |-> Discounts!Unbooked] /\ desk = [e \in Editors |-> Discounts!NoDesk]
    BY DEF Discounts!Init
  <1>2. \A q \in Quotations : BookingFits(booking[q], redemptions[q], order[q], q)
    BY <1>1 DEF BookingFits
  <1>3. \A q \in Quotations : OrderFits(order[q], q, coupon)
    BY <1>1 DEF OrderFits
  <1>4. \A e \in Editors : CopyFits(desk[e], coupon)
    BY <1>1, NothingFits DEF CopyFits
  <1>5. \A k \in Coupons : used[k] = Cardinality(Takers(redemptions, k))
    <2> TAKE k \in Coupons
    <2>1. Takers(redemptions, k) = {}
      BY <1>1 DEF Takers, Discounts!NoRow, Discounts!None
    <2> QED  BY <2>1, <1>1, FS_EmptySet
  <1>6. /\ coupon \in [Coupons -> CouponRows] /\ used \in [Coupons -> Nat] /\ today \in Nat
        /\ redemptions \in [Quotations -> RedemptionRows] /\ order \in [Quotations -> OrderRows]
        /\ booking \in [Quotations -> BookingRows]
        /\ desk \in [Editors -> [code : Coupons \cup {Discounts!None}, copy : CouponRows]]
    BY <1>1, NothingFits
  <1> QED  BY <1>2, <1>3, <1>4, <1>5, <1>6 DEF CouponInv

\* A step of an editor that only moves its copy.
LEMMA EditorKeeps ==
    ASSUME CouponInv, NEW e \in Editors, NEW d \in [code : Coupons \cup {Discounts!None}, copy : CouponRows],
           desk' = [desk EXCEPT ![e] = d], CopyFits(d, coupon),
           UNCHANGED <<coupon, used, redemptions, order, booking, today>>
    PROVE  CouponInv'
  <1>1. \A f \in Editors : CopyFits(desk'[f], coupon')
    BY DEF CouponInv
  <1>2. desk' \in [Editors -> [code : Coupons \cup {Discounts!None}, copy : CouponRows]]
    BY DEF CouponInv
  <1> QED  BY <1>1, <1>2 DEF CouponInv

\* The editor loads a coupon.
LEMMA LoadKeepsCoupons ==
    ASSUME CouponInv, NEW e \in Editors, NEW k \in Coupons, Discounts!Load(e, k) PROVE CouponInv'
  <1> DEFINE d == [code |-> k, copy |-> IF e \in Admins \/ Discounts!IsOwn(e, k) THEN coupon[k] ELSE Discounts!NoTerms]
  <1>1. /\ coupon[k] # Discounts!NoTerms /\ desk' = [desk EXCEPT ![e] = d]
        /\ UNCHANGED <<coupon, used, redemptions, order, booking, today>>
    BY DEF Discounts!Load
  <1>2. coupon[k] \in CouponRows
    BY DEF CouponInv
  <1>3. d \in [code : Coupons \cup {Discounts!None}, copy : CouponRows] /\ CopyFits(d, coupon)
    BY <1>1, <1>2, NothingFits DEF CopyFits
  <1> HIDE DEF d
  <1> QED  BY <1>1, <1>3, EditorKeeps

\* A discount reads one coupon.
LEMMA OffSame ==
    ASSUME NEW cp, NEW cq, NEW q, NEW k, k = Discounts!None \/ cp[k] = cq[k]
    PROVE  Off(cp, q, k) = Off(cq, q, k)
  BY DEF Off

\* A new coupon was nobody's discount.
LEMMA CreateKeepsCoupons ==
    ASSUME Discounts!CouponAssumption, CouponInv, NEW k \in Coupons, Discounts!Create(k) PROVE CouponInv'
  <1>1. PICK t \in Offers[k] : coupon' = [coupon EXCEPT ![k] = t]
    BY DEF Discounts!Create
  <1>2. coupon[k] = Discounts!NoTerms /\ UNCHANGED <<used, redemptions, order, booking, today, desk>>
    BY DEF Discounts!Create
  <1>3. t \in CouponRows /\ t # Discounts!NoTerms
    <2>1. t \in Discounts!Terms
      BY DEF Discounts!CouponAssumption
    <2> QED  BY <2>1 DEF CouponRows, Discounts!Terms, Discounts!NoTerms
  <1>4. coupon' \in [Coupons -> CouponRows]
    BY <1>1, <1>3 DEF CouponInv
  <1>5. \A l \in Coupons : coupon[l] # Discounts!NoTerms => coupon'[l] = coupon[l]
    BY <1>1, <1>2 DEF CouponInv
  <1>6. \A e \in Editors : CopyFits(desk[e], coupon')
    BY <1>5 DEF CouponInv, CopyFits
  <1>7. \A q \in Quotations : OrderFits(order[q], q, coupon')
    <2> SUFFICES ASSUME NEW q \in Quotations, order[q] # Discounts!NoOrder, order[q].fresh
                 PROVE  /\ order[q].code \in Coupons => coupon'[order[q].code] # Discounts!NoTerms
                        /\ order[q].discount = Off(coupon', q, order[q].code)
                        /\ order[q].total = Price[q] - order[q].discount
                        /\ order[q].amount = Discounts!Advance(q, order[q].total)
      BY DEF OrderFits
    <2>1. order[q] \in OrderRows /\ OrderFits(order[q], q, coupon)
      BY DEF CouponInv
    <2>2. order[q].code = Discounts!None \/ coupon'[order[q].code] = coupon[order[q].code]
      BY <2>1, <1>5 DEF OrderRows, OrderFits
    <2>3. Off(coupon', q, order[q].code) = Off(coupon, q, order[q].code)
      BY <2>2, OffSame
    <2> QED  BY <2>1, <2>2, <2>3, <1>5 DEF OrderFits
  <1> QED  BY <1>2, <1>4, <1>6, <1>7 DEF CouponInv

\* What an edit makes of a copy is terms again (update).
LEMMA EditIsTerms ==
    ASSUME Discounts!CouponAssumption, NEW c \in Discounts!Terms, NEW dto \in Edits
    PROVE  Discounts!Apply(c, dto) \in Discounts!Terms
  <1> DEFINE a == Discounts!Apply(c, dto)
  <1>1. a = [f \in DOMAIN c |-> IF f \in DOMAIN dto THEN dto[f] ELSE c[f]]
    BY DEF Discounts!Apply
  <1>2. DOMAIN c = {"status", "type", "value", "cap", "min", "starts", "ends", "limit", "perCustomer"}
    BY DEF Discounts!Terms
  <1>3. \A f \in DOMAIN dto :
          /\ f = "status" => dto[f] \in {"active", "disabled"}
          /\ f = "type" => dto[f] \in {"percentage", "fixed"}
          /\ f = "value" => dto[f] \in Nat \ {0}
          /\ f \notin {"status", "type", "value"} => dto[f] \in Nat
    BY DEF Discounts!CouponAssumption
  <1>4. /\ a["status"] \in {"active", "disabled"} /\ a["type"] \in {"percentage", "fixed"}
        /\ a["value"] \in Nat \ {0} /\ a["cap"] \in Nat /\ a["min"] \in Nat /\ a["starts"] \in Nat
        /\ a["ends"] \in Nat /\ a["limit"] \in Nat /\ a["perCustomer"] \in Nat
    BY <1>1, <1>2, <1>3 DEF Discounts!Terms
  <1> HIDE DEF a
  <1>5. a = [f \in {"status", "type", "value", "cap", "min", "starts", "ends", "limit", "perCustomer"} |-> a[f]]
    BY <1>1, <1>2
  <1> QED  BY <1>4, <1>5 DEF Discounts!Terms, a

\* ... and so is what a save makes of the row: only the fields it changed.
LEMMA MergeIsTerms ==
    ASSUME NEW c, NEW t \in Discounts!Terms, NEW u \in Discounts!Terms
    PROVE  [f \in DOMAIN t |-> IF u[f] # c[f] THEN u[f] ELSE t[f]] \in Discounts!Terms
  <1> DEFINE a == [f \in DOMAIN t |-> IF u[f] # c[f] THEN u[f] ELSE t[f]]
  <1>2. DOMAIN t = {"status", "type", "value", "cap", "min", "starts", "ends", "limit", "perCustomer"}
    BY DEF Discounts!Terms
  <1>4. /\ a["status"] \in {"active", "disabled"} /\ a["type"] \in {"percentage", "fixed"}
        /\ a["value"] \in Nat \ {0} /\ a["cap"] \in Nat /\ a["min"] \in Nat /\ a["starts"] \in Nat
        /\ a["ends"] \in Nat /\ a["limit"] \in Nat /\ a["perCustomer"] \in Nat
    BY <1>2 DEF Discounts!Terms
  <1>5. a = [f \in {"status", "type", "value", "cap", "min", "starts", "ends", "limit", "perCustomer"} |-> a[f]]
    BY <1>2
  <1> HIDE DEF a
  <1> QED  BY <1>4, <1>5 DEF Discounts!Terms, a

\* A save makes the orders that carry the coupon stale.
LEMMA SaveKeepsCoupons ==
    ASSUME Discounts!CouponAssumption, CouponInv, NEW e \in Editors, NEW dto \in Edits, Discounts!Save(e, dto)
    PROVE  CouponInv'
  <1> DEFINE k == desk[e].code
             c == desk[e].copy
             u == Discounts!Apply(c, dto)
             row == [f \in DOMAIN coupon[k] |-> IF u[f] # c[f] THEN u[f] ELSE coupon[k][f]]
  <1>1. c # Discounts!NoTerms /\ UNCHANGED <<used, redemptions, booking, today>>
    BY DEF Discounts!Save
  <1>2. /\ coupon' = [coupon EXCEPT ![k] = [f \in DOMAIN @ |-> IF u[f] # c[f] THEN u[f] ELSE @[f]]]
        /\ order' = [q \in Quotations |->
              IF order[q].code = k THEN [order[q] EXCEPT !.fresh = FALSE] ELSE order[q]]
        /\ desk' = [desk EXCEPT ![e] = Discounts!NoDesk]
    BY DEF Discounts!Save
  <1>3. /\ k \in Coupons /\ coupon[k] \in Discounts!Terms /\ c \in Discounts!Terms
    BY <1>1 DEF CouponInv, CopyFits, CouponRows
  <1>4. row \in Discounts!Terms
    <2>1. u \in Discounts!Terms
      BY <1>3, EditIsTerms
    <2> HIDE DEF u, c, k
    <2> QED  BY <1>3, <2>1, MergeIsTerms
  <1>5. coupon' = [coupon EXCEPT ![k] = row]
    BY <1>2, <1>3 DEF CouponInv
  <1>6. row \in CouponRows /\ row # Discounts!NoTerms
    BY <1>4 DEF CouponRows, Discounts!Terms, Discounts!NoTerms
  <1> HIDE DEF row, u, c
  <1>7. coupon' \in [Coupons -> CouponRows] /\ coupon'[k] # Discounts!NoTerms /\ \A l \in Coupons \ {k} : coupon'[l] = coupon[l]
    BY <1>3, <1>5, <1>6 DEF CouponInv
  <1>8. /\ desk' \in [Editors -> [code : Coupons \cup {Discounts!None}, copy : CouponRows]]
        /\ \A f \in Editors : CopyFits(desk'[f], coupon')
    <2>1. desk' \in [Editors -> [code : Coupons \cup {Discounts!None}, copy : CouponRows]]
      BY <1>2, NothingFits DEF CouponInv
    <2>2. ASSUME NEW f \in Editors PROVE CopyFits(desk'[f], coupon')
      <3>1. CASE f = e
        BY <3>1, <1>2, NothingFits DEF CopyFits, CouponInv
      <3>2. CASE f # e
        <4>1. desk'[f] = desk[f] /\ CopyFits(desk[f], coupon)
          BY <3>2, <1>2 DEF CouponInv
        <4> QED  BY <4>1, <1>7 DEF CopyFits
      <3> QED  BY <3>1, <3>2
    <2> QED  BY <2>1, <2>2
  <1>9. ASSUME NEW q \in Quotations
        PROVE  /\ order'[q] \in OrderRows /\ OrderFits(order'[q], q, coupon')
               /\ BookingFits(booking[q], redemptions[q], order'[q], q)
    <2>1. /\ order[q] \in OrderRows /\ OrderFits(order[q], q, coupon)
          /\ BookingFits(booking[q], redemptions[q], order[q], q)
      BY DEF CouponInv
    <2>2. CASE order[q].code = k
      <3>1. order'[q] = [order[q] EXCEPT !.fresh = FALSE]
        BY <1>2, <2>2
      <3>2. order'[q] \in OrderRows /\ ~order'[q].fresh
        BY <2>1, <3>1 DEF OrderRows
      <3>3. order'[q] # Discounts!NoOrder
        BY <3>2 DEF Discounts!NoOrder
      <3> QED  BY <2>1, <3>2, <3>3 DEF OrderFits, BookingFits, AsAsked
    <2>3. CASE order[q].code # k
      <3>1. order'[q] = order[q]
        BY <1>2, <2>3
      <3>2. order[q].code = Discounts!None \/ coupon'[order[q].code] = coupon[order[q].code]
        BY <2>1, <2>3, <1>7 DEF OrderRows
      <3>3. Off(coupon', q, order[q].code) = Off(coupon, q, order[q].code)
        BY <3>2, OffSame
      <3>4. Discounts!None \notin Coupons
        BY DEF Discounts!CouponAssumption
      <3> QED  BY <2>1, <3>1, <3>2, <3>3, <3>4 DEF OrderFits
    <2> QED  BY <2>2, <2>3
  <1>10. order' \in [Quotations -> OrderRows]
    BY <1>2, <1>9
  <1> QED  BY <1>1, <1>7, <1>8, <1>9, <1>10 DEF CouponInv

\* The day is the clock's.
LEMMA NextDayKeepsCoupons ==
    ASSUME CouponInv, Discounts!NextDay PROVE CouponInv'
  <1>1. today' = today + 1 /\ UNCHANGED <<coupon, used, redemptions, order, booking, desk>>
    BY DEF Discounts!NextDay
  <1> QED  BY <1>1 DEF CouponInv

\* A step that only writes one order.
LEMMA OrderKeeps ==
    ASSUME CouponInv, NEW q \in Quotations, NEW o \in OrderRows, OrderFits(o, q, coupon),
           BookingFits(booking[q], redemptions[q], o, q), order' = [order EXCEPT ![q] = o],
           UNCHANGED <<coupon, used, redemptions, booking, today, desk>>
    PROVE  CouponInv'
  <1>1. order' \in [Quotations -> OrderRows]
    BY DEF CouponInv
  <1>2. \A p \in Quotations : order'[p] = IF p = q THEN o ELSE order[p]
    BY DEF CouponInv
  <1>3. \A p \in Quotations : OrderFits(order'[p], p, coupon')
    BY <1>2 DEF CouponInv
  <1>4. \A p \in Quotations : BookingFits(booking'[p], redemptions'[p], order'[p], p)
    BY <1>2 DEF CouponInv
  <1> QED  BY <1>1, <1>3, <1>4 DEF CouponInv

\* A new order is for what it is quoted (createOrder).
LEMMA NewOrderIs ==
    ASSUME Discounts!CouponAssumption, CouponInv, NEW q \in Quotations, NEW k \in Coupons \cup {Discounts!None},
           Discounts!Accepted(q, k), NEW st \in {"created", "cash_due"}
    PROVE  LET o == Discounts!NewOrder(q, k, st) IN o \in OrderRows /\ o # Discounts!NoOrder /\ OrderFits(o, q, coupon)
  <1> DEFINE f == Discounts!Quote(q, k)
             o == Discounts!NewOrder(q, k, st)
  <1>0. coupon \in [Coupons -> CouponRows] /\ Price[q] \in Nat
    BY DEF CouponInv, Discounts!CouponAssumption
  <1>1. /\ f.code = k /\ f.discount \in 0..Price[q] /\ f.final \in Nat
        /\ f.discount + f.final = Price[q] /\ Discounts!Advance(q, f.final) \in 0..f.final
    BY <1>0, QuoteIs
  <1>2. f.discount = Off(coupon, q, k)
    BY DEF Discounts!Quote, Off
  <1>3. o = [code |-> k, discount |-> f.discount, total |-> f.final,
             amount |-> Discounts!Advance(q, f.final), status |-> st, fresh |-> TRUE]
    BY DEF Discounts!NewOrder
  <1>4. k \in Coupons => coupon[k] # Discounts!NoTerms
    BY DEF Discounts!Accepted, Discounts!Usable, Discounts!NoReasonAgainst, Discounts!NoTerms, Discounts!None, Discounts!CouponAssumption
  <1> HIDE DEF f
  <1>5. f.discount \in Nat /\ f.final \in Nat /\ Discounts!Advance(q, f.final) \in Nat /\ f.final = Price[q] - f.discount
    BY <1>0, <1>1
  <1>6. o \in OrderRows /\ o.code = k /\ o.discount = f.discount /\ o.total = f.final
        /\ o.amount = Discounts!Advance(q, f.final) /\ o.status = st
    BY <1>3, <1>5 DEF OrderRows
  <1> HIDE DEF o
  <1>7. o # Discounts!NoOrder
    BY <1>6 DEF Discounts!NoOrder, Discounts!None
  <1> QED  BY <1>2, <1>4, <1>5, <1>6, <1>7 DEF OrderFits, o

\* An order is opened.
LEMMA CreateOrderKeeps ==
    ASSUME Discounts!CouponAssumption, CouponInv, NEW q \in Quotations, NEW k \in Coupons \cup {Discounts!None}, Discounts!CreateOrder(q, k)
    PROVE  CouponInv'
  <1> DEFINE o == Discounts!NewOrder(q, k, "created")
  <1>1. /\ order[q] = Discounts!NoOrder /\ Discounts!Accepted(q, k) /\ order' = [order EXCEPT ![q] = o]
        /\ UNCHANGED <<coupon, used, redemptions, booking, today, desk>>
    BY DEF Discounts!CreateOrder
  <1>2. o \in OrderRows /\ o # Discounts!NoOrder /\ OrderFits(o, q, coupon)
    BY <1>1, NewOrderIs
  <1>3. BookingFits(booking[q], redemptions[q], o, q)
    BY <1>1 DEF CouponInv, BookingFits
  <1> HIDE DEF o
  <1> QED  BY <1>1, <1>2, <1>3, OrderKeeps

\* An order is paid.
LEMMA CaptureKeeps ==
    ASSUME CouponInv, NEW q \in Quotations, Discounts!Capture(q) PROVE CouponInv'
  <1> DEFINE o == [order[q] EXCEPT !.status = "paid"]
  <1>1. /\ order[q].status = "created" /\ order' = [order EXCEPT ![q] = o]
        /\ UNCHANGED <<coupon, used, redemptions, booking, today, desk>>
    BY DEF Discounts!Capture, CouponInv
  <1>2. /\ order[q] \in OrderRows /\ OrderFits(order[q], q, coupon)
        /\ BookingFits(booking[q], redemptions[q], order[q], q)
    BY DEF CouponInv
  <1>3. order[q] # Discounts!NoOrder
    BY <1>1 DEF Discounts!NoOrder, Discounts!None
  <1>4. /\ o \in OrderRows /\ o.status = "paid" /\ o.code = order[q].code /\ o.discount = order[q].discount
        /\ o.total = order[q].total /\ o.amount = order[q].amount /\ o.fresh = order[q].fresh
    BY <1>2 DEF OrderRows
  <1> HIDE DEF o
  <1>5. o # Discounts!NoOrder
    BY <1>4 DEF Discounts!NoOrder, Discounts!None
  <1>6. OrderFits(o, q, coupon)
    BY <1>2, <1>3, <1>4 DEF OrderFits
  <1>7. BookingFits(booking[q], redemptions[q], o, q)
    BY <1>2, <1>4, <1>5 DEF BookingFits, AsAsked
  <1> QED  BY <1>1, <1>4, <1>6, <1>7, OrderKeeps

\* The bookings that hold a slot can be counted ...
LEMMA TakersCount ==
    ASSUME Discounts!CouponAssumption, NEW rs, NEW k
    PROVE  IsFiniteSet(Takers(rs, k)) /\ Cardinality(Takers(rs, k)) \in Nat
  <1>1. Takers(rs, k) \subseteq Quotations
    BY DEF Takers
  <1> QED  BY <1>1, CouponCounts, FS_Subset, FS_CardinalityType DEF Discounts!CouponAssumption

\* ... and the count moves by one with the redemption of one of them.
LEMMA TakersMove ==
    ASSUME Discounts!CouponAssumption, NEW rs, NEW ss, NEW q \in Quotations, \A p \in Quotations \ {q} : ss[p] = rs[p], NEW k
    PROVE  /\ rs[q].status = "redeemed" /\ rs[q].code = k /\ ss[q].status # "redeemed"
              => Cardinality(Takers(ss, k)) = Cardinality(Takers(rs, k)) - 1 /\ Cardinality(Takers(rs, k)) >= 1
           /\ rs[q].status # "redeemed" /\ ss[q].status = "redeemed" /\ ss[q].code = k
              => Cardinality(Takers(ss, k)) = Cardinality(Takers(rs, k)) + 1
           /\ ~(rs[q].status = "redeemed" /\ rs[q].code = k) /\ ~(ss[q].status = "redeemed" /\ ss[q].code = k)
              => Cardinality(Takers(ss, k)) = Cardinality(Takers(rs, k))
  <1>1. /\ IsFiniteSet(Takers(rs, k)) /\ Cardinality(Takers(rs, k)) \in Nat
        /\ IsFiniteSet(Takers(ss, k)) /\ Cardinality(Takers(ss, k)) \in Nat
    BY TakersCount
  <1>2. CASE rs[q].status = "redeemed" /\ rs[q].code = k /\ ss[q].status # "redeemed"
    <2>1. Takers(ss, k) = Takers(rs, k) \ {q} /\ q \in Takers(rs, k)
      BY <1>2 DEF Takers
    <2>2. Cardinality(Takers(ss, k)) = Cardinality(Takers(rs, k)) - 1
      BY <1>1, <2>1, FS_RemoveElement
    <2> QED  BY <1>1, <1>2, <2>2
  <1>3. CASE rs[q].status # "redeemed" /\ ss[q].status = "redeemed" /\ ss[q].code = k
    <2>1. Takers(ss, k) = Takers(rs, k) \cup {q} /\ q \notin Takers(rs, k)
      BY <1>3 DEF Takers
    <2>2. Cardinality(Takers(ss, k)) = Cardinality(Takers(rs, k)) + 1
      BY <1>1, <2>1, FS_AddElement
    <2> QED  BY <1>1, <1>3, <2>2
  <1>4. CASE ~(rs[q].status = "redeemed" /\ rs[q].code = k) /\ ~(ss[q].status = "redeemed" /\ ss[q].code = k)
    <2>1. Takers(ss, k) = Takers(rs, k)
      BY <1>4 DEF Takers
    <2> QED  BY <1>4, <2>1
  <1> QED  BY <1>2, <1>3, <1>4

\* A step that writes one booking, its order and its redemption.
LEMMA BookingKeeps ==
    ASSUME Discounts!CouponAssumption, CouponInv, NEW q \in Quotations, NEW o \in OrderRows, NEW b \in BookingRows, NEW r \in RedemptionRows,
           OrderFits(o, q, coupon), BookingFits(b, r, o, q),
           order' = [order EXCEPT ![q] = o], booking' = [booking EXCEPT ![q] = b],
           redemptions' = [redemptions EXCEPT ![q] = r], used' \in [Coupons -> Nat],
           \A k \in Coupons : used'[k] = Cardinality(Takers(redemptions', k)), UNCHANGED <<coupon, today, desk>>
    PROVE  CouponInv'
  <1>1. /\ order' \in [Quotations -> OrderRows] /\ booking' \in [Quotations -> BookingRows]
        /\ redemptions' \in [Quotations -> RedemptionRows]
    BY DEF CouponInv
  <1>2. \A p \in Quotations : OrderFits(order'[p], p, coupon')
    <2> TAKE p \in Quotations
    <2>1. order'[p] = IF p = q THEN o ELSE order[p]
      BY DEF CouponInv
    <2> QED  BY <2>1 DEF CouponInv
  <1>3. \A p \in Quotations : BookingFits(booking'[p], redemptions'[p], order'[p], p)
    <2> TAKE p \in Quotations
    <2>1. /\ order'[p] = IF p = q THEN o ELSE order[p]
          /\ booking'[p] = IF p = q THEN b ELSE booking[p]
          /\ redemptions'[p] = IF p = q THEN r ELSE redemptions[p]
      BY DEF CouponInv
    <2> QED  BY <2>1 DEF CouponInv
  <1>4. \A e \in Editors : CopyFits(desk'[e], coupon')
    BY DEF CouponInv
  <1> QED  BY <1>1, <1>2, <1>3, <1>4 DEF CouponInv

\* A booking is written with its redemption (book).
LEMMA BookKeeps ==
    ASSUME Discounts!CouponAssumption, CouponInv, NEW q \in Quotations, NEW o \in OrderRows, o # Discounts!NoOrder, OrderFits(o, q, coupon),
           Discounts!Book(q, o), order' = [order EXCEPT ![q] = o], UNCHANGED <<coupon, today, desk>>
    PROVE  CouponInv'
  <1> DEFINE f == Discounts!Quote(q, o.code)
             adv == Discounts!Advance(q, f.final)
             b == [code |-> o.code, discount |-> f.discount, amount |-> f.final, advance |-> adv,
                   paid |-> IF o.status = "cash_due" THEN 0 ELSE adv, status |-> "placed"]
             r == IF o.code = Discounts!None THEN redemptions[q]
                  ELSE [code |-> o.code, discount |-> f.discount, final |-> f.final, status |-> "redeemed"]
  <1>1. /\ booking[q] = Discounts!Unbooked /\ Discounts!Accepted(q, o.code)
        /\ redemptions' = IF o.code = Discounts!None THEN redemptions
                          ELSE [redemptions EXCEPT ![q] = [code |-> o.code, discount |-> f.discount,
                                                           final |-> f.final, status |-> "redeemed"]]
        /\ used' = IF o.code = Discounts!None THEN used ELSE [used EXCEPT ![o.code] = @ + 1]
        /\ booking' = [booking EXCEPT ![q] = b]
    BY DEF Discounts!Book
  <1>2. o.code \in Coupons \cup {Discounts!None} /\ Discounts!None \notin Coupons /\ Price[q] \in Nat
        /\ coupon \in [Coupons -> CouponRows]
    BY DEF OrderRows, CouponInv, Discounts!CouponAssumption
  <1>3. /\ f.code = o.code /\ f.discount \in 0..Price[q] /\ f.final \in Nat
        /\ f.discount + f.final = Price[q] /\ adv \in 0..f.final
    BY <1>2, QuoteIs
  <1>4. f.discount = Off(coupon, q, o.code)
    BY DEF Discounts!Quote, Off
  <1>5. redemptions[q] = Discounts!NoRow
    BY <1>1 DEF CouponInv, BookingFits, Discounts!Unbooked, Discounts!None
  <1>6. redemptions' = [redemptions EXCEPT ![q] = r]
    BY <1>1 DEF CouponInv
  <1> DEFINE k == o.code  d == f.discount  m == f.final  cash == o.status
  <1>7. b = [code |-> k, discount |-> d, amount |-> m, advance |-> adv,
             paid |-> IF cash = "cash_due" THEN 0 ELSE adv, status |-> "placed"]
        /\ r = IF k = Discounts!None THEN Discounts!NoRow ELSE [code |-> k, discount |-> d, final |-> m, status |-> "redeemed"]
    BY <1>5
  <1>8. k \in Coupons \cup {Discounts!None} /\ d \in 0..Price[q] /\ m \in Nat /\ d + m = Price[q] /\ adv \in 0..m
        /\ d \in Nat /\ adv \in Nat
    BY <1>2, <1>3
  <1>9. AsAsked(b, o)
    <2>1. o.fresh => o.discount = d /\ o.total = Price[q] - o.discount /\ o.amount = Discounts!Advance(q, o.total)
      BY <1>4 DEF OrderFits
    <2>2. o.fresh => o.total = m
      BY <2>1, <1>8, <1>2
    <2>3. o.fresh => o.amount = adv
      BY <2>1, <2>2
    <2> QED  BY <2>1, <2>2, <2>3 DEF AsAsked
  <1> HIDE DEF b, r, k, d, m, adv, cash, f
  <1>10. b \in BookingRows /\ r \in RedemptionRows
    BY <1>7, <1>8, NothingFits DEF BookingRows, RedemptionRows
  <1>11. NumbersFit(b, q) /\ RowFits(b, r) /\ b.status # "none"
    BY <1>7, <1>8 DEF NumbersFit, RowFits
  <1>12. BookingFits(b, r, o, q)
    BY <1>9, <1>11 DEF BookingFits
  <1>13. used' \in [Coupons -> Nat]
    BY <1>1, <1>2 DEF CouponInv
  <1>14. ASSUME NEW c \in Coupons PROVE used'[c] = Cardinality(Takers(redemptions', c))
    <2>1. used[c] = Cardinality(Takers(redemptions, c)) /\ used[c] \in Nat
      BY DEF CouponInv
    <2>2. \A p \in Quotations \ {q} : redemptions'[p] = redemptions[p]
      BY <1>6 DEF CouponInv
    <2>3. redemptions'[q] = r
      BY <1>6 DEF CouponInv
    <2>4. redemptions[q].status # "redeemed"
      BY <1>5 DEF Discounts!NoRow, Discounts!None
    <2>5. CASE k = c
      <3>1. used'[c] = used[c] + 1
        BY <1>1, <1>2, <2>5 DEF CouponInv, k
      <3>2. r.status = "redeemed" /\ r.code = c
        BY <1>7, <1>2, <2>5
      <3>3. Cardinality(Takers(redemptions', c)) = Cardinality(Takers(redemptions, c)) + 1
        BY <2>2, <2>3, <2>4, <3>2, TakersMove
      <3> QED  BY <2>1, <3>1, <3>3
    <2>6. CASE k # c
      <3>1. used'[c] = used[c]
        BY <1>1, <1>2, <2>6 DEF CouponInv, k
      <3>2. ~(r.status = "redeemed" /\ r.code = c)
        BY <1>7, <1>2, <2>6 DEF Discounts!NoRow, Discounts!None
      <3>3. Cardinality(Takers(redemptions', c)) = Cardinality(Takers(redemptions, c))
        <4>1. ~(redemptions[q].status = "redeemed" /\ redemptions[q].code = c)
          BY <2>4
        <4>2. ~(redemptions'[q].status = "redeemed" /\ redemptions'[q].code = c)
          BY <3>2, <2>3
        <4> QED  BY <2>2, <4>1, <4>2, TakersMove
      <3> QED  BY <2>1, <3>1, <3>3
    <2> QED  BY <2>5, <2>6
  <1> QED  BY <1>1, <1>6, <1>10, <1>12, <1>13, <1>14, BookingKeeps

\* A captured order is booked ...
LEMMA SettleKeeps ==
    ASSUME Discounts!CouponAssumption, CouponInv, NEW q \in Quotations, Discounts!Settle(q) PROVE CouponInv'
  <1>1. /\ order[q].status = "paid" /\ Discounts!Book(q, order[q]) /\ UNCHANGED <<coupon, order, today, desk>>
    BY DEF Discounts!Settle
  <1>2. order[q] \in OrderRows /\ OrderFits(order[q], q, coupon)
    BY DEF CouponInv
  <1>3. order[q] # Discounts!NoOrder
    BY <1>1 DEF Discounts!NoOrder, Discounts!None
  <1>4. order' = [order EXCEPT ![q] = order[q]]
    BY <1>1 DEF CouponInv
  <1> QED  BY <1>1, <1>2, <1>3, <1>4, BookKeeps

\* ... and one to be paid in cash.
LEMMA BookWithCashKeeps ==
    ASSUME Discounts!CouponAssumption, CouponInv, NEW q \in Quotations, NEW k \in Coupons \cup {Discounts!None}, Discounts!BookWithCash(q, k)
    PROVE  CouponInv'
  <1> DEFINE o == IF order[q] = Discounts!NoOrder THEN Discounts!NewOrder(q, k, "cash_due") ELSE order[q]
  <1>1. /\ Discounts!Accepted(q, k) /\ order' = [order EXCEPT ![q] = o] /\ UNCHANGED <<coupon, today, desk>>
        /\ Discounts!Book(q, o) \/ (~Discounts!Accepted(q, o.code) /\ UNCHANGED <<used, redemptions, booking>>)
    BY DEF Discounts!BookWithCash
  <1>2. o \in OrderRows /\ o # Discounts!NoOrder /\ OrderFits(o, q, coupon)
    <2>1. CASE order[q] = Discounts!NoOrder
      BY <2>1, <1>1, NewOrderIs
    <2>2. CASE order[q] # Discounts!NoOrder
      BY <2>2 DEF CouponInv
    <2> QED  BY <2>1, <2>2
  <1>3. BookingFits(booking[q], redemptions[q], o, q)
    <2>1. CASE order[q] = Discounts!NoOrder
      BY <2>1, <1>2 DEF CouponInv, BookingFits
    <2>2. CASE order[q] # Discounts!NoOrder
      BY <2>2 DEF CouponInv
    <2> QED  BY <2>1, <2>2
  <1> HIDE DEF o
  <1>4. CASE Discounts!Book(q, o)
    BY <1>1, <1>2, <1>4, BookKeeps
  <1>5. CASE UNCHANGED <<used, redemptions, booking>>
    BY <1>1, <1>2, <1>3, <1>5, OrderKeeps
  <1> QED  BY <1>1, <1>4, <1>5

\* A booking that ends gives its slot back.
LEMMA ReleaseKeepsCoupons ==
    ASSUME Discounts!CouponAssumption, CouponInv, NEW q \in Quotations, Discounts!Release(q) PROVE CouponInv'
  <1> DEFINE b == [booking[q] EXCEPT !.status = "over"]
             r == IF redemptions[q].status = "redeemed" THEN [redemptions[q] EXCEPT !.status = "reversed"]
                  ELSE redemptions[q]
             k == redemptions[q].code
  <1>1. /\ booking[q].status = "placed" /\ UNCHANGED <<coupon, order, today, desk>>
        /\ booking' = [booking EXCEPT ![q] = b] /\ redemptions' = [redemptions EXCEPT ![q] = r]
        /\ used' = IF redemptions[q].status = "redeemed" THEN [used EXCEPT ![k] = Discounts!Larger(0, @ - 1)] ELSE used
    BY DEF Discounts!Release, CouponInv
  <1>2. /\ booking[q] \in BookingRows /\ redemptions[q] \in RedemptionRows /\ order[q] \in OrderRows
        /\ OrderFits(order[q], q, coupon) /\ BookingFits(booking[q], redemptions[q], order[q], q)
    BY DEF CouponInv
  <1>3. /\ order[q] # Discounts!NoOrder /\ NumbersFit(booking[q], q)
        /\ RowFits(booking[q], redemptions[q]) /\ AsAsked(booking[q], order[q])
    BY <1>1, <1>2 DEF BookingFits, Discounts!Unbooked, Discounts!None
  <1>4. /\ b \in BookingRows /\ b.status = "over" /\ b.code = booking[q].code /\ b.discount = booking[q].discount
        /\ b.amount = booking[q].amount /\ b.advance = booking[q].advance /\ b.paid = booking[q].paid
    BY <1>2 DEF BookingRows
  <1>5. /\ r \in RedemptionRows /\ r.code = k /\ r.discount = redemptions[q].discount
        /\ r.final = redemptions[q].final /\ r.status # "redeemed"
        /\ redemptions[q].status = "redeemed" => r.status = "reversed"
        /\ redemptions[q].status # "redeemed" => r = redemptions[q]
    BY <1>2 DEF RedemptionRows
  <1>6. order' = [order EXCEPT ![q] = order[q]]
    BY <1>1 DEF CouponInv
  <1>7. redemptions[q].status = "redeemed" => k \in Coupons
    BY <1>1, <1>2, <1>3 DEF RowFits, Discounts!NoRow, Discounts!None, BookingRows
  <1> HIDE DEF b, r
  <1>8. RowFits(b, r)
    BY <1>1, <1>3, <1>4, <1>5 DEF RowFits, Discounts!NoRow, Discounts!None
  <1>9. BookingFits(b, r, order[q], q)
    BY <1>3, <1>4, <1>8 DEF BookingFits, NumbersFit, AsAsked
  <1>10. \A p \in Quotations \ {q} : redemptions'[p] = redemptions[p]
    BY <1>1 DEF CouponInv
  <1>11. redemptions'[q] = r
    BY <1>1 DEF CouponInv
  <1>12. ASSUME NEW c \in Coupons
         PROVE  used'[c] = Cardinality(Takers(redemptions', c)) /\ used'[c] \in Nat
    <2>1. used[c] = Cardinality(Takers(redemptions, c)) /\ used[c] \in Nat
      BY DEF CouponInv
    <2>2. CASE redemptions[q].status = "redeemed" /\ k = c
      <3>1. used'[c] = Discounts!Larger(0, used[c] - 1)
        BY <1>1, <1>7, <2>2 DEF CouponInv
      <3>2. Cardinality(Takers(redemptions', c)) = Cardinality(Takers(redemptions, c)) - 1
            /\ Cardinality(Takers(redemptions, c)) >= 1
        BY <1>5, <1>10, <1>11, <2>2, TakersMove
      <3> QED  BY <2>1, <3>1, <3>2 DEF Discounts!Larger
    <2>3. CASE ~(redemptions[q].status = "redeemed" /\ k = c)
      <3>1. used'[c] = used[c]
        BY <1>1, <1>7, <2>3 DEF CouponInv
      <3>2. Cardinality(Takers(redemptions', c)) = Cardinality(Takers(redemptions, c))
        BY <1>5, <1>10, <1>11, <2>3, TakersMove
      <3> QED  BY <2>1, <3>1, <3>2
    <2> QED  BY <2>2, <2>3
  <1>13. used' \in [Coupons -> Nat]
    <2>1. used' = [c \in Coupons |-> used'[c]]
      BY <1>1, <1>7 DEF CouponInv
    <2> QED  BY <2>1, <1>12
  <1> QED  BY <1>1, <1>2, <1>4, <1>5, <1>6, <1>9, <1>12, <1>13, BookingKeeps

\* Every step keeps the invariant.
LEMMA CouponStep ==
    ASSUME Discounts!CouponAssumption, CouponInv, [Discounts!Next]_(Discounts!couponVars) PROVE CouponInv'
  <1>1. CASE UNCHANGED Discounts!couponVars
    BY <1>1 DEF CouponInv, Discounts!couponVars
  <1>2. ASSUME NEW k \in Coupons, Discounts!Create(k) PROVE CouponInv'
    BY <1>2, CreateKeepsCoupons
  <1>3. ASSUME NEW k \in Coupons, NEW e \in Editors, Discounts!Load(e, k) PROVE CouponInv'
    BY <1>3, LoadKeepsCoupons
  <1>4. ASSUME NEW e \in Editors, NEW dto \in Edits, Discounts!Save(e, dto) PROVE CouponInv'
    BY <1>4, SaveKeepsCoupons
  <1>5. ASSUME NEW q \in Quotations, NEW k \in Coupons \cup {Discounts!None}, Discounts!CreateOrder(q, k) PROVE CouponInv'
    BY <1>5, CreateOrderKeeps
  <1>6. ASSUME NEW q \in Quotations, NEW k \in Coupons \cup {Discounts!None}, Discounts!BookWithCash(q, k) PROVE CouponInv'
    BY <1>6, BookWithCashKeeps
  <1>7. ASSUME NEW q \in Quotations, Discounts!Capture(q) PROVE CouponInv'
    BY <1>7, CaptureKeeps
  <1>8. ASSUME NEW q \in Quotations, Discounts!Settle(q) PROVE CouponInv'
    BY <1>8, SettleKeeps
  <1>9. ASSUME NEW q \in Quotations, Discounts!Release(q) PROVE CouponInv'
    BY <1>9, ReleaseKeepsCoupons
  <1>10. CASE Discounts!NextDay
    BY <1>10, NextDayKeepsCoupons
  <1> QED  BY <1>1, <1>2, <1>3, <1>4, <1>5, <1>6, <1>7, <1>8, <1>9, <1>10 DEF Discounts!Next

\* The invariant says so.
LEMMA CouponReads ==
    ASSUME Discounts!CouponAssumption, CouponInv
    PROVE  Discounts!PickerKeepsItsWord /\ Discounts!LedgerTellsTheCharge /\ Discounts!BookedAsAsked
  <1>1. Discounts!PickerKeepsItsWord
    BY PickerIsRight DEF CouponInv
  <1>2. \A k \in Coupons : used[k] = Discounts!Uses(k)
    BY CouponCounts DEF CouponInv, Takers, Discounts!Uses
  <1>3. ASSUME NEW q \in Quotations, booking[q] # Discounts!Unbooked
        PROVE  NumbersFit(booking[q], q) /\ RowFits(booking[q], redemptions[q]) /\ AsAsked(booking[q], order[q])
    BY <1>3 DEF CouponInv, BookingFits
  <1>4. Discounts!LedgerTellsTheCharge
    BY <1>2, <1>3 DEF Discounts!LedgerTellsTheCharge, NumbersFit, RowFits
  <1>5. Discounts!BookedAsAsked
    BY <1>3 DEF Discounts!BookedAsAsked, AsAsked
  <1> QED  BY <1>1, <1>4, <1>5

\* The invariant holds of every behaviour of the coupons.
LEMMA CouponInvHolds == ASSUME Discounts!CouponAssumption PROVE Discounts!Spec => []CouponInv
  <1>1. Discounts!Init => CouponInv
    BY CouponInit
  <1>2. CouponInv /\ [Discounts!Next]_(Discounts!couponVars) => CouponInv'
    BY CouponStep
  <1> QED  BY <1>1, <1>2, PTL DEF Discounts!Spec

\* For any coupons, edits and prices: picker, strip and checkout judge a coupon alike, a
\* booking's numbers add up and agree with the ledger and the counter, and while nobody
\* edits they are what the order asked (listAvailable, claimable, quote, book, release).
THEOREM CouponsStayHonest ==
    ASSUME Discounts!CouponAssumption
    PROVE  Discounts!Spec => [](Discounts!PickerKeepsItsWord /\ Discounts!LedgerTellsTheCharge /\ Discounts!BookedAsAsked)
  <1>1. CouponInv => Discounts!PickerKeepsItsWord /\ Discounts!LedgerTellsTheCharge /\ Discounts!BookedAsAsked
    BY CouponReads
  <1> QED  BY <1>1, CouponInvHolds, PTL

-----------------------------------------------------------------------------
(* Home (HomeFeed).                                                         *)

\* The instance counts a set as this module does.
LEMMA FeedCounts == \A S : Feed!Cardinality(S) = Cardinality(S) /\ (Feed!IsFiniteSet(S) <=> IsFiniteSet(S))
  BY Zenon DEF Feed!Cardinality, Feed!IsFiniteSet, Cardinality, IsFiniteSet

\* The image of a finite set is finite.
LEMMA ImageFinite ==
    ASSUME NEW S, IsFiniteSet(S), NEW f
    PROVE  IsFiniteSet({f[x] : x \in S})
  <1> DEFINE T == {f[x] : x \in S}
             g == [x \in S |-> f[x]]
  <1>1. g \in Surjection(S, T)
    BY DEF Surjection
  <1> HIDE DEF T, g
  <1>2. IsFiniteSet(T)
    BY <1>1, FS_Surjection
  <1> QED  BY <1>2 DEF T

\* A card of the feed.
FeedRows == [source : {"booking", "quote", "plan"}, event : Events, rank : Nat, fresh : {FALSE}]

\* Every stage has a rank.
LEMMA StagesRank ==
    /\ \A st : Feed!Rank[Feed!BookingStage(st)] \in Nat
    /\ \A st, n : Feed!Rank[Feed!QuoteStage(st, n)] \in Nat
    /\ \A st : Feed!Rank[Feed!PlanStage(st)] \in Nat
    /\ \A n : Feed!Rank[Feed!QuoteStage("accepted", n)] = 4
  BY DEF Feed!Rank, Feed!BookingStage, Feed!QuoteStage, Feed!PlanStage

\* A card is of its event and its stage.
LEMMA CardIs ==
    ASSUME NEW so \in {"booking", "quote", "plan"}, NEW e \in Events, NEW st, Feed!Rank[st] \in Nat
    PROVE  LET c == Feed!Card(so, e, st) IN
           c \in FeedRows /\ c.source = so /\ c.event = e /\ c.rank = Feed!Rank[st]
  BY DEF Feed!Card, FeedRows

\* The events that have a brief card, and a plan card.
BriefCards(copy, dropped) == {e \in Events : Feed!ActiveBrief(copy[e])} \ dropped
PlanCards(copy, dropped) == {e \in Events : Feed!ActivePlan(copy[e])} \ Feed!Covered(copy, BriefCards(copy, dropped))

\* Each event is carded by what is furthest of it (activeEvents).
LEMMA CandidatesAre ==
    ASSUME Feed!FeedAssumption, NEW copy, NEW dropped
    PROVE  LET C == Feed!Candidates(copy, dropped) IN
           /\ C \in SUBSET FeedRows /\ IsFiniteSet(C)
           /\ \A c \in C : c.source = "booking" => c.event \in Feed!Booked(copy)
           /\ \A c \in C : c.source = "quote" => c.event \in BriefCards(copy, dropped)
           /\ \A e \in Feed!Booked(copy) : \E c \in C :
                c.event = e /\ c.rank = Feed!Rank[Feed!BookingStage(copy[e].booking)]
           /\ \A e \in BriefCards(copy, dropped) : \E c \in C :
                c.event = e /\ c.rank = Feed!Rank[Feed!QuoteStage(copy[e].brief, copy[e].quotes)]
           /\ \A e \in PlanCards(copy, dropped) : \E c \in C : c.event = e
  <1> DEFINE B == Feed!Booked(copy)
             Q == BriefCards(copy, dropped)
             P == PlanCards(copy, dropped)
             b(e) == Feed!Card("booking", e, Feed!BookingStage(copy[e].booking))
             q(e) == Feed!Card("quote", e, Feed!QuoteStage(copy[e].brief, copy[e].quotes))
             p(e) == Feed!Card("plan", e, Feed!PlanStage(copy[e].plan))
             CB == {b(e) : e \in B}
             CQ == {q(e) : e \in Q}
             CP == {p(e) : e \in P}
             C == CB \cup CQ \cup CP
  <1>1. Feed!Candidates(copy, dropped) = C
    BY Zenon DEF Feed!Candidates, BriefCards, PlanCards
  <1>2. B \subseteq Events /\ Q \subseteq Events /\ P \subseteq Events
    BY DEF Feed!Booked, BriefCards, PlanCards
  <1>3. IsFiniteSet(B) /\ IsFiniteSet(Q) /\ IsFiniteSet(P)
    <2>1. IsFiniteSet(Events)
      BY FeedCounts DEF Feed!FeedAssumption
    <2> HIDE DEF B, Q, P
    <2> QED  BY <2>1, <1>2, FS_Subset
  <1>4. /\ \A e \in B : b(e) \in FeedRows /\ b(e).source = "booking" /\ b(e).event = e
                        /\ b(e).rank = Feed!Rank[Feed!BookingStage(copy[e].booking)]
        /\ \A e \in Q : q(e) \in FeedRows /\ q(e).source = "quote" /\ q(e).event = e
                        /\ q(e).rank = Feed!Rank[Feed!QuoteStage(copy[e].brief, copy[e].quotes)]
        /\ \A e \in P : p(e) \in FeedRows /\ p(e).source = "plan" /\ p(e).event = e
    <2> HIDE DEF B, Q, P
    <2>1. ASSUME NEW e \in B
          PROVE  b(e) \in FeedRows /\ b(e).source = "booking" /\ b(e).event = e
                        /\ b(e).rank = Feed!Rank[Feed!BookingStage(copy[e].booking)]
      BY <1>2, StagesRank, CardIs
    <2>2. ASSUME NEW e \in Q
          PROVE  q(e) \in FeedRows /\ q(e).source = "quote" /\ q(e).event = e
                        /\ q(e).rank = Feed!Rank[Feed!QuoteStage(copy[e].brief, copy[e].quotes)]
      BY <1>2, StagesRank, CardIs
    <2>3. ASSUME NEW e \in P
          PROVE  p(e) \in FeedRows /\ p(e).source = "plan" /\ p(e).event = e
      BY <1>2, StagesRank, CardIs
    <2> QED  BY <2>1, <2>2, <2>3
  <1> HIDE DEF B, Q, P, b, q, p
  <1>5. IsFiniteSet(CB) /\ IsFiniteSet(CQ) /\ IsFiniteSet(CP)
    <2> DEFINE fb == [e \in B |-> b(e)]
               fq == [e \in Q |-> q(e)]
               fp == [e \in P |-> p(e)]
    <2>1. CB = {fb[e] : e \in B} /\ CQ = {fq[e] : e \in Q} /\ CP = {fp[e] : e \in P}
      OBVIOUS
    <2>2. fb = [e \in B |-> fb[e]] /\ fq = [e \in Q |-> fq[e]] /\ fp = [e \in P |-> fp[e]]
      OBVIOUS
    <2> HIDE DEF fb, fq, fp, CB, CQ, CP
    <2> QED  BY <1>3, <2>1, <2>2, ImageFinite
  <1>6. IsFiniteSet(C)
    <2> HIDE DEF CB, CQ, CP
    <2> QED  BY <1>5, FS_Union
  <1>7. C \in SUBSET FeedRows
    BY <1>4
  <1>8. /\ \A c \in C : c.source = "booking" => c.event \in B
        /\ \A c \in C : c.source = "quote" => c.event \in Q
    BY <1>4
  <1>9. /\ \A e \in B : \E c \in C : c.event = e /\ c.rank = Feed!Rank[Feed!BookingStage(copy[e].booking)]
        /\ \A e \in Q : \E c \in C : c.event = e /\ c.rank = Feed!Rank[Feed!QuoteStage(copy[e].brief, copy[e].quotes)]
        /\ \A e \in P : \E c \in C : c.event = e
    BY <1>4
  <1> HIDE DEF C
  <1> QED  BY <1>1, <1>6, <1>7, <1>8, <1>9 DEF B, Q, P

\* The order of the feed, and what a list in that order shows.
NotAfterIs(S) == {p \in S \X S : Feed!NotAfter(p[1], p[2])}

\* The cards, ranked: the feed is that list, with the badge on its head.
Ranks(s, C) ==
    /\ s \in [1..Cardinality(C) -> C]
    /\ \A i, j \in 1..Cardinality(C) : s[i] = s[j] => i = j
    /\ \A c \in C : \E i \in 1..Cardinality(C) : s[i] = c
    /\ \A i, j \in 1..Cardinality(C) : i < j => s[i].rank >= s[j].rank

Shows(f, s, C, u) ==
    /\ DOMAIN f = 1..Cardinality(C)
    /\ \A i \in 1..Cardinality(C) : f[i] = [s[i] EXCEPT !.fresh = (u /\ i = 1)]

\* The feed lists every card once, the furthest first.
LEMMA OrderedIs ==
    ASSUME NEW C \in SUBSET FeedRows, IsFiniteSet(C)
    PROVE  /\ Cardinality(C) \in Nat
           /\ \E s : Ranks(s, C) /\ \A u \in BOOLEAN : Shows(Feed!Ordered(C, u), s, C, u)
  <1> DEFINE n == Cardinality(C)
             Fits(s) == \A i, j \in DOMAIN s : i < j => Feed!NotAfter(s[i], s[j])
             ranked == Feed!Ranked(C)
             R == NotAfterIs(C)
  <1>1. n \in Nat
    BY FS_CardinalityType
  <1>2. \A c, d \in C : <<c, d>> \in R <=> Feed!NotAfter(c, d)
    BY DEF NotAfterIs
  <1> HIDE DEF R
  <1>3. \A c \in C : c.rank \in Nat /\ Feed!Pushed[c.source] \in Nat /\ c.fresh = FALSE
    <2> TAKE c \in C
    <2>1. c \in FeedRows
      OBVIOUS
    <2>2. c.rank \in Nat /\ c.source \in {"booking", "quote", "plan"} /\ c.fresh = FALSE
      BY <2>1 DEF FeedRows
    <2> QED  BY <2>2 DEF Feed!Pushed
  <1>4. Orders(R, C)
    <2>1. ASSUME NEW c \in C, NEW d \in C PROVE <<c, d>> \in R \/ <<d, c>> \in R
      <3> DEFINE pc == Feed!Pushed[c.source]  pd == Feed!Pushed[d.source]
      <3>1. pc \in Nat /\ pd \in Nat /\ c.rank \in Nat /\ d.rank \in Nat
        BY <1>3
      <3> HIDE DEF pc, pd
      <3>2. \/ c.rank > d.rank \/ (c.rank = d.rank /\ pc <= pd)
            \/ d.rank > c.rank \/ (d.rank = c.rank /\ pd <= pc)
        BY <3>1
      <3>3. Feed!NotAfter(c, d) \/ Feed!NotAfter(d, c)
        BY <3>2 DEF Feed!NotAfter, pc, pd
      <3> QED  BY <3>3, <1>2
    <2>2. ASSUME NEW c \in C, NEW d \in C, NEW e \in C, <<c, d>> \in R, <<d, e>> \in R PROVE <<c, e>> \in R
      <3>1. Feed!NotAfter(c, d) /\ Feed!NotAfter(d, e)
        BY <2>2, <1>2
      <3> DEFINE pc == Feed!Pushed[c.source]  pd == Feed!Pushed[d.source]  pe == Feed!Pushed[e.source]
      <3>2. pc \in Nat /\ pd \in Nat /\ pe \in Nat /\ c.rank \in Nat /\ d.rank \in Nat /\ e.rank \in Nat
        BY <1>3
      <3>3. /\ c.rank > d.rank \/ (c.rank = d.rank /\ pc <= pd)
            /\ d.rank > e.rank \/ (d.rank = e.rank /\ pd <= pe)
        BY <3>1 DEF Feed!NotAfter
      <3> HIDE DEF pc, pd, pe
      <3>4. c.rank > e.rank \/ (c.rank = e.rank /\ pc <= pe)
        BY <3>2, <3>3
      <3>5. Feed!NotAfter(c, e)
        BY <3>4 DEF Feed!NotAfter, pc, pe
      <3> QED  BY <3>5, <1>2
    <2> QED  BY <2>1, <2>2 DEF Orders
  <1>5. PICK t : Lists(t, C, R)
    BY <1>4, SortExists
  <1>6. t \in Feed!Bijection(1..n, C) /\ Fits(t)
    <2>1. /\ t \in [1..n -> C]
          /\ \A i, j \in 1..n : t[i] = t[j] => i = j
          /\ \A c \in C : \E i \in 1..n : t[i] = c
          /\ \A i, j \in 1..n : i < j => <<t[i], t[j]>> \in R
      BY <1>5 DEF Lists
    <2> HIDE DEF n
    <2>2. t \in Feed!Bijection(1..n, C)
      BY <2>1 DEF Feed!Bijection, Feed!Injection, Feed!Surjection, Feed!IsInjective
    <2>3. \A i, j \in 1..n : i < j => Feed!NotAfter(t[i], t[j])
      BY <2>1, <1>2
    <2> QED  BY <2>1, <2>2, <2>3
  <1>7. ranked \in Feed!Bijection(1..n, C) /\ Fits(ranked)
    <2>1. ranked = CHOOSE s \in Feed!Bijection(1..n, C) : Fits(s)
      BY FeedCounts DEF Feed!Ranked
    <2> HIDE DEF Fits
    <2> QED  BY <1>6, <2>1
  <1>8. \A u : Feed!Ordered(C, u) = IF C = {} THEN <<>> ELSE [ranked EXCEPT ![1].fresh = u]
    BY DEF Feed!Ordered
  <1> HIDE DEF ranked
  <1>9. /\ ranked \in [1..n -> C]
        /\ \A i, j \in 1..n : ranked[i] = ranked[j] => i = j
        /\ \A c \in C : \E i \in 1..n : ranked[i] = c
        /\ \A i, j \in 1..n : i < j => Feed!NotAfter(ranked[i], ranked[j])
    BY <1>7 DEF Feed!Bijection, Feed!Injection, Feed!Surjection, Feed!IsInjective
  <1> HIDE DEF Fits, n
  <1>10. \A i, j \in 1..n : i < j => ranked[i].rank >= ranked[j].rank
    <2> SUFFICES ASSUME NEW i \in 1..n, NEW j \in 1..n, i < j PROVE ranked[i].rank >= ranked[j].rank
      OBVIOUS
    <2>1. ranked[i] \in C /\ ranked[j] \in C /\ Feed!NotAfter(ranked[i], ranked[j])
      BY <1>9
    <2>2. ranked[i].rank \in Nat /\ ranked[j].rank \in Nat
      BY <2>1, <1>3
    <2> QED  BY <2>1, <2>2 DEF Feed!NotAfter
  <1>11. ASSUME NEW u \in BOOLEAN PROVE Shows(Feed!Ordered(C, u), ranked, C, u)
    <2>1. CASE C = {}
      <3>1. n = 0
        BY <2>1, FS_EmptySet DEF n
      <3>2. 1..n = {} /\ Feed!Ordered(C, u) = <<>>
        BY <3>1, <2>1, <1>8
      <3> QED  BY <3>2 DEF Shows, n
    <2>2. CASE C # {}
      <3>1. Feed!Ordered(C, u) = [ranked EXCEPT ![1] = [ranked[1] EXCEPT !.fresh = u]]
        BY <2>2, <1>8
      <3>2. DOMAIN Feed!Ordered(C, u) = 1..n
        BY <3>1, <1>9
      <3>3. ASSUME NEW i \in 1..n
            PROVE  Feed!Ordered(C, u)[i] = [ranked[i] EXCEPT !.fresh = (u /\ i = 1)]
        <4>1. ranked[i] \in FeedRows /\ ranked[i].fresh = FALSE
          BY <1>9, <1>3
        <4>2. CASE i = 1
          BY <3>1, <4>2, <1>9
        <4>3. CASE i # 1
          <5>1. Feed!Ordered(C, u)[i] = ranked[i]
            BY <3>1, <4>3, <1>9
          <5>2. [ranked[i] EXCEPT !.fresh = FALSE] = ranked[i]
            BY <4>1 DEF FeedRows
          <5>3. (u /\ i = 1) = FALSE
            BY <4>3
          <5> QED  BY <5>1, <5>2, <5>3
        <4> QED  BY <4>2, <4>3
      <3> QED  BY <3>2, <3>3 DEF Shows, n
    <2> QED  BY <2>1, <2>2
  <1>12. Ranks(ranked, C)
    BY <1>9, <1>10 DEF Ranks, n
  <1> QED  BY <1>1, <1>11, <1>12 DEF n


\* The types of an event's records, of what was shown, and of a request of Home.
EventRows == [plan : {"none", "draft", "submitted"}, brief : {"none", "open", "quoted", "accepted", "cancelled"},
              fromPlan : BOOLEAN, quotes : {0, 1},
              booking : {"none", "pending", "confirmed", "rejected", "expired", "in_progress", "completed", "cancelled"}]

Copies == [Events -> EventRows]
Shown(events) ==
    {<<>>} \cup {Feed!Ordered(Feed!Candidates(c, d), u) : c \in Copies, d \in SUBSET events, u \in BOOLEAN}
Lists4 == {"plans", "briefs", "quotations", "bookings"}
HomeRows(events) ==
    [at : {"idle", "read", "filter", "show", "shown"}, left : SUBSET Lists4, copy : Copies,
     dropped : SUBSET Events, asked : SUBSET Events, shown : Shown(events)]

\* A request drops the briefs of the bookings it read, and shows what is left.
HomeFits(hm) ==
    /\ hm.at = "shown" \/ hm.shown = <<>>
    /\ hm.at \in {"show", "shown"} => Feed!Booked(hm.copy) \subseteq hm.dropped
    /\ hm.at = "shown" => \E u \in BOOLEAN : hm.shown = Feed!Ordered(Feed!Candidates(hm.copy, hm.dropped), u)

\* What an undisturbed request knows is how the records stand.
KnowsNow(hm, ev) ==
    /\ "plans" \notin hm.left => \A e \in Events : hm.copy[e].plan = ev[e].plan
    /\ "briefs" \notin hm.left =>
         \A e \in Events : hm.copy[e].brief = ev[e].brief /\ hm.copy[e].fromPlan = ev[e].fromPlan
    /\ "quotations" \notin hm.left => \A e \in Events : hm.copy[e].quotes = ev[e].quotes
    /\ "bookings" \notin hm.left => \A e \in Events : hm.copy[e].booking = ev[e].booking
    /\ hm.at # "read" => hm.left = {}
    /\ hm.at = "read" => hm.asked = {} /\ hm.dropped = {}
    /\ hm.at = "filter" =>
         /\ hm.asked \subseteq {e \in Events : ev[e].brief = "accepted"} \ Feed!Booked(ev)
         /\ hm.dropped = {e \in hm.asked : ev[e].booking # "none"}
    /\ hm.at \in {"show", "shown"} => hm.dropped = Feed!Represented(ev)

Undisturbed(hm, n, ev) == hm.at # "idle" /\ n = 0 => KnowsNow(hm, ev)

\* The inductive invariant of Home and its requests.
FeedInv ==
    /\ event \in Copies /\ home \in [Homes -> HomeRows(Events)] /\ moves \in [Homes -> Nat]
    /\ \A h \in Homes : HomeFits(home[h])
    /\ \A h \in Homes : Undisturbed(home[h], moves[h], event)

\* A request that has read nothing is of its type.
LEMMA NothingRead ==
    /\ Feed!NoEvent \in EventRows /\ [e \in Events |-> Feed!NoEvent] \in Copies
    /\ Feed!NoHome \in HomeRows(Events) /\ Feed!NoHome.at = "idle" /\ HomeFits(Feed!NoHome)
    /\ Feed!NoHome.shown = <<>> /\ Feed!NoHome.asked = {} /\ Feed!NoHome.dropped = {}
  <1>1. Feed!NoEvent \in EventRows
    BY DEF Feed!NoEvent, EventRows
  <1>2. [e \in Events |-> Feed!NoEvent] \in Copies
    BY <1>1 DEF Copies
  <1>3. Feed!NoHome \in HomeRows(Events) /\ Feed!NoHome.at = "idle" /\ Feed!NoHome.shown = <<>>
        /\ Feed!NoHome.asked = {} /\ Feed!NoHome.dropped = {}
    BY <1>2 DEF Feed!NoHome, HomeRows, Shown
  <1> QED  BY <1>1, <1>2, <1>3 DEF HomeFits

\* No events and no request satisfy the invariant.
LEMMA FeedInit ==
    ASSUME Feed!Init PROVE FeedInv
  <1>1. event = [e \in Events |-> Feed!NoEvent] /\ home = [h \in Homes |-> Feed!NoHome] /\ moves = [h \in Homes |-> 0]
    BY DEF Feed!Init
  <1> QED  BY <1>1, NothingRead DEF FeedInv, Undisturbed

\* A step of one request.
LEMMA HomeKeeps ==
    ASSUME FeedInv, NEW h \in Homes, NEW hm \in HomeRows(Events), HomeFits(hm), Undisturbed(hm, moves'[h], event),
           home' = [home EXCEPT ![h] = hm], event' = event, moves' \in [Homes -> Nat],
           \A g \in Homes \ {h} : moves'[g] = moves[g]
    PROVE  FeedInv'
  <1>1. home' \in [Homes -> HomeRows(Events)]
    BY DEF FeedInv
  <1>2. ASSUME NEW g \in Homes PROVE HomeFits(home'[g]) /\ Undisturbed(home'[g], moves'[g], event')
    <2>1. CASE g = h
      <3>1. home'[g] = hm
        BY <2>1 DEF FeedInv
      <3> QED  BY <2>1, <3>1
    <2>2. CASE g # h
      <3>1. home'[g] = home[g] /\ moves'[g] = moves[g]
        BY <2>2 DEF FeedInv
      <3> QED  BY <3>1 DEF FeedInv
    <2> QED  BY <2>1, <2>2
  <1> QED  BY <1>1, <1>2 DEF FeedInv

\* A request starts with nothing read.
LEMMA OpenKeepsFeed ==
    ASSUME FeedInv, NEW h \in Homes, Feed!Open(h) PROVE FeedInv'
  <1> DEFINE hm == [Feed!NoHome EXCEPT !.at = "read", !.left = Lists4]
  <1>1. home' = [home EXCEPT ![h] = hm] /\ moves' = [moves EXCEPT ![h] = 0] /\ event' = event
    BY DEF Feed!Open, Lists4
  <1>2. /\ hm \in HomeRows(Events) /\ hm.at = "read" /\ hm.left = Lists4 /\ hm.shown = <<>>
        /\ hm.asked = {} /\ hm.dropped = {}
    BY NothingRead DEF HomeRows
  <1> HIDE DEF hm
  <1>3. HomeFits(hm)
    BY <1>2 DEF HomeFits
  <1>4. Undisturbed(hm, moves'[h], event)
    BY <1>2 DEF Undisturbed, KnowsNow, Lists4
  <1>5. moves' \in [Homes -> Nat] /\ \A g \in Homes \ {h} : moves'[g] = moves[g]
    BY <1>1 DEF FeedInv
  <1> QED  BY <1>1, <1>2, <1>3, <1>4, <1>5, HomeKeeps

\* A request ends.
LEMMA CloseKeepsFeed ==
    ASSUME FeedInv, NEW h \in Homes, Feed!Close(h) PROVE FeedInv'
  <1>1. home' = [home EXCEPT ![h] = Feed!NoHome] /\ moves' = moves /\ event' = event
    BY DEF Feed!Close
  <1>2. Undisturbed(Feed!NoHome, moves'[h], event)
    BY NothingRead DEF Undisturbed
  <1>3. moves' \in [Homes -> Nat] /\ \A g \in Homes \ {h} : moves'[g] = moves[g]
    BY <1>1 DEF FeedInv
  <1> QED  BY <1>1, <1>2, <1>3, NothingRead, HomeKeeps

\* A request reads one of the four lists.
LEMMA ReadKeepsFeed ==
    ASSUME FeedInv, NEW h \in Homes, Feed!Read(h) PROVE FeedInv'
  <1>1. home[h].at = "read" /\ moves' = moves /\ event' = event
    BY DEF Feed!Read
  <1> DEFINE copyOf(what) == Feed!With(home[h].copy, what)
             hmOf(what) == [home[h] EXCEPT !.left = home[h].left \ {what},
                              !.at = IF home[h].left = {what} THEN "filter" ELSE "read",
                              !.copy = copyOf(what)]
  <1>2. PICK what \in home[h].left : home' = [home EXCEPT ![h] = hmOf(what)]
    BY DEF Feed!Read
  <1>3. /\ home[h] \in HomeRows(Events) /\ HomeFits(home[h]) /\ Undisturbed(home[h], moves[h], event)
        /\ event \in Copies /\ home[h].copy \in Copies /\ home[h].left \subseteq Lists4
    BY DEF FeedInv, HomeRows
  <1> DEFINE hm == hmOf(what)
             old == home[h].copy
             new == copyOf(what)
  <1>4. what \in Lists4
    BY <1>2, <1>3
  <1>5. ASSUME NEW e \in Events
        PROVE  /\ new[e] \in EventRows
               /\ new[e].plan = IF what = "plans" THEN event[e].plan ELSE old[e].plan
               /\ new[e].brief = IF what = "briefs" THEN event[e].brief ELSE old[e].brief
               /\ new[e].fromPlan = IF what = "briefs" THEN event[e].fromPlan ELSE old[e].fromPlan
               /\ new[e].quotes = IF what = "quotations" THEN event[e].quotes ELSE old[e].quotes
               /\ new[e].booking = IF what = "bookings" THEN event[e].booking ELSE old[e].booking
    <2>1. old[e] \in EventRows /\ event[e] \in EventRows
      BY <1>3 DEF Copies
    <2>2. CASE what = "plans"
      <3>1. new[e] = [old[e] EXCEPT !.plan = event[e].plan]
        BY <2>2 DEF Feed!With
      <3> HIDE DEF new, old
      <3> QED  BY <2>1, <2>2, <3>1 DEF EventRows
    <2>3. CASE what = "briefs"
      <3>1. new[e] = [old[e] EXCEPT !.brief = event[e].brief, !.fromPlan = event[e].fromPlan]
        BY <2>3 DEF Feed!With
      <3> HIDE DEF new, old
      <3> QED  BY <2>1, <2>3, <3>1 DEF EventRows
    <2>4. CASE what = "quotations"
      <3>1. new[e] = [old[e] EXCEPT !.quotes = event[e].quotes]
        BY <2>4 DEF Feed!With
      <3> HIDE DEF new, old
      <3> QED  BY <2>1, <2>4, <3>1 DEF EventRows
    <2>5. CASE what = "bookings"
      <3>1. new[e] = [old[e] EXCEPT !.booking = event[e].booking]
        BY <2>5 DEF Feed!With
      <3> HIDE DEF new, old
      <3> QED  BY <2>1, <2>5, <3>1 DEF EventRows
    <2> QED  BY <1>4, <2>2, <2>3, <2>4, <2>5 DEF Lists4
  <1>6. new \in Copies
    BY <1>5 DEF Copies, Feed!With
  <1> HIDE DEF new
  <1>7. /\ hm \in HomeRows(Events) /\ hm.copy = new /\ hm.left = home[h].left \ {what}
        /\ hm.at \in {"read", "filter"} /\ (hm.at = "filter" <=> home[h].left = {what}) /\ hm.shown = home[h].shown
        /\ hm.asked = home[h].asked /\ hm.dropped = home[h].dropped
    BY <1>3, <1>6 DEF HomeRows, new
  <1>8. HomeFits(hm)
    <2> HIDE DEF hm
    <2> QED  BY <1>1, <1>3, <1>7 DEF HomeFits
  <1>9. Undisturbed(hm, moves'[h], event)
    <2> SUFFICES ASSUME moves[h] = 0 PROVE KnowsNow(hm, event)
      BY <1>1 DEF Undisturbed
    <2>1. KnowsNow(home[h], event)
      BY <1>1, <1>3 DEF Undisturbed
    <2> HIDE DEF hm
    <2>2. /\ "plans" \notin hm.left => \A e \in Events : hm.copy[e].plan = event[e].plan
          /\ "briefs" \notin hm.left =>
               \A e \in Events : hm.copy[e].brief = event[e].brief /\ hm.copy[e].fromPlan = event[e].fromPlan
          /\ "quotations" \notin hm.left => \A e \in Events : hm.copy[e].quotes = event[e].quotes
          /\ "bookings" \notin hm.left => \A e \in Events : hm.copy[e].booking = event[e].booking
      BY <1>5, <1>7, <2>1 DEF KnowsNow
    <2>3. hm.asked = {} /\ hm.dropped = {} /\ hm.at \notin {"show", "shown"} /\ (hm.at # "read" => hm.left = {})
      BY <1>1, <1>7, <2>1 DEF KnowsNow
    <2> QED  BY <2>2, <2>3 DEF KnowsNow
  <1>10. home' = [home EXCEPT ![h] = hm]
    BY <1>2
  <1> HIDE DEF hm
  <1>11. moves' \in [Homes -> Nat] /\ \A g \in Homes \ {h} : moves'[g] = moves[g]
    BY <1>1 DEF FeedInv
  <1> QED  BY <1>1, <1>7, <1>8, <1>9, <1>10, <1>11, HomeKeeps

\* What is known of the bookings is known of who is booked.
LEMMA BookedSame ==
    ASSUME NEW c, NEW ev, \A e \in Events : c[e].booking = ev[e].booking
    PROVE  Feed!Booked(c) = Feed!Booked(ev)
  BY DEF Feed!Booked, Feed!LiveBooking

\* It asks for the bookings behind accepted briefs that it has not read one of.
LEMMA AskKeepsFeed ==
    ASSUME FeedInv, NEW h \in Homes, Feed!Ask(h) PROVE FeedInv'
  <1> DEFINE r == home[h]
             booked == Feed!Booked(r.copy)
             toAsk == {e \in Events : r.copy[e].brief = "accepted"} \ (booked \cup r.asked)
             hm1 == [r EXCEPT !.at = "show", !.dropped = @ \cup booked]
             hm2(e) == [r EXCEPT !.asked = @ \cup {e},
                           !.dropped = IF event[e].booking # "none" THEN @ \cup {e} ELSE @]
  <1>1. r.at = "filter" /\ moves' = moves /\ event' = event
    BY DEF Feed!Ask
  <1>2. IF toAsk = {} THEN home' = [home EXCEPT ![h] = hm1]
        ELSE \E e \in toAsk : home' = [home EXCEPT ![h] = hm2(e)]
    BY DEF Feed!Ask, FeedInv
  <1>3. r \in HomeRows(Events) /\ HomeFits(r) /\ Undisturbed(r, moves[h], event)
    BY DEF FeedInv
  <1>4. moves' \in [Homes -> Nat] /\ \A g \in Homes \ {h} : moves'[g] = moves[g]
    BY <1>1 DEF FeedInv
  <1>5. booked \subseteq Events
    BY DEF Feed!Booked
  <1>6. moves[h] = 0 =>
          /\ r.left = {} /\ \A e \in Events : r.copy[e].brief = event[e].brief
          /\ \A e \in Events : r.copy[e].booking = event[e].booking
          /\ booked = Feed!Booked(event)
          /\ r.asked \subseteq {e \in Events : event[e].brief = "accepted"} \ Feed!Booked(event)
          /\ r.dropped = {e \in r.asked : event[e].booking # "none"}
    <2> SUFFICES ASSUME moves[h] = 0
                 PROVE  /\ r.left = {} /\ \A e \in Events : r.copy[e].brief = event[e].brief
                        /\ \A e \in Events : r.copy[e].booking = event[e].booking
                        /\ booked = Feed!Booked(event)
                        /\ r.asked \subseteq {e \in Events : event[e].brief = "accepted"} \ Feed!Booked(event)
                        /\ r.dropped = {e \in r.asked : event[e].booking # "none"}
      OBVIOUS
    <2>1. KnowsNow(r, event)
      BY <1>1, <1>3 DEF Undisturbed
    <2>2. /\ r.left = {} /\ \A e \in Events : r.copy[e].brief = event[e].brief
          /\ \A e \in Events : r.copy[e].booking = event[e].booking
          /\ r.asked \subseteq {e \in Events : event[e].brief = "accepted"} \ Feed!Booked(event)
          /\ r.dropped = {e \in r.asked : event[e].booking # "none"}
      BY <1>1, <2>1 DEF KnowsNow
    <2>3. booked = Feed!Booked(event)
      BY <2>2, BookedSame
    <2> QED  BY <2>2, <2>3
  <1>7. CASE toAsk = {}
    <2>1. /\ hm1 \in HomeRows(Events) /\ hm1.at = "show" /\ hm1.copy = r.copy /\ hm1.left = r.left
          /\ hm1.dropped = r.dropped \cup booked /\ hm1.shown = r.shown
      <3> HIDE DEF booked
      <3> QED  BY <1>3, <1>5 DEF HomeRows
    <2>2. HomeFits(hm1)
      BY <1>1, <1>3, <2>1 DEF HomeFits
    <2>3. Undisturbed(hm1, moves'[h], event)
      <3> SUFFICES ASSUME moves[h] = 0 PROVE KnowsNow(hm1, event)
        BY <1>1 DEF Undisturbed
      <3>1. KnowsNow(r, event)
        BY <1>1, <1>3 DEF Undisturbed
      <3>2. r.dropped \cup booked = Feed!Represented(event)
        BY <1>6, <1>7 DEF Feed!Represented, Feed!Booked, Feed!LiveBooking
      <3> HIDE DEF hm1
      <3> QED  BY <2>1, <3>1, <3>2, <1>6 DEF KnowsNow
    <2> HIDE DEF hm1, toAsk, hm2
    <2> QED  BY <1>1, <1>2, <1>4, <1>7, <2>1, <2>2, <2>3, HomeKeeps
  <1>8. CASE toAsk # {}
    <2>1. PICK e \in toAsk : home' = [home EXCEPT ![h] = hm2(e)]
      BY <1>2, <1>8
    <2> DEFINE hm == hm2(e)
    <2>2. e \in Events /\ r.copy[e].brief = "accepted" /\ e \notin booked
      BY <2>1
    <2>3. /\ hm \in HomeRows(Events) /\ hm.at = "filter" /\ hm.copy = r.copy /\ hm.left = r.left /\ hm.shown = r.shown
          /\ hm.asked = r.asked \cup {e}
          /\ hm.dropped = IF event[e].booking # "none" THEN r.dropped \cup {e} ELSE r.dropped
      BY <1>1, <1>3, <2>2 DEF HomeRows
    <2> HIDE DEF hm
    <2>4. HomeFits(hm)
      BY <1>1, <1>3, <2>3 DEF HomeFits
    <2>5. Undisturbed(hm, moves'[h], event)
      <3> SUFFICES ASSUME moves[h] = 0 PROVE KnowsNow(hm, event)
        BY <1>1 DEF Undisturbed
      <3>1. KnowsNow(r, event)
        BY <1>1, <1>3 DEF Undisturbed
      <3>2. hm.asked \subseteq {x \in Events : event[x].brief = "accepted"} \ Feed!Booked(event)
        BY <1>6, <2>2, <2>3
      <3>4. /\ \A x \in Events : hm.copy[x] = r.copy[x]
            /\ hm.at = "filter" /\ hm.left = {} /\ r.left = {}
        BY <1>6, <2>3
      <3>3. hm.dropped = {x \in hm.asked : event[x].booking # "none"}
        BY <1>6, <2>3
      <3> HIDE DEF toAsk, booked, hm1, hm2
      <3>5. /\ \A x \in Events : hm.copy[x].plan = event[x].plan
            /\ \A x \in Events : hm.copy[x].brief = event[x].brief /\ hm.copy[x].fromPlan = event[x].fromPlan
            /\ \A x \in Events : hm.copy[x].quotes = event[x].quotes
            /\ \A x \in Events : hm.copy[x].booking = event[x].booking
        BY <3>1, <3>4 DEF KnowsNow
      <3> QED  BY <3>2, <3>3, <3>4, <3>5 DEF KnowsNow
    <2> QED  BY <1>1, <1>4, <2>1, <2>3, <2>4, <2>5, HomeKeeps DEF hm
  <1> QED  BY <1>7, <1>8

\* It shows what is left.
LEMMA ShowKeepsFeed ==
    ASSUME FeedInv, NEW h \in Homes, Feed!Show(h) PROVE FeedInv'
  <1> DEFINE r == home[h]
             f(u) == Feed!Ordered(Feed!Candidates(r.copy, r.dropped), u)
  <1>1. r.at = "show" /\ moves' = moves /\ event' = event
    BY DEF Feed!Show
  <1>2. PICK u \in BOOLEAN : home' = [home EXCEPT ![h] = [@ EXCEPT !.at = "shown", !.shown = f(u)]]
    BY DEF Feed!Show
  <1>3. r \in HomeRows(Events) /\ HomeFits(r) /\ Undisturbed(r, moves[h], event)
    BY DEF FeedInv
  <1>4. f(u) \in Shown(Events)
    BY <1>3 DEF Shown, HomeRows
  <1> DEFINE hm == [r EXCEPT !.at = "shown", !.shown = f(u)]
  <1>5. home' = [home EXCEPT ![h] = hm]
    BY <1>2 DEF FeedInv
  <1>6. /\ hm \in HomeRows(Events) /\ hm.at = "shown" /\ hm.copy = r.copy /\ hm.left = r.left
        /\ hm.dropped = r.dropped /\ hm.shown = f(u) /\ hm.asked = r.asked
    BY <1>3, <1>4 DEF HomeRows
  <1> HIDE DEF hm
  <1>7. HomeFits(hm)
    BY <1>1, <1>3, <1>6 DEF HomeFits
  <1>8. Undisturbed(hm, moves'[h], event)
    BY <1>1, <1>3, <1>6 DEF Undisturbed, KnowsNow
  <1>9. moves' \in [Homes -> Nat] /\ \A g \in Homes \ {h} : moves'[g] = moves[g]
    BY <1>1 DEF FeedInv
  <1> QED  BY <1>1, <1>5, <1>6, <1>7, <1>8, <1>9, HomeKeeps

\* An event moves on, and with it every request under way is disturbed.
LEMMA WriteKeepsFeed ==
    ASSUME FeedInv, NEW e \in Events, NEW row \in EventRows, Feed!Write(e, row) PROVE FeedInv'
  <1>1. /\ event' = [event EXCEPT ![e] = row] /\ home' = home
        /\ moves' = [h \in Homes |-> IF home[h].at = "idle" THEN 0 ELSE moves[h] + 1]
    BY DEF Feed!Write
  <1>2. event' \in Copies /\ moves' \in [Homes -> Nat]
    BY <1>1 DEF FeedInv, Copies
  <1>3. ASSUME NEW h \in Homes PROVE Undisturbed(home[h], moves'[h], event')
    <2>1. home[h].at # "idle" => moves'[h] # 0
      BY <1>1 DEF FeedInv
    <2> QED  BY <2>1 DEF Undisturbed
  <1> QED  BY <1>1, <1>2, <1>3 DEF FeedInv

\* Such are the moves of plan, brief and booking.
LEMMA MovesKeepFeed ==
    ASSUME FeedInv, NEW e \in Events, Feed!PlanMoves(e) \/ Feed!BriefMoves(e) \/ Feed!BookingMoves(e) PROVE FeedInv'
  <1>1. event[e] \in EventRows
    BY DEF FeedInv, Copies
  <1>2. CASE Feed!PlanMoves(e)
    <2>1. \A v \in {"draft", "submitted"} : [event[e] EXCEPT !.plan = v] \in EventRows
      BY <1>1 DEF EventRows
    <2>2. \E v \in {"draft", "submitted"} : Feed!Write(e, [event[e] EXCEPT !.plan = v])
      BY <1>2 DEF Feed!PlanMoves
    <2> QED  BY <2>1, <2>2, WriteKeepsFeed
  <1>3. CASE Feed!BriefMoves(e)
    <2>1. /\ \A p \in BOOLEAN : [event[e] EXCEPT !.brief = "open", !.fromPlan = p] \in EventRows
          /\ [event[e] EXCEPT !.brief = "quoted", !.quotes = 1] \in EventRows
          /\ [event[e] EXCEPT !.brief = "open", !.quotes = 0] \in EventRows
          /\ [event[e] EXCEPT !.brief = "accepted"] \in EventRows
          /\ [event[e] EXCEPT !.brief = "cancelled"] \in EventRows
      BY <1>1 DEF EventRows
    <2>2. \/ \E p \in BOOLEAN : Feed!Write(e, [event[e] EXCEPT !.brief = "open", !.fromPlan = p])
          \/ Feed!Write(e, [event[e] EXCEPT !.brief = "quoted", !.quotes = 1])
          \/ Feed!Write(e, [event[e] EXCEPT !.brief = "open", !.quotes = 0])
          \/ Feed!Write(e, [event[e] EXCEPT !.brief = "accepted"])
          \/ Feed!Write(e, [event[e] EXCEPT !.brief = "cancelled"])
      BY <1>3 DEF Feed!BriefMoves
    <2> QED  BY <2>1, <2>2, WriteKeepsFeed
  <1>4. CASE Feed!BookingMoves(e)
    <2> DEFINE B == {"pending", "confirmed", "rejected", "expired", "in_progress", "completed", "cancelled"}
    <2>1. \A v \in B : [event[e] EXCEPT !.booking = v] \in EventRows
      BY <1>1 DEF EventRows
    <2>2. \E v \in B : Feed!Write(e, [event[e] EXCEPT !.booking = v])
      BY <1>4 DEF Feed!BookingMoves
    <2> QED  BY <2>1, <2>2, WriteKeepsFeed
  <1> QED  BY <1>2, <1>3, <1>4

\* Every step keeps the invariant.
LEMMA FeedStep ==
    ASSUME FeedInv, [Feed!Next]_(Feed!homeVars) PROVE FeedInv'
  <1>1. CASE UNCHANGED Feed!homeVars
    BY <1>1 DEF FeedInv, Feed!homeVars
  <1>2. ASSUME NEW h \in Homes, Feed!Open(h) \/ Feed!Read(h) \/ Feed!Ask(h) \/ Feed!Show(h) \/ Feed!Close(h) PROVE FeedInv'
    BY <1>2, OpenKeepsFeed, ReadKeepsFeed, AskKeepsFeed, ShowKeepsFeed, CloseKeepsFeed
  <1>3. ASSUME NEW e \in Events, Feed!PlanMoves(e) \/ Feed!BriefMoves(e) \/ Feed!BookingMoves(e) PROVE FeedInv'
    BY <1>3, MovesKeepFeed
  <1> QED  BY <1>1, <1>2, <1>3 DEF Feed!Next


\* What a feed made of these records says.
FeedOf(f, copy, dropped) ==
    /\ \A i \in DOMAIN f :
         /\ f[i].source = "booking" => f[i].event \in Feed!Booked(copy)
         /\ f[i].source = "quote" => f[i].event \in BriefCards(copy, dropped)
    /\ \A e \in Feed!Booked(copy) : \E i \in DOMAIN f :
         f[i].event = e /\ f[i].rank = Feed!Rank[Feed!BookingStage(copy[e].booking)]
    /\ \A e \in BriefCards(copy, dropped) : \E i \in DOMAIN f :
         f[i].event = e /\ f[i].rank = Feed!Rank[Feed!QuoteStage(copy[e].brief, copy[e].quotes)]
    /\ \A e \in PlanCards(copy, dropped) : \E i \in DOMAIN f : f[i].event = e
    /\ \A i \in DOMAIN f : 1 \in DOMAIN f /\ f[i].rank <= f[1].rank

\* The feed shows every event that is open, the furthest first.
LEMMA FeedCards ==
    ASSUME Feed!FeedAssumption, NEW copy, NEW dropped, NEW u \in BOOLEAN
    PROVE  FeedOf(Feed!Ordered(Feed!Candidates(copy, dropped), u), copy, dropped)
  <1> DEFINE C == Feed!Candidates(copy, dropped)
             f == Feed!Ordered(C, u)
             n == Cardinality(C)
  <1>1. /\ C \in SUBSET FeedRows /\ IsFiniteSet(C)
        /\ \A c \in C : c.source = "booking" => c.event \in Feed!Booked(copy)
        /\ \A c \in C : c.source = "quote" => c.event \in BriefCards(copy, dropped)
        /\ \A e \in Feed!Booked(copy) : \E c \in C :
             c.event = e /\ c.rank = Feed!Rank[Feed!BookingStage(copy[e].booking)]
        /\ \A e \in BriefCards(copy, dropped) : \E c \in C :
             c.event = e /\ c.rank = Feed!Rank[Feed!QuoteStage(copy[e].brief, copy[e].quotes)]
        /\ \A e \in PlanCards(copy, dropped) : \E c \in C : c.event = e
    BY CandidatesAre
  <1> HIDE DEF C
  <1>2. PICK s : Ranks(s, C) /\ Shows(f, s, C, u)
    BY <1>1, OrderedIs
  <1>3. n \in Nat
    BY <1>1, OrderedIs
  <1> HIDE DEF f, n
  <1>4. /\ DOMAIN f = 1..n
        /\ \A i \in 1..n : f[i] = [s[i] EXCEPT !.fresh = (u /\ i = 1)]
        /\ \A i \in 1..n : s[i] \in C
        /\ \A c \in C : \E i \in 1..n : s[i] = c
        /\ \A i, j \in 1..n : i < j => s[i].rank >= s[j].rank
    BY <1>2 DEF Ranks, Shows, n
  <1>5. ASSUME NEW i \in 1..n
        PROVE  f[i].source = s[i].source /\ f[i].event = s[i].event /\ f[i].rank = s[i].rank
               /\ s[i].rank \in Nat /\ s[i] \in C
    <2>1. s[i] \in FeedRows
      BY <1>1, <1>4
    <2>2. f[i] = [s[i] EXCEPT !.fresh = (u /\ i = 1)]
      BY <1>4
    <2> QED  BY <1>4, <2>1, <2>2 DEF FeedRows
  <1>6. ASSUME NEW i \in 1..n PROVE 1 \in 1..n /\ f[i].rank <= f[1].rank
    <2>1. 1 \in 1..n
      BY <1>3
    <2>2. CASE i = 1
      BY <2>1, <2>2, <1>5
    <2>3. CASE i # 1
      <3>1. 1 < i
        BY <2>3, <1>3
      <3>2. s[1].rank >= s[i].rank
        BY <2>1, <3>1, <1>4
      <3> QED  BY <2>1, <3>2, <1>5
    <2> QED  BY <2>2, <2>3
  <1>7. /\ \A i \in 1..n : f[i].source = "booking" => f[i].event \in Feed!Booked(copy)
        /\ \A i \in 1..n : f[i].source = "quote" => f[i].event \in BriefCards(copy, dropped)
    BY <1>1, <1>5
  <1>8. ASSUME NEW c \in C PROVE \E i \in 1..n : f[i].event = c.event /\ f[i].rank = c.rank
    BY <1>4, <1>5
  <1>9. /\ \A e \in Feed!Booked(copy) : \E i \in 1..n :
             f[i].event = e /\ f[i].rank = Feed!Rank[Feed!BookingStage(copy[e].booking)]
        /\ \A e \in BriefCards(copy, dropped) : \E i \in 1..n :
             f[i].event = e /\ f[i].rank = Feed!Rank[Feed!QuoteStage(copy[e].brief, copy[e].quotes)]
        /\ \A e \in PlanCards(copy, dropped) : \E i \in 1..n : f[i].event = e
    BY <1>1, <1>8
  <1>10. FeedOf(f, copy, dropped)
    BY <1>4, <1>6, <1>7, <1>9 DEF FeedOf
  <1> QED  BY <1>10 DEF f, C

\* Where the briefs that are booked were dropped, an event has no card of both.
LEMMA NeverTwoCards ==
    ASSUME Feed!FeedAssumption, NEW copy, NEW dropped, Feed!Booked(copy) \subseteq dropped, NEW u \in BOOLEAN
    PROVE  LET f == Feed!Ordered(Feed!Candidates(copy, dropped), u) IN
           \A i, j \in DOMAIN f : f[i].event = f[j].event /\ f[i].source = "quote" => f[j].source # "booking"
  <1> DEFINE f == Feed!Ordered(Feed!Candidates(copy, dropped), u)
  <1>1. \A i \in DOMAIN f :
                /\ f[i].source = "booking" => f[i].event \in Feed!Booked(copy)
                /\ f[i].source = "quote" => f[i].event \in BriefCards(copy, dropped)
    BY FeedCards DEF FeedOf
  <1>2. \A e : ~(e \in BriefCards(copy, dropped) /\ e \in Feed!Booked(copy))
    BY DEF BriefCards
  <1> HIDE DEF f
  <1>3. \A i, j \in DOMAIN f : f[i].event = f[j].event /\ f[i].source = "quote" => f[j].source # "booking"
    BY <1>1, <1>2
  <1> QED  BY <1>3 DEF f

\* A booked event is represented by its booking.
LEMMA BookedIsRepresented == Feed!Booked(event) \subseteq Feed!Represented(event)
  BY DEF Feed!Booked, Feed!Represented

\* A brief and its booking are one card.
LEMMA BriefOrBookingHolds ==
    ASSUME Feed!FeedAssumption, FeedInv PROVE Feed!BriefOrBooking
  <1>1. \A i, j \in DOMAIN Feed!Now :
          Feed!Now[i].event = Feed!Now[j].event /\ Feed!Now[i].source = "quote" => Feed!Now[j].source # "booking"
    BY NeverTwoCards, BookedIsRepresented DEF Feed!Now
  <1>2. ASSUME NEW h \in Homes, NEW f, f = home[h].shown
        PROVE  \A i, j \in DOMAIN f :
                 f[i].event = f[j].event /\ f[i].source = "quote" => f[j].source # "booking"
    <2>1. HomeFits(home[h])
      BY DEF FeedInv
    <2>2. CASE f = <<>>
      BY <2>2
    <2>3. CASE home[h].at = "shown"
      <3>1. /\ Feed!Booked(home[h].copy) \subseteq home[h].dropped
            /\ \E u \in BOOLEAN : f = Feed!Ordered(Feed!Candidates(home[h].copy, home[h].dropped), u)
        BY <1>2, <2>1, <2>3 DEF HomeFits
      <3> QED  BY <3>1, NeverTwoCards
    <2> QED  BY <1>2, <2>1, <2>2, <2>3 DEF HomeFits
  <1> QED  BY <1>1, <1>2 DEF Feed!BriefOrBooking, Feed!Feeds

\* Read at one instant, every open event has a card, none ahead of the first.
LEMMA NothingIsHiddenHolds ==
    ASSUME Feed!FeedAssumption, FeedInv PROVE Feed!NothingIsHidden
  <1> DEFINE d == Feed!Represented(event)
             f == Feed!Ordered(Feed!Candidates(event, d), FALSE)
  <1>1. /\ \A e \in Feed!Booked(event) : \E i \in DOMAIN f :
             f[i].event = e /\ f[i].rank = Feed!Rank[Feed!BookingStage(event[e].booking)]
        /\ \A e \in BriefCards(event, d) : \E i \in DOMAIN f :
             f[i].event = e /\ f[i].rank = Feed!Rank[Feed!QuoteStage(event[e].brief, event[e].quotes)]
        /\ \A e \in PlanCards(event, d) : \E i \in DOMAIN f : f[i].event = e
        /\ \A i \in DOMAIN f : f[i].rank <= f[1].rank
    <2>1. FeedOf(f, event, d)
      BY FeedCards
    <2> QED  BY <2>1 DEF FeedOf
  <1> HIDE DEF f
  <1>2. ASSUME NEW e \in Events, Feed!LiveBooking(event[e]) PROVE e \in Feed!Booked(event)
    BY <1>2 DEF Feed!Booked
  <1>3. ASSUME NEW e \in Events, Feed!ActiveBrief(event[e]), event[e].booking = "none" PROVE e \in BriefCards(event, d)
    BY <1>3 DEF BriefCards, Feed!Represented, Feed!LiveBooking
  <1>4. ASSUME NEW e \in Events, Feed!ActivePlan(event[e]), ~Feed!ActiveBrief(event[e]) PROVE e \in PlanCards(event, d)
    BY <1>4 DEF PlanCards, BriefCards, Feed!Covered
  <1>5. ASSUME NEW e \in Events,
               \/ Feed!LiveBooking(event[e])
               \/ Feed!ActiveBrief(event[e]) /\ event[e].booking = "none"
               \/ Feed!ActivePlan(event[e]) /\ ~Feed!ActiveBrief(event[e])
        PROVE  \E i \in DOMAIN f : f[i].event = e
    BY <1>1, <1>2, <1>3, <1>4, <1>5
  <1>6. ASSUME NEW e \in Events, Feed!LiveBooking(event[e])
        PROVE  Feed!Rank[Feed!BookingStage(event[e].booking)] <= f[1].rank
    BY <1>1, <1>2, <1>6
  <1>7. ASSUME NEW e \in Events, event[e].brief = "accepted", event[e].booking = "none" PROVE 4 <= f[1].rank
    <2>1. e \in BriefCards(event, d)
      BY <1>3, <1>7 DEF Feed!ActiveBrief
    <2>2. Feed!Rank[Feed!QuoteStage(event[e].brief, event[e].quotes)] = 4
      BY <1>7, StagesRank
    <2> QED  BY <1>1, <2>1, <2>2
  <1>8. Feed!Now = f
    BY DEF Feed!Now, f
  <1> QED  BY <1>5, <1>6, <1>7, <1>8 DEF Feed!NothingIsHidden

\* A request that knows how the records stand shows how they stand.
LEMMA KnowingShowsNow ==
    ASSUME NEW h \in Homes, FeedInv, home[h].at = "shown", KnowsNow(home[h], event)
    PROVE  \E u \in BOOLEAN : home[h].shown = Feed!Ordered(Feed!Candidates(event, Feed!Represented(event)), u)
  <1>1. HomeFits(home[h]) /\ home[h] \in HomeRows(Events) /\ event \in Copies
    BY DEF FeedInv
  <1>2. home[h].dropped = Feed!Represented(event) /\ home[h].left = {}
    BY DEF KnowsNow
  <1>3. home[h].copy \in Copies
    BY <1>1 DEF HomeRows
  <1>4. ASSUME NEW e \in Events PROVE home[h].copy[e] = event[e]
    <2> DEFINE a == home[h].copy[e]  b == event[e]
    <2>1. a \in EventRows /\ b \in EventRows
      BY <1>1, <1>3 DEF Copies
    <2>2. a.plan = b.plan /\ a.brief = b.brief /\ a.fromPlan = b.fromPlan /\ a.quotes = b.quotes
          /\ a.booking = b.booking
      BY <1>2 DEF KnowsNow
    <2> HIDE DEF a, b
    <2>3. a = b
      BY <2>1, <2>2 DEF EventRows
    <2> QED  BY <2>3 DEF a, b
  <1>5. home[h].copy = event
    BY <1>1, <1>3, <1>4 DEF Copies
  <1> QED  BY <1>1, <1>2, <1>5 DEF HomeFits

\* An undisturbed request shows the records as they stand.
LEMMA SettledIsNowHolds ==
    ASSUME Feed!FeedAssumption, FeedInv PROVE Feed!SettledIsNow
  <1> SUFFICES ASSUME NEW h \in Homes, home[h].at = "shown", moves[h] = 0
               PROVE  \E u \in BOOLEAN :
                        Feed!Range(home[h].shown)
                             = {[c EXCEPT !.fresh = u /\ c = Feed!Now[1]] : c \in Feed!Range(Feed!Now)}
    BY DEF Feed!SettledIsNow
  <1>1. KnowsNow(home[h], event)
    BY DEF FeedInv, Undisturbed
  <1> DEFINE C == Feed!Candidates(event, Feed!Represented(event))
             g(u) == Feed!Ordered(C, u)
             f == Feed!Now
             n == Cardinality(C)
  <1>2. PICK u \in BOOLEAN : home[h].shown = g(u)
    BY <1>1, KnowingShowsNow
  <1>3. C \in SUBSET FeedRows /\ IsFiniteSet(C)
    BY CandidatesAre
  <1>4. f = g(FALSE)
    BY DEF Feed!Now
  <1> HIDE DEF C, f
  <1>5. n \in Nat /\ \E s : Ranks(s, C) /\ \A v \in BOOLEAN : Shows(g(v), s, C, v)
    BY <1>3, OrderedIs
  <1>6. PICK s : Ranks(s, C) /\ Shows(g(u), s, C, u) /\ Shows(f, s, C, FALSE)
    BY <1>4, <1>5
  <1> DEFINE k == g(u)
  <1> HIDE DEF n, g, k
  <1>7. /\ DOMAIN k = 1..n /\ DOMAIN f = 1..n
        /\ \A i \in 1..n : k[i] = [s[i] EXCEPT !.fresh = (u /\ i = 1)]
        /\ \A i \in 1..n : f[i] = [s[i] EXCEPT !.fresh = (FALSE /\ i = 1)]
        /\ \A i \in 1..n : s[i] \in C
        /\ \A i, j \in 1..n : s[i] = s[j] => i = j
    BY <1>6 DEF Ranks, Shows, n, k
  <1>8. ASSUME NEW i \in 1..n PROVE f[i] = s[i]
    <2>1. s[i] \in FeedRows /\ f[i] = [s[i] EXCEPT !.fresh = FALSE]
      BY <1>3, <1>7
    <2> QED  BY <2>1 DEF FeedRows
  <1>9. ASSUME NEW i \in 1..n PROVE k[i] = [f[i] EXCEPT !.fresh = u /\ f[i] = f[1]]
    <2>1. 1 \in 1..n
      BY <1>5 DEF n
    <2>2. f[i] = s[i] /\ f[1] = s[1]
      BY <1>8, <2>1
    <2>3. (u /\ i = 1) = (u /\ f[i] = f[1])
      BY <1>7, <2>1, <2>2
    <2>4. k[i] = [s[i] EXCEPT !.fresh = (u /\ i = 1)]
      BY <1>7
    <2> QED  BY <2>2, <2>3, <2>4
  <1>10. Feed!Range(k) = {k[i] : i \in 1..n} /\ Feed!Range(f) = {f[i] : i \in 1..n}
    BY <1>7 DEF Feed!Range
  <1>11. Feed!Range(k) = {[c EXCEPT !.fresh = u /\ c = f[1]] : c \in Feed!Range(f)}
    <2> DEFINE b(c) == [c EXCEPT !.fresh = u /\ c = f[1]]
    <2>1. \A i \in 1..n : k[i] = b(f[i])
      BY <1>9
    <2> HIDE DEF b
    <2>2. {k[i] : i \in 1..n} = {b(c) : c \in {f[i] : i \in 1..n}}
      BY <2>1
    <2> QED  BY <1>10, <2>2 DEF b
  <1> QED  BY <1>2, <1>11 DEF f, k

\* The invariant holds of every behaviour of Home.
LEMMA FeedInvHolds == Feed!FeedAssumption /\ Feed!Spec => []FeedInv
  <1>1. FeedInv /\ [Feed!Next]_(Feed!homeVars) => FeedInv'
    BY FeedStep
  <1> QED  BY <1>1, FeedInit, PTL DEF Feed!Spec

\* However Home's reads interleave with the writes, a brief and its booking are one card
\* and an undisturbed request shows the records as they stand; read at one instant, every
\* open event has a card and none is ahead of the first (activeEvents).
THEOREM FeedsStayHonest ==
    ASSUME Feed!FeedAssumption
    PROVE  Feed!Spec => [](Feed!BriefOrBooking /\ Feed!NothingIsHidden /\ Feed!SettledIsNow)
  <1>1. FeedInv => Feed!BriefOrBooking /\ Feed!NothingIsHidden /\ Feed!SettledIsNow
    BY BriefOrBookingHolds, NothingIsHiddenHolds, SettledIsNowHolds
  <1> QED  BY <1>1, FeedInvHolds, PTL

-----------------------------------------------------------------------------
(* The contact desk (SupportDesk).                                          *)

\* The types of a message on file and of an admin's request.
MessageRows == [status : {"none", "new", "in_progress", "responded", "closed"}, account : BOOLEAN,
                response : Replies \cup {""}, by : Admins \cup {""}, emailed : BOOLEAN]
AdminDesks == [at : {"idle", "status", "reply", "notify", "mail", "flag"}, id : Contacts \cup {""}, copy : MessageRows,
               reply : Replies \cup {""}, sent : BOOLEAN]

\* One admin answers at a time.
AnswersAlone == \A a, b \in Admins : a = b

\* What is on file of a message, while one admin's request is where it is.
Filing(d, r, m, l) ==
    /\ r.response = l \/ d.at = "reply"
    /\ d.at \in {"status", "reply"} => d.copy = r /\ r.response = l /\ r.emailed = m
    /\ d.at \in {"notify", "mail", "flag"} => d.copy.emailed = r.emailed /\ r.response = l
    /\ d.at = "flag" => d.sent = m

\* The inductive invariant of the contact desk.
SupportInv ==
    /\ contact \in [Contacts -> MessageRows] /\ desk \in [Admins -> AdminDesks]
    /\ mailed \in [Contacts -> BOOLEAN] /\ last \in [Contacts -> Replies \cup {""}]
    /\ \A a \in Admins : desk[a].at # "idle" => desk[a].id \in Contacts /\ contact[desk[a].id].status # "none"
    /\ \A m \in Contacts : contact[m].status = "none" => ~contact[m].emailed /\ contact[m].response = ""
    /\ \A a \in Admins : desk[a].at # "idle" =>
         Filing(desk[a], contact[desk[a].id], mailed[desk[a].id], last[desk[a].id])
    /\ \A m \in Contacts : (\A a \in Admins : desk[a].at = "idle" \/ desk[a].id # m) =>
         contact[m].emailed = mailed[m] /\ contact[m].response = last[m]

\* No message and no request are of their types.
LEMMA NothingFiled ==
    /\ Support!NoRow \in MessageRows /\ Support!NoRow.response = "" /\ Support!NoRow.emailed = FALSE /\ Support!NoRow.status = "none"
    /\ Support!NoDesk \in AdminDesks /\ Support!NoDesk.at = "idle"
  BY DEF Support!NoRow, Support!NoDesk, MessageRows, AdminDesks

\* An empty file satisfies the invariant.
LEMMA SupportInit == ASSUME Support!Init PROVE SupportInv
  <1>1. /\ contact = [m \in Contacts |-> Support!NoRow] /\ desk = [a \in Admins |-> Support!NoDesk]
        /\ mailed = [m \in Contacts |-> FALSE] /\ last = [m \in Contacts |-> ""]
    BY DEF Support!Init
  <1> QED  BY <1>1, NothingFiled DEF SupportInv

\* A message comes in unanswered.
LEMMA CreateKeepsFile == ASSUME SupportInv, Support!Create PROVE SupportInv'
  <1>1. PICK m \in Contacts \ Support!Filed, account \in BOOLEAN :
          contact' = [contact EXCEPT ![m] = [Support!NoRow EXCEPT !.status = "new", !.account = account]]
    BY DEF Support!Create
  <1>2. desk' = desk /\ mailed' = mailed /\ last' = last
    BY DEF Support!Create
  <1> DEFINE r == [Support!NoRow EXCEPT !.status = "new", !.account = account]
  <1>3. r \in MessageRows /\ r.response = "" /\ r.emailed = FALSE /\ r.status = "new"
    BY DEF Support!NoRow, MessageRows
  <1>4. m \in Contacts /\ contact[m].status = "none"
    BY DEF Support!Filed
  <1>5. \A a \in Admins : desk[a].at # "idle" => desk[a].id # m
    BY <1>4 DEF SupportInv
  <1>6. mailed[m] = FALSE /\ last[m] = ""
    BY <1>4, <1>5 DEF SupportInv
  <1>7. contact' = [contact EXCEPT ![m] = r]
    BY <1>1
  <1> HIDE DEF r
  <1>8. contact' \in [Contacts -> MessageRows] /\ contact'[m] = r /\ \A x \in Contacts : x # m => contact'[x] = contact[x]
    BY <1>3, <1>7 DEF SupportInv
  <1>9. /\ \A y \in Contacts : contact'[y].status = "none" => ~contact'[y].emailed /\ contact'[y].response = ""
        /\ \A a \in Admins : desk[a].at # "idle" => contact'[desk[a].id] = contact[desk[a].id]
        /\ \A y \in Contacts : (\A a \in Admins : desk[a].at = "idle" \/ desk[a].id # y) =>
             contact'[y].emailed = mailed[y] /\ contact'[y].response = last[y]
    BY <1>3, <1>5, <1>6, <1>8 DEF SupportInv
  <1> QED  BY <1>2, <1>8, <1>9 DEF SupportInv

\* What the admin leaves behind: the end of the answering, or a place on the way.
Leaves(d, x, r, m, l) ==
    IF d.at = "idle" THEN r.emailed = m /\ r.response = l ELSE d.id = x /\ Filing(d, r, m, l)

\* A step of the one admin at work, on the message it holds.
LEMMA AdminKeeps ==
    ASSUME SupportInv, AnswersAlone, NEW a \in Admins, NEW d \in AdminDesks, NEW x \in Contacts,
           contact' \in [Contacts -> MessageRows], mailed' \in [Contacts -> BOOLEAN],
           last' \in [Contacts -> Replies \cup {""}],
           \A y \in Contacts \ {x} : contact'[y] = contact[y] /\ mailed'[y] = mailed[y] /\ last'[y] = last[y],
           desk' = [desk EXCEPT ![a] = d], contact'[x].status # "none", desk[a].at # "idle" => x = desk[a].id,
           Leaves(d, x, contact'[x], mailed'[x], last'[x])
    PROVE  SupportInv'
  <1>1. desk' \in [Admins -> AdminDesks]
    BY DEF SupportInv
  <1>3. \A b \in Admins : b = a /\ desk'[b] = d
    BY DEF SupportInv, AnswersAlone
  <1>4. ASSUME NEW y \in Contacts, y # x, \A b \in Admins : desk'[b].at = "idle" \/ desk'[b].id # y
        PROVE  contact'[y].emailed = mailed'[y] /\ contact'[y].response = last'[y]
    <2>1. \A b \in Admins : desk[b].at = "idle" \/ desk[b].id # y
      BY <1>3, <1>4
    <2> QED  BY <2>1, <1>4 DEF SupportInv
  <1>5. ASSUME NEW y \in Contacts, contact'[y].status = "none" PROVE ~contact'[y].emailed /\ contact'[y].response = ""
    BY <1>5 DEF SupportInv
  <1>6. ASSUME d.at # "idle" PROVE d.id = x /\ Filing(d, contact'[x], mailed'[x], last'[x])
    BY <1>6 DEF Leaves
  <1>7. ASSUME \A b \in Admins : desk'[b].at = "idle" \/ desk'[b].id # x
        PROVE  contact'[x].emailed = mailed'[x] /\ contact'[x].response = last'[x]
    <2>1. d.at = "idle"
      BY <1>3, <1>6, <1>7
    <2> QED  BY <2>1 DEF Leaves
  <1>8. \A b \in Admins : desk'[b].at # "idle" =>
          /\ desk'[b].id \in Contacts /\ contact'[desk'[b].id].status # "none"
          /\ Filing(desk'[b], contact'[desk'[b].id], mailed'[desk'[b].id], last'[desk'[b].id])
    BY <1>3, <1>6
  <1> QED  BY <1>1, <1>4, <1>5, <1>7, <1>8 DEF SupportInv

\* What the invariant says of the admin at work.
LEMMA AtWork ==
    ASSUME SupportInv, NEW a \in Admins, desk[a].at # "idle"
    PROVE  LET d == desk[a] IN
           /\ d \in AdminDesks /\ d.id \in Contacts /\ contact[d.id] \in MessageRows /\ contact[d.id].status # "none"
           /\ mailed[d.id] \in BOOLEAN /\ last[d.id] \in Replies \cup {""}
           /\ Filing(d, contact[d.id], mailed[d.id], last[d.id])
           /\ contact = [contact EXCEPT ![d.id] = contact[d.id]] /\ mailed = [mailed EXCEPT ![d.id] = mailed[d.id]]
           /\ last = [last EXCEPT ![d.id] = last[d.id]]
  BY DEF SupportInv

\* An admin loads a message.
LEMMA LoadKeepsFile ==
    ASSUME SupportInv, AnswersAlone, NEW a \in Admins, Support!Load(a) PROVE SupportInv'
  <1>1. desk[a].at = "idle" /\ contact' = contact /\ mailed' = mailed /\ last' = last
    BY DEF Support!Load, Support!At
  <1> DEFINE d(m, r) == [Support!NoDesk EXCEPT !.at = IF r = "" THEN "status" ELSE "reply",
                                 !.id = m, !.copy = contact[m], !.reply = r]
  <1>2. PICK m \in Support!Filed, r \in Replies \cup {""} : desk' = [desk EXCEPT ![a] = d(m, r)]
    BY DEF Support!Load, Support!Goto
  <1>3. m \in Contacts /\ contact[m].status # "none" /\ contact[m] \in MessageRows
        /\ mailed[m] \in BOOLEAN /\ last[m] \in Replies \cup {""}
    BY DEF Support!Filed, SupportInv
  <1> DEFINE e == d(m, r)
  <1>4. e \in AdminDesks /\ e.at \in {"status", "reply"} /\ e.id = m /\ e.copy = contact[m]
    BY <1>3, NothingFiled DEF AdminDesks
  <1> HIDE DEF e
  <1>5. \A b \in Admins : desk[b].at = "idle"
    BY <1>1 DEF AnswersAlone
  <1>6. contact[m].emailed = mailed[m] /\ contact[m].response = last[m]
    BY <1>3, <1>5 DEF SupportInv
  <1>7. Filing(e, contact[m], mailed[m], last[m])
    BY <1>4, <1>6 DEF Filing
  <1>8. contact' = [contact EXCEPT ![m] = contact[m]] /\ mailed' = [mailed EXCEPT ![m] = mailed[m]]
        /\ last' = [last EXCEPT ![m] = last[m]] /\ desk' = [desk EXCEPT ![a] = e]
    BY <1>1, <1>2 DEF SupportInv, e
  <1> HIDE DEF d
  <1>9. e.at # "idle" /\ (desk[a].at # "idle" => m = desk[a].id)
    BY <1>1, <1>4
  <1>10. Leaves(e, m, contact[m], mailed[m], last[m])
    BY <1>1, <1>2, <1>3, <1>4, <1>5, <1>6, <1>7, <1>8, <1>9, NothingFiled DEF Leaves
  <1>11. contact'[m] = contact[m] /\ mailed'[m] = mailed[m] /\ last'[m] = last[m]
    BY <1>1, <1>2, <1>3, <1>4, <1>5, <1>6, <1>7, <1>8, <1>9 DEF SupportInv
  <1>12. /\ contact' \in [Contacts -> MessageRows] /\ mailed' \in [Contacts -> BOOLEAN]
        /\ last' \in [Contacts -> Replies \cup {""}]
        /\ \A y \in Contacts \ {m} : contact'[y] = contact[y] /\ mailed'[y] = mailed[y] /\ last'[y] = last[y]
    BY <1>1, <1>2, <1>3, <1>4, <1>5, <1>6, <1>7, <1>8, <1>9 DEF SupportInv
  <1>13. Leaves(e, m, contact'[m], mailed'[m], last'[m]) /\ contact'[m].status # "none"
    BY <1>1, <1>2, <1>3, <1>4, <1>5, <1>6, <1>7, <1>8, <1>9, <1>10, <1>11
  <1> QED  BY <1>3, <1>4, <1>8, <1>9, <1>12, <1>13, AdminKeeps

\* A change of status saves the status.
LEMMA UpdateStatusKeepsFile ==
    ASSUME SupportInv, AnswersAlone, NEW a \in Admins, Support!UpdateStatus(a) PROVE SupportInv'
  <1> DEFINE x == desk[a].id
             new(s) == IF s = desk[a].copy.status THEN contact[x] ELSE [contact[x] EXCEPT !.status = s]
  <1>1. desk[a].at = "status" /\ desk' = [desk EXCEPT ![a] = Support!NoDesk] /\ mailed' = mailed /\ last' = last
    BY DEF Support!UpdateStatus, Support!At, Support!Goto
  <1>2. /\ x \in Contacts /\ contact[x] \in MessageRows /\ contact[x].status # "none"
        /\ mailed[x] \in BOOLEAN /\ last[x] \in Replies \cup {""} /\ Filing(desk[a], contact[x], mailed[x], last[x])
        /\ contact = [contact EXCEPT ![x] = contact[x]] /\ mailed = [mailed EXCEPT ![x] = mailed[x]]
        /\ last = [last EXCEPT ![x] = last[x]]
    BY <1>1, AtWork
  <1>3. PICK s \in Support!Statuses : contact' = [contact EXCEPT ![x] = new(s)]
    BY <1>2 DEF Support!UpdateStatus
  <1> DEFINE r == new(s)
  <1>4. r \in MessageRows /\ r.status # "none" /\ r.emailed = contact[x].emailed /\ r.response = contact[x].response
    BY <1>2 DEF MessageRows, Support!Statuses
  <1>5. contact[x].emailed = mailed[x] /\ contact[x].response = last[x]
    BY <1>1, <1>2 DEF Filing
  <1>6. contact' = [contact EXCEPT ![x] = r]
    BY <1>3
  <1> HIDE DEF x, r, new
  <1>7. x = desk[a].id
    BY DEF x
  <1>8. Leaves(Support!NoDesk, x, r, mailed[x], last[x])
    BY <1>1, <1>2, <1>3, <1>4, <1>5, <1>6, <1>7, NothingFiled DEF Leaves
  <1>9. contact'[x] = r /\ mailed'[x] = mailed[x] /\ last'[x] = last[x]
    BY <1>1, <1>2, <1>3, <1>4, <1>5, <1>6, <1>7 DEF SupportInv
  <1>10. /\ contact' \in [Contacts -> MessageRows] /\ mailed' \in [Contacts -> BOOLEAN]
        /\ last' \in [Contacts -> Replies \cup {""}]
        /\ \A y \in Contacts \ {x} : contact'[y] = contact[y] /\ mailed'[y] = mailed[y] /\ last'[y] = last[y]
    <2>1. contact \in [Contacts -> MessageRows] /\ mailed' = mailed /\ last' = last
          /\ mailed \in [Contacts -> BOOLEAN] /\ last \in [Contacts -> Replies \cup {""}]
      BY <1>1 DEF SupportInv
    <2>2. contact' \in [Contacts -> MessageRows] /\ \A y \in Contacts \ {x} : contact'[y] = contact[y]
      BY <1>4, <1>6, <2>1
    <2> QED  BY <2>1, <2>2
  <1>11. Leaves(Support!NoDesk, x, contact'[x], mailed'[x], last'[x]) /\ contact'[x].status # "none"
    BY <1>1, <1>2, <1>3, <1>4, <1>5, <1>6, <1>7, <1>8, <1>9
  <1> QED  BY <1>1, <1>2, <1>3, <1>4, <1>5, <1>6, <1>7, <1>10, <1>11, NothingFiled, AdminKeeps

\* A reply is saved, and takes the flag back.
LEMMA SaveReplyKeepsFile ==
    ASSUME SupportInv, AnswersAlone, NEW a \in Admins, Support!SaveReply(a) PROVE SupportInv'
  <1> DEFINE o == desk[a]
             x == o.id
             r == [contact[x] EXCEPT
                 !.response = IF o.reply = o.copy.response THEN contact[x].response ELSE o.reply,
                 !.by = IF a = o.copy.by THEN contact[x].by ELSE a,
                 !.status = IF o.copy.status = "responded" THEN contact[x].status ELSE "responded"]
             d == [o EXCEPT !.at = "notify"]
  <1>1. /\ o.at = "reply" /\ desk' = [desk EXCEPT ![a] = d]
        /\ mailed' = [mailed EXCEPT ![x] = FALSE] /\ last' = [last EXCEPT ![x] = o.reply]
    BY DEF Support!SaveReply, Support!At, Support!Goto
  <1>2. /\ o \in AdminDesks /\ x \in Contacts /\ contact[x] \in MessageRows /\ contact[x].status # "none"
        /\ Filing(o, contact[x], mailed[x], last[x])
    BY <1>1, AtWork
  <1>3. contact' = [contact EXCEPT ![x] = r]
    BY DEF Support!SaveReply
  <1>4. r \in MessageRows /\ r.status # "none" /\ r.emailed = contact[x].emailed /\ r.response = o.reply
    <2>1. o.copy = contact[x] /\ o.reply \in Replies \cup {""}
      BY <1>1, <1>2 DEF Filing, AdminDesks
    <2> HIDE DEF o, x
    <2> QED  BY <1>2, <2>1 DEF MessageRows
  <1>5. d \in AdminDesks /\ d.at = "notify" /\ d.id = x /\ d.copy = o.copy
    BY <1>2 DEF AdminDesks
  <1>6. o.copy = contact[x] /\ o.reply \in Replies \cup {""}
    BY <1>1, <1>2 DEF Filing, AdminDesks
  <1> HIDE DEF d, r
  <1>7. Filing(d, r, FALSE, o.reply)
    BY <1>4, <1>5, <1>6 DEF Filing
  <1>8. o.at # "idle" => x = desk[a].id
    OBVIOUS
  <1>9. d.at # "idle"
    BY <1>5
  <1> HIDE DEF o, x
  <1>10. desk[a].at # "idle" => x = desk[a].id
    BY DEF o, x
  <1>11. Leaves(d, x, r, FALSE, o.reply)
    BY <1>1, <1>2, <1>3, <1>4, <1>5, <1>6, <1>7, <1>8, <1>9, <1>10, NothingFiled DEF Leaves
  <1>12. contact'[x] = r /\ mailed'[x] = FALSE /\ last'[x] = o.reply
    BY <1>1, <1>2, <1>3, <1>4, <1>5, <1>6, <1>7, <1>8, <1>9, <1>10 DEF SupportInv
  <1>13. /\ contact' \in [Contacts -> MessageRows] /\ mailed' \in [Contacts -> BOOLEAN]
        /\ last' \in [Contacts -> Replies \cup {""}]
        /\ \A y \in Contacts \ {x} : contact'[y] = contact[y] /\ mailed'[y] = mailed[y] /\ last'[y] = last[y]
    BY <1>1, <1>2, <1>3, <1>4, <1>5, <1>6, <1>7, <1>8, <1>9, <1>10 DEF SupportInv
  <1>14. Leaves(d, x, contact'[x], mailed'[x], last'[x]) /\ contact'[x].status # "none"
    BY <1>1, <1>2, <1>3, <1>4, <1>5, <1>6, <1>7, <1>8, <1>9, <1>10, <1>11, <1>12
  <1> QED  BY <1>1, <1>2, <1>3, <1>4, <1>5, <1>6, <1>7, <1>8, <1>9, <1>10, <1>13, <1>14, NothingFiled, AdminKeeps

\* The account is notified.
LEMMA NotifyKeepsFile ==
    ASSUME SupportInv, AnswersAlone, NEW a \in Admins, Support!Notify(a) PROVE SupportInv'
  <1> DEFINE o == desk[a]
             x == o.id
             d == [o EXCEPT !.at = "mail"]
  <1>1. o.at = "notify" /\ desk' = [desk EXCEPT ![a] = d] /\ contact' = contact /\ mailed' = mailed /\ last' = last
    BY DEF Support!Notify, Support!At, Support!Goto
  <1>2. /\ o \in AdminDesks /\ x \in Contacts /\ contact[x] \in MessageRows /\ contact[x].status # "none"
        /\ mailed[x] \in BOOLEAN /\ last[x] \in Replies \cup {""} /\ Filing(o, contact[x], mailed[x], last[x])
        /\ contact = [contact EXCEPT ![x] = contact[x]] /\ mailed = [mailed EXCEPT ![x] = mailed[x]]
        /\ last = [last EXCEPT ![x] = last[x]]
    BY <1>1, AtWork
  <1>3. d \in AdminDesks /\ d.at = "mail" /\ d.id = x /\ d.copy = o.copy
    BY <1>2 DEF AdminDesks
  <1> HIDE DEF d
  <1>4. Filing(d, contact[x], mailed[x], last[x])
    BY <1>1, <1>2, <1>3 DEF Filing
  <1> HIDE DEF o, x
  <1>5. (desk[a].at # "idle" => x = desk[a].id) /\ d.at # "idle"
    BY <1>3 DEF o, x
  <1>6. Leaves(d, x, contact[x], mailed[x], last[x])
    BY <1>1, <1>2, <1>3, <1>4, <1>5, NothingFiled DEF Leaves
  <1>7. contact'[x] = contact[x] /\ mailed'[x] = mailed[x] /\ last'[x] = last[x]
    BY <1>1, <1>2, <1>3, <1>4, <1>5 DEF SupportInv
  <1>8. /\ contact' \in [Contacts -> MessageRows] /\ mailed' \in [Contacts -> BOOLEAN]
        /\ last' \in [Contacts -> Replies \cup {""}]
        /\ \A y \in Contacts \ {x} : contact'[y] = contact[y] /\ mailed'[y] = mailed[y] /\ last'[y] = last[y]
    BY <1>1, <1>2, <1>3, <1>4, <1>5 DEF SupportInv
  <1>9. Leaves(d, x, contact'[x], mailed'[x], last'[x]) /\ contact'[x].status # "none"
    BY <1>1, <1>2, <1>3, <1>4, <1>5, <1>6, <1>7
  <1> QED  BY <1>1, <1>2, <1>3, <1>4, <1>5, <1>8, <1>9, NothingFiled, AdminKeeps

\* The mail goes out, or does not.
LEMMA MailKeepsFile ==
    ASSUME SupportInv, AnswersAlone, NEW a \in Admins, Support!Mail(a) PROVE SupportInv'
  <1> DEFINE o == desk[a]
             x == o.id
             f(sent) == [o EXCEPT !.at = "flag", !.sent = sent]
  <1>1. PICK sent \in BOOLEAN : mailed' = [mailed EXCEPT ![x] = sent] /\ desk' = [desk EXCEPT ![a] = f(sent)]
    BY DEF Support!Mail, Support!Goto
  <1> DEFINE d == f(sent)
  <1>2. o.at = "mail" /\ contact' = contact /\ last' = last
    BY DEF Support!Mail, Support!At
  <1>3. /\ o \in AdminDesks /\ x \in Contacts /\ contact[x] \in MessageRows /\ contact[x].status # "none"
        /\ last[x] \in Replies \cup {""} /\ Filing(o, contact[x], mailed[x], last[x])
        /\ contact = [contact EXCEPT ![x] = contact[x]] /\ last = [last EXCEPT ![x] = last[x]]
    BY <1>2, AtWork
  <1>4. d \in AdminDesks /\ d.at = "flag" /\ d.id = x /\ d.copy = o.copy /\ d.sent = sent
    BY <1>3 DEF AdminDesks
  <1>5. desk' = [desk EXCEPT ![a] = d]
    BY <1>1
  <1> HIDE DEF d, f
  <1>6. Filing(d, contact[x], sent, last[x])
    BY <1>2, <1>3, <1>4 DEF Filing
  <1> HIDE DEF o, x
  <1>7. (desk[a].at # "idle" => x = desk[a].id) /\ d.at # "idle"
    BY <1>4 DEF o, x
  <1>8. Leaves(d, x, contact[x], sent, last[x])
    BY <1>1, <1>2, <1>3, <1>4, <1>5, <1>6, <1>7, NothingFiled DEF Leaves
  <1>9. contact'[x] = contact[x] /\ mailed'[x] = sent /\ last'[x] = last[x]
    BY <1>1, <1>2, <1>3, <1>4, <1>5, <1>6, <1>7 DEF SupportInv
  <1>10. /\ contact' \in [Contacts -> MessageRows] /\ mailed' \in [Contacts -> BOOLEAN]
        /\ last' \in [Contacts -> Replies \cup {""}]
        /\ \A y \in Contacts \ {x} : contact'[y] = contact[y] /\ mailed'[y] = mailed[y] /\ last'[y] = last[y]
    BY <1>1, <1>2, <1>3, <1>4, <1>5, <1>6, <1>7 DEF SupportInv
  <1>11. Leaves(d, x, contact'[x], mailed'[x], last'[x]) /\ contact'[x].status # "none"
    BY <1>1, <1>2, <1>3, <1>4, <1>5, <1>6, <1>7, <1>8, <1>9
  <1> QED  BY <1>3, <1>4, <1>5, <1>7, <1>10, <1>11, AdminKeeps

\* What became of it is recorded.
LEMMA FlagKeepsFile ==
    ASSUME SupportInv, AnswersAlone, NEW a \in Admins, Support!Flag(a) PROVE SupportInv'
  <1> DEFINE o == desk[a]
             x == o.id
             r == IF o.sent = o.copy.emailed THEN contact[x] ELSE [contact[x] EXCEPT !.emailed = o.sent]
  <1>1. o.at = "flag" /\ desk' = [desk EXCEPT ![a] = Support!NoDesk] /\ mailed' = mailed /\ last' = last
    BY DEF Support!Flag, Support!At, Support!Goto
  <1>2. /\ o \in AdminDesks /\ x \in Contacts /\ contact[x] \in MessageRows /\ contact[x].status # "none"
        /\ mailed[x] \in BOOLEAN /\ last[x] \in Replies \cup {""} /\ Filing(o, contact[x], mailed[x], last[x])
        /\ contact = [contact EXCEPT ![x] = contact[x]] /\ mailed = [mailed EXCEPT ![x] = mailed[x]]
        /\ last = [last EXCEPT ![x] = last[x]]
    BY <1>1, AtWork
  <1>3. contact' = [contact EXCEPT ![x] = r]
    BY <1>2 DEF Support!Flag, SupportInv
  <1>4. o.sent \in BOOLEAN /\ o.copy.emailed = contact[x].emailed /\ o.sent = mailed[x] /\ contact[x].response = last[x]
    BY <1>1, <1>2 DEF Filing, AdminDesks
  <1>5. r \in MessageRows /\ r.status # "none" /\ r.emailed = mailed[x] /\ r.response = last[x]
    <2> HIDE DEF o, x
    <2> QED  BY <1>2, <1>4 DEF MessageRows
  <1> HIDE DEF o, x, r
  <1>6. desk[a].at # "idle" => x = desk[a].id
    BY DEF o, x
  <1>7. Leaves(Support!NoDesk, x, r, mailed[x], last[x])
    BY <1>1, <1>2, <1>3, <1>4, <1>5, <1>6, NothingFiled DEF Leaves
  <1>8. contact'[x] = r /\ mailed'[x] = mailed[x] /\ last'[x] = last[x]
    BY <1>1, <1>2, <1>3, <1>4, <1>5, <1>6 DEF SupportInv
  <1>9. /\ contact' \in [Contacts -> MessageRows] /\ mailed' \in [Contacts -> BOOLEAN]
        /\ last' \in [Contacts -> Replies \cup {""}]
        /\ \A y \in Contacts \ {x} : contact'[y] = contact[y] /\ mailed'[y] = mailed[y] /\ last'[y] = last[y]
    BY <1>1, <1>2, <1>3, <1>4, <1>5, <1>6 DEF SupportInv
  <1>10. Leaves(Support!NoDesk, x, contact'[x], mailed'[x], last'[x]) /\ contact'[x].status # "none"
    BY <1>1, <1>2, <1>3, <1>4, <1>5, <1>6, <1>7, <1>8
  <1> QED  BY <1>1, <1>2, <1>3, <1>4, <1>5, <1>6, <1>9, <1>10, NothingFiled, AdminKeeps

\* Every step keeps the invariant.
LEMMA SupportStep ==
    ASSUME AnswersAlone, SupportInv, [Support!Next]_(Support!deskVars) PROVE SupportInv'
  <1>1. CASE UNCHANGED Support!deskVars
    BY <1>1 DEF SupportInv, Support!deskVars
  <1>2. ASSUME NEW a \in Admins,
               Support!Load(a) \/ Support!UpdateStatus(a) \/ Support!SaveReply(a) \/ Support!Notify(a) \/ Support!Mail(a) \/ Support!Flag(a)
        PROVE  SupportInv'
    BY <1>2, LoadKeepsFile, UpdateStatusKeepsFile, SaveReplyKeepsFile, NotifyKeepsFile, MailKeepsFile, FlagKeepsFile
  <1> QED  BY <1>1, <1>2, CreateKeepsFile DEF Support!Next

\* Where one admin answers at a time, "responseEmailed" is about the answer that is kept
\* (respond).
THEOREM AnswersAreTold ==
    ASSUME AnswersAlone PROVE Support!Spec => []Support!FlagTellsOfTheAnswer
  <1>1. SupportInv => Support!FlagTellsOfTheAnswer
    BY DEF SupportInv, Support!FlagTellsOfTheAnswer, Support!Filed
  <1>2. SupportInv /\ [Support!Next]_(Support!deskVars) => SupportInv'
    BY SupportStep
  <1> QED  BY <1>1, <1>2, SupportInit, PTL DEF Support!Spec

-----------------------------------------------------------------------------
(* The conversation (Conversations).                                        *)

\* The instance counts a set as this module does.
LEMMA TalkCounts == \A S : Talks!Cardinality(S) = Cardinality(S)
  BY Zenon DEF Talks!Cardinality, Cardinality

\* The wait the loop carries starts at a message read so far, and at none after an answer.
LEMMA WaitingIs ==
    ASSUME NEW t \in Seq(Talks!Sides)
    PROVE  LET since == Talks!WaitingSince(t) IN
           \A i \in 0..Len(t) :
             since[i] = IF i = 0 THEN 0 ELSE IF t[i] = "organizer" THEN 0
                        ELSE IF since[i - 1] = 0 THEN i ELSE since[i - 1]
  <1> DEFINE n == Len(t)
             Run(i) == {k \in 1..i : \A m \in k..i : t[m] # "organizer"}
             Least(i) == CHOOSE k \in Run(i) : \A m \in Run(i) : k <= m
             Body(f, i) == IF i = 0 THEN 0 ELSE IF t[i] = "organizer" THEN 0
                           ELSE IF f[i - 1] = 0 THEN i ELSE f[i - 1]
             g == [i \in 0..n |-> IF i = 0 THEN 0 ELSE IF t[i] = "organizer" THEN 0 ELSE Least(i)]
             since == Talks!WaitingSince(t)
  <1>1. n \in Nat
    OBVIOUS
  <1> HIDE DEF n
  <1>2. ASSUME NEW i \in 1..n, t[i] # "organizer"
        PROVE  Least(i) \in Run(i) /\ \A m \in Run(i) : Least(i) <= m
    <2>1. i \in Run(i)
      BY <1>1, <1>2
    <2>3. \A k \in Run(i) : k \in Nat
      BY <1>1
    <2>2. Run(i) \in SUBSET Nat /\ Run(i) # {}
      BY <2>1, <2>3
    <2> HIDE DEF Run
    <2> QED  BY <2>2, Smallest
  <1>3. ASSUME NEW i \in 0..n PROVE g[i] = Body(g, i)
    <2>1. CASE i = 0
      BY <2>1
    <2>2. CASE i # 0 /\ t[i] = "organizer"
      BY <2>2
    <2>3. CASE i # 0 /\ t[i] # "organizer"
      <3>1. i \in 1..n /\ i - 1 \in 0..n /\ g[i] = Least(i)
        BY <1>1, <2>3
      <3>2. Least(i) \in Run(i) /\ \A m \in Run(i) : Least(i) <= m
        BY <1>2, <2>3, <3>1
      <3>3. CASE i - 1 = 0 \/ (i - 1 # 0 /\ t[i - 1] = "organizer")
        <4>1. g[i - 1] = 0
          BY <3>1, <3>3
        <4>2. \A k \in Run(i) : k = i
          <5> SUFFICES ASSUME NEW k \in Run(i), k # i PROVE FALSE
            OBVIOUS
          <5>1. k \in 1..i /\ i - 1 \in k..i /\ i - 1 # 0
            BY <1>1
          <5>2. t[i - 1] # "organizer"
            BY <5>1
          <5> QED  BY <3>3, <5>1, <5>2
        <4>3. Least(i) = i
          BY <3>2, <4>2
        <4> HIDE DEF g, Least
        <4> QED  BY <2>3, <3>1, <4>1, <4>3
      <3>4. CASE i - 1 # 0 /\ t[i - 1] # "organizer"
        <4>1. i - 1 \in 1..n /\ g[i - 1] = Least(i - 1)
          BY <1>1, <3>1, <3>4
        <4>2. Least(i - 1) \in Run(i - 1) /\ \A m \in Run(i - 1) : Least(i - 1) <= m
          BY <1>2, <3>4, <4>1
        <4>3. ASSUME NEW k \in Run(i - 1) PROVE k \in Run(i)
          <5>1. k \in 1..i /\ \A m \in k..i : m \in k..(i - 1) \/ m = i
            BY <1>1
          <5> QED  BY <2>3, <5>1
        <4>4. i - 1 \in Run(i - 1)
          BY <3>4, <4>1
        <4>5. ASSUME NEW k \in Run(i), k \notin Run(i - 1) PROVE k = i
          BY <1>1, <4>5
        <4>6. Least(i) = Least(i - 1)
          <5> DEFINE a == Least(i)  b == Least(i - 1)
          <5>1. b \in Run(i) /\ a <= b
            BY <3>2, <4>2, <4>3
          <5>2. b <= i - 1
            BY <4>2, <4>4
          <5>3. a # i
            <6>1. b \in Int /\ a \in Int /\ i \in Int
              BY <3>2, <4>2
            <6> HIDE DEF a, b
            <6> QED  BY <5>1, <5>2, <6>1
          <5>4. a \in Run(i - 1)
            BY <3>2, <4>5, <5>3
          <5>5. b <= a
            BY <4>2, <5>4
          <5>6. a \in Int /\ b \in Int
            BY <3>2, <4>2
          <5> HIDE DEF a, b
          <5>7. a = b
            BY <5>1, <5>5, <5>6
          <5> QED  BY <5>7 DEF a, b
        <4>7. Least(i - 1) # 0
          BY <4>2
        <4> HIDE DEF g, Least
        <4> QED  BY <2>3, <3>1, <4>1, <4>6, <4>7
      <3> QED  BY <3>3, <3>4
    <2> QED  BY <2>1, <2>2, <2>3
  <1>4. g = [i \in 0..n |-> Body(g, i)]
    <2>1. g = [i \in 0..n |-> g[i]]
      OBVIOUS
    <2> HIDE DEF g, Body
    <2> QED  BY <1>3, <2>1
  <1> HIDE DEF g
  <1>5. since = CHOOSE f : f = [i \in 0..n |-> Body(f, i)]
    BY DEF Talks!WaitingSince, n
  <1> HIDE DEF since
  <1>6. since = [i \in 0..n |-> Body(since, i)]
    BY <1>4, <1>5
  <1>7. \A i \in 0..n : since[i] = Body(since, i)
    BY <1>6
  <1> QED  BY <1>7 DEF n, since

Turns(t) == {i \in DOMAIN t : i > 1 /\ t[i] = "organizer" /\ t[i - 1] = "customer"}

\* Each answer ends one wait of at most the thread's length (recomputeReplyTime).
LEMMA WaitsAre ==
    ASSUME NEW t \in Seq(Talks!Sides)
    PROVE  DOMAIN Talks!Waits(t) = Turns(t) /\ \A j \in Turns(t) : Talks!Waits(t)[j] \in 1..Len(t)
  <1> DEFINE since == Talks!WaitingSince(t)
             n == Len(t)
  <1>1. n \in Nat /\ DOMAIN t = 1..n /\ \A i \in 1..n : t[i] \in {"customer", "organizer"}
    BY DEF Talks!Sides
  <1> HIDE DEF n
  <1>2. \A i \in 0..n : since[i] = IF i = 0 THEN 0 ELSE IF t[i] = "organizer" THEN 0
                                  ELSE IF since[i - 1] = 0 THEN i ELSE since[i - 1]
    BY WaitingIs DEF n
  <1>3. Talks!Waits(t) = [j \in {j \in 1..n : t[j] = "organizer" /\ since[j - 1] # 0} |-> j - since[j - 1]]
    BY <1>1 DEF Talks!Waits
  <1> HIDE DEF since
  <1>4. \A i \in 0..n : since[i] \in 0..i
    <2> DEFINE Bad == {i \in 0..n : since[i] \notin 0..i}
    <2> SUFFICES ASSUME Bad # {} PROVE FALSE
      OBVIOUS
    <2>0. Bad \in SUBSET Nat
      BY <1>1
    <2> HIDE DEF Bad
    <2>1. PICK i \in Bad : \A k \in Bad : i <= k
      BY <2>0, Smallest
    <2> USE DEF Bad
    <2>2. i \in 0..n /\ i # 0
      BY <1>2
    <2>3. i - 1 \in 0..n /\ i - 1 \notin Bad
      BY <1>1, <2>1, <2>2
    <2>4. since[i - 1] \in 0..(i - 1)
      BY <2>3
    <2>5. since[i] \in 0..i
      BY <1>1, <1>2, <2>2, <2>4
    <2> QED  BY <2>1, <2>5
  <1>5. \A i \in 0..n : since[i] # 0 <=> (i # 0 /\ t[i] = "customer")
    <2> TAKE i \in 0..n
    <2>1. i = 0 \/ (i \in 1..n /\ t[i] \in {"customer", "organizer"})
      BY <1>1
    <2> QED  BY <1>1, <1>2, <2>1
  <1>6. {j \in 1..n : t[j] = "organizer" /\ since[j - 1] # 0} = Turns(t)
    <2>1. \A j \in 1..n : since[j - 1] # 0 <=> (j > 1 /\ t[j - 1] = "customer")
      <3> TAKE j \in 1..n
      <3>1. j - 1 \in 0..n /\ (j - 1 # 0 <=> j > 1)
        BY <1>1
      <3> QED  BY <1>5, <3>1
    <2> QED  BY <1>1, <2>1 DEF Turns
  <1>7. ASSUME NEW j \in Turns(t) PROVE j - since[j - 1] \in 1..n
    <2>1. j \in 1..n /\ j - 1 \in 0..n
      BY <1>1 DEF Turns
    <2>2. since[j - 1] \in 0..(j - 1)
      BY <1>4, <2>1
    <2> QED  BY <1>1, <2>1, <2>2
  <1> QED  BY <1>3, <1>6, <1>7 DEF n

\* The middle of the gaps lies among them.
LEMMA MedianIs ==
    ASSUME NEW gaps, NEW n \in Nat, IsFiniteSet(DOMAIN gaps), \A j \in DOMAIN gaps : gaps[j] \in 1..n
    PROVE  /\ DOMAIN gaps = {} => Talks!Median(gaps) = 0
           /\ DOMAIN gaps # {} => Talks!Median(gaps) \in 1..n
  <1> DEFINE D == DOMAIN gaps
             k == Cardinality(D)
             s == Talks!ShortestFirst(gaps)
             mid == k \div 2
             R == {p \in D \X D : gaps[p[1]] <= gaps[p[2]]}
             Fits(f) == \A i, j \in DOMAIN f : i < j => gaps[f[i]] <= gaps[f[j]]
  <1>1. k \in Nat
    BY FS_CardinalityType
  <1>2. Orders(R, D)
    <2>1. \A x, y \in D : <<x, y>> \in R <=> gaps[x] <= gaps[y]
      OBVIOUS
    <2>2. \A x \in D : gaps[x] \in Int
      OBVIOUS
    <2> HIDE DEF R, D
    <2>3. ASSUME NEW x \in D, NEW y \in D PROVE <<x, y>> \in R \/ <<y, x>> \in R
      <3> DEFINE a == gaps[x]  b == gaps[y]
      <3>1. a \in Int /\ b \in Int
        BY <2>2
      <3> HIDE DEF a, b
      <3>2. a <= b \/ b <= a
        BY <3>1
      <3> QED  BY <3>2, <2>1 DEF a, b
    <2>4. ASSUME NEW x \in D, NEW y \in D, NEW z \in D, <<x, y>> \in R, <<y, z>> \in R PROVE <<x, z>> \in R
      <3> DEFINE a == gaps[x]  b == gaps[y]  c == gaps[z]
      <3>1. a \in Int /\ b \in Int /\ c \in Int /\ a <= b /\ b <= c
        BY <2>1, <2>2, <2>4
      <3> HIDE DEF a, b, c
      <3>2. a <= c
        BY <3>1
      <3> QED  BY <3>2, <2>1 DEF a, c
    <2> QED  BY <2>3, <2>4 DEF Orders
  <1>3. PICK f : Lists(f, D, R)
    <2> HIDE DEF D, R
    <2> QED  BY <1>2, SortExists DEF D
  <1>4. f \in Talks!Bijection(1..k, D) /\ Fits(f)
    <2>1. /\ f \in [1..k -> D]
          /\ \A i, j \in 1..k : f[i] = f[j] => i = j
          /\ \A x \in D : \E i \in 1..k : f[i] = x
          /\ \A i, j \in 1..k : i < j => <<f[i], f[j]>> \in R
      BY <1>3 DEF Lists
    <2> HIDE DEF k
    <2>2. f \in Talks!Bijection(1..k, D)
      BY <2>1 DEF Talks!Bijection, Talks!Injection, Talks!Surjection, Talks!IsInjective
    <2>3. \A i, j \in 1..k : i < j => gaps[f[i]] <= gaps[f[j]]
      BY <2>1
    <2> QED  BY <2>1, <2>2, <2>3
  <1>5. s \in Talks!Bijection(1..k, D)
    <2>1. s = CHOOSE h \in Talks!Bijection(1..k, D) : Fits(h)
      BY TalkCounts DEF Talks!ShortestFirst
    <2> HIDE DEF Fits, k, D
    <2> QED  BY <1>4, <2>1
  <1>6. Talks!Median(gaps) = IF k = 0 THEN 0 ELSE IF k % 2 = 1 THEN gaps[s[mid + 1]]
                             ELSE (gaps[s[mid]] + gaps[s[mid + 1]] + 1) \div 2
    BY TalkCounts DEF Talks!Median
  <1> HIDE DEF s
  <1>7. \A i \in 1..k : gaps[s[i]] \in 1..n
    <2>1. s \in [1..k -> D]
      BY <1>5 DEF Talks!Bijection, Talks!Injection, Talks!Surjection
    <2> QED  BY <2>1
  <1>8. k = 0 <=> D = {}
    BY FS_EmptySet
  <1> HIDE DEF k, D, mid
  <1>9. ASSUME k # 0 PROVE Talks!Median(gaps) \in 1..n
    <2>1. CASE k % 2 = 1
      <3>1. mid + 1 \in 1..k
        BY <1>1, <1>9, <2>1 DEF mid
      <3> QED  BY <1>6, <1>7, <1>9, <2>1, <3>1
    <2>2. CASE k % 2 # 1
      <3>1. mid \in 1..k /\ mid + 1 \in 1..k
        BY <1>1, <1>9, <2>2 DEF mid
      <3> DEFINE a == gaps[s[mid]]  b == gaps[s[mid + 1]]
      <3>2. a \in 1..n /\ b \in 1..n
        BY <1>7, <3>1
      <3>3. Talks!Median(gaps) = (a + b + 1) \div 2
        BY <1>6, <1>9, <2>2
      <3> HIDE DEF a, b
      <3>4. (a + b + 1) \div 2 \in 1..n
        BY <3>2
      <3> QED  BY <3>3, <3>4
    <2> QED  BY <2>1, <2>2
  <1> QED  BY <1>6, <1>8, <1>9 DEF D


\* One request at a time; and a thread that fits the page a reader is shown.
TalksAlone == \A c, d \in Callers : c = d
FitsAPage == MaxMessages <= PageSize

\* The types of a thread, its badges, its screens, the boxes, the profile, what was lost and a request.
Threads == {t \in Seq(Talks!Sides) : Len(t) <= MaxMessages}
Unread == [Talks!Sides -> Nat]
Screens(t) == [Talks!Sides -> SUBSET DOMAIN t]
Boxes == [Talks!Sides -> [Talks!Kinds -> Nat]]
Profiles == [median : Nat, samples : Nat]
Losts(t) == [badges : SUBSET DOMAIN t, refresh : BOOLEAN]
TalkDesks == [at : {"idle", "page", "read", "badge", "wants", "replace", "create", "measure", "store"},
              side : Talks!Sides, unread : Nat, kind : Talks!Kinds, sent : BOOLEAN, upto : Nat,
              median : Nat, samples : Nat]

Unshown(t, s, sn, gone) == {i \in DOMAIN t : t[i] = Talks!Other[s] /\ i \notin sn[s] /\ i \notin gone}

\* A badge counts what was not shown and not lost, but for the message just sent; and a
\* reader has the page, and the copy of his badge, that the answer will be made of.
BadgeFits(d, t, u, sn, gone) ==
    /\ FitsAPage => \A s \in Talks!Sides :
         LET n == Cardinality(Unshown(t, s, sn, gone)) IN
         IF d.at = "badge" /\ s = Talks!Other[d.side] THEN n = u[s] + 1 ELSE n = u[s]
    /\ d.at \in {"page", "read"} => d.unread = u[d.side]
    /\ d.at = "read" => d.upto \in 0..Len(t) /\ (FitsAPage => d.upto = Len(t))
    /\ d.at = "badge" => /\ d.upto \in DOMAIN t /\ t[d.upto] = d.side
                         /\ d.upto \notin gone /\ d.upto \notin sn[Talks!Other[d.side]]

\* The answers among the messages that are measured, and what a reply time says of them.
Counted(t) == {i \in Turns(t) : i <= REPLY_MESSAGE_LIMIT}
Tells(m, k, t) == k = Cardinality(Counted(t)) /\ (Counted(t) # {} => m \in 1..Len(t))

\* The profile tells of the thread unless a refresh is on its way, or the last one due was lost.
TimeFits(d, t, p, late) ==
    /\ ~Talks!RefreshIsDue(d) /\ ~late => Tells(p.median, p.samples, t)
    /\ d.at = "store" => Tells(d.median, d.samples, t)

NoticeFits(d, box) ==
    /\ \A s \in Talks!Sides, k \in Talks!Kinds : box[s][k] <= 1
    /\ d.at = "create" => box[d.side][d.kind] = 0

TalkFits(d, t, u, sn, p, box, l) ==
    BadgeFits(d, t, u, sn, l.badges) /\ TimeFits(d, t, p, l.refresh) /\ NoticeFits(d, box)

TalkTypes(t, u, sn, p, box, l) ==
    t \in Threads /\ u \in Unread /\ sn \in Screens(t) /\ p \in Profiles /\ box \in Boxes /\ l \in Losts(t)

\* The inductive invariant of a conversation.
TalkInv ==
    /\ TalkTypes(thread, conv.unread, seen, profile, inbox, lost) /\ desk \in [Callers -> TalkDesks]
    /\ conv \in [exists : BOOLEAN, unread : Unread]
    /\ \A c \in Callers : TalkFits(desk[c], thread, conv.unread, seen, profile, inbox, lost)
    /\ Callers = {} => TalkFits(Talks!NoDesk, thread, conv.unread, seen, profile, inbox, lost)

\* There are two sides.
LEMMA SidesAre ==
    /\ Talks!Sides = {"customer", "organizer"} /\ Talks!Other["customer"] = "organizer"
    /\ Talks!Other["organizer"] = "customer" /\ Talks!Kinds = {"message", "quote"}
    /\ \A s \in Talks!Sides : Talks!Other[s] \in Talks!Sides /\ Talks!Other[s] # s /\ Talks!Other[Talks!Other[s]] = s
  BY DEF Talks!Sides, Talks!Other, Talks!Kinds

\* A request at rest names nothing.
LEMMA NobodyTalks ==
    /\ Talks!NoDesk \in TalkDesks /\ Talks!NoDesk.at = "idle" /\ Talks!NoDesk.sent = FALSE /\ Talks!NoDesk.kind = "message"
    /\ Talks!NoDesk.side = "customer"
  BY SidesAre DEF Talks!NoDesk, TalkDesks

\* What was not shown can be counted.
LEMMA UnshownFinite ==
    ASSUME NEW t \in Seq(Talks!Sides), NEW s, NEW sn, NEW gone
    PROVE  /\ IsFiniteSet(Unshown(t, s, sn, gone)) /\ Cardinality(Unshown(t, s, sn, gone)) \in Nat
           /\ IsFiniteSet(Counted(t)) /\ Cardinality(Counted(t)) \in Nat
  <1>1. Len(t) \in Nat /\ DOMAIN t = 1..Len(t) /\ 1 \in Int
    OBVIOUS
  <1>2. IsFiniteSet(1..Len(t))
    BY <1>1, FS_Interval
  <1>3. Unshown(t, s, sn, gone) \subseteq 1..Len(t) /\ Counted(t) \subseteq 1..Len(t)
    BY <1>1 DEF Unshown, Turns, Counted
  <1> QED  BY <1>2, <1>3, FS_Subset, FS_CardinalityType

\* The measured messages are a thread, whose answers are the counted ones.
LEMMA MeasuredIs ==
    ASSUME NEW t \in Seq(Talks!Sides), REPLY_MESSAGE_LIMIT \in Nat
    PROVE  LET m == Talks!Measured(t) IN
           m \in Seq(Talks!Sides) /\ Len(m) \in 0..Len(t) /\ Turns(m) = Counted(t)
  <1> DEFINE m == Talks!Measured(t)
             n == IF Len(t) < REPLY_MESSAGE_LIMIT THEN Len(t) ELSE REPLY_MESSAGE_LIMIT
  <1>1. /\ Len(t) \in Nat /\ DOMAIN t = 1..Len(t) /\ n \in 0..Len(t)
        /\ \A i \in 1..Len(t) : i \in 1..n <=> i <= REPLY_MESSAGE_LIMIT
    OBVIOUS
  <1>2. m = SubSeq(t, 1, n)
    BY DEF Talks!Measured
  <1>3. m \in Seq(Talks!Sides) /\ Len(m) = n /\ DOMAIN m = 1..n /\ \A i \in 1..n : m[i] = t[i]
    <2> HIDE DEF m, n
    <2> QED  BY <1>1, <1>2
  <1> HIDE DEF m, n
  <1>4. \A i \in 1..n : i > 1 => i - 1 \in 1..n
    BY <1>1
  <1>5. Turns(m) = Counted(t)
    BY <1>1, <1>3, <1>4 DEF Turns, Counted
  <1> QED  BY <1>1, <1>3, <1>5 DEF m

\* A message adds one to what the other side was not shown.
LEMMA SentIsUnshown ==
    ASSUME NEW t \in Seq(Talks!Sides), NEW s \in Talks!Sides, NEW sn \in Screens(t), NEW l \in Losts(t)
    PROVE  LET o == Talks!Other[s]  n == Len(t) + 1 IN
           /\ Append(t, s) \in Seq(Talks!Sides) /\ sn \in Screens(Append(t, s)) /\ l \in Losts(Append(t, s))
           /\ n \in DOMAIN Append(t, s) /\ Append(t, s)[n] = s /\ n \notin l.badges /\ n \notin sn[o]
           /\ Cardinality(Unshown(Append(t, s), o, sn, l.badges)) = Cardinality(Unshown(t, o, sn, l.badges)) + 1
           /\ Unshown(Append(t, s), s, sn, l.badges) = Unshown(t, s, sn, l.badges)
           /\ s = "customer" => Counted(Append(t, s)) = Counted(t)
  <1> DEFINE t2 == Append(t, s)
             n == Len(t)
             o == Talks!Other[s]
             gone == l.badges
  <1>1. /\ n \in Nat /\ DOMAIN t = 1..n /\ t2 \in Seq(Talks!Sides) /\ Len(t2) = n + 1 /\ DOMAIN t2 = 1..(n + 1)
        /\ \A i \in 1..n : t2[i] = t[i]
        /\ t2[n + 1] = s
    OBVIOUS
  <1>2. \A i : i \in 1..(n + 1) <=> i \in 1..n \/ i = n + 1
    BY <1>1
  <1>3. /\ sn \in Screens(t2) /\ n + 1 \notin sn[s] /\ n + 1 \notin sn[o]
        /\ l \in Losts(t2) /\ n + 1 \notin gone
    <2>1. gone \subseteq 1..n /\ \A x \in Talks!Sides : sn[x] \subseteq 1..n
      BY <1>1 DEF Screens, Losts
    <2>2. n + 1 \notin 1..n
      BY <1>1
    <2>3. sn \in Screens(t2) /\ l \in Losts(t2)
      BY <1>1, <1>2 DEF Screens, Losts
    <2> QED  BY <2>1, <2>2, <2>3, SidesAre
  <1>4. o \in Talks!Sides /\ o # s /\ Talks!Other[o] = s
    BY SidesAre
  <1> HIDE DEF t2, n, o, gone
  <1>5. Unshown(t2, o, sn, gone) = Unshown(t, o, sn, gone) \cup {n + 1} /\ n + 1 \notin Unshown(t, o, sn, gone)
    BY <1>1, <1>2, <1>3, <1>4 DEF Unshown
  <1>6. Cardinality(Unshown(t2, o, sn, gone)) = Cardinality(Unshown(t, o, sn, gone)) + 1
    BY <1>5, UnshownFinite, FS_AddElement
  <1>7. Unshown(t2, s, sn, gone) = Unshown(t, s, sn, gone)
    BY <1>1, <1>2, <1>4 DEF Unshown, o
  <1>8. ASSUME s = "customer" PROVE Counted(t2) = Counted(t)
    <2>1. \A i \in 1..n : i > 1 => i - 1 \in 1..n
      BY <1>1
    <2> QED  BY <1>1, <1>2, <1>8, <2>1 DEF Turns, Counted
  <1>9. n + 1 \in DOMAIN t2
    BY <1>1
  <1> QED  BY <1>1, <1>3, <1>6, <1>7, <1>8, <1>9 DEF t2, o, n, gone

\* No conversation satisfies the invariant.
LEMMA TalkInit == ASSUME Talks!Init, MaxMessages \in Nat PROVE TalkInv
  <1> DEFINE u == [s \in Talks!Sides |-> 0]
             sn == [s \in Talks!Sides |-> {}]
             p == [median |-> 0, samples |-> 0]
             box == [s \in Talks!Sides |-> [k \in Talks!Kinds |-> 0]]
             l == [badges |-> {}, refresh |-> FALSE]
             t == <<>>
  <1>1. /\ thread = t /\ conv = [exists |-> FALSE, unread |-> u] /\ profile = p /\ inbox = box
        /\ desk = [c \in Callers |-> Talks!NoDesk] /\ seen = sn /\ lost = l
    BY DEF Talks!Init
  <1>2. conv.unread = u
    BY <1>1
  <1>3. t \in Threads /\ u \in Unread /\ p \in Profiles /\ box \in Boxes
    BY DEF Threads, Unread, Profiles, Boxes
  <1>4. sn \in Screens(t) /\ l \in Losts(t)
    BY DEF Screens, Losts
  <1>5. \A s : Unshown(t, s, sn, l.badges) = {} /\ Counted(t) = {} /\ Cardinality({}) = 0
    BY FS_EmptySet DEF Unshown, Turns, Counted
  <1>6. BadgeFits(Talks!NoDesk, t, u, sn, l.badges)
    <2> HIDE DEF t, sn, l
    <2> QED  BY <1>5, NobodyTalks DEF BadgeFits
  <1>7. TimeFits(Talks!NoDesk, t, p, l.refresh) /\ NoticeFits(Talks!NoDesk, box)
    <2>1. NoticeFits(Talks!NoDesk, box)
      BY NobodyTalks DEF NoticeFits
    <2>2. p.median = 0 /\ p.samples = 0
      OBVIOUS
    <2> HIDE DEF p, t, l
    <2>3. Tells(p.median, p.samples, t)
      BY <1>5, <2>2 DEF Tells
    <2>4. TimeFits(Talks!NoDesk, t, p, l.refresh)
      BY <2>3, NobodyTalks DEF TimeFits
    <2> QED  BY <2>1, <2>4
  <1> HIDE DEF t, u, sn, p, box, l
  <1>8. TalkFits(Talks!NoDesk, t, u, sn, p, box, l)
    BY <1>6, <1>7 DEF TalkFits
  <1>9. TalkTypes(t, u, sn, p, box, l)
    BY <1>3, <1>4 DEF TalkTypes
  <1>10. conv \in [exists : BOOLEAN, unread : Unread] /\ desk \in [Callers -> TalkDesks]
         /\ \A c \in Callers : desk[c] = Talks!NoDesk
    BY <1>1, <1>3, NobodyTalks
  <1> QED  BY <1>1, <1>2, <1>8, <1>9, <1>10 DEF TalkInv

\* A step of the one request at work.
LEMMA TalkKeeps ==
    ASSUME TalkInv, TalksAlone, NEW c \in Callers, NEW d \in TalkDesks, desk' = [desk EXCEPT ![c] = d],
           conv' \in [exists : BOOLEAN, unread : Unread],
           TalkTypes(thread', conv'.unread, seen', profile', inbox', lost'),
           TalkFits(d, thread', conv'.unread, seen', profile', inbox', lost')
    PROVE  TalkInv'
  <1>1. desk' \in [Callers -> TalkDesks] /\ \A b \in Callers : desk'[b] = d
    BY DEF TalkInv, TalksAlone
  <1> QED  BY <1>1 DEF TalkInv

\* What the invariant says of one request.
LEMMA TalkIs ==
    ASSUME TalkInv, NEW c \in Callers
    PROVE  /\ desk[c] \in TalkDesks /\ conv \in [exists : BOOLEAN, unread : Unread]
           /\ thread \in Threads /\ thread \in Seq(Talks!Sides) /\ Len(thread) <= MaxMessages
           /\ conv.unread \in Unread /\ seen \in Screens(thread) /\ lost \in Losts(thread)
           /\ profile \in Profiles /\ inbox \in Boxes
           /\ BadgeFits(desk[c], thread, conv.unread, seen, lost.badges)
           /\ TimeFits(desk[c], thread, profile, lost.refresh) /\ NoticeFits(desk[c], inbox)
           /\ desk = [desk EXCEPT ![c] = desk[c]]
  BY DEF TalkInv, TalkTypes, TalkFits, Threads

\* A conversation is opened.
LEMMA OpenKeepsTalk ==
    ASSUME TalkInv, TalksAlone, NEW c \in Callers, Talks!OpenWithOrganizer(c) PROVE TalkInv'
  <1>1. /\ conv' = [conv EXCEPT !.exists = TRUE] /\ thread' = thread /\ profile' = profile /\ inbox' = inbox
        /\ desk' = desk /\ seen' = seen /\ lost' = lost
    BY DEF Talks!OpenWithOrganizer
  <1>2. conv' \in [exists : BOOLEAN, unread : Unread] /\ conv'.unread = conv.unread
    BY <1>1 DEF TalkInv
  <1> QED  BY <1>1, <1>2 DEF TalkInv

\* A reader loads the conversation ...
LEMMA LoadKeepsTalk ==
    ASSUME TalkInv, TalksAlone, NEW c \in Callers, Talks!LoadThread(c) PROVE TalkInv'
  <1> DEFINE f(s) == [Talks!NoDesk EXCEPT !.at = "page", !.side = s, !.unread = conv.unread[s]]
  <1>1. PICK s \in Talks!Sides : desk' = [desk EXCEPT ![c] = f(s)]
    BY DEF Talks!LoadThread, Talks!Goto
  <1>2. desk[c].at = "idle" /\ conv' = conv /\ thread' = thread /\ profile' = profile /\ inbox' = inbox /\ seen' = seen /\ lost' = lost
    BY DEF Talks!LoadThread, Talks!At
  <1> DEFINE d == f(s)
  <1>3. d \in TalkDesks /\ d.at = "page" /\ d.side = s /\ d.unread = conv.unread[s]
    BY NobodyTalks, TalkIs DEF TalkDesks, Unread
  <1> HIDE DEF d, f
  <1>4. BadgeFits(d, thread, conv.unread, seen, lost.badges) /\ TimeFits(d, thread, profile, lost.refresh) /\ NoticeFits(d, inbox)
    BY <1>2, <1>3, TalkIs DEF BadgeFits, TimeFits, NoticeFits, Talks!RefreshIsDue
  <1>5. desk' = [desk EXCEPT ![c] = d]
    BY <1>1 DEF d
  <1> QED  BY <1>2, <1>3, <1>4, <1>5, TalkIs, TalkKeeps DEF TalkFits, TalkTypes

\* ... reads a page of it, the oldest ...
LEMMA MessagesKeepTalk ==
    ASSUME TalkInv, TalksAlone, Talks!ConversationsAssumption, NEW c \in Callers, Talks!Messages(c)
    PROVE  TalkInv'
  <1> DEFINE o == desk[c]
             k == IF Len(thread) < PageSize THEN Len(thread) ELSE PageSize
             d == [o EXCEPT !.at = "read", !.upto = k]
  <1>1. /\ o.at = "page" /\ conv' = conv /\ thread' = thread /\ profile' = profile /\ inbox' = inbox
        /\ seen' = seen /\ lost' = lost /\ desk' = [desk EXCEPT ![c] = d]
    BY DEF Talks!Messages, Talks!At, Talks!Goto
  <1>2. k \in 0..Len(thread) /\ k \in Nat /\ (FitsAPage => k = Len(thread))
    <2>1. thread \in Seq(Talks!Sides) /\ Len(thread) <= MaxMessages /\ MaxMessages \in Nat /\ PageSize \in Nat
      BY TalkIs DEF Talks!ConversationsAssumption
    <2>2. Len(thread) \in Nat
      BY <2>1
    <2> QED  BY <2>1, <2>2 DEF FitsAPage
  <1> HIDE DEF k
  <1>3. /\ o \in TalkDesks /\ d \in TalkDesks /\ d.at = "read" /\ d.side = o.side /\ d.unread = o.unread
        /\ d.upto = k
    BY <1>2, TalkIs DEF TalkDesks
  <1>4. /\ BadgeFits(o, thread, conv.unread, seen, lost.badges) /\ TimeFits(o, thread, profile, lost.refresh)
        /\ NoticeFits(o, inbox)
    BY TalkIs
  <1> HIDE DEF d, o
  <1>5. BadgeFits(d, thread, conv.unread, seen, lost.badges)
    BY <1>1, <1>2, <1>3, <1>4 DEF BadgeFits
  <1>6. TimeFits(d, thread, profile, lost.refresh) /\ NoticeFits(d, inbox)
    BY <1>1, <1>3, <1>4 DEF TimeFits, NoticeFits, Talks!RefreshIsDue
  <1> QED  BY <1>1, <1>3, <1>5, <1>6, TalkIs, TalkKeeps DEF TalkFits, TalkTypes

\* ... clears its own badge, and is shown the page.
LEMMA MarkReadKeepsTalk ==
    ASSUME TalkInv, TalksAlone, NEW c \in Callers, Talks!MarkRead(c) PROVE TalkInv'
  <1> DEFINE o == desk[c]
             s == o.side
             d == Talks!NoDesk
             cv == IF o.unread = 0 THEN conv ELSE [conv EXCEPT !.unread[s] = 0]
             u == conv.unread
             gone == lost.badges
             sn == [seen EXCEPT ![s] = @ \cup 1..o.upto]
  <1>1. /\ o.at = "read" /\ conv' = cv /\ thread' = thread /\ profile' = profile /\ inbox' = inbox
        /\ seen' = sn /\ lost' = lost /\ desk' = [desk EXCEPT ![c] = d]
    BY DEF Talks!MarkRead, Talks!Show, Talks!At, Talks!Goto, Talks!Done
  <1>2. o \in TalkDesks /\ s \in Talks!Sides
    BY TalkIs DEF TalkDesks
  <1>3. /\ BadgeFits(o, thread, u, seen, gone) /\ TimeFits(o, thread, profile, lost.refresh)
        /\ NoticeFits(o, inbox) /\ u \in Unread
    BY TalkIs
  <1>4. /\ cv \in [exists : BOOLEAN, unread : Unread] /\ cv.unread \in Unread
        /\ cv.unread[s] = 0 /\ \A x \in Talks!Sides \ {s} : cv.unread[x] = u[x]
    <2>1. o.unread = u[s]
      BY <1>1, <1>3 DEF BadgeFits
    <2>2. CASE o.unread = 0
      BY <2>1, <2>2, TalkIs
    <2>3. CASE o.unread # 0
      <3> HIDE DEF o, s
      <3> QED  BY <1>2, <2>3, TalkIs DEF Unread, o
    <2> QED  BY <2>2, <2>3
  <1>5. /\ sn \in Screens(thread) /\ (FitsAPage => sn[s] = DOMAIN thread)
        /\ \A x \in Talks!Sides \ {s} : sn[x] = seen[x]
    <2>1. /\ thread \in Seq(Talks!Sides) /\ DOMAIN thread = 1..Len(thread) /\ Len(thread) \in Nat
          /\ seen \in Screens(thread)
      BY TalkIs
    <2>2. o.upto \in 0..Len(thread) /\ (FitsAPage => o.upto = Len(thread))
      BY <1>1, <1>3 DEF BadgeFits
    <2>3. 1..o.upto \subseteq DOMAIN thread
      BY <2>1, <2>2
    <2> HIDE DEF o, s
    <2> QED  BY <1>2, <2>1, <2>2, <2>3 DEF Screens
  <1> HIDE DEF cv, o, s, u, sn, gone
  <1>6. /\ FitsAPage => Cardinality(Unshown(thread, s, sn, gone)) = 0
        /\ \A x \in Talks!Sides \ {s} : Unshown(thread, x, sn, gone) = Unshown(thread, x, seen, gone)
    <2>1. FitsAPage => Unshown(thread, s, sn, gone) = {}
      BY <1>5 DEF Unshown
    <2> QED  BY <1>5, <2>1, FS_EmptySet DEF Unshown
  <1>7. BadgeFits(d, thread, cv.unread, sn, gone)
    BY <1>1, <1>2, <1>3, <1>4, <1>6, NobodyTalks DEF BadgeFits, s
  <1>8. TimeFits(d, thread, profile, lost.refresh) /\ NoticeFits(d, inbox)
    BY <1>1, <1>3, NobodyTalks DEF TimeFits, NoticeFits, Talks!RefreshIsDue
  <1> QED  BY <1>1, <1>4, <1>5, <1>7, <1>8, NobodyTalks, TalkIs, TalkKeeps DEF TalkFits, TalkTypes, gone

\* A message is sent ...
LEMMA SendKeepsTalk ==
    ASSUME TalkInv, TalksAlone, MaxMessages \in Nat, NEW c \in Callers, Talks!Send(c) PROVE TalkInv'
  <1> DEFINE k == Len(thread) + 1
             f(x) == [Talks!NoDesk EXCEPT !.at = "badge", !.side = x, !.upto = k]
             u == conv.unread
             gone == lost.badges
  <1>1. PICK s \in Talks!Sides : thread' = Append(thread, s) /\ desk' = [desk EXCEPT ![c] = f(s)]
    BY DEF Talks!Send, Talks!Goto
  <1>2. /\ desk[c].at = "idle" /\ Len(thread) < MaxMessages /\ conv' = conv /\ profile' = profile
        /\ inbox' = inbox /\ seen' = seen /\ lost' = lost
    BY DEF Talks!Send, Talks!At
  <1> DEFINE d == f(s)
             t2 == Append(thread, s)
  <1>4. /\ thread \in Seq(Talks!Sides) /\ Len(thread) \in Nat /\ seen \in Screens(thread) /\ u \in Unread
        /\ profile \in Profiles /\ lost \in Losts(thread)
        /\ BadgeFits(desk[c], thread, u, seen, gone) /\ TimeFits(desk[c], thread, profile, lost.refresh)
        /\ NoticeFits(desk[c], inbox)
    BY TalkIs
  <1>3. d \in TalkDesks /\ d.at = "badge" /\ d.side = s /\ d.upto = k
    <2>1. k \in Nat
      BY <1>4
    <2> HIDE DEF k
    <2> QED  BY <2>1, NobodyTalks DEF TalkDesks
  <1>5. /\ t2 \in Seq(Talks!Sides) /\ seen \in Screens(t2) /\ lost \in Losts(t2)
        /\ k \in DOMAIN t2 /\ t2[k] = s /\ k \notin gone /\ k \notin seen[Talks!Other[s]]
        /\ Cardinality(Unshown(t2, Talks!Other[s], seen, gone)) = Cardinality(Unshown(thread, Talks!Other[s], seen, gone)) + 1
        /\ Unshown(t2, s, seen, gone) = Unshown(thread, s, seen, gone)
        /\ s = "customer" => Counted(t2) = Counted(thread)
    BY <1>4, SentIsUnshown
  <1>6. Len(t2) = Len(thread) + 1 /\ t2 \in Threads
    BY <1>2, <1>4, <1>5 DEF Threads
  <1>7. thread' = t2 /\ desk' = [desk EXCEPT ![c] = d]
    BY <1>1
  <1> HIDE DEF d, f, t2, u, k, gone
  <1>8. FitsAPage => \A x \in Talks!Sides : Cardinality(Unshown(thread, x, seen, gone)) = u[x]
    BY <1>2, <1>4 DEF BadgeFits
  <1>9. BadgeFits(d, t2, u, seen, gone)
    <2>1. \A x \in Talks!Sides : x = s \/ x = Talks!Other[s]
      BY SidesAre
    <2>2. Talks!Other[s] \in Talks!Sides /\ Talks!Other[s] # s
      BY SidesAre
    <2> QED  BY <1>3, <1>5, <1>8, <2>1, <2>2 DEF BadgeFits
  <1>10. NoticeFits(d, inbox)
    BY <1>3, <1>4 DEF NoticeFits
  <1>11. TimeFits(d, t2, profile, lost.refresh)
    <2>1. CASE s = "organizer"
      BY <1>3, <2>1 DEF TimeFits, Talks!RefreshIsDue
    <2>2. CASE s = "customer"
      <3>1. ~lost.refresh => Tells(profile.median, profile.samples, thread)
        BY <1>2, <1>4 DEF TimeFits, Talks!RefreshIsDue
      <3>2. ~lost.refresh => Tells(profile.median, profile.samples, t2)
        BY <1>4, <1>5, <1>6, <2>2, <3>1 DEF Tells
      <3> QED  BY <1>3, <3>2 DEF TimeFits
    <2> QED  BY <2>1, <2>2, SidesAre
  <1>12. TalkTypes(t2, u, seen, profile, inbox, lost)
    BY <1>4, <1>5, <1>6, TalkIs DEF TalkTypes
  <1> QED  BY <1>2, <1>3, <1>7, <1>9, <1>10, <1>11, <1>12, TalkIs, TalkKeeps DEF TalkFits, u, gone

\* ... the other side's badge grows ...
LEMMA BadgeKeepsTalk ==
    ASSUME TalkInv, TalksAlone, NEW c \in Callers, Talks!Badge(c) PROVE TalkInv'
  <1> DEFINE o == desk[c]
             s == o.side
             x == Talks!Other[s]
             u == conv.unread
             cv == [conv EXCEPT !.unread[x] = @ + 1]
             d == [o EXCEPT !.at = "replace", !.side = x, !.sent = TRUE, !.upto = 0]
  <1>1. o.at = "badge" /\ thread' = thread /\ profile' = profile /\ inbox' = inbox /\ seen' = seen /\ lost' = lost
    BY DEF Talks!Badge, Talks!At
  <1>2. desk' = [desk EXCEPT ![c] = d] /\ conv' = cv
    BY DEF Talks!Badge, Talks!Goto
  <1>3. o \in TalkDesks /\ s \in Talks!Sides /\ x \in Talks!Sides /\ x # s /\ conv \in [exists : BOOLEAN, unread : Unread]
    BY TalkIs, SidesAre DEF TalkDesks
  <1>4. d \in TalkDesks /\ d.at = "replace" /\ d.side = x /\ d.sent = TRUE
    BY <1>3 DEF TalkDesks
  <1>5. BadgeFits(o, thread, u, seen, lost.badges) /\ TimeFits(o, thread, profile, lost.refresh) /\ NoticeFits(o, inbox) /\ u \in Unread
    BY TalkIs
  <1>6. /\ cv \in [exists : BOOLEAN, unread : Unread] /\ cv.unread \in Unread
        /\ cv.unread[x] = u[x] + 1 /\ \A y \in Talks!Sides \ {x} : cv.unread[y] = u[y]
    <2> HIDE DEF x
    <2> QED  BY <1>3, <1>5 DEF Unread
  <1>7. (s = "organizer" <=> x = "customer")
    BY <1>3, SidesAre
  <1>8. x = Talks!Other[o.side]
    OBVIOUS
  <1>9. s = o.side
    OBVIOUS
  <1> HIDE DEF d, cv, x, u, s, o
  <1>10. BadgeFits(d, thread, cv.unread, seen, lost.badges)
    BY <1>1, <1>4, <1>5, <1>6, <1>8 DEF BadgeFits
  <1>11. TimeFits(d, thread, profile, lost.refresh) /\ NoticeFits(d, inbox)
    BY <1>1, <1>4, <1>5, <1>7, <1>9 DEF TimeFits, NoticeFits, Talks!RefreshIsDue
  <1> QED  BY <1>1, <1>2, <1>4, <1>6, <1>10, <1>11, TalkIs, TalkKeeps DEF TalkFits, TalkTypes

\* ... and it is told.
LEMMA NotifyKeepsTalk ==
    ASSUME TalkInv, TalksAlone, NEW c \in Callers, Talks!Notify(c) PROVE TalkInv'
  <1> DEFINE f(s) == [Talks!NoDesk EXCEPT !.at = "wants", !.side = s, !.kind = "quote"]
  <1>1. PICK s \in Talks!Sides : desk' = [desk EXCEPT ![c] = f(s)]
    BY DEF Talks!Notify, Talks!Goto
  <1>2. desk[c].at = "idle" /\ conv' = conv /\ thread' = thread /\ profile' = profile /\ inbox' = inbox /\ seen' = seen /\ lost' = lost
    BY DEF Talks!Notify, Talks!At
  <1> DEFINE d == f(s)
  <1>3. d \in TalkDesks /\ d.at = "wants" /\ d.side = s
    BY NobodyTalks, SidesAre DEF TalkDesks
  <1>5. desk' = [desk EXCEPT ![c] = d]
    BY <1>1
  <1> HIDE DEF d, f
  <1>4. BadgeFits(d, thread, conv.unread, seen, lost.badges) /\ TimeFits(d, thread, profile, lost.refresh) /\ NoticeFits(d, inbox)
    BY <1>2, <1>3, TalkIs DEF BadgeFits, TimeFits, NoticeFits, Talks!RefreshIsDue
  <1> QED  BY <1>2, <1>3, <1>4, <1>5, TalkIs, TalkKeeps DEF TalkFits, TalkTypes

\* A notice goes out if it is wanted ...
LEMMA WantsKeepsTalk ==
    ASSUME TalkInv, TalksAlone, NEW c \in Callers, Talks!Wants(c) PROVE TalkInv'
  <1> DEFINE o == desk[c]
             r == [o EXCEPT !.at = "replace"]
  <1>1. o.at = "wants" /\ conv' = conv /\ thread' = thread /\ profile' = profile /\ inbox' = inbox /\ seen' = seen /\ lost' = lost
    BY DEF Talks!Wants, Talks!At
  <1>2. PICK d \in {Talks!NoDesk, r} : desk' = [desk EXCEPT ![c] = d]
    BY DEF Talks!Wants, Talks!Goto, Talks!Done
  <1>3. o \in TalkDesks /\ BadgeFits(o, thread, conv.unread, seen, lost.badges) /\ TimeFits(o, thread, profile, lost.refresh) /\ NoticeFits(o, inbox)
    BY TalkIs
  <1>4. d \in TalkDesks /\ d.at \in {"idle", "replace"}
    BY <1>2, <1>3, NobodyTalks DEF TalkDesks
  <1> HIDE DEF o, r
  <1>5. BadgeFits(d, thread, conv.unread, seen, lost.badges) /\ TimeFits(d, thread, profile, lost.refresh) /\ NoticeFits(d, inbox)
    BY <1>1, <1>3, <1>4 DEF BadgeFits, TimeFits, NoticeFits, Talks!RefreshIsDue
  <1> QED  BY <1>1, <1>2, <1>4, <1>5, TalkIs, TalkKeeps DEF TalkFits, TalkTypes

\* ... the one about the same thing is taken away ...
LEMMA ReplaceKeepsTalk ==
    ASSUME TalkInv, TalksAlone, NEW c \in Callers, Talks!Replace(c) PROVE TalkInv'
  <1> DEFINE o == desk[c]
             d == [o EXCEPT !.at = "create"]
             box == [inbox EXCEPT ![o.side][o.kind] = 0]
  <1>1. o.at = "replace" /\ conv' = conv /\ thread' = thread /\ profile' = profile /\ inbox' = box /\ seen' = seen /\ lost' = lost
    BY DEF Talks!Replace, Talks!At
  <1>2. desk' = [desk EXCEPT ![c] = d]
    BY DEF Talks!Replace, Talks!Goto
  <1>3. /\ o \in TalkDesks /\ BadgeFits(o, thread, conv.unread, seen, lost.badges) /\ TimeFits(o, thread, profile, lost.refresh)
        /\ NoticeFits(o, inbox) /\ inbox \in Boxes
    BY TalkIs
  <1>4. /\ d \in TalkDesks /\ d.at = "create" /\ d.side = o.side /\ d.kind = o.kind /\ d.sent = o.sent
        /\ o.side \in Talks!Sides /\ o.kind \in Talks!Kinds
    BY <1>3 DEF TalkDesks
  <1> HIDE DEF o, d
  <1>5. box \in Boxes /\ NoticeFits(d, box)
    BY <1>3, <1>4 DEF Boxes, NoticeFits
  <1> HIDE DEF box
  <1>6. BadgeFits(d, thread, conv.unread, seen, lost.badges) /\ TimeFits(d, thread, profile, lost.refresh)
    BY <1>1, <1>3, <1>4 DEF BadgeFits, TimeFits, Talks!RefreshIsDue
  <1> QED  BY <1>1, <1>2, <1>4, <1>5, <1>6, TalkIs, TalkKeeps DEF TalkFits, TalkTypes

\* Where a request goes after the notice of a message, or of a quote.
LEMMA AfterNoticeFits ==
    ASSUME TalkInv, NEW c \in Callers, Talks!AfterNotice(c), desk[c].at \in {"replace", "create"}
    PROVE  \E d \in TalkDesks :
             /\ desk' = [desk EXCEPT ![c] = d] /\ d.at \in {"measure", "idle"}
             /\ BadgeFits(d, thread, conv.unread, seen, lost.badges) /\ TimeFits(d, thread, profile, lost.refresh)
  <1> DEFINE o == desk[c]
             m == [o EXCEPT !.at = "measure"]
             d == IF o.sent /\ o.side = "customer" THEN m ELSE Talks!NoDesk
  <1>1. o \in TalkDesks /\ BadgeFits(o, thread, conv.unread, seen, lost.badges) /\ TimeFits(o, thread, profile, lost.refresh)
    BY TalkIs
  <1>2. desk' = [desk EXCEPT ![c] = d]
    BY DEF Talks!AfterNotice, Talks!Goto, Talks!Done
  <1>3. d \in TalkDesks /\ d.at = IF o.sent /\ o.side = "customer" THEN "measure" ELSE "idle"
    BY <1>1, NobodyTalks DEF TalkDesks
  <1>4. o.at \in {"replace", "create"}
    OBVIOUS
  <1> HIDE DEF o, m, d
  <1>5. BadgeFits(d, thread, conv.unread, seen, lost.badges)
    BY <1>1, <1>3, <1>4 DEF BadgeFits
  <1>6. TimeFits(d, thread, profile, lost.refresh)
    <2>1. CASE o.sent /\ o.side = "customer"
      BY <2>1, <1>3 DEF TimeFits, Talks!RefreshIsDue
    <2>2. CASE ~(o.sent /\ o.side = "customer")
      BY <2>2, <1>1, <1>3, <1>4 DEF TimeFits, Talks!RefreshIsDue
    <2> QED  BY <2>1, <2>2
  <1> QED  BY <1>2, <1>3, <1>5, <1>6

\* ... and the new one put in ...
LEMMA CreateNoticeKeepsTalk ==
    ASSUME TalkInv, TalksAlone, NEW c \in Callers, Talks!CreateNotice(c) PROVE TalkInv'
  <1> DEFINE o == desk[c]
             more == [inbox EXCEPT ![o.side][o.kind] = @ + 1]
  <1>1. o.at = "create" /\ conv' = conv /\ thread' = thread /\ profile' = profile /\ seen' = seen /\ lost' = lost
        /\ inbox' = more /\ Talks!AfterNotice(c)
    BY DEF Talks!CreateNotice, Talks!At
  <1>2. o \in TalkDesks /\ NoticeFits(o, inbox) /\ inbox \in Boxes /\ o.side \in Talks!Sides /\ o.kind \in Talks!Kinds
    BY TalkIs DEF TalkDesks
  <1>3. more \in Boxes /\ \A s \in Talks!Sides, k \in Talks!Kinds : more[s][k] <= 1
    <2>1. inbox[o.side][o.kind] = 0
      BY <1>1, <1>2 DEF NoticeFits
    <2> HIDE DEF o
    <2> QED  BY <1>2, <2>1 DEF Boxes, NoticeFits
  <1>4. PICK d \in TalkDesks :
          /\ desk' = [desk EXCEPT ![c] = d] /\ d.at \in {"measure", "idle"}
          /\ BadgeFits(d, thread, conv.unread, seen, lost.badges) /\ TimeFits(d, thread, profile, lost.refresh)
    BY <1>1, AfterNoticeFits
  <1> HIDE DEF o, more
  <1>5. NoticeFits(d, more)
    BY <1>3, <1>4 DEF NoticeFits
  <1> QED  BY <1>1, <1>3, <1>4, <1>5, TalkIs, TalkKeeps DEF TalkFits, TalkTypes

\* ... or not, which a message survives.
LEMMA NoticeFailsKeepsTalk ==
    ASSUME TalkInv, TalksAlone, NEW c \in Callers, Talks!NoticeFails(c) PROVE TalkInv'
  <1>1. /\ desk[c].at \in {"replace", "create"} /\ conv' = conv /\ thread' = thread /\ profile' = profile
        /\ seen' = seen /\ lost' = lost /\ inbox' = inbox /\ Talks!AfterNotice(c)
    BY DEF Talks!NoticeFails, Talks!At
  <1>2. NoticeFits(desk[c], inbox)
    BY TalkIs
  <1>3. PICK d \in TalkDesks :
          /\ desk' = [desk EXCEPT ![c] = d] /\ d.at \in {"measure", "idle"}
          /\ BadgeFits(d, thread, conv.unread, seen, lost.badges) /\ TimeFits(d, thread, profile, lost.refresh)
    BY <1>1, AfterNoticeFits
  <1>4. NoticeFits(d, inbox)
    BY <1>2, <1>3 DEF NoticeFits
  <1> QED  BY <1>1, <1>3, <1>4, TalkIs, TalkKeeps DEF TalkFits, TalkTypes

\* The bell is cleared.
LEMMA MarkAllReadKeepsTalk ==
    ASSUME TalkInv, TalksAlone, NEW c \in Callers, Talks!MarkAllRead(c) PROVE TalkInv'
  <1> DEFINE f(s, K) == [inbox EXCEPT ![s] = [k \in Talks!Kinds |-> IF k \in K THEN 0 ELSE inbox[s][k]]]
  <1>1. desk[c].at = "idle" /\ conv' = conv /\ thread' = thread /\ profile' = profile /\ seen' = seen /\ lost' = lost /\ desk' = desk
    BY DEF Talks!MarkAllRead, Talks!At
  <1>2. PICK s \in Talks!Sides, K \in SUBSET Talks!Kinds : inbox' = f(s, K)
    BY DEF Talks!MarkAllRead
  <1>3. inbox \in Boxes /\ NoticeFits(desk[c], inbox) /\ desk = [desk EXCEPT ![c] = desk[c]]
    BY TalkIs
  <1>4. f(s, K) \in Boxes /\ \A x \in Talks!Sides, k \in Talks!Kinds : f(s, K)[x][k] \in {inbox[x][k], 0}
    BY <1>3 DEF Boxes
  <1> HIDE DEF f
  <1>5. NoticeFits(desk[c], inbox') /\ inbox' \in Boxes
    BY <1>1, <1>2, <1>3, <1>4 DEF NoticeFits
  <1> DEFINE d == desk[c]
  <1>6. d \in TalkDesks /\ BadgeFits(d, thread, conv.unread, seen, lost.badges) /\ TimeFits(d, thread, profile, lost.refresh)
        /\ desk' = [desk EXCEPT ![c] = d] /\ NoticeFits(d, inbox')
    BY <1>1, <1>3, <1>5, TalkIs
  <1> HIDE DEF d
  <1> QED  BY <1>1, <1>5, <1>6, TalkIs, TalkKeeps DEF TalkFits, TalkTypes

\* The reply time is measured on the messages that are read ...
LEMMA RefreshKeepsTalk ==
    ASSUME TalkInv, TalksAlone, Talks!ConversationsAssumption, NEW c \in Callers, Talks!RefreshReplyTime(c)
    PROVE  TalkInv'
  <1> DEFINE o == desk[c]
             t == Talks!Measured(thread)
             w == Talks!Waits(t)
             n == Talks!Median(w)
             k == Talks!Cardinality(DOMAIN w)
             d == [o EXCEPT !.at = "store", !.median = n, !.samples = k]
  <1>1. o.at = "measure" /\ conv' = conv /\ thread' = thread /\ profile' = profile /\ seen' = seen /\ inbox' = inbox
        /\ lost' = lost
    BY DEF Talks!RefreshReplyTime, Talks!At
  <1>2. desk' = [desk EXCEPT ![c] = d]
    BY DEF Talks!RefreshReplyTime, Talks!Goto
  <1>3. /\ o \in TalkDesks /\ BadgeFits(o, thread, conv.unread, seen, lost.badges) /\ NoticeFits(o, inbox)
        /\ thread \in Seq(Talks!Sides) /\ Len(thread) \in Nat
    BY TalkIs
  <1>4. t \in Seq(Talks!Sides) /\ Len(t) \in 0..Len(thread) /\ Turns(t) = Counted(thread)
    BY <1>3, MeasuredIs DEF Talks!ConversationsAssumption
  <1> HIDE DEF t
  <1>5. DOMAIN w = Counted(thread) /\ \A j \in Counted(thread) : w[j] \in 1..Len(thread)
    <2>1. DOMAIN w = Turns(t) /\ \A j \in Turns(t) : w[j] \in 1..Len(t)
      BY <1>4, WaitsAre
    <2> HIDE DEF w
    <2> QED  BY <1>3, <1>4, <2>1
  <1>6. IsFiniteSet(Counted(thread)) /\ Cardinality(Counted(thread)) \in Nat
    BY <1>3, UnshownFinite
  <1>7. k = Cardinality(Counted(thread))
    BY <1>5, TalkCounts
  <1>8. (Counted(thread) = {} => n = 0) /\ (Counted(thread) # {} => n \in 1..Len(thread))
    <2> HIDE DEF w
    <2> QED  BY <1>3, <1>5, <1>6, MedianIs
  <1> HIDE DEF n, k, w, o
  <1>9. n \in Nat /\ k \in Nat
    BY <1>3, <1>6, <1>7, <1>8
  <1>10. d \in TalkDesks /\ d.at = "store" /\ d.median = n /\ d.samples = k
    BY <1>3, <1>9 DEF TalkDesks
  <1> HIDE DEF d
  <1>11. Tells(n, k, thread)
    BY <1>7, <1>8 DEF Tells
  <1>12. /\ BadgeFits(d, thread, conv.unread, seen, lost.badges) /\ TimeFits(d, thread, profile, lost.refresh)
         /\ NoticeFits(d, inbox)
    BY <1>1, <1>3, <1>10, <1>11 DEF BadgeFits, TimeFits, Talks!RefreshIsDue, NoticeFits
  <1> QED  BY <1>1, <1>2, <1>10, <1>12, TalkIs, TalkKeeps DEF TalkFits, TalkTypes

\* ... and stored, which makes up for a refresh that was lost.
LEMMA StoreKeepsTalk ==
    ASSUME TalkInv, TalksAlone, NEW c \in Callers, Talks!StoreReplyTime(c) PROVE TalkInv'
  <1> DEFINE o == desk[c]
             p == [median |-> o.median, samples |-> o.samples]
             l == [lost EXCEPT !.refresh = FALSE]
             d == Talks!NoDesk
  <1>1. o.at = "store" /\ conv' = conv /\ thread' = thread /\ profile' = p /\ seen' = seen /\ inbox' = inbox
        /\ lost' = l /\ desk' = [desk EXCEPT ![c] = d]
    BY DEF Talks!StoreReplyTime, Talks!At, Talks!Done, Talks!Goto
  <1>2. /\ o \in TalkDesks /\ BadgeFits(o, thread, conv.unread, seen, lost.badges) /\ NoticeFits(o, inbox)
        /\ TimeFits(o, thread, profile, lost.refresh) /\ lost \in Losts(thread)
    BY TalkIs
  <1>3. p \in Profiles /\ p.median = o.median /\ p.samples = o.samples
    BY <1>2 DEF TalkDesks, Profiles
  <1>4. l \in Losts(thread) /\ l.badges = lost.badges /\ l.refresh = FALSE
    BY <1>2 DEF Losts
  <1> HIDE DEF o, p, l
  <1>5. Tells(p.median, p.samples, thread)
    BY <1>1, <1>2, <1>3 DEF TimeFits
  <1>6. BadgeFits(d, thread, conv.unread, seen, l.badges) /\ TimeFits(d, thread, p, l.refresh) /\ NoticeFits(d, inbox)
    BY <1>1, <1>2, <1>4, <1>5, NobodyTalks DEF BadgeFits, TimeFits, NoticeFits
  <1> QED  BY <1>1, <1>3, <1>4, <1>6, NobodyTalks, TalkIs, TalkKeeps DEF TalkFits, TalkTypes

\* A request that ends early loses the count it was to make, and the refresh.
LEMMA StopKeepsTalk ==
    ASSUME TalkInv, TalksAlone, NEW c \in Callers, Talks!Stop(c) PROVE TalkInv'
  <1> DEFINE o == desk[c]
             d == Talks!NoDesk
             u == conv.unread
             gone == lost.badges
             bad == IF o.at = "badge" THEN gone \cup {o.upto} ELSE gone
             late == lost.refresh \/ Talks!RefreshIsDue(o)
             l == [badges |-> bad, refresh |-> late]
             x == Talks!Other[o.side]
  <1>1. conv' = conv /\ thread' = thread /\ profile' = profile /\ seen' = seen /\ inbox' = inbox
        /\ lost' = l /\ desk' = [desk EXCEPT ![c] = d]
    BY DEF Talks!Stop, Talks!Done, Talks!Goto
  <1>2. /\ o \in TalkDesks /\ BadgeFits(o, thread, u, seen, gone) /\ NoticeFits(o, inbox)
        /\ TimeFits(o, thread, profile, lost.refresh) /\ lost \in Losts(thread)
        /\ thread \in Seq(Talks!Sides) /\ o.side \in Talks!Sides /\ u \in Unread
    BY TalkIs DEF TalkDesks
  <1>3. l \in Losts(thread) /\ l.badges = bad /\ l.refresh = late
    <2>1. bad \in SUBSET DOMAIN thread
      BY <1>2 DEF BadgeFits, Losts
    <2>2. late \in BOOLEAN
      BY <1>2 DEF Losts, Talks!RefreshIsDue
    <2> QED  BY <2>1, <2>2 DEF Losts
  <1>4. x \in Talks!Sides /\ x # o.side /\ Talks!Other[x] = o.side
        /\ \A y \in Talks!Sides : y = x \/ Talks!Other[y] # o.side
    BY <1>2, SidesAre
  <1> HIDE DEF l, late
  <1>5. BadgeFits(d, thread, u, seen, bad)
    <2>1. CASE o.at = "badge"
      <3>1. /\ o.upto \in DOMAIN thread /\ thread[o.upto] = o.side /\ o.upto \notin gone /\ o.upto \notin seen[x]
            /\ bad = gone \cup {o.upto}
        BY <1>2, <2>1 DEF BadgeFits
      <3>2. FitsAPage => /\ Cardinality(Unshown(thread, x, seen, gone)) = u[x] + 1
                         /\ \A y \in Talks!Sides \ {x} : Cardinality(Unshown(thread, y, seen, gone)) = u[y]
        BY <1>2, <1>4, <2>1 DEF BadgeFits
      <3> HIDE DEF bad, gone, x, u, o
      <3>3. /\ o.upto \in Unshown(thread, x, seen, gone)
            /\ Unshown(thread, x, seen, bad) = Unshown(thread, x, seen, gone) \ {o.upto}
            /\ \A y \in Talks!Sides \ {x} : Unshown(thread, y, seen, bad) = Unshown(thread, y, seen, gone)
        BY <3>1, <1>4 DEF Unshown
      <3>4. Cardinality(Unshown(thread, x, seen, bad)) = Cardinality(Unshown(thread, x, seen, gone)) - 1
        <4>1. IsFiniteSet(Unshown(thread, x, seen, gone))
          BY <1>2, UnshownFinite
        <4> QED  BY <3>3, <4>1, FS_RemoveElement
      <3>5. ASSUME FitsAPage, NEW y \in Talks!Sides PROVE Cardinality(Unshown(thread, y, seen, bad)) = u[y]
        <4>1. CASE y = x
          <5>1. u[x] \in Nat
            BY <1>2, <1>4 DEF Unread
          <5>2. Cardinality(Unshown(thread, x, seen, gone)) = u[x] + 1
            BY <3>2, <3>5
          <5> QED  BY <3>4, <4>1, <5>1, <5>2
        <4>2. CASE y # x
          BY <3>2, <3>3, <3>5, <4>2
        <4> QED  BY <4>1, <4>2
      <3> QED  BY <3>5, NobodyTalks DEF BadgeFits
    <2>2. CASE o.at # "badge"
      <3>1. bad = gone
        BY <2>2
      <3> HIDE DEF bad, gone, x, u, o
      <3> QED  BY <3>1, <2>2, <1>2, NobodyTalks DEF BadgeFits
    <2> QED  BY <2>1, <2>2
  <1> HIDE DEF bad, gone, o
  <1>6. TimeFits(d, thread, profile, late) /\ NoticeFits(d, inbox)
    <2>1. TimeFits(d, thread, profile, late)
      BY <1>2, NobodyTalks DEF TimeFits, late
    <2> QED  BY <2>1, <1>2, NobodyTalks DEF NoticeFits
  <1> QED  BY <1>1, <1>3, <1>5, <1>6, NobodyTalks, TalkIs, TalkKeeps DEF TalkFits, TalkTypes, u

\* Every step keeps the invariant.
LEMMA TalkStep ==
    ASSUME Talks!ConversationsAssumption, TalksAlone, TalkInv, [Talks!Next]_(Talks!conversationVars) PROVE TalkInv'
  <1>1. CASE UNCHANGED Talks!conversationVars
    BY <1>1 DEF TalkInv, Talks!conversationVars
  <1>2. MaxMessages \in Nat
    BY DEF Talks!ConversationsAssumption
  <1>3. CASE Talks!Next
    <2>1. PICK c \in Callers :
            \/ Talks!OpenWithOrganizer(c) \/ Talks!LoadThread(c) \/ Talks!Messages(c) \/ Talks!MarkRead(c) \/ Talks!Send(c)
            \/ Talks!Badge(c) \/ Talks!Notify(c) \/ Talks!Wants(c) \/ Talks!Replace(c) \/ Talks!CreateNotice(c)
            \/ Talks!NoticeFails(c) \/ Talks!MarkAllRead(c) \/ Talks!RefreshReplyTime(c) \/ Talks!StoreReplyTime(c) \/ Talks!Stop(c)
      BY <1>3 DEF Talks!Next
    <2> QED  BY <1>2, <2>1, OpenKeepsTalk, LoadKeepsTalk, MessagesKeepTalk, MarkReadKeepsTalk, SendKeepsTalk,
               BadgeKeepsTalk, NotifyKeepsTalk, WantsKeepsTalk, ReplaceKeepsTalk, CreateNoticeKeepsTalk,
               NoticeFailsKeepsTalk, MarkAllReadKeepsTalk, RefreshKeepsTalk, StoreKeepsTalk, StopKeepsTalk
  <1> QED  BY <1>1, <1>3

\* The invariant says so.
LEMMA TalkReads ==
    ASSUME TalkInv PROVE (FitsAPage => Talks!BadgeIsHonest) /\ Talks!OneReplyPerAnswer /\ Talks!OneNoticePerThing
  <1>1. PICK d \in TalkDesks :
          /\ Talks!Idle => d.at = "idle"
          /\ BadgeFits(d, thread, conv.unread, seen, lost.badges) /\ TimeFits(d, thread, profile, lost.refresh) /\ NoticeFits(d, inbox)
    <2>1. CASE Callers = {}
      BY <2>1, NobodyTalks DEF TalkInv, TalkFits
    <2>2. CASE Callers # {}
      <3>1. PICK c \in Callers : TRUE
        BY <2>2
      <3> QED  BY <3>1, TalkIs DEF Talks!Idle, Talks!At
    <2> QED  BY <2>1, <2>2
  <1>2. \A s : {i \in DOMAIN thread : thread[i] = Talks!Other[s] /\ i \notin seen[s] /\ i \notin lost.badges}
              = Unshown(thread, s, seen, lost.badges)
    BY DEF Unshown
  <1>3. {i \in DOMAIN thread : /\ i > 1 /\ i <= REPLY_MESSAGE_LIMIT
                               /\ thread[i] = "organizer" /\ thread[i - 1] = "customer"} = Counted(thread)
    BY DEF Turns, Counted
  <1>4. FitsAPage => Talks!BadgeIsHonest
    BY <1>1, <1>2, TalkCounts DEF Talks!BadgeIsHonest, Talks!UnreadCount, BadgeFits
  <1>5. Talks!OneReplyPerAnswer
    BY <1>1, <1>3, TalkCounts DEF Talks!OneReplyPerAnswer, TimeFits, Talks!RefreshIsDue, Tells
  <1>6. Talks!OneNoticePerThing
    BY <1>1 DEF Talks!OneNoticePerThing, NoticeFits
  <1> QED  BY <1>4, <1>5, <1>6

\* Where requests do not overlap, and whichever call fails: every answer among the messages
\* that are read is counted once, and its wait is one, unless the last refresh due was lost
\* (refreshReplyTime); a box has one notice per thing (create); and while a thread fits the
\* page, a badge counts what was not shown, but for messages whose count was lost (markRead, send).
THEOREM TalksAreKept ==
    ASSUME Talks!ConversationsAssumption, TalksAlone
    PROVE  Talks!Spec => []((FitsAPage => Talks!BadgeIsHonest) /\ Talks!OneReplyPerAnswer /\ Talks!OneNoticePerThing)
  <1>1. TalkInv => (FitsAPage => Talks!BadgeIsHonest) /\ Talks!OneReplyPerAnswer /\ Talks!OneNoticePerThing
    BY TalkReads
  <1>2. TalkInv /\ [Talks!Next]_(Talks!conversationVars) => TalkInv'
    BY TalkStep
  <1>3. Talks!Init => TalkInv
    BY TalkInit DEF Talks!ConversationsAssumption
  <1> QED  BY <1>1, <1>2, <1>3, PTL DEF Talks!Spec

-----------------------------------------------------------------------------
(* The organizers recommended (PlanMatch).                                  *)

\* The instance counts a set as this module does.
LEMMA MatchCounts == \A S : Match!Cardinality(S) = Cardinality(S) /\ (Match!IsFiniteSet(S) <=> IsFiniteSet(S))
  BY Zenon DEF Match!Cardinality, Match!IsFiniteSet, Cardinality, IsFiniteSet

\* What the recursion of a sum over a set asks for.
Pick(s) == CHOOSE x \in s : TRUE
Sums(it, f, S) == it = [s \in SUBSET S |-> IF s = {} THEN 0 ELSE f[Pick(s)] + it[s \ {Pick(s)}]]

\* That recursion has a solution over any finite set.
LEMMA SumsExist ==
    ASSUME NEW S, IsFiniteSet(S), NEW f
    PROVE  \E it : Sums(it, f, S)
  <1> DEFINE Upto(n) == {s \in SUBSET S : Cardinality(s) <= n}
             Fits(g, n) == \A s \in Upto(n) : g[s] = IF s = {} THEN 0 ELSE f[Pick(s)] + g[s \ {Pick(s)}]
             Bad == {n \in Nat : ~\E g : Fits(g, n)}
  <1>1. \A s \in SUBSET S : IsFiniteSet(s) /\ Cardinality(s) \in Nat /\ Cardinality(s) <= Cardinality(S)
    BY FS_Subset, FS_CardinalityType
  <1>2. \A s \in SUBSET S : s # {} => /\ Pick(s) \in s /\ s \ {Pick(s)} \in SUBSET S
                                      /\ Cardinality(s \ {Pick(s)}) = Cardinality(s) - 1
    BY <1>1, FS_RemoveElement DEF Pick
  <1>3. Bad = {}
    <2> SUFFICES ASSUME Bad # {} PROVE FALSE
      OBVIOUS
    <2>1. PICK n \in Bad : \A m \in Bad : n <= m
      BY Smallest
    <2>2. CASE n = 0
      <3> DEFINE g == [s \in SUBSET S |-> 0]
      <3>1. \A s \in Upto(0) : s = {}
        BY <1>1, FS_EmptySet
      <3>2. Fits(g, 0)
        BY <3>1
      <3> QED  BY <2>2, <3>2
    <2>3. CASE n # 0
      <3>1. n - 1 \in Nat
        BY <2>1, <2>3
      <3>a. n - 1 \notin Bad
        <4>1. n \in Nat /\ ~(n <= n - 1)
          BY <2>1
        <4> HIDE DEF Bad
        <4> QED  BY <2>1, <4>1
      <3>2. PICK g : Fits(g, n - 1)
        BY <3>1, <3>a
      <3> DEFINE h == [s \in SUBSET S |-> IF s = {} THEN 0 ELSE f[Pick(s)] + g[s \ {Pick(s)}]]
      <3>3. \A s \in Upto(n - 1) : h[s] = g[s]
        BY <3>2
      <3>4. \A s \in Upto(n) : s # {} => s \ {Pick(s)} \in Upto(n - 1)
        BY <1>1, <1>2
      <3> HIDE DEF Upto
      <3>5. Fits(h, n)
        BY <3>3, <3>4 DEF Upto
      <3> QED  BY <3>5
    <2> QED  BY <2>2, <2>3
  <1>4. PICK g : Fits(g, Cardinality(S))
    <2>1. Cardinality(S) \in Nat
      BY FS_CardinalityType
    <2> QED  BY <1>3, <2>1
  <1>5. Upto(Cardinality(S)) = SUBSET S
    BY <1>1
  <1> DEFINE it == [s \in SUBSET S |-> g[s]]
  <1>6. \A s \in SUBSET S : it[s] = IF s = {} THEN 0 ELSE f[Pick(s)] + it[s \ {Pick(s)}]
    BY <1>4, <1>5, <1>2
  <1>7. Sums(it, f, S)
    BY <1>6 DEF Sums
  <1> QED  BY <1>7

\* Numbers that are not negative sum to one (SumFunction).
LEMMA SumIsNat ==
    ASSUME NEW S, IsFiniteSet(S), NEW f \in [S -> Nat]
    PROVE  Match!SumFunction(f) \in Nat
  <1> DEFINE Raw(jt) == jt = [s \in SUBSET S |->
                                IF s = {} THEN 0
                                ELSE f[CHOOSE x \in s : TRUE] + jt[s \ {CHOOSE x \in s : TRUE}]]
             it == CHOOSE jt : Raw(jt)
  <1>1. \A jt : Raw(jt) <=> Sums(jt, f, S)
    BY DEF Sums, Pick
  <1>2. Match!SumFunction(f) = it[S]
    BY DEF Match!SumFunction, Match!SumFunctionOnSet, Match!FoldFunctionOnSet, Match!MapThenFoldSet
  <1>3. Sums(it, f, S)
    <2>1. \E jt : Raw(jt)
      <3> HIDE DEF Raw
      <3> QED  BY <1>1, SumsExist
    <2> HIDE DEF Raw
    <2> QED  BY <1>1, <2>1
  <1> HIDE DEF Raw, it
  <1> DEFINE P == {s \in SUBSET S : it[s] \in Nat}
  <1>4. ASSUME NEW s \in SUBSET S, \A x \in s : s \ {x} \in P PROVE s \in P
    <2>1. it[s] = IF s = {} THEN 0 ELSE f[Pick(s)] + it[s \ {Pick(s)}]
      BY <1>3 DEF Sums
    <2>2. CASE s = {}
      BY <2>1, <2>2
    <2>3. CASE s # {}
      <3>1. Pick(s) \in s
        BY <2>3 DEF Pick
      <3>2. it[s \ {Pick(s)}] \in Nat /\ f[Pick(s)] \in Nat
        BY <1>4, <3>1
      <3> QED  BY <2>1, <2>3, <3>2
    <2> QED  BY <2>2, <2>3
  <1>5. S \in P
    <2> HIDE DEF P
    <2> QED  BY <1>4, SetInduction
  <1> QED  BY <1>2, <1>5


\* A factor, and the ten there are.
Percents == 0..100

Parts == {"category", "budget", "capacity", "location", "occasion", "availability", "rating", "events",
          "response", "badge"}

\* The numbers of a profile.
LEMMA ProfileIs ==
    ASSUME Match!MatchAssumption, NEW o \in Match!Enlisted
    PROVE  LET p == Directory[o] IN
           /\ p.capacityMin \in Nat /\ p.capacityMax \in Nat /\ p.basePrice \in Nat /\ p.pricePerGuest \in Nat
           /\ p.rating \in Nat /\ p.events \in Nat /\ p.responseRate \in Nat /\ p.responseHours \in Nat
           /\ p.found \in Nat
           /\ \A k \in DOMAIN p.rates : p.rates[k].price \in Nat
  BY DEF Match!MatchAssumption, Match!Profiles

\* What is asked for is counted, and covered at most in full.
LEMMA CoverIs ==
    ASSUME Match!MatchAssumption, NEW o, NEW ctx \in Contexts
    PROVE  /\ IsFiniteSet(Match!Covered(o, ctx)) /\ IsFiniteSet(ctx.categories)
           /\ Match!Covered(o, ctx) \subseteq ctx.categories
           /\ Cardinality(Match!Covered(o, ctx)) \in Nat /\ Cardinality(ctx.categories) \in Nat
           /\ Cardinality(Match!Covered(o, ctx)) <= Cardinality(ctx.categories)
           /\ ctx.categories # {} => Cardinality(ctx.categories) # 0
  <1>1. Match!Covered(o, ctx) \subseteq ctx.categories
    BY DEF Match!Covered
  <1>2. IsFiniteSet(ctx.categories)
    BY MatchCounts DEF Match!MatchAssumption
  <1> QED  BY <1>1, <1>2, FS_Subset, FS_CardinalityType, FS_EmptySet

\* An estimate is a number (estimate).
LEMMA TotalIsNat ==
    ASSUME Match!MatchAssumption, NEW o \in Match!Enlisted, NEW ctx \in Contexts
    PROVE  Match!Total(o, ctx) \in Nat /\ Match!Estimate(o, ctx).min \in Int
  <1> DEFINE heads == Match!Heads(o, ctx)
             C == Match!Covered(o, ctx)
             f == [k \in C |-> Match!PriceOf(o, k, heads)]
             p == Directory[o]
  <1>1. heads \in Nat
    BY ProfileIs DEF Match!Heads, Match!MatchAssumption
  <1>2. p.basePrice \in Nat /\ p.pricePerGuest * heads \in Nat
    BY ProfileIs, <1>1
  <1>3. \A k \in C : Match!PriceOf(o, k, heads) \in Nat
    <2> SUFFICES ASSUME NEW k \in C PROVE Match!PriceOf(o, k, heads) \in Nat
      OBVIOUS
    <2>1. k \in DOMAIN p.rates => p.rates[k].price \in Nat
      BY ProfileIs
    <2>2. k \in DOMAIN p.rates => p.rates[k].price * (IF p.rates[k].perGuest THEN heads ELSE 1) \in Nat
      <3> HIDE DEF heads
      <3> QED  BY <1>1, <2>1
    <2>3. k \in DOMAIN DefaultFlat => DefaultFlat[k] \in Nat
      BY DEF Match!MatchAssumption
    <2> HIDE DEF heads
    <2> QED  BY <1>2, <2>2, <2>3 DEF Match!PriceOf
  <1>4. Match!SumFunction(f) \in Nat
    <2>1. f \in [C -> Nat]
      BY <1>3
    <2>2. IsFiniteSet(C)
      BY CoverIs
    <2> HIDE DEF f, C
    <2> QED  BY <2>1, <2>2, SumIsNat
  <1>5. Match!Total(o, ctx) = p.basePrice + IF C = {} THEN p.pricePerGuest * heads ELSE Match!SumFunction(f)
    BY DEF Match!Total
  <1>6. Match!Total(o, ctx) \in Nat
    <2> HIDE DEF heads, f, C
    <2> QED  BY <1>2, <1>4, <1>5
  <1> QED  BY <1>6 DEF Match!Estimate

\* A share of the services is a percentage, and all of them are all of it.
LEMMA ShareIs ==
    ASSUME NEW c \in Nat, NEW n \in Nat, n # 0, c <= n
    PROVE  (100 * c) \div n \in Percents /\ (c = n => (100 * c) \div n = 100)
  BY DEF Percents

\* Every factor is a percentage, and a reason given is a factor in full (recommend, buildReasons).
LEMMA FactorsFit ==
    ASSUME Match!MatchAssumption, NEW o \in Match!Enlisted, NEW ctx \in Contexts
    PROVE  LET f == Match!Factors(o, ctx)  r == Match!Reasons(o, ctx) IN
           /\ DOMAIN f = Parts /\ \A k \in Parts : f[k] \in Percents
           /\ "coversAll" \in r => f.category = 100
           /\ "fitsBudget" \in r => f.budget = 100
           /\ "available" \in r => f.availability = 100
  <1> DEFINE f == Match!Factors(o, ctx)
             r == Match!Reasons(o, ctx)
             c == Cardinality(Match!Covered(o, ctx))
             n == Cardinality(ctx.categories)
  <1>1. /\ f.category = (IF ctx.categories = {} THEN 100 ELSE (100 * c) \div n)
        /\ f.budget \in {70, 100, 25, 60} /\ f.capacity \in {80, 20, 70, 100}
        /\ f.location \in {100, 60, 50, 20} /\ f.occasion \in {60, 100, 40} /\ f.availability \in {0, 100}
        /\ DOMAIN f = Parts
    BY MatchCounts DEF Match!Factors, Match!LocationScore, Parts
  <1>2. /\ f.rating = Match!Clamp(2 * Directory[o].rating) /\ f.events = Match!Clamp(Directory[o].events \div 3)
        /\ f.response = Match!Clamp(Directory[o].responseRate)
    BY DEF Match!Factors
  <1>3. f.rating \in Percents /\ f.events \in Percents /\ f.response \in Percents
    BY <1>2, ProfileIs DEF Match!Clamp, Percents
  <1>4. f.badge \in Percents
    BY DEF Match!Factors, Match!TierBonus, Percents
  <1>5. f.category \in Percents /\ (ctx.categories # {} /\ c = n => f.category = 100)
    <2>1. CASE ctx.categories = {}
      BY <1>1, <2>1 DEF Percents
    <2>2. CASE ctx.categories # {}
      <3>1. c \in Nat /\ n \in Nat /\ n # 0 /\ c <= n
        BY CoverIs, <2>2
      <3>2. f.category = (100 * c) \div n
        BY <1>1, <2>2
      <3> HIDE DEF f, c, n
      <3>3. (100 * c) \div n \in Percents /\ (c = n => (100 * c) \div n = 100)
        BY <3>1, ShareIs
      <3> QED  BY <3>2, <3>3
    <2> QED  BY <2>1, <2>2
  <1>6. \A k \in Parts : f[k] \in Percents
    <2> HIDE DEF f
    <2> QED  BY <1>1, <1>3, <1>4, <1>5 DEF Parts, Percents
  <1>7. "coversAll" \in r => f.category = 100
    BY <1>5 DEF Match!Reasons
  <1>8. "fitsBudget" \in r => f.budget = 100
    <2>1. "fitsBudget" \in r => ctx.budget > 0 /\ Match!Estimate(o, ctx).max <= ctx.budget
      BY DEF Match!Reasons
    <2>2. ctx.budget \in Nat
      BY DEF Match!MatchAssumption
    <2>3. ctx.budget # 0 /\ Match!Estimate(o, ctx).max <= ctx.budget => f.budget = 100
      BY DEF Match!Factors
    <2> HIDE DEF f, r
    <2> QED  BY <2>1, <2>2, <2>3
  <1>9. "available" \in r => f.availability = 100
    BY DEF Match!Reasons, Match!Factors
  <1> QED  BY <1>1, <1>6, <1>7, <1>8, <1>9

\* The weights make a percentage of percentages, and more on every factor is never less.
LEMMA Weighs ==
    ASSUME NEW f, NEW g, \A k \in Parts : f[k] \in Percents /\ g[k] \in Percents
    PROVE  /\ Match!Percentage(f) \in Percents
           /\ (\A k \in Parts : g[k] >= f[k]) => Match!Percentage(f) <= Match!Percentage(g)
  <1> DEFINE a0 == f.category  a1 == f.budget  a2 == f.capacity  a3 == f.location  a4 == f.occasion
             a5 == f.availability  a6 == f.rating  a7 == f.events  a8 == f.response  a9 == f.badge
             b0 == g.category  b1 == g.budget  b2 == g.capacity  b3 == g.location  b4 == g.occasion
             b5 == g.availability  b6 == g.rating  b7 == g.events  b8 == g.response  b9 == g.badge
             x == 28 * a0 + 14 * a1 + 12 * a2 + 10 * a3 + 9 * a4 + 8 * a5 + 8 * a6 + 5 * a7 + 4 * a8 + 2 * a9
             y == 28 * b0 + 14 * b1 + 12 * b2 + 10 * b3 + 9 * b4 + 8 * b5 + 8 * b6 + 5 * b7 + 4 * b8 + 2 * b9
  <1>1. Match!Weighted(f) = x /\ Match!Weighted(g) = y
    BY DEF Match!Weighted, Match!Weights
  <1>2. /\ a0 \in Percents /\ a1 \in Percents /\ a2 \in Percents /\ a3 \in Percents /\ a4 \in Percents
        /\ a5 \in Percents /\ a6 \in Percents /\ a7 \in Percents /\ a8 \in Percents /\ a9 \in Percents
    BY DEF Parts
  <1>3. /\ b0 \in Percents /\ b1 \in Percents /\ b2 \in Percents /\ b3 \in Percents /\ b4 \in Percents
        /\ b5 \in Percents /\ b6 \in Percents /\ b7 \in Percents /\ b8 \in Percents /\ b9 \in Percents
    BY DEF Parts
  <1>4. (\A k \in Parts : g[k] >= f[k]) =>
        /\ b0 >= a0 /\ b1 >= a1 /\ b2 >= a2 /\ b3 >= a3 /\ b4 >= a4
        /\ b5 >= a5 /\ b6 >= a6 /\ b7 >= a7 /\ b8 >= a8 /\ b9 >= a9
    BY DEF Parts
  <1> HIDE DEF a0, a1, a2, a3, a4, a5, a6, a7, a8, a9, b0, b1, b2, b3, b4, b5, b6, b7, b8, b9
  <1>5. x \in Int /\ 0 <= x /\ x <= 10000 /\ y \in Int /\ 0 <= y /\ y <= 10000
    <2>1. x \in Int /\ 0 <= x /\ x <= 10000
      BY <1>2 DEF Percents
    <2>2. y \in Int /\ 0 <= y /\ y <= 10000
      BY <1>3 DEF Percents
    <2> QED  BY <2>1, <2>2
  <1>6. (\A k \in Parts : g[k] >= f[k]) => x <= y
    <2> SUFFICES ASSUME \A k \in Parts : g[k] >= f[k] PROVE x <= y
      OBVIOUS
    <2>1. /\ b0 >= a0 /\ b1 >= a1 /\ b2 >= a2 /\ b3 >= a3 /\ b4 >= a4
          /\ b5 >= a5 /\ b6 >= a6 /\ b7 >= a7 /\ b8 >= a8 /\ b9 >= a9
      BY <1>4
    <2> QED  BY <1>2, <1>3, <2>1 DEF Percents
  <1> HIDE DEF x, y
  <1>7. (x + 50) \div 100 \in Percents /\ (x <= y => (x + 50) \div 100 <= (y + 50) \div 100)
    BY <1>5 DEF Percents
  <1> QED  BY <1>1, <1>6, <1>7 DEF Match!Percentage

\* One organizer before another in a list, or the same.
Placed(S, ctx) == {p \in S \X S : p[1] = p[2] \/ Match!Before(p[1], p[2], ctx)}
InOrder(S)     == {p \in S \X S : p[1] = p[2] \/ Match!Found(p[1], p[2])}

\* What organizers are compared by is numbers.
LEMMA RankIs ==
    ASSUME Match!MatchAssumption, NEW o \in Match!Enlisted, NEW ctx \in Contexts
    PROVE  Match!Rank(o, ctx)[1] \in Int /\ Match!Rank(o, ctx)[2] \in Int /\ Match!Score(o, ctx) \in Percents
  <1>1. Match!Score(o, ctx) \in Percents
    <2>1. \A k \in Parts : Match!Factors(o, ctx)[k] \in Percents
      BY FactorsFit
    <2> QED  BY <2>1, Weighs DEF Match!Score
  <1>2. Directory[o].rating \in Int /\ Directory[o].events \in Int /\ -Directory[o].responseHours \in Int
    BY ProfileIs
  <1>3. -Match!Estimate(o, ctx).min \in Int
    BY TotalIsNat
  <1>4. Match!LocationScore(o, ctx) \in Int
    BY DEF Match!LocationScore
  <1>5. Match!Score(o, ctx) \in Int
    BY <1>1 DEF Percents
  <1> QED  BY <1>1, <1>2, <1>3, <1>4, <1>5 DEF Match!Rank

\* So the comparison is a total order, ties broken by the order found.
LEMMA PlacedOrders ==
    ASSUME Match!MatchAssumption, NEW S \in SUBSET Match!Enlisted, NEW ctx \in Contexts
    PROVE  Orders(Placed(S, ctx), S) /\ Orders(InOrder(S), S)
  <1> DEFINE u(o) == Match!Rank(o, ctx)[1]
             v(o) == Match!Rank(o, ctx)[2]
             w(o) == Directory[o].found
  <1>1. \A o \in S : u(o) \in Int /\ v(o) \in Int /\ w(o) \in Nat
    BY RankIs, ProfileIs
  <1>2. \A o, p \in S : w(o) = w(p) => o = p
    BY DEF Match!MatchAssumption
  <1>3. \A o, p \in S : <<o, p>> \in Placed(S, ctx) <=>
          \/ o = p \/ u(o) > u(p) \/ (u(o) = u(p) /\ v(o) > v(p))
          \/ (u(o) = u(p) /\ v(o) = v(p) /\ w(o) < w(p))
    BY DEF Placed, Match!Before, Match!Found
  <1>4. \A o, p \in S : <<o, p>> \in InOrder(S) <=> o = p \/ w(o) < w(p)
    BY DEF InOrder, Match!Found
  <1> HIDE DEF u, v, w
  <1>5. \A o, p \in S : <<o, p>> \in Placed(S, ctx) \/ <<p, o>> \in Placed(S, ctx)
    <2> TAKE o, p \in S
    <2>1. u(o) \in Int /\ u(p) \in Int /\ v(o) \in Int /\ v(p) \in Int /\ w(o) \in Nat /\ w(p) \in Nat
      BY <1>1
    <2>2. o = p \/ w(o) < w(p) \/ w(p) < w(o)
      BY <1>2, <2>1
    <2> QED  BY <1>3, <2>1, <2>2
  <1>6. \A o, p, q \in S : <<o, p>> \in Placed(S, ctx) /\ <<p, q>> \in Placed(S, ctx) => <<o, q>> \in Placed(S, ctx)
    BY <1>1, <1>3
  <1>7. \A o, p \in S : <<o, p>> \in InOrder(S) \/ <<p, o>> \in InOrder(S)
    <2> TAKE o, p \in S
    <2>1. o = p \/ w(o) < w(p) \/ w(p) < w(o)
      BY <1>1, <1>2
    <2> QED  BY <1>4, <2>1
  <1>8. \A o, p, q \in S : <<o, p>> \in InOrder(S) /\ <<p, q>> \in InOrder(S) => <<o, q>> \in InOrder(S)
    BY <1>1, <1>4
  <1> QED  BY <1>5, <1>6, <1>7, <1>8 DEF Orders

\* So the sorted lists there are hold everybody once, each before the next.
LEMMA ListedIs ==
    ASSUME Match!MatchAssumption, NEW S \in SUBSET Match!Enlisted, NEW ctx \in Contexts
    PROVE  LET n == Cardinality(S) IN
           /\ n \in Nat
           /\ Match!Sorted(S, ctx) \in [1..n -> S]
           /\ \A i, j \in 1..n : i < j => Match!Before(Match!Sorted(S, ctx)[i], Match!Sorted(S, ctx)[j], ctx)
           /\ Match!AsFound(S) \in [1..n -> S]
           /\ \A o \in S : \E i \in 1..n : Match!AsFound(S)[i] = o
  <1> DEFINE n == Cardinality(S)
             Fits(t)  == \A i, j \in DOMAIN t : i < j => Match!Before(t[i], t[j], ctx)
             Files(t) == \A i, j \in DOMAIN t : i < j => Match!Found(t[i], t[j])
             sorted == Match!Sorted(S, ctx)
             found  == Match!AsFound(S)
  <1>1. IsFiniteSet(S) /\ n \in Nat
    BY MatchCounts, FS_Subset, FS_CardinalityType DEF Match!MatchAssumption
  <1>2. PICK s : Lists(s, S, Placed(S, ctx))
    BY <1>1, PlacedOrders, SortExists
  <1>3. PICK t : Lists(t, S, InOrder(S))
    BY <1>1, PlacedOrders, SortExists
  <1>4. s \in Match!Bijection(1..n, S) /\ Fits(s)
    <2>1. /\ s \in [1..n -> S]
          /\ \A i, j \in 1..n : s[i] = s[j] => i = j
          /\ \A o \in S : \E i \in 1..n : s[i] = o
          /\ \A i, j \in 1..n : i < j => <<s[i], s[j]>> \in Placed(S, ctx)
      BY <1>2 DEF Lists
    <2>2. \A i, j \in 1..n : i < j => s[i] # s[j]
      BY <1>1, <2>1
    <2> HIDE DEF n
    <2>3. s \in Match!Bijection(1..n, S)
      BY <2>1 DEF Match!Bijection, Match!Injection, Match!Surjection, Match!IsInjective
    <2>4. \A i, j \in 1..n : i < j => Match!Before(s[i], s[j], ctx)
      BY <2>1, <2>2 DEF Placed
    <2> QED  BY <2>1, <2>3, <2>4
  <1>5. t \in Match!Bijection(1..n, S) /\ Files(t)
    <2>1. /\ t \in [1..n -> S]
          /\ \A i, j \in 1..n : t[i] = t[j] => i = j
          /\ \A o \in S : \E i \in 1..n : t[i] = o
          /\ \A i, j \in 1..n : i < j => <<t[i], t[j]>> \in InOrder(S)
      BY <1>3 DEF Lists
    <2>2. \A i, j \in 1..n : i < j => t[i] # t[j]
      BY <1>1, <2>1
    <2> HIDE DEF n
    <2>3. t \in Match!Bijection(1..n, S)
      BY <2>1 DEF Match!Bijection, Match!Injection, Match!Surjection, Match!IsInjective
    <2>4. \A i, j \in 1..n : i < j => Match!Found(t[i], t[j])
      BY <2>1, <2>2 DEF InOrder
    <2> QED  BY <2>1, <2>3, <2>4
  <1>6. sorted \in Match!Bijection(1..n, S) /\ Fits(sorted)
    <2>1. sorted = CHOOSE u \in Match!Bijection(1..n, S) : Fits(u)
      BY MatchCounts DEF Match!Sorted
    <2> HIDE DEF Fits, sorted, n
    <2> QED  BY <1>4, <2>1
  <1>7. found \in Match!Bijection(1..n, S) /\ Files(found)
    <2>1. found = CHOOSE u \in Match!Bijection(1..n, S) : Files(u)
      BY MatchCounts DEF Match!AsFound
    <2> HIDE DEF Files, found, n
    <2> QED  BY <1>5, <2>1
  <1> HIDE DEF sorted, found, n
  <1>8. /\ sorted \in [1..n -> S] /\ \A i, j \in 1..n : i < j => Match!Before(sorted[i], sorted[j], ctx)
        /\ found \in [1..n -> S] /\ \A o \in S : \E i \in 1..n : found[i] = o
    BY <1>6, <1>7 DEF Match!Bijection, Match!Injection, Match!Surjection
  <1> QED  BY <1>1, <1>8 DEF sorted, found, n

\* What is promised of a list shown for a plan.
FairTo(list, ctx) ==
    /\ \A o \in Match!Concierge : \E i \in DOMAIN list : list[i] = o
    /\ \A i, j \in DOMAIN list : i < j /\ Directory[list[i]].concierge => Directory[list[j]].concierge
    /\ \A o \in active : LET f == Match!Factors(o, ctx)  r == Match!Reasons(o, ctx) IN
         /\ Match!Score(o, ctx) \in 0..100
         /\ "coversAll" \in r => f.category = 100
         /\ "fitsBudget" \in r => f.budget = 100
         /\ "available" \in r => f.availability = 100
    /\ \A i, j \in DOMAIN list :
         LET a == list[i]  b == list[j]  f == Match!Factors(a, ctx)  g == Match!Factors(b, ctx) IN
         i < j /\ ctx.sort = "best" /\ ~Directory[a].concierge /\ ~Directory[b].concierge
            /\ (\A k \in DOMAIN f : g[k] >= f[k])
         => Match!Score(a, ctx) = Match!Score(b, ctx) /\ Match!Found(a, b)

\* Whoever does no worse on any factor does no worse in the score.
LEMMA MeritCounts ==
    ASSUME Match!MatchAssumption, NEW a \in Match!Enlisted, NEW b \in Match!Enlisted, NEW ctx \in Contexts,
           Match!Before(a, b, ctx), ctx.sort = "best",
           \A k \in DOMAIN Match!Factors(a, ctx) : Match!Factors(b, ctx)[k] >= Match!Factors(a, ctx)[k]
    PROVE  Match!Score(a, ctx) = Match!Score(b, ctx) /\ Match!Found(a, b)
  <1> DEFINE f == Match!Factors(a, ctx)
             g == Match!Factors(b, ctx)
             x == Match!Score(a, ctx)
             y == Match!Score(b, ctx)
  <1>1. DOMAIN f = Parts /\ \A k \in Parts : f[k] \in Percents
    BY FactorsFit
  <1>2. \A k \in Parts : g[k] \in Percents
    BY FactorsFit
  <1>3. x <= y
    <2>1. x = Match!Percentage(f) /\ y = Match!Percentage(g)
      BY DEF Match!Score
    <2>2. \A k \in Parts : f[k] \in Percents /\ g[k] \in Percents
      BY <1>1, <1>2
    <2>3. \A k \in Parts : g[k] >= f[k]
      BY <1>1
    <2> HIDE DEF f, g, x, y
    <2> QED  BY <2>1, <2>2, <2>3, Weighs
  <1>4. x \in Nat /\ y \in Nat
    BY RankIs DEF Percents
  <1>5. Match!Rank(a, ctx) = <<x, 0>> /\ Match!Rank(b, ctx) = <<y, 0>>
    BY DEF Match!Rank
  <1>6. x > y \/ (x = y /\ Match!Found(a, b))
    BY <1>5 DEF Match!Before
  <1> HIDE DEF x, y
  <1>7. x = y /\ Match!Found(a, b)
    BY <1>3, <1>4, <1>6
  <1> QED  BY <1>7 DEF x, y

\* What is recommended keeps the promise (recommend).
LEMMA RecommendIsFair ==
    ASSUME Match!MatchAssumption, active \subseteq Match!Enlisted, NEW ctx \in Contexts
    PROVE  FairTo(Match!Recommend(ctx), ctx)
  <1> DEFINE S == Match!Matches(ctx)
             T == Match!Concierge
             m == Cardinality(S)
             n == Cardinality(T)
             s == Match!Sorted(S, ctx)
             t == Match!AsFound(T)
             list == Match!Recommend(ctx)
  <1>1. S \subseteq Match!Enlisted /\ T \subseteq Match!Enlisted
    BY DEF Match!Matches, Match!Concierge
  <1>2. m \in Nat /\ s \in [1..m -> S] /\ \A i, j \in 1..m : i < j => Match!Before(s[i], s[j], ctx)
    BY <1>1, ListedIs
  <1>3. n \in Nat /\ t \in [1..n -> T] /\ \A o \in T : \E i \in 1..n : t[i] = o
    BY <1>1, ListedIs
  <1>4. (\A o \in S : ~Directory[o].concierge) /\ (\A o \in T : Directory[o].concierge)
    BY DEF Match!Matches, Match!Concierge
  <1>5. list = s \o t
    BY DEF Match!Recommend
  <1> HIDE DEF S, T, m, n, s, t, list
  <1>6. /\ DOMAIN list = 1..(m + n)
        /\ \A i \in 1..(m + n) : list[i] = IF i <= m THEN s[i] ELSE t[i - m]
    <2>1. s \in Seq(S \cup T) /\ Len(s) = m /\ t \in Seq(S \cup T) /\ Len(t) = n
      BY <1>2, <1>3
    <2>2. Len(list) = m + n /\ list \in Seq(S \cup T)
      BY <1>5, <2>1, ConcatProperties
    <2>3. \A i \in 1..(m + n) : list[i] = IF i <= m THEN s[i] ELSE t[i - m]
      BY <1>5, <2>1, ConcatProperties
    <2> QED  BY <2>2, <2>3
  <1>7. \A i \in DOMAIN list : IF i <= m THEN i \in 1..m /\ list[i] = s[i] /\ list[i] \in S
                                         ELSE list[i] \in T
    <2> TAKE i \in DOMAIN list
    <2>1. CASE i <= m
      <3>1. i \in 1..m /\ list[i] = s[i]
        BY <1>2, <1>3, <1>6, <2>1
      <3> QED  BY <1>2, <2>1, <3>1
    <2>2. CASE ~(i <= m)
      <3>1. i - m \in 1..n /\ list[i] = t[i - m]
        BY <1>2, <1>3, <1>6, <2>2
      <3> QED  BY <1>3, <2>2, <3>1
    <2> QED  BY <2>1, <2>2
  <1>8. \A o \in T : \E i \in DOMAIN list : list[i] = o
    <2> TAKE o \in T
    <2>1. PICK i \in 1..n : t[i] = o
      BY <1>3
    <2>2. m + i \in 1..(m + n) /\ ~(m + i <= m) /\ (m + i) - m = i
      BY <1>2, <1>3
    <2>3. list[m + i] = o
      BY <1>6, <2>1, <2>2
    <2> QED  BY <1>6, <2>2, <2>3
  <1>9. \A i \in DOMAIN list : i \in Int
    BY <1>6
  <1>10. \A i, j \in DOMAIN list : i < j /\ Directory[list[i]].concierge => Directory[list[j]].concierge
    <2> SUFFICES ASSUME NEW i \in DOMAIN list, NEW j \in DOMAIN list, i < j, Directory[list[i]].concierge
                 PROVE  Directory[list[j]].concierge
      OBVIOUS
    <2>1. ~(i <= m)
      BY <1>4, <1>7
    <2>2. ~(j <= m)
      BY <1>2, <1>9, <2>1
    <2> QED  BY <1>4, <1>7, <2>2
  <1>11. ASSUME NEW i \in DOMAIN list, NEW j \in DOMAIN list, i < j, ctx.sort = "best",
                ~Directory[list[i]].concierge, ~Directory[list[j]].concierge,
                \A k \in DOMAIN Match!Factors(list[i], ctx) : Match!Factors(list[j], ctx)[k] >= Match!Factors(list[i], ctx)[k]
         PROVE  Match!Score(list[i], ctx) = Match!Score(list[j], ctx) /\ Match!Found(list[i], list[j])
    <2>1. i <= m /\ j <= m
      BY <1>4, <1>7, <1>11
    <2>2. i \in 1..m /\ j \in 1..m /\ list[i] = s[i] /\ list[j] = s[j] /\ list[i] \in S /\ list[j] \in S
      BY <1>7, <2>1
    <2>3. Match!Before(list[i], list[j], ctx)
      BY <1>2, <1>11, <2>2
    <2>4. list[i] \in Match!Enlisted /\ list[j] \in Match!Enlisted
      BY <1>1, <2>2
    <2> QED  BY <1>11, <2>3, <2>4, MeritCounts
  <1>12. ASSUME NEW o \in active
         PROVE  LET f == Match!Factors(o, ctx)  r == Match!Reasons(o, ctx) IN
                /\ Match!Score(o, ctx) \in 0..100
                /\ "coversAll" \in r => f.category = 100
                /\ "fitsBudget" \in r => f.budget = 100
                /\ "available" \in r => f.availability = 100
    <2>1. o \in Match!Enlisted
      OBVIOUS
    <2> QED  BY <2>1, FactorsFit, RankIs DEF Percents
  <1>13. FairTo(list, ctx)
    <2>1. \A o \in Match!Concierge : \E i \in DOMAIN list : list[i] = o
      BY <1>8 DEF T
    <2> QED  BY <2>1, <1>10, <1>11, <1>12 DEF FairTo
  <1> QED  BY <1>13 DEF list

\* The inductive invariant: who asked was answered so.
MatchInv ==
    /\ active \subseteq Match!Enlisted
    /\ asked = Match!NotAsked \/ asked \in Contexts
    /\ \A ctx \in Contexts : asked = ctx /\ asked # Match!NotAsked => FairTo(answer, ctx)

\* A score reads nothing that a question changes.
LEMMA ScoresStand ==
    ASSUME busy' = busy
    PROVE  \A o, ctx : /\ Match!Factors(o, ctx)' = Match!Factors(o, ctx) /\ Match!Reasons(o, ctx)' = Match!Reasons(o, ctx)
                       /\ Match!Score(o, ctx)' = Match!Score(o, ctx)
  <1> TAKE o, ctx
  <1>1. Match!Available(o, ctx)' = Match!Available(o, ctx)
    BY DEF Match!Available
  <1>2. Match!Factors(o, ctx)' = Match!Factors(o, ctx)
    BY <1>1 DEF Match!Factors
  <1>3. Match!Reasons(o, ctx)' = Match!Reasons(o, ctx)
    BY <1>1 DEF Match!Reasons
  <1> QED  BY <1>2, <1>3 DEF Match!Score

\* ... and so what is promised of a list stays true.
LEMMA FairStands ==
    ASSUME active' = active, busy' = busy, NEW list, NEW ctx, FairTo(list, ctx)
    PROVE  FairTo(list, ctx)'
  <1>1. Match!Concierge' = Match!Concierge
    BY DEF Match!Concierge
  <1> QED  BY <1>1, ScoresStand DEF FairTo

\* Nobody asked.
LEMMA MatchStart == ASSUME Match!MatchAssumption, Match!Init PROVE MatchInv
  BY DEF Match!Init, MatchInv

\* A question is answered with what was recommended, and nothing moves after.
LEMMA MatchStep ==
    ASSUME Match!MatchAssumption, MatchInv, [Match!Next]_(Match!matchVars)
    PROVE  MatchInv'
  <1>1. CASE Match!Ask
    <2>1. PICK ctx \in Contexts : asked' = ctx /\ answer' = Match!Recommend(ctx)
      BY <1>1 DEF Match!Ask
    <2>2. active' = active /\ busy' = busy
      BY <1>1 DEF Match!Ask
    <2>3. FairTo(Match!Recommend(ctx), ctx)
      BY RecommendIsFair DEF MatchInv
    <2> DEFINE list == Match!Recommend(ctx)
    <2> HIDE DEF list
    <2>4. FairTo(answer, ctx)'
      BY <2>1, <2>2, <2>3, FairStands
    <2> QED  BY <2>1, <2>2, <2>4 DEF MatchInv
  <1>2. ASSUME NEW o \in Match!Enlisted, NEW d, Match!Block(o, d) PROVE MatchInv'
    BY <1>2 DEF Match!Block, MatchInv
  <1>3. ASSUME NEW o \in Match!Enlisted, Match!Deactivate(o) PROVE MatchInv'
    BY <1>3 DEF Match!Deactivate, MatchInv
  <1>4. CASE UNCHANGED Match!matchVars
    <2>1. active' = active /\ busy' = busy /\ asked' = asked /\ answer' = answer
      BY <1>4 DEF Match!matchVars
    <2>2. ASSUME NEW ctx \in Contexts, FairTo(answer, ctx) PROVE FairTo(answer, ctx)'
      BY <2>1, <2>2, FairStands
    <2> QED  BY <2>1, <2>2 DEF MatchInv
  <1> QED  BY <1>1, <1>2, <1>3, <1>4 DEF Match!Next

\* For any directory and any plan, whatever was blocked or deactivated before: the concierge
\* closes the list, a better match never stands behind a worse one, and a card claims only
\* what its score was given for (recommend, buildReasons).
THEOREM MatchesAreFair ==
    ASSUME Match!MatchAssumption
    PROVE  Match!Spec => [](Match!FallbackClosesTheList /\ Match!MeritDecides)
  <1>1. Match!Init => MatchInv
    BY MatchStart
  <1>2. MatchInv /\ [Match!Next]_(Match!matchVars) => MatchInv'
    BY MatchStep
  <1>3. MatchInv => Match!FallbackClosesTheList /\ Match!MeritDecides
    <2> SUFFICES ASSUME MatchInv, asked # Match!NotAsked PROVE Match!FallbackClosesTheList /\ Match!MeritDecides
      BY DEF Match!FallbackClosesTheList, Match!MeritDecides
    <2>1. FairTo(answer, asked)
      BY DEF MatchInv
    <2>2. Match!FallbackClosesTheList
      BY <2>1 DEF FairTo, Match!FallbackClosesTheList, Match!Range
    <2>3. Match!MeritDecides
      BY <2>1 DEF FairTo, Match!MeritDecides
    <2> QED  BY <2>2, <2>3
  <1> QED  BY <1>1, <1>2, <1>3, PTL DEF Match!Spec

=============================================================================
