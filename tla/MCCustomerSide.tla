----------------------------- MODULE MCCustomerSide -----------------------------
(***************************************************************************)
(* Small instances of the modules a customer meets: briefs and quotations,  *)
(* the invitation and its guests, the memories, messages, the planning      *)
(* board, addresses, plans, organizers to match, Home, support and coupons. *)
(*                                                                          *)
(* A behaviour is a behaviour of one instance, its topic; v1 to v7 hold the *)
(* variables of that module.  The modules share no state at this grain, so  *)
(* one run steps them side by side and no product of them is built.         *)
(*                                                                         *)
(* The modules of the first two instances are the ones CustomerSide_proofs  *)
(* proves about; what it proves of each, for any constants, is carried over *)
(* to the whole at the end.  The third is a desk that works alone.          *)
(***************************************************************************)
EXTENDS Integers, Sequences, FiniteSets, TLAPS

CONSTANTS
    Callers, Pair,  \* one request at a time; two that race
    Organizers, Quotes, Prices, BroadcastLimit, MaxBrief, MaxVersion, FullForms,
    Cards, Designs, Targets, Requests, Legacy,
    Ids, Phones, BadPhone, Sends,
    Uploads, Media, Guests, SubEvents, Prints, InvitedTo, InitialSettings, Switches, MaxPerGuest,
    MaxCreated, Ideas, Labels, Slots,
    Keys, Occasions, Plans, Codes,
    Coupons, Owner, Platform, Offers, Edits, Editors, Admins, Quotations, Organizer, Price,
    AdvancePercentage, LastDay, CLAIMABLE_LIMIT, CLAIMABLE_CANDIDATES,
    Events, Homes, MaxMoves,
    Contacts, Replies, PageSize, REPLY_MESSAGE_LIMIT, MaxMessages,
    Directory, Contexts, PerGuest, DefaultFlat

VARIABLES topic, v1, v2, v3, v4, v5, v6, v7

vars == <<topic, v1, v2, v3, v4, v5, v6, v7>>

-----------------------------------------------------------------------------
(* The instances. One request at a time where a property needs it, two      *)
(* where the race is the point.                                             *)

\* Briefs and their quotations, an invitation, its guests and its album; the address
\* book, the plan wizard and the organizers to match of one customer;
\* a thread, the contact desk, and Home while the event moves on.
Serial == INSTANCE CustomerSide_proofs WITH
    request <- v1, quote <- v2, task <- v3,
    invitation <- v1, guest <- v2, desk <- v3, made <- v4,
    guests <- v1, call <- v2, handed <- v3,
    settings <- v1, media <- v2, files <- v3, upload <- v4, leaving <- v5, passed <- v6,
    book <- v1, chosen <- v2, slip <- v4, ideas <- v1, vision <- v2, agreed <- v4, crossed <- v5,
    menu <- v1, plans <- v2, told <- v4,
    coupon <- v1, used <- v2, redemptions <- v4, order <- v5, booking <- v6, today <- v7,
    event <- v1, home <- v2, moves <- v3,
    contact <- v1, mailed <- v2, last <- v4, inbox <- v5,
    thread <- v1, conv <- v2, profile <- v4, lost <- v6, seen <- v7,
    active <- v1, busy <- v2, asked <- v3, answer <- v4

\* A quotation is revised while its request is edited and answered; the organizer
\* sends while the customer approves and asks for changes; two requests add guests; an
\* approval overlaps with a reply on the planning board; one item is removed twice at once,
\* and stored again; two admins add the same occasion; two admins, one sending a type and one a value, edit
\* the coupons of two orders; Home reads two events at one instant.
Races == INSTANCE CustomerSide_proofs WITH
    Callers <- Pair, Organizers <- {"a"}, Quotes <- {"q1"}, Prices <- {1, 2}, FullForms <- FALSE,
    Cards <- {}, Designs <- {}, Targets <- {}, Requests <- {"r1", "r2"}, Plans <- {1}, Codes <- {1},
    Admins <- Editors, Events <- {"e1", "e2"}, Homes <- {},
    Uploads <- Pair, Media <- {"m1"}, Guests <- {"g1"}, InvitedTo <- [g \in {"g1"} |-> {}],
    request <- v1, quote <- v2, task <- v3,
    invitation <- v1, guest <- v2, desk <- v3, made <- v4,
    guests <- v1, call <- v2, handed <- v3,
    settings <- v1, media <- v2, files <- v3, upload <- v4, leaving <- v5, passed <- v6,
    book <- v1, chosen <- v2, slip <- v4, ideas <- v1, vision <- v2, agreed <- v4, crossed <- v5,
    menu <- v1, plans <- v2, told <- v4,
    coupon <- v1, used <- v2, redemptions <- v4, order <- v5, booking <- v6, today <- v7,
    event <- v1, home <- v2, moves <- v3,
    contact <- v1, mailed <- v2, last <- v4, inbox <- v5,
    thread <- v1, conv <- v2, profile <- v4, lost <- v6, seen <- v7,
    active <- v1, busy <- v2, asked <- v3, answer <- v4

\* The values of the constants that no configuration can write down.
TwoDesigns == {[seen |-> "all", url |-> TRUE, live |-> TRUE], [seen |-> "mine", url |-> FALSE, live |-> TRUE]}
FirstIsInvited == [g \in {"g1", "g2"} |-> IF g = "g1" THEN {"e"} ELSE {}]
AllOn == {[s \in {"enabled", "guestUpload", "guestView", "guestDownload", "moderation"} |-> TRUE]}

\* The organizers to match: two that differ, and the concierge; and what a plan may ask.
Profile(found, places, tier, rating, concierge) ==
    [found |-> found, rates |-> [food |-> [price |-> 9, perGuest |-> TRUE]], tags |-> {"music"},
     capacityMin |-> 0, capacityMax |-> 200, basePrice |-> 100, pricePerGuest |-> 5, places |-> places,
     occasions |-> {"wedding"}, rating |-> rating, events |-> 400, responseRate |-> 95,
     responseHours |-> 6, tier |-> tier, venues |-> {"indoor"}, concierge |-> concierge]

ThreeOrganizers ==
    [a |-> Profile(1, {"north"}, "Gold", 49, FALSE),
     b |-> [Profile(2, {"town"}, "Platinum", 40, FALSE) EXCEPT
              !.tags = {"music", "decor"}, !.basePrice = 300, !.capacityMin = 50, !.events = 20],
     e |-> Profile(3, {}, "Silver", 0, TRUE)]

SomeContexts ==
    [categories : SUBSET {"food", "decor"}, guests : {0, 100}, budget : {0, 1000}, day : {0, 1},
     area : {"north"}, city : {"", "town"}, occasion : {"wedding"}, minRating : {0, 45}, tiers : {{}},
     maxPrice : {0}, availableOnly : BOOLEAN, venue : {""}, requireCategories : {{}, {"decor"}},
     sort : {"best", "nearest"}]

FlatDecor == [decor |-> 55]

\* One slot that ends today, or a cap that starts tomorrow, on the platform's; an
\* organizer's own beside it; and prices and advances that do not round alike.
CouponTerms(type, value, cap, min, starts, ends, limit, perCustomer) ==
    [status |-> "active", type |-> type, value |-> value, cap |-> cap, min |-> min, starts |-> starts,
     ends |-> ends, limit |-> limit, perCustomer |-> perCustomer]

OneOfEach   == [p |-> "evently", o |-> "a"]
TermsOfEach == [p |-> {CouponTerms("percentage", 15, 0, 0, 0, 1, 1, 1),
                       CouponTerms("percentage", 15, 40, 600, 2, 0, 0, 0)},
                o |-> {CouponTerms("fixed", 90, 0, 0, 0, 0, 0, 2)}]
TypeOrValue == {[type |-> "percentage"], [value |-> 200]}
FromTwo     == [q1 |-> "a", q2 |-> "b"]
TwoPrices   == [q1 |-> 1999, q2 |-> 500]
TwoAdvances == [q1 |-> 30, q2 |-> 33]

\* An organizer's desk alone.
Shop == INSTANCE CouponDesk WITH
    Coupons <- {"o"}, Owner <- [o |-> "a"], Platform <- "evently",
    Offers <- [o |-> {CouponTerms("fixed", 90, 0, 0, 0, 0, 0, 2)}],
    Edits <- {[value |-> 200]}, Editors <- {"a"}, Admins <- {},
    Quotations <- {}, Organizer <- <<>>, Price <- <<>>, AdvancePercentage <- <<>>,
    LastDay <- 0, CLAIMABLE_LIMIT <- 1, CLAIMABLE_CANDIDATES <- 1,
    coupon <- v1, used <- v2, rows <- v3, order <- v4, booking <- v5, today <- v6, desk <- v7

ASSUME CustomerAssumption ==
    /\ Serial!Briefs!QuoteAssumption /\ Races!Briefs!QuoteAssumption
    /\ Serial!Versions!InvitationAssumption /\ Races!Versions!InvitationAssumption
    /\ Races!Invitees!GuestAssumption
    /\ Serial!Album!MemoriesAssumption /\ Races!Album!MemoriesAssumption
    /\ Serial!Book!AddressesAssumption
    /\ Serial!Wizard!PlanAssumption /\ Races!Wizard!PlanAssumption
    /\ Races!Discounts!CouponAssumption /\ Serial!Talks!ConversationsAssumption
    /\ Serial!Feed!FeedAssumption /\ Races!Feed!FeedAssumption /\ Serial!Match!MatchAssumption

-----------------------------------------------------------------------------
(* One topic at a time; the variables it does not use stay put.             *)

About(t) == topic = t

Empty7 == v7 = 0
Empty6 == v6 = 0 /\ Empty7
Empty5 == v5 = 0 /\ Empty6
Empty4 == v4 = 0 /\ Empty5

Keep7 == UNCHANGED <<topic, v7>>
Keep6 == UNCHANGED <<topic, v6, v7>>
Keep5 == UNCHANGED <<topic, v5, v6, v7>>
Keep4 == UNCHANGED <<topic, v4, v5, v6, v7>>

Init ==
    \/ About("quotes")    /\ Serial!Briefs!Init      /\ Empty4
    \/ About("revisions") /\ Races!Briefs!Init       /\ Empty4
    \/ About("changes")   /\ Races!Versions!Init     /\ Empty5
    \/ About("versions")  /\ Serial!Versions!Init    /\ Empty5
    \/ About("guests")    /\ Races!Invitees!Init     /\ Empty4
    \/ About("album")     /\ Serial!Album!Init       /\ Empty7
    \/ About("removals")  /\ Races!Album!Init        /\ Empty7
    \/ About("talks")     /\ Serial!Talks!Init
    \/ About("board")     /\ Races!Board!Init        /\ Empty6
    \/ About("book")      /\ Serial!Book!Init        /\ Empty5
    \/ About("wizard")    /\ Serial!Wizard!Init      /\ Empty5
    \/ About("setup")     /\ Races!Wizard!Init       /\ Empty5
    \/ About("match")     /\ Serial!Match!Init       /\ Empty5
    \/ About("feed")      /\ Serial!Feed!Init        /\ Empty4
    \/ About("feeds")     /\ Races!Feed!Init         /\ Empty4
    \/ About("support")   /\ Serial!Support!Init     /\ Empty6
    \/ About("coupons")   /\ Races!Discounts!Init
    \/ About("shop")      /\ Shop!Init

StepQuotes    == About("quotes")      /\ Serial!Briefs!Next      /\ Keep4
StepRevisions == About("revisions")   /\ Races!Briefs!Next       /\ Keep4
StepChanges   == About("changes")     /\ Races!Versions!Next     /\ Keep5
StepVersions  == About("versions")    /\ Serial!Versions!Next    /\ Keep5
StepGuests    == About("guests")      /\ Races!Invitees!Next     /\ Keep4
StepAlbum     == About("album")       /\ Serial!Album!Next       /\ Keep7
StepRemovals  == About("removals")    /\ Races!Album!Next        /\ Keep7
StepTalks     == About("talks")       /\ Serial!Talks!Next       /\ UNCHANGED topic
StepBoard     == About("board")       /\ Races!Board!Next        /\ Keep6
StepBook      == About("book")        /\ Serial!Book!Next        /\ Keep5
StepWizard    == About("wizard")      /\ Serial!Wizard!Next      /\ Keep5
StepSetup     == About("setup")       /\ Races!Wizard!Next       /\ Keep5
StepMatch     == About("match")       /\ Serial!Match!Next       /\ Keep5
StepFeed      == About("feed")        /\ Serial!Feed!Next        /\ Keep4
StepFeeds     == About("feeds")       /\ Races!Feed!Next         /\ Keep4
StepSupport   == About("support")     /\ Serial!Support!Next     /\ Keep6
StepCoupons   == About("coupons")     /\ Races!Discounts!Next    /\ UNCHANGED topic
StepShop      == About("shop")        /\ Shop!Next               /\ UNCHANGED topic

Next ==
    \/ StepQuotes \/ StepRevisions \/ StepChanges \/ StepVersions \/ StepGuests \/ StepAlbum
    \/ StepRemovals \/ StepTalks \/ StepBoard
    \/ StepBook \/ StepWizard \/ StepSetup \/ StepMatch \/ StepFeed \/ StepFeeds \/ StepSupport
    \/ StepCoupons \/ StepShop

Spec == Init /\ [][Next]_vars

-----------------------------------------------------------------------------
(* The properties, each of the instance it is about; what each says in full *)
(* is stated beside the definitions they name.                              *)

\* A bookable quotation closes its brief, whatever can still be compared prices
\* the brief as it now reads, and every screen tells that one story.
BriefsAreSound ==
    /\ About("quotes")    => Serial!Briefs!BriefsAreSound
    /\ About("revisions") => Races!Briefs!BriefsAreSound

\* No step changes the terms of a quotation the customer accepted: its price, the
\* brief it prices and the version of its lines.
AcceptedTermsStand == [][About("quotes") => Serial!Briefs!TermsStand]_vars

\* A change request the customer was told was made is never overwritten, and
\* what was approved and what guests are shown is one version.
VersionsAreKept ==
    /\ About("changes")  => Races!Versions!VersionsAreKept
    /\ About("versions") => Serial!Versions!VersionsAreKept

\* A guest link that opens keeps opening, through every edit and new version.
LinkStaysLive ==
    [][/\ About("changes")  => Races!Versions!StaysLive
       /\ About("versions") => Serial!Versions!StaysLive]_vars

\* Two requests at once leave one guest per number, and no share is forgotten.
GuestsAreKept == About("guests") => Races!Invitees!GuestsAreKept

\* What a gallery lists can be opened and was passed, and its file is there.
AlbumIsWhole ==
    /\ About("album")    => Serial!Album!AlbumIsWhole
    /\ About("removals") => Races!Album!AlbumIsWhole

\* Wherever a call fails, badges count what is unread, each answer that is measured
\* is one answer, a box has one notice per thing, and a contact message's
\* "responseEmailed" is about the answer that is kept.
TalksAreHonest ==
    /\ About("talks")   => Serial!Talks!BadgeIsHonest /\ Serial!Talks!OneReplyPerAnswer /\ Serial!Talks!OneNoticePerThing
    /\ About("support") => Serial!Support!FlagTellsOfTheAnswer

\* Picker, strip and checkout judge a coupon alike, and whatever is edited
\* meanwhile a booking's numbers add up, agree with the ledger and, while
\* nobody edits, are what the order asked.
CouponsAreHonest ==
    About("coupons") =>
        Races!Discounts!PickerKeepsItsWord /\ Races!Discounts!LedgerTellsTheCharge /\ Races!Discounts!BookedAsAsked

\* What is approved is what the approval found, unless an approval and a reply
\* that asks for one overlapped.
BoardIsHonest == About("board") => Races!Board!ApprovalIsForTheLabel

\* The marks on the addresses are the customer's one choice, through every order
\* of creating, choosing, unmarking and removing.
OneIsChosen == About("book") => Serial!Book!OneIsChosen

\* One request at a time there is one draft, every told code still names its plan,
\* and what was submitted names an occasion; and a key names one occasion
\* whatever two admins do.
PlansAreHonest ==
    /\ About("wizard") => Serial!Wizard!OneDraftOneCode
    /\ About("setup")  => Races!Wizard!KeysDiffer

\* The fallback closes the list, and only merit decides the order before it.
MatchIsFair == About("match") => Serial!Match!FallbackClosesTheList /\ Serial!Match!MeritDecides

\* However Home's reads interleave with the writes, a brief and its booking are
\* one card and an undisturbed request shows the records as they stand; read at
\* one instant, every open event has a card and none is ahead of the first.
FeedIsHonest ==
    /\ About("feed")  => Serial!Feed!BriefOrBooking /\ Serial!Feed!SettledIsNow
    /\ About("feeds") => Races!Feed!NothingIsHidden

-----------------------------------------------------------------------------
(* What the source says of itself and these instances refute.               *)

\* What can still be compared prices the brief as it now reads.
LivePricesTheBrief == About("revisions") => Races!Briefs!LivePricesTheBrief

\* An accepted quotation is not edited, not even by a handler that read it before.
AcceptedIsNotEdited == [][About("revisions") => Races!Briefs!TermsStand]_vars

\* A booking is charged what its order showed, whoever edits the coupon.
ChargedAsShown == About("coupons") => Races!Discounts!ChargedAsShown

\* With no removal under way, no tile is broken.
NoBrokenTile == About("album") => Serial!Album!NoBrokenTile

\* The address chosen last is the default, even if it was the default before.
ChosenIsDefault == About("book") => Serial!Book!ChosenIsDefault

\* A reply that asks puts an approval back to pending, whatever overlaps with it.
AskingResets == About("board") => Races!Board!AskingResets

\* Where no badge was lost and none is left, every message to the reader was shown.
SeenIsShown == About("talks") => Serial!Talks!SeenIsShown

\* The badge of the most planned occasion is for submissions.
BadgeCountsSubmissions == About("wizard") => Serial!Wizard!BadgeCountsSubmissions

\* An organizer's own coupon is not answered with 404.
OwnCouponsAreFound == About("shop") => Shop!OnlyOthersAreMissing

-----------------------------------------------------------------------------
(* What CustomerSide_proofs proves of a module holds of the whole, while   *)
(* that module is the topic; for any value of the constants.                *)

\* A step is of the topic's module, and keeps the topic.
LEMMA EveryStep ==
    ASSUME [Next]_vars
    PROVE  /\ topic' = topic
           /\ About("quotes")    => [Serial!Briefs!Next]_(Serial!Briefs!vars)
           /\ About("revisions") => [Races!Briefs!Next]_(Races!Briefs!vars)
           /\ About("changes")   => [Races!Versions!Next]_(Races!Versions!invitationVars)
           /\ About("versions")  => [Serial!Versions!Next]_(Serial!Versions!invitationVars)
           /\ About("guests")    => [Races!Invitees!Next]_(Races!Invitees!guestVars)
           /\ About("album")     => [Serial!Album!Next]_(Serial!Album!memoryVars)
           /\ About("removals")  => [Races!Album!Next]_(Races!Album!memoryVars)
           /\ About("book")      => [Serial!Book!Next]_(Serial!Book!addressVars)
           /\ About("board")     => [Races!Board!Next]_(Races!Board!boardVars)
           /\ About("wizard")    => [Serial!Wizard!Next]_(Serial!Wizard!planVars)
           /\ About("setup")     => [Races!Wizard!Next]_(Races!Wizard!planVars)
           /\ About("talks")     => [Serial!Talks!Next]_(Serial!Talks!conversationVars)
           /\ About("match")     => [Serial!Match!Next]_(Serial!Match!matchVars)
           /\ About("feed")      => [Serial!Feed!Next]_(Serial!Feed!homeVars)
           /\ About("feeds")     => [Races!Feed!Next]_(Races!Feed!homeVars)
           /\ About("support")   => [Serial!Support!Next]_(Serial!Support!deskVars)
           /\ About("coupons")   => [Races!Discounts!Next]_(Races!Discounts!couponVars)
  BY DEF Next, vars, About, Keep4, Keep5, Keep6, Keep7,
       StepQuotes, StepRevisions, StepChanges, StepVersions, StepGuests, StepAlbum, StepRemovals, StepTalks,
       StepBoard, StepBook, StepWizard, StepSetup, StepMatch, StepFeed, StepFeeds, StepSupport,
       StepCoupons, StepShop,
       Serial!Briefs!vars, Races!Briefs!vars, Races!Versions!invitationVars,
       Serial!Versions!invitationVars, Races!Invitees!guestVars,
       Serial!Album!memoryVars, Races!Album!memoryVars, Serial!Book!addressVars, Races!Board!boardVars,
       Serial!Wizard!planVars, Races!Wizard!planVars, Serial!Talks!conversationVars,
       Serial!Match!matchVars, Serial!Feed!homeVars, Races!Feed!homeVars,
       Serial!Support!deskVars, Races!Discounts!couponVars

\* So it is about one topic from the start, and a behaviour of its module.
LEMMA QuotesRun == Spec => []~About("quotes") \/ ([]About("quotes") /\ Serial!Briefs!Spec)
  <1>1. Init /\ About("quotes") => Serial!Briefs!Init
    BY DEF Init, About
  <1>2. [Next]_vars /\ About("quotes") => [Serial!Briefs!Next]_(Serial!Briefs!vars) /\ About("quotes")'
    BY EveryStep DEF About
  <1>3. [Next]_vars /\ ~About("quotes") => ~About("quotes")'
    BY EveryStep DEF About
  <1> QED  BY <1>1, <1>2, <1>3, PTL DEF Spec, Serial!Briefs!Spec

LEMMA RevisionsRun == Spec => []~About("revisions") \/ ([]About("revisions") /\ Races!Briefs!Spec)
  <1>1. Init /\ About("revisions") => Races!Briefs!Init
    BY DEF Init, About
  <1>2. [Next]_vars /\ About("revisions") => [Races!Briefs!Next]_(Races!Briefs!vars) /\ About("revisions")'
    BY EveryStep DEF About
  <1>3. [Next]_vars /\ ~About("revisions") => ~About("revisions")'
    BY EveryStep DEF About
  <1> QED  BY <1>1, <1>2, <1>3, PTL DEF Spec, Races!Briefs!Spec

LEMMA ChangesRun == Spec => []~About("changes") \/ ([]About("changes") /\ Races!Versions!Spec)
  <1>1. Init /\ About("changes") => Races!Versions!Init
    BY DEF Init, About
  <1>2. [Next]_vars /\ About("changes") => [Races!Versions!Next]_(Races!Versions!invitationVars) /\ About("changes")'
    BY EveryStep DEF About
  <1>3. [Next]_vars /\ ~About("changes") => ~About("changes")'
    BY EveryStep DEF About
  <1> QED  BY <1>1, <1>2, <1>3, PTL DEF Spec, Races!Versions!Spec

LEMMA VersionsRun == Spec => []~About("versions") \/ ([]About("versions") /\ Serial!Versions!Spec)
  <1>1. Init /\ About("versions") => Serial!Versions!Init
    BY DEF Init, About
  <1>2. [Next]_vars /\ About("versions") => [Serial!Versions!Next]_(Serial!Versions!invitationVars) /\ About("versions")'
    BY EveryStep DEF About
  <1>3. [Next]_vars /\ ~About("versions") => ~About("versions")'
    BY EveryStep DEF About
  <1> QED  BY <1>1, <1>2, <1>3, PTL DEF Spec, Serial!Versions!Spec

LEMMA GuestsRun == Spec => []~About("guests") \/ ([]About("guests") /\ Races!Invitees!Spec)
  <1>1. Init /\ About("guests") => Races!Invitees!Init
    BY DEF Init, About
  <1>2. [Next]_vars /\ About("guests") => [Races!Invitees!Next]_(Races!Invitees!guestVars) /\ About("guests")'
    BY EveryStep DEF About
  <1>3. [Next]_vars /\ ~About("guests") => ~About("guests")'
    BY EveryStep DEF About
  <1> QED  BY <1>1, <1>2, <1>3, PTL DEF Spec, Races!Invitees!Spec

LEMMA AlbumRun == Spec => []~About("album") \/ ([]About("album") /\ Serial!Album!Spec)
  <1>1. Init /\ About("album") => Serial!Album!Init
    BY DEF Init, About
  <1>2. [Next]_vars /\ About("album") => [Serial!Album!Next]_(Serial!Album!memoryVars) /\ About("album")'
    BY EveryStep DEF About
  <1>3. [Next]_vars /\ ~About("album") => ~About("album")'
    BY EveryStep DEF About
  <1> QED  BY <1>1, <1>2, <1>3, PTL DEF Spec, Serial!Album!Spec

LEMMA RemovalsRun == Spec => []~About("removals") \/ ([]About("removals") /\ Races!Album!Spec)
  <1>1. Init /\ About("removals") => Races!Album!Init
    BY DEF Init, About
  <1>2. [Next]_vars /\ About("removals") => [Races!Album!Next]_(Races!Album!memoryVars) /\ About("removals")'
    BY EveryStep DEF About
  <1>3. [Next]_vars /\ ~About("removals") => ~About("removals")'
    BY EveryStep DEF About
  <1> QED  BY <1>1, <1>2, <1>3, PTL DEF Spec, Races!Album!Spec

LEMMA BookRun == Spec => []~About("book") \/ ([]About("book") /\ Serial!Book!Spec)
  <1>1. Init /\ About("book") => Serial!Book!Init
    BY DEF Init, About
  <1>2. [Next]_vars /\ About("book") => [Serial!Book!Next]_(Serial!Book!addressVars) /\ About("book")'
    BY EveryStep DEF About
  <1>3. [Next]_vars /\ ~About("book") => ~About("book")'
    BY EveryStep DEF About
  <1> QED  BY <1>1, <1>2, <1>3, PTL DEF Spec, Serial!Book!Spec

LEMMA BoardRun == Spec => []~About("board") \/ ([]About("board") /\ Races!Board!Spec)
  <1>1. Init /\ About("board") => Races!Board!Init
    BY DEF Init, About
  <1>2. [Next]_vars /\ About("board") => [Races!Board!Next]_(Races!Board!boardVars) /\ About("board")'
    BY EveryStep DEF About
  <1>3. [Next]_vars /\ ~About("board") => ~About("board")'
    BY EveryStep DEF About
  <1> QED  BY <1>1, <1>2, <1>3, PTL DEF Spec, Races!Board!Spec

LEMMA WizardRun == Spec => []~About("wizard") \/ ([]About("wizard") /\ Serial!Wizard!Spec)
  <1>1. Init /\ About("wizard") => Serial!Wizard!Init
    BY DEF Init, About
  <1>2. [Next]_vars /\ About("wizard") => [Serial!Wizard!Next]_(Serial!Wizard!planVars) /\ About("wizard")'
    BY EveryStep DEF About
  <1>3. [Next]_vars /\ ~About("wizard") => ~About("wizard")'
    BY EveryStep DEF About
  <1> QED  BY <1>1, <1>2, <1>3, PTL DEF Spec, Serial!Wizard!Spec

LEMMA SetupRun == Spec => []~About("setup") \/ ([]About("setup") /\ Races!Wizard!Spec)
  <1>1. Init /\ About("setup") => Races!Wizard!Init
    BY DEF Init, About
  <1>2. [Next]_vars /\ About("setup") => [Races!Wizard!Next]_(Races!Wizard!planVars) /\ About("setup")'
    BY EveryStep DEF About
  <1>3. [Next]_vars /\ ~About("setup") => ~About("setup")'
    BY EveryStep DEF About
  <1> QED  BY <1>1, <1>2, <1>3, PTL DEF Spec, Races!Wizard!Spec

LEMMA TalksRun == Spec => []~About("talks") \/ ([]About("talks") /\ Serial!Talks!Spec)
  <1>1. Init /\ About("talks") => Serial!Talks!Init
    BY DEF Init, About
  <1>2. [Next]_vars /\ About("talks") => [Serial!Talks!Next]_(Serial!Talks!conversationVars) /\ About("talks")'
    BY EveryStep DEF About
  <1>3. [Next]_vars /\ ~About("talks") => ~About("talks")'
    BY EveryStep DEF About
  <1> QED  BY <1>1, <1>2, <1>3, PTL DEF Spec, Serial!Talks!Spec

LEMMA MatchRun == Spec => []~About("match") \/ ([]About("match") /\ Serial!Match!Spec)
  <1>1. Init /\ About("match") => Serial!Match!Init
    BY DEF Init, About
  <1>2. [Next]_vars /\ About("match") => [Serial!Match!Next]_(Serial!Match!matchVars) /\ About("match")'
    BY EveryStep DEF About
  <1>3. [Next]_vars /\ ~About("match") => ~About("match")'
    BY EveryStep DEF About
  <1> QED  BY <1>1, <1>2, <1>3, PTL DEF Spec, Serial!Match!Spec

LEMMA FeedRun == Spec => []~About("feed") \/ ([]About("feed") /\ Serial!Feed!Spec)
  <1>1. Init /\ About("feed") => Serial!Feed!Init
    BY DEF Init, About
  <1>2. [Next]_vars /\ About("feed") => [Serial!Feed!Next]_(Serial!Feed!homeVars) /\ About("feed")'
    BY EveryStep DEF About
  <1>3. [Next]_vars /\ ~About("feed") => ~About("feed")'
    BY EveryStep DEF About
  <1> QED  BY <1>1, <1>2, <1>3, PTL DEF Spec, Serial!Feed!Spec

LEMMA FeedsRun == Spec => []~About("feeds") \/ ([]About("feeds") /\ Races!Feed!Spec)
  <1>1. Init /\ About("feeds") => Races!Feed!Init
    BY DEF Init, About
  <1>2. [Next]_vars /\ About("feeds") => [Races!Feed!Next]_(Races!Feed!homeVars) /\ About("feeds")'
    BY EveryStep DEF About
  <1>3. [Next]_vars /\ ~About("feeds") => ~About("feeds")'
    BY EveryStep DEF About
  <1> QED  BY <1>1, <1>2, <1>3, PTL DEF Spec, Races!Feed!Spec

LEMMA SupportRun == Spec => []~About("support") \/ ([]About("support") /\ Serial!Support!Spec)
  <1>1. Init /\ About("support") => Serial!Support!Init
    BY DEF Init, About
  <1>2. [Next]_vars /\ About("support") => [Serial!Support!Next]_(Serial!Support!deskVars) /\ About("support")'
    BY EveryStep DEF About
  <1>3. [Next]_vars /\ ~About("support") => ~About("support")'
    BY EveryStep DEF About
  <1> QED  BY <1>1, <1>2, <1>3, PTL DEF Spec, Serial!Support!Spec

LEMMA CouponsRun == Spec => []~About("coupons") \/ ([]About("coupons") /\ Races!Discounts!Spec)
  <1>1. Init /\ About("coupons") => Races!Discounts!Init
    BY DEF Init, About
  <1>2. [Next]_vars /\ About("coupons") => [Races!Discounts!Next]_(Races!Discounts!couponVars) /\ About("coupons")'
    BY EveryStep DEF About
  <1>3. [Next]_vars /\ ~About("coupons") => ~About("coupons")'
    BY EveryStep DEF About
  <1> QED  BY <1>1, <1>2, <1>3, PTL DEF Spec, Races!Discounts!Spec

\* The screens of a request agree however many handlers run at once; and where they do not
\* overlap, an accepted quotation closes its request and whatever can still be compared prices
\* the brief as it now reads (acceptQuotation, updateRequest).
THEOREM BriefsKept == Spec => []BriefsAreSound
  <1>1. Serial!Briefs!Spec => []Serial!Briefs!BriefsAreSound
    BY Serial!BriefsStaySound, CustomerAssumption
  <1>2. Races!Briefs!Spec => []Races!Briefs!BriefsAreSound
    BY Races!BriefsStaySound, CustomerAssumption
  <1> QED  BY <1>1, <1>2, QuotesRun, RevisionsRun, PTL DEF BriefsAreSound

\* Where handlers do not overlap, no step changes the price of an accepted quotation, the brief
\* it prices or the version of its lines (updateQuotation).
THEOREM AcceptedTermsKept == ASSUME Serial!Briefs!Alone PROVE Spec => AcceptedTermsStand
  <1>1. Serial!Briefs!Spec => Serial!Briefs!AcceptedTermsStand
    BY Serial!AcceptedPricesStand, CustomerAssumption
  <1>2. UNCHANGED Serial!Briefs!vars => Serial!Briefs!TermsStand
    BY DEF Serial!Briefs!TermsStand, Serial!Briefs!SameTerms, Serial!Briefs!vars
  <1> QED  BY <1>1, <1>2, QuotesRun, PTL DEF AcceptedTermsStand, Serial!Briefs!AcceptedTermsStand

\* No change request answered "made" is overwritten however handlers overlap; and where they do
\* not, guests are shown the version that was approved (sendToCustomer, approve).
THEOREM VersionsKept == Spec => []VersionsAreKept
  <1>1. Races!Versions!Spec => []Races!Versions!VersionsAreKept
    BY Races!VersionsStandKept, CustomerAssumption
  <1>2. Serial!Versions!Spec => []Serial!Versions!VersionsAreKept
    BY Serial!VersionsStandKept, CustomerAssumption
  <1> QED  BY <1>1, <1>2, ChangesRun, VersionsRun, PTL DEF VersionsAreKept

\* With no approved row from before versions were kept, a guest link that opens keeps opening.
THEOREM LinksKept == ASSUME ~Legacy PROVE Spec => LinkStaysLive
  <1>1. Races!Versions!Spec => Races!Versions!LinkStaysLive
    BY Races!GuestLinksStayLive, CustomerAssumption
  <1>2. UNCHANGED Races!Versions!invitationVars => Races!Versions!StaysLive
    BY DEF Races!Versions!StaysLive, Races!Versions!invitationVars, Races!Versions!IsLiveForGuests
  <1>3. Serial!Versions!Spec => Serial!Versions!LinkStaysLive
    BY Serial!GuestLinksStayLive, CustomerAssumption
  <1>4. UNCHANGED Serial!Versions!invitationVars => Serial!Versions!StaysLive
    BY DEF Serial!Versions!StaysLive, Serial!Versions!invitationVars, Serial!Versions!IsLiveForGuests
  <1> QED  BY <1>1, <1>2, <1>3, <1>4, ChangesRun, VersionsRun, PTL DEF LinkStaysLive, Races!Versions!LinkStaysLive, Serial!Versions!LinkStaysLive

\* However many requests add, share and renumber at once, a number has one row and no share
\* is forgotten (addGuest, shareWithGuest, recordShare).
THEOREM GuestsKept == Spec => []GuestsAreKept
  <1>1. Races!Invitees!Spec => []Races!Invitees!GuestsAreKept
    BY Races!GuestsStayOnTheList, CustomerAssumption
  <1> QED  BY <1>1, GuestsRun, PTL DEF GuestsAreKept

\* What a gallery lists can be opened and was passed, and its file is there unless its removal
\* has begun, however uploads and removals interleave and wherever one stops, with verdicts,
\* overrides and hiding, each one step, in between.
THEOREM AlbumsKept == Spec => []AlbumIsWhole
  <1>1. Serial!Album!Spec => []Serial!Album!AlbumIsWhole
    BY Serial!AlbumsStayWhole, CustomerAssumption
  <1>2. Races!Album!Spec => []Races!Album!AlbumIsWhole
    BY Races!AlbumsStayWhole, CustomerAssumption
  <1> QED  BY <1>1, <1>2, AlbumRun, RemovalsRun, PTL DEF AlbumIsWhole

\* Where requests do not overlap, and wherever one fails, the address marked is the one the
\* customer chose last, or its heir, and no other (create, update, setDefault, remove).
THEOREM AddressesKept == ASSUME Serial!Book!Alone PROVE Spec => []OneIsChosen
  <1>1. Serial!Book!Spec => []Serial!Book!OneIsChosen
    BY Serial!AddressesStayChosen, CustomerAssumption
  <1> QED  BY <1>1, BookRun, PTL DEF OneIsChosen

\* However many requests overlap, what is approved is the label the approval's handler found, but
\* on a post where an approval and a reply that asks overlapped (approve, reply).
THEOREM BoardKept == Spec => []BoardIsHonest
  <1>1. Races!Board!Spec => []Races!Board!ApprovalIsForTheLabel
    BY Races!BoardsStayHonest
  <1> QED  BY <1>1, BoardRun, PTL DEF BoardIsHonest

\* A slug names one occasion, whoever overlaps; and one customer's requests, taken in turn, leave
\* one draft, codes that name their plans, and an occasion with all that was submitted (insert,
\* saveDraft, submit, update, remove).
THEOREM PlansKept == ASSUME Serial!Wizard!Alone PROVE Spec => []PlansAreHonest
  <1>1. Serial!Wizard!Spec => []Serial!Wizard!OneDraftOneCode
    BY Serial!DraftsStayOne, CustomerAssumption
  <1>2. Races!Wizard!Spec => []Races!Wizard!KeysDiffer
    BY Races!KeysStayDifferent, CustomerAssumption
  <1> QED  BY <1>1, <1>2, WizardRun, SetupRun, PTL DEF PlansAreHonest

\* Whatever is edited meanwhile, picker, strip and checkout judge a coupon alike, and a booking's
\* numbers add up, agree with the ledger and, while nobody edits, are what its order asked
\* (listAvailable, claimable, quote, book, update).
THEOREM CouponsKept == Spec => []CouponsAreHonest
  <1>1. Races!Discounts!Spec
          => [](Races!Discounts!PickerKeepsItsWord /\ Races!Discounts!LedgerTellsTheCharge /\ Races!Discounts!BookedAsAsked)
    BY Races!CouponsStayHonest, CustomerAssumption
  <1> QED  BY <1>1, CouponsRun, PTL DEF CouponsAreHonest

\* However Home's reads interleave with the writes, a brief and its booking are one card and an
\* undisturbed request shows the records as they stand; read at one instant, every open event
\* has a card and none is ahead of the first (activeEvents).
THEOREM FeedsKept == Spec => []FeedIsHonest
  <1>1. Serial!Feed!Spec => [](Serial!Feed!BriefOrBooking /\ Serial!Feed!NothingIsHidden /\ Serial!Feed!SettledIsNow)
    BY Serial!FeedsStayHonest, CustomerAssumption
  <1>2. Races!Feed!Spec => [](Races!Feed!BriefOrBooking /\ Races!Feed!NothingIsHidden /\ Races!Feed!SettledIsNow)
    BY Races!FeedsStayHonest, CustomerAssumption
  <1> QED  BY <1>1, <1>2, FeedRun, FeedsRun, PTL DEF FeedIsHonest

\* Where requests do not overlap and a thread fits the page, a badge counts what was not shown,
\* but for messages whose count was lost; once a refresh gets through, every answer among the
\* messages it reads is counted once; a box has one notice per thing, and "responseEmailed" is
\* about the answer that is kept (messages, send, refreshReplyTime, create, respond).
THEOREM TalksKept ==
    ASSUME Serial!TalksAlone, Serial!AnswersAlone, Serial!FitsAPage
    PROVE  Spec => []TalksAreHonest
  <1>1. Serial!Talks!Spec => []((Serial!FitsAPage => Serial!Talks!BadgeIsHonest)
                                 /\ Serial!Talks!OneReplyPerAnswer /\ Serial!Talks!OneNoticePerThing)
    BY Serial!TalksAreKept, CustomerAssumption
  <1>2. Serial!Support!Spec => []Serial!Support!FlagTellsOfTheAnswer
    BY Serial!AnswersAreTold
  <1> QED  BY <1>1, <1>2, TalksRun, SupportRun, PTL DEF TalksAreHonest

\* Whoever was blocked or deactivated before, the concierge closes the list and a better match
\* never stands behind a worse one (recommend).
THEOREM MatchKept == Spec => []MatchIsFair
  <1>1. Serial!Match!Spec => [](Serial!Match!FallbackClosesTheList /\ Serial!Match!MeritDecides)
    BY Serial!MatchesAreFair, CustomerAssumption
  <1> QED  BY <1>1, MatchRun, PTL DEF MatchIsFair

=============================================================================
