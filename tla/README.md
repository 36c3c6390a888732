# Evently backend: formal models

TLA+ models of the Evently backend (NestJS on MongoDB, `src/src/modules`), the
TLC configurations that check them on small instances, and TLAPS proofs of the
central properties for every size. The models follow the code, not its
comments; where the two disagree, the disagreement is a finding below.

## 1. What the system is made of

Evently sells event planning: a customer asks organizers for quotes, accepts
one, pays an advance, and a booking carries the event to its end. Beside it,
organizers sell tickets to public events, and hosts send invitations with a
shared gallery. Everything is request handlers of stateless Node processes over
one MongoDB. There are **no transactions, no locks and no scheduler**: what
must lapse lapses when somebody reads it, and what must not interleave is
guarded, where it is, by a conditional update (`findOneAndUpdate` with the
expected state in the filter), a unique index or Mongoose's `__v`.

Three facts about Mongoose decide most of what follows. `doc.save()` writes only
the paths that changed since the load, as values, to the row with that `_id`;
it does not ask whether the row is still what was loaded. A `$push` increments
`__v`. Assigning a whole array puts the loaded `__v` in the filter, so that
such a save, and only such a save, fails when the row has moved.

| Component | State it keeps | Operations that change it | Talks to |
|---|---|---|---|
| Booking (`booking`) | `bookings`: status, paymentStatus, checklist, timeline, response window, `__v` | createFromQuotation, updateStatus, confirmCashAdvance, remove, tasks and checklist, lapse on read | quotes (seed), payments (refund), coupons (release), sub-vendors, notifications |
| Coupons (`coupon`) | `coupons` (terms, usedCount), `couponredemptions` (the ledger, one per booking) | evaluate + redeem, releaseForBooking, edits by organizer and administrator | booking, quotes |
| Payments (`payment`) | `paymentorders`: status, paymentId, booking | createOrder, bookWithCash, verifyAndBook, handleWebhook, settle, refundForBooking | the gateway (Razorpay), booking, quotes |
| Quotes (`quote`) | quote requests and quotations with versions | send, revise, withdraw, accept, reject, cancel | booking, plans, notifications |
| Public events (`public-event`) | events, ticket types (stock), event bookings, tickets, memories | create, edit, publish/complete/cancel, sell, confirm, mint, check in, archive, heal | the gateway, uploads |
| Uploads (`upload`) | assets with a claim state and attempts | upload, release, delete if unused, retry, orphan sweep | every component that stores a URL; the storage provider |
| Invitations (`invitation`) | invitations, published snapshots, guests and their answers, memories | edit, publish, unpublish, answer, withdraw, upload, moderate | uploads, notifications |
| Authentication (`auth`) | one-time codes with attempts, one refresh-token hash per user | request code, verify, refresh, logout | users, the SMS provider |
| Organizer onboarding, administration (`organizer`, `admin`) | profiles with a review state | save step, submit, approve, reject | users, metadata |
| Sub-vendors (`subvendor`) | vendors, their links to organizers, dispatched tasks | invite, accept, assign | bookings |
| Plans, ideas, plan events (`plan`, `idea`, `plan-event`) | one customer's drafts | upserts and edits by one owner | quotes |
| Messages (`message`) | conversations, unread counters | send, read | notifications |
| Reviews (`review`) | one review per booking, an average per organizer | write, recompute | bookings |
| Contacts, addresses, users (`contact`, `address`, `user`) | support requests, addresses with one default, profiles | single-record edits | - |
| Metadata, packages, offers, content, home, search | catalogue records | administrators' edits, reads | - |
| Notifications (`notification`) | records, push tokens | best-effort writes whose failure every caller ignores | - |

### What is hard in it

* **Checks on a copy.** A handler loads a document, decides, and saves several
  awaits later. Every status machine of the system (bookings, quotations,
  events) is guarded this way.
* **Find, then insert.** One booking per quotation, one cash order per
  quotation, one set of tickets per booking, so many coupons or seats per
  customer: each is a query followed by a write, with no index behind it.
* **Several writes, no transaction.** Claim, ledger row, booking; seats,
  booking, gateway order; status, coupon, refund. A failure or a dead process
  between any two leaves what was written.
* **A gateway that calls back.** Payments fail and are tried again, captures
  are reported by the app and by a webhook, in either order and repeatedly.
* **Nobody comes back.** Without a scheduler, what a dead handler left is
  repaired only if a later request happens to take the same path.

### What makes each component correct

* Booking: closed stays closed; a step forward is one the table allows; the
  advance goes back once, only when the booking is over and in the end always;
  a cash advance never goes through the gateway.
* Coupons: the counter covers the ledger; the limit holds; a slot comes back
  once; counter, ledger and bookings agree when nothing is under way.
* Payments: PAID only for captured money; no booking without money or a cash
  order; a captured payment is booked in the end; one refund per order.
* Quotes: at most one quotation of a request is accepted; what was accepted is
  what is booked; nothing revives a cancelled request.
* Public events: seats are neither lost nor sold twice; tickets only for
  confirmed bookings, one per seat; one entry per ticket; the sign agrees with
  the shelf.
* Uploads: a file that is referenced is not deleted; one that is not is deleted
  in the end, or has run out of attempts.
* Invitations: what was approved is what is published; a guest's link keeps
  opening; one guest per number; what a gallery lists may be seen and is there.
* Authentication: a code works once and a bounded number of times can be
  guessed; nobody barred gets a session.
* Organizers: whoever is listed stands approved; bank details stay what was
  submitted; a rating, a tier, a calendar and a payout are what the records say.
* Sub-vendors: one link per pair; a task is answered by the one it was given to.
* Plans and Home: one draft and one code per plan; an event is one card.
* Messages, ideas, support: a badge counts what is unread; an approval stands
  for the label its handler found; a flag is about the answer it stands beside.
* Addresses: the mark is the customer's one choice.

## 2. What is modelled

Every module follows one pattern. A *worker* (or *request*, *checkout*) is one
handler in flight; `pc` says which `await` it stands at, and its `copy` is what
it has loaded. **Each awaited write is an action of its own, and so is each
read that a later write is decided on**, because any other request may run while
it is awaited; everything between two awaits belongs to the action before or
after it. Reads that follow one another before anything is decided are one
action. Coarser than that are, because their races are another module's: the
requests of `EventCatalogue` (`TicketSales`) and the orders and redemptions of
`CouponDesk` (`Checkout`, `CouponLedger`); and, because they read and save one row
at once: the verdicts, overrides, hiding, likes and switches of `Memories`, the
removal and the switches of `SubVendors`, `AddRole` and `AdminUpdate` of
`Accounts`. What is claimed of those modules under overlap takes these calls as
single steps. A worker that has answered takes
another request, so a few workers make arbitrarily long histories. Definitions
whose comment begins with `Faulty variant` are no part of a specification: each
is the form a definition would have after a plausible mistake, kept to show that
a property notices it.

| Module | Models | Composed with |
|---|---|---|
| `Booking` | one booking after its birth: `BookingService.updateStatus`, `confirmCashAdvance`, `remove`, lapse on read, task and checklist edits, and the coupon release and refund they set off | implements `BookingPromise` |
| `BookingPromise` | what a booking promises: open, agreed, over; the advance held, returning, returned | |
| `CouponLedger` | one coupon: counter, ledger, checkouts, releases, edits of its terms | implements `CouponSlots` |
| `CouponSlots` | a set of slots, taken while the limit leaves one, given back once | |
| `Checkout` | one quotation's payment orders, bookings and refunds: `PaymentService` and `createFromQuotation`, with gateway, webhook and app | |
| `TicketSales` | one public event with one ticket type: stock, bookings, payment, minting, the sign, status changes, the door | |
| `QuoteLifecycle` | one brief and its quotations: create, broadcast, send, revise, withdraw, accept, reject, cancel, and the screens | `MCCustomerSide` |
| `InvitationVersions` | the working copy, the version sent and the version published; change requests; the guests' view, notices and live cards | `MCCustomerSide` |
| `GuestList` | guests added, imported, renumbered and shared with | `MCCustomerSide` |
| `Memories` | the host's album: uploads and removals in their steps, quota, moderation, the gallery's query | `MCCustomerSide` |
| `Conversations` | a thread, its badges, the reply time, the notices, and any of their calls failing | `MCCustomerSide` |
| `PlanningBoard` | ideas, replies, sign-offs, the vision | `MCCustomerSide` |
| `Addresses` | addresses and every write of the default's mark | `MCCustomerSide` |
| `PlanDesk` | occasions, drafts, codes, the badge of the most planned | `MCCustomerSide` |
| `PlanMatch` | the ranking of organizers for a plan, a pure algorithm | `MCCustomerSide` |
| `HomeFeed` | Home's reads of plans, briefs and bookings while they move | `MCCustomerSide`, `home_twice` |
| `SupportDesk` | the contact form, its answer, the mail and the flag | `MCCustomerSide` |
| `CouponDesk` | coupon terms and their edits, the discount, picker and strip, order and booking at a price | `MCCustomerSide` |
| `EventGallery` | a public event's memories and stream and their settings | `MCOrganizerSide` |
| `EventCatalogue` | a public event's times and ticket types, the word on its sale, the organizer's figures, the calendar | `MCOrganizerSide` |
| `Accounts` | codes, sign-in, refresh, roles, suspension, closing | `MCOrganizerSide` |
| `OrganizerOnboarding` | a profile from sign-up to the verdict | `MCOrganizerSide` |
| `AssetLifecycle` | files, references, deletion with claims and retries | `MCOrganizerSide` |
| `SubVendors` | links, invitations, sign-up, ratings | `MCOrganizerSide` |
| `EventTasks` | a booking's tasks and the vendors they go to | `MCOrganizerSide` |
| `OrganizerDesk` | the calendar, the month's figures, the payout | `MCOrganizerSide` |
| `Standing` | reviews, the Academy, the tier | `MCOrganizerSide` |
| `MC*` | instances for TLC; the two side modules also carry the theorems over to what their runs check | |
| `Booking_proofs`, `CouponLedger_proofs`, `Checkout_proofs`, `TicketSales_proofs` | the theorems about those modules | |
| `CustomerSide_proofs`, `OrganizerSide_proofs` | the theorems about the modules of either side, one instance of each | `MCCustomerSide`, `MCOrganizerSide` |

**Booking.** The variables `status .. version` are the booking document, `order`
and `coupon` the rows linked to it, `returned` the gateway's refunds. A request
`Load`s (read, permission, terminal and table checks on what was read), then
saves (`SaveStatus`, `SaveLapse`, `SaveCredit`, ...): `Matches` is the save's
filter, with the version only when the checklist is assigned. After a save into
`TERMINAL` come `ReleaseCoupon`, `ClaimRefund` (the conditional update), the
gateway's answer, and `RecordRefund` or `PutBack`. `WindowPasses` is the clock.

**CouponLedger.** `coupon`, `usedCount` are the document, `rows` the ledger,
`booked` the bookings that exist. A checkout runs `ReadCoupon`, `Judge` (two
reads), `Claim` (the conditional increment), `InsertRow`, `WriteBooking`, with the failure
branches and their compensation; a cancel `FindRows`, `Reverse`, `GiveBack`; an
edit `Merge`s into its copy and saves what changed.

**Checkout.** `order` holds the payment orders, `bookings` the bookings of the
quotation, `accepted` the quotation. `attempts`, `captured`, `acknowledged`,
`returned` are the gateway's. A worker serves createOrder, verifyAndBook (with
a good or a bad signature), the webhook's two events, bookWithCash,
`POST /bookings`, or the end of a booking with its refund.

**TicketSales.** `total`, `available`, `active`, `archived` are the ticket type;
`bookings`, `minted`, `inside` the event bookings and tickets; `offered` and
`captured` what the gateway and the customer know. Sales, confirmations (good
and unverified), edits of the stock, archiving, the four status moves, views
(which heal the sign) and scans. Prices, the sales window and the event's other
fields are abstract here, and concrete in `EventCatalogue`.

**EventCatalogue.** `event` is the event's row, `types` the ticket types,
`bookings` the event bookings with the tickets they minted and the tickets let
in; the clock goes in half days from a Sunday. Requests are one step each: their
races are `TicketSales`'. `SaleState`, `IsOnSale`, `IsSoldOut` and
`PerCustomerLimit` are the functions of `access.ts`; `Dashboard`, `Attendees`,
`MyTickets`, `Window` and `Browsed` are what the screens read, and the properties
compare them with each other and with the instants to come.

**CouponDesk.** Money is whole rupees and both roundings of the advance are
there: `CreateOrder` and `BookWithCash` price a quotation, `Settle` writes the
booking and judges the coupon again. `ListAvailable`, `Claimable` and the order
apply the terms separately, as the code does. An editor `Load`s a coupon (an
organizer through `requireOwnCoupon`) and `Save`s the paths it sends.

**QuoteLifecycle.** `request` and `quote` are the rows; `task` is a caller's
request with its copy. A call `Arrive`s, which loads and decides, and saves step
by step: an acceptance is `SaveAccepted`, `RejectSiblings`, `CloseRequest`;
revisions and withdrawals save by id.

**InvitationVersions, GuestList, Memories.** `invitation` is the row with its
working copy and `publishedContent`; organizer's and customer's calls load it and
`Save` the paths they changed, with the version when an array is written. The
guest list's unique index refuses an insert or a save that repeats a number. An
upload is `Store`, `InsertMedia`; a removal `LoadToRemove`, `RemoveFiles`,
`DeleteRow`; either may `Stop` before any of its steps. A removal that stops after
the files leaves a row without them, as the code does; `leaving` remembers the
rows a removal has taken files from, `passed` the items that needed no approval
or got it.

**PlanDesk, PlanMatch, HomeFeed.** Plans are drafts that an upsert keeps and
`Submit` turns into plans with a code. An occasion in a request is any string
(`Keys`), the empty one or none: the DTO does not ask more, and no handler looks
it up; only the schema, on `save()`, asks for one that is not empty. `Recommend`
estimates, scores, filters and sorts over a directory that changes; a factor is a
whole number of hundredths and the score, which is what is compared, is rounded
to a percentage as the source rounds it. A home request reads plans, briefs and bookings at one instant (`Read`), asks for the
accepted briefs later (`Ask`) and shows (`Show`), while `PlanMoves`,
`BriefMoves` and `BookingMoves` go on.

**Conversations, PlanningBoard, SupportDesk, Addresses, EventGallery.** Small
protocols of a few writes each, every awaited one an action; what must be
remembered for a property is a history variable (`seen`, `lost`, `agreed`,
`crossed`, `last`, `chosen`, `slip`, `verdict`). In `Conversations` a notice that
fails is swallowed (`NoticeFails`) and any other call that fails ends the request
(`Stop`), the refresh of the reply time among them: `lost` keeps the messages no
badge counted and whether the last refresh due never came. The reply time is
taken over the first `REPLY_MESSAGE_LIMIT` messages. On the board a handler
`LoadTo`... and saves the fields that differ from its copy; an approval names a
post and no label, as in the code, so what it answers is what its handler finds:
what a customer had on a screen is not modelled and nothing is claimed about it.
A removal of an address is `LoadToRemove`, `DeleteOne`, `FindHeir`, `SaveHeir`, and
choosing one is `LoadOwned`, `ClearDefault`, `Save`.

**Accounts, OrganizerOnboarding.** A session is the stored refresh hash, as in
the code; access tokens are stateless, so no call asks for one. The onboarding
wizard's steps are fields that are filled or not; administrators and organizer
save the paths their copies changed.

**AssetLifecycle.** A worker looks for references collection by collection,
claims the row, looks again, removes the file and records it; it may die
anywhere, and references come and go meanwhile.

**SubVendors, EventTasks, OrganizerDesk, Standing.** Links have no unique index
and are kept apart by queries. A task is written at its position, with the
array's version in the filter. The desk computes earnings, commission and payout
in whole rupees. `Standing` recomputes an average from the reviews it read and
promotes a tier from counts read one after the other.

The gateway and the death of a process are not code under `src/`; they are
modelled from how the code uses them and marked external in the map.

## 3. What the runs check

| Run | Result | Shows |
|---|---|---|
| `booking_races` | holds, 855,861 states | three requests out of eleven kinds, one dying handler, a gateway that may refuse: closed stays closed, one refund, only when over; implements `BookingPromise` |
| `booking_liveness` | holds, 389,813 | coupon and advance of a closed online booking come back or the refusal is recorded |
| `coupon_ledger` | holds, 81,885 | two checkouts, two releases, one edit, one crash: the counter covers the ledger; implements `CouponSlots`; everything settles |
| `checkout_serial` | holds, 531,712 | one request at a time, two online orders, two deaths or failed links: one booking, money back only for an ended booking |
| `checkout_races` | holds, 796,138 | two requests of any kind: nothing unpaid is booked, one refund |
| `checkout_webhook` | holds, 207,205 | with a crash, a captured payment is booked in the end |
| `ticket_races` | holds, about 500,000 | two requests at once, one fault: the stock is conserved, tickets are earned, confirmed means tickets in the end |
| `ticket_serial` | holds, about 190,000 | all eleven kinds one after another, two faults: a wrong sign is put right by whoever looks |
| `customer_side` | holds, about 2,900,000 | eighteen instances of the twelve modules a customer meets |
| `organizer_side` | holds, 2,845,955 | fourteen instances of the nine modules an organizer meets |
| `booking_completed` | violated | finding 1 |
| `home_twice` | violated | finding 2 |

**The two side runs.** `MCCustomerSide` and `MCOrganizerSide` INSTANCE the proof
module of their side, which has an instance of each module, with small constants:
`Serial` where a property needs one request at a time, `Races` where two overlap,
`Money` for the bookings of a month. A behaviour belongs to one instance, its
`topic`, and `v1 .. v7` hold that module's variables, so the state spaces add up
instead of multiplying. The modules share no state at this grain; where components do meet
(checkout with coupons and bookings, tasks with sub-vendors, an event's records
on Home) the meeting is inside one module. Each property of these runs names its
topics and joins definitions stated in the module concerned:

| Topics | Instance | Property |
|---|---|---|
| quotes, revisions | two organizers, two quotations, one call at a time, two versions of the brief; two calls at once | `BriefsAreSound`: a bookable quotation closes its brief, live ones price the brief as it reads, every screen tells that story; `AcceptedTermsStand`: the price, the priced brief and the version of the lines of an accepted quotation stay |
| changes, versions | two calls at once; one call, designs seen by all or not by all | `VersionsAreKept`: change requests are not overwritten, what is approved is what is published; `LinkStaysLive` |
| guests | two calls at once, two numbers and a bad one | `GuestsAreKept` |
| album, removals | one upload or removal at a time, two guests, every switch; two at once over one item | `AlbumIsWhole`: what the gallery lists may be opened, of others a guest sees only what passed, and a row has its files unless its removal has begun |
| talks, support | one request at a time, three messages of which two are measured, any call failing; one admin, two answers | `TalksAreHonest`: the badge is what is unread but for lost counts, each measured answer is one wait once a refresh gets through, one notice per thing |
| board | two requests at once, one post, two labels | `BoardIsHonest`: an approval stands for the label its handler found, unless an approval and a reply that asks crossed on that post |
| book | four addresses, one request at a time, any call failing | `OneIsChosen`: the mark is on what was chosen last, or on its heir, through creating, choosing, unmarking and removing, until a request stops half way or the chosen one is chosen again |
| wizard, setup | one customer, one request at a time, any call failing; two admins at once | `PlansAreHonest`: one draft, codes that name their plan, an occasion with all that was submitted; one row per key |
| match | three organizers, every combination of the wishes that the score reads | `MatchIsFair`: only merit decides before the fallback |
| feed, feeds | one event moving under a home request; two events at rest | `FeedIsHonest` |
| coupons, shop | a percentage with and without cap, a fixed one, two editors, prices that do not round alike; one organizer and its coupon | `CouponsAreHonest`: picker, strip and checkout judge alike, the numbers add up and agree with the ledger |
| sign-in, sessions | two codes one call at a time; two calls at once | `SignInIsSound` |
| onboarding | one organizer, two administrators' accounts | `VerdictsStand`, `BankIsLocked` |
| assets | two workers, two files, two collections, deaths | `FilesAreKept` |
| network | two organizers, three links | `LinksAreSettled` |
| tasks, answers | two vendors one call at a time; one vendor and two calls at once | `TeamIsHonest`, `UpdateHitsItsTask` |
| calendar, money | two calls at once over four days; three bookings, two amounts and tiers | `CalendarIsKept`, `FiguresAddUp` |
| ratings | two calls at once, two bookings, three stages | `StandingIsReal`; the reviews counted, in `FiguresAddUp` |
| gallery, stream, catalogue, slices | two people and a piece over three days; two settings calls at once; two ticket types over three half days; fourteen half days and ten starts | `EventPageIsSound`: moderated, coherent, the sign and the word on the sale are true, figures agree, slices are what they are called |

**Bounds.** Every bound is a constant. Two workers suffice for races because
each guard is decided on one copy and overtaken by one other writer; `Booking`
uses three, so that two endings can race while a third request moves the
booking on. One gateway order and two cash orders make both kinds of duplicates
possible; two online orders in the serial run make a second payment possible.
One or two faults put a crash between any two steps, including a crash of the
repair. The coupon starts with one slot for two checkouts; one edit sets the
limit to none, one or two, or disables the coupon; the event starts with one
seat for two buyers (`ticket_races`) or two seats for sales of one, one and two
(`ticket_serial`). In the side runs an instance has two calls at once where the
code guards the race, and one where the property is known to need it: section 4
says which break with two. The calendar's starts lie on both sides of every
boundary (tonight, Friday, Sunday night, thirty days). `CouponDesk`'s prices are
chosen so that discount and advance both round. Symmetry is used only in runs
without liveness.

**Fairness.** A request in flight is executed: `WF_vars(Progress(...))` for each
worker, which is Node's event loop and a database that answers. Death is never
fair. `Checkout` adds that the gateway delivers a capture until it is answered
(`SF`, because workers may be busy), which is Razorpay's webhook contract.
`TicketSales` adds that people go on looking at the event (`SF` of `View`), for
`SoldOutIsHealed` only. No arrival of any other request is assumed fair.
Deadlock is unchecked only where a finite set of requests is used up.

## 4. Findings

Two disagreements are runs:

1. **Completing a booking refunds it** (`booking.service.ts:1825`). `TERMINAL`
   includes COMPLETED, so a delivered event gives back its coupon and advance.
2. **A booked plan comes back on Home** (`current-event.service.ts:215`). The
   plans a brief covers are collected after booked briefs were dropped.

The others are configurations kept beside the runs. Each of their properties is
violated by itself: TLC stops at the first, so check one at a time.

| Configuration | Module | What TLC finds |
|---|---|---|
| `booking_claims` | MCBooking | `OnlyAllowedTransitions`: a cancel, decline or lapse assigns no array, so its save carries no version and lands on whatever the booking has become. `RefundedMeansReturned`: a handler that dies after closing loses the refund. `RefundOnce`: a refund whose id could not be stored is made again |
| `coupon_claims` | MCCouponLedger | `PerCustomerHolds`: the limit per customer is judged and never asserted again. `NeverDrifts`: a crash between claim and row leaves the counter too high. `TermsStayCoherent`: two coherent edits merge into a percentage above 100 |
| `checkout_claims` | MCCheckout | `OneBookingPerQuotation`: the app and the webhook both find no booking and both insert one. `OneCashOrder`: a double tap writes two |
| `checkout_stranded` | MCCheckout | `CapturedIsBooked`: FAILED is final though the order can be paid again, and a coupon refused after payment leaves the money unbooked. `AdvanceComesBack`: of two paid orders of one booking one is refunded; with two workers and one order, also a booking cancelled before its order is linked |
| `ticket_claims` | MCTicketSales | `NeverOversold`: an edit of the stock is saved over a sale. `OneTicketPerSeat`: two confirmations mint twice. `HistoryStays`: a completed event goes back to published. `CeilingHolds`: two sales pass the ceiling per customer. `HeldIsNotArchived`: a type is archived under a sale. With one worker, `Served = {"sale", "confirm", "publish"}`, `Ceiling = 0`, `InitialTotal = 3` and `Edits <- OneMore`, also `NoCeilingOfMine`: seats held are subtracted from seats left, so who holds one of three may not take the other two though no ceiling is set |
| `customer_claims` | MCCustomerSide | `AcceptedIsNotEdited`: with two callers, a revision decided before an acceptance is saved over it. `LivePricesTheBrief`: forms that send part of the brief leave quotations of the old one live. `ChargedAsShown`: an order and its booking judge an edited coupon differently. `OwnCouponsAreFound`: `requireOwnCoupon` compares a populated document with an id (`coupon.service.ts:837`), so no organizer can edit or disable its own coupon. `NoBrokenTile`: the files of an item go before its row (`memories.service.ts:694`), so that "a record without a file" cannot be, says the comment; it is the record that stays when the row's removal fails. `ChosenIsDefault`: choosing the chosen address again leaves none marked, as `clearDefault` changes the row and not the copy, and the save has nothing to write (`address.service.ts:121`). `AskingResets`: a reply that asks again "deliberately resets" an approval; where its copy was still pending, that is no change, and an approval saved in between stands for a label it never found (`idea.service.ts:220`). `SeenIsShown`: the page is the oldest messages, and opening a longer thread puts the badge to nought (`message.service.ts:162`). `BadgeCountsSubmissions`: the badge for "real submissions" counts drafts (`plan-config.service.ts:150`) |
| `organizer_claims` | MCOrganizerSide | `NothingToBuyOnceStarted`: `startBooking` asks for no time. `ShownCodesOpenTheDoor`: a cancelled event's tickets still show their QR. `FreeIsUnbooked`: the next free day may be a booked one, as nothing puts bookings into `busyDates` |

What the modules show besides, with the constants changed as said:

* Quotations: the customer may accept two of a brief's quotations one after the
  other, a cancelled brief can still be revised, and revising a superseded
  quotation leaves its brief open.
* Invitations: `approve` publishes the version that is there when it saves, seen
  or not; a link made before publication existed shows nothing
  (`invitation.service.ts:284`); the stream of a deleted card never ends.
* `Memories`: the quota is counted before the analysis of the file; two uploads
  pass it. `Accounts` with two callers: guesses made at once count as one
  (`CodesRunOut`). `Addresses` with two callers: a choice made while a removal
  looks for its heir leaves two marked, and a removal of the heir none.
  `Conversations`: a message whose badge failed is never counted; beyond
  `REPLY_MESSAGE_LIMIT` messages the reply time no longer moves, as the oldest are
  taken. `SupportDesk` with two callers saves over the other's answer.
* `PlanDesk` with two callers: two submits write two codes over each other, and a
  draft that is emptied while a submit holds it becomes a plan without an
  occasion. With one: a plan may name an occasion that does not exist.
* `OrganizerOnboarding`: `register` moves a status without `assertTransition`.
  `OrganizerDesk`: EXPIRED bookings count as booked and earned. `EventTasks`: a vendor taken off the team keeps the tasks.
  `AssetLifecycle`: a worker that dies past the last attempt leaves its row
  DELETING for good. `SubVendors` with two callers: two links, and a rating lost.
* `HomeFeed`: EXPIRED is not among `TERMINAL_BOOKING_STATUSES`. `CouponDesk`:
  platform redemptions are listed as an organizer's (`UsageIsOwn`).

## 5. What is proved

The theorems hold for every set of requests, workers, orders and checkouts and
every bound on faults. Their only assumptions are those named here and the
`ASSUME`s of the modules, which say what the schemas and DTOs say of the
constants. `Booking`, `CouponLedger`, `Checkout` and `TicketSales` assume typing,
disjoint ids and finitely many checkouts. Of the side modules, `CouponDesk` assumes
terms as `coupon-terms.dto.ts` bounds them, an advance that is a percentage and
finitely many coupons and quotations (`CouponAssumption`); `PlanMatch` no negative
number in a profile, a place of its own for each in the list and finitely many
categories in a plan (`MatchAssumption`); `HomeFeed`, `EventCatalogue`,
`OrganizerDesk`, `Standing` and `SubVendors` that the rows they count are finite
and their times and prices numbers; `PlanDesk` that plans are finite and no key is
empty; `PlanningBoard` nothing; the rest the typing of their bounds. TLC evaluates
each on its run's values.

The two side modules carry the theorems over: a step of the whole is a step of
its topic's instance (`EveryStep`), so a behaviour is one of that instance
(`QuotesRun` and the like), and what `CustomerSide_proofs` or
`OrganizerSide_proofs` proves of it, with any values for the constants, is the
run's own property, which the listed theorem names.

* **Booking_proofs.** `TypeCorrect`, `ClosedForever`, `ForwardMovesAllowed`,
  `DeletedWhenClosed`, `MoneyBackWhenOver`, `CashStaysOut`, `ImplementsPromise`,
  from one inductive invariant `IInv`. Every save appends to the timeline and so
  moves the version; hence a copy whose version is still the row's has the row's
  status (`FreshCopies`), and a forward save, which matches the version, is legal
  for the row because it was for the copy (`DecisionsHold`). A save without the
  version lands on anything but only ever closes, so a closed row stays closed
  (`ClosedCopies`) and whatever follows an ending finds it still over
  (`EndingsAreOver`). `RefundedAtMostOnce`
  assumes `MaxWriteErrors = 0` and adds `OneRefunding` (at most one request is
  between claim and record) and `RefundStages`; without the assumption it is
  false (`booking_claims.cfg`).
* **CouponLedger_proofs.** `IInv` = `Typed`, `Counted` (the counter is the number
  of slots), `CheckoutStages` and `CancelTargets` (what each stage of a call
  knows), `GiveBacks` (nobody decrements twice), `DiscountIsLedgered`, `PeakIsPeak`,
  `LimitHolds`. The counter is related to the ledger through the ghost sets
  `slots` and `spent`, which is also the refinement mapping of
  `ImplementsSlots`. `AgreementAtRest` adds `NothingLost` for runs without a crash.
* **Checkout_proofs.** `IInv` = `TypeOK`, `CallsFit`, `PaidMeansCaptured`,
  `OnlineIsNotCash`, `GatePassed`, `NoBookingUnpaid`; `Refunds` (an order is opened
  and refunded by one request, an unclaimed one has no refund behind it); `Links`
  (links lead to bookings, a copy's link is not newer than its order's). Under
  `OneAtATime` (any two workers are the same) `NothingMissed` and `OwnOrder` give
  `OneBookingAlone`, `OneCashOrderAlone` and `MoneyBackAlone`; the violated runs
  and `checkout_claims.cfg` show that the assumption is needed.
* **TicketSales_proofs.** `TypeCorrect`, `SeatsNeverLost`, `TicketsOnlyEarned`,
  `OneEntryPerTicket`. A sale is made by one worker (`OneSeller`), and until it is
  answered nobody else can pay for, confirm or release it, so what a worker knows
  of its sale at each step (`Fits`: seats out or not, booking written, paid) stays
  true while others move (`OthersFit`). Hence every release puts back seats that
  are out, every reservation takes seats that are not, and the shelf plus the
  seats out is the total (`Conserved`) until an edit is saved over a sale it had
  not seen, which the ghost `rewritten` marks; the stock as it then is stays
  non-negative, because the total was checked on the very copy that is written.
  `SeatsHeld` carries the second half of `StockIsConserved`.
* **CustomerSide_proofs.** Quotations: what the screens show of a brief agrees
  from the types alone; that an accepted quotation closes its brief and that live
  ones price it as it reads (`BriefsStaySound`) and that the price, the priced brief
  and the version of the lines of an accepted quotation stand (`AcceptedPricesStand`)
  is proved where handlers do not overlap, from `Around`,
  which says at each place the one handler can be at what the rows owe meanwhile.
  The invitation: a copy is never ahead of the row, and one of the same version
  has the same requests (`CopyIsSound`), so a save of the loaded array overwrites
  nothing (`VersionsStandKept`, any number of handlers; its second half, approved
  is published, for handlers that do not overlap). `GuestLinksStayLive` assumes
  that no row predates publication (`~Legacy`): a link made before shows nothing.
  The guest list: every write of a number passes the index (`RowNumbered`), and a
  share is safe in the call that sent it until it is on the row. The album, for
  any number of uploads and removals: a stored file without a row is one upload's
  own (`InsertIsOwn`) and only a removal takes files from under a row, which is
  `leaving` from then on (`FilesStay`); an item past moderation was passed
  (`WasPassed`), and both filters ask for that, whatever status, visibility and
  switches have become (`AlbumsStayWhole`).
  The addresses, one request at a time: between the write that takes the marks
  away and the one that gives one back there is one request, and what it holds
  says which address will have it (`AddressInv`, by its place); a request that
  stops there is what `slip` remembers (`AddressesStayChosen`). The board, for any
  number of requests: on a post that was not crossed, an approval under way holds the
  label the post has and nobody is asking anew, and a reply that found the post
  asking leaves it asking (`PostIsSound` in `BoardInv`, for `BoardsStayHonest`). The desk of plans: a row is inserted past
  the index and never changes its key, whoever is at work (`SetupInv`, for
  `KeysStayDifferent`); one draft, the codes told and the occasion of what was
  submitted (`DraftInv`, for `DraftsStayOne`) need a customer's requests to come in
  turn.
  The coupons, for any number of editors: an order whose coupon nobody edited is
  for what it would be quoted now (`OrderFits`), a booking has the numbers of its
  order and of its ledger row (`BookingFits`), and a counter is the number of
  bookings that hold a slot. Picker and strip are sorts, defined by `CHOOSE`: such
  a list exists for every finite set and total order (`SortExists`, by taking the
  smallest first), and whatever is chosen then has the two properties the
  screens need. Home, for any number of requests: a request was disturbed, or what
  it has read is how the records stand (`KnowsNow`), whichever list came first;
  the cards then follow from the same lemma about sorts. The contact desk and
  the conversation, one request at a time (`AnswersAlone`, `TalksAlone`): `Filing` and
  `TalkFits` say, by where the request is, what has been written so far; a
  conversation's call that fails leaves its debt in `lost`, which the next refresh
  pays, while a badge's stays. The wait
  of a message is a recursive function of the thread, which unfolds from the end
  of the run of messages it belongs to (`WaitingSince`). Only the badge needs
  `FitsAPage`: beyond a page the code marks read what it has not shown. The
  organizers: the comparison is total because ties go by the place found, the
  score is monotone in every factor (`Weighs`), and no step between a question
  and its answer changes what a score reads (`ScoresStand`).
* **OrganizerSide_proofs.** Sign-in: a barred request stays short of every place
  that hands out a session (`Lawful`), whatever overlaps; a code's row counts what
  was told of it (`CodeIsTold`, `GuessIsFresh`) where requests do not. The
  application, one handler at a time: what waits to be saved would leave a
  profile whose listing, trail, note and completion fit its status (`Fine` of
  `Result`), and an untouched bank (`Locked`). The tasks: a waiting change names
  the place its task is at, and every step that moves the places refuses those
  who wait (`Waits`), so `UpdatesHitTheirTask` holds for any number of handlers;
  `Means` adds what the answers are. The links, one handler at a time: `Network`
  relates rows, by organizer and sub-vendor, to whether the sub-vendor has signed
  up and whether its invitations are still being looked for. The standing, for any
  number of handlers: reviews, lessons and events only grow, so a reading stays
  true of some of them (`Holds`) and what a tier was given for is still there
  (`Deserved`); the average is that of one set of reviews, however late it is
  stored. The calendar, for any number of handlers: a waiting array differs from
  the stored one by its day (`DaysInv`), and the week's slots follow from the
  arithmetic of weeks. The files, for any number of workers: what the search
  after the claim has learnt is that the collections behind it have not pointed
  at the file all along, and a save only takes collections off that list
  (`Watched`), so past the last one it is empty and `InUseKept` follows;
  `Handled` keeps what is being removed tracked, which is why no upload brings a
  removed file back before its row says `DELETED`.
  The money and the stars: what holds of a finite set once it holds of the set
  less one element holds of every finite set (`SetInduction`, over a family of sets
  that is data, so that no operator is instantiated); from it a sum does not
  depend on the order it is taken in, and payouts rounded booking by booking stay
  within half a rupee a booking of the total rounded once (`RoundedOneByOne`); every
  review with one to five stars stands in one row of the summary (`RowsCount`).
  A public event: the seats gone from a type are those its bookings hold
  (`CatalogueInv`), so every screen counts the same bookings, and the next opening
  is the earliest instant at which anything can be bought (`OpensBetween`). Its
  gallery, one handler at a time: the settings an upload goes by are the stored
  ones (`GalleryInv`); that a stream is coherent holds however settings calls
  overlap.

Where a theorem assumes that handlers do not overlap, the assumption (`Alone`: any
two callers are the same) is part of the property or a hypothesis of the
theorem, and is confined to the half that needs it; section 4 says what breaks
with two.

Each invariant was checked with TLC before it was proved. A step lemma per
action shows which parts the action can disturb; the temporal theorems combine
them.

Only model-checked: `TicketSales`' properties of requests that do not overlap
(`SignAgrees`, `CeilingHolds`, `NeverOversold`, `HistoryStays`,
`OneTicketPerSeat`, `HeldIsNotArchived`, with `ticket_claims.cfg` and one worker);
and all liveness (`ClosedIsRefunded`, `ClaimIsResolved`, `SettlesInTheEnd`,
`CapturedIsBooked`, `ConfirmedGetsTickets`, `SoldOutIsHealed`), since reasoning
under fairness and `ENABLED` is beyond the prover. Every other property of a
passing run is stated by a theorem. `RefundOnce` with failing writes is refuted,
not proved.

## 6. What is not modelled, and why

* Metadata, packages, offers, content and plan events: one write per call by an
  administrator or an owner, and no rule across two of them. The maintenance
  scripts drive `AssetLifecycle`'s calls by hand.
* Of modelled components: the board's screen and its counts; the fifty threads a
  reply time is taken over (there is one thread); an answer lost after it was
  written; the options of the plan wizard besides occasions; the customer's booking
  lists, saved packages and
  preferences, the static parts of Home, texts, paging and search, the orders of
  the event catalogue by distance, price and popularity (which rank within one
  page), image processing, push and mail delivery, DTO validation.
* The unconfigured-gateway mode and the payments test switch, which exist for
  development; in `TicketSales` the latter is a free sale.
* Fairness in the side runs: their properties are safety. What must eventually
  happen there (a notice, a badge) is written at once or not at all.

## 7. Plan

1. **Proofs** of `TicketSales` for requests that do not overlap: the sign, the
   ceiling, one ticket per seat.
2. **Compositions**: `QuoteLifecycle` under `Checkout`, whose seed a revision
   changes between order and booking; `EventTasks` with `SubVendors`.
3. **Abstract specifications**: a brief yields at most one agreement.
4. **The rest**: saved packages against their count, booking lists, offers.
