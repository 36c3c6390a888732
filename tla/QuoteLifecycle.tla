---------------------------- MODULE QuoteLifecycle ---------------------------
(***************************************************************************)
(* One quote request and the quotations organizers send for it: the calls  *)
(* of QuoteService that create, answer, revise, accept, reject, edit and   *)
(* cancel, and the screens that count what came in.                        *)
(*                                                                         *)
(* A caller is a request in flight.  Every awaited database call is an     *)
(* action; a handler decides on the copy it loaded, and a save writes the  *)
(* paths it changed to the row with that id, whatever became of the row.   *)
(* Replacing the line items also asks for the version that was loaded.     *)
(***************************************************************************)
EXTENDS Naturals, FiniteSets

CONSTANTS
    Callers,         \* requests that may be in flight at once
    Organizers,
    Quotes,          \* quotation ids
    Prices,          \* what the lines of a quotation may add up to
    BroadcastLimit,  \* how many organizers one broadcast reaches
    MaxBrief,        \* bound on the edits of the brief
    MaxVersion,      \* bound on the revisions of one quotation's lines
    FullForms        \* every revision carries its line items

NoQuote == "no quote"
NoOne   == "no one"

\* Checked where the constants get their values.
QuoteAssumption ==
    /\ NoQuote \notin Quotes
    /\ NoOne \notin Organizers
    /\ {BroadcastLimit, MaxBrief, MaxVersion} \subseteq Nat
    /\ Prices \subseteq Nat
    /\ \E dearest \in Prices \cup {0} : \A p \in Prices : p <= dearest
    /\ FullForms \in BOOLEAN

VARIABLES
    request,  \* the quote_requests row
    quote,    \* the quotations rows
    task      \* per caller: where it stands, and the copy it loaded

vars == <<request, quote, task>>

RequestStatuses == {"open", "quoted", "accepted", "cancelled"}
QuoteStatuses == {"draft", "sent", "updated", "accepted", "rejected", "withdrawn",
                  "superseded"}
Live == {"sent", "updated"}
Dead == {"draft", "withdrawn", "superseded"}

\* `brief` counts the edits; a quotation's `priced` is the brief its lines
\* were written for.
RequestRows == [status : RequestStatuses \cup {"none"}, target : Organizers \cup {NoOne},
                recipients : SUBSET Organizers, brief : Nat]
QuoteRows   == [status : QuoteStatuses \cup {"none"}, by : Organizers \cup {NoOne},
                price : Prices \cup {0}, priced : Nat, v : Nat]

Tasks == [at : {"idle", "accept", "siblings", "close", "reject", "withdraw", "edit",
                "supersede", "saveOpen", "saveBrief", "cancel", "decline", "respond",
                "quoted", "revise", "ask"}, q : Quotes \cup {NoQuote},
          status : RequestStatuses \cup QuoteStatuses \cup {"none"}, brief : Nat, v : Nat]

NoRequest == [status |-> "none", target |-> NoOne, recipients |-> {}, brief |-> 0]
NoRow     == [status |-> "none", by |-> NoOne, price |-> 0, priced |-> 0, v |-> 0]
Idle      == [at |-> "idle", q |-> NoQuote, status |-> "none", brief |-> 0, v |-> 0]

At(c, l)     == task[c].at = l
Goto(c, l)   == task' = [task EXCEPT ![c].at = l]
Finish(c)    == task' = [task EXCEPT ![c] = Idle]
Status(q)    == quote[q].status
Set(q, s)    == [quote EXCEPT ![q].status = s]
Created      == request.status # "none"
Received     == {q \in Quotes : Status(q) \notin {"none", "draft"}}
LiveQuotes   == {q \in Quotes : Status(q) \in Live}
AllLive(s)   == [q \in Quotes |-> IF q \in LiveQuotes
                                    THEN [quote[q] EXCEPT !.status = s] ELSE quote[q]]

Init ==
    /\ request = NoRequest
    /\ quote = [q \in Quotes |-> NoRow]
    /\ task = [c \in Callers |-> Idle]

-----------------------------------------------------------------------------
(* The customer asks.                                                      *)

Ask(target, recipients) ==
    /\ ~Created
    /\ request' = [status |-> "open", target |-> target, recipients |-> recipients,
                   brief |-> 1]
    /\ UNCHANGED <<quote, task>>

\* createFromDraft: whoever recommend names, at most BROADCAST_LIMIT of them;
\* no one when it fails or matches nobody.
CreateFromDraft ==
    \E R \in SUBSET Organizers : Cardinality(R) <= BroadcastLimit /\ Ask(NoOne, R)

\* createForOrganizers: the organizer is named when there is only one.
CreateForOrganizers ==
    \E R \in (SUBSET Organizers) \ {{}} :
      IF Cardinality(R) = 1 THEN \E o \in R : Ask(o, R) ELSE Ask(NoOne, R)

\* listIncoming: the requests an organizer is shown, and so can answer.
Incoming(o) ==
    \/ request.target = o
    \/ o \in request.recipients
    \/ request.target = NoOne /\ request.recipients = {}

-----------------------------------------------------------------------------
(* A call arrives and reads its document.                                  *)

Begin(c, q, l) ==
    /\ At(c, "idle")
    /\ task' = [task EXCEPT ![c] = [at |-> l, q |-> q, status |-> IF q = NoQuote
                  THEN request.status ELSE Status(q), brief |-> request.brief,
                  v |-> IF q = NoQuote THEN 0 ELSE quote[q].v]]
    /\ UNCHANGED <<request, quote>>

\* acceptQuotation: the only status it refuses is WITHDRAWN.
Accept(c, q) == q \in Received /\ Status(q) # "withdrawn" /\ Begin(c, q, "accept")

\* rejectQuotation refuses none.
Reject(c, q) == q \in Received /\ Begin(c, q, "reject")

UpdateRequest(c) ==
    /\ request.status \in {"open", "quoted"}
    /\ request.brief < MaxBrief
    /\ Begin(c, NoQuote, "edit")

\* Faulty variant: an accepted request can be cancelled as well.
CancelAny(c) == Created /\ Begin(c, NoQuote, "cancel")

CancelRequest(c) == Created /\ request.status # "accepted" /\ Begin(c, NoQuote, "cancel")

\* respond refuses a cancelled request and no other.
Respond(c) ==
    /\ Created /\ request.status # "cancelled"
    /\ Cardinality({d \in Callers : At(d, "respond")})
         < Cardinality({q \in Quotes : Status(q) = "none"})
    /\ Begin(c, NoQuote, "respond")

\* Faulty variant: whether the quotation was accepted is not asked.
UpdateAny(c, q) ==
    /\ Status(q) # "none"
    /\ quote[q].v < MaxVersion
    /\ Begin(c, q, "revise")

\* ownedQuotation: a quotation is revised or withdrawn by its author.
UpdateQuotation(c, q) ==
    /\ Status(q) \notin {"none", "accepted"}
    /\ quote[q].v < MaxVersion
    /\ Begin(c, q, "revise")

WithdrawQuotation(c, q) == Status(q) \notin {"none", "accepted"} /\ Begin(c, q, "withdraw")

-----------------------------------------------------------------------------
(* acceptQuotation, rejectQuotation, withdrawQuotation.                    *)

SaveAccepted(c) ==
    /\ At(c, "accept")
    /\ quote' = IF task[c].status = "accepted" THEN quote ELSE Set(task[c].q, "accepted")
    /\ Goto(c, "siblings")
    /\ UNCHANGED request

\* The other live quotations; the accepted one is not among them.
RejectSiblings(c) ==
    /\ At(c, "siblings")
    /\ quote' = [AllLive("rejected") EXCEPT ![task[c].q] = quote[task[c].q]]
    /\ Goto(c, "close")
    /\ UNCHANGED request

CloseRequest(c) ==
    /\ At(c, "close")
    /\ request' = [request EXCEPT !.status = "accepted"]
    /\ Finish(c)
    /\ UNCHANGED quote

SaveRejected(c) ==
    /\ At(c, "reject")
    /\ quote' = IF task[c].status = "rejected" THEN quote ELSE Set(task[c].q, "rejected")
    /\ Finish(c)
    /\ UNCHANGED request

SaveWithdrawn(c) ==
    /\ At(c, "withdraw")
    /\ quote' = IF task[c].status = "withdrawn" THEN quote ELSE Set(task[c].q, "withdrawn")
    /\ Finish(c)
    /\ UNCHANGED request

-----------------------------------------------------------------------------
(* updateRequest and cancelRequest.                                        *)

FindLive(c) ==
    /\ At(c, "edit")
    /\ Goto(c, IF LiveQuotes = {} THEN "saveBrief" ELSE "supersede")
    /\ UNCHANGED <<request, quote>>

\* Faulty variant: a quotation that was revised before stays as it is.
SupersedeSent(c) ==
    /\ At(c, "supersede")
    /\ quote' = [q \in Quotes |-> IF Status(q) = "sent"
                   THEN [quote[q] EXCEPT !.status = "superseded"] ELSE quote[q]]
    /\ Goto(c, "saveOpen")
    /\ UNCHANGED request

Supersede(c) ==
    /\ At(c, "supersede")
    /\ quote' = AllLive("superseded")
    /\ Goto(c, "saveOpen")
    /\ UNCHANGED request

\* The status is written only when the edit changed it.
SaveBrief(c) ==
    /\ task[c].at \in {"saveBrief", "saveOpen"}
    /\ request' = [request EXCEPT !.brief = @ + 1,
                     !.status = IF At(c, "saveOpen") /\ task[c].status # "open"
                                  THEN "open" ELSE @]
    /\ Finish(c)
    /\ UNCHANGED quote

SaveCancelled(c) ==
    /\ At(c, "cancel")
    /\ request' = IF task[c].status = "cancelled" THEN request
                  ELSE [request EXCEPT !.status = "cancelled"]
    /\ Goto(c, "decline")
    /\ UNCHANGED quote

DeclineLive(c) ==
    /\ At(c, "decline")
    /\ quote' = AllLive("rejected")
    /\ Finish(c)
    /\ UNCHANGED request

-----------------------------------------------------------------------------
(* respond and updateQuotation.                                            *)

\* A quotation sent while the copy said OPEN moves the request on.
CreateQuotation(c) ==
    /\ At(c, "respond")
    /\ \E q \in Quotes, o \in Organizers, p \in Prices, draft \in BOOLEAN :
         /\ Status(q) = "none"
         /\ Incoming(o)
         /\ quote' = [quote EXCEPT ![q] =
                        [status |-> IF draft THEN "draft" ELSE "sent", by |-> o,
                         price |-> p, priced |-> task[c].brief, v |-> 0]]
         /\ IF ~draft /\ task[c].status = "open" THEN Goto(c, "quoted") ELSE Finish(c)
    /\ UNCHANGED request

SaveQuoted(c) ==
    /\ At(c, "quoted")
    /\ request' = [request EXCEPT !.status = "quoted"]
    /\ Finish(c)
    /\ UNCHANGED quote

\* New lines are saved against the version loaded, the rest against the id;
\* a status the handler did not change is not written.
SaveRevision(c) ==
    /\ At(c, "revise")
    /\ \E send \in BOOLEAN, lines \in {TRUE, FullForms} :
         LET q    == task[c].q
             next == IF task[c].status # "draft" THEN "updated"
                     ELSE IF send THEN "sent" ELSE "draft"
             row  == IF next = task[c].status THEN quote[q]
                     ELSE [quote[q] EXCEPT !.status = next]
         IN  \/ /\ lines /\ quote[q].v # task[c].v
                /\ Finish(c)
                /\ UNCHANGED quote
             \/ /\ lines /\ quote[q].v = task[c].v
                /\ \E p \in Prices :
                     quote' = [quote EXCEPT ![q] = [row EXCEPT !.price = p,
                                 !.priced = task[c].brief, !.v = @ + 1]]
                /\ IF next = "sent" THEN Goto(c, "ask") ELSE Finish(c)
             \/ /\ ~lines
                /\ quote' = [quote EXCEPT ![q] = row]
                /\ IF next = "sent" THEN Goto(c, "ask") ELSE Finish(c)
    /\ UNCHANGED request

ReadOpen(c) ==
    /\ At(c, "ask")
    /\ IF request.status = "open" THEN Goto(c, "quoted") ELSE Finish(c)
    /\ UNCHANGED <<request, quote>>

-----------------------------------------------------------------------------
(* The screens.                                                            *)

Rows(S)    == {q \in Quotes : Status(q) \in S}
Authors(Q) == {quote[q].by : q \in Q}
Totals(Q)  == {quote[q].price : q \in Q} \ {0}

\* spread: the cheapest and the dearest, an unpriced quotation left out.
Spread(Q) ==
    IF Totals(Q) = {} THEN [lowest |-> 0, highest |-> 0]
    ELSE [lowest  |-> CHOOSE m \in Totals(Q) : \A n \in Totals(Q) : m <= n,
          highest |-> CHOOSE m \in Totals(Q) : \A n \in Totals(Q) : m >= n]

\* toQuoteSummary: the card on Home.
HomeCard ==
    LET shown == Rows(QuoteStatuses \ Dead)
    IN  [count |-> Cardinality(shown), spread |-> Spread(shown),
         decided |-> \E q \in shown : Status(q) = "accepted",
         awaiting |-> request.recipients \ Authors(shown)]

\* listForUser: the responses My Events lists.
Responses == Rows(QuoteStatuses \ Dead)

\* Faulty variant: the console was not told of SUPERSEDED.
AdminCountOld == Cardinality(Rows(QuoteStatuses \ {"draft", "withdrawn"}))

\* AdminEventService.list and detail count them with a filter of their own.
AdminCount == Cardinality(Rows(QuoteStatuses \ {"draft", "withdrawn", "superseded"}))

\* getRequest, responseState and awaitingOrganizers: the request's own page.
RequestPage ==
    [quotations |-> Received, sentTo |-> Cardinality(request.recipients),
     replied |-> Authors(Received), awaiting |-> request.recipients \ Authors(Received)]

\* buildTimeline: what it says of each quotation.
Timeline == [q \in Received |-> IF Status(q) \in Live THEN "quoted" ELSE Status(q)]

\* getBookingSeed.
Bookable == Rows({"accepted"})

-----------------------------------------------------------------------------
Step(c) ==
    \/ SaveAccepted(c) \/ RejectSiblings(c) \/ CloseRequest(c)
    \/ SaveRejected(c) \/ SaveWithdrawn(c)
    \/ FindLive(c) \/ Supersede(c) \/ SaveBrief(c) \/ SaveCancelled(c) \/ DeclineLive(c)
    \/ CreateQuotation(c) \/ SaveQuoted(c) \/ SaveRevision(c) \/ ReadOpen(c)

Arrive(c) ==
    \/ UpdateRequest(c) \/ CancelRequest(c) \/ Respond(c)
    \/ \E q \in Quotes : Accept(c, q) \/ Reject(c, q) \/ UpdateQuotation(c, q)
                           \/ WithdrawQuotation(c, q)

Next == CreateFromDraft \/ CreateForOrganizers
          \/ \E c \in Callers : Arrive(c) \/ Step(c)

Spec == Init /\ [][Next]_vars

-----------------------------------------------------------------------------
(* Properties.                                                             *)

TypeOK ==
    /\ request \in RequestRows
    /\ quote \in [Quotes -> QuoteRows]
    /\ task \in [Callers -> Tasks]

AtRest == \A c \in Callers : At(c, "idle")

\* A quotation that can be booked belongs to a request that was closed as
\* ACCEPTED, so the brief it prices can be neither edited nor cancelled any
\* more: acceptQuotation closes it, and updateRequest, cancelRequest, respond
\* and updateQuotation leave it closed.
BookableIsClosed == AtRest /\ Bookable # {} => request.status = "accepted"

\* When every revision brings its lines, whatever the customer can compare
\* prices the brief as it now reads: an edit supersedes what was live, and
\* what is sent or revised later was priced later.
LivePricesTheBrief == AtRest => \A q \in LiveQuotes : quote[q].priced = request.brief

SameTerms(new, old) == new.price = old.price /\ new.priced = old.priced /\ new.v = old.v

\* No step changes the price of a quotation the customer has accepted, the brief
\* it prices, or the version of its lines.
TermsStand == \A q \in Quotes : Status(q) = "accepted" => SameTerms(quote'[q], quote[q])

\* No step changes the terms of a quotation the customer has accepted.
AcceptedTermsStand == [][TermsStand]_vars

\* Home, My Events, the request's page and the admin console tell one story:
\* the counts agree, Home names a winner exactly when the timeline does, and
\* an organizer Home still waits for has no quotation the customer can see
\* but one that is dead; every quotation that names a price lies in the spread.
ScreensAgree ==
    Created =>
      /\ HomeCard.count = Cardinality(Responses)
      /\ HomeCard.count = AdminCount
      /\ HomeCard.decided <=> \E q \in DOMAIN Timeline : Timeline[q] = "accepted"
      /\ RequestPage.awaiting \subseteq HomeCard.awaiting
      /\ \A o \in HomeCard.awaiting \ RequestPage.awaiting, q \in RequestPage.quotations :
           quote[q].by = o => Timeline[q] \in {"withdrawn", "superseded"}
      /\ \A q \in Responses : quote[q].price # 0 =>
           /\ HomeCard.spread.lowest <= quote[q].price
           /\ quote[q].price <= HomeCard.spread.highest

\* The screens agree whatever overlaps; when no two calls do, a bookable
\* quotation closes its brief, and what can be compared prices the brief as it
\* reads, at least where every revision brings its lines.
Alone == \A c, d \in Callers : c = d
BriefsAreSound == ScreensAgree /\ (Alone => BookableIsClosed /\ (FullForms => LivePricesTheBrief))

=============================================================================
