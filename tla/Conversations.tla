------------------------------ MODULE Conversations ------------------------------
(***************************************************************************)
(* The thread between one customer and one organizer: messages, the badge   *)
(* each side sees, the organizer's measured reply time, and the notices     *)
(* that messages and quotes leave in an inbox.  A message is its sender;    *)
(* its place in the thread is also its time.  Any call to the database may  *)
(* fail, and the process may die between two of them.                       *)
(***************************************************************************)
EXTENDS Integers, Sequences, FiniteSets, Functions

CONSTANTS
    Callers,      \* requests in flight at once
    PageSize,     \* PAGE_SIZE
    REPLY_MESSAGE_LIMIT,  \* the messages a reply time is taken over, oldest first
    MaxMessages   \* bound on the thread

\* Checked where the constants get their values.
ConversationsAssumption ==
    PageSize \in Nat \ {0} /\ REPLY_MESSAGE_LIMIT \in Nat /\ MaxMessages \in Nat

Sides == {"customer", "organizer"}
Other == [customer |-> "organizer", organizer |-> "customer"]
Kinds == {"message", "quote"}

VARIABLES
    thread,   \* the messages, oldest first
    conv,     \* the conversation's row: does it exist, each side's unread count
    profile,  \* the organizer's row: reply time and how many replies it is taken over
    inbox,    \* per side and kind: identical notices unread
    desk,     \* per request: where it stands and what it read
    seen,     \* history, per side: the messages an answer has shown
    lost      \* history: the messages no badge counted, and whether the last refresh of
              \* the reply time that was due never happened

conversationVars == <<thread, conv, profile, inbox, desk, seen, lost>>

NoDesk == [at |-> "idle", side |-> "customer", unread |-> 0, kind |-> "message",
           sent |-> FALSE, upto |-> 0, median |-> 0, samples |-> 0]

Init ==
    /\ thread = <<>>
    /\ conv = [exists |-> FALSE, unread |-> [s \in Sides |-> 0]]
    /\ profile = [median |-> 0, samples |-> 0]
    /\ inbox = [s \in Sides |-> [k \in Kinds |-> 0]]
    /\ desk = [c \in Callers |-> NoDesk]
    /\ seen = [s \in Sides |-> {}]
    /\ lost = [badges |-> {}, refresh |-> FALSE]

At(c, l)   == desk[c].at = l
Goto(c, d) == desk' = [desk EXCEPT ![c] = d]
Done(c)    == Goto(c, NoDesk)

-----------------------------------------------------------------------------
(* The thread.                                                             *)

\* An upsert on the unique pair: two taps open the same thread.
OpenWithOrganizer(c) ==
    /\ At(c, "idle")
    /\ conv' = [conv EXCEPT !.exists = TRUE]
    /\ UNCHANGED <<thread, profile, inbox, desk, seen, lost>>

\* messages: the caller's side of the thread, then a page of it.
LoadThread(c) ==
    /\ At(c, "idle") /\ conv.exists
    /\ \E s \in Sides :
         Goto(c, [NoDesk EXCEPT !.at = "page", !.side = s, !.unread = conv.unread[s]])
    /\ UNCHANGED <<thread, conv, profile, inbox, seen, lost>>

\* The page is the oldest PageSize messages.
Messages(c) ==
    /\ At(c, "page")
    /\ Goto(c, [desk[c] EXCEPT !.at = "read",
                               !.upto = IF Len(thread) < PageSize THEN Len(thread) ELSE PageSize])
    /\ UNCHANGED <<thread, conv, profile, inbox, seen, lost>>

\* The answer, which shows the page that was read.
Show(c) == seen' = [seen EXCEPT ![desk[c].side] = @ \cup 1..desk[c].upto]

\* Faulty variant: both badges are cleared.
MarkBothRead(c) ==
    /\ At(c, "read")
    /\ conv' = IF desk[c].unread = 0 THEN conv ELSE [conv EXCEPT !.unread = [s \in Sides |-> 0]]
    /\ Show(c) /\ Done(c)
    /\ UNCHANGED <<thread, profile, inbox, lost>>

\* Nothing is written when the copy says there is nothing unread.
MarkRead(c) ==
    /\ At(c, "read")
    /\ conv' = IF desk[c].unread = 0 THEN conv ELSE [conv EXCEPT !.unread[desk[c].side] = 0]
    /\ Show(c) /\ Done(c)
    /\ UNCHANGED <<thread, profile, inbox, lost>>

\* send: the message, then the preview and the other side's badge.  Whoever
\* writes has the thread on screen already or not: nothing is marked read.
Send(c) ==
    /\ At(c, "idle") /\ conv.exists /\ Len(thread) < MaxMessages
    /\ \E s \in Sides :
         /\ thread' = Append(thread, s)
         /\ Goto(c, [NoDesk EXCEPT !.at = "badge", !.side = s, !.upto = Len(thread) + 1])
    /\ UNCHANGED <<conv, profile, inbox, seen, lost>>

Badge(c) ==
    /\ At(c, "badge")
    /\ conv' = [conv EXCEPT !.unread[Other[desk[c].side]] = @ + 1]
    /\ Goto(c, [desk[c] EXCEPT !.at = "replace", !.side = Other[@], !.sent = TRUE, !.upto = 0])
    /\ UNCHANGED <<thread, profile, inbox, seen, lost>>

UnreadCount(s) == conv.unread[s]

-----------------------------------------------------------------------------
(* Notices.                                                                *)

\* A flow elsewhere tells somebody about a quote.
Notify(c) ==
    /\ At(c, "idle")
    /\ \E s \in Sides :
         /\ Goto(c, [NoDesk EXCEPT !.at = "wants", !.side = s, !.kind = "quote"])
    /\ UNCHANGED <<thread, conv, profile, inbox, seen, lost>>

\* Only quote notices are governed by a preference of the side's, which may
\* say either; one that cannot be read counts as yes.
Wants(c) ==
    /\ At(c, "wants")
    /\ Done(c) \/ Goto(c, [desk[c] EXCEPT !.at = "replace"])
    /\ UNCHANGED <<thread, conv, profile, inbox, seen, lost>>

\* create: the identical unread notice goes first.
Replace(c) ==
    /\ At(c, "replace")
    /\ inbox' = [inbox EXCEPT ![desk[c].side][desk[c].kind] = 0]
    /\ Goto(c, [desk[c] EXCEPT !.at = "create"])
    /\ UNCHANGED <<thread, conv, profile, seen, lost>>

\* The organizer's own message goes on to the reply time.
AfterNotice(c) ==
    IF desk[c].sent /\ desk[c].side = "customer" THEN Goto(c, [desk[c] EXCEPT !.at = "measure"])
                                                ELSE Done(c)

CreateNotice(c) ==
    /\ At(c, "create")
    /\ inbox' = [inbox EXCEPT ![desk[c].side][desk[c].kind] = @ + 1]
    /\ AfterNotice(c)
    /\ UNCHANGED <<thread, conv, profile, seen, lost>>

\* After a message, a notice that fails is swallowed.
NoticeFails(c) ==
    /\ At(c, "replace") \/ At(c, "create")
    /\ desk[c].sent
    /\ AfterNotice(c)
    /\ UNCHANGED <<thread, conv, profile, inbox, seen, lost>>

MarkAllRead(c) ==
    /\ At(c, "idle")
    /\ \E s \in Sides, K \in (SUBSET Kinds) \ {{}} :
         inbox' = [inbox EXCEPT ![s] = [k \in Kinds |-> IF k \in K THEN 0 ELSE @[k]]]
    /\ UNCHANGED <<thread, conv, profile, desk, seen, lost>>

-----------------------------------------------------------------------------
(* How long the organizer takes to reply.                                  *)

\* The loop, as far as message i: since when the customer waits, 0 for nobody.
WaitingSince(t) ==
    LET since[i \in 0..Len(t)] ==
          IF i = 0 THEN 0
          ELSE IF t[i] = "organizer" THEN 0
          ELSE IF since[i - 1] = 0 THEN i ELSE since[i - 1]
    IN since

\* A wait ends at the organizer's next message, whose place in the thread names it.
Waits(t) ==
    LET since == WaitingSince(t)
    IN [j \in {j \in DOMAIN t : t[j] = "organizer" /\ since[j - 1] # 0} |-> j - since[j - 1]]

\* The gaps, shortest first.
ShortestFirst(gaps) ==
    LET answers == DOMAIN gaps
    IN CHOOSE s \in Bijection(1..Cardinality(answers), answers) :
         \A i, j \in DOMAIN s : i < j => gaps[s[i]] <= gaps[s[j]]

\* The middle of the gaps; the mean of the two in the middle, rounded half up.
Median(gaps) ==
    LET s == ShortestFirst(gaps)  n == Cardinality(DOMAIN gaps)  mid == n \div 2
    IN IF n = 0 THEN 0 ELSE IF n % 2 = 1 THEN gaps[s[mid + 1]]
       ELSE (gaps[s[mid]] + gaps[s[mid + 1]] + 1) \div 2

\* The messages a reply time is taken over.
Measured(t) == SubSeq(t, 1, IF Len(t) < REPLY_MESSAGE_LIMIT THEN Len(t) ELSE REPLY_MESSAGE_LIMIT)

RefreshReplyTime(c) ==
    LET waits == Waits(Measured(thread)) IN
    /\ At(c, "measure")
    /\ Goto(c, [desk[c] EXCEPT !.at = "store", !.median = Median(waits),
                               !.samples = Cardinality(DOMAIN waits)])
    /\ UNCHANGED <<thread, conv, profile, inbox, seen, lost>>

StoreReplyTime(c) ==
    /\ At(c, "store")
    /\ profile' = [median |-> desk[c].median, samples |-> desk[c].samples]
    /\ lost' = [lost EXCEPT !.refresh = FALSE]
    /\ Done(c)
    /\ UNCHANGED <<thread, conv, inbox, seen>>

-----------------------------------------------------------------------------
\* The organizer's message is stored, and the reply time not yet.
RefreshIsDue(d) ==
    \/ d.at = "badge" /\ d.side = "organizer"
    \/ d.at \in {"replace", "create"} /\ d.sent /\ d.side = "customer"
    \/ d.at \in {"measure", "store"}

\* A call fails and ends the request, or the process dies.  So does a refresh
\* that fails, which is swallowed: "the statistic can wait for the next send".
Stop(c) ==
    LET d == desk[c] IN
    /\ ~At(c, "idle")
    /\ lost' = [badges  |-> IF d.at = "badge" THEN lost.badges \cup {d.upto} ELSE lost.badges,
                refresh |-> lost.refresh \/ RefreshIsDue(d)]
    /\ Done(c)
    /\ UNCHANGED <<thread, conv, profile, inbox, seen>>

Next == \E c \in Callers :
    \/ OpenWithOrganizer(c) \/ LoadThread(c) \/ Messages(c) \/ MarkRead(c) \/ Send(c) \/ Badge(c)
    \/ Notify(c) \/ Wants(c) \/ Replace(c) \/ CreateNotice(c) \/ NoticeFails(c) \/ MarkAllRead(c)
    \/ RefreshReplyTime(c) \/ StoreReplyTime(c) \/ Stop(c)

Spec == Init /\ [][Next]_conversationVars

-----------------------------------------------------------------------------
(* Properties, for requests that do not overlap.                           *)

Idle == \A c \in Callers : At(c, "idle")

\* The badge counts what the other side wrote and no answer has shown, but for
\* the messages whose count was lost with the call that made it, as long as
\* the thread fits a page (see SeenIsShown).
BadgeIsHonest ==
    Idle => \A s \in Sides : UnreadCount(s) =
        Cardinality({i \in DOMAIN thread : thread[i] = Other[s] /\ i \notin seen[s] /\ i \notin lost.badges})

\* "Opening it is what seen means": where no badge was lost and none is left,
\* every message to the reader has been shown.
SeenIsShown ==
    Idle /\ lost.badges = {} => \A s \in Sides : UnreadCount(s) = 0 =>
        {i \in DOMAIN thread : thread[i] = Other[s]} \subseteq seen[s]

\* However the customer presses: one answer is one reply, counted at the turn
\* from customer to organizer among the messages that are measured, and the
\* median lies among the waits.  A refresh that failed waits for the next that
\* does not, which makes up for it.
OneReplyPerAnswer ==
    Idle /\ ~lost.refresh =>
        LET turns == {i \in DOMAIN thread : /\ i > 1 /\ i <= REPLY_MESSAGE_LIMIT
                                           /\ thread[i] = "organizer" /\ thread[i-1] = "customer"}
        IN /\ profile.samples = Cardinality(turns)
           /\ turns # {} => profile.median \in 1..Len(thread)

\* However often a flow fires, one card waits to be read.
OneNoticePerThing == \A s \in Sides, k \in Kinds : inbox[s][k] <= 1

=============================================================================
