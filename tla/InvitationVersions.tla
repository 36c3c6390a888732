-------------------------- MODULE InvitationVersions --------------------------
(***************************************************************************)
(* One booking's invitation: the organizer's working copy, the version     *)
(* last sent to the customer, the version last approved, and what a guest  *)
(* with a link is shown.                                                   *)
(*                                                                         *)
(* A handler loads the row and saves the paths it changed.  A save that    *)
(* replaces an array, or sets a field of an element, asks for the version  *)
(* that was loaded; every array written moves the version on.              *)
(***************************************************************************)
EXTENDS Naturals, FiniteSets

CONSTANTS
    Callers,    \* requests of the organizer or the customer in flight at once
    Cards,      \* ids of Save-the-Date cards (sub-events)
    Designs,    \* what a card may say: [seen, url, live]
    Targets,    \* countdown targets an edit may name; "" is the main date
    Requests,   \* ids of change requests
    Legacy,     \* rows approved before versions existed are still there
    MaxVersion  \* bound: edits and resolutions arrive below this version

\* Checked where the constants get their values.
InvitationAssumption ==
    /\ {"", "none"} \cap Cards = {}
    /\ Targets \subseteq Cards \cup {""}
    /\ Designs \subseteq [seen : {"all", "mine", "theirs", "hidden"}, url : BOOLEAN,
                          live : BOOLEAN]
    /\ Legacy \in BOOLEAN
    /\ MaxVersion \in Nat

VARIABLES
    invitation,  \* the invitations row
    guest,       \* one guest's row: notices dismissed and shown, stream watched
    desk,        \* per caller: where it stands and the copy it loaded
    made         \* history: the change requests the customer was told were made

invitationVars == <<invitation, guest, desk, made>>

NoCard    == [seen |-> "none", url |-> FALSE, live |-> FALSE]
NoVersion == [cards |-> [c \in Cards |-> NoCard], target |-> "none"]
Blank     == [cards |-> [c \in Cards |-> NoCard], target |-> ""]

\* `work`, `sent` and `published` are the three versions; `marked` says every
\* block of the working copy carries its approved flag.
NoRow == [status |-> "none", work |-> Blank, sent |-> NoVersion, published |-> NoVersion,
          unsent |-> FALSE, marked |-> FALSE, asked |-> {}, open |-> {}, v |-> 0]
Draft == [NoRow EXCEPT !.status = "draft"]
OldRow == [NoRow EXCEPT !.status = "approved"]

Init ==
    /\ invitation \in IF Legacy THEN {NoRow, OldRow} ELSE {NoRow}
    /\ guest = [dismissed |-> {}, shown |-> {}, watching |-> ""]
    /\ desk = [c \in Callers |-> [at |-> "idle", copy |-> NoRow]]
    /\ made = {}

At(c, l) == desk[c].at = l
Copy(c)  == desk[c].copy
Finish(c) == desk' = [desk EXCEPT ![c] = [at |-> "idle", copy |-> NoRow]]

-----------------------------------------------------------------------------
(* Loading.                                                                *)

\* organizerBooking, findOrCreate: the booking's one row, made on first sight.
\* Of two calls creating it at once the unique index lets one through.
Open(c, l) ==
    /\ At(c, "idle")
    /\ invitation' = IF invitation.status = "none" THEN Draft ELSE invitation
    /\ desk' = [desk EXCEPT ![c] = [at |-> l, copy |-> invitation']]
    /\ UNCHANGED <<guest, made>>

\* customerBooking, sharedInvitation: a draft is not shown to the customer.
Shared(c, l) ==
    /\ At(c, "idle")
    /\ invitation.status \notin {"none", "draft"}
    /\ desk' = [desk EXCEPT ![c] = [at |-> l, copy |-> invitation]]
    /\ UNCHANGED <<invitation, guest, made>>

GetForOrganizer ==
    /\ invitation.status = "none"
    /\ invitation' = Draft
    /\ UNCHANGED <<guest, desk, made>>

-----------------------------------------------------------------------------
(* The organizer.                                                          *)

\* liveFieldsFor: switched on without an address is off.
LiveFields(d) == [d EXCEPT !.live = d.live /\ d.url]

\* The row an edit leaves: every array that is given moves the version on.
Edited(c, given, blocks, named, marked, cards, t) ==
    [invitation EXCEPT
       !.work.cards  = IF given THEN cards ELSE @,
       !.work.target = IF named THEN t ELSE @,
       !.marked      = IF blocks THEN marked ELSE @,
       !.unsent      = IF Copy(c).unsent THEN @ ELSE TRUE,
       !.v           = IF given \/ blocks THEN @ + 1 ELSE @]

\* updateForOrganizer: any part may be given; a countdown, when given, must
\* name an event of the result.
UpdateForOrganizer(c) ==
    /\ At(c, "edit")
    /\ \E given \in BOOLEAN, blocks \in BOOLEAN, named \in BOOLEAN, marked \in BOOLEAN :
       \E dto \in [Cards -> Designs \cup {NoCard}], t \in Targets \cup {Copy(c).work.target} :
         LET cards == IF given THEN [e \in Cards |-> LiveFields(dto[e])]
                               ELSE Copy(c).work.cards
             ok    == /\ named /\ t # "" => cards[t] # NoCard
                      /\ given \/ blocks => invitation.v = Copy(c).v
         IN  /\ ~given => dto = Copy(c).work.cards
             /\ named <=> t # Copy(c).work.target
             /\ marked => blocks /\ Copy(c).marked
             /\ invitation' = IF ok THEN Edited(c, given, blocks, named, marked, cards, t)
                              ELSE invitation
    /\ Finish(c)
    /\ UNCHANGED <<guest, made>>

\* The row a save of the copy's answered requests leaves: the whole list is
\* written, so it is refused when another request came in meanwhile.
Answered(c, row, S) ==
    IF S = {} THEN row
    ELSE [row EXCEPT !.asked = Copy(c).asked, !.open = Copy(c).open \ S, !.v = @ + 1]

\* Faulty variant: the list is written without asking for the version.
SendBlindly(c) ==
    /\ At(c, "send")
    /\ invitation' = Answered(c, [invitation EXCEPT !.sent = Copy(c).work,
                       !.unsent = FALSE, !.status = "sent"], Copy(c).open)
    /\ Finish(c)
    /\ UNCHANGED <<guest, made>>

\* Faulty variant: a new version takes the approved one down.
SendAndHide(c) ==
    /\ At(c, "send")
    /\ invitation' = [invitation EXCEPT !.sent = Copy(c).work, !.published = NoVersion,
                                        !.unsent = FALSE, !.status = "sent"]
    /\ Finish(c)
    /\ UNCHANGED <<guest, made>>

\* sendToCustomer: the copy's content becomes the version to review, and the
\* open requests are answered.
SendToCustomer(c) ==
    /\ At(c, "send")
    /\ LET ok == Copy(c).open = {} \/ invitation.v = Copy(c).v
           sent == [invitation EXCEPT !.sent = Copy(c).work,
                      !.unsent = IF Copy(c).unsent THEN FALSE ELSE @,
                      !.status = IF Copy(c).status = "sent" THEN @ ELSE "sent"]
       IN  invitation' = IF ok THEN Answered(c, sent, Copy(c).open) ELSE invitation
    /\ Finish(c)
    /\ UNCHANGED <<guest, made>>

ResolveChangeRequest(c) ==
    /\ At(c, "resolve")
    /\ \E r \in Copy(c).asked :
         invitation' = IF invitation.v = Copy(c).v THEN Answered(c, invitation, {r})
                       ELSE invitation
    /\ Finish(c)
    /\ UNCHANGED <<guest, made>>

-----------------------------------------------------------------------------
(* The customer.                                                           *)

\* Faulty variant: the working copy is published, sent or not.
ApproveWorking(c) ==
    /\ At(c, "approve")
    /\ invitation' = [invitation EXCEPT !.published = Copy(c).work, !.status = "approved"]
    /\ Finish(c)
    /\ UNCHANGED <<guest, made>>

\* approve: what was sent becomes what guests see, the working copy itself
\* when nothing was ever stored.  Marking a block asks for the version.
Approve(c) ==
    /\ At(c, "approve")
    /\ invitation' =
         IF ~Copy(c).marked /\ invitation.v # Copy(c).v THEN invitation
         ELSE [invitation EXCEPT
                 !.published = IF Copy(c).sent = NoVersion THEN Copy(c).work ELSE Copy(c).sent,
                 !.status = IF Copy(c).status = "approved" THEN @ ELSE "approved",
                 !.marked = TRUE]
    /\ Finish(c)
    /\ UNCHANGED <<guest, made>>

\* requestChange: the request is pushed onto the list, whatever its version.
RequestChange(c) ==
    /\ At(c, "request")
    /\ \E r \in Requests \ made :
         /\ invitation' = [invitation EXCEPT !.asked = @ \cup {r}, !.open = @ \cup {r},
                                             !.v = @ + 1]
         /\ made' = made \cup {r}
    /\ Finish(c)
    /\ UNCHANGED guest

\* view: the organizer's screen.
View == [status |-> invitation.status, content |-> invitation.work,
         unsent |-> invitation.unsent, requests |-> invitation.open]

\* listForCustomer: what My invitations lists.
ListedForCustomer == invitation.status \notin {"none", "draft"}

\* customerView: the version sent, before versions existed the working copy.
CustomerView == IF invitation.sent = NoVersion THEN invitation.work ELSE invitation.sent

-----------------------------------------------------------------------------
(* What guests see.                                                        *)

IsLiveForGuests == invitation.published # NoVersion \/ invitation.status = "approved"

\* guestCopy: the approved version, each card's stream taken from the working
\* copy; a card the working copy lost keeps the stream it was approved with.
GuestCopy ==
    LET w == invitation.work
        p == invitation.published
    IN  IF p = NoVersion THEN w
        ELSE [p EXCEPT !.cards = [e \in Cards |->
                IF p.cards[e] = NoCard \/ w.cards[e] = NoCard THEN p.cards[e]
                ELSE [p.cards[e] EXCEPT !.live = w.cards[e].live, !.url = w.cards[e].url]]]

\* guestSubEventsFor, saveTheDateView: hidden cards reach nobody, targeted
\* ones the groups they name.
GuestSubEvents == {e \in Cards : GuestCopy.cards[e].seen \in {"all", "mine"}}

\* liveSubEventFor, liveViewFor: one card whose stream is on.
Streaming == {e \in GuestSubEvents : GuestCopy.cards[e].live /\ GuestCopy.cards[e].url}
LiveView  == IF Streaming = {} THEN "" ELSE CHOOSE e \in Streaming : TRUE

\* countdownTargetOf: the chosen event while it exists, else the main date.
CountdownTarget ==
    LET t == GuestCopy.target
    IN  IF t = "" \/ GuestCopy.cards[t] = NoCard THEN "" ELSE t

\* liveNotificationFor, notificationFor: nothing twice once it was dismissed;
\* `due`: the event is at most a day away and the notice is switched on.
LiveNotice ==
    IF LiveView = "" THEN {} ELSE {<<"live", LiveView>>} \ guest.dismissed
DayNotice(due) ==
    IF due THEN {<<"day", CountdownTarget>>} \ guest.dismissed ELSE {}

\* noticeFor: the stream's notice first.
Notice(due) == IF LiveNotice # {} THEN LiveNotice ELSE DayNotice(due)

\* guestView: what the link shows.
GuestView(due) ==
    [cards |-> GuestSubEvents, live |-> LiveView, countdown |-> CountdownTarget,
     notice |-> Notice(due)]

\* resolveGuest, viewByToken.
ViewByToken ==
    /\ IsLiveForGuests
    /\ \E due \in BOOLEAN : guest' = [guest EXCEPT !.shown = @ \cup GuestView(due).notice]
    /\ UNCHANGED <<invitation, desk, made>>

\* dismissNotification: the client says which kind, the event is looked up now.
DismissNotification ==
    /\ IsLiveForGuests
    /\ \E n \in guest.shown :
         guest' = [guest EXCEPT !.dismissed = @ \cup
                     {<<n[1], IF n[1] = "live" THEN LiveView ELSE CountdownTarget>>}]
    /\ UNCHANGED <<invitation, desk, made>>

PingLive ==
    /\ IsLiveForGuests
    /\ guest' = [guest EXCEPT !.watching = LiveView]
    /\ UNCHANGED <<invitation, desk, made>>

-----------------------------------------------------------------------------
OrganizerCall(c) ==
    \/ Open(c, "send")
    \/ invitation.v < MaxVersion /\ Open(c, "edit")
    \/ invitation.v < MaxVersion /\ invitation.asked # {} /\ Open(c, "resolve")

CustomerCall(c) ==
    \/ Shared(c, "approve")
    \/ made # Requests
         /\ Cardinality({d \in Callers : At(d, "request")}) < Cardinality(Requests \ made)
         /\ Shared(c, "request")

Save(c) == \/ UpdateForOrganizer(c) \/ SendToCustomer(c) \/ ResolveChangeRequest(c)
           \/ Approve(c) \/ RequestChange(c)

Next ==
    \/ GetForOrganizer \/ ViewByToken \/ DismissNotification \/ PingLive
    \/ \E c \in Callers : OrganizerCall(c) \/ CustomerCall(c) \/ Save(c)

Spec == Init /\ [][Next]_invitationVars

-----------------------------------------------------------------------------
(* Properties.                                                             *)

\* A guest link that opens keeps opening: neither an edit, nor a new version
\* sent, nor a change request, in any order, takes it down again.
StaysLive == IsLiveForGuests => IsLiveForGuests'

\* The same of every step.
LinkStaysLive == [][StaysLive]_invitationVars

\* A change request the customer was told was made is never lost: the lists
\* organizer and customer write at the same time do not overwrite each other.
RequestsKept == made \subseteq invitation.asked

\* When calls do not overlap, what the customer approved and what guests are
\* shown is one version, whatever the organizer has edited since.
ApprovedIsPublished ==
    invitation.status = "approved" /\ ~Legacy =>
      invitation.published = invitation.sent /\ CustomerView = invitation.published

\* Whatever overlaps, no request is lost; and when nothing overlaps, one version
\* is approved, published and shown.
Alone == \A c, d \in Callers : c = d
VersionsAreKept == RequestsKept /\ (Alone => ApprovedIsPublished)

\* A guest dismisses no notice on behalf of an event they were never shown.
DismissedWasShown == \A n \in guest.dismissed : n[2] \in Cards => n \in guest.shown

=============================================================================
