------------------------------- MODULE SubVendors -------------------------------
(***************************************************************************)
(* One sub-vendor and the organizers linked to it: invitations sent to a    *)
(* number before its owner signs up, sign-ups that name an organizer,       *)
(* removals and ratings.  A handler looks first and writes afterwards; the  *)
(* links have no unique index.                                              *)
(***************************************************************************)
EXTENDS Naturals, FiniteSets

CONSTANTS
    Callers,     \* requests in flight at once
    Organizers,  \* organizer profiles
    Ids,         \* subvendor_links rows
    Stars,       \* the ratings given
    MaxRatings   \* bound on the ratings of a link

\* Checked where the constants get their values.
SubVendorAssumption == Stars \subseteq 1..5 /\ MaxRatings \in Nat /\ IsFiniteSet(Ids)

VARIABLES
    links,    \* the rows
    profile,  \* the sub-vendor's: none, active or inactive, and a trade to look at
    desk      \* per caller: where it stands

subVendorVars == <<links, profile, desk>>

NoLink    == [org |-> "none", vendor |-> FALSE, invited |-> FALSE, status |-> "NONE",
              total |-> 0, count |-> 0]
NoProfile == [exists |-> FALSE, active |-> FALSE, request |-> FALSE]
NoDesk    == [at |-> "idle", org |-> "none", id |-> "none", copy |-> NoLink]

Taken       == {l \in Ids : links[l] # NoLink}
Between(o)  == {l \in Taken : links[l].org = o /\ links[l].vendor}
Invites(o)  == {l \in Taken : /\ links[l].org = o /\ links[l].invited
                              /\ links[l].status # "REMOVED"}

Init ==
    /\ links = [l \in Ids |-> NoLink]
    /\ profile = NoProfile
    /\ desk = [c \in Callers |-> NoDesk]

At(c, l)   == desk[c].at = l
Goto(c, d) == desk' = [desk EXCEPT ![c] = d]
Done(c)    == Goto(c, NoDesk)
Link(l, o, field, status) == links' = [links EXCEPT ![l] = [[NoLink EXCEPT ![field] = TRUE]
                                                 EXCEPT !.org = o, !.status = status]]

-----------------------------------------------------------------------------
(* onboard: idempotent, and "none" when no organizer's number was given.    *)

Onboard(c) ==
    /\ At(c, "idle")
    /\ \E o \in Organizers \cup {"none"}, other \in BOOLEAN :
         /\ profile' = IF profile.exists THEN profile
                       ELSE [exists |-> TRUE, active |-> TRUE, request |-> other]
         /\ Goto(c, [NoDesk EXCEPT !.at = "resolve", !.org = o])
    /\ UNCHANGED links

Waiting == {l \in Taken : links[l].invited /\ links[l].status = "PENDING"}

\* Faulty variant: only one of the invitations is taken up.
ResolveOne(c) ==
    /\ At(c, "resolve")
    /\ links' = [l \in Ids |-> IF Waiting # {} /\ l = CHOOSE w \in Waiting : TRUE
                                 THEN [links[l] EXCEPT !.vendor = TRUE, !.status = "ACTIVE"] ELSE links[l]]
    /\ IF desk[c].org = "none" THEN Done(c) ELSE Goto(c, [desk[c] EXCEPT !.at = "find"])
    /\ UNCHANGED profile

\* Every invitation still open for the number, whoever sent it.
ResolveInvites(c) ==
    /\ At(c, "resolve")
    /\ links' = [l \in Ids |-> IF l \in Waiting
                                 THEN [links[l] EXCEPT !.vendor = TRUE, !.status = "ACTIVE"] ELSE links[l]]
    /\ IF desk[c].org = "none" THEN Done(c) ELSE Goto(c, [desk[c] EXCEPT !.at = "find"])
    /\ UNCHANGED profile

-----------------------------------------------------------------------------
(* invite.                                                                 *)

\* A number whose owner signed up is linked at once, any other is invited.
Invite(c) ==
    /\ At(c, "idle")
    /\ \E o \in Organizers :
         Goto(c, [NoDesk EXCEPT !.at = IF profile.exists THEN "find" ELSE "invite", !.org = o])
    /\ UNCHANGED <<links, profile>>

\* The organizer's link with the sub-vendor, put back when it was removed.
FindLink(c) ==
    /\ At(c, "find")
    /\ IF Between(desk[c].org) = {} THEN Goto(c, [desk[c] EXCEPT !.at = "link"]) /\ UNCHANGED links
       ELSE \E l \in Between(desk[c].org) :
              links' = [links EXCEPT ![l].status = "ACTIVE"] /\ Done(c)
    /\ UNCHANGED profile

CreateLink(c) ==
    /\ At(c, "link")
    /\ \E l \in Ids \ Taken : Link(l, desk[c].org, "vendor", "ACTIVE")
    /\ Done(c)
    /\ UNCHANGED profile

\* Faulty variant: an invitation that waits is not looked for.
InviteAgain(c) ==
    /\ At(c, "invite")
    /\ Goto(c, [desk[c] EXCEPT !.at = "send"])
    /\ UNCHANGED <<links, profile>>

FindInvite(c) ==
    /\ At(c, "invite")
    /\ IF Invites(desk[c].org) = {} THEN Goto(c, [desk[c] EXCEPT !.at = "send"]) ELSE Done(c)
    /\ UNCHANGED <<links, profile>>

SendInvite(c) ==
    /\ At(c, "send")
    /\ \E l \in Ids \ Taken : Link(l, desk[c].org, "invited", "PENDING")
    /\ Done(c)
    /\ UNCHANGED profile

-----------------------------------------------------------------------------
(* The rest.                                                               *)

Remove(c) ==
    /\ At(c, "idle")
    /\ \E l \in Taken : links' = [links EXCEPT ![l].status = "REMOVED"]
    /\ UNCHANGED <<profile, desk>>

\* Counts and totals are read, added to and written.
Rate(c) ==
    /\ At(c, "idle")
    /\ \E l \in Taken : /\ links[l].count < MaxRatings
                        /\ Goto(c, [NoDesk EXCEPT !.at = "rate", !.id = l, !.copy = links[l]])
    /\ UNCHANGED <<links, profile>>

SaveRating(c) ==
    /\ At(c, "rate")
    /\ \E s \in Stars :
         links' = [links EXCEPT ![desk[c].id].total = desk[c].copy.total + s,
                                ![desk[c].id].count = desk[c].copy.count + 1]
    /\ Done(c)
    /\ UNCHANGED profile

\* updateOwnProfile, and the administrator's setActive.
SetActive(c) ==
    /\ At(c, "idle") /\ profile.exists
    /\ \E b \in BOOLEAN : profile' = [profile EXCEPT !.active = b]
    /\ UNCHANGED <<links, desk>>

ResolveCategoryRequest(c) ==
    /\ At(c, "idle") /\ profile.exists
    /\ profile' = [profile EXCEPT !.request = FALSE]
    /\ UNCHANGED <<links, desk>>

-----------------------------------------------------------------------------
(* What the others see.                                                    *)

ActiveLinksFor(o)   == {l \in Between(o) : links[l].status = "ACTIVE"}
AssertLinked(o)     == ActiveLinksFor(o) # {}
ListForOrganizer(o) == {l \in Taken : links[l].org = o /\ links[l].status # "REMOVED"}

\* What the administrators' list shows beside the sub-vendor.
OrganizerCount == Cardinality({l \in Taken : links[l].vendor /\ links[l].status = "ACTIVE"})

Next == \E c \in Callers :
    \/ Onboard(c) \/ ResolveInvites(c) \/ Invite(c) \/ FindLink(c) \/ CreateLink(c)
    \/ FindInvite(c) \/ SendInvite(c) \/ Remove(c) \/ Rate(c) \/ SaveRating(c)
    \/ SetActive(c) \/ ResolveCategoryRequest(c)

Spec == Init /\ [][Next]_subVendorVars

-----------------------------------------------------------------------------
(* Properties, for handlers that do not overlap.                           *)

\* An organizer has the sub-vendor on the list once, through invitations,
\* sign-ups, removals and invitations again: removing the one link ends it.
OneLinkPerOrganizer ==
    /\ \A o \in Organizers : Cardinality(ListForOrganizer(o)) <= 1
    /\ OrganizerCount = Cardinality({o \in Organizers : AssertLinked(o)})

\* Whoever signed up is no longer waited for: no invitation stays open once
\* the sign-up is through.
NoInviteLeftOpen ==
    profile.exists /\ (\A c \in Callers : ~At(c, "resolve")) => Waiting = {}

\* No two handlers overlap.
Alone == \A c, d \in Callers : c = d

\* Where they do not, an invitation ends as one link or as none.
LinksAreSettled == Alone => OneLinkPerOrganizer /\ NoInviteLeftOpen

=============================================================================
