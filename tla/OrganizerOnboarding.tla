-------------------------- MODULE OrganizerOnboarding --------------------------
(***************************************************************************)
(* One organizer's profile: sign-up, the steps the organizer fills in, the  *)
(* submission, the administrators' decisions and what customers see of it.  *)
(*                                                                         *)
(* A handler reads the profile, works on its copy and saves: the save goes  *)
(* by _id, writes the paths the copy changed and pushes onto reviewTrail.   *)
(* A step of the form is one field here: filled, or not.                    *)
(***************************************************************************)
EXTENDS Naturals, FiniteSets

CONSTANTS
    Callers,   \* requests in flight at once, the organizer's and the administrators'
    Fields,    \* required to go live, but for the identity documents
    Identity,  \* required to go live, and never typed by an administrator
    Accounts,  \* complete sets of bank details
    Legacy     \* TRUE: the profile may date from the registration review

\* Checked where the constants get their values.
OnboardingAssumption ==
    /\ Legacy \in BOOLEAN
    /\ Fields \cap Identity = {}
    /\ IsFiniteSet(Fields) /\ IsFiniteSet(Identity)

VARIABLES
    profile,  \* the organizer_profiles row, Nobody before sign-up
    role,     \* TRUE: the account has the organizer role
    caller    \* per caller: the copy it read, the copy it saves, its trail entry

onboardingVars == <<profile, role, caller>>

GoLiveRequired == Fields \cup Identity

Nobody == [status |-> "NONE", live |-> FALSE, filled |-> {}, bank |-> "", completion |-> 0,
           last |-> "", note |-> ""]

NoEntry == [to |-> "", note |-> ""]
NoCall  == [at |-> "idle", was |-> Nobody, copy |-> Nobody, entry |-> NoEntry]

Allowed == [PENDING_REVIEW    |-> {"DRAFT", "REJECTED"},
            DRAFT             |-> {"IN_PROGRESS", "SUBMITTED", "REJECTED"},
            IN_PROGRESS       |-> {"SUBMITTED", "REJECTED"},
            SUBMITTED         |-> {"APPROVED", "CHANGES_REQUESTED", "REJECTED"},
            CHANGES_REQUESTED |-> {"IN_PROGRESS", "SUBMITTED", "REJECTED"},
            APPROVED          |-> {"REJECTED", "CHANGES_REQUESTED"},
            REJECTED          |-> {"DRAFT"}]

CanTransition(from, to) == to \in Allowed[from]
CanOrganizerEdit(p)     == p.status \in {"DRAFT", "IN_PROGRESS", "CHANGES_REQUESTED"}
CanAdminEdit(p)         == CanOrganizerEdit(p) \/ p.status = "SUBMITTED"

PayoutReady(p) == p.bank # ""
Overall(p)     == Cardinality(p.filled) + (IF PayoutReady(p) THEN 1 ELSE 0)
GoLiveMissing(p) == GoLiveRequired \ p.filled

\* Faulty variant: bank details stay open after the submission.
CanEditBankAlways(p) == CanOrganizerEdit(p) \/ p.status \in {"SUBMITTED", "APPROVED"}

CanEditBank(p) ==
    CanOrganizerEdit(p) \/ (p.status \in {"SUBMITTED", "APPROVED"} /\ ~PayoutReady(p))

\* The reason shown: that of the last rejection or request for changes.
OutstandingNote(p) == IF p.status \in {"REJECTED", "CHANGES_REQUESTED"} THEN p.note ELSE ""

Toggled(p, f) ==
    [p EXCEPT !.filled = IF f \in @ THEN @ \ {f} ELSE @ \cup {f}]

Recomputed(p) == [p EXCEPT !.completion = Overall(p)]

\* Faulty variant: the stored completion is left as it was.
FinalizedStale(p) ==
    [p EXCEPT !.status = IF Overall(p) > 0 /\ @ \in {"DRAFT", "CHANGES_REQUESTED"}
                           THEN "IN_PROGRESS" ELSE @]

\* finalizeSave, before its save.
Finalized(p) ==
    [Recomputed(p) EXCEPT
        !.status = IF Overall(p) > 0 /\ @ \in {"DRAFT", "CHANGES_REQUESTED"}
                     THEN "IN_PROGRESS" ELSE @]

Init ==
    /\ profile \in {Nobody} \cup
         IF Legacy THEN {Recomputed([Nobody EXCEPT !.status = "PENDING_REVIEW", !.filled = F,
                                                   !.last = "PENDING_REVIEW"]) : F \in SUBSET Fields}
                   ELSE {}
    /\ role = (profile # Nobody)
    /\ caller = [c \in Callers |-> NoCall]

Idle(c)      == caller[c].at = "idle"
Goto(c, t)   == caller' = [caller EXCEPT ![c] = t]
Work(c, p, e) == Goto(c, [at |-> "save", was |-> profile, copy |-> p, entry |-> e])

-----------------------------------------------------------------------------
(* The organizer.                                                          *)

\* register, up to addRole.
Register(c) ==
    /\ Idle(c)
    /\ role' = TRUE
    /\ Goto(c, [NoCall EXCEPT !.at = "register"])
    /\ UNCHANGED profile

\* The process may stop before the profile is written; signing up resumes.
Crash(c) ==
    /\ ~Idle(c)
    /\ Goto(c, NoCall)
    /\ UNCHANGED <<profile, role>>

\* A draft with something filled in is in progress, and no entry says so.
Opened(p, F) ==
    LET q == Recomputed([p EXCEPT !.filled = @ \cup F])
    IN IF CanOrganizerEdit(p)
         THEN [q EXCEPT !.status = IF Overall(q) > 0 /\ @ = "DRAFT" THEN "IN_PROGRESS" ELSE @]
         ELSE p

FillProfile(c) ==
    /\ caller[c].at = "register"
    /\ \E F \in SUBSET Fields :
         CASE profile = Nobody ->
                Work(c, Opened([Nobody EXCEPT !.status = "DRAFT"], F), [NoEntry EXCEPT !.to = "DRAFT"])
           [] profile.status = "PENDING_REVIEW" ->
                Work(c, Opened([profile EXCEPT !.status = "DRAFT"], F), [NoEntry EXCEPT !.to = "DRAFT"])
           [] OTHER -> Work(c, Opened(profile, F), NoEntry)
    /\ UNCHANGED <<profile, role>>

\* updateProfile, updateVerification, updateServices, updatePortfolio.
OrganizerEdits(c) ==
    /\ Idle(c) /\ profile # Nobody
    /\ CanOrganizerEdit(profile)
    /\ \E f \in GoLiveRequired : Work(c, Finalized(Toggled(profile, f)), NoEntry)
    /\ UNCHANGED <<profile, role>>

UpdateBank(c) ==
    /\ Idle(c) /\ profile # Nobody
    /\ CanEditBank(profile)
    /\ \E b \in Accounts \cup {""} : Work(c, Finalized([profile EXCEPT !.bank = b]), NoEntry)
    /\ UNCHANGED <<profile, role>>

CompleteOnboarding(c) ==
    /\ Idle(c) /\ profile # Nobody
    /\ CanOrganizerEdit(profile)
    /\ GoLiveMissing(profile) = {}
    /\ CanTransition(profile.status, "SUBMITTED")
    /\ Work(c, [profile EXCEPT !.status = "SUBMITTED"], [NoEntry EXCEPT !.to = "SUBMITTED"])
    /\ UNCHANGED <<profile, role>>

-----------------------------------------------------------------------------
(* The administrators.                                                     *)

Transition(c, to, live, note) ==
    /\ CanTransition(profile.status, to)
    /\ Work(c, [profile EXCEPT !.status = to, !.live = live], [to |-> to, note |-> note])
    /\ UNCHANGED <<profile, role>>

\* One button: admits, reopens or puts live.
Approve(c) ==
    /\ Idle(c) /\ profile # Nobody
    /\ IF profile.status \in {"PENDING_REVIEW", "REJECTED"}
         THEN Transition(c, "DRAFT", profile.live, "")
         ELSE GoLiveMissing(profile) = {} /\ Transition(c, "APPROVED", TRUE, "")

\* Faulty variant: the listing is left as it was.
RejectQuietly(c) ==
    /\ Idle(c) /\ profile # Nobody
    /\ Transition(c, "REJECTED", profile.live, "REJECTED")

Reject(c) ==
    /\ Idle(c) /\ profile # Nobody
    /\ Transition(c, "REJECTED", FALSE, "REJECTED")

RequestChanges(c) ==
    /\ Idle(c) /\ profile # Nobody
    /\ Transition(c, "CHANGES_REQUESTED", FALSE, "CHANGES_REQUESTED")

\* updateOnboarding.
AdminEdits(c) ==
    /\ Idle(c) /\ profile # Nobody
    /\ CanAdminEdit(profile)
    /\ \E f \in Fields : Work(c, Recomputed(Toggled(profile, f)), [NoEntry EXCEPT !.to = profile.status])
    /\ UNCHANGED <<profile, role>>

-----------------------------------------------------------------------------
(* The save.                                                               *)

\* What a path holds after a save: the copy's value where the copy changed it.
Path(c, p) == IF caller[c].copy[p] = caller[c].was[p] THEN profile[p] ELSE caller[c].copy[p]

Toggles(c) ==
    LET was == caller[c].was.filled
        now == caller[c].copy.filled
    IN (profile.filled \cup (now \ was)) \ (was \ now)

Saved(c) ==
    LET e == caller[c].entry
    IN [status |-> Path(c, "status"), live |-> Path(c, "live"), filled |-> Toggles(c),
        bank |-> Path(c, "bank"), completion |-> Path(c, "completion"),
        last |-> IF e.to = "" THEN profile.last ELSE e.to,
        note |-> IF e.note = "" THEN profile.note ELSE e.note]

\* The user index lets one profile in: a second insert is refused.
Save(c) ==
    /\ caller[c].at = "save"
    /\ profile' = IF caller[c].was = Nobody /\ profile # Nobody THEN profile ELSE Saved(c)
    /\ Goto(c, NoCall)
    /\ UNCHANGED role

-----------------------------------------------------------------------------
(* What customers and the organizer see.                                   *)

FindPublic == profile.live
Verified   == profile.status = "APPROVED"

OrganizerView ==
    [canEdit     |-> CanOrganizerEdit(profile),
     canEditBank |-> CanEditBank(profile),
     payout      |-> PayoutReady(profile),
     note        |-> OutstandingNote(profile)]

OnboardingStatus ==
    [canEdit   |-> CanOrganizerEdit(profile),
     canSubmit |-> CanOrganizerEdit(profile) /\ GoLiveMissing(profile) = {}]

AdminRow == [status |-> profile.status, completion |-> profile.completion, live |-> profile.live]

-----------------------------------------------------------------------------
Next == \E c \in Callers :
    \/ Register(c) \/ FillProfile(c) \/ OrganizerEdits(c) \/ UpdateBank(c) \/ CompleteOnboarding(c)
    \/ Approve(c) \/ Reject(c) \/ RequestChanges(c) \/ AdminEdits(c)
    \/ Save(c) \/ Crash(c)

Spec == Init /\ [][Next]_onboardingVars

-----------------------------------------------------------------------------
(* Properties, for handlers that do not overlap.                           *)

\* Customers find exactly the organizers whose approval stands, and nothing
\* such an organizer's page needs is missing, whatever edits, rejections,
\* reopenings and requests for changes went before.
ListedIsApproved ==
    /\ FindPublic <=> Verified
    /\ FindPublic => GoLiveMissing(profile) = {}

\* The record explains the state: the trail ends at the status (a first edit
\* leaves no entry), a refused organizer is shown the reason of the refusal,
\* who is offered to submit may, and the completion an administrator reads is
\* the profile's.
TrailTellsTheStatus ==
    profile # Nobody =>
      /\ \/ profile.last = profile.status
         \/ profile.status = "IN_PROGRESS" /\ profile.last \in {"DRAFT", "CHANGES_REQUESTED"}
      /\ profile.status \in {"REJECTED", "CHANGES_REQUESTED"} =>
           OrganizerView.note = profile.status
      /\ OnboardingStatus.canSubmit => CanTransition(profile.status, "SUBMITTED")
      /\ AdminRow.completion = Overall(profile)

\* No two handlers overlap.
Alone == \A c, d \in Callers : c = d

\* Where they do not, customers find the approved and the record explains why.
VerdictsStand == Alone => ListedIsApproved /\ TrailTellsTheStatus

\* Once a complete set of bank details is on file, the organizer cannot change
\* it after the submission.
BankStays ==
    profile.status \in {"SUBMITTED", "APPROVED"} /\ OrganizerView.payout => profile'.bank = profile.bank

\* The same of every step.
BankIsLocked == [][BankStays]_onboardingVars

=============================================================================
