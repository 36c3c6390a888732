-------------------------------- MODULE Accounts --------------------------------
(***************************************************************************)
(* One person's account, the codes sent to their phone and the session they *)
(* hold: sign-in by code or password, refresh, logout, a role added in the  *)
(* middle of a session, suspension by an administrator, closing by the      *)
(* holder.  A session is the stored refresh hash.  Access tokens are        *)
(* stateless: whoever had one may still call, so no call asks for a session.*)
(***************************************************************************)
EXTENDS Naturals, FiniteSets

CONSTANTS
    Callers,      \* requests in flight at once
    Codes,        \* otps rows
    MaxAttempts,  \* otp.maxAttempts
    MaxActive,    \* otp.maxActive
    Business      \* the roles beside customer that are given out

\* Checked where the constants get their values.
AccountsAssumption == MaxAttempts \in Nat \ {0} /\ MaxActive \in Nat \ {0}
                      /\ Business \subseteq {"organizer", "vendor"}

Roles    == {"customer"} \cup Business
Statuses == {"active", "suspended", "deleted"}

VARIABLES
    user,    \* the account
    otp,     \* the codes
    caller,  \* per request: where it stands and what it read
    told     \* of each code: wrong guesses answered, sign-ins let through

accountVars == <<user, otp, caller, told>>

NoUser   == [exists |-> FALSE, password |-> FALSE, status |-> "active", roles |-> {"customer"},
             chosen |-> "none", session |-> FALSE]
NoCode   == [sent |-> FALSE, young |-> FALSE, expired |-> FALSE, attempts |-> 0, consumed |-> FALSE]
NoCaller == [at |-> "idle", code |-> "none", copy |-> NoCode, right |-> FALSE,
             was |-> "active", status |-> "active", barred |-> FALSE]
Untold   == [wrong |-> 0, passed |-> 0]

Init ==
    /\ user \in {NoUser, [NoUser EXCEPT !.exists = TRUE, !.session = TRUE]}
    /\ otp = [o \in Codes |-> NoCode]
    /\ caller = [c \in Callers |-> NoCaller]
    /\ told = [o \in Codes |-> Untold]

Barred == user.exists /\ user.status # "active"

At(c, l)   == caller[c].at = l
Goto(c, r) == caller' = [caller EXCEPT ![c] = r]
Step(c, l) == Goto(c, [caller[c] EXCEPT !.at = l])
Done(c)    == Goto(c, NoCaller)

\* A request starts: whether the account is barred is noted for the property.
Start(c, r) == At(c, "idle") /\ Goto(c, [r EXCEPT !.barred = Barred])

\* An account made active again clears the note of the requests under way.
Readmit(status, r) == IF status = "active" THEN [d \in Callers |-> [r[d] EXCEPT !.barred = FALSE]] ELSE r

-----------------------------------------------------------------------------
(* Codes.                                                                  *)

Unconsumed == {o \in Codes : otp[o].sent /\ ~otp[o].consumed}
Active     == {o \in Unconsumed : ~otp[o].expired}

\* assertPhoneNotThrottled: the cooldown, then the count.
SendOtp(c) ==
    /\ Start(c, [NoCaller EXCEPT !.at = "count"])
    /\ \A o \in Unconsumed : ~otp[o].young
    /\ UNCHANGED <<user, otp, told>>

\* Faulty variant: the count is not looked at.
CountNothing(c) ==
    /\ At(c, "count")
    /\ Step(c, "create")
    /\ UNCHANGED <<user, otp, told>>

CountActive(c) ==
    /\ At(c, "count")
    /\ IF Cardinality(Active) >= MaxActive THEN Done(c) ELSE Step(c, "create")
    /\ UNCHANGED <<user, otp, told>>

\* The row is written before the message goes out; a message that fails leaves it.
CreateCode(c) ==
    /\ At(c, "create")
    /\ \E o \in Codes :
         /\ ~otp[o].sent
         /\ otp' = [otp EXCEPT ![o] = [NoCode EXCEPT !.sent = TRUE, !.young = TRUE]]
         /\ told' = [told EXCEPT ![o] = Untold]
    /\ Done(c)
    /\ UNCHANGED user

\* Time: the cooldown ends, then the code expires, then Mongo deletes it.
Age(o) ==
    /\ otp[o].sent
    /\ otp' = [otp EXCEPT ![o] = IF otp[o].young THEN [@ EXCEPT !.young = FALSE]
                                 ELSE IF ~otp[o].expired THEN [@ EXCEPT !.expired = TRUE]
                                 ELSE NoCode]
    /\ UNCHANGED <<user, caller, told>>

\* Faulty variant: a code tried too often is looked at all the same.
VerifyUncounted(c) ==
    /\ \E o \in Active, right \in BOOLEAN :
         Start(c, [NoCaller EXCEPT !.at = "guess", !.code = o, !.copy = otp[o], !.right = right])
    /\ UNCHANGED <<user, otp, told>>

Verify(c) ==
    /\ \E o \in Active, right \in BOOLEAN :
         /\ otp[o].attempts < MaxAttempts
         /\ Start(c, [NoCaller EXCEPT !.at = "guess", !.code = o, !.copy = otp[o], !.right = right])
    /\ UNCHANGED <<user, otp, told>>

\* The copy is written back; a row Mongo has deleted meanwhile fails the save.
Guess(c) ==
    LET o == caller[c].code IN
    /\ At(c, "guess")
    /\ IF ~otp[o].sent THEN Done(c) /\ UNCHANGED <<otp, told>>
       ELSE IF caller[c].right
       THEN /\ otp' = [otp EXCEPT ![o].consumed = TRUE]
            /\ told' = [told EXCEPT ![o].passed = @ + 1]
            /\ Step(c, "find")
       ELSE /\ otp' = [otp EXCEPT ![o].attempts = caller[c].copy.attempts + 1]
            /\ told' = [told EXCEPT ![o].wrong = @ + 1]
            /\ Done(c)
    /\ UNCHANGED user

-----------------------------------------------------------------------------
(* Sessions.                                                               *)

\* assertActive on the copy just read, then on to issueSession.
AssertActive(c) == IF user.status = "active" THEN Step(c, "issue") ELSE Done(c)

\* Faulty variant: only a password is asked whether the account is active.
FindUnasked(c) ==
    /\ At(c, "find")
    /\ IF user.exists THEN Step(c, "issue") ELSE Step(c, "signUp")
    /\ UNCHANGED <<user, otp, told>>

FindByPhone(c) ==
    /\ At(c, "find") /\ ~user.password
    /\ IF user.exists THEN AssertActive(c) ELSE Step(c, "signUp")
    /\ UNCHANGED <<user, otp, told>>

\* findOrCreateByPhone's create and register's: the phone and the email are unique.
SignUp(c) ==
    /\ At(c, "signUp") \/ At(c, "register")
    /\ IF user.exists THEN Done(c) /\ UNCHANGED user
       ELSE /\ \E r \in (IF At(c, "register") THEN Roles ELSE {"customer"}) :
                 user' = [NoUser EXCEPT !.exists = TRUE, !.password = At(c, "register"), !.roles = {r}]
            /\ Step(c, "issue")
    /\ UNCHANGED <<otp, told>>

Register(c) ==
    /\ ~user.exists
    /\ Start(c, [NoCaller EXCEPT !.at = "register"])
    /\ UNCHANGED <<user, otp, told>>

Login(c) ==
    /\ user.exists /\ user.password /\ user.status = "active"
    /\ Start(c, [NoCaller EXCEPT !.at = "issue"])
    /\ UNCHANGED <<user, otp, told>>

\* Read first: what bcrypt answers decides between a new pair and no session.
Refresh(c) ==
    /\ user.exists /\ user.session /\ user.status = "active"
    /\ \E matches \in BOOLEAN :
         Start(c, [NoCaller EXCEPT !.at = IF matches THEN "issue" ELSE "drop"])
    /\ UNCHANGED <<user, otp, told>>

IssueSession(c) ==
    /\ At(c, "issue")
    /\ user' = [user EXCEPT !.session = TRUE]
    /\ Done(c)
    /\ UNCHANGED <<otp, told>>

\* setRefreshTokenHash(null): logout, a refused refresh, the end of a suspension's save.
DropSession(c) ==
    /\ At(c, "drop") \/ (At(c, "idle") /\ user.exists)
    /\ user' = [user EXCEPT !.session = FALSE]
    /\ Done(c)
    /\ UNCHANGED <<otp, told>>

\* A registration in the middle of a session adds the role, then asks for tokens.
AddRole(c) ==
    /\ user.exists
    /\ \E r \in Business :
         user' = [user EXCEPT !.roles = @ \cup {r}, !.chosen = r]
    /\ Start(c, [NoCaller EXCEPT !.at = "load"])
    /\ UNCHANGED <<otp, told>>

\* Faulty variant: tokens for whoever the call was made by.
IssueUnasked(c) == At(c, "load") /\ Step(c, "issue") /\ UNCHANGED <<user, otp, told>>

IssueSessionForUser(c) == At(c, "load") /\ AssertActive(c) /\ UNCHANGED <<user, otp, told>>

-----------------------------------------------------------------------------
(* The holder and the administrator.                                       *)

SetDefaultRole(c) ==
    /\ At(c, "idle") /\ user.exists
    /\ \E r \in user.roles : user' = [user EXCEPT !.chosen = r]
    /\ UNCHANGED <<otp, caller, told>>

CloseOwnAccount(c) ==
    /\ At(c, "idle") /\ user.exists /\ user.status # "deleted"
    /\ user' = [user EXCEPT !.status = "deleted", !.session = FALSE]
    /\ UNCHANGED <<otp, caller, told>>

SetStatus(c) ==
    /\ user.exists
    /\ \E s \in Statuses :
         Start(c, [NoCaller EXCEPT !.at = "save", !.was = user.status, !.status = s])
    /\ UNCHANGED <<user, otp, told>>

\* save() writes the status when it is not the one loaded; a suspension goes
\* on to the session, anything else is over.
SaveStatus(c) ==
    LET s == IF caller[c].status # caller[c].was THEN caller[c].status ELSE user.status
        rest == [caller EXCEPT ![c] = IF caller[c].status = "suspended"
                                      THEN [@ EXCEPT !.at = "drop"] ELSE NoCaller] IN
    /\ At(c, "save")
    /\ user' = [user EXCEPT !.status = s]
    /\ caller' = Readmit(s, rest)
    /\ UNCHANGED <<otp, told>>

\* The administrator's other form, which touches neither session nor choice.
AdminUpdate(c) ==
    /\ At(c, "idle") /\ user.exists
    /\ \E s \in Statuses, rs \in (SUBSET Roles) \ {{}} :
         /\ user' = [user EXCEPT !.status = s, !.roles = rs]
         /\ caller' = Readmit(s, caller)
    /\ UNCHANGED <<otp, told>>

-----------------------------------------------------------------------------
(* What the account opens on.                                              *)

\* Faulty variant: a choice on record is taken at its word.
ResolveStored ==
    IF user.chosen # "none" THEN user.chosen
    ELSE IF "organizer" \in user.roles THEN "organizer" ELSE "customer"

ResolveDefaultRole ==
    CASE user.chosen \in user.roles -> user.chosen
      [] user.chosen \notin user.roles /\ "organizer" \in user.roles -> "organizer"
      [] user.chosen \notin user.roles /\ "organizer" \notin user.roles /\ "vendor" \in user.roles -> "vendor"
      [] OTHER -> "customer"

Next ==
    \/ \E c \in Callers :
         \/ SendOtp(c) \/ CountActive(c) \/ CreateCode(c) \/ Verify(c) \/ Guess(c)
         \/ FindByPhone(c) \/ SignUp(c) \/ Register(c) \/ Login(c) \/ Refresh(c)
         \/ IssueSession(c) \/ DropSession(c) \/ AddRole(c) \/ IssueSessionForUser(c)
         \/ SetDefaultRole(c) \/ CloseOwnAccount(c) \/ SetStatus(c) \/ SaveStatus(c)
         \/ AdminUpdate(c)
    \/ \E o \in Codes : Age(o)

Spec == Init /\ [][Next]_accountVars

-----------------------------------------------------------------------------
(* Properties.                                                             *)

\* However the requests interleave: one that started while the account was
\* suspended or closed, and which no readmission overtook, never comes to
\* issue a session, by code, password, refresh or added role.
BarredGetsNoSession ==
    \A c \in Callers : caller[c].barred => ~At(c, "issue") /\ ~At(c, "signUp")

\* Whatever an administrator takes away, the account opens on a side it holds
\* (a choice once made may name a role that is gone).
OpensOnHeldRole == user.exists => ResolveDefaultRole \in user.roles \cup {"customer"}

\* One request after another: a code lets one sign-in through and takes no
\* more than MaxAttempts guesses.
CodesRunOut ==
    \A o \in Codes : told[o].passed <= 1 /\ told[o].wrong + told[o].passed <= MaxAttempts

\* One request after another: no more than MaxActive codes can be guessed at.
FewCodesLive == Cardinality(Active) <= MaxActive

\* No two requests overlap.
Alone == \A c, d \in Callers : c = d

\* Sign-in as a whole; what is counted on rows read before is counted right
\* where requests do not overlap.
SignInIsSound ==
    /\ BarredGetsNoSession
    /\ OpensOnHeldRole
    /\ Alone => CodesRunOut /\ FewCodesLive

=============================================================================
