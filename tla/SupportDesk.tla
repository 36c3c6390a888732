------------------------------- MODULE SupportDesk -------------------------------
(***************************************************************************)
(* The contact form and the support queue: a message is filed by a guest or *)
(* an account, worked through by admins, answered, and the answer noticed   *)
(* in the app and mailed.  A save writes only the fields its copy changed.  *)
(***************************************************************************)
CONSTANTS
    Admins,      \* admin requests in flight at once
    Contacts,    \* contact_requests rows
    Replies      \* answers an admin may write

VARIABLES
    row,      \* the contact requests
    desk,     \* per admin request: where it stands and the copy it read
    inbox,    \* notices an account received per message, newest last kept
    mailed,   \* history: did the reply saved last leave the building
    last      \* history: the reply saved last, per message

deskVars == <<row, desk, inbox, mailed, last>>

Statuses == {"new", "in_progress", "responded", "closed"}
NoRow  == [status |-> "none", account |-> FALSE, response |-> "", by |-> "", emailed |-> FALSE]
NoDesk == [at |-> "idle", id |-> "", copy |-> NoRow, reply |-> "", sent |-> FALSE]

Init ==
    /\ row = [m \in Contacts |-> NoRow]
    /\ desk = [a \in Admins |-> NoDesk]
    /\ inbox = [m \in Contacts |-> ""]
    /\ mailed = [m \in Contacts |-> FALSE]
    /\ last = [m \in Contacts |-> ""]

Filed == {m \in Contacts : row[m].status # "none"}
At(a, l)   == desk[a].at = l
Goto(a, d) == desk' = [desk EXCEPT ![a] = d]

\* A notice that cannot be written never fails the request.
Notice(m, text) == inbox' \in {inbox, IF row[m].account THEN [inbox EXCEPT ![m] = text] ELSE inbox}

Create ==
    /\ \E m \in Contacts \ Filed, account \in BOOLEAN :
         /\ row' = [row EXCEPT ![m] = [NoRow EXCEPT !.status = "new", !.account = account]]
         /\ inbox' \in {inbox, IF account THEN [inbox EXCEPT ![m] = "received"] ELSE inbox}
    /\ UNCHANGED <<desk, mailed, last>>

Load(a) ==
    /\ At(a, "idle")
    /\ \E m \in Filed : \E r \in Replies \cup {""} :
         Goto(a, [NoDesk EXCEPT !.at = IF r = "" THEN "status" ELSE "reply",
                   !.id = m, !.copy = row[m], !.reply = r])
    /\ UNCHANGED <<row, inbox, mailed, last>>

\* The admin sets any status by hand; nothing is written if the copy had it.
UpdateStatus(a) ==
    /\ At(a, "status")
    /\ \E s \in Statuses : row' = IF s = desk[a].copy.status THEN row
                                  ELSE [row EXCEPT ![desk[a].id].status = s]
    /\ Goto(a, NoDesk)
    /\ UNCHANGED <<inbox, mailed, last>>

\* respond, first save: the answer, whatever becomes of its delivery.
SaveReply(a) ==
    LET d == desk[a]  r == row[d.id] IN
    /\ At(a, "reply")
    /\ row' = [row EXCEPT ![d.id] = [r EXCEPT
                 !.response = IF d.reply = d.copy.response THEN r.response ELSE d.reply,
                 !.by = IF a = d.copy.by THEN r.by ELSE a,
                 !.status = IF d.copy.status = "responded" THEN r.status ELSE "responded"]]
    /\ last' = [last EXCEPT ![d.id] = d.reply]
    /\ Goto(a, [d EXCEPT !.at = "notify"])
    /\ mailed' = [mailed EXCEPT ![d.id] = FALSE]
    /\ UNCHANGED inbox

Notify(a) ==
    /\ At(a, "notify")
    /\ Notice(desk[a].id, desk[a].reply)
    /\ Goto(a, [desk[a] EXCEPT !.at = "mail"])
    /\ UNCHANGED <<row, mailed, last>>

\* The mail provider says whether the reply left the building.
Mail(a) ==
    LET d == desk[a] IN
    /\ At(a, "mail")
    /\ \E sent \in BOOLEAN :
         /\ mailed' = [mailed EXCEPT ![d.id] = sent]
         /\ Goto(a, [d EXCEPT !.at = "flag", !.sent = sent])
    /\ UNCHANGED <<row, inbox, last>>

\* Faulty variant: the flag is only ever raised.
FlagRaised(a) ==
    LET d == desk[a] IN
    /\ At(a, "flag")
    /\ row' = IF d.sent THEN [row EXCEPT ![d.id].emailed = TRUE] ELSE row
    /\ Goto(a, NoDesk)
    /\ UNCHANGED <<inbox, mailed, last>>

\* respond, second save, only when the copy's flag says otherwise.
Flag(a) ==
    LET d == desk[a] IN
    /\ At(a, "flag")
    /\ row' = IF d.sent = d.copy.emailed THEN row ELSE [row EXCEPT ![d.id].emailed = d.sent]
    /\ Goto(a, NoDesk)
    /\ UNCHANGED <<inbox, mailed, last>>

Next ==
    \/ Create
    \/ \E a \in Admins : Load(a) \/ UpdateStatus(a) \/ SaveReply(a) \/ Notify(a) \/ Mail(a) \/ Flag(a)

Spec == Init /\ [][Next]_deskVars

-----------------------------------------------------------------------------

\* Once the answering is over, "responseEmailed" is about the answer that is
\* kept: an earlier answer that was mailed does not vouch for a later one that
\* was not, and the answer kept is the one given last.
FlagTellsOfTheAnswer ==
    \A m \in Filed : (\A a \in Admins : desk[a].id # m) =>
        /\ row[m].emailed = mailed[m]
        /\ row[m].response = last[m]

=============================================================================
