------------------------------- MODULE GuestList -------------------------------
(***************************************************************************)
(* The customer's guest list: adding, importing and renumbering guests, and *)
(* sharing the invitation with them over WhatsApp.                         *)
(*                                                                         *)
(* Every awaited database call is an action.  The collection has a unique  *)
(* index on {invitation, phone}: an insert or a save that would repeat a   *)
(* number is refused by the database, whatever the handler had found.      *)
(***************************************************************************)
EXTENDS Naturals, FiniteSets

CONSTANTS
    Callers,   \* requests in flight at once
    Ids,       \* guest rows
    Phones,    \* numbers in E.164, as parseGuestPhone leaves them
    BadPhone,  \* what parseGuestPhone refuses
    Sends      \* ids of messages handed to WhatsApp

\* Checked where the constants get their values: the word for no number is not one.
GuestAssumption == BadPhone \notin Phones /\ "none" \notin Phones

VARIABLES
    guests,  \* the invitation_guests rows
    call,    \* per caller: where it stands, the number, the row and its copy
    handed   \* history: <<row, message>> for every message handed over

guestVars == <<guests, call, handed>>

NoGuest == [phone |-> "none", shares |-> {}]
NoCall  == [at |-> "idle", does |-> "none", phone |-> "none", id |-> "none", copy |-> NoGuest,
            send |-> "none"]

Listed    == {g \in Ids : guests[g] # NoGuest}
Having(p) == {g \in Listed : guests[g].phone = p}
At(c, l)  == call[c].at = l
Goto(c, f) == call' = [call EXCEPT ![c] = f]
Finish(c) == Goto(c, NoCall)

Init ==
    /\ guests = [g \in Ids |-> NoGuest]
    /\ call = [c \in Callers |-> NoCall]
    /\ handed = {}

-----------------------------------------------------------------------------
(* findOrCreateGuest: addGuest asks it to be strict, the importer of        *)
(* contacts and share take whoever has the number already.                 *)

\* A number that cannot be read ends the call; addGuests skips the entry.
AddGuest(c, does) ==
    /\ At(c, "idle")
    /\ \E p \in Phones \cup {BadPhone} :
         IF p = BadPhone THEN UNCHANGED call
         ELSE Goto(c, [NoCall EXCEPT !.at = "find", !.does = does, !.phone = p])
    /\ UNCHANGED <<guests, handed>>

\* A guest is there already: a conflict when strict, else that guest.
Found(c, g) ==
    IF call[c].does = "share"
      THEN Goto(c, [call[c] EXCEPT !.at = "send", !.id = g, !.copy = guests[g]])
      ELSE Finish(c)

FindExisting(c) ==
    /\ At(c, "find")
    /\ IF Having(call[c].phone) = {} THEN Goto(c, [call[c] EXCEPT !.at = "create"])
       ELSE \E g \in Having(call[c].phone) : Found(c, g)
    /\ UNCHANGED <<guests, handed>>

\* The row a create leaves, and the call that goes on with it.
Insert(c, g) ==
    /\ guests' = [guests EXCEPT ![g].phone = call[c].phone]
    /\ IF call[c].does = "share"
         THEN Goto(c, [call[c] EXCEPT !.at = "send", !.id = g, !.copy = guests'[g]])
         ELSE Finish(c)

\* Faulty variant: no unique index behind the check.
CreateUnchecked(c) ==
    /\ At(c, "create")
    /\ \E g \in Ids \ Listed : Insert(c, g)
    /\ UNCHANGED handed

CreateGuest(c) ==
    /\ At(c, "create")
    /\ IF Having(call[c].phone) # {}
         THEN Goto(c, [call[c] EXCEPT !.at = "raced"]) /\ UNCHANGED guests
         ELSE \E g \in Ids \ Listed : Insert(c, g)
    /\ UNCHANGED handed

\* After the duplicate key: whoever won; no one when that guest has been
\* renumbered since, and then the error goes up.
FindRaced(c) ==
    /\ At(c, "raced")
    /\ IF Having(call[c].phone) = {} THEN Finish(c)
       ELSE \E g \in Having(call[c].phone) : Found(c, g)
    /\ UNCHANGED <<guests, handed>>

-----------------------------------------------------------------------------
(* updateGuest.                                                            *)

UpdateGuest(c) ==
    /\ At(c, "idle")
    /\ \E g \in Listed, p \in Phones :
         Goto(c, [NoCall EXCEPT !.at = IF p = guests[g].phone THEN "idle" ELSE "clash",
                                !.phone = p, !.id = g, !.copy = guests[g]])
    /\ UNCHANGED <<guests, handed>>

CheckClash(c) ==
    /\ At(c, "clash")
    /\ IF Having(call[c].phone) = {} THEN Goto(c, [call[c] EXCEPT !.at = "save"]) ELSE Finish(c)
    /\ UNCHANGED <<guests, handed>>

SaveGuest(c) ==
    /\ At(c, "save")
    /\ guests' = IF Having(call[c].phone) \subseteq {call[c].id}
                   THEN [guests EXCEPT ![call[c].id].phone = call[c].phone] ELSE guests
    /\ Finish(c)
    /\ UNCHANGED handed

-----------------------------------------------------------------------------
(* share.                                                                  *)

\* A guest of the list, named by id.
Share(c) ==
    /\ At(c, "idle")
    /\ \E g \in Listed :
         Goto(c, [NoCall EXCEPT !.at = "send", !.does = "share", !.id = g, !.copy = guests[g]])
    /\ UNCHANGED <<guests, handed>>

Unused == (Sends \ {h[2] : h \in handed}) \ {call[c].send : c \in Callers}

\* sendTo, WhatsAppProvider.send: the number of the copy; a provider that
\* fails answers FAILED, and that is recorded just the same.
SendTo(c) ==
    /\ At(c, "send")
    /\ \E s \in Unused :
         /\ handed' = handed \cup {<<call[c].id, s>>}
         /\ Goto(c, [call[c] EXCEPT !.at = "record", !.send = s])
    /\ UNCHANGED guests

\* Faulty variant: the copy's whole list of shares is written.
RecordList(c) ==
    /\ At(c, "record")
    /\ guests' = [guests EXCEPT ![call[c].id].shares = call[c].copy.shares \cup {call[c].send}]
    /\ Finish(c)
    /\ UNCHANGED handed

\* The outcome is pushed onto the list.
RecordShare(c) ==
    /\ At(c, "record")
    /\ guests' = [guests EXCEPT ![call[c].id].shares = @ \cup {call[c].send}]
    /\ Finish(c)
    /\ UNCHANGED handed

-----------------------------------------------------------------------------
Next == \E c \in Callers :
    \/ AddGuest(c, "add") \/ (Unused # {} /\ AddGuest(c, "share"))
    \/ FindExisting(c) \/ CreateGuest(c) \/ FindRaced(c)
    \/ UpdateGuest(c) \/ CheckClash(c) \/ SaveGuest(c)
    \/ (Unused # {} /\ Share(c)) \/ SendTo(c) \/ RecordShare(c)

Spec == Init /\ [][Next]_guestVars

-----------------------------------------------------------------------------
(* Properties.                                                             *)

\* However adds, imports, shares and renumberings overlap, no number is on
\* the guest list twice.
OneGuestPerNumber == \A p \in Phones : Cardinality(Having(p)) <= 1

\* Every message handed to WhatsApp is, once its call is over, on the row of
\* the guest it was meant for: shares sent at the same time keep each other.
SharesAreKept ==
    \A h \in handed :
      \/ h[2] \in guests[h[1]].shares
      \/ \E c \in Callers : At(c, "record") /\ call[c].send = h[2]

\* Both at once: one guest per number, and no share forgotten.
GuestsAreKept == OneGuestPerNumber /\ SharesAreKept

=============================================================================
