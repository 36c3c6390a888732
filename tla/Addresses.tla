-------------------------------- MODULE Addresses --------------------------------
(***************************************************************************)
(* One customer's saved addresses and the mark on the one chosen.  Marking  *)
(* is two writes: every mark goes, then the address gets its own.           *)
(***************************************************************************)
EXTENDS Naturals, Sequences

CONSTANTS
    Callers,   \* requests in flight at once
    MaxCreated \* bound on the addresses ever saved

\* Checked where the constants get their values.
AddressesAssumption == MaxCreated \in Nat

VARIABLES
    book,    \* the rows, oldest first: is it there, is it the default
    desk,    \* per request: where it stands, the address it holds, the copy's mark, the mark asked for
    chosen,  \* history: the address the customer's finished calls chose, 0 for none
    slip     \* history: "stopped" once a request died between two writes of the mark, "again"
             \* once the chosen address was chosen again; "no" once another one is chosen

addressVars == <<book, desk, chosen, slip>>

NoDesk == [at |-> "idle", id |-> 0, copy |-> FALSE, asked |-> "unsaid"]
Absent == [there |-> FALSE, default |-> FALSE]

Init ==
    /\ book = <<>>
    /\ desk = [c \in Callers |-> NoDesk]
    /\ chosen = 0
    /\ slip = "no"

At(c, l)   == desk[c].at = l
Goto(c, d) == desk' = [desk EXCEPT ![c] = d]
Done(c)    == Goto(c, NoDesk)

Saved    == {a \in DOMAIN book : book[a].there}
Default  == {a \in Saved : book[a].default}
Newest(S) == CHOOSE a \in S : \A b \in S : b <= a

-----------------------------------------------------------------------------
(* Creating and choosing.                                                   *)

\* create: the first address is the default without being asked.
Create(c) ==
    /\ At(c, "idle") /\ Len(book) < MaxCreated
    /\ \E asked \in {"yes", "no", "unsaid"} :
         LET mark == asked = "yes" \/ (asked = "unsaid" /\ Saved = {}) IN
         Goto(c, [NoDesk EXCEPT !.at = IF mark THEN "clear" ELSE "write",
                                !.asked = IF mark THEN "yes" ELSE "no"])
    /\ UNCHANGED <<book, chosen, slip>>

\* update and setDefault: findOwned.  An update may leave the mark unsaid.
LoadOwned(c) ==
    /\ At(c, "idle")
    /\ \E a \in Saved, asked \in {"yes", "no", "unsaid"} :
         Goto(c, [at |-> IF asked = "yes" THEN "clear" ELSE "write", id |-> a,
                  copy |-> book[a].default, asked |-> asked])
    /\ UNCHANGED <<book, chosen, slip>>

\* Faulty variant: nobody else's mark is taken away.
ClearNothing(c) ==
    /\ At(c, "clear")
    /\ Goto(c, [desk[c] EXCEPT !.at = "write"])
    /\ UNCHANGED <<book, chosen, slip>>

\* Every mark goes, the one of the address that is being chosen too.
ClearDefault(c) ==
    /\ At(c, "clear")
    /\ book' = [a \in DOMAIN book |-> [book[a] EXCEPT !.default = FALSE]]
    /\ Goto(c, [desk[c] EXCEPT !.at = "write"])
    /\ UNCHANGED <<chosen, slip>>

\* create: a new row.
WriteNew(c) ==
    LET mark == desk[c].asked = "yes" IN
    /\ At(c, "write") /\ desk[c].id = 0
    /\ book' = Append(book, [there |-> TRUE, default |-> mark])
    /\ chosen' = IF mark THEN Len(book) + 1 ELSE chosen
    /\ slip' = IF mark THEN "no" ELSE slip
    /\ Done(c)

\* save(): the mark is written when it is not the one loaded.  A row that is
\* gone fails the save.
Save(c) ==
    LET d == desk[c] IN
    /\ At(c, "write") /\ d.id # 0
    /\ IF ~book[d.id].there THEN UNCHANGED <<book, chosen, slip>>
       ELSE /\ book' = CASE d.asked = "yes" /\ ~d.copy -> [book EXCEPT ![d.id].default = TRUE]
                         [] d.asked = "no" /\ d.copy   -> [book EXCEPT ![d.id].default = FALSE]
                         [] OTHER -> book
            /\ chosen' = CASE d.asked = "yes" -> d.id
                           [] d.asked = "no" /\ chosen = d.id -> 0
                           [] OTHER -> chosen
            /\ slip' = CASE d.asked = "yes" /\ d.copy  -> "again"
                         [] d.asked = "yes" /\ ~d.copy -> "no"
                         [] OTHER -> slip
    /\ Done(c)

-----------------------------------------------------------------------------
(* Removing.                                                                *)

LoadToRemove(c) ==
    /\ At(c, "idle")
    /\ \E a \in Saved :
         Goto(c, [NoDesk EXCEPT !.at = "delete", !.id = a, !.copy = book[a].default])
    /\ UNCHANGED <<book, chosen, slip>>

\* Whoever removes the address that is chosen expects the newest of the rest
\* to be chosen instead.
Left(a) == Saved \ {a}

DeleteOne(c) ==
    LET d == desk[c] IN
    /\ At(c, "delete")
    /\ book' = [book EXCEPT ![d.id] = Absent]
    /\ chosen' = IF chosen # d.id THEN chosen
                 ELSE IF Left(d.id) = {} THEN 0 ELSE Newest(Left(d.id))
    /\ IF d.copy THEN Goto(c, [d EXCEPT !.at = "find"]) ELSE Done(c)
    /\ UNCHANGED slip

\* Faulty variant: the oldest of what is left.
FindOldest(c) ==
    /\ At(c, "find")
    /\ IF Saved = {} THEN Done(c)
       ELSE LET n == CHOOSE a \in Saved : \A b \in Saved : a <= b
            IN Goto(c, [desk[c] EXCEPT !.at = "heir", !.id = n, !.copy = book[n].default])
    /\ UNCHANGED <<book, chosen, slip>>

\* The most recent of what is left.
FindHeir(c) ==
    /\ At(c, "find")
    /\ IF Saved = {} THEN Done(c)
       ELSE Goto(c, [desk[c] EXCEPT !.at = "heir", !.id = Newest(Saved),
                                    !.copy = book[Newest(Saved)].default])
    /\ UNCHANGED <<book, chosen, slip>>

\* It takes over, unless it went meanwhile or its copy has the mark already.
SaveHeir(c) ==
    LET d == desk[c] IN
    /\ At(c, "heir")
    /\ book' = IF book[d.id].there /\ ~d.copy THEN [book EXCEPT ![d.id].default = TRUE] ELSE book
    /\ Done(c)
    /\ UNCHANGED <<chosen, slip>>

-----------------------------------------------------------------------------
\* A call to the store fails, or the process dies: what was written stays.
Stop(c) ==
    LET d == desk[c] IN
    /\ ~At(c, "idle")
    /\ slip' = IF d.at \in {"find", "heir"} \/ (d.at = "write" /\ d.asked = "yes")
               THEN "stopped" ELSE slip
    /\ Done(c)
    /\ UNCHANGED <<book, chosen>>

Next == \E c \in Callers :
    \/ Create(c) \/ LoadOwned(c) \/ ClearDefault(c) \/ WriteNew(c) \/ Save(c)
    \/ LoadToRemove(c) \/ DeleteOne(c) \/ FindHeir(c) \/ SaveHeir(c) \/ Stop(c)

Spec == Init /\ [][Next]_addressVars

-----------------------------------------------------------------------------
(* Properties, for requests that do not overlap.                           *)

Alone == \A c, d \in Callers : c = d
Idle  == \A c \in Callers : At(c, "idle")

\* The marks on the rows are the one cell the customer takes them for: through
\* every order of creating, choosing, unmarking and removing, the address that
\* is marked is the one chosen last, or the newest of the rest where that one
\* was removed, and no other.  A request that stopped half way, and choosing
\* the chosen address again, leave nothing to say until another is chosen,
\* which puts it right.
OneIsChosen == Idle /\ slip = "no" => Default = IF chosen = 0 THEN {} ELSE {chosen}

\* setDefault "marks one address as the chosen one": where no request stopped
\* half way, the address chosen last is the default.
ChosenIsDefault == Idle /\ slip # "stopped" /\ chosen # 0 => chosen \in Default

=============================================================================
