------------------------------ MODULE PlanningBoard ------------------------------
(***************************************************************************)
(* The ideas and planning board of one booking: posts of the customer and   *)
(* of the organizer, the organizer's replies, the sign-off a reply may ask  *)
(* for, and what the organizer understood the event to be.  A handler loads *)
(* a document, decides, and saves the fields that differ from what it       *)
(* loaded.  The screens are not modelled: an approval names a post and no   *)
(* label, so what it answers is the label the handler finds.                *)
(***************************************************************************)
EXTENDS Naturals

CONSTANTS
    Callers,  \* requests in flight at once
    Ideas,    \* booking_ideas rows
    Labels,   \* what a sign-off can be asked for
    Slots     \* the vision's slots

VARIABLES
    ideas,   \* the posts
    vision,  \* the slots filled in; the row is there once somebody wrote it
    desk,    \* per request: where it stands and what it read
    agreed,  \* history, per post: the label the handler of the last approval had found
    crossed  \* history: the posts where an approval and a reply that asks for one overlapped,
             \* until a reply leaves the post asking with no approval under way

boardVars == <<ideas, vision, desk, agreed, crossed>>

NoIdea == [author |-> "none", type |-> "idea", reply |-> FALSE, approval |-> "none", label |-> "none"]
NoDesk == [at |-> "idle", idea |-> "none", copy |-> NoIdea, label |-> "none",
           fill |-> {}, clear |-> {}, was |-> {}]

Posted == {i \in Ideas : ideas[i] # NoIdea}

Init ==
    /\ ideas = [i \in Ideas |-> NoIdea]
    /\ vision = [exists |-> FALSE, filled |-> {}]
    /\ desk = [c \in Callers |-> NoDesk]
    /\ agreed = [i \in Ideas |-> "none"]
    /\ crossed = {}

At(c, l)   == desk[c].at = l
Goto(c, d) == desk' = [desk EXCEPT ![c] = d]
Done(c)    == Goto(c, NoDesk)

Approving(i) == \E c \in Callers : At(c, "approve") /\ desk[c].idea = i
Asking(i)    == \E c \in Callers : At(c, "reply") /\ desk[c].idea = i /\ desk[c].label # "none"

\* An update is the organizer's, the wish-list types are the customer's; a
\* type that is not for the author becomes the author's plain one.
TypeOf(author, type) ==
    IF author = "customer" THEN IF type = "update" THEN "idea" ELSE type
    ELSE IF type = "question" THEN "question" ELSE "update"

Post(c) ==
    /\ At(c, "idle")
    /\ \E i \in Ideas \ Posted, a \in {"customer", "organizer"},
          t \in {"idea", "question", "update"} :
         ideas' = [ideas EXCEPT ![i] = [NoIdea EXCEPT !.author = a, !.type = TypeOf(a, t)]]
    /\ UNCHANGED <<vision, desk, agreed, crossed>>

\* The customer: only a post that asks, and a second approval changes nothing.
LoadToApprove(c) ==
    /\ At(c, "idle")
    /\ \E i \in Posted :
         /\ ideas[i].approval = "pending"
         /\ Goto(c, [NoDesk EXCEPT !.at = "approve", !.idea = i, !.copy = ideas[i]])
         /\ crossed' = IF Asking(i) THEN crossed \cup {i} ELSE crossed
    /\ UNCHANGED <<ideas, vision, agreed>>

Approve(c) ==
    /\ At(c, "approve")
    /\ ideas' = [ideas EXCEPT ![desk[c].idea].approval = "approved"]
    /\ agreed' = [agreed EXCEPT ![desk[c].idea] = desk[c].copy.label]
    /\ Done(c)
    /\ UNCHANGED <<vision, crossed>>

\* The organizer: with a label the sign-off is asked for again.
LoadToReply(c) ==
    /\ At(c, "idle")
    /\ \E i \in Posted, l \in Labels \cup {"none"} :
         /\ Goto(c, [NoDesk EXCEPT !.at = "reply", !.idea = i, !.copy = ideas[i], !.label = l])
         /\ crossed' = IF l # "none" /\ Approving(i) THEN crossed \cup {i} ELSE crossed
    /\ UNCHANGED <<ideas, vision, agreed>>

\* Asked again, nothing approved and nobody approving: the two are apart again.
Uncross(d) ==
    crossed' = IF d.label # "none" /\ ideas'[d.idea].approval = "pending" /\ ~Approving(d.idea)
               THEN crossed \ {d.idea} ELSE crossed

\* Faulty variant: what was approved stays approved.
ReplyKeeps(c) ==
    LET d == desk[c] IN
    /\ At(c, "reply")
    /\ ideas' = [ideas EXCEPT ![d.idea].reply = TRUE,
                   ![d.idea].label = IF d.label = "none" THEN @ ELSE d.label,
                   ![d.idea].approval = IF d.label # "none" /\ @ = "none" THEN "pending" ELSE @]
    /\ Uncross(d) /\ Done(c)
    /\ UNCHANGED <<vision, agreed>>

\* save() writes the fields that differ from the copy.
Reply(c) ==
    LET d == desk[c] IN
    /\ At(c, "reply")
    /\ ideas' = [ideas EXCEPT ![d.idea].reply = TRUE,
                   ![d.idea].label = IF d.label \in {"none", d.copy.label} THEN @ ELSE d.label,
                   ![d.idea].approval = IF d.label = "none" \/ d.copy.approval = "pending"
                                        THEN @ ELSE "pending"]
    /\ Uncross(d) /\ Done(c)
    /\ UNCHANGED <<vision, agreed>>

\* updateVision: found or created (unique per booking: the second of two
\* creations fails), then slots are given a text or cleared.
VisionFor(c) ==
    /\ At(c, "idle")
    /\ \E F, E \in SUBSET Slots :
         /\ F \cap E = {}
         /\ Goto(c, [NoDesk EXCEPT !.at = IF vision.exists THEN "vision" ELSE "create",
                                   !.fill = F, !.clear = E, !.was = vision.filled])
    /\ UNCHANGED <<ideas, vision, agreed, crossed>>

CreateVision(c) ==
    /\ At(c, "create")
    /\ IF vision.exists THEN Done(c) /\ UNCHANGED vision
       ELSE /\ vision' = [vision EXCEPT !.exists = TRUE]
            /\ Goto(c, [desk[c] EXCEPT !.at = "vision"])
    /\ UNCHANGED <<ideas, agreed, crossed>>

\* A slot that had this very text, or none, when it was loaded is not written.
UpdateVision(c) ==
    LET d == desk[c] IN
    /\ At(c, "vision")
    /\ \E same \in SUBSET (d.fill \cap d.was) :
         vision' = [vision EXCEPT !.filled = (@ \cup (d.fill \ same)) \ (d.clear \cap d.was)]
    /\ Done(c)
    /\ UNCHANGED <<ideas, agreed, crossed>>

\* A call to the database fails, or the process dies.
Stop(c) ==
    /\ ~At(c, "idle")
    /\ Done(c)
    /\ UNCHANGED <<ideas, vision, agreed, crossed>>

-----------------------------------------------------------------------------
Next == \E c \in Callers :
    \/ Post(c) \/ LoadToApprove(c) \/ Approve(c) \/ LoadToReply(c) \/ Reply(c)
    \/ VisionFor(c) \/ CreateVision(c) \/ UpdateVision(c) \/ Stop(c)

Spec == Init /\ [][Next]_boardVars

-----------------------------------------------------------------------------
(* Properties.                                                             *)

\* An approval stands for the label it found: a post that was approved and is
\* then asked about again is not approved until somebody approves it again,
\* however replies overlap with one another.  Where an approval overlaps with
\* a reply that asks, nothing is said until the post asks anew.
ApprovalIsForTheLabel ==
    \A i \in Posted \ crossed : ideas[i].approval = "approved" => ideas[i].label = agreed[i]

\* A reply that asks "deliberately resets an already-approved item back to
\* pending": so what is approved is what the approval found, whoever overlaps.
AskingResets ==
    \A i \in Posted : ideas[i].approval = "approved" => ideas[i].label = agreed[i]

=============================================================================
