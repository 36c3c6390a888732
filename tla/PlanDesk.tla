-------------------------------- MODULE PlanDesk --------------------------------
(***************************************************************************)
(* The plan wizard of one customer and the setup behind it: the occasions   *)
(* an admin adds, reorders and retires, the draft that is saved as the      *)
(* customer types, the plan it is submitted as, and the tile of Home that   *)
(* carries the badge.  A plan's occasion is whatever string the request     *)
(* names: the server does not look it up among the rows.                    *)
(***************************************************************************)
EXTENDS Integers, FiniteSets, FiniteSetsExt

CONSTANTS
    Callers,    \* requests in flight at once
    Keys,       \* strings a request can name: slugs of occasions, or not
    Occasions,  \* plan_occasions rows
    Plans,      \* plan_submissions rows
    Codes       \* plan codes

\* No slug is empty or nothing at all, 0 stands for no plan and no code, and the collection is finite.
PlanAssumption == Keys \cap {"", "unsent"} = {} /\ 0 \notin Plans \cup Codes /\ IsFiniteSet(Plans)

VARIABLES
    rows,   \* the occasions
    plans,  \* drafts and submitted plans
    desk,   \* per request: where it stands, what it asks for and what it read
    told    \* history: what the customer was told, plan and code

planVars == <<rows, plans, desk, told>>

NoRow  == [key |-> "", active |-> FALSE, order |-> 0]
NoPlan == [status |-> "none", occasion |-> "", code |-> 0]
NoDesk == [at |-> "idle", key |-> "", order |-> 0, plan |-> 0, copy |-> "", code |-> 0]

Live   == {r \in Occasions : rows[r] # NoRow}
Drafts == {p \in Plans : plans[p].status = "draft"}
Free   == {p \in Plans : plans[p] = NoPlan}

Init ==
    /\ rows = [r \in Occasions |-> NoRow]
    /\ plans = [p \in Plans |-> NoPlan]
    /\ desk = [c \in Callers |-> NoDesk]
    /\ told = {}

At(c, l)   == desk[c].at = l
Goto(c, d) == desk' = [desk EXCEPT ![c] = d]
Done(c)    == Goto(c, NoDesk)

-----------------------------------------------------------------------------
(* The setup. Nothing deletes an option, and its key is never changed.      *)

NextOrder == IF Live = {} THEN 0 ELSE 1 + Max({rows[r].order : r \in Live})

FindKey(c) ==
    /\ At(c, "idle")
    /\ \E k \in Keys : /\ \A r \in Live : rows[r].key # k
                       /\ Goto(c, [NoDesk EXCEPT !.at = "insert", !.key = k, !.order = NextOrder])
    /\ UNCHANGED <<rows, plans, told>>

\* The unique index answers the second of two with a conflict.
InsertKey(c) ==
    /\ At(c, "insert")
    /\ IF \E r \in Live : rows[r].key = desk[c].key THEN UNCHANGED rows
       ELSE \E r \in Occasions \ Live :
              rows' = [rows EXCEPT ![r] = [key |-> desk[c].key, active |-> TRUE, order |-> desk[c].order]]
    /\ Done(c)
    /\ UNCHANGED <<plans, told>>

\* update: one write of the fields sent; retired or brought back, or moved up.
UpdateRow(c) ==
    /\ At(c, "idle")
    /\ \E r \in Live : rows' \in {[rows EXCEPT ![r].active = ~@], [rows EXCEPT ![r].order = 0]}
    /\ UNCHANGED <<plans, desk, told>>

Shown == {r \in Live : rows[r].active}

-----------------------------------------------------------------------------
(* The customer's plans.                                                    *)

\* What a request says of the occasion: nothing, the empty string or any other.
Asked == {"unsent", ""} \cup Keys
Or(asked, old) == IF asked = "unsent" THEN old ELSE asked

\* saveDraft, an upsert: a draft there is changes in one step, and no rule of
\* the schema is asked.
SaveDraft(c) ==
    /\ At(c, "idle") /\ Drafts # {}
    /\ \E p \in Drafts, o \in Asked : plans' = [plans EXCEPT ![p].occasion = Or(o, @)]
    /\ UNCHANGED <<rows, desk, told>>

\* None is there: it is inserted, in a step of its own, as no index keeps two
\* upserts from both finding none.
FindNoDraft(c) ==
    /\ At(c, "idle") /\ Drafts = {}
    /\ \E o \in Asked : Goto(c, [NoDesk EXCEPT !.at = "upsert", !.key = Or(o, "")])
    /\ UNCHANGED <<rows, plans, told>>

InsertDraft(c) ==
    /\ At(c, "upsert")
    /\ \E p \in Free :
         plans' = [plans EXCEPT ![p] = [status |-> "draft", occasion |-> desk[c].key, code |-> 0]]
    /\ Done(c)
    /\ UNCHANGED <<rows, told>>

\* submit: a copy of a draft there is.
FindDraft(c) ==
    /\ At(c, "idle")
    /\ \E o \in Asked, k \in Codes, p \in IF Drafts = {} THEN {0} ELSE Drafts :
         LET copy == IF p = 0 THEN "" ELSE plans[p].occasion IN
         Goto(c, [NoDesk EXCEPT !.at = "submit", !.plan = p, !.copy = copy,
                                !.key = Or(o, copy), !.code = k])
    /\ UNCHANGED <<rows, plans, told>>

\* Faulty variant: the draft stays, the plan is written beside it, and the
\* customer is answered with the draft.
SubmitBeside(c) ==
    LET d == desk[c] IN
    /\ At(c, "submit")
    /\ \E p \in Free :
         IF d.key = "" THEN UNCHANGED <<plans, told>>
         ELSE /\ plans' = [plans EXCEPT ![p] = [status |-> "submitted", occasion |-> d.key, code |-> d.code]]
              /\ told' = told \cup {<<IF d.plan = 0 THEN p ELSE d.plan, d.code>>}
    /\ Done(c)
    /\ UNCHANGED rows

\* The schema asks the copy for an occasion.  A draft that is still there
\* becomes the plan, its occasion written only where the request changed it;
\* without one a plan is inserted.
Submit(c) ==
    LET d == desk[c] IN
    /\ At(c, "submit")
    /\ \E p \in IF d.plan = 0 THEN Free ELSE {d.plan} :
         IF d.key = "" \/ (d.plan # 0 /\ plans[p] = NoPlan) THEN UNCHANGED <<plans, told>>
         ELSE /\ plans' = [plans EXCEPT ![p] = [status |-> "submitted", code |-> d.code,
                             occasion |-> IF d.plan # 0 /\ d.key = d.copy THEN @.occasion ELSE d.key]]
              /\ told' = told \cup {<<p, d.code>>}
    /\ Done(c)
    /\ UNCHANGED rows

\* update and remove: findOne, then save or deleteOne.
FindPlan(c) ==
    /\ At(c, "idle")
    /\ \E p \in Plans \ Free, o \in Asked, at \in {"save", "delete"} :
         Goto(c, [NoDesk EXCEPT !.at = at, !.plan = p, !.copy = plans[p].occasion,
                                !.key = Or(o, plans[p].occasion)])
    /\ UNCHANGED <<rows, plans, told>>

UpdatePlan(c) ==
    LET d == desk[c] IN
    /\ At(c, "save")
    /\ plans' = IF d.key \in {"", d.copy} \/ plans[d.plan] = NoPlan THEN plans
                ELSE [plans EXCEPT ![d.plan].occasion = d.key]
    /\ Done(c)
    /\ UNCHANGED <<rows, told>>

RemovePlan(c) ==
    /\ At(c, "delete")
    /\ plans' = [plans EXCEPT ![desk[c].plan] = NoPlan]
    /\ told' = {t \in told : t[1] # desk[c].plan}
    /\ Done(c)
    /\ UNCHANGED rows

\* A call to the database fails, or the process dies.
Stop(c) ==
    /\ ~At(c, "idle")
    /\ Done(c)
    /\ UNCHANGED <<rows, plans, told>>

Next == \E c \in Callers :
    \/ FindKey(c) \/ InsertKey(c) \/ UpdateRow(c)
    \/ SaveDraft(c) \/ FindNoDraft(c) \/ InsertDraft(c) \/ FindDraft(c) \/ Submit(c)
    \/ FindPlan(c) \/ UpdatePlan(c) \/ RemovePlan(c) \/ Stop(c)

Spec == Init /\ [][Next]_planVars

-----------------------------------------------------------------------------
(* The badge on Home: every row of the collection is counted.              *)

Planned(r) == Cardinality({p \in Plans \ Free : plans[p].occasion = rows[r].key})

MostPlanned ==
    LET Top == {r \in Shown : Planned(r) > 0 /\ \A x \in Shown : Planned(x) <= Planned(r)}
    IN IF Top = {} THEN {} ELSE {CHOOSE r \in Top : TRUE}

-----------------------------------------------------------------------------
(* Properties.                                                             *)

Alone == \A c, d \in Callers : c = d

\* A customer whose calls are taken in turn, and fail anywhere, has at most one
\* live draft; every code they were told still names the plan it was told for;
\* and what was submitted names an occasion and a code, however often the draft
\* was emptied before and the plan changed after.
OneDraftOneCode ==
    /\ Cardinality(Drafts) <= 1
    /\ \A t \in told : plans[t[1]].status = "submitted" /\ plans[t[1]].code = t[2]
    /\ \A p \in Plans : plans[p].status = "submitted" => plans[p].occasion # "" /\ plans[p].code # 0

\* Whatever two admins do at once, a key names one occasion.
KeysDiffer == \A r, x \in Live : rows[r].key = rows[x].key => r = x

\* plan-config.service.ts says the badge is for "real submissions" and nobody
\* has it when there are none.
BadgeCountsSubmissions ==
    MostPlanned # {} => \E p \in Plans : plans[p].status = "submitted"

=============================================================================
