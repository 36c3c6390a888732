------------------------------- MODULE EventTasks -------------------------------
(***************************************************************************)
(* The tasks of one booking: the organizer adds, assigns, changes and       *)
(* removes them, the sub-vendor assigned accepts or declines and reports    *)
(* the work.  Every handler loads the booking and saves what it changed: a  *)
(* change of a task is written at its position and refused when the array   *)
(* moved since (Mongoose's __v), a removal writes the whole array.          *)
(***************************************************************************)
EXTENDS Naturals, Sequences, SequencesExt, FiniteSets

CONSTANTS
    Callers,  \* requests in flight at once
    Vendors,  \* sub-vendor profiles, all linked to the organizer at first
    MaxTasks  \* bound on the tasks ever added

\* Checked where the constants get their values.
TaskAssumption == MaxTasks \in Nat

VARIABLES
    tasks,    \* the array, in its stored order
    added,    \* tasks ever added: the next id
    linked,   \* the vendors with an ACTIVE link
    desk,     \* per request: where it stands and what it loaded
    agreed    \* per task id: the vendor who accepted it last

taskVars == <<tasks, added, linked, desk, agreed>>

Nobody == "nobody"
NoTask == [id |-> 0, vendor |-> Nobody, assignment |-> "unassigned", status |-> "todo"]
NoDesk == [at |-> "idle", who |-> Nobody, index |-> 0, task |-> 0, change |-> <<>>,
           rest |-> <<>>]

Init ==
    /\ tasks = <<>>
    /\ added = 0
    /\ linked = Vendors
    /\ desk = [c \in Callers |-> NoDesk]
    /\ agreed = [i \in 1..MaxTasks |-> Nobody]

At(c, l)   == desk[c].at = l
Goto(c, d) == desk' = [desk EXCEPT ![c] = d]
Done(c)    == Goto(c, NoDesk)

\* What save() will write of the task at i: the fields of w that differ from
\* the copy the handler loaded. Nothing differs, nothing is written.
Change(c, who, i, w) ==
    LET F == {f \in DOMAIN w : w[f] # tasks[i][f]} IN
    Goto(c, IF F = {} THEN NoDesk
            ELSE [NoDesk EXCEPT !.at = "save", !.who = who, !.index = i, !.task = tasks[i].id,
                                !.change = [f \in F |-> w[f]]])

\* The array moves and __v with it: what the others loaded is refused when
\* they save, whatever they decided.
\* Faulty variant: positions are never checked (versionKey off).
MovedUnseen(c) == Done(c)

Moved(c) ==
    desk' = [x \in Callers |-> IF x = c \/ At(x, "idle") THEN NoDesk
                               ELSE [NoDesk EXCEPT !.at = "conflict"]]

Conflict(c) == At(c, "conflict") /\ Done(c) /\ UNCHANGED <<tasks, added, linked, agreed>>

AssertLinked(v) == v \in {Nobody} \cup linked

\* addTask: a push counts the version up and asks for none.
AddTask(c) ==
    /\ At(c, "idle")
    /\ added < MaxTasks
    /\ \E v \in {Nobody} \cup Vendors :
         /\ AssertLinked(v)
         /\ tasks' = Append(tasks, [NoTask EXCEPT !.id = added + 1, !.vendor = v,
                              !.assignment = IF v = Nobody THEN "unassigned" ELSE "pending"])
    /\ added' = added + 1
    /\ Moved(c)
    /\ UNCHANGED <<linked, agreed>>

\* Faulty variant: a new assignee inherits the answer of the last one.
AssignQuietly(v) == [vendor |-> v]

\* Whoever a task is given to is asked anew.
Assign(v) == [vendor |-> v, assignment |-> IF v = Nobody THEN "unassigned" ELSE "pending"]

LoadToUpdate(c) ==
    /\ At(c, "idle")
    /\ \E i \in DOMAIN tasks :
         \/ \E v \in {Nobody} \cup Vendors : AssertLinked(v) /\ Change(c, "organizer", i, Assign(v))
         \/ \E s \in {"todo", "done"} : Change(c, "organizer", i, [status |-> s])
    /\ UNCHANGED <<tasks, added, linked, agreed>>

\* The sub-vendor's own task; only an accepted one can be worked on.
OwnTasks(v) == {i \in DOMAIN tasks : tasks[i].vendor = v}

LoadToRespond(c) ==
    /\ At(c, "idle")
    /\ \E v \in Vendors : \E i \in OwnTasks(v), a \in {"accepted", "declined"} :
         Change(c, v, i, [assignment |-> a])
    /\ UNCHANGED <<tasks, added, linked, agreed>>

LoadToWork(c) ==
    /\ At(c, "idle")
    /\ \E v \in Vendors : \E i \in OwnTasks(v) :
         tasks[i].assignment = "accepted" /\ Change(c, v, i, [status |-> "done"])
    /\ UNCHANGED <<tasks, added, linked, agreed>>

Save(c) ==
    LET d == desk[c] IN
    /\ At(c, "save")
    /\ tasks' = [tasks EXCEPT ![d.index] =
                   [f \in DOMAIN @ |-> IF f \in DOMAIN d.change THEN d.change[f] ELSE @[f]]]
    /\ agreed' = IF [assignment |-> "accepted"] = d.change
                 THEN [agreed EXCEPT ![d.task] = d.who] ELSE agreed
    /\ Done(c)
    /\ UNCHANGED <<added, linked>>

LoadToRemove(c) ==
    /\ At(c, "idle")
    /\ \E i \in DOMAIN tasks : 
         Goto(c, [NoDesk EXCEPT !.at = "remove", !.task = tasks[i].id, !.rest = RemoveAt(tasks, i)])
    /\ UNCHANGED <<tasks, added, linked, agreed>>

RemoveTask(c) ==
    LET d == desk[c] IN
    /\ At(c, "remove")
    /\ tasks' = d.rest
    /\ agreed' = [agreed EXCEPT ![d.task] = Nobody]
    /\ Moved(c)
    /\ UNCHANGED <<added, linked>>

\* SubVendors: the organizer drops the sub-vendor.
Unlink(v) == v \in linked /\ linked' = linked \ {v}
             /\ UNCHANGED <<tasks, added, desk, agreed>>

Next ==
    \/ \E c \in Callers :
         \/ AddTask(c) \/ LoadToUpdate(c) \/ LoadToRespond(c) \/ LoadToWork(c) \/ Save(c)
         \/ LoadToRemove(c) \/ RemoveTask(c) \/ Conflict(c)
    \/ \E v \in Vendors : Unlink(v)

Spec == Init /\ [][Next]_taskVars

-----------------------------------------------------------------------------
(* The screens.                                                            *)

Accepted(v) == {i \in OwnTasks(v) : tasks[i].assignment = "accepted"}

\* getSubVendorPerformance: a payment per accepted task, paid with the booking
\* completed.
PaymentOf(i, completed) ==
    IF tasks[i].status # "done" THEN "pending" ELSE IF completed THEN "paid" ELSE "processing"

Performance(v, completed) ==
    [accepted |-> Accepted(v),
     done |-> {i \in Accepted(v) : tasks[i].status = "done"},
     pendingPayout |-> {i \in Accepted(v) : PaymentOf(i, completed) # "paid"}]

\* Faulty variant: work never accepted counts.
TeamStatsOfAll(v) == [accepted |-> Cardinality(OwnTasks(v)),
    done |-> Cardinality({i \in OwnTasks(v) : tasks[i].status = "done"})]

\* getSubVendorsForOrganizer, for the vendors still linked.
TeamStats(v) == [accepted |-> Cardinality(Accepted(v)),
    done |-> Cardinality({i \in Accepted(v) : tasks[i].status = "done"})]

-----------------------------------------------------------------------------

\* A sub-vendor is held to, measured by and paid for a task only when it
\* accepted that task itself: whoever it is given to answers anew. (Requests
\* that do not overlap: an answer read before a reassignment lands on it.)
AcceptedByTheAssignee ==
    \A i \in DOMAIN tasks : tasks[i].assignment = "accepted" => agreed[tasks[i].id] = tasks[i].vendor

\* The organizer's team list and the vendor's own performance page count the
\* same events, and what is not yet paid out is never finished business.
TeamAndVendorAgree ==
    \A v \in linked, completed \in BOOLEAN :
        LET p == Performance(v, completed) IN
        /\ TeamStats(v) = [accepted |-> Cardinality(p.accepted), done |-> Cardinality(p.done)]
        /\ p.accepted \ p.pendingPayout = IF completed THEN p.done ELSE {}

\* No two requests overlap.
Alone == \A c, d \in Callers : c = d

\* Both of the above: who accepted, and what that counts for.
TeamIsHonest == (Alone => AcceptedByTheAssignee) /\ TeamAndVendorAgree

\* Whatever is removed or added meanwhile, a change decided on one task is
\* written to that task or to none.
HitsItsTask ==
    \A c \in Callers : At(c, "save") /\ At(c, "idle")' =>
        /\ Len(tasks') = Len(tasks)
        /\ \A j \in DOMAIN tasks : tasks[j].id # desk[c].task => tasks'[j] = tasks[j]

\* The same of every step.
UpdateHitsItsTask == [][HitsItsTask]_taskVars

=============================================================================
