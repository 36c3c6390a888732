----------------------------- MODULE AssetLifecycle -----------------------------
(***************************************************************************)
(* Uploaded files and their deletion: a flow that stopped using a file       *)
(* releases it, and it is deleted when nothing else refers to it.           *)
(*                                                                         *)
(* Every awaited step is an action: the two scans look at one collection    *)
(* after the other, between them the row is claimed, and records may point  *)
(* at a file, or stop to, at any moment.  A process may stop anywhere.      *)
(***************************************************************************)
EXTENDS Naturals, Sequences, FiniteSets

CONSTANTS
    Workers,      \* releases, retries and scripts in flight at once
    Files,        \* storage keys
    Places,       \* the sequence of collections findReference looks at, in order
    Owner,        \* the user who uploaded a file, NoOwner for a guest's
    NoOwner,
    MaxAttempts   \* MAX_DELETE_ATTEMPTS

\* Checked where the constants get their values.
AssetAssumption ==
    /\ MaxAttempts \in Nat \ {0}
    /\ Places \in Seq(STRING)
    /\ "none" \notin Files

VARIABLES
    stored,   \* the files the provider holds
    row,      \* the media_assets rows: status and deleteAttempts
    refers,   \* per collection: the file its record points at, or "none"
    worker    \* per worker: where it stands

assetVars == <<stored, row, refers, worker>>

PlaceSet == {Places[i] : i \in DOMAIN Places}
NoRow    == [status |-> "NONE", attempts |-> 0]
Rested   == [at |-> "idle", file |-> "none", retry |-> FALSE, next |-> 1, steady |-> {}]

Init ==
    /\ stored = {}
    /\ row = [f \in Files |-> NoRow]
    /\ refers = [p \in PlaceSet |-> "none"]
    /\ worker = [w \in Workers |-> Rested]

At(w, l)    == worker[w].at = l
Goto(w, t)  == worker' = [worker EXCEPT ![w] = t]
Rest(w)     == Goto(w, Rested)
Mark(f, s)  == row' = [row EXCEPT ![f].status = s]
File(w)     == worker[w].file
Uploading(f) == \E w \in Workers : At(w, "record") /\ File(w) = f

-----------------------------------------------------------------------------
(* Uploads, and the records that point at files.                           *)

\* The driver's put: a new key every time.
Upload(w) ==
    /\ At(w, "idle")
    /\ \E f \in {g \in Files \ stored : row[g] = NoRow} :
         /\ stored' = stored \cup {f}
         /\ Goto(w, [Rested EXCEPT !.at = "record", !.file = f])
    /\ UNCHANGED <<row, refers>>

\* A record that cannot be written leaves the file untracked.
Record(w) ==
    /\ At(w, "record")
    /\ Mark(File(w), "ACTIVE") \/ UNCHANGED row
    /\ Rest(w)
    /\ UNCHANGED <<stored, refers>>

\* A flow saves its record, with any file a page still shows; what the record
\* pointed at before is handed to releaseReplaced, on behalf of the user.
SaveRecord(w, p) ==
    /\ At(w, "idle")
    /\ \E f \in stored \cup {"none"} :
         /\ f # refers[p] /\ ~Uploading(f)
         /\ refers' = [refers EXCEPT ![p] = f]
         /\ worker' = [v \in Workers |->
              IF v = w THEN IF refers[p] = "none" THEN Rested
                            ELSE [Rested EXCEPT !.at = "release", !.file = refers[p]]
                       ELSE [worker[v] EXCEPT !.steady = @ \ {p}]]
    /\ UNCHANGED <<stored, row>>

-----------------------------------------------------------------------------
(* Releases.                                                               *)

\* Untracked, deleted or someone else's files are kept.
ReleaseOne(w) ==
    /\ At(w, "release")
    /\ \E user \in {Owner[f] : f \in Files} \ {NoOwner} :
         IF row[File(w)].status \in {"NONE", "DELETED"} \/ Owner[File(w)] # user THEN Rest(w)
         ELSE Goto(w, [worker[w] EXCEPT !.at = "before"])
    /\ UNCHANGED <<stored, row, refers>>

Due(f) ==
    /\ row[f].status \in {"DELETE_FAILED", "DELETING"}
    /\ row[f].attempts < MaxAttempts

\* A claim of a worker that is merely slow may pass for an abandoned one.
RetryFailed(w) ==
    /\ At(w, "idle")
    /\ \E f \in Files : Due(f) /\ Goto(w, [Rested EXCEPT !.at = "before", !.file = f, !.retry = TRUE])
    /\ UNCHANGED <<stored, row, refers>>

\* What findOrphans offers, whatever pointed at it since: a guest's upload is
\* left to a person.
Candidate(f) == row[f].status = "ACTIVE" /\ Owner[f] # NoOwner

\* The report may be old: the row is read again and the file looked for again.
DeleteOrphan(w) ==
    /\ At(w, "idle")
    /\ \E f \in Files :
         /\ Candidate(f)
         /\ Goto(w, [Rested EXCEPT !.at = "before", !.file = f])
    /\ UNCHANGED <<stored, row, refers>>

\* The script run by hand.
CleanUp(w) == RetryFailed(w) \/ DeleteOrphan(w)

\* One lookup of findReference; one that fails counts as a reference.
Looked(w, found, through) ==
    \/ /\ refers[Places[worker[w].next]] # File(w)
       /\ IF worker[w].next < Len(Places)
            THEN Goto(w, [worker[w] EXCEPT !.next = @ + 1]) /\ UNCHANGED row
            ELSE through
    \/ found

\* Kept; a retry clears the failure.
Keep(w, clear) ==
    /\ IF clear THEN Mark(File(w), "ACTIVE") ELSE UNCHANGED row
    /\ Rest(w)

LookBefore(w) ==
    /\ At(w, "before")
    /\ Looked(w, Keep(w, worker[w].retry),
              Goto(w, [worker[w] EXCEPT !.at = "claim", !.next = 1]) /\ UNCHANGED row)
    /\ UNCHANGED <<stored, refers>>

Claimable(w) == IF worker[w].retry THEN {"DELETE_FAILED", "DELETING"} ELSE {"ACTIVE", "DELETE_FAILED"}

Holders(f) == {p \in PlaceSet : refers[p] = f}

\* Faulty variant: what was looked at before the claim is not looked at again.
ClaimAndGo(w) ==
    /\ At(w, "claim")
    /\ IF row[File(w)].status \in Claimable(w)
         THEN Mark(File(w), "DELETING")
              /\ Goto(w, [worker[w] EXCEPT !.at = "destroy", !.steady = Holders(File(w))])
         ELSE Rest(w) /\ UNCHANGED row
    /\ UNCHANGED <<stored, refers>>

Claim(w) ==
    /\ At(w, "claim")
    /\ IF row[File(w)].status \in Claimable(w)
         THEN Mark(File(w), "DELETING")
              /\ Goto(w, [worker[w] EXCEPT !.at = "after", !.steady = Holders(File(w))])
         ELSE Rest(w) /\ UNCHANGED row
    /\ UNCHANGED <<stored, refers>>

LookAfter(w) ==
    /\ At(w, "after")
    /\ Looked(w, Keep(w, TRUE), Goto(w, [worker[w] EXCEPT !.at = "destroy"]) /\ UNCHANGED row)
    /\ UNCHANGED <<stored, refers>>

-----------------------------------------------------------------------------
(* The provider.                                                           *)

\* UploadService.remove, for a feature that manages its own files.
Remove(w) ==
    /\ At(w, "idle")
    /\ \E f \in Files : /\ Owner[f] = NoOwner /\ row[f].status # "NONE"
                        /\ Goto(w, [Rested EXCEPT !.at = "destroy", !.file = f])
    /\ UNCHANGED <<stored, row, refers>>

\* Deleted or not found; or it failed, whether or not the file is gone.
Destroy(w) ==
    /\ At(w, "destroy")
    /\ \/ stored' = stored \ {File(w)} /\ Goto(w, [worker[w] EXCEPT !.at = "gone"])
       \/ stored' \in {stored, stored \ {File(w)}} /\ Goto(w, [worker[w] EXCEPT !.at = "failed"])
    /\ UNCHANGED <<row, refers>>

MarkDeleted(w) ==
    /\ At(w, "gone")
    /\ Mark(File(w), "DELETED")
    /\ Rest(w)
    /\ UNCHANGED <<stored, refers>>

\* Faulty variant: a failure is taken for a deletion.
MarkFailedAsDeleted(w) ==
    /\ At(w, "failed")
    /\ Mark(File(w), "DELETED")
    /\ Rest(w)
    /\ UNCHANGED <<stored, refers>>

\* The counter is bounded: what passes MaxAttempts is one for every reader.
MarkFailed(w) ==
    /\ At(w, "failed")
    /\ row' = [row EXCEPT ![File(w)] =
                 [status |-> "DELETE_FAILED", attempts |-> IF @.attempts < MaxAttempts
                                                             THEN @.attempts + 1 ELSE MaxAttempts]]
    /\ Rest(w)
    /\ UNCHANGED <<stored, refers>>

Crash(w) ==
    /\ ~At(w, "idle")
    /\ Rest(w)
    /\ UNCHANGED <<stored, row, refers>>

-----------------------------------------------------------------------------
Next == \E w \in Workers :
    \/ Upload(w) \/ Record(w) \/ (\E p \in PlaceSet : SaveRecord(w, p)) \/ ReleaseOne(w)
    \/ CleanUp(w) \/ LookBefore(w) \/ Claim(w) \/ LookAfter(w)
    \/ Remove(w) \/ Destroy(w) \/ MarkDeleted(w) \/ MarkFailed(w) \/ Crash(w)

Spec == Init /\ [][Next]_assetVars

-----------------------------------------------------------------------------
(* Properties.                                                             *)

\* No file is handed to the provider for deletion while a record has pointed
\* at it ever since the file was claimed, however the lookups, the claim and
\* the saves of other records interleave.
InUseIsKept == \A w \in Workers : At(w, "destroy") => worker[w].steady = {}

\* A row that says deleted is never wrong: the file is gone, so a file that is
\* still stored can be found and tried again.
DeletedIsGone == \A f \in Files : row[f].status = "DELETED" => f \notin stored

\* A file something refers to is never deleted, and a deleted one is gone.
FilesAreKept == InUseIsKept /\ DeletedIsGone

=============================================================================
