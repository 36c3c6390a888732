------------------------------- MODULE Memories --------------------------------
(***************************************************************************)
(* Shared memories of a celebration: uploads by guests, the host and the   *)
(* organizer, quality flags, moderation, the gallery and its files.        *)
(*                                                                         *)
(* An upload and a removal are taken call by call, each of which may fail. *)
(* The calls that read one row and save it are one action each.            *)
(***************************************************************************)
EXTENDS Naturals, FiniteSets

CONSTANTS
    Uploads,          \* uploads and removals in flight at once
    Media,            \* ids of items
    Guests,
    SubEvents,
    Prints,           \* what the pictures show: equal prints are near duplicates
    InvitedTo,        \* [Guests -> SUBSET SubEvents]: guestSubEventsFor
    InitialSettings,  \* the switches as the customer may find them
    Switches,         \* the switches that are flipped
    MaxPerGuest       \* MEMORIES_MAX_PER_GUEST

\* Checked where the constants get their values.
MemoriesAssumption ==
    /\ InvitedTo \in [Guests -> SUBSET SubEvents]
    /\ InitialSettings \subseteq [{"enabled", "guestUpload", "guestView", "guestDownload",
                                   "moderation"} -> BOOLEAN]
    /\ MaxPerGuest \in Nat

VARIABLES
    settings,  \* invitation.memories
    media,     \* the invitation_media rows
    files,     \* what the store holds: <<item, part>>
    upload,    \* per upload or removal in flight
    leaving,   \* history: the rows a removal has taken files from
    passed     \* history: the items nobody had to pass, or the host passed last

memoryVars == <<settings, media, files, upload, leaving, passed>>

Originals == "original"
Parts     == {Originals, "renditions"}
NoMedia == [by |-> "none", sub |-> "", status |-> "none", moderation |-> "none",
            visibility |-> "none", quality |-> "ok", flags |-> {}, parts |-> {},
            print |-> "none", likes |-> {}]
NoUpload == [at |-> "idle", by |-> "none", sub |-> "", print |-> "none", blurry |-> FALSE,
             awaiting |-> FALSE, id |-> "none", parts |-> {}]

At(u, l)   == upload[u].at = l
Finish(u)  == upload' = [upload EXCEPT ![u] = NoUpload]
Rows       == {m \in Media : media[m] # NoMedia}
Of(g)      == {m \in Rows : media[m].by = g}
Fresh      == {m \in Media \ Rows : /\ \A p \in Parts : <<m, p>> \notin files
                                    /\ \A u \in Uploads : upload[u].id # m}
Kept       == UNCHANGED <<settings, files, upload, leaving>>

Init ==
    /\ settings \in InitialSettings
    /\ media = [m \in Media |-> NoMedia]
    /\ files = {}
    /\ upload = [u \in Uploads |-> NoUpload]
    /\ leaving = {}
    /\ passed = {}

-----------------------------------------------------------------------------
(* Who may do what: access.ts.                                             *)

CanViewGallery   == settings.enabled /\ settings.guestView
CanUpload(open)  == settings.enabled /\ settings.guestUpload /\ open
CanDownload      == settings.enabled /\ settings.guestDownload
IsPastModeration(s) == s \in {"notRequired", "approved"}

IsInGallery(m, allowed) ==
    /\ media[m].status = "published"
    /\ media[m].visibility = "gallery"
    /\ IsPastModeration(media[m].moderation)
    /\ media[m].sub \in allowed

AllowedSubEvents(g) == {""} \cup InvitedTo[g]
CanReadMedia(m, g)  == media[m].by = g \/ IsInGallery(m, AllowedSubEvents(g))
CanOverride(m, g)   == media[m].by = g

-----------------------------------------------------------------------------
(* Uploading.                                                              *)

\* subEventForUpload: the one tagged when it is allowed, else the one whose
\* hours are nearest: which, is left open.
SubEventFor(allowed) == allowed \cup {""}

Ingest(u, who, allowed) ==
    \E p \in Prints, blurry \in BOOLEAN, s \in SubEventFor(allowed) :
      /\ \A m \in Rows : media[m].print # p   \* same bytes, or a near duplicate
      /\ upload' = [upload EXCEPT ![u] = [NoUpload EXCEPT !.at = "store", !.by = who,
                      !.sub = s, !.print = p, !.blurry = blurry,
                      !.awaiting = settings.moderation]]
      /\ UNCHANGED <<settings, media, files, leaving, passed>>

InFlight == {u \in Uploads : ~At(u, "idle")}
Room     == Cardinality(InFlight) < Cardinality(Fresh)

\* upload: the switches, the window, the quota, the duplicates.
Upload(u, g) ==
    /\ At(u, "idle")
    /\ \E open \in BOOLEAN : CanUpload(open)
    /\ Cardinality(Of(g)) < MaxPerGuest
    /\ Ingest(u, g, InvitedTo[g])

\* uploadAsHost, uploadAsOrganizer: no quota, every event.
UploadAsStaff(u, who) == At(u, "idle") /\ settings.enabled /\ Ingest(u, who, SubEvents)

\* UploadService.upload and renditionsFor, whose failure leaves none.
Store(u) ==
    /\ At(u, "store")
    /\ \E m \in Fresh, parts \in {{Originals}, Parts} :
         /\ files' = files \cup {<<m, p>> : p \in parts}
         /\ upload' = [upload EXCEPT ![u].at = "insert", ![u].id = m, ![u].parts = parts]
    /\ UNCHANGED <<settings, media, leaving, passed>>

\* Faulty variant: the row names the smaller copies although there are none.
InsertWhole(u) ==
    /\ At(u, "insert")
    /\ LET t == upload[u] IN
       /\ media' = [media EXCEPT ![t.id] = [NoMedia EXCEPT !.by = t.by, !.sub = t.sub,
            !.status = IF t.awaiting THEN "pending" ELSE "published",
            !.moderation = IF t.awaiting THEN "awaiting" ELSE "notRequired",
            !.visibility = IF t.blurry THEN "uploader" ELSE "gallery",
            !.parts = Parts, !.print = t.print]]
       /\ passed' = IF t.awaiting THEN passed ELSE passed \cup {t.id}
    /\ Finish(u)
    /\ UNCHANGED <<settings, files, leaving>>

InsertMedia(u) ==
    /\ At(u, "insert")
    /\ LET t == upload[u] IN
       /\ media' = [media EXCEPT ![t.id] = [by |-> t.by, sub |-> t.sub,
            status     |-> IF t.awaiting THEN "pending" ELSE "published",
            moderation |-> IF t.awaiting THEN "awaiting" ELSE "notRequired",
            visibility |-> IF t.blurry THEN "uploader" ELSE "gallery",
            quality    |-> IF t.blurry THEN "flagged" ELSE "ok",
            flags      |-> IF t.blurry THEN {"blurry"} ELSE {},
            parts      |-> t.parts, print |-> t.print, likes |-> {}]]
       /\ passed' = IF t.awaiting THEN passed ELSE passed \cup {t.id}
    /\ Finish(u)
    /\ UNCHANGED <<settings, files, leaving>>

-----------------------------------------------------------------------------
(* One row at a time.                                                      *)

\* override: the uploader's own, while it is flagged.
Override(m, g) ==
    /\ CanOverride(m, g) /\ media[m].quality = "flagged"
    /\ media' = [media EXCEPT ![m].visibility = "gallery", ![m].flags = {},
                              ![m].quality = "ok"]
    /\ Kept /\ UNCHANGED passed

SetHidden(m, hidden) ==
    /\ media' = [media EXCEPT ![m].status = IF hidden THEN "hidden" ELSE "published"]
    /\ Kept /\ UNCHANGED passed

\* moderate: approving overrules a quality flag, refusing adds one.
Moderate(m, approve) ==
    /\ media' = [media EXCEPT ![m] =
         IF approve THEN [media[m] EXCEPT !.moderation = "approved", !.status = "published",
                                          !.visibility = "gallery"]
         ELSE [media[m] EXCEPT !.moderation = "rejected", !.status = "hidden",
                               !.flags = media[m].flags \cup {"rejected"}]]
    /\ passed' = IF approve THEN passed \cup {m} ELSE passed \ {m}
    /\ Kept

Like(m, g, on) ==
    /\ CanViewGallery /\ CanReadMedia(m, g)
    /\ media' = [media EXCEPT ![m].likes = IF on THEN @ \cup {g} ELSE @ \ {g}]
    /\ Kept /\ UNCHANGED passed

SaveSettings ==
    /\ \E s \in Switches, on \in BOOLEAN : settings' = [settings EXCEPT ![s] = on]
    /\ UNCHANGED <<media, files, upload, leaving, passed>>

-----------------------------------------------------------------------------
(* Removing, by the host.                                                  *)

LoadToRemove(u) ==
    /\ At(u, "idle")
    /\ \E m \in Rows :
         upload' = [upload EXCEPT ![u] = [NoUpload EXCEPT !.at = "files", !.id = m,
                                                          !.parts = media[m].parts]]
    /\ UNCHANGED <<settings, media, files, leaving, passed>>

\* Every copy of the file, and a failure of any is swallowed.
RemoveFiles(u) ==
    /\ At(u, "files")
    /\ LET d == upload[u] IN
       /\ \E gone \in SUBSET {<<d.id, p>> : p \in d.parts} : files' = files \ gone
       /\ leaving' = leaving \cup ({d.id} \cap Rows)
       /\ upload' = [upload EXCEPT ![u].at = "delete"]
    /\ UNCHANGED <<settings, media, passed>>

DeleteRow(u) ==
    /\ At(u, "delete")
    /\ media' = [media EXCEPT ![upload[u].id] = NoMedia]
    /\ leaving' = leaving \ {upload[u].id}
    /\ passed' = passed \ {upload[u].id}
    /\ Finish(u)
    /\ UNCHANGED <<settings, files>>

\* A call to the store or the database fails, or the process dies: what was
\* written stays.
Stop(u) ==
    /\ ~At(u, "idle")
    /\ Finish(u)
    /\ UNCHANGED <<settings, media, files, leaving, passed>>

-----------------------------------------------------------------------------
(* What is shown.                                                          *)

\* Faulty variant: the query forgets the items still waiting for the host.
FilterUnmoderated(g) ==
    {m \in Rows : /\ media[m].status = "published" /\ media[m].visibility = "gallery"
                  /\ media[m].sub \in AllowedSubEvents(g)}

\* publishedFilter, counts: the gallery as a query.
PublishedFilter(g) ==
    {m \in Rows : /\ media[m].status = "published" /\ media[m].visibility = "gallery"
                  /\ media[m].moderation \in {"notRequired", "approved"}
                  /\ media[m].sub \in AllowedSubEvents(g)}

\* gallery, item, download: the grid, one item, its file.
Gallery(g)     == IF CanViewGallery THEN PublishedFilter(g) ELSE {}
Item(g)        == IF CanViewGallery THEN {m \in Rows : CanReadMedia(m, g)} ELSE {}
Download(g)    == IF CanDownload THEN {m \in Rows : CanReadMedia(m, g)} ELSE {}

\* page, manage, awaiting: the host's and the organizer's screens.
Managed  == Rows
Awaiting == {m \in Rows : media[m].moderation = "awaiting"}

\* view: the state an uploader is told.
StateOf(m) == IF media[m].moderation = "awaiting" THEN "pending"
              ELSE IF media[m].visibility = "uploader" THEN "flagged" ELSE media[m].status

-----------------------------------------------------------------------------
Next ==
    \/ SaveSettings
    \/ \E u \in Uploads :
         \/ Room /\ \E g \in Guests : Upload(u, g)
         \/ Room /\ \E who \in {"host", "organizer"} : UploadAsStaff(u, who)
         \/ Store(u) \/ InsertMedia(u)
         \/ LoadToRemove(u) \/ RemoveFiles(u) \/ DeleteRow(u) \/ Stop(u)
    \/ \E m \in Rows :
         \/ \E b \in BOOLEAN : SetHidden(m, b) \/ Moderate(m, b)
         \/ \E g \in Guests : Override(m, g) \/ \E on \in BOOLEAN : Like(m, g, on)

Spec == Init /\ [][Next]_memoryVars

-----------------------------------------------------------------------------
(* Properties.                                                             *)

\* The gallery's query and the rule for one item say the same: what the grid
\* lists opens, what opens and is not one's own is listed, and an uploader who
\* is told "published" of an item for all can be seen by every guest.
GalleryIsReadable ==
    \A g \in Guests :
      /\ Gallery(g) \subseteq Item(g)
      /\ Item(g) \ Of(g) \subseteq Gallery(g)
      /\ \A m \in Gallery(g) : StateOf(m) = "published"
      /\ Gallery(g) \cap Awaiting = {}

\* Whatever the organizer shows again, the uploader overrides or the switches
\* say by now, a guest sees and downloads of others only what was uploaded
\* while nobody had to pass it, or what the host's last verdict passed.
OnlyWhatWasPassed ==
    \A g \in Guests : Gallery(g) \cup ((Item(g) \cup Download(g)) \ Of(g)) \subseteq passed

\* However uploads and removals overlap and wherever one stops, a row points
\* only at files the store holds, but for a row whose removal has begun.
RowsHaveFiles ==
    \A m \in Rows \ leaving : \A p \in media[m].parts : <<m, p>> \in files

\* "A record without a file is a broken tile", which removing the files first
\* is to avoid: with no removal under way, every row has its files.
NoBrokenTile ==
    \A m \in Rows :
      (\A u \in Uploads : upload[u].id # m) =>
        \A p \in media[m].parts : <<m, p>> \in files

\* What a gallery lists can be opened and was passed, and its file is there.
AlbumIsWhole == GalleryIsReadable /\ OnlyWhatWasPassed /\ RowsHaveFiles

=============================================================================
