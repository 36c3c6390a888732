------------------------------ MODULE EventGallery ------------------------------
(***************************************************************************)
(* What the attendees of a public event share and watch: the gallery, whose *)
(* uploads are let in by ticket, day and settings and may wait for the      *)
(* organizer, and the stream.  The settings are rewritten whole from the    *)
(* copy a request read, one request at a time or several at once.           *)
(***************************************************************************)
EXTENDS Integers, FiniteSets

CONSTANTS
    Callers,   \* requests in flight at once
    People,    \* attendees
    Pieces,    \* public_event_memories rows
    UploadDays, \* upload days after the event
    LastDay,   \* bound of the clock; the event is on day 1
    Times      \* instants a stream may start and end at; 0 is "not set"

VARIABLES
    event,     \* its status, memories settings and stream settings
    today,     \* the clock, in days
    ticket,    \* per person: their ticket
    memory,    \* the memories
    desk,      \* per request: where it stands and the copy it read
    verdict    \* history: what became of a piece

\* 0 says "not named" and -1 "cleared". Checked where the constants get their values.
GalleryAssumption == Times \subseteq Nat \ {0}

galleryVars == <<event, today, ticket, memory, desk, verdict>>

NoMemories == [enabled |-> FALSE, uploaders |-> "checked_in", view |-> TRUE, moderation |-> FALSE]
NoStream   == [starts |-> 0, ends |-> 0]
NoPiece    == [status |-> "none", by |-> ""]
NoDesk     == [at |-> "idle", copy |-> NoMemories, stream |-> NoStream, who |-> "", piece |-> ""]

Init ==
    /\ event = [status |-> "published", memories |-> NoMemories, stream |-> NoStream]
    /\ today = 0
    /\ ticket = [p \in People |-> "none"]
    /\ memory = [m \in Pieces |-> NoPiece]
    /\ desk = [c \in Callers |-> NoDesk]
    /\ verdict = [m \in Pieces |-> "none"]

At(c, l)   == desk[c].at = l
Goto(c, d) == desk' = [desk EXCEPT ![c] = d]

IsPublic == event.status \in {"published", "sold_out", "completed"}

-----------------------------------------------------------------------------
(* The rules, as the functions of access.ts.                                *)

HasTicket(p) == ticket[p] \in {"valid", "checked_in"}
CheckedIn(p) == ticket[p] = "checked_in"

CanUpload(m, p) ==
    /\ m.enabled
    /\ today <= 1 + UploadDays
    /\ \/ m.uploaders = "holders" /\ HasTicket(p)
       \/ m.uploaders = "checked_in" /\ CheckedIn(p)

CanView(m, p) == m.enabled /\ m.view /\ (HasTicket(p) \/ CheckedIn(p))

LiveState(now) == IF event.stream.ends # 0 /\ now > event.stream.ends THEN "ended"
                  ELSE IF event.stream.starts # 0 /\ now >= event.stream.starts THEN "live" ELSE "upcoming"

Gallery(p) ==
    IF ~IsPublic \/ ~CanView(event.memories, p) THEN {}
    ELSE {m \in Pieces : memory[m].status = "visible" \/ (memory[m].status = "pending" /\ memory[m].by = p)}

-----------------------------------------------------------------------------
(* The organizer's settings: loaded, merged with what was sent, saved.      *)

Load(c, l) == Goto(c, [NoDesk EXCEPT !.at = l, !.copy = event.memories, !.stream = event.stream])

LoadSettings(c) ==
    /\ At(c, "idle")
    /\ \E l \in IF People = {} THEN {"stream"} ELSE {"memories"} : Load(c, l)
    /\ UNCHANGED <<event, today, ticket, memory, verdict>>

SetMemories(c) ==
    /\ At(c, "memories")
    /\ LET m == desk[c].copy IN
       event' \in {[event EXCEPT !.memories = [m EXCEPT !.enabled = ~@]],
                   [event EXCEPT !.memories = [m EXCEPT !.moderation = ~@]],
                   [event EXCEPT !.memories = [m EXCEPT !.uploaders =
                                    IF @ = "holders" THEN "checked_in" ELSE "holders"]],
                   [event EXCEPT !.memories = [m EXCEPT !.view = ~@]]}
    /\ Goto(c, NoDesk)
    /\ UNCHANGED <<today, ticket, memory, verdict>>

\* Faulty variant: only two times of one request are held against each other.
ComesAfterSent(sent, stored) == sent.starts = 0 \/ sent.ends = 0 \/ sent.starts < sent.ends

\* The merged times are held against each other.
ComesAfter(sent, stored) == stored.starts = 0 \/ stored.ends = 0 \/ stored.starts < stored.ends

Or(new, old) == IF new = 0 THEN old ELSE new

\* -1 clears a time, 0 does not name it. Who may watch, and whether there is a
\* replay, is left out.
SetLiveStream(c) ==
    /\ At(c, "stream")
    /\ \E s, e \in Times \cup {-1, 0} :
         LET merge(new, old) == IF new = -1 THEN 0 ELSE Or(new, old)
             sent   == [starts |-> IF s = -1 THEN 0 ELSE s, ends |-> IF e = -1 THEN 0 ELSE e]
             stored == [starts |-> merge(s, desk[c].stream.starts), ends |-> merge(e, desk[c].stream.ends)]
         IN event' = IF ComesAfter(sent, stored) THEN [event EXCEPT !.stream = stored] ELSE event
    /\ Goto(c, NoDesk)
    /\ UNCHANGED <<today, ticket, memory, verdict>>

-----------------------------------------------------------------------------
(* The gallery. The settings of the event read first are the ones applied,  *)
(* however long the file takes.                                             *)

FindEvent(c) ==
    /\ At(c, "idle") /\ IsPublic
    /\ \E p \in People : Goto(c, [NoDesk EXCEPT !.at = "standing", !.copy = event.memories, !.who = p])
    /\ UNCHANGED <<event, today, ticket, memory, verdict>>

\* A file the storage refuses ends the request as a refusal does.
Standing(c) ==
    /\ At(c, "standing")
    /\ \/ CanUpload(desk[c].copy, desk[c].who) /\ Goto(c, [desk[c] EXCEPT !.at = "create"])
       \/ Goto(c, NoDesk)
    /\ UNCHANGED <<event, today, ticket, memory, verdict>>

Add(c, status) ==
    /\ At(c, "create")
    /\ \E m \in {x \in Pieces : memory[x] = NoPiece} :
         /\ memory' = [memory EXCEPT ![m] = [status |-> status, by |-> desk[c].who]]
         /\ verdict' = [verdict EXCEPT ![m] = IF event.memories.moderation THEN "asked" ELSE "free"]
    /\ Goto(c, NoDesk)
    /\ UNCHANGED <<event, today, ticket>>

\* Faulty variant: the schema's default status.
CreateDefault(c) == Add(c, "visible")

Create(c) == Add(c, IF desk[c].copy.moderation THEN "pending" ELSE "visible")

LoadMemory(c) ==
    /\ At(c, "idle")
    /\ \E m \in Pieces : memory[m] # NoPiece /\ Goto(c, [NoDesk EXCEPT !.at = "judge", !.piece = m])
    /\ UNCHANGED <<event, today, ticket, memory, verdict>>

Moderate(c) ==
    /\ At(c, "judge")
    /\ \E s \in {"visible", "rejected"} :
         /\ memory' = [memory EXCEPT ![desk[c].piece].status = s]
         /\ verdict' = [verdict EXCEPT ![desk[c].piece] = s]
    /\ Goto(c, NoDesk)
    /\ UNCHANGED <<event, today, ticket>>

-----------------------------------------------------------------------------
(* Around it: tickets are bought, scanned and cancelled, and days pass.     *)

TicketMoves ==
    /\ \E p \in People : \E to \in {"valid", "checked_in"} :
         /\ to = "valid" => ticket[p] = "none"
         /\ to = "checked_in" => ticket[p] = "valid"
         /\ ticket' = [ticket EXCEPT ![p] = to]
    /\ UNCHANGED <<event, today, memory, desk, verdict>>

EventMoves ==
    /\ event.status = "published"
    /\ \E s \in {"completed", "cancelled"} : event' = [event EXCEPT !.status = s]
    /\ UNCHANGED <<today, ticket, memory, desk, verdict>>

NextDay ==
    /\ today < LastDay
    /\ today' = today + 1
    /\ UNCHANGED <<event, ticket, memory, desk, verdict>>

Next ==
    \/ \E c \in Callers : \/ LoadSettings(c) \/ SetMemories(c) \/ SetLiveStream(c)
                          \/ FindEvent(c) \/ Standing(c) \/ Create(c) \/ LoadMemory(c) \/ Moderate(c)
    \/ TicketMoves \/ EventMoves \/ NextDay

Spec == Init /\ [][Next]_galleryVars

-----------------------------------------------------------------------------

\* No two requests overlap.
Alone == \A c, d \in Callers : c = d

\* With one request at a time, what others see of a gallery was added while
\* the organizer did not ask to see uploads first, or was passed by the
\* organizer; what was turned down is seen by nobody, its uploader included.
GalleryIsModerated ==
    \A p \in People : \A m \in Gallery(p) :
        /\ verdict[m] # "rejected"
        /\ verdict[m] = "asked" => memory[m].by = p

\* However many requests rewrite the settings, each from its own copy, the
\* stream they leave ends after it starts: at the start it is announced as live.
StreamIsCoherent ==
    LET stream == event.stream IN
    /\ stream.starts # 0 /\ stream.ends # 0 => stream.starts < stream.ends
    /\ stream.starts # 0 => LiveState(stream.starts) = "live"

=============================================================================
