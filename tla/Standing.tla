-------------------------------- MODULE Standing --------------------------------
(***************************************************************************)
(* What an organizer's standing is made of: the reviews of delivered        *)
(* bookings and the rating cached from them, the Academy's progress and the *)
(* training stage stored from it, and the tier a visit to the badges page   *)
(* promotes to, which sets the commission.  Each is read, worked out and    *)
(* written by requests that overlap.                                        *)
(***************************************************************************)
EXTENDS Integers, FiniteSets, FiniteSetsExt

CONSTANTS
    Callers,    \* requests in flight at once
    Bookings,   \* the organizer's bookings
    Stars,      \* ratings given
    Curriculum, \* the Academy's keys of each stage: Curriculum[1], [2], [3]
    Events      \* events a tier asks for, scaled down: Events.gold, Events.platinum

\* Checked where the constants get their values.
StandingAssumption ==
    /\ Stars \subseteq 1..5 /\ IsFiniteSet(Bookings)
    /\ Events.gold \in Nat /\ Events.platinum \in Nat

VARIABLES
    done,      \* the bookings completed
    reviews,   \* stars per booking reviewed, 0 without a review
    progress,  \* keys completed in the Academy
    profile,   \* the organizer's row: rating (in tenths), reviews, stage, tier, complaints
    desk       \* per request: where it stands and what it read

standingVars == <<done, reviews, progress, profile, desk>>

NoDesk == [at |-> "idle", booking |-> "none", stars |-> 0, key |-> "none", keys |-> {},
           rating |-> 0, count |-> 0, stage |-> 0, tier |-> "silver"]

Init ==
    /\ done = {} /\ progress = {}
    /\ reviews = [b \in Bookings |-> 0]
    /\ profile \in [rating : {0}, reviews : {0}, stage : {0}, tier : {"silver"}, complaints : {0, 1}]
    /\ desk = [c \in Callers |-> NoDesk]

At(c, l)   == desk[c].at = l
Goto(c, d) == desk' = [desk EXCEPT ![c] = d]
Done(c)    == Goto(c, NoDesk)

-----------------------------------------------------------------------------
(* Reviews.                                                                *)

\* The average in tenths, rounded half up; 0 when there is none.
AverageOf(B) ==
    IF B = {} THEN 0
    ELSE (20 * SumFunction([b \in B |-> reviews[b]]) + Cardinality(B)) \div (2 * Cardinality(B))

Reviewed == {b \in Bookings : reviews[b] # 0}

\* A completed booking without a review; what is copied from it does not change.
Create(c) ==
    /\ At(c, "idle")
    /\ \E b \in done \ Reviewed, s \in Stars :
         Goto(c, [NoDesk EXCEPT !.at = "insert", !.booking = b, !.stars = s])
    /\ UNCHANGED <<done, reviews, progress, profile>>

\* The unique index refuses the second of two reviews of a booking.
Insert(c) ==
    LET b == desk[c].booking IN
    /\ At(c, "insert")
    /\ IF reviews[b] # 0 THEN Done(c) /\ UNCHANGED reviews
       ELSE /\ reviews' = [reviews EXCEPT ![b] = desk[c].stars]
            /\ Goto(c, [NoDesk EXCEPT !.at = "average"])
    /\ UNCHANGED <<done, progress, profile>>

\* refreshOrganizerRating: the aggregate, then the write.
Average(c) ==
    /\ At(c, "average")
    /\ Goto(c, [NoDesk EXCEPT !.at = "cache", !.rating = AverageOf(Reviewed),
                              !.count = Cardinality(Reviewed)])
    /\ UNCHANGED <<done, reviews, progress, profile>>

\* Faulty variant: the reviews are counted up, the average recomputed.
CountUp(c) ==
    /\ At(c, "cache")
    /\ profile' = [profile EXCEPT !.rating = desk[c].rating, !.reviews = @ + 1]
    /\ Done(c)
    /\ UNCHANGED <<done, reviews, progress>>

Cache(c) ==
    /\ At(c, "cache")
    /\ profile' = [profile EXCEPT !.rating = desk[c].rating, !.reviews = desk[c].count]
    /\ Done(c)
    /\ UNCHANGED <<done, reviews, progress>>

\* The reviews screen counts the reviews themselves.
Histogram == [s \in 1..5 |-> Cardinality({b \in Reviewed : reviews[b] = s})]
Summary   == [average |-> AverageOf(Reviewed), total |-> SumFunction(Histogram)]
CanReview(b) == b \in done \ Reviewed

-----------------------------------------------------------------------------
(* The Academy.                                                            *)

\* Faulty variant: the last stage is looked at for itself.
StageLoosely(keys) ==
    IF Curriculum[3] \subseteq keys THEN 3
    ELSE IF Curriculum[2] \subseteq keys THEN 2
    ELSE IF Curriculum[1] \subseteq keys THEN 1 ELSE 0

StageOf(keys) == Cardinality({s \in 1..3 : \A t \in 1..s : Curriculum[t] \subseteq keys})

\* completeLesson, registerWorkshop, completeStage3: any key of any stage.
Learn(c) ==
    /\ At(c, "idle")
    /\ \E k \in UNION {Curriculum[s] : s \in 1..3} :
         Goto(c, [NoDesk EXCEPT !.at = "push", !.key = k, !.keys = progress])
    /\ UNCHANGED <<done, reviews, progress, profile>>

\* $push, and the stage from the copy.
Push(c) ==
    LET keys == desk[c].keys \cup {desk[c].key} IN
    /\ At(c, "push")
    /\ progress' = progress \cup {desk[c].key}
    /\ Goto(c, [NoDesk EXCEPT !.at = "sync", !.stage = StageOf(keys), !.key = desk[c].key])
    /\ UNCHANGED <<done, reviews, profile>>

\* The status page, by itself and at the end of every step taken.
GetStatus(c) ==
    /\ At(c, "idle")
    /\ Goto(c, [NoDesk EXCEPT !.at = "sync", !.stage = StageOf(progress)])
    /\ UNCHANGED <<done, reviews, progress, profile>>

\* syncTrainingStage's load, comparison and save; a step taken goes on to the page.
Sync(c) ==
    /\ At(c, "sync")
    /\ profile' = [profile EXCEPT !.stage = desk[c].stage]
    /\ IF desk[c].key = "none" THEN Done(c) ELSE Goto(c, [NoDesk EXCEPT !.at = "page"])
    /\ UNCHANGED <<done, reviews, progress>>

Page(c) ==
    /\ At(c, "page")
    /\ Goto(c, [NoDesk EXCEPT !.at = "sync", !.stage = StageOf(progress)])
    /\ UNCHANGED <<done, reviews, progress, profile>>

-----------------------------------------------------------------------------
(* The tier.                                                               *)

Order == [silver |-> 0, gold |-> 1, platinum |-> 2]
Requirements ==
    [gold     |-> [events |-> Events.gold,     rating |-> 40, stage |-> 2],
     platinum |-> [events |-> Events.platinum, rating |-> 45, stage |-> 3]]

Commission == [silver |-> 12, gold |-> 8, platinum |-> 6]

\* Faulty variant: the training a tier asks for is forgotten.
EarnedUntrained(r, events) ==
    LET meets(t) == events >= Requirements[t].events /\ r.rating >= Requirements[t].rating
    IN IF meets("platinum") THEN "platinum" ELSE IF meets("gold") THEN "gold" ELSE "silver"

\* The highest tier whose requirements are all met.
EarnedTier(r, events) ==
    LET meets(t) == /\ events >= Requirements[t].events
                    /\ r.rating >= Requirements[t].rating
                    /\ r.stage >= Requirements[t].stage
                    /\ r.complaints = 0
    IN IF meets("platinum") THEN "platinum" ELSE IF meets("gold") THEN "gold" ELSE "silver"

\* getBadgeStatus: the profile, then the count of completed bookings, then a
\* save when the tier earned is above the one loaded; never a demotion.
LoadProfile(c) ==
    /\ At(c, "idle")
    /\ Goto(c, [NoDesk EXCEPT !.at = "count", !.rating = profile.rating,
                              !.stage = profile.stage, !.tier = profile.tier])
    /\ UNCHANGED <<done, reviews, progress, profile>>

Promote(c) ==
    LET copy   == [desk[c] EXCEPT !.at = "idle"]
        earned == EarnedTier([rating |-> copy.rating, stage |-> copy.stage,
                              complaints |-> profile.complaints], Cardinality(done)) IN
    /\ At(c, "count")
    /\ profile' = IF Order[earned] > Order[copy.tier] THEN [profile EXCEPT !.tier = earned] ELSE profile
    /\ Done(c)
    /\ UNCHANGED <<done, reviews, progress>>

\* A booking is delivered.
Complete(b) ==
    /\ b \notin done
    /\ done' = done \cup {b}
    /\ UNCHANGED <<reviews, progress, profile, desk>>

Next ==
    \/ \E c \in Callers :
         \/ Create(c) \/ Insert(c) \/ Average(c) \/ Cache(c) \/ Learn(c) \/ Push(c)
         \/ GetStatus(c) \/ Sync(c) \/ Page(c) \/ LoadProfile(c) \/ Promote(c)
    \/ \E b \in Bookings : Complete(b)

Spec == Init /\ [][Next]_standingVars

-----------------------------------------------------------------------------
(* Properties, however the requests interleave.                            *)

\* A card never shows an average that no set of reviews adds up to, though a
\* slow recount may bring back an earlier one.
RatingIsReal ==
    /\ \E B \in SUBSET Reviewed : /\ profile.reviews = Cardinality(B)
                                  /\ profile.rating = AverageOf(B)
    /\ Reviewed \subseteq done

\* The reviews screen counts every review once.
SummaryAddsUp == Summary.total = Cardinality(Reviewed)

\* The lowest commission is for organizers who went through the whole
\* Academy, delivered the events and have a clean record: stale copies of the
\* profile and of the progress promote nobody early.
TierWasEarned ==
    profile.tier # "silver" =>
        /\ \A s \in 1..Requirements[profile.tier].stage : Curriculum[s] \subseteq progress
        /\ Cardinality(done) >= Requirements[profile.tier].events
        /\ profile.complaints = 0
        /\ \E B \in (SUBSET Reviewed) \ {{}} : AverageOf(B) >= Requirements[profile.tier].rating

\* What a card shows of an organizer: the rating and the tier.
StandingIsReal == RatingIsReal /\ TierWasEarned

=============================================================================
