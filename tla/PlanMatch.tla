-------------------------------- MODULE PlanMatch --------------------------------
(***************************************************************************)
(* The organizers a plan is shown: every active one estimated and scored    *)
(* against what the customer asked for, filtered, sorted, and Evently's own *)
(* concierge behind them.  Texts are matched beforehand: a profile lists    *)
(* the categories its rates or tags cover and the places it serves.         *)
(* Factors are in whole hundredths, a score is a rounded percentage, and    *)
(* ratings are in tenths.                                                   *)
(***************************************************************************)
EXTENDS Integers, Sequences, FiniteSets, Functions

CONSTANTS
    Directory,   \* profile of every organizer
    Contexts,    \* plan contexts; 0, {} and "" stand for what was not given
    PerGuest,    \* categories priced per guest without a rate
    DefaultFlat  \* price of the others

VARIABLES
    active,  \* the organizers listed
    busy,    \* organizer and day taken
    asked,   \* the plan asked about
    answer   \* the organizers recommended, first to last

matchVars == <<active, busy, asked, answer>>

Enlisted == DOMAIN Directory

Profiles ==
    [o \in Enlisted |-> LET p == Directory[o] IN
        {p.capacityMin, p.capacityMax, p.basePrice, p.pricePerGuest, p.rating, p.events, p.responseRate,
         p.responseHours, p.found} \cup {p.rates[k].price : k \in DOMAIN p.rates}]

\* organizer-profile.schema.ts: no number of a profile is negative, nor is a rate that
\* seed.ts, their only writer, gives; an organizer is found at a place of its own in the
\* list; a plan names finitely many categories.
MatchAssumption ==
    /\ IsFiniteSet(Enlisted)
    /\ \A o \in Enlisted : Profiles[o] \subseteq Nat
    /\ \A o, p \in Enlisted : Directory[o].found = Directory[p].found => o = p
    /\ \A k \in DOMAIN DefaultFlat : DefaultFlat[k] \in Nat
    /\ \A ctx \in Contexts : IsFiniteSet(ctx.categories) /\ {ctx.guests, ctx.budget} \subseteq Nat

NotAsked   == [categories |-> {}, guests |-> 0]

-----------------------------------------------------------------------------
(* Scoring.                                                                 *)

Weights == [category |-> 28, budget |-> 14, capacity |-> 12, location |-> 10, occasion |-> 9,
            availability |-> 8, rating |-> 8, events |-> 5, response |-> 4, badge |-> 2]
TierBonus == [Platinum |-> 100, Gold |-> 60, Silver |-> 30, Bronze |-> 15]

Covered(o, ctx) == {k \in ctx.categories : k \in DOMAIN Directory[o].rates \/ k \in Directory[o].tags}

Heads(o, ctx) == IF ctx.guests > 0 THEN ctx.guests
                 ELSE IF Directory[o].capacityMin > 0 THEN Directory[o].capacityMin ELSE 100

PriceOf(o, k, heads) ==
    LET p == Directory[o] IN
    IF k \in DOMAIN p.rates THEN p.rates[k].price * (IF p.rates[k].perGuest THEN heads ELSE 1)
    ELSE IF k \in PerGuest THEN p.pricePerGuest * heads
    ELSE IF k \in DOMAIN DefaultFlat THEN DefaultFlat[k] ELSE 0

\* The base package, and a plate per guest while nothing is chosen.
Total(o, ctx) ==
    LET p == Directory[o]  heads == Heads(o, ctx)  C == Covered(o, ctx) IN
    p.basePrice + IF C = {} THEN p.pricePerGuest * heads
                  ELSE SumFunction([k \in C |-> PriceOf(o, k, heads)])

Estimate(o, ctx) == [min |-> (Total(o, ctx) * 9 + 5) \div 10, max |-> (Total(o, ctx) * 11 + 5) \div 10]

Available(o, ctx) == ctx.day = 0 \/ <<o, ctx.day>> \notin busy

LocationScore(o, ctx) ==
    LET p == Directory[o] IN
    IF ctx.area # "" /\ ctx.area \in p.places THEN 100
    ELSE IF ctx.city # "" /\ ctx.city \in p.places THEN 60
    ELSE IF ctx.area = "" /\ ctx.city = "" THEN 50 ELSE 20

Clamp(n) == IF n > 100 THEN 100 ELSE n

Factors(o, ctx) ==
    LET p == Directory[o]  est == Estimate(o, ctx) IN
    [category |-> IF ctx.categories = {} THEN 100
                  ELSE (100 * Cardinality(Covered(o, ctx))) \div Cardinality(ctx.categories),
     budget |-> IF ctx.budget = 0 THEN 70 ELSE IF est.max <= ctx.budget THEN 100
                ELSE IF 4 * est.min > 5 * ctx.budget THEN 25 ELSE 60,
     capacity |-> IF ctx.guests = 0 THEN 80 ELSE IF ctx.guests > p.capacityMax THEN 20
                  ELSE IF ctx.guests < p.capacityMin THEN 70 ELSE 100,
     location |-> LocationScore(o, ctx),
     occasion |-> IF ctx.occasion = "" THEN 60 ELSE IF ctx.occasion \in p.occasions THEN 100 ELSE 40,
     availability |-> IF Available(o, ctx) THEN 100 ELSE 0,
     rating |-> Clamp(2 * p.rating),
     events |-> Clamp(p.events \div 3),
     response |-> Clamp(p.responseRate),
     badge |-> IF p.tier \in DOMAIN TierBonus THEN TierBonus[p.tier] ELSE 20]

Weighted(f) ==
    Weights.category * f.category + Weights.budget * f.budget + Weights.capacity * f.capacity
    + Weights.location * f.location + Weights.occasion * f.occasion + Weights.availability * f.availability
    + Weights.rating * f.rating + Weights.events * f.events + Weights.response * f.response
    + Weights.badge * f.badge

\* What is sorted by, and shown, is the rounded score.
Percentage(f) == (Weighted(f) + 50) \div 100

\* Faulty variant: the events held are counted without a ceiling.
ScoreUnclamped(o, ctx) == Percentage([Factors(o, ctx) EXCEPT !.events = Directory[o].events])

Score(o, ctx) == Percentage(Factors(o, ctx))

-----------------------------------------------------------------------------
(* Filtering, sorting, and the fallback.                                    *)

Concierge == {o \in active : Directory[o].concierge}

Matches(ctx) ==
    {o \in active :
        /\ ~Directory[o].concierge
        /\ Directory[o].rating >= ctx.minRating
        /\ ctx.tiers = {} \/ Directory[o].tier \in ctx.tiers
        /\ ctx.maxPrice > 0 => Estimate(o, ctx).min <= ctx.maxPrice
        /\ ctx.availableOnly => Available(o, ctx)
        /\ ctx.venue # "" => ctx.venue \in Directory[o].venues
        /\ ctx.requireCategories \subseteq Covered(o, [ctx EXCEPT !.categories = ctx.requireCategories])}

Rank(o, ctx) ==
    CASE ctx.sort = "rating"   -> <<Directory[o].rating, 0>>
      [] ctx.sort = "price"    -> <<-Estimate(o, ctx).min, 0>>
      [] ctx.sort = "events"   -> <<Directory[o].events, 0>>
      [] ctx.sort = "response" -> <<-Directory[o].responseHours, 0>>
      [] ctx.sort = "nearest"  -> <<LocationScore(o, ctx), Score(o, ctx)>>
      [] OTHER                 -> <<Score(o, ctx), 0>>

Found(a, b) == Directory[a].found < Directory[b].found

\* Equals keep the order they were found in, best rated first.
Before(a, b, ctx) ==
    LET x == Rank(a, ctx)  y == Rank(b, ctx) IN
    \/ x[1] > y[1]
    \/ x[1] = y[1] /\ x[2] > y[2]
    \/ x[1] = y[1] /\ x[2] = y[2] /\ Found(a, b)

Sorted(S, ctx) ==
    CHOOSE s \in Bijection(1..Cardinality(S), S) : \A i, j \in DOMAIN s : i < j => Before(s[i], s[j], ctx)

AsFound(S) ==
    CHOOSE s \in Bijection(1..Cardinality(S), S) : \A i, j \in DOMAIN s : i < j => Found(s[i], s[j])

\* Faulty variant: the fallback is sorted like everybody else.
RecommendSorted(ctx) == Sorted(Matches(ctx) \cup Concierge, ctx)

Recommend(ctx) == Sorted(Matches(ctx), ctx) \o AsFound(Concierge)

\* What is said for an organizer that bears on money and coverage.
Reasons(o, ctx) ==
    {r \in {"coversAll", "fitsBudget", "available", "serves"} :
        CASE r = "coversAll"  -> /\ ctx.categories # {} /\ ~Directory[o].concierge
                                 /\ Covered(o, ctx) = ctx.categories
          [] r = "fitsBudget" -> ctx.budget > 0 /\ Estimate(o, ctx).max <= ctx.budget
          [] r = "available"  -> ctx.day > 0 /\ Available(o, ctx)
          [] r = "serves"     -> LocationScore(o, ctx) >= 60}

-----------------------------------------------------------------------------

Init == active = Enlisted /\ busy = {} /\ asked = NotAsked /\ answer = <<>>

Ask == /\ asked = NotAsked
       /\ \E ctx \in Contexts : asked' = ctx /\ answer' = Recommend(ctx)
       /\ UNCHANGED <<active, busy>>

\* Between two questions the directory and its calendars change.
Block(o, d)  == asked = NotAsked /\ busy' = busy \cup {<<o, d>>} /\ UNCHANGED <<active, asked, answer>>
Deactivate(o) == asked = NotAsked /\ active' = active \ {o} /\ UNCHANGED <<busy, asked, answer>>

Next == \/ Ask
        \/ \E o \in Enlisted, d \in {ctx.day : ctx \in Contexts} \ {0} : Block(o, d)
        \/ \E o \in Enlisted : Deactivate(o)

Spec == Init /\ [][Next]_matchVars

-----------------------------------------------------------------------------

\* Whatever is asked and filtered away, the concierge is there and comes after
\* every real match: with one listed the screen is never empty.
FallbackClosesTheList ==
    asked # NotAsked =>
        /\ Concierge \subseteq Range(answer)
        /\ \A i, j \in DOMAIN answer :
             i < j /\ Directory[answer[i]].concierge => Directory[answer[j]].concierge

\* A score reads as a percentage; in the best-match order whoever equals or beats an
\* earlier one on every single factor has the same rounded score and was found later;
\* and a card claims nothing its score was not given for.
MeritDecides ==
    asked # NotAsked =>
        /\ \A o \in active :
             LET f == Factors(o, asked)  r == Reasons(o, asked) IN
             /\ Score(o, asked) \in 0..100
             /\ "coversAll" \in r => f.category = 100
             /\ "fitsBudget" \in r => f.budget = 100
             /\ "available" \in r => f.availability = 100
        /\ \A i, j \in DOMAIN answer :
             LET a == answer[i]  b == answer[j]  f == Factors(a, asked)  g == Factors(b, asked) IN
             i < j /\ asked.sort = "best" /\ ~Directory[a].concierge /\ ~Directory[b].concierge
                /\ (\A k \in DOMAIN f : g[k] >= f[k])
             => Score(a, asked) = Score(b, asked) /\ Found(a, b)

=============================================================================
