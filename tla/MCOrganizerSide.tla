----------------------------- MODULE MCOrganizerSide -----------------------------
(***************************************************************************)
(* Small instances of the modules an organizer and the platform meet: sign- *)
(* in and accounts, onboarding, uploaded files, sub-vendors and the tasks   *)
(* of an event, the calendar and the earnings, the rating and the tier, and *)
(* a public event's ticket types, place in the calendar, gallery and stream. *)
(*                                                                          *)
(* A behaviour is a behaviour of one instance, its topic; v1 to v6 hold the *)
(* variables of that module, as in MCCustomerSide.                          *)
(*                                                                          *)
(* They are the modules OrganizerSide_proofs proves about; what it proves   *)
(* of each, for any constants, is carried over to the whole at the end.     *)
(***************************************************************************)
EXTENDS Integers, Sequences, FiniteSets, TLAPS

CONSTANTS
    Callers, Pair,  \* one request at a time; two that race
    Codes, MaxAttempts, MaxActive, Business,
    Fields, Identity, Accounts, Legacy,
    Workers, Files, Places, Owner, NoOwner, MaxDeletes,
    Vendors, MaxTasks,
    Organizers, Ids, MaxRatings,
    Bookings, Stars, Curriculum, Events,
    Jobs, Days, WorkingDays, Horizon, Amounts,
    Types, Terms, Starts, Ends, Ceilings, Sales, Customers, Quantities,
    FirstInstant, LastInstant, MonthDays,
    People, Pieces, UploadDays, LastDay, Times

VARIABLES topic, v1, v2, v3, v4, v5, v6

vars == <<topic, v1, v2, v3, v4, v5, v6>>

-----------------------------------------------------------------------------
(* The instances.                                                           *)

\* One session at a time, with a business role and a second code; an application,
\* files and their deletion, the links to sub-vendors, and a team of two vendors;
\* two ticket types sold and edited on three half days, and an event's gallery.
Serial == INSTANCE OrganizerSide_proofs WITH
    user <- v1, otp <- v2, caller <- v3, told <- v4,
    profile <- v1, role <- v2,
    stored <- v1, asset <- v2, refers <- v3, worker <- v4,
    links <- v2, desk <- v3,
    tasks <- v1, added <- v2, linked <- v4, agreed <- v5,
    done <- v2, reviews <- v4, progress <- v5,
    bookings <- v1, busy <- v2, today <- v4, tier <- v5, asked <- v6,
    event <- v2, types <- v3, now <- v4, ticket <- v1, memory <- v5, verdict <- v6

\* Two requests that race each other and the administrator; one vendor and two
\* requests; the rating, the calendar and a stream's settings under two requests;
\* a fortnight's calendar of events, with one now in it, now beyond it.
Races == INSTANCE OrganizerSide_proofs WITH
    Callers <- Pair, Codes <- {"o1"}, MaxAttempts <- 1, Business <- {}, Vendors <- {"x1"},
    People <- {}, Pieces <- {}, LastDay <- 0,
    Types <- {"g"}, Terms <- {t \in Terms : t.price = 3},
    Starts <- {3, 11, 12, 13, 14, 15, 16, 25, 61, 80}, Ends <- {15},
    Sales <- {}, Customers <- {}, Quantities <- {}, FirstInstant <- 0, LastInstant <- 13,
    user <- v1, otp <- v2, caller <- v3, told <- v4,
    profile <- v1, role <- v2,
    stored <- v1, asset <- v2, refers <- v3, worker <- v4,
    links <- v2, desk <- v3,
    tasks <- v1, added <- v2, linked <- v4, agreed <- v5,
    done <- v2, reviews <- v4, progress <- v5,
    bookings <- v1, busy <- v2, today <- v4, tier <- v5, asked <- v6,
    event <- v2, types <- v3, now <- v4, ticket <- v1, memory <- v5, verdict <- v6

\* The values of the constants that no configuration can write down.
TwoPlaces   == <<"users", "packages">>
OneUploader == [f \in {"f1", "f2"} |-> IF f = "f1" THEN "u1" ELSE "nobody"]
ThreeTopics == <<{"l"}, {"w"}, {"i"}>>
FewEvents   == [gold |-> 1, platinum |-> 2]

TypesOffered ==
    {[total |-> 2, active |-> TRUE,  from |-> 0, until |-> 0, max |-> 0, price |-> 3],
     [total |-> 1, active |-> TRUE,  from |-> 3, until |-> 0, max |-> 0, price |-> 0],
     [total |-> 3, active |-> FALSE, from |-> 0, until |-> 2, max |-> 1, price |-> 0]}

\* The money of three bookings, and nobody at the calendar.
Money == INSTANCE OrganizerSide_proofs WITH
    Callers <- {}, Jobs <- {"b1", "b2", "b3"}, Days <- {0, 1}, WorkingDays <- {1, 2, 6}, Horizon <- 6,
    Amounts <- {5, 29},
    user <- v1, otp <- v2, caller <- v3, told <- v4,
    profile <- v1, role <- v2,
    stored <- v1, asset <- v2, refers <- v3, worker <- v4,
    links <- v2, desk <- v3,
    tasks <- v1, added <- v2, linked <- v4, agreed <- v5,
    done <- v2, reviews <- v4, progress <- v5,
    bookings <- v1, busy <- v2, today <- v4, tier <- v5, asked <- v6,
    event <- v2, types <- v3, now <- v4, ticket <- v1, memory <- v5, verdict <- v6

ASSUME OrganizerAssumption ==
    /\ Serial!Auth!AccountsAssumption /\ Races!Auth!AccountsAssumption
    /\ Serial!Onb!OnboardingAssumption /\ Serial!Store!AssetAssumption
    /\ Serial!Net!SubVendorAssumption /\ Races!Rank!StandingAssumption
    /\ Serial!Team!TaskAssumption /\ Races!Team!TaskAssumption
    /\ Races!Cal!DeskAssumption /\ Money!Cal!DeskAssumption
    /\ Serial!Fair!CatalogueAssumption /\ Races!Fair!CatalogueAssumption
    /\ Serial!Shared!GalleryAssumption /\ Races!Shared!GalleryAssumption

-----------------------------------------------------------------------------
(* One topic at a time; the variables it does not use stay put.             *)

About(t) == topic = t

Empty6 == v6 = 0
Empty5 == v5 = 0 /\ Empty6
Empty4 == v4 = 0 /\ Empty5

Keep6 == UNCHANGED <<topic, v6>>
Keep5 == UNCHANGED <<topic, v5, v6>>
Keep4 == UNCHANGED <<topic, v4, v5, v6>>

Init ==
    \/ About("sign-in")    /\ Serial!Auth!Init  /\ Empty5
    \/ About("sessions")   /\ Races!Auth!Init   /\ Empty5
    \/ About("onboarding") /\ Serial!Onb!Init   /\ Empty4
    \/ About("assets")     /\ Serial!Store!Init /\ Empty5
    \/ About("network")    /\ Serial!Net!Init   /\ Empty4
    \/ About("tasks")      /\ Serial!Team!Init  /\ Empty6
    \/ About("answers")    /\ Races!Team!Init   /\ Empty6
    \/ About("calendar")   /\ Races!Cal!Init
    \/ About("money")      /\ Money!Cal!Init
    \/ About("ratings")    /\ Races!Rank!Init   /\ Empty6
    \/ About("catalogue")  /\ Serial!Fair!Init  /\ Empty5
    \/ About("slices")     /\ Races!Fair!Init   /\ Empty5
    \/ About("gallery")    /\ Serial!Shared!Init
    \/ About("stream")     /\ Races!Shared!Init

StepSignIn     == About("sign-in")    /\ Serial!Auth!Next  /\ Keep5
StepSessions   == About("sessions")   /\ Races!Auth!Next   /\ Keep5
StepOnboarding == About("onboarding") /\ Serial!Onb!Next   /\ Keep4
StepAssets     == About("assets")     /\ Serial!Store!Next /\ Keep5
StepNetwork    == About("network")    /\ Serial!Net!Next   /\ Keep4
StepTasks      == About("tasks")      /\ Serial!Team!Next  /\ Keep6
StepAnswers    == About("answers")    /\ Races!Team!Next   /\ Keep6
StepCalendar   == About("calendar")   /\ Races!Cal!Next    /\ UNCHANGED topic
StepMoney      == About("money")      /\ Money!Cal!Next    /\ UNCHANGED topic
StepRatings    == About("ratings")    /\ Races!Rank!Next   /\ Keep6
StepCatalogue  == About("catalogue")  /\ Serial!Fair!Next  /\ Keep5
StepSlices     == About("slices")     /\ Races!Fair!Next   /\ Keep5
StepGallery    == About("gallery")    /\ Serial!Shared!Next /\ UNCHANGED topic
StepStream     == About("stream")     /\ Races!Shared!Next /\ UNCHANGED topic

Next ==
    \/ StepSignIn \/ StepSessions \/ StepOnboarding \/ StepAssets \/ StepNetwork
    \/ StepTasks \/ StepAnswers \/ StepCalendar \/ StepMoney \/ StepRatings
    \/ StepCatalogue \/ StepSlices \/ StepGallery \/ StepStream

Spec == Init /\ [][Next]_vars

-----------------------------------------------------------------------------
(* The properties, each of the instance it is about; what each says in full *)
(* is stated beside the definitions they name.                              *)

\* However sign-ins race each other and the administrator, an account barred
\* when it asked gets no session, and one that opens is on a role the account
\* holds; one by one, codes run out of attempts, and few are live at a time.
SignInIsSound ==
    /\ About("sessions") => Races!Auth!SignInIsSound
    /\ About("sign-in")  => Serial!Auth!SignInIsSound

\* Customers find exactly the organizers whose approval stands, and the review
\* trail explains the status an organizer is in.
VerdictsStand == About("onboarding") => Serial!Onb!VerdictsStand

\* Bank details on file do not change after the submission.
BankIsLocked == [][About("onboarding") => Serial!Onb!BankStays]_vars

\* A file something refers to is never deleted, and a deleted one is gone.
FilesAreKept == About("assets") => Serial!Store!FilesAreKept

\* One link per organizer, and no invitation is left open once resolved.
LinksAreSettled == About("network") => Serial!Net!LinksAreSettled

\* A change decided on one task is written to that task or to none.
UpdateHitsItsTask ==
    [][(About("tasks") => Serial!Team!HitsItsTask) /\ (About("answers") => Races!Team!HitsItsTask)]_vars

\* Nobody is held to a task they did not accept themselves, and the organizer's
\* team list and the vendor's own page count the same events.
TeamIsHonest ==
    /\ About("tasks")   => Serial!Team!TeamIsHonest
    /\ About("answers") => Races!Team!TeamIsHonest

\* Days blocked stay blocked, and every slot offered lies ahead.
CalendarIsKept == About("calendar") => Races!Cal!CalendarIsKept

\* What is paid out, pending and still to come adds up to what was earned; and
\* the stars of the reviews screen to the reviews there are.
FiguresAddUp ==
    /\ About("money")   => Money!Cal!PayoutsAddUp
    /\ About("ratings") => Races!Rank!SummaryAddsUp

\* The rating on the profile is one that some set of the reviews adds up to, and
\* a tier was earned by events and training.
StandingIsReal == About("ratings") => Races!Rank!StandingIsReal

\* What others see of an event's gallery was free to add or was passed; however
\* many requests rewrite the settings, a stream ends after it starts; what the
\* event's page says about buying is true, and every screen counts its seats
\* alike; and the calendar's slices are what they are called.
EventPageIsSound ==
    /\ About("gallery")   => Serial!Shared!GalleryIsModerated
    /\ About("stream")    => Races!Shared!StreamIsCoherent
    /\ About("catalogue") => Serial!Fair!SignTellsTheShelf /\ Serial!Fair!SaleWordIsTrue /\ Serial!Fair!FiguresAgree
    /\ About("slices")    => Races!Fair!SlicesAreSound

-----------------------------------------------------------------------------
(* What the source says of itself and these instances refute.               *)

\* Nothing can be bought for an event that has started.
NothingToBuyOnceStarted == About("catalogue") => Serial!Fair!NothingToBuyOnceStarted

\* A code that is shown is not refused at the door.
ShownCodesOpenTheDoor == About("catalogue") => Serial!Fair!ShownCodesOpenTheDoor

\* A day the profile calls free has no event that is confirmed.
FreeIsUnbooked == About("money") => Money!Cal!FreeIsUnbooked

-----------------------------------------------------------------------------
(* What OrganizerSide_proofs proves of a module holds of the whole, while  *)
(* that module is the topic; for any value of the constants.                *)

\* A step is of the topic's module, and keeps the topic.
LEMMA EveryStep ==
    ASSUME [Next]_vars
    PROVE  /\ topic' = topic
           /\ About("sign-in")    => [Serial!Auth!Next]_(Serial!Auth!accountVars)
           /\ About("sessions")   => [Races!Auth!Next]_(Races!Auth!accountVars)
           /\ About("onboarding") => [Serial!Onb!Next]_(Serial!Onb!onboardingVars)
           /\ About("assets")     => [Serial!Store!Next]_(Serial!Store!assetVars)
           /\ About("network")    => [Serial!Net!Next]_(Serial!Net!subVendorVars)
           /\ About("tasks")      => [Serial!Team!Next]_(Serial!Team!taskVars)
           /\ About("answers")    => [Races!Team!Next]_(Races!Team!taskVars)
           /\ About("calendar")   => [Races!Cal!Next]_(Races!Cal!deskVars)
           /\ About("money")      => [Money!Cal!Next]_(Money!Cal!deskVars)
           /\ About("ratings")    => [Races!Rank!Next]_(Races!Rank!standingVars)
           /\ About("catalogue")  => [Serial!Fair!Next]_(Serial!Fair!catalogueVars)
           /\ About("slices")     => [Races!Fair!Next]_(Races!Fair!catalogueVars)
           /\ About("gallery")    => [Serial!Shared!Next]_(Serial!Shared!galleryVars)
           /\ About("stream")     => [Races!Shared!Next]_(Races!Shared!galleryVars)
  BY DEF Next, vars, About, Keep4, Keep5, Keep6,
       StepSignIn, StepSessions, StepOnboarding, StepAssets, StepNetwork, StepTasks, StepAnswers,
       StepCalendar, StepMoney, StepRatings, StepCatalogue, StepSlices, StepGallery, StepStream,
       Serial!Auth!accountVars, Races!Auth!accountVars, Serial!Onb!onboardingVars,
       Serial!Store!assetVars, Serial!Net!subVendorVars, Serial!Team!taskVars,
       Races!Team!taskVars, Races!Cal!deskVars, Money!Cal!deskVars,
       Races!Rank!standingVars, Serial!Fair!catalogueVars, Races!Fair!catalogueVars,
       Serial!Shared!galleryVars, Races!Shared!galleryVars

\* So it is about one topic from the start, and a behaviour of its module.
LEMMA SignInRun == Spec => []~About("sign-in") \/ ([]About("sign-in") /\ Serial!Auth!Spec)
  <1>1. Init /\ About("sign-in") => Serial!Auth!Init
    BY DEF Init, About
  <1>2. [Next]_vars /\ About("sign-in") => [Serial!Auth!Next]_(Serial!Auth!accountVars) /\ About("sign-in")'
    BY EveryStep DEF About
  <1>3. [Next]_vars /\ ~About("sign-in") => ~About("sign-in")'
    BY EveryStep DEF About
  <1> QED  BY <1>1, <1>2, <1>3, PTL DEF Spec, Serial!Auth!Spec

LEMMA SessionsRun == Spec => []~About("sessions") \/ ([]About("sessions") /\ Races!Auth!Spec)
  <1>1. Init /\ About("sessions") => Races!Auth!Init
    BY DEF Init, About
  <1>2. [Next]_vars /\ About("sessions") => [Races!Auth!Next]_(Races!Auth!accountVars) /\ About("sessions")'
    BY EveryStep DEF About
  <1>3. [Next]_vars /\ ~About("sessions") => ~About("sessions")'
    BY EveryStep DEF About
  <1> QED  BY <1>1, <1>2, <1>3, PTL DEF Spec, Races!Auth!Spec

LEMMA OnboardingRun == Spec => []~About("onboarding") \/ ([]About("onboarding") /\ Serial!Onb!Spec)
  <1>1. Init /\ About("onboarding") => Serial!Onb!Init
    BY DEF Init, About
  <1>2. [Next]_vars /\ About("onboarding") => [Serial!Onb!Next]_(Serial!Onb!onboardingVars) /\ About("onboarding")'
    BY EveryStep DEF About
  <1>3. [Next]_vars /\ ~About("onboarding") => ~About("onboarding")'
    BY EveryStep DEF About
  <1> QED  BY <1>1, <1>2, <1>3, PTL DEF Spec, Serial!Onb!Spec

LEMMA AssetsRun == Spec => []~About("assets") \/ ([]About("assets") /\ Serial!Store!Spec)
  <1>1. Init /\ About("assets") => Serial!Store!Init
    BY DEF Init, About
  <1>2. [Next]_vars /\ About("assets") => [Serial!Store!Next]_(Serial!Store!assetVars) /\ About("assets")'
    BY EveryStep DEF About
  <1>3. [Next]_vars /\ ~About("assets") => ~About("assets")'
    BY EveryStep DEF About
  <1> QED  BY <1>1, <1>2, <1>3, PTL DEF Spec, Serial!Store!Spec

LEMMA NetworkRun == Spec => []~About("network") \/ ([]About("network") /\ Serial!Net!Spec)
  <1>1. Init /\ About("network") => Serial!Net!Init
    BY DEF Init, About
  <1>2. [Next]_vars /\ About("network") => [Serial!Net!Next]_(Serial!Net!subVendorVars) /\ About("network")'
    BY EveryStep DEF About
  <1>3. [Next]_vars /\ ~About("network") => ~About("network")'
    BY EveryStep DEF About
  <1> QED  BY <1>1, <1>2, <1>3, PTL DEF Spec, Serial!Net!Spec

LEMMA TasksRun == Spec => []~About("tasks") \/ ([]About("tasks") /\ Serial!Team!Spec)
  <1>1. Init /\ About("tasks") => Serial!Team!Init
    BY DEF Init, About
  <1>2. [Next]_vars /\ About("tasks") => [Serial!Team!Next]_(Serial!Team!taskVars) /\ About("tasks")'
    BY EveryStep DEF About
  <1>3. [Next]_vars /\ ~About("tasks") => ~About("tasks")'
    BY EveryStep DEF About
  <1> QED  BY <1>1, <1>2, <1>3, PTL DEF Spec, Serial!Team!Spec

LEMMA AnswersRun == Spec => []~About("answers") \/ ([]About("answers") /\ Races!Team!Spec)
  <1>1. Init /\ About("answers") => Races!Team!Init
    BY DEF Init, About
  <1>2. [Next]_vars /\ About("answers") => [Races!Team!Next]_(Races!Team!taskVars) /\ About("answers")'
    BY EveryStep DEF About
  <1>3. [Next]_vars /\ ~About("answers") => ~About("answers")'
    BY EveryStep DEF About
  <1> QED  BY <1>1, <1>2, <1>3, PTL DEF Spec, Races!Team!Spec

LEMMA CalendarRun == Spec => []~About("calendar") \/ ([]About("calendar") /\ Races!Cal!Spec)
  <1>1. Init /\ About("calendar") => Races!Cal!Init
    BY DEF Init, About
  <1>2. [Next]_vars /\ About("calendar") => [Races!Cal!Next]_(Races!Cal!deskVars) /\ About("calendar")'
    BY EveryStep DEF About
  <1>3. [Next]_vars /\ ~About("calendar") => ~About("calendar")'
    BY EveryStep DEF About
  <1> QED  BY <1>1, <1>2, <1>3, PTL DEF Spec, Races!Cal!Spec

LEMMA MoneyRun == Spec => []~About("money") \/ ([]About("money") /\ Money!Cal!Spec)
  <1>1. Init /\ About("money") => Money!Cal!Init
    BY DEF Init, About
  <1>2. [Next]_vars /\ About("money") => [Money!Cal!Next]_(Money!Cal!deskVars) /\ About("money")'
    BY EveryStep DEF About
  <1>3. [Next]_vars /\ ~About("money") => ~About("money")'
    BY EveryStep DEF About
  <1> QED  BY <1>1, <1>2, <1>3, PTL DEF Spec, Money!Cal!Spec

LEMMA RatingsRun == Spec => []~About("ratings") \/ ([]About("ratings") /\ Races!Rank!Spec)
  <1>1. Init /\ About("ratings") => Races!Rank!Init
    BY DEF Init, About
  <1>2. [Next]_vars /\ About("ratings") => [Races!Rank!Next]_(Races!Rank!standingVars) /\ About("ratings")'
    BY EveryStep DEF About
  <1>3. [Next]_vars /\ ~About("ratings") => ~About("ratings")'
    BY EveryStep DEF About
  <1> QED  BY <1>1, <1>2, <1>3, PTL DEF Spec, Races!Rank!Spec

LEMMA CatalogueRun == Spec => []~About("catalogue") \/ ([]About("catalogue") /\ Serial!Fair!Spec)
  <1>1. Init /\ About("catalogue") => Serial!Fair!Init
    BY DEF Init, About
  <1>2. [Next]_vars /\ About("catalogue") => [Serial!Fair!Next]_(Serial!Fair!catalogueVars) /\ About("catalogue")'
    BY EveryStep DEF About
  <1>3. [Next]_vars /\ ~About("catalogue") => ~About("catalogue")'
    BY EveryStep DEF About
  <1> QED  BY <1>1, <1>2, <1>3, PTL DEF Spec, Serial!Fair!Spec

LEMMA SlicesRun == Spec => []~About("slices") \/ ([]About("slices") /\ Races!Fair!Spec)
  <1>1. Init /\ About("slices") => Races!Fair!Init
    BY DEF Init, About
  <1>2. [Next]_vars /\ About("slices") => [Races!Fair!Next]_(Races!Fair!catalogueVars) /\ About("slices")'
    BY EveryStep DEF About
  <1>3. [Next]_vars /\ ~About("slices") => ~About("slices")'
    BY EveryStep DEF About
  <1> QED  BY <1>1, <1>2, <1>3, PTL DEF Spec, Races!Fair!Spec

LEMMA GalleryRun == Spec => []~About("gallery") \/ ([]About("gallery") /\ Serial!Shared!Spec)
  <1>1. Init /\ About("gallery") => Serial!Shared!Init
    BY DEF Init, About
  <1>2. [Next]_vars /\ About("gallery") => [Serial!Shared!Next]_(Serial!Shared!galleryVars) /\ About("gallery")'
    BY EveryStep DEF About
  <1>3. [Next]_vars /\ ~About("gallery") => ~About("gallery")'
    BY EveryStep DEF About
  <1> QED  BY <1>1, <1>2, <1>3, PTL DEF Spec, Serial!Shared!Spec

LEMMA StreamRun == Spec => []~About("stream") \/ ([]About("stream") /\ Races!Shared!Spec)
  <1>1. Init /\ About("stream") => Races!Shared!Init
    BY DEF Init, About
  <1>2. [Next]_vars /\ About("stream") => [Races!Shared!Next]_(Races!Shared!galleryVars) /\ About("stream")'
    BY EveryStep DEF About
  <1>3. [Next]_vars /\ ~About("stream") => ~About("stream")'
    BY EveryStep DEF About
  <1> QED  BY <1>1, <1>2, <1>3, PTL DEF Spec, Races!Shared!Spec

\* An account barred when it asked gets no session, whatever overlaps; and one request at a
\* time, a code lets nobody in twice and takes no more than its guesses (assertActive).
THEOREM SignInKept == Spec => []SignInIsSound
  <1>1. Races!Auth!Spec => []Races!Auth!SignInIsSound
    BY Races!SignInStaysSound, OrganizerAssumption
  <1>2. Serial!Auth!Spec => []Serial!Auth!SignInIsSound
    BY Serial!SignInStaysSound, OrganizerAssumption
  <1> QED  BY <1>1, <1>2, SessionsRun, SignInRun, PTL DEF SignInIsSound

\* Where handlers do not overlap, customers find the organizers whose approval stands, and
\* the trail explains the status (transition, finalizeSave).
THEOREM VerdictsKept == Spec => []VerdictsStand
  <1>1. Serial!Onb!Spec => []Serial!Onb!VerdictsStand
    BY Serial!VerdictsStandFirm, OrganizerAssumption
  <1> QED  BY <1>1, OnboardingRun, PTL DEF VerdictsStand

\* Where handlers do not overlap, the bank of an application under review or approved is the
\* one that was reviewed (updateBank).
THEOREM BankKept == ASSUME Serial!Onb!Alone PROVE Spec => BankIsLocked
  <1>1. Serial!Onb!Spec => Serial!Onb!BankIsLocked
    BY Serial!BankStaysLocked, OrganizerAssumption
  <1>2. UNCHANGED Serial!Onb!onboardingVars => Serial!Onb!BankStays
    BY DEF Serial!Onb!BankStays, Serial!Onb!onboardingVars
  <1> QED  BY <1>1, <1>2, OnboardingRun, PTL DEF BankIsLocked, Serial!Onb!BankIsLocked

\* A file something has referred to since it was claimed is never handed to the provider, and
\* what a row calls deleted is gone, whatever workers race or die (findReference, markDeleted).
THEOREM FilesKept == Spec => []FilesAreKept
  <1>1. Serial!Store!Spec => []Serial!Store!FilesAreKept
    BY Serial!FilesStandKept, OrganizerAssumption
  <1> QED  BY <1>1, AssetsRun, PTL DEF FilesAreKept

\* Where handlers do not overlap, an organizer has one live link to a sub-vendor and no
\* invitation stays open once the sub-vendor signed up (resolveInvites, linkActive).
THEOREM LinksKept == Spec => []LinksAreSettled
  <1>1. Serial!Net!Spec => []Serial!Net!LinksAreSettled
    BY Serial!LinksStaySettled, OrganizerAssumption
  <1> QED  BY <1>1, NetworkRun, PTL DEF LinksAreSettled

\* An update decided on one task is written to that task or to none, whatever overlaps: the
\* array is saved by place, and its version refuses whoever read it before (versionKey).
THEOREM UpdatesKept == Spec => UpdateHitsItsTask
  <1>1. Serial!Team!Spec => Serial!Team!UpdateHitsItsTask
    BY Serial!UpdatesHitTheirTask
  <1>2. UNCHANGED Serial!Team!taskVars => Serial!Team!HitsItsTask
    BY DEF Serial!Team!HitsItsTask, Serial!Team!taskVars, Serial!Team!At
  <1>3. Races!Team!Spec => Races!Team!UpdateHitsItsTask
    BY Races!UpdatesHitTheirTask
  <1>4. UNCHANGED Races!Team!taskVars => Races!Team!HitsItsTask
    BY DEF Races!Team!HitsItsTask, Races!Team!taskVars, Races!Team!At
  <1> QED  BY <1>1, <1>2, <1>3, <1>4, TasksRun, AnswersRun, PTL DEF UpdateHitsItsTask, Serial!Team!UpdateHitsItsTask, Races!Team!UpdateHitsItsTask

\* The team list and the sub-vendor's own page count the same events, whatever overlaps; and
\* where handlers do not, nobody is held to a task they did not accept themselves.
THEOREM TeamKept == Spec => []TeamIsHonest
  <1>1. Serial!Team!Spec => []Serial!Team!TeamIsHonest
    BY Serial!TeamStaysHonest, OrganizerAssumption
  <1>2. Races!Team!Spec => []Races!Team!TeamIsHonest
    BY Races!TeamStaysHonest, OrganizerAssumption
  <1> QED  BY <1>1, <1>2, TasksRun, AnswersRun, PTL DEF TeamIsHonest

\* However taps overlap, a day is blocked when the last answer stored said so, and what the
\* profile promises of the days ahead can still be asked for (setDateBlocked).
THEOREM CalendarKept == Spec => []CalendarIsKept
  <1>1. Races!Cal!Spec => []Races!Cal!CalendarIsKept
    BY Races!CalendarStaysKept, OrganizerAssumption
  <1> QED  BY <1>1, CalendarRun, PTL DEF CalendarIsKept

\* However reviews, lessons and promotions overlap, the rating shown is one some reviews add up
\* to, and the tier shown was earned (recomputeRating, promote).
THEOREM StandingKept == Spec => []StandingIsReal
  <1>1. Races!Rank!Spec => []Races!Rank!StandingIsReal
    BY Races!StandingStaysReal, OrganizerAssumption
  <1> QED  BY <1>1, RatingsRun, PTL DEF StandingIsReal

\* What is still to be paid out is what the bookings not yet delivered earn, to a rupee each,
\* for any bookings, amounts and tier; and the rows of the reviews count them all (getEarnings).
THEOREM FiguresKept == Spec => []FiguresAddUp
  <1>1. Money!Cal!Spec => []Money!Cal!PayoutsAddUp
    BY Money!PayoutsStayTrue, OrganizerAssumption
  <1>2. Races!Rank!Spec => []Races!Rank!SummaryAddsUp
    BY Races!SummaryStaysTrue, OrganizerAssumption
  <1> QED  BY <1>1, <1>2, MoneyRun, RatingsRun, PTL DEF FiguresAddUp

\* For any ticket types and bookings, one request at a time, the sign and the word on the sale
\* are true, every screen counts the same seats, and the slices of the calendar are what they
\* are called; uploads are moderated, and a stream ends after it starts, whoever rewrites the
\* settings (refreshSoldOut, saleStateOf, summaryFor, whenWindow, setLiveStream).
THEOREM EventPagesKept == ASSUME Serial!Shared!Alone PROVE Spec => []EventPageIsSound
  <1>1. Serial!Shared!Spec => []Serial!Shared!GalleryIsModerated
    BY Serial!EventGalleryStaysModerated, OrganizerAssumption
  <1>2. Races!Shared!Spec => []Races!Shared!StreamIsCoherent
    BY Races!EventGalleryStaysModerated, OrganizerAssumption
  <1>3. Serial!Fair!Spec => []Serial!Fair!SignTellsTheShelf /\ []Serial!Fair!SaleWordIsTrue /\ []Serial!Fair!FiguresAgree
    <2>1. Serial!Fair!Spec => [](Serial!Fair!SignTellsTheShelf /\ Serial!Fair!SaleWordIsTrue
                                 /\ Serial!Fair!FiguresAgree /\ Serial!Fair!SlicesAreSound)
      BY Serial!EventPageStaysSound, OrganizerAssumption
    <2> QED  BY <2>1, PTL
  <1>4. Races!Fair!Spec => []Races!Fair!SlicesAreSound
    <2>1. Races!Fair!Spec => [](Races!Fair!SignTellsTheShelf /\ Races!Fair!SaleWordIsTrue
                                /\ Races!Fair!FiguresAgree /\ Races!Fair!SlicesAreSound)
      BY Races!EventPageStaysSound, OrganizerAssumption
    <2> QED  BY <2>1, PTL
  <1> QED  BY <1>1, <1>2, <1>3, <1>4, GalleryRun, StreamRun, CatalogueRun, SlicesRun, PTL DEF EventPageIsSound

=============================================================================
