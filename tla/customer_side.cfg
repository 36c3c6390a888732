SPECIFICATION Spec
CONSTANTS
    Callers = {"c1"}
    Pair = {"c1", "c2"}
    Organizers = {"a", "b"}
    Quotes = {"q1", "q2"}
    Prices = {0, 1}
    BroadcastLimit = 1
    MaxBrief = 2
    MaxVersion = 1
    FullForms = TRUE
    Cards = {"ceremony"}
    Designs <- TwoDesigns
    Targets = {"", "ceremony"}
    Requests = {"r1"}
    Legacy = FALSE
    Ids = {"g1", "g2", "g3"}
    Phones = {"p1", "p2"}
    BadPhone = "bad"
    Sends = {"s1", "s2"}
    Uploads = {"u1"}
    Media = {"m1", "m2"}
    Guests = {"g1", "g2"}
    SubEvents = {"e"}
    Prints = {"p1"}
    InvitedTo <- FirstIsInvited
    InitialSettings <- AllOn
    Switches = {"moderation"}
    MaxPerGuest = 1
    MaxCreated = 4
    Ideas = {"i1"}
    Labels = {"l1", "l2"}
    Slots = {"theme"}
    Keys = {"wedding", "puja"}
    Occasions = {1, 2}
    Plans = {1, 2}
    Codes = {1, 2}
    Coupons = {"p", "o"}
    Owner <- OneOfEach
    Platform = "evently"
    Offers <- TermsOfEach
    Edits <- TypeOrValue
    Editors = {"x", "y"}
    Admins = {"x"}
    Quotations = {"q1", "q2"}
    Organizer <- FromTwo
    Price <- TwoPrices
    AdvancePercentage <- TwoAdvances
    LastDay = 2
    CLAIMABLE_LIMIT = 1
    CLAIMABLE_CANDIDATES = 1
    Events = {"e1"}
    Homes = {"h"}
    MaxMoves = 3
    Contacts = {"m1"}
    Replies = {"r1", "r2"}
    PageSize = 3
    REPLY_MESSAGE_LIMIT = 2
    MaxMessages = 3
    Directory <- ThreeOrganizers
    Contexts <- SomeContexts
    PerGuest = {"food"}
    DefaultFlat <- FlatDecor
INVARIANTS
    BriefsAreSound
    VersionsAreKept
    GuestsAreKept
    AlbumIsWhole
    TalksAreHonest
    BoardIsHonest
    OneIsChosen
    PlansAreHonest
    MatchIsFair
    FeedIsHonest
    CouponsAreHonest
PROPERTIES
    AcceptedTermsStand
    LinkStaysLive
CHECK_DEADLOCK FALSE
