SPECIFICATION Spec
CONSTANTS
    Callers = {"c1"}
    Pair = {"c1", "c2"}
    Codes = {"o1", "o2"}
    MaxAttempts = 2
    MaxActive = 1
    Business = {"vendor"}
    Fields = {"basic", "services"}
    Identity = {"verification"}
    Accounts = {"a1", "a2"}
    Legacy = TRUE
    Workers = {"w1", "w2"}
    Files = {"f1", "f2"}
    Places <- TwoPlaces
    Owner <- OneUploader
    NoOwner = "nobody"
    MaxDeletes = 1
    Vendors = {"x1", "x2"}
    MaxTasks = 2
    Organizers = {"o1", "o2"}
    Ids = {"l1", "l2", "l3"}
    MaxRatings = 1
    Bookings = {"b1", "b2"}
    Stars = {1, 5}
    Curriculum <- ThreeTopics
    Events <- FewEvents
    Jobs = {}
    Days = {5, 6, 7, 8}
    WorkingDays = {0, 1, 6}
    Horizon = 3
    Amounts = {5}
    Types = {"g", "v"}
    Terms <- TypesOffered
    Starts = {2}
    Ends = {}
    Ceilings = {0}
    Sales = {"s1", "s2"}
    Customers = {"ann"}
    Quantities = {1, 2}
    FirstInstant = 1
    LastInstant = 3
    MonthDays = 30
    People = {"p1", "p2"}
    Pieces = {"m1"}
    UploadDays = 0
    LastDay = 2
    Times = {1, 2, 3}
INVARIANTS
    SignInIsSound
    VerdictsStand
    FilesAreKept
    LinksAreSettled
    TeamIsHonest
    CalendarIsKept
    FiguresAddUp
    StandingIsReal
    EventPageIsSound
PROPERTIES
    BankIsLocked
    UpdateHitsItsTask
CHECK_DEADLOCK FALSE
