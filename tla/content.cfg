SPECIFICATION Spec
CONSTANTS
    p1 = p1
    p2 = p2
    a1 = a1
    org = org
    Procs = {p1, p2}
    Attendees = {a1}
    Organizer = org
    RateLimit <- Limits
    RateWindow = 1
    MaxTime = 3
    LastTick <- TickBound
    MaxRequests = 3
    MaxWork <- WorkBound
    MaxRestarts = 1
    MaxComments = 3
    MaxPerHour = 2
    Hour = 1
    PageSize = 1
    Existing <- Guestbook
    OrganizerCooldown = 1
    AttendeeCooldown = 1
    MaxQuestions = 2
    Drafts <- DraftQuestions
    Forms <- AnswerForms
    FirstQuestions <- FirstLists
    h1 = h1
    h2 = h2
    Hosts = {h1, h2}
    NoHost = NoHost
    NoProc = NoProc
    MaxCoHosts = 1
    AddLimit = 1
    AddWindow = 0
    NotifyHour = 2
    FirstSeen <- Throttled
    ImageTypes = {jpg, png}
    Payloads = {jpg, png, script}
    NoCard = NoCard
    NoPicture = NoPicture
    BadLink = BadLink
INVARIANTS TypeOK AdmissionBounded LimitsKept PausesKept MutexReleased PagesComplete FormsSound PicturesKept
PROPERTIES DeletedQuestionsStay
CHECK_DEADLOCK FALSE
SYMMETRY Swap
