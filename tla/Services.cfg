SPECIFICATION ServicesSpec
CONSTANTS
    ann = ann
    bob = bob
    cyd = cyd
    m1 = m1
    m2 = m2
    m3 = m3
    tp = tp
    te = te
    Requests = {s1, s2}
    People = {ann, bob, cyd}
    Messages = {m1, m2, m3}
    Threads = {tp, te}
    Sender <- From
    Thread <- On
    Redacted = Redacted
    Modes = {"anonymize", "hard"}
    MaxStamp = 3
    Writers = {u1, u2}
    MaxEntries = 4
    MaxTampering = 1
    Texts = {t1, t2}
    Sensitive = {t1}
    NoText = NoText
    ContextMessages = 2
    FrontierEnabled = TRUE
    Permissions = {TRUE, FALSE}
    ShieldSettings = {TRUE, FALSE}
    Catalog <- Policies
    NoPolicy = NoPolicy
    Editors = {e1, e2}
    Defaults <- Environment
    NoSetting = NoSetting
    PersonaIds = {b1, b2, b3}
    Admins = {d1, d2}
    Budget = 2
    Window = 3
    MaxTime = 8
    MaxAdmitted = 5
    Callers = {q1, q2}
    Scores = {x1, x2}
    Reasons = {r1, r2}
    NoEntry = NoEntry
    MaxRatings = 2
    Tickets = {c1, c2}
    FirstResponse = 1
    Resolution = 2
    MaxMinute = 4
    chat1 = chat1
    chat2 = chat2
    file1 = file1
    file2 = file2
    Chats = {chat1, chat2}
    Customer = customer
    VaultFiles = {file1, file2}
    FilesOf <- Attachments
    Jobs = {s1, s2}
    RetentionDays = 1
    MaxDay = 2
    MaxMails = 5
    Retrievals <- Found
    Answers <- Replies
    Thresholds = {0, 30, 90}
    Default = 60
    TTL = 2
    MaxTick = 4
    MaxChanges = 3
SYMMETRY Symmetry
CHECK_DEADLOCK FALSE
INVARIANTS NoCrossTalk OneCustomerPerPerson HolderIsResolved NoDanglingLink UntouchedVerifies  GuardsGuard HighestDecides  WindowBudget NoLockout  GoneIsAudited OrphansReported  EngineCatchesUp UngroundedIsHandedOver
PROPERTIES  ActivationRepairs ScanTellsFirst EscalatesTheOverdue
