SPECIFICATION Spec
CONSTANTS
    Visitors = {v1, v2}
    Invites = {n1, n2}
    MaxCodes = 2
    MaxMishaps = 1
    Attempts = {t1, t2}
    Sessions = {s1, s2}
    RecoveryCodes = {c1}
    MaxPeriods = 2
    Questions = {q1, q2}
    Calls = {r1, r2}
    Approvals = {a1}
    Tickets = {k1, k2}
    Desks = {d1, d2}
    Helpers = {d2}
    MaxAttempts = 2
    MaxMessages = 1
    Submissions = {w1, w2}
    Fields = {"name", "phone"}
    Hits = {h1, h2, h3}
    Servers = {e1}
    RateLimit = 1
    MaxWindows = 2
    Users = {u1, u2}
    Numbers = {x1, x2}
    Addresses = {m1, m2, m3}
    Requests = {f1, f2}
    MaxSent = 1
    Changes = {g1, g2}
    Gadgets = {b1}
    Choices = {"theme", "language"}
    Payees = {p1}
    Tokens = {z1}
    Members = {y1, y2}
    Orders = {o1, o2}
    ChunkSize = 1
INVARIANTS
    OnboardedOnce
    LimitsHold
    ContactsAreOwned
    SettingsAreKept
    AdministrationIsWhole
PROPERTIES
    SessionsStayRevoked
    DecisionsAgree
    RequestsAreSerial
    SavedDetailsStay
CHECK_DEADLOCK FALSE
