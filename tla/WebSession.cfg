SPECIFICATION Spec
CHECK_DEADLOCK FALSE
CONSTANTS
    ann = ann
    cal = cal
    bob = bob
    t1 = t1
    t2 = t2
    p = p
    q = q
    s1 = s1
    s2 = s2
    s3 = s3
    None = None
    User = {ann, bob, cal}
    Password = {p, q}
    Sid = {s1, s2, s3}
    Tab = {t1, t2}
    Slot = {1}
    Request <- Requests
    FirstRole <- Founders
    FirstPassword = p
    FirstSession <- Sessions
    FirstCookie <- Cookies
    Visited <- Habits
    Granted = {"viewer"}
    Chosen = {q}
    MaxAttempts = 1
    MaxFaults = 1
    MaxActions = 2
INVARIANTS
    ShownToUser
    AdminUnlessOvertaken
    RevocationEndsSessions
