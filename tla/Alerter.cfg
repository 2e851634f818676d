SPECIFICATION FairSpec
CONSTANTS
    r1 = r1
    r2 = r2
    u1 = u1
    u2 = u2
    s1 = s1
    s2 = s2
    Scanner = Scanner
    Webhook = Webhook
    None = None
    Never = Never
    Rule = {r1}
    User = {u1}
    Addressed = {u1}
    Slot = {s1}
    Cooldown = 1
    Realert = 1
    MaxEdits = 2
    MaxFaults = 1
INVARIANTS
    SentIsLogged
PROPERTIES
    CooldownUnlessOverlapping
    DownIsHeard
