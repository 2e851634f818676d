SPECIFICATION FairSpec
CONSTANTS
    r1 = r1
    r2 = r2
    c1 = c1
    c2 = c2
    c3 = c3
    e1 = e1
    e2 = e2
    s1 = s1
    None = None
    Rule = {r1, r2}
    Check = {c1, c2, c3}
    Groups <- TwoRules
    Evaluator = {e1, e2}
    Slot = {s1}
    MaxEvents = 2
INVARIANTS
    TypeOK
    EvaluationsSerialised
    TransitionInHand
PROPERTIES
    DispatchesAlternate
    AnnouncesEveryTransition
    SettlesOnVerdict
    LaunchHappens
