SPECIFICATION Spec
CONSTANTS
    m1 = m1
    m2 = m2
    p1 = p1
    p2 = p2
    Authors = {u1}
    Administrators = {u1, u2, u3}
    Names <- MCNames
    Sources = {s1}
    ModuleIds = {m1, m2}
    ProfileIds = {p1, p2}
    Plans <- MCPlans
    Needs <- MCNeeds
    FourEyes = TRUE
    MaxVersion = 3
    NoUser = NoUser
    NoName = NoName
    NoSource = NoSource
    NoPlan = NoPlan
SYMMETRY Interchangeable
INVARIANTS TypeOK FourEyesKept ApprovedAsShown PlanExecutable
PROPERTIES PublishedFrozen
CHECK_DEADLOCK FALSE
