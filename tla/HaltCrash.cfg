SPECIFICATION Spec
CONSTANTS
    h1 = h1
    r1 = r1
    k1 = k1
    Hosts = {h1}
    Runs = {r1}
    Keys = {k1}
    R = r1
    K = k1
    Boots = {1, 2, 3}
    NumSteps = 2
    Required = {1}
    RetrySafe = {2}
    DependsOn <- NoDependsOn
    RebootBudget = 1
    MaxEvents = 3
    Operations = {}
    Faults = {"process"}
    Quick = {}
    MaxLosses = 0
    ApprovalTime = 1
    AnswerWindow = 1
    EnrollTime = 3
    LeaseTime = 1
    RetryTime = 1
    MaxTime = 40
    MaxVersion = 60
    NoHost = NoHost
    NoRun = NoRun
    NoKey = NoKey
    NoBoot = 0
VIEW ShiftedResumed
PROPERTIES
    OnlyOperatorResumes
