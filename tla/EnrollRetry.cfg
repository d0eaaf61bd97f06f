SPECIFICATION Spec
CONSTANTS
    h1 = h1
    r1 = r1
    k1 = k1
    Hosts = {h1}
    Runs = {r1}
    Keys = {k1}
    R = r1
    K = k1
    Boots = {1, 2, 3}
    NumSteps = 2
    Required = {1}
    RetrySafe = {2}
    DependsOn <- NoDependsOn
    RebootBudget = 1
    MaxEvents = 3
    Operations = {}
    Faults = {}
    Quick = {"manifest", "manifest.flush", "step.flush", "step.secrets", "step.start", "step.started"}
    MaxLosses = 2
    ApprovalTime = 1
    AnswerWindow = 1
    EnrollTime = 2
    LeaseTime = 1
    RetryTime = 1
    MaxTime = 4
    MaxVersion = 60
    NoHost = NoHost
    NoRun = NoRun
    NoKey = NoKey
    NoBoot = 0
INVARIANTS
    EnrollRepeatable
