SPECIFICATION FairServerSpec
CONSTANTS
    h1 = h1
    r1 = r1
    r2 = r2
    k1 = k1
    k2 = k2
    b1 = b1
    b2 = b2
    Hosts = {h1}
    Runs = {r1}
    Keys = {k1}
    Boots = {b1}
    NumSteps = 2
    Required = {2}
    DependsOn <- ChainDependsOn
    RebootBudget = 1
    ApprovalTime = 1
    AnswerWindow = 1
    EnrollTime = 2
    LeaseTime = 1
    RetryTime = 1
    MaxTime = 6
    MaxVersion = 5
    NoHost = NoHost
    NoRun = NoRun
    NoKey = NoKey
    NoBoot = NoBoot
PROPERTIES
    StartDeadlineExpires
