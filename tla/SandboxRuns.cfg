SPECIFICATION FairSpec
CONSTANTS
    j1 = j1  j2 = j2
    r1 = r1  r2 = r2
    d1 = d1
    w1 = w1  w2 = w2
    h1 = h1  h2 = h2
    NoWorker = NoWorker  NoRequest = NoRequest
    NoDeployment = NoDeployment  NoJob = NoJob
    Jobs <- OneJob
    Requests <- OneRequest
    Deployments = {d1}
    Workers <- OneWorker
    Handlers <- TwoHandlers
    PlanLength = 1
    Budgets = {2}
    ActiveLimit = 1
    RetainedLimit = 2
    DeploymentLimit = 1
CHECK_DEADLOCK FALSE
INVARIANTS
    TypeOK
    UsageHonest
    PassIsEarned
    FailSurvives
PROPERTIES
    FinishedIsFinal
    NeverReplayed
    EveryRunEnds
