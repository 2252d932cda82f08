SPECIFICATION Spec
CONSTANTS
    anyone = anyone
    cli = cli
    t1 = t1
    t2 = t2
    None = None
    Clients = {anyone, cli}
    Threads = {t1, t2}
    Targets <- MCTargets
    Queues <- MCQueues
    Profiles <- MCProfiles
    ServedModels <- MCServedModels
    AllowedQueues <- MCAllowedQueues
    Requests <- MCRequests
    ExpectedServer = 2
    ExpectedGpu = 2
    Messages <- MCMessages
    ClusterQueues <- MCClusterQueues
    Answers <- MCAnswers
    MaxActive = 1
    MaxRuns = 2
    MaxSends <- MCMaxSends
    MaxFaults = 1
SYMMETRY Symmetry
INVARIANTS TypeOK SubmitAnswersFitDisk PlanIsSound
PROPERTIES CallsMatchContract PlanIsComplete
CHECK_DEADLOCK FALSE
