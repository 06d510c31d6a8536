CONSTANTS
    p1 = p1
    p2 = p2
    ipA = ipA
    ipB = ipB
    Pods <- MCPods
    TemplateLevel = "role"
    LevelOverride = "none"
    MaxLevelEdits = 0
    WorkerReplicas <- MCWorkerReplicas
    RoleFound = TRUE
    Contribution <- MCContribution
    Concurrent = FALSE
    MaxRestarts <- MCMaxRestarts
    MaxFaults = 1
    EmptyOutput = TRUE
    DeleteFaults = FALSE
    RendersTimestamp = FALSE
    MaxTime = 0

SPECIFICATION Spec

\* The scope stops once every pod runs, every hook has returned and the
\* deletions are used up: nothing in the code acts after that.
CHECK_DEADLOCK FALSE

INVARIANT
    CompletedHasQuorum
