CONSTANTS
    ipA = ipA
    ipB = ipB
    Contributions <- MCContributions
    MaxPods <- MCMaxPods
    Statuses <- MCStatuses

SPECIFICATION MCSpecUnique

\* One call of a pure function: the behaviour ends after Build.
CHECK_DEADLOCK FALSE

INVARIANTS
    MatchesReference
