CONSTANTS
    p1 = p1
    p2 = p2
    Pods <- MCPods
    Role <- MCRole
    IPs <- MCIPs
    Concurrent = TRUE
    MaxAttempts <- MCMaxAttempts
    MaxRestarts <- MCMaxRestarts
    MaxFaults <- MCMaxFaults

SPECIFICATION Spec

\* The group stops once every pod runs, every hook has returned and the
\* deletions are used up: nothing in the code acts after that.
CHECK_DEADLOCK FALSE

INVARIANTS
    TypeOK

PROPERTIES
    HooksTerminate
