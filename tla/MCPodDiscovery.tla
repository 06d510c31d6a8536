---------------------------- MODULE MCPodDiscovery ----------------------------
EXTENDS PodDiscovery

CONSTANTS p1, p2   \* two pods (model values)

MCPods == {p1, p2}

\* Both pods are workers, so the role's IP list has two entries to sort.
MCRole == [p \in MCPods |-> "worker"]

\* IPs "10.0.0.9", "10.0.0.10" and "10.0.0.2" reduced to their last byte
\* strings "9", "10", "2": string order and numeric order disagree.
MCIPs == {<<9>>, <<1, 0>>, <<2>>}

\* 5 s / 100 ms allows about 50 condition calls; two already let a hook
\* retry once and time out on its second conflict.
MCMaxAttempts == 2

MCMaxRestarts == 1

MCMaxFaults == 1

=============================================================================
