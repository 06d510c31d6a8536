-------------------------- MODULE MCRanktablePlugin --------------------------
EXTENDS RanktablePlugin

CONSTANTS p1, p2, ipA, ipB   \* two pods, two device ips (model values)

MCPods == {p1, p2}

\* One worker: a role instance expects 1 + 1 = 2 pods.
MCWorkerReplicas == 1

\* The spec's end-to-end scenario: servers "10" and "9" with devices "0"
\* and "1" each; lexicographic server order puts p2's "10" first.
MCContribution ==
    [p \in MCPods |->
        [ServerId |-> IF p = p1 THEN <<9>> ELSE <<1, 0>>,
         Devices  |-> << [DeviceId |-> <<0>>, DeviceIp |-> ipA],
                         [DeviceId |-> <<1>>, DeviceIp |-> ipB] >>]]

MCMaxRestarts == 1

=============================================================================
