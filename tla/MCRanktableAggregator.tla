------------------------ MODULE MCRanktableAggregator ------------------------
EXTENDS RanktableAggregator

CONSTANTS ipA, ipB   \* two device ips (model values)

\* Server ids "10" and "9": lexicographic and numeric order disagree.
\* Device ids "1", "10", "2": "10" sorts between "1" and "2".
MCServerIds == {<<1, 0>>, <<9>>}
MCDeviceIds == {<<1>>, <<1, 0>>, <<2>>}

MCDevices == [DeviceId : MCDeviceIds, DeviceIp : {ipA, ipB}]

\* Device lists of at most two devices.
MCDeviceLists == UNION {[1..n -> MCDevices] : n \in 0..2}

MCContributions == [ServerId : MCServerIds, Devices : MCDeviceLists]

MCMaxPods == 2

MCStatuses == {"Initializing", "Completed"}

\* Inputs of the passing run: every (server, device id) pair reported once.
MCInitUnique ==
    /\ Init
    /\ KeysUnique(input)

MCSpecUnique == MCInitUnique /\ [][Next]_vars

=============================================================================
