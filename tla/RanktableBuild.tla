--------------------------- MODULE RanktableBuild ---------------------------
(***************************************************************************)
(* The rank-assignment aggregator of the ranktable plugin:                 *)
(* TemplateManager.BuildRanktableTemplateData (ranktable/template.go).     *)
(*                                                                         *)
(* Identifiers (server ids, device ids, rank ids) are Go strings compared  *)
(* byte-wise.  They are represented as sequences of small naturals (the    *)
(* bytes), so that sort.Strings and the `<` of the device sort are the     *)
(* lexicographic order they are in Go, and strconv.Itoa produces the       *)
(* digit sequence of the rank.  Device ips are opaque model values.        *)
(***************************************************************************)
EXTENDS Naturals, Sequences, SequencesExt, TLC

\* A contribution is a PodRanktableData:
\*   [PodName, ServerId, Devices: Seq([DeviceId, DeviceIp])]
\* The Timestamp field of the result (time.Now()) is metadata and left out.

\* Go's `a < b` on strings: byte-wise lexicographic comparison.
RECURSIVE LexLess(_, _)
LexLess(a, b) ==
    IF a = <<>> THEN b # <<>>
    ELSE IF b = <<>> THEN FALSE
    ELSE IF Head(a) # Head(b) THEN Head(a) < Head(b)
    ELSE LexLess(Tail(a), Tail(b))

\* strconv.Itoa on a natural: its decimal digits, most significant first.
RECURSIVE Itoa(_)
Itoa(n) == IF n < 10 THEN <<n>> ELSE Append(Itoa(n \div 10), n % 10)

DeviceLess(d, e) == LexLess(d.DeviceId, e.DeviceId)

\* One step of Go's insertion sort (sort.Slice on fewer than 13 elements):
\* the new element is swapped down while it is less than its predecessor,
\* so elements with equal keys keep their order.
RECURSIVE InsertSorted(_, _)
InsertSorted(s, x) ==
    IF s = <<>> \/ ~DeviceLess(x, Last(s)) THEN Append(s, x)
    ELSE Append(InsertSorted(Front(s), x), Last(s))


SortDevices(devs) == FoldLeft(InsertSorted, <<>>, devs)

\* serverMap[id]: the devices of every contribution with that server id,
\* appended in the order of the contributions.
ServerMap(contribs) ==
    [sid \in {contribs[i].ServerId : i \in DOMAIN contribs} |->
        FlattenSeq([i \in DOMAIN SelectSeq(contribs, LAMBDA c : c.ServerId = sid)
                      |-> SelectSeq(contribs, LAMBDA c : c.ServerId = sid)[i].Devices])]

\* Variant of the loop below: the counter restarted for every server.
RECURSIVE RankServersPerServer(_, _, _)
RankServersPerServer(serverMap, sids, globalRankId) ==
    IF sids = <<>> THEN <<>>
    ELSE LET devs == SortDevices(serverMap[Head(sids)])
             info == [ServerId |-> Head(sids),
                      Devices  |-> [i \in DOMAIN devs |->
                                      [DeviceId |-> devs[i].DeviceId,
                                       DeviceIp |-> devs[i].DeviceIp,
                                       RankId   |-> Itoa(globalRankId + i - 1)]]]
         IN <<info>> \o RankServersPerServer(serverMap, Tail(sids), 0)

\* The loop over the sorted server ids: globalRankId is carried across
\* servers and incremented once per device.
RECURSIVE RankServers(_, _, _)
RankServers(serverMap, sids, globalRankId) ==
    IF sids = <<>> THEN <<>>
    ELSE LET sid  == Head(sids)
             devs == SortDevices(serverMap[sid])
             info == [ServerId |-> sid,
                      Devices  |-> [i \in DOMAIN devs |->
                                      [DeviceId |-> devs[i].DeviceId,
                                       DeviceIp |-> devs[i].DeviceIp,
                                       RankId   |-> Itoa(globalRankId + i - 1)]]]
         IN <<info>> \o RankServers(serverMap, Tail(sids), globalRankId + Len(devs))

BuildRanktableTemplateData(status, contribs) ==
    LET serverMap == ServerMap(contribs)
        servers   == RankServers(serverMap,
                                 SetToSortSeq(DOMAIN serverMap, LexLess), 0)
    IN [Status       |-> status,
        ServerCount  |-> Len(servers),
        TotalDevices |-> FoldLeft(LAMBDA n, s : n + Len(s.Devices), 0, servers),
        Servers      |-> servers]

=============================================================================
