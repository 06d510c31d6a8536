------------------------- MODULE RanktableAggregator -------------------------
(***************************************************************************)
(* One call of BuildRanktableTemplateData on a list of pod contributions,  *)
(* checked against a reference definition of the rank table written from  *)
(* the contract of the aggregator (spec section 4.3): servers in           *)
(* lexicographic order, devices of a server in lexicographic device-id     *)
(* order, rank = number of (server, device) pairs before it.               *)
(***************************************************************************)
EXTENDS RanktableBuild, FiniteSets

CONSTANTS
    Contributions,  \* the PodRanktableData values a pod may report
    MaxPods,        \* the longest pod list handed to the aggregator
    Statuses        \* the status strings the caller passes through

VARIABLES
    input,          \* the pod contributions, in pod-list order
    status,         \* the status argument
    table           \* the RanktableTemplateData returned, or NoTable

vars == <<input, status, table>>

NoTable == [none |-> TRUE]

Inputs == UNION {[1..n -> Contributions] : n \in 0..MaxPods}

\* Every (server id, device id) pair is reported by one device only.
KeysUnique(contribs) ==
    \A i, j \in DOMAIN contribs :
        \A k \in DOMAIN contribs[i].Devices, l \in DOMAIN contribs[j].Devices :
            /\ contribs[i].ServerId = contribs[j].ServerId
            /\ contribs[i].Devices[k].DeviceId = contribs[j].Devices[l].DeviceId
            => <<i, k>> = <<j, l>>

Init ==
    /\ input \in Inputs
    /\ status \in Statuses
    /\ table = NoTable

Build ==
    /\ table = NoTable
    /\ table' = BuildRanktableTemplateData(status, input)
    /\ UNCHANGED <<input, status>>

Next == Build

Spec == Init /\ [][Next]_vars

-----------------------------------------------------------------------------
(* Reference rank table.                                                   *)

Pairs(contribs) ==
    UNION {{[sid |-> contribs[i].ServerId, dev |-> d] : d \in ToSet(contribs[i].Devices)} :
               i \in DOMAIN contribs}

PairBefore(p, q) ==
    \/ LexLess(p.sid, q.sid)
    \/ p.sid = q.sid /\ LexLess(p.dev.DeviceId, q.dev.DeviceId)

ReferenceTable(st, contribs) ==
    LET pairs == Pairs(contribs)
        sids  == SetToSortSeq({contribs[i].ServerId : i \in DOMAIN contribs}, LexLess)
        Rank(p) == Cardinality({q \in pairs : PairBefore(q, p)})
        Row(sid) ==
            LET ds == SetToSortSeq({p \in pairs : p.sid = sid},
                                   LAMBDA p, q : PairBefore(p, q))
            IN [j \in DOMAIN ds |-> [DeviceId |-> ds[j].dev.DeviceId,
                                     DeviceIp |-> ds[j].dev.DeviceIp,
                                     RankId   |-> Itoa(Rank(ds[j]))]]
    IN [Status       |-> st,
        ServerCount  |-> Len(sids),
        TotalDevices |-> Cardinality(pairs),
        Servers      |-> [i \in DOMAIN sids |-> [ServerId |-> sids[i],
                                                 Devices  |-> Row(sids[i])]]]

(***************************************************************************)
(* When no two devices share a (server id, device id), the rank table the  *)
(* code builds is the reference table: one entry per distinct server id in *)
(* lexicographic order (pods on the same server merged), devices in        *)
(* lexicographic device-id order, rank ids the dense decimal sequence      *)
(* 0..N-1 with one global counter, ServerCount and TotalDevices the        *)
(* counts.  The reference depends only on the set of (server, device)      *)
(* pairs, and the inputs include every order of each pod list, so this     *)
(* also states that the table does not depend on the pod-list order (spec  *)
(* section 8).                                                             *)
(***************************************************************************)
MatchesReference ==
    table # NoTable /\ KeysUnique(input) => table = ReferenceTable(status, input)

=============================================================================
