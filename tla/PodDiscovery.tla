---------------------------- MODULE PodDiscovery ----------------------------
(***************************************************************************)
(* The pod discovery plugin (plugins/pod_discovery.go) on one serving      *)
(* group: its pods and the "<group>-discovery" ConfigMap that maps every   *)
(* role to the sorted IPs of its running pods.                             *)
(*                                                                         *)
(* OnPodReady wraps one list / Get / Create-or-Update cycle in             *)
(* wait.PollImmediate(100ms, 5s): AlreadyExists and Conflict return        *)
(* (false, nil) and the whole cycle runs again; any other error ends the   *)
(* poll with that error; after 5 s the poll ends with ErrWaitTimeout.  A   *)
(* hook that returns an error is re-run by the orchestrator (spec 7).      *)
(***************************************************************************)
EXTENDS RanktableBuild, FiniteSets

CONSTANTS
    Pods,         \* the pods of the serving group (the GroupNameLabelKey selector)
    Role,         \* Role[p]: utils.PodRoleName(pod), "" when unlabelled
    IPs,          \* the pod IPs the cluster may assign, as byte sequences
    Concurrent,   \* whether hooks of different pods may interleave
    MaxAttempts,  \* condition calls PollImmediate makes before its timeout
    MaxRestarts,  \* bound on pod deletions
    MaxFaults     \* bound on store calls failing with a non-retried error

NoIP == <<>>   \* pod.Status.PodIP == ""

VARIABLES
    pod,        \* pod[p]: [phase, deleting, ip] as the pod list returns it
    cm,         \* the discovery ConfigMap: [exists, version, data]
    hook,       \* hook[p]: the OnPodReady invocation for p
    restarts,   \* pod deletions so far
    faults      \* failed store calls so far

vars == <<pod, cm, hook, restarts, faults>>

NoData == [none |-> TRUE]

\* Hook program counters: "idle" nothing queued; "list" the next condition
\* call (queued, re-queued, or the next poll); "get", "create", "update"
\* the store calls; "retry" the condition returned (false, nil).
Idle == [pc |-> "idle", content |-> NoData, readVersion |-> 0, attempts |-> 0]

Active(p) ==
    \/ hook[p].pc \in {"get", "create", "update", "retry"}
    \/ hook[p].pc = "list" /\ hook[p].attempts > 0

-----------------------------------------------------------------------------
(* Step 2 of the condition: group the IPs of running pods by role and     *)
(* sort each list (sort.Strings); json.Marshal is injective on the map.   *)

ListedIP(p) ==
    /\ pod[p].phase = "Running"
    /\ pod[p].ip # NoIP
    /\ Role[p] # ""

RoleIPs ==
    LET listed == {p \in Pods : ListedIP(p)}
    IN [r \in {Role[p] : p \in listed} |->
          SetToSortSeq({pod[p].ip : p \in {q \in listed : Role[q] = r}}, LexLess)]

-----------------------------------------------------------------------------
(* Orchestrator and kubelet (modelled from the spec).                      *)

\* OnPodCreate only adds the optional volume and mounts and returns nil;
\* the pod is created.
CreatePod(p) ==
    /\ pod[p].phase = "Absent"
    /\ pod' = [pod EXCEPT ![p].phase = "Pending"]
    /\ UNCHANGED <<cm, hook, restarts, faults>>

FreeIPs == IPs \ {pod[q].ip : q \in Pods}

\* The pod runs with a fresh IP; the orchestrator queues OnPodReady.
PodRunning(p) ==
    /\ pod[p].phase = "Pending"
    /\ ~pod[p].deleting
    /\ hook[p].pc = "idle"
    /\ \E ip \in FreeIPs : pod' = [pod EXCEPT ![p].phase = "Running", ![p].ip = ip]
    /\ hook' = [hook EXCEPT ![p] = [Idle EXCEPT !.pc = "list"]]
    /\ UNCHANGED <<cm, restarts, faults>>

DeletePod(p) ==
    /\ pod[p].phase # "Absent"
    /\ ~pod[p].deleting
    /\ restarts < MaxRestarts
    /\ pod' = [pod EXCEPT ![p].deleting = TRUE]
    /\ restarts' = restarts + 1
    /\ UNCHANGED <<cm, hook, faults>>

PodGone(p) ==
    /\ pod[p].deleting
    /\ pod' = [pod EXCEPT ![p] = [phase |-> "Absent", deleting |-> FALSE, ip |-> NoIP]]
    /\ UNCHANGED <<cm, hook, restarts, faults>>

\* The hook returned an error: the orchestrator runs it again.
Requeue(p) == [Idle EXCEPT !.pc = "list"]

-----------------------------------------------------------------------------
(* The condition of PollImmediate, one action per store call.              *)

MayStart(p) == Concurrent \/ \A q \in Pods \ {p} : ~Active(q)

\* Steps 1 and 2: list the pods of the group and render the role map.
List(p) ==
    /\ hook[p].pc = "list"
    /\ hook[p].attempts > 0 \/ MayStart(p)
    /\ hook' = [hook EXCEPT ![p].pc = "get", ![p].content = RoleIPs]
    /\ UNCHANGED <<pod, cm, restarts, faults>>

\* Variant: a ConfigMap that exists is left as it is.
GetSkipUpdate(p) ==
    /\ hook[p].pc = "get"
    /\ \/ ~cm.exists /\ hook' = [hook EXCEPT ![p].pc = "create"]
       \/ cm.exists /\ hook' = [hook EXCEPT ![p] = Idle]
    /\ UNCHANGED <<pod, cm, restarts, faults>>

\* Step 3: Get; NotFound leads to Create, equal content to (true, nil).
Get(p) ==
    /\ hook[p].pc = "get"
    /\ \/ ~cm.exists /\ hook' = [hook EXCEPT ![p].pc = "create"]
       \/ cm.exists /\ cm.data = hook[p].content /\ hook' = [hook EXCEPT ![p] = Idle]
       \/ /\ cm.exists /\ cm.data # hook[p].content
          /\ hook' = [hook EXCEPT ![p].pc = "update", ![p].readVersion = cm.version]
    /\ UNCHANGED <<pod, cm, restarts, faults>>

\* Create; AlreadyExists is (false, nil).
Create(p) ==
    /\ hook[p].pc = "create"
    /\ IF cm.exists
       THEN /\ hook' = [hook EXCEPT ![p].pc = "retry"]
            /\ UNCHANGED cm
       ELSE /\ cm' = [exists |-> TRUE, version |-> cm.version + 1, data |-> hook[p].content]
            /\ hook' = [hook EXCEPT ![p] = Idle]
    /\ UNCHANGED <<pod, restarts, faults>>

\* Variant: on Conflict the Update alone is sent again, as it was.
UpdateRetryWrite(p) ==
    /\ hook[p].pc = "update"
    /\ IF cm.version = hook[p].readVersion
       THEN /\ cm' = [cm EXCEPT !.version = @ + 1, !.data = hook[p].content]
            /\ hook' = [hook EXCEPT ![p] = Idle]
       ELSE UNCHANGED <<cm, hook>>
    /\ UNCHANGED <<pod, restarts, faults>>

\* Step 4: Update with the resourceVersion Get returned; Conflict is
\* (false, nil).
Update(p) ==
    /\ hook[p].pc = "update"
    /\ IF cm.version = hook[p].readVersion
       THEN /\ cm' = [cm EXCEPT !.version = @ + 1, !.data = hook[p].content]
            /\ hook' = [hook EXCEPT ![p] = Idle]
       ELSE /\ hook' = [hook EXCEPT ![p].pc = "retry"]
            /\ UNCHANGED cm
    /\ UNCHANGED <<pod, restarts, faults>>

\* Variant: a failed store call is logged and the hook returns nil.
StoreErrorIgnored(p) ==
    /\ hook[p].pc \in {"list", "get", "create", "update"}
    /\ Active(p) \/ MayStart(p)
    /\ faults < MaxFaults
    /\ hook' = [hook EXCEPT ![p] = Idle]
    /\ faults' = faults + 1
    /\ UNCHANGED <<pod, cm, restarts>>

\* List, Get, Create or Update fails with another error: the condition
\* returns (false, err), the poll ends, and the hook returns the error.
StoreError(p) ==
    /\ hook[p].pc \in {"list", "get", "create", "update"}
    /\ Active(p) \/ MayStart(p)
    /\ faults < MaxFaults
    /\ hook' = [hook EXCEPT ![p] = Requeue(p)]
    /\ faults' = faults + 1
    /\ UNCHANGED <<pod, cm, restarts>>

\* Variant: the poll never times out.
PollNextUnbounded(p) ==
    /\ hook[p].pc = "retry"
    /\ hook' = [hook EXCEPT ![p].pc = "list", ![p].attempts = @ + 1]
    /\ UNCHANGED <<pod, cm, restarts, faults>>

\* The interval elapsed within the timeout: the condition runs again.
PollNext(p) ==
    /\ hook[p].pc = "retry"
    /\ hook[p].attempts + 1 < MaxAttempts
    /\ hook' = [hook EXCEPT ![p].pc = "list", ![p].attempts = @ + 1]
    /\ UNCHANGED <<pod, cm, restarts, faults>>

\* The 5 s elapsed (after any slow attempt, at the latest after
\* MaxAttempts): ErrWaitTimeout, returned as the hook's error.
PollTimeout(p) ==
    /\ hook[p].pc = "retry"
    /\ hook' = [hook EXCEPT ![p] = Requeue(p)]
    /\ UNCHANGED <<pod, cm, restarts, faults>>

-----------------------------------------------------------------------------

Init ==
    /\ pod = [p \in Pods |-> [phase |-> "Absent", deleting |-> FALSE, ip |-> NoIP]]
    /\ cm = [exists |-> FALSE, version |-> 0, data |-> NoData]
    /\ hook = [p \in Pods |-> Idle]
    /\ restarts = 0
    /\ faults = 0

Orchestrator(p) ==
    CreatePod(p) \/ PodRunning(p) \/ DeletePod(p) \/ PodGone(p)

HookStep(p) ==
    \/ List(p) \/ Get(p) \/ Create(p) \/ Update(p)
    \/ StoreError(p) \/ PollNext(p) \/ PollTimeout(p)

Next == \E p \in Pods : Orchestrator(p) \/ HookStep(p)

\* Workers keep running queued hooks and the orchestrator keeps the pods
\* of the group created; kubelet and deletions are not assumed.
Fairness ==
    \A p \in Pods : WF_vars(HookStep(p)) /\ WF_vars(CreatePod(p)) /\ WF_vars(PodGone(p))

Spec == Init /\ [][Next]_vars /\ Fairness

-----------------------------------------------------------------------------
(* Properties.                                                             *)

TypeOK ==
    /\ pod \in [Pods -> [phase : {"Absent", "Pending", "Running"},
                         deleting : BOOLEAN, ip : IPs \cup {NoIP}]]
    /\ cm.exists \in BOOLEAN /\ cm.version \in Nat
    /\ \A p \in Pods : /\ hook[p].pc \in {"idle", "list", "get", "create", "update", "retry"}
                       /\ hook[p].attempts \in 0..(MaxAttempts - 1)
    /\ restarts \in 0..MaxRestarts /\ faults \in 0..MaxFaults

\* Every pod runs, none is being deleted, and no hook is queued or running.
Settled ==
    \A p \in Pods : /\ pod[p].phase = "Running"
                    /\ ~pod[p].deleting
                    /\ hook[p].pc = "idle"

(***************************************************************************)
(* Once every pod runs and every OnPodReady has returned, the discovery    *)
(* ConfigMap holds the IPs of exactly the running pods, by role: the last  *)
(* write was rendered from a pod list no older than the last pod change,   *)
(* whatever store errors, AlreadyExists or Conflicts happened on the way.  *)
(***************************************************************************)
SettledIPsCurrent ==
    Settled => cm.exists /\ cm.data = RoleIPs

AllRunning == \A p \in Pods : pod[p].phase = "Running" /\ ~pod[p].deleting

(***************************************************************************)
(* If from some point on every pod runs, the discovery ConfigMap          *)
(* eventually lists their current IPs for good: a store error or a poll   *)
(* timeout returns an error that makes the orchestrator re-run the hook,  *)
(* rather than leaving an older IP list behind.                            *)
(***************************************************************************)
EventuallyCurrent ==
    <>[]AllRunning => <>[](cm.exists /\ cm.data = RoleIPs)

(***************************************************************************)
(* Every queued OnPodReady eventually returns nil: AlreadyExists and      *)
(* Conflict re-run the whole cycle with a fresh list and Get, and the     *)
(* PollImmediate timeout hands a starved hook back to the orchestrator,    *)
(* so hooks of the group cannot keep failing each other.                  *)
(***************************************************************************)
HooksTerminate ==
    \A p \in Pods : hook[p].pc = "list" ~> hook[p].pc = "idle"

=============================================================================
