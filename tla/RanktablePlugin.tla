--------------------------- MODULE RanktablePlugin ---------------------------
(***************************************************************************)
(* The ranktable plugin (ranktable/plugin.go) on one ranktable scope: one  *)
(* role instance (level "role") or one serving group (level "group"), its  *)
(* pods, and the ConfigMap holding the rendered ranktable.                 *)
(*                                                                         *)
(* Each hook invocation runs as a sequence of steps, one per call to the   *)
(* backing store: render/list, Get, then Create or Update.  Between the    *)
(* steps other hooks and the pods may change state.  The orchestrator      *)
(* that calls the hooks (not in this repository) is modelled from the      *)
(* spec: it runs OnPodCreate before creating a pod, OnPodReady when a pod  *)
(* becomes running, and re-runs a hook that returned an error.             *)
(*                                                                         *)
(* Every hook resolves the level afresh (template ConfigMap, then the      *)
(* workload's annotation), and the level names the ConfigMap: one per role *)
(* instance, or one per serving group.  The scope's pods are taken to be   *)
(* the whole group, so both names select the same pods.                    *)
(***************************************************************************)
EXTENDS RanktableBuild, FiniteSets

CONSTANTS
    Pods,           \* the pods of the scope (the label selector of OnPodReady)
    TemplateLevel,  \* "ranktable-level" of the template ConfigMap, initially
    LevelOverride,  \* the kthena.io/ranktable-level annotation, initially, or "none"
    MaxLevelEdits,  \* bound on edits of the template level or the annotation
    WorkerReplicas, \* WorkerReplicas of the role in ms.Spec.Template.Roles
    RoleFound,      \* whether req.RoleName is among ms.Spec.Template.Roles
    Contribution,   \* Contribution[p]: what ParsePodRanktable yields for p
    Concurrent,     \* whether hooks of different pods may interleave
    MaxRestarts,    \* bound on pod deletions
    MaxFaults,      \* bound on store calls failing with another error
    EmptyOutput,    \* whether the parser template renders nothing for some
                    \* annotation (as `{{- $data := . | fromJson -}}` does)
    DeleteFaults,   \* whether the List and Delete calls of the delete hooks
                    \* may fail too (within MaxFaults)
    RendersTimestamp, \* whether the ranktable template renders .Timestamp
    MaxTime         \* bound on the seconds the clock advances

\* GetRanktableTemplate rejects any other level; every hook then fails.
ASSUME TemplateLevel \in {"role", "group"}
ASSUME RoleFound \in BOOLEAN /\ Concurrent \in BOOLEAN /\ EmptyOutput \in BOOLEAN
ASSUME DeleteFaults \in BOOLEAN /\ RendersTimestamp \in BOOLEAN

Initializing == "Initializing"
Completed    == "Completed"

\* The annotation a running pod carries: parsable; missing or malformed
\* (both make the pass not ready); or one the parser template turns into
\* empty output, which yaml.Unmarshal accepts.
Annotations == {"valid", "invalid"} \cup (IF EmptyOutput THEN {"empty"} ELSE {})

VARIABLES
    pod,        \* pod[p]: [phase, deleting, ann] as the pod lister sees it
    cm,         \* the ranktable ConfigMap: [exists, version, data]
    hook,       \* hook[p]: the hook invocation the orchestrator runs for p
    restarts,   \* number of pod deletions so far
    del,        \* the deletion of the scope: [requested, kind, pc, listed]
    faults,     \* failed store calls so far
    tmplLevel,  \* "ranktable-level" of the template ConfigMap, or "missing"
    override,   \* the level annotation of the workload, or "none"
    edits,      \* edits of either so far
    now         \* the wall clock, in the seconds RFC3339 resolves

conf == <<tmplLevel, override, edits, now>>
vars == <<pod, cm, hook, restarts, del, faults, conf>>

\* The level a hook resolves: the annotation overrides the template's
\* level when it names a valid one.
Level == IF override \in {"role", "group"} THEN override ELSE tmplLevel

\* GetRanktableTemplate finds the template and parser ConfigMaps and a
\* valid level in the template; otherwise every hook that calls it fails.
TemplateFound == tmplLevel \in {"role", "group"}

\* The ConfigMap names, by the level that chooses them:
\* <ms>-<group>-<roleID>-ranktable and <ms>-<group>-ranktable.
Names == {"role", "group"}

NoData == [none |-> TRUE]

\* Hook program counters: "idle" nothing queued; "start" queued or
\* re-queued after an error; "get" content rendered, next Get; "create"
\* and "update" the write; "done" OnPodCreate returned nil, pod not yet
\* created.  name is the ConfigMap the invocation resolved, stamp the
\* Timestamp it rendered.
\* ret is what the last EnsureRanktableConfigMap returned ("nil", "err"),
\* or "none" once the orchestrator has acted on it.
Idle == [kind |-> "none", pc |-> "idle", name |-> "none", content |-> NoData,
         stamp |-> 0, readVersion |-> 0, ret |-> "none"]

\* Inside a call of EnsureRanktableConfigMap.
Active(p) == hook[p].pc \in {"get", "create", "update"}

\* time.Now().Format(time.RFC3339) as the rendered text shows it.
Stamp == IF RendersTimestamp THEN now ELSE 0

-----------------------------------------------------------------------------
(* The readiness evaluation and aggregation of OnPodReady.                 *)

Listed == {p \in Pods : pod[p].phase # "Absent"}

ActivePods == {p \in Listed : ~pod[p].deleting}

\* ParsePodRanktable succeeds unless the annotation is missing or malformed.
Parses(p) == pod[p].phase = "Running" /\ pod[p].ann # "invalid"

AllReady == \A p \in ActivePods : Parses(p)

ParsedPods == {p \in ActivePods : Parses(p)}

\* yaml.Unmarshal of an empty parser output: the zero PodRanktableData.
ZeroData == [ServerId |-> <<>>, Devices |-> <<>>]

\* The contributions of the pods S, in one list order, where the parser
\* output of the pods E was empty.
PodsData(S, E) ==
    [i \in 1..Cardinality(S) |->
        IF SetToSeq(S)[i] \in E THEN ZeroData ELSE Contribution[SetToSeq(S)[i]]]

\* Variants of the role replica check: the entry pod left out of the
\* expected count, and a strict comparison.
EnoughActiveOffByOne ==
    Level = "role" /\ RoleFound => Cardinality(ActivePods) >= WorkerReplicas

EnoughActiveStrict ==
    Level = "role" /\ RoleFound => Cardinality(ActivePods) > 1 + WorkerReplicas

EnoughActive ==
    Level = "role" /\ RoleFound => Cardinality(ActivePods) >= 1 + WorkerReplicas

\* The content OnPodReady renders from the current pod list.  The pod list
\* order does not matter (RanktableAggregator shows the table is
\* independent of it when device keys are unique), so one order is taken.
\* Tabled once for every pair of pod sets: a constant, which TLC evaluates
\* once; @@ makes it a table rather than a function recomputed per use.
CompletedTable ==
    [x \in (SUBSET Pods) \X (SUBSET Pods) |-> BuildRanktableTemplateData(Completed, PodsData(x[1], x[2]))]
        @@ [x \in {} |-> NoData]

CompletedContent(S, E) == CompletedTable[<<S, E>>]

InitialContent == BuildRanktableTemplateData(Initializing, <<>>)

ReadyContent ==
    IF AllReady /\ ParsedPods # {} /\ EnoughActive
    THEN CompletedContent(ParsedPods, {p \in ParsedPods : pod[p].ann = "empty"})
    ELSE InitialContent

-----------------------------------------------------------------------------
(* Orchestrator and kubelet (modelled from the spec).                      *)

\* The orchestrator decides to create pod p and first runs OnPodCreate.
RequestCreate(p) ==
    /\ ~del.requested
    /\ pod[p].phase = "Absent"
    /\ hook[p].pc = "idle"
    /\ hook' = [hook EXCEPT ![p] = [Idle EXCEPT !.kind = "create", !.pc = "start"]]
    /\ UNCHANGED <<pod, cm, restarts, del, faults, conf>>

\* OnPodCreate returned nil: the pod is created with the volume it
\* injected, which names the ConfigMap that OnPodCreate resolved.
CreatePod(p) ==
    /\ ~del.requested
    /\ hook[p].pc = "done"
    /\ pod' = [pod EXCEPT ![p] = [phase |-> "Pending", deleting |-> FALSE, ann |-> "valid",
                                  mount |-> hook[p].name]]
    /\ hook' = [hook EXCEPT ![p] = Idle]
    /\ UNCHANGED <<cm, restarts, del, faults, conf>>

\* The pod starts running with the annotation the device plugin wrote;
\* the orchestrator queues OnPodReady.
PodRunning(p) ==
    /\ pod[p].phase = "Pending"
    /\ ~pod[p].deleting
    /\ hook[p].pc = "idle"
    /\ \E a \in Annotations :
          pod' = [pod EXCEPT ![p] = [@ EXCEPT !.phase = "Running", !.ann = a]]
    /\ hook' = [hook EXCEPT ![p] = [Idle EXCEPT !.kind = "ready", !.pc = "start"]]
    /\ UNCHANGED <<cm, restarts, del, faults, conf>>

\* The pod gets a DeletionTimestamp.
DeletePod(p) ==
    /\ pod[p].phase # "Absent"
    /\ ~pod[p].deleting
    /\ restarts < MaxRestarts
    /\ pod' = [pod EXCEPT ![p].deleting = TRUE]
    /\ restarts' = restarts + 1
    /\ UNCHANGED <<cm, hook, del, faults, conf>>

NoPod == [phase |-> "Absent", deleting |-> FALSE, ann |-> "valid", mount |-> "none"]

PodGone(p) ==
    /\ pod[p].deleting
    /\ pod' = [pod EXCEPT ![p] = NoPod]
    /\ UNCHANGED <<cm, hook, restarts, del, faults, conf>>

\* A user edits the template's level or the workload's level annotation.
EditLevel ==
    /\ edits < MaxLevelEdits
    /\ \E t \in {"role", "group", "missing"}, o \in {"none", "role", "group"} :
          /\ <<t, o>> # <<tmplLevel, override>>
          /\ tmplLevel' = t
          /\ override' = o
    /\ edits' = edits + 1
    /\ UNCHANGED <<pod, cm, hook, restarts, del, faults, now>>

-----------------------------------------------------------------------------
(* Hook steps (plugin.go, template.go).                                    *)

\* Hooks of different pods interleave only in the concurrent configuration.
MayStart(p) == Concurrent \/ \A q \in Pods \ {p} : ~Active(q)

\* OnPodCreate up to EnsureRanktableConfigMap: resolve the template and
\* render the Initializing ranktable with no pods.
RenderInitial(p) ==
    /\ hook[p].kind = "create"
    /\ hook[p].pc = "start"
    /\ MayStart(p)
    /\ TemplateFound
    /\ hook' = [hook EXCEPT ![p].pc = "get", ![p].name = Level, ![p].content = InitialContent,
                            ![p].stamp = Stamp]
    /\ UNCHANGED <<pod, cm, restarts, del, faults, conf>>

\* OnPodReady up to EnsureRanktableConfigMap: list the pods of the scope,
\* evaluate readiness, aggregate and render.
ComputeReady(p) ==
    /\ hook[p].kind = "ready"
    /\ hook[p].pc = "start"
    /\ MayStart(p)
    /\ TemplateFound
    /\ hook' = [hook EXCEPT ![p].pc = "get", ![p].name = Level, ![p].content = ReadyContent,
                            ![p].stamp = Stamp]
    /\ UNCHANGED <<pod, cm, restarts, del, faults, conf>>

\* EnsureRanktableConfigMap returned nil: OnPodCreate injects the volume
\* and returns nil, OnPodReady returns nil.
Succeed(p) ==
    IF hook[p].kind = "create" THEN [hook[p] EXCEPT !.pc = "done", !.ret = "nil"]
    ELSE [Idle EXCEPT !.ret = "nil"]

\* The hook returned an error; the orchestrator runs it again from the top.
\* Once the scope is being deleted it is dropped instead.
Requeue(p) ==
    IF del.requested THEN [Idle EXCEPT !.ret = "err"]
    ELSE [Idle EXCEPT !.kind = hook[p].kind, !.pc = "start", !.ret = "err"]

\* GetRanktableTemplate fails: OnPodCreate or OnPodReady returns the error
\* before any store call.
TemplateMissing(p) ==
    /\ hook[p].kind \in {"create", "ready"}
    /\ hook[p].pc = "start"
    /\ MayStart(p)
    /\ ~TemplateFound
    /\ hook' = [hook EXCEPT ![p] = Requeue(p)]
    /\ UNCHANGED <<pod, cm, restarts, del, faults, conf>>

\* The ConfigMap the invocation of p resolved, as the store holds it.
Target(p) == cm[hook[p].name]

\* The stored text equals the rendered text: same ranktable, and the same
\* Timestamp second if the template renders it.
UpToDate(p) == Target(p).data = hook[p].content /\ Target(p).stamp = hook[p].stamp

\* Variant: an existing ConfigMap is taken as up to date ("ensure exists").
EnsureGetCreateOnly(p) ==
    /\ hook[p].pc = "get"
    /\ \/ /\ ~Target(p).exists
          /\ hook' = [hook EXCEPT ![p].pc = "create"]
       \/ /\ Target(p).exists
          /\ hook' = [hook EXCEPT ![p] = Succeed(p)]
    /\ UNCHANGED <<pod, cm, restarts, del, faults, conf>>

\* EnsureRanktableConfigMap: Get the ConfigMap.
EnsureGet(p) ==
    /\ hook[p].pc = "get"
    /\ \/ /\ ~Target(p).exists
          /\ hook' = [hook EXCEPT ![p].pc = "create"]
       \/ /\ Target(p).exists
          /\ UpToDate(p)
          /\ hook' = [hook EXCEPT ![p] = Succeed(p)]
       \/ /\ Target(p).exists
          /\ ~UpToDate(p)
          /\ hook' = [hook EXCEPT ![p].pc = "update", ![p].readVersion = Target(p).version]
    /\ UNCHANGED <<pod, cm, restarts, del, faults, conf>>

\* Variant: the ConfigMap is created empty and filled by a later update.
EnsureCreateEmpty(p) ==
    /\ hook[p].pc = "create"
    /\ IF Target(p).exists
       THEN /\ hook' = [hook EXCEPT ![p] = Requeue(p)]
            /\ UNCHANGED cm
       ELSE /\ cm' = [cm EXCEPT ![hook[p].name] =
                        [exists |-> TRUE, version |-> @.version + 1, data |-> NoData, stamp |-> 0]]
            /\ hook' = [hook EXCEPT ![p] = Succeed(p)]
    /\ UNCHANGED <<pod, restarts, del, faults, conf>>

\* Create: fails with AlreadyExists if another hook created it meanwhile.
EnsureCreate(p) ==
    /\ hook[p].pc = "create"
    /\ IF Target(p).exists
       THEN /\ hook' = [hook EXCEPT ![p] = Requeue(p)]
            /\ UNCHANGED cm
       ELSE /\ cm' = [cm EXCEPT ![hook[p].name] =
                        [exists |-> TRUE, version |-> @.version + 1, data |-> hook[p].content,
                         stamp |-> hook[p].stamp]]
            /\ hook' = [hook EXCEPT ![p] = Succeed(p)]
    /\ UNCHANGED <<pod, restarts, del, faults, conf>>

\* Variant: a failed store call is logged and the hook returns nil.
StoreErrorIgnored(p) ==
    /\ Active(p)
    /\ faults < MaxFaults
    /\ hook' = [hook EXCEPT ![p] = Succeed(p)]
    /\ faults' = faults + 1
    /\ UNCHANGED <<pod, cm, restarts, del, conf>>

\* Get, Create or Update fails with an error that is neither handled nor
\* retried (network, permission): EnsureRanktableConfigMap returns it and
\* the hook returns it to the orchestrator.
StoreError(p) ==
    /\ Active(p)
    /\ faults < MaxFaults
    /\ hook' = [hook EXCEPT ![p] = Requeue(p)]
    /\ faults' = faults + 1
    /\ UNCHANGED <<pod, cm, restarts, del, conf>>

\* The Update succeeds only if the ConfigMap still has the version Get read.
Current(p) == Target(p).exists /\ Target(p).version = hook[p].readVersion

\* Variant: the Update sends the ConfigMap as read, without the new data.
EnsureUpdateKeepData(p) ==
    /\ hook[p].pc = "update"
    /\ IF Current(p)
       THEN /\ cm' = [cm EXCEPT ![hook[p].name].version = @ + 1]
            /\ hook' = [hook EXCEPT ![p] = Succeed(p)]
       ELSE /\ hook' = [hook EXCEPT ![p] = Requeue(p)]
            /\ UNCHANGED cm
    /\ UNCHANGED <<pod, restarts, del, faults, conf>>

\* Variant: on Conflict only the Update is retried, with the version read
\* before.
EnsureUpdateRetryWrite(p) ==
    /\ hook[p].pc = "update"
    /\ IF Current(p)
       THEN /\ cm' = [cm EXCEPT ![hook[p].name].version = @ + 1,
                                ![hook[p].name].data = hook[p].content,
                                ![hook[p].name].stamp = hook[p].stamp]
            /\ hook' = [hook EXCEPT ![p] = Succeed(p)]
       ELSE UNCHANGED <<cm, hook>>
    /\ UNCHANGED <<pod, restarts, del, faults, conf>>

\* Update with the resourceVersion read by Get: fails with Conflict if the
\* ConfigMap was written since.
EnsureUpdate(p) ==
    /\ hook[p].pc = "update"
    /\ IF Current(p)
       THEN /\ cm' = [cm EXCEPT ![hook[p].name].version = @ + 1,
                                ![hook[p].name].data = hook[p].content,
                                ![hook[p].name].stamp = hook[p].stamp]
            /\ hook' = [hook EXCEPT ![p] = Succeed(p)]
       ELSE /\ hook' = [hook EXCEPT ![p] = Requeue(p)]
            /\ UNCHANGED cm
    /\ UNCHANGED <<pod, restarts, del, faults, conf>>

-----------------------------------------------------------------------------
(* Deletion of the scope.  The orchestrator marks every pod of the scope   *)
(* deleting, drops the hooks it has queued for it and runs OnRoleDelete    *)
(* (when a role instance is removed) or OnServingGroupDelete (when the     *)
(* serving group is removed); a role is deleted with its group too.        *)

NoDel == [requested |-> FALSE, kind |-> "none", pc |-> "none", listed |-> {}]

DeleteKinds == IF Level = "role" THEN {"role", "group"} ELSE {"group"}

DeleteScope ==
    /\ ~del.requested
    /\ \E k \in DeleteKinds :
          del' = [requested |-> TRUE, kind |-> k, pc |-> "start", listed |-> {}]
    /\ pod' = [p \in Pods |-> IF pod[p].phase = "Absent" THEN pod[p]
                               ELSE [pod[p] EXCEPT !.deleting = TRUE]]
    /\ hook' = [p \in Pods |-> IF hook[p].pc \in {"start", "done"} THEN Idle ELSE hook[p]]
    /\ UNCHANGED <<cm, restarts, faults, conf>>

\* A delete hook waits for running hooks in the serial configuration.
MayStartDelete == Concurrent \/ \A q \in Pods : ~Active(q)

\* The store after the ConfigMaps named N are deleted (NotFound ignored).
CmDeleted(N) == [n \in Names |-> IF n \in N THEN [cm[n] EXCEPT !.exists = FALSE, !.data = NoData, !.stamp = 0]
                                             ELSE cm[n]]

\* Variant: the level test of OnRoleDelete inverted.
RoleDeleteLevelSwapped ==
    /\ del.pc = "start"
    /\ del.kind = "role"
    /\ MayStartDelete
    /\ TemplateFound
    /\ cm' = IF Level # "role" THEN CmDeleted({"role"}) ELSE cm
    /\ del' = [del EXCEPT !.pc = "done"]
    /\ UNCHANGED <<pod, hook, restarts, faults, conf>>

\* Variant: a NotFound from Delete returned as an error, so the hook is
\* run again and again.
RoleDeleteNotFoundFails ==
    /\ del.pc = "start"
    /\ del.kind = "role"
    /\ MayStartDelete
    /\ TemplateFound
    /\ cm' = IF Level = "role" THEN CmDeleted({"role"}) ELSE cm
    /\ del' = IF Level = "role" /\ ~cm["role"].exists THEN del
              ELSE [del EXCEPT !.pc = "done"]
    /\ UNCHANGED <<pod, hook, restarts, faults, conf>>

\* OnRoleDelete: resolve the template (while it is missing the hook fails
\* before any store call, and is run again: no step); only at role level,
\* delete the ConfigMap by its name; NotFound is ignored.
RoleDelete ==
    /\ del.pc = "start"
    /\ del.kind = "role"
    /\ MayStartDelete
    /\ TemplateFound
    /\ cm' = IF Level = "role" THEN CmDeleted({"role"}) ELSE cm
    /\ del' = [del EXCEPT !.pc = "done"]
    /\ UNCHANGED <<pod, hook, restarts, faults, conf>>

\* OnServingGroupDelete: list the ConfigMaps carrying the group label, the
\* role-level and the group-level ones alike.
GroupDeleteList ==
    /\ del.pc = "start"
    /\ del.kind = "group"
    /\ MayStartDelete
    /\ del' = [del EXCEPT !.pc = "delete", !.listed = {n \in Names : cm[n].exists}]
    /\ UNCHANGED <<pod, cm, hook, restarts, faults, conf>>

\* ... and delete each listed one; errors are logged and dropped.
GroupDeleteEach ==
    /\ del.pc = "delete"
    /\ cm' = CmDeleted(del.listed)
    /\ del' = [del EXCEPT !.pc = "done"]
    /\ UNCHANGED <<pod, hook, restarts, faults, conf>>

\* The Delete of OnRoleDelete, or the List of OnServingGroupDelete, fails:
\* the hook returns the error and the orchestrator runs it again.
DeleteError ==
    /\ del.pc = "start"
    /\ del.kind = "group" \/ (TemplateFound /\ Level = "role")
    /\ MayStartDelete
    /\ DeleteFaults /\ faults < MaxFaults
    /\ faults' = faults + 1
    /\ UNCHANGED <<pod, cm, hook, restarts, del, conf>>

\* A Delete of OnServingGroupDelete fails: the error is logged, the other
\* listed ConfigMaps are deleted, and the hook returns nil.
GroupDeleteFails ==
    /\ del.pc = "delete"
    /\ DeleteFaults /\ faults < MaxFaults
    /\ \E n \in del.listed : cm' = CmDeleted(del.listed \ {n})
    /\ del' = [del EXCEPT !.pc = "done"]
    /\ faults' = faults + 1
    /\ UNCHANGED <<pod, hook, restarts, conf>>

DeleteStep == RoleDelete \/ GroupDeleteList \/ GroupDeleteEach

-----------------------------------------------------------------------------

Init ==
    /\ pod = [p \in Pods |-> NoPod]
    /\ cm = [n \in Names |-> [exists |-> FALSE, version |-> 0, data |-> NoData, stamp |-> 0]]
    /\ hook = [p \in Pods |-> Idle]
    /\ restarts = 0
    /\ del = NoDel
    /\ faults = 0
    /\ tmplLevel = TemplateLevel
    /\ override = LevelOverride
    /\ edits = 0
    /\ now = 0

\* The clock advances one second.
Tick ==
    /\ now < MaxTime
    /\ now' = now + 1
    /\ UNCHANGED <<pod, cm, hook, restarts, del, faults, tmplLevel, override, edits>>

Orchestrator(p) ==
    \/ RequestCreate(p) \/ CreatePod(p) \/ PodRunning(p)
    \/ DeletePod(p) \/ PodGone(p)

HookStep(p) ==
    \/ RenderInitial(p) \/ ComputeReady(p)
    \/ EnsureGet(p) \/ EnsureCreate(p) \/ EnsureUpdate(p)
    \/ StoreError(p) \/ TemplateMissing(p)

Next ==
    \/ \E p \in Pods : Orchestrator(p) \/ HookStep(p)
    \/ DeleteScope
    \/ DeleteStep \/ DeleteError \/ GroupDeleteFails
    \/ EditLevel \/ Tick

\* The orchestrator's steps for one pod that it is bound to take: start
\* OnPodCreate for a missing pod, create the pod once it returned nil,
\* remove a deleted pod.  At most one of them is enabled at a time (the
\* pod is absent, or its OnPodCreate is done, or it is deleting).
Reconcile(p) == RequestCreate(p) \/ CreatePod(p) \/ PodGone(p)

\* The controller's workers keep processing queued hooks, and the
\* orchestrator keeps creating the pods the workload declares.  Kubelet
\* (PodRunning) and deletions are not assumed to happen.
Fairness ==
    /\ \A p \in Pods : WF_vars(HookStep(p)) /\ WF_vars(Reconcile(p))
    /\ WF_vars(DeleteStep)

Spec == Init /\ [][Next]_vars /\ Fairness


-----------------------------------------------------------------------------
(* Properties.                                                             *)

Phases == {"Absent", "Pending", "Running"}
PCs == {"idle", "start", "get", "create", "update", "done"}

TypeOK ==
    /\ pod \in [Pods -> [phase : Phases, deleting : BOOLEAN, ann : Annotations,
                         mount : Names \cup {"none"}]]
    /\ \A n \in Names :
          /\ cm[n].exists \in BOOLEAN /\ cm[n].version \in Nat /\ cm[n].stamp \in 0..MaxTime
          /\ cm[n].exists => /\ DOMAIN cm[n].data = {"Status", "ServerCount", "TotalDevices", "Servers"}
                             /\ cm[n].data.Status \in {Initializing, Completed}
    /\ \A p \in Pods : /\ hook[p].kind \in {"none", "create", "ready"}
                       /\ hook[p].pc \in PCs
                       /\ hook[p].name \in Names \cup {"none"}
                       /\ hook[p].readVersion \in Nat
    /\ restarts \in 0..MaxRestarts /\ faults \in 0..MaxFaults
    /\ del.kind \in {"none", "role", "group"}
    /\ del.pc \in {"none", "start", "delete", "done"}
    /\ del.listed \subseteq Names
    /\ tmplLevel \in {"role", "group", "missing"} /\ edits \in 0..MaxLevelEdits
    /\ now \in 0..MaxTime

\* The pods a ranktable lists: those whose server appears in it.
ListedIn(data) ==
    {p \in Pods : \E i \in DOMAIN data.Servers :
                     data.Servers[i].ServerId = Contribution[p].ServerId}

\* The pods the ConfigMap named for level n must list: 1 + WorkerReplicas
\* for a role instance, every pod of the group for a serving group.
ExpectedPods(n) == IF n = "role" THEN 1 + WorkerReplicas ELSE Cardinality(Pods)

(***************************************************************************)
(* A ConfigMap that says Completed lists at least the expected number of   *)
(* pods (the quorum) of its level, whatever pods were deleting, pending or *)
(* missing when some OnPodReady listed them (plugin.go OnPodReady          *)
(* readiness check).                                                       *)
(***************************************************************************)
CompletedHasQuorum ==
    \A n \in Names :
        cm[n].exists /\ cm[n].data.Status = Completed =>
            Cardinality(ListedIn(cm[n].data)) >= ExpectedPods(n)

\* No hook queued or running, and every pod exists and is not deleting.
Settled ==
    \A p \in Pods : /\ hook[p].pc = "idle"
                    /\ pod[p].phase # "Absent"
                    /\ ~pod[p].deleting

(***************************************************************************)
(* Once every queued hook has run and no pod is being replaced, the        *)
(* ConfigMap each pod mounts (named by its OnPodCreate) holds what         *)
(* OnPodReady would render from the current pods: "each pass recomputes   *)
(* the full document from current state, which is what makes concurrent,  *)
(* out-of-order hook invocations safe" (spec 5).                           *)
(***************************************************************************)
SettledArtifactCurrent ==
    Settled => \A p \in Pods : /\ cm[pod[p].mount].exists
                               /\ cm[pod[p].mount].data = ReadyContent

(***************************************************************************)
(* Once every pod runs and every hook has returned, every pod mounts a     *)
(* ConfigMap holding what the ConfigMap OnPodReady reconciles holds: the   *)
(* artifact "mounted back into the pods" is the one "kept up to date on    *)
(* every OnPodReady call" (spec 3), even if the level was edited after     *)
(* some pod's OnPodCreate resolved it and a later hook has written the     *)
(* ConfigMap of the new level.                                             *)
(***************************************************************************)
MountedArtifactReconciled ==
    Settled /\ (\A p \in Pods : pod[p].phase = "Running") /\ Level \in Names /\ cm[Level].exists =>
        \A p \in Pods : cm[pod[p].mount] = cm[Level]

(***************************************************************************)
(* Every pod that exists and is not being deleted mounts a ConfigMap that  *)
(* exists, so kubelet can set up its ranktable volume: OnPodCreate returns *)
(* nil only after EnsureRanktableConfigMap has written the ConfigMap it    *)
(* names in the volume, whatever store errors, concurrent hooks and level  *)
(* edits happened, and nothing but the scope's delete hooks removes it.    *)
(***************************************************************************)
MountedConfigMapExists ==
    \A p \in Pods : pod[p].phase # "Absent" /\ ~pod[p].deleting =>
        cm[pod[p].mount].exists

AllRunningValid ==
    \A p \in Pods : /\ pod[p].phase = "Running"
                    /\ ~pod[p].deleting
                    /\ pod[p].ann = "valid"

(***************************************************************************)
(* If from some point on every pod runs with a valid annotation, the       *)
(* ConfigMap every pod mounts eventually says Completed for good and lists *)
(* every pod: no earlier Initializing write by OnPodCreate or by a stale   *)
(* OnPodReady remains the last word.                                       *)
(***************************************************************************)
EventuallyCompleted ==
    <>[]AllRunningValid =>
        <>[](\A p \in Pods : /\ pod[p].mount \in Names
                             /\ LET m == cm[pod[p].mount]
                                IN m.exists /\ m.data.Status = Completed /\ ListedIn(m.data) = Pods)

(***************************************************************************)
(* Every queued hook eventually returns nil: Conflict and AlreadyExists    *)
(* re-run the whole read-modify-write, so concurrent hooks of the scope    *)
(* cannot keep failing each other forever (EnsureRanktableConfigMap).      *)
(***************************************************************************)
HooksTerminate ==
    \A p \in Pods : hook[p].pc = "start" ~> hook[p].pc \in {"idle", "done"}

(***************************************************************************)
(* After the role or serving group is deleted and its delete hook and      *)
(* every hook still in flight have returned, no ranktable ConfigMap of     *)
(* the deleted scope is left behind: the role instance's one after         *)
(* OnRoleDelete, every one of the group after OnServingGroupDelete         *)
(* (against the Create and Update of EnsureRanktableConfigMap).            *)
(***************************************************************************)
NoOrphanConfigMap ==
    del.pc = "done" /\ (\A p \in Pods : ~Active(p)) =>
        \A n \in Names : n = "role" \/ del.kind = "group" => ~cm[n].exists

(***************************************************************************)
(* Once the role or group is deleted, its delete hook eventually returns   *)
(* nil: OnRoleDelete ignores NotFound, and neither delete hook waits       *)
(* forever for the pods' hooks, which the deletion drops or lets finish.   *)
(***************************************************************************)
DeleteCompletes ==
    del.requested ~> del.pc = "done"

-----------------------------------------------------------------------------
(* EnsureRanktableConfigMap implements an atomic upsert.                   *)

\* Every content a hook can hand to EnsureRanktableConfigMap.
RenderedContents ==
    {InitialContent} \cup
    UNION {{CompletedContent(S, E) : E \in SUBSET S} : S \in SUBSET Pods \ {{}}}

\* The mapping is stated for the ConfigMap of the current level and holds
\* in runs where the level is not edited (MaxLevelEdits = 0).
NoConfigMap == [absent |-> TRUE]
NoUpsert    == [noCall |-> TRUE]

Upsert == INSTANCE ConfigMapUpsert
    WITH Callers  <- Pods,
         Contents <- RenderedContents,
         Absent   <- NoConfigMap,
         NoCall   <- NoUpsert,
         store    <- IF Level \in Names /\ cm[Level].exists THEN cm[Level].data ELSE NoConfigMap,
         call     <- [p \in Pods |-> IF Active(p) THEN hook[p].content ELSE NoUpsert],
         result   <- [p \in Pods |-> hook[p].ret]

(***************************************************************************)
(* EnsureRanktableConfigMap, with its Get / Create / Update interleaved    *)
(* with other hooks and the deletion hooks, behaves as an atomic upsert:   *)
(* a call that returns nil has written its own content exactly once (or   *)
(* found it there), and a call that returns an error wrote nothing.        *)
(***************************************************************************)
UpsertRefinement == Upsert!Spec

=============================================================================
