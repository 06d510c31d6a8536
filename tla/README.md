# TLA+ models of the kthena model-serving plugins

This directory holds TLA+ models of the lifecycle plugins in
`src/pkg/model-serving-controller/plugins`. The models cover the ranktable
plugin, which aggregates accelerator ranks across a serving group or role
and reconciles them into a ConfigMap, and the pod discovery plugin, which
publishes the IPs of a group's running pods in a ConfigMap. They are
checked with TLC.
`PROJECT.json` lists every component, run, mutant, finding and hazard. It
also maps each TLA+ definition to the source lines it translates.

## 1. Inventory

### Components, their state and operations

| Component | Source | State it keeps | Operations |
|---|---|---|---|
| Plugin hook framework | `plugins/types.go` | none (registry filled at init) | `OnPodCreate`, `OnPodReady`, optional `OnRoleDelete`, `OnServingGroupDelete`, called by the orchestrator |
| Template Resolver | `ranktable/template.go` `GetRanktableTemplate`, `plugin.go` level override | none; reads two template ConfigMaps through a lister on every call | resolve, validate level, default annotation key |
| Pod State Parser | `template.go` `ParsePodRanktable` | none | annotation → `PodRanktableData` or error |
| Readiness/Quorum Evaluator | `plugin.go` `OnPodReady` lines 183–248 | none; recomputed per call from the pod lister | skip deleting pods, require running, annotated and parsable pods, role-level replica count |
| Rank Assignment Aggregator | `template.go` `BuildRanktableTemplateData` | none | group by server, sort servers and devices as strings, assign global ranks |
| Template Renderer | `template.go` `RenderRanktable` | none | text/template + JSON validation |
| Artifact Reconciler | `template.go` `EnsureRanktableConfigMap`; deletes in `OnRoleDelete` / `OnServingGroupDelete` | **the ranktable ConfigMap** (shared, versioned) | Get, then Create or Update with the read resourceVersion; Delete |
| Pod discovery plugin | `plugins/pod_discovery.go` | **the `<group>-discovery` ConfigMap** | `OnPodCreate` (mount), `OnPodReady`: `PollImmediate` loop of list / Get / Create / Update |
| LWS plugin | `plugins/lws_plugin.go` | none (mutates the pod being created) | label and env injection |
| Webhook validator, integration test runner | `webhook/validator_test.go`, `test/integration/...` | — | tests and test DSL; out of the spec's scope |

### How they interact

The orchestrator is the model-serving controller, which is not in this
repository. It calls `OnPodCreate` before it creates a pod and
`OnPodReady` when it sees a pod running. It may run hooks for different
pods of the same group on different workers at the same time (spec §5),
and it re-runs a hook that returned an error (spec §7).

`OnPodCreate` of the ranktable plugin writes an "Initializing" ranktable.
`OnPodReady` lists the pods of the scope through the pod lister, evaluates
readiness, aggregates and renders. Both then call
`EnsureRanktableConfigMap`, which does a Get followed by a Create or an
Update. The scope is one role instance, or the whole serving group.

The ConfigMap is the only shared mutable state. It is protected only by
the resourceVersion check on Update and by AlreadyExists on Create.
Nothing locks it.

### What is hard

- **Interleaving and stale reads.** `OnPodReady` reads the pod list first.
  It reads the ConfigMap version later, at Get, so the optimistic check
  does not cover the pod list. A slow hook can overwrite a newer render
  with a stale one.
- **Retries.** Conflict and AlreadyExists go back to the caller, which
  must re-run the whole cycle. Pod discovery retries inside the hook
  instead, with `PollImmediate` (100 ms interval, 5 s timeout).
- **Quorum.** A pod being deleted must count neither as failed nor toward
  the replica minimum. The replica check exists only at role level.
- **Ordering.** Ranks must be a pure function of the set of
  contributions, whatever order the lister returns them in. Identifiers
  compare as strings, so "10" sorts before "9".
- **Liveness.** Once every pod is ready the ranktable must end up
  "Completed". Nothing re-runs `OnPodReady` after that, so any stale last
  write is permanent.

### Properties that make each component correct

- Aggregator: ranks are dense (0..N-1) and unique; servers and devices are
  in lexicographic order; servers with the same id are merged; the result
  does not depend on input order (checked as part of the reference
  comparison, whose reference is built from the set of pairs).
- Readiness: "Completed" implies every active pod was ready and the
  quorum was met.
- Reconciler: once the scope is settled, the ConfigMap equals the render
  of the current pods. Hooks terminate. A Completed ranktable is
  eventually reached when all pods run.
- Deletion: after the role or group is deleted, no ConfigMap remains.
- Mounts: a created pod's volume names a ConfigMap that exists, and once
  the scope is settled the pods mount the ConfigMap the hooks write.
- Reconciler, abstractly: an upsert that returns nil has left exactly its
  content in the ConfigMap, and one that returns an error has written
  nothing.
- Pod discovery: once settled, the ConfigMap lists the IPs of the running
  pods; the poll loop ends; the ConfigMap is eventually current.

## 2. Modules

| Module | Models | State / actions |
|---|---|---|
| `RanktableBuild` | `BuildRanktableTemplateData` | Pure operators. `LexLess` is Go's string `<` on byte sequences, `Itoa` is `strconv.Itoa`, and `InsertSorted`/`SortDevices` are `sort.Slice`, which uses insertion sort below 13 elements and is therefore stable. `ServerMap`, `RankServers` (the loop with `globalRankId`) and `BuildRanktableTemplateData` follow the code. |
| `RanktableAggregator` | one call of the aggregator | Variables `input` (the pod list), `status` and `table`. It has no type invariant: `MatchesReference` fixes the whole shape of `table`. The action `Build`. `ReferenceTable` is defined independently of the code: a device's rank is the number of (server, device) pairs before it. |
| `RanktablePlugin` | ranktable plugin on one scope | `pod[p]` (phase, DeletionTimestamp, annotation outcome, the ConfigMap its volume names), `cm[n]` for the role-level and the group-level ConfigMap name (exists, resourceVersion, data, the rendered Timestamp), `tmplLevel`, `override` and `edits` (the template's level or "missing", the level annotation, edits made), `now` (the clock), `hook[p]` (which hook, its step, the rendered content and timestamp, the version read, and `ret`, what its last run returned), `restarts`, `faults` (store errors used), `del` (the scope deletion and its hook's step). Hook steps: `RenderInitial` (OnPodCreate up to Ensure), `ComputeReady` (OnPodReady: list, readiness, build), `EnsureGet`, `EnsureCreate`, `EnsureUpdate`, `StoreError` (any other error of Get/Create/Update), `TemplateMissing` (GetRanktableTemplate fails, the hook returns its error before any store call); `RoleDelete` (OnRoleDelete), `GroupDeleteList` and `GroupDeleteEach` (OnServingGroupDelete), `DeleteError` (a failed Get of the template or Delete, returned) and `GroupDeleteFails` (one Delete of OnServingGroupDelete fails, is logged, and the hook returns nil). Every hook resolves `Level` when it runs and works on the ConfigMap that level names. `EditLevel` is a user editing the template level or the annotation, or removing the template. `Tick` advances the clock one second, up to `MaxTime`. Orchestrator (from the spec): `DeleteScope`, `RequestCreate`, `CreatePod`, `PodRunning`, `DeletePod`, `PodGone`, and `Requeue` on error. |
| `ConfigMapUpsert` | what `EnsureRanktableConfigMap` promises | Abstract: `store`, `call[c]`, `result[c]`. `Begin`, `Return` (the store takes the caller's content, nil), `Fail` (error, store untouched), `Consume`, `Delete`. |
| `PodDiscovery` | pod discovery `OnPodReady` on one group | `pod[p]` (phase, deleting, IP), `cm`, `hook[p]` (step, rendered role → IPs, version read, poll attempts), `restarts`, `faults`. Hook steps: `List` (list pods, build role → sorted IPs), `Get`, `Create` (AlreadyExists → retry), `Update` (Conflict → retry), `StoreError` (other errors end the poll), `PollNext`, `PollTimeout`. Orchestrator: `CreatePod`, `FreeIPs`, `PodRunning`, `DeletePod`, `PodGone`, `Requeue`. A constant `Concurrent` chooses whether hooks of different pods interleave. |
| `MCRanktableAggregator`, `MCRanktablePlugin`, `MCPodDiscovery` | TLC instantiations | concrete constants |

Abstractions:

- The rendered JSON is represented by the `RanktableTemplateData` it is
  rendered from. The shipped templates render distinct data to distinct
  text. The discovery content is the role → IP-list map it is encoded
  from.
- `Timestamp` is `time.Now()` in RFC3339, which has second resolution.
  With `RendersTimestamp` the rendered content carries `now` (`Stamp`),
  and the up-to-date check of `EnsureRanktableConfigMap` (`UpToDate`)
  compares both; without it the stamp is always 0, as for a template that
  does not print `.Timestamp`.
- `GetRanktableTemplate` is reduced to its outcome: a level, or failure
  (a missing template or parser ConfigMap or an invalid level), written
  `tmplLevel = "missing"`.
- `ParsePodRanktable` is reduced to its outcome: the pod's contribution,
  an error (missing or malformed annotation), or, when `EmptyOutput` is
  set, an annotation that decodes to the zero-value `PodRanktableData`
  (`ZeroData`, an empty server id and no devices).
- The template resolver is reduced to the template's level and the
  level annotation, initially `TemplateLevel` and `LevelOverride`, and
  editable up to `MaxLevelEdits` times. `Level` takes the annotation when
  it is "role" or "group", as `plugin.go` does. The two levels name two
  different ConfigMaps (`<ms>-<group>-<role>-ranktable` and
  `<ms>-<group>-ranktable`); the model keeps one of each.
- In the plugin model the pods are aggregated in one fixed list order.
  `aggregator_reference` shows that the order does not matter when device
  keys are unique, and the plugin runs use unique keys.
- In `PodDiscovery` the pod IPs are byte sequences; `RoleIPs` sorts them
  with the same `LexLess` as the aggregator, which is `sort.Strings`.

### Refinement

`RanktablePlugin` instantiates `ConfigMapUpsert` as `Upsert` with the
mapping: `store` is the ConfigMap's data, or a record standing for "no
ConfigMap"; `call[p]` is the content pod `p`'s hook is writing while it is
inside Ensure; `result[p]` is `hook[p].ret`. `Contents` is every content
the plugin can render (`RenderedContents`). The mapping is stated for the
ConfigMap of the current level, so it is checked with the level fixed
(`MaxLevelEdits = 0`). The run `plugin_concurrent` checks `UpsertRefinement == Upsert!Spec` with
interleaved hooks, whose Conflict and AlreadyExists are the error returns: every write of the read-modify-write
protocol is a `Return` or a `Delete` of the abstract spec, and every
returned error leaves the ConfigMap alone. The reconciler therefore does
keep its per-call promise; the race findings below come from the content
being stale when it is handed over, not from the upsert itself.

## 3. Runs

| Run | Result | What it shows |
|---|---|---|
| `aggregator_reference` (`MCRanktableAggregator.cfg`) | pass, 9,388 states | Checks every pod list of up to 2 pods with unique (server, device) keys. Each pod has server "10" or "9" and up to 2 devices out of "1", "10", "2" with 2 ips. Every order of each list is among the inputs, and for all of them the code's table is the reference table (`MatchesReference`), which depends only on the set of (server, device) pairs, so the table does not depend on the list order either. |
| `plugin_serial` | pass, about 30,000 states | Role level, 2 pods, `WorkerReplicas = 1`, 1 pod deletion, 1 store error, hooks one at a time, a template that renders the timestamp and one clock tick. Holds: `TypeOK`, `CompletedHasQuorum`, `SettledArtifactCurrent`, `NoOrphanConfigMap`, `EventuallyCompleted`, `DeleteCompletes` (the delete hook eventually returns). |
| `plugin_concurrent` | pass, about 292,000 states (2 min) | Same scope, with hooks of both pods interleaving at every store call; their errors are Conflict, AlreadyExists and one network or permission error (`MaxFaults = 1`); the timestamp is rendered and the clock ticks once. Holds: `CompletedHasQuorum`, `HooksTerminate` (no Conflict/AlreadyExists livelock), and `UpsertRefinement` (the hooks implement `ConfigMapUpsert`: every error, including the network error, leaves the ConfigMap untouched). |
| `plugin_level_edit` | pass, about 1,374,000 states | Interleaved hooks, one edit of the level or removal of the template, one store or delete error, no timestamp. Holds: `MountedConfigMapExists` (no pod is created with a volume naming a missing ConfigMap, whatever level its OnPodCreate resolved). |
| `plugin_level_change` | **violation** | Hooks one at a time, one level edit. The pods mount the role ConfigMap, which stays "Initializing"; after the edit OnPodReady writes the group ConfigMap "Completed" (`MountedArtifactReconciled`). |
| `plugin_delete_error` | **violation** | Hooks one at a time, delete errors on. A failed Delete in OnServingGroupDelete is logged and dropped; the hook returns nil and the ConfigMap outlives the group (`NoOrphanConfigMap`). |
| `plugin_race` | **violation** | Under interleaving, a settled scope ends with the stale "Initializing" ranktable (`SettledArtifactCurrent`). |
| `plugin_delete_race` | **violation** | Under interleaving, an OnPodCreate past its Get (NotFound) creates the ConfigMap after OnRoleDelete deleted it; nothing deletes it again (`NoOrphanConfigMap`). |
| `plugin_parser_empty` | **violation** | An annotation that decodes to empty data counts as ready, and "Completed" carries a zero-value contribution (`CompletedHasQuorum`). |
| `discovery_serial` | pass, about 4,000 states | Pod discovery, 2 pods, hooks one at a time, 1 restart, 1 store error. Holds: `SettledIPsCurrent`, `EventuallyCurrent`. |
| `discovery_concurrent` | pass, about 16,600 states | Interleaved hooks. Holds: `TypeOK`, `HooksTerminate` (the poll loop ends by success, error or timeout). |
| `discovery_race` | **violation** | Interleaved hooks leave a settled group with a stale IP list (`SettledIPsCurrent`). |

Every property of a passing run has a mutant in `PROJECT.json`. Each
mutant replaces one definition with a plausible bug, and TLC then finds the
property violated:

- the rank counter restarted per server;
- an empty ConfigMap created;
- the entry pod missing from the expected count, or `>` used for `>=`;
- "ensure" skipping the update;
- only the Update retried after a Conflict (ranktable and discovery);
- the level test of OnRoleDelete inverted;
- an Update that bumps the version without writing the data;
- discovery's Get skipping the update of an existing ConfigMap;
- a store error swallowed instead of returned;
- the poll loop without its timeout;
- NotFound from OnRoleDelete's Delete returned as an error.

### Bounds

- Two pods suffice for every two-actor race: one OnPodCreate against one
  OnPodReady, and two OnPodReady against each other. They also make the
  role quorum (1 + 1) reachable and missable.
- One deletion (`MaxRestarts = 1`) brings in the DeletionTimestamp paths:
  deleting pods excluded from the active count, replacement, and a stale
  write after a deletion.
- One store error (`MaxFaults = 1`) is enough to reach the error return of
  each of Get, Create and Update, and its retry.
- `MaxAttempts = 2` stands for the 50 polls of 5 s / 100 ms: it has a
  retry and a timeout, which is every path of the loop.
- One level edit (`MaxLevelEdits = 1`) moves the scope between the two
  ConfigMap names once, at any point between or inside hooks; a second
  edit only moves it back. `DeleteFaults` lets the store error hit the
  delete hooks too. The edit may also remove the template.
- One clock tick (`MaxTime = 1`) is one second passing between two
  renders, which is all it takes for the stamps to differ. The
  level-edit run renders no timestamp: with the tick as well its state
  space exceeds the time budget.
- The aggregator run uses server ids "10" and "9" and device ids "1",
  "10", "2"; the discovery run uses IPs "9", "10", "2". Both are chosen so
  that string order and numeric order disagree.

### Fairness

Weak fairness is assumed on each pod's hook steps and on the
orchestrator's `Reconcile` (its `RequestCreate`, `CreatePod` and `PodGone`
as one action: at most one of them is enabled for a pod at a time, so
weak fairness on the disjunction is weak fairness on each) (in
`PodDiscovery`: `HookStep`, `CreatePod`, `PodGone`). The controller's
workers keep draining their queue, and the controller keeps the declared
pods in existence. The poll timeout is an action the hook may take at any
attempt, since wall-clock time is not modelled.

The delete hook's steps are weakly fair. `PodRunning` (kubelet),
`DeletePod`, `DeleteScope`, `EditLevel` and `Tick` are not fair. `EventuallyCompleted` and
`EventuallyCurrent` therefore assume, as their premise, that every pod ends
up running.

All plugin and discovery runs set `CHECK_DEADLOCK FALSE`. The scope does
stop: once every pod runs, every hook has returned and the deletions and
faults are used up, nothing acts any more.

## 4. Findings

1. **Stale overwrite (`plugin_race`).** `OnPodReady(p1)` lists before `p2`
   runs and renders "Initializing". `OnPodReady(p2)` then writes
   "Completed". `p1` reaches Get afterwards, reads the new
   resourceVersion, and its Update succeeds. The ranktable stays
   "Initializing" with all pods ready, and no hook runs again. This
   contradicts spec §5's claim that concurrent, out-of-order hook calls
   are safe. In the serial run the same property holds.
2. **Orphan after deletion (`plugin_delete_race`).** The scope is deleted
   while an OnPodCreate is between Get (NotFound) and Create. OnRoleDelete
   removes nothing, or removes the map before the Create; the Create then
   succeeds and the role's ConfigMap outlives the role. Serially the
   property holds.
3. **Stale discovery list (`discovery_race`).** Each poll attempt lists
   the pods and then Gets the ConfigMap; the Update carries the version of
   the Get, not of the list. A hook that listed before another pod ran,
   and Gets after the other hook's write, overwrites the newer list and
   returns nil; the group settles with a running pod's IP missing.
4. **Empty annotation (`plugin_parser_empty`).** An empty parser output
   unmarshals into a zero `PodRanktableData` with a nil error; the pod
   counts as ready and contributes an empty server entry, which spec §4.2
   says must never happen silently.
5. **Level change (`plugin_level_change`).** OnPodCreate picks the
   ConfigMap a pod mounts from the level it resolves; each OnPodReady
   writes the ConfigMap of the level it resolves. After an edit of the
   template level or the annotation the pods keep mounting the old
   ConfigMap, still "Initializing", while the new one is "Completed".
   The spec lets the annotation override the level but does not say what
   happens to pods already created.
6. **Swallowed delete error (`plugin_delete_error`).** OnServingGroupDelete
   logs a failed Delete and returns nil, so the orchestrator does not
   retry and the ConfigMap is left; spec §7 says such errors propagate.

Observed with other constants, recorded as hazard notes in `PROJECT.json`
rather than as runs: with `TemplateLevel = "group"` a group ranktable is
"Completed" while a pod of the group is not yet created (no quorum check
at group level, `CompletedHasQuorum`); with `MaxLevelEdits = 1` in the
serial configuration OnRoleDelete, resolving the level afresh, leaves the
role ConfigMap behind (`NoOrphanConfigMap`); with two pods reporting the
same device of a server there is no reference table, and `sort.Slice`
leaves the equal keys in pod-list order. With a template that renders the
timestamp, an unchanged ranktable is rewritten once a second has passed:
p1's OnPodCreate creates the "Initializing" ConfigMap, the clock ticks,
and p2's OnPodCreate updates it with the same ranktable and a new
timestamp. That is the ambient clock the spec itself lists as a
shortcoming; no property states one-write idempotence for such a
template. With
`MaxLevelEdits = 1` in the serial configuration `DeleteCompletes` fails:
the role is deleted, the template is removed, and OnRoleDelete returns an
error on every re-run, leaving the role ConfigMap.

## 5. Plan

Done: the aggregator against its reference; the ranktable plugin with its
deletion hooks, store and delete errors, level resolution with level
edits and the two ConfigMap names, and three parser outcomes; pod
discovery with its poll loop; the abstract upsert and the refinement;
the rendered timestamp and a clock; a missing template in every hook.

Next:

1. Three pods, to see a three-hook race and a replica count above one.
2. Timestamps together with level edits, under a larger time budget.

## 6. Not modelled

- The LWS plugin. It mutates only the pod object it is handed and shares
  no state; the name-ordinal parser and hash it relies on are outside this
  repository.
- Text templates and JSON/YAML text. TLC cannot check them; the models use
  the data they encode. The renderer's failure is an error return like a
  parser error.
- The template lister's string fields (filename, mount path, annotation
  key) and the namespace taken from the environment. These are static
  configuration; only the level and the template's presence are state.
- The webhook and the integration test runner. They are out of the spec's
  scope and are test infrastructure.
