# Verification of eth-validator-platform

TLA+ models of the parts of this repository where order, concurrency and failure
decide whether a validator keeps its history and never signs twice. TLC checks
each model on small instances; TLAPS proves every safety property of the passing
runs for every value of the constants (some under a discipline that is a named
assumption of the theorem). `PROJECT.json` lists the components, the runs, the
source lines behind every definition (`map`), the hazards and the theorems.

## The system

A GitOps lab that operates Ethereum validators: desired state lives in Git,
people and two agents change it through reviewed pull requests, Flux and Helm
apply it to Kubernetes (EKS or kind), clients sign through one Web3Signer whose
PostgreSQL database is the only authority against double signing. The control
logic of the repository is a set of shell and Python tools around those
third-party systems. It is small, but almost every tool checks a state it does
not own and then acts on it.

| Component | State it keeps or reads | Operations | Talks to | What makes it correct |
|---|---|---|---|---|
| Cold standby `hack/eks-cold-standby.sh` | EKS cluster, RDS instance and snapshots, Terraform state and saved plans, `STATE_DIR/snapshot-id`, leftover load balancers and ENIs | `preflight`, `snapshot`, `destroy-plan`, `down`, `up`, `refresh-dns` | Terraform, AWS, Kubernetes records and Pods | no path loses slashing history or durable secrets; a restore holds every signed duty |
| Signer tier `platform/apps/base/web3signer`, `signer-foundation.tf` | signed duties in RDS | sign, migrate | validator clients | nothing is signed twice |
| Merge gate `hack/merge-pr.sh`, rebase workflow | nothing of its own: head, reviews, decision, checks and merge state read from GitHub one by one | verify and merge; rebase one behind request | GitHub, CI | what is merged was reviewed and checked at exactly that head |
| Catalog `applications/`, `schemas/`, `tools/validate_catalog.py` | YAML documents | validate | CI, renderer, workflow | one live assignment per validator and node pair, only eligible ones sign |
| Projection `tools/render_local_assignments.py` | generated HelmReleases | render, `--check` | catalog, Flux | committed releases are those of the catalog, node-pair names are stable |
| Lifecycle workflow `tools/set_node_pair_lifecycle.py`, `node-pair-lifecycle.yaml` | a checkout of main, a request branch | activate, stop | catalog, GitHub | never affects a signing assignment |
| Reconciliation `clusters/`, `charts/ethereum-node` | HelmReleases, Helm releases, Pods, volume claims, lifecycle records | apply, upgrade, roll back | projection | stops arrive, clients follow main, data is not lost by accident |
| Lab capacity `hack/eks-lab-capacity.sh` | desired size of one node group per zone | pause, resume | EKS, Kubernetes | at most one zone active, nothing running is evicted |
| Signing recovery `hack/eks-signing-recovery.sh` | none (reads) | `observe`, `signing` | EKS, RDS, Flux, Secrets Manager | gates hold together, not only one by one |
| Key custody `generate-validator-key.py`, `onboard-web3signer-keystore.py`, `bootstrap-web3signer-database.py` | key directory, secret versions, role password | generate, onboard, bootstrap | Secrets Manager, Kubernetes Job | no silent rotation; one key per directory and container; the stored password opens the database |
| Portal status API `platform/apps/portal/dev/server.py` | one cached snapshot and its time | `get_snapshot` under concurrent requests | Prometheus | no reply is older than its limit allows; no false zero; a failing Prometheus blocks nobody for good |
| Image evidence `tools/*image*`, `image-security.yaml` | inventories, scans, exceptions, artifacts | discover, compare, scan, verify, evaluate, bind an SBOM, aggregate, publish | CI, registry, Trivy | a published count covers what its revision deploys, with findings of this run |
| Static verifiers, local kind tooling, public portal, Terraform | - | pure checks, sequential tooling, rendering, declarations | - | covered by unit tests |

How they interact: a request (workflow or person) passes CI and the merge gate
into main; main's projection reaches the cluster through Flux and Helm; the
lifecycle records that Helm installs are what cold standby and lab capacity read
before they take the cluster down; the database that cold standby snapshots and
restores is what the signer trusts. Key custody fills, once, the secret containers
and the database role the signer reads; its three commands meet only in the
objects they write. The status API and the image evidence only observe.

Hard behaviours: checks separated from their use by prompts, API calls and other
actors (cold standby, merge gate, capacity, custody); restores from backups that
lag; Terraform applies that fail half way; secrets that are set in one place and
stored in another; evidence gathered by parallel jobs over several attempts; rollbacks that revive a former state;
review metadata that GitHub rewrites; requests that are valid one by one.
`PROJECT.json` "hazards" has each at its line.

## Modules

| Module | Models | Composition |
|---|---|---|
| `ColdStandby` | cold standby, database, fleet as it sees it | INSTANCE of `SlashingProtection` |
| `SlashingProtection` | abstract: what the signer tier promises | implemented by `ColdStandby` |
| `ColdStandbyProofs` | theorems about `ColdStandby` | EXTENDS it and TLAPS |
| `MergeGate` | merge wrapper, rebase workflow, GitHub, CI | self-contained |
| `MergeGateProofs` | theorems about `MergeGate` | EXTENDS it and TLAPS |
| `Catalog` | validator, renderer and lifecycle transition as operators | used by `Delivery` |
| `LabCapacity` | pause and resume, EKS node groups, volumes and their zones | self-contained |
| `LabCapacityProofs` | theorems about `LabCapacity` | EXTENDS it and TLAPS |
| `Delivery` | requests, CI, merges, Flux, Helm, Pods, volumes | EXTENDS `Catalog` |
| `DeliveryProofs` | theorems about `Delivery` and `Catalog` | EXTENDS `Delivery` and TLAPS |
| `KeyCustody`, `KeyCustodyProofs` | key ceremony and keystore onboarding | self-contained; theorems |
| `DatabaseBootstrap`, `DatabaseBootstrapProofs` | database bootstrap command, its Job and Pods, the role | self-contained; theorems |
| `StatusCache`, `StatusCacheProofs` | request threads, snapshot cache, Prometheus | self-contained; theorems |
| `ImageInventory` | image discovery and comparison as operators | used by `ImageEvidence` |
| `ImageEvidence` | the image workflow, its shards, artifacts, decision | EXTENDS `ImageInventory` |
| `ImageEvidenceProofs` | theorems about `ImageEvidence` and `ImageInventory`, lemmas about sums | EXTENDS `ImageEvidence` and TLAPS |
| `MC*` | instances for TLC (`MCCustody`: both custody modules) | EXTEND the module they check |

Definitions named as mutations in comments (`NoFinalSnapshot`, `AnyTime`,
`BranchPasses`, ...) are wrong variants of the definition after them. No
specification uses them; each property of a passing run is shown to fail when one
replaces its original.

### ColdStandby

`Operator` runs `eks-cold-standby.sh`; `pc` is the line a command has reached and
every gap between two AWS, kubectl or Terraform calls is a place where the others
move. `StartDown` to `ApplyPlan` follow `down`: preflight reads records, then
Pods; a plan is saved and inspected for durable secrets; a typed confirmation;
the protection is removed by a targeted apply that also names the final snapshot;
the plan is made again and applied. A first apply that fails leaves any subset of
deletions done and goes on to ENI cleanup only if the cluster is gone, then plans
and applies once more. `Die` is any `die` or crash. `StartUp` and `ApplyUp`
restore the snapshot in `file` (or the argument); on an existing instance another
`snapshot_identifier` replaces it, which AWS refuses while it is protected and
which otherwise leaves the final snapshot named in the instance's state. A
targeted apply on a missing instance creates an empty one. Any write of the
Terraform state makes saved plans stale.

The fleet is what the script sees of it: lifecycle records, Pods that follow
them later, and `Sign`, which is what Web3Signer guarantees: a duty in its
database is refused, a new one is stored before it is signed.

`Runbook = TRUE` adds the discipline of `docs/runbooks/eks-cold-standby.md`: one
command at a time, a recovery snapshot of a quiet fleet opens a `window` in which
only stops are merged, `down` and `up` use that snapshot, and the window closes
with the completed restore or when the operator gives it up.

`SlashingProtection` is the tier without any of this: a set of signed duties that
is remembered and only grows, and a tier that serves or does not. `Protection`
maps it onto `ColdStandby`: it serves when the instance is present, and what is
remembered is what the present instance holds or, while there is none, what the
snapshot of the window holds. Under the runbook every step of two operators, of Terraform and of the fleet
is a signing step, a pause, an end of a pause or a stutter (`ImplementsProtection`).

### MergeGate

One `run` per pull request holds the wrapper's shell variables; `ViewPr`,
`ReadReviews`, `JudgeReviews`, `JudgeChecks` and `Merge` are its calls in order,
`Fail` its exit. Authors push and force-push, reviewers review, GitHub remaps old
reviews to the head of a force-push and keeps their time, CI checks a head once
against the main of that moment, other requests merge, and the rebase workflow
rebases the lowest behind request. A head is a version number; a change is the
set of requests it contains, and `Clash` says which sets are invalid together.
`strict` is GitHub's up-to-date setting, either value. Clocks are per request.

### Catalog and Delivery

`Catalog` gives, as operators over a catalog record, what the validator accepts
(`SchemaValid`, `RelationsValid`), what the renderer makes of it (`Projection`,
`Renderable`) and what the workflow changes (`MayTransition`, `Transition`).
`signing` stands for `signingEnabled` with both confirmations and the fee
recipient, which the schema makes inseparable; `Standing` stands for the gates of
identity and customer.

`Delivery` runs them. A request holds the catalog it was cut from and the one it
proposes; it merges field by field as Git merges lines; CI validates the merge
and compares the projection; checks have to be current when it merges (the
up-to-date rule; what happens without it is `MergeGate`'s subject, and
COLLABORATION.md does not list it). Flux fetches main from time to time (`Fetch`: the
artifact of the GitRepository), the Kustomization takes up what was fetched
(`StartReconciliation`) and applies its HelmReleases one after the other
(`FluxApply`), so that releases of a revision that main has left may still be applied.
Helm upgrades a release as a
whole, refuses objects another release owns, waits for readiness only where the
renderer leaves `disableWait` off, and otherwise rolls back, up to giving up.
Pods end after a grace period. `Careful = TRUE` adds a person who starts a
client only where the cluster has settled without one (`Settled`: the fetched and the
applied revision are those of main, the release has followed, no upgrade is open, no
Pod is left); the repository has no
such orchestration (docs/production-evolution.md says so), the run shows what an
operator would have to wait for.

### LabCapacity

Operators run `pause` and `resume` of `eks-lab-capacity.sh`; `pc` follows its
reads (`ReadGroups`, `ReadRecords`, `ReadPods`, `ReadClaims`, `ReadVolumes`), its
one call that changes anything (`Scale`) and its two waits; `AlreadyPaused` is the
early return of a pause and `Exit` forgets what the process knew. `Fail` is an error, a
timeout or an interrupt at any of them: what EKS accepted goes on. The cached
description of the groups is the value `found` and the guard that read it. EKS
puts the new size in force at some time before the update ends, and an update may
fail before or after that; workers start, are reclaimed (Spot) and take their
time to go. Flux changes records, Pods follow, and a claim is bound in the zone
of the first worker its Pod runs on. The Pods of an assignment share its claim;
two assignments stand for any two volumes. Signing needs an active lifecycle and
so is refused with it.

Ghosts: `late[o]` holds the assignments started since the command read the
records; `unsettled[o]` says that another zone was still changing when the groups
were read or was scaled since; `raced` that a resume went through all the same.

### KeyCustody

`Terminal`s run `generate-validator-key.py` (`Prepare`, `DepositCli`, `Validate`)
and `onboard-web3signer-keystore.py` (`Load`, `Clear`, `Put`, `ReadBack`); every gap
between two file or AWS operations is a step boundary, and `Quit` is a refusal, a
failing call or a kill in any of them. Keystores and deposit records are records
of kind, key and grade: `good` passes all of `validate_artifacts`, `foreign` is
well-formed and refused (mode, chain, fork, amount), `broken` is cut off by a CLI
that failed. `Discard` is the person the error message leaves the files to.
Onboarding takes whatever well-formed keystore it is pointed at, of any directory and
for any identity, as the command does. The runbook picks it with `find` in the
directory of the identity, after its ceremony (`ByRunbook`); everything else is
loaded too and recorded.
Histories: `crowded` (two ceremonies of an identity at once), `astray` (identities
given a keystore against the runbook), `raced` (two onboardings of it past their check at once), `onboarded` (what was reported).

### DatabaseBootstrap

`Operator`s run `bootstrap-web3signer-database.py`. `Look` is the check for stale
objects, where a `kubectl` that fails counts as absence, `Draw` the empty-target
check and the password; `Send` and `Apply` are `kubectl apply` on names every run
shares (a Secret is replaced, a Job of that name stays as it is); `Verify` waits
for the Job; `Store` and `Confirm` put and read back. `Fail` anywhere leads through
`DeleteJob` and `DeleteSecret`, whose results nobody looks at. The Job runs one
Pod with the Secret as it was when it started, sets the role and completes, fails
or expires on its own; a Pod whose Job is deleted or out of time has a grace
period in which it may still set the role (`lingering`). `causes` collects what no
check looks for, and the properties say which of them a failure needs.

### StatusCache

A thread reads the clock (`Arrive`), gets the lock, and serves the cache
(`ServeCached`), or builds (`StartBuild`, one `Ask` per query at its own moment,
`Finish`) or fails into the stale cache, 503 or a closed connection (`Fail`).
`cachedAt` is the builder's arrival time, as in the code, so an age is negative when
the reader is older than the cache. Of the many values of a snapshot the model
keeps the two that vouch for each other: the canary of alert evaluation and the
count of firing alerts. Prometheus (`world`) changes at any time. `observed` and
`missed` are histories of a snapshot, `floor` and `newest` of the clients.

### ImageInventory and ImageEvidence

A revision is a set of places that mention an image: where each is, how its position
names the image, and what is written there (an exact reference, a tag, nothing, a
malformed one). `Inventory` is what `discover_container_images.py` makes of it,
`SameSurface` what the comparison compares. `Deployed` says what the revision deploys
without asking the tool: every position that names an image outside docs, tests and
vendored code, and every chart of somebody else. The tool passes over some of these
forms in silence, and `Overlooked` lists them: an image map without digest and tag, an
empty shell constant or one with blanks, a HelmRelease by `chartRef` (or from
somebody else's GitRepository), images under keys or variables the tool does not list
(unless an exact reference stands in the text), `COPY --from`, and files that are
neither YAML, shell, Dockerfile nor template. The properties say that these forms, and
no others, are what an inventory leaves out.

`ImageEvidence` is one run of the workflow: `Trigger` (a new run cancels the old),
`Discover` with the reuse decision, shards of at most `MaxParallel` (`Scan` with
the digest check, `Evaluate` with exceptions and the SBOM binding, `ShardFails`),
`Decide` under `if: always()`, `Publish`, and `Rerun` of the failed or of all jobs,
which keeps the artifacts of the earlier attempt until they expire. Meanwhile the
advisory database changes (`Disclose`) and time passes. The scanner may resolve
any digest; what it finds is `known` at the moment of the scan.

## Runs

| Run | Checks | Instance |
|---|---|---|
| `cold_standby` | `HistoryRecoverable`, `ConflictNeedsRegression`, `DurableSecretsSurvive`, `ProtectedInstanceStays` | two operators, one validator, one duty, one manual and two final snapshots |
| `cold_standby_runbook` | `RestoreNeverRegresses`, `ImplementsProtection` | the runbook: one validator, one duty, two manual and two final snapshots, any of them passed as `SNAPSHOT_ID` |
| `cold_standby_regress` | violates `RestoreNeverRegresses` | one operator, nothing fails |
| `cold_standby_writer` | violates `FinalSnapshotHasNoWriter` | one operator |
| `merge_gate_reviews` | `MergedHeadWasReviewed`, `AutomationLandsAlone`, `RejectionHonoured` | one automation request, three heads, three reviews, pages of two |
| `merge_gate_main` | `OnlyRacesBreakMain` | two clashing requests |
| `delivery` | `TypeOK`, `DesiredStateIsValid`, `ConvergedFleetIsSafe`, `WorkflowLeavesSigners`, `DataGoesOnlyByDecision`, `StopIsCarriedOut` | workflow and one person, two assignments of a validator, two node pairs, two merges |
| `delivery_careful` | `OneClientPerValidator` | one careful person, two node pairs, four merges |
| `lab_capacity` | `OneActiveZone`, `CapacityServesVolumes`, `OnlyLateStartsMeetScaling` | two operators, two zones, two assignments, three commands, two lifecycle changes |
| `custody` | `DirectoryHoldsOneKey`, `RotationNeedsRace`, `ReportedKeyStays`, `ContainerHoldsDepositedKey`; `StoredPasswordOpensDatabase`, `ReportedPasswordIsCurrent`, `NothingIsLeftBehind` | two terminals, two identities, two keys; two operators, three passwords |
| `status_cache` | `AgeIsHonest`, `ServedWithinLimits`, `NeverOlderThanBefore`, `ZeroWasTrueOnce`, `CacheTimeAdvances`, `SomeoneIsAnswered` | two threads that come again, lifetime 2, stale limit 3, three ticks |
| `image_evidence` | `EvidenceTypeOK`, `SummaryCoversRevision`, `TotalsAreOfThisRun`, `SummaryIsNotMixedWithOldEvidence`, `ExceptionsAreAlive`, `ReuseAddsNothing`, `RunsAreDecided` | two images, four places, five revisions, two attempts, two ticks |

Every module has one type invariant, and each is a theorem; those of `delivery` and
`image_evidence` are checked by TLC as well.

What they show:

- *Cold standby.* Whatever two operators run, every duty ever signed stays in
  the database or in a snapshot, no applied plan deletes the durable secrets, and
  a protected instance is never deleted. A duty is signed twice only after a
  restore that lacked it. If people keep to the runbook that never happens.
  Without that discipline it does, with nothing failing: `up` restores the
  manual snapshot, not the final one (`cold_standby_regress`), and the final
  snapshot may be taken under a running client (`cold_standby_writer`).
- *Merge gate.* The head that lands was approved, at that head, by every required
  agent; a rejection is honoured; nobody's commit rides on an automation request.
  Two things the comments of the wrapper promise do not hold: BEHIND is read too
  early to exclude two merges that are invalid together (hence the race in
  `OnlyRacesBreakMain`; without its second disjunct TLC refutes it), and an approval
  in the second of the force-push passes (`SharedSecond = TRUE` refutes
  `MergedHeadWasReviewed`).
- *Delivery.* Requests that overtake each other never make main invalid or the
  projection stale, and a workflow request never starts or stops a validator
  client. Break before make needs the cluster to have settled at the revision of main
  (no older one fetched or being applied, no upgrade under way, none given up, none to
  come): waiting for the Pods alone is not enough, because a rollback or a late upgrade
  revives a client, and looking at the releases alone is not either, because an older
  revision that is still to be applied does (`SettledByLooks`). A stop always arrives
  unless its release was renamed to a node pair another release owns, where Helm
  refuses the upgrade for as long as that lasts.
- *Lab capacity.* What the script checks is enough for one zone at a time, beside
  the volumes, if a resume starts only when every other zone has settled (no
  update in progress, worker gone) and no other command scales meanwhile. The
  script itself reads the desired size of the other groups only, and a pause that
  finds size 0 reports success while the worker is still there, so that
  discipline is the operator's. A Pod can be scaled away only if Flux started its
  assignment during the command.
- *Custody.* No command takes a lock, and each failure has a cause the run names:
  keys mix in a directory only after two ceremonies at once; a container gets a key nobody
  deposited for only after that, or when somebody passes a keystore of another identity
  or of a failed ceremony, which the command accepts; a keystore is rotated only by two onboardings past
  their check at once; the stored password fails to open the database only after
  two bootstraps overlapped, a failing `kubectl` hid a stale object, or a Pod
  outlived its Job. Otherwise a command that fails anywhere leaves nothing in the
  way of the next one.
- *Status cache.* Limits hold as of the moment a request arrives; what it waits
  for the lock comes on top, since the clock is read once, before the lock. The
  negative ages that follow are harmless: nobody gets older data than before
  and the cache time never goes back. A zero can be wrong at single moments but
  not about a whole build, unless Prometheus starts or stops evaluating meanwhile.
- *Image evidence.* A summary covers each exact image of its revision and counts
  each loose one as a gap, the overlooked forms aside; its total is what scans of these very images found in
  this run, over both attempts, within one retention period; a reuse adds no
  subject, no gap and no exception, the overlooked forms aside. Runs that nobody cancels come to a decision.

Bounds. In `custody` two of each actor let one meet every step of the other; two keys are a
ceremony that failed and one that succeeded, two of one identity at once, or one of
each identity, and the third password is for a run after both; in `status_cache` the ticks
cover fresh, stale and too old; in `image_evidence` two images let one shard fail
or differ while the other succeeds, the five revisions (three that deploy the same
exact image, with other gaps or other overlooked forms, one with an exception, one
untruthful) let every comparison go either way, and evidence expires after two ticks, the time bound,
so that it can be gone at a new attempt. The tooling is the same in all of them:
a change of it only forces the scan that a push forces too. Three commands are two operators at once and a third one after them;
the two lifecycle changes are a start and a stop, or the starts of two volumes.
Two operators are enough for a command of one to meet every step of the
other; snapshot identifiers are only compared for equality. Three heads let a
review be of an older head, of the remapped one and of a new one. Two assignments
of one validator are the smallest fleet with a switch; two merges are a start and
a stop, three let a request be overtaken twice, four are two switches. Symmetry is used for identifiers
and assignments the specification never tells apart, and not with liveness.

Deadlock. Cold standby, the status cache and the image workflow always have a next
step, so it is checked there. The merge gate, delivery, lab capacity and custody
stop when everything is merged or the bound on merges, heads, reviews, commands,
keys or passwords is reached, so their configurations switch it off.

Fairness is assumed in three runs.
- `delivery`: Flux fetches, starts a reconciliation and retries an apply every
  interval (`interval`, `retryInterval` in `clusters/`), the Helm controller retries a
  release that is not at its spec, an upgrade in progress becomes ready or runs
  into its `timeout: 10m`, and a Pod ends after its grace period. Which of ready or
  timed out happens is left open, and so is everything people do.
- `status_cache`: a build ends, since every query has a timeout
  (`QUERY_TIMEOUT_SECONDS`), and a free lock goes to some waiting thread. Which
  one is left open, Python's locks are not fair: the property is that someone is
  answered, not everyone.
- `image_evidence`: jobs are picked up and each ends by its `timeout-minutes`. New
  runs may cancel each other for ever, which the property excepts.

## Proofs

All theorems are proved with TLAPS for every value of the constants that satisfies
the named ASSUMEs of the modules, each of which TLC evaluates on the instances. Every
invariant and action property of a passing run is stated by a theorem; the bounds on
clocks, heads, reviews, merges and attempts are constants too, so that none of the
theorems depends on how small the instance is.

`ColdStandbyProofs`
- `TypeCorrect`: `Spec => []TypeOK`.
- `HistoryNeverLost`: `Spec => []HistoryRecoverable`. Inductive together
  with the types and two facts about the instance: while absent it holds nothing,
  and one that may be deleted names a final snapshot that does not exist yet, so
  deleting it leaves a snapshot of what it holds.
- `SecretsSurvive`: no command that is about to apply, or to apply again, holds an
  unsafe plan. `OnlyRegressionConflicts`: until the first regression the present
  database holds every signed duty. `ProtectedStays`: an action property.
- `RunbookNeverRegresses`, `RunbookNeverSignsTwice`, `RunbookRefinesProtection`:
  assume `Runbook`. The
  invariant ties each program counter to the window: while a snapshot waits or a
  restore runs the other operators are idle, the fleet is quiet, and the
  snapshot of the window holds every duty signed. The refinement follows from it:
  initial states map to initial states, and each action to a step of
  `SlashingProtection` or a stutter.

`MergeGateProofs`
- `GateTypeCorrect`: `Spec => []TypeOK`.
- `RejectionsHonoured`: unconditional; the latest reviews the run holds are those
  it started with or newer.
- `MergedHeadsReviewed`: assumes that no two events share a second
  (`~SharedSecond`; with the constant TRUE TLC finds a counterexample). The
  invariant says that reviews are dated after the push of the head they saw, and
  that what a run read is still true of its head as long as the head is the one
  it will pin.

- `AutomationAlone`, `RacesAloneBreakMain` from `Landing`: the branch was cut from what
  main held, CI looked at no less than the branch and the request, and what a run saw
  (one bot commit, up to date) is so as long as the head it will pin is the head; a run
  at its merge saw a green head. Then a merge breaks main only if main changed after
  the run began. Assumes `ChangesClash` (main is valid before anything lands).

`DeliveryProofs`
- `DeliveryTypeCorrect`: `Spec => []TypeOK`; field-wise merging keeps the shape of a
  catalog, and rendering gives releases.
- `MainIsValid`: inductive with `ChecksAreCurrent` (a request that counts as checked
  passes on the main of this moment, since a merge makes every other check stale).
- `ConvergedFleetSafe`: from `MainIsValid`, the rules of the catalog and
  `PodsFollowRelease` (Pods that are not ending are those of the installed release).
- `OneClient`: an assignment is `Hot` if a client of it runs, is wanted by main, by a
  revision fetched or being applied or by the release, is installed or may come back by a rollback; at most one assignment of
  a validator is hot. the revisions on their way to the cluster
  count too: what is fetched, then applied, then released follows main in this order,
  so that a settled assignment has nothing older to come. Flux and Helm heat nothing,
  they only carry on; a merge heats an assignment only where the careful person saw the validator cold and settled.
- `WorkflowIsHarmless`: an action property, for instances where the workflow is one
  of the requesters. A request of the workflow is one transition of an assignment that did not
  sign on the main it was cut from, and field-wise merging with any later main leaves
  every release that runs a client as it is.
- `DataGoesByDecision`: an action property. `Led` orders what main wants, what Flux
  applied, what Helm installed and what a rollback returns to: from one to a later one
  a node pair is given up only where people decided so; data nobody gave up has an
  owner that keeps it, in a rollback too, and no two releases name its node pair.

`LabCapacityProofs`
- `CapacityTypeCorrect`: `Spec => []TypeOK`.
- `CapacityInOneZone`: inductive with `OthersAreOff` (while nothing else changed
  since a command read the groups, every other zone is and stays without
  capacity).
- `CapacityBesideVolumes`: adds `CheckHolds` (until the call to scale, the claim
  check still holds: a claim is bound only where a worker is, and the other zones
  are off).
- `OnlyLateStarts`: an action property; whatever is started after the records
  were read is late, and whatever runs after the Pods were read was started so.

`KeyCustodyProofs`
- `KeysTypeCorrect`, with the fact that a running command works for some identity.
- `RotationOnlyByRace`, `ReportedKeysStay` from `Orderly`: outside a race at most one
  onboarding is past its check, and the container is empty until that one puts.
- `DirectoriesHoldOneKey`, `ContainersHoldDepositedKeys` from `Separate`: unless two
  ceremonies ran at once, the directory is empty while one is prepared, and once
  one succeeded it holds that bundle for good. So what is loaded by the runbook is its
  key, and any other key in a container has made its identity `astray`.

`DatabaseBootstrapProofs`
- `BootstrapTypeCorrect`, with the fact that a run past `Draw` has a password.
- `NothingLeftBehind` from `Owned`: without a kill or a failed deletion, a Secret or
  Job exists only while some run is at a stage that has one.
- `SecretNotRotated`, `ReportedPasswordCurrent` from `StoredOnce`: without an overlap
  one run is active, it found the secret empty, and what it stored stays.
- `StoredPasswordOpens` from `Opens`: without an overlap, a misread or an outlived
  Pod the Job a run waits for is its own, started with its password, and once a
  password is stored no Job is left that could set another.

`StatusCacheProofs`
- `StatusTypeCorrect`; `Sound`: the cache is dated no later than it was observed,
  is no older than anything given out, a builder holds the lock and came no
  earlier than the cache is dated, and every reply keeps what it promised.
  From it `AgesAreHonest`, `LimitsAreKept`, `NobodyGoesBack`, `CacheIsNotDatedBack`.
- `ZerosAreTrue` from `Truthful`: while a build misses an alert that fires all along,
  a canary it saw means Prometheus evaluates and a zero means it does not.

`ImageEvidenceProofs`
- `EvidenceTypeCorrect`: that the published total is a natural number is about a sum
  over any number of images and findings. `SumOfNaturals` proves it with the well-founded
  order of the naturals instead of an induction rule: a least counterexample to "some
  function satisfies the recursion of `SumFunction`" (`SumsExist`) and to "such a
  function has natural values" (`SumsAreNatural`) cannot exist. `GreatestNatural` does
  the same for the latest evaluation time.
- `AliveExceptions`, from `Supported` (an evidence is about its own image and SBOM, holds
  what was found in this run, and rests on exceptions alive at its time), which is
  inductive with `Scanned` (a report that waits is of its own image and run).
- `ReuseIsSound`, from `Discovered` (what a verdict says of the two revisions) and the
  lemmas about the inventory: `AccountedIsSubject`, `UnresolvedAreGapSources`,
  `SameGapsSameSources`.
- `NoOldEvidence`, `CoverageIsComplete`, `TotalsAreHonest`, from `Summarised`: as long as
  there is a summary, it is what `Aggregate` makes of the evidence that is still there,
  of exactly the subjects of the revision (`CoveredAggregate`). That the number of gaps
  is that of the unresolved sources not overlooked is a bijection, each gap naming its source
  (`GapsAreCounted`).
- Assume finite sets of sources, images and vulnerabilities, and revisions that say of
  every source what kind of place it is; sums and counts mean nothing otherwise.

What the proofs changed in the models: the proposals of `Delivery` are three named sets
(`Edits`, `Switches`, `Rulings`), the sums of `ImageEvidence` are those of functions,
and finiteness and `ChangesClash` are stated as assumptions. The behaviours are the
same.

Only model-checked: liveness (`StopIsCarriedOut`, `SomeoneIsAnswered`,
`RunsAreDecided`), which the prover does not handle, as it does not handle ENABLED. The
two violation runs are TLC's as well: what they refute has no theorem but the one under
`Runbook`.

## Where docs and code differ

The two violation runs, each with its line in `PROJECT.json` "findings", are about
the cold standby. Met while modelling and not given a run:

- `hack/merge-pr.sh:227-230` and `:18-20`, the two of the merge gate above.
- `docs/components/secrets-and-key-projection.md:122-124` says a keystore that does
  not match the identity is refused, and
  `docs/runbooks/validator-key-ceremony.md:134` that the derived public key is verified.
  `hack/onboard-web3signer-keystore.py` checks the form of the key written in the file
  and the password against its checksum; it derives nothing and compares nothing with the
  identity. In the model a keystore of another identity is stored and reported like any
  other; `ContainerHoldsDepositedKey` is false without its exception `astray`.
- `docs/runbooks/image-security.md:129-131` says an image-bearing YAML, shell constant,
  Dockerfile base or literal Helm template line cannot silently disappear, line 105 that
  every shell image constant and line 108 that every third-party HelmRelease is an
  input. It is not so for the overlooked forms: `discover_container_images.py:184-210`
  (maps and replacements with neither digest nor tag), `:73-77` with `:349-358` (empty
  constants, blanks, other variable names) and `:429-434` (`chartRef`).
  `SummaryCoversRevision` is false without its exception `Overlooked`. The repository at
  this commit need not contain any of these forms; nothing reports one that is added.
- The `evaluatedAt` of a summary is the latest of its shards, not the earliest.
- The arrival-time dating of `get_snapshot` makes `cacheAgeSeconds` negative for a
  request that waited for another's build.

## Not modelled, and the plan

Within modelled components: DNS refresh of the cold standby, the post-merge
verification of the wrapper (read-only), drafts, closed and forked requests,
merges made outside the wrapper, static rules about single catalog documents,
client and network parameters, the order of Flux Kustomizations, the snapshot
values of the status API other than its alert counts, severities and provenance
of image findings, argument patterns of the custody commands. Snapshots are
never deleted by the repository and so not in the model.

`tools/verify_rds_recovery_drill_preflight.py`, `tools/verify_container_contracts.py`
and the shell tests of the chart check one document or one rendered manifest and
keep no state: there is no order of events to explore. The public portal renders
what the status API returns. Terraform declares resources. The local kind tooling is
sequential; its teardown guard, and the signing recovery gates, are listed hazards
without a property.

Next, in this order:

1. `SigningRecovery`: sequential gates over moving state, composed with the
   restore of `ColdStandby`.
2. The teardown guard of `hack/local-cluster.sh`.
3. Proofs about those two; abstract specifications of the merge gate (a pinned merge of
   what was reviewed) and of the delivery (one client per validator, moved one at a
   time), which the theorems about them are the core of.
