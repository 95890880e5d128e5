----------------------------- MODULE Delivery ------------------------------
(***************************************************************************)
(* From a requested change of the catalog to running validator clients:    *)
(* the lifecycle workflow and people open requests against main, CI lets   *)
(* them in, Flux applies the projection on main to the cluster, and the    *)
(* Helm controller upgrades each release on its own.                       *)
(***************************************************************************)
EXTENDS Catalog, Naturals

CONSTANTS
    Requester,   \* request slots: "workflow" and people, one open request each
    Proposable,  \* lifecycles people write into the catalog
    Forgetful,   \* do people forget to render the projection
    Careful,     \* do people wait for the old client before they start a new one
    MaxMerges    \* bound: merges

ASSUME BoundIsNumber == MaxMerges \in Nat
ASSUME ProposableLifecycles == Proposable \subseteq Lifecycle
ASSUME PeopleVary == Careful \in BOOLEAN /\ Forgetful \in BOOLEAN

VARIABLES
    desired,     \* catalog on main
    projection,  \* generated releases on main
    request,     \* the open request of each requester
    merges,      \* merges so far (bound)
    fetched,     \* releases of the revision Flux fetched last: its artifact
    applying,    \* releases of the revision the Kustomization works from
    release,     \* HelmRelease of each assignment in the cluster
    installed,   \* values its Helm release was last installed with
    previous,    \* while an upgrade waits for readiness: what it would go back to
    failed,      \* the Helm controller gave up on the current HelmRelease
    client,      \* validator-client Pods: up, ending, both or none
    data,        \* node pairs whose chain data outlives a failed upgrade
    decided      \* history variable: node pairs people archived or renamed

main == <<desired, projection, merges, decided>>
flux == <<fetched, applying>>
helm == <<installed, previous, failed, client, data>>
cluster == <<flux, release, helm>>
vars == <<main, request, cluster>>

NoRelease == [lifecycle |-> "absent", signing |-> FALSE, fullname |-> None]
Request == [base: Desired, head: Desired, rendered: BOOLEAN, passed: BOOLEAN]

TypeOK ==
    /\ desired \in Desired
    /\ projection \in [Assignment -> Values]
    /\ request \in [Requester -> Request \cup {None}]
    /\ merges \in 0..MaxMerges
    /\ fetched \in [Assignment -> Values]
    /\ applying \in [Assignment -> Values]
    /\ release \in [Assignment -> Values \cup {NoRelease}]
    /\ installed \in [Assignment -> Values \cup {NoRelease}]
    /\ previous \in [Assignment -> Values \cup {NoRelease, None}]
    /\ failed \in [Assignment -> BOOLEAN]
    /\ client \in [Assignment -> SUBSET {"up", "ending"}]
    /\ data \subseteq NodePair
    /\ decided \subseteq NodePair

\* Every assignment is stopped, none names its node pair, nothing is installed.
\* Flux was bootstrapped on this revision.
Init ==
    /\ desired = [doc |-> [a \in Assignment |->
                             [lifecycle |-> "stopped", signing |-> FALSE, nodePair |-> None]],
                  standing |-> [v \in Validator |-> "eligible"]]
    /\ projection = Projection(desired)
    /\ request = [r \in Requester |-> None]
    /\ merges = 0
    /\ fetched = projection
    /\ applying = projection
    /\ release = [a \in Assignment |-> NoRelease]
    /\ installed = [a \in Assignment |-> NoRelease]
    /\ previous = [a \in Assignment |-> None]
    /\ failed = [a \in Assignment |-> FALSE]
    /\ client = [a \in Assignment |-> {}]
    /\ data = {}
    /\ decided = {}

----------------------------------------------------------------------------
(* Requests and merges                                                     *)

OpenRequest(r, head, rendered) ==
    /\ r \in Requester
    /\ request[r] = None
    /\ merges < MaxMerges
    /\ head # desired
    /\ request' = [request EXCEPT ![r] =
                     [base |-> desired, head |-> head, rendered |-> rendered, passed |-> FALSE]]
    /\ UNCHANGED <<main, cluster>>

\* The workflow checks main out, performs the transition, and validates and
\* renders the catalog it got before it opens the request.
Dispatch(a, action) ==
    /\ MayTransition(desired.doc[a], action)
    /\ LET head == Transition(desired, a, action)
       IN  /\ Valid(head) /\ Renderable(head)
           /\ OpenRequest("workflow", head, TRUE)

\* People write what passes the schema: one document, a switch between two
\* assignments, or what the identity or customer allows; they may forget to
\* render it.
Writable == {d \in Document : d.lifecycle \in Proposable /\ FollowsSchema(d)}

Switched(a, b, n) ==
    [desired EXCEPT !.doc[a] = [@ EXCEPT !.lifecycle = "stopped", !.signing = FALSE],
                    !.doc[b] = [lifecycle |-> "active", nodePair |-> n,
                                signing |-> desired.doc[a].signing]]

Edits == {[desired EXCEPT !.doc[a] = d] : a \in Assignment, d \in Writable}
Switches == UNION {{Switched(a, b, n) : b \in Assignment \ {a}, n \in NodePair} : a \in Assignment}
Rulings == {[desired EXCEPT !.standing[v] = s] : v \in Validator, s \in Standing}

Propose(r) ==
    /\ r # "workflow"
    /\ \E head \in Edits \cup Switches \cup Rulings, rendered \in BOOLEAN :
          /\ ~rendered => Forgetful /\ Projection(head) # projection
          /\ OpenRequest(r, head, rendered)

\* Git merges line by line: what only one side changed is taken from it.
Agrees(base, head, current) == \A x, y \in {head, current} \ {base} : x = y
Pick(base, head, current) == IF head = base THEN current ELSE head

Mergeable(b, h, c) ==
    /\ \A a \in Assignment : \A f \in {"lifecycle", "signing", "nodePair"} :
          Agrees(b.doc[a][f], h.doc[a][f], c.doc[a][f])
    /\ \A v \in Validator : Agrees(b.standing[v], h.standing[v], c.standing[v])

MergedCatalog(q) ==
    [doc |-> [a \in Assignment |->
                [f \in {"lifecycle", "signing", "nodePair"} |->
                    Pick(q.base.doc[a][f], q.head.doc[a][f], desired.doc[a][f])]],
     standing |-> [v \in Validator |->
                    Pick(q.base.standing[v], q.head.standing[v], desired.standing[v])]]

MergedProjection(q) == IF q.rendered THEN Projection(MergedCatalog(q)) ELSE projection

\* Mutation: CI looks at the branch alone, not at its merge with main.
BranchPasses(q) ==
    /\ Mergeable(q.base, q.head, desired)
    /\ Valid(q.head) /\ Renderable(q.head)
    /\ MergedProjection(q) = Projection(MergedCatalog(q))

\* Mutation: nobody compares the committed projection with one rendered anew.
PassesUnrendered(q) ==
    /\ Mergeable(q.base, q.head, desired)
    /\ Valid(MergedCatalog(q)) /\ Renderable(MergedCatalog(q))

\* CI validates the merge of the branch with main and compares the committed
\* projection with one rendered anew.
Passes(q) ==
    /\ Mergeable(q.base, q.head, desired)
    /\ Valid(MergedCatalog(q)) /\ Renderable(MergedCatalog(q))
    /\ MergedProjection(q) = Projection(MergedCatalog(q))

Check(r) ==
    /\ request[r] # None
    /\ ~request[r].passed
    /\ Passes(request[r])
    /\ request' = [request EXCEPT ![r].passed = TRUE]
    /\ UNCHANGED <<main, cluster>>

\* Mutation: the HelmRelease is as main wants it, but nobody asks which revision
\* the Kustomization is at.
SettledByLooks(b) ==
    /\ release[b] = projection[b]
    /\ installed[b] = release[b]
    /\ previous[b] = None
    /\ client[b] = {}

\* Whoever is careful starts a validator client only where the Kustomization is
\* at the revision of main (no older one is fetched or being applied), the Helm
\* release has followed, no upgrade is open and no Pod is left.
Settled(b) ==
    /\ fetched[b] = projection[b]
    /\ applying[b] = projection[b]
    /\ release[b] = projection[b]
    /\ installed[b] = release[b]
    /\ previous[b] = None
    /\ client[b] = {}

BreaksBeforeMaking(p) ==
    \A a \in Assignment : RunsClient(p[a]) /\ p[a] # projection[a] =>
        \A b \in Assignment : ValidatorOf[b] = ValidatorOf[a] =>
            ~RunsClient(projection[b]) /\ Settled(b)

\* A merge of checks that are up to date: every other request has to be checked
\* against the new main.
Merge(r) ==
    /\ request[r] # None
    /\ request[r].passed
    /\ merges < MaxMerges
    /\ desired' = MergedCatalog(request[r])
    /\ LET p == MergedProjection(request[r])
       IN  /\ Careful => BreaksBeforeMaking(p)
           /\ projection' = p
           /\ decided' = decided \cup
                {projection[a].fullname : a \in {b \in Assignment :
                    /\ r # "workflow"
                    /\ \/ p[b].fullname # projection[b].fullname
                       \/ desired'.doc[b].lifecycle = "archived"}}
    /\ request' = [q \in Requester |->
                     IF q = r \/ request[q] = None THEN None
                     ELSE [request[q] EXCEPT !.passed = FALSE]]
    /\ merges' = merges + 1
    /\ UNCHANGED cluster

Close(r) ==
    /\ request[r] # None
    /\ request' = [request EXCEPT ![r] = None]
    /\ UNCHANGED <<main, cluster>>

----------------------------------------------------------------------------
(* Flux and Helm                                                           *)

\* The GitRepository polls main: its artifact is main of that moment.
Fetch ==
    /\ fetched # projection
    /\ fetched' = projection
    /\ UNCHANGED <<main, request, applying, release, helm>>

\* A reconciliation of the Kustomization starts from the artifact of that moment,
\* whether or not the one before came to its end.
StartReconciliation ==
    /\ applying # fetched
    /\ applying' = fetched
    /\ UNCHANGED <<main, request, fetched, release, helm>>

\* The Kustomization applies the HelmReleases of the revision it works from, one
\* object after the other, whatever was merged or fetched since it started.  A
\* changed HelmRelease gets its attempts back.
FluxApply(a) ==
    /\ release[a] # applying[a]
    /\ release' = [release EXCEPT ![a] = applying[a]]
    /\ failed' = [failed EXCEPT ![a] = FALSE]
    /\ UNCHANGED <<main, request, flux, installed, previous, client, data>>

\* Pods after the manifests of `old` were replaced by those of `new`.
Pods(a, old, new) ==
    LET kept == RunsClient(old) /\ RunsClient(new) /\ old.fullname = new.fullname
        ends == "ending" \in client[a] \/ ("up" \in client[a] /\ ~kept)
    IN  {p \in {"up", "ending"} : IF p = "up" THEN RunsClient(new) ELSE ends}

\* Every release but an archived one renders the volume claims of its node pair.
Volumes(values) == IF values.lifecycle \in {"active", "stopped"} THEN {values.fullname} ELSE {}

\* Mutation: an upgrade that stops a release waits for its claims as well.
WaitsToStop(a) == "active" \in {installed[a].lifecycle, release[a].lifecycle}

\* Only an active release waits for its workload before it counts as upgraded.
Waits(a) == release[a].lifecycle = "active"

\* helm upgrade: objects that belong to another release are not taken over.
\* Until the release is ready a claim it is the first to make holds no chain data.
Upgrade(a) ==
    /\ installed[a] # release[a]
    /\ previous[a] = None
    /\ ~failed[a]
    /\ \A b \in Assignment \ {a} : installed[b].fullname # release[a].fullname
    /\ installed' = [installed EXCEPT ![a] = release[a]]
    /\ client' = [client EXCEPT ![a] = Pods(a, installed[a], release[a])]
    /\ previous' = [previous EXCEPT ![a] = IF Waits(a) THEN installed[a] ELSE None]
    /\ data' = data \ (Volumes(installed[a]) \ Volumes(release[a]))
    /\ UNCHANGED <<main, request, flux, release, failed>>

\* The workload became ready in time, and has chain data.
Ready(a) ==
    /\ previous[a] # None
    /\ previous' = [previous EXCEPT ![a] = None]
    /\ data' = data \cup Volumes(installed[a])
    /\ UNCHANGED <<main, request, flux, release, installed, failed, client>>

\* It did not: the controller goes back to the previous release (or uninstalls
\* the first one), and tries again until its attempts are used up.
RollBack(a) ==
    /\ previous[a] # None
    /\ installed' = [installed EXCEPT ![a] = previous[a]]
    /\ client' = [client EXCEPT ![a] = Pods(a, installed[a], previous[a])]
    /\ data' = data \ (Volumes(installed[a]) \ Volumes(previous[a]))
    /\ previous' = [previous EXCEPT ![a] = None]
    /\ \E gaveUp \in BOOLEAN :
          failed' = [failed EXCEPT ![a] = gaveUp /\ installed[a] = release[a]]
    /\ UNCHANGED <<main, request, flux, release>>

\* A Pod is gone after its grace period.
PodEnds(a) ==
    /\ "ending" \in client[a]
    /\ client' = [client EXCEPT ![a] = @ \ {"ending"}]
    /\ UNCHANGED <<main, request, flux, release, installed, previous, failed, data>>

----------------------------------------------------------------------------

Requests ==
    \/ \E a \in Assignment, action \in Action : Dispatch(a, action)
    \/ \E r \in Requester : Propose(r) \/ Check(r) \/ Merge(r) \/ Close(r)

Next ==
    \/ Requests
    \/ Fetch \/ StartReconciliation
    \/ \E a \in Assignment :
          FluxApply(a) \/ Upgrade(a) \/ Ready(a) \/ RollBack(a) \/ PodEnds(a)

Spec == Init /\ [][Next]_vars

\* Flux polls, reconciles and retries every interval, an upgrade is ready or
\* times out, Pods end.
Fairness ==
    /\ WF_vars(Fetch)
    /\ WF_vars(StartReconciliation)
    /\ \A a \in Assignment :
        /\ WF_vars(FluxApply(a))
        /\ WF_vars(Upgrade(a))
        /\ WF_vars(Ready(a) \/ RollBack(a))
        /\ WF_vars(PodEnds(a))

FairSpec == Spec /\ Fairness

----------------------------------------------------------------------------
(* Properties                                                              *)

\* What is on main satisfies the catalog rules and is what the renderer makes of
\* it, whichever order requests and merges come in (CI, --check).
DesiredStateIsValid ==
    /\ Valid(desired)
    /\ projection = Projection(desired)

Converged ==
    \A a \in Assignment :
        installed[a] = projection[a] /\ previous[a] = None /\ "ending" \notin client[a]

\* Once the cluster has followed main, the validator clients that run are those
\* the catalog wants to sign, of eligible validators, one for each of them.
ConvergedFleetIsSafe ==
    Converged =>
        /\ \A a \in Assignment : client[a] # {} =>
              desired.doc[a].signing /\ desired.standing[ValidatorOf[a]] = "eligible"
        /\ \A a, b \in Assignment : client[a] # {} /\ client[b] # {} =>
              ValidatorOf[a] # ValidatorOf[b] \/ a = b

\* No two assignments of a validator ever have clients, not even for a grace
\* period, if whoever starts one waits until the Kustomization is at main and the
\* cluster has settled without any: no rollback, no late upgrade and no revision
\* fetched earlier brings an old one back (PRD invariants 1, 3).
OneClientPerValidator ==
    Careful => \A a, b \in Assignment :
        client[a] # {} /\ client[b] # {} => ValidatorOf[a] # ValidatorOf[b] \/ a = b

\* What the workflow requested stops no validator client and starts none,
\* whatever was merged between its checkout and its merge.
WorkflowLeavesSigners ==
    [][Merge("workflow") =>
         \A a \in Assignment :
             RunsClient(projection[a]) \/ RunsClient(projection'[a]) =>
                projection'[a] = projection[a]]_vars

\* Chain data is given up only where people archived or renamed the node pair:
\* no stop, switch, failed upgrade or workflow request loses it.
DataGoesOnlyByDecision ==
    [][\A n \in data \ data' : n \in decided]_vars

\* A client that main wants stopped is gone for good in the end, and no rollback
\* revives it, unless another release owns the name of its node pair.
StopIsCarriedOut ==
    \A a \in Assignment :
        <>[](/\ projection[a].lifecycle # "active"
             /\ \A b \in Assignment \ {a} : installed[b].fullname # projection[a].fullname)
        => <>[](client[a] = {})
============================================================================
