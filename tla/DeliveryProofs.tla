--------------------------- MODULE DeliveryProofs ---------------------------
(***************************************************************************)
(* What CI, Flux and Helm together guarantee of main, of the validator     *)
(* clients and of the chain data, for any assignments, validators and      *)
(* requesters and any number of merges.                                    *)
(***************************************************************************)
EXTENDS Delivery, TLAPS

----------------------------------------------------------------------------
(* Types                                                                   *)

\* The name of an assignment in the cluster is a node pair.
LEMMA FullnameType ==
    ASSUME NEW c \in Desired, NEW a \in Assignment
    PROVE  Fullname(c, a) \in NodePair
BY References DEF Fullname, Desired, Document

\* What the renderer writes is a release for every assignment.
LEMMA ProjectionType == ASSUME NEW c \in Desired PROVE Projection(c) \in [Assignment -> Values]
<1> SUFFICES ASSUME NEW a \in Assignment PROVE BuildRelease(c, a) \in Values
  BY DEF Projection
<1>1. c.doc[a] \in Document
  BY DEF Desired
<1>2. ChartLifecycle(c.doc[a].lifecycle) \in {"active", "stopped", "archived"}
  BY DEF ChartLifecycle
<1> QED
  BY <1>1, <1>2, FullnameType DEF BuildRelease, Values, Document

\* A transition of the workflow leaves a well-formed catalog.
LEMMA TransitionType ==
    ASSUME NEW c \in Desired, NEW a \in Assignment, NEW action \in Action,
           MayTransition(c.doc[a], action)
    PROVE  Transition(c, a, action) \in Desired
<1>1. c.doc[a] \in Document
  BY DEF Desired
<1>2. Target(c.doc[a].lifecycle, action) \in Lifecycle
  BY <1>1 DEF Target, Action, MayTransition, Document, Lifecycle
<1>3. Fullname(c, a) \in NodePair
  BY FullnameType
<1> QED
  BY <1>1, <1>2, <1>3 DEF Transition, Desired, Document

\* So does whatever a person proposes.
LEMMA ProposalType ==
    ASSUME desired \in Desired
    PROVE  Edits \cup Switches \cup Rulings \subseteq Desired
<1>1. Edits \subseteq Desired
  BY DEF Edits, Writable, Desired
<1>2. ASSUME NEW a \in Assignment, NEW b \in Assignment, NEW n \in NodePair
      PROVE  Switched(a, b, n) \in Desired
  <2> DEFINE off == [desired.doc[a] EXCEPT !.lifecycle = "stopped", !.signing = FALSE]
             on == [lifecycle |-> "active", nodePair |-> n, signing |-> desired.doc[a].signing]
  <2>1. off \in Document /\ on \in Document
    <3>1. desired.doc[a] \in Document
      BY DEF Desired
    <3> QED
      BY <3>1 DEF Document, Lifecycle
  <2>2. Switched(a, b, n) = [desired EXCEPT !.doc[a] = off, !.doc[b] = on]
    BY DEF Switched
  <2> HIDE DEF off, on
  <2>3. /\ desired = [doc |-> desired.doc, standing |-> desired.standing]
        /\ desired.doc \in [Assignment -> Document]
        /\ desired.standing \in [Validator -> Standing]
    BY DEF Desired
  <2> DEFINE doc == [desired.doc EXCEPT ![a] = off, ![b] = on]
  <2>4. doc \in [Assignment -> Document]
    BY <2>1, <2>3
  <2>5. Switched(a, b, n) = [doc |-> doc, standing |-> desired.standing]
    BY <2>2, <2>3
  <2> HIDE DEF doc
  <2> QED
    BY <2>3, <2>4, <2>5 DEF Desired
<1>3. Switches \subseteq Desired
  BY <1>2 DEF Switches
<1>4. Rulings \subseteq Desired
  BY DEF Rulings, Desired
<1> QED
  BY <1>1, <1>3, <1>4

\* And so does a field-wise merge, with the releases that come with it.
LEMMA MergedType ==
    ASSUME TypeOK, NEW q \in Request
    PROVE  /\ MergedCatalog(q) \in Desired
           /\ MergedProjection(q) \in [Assignment -> Values]
<1>1. MergedCatalog(q) \in Desired
  BY DEF TypeOK, MergedCatalog, Pick, Request, Desired, Document
<1> QED
  BY <1>1, ProjectionType DEF MergedProjection, TypeOK

\* Opening a request keeps the types.
LEMMA OpenRequestType ==
    ASSUME TypeOK, NEW r, NEW head \in Desired, NEW rendered \in BOOLEAN,
           OpenRequest(r, head, rendered)
    PROVE  TypeOK'
<1>1. request' \in [Requester -> Request \cup {None}]
  BY DEF OpenRequest, TypeOK, Request
<1> QED
  BY <1>1 DEF OpenRequest, TypeOK, main, cluster, flux, helm

\* Pods run or end.
LEMMA PodsType ==
    ASSUME NEW a, NEW old, NEW new
    PROVE  Pods(a, old, new) \subseteq {"up", "ending"}
BY DEF Pods

\* Volumes belong to node pairs.
LEMMA VolumesType ==
    ASSUME NEW v \in Values \cup {NoRelease}
    PROVE  Volumes(v) \subseteq NodePair
BY DEF Volumes, Values, NoRelease

\* The types hold initially,
LEMMA TypeInit == Init => TypeOK
<1> SUFFICES ASSUME Init PROVE TypeOK
  OBVIOUS
<1>1. desired \in Desired
  BY DEF Init, Desired, Document, Lifecycle, Standing
<1>2. /\ projection \in [Assignment -> Values]
      /\ fetched = projection
      /\ applying = projection
  BY <1>1, ProjectionType DEF Init
<1>3. /\ release = installed
      /\ installed \in [Assignment -> Values \cup {NoRelease}]
      /\ previous \in [Assignment -> Values \cup {NoRelease, None}]
  BY DEF Init
<1>4. /\ request \in [Requester -> Request \cup {None}]
      /\ merges \in 0..MaxMerges
      /\ failed \in [Assignment -> BOOLEAN]
      /\ client \in [Assignment -> SUBSET {"up", "ending"}]
      /\ data \subseteq NodePair
      /\ decided \subseteq NodePair
  BY BoundIsNumber DEF Init
<1> QED
  BY <1>1, <1>2, <1>3, <1>4 DEF TypeOK

\* and every step keeps them.
LEMMA TypeStep == TypeOK /\ [Next]_vars => TypeOK'
<1> SUFFICES ASSUME TypeOK, [Next]_vars PROVE TypeOK'
  OBVIOUS
<1>1. ASSUME NEW a \in Assignment, NEW action \in Action, Dispatch(a, action) PROVE TypeOK'
  BY <1>1, TransitionType, OpenRequestType DEF Dispatch, TypeOK
<1>2. ASSUME NEW r \in Requester, Propose(r) PROVE TypeOK'
  <2>1. PICK head \in Edits \cup Switches \cup Rulings, rendered \in BOOLEAN :
           OpenRequest(r, head, rendered)
    BY <1>2 DEF Propose
  <2> QED
    BY <2>1, ProposalType, OpenRequestType DEF TypeOK
<1>3. ASSUME NEW r \in Requester, Check(r) PROVE TypeOK'
  <2>1. request[r] \in Request
    BY <1>3 DEF Check, TypeOK
  <2>2. [request[r] EXCEPT !.passed = TRUE] \in Request
    BY <2>1 DEF Request
  <2>3. request' \in [Requester -> Request \cup {None}]
    BY <1>3, <2>2 DEF Check, TypeOK
  <2> QED
    BY <1>3, <2>3 DEF Check, TypeOK, main, cluster, flux, helm
<1>4. ASSUME NEW r \in Requester, Merge(r) PROVE TypeOK'
  <2>1. request[r] \in Request
    BY <1>4 DEF Merge, TypeOK
  <2>2. desired' \in Desired /\ projection' \in [Assignment -> Values]
    BY <1>4, <2>1, MergedType DEF Merge
  <2>3. request' \in [Requester -> Request \cup {None}]
    <3>1. ASSUME NEW q \in Requester, request[q] # None
          PROVE  [request[q] EXCEPT !.passed = FALSE] \in Request
      BY <3>1 DEF TypeOK, Request
    <3> QED
      BY <1>4, <3>1 DEF Merge
  <2>4. decided' \subseteq NodePair
    <3>1. \A b \in Assignment : projection[b].fullname \in NodePair
      BY DEF TypeOK, Values
    <3>2. decided' \subseteq decided \cup {projection[b].fullname : b \in Assignment}
      BY <1>4 DEF Merge
    <3> QED
      BY <3>1, <3>2 DEF TypeOK
  <2>5. merges' \in 0..MaxMerges
    BY <1>4, BoundIsNumber DEF Merge, TypeOK
  <2>6. UNCHANGED cluster
    BY <1>4 DEF Merge
  <2> QED
    BY <2>2, <2>3, <2>4, <2>5, <2>6 DEF TypeOK, cluster, flux, helm
<1>5. ASSUME NEW r \in Requester, Close(r) PROVE TypeOK'
  BY <1>5 DEF Close, TypeOK, main, cluster, flux, helm
<1>f. CASE Fetch \/ StartReconciliation
  BY <1>f DEF Fetch, StartReconciliation, TypeOK, main, flux, helm
<1>6. ASSUME NEW a \in Assignment, FluxApply(a) PROVE TypeOK'
  BY <1>6 DEF FluxApply, TypeOK, main, flux
<1>7. ASSUME NEW a \in Assignment, Upgrade(a) PROVE TypeOK'
  BY <1>7, PodsType, VolumesType DEF Upgrade, TypeOK, main, flux
<1>8. ASSUME NEW a \in Assignment, Ready(a) PROVE TypeOK'
  BY <1>8, VolumesType DEF Ready, TypeOK, main, flux
<1>9. ASSUME NEW a \in Assignment, RollBack(a) PROVE TypeOK'
  <2>1. previous[a] \in Values \cup {NoRelease}
    BY <1>9 DEF RollBack, TypeOK
  <2>2. installed' \in [Assignment -> Values \cup {NoRelease}]
    BY <1>9, <2>1 DEF RollBack, TypeOK
  <2>3. client' \in [Assignment -> SUBSET {"up", "ending"}]
    BY <1>9, PodsType DEF RollBack, TypeOK
  <2>4. failed' \in [Assignment -> BOOLEAN]
    BY <1>9 DEF RollBack, TypeOK
  <2> QED
    BY <1>9, <2>2, <2>3, <2>4 DEF RollBack, TypeOK, main, flux
<1>10. ASSUME NEW a \in Assignment, PodEnds(a) PROVE TypeOK'
  BY <1>10 DEF PodEnds, TypeOK, main, flux
<1>11. CASE UNCHANGED vars
  BY <1>11 DEF vars, TypeOK, main, cluster, flux, helm
<1> QED
  BY <1>1, <1>2, <1>3, <1>4, <1>5, <1>f, <1>6, <1>7, <1>8, <1>9, <1>10, <1>11
     DEF Next, Requests

\* Main, the requests and the cluster keep their shape, whatever is requested,
\* merged, applied and rolled back in which order.
THEOREM DeliveryTypeCorrect == Spec => []TypeOK
BY TypeInit, TypeStep, PTL DEF Spec

----------------------------------------------------------------------------
(* Main                                                                    *)

\* A request that counts as checked passes on the main of this moment.
ChecksAreCurrent ==
    \A r \in Requester : request[r] # None /\ request[r].passed => Passes(request[r])

\* What the workflow asks for is one transition of an assignment that did not
\* sign on the main it checked out.
WorkflowRequest(q) ==
    \E a \in Assignment, action \in Action :
        /\ MayTransition(q.base.doc[a], action)
        /\ q.head = Transition(q.base, a, action)

WorkflowAsksTransitions ==
    "workflow" \in Requester /\ request["workflow"] # None => WorkflowRequest(request["workflow"])

MainInv == DesiredStateIsValid /\ ChecksAreCurrent /\ WorkflowAsksTransitions

\* Whether a request passes depends on main and the request alone.
LEMMA PassesKept ==
    ASSUME NEW q, UNCHANGED <<desired, projection>>
    PROVE  Passes(q)' = Passes(q)
BY DEF Passes, Mergeable, MergedProjection, MergedCatalog

\* Nobody's request changes but for losing its standing, and main does not.
LEMMA MainKept ==
    ASSUME MainInv, UNCHANGED <<desired, projection>>,
           \A r \in Requester : request'[r] = None \/ request'[r] = request[r]
    PROVE  MainInv'
<1>1. DesiredStateIsValid'
  BY DEF MainInv, DesiredStateIsValid
<1>2. ASSUME NEW r \in Requester, request'[r] # None, request'[r].passed
      PROVE  Passes(request[r])'
  <2> DEFINE q == request[r]
  <2>1. Passes(q)
    BY <1>2 DEF MainInv, ChecksAreCurrent
  <2>2. q' = q
    BY <1>2
  <2> QED
    BY <2>1, <2>2 DEF Passes, Mergeable, MergedProjection, MergedCatalog
<1>3. WorkflowAsksTransitions'
  BY DEF MainInv, WorkflowAsksTransitions
<1> QED
  BY <1>1, <1>2, <1>3 DEF MainInv, ChecksAreCurrent

\* A request that is opened has not been checked, and the workflow asks for a transition.
LEMMA MainOpen ==
    ASSUME MainInv, TypeOK, NEW r, NEW head, NEW rendered, OpenRequest(r, head, rendered),
           r = "workflow" => WorkflowRequest([base |-> desired, head |-> head,
                                              rendered |-> rendered, passed |-> FALSE])
    PROVE  MainInv'
<1> DEFINE new == [base |-> desired, head |-> head, rendered |-> rendered, passed |-> FALSE]
<1>1. /\ r \in Requester
      /\ request'[r] = new
      /\ \A s \in Requester \ {r} : request'[s] = request[s]
      /\ UNCHANGED <<desired, projection>>
  BY DEF OpenRequest, TypeOK, main, flux
<1>2. ~request'[r].passed
  BY <1>1
<1>3. ASSUME NEW s \in Requester \ {r}, request'[s] # None, request'[s].passed
      PROVE  Passes(request[s])'
  <2> DEFINE q == request[s]
  <2>1. Passes(q)
    BY <1>1, <1>3 DEF MainInv, ChecksAreCurrent
  <2>2. q' = q
    BY <1>1, <1>3
  <2> QED
    BY <1>1, <2>1, <2>2 DEF Passes, Mergeable, MergedProjection, MergedCatalog
<1>4. DesiredStateIsValid'
  BY <1>1 DEF MainInv, DesiredStateIsValid
<1>5. WorkflowAsksTransitions'
  BY <1>1 DEF MainInv, WorkflowAsksTransitions
<1> QED
  BY <1>2, <1>3, <1>4, <1>5 DEF MainInv, ChecksAreCurrent

\* Main is valid and rendered initially, with no request open.
LEMMA MainInit == Init => MainInv
<1> SUFFICES ASSUME Init PROVE MainInv
  OBVIOUS
<1>1. Valid(desired)
  BY DEF Init, Valid, SchemaValid, FollowsSchema, RelationsValid, Live, LiveStates
<1> QED
  BY <1>1 DEF Init, MainInv, DesiredStateIsValid, ChecksAreCurrent, WorkflowAsksTransitions

\* Nothing that happens in the cluster changes main or a request.
LEMMA ClusterLeavesMain ==
    ASSUME NEW a, \/ Fetch \/ StartReconciliation \/ FluxApply(a)
                  \/ Upgrade(a) \/ Ready(a) \/ RollBack(a) \/ PodEnds(a)
    PROVE  UNCHANGED <<main, request>>
BY DEF Fetch, StartReconciliation, FluxApply, Upgrade, Ready, RollBack, PodEnds

\* Fetching a revision and starting from it does nothing yet to releases and Pods.
LEMMA FluxLeavesHelm ==
    ASSUME Fetch \/ StartReconciliation
    PROVE  UNCHANGED <<main, request, release, helm>>
BY DEF Fetch, StartReconciliation

\* Main stays valid: what merges passed on this very main.
LEMMA MainStep == TypeOK /\ MainInv /\ [Next]_vars => MainInv'
<1> SUFFICES ASSUME TypeOK, MainInv, [Next]_vars PROVE MainInv'
  OBVIOUS
<1>1. ASSUME NEW a \in Assignment, NEW action \in Action, Dispatch(a, action) PROVE MainInv'
  <2> DEFINE head == Transition(desired, a, action)
             new == [base |-> desired, head |-> head, rendered |-> TRUE, passed |-> FALSE]
  <2>1. OpenRequest("workflow", head, TRUE) /\ MayTransition(desired.doc[a], action)
    BY <1>1 DEF Dispatch
  <2>2. new.base = desired /\ new.head = head
    OBVIOUS
  <2>3. WorkflowRequest(new)
    BY <2>1, <2>2 DEF WorkflowRequest
  <2> HIDE DEF head
  <2> QED
    BY <2>1, <2>3, MainOpen
<1>2. ASSUME NEW r \in Requester, Propose(r) PROVE MainInv'
  BY <1>2, MainOpen DEF Propose
<1>3. ASSUME NEW r \in Requester, Check(r) PROVE MainInv'
  <2>1. /\ request'[r] = [request[r] EXCEPT !.passed = TRUE]
        /\ \A s \in Requester \ {r} : request'[s] = request[s]
        /\ UNCHANGED <<desired, projection>>
    BY <1>3 DEF Check, TypeOK, main, flux
  <2>2. request[r] \in Request /\ Passes(request[r])
    BY <1>3 DEF Check, TypeOK
  <2>3. /\ request'[r].base = request[r].base
        /\ request'[r].head = request[r].head
        /\ request'[r].rendered = request[r].rendered
    BY <2>1, <2>2 DEF Request
  <2>4. Passes(request[r])'
    BY <2>1, <2>2, <2>3 DEF Passes, Mergeable, MergedProjection, MergedCatalog
  <2>5. ASSUME NEW s \in Requester \ {r}, request'[s] # None, request'[s].passed
        PROVE  Passes(request[s])'
    <3> DEFINE q == request[s]
    <3>1. Passes(q)
      BY <2>1, <2>5 DEF MainInv, ChecksAreCurrent
    <3>2. q' = q
      BY <2>1, <2>5
    <3> QED
      BY <2>1, <3>1, <3>2 DEF Passes, Mergeable, MergedProjection, MergedCatalog
  <2>6. DesiredStateIsValid'
    BY <2>1 DEF MainInv, DesiredStateIsValid
  <2>7. WorkflowAsksTransitions'
    <3>1. request[r] # None
      BY <1>3 DEF Check
    <3> QED
      BY <2>1, <2>3, <3>1 DEF MainInv, WorkflowAsksTransitions, WorkflowRequest
  <2> QED
    BY <2>4, <2>5, <2>6, <2>7 DEF MainInv, ChecksAreCurrent
<1>4. ASSUME NEW r \in Requester, Merge(r) PROVE MainInv'
  <2>1. Passes(request[r])
    BY <1>4 DEF Merge, MainInv, ChecksAreCurrent
  <2>2. DesiredStateIsValid'
    BY <1>4, <2>1 DEF Merge, Passes, DesiredStateIsValid
  <2>3. ASSUME NEW s \in Requester, request'[s] # None
        PROVE  /\ request[s] # None
               /\ request'[s] = [request[s] EXCEPT !.passed = FALSE]
    BY <1>4, <2>3 DEF Merge
  <2>4. ASSUME NEW s \in Requester, request'[s] # None
        PROVE  /\ ~request'[s].passed
               /\ request'[s].base = request[s].base
               /\ request'[s].head = request[s].head
    BY <2>3, <2>4 DEF TypeOK, Request
  <2>5. WorkflowAsksTransitions'
    BY <2>3, <2>4 DEF MainInv, WorkflowAsksTransitions, WorkflowRequest
  <2> QED
    BY <2>2, <2>4, <2>5 DEF MainInv, ChecksAreCurrent
<1>5. ASSUME NEW r \in Requester, Close(r) PROVE MainInv'
  BY <1>5, MainKept DEF Close, TypeOK, main, flux
<1>6. CASE UNCHANGED <<main, request>>
  BY <1>6, MainKept DEF main, flux
<1> QED
  BY <1>1, <1>2, <1>3, <1>4, <1>5, <1>6, ClusterLeavesMain
     DEF Next, Requests, vars, main, cluster, flux, helm

\* Whatever is requested, checked and merged in which order, main satisfies the
\* catalog rules and its releases are what the renderer makes of it.
THEOREM MainIsValid == Spec => []DesiredStateIsValid
<1>1. MainInv => DesiredStateIsValid
  BY DEF MainInv
<1> QED
  BY TypeInit, TypeStep, MainInit, MainStep, <1>1, PTL DEF Spec

----------------------------------------------------------------------------
(* Validator clients                                                       *)

\* Pods that are not ending are those of the installed release.
PodsFollowRelease ==
    \A a \in Assignment : "up" \in client[a] <=> RunsClient(installed[a])

\* After an upgrade or a rollback a client runs iff its release says so.
LEMMA PodsRun ==
    ASSUME NEW a, NEW old, NEW new
    PROVE  "up" \in Pods(a, old, new) <=> RunsClient(new)
BY DEF Pods

\* Nothing is installed and nothing runs initially,
LEMMA PodsInit == Init => PodsFollowRelease
<1>1. ~RunsClient(NoRelease)
  BY DEF RunsClient, NoRelease
<1> QED
  BY <1>1 DEF Init, PodsFollowRelease

\* and every step keeps Pods with their release.
LEMMA PodsStep == TypeOK /\ PodsFollowRelease /\ [Next]_vars => PodsFollowRelease'
<1> SUFFICES ASSUME TypeOK, PodsFollowRelease, [Next]_vars PROVE PodsFollowRelease'
  OBVIOUS
<1>1. CASE UNCHANGED <<installed, client>>
  BY <1>1 DEF PodsFollowRelease
<1>2. ASSUME NEW a \in Assignment, Upgrade(a) \/ RollBack(a) PROVE PodsFollowRelease'
  <2>1. /\ "up" \in client'[a] <=> RunsClient(installed'[a])
        /\ \A b \in Assignment \ {a} :
              installed'[b] = installed[b] /\ client'[b] = client[b]
    BY <1>2, PodsRun DEF Upgrade, RollBack, TypeOK
  <2> QED
    BY <2>1 DEF PodsFollowRelease
<1>3. ASSUME NEW a \in Assignment, PodEnds(a) PROVE PodsFollowRelease'
  <2>1. /\ "up" \in client'[a] <=> "up" \in client[a]
        /\ \A b \in Assignment \ {a} : client'[b] = client[b]
        /\ UNCHANGED installed
    BY <1>3 DEF PodEnds, TypeOK
  <2> QED
    BY <2>1 DEF PodsFollowRelease
<1>4. Requests => UNCHANGED <<installed, client>>
  BY DEF Requests, Dispatch, Propose, OpenRequest, Check, Merge, Close, cluster, flux, helm
<1>5. ASSUME NEW a, FluxApply(a) \/ Ready(a) PROVE UNCHANGED <<installed, client>>
  BY <1>5 DEF FluxApply, Ready
<1>6. Fetch \/ StartReconciliation => UNCHANGED <<installed, client>>
  BY FluxLeavesHelm DEF helm
<1> QED
  BY <1>1, <1>2, <1>3, <1>4, <1>5, <1>6 DEF Next, vars, main, cluster, flux, helm

\* Once the cluster has followed main, the clients that run are those the
\* catalog wants to sign, of eligible validators, one for each of them.
THEOREM ConvergedFleetSafe == Spec => []ConvergedFleetIsSafe
<1>1. TypeOK /\ MainInv /\ PodsFollowRelease => ConvergedFleetIsSafe
  <2> SUFFICES ASSUME TypeOK, MainInv, PodsFollowRelease, Converged
               PROVE  /\ \A a \in Assignment : client[a] # {} =>
                            /\ desired.doc[a].signing
                            /\ desired.standing[ValidatorOf[a]] = "eligible"
                      /\ \A a, b \in Assignment : client[a] # {} /\ client[b] # {} =>
                            ValidatorOf[a] # ValidatorOf[b] \/ a = b
    BY DEF ConvergedFleetIsSafe
  <2>1. ASSUME NEW a \in Assignment, client[a] # {}
        PROVE  desired.doc[a].signing /\ desired.doc[a].lifecycle = "active"
    <3>1. "up" \in client[a]
      BY <2>1 DEF TypeOK, Converged
    <3>2. RunsClient(projection[a])
      BY <3>1 DEF PodsFollowRelease, Converged
    <3>3. RunsClient(BuildRelease(desired, a))
      BY <3>2 DEF MainInv, DesiredStateIsValid, Projection
    <3> QED
      BY <3>3 DEF RunsClient, BuildRelease, ChartLifecycle
  <2> QED
    BY <2>1 DEF MainInv, DesiredStateIsValid, Valid, RelationsValid, Live, LiveStates
<1> QED
  BY TypeInit, TypeStep, MainInit, MainStep, PodsInit, PodsStep, <1>1, PTL DEF Spec

\* A client of this assignment runs, is wanted, is on its way or may come back.
Hot(a) ==
    \/ RunsClient(projection[a]) \/ RunsClient(fetched[a]) \/ RunsClient(applying[a])
    \/ RunsClient(release[a]) \/ RunsClient(installed[a])
    \/ previous[a] # None /\ RunsClient(previous[a])
    \/ client[a] # {}

OneHotPerValidator ==
    \A a, b \in Assignment : Hot(a) /\ Hot(b) /\ ValidatorOf[a] = ValidatorOf[b] => a = b

\* There are Pods only of a new release that runs a client or of before.
LEMMA PodsComeFromReleases ==
    ASSUME NEW a, NEW old, NEW new, Pods(a, old, new) # {}
    PROVE  RunsClient(new) \/ client[a] # {}
BY DEF Pods

\* Flux and Helm only carry on what is there already.
LEMMA ClusterHeatsNothing ==
    ASSUME TypeOK, NEW a \in Assignment,
           \/ Fetch \/ StartReconciliation \/ FluxApply(a)
           \/ Upgrade(a) \/ Ready(a) \/ RollBack(a) \/ PodEnds(a)
    PROVE  \A b \in Assignment : Hot(b)' => Hot(b)
<1>f. CASE Fetch \/ StartReconciliation
  BY <1>f DEF Fetch, StartReconciliation, Hot, main, flux, helm
<1>1. CASE FluxApply(a)
  BY <1>1 DEF FluxApply, Hot, TypeOK, main, flux
<1>2. CASE Upgrade(a)
  <2>1. client'[a] # {} => RunsClient(release[a]) \/ client[a] # {}
    BY <1>2, PodsComeFromReleases DEF Upgrade, TypeOK
  <2>2. /\ installed'[a] = release[a]
        /\ previous'[a] \in {installed[a], None}
        /\ \A b \in Assignment \ {a} : /\ installed'[b] = installed[b]
                                       /\ previous'[b] = previous[b]
                                       /\ client'[b] = client[b]
        /\ UNCHANGED <<projection, fetched, applying, release>>
    BY <1>2 DEF Upgrade, TypeOK, main, flux
  <2> QED
    BY <2>1, <2>2 DEF Hot
<1>3. CASE Ready(a)
  BY <1>3 DEF Ready, Hot, TypeOK, main, flux
<1>4. CASE RollBack(a)
  <2>1. client'[a] # {} => RunsClient(previous[a]) \/ client[a] # {}
    BY <1>4, PodsComeFromReleases DEF RollBack, TypeOK
  <2>2. /\ previous[a] # None
        /\ installed'[a] = previous[a]
        /\ previous'[a] = None
        /\ \A b \in Assignment \ {a} : /\ installed'[b] = installed[b]
                                       /\ previous'[b] = previous[b]
                                       /\ client'[b] = client[b]
        /\ UNCHANGED <<projection, fetched, applying, release>>
    BY <1>4 DEF RollBack, TypeOK, main, flux
  <2> QED
    BY <2>1, <2>2 DEF Hot
<1>5. CASE PodEnds(a)
  BY <1>5 DEF PodEnds, Hot, TypeOK, main, flux
<1> QED
  BY <1>f, <1>1, <1>2, <1>3, <1>4, <1>5

\* A valid catalog wants one client of a validator at most.
LEMMA OneWanted ==
    ASSUME NEW c, Valid(c), NEW a \in Assignment, NEW b \in Assignment,
           RunsClient(BuildRelease(c, a)), RunsClient(BuildRelease(c, b)),
           ValidatorOf[a] = ValidatorOf[b]
    PROVE  a = b
<1>1. c.doc[a].lifecycle = "active" /\ c.doc[b].lifecycle = "active"
  BY DEF RunsClient, BuildRelease, ChartLifecycle
<1> QED
  BY <1>1 DEF Valid, RelationsValid, Live, LiveStates

\* A careful merge heats an assignment only when no other of its validator is hot.
LEMMA HotMerge ==
    ASSUME TypeOK, MainInv, Careful, OneHotPerValidator, NEW r \in Requester, Merge(r)
    PROVE  OneHotPerValidator'
<1> DEFINE c == MergedCatalog(request[r])
           p == MergedProjection(request[r])
<1>1. /\ Passes(request[r])
      /\ projection' = p
      /\ BreaksBeforeMaking(p)
      /\ UNCHANGED cluster
  BY DEF Merge, MainInv, ChecksAreCurrent
<1>2. Valid(c) /\ p = Projection(c)
  BY <1>1 DEF Passes
<1> HIDE DEF c, p
<1>3. \A a, b \in Assignment : RunsClient(p[a]) /\ RunsClient(p[b])
                                /\ ValidatorOf[a] = ValidatorOf[b] => a = b
  BY <1>2, OneWanted DEF Projection
<1>4. ASSUME NEW a \in Assignment, NEW b \in Assignment, ValidatorOf[a] = ValidatorOf[b],
             RunsClient(p[a]), p[a] # projection[a]
      PROVE  ~Hot(b)
  <2>1. ~RunsClient(projection[b]) /\ Settled(b)
    BY <1>1, <1>4 DEF BreaksBeforeMaking
  <2> QED
    BY <2>1 DEF Settled, Hot
<1>5. ASSUME NEW a \in Assignment, Hot(a)' PROVE RunsClient(p[a]) \/ Hot(a)
  BY <1>1, <1>5 DEF Hot, cluster, flux, helm
<1>6. ASSUME NEW a \in Assignment, RunsClient(p[a]), ~Hot(a) PROVE p[a] # projection[a]
  BY <1>6 DEF Hot
<1> SUFFICES ASSUME NEW a \in Assignment, NEW b \in Assignment, Hot(a)', Hot(b)',
                    ValidatorOf[a] = ValidatorOf[b]
             PROVE  a = b
  BY DEF OneHotPerValidator
<1>7. CASE Hot(a) /\ Hot(b)
  BY <1>7 DEF OneHotPerValidator
<1>8. CASE ~Hot(a)
  BY <1>3, <1>4, <1>5, <1>6, <1>8
<1>9. CASE ~Hot(b)
  BY <1>3, <1>4, <1>5, <1>6, <1>9
<1> QED
  BY <1>7, <1>8, <1>9

\* No step heats a second assignment of a validator.
LEMMA HotStep ==
    ASSUME Careful
    PROVE  TypeOK /\ MainInv /\ OneHotPerValidator /\ [Next]_vars => OneHotPerValidator'
<1> SUFFICES ASSUME TypeOK, MainInv, OneHotPerValidator, [Next]_vars PROVE OneHotPerValidator'
  OBVIOUS
<1>1. CASE \A b \in Assignment : Hot(b)' => Hot(b)
  BY <1>1 DEF OneHotPerValidator
<1>2. ASSUME NEW r \in Requester, Merge(r) PROVE OneHotPerValidator'
  BY <1>2, HotMerge
<1>3. ASSUME UNCHANGED <<main, cluster>> PROVE \A b \in Assignment : Hot(b)' => Hot(b)
  BY <1>3 DEF Hot, main, cluster, flux, helm
<1>4. ASSUME NEW a, NEW action, Dispatch(a, action) PROVE UNCHANGED <<main, cluster>>
  BY <1>4 DEF Dispatch, OpenRequest
<1>5. ASSUME NEW r, Propose(r) \/ Check(r) \/ Close(r) PROVE UNCHANGED <<main, cluster>>
  BY <1>5 DEF Propose, OpenRequest, Check, Close
<1>6. UNCHANGED vars => UNCHANGED <<main, cluster>>
  BY DEF vars, main, cluster, flux, helm
<1> QED
  BY <1>1, <1>2, <1>3, <1>4, <1>5, <1>6, ClusterHeatsNothing DEF Next, Requests

\* Whoever starts a client only where the Kustomization is at main and the cluster
\* has settled without one never has two assignments of a validator with clients:
\* at any time one assignment at most has a client that runs, is wanted by main or
\* by a revision fetched before, is on its way or may come back.
THEOREM OneClient == Spec => []OneClientPerValidator
<1>1. CASE ~Careful
  <2>1. OneClientPerValidator
    BY <1>1 DEF OneClientPerValidator
  <2> QED
    BY <2>1, PTL
<1>2. CASE Careful
  <2>1. Init => OneHotPerValidator
    <3> SUFFICES ASSUME Init, NEW a \in Assignment PROVE ~Hot(a)
      BY DEF OneHotPerValidator
    <3>1. projection[a] = BuildRelease(desired, a) /\ desired.doc[a].signing = FALSE
      BY DEF Init, Projection
    <3> QED
      BY <3>1 DEF Init, Hot, RunsClient, NoRelease, BuildRelease
  <2>2. OneHotPerValidator => OneClientPerValidator
    BY DEF OneHotPerValidator, OneClientPerValidator, Hot
  <2>3. TypeOK /\ MainInv /\ OneHotPerValidator /\ [Next]_vars => OneHotPerValidator'
    BY <1>2, HotStep
  <2> QED
    BY TypeInit, TypeStep, MainInit, MainStep, <2>1, <2>2, <2>3, PTL DEF Spec
<1> QED
  BY <1>1, <1>2

----------------------------------------------------------------------------
(* What a merge of the workflow changes                                    *)

\* One assignment changes, and only its lifecycle and the name it already had.
LEMMA WorkflowDocument ==
    ASSUME TypeOK, NEW q \in Request, WorkflowRequest(q), Passes(q), NEW b \in Assignment
    PROVE  LET d == desired.doc[b]
               m == MergedCatalog(q).doc[b]
           IN  /\ m.signing = d.signing
               /\ Fullname(MergedCatalog(q), b) = Fullname(desired, b)
               /\ m.lifecycle = d.lifecycle \/ m.lifecycle \in {"active", "stopped"}
<1> DEFINE base == q.base.doc[b]
           head == q.head.doc[b]
           d == desired.doc[b]
           m == MergedCatalog(q).doc[b]
<1>1. PICK a \in Assignment, action \in Action :
         /\ MayTransition(q.base.doc[a], action)
         /\ q.head = Transition(q.base, a, action)
  BY DEF WorkflowRequest
<1>2. base \in Document /\ d \in Document /\ q.base \in Desired
  BY DEF TypeOK, Request, Desired
<1>3. /\ m.lifecycle = Pick(base.lifecycle, head.lifecycle, d.lifecycle)
      /\ m.signing = Pick(base.signing, head.signing, d.signing)
      /\ m.nodePair = Pick(base.nodePair, head.nodePair, d.nodePair)
  BY DEF MergedCatalog
<1>4. Agrees(base.nodePair, head.nodePair, d.nodePair)
  BY DEF Passes, Mergeable
<1>5. CASE b # a
  <2>1. head = base
    BY <1>1, <1>2, <1>5 DEF Transition, Desired
  <2>2. /\ m.lifecycle = d.lifecycle
        /\ m.signing = d.signing
        /\ m.nodePair = d.nodePair
    BY <1>3, <2>1 DEF Pick
  <2> QED
    BY <2>2 DEF Fullname
<1>6. CASE b = a
  <2>1. head = [lifecycle |-> Target(base.lifecycle, action), signing |-> FALSE,
                nodePair |-> IF action = "activate" THEN Fullname(q.base, a)
                             ELSE base.nodePair]
    BY <1>1, <1>2, <1>6 DEF Transition, Desired
  <2>2. ~base.signing /\ Target(base.lifecycle, action) # None
    BY <1>1, <1>6 DEF MayTransition
  <2>3. m.signing = d.signing
    <3>1. base.signing = FALSE /\ head.signing = FALSE
      BY <1>2, <2>1, <2>2 DEF Document
    <3> QED
      BY <1>3, <3>1 DEF Pick
  <2>4. m.lifecycle = head.lifecycle /\ head.lifecycle \in {"active", "stopped"}
    BY <1>3, <2>1, <2>2 DEF Pick, Target
  <2>5. head.nodePair \in {base.nodePair, Fullname(q.base, b)}
    BY <1>6, <2>1
  <2>6. CASE head.nodePair = base.nodePair
    BY <1>3, <2>3, <2>4, <2>6 DEF Pick, Fullname
  <2>7. CASE head.nodePair # base.nodePair
    <3> DEFINE default == DefaultNodePair[ValidatorOf[b]]
    <3>1. default \in NodePair /\ default # None
      BY References
    <3>2. base.nodePair = None /\ head.nodePair = default
      BY <2>5, <2>7 DEF Fullname
    <3>3. d.nodePair \in {None, default} /\ m.nodePair = default
      BY <1>3, <1>4, <2>7, <3>2 DEF Agrees, Pick
    <3> QED
      BY <2>3, <2>4, <3>1, <3>3 DEF Fullname
  <2> QED
    BY <2>3, <2>4, <2>6, <2>7
<1> QED
  BY <1>5, <1>6

\* The merge of a workflow request leaves names, and the releases of clients, alone.
LEMMA WorkflowRelease ==
    ASSUME TypeOK, MainInv, NEW q \in Request, WorkflowRequest(q), Passes(q),
           NEW b \in Assignment
    PROVE  LET v == projection[b]
               w == MergedProjection(q)[b]
           IN  /\ w.fullname = v.fullname
               /\ w.lifecycle = "archived" => v.lifecycle = "archived"
               /\ RunsClient(v) \/ RunsClient(w) => w = v
<1> DEFINE c == MergedCatalog(q)
           d == desired.doc[b]
           m == c.doc[b]
<1>1. /\ m.signing = d.signing
      /\ Fullname(c, b) = Fullname(desired, b)
      /\ m.lifecycle = d.lifecycle \/ m.lifecycle \in {"active", "stopped"}
  BY WorkflowDocument
<1>2. Valid(c) /\ Valid(desired)
  BY DEF Passes, MainInv, DesiredStateIsValid
<1>3. projection[b] = BuildRelease(desired, b) /\ MergedProjection(q)[b] = BuildRelease(c, b)
  BY DEF Passes, MainInv, DesiredStateIsValid, Projection
<1>4. d.signing => d.lifecycle = "active" /\ m.lifecycle = "active"
  BY <1>1, <1>2 DEF Valid, SchemaValid, FollowsSchema
<1> HIDE DEF c, d, m
<1>5. BuildRelease(c, b) = [lifecycle |-> ChartLifecycle(m.lifecycle), signing |-> m.signing,
                            fullname |-> Fullname(c, b)]
      /\ BuildRelease(desired, b) = [lifecycle |-> ChartLifecycle(d.lifecycle),
                                     signing |-> d.signing, fullname |-> Fullname(desired, b)]
  BY DEF BuildRelease, m, d
<1> QED
  BY <1>1, <1>3, <1>4, <1>5 DEF RunsClient, ChartLifecycle

\* The workflow stops no validator client and starts none, whatever was merged
\* between its checkout and its merge.
THEOREM WorkflowIsHarmless ==
    ASSUME "workflow" \in Requester
    PROVE  Spec => WorkflowLeavesSigners
<1>1. TypeOK /\ MainInv => (Merge("workflow") =>
         \A a \in Assignment :
             RunsClient(projection[a]) \/ RunsClient(projection'[a]) =>
                projection'[a] = projection[a])
  <2> SUFFICES ASSUME TypeOK, MainInv, Merge("workflow"), NEW a \in Assignment
               PROVE  RunsClient(projection[a]) \/ RunsClient(projection'[a]) =>
                         projection'[a] = projection[a]
    OBVIOUS
  <2> DEFINE q == request["workflow"]
  <2>1. q # None /\ Passes(q) /\ projection' = MergedProjection(q)
    BY DEF Merge, MainInv, ChecksAreCurrent
  <2>2. q \in Request /\ WorkflowRequest(q)
    BY <2>1 DEF TypeOK, MainInv, WorkflowAsksTransitions
  <2> QED
    BY <2>1, <2>2, WorkflowRelease
<1> QED
  BY TypeInit, TypeStep, MainInit, MainStep, <1>1, PTL DEF Spec, WorkflowLeavesSigners

----------------------------------------------------------------------------
(* Chain data                                                              *)

\* From one state of a release to a later one a node pair is given up only
\* where people decided so.
Led(v, w, D) ==
    v # NoRelease =>
        /\ v.fullname # w.fullname => v.fullname \in D
        /\ Volumes(v) \subseteq Volumes(w) \cup D

\* The cluster is behind the revision being applied, that one behind the fetched one
\* and this one behind main, and a rollback target is older than what runs.
InOrder(a) ==
    /\ Led(fetched[a], projection[a], decided)
    /\ Led(applying[a], fetched[a], decided)
    /\ Led(release[a], applying[a], decided)
    /\ Led(installed[a], release[a], decided)
    /\ previous[a] # None => Led(previous[a], installed[a], decided)

\* Only a node pair that was given up may be named by two releases.
OneOwner ==
    \A a, b \in Assignment :
        a # b /\ installed[a] # NoRelease /\ installed[a].fullname = installed[b].fullname
            => installed[a].fullname \in decided

\* Data that was not given up has an owner that keeps it, also in a rollback.
Owned(n) ==
    \E b \in Assignment :
        /\ n \in Volumes(installed[b])
        /\ previous[b] = None \/ n \in Volumes(previous[b])

DataInv ==
    /\ \A a \in Assignment : InOrder(a)
    /\ OneOwner
    /\ \A n \in data : n \in decided \/ Owned(n)

\* A release has at most the volumes of the node pair it names.
LEMMA VolumesOf ==
    ASSUME NEW v \in Values \cup {NoRelease}
    PROVE  /\ Volumes(v) \subseteq {v.fullname}
           /\ v # NoRelease => v.fullname \in NodePair /\ v.fullname # None
           /\ Volumes(NoRelease) = {}
           /\ NoRelease.fullname = None
BY References DEF Volumes, Values, NoRelease

\* Only what has no release has no name.
LEMMA NamesTell ==
    ASSUME NEW v \in Values \cup {NoRelease}, NEW w \in Values \cup {NoRelease},
           v.fullname = w.fullname, v # NoRelease
    PROVE  w # NoRelease
BY VolumesOf

\* What gives up nothing in two steps gives up nothing in one.
LEMMA LedTransitive ==
    ASSUME NEW u \in Values \cup {NoRelease}, NEW v \in Values \cup {NoRelease},
           NEW w \in Values \cup {NoRelease}, NEW D, Led(u, v, D), Led(v, w, D)
    PROVE  Led(u, w, D)
<1>1. CASE v = NoRelease
  BY <1>1, VolumesOf DEF Led
<1>2. CASE v # NoRelease
  BY <1>2 DEF Led
<1> QED
  BY <1>1, <1>2

\* Decisions are never taken back.
LEMMA LedGrows ==
    ASSUME NEW v, NEW w, NEW D, NEW E, D \subseteq E, Led(v, w, D)
    PROVE  Led(v, w, E)
BY DEF Led

\* A release that stays gives up nothing.
LEMMA LedReflexive == ASSUME NEW v, NEW D PROVE Led(v, v, D)
BY DEF Led

\* A merge gives up a node pair only where people archive or rename it.
LEMMA MergeLeads ==
    ASSUME TypeOK, MainInv, NEW r \in Requester, Merge(r), NEW b \in Assignment
    PROVE  Led(projection[b], projection'[b], decided')
<1> DEFINE q == request[r]
           c == MergedCatalog(q)
           v == projection[b]
           w == projection'[b]
<1>1. q \in Request /\ Passes(q) /\ projection' = MergedProjection(q) /\ desired' = c
  BY DEF Merge, TypeOK, MainInv, ChecksAreCurrent
<1>2. v \in Values /\ w \in Values
  BY <1>1, MergedType DEF TypeOK
<1>3. w.lifecycle = ChartLifecycle(c.doc[b].lifecycle)
  BY <1>1 DEF Passes, Projection, BuildRelease
<1>4. CASE r = "workflow"
  <2>1. w.fullname = v.fullname /\ (w.lifecycle = "archived" => v.lifecycle = "archived")
    <3>1. WorkflowRequest(q)
      BY <1>4 DEF Merge, MainInv, WorkflowAsksTransitions
    <3> QED
      BY <1>1, <3>1, WorkflowRelease
  <2> QED
    BY <1>2, <2>1 DEF Led, Volumes, Values
<1>5. CASE r # "workflow"
  <2>1. w.fullname # v.fullname \/ c.doc[b].lifecycle = "archived" => v.fullname \in decided'
    <3>1. decided' = decided \cup
             {projection[a].fullname : a \in {x \in Assignment :
                 \/ projection'[x].fullname # projection[x].fullname
                 \/ desired'.doc[x].lifecycle = "archived"}}
      BY <1>5 DEF Merge
    <3> QED
      BY <1>1, <3>1
  <2>2. w.lifecycle = "archived" => c.doc[b].lifecycle = "archived"
    BY <1>3 DEF ChartLifecycle
  <2> QED
    BY <1>2, <2>1, <2>2 DEF Led, Volumes, Values
<1> QED
  BY <1>4, <1>5

\* Every step keeps the cluster behind main and rollbacks behind the cluster.
LEMMA InOrderStep ==
    ASSUME TypeOK, TypeOK', MainInv, \A a \in Assignment : InOrder(a), [Next]_vars
    PROVE  \A a \in Assignment : InOrder(a)'
<1>t. \A a \in Assignment :
         /\ release[a] \in Values \cup {NoRelease}
         /\ installed[a] \in Values \cup {NoRelease}
         /\ fetched[a] \in Values \cup {NoRelease}
         /\ applying[a] \in Values \cup {NoRelease}
         /\ projection[a] \in Values \cup {NoRelease}
         /\ projection'[a] \in Values \cup {NoRelease}
         /\ previous[a] # None => previous[a] \in Values \cup {NoRelease}
  BY DEF TypeOK
<1>1. CASE UNCHANGED <<projection, decided, flux, release, installed, previous>>
  BY <1>1 DEF InOrder, flux
<1>f. CASE Fetch
  <2>1. /\ fetched' = projection
        /\ UNCHANGED <<projection, decided, applying, release, installed, previous>>
    BY <1>f DEF Fetch, main, helm
  <2> SUFFICES ASSUME NEW a \in Assignment PROVE InOrder(a)'
    OBVIOUS
  <2>2. Led(applying[a], projection[a], decided)
    <3>1. /\ applying[a] \in Values \cup {NoRelease}
          /\ fetched[a] \in Values \cup {NoRelease}
          /\ projection[a] \in Values \cup {NoRelease}
      BY <1>t
    <3>2. Led(applying[a], fetched[a], decided) /\ Led(fetched[a], projection[a], decided)
      BY DEF InOrder
    <3> QED
      BY <3>1, <3>2, LedTransitive, Zenon
  <2> QED
    BY <2>1, <2>2, LedReflexive DEF InOrder
<1>s. CASE StartReconciliation
  <2>1. /\ applying' = fetched
        /\ UNCHANGED <<projection, decided, fetched, release, installed, previous>>
    BY <1>s DEF StartReconciliation, main, helm
  <2> SUFFICES ASSUME NEW a \in Assignment PROVE InOrder(a)'
    OBVIOUS
  <2>2. Led(release[a], fetched[a], decided)
    <3>1. /\ release[a] \in Values \cup {NoRelease}
          /\ applying[a] \in Values \cup {NoRelease}
          /\ fetched[a] \in Values \cup {NoRelease}
      BY <1>t
    <3>2. Led(release[a], applying[a], decided) /\ Led(applying[a], fetched[a], decided)
      BY DEF InOrder
    <3> QED
      BY <3>1, <3>2, LedTransitive, Zenon
  <2> QED
    BY <2>1, <2>2, LedReflexive DEF InOrder
<1>2. ASSUME NEW r \in Requester, Merge(r) PROVE \A a \in Assignment : InOrder(a)'
  <2> SUFFICES ASSUME NEW a \in Assignment PROVE InOrder(a)'
    OBVIOUS
  <2>1. decided \subseteq decided' /\ UNCHANGED <<fetched, applying, release, installed, previous>>
    BY <1>2 DEF Merge, cluster, flux, helm
  <2>2. Led(projection[a], projection'[a], decided')
    BY <1>2, MergeLeads
  <2>3. /\ Led(fetched[a], projection[a], decided')
        /\ Led(applying[a], fetched[a], decided')
        /\ Led(release[a], applying[a], decided')
    BY <2>1, LedGrows DEF InOrder
  <2>4. Led(fetched[a], projection'[a], decided')
    <3>1. /\ fetched[a] \in Values \cup {NoRelease}
          /\ projection[a] \in Values \cup {NoRelease}
          /\ projection'[a] \in Values \cup {NoRelease}
      BY <1>t
    <3> QED
      BY <2>2, <2>3, <3>1, LedTransitive, Zenon
  <2>5. Led(installed[a], release[a], decided')
    BY <2>1, LedGrows DEF InOrder
  <2>6. previous[a] # None => Led(previous[a], installed[a], decided')
    BY <2>1, LedGrows DEF InOrder
  <2> QED
    BY <2>1, <2>3, <2>4, <2>5, <2>6 DEF InOrder
<1>3. ASSUME NEW a \in Assignment, FluxApply(a) PROVE \A b \in Assignment : InOrder(b)'
  <2>1. /\ release'[a] = applying[a]
        /\ \A b \in Assignment \ {a} : release'[b] = release[b]
        /\ UNCHANGED <<projection, decided, fetched, applying, installed, previous>>
    BY <1>3 DEF FluxApply, TypeOK, main, flux
  <2>2. Led(installed[a], applying[a], decided)
    <3>1. /\ installed[a] \in Values \cup {NoRelease}
          /\ release[a] \in Values \cup {NoRelease}
          /\ applying[a] \in Values \cup {NoRelease}
      BY <1>t
    <3>2. Led(installed[a], release[a], decided) /\ Led(release[a], applying[a], decided)
      BY DEF InOrder
    <3> QED
      BY <3>1, <3>2, LedTransitive, Zenon
  <2> QED
    BY <2>1, <2>2, LedReflexive DEF InOrder
<1>4. ASSUME NEW a \in Assignment, Upgrade(a) PROVE \A b \in Assignment : InOrder(b)'
  <2>1. /\ installed'[a] = release[a]
        /\ previous'[a] \in {installed[a], None}
        /\ \A b \in Assignment \ {a} : installed'[b] = installed[b] /\ previous'[b] = previous[b]
        /\ UNCHANGED <<projection, decided, fetched, applying, release>>
    BY <1>4 DEF Upgrade, TypeOK, main, flux
  <2> QED
    BY <2>1, LedReflexive DEF InOrder
<1>5. ASSUME NEW a \in Assignment, Ready(a) PROVE \A b \in Assignment : InOrder(b)'
  <2>1. /\ previous'[a] = None
        /\ \A b \in Assignment \ {a} : previous'[b] = previous[b]
        /\ UNCHANGED <<projection, decided, fetched, applying, release, installed>>
    BY <1>5 DEF Ready, TypeOK, main, flux
  <2> QED
    BY <2>1 DEF InOrder
<1>6. ASSUME NEW a \in Assignment, RollBack(a) PROVE \A b \in Assignment : InOrder(b)'
  <2>1. /\ previous[a] # None
        /\ installed'[a] = previous[a]
        /\ previous'[a] = None
        /\ \A b \in Assignment \ {a} : installed'[b] = installed[b] /\ previous'[b] = previous[b]
        /\ UNCHANGED <<projection, decided, fetched, applying, release>>
    BY <1>6 DEF RollBack, TypeOK, main, flux
  <2>2. Led(previous[a], release[a], decided)
    <3>1. /\ previous[a] \in Values \cup {NoRelease}
          /\ installed[a] \in Values \cup {NoRelease}
          /\ release[a] \in Values \cup {NoRelease}
      BY <1>t, <2>1
    <3>2. Led(previous[a], installed[a], decided) /\ Led(installed[a], release[a], decided)
      BY <2>1 DEF InOrder
    <3> QED
      BY <3>1, <3>2, LedTransitive, Zenon
  <2> QED
    BY <2>1, <2>2 DEF InOrder
<1>7. ASSUME NEW a, PodEnds(a)
      PROVE  UNCHANGED <<projection, decided, flux, release, installed, previous>>
  BY <1>7 DEF PodEnds, main, flux
<1>8. ASSUME NEW a, NEW action, Dispatch(a, action)
      PROVE  UNCHANGED <<projection, decided, flux, release, installed, previous>>
  BY <1>8 DEF Dispatch, OpenRequest, main, cluster, flux, helm
<1>9. ASSUME NEW r, Propose(r) \/ Check(r) \/ Close(r)
      PROVE  UNCHANGED <<projection, decided, flux, release, installed, previous>>
  BY <1>9 DEF Propose, OpenRequest, Check, Close, main, cluster, flux, helm
<1> QED
  BY <1>1, <1>f, <1>s, <1>2, <1>3, <1>4, <1>5, <1>6, <1>7, <1>8, <1>9
     DEF Next, Requests, vars, main, cluster, flux, helm

\* The names and the data of releases, as far as they are not given up.
LEMMA OwnerStep ==
    ASSUME TypeOK, DataInv, [Next]_vars
    PROVE  /\ OneOwner'
           /\ \A n \in data' : n \in decided' \/ Owned(n)'
           /\ \A n \in data \ data' : n \in decided
<1> DEFINE Goal == /\ OneOwner'
                   /\ \A n \in data' : n \in decided' \/ Owned(n)'
                   /\ \A n \in data \ data' : n \in decided
<1>t. \A a \in Assignment :
         /\ release[a] \in Values \cup {NoRelease}
         /\ installed[a] \in Values \cup {NoRelease}
         /\ previous[a] # None => previous[a] \in Values \cup {NoRelease}
  BY DEF TypeOK
<1>1. ASSUME UNCHANGED <<data, installed, previous>>, decided \subseteq decided' PROVE Goal
  BY <1>1 DEF DataInv, OneOwner, Owned
<1>2. ASSUME NEW a \in Assignment, Upgrade(a) PROVE Goal
  <2>1. /\ installed'[a] = release[a]
        /\ previous'[a] \in {installed[a], None}
        /\ \A b \in Assignment \ {a} : installed'[b] = installed[b] /\ previous'[b] = previous[b]
        /\ data' = data \ (Volumes(installed[a]) \ Volumes(release[a]))
        /\ \A b \in Assignment \ {a} : installed[b].fullname # release[a].fullname
        /\ UNCHANGED decided
    BY <1>2 DEF Upgrade, TypeOK, main, flux
  <2>2. Volumes(installed[a]) \subseteq Volumes(release[a]) \cup decided
    BY VolumesOf, <1>t DEF DataInv, InOrder, Led
  <2>3. OneOwner'
    BY <2>1 DEF DataInv, OneOwner
  <2>4. ASSUME NEW n \in data', n \notin decided PROVE Owned(n)'
    <3>1. PICK b \in Assignment : /\ n \in Volumes(installed[b])
                                  /\ previous[b] = None \/ n \in Volumes(previous[b])
      BY <2>1, <2>4 DEF DataInv, Owned
    <3>2. CASE b = a
      BY <2>1, <2>2, <2>4, <3>1, <3>2 DEF Owned
    <3>3. CASE b # a
      BY <2>1, <3>1, <3>3 DEF Owned
    <3> QED
      BY <3>2, <3>3
  <2> QED
    BY <2>1, <2>2, <2>3, <2>4
<1>3. ASSUME NEW a \in Assignment, Ready(a) PROVE Goal
  <2>1. /\ previous'[a] = None
        /\ \A b \in Assignment \ {a} : previous'[b] = previous[b]
        /\ data' = data \cup Volumes(installed[a])
        /\ UNCHANGED <<installed, decided>>
    BY <1>3 DEF Ready, TypeOK, main, flux
  <2>2. OneOwner'
    BY <2>1 DEF DataInv, OneOwner
  <2> QED
    BY <2>1, <2>2 DEF DataInv, Owned
<1>4. ASSUME NEW a \in Assignment, RollBack(a) PROVE Goal
  <2>1. /\ previous[a] # None
        /\ installed'[a] = previous[a]
        /\ previous'[a] = None
        /\ \A b \in Assignment \ {a} : installed'[b] = installed[b] /\ previous'[b] = previous[b]
        /\ data' = data \ (Volumes(installed[a]) \ Volumes(previous[a]))
        /\ UNCHANGED decided
    BY <1>4 DEF RollBack, TypeOK, main, flux
  <2>2. Led(previous[a], installed[a], decided)
    BY <2>1 DEF DataInv, InOrder
  <2>3. ASSUME NEW b \in Assignment \ {a}, previous[a] # NoRelease,
               previous[a].fullname = installed[b].fullname
        PROVE  previous[a].fullname \in decided
    <3>1. CASE installed[a].fullname # previous[a].fullname
      BY <2>2, <2>3, <3>1 DEF Led
    <3>2. CASE installed[a].fullname = previous[a].fullname
      <4>1. installed[a] # NoRelease
        BY <1>t, <2>1, <2>3, <3>2, NamesTell
      <4> QED
        BY <2>3, <3>2, <4>1 DEF DataInv, OneOwner
    <3> QED
      BY <3>1, <3>2
  <2>4. ASSUME NEW b \in Assignment \ {a}, installed[b] # NoRelease,
               previous[a].fullname = installed[b].fullname
        PROVE  previous[a] # NoRelease
    BY <1>t, <2>1, <2>4, NamesTell
  <2>5. OneOwner'
    <3> SUFFICES ASSUME NEW x \in Assignment, NEW y \in Assignment, x # y,
                        installed'[x] # NoRelease,
                        installed'[x].fullname = installed'[y].fullname
                 PROVE  installed'[x].fullname \in decided
      BY <2>1 DEF OneOwner
    <3>1. CASE x = a
      BY <2>1, <2>3, <3>1
    <3>2. CASE y = a
      BY <2>1, <2>3, <2>4, <3>2
    <3>3. CASE x # a /\ y # a
      BY <2>1, <3>3 DEF DataInv, OneOwner
    <3> QED
      BY <3>1, <3>2, <3>3
  <2>6. ASSUME NEW n \in data, n \notin decided
        PROVE  n \in data' /\ Owned(n)'
    <3>1. PICK b \in Assignment : /\ n \in Volumes(installed[b])
                                  /\ previous[b] = None \/ n \in Volumes(previous[b])
      BY <2>6 DEF DataInv, Owned
    <3>2. CASE b = a
      BY <2>1, <2>6, <3>1, <3>2 DEF Owned
    <3>3. CASE b # a
      <4>1. Owned(n)'
        BY <2>1, <3>1, <3>3 DEF Owned
      <4>2. n \notin Volumes(installed[a])
        <5> SUFFICES ASSUME n \in Volumes(installed[a]) PROVE n \in decided
          BY <2>6
        <5>1. installed[a].fullname = n /\ installed[b].fullname = n
          BY <1>t, <3>1, VolumesOf
        <5>2. installed[a] # NoRelease
          BY VolumesOf, <1>t
        <5> QED
          BY <3>3, <5>1, <5>2 DEF DataInv, OneOwner
      <4> QED
        BY <2>1, <2>6, <4>1, <4>2
    <3> QED
      BY <3>2, <3>3
  <2> QED
    BY <2>1, <2>5, <2>6
<1>5. ASSUME NEW r, Merge(r) PROVE Goal
  <2>1. UNCHANGED <<data, installed, previous>> /\ decided \subseteq decided'
    BY <1>5 DEF Merge, cluster, flux, helm
  <2> QED
    BY <1>1, <2>1
<1>6. ASSUME UNCHANGED <<data, installed, previous, decided>> PROVE Goal
  BY <1>1, <1>6
<1>7. ASSUME NEW a, FluxApply(a) \/ PodEnds(a)
      PROVE  UNCHANGED <<data, installed, previous, decided>>
  BY <1>7 DEF FluxApply, PodEnds, main
<1>f. Fetch \/ StartReconciliation => UNCHANGED <<data, installed, previous, decided>>
  BY FluxLeavesHelm DEF main, helm
<1>8. ASSUME NEW a, NEW action, Dispatch(a, action)
      PROVE  UNCHANGED <<data, installed, previous, decided>>
  BY <1>8 DEF Dispatch, OpenRequest, main, cluster, flux, helm
<1>9. ASSUME NEW r, Propose(r) \/ Check(r) \/ Close(r)
      PROVE  UNCHANGED <<data, installed, previous, decided>>
  BY <1>9 DEF Propose, OpenRequest, Check, Close, main, cluster, flux, helm
<1> HIDE DEF Goal
<1>10. Goal
  BY <1>2, <1>3, <1>4, <1>5, <1>6, <1>7, <1>f, <1>8, <1>9
     DEF Next, Requests, vars, main, cluster, flux, helm
<1> QED
  BY <1>10 DEF Goal

\* No stop, switch, failed upgrade, rollback or workflow request loses chain
\* data: it goes only where people archived or renamed its node pair.
THEOREM DataGoesByDecision == Spec => DataGoesOnlyByDecision
<1>1. Init => DataInv
  <2> SUFFICES ASSUME Init PROVE DataInv
    OBVIOUS
  <2>1. \A a \in Assignment : InOrder(a)
    BY DEF Init, InOrder, Led
  <2> QED
    BY <2>1 DEF Init, DataInv, OneOwner
<1>2. TypeOK /\ TypeOK' /\ MainInv /\ DataInv /\ [Next]_vars => DataInv'
  <2> SUFFICES ASSUME TypeOK, TypeOK', MainInv, DataInv, [Next]_vars PROVE DataInv'
    OBVIOUS
  <2>1. \A a \in Assignment : InOrder(a)'
    BY InOrderStep DEF DataInv
  <2> QED
    BY <2>1, OwnerStep DEF DataInv
<1>3. TypeOK /\ DataInv /\ [Next]_vars => [\A n \in data \ data' : n \in decided]_vars
  BY OwnerStep
<1> QED
  BY TypeInit, TypeStep, MainInit, MainStep, <1>1, <1>2, <1>3, PTL
     DEF Spec, DataGoesOnlyByDecision
============================================================================
