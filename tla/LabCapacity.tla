---------------------------- MODULE LabCapacity ----------------------------
(***************************************************************************)
(* Pause and resume of Ethereum capacity (hack/eks-lab-capacity.sh): one   *)
(* managed node group per Availability Zone, each at zero or one worker,   *)
(* and volumes that can be attached only in the zone they were bound in.   *)
(*                                                                         *)
(* A command reads the groups, the lifecycle records, the Pods and the     *)
(* claims one after the other, then asks EKS for another size and waits.   *)
(* Operators, Flux, the scheduler and EKS act between any two of its       *)
(* calls, and it may fail or time out at each of them.                     *)
(***************************************************************************)
EXTENDS Integers

CONSTANTS
    Operator,     \* people who run the command
    Assignment,   \* validator assignments, each with Pods and volumes
    Zone,         \* zones with an Ethereum node group
    None,
    MaxCommands,  \* bound on the commands started
    MaxMerges     \* bound on the lifecycle changes merged

ASSUME NoneIsNoZone == None \notin Zone \cup {0, 1}
ASSUME StatesAreNoZones == {"none", "pending"} \cap Zone = {}
ASSUME BoundsAreNat == MaxCommands \in Nat /\ MaxMerges \in Nat

VARIABLES
    record,     \* lifecycle ConfigMap of each assignment
    pod,        \* its Pods: none, pending or running (where its claim is)
    claim,      \* its volume claim: none, pending or the zone it is bound in
    desired,    \* desired size of each node group
    update,     \* size an EKS update in progress asks for, or None
    node,       \* worker of each group as a Kubernetes Node
    pc,         \* step each operator's command has reached
    goal,       \* pause or resume
    zone,       \* --az of the command
    found,      \* desired size its description of the group reported
    bare,       \* did it see no lifecycle record at all
    outcome,    \* status of its EKS update
    late,       \* ghost: assignments started since it read the records
    unsettled,  \* ghost: another zone was changing while it ran
    raced,      \* ghost: a resume went through with another zone unsettled
    commands,   \* commands started
    merges      \* lifecycle changes applied

fleet == <<record, pod, claim>>
eks == <<desired, update, node>>
shell == <<pc, goal, zone, found, bare, outcome>>
ghost == <<late, unsettled, raced>>
vars == <<record, pod, claim, desired, update, node, pc, goal, zone, found,
          bare, outcome, late, unsettled, raced, commands, merges>>

Size == 0..1

TypeOK ==
    /\ record \in [Assignment -> {"none", "stopped", "archived", "active"}]
    /\ pod \in [Assignment -> {"none", "pending", "running"}]
    /\ claim \in [Assignment -> {"none", "pending"} \cup Zone]
    /\ desired \in [Zone -> Size]
    /\ update \in [Zone -> Size \cup {None}]
    /\ node \in [Zone -> {"none", "starting", "ready"}]
    /\ pc \in [Operator -> {"idle", "records", "pods", "claims", "volumes",
                            "scale", "update", "nodes"}]
    /\ goal \in [Operator -> {"pause", "resume"}]
    /\ zone \in [Operator -> Zone]
    /\ found \in [Operator -> Size]
    /\ bare \in [Operator -> BOOLEAN]
    /\ outcome \in [Operator -> {"InProgress", "Successful", "Failed"}]
    /\ late \in [Operator -> SUBSET Assignment]
    /\ unsettled \in [Operator -> BOOLEAN]
    /\ raced \in BOOLEAN
    /\ commands \in 0..MaxCommands
    /\ merges \in 0..MaxMerges

\* Terraform created the groups, at most one of them with a worker.
Init ==
    /\ record = [a \in Assignment |-> "none"]
    /\ pod = [a \in Assignment |-> "none"]
    /\ claim = [a \in Assignment |-> "none"]
    /\ \E first \in Zone, size \in Size :
        desired = [z \in Zone |-> IF z = first THEN size ELSE 0]
    /\ update = [z \in Zone |-> None]
    /\ node = [z \in Zone |-> "none"]
    /\ pc = [o \in Operator |-> "idle"]
    /\ goal = [o \in Operator |-> "pause"]
    /\ \E z \in Zone : zone = [o \in Operator |-> z]
    /\ found = [o \in Operator |-> 0]
    /\ bare = [o \in Operator |-> FALSE]
    /\ outcome = [o \in Operator |-> "InProgress"]
    /\ late = [o \in Operator |-> {}]
    /\ unsettled = [o \in Operator |-> FALSE]
    /\ raced = FALSE
    /\ commands = 0
    /\ merges = 0

----------------------------------------------------------------------------
(* Flux, Kubernetes and EKS                                                *)

HasClaim(lifecycle) == lifecycle \in {"stopped", "active"}

\* Flux applies a merged lifecycle.  A release that is not archived brings its
\* claims; Helm retries while a claim it has to create again is still deleted.
Reconcile(a, lifecycle) ==
    /\ merges < MaxMerges
    /\ merges' = merges + 1
    /\ record[a] # lifecycle
    /\ HasClaim(lifecycle) /\ ~HasClaim(record[a]) => claim[a] = "none"
    /\ record' = [record EXCEPT ![a] = lifecycle]
    /\ claim' = IF HasClaim(lifecycle) /\ claim[a] = "none"
                THEN [claim EXCEPT ![a] = "pending"] ELSE claim
    /\ late' = [o \in Operator |-> IF lifecycle = "active" /\ pc[o] # "idle"
                                THEN late[o] \cup {a} ELSE late[o]]
    /\ UNCHANGED <<pod, eks, shell, unsettled, raced, commands>>

StartPods(a) ==
    /\ record[a] = "active"
    /\ pod[a] = "none"
    /\ pod' = [pod EXCEPT ![a] = "pending"]
    /\ UNCHANGED <<record, claim, eks, shell, ghost, commands, merges>>

\* A pending Pod runs on a Ready worker its volume can be attached to; an
\* unbound claim is bound there (WaitForFirstConsumer).
Schedule(a, z) ==
    /\ pod[a] = "pending"
    /\ node[z] = "ready"
    /\ claim[a] \in {"pending", z}
    /\ pod' = [pod EXCEPT ![a] = "running"]
    /\ claim' = [claim EXCEPT ![a] = z]
    /\ UNCHANGED <<record, eks, shell, ghost, commands, merges>>

EndPods(a) ==
    /\ record[a] # "active"
    /\ pod[a] # "none"
    /\ pod' = [pod EXCEPT ![a] = "none"]
    /\ UNCHANGED <<record, claim, eks, shell, ghost, commands, merges>>

\* A deleted claim goes when no Pod uses it.
ReleaseClaim(a) ==
    /\ ~HasClaim(record[a])
    /\ pod[a] = "none"
    /\ claim[a] # "none"
    /\ claim' = [claim EXCEPT ![a] = "none"]
    /\ UNCHANGED <<record, pod, eks, shell, ghost, commands, merges>>

\* The new size is in force and reported at some time before the update ends.
TakeEffect(z) ==
    /\ update[z] # None
    /\ desired[z] # update[z]
    /\ desired' = [desired EXCEPT ![z] = update[z]]
    /\ UNCHANGED <<fleet, update, node, shell, ghost, commands, merges>>

EndUpdate(z, status) ==
    /\ update[z] # None
    /\ status = "Successful" => desired[z] = update[z]
    /\ update' = [update EXCEPT ![z] = None]
    /\ outcome' = [o \in Operator |->
          IF pc[o] = "update" /\ zone[o] = z /\ outcome[o] = "InProgress"
          THEN status ELSE outcome[o]]
    /\ UNCHANGED <<fleet, desired, node, pc, goal, zone, found, bare, ghost,
                   commands, merges>>

NodeStarts(z) ==
    /\ \/ node[z] = "none" /\ desired[z] = 1 /\ node' = [node EXCEPT ![z] = "starting"]
       \/ node[z] = "starting" /\ node' = [node EXCEPT ![z] = "ready"]
    /\ UNCHANGED <<fleet, desired, update, shell, ghost, commands, merges>>

\* Scaled down or reclaimed (Spot): what ran there waits for another worker.
NodeGoes(z) ==
    /\ node[z] # "none"
    /\ node' = [node EXCEPT ![z] = "none"]
    /\ pod' = [a \in Assignment |->
          IF pod[a] = "running" /\ claim[a] = z THEN "pending" ELSE pod[a]]
    /\ UNCHANGED <<record, claim, desired, update, shell, ghost, commands, merges>>

----------------------------------------------------------------------------
(* The command                                                             *)

Active(z) == desired[z] = 1 \/ update[z] = 1 \/ node[z] # "none"

\* assert_single_active_group
NoOtherGroupChecked(z) == TRUE  \* mutation
SingleActiveGroup(z) == \A other \in Zone \ {z} : desired[other] = 0

\* The groups are described once, at the start: the group of the zone is
\* ACTIVE (nothing is being updated) and every other one asks for no worker.
ReadGroups(o, command, z) ==
    /\ pc[o] = "idle"
    /\ commands < MaxCommands
    /\ commands' = commands + 1
    /\ update[z] = None
    /\ SingleActiveGroup(z)
    /\ pc' = [pc EXCEPT ![o] = "records"]
    /\ goal' = [goal EXCEPT ![o] = command]
    /\ zone' = [zone EXCEPT ![o] = z]
    /\ found' = [found EXCEPT ![o] = desired[z]]
    /\ outcome' = [outcome EXCEPT ![o] = "InProgress"]
    /\ unsettled' = [unsettled EXCEPT ![o] =
          \E other \in Zone \ {z} : node[other] # "none" \/ update[other] # None]
    /\ UNCHANGED <<fleet, eks, bare, late, raced, merges>>

\* assert_stopped_and_unsigned, first call.  Signing needs an active lifecycle.
AnyLifecycle == TRUE  \* mutation
AllStopped == \A a \in Assignment : record[a] # "active"

ReadRecords(o) ==
    /\ pc[o] = "records"
    /\ AllStopped
    /\ bare' = [bare EXCEPT ![o] = \A a \in Assignment : record[a] = "none"]
    /\ late' = [late EXCEPT ![o] = {}]
    /\ pc' = [pc EXCEPT ![o] = "pods"]
    /\ UNCHANGED <<fleet, eks, goal, zone, found, outcome, unsettled, raced,
                   commands, merges>>

ReadPods(o) ==
    /\ pc[o] = "pods"
    /\ \A a \in Assignment : pod[a] = "none"
    /\ pc' = [pc EXCEPT ![o] = "claims"]
    /\ UNCHANGED <<fleet, eks, goal, zone, found, bare, outcome, ghost,
                   commands, merges>>

\* The process ends, and with it what it knew.
Exit(o) ==
    /\ pc' = [pc EXCEPT ![o] = "idle"]
    /\ goal' = [goal EXCEPT ![o] = "pause"]
    /\ found' = [found EXCEPT ![o] = 0]
    /\ bare' = [bare EXCEPT ![o] = FALSE]
    /\ outcome' = [outcome EXCEPT ![o] = "InProgress"]
    /\ late' = [late EXCEPT ![o] = {}]
    /\ unsettled' = [unsettled EXCEPT ![o] = FALSE]
    /\ UNCHANGED <<fleet, eks, zone, raced, commands, merges>>

\* Claims without any record: the desired state is unknown.
ReadClaims(o) ==
    /\ pc[o] = "claims"
    /\ bare[o] => \A a \in Assignment : claim[a] = "none"
    /\ goal[o] = "resume" \/ found[o] = 1
    /\ pc' = [pc EXCEPT ![o] = IF goal[o] = "resume" THEN "volumes" ELSE "scale"]
    /\ UNCHANGED <<fleet, eks, goal, zone, found, bare, outcome, ghost,
                   commands, merges>>

\* A pause of a group at size 0 has nothing left to do and does not wait for
\* its worker.
AlreadyPaused(o) ==
    /\ pc[o] = "claims"
    /\ bare[o] => \A a \in Assignment : claim[a] = "none"
    /\ goal[o] = "pause" /\ found[o] = 0
    /\ Exit(o)

\* assert_bound_pvcs_match_az
ClaimsUnchecked(z) == TRUE  \* mutation
BoundClaimsMatch(z) == \A a \in Assignment : claim[a] \in {"none", "pending", z}

ReadVolumes(o) ==
    /\ pc[o] = "volumes"
    /\ BoundClaimsMatch(zone[o])
    /\ pc' = [pc EXCEPT ![o] = IF found[o] = 1 THEN "nodes" ELSE "scale"]
    /\ UNCHANGED <<fleet, eks, goal, zone, found, bare, outcome, ghost,
                   commands, merges>>

Target(o) == IF goal[o] = "resume" THEN 1 ELSE 0

\* update-nodegroup-config; EKS refuses it while the group is being updated.
Scale(o) ==
    /\ pc[o] = "scale"
    /\ update[zone[o]] = None
    /\ update' = [update EXCEPT ![zone[o]] = Target(o)]
    /\ pc' = [pc EXCEPT ![o] = "update"]
    /\ raced' = (raced \/ (goal[o] = "resume" /\ unsettled[o]))
    /\ unsettled' = [p \in Operator |->
          unsettled[p] \/ (pc[p] # "idle" /\ zone[p] # zone[o])]
    /\ UNCHANGED <<fleet, desired, node, goal, zone, found, bare, outcome, late,
                   commands, merges>>

AwaitUpdate(o) ==
    /\ pc[o] = "update"
    /\ outcome[o] = "Successful"
    /\ pc' = [pc EXCEPT ![o] = "nodes"]
    /\ UNCHANGED <<fleet, eks, goal, zone, found, bare, outcome, ghost,
                   commands, merges>>

AwaitNodes(o) ==
    /\ pc[o] = "nodes"
    /\ node[zone[o]] = IF goal[o] = "resume" THEN "ready" ELSE "none"
    /\ Exit(o)

\* A guard, a call or an update fails, a wait times out, the operator
\* interrupts: what EKS has accepted goes on.
Fail(o) == pc[o] # "idle" /\ Exit(o)

----------------------------------------------------------------------------
Command(o) ==
    \/ \E z \in Zone, command \in {"pause", "resume"} : ReadGroups(o, command, z)
    \/ ReadRecords(o) \/ ReadPods(o) \/ ReadClaims(o) \/ AlreadyPaused(o)
    \/ ReadVolumes(o)
    \/ Scale(o) \/ AwaitUpdate(o) \/ AwaitNodes(o) \/ Fail(o)

Workload(a) ==
    \/ \E lifecycle \in {"none", "stopped", "archived", "active"} :
          Reconcile(a, lifecycle)
    \/ StartPods(a) \/ EndPods(a) \/ ReleaseClaim(a)
    \/ \E z \in Zone : Schedule(a, z)

Group(z) ==
    \/ TakeEffect(z) \/ NodeStarts(z) \/ NodeGoes(z)
    \/ \E status \in {"Successful", "Failed"} : EndUpdate(z, status)

Next ==
    \/ \E o \in Operator : Command(o)
    \/ \E a \in Assignment : Workload(a)
    \/ \E z \in Zone : Group(z)

Spec == Init /\ [][Next]_vars

----------------------------------------------------------------------------
(* Properties                                                              *)

\* Capacity is in one zone at a time: no two groups ask for, await or still
\* have a worker, as long as no resume went through while another zone was
\* changing (its update unfinished, its worker not gone, or another command
\* scaling it).  About assert_single_active_group, which looks at the desired
\* sizes of the other groups only, once, and long before the call.
OneActiveZone ==
    ~raced => \A y, z \in Zone : Active(y) /\ Active(z) => y = z

\* Under the same condition no worker stands beside a volume it cannot attach,
\* whatever Flux starts meanwhile, and no volumes are left in two zones, where
\* every later resume would be refused.  About assert_bound_pvcs_match_az,
\* whose answer has to hold until the worker is there.
CapacityServesVolumes ==
    ~raced =>
        /\ \A a \in Assignment, z \in Zone :
              Active(z) /\ claim[a] \in Zone => claim[a] = z
        /\ \A a, b \in Assignment :
              {claim[a], claim[b]} \subseteq Zone => claim[a] = claim[b]

\* A group is scaled while Pods exist only if their assignments were started
\* after the command had read the lifecycle records: a Pod that was there, or
\* that was still to end, is never scaled away.  About the order of the reads
\* in assert_stopped_and_unsigned, records before Pods.
OnlyLateStartsMeetScaling ==
    [][\A o \in Operator : Scale(o) =>
          \A a \in Assignment : pod[a] # "none" => a \in late[o]]_vars
============================================================================
