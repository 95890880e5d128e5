---------------------------- MODULE ColdStandby ----------------------------
(***************************************************************************)
(* The guarded cold-standby operator (hack/eks-cold-standby.sh) against    *)
(* the AWS account, the Terraform state of the dev root and the GitOps     *)
(* fleet it tears down and restores.                                       *)
(*                                                                         *)
(* What is at stake is the slashing history: the set of duties Web3Signer  *)
(* recorded in its RDS database before signing them.  The database dies    *)
(* with every teardown and is reborn from a snapshot, so whether history   *)
(* survives depends on which snapshot exists, which one is restored and    *)
(* what was signed in between.                                             *)
(*                                                                         *)
(* Every operator command is a sequence of steps (pc), and every other     *)
(* actor (Flux, Pods, Web3Signer, the second operator) may act between two *)
(* of them.  A command may die at any step, on an error or an interrupt.   *)
(***************************************************************************)
EXTENDS FiniteSets

CONSTANTS
    Operator,     \* checkouts the script runs from, each with its own STATE_DIR
    Assignment,   \* validator assignments of the fleet
    Slot,         \* duties an assignment may be asked to sign
    ManualId,     \* identifiers `snapshot` may create (a timestamp each)
    FinalId,      \* identifiers `down` may give the final snapshot
    SnapshotArg,  \* identifiers an operator may pass as SNAPSHOT_ID
    None,
    Runbook       \* TRUE: people keep to docs/runbooks/eks-cold-standby.md

SnapshotId == ManualId \cup FinalId
Duty == Assignment \X Slot

ASSUME SnapshotNames ==
    /\ ManualId \cap FinalId = {}
    /\ None \notin SnapshotId
    /\ SnapshotArg \subseteq SnapshotId
ASSUME RunbookIsBoolean == Runbook \in BOOLEAN

VARIABLES
    record,     \* lifecycle ConfigMap of each assignment in the cluster
    pod,        \* what the assignment's Ethereum Pods are doing
    cluster,    \* EKS: absent, bare (no Flux yet) or flux
    rds,        \* the Web3Signer database instance
    available,  \* RDS snapshots that exist
    snapshot,   \* duties each of them holds
    leftover,   \* cluster-created artifacts Terraform does not own
    secrets,    \* do the durable secret containers exist
    owned,      \* does the dev root's Terraform state hold them
    pc,         \* step each operator's command has reached
    file,       \* STATE_DIR/snapshot-id
    chosen,     \* snapshot identifier the running command works with
    plan,       \* saved destroy plan: stale, safe or unsafe
    window,     \* runbook: the snapshot of the quiet window, or None
    signed,     \* history variable: every duty signed so far
    conflict,   \* history variable: duties signed twice
    regressed   \* history variable: a restore lacked signed duties

fleet == <<record, pod>>
backups == <<available, snapshot>>
local == <<pc, file, chosen>>
ghost == <<signed, conflict, regressed>>
vars == <<record, pod, cluster, rds, available, snapshot, leftover, secrets,
          owned, pc, file, chosen, plan, window, signed, conflict, regressed>>

Instance == [present: BOOLEAN, protected: BOOLEAN, history: SUBSET Duty,
             finalId: FinalId \cup {None}, source: SnapshotId \cup {None}]

NoInstance == [present |-> FALSE, protected |-> FALSE, history |-> {},
               finalId |-> None, source |-> None]

Step == {"idle", "waiting", "records", "pods", "plan", "prompt", "prepare",
         "replan", "apply", "cleanup", "replan2", "retry", "up"}

TypeOK ==
    /\ record \in [Assignment -> {"none", "stopped", "active", "signing"}]
    /\ pod \in [Assignment -> {"none", "active", "signing"}]
    /\ cluster \in {"absent", "bare", "flux"}
    /\ rds \in Instance
    /\ available \subseteq SnapshotId
    /\ snapshot \in [SnapshotId -> SUBSET Duty]
    /\ leftover \subseteq {"lb", "eni"}
    /\ secrets \in BOOLEAN
    /\ owned \in BOOLEAN
    /\ pc \in [Operator -> Step]
    /\ file \in [Operator -> SnapshotId \cup {None}]
    /\ chosen \in [Operator -> SnapshotId \cup {None}]
    /\ plan \in [Operator -> {"stale", "safe", "unsafe"}]
    /\ window \in ManualId \cup {None}
    /\ signed \subseteq Duty
    /\ conflict \subseteq Duty
    /\ regressed \in BOOLEAN

\* The environment is up and idle: Flux runs, every assignment is stopped,
\* the database is empty and protected, nobody has taken a snapshot.
Init ==
    /\ record = [a \in Assignment |-> "stopped"]
    /\ pod = [a \in Assignment |-> "none"]
    /\ cluster = "flux"
    /\ rds = [NoInstance EXCEPT !.present = TRUE, !.protected = TRUE]
    /\ available = {}
    /\ snapshot = [s \in SnapshotId |-> {}]
    /\ leftover = {"lb"}
    /\ secrets = TRUE
    /\ owned = FALSE
    /\ pc = [o \in Operator |-> "idle"]
    /\ file = [o \in Operator |-> None]
    /\ chosen = [o \in Operator |-> None]
    /\ plan = [o \in Operator |-> "stale"]
    /\ window = None
    /\ signed = {}
    /\ conflict = {}
    /\ regressed = FALSE

----------------------------------------------------------------------------
(* The fleet: Flux applies a merged lifecycle, Pods follow, Web3Signer     *)
(* records a duty in the database and then signs it.                       *)

Quiet == \A a \in Assignment : record[a] \in {"none", "stopped"} /\ pod[a] = "none"

\* A merged assignment reaches the cluster.  Under the runbook nothing but a
\* stop is merged between the recovery snapshot and the end of the restore.
Reconcile(a, lifecycle) ==
    /\ cluster = "flux"
    /\ record[a] # lifecycle
    /\ Runbook => (window = None \/ lifecycle = "stopped")
    /\ record' = [record EXCEPT ![a] = lifecycle]
    /\ UNCHANGED <<pod, cluster, rds, backups, leftover, secrets, owned,
                   plan, window, local, ghost>>

\* Pods start, restart or terminate some time after their record changed.
PodsFollow(a) ==
    LET wanted == IF record[a] \in {"none", "stopped"} THEN "none" ELSE record[a]
    IN  /\ cluster = "flux"
        /\ pod[a] # wanted
        /\ pod' = [pod EXCEPT ![a] = wanted]
        /\ UNCHANGED <<record, cluster, rds, backups, leftover, secrets,
                       owned, plan, window, local, ghost>>

\* Web3Signer refuses a duty its database already holds, and commits a new
\* one before it signs.
Sign(a, s) ==
    LET d == <<a, s>>
    IN  /\ pod[a] = "signing"
        /\ rds.present
        /\ d \notin rds.history
        /\ rds' = [rds EXCEPT !.history = @ \cup {d}]
        /\ signed' = signed \cup {d}
        /\ conflict' = conflict \cup ({d} \cap signed)
        /\ UNCHANGED <<fleet, cluster, backups, leftover, secrets, owned,
                       plan, window, local, regressed>>

\* Flux bootstrap after a restore is an explicit step of its own; the ingress
\* controller then asks AWS for a load balancer.
BootstrapFlux ==
    /\ cluster = "bare"
    /\ cluster' = "flux"
    /\ leftover' = leftover \cup {"lb"}
    /\ UNCHANGED <<fleet, rds, backups, secrets, owned, plan, window, local, ghost>>

\* Somebody moves the secret containers into or out of the dev root.  Any
\* write of the Terraform state makes saved plans stale.
MoveSecrets ==
    /\ owned' = ~owned
    /\ plan' = [o \in Operator |-> "stale"]
    /\ UNCHANGED <<fleet, cluster, rds, backups, leftover, secrets, window,
                   local, ghost>>

----------------------------------------------------------------------------
(* snapshot                                                                *)

Alone(o) == \A p \in Operator \ {o} : pc[p] = "idle"

Take(s) ==
    /\ available' = available \cup {s}
    /\ snapshot' = [snapshot EXCEPT ![s] = rds.history]

\* create-db-snapshot under a new identifier, or reuse of the one passed as
\* SNAPSHOT_ID when it exists already.  Nothing here looks at the fleet.
StartSnapshot(o, s) ==
    /\ pc[o] = "idle"
    /\ \/ s \in available \cap SnapshotArg /\ UNCHANGED backups
       \/ s \in ManualId \ available /\ rds.present /\ Take(s)
    /\ Runbook => Alone(o) /\ Quiet /\ window = None /\ s \notin available
    /\ window' = IF Runbook THEN s ELSE window
    /\ pc' = [pc EXCEPT ![o] = "waiting"]
    /\ chosen' = [chosen EXCEPT ![o] = s]
    /\ UNCHANGED <<fleet, cluster, rds, leftover, secrets, owned, file, plan, ghost>>

\* The snapshot is available and verified; its name goes to STATE_DIR.
RecordSnapshot(o) ==
    /\ pc[o] = "waiting"
    /\ file' = [file EXCEPT ![o] = chosen[o]]
    /\ pc' = [pc EXCEPT ![o] = "idle"]
    /\ UNCHANGED <<fleet, cluster, rds, backups, leftover, secrets, owned,
                   chosen, plan, window, ghost>>

----------------------------------------------------------------------------
(* down                                                                    *)

\* SNAPSHOT_ID if it is set, STATE_DIR/snapshot-id if that exists.
SnapshotIdFromArgOrFile(o) == SnapshotArg \cup ({file[o]} \ {None})

\* preflight, first part: RDS is available and protected, EKS answers.
StartDown(o) ==
    /\ pc[o] = "idle"
    /\ rds.present /\ rds.protected
    /\ cluster # "absent"
    /\ Runbook => Alone(o) /\ window # None /\ file[o] = window
    /\ pc' = [pc EXCEPT ![o] = "records"]
    /\ UNCHANGED <<fleet, cluster, rds, backups, leftover, secrets, owned,
                   file, chosen, plan, window, ghost>>

\* preflight, second part: no signing-enabled lifecycle record.
PreflightRecords(o) ==
    /\ pc[o] = "records"
    /\ cluster # "absent"
    /\ \A a \in Assignment : record[a] # "signing"
    /\ pc' = [pc EXCEPT ![o] = "pods"]
    /\ UNCHANGED <<fleet, cluster, rds, backups, leftover, secrets, owned,
                   file, chosen, plan, window, ghost>>

\* preflight, last part: no Ethereum Pod that has not terminated.
PreflightPods(o) ==
    /\ pc[o] = "pods"
    /\ cluster # "absent"
    /\ \A a \in Assignment : pod[a] = "none"
    /\ pc' = [pc EXCEPT ![o] = "plan"]
    /\ UNCHANGED <<fleet, cluster, rds, backups, leftover, secrets, owned,
                   file, chosen, plan, window, ghost>>

\* terraform plan -destroy, saved, and the count of secret deletions in it.
Planned == IF owned THEN "unsafe" ELSE "safe"

\* Mutation: the count of secret deletions is not looked at.
SecretDeletesIgnored(o) == TRUE

SecretDeletesRefused(o) == plan'[o] = "safe"

PlanDestroy(o, from, to) ==
    /\ pc[o] = from
    /\ plan' = [plan EXCEPT ![o] = Planned]
    /\ SecretDeletesRefused(o)
    /\ pc' = [pc EXCEPT ![o] = to]
    /\ UNCHANGED <<fleet, cluster, rds, backups, leftover, secrets, owned,
                   file, window, ghost>>

\* The recovery snapshot is verified once, then the first plan is made.
FirstPlan(o) ==
    /\ \E s \in SnapshotIdFromArgOrFile(o) :
          s \in available /\ chosen' = [chosen EXCEPT ![o] = s]
    /\ PlanDestroy(o, "plan", "prompt")

\* The operator types destroy-<cluster>.  A mismatch is a Die step.
Confirm(o) ==
    /\ pc[o] = "prompt"
    /\ pc' = [pc EXCEPT ![o] = "prepare"]
    /\ UNCHANGED <<fleet, cluster, rds, backups, leftover, secrets, owned,
                   file, chosen, plan, window, ghost>>

\* Mutation: the targeted update changes a create-only argument, so the
\* instance is replaced by an empty one.
UnprotectedByReplacement(f) ==
    [rds EXCEPT !.present = TRUE, !.protected = FALSE, !.finalId = f, !.history = {}]

\* Applying the targeted configuration.  If the instance is gone by now
\* Terraform creates it again: no snapshot is named, so it starts empty.
Unprotected(f) ==
    [rds EXCEPT !.present = TRUE, !.protected = FALSE, !.finalId = f]

\* prepare_rds_for_destroy and delete_cluster_load_balancers.
PrepareRds(o, f) ==
    /\ pc[o] = "prepare"
    /\ f \notin available
    /\ rds' = Unprotected(f)
    /\ leftover' = leftover \ {"lb"}
    /\ plan' = [p \in Operator |-> "stale"]
    /\ regressed' = (regressed \/ ~(rds.present \/ signed = {}))
    /\ pc' = [pc EXCEPT ![o] = "replan"]
    /\ UNCHANGED <<fleet, cluster, backups, secrets, owned, file, chosen,
                   window, signed, conflict>>

\* Mutation: rds_skip_final_snapshot is set.
NoFinalSnapshot == UNCHANGED backups

\* Deleting the instance takes the final snapshot its state names.
FinalSnapshot == Take(rds.finalId)

\* What one run of terraform apply gets done of a destroy plan: the database,
\* the cluster, both or neither.  A cluster may leave a branch ENI behind.
Destroy(what) ==
    /\ "rds" \in what => rds.present /\ ~rds.protected
    /\ "eks" \in what => cluster # "absent"
    /\ IF "rds" \in what
         THEN rds' = NoInstance /\ FinalSnapshot
         ELSE UNCHANGED <<rds, backups>>
    /\ IF "eks" \in what
         THEN /\ cluster' = "absent"
              /\ record' = [a \in Assignment |-> "none"]
              /\ pod' = [a \in Assignment |-> "none"]
              /\ leftover' \in {leftover, leftover \cup {"eni"}}
         ELSE UNCHANGED <<cluster, fleet, leftover>>

TornDown == ~rds'.present /\ cluster' = "absent" /\ leftover' = {}

\* terraform apply <saved plan>.  A stale plan is refused.  An apply that does
\* not finish leaves what it did; the first goes on to clean up and retry.
ApplyPlan(o) ==
    /\ pc[o] \in {"apply", "retry"}
    /\ \E what \in SUBSET {"rds", "eks"} :
          /\ plan[o] = "stale" => what = {}
          /\ Destroy(what)
          /\ secrets' = (secrets /\ plan[o] # "unsafe")
          /\ plan' = IF what = {} THEN plan ELSE [p \in Operator |-> "stale"]
    /\ \/ TornDown /\ plan[o] # "stale" /\ pc' = [pc EXCEPT ![o] = "idle"]
       \/ pc' = [pc EXCEPT ![o] = IF @ = "apply" THEN "cleanup" ELSE "idle"]
    /\ UNCHANGED <<owned, file, chosen, window, ghost>>

\* Detached branch ENIs go only once EKS says the cluster does not exist.
CleanUp(o) ==
    /\ pc[o] = "cleanup"
    /\ leftover' = IF cluster = "absent" THEN leftover \ {"eni"} ELSE leftover
    /\ pc' = [pc EXCEPT ![o] = "replan2"]
    /\ UNCHANGED <<fleet, cluster, rds, backups, secrets, owned, file, chosen,
                   plan, window, ghost>>

\* Any refusal (die), AWS or Terraform error (set -e) or interrupt.
Die(o) ==
    /\ pc[o] # "idle"
    /\ pc' = [pc EXCEPT ![o] = "idle"]
    /\ chosen' = [chosen EXCEPT ![o] = None]
    /\ plan' = [plan EXCEPT ![o] = "stale"]
    /\ UNCHANGED <<fleet, cluster, rds, backups, leftover, secrets, owned,
                   file, window, ghost>>

----------------------------------------------------------------------------
(* up                                                                      *)

StartUp(o, s) ==
    /\ pc[o] = "idle"
    /\ s \in SnapshotIdFromArgOrFile(o)
    /\ s \in available
    /\ Runbook => Alone(o) /\ s = window
    /\ chosen' = [chosen EXCEPT ![o] = s]
    /\ pc' = [pc EXCEPT ![o] = "up"]
    /\ UNCHANGED <<fleet, cluster, rds, backups, leftover, secrets, owned,
                   file, plan, window, ghost>>

\* Mutation: the snapshot identifier does not reach aws_db_instance.
EmptyInstance(s) ==
    [present |-> TRUE, protected |-> TRUE, history |-> {},
     finalId |-> None, source |-> s]

RestoredInstance(s) ==
    [present |-> TRUE, protected |-> TRUE, history |-> snapshot[s],
     finalId |-> None, source |-> s]

\* Mutation: rds_deletion_protection defaults to false.
RestoreOverProtected(s) ==
    /\ rds' = RestoredInstance(s)
    /\ regressed' = (regressed \/ ~(signed \subseteq RestoredInstance(s).history))
    /\ UNCHANGED backups

\* A new snapshot_identifier makes Terraform replace an instance that exists;
\* AWS refuses to delete a protected one, and the old one leaves its final
\* snapshot.  With the identifier in its state only protection comes back.
ApplyRestore(s) ==
    \/ /\ rds.present /\ rds.source = s
       /\ rds' = [rds EXCEPT !.protected = TRUE, !.finalId = None]
       /\ UNCHANGED <<backups, regressed>>
    \/ /\ rds.present => rds.source # s /\ ~rds.protected
       /\ rds' = RestoredInstance(s)
       /\ IF rds.present THEN FinalSnapshot ELSE UNCHANGED backups
       /\ regressed' = (regressed \/ ~(signed \subseteq RestoredInstance(s).history))

\* terraform apply with rds_snapshot_identifier.  EKS and RDS are made in
\* parallel: either may be missing when the apply fails.
ApplyUp(o) ==
    /\ pc[o] = "up"
    /\ \E database, platform \in BOOLEAN :
          /\ IF database THEN ApplyRestore(chosen[o])
                         ELSE UNCHANGED <<rds, backups, regressed>>
          /\ cluster' = IF platform /\ cluster = "absent" THEN "bare" ELSE cluster
          /\ window' = IF database /\ platform THEN None ELSE window
    /\ plan' = [p \in Operator |-> "stale"]
    /\ pc' = [pc EXCEPT ![o] = "idle"]
    /\ UNCHANGED <<fleet, leftover, secrets, owned, file, chosen, signed, conflict>>

\* Runbook: the teardown is given up while the environment is still whole.
Abandon ==
    /\ window # None
    /\ \A o \in Operator : pc[o] = "idle"
    /\ rds.present /\ rds.protected /\ cluster # "absent"
    /\ window' = None
    /\ UNCHANGED <<fleet, cluster, rds, backups, leftover, secrets, owned,
                   plan, local, ghost>>

----------------------------------------------------------------------------

Fleet ==
    \/ \E a \in Assignment, l \in {"stopped", "active", "signing"} : Reconcile(a, l)
    \/ \E a \in Assignment : PodsFollow(a)
    \/ \E a \in Assignment, s \in Slot : Sign(a, s)

Command(o) ==
    \/ \E s \in SnapshotId : StartSnapshot(o, s) \/ StartUp(o, s)
    \/ RecordSnapshot(o)
    \/ StartDown(o) \/ PreflightRecords(o) \/ PreflightPods(o)
    \/ FirstPlan(o)
    \/ Confirm(o)
    \/ \E f \in FinalId : PrepareRds(o, f)
    \/ PlanDestroy(o, "replan", "apply") /\ UNCHANGED chosen
    \/ ApplyPlan(o)
    \/ CleanUp(o)
    \/ PlanDestroy(o, "replan2", "retry") /\ UNCHANGED chosen
    \/ ApplyUp(o)
    \/ Die(o)

Next ==
    \/ Fleet
    \/ BootstrapFlux \/ MoveSecrets \/ Abandon
    \/ \E o \in Operator : Command(o)

Spec == Init /\ [][Next]_vars

----------------------------------------------------------------------------
(* Properties                                                              *)

\* PRD 5.8: no operator command ever loses history for good.  Every duty ever
\* signed is recorded in the live database or in some retained snapshot,
\* whatever fails between two steps of a teardown or a restore.
HistoryRecoverable ==
    \A d \in signed : d \in rds.history \/ \E s \in available : d \in snapshot[s]

\* Until some database instance comes up without duties that were signed, no
\* duty is ever signed twice: that one event is the only way to a conflict.
ConflictNeedsRegression == conflict # {} => regressed

\* The durable secret containers survive every teardown, although the dev
\* root may come to own them at any moment between a plan and its apply.
DurableSecretsSurvive == secrets

\* A protected database is never deleted or replaced in one step, and only a
\* `down` its operator has confirmed takes the protection away: an `up` on a
\* live environment cannot.
ProtectedInstanceStays ==
    [][rds.present /\ rds.protected =>
          /\ rds'.present
          /\ rds'.source = rds.source
          /\ rds.history \subseteq rds'.history
          /\ ~rds'.protected => \E o \in Operator : pc[o] = "prepare"]_vars

\* A final snapshot is taken with no writer left: no validator client is
\* signing when the instance is deleted.
FinalSnapshotHasNoWriter ==
    [][(available' \ available) \cap FinalId # {} =>
          \A a \in Assignment : pod[a] # "signing"]_vars

\* Recovered history may extend but never regress: no instance comes up
\* without a duty that was signed.
RestoreNeverRegresses == ~regressed

\* No duty is ever signed twice.
NoDoubleSign == conflict = {}

\* What the signer tier would refuse: what its database holds or, while there is
\* none, what the snapshot of the quiet window will bring back.
Remembered ==
    IF rds.present THEN rds.history
    ELSE IF window # None THEN snapshot[window]
    ELSE {}

Protection == INSTANCE SlashingProtection
                 WITH remembered <- Remembered, serving <- rds.present

\* Whatever is torn down and restored in between, the fleet implements a signer
\* that never forgets a duty: a teardown is a pause and nothing else.
ImplementsProtection == Protection!Spec
============================================================================
