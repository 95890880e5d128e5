------------------------- MODULE ColdStandbyProofs -------------------------
(***************************************************************************)
(* Proofs about ColdStandby, for any number of operators, assignments,     *)
(* duties and snapshot identifiers.                                        *)
(***************************************************************************)
EXTENDS ColdStandby, TLAPS

----------------------------------------------------------------------------
(* Type correctness.  The type of a deletion and of a restore depends on   *)
(* two facts about values: an unprotected instance names a final snapshot  *)
(* whose identifier is still unused, and a command that works with a       *)
(* snapshot works with one that exists.                                    *)

PreparedInstance ==
    rds.present /\ ~rds.protected => rds.finalId \in FinalId \ available

ChosenExists ==
    \A o \in Operator : pc[o] \in {"waiting", "up"} => chosen[o] \in available

Typed == TypeOK /\ PreparedInstance /\ ChosenExists

\* The initial environment is typed.
LEMMA TypedInit == Init => Typed
<1> SUFFICES ASSUME Init PROVE Typed
  OBVIOUS
<1>1. rds = [present |-> TRUE, protected |-> TRUE, history |-> {},
             finalId |-> None, source |-> None]
  BY DEF Init, NoInstance
<1>2. rds \in Instance /\ PreparedInstance
  BY <1>1 DEF Instance, PreparedInstance
<1>. QED  BY <1>2 DEF Init, Typed, TypeOK, ChosenExists, SnapshotId, Step

\* Taking a snapshot keeps the types of the snapshot store.
LEMMA TakeTyped ==
    ASSUME TypeOK, NEW s \in SnapshotId, Take(s)
    PROVE  /\ available' \subseteq SnapshotId
           /\ snapshot' \in [SnapshotId -> SUBSET Duty]
BY DEF Take, TypeOK, Instance

\* Snapshots are never deleted.
LEMMA SnapshotsStay == [Next]_vars => available \subseteq available'
BY DEF Next, Fleet, Command, vars, fleet, backups, local, ghost, Reconcile,
       PodsFollow, Sign, BootstrapFlux, MoveSecrets, Abandon, StartSnapshot, Take,
       StartUp, RecordSnapshot, StartDown, PreflightRecords, PreflightPods,
       FirstPlan, PlanDestroy, Confirm, PrepareRds, ApplyPlan, Destroy,
       FinalSnapshot, CleanUp, ApplyUp, ApplyRestore, Die

\* A command keeps working with a snapshot that exists.
LEMMA ChosenStep == Typed /\ [Next]_vars => ChosenExists'
<1> SUFFICES ASSUME Typed, [Next]_vars PROVE ChosenExists'
  OBVIOUS
<1>1. available \subseteq available'
  BY SnapshotsStay
<1> USE <1>1 DEF Typed, TypeOK, ChosenExists, fleet, backups, local, ghost
<1>2. ASSUME UNCHANGED <<pc, chosen>> PROVE ChosenExists'
  BY <1>2
<1>3. ASSUME NEW o \in Operator, Command(o) PROVE ChosenExists'
  <2>1. ASSUME NEW s \in SnapshotId, StartSnapshot(o, s) PROVE ChosenExists'
    BY <2>1 DEF StartSnapshot, Take
  <2>2. ASSUME NEW s \in SnapshotId, StartUp(o, s) PROVE ChosenExists'
    BY <2>2 DEF StartUp
  <2>3. CASE FirstPlan(o)
    BY <2>3 DEF FirstPlan, PlanDestroy
  <2>4. CASE RecordSnapshot(o) \/ StartDown(o) \/ PreflightRecords(o)
             \/ PreflightPods(o) \/ Confirm(o) \/ CleanUp(o)
    BY <2>4 DEF RecordSnapshot, StartDown, PreflightRecords, PreflightPods,
                Confirm, CleanUp
  <2>5. ASSUME NEW f \in FinalId, PrepareRds(o, f) PROVE ChosenExists'
    BY <2>5 DEF PrepareRds
  <2>6. CASE ApplyPlan(o)
    BY <2>6 DEF ApplyPlan
  <2>7. CASE ApplyUp(o) \/ Die(o)
    BY <2>7 DEF ApplyUp, Die
  <2>8. CASE \/ PlanDestroy(o, "replan", "apply") /\ UNCHANGED chosen
             \/ PlanDestroy(o, "replan2", "retry") /\ UNCHANGED chosen
    BY <2>8 DEF PlanDestroy
  <2>. QED  BY <1>3, <2>1, <2>2, <2>3, <2>4, <2>5, <2>6, <2>7, <2>8 DEF Command
<1>. QED
  BY <1>2, <1>3 DEF Next, Fleet, Reconcile, PodsFollow, Sign, BootstrapFlux,
                    MoveSecrets, Abandon, vars

\* Every step of the fleet, of an operator or of a failure keeps the types.
LEMMA TypedStep == Typed /\ [Next]_vars => (TypeOK /\ PreparedInstance)'
<1> SUFFICES ASSUME Typed, [Next]_vars PROVE (TypeOK /\ PreparedInstance)'
  OBVIOUS
<1> USE DEF Typed, TypeOK, fleet, backups, local, ghost
<1>1. ASSUME NEW a \in Assignment, NEW l \in {"stopped", "active", "signing"},
             Reconcile(a, l)
      PROVE  (TypeOK /\ PreparedInstance)'
  BY <1>1 DEF Reconcile, PreparedInstance
<1>2. ASSUME NEW a \in Assignment, PodsFollow(a) PROVE (TypeOK /\ PreparedInstance)'
  BY <1>2 DEF PodsFollow, PreparedInstance
<1>3. ASSUME NEW a \in Assignment, NEW s \in Slot, Sign(a, s) PROVE (TypeOK /\ PreparedInstance)'
  <2>1. <<a, s>> \in Duty
    BY DEF Duty
  <2>2. rds' \in Instance
    BY <1>3, <2>1 DEF Sign, Instance
  <2>3. PreparedInstance'
    BY <1>3 DEF Sign, Instance, PreparedInstance
  <2>. QED  BY <1>3, <2>1, <2>2, <2>3 DEF Sign
<1>4. CASE BootstrapFlux
  BY <1>4 DEF BootstrapFlux, PreparedInstance
<1>5. CASE MoveSecrets
  BY <1>5 DEF MoveSecrets, PreparedInstance
<1>6. CASE Abandon
  BY <1>6 DEF Abandon, PreparedInstance
<1>7. ASSUME NEW o \in Operator, NEW s \in SnapshotId, StartSnapshot(o, s)
      PROVE  (TypeOK /\ PreparedInstance)'
  <2>1. s \notin available => s \in ManualId
    BY <1>7 DEF StartSnapshot
  <2>2. available' \subseteq SnapshotId /\ snapshot' \in [SnapshotId -> SUBSET Duty]
    BY <1>7, TakeTyped DEF StartSnapshot
  <2>3. window' \in ManualId \cup {None}
    BY <1>7, <2>1 DEF StartSnapshot
  <2>4. PreparedInstance'
    BY <1>7, <2>1, SnapshotNames DEF StartSnapshot, Take, PreparedInstance
  <2>. QED  BY <1>7, <2>2, <2>3, <2>4 DEF StartSnapshot, Step
<1>8. ASSUME NEW o \in Operator, NEW s \in SnapshotId, StartUp(o, s)
      PROVE  (TypeOK /\ PreparedInstance)'
  BY <1>8 DEF StartUp, Step, PreparedInstance
<1>9. ASSUME NEW o \in Operator, RecordSnapshot(o) PROVE (TypeOK /\ PreparedInstance)'
  BY <1>9 DEF RecordSnapshot, Step, PreparedInstance
<1>10. ASSUME NEW o \in Operator,
              StartDown(o) \/ PreflightRecords(o) \/ PreflightPods(o) \/ Confirm(o)
       PROVE  (TypeOK /\ PreparedInstance)'
  BY <1>10 DEF StartDown, PreflightRecords, PreflightPods, Confirm, Step, PreparedInstance
<1>11. ASSUME NEW o \in Operator, FirstPlan(o) PROVE (TypeOK /\ PreparedInstance)'
  <2>1. chosen' \in [Operator -> SnapshotId \cup {None}]
    BY <1>11 DEF FirstPlan
  <2>. QED
    BY <1>11, <2>1 DEF FirstPlan, PlanDestroy, Planned, Step, PreparedInstance
<1>12. ASSUME NEW o \in Operator, NEW f \in FinalId, PrepareRds(o, f)
       PROVE  (TypeOK /\ PreparedInstance)'
  <2>1. rds' \in Instance
    BY <1>12 DEF PrepareRds, Unprotected, Instance
  <2>2. regressed' \in BOOLEAN
    BY <1>12 DEF PrepareRds
  <2>3. PreparedInstance'
    BY <1>12 DEF PrepareRds, Unprotected, Instance, PreparedInstance
  <2>. QED  BY <1>12, <2>1, <2>2, <2>3 DEF PrepareRds, Step
<1>13. ASSUME NEW o \in Operator, NEW from \in Step, NEW to \in Step,
              PlanDestroy(o, from, to), UNCHANGED chosen
       PROVE  (TypeOK /\ PreparedInstance)'
  BY <1>13 DEF PlanDestroy, Planned, PreparedInstance
<1>14. ASSUME NEW o \in Operator, ApplyPlan(o) PROVE (TypeOK /\ PreparedInstance)'
  <2>1. PICK what \in SUBSET {"rds", "eks"} :
          /\ Destroy(what)
          /\ secrets' = (secrets /\ plan[o] # "unsafe")
          /\ plan' = IF what = {} THEN plan ELSE [p \in Operator |-> "stale"]
    BY <1>14 DEF ApplyPlan
  <2>2. "rds" \in what => rds.finalId \in FinalId
    BY <2>1 DEF Destroy, PreparedInstance
  <2>3. "rds" \in what => rds' = NoInstance /\ Take(rds.finalId)
    BY <2>1 DEF Destroy, FinalSnapshot
  <2>4. "rds" \notin what => UNCHANGED <<rds, available, snapshot>>
    BY <2>1 DEF Destroy
  <2>5. NoInstance \in Instance /\ ~NoInstance.present
    BY DEF NoInstance, Instance
  <2>6. rds' \in Instance /\ PreparedInstance'
    BY <2>3, <2>4, <2>5 DEF PreparedInstance
  <2>7. available' \subseteq SnapshotId /\ snapshot' \in [SnapshotId -> SUBSET Duty]
    BY <2>2, <2>3, <2>4, TakeTyped DEF SnapshotId
  <2>8. /\ cluster' \in {"absent", "bare", "flux"}
        /\ record' \in [Assignment -> {"none", "stopped", "active", "signing"}]
        /\ pod' \in [Assignment -> {"none", "active", "signing"}]
        /\ leftover' \subseteq {"lb", "eni"}
    BY <2>1 DEF Destroy
  <2>9. pc' \in [Operator -> Step]
    BY <1>14 DEF ApplyPlan, Step
  <2>10. /\ plan' \in [Operator -> {"stale", "safe", "unsafe"}]
         /\ secrets' \in BOOLEAN
    BY <2>1
  <2>. QED
    BY <1>14, <2>6, <2>7, <2>8, <2>9, <2>10 DEF ApplyPlan
<1>15. ASSUME NEW o \in Operator, CleanUp(o) PROVE (TypeOK /\ PreparedInstance)'
  BY <1>15 DEF CleanUp, Step, PreparedInstance
<1>16. ASSUME NEW o \in Operator, Die(o) PROVE (TypeOK /\ PreparedInstance)'
  BY <1>16 DEF Die, Step, PreparedInstance
<1>17. ASSUME NEW o \in Operator, ApplyUp(o) PROVE (TypeOK /\ PreparedInstance)'
  <2>1. PICK database \in BOOLEAN, platform \in BOOLEAN :
          /\ IF database THEN ApplyRestore(chosen[o])
                         ELSE UNCHANGED <<rds, backups, regressed>>
          /\ cluster' = IF platform /\ cluster = "absent" THEN "bare" ELSE cluster
          /\ window' = IF database /\ platform THEN None ELSE window
    BY <1>17 DEF ApplyUp
  <2>2. CASE ~database
    BY <1>17, <2>1, <2>2 DEF ApplyUp, Step, PreparedInstance
  <2>3. CASE database
    <3> DEFINE s == chosen[o]
    <3>1. s \in SnapshotId /\ s \in available /\ ApplyRestore(s)
      BY <1>17, <2>1, <2>3 DEF ApplyUp, ChosenExists
    <3>2. /\ pc' \in [Operator -> Step]
          /\ plan' \in [Operator -> {"stale", "safe", "unsafe"}]
      BY <1>17 DEF ApplyUp, Step
    <3>3. cluster' \in {"absent", "bare", "flux"} /\ window' \in ManualId \cup {None}
      BY <2>1
    <3>4. CASE rds.present /\ rds.source = s
      <4>1. /\ rds' = [rds EXCEPT !.protected = TRUE, !.finalId = None]
            /\ UNCHANGED <<backups, regressed>>
        BY <3>1, <3>4 DEF ApplyRestore
      <4>2. rds' \in Instance /\ PreparedInstance'
        BY <4>1 DEF Instance, PreparedInstance
      <4>. QED  BY <1>17, <3>2, <3>3, <4>1, <4>2 DEF ApplyUp
    <3>5. CASE ~(rds.present /\ rds.source = s)
      <4>1. /\ rds' = RestoredInstance(s)
            /\ IF rds.present THEN FinalSnapshot ELSE UNCHANGED backups
            /\ regressed' = (regressed \/ ~(signed \subseteq RestoredInstance(s).history))
        BY <3>1, <3>5 DEF ApplyRestore
      <4>2. rds.present => rds.finalId \in FinalId
        BY <3>1, <3>5 DEF ApplyRestore, PreparedInstance
      <4>3. rds' \in Instance /\ PreparedInstance'
        BY <3>1, <4>1 DEF RestoredInstance, Instance, PreparedInstance
      <4>4. available' \subseteq SnapshotId /\ snapshot' \in [SnapshotId -> SUBSET Duty]
        BY <4>1, <4>2, TakeTyped DEF FinalSnapshot, SnapshotId
      <4>. QED  BY <1>17, <3>2, <3>3, <4>1, <4>3, <4>4 DEF ApplyUp
    <3>. QED  BY <3>4, <3>5
  <2>. QED  BY <2>2, <2>3
<1>18. CASE UNCHANGED vars
  BY <1>18 DEF vars, PreparedInstance
<1>. QED
  BY <1>1, <1>2, <1>3, <1>4, <1>5, <1>6, <1>7, <1>8, <1>9, <1>10, <1>11,
     <1>12, <1>13, <1>14, <1>15, <1>16, <1>17, <1>18
  DEF Next, Fleet, Command, Step

LEMMA TypedInductive == Typed /\ [Next]_vars => Typed'
BY TypedStep, ChosenStep DEF Typed

\* Every variable keeps its type through every command, failure and fleet step.
THEOREM TypeCorrect == Spec => []TypeOK
<1>1. Spec => []Typed
  BY TypedInit, TypedInductive, PTL DEF Spec
<1>. QED  BY <1>1, PTL DEF Typed

----------------------------------------------------------------------------
(* Signed history is never lost for good.  Beyond the types this needs     *)
(* that an instance that is gone holds nothing.                            *)

AbsentIsEmpty == ~rds.present => rds.history = {}

Recoverable == Typed /\ AbsentIsEmpty /\ HistoryRecoverable

\* A snapshot taken under an unused identifier loses nothing: what was in the
\* database or in a snapshot is in a snapshot afterwards.
LEMMA TakeKeepsHistory ==
    ASSUME Recoverable, NEW s \in SnapshotId \ available, Take(s), NEW d \in signed
    PROVE  \/ d \in rds.history /\ s \in available' /\ d \in snapshot'[s]
           \/ \E t \in available' : d \in snapshot'[t]
BY DEF Recoverable, Typed, TypeOK, HistoryRecoverable, Take

LEMMA RecoverableStep == Recoverable /\ [Next]_vars => Recoverable'
<1> SUFFICES ASSUME Recoverable, [Next]_vars
             PROVE  AbsentIsEmpty' /\ HistoryRecoverable'
  BY TypedInductive DEF Recoverable
<1> USE DEF Recoverable, Typed, TypeOK, AbsentIsEmpty, HistoryRecoverable,
            fleet, backups, local, ghost
<1>1. ASSUME UNCHANGED <<rds, available, snapshot, signed>>
      PROVE  AbsentIsEmpty' /\ HistoryRecoverable'
  BY <1>1
<1>2. ASSUME NEW a \in Assignment, NEW s \in Slot, Sign(a, s)
      PROVE  AbsentIsEmpty' /\ HistoryRecoverable'
  BY <1>2 DEF Sign, Instance
<1>3. ASSUME NEW o \in Operator, Command(o)
      PROVE  AbsentIsEmpty' /\ HistoryRecoverable'
  <2>1. ASSUME NEW s \in SnapshotId, StartSnapshot(o, s)
        PROVE  AbsentIsEmpty' /\ HistoryRecoverable'
    <3>1. CASE s \in available
      BY <2>1, <3>1, <1>1 DEF StartSnapshot
    <3>2. CASE s \notin available
      BY <2>1, <3>2, TakeKeepsHistory DEF StartSnapshot
    <3>. QED  BY <3>1, <3>2
  <2>2. ASSUME NEW f \in FinalId, PrepareRds(o, f)
        PROVE  AbsentIsEmpty' /\ HistoryRecoverable'
    BY <2>2 DEF PrepareRds, Unprotected, Instance
  <2>3. CASE ApplyPlan(o)
    <3>1. PICK what \in SUBSET {"rds", "eks"} : Destroy(what)
      BY <2>3 DEF ApplyPlan
    <3>2. UNCHANGED signed
      BY <2>3 DEF ApplyPlan
    <3>3. CASE "rds" \notin what
      BY <3>1, <3>2, <3>3, <1>1 DEF Destroy
    <3>4. CASE "rds" \in what
      <4>1. rds.finalId \in SnapshotId \ available
        BY <3>1, <3>4 DEF Destroy, PreparedInstance, SnapshotId
      <4>2. rds' = NoInstance /\ Take(rds.finalId)
        BY <3>1, <3>4 DEF Destroy, FinalSnapshot
      <4>. QED  BY <3>2, <4>1, <4>2, TakeKeepsHistory DEF NoInstance
    <3>. QED  BY <3>3, <3>4
  <2>4. CASE ApplyUp(o)
    <3>1. UNCHANGED signed
      BY <2>4 DEF ApplyUp
    <3>2. CASE UNCHANGED <<rds, backups, regressed>>
      BY <3>1, <3>2, <1>1
    <3>3. CASE ApplyRestore(chosen[o])
      <4> DEFINE s == chosen[o]
      <4>1. s \in SnapshotId
        BY <2>4 DEF ApplyUp, ChosenExists
      <4>2. CASE rds' = [rds EXCEPT !.protected = TRUE, !.finalId = None]
                 /\ UNCHANGED <<backups, regressed>>
        BY <3>1, <4>2 DEF Instance
      <4>3. CASE /\ rds.present => rds.source # s /\ ~rds.protected
                 /\ rds' = RestoredInstance(s)
                 /\ IF rds.present THEN FinalSnapshot ELSE UNCHANGED backups
        <5>1. CASE rds.present
          <6>1. rds.finalId \in SnapshotId \ available /\ Take(rds.finalId)
            BY <4>3, <5>1 DEF PreparedInstance, SnapshotId, FinalSnapshot
          <6>. QED  BY <3>1, <4>3, <6>1, TakeKeepsHistory DEF RestoredInstance
        <5>2. CASE ~rds.present
          BY <3>1, <4>3, <5>2 DEF RestoredInstance
        <5>. QED  BY <5>1, <5>2
      <4>. QED  BY <3>3, <4>2, <4>3 DEF ApplyRestore
    <3>. QED  BY <2>4, <3>2, <3>3 DEF ApplyUp
  <2>5. CASE FirstPlan(o) \/ RecordSnapshot(o) \/ StartDown(o) \/ PreflightRecords(o)
             \/ PreflightPods(o) \/ Confirm(o) \/ CleanUp(o) \/ Die(o)
    BY <2>5, <1>1 DEF FirstPlan, PlanDestroy, RecordSnapshot, StartDown,
                PreflightRecords, PreflightPods, Confirm, CleanUp, Die
  <2>6. ASSUME NEW s \in SnapshotId, StartUp(o, s)
        PROVE  AbsentIsEmpty' /\ HistoryRecoverable'
    BY <2>6, <1>1 DEF StartUp
  <2>7. CASE \/ PlanDestroy(o, "replan", "apply") /\ UNCHANGED chosen
             \/ PlanDestroy(o, "replan2", "retry") /\ UNCHANGED chosen
    BY <2>7, <1>1 DEF PlanDestroy
  <2>. QED  BY <1>3, <2>1, <2>2, <2>3, <2>4, <2>5, <2>6, <2>7 DEF Command
<1>4. ASSUME NEW a \in Assignment, NEW l \in {"stopped", "active", "signing"},
             Reconcile(a, l) \/ PodsFollow(a)
      PROVE  AbsentIsEmpty' /\ HistoryRecoverable'
  BY <1>4, <1>1 DEF Reconcile, PodsFollow
<1>5. CASE BootstrapFlux \/ MoveSecrets \/ Abandon \/ UNCHANGED vars
  BY <1>5, <1>1 DEF BootstrapFlux, MoveSecrets, Abandon, vars
<1>. QED  BY <1>2, <1>3, <1>4, <1>5 DEF Next, Fleet

\* PRD 5.8: whatever commands run and fail in whatever order, every duty ever
\* signed stays recorded in the database or in a retained snapshot.
THEOREM HistoryNeverLost == Spec => []HistoryRecoverable
<1>1. Init => Recoverable
  BY TypedInit DEF Init, Recoverable, AbsentIsEmpty, HistoryRecoverable, NoInstance
<1>2. Spec => []Recoverable
  BY <1>1, RecoverableStep, PTL DEF Spec
<1>. QED  BY <1>2, PTL DEF Recoverable

----------------------------------------------------------------------------
(* Durable secrets.  The plan an apply uses was checked after the last     *)
(* write of the Terraform state, or the state was written since and the    *)
(* plan is stale.                                                          *)

CheckedPlan ==
    \A o \in Operator : pc[o] \in {"apply", "retry"} => plan[o] # "unsafe"

LEMMA SecretsStep ==
    TypeOK /\ CheckedPlan /\ secrets /\ [Next]_vars => (CheckedPlan /\ secrets)'
<1> SUFFICES ASSUME TypeOK, CheckedPlan, secrets, [Next]_vars
             PROVE  (CheckedPlan /\ secrets)'
  OBVIOUS
<1> USE DEF TypeOK, CheckedPlan, fleet, backups, local, ghost
<1>1. ASSUME UNCHANGED <<pc, plan, secrets>> PROVE (CheckedPlan /\ secrets)'
  BY <1>1
<1>2. ASSUME NEW o \in Operator, Command(o) PROVE (CheckedPlan /\ secrets)'
  <2>1. ASSUME NEW s \in SnapshotId, StartSnapshot(o, s) \/ StartUp(o, s)
        PROVE  (CheckedPlan /\ secrets)'
    BY <2>1 DEF StartSnapshot, StartUp
  <2>2. CASE RecordSnapshot(o) \/ StartDown(o) \/ PreflightRecords(o)
             \/ PreflightPods(o) \/ Confirm(o) \/ CleanUp(o) \/ Die(o)
    BY <2>2 DEF RecordSnapshot, StartDown, PreflightRecords, PreflightPods,
                Confirm, CleanUp, Die
  <2>3. CASE FirstPlan(o)
    BY <2>3 DEF FirstPlan, PlanDestroy, SecretDeletesRefused
  <2>4. ASSUME NEW f \in FinalId, PrepareRds(o, f) PROVE (CheckedPlan /\ secrets)'
    BY <2>4 DEF PrepareRds
  <2>5. CASE \/ PlanDestroy(o, "replan", "apply") /\ UNCHANGED chosen
             \/ PlanDestroy(o, "replan2", "retry") /\ UNCHANGED chosen
    BY <2>5 DEF PlanDestroy, SecretDeletesRefused
  <2>6. CASE ApplyPlan(o)
    BY <2>6 DEF ApplyPlan
  <2>7. CASE ApplyUp(o)
    BY <2>7 DEF ApplyUp
  <2>. QED  BY <1>2, <2>1, <2>2, <2>3, <2>4, <2>5, <2>6, <2>7 DEF Command
<1>3. CASE MoveSecrets
  BY <1>3 DEF MoveSecrets
<1>. QED
  BY <1>1, <1>2, <1>3 DEF Next, Fleet, Reconcile, PodsFollow, Sign,
                          BootstrapFlux, Abandon, vars

\* No teardown deletes the durable secret containers, whoever moves them into
\* the dev root's state and whenever.
THEOREM SecretsSurvive == Spec => []DurableSecretsSurvive
<1>1. Init => CheckedPlan /\ secrets
  BY DEF Init, CheckedPlan
<1>2. Spec => [](CheckedPlan /\ secrets)
  BY <1>1, SecretsStep, TypeCorrect, PTL DEF Spec
<1>. QED  BY <1>2, PTL DEF DurableSecretsSurvive

----------------------------------------------------------------------------
(* The only way to sign twice.  While no instance has come up short, the   *)
(* database holds everything that was signed.                              *)

Complete == ~regressed => conflict = {} /\ (rds.present => signed \subseteq rds.history)

LEMMA CompleteStep == Typed /\ Complete /\ [Next]_vars => Complete'
<1> SUFFICES ASSUME Typed, Complete, [Next]_vars PROVE Complete'
  OBVIOUS
<1> USE DEF Typed, TypeOK, Complete, fleet, backups, local, ghost
<1>1. ASSUME UNCHANGED <<rds, signed, conflict, regressed>> PROVE Complete'
  BY <1>1
<1>2. ASSUME NEW a \in Assignment, NEW s \in Slot, Sign(a, s) PROVE Complete'
  BY <1>2 DEF Sign, Instance
<1>3. ASSUME NEW o \in Operator, Command(o) PROVE Complete'
  <2>1. ASSUME NEW f \in FinalId, PrepareRds(o, f) PROVE Complete'
    BY <2>1 DEF PrepareRds, Unprotected, Instance
  <2>2. CASE ApplyPlan(o)
    <3>1. UNCHANGED ghost /\ (rds' = NoInstance \/ UNCHANGED rds)
      BY <2>2 DEF ApplyPlan, Destroy
    <3>. QED  BY <3>1 DEF NoInstance
  <2>3. CASE ApplyUp(o)
    <3>1. UNCHANGED <<signed, conflict>>
      BY <2>3 DEF ApplyUp
    <3>2. CASE UNCHANGED <<rds, backups, regressed>>
      BY <3>1, <3>2, <1>1
    <3>3. CASE ApplyRestore(chosen[o])
      <4>1. chosen[o] \in SnapshotId
        BY <2>3 DEF ApplyUp, ChosenExists
      <4>2. CASE /\ rds.present
                 /\ rds' = [rds EXCEPT !.protected = TRUE, !.finalId = None]
                 /\ UNCHANGED regressed
        BY <3>1, <4>2 DEF Instance
      <4>3. CASE /\ rds' = RestoredInstance(chosen[o])
                 /\ regressed' = (regressed \/ ~(signed \subseteq RestoredInstance(chosen[o]).history))
        BY <3>1, <4>1, <4>3 DEF RestoredInstance
      <4>. QED  BY <3>3, <4>2, <4>3 DEF ApplyRestore
    <3>. QED  BY <2>3, <3>2, <3>3 DEF ApplyUp
  <2>4. ASSUME NEW s \in SnapshotId, StartSnapshot(o, s) \/ StartUp(o, s)
        PROVE  Complete'
    BY <2>4, <1>1 DEF StartSnapshot, StartUp
  <2>5. CASE FirstPlan(o) \/ RecordSnapshot(o) \/ StartDown(o) \/ PreflightRecords(o)
             \/ PreflightPods(o) \/ Confirm(o) \/ CleanUp(o) \/ Die(o)
    BY <2>5, <1>1 DEF FirstPlan, PlanDestroy, RecordSnapshot, StartDown,
                PreflightRecords, PreflightPods, Confirm, CleanUp, Die
  <2>6. CASE \/ PlanDestroy(o, "replan", "apply") /\ UNCHANGED chosen
             \/ PlanDestroy(o, "replan2", "retry") /\ UNCHANGED chosen
    BY <2>6, <1>1 DEF PlanDestroy
  <2>. QED  BY <1>3, <2>1, <2>2, <2>3, <2>4, <2>5, <2>6 DEF Command
<1>. QED
  BY <1>1, <1>2, <1>3 DEF Next, Fleet, Reconcile, PodsFollow, BootstrapFlux,
                          MoveSecrets, Abandon, vars

\* A duty is signed twice only if some instance came up without a signed duty.
THEOREM OnlyRegressionConflicts == Spec => []ConflictNeedsRegression
<1>1. Init => Complete
  BY DEF Init, Complete
<1>2. Spec => [](Typed /\ Complete)
  BY <1>1, TypedInit, TypedInductive, CompleteStep, PTL DEF Spec
<1>3. Typed /\ Complete => ConflictNeedsRegression
  BY DEF Complete, ConflictNeedsRegression, Typed, TypeOK
<1>. QED  BY <1>2, <1>3, PTL

----------------------------------------------------------------------------
(* The runbook suffices.  Its quiet window opens with the recovery         *)
(* snapshot and closes when the restore is complete; inside it nothing     *)
(* signs, so the snapshot that is restored holds everything.               *)

Busy(o) == pc[o] # "idle"

Tearing == {"records", "pods", "plan", "prompt", "prepare"}

WindowIsQuiet ==
    window # None => window \in available /\ signed \subseteq snapshot[window] /\ Quiet

OneCommand == \A o, p \in Operator : Busy(o) /\ Busy(p) => o = p

WindowCovers ==
    \A o \in Operator :
       /\ Busy(o) /\ pc[o] # "waiting" => window # None
       /\ pc[o] = "up" => chosen[o] = window
       /\ pc[o] \in Tearing => rds.present

OutsideIsWhole == window = None => rds.present /\ rds.protected

RunbookInv ==
    /\ Typed /\ Complete
    /\ ~regressed
    /\ WindowIsQuiet
    /\ OneCommand
    /\ WindowCovers
    /\ OutsideIsWhole

LEMMA RunbookInit == Init => RunbookInv
BY TypedInit
DEF Init, RunbookInv, Complete, WindowIsQuiet, OneCommand, WindowCovers,
    OutsideIsWhole, NoInstance, Busy, Tearing

LEMMA RunbookStep == Runbook /\ RunbookInv /\ [Next]_vars => RunbookInv'
<1> SUFFICES ASSUME Runbook, RunbookInv, [Next]_vars
             PROVE  /\ ~regressed' /\ WindowIsQuiet' /\ OneCommand'
                    /\ WindowCovers' /\ OutsideIsWhole'
  BY TypedInductive, CompleteStep DEF RunbookInv
<1> DEFINE Goal == /\ ~regressed' /\ WindowIsQuiet' /\ OneCommand'
                   /\ WindowCovers' /\ OutsideIsWhole'
<1> USE DEF RunbookInv, Typed, TypeOK, WindowIsQuiet, OneCommand, WindowCovers,
            OutsideIsWhole, Busy, Quiet, Tearing, Step, fleet, backups, local, ghost
<1>1. ASSUME NEW a \in Assignment, NEW l \in {"stopped", "active", "signing"},
             Reconcile(a, l)
      PROVE  Goal
  BY <1>1 DEF Reconcile
<1>2. ASSUME NEW a \in Assignment, PodsFollow(a) PROVE Goal
  BY <1>2 DEF PodsFollow
<1>3. ASSUME NEW a \in Assignment, NEW s \in Slot, Sign(a, s) PROVE Goal
  BY <1>3 DEF Sign, Instance
<1>4. CASE BootstrapFlux \/ MoveSecrets \/ UNCHANGED vars
  BY <1>4 DEF BootstrapFlux, MoveSecrets, vars
<1>5. CASE Abandon
  BY <1>5 DEF Abandon
<1>6. ASSUME NEW o \in Operator, NEW s \in SnapshotId, StartSnapshot(o, s)
      PROVE  Goal
  <2>1. /\ Alone(o) /\ Quiet /\ window = None /\ s \notin available
        /\ Take(s) /\ window' = s /\ s \in ManualId
        /\ pc' = [pc EXCEPT ![o] = "waiting"]
        /\ UNCHANGED <<record, pod, rds, signed, regressed>>
    BY <1>6 DEF StartSnapshot
  <2>2. signed \subseteq rds.history
    BY <2>1 DEF Complete
  <2>3. WindowIsQuiet'
    BY <2>1, <2>2 DEF Take, SnapshotId
  <2>. QED  BY <2>1, <2>3, SnapshotNames DEF Alone, SnapshotId
<1>7. ASSUME NEW o \in Operator, NEW s \in SnapshotId, StartUp(o, s)
      PROVE  Goal
  BY <1>7, SnapshotNames DEF StartUp, Alone
<1>8. ASSUME NEW o \in Operator, StartDown(o) PROVE Goal
  BY <1>8 DEF StartDown, Alone
<1>9. ASSUME NEW o \in Operator,
             RecordSnapshot(o) \/ PreflightRecords(o) \/ PreflightPods(o)
             \/ Confirm(o) \/ CleanUp(o) \/ Die(o)
      PROVE  Goal
  BY <1>9 DEF RecordSnapshot, PreflightRecords, PreflightPods, Confirm, CleanUp, Die
<1>10. ASSUME NEW o \in Operator,
              \/ FirstPlan(o)
              \/ PlanDestroy(o, "replan", "apply") /\ UNCHANGED chosen
              \/ PlanDestroy(o, "replan2", "retry") /\ UNCHANGED chosen
       PROVE  Goal
  BY <1>10 DEF FirstPlan, PlanDestroy
<1>11. ASSUME NEW o \in Operator, NEW f \in FinalId, PrepareRds(o, f) PROVE Goal
  BY <1>11 DEF PrepareRds
<1>12. ASSUME NEW o \in Operator, ApplyPlan(o) PROVE Goal
  <2>1. PICK what \in SUBSET {"rds", "eks"} : Destroy(what)
    BY <1>12 DEF ApplyPlan
  <2>2. pc[o] \in {"apply", "retry"} /\ window # None /\ UNCHANGED <<window, signed, regressed>>
    BY <1>12 DEF ApplyPlan
  <2>3. WindowIsQuiet'
    <3>1. Quiet'
      BY <2>1, <2>2 DEF Destroy
    <3>2. window \in available' /\ snapshot'[window] = snapshot[window]
      BY <2>1, <2>2 DEF Destroy, FinalSnapshot, Take, PreparedInstance
    <3>. QED  BY <2>2, <3>1, <3>2
  <2>4. \A p \in Operator : p # o => pc[p] = "idle" /\ pc'[p] = "idle"
    BY <1>12, <2>2 DEF ApplyPlan
  <2>5. pc'[o] \in {"idle", "cleanup"}
    BY <1>12 DEF ApplyPlan
  <2>. QED  BY <2>2, <2>3, <2>4, <2>5
<1>13. ASSUME NEW o \in Operator, ApplyUp(o) PROVE Goal
  <2>1. PICK database \in BOOLEAN, platform \in BOOLEAN :
          /\ IF database THEN ApplyRestore(chosen[o])
                         ELSE UNCHANGED <<rds, backups, regressed>>
          /\ window' = IF database /\ platform THEN None ELSE window
    BY <1>13 DEF ApplyUp
  <2>2. /\ chosen[o] = window /\ window # None
        /\ \A p \in Operator : pc'[p] = "idle"
        /\ UNCHANGED <<record, pod, signed>>
    BY <1>13 DEF ApplyUp
  <2>3. CASE ~database
    BY <2>1, <2>2, <2>3
  <2>4. CASE database
    <3>1. ApplyRestore(chosen[o])
      BY <2>1, <2>4
    <3>2. ~regressed' /\ rds'.present /\ rds'.protected
      <4>1. CASE /\ rds.present
                 /\ rds' = [rds EXCEPT !.protected = TRUE, !.finalId = None]
                 /\ UNCHANGED regressed
        BY <4>1 DEF Instance
      <4>2. CASE /\ rds' = RestoredInstance(chosen[o])
                 /\ regressed' = (regressed \/ ~(signed \subseteq RestoredInstance(chosen[o]).history))
        <5>1. signed \subseteq snapshot[chosen[o]]
          BY <2>2
        <5>. QED  BY <4>2, <5>1 DEF RestoredInstance
      <4>. QED  BY <3>1, <4>1, <4>2 DEF ApplyRestore
    <3>3. window \in available' /\ snapshot'[window] = snapshot[window]
      BY <2>2, <3>1 DEF ApplyRestore, FinalSnapshot, Take, PreparedInstance
    <3>. QED  BY <2>1, <2>2, <3>2, <3>3
  <2>. QED  BY <2>3, <2>4
<1>. QED
  BY <1>1, <1>2, <1>3, <1>4, <1>5, <1>6, <1>7, <1>8, <1>9, <1>10, <1>11,
     <1>12, <1>13
  DEF Next, Fleet, Command

\* An operator team that keeps to the runbook never brings up a database that
\* lacks a signed duty.
THEOREM RunbookNeverRegresses ==
    ASSUME Runbook PROVE Spec => []RestoreNeverRegresses
<1>1. RunbookInv /\ [Next]_vars => RunbookInv'
  BY RunbookStep
<1>2. Spec => []RunbookInv
  BY <1>1, RunbookInit, PTL DEF Spec
<1>3. RunbookInv => RestoreNeverRegresses
  BY DEF RunbookInv, RestoreNeverRegresses
<1>. QED  BY <1>2, <1>3, PTL

\* An operator team that keeps to the runbook never signs a duty twice.
THEOREM RunbookNeverSignsTwice ==
    ASSUME Runbook PROVE Spec => []NoDoubleSign
<1>1. RunbookInv /\ [Next]_vars => RunbookInv'
  BY RunbookStep
<1>2. Spec => []RunbookInv
  BY <1>1, RunbookInit, PTL DEF Spec
<1>3. RunbookInv => NoDoubleSign
  BY DEF RunbookInv, Complete, NoDoubleSign
<1>. QED  BY <1>2, <1>3, PTL

----------------------------------------------------------------------------
(* Under the runbook the fleet implements SlashingProtection: what would   *)
(* be refused is at every moment exactly what was signed, so a step of the *)
(* fleet signs a duty, pauses, resumes or does nothing of interest.        *)

OnlySigned ==
    rds.history \subseteq signed /\ \A s \in SnapshotId : snapshot[s] \subseteq signed

\* A snapshot taken now holds nothing that was not signed.
LEMMA TakeOnlySigned ==
    ASSUME OnlySigned, TypeOK, NEW s \in SnapshotId, Take(s)
    PROVE  \A t \in SnapshotId : snapshot'[t] \subseteq signed
BY DEF OnlySigned, TypeOK, Take

\* Apart from Web3Signer nobody adds to what was signed.
LEMMA OnlySignSigns ==
    [Next]_vars => UNCHANGED signed \/ \E a \in Assignment, s \in Slot : Sign(a, s)
BY DEF Next, Fleet, Command, vars, ghost, Reconcile, PodsFollow, BootstrapFlux,
       MoveSecrets, Abandon, StartSnapshot, StartUp, RecordSnapshot, StartDown,
       PreflightRecords, PreflightPods, FirstPlan, PlanDestroy, Confirm, CleanUp,
       PrepareRds, ApplyPlan, ApplyUp, Die

\* Databases and snapshots hold signed duties and no others.
LEMMA OnlySignedStep == Typed /\ OnlySigned /\ [Next]_vars => OnlySigned'
<1> SUFFICES ASSUME Typed, OnlySigned, [Next]_vars PROVE OnlySigned'
  OBVIOUS
<1> USE DEF Typed, TypeOK, OnlySigned, backups, local, ghost, fleet
<1>1. ASSUME UNCHANGED <<rds, snapshot, signed>> PROVE OnlySigned'
  BY <1>1
<1>2. ASSUME NEW a \in Assignment, NEW s \in Slot, Sign(a, s) PROVE OnlySigned'
  BY <1>2 DEF Sign, Instance
<1>3. ASSUME NEW o \in Operator, NEW s \in SnapshotId, StartSnapshot(o, s) PROVE OnlySigned'
  <2>1. UNCHANGED <<rds, signed>> /\ (Take(s) \/ UNCHANGED snapshot)
    BY <1>3 DEF StartSnapshot
  <2>. QED  BY <2>1, TakeOnlySigned
<1>4. ASSUME NEW o \in Operator, NEW f \in FinalId, PrepareRds(o, f) PROVE OnlySigned'
  BY <1>4 DEF PrepareRds, Unprotected, Instance
<1>5. ASSUME PreparedInstance, rds.present, ~rds.protected, FinalSnapshot
      PROVE  \A t \in SnapshotId : snapshot'[t] \subseteq signed
  BY <1>5, TakeOnlySigned DEF FinalSnapshot, PreparedInstance, SnapshotId
<1>6. ASSUME NEW o \in Operator, ApplyPlan(o) PROVE OnlySigned'
  <2>1. PICK what \in SUBSET {"rds", "eks"} : Destroy(what)
    BY <1>6 DEF ApplyPlan
  <2>2. UNCHANGED signed
    BY <1>6 DEF ApplyPlan
  <2>3. CASE "rds" \in what
    BY <2>1, <2>2, <2>3, <1>5 DEF Destroy, NoInstance
  <2>4. CASE "rds" \notin what
    BY <2>1, <2>2, <2>4 DEF Destroy
  <2>. QED  BY <2>3, <2>4
<1>7. ASSUME NEW o \in Operator, ApplyUp(o) PROVE OnlySigned'
  <2>1. UNCHANGED signed /\ chosen[o] \in SnapshotId
    BY <1>7 DEF ApplyUp, ChosenExists
  <2>2. ApplyRestore(chosen[o]) \/ UNCHANGED <<rds, backups>>
    BY <1>7 DEF ApplyUp
  <2>3. ASSUME ApplyRestore(chosen[o]) PROVE OnlySigned'
    <3>1. CASE /\ rds' = [rds EXCEPT !.protected = TRUE, !.finalId = None]
               /\ UNCHANGED backups
      BY <3>1, <2>1 DEF Instance
    <3>2. CASE /\ rds.present => ~rds.protected
               /\ rds' = RestoredInstance(chosen[o])
               /\ IF rds.present THEN FinalSnapshot ELSE UNCHANGED backups
      BY <3>2, <2>1, <1>5 DEF RestoredInstance
    <3>. QED  BY <2>3, <3>1, <3>2 DEF ApplyRestore
  <2>. QED  BY <2>1, <2>2, <2>3
<1>. QED
  BY <1>1, <1>2, <1>3, <1>4, <1>6, <1>7
  DEF Next, Fleet, Command, vars, Reconcile, PodsFollow, BootstrapFlux,
      MoveSecrets, Abandon, StartUp, RecordSnapshot, StartDown, PreflightRecords,
      PreflightPods, FirstPlan, PlanDestroy, Confirm, CleanUp, Die

\* In the quiet window and outside of it, what would be refused is what was signed.
LEMMA RemembersSigned == RunbookInv /\ OnlySigned => Remembered = signed
<1> SUFFICES ASSUME RunbookInv, OnlySigned PROVE Remembered = signed
  OBVIOUS
<1>1. CASE rds.present
  BY <1>1 DEF RunbookInv, Complete, OnlySigned, Remembered
<1>2. CASE ~rds.present
  BY <1>2 DEF RunbookInv, OutsideIsWhole, WindowIsQuiet, OnlySigned, Remembered,
              Typed, TypeOK, SnapshotId
<1>. QED  BY <1>1, <1>2

\* Every step of the fleet is a step of SlashingProtection or a stutter.
LEMMA ProtectionStep ==
    ASSUME RunbookInv, RunbookInv', Remembered = signed, (Remembered = signed)', [Next]_vars
    PROVE  [Protection!Next]_(Protection!protectionVars)
<1>1. Remembered = signed /\ Remembered' = signed'
  OBVIOUS
<1>2. rds.present \in BOOLEAN /\ rds'.present \in BOOLEAN
  BY DEF RunbookInv, Typed, TypeOK, Instance
<1>3. CASE UNCHANGED signed
  BY <1>1, <1>2, <1>3 DEF Protection!Next, Protection!PauseOrResume, Protection!protectionVars
<1>4. ASSUME NEW a \in Assignment, NEW s \in Slot, Sign(a, s)
      PROVE  Protection!Sign(<<a, s>>)
  <2>1. /\ rds.present /\ <<a, s>> \notin rds.history
        /\ signed' = signed \cup {<<a, s>>} /\ rds'.present
    BY <1>4 DEF Sign, RunbookInv, Typed, TypeOK, Instance
  <2>2. <<a, s>> \notin Remembered
    BY <2>1 DEF Remembered
  <2>. QED  BY <1>1, <2>1, <2>2 DEF Protection!Sign
<1>5. ASSUME NEW a \in Assignment, NEW s \in Slot PROVE <<a, s>> \in Duty
  BY DEF Duty
<1>. QED  BY <1>3, <1>4, <1>5, OnlySignSigns DEF Protection!Next

\* An operator team that keeps to the runbook runs a signer that never forgets:
\* stop, snapshot, teardown and restore are together nothing but a pause.
THEOREM RunbookRefinesProtection ==
    ASSUME Runbook PROVE Spec => ImplementsProtection
<1>1. Init => RunbookInv /\ OnlySigned
  BY RunbookInit DEF Init, OnlySigned, NoInstance
<1>2. (RunbookInv /\ OnlySigned) /\ [Next]_vars => (RunbookInv /\ OnlySigned)'
  BY RunbookStep, OnlySignedStep DEF RunbookInv
<1>3. Init => Protection!Init
  <2> SUFFICES ASSUME Init PROVE Protection!Init
    OBVIOUS
  <2>1. Remembered = {} /\ rds.present
    BY <1>1, RemembersSigned DEF Init, NoInstance
  <2>. QED  BY <2>1 DEF Init, Protection!Init
<1>4. /\ RunbookInv /\ RunbookInv' /\ [Next]_vars
      /\ Remembered = signed /\ (Remembered = signed)'
      => [Protection!Next]_(Protection!protectionVars)
  BY ProtectionStep
<1>. QED
  BY <1>1, <1>2, <1>3, <1>4, RemembersSigned, PTL
  DEF Spec, ImplementsProtection, Protection!Spec

----------------------------------------------------------------------------
(* A protected database stays.                                             *)

KeepsProtected ==
    rds.present /\ rds.protected =>
       /\ rds'.present
       /\ rds'.source = rds.source
       /\ rds.history \subseteq rds'.history
       /\ ~rds'.protected => \E o \in Operator : pc[o] = "prepare"

\* No single step of anybody deletes or replaces a protected instance, and
\* only a confirmed teardown takes its protection away.
THEOREM ProtectedStays == Spec => ProtectedInstanceStays
<1>1. ASSUME TypeOK, [Next]_vars PROVE KeepsProtected
  <2> USE <1>1 DEF TypeOK, KeepsProtected, fleet, backups, local, ghost
  <2>1. ASSUME UNCHANGED rds PROVE KeepsProtected
    BY <2>1
  <2>2. ASSUME NEW a \in Assignment, NEW s \in Slot, Sign(a, s) PROVE KeepsProtected
    BY <2>2 DEF Sign, Instance
  <2>3. ASSUME NEW o \in Operator, NEW f \in FinalId, PrepareRds(o, f)
        PROVE  KeepsProtected
    BY <2>3 DEF PrepareRds, Unprotected, Instance
  <2>4. ASSUME NEW o \in Operator, ApplyPlan(o) PROVE KeepsProtected
    BY <2>4 DEF ApplyPlan, Destroy
  <2>5. ASSUME NEW o \in Operator, ApplyUp(o) PROVE KeepsProtected
    <3>1. ApplyRestore(chosen[o]) \/ UNCHANGED rds
      BY <2>5 DEF ApplyUp
    <3>2. rds.present /\ rds.protected /\ ApplyRestore(chosen[o]) =>
             rds' = [rds EXCEPT !.protected = TRUE, !.finalId = None]
      BY DEF ApplyRestore
    <3>. QED  BY <3>1, <3>2 DEF Instance
  <2>. QED
    BY <2>1, <2>2, <2>3, <2>4, <2>5
    DEF Next, Fleet, Command, vars, Reconcile, PodsFollow, BootstrapFlux,
        MoveSecrets, Abandon, StartSnapshot, StartUp, RecordSnapshot, StartDown,
        PreflightRecords, PreflightPods, FirstPlan, PlanDestroy, Confirm, CleanUp,
        Die
<1>2. TypeOK /\ [Next]_vars => [KeepsProtected]_vars
  BY <1>1
<1>. QED  BY <1>2, TypeCorrect, PTL DEF Spec, ProtectedInstanceStays, KeepsProtected
============================================================================
