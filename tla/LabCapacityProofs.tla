------------------------- MODULE LabCapacityProofs -------------------------
(***************************************************************************)
(* Proofs about LabCapacity, for any number of operators, assignments and  *)
(* zones and any bounds.                                                   *)
(***************************************************************************)
EXTENDS LabCapacity, TLAPS

----------------------------------------------------------------------------
(* Type correctness.                                                       *)

LEMMA TypeInit == Init => TypeOK
<1> SUFFICES ASSUME Init PROVE TypeOK
  OBVIOUS
<1>1. desired \in [Zone -> Size]
  BY DEF Init, Size
<1>2. zone \in [Operator -> Zone]
  BY DEF Init
<1>3. commands \in 0..MaxCommands /\ merges \in 0..MaxMerges
  BY BoundsAreNat DEF Init
<1>4. /\ record \in [Assignment -> {"none", "stopped", "archived", "active"}]
      /\ pod \in [Assignment -> {"none", "pending", "running"}]
      /\ claim \in [Assignment -> {"none", "pending"} \cup Zone]
      /\ update \in [Zone -> Size \cup {None}]
      /\ node \in [Zone -> {"none", "starting", "ready"}]
  BY DEF Init
<1>5. /\ pc \in [Operator -> {"idle", "records", "pods", "claims", "volumes",
                              "scale", "update", "nodes"}]
      /\ goal \in [Operator -> {"pause", "resume"}]
      /\ found \in [Operator -> Size]
      /\ bare \in [Operator -> BOOLEAN]
      /\ outcome \in [Operator -> {"InProgress", "Successful", "Failed"}]
  BY DEF Init, Size
<1>6. /\ late \in [Operator -> SUBSET Assignment]
      /\ unsettled \in [Operator -> BOOLEAN]
      /\ raced \in BOOLEAN
  BY DEF Init
<1>. QED  BY <1>1, <1>2, <1>3, <1>4, <1>5, <1>6 DEF TypeOK

LEMMA TypeStep == TypeOK /\ [Next]_vars => TypeOK'
<1> SUFFICES ASSUME TypeOK, [Next]_vars PROVE TypeOK'
  OBVIOUS
<1> USE NoneIsNoZone, BoundsAreNat DEF TypeOK, fleet, eks, shell, ghost, Size
<1>1. CASE UNCHANGED vars
  BY <1>1 DEF vars
<1>2. ASSUME NEW a \in Assignment, Workload(a) PROVE TypeOK'
  <2>1. ASSUME NEW l \in {"none", "stopped", "archived", "active"}, Reconcile(a, l)
        PROVE  TypeOK'
    BY <2>1 DEF Reconcile
  <2>2. ASSUME NEW z \in Zone, Schedule(a, z) PROVE TypeOK'
    BY <2>2 DEF Schedule
  <2>3. CASE StartPods(a) \/ EndPods(a) \/ ReleaseClaim(a)
    BY <2>3 DEF StartPods, EndPods, ReleaseClaim
  <2>. QED  BY <1>2, <2>1, <2>2, <2>3 DEF Workload
<1>3. ASSUME NEW z \in Zone, Group(z) PROVE TypeOK'
  <2>1. ASSUME NEW s \in {"Successful", "Failed"}, EndUpdate(z, s) PROVE TypeOK'
    BY <2>1 DEF EndUpdate
  <2>2. CASE TakeEffect(z)
    BY <2>2 DEF TakeEffect
  <2>3. CASE NodeStarts(z)
    BY <2>3 DEF NodeStarts
  <2>4. CASE NodeGoes(z)
    BY <2>4 DEF NodeGoes
  <2>. QED  BY <1>3, <2>1, <2>2, <2>3, <2>4 DEF Group
<1>4. ASSUME NEW o \in Operator, Command(o) PROVE TypeOK'
  <2>1. ASSUME NEW z \in Zone, NEW c \in {"pause", "resume"}, ReadGroups(o, c, z)
        PROVE  TypeOK'
    BY <2>1 DEF ReadGroups
  <2>2. CASE ReadRecords(o)
    BY <2>2 DEF ReadRecords
  <2>3. CASE ReadPods(o) \/ AwaitUpdate(o)
    BY <2>3 DEF ReadPods, AwaitUpdate
  <2>4. CASE ReadClaims(o) \/ ReadVolumes(o)
    BY <2>4 DEF ReadClaims, ReadVolumes
  <2>5. CASE Scale(o)
    BY <2>5 DEF Scale, Target
  <2>6. CASE Exit(o)
    <3>1. late' \in [Operator -> SUBSET Assignment]
      BY <2>6 DEF Exit
    <3>2. /\ pc' \in [Operator -> {"idle", "records", "pods", "claims", "volumes",
                                   "scale", "update", "nodes"}]
          /\ goal' \in [Operator -> {"pause", "resume"}]
          /\ found' \in [Operator -> Size]
          /\ bare' \in [Operator -> BOOLEAN]
          /\ outcome' \in [Operator -> {"InProgress", "Successful", "Failed"}]
          /\ unsettled' \in [Operator -> BOOLEAN]
      BY <2>6 DEF Exit
    <3>. QED  BY <2>6, <3>1, <3>2 DEF Exit
  <2>. QED
    BY <1>4, <2>1, <2>2, <2>3, <2>4, <2>5, <2>6
    DEF Command, AlreadyPaused, AwaitNodes, Fail
<1>. QED  BY <1>1, <1>2, <1>3, <1>4 DEF Next

\* Every group stays within the lab's 0/1 contract and every variable within
\* its type, through failures and updates that end either way.
THEOREM CapacityTypeCorrect == Spec => []TypeOK
BY TypeInit, TypeStep, PTL DEF Spec

----------------------------------------------------------------------------
(* One zone at a time.  While nothing else changed since a command read    *)
(* the groups, every other zone is without capacity, and stays without:    *)
(* a worker needs a desired size, which needs an update, which needs a     *)
(* command, which unsettles this one.                                      *)

OthersAreOff ==
    \A o \in Operator : pc[o] # "idle" /\ ~unsettled[o] =>
        \A z \in Zone \ {zone[o]} : ~Active(z) /\ update[z] = None

OneZoneInv == TypeOK /\ OthersAreOff /\ OneActiveZone

\* What EKS and Kubernetes do on their own activates no zone.
LEMMA NoCommandActivates ==
    ASSUME TypeOK, UNCHANGED <<desired, update, node>> \/ \E z \in Zone : Group(z)
    PROVE  \A y \in Zone : /\ Active(y)' => Active(y)
                           /\ update[y] = None => update'[y] = None
<1>1. CASE UNCHANGED <<desired, update, node>>
  BY <1>1 DEF Active
<1>2. ASSUME NEW z \in Zone, Group(z), NEW y \in Zone
      PROVE  (Active(y)' => Active(y)) /\ (update[y] = None => update'[y] = None)
  BY <1>2, NoneIsNoZone
  DEF Group, TakeEffect, EndUpdate, NodeStarts, NodeGoes, Active, TypeOK, Size
<1>. QED  BY <1>1, <1>2

\* Only the start of a command moves pc away from idle, and no step of EKS or
\* the fleet touches what a command holds.
LEMMA OthersStep == TypeOK /\ OthersAreOff /\ [Next]_vars => OthersAreOff'
<1> SUFFICES ASSUME TypeOK, OthersAreOff, [Next]_vars PROVE OthersAreOff'
  OBVIOUS
<1> USE DEF TypeOK, OthersAreOff, fleet, eks, shell, ghost
<1>1. ASSUME UNCHANGED <<pc, zone, unsettled>>,
             UNCHANGED <<desired, update, node>> \/ \E z \in Zone : Group(z)
      PROVE  OthersAreOff'
  BY <1>1, NoCommandActivates
<1>2. ASSUME NEW o \in Operator, Command(o) PROVE OthersAreOff'
  <2>1. ASSUME NEW z \in Zone, NEW c \in {"pause", "resume"}, ReadGroups(o, c, z)
        PROVE  OthersAreOff'
    <3>1. /\ UNCHANGED <<desired, update, node>>
          /\ zone' = [zone EXCEPT ![o] = z]
          /\ unsettled' = [unsettled EXCEPT ![o] =
                \E other \in Zone \ {z} : node[other] # "none" \/ update[other] # None]
          /\ \A p \in Operator \ {o} : pc'[p] = pc[p]
          /\ \A other \in Zone \ {z} : desired[other] = 0
      BY <2>1 DEF ReadGroups, SingleActiveGroup
    <3>2. ASSUME ~unsettled'[o], NEW y \in Zone \ {z}
          PROVE  ~Active(y)' /\ update'[y] = None
      BY <3>1, <3>2, NoneIsNoZone DEF Active
    <3>3. ASSUME NEW p \in Operator \ {o}, pc'[p] # "idle", ~unsettled'[p],
                 NEW y \in Zone \ {zone'[p]}
          PROVE  ~Active(y)' /\ update'[y] = None
      BY <3>1, <3>3 DEF Active
    <3>. QED  BY <3>1, <3>2, <3>3
  <2>2. CASE Scale(o)
    <3>1. /\ pc[o] = "scale" /\ UNCHANGED <<desired, node, zone>>
          /\ update' = [update EXCEPT ![zone[o]] = Target(o)]
          /\ \A p \in Operator : pc'[p] # "idle" => pc[p] # "idle"
          /\ \A p \in Operator : unsettled'[p] =
                (unsettled[p] \/ (pc[p] # "idle" /\ zone[p] # zone[o]))
      BY <2>2 DEF Scale
    <3>2. ASSUME NEW p \in Operator, pc'[p] # "idle", ~unsettled'[p],
                 NEW y \in Zone \ {zone'[p]}
          PROVE  ~Active(y)' /\ update'[y] = None
      <4>1. zone[p] = zone[o] /\ ~unsettled[p] /\ pc[p] # "idle"
        BY <3>1, <3>2
      <4>2. ~Active(y) /\ update[y] = None
        BY <3>1, <3>2, <4>1
      <4>3. update'[y] = update[y]
        BY <3>1, <3>2, <4>1
      <4>. QED  BY <3>1, <4>2, <4>3 DEF Active
    <3>. QED  BY <3>2
  <2>3. CASE ReadRecords(o) \/ ReadPods(o) \/ ReadClaims(o) \/ ReadVolumes(o)
             \/ AwaitUpdate(o) \/ Exit(o)
    <3>1. /\ UNCHANGED <<desired, update, node, zone>>
          /\ \A p \in Operator : pc'[p] # "idle" =>
                pc[p] # "idle" /\ unsettled'[p] = unsettled[p]
      BY <2>3 DEF ReadRecords, ReadPods, ReadClaims, ReadVolumes, AwaitUpdate, Exit
    <3>. QED  BY <3>1 DEF Active
  <2>. QED
    BY <1>2, <2>1, <2>2, <2>3 DEF Command, AlreadyPaused, AwaitNodes, Fail
<1>3. ASSUME NEW a \in Assignment, Workload(a) PROVE OthersAreOff'
  BY <1>1, <1>3 DEF Workload, Reconcile, StartPods, Schedule, EndPods, ReleaseClaim
<1>4. ASSUME NEW z \in Zone, Group(z) PROVE OthersAreOff'
  BY <1>1, <1>4 DEF Group, TakeEffect, EndUpdate, NodeStarts, NodeGoes
<1>. QED  BY <1>1, <1>2, <1>3, <1>4 DEF Next, vars

\* A step that is no call to scale activates nothing.
LEMMA OnlyScaleActivates ==
    ASSUME TypeOK, [Next]_vars, ~\E o \in Operator : Scale(o)
    PROVE  /\ \A y \in Zone : Active(y)' => Active(y)
           /\ UNCHANGED raced
<1> USE DEF fleet, eks, shell, ghost
<1>1. ASSUME NEW z \in Zone, Group(z) PROVE UNCHANGED raced
  BY <1>1 DEF Group, TakeEffect, EndUpdate, NodeStarts, NodeGoes
<1>2. ASSUME NEW a \in Assignment, Workload(a)
      PROVE  UNCHANGED <<desired, update, node, raced>>
  BY <1>2 DEF Workload, Reconcile, StartPods, Schedule, EndPods, ReleaseClaim
<1>3. ASSUME NEW o \in Operator, Command(o), ~Scale(o)
      PROVE  UNCHANGED <<desired, update, node, raced>>
  BY <1>3 DEF Command, AlreadyPaused, AwaitNodes, Fail, Exit, ReadGroups, ReadRecords,
              ReadPods, ReadClaims, ReadVolumes, AwaitUpdate
<1>. QED  BY <1>1, <1>2, <1>3, NoCommandActivates DEF Next, vars

\* A call to scale activates at most the zone it names, where it resumes.
LEMMA ScaleActivates ==
    ASSUME TypeOK, NEW o \in Operator, Scale(o)
    PROVE  \A y \in Zone : Active(y)' => Active(y) \/ (y = zone[o] /\ goal[o] = "resume")
BY DEF Scale, Target, Active, TypeOK

LEMMA OneZoneStep == OneZoneInv /\ [Next]_vars => OneZoneInv'
<1> SUFFICES ASSUME OneZoneInv, [Next]_vars PROVE OneActiveZone'
  BY TypeStep, OthersStep DEF OneZoneInv
<1> USE DEF OneZoneInv, OneActiveZone
<1>1. CASE ~\E o \in Operator : Scale(o)
  BY <1>1, OnlyScaleActivates
<1>2. ASSUME NEW o \in Operator, Scale(o) PROVE OneActiveZone'
  <2>1. /\ pc[o] = "scale" /\ zone[o] \in Zone
        /\ raced' = (raced \/ (goal[o] = "resume" /\ unsettled[o]))
    BY <1>2 DEF Scale, TypeOK
  <2>2. ASSUME ~raced', goal[o] = "resume", NEW y \in Zone, Active(y)
        PROVE  y = zone[o]
    BY <2>1, <2>2 DEF OthersAreOff, TypeOK
  <2>. QED  BY <1>2, <2>1, <2>2, ScaleActivates DEF TypeOK
<1>. QED  BY <1>1, <1>2

\* Capacity is in one zone at a time unless a resume went through while another
\* zone was changing.
THEOREM CapacityInOneZone == Spec => []OneActiveZone
<1>1. ASSUME Init PROVE OneZoneInv
  <2>1. \A y, z \in Zone : Active(y) /\ Active(z) => y = z
    BY <1>1, NoneIsNoZone DEF Init, Active, Size
  <2>. QED  BY <1>1, <2>1, TypeInit DEF Init, OneZoneInv, OthersAreOff, OneActiveZone
<1>2. Spec => []OneZoneInv
  BY <1>1, OneZoneStep, PTL DEF Spec
<1>. QED  BY <1>2, PTL DEF OneZoneInv

----------------------------------------------------------------------------
(* Capacity beside its volumes.  The answer of the claim check stays true  *)
(* until the call to scale: a claim is bound only where a worker is, and   *)
(* while the other zones are off that is the zone of the command.          *)

CheckHolds ==
    \A o \in Operator : pc[o] = "scale" /\ goal[o] = "resume" /\ ~unsettled[o] =>
        BoundClaimsMatch(zone[o])

ServesInv == OneZoneInv /\ CheckHolds /\ CapacityServesVolumes

\* A step leaves a claim as it is, makes it unbound, or binds it where a Ready
\* worker is.
LEMMA ClaimSteps ==
    ASSUME TypeOK, [Next]_vars
    PROVE  \A a \in Assignment :
              \/ claim'[a] \in {claim[a], "none", "pending"}
              \/ \E z \in Zone : /\ claim'[a] = z /\ node[z] = "ready"
                                /\ claim[a] \in {"pending", z}
                                /\ UNCHANGED <<desired, update, node, pc, goal,
                                               zone, unsettled, raced>>
                                /\ \A b \in Assignment \ {a} : claim'[b] = claim[b]
<1> USE DEF TypeOK, fleet, eks, shell, ghost
<1>1. ASSUME NEW a \in Assignment, NEW l \in {"none", "stopped", "archived", "active"},
             Reconcile(a, l)
      PROVE  \A b \in Assignment : claim'[b] \in {claim[b], "none", "pending"}
  BY <1>1 DEF Reconcile
<1>2. ASSUME NEW a \in Assignment, ReleaseClaim(a)
      PROVE  \A b \in Assignment : claim'[b] \in {claim[b], "none", "pending"}
  BY <1>2 DEF ReleaseClaim
<1>3. ASSUME NEW a \in Assignment, NEW z \in Zone, Schedule(a, z)
      PROVE  /\ claim'[a] = z /\ node[z] = "ready" /\ claim[a] \in {"pending", z}
             /\ UNCHANGED <<desired, update, node, pc, goal, zone, unsettled, raced>>
             /\ \A b \in Assignment \ {a} : claim'[b] = claim[b]
  BY <1>3 DEF Schedule
<1>4. ASSUME NEW a \in Assignment, StartPods(a) \/ EndPods(a) PROVE UNCHANGED claim
  BY <1>4 DEF StartPods, EndPods
<1>5. ASSUME NEW z \in Zone, Group(z) PROVE UNCHANGED claim
  BY <1>5 DEF Group, TakeEffect, EndUpdate, NodeStarts, NodeGoes
<1>6. ASSUME NEW o \in Operator, Command(o) PROVE UNCHANGED claim
  BY <1>6 DEF Command, AlreadyPaused, AwaitNodes, Fail, Exit, ReadGroups, ReadRecords,
              ReadPods, ReadClaims, ReadVolumes, Scale, AwaitUpdate
<1>7. CASE UNCHANGED claim
  BY <1>7
<1>. QED  BY <1>1, <1>2, <1>3, <1>4, <1>5, <1>6, <1>7 DEF Next, Workload, vars

\* A command that resumes arrives at the call to scale from the claim check,
\* and keeps what it works on while it is there.
LEMMA ArriveAtScale ==
    ASSUME TypeOK, [Next]_vars, NEW o \in Operator,
           pc'[o] = "scale", goal'[o] = "resume", ~unsettled'[o]
    PROVE  /\ zone'[o] = zone[o] /\ ~unsettled[o] /\ goal[o] = "resume"
           /\ pc[o] = "scale" \/ (BoundClaimsMatch(zone[o]) /\ UNCHANGED claim)
           /\ pc[o] # "idle"
<1> USE DEF TypeOK, fleet, eks, shell, ghost
<1>1. CASE UNCHANGED <<pc, goal, zone, unsettled>>
  BY <1>1
<1>2. ASSUME NEW a \in Assignment, Workload(a)
      PROVE  UNCHANGED <<pc, goal, zone, unsettled>>
  BY <1>2 DEF Workload, Reconcile, StartPods, Schedule, EndPods, ReleaseClaim
<1>3. ASSUME NEW z \in Zone, Group(z) PROVE UNCHANGED <<pc, goal, zone, unsettled>>
  BY <1>3 DEF Group, TakeEffect, EndUpdate, NodeStarts, NodeGoes
<1>4. ASSUME NEW p \in Operator, Command(p)
      PROVE  /\ zone'[o] = zone[o] /\ ~unsettled[o] /\ goal[o] = "resume"
             /\ pc[o] = "scale" \/ (BoundClaimsMatch(zone[o]) /\ UNCHANGED claim)
             /\ pc[o] # "idle"
  <2>1. ASSUME NEW z \in Zone, NEW c \in {"pause", "resume"}, ReadGroups(p, c, z)
        PROVE  /\ p # o
               /\ pc[o] = "scale" /\ goal[o] = "resume" /\ zone'[o] = zone[o]
               /\ ~unsettled[o]
    <3>1. p # o
      BY <2>1 DEF ReadGroups
    <3>. QED  BY <2>1, <3>1 DEF ReadGroups
  <2>2. CASE Scale(p)
    BY <2>2 DEF Scale
  <2>3. CASE ReadClaims(p)
    BY <2>3 DEF ReadClaims
  <2>4. CASE ReadVolumes(p)
    BY <2>4 DEF ReadVolumes
  <2>5. CASE ReadRecords(p)
    BY <2>5 DEF ReadRecords
  <2>6. CASE ReadPods(p) \/ AwaitUpdate(p) \/ Exit(p)
    BY <2>6 DEF ReadPods, AwaitUpdate, Exit
  <2>. QED
    BY <1>4, <2>1, <2>2, <2>3, <2>4, <2>5, <2>6
    DEF Command, AlreadyPaused, AwaitNodes, Fail
<1>. QED  BY <1>1, <1>2, <1>3, <1>4 DEF Next, vars

LEMMA CheckStep == OneZoneInv /\ CheckHolds /\ [Next]_vars => CheckHolds'
<1> SUFFICES ASSUME OneZoneInv, CheckHolds, [Next]_vars, NEW o \in Operator,
                    pc'[o] = "scale", goal'[o] = "resume", ~unsettled'[o],
                    NEW a \in Assignment
             PROVE  claim'[a] \in {"none", "pending", zone'[o]}
  BY DEF CheckHolds, BoundClaimsMatch
<1>1. TypeOK
  BY DEF OneZoneInv
<1>2. /\ zone'[o] = zone[o] /\ ~unsettled[o] /\ pc[o] # "idle"
      /\ claim[a] \in {"none", "pending", zone[o]}
  BY <1>1, ArriveAtScale DEF CheckHolds, BoundClaimsMatch
<1>3. ASSUME NEW z \in Zone, claim'[a] = z, node[z] = "ready" PROVE z = zone[o]
  BY <1>1, <1>2, <1>3 DEF OneZoneInv, OthersAreOff, Active
<1>. QED  BY <1>1, <1>2, <1>3, ClaimSteps

\* A worker that may appear is beside every volume.
LEMMA ServesStep == ServesInv /\ [Next]_vars => CapacityServesVolumes'
<1> SUFFICES ASSUME ServesInv, [Next]_vars, ~raced' PROVE CapacityServesVolumes'
  BY DEF CapacityServesVolumes
<1> DEFINE Beside == \A a \in Assignment, z \in Zone :
                        Active(z) /\ claim[a] \in Zone => claim[a] = z
           Together == \A a, b \in Assignment :
                        {claim[a], claim[b]} \subseteq Zone => claim[a] = claim[b]
<1>1. TypeOK /\ OneZoneInv
  BY DEF ServesInv, OneZoneInv
<1>2. ~raced
  <2>1. ASSUME NEW o \in Operator, Scale(o) PROVE ~raced
    BY <2>1, <1>1 DEF Scale, TypeOK
  <2>. QED  BY <2>1, <1>1, OnlyScaleActivates
<1>3. Beside /\ Together
  BY <1>2 DEF ServesInv, CapacityServesVolumes
<1>4. ASSUME NEW o \in Operator, Scale(o) PROVE Beside' /\ Together'
  <2>1. UNCHANGED claim /\ zone[o] \in Zone
    BY <1>1, <1>4 DEF Scale, fleet, TypeOK
  <2>2. ASSUME goal[o] = "resume" PROVE BoundClaimsMatch(zone[o])
    <3>1. pc[o] = "scale" /\ ~unsettled[o]
      BY <1>1, <1>4, <2>2 DEF Scale, TypeOK
    <3>. QED  BY <2>2, <3>1 DEF ServesInv, CheckHolds
  <2>3. ASSUME NEW a \in Assignment, NEW z \in Zone, Active(z)', claim[a] \in Zone
        PROVE  claim[a] = z
    <3>1. Active(z) \/ (z = zone[o] /\ goal[o] = "resume")
      BY <1>1, <1>4, <2>3, ScaleActivates
    <3>2. claim[a] \notin {"none", "pending"}
      BY <2>3, StatesAreNoZones
    <3>. QED  BY <1>3, <2>2, <2>3, <3>1, <3>2 DEF BoundClaimsMatch
  <2>. QED  BY <1>3, <2>1, <2>3
<1>5. CASE ~\E o \in Operator : Scale(o)
  <2>1. \A z \in Zone : Active(z)' => Active(z)
    BY <1>1, <1>5, OnlyScaleActivates
  <2>2. ASSUME NEW a \in Assignment, claim'[a] \in Zone
        PROVE  /\ \A z \in Zone : Active(z) => claim'[a] = z
               /\ \A b \in Assignment : claim'[b] \in Zone => claim'[a] = claim'[b]
    <3>1. \A b \in Assignment : claim'[b] \in Zone =>
              \/ claim'[b] = claim[b]
              \/ claim'[b] \in Zone /\ Active(claim'[b])
      BY <1>1, ClaimSteps, StatesAreNoZones DEF Active
    <3>2. \A b \in Assignment, z \in Zone :
              claim'[b] \in Zone /\ Active(z) => claim'[b] = z
      BY <1>1, <1>2, <1>3, <3>1 DEF OneZoneInv, OneActiveZone
    <3>3. ASSUME NEW b \in Assignment, claim'[b] \in Zone PROVE claim'[a] = claim'[b]
      BY <1>3, <2>2, <3>1, <3>2, <3>3
    <3>. QED  BY <2>2, <3>2, <3>3
  <2>. QED  BY <2>1, <2>2 DEF CapacityServesVolumes
<1>. QED  BY <1>4, <1>5 DEF CapacityServesVolumes

\* No worker is started beside a volume it cannot attach and no volumes are
\* left in two zones, unless a resume went through while another zone was
\* changing.
THEOREM CapacityBesideVolumes == Spec => []CapacityServesVolumes
<1>1. ASSUME Init PROVE ServesInv
  <2>1. OneZoneInv
    <3>1. \A y, z \in Zone : Active(y) /\ Active(z) => y = z
      BY <1>1, NoneIsNoZone DEF Init, Active, Size
    <3>. QED
      BY <1>1, <3>1, TypeInit DEF Init, OneZoneInv, OthersAreOff, OneActiveZone
  <2>2. \A a \in Assignment : claim[a] \notin Zone
    BY <1>1, StatesAreNoZones DEF Init
  <2>3. CheckHolds
    BY <1>1 DEF Init, CheckHolds
  <2>. QED  BY <2>1, <2>2, <2>3 DEF ServesInv, CapacityServesVolumes
<1>2. ServesInv /\ [Next]_vars => ServesInv'
  BY OneZoneStep, CheckStep, ServesStep DEF ServesInv
<1>3. Spec => []ServesInv
  BY <1>1, <1>2, PTL DEF Spec
<1>. QED  BY <1>3, PTL DEF ServesInv

----------------------------------------------------------------------------
(* Scaling and Pods.  Once the records were read, whatever is started is   *)
(* late; once the Pods were read as well, whatever runs was started late.  *)

LateInv ==
    \A o \in Operator, a \in Assignment :
        /\ pc[o] \in {"pods", "claims", "volumes", "scale"} /\ record[a] = "active"
              => a \in late[o]
        /\ pc[o] \in {"claims", "volumes", "scale"} /\ pod[a] # "none"
              => a \in late[o]

MeetsLateStarts ==
    \A o \in Operator : Scale(o) =>
        \A a \in Assignment : pod[a] # "none" => a \in late[o]

LEMMA LateStep == TypeOK /\ LateInv /\ [Next]_vars => LateInv'
<1> SUFFICES ASSUME TypeOK, LateInv, [Next]_vars PROVE LateInv'
  OBVIOUS
<1> USE DEF TypeOK, LateInv, fleet, eks, shell, ghost
<1>1. CASE UNCHANGED <<record, pod, pc, late>>
  BY <1>1
<1>2. ASSUME NEW a \in Assignment, Workload(a) PROVE LateInv'
  <2>1. ASSUME NEW l \in {"none", "stopped", "archived", "active"}, Reconcile(a, l)
        PROVE  LateInv'
    BY <2>1 DEF Reconcile
  <2>2. ASSUME NEW z \in Zone, Schedule(a, z) PROVE LateInv'
    BY <2>2 DEF Schedule
  <2>3. CASE StartPods(a) \/ EndPods(a) \/ ReleaseClaim(a)
    BY <2>3 DEF StartPods, EndPods, ReleaseClaim
  <2>. QED  BY <1>2, <2>1, <2>2, <2>3 DEF Workload
<1>3. ASSUME NEW z \in Zone, Group(z) PROVE LateInv'
  <2>1. CASE NodeGoes(z)
    BY <2>1 DEF NodeGoes
  <2>. QED  BY <1>1, <1>3, <2>1 DEF Group, TakeEffect, EndUpdate, NodeStarts
<1>4. ASSUME NEW o \in Operator, Command(o) PROVE LateInv'
  <2>1. ASSUME NEW z \in Zone, NEW c \in {"pause", "resume"}, ReadGroups(o, c, z)
        PROVE  LateInv'
    BY <2>1 DEF ReadGroups
  <2>2. CASE ReadRecords(o)
    BY <2>2 DEF ReadRecords, AllStopped
  <2>3. CASE ReadPods(o)
    BY <2>3 DEF ReadPods
  <2>4. CASE ReadClaims(o) \/ ReadVolumes(o)
    BY <2>4 DEF ReadClaims, ReadVolumes
  <2>5. CASE Scale(o) \/ AwaitUpdate(o) \/ Exit(o)
    BY <2>5 DEF Scale, AwaitUpdate, Exit
  <2>. QED
    BY <1>4, <2>1, <2>2, <2>3, <2>4, <2>5 DEF Command, AlreadyPaused, AwaitNodes, Fail
<1>. QED  BY <1>1, <1>2, <1>3, <1>4 DEF Next, vars

\* A group is scaled under a Pod only if the Pod's assignment was started after
\* the command had read the lifecycle records.
THEOREM OnlyLateStarts == Spec => OnlyLateStartsMeetScaling
<1>1. Init => TypeOK /\ LateInv
  BY TypeInit DEF Init, LateInv
<1>2. Spec => [](TypeOK /\ LateInv)
  BY <1>1, TypeStep, LateStep, PTL DEF Spec
<1>3. LateInv /\ [Next]_vars => [MeetsLateStarts]_vars
  BY DEF LateInv, MeetsLateStarts, Scale
<1>. QED  BY <1>2, <1>3, PTL DEF Spec, OnlyLateStartsMeetScaling, MeetsLateStarts

============================================================================
