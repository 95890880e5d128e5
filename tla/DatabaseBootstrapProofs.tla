---------------------- MODULE DatabaseBootstrapProofs ----------------------
(***************************************************************************)
(* Proofs about DatabaseBootstrap, for any number of operators and any set *)
(* of passwords.                                                           *)
(***************************************************************************)
EXTENDS DatabaseBootstrap, SequenceTheorems, TLAPS

----------------------------------------------------------------------------
(* Type correctness.  A run past its draw has a password, and so has the   *)
(* Pod of a running Job.                                                   *)

Drawn(s) == s \notin {"idle", "looked"}

DbTyped ==
    /\ BootstrapTypeOK
    /\ \A t \in Operator :
          /\ bootstrap[t].at = "idle" <=> bootstrap[t] = Off
          /\ Drawn(bootstrap[t].at) => bootstrap[t].password \in Password
          /\ bootstrap[t].at = "looked" => bootstrap[t].ok = FALSE
    /\ job \in {"running", "set"} => pod \in Password

\* What a step of one run does to the runs.
Becomes(t, step, p, ok) ==
    /\ bootstrap' \in [Operator -> Run]
    /\ bootstrap'[t].at = step /\ bootstrap'[t].password = p /\ bootstrap'[t].ok = ok
    /\ step = "idle" <=> bootstrap'[t] = Off
    /\ \A u \in Operator \ {t} : bootstrap'[u] = bootstrap[u]

LEMMA EnterBecomes ==
    ASSUME DbTyped, NEW t \in Operator, NEW r \in Run, Enter(t, r),
           r.at = "idle" <=> r = Off
    PROVE  Becomes(t, r.at, r.password, r.ok)
BY DEF DbTyped, BootstrapTypeOK, Enter, Becomes

LEMMA AdvanceBecomes ==
    ASSUME DbTyped, NEW t \in Operator, NEW from \in Stage, NEW step \in Stage \ {"idle"},
           Advance(t, from, step)
    PROVE  Becomes(t, step, bootstrap[t].password, bootstrap[t].ok) /\ bootstrap[t].at = from
<1>1. bootstrap[t] \in Run
  BY DEF DbTyped, BootstrapTypeOK
<1>2. PICK r \in Run : /\ r.at = step /\ r.password = bootstrap[t].password
                       /\ r.ok = bootstrap[t].ok /\ Enter(t, r)
  BY <1>1 DEF Run, Enter, Advance
<1>3. r # Off
  BY <1>2 DEF Off
<1>. QED  BY <1>2, <1>3, EnterBecomes DEF Advance

LEMMA OffBecomes ==
    ASSUME DbTyped, NEW t \in Operator, Enter(t, Off)
    PROVE  Becomes(t, "idle", Unset, FALSE)
<1>1. Off \in Run /\ Off.at = "idle" /\ Off.password = Unset /\ Off.ok = FALSE
  BY DEF Off, Run, Stage
<1>. QED  BY <1>1, EnterBecomes

LEMMA GiveUpBecomes ==
    ASSUME DbTyped, NEW t \in Operator, GiveUp(t)
    PROVE  Becomes(t, "deleteJob", bootstrap[t].password, FALSE)
<1>1. bootstrap[t] \in Run
  BY DEF DbTyped, BootstrapTypeOK
<1>2. PICK r \in Run : /\ r.at = "deleteJob" /\ r.password = bootstrap[t].password
                       /\ r.ok = FALSE /\ Enter(t, r)
  BY <1>1 DEF Run, Stage, Enter, GiveUp
<1>3. r # Off
  BY <1>2 DEF Off
<1>. QED  BY <1>2, <1>3, EnterBecomes

\* Where every operator action takes its run.
LEMMA RunSteps ==
    ASSUME DbTyped, NEW t \in Operator
    PROVE  LET b == bootstrap[t]
           IN  /\ Look(t) => b.at = "idle" /\ Becomes(t, "looked", b.password, b.ok)
               /\ Refuse(t) => b.at = "looked" /\ Becomes(t, "idle", Unset, FALSE)
               /\ Send(t) => b.at = "drawn" /\ Becomes(t, "sent", b.password, b.ok)
               /\ Apply(t) => b.at = "sent" /\ Becomes(t, "applied", b.password, b.ok)
               /\ Verify(t) => b.at = "applied" /\ Becomes(t, "verified", b.password, b.ok)
               /\ Store(t) => b.at = "verified" /\ Becomes(t, "put", b.password, b.ok)
               /\ Fail(t) => b.at \in InTry /\ Becomes(t, "deleteJob", b.password, FALSE)
               /\ DeleteJob(t) => b.at = "deleteJob" /\ Becomes(t, "deleteSecret", b.password, b.ok)
               /\ DeleteSecret(t) => b.at = "deleteSecret" /\ Becomes(t, "idle", Unset, FALSE)
               /\ Die(t) => Becomes(t, "idle", Unset, FALSE)
<1>1. {"idle", "looked", "drawn", "sent", "applied", "verified", "put", "deleteJob",
       "deleteSecret"} = Stage
  BY DEF Stage
<1>2. /\ Look(t) => Advance(t, "idle", "looked")
      /\ Send(t) => Advance(t, "drawn", "sent")
      /\ Apply(t) => Advance(t, "sent", "applied")
      /\ Verify(t) => Advance(t, "applied", "verified")
      /\ Store(t) => Advance(t, "verified", "put")
      /\ DeleteJob(t) => Advance(t, "deleteJob", "deleteSecret")
  BY DEF Look, Send, Apply, Verify, Store, DeleteJob
<1>3. /\ Refuse(t) => Enter(t, Off) /\ bootstrap[t].at = "looked"
      /\ DeleteSecret(t) => Enter(t, Off) /\ bootstrap[t].at = "deleteSecret"
      /\ Die(t) => Enter(t, Off)
  BY DEF Refuse, DeleteSecret, Die
<1>4. Fail(t) => GiveUp(t) /\ bootstrap[t].at \in InTry
  BY DEF Fail
<1>. QED  BY <1>1, <1>2, <1>3, <1>4, AdvanceBecomes, OffBecomes, GiveUpBecomes

LEMMA DrawSteps ==
    ASSUME DbTyped, NEW t \in Operator, Draw(t)
    PROVE  \E p \in Password : used' = used \cup {p} /\ Becomes(t, "drawn", p, FALSE)
<1>1. PICK p \in Password \ used :
         used' = used \cup {p} /\ Enter(t, [bootstrap[t] EXCEPT !.at = "drawn", !.password = p])
  BY DEF Draw
<1>2. bootstrap[t] \in Run /\ bootstrap[t].ok = FALSE
  BY DEF DbTyped, BootstrapTypeOK, Draw
<1>3. PICK r \in Run : r.at = "drawn" /\ r.password = p /\ r.ok = FALSE /\ Enter(t, r)
  BY <1>1, <1>2 DEF Run, Stage, Enter
<1>4. r # Off
  BY <1>3 DEF Off
<1>. QED  BY <1>1, <1>3, <1>4, EnterBecomes

LEMMA ConfirmSteps ==
    ASSUME DbTyped, NEW t \in Operator, Confirm(t)
    PROVE  bootstrap[t].at = "put" /\ Becomes(t, "deleteJob", bootstrap[t].password, TRUE)
<1>1. bootstrap[t] \in Run
  BY DEF DbTyped, BootstrapTypeOK
<1>2. PICK r \in Run : /\ r.at = "deleteJob" /\ r.password = bootstrap[t].password
                       /\ r.ok = TRUE /\ Enter(t, r)
  BY <1>1 DEF Run, Stage, Enter, Confirm
<1>3. r # Off
  BY <1>2 DEF Off
<1>. QED  BY <1>2, <1>3, EnterBecomes DEF Confirm

LEMMA DbTypedInit == DbInit => DbTyped
BY DEF DbInit, DbTyped, BootstrapTypeOK, Drawn, Off, Run, Stage, JobState, Cause

LEMMA RunTyped ==
    ASSUME DbTyped, NEW t \in Operator, NEW step \in Stage, NEW p, NEW ok, Becomes(t, step, p, ok),
           Drawn(step) => p \in Password,
           step = "looked" => ok = FALSE
    PROVE  /\ bootstrap' \in [Operator -> Run]
           /\ \A u \in Operator :
                 /\ bootstrap'[u].at = "idle" <=> bootstrap'[u] = Off
                 /\ Drawn(bootstrap'[u].at) => bootstrap'[u].password \in Password
                 /\ bootstrap'[u].at = "looked" => bootstrap'[u].ok = FALSE
BY DEF DbTyped, Becomes

LEMMA JobGoneTyped ==
    ASSUME DbTyped, JobGone
    PROVE  job' \in JobState /\ pod' = Unset /\ lingering' \subseteq Password /\ job' = "none"
BY DEF DbTyped, BootstrapTypeOK, JobGone, JobState

LEMMA DbTypedStep == DbTyped /\ [DbNext]_dbVars => DbTyped'
<1> SUFFICES ASSUME DbTyped, [DbNext]_dbVars PROVE DbTyped'
  OBVIOUS
<1> USE DEF DbTyped, BootstrapTypeOK
<1>a. /\ "looked" \in Stage /\ "drawn" \in Stage /\ "sent" \in Stage /\ "applied" \in Stage
      /\ "verified" \in Stage /\ "put" \in Stage /\ "deleteJob" \in Stage
      /\ "deleteSecret" \in Stage /\ "idle" \in Stage
  BY DEF Stage
<1>1. CASE UNCHANGED dbVars
  BY <1>1 DEF dbVars
<1>2. ASSUME NEW t \in Operator, Look(t) PROVE DbTyped'
  <2>1. bootstrap[t].at = "idle" /\ bootstrap[t].ok = FALSE
    <3>1. bootstrap[t].at = "idle"
      BY <1>2, RunSteps
    <3>2. bootstrap[t] = Off
      BY <3>1
    <3>. QED  BY <3>1, <3>2 DEF Off
  <2>. QED  BY <1>2, <1>a, <2>1, RunSteps, RunTyped DEF Look, Drawn, Cause
<1>3. ASSUME NEW t \in Operator, Draw(t) PROVE DbTyped'
  <2>1. PICK p \in Password : used' = used \cup {p} /\ Becomes(t, "drawn", p, FALSE)
    BY <1>3, DrawSteps
  <2>. QED  BY <1>3, <1>a, <2>1, RunTyped DEF Draw
<1>4. ASSUME NEW t \in Operator, Refuse(t) PROVE DbTyped'
  BY <1>4, <1>a, RunSteps, RunTyped DEF Refuse, Drawn
<1>5. ASSUME NEW t \in Operator, Send(t) PROVE DbTyped'
  <2>1. bootstrap[t].at = "drawn" /\ bootstrap[t].password \in Password
    BY <1>5, RunSteps DEF Drawn
  <2>. QED  BY <1>5, <1>a, <2>1, RunSteps, RunTyped DEF Send
<1>6. ASSUME NEW t \in Operator, Apply(t) PROVE DbTyped'
  <2>1. bootstrap[t].at = "sent" /\ bootstrap[t].password \in Password
    BY <1>6, RunSteps DEF Drawn
  <2>2. job' \in JobState /\ (job' \in {"running", "set"} => job' = job) /\ pod' = pod
    BY <1>6 DEF Apply, JobState
  <2>. QED  BY <1>6, <1>a, <2>1, <2>2, RunSteps, RunTyped DEF Apply
<1>7. ASSUME NEW t \in Operator, Verify(t) PROVE DbTyped'
  <2>1. bootstrap[t].at = "applied" /\ bootstrap[t].password \in Password
    BY <1>7, RunSteps DEF Drawn
  <2>. QED  BY <1>7, <1>a, <2>1, RunSteps, RunTyped DEF Verify
<1>8. ASSUME NEW t \in Operator, Store(t) PROVE DbTyped'
  <2>1. bootstrap[t].at = "verified" /\ bootstrap[t].password \in Password
    BY <1>8, RunSteps DEF Drawn
  <2>2. stored' \in Seq(Password)
    BY <1>8, <2>1 DEF Store
  <2>. QED  BY <1>8, <1>a, <2>1, <2>2, RunSteps, RunTyped DEF Store
<1>9. ASSUME NEW t \in Operator, Confirm(t) PROVE DbTyped'
  <2>1. bootstrap[t].password \in Password
    BY <1>9 DEF Confirm, Drawn
  <2>. QED  BY <1>9, <1>a, <2>1, ConfirmSteps, RunTyped DEF Confirm
<1>10. ASSUME NEW t \in Operator, Fail(t) PROVE DbTyped'
  <2>1. bootstrap[t].password \in Password
    BY <1>10 DEF Fail, InTry, Drawn
  <2>. QED  BY <1>10, <1>a, <2>1, RunSteps, RunTyped DEF Fail
<1>11. ASSUME NEW t \in Operator, DeleteJob(t) PROVE DbTyped'
  <2>1. bootstrap[t].at = "deleteJob" /\ bootstrap[t].password \in Password
    BY <1>11, RunSteps DEF Drawn
  <2>2. /\ job' \in JobState /\ lingering' \subseteq Password /\ pod' \in Password \cup {Unset}
        /\ job' \in {"running", "set"} => pod' \in Password
        /\ causes' \subseteq Cause
    BY <1>11, JobGoneTyped DEF DeleteJob, Cause
  <2>. QED  BY <1>11, <1>a, <2>1, <2>2, RunSteps, RunTyped DEF DeleteJob
<1>12. ASSUME NEW t \in Operator, DeleteSecret(t) PROVE DbTyped'
  <2>1. bootstrap[t].at = "deleteSecret" /\ bootstrap[t].password \in Password
    BY <1>12, RunSteps DEF Drawn
  <2>. QED  BY <1>12, <1>a, <2>1, RunSteps, RunTyped DEF DeleteSecret, Drawn, Cause
<1>13. ASSUME NEW t \in Operator, Die(t) PROVE DbTyped'
  BY <1>13, <1>a, RunSteps, RunTyped DEF Die, Drawn, Cause
<1>14. CASE Remove
  BY <1>14, JobGoneTyped DEF Remove
<1>15. CASE PodStarts \/ PodSetsRole \/ PodEnds \/ JobExpires
  BY <1>15 DEF PodStarts, PodSetsRole, PodEnds, JobExpires, JobState
<1>16. CASE JobFails
  BY <1>16 DEF JobFails, JobState
<1>17. ASSUME NEW p \in lingering, Lingers(p) PROVE DbTyped'
  BY <1>17 DEF Lingers, Cause
<1>. QED
  BY <1>1, <1>2, <1>3, <1>4, <1>5, <1>6, <1>7, <1>8, <1>9, <1>10, <1>11, <1>12, <1>13,
     <1>14, <1>15, <1>16, <1>17 DEF DbNext

LEMMA DbTypedAlways == DbSpec => []DbTyped
BY DbTypedInit, DbTypedStep, PTL DEF DbSpec

\* The type invariant of the database bootstrap.
THEOREM BootstrapTypeCorrect == DbSpec => []BootstrapTypeOK
<1>1. DbTyped => BootstrapTypeOK
  BY DEF DbTyped
<1>. QED  BY <1>1, DbTypedAlways, PTL

----------------------------------------------------------------------------
(* The temporary objects.  A Job or Secret of constant name has a run that *)
(* is still to delete it, unless a process was killed or a deletion failed.*)

HasSecret == {"sent", "applied", "verified", "put", "deleteJob", "deleteSecret"}
HasJob == {"applied", "verified", "put", "deleteJob"}

Owned ==
    causes \cap {"killed", "undeleted"} = {} =>
        /\ material # Unset => \E t \in Operator : bootstrap[t].at \in HasSecret
        /\ job # "none" => \E t \in Operator : bootstrap[t].at \in HasJob

LEMMA OwnedByOthers ==
    ASSUME Owned, causes \subseteq causes', causes' \cap {"killed", "undeleted"} = {},
           NEW t \in Operator, NEW step, NEW p, NEW ok, Becomes(t, step, p, ok),
           bootstrap[t].at \in HasSecret => step \in HasSecret \/ material' = Unset,
           bootstrap[t].at \in HasJob => step \in HasJob \/ job' = "none",
           material' # material => material' = Unset \/ step \in HasSecret,
           job' # job => job' = "none" \/ step \in HasJob
    PROVE  Owned'
<1>1. causes \cap {"killed", "undeleted"} = {}
  OBVIOUS
<1>2. ASSUME material' # Unset PROVE \E u \in Operator : bootstrap'[u].at \in HasSecret
  <2>1. CASE step \in HasSecret
    BY <2>1 DEF Becomes
  <2>2. CASE step \notin HasSecret
    <3>1. PICK u \in Operator : bootstrap[u].at \in HasSecret
      BY <1>1, <1>2, <2>2 DEF Owned
    <3>2. u # t
      BY <1>2, <2>2, <3>1
    <3>. QED  BY <3>1, <3>2 DEF Becomes
  <2>. QED  BY <2>1, <2>2
<1>3. ASSUME job' # "none" PROVE \E u \in Operator : bootstrap'[u].at \in HasJob
  <2>1. CASE step \in HasJob
    BY <2>1 DEF Becomes
  <2>2. CASE step \notin HasJob
    <3>1. PICK u \in Operator : bootstrap[u].at \in HasJob
      BY <1>1, <1>3, <2>2 DEF Owned
    <3>2. u # t
      BY <1>3, <2>2, <3>1
    <3>. QED  BY <3>1, <3>2 DEF Becomes
  <2>. QED  BY <2>1, <2>2
<1>. QED  BY <1>2, <1>3 DEF Owned

LEMMA OwnedStep == DbTyped /\ Owned /\ [DbNext]_dbVars => Owned'
<1> SUFFICES ASSUME DbTyped, Owned, [DbNext]_dbVars,
                    causes' \cap {"killed", "undeleted"} = {}
             PROVE  Owned'
  BY DEF Owned
<1>1. ASSUME NEW t \in Operator, Look(t) \/ Refuse(t) \/ Send(t) \/ Verify(t) \/ Store(t)
      PROVE  Owned'
  BY <1>1, RunSteps, OwnedByOthers
     DEF Look, Refuse, Send, Verify, Store, HasSecret, HasJob
<1>2. ASSUME NEW t \in Operator, Draw(t) PROVE Owned'
  <2>1. PICK p \in Password : Becomes(t, "drawn", p, FALSE)
    BY <1>2, DrawSteps
  <2>. QED  BY <1>2, <2>1, OwnedByOthers DEF Draw, HasSecret, HasJob
<1>3. ASSUME NEW t \in Operator, Apply(t) PROVE Owned'
  BY <1>3, RunSteps, OwnedByOthers DEF Apply, HasSecret, HasJob
<1>4. ASSUME NEW t \in Operator, Confirm(t) PROVE Owned'
  BY <1>4, ConfirmSteps, OwnedByOthers DEF Confirm, HasSecret, HasJob
<1>5. ASSUME NEW t \in Operator, Fail(t) PROVE Owned'
  BY <1>5, RunSteps, OwnedByOthers DEF Fail, HasSecret, HasJob, InTry
<1>6. ASSUME NEW t \in Operator, DeleteJob(t) PROVE Owned'
  <2>1. /\ job' = "none" /\ material' = material /\ causes \subseteq causes'
        /\ Becomes(t, "deleteSecret", bootstrap[t].password, bootstrap[t].ok)
        /\ bootstrap[t].at = "deleteJob"
    BY <1>6, RunSteps DEF DeleteJob, JobGone
  <2>. QED  BY <2>1, OwnedByOthers DEF HasSecret, HasJob
<1>7. ASSUME NEW t \in Operator, DeleteSecret(t) PROVE Owned'
  <2>1. /\ material' = Unset /\ job' = job /\ causes \subseteq causes'
        /\ Becomes(t, "idle", Unset, FALSE) /\ bootstrap[t].at = "deleteSecret"
    BY <1>7, RunSteps DEF DeleteSecret
  <2>. QED  BY <2>1, OwnedByOthers DEF HasSecret, HasJob
<1>8. ASSUME NEW t \in Operator, Die(t) PROVE Owned'
  BY <1>8 DEF Die
<1>9. CASE Remove \/ JobExpires
  BY <1>9 DEF Remove, JobGone, JobExpires, Owned
<1>10. CASE PodStarts \/ PodSetsRole \/ PodEnds \/ JobFails
  <2>1. /\ job # "none" /\ UNCHANGED <<material, bootstrap, causes>>
    BY <1>10 DEF PodStarts, PodSetsRole, PodEnds, JobFails
  <2>. QED  BY <2>1 DEF Owned
<1>11. ASSUME NEW p \in lingering, Lingers(p) PROVE Owned'
  <2>1. UNCHANGED <<material, job, bootstrap>> /\ causes \subseteq causes'
    BY <1>11 DEF Lingers
  <2>. QED  BY <2>1 DEF Owned
<1>12. CASE UNCHANGED dbVars
  BY <1>12 DEF dbVars, Owned
<1>. QED
  BY <1>1, <1>2, <1>3, <1>4, <1>5, <1>6, <1>7, <1>8, <1>9, <1>10, <1>11, <1>12 DEF DbNext

\* Whatever fails, the runs delete what they created.
THEOREM NothingLeftBehind == DbSpec => []NothingIsLeftBehind
<1>1. DbInit => Owned
  BY DEF DbInit, Owned
<1>2. DbTyped /\ Owned => NothingIsLeftBehind
  BY DEF DbTyped, Owned, NothingIsLeftBehind, Nothing, HasSecret, HasJob, Off
<1>. QED  BY <1>1, <1>2, OwnedStep, DbTypedAlways, PTL DEF DbSpec

----------------------------------------------------------------------------
(* The application secret.  Without two runs at once there is one active   *)
(* run, it found the secret empty, and what it stored stays.               *)

Sole == \A t, u \in Operator : bootstrap[t].at # "idle" /\ bootstrap[u].at # "idle" => t = u

Kept(t) ==
    /\ bootstrap[t].at \in {"drawn", "sent", "applied", "verified"} => stored = <<>>
    /\ bootstrap[t].at = "put" => stored = <<bootstrap[t].password>>
    /\ bootstrap[t].at \in {"deleteJob", "deleteSecret"} /\ bootstrap[t].ok =>
          stored = <<bootstrap[t].password>>

StoredOnce ==
    "overlap" \notin causes =>
        /\ Sole
        /\ Len(stored) <= 1
        /\ \A t \in Operator : Kept(t)
        /\ \A p \in reported : stored = <<p>>

LEMMA OneVersion == \A p : Len(<<p>>) = 1 /\ <<p>> # <<>> /\ <<p>>[1] = p
OBVIOUS

LEMMA AppendToEmpty == \A p \in Password : Append(<<>>, p) = <<p>>
OBVIOUS

LEMMA SoleKept ==
    ASSUME Sole, NEW t \in Operator, bootstrap[t].at # "idle",
           NEW step, NEW p, NEW ok, Becomes(t, step, p, ok)
    PROVE  Sole' /\ \A u \in Operator \ {t} : bootstrap'[u].at = "idle"
BY DEF Sole, Becomes

LEMMA StoredOnceStep == DbTyped /\ StoredOnce /\ [DbNext]_dbVars => StoredOnce'
<1> SUFFICES ASSUME DbTyped, StoredOnce, [DbNext]_dbVars, "overlap" \notin causes'
             PROVE  /\ Sole'
                    /\ Len(stored') <= 1
                    /\ \A t \in Operator : Kept(t)'
                    /\ \A p \in reported' : stored' = <<p>>
  BY DEF StoredOnce
<1> DEFINE Goal == /\ Sole'
                   /\ Len(stored') <= 1
                   /\ \A t \in Operator : Kept(t)'
                   /\ \A p \in reported' : stored' = <<p>>
<1> HIDE DEF Goal
<1>a. causes \subseteq causes'
  BY DEF DbNext, dbVars, Look, Draw, Refuse, Send, Apply, Verify, Store, Confirm, Fail,
         DeleteJob, DeleteSecret, Die, Remove, PodStarts, PodSetsRole, PodEnds, JobFails,
         JobExpires, Lingers
<1>b. /\ Sole /\ Len(stored) <= 1
      /\ \A t \in Operator : Kept(t)
      /\ \A p \in reported : stored = <<p>>
  BY <1>a DEF StoredOnce
<1>c. ASSUME NEW t \in Operator, bootstrap[t].at # "idle",
             NEW step, NEW p, NEW ok, Becomes(t, step, p, ok),
             stored' = stored,
             step \in {"drawn", "sent", "applied", "verified"} => stored = <<>>,
             step = "put" => stored = <<p>>,
             step \in {"deleteJob", "deleteSecret"} /\ ok => stored = <<p>>,
             \A q \in reported' : q \in reported \/ stored = <<q>>
      PROVE  Goal
  <2>1. Sole' /\ \A u \in Operator \ {t} : bootstrap'[u].at = "idle"
    BY <1>b, <1>c, SoleKept
  <2>2. Kept(t)'
    BY <1>c DEF Kept, Becomes
  <2>3. \A u \in Operator : Kept(u)'
    BY <2>1, <2>2 DEF Kept
  <2>. QED  BY <1>b, <1>c, <2>1, <2>3 DEF Goal
<1>1. ASSUME NEW t \in Operator, Look(t) PROVE Goal
  <2>1. /\ Becomes(t, "looked", bootstrap[t].password, bootstrap[t].ok)
        /\ stored' = stored /\ reported' = reported /\ Alone(t)
    BY <1>1, RunSteps DEF Look
  <2>2. \A u \in Operator \ {t} : bootstrap'[u].at = "idle"
    BY <2>1 DEF Becomes, Alone, Off
  <2>3. \A u \in Operator : Kept(u)'
    BY <2>1, <2>2 DEF Kept, Becomes
  <2>. QED  BY <1>b, <2>1, <2>2, <2>3 DEF Goal, Sole
<1>2. ASSUME NEW t \in Operator, Draw(t) PROVE Goal
  <2>1. PICK p \in Password : Becomes(t, "drawn", p, FALSE)
    BY <1>2, DrawSteps
  <2>. QED  BY <1>2, <1>c, <2>1 DEF Draw
<1>3. ASSUME NEW t \in Operator, Send(t) \/ Apply(t) \/ Verify(t) PROVE Goal
  <2>1. /\ bootstrap[t].at \in {"drawn", "sent", "applied", "verified"}
        /\ stored' = stored /\ reported' = reported
        /\ \E step \in {"sent", "applied", "verified"} :
              Becomes(t, step, bootstrap[t].password, bootstrap[t].ok)
    BY <1>3, RunSteps DEF Send, Apply, Verify
  <2>2. stored = <<>>
    BY <1>b, <2>1 DEF Kept
  <2>. QED  BY <1>c, <2>1, <2>2
<1>4. ASSUME NEW t \in Operator, Store(t) PROVE Goal
  <2>1. /\ bootstrap[t].at = "verified" /\ reported' = reported
        /\ stored' = Append(stored, bootstrap[t].password)
        /\ Becomes(t, "put", bootstrap[t].password, bootstrap[t].ok)
    BY <1>4, RunSteps DEF Store
  <2>2. stored = <<>> /\ bootstrap[t].password \in Password
    BY <1>b, <2>1 DEF Kept, DbTyped, Drawn
  <2>3. stored' = <<bootstrap[t].password>>
    BY <2>1, <2>2, AppendToEmpty
  <2>4. reported' = {}
    BY <1>b, <2>1, <2>2, OneVersion
  <2>5. Sole' /\ \A u \in Operator \ {t} : bootstrap'[u].at = "idle"
    BY <1>b, <2>1, SoleKept
  <2>6. \A u \in Operator : Kept(u)'
    BY <2>1, <2>3, <2>5 DEF Kept, Becomes
  <2>. QED  BY <2>3, <2>4, <2>5, <2>6, OneVersion DEF Goal
<1>5. ASSUME NEW t \in Operator, Confirm(t) PROVE Goal
  <2>1. stored = <<bootstrap[t].password>>
    BY <1>b, <1>5 DEF Kept, Confirm
  <2>. QED  BY <1>5, <1>c, <2>1, ConfirmSteps DEF Confirm
<1>6. ASSUME NEW t \in Operator, Fail(t) PROVE Goal
  BY <1>6, <1>c, RunSteps DEF Fail, InTry
<1>7. ASSUME NEW t \in Operator, Refuse(t) PROVE Goal
  BY <1>7, <1>c, RunSteps DEF Refuse
<1>8. ASSUME NEW t \in Operator, DeleteJob(t) PROVE Goal
  <2>1. bootstrap[t].ok => stored = <<bootstrap[t].password>>
    BY <1>b, <1>8, RunSteps DEF Kept
  <2>2. bootstrap[t].at = "deleteJob" /\ stored' = stored /\ reported' = reported
    BY <1>8, RunSteps DEF DeleteJob
  <2>. QED  BY <1>8, <1>c, <2>1, <2>2, RunSteps
<1>9. ASSUME NEW t \in Operator, DeleteSecret(t) PROVE Goal
  <2>1. bootstrap[t].ok => stored = <<bootstrap[t].password>>
    BY <1>b, <1>9, RunSteps DEF Kept
  <2>2. bootstrap[t].at = "deleteSecret" /\ stored' = stored
    BY <1>9, RunSteps DEF DeleteSecret
  <2>3. \A q \in reported' : q \in reported \/ stored = <<q>>
    BY <1>9, <2>1 DEF DeleteSecret
  <2>. QED  BY <1>9, <1>c, <2>2, <2>3, RunSteps
<1>10. ASSUME NEW t \in Operator, Die(t) PROVE Goal
  <2>1. bootstrap[t].at # "idle" /\ stored' = stored /\ reported' = reported
    BY <1>10 DEF Die, DbTyped
  <2>. QED  BY <1>10, <1>c, <2>1, RunSteps
<1>11. ASSUME UNCHANGED <<stored, reported, bootstrap>> PROVE Goal
  BY <1>11, <1>b DEF Goal, Sole, Kept
<1>12. CASE Remove \/ PodStarts \/ PodSetsRole \/ PodEnds \/ JobFails \/ JobExpires
  BY <1>11, <1>12 DEF Remove, PodStarts, PodSetsRole, PodEnds, JobFails, JobExpires, Goal
<1>13. ASSUME NEW p \in lingering, Lingers(p) PROVE Goal
  BY <1>11, <1>13 DEF Lingers
<1>14. CASE UNCHANGED dbVars
  BY <1>11, <1>14 DEF dbVars, Goal
<1>. QED
  BY <1>1, <1>2, <1>3, <1>4, <1>5, <1>6, <1>7, <1>8, <1>9, <1>10, <1>12, <1>13, <1>14
     DEF DbNext, Goal

LEMMA StoredOnceAlways == DbSpec => []StoredOnce
<1>1. DbInit => StoredOnce
  BY DEF DbInit, StoredOnce, Sole, Kept, Off
<1>. QED  BY <1>1, StoredOnceStep, DbTypedAlways, PTL DEF DbSpec

\* The application secret gets a second version only when two runs overlap.
THEOREM SecretNotRotated == DbSpec => []SecretIsNotRotated
<1>1. DbTyped /\ StoredOnce => SecretIsNotRotated
  BY LenProperties DEF DbTyped, BootstrapTypeOK, StoredOnce, SecretIsNotRotated
<1>. QED  BY <1>1, StoredOnceAlways, DbTypedAlways, PTL

\* Without overlap the password of a run that reported success stays current.
THEOREM ReportedPasswordCurrent == DbSpec => []ReportedPasswordIsCurrent
<1>1. StoredOnce => ReportedPasswordIsCurrent
  BY DEF StoredOnce, ReportedPasswordIsCurrent
<1>. QED  BY <1>1, StoredOnceAlways, PTL

----------------------------------------------------------------------------
(* The stored password opens the database.  The one active run found no    *)
(* Job, so the Job it waits for is its own, started with its password; and *)
(* once a password is stored no Job is left that could set another.        *)

Unseen == causes \cap {"overlap", "misread", "outlived"} # {}

OwnJob(t) ==
    /\ bootstrap[t].at \in {"looked", "drawn", "sent"} => job = "none"
    /\ bootstrap[t].at \in {"sent", "applied"} => material = bootstrap[t].password
    /\ bootstrap[t].at = "applied" =>
          /\ job = "running" => pod = bootstrap[t].password
          /\ job \in {"set", "complete"} => role = bootstrap[t].password
    /\ bootstrap[t].at = "verified" =>
          job \in {"none", "complete", "failed"} /\ role = bootstrap[t].password

Opens ==
    \/ Unseen
    \/ /\ \A t \in Operator : OwnJob(t)
       /\ stored # <<>> => job \notin {"pending", "running", "set"} /\ role = stored[Len(stored)]

LEMMA OpensStep == DbTyped /\ StoredOnce /\ StoredOnce' /\ Opens /\ [DbNext]_dbVars => Opens'
<1> SUFFICES ASSUME DbTyped, StoredOnce, StoredOnce', Opens, [DbNext]_dbVars, ~Unseen'
             PROVE  Opens'
  BY DEF Opens
<1>a. causes \subseteq causes'
  BY DEF DbNext, dbVars, Look, Draw, Refuse, Send, Apply, Verify, Store, Confirm, Fail,
         DeleteJob, DeleteSecret, Die, Remove, PodStarts, PodSetsRole, PodEnds, JobFails,
         JobExpires, Lingers
<1>b. /\ \A t \in Operator : OwnJob(t)
      /\ stored # <<>> => job \notin {"pending", "running", "set"} /\ role = stored[Len(stored)]
      /\ Sole /\ Sole' /\ \A t \in Operator : Kept(t)
      /\ "misread" \notin causes' /\ "outlived" \notin causes'
  BY <1>a DEF Unseen, Opens, StoredOnce
<1>c. ASSUME NEW t \in Operator, bootstrap'[t].at # "idle",
             OwnJob(t)',
             stored' # <<>> => job' \notin {"pending", "running", "set"} /\ role' = stored'[Len(stored')]
      PROVE  Opens'
  <2>1. \A u \in Operator \ {t} : bootstrap'[u].at = "idle"
    BY <1>b, <1>c DEF Sole
  <2>. QED  BY <1>c, <2>1 DEF Opens, OwnJob
<1>d. ASSUME NEW t \in Operator, NEW step, NEW p, NEW ok, Becomes(t, step, p, ok),
             step \in {"idle", "put", "deleteJob", "deleteSecret"},
             UNCHANGED <<stored, role>>, job' \in {job, "none"}, bootstrap[t].at # "idle"
      PROVE  Opens'
  <2>1. \A u \in Operator \ {t} : bootstrap'[u].at = "idle"
    BY <1>b, <1>d, SoleKept
  <2>2. \A u \in Operator : OwnJob(u)'
    BY <1>d, <2>1 DEF OwnJob, Becomes
  <2>. QED  BY <1>b, <1>d, <2>2 DEF Opens
<1>1. ASSUME NEW t \in Operator, Look(t) PROVE Opens'
  <2>1. /\ Becomes(t, "looked", bootstrap[t].password, bootstrap[t].ok)
        /\ UNCHANGED <<stored, role, material, job>>
    BY <1>1, RunSteps DEF Look
  <2>2. job = "none"
    BY <1>1, <1>b DEF Look, Nothing
  <2>. QED  BY <1>b, <1>c, <2>1, <2>2 DEF OwnJob, Becomes
<1>2. ASSUME NEW t \in Operator, Draw(t) PROVE Opens'
  <2>1. PICK p \in Password : Becomes(t, "drawn", p, FALSE)
    BY <1>2, DrawSteps
  <2>. QED  BY <1>b, <1>c, <1>2, <2>1 DEF Draw, OwnJob, Becomes
<1>3. ASSUME NEW t \in Operator, Send(t) PROVE Opens'
  <2>1. /\ Becomes(t, "sent", bootstrap[t].password, bootstrap[t].ok)
        /\ bootstrap[t].at = "drawn"
        /\ UNCHANGED <<stored, role, job>> /\ material' = bootstrap[t].password
    BY <1>3, RunSteps DEF Send
  <2>. QED  BY <1>b, <1>c, <2>1 DEF OwnJob, Becomes
<1>4. ASSUME NEW t \in Operator, Apply(t) PROVE Opens'
  <2>1. /\ Becomes(t, "applied", bootstrap[t].password, bootstrap[t].ok)
        /\ bootstrap[t].at = "sent"
        /\ UNCHANGED <<stored, role, material>>
    BY <1>4, RunSteps DEF Apply
  <2>2. job = "none" /\ job' = "pending" /\ stored = <<>> /\ material = bootstrap[t].password
    BY <1>4, <1>b, <2>1 DEF OwnJob, Kept, Apply
  <2>. QED  BY <1>c, <2>1, <2>2 DEF OwnJob, Becomes
<1>5. ASSUME NEW t \in Operator, Verify(t) PROVE Opens'
  <2>1. /\ Becomes(t, "verified", bootstrap[t].password, bootstrap[t].ok)
        /\ bootstrap[t].at = "applied" /\ job = "complete"
        /\ UNCHANGED <<stored, role, material, job>>
    BY <1>5, RunSteps DEF Verify
  <2>. QED  BY <1>b, <1>c, <2>1 DEF OwnJob, Becomes
<1>6. ASSUME NEW t \in Operator, Store(t) PROVE Opens'
  <2>1. /\ Becomes(t, "put", bootstrap[t].password, bootstrap[t].ok)
        /\ bootstrap[t].at = "verified"
        /\ UNCHANGED <<role, material, job>>
        /\ stored' = Append(stored, bootstrap[t].password)
    BY <1>6, RunSteps DEF Store
  <2>2. stored = <<>> /\ bootstrap[t].password \in Password
    BY <1>b, <2>1 DEF Kept, DbTyped, Drawn
  <2>3. stored' = <<bootstrap[t].password>>
    BY <2>1, <2>2, AppendToEmpty
  <2>4. stored'[Len(stored')] = bootstrap[t].password
    BY <2>3, OneVersion
  <2>5. job \in {"none", "complete", "failed"} /\ role = bootstrap[t].password
    BY <1>b, <2>1 DEF OwnJob
  <2>. QED  BY <1>c, <2>1, <2>4, <2>5 DEF OwnJob, Becomes
<1>7. ASSUME NEW t \in Operator, Confirm(t) PROVE Opens'
  BY <1>7, <1>d, ConfirmSteps DEF Confirm
<1>8. ASSUME NEW t \in Operator, Fail(t) PROVE Opens'
  BY <1>8, <1>d, RunSteps DEF Fail, InTry
<1>9. ASSUME NEW t \in Operator, Refuse(t) PROVE Opens'
  BY <1>9, <1>d, RunSteps DEF Refuse
<1>10. ASSUME NEW t \in Operator, DeleteJob(t) PROVE Opens'
  <2>1. UNCHANGED <<stored, role>> /\ job' \in {job, "none"}
    BY <1>10 DEF DeleteJob, JobGone
  <2>. QED  BY <1>10, <1>d, <2>1, RunSteps
<1>11. ASSUME NEW t \in Operator, DeleteSecret(t) PROVE Opens'
  BY <1>11, <1>d, RunSteps DEF DeleteSecret
<1>12. ASSUME NEW t \in Operator, Die(t) PROVE Opens'
  <2>1. bootstrap[t].at # "idle" /\ UNCHANGED <<stored, role, job>>
    BY <1>12 DEF Die, DbTyped
  <2>. QED  BY <1>12, <1>d, <2>1, RunSteps
<1>13. CASE Remove
  <2>1. \A t \in Operator : bootstrap'[t].at = "idle"
    BY <1>13 DEF Remove, Off
  <2>. QED  BY <1>b, <1>13, <2>1 DEF Remove, JobGone, Opens, OwnJob
<1>14. CASE PodStarts
  <2>1. /\ job = "pending" /\ job' = "running" /\ pod' = material /\ stored = <<>>
        /\ UNCHANGED <<stored, role, material, bootstrap>>
    BY <1>b, <1>14 DEF PodStarts
  <2>. QED  BY <1>b, <2>1 DEF Opens, OwnJob
<1>15. CASE PodSetsRole
  <2>1. /\ job = "running" /\ job' = "set" /\ role' = pod /\ stored = <<>>
        /\ UNCHANGED <<stored, material, bootstrap>>
    BY <1>b, <1>15 DEF PodSetsRole
  <2>. QED  BY <1>b, <2>1 DEF Opens, OwnJob
<1>16. CASE PodEnds
  <2>1. job = "set" /\ job' \in {"complete", "failed"} /\ UNCHANGED <<stored, role, material, bootstrap>>
    BY <1>16 DEF PodEnds
  <2>. QED  BY <1>b, <2>1 DEF Opens, OwnJob
<1>17. CASE JobFails
  <2>1. job \in {"pending", "running"} /\ job' = "failed" /\ UNCHANGED <<stored, role, material, bootstrap>>
    BY <1>17 DEF JobFails
  <2>. QED  BY <1>b, <2>1 DEF Opens, OwnJob
<1>18. CASE JobExpires
  <2>1. job \in {"complete", "failed"} /\ job' = "none" /\ UNCHANGED <<stored, role, material, bootstrap>>
    BY <1>18 DEF JobExpires
  <2>. QED  BY <1>b, <2>1 DEF Opens, OwnJob
<1>19. ASSUME NEW p \in lingering, Lingers(p) PROVE Opens'
  <2>1. UNCHANGED <<stored, role, material, job, pod, bootstrap>>
    BY <1>b, <1>19 DEF Lingers
  <2>. QED  BY <1>b, <2>1 DEF Opens, OwnJob
<1>20. CASE UNCHANGED dbVars
  BY <1>b, <1>20 DEF dbVars, Opens, OwnJob
<1>. QED
  BY <1>1, <1>2, <1>3, <1>4, <1>5, <1>6, <1>7, <1>8, <1>9, <1>10, <1>11, <1>12, <1>13,
     <1>14, <1>15, <1>16, <1>17, <1>18, <1>19, <1>20 DEF DbNext

\* The stored credential opens the database, except after what no check looks for.
THEOREM StoredPasswordOpens == DbSpec => []StoredPasswordOpensDatabase
<1>1. DbInit => Opens
  BY DEF DbInit, Opens, OwnJob, Off
<1>2. Opens => StoredPasswordOpensDatabase
  BY DEF Opens, Unseen, StoredPasswordOpensDatabase
<1>. QED  BY <1>1, <1>2, OpensStep, DbTypedAlways, StoredOnceAlways, PTL DEF DbSpec
============================================================================
