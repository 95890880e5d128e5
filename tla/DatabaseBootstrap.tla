------------------------- MODULE DatabaseBootstrap -------------------------
(***************************************************************************)
(* hack/bootstrap-web3signer-database.py: one command that draws a         *)
(* password, hands it to a temporary Job that sets it on the database      *)
(* role, and stores it for Web3Signer.  The names of the temporary objects *)
(* are constant, so every run of the command, and what an earlier one left *)
(* behind, meets in them.                                                  *)
(*                                                                         *)
(* Job with its network policy and Secret with its CA ConfigMap are one    *)
(* object each: they are applied, looked for and deleted next to each      *)
(* other.                                                                  *)
(***************************************************************************)
EXTENDS Naturals, Sequences, FiniteSets

CONSTANTS
    Operator,   \* who runs the command
    Password,   \* passwords it may draw
    Unset        \* no password

ASSUME UnsetIsNoPassword == Unset \notin Password

VARIABLES
    used,       \* passwords drawn so far
    role,       \* password of the application role in the database
    stored,     \* versions of the application secret, oldest first
    material,   \* application password in the temporary Secret
    job,        \* state of the temporary Job
    pod,        \* password its running Pod was started with
    lingering,  \* passwords of Pods whose Job is gone and that have not ended yet
    bootstrap,  \* the run of each operator
    reported,   \* history variable: passwords of runs that reported success
    causes      \* history variable: what has happened that no check looks for

dbVars == <<used, role, stored, material, job, pod, lingering, bootstrap, reported, causes>>

JobState == {"none", "pending", "running", "set", "complete", "failed"}
Stage == {"idle", "looked", "drawn", "sent", "applied", "verified", "put",
         "deleteJob", "deleteSecret"}
Run == [at: Stage, password: Password \cup {Unset}, ok: BOOLEAN]
Off == [at |-> "idle", password |-> Unset, ok |-> FALSE]

\* Two runs at once, an object taken for absent because kubectl failed, a Pod
\* that outlived its Job, a killed process, a deletion that failed.
Cause == {"overlap", "misread", "outlived", "killed", "undeleted"}

BootstrapTypeOK ==
    /\ used \subseteq Password
    /\ role \in Password \cup {Unset}
    /\ stored \in Seq(Password)
    /\ material \in Password \cup {Unset}
    /\ job \in JobState
    /\ pod \in Password \cup {Unset}
    /\ lingering \subseteq Password
    /\ bootstrap \in [Operator -> Run]
    /\ reported \subseteq Password
    /\ causes \subseteq Cause

DbInit ==
    /\ used = {} /\ role = Unset /\ stored = <<>>
    /\ material = Unset /\ job = "none" /\ pod = Unset /\ lingering = {}
    /\ bootstrap = [t \in Operator |-> Off]
    /\ reported = {} /\ causes = {}

Enter(t, r) == bootstrap' = [bootstrap EXCEPT ![t] = r]
Advance(t, from, to) ==
    /\ bootstrap[t].at = from
    /\ Enter(t, [bootstrap[t] EXCEPT !.at = to])

\* Every exit path of the try block goes through the deletions.
GiveUp(t) == Enter(t, [bootstrap[t] EXCEPT !.at = "deleteJob", !.ok = FALSE])
InTry == {"drawn", "sent", "applied", "verified", "put"}

Nothing == material = Unset /\ job = "none"
Alone(t) == \A u \in Operator \ {t} : bootstrap[u] = Off

----------------------------------------------------------------------------
(* Before anything is created                                              *)

\* Stale objects stop the command, but a kubectl that fails counts as absence.
Look(t) ==
    /\ Advance(t, "idle", "looked")
    /\ causes' = causes \cup (IF Nothing THEN {} ELSE {"misread"})
                        \cup (IF Alone(t) THEN {} ELSE {"overlap"})
    /\ UNCHANGED <<used, role, stored, material, job, pod, lingering, reported>>

\* Mutation: the application secret is not looked at.
DrawAnyway(t) ==
    /\ bootstrap[t].at = "looked"
    /\ \E p \in Password \ used :
          /\ used' = used \cup {p}
          /\ Enter(t, [bootstrap[t] EXCEPT !.at = "drawn", !.password = p])
    /\ UNCHANGED <<role, stored, material, job, pod, lingering, reported, causes>>

\* The application secret has no version; the master secret and the CA bundle
\* are loaded and a password is drawn.
Draw(t) ==
    /\ bootstrap[t].at = "looked"
    /\ stored = <<>>
    /\ \E p \in Password \ used :
          /\ used' = used \cup {p}
          /\ Enter(t, [bootstrap[t] EXCEPT !.at = "drawn", !.password = p])
    /\ UNCHANGED <<role, stored, material, job, pod, lingering, reported, causes>>

----------------------------------------------------------------------------
(* The try block                                                           *)

\* kubectl apply creates the Secret or replaces what it holds.
Send(t) ==
    /\ Advance(t, "drawn", "sent")
    /\ material' = bootstrap[t].password
    /\ UNCHANGED <<used, role, stored, job, pod, lingering, reported, causes>>

\* It creates the Job, or leaves the one of that name as it is.
Apply(t) ==
    /\ Advance(t, "sent", "applied")
    /\ job' = IF job = "none" THEN "pending" ELSE job
    /\ UNCHANGED <<used, role, stored, material, pod, lingering, reported, causes>>

\* Mutation: the Job is applied, and not waited for.
VerifyEarly(t) ==
    /\ Advance(t, "applied", "verified")
    /\ UNCHANGED <<used, role, stored, material, job, pod, lingering, reported, causes>>

\* The Job is complete and its one Pod had the migration branch ENI.
Verify(t) ==
    /\ job = "complete"
    /\ Advance(t, "applied", "verified")
    /\ UNCHANGED <<used, role, stored, material, job, pod, lingering, reported, causes>>

Store(t) ==
    /\ Advance(t, "verified", "put")
    /\ stored' = Append(stored, bootstrap[t].password)
    /\ UNCHANGED <<used, role, material, job, pod, lingering, reported, causes>>

\* The version read back is the payload sent.
Confirm(t) ==
    /\ bootstrap[t].at = "put"
    /\ stored[Len(stored)] = bootstrap[t].password
    /\ Enter(t, [bootstrap[t] EXCEPT !.at = "deleteJob", !.ok = TRUE])
    /\ UNCHANGED <<used, role, stored, material, job, pod, lingering, reported, causes>>

\* A call fails, the Job fails or is not complete in five minutes, its Pod has
\* the wrong network identity, or the secret reads back differently.
Fail(t) ==
    /\ bootstrap[t].at \in InTry
    /\ GiveUp(t)
    /\ UNCHANGED <<used, role, stored, material, job, pod, lingering, reported, causes>>

\* A check before the try block refuses.
Refuse(t) ==
    /\ bootstrap[t].at = "looked"
    /\ Enter(t, Off)
    /\ UNCHANGED <<used, role, stored, material, job, pod, lingering, reported, causes>>

----------------------------------------------------------------------------
(* The finally block                                                       *)

\* Deleting a Job leaves its Pod a grace period.
JobGone ==
    /\ job' = "none"
    /\ pod' = Unset
    /\ lingering' = IF job = "running" THEN lingering \cup {pod} ELSE lingering

\* Nobody looks at the result of a deletion.
DeleteJob(t) ==
    /\ Advance(t, "deleteJob", "deleteSecret")
    /\ \/ JobGone /\ UNCHANGED causes
       \/ /\ causes' = causes \cup (IF job = "none" THEN {} ELSE {"undeleted"})
          /\ UNCHANGED <<job, pod, lingering>>
    /\ UNCHANGED <<used, role, stored, material, reported>>

\* Mutation: a run that failed keeps its Secret.
DeleteAfterSuccess(t) ==
    /\ bootstrap[t].at = "deleteSecret"
    /\ Enter(t, Off)
    /\ material' = IF bootstrap[t].ok THEN Unset ELSE material
    /\ reported' = IF bootstrap[t].ok THEN reported \cup {bootstrap[t].password} ELSE reported
    /\ UNCHANGED <<used, role, stored, job, pod, lingering, causes>>

\* After it the command ends, with its success message if nothing failed before.
DeleteSecret(t) ==
    /\ bootstrap[t].at = "deleteSecret"
    /\ Enter(t, Off)
    /\ \/ material' = Unset /\ UNCHANGED causes
       \/ /\ causes' = causes \cup (IF material = Unset THEN {} ELSE {"undeleted"})
          /\ UNCHANGED material
    /\ reported' = IF bootstrap[t].ok THEN reported \cup {bootstrap[t].password} ELSE reported
    /\ UNCHANGED <<used, role, stored, job, pod, lingering>>

\* The process is killed.
Die(t) ==
    /\ bootstrap[t] # Off
    /\ Enter(t, Off)
    /\ causes' = causes \cup {"killed"}
    /\ UNCHANGED <<used, role, stored, material, job, pod, lingering, reported>>

\* A person removes what a dead or failed command has left.
Remove ==
    /\ \A t \in Operator : bootstrap[t] = Off
    /\ ~Nothing
    /\ JobGone
    /\ material' = Unset
    /\ UNCHANGED <<used, role, stored, bootstrap, reported, causes>>

----------------------------------------------------------------------------
(* Kubernetes and the database                                             *)

PodStarts ==
    /\ job = "pending" /\ material # Unset
    /\ job' = "running" /\ pod' = material
    /\ UNCHANGED <<used, role, stored, material, lingering, bootstrap, reported, causes>>

\* The SQL of the Job creates the role if it has to and sets its password.
PodSetsRole ==
    /\ job = "running"
    /\ role' = pod
    /\ job' = "set"
    /\ UNCHANGED <<used, stored, material, pod, lingering, bootstrap, reported, causes>>

PodEnds ==
    /\ job = "set"
    /\ job' \in {"complete", "failed"}
    /\ pod' = Unset
    /\ UNCHANGED <<used, role, stored, material, lingering, bootstrap, reported, causes>>

\* The deadline of the Job or an error of psql; at a deadline the Pod may go on.
JobFails ==
    /\ job \in {"pending", "running"}
    /\ job' = "failed"
    /\ pod' = Unset
    /\ lingering' \in {lingering, IF job = "running" THEN lingering \cup {pod} ELSE lingering}
    /\ UNCHANGED <<used, role, stored, material, bootstrap, reported, causes>>

\* Ten minutes after it finished.
JobExpires ==
    /\ job \in {"complete", "failed"}
    /\ job' = "none"
    /\ UNCHANGED <<used, role, stored, material, pod, lingering, bootstrap, reported, causes>>

\* A Pod in its grace period still sets the role, or does not.
Lingers(p) ==
    /\ p \in lingering
    /\ lingering' = lingering \ {p}
    /\ \/ role' = p /\ causes' = causes \cup {"outlived"}
       \/ UNCHANGED <<role, causes>>
    /\ UNCHANGED <<used, stored, material, job, pod, bootstrap, reported>>

----------------------------------------------------------------------------

DbNext ==
    \/ \E t \in Operator :
          \/ Look(t) \/ Draw(t) \/ Refuse(t)
          \/ Send(t) \/ Apply(t) \/ Verify(t) \/ Store(t) \/ Confirm(t) \/ Fail(t)
          \/ DeleteJob(t) \/ DeleteSecret(t) \/ Die(t)
    \/ Remove
    \/ PodStarts \/ PodSetsRole \/ PodEnds \/ JobFails \/ JobExpires
    \/ \E p \in lingering : Lingers(p)

DbSpec == DbInit /\ [][DbNext]_dbVars

----------------------------------------------------------------------------
(* Properties                                                              *)

\* The stored credential opens the database: the role has another password only
\* after two runs overlapped, a stale object was taken for absent, or a Pod of an
\* earlier run outlived its Job.
StoredPasswordOpensDatabase ==
    stored # <<>> /\ role # stored[Len(stored)] =>
        causes \cap {"overlap", "misread", "outlived"} # {}

\* The application secret is not rotated by this command unless two runs overlap
\* ("refusing implicit rotation").
SecretIsNotRotated == Len(stored) > 1 => "overlap" \in causes

\* A run that reported success stored the credential that is current ever after.
ReportedPasswordIsCurrent ==
    "overlap" \notin causes => \A p \in reported : stored = <<p>>

\* No temporary object outlives the runs ("deleted on every exit path"), so that a
\* failed run can be repeated, unless a process was killed or a deletion failed.
NothingIsLeftBehind ==
    (\A t \in Operator : bootstrap[t] = Off) /\ causes \cap {"killed", "undeleted"} = {}
        => Nothing
============================================================================
