---------------------------- MODULE ImageEvidence ---------------------------
(***************************************************************************)
(* .github/workflows/image-security.yaml and the tools it calls: one run   *)
(* of the workflow at a time (a new one cancels it), its inventory, one    *)
(* scan shard per exact image, the evidence each shard uploads, the        *)
(* decision and the public check with the finding counts.                  *)
(*                                                                         *)
(* Shards interleave with each other, with the vulnerability database and  *)
(* with time; any of them may fail, and a run may be run again, keeping    *)
(* the artifacts of its earlier attempt.                                   *)
(***************************************************************************)
EXTENDS ImageInventory, FiniteSetsExt

CONSTANTS
    Revision,     \* [files, tooling, exceptions]: commits a run may be about
    Vulnerability, MaxOccurrence,
    MaxParallel,  \* shards at once
    Retention,    \* ticks an artifact can be downloaded for
    None,
    MaxTime, MaxAttempt   \* bounds of the model

ASSUME ScanBounds ==
    /\ MaxOccurrence \in Nat /\ MaxParallel \in Nat \ {0}
    /\ Retention \in Nat \ {0} /\ MaxTime \in Nat /\ MaxAttempt \in Nat \ {0}
ASSUME NoneIsNoImage == None \notin Image

\* What can be discovered in a revision, deployed or reported is finite, and a
\* revision says of every place what kind it is.
ASSUME FiniteImages == IsFiniteSet(Image) /\ IsFiniteSet(Vulnerability)
ASSUME RevisionFiles == \A revision \in Revision : revision.files \in [Source -> Entry]

VARIABLES
    now,       \* the clock of the runners
    known,     \* what a scan of each image would find, as a bag of vulnerabilities
    request,   \* event, base and head revision of the run
    stage,     \* of the run
    verdict,   \* of the inventory job
    shard,     \* state of each image's scan job
    report,    \* Trivy's report in a shard
    artifact,  \* evidence last uploaded for each image in this run
    summary,   \* outputs of the aggregate step
    attempt,   \* of the run
    seen       \* history variable: values of known since the run began

vars == <<now, known, request, stage, verdict, shard, report, artifact, summary, attempt, seen>>
run == <<request, stage, verdict, shard, report, artifact, summary, attempt>>

Findings == [Vulnerability -> 0..MaxOccurrence]
Stage == {"idle", "inventory", "scan", "red", "green", "published"}
Verdict == {"none", "scan", "reuse", "failed"}
Shard == {"off", "queued", "scanned", "done", "failed"}
Report == [image: Image, found: Findings, at: 0..MaxTime]
Evidence == [image: Image, found: Findings, excepted: SUBSET Vulnerability,
             outcome: {"none", "excepted", "review"}, at: 0..MaxTime, sbom: Image]
Summary == [exact: Nat, scanned: Nat, sboms: Nat, gaps: Nat, total: Nat, at: 0..MaxTime]

EvidenceTypeOK ==
    /\ now \in 0..MaxTime
    /\ known \in [Image -> Findings]
    /\ request \in [event: {"pull_request", "push"}, base: Revision, head: Revision]
    /\ stage \in Stage
    /\ verdict \in Verdict
    /\ shard \in [Image -> Shard]
    /\ report \in [Image -> Report \cup {None}]
    /\ artifact \in [Image -> Evidence \cup {None}]
    /\ summary \in Summary \cup {None}
    /\ attempt \in 0..MaxAttempt
    /\ seen \in [Image -> SUBSET Findings]

Nothing == [i \in Image |-> None]
Off == [i \in Image |-> "off"]
Head == request.head
Exact == Subjects(Head.files)

Init ==
    /\ now = 0
    /\ known \in [Image -> Findings]
    /\ request \in [event: {"push"}, base: Revision, head: Revision]
    /\ request.base = request.head
    /\ stage = "idle" /\ verdict = "none" /\ attempt = 0
    /\ shard = Off /\ report = Nothing /\ artifact = Nothing /\ summary = None
    /\ seen = [i \in Image |-> {}]

\* A push, schedule or dispatch, or a pull request; the run in progress is cancelled.
Trigger(event, base, head) ==
    /\ event = "push" => base = head
    /\ request' = [event |-> event, base |-> base, head |-> head]
    /\ stage' = "inventory" /\ verdict' = "none" /\ attempt' = 1
    /\ shard' = Off /\ report' = Nothing /\ artifact' = Nothing /\ summary' = None
    /\ seen' = [i \in Image |-> {known[i]}]
    /\ UNCHANGED <<now, known>>

\* The tools, the workflow, the exception schema or an exception changed.
CriticalChange ==
    \/ Head.tooling # request.base.tooling
    \/ Head.exceptions # request.base.exceptions

FullScan == request.event # "pull_request" \/ CriticalChange

\* Exact subjects and gaps are those of the base: nothing new to scan.
Reusable == SameSurface(Inventory(request.base.files), Inventory(Head.files))

\* The inventory job: discovery, and for a pull request the comparison with its base.
Discover ==
    /\ stage = "inventory"
    /\ \/ /\ ~Untruthful(Head.files)
          /\ FullScan \/ ~Untruthful(request.base.files)
          /\ verdict' = IF FullScan \/ ~Reusable THEN "scan" ELSE "reuse"
       \/ verdict' = "failed"
    /\ stage' = "scan"
    /\ shard' = IF verdict' = "scan"
                THEN [i \in Image |-> IF i \in Exact THEN "queued" ELSE "off"]
                ELSE Off
    /\ UNCHANGED <<now, known, request, report, artifact, summary, attempt, seen>>

----------------------------------------------------------------------------
(* One shard: scan, verify, evaluate, bind an SBOM, upload                 *)

ShardEnds(i, state) == shard' = [shard EXCEPT ![i] = state]

\* Mutation: the digests of the report are not compared.
VerifyName(i, r) == TRUE

\* The report is about the digest that was asked for.
VerifyScanEvidence(i, r) == r.image = i

\* Trivy names what it was asked for; which digest it resolved is in the report.
Scan(i) ==
    /\ stage = "scan" /\ shard[i] = "queued"
    /\ Cardinality({j \in Image : shard[j] = "scanned"}) < MaxParallel
    /\ \E j \in Image :
          LET r == [image |-> j, found |-> known[j], at |-> now]
          IN  IF VerifyScanEvidence(i, r)
              THEN report' = [report EXCEPT ![i] = r] /\ ShardEnds(i, "scanned")
              ELSE UNCHANGED report /\ ShardEnds(i, "failed")
    /\ UNCHANGED <<now, known, request, stage, verdict, artifact, summary, attempt, seen>>

Observed(found) == {v \in Vulnerability : found[v] > 0}
Occurrences(found) == SumFunction(found)

\* Mutation: an expired exception is still applied.
ExceptionsUnlimited(i, observed, at) ==
    \A e \in Head.exceptions[i] : e.image = i /\ e.id \in observed

\* Every exception of the image is for its digest, alive, used and single.
ExceptionsValid(i, observed, at) ==
    \A e \in Head.exceptions[i] :
        /\ e.image = i
        /\ e.until > at
        /\ e.id \in observed
        /\ \A f \in Head.exceptions[i] : f.id = e.id => f = e

\* Mutation: whole entries where their identifiers belong.
Entries(i) == Head.exceptions[i]

Excepted(i) == {e.id : e \in Head.exceptions[i]}

Outcome(observed, excepted) ==
    CASE observed = {} -> "none"
      [] observed # {} /\ observed \subseteq excepted -> "excepted"
      [] OTHER -> "review"

\* All findings are counted, those with an exception too.
Decision(i, sbom) ==
    LET r == report[i]
        observed == Observed(r.found)
    IN  [image |-> i, found |-> r.found, excepted |-> Excepted(i),
         outcome |-> Outcome(observed, Excepted(i)), at |-> now, sbom |-> sbom]

\* The SBOM is converted from the report and has to name the same digest.
VerifySbom(i, sbom) == sbom = i

\* The report is evaluated against the exceptions, bound to its SBOM and uploaded.
Evaluate(i) ==
    /\ stage = "scan" /\ shard[i] = "scanned"
    /\ \E sbom \in Image :
          IF /\ report[i].at <= now
             /\ ExceptionsValid(i, Observed(report[i].found), now)
             /\ VerifySbom(i, sbom)
          THEN artifact' = [artifact EXCEPT ![i] = Decision(i, sbom)] /\ ShardEnds(i, "done")
          ELSE UNCHANGED artifact /\ ShardEnds(i, "failed")
    /\ report' = [report EXCEPT ![i] = None]
    /\ UNCHANGED <<now, known, request, stage, verdict, summary, attempt, seen>>

\* The registry, the scanner or the runner fails, or the job's time is up.
ShardFails(i) ==
    /\ stage = "scan" /\ shard[i] \in {"queued", "scanned"}
    /\ ShardEnds(i, "failed")
    /\ report' = [report EXCEPT ![i] = None]
    /\ UNCHANGED <<now, known, request, stage, verdict, artifact, summary, attempt, seen>>

----------------------------------------------------------------------------
(* The decision and the public check                                       *)

\* Mutation: artifacts are kept for good.
Uploaded(i) == artifact[i] # None

\* Evidence uploaded by any attempt of the run and not yet expired.
Kept(i) == artifact[i] # None /\ now < artifact[i].at + Retention

Evidences == {artifact[i] : i \in {j \in Image : Kept(j)}}

\* Decisions and SBOMs cover the discovered subjects, no fewer and no more.
Covered ==
    /\ {e.image : e \in Evidences} = Exact
    /\ {e.sbom : e \in Evidences} = Exact

Aggregate ==
    [exact |-> Cardinality(Exact), scanned |-> Cardinality({e.image : e \in Evidences}),
     sboms |-> Cardinality({e.sbom : e \in Evidences}),
     gaps |-> Cardinality(Inventory(Head.files).gaps),
     total |-> SumFunction([i \in {j \in Image : Kept(j)} |-> Occurrences(artifact[i].found)]),
     at |-> Max({e.at : e \in Evidences})]

ShardsEnded == \A i \in Image : shard[i] \in {"off", "done", "failed"}
ScanSucceeded == \A i \in Image : shard[i] \in {"off", "done"}

\* Mutation: without if: always() the job waits for a scan that succeeds.
DecideOnSuccess ==
    /\ stage = "scan" /\ ShardsEnded /\ ScanSucceeded /\ verdict # "failed"
    /\ stage' = "green"
    /\ summary' = IF verdict = "scan" /\ Covered THEN Aggregate ELSE None
    /\ UNCHANGED <<now, known, request, verdict, shard, report, artifact, attempt, seen>>

\* The decision job runs whatever happened before: green for a reuse or for fresh
\* evidence that could be aggregated, red otherwise or when it fails itself.
Decide ==
    /\ stage = "scan" /\ ShardsEnded
    /\ \/ /\ verdict = "reuse"
          /\ stage' = "green" /\ summary' = None
       \/ /\ verdict = "scan" /\ ScanSucceeded /\ Covered
          /\ stage' = "green" /\ summary' = Aggregate
       \/ stage' = "red" /\ summary' = None
    /\ UNCHANGED <<now, known, request, verdict, shard, report, artifact, attempt, seen>>

\* The public check carries the summary in its name.
Publish ==
    /\ stage = "green" /\ summary # None
    /\ stage' = "published"
    /\ UNCHANGED <<now, known, request, verdict, shard, report, artifact, summary, attempt, seen>>

Ended == stage \in {"red", "green", "published"}

\* A new attempt of the failed jobs, or of all jobs, on the same revision.
Rerun ==
    /\ Ended /\ attempt < MaxAttempt
    /\ attempt' = attempt + 1
    /\ summary' = None
    /\ \/ /\ stage = "red" /\ verdict = "scan"
          /\ stage' = "scan" /\ UNCHANGED verdict
          /\ shard' = [i \in Image |-> IF shard[i] = "failed" THEN "queued" ELSE shard[i]]
       \/ stage' = "inventory" /\ verdict' = "none" /\ shard' = Off
    /\ UNCHANGED <<now, known, request, report, artifact, seen>>

----------------------------------------------------------------------------
(* The environment                                                         *)

Tick == now < MaxTime /\ now' = now + 1 /\ UNCHANGED <<known, run, seen>>

\* The vulnerability database changes its mind about an image.
Disclose(i, found) ==
    /\ found # known[i]
    /\ known' = [known EXCEPT ![i] = found]
    /\ seen' = IF stage = "idle" THEN seen ELSE [seen EXCEPT ![i] = @ \cup {found}]
    /\ UNCHANGED <<now, run>>

Triggered ==
    \E event \in {"pull_request", "push"}, base, head \in Revision : Trigger(event, base, head)

Progress ==
    \/ Discover \/ Decide
    \/ \E i \in Image : Scan(i) \/ Evaluate(i) \/ ShardFails(i)

Next ==
    \/ Triggered \/ Progress \/ Publish \/ Rerun \/ Tick
    \/ \E i \in Image, found \in Findings : Disclose(i, found)

Spec == Init /\ [][Next]_vars

\* Every job ends: runners pick jobs up and each job has a timeout.
FairSpec == Spec /\ WF_vars(Progress)

----------------------------------------------------------------------------
(* Properties                                                              *)

\* What a summary leaves out of its revision is of the overlooked forms and nothing
\* else: every other exact image deployed was scanned in this run, every other place
\* counts as one gap, and no count is padded by anything not there.  "Cannot silently
\* disappear" (docs/runbooks/image-security.md:129-131) is thus not true of those forms.
SummaryCoversRevision ==
    summary # None =>
        /\ \A i \in ExactAccounted(Head.files) :
              artifact[i] # None /\ artifact[i].image = i /\ artifact[i].found \in seen[i]
        /\ summary.scanned = summary.exact /\ summary.sboms = summary.exact
        /\ summary.gaps = Cardinality(UnresolvedAccounted(Head.files))

\* The published total adds up, for each exact image, all that a scan of this very
\* image found at some time of the run: no exception, failed shard, other image's
\* report or earlier attempt makes it smaller.
TotalsAreOfThisRun ==
    summary # None =>
        \E f \in [Exact -> Findings] :
            /\ \A i \in Exact : f[i] \in seen[i]
            /\ summary.total = SumFunction([i \in Exact |-> Occurrences(f[i])])

\* However often jobs are run again, the evidence added up in one summary is less
\* than a retention period apart from the evaluation time it is published with.
SummaryIsNotMixedWithOldEvidence ==
    summary # None => \A i \in Exact : summary.at < artifact[i].at + Retention

\* Evidence that says every finding is excepted rests on exceptions of that image
\* that were alive when it was evaluated, in the revision of the run.
ExceptionsAreAlive ==
    \A i \in Image :
        artifact[i] # None /\ artifact[i].outcome = "excepted" =>
            \A v \in Observed(artifact[i].found) :
                \E e \in Head.exceptions[i] : e.id = v /\ e.image = i /\ e.until > artifact[i].at

\* Up to the overlooked forms, a green decision without a scan is about a revision that
\* deploys no exact image and has no unresolved source that its base does not have too,
\* under the same exceptions.
ReuseAddsNothing ==
    stage = "green" /\ verdict = "reuse" =>
        LET base == request.base
        IN  /\ ExactAccounted(Head.files) \subseteq Subjects(base.files)
            /\ \A s \in UnresolvedAccounted(Head.files) :
                  s \in UnresolvedAccounted(base.files) /\ Head.files[s].text = base.files[s].text
            /\ Head.exceptions = base.exceptions

\* Every run comes to a decision, also when its shards fail, unless new runs keep
\* cancelling it.
RunsAreDecided == []<>(stage = "idle" \/ Ended) \/ []<><<Triggered>>_vars
============================================================================
