----------------------------- MODULE MergeGate -----------------------------
(***************************************************************************)
(* How a change reaches main: the merge wrapper (hack/merge-pr.sh), the    *)
(* workflow that rebases open pull requests, CI and GitHub itself.         *)
(*                                                                         *)
(* Flux acts on whatever main holds, so the merge is the authorization.    *)
(* The wrapper decides from five reads of GitHub made one after the other, *)
(* while authors push, reviewers review, checks run, the workflow rebases  *)
(* and other pull requests land.                                           *)
(***************************************************************************)
EXTENDS Naturals, Sequences, FiniteSets

CONSTANTS
    Agent,        \* the two paired accounts
    Bot,          \* github-actions[bot]
    Pr,           \* pull requests, by number
    Author,       \* who opened each of them
    Clash,        \* sets of pull requests whose combination CI would reject
    Verdict,      \* review states in use
    MaxHead,      \* bound: heads a pull request may have
    MaxReview,    \* bound: reviews a pull request may get
    ReviewPage,   \* reviews on the first page GitHub returns
    SharedSecond  \* may two events carry the same timestamp (in seconds)?

ASSUME Accounts == Bot \notin Agent
ASSUME Numbers == Pr \subseteq Nat \ {0}
ASSUME Bounds == MaxHead \in Nat \ {0} /\ MaxReview \in Nat /\ ReviewPage \in Nat \ {0}
ASSUME Verdicts == Verdict \subseteq {"APPROVED", "CHANGES_REQUESTED", "COMMENTED"}
ASSUME ChangesClash == {} \notin Clash
ASSUME SharedSecondIsBoolean == SharedSecond \in BOOLEAN

VARIABLES
    strict,    \* repository setting: GitHub merges only an up-to-date branch
    now,       \* clock, in seconds; only times of one pull request are compared
    landed,    \* pull requests merged into main
    head,      \* current head of each pull request
    base,      \* what main held when that head was cut
    solo,      \* the branch is one commit, by the pull request's author
    pushedAt,  \* when a force-push installed that head (0: none did)
    reviews,   \* reviews of each pull request, oldest first
    checks,    \* check runs of that head
    run,       \* the wrapper run on each pull request
    pushes,    \* pushes to main the rebase workflow has not handled
    rebase,    \* the rebase workflow
    raced      \* history variable: a merge whose run read an older main

branch == <<head, base, solo, pushedAt, reviews, now>>
vars == <<strict, now, landed, head, base, solo, pushedAt, reviews, checks,
          run, pushes, rebase, raced>>

Oid == 1..MaxHead
Time == Nat
Review == [by: Agent, verdict: Verdict, commit: Oid, seen: Oid, at: Time]
CheckRun == [status: {"none", "running", "green", "red"}, tree: SUBSET Pr]
Unchecked == [status |-> "none", tree |-> {}]

\* What a wrapper run holds in its shell variables.  `known` and `main` only
\* mark, for the properties, the moment of its first read.
Run == [pc: {"idle", "viewed", "reviews", "fresh", "merge"}, head: Oid,
        clean: BOOLEAN, approved: BOOLEAN, solo: BOOLEAN,
        latest: SUBSET Review, known: Nat, main: SUBSET Pr]
NoRun == [pc |-> "idle", head |-> 1, clean |-> FALSE, approved |-> FALSE,
          solo |-> FALSE, latest |-> {}, known |-> 0, main |-> {}]

NoRebase == [pr |-> 0, head |-> 1]

TypeOK ==
    /\ strict \in BOOLEAN
    /\ now \in [Pr -> Time]
    /\ landed \subseteq Pr
    /\ head \in [Pr -> Oid]
    /\ base \in [Pr -> SUBSET Pr]
    /\ solo \in [Pr -> BOOLEAN]
    /\ pushedAt \in [Pr -> Time]
    /\ reviews \in [Pr -> Seq(Review)]
    /\ checks \in [Pr -> CheckRun]
    /\ run \in [Pr -> Run]
    /\ pushes \in BOOLEAN
    /\ rebase \in [pr: Nat, head: Oid]
    /\ raced \in BOOLEAN

Init ==
    /\ strict \in BOOLEAN
    /\ now = [p \in Pr |-> 1]
    /\ landed = {}
    /\ head = [p \in Pr |-> 1]
    /\ base = [p \in Pr |-> {}]
    /\ solo = [p \in Pr |-> TRUE]
    /\ pushedAt = [p \in Pr |-> 0]
    /\ reviews = [p \in Pr |-> << >>]
    /\ checks = [p \in Pr |-> Unchecked]
    /\ run = [p \in Pr |-> NoRun]
    /\ pushes = FALSE
    /\ rebase = NoRebase
    /\ raced = FALSE

----------------------------------------------------------------------------
(* GitHub, the authors and the reviewers                                   *)

Open(p) == p \notin landed
Behind(p) == base[p] # landed

\* Events are stamped with the clock, which has ticked since the last event
\* unless two of them may share a second.
Tick(p) ==
    \/ now' = [now EXCEPT ![p] = @ + 1]
    \/ SharedSecond /\ UNCHANGED now

\* A new head, not checked yet.  A force-push leaves an event behind; GitHub
\* may also rewrite the commit of the reviews already there, though never the
\* time they were submitted.
NewHead(p, forced) ==
    LET h == head[p] + 1
        Remapped == [i \in DOMAIN reviews[p] |-> [reviews[p][i] EXCEPT !.commit = h]]
    IN  /\ h \in Oid
        /\ head' = [head EXCEPT ![p] = h]
        /\ pushedAt' = [pushedAt EXCEPT ![p] = IF forced THEN now[p] ELSE 0]
        /\ reviews' \in {reviews} \cup
              IF forced THEN {[reviews EXCEPT ![p] = Remapped]} ELSE {}
        /\ checks' = [checks EXCEPT ![p] = Unchecked]
        /\ Tick(p)

\* The author, or somebody else with write access, pushes to the branch.
Push(p, forced, upToDate, alone) ==
    /\ Open(p)
    /\ NewHead(p, forced)
    /\ base' = [base EXCEPT ![p] = IF upToDate THEN landed ELSE @]
    /\ Author[p] # Bot => alone
    /\ solo' = [solo EXCEPT ![p] = alone]
    /\ UNCHANGED <<strict, landed, run, pushes, rebase, raced>>

\* An agent reviews the current head; GitHub lets nobody review their own.
SubmitReview(p, agent, verdict) ==
    /\ Open(p)
    /\ agent # Author[p]
    /\ Len(reviews[p]) < MaxReview
    /\ reviews' = [reviews EXCEPT ![p] =
                     Append(@, [by |-> agent, verdict |-> verdict,
                                commit |-> head[p], seen |-> head[p], at |-> now[p]])]
    /\ Tick(p)
    /\ UNCHANGED <<strict, landed, head, base, solo, pushedAt, checks, run,
                   pushes, rebase, raced>>

\* CI runs on the merge of a head with main as it is when the run is triggered.
Valid(tree) == \A c \in Clash : ~(c \subseteq tree)

StartChecks(p) ==
    /\ Open(p)
    /\ checks[p].status = "none"
    /\ checks' = [checks EXCEPT ![p] = [status |-> "running", tree |-> landed \cup {p}]]
    /\ UNCHANGED <<strict, landed, branch, run, pushes, rebase, raced>>

FinishChecks(p) ==
    /\ checks[p].status = "running"
    /\ checks' = [checks EXCEPT ![p].status =
                    IF Valid(checks[p].tree) THEN "green" ELSE "red"]
    /\ UNCHANGED <<strict, landed, branch, run, pushes, rebase, raced>>

\* reviewDecision counts each account's last review that is not a comment.
Opinions(p, agent, n) ==
    {i \in 1..n : reviews[p][i].by = agent /\ reviews[p][i].verdict # "COMMENTED"}
Rejects(p, agent, n) ==
    \E i \in Opinions(p, agent, n) :
        /\ \A j \in Opinions(p, agent, n) : j <= i
        /\ reviews[p][i].verdict = "CHANGES_REQUESTED"
ReviewDecision(p) ==
    LET n == Len(reviews[p])
    IN  /\ \E i \in 1..n : reviews[p][i].verdict = "APPROVED"
        /\ \A agent \in Agent : ~Rejects(p, agent, n)

----------------------------------------------------------------------------
(* hack/merge-pr.sh                                                        *)

RequiredReviewers(author) == IF author = Bot THEN Agent ELSE Agent \ {author}

MayMerge(login, author) ==
    /\ login \in Agent
    /\ author \in Agent \cup {Bot}
    /\ author # Bot => login = author

\* Mutation: the aggregate decision is not consulted.
DecisionIgnored(p) == TRUE

DecisionApproved(p) == ReviewDecision(p)

\* gh pr view: author, head, state and merge state, all of one moment.
ViewPr(p, login) ==
    /\ run[p].pc = "idle"
    /\ MayMerge(login, Author[p])
    /\ Open(p)
    /\ run' = [run EXCEPT ![p] =
                 [NoRun EXCEPT !.pc = "viewed", !.head = head[p],
                               !.clean = ~Behind(p),
                               !.approved = DecisionApproved(p),
                               !.solo = solo[p],
                               !.known = Len(reviews[p]),
                               !.main = landed]]
    /\ UNCHANGED <<strict, landed, branch, checks, pushes, rebase, raced>>

\* The last review of each required reviewer, of those on the first page.
\* A reviewer without one is refused in JudgeReviews.
Latest(p) ==
    LET Page == {i \in DOMAIN reviews[p] : i <= ReviewPage}
        By(agent) == {i \in Page : reviews[p][i].by = agent}
    IN  {reviews[p][i] : i \in {j \in Page :
            /\ reviews[p][j].by \in RequiredReviewers(Author[p])
            /\ \A k \in By(reviews[p][j].by) : k <= j}}

ReadReviews(p) ==
    /\ run[p].pc = "viewed"
    /\ run' = [run EXCEPT ![p].pc = "reviews", ![p].latest = Latest(p)]
    /\ UNCHANGED <<strict, landed, branch, checks, pushes, rebase, raced>>

\* Mutation: the commit of the review is trusted, whenever it was submitted.
AnyTime(r, p) == TRUE

SubmittedAfterPush(r, p) == pushedAt[p] # 0 => r.at >= pushedAt[p]

\* The issue events give the force-push that installed the head; with them
\* every required reviewer's last review is judged, then the decision.  What
\* GitHub answers about a head that was replaced since is left open here and
\* in JudgeChecks: such a head cannot be merged any more.
JudgeReviews(p) ==
    /\ run[p].pc = "reviews"
    /\ \A agent \in RequiredReviewers(Author[p]) :
          \E r \in run[p].latest :
             /\ r.by = agent
             /\ r.verdict = "APPROVED"
             /\ r.commit = run[p].head
             /\ head[p] = run[p].head => SubmittedAfterPush(r, p)
    /\ run[p].approved
    /\ run' = [run EXCEPT ![p].pc = "fresh"]
    /\ UNCHANGED <<strict, landed, branch, checks, pushes, rebase, raced>>

\* Mutation: mergeStateStatus is not looked at.
BehindAllowed(p) == TRUE

Clean(p) == run[p].clean

\* Mutation: a check run that has not completed is no bad check run.
NoneFailed(p) == checks[p].status # "red"

AllPassed(p) == checks[p].status = "green"

\* Mutation: the number and author of the automation's commits are not checked.
AnyCommits(p) == TRUE

OneBotCommit(p) == Author[p] = Bot => run[p].solo

\* Check runs of the head, then the merge state read at the very start, then
\* the shape of an automation branch.
JudgeChecks(p) ==
    /\ run[p].pc = "fresh"
    /\ head[p] = run[p].head => AllPassed(p)
    /\ Clean(p)
    /\ OneBotCommit(p)
    /\ run' = [run EXCEPT ![p].pc = "merge"]
    /\ UNCHANGED <<strict, landed, branch, checks, pushes, rebase, raced>>

\* Mutation: the merge is not bound to the head that was examined.
AnyHead(p) == TRUE

MatchHeadCommit(p) == head[p] = run[p].head

\* gh pr merge.  Of GitHub's own rules only the up-to-date one is relied on.
Merge(p) ==
    /\ run[p].pc = "merge"
    /\ Open(p)
    /\ MatchHeadCommit(p)
    /\ strict => ~Behind(p)
    /\ landed' = landed \cup {p}
    /\ pushes' = TRUE
    /\ raced' = (raced \/ landed # run[p].main)
    /\ run' = [run EXCEPT ![p] = NoRun]
    /\ UNCHANGED <<strict, branch, checks, rebase>>

\* A refusal, an API error or an interrupt.
Fail(p) ==
    /\ run[p].pc # "idle"
    /\ run' = [run EXCEPT ![p] = NoRun]
    /\ UNCHANGED <<strict, landed, branch, checks, pushes, rebase, raced>>

----------------------------------------------------------------------------
(* .github/workflows/rebase-open-pull-requests.yaml                        *)

Candidates == {p \in Pr : Open(p) /\ Behind(p)}

\* A push to main starts a run, one at a time; pushes that come meanwhile
\* share the next run.  It picks the lowest-numbered branch that is behind.
StartRebase ==
    /\ pushes
    /\ rebase = NoRebase
    /\ pushes' = FALSE
    /\ IF Candidates = {}
         THEN UNCHANGED rebase
         ELSE \E p \in Candidates :
                 /\ \A q \in Candidates : p <= q
                 /\ rebase' = [pr |-> p, head |-> head[p]]
    /\ UNCHANGED <<strict, landed, branch, checks, run, raced>>

\* updatePullRequestBranch with updateMethod REBASE.
ApplyRebase ==
    /\ rebase # NoRebase
    /\ LET p == rebase.pr
       IN  /\ Open(p)
           /\ head[p] = rebase.head
           /\ NewHead(p, TRUE)
           /\ base' = [base EXCEPT ![p] = landed]
    /\ rebase' = NoRebase
    /\ UNCHANGED <<strict, landed, solo, run, pushes, raced>>

\* The head moved, the rebase conflicts, or the job dies.
FailRebase ==
    /\ rebase # NoRebase
    /\ rebase' = NoRebase
    /\ UNCHANGED <<strict, landed, branch, checks, run, pushes, raced>>

----------------------------------------------------------------------------

Wrapper(p) ==
    \/ \E login \in Agent : ViewPr(p, login)
    \/ ReadReviews(p) \/ JudgeReviews(p) \/ JudgeChecks(p)
    \/ Merge(p) \/ Fail(p)

Next ==
    \/ \E p \in Pr : Wrapper(p)
    \/ \E p \in Pr, forced, upToDate, alone \in BOOLEAN : Push(p, forced, upToDate, alone)
    \/ \E p \in Pr, a \in Agent, v \in Verdict : SubmitReview(p, a, v)
    \/ \E p \in Pr : StartChecks(p) \/ FinishChecks(p)
    \/ StartRebase \/ ApplyRebase \/ FailRebase

Spec == Init /\ [][Next]_vars

----------------------------------------------------------------------------
(* Properties                                                              *)

\* Whatever is pushed, rebased or reviewed while the wrapper reads, a merged
\* head is one that every required reviewer approved while looking at it.
MergedHeadWasReviewed ==
    \A p \in landed : \A agent \in RequiredReviewers(Author[p]) :
        \E i \in DOMAIN reviews[p] :
           /\ reviews[p][i].by = agent
           /\ reviews[p][i].verdict = "APPROVED"
           /\ reviews[p][i].seen = head[p]

\* A rejection that stood when the wrapper started is never merged over, even
\* when the page of reviews it reads ends before that rejection.
RejectionHonoured ==
    [][\A p \in landed' \ landed : \A agent \in RequiredReviewers(Author[p]) :
          ~Rejects(p, agent, run[p].known)]_vars

\* What an automation pull request lands is the automation's one commit.
AutomationLandsAlone == \A p \in landed : Author[p] = Bot => solo[p]

\* Main comes to hold a combination of changes that CI would have rejected
\* only if some change landed between a run's first read and its merge, and
\* never when GitHub itself insists on up-to-date branches.
OnlyRacesBreakMain == Valid(landed) \/ (raced /\ ~strict)

============================================================================
