-------------------------- MODULE MergeGateProofs --------------------------
(***************************************************************************)
(* What hack/merge-pr.sh guarantees of a merged head, for any accounts,    *)
(* any pull requests and any number of pushes and reviews.                 *)
(***************************************************************************)
EXTENDS MergeGate, SequenceTheorems, TLAPS

----------------------------------------------------------------------------
(* Types                                                                   *)

\* Reviews moved to another head are reviews.
LEMMA RemappedIsSeq ==
    ASSUME NEW s \in Seq(Review), NEW h \in Oid
    PROVE  [i \in DOMAIN s |-> [s[i] EXCEPT !.commit = h]] \in Seq(Review)
<1>1. DOMAIN s = 1..Len(s) /\ Len(s) \in Nat
  BY LenProperties
<1>2. \A i \in 1..Len(s) : [s[i] EXCEPT !.commit = h] \in Review
  <2> TAKE i \in 1..Len(s)
  <2>1. s[i] \in Review
    BY <1>1, ElementOfSeq
  <2> QED
    BY <2>1 DEF Review
<1> QED
  BY <1>1, <1>2, IsASeq

\* Clocks show times.
LEMMA TickType ==
    ASSUME now \in [Pr -> Time], NEW p \in Pr, Tick(p)
    PROVE  now' \in [Pr -> Time]
<1>1. CASE now' = [now EXCEPT ![p] = now[p] + 1]
  BY <1>1 DEF Time
<1>2. CASE now' = now
  BY <1>2
<1> QED
  BY <1>1, <1>2 DEF Tick

\* A new head, whoever pushes it, keeps the branch well typed.
LEMMA NewHeadType ==
    ASSUME TypeOK, NEW p \in Pr, NEW forced \in BOOLEAN, NewHead(p, forced)
    PROVE  /\ head' \in [Pr -> Oid]
           /\ pushedAt' \in [Pr -> Time]
           /\ reviews' \in [Pr -> Seq(Review)]
           /\ checks' \in [Pr -> CheckRun]
           /\ now' \in [Pr -> Time]
           /\ head'[p] = head[p] + 1
<1> DEFINE h == head[p] + 1
           Remapped == [i \in DOMAIN reviews[p] |-> [reviews[p][i] EXCEPT !.commit = h]]
<1>1. h \in Oid
  BY DEF NewHead
<1>2. Remapped \in Seq(Review)
  BY <1>1, RemappedIsSeq DEF TypeOK
<1>3. reviews' \in {reviews, [reviews EXCEPT ![p] = Remapped]}
  BY DEF NewHead
<1>4. reviews' \in [Pr -> Seq(Review)]
  BY <1>2, <1>3 DEF TypeOK
<1>5. now' \in [Pr -> Time]
  BY TickType DEF NewHead, TypeOK
<1>6. checks' \in [Pr -> CheckRun]
  <2>1. checks' = [checks EXCEPT ![p] = Unchecked]
    BY DEF NewHead
  <2>2. Unchecked \in CheckRun
    BY DEF CheckRun, Unchecked
  <2> QED
    BY <2>1, <2>2 DEF TypeOK
<1>7. head' = [head EXCEPT ![p] = h]
  BY DEF NewHead
<1>8. head' \in [Pr -> Oid] /\ head'[p] = h
  BY <1>1, <1>7 DEF TypeOK
<1>9. pushedAt' \in [Pr -> Time]
  <2>1. pushedAt' = [pushedAt EXCEPT ![p] = IF forced THEN now[p] ELSE 0]
    BY DEF NewHead
  <2> QED
    BY <2>1 DEF TypeOK, Time
<1> QED
  BY <1>4, <1>5, <1>6, <1>8, <1>9

\* A wrapper run that only moves on to its next step stays a run.
LEMMA NextStepOfRun ==
    ASSUME run \in [Pr -> Run], NEW p \in Pr, NEW step \in {"fresh", "merge"},
           run' = [run EXCEPT ![p].pc = step]
    PROVE  run' \in [Pr -> Run]
<1>1. run[p] \in Run
  OBVIOUS
<1>2. [run[p] EXCEPT !.pc = step] \in Run
  BY <1>1 DEF Run
<1> QED
  BY <1>2

\* Type correctness, with the rebase workflow working on a real pull request.
Typed == TypeOK /\ (rebase # NoRebase => rebase.pr \in Pr)

\* Every step keeps the types,
LEMMA TypedStep == Typed /\ [Next]_vars => Typed'
<1> SUFFICES ASSUME Typed, [Next]_vars PROVE Typed'
  OBVIOUS
<1> USE Bounds
<1>t. TypeOK
  BY DEF Typed
<1>1. ASSUME NEW p \in Pr, NEW login \in Agent, ViewPr(p, login) PROVE Typed'
  <2>1. [NoRun EXCEPT !.pc = "viewed", !.head = head[p], !.clean = ~Behind(p),
                      !.approved = DecisionApproved(p), !.solo = solo[p],
                      !.known = Len(reviews[p]), !.main = landed] \in Run
    <3>1. Len(reviews[p]) \in Nat
      BY <1>t, LenProperties DEF TypeOK
    <3>2. ReviewDecision(p) \in BOOLEAN
      BY DEF ReviewDecision
    <3> QED
      BY <1>t, <3>1, <3>2 DEF TypeOK, NoRun, Run, Behind, DecisionApproved, Oid
  <2> QED
    BY <1>1, <1>t, <2>1 DEF ViewPr, Typed, TypeOK, branch
<1>2. ASSUME NEW p \in Pr, ReadReviews(p) PROVE Typed'
  <2>1. \A i \in DOMAIN reviews[p] : reviews[p][i] \in Review
    BY <1>t, ElementOfSeq, LenProperties DEF TypeOK
  <2>2. Latest(p) \subseteq Review
    BY <2>1 DEF Latest
  <2>3. [run[p] EXCEPT !.pc = "reviews", !.latest = Latest(p)] \in Run
    <3>1. run[p] \in Run
      BY <1>t DEF TypeOK
    <3> QED
      BY <3>1, <2>2 DEF Run
  <2>4. run' = [run EXCEPT ![p] = [run[p] EXCEPT !.pc = "reviews", !.latest = Latest(p)]]
    BY <1>2, <1>t DEF ReadReviews, TypeOK
  <2> QED
    BY <1>2, <1>t, <2>3, <2>4 DEF ReadReviews, Typed, TypeOK, branch
<1>3. ASSUME NEW p \in Pr, JudgeReviews(p) PROVE Typed'
  <2>1. run' = [run EXCEPT ![p].pc = "fresh"]
    BY <1>3 DEF JudgeReviews
  <2>2. run' \in [Pr -> Run]
    BY <1>t, <2>1, NextStepOfRun DEF TypeOK
  <2>3. UNCHANGED <<strict, landed, branch, checks, pushes, rebase, raced>>
    BY <1>3 DEF JudgeReviews
  <2> QED
    BY <1>t, <2>2, <2>3 DEF Typed, TypeOK, branch
<1>4. ASSUME NEW p \in Pr, JudgeChecks(p) PROVE Typed'
  <2>1. run' = [run EXCEPT ![p].pc = "merge"]
    BY <1>4 DEF JudgeChecks
  <2>2. run' \in [Pr -> Run]
    BY <1>t, <2>1, NextStepOfRun DEF TypeOK
  <2>3. UNCHANGED <<strict, landed, branch, checks, pushes, rebase, raced>>
    BY <1>4 DEF JudgeChecks
  <2> QED
    BY <1>t, <2>2, <2>3 DEF Typed, TypeOK, branch
<1>n. NoRun \in Run
  BY DEF NoRun, Run, Oid
<1>5. ASSUME NEW p \in Pr, Merge(p) PROVE Typed'
  BY <1>5, <1>t, <1>n DEF Merge, Typed, TypeOK, branch
<1>6. ASSUME NEW p \in Pr, Fail(p) PROVE Typed'
  BY <1>6, <1>t, <1>n DEF Fail, Typed, TypeOK, branch
<1>7. ASSUME NEW p \in Pr, NEW forced \in BOOLEAN, NEW upToDate \in BOOLEAN,
             NEW alone \in BOOLEAN, Push(p, forced, upToDate, alone)
      PROVE  Typed'
  <2>1. NewHead(p, forced)
    BY <1>7 DEF Push
  <2> QED
    BY <1>7, <1>t, <2>1, NewHeadType DEF Push, Typed, TypeOK
<1>8. ASSUME NEW p \in Pr, NEW a \in Agent, NEW v \in Verdict, SubmitReview(p, a, v)
      PROVE  Typed'
  <2>1. [by |-> a, verdict |-> v, commit |-> head[p], seen |-> head[p], at |-> now[p]]
           \in Review
    BY <1>t DEF TypeOK, Review
  <2>2. reviews' \in [Pr -> Seq(Review)]
    BY <1>8, <1>t, <2>1, AppendProperties DEF SubmitReview, TypeOK
  <2>3. now' \in [Pr -> Time]
    BY <1>8, <1>t, TickType DEF SubmitReview, TypeOK
  <2>4. UNCHANGED <<strict, landed, head, base, solo, pushedAt, checks, run,
                    pushes, rebase, raced>>
    BY <1>8 DEF SubmitReview
  <2> QED
    BY <1>t, <2>2, <2>3, <2>4 DEF Typed, TypeOK
<1>9. ASSUME NEW p \in Pr, StartChecks(p) \/ FinishChecks(p) PROVE Typed'
  <2>1. checks' \in [Pr -> CheckRun]
    <3>1. landed \subseteq Pr /\ checks \in [Pr -> CheckRun]
      BY <1>t DEF TypeOK
    <3>2. CASE StartChecks(p)
      <4>1. [status |-> "running", tree |-> landed \cup {p}] \in CheckRun
        BY <3>1 DEF CheckRun
      <4> QED
        BY <3>1, <3>2, <4>1 DEF StartChecks
    <3>3. CASE FinishChecks(p)
      <4> DEFINE verdict == IF Valid(checks[p].tree) THEN "green" ELSE "red"
      <4>1. checks[p] \in CheckRun /\ verdict \in {"green", "red"}
        BY <3>1
      <4> HIDE DEF verdict
      <4>2. [checks[p] EXCEPT !.status = verdict] \in CheckRun
        BY <4>1 DEF CheckRun
      <4>3. checks' = [checks EXCEPT ![p] = [checks[p] EXCEPT !.status = verdict]]
        BY <3>1, <3>3 DEF FinishChecks, verdict
      <4> QED
        BY <3>1, <4>2, <4>3
    <3> QED
      BY <1>9, <3>2, <3>3
  <2>2. UNCHANGED <<strict, landed, branch, run, pushes, rebase, raced>>
    BY <1>9 DEF StartChecks, FinishChecks
  <2> QED
    BY <1>t, <2>1, <2>2 DEF Typed, TypeOK, branch
<1>10. CASE StartRebase
  <2>1. rebase' = rebase \/ \E p \in Pr : rebase' = [pr |-> p, head |-> head[p]]
    BY <1>10 DEF StartRebase, Candidates
  <2>2. rebase' \in [pr: Nat, head: Oid] /\ (rebase' # NoRebase => rebase'.pr \in Pr)
    BY <1>t, <2>1, Numbers DEF Typed, TypeOK
  <2>3. pushes' \in BOOLEAN /\ UNCHANGED <<strict, landed, branch, checks, run, raced>>
    BY <1>10 DEF StartRebase
  <2> QED
    BY <1>t, <2>2, <2>3 DEF Typed, TypeOK, branch
<1>r. NoRebase \in [pr: Nat, head: Oid]
  BY DEF NoRebase, Oid
<1>11. CASE ApplyRebase
  <2>1. rebase.pr \in Pr /\ NewHead(rebase.pr, TRUE)
    BY <1>11 DEF ApplyRebase, Typed
  <2> QED
    BY <1>11, <1>t, <1>r, <2>1, NewHeadType DEF ApplyRebase, Typed, TypeOK
<1>12. CASE FailRebase
  BY <1>12, <1>t, <1>r DEF FailRebase, Typed, TypeOK, branch
<1>13. CASE UNCHANGED vars
  BY <1>13, <1>t DEF vars, Typed, TypeOK
<1> QED
  BY <1>1, <1>2, <1>3, <1>4, <1>5, <1>6, <1>7, <1>8, <1>9, <1>10, <1>11, <1>12,
     <1>13 DEF Next, Wrapper

\* which hold initially.
LEMMA TypedInit == Init => Typed
<1> SUFFICES ASSUME Init PROVE Typed
  OBVIOUS
<1> USE Bounds
<1>1. 1 \in Oid /\ << >> \in Seq(Review)
  BY EmptySeq DEF Oid
<1> QED
  BY <1>1 DEF Init, Typed, TypeOK, Time, CheckRun, Unchecked, NoRun, Run, NoRebase

\* The state of GitHub, of the wrapper runs and of the rebase workflow keeps
\* its shape, whatever happens in which order.
THEOREM GateTypeCorrect == Spec => []TypeOK
<1>1. Typed => TypeOK
  BY DEF Typed
<1> QED
  BY TypedInit, TypedStep, <1>1, PTL DEF Spec

----------------------------------------------------------------------------
(* Reviews                                                                 *)

\* Reviews only grow: what account gave which verdict on which head, and when,
\* never changes, whatever GitHub does to the commit of a review.
SameReviews(p) ==
    /\ Len(reviews[p]) <= Len(reviews'[p])
    /\ \A i \in 1..Len(reviews[p]) :
          /\ reviews'[p][i].by = reviews[p][i].by
          /\ reviews'[p][i].verdict = reviews[p][i].verdict
          /\ reviews'[p][i].seen = reviews[p][i].seen
          /\ reviews'[p][i].at = reviews[p][i].at

\* Each review of a request is one.
LEMMA ReviewsType ==
    ASSUME TypeOK, NEW p \in Pr
    PROVE  /\ DOMAIN reviews[p] = 1..Len(reviews[p])
           /\ Len(reviews[p]) \in Nat
           /\ \A i \in 1..Len(reviews[p]) : reviews[p][i] \in Review
BY LenProperties, ElementOfSeq DEF TypeOK

\* A new head keeps all reviews, at their commit or at the new head.
LEMMA NewHeadReviews ==
    ASSUME TypeOK, NEW p \in Pr, NEW forced \in BOOLEAN, NewHead(p, forced)
    PROVE  /\ SameReviews(p)
           /\ Len(reviews'[p]) = Len(reviews[p])
           /\ \A i \in 1..Len(reviews[p]) :
                 \/ reviews'[p][i].commit = reviews[p][i].commit
                 \/ forced /\ reviews'[p][i].commit = head'[p]
<1> DEFINE s == reviews[p]
           Remapped == [i \in DOMAIN s |-> [s[i] EXCEPT !.commit = head[p] + 1]]
<1>1. /\ DOMAIN s = 1..Len(s)
      /\ Len(s) \in Nat
      /\ \A i \in 1..Len(s) : s[i] \in Review
  BY ReviewsType
<1>2. head'[p] = head[p] + 1
  BY NewHeadType
<1>3. reviews \in [Pr -> Seq(Review)]
  BY DEF TypeOK
<1>4. reviews'[p] = s \/ (forced /\ reviews'[p] = Remapped)
  BY <1>3 DEF NewHead
<1>5. CASE reviews'[p] = s
  BY <1>1, <1>5 DEF SameReviews
<1>6. CASE forced /\ reviews'[p] = Remapped
  <2>1. Len(Remapped) = Len(s)
    <3>1. head[p] + 1 \in Oid
      BY DEF NewHead
    <3>2. s \in Seq(Review)
      BY <1>3
    <3>3. Remapped \in Seq(Review)
      BY <3>1, <3>2, RemappedIsSeq
    <3>4. DOMAIN Remapped = 1..Len(Remapped) /\ Len(Remapped) \in Nat
      BY <3>3, LenProperties
    <3>5. DOMAIN Remapped = 1..Len(s)
      BY <1>1
    <3> QED
      BY <1>1, <3>4, <3>5
  <2>2. \A i \in 1..Len(s) : /\ Remapped[i].by = s[i].by
                             /\ Remapped[i].verdict = s[i].verdict
                             /\ Remapped[i].seen = s[i].seen
                             /\ Remapped[i].at = s[i].at
                             /\ Remapped[i].commit = head[p] + 1
    BY <1>1 DEF Review
  <2> QED
    BY <1>1, <1>2, <1>6, <2>1, <2>2 DEF SameReviews
<1> QED
  BY <1>4, <1>5, <1>6

\* Every required reviewer approved the current head while looking at it.
Approved(p) ==
    \A agent \in RequiredReviewers(Author[p]) : \E i \in 1..Len(reviews[p]) :
        /\ reviews[p][i].by = agent
        /\ reviews[p][i].verdict = "APPROVED"
        /\ reviews[p][i].seen = head[p]

\* A review that names the current head without having seen it was submitted
\* before the force-push that installed this head.
Dated(p) ==
    /\ pushedAt[p] < now[p]
    /\ \A i \in 1..Len(reviews[p]) :
          /\ reviews[p][i].commit <= head[p]
          /\ reviews[p][i].seen <= head[p]
          /\ reviews[p][i].at < now[p]
          /\ (reviews[p][i].commit = head[p] /\ reviews[p][i].seen # head[p])
                => reviews[p][i].at < pushedAt[p]

\* What a wrapper run knows is true of the head it works on, while that is
\* still the head.
Informed(p) ==
    /\ run[p].pc # "idle" => run[p].head <= head[p]
    /\ run[p].pc = "reviews" /\ run[p].head = head[p] =>
          \A r \in run[p].latest : \E i \in 1..Len(reviews[p]) : reviews[p][i] = r
    /\ run[p].pc \in {"fresh", "merge"} /\ run[p].head = head[p] => Approved(p)

Reviewed(p) == Dated(p) /\ Informed(p) /\ (p \in landed => Approved(p))

\* A step that leaves a request alone leaves its review facts alone.
LEMMA FrameReviewed ==
    ASSUME NEW p \in Pr, Reviewed(p),
           head'[p] = head[p], reviews'[p] = reviews[p],
           pushedAt'[p] = pushedAt[p], now'[p] = now[p], run'[p] = run[p],
           p \in landed' => p \in landed
    PROVE  Reviewed(p)'
BY DEF Reviewed, Dated, Informed, Approved, RequiredReviewers

\* A push makes no review look newer than it is.
LEMMA NewHeadReviewed ==
    ASSUME TypeOK, ~SharedSecond, NEW p \in Pr, NEW forced \in BOOLEAN, Reviewed(p),
           Open(p), NewHead(p, forced), UNCHANGED <<run, landed>>
    PROVE  \A q \in Pr : Reviewed(q) => Reviewed(q)'
<1>1. ASSUME NEW q \in Pr \ {p}, Reviewed(q) PROVE Reviewed(q)'
  <2>1. head'[q] = head[q] /\ pushedAt'[q] = pushedAt[q] /\ now'[q] = now[q]
    BY <1>1 DEF NewHead, Tick, TypeOK
  <2>2. reviews'[q] = reviews[q]
    BY <1>1 DEF NewHead, TypeOK
  <2> QED
    BY <1>1, <2>1, <2>2, FrameReviewed
<1>2. Reviewed(p)'
  <2>1. head[p] \in Nat /\ head'[p] = head[p] + 1
    BY NewHeadType DEF TypeOK, Oid
  <2>2. now'[p] = now[p] + 1 /\ now[p] \in Nat
    BY DEF NewHead, Tick, TypeOK, Time
  <2>3. pushedAt'[p] = IF forced THEN now[p] ELSE 0
    BY DEF NewHead, TypeOK
  <2>4. /\ SameReviews(p)
        /\ Len(reviews'[p]) = Len(reviews[p])
        /\ \A i \in 1..Len(reviews[p]) :
              \/ reviews'[p][i].commit = reviews[p][i].commit
              \/ forced /\ reviews'[p][i].commit = head'[p]
    BY NewHeadReviews
  <2>5. \A i \in 1..Len(reviews[p]) : reviews[p][i] \in Review
    BY ReviewsType
  <2>6. \A i \in 1..Len(reviews[p]) : /\ reviews[p][i].at \in Nat
                                      /\ reviews[p][i].seen \in Nat
                                      /\ reviews[p][i].commit \in Nat
    BY <2>5 DEF Review, Oid, Time
  <2>7. Dated(p)'
    <3>1. pushedAt'[p] < now'[p]
      BY <2>2, <2>3
    <3>2. ASSUME NEW i \in 1..Len(reviews'[p])
          PROVE  /\ reviews'[p][i].commit <= head'[p]
                 /\ reviews'[p][i].seen <= head'[p]
                 /\ reviews'[p][i].at < now'[p]
                 /\ (reviews'[p][i].commit = head'[p] /\ reviews'[p][i].seen # head'[p])
                       => reviews'[p][i].at < pushedAt'[p]
      <4>1. i \in 1..Len(reviews[p])
        BY <2>4
      <4>2. /\ reviews[p][i].commit <= head[p]
            /\ reviews[p][i].seen <= head[p]
            /\ reviews[p][i].at < now[p]
        BY <4>1 DEF Reviewed, Dated
      <4>3. /\ reviews'[p][i].seen = reviews[p][i].seen
            /\ reviews'[p][i].at = reviews[p][i].at
        BY <2>4, <4>1 DEF SameReviews
      <4>4. \/ reviews'[p][i].commit = reviews[p][i].commit
            \/ forced /\ reviews'[p][i].commit = head'[p]
        BY <2>4, <4>1
      <4>5. /\ reviews[p][i].at \in Nat
            /\ reviews[p][i].seen \in Nat
            /\ reviews[p][i].commit \in Nat
        BY <2>6, <4>1
      <4> QED
        BY <2>1, <2>2, <2>3, <4>2, <4>3, <4>4, <4>5
    <3> QED
      BY <3>1, <3>2 DEF Dated
  <2>8. Informed(p)'
    <3>1. run[p].head \in Nat
      BY DEF TypeOK, Run, Oid
    <3> QED
      BY <2>1, <3>1 DEF Reviewed, Informed
  <2> QED
    BY <2>7, <2>8 DEF Reviewed, Open
<1> QED
  BY <1>1, <1>2

\* A review is appended to the others.
LEMMA SubmitReviewType ==
    ASSUME TypeOK, NEW p \in Pr, NEW a \in Agent, NEW v \in Verdict,
           SubmitReview(p, a, v)
    PROVE  /\ SameReviews(p)
           /\ Len(reviews'[p]) = Len(reviews[p]) + 1
           /\ \A i \in 1..Len(reviews[p]) : reviews'[p][i] = reviews[p][i]
           /\ reviews'[p][Len(reviews[p]) + 1] =
                 [by |-> a, verdict |-> v, commit |-> head[p], seen |-> head[p],
                  at |-> now[p]]
<1> DEFINE new == [by |-> a, verdict |-> v, commit |-> head[p], seen |-> head[p],
                   at |-> now[p]]
           n == Len(reviews[p])
<1>1. reviews'[p] = Append(reviews[p], new)
  BY DEF SubmitReview, TypeOK
<1>2. n \in Nat
  BY ReviewsType
<1>3. new \in Review
  BY DEF Review, TypeOK
<1>4. /\ Len(reviews'[p]) = n + 1
      /\ \A i \in 1..n : reviews'[p][i] = reviews[p][i]
      /\ reviews'[p][n+1] = new
  <2>1. reviews[p] \in Seq(Review)
    BY DEF TypeOK
  <2> QED
    BY <1>1, <1>3, <2>1, AppendProperties
<1> QED
  BY <1>2, <1>4 DEF SameReviews

\* A new review is dated after the push of the head it is about.
LEMMA SubmitReviewed ==
    ASSUME TypeOK, ~SharedSecond, NEW p \in Pr, NEW a \in Agent, NEW v \in Verdict,
           Reviewed(p), SubmitReview(p, a, v)
    PROVE  \A q \in Pr : Reviewed(q) => Reviewed(q)'
<1> DEFINE new == [by |-> a, verdict |-> v, commit |-> head[p], seen |-> head[p],
                   at |-> now[p]]
           n == Len(reviews[p])
<1>2. n \in Nat /\ \A i \in 1..n : reviews[p][i] \in Review
  BY ReviewsType
<1>4. /\ Len(reviews'[p]) = n + 1
      /\ \A i \in 1..n : reviews'[p][i] = reviews[p][i]
      /\ reviews'[p][n+1] = new
  BY SubmitReviewType
<1>6. now'[p] = now[p] + 1 /\ now[p] \in Nat
  BY DEF SubmitReview, Tick, TypeOK, Time
<1>7. UNCHANGED <<head, pushedAt, run, landed>>
  BY DEF SubmitReview
<1>8. head[p] \in Nat /\ pushedAt[p] \in Nat
  BY DEF TypeOK, Oid, Time
<1>9. Reviewed(p)'
  <2>1. \A i \in 1..n : reviews[p][i].at \in Nat
    BY <1>2 DEF Review, Time
  <2>2. Dated(p)'
    <3>1. \A i \in 1..Len(reviews'[p]) : i \in 1..n \/ (i = n + 1 /\ reviews'[p][i] = new)
      BY <1>2, <1>4
    <3>2. ASSUME NEW i \in 1..Len(reviews'[p])
          PROVE  /\ reviews'[p][i].commit <= head'[p]
                 /\ reviews'[p][i].seen <= head'[p]
                 /\ reviews'[p][i].at < now'[p]
                 /\ (reviews'[p][i].commit = head'[p] /\ reviews'[p][i].seen # head'[p])
                       => reviews'[p][i].at < pushedAt'[p]
      <4>1. CASE i \in 1..n
        <5>1. /\ reviews[p][i].commit <= head[p]
              /\ reviews[p][i].seen <= head[p]
              /\ reviews[p][i].at < now[p]
              /\ (reviews[p][i].commit = head[p] /\ reviews[p][i].seen # head[p])
                       => reviews[p][i].at < pushedAt[p]
          BY <4>1 DEF Reviewed, Dated
        <5> QED
          BY <1>4, <1>6, <1>7, <2>1, <4>1, <5>1
      <4>2. CASE i = n + 1 /\ reviews'[p][i] = new
        BY <1>6, <1>7, <1>8, <4>2
      <4> QED
        BY <3>1, <4>1, <4>2
    <3>3. pushedAt'[p] < now'[p]
      BY <1>6, <1>7, <1>8 DEF Reviewed, Dated
    <3> QED
      BY <3>2, <3>3 DEF Dated
  <2>3. Approved(p) => Approved(p)'
    BY <1>2, <1>4, <1>7 DEF Approved, RequiredReviewers
  <2>4. Informed(p)'
    BY <1>2, <1>4, <1>7, <2>3 DEF Reviewed, Informed
  <2> QED
    BY <1>7, <2>2, <2>3, <2>4 DEF Reviewed
<1>10. ASSUME NEW q \in Pr \ {p}, Reviewed(q) PROVE Reviewed(q)'
  <2>1. reviews'[q] = reviews[q] /\ now'[q] = now[q]
    BY <1>10 DEF SubmitReview, Tick, TypeOK
  <2> QED
    BY <1>7, <1>10, <2>1, FrameReviewed
<1> QED
  BY <1>9, <1>10

\* No step takes a review away.
LEMMA ReviewsOnlyGrow ==
    ASSUME TypeOK, rebase # NoRebase => rebase.pr \in Pr, [Next]_vars
    PROVE  \A q \in Pr : SameReviews(q)
<1>1. ASSUME NEW q \in Pr, reviews'[q] = reviews[q] PROVE SameReviews(q)
  BY <1>1, ReviewsType DEF SameReviews
<1>2. ASSUME NEW p \in Pr, NEW forced \in BOOLEAN, NewHead(p, forced)
      PROVE  \A q \in Pr : SameReviews(q)
  <2>1. SameReviews(p)
    BY <1>2, NewHeadReviews
  <2>2. ASSUME NEW q \in Pr \ {p} PROVE SameReviews(q)
    <3>1. reviews'[q] = reviews[q]
      BY <1>2 DEF NewHead, TypeOK
    <3> QED
      BY <1>1, <3>1
  <2> QED
    BY <2>1, <2>2
<1>3. ASSUME NEW p \in Pr, NEW forced \in BOOLEAN, NEW upToDate \in BOOLEAN,
             NEW alone \in BOOLEAN, Push(p, forced, upToDate, alone)
      PROVE  \A q \in Pr : SameReviews(q)
  BY <1>2, <1>3 DEF Push
<1>4. ASSUME NEW p \in Pr, NEW a \in Agent, NEW v \in Verdict, SubmitReview(p, a, v)
      PROVE  \A q \in Pr : SameReviews(q)
  <2>1. SameReviews(p)
    BY <1>4, SubmitReviewType
  <2>2. ASSUME NEW q \in Pr \ {p} PROVE SameReviews(q)
    <3>1. reviews'[q] = reviews[q]
      BY <1>4 DEF SubmitReview, TypeOK
    <3> QED
      BY <1>1, <3>1
  <2> QED
    BY <2>1, <2>2
<1>5. CASE ApplyRebase
  BY <1>2, <1>5 DEF ApplyRebase
<1>6. CASE reviews' = reviews
  BY <1>1, <1>6
<1>7. ASSUME NEW p \in Pr, Wrapper(p) \/ StartChecks(p) \/ FinishChecks(p)
      PROVE  reviews' = reviews
  BY <1>7 DEF Wrapper, ViewPr, ReadReviews, JudgeReviews, JudgeChecks, Merge, Fail,
     StartChecks, FinishChecks, branch
<1>8. StartRebase \/ FailRebase \/ UNCHANGED vars => reviews' = reviews
  BY DEF StartRebase, FailRebase, vars, branch
<1> QED
  BY <1>3, <1>4, <1>5, <1>6, <1>7, <1>8 DEF Next

\* The runs an action leaves alone: all but that of the pull request it is for.
LEMMA OtherRuns ==
    ASSUME TypeOK, NEW p \in Pr, NEW r, run' = [run EXCEPT ![p] = r]
    PROVE  run'[p] = r /\ \A q \in Pr \ {p} : run'[q] = run[q]
BY DEF TypeOK

\* A wrapper step that only reads: what it reads goes into the run.
LEMMA ReadingStep ==
    ASSUME TypeOK, NEW p \in Pr, ReadReviews(p) \/ JudgeReviews(p) \/ JudgeChecks(p)
    PROVE  /\ run'[p].head = run[p].head
           /\ run'[p].approved = run[p].approved
           /\ run'[p].known = run[p].known
           /\ run'[p].clean = run[p].clean
           /\ run'[p].solo = run[p].solo
           /\ run'[p].main = run[p].main
           /\ run[p].pc # "idle"
           /\ \A q \in Pr \ {p} : run'[q] = run[q]
           /\ UNCHANGED <<landed, branch>>
           /\ UNCHANGED checks
<1>1. run[p] \in Run
  BY DEF TypeOK
<1>2. CASE ReadReviews(p)
  <2>1. run' = [run EXCEPT ![p] = [run[p] EXCEPT !.pc = "reviews", !.latest = Latest(p)]]
    BY <1>2 DEF ReadReviews, TypeOK
  <2>2. run'[p] = [run[p] EXCEPT !.pc = "reviews", !.latest = Latest(p)]
    BY <2>1 DEF TypeOK
  <2>3. \A q \in Pr \ {p} : run'[q] = run[q]
    BY <2>1 DEF TypeOK
  <2>4. /\ run'[p].head = run[p].head
        /\ run'[p].approved = run[p].approved
        /\ run'[p].known = run[p].known
        /\ run'[p].clean = run[p].clean
        /\ run'[p].solo = run[p].solo
        /\ run'[p].main = run[p].main
    BY <1>1, <2>2 DEF Run
  <2>5. run[p].pc # "idle" /\ UNCHANGED <<landed, branch>> /\ UNCHANGED checks
    BY <1>2 DEF ReadReviews
  <2> QED
    BY <2>3, <2>4, <2>5
<1>3. CASE JudgeReviews(p) \/ JudgeChecks(p)
  <2>1. PICK step \in {"fresh", "merge"} : run' = [run EXCEPT ![p] = [run[p] EXCEPT !.pc = step]]
    BY <1>3 DEF JudgeReviews, JudgeChecks, TypeOK
  <2>2. run'[p] = [run[p] EXCEPT !.pc = step]
    BY <2>1 DEF TypeOK
  <2>3. \A q \in Pr \ {p} : run'[q] = run[q]
    BY <2>1 DEF TypeOK
  <2> QED
    BY <1>1, <1>3, <2>2, <2>3 DEF JudgeReviews, JudgeChecks, Run
<1> QED
  BY <1>2, <1>3

----------------------------------------------------------------------------
(* No merge over a rejection                                               *)

\* A run that saw an approving decision saw it of the reviews it knows.
Heard(p) ==
    /\ run[p].pc # "idle" /\ run[p].approved =>
          /\ run[p].known <= Len(reviews[p])
          /\ \A agent \in Agent : ~Rejects(p, agent, run[p].known)
    /\ run[p].pc \in {"fresh", "merge"} => run[p].approved

\* Whether someone rejected, as of the first reviews, never changes.
LEMMA RejectsKept ==
    ASSUME TypeOK, NEW p \in Pr, SameReviews(p),
           NEW n \in Nat, n <= Len(reviews[p]), NEW agent
    PROVE  Rejects(p, agent, n)' = Rejects(p, agent, n)
<1>1. Len(reviews[p]) \in Nat
  BY ReviewsType
<1>2. \A i \in 1..n : /\ reviews'[p][i].by = reviews[p][i].by
                      /\ reviews'[p][i].verdict = reviews[p][i].verdict
  BY <1>1 DEF SameReviews
<1>3. Opinions(p, agent, n)' = Opinions(p, agent, n)
  BY <1>2 DEF Opinions
<1>4. \A i \in Opinions(p, agent, n) : i \in 1..n
  BY DEF Opinions
<1> QED
  BY <1>2, <1>3, <1>4 DEF Rejects

\* A run that knows no fewer reviews keeps what it heard.
LEMMA HeardKept ==
    ASSUME TypeOK, TypeOK', NEW p \in Pr, SameReviews(p), Heard(p),
           run'[p].known = run[p].known, run'[p].approved = run[p].approved,
           run'[p].pc # "idle" => run[p].pc # "idle",
           run'[p].pc \in {"fresh", "merge"} => run[p].approved
    PROVE  Heard(p)'
<1>1. run[p].known \in Nat /\ Len(reviews[p]) \in Nat
  BY ReviewsType DEF TypeOK, Run
<1>3. Len(reviews'[p]) \in Nat
  BY LenProperties DEF TypeOK
<1>2. ASSUME run'[p].pc # "idle", run'[p].approved
      PROVE  /\ run'[p].known <= Len(reviews'[p])
             /\ \A agent \in Agent : ~Rejects(p, agent, run[p].known)'
  <2>1. run[p].known <= Len(reviews[p]) /\ \A agent \in Agent : ~Rejects(p, agent, run[p].known)
    BY <1>2 DEF Heard
  <2>2. run'[p].known <= Len(reviews'[p])
    BY <1>1, <1>3, <2>1 DEF SameReviews
  <2>3. ASSUME NEW agent \in Agent PROVE ~Rejects(p, agent, run[p].known)'
    <3>1. Rejects(p, agent, run[p].known)' = Rejects(p, agent, run[p].known)
      <4> DEFINE n == run[p].known
      <4>1. n \in Nat /\ n' = n
        BY <1>1
      <4> HIDE DEF n
      <4>2. Rejects(p, agent, n)' = Rejects(p, agent, n)
        BY <1>1, <2>1, <4>1, RejectsKept DEF n
      <4> QED
        BY <4>2 DEF n
    <3> QED
      BY <2>1, <3>1
  <2> QED
    BY <2>2, <2>3
<1> QED
  BY <1>2 DEF Heard

\* Every step keeps what runs heard of rejections.
LEMMA HeardStep == Typed /\ (\A p \in Pr : Heard(p)) /\ [Next]_vars => (\A p \in Pr : Heard(p))'
<1> SUFFICES ASSUME Typed, \A p \in Pr : Heard(p), [Next]_vars
             PROVE  \A p \in Pr : Heard(p)'
  OBVIOUS
<1>t. TypeOK /\ TypeOK'
  BY TypedStep DEF Typed
<1>g. \A q \in Pr : SameReviews(q)
  BY <1>t, ReviewsOnlyGrow DEF Typed
<1>s. ASSUME NEW q \in Pr, run'[q] = run[q] PROVE Heard(q)'
  BY <1>s, <1>t, <1>g, HeardKept DEF Heard
<1>n. ASSUME NEW p \in Pr, run' = [run EXCEPT ![p] = NoRun] PROVE \A q \in Pr : Heard(q)'
  <2>1. run'[p] = NoRun /\ \A q \in Pr \ {p} : run'[q] = run[q]
    BY <1>n, <1>t DEF TypeOK
  <2>2. Heard(p)'
    BY <2>1 DEF Heard, NoRun
  <2> QED
    BY <1>s, <2>1, <2>2
<1>1. ASSUME NEW p \in Pr, NEW login \in Agent, ViewPr(p, login)
      PROVE  \A q \in Pr : Heard(q)'
  <2>1. /\ run'[p].pc = "viewed"
        /\ run'[p].approved = ReviewDecision(p)
        /\ run'[p].known = Len(reviews[p])
        /\ \A q \in Pr \ {p} : run'[q] = run[q]
    <3> DEFINE r == [NoRun EXCEPT !.pc = "viewed", !.head = head[p], !.clean = ~Behind(p),
                      !.approved = DecisionApproved(p), !.solo = solo[p],
                      !.known = Len(reviews[p]), !.main = landed]
    <3>1. /\ r.pc = "viewed"
          /\ r.approved = DecisionApproved(p)
          /\ r.known = Len(reviews[p])
      BY DEF NoRun
    <3>2. run' = [run EXCEPT ![p] = r]
      BY <1>1 DEF ViewPr
    <3> HIDE DEF r
    <3> QED
      BY <3>1, <3>2, <1>t, OtherRuns DEF DecisionApproved
  <2>2. reviews' = reviews
    BY <1>1 DEF ViewPr, branch
  <2>3. ReviewDecision(p) => \A agent \in Agent : ~Rejects(p, agent, Len(reviews[p]))
    BY DEF ReviewDecision
  <2>4. Heard(p)'
    <3>1. Len(reviews[p]) \in Nat
      BY <1>t, ReviewsType
    <3>2. ASSUME NEW agent PROVE Rejects(p, agent, Len(reviews[p]))' = Rejects(p, agent, Len(reviews[p]))
      BY <2>2 DEF Rejects, Opinions
    <3>3. ASSUME run'[p].approved, NEW agent \in Agent
          PROVE  ~Rejects(p, agent, run[p].known)'
      <4>1. ~Rejects(p, agent, Len(reviews[p]))'
        BY <2>1, <2>3, <3>2, <3>3
      <4> QED
        BY <2>1, <2>2, <4>1 DEF Rejects, Opinions
    <3> QED
      BY <2>1, <2>2, <3>1, <3>3 DEF Heard
  <2> QED
    BY <1>s, <2>1, <2>4
<1>2. ASSUME NEW p \in Pr, ReadReviews(p) \/ JudgeReviews(p) \/ JudgeChecks(p)
      PROVE  \A q \in Pr : Heard(q)'
  <2>1. /\ run'[p].approved = run[p].approved
        /\ run'[p].known = run[p].known
        /\ run[p].pc # "idle"
        /\ \A q \in Pr \ {p} : run'[q] = run[q]
    BY <1>2, <1>t, ReadingStep
  <2>2. run'[p].pc \in {"fresh", "merge"} => run[p].approved
    <3>1. CASE ReadReviews(p)
      BY <3>1, <1>t DEF ReadReviews, TypeOK, Run
    <3>2. CASE JudgeReviews(p)
      BY <3>2 DEF JudgeReviews
    <3>3. CASE JudgeChecks(p)
      BY <3>3 DEF JudgeChecks, Heard
    <3> QED
      BY <1>2, <3>1, <3>2, <3>3
  <2>3. Heard(p)'
    BY <1>t, <1>g, <2>1, <2>2, HeardKept
  <2> QED
    BY <1>s, <2>1, <2>3
<1>3. ASSUME NEW p \in Pr, Merge(p) \/ Fail(p) PROVE \A q \in Pr : Heard(q)'
  BY <1>3, <1>n DEF Merge, Fail
<1>4. CASE run' = run
  BY <1>4, <1>s
<1>5. ASSUME NEW p \in Pr, NEW forced \in BOOLEAN, NEW upToDate \in BOOLEAN,
             NEW alone \in BOOLEAN, Push(p, forced, upToDate, alone)
      PROVE  run' = run
  BY <1>5 DEF Push
<1>6. ASSUME NEW p \in Pr, NEW a \in Agent, NEW v \in Verdict, SubmitReview(p, a, v)
      PROVE  run' = run
  BY <1>6 DEF SubmitReview
<1>7. ASSUME NEW p \in Pr, StartChecks(p) \/ FinishChecks(p) PROVE run' = run
  BY <1>7 DEF StartChecks, FinishChecks
<1>8. StartRebase \/ ApplyRebase \/ FailRebase \/ UNCHANGED vars => run' = run
  BY DEF StartRebase, ApplyRebase, FailRebase, vars
<1> QED
  BY <1>1, <1>2, <1>3, <1>4, <1>5, <1>6, <1>7, <1>8 DEF Next, Wrapper

\* No interleaving of pushes, reviews, rebases and reads lets the wrapper merge
\* over a rejection by a required reviewer that stood when the run started.
THEOREM RejectionsHonoured == Spec => RejectionHonoured
<1> DEFINE Inv == Typed /\ \A p \in Pr : Heard(p)
<1>1. Init => Inv
  BY TypedInit DEF Init, NoRun, Heard
<1>2. Inv /\ [Next]_vars => Inv'
  BY TypedStep, HeardStep
<1>3. Inv /\ [Next]_vars =>
        [\A p \in landed' \ landed : \A agent \in RequiredReviewers(Author[p]) :
            ~Rejects(p, agent, run[p].known)]_vars
  <2> SUFFICES ASSUME Inv, Next,
                      NEW p \in landed' \ landed,
                      NEW agent \in RequiredReviewers(Author[p])
               PROVE  ~Rejects(p, agent, run[p].known)
    OBVIOUS
  <2>1. p \in Pr /\ Merge(p)
    <3>1. ASSUME NEW q \in Pr, Wrapper(q) PROVE p = q /\ Merge(q)
      BY <3>1 DEF Wrapper, ViewPr, ReadReviews, JudgeReviews, JudgeChecks, Merge, Fail
    <3>2. ASSUME NEW q \in Pr, NEW forced \in BOOLEAN, NEW upToDate \in BOOLEAN,
                 NEW alone \in BOOLEAN, Push(q, forced, upToDate, alone)
          PROVE  FALSE
      BY <3>2 DEF Push
    <3>3. ASSUME NEW q \in Pr, NEW a \in Agent, NEW v \in Verdict, SubmitReview(q, a, v)
          PROVE  FALSE
      BY <3>3 DEF SubmitReview
    <3>4. ASSUME NEW q \in Pr, StartChecks(q) \/ FinishChecks(q) PROVE FALSE
      BY <3>4 DEF StartChecks, FinishChecks
    <3>5. ~(StartRebase \/ ApplyRebase \/ FailRebase)
      BY DEF StartRebase, ApplyRebase, FailRebase
    <3> QED
      BY <3>1, <3>2, <3>3, <3>4, <3>5 DEF Next
  <2>2. run[p].pc = "merge" /\ Heard(p)
    BY <2>1 DEF Merge
  <2>3. agent \in Agent
    BY DEF RequiredReviewers
  <2> QED
    BY <2>2, <2>3 DEF Heard
<1> QED
  BY <1>1, <1>2, <1>3, PTL DEF Spec, RejectionHonoured

----------------------------------------------------------------------------
(* Every merged head was reviewed                                          *)

\* Every step keeps what runs know of the reviews of a head.
LEMMA ReviewedStep ==
    ASSUME ~SharedSecond
    PROVE  Typed /\ (\A p \in Pr : Reviewed(p)) /\ [Next]_vars => (\A p \in Pr : Reviewed(p))'
<1> SUFFICES ASSUME Typed, \A p \in Pr : Reviewed(p), [Next]_vars
             PROVE  \A p \in Pr : Reviewed(p)'
  OBVIOUS
<1>t. TypeOK
  BY DEF Typed
<1>1. ASSUME NEW p \in Pr, NEW login \in Agent, ViewPr(p, login)
      PROVE  \A q \in Pr : Reviewed(q)'
  <2>1. /\ run'[p].pc = "viewed"
        /\ run'[p].head = head[p]
        /\ \A q \in Pr \ {p} : run'[q] = run[q]
    <3> DEFINE r == [NoRun EXCEPT !.pc = "viewed", !.head = head[p], !.clean = ~Behind(p),
                      !.approved = DecisionApproved(p), !.solo = solo[p],
                      !.known = Len(reviews[p]), !.main = landed]
    <3>1. r.pc = "viewed" /\ r.head = head[p]
      BY DEF NoRun
    <3>2. run' = [run EXCEPT ![p] = r]
      BY <1>1 DEF ViewPr
    <3> HIDE DEF r
    <3> QED
      BY <3>1, <3>2, <1>t, OtherRuns
  <2>2. UNCHANGED <<landed, head, pushedAt, reviews, now>>
    BY <1>1 DEF ViewPr, branch
  <2>3. head[p] \in Nat
    BY <1>t DEF TypeOK, Oid
  <2>4. Reviewed(p)'
    BY <2>1, <2>2, <2>3 DEF Reviewed, Dated, Informed, Approved, RequiredReviewers
  <2>5. ASSUME NEW q \in Pr \ {p} PROVE Reviewed(q)'
    BY <2>1, <2>2, FrameReviewed
  <2> QED
    BY <2>4, <2>5
<1>2. ASSUME NEW p \in Pr, ReadReviews(p) \/ JudgeReviews(p) \/ JudgeChecks(p), Informed(p)'
      PROVE  \A q \in Pr : Reviewed(q)'
  <2>1. /\ \A q \in Pr \ {p} : run'[q] = run[q]
        /\ UNCHANGED <<landed, branch>>
    BY <1>2, <1>t, ReadingStep
  <2>2. UNCHANGED <<landed, head, pushedAt, reviews, now>>
    BY <2>1 DEF branch
  <2>3. Reviewed(p)'
    BY <1>2, <2>2 DEF Reviewed, Dated, Approved, RequiredReviewers
  <2>4. ASSUME NEW q \in Pr \ {p} PROVE Reviewed(q)'
    BY <2>1, <2>2, FrameReviewed
  <2> QED
    BY <2>3, <2>4
<1>3. ASSUME NEW p \in Pr, ReadReviews(p) PROVE Informed(p)'
  <2>1. /\ run'[p].pc = "reviews"
        /\ run'[p].latest = Latest(p)
    BY <1>3, <1>t DEF ReadReviews, TypeOK, Run
  <2>2. run'[p].head = run[p].head /\ run[p].pc # "idle" /\ UNCHANGED <<head, reviews>>
    BY <1>3, <1>t, ReadingStep DEF branch
  <2>3. \A r \in Latest(p) : \E i \in 1..Len(reviews[p]) : reviews[p][i] = r
    BY <1>t, ReviewsType DEF Latest
  <2> QED
    BY <2>1, <2>2, <2>3 DEF Informed, Reviewed
<1>4. ASSUME NEW p \in Pr, JudgeReviews(p) PROVE Informed(p)'
  <2>1. run'[p].pc = "fresh"
    BY <1>4, <1>t DEF JudgeReviews, TypeOK, Run
  <2>2. /\ run'[p].head = run[p].head
        /\ run[p].pc = "reviews"
        /\ UNCHANGED <<head, reviews>>
    BY <1>4, <1>t, ReadingStep DEF branch, JudgeReviews
  <2>3. ASSUME run[p].head = head[p], NEW agent \in RequiredReviewers(Author[p])
        PROVE  \E i \in 1..Len(reviews[p]) :
                  /\ reviews[p][i].by = agent
                  /\ reviews[p][i].verdict = "APPROVED"
                  /\ reviews[p][i].seen = head[p]
    <3>1. PICK r \in run[p].latest : /\ r.by = agent
                                     /\ r.verdict = "APPROVED"
                                     /\ r.commit = head[p]
                                     /\ SubmittedAfterPush(r, p)
      BY <1>4, <2>3 DEF JudgeReviews
    <3>2. PICK i \in 1..Len(reviews[p]) : reviews[p][i] = r
      BY <2>2, <2>3 DEF Informed, Reviewed
    <3>3. /\ reviews[p][i].seen # head[p] => reviews[p][i].at < pushedAt[p]
          /\ reviews[p][i] \in Review
          /\ pushedAt[p] \in Nat
      BY <1>t, <3>1, <3>2, ReviewsType DEF Reviewed, Dated, TypeOK, Time
    <3>4. reviews[p][i].at \in Nat
      BY <3>3 DEF Review, Time
    <3>5. reviews[p][i].seen = head[p]
      BY <3>1, <3>2, <3>3, <3>4 DEF SubmittedAfterPush
    <3> QED
      BY <3>1, <3>2, <3>5
  <2>4. run[p].head = head[p] => Approved(p)
    BY <2>3 DEF Approved
  <2>5. Approved(p)' = Approved(p)
    BY <2>2 DEF Approved, RequiredReviewers
  <2> QED
    BY <2>1, <2>2, <2>4, <2>5 DEF Informed, Reviewed
<1>5. ASSUME NEW p \in Pr, JudgeChecks(p) PROVE Informed(p)'
  <2>1. run'[p].pc = "merge"
    BY <1>5, <1>t DEF JudgeChecks, TypeOK, Run
  <2>2. /\ run'[p].head = run[p].head
        /\ run[p].pc = "fresh"
        /\ UNCHANGED <<head, reviews>>
    BY <1>5, <1>t, ReadingStep DEF branch, JudgeChecks
  <2>3. Approved(p)' = Approved(p)
    BY <2>2 DEF Approved, RequiredReviewers
  <2> QED
    BY <2>1, <2>2, <2>3 DEF Informed, Reviewed
<1>6. ASSUME NEW p \in Pr, Merge(p) \/ Fail(p) PROVE \A q \in Pr : Reviewed(q)'
  <2>1. run'[p] = NoRun /\ \A q \in Pr \ {p} : run'[q] = run[q]
    BY <1>6, <1>t, OtherRuns DEF Merge, Fail
  <2>2. UNCHANGED <<head, pushedAt, reviews, now>> /\ landed' \subseteq landed \cup {p}
    BY <1>6 DEF Merge, Fail, branch
  <2>3. p \in landed' => Approved(p)
    BY <1>6 DEF Merge, Fail, MatchHeadCommit, Informed, Reviewed
  <2>4. Reviewed(p)'
    BY <2>1, <2>2, <2>3 DEF Reviewed, Dated, Informed, Approved, RequiredReviewers, NoRun
  <2>5. ASSUME NEW q \in Pr \ {p} PROVE Reviewed(q)'
    BY <2>1, <2>2, FrameReviewed
  <2> QED
    BY <2>4, <2>5
<1>7. ASSUME NEW p \in Pr, NEW forced \in BOOLEAN, NewHead(p, forced), Open(p),
             UNCHANGED <<run, landed>>
      PROVE  \A q \in Pr : Reviewed(q)'
  BY <1>7, <1>t, NewHeadReviewed
<1>8. ASSUME NEW p \in Pr, NEW forced \in BOOLEAN, NEW upToDate \in BOOLEAN,
             NEW alone \in BOOLEAN, Push(p, forced, upToDate, alone)
      PROVE  \A q \in Pr : Reviewed(q)'
  BY <1>7, <1>8 DEF Push
<1>9. ASSUME NEW p \in Pr, NEW a \in Agent, NEW v \in Verdict, SubmitReview(p, a, v)
      PROVE  \A q \in Pr : Reviewed(q)'
  BY <1>9, <1>t, SubmitReviewed
<1>10. CASE ApplyRebase
  <2>1. rebase.pr \in Pr
    BY <1>10 DEF ApplyRebase, Typed
  <2> QED
    BY <1>7, <1>10, <2>1 DEF ApplyRebase
<1>11. CASE UNCHANGED <<head, pushedAt, reviews, now, run, landed>>
  BY <1>11, FrameReviewed
<1>12. ASSUME NEW p \in Pr, StartChecks(p) \/ FinishChecks(p)
       PROVE  UNCHANGED <<head, pushedAt, reviews, now, run, landed>>
  BY <1>12 DEF StartChecks, FinishChecks, branch
<1>13. StartRebase \/ FailRebase \/ UNCHANGED vars =>
          UNCHANGED <<head, pushedAt, reviews, now, run, landed>>
  BY DEF StartRebase, FailRebase, vars, branch
<1> QED
  BY <1>1, <1>2, <1>3, <1>4, <1>5, <1>6, <1>8, <1>9, <1>10, <1>11, <1>12, <1>13
     DEF Next, Wrapper

\* As long as no review carries the same second as a force-push, the two
\* freshness conditions of the wrapper leave no merged head unreviewed: a
\* review remapped onto a head was submitted before the push of that head.
THEOREM MergedHeadsReviewed ==
    ASSUME ~SharedSecond
    PROVE  Spec => []MergedHeadWasReviewed
<1> DEFINE Inv == Typed /\ \A p \in Pr : Reviewed(p)
<1>1. Init => Inv
  <2> SUFFICES ASSUME Init, NEW p \in Pr PROVE Reviewed(p)
    BY TypedInit
  <2>1. /\ head[p] = 1 /\ pushedAt[p] = 0 /\ now[p] = 1
        /\ run[p].pc = "idle"
        /\ landed = {}
    BY DEF Init, NoRun
  <2>2. Len(reviews[p]) = 0
    BY EmptySeq DEF Init
  <2> QED
    BY <2>1, <2>2 DEF Reviewed, Dated, Informed
<1>2. Inv /\ [Next]_vars => Inv'
  BY TypedStep, ReviewedStep
<1>3. Inv => MergedHeadWasReviewed
  <2> SUFFICES ASSUME Inv, NEW p \in landed PROVE p \in Pr /\ Approved(p)
    BY ReviewsType DEF MergedHeadWasReviewed, Approved, Typed
  <2> QED
    BY DEF Reviewed, Typed, TypeOK
<1> QED
  BY <1>1, <1>2, <1>3, PTL DEF Spec

----------------------------------------------------------------------------
(* What lands                                                              *)

\* The branch was cut from what main held, and CI looked at no less.
CutFromMain(p) ==
    /\ base[p] \subseteq landed
    /\ checks[p].status # "none" => base[p] \cup {p} \subseteq checks[p].tree
    /\ checks[p].status = "green" => Valid(checks[p].tree)

\* What a run saw of the branch is so as long as the head stays; when it is
\* about to merge, it saw a green, up-to-date and, of the automation, lone head.
Seen(p) ==
    /\ run[p].pc # "idle" => run[p].head <= head[p]
    /\ run[p].pc # "idle" /\ run[p].head = head[p] =>
          /\ run[p].solo => solo[p]
          /\ run[p].clean => base[p] = run[p].main
    /\ run[p].pc = "merge" => run[p].clean /\ (Author[p] = Bot => run[p].solo)
    /\ run[p].pc = "merge" /\ run[p].head = head[p] => checks[p].status = "green"

Landing(p) == CutFromMain(p) /\ Seen(p) /\ (p \in landed /\ Author[p] = Bot => solo[p])

LandingInv == (\A p \in Pr : Landing(p)) /\ OnlyRacesBreakMain

\* A step that leaves a request alone leaves its landing facts alone.
LEMMA FrameLanding ==
    ASSUME NEW p \in Pr, Landing(p), head'[p] = head[p], base'[p] = base[p],
           solo'[p] = solo[p], checks'[p] = checks[p], run'[p] = run[p],
           landed \subseteq landed', p \in landed' => p \in landed
    PROVE  Landing(p)'
BY DEF Landing, CutFromMain, Seen, Valid

\* A subset of a combination that CI accepts is accepted too.
LEMMA ValidShrinks ==
    ASSUME NEW S, NEW T, S \subseteq T, Valid(T)
    PROVE  Valid(S)
BY DEF Valid

\* A push or rebase starts from main and makes what runs saw of the old head moot.
LEMMA NewHeadLanding ==
    ASSUME TypeOK, \A q \in Pr : Landing(q), NEW p \in Pr, NEW forced \in BOOLEAN,
           NewHead(p, forced), Open(p), UNCHANGED <<run, landed>>,
           base'[p] \in {base[p], landed},
           \A q \in Pr \ {p} : base'[q] = base[q] /\ solo'[q] = solo[q]
    PROVE  \A q \in Pr : Landing(q)'
<1>1. ASSUME NEW q \in Pr \ {p} PROVE Landing(q)'
  <2>1. head'[q] = head[q] /\ checks'[q] = checks[q]
    BY DEF NewHead, TypeOK
  <2> QED
    BY <2>1, FrameLanding
<1>2. Landing(p)'
  <2>1. head[p] \in Nat /\ head'[p] = head[p] + 1 /\ run[p].head \in Nat
    BY NewHeadType DEF TypeOK, Oid, Run
  <2>2. checks'[p].status = "none"
    BY DEF NewHead, TypeOK, Unchecked
  <2>3. CutFromMain(p)'
    BY <2>2 DEF CutFromMain, Landing
  <2>4. Seen(p)'
    BY <2>1 DEF Seen, Landing
  <2> QED
    BY <2>3, <2>4 DEF Landing, Open
<1> QED
  BY <1>1, <1>2

\* A merge lands a lone head of the automation, and breaks main only by a race.
LEMMA MergeLanding ==
    ASSUME TypeOK, LandingInv, NEW p \in Pr, Merge(p)
    PROVE  LandingInv'
<1>1. /\ run[p].pc = "merge" /\ head[p] = run[p].head
      /\ strict => base[p] = landed
      /\ landed' = landed \cup {p}
      /\ raced' = (raced \/ landed # run[p].main)
      /\ UNCHANGED <<strict, head, base, solo, checks>>
  BY DEF Merge, MatchHeadCommit, Behind, branch
<1>2. run'[p] = NoRun /\ \A q \in Pr \ {p} : run'[q] = run[q]
  BY OtherRuns DEF Merge
<1>3. /\ run[p].clean /\ base[p] = run[p].main
      /\ Author[p] = Bot => solo[p]
      /\ base[p] \cup {p} \subseteq checks[p].tree
      /\ Valid(checks[p].tree)
  BY <1>1 DEF LandingInv, Landing, CutFromMain, Seen
<1>4. OnlyRacesBreakMain'
  <2>1. CASE base[p] = landed
    <3>1. Valid(landed')
      BY <1>1, <1>3, <2>1, ValidShrinks
    <3> QED
      BY <3>1 DEF OnlyRacesBreakMain, Valid
  <2>2. CASE base[p] # landed
    BY <1>1, <1>3, <2>2 DEF OnlyRacesBreakMain
  <2> QED
    BY <2>1, <2>2
<1>5. Landing(p)'
  <2>1. CutFromMain(p)'
    BY <1>1 DEF LandingInv, Landing, CutFromMain, Valid
  <2>2. Seen(p)'
    BY <1>2 DEF Seen, NoRun
  <2> QED
    BY <1>1, <1>3, <2>1, <2>2 DEF Landing
<1>6. ASSUME NEW q \in Pr \ {p} PROVE Landing(q)'
  BY <1>1, <1>2, FrameLanding DEF LandingInv
<1> QED
  BY <1>4, <1>5, <1>6 DEF LandingInv

\* Every step keeps the landing facts,
LEMMA LandingStep == Typed /\ LandingInv /\ [Next]_vars => LandingInv'
<1> SUFFICES ASSUME Typed, LandingInv, [Next]_vars PROVE LandingInv'
  OBVIOUS
<1>t. TypeOK
  BY DEF Typed
<1>m. ASSUME UNCHANGED <<strict, landed, raced>> PROVE OnlyRacesBreakMain'
  BY <1>m DEF LandingInv, OnlyRacesBreakMain, Valid
<1>1. ASSUME NEW p \in Pr, NEW login \in Agent, ViewPr(p, login) PROVE LandingInv'
  <2>1. /\ run'[p].pc = "viewed"
        /\ run'[p].head = head[p]
        /\ run'[p].clean => base[p] = landed
        /\ run'[p].solo = solo[p]
        /\ run'[p].main = landed
        /\ \A q \in Pr \ {p} : run'[q] = run[q]
    <3> DEFINE r == [NoRun EXCEPT !.pc = "viewed", !.head = head[p], !.clean = ~Behind(p),
                      !.approved = DecisionApproved(p), !.solo = solo[p],
                      !.known = Len(reviews[p]), !.main = landed]
    <3>1. /\ r.pc = "viewed" /\ r.head = head[p]
          /\ r.clean => base[p] = landed
          /\ r.solo = solo[p] /\ r.main = landed
      BY DEF NoRun, Behind
    <3>2. run' = [run EXCEPT ![p] = r]
      BY <1>1 DEF ViewPr
    <3> HIDE DEF r
    <3> QED
      BY <3>1, <3>2, <1>t, OtherRuns
  <2>2. UNCHANGED <<strict, landed, raced, head, base, solo, checks>>
    BY <1>1 DEF ViewPr, branch
  <2>3. Landing(p)'
    <3>1. head[p] \in Nat
      BY <1>t DEF TypeOK, Oid
    <3>2. Seen(p)'
      BY <2>1, <2>2, <3>1 DEF Seen
    <3> QED
      BY <2>2, <3>2 DEF LandingInv, Landing, CutFromMain, Valid
  <2>4. ASSUME NEW q \in Pr \ {p} PROVE Landing(q)'
    BY <2>1, <2>2, FrameLanding DEF LandingInv
  <2> QED
    BY <1>m, <2>2, <2>3, <2>4 DEF LandingInv
<1>2. ASSUME NEW p \in Pr, ReadReviews(p) \/ JudgeReviews(p) \/ JudgeChecks(p) PROVE LandingInv'
  <2>1. /\ run'[p].head = run[p].head
        /\ run'[p].clean = run[p].clean
        /\ run'[p].solo = run[p].solo
        /\ run'[p].main = run[p].main
        /\ run[p].pc # "idle"
        /\ \A q \in Pr \ {p} : run'[q] = run[q]
        /\ UNCHANGED <<landed, branch>>
        /\ UNCHANGED checks
    BY <1>2, <1>t, ReadingStep
  <2>2. UNCHANGED <<strict, landed, raced, head, base, solo, checks>>
    BY <1>2, <2>1 DEF ReadReviews, JudgeReviews, JudgeChecks, branch
  <2>3. run'[p].pc = "merge" =>
           /\ run[p].clean /\ (Author[p] = Bot => run[p].solo)
           /\ head[p] = run[p].head => checks[p].status = "green"
    <3>1. CASE JudgeChecks(p)
      BY <3>1 DEF JudgeChecks, AllPassed, Clean, OneBotCommit
    <3>2. CASE ReadReviews(p) \/ JudgeReviews(p)
      BY <3>2, <1>t DEF ReadReviews, JudgeReviews, TypeOK, Run
    <3> QED
      BY <1>2, <3>1, <3>2
  <2>4. Seen(p)'
    BY <2>1, <2>2, <2>3 DEF LandingInv, Landing, Seen
  <2>5. Landing(p)'
    BY <2>2, <2>4 DEF LandingInv, Landing, CutFromMain, Valid
  <2>6. ASSUME NEW q \in Pr \ {p} PROVE Landing(q)'
    BY <2>1, <2>2, FrameLanding DEF LandingInv
  <2> QED
    BY <1>m, <2>2, <2>5, <2>6 DEF LandingInv
<1>3. ASSUME NEW p \in Pr, Merge(p) PROVE LandingInv'
  BY <1>3, <1>t, MergeLanding
<1>4. ASSUME NEW p \in Pr, Fail(p) PROVE LandingInv'
  <2>1. run'[p] = NoRun /\ \A q \in Pr \ {p} : run'[q] = run[q]
    BY <1>4, <1>t, OtherRuns DEF Fail
  <2>2. UNCHANGED <<strict, landed, raced, head, base, solo, checks>>
    BY <1>4 DEF Fail, branch
  <2>3. Landing(p)'
    BY <2>1, <2>2 DEF LandingInv, Landing, CutFromMain, Seen, NoRun, Valid
  <2>4. ASSUME NEW q \in Pr \ {p} PROVE Landing(q)'
    BY <2>1, <2>2, FrameLanding DEF LandingInv
  <2> QED
    BY <1>m, <2>2, <2>3, <2>4 DEF LandingInv
<1>5. ASSUME NEW p \in Pr, NEW forced \in BOOLEAN, NEW upToDate \in BOOLEAN,
             NEW alone \in BOOLEAN, Push(p, forced, upToDate, alone)
      PROVE  LandingInv'
  <2>1. /\ NewHead(p, forced) /\ Open(p)
        /\ UNCHANGED <<strict, landed, raced, run>>
        /\ base'[p] \in {base[p], landed}
        /\ \A q \in Pr \ {p} : base'[q] = base[q] /\ solo'[q] = solo[q]
    BY <1>5, <1>t DEF Push, TypeOK
  <2> QED
    BY <1>m, <1>t, <2>1, NewHeadLanding DEF LandingInv
<1>6. ASSUME NEW p \in Pr, StartChecks(p) \/ FinishChecks(p) PROVE LandingInv'
  <2>1. /\ UNCHANGED <<strict, landed, raced, run, head, base, solo>>
        /\ \A q \in Pr \ {p} : checks'[q] = checks[q]
    BY <1>6, <1>t DEF StartChecks, FinishChecks, branch, TypeOK
  <2>2. Landing(p)'
    <3>1. CASE StartChecks(p)
      <4>1. checks[p].status = "none"
            /\ checks'[p] = [status |-> "running", tree |-> landed \cup {p}]
        BY <3>1, <1>t DEF StartChecks, TypeOK
      <4> QED
        BY <2>1, <4>1 DEF LandingInv, Landing, CutFromMain, Seen
    <3>2. CASE FinishChecks(p)
      <4> DEFINE verdict == IF Valid(checks[p].tree) THEN "green" ELSE "red"
      <4>1. checks[p] \in CheckRun /\ checks[p].status = "running"
            /\ checks'[p] = [checks[p] EXCEPT !.status = verdict]
        BY <3>2, <1>t DEF FinishChecks, TypeOK
      <4>2. checks'[p].status = verdict /\ checks'[p].tree = checks[p].tree
        BY <4>1 DEF CheckRun
      <4>3. CutFromMain(p)'
        BY <2>1, <4>1, <4>2 DEF LandingInv, Landing, CutFromMain, Valid
      <4>4. Seen(p)'
        BY <2>1, <4>1 DEF LandingInv, Landing, Seen
      <4> QED
        BY <2>1, <4>3, <4>4 DEF LandingInv, Landing
    <3> QED
      BY <1>6, <3>1, <3>2
  <2>3. ASSUME NEW q \in Pr \ {p} PROVE Landing(q)'
    BY <2>1, FrameLanding DEF LandingInv
  <2> QED
    BY <1>m, <2>1, <2>2, <2>3 DEF LandingInv
<1>7. CASE ApplyRebase
  <2>1. rebase.pr \in Pr
    BY <1>7 DEF ApplyRebase, Typed
  <2>2. /\ NewHead(rebase.pr, TRUE) /\ Open(rebase.pr)
        /\ UNCHANGED <<strict, landed, raced, run, solo>>
        /\ base'[rebase.pr] = landed
        /\ \A q \in Pr \ {rebase.pr} : base'[q] = base[q]
    BY <1>7, <1>t, <2>1 DEF ApplyRebase, TypeOK
  <2> QED
    BY <1>m, <1>t, <2>1, <2>2, NewHeadLanding DEF LandingInv
<1>8. CASE UNCHANGED <<strict, landed, raced, run, head, base, solo, checks>>
  BY <1>m, <1>8, FrameLanding DEF LandingInv
<1>9. ASSUME NEW p, NEW a, NEW v, SubmitReview(p, a, v)
      PROVE  UNCHANGED <<strict, landed, raced, run, head, base, solo, checks>>
  BY <1>9 DEF SubmitReview
<1>10. StartRebase \/ FailRebase \/ UNCHANGED vars =>
          UNCHANGED <<strict, landed, raced, run, head, base, solo, checks>>
  BY DEF StartRebase, FailRebase, vars, branch
<1> QED
  BY <1>1, <1>2, <1>3, <1>4, <1>5, <1>6, <1>7, <1>8, <1>9, <1>10 DEF Next, Wrapper

\* which hold initially.
LEMMA LandingInit == Init => LandingInv
<1> SUFFICES ASSUME Init PROVE LandingInv
  OBVIOUS
<1>1. ASSUME NEW p \in Pr PROVE Landing(p)
  <2>1. /\ base[p] = {} /\ landed = {}
        /\ checks[p].status = "none"
        /\ run[p].pc = "idle"
    BY DEF Init, Unchecked, NoRun
  <2> QED
    BY <2>1 DEF Landing, CutFromMain, Seen
<1>2. OnlyRacesBreakMain
  BY ChangesClash DEF Init, OnlyRacesBreakMain, Valid
<1> QED
  BY <1>1, <1>2 DEF LandingInv

\* What an automation pull request lands is the automation's one commit, also
\* when others push to its branch while the wrapper reads.
THEOREM AutomationAlone == Spec => []AutomationLandsAlone
<1>1. Typed /\ LandingInv => AutomationLandsAlone
  BY DEF Typed, TypeOK, LandingInv, Landing, AutomationLandsAlone
<1> QED
  BY TypedInit, TypedStep, LandingInit, LandingStep, <1>1, PTL DEF Spec

\* Main holds a combination CI would reject only if a change landed between the
\* first read of a run and its merge, and never with the up-to-date rule of GitHub.
THEOREM RacesAloneBreakMain == Spec => []OnlyRacesBreakMain
<1>1. LandingInv => OnlyRacesBreakMain
  BY DEF LandingInv
<1> QED
  BY TypedInit, TypedStep, LandingInit, LandingStep, <1>1, PTL DEF Spec
============================================================================
