---------------------------- MODULE StatusCache ----------------------------
(***************************************************************************)
(* The portal's status API (platform/apps/portal/dev/server.py): request   *)
(* threads share one cached snapshot of Prometheus behind a lock.  A       *)
(* request reads the clock, waits for the lock, and then serves the cache, *)
(* builds a new snapshot from many separate queries, or falls back to a    *)
(* stale one.  The clock counts in an arbitrary unit.                      *)
(***************************************************************************)
EXTENDS Integers

CONSTANTS
    Request,     \* request threads; each may come again
    Ttl,         \* CACHE_TTL_SECONDS
    StaleLimit,  \* STALE_TTL_SECONDS
    None,        \* no snapshot, no answer, no holder
    Error,       \* reply 503, telemetry_unavailable
    Closed,      \* no reply: an exception nobody catches
    MaxTime      \* bound: ticks of the clock

ASSUME LimitsAreOrdered == Ttl \in Nat \ {0} /\ StaleLimit \in Nat /\ Ttl <= StaleLimit
ASSUME TimeIsBounded == MaxTime \in Nat
ASSUME NoneIsNoRequest == None \notin Request \cup Int

VARIABLES
    clock,     \* time.monotonic
    world,     \* Prometheus: does it evaluate alerts, has any reason to fire
    cached,    \* the cached snapshot
    cachedAt,  \* clock reading stored with it
    holder,    \* thread inside the lock
    request,   \* each thread's request
    newest     \* history variable: latest observation any client has been given

vars == <<clock, world, cached, cachedAt, holder, request, newest>>

World == [evaluates: BOOLEAN, firing: BOOLEAN]

\* What the alert counts of a snapshot need: the Watchdog canary and the count.
Query == {"watchdog", "count"}
Unasked == [q \in Query |-> None]

\* When its last query was answered, and the reported number of firing alerts.
\* `missed` (history): some alert fired at every moment of the build, and
\* Prometheus neither began nor stopped to evaluate alerts meanwhile.
Time == 0..MaxTime
Snapshot == [observed: Time, alerts: {None, 0, 1}, missed: BOOLEAN]

\* What a client got: the snapshot, its stale mark and age, and (history) whether
\* it was built for it.
Reply == [snapshot: Snapshot, stale: BOOLEAN, age: -MaxTime..MaxTime, built: BOOLEAN]

Thread == [at: {"idle", "waiting", "building", "done"}, now: Time,
           answers: [Query -> {None, 0, 1}], missed: BOOLEAN,
           reply: Reply \cup {None, Error, Closed}, floor: -1..MaxTime]

TypeOK ==
    /\ clock \in Time
    /\ world \in World
    /\ cached \in Snapshot \cup {None}
    /\ cachedAt \in Time
    /\ holder \in Request \cup {None}
    /\ request \in [Request -> Thread]
    /\ newest \in -1..MaxTime

Fresh == [at |-> "idle", now |-> 0, answers |-> Unasked, missed |-> TRUE,
          reply |-> None, floor |-> -1]

Init ==
    /\ clock = 0
    /\ world \in World
    /\ cached = None /\ cachedAt = 0 /\ holder = None
    /\ request = [r \in Request |-> Fresh]
    /\ newest = -1

Age(r) == request[r].now - cachedAt

----------------------------------------------------------------------------
(* A request                                                               *)

\* get_snapshot reads the clock before it asks for the lock.
Arrive(r) ==
    /\ request[r].at = "idle"
    /\ request' = [request EXCEPT ![r] =
                     [Fresh EXCEPT !.at = "waiting", !.now = clock, !.floor = newest]]
    /\ UNCHANGED <<clock, world, cached, cachedAt, holder, newest>>

Served(s, stale, age, built) ==
    [snapshot |-> s, stale |-> stale, age |-> age, built |-> built]

\* The lock is released and the handler sends what get_snapshot returned or raised.
Answer(r, reply) ==
    /\ request' = [request EXCEPT ![r] =
                     [@ EXCEPT !.at = "done", !.reply = reply,
                               !.answers = Unasked, !.missed = TRUE]]
    /\ newest' = IF reply \in {Error, Closed} \/ reply.snapshot.observed < newest
                 THEN newest ELSE reply.snapshot.observed
    /\ holder' = None

\* Mutation: the cache is as good as its stale limit.
WithinLimit(r) == cached # None /\ Age(r) < StaleLimit

\* Mutation: a cache from a later moment than the request is not used.
UsableForward(r) == cached # None /\ Age(r) \in 0..(Ttl - 1)

\* The cache may be younger than the request, and its age negative.
Usable(r) == cached # None /\ Age(r) < Ttl

\* Mutation: serving the cache renews it.
ServeAndRenew(r) ==
    /\ request[r].at = "waiting" /\ holder = None
    /\ Usable(r)
    /\ Answer(r, Served(cached, FALSE, Age(r), FALSE))
    /\ cachedAt' = IF cachedAt < request[r].now THEN request[r].now ELSE cachedAt
    /\ UNCHANGED <<clock, world, cached>>

ServeCached(r) ==
    /\ request[r].at = "waiting" /\ holder = None
    /\ Usable(r)
    /\ Answer(r, Served(cached, FALSE, Age(r), FALSE))
    /\ UNCHANGED <<clock, world, cached, cachedAt>>

StartBuild(r) ==
    /\ request[r].at = "waiting" /\ holder = None
    /\ ~Usable(r)
    /\ holder' = r
    /\ request' = [request EXCEPT ![r] = [@ EXCEPT !.at = "building", !.missed = world.firing]]
    /\ UNCHANGED <<clock, world, cached, cachedAt, newest>>

----------------------------------------------------------------------------
(* Building a snapshot                                                     *)

\* Where nothing is evaluated the canary has no sample, which is not the 1 that
\* is asked for, and the count is the 0 of its "or vector(0)".
Sample(q) == IF world.evaluates /\ (q = "count" => world.firing) THEN 1 ELSE 0

\* Eight workers ask the queries in any order, each at a moment of its own.
Ask(r, q) ==
    /\ request[r].at = "building"
    /\ request[r].answers[q] = None
    /\ request' = [request EXCEPT ![r].answers[q] = Sample(q)]
    /\ UNCHANGED <<clock, world, cached, cachedAt, holder, newest>>

\* Mutation: the count is reported whether or not alerts are evaluated.
CountAlone(r) == request[r].answers["count"]

\* Without the canary there is no count rather than a zero.
AlertCount(r) ==
    IF request[r].answers["watchdog"] = 1 THEN request[r].answers["count"] ELSE None

Built(r) == [observed |-> clock, alerts |-> AlertCount(r), missed |-> request[r].missed]

\* Mutation: a snapshot that lacks its alert count is not cached.
FinishHealthy(r) ==
    /\ request[r].at = "building"
    /\ \A q \in Query : request[r].answers[q] # None
    /\ cached' = IF AlertCount(r) = None THEN cached ELSE Built(r)
    /\ cachedAt' = IF AlertCount(r) = None THEN cachedAt ELSE request[r].now
    /\ Answer(r, Served(Built(r), FALSE, 0, TRUE))
    /\ UNCHANGED <<clock, world>>

\* Every query was answered: the new snapshot is cached under the time at which
\* the request arrived.
Finish(r) ==
    /\ request[r].at = "building"
    /\ \A q \in Query : request[r].answers[q] # None
    /\ cached' = Built(r)
    /\ cachedAt' = request[r].now
    /\ Answer(r, Served(Built(r), FALSE, 0, TRUE))
    /\ UNCHANGED <<clock, world>>

StaleAllowed(r) == cached # None /\ Age(r) < StaleLimit

\* Mutation: an exception leaves the lock taken.
FailLocked(r) ==
    /\ request[r].at = "building"
    /\ request' = [request EXCEPT ![r].at = "done", ![r].reply = Closed]
    /\ UNCHANGED <<clock, world, cached, cachedAt, holder, newest>>

\* A query failed, timed out or had no valid result; or the answer had a shape
\* nobody catches, and the thread ends without a reply.
Fail(r) ==
    /\ request[r].at = "building"
    /\ \/ Answer(r, IF StaleAllowed(r) THEN Served(cached, TRUE, Age(r), FALSE) ELSE Error)
       \/ Answer(r, Closed)
    /\ UNCHANGED <<clock, world, cached, cachedAt>>

\* The connection is closed; the client may come again.
Leave(r) ==
    /\ request[r].at = "done"
    /\ request' = [request EXCEPT ![r] = Fresh]
    /\ UNCHANGED <<clock, world, cached, cachedAt, holder, newest>>

----------------------------------------------------------------------------
(* Time and Prometheus                                                     *)

Tick ==
    /\ clock < MaxTime
    /\ clock' = clock + 1
    /\ UNCHANGED <<world, cached, cachedAt, holder, request, newest>>

\* It restarts, loses or regains its rules, and alerts come and go.
Change ==
    /\ world' \in World \ {world}
    /\ request' = [r \in Request |->
                     IF request[r].at = "building"
                     THEN [request[r] EXCEPT !.missed =
                             @ /\ world'.firing /\ world'.evaluates = world.evaluates]
                     ELSE request[r]]
    /\ UNCHANGED <<clock, cached, cachedAt, holder, newest>>

----------------------------------------------------------------------------

Threads(r) ==
    \/ Arrive(r) \/ ServeCached(r) \/ StartBuild(r)
    \/ \E q \in Query : Ask(r, q)
    \/ Finish(r) \/ Fail(r) \/ Leave(r)

Next == (\E r \in Request : Threads(r)) \/ Tick \/ Change

Spec == Init /\ [][Next]_vars

\* Queries time out, so a build ends; the lock goes to some waiting thread, not
\* to each of them: Python's locks are not fair.
Fairness ==
    /\ WF_vars(\E r \in Request : ServeCached(r) \/ StartBuild(r))
    /\ WF_vars(\E r \in Request : Finish(r) \/ Fail(r))

FairSpec == Spec /\ Fairness

----------------------------------------------------------------------------
(* Properties                                                              *)

Given(r) == request[r].at = "done" /\ request[r].reply \notin {None, Error, Closed}

\* The age in a reply is at least the age its snapshot had when the request came,
\* whoever else built, served or failed while it waited: what waiting adds is the
\* only time cacheAgeSeconds leaves out.
AgeIsHonest ==
    \A r \in Request : Given(r) =>
        \/ request[r].reply.built
        \/ request[r].reply.age >= request[r].now - request[r].reply.snapshot.observed

\* An unmarked reply was no older than the cache lifetime when its request came,
\* a stale one no older than the stale limit (CACHE_TTL, STALE_TTL).
ServedWithinLimits ==
    \A r \in Request : Given(r) /\ ~request[r].reply.built =>
        request[r].now - request[r].reply.snapshot.observed <
            IF request[r].reply.stale THEN StaleLimit ELSE Ttl

\* Nobody is given an older snapshot than one handed out before the request came.
NeverOlderThanBefore ==
    \A r \in Request : Given(r) => request[r].reply.snapshot.observed >= request[r].floor

\* A count of no firing alerts is not wrong about the whole build: if one fired
\* all the time, evaluation began or stopped between two queries ("null counts
\* instead of a confident zero").
ZeroWasTrueOnce ==
    \A r \in Request : Given(r) => ~(request[r].reply.snapshot.alerts = 0 /\ request[r].reply.snapshot.missed)

\* A request that waited with an old clock reading never dates the cache back.
CacheTimeAdvances == [][cached # None => cachedAt' >= cachedAt]_vars

\* As long as someone waits, someone is answered: failing builds let go of the lock.
SomeoneIsAnswered ==
    (\E r \in Request : request[r].at = "waiting") ~> (\E r \in Request : request[r].at = "done")
============================================================================
