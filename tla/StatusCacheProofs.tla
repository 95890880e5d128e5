------------------------- MODULE StatusCacheProofs -------------------------
(***************************************************************************)
(* Proofs about StatusCache, for any number of request threads, any limits *)
(* and any span of time.  The properties are about safety, so they are     *)
(* proved for Spec and hold for FairSpec.                                  *)
(***************************************************************************)
EXTENDS StatusCache, TLAPS

----------------------------------------------------------------------------
(* Type correctness                                                        *)

LEMMA Numbers ==
    /\ Ttl \in Nat \ {0} /\ StaleLimit \in Nat /\ Ttl <= StaleLimit /\ MaxTime \in Nat
    /\ Time \subseteq Nat /\ 0 \in Time
    /\ \A a, b \in Time : a - b \in -MaxTime..MaxTime
    /\ None # 0 /\ None # 1 /\ None \notin Request
BY LimitsAreOrdered, TimeIsBounded, NoneIsNoRequest DEF Time

\* Only the thread of r changes, and to w.
Turns(r, w) ==
    /\ request' \in [Request -> Thread]
    /\ request'[r] = w
    /\ \A q \in Request \ {r} : request'[q] = request[q]

LEMMA FreshTyped == Fresh \in Thread /\ Fresh.at = "idle" /\ Fresh.answers = Unasked
<1>1. Unasked \in [Query -> {None, 0, 1}]
  BY DEF Unasked
<1>2. 0 \in Time /\ -1 \in -1..MaxTime
  BY Numbers
<1>. QED  BY <1>1, <1>2 DEF Fresh, Thread

LEMMA ArriveTurns ==
    ASSUME TypeOK, NEW r \in Request, Arrive(r)
    PROVE  \E w \in Thread :
              /\ Turns(r, w)
              /\ w.at = "waiting" /\ w.now = clock /\ w.floor = newest /\ w.answers = Unasked
<1>1. clock \in Time /\ newest \in -1..MaxTime
  BY DEF TypeOK
<1> DEFINE w == [Fresh EXCEPT !.at = "waiting", !.now = clock, !.floor = newest]
<1>2. /\ w \in Thread /\ w.at = "waiting" /\ w.now = clock /\ w.floor = newest
      /\ w.answers = Unasked
  BY <1>1, FreshTyped DEF Thread
<1>3. request' = [request EXCEPT ![r] = w]
  BY DEF Arrive
<1> HIDE DEF w
<1>. QED  BY <1>2, <1>3 DEF TypeOK, Turns

\* The thread that is answered keeps the time and the floor of its request.
LEMMA AnswerTurns ==
    ASSUME TypeOK, NEW r \in Request, NEW reply \in Reply \cup {Error, Closed},
           request' = [request EXCEPT ![r] =
                         [@ EXCEPT !.at = "done", !.reply = reply,
                                   !.answers = Unasked, !.missed = TRUE]]
    PROVE  \E w \in Thread :
              /\ Turns(r, w) /\ w.at = "done" /\ w.reply = reply
              /\ w.now = request[r].now /\ w.floor = request[r].floor
<1>1. request[r] \in Thread
  BY DEF TypeOK
<1>2. Unasked \in [Query -> {None, 0, 1}]
  BY DEF Unasked
<1>3. PICK w \in Thread :
        /\ w.at = "done" /\ w.reply = reply
        /\ w.now = request[r].now /\ w.floor = request[r].floor
        /\ request' = [request EXCEPT ![r] = w]
  BY <1>1, <1>2 DEF Thread
<1>. QED  BY <1>3 DEF TypeOK, Turns

LEMMA StartTurns ==
    ASSUME TypeOK, NEW r \in Request, StartBuild(r)
    PROVE  \E w \in Thread :
              /\ Turns(r, w) /\ w.at = "building" /\ w.missed = world.firing
              /\ w.now = request[r].now /\ w.floor = request[r].floor
              /\ w.answers = request[r].answers
<1>1. request[r] \in Thread /\ world.firing \in BOOLEAN
  BY DEF TypeOK, World
<1> DEFINE w == [request[r] EXCEPT !.at = "building", !.missed = world.firing]
<1>2. /\ w \in Thread /\ w.at = "building" /\ w.missed = world.firing
      /\ w.now = request[r].now /\ w.floor = request[r].floor
      /\ w.answers = request[r].answers
  BY <1>1 DEF Thread
<1>3. request' = [request EXCEPT ![r] = w]
  BY DEF StartBuild
<1> HIDE DEF w
<1>. QED  BY <1>2, <1>3 DEF TypeOK, Turns

LEMMA AskTurns ==
    ASSUME TypeOK, NEW r \in Request, NEW q \in Query, Ask(r, q)
    PROVE  \E w \in Thread :
              /\ Turns(r, w) /\ w.at = "building" /\ w.missed = request[r].missed
              /\ w.now = request[r].now /\ w.floor = request[r].floor
              /\ w.answers = [request[r].answers EXCEPT ![q] = Sample(q)]
<1>1. request[r] \in Thread /\ Sample(q) \in {0, 1} /\ request[r].at = "building"
  BY DEF TypeOK, Sample, Ask
<1>2. [request[r].answers EXCEPT ![q] = Sample(q)] \in [Query -> {None, 0, 1}]
  BY <1>1 DEF Thread
<1>3. PICK w \in Thread :
        /\ w.at = "building" /\ w.missed = request[r].missed
        /\ w.now = request[r].now /\ w.floor = request[r].floor
        /\ w.answers = [request[r].answers EXCEPT ![q] = Sample(q)]
        /\ request' = [request EXCEPT ![r] = w]
  BY <1>1, <1>2 DEF Thread, Ask
<1>. QED  BY <1>3 DEF TypeOK, Turns

LEMMA ServedTyped ==
    ASSUME NEW s \in Snapshot, NEW stale \in BOOLEAN, NEW age \in -MaxTime..MaxTime,
           NEW built \in BOOLEAN
    PROVE  LET reply == Served(s, stale, age, built)
           IN  /\ reply \in Reply /\ reply.snapshot = s /\ reply.stale = stale
               /\ reply.age = age /\ reply.built = built
BY DEF Served, Reply

LEMMA BuiltTyped ==
    ASSUME TypeOK, NEW r \in Request
    PROVE  /\ Built(r) \in Snapshot /\ Built(r).observed = clock
           /\ Built(r).alerts = AlertCount(r) /\ Built(r).missed = request[r].missed
<1>1. request[r] \in Thread
  BY DEF TypeOK
<1>2. request[r].missed \in BOOLEAN /\ AlertCount(r) \in {None, 0, 1}
  BY <1>1 DEF Thread, AlertCount, Query
<1>. QED  BY <1>2 DEF TypeOK, Built, Snapshot

LEMMA AgeTyped ==
    ASSUME TypeOK, NEW r \in Request
    PROVE  Age(r) \in -MaxTime..MaxTime /\ Age(r) = request[r].now - cachedAt
<1>1. request[r].now \in Time /\ cachedAt \in Time
  BY DEF TypeOK, Thread
<1>. QED  BY <1>1, Numbers DEF Age

\* The thread of r has its answer.
Replied(r, s, stale, age, built) ==
    \E w \in Thread :
        /\ Turns(r, w) /\ w.at = "done"
        /\ w.now = request[r].now /\ w.floor = request[r].floor
        /\ w.reply \in Reply /\ w.reply.snapshot = s /\ w.reply.stale = stale
        /\ w.reply.age = age /\ w.reply.built = built

\* What ends a request: its thread is answered, and the lock is free again.
LEMMA ServeTurns ==
    ASSUME TypeOK, NEW r \in Request,
           NEW s \in Snapshot, NEW stale \in BOOLEAN, NEW age \in -MaxTime..MaxTime,
           NEW built \in BOOLEAN,
           Answer(r, Served(s, stale, age, built))
    PROVE  /\ Replied(r, s, stale, age, built)
           /\ request' \in [Request -> Thread]
           /\ holder' = None
           /\ newest' \in {newest, s.observed} /\ newest' \in -1..MaxTime
<1>1. /\ Served(s, stale, age, built) \in Reply
      /\ Served(s, stale, age, built).snapshot = s
      /\ Served(s, stale, age, built).stale = stale
      /\ Served(s, stale, age, built).age = age
      /\ Served(s, stale, age, built).built = built
  BY DEF Served, Reply
<1>2. \E w \in Thread :
         /\ Turns(r, w) /\ w.at = "done" /\ w.reply = Served(s, stale, age, built)
         /\ w.now = request[r].now /\ w.floor = request[r].floor
  <2> DEFINE reply == Served(s, stale, age, built)
  <2>1. reply \in Reply \cup {Error, Closed}
    BY <1>1
  <2>2. request' = [request EXCEPT ![r] =
                      [@ EXCEPT !.at = "done", !.reply = reply,
                                !.answers = Unasked, !.missed = TRUE]]
    BY DEF Answer
  <2> HIDE DEF reply
  <2>3. \E w \in Thread :
           /\ Turns(r, w) /\ w.at = "done" /\ w.reply = reply
           /\ w.now = request[r].now /\ w.floor = request[r].floor
    BY <2>1, <2>2, AnswerTurns
  <2>. QED  BY <2>3 DEF reply
<1>3. newest' \in {newest, s.observed} /\ holder' = None
  BY <1>1 DEF Answer
<1>4. s.observed \in -1..MaxTime /\ newest \in -1..MaxTime
  BY Numbers DEF TypeOK, Snapshot, Time
<1>5. Replied(r, s, stale, age, built) /\ request' \in [Request -> Thread]
  BY <1>1, <1>2 DEF Replied, Turns
<1>. QED  BY <1>3, <1>4, <1>5

LEMMA RefuseTurns ==
    ASSUME TypeOK, NEW r \in Request, NEW reply \in {Error, Closed}, Answer(r, reply)
    PROVE  /\ \E w \in Thread :
                 /\ Turns(r, w) /\ w.at = "done" /\ w.reply = reply
                 /\ w.now = request[r].now /\ w.floor = request[r].floor
           /\ holder' = None /\ newest' = newest
BY AnswerTurns DEF Answer

LEMMA TypeInit == Init => TypeOK
BY FreshTyped, Numbers DEF Init, TypeOK

LEMMA TypeStep == TypeOK /\ [Next]_vars => TypeOK'
<1> SUFFICES ASSUME TypeOK, [Next]_vars PROVE TypeOK'
  OBVIOUS
<1>1. CASE UNCHANGED vars
  BY <1>1 DEF vars, TypeOK
<1>2. ASSUME NEW r \in Request, Arrive(r) PROVE TypeOK'
  <2>1. request' \in [Request -> Thread]
    BY <1>2, ArriveTurns DEF Turns
  <2>. QED  BY <1>2, <2>1 DEF Arrive, TypeOK
<1>3. ASSUME NEW r \in Request, ServeCached(r) PROVE TypeOK'
  <2>1. /\ cached \in Snapshot /\ Age(r) \in -MaxTime..MaxTime
        /\ Answer(r, Served(cached, FALSE, Age(r), FALSE))
        /\ UNCHANGED <<clock, world, cached, cachedAt>>
    BY <1>3, AgeTyped DEF ServeCached, Usable, TypeOK
  <2>2. request' \in [Request -> Thread] /\ holder' = None /\ newest' \in -1..MaxTime
    BY <2>1, ServeTurns
  <2>. QED  BY <2>1, <2>2 DEF TypeOK
<1>4. ASSUME NEW r \in Request, StartBuild(r) PROVE TypeOK'
  <2>1. request' \in [Request -> Thread]
    BY <1>4, StartTurns DEF Turns
  <2>. QED  BY <1>4, <2>1 DEF StartBuild, TypeOK
<1>5. ASSUME NEW r \in Request, NEW q \in Query, Ask(r, q) PROVE TypeOK'
  <2>1. request' \in [Request -> Thread]
    BY <1>5, AskTurns DEF Turns
  <2>. QED  BY <1>5, <2>1 DEF Ask, TypeOK
<1>6. ASSUME NEW r \in Request, Finish(r) PROVE TypeOK'
  <2>0. 0 \in -MaxTime..MaxTime /\ request[r].now \in Time
    BY Numbers DEF TypeOK, Thread
  <2>1. /\ Built(r) \in Snapshot
        /\ Answer(r, Served(Built(r), FALSE, 0, TRUE))
        /\ cached' = Built(r) /\ cachedAt' = request[r].now /\ UNCHANGED <<clock, world>>
    BY <1>6, BuiltTyped DEF Finish
  <2>2. request' \in [Request -> Thread] /\ holder' = None /\ newest' \in -1..MaxTime
    BY <2>0, <2>1, ServeTurns
  <2>. QED  BY <2>0, <2>1, <2>2 DEF TypeOK
<1>7. ASSUME NEW r \in Request, Fail(r) PROVE TypeOK'
  <2>1. UNCHANGED <<clock, world, cached, cachedAt>>
    BY <1>7 DEF Fail
  <2>2. CASE StaleAllowed(r) /\ Answer(r, Served(cached, TRUE, Age(r), FALSE))
    <3>1. cached \in Snapshot /\ Age(r) \in -MaxTime..MaxTime
      BY <2>2, AgeTyped DEF StaleAllowed, TypeOK
    <3>2. request' \in [Request -> Thread] /\ holder' = None /\ newest' \in -1..MaxTime
      BY <2>2, <3>1, ServeTurns
    <3>. QED  BY <2>1, <3>2 DEF TypeOK
  <2>3. CASE Answer(r, Error) \/ Answer(r, Closed)
    <3>1. request' \in [Request -> Thread] /\ holder' = None /\ newest' = newest
      BY <2>3, RefuseTurns DEF Turns
    <3>. QED  BY <2>1, <3>1 DEF TypeOK
  <2>. QED  BY <1>7, <2>2, <2>3 DEF Fail
<1>8. ASSUME NEW r \in Request, Leave(r) PROVE TypeOK'
  BY <1>8, FreshTyped DEF Leave, TypeOK
<1>9. CASE Tick
  BY <1>9, Numbers DEF Tick, TypeOK, Time
<1>10. CASE Change
  <2>1. request' \in [Request -> Thread]
    <3>1. ASSUME NEW r \in Request, NEW missed \in BOOLEAN
          PROVE  [request[r] EXCEPT !.missed = missed] \in Thread /\ request[r] \in Thread
      BY DEF TypeOK, Thread
    <3>2. \A r \in Request : (request[r].missed /\ world'.firing
                              /\ world'.evaluates = world.evaluates) \in BOOLEAN
      OBVIOUS
    <3>. QED  BY <1>10, <3>1, <3>2 DEF Change
  <2>. QED  BY <1>10, <2>1 DEF Change, TypeOK
<1>. QED
  BY <1>1, <1>2, <1>3, <1>4, <1>5, <1>6, <1>7, <1>8, <1>9, <1>10 DEF Next, Threads

\* The type invariant of the status API.
THEOREM StatusTypeCorrect == Spec => []TypeOK
BY TypeInit, TypeStep, PTL DEF Spec

----------------------------------------------------------------------------
(* Ages.  The cache is dated no later than its observation, nobody has     *)
(* been given anything newer than it, and a thread that builds holds the   *)
(* lock and came after the cache it found unusable.                        *)

GoodReply(w) ==
    LET snapshot == w.reply.snapshot
    IN  /\ w.reply.built \/ w.reply.age >= w.now - snapshot.observed
        /\ ~w.reply.built => w.now - snapshot.observed < (IF w.reply.stale THEN StaleLimit ELSE Ttl)
        /\ snapshot.observed >= w.floor

SoundThread(q) ==
    /\ request[q].now <= clock /\ request[q].floor <= newest
    /\ request[q].at = "building" =>
          holder = q /\ (cached # None => cachedAt <= request[q].now)
    /\ Given(q) => GoodReply(request[q])

SoundCache ==
    /\ newest <= clock
    /\ cached # None =>
          cachedAt <= cached.observed /\ cached.observed <= clock /\ newest <= cached.observed

Sound == SoundCache /\ \A q \in Request : SoundThread(q)

LEMMA Ranges ==
    ASSUME TypeOK
    PROVE  /\ clock \in Int /\ cachedAt \in Int /\ newest \in Int /\ Ttl \in Int /\ StaleLimit \in Int
           /\ cached # None => cached \in Snapshot /\ cached.observed \in Int
           /\ \A q \in Request : request[q] \in Thread /\ request[q].now \in Int /\ request[q].floor \in Int
           /\ 0 <= clock /\ -1 <= newest /\ -1 <= 0
BY Numbers DEF TypeOK, Thread, Snapshot, Time

\* A step of one thread keeps the others sound.
LEMMA OthersSound ==
    ASSUME TypeOK, Sound, NEW r \in Request, NEW w \in Thread, Turns(r, w),
           clock' = clock, newest' >= newest, newest' \in Int,
           \/ UNCHANGED <<cached, cachedAt, holder>>
           \/ holder \in {None, r}
    PROVE  \A q \in Request \ {r} : SoundThread(q)'
<1> SUFFICES ASSUME NEW q \in Request \ {r} PROVE SoundThread(q)'
  OBVIOUS
<1>1. request'[q] = request[q] /\ SoundThread(q)
  BY DEF Turns, Sound
<1>2. request'[q].now <= clock' /\ request'[q].floor <= newest'
  BY <1>1, Ranges DEF SoundThread
<1>3. ASSUME request'[q].at = "building"
      PROVE  holder' = q /\ (cached' # None => cachedAt' <= request'[q].now)
  <2>1. holder = q /\ q # None
    BY <1>1, <1>3, Numbers DEF SoundThread
  <2>2. UNCHANGED <<cached, cachedAt, holder>>
    BY <2>1
  <2>. QED  BY <1>1, <1>3, <2>1, <2>2 DEF SoundThread
<1>4. Given(q)' => GoodReply(request'[q])
  BY <1>1 DEF SoundThread, Given
<1>. QED  BY <1>2, <1>3, <1>4 DEF SoundThread

\* Serving a cache of an age below its limit gives a good reply.
LEMMA ServeSound ==
    ASSUME TypeOK, Sound, NEW r \in Request, NEW stale \in BOOLEAN, cached # None,
           Age(r) < (IF stale THEN StaleLimit ELSE Ttl),
           Answer(r, Served(cached, stale, Age(r), FALSE)),
           holder \in {None, r}, UNCHANGED <<clock, cached, cachedAt>>
    PROVE  Sound'
<1>1. cached \in Snapshot /\ Age(r) \in -MaxTime..MaxTime /\ Age(r) = request[r].now - cachedAt
  BY AgeTyped DEF TypeOK
<1>2. PICK w \in Thread :
        /\ Turns(r, w) /\ w.at = "done"
        /\ w.now = request[r].now /\ w.floor = request[r].floor
        /\ w.reply \in Reply /\ w.reply.snapshot = cached /\ w.reply.stale = stale
        /\ w.reply.age = Age(r) /\ w.reply.built = FALSE
  <2>1. Replied(r, cached, stale, Age(r), FALSE)
    BY <1>1, ServeTurns
  <2>. QED  BY <2>1 DEF Replied
<1>3. /\ holder' = None
      /\ newest' \in {newest, cached.observed}
  BY <1>1, ServeTurns
<1>4. /\ cachedAt <= cached.observed /\ cached.observed <= clock /\ newest <= cached.observed
      /\ newest <= clock /\ request[r].now <= clock /\ request[r].floor <= newest
  BY DEF Sound, SoundCache, SoundThread
<1>5. newest' >= newest /\ newest' \in Int /\ newest' <= cached.observed
  BY <1>3, <1>4, Ranges
<1>6. GoodReply(w)
  BY <1>1, <1>2, <1>4, Ranges DEF GoodReply
<1>7. SoundThread(r)'
  BY <1>2, <1>4, <1>5, <1>6, Ranges DEF SoundThread, Turns
<1>8. \A q \in Request \ {r} : SoundThread(q)'
  BY <1>2, <1>5, OthersSound
<1>9. SoundCache'
  BY <1>4, <1>5, Ranges DEF SoundCache
<1>. QED  BY <1>7, <1>8, <1>9 DEF Sound

LEMMA SoundStep == TypeOK /\ Sound /\ [Next]_vars => Sound'
<1> SUFFICES ASSUME TypeOK, Sound, [Next]_vars PROVE Sound'
  OBVIOUS
<1>1. CASE UNCHANGED vars
  BY <1>1 DEF vars, Sound, SoundCache, SoundThread, Given
<1>2. ASSUME NEW r \in Request, Arrive(r) PROVE Sound'
  <2>1. PICK w \in Thread : Turns(r, w) /\ w.at = "waiting" /\ w.now = clock /\ w.floor = newest
    BY <1>2, ArriveTurns
  <2>2. UNCHANGED <<clock, cached, cachedAt, holder, newest>>
    BY <1>2 DEF Arrive
  <2>3. SoundThread(r)'
    BY <2>1, <2>2, Ranges DEF SoundThread, Turns, Given
  <2>4. \A q \in Request \ {r} : SoundThread(q)'
    BY <2>1, <2>2, OthersSound, Ranges
  <2>. QED  BY <2>2, <2>3, <2>4 DEF Sound, SoundCache
<1>3. ASSUME NEW r \in Request, ServeCached(r) PROVE Sound'
  BY <1>3, ServeSound DEF ServeCached, Usable
<1>4. ASSUME NEW r \in Request, StartBuild(r) PROVE Sound'
  <2>1. PICK w \in Thread :
          Turns(r, w) /\ w.at = "building" /\ w.now = request[r].now /\ w.floor = request[r].floor
    BY <1>4, StartTurns
  <2>2. UNCHANGED <<clock, cached, cachedAt, newest>> /\ holder = None /\ holder' = r
    BY <1>4 DEF StartBuild
  <2>3. cached # None => cachedAt <= request[r].now
    BY <1>4, AgeTyped, Ranges, Numbers DEF StartBuild, Usable
  <2>4. SoundThread(r)'
    BY <2>1, <2>2, <2>3 DEF SoundThread, Turns, Given, Sound
  <2>5. \A q \in Request \ {r} : SoundThread(q)'
    BY <2>1, <2>2, OthersSound, Ranges
  <2>. QED  BY <2>2, <2>4, <2>5 DEF Sound, SoundCache
<1>5. ASSUME NEW r \in Request, NEW q \in Query, Ask(r, q) PROVE Sound'
  <2>1. PICK w \in Thread :
          Turns(r, w) /\ w.at = "building" /\ w.now = request[r].now /\ w.floor = request[r].floor
    BY <1>5, AskTurns
  <2>2. UNCHANGED <<clock, cached, cachedAt, holder, newest>> /\ request[r].at = "building"
    BY <1>5 DEF Ask
  <2>4. SoundThread(r)'
    BY <2>1, <2>2 DEF SoundThread, Turns, Given, Sound
  <2>5. \A p \in Request \ {r} : SoundThread(p)'
    BY <2>1, <2>2, OthersSound, Ranges
  <2>. QED  BY <2>2, <2>4, <2>5 DEF Sound, SoundCache
<1>6. ASSUME NEW r \in Request, Finish(r) PROVE Sound'
  <2>0. 0 \in -MaxTime..MaxTime /\ Built(r) \in Snapshot /\ Built(r).observed = clock
    BY Numbers, BuiltTyped
  <2>a. Replied(r, Built(r), FALSE, 0, TRUE)
    BY <1>6, <2>0, ServeTurns DEF Finish
  <2>1. PICK w \in Thread :
          /\ Turns(r, w) /\ w.at = "done"
          /\ w.now = request[r].now /\ w.floor = request[r].floor
          /\ w.reply \in Reply /\ w.reply.snapshot = Built(r) /\ w.reply.built = TRUE
    BY <2>a DEF Replied
  <2>2. /\ newest' \in {newest, clock} /\ holder' = None
        /\ clock' = clock /\ cached' = Built(r) /\ cachedAt' = request[r].now
    BY <1>6, <2>0, ServeTurns DEF Finish
  <2>3. /\ newest <= clock /\ request[r].now <= clock /\ request[r].floor <= newest /\ holder = r
    BY <1>6 DEF Finish, Sound, SoundCache, SoundThread
  <2>4. newest' >= newest /\ newest' <= clock /\ newest' \in Int
    BY <2>2, <2>3, Ranges
  <2>5. GoodReply(w)
    BY <2>0, <2>1, <2>3, Ranges DEF GoodReply
  <2>6. SoundThread(r)'
    BY <2>1, <2>2, <2>3, <2>4, <2>5, Ranges DEF SoundThread, Turns
  <2>7. \A q \in Request \ {r} : SoundThread(q)'
    BY <2>1, <2>2, <2>3, <2>4, OthersSound
  <2>8. SoundCache'
    BY <2>0, <2>2, <2>3, <2>4, Ranges DEF SoundCache
  <2>. QED  BY <2>6, <2>7, <2>8 DEF Sound
<1>7. ASSUME NEW r \in Request, Fail(r) PROVE Sound'
  <2>1. holder = r /\ UNCHANGED <<clock, cached, cachedAt>>
    BY <1>7 DEF Fail, Sound, SoundThread
  <2>2. CASE StaleAllowed(r) /\ Answer(r, Served(cached, TRUE, Age(r), FALSE))
    BY <2>1, <2>2, ServeSound DEF StaleAllowed
  <2>3. CASE Answer(r, Error) \/ Answer(r, Closed)
    <3>1. PICK w \in Thread :
            /\ Turns(r, w) /\ w.at = "done" /\ w.reply \in {Error, Closed}
            /\ w.now = request[r].now /\ w.floor = request[r].floor
      BY <2>3, RefuseTurns
    <3>2. newest' = newest
      BY <2>3, RefuseTurns
    <3>3. SoundThread(r)'
      BY <2>1, <3>1, <3>2 DEF SoundThread, Turns, Given, Sound
    <3>4. \A q \in Request \ {r} : SoundThread(q)'
      BY <2>1, <3>1, <3>2, OthersSound, Ranges
    <3>. QED  BY <2>1, <3>2, <3>3, <3>4 DEF Sound, SoundCache
  <2>. QED  BY <1>7, <2>2, <2>3 DEF Fail
<1>8. ASSUME NEW r \in Request, Leave(r) PROVE Sound'
  <2>1. Turns(r, Fresh) /\ UNCHANGED <<clock, cached, cachedAt, holder, newest>>
    BY <1>8, FreshTyped DEF Leave, Turns, TypeOK
  <2>2. Fresh.now = 0 /\ Fresh.floor = -1 /\ Fresh.at = "idle"
    BY DEF Fresh
  <2>3. SoundThread(r)'
    BY <2>1, <2>2, Ranges DEF SoundThread, Turns, Given
  <2>4. \A q \in Request \ {r} : SoundThread(q)'
    BY <2>1, FreshTyped, OthersSound, Ranges
  <2>. QED  BY <2>1, <2>3, <2>4 DEF Sound, SoundCache
<1>9. CASE Tick
  BY <1>9, Ranges DEF Tick, Sound, SoundCache, SoundThread, Given
<1>10. CASE Change
  <2>1. \A q \in Request :
           /\ request'[q].now = request[q].now /\ request'[q].floor = request[q].floor
           /\ request'[q].at = request[q].at /\ request'[q].reply = request[q].reply
    BY <1>10, Ranges DEF Change, Thread
  <2>. QED  BY <1>10, <2>1 DEF Change, Sound, SoundCache, SoundThread, Given, GoodReply
<1>. QED
  BY <1>1, <1>2, <1>3, <1>4, <1>5, <1>6, <1>7, <1>8, <1>9, <1>10 DEF Next, Threads

LEMMA SoundAlways == Spec => []Sound
<1>1. Init => Sound
  BY DEF Init, Sound, SoundCache, SoundThread, Given, Fresh
<1>. QED  BY <1>1, SoundStep, StatusTypeCorrect, PTL DEF Spec

\* No reply claims a smaller age than its snapshot had when the request came.
THEOREM AgesAreHonest == Spec => []AgeIsHonest
<1>1. Sound => AgeIsHonest
  BY DEF Sound, SoundThread, GoodReply, AgeIsHonest
<1>. QED  BY <1>1, SoundAlways, PTL

\* What is served from the cache is within the two limits.
THEOREM LimitsAreKept == Spec => []ServedWithinLimits
<1>1. Sound => ServedWithinLimits
  BY DEF Sound, SoundThread, GoodReply, ServedWithinLimits
<1>. QED  BY <1>1, SoundAlways, PTL

\* Clients never go back in time.
THEOREM NobodyGoesBack == Spec => []NeverOlderThanBefore
<1>1. Sound => NeverOlderThanBefore
  BY DEF Sound, SoundThread, GoodReply, NeverOlderThanBefore
<1>. QED  BY <1>1, SoundAlways, PTL

\* The cache is never dated back.
THEOREM CacheIsNotDatedBack == Spec => CacheTimeAdvances
<1>1. TypeOK /\ Sound /\ [Next]_vars => [cached # None => cachedAt' >= cachedAt]_vars
  <2> SUFFICES ASSUME TypeOK, Sound, [Next]_vars, cached # None
               PROVE  cachedAt' >= cachedAt
    OBVIOUS
  <2>1. cachedAt \in Int
    BY Ranges
  <2>2. ASSUME NEW r \in Request, Finish(r) PROVE cachedAt' >= cachedAt
    BY <2>2, Ranges DEF Finish, Sound, SoundThread
  <2>3. CASE UNCHANGED cachedAt
    BY <2>1, <2>3
  <2>. QED
    BY <2>2, <2>3 DEF Next, vars, Threads, Arrive, ServeCached, StartBuild, Ask, Fail, Leave,
                     Tick, Change
<1>. QED  BY <1>1, SoundAlways, StatusTypeCorrect, PTL DEF Spec, CacheTimeAdvances

----------------------------------------------------------------------------
(* The alert counts.  As long as an alert has fired all through a build    *)
(* and evaluation did not change, the canary was seen only if alerts are   *)
(* evaluated, and a zero only if they are not.                             *)

NoFalseZero(s) == ~(s.alerts = 0 /\ s.missed)

TruthfulThread(q) ==
    /\ request[q].at = "waiting" => request[q].answers = Unasked
    /\ request[q].at = "building" /\ request[q].missed =>
          /\ world.firing
          /\ request[q].answers["watchdog"] = 1 => world.evaluates
          /\ request[q].answers["count"] = 0 => ~world.evaluates
    /\ Given(q) => NoFalseZero(request[q].reply.snapshot)

Truthful ==
    /\ cached # None => NoFalseZero(cached)
    /\ \A q \in Request : TruthfulThread(q)

LEMMA OthersTruthful ==
    ASSUME Truthful, NEW r \in Request, NEW w, Turns(r, w), world' = world
    PROVE  \A q \in Request \ {r} : TruthfulThread(q)'
BY DEF Truthful, TruthfulThread, Turns, Given

LEMMA BuiltTruthful ==
    ASSUME TypeOK, Truthful, NEW r \in Request, request[r].at = "building"
    PROVE  NoFalseZero(Built(r))
<1> SUFFICES ASSUME Built(r).alerts = 0, Built(r).missed PROVE FALSE
  BY DEF NoFalseZero
<1>1. AlertCount(r) = 0 /\ request[r].missed
  BY BuiltTyped
<1>2. request[r].answers["watchdog"] = 1 /\ request[r].answers["count"] = 0
  BY <1>1, Numbers DEF AlertCount
<1>. QED  BY <1>1, <1>2 DEF Truthful, TruthfulThread

LEMMA ReplyTruthful ==
    ASSUME TypeOK, Truthful, NEW r \in Request, NEW s \in Snapshot, NEW stale \in BOOLEAN,
           NEW age \in -MaxTime..MaxTime, NEW built \in BOOLEAN,
           Answer(r, Served(s, stale, age, built)),
           NoFalseZero(s), world' = world, cached' # None => NoFalseZero(cached')
    PROVE  Truthful'
<1>1. Replied(r, s, stale, age, built)
  BY ServeTurns
<1>2. PICK w \in Thread : Turns(r, w) /\ w.at = "done" /\ w.reply.snapshot = s
  BY <1>1 DEF Replied
<1>3. TruthfulThread(r)'
  BY <1>2 DEF TruthfulThread, Turns
<1>. QED  BY <1>2, <1>3, OthersTruthful DEF Truthful

LEMMA TruthfulStep == TypeOK /\ Truthful /\ [Next]_vars => Truthful'
<1> SUFFICES ASSUME TypeOK, Truthful, [Next]_vars PROVE Truthful'
  OBVIOUS
<1>1. CASE UNCHANGED vars
  BY <1>1 DEF vars, Truthful, TruthfulThread, Given
<1>2. ASSUME NEW r \in Request, Arrive(r) PROVE Truthful'
  <2>1. PICK w \in Thread : Turns(r, w) /\ w.at = "waiting" /\ w.answers = Unasked
    BY <1>2, ArriveTurns
  <2>2. TruthfulThread(r)'
    BY <2>1 DEF TruthfulThread, Turns, Given
  <2>. QED  BY <1>2, <2>1, <2>2, OthersTruthful DEF Arrive, Truthful
<1>3. ASSUME NEW r \in Request, ServeCached(r) PROVE Truthful'
  <2>1. /\ cached \in Snapshot /\ Age(r) \in -MaxTime..MaxTime /\ NoFalseZero(cached)
        /\ Answer(r, Served(cached, FALSE, Age(r), FALSE))
        /\ world' = world /\ cached' = cached
    BY <1>3, AgeTyped DEF ServeCached, Usable, TypeOK, Truthful
  <2>. QED  BY <2>1, ReplyTruthful
<1>4. ASSUME NEW r \in Request, StartBuild(r) PROVE Truthful'
  <2>1. PICK w \in Thread :
          /\ Turns(r, w) /\ w.at = "building" /\ w.missed = world.firing
          /\ w.answers = request[r].answers
    BY <1>4, StartTurns
  <2>2. w.answers["watchdog"] = None /\ w.answers["count"] = None
    BY <1>4, <2>1 DEF StartBuild, Truthful, TruthfulThread, Unasked, Query
  <2>3. TruthfulThread(r)'
    BY <1>4, <2>1, <2>2, Numbers DEF StartBuild, TruthfulThread, Turns, Given
  <2>. QED  BY <1>4, <2>1, <2>3, OthersTruthful DEF StartBuild, Truthful
<1>5. ASSUME NEW r \in Request, NEW q \in Query, Ask(r, q) PROVE Truthful'
  <2>1. PICK w \in Thread :
          /\ Turns(r, w) /\ w.at = "building" /\ w.missed = request[r].missed
          /\ w.answers = [request[r].answers EXCEPT ![q] = Sample(q)]
    BY <1>5, AskTurns
  <2>2. request[r].answers \in [Query -> {None, 0, 1}]
    BY DEF TypeOK, Thread
  <2>3. ASSUME w.missed
        PROVE  /\ world.firing
               /\ w.answers["watchdog"] = 1 => world.evaluates
               /\ w.answers["count"] = 0 => ~world.evaluates
    <3>1. /\ world.firing
          /\ request[r].answers["watchdog"] = 1 => world.evaluates
          /\ request[r].answers["count"] = 0 => ~world.evaluates
      BY <1>5, <2>1, <2>3 DEF Ask, Truthful, TruthfulThread
    <3>2. CASE q = "watchdog"
      <4>1. w.answers["watchdog"] = 1 => world.evaluates
        BY <2>1, <2>2, <3>2 DEF Sample, Query
      <4>2. w.answers["count"] = request[r].answers["count"]
        BY <2>1, <2>2, <3>2 DEF Query
      <4>. QED  BY <3>1, <4>1, <4>2
    <3>3. CASE q = "count"
      <4>1. w.answers["count"] = 0 => ~world.evaluates
        BY <2>1, <2>2, <3>1, <3>3 DEF Sample, Query
      <4>2. w.answers["watchdog"] = request[r].answers["watchdog"]
        BY <2>1, <2>2, <3>3 DEF Query
      <4>. QED  BY <3>1, <4>1, <4>2
    <3>. QED  BY <3>2, <3>3 DEF Query
  <2>4. TruthfulThread(r)'
    BY <1>5, <2>1, <2>3 DEF Ask, TruthfulThread, Turns, Given
  <2>. QED  BY <1>5, <2>1, <2>4, OthersTruthful DEF Ask, Truthful
<1>6. ASSUME NEW r \in Request, Finish(r) PROVE Truthful'
  <2>1. /\ 0 \in -MaxTime..MaxTime /\ Built(r) \in Snapshot /\ NoFalseZero(Built(r))
    BY <1>6, Numbers, BuiltTyped, BuiltTruthful DEF Finish
  <2>2. /\ Answer(r, Served(Built(r), FALSE, 0, TRUE))
        /\ world' = world /\ cached' = Built(r)
    BY <1>6 DEF Finish
  <2>. QED  BY <2>1, <2>2, ReplyTruthful
<1>7. ASSUME NEW r \in Request, Fail(r) PROVE Truthful'
  <2>1. UNCHANGED <<world, cached>>
    BY <1>7 DEF Fail
  <2>2. CASE StaleAllowed(r) /\ Answer(r, Served(cached, TRUE, Age(r), FALSE))
    <3>1. cached \in Snapshot /\ Age(r) \in -MaxTime..MaxTime /\ NoFalseZero(cached)
      BY <2>2, AgeTyped DEF StaleAllowed, TypeOK, Truthful
    <3>2. cached' # None => NoFalseZero(cached')
      BY <2>1, <3>1
    <3>. QED  BY <2>1, <2>2, <3>1, <3>2, ReplyTruthful
  <2>3. CASE Answer(r, Error) \/ Answer(r, Closed)
    <3>1. PICK w \in Thread : Turns(r, w) /\ w.at = "done" /\ w.reply \in {Error, Closed}
      BY <2>3, RefuseTurns
    <3>2. TruthfulThread(r)'
      BY <3>1 DEF TruthfulThread, Turns, Given
    <3>. QED  BY <2>1, <3>1, <3>2, OthersTruthful DEF Truthful
  <2>. QED  BY <1>7, <2>2, <2>3 DEF Fail
<1>8. ASSUME NEW r \in Request, Leave(r) PROVE Truthful'
  <2>1. Turns(r, Fresh) /\ UNCHANGED <<world, cached>>
    BY <1>8, FreshTyped DEF Leave, Turns, TypeOK
  <2>2. TruthfulThread(r)'
    BY <2>1, FreshTyped DEF TruthfulThread, Turns, Given
  <2>. QED  BY <2>1, <2>2, OthersTruthful DEF Truthful
<1>9. CASE Tick
  BY <1>9 DEF Tick, Truthful, TruthfulThread, Given
<1>10. CASE Change
  <2>1. ASSUME NEW q \in Request PROVE TruthfulThread(q)'
    <3>1. request[q] \in Thread
      BY DEF TypeOK
    <3>2. /\ request'[q].at = request[q].at /\ request'[q].answers = request[q].answers
          /\ request'[q].reply = request[q].reply
      BY <1>10, <3>1 DEF Change, Thread
    <3>3. ASSUME request[q].at = "building", request'[q].missed
          PROVE  request[q].missed /\ world'.firing /\ world'.evaluates = world.evaluates
      BY <1>10, <3>1, <3>3 DEF Change, Thread
    <3>. QED  BY <3>2, <3>3 DEF Truthful, TruthfulThread, Given
  <2>. QED  BY <1>10, <2>1 DEF Change, Truthful
<1>. QED
  BY <1>1, <1>2, <1>3, <1>4, <1>5, <1>6, <1>7, <1>8, <1>9, <1>10 DEF Next, Threads

\* No client is told that nothing fires when something did all the time.
THEOREM ZerosAreTrue == Spec => []ZeroWasTrueOnce
<1>1. Init => Truthful
  BY DEF Init, Truthful, TruthfulThread, Given, Fresh
<1>2. Truthful => ZeroWasTrueOnce
  BY DEF Truthful, TruthfulThread, NoFalseZero, ZeroWasTrueOnce
<1>. QED  BY <1>1, <1>2, TruthfulStep, StatusTypeCorrect, PTL DEF Spec
============================================================================
