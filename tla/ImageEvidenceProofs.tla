------------------------ MODULE ImageEvidenceProofs ------------------------
(***************************************************************************)
(* Proofs about ImageEvidence, for any sources, images and revisions, any  *)
(* findings, retention, number of parallel shards and of attempts.  The    *)
(* properties are about safety, so they are proved for Spec and hold for   *)
(* FairSpec.                                                               *)
(***************************************************************************)
EXTENDS ImageEvidence, FiniteSetTheorems, WellFoundedInduction, TLAPS

----------------------------------------------------------------------------
(* Sums and latest times                                                   *)

\* A set of natural numbers has a least one.
LEMMA LeastNatural ==
    ASSUME NEW T, T \subseteq Nat, T # {}
    PROVE  \E x \in T : \A y \in T : x <= y
<1>1. PICK x \in T : \A y \in T : ~(<<y, x>> \in OpToRel(<, Nat))
  BY NatLessThanWellFounded, WFMin
<1>2. ASSUME NEW y \in T PROVE x <= y
  <2>1. x \in Nat /\ y \in Nat /\ <<y, x>> \in Nat \X Nat
    OBVIOUS
  <2>2. y < x => <<y, x>> \in OpToRel(<, Nat)
    BY <2>1 DEF OpToRel
  <2>3. ~(y < x)
    BY <1>1, <2>2
  <2> QED BY <2>1, <2>3
<1> QED BY <1>2

\* The latest of some bounded times is one of them.
LEMMA GreatestNatural ==
    ASSUME NEW S, NEW n \in Nat, S \subseteq 0..n, S # {}
    PROVE  Max(S) \in S
<1> DEFINE T == {m \in Nat : n - m \in S}
<1>1. T # {}
  <2>1. PICK x : x \in S
    OBVIOUS
  <2>2. x \in 0..n
    BY <2>1
  <2>3. n - x \in Nat /\ n - (n - x) = x
    BY <2>2
  <2>4. n - x \in T
    BY <2>1, <2>3
  <2> QED BY <2>4
<1>2. PICK m \in T : \A k \in T : m <= k
  BY <1>1, LeastNatural
<1>3. m \in Nat /\ n - m \in S
  BY <1>2
<1>4. ASSUME NEW y \in S PROVE n - m >= y
  <2>1. y \in 0..n
    BY <1>4
  <2>2. n - y \in Nat /\ n - (n - y) = y
    BY <2>1
  <2>3. n - y \in T
    BY <2>2, <1>4
  <2>4. m <= n - y
    BY <1>2, <2>3
  <2> QED BY <2>1, <2>4, <1>3
<1> QED BY <1>3, <1>4 DEF Max

\* The element the sum of a function adds first.
First(s) == CHOOSE x \in s : TRUE

\* The recursion behind the sum of a function, over any family of its arguments.
Adds(it, f, sets) ==
    it = [s \in sets |-> IF s = {} THEN 0 ELSE f[First(s)] + it[s \ {First(s)}]]

\* SumFunction chooses a function that satisfies this recursion.
LEMMA SumUnfolded ==
    ASSUME NEW f, NEW S, S = DOMAIN f
    PROVE  \E it : it = (CHOOSE g : Adds(g, f, SUBSET S)) /\ SumFunction(f) = it[S]
BY DEF SumFunction, SumFunctionOnSet, FoldFunctionOnSet, MapThenFoldSet, Adds, First

\* Taking one element away makes a finite set smaller by one.
LEMMA FirstRemoved ==
    ASSUME NEW S, IsFiniteSet(S), NEW s \in SUBSET S, s # {}
    PROVE  /\ First(s) \in S
           /\ s \ {First(s)} \in SUBSET S
           /\ Cardinality(s) \in Nat
           /\ Cardinality(s \ {First(s)}) = Cardinality(s) - 1
           /\ Cardinality(s \ {First(s)}) \in Nat
<1>1. First(s) \in s
  BY DEF First
<1>2. IsFiniteSet(s) /\ IsFiniteSet(s \ {First(s)})
  BY FS_Subset
<1>3. Cardinality(s) \in Nat /\ Cardinality(s \ {First(s)}) \in Nat
  BY <1>2, FS_CardinalityType
<1>4. Cardinality(s \ {First(s)}) = Cardinality(s) - 1
  BY <1>1, <1>2, FS_RemoveElement
<1> QED BY <1>1, <1>3, <1>4

\* Whatever satisfies the recursion adds natural numbers to a natural number.
LEMMA SumsAreNatural ==
    ASSUME NEW S, IsFiniteSet(S), NEW f, \A x \in S : f[x] \in Nat,
           NEW it, Adds(it, f, SUBSET S)
    PROVE  it[S] \in Nat
<1> DEFINE T == {n \in Nat : \E s \in SUBSET S : Cardinality(s) = n /\ it[s] \notin Nat}
<1>1. T = {}
  <2> SUFFICES ASSUME T # {} PROVE FALSE
    OBVIOUS
  <2>1. PICK n \in T : \A k \in T : n <= k
    BY LeastNatural
  <2>2. PICK s \in SUBSET S : Cardinality(s) = n /\ it[s] \notin Nat
    BY <2>1
  <2>3. it[s] = IF s = {} THEN 0 ELSE f[First(s)] + it[s \ {First(s)}]
    BY DEF Adds
  <2>4. s # {}
    BY <2>2, <2>3
  <2> DEFINE u == s \ {First(s)}
  <2>5. /\ First(s) \in S /\ u \in SUBSET S
        /\ Cardinality(s) \in Nat /\ Cardinality(u) \in Nat
        /\ Cardinality(u) = Cardinality(s) - 1
    BY <2>4, FirstRemoved
  <2>6. Cardinality(u) \notin T
    <3>1. ~(n <= Cardinality(u))
      BY <2>2, <2>5
    <3> QED BY <2>1, <3>1
  <2>7. it[u] \in Nat
    BY <2>5, <2>6
  <2> QED BY <2>2, <2>3, <2>4, <2>5, <2>7
<1>2. Cardinality(S) \in Nat
  BY FS_CardinalityType
<1>3. Cardinality(S) \notin T
  BY <1>1
<1> QED BY <1>2, <1>3

\* Over a finite set some function satisfies the recursion.
LEMMA SumsExist ==
    ASSUME NEW S, IsFiniteSet(S), NEW f
    PROVE  \E it : Adds(it, f, SUBSET S)
<1> DEFINE UpTo(n) == {s \in SUBSET S : Cardinality(s) <= n}
           T == {n \in Nat : ~\E it : Adds(it, f, UpTo(n))}
<1>1. T = {}
  <2> SUFFICES ASSUME T # {} PROVE FALSE
    OBVIOUS
  <2>1. PICK n \in T : \A k \in T : n <= k
    BY LeastNatural
  <2>2. PICK g : n # 0 => Adds(g, f, UpTo(n - 1))
    <3>1. CASE n = 0
      BY <3>1
    <3>2. CASE n # 0
      <4>1. n - 1 \in Nat /\ ~(n <= n - 1)
        BY <3>2
      <4>2. n - 1 \notin T
        BY <2>1, <4>1
      <4> QED BY <4>1, <4>2
    <3> QED BY <3>1, <3>2
  <2> DEFINE h == [s \in UpTo(n) |-> IF s = {} THEN 0 ELSE f[First(s)] + g[s \ {First(s)}]]
  <2>3. ASSUME NEW s \in UpTo(n), s # {} PROVE h[s \ {First(s)}] = g[s \ {First(s)}]
    <3> DEFINE u == s \ {First(s)}
    <3>1. /\ u \in SUBSET S
          /\ Cardinality(s) \in Nat /\ Cardinality(u) \in Nat
          /\ Cardinality(u) = Cardinality(s) - 1
      BY <2>3, FirstRemoved
    <3>2. Cardinality(s) <= n
      BY <2>3
    <3>3. n # 0 /\ Cardinality(u) <= n - 1 /\ Cardinality(u) <= n
      BY <3>1, <3>2
    <3>4. u \in UpTo(n - 1) /\ u \in UpTo(n)
      BY <3>1, <3>3
    <3>5. g = [t \in UpTo(n - 1) |-> IF t = {} THEN 0 ELSE f[First(t)] + g[t \ {First(t)}]]
      BY <2>2, <3>3 DEF Adds
    <3>6. g[u] = IF u = {} THEN 0 ELSE f[First(u)] + g[u \ {First(u)}]
      BY <3>4, <3>5
    <3>7. h[u] = IF u = {} THEN 0 ELSE f[First(u)] + g[u \ {First(u)}]
      BY <3>4
    <3> QED BY <3>6, <3>7
  <2>4. h = [s \in UpTo(n) |-> IF s = {} THEN 0 ELSE f[First(s)] + h[s \ {First(s)}]]
    BY <2>3
  <2>5. Adds(h, f, UpTo(n))
    BY <2>4 DEF Adds
  <2> QED BY <2>5
<1>2. Cardinality(S) \in Nat
  BY FS_CardinalityType
<1>3. UpTo(Cardinality(S)) = SUBSET S
  BY FS_Subset
<1>4. Cardinality(S) \notin T
  BY <1>1
<1> QED BY <1>2, <1>3, <1>4

\* A sum of natural numbers is one.
LEMMA SumOfNaturals ==
    ASSUME NEW S, IsFiniteSet(S), NEW f \in [S -> Nat]
    PROVE  SumFunction(f) \in Nat
<1>1. PICK it : it = (CHOOSE g : Adds(g, f, SUBSET S)) /\ SumFunction(f) = it[S]
  BY SumUnfolded
<1>2. Adds(it, f, SUBSET S)
  BY <1>1, SumsExist
<1> QED BY <1>1, <1>2, SumsAreNatural

----------------------------------------------------------------------------
(* The inventory                                                           *)

\* The two kinds of sources the tool makes gaps of, and the gap of one.
Unpinned(files) ==
    {s \in Source : Structured(files[s]) /\ files[s].text \notin Image}
Charts(files) == {s \in Source : files[s].place = "chart"}
GapAt(files, s) ==
    IF s \in Charts(files)
    THEN Gap("helm-chart-defaults", files[s], s)
    ELSE Gap(ImageGapKind(files[s].text), files[s], s)

\* Every exact image that is deployed in a form not overlooked is a subject of the
\* inventory, and an image.
LEMMA AccountedIsSubject ==
    ASSUME NEW files \in [Source -> Entry]
    PROVE  ExactAccounted(files) \subseteq Subjects(files) \cap Image
<1> SUFFICES ASSUME NEW i \in ExactAccounted(files) PROVE i \in Subjects(files) \cap Image
  OBVIOUS
<1>1. PICK s \in Deployed(files) :
         s \notin UnresolvedSources(files) /\ s \notin Overlooked(files) /\ i = files[s].text
  BY DEF ExactAccounted
<1>2. /\ s \in Source /\ files[s] \in Entry /\ i \in Image
      /\ files[s].place \notin {"chart", "chartRef", "excluded", "other"}
      /\ files[s].position # "mention" \/ files[s].place = "contract"
  BY <1>1 DEF Deployed, UnresolvedSources, ThirdParty, Overlooked
<1>3. ~Unmatched(files[s])
  BY <1>1 DEF Overlooked, Unmatched
<1>4. \/ Contract(files[s])
      \/ files[s].position = "value"
      \/ files[s].position = "unlisted" /\ files[s].place \in {"yaml", "shell"}
  BY <1>1, <1>2 DEF Overlooked, Contract, Entry, Place, Position
<1>5. Structured(files[s]) \/ Contract(files[s]) \/ Lexical(files[s])
  BY <1>1, <1>2, <1>3, <1>4 DEF Structured, Contract, Lexical, Entry, Place
<1> QED BY <1>1, <1>2, <1>5 DEF Subjects

\* In a truthful revision the unresolved sources, the overlooked ones aside, are those
\* the tool makes gaps of.
LEMMA UnresolvedAreGapSources ==
    ASSUME NEW files \in [Source -> Entry], ~Untruthful(files)
    PROVE  UnresolvedAccounted(files) = Unpinned(files) \cup Charts(files)
<1>1. ASSUME NEW s \in Unpinned(files) PROVE s \in UnresolvedAccounted(files)
  <2>1. /\ s \in Source /\ files[s].text \notin Image /\ files[s].position = "value"
        /\ files[s].place \in {"yaml", "map", "shell", "dockerfile", "template"}
        /\ ~Unmatched(files[s])
    BY DEF Unpinned, Structured
  <2>2. s \in UnresolvedSources(files)
    BY <2>1 DEF UnresolvedSources, Deployed
  <2>3. s \notin Overlooked(files)
    BY <2>1 DEF Overlooked, Unmatched
  <2> QED BY <2>2, <2>3 DEF UnresolvedAccounted
<1>2. ASSUME NEW s \in Charts(files) PROVE s \in UnresolvedAccounted(files)
  <2>1. s \in Source /\ files[s].place = "chart"
    BY DEF Charts
  <2> QED BY <2>1 DEF UnresolvedAccounted, UnresolvedSources, Deployed, ThirdParty, Overlooked
<1>3. ASSUME NEW s \in UnresolvedAccounted(files), s \notin Charts(files)
      PROVE  s \in Unpinned(files)
  <2>1. s \in Deployed(files) /\ s \notin Overlooked(files) /\ s \in UnresolvedSources(files)
    BY DEF UnresolvedAccounted, UnresolvedSources
  <2>2. /\ s \in Source /\ files[s] \in Entry
        /\ files[s].place \notin {"chart", "chartRef", "other", "excluded"}
        /\ files[s].text \notin Image
    BY <1>3, <2>1 DEF Deployed, UnresolvedSources, ThirdParty, Overlooked, Charts
  <2>3. files[s].place # "contract"
    BY <2>2 DEF Untruthful, Contract
  <2>4. ~Unmatched(files[s])
    BY <2>1 DEF Overlooked, Unmatched
  <2>5. files[s].position # "mention"
    BY <2>1, <2>2, <2>3 DEF Deployed, ThirdParty
  <2>6. files[s].place \in {"yaml", "map", "shell", "dockerfile", "template"}
    BY <2>2, <2>3 DEF Entry, Place
  <2>7. files[s].position # "unlisted"
    BY <2>1, <2>2, <2>6 DEF Overlooked
  <2>8. files[s].position = "value"
    BY <2>2, <2>5, <2>7 DEF Entry, Position
  <2> QED BY <2>2, <2>4, <2>6, <2>8 DEF Unpinned, Structured
<1> QED BY <1>1, <1>2, <1>3

\* There is one gap for each of these sources.
LEMMA GapsByUnresolved ==
    ASSUME NEW files \in [Source -> Entry], ~Untruthful(files)
    PROVE  Inventory(files).gaps = {GapAt(files, s) : s \in UnresolvedAccounted(files)}
<1>1. Inventory(files).gaps = ImageGaps(files) \cup ChartGaps(files)
  BY DEF Inventory
<1>2. ASSUME NEW s \in Unpinned(files) PROVE s \notin Charts(files)
  BY DEF Unpinned, Charts, Structured
<1>3. ImageGaps(files) = {GapAt(files, s) : s \in Unpinned(files)}
  BY <1>2 DEF ImageGaps, GapAt, Unpinned
<1>4. ChartGaps(files) = {GapAt(files, s) : s \in Charts(files)}
  BY DEF ChartGaps, GapAt, Charts
<1> QED BY <1>1, <1>3, <1>4, UnresolvedAreGapSources

\* A gap names its source and what is written there.
LEMMA GapNamesSource ==
    ASSUME NEW files, NEW s
    PROVE  GapAt(files, s).source = s /\ GapAt(files, s).subject = files[s].text
BY DEF GapAt, Gap

\* The number of gaps is the number of unresolved sources that are not overlooked.
LEMMA GapsAreCounted ==
    ASSUME NEW files \in [Source -> Entry], ~Untruthful(files)
    PROVE  /\ Cardinality(Inventory(files).gaps) = Cardinality(UnresolvedAccounted(files))
           /\ Cardinality(Inventory(files).gaps) \in Nat
<1> DEFINE U == UnresolvedAccounted(files)
           G == Inventory(files).gaps
           F == [s \in U |-> GapAt(files, s)]
<1>1. IsFiniteSet(U)
  <2>1. U \subseteq Source
    BY DEF UnresolvedAccounted, UnresolvedSources, Deployed
  <2> QED BY <2>1, FiniteSource, FS_Subset
<1>2. G = {GapAt(files, s) : s \in U}
  BY GapsByUnresolved
<1>3. F \in Bijection(U, G)
  <2> HIDE DEF U, G
  <2>1. F \in [U -> G]
    BY <1>2
  <2>2. \A s, t \in U : F[s] = F[t] => s = t
    BY GapNamesSource
  <2>3. \A g \in G : \E s \in U : F[s] = g
    BY <1>2
  <2> HIDE DEF F
  <2>4. F \in Injection(U, G)
    BY <2>1, <2>2 DEF Injection, IsInjective
  <2>5. F \in Surjection(U, G)
    BY <2>1, <2>3 DEF Surjection
  <2> QED BY <2>4, <2>5 DEF Bijection
<1>4. ExistsBijection(U, G)
  BY <1>3 DEF ExistsBijection
<1> QED BY <1>1, <1>4, FS_Bijection, FS_CardinalityType

\* The gaps of two truthful revisions are equal only if each source of a gap of one is
\* a source of a gap of the other, about the same text.
LEMMA SameGapsSameSources ==
    ASSUME NEW base \in [Source -> Entry], NEW files \in [Source -> Entry],
           ~Untruthful(base), ~Untruthful(files),
           Inventory(base).gaps = Inventory(files).gaps,
           NEW s \in UnresolvedAccounted(files)
    PROVE  s \in UnresolvedAccounted(base) /\ files[s].text = base[s].text
<1>1. GapAt(files, s) \in Inventory(base).gaps
  BY GapsByUnresolved
<1>2. PICK t \in UnresolvedAccounted(base) : GapAt(files, s) = GapAt(base, t)
  BY <1>1, GapsByUnresolved
<1>3. /\ GapAt(files, s).source = s /\ GapAt(files, s).subject = files[s].text
      /\ GapAt(base, t).source = t /\ GapAt(base, t).subject = base[t].text
  BY GapNamesSource
<1>4. s = t /\ files[s].text = base[t].text
  BY <1>2, <1>3
<1> QED BY <1>4

----------------------------------------------------------------------------
(* Type correctness                                                        *)

\* What a passed shard holds is a report of its own image, of this run.
Scanned ==
    \A i \in Image : shard[i] = "scanned" =>
        report[i] \in Report /\ report[i].image = i /\ report[i].found \in seen[i]

Known == stage # "idle" => \A i \in Image : known[i] \in seen[i]

\* An evidence is of its own image, of this run, and rests on exceptions of that image
\* that were alive when it was evaluated.
Supported(i) ==
    LET e == artifact[i]
    IN  /\ e.image = i /\ e.sbom = i /\ e.found \in seen[i] /\ e.at <= now
        /\ e.outcome = "excepted" => Observed(e.found) \subseteq e.excepted
        /\ \A v \in e.excepted :
              \E x \in Head.exceptions[i] : x.id = v /\ x.image = i /\ x.until > e.at

Uploads == \A i \in Image : artifact[i] # None => Supported(i)

\* A revision that is scanned or reused was read without an error.
Discovered ==
    /\ verdict = "scan" => ~Untruthful(Head.files)
    /\ verdict = "reuse" => ~Untruthful(Head.files) /\ ~FullScan /\ Reusable
                            /\ ~Untruthful(request.base.files)

Types == EvidenceTypeOK /\ Scanned /\ Known /\ Uploads /\ Discovered

\* The subjects of a revision are finitely many.
LEMMA SubjectsAreFinite ==
    ASSUME NEW files
    PROVE  IsFiniteSet(Subjects(files)) /\ Cardinality(Subjects(files)) \in Nat
<1>1. Subjects(files) \subseteq Image
  BY DEF Subjects
<1> QED BY <1>1, FiniteImages, FS_Subset, FS_CardinalityType

\* The occurrences of all vulnerabilities in one image are a natural number.
LEMMA OccurrencesAreNatural ==
    ASSUME NEW found \in Findings
    PROVE  Occurrences(found) \in Nat
<1>1. found \in [Vulnerability -> Nat]
  BY ScanBounds DEF Findings
<1> QED BY <1>1, FiniteImages, SumOfNaturals DEF Occurrences

\* A run about to be decided that is covered sums the evidence of exactly the subjects
\* of its revision, and its time is that of one of them.
LEMMA CoveredAggregate ==
    ASSUME EvidenceTypeOK, Uploads, Covered, ~Untruthful(Head.files)
    PROVE  /\ Aggregate \in Summary
           /\ \A i \in Exact : artifact[i] # None /\ Aggregate.at < artifact[i].at + Retention
           /\ Aggregate.exact = Cardinality(Exact) /\ Aggregate.scanned = Aggregate.exact
           /\ Aggregate.sboms = Aggregate.exact
           /\ Aggregate.gaps = Cardinality(Inventory(Head.files).gaps)
           /\ Aggregate.total = SumFunction([i \in Exact |-> Occurrences(artifact[i].found)])
<1> DEFINE K == {j \in Image : Kept(j)}
           f == [i \in Exact |-> Occurrences(artifact[i].found)]
           Ats == {e.at : e \in Evidences}
<1>1. Evidences = {artifact[i] : i \in K}
  BY DEF Evidences
<1>2. ASSUME NEW i \in K
      PROVE  /\ artifact[i] \in Evidence /\ artifact[i] # None
             /\ artifact[i].image = i /\ artifact[i].at <= now
             /\ now < artifact[i].at + Retention
             /\ artifact[i].at \in 0..MaxTime
             /\ artifact[i].found \in Findings
  <2>1. artifact[i] \in Evidence
    BY DEF EvidenceTypeOK, Kept
  <2> QED BY <2>1 DEF Uploads, Supported, Kept, Evidence
<1>3. {e.image : e \in Evidences} = K
  BY <1>1, <1>2
<1>4. K = Exact
  BY <1>3 DEF Covered
<1>5. f \in [Exact -> Nat]
  BY <1>2, <1>4, OccurrencesAreNatural
<1>6. SumFunction(f) \in Nat
  BY <1>5, SubjectsAreFinite, SumOfNaturals DEF Exact
<1>7. Aggregate.total = SumFunction(f)
  BY <1>4 DEF Aggregate
<1>8. Max(Ats) \in Ats
  <2>1. Ats \subseteq 0..MaxTime
    BY <1>1, <1>2
  <2>2. Exact # {}
    BY DEF Untruthful, Exact
  <2>3. Ats # {}
    BY <1>1, <1>4, <2>2
  <2> QED BY <2>1, <2>3, ScanBounds, GreatestNatural
<1>9. Max(Ats) \in 0..MaxTime /\ Max(Ats) <= now
  BY <1>1, <1>2, <1>8
<1>10. Aggregate.at = Max(Ats)
  BY DEF Aggregate
<1>11. ASSUME NEW i \in Exact
       PROVE  artifact[i] # None /\ Aggregate.at < artifact[i].at + Retention
  <2>1. /\ artifact[i] # None /\ now < artifact[i].at + Retention
        /\ artifact[i].at \in 0..MaxTime
    BY <1>2, <1>4
  <2>2. now \in 0..MaxTime
    BY DEF EvidenceTypeOK
  <2> QED BY <1>9, <1>10, <2>1, <2>2, ScanBounds
<1>12. Head.files \in [Source -> Entry]
  BY RevisionFiles DEF EvidenceTypeOK, Head
<1>13. Cardinality(Exact) \in Nat /\ Cardinality(Inventory(Head.files).gaps) \in Nat
  BY <1>12, SubjectsAreFinite, GapsAreCounted DEF Exact
<1>14. /\ Aggregate.exact = Cardinality(Exact) /\ Aggregate.scanned = Aggregate.exact
       /\ Aggregate.sboms = Aggregate.exact
       /\ Aggregate.gaps = Cardinality(Inventory(Head.files).gaps)
  BY DEF Aggregate, Covered
<1>15. Aggregate \in Summary
  <2>1. /\ Aggregate.at \in 0..MaxTime /\ Aggregate.total \in Nat
        /\ Aggregate.exact \in Nat /\ Aggregate.scanned \in Nat
        /\ Aggregate.sboms \in Nat /\ Aggregate.gaps \in Nat
    BY <1>6, <1>7, <1>9, <1>10, <1>13, <1>14
  <2>2. Aggregate = [exact |-> Aggregate.exact, scanned |-> Aggregate.scanned,
                     sboms |-> Aggregate.sboms, gaps |-> Aggregate.gaps,
                     total |-> Aggregate.total, at |-> Aggregate.at]
    BY DEF Aggregate
  <2> QED BY <2>1, <2>2 DEF Summary
<1> QED BY <1>7, <1>11, <1>14, <1>15

\* Initially nothing is scanned, uploaded or summed up.
LEMMA TypesInitial == Init => Types
<1> SUFFICES ASSUME Init PROVE Types
  OBVIOUS
<1>1. EvidenceTypeOK
  <2>1. request \in [event: {"pull_request", "push"}, base: Revision, head: Revision]
    BY DEF Init
  <2> QED BY <2>1, ScanBounds DEF Init, EvidenceTypeOK, Stage, Verdict, Shard, Off, Nothing
<1>2. Scanned /\ Known /\ Uploads /\ Discovered
  BY DEF Init, Scanned, Known, Uploads, Discovered, Off, Nothing
<1> QED BY <1>1, <1>2 DEF Types

\* A scan binds what it found to its own image or fails.
LEMMA ScanTypes ==
    ASSUME Types, NEW i \in Image, Scan(i)
    PROVE  EvidenceTypeOK' /\ Scanned' /\ Uploads' /\ Known' /\ Discovered'
<1>0. EvidenceTypeOK /\ Scanned /\ Known /\ Uploads /\ Discovered
  BY DEF Types
<1>1. stage = "scan" /\ shard[i] = "queued"
      /\ UNCHANGED <<now, known, request, stage, verdict, artifact, summary, attempt, seen>>
  BY DEF Scan
<1>2. PICK j \in Image :
         LET r == [image |-> j, found |-> known[j], at |-> now]
         IN  IF VerifyScanEvidence(i, r)
             THEN report' = [report EXCEPT ![i] = r] /\ ShardEnds(i, "scanned")
             ELSE UNCHANGED report /\ ShardEnds(i, "failed")
  BY DEF Scan
<1> DEFINE r == [image |-> j, found |-> known[j], at |-> now]
<1>3. r \in Report /\ r.image = j /\ r.found = known[j]
  BY <1>0 DEF EvidenceTypeOK, Report
<1> HIDE DEF r
<1>4. Uploads' /\ Known' /\ Discovered'
  BY <1>0, <1>1 DEF Uploads, Supported, Head, Known, Discovered, FullScan, CriticalChange, Reusable
<1>5. CASE VerifyScanEvidence(i, r)
  <2>1. /\ report' = [report EXCEPT ![i] = r]
        /\ shard' = [shard EXCEPT ![i] = "scanned"]
    BY <1>2, <1>5 DEF r, ShardEnds
  <2>2. r.image = i /\ known[i] \in seen[i]
    BY <1>0, <1>1, <1>5 DEF VerifyScanEvidence, Known
  <2>3. EvidenceTypeOK'
    BY <1>0, <1>1, <1>3, <2>1 DEF EvidenceTypeOK, Shard
  <2>4. report'[i] = r /\ \A k \in Image : k # i => report'[k] = report[k] /\ shard'[k] = shard[k]
    BY <1>0, <2>1 DEF EvidenceTypeOK
  <2>5. Scanned'
    BY <1>0, <1>1, <1>3, <2>2, <2>4 DEF Scanned
  <2> QED BY <1>4, <2>3, <2>5
<1>6. CASE ~VerifyScanEvidence(i, r)
  <2>1. report' = report /\ shard' = [shard EXCEPT ![i] = "failed"]
    BY <1>2, <1>6 DEF r, ShardEnds
  <2>2. EvidenceTypeOK'
    BY <1>0, <1>1, <2>1 DEF EvidenceTypeOK, Shard
  <2>3. Scanned'
    BY <1>0, <1>1, <2>1 DEF Scanned, EvidenceTypeOK
  <2> QED BY <1>4, <2>2, <2>3
<1> QED BY <1>5, <1>6

\* An evaluation uploads evidence that passed every check, or fails.
LEMMA EvaluateTypes ==
    ASSUME Types, NEW i \in Image, Evaluate(i)
    PROVE  EvidenceTypeOK' /\ Scanned' /\ Uploads' /\ Known' /\ Discovered'
<1>0. EvidenceTypeOK /\ Scanned /\ Known /\ Uploads /\ Discovered
  BY DEF Types
<1>1. /\ stage = "scan" /\ shard[i] = "scanned"
      /\ report' = [report EXCEPT ![i] = None]
      /\ UNCHANGED <<now, known, request, stage, verdict, summary, attempt, seen>>
  BY DEF Evaluate
<1>2. PICK sbom \in Image :
         IF /\ report[i].at <= now
            /\ ExceptionsValid(i, Observed(report[i].found), now)
            /\ VerifySbom(i, sbom)
         THEN artifact' = [artifact EXCEPT ![i] = Decision(i, sbom)] /\ ShardEnds(i, "done")
         ELSE UNCHANGED artifact /\ ShardEnds(i, "failed")
  BY DEF Evaluate
<1>3. Known' /\ Discovered'
  BY <1>0, <1>1 DEF Head, Known, Discovered, FullScan, CriticalChange, Reusable
<1>4. PICK state \in {"done", "failed"} : shard' = [shard EXCEPT ![i] = state]
  BY <1>2 DEF ShardEnds
<1>5. Scanned'
  BY <1>0, <1>1, <1>4 DEF Scanned, EvidenceTypeOK
<1>6. shard' \in [Image -> Shard] /\ report' \in [Image -> Report \cup {None}]
  BY <1>0, <1>1, <1>4 DEF EvidenceTypeOK, Shard
<1>7. CASE artifact' = artifact
  BY <1>0, <1>1, <1>3, <1>5, <1>6, <1>7 DEF EvidenceTypeOK, Uploads, Supported, Head
<1>8. CASE /\ ExceptionsValid(i, Observed(report[i].found), now)
           /\ VerifySbom(i, sbom)
           /\ artifact' = [artifact EXCEPT ![i] = Decision(i, sbom)]
  <2> DEFINE e == Decision(i, sbom)
  <2>1. /\ e.image = i /\ e.sbom = i /\ e.found = report[i].found /\ e.at = now
        /\ e.excepted = Excepted(i)
        /\ e.outcome = Outcome(Observed(e.found), Excepted(i))
    BY <1>8 DEF Decision, VerifySbom
  <2>2. /\ report[i] \in Report /\ report[i].found \in Findings
        /\ report[i].found \in seen[i]
    BY <1>0, <1>1 DEF Scanned, Report
  <2>3. ASSUME NEW v \in Excepted(i)
        PROVE  /\ v \in Vulnerability
               /\ \E x \in Head.exceptions[i] : x.id = v /\ x.image = i /\ x.until > now
    <3>1. PICK x \in Head.exceptions[i] : x.id = v
      BY DEF Excepted
    <3>2. x.image = i /\ x.until > now /\ x.id \in Observed(report[i].found)
      BY <1>8 DEF ExceptionsValid
    <3> QED BY <3>1, <3>2 DEF Observed
  <2>4. e.outcome \in {"none", "excepted", "review"}
    BY <2>1 DEF Outcome
  <2>5. e.outcome = "excepted" => Observed(e.found) \subseteq e.excepted
    BY <2>1 DEF Outcome
  <2>6. e \in Evidence
    <3>1. e = [image |-> e.image, found |-> e.found, excepted |-> e.excepted,
               outcome |-> e.outcome, at |-> e.at, sbom |-> e.sbom]
      BY DEF Decision
    <3>2. /\ e.image \in Image /\ e.found \in Findings /\ e.excepted \in SUBSET Vulnerability
          /\ e.at \in 0..MaxTime /\ e.sbom \in Image
      BY <1>0, <2>1, <2>2, <2>3 DEF EvidenceTypeOK
    <3> HIDE DEF e
    <3> QED BY <2>4, <3>1, <3>2 DEF Evidence
  <2> HIDE DEF e
  <2>7. artifact' = [artifact EXCEPT ![i] = e]
    BY <1>8 DEF e
  <2>8. artifact'[i] = e /\ \A k \in Image : k # i => artifact'[k] = artifact[k]
    BY <1>0, <2>7 DEF EvidenceTypeOK
  <2>9. artifact' \in [Image -> Evidence \cup {None}]
    BY <1>0, <2>6, <2>7 DEF EvidenceTypeOK
  <2>10. EvidenceTypeOK'
    BY <1>0, <1>1, <1>6, <2>9 DEF EvidenceTypeOK
  <2>11. now \in Nat /\ e.at <= now
    BY <1>0, <2>1, ScanBounds DEF EvidenceTypeOK
  <2>12. Supported(i)'
    BY <1>1, <2>1, <2>2, <2>3, <2>5, <2>8, <2>11 DEF Supported, Head
  <2>13. ASSUME NEW k \in Image, k # i, artifact'[k] # None PROVE Supported(k)'
    <3>1. artifact'[k] = artifact[k]
      BY <2>8, <2>13
    <3>2. Supported(k)
      BY <1>0, <2>13, <3>1 DEF Uploads
    <3> QED BY <1>1, <3>1, <3>2 DEF Supported, Head
  <2>14. Uploads'
    BY <2>12, <2>13 DEF Uploads
  <2> QED BY <1>3, <1>5, <2>10, <2>14
<1> QED BY <1>2, <1>7, <1>8

\* Types, with what the reports and the evidences carry, hold in every reachable state.
LEMMA TypesInductive == Types /\ [Next]_vars => Types'
<1> SUFFICES ASSUME Types, [Next]_vars PROVE Types'
  OBVIOUS
<1> USE ScanBounds
<1>0. EvidenceTypeOK /\ Scanned /\ Known /\ Uploads /\ Discovered
  BY DEF Types
<1>1. CASE Triggered
  <2>1. PICK event \in {"pull_request", "push"}, base \in Revision, head \in Revision :
            Trigger(event, base, head)
    BY <1>1 DEF Triggered
  <2>2. EvidenceTypeOK'
    BY <1>0, <2>1 DEF EvidenceTypeOK, Trigger, Stage, Verdict, Shard, Off, Nothing
  <2>3. Scanned' /\ Discovered'
    BY <2>1 DEF Trigger, Scanned, Off, Discovered
  <2>4. Known'
    BY <1>0, <2>1 DEF Trigger, Known, EvidenceTypeOK
  <2>5. Uploads'
    BY <2>1 DEF Trigger, Uploads, Nothing
  <2> QED BY <2>2, <2>3, <2>4, <2>5 DEF Types
<1>2. CASE Discover
  <2>1. verdict' \in {"scan", "reuse", "failed"}
    BY <1>2 DEF Discover
  <2>2. shard' \in [Image -> {"off", "queued"}]
    BY <1>2 DEF Discover, Off
  <2>3. EvidenceTypeOK'
    BY <1>0, <1>2, <2>1, <2>2 DEF EvidenceTypeOK, Discover, Stage, Verdict, Shard
  <2>4. Scanned'
    BY <2>2 DEF Scanned
  <2>5. Known' /\ Uploads'
    BY <1>0, <1>2 DEF Discover, Known, Uploads, Supported, Head
  <2>6. Discovered'
    BY <1>2 DEF Discover, Discovered, Head, FullScan, CriticalChange, Reusable
  <2> QED BY <2>3, <2>4, <2>5, <2>6 DEF Types
<1>3. CASE Decide
  <2>1. stage' \in {"green", "red"}
        /\ UNCHANGED <<now, known, request, verdict, shard, report, artifact, attempt, seen>>
    BY <1>3 DEF Decide
  <2>2. summary' = None \/ (summary' = Aggregate /\ Covered /\ verdict = "scan")
    BY <1>3 DEF Decide
  <2>3. summary' \in Summary \cup {None}
    BY <1>0, <2>2, CoveredAggregate DEF Discovered
  <2>4. EvidenceTypeOK'
    BY <1>0, <2>1, <2>3 DEF EvidenceTypeOK, Stage
  <2>5. Scanned' /\ Known' /\ Uploads' /\ Discovered'
    <3>1. Known'
      BY <1>0, <1>3, <2>1 DEF Decide, Known
    <3> QED BY <1>0, <2>1, <3>1 DEF Scanned, Uploads, Supported, Head, Discovered,
               FullScan, CriticalChange, Reusable
  <2> QED BY <2>4, <2>5 DEF Types
<1>4. ASSUME NEW i \in Image, Scan(i) PROVE Types'
  BY <1>4, ScanTypes DEF Types
<1>5. ASSUME NEW i \in Image, Evaluate(i) PROVE Types'
  BY <1>5, EvaluateTypes DEF Types
<1>6. ASSUME NEW i \in Image, ShardFails(i) PROVE Types'
  <2>1. /\ shard' = [shard EXCEPT ![i] = "failed"]
        /\ report' = [report EXCEPT ![i] = None]
        /\ UNCHANGED <<now, known, request, stage, verdict, artifact, summary, attempt, seen>>
    BY <1>6 DEF ShardFails, ShardEnds
  <2>2. EvidenceTypeOK'
    BY <1>0, <2>1 DEF EvidenceTypeOK, Shard
  <2>3. Scanned'
    BY <1>0, <2>1 DEF Scanned, EvidenceTypeOK
  <2>4. Known' /\ Uploads' /\ Discovered'
    BY <1>0, <2>1 DEF Known, Uploads, Supported, Head, Discovered, FullScan, CriticalChange,
       Reusable
  <2> QED BY <2>2, <2>3, <2>4 DEF Types
<1>7. CASE Publish
  <2>1. EvidenceTypeOK'
    BY <1>0, <1>7 DEF Publish, EvidenceTypeOK, Stage
  <2>2. Scanned' /\ Known' /\ Uploads' /\ Discovered'
    BY <1>0, <1>7 DEF Publish, Scanned, Known, Uploads, Supported, Head, Discovered, FullScan,
       CriticalChange, Reusable
  <2> QED BY <2>1, <2>2 DEF Types
<1>8. CASE Rerun
  <2>1. /\ stage # "idle" /\ attempt < MaxAttempt /\ attempt' = attempt + 1
        /\ summary' = None /\ stage' \in {"scan", "inventory"} /\ verdict' \in {verdict, "none"}
        /\ UNCHANGED <<now, known, request, report, artifact, seen>>
    BY <1>8 DEF Rerun, Ended
  <2>2. /\ shard' \in [Image -> Shard]
        /\ \A i \in Image : shard'[i] = "scanned" => shard[i] = "scanned"
    BY <1>0, <1>8 DEF Rerun, Off, EvidenceTypeOK, Shard
  <2>3. EvidenceTypeOK'
    BY <1>0, <2>1, <2>2 DEF EvidenceTypeOK, Stage, Verdict
  <2>4. Scanned' /\ Known' /\ Uploads' /\ Discovered'
    BY <1>0, <2>1, <2>2 DEF Scanned, Known, Uploads, Supported, Head, Discovered, FullScan,
       CriticalChange, Reusable
  <2> QED BY <2>3, <2>4 DEF Types
<1>9. CASE Tick
  <2>1. now' = now + 1 /\ now < MaxTime /\ now \in 0..MaxTime
        /\ UNCHANGED <<known, request, stage, verdict, shard, report, artifact, summary,
                       attempt, seen>>
    BY <1>0, <1>9 DEF Tick, run, EvidenceTypeOK
  <2>2. EvidenceTypeOK'
    BY <1>0, <2>1 DEF EvidenceTypeOK
  <2>3. ASSUME NEW i \in Image, artifact[i] # None PROVE Supported(i)'
    <3>1. Supported(i) /\ artifact[i].at \in 0..MaxTime
      BY <1>0, <2>3 DEF Uploads, EvidenceTypeOK, Evidence
    <3>2. artifact[i].at <= now'
      BY <2>1, <3>1 DEF Supported
    <3> QED BY <2>1, <3>1, <3>2 DEF Supported, Head
  <2>4. Scanned' /\ Known' /\ Uploads' /\ Discovered'
    BY <1>0, <2>1, <2>3 DEF Scanned, Known, Uploads, Head, Discovered, FullScan,
       CriticalChange, Reusable
  <2> QED BY <2>2, <2>4 DEF Types
<1>10. ASSUME NEW i \in Image, NEW found \in Findings, Disclose(i, found) PROVE Types'
  <2>1. /\ known' = [known EXCEPT ![i] = found]
        /\ seen' = IF stage = "idle" THEN seen ELSE [seen EXCEPT ![i] = @ \cup {found}]
        /\ UNCHANGED <<now, request, stage, verdict, shard, report, artifact, summary, attempt>>
    BY <1>10 DEF Disclose, run
  <2>2. EvidenceTypeOK'
    BY <1>0, <2>1 DEF EvidenceTypeOK
  <2>3. \A k \in Image : seen[k] \subseteq seen'[k]
    BY <1>0, <2>1 DEF EvidenceTypeOK
  <2>4. Known'
    BY <1>0, <2>1 DEF Known, EvidenceTypeOK
  <2>5. Scanned' /\ Discovered'
    BY <1>0, <2>1, <2>3 DEF Scanned, Head, Discovered, FullScan, CriticalChange, Reusable
  <2>6. Uploads'
    BY <1>0, <2>1, <2>3 DEF Uploads, Supported, Head
  <2> QED BY <2>2, <2>4, <2>5, <2>6 DEF Types
<1>11. CASE UNCHANGED vars
  BY <1>0, <1>11 DEF vars, Types, EvidenceTypeOK, Scanned, Known, Uploads, Supported, Head,
     Discovered, FullScan, CriticalChange, Reusable
<1> QED BY <1>1, <1>2, <1>3, <1>4, <1>5, <1>6, <1>7, <1>8, <1>9, <1>10, <1>11
        DEF Next, Progress

\* The state keeps its types: counts and the published total are natural numbers, every
\* evidence names findings and exceptions, whatever fails or is run again.
THEOREM EvidenceTypeCorrect == Spec => []EvidenceTypeOK
<1>1. Types => EvidenceTypeOK
  BY DEF Types
<1> QED BY <1>1, TypesInitial, TypesInductive, PTL DEF Spec

----------------------------------------------------------------------------
(* Exceptions and reuse                                                    *)

\* Evidence that says every finding is excepted rests on exceptions of that image that
\* were alive when the evidence was evaluated.
THEOREM AliveExceptions == Spec => []ExceptionsAreAlive
<1>1. Types => ExceptionsAreAlive
  <2> SUFFICES ASSUME Types, NEW i \in Image, artifact[i] # None,
                      artifact[i].outcome = "excepted",
                      NEW v \in Observed(artifact[i].found)
               PROVE  \E e \in Head.exceptions[i] :
                         e.id = v /\ e.image = i /\ e.until > artifact[i].at
    BY DEF ExceptionsAreAlive
  <2>1. Supported(i)
    BY DEF Types, Uploads
  <2>2. v \in artifact[i].excepted
    BY <2>1 DEF Supported
  <2> QED BY <2>1, <2>2 DEF Supported
<1> QED BY <1>1, TypesInitial, TypesInductive, PTL DEF Spec

\* Up to the overlooked forms, a green decision without a scan is about a revision that
\* deploys nothing and leaves nothing unresolved that its base does not, under the same
\* exceptions.
THEOREM ReuseIsSound == Spec => []ReuseAddsNothing
<1>1. Types => ReuseAddsNothing
  <2> SUFFICES ASSUME Types, verdict = "reuse"
               PROVE  /\ ExactAccounted(Head.files) \subseteq Subjects(request.base.files)
                      /\ \A s \in UnresolvedAccounted(Head.files) :
                            /\ s \in UnresolvedAccounted(request.base.files)
                            /\ Head.files[s].text = request.base.files[s].text
                      /\ Head.exceptions = request.base.exceptions
    BY DEF ReuseAddsNothing
  <2>1. /\ ~Untruthful(Head.files) /\ ~Untruthful(request.base.files)
        /\ ~FullScan /\ Reusable
    BY DEF Types, Discovered
  <2>2. Head.files \in [Source -> Entry] /\ request.base.files \in [Source -> Entry]
    BY RevisionFiles DEF Types, EvidenceTypeOK, Head
  <2>3. /\ Subjects(request.base.files) = Subjects(Head.files)
        /\ Inventory(request.base.files).gaps = Inventory(Head.files).gaps
    BY <2>1 DEF Reusable, SameSurface, Inventory
  <2>4. Head.exceptions = request.base.exceptions
    BY <2>1 DEF FullScan, CriticalChange
  <2>5. ExactAccounted(Head.files) \subseteq Subjects(request.base.files)
    BY <2>2, <2>3, AccountedIsSubject
  <2>6. \A s \in UnresolvedAccounted(Head.files) :
           /\ s \in UnresolvedAccounted(request.base.files)
           /\ Head.files[s].text = request.base.files[s].text
    BY <2>1, <2>2, <2>3, SameGapsSameSources
  <2> QED BY <2>4, <2>5, <2>6
<1> QED BY <1>1, TypesInitial, TypesInductive, PTL DEF Spec

----------------------------------------------------------------------------
(* The published summary                                                   *)

\* A summary stays what it was computed as until it is withdrawn: the evidence it adds
\* up is that of the exact images of its revision, none other and none older.
Summarised ==
    summary # None =>
        /\ stage \in {"green", "published"}
        /\ ~Untruthful(Head.files)
        /\ \A i \in Exact : artifact[i] # None /\ summary.at < artifact[i].at + Retention
        /\ summary.exact = Cardinality(Exact) /\ summary.scanned = summary.exact
        /\ summary.sboms = summary.exact
        /\ summary.gaps = Cardinality(Inventory(Head.files).gaps)
        /\ summary.total = SumFunction([i \in Exact |-> Occurrences(artifact[i].found)])

\* Nothing changes a summary or what it was computed from while there is one.
LEMMA SummaryStays ==
    ASSUME Summarised, UNCHANGED <<request, artifact, summary>>,
           summary # None => stage' \in {"green", "published"}
    PROVE  Summarised'
BY DEF Summarised, Exact, Head

\* A decision makes the summary of what it sees; a new run or attempt withdraws it.
LEMMA SummarisedInductive == Types /\ Summarised /\ [Next]_vars => Summarised'
<1> SUFFICES ASSUME Types, Summarised, [Next]_vars PROVE Summarised'
  OBVIOUS
<1>1. CASE Triggered
  BY <1>1 DEF Triggered, Trigger, Summarised
<1>2. CASE Discover
  BY <1>2, SummaryStays DEF Discover, Summarised
<1>3. CASE Decide
  <2>1. CASE summary' = None
    BY <2>1 DEF Summarised
  <2>2. CASE summary' = Aggregate /\ Covered /\ verdict = "scan" /\ stage' = "green"
    <3>1. EvidenceTypeOK /\ Uploads /\ ~Untruthful(Head.files)
      BY <2>2 DEF Types, Discovered
    <3>2. /\ \A i \in Exact : artifact[i] # None /\ Aggregate.at < artifact[i].at + Retention
          /\ Aggregate.exact = Cardinality(Exact) /\ Aggregate.scanned = Aggregate.exact
          /\ Aggregate.sboms = Aggregate.exact
          /\ Aggregate.gaps = Cardinality(Inventory(Head.files).gaps)
          /\ Aggregate.total = SumFunction([i \in Exact |-> Occurrences(artifact[i].found)])
      BY <2>2, <3>1, CoveredAggregate
    <3>3. request' = request /\ artifact' = artifact
      BY <1>3 DEF Decide
    <3>4. Head' = Head /\ Exact' = Exact
      BY <3>3 DEF Head, Exact
    <3> HIDE DEF Aggregate
    <3> QED BY <2>2, <3>1, <3>2, <3>3, <3>4 DEF Summarised
  <2> QED BY <1>3, <2>1, <2>2 DEF Decide
<1>4. ASSUME NEW i \in Image, Scan(i) \/ Evaluate(i) \/ ShardFails(i) PROVE Summarised'
  <2>1. stage = "scan" /\ summary' = summary
    BY <1>4 DEF Scan, Evaluate, ShardFails
  <2> QED BY <2>1 DEF Summarised
<1>5. CASE Publish
  BY <1>5, SummaryStays DEF Publish
<1>6. CASE Rerun
  BY <1>6 DEF Rerun, Summarised
<1>7. CASE Tick
  BY <1>7, SummaryStays DEF Tick, run, Summarised
<1>8. ASSUME NEW i \in Image, NEW found \in Findings, Disclose(i, found) PROVE Summarised'
  BY <1>8, SummaryStays DEF Disclose, run, Summarised
<1>9. CASE UNCHANGED vars
  BY <1>9, SummaryStays DEF vars, Summarised
<1> QED BY <1>1, <1>2, <1>3, <1>4, <1>5, <1>6, <1>7, <1>8, <1>9 DEF Next, Progress

\* Both invariants hold in every reachable state.
LEMMA SummarisedAlways == Spec => [](Types /\ Summarised)
<1>1. Init => Types /\ Summarised
  BY TypesInitial DEF Init, Summarised
<1>2. Types /\ Summarised /\ [Next]_vars => (Types /\ Summarised)'
  BY TypesInductive, SummarisedInductive
<1> QED BY <1>1, <1>2, PTL DEF Spec

\* However often jobs are run again, a summary adds up evidence less than a retention
\* period apart from the time it is published with.
THEOREM NoOldEvidence == Spec => []SummaryIsNotMixedWithOldEvidence
<1>1. Summarised => SummaryIsNotMixedWithOldEvidence
  BY DEF Summarised, SummaryIsNotMixedWithOldEvidence
<1> QED BY <1>1, SummarisedAlways, PTL

\* What a summary leaves out is of the overlooked forms and nothing else: every other
\* exact image its revision deploys was scanned in this run, every other place is
\* counted as one gap.
THEOREM CoverageIsComplete == Spec => []SummaryCoversRevision
<1>1. Types /\ Summarised => SummaryCoversRevision
  <2> SUFFICES ASSUME Types, Summarised, summary # None
               PROVE  /\ \A i \in ExactAccounted(Head.files) :
                            /\ artifact[i] # None /\ artifact[i].image = i
                            /\ artifact[i].found \in seen[i]
                      /\ summary.scanned = summary.exact /\ summary.sboms = summary.exact
                      /\ summary.gaps = Cardinality(UnresolvedAccounted(Head.files))
    BY DEF SummaryCoversRevision
  <2>1. Head.files \in [Source -> Entry] /\ ~Untruthful(Head.files)
    BY RevisionFiles DEF Types, EvidenceTypeOK, Head, Summarised
  <2>2. ASSUME NEW i \in ExactAccounted(Head.files)
        PROVE  /\ artifact[i] # None /\ artifact[i].image = i
               /\ artifact[i].found \in seen[i]
    <3>1. i \in Image /\ i \in Exact
      BY <2>1, AccountedIsSubject DEF Exact
    <3>2. artifact[i] # None
      BY <3>1 DEF Summarised
    <3> QED BY <3>1, <3>2 DEF Types, Uploads, Supported
  <2>3. summary.gaps = Cardinality(UnresolvedAccounted(Head.files))
    BY <2>1, GapsAreCounted DEF Summarised
  <2> QED BY <2>2, <2>3 DEF Summarised
<1> QED BY <1>1, SummarisedAlways, PTL

\* The published total adds up, for each exact image, all that a scan of this very image
\* found at some time of the run.
THEOREM TotalsAreHonest == Spec => []TotalsAreOfThisRun
<1>1. Types /\ Summarised => TotalsAreOfThisRun
  <2> SUFFICES ASSUME Types, Summarised, summary # None
               PROVE  \E f \in [Exact -> Findings] :
                         /\ \A i \in Exact : f[i] \in seen[i]
                         /\ summary.total = SumFunction([i \in Exact |-> Occurrences(f[i])])
    BY DEF TotalsAreOfThisRun
  <2> DEFINE f == [i \in Exact |-> artifact[i].found]
  <2>1. ASSUME NEW i \in Exact
        PROVE  artifact[i].found \in Findings /\ artifact[i].found \in seen[i]
    <3>1. i \in Image
      BY DEF Exact, Subjects
    <3>2. artifact[i] # None
      BY DEF Summarised
    <3>3. artifact[i] \in Evidence
      BY <3>1, <3>2 DEF Types, EvidenceTypeOK
    <3>4. artifact[i].found \in seen[i]
      BY <3>1, <3>2 DEF Types, Uploads, Supported
    <3> QED BY <3>3, <3>4 DEF Evidence
  <2>2. f \in [Exact -> Findings] /\ \A i \in Exact : f[i] \in seen[i]
    BY <2>1
  <2>3. [i \in Exact |-> Occurrences(f[i])] = [i \in Exact |-> Occurrences(artifact[i].found)]
    OBVIOUS
  <2>4. summary.total = SumFunction([i \in Exact |-> Occurrences(f[i])])
    BY <2>3 DEF Summarised
  <2> HIDE DEF f
  <2> QED BY <2>2, <2>4
<1> QED BY <1>1, SummarisedAlways, PTL
============================================================================
