--------------------------- MODULE ImageInventory ---------------------------
(***************************************************************************)
(* What tools/discover_container_images.py finds in a revision of the      *)
(* repository and how tools/compare_image_inventories.py compares two      *)
(* revisions.                                                              *)
(*                                                                         *)
(* A revision is abstracted to the places that mention an image: what kind *)
(* of file each is in, how its position names the image, and what is       *)
(* written there.  The tool does not see every form of such a place.       *)
(***************************************************************************)
EXTENDS Naturals, FiniteSets

CONSTANTS
    Source,    \* places in the repository that mention an image
    Image      \* exact references, repository@sha256:digest

ASSUME FiniteSource == IsFiniteSet(Source)

\* Where a place is: a string of YAML outside the excluded directories (workflow
\* containers included), an image map or Kustomize replacement there, shell, a
\* Dockerfile, a Helm template, a manifest of a runtime contract, a HelmRelease of a
\* chart from a chart repository or one of a chart that comes another way (chartRef),
\* a file of a kind the tool does not read, or docs, tests and vendored code.
Place == {"yaml", "map", "shell", "dockerfile", "template", "contract", "chart",
          "chartRef", "other", "excluded"}

\* "value" names an image under a key, variable suffix or keyword that the tool lists,
\* "unlisted" names one in another way (another key or variable, COPY --from);
\* "mention" is any other text.
Position == {"value", "unlisted", "mention"}

\* "untagged" is a repository alone, "spaced" a quoted value with a blank in it.
Loose == {"tag", "untagged", "dynamic", "empty", "spaced", "malformed"}
Entry == [place: Place, position: Position, text: Image \cup Loose]

\* A map is an image only with a digest or a tag, a shell constant only if it is one
\* word: anything else is passed over.
Unmatched(e) ==
    \/ e.place = "map" /\ e.text \in {"untagged", "empty"}
    \/ e.place = "shell" /\ e.text \in {"empty", "spaced"}

\* Image positions of every source the tool parses.
Structured(e) ==
    /\ e.position = "value" /\ e.place \in {"yaml", "map", "shell", "dockerfile", "template"}
    /\ ~Unmatched(e)

\* Exact references are also found anywhere in the text of YAML and shell files.
Lexical(e) == e.place \in {"yaml", "shell"} /\ e.text \in Image

\* The digest a runtime contract points at in its HelmRelease.
Contract(e) == e.place = "contract"

Subjects(files) ==
    {files[s].text : s \in {t \in Source : \/ Structured(files[t])
                                           \/ Lexical(files[t])
                                           \/ Contract(files[t])}} \cap Image

Gap(kind, e, s) == [kind |-> kind, subject |-> e.text, source |-> s]

\* Mutation: one gap per name, wherever it is used.
GapsByName(files) ==
    {[kind |-> "unpinned-image", subject |-> files[s].text] :
        s \in {t \in Source : Structured(files[t]) /\ files[t].text \notin Image}}

ImageGapKind(text) ==
    IF text \in {"dynamic", "empty"} THEN "dynamic-image" ELSE "unpinned-image"

\* An image position without an exact reference is a gap of its own, per source.
ImageGaps(files) ==
    {Gap(ImageGapKind(files[s].text), files[s], s) :
        s \in {t \in Source : Structured(files[t]) /\ files[t].text \notin Image}}

\* A chart from a chart repository brings images nobody has rendered.
ChartGaps(files) ==
    {Gap("helm-chart-defaults", files[s], s) : s \in {t \in Source : files[t].place = "chart"}}

\* A malformed digest, a contract without a digest, or no exact image at all.
Untruthful(files) ==
    \/ \E s \in Source : Structured(files[s]) /\ files[s].text = "malformed"
    \/ \E s \in Source : Contract(files[s]) /\ files[s].text \notin Image
    \/ Subjects(files) = {}

Inventory(files) ==
    [images |-> Subjects(files), gaps |-> ImageGaps(files) \cup ChartGaps(files)]

\* Mutation: only the exact subjects are compared.
SameSubjects(base, current) == base.images = current.images

\* Subjects and gaps, sources of the gaps included.  Scope exclusions are constants of
\* the tool, and a change of the tool is never compared.
SameSurface(base, current) == base.images = current.images /\ base.gaps = current.gaps

----------------------------------------------------------------------------
(* What is deployed, read off a revision without the tool                  *)

ThirdParty(e) == e.place \in {"chart", "chartRef"}

Deployed(files) ==
    {s \in Source : /\ files[s].place # "excluded"
                    /\ \/ files[s].position # "mention"
                       \/ files[s].place = "contract" \/ ThirdParty(files[s])}

UnresolvedSources(files) ==
    {s \in Deployed(files) : ThirdParty(files[s]) \/ files[s].text \notin Image}

\* The deployed places that the inventory says nothing of: files of other kinds, a chart
\* by reference, a map without digest and tag, an empty or spaced shell constant, and
\* unlisted names where no exact reference is found in the text.
Overlooked(files) ==
    {s \in Deployed(files) :
        LET e == files[s]
        IN  \/ e.place \in {"other", "chartRef"}
            \/ e.place = "map" /\ e.text \in {"untagged", "empty"}
            \/ e.place = "shell" /\ e.text \in {"empty", "spaced"}
            \/ e.position = "unlisted" /\ e.place \in {"map", "dockerfile", "template"}
            \/ e.position = "unlisted" /\ e.place \in {"yaml", "shell"} /\ e.text \notin Image}

\* The exact images and the unresolved places that the inventory has to account for.
ExactAccounted(files) ==
    {files[s].text : s \in Deployed(files) \ (UnresolvedSources(files) \cup Overlooked(files))}

UnresolvedAccounted(files) == UnresolvedSources(files) \ Overlooked(files)
============================================================================
