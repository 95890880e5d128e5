------------------------------ MODULE Catalog ------------------------------
(***************************************************************************)
(* The desired-state catalog (applications/) and what the tools make of    *)
(* it: which catalogs tools/validate_catalog.py accepts, the Helm values   *)
(* tools/render_local_assignments.py projects from one, and the one        *)
(* lifecycle transition tools/set_node_pair_lifecycle.py performs.         *)
(***************************************************************************)

CONSTANTS
    Assignment,       \* ValidatorAssignment documents
    Validator,        \* ValidatorIdentity documents
    ValidatorOf,      \* validatorRef of each assignment
    NodePair,         \* names of node pairs
    DefaultNodePair,  \* the name derived from a validatorRef
    None

ASSUME References ==
    /\ ValidatorOf \in [Assignment -> Validator]
    /\ DefaultNodePair \in [Validator -> NodePair]
    /\ None \notin NodePair
ASSUME NamesDiffer ==
    \A v, w \in Validator : DefaultNodePair[v] = DefaultNodePair[w] => v = w

Lifecycle == {"activating", "active", "failed-safe", "stopping", "stopped",
              "archiving", "archived", "switching"}

\* `signing` stands for signingEnabled with both safety confirmations and a fee
\* recipient, which the schema makes inseparable.
Document == [lifecycle: Lifecycle, signing: BOOLEAN, nodePair: NodePair \cup {None}]

\* What identity and customer allow: signing (a registered identity of an
\* active customer), only node pairs, or, as the customer leaves, nothing live.
Standing == {"eligible", "barred", "leaving"}

Desired == [doc: [Assignment -> Document], standing: [Validator -> Standing]]

Values == [lifecycle: {"active", "stopped", "archived"}, signing: BOOLEAN,
           fullname: NodePair]

LiveStates == {"activating", "active", "failed-safe", "stopping", "switching"}

Live(c, a) == c.doc[a].lifecycle \in LiveStates

FollowsSchema(d) ==
    /\ d.lifecycle = "active" => d.nodePair # None
    /\ d.signing => d.lifecycle = "active"

SchemaValid(c) == \A a \in Assignment : FollowsSchema(c.doc[a])

\* Mutation: several assignments of a validator may be live.
RelationsOfEach(c) ==
    \A a \in Assignment :
        /\ c.doc[a].signing => c.standing[ValidatorOf[a]] = "eligible"
        /\ Live(c, a) => c.standing[ValidatorOf[a]] # "leaving"

RelationsValid(c) ==
    /\ \A a \in Assignment : c.doc[a].signing => c.standing[ValidatorOf[a]] = "eligible"
    /\ \A a \in Assignment : Live(c, a) => c.standing[ValidatorOf[a]] # "leaving"
    /\ \A a, b \in Assignment : a # b /\ Live(c, a) /\ Live(c, b) =>
          /\ ValidatorOf[a] # ValidatorOf[b]
          /\ c.doc[a].nodePair # c.doc[b].nodePair \/ c.doc[a].nodePair = None

Valid(c) == SchemaValid(c) /\ RelationsValid(c)

----------------------------------------------------------------------------
(* The projection                                                          *)

\* Mutation: whatever is not active drops its volume claims.
ArchivedUnlessActive(lifecycle) == IF lifecycle = "active" THEN "active" ELSE "archived"

\* Only active launches compute and only archived drops the volume claims.
ChartLifecycle(lifecycle) ==
    IF lifecycle \in {"active", "archived"} THEN lifecycle ELSE "stopped"

Fullname(c, a) ==
    IF c.doc[a].nodePair = None THEN DefaultNodePair[ValidatorOf[a]] ELSE c.doc[a].nodePair

BuildRelease(c, a) ==
    [lifecycle |-> ChartLifecycle(c.doc[a].lifecycle),
     signing   |-> c.doc[a].signing,
     fullname  |-> Fullname(c, a)]

Projection(c) == [a \in Assignment |-> BuildRelease(c, a)]

\* The renderer repeats the gates of the validator that matter for signing.
Renderable(c) ==
    \A a \in Assignment :
        /\ c.doc[a].signing => c.standing[ValidatorOf[a]] = "eligible"
        /\ ChartLifecycle(c.doc[a].lifecycle) = "active" => c.doc[a].nodePair # None

\* The chart starts a validator client only with both values set.
RunsClient(values) == values.lifecycle = "active" /\ values.signing

----------------------------------------------------------------------------
(* The lifecycle workflow                                                  *)

Action == {"activate", "stop"}
Target(lifecycle, action) ==
    CASE lifecycle = "stopped" /\ action = "activate" -> "active"
      [] lifecycle = "active" /\ action = "stop" -> "stopped"
      [] OTHER -> None

\* Mutation: the tool also takes assignments that sign, and resets the flag.
AnyAssignment(d, action) == Target(d.lifecycle, action) # None

\* Mutation: a transition that is not in the table is not refused.
AnyTransition(d, action) == ~d.signing

MayTransition(d, action) == ~d.signing /\ Target(d.lifecycle, action) # None

Transition(c, a, action) ==
    [c EXCEPT !.doc[a] =
        [lifecycle |-> Target(@.lifecycle, action),
         signing   |-> FALSE,
         nodePair  |-> IF action = "activate" THEN Fullname(c, a) ELSE @.nodePair]]
============================================================================
