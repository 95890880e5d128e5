--------------------------- MODULE MCImageEvidence --------------------------
(***************************************************************************)
(* TLC instance of ImageEvidence: revisions of a repository with four      *)
(* places that mention an image.  Some pairs of them deploy the same exact *)
(* images with other gaps or with other overlooked places, one carries an  *)
(* exception, one is untruthful.                                           *)
(***************************************************************************)
EXTENDS ImageEvidence, TLC

CONSTANTS a, b, s1, s2, s3, s4, v, w

Files(x, y, z, u) == s1 :> x @@ s2 :> y @@ s3 :> z @@ s4 :> u
In(place, position, text) == [place |-> place, position |-> position, text |-> text]

NoException == a :> {} @@ b :> {}
Commit(files, exceptions) == [files |-> files, tooling |-> 1, exceptions |-> exceptions]

Tag == In("yaml", "value", "tag")
OneImage == Files(In("yaml", "value", a), Tag, Tag, In("map", "value", "untagged"))
OtherForm == [OneImage EXCEPT ![s4] = In("shell", "value", "empty")]
Mentioned == Files(In("yaml", "mention", a), In("excluded", "value", "tag"), Tag,
                   In("other", "value", b))
TwoImages == Files(In("contract", "value", a), In("shell", "unlisted", b),
                   In("chart", "value", "tag"), In("chartRef", "value", "tag"))
Broken == Files(In("dockerfile", "value", a), In("template", "value", "malformed"), Tag,
                In("map", "value", b))

Revisions ==
    {Commit(f, NoException) : f \in {OneImage, OtherForm, Mentioned, Broken}}
        \cup {Commit(TwoImages, a :> {[image |-> a, id |-> v, until |-> 1]} @@ b :> {})}
============================================================================
