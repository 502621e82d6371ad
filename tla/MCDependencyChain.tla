-------------------------- MODULE MCDependencyChain --------------------------
(***************************************************************************)
(* Observations of upstream and acts of people for model checking.         *)
(***************************************************************************)
EXTENDS DependencyChain

Pin(patch, digest) == [patch |-> patch, digest |-> digest]

\* Two newer patches, and metadata that is ahead of the tag.
Releases == {FirstPin, Pin(1, 1), Pin(2, 3), Pin(1, 0)}

\* Somebody rolls the first minor back; or changes the program and the pin of an action,
\* which on a branch of Dependabot takes the update back and changes the program instead.
Edits == {Change({}, [m \in {1} |-> FirstPin]), Change({"actions", "src"}, NoPins)}

\* One request with two acts of people (a rollback and its publication), or two requests.
OneOrTwo == ((0..1) \X (0..2)) \cup {<<2, 0>>}

\* One release.
OneRelease == {FirstPin, Pin(1, 1)}

\* Somebody changes the rest of versions.json.
RestEdits == {Change({"rest"}, NoPins)}

OneWithTwo == (0..1) \X (0..2)
=============================================================================
