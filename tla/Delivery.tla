------------------------------ MODULE Delivery ------------------------------
(***************************************************************************)
(* What the dependency pipeline promises those who pull an image: main has *)
(* a history of patches it named, and each alias holds the patch named at  *)
(* some place of that history, a place that never moves back.  What the    *)
(* pipeline proposes by itself never names an older patch than the one     *)
(* before; a person may, and only then may an alias come to an older one.  *)
(* Nothing of branches, requests, runs or builds.                          *)
(***************************************************************************)
EXTENDS Naturals, Sequences

CONSTANTS Minors, Registries,
          Patches,     \* what main may name
          FirstPatch   \* what main names and the aliases hold at first

VARIABLES
    names,   \* what main has named so far: a patch for each minor, and who proposed it
    at,      \* for each alias, its place in names
    shown    \* for each alias, the patch inside its image

vars == <<names, at, shown>>

Naming(patches, proposed) == [patches |-> patches, proposed |-> proposed]

Init ==
    /\ \E proposed \in BOOLEAN :
          names = <<Naming([m \in Minors |-> FirstPatch], proposed)>>
    /\ at = [m \in Minors |-> [r \in Registries |-> 1]]
    /\ shown = [m \in Minors |-> [r \in Registries |-> FirstPatch]]

Name(patches, proposed) ==
    /\ proposed => \A m \in Minors : names[Len(names)].patches[m] <= patches[m]
    /\ names' = Append(names, Naming(patches, proposed))
    /\ UNCHANGED <<at, shown>>

Publish(m, r, i) ==
    /\ at[m][r] <= i
    /\ at' = [at EXCEPT ![m][r] = i]
    /\ shown' = [shown EXCEPT ![m][r] = names[i].patches[m]]
    /\ UNCHANGED names

Next ==
    \/ \E patches \in [Minors -> Patches], proposed \in BOOLEAN : Name(patches, proposed)
    \/ \E m \in Minors, r \in Registries, i \in 1..Len(names) : Publish(m, r, i)

Spec == Init /\ [][Next]_vars
=============================================================================
