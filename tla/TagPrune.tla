------------------------------ MODULE TagPrune ------------------------------
(***************************************************************************)
(* Docker Hub keeps one tag for each supported minor; every other tag is   *)
(* archived in GHCR and deleted.  Three commands, run at any distance from *)
(* each other: the deletion plan is an inventory, the archive map says     *)
(* which of its candidates have a signed copy, and apply deletes them,     *)
(* while images are still published to the same repository.                *)
(*                                                                         *)
(* An inventory is read page by page, a deleted tag may stay listed for a  *)
(* while, and Docker Hub deletes by name, whatever the tag points at.      *)
(***************************************************************************)
EXTENDS Naturals

CONSTANTS
    Keep,       \* the tags that stay
    Extra,      \* tags of the classes that are deleted
    Strange,    \* tags of no class
    FirstPage,  \* the tags on the first page of the inventory
    Rank,       \* the order of deletion
    Digests,
    Attempts,   \* how often a deletion is looked for
    MaxPushes   \* bound: pushes by others

Tags == Keep \cup Extra \cup Strange

ASSUME TagsAssumption ==
    /\ Keep \cap Extra = {} /\ Keep \cap Strange = {} /\ Extra \cap Strange = {}
    /\ FirstPage \subseteq Tags
    /\ Rank \in [Extra -> Nat]
    /\ \A t, u \in Extra : Rank[t] = Rank[u] => t = u
ASSUME DigestsAssumption == "absent" \notin Digests /\ Digests # {}
ASSUME PruneBoundsAssumption == Attempts \in Nat \ {0} /\ MaxPushes \in Nat

VARIABLES
    hub,         \* the image of each tag on Docker Hub
    lingering,   \* the image that is still listed for a deleted tag
    pushes,      \* how often others have pushed
    copies,      \* the copy in GHCR of an image of a tag
    plan,        \* the deletion plan: the inventory it was made from
    archiveMap,  \* the archive map: the tags and images it says are archived
    planner, archiver, pruner,  \* the three commands
    result       \* the last result that apply wrote

files == <<plan, archiveMap>>
hubVars == <<hub, lingering, pushes>>
pruneVars == <<hub, lingering, pushes, copies, plan, archiveMap, planner, archiver, pruner, result>>

Images == Digests \cup {"absent"}
Inventories == [Tags -> Images]
Nothing == [t \in Tags |-> "absent"]
NoPlan == Nothing  \* a plan has every tag of Keep

NoPlanner == [pc |-> "idle", seen |-> Nothing]
NoArchiver == [pc |-> "idle", plan |-> Nothing, todo |-> {}]
NoPruner == [pc |-> "idle", goal |-> "start", plan |-> Nothing, todo |-> {}, tag |-> "none",
             tries |-> 0, seen |-> Nothing, since |-> 0, late |-> [t \in Tags |-> 0]]

PruneInit ==
    /\ hub \in {inventory \in Inventories : \A t \in Tags : inventory[t] = "absent" <=> t \in Strange}
    /\ lingering = Nothing
    /\ pushes = 0
    /\ copies = [t \in Extra |-> [d \in Digests |-> "none"]]
    /\ plan = NoPlan
    /\ archiveMap = {}
    /\ planner = NoPlanner
    /\ archiver = NoArchiver
    /\ pruner = NoPruner
    /\ result = [status |-> "none", since |-> 0]

-----------------------------------------------------------------------------
\* The inventory at this moment, and after the page that is read second.
Listed == [t \in Tags |-> IF hub[t] = "absent" THEN lingering[t] ELSE hub[t]]
PageOne == [t \in Tags |-> IF t \in FirstPage THEN Listed[t] ELSE "absent"]
PageTwo(seen) == [t \in Tags |-> IF t \in FirstPage THEN seen[t] ELSE Listed[t]]

Candidates(inventory) == {t \in Extra : inventory[t] # "absent"}
Foremost(tags) == {t \in tags : \A u \in tags : Rank[t] <= Rank[u]}

Classified(inventory) == \A t \in Strange : inventory[t] = "absent"
KeepsAll(inventory) == \A t \in Keep : inventory[t] # "absent"

\* Fault: what else is there is not looked at.
NothingMissing(inventory) == KeepsAll(inventory)

ExactSurface(inventory) == KeepsAll(inventory) /\ \A t \in Tags \ Keep : inventory[t] = "absent"

\* The tag is as planned, or already deleted.
Fits(t, image, planned) == image = planned[t] \/ (t \notin Keep /\ image = "absent")

\* Fault: the live inventory is not compared once deletion has begun.
Unchecked(inventory, planned) == TRUE

Live(inventory, planned) == \A t \in Tags : Fits(t, inventory[t], planned)

\* Fault: the archive map is compared by name.
CoversNames(entries, planned) == {e[1] : e \in entries} = Candidates(planned)

Covers(entries, planned) == entries = {<<t, planned[t]>> : t \in Candidates(planned)}

-----------------------------------------------------------------------------
(***************************************************************************)
(* Docker Hub, and the publishers.                                         *)
(***************************************************************************)
\* For how many deletions in a row a tag has not been as planned.
Late(images, more) ==
    [t \in Tags |-> IF Fits(t, images[t], pruner.plan) THEN 0 ELSE pruner.late[t] + more]

Push(t, d) ==
    /\ pushes < MaxPushes
    /\ hub[t] # d
    /\ hub' = [hub EXCEPT ![t] = d]
    /\ lingering' = [lingering EXCEPT ![t] = "absent"]
    /\ pushes' = pushes + 1
    /\ pruner' = IF pruner.pc = "idle" THEN pruner ELSE [pruner EXCEPT !.late = Late(hub', 0)]
    /\ UNCHANGED <<copies, files, planner, archiver, result>>

Forget(t) ==
    /\ lingering[t] # "absent"
    /\ lingering' = [lingering EXCEPT ![t] = "absent"]
    /\ UNCHANGED <<hub, pushes, copies, files, planner, archiver, pruner, result>>

-----------------------------------------------------------------------------
(***************************************************************************)
(* plan                                                                    *)
(***************************************************************************)
PlanPageOne ==
    /\ planner.pc = "idle"
    /\ planner' = [pc |-> "second", seen |-> PageOne]
    /\ UNCHANGED <<hubVars, copies, files, archiver, pruner, result>>

\* Nothing is written when a tag has no class or a tag to keep is missing.
PlanPageTwo ==
    /\ planner.pc = "second"
    /\ planner' = NoPlanner
    /\ LET inventory == PageTwo(planner.seen)
       IN  plan' = IF Classified(inventory) /\ KeepsAll(inventory) THEN inventory ELSE plan
    /\ UNCHANGED <<hubVars, copies, archiveMap, archiver, pruner, result>>

-----------------------------------------------------------------------------
(***************************************************************************)
(* archive                                                                 *)
(***************************************************************************)
\* Every run begins with an empty map.
StartArchive ==
    /\ archiver.pc = "idle"
    /\ plan # NoPlan
    /\ archiver' = [pc |-> "copy", plan |-> plan, todo |-> Candidates(plan)]
    /\ archiveMap' = {}
    /\ UNCHANGED <<hubVars, copies, plan, planner, pruner, result>>

\* A copy that an earlier run left is used.
CopyImage(t) ==
    /\ archiver.pc = "copy"
    /\ copies' = [copies EXCEPT ![t][archiver.plan[t]] = IF @ = "none" THEN "copied" ELSE @]
    /\ archiver' = [archiver EXCEPT !.pc = "sign"]
    /\ UNCHANGED <<hubVars, files, planner, pruner, result>>

EntryWritten(t) ==
    /\ archiver.pc = "sign"
    /\ archiveMap' = archiveMap \cup {<<t, archiver.plan[t]>>}
    /\ archiver' = [archiver EXCEPT !.pc = "copy", !.todo = @ \ {t}]
    /\ UNCHANGED <<hubVars, plan, planner, pruner, result>>

\* Fault: the entry is written for a copy that is neither compared nor signed.
EntryOnly(t) == EntryWritten(t) /\ UNCHANGED copies

\* The copy is compared with the source, run, signed, and read without credentials; the
\* entry is written to the map at once.
SignCopy(t) ==
    /\ EntryWritten(t)
    /\ copies' = [copies EXCEPT ![t][archiver.plan[t]] = "signed"]

\* The run is complete, or a command fails, or it is stopped: the map stays as it is.
ArchiveEnds ==
    /\ archiver.pc # "idle"
    /\ archiver' = NoArchiver
    /\ UNCHANGED <<hubVars, copies, files, planner, pruner, result>>

-----------------------------------------------------------------------------
(***************************************************************************)
(* apply                                                                   *)
(***************************************************************************)
StartPrune ==
    /\ pruner.pc = "idle"
    /\ plan # NoPlan
    /\ Covers(archiveMap, plan)
    /\ pruner' = [NoPruner EXCEPT !.pc = "first", !.plan = plan, !.todo = Candidates(plan)]
    /\ UNCHANGED <<hubVars, copies, files, planner, archiver, result>>

\* Without a result, when it cannot begin or is not exact in the end; a failure while tags
\* are deleted is a result.
GiveUp ==
    /\ pruner' = NoPruner
    /\ result' = IF pruner.goal = "readback" THEN [status |-> "partial", since |-> 0] ELSE result

PrunePageOne ==
    /\ pruner.pc = "first"
    /\ pruner' = [pruner EXCEPT !.pc = "second", !.seen = PageOne, !.since = pushes]
    /\ UNCHANGED <<hubVars, copies, files, planner, archiver, result>>

\* The second page completes the inventory, which is judged at once.
Inventory == PageTwo(pruner.seen)

Refuse ==
    /\ pruner.pc = "second"
    /\ IF pruner.goal = "final" THEN ~ ExactSurface(Inventory) ELSE ~ Live(Inventory, pruner.plan)
    /\ GiveUp
    /\ UNCHANGED <<hubVars, copies, files, planner, archiver>>

BeginDeleting ==
    /\ pruner.pc = "second" /\ pruner.goal = "start"
    /\ Live(Inventory, pruner.plan)
    /\ pruner' = [pruner EXCEPT !.pc = "delete", !.seen = Inventory]
    /\ UNCHANGED <<hubVars, copies, files, planner, archiver, result>>

SeenDeleted(t) ==
    /\ pruner.pc = "second" /\ pruner.goal = "readback" /\ pruner.tag = t
    /\ Live(Inventory, pruner.plan)
    /\ Inventory[t] = "absent"
    /\ pruner' = [pruner EXCEPT !.pc = "delete", !.goal = "start", !.seen = Inventory,
                                !.todo = @ \ {t}, !.tag = "none", !.tries = 0]
    /\ UNCHANGED <<hubVars, copies, files, planner, archiver, result>>

\* Fault: a deletion is looked for once too often.
LooksOnceMore == pruner.tries < Attempts
LooksAgain == pruner.tries + 1 < Attempts

LookedFor(t, tries) ==
    /\ pruner.pc = "second" /\ pruner.goal = "readback" /\ pruner.tag = t
    /\ Live(Inventory, pruner.plan)
    /\ Inventory[t] # "absent"
    /\ IF LooksAgain
       THEN /\ pruner' = [pruner EXCEPT !.pc = "first", !.seen = Nothing, !.tries = tries]
            /\ UNCHANGED result
       ELSE GiveUp
    /\ UNCHANGED <<hubVars, copies, files, planner, archiver>>

\* Fault: a deletion is looked for until it is seen.
LookedForEver(t) == LookedFor(t, pruner.tries)

StillListed(t) == LookedFor(t, pruner.tries + 1)

Succeed ==
    /\ pruner.pc = "second" /\ pruner.goal = "final"
    /\ ExactSurface(Inventory)
    /\ pruner' = NoPruner
    /\ result' = [status |-> "success", since |-> pruner.since]
    /\ UNCHANGED <<hubVars, copies, files, planner, archiver>>

PruneReadFails ==
    /\ pruner.pc \in {"first", "second"}
    /\ GiveUp
    /\ UNCHANGED <<hubVars, copies, files, planner, archiver>>

\* The candidate was not listed by the last inventory.
SkipAbsent(t) ==
    /\ pruner.pc = "delete"
    /\ pruner.seen[t] = "absent"
    /\ pruner' = [pruner EXCEPT !.todo = @ \ {t}]
    /\ UNCHANGED <<hubVars, copies, files, planner, archiver, result>>

DeletionFails ==
    /\ pruner' = NoPruner
    /\ result' = [status |-> "partial", since |-> 0]

\* The request takes effect on the image that the tag has at this moment, and may stay
\* listed; it is answered, or it is not and counts as failed.
DeleteTag(t) ==
    /\ pruner.pc = "delete"
    /\ pruner.seen[t] # "absent" /\ hub[t] # "absent"
    /\ hub' = [hub EXCEPT ![t] = "absent"]
    /\ \E image \in {hub[t], "absent"} : lingering' = [lingering EXCEPT ![t] = image]
    /\ \/ /\ pruner' = [pruner EXCEPT !.pc = "first", !.goal = "readback", !.tag = t,
                                      !.seen = Nothing, !.late = Late(hub', 1)]
          /\ UNCHANGED result
       \/ DeletionFails
    /\ UNCHANGED <<pushes, copies, files, planner, archiver>>

DeleteFails(t) ==
    /\ pruner.pc = "delete"
    /\ pruner.seen[t] # "absent"
    /\ DeletionFails
    /\ UNCHANGED <<hubVars, copies, files, planner, archiver>>

AllDeleted ==
    /\ pruner.pc = "delete" /\ pruner.todo = {}
    /\ pruner' = [pruner EXCEPT !.pc = "first", !.goal = "final", !.seen = Nothing]
    /\ UNCHANGED <<hubVars, copies, files, planner, archiver, result>>

PruneStops ==
    /\ pruner.pc # "idle"
    /\ pruner' = NoPruner
    /\ UNCHANGED <<hubVars, copies, files, planner, archiver, result>>

PruneStep ==
    \/ PrunePageOne \/ Refuse \/ BeginDeleting \/ Succeed \/ PruneReadFails \/ AllDeleted
    \/ \E t \in Extra : SeenDeleted(t) \/ StillListed(t)
    \/ \E t \in Foremost(pruner.todo) : SkipAbsent(t) \/ DeleteTag(t) \/ DeleteFails(t)

PruneNext ==
    \/ \E t \in Tags, d \in Digests : Push(t, d)
    \/ \E t \in Extra : Forget(t)
    \/ PlanPageOne \/ PlanPageTwo
    \/ StartArchive \/ ArchiveEnds
    \/ \E t \in Foremost(archiver.todo) : CopyImage(t) \/ SignCopy(t)
    \/ StartPrune \/ PruneStep \/ PruneStops

PruneFairness == WF_pruneVars(PruneStep)

PruneSpec == PruneInit /\ [][PruneNext]_pruneVars /\ PruneFairness

-----------------------------------------------------------------------------
PruneTypeOK ==
    /\ hub \in Inventories /\ lingering \in Inventories
    /\ pushes \in Nat
    /\ copies \in [Extra -> [Digests -> {"none", "copied", "signed"}]]
    /\ plan \in Inventories
    /\ archiveMap \subseteq (Extra \X Digests)
    /\ planner \in [pc: {"idle", "second"}, seen: Inventories]
    /\ archiver \in [pc: {"idle", "copy", "sign"}, plan: Inventories, todo: SUBSET Extra]
    /\ pruner \in [pc: {"idle", "first", "second", "delete"}, goal: {"start", "readback", "final"},
                   plan: Inventories, todo: SUBSET Extra, tag: Extra \cup {"none"},
                   tries: 0..(Attempts - 1), seen: Inventories, since: Nat, late: [Tags -> Nat]]
    /\ result \in [status: {"none", "partial", "success"}, since: Nat]

\* Plans are made again, archives begun again and interrupted, and tags pushed between any
\* two steps.  Whatever the apply command deletes has a signed copy, unless the tag was
\* pushed after the last inventory: Docker Hub deletes by name.
DeletesOnlyArchived ==
    [][\A t \in Extra : hub[t] # "absent" /\ hub'[t] = "absent" /\ hub[t] = pruner.seen[t]
          => copies[t][hub[t]] = "signed"]_pruneVars

\* The tag that is deleted need not be the one that has moved: after any tag has ceased to
\* be as planned, at most one more is deleted.
DriftStopsDeletion == \A t \in Tags : pruner.late[t] <= 1

\* Every tag left alone by the loop may have been pushed since.  A success that is written
\* says that Docker Hub shows exactly the tags to keep, if none was pushed from then on.
SuccessIsExact == result.status = "success" /\ result.since = pushes =>
    \A t \in Tags : hub[t] # "absent" <=> t \in Keep

Pruning == pruner.pc # "idle"
=============================================================================
