--------------------------- MODULE TagPruneProofs ---------------------------
(***************************************************************************)
(* What the commands that delete tags of Docker Hub never do, for every    *)
(* set of tags and however many images are pushed beside them.             *)
(*                                                                         *)
(* A tag that is not as planned is listed with the image that it has, and  *)
(* an inventory that reads it from then on is refused.  So no tag has      *)
(* drifted for a deletion or more when the next one begins, and what the   *)
(* last inventory listed is what the archive map was compared with.        *)
(***************************************************************************)
EXTENDS TagPrune, TLAPS

USE TagsAssumption, DigestsAssumption

\* Tags to keep are pushed, never deleted.
HubInv ==
    /\ \A t \in Keep : hub[t] # "absent" /\ lingering[t] = "absent"
    /\ result.since <= pushes
    /\ result.status = "success" /\ result.since = pushes =>
          \A t \in Tags \ Keep : hub[t] = "absent"

MapInv == \A e \in archiveMap : copies[e[1]][e[2]] = "signed"

ArchiverInv == archiver.todo \subseteq Candidates(archiver.plan)

Archived(planned) == \A t \in Candidates(planned) : copies[t][planned[t]] = "signed"

PlanInv ==
    pruner.pc # "idle" => Archived(pruner.plan) /\ pruner.todo \subseteq Candidates(pruner.plan)

\* A tag that has drifted is still as it was.
LateInv ==
    /\ \A t \in Tags :
          /\ pruner.late[t] <= 1
          /\ pruner.late[t] = 1 => ~ Fits(t, hub[t], pruner.plan)
    /\ pruner.pc \in {"idle", "delete"} => \A t \in Tags : pruner.late[t] = 0

\* What the first page says of drift, and of tags that are gone.
PageInv ==
    pruner.pc = "second" =>
        /\ \A t \in FirstPage : pruner.late[t] = 1 => ~ Fits(t, pruner.seen[t], pruner.plan)
        /\ pruner.since <= pushes
        /\ pruner.since = pushes =>
              \A t \in FirstPage : pruner.seen[t] = "absent" => hub[t] = "absent"

SeenInv == pruner.pc = "delete" => Live(pruner.seen, pruner.plan)

PruneInv ==
    /\ PruneTypeOK /\ HubInv /\ MapInv /\ ArchiverInv
    /\ PlanInv /\ LateInv /\ PageInv /\ SeenInv

Pruners == [pc: {"idle", "first", "second", "delete"}, goal: {"start", "readback", "final"},
            plan: Inventories, todo: SUBSET Extra, tag: Extra \cup {"none"},
            tries: 0..(Attempts - 1), seen: Inventories, since: Nat, late: [Tags -> Nat]]

-----------------------------------------------------------------------------
LEMMA NothingType == Nothing \in Inventories
BY DEF Nothing, Inventories, Images

LEMMA NoPrunerType ==
    /\ NoPruner \in Pruners
    /\ NoPruner.pc = "idle" /\ NoPruner.plan = Nothing /\ NoPruner.late = [t \in Tags |-> 0]
BY NothingType, PruneBoundsAssumption DEF NoPruner, Pruners

LEMMA PageTypes ==
    ASSUME hub \in Inventories, lingering \in Inventories, NEW seen \in Inventories
    PROVE  PageOne \in Inventories /\ PageTwo(seen) \in Inventories
<1>1. Listed \in Inventories BY DEF Listed, Inventories
<1>2. \A t \in Tags : Listed[t] \in Images /\ seen[t] \in Images
    BY <1>1 DEF Inventories
<1> QED BY <1>2 DEF PageOne, PageTwo, Inventories, Images

\* A tag that has drifted is listed as it is.
LEMMA DriftIsListed ==
    ASSUME HubInv, NEW t \in Tags, ~ Fits(t, hub[t], pruner.plan)
    PROVE  ~ Fits(t, Listed[t], pruner.plan)
BY DEF HubInv, Fits, Listed

\* An inventory that fits the plan finds that nothing has drifted for a deletion.
LEMMA LiveIsFresh ==
    ASSUME PruneInv, pruner.pc = "second", Live(Inventory, pruner.plan)
    PROVE  \A t \in Tags : pruner.late[t] = 0
<1> SUFFICES ASSUME NEW t \in Tags, pruner.late[t] # 0 PROVE FALSE OBVIOUS
<1>0. pruner.late \in [Tags -> Nat] BY DEF PruneInv, PruneTypeOK
<1>1. pruner.late[t] = 1
  <2>1. pruner.late[t] \in Nat BY <1>0
  <2>2. pruner.late[t] <= 1 BY DEF PruneInv, LateInv
  <2> QED BY <2>1, <2>2
<1>2. Fits(t, Inventory[t], pruner.plan) BY DEF Live
<1>3. CASE t \in FirstPage
  <2>1. Inventory[t] = pruner.seen[t] BY <1>3 DEF Inventory, PageTwo
  <2> QED BY <1>1, <1>2, <1>3, <2>1 DEF PruneInv, PageInv
<1>4. CASE t \notin FirstPage
  <2>1. Inventory[t] = Listed[t] BY <1>4 DEF Inventory, PageTwo
  <2>2. ~ Fits(t, hub[t], pruner.plan) BY <1>1 DEF PruneInv, LateInv
  <2> QED BY <1>2, <2>1, <2>2, DriftIsListed DEF PruneInv
<1> QED BY <1>3, <1>4

-----------------------------------------------------------------------------
\* A step of apply that leaves Docker Hub as it is.
LEMMA PrunerSteps ==
    ASSUME PruneInv, UNCHANGED <<hubVars, copies, files, planner, archiver>>,
           pruner' \in Pruners,
           result' = result \/ result' = [status |-> "partial", since |-> 0],
           pruner'.pc # "idle" => pruner'.plan = pruner.plan /\ pruner.pc # "idle"
                                  /\ pruner'.todo \subseteq pruner.todo,
           \/ pruner'.late = pruner.late /\ pruner'.plan = pruner.plan
           \/ pruner'.late = [t \in Tags |-> 0],
           pruner'.pc \in {"idle", "delete"} => \A t \in Tags : pruner'.late[t] = 0,
           PageInv', SeenInv'
    PROVE  PruneInv'
<1> USE DEF PruneInv, hubVars, files
<1>1. PruneTypeOK'
  <2>1. result' \in [status: {"none", "partial", "success"}, since: Nat] BY DEF PruneTypeOK
  <2> QED BY <2>1 DEF PruneTypeOK, Pruners
<1>2. HubInv' BY DEF HubInv, PruneTypeOK
<1>3. MapInv' /\ ArchiverInv' BY DEF MapInv, ArchiverInv, Candidates
<1>4. PlanInv' BY DEF PlanInv, Archived, Candidates
<1>5. LateInv' BY DEF LateInv, Fits
<1> QED BY <1>1, <1>2, <1>3, <1>4, <1>5

LEMMA PrunerIdles ==
    ASSUME PruneInv, UNCHANGED <<hubVars, copies, files, planner, archiver>>,
           pruner' = NoPruner,
           result' = result \/ result' = [status |-> "partial", since |-> 0]
    PROVE  PruneInv'
<1>1. /\ pruner' \in Pruners /\ pruner'.pc = "idle" /\ pruner'.late = [t \in Tags |-> 0]
    BY NoPrunerType
<1>2. PageInv' /\ SeenInv' BY <1>1 DEF PageInv, SeenInv
<1> QED BY <1>1, <1>2, PrunerSteps

LEMMA GiveUpKeeps ==
    ASSUME PruneInv, GiveUp, UNCHANGED <<hubVars, copies, files, planner, archiver>>
    PROVE  PruneInv'
BY PrunerIdles DEF GiveUp

LEMMA PageOneKeeps == PruneInv /\ PrunePageOne => PruneInv'
<1> SUFFICES ASSUME PruneInv, PrunePageOne PROVE PruneInv' OBVIOUS
<1>0. /\ UNCHANGED <<hubVars, copies, files, planner, archiver, result>>
      /\ pruner \in Pruners /\ pruner.pc = "first"
    BY DEF PrunePageOne, PruneInv, PruneTypeOK, Pruners
<1>1. pruner' = [pruner EXCEPT !.pc = "second", !.seen = PageOne, !.since = pushes]
    BY DEF PrunePageOne
<1>2. PageOne \in Inventories /\ pushes \in Nat
    BY NothingType, PageTypes DEF PruneInv, PruneTypeOK
<1>3. /\ pruner' \in Pruners /\ pruner'.pc = "second" /\ pruner'.plan = pruner.plan
      /\ pruner'.todo = pruner.todo /\ pruner'.late = pruner.late
      /\ pruner'.seen = PageOne /\ pruner'.since = pushes
    BY <1>0, <1>1, <1>2 DEF Pruners
<1>4. PageInv'
  <2>1. ASSUME NEW t \in FirstPage
        PROVE  /\ PageOne[t] = Listed[t]
               /\ pruner.late[t] = 1 => ~ Fits(t, PageOne[t], pruner.plan)
               /\ PageOne[t] = "absent" => hub[t] = "absent"
    <3>0. t \in Tags OBVIOUS
    <3>1. PageOne[t] = Listed[t] BY <3>0 DEF PageOne
    <3>2. pruner.late[t] = 1 => ~ Fits(t, hub[t], pruner.plan) BY <3>0 DEF PruneInv, LateInv
    <3>3. Listed[t] = "absent" => hub[t] = "absent" BY <3>0 DEF Listed
    <3> QED BY <3>0, <3>1, <3>2, <3>3, DriftIsListed DEF PruneInv
  <2> QED BY <1>0, <1>2, <1>3, <2>1 DEF PageInv, Fits, hubVars
<1>5. SeenInv' BY <1>3 DEF SeenInv
<1> QED BY <1>0, <1>3, <1>4, <1>5, PrunerSteps

\* Apply goes on to the next deletion.
LEMMA ProceedKeeps ==
    ASSUME PruneInv, BeginDeleting \/ \E t \in Extra : SeenDeleted(t)
    PROVE  PruneInv'
<1>0. /\ UNCHANGED <<hubVars, copies, files, planner, archiver, result>>
      /\ pruner \in Pruners /\ pruner.pc = "second" /\ Live(Inventory, pruner.plan)
    BY DEF BeginDeleting, SeenDeleted, PruneInv, PruneTypeOK, Pruners
<1>1. Inventory \in Inventories
    BY PageTypes DEF PruneInv, PruneTypeOK, Inventory
<1>2. 0 \in 0..(Attempts - 1) BY PruneBoundsAssumption
<1>3. /\ pruner' \in Pruners /\ pruner'.pc = "delete" /\ pruner'.plan = pruner.plan
      /\ pruner'.todo \subseteq pruner.todo /\ pruner'.late = pruner.late
      /\ pruner'.seen = Inventory
  <2>1. CASE BeginDeleting BY <1>0, <1>1, <2>1 DEF BeginDeleting, Pruners
  <2>2. ASSUME NEW t \in Extra, SeenDeleted(t)
        PROVE /\ pruner' \in Pruners /\ pruner'.pc = "delete" /\ pruner'.plan = pruner.plan
              /\ pruner'.todo \subseteq pruner.todo /\ pruner'.late = pruner.late
              /\ pruner'.seen = Inventory
    BY <1>0, <1>1, <1>2, <2>2 DEF SeenDeleted, Pruners
  <2> QED BY <2>1, <2>2
<1>4. \A t \in Tags : pruner'.late[t] = 0 BY <1>0, <1>3, LiveIsFresh
<1>5. PageInv' BY <1>3 DEF PageInv
<1>6. SeenInv' BY <1>0, <1>3 DEF SeenInv, Live, Fits
<1> QED BY <1>0, <1>3, <1>4, <1>5, <1>6, PrunerSteps

LEMMA StillListedKeeps ==
    ASSUME PruneInv, NEW t \in Extra, StillListed(t)
    PROVE  PruneInv'
<1>0. /\ UNCHANGED <<hubVars, copies, files, planner, archiver>>
      /\ pruner \in Pruners /\ pruner.pc = "second"
    BY DEF StillListed, LookedFor, PruneInv, PruneTypeOK, Pruners
<1>1. CASE ~ LooksAgain BY <1>0, <1>1, GiveUpKeeps DEF StillListed, LookedFor
<1>2. CASE LooksAgain
  <2>1. /\ pruner' = [pruner EXCEPT !.pc = "first", !.seen = Nothing, !.tries = pruner.tries + 1]
        /\ result' = result
    BY <1>2 DEF StillListed, LookedFor
  <2>2. pruner.tries + 1 \in 0..(Attempts - 1)
    BY <1>0, <1>2, PruneBoundsAssumption DEF LooksAgain, Pruners
  <2>3. /\ pruner' \in Pruners /\ pruner'.pc = "first" /\ pruner'.plan = pruner.plan
        /\ pruner'.todo = pruner.todo /\ pruner'.late = pruner.late
    BY <1>0, <2>1, <2>2, NothingType DEF Pruners
  <2>4. PageInv' /\ SeenInv' BY <2>3 DEF PageInv, SeenInv
  <2> QED BY <1>0, <2>1, <2>3, <2>4, PrunerSteps
<1> QED BY <1>1, <1>2

LEMMA LoopKeeps ==
    ASSUME PruneInv, AllDeleted \/ \E t \in Foremost(pruner.todo) : SkipAbsent(t)
    PROVE  PruneInv'
<1>0. /\ UNCHANGED <<hubVars, copies, files, planner, archiver, result>>
      /\ pruner \in Pruners /\ pruner.pc = "delete"
    BY DEF AllDeleted, SkipAbsent, PruneInv, PruneTypeOK, Pruners
<1>1. CASE AllDeleted
  <2>1. /\ pruner' \in Pruners /\ pruner'.pc = "first" /\ pruner'.plan = pruner.plan
        /\ pruner'.todo = pruner.todo /\ pruner'.late = pruner.late
    BY <1>0, <1>1, NothingType DEF AllDeleted, Pruners
  <2>2. PageInv' /\ SeenInv' BY <2>1 DEF PageInv, SeenInv
  <2> QED BY <1>0, <2>1, <2>2, PrunerSteps
<1>2. ASSUME NEW t \in Foremost(pruner.todo), SkipAbsent(t) PROVE PruneInv'
  <2>1. /\ pruner' \in Pruners /\ pruner'.pc = "delete" /\ pruner'.plan = pruner.plan
        /\ pruner'.todo \subseteq pruner.todo /\ pruner'.late = pruner.late
        /\ pruner'.seen = pruner.seen
    BY <1>0, <1>2 DEF SkipAbsent, Pruners
  <2>2. PageInv' BY <2>1 DEF PageInv
  <2>3. SeenInv' BY <1>0, <2>1 DEF PruneInv, SeenInv, Live, Fits
  <2>4. \A u \in Tags : pruner'.late[u] = 0 BY <1>0, <2>1 DEF PruneInv, LateInv
  <2> QED BY <1>0, <2>1, <2>2, <2>3, <2>4, PrunerSteps
<1> QED BY <1>1, <1>2

LEMMA SucceedKeeps == PruneInv /\ Succeed => PruneInv'
<1> SUFFICES ASSUME PruneInv, Succeed PROVE PruneInv' OBVIOUS
<1>0. /\ UNCHANGED <<hubVars, copies, files, planner, archiver>>
      /\ pruner.pc = "second" /\ pruner' = NoPruner
      /\ result' = [status |-> "success", since |-> pruner.since]
      /\ ExactSurface(Inventory)
    BY DEF Succeed
<1>1. pruner' \in Pruners /\ pruner'.pc = "idle" /\ pruner'.late = [t \in Tags |-> 0]
    BY <1>0, NoPrunerType
<1>2. PruneTypeOK'
  <2>1. pruner.since \in Nat BY DEF PruneInv, PruneTypeOK
  <2>2. result' \in [status: {"none", "partial", "success"}, since: Nat] BY <1>0, <2>1
  <2> QED BY <1>0, <1>1, <2>2 DEF PruneInv, PruneTypeOK, Pruners, hubVars, files
<1>3. HubInv'
  <2>1. result'.since = pruner.since /\ pruner.since <= pushes
    BY <1>0 DEF PruneInv, PageInv
  <2>2. ASSUME pruner.since = pushes, NEW t \in Tags \ Keep PROVE hub[t] = "absent"
    <3>1. Inventory[t] = "absent" BY <1>0 DEF ExactSurface
    <3>2. CASE t \in FirstPage
      BY <1>0, <2>2, <3>1, <3>2 DEF PruneInv, PageInv, Inventory, PageTwo
    <3>3. CASE t \notin FirstPage
      BY <3>1, <3>3 DEF Inventory, PageTwo, Listed
    <3> QED BY <3>2, <3>3
  <2> QED BY <1>0, <2>1, <2>2 DEF PruneInv, HubInv, hubVars
<1>4. MapInv' /\ ArchiverInv' BY <1>0 DEF PruneInv, MapInv, ArchiverInv, Candidates, files
<1>5. LateInv' BY <1>1 DEF LateInv
<1> QED BY <1>1, <1>2, <1>3, <1>4, <1>5 DEF PruneInv, PlanInv, PageInv, SeenInv

LEMMA StartKeeps == PruneInv /\ StartPrune => PruneInv'
<1> SUFFICES ASSUME PruneInv, StartPrune PROVE PruneInv' OBVIOUS
<1>0. /\ UNCHANGED <<hubVars, copies, files, planner, archiver, result>>
      /\ Covers(archiveMap, plan) /\ plan \in Inventories
    BY DEF StartPrune, PruneInv, PruneTypeOK
<1>1. Candidates(plan) \subseteq Extra BY DEF Candidates
<1>2. pruner' = [NoPruner EXCEPT !.pc = "first", !.plan = plan, !.todo = Candidates(plan)]
    BY DEF StartPrune
<1>3. /\ pruner' \in Pruners /\ pruner'.pc = "first" /\ pruner'.plan = plan
      /\ pruner'.todo = Candidates(plan) /\ pruner'.late = [t \in Tags |-> 0]
    BY <1>0, <1>1, <1>2, NoPrunerType DEF Pruners
<1>4. Archived(plan)
  <2> SUFFICES ASSUME NEW t \in Candidates(plan) PROVE copies[t][plan[t]] = "signed"
    BY DEF Archived
  <2>1. <<t, plan[t]>> \in archiveMap BY <1>0 DEF Covers
  <2> QED BY <2>1 DEF PruneInv, MapInv
<1>5. PruneTypeOK' BY <1>0, <1>3 DEF PruneInv, PruneTypeOK, Pruners, hubVars, files
<1>6. HubInv' /\ MapInv' /\ ArchiverInv'
    BY <1>0 DEF PruneInv, HubInv, MapInv, ArchiverInv, Candidates, hubVars, files
<1>7. PlanInv' BY <1>0, <1>3, <1>4 DEF PlanInv, Archived, Candidates
<1>8. LateInv' BY <1>3 DEF LateInv
<1> QED BY <1>3, <1>5, <1>6, <1>7, <1>8 DEF PruneInv, PageInv, SeenInv

-----------------------------------------------------------------------------
\* Docker Hub changes: what was late for a tag still is, or the tag fits again.
LEMMA LateSteps ==
    ASSUME PruneInv, NEW images \in Inventories, NEW more \in {0, 1},
           more = 1 => pruner.pc = "delete"
    PROVE  /\ Late(images, more) \in [Tags -> Nat]
           /\ \A t \in Tags :
                 /\ Late(images, more)[t] <= 1
                 /\ Late(images, more)[t] = 1 => ~ Fits(t, images[t], pruner.plan)
                 /\ more = 0 => Late(images, more)[t] <= pruner.late[t]
<1>1. \A t \in Tags : pruner.late[t] \in Nat /\ pruner.late[t] <= 1
    BY DEF PruneInv, PruneTypeOK, LateInv
<1>2. more = 1 => \A t \in Tags : pruner.late[t] = 0 BY DEF PruneInv, LateInv
<1>3. \A t \in Tags :
         /\ Late(images, more)[t] = IF Fits(t, images[t], pruner.plan) THEN 0
                                    ELSE pruner.late[t] + more
         /\ Late(images, more)[t] \in Nat
    BY <1>1 DEF Late
<1>4. Late(images, more) \in [Tags -> Nat] BY <1>1 DEF Late
<1> QED BY <1>1, <1>2, <1>3, <1>4

LEMMA LateStays ==
    ASSUME PruneInv, NEW images \in Inventories
    PROVE  /\ Late(images, 0) \in [Tags -> Nat]
           /\ \A t \in Tags :
                 /\ Late(images, 0)[t] <= 1
                 /\ Late(images, 0)[t] = 1 => ~ Fits(t, images[t], pruner.plan)
                 /\ Late(images, 0)[t] <= pruner.late[t]
BY LateSteps

LEMMA PushKeeps ==
    ASSUME PruneInv, NEW t \in Tags, NEW d \in Digests, Push(t, d)
    PROVE  PruneInv'
<1>0. UNCHANGED <<copies, files, planner, archiver, result>> BY DEF Push
<1>1. /\ hub' = [hub EXCEPT ![t] = d] /\ lingering' = [lingering EXCEPT ![t] = "absent"]
      /\ hub' \in Inventories /\ lingering' \in Inventories
      /\ pushes' = pushes + 1 /\ pushes \in Nat /\ pushes' \in Nat
    BY DEF Push, PruneInv, PruneTypeOK, Inventories, Images
<1>2. /\ pruner' \in Pruners /\ pruner'.pc = pruner.pc /\ pruner'.plan = pruner.plan
      /\ pruner'.todo = pruner.todo /\ pruner'.seen = pruner.seen
      /\ pruner'.since = pruner.since
      /\ IF pruner.pc = "idle" THEN pruner'.late = pruner.late ELSE pruner'.late = Late(hub', 0)
  <2>1. pruner \in Pruners BY DEF PruneInv, PruneTypeOK, Pruners
  <2>2. Late(hub', 0) \in [Tags -> Nat] BY <1>1, LateStays
  <2> QED BY <2>1, <2>2 DEF Push, Pruners
<1>3. PruneTypeOK' BY <1>0, <1>1, <1>2 DEF PruneInv, PruneTypeOK, Pruners, files
<1>4. HubInv'
  <2>1. \A u \in Keep : hub'[u] # "absent" /\ lingering'[u] = "absent"
    <3>1. \A u \in Tags : /\ hub'[u] = IF u = t THEN d ELSE hub[u]
                          /\ lingering'[u] = IF u = t THEN "absent" ELSE lingering[u]
      BY <1>1 DEF PruneInv, PruneTypeOK, Inventories
    <3> QED BY <3>1 DEF PruneInv, HubInv, Tags
  <2>2. result'.since < pushes'
    BY <1>0, <1>1 DEF PruneInv, PruneTypeOK, HubInv
  <2>3. result'.since \in Nat BY <1>3 DEF PruneTypeOK
  <2> QED BY <1>1, <2>1, <2>2, <2>3 DEF HubInv
<1>5. MapInv' /\ ArchiverInv' BY <1>0 DEF PruneInv, MapInv, ArchiverInv, Candidates, files
<1>6. PlanInv' BY <1>0, <1>2 DEF PruneInv, PlanInv, Archived, Candidates
<1>7. LateInv'
  <2>1. CASE pruner.pc = "idle"
    <3>1. \A u \in Tags : pruner'.late[u] = 0 BY <1>2, <2>1 DEF PruneInv, LateInv
    <3> QED BY <3>1 DEF LateInv
  <2>2. CASE pruner.pc # "idle"
    <3>1. \A u \in Tags : /\ pruner'.late[u] <= 1
                          /\ pruner'.late[u] = 1 => ~ Fits(u, hub'[u], pruner'.plan)
                          /\ pruner'.late[u] <= pruner.late[u]
      BY <1>1, <1>2, <2>2, LateStays
    <3>2. pruner'.pc = "delete" => \A u \in Tags : pruner'.late[u] = 0
      BY <1>2, <3>1 DEF PruneInv, LateInv, Pruners
    <3> QED BY <1>2, <2>2, <3>1, <3>2 DEF LateInv, Fits
  <2> QED BY <2>1, <2>2
<1>8. PageInv'
  <2> SUFFICES ASSUME pruner.pc = "second" PROVE PageInv' BY <1>2 DEF PageInv
  <2>1. \A u \in Tags : pruner'.late[u] <= pruner.late[u] /\ pruner.late[u] <= 1
                        /\ pruner.late[u] \in Nat /\ pruner'.late[u] \in Nat
    BY <1>1, <1>2, LateStays DEF PruneInv, LateInv, PruneTypeOK, Pruners
  <2>2. \A u \in FirstPage : pruner'.late[u] = 1 => pruner.late[u] = 1 BY <2>1
  <2>3. pruner.since <= pushes /\ pruner.since \in Nat
    BY DEF PruneInv, PageInv, PruneTypeOK
  <2> QED BY <1>1, <1>2, <2>2, <2>3 DEF PruneInv, PageInv, Fits
<1>9. SeenInv' BY <1>2 DEF PruneInv, SeenInv, Live, Fits
<1> QED BY <1>3, <1>4, <1>5, <1>6, <1>7, <1>8, <1>9 DEF PruneInv

LEMMA ForgetKeeps ==
    ASSUME PruneInv, NEW t \in Extra, Forget(t)
    PROVE  PruneInv'
<1>0. UNCHANGED <<hub, pushes, copies, files, planner, archiver, pruner, result>> BY DEF Forget
<1>1. /\ lingering' \in Inventories
      /\ \A u \in Tags : lingering'[u] = IF u = t THEN "absent" ELSE lingering[u]
    BY DEF Forget, PruneInv, PruneTypeOK, Inventories, Images
<1>2. PruneTypeOK' BY <1>0, <1>1 DEF PruneInv, PruneTypeOK, files
<1>3. HubInv' BY <1>0, <1>1 DEF PruneInv, HubInv, Tags
<1> QED BY <1>0, <1>2, <1>3 DEF PruneInv, MapInv, ArchiverInv, Candidates, PlanInv, Archived,
        LateInv, PageInv, SeenInv, Live, Fits, files

LEMMA DeleteKeeps ==
    ASSUME PruneInv, NEW t \in Foremost(pruner.todo), DeleteTag(t)
    PROVE  PruneInv'
<1>0. /\ UNCHANGED <<pushes, copies, files, planner, archiver>>
      /\ pruner.pc = "delete" /\ pruner \in Pruners
    BY DEF DeleteTag, PruneInv, PruneTypeOK, Pruners
<1>1. t \in Extra /\ t \in Tags \ Keep
    BY <1>0 DEF Foremost, Pruners, Tags
<1>2. /\ hub' \in Inventories /\ lingering' \in Inventories
      /\ \A u \in Tags : hub'[u] = IF u = t THEN "absent" ELSE hub[u]
      /\ \A u \in Tags \ {t} : lingering'[u] = lingering[u]
  <2>1. hub[t] \in Images /\ "absent" \in Images
    BY <1>1 DEF PruneInv, PruneTypeOK, Inventories, Images
  <2> QED BY <1>1, <2>1 DEF DeleteTag, PruneInv, PruneTypeOK, Inventories
<1>3. CASE DeletionFails
  <2>1. /\ pruner' \in Pruners /\ pruner'.pc = "idle" /\ pruner'.late = [u \in Tags |-> 0]
        /\ result' = [status |-> "partial", since |-> 0]
    BY <1>3, NoPrunerType DEF DeletionFails
  <2>2. PruneTypeOK' BY <1>0, <1>2, <2>1 DEF PruneInv, PruneTypeOK, Pruners, files
  <2>3. HubInv' BY <1>0, <1>1, <1>2, <2>1 DEF PruneInv, HubInv, PruneTypeOK, Tags
  <2>4. MapInv' /\ ArchiverInv' BY <1>0 DEF PruneInv, MapInv, ArchiverInv, Candidates, files
  <2>5. LateInv' BY <2>1 DEF LateInv
  <2> QED BY <2>1, <2>2, <2>3, <2>4, <2>5 DEF PruneInv, PlanInv, PageInv, SeenInv
<1>4. CASE /\ pruner' = [pruner EXCEPT !.pc = "first", !.goal = "readback", !.tag = t,
                                       !.seen = Nothing, !.late = Late(hub', 1)]
           /\ UNCHANGED result
  <2>1. /\ Late(hub', 1) \in [Tags -> Nat]
        /\ \A u \in Tags : /\ Late(hub', 1)[u] <= 1
                           /\ Late(hub', 1)[u] = 1 => ~ Fits(u, hub'[u], pruner.plan)
    BY <1>0, <1>2, LateSteps
  <2>2. /\ pruner' \in Pruners /\ pruner'.pc = "first" /\ pruner'.plan = pruner.plan
        /\ pruner'.todo = pruner.todo /\ pruner'.late = Late(hub', 1)
    BY <1>0, <1>1, <1>4, <2>1, NothingType DEF Pruners
  <2>3. PruneTypeOK' BY <1>0, <1>2, <1>4, <2>2 DEF PruneInv, PruneTypeOK, Pruners, files
  <2>4. HubInv' BY <1>0, <1>1, <1>2, <1>4 DEF PruneInv, HubInv, Tags
  <2>5. MapInv' /\ ArchiverInv' BY <1>0 DEF PruneInv, MapInv, ArchiverInv, Candidates, files
  <2>6. PlanInv' BY <1>0, <2>2 DEF PruneInv, PlanInv, Archived, Candidates
  <2>7. LateInv' BY <2>1, <2>2 DEF LateInv, Fits
  <2> QED BY <2>2, <2>3, <2>4, <2>5, <2>6, <2>7 DEF PruneInv, PageInv, SeenInv
<1> QED BY <1>3, <1>4 DEF DeleteTag

-----------------------------------------------------------------------------
\* Plans and archives leave Docker Hub, the apply command and its result as they are.
LEMMA FilesKeep ==
    ASSUME PruneInv, UNCHANGED <<hubVars, pruner, result>>, PruneTypeOK',
           MapInv', ArchiverInv',
           \A t \in Extra, d \in Digests : copies[t][d] = "signed" => copies'[t][d] = "signed"
    PROVE  PruneInv'
<1>1. HubInv' BY DEF PruneInv, HubInv, hubVars
<1>2. PlanInv'
  <2> SUFFICES ASSUME pruner.pc # "idle", NEW t \in Candidates(pruner.plan)
               PROVE  copies'[t][pruner.plan[t]] = "signed"
    BY DEF PruneInv, PlanInv, Archived, Candidates
  <2>1. t \in Extra /\ pruner.plan[t] \in Digests
    BY DEF Candidates, PruneInv, PruneTypeOK, Inventories, Images, Tags
  <2> QED BY <2>1 DEF PruneInv, PlanInv, Archived
<1> QED BY <1>1, <1>2 DEF PruneInv, LateInv, PageInv, SeenInv, Live, Fits, hubVars

LEMMA PlannerKeeps == PruneInv /\ (PlanPageOne \/ PlanPageTwo) => PruneInv'
<1> SUFFICES ASSUME PruneInv, PlanPageOne \/ PlanPageTwo PROVE PruneInv' OBVIOUS
<1>0. UNCHANGED <<hubVars, copies, archiveMap, archiver, pruner, result>>
    BY DEF PlanPageOne, PlanPageTwo, files
<1>1. MapInv' /\ ArchiverInv' BY <1>0 DEF PruneInv, MapInv, ArchiverInv, Candidates
<1>2. /\ planner' \in [pc: {"idle", "second"}, seen: Inventories]
      /\ plan' \in Inventories
  <2>1. CASE PlanPageOne
    BY <2>1, NothingType, PageTypes DEF PlanPageOne, PruneInv, PruneTypeOK, files
  <2>2. CASE PlanPageTwo
    <3>1. PageTwo(planner.seen) \in Inventories BY PageTypes DEF PruneInv, PruneTypeOK
    <3> QED BY <2>2, <3>1, NothingType DEF PlanPageTwo, NoPlanner, PruneInv, PruneTypeOK
  <2> QED BY <2>1, <2>2
<1>3. PruneTypeOK' BY <1>0, <1>2 DEF PruneInv, PruneTypeOK, hubVars
<1> QED BY <1>0, <1>1, <1>3, FilesKeep

LEMMA ArchiverKeeps ==
    ASSUME PruneInv,
           \/ StartArchive \/ ArchiveEnds
           \/ \E t \in Foremost(archiver.todo) : CopyImage(t) \/ SignCopy(t)
    PROVE  PruneInv'
<1> DEFINE Archivers == [pc: {"idle", "copy", "sign"}, plan: Inventories, todo: SUBSET Extra]
           Steps == /\ UNCHANGED <<hubVars, plan, planner, pruner, result>>
                    /\ archiver' \in Archivers /\ archiveMap' \subseteq (Extra \X Digests)
                    /\ copies' \in [Extra -> [Digests -> {"none", "copied", "signed"}]]
                    /\ MapInv' /\ ArchiverInv'
                    /\ \A t \in Extra, d \in Digests :
                          copies[t][d] = "signed" => copies'[t][d] = "signed"
<1>0. archiver \in Archivers BY DEF PruneInv, PruneTypeOK
<1>1. CASE StartArchive
  <2>1. Candidates(plan) \subseteq Extra BY DEF Candidates
  <2>2. archiver' \in Archivers BY <1>1, <2>1 DEF StartArchive, PruneInv, PruneTypeOK
  <2>3. MapInv' BY <1>1 DEF StartArchive, MapInv
  <2>4. ArchiverInv' BY <1>1 DEF StartArchive, ArchiverInv, Candidates
  <2>5. Steps BY <1>1, <2>2, <2>3, <2>4 DEF StartArchive, PruneInv, PruneTypeOK
  <2> QED BY <2>5, FilesKeep DEF PruneInv, PruneTypeOK, hubVars
<1>2. CASE ArchiveEnds
  <2>1. archiver' = [pc |-> "idle", plan |-> Nothing, todo |-> {}]
    BY <1>2 DEF ArchiveEnds, NoArchiver
  <2>2. archiver' \in Archivers BY <2>1, NothingType
  <2>3. MapInv' BY <1>2 DEF ArchiveEnds, PruneInv, MapInv, files
  <2>4. ArchiverInv' BY <2>1 DEF ArchiverInv
  <2>5. Steps BY <1>2, <2>2, <2>3, <2>4 DEF ArchiveEnds, PruneInv, PruneTypeOK, files
  <2> QED BY <2>5, FilesKeep DEF PruneInv, PruneTypeOK, hubVars
<1>3. ASSUME NEW t \in Foremost(archiver.todo), CopyImage(t) \/ SignCopy(t) PROVE PruneInv'
  <2> DEFINE d == archiver.plan[t]
  <2>1. t \in archiver.todo BY DEF Foremost
  <2>2. t \in Extra /\ d \in Digests
    BY <2>1 DEF PruneInv, PruneTypeOK, ArchiverInv, Candidates, Inventories, Images, Tags
  <2>3. CASE CopyImage(t)
    <3>1. archiver' \in Archivers /\ archiver'.plan = archiver.plan /\ archiver'.todo = archiver.todo
      BY <1>0, <2>3 DEF CopyImage
    <3>2. /\ copies' \in [Extra -> [Digests -> {"none", "copied", "signed"}]]
          /\ \A u \in Extra, e \in Digests : copies[u][e] = "signed" => copies'[u][e] = "signed"
      BY <2>2, <2>3 DEF CopyImage, PruneInv, PruneTypeOK
    <3>3. archiveMap' = archiveMap /\ archiveMap \subseteq (Extra \X Digests)
      BY <2>3 DEF CopyImage, files, PruneInv, PruneTypeOK
    <3>4. MapInv'
      <4> SUFFICES ASSUME NEW e \in archiveMap PROVE copies'[e[1]][e[2]] = "signed"
        BY <3>3 DEF MapInv
      <4>1. e[1] \in Extra /\ e[2] \in Digests BY <3>3
      <4> QED BY <3>2, <4>1 DEF PruneInv, MapInv
    <3>5. ArchiverInv' BY <3>1 DEF PruneInv, ArchiverInv, Candidates
    <3>6. Steps BY <2>3, <3>1, <3>2, <3>3, <3>4, <3>5 DEF CopyImage, files
    <3> QED BY <3>6, FilesKeep DEF PruneInv, PruneTypeOK, hubVars
  <2>4. CASE SignCopy(t)
    <3>1. /\ archiver' \in Archivers /\ archiver'.plan = archiver.plan
          /\ archiver'.todo \subseteq archiver.todo
      BY <1>0, <2>4 DEF SignCopy, EntryWritten
    <3>2. /\ copies' \in [Extra -> [Digests -> {"none", "copied", "signed"}]]
          /\ \A u \in Extra, e \in Digests : copies[u][e] = "signed" => copies'[u][e] = "signed"
          /\ copies'[t][d] = "signed"
      BY <2>2, <2>4 DEF SignCopy, PruneInv, PruneTypeOK
    <3>3. /\ archiveMap' = archiveMap \cup {<<t, d>>}
          /\ archiveMap \subseteq (Extra \X Digests) /\ archiveMap' \subseteq (Extra \X Digests)
      <4>1. archiveMap' = archiveMap \cup {<<t, d>>} BY <2>4 DEF SignCopy, EntryWritten
      <4>2. archiveMap \subseteq (Extra \X Digests) BY DEF PruneInv, PruneTypeOK
      <4>3. <<t, d>> \in Extra \X Digests BY <2>2
      <4> HIDE DEF d
      <4> QED BY <4>1, <4>2, <4>3
    <3>4. MapInv'
      <4> SUFFICES ASSUME NEW e \in archiveMap' PROVE copies'[e[1]][e[2]] = "signed"
        BY DEF MapInv
      <4>1. CASE e \in archiveMap
        <5>1. e[1] \in Extra /\ e[2] \in Digests BY <3>3, <4>1
        <5> QED BY <3>2, <4>1, <5>1 DEF PruneInv, MapInv
      <4>2. CASE e = <<t, d>> BY <3>2, <4>2
      <4> QED BY <3>3, <4>1, <4>2
    <3>5. ArchiverInv' BY <3>1 DEF PruneInv, ArchiverInv, Candidates
    <3>6. Steps BY <2>4, <3>1, <3>2, <3>3, <3>4, <3>5 DEF SignCopy, EntryWritten
    <3> QED BY <3>6, FilesKeep DEF PruneInv, PruneTypeOK, hubVars
  <2> QED BY <1>3, <2>3, <2>4
<1> QED BY <1>1, <1>2, <1>3

-----------------------------------------------------------------------------
LEMMA PruneStepKeeps == PruneInv /\ PruneStep => PruneInv'
<1> SUFFICES ASSUME PruneInv, PruneStep PROVE PruneInv' OBVIOUS
<1>1. CASE Refuse \/ PruneReadFails BY <1>1, GiveUpKeeps DEF Refuse, PruneReadFails
<1>2. ASSUME NEW t \in Foremost(pruner.todo), DeleteFails(t) PROVE PruneInv'
    BY <1>2, PrunerIdles DEF DeleteFails, DeletionFails
<1> QED BY <1>1, <1>2, PageOneKeeps, ProceedKeeps, StillListedKeeps, LoopKeeps, SucceedKeeps,
        DeleteKeeps DEF PruneStep

LEMMA PruneNextKeeps == PruneInv /\ PruneNext => PruneInv'
<1> SUFFICES ASSUME PruneInv, PruneNext PROVE PruneInv' OBVIOUS
<1>1. CASE PruneStops BY <1>1, PrunerIdles DEF PruneStops
<1> QED BY <1>1, PushKeeps, ForgetKeeps, PlannerKeeps, ArchiverKeeps, StartKeeps,
        PruneStepKeeps DEF PruneNext

LEMMA PruneStarts == PruneInit => PruneInv
<1> SUFFICES ASSUME PruneInit PROVE PruneInv OBVIOUS
<1>1. PruneTypeOK
    BY NothingType, NoPrunerType DEF PruneInit, PruneTypeOK, Pruners, NoPlan, NoPlanner, NoArchiver
<1>2. HubInv BY DEF PruneInit, HubInv, Nothing, Tags
<1>3. MapInv /\ ArchiverInv BY DEF PruneInit, MapInv, ArchiverInv, NoArchiver
<1>4. pruner.pc = "idle" /\ pruner.late = [t \in Tags |-> 0] BY NoPrunerType DEF PruneInit
<1>5. LateInv BY <1>4 DEF LateInv
<1> QED BY <1>1, <1>2, <1>3, <1>4, <1>5 DEF PruneInv, PlanInv, PageInv, SeenInv

LEMMA PruneStutters == PruneInv /\ UNCHANGED pruneVars => PruneInv'
BY DEF PruneInv, PruneTypeOK, HubInv, MapInv, ArchiverInv, PlanInv, LateInv, PageInv, SeenInv,
       Archived, Candidates, Live, Fits, pruneVars

LEMMA PruneInductive == PruneSpec => []PruneInv
<1>1. PruneInv /\ [PruneNext]_pruneVars => PruneInv'
    BY PruneNextKeeps, PruneStutters
<1> QED BY PruneStarts, <1>1, PTL DEF PruneSpec

\* The state of the three commands, their files and Docker Hub keeps its types.
THEOREM PruneTypeCorrect == PruneSpec => []PruneTypeOK
<1>1. PruneInv => PruneTypeOK BY DEF PruneInv
<1> QED BY PruneInductive, <1>1, PTL

\* apply_deletion_plan goes on for at most one deletion after any tag has ceased to be as
\* planned, on whichever page of the inventory the tag is.
THEOREM DriftStops == PruneSpec => []DriftStopsDeletion
<1>1. PruneInv => DriftStopsDeletion BY DEF PruneInv, LateInv, DriftStopsDeletion
<1> QED BY PruneInductive, <1>1, PTL

\* A success that apply_deletion_plan returns is true of Docker Hub until the next push.
THEOREM SuccessExact == PruneSpec => []SuccessIsExact
<1>1. PruneInv => SuccessIsExact BY DEF PruneInv, HubInv, SuccessIsExact, Tags
<1> QED BY PruneInductive, <1>1, PTL

\* An image that was listed when delete_tag is called has a signed copy in GHCR.
THEOREM DeletesArchived == PruneSpec => DeletesOnlyArchived
<1>1. PruneInv /\ [PruneNext]_pruneVars
        => [\A t \in Extra : hub[t] # "absent" /\ hub'[t] = "absent" /\ hub[t] = pruner.seen[t]
               => copies[t][hub[t]] = "signed"]_pruneVars
  <2> SUFFICES ASSUME PruneInv, PruneNext, NEW t \in Extra, hub[t] # "absent",
                      hub'[t] = "absent", hub[t] = pruner.seen[t]
               PROVE  copies[t][hub[t]] = "signed"
    OBVIOUS
  <2>1. t \in Tags BY DEF Tags
  <2>2. hub' # hub OBVIOUS
  <2>3. ASSUME NEW u \in Tags, NEW d \in Digests, Push(u, d) PROVE FALSE
    <3>1. hub'[t] = IF t = u THEN d ELSE hub[t]
      BY <2>1, <2>3 DEF Push, PruneInv, PruneTypeOK, Inventories
    <3> QED BY <3>1
  <2>4. \E u \in Foremost(pruner.todo) : DeleteTag(u)
    BY <2>2, <2>3 DEF PruneNext, PruneStep, Forget, PlanPageOne, PlanPageTwo, StartArchive,
       ArchiveEnds, CopyImage, SignCopy, EntryWritten, StartPrune, PruneStops, PrunePageOne,
       Refuse, BeginDeleting, Succeed, PruneReadFails, AllDeleted, SeenDeleted, StillListed,
       LookedFor, SkipAbsent, DeleteFails, hubVars
  <2>5. pruner.pc = "delete" BY <2>4 DEF DeleteTag
  <2>6. hub[t] = pruner.plan[t] BY <2>1, <2>5 DEF PruneInv, SeenInv, Live, Fits
  <2>7. t \in Candidates(pruner.plan) BY <2>6 DEF Candidates
  <2> QED BY <2>5, <2>6, <2>7 DEF PruneInv, PlanInv, Archived
<1> QED BY PruneInductive, <1>1, PTL DEF PruneSpec, DeletesOnlyArchived
=============================================================================
