--------------------------- MODULE DependencyChain ---------------------------
(***************************************************************************)
(* The dependency pipeline: an updater run discovers a newer base image    *)
(* and proposes it as a pull request, the request is tested, classified    *)
(* and merged without a person, and the push to main publishes the minor   *)
(* it changed in both registries.  Dependabot's requests for newer actions *)
(* are merged the same way, under a rule of their own.                     *)
(*                                                                         *)
(* People move branches and main, and every run its own state, at any time *)
(* between two steps of another run.  One action is one read or one write  *)
(* of something shared, with the local decisions up to the next.  Upstream *)
(* has no state: it may move between any two observations.                 *)
(***************************************************************************)
EXTENDS Integers, Sequences, FiniteSets

CONSTANTS
    LastMinor,     \* the minors of the manifest, 1 to LastMinor in its order
    Pins,          \* what may be observed of a minor upstream
    Changes,       \* what people may change with one push, to a branch or to main
    Bounds         \* bound: how many requests there are, with how many acts of people

ASSUME LastMinorAssumption == LastMinor \in Nat \ {0}
ASSUME BoundsAssumption == Bounds \subseteq Nat \X Nat

Minors == 1..LastMinor
Registries == {"dockerhub", "ghcr"}

\* A pin names the patch and the digest of a base image, digests numbered by release;
\* release 2 rebuilds release 1.  The two are observed in two places, so a pin need not
\* be true of its image.
FirstPin == [patch |-> 0, digest |-> 0]
PatchOf(release) == (release + 1) \div 2
Real(pin) == pin.patch = PatchOf(pin.digest)

ASSUME PinsAssumption == Pins \subseteq [patch: Nat, digest: Nat] /\ FirstPin \in Pins

\* What a tree has beside the pins of versions.json: the rest of that file, the pins of
\* actions in workflows that are a release of an allowlisted owner, the other lines of
\* workflows, and all other files.
Files == {"rest", "actions", "steps", "src"}

\* A tree of the repository: the pins, and for each part of Files the changes made to it.
Trees == [pins: [Minors -> Pins], files: [Files -> SUBSET Int]]

\* What a branch or a push changes: parts of Files, and the pins of some minors.
Change(files, pins) == [files |-> files, pins |-> pins]
PinSets == UNION {[S -> Pins] : S \in SUBSET Minors}
AllChanges == [files: SUBSET Files, pins: PinSets]

ASSUME ChangesAssumption == Changes \subseteq AllChanges

NoPins == [m \in {} |-> FirstPin]

\* A candidate; its branch is named after a hash of all of it.
Rows == [minor: Minors, old: Pins, new: Pins]

VARIABLES
    main,       \* the commits of main: tree, and by whose request, or a person
    prs,        \* the pushed branches, with their pull requests and merge jobs
    updater,    \* the dependency-update-pr run
    publisher,  \* the dependency-auto-publish run
    registry,   \* for each alias, the commit of main its image was built from
    manual      \* what people have done so far

vars == <<main, prs, updater, publisher, registry, manual>>

Tip == Len(main)
TipTree == main[Tip].tree
Proposals == 1..Len(prs)

NoRow == <<>>
IdleUpdater == [pc |-> "idle", source |-> 0, row |-> NoRow]

\* What a publisher run is asked for: the push of a commit to main, or the minors
\* a person wants published from it.
Request(source, wanted) == [source |-> source, wanted |-> wanted]
NoRequest == Request(0, {})
\* dropped: the requests cancelled while pending.  unpublished: those whose run
\* skipped them or failed.
IdlePublisher == [pc |-> "idle", run |-> NoRequest, pushed |-> {},
                  next |-> NoRequest, dropped |-> {}, unpublished |-> {}]

Init ==
    /\ main = <<[tree |-> [pins |-> [m \in Minors |-> FirstPin],
                           files |-> [f \in Files |-> {}]],
                 by |-> "person"]>>
    /\ prs = <<>>
    /\ updater = IdleUpdater
    /\ publisher = IdlePublisher
    /\ registry = [m \in Minors |-> [r \in Registries |-> 1]]
    /\ manual = 0

-----------------------------------------------------------------------------
(***************************************************************************)
(* Classification of a change, the same for proposal, merge and            *)
(* publication.  What is not eligible is left to a person.                 *)
(***************************************************************************)
ChangedMinors(base, head) == {m \in Minors : base.pins[m] # head.pins[m]}

\* Fault: the patch is not compared.
OlderToo(old, new) == TRUE

NotOlder(old, new) == new.patch >= old.patch

\* build/versions.json is the only changed file, and in it the pin of one minor,
\* which never goes back to an older patch.
Eligible(base, head) ==
    /\ head.files = base.files
    /\ Cardinality(ChangedMinors(base, head)) = 1
    /\ \A m \in Minors : NotOlder(base.pins[m], head.pins[m])

WorkflowsSame(base, head) == \A f \in {"actions", "steps"} : head.files[f] = base.files[f]

\* verify-action-update.py: pins of actions are the only changed lines, or there is no
\* changed workflow file, and nothing to verify.
VerifiedActions(base, head) ==
    \/ /\ head # base
       /\ WorkflowsSame(base, head)
    \/ /\ head.pins = base.pins
       /\ head.files["actions"] # base.files["actions"]
       /\ \A f \in Files \ {"actions"} : head.files[f] = base.files[f]

\* The rule for a request of the updater, and for one of Dependabot.
Accepted(by, base, head) ==
    IF by = "updater" THEN Eligible(base, head) ELSE VerifiedActions(base, head)

-----------------------------------------------------------------------------
(***************************************************************************)
(* Publisher: one run at a time.  Of the requests that wait, only the      *)
(* newest is kept.                                                         *)
(***************************************************************************)
PushedTree(req) == main[req.source].tree
PriorTree(req) == main[req.source - 1].tree

\* The minors a run publishes.
Selected(req) ==
    IF req.wanted # {} THEN req.wanted
    ELSE IF Eligible(PriorTree(req), PushedTree(req))
         THEN ChangedMinors(PriorTree(req), PushedTree(req))
         ELSE {}

\* The minors whose images the request is about, selected or not.
Concerned(req) ==
    IF req.wanted # {} THEN req.wanted ELSE ChangedMinors(PriorTree(req), PushedTree(req))

\* Fault: it starts although a run has not ended, which goes on after it.
QueuedUngrouped(pub, req) ==
    [pub EXCEPT !.pc = "prepare", !.run = req, !.pushed = {}, !.next = pub.run]

\* Publisher pub after req: the request starts a run, or waits and drops the one
\* that waited before.
Queued(pub, req) ==
    IF pub.pc = "idle"
    THEN [pub EXCEPT !.pc = "prepare", !.run = req, !.pushed = {}]
    ELSE [pub EXCEPT !.next = req,
                     !.dropped = IF pub.next = NoRequest THEN @ ELSE @ \cup {pub.next}]

\* Fault: the request that waits is never started.
DequeuedAsleep(pub) ==
    [pub EXCEPT !.pc = "idle", !.run = pub.next, !.pushed = {}, !.next = NoRequest]

\* ... and after its run has ended.
Dequeued(pub) ==
    [pub EXCEPT !.pc = IF pub.next = NoRequest THEN "idle" ELSE "prepare",
                !.run = pub.next, !.pushed = {}, !.next = NoRequest]

GivenUp ==
    [publisher EXCEPT !.unpublished =
        IF Concerned(publisher.run) = {} THEN @ ELSE @ \cup {publisher.run}]

Prepare ==
    /\ publisher.pc = "prepare"
    /\ publisher' = IF Selected(publisher.run) # {}
                    THEN [publisher EXCEPT !.pc = "push"]
                    ELSE Dequeued(GivenUp)
    /\ UNCHANGED <<main, prs, updater, registry, manual>>

\* One build of a minor, pushed under the alias of each registry.
PushAlias(m, r) ==
    /\ publisher.pc = "push"
    /\ m \in Selected(publisher.run)
    /\ <<m, r>> \notin publisher.pushed
    /\ registry' = [registry EXCEPT ![m][r] = publisher.run.source]
    /\ publisher' = [publisher EXCEPT !.pushed = @ \cup {<<m, r>>}]
    /\ UNCHANGED <<main, prs, updater, manual>>

\* Both registries are read back.  (The success of a push starts a discovery, as
\* the schedule does: see StartDiscovery.)
ReadBack ==
    LET req == publisher.run
        minors == Selected(req)
    IN  /\ publisher.pc = "push"
        /\ publisher.pushed = minors \X Registries
        /\ \A m \in minors, r \in Registries : registry[m][r] = req.source
        /\ publisher' = Dequeued(publisher)
        /\ UNCHANGED <<main, prs, updater, registry, manual>>

\* A step of the run fails, or the runner is lost.
PublishFails ==
    /\ publisher.pc # "idle"
    /\ publisher' = Dequeued(GivenUp)
    /\ UNCHANGED <<main, prs, updater, registry, manual>>

\* A commit is pushed to main.  The publisher is asked when versions.json changed.
Advance(commit) ==
    /\ main' = Append(main, commit)
    /\ publisher' = IF \/ commit.tree.pins # TipTree.pins
                       \/ commit.tree.files["rest"] # TipTree.files["rest"]
                    THEN Queued(publisher, Request(Tip + 1, {}))
                    ELSE publisher

-----------------------------------------------------------------------------
(***************************************************************************)
(* Updater: looks for a newer base image of each minor, and proposes the   *)
(* first it finds.                                                         *)
(***************************************************************************)
SourceTree == main[updater.source].tree

\* The weekly schedule, a person, or a publication.  One run at a time: another waits,
\* and starts with the commit of main it was asked for.
StartDiscovery ==
    /\ updater.pc = "idle"
    /\ \E source \in 1..Tip :
          updater' = [updater EXCEPT !.pc = "discover", !.source = source]
    /\ UNCHANGED <<main, prs, publisher, registry, manual>>

\* Upstream moves a floating tag and its metadata separately, forward and back, at
\* any time: of a minor any patch and any digest may be observed.  An observation
\* that fails, or the same pin, or an older patch, is no candidate.
Candidates(tree) ==
    {row \in Rows : /\ row.old = tree.pins[row.minor]
                    /\ row.new # row.old
                    /\ NotOlder(row.old, row.new)}

Discover ==
    /\ updater.pc = "discover"
    /\ \/ \E row \in Candidates(SourceTree) :
             updater' = [updater EXCEPT !.pc = "propose", !.row = row]
       \/ updater' = IdleUpdater
    /\ UNCHANGED <<main, prs, publisher, registry, manual>>

\* A tree with a change, made by the branch or the commit id: of the files, a change of
\* its own; of the pins, what they are changed to.
Changed(tree, change, id) ==
    [pins |-> [m \in Minors |-> IF m \in DOMAIN change.pins THEN change.pins[m]
                               ELSE tree.pins[m]],
     files |-> [f \in Files |-> IF f \in change.files THEN tree.files[f] \cup {id}
                               ELSE tree.files[f]]]

\* The candidate as a change.
Bump(row) == Change({}, [m \in {row.minor} |-> row.new])

BranchExists(row) == \E p \in Proposals : prs[p].row = row /\ prs[p].state # "deleted"

\* state: branch (pushed, no request), open, merged, closed or deleted.  smoke: the
\* smoke run of the head; tested: whether it ever succeeded, so that the merge job of
\* the head may be run again.
NewBranch(row) ==
    [by |-> "updater", row |-> row, parent |-> updater.source, change |-> Bump(row),
     head |-> 1, state |-> "branch", smoke |-> "none", tested |-> FALSE, jobs |-> {}]

\* Branch p becomes pr.
Becomes(p, pr) == prs' = [prs EXCEPT ![p] = pr]

\* create-dependency-update-pr.sh checks for a request and for a branch of the
\* candidate, applies it, classifies the result, and pushes.
PushBranch ==
    /\ updater.pc = "propose"
    /\ ~ BranchExists(updater.row)
    /\ Eligible(SourceTree, Changed(SourceTree, Bump(updater.row), 0))
    /\ <<Len(prs) + 1, manual>> \in Bounds
    /\ prs' = Append(prs, NewBranch(updater.row))
    /\ updater' = [updater EXCEPT !.pc = "open"]
    /\ UNCHANGED <<main, publisher, registry, manual>>

OpenRequest ==
    LET p == Len(prs)
    IN  /\ updater.pc = "open"
        /\ IF prs[p].state = "branch"
           THEN Becomes(p, [prs[p] EXCEPT !.state = "open", !.smoke = "queued"])
           ELSE UNCHANGED prs
        /\ updater' = IdleUpdater
        /\ UNCHANGED <<main, publisher, registry, manual>>

\* The request exists, the branch does, an API call fails, or the runner is lost:
\* a pushed branch stays.
UpdaterEnds ==
    /\ updater.pc \in {"propose", "open"}
    /\ updater' = IdleUpdater
    /\ UNCHANGED <<main, prs, publisher, registry, manual>>

-----------------------------------------------------------------------------
(***************************************************************************)
(* Tests and merge jobs of a request.  A job is one run of                 *)
(* dependency-auto-merge for a tested head.                                *)
(***************************************************************************)
\* The tree of the branch as it is now.
HeadTree(pr, p) == Changed(main[pr.parent].tree, pr.change, -p)

\* A request that is not open any more: its runs can only fail.
Settled(pr, state) ==
    [pr EXCEPT !.state = state, !.smoke = "none", !.tested = FALSE, !.jobs = {}]

Job(head, pc) == [head |-> head, pc |-> pc]

\* Fault: the patch inside the image is not compared.
VerdictsWithoutPatch(pr) == {"success", "failure"}

Truthful(change) == \A m \in DOMAIN change.pins : Real(change.pins[m])

\* The smoke test fails when an image is not of the patch its pin names, and may
\* fail for other reasons.
SmokeVerdicts(pr) == IF Truthful(pr.change) THEN {"success", "failure"} ELSE {"failure"}

\* A success starts a merge job for the head it tested.
SmokeEnds(p) ==
    LET pr == prs[p]
    IN  /\ pr.smoke = "queued"
        /\ \E verdict \in SmokeVerdicts(pr) :
              Becomes(p, IF verdict = "success"
                         THEN [pr EXCEPT !.smoke = verdict, !.tested = TRUE,
                                         !.jobs = @ \cup {Job(pr.head, "start")}]
                         ELSE [pr EXCEPT !.smoke = verdict])
        /\ UNCHANGED <<main, updater, publisher, registry, manual>>

JobMoves(p, job, pc) ==
    Becomes(p, [prs[p] EXCEPT !.jobs = (@ \ {job}) \cup {Job(job.head, pc)}])

\* What the API calls the base of a request is a commit of main, its parent or
\* later.  The head read must be the tested one.
Evaluate(p, job) ==
    LET pr == prs[p]
    IN  /\ job.pc = "start"
        /\ pr.state = "open"
        /\ pr.head = job.head
        /\ \E base \in pr.parent..Tip : Accepted(pr.by, main[base].tree, HeadTree(pr, p))
        /\ JobMoves(p, job, "eligible")
        /\ UNCHANGED <<main, updater, publisher, registry, manual>>

\* wait-for-pr-checks.py, see ChecksGate.
GatePasses(p, job) ==
    LET pr == prs[p]
    IN  /\ job.pc = "eligible"
        /\ pr.state = "open"
        /\ pr.head = job.head
        /\ pr.smoke = "success"
        /\ JobMoves(p, job, "green")
        /\ UNCHANGED <<main, updater, publisher, registry, manual>>

\* Fault: whatever the head is.
MatchesAny(pr, job) == TRUE

\* gh pr merge --match-head-commit.
Matches(pr, job) == pr.head = job.head

\* Branch protection: tested, and up to date with main.
Mergeable(pr) == pr.state = "open" /\ pr.smoke = "success" /\ pr.parent = Tip

MergePR(p, job) ==
    LET pr == prs[p]
    IN  /\ job.pc = "green"
        /\ Matches(pr, job)
        /\ Mergeable(pr)
        /\ Advance([tree |-> HeadTree(pr, p), by |-> pr.by])
        /\ Becomes(p, Settled(pr, "merged"))
        /\ UNCHANGED <<updater, registry, manual>>

\* A check of the job fails, its time is over, or the runner is lost.
JobEnds(p, job) ==
    /\ Becomes(p, [prs[p] EXCEPT !.jobs = @ \ {job}])
    /\ UNCHANGED <<main, updater, publisher, registry, manual>>

-----------------------------------------------------------------------------
(***************************************************************************)
(* The world outside the workflows.                                        *)
(***************************************************************************)
\* Dependabot requests a newer action, of an allowlisted owner or of another.
OpenActionUpdate(file) ==
    /\ <<Len(prs) + 1, manual>> \in Bounds
    /\ prs' = Append(prs, [by |-> "dependabot", row |-> NoRow, parent |-> Tip,
                           change |-> Change({file}, NoPins), head |-> 1, state |-> "open",
                           smoke |-> "queued", tested |-> FALSE, jobs |-> {}])
    /\ UNCHANGED <<main, updater, publisher, registry, manual>>

\* People merge a change of their own, back to an older pin as well as forward: a
\* rollback corrects main first.  It passes the smoke test, as every commit of main.
ManualMerge(change) ==
    LET tree == Changed(TipTree, change, Tip + 1)
    IN  /\ <<Len(prs), manual + 1>> \in Bounds
        /\ Truthful(change)
        /\ tree # TipTree
        /\ Advance([tree |-> tree, by |-> "person"])
        /\ manual' = manual + 1
        /\ UNCHANGED <<prs, updater, registry>>

\* A person merges the request, edited or not.
ManualMergePR(p) ==
    /\ <<Len(prs), manual + 1>> \in Bounds
    /\ Mergeable(prs[p])
    /\ Advance([tree |-> HeadTree(prs[p], p), by |-> "person"])
    /\ Becomes(p, Settled(prs[p], "merged"))
    /\ manual' = manual + 1
    /\ UNCHANGED <<updater, registry>>

\* A person dispatches the publisher.
Dispatch(minors) ==
    /\ <<Len(prs), manual + 1>> \in Bounds
    /\ publisher' = Queued(publisher, Request(Tip, minors))
    /\ manual' = manual + 1
    /\ UNCHANGED <<main, prs, updater, registry>>

\* A new head of an open request cancels its smoke run and starts another.
NewHead(p, pr) ==
    /\ pr.state = "open"
    /\ Becomes(p, [pr EXCEPT !.head = @ + 1, !.smoke = "queued", !.tested = FALSE])
    /\ UNCHANGED <<main, updater, publisher, registry>>

\* A push to the branch: it changes these files, or takes back what the branch changed
\* in them, and changes these pins.
Pushed(old, change) ==
    Change((old.files \ change.files) \cup (change.files \ old.files),
           [m \in DOMAIN old.pins \cup DOMAIN change.pins |->
               IF m \in DOMAIN change.pins THEN change.pins[m] ELSE old.pins[m]])

EditBranch(p, change) ==
    /\ <<Len(prs), manual + 1>> \in Bounds
    /\ NewHead(p, [prs[p] EXCEPT !.change = Pushed(@, change)])
    /\ manual' = manual + 1

\* Main is merged into the branch, unless both changed a pin.
UpdateBranch(p) ==
    LET pr == prs[p]
    IN  /\ pr.parent < Tip
        /\ \A m \in DOMAIN pr.change.pins :
              TipTree.pins[m] \in {main[pr.parent].tree.pins[m], pr.change.pins[m]}
        /\ NewHead(p, [pr EXCEPT !.parent = Tip])
        /\ UNCHANGED manual

ClosePR(p) ==
    /\ prs[p].state = "open"
    /\ Becomes(p, Settled(prs[p], "closed"))
    /\ UNCHANGED <<main, updater, publisher, registry, manual>>

DeleteBranch(p) ==
    /\ prs[p].state \in {"branch", "merged", "closed"}
    /\ Becomes(p, Settled(prs[p], "deleted"))
    /\ UNCHANGED <<main, updater, publisher, registry, manual>>

RerunSmoke(p) ==
    /\ prs[p].state = "open"
    /\ prs[p].smoke \in {"success", "failure"}
    /\ Becomes(p, [prs[p] EXCEPT !.smoke = "queued"])
    /\ UNCHANGED <<main, updater, publisher, registry, manual>>

\* A job that ended is run again.  (One for an earlier head can only fail.)
RerunJob(p) ==
    /\ prs[p].tested
    /\ \A job \in prs[p].jobs : job.head # prs[p].head
    /\ Becomes(p, [prs[p] EXCEPT !.jobs = @ \cup {Job(prs[p].head, "start")}])
    /\ UNCHANGED <<main, updater, publisher, registry, manual>>

-----------------------------------------------------------------------------
Publishing ==
    \/ Prepare \/ ReadBack \/ PublishFails
    \/ \E m \in Minors, r \in Registries : PushAlias(m, r)

Updating ==
    \/ StartDiscovery \/ Discover \/ PushBranch \/ OpenRequest \/ UpdaterEnds

Merging(p) ==
    \/ SmokeEnds(p)
    \/ \E job \in prs[p].jobs :
          Evaluate(p, job) \/ GatePasses(p, job) \/ MergePR(p, job) \/ JobEnds(p, job)

Reviewing(p) ==
    \/ ManualMergePR(p) \/ UpdateBranch(p) \/ ClosePR(p) \/ DeleteBranch(p)
    \/ RerunSmoke(p) \/ RerunJob(p)
    \/ \E change \in Changes : EditBranch(p, change)

Outside ==
    \/ \E change \in Changes : ManualMerge(change)
    \/ \E file \in {"actions", "steps"} : OpenActionUpdate(file)
    \/ \E minors \in {Minors} \cup {{m} : m \in Minors} : Dispatch(minors)

Next ==
    \/ Publishing \/ Updating \/ Outside
    \/ \E p \in Proposals : Merging(p) \/ Reviewing(p)

Spec == Init /\ [][Next]_vars

-----------------------------------------------------------------------------
Requests == [source: Nat, wanted: SUBSET Minors]
Commits == [tree: Trees, by: {"person", "updater", "dependabot"}]
Jobs == [head: Nat, pc: {"start", "eligible", "green"}]
Branches == [by: {"updater", "dependabot"}, row: Rows \cup {NoRow}, parent: Nat,
             change: AllChanges, head: Nat,
             state: {"branch", "open", "merged", "closed", "deleted"},
             smoke: {"none", "queued", "success", "failure"},
             tested: BOOLEAN, jobs: SUBSET Jobs]
Updaters == [pc: {"idle", "discover", "propose", "open"}, source: Nat,
             row: Rows \cup {NoRow}]
Publishers == [pc: {"idle", "prepare", "push"}, run: Requests,
               pushed: SUBSET (Minors \X Registries), next: Requests,
               dropped: SUBSET Requests, unpublished: SUBSET Requests]

TypeOK ==
    /\ main \in Seq(Commits) /\ Tip >= 1
    /\ prs \in Seq(Branches)
    /\ updater \in Updaters
    /\ publisher \in Publishers
    /\ publisher.pc = "idle" <=> publisher.run = NoRequest
    /\ registry \in [Minors -> [Registries -> Nat]]
    /\ manual \in Nat

\* What is merged without a person is, against the commit of main it lands on, one minor's
\* newer image and nothing else if the updater proposed it, and if Dependabot did, verified
\* pins of actions and nothing else, or nothing in a workflow: whatever was pushed to the
\* branch or to main after the request was judged (dependency-auto-merge.yml reads the
\* head, judges it and waits long before it merges).
AutoMergeIsEligible ==
    \A i \in 2..Tip :
        main[i].by # "person" => Accepted(main[i].by, main[i - 1].tree, main[i].tree)

\* Main never names a patch that is not the one in the image it pins, although the two
\* are observed in two places that move separately.
PinsAreReal == \A i \in 1..Tip, m \in Minors : Real(main[i].tree.pins[m])

\* A minor is left to a person when a change of it was skipped, dropped or not published
\* to the end, and nothing later was published.
LeftToPerson(m) ==
    \E req \in publisher.dropped \cup publisher.unpublished :
        m \in Concerned(req) /\ \E r \in Registries : registry[m][r] < req.source

\* When the publisher rests, every other minor is published under both aliases from one
\* commit, whose image is the one main names now.
AliasesMatchMain ==
    publisher.pc = "idle" =>
        \A m \in Minors : LeftToPerson(m) \/ \E i \in 1..Tip :
            /\ registry[m] = [r \in Registries |-> i]
            /\ main[i].tree.pins[m] = TipTree.pins[m]

\* An alias never goes back to the image of an earlier commit, however pushes to main
\* and dispatches queue up.
AliasesNeverGoBack ==
    [][\A m \in Minors, r \in Registries : registry'[m][r] >= registry[m][r]]_registry

\* The patch inside the image of each alias.
PatchesShown ==
    [m \in Minors |-> [r \in Registries |-> PatchOf(main[registry[m][r]].tree.pins[m].digest)]]

\* The commit named an older patch, and it is not one the updater proposed.
SetBack(m, i) ==
    /\ main[i].by # "updater"
    /\ main[i].tree.pins[m].patch < main[i - 1].tree.pins[m].patch

\* Who pulls an image gets an older patch than before only after a rollback: between the
\* commits the two images were built from there is one in which a person (on main, or on
\* a branch of Dependabot) set the minor back.  However proposals, merges, rollbacks and
\* publications cross, the pipeline takes no alias to an older patch by itself.
OlderPatchIsRollback ==
    [][\A m \in Minors, r \in Registries :
          PatchesShown'[m][r] < PatchesShown[m][r] =>
              \E i \in (registry[m][r] + 1)..registry'[m][r] : SetBack(m, i)]_registry

\* From merge to alias, the pipeline implements module Delivery: whatever order requests
\* and corrections are merged and published in, an alias follows what main names, and
\* never goes back in it.
Named ==
    [i \in 1..Tip |-> [patches |-> [m \in Minors |-> main[i].tree.pins[m].patch],
                       proposed |-> main[i].by = "updater"]]

Abstract == INSTANCE Delivery WITH
    Patches <- {pin.patch : pin \in Pins},
    FirstPatch <- FirstPin.patch,
    names <- Named,
    at <- registry,
    shown <- PatchesShown

DeliveryIsImplemented == Abstract!Spec

\* What README.md and ci-operations.md promise of every eligible change of main: that
\* it triggers the publication of its minor.
EligibleIsPublished ==
    \A req \in publisher.dropped : req.wanted # {} \/ Selected(req) = {}
=============================================================================
