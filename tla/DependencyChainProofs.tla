------------------------ MODULE DependencyChainProofs ------------------------
(***************************************************************************)
(* What holds of the dependency pipeline for every number of minors,       *)
(* every upstream, and however many branches and interventions.            *)
(*                                                                         *)
(* A branch is judged by Branch(pr, p): a green test says its pins are     *)
(* real, and a job past the judgement, if the head has not moved since,    *)
(* has judged it against the branch's parent or a later commit.  Merging   *)
(* requires the parent to be the tip, which leaves one such commit.        *)
(*                                                                         *)
(* The two registries are compared by MatchInv: every change main made to  *)
(* a pin is asked for, was given up on, or is published by now; and the    *)
(* aliases of a minor differ only while they are pushed or when a person   *)
(* was left to publish it.                                                 *)
(***************************************************************************)
EXTENDS DependencyChain, TLAPS

USE DEF Minors

\* The result of an action on a branch, and what it is at rest.
Branch(pr, p) ==
    /\ pr \in Branches
    /\ pr.parent \in 1..Tip
    /\ pr.smoke = "success" => Truthful(pr.change)
    /\ \A job \in pr.jobs :
          /\ job.head <= pr.head
          /\ job.pc # "start" /\ job.head = pr.head =>
                \E base \in pr.parent..Tip :
                    Accepted(pr.by, main[base].tree, HeadTree(pr, p))

BranchInv == prs \in Seq(Branches) /\ \A p \in Proposals : Branch(prs[p], p)

MainInv ==
    /\ main \in Seq(Commits) /\ Tip >= 1
    /\ AutoMergeIsEligible
    /\ PinsAreReal

UpdaterInv ==
    /\ updater \in Updaters
    /\ updater.pc # "idle" => updater.source \in 1..Tip
    /\ updater.pc \in {"propose", "open"} => updater.row \in Rows

\* What is published, running and waiting was asked for in this order.
PublisherInv ==
    /\ publisher \in Publishers
    /\ publisher.pc = "idle" <=> publisher.run = NoRequest
    /\ publisher.next.source <= Tip
    /\ publisher.pc # "idle" => publisher.run.source \in 1..Tip
    /\ publisher.next # NoRequest =>
          publisher.pc # "idle" /\ publisher.run.source <= publisher.next.source
    /\ registry \in [Minors -> [Registries -> Nat]]
    /\ \A m \in Minors, r \in Registries :
          /\ registry[m][r] <= Tip
          /\ publisher.pc # "idle" => registry[m][r] <= publisher.run.source

IInv == MainInv /\ BranchInv /\ UpdaterInv /\ PublisherInv /\ manual \in Nat

-----------------------------------------------------------------------------
\* What a change makes of a tree.
LEMMA ChangedTree ==
    ASSUME NEW tree \in Trees, NEW change \in AllChanges, NEW id \in Int
    PROVE  /\ Changed(tree, change, id) \in Trees
           /\ \A m \in Minors : Changed(tree, change, id).pins[m] =
                 IF m \in DOMAIN change.pins THEN change.pins[m] ELSE tree.pins[m]
<1> DEFINE pins == [m \in Minors |-> IF m \in DOMAIN change.pins THEN change.pins[m]
                                    ELSE tree.pins[m]]
           files == [f \in Files |-> IF f \in change.files THEN tree.files[f] \cup {id}
                                    ELSE tree.files[f]]
<1>1. PICK S \in SUBSET Minors : change.pins \in [S -> Pins] BY DEF AllChanges, PinSets
<1>2. pins \in [Minors -> Pins] BY <1>1 DEF Trees
<1>3. files \in [Files -> SUBSET Int] BY DEF Trees
<1>4. Changed(tree, change, id) = [pins |-> pins, files |-> files] BY DEF Changed
<1> HIDE DEF files
<1>5. Changed(tree, change, id) \in Trees BY <1>2, <1>3, <1>4 DEF Trees
<1> QED BY <1>4, <1>5

\* A change is of a known shape: a candidate, a request of Dependabot, an edit.
LEMMA ChangeTypes ==
    /\ \A row \in Rows : Bump(row) \in AllChanges
    /\ \A file \in Files : Change({file}, NoPins) \in AllChanges
    /\ \A old, change \in AllChanges : Pushed(old, change) \in AllChanges
<1>1. ASSUME NEW row \in Rows PROVE Bump(row) \in AllChanges
  <2>1. row.minor \in Minors /\ row.new \in Pins BY DEF Rows
  <2>2. [m \in {row.minor} |-> row.new] \in [{row.minor} -> Pins] BY <2>1
  <2>3. [m \in {row.minor} |-> row.new] \in PinSets BY <2>1, <2>2 DEF PinSets
  <2> QED BY <2>3 DEF Bump, Change, AllChanges
<1>2. ASSUME NEW file \in Files PROVE Change({file}, NoPins) \in AllChanges
  <2>1. NoPins \in [{} -> Pins] BY PinsAssumption DEF NoPins
  <2>2. NoPins \in PinSets BY <2>1 DEF PinSets
  <2> QED BY <2>2 DEF Change, AllChanges
<1>3. ASSUME NEW old \in AllChanges, NEW change \in AllChanges
      PROVE  Pushed(old, change) \in AllChanges
  <2>1. PICK S \in SUBSET Minors : old.pins \in [S -> Pins] BY DEF AllChanges, PinSets
  <2>2. PICK U \in SUBSET Minors : change.pins \in [U -> Pins] BY DEF AllChanges, PinSets
  <2> DEFINE pins == [m \in DOMAIN old.pins \cup DOMAIN change.pins |->
                        IF m \in DOMAIN change.pins THEN change.pins[m] ELSE old.pins[m]]
             files == (old.files \ change.files) \cup (change.files \ old.files)
  <2>3. pins \in [S \cup U -> Pins] BY <2>1, <2>2
  <2>4. S \cup U \in SUBSET Minors OBVIOUS
  <2> HIDE DEF pins
  <2>5. pins \in PinSets BY <2>3, <2>4 DEF PinSets
  <2>6. files \in SUBSET Files BY DEF AllChanges
  <2>7. Pushed(old, change) = [files |-> files, pins |-> pins] BY DEF Pushed, Change, pins
  <2> HIDE DEF files
  <2> QED BY <2>5, <2>6, <2>7 DEF AllChanges
<1> QED BY <1>1, <1>2, <1>3

LEMMA HeadTreeType ==
    ASSUME MainInv, NEW p \in Nat, NEW pr \in Branches, pr.parent \in 1..Tip
    PROVE  /\ HeadTree(pr, p) \in Trees
           /\ \A m \in Minors : HeadTree(pr, p).pins[m] =
                 IF m \in DOMAIN pr.change.pins THEN pr.change.pins[m]
                 ELSE main[pr.parent].tree.pins[m]
<1>1. main[pr.parent] \in Commits BY DEF MainInv, Tip
<1>2. main[pr.parent].tree \in Trees BY <1>1 DEF Commits
<1>3. pr.change \in AllChanges /\ -p \in Int BY DEF Branches
<1> QED BY <1>2, <1>3, ChangedTree DEF HeadTree

\* An action on a single branch.
LEMMA BecomesSteps ==
    ASSUME BranchInv, NEW p \in Proposals, NEW pr, Branch(pr, p), Becomes(p, pr),
           UNCHANGED main
    PROVE  BranchInv'
<1>1. pr \in Branches BY DEF Branch
<1>2. prs' \in Seq(Branches) /\ Len(prs') = Len(prs)
    BY <1>1 DEF Becomes, BranchInv, Proposals
<1>3. \A q \in Proposals : prs'[q] = IF q = p THEN pr ELSE prs[q]
    BY DEF Becomes, BranchInv, Proposals
<1>4. ASSUME NEW q \in Proposals' PROVE Branch(prs'[q], q)
    BY <1>2, <1>3 DEF BranchInv, Proposals
<1>5. ASSUME NEW q \in Proposals' PROVE Branch(prs[q], q)'
    BY <1>4 DEF Branch, Tip, HeadTree
<1> QED BY <1>2, <1>5 DEF BranchInv

LEMMA SettledBranch ==
    ASSUME NEW p \in Proposals, NEW pr, Branch(pr, p),
           NEW state \in {"merged", "closed", "deleted"}
    PROVE  Branch(Settled(pr, state), p)
<1>1. Settled(pr, state) \in Branches BY DEF Branch, Branches, Settled
<1>2. /\ Settled(pr, state).parent = pr.parent
      /\ Settled(pr, state).jobs = {} /\ Settled(pr, state).smoke = "none"
    BY DEF Branch, Branches, Settled
<1> QED BY <1>1, <1>2 DEF Branch

-----------------------------------------------------------------------------
\* Main grows, the branches stay what they are.
LEMMA MainGrows ==
    ASSUME MainInv, NEW commit \in Commits, main' = Append(main, commit)
    PROVE  /\ Tip' = Tip + 1 /\ main' \in Seq(Commits)
           /\ \A i \in 1..Tip : main'[i] = main[i]
           /\ main'[Tip + 1] = commit
BY DEF MainInv, Tip

LEMMA MainSteps ==
    ASSUME MainInv, NEW commit \in Commits, main' = Append(main, commit),
           commit.by # "person" => Accepted(commit.by, TipTree, commit.tree),
           \A m \in Minors : Real(commit.tree.pins[m])
    PROVE  MainInv'
<1>1. /\ Tip' = Tip + 1 /\ main' \in Seq(Commits)
      /\ \A i \in 1..Tip : main'[i] = main[i]
      /\ main'[Tip + 1] = commit
    BY MainGrows
<1>2. Tip \in Nat /\ Tip >= 1 BY DEF MainInv, Tip
<1>3. AutoMergeIsEligible'
  <2> SUFFICES ASSUME NEW i \in 2..Tip', main'[i].by # "person"
               PROVE  Accepted(main'[i].by, main'[i - 1].tree, main'[i].tree)
    BY DEF AutoMergeIsEligible
  <2>1. CASE i = Tip + 1
    <3>1. i - 1 = Tip BY <1>2, <2>1
    <3>2. Tip \in 1..Tip BY <1>2
    <3>3. main'[Tip] = main[Tip] BY <1>1, <3>2
    <3>4. main'[i] = commit BY <1>1, <2>1
    <3> QED BY <3>1, <3>3, <3>4 DEF TipTree
  <2>2. CASE i # Tip + 1
    <3>1. i \in 2..Tip /\ i \in 1..Tip /\ i - 1 \in 1..Tip BY <1>1, <1>2, <2>2
    <3>2. main'[i] = main[i] /\ main'[i - 1] = main[i - 1] BY <1>1, <3>1
    <3> QED BY <3>1, <3>2 DEF MainInv, AutoMergeIsEligible
  <2> QED BY <2>1, <2>2
<1>4. PinsAreReal'
  <2> SUFFICES ASSUME NEW i \in 1..Tip', NEW m \in Minors
               PROVE  Real(main'[i].tree.pins[m])
    BY DEF PinsAreReal
  <2>1. CASE i = Tip + 1 BY <1>1, <2>1
  <2>2. CASE i # Tip + 1
    <3>1. i \in 1..Tip BY <1>1, <1>2, <2>2
    <3> QED BY <1>1, <3>1 DEF MainInv, PinsAreReal
  <2> QED BY <2>1, <2>2
<1> QED BY <1>1, <1>2, <1>3, <1>4 DEF MainInv

LEMMA BranchKept ==
    ASSUME MainInv, NEW commit \in Commits, main' = Append(main, commit),
           NEW p \in Nat, NEW pr, Branch(pr, p)
    PROVE  /\ pr \in Branches
           /\ pr.parent \in 1..Tip'
           /\ pr.smoke = "success" => Truthful(pr.change)
           /\ \A job \in pr.jobs :
                 /\ job.head <= pr.head
                 /\ job.pc # "start" /\ job.head = pr.head =>
                       \E base \in pr.parent..Tip' :
                          Accepted(pr.by, main'[base].tree, HeadTree(pr, p)')
<1>1. /\ Tip' = Tip + 1 /\ Tip \in Nat
      /\ \A i \in 1..Tip : main'[i] = main[i]
    BY MainGrows DEF MainInv, Tip
<1>2. pr \in Branches /\ pr.parent \in 1..Tip /\ pr.parent \in Nat
    BY <1>1 DEF Branch
<1>3. main'[pr.parent] = main[pr.parent] BY <1>1, <1>2
<1>4. HeadTree(pr, p)' = HeadTree(pr, p) BY <1>3 DEF HeadTree
<1>5. ASSUME NEW job \in pr.jobs, job.pc # "start", job.head = pr.head
      PROVE  \E base \in pr.parent..Tip' :
                Accepted(pr.by, main'[base].tree, HeadTree(pr, p)')
  <2>1. PICK base \in pr.parent..Tip : Accepted(pr.by, main[base].tree, HeadTree(pr, p))
    BY <1>5 DEF Branch
  <2>2. base \in 1..Tip BY <1>1, <1>2, <2>1
  <2>3. main'[base] = main[base] BY <1>1, <2>2
  <2>4. base \in pr.parent..Tip' BY <1>1, <1>2, <2>1
  <2> QED BY <1>4, <2>1, <2>3, <2>4
<1>6. pr.parent \in 1..Tip' BY <1>1, <1>2
<1> QED BY <1>2, <1>3, <1>5, <1>6 DEF Branch

LEMMA BranchesKept ==
    ASSUME MainInv, BranchInv, NEW commit \in Commits, main' = Append(main, commit),
           UNCHANGED prs \/ \E p \in Proposals : Becomes(p, Settled(prs[p], "merged"))
    PROVE  BranchInv'
<1>1. /\ prs' \in Seq(Branches) /\ Len(prs') = Len(prs)
      /\ \A q \in Proposals : Branch(prs'[q], q)
  <2>1. CASE UNCHANGED prs BY <2>1 DEF BranchInv
  <2>2. ASSUME NEW p \in Proposals, Becomes(p, Settled(prs[p], "merged"))
        PROVE  /\ prs' \in Seq(Branches) /\ Len(prs') = Len(prs)
               /\ \A q \in Proposals : Branch(prs'[q], q)
    <3>1. Branch(Settled(prs[p], "merged"), p) BY SettledBranch DEF BranchInv
    <3>2. Settled(prs[p], "merged") \in Branches BY <3>1 DEF Branch
    <3>3. prs' \in Seq(Branches) /\ Len(prs') = Len(prs)
      BY <2>2, <3>2 DEF Becomes, BranchInv, Proposals
    <3>4. \A q \in Proposals : prs'[q] = IF q = p THEN Settled(prs[p], "merged") ELSE prs[q]
      BY <2>2 DEF Becomes, BranchInv, Proposals
    <3> QED BY <3>1, <3>3, <3>4 DEF BranchInv
  <2> QED BY <2>1, <2>2
<1>2. ASSUME NEW q \in Proposals' PROVE Branch(prs[q], q)'
  <2>1. q \in Proposals /\ q \in Nat BY <1>1 DEF Proposals, BranchInv
  <2>2. Branch(prs'[q], q) BY <1>1, <2>1
  <2> QED BY <2>1, <2>2, BranchKept DEF Branch
<1> QED BY <1>1, <1>2 DEF BranchInv

-----------------------------------------------------------------------------
\* The publisher's queue keeps its order.
LEMMA RequestTypes == NoRequest \in Requests /\ NoRequest.source = 0
BY DEF NoRequest, Request, Requests

LEMMA QueuedSteps ==
    ASSUME PublisherInv, Tip \in Nat, Tip' \in Nat, Tip' >= 1, Tip <= Tip',
           NEW req \in Requests, req.source = Tip',
           publisher' = Queued(publisher, req), UNCHANGED registry
    PROVE  PublisherInv'
<1>1. req # NoRequest BY RequestTypes
<1>2. publisher' \in Publishers
    BY DEF PublisherInv, Publishers, Queued
<1>3. publisher'.pc # "idle" /\ publisher'.run # NoRequest
    BY <1>1 DEF PublisherInv, Publishers, Queued
<1>4. CASE publisher.pc = "idle"
  <2>1. publisher'.run = req /\ publisher'.next = publisher.next /\ publisher.next = NoRequest
    BY <1>4 DEF PublisherInv, Publishers, Queued
  <2> QED BY <1>2, <1>3, <2>1, RequestTypes DEF PublisherInv
<1>5. CASE publisher.pc # "idle"
  <2>1. publisher'.run = publisher.run /\ publisher'.next = req /\ publisher'.pc = publisher.pc
    BY <1>5 DEF PublisherInv, Publishers, Queued
  <2>2. publisher.run.source \in 1..Tip BY <1>5 DEF PublisherInv
  <2> QED BY <1>2, <1>3, <1>5, <2>1, <2>2 DEF PublisherInv
<1> QED BY <1>4, <1>5

LEMMA DequeuedSteps ==
    ASSUME PublisherInv, Tip \in Nat, UNCHANGED <<main, registry>>, publisher.pc # "idle",
           publisher' = Dequeued(publisher) \/ publisher' = Dequeued(GivenUp)
    PROVE  PublisherInv'
<1>1. GivenUp \in Publishers /\ GivenUp.next = publisher.next
    BY DEF PublisherInv, Publishers, GivenUp
<1>2. /\ publisher' \in Publishers
      /\ publisher'.run = publisher.next /\ publisher'.next = NoRequest
      /\ publisher'.pc = IF publisher.next = NoRequest THEN "idle" ELSE "prepare"
    BY <1>1, RequestTypes DEF PublisherInv, Publishers, Dequeued
<1>3. Tip' = Tip BY DEF Tip
<1>4. publisher.run.source \in 1..Tip BY DEF PublisherInv
<1>5. publisher.next \in Requests /\ publisher.next.source \in Nat
    BY DEF PublisherInv, Publishers, Requests
<1>6. CASE publisher.next = NoRequest
    BY <1>2, <1>3, <1>6, RequestTypes DEF PublisherInv
<1>7. CASE publisher.next # NoRequest
  <2>1. publisher.next.source \in 1..Tip BY <1>4, <1>5, <1>7 DEF PublisherInv
  <2>2. \A m \in Minors, r \in Registries : registry[m][r] <= publisher.next.source
    BY <1>4, <1>5, <1>7 DEF PublisherInv
  <2> QED BY <1>2, <1>3, <1>7, <2>1, <2>2, RequestTypes DEF PublisherInv
<1> QED BY <1>6, <1>7

-----------------------------------------------------------------------------
LEMMA TipIsNat == ASSUME IInv PROVE Tip \in Nat /\ Tip >= 1 /\ Tip \in 1..Tip
BY DEF IInv, MainInv, Tip

LEMMA TipTreeType == ASSUME IInv PROVE TipTree \in Trees
<1>1. main[Tip] \in Commits BY TipIsNat DEF IInv, MainInv, Tip
<1> QED BY <1>1 DEF TipTree, Commits

LEMMA BranchTypes ==
    ASSUME IInv, NEW p \in Proposals
    PROVE  /\ prs[p] \in Branches /\ p \in Nat /\ Branch(prs[p], p)
           /\ prs[p].jobs \in SUBSET Jobs
BY DEF IInv, BranchInv, Proposals, Branch, Branches

\* A step of one branch and of nothing else but what people have done.
LEMMA BranchSteps ==
    ASSUME IInv, NEW p \in Proposals, NEW pr, Branch(pr, p), Becomes(p, pr),
           UNCHANGED <<main, updater, publisher, registry>>, manual' \in Nat
    PROVE  IInv'
<1>1. BranchInv' BY BecomesSteps DEF IInv
<1>2. MainInv' BY DEF IInv, MainInv, Tip, AutoMergeIsEligible, PinsAreReal
<1>3. UpdaterInv' BY DEF IInv, UpdaterInv, Tip, SourceTree
<1>4. PublisherInv' BY DEF IInv, PublisherInv, Tip
<1> QED BY <1>1, <1>2, <1>3, <1>4 DEF IInv

\* A push to main.
LEMMA AdvanceSteps ==
    ASSUME IInv, NEW commit \in Commits, Advance(commit),
           commit.by # "person" => Accepted(commit.by, TipTree, commit.tree),
           \A m \in Minors : Real(commit.tree.pins[m]),
           UNCHANGED prs \/ \E p \in Proposals : Becomes(p, Settled(prs[p], "merged")),
           UNCHANGED <<updater, registry>>, manual' \in Nat
    PROVE  IInv'
<1>1. main' = Append(main, commit) BY DEF Advance
<1>2. /\ Tip' = Tip + 1 /\ Tip \in Nat /\ Tip >= 1
      /\ \A i \in 1..Tip : main'[i] = main[i]
    BY <1>1, MainGrows, TipIsNat DEF IInv
<1>3. MainInv' BY <1>1, MainSteps DEF IInv
<1>4. BranchInv' BY <1>1, BranchesKept DEF IInv
<1>5. UpdaterInv'
  <2>1. updater.pc # "idle" => /\ updater.source \in 1..Tip'
                               /\ main'[updater.source] = main[updater.source]
    BY <1>2 DEF IInv, UpdaterInv
  <2> QED BY <2>1 DEF IInv, UpdaterInv, SourceTree
<1>6. PublisherInv'
  <2>1. CASE publisher' = Queued(publisher, Request(Tip + 1, {}))
    <3>1. Request(Tip + 1, {}) \in Requests /\ Request(Tip + 1, {}).source = Tip'
      BY <1>2 DEF Request, Requests
    <3> QED BY <1>2, <2>1, <3>1, QueuedSteps DEF IInv
  <2>2. CASE publisher' = publisher
    <3>1. publisher.next.source \in Nat /\ publisher.run.source \in Nat
      BY DEF IInv, PublisherInv, Publishers, Requests
    <3>2. publisher.next.source <= Tip' BY <1>2, <3>1 DEF IInv, PublisherInv
    <3>3. publisher.pc # "idle" => publisher.run.source \in 1..Tip'
      BY <1>2 DEF IInv, PublisherInv
    <3>4. \A m \in Minors, r \in Registries : registry[m][r] \in Nat /\ registry[m][r] <= Tip
      BY DEF IInv, PublisherInv
    <3>5. \A m \in Minors, r \in Registries : registry[m][r] <= Tip' BY <1>2, <3>4
    <3> QED BY <2>2, <3>2, <3>3, <3>5 DEF IInv, PublisherInv
  <2> QED BY <2>1, <2>2 DEF Advance
<1> QED BY <1>3, <1>4, <1>5, <1>6 DEF IInv

\* What merging a branch that is up to date adds to main.
LEMMA MergedTree ==
    ASSUME IInv, NEW p \in Proposals, Mergeable(prs[p])
    PROVE  /\ HeadTree(prs[p], p) \in Trees
           /\ \A m \in Minors : Real(HeadTree(prs[p], p).pins[m])
<1> DEFINE pr == prs[p]
<1>1. pr \in Branches /\ p \in Nat /\ Branch(pr, p) BY BranchTypes
<1>2. pr.parent = Tip /\ pr.smoke = "success" /\ pr.parent \in 1..Tip
    BY TipIsNat DEF Mergeable
<1>3. Truthful(pr.change) BY <1>1, <1>2 DEF Branch
<1>4. \A m \in Minors : Real(main[pr.parent].tree.pins[m])
    BY <1>2 DEF IInv, MainInv, PinsAreReal
<1> QED BY <1>1, <1>2, <1>3, <1>4, HeadTreeType DEF IInv, Truthful

-----------------------------------------------------------------------------
LEMMA Initially == Init => IInv
<1> SUFFICES ASSUME Init PROVE IInv OBVIOUS
<1>1. /\ main \in Seq(Commits) /\ Tip = 1
      /\ \A m \in Minors : main[1].tree.pins[m] = FirstPin
  <2> DEFINE tree == [pins |-> [m \in Minors |-> FirstPin], files |-> [f \in Files |-> {}]]
  <2>1. tree \in Trees BY PinsAssumption DEF Trees
  <2>2. [tree |-> tree, by |-> "person"] \in Commits BY <2>1 DEF Commits
  <2> HIDE DEF tree
  <2>3. main = <<[tree |-> tree, by |-> "person"]>> BY DEF Init, tree
  <2>4. \A m \in Minors : tree.pins[m] = FirstPin BY DEF tree
  <2> QED BY <2>2, <2>3, <2>4 DEF Tip
<1>2. Real(FirstPin) BY DEF Real, FirstPin, PatchOf
<1>3. MainInv
  <2>1. AutoMergeIsEligible BY <1>1 DEF AutoMergeIsEligible
  <2>2. PinsAreReal BY <1>1, <1>2 DEF PinsAreReal
  <2> QED BY <1>1, <2>1, <2>2 DEF MainInv
<1>4. BranchInv BY DEF Init, BranchInv, Proposals
<1>5. UpdaterInv BY DEF Init, UpdaterInv, IdleUpdater, Updaters
<1>6. PublisherInv
  <2>1. IdlePublisher \in Publishers /\ IdlePublisher.next = NoRequest
        /\ IdlePublisher.run = NoRequest /\ IdlePublisher.pc = "idle"
    BY RequestTypes DEF IdlePublisher, Publishers
  <2>2. registry \in [Minors -> [Registries -> Nat]]
        /\ \A m \in Minors, r \in Registries : registry[m][r] = 1
    BY DEF Init
  <2> QED BY <1>1, <2>1, <2>2, RequestTypes DEF Init, PublisherInv
<1> QED BY <1>3, <1>4, <1>5, <1>6 DEF IInv, Init

LEMMA PublishingSteps == IInv /\ Publishing => IInv'
<1> SUFFICES ASSUME IInv, Publishing PROVE IInv' OBVIOUS
<1>1. /\ UNCHANGED <<main, prs, updater, manual>>
      /\ \/ Prepare \/ ReadBack \/ PublishFails
         \/ \E m \in Minors, r \in Registries : PushAlias(m, r)
    BY DEF Publishing, Prepare, ReadBack, PublishFails, PushAlias
<1>2. MainInv' BY <1>1 DEF IInv, MainInv, Tip, AutoMergeIsEligible, PinsAreReal
<1>3. BranchInv'
    BY <1>1 DEF IInv, BranchInv, Proposals, Branch, Tip, HeadTree
<1>4. UpdaterInv' BY <1>1 DEF IInv, UpdaterInv, Tip, SourceTree
<1>5. Tip' = Tip /\ Tip \in Nat BY <1>1, TipIsNat DEF Tip
<1>6. PublisherInv'
  <2>1. CASE Prepare
    <3>1. CASE publisher' = [publisher EXCEPT !.pc = "push"]
      <4>1. /\ publisher' \in Publishers /\ publisher'.pc = "push"
            /\ publisher'.run = publisher.run /\ publisher'.next = publisher.next
            /\ publisher.pc = "prepare"
        BY <2>1, <3>1 DEF Prepare, IInv, PublisherInv, Publishers
      <4> QED BY <1>5, <2>1, <4>1 DEF IInv, PublisherInv, Prepare
    <3>2. CASE publisher' = Dequeued(GivenUp)
      BY <1>5, <2>1, <3>2, DequeuedSteps DEF Prepare, IInv
    <3> QED BY <2>1, <3>1, <3>2 DEF Prepare
  <2>2. CASE ReadBack
    BY <1>5, <2>2, DequeuedSteps DEF ReadBack, IInv
  <2>3. CASE PublishFails
    BY <1>5, <2>3, DequeuedSteps DEF PublishFails, IInv
  <2>4. ASSUME NEW m \in Minors, NEW r \in Registries, PushAlias(m, r) PROVE PublisherInv'
    <3>1. publisher.pc = "push" /\ publisher.run.source \in 1..Tip
      BY <2>4 DEF PushAlias, IInv, PublisherInv
    <3>2. /\ publisher' \in Publishers /\ publisher'.pc = "push"
          /\ publisher'.run = publisher.run /\ publisher'.next = publisher.next
      <4> DEFINE pushed == publisher.pushed \cup {<<m, r>>}
      <4>1. pushed \in SUBSET (Minors \X Registries)
        BY DEF IInv, PublisherInv, Publishers
      <4>2. publisher' = [publisher EXCEPT !.pushed = pushed] /\ publisher.pc = "push"
        BY <2>4 DEF PushAlias
      <4> HIDE DEF pushed
      <4> QED BY <4>1, <4>2 DEF IInv, PublisherInv, Publishers
    <3>3. /\ registry' \in [Minors -> [Registries -> Nat]]
          /\ \A n \in Minors, q \in Registries :
                registry'[n][q] = registry[n][q] \/ registry'[n][q] = publisher.run.source
      BY <2>4, <3>1 DEF PushAlias, IInv, PublisherInv
    <3>4. \A n \in Minors, q \in Registries :
             registry'[n][q] <= Tip /\ registry'[n][q] <= publisher.run.source
      BY <1>5, <3>1, <3>3 DEF IInv, PublisherInv
    <3> QED BY <1>5, <3>1, <3>2, <3>3, <3>4 DEF IInv, PublisherInv
  <2> QED BY <1>1, <2>1, <2>2, <2>3, <2>4
<1> QED BY <1>1, <1>2, <1>3, <1>4, <1>6 DEF IInv

\* A branch is pushed.
LEMMA NewBranchSteps ==
    ASSUME BranchInv, UNCHANGED main, NEW pr \in Branches, pr.jobs = {}, pr.smoke # "success",
           pr.parent \in 1..Tip, prs' = Append(prs, pr)
    PROVE  BranchInv'
<1> DEFINE p == Len(prs) + 1
<1>1. /\ prs \in Seq(Branches) /\ prs' \in Seq(Branches) /\ Len(prs') = p
      /\ \A q \in Proposals : prs'[q] = prs[q]
      /\ prs'[p] = pr
    BY DEF BranchInv, Proposals
<1>2. Branch(pr, p) BY DEF Branch
<1>3. ASSUME NEW q \in Proposals' PROVE Branch(prs'[q], q)
  <2>1. q \in Proposals \/ q = p BY <1>1 DEF Proposals
  <2> QED BY <1>1, <1>2, <2>1 DEF BranchInv
<1>4. ASSUME NEW q \in Proposals' PROVE Branch(prs[q], q)'
    BY <1>3 DEF Branch, Tip, HeadTree
<1> QED BY <1>1, <1>4 DEF BranchInv

LEMMA UpdatingSteps == IInv /\ Updating => IInv'
<1> SUFFICES ASSUME IInv, Updating PROVE IInv' OBVIOUS
<1>1. UNCHANGED <<main, publisher, registry, manual>>
    BY DEF Updating, StartDiscovery, Discover, PushBranch, OpenRequest, UpdaterEnds
<1>2. MainInv' BY <1>1 DEF IInv, MainInv, Tip, AutoMergeIsEligible, PinsAreReal
<1>3. PublisherInv' BY <1>1 DEF IInv, PublisherInv, Tip
<1>4. Tip' = Tip /\ Tip \in Nat BY <1>1, TipIsNat DEF Tip
<1>5. IdleUpdater \in Updaters /\ IdleUpdater.pc = "idle" BY DEF IdleUpdater, Updaters
<1>6. CASE UNCHANGED prs
  <2>1. BranchInv' BY <1>1, <1>6 DEF IInv, BranchInv, Proposals, Branch, Tip, HeadTree
  <2>2. CASE updater' = IdleUpdater
    <3>1. UpdaterInv' BY <1>5, <2>2 DEF UpdaterInv
    <3> QED BY <1>1, <1>2, <1>3, <2>1, <3>1 DEF IInv
  <2>3. CASE StartDiscovery
    <3>1. PICK source \in 1..Tip :
             updater' = [updater EXCEPT !.pc = "discover", !.source = source]
      BY <2>3 DEF StartDiscovery
    <3>2. source \in Nat BY <1>4, <3>1
    <3>3. updater' \in Updaters /\ updater'.pc = "discover" /\ updater'.source = source
      BY <3>1, <3>2 DEF IInv, UpdaterInv, Updaters
    <3>4. UpdaterInv' BY <1>4, <3>1, <3>3 DEF UpdaterInv
    <3> QED BY <1>1, <1>2, <1>3, <2>1, <3>4 DEF IInv
  <2>4. ASSUME NEW row \in Candidates(SourceTree), updater.pc = "discover",
               updater' = [updater EXCEPT !.pc = "propose", !.row = row]
        PROVE  IInv'
    <3>1. row \in Rows BY <2>4 DEF Candidates
    <3>2. /\ updater' \in Updaters /\ updater'.pc = "propose"
          /\ updater'.source = updater.source /\ updater'.row = row
      BY <2>4, <3>1 DEF IInv, UpdaterInv, Updaters
    <3>3. UpdaterInv' BY <1>4, <2>4, <3>1, <3>2 DEF IInv, UpdaterInv
    <3> QED BY <1>1, <1>2, <1>3, <2>1, <3>3 DEF IInv
  <2>5. ~ PushBranch
    <3>1. prs \in Seq(Branches) BY DEF IInv, BranchInv
    <3>2. Len(Append(prs, NewBranch(updater.row))) # Len(prs) BY <3>1
    <3> QED BY <1>6, <3>2 DEF PushBranch
  <2> QED BY <2>2, <2>3, <2>4, <2>5 DEF Updating, Discover, OpenRequest, UpdaterEnds
<1>7. CASE PushBranch
  <2> DEFINE pr == NewBranch(updater.row)
             p == Len(prs) + 1
  <2>1. updater.source \in 1..Tip /\ updater.row \in Rows
    BY <1>7 DEF PushBranch, IInv, UpdaterInv
  <2>2. pr \in Branches /\ pr.jobs = {} /\ pr.smoke = "none" /\ pr.parent = updater.source
    <3>1. updater.source \in Nat /\ Bump(updater.row) \in AllChanges
      BY <1>4, <2>1, ChangeTypes
    <3> QED BY <2>1, <3>1 DEF NewBranch, Branches
  <2> HIDE DEF pr
  <2>3. prs' = Append(prs, pr) BY <1>7 DEF PushBranch, pr
  <2>7. BranchInv' BY <1>1, <2>1, <2>2, <2>3, NewBranchSteps DEF IInv
  <2>8. /\ updater' \in Updaters /\ updater'.pc = "open"
        /\ updater'.source = updater.source /\ updater'.row = updater.row
    BY <1>7 DEF PushBranch, IInv, UpdaterInv, Updaters
  <2>9. UpdaterInv' BY <1>4, <2>1, <2>8 DEF UpdaterInv
  <2> QED BY <1>1, <1>2, <1>3, <2>7, <2>9 DEF IInv
<1>8. CASE OpenRequest /\ ~ UNCHANGED prs
  <2> DEFINE p == Len(prs)
             pr == [prs[p] EXCEPT !.state = "open", !.smoke = "queued"]
  <2>1. /\ prs[p].state = "branch" /\ Becomes(p, pr) /\ updater' = IdleUpdater
    BY <1>8 DEF OpenRequest
  <2>2. p \in Proposals
    <3>1. Len(prs) \in Nat /\ prs \in Seq(Branches) BY DEF IInv, BranchInv
    <3>2. CASE Len(prs) = 0
      <4>1. prs' = prs BY <2>1, <3>1, <3>2 DEF Becomes
      <4> QED BY <1>8, <4>1
    <3> QED BY <3>1, <3>2 DEF Proposals
  <2>3. prs[p] \in Branches /\ Branch(prs[p], p) BY <2>2, BranchTypes
  <2>4. /\ pr \in Branches /\ pr.smoke = "queued" /\ pr.by = prs[p].by
        /\ pr.parent = prs[p].parent /\ pr.jobs = prs[p].jobs /\ pr.head = prs[p].head
        /\ pr.change = prs[p].change
    BY <2>3 DEF Branches
  <2>5. HeadTree(pr, p) = HeadTree(prs[p], p) BY <2>4 DEF HeadTree
  <2>6. Branch(pr, p) BY <2>3, <2>4, <2>5 DEF Branch
  <2>7. BranchInv' BY <1>1, <2>1, <2>2, <2>6, BecomesSteps DEF IInv
  <2>8. UpdaterInv' BY <1>5, <2>1 DEF UpdaterInv
  <2> QED BY <1>1, <1>2, <1>3, <2>7, <2>8 DEF IInv
<1> QED BY <1>6, <1>7, <1>8 DEF Updating, StartDiscovery, Discover, UpdaterEnds, OpenRequest

\* A step of the jobs or the tests of a branch.
LEMMA MergingSteps ==
    ASSUME IInv, NEW p \in Proposals, Merging(p)
    PROVE  IInv'
<1> DEFINE pr == prs[p]
<1>1. /\ pr \in Branches /\ p \in Nat /\ Branch(pr, p)
      /\ pr.jobs \in SUBSET Jobs
    BY BranchTypes
<1>2. pr.head \in Nat BY <1>1 DEF Branches
<1>3. manual \in Nat BY DEF IInv
<1>4. CASE SmokeEnds(p)
  <2>1. PICK verdict \in SmokeVerdicts(pr) :
           Becomes(p, IF verdict = "success"
                      THEN [pr EXCEPT !.smoke = verdict, !.tested = TRUE,
                                      !.jobs = @ \cup {Job(pr.head, "start")}]
                      ELSE [pr EXCEPT !.smoke = verdict])
    BY <1>4 DEF SmokeEnds
  <2>2. CASE verdict = "success"
    <3> DEFINE new == [pr EXCEPT !.smoke = verdict, !.tested = TRUE,
                                 !.jobs = @ \cup {Job(pr.head, "start")}]
    <3>1. Job(pr.head, "start") \in Jobs /\ Job(pr.head, "start").pc = "start"
          /\ Job(pr.head, "start").head = pr.head
      BY <1>2 DEF Job, Jobs
    <3>2. /\ new \in Branches /\ new.by = pr.by /\ new.parent = pr.parent
          /\ new.change = pr.change /\ new.head = pr.head
          /\ new.jobs = pr.jobs \cup {Job(pr.head, "start")}
      BY <1>1, <2>2, <3>1 DEF Branches
    <3>3. Truthful(pr.change) BY <2>1, <2>2 DEF SmokeVerdicts
    <3>4. HeadTree(new, p) = HeadTree(pr, p) BY <3>2 DEF HeadTree
    <3>5. Branch(new, p) BY <1>1, <1>2, <3>1, <3>2, <3>3, <3>4 DEF Branch
    <3> QED BY <1>3, <1>4, <2>1, <2>2, <3>5, BranchSteps DEF SmokeEnds
  <2>3. CASE verdict # "success"
    <3> DEFINE new == [pr EXCEPT !.smoke = verdict]
    <3>1. verdict = "failure" BY <2>1, <2>3 DEF SmokeVerdicts
    <3>2. /\ new \in Branches /\ new.by = pr.by /\ new.parent = pr.parent
          /\ new.change = pr.change /\ new.head = pr.head /\ new.jobs = pr.jobs
          /\ new.smoke = "failure"
      BY <1>1, <3>1 DEF Branches
    <3>3. HeadTree(new, p) = HeadTree(pr, p) BY <3>2 DEF HeadTree
    <3>4. Branch(new, p) BY <1>1, <3>2, <3>3 DEF Branch
    <3> QED BY <1>3, <1>4, <2>1, <2>3, <3>4, BranchSteps DEF SmokeEnds
  <2> QED BY <2>2, <2>3
<1>5. ASSUME NEW jobs \in SUBSET Jobs, Becomes(p, [pr EXCEPT !.jobs = jobs]),
             UNCHANGED <<main, updater, publisher, registry, manual>>,
             \A job \in jobs : \/ job \in pr.jobs
                               \/ /\ job.head <= pr.head
                                  /\ \E base \in pr.parent..Tip :
                                        Accepted(pr.by, main[base].tree, HeadTree(pr, p))
      PROVE  IInv'
  <2> DEFINE new == [pr EXCEPT !.jobs = jobs]
  <2>1. /\ new \in Branches /\ new.by = pr.by /\ new.parent = pr.parent
        /\ new.change = pr.change /\ new.head = pr.head /\ new.jobs = jobs
        /\ new.smoke = pr.smoke
    BY <1>1 DEF Branches
  <2>2. HeadTree(new, p) = HeadTree(pr, p) BY <2>1 DEF HeadTree
  <2>3. Branch(new, p) BY <1>1, <1>5, <2>1, <2>2 DEF Branch
  <2> QED BY <1>3, <1>5, <2>3, BranchSteps
<1>6. ASSUME NEW job \in pr.jobs,
             Evaluate(p, job) \/ GatePasses(p, job) \/ MergePR(p, job) \/ JobEnds(p, job)
      PROVE  IInv'
  <2>0. job \in Jobs /\ job.head <= pr.head BY <1>1, <1>6 DEF Branch
  <2>1. CASE Evaluate(p, job)
    <3> DEFINE jobs == (pr.jobs \ {job}) \cup {Job(job.head, "eligible")}
    <3>1. /\ Job(job.head, "eligible") \in Jobs
          /\ Job(job.head, "eligible").head = job.head
      BY <2>0 DEF Job, Jobs
    <3>2. jobs \in SUBSET Jobs BY <1>1, <3>1
    <3>3. \E base \in pr.parent..Tip : Accepted(pr.by, main[base].tree, HeadTree(pr, p))
      BY <2>1 DEF Evaluate
    <3> QED BY <1>5, <2>0, <2>1, <3>1, <3>2, <3>3 DEF Evaluate, JobMoves
  <2>2. CASE GatePasses(p, job)
    <3> DEFINE jobs == (pr.jobs \ {job}) \cup {Job(job.head, "green")}
    <3>1. Job(job.head, "green") \in Jobs /\ Job(job.head, "green").head = job.head
      BY <2>0 DEF Job, Jobs
    <3>2. jobs \in SUBSET Jobs BY <1>1, <3>1
    <3>3. \E base \in pr.parent..Tip : Accepted(pr.by, main[base].tree, HeadTree(pr, p))
      BY <1>1, <2>2 DEF GatePasses, Branch
    <3> QED BY <1>5, <2>0, <2>2, <3>1, <3>2, <3>3 DEF GatePasses, JobMoves
  <2>3. CASE MergePR(p, job)
    <3> DEFINE commit == [tree |-> HeadTree(pr, p), by |-> pr.by]
    <3>1. /\ job.pc = "green" /\ pr.head = job.head /\ Mergeable(pr) /\ Advance(commit)
          /\ Becomes(p, Settled(pr, "merged")) /\ UNCHANGED <<updater, registry, manual>>
      BY <2>3 DEF MergePR, Matches
    <3>2. commit \in Commits /\ \A m \in Minors : Real(commit.tree.pins[m])
      BY <1>1, <3>1, MergedTree DEF Commits, Branches
    <3>3. PICK base \in pr.parent..Tip : Accepted(pr.by, main[base].tree, HeadTree(pr, p))
      BY <1>1, <1>6, <3>1 DEF Branch
    <3>4. base = Tip
      <4>1. pr.parent = Tip BY <3>1 DEF Mergeable
      <4> QED BY <3>3, <4>1, TipIsNat
    <3>5. commit.by # "person" => Accepted(commit.by, TipTree, commit.tree)
      BY <3>3, <3>4 DEF TipTree
    <3> QED BY <1>3, <3>1, <3>2, <3>5, AdvanceSteps
  <2>4. CASE JobEnds(p, job)
    <3>1. pr.jobs \ {job} \in SUBSET Jobs BY <1>1
    <3> QED BY <1>5, <2>4, <3>1 DEF JobEnds
  <2> QED BY <1>6, <2>1, <2>2, <2>3, <2>4
<1> QED BY <1>4, <1>6 DEF Merging

\* A step of a person on a branch.
LEMMA ReviewingSteps ==
    ASSUME IInv, NEW p \in Proposals, Reviewing(p)
    PROVE  IInv'
<1> DEFINE pr == prs[p]
<1>1. /\ pr \in Branches /\ p \in Nat /\ Branch(pr, p)
      /\ pr.jobs \in SUBSET Jobs /\ pr.head \in Nat
    BY BranchTypes DEF Branches
<1>2. manual \in Nat /\ manual + 1 \in Nat BY DEF IInv
<1>3. CASE ManualMergePR(p)
  <2> DEFINE commit == [tree |-> HeadTree(pr, p), by |-> "person"]
  <2>1. /\ Mergeable(pr) /\ Advance(commit) /\ Becomes(p, Settled(pr, "merged"))
        /\ UNCHANGED <<updater, registry>> /\ manual' = manual + 1
    BY <1>3 DEF ManualMergePR
  <2>2. commit \in Commits /\ (\A m \in Minors : Real(commit.tree.pins[m])) /\ commit.by = "person"
    BY <2>1, MergedTree DEF Commits
  <2> QED BY <1>2, <2>1, <2>2, AdvanceSteps
<1>4. ASSUME NEW base \in Branches, base.jobs = pr.jobs, base.head = pr.head,
             base.parent \in 1..Tip, NewHead(p, base), manual' \in Nat
      PROVE  IInv'
  <2> DEFINE new == [base EXCEPT !.head = @ + 1, !.smoke = "queued", !.tested = FALSE]
  <2>1. /\ new \in Branches /\ new.parent = base.parent
        /\ new.head = pr.head + 1 /\ new.jobs = pr.jobs /\ new.smoke = "queued"
    <3>1. base.head \in Nat /\ base.head + 1 \in Nat BY <1>1, <1>4
    <3>2. new \in Branches BY <1>4, <3>1 DEF Branches
    <3>3. /\ new.parent = base.parent /\ new.head = base.head + 1
          /\ new.jobs = base.jobs /\ new.smoke = "queued"
      BY <1>4 DEF Branches
    <3> QED BY <1>4, <3>2, <3>3
  <2>2. \A job \in pr.jobs : job.head \in Nat /\ job.head <= pr.head
    BY <1>1 DEF Branch, Jobs
  <2>3. \A job \in new.jobs : job.head <= new.head /\ job.head # new.head
    BY <1>1, <2>1, <2>2
  <2>4. Branch(new, p) BY <1>1, <1>4, <2>1, <2>3 DEF Branch
  <2> QED BY <1>2, <1>4, <2>4, BranchSteps DEF NewHead
<1>5. ASSUME NEW change \in Changes, EditBranch(p, change) PROVE IInv'
  <2> DEFINE base == [pr EXCEPT !.change = Pushed(@, change)]
  <2>1. Pushed(pr.change, change) \in AllChanges
    BY <1>1, ChangeTypes, ChangesAssumption DEF Branches
  <2>2. /\ base \in Branches /\ base.jobs = pr.jobs
        /\ base.head = pr.head /\ base.parent = pr.parent
    BY <1>1, <2>1 DEF Branches
  <2>3. NewHead(p, base) /\ manual' = manual + 1 BY <1>5 DEF EditBranch
  <2> HIDE DEF base
  <2> QED BY <1>1, <1>2, <1>4, <2>2, <2>3 DEF Branch
<1>6. CASE UpdateBranch(p)
  <2> DEFINE base == [pr EXCEPT !.parent = Tip]
  <2>1. /\ base \in Branches /\ base.jobs = pr.jobs
        /\ base.head = pr.head /\ base.parent = Tip
    BY <1>1, TipIsNat DEF Branches
  <2>2. NewHead(p, base) /\ manual' = manual BY <1>6 DEF UpdateBranch
  <2> HIDE DEF base
  <2> QED BY <1>2, <1>4, <2>1, <2>2, TipIsNat
<1>7. ASSUME NEW state \in {"closed", "deleted"}, Becomes(p, Settled(pr, state)),
             UNCHANGED <<main, updater, publisher, registry, manual>>
      PROVE  IInv'
  <2>1. Branch(Settled(pr, state), p) BY <1>1, SettledBranch
  <2> QED BY <1>2, <1>7, <2>1, BranchSteps
<1>8. CASE RerunSmoke(p)
  <2> DEFINE new == [pr EXCEPT !.smoke = "queued"]
  <2>1. /\ new \in Branches /\ new.by = pr.by /\ new.parent = pr.parent
        /\ new.change = pr.change /\ new.head = pr.head /\ new.jobs = pr.jobs
        /\ new.smoke = "queued"
    BY <1>1 DEF Branches
  <2>2. HeadTree(new, p) = HeadTree(pr, p) BY <2>1 DEF HeadTree
  <2>3. Branch(new, p) BY <1>1, <2>1, <2>2 DEF Branch
  <2> QED BY <1>2, <1>8, <2>3, BranchSteps DEF RerunSmoke
<1>9. CASE RerunJob(p)
  <2> DEFINE new == [pr EXCEPT !.jobs = @ \cup {Job(pr.head, "start")}]
  <2>1. /\ Job(pr.head, "start") \in Jobs /\ Job(pr.head, "start").pc = "start"
        /\ Job(pr.head, "start").head = pr.head
    BY <1>1 DEF Job, Jobs
  <2>2. /\ new \in Branches /\ new.by = pr.by /\ new.parent = pr.parent
        /\ new.change = pr.change /\ new.head = pr.head /\ new.smoke = pr.smoke
        /\ new.jobs = pr.jobs \cup {Job(pr.head, "start")}
    BY <1>1, <2>1 DEF Branches
  <2>3. HeadTree(new, p) = HeadTree(pr, p) BY <2>2 DEF HeadTree
  <2>4. \A job \in new.jobs :
           \/ job \in pr.jobs
           \/ job.pc = "start" /\ job.head <= pr.head
    BY <1>1, <2>1, <2>2
  <2> HIDE DEF new
  <2>5. Branch(new, p) BY <1>1, <2>2, <2>3, <2>4 DEF Branch
  <2> USE DEF new
  <2> QED BY <1>2, <1>9, <2>5, BranchSteps DEF RerunJob
<1> QED BY <1>3, <1>5, <1>6, <1>7, <1>8, <1>9 DEF Reviewing, ClosePR, DeleteBranch

LEMMA OutsideSteps == IInv /\ Outside => IInv'
<1> SUFFICES ASSUME IInv, Outside PROVE IInv' OBVIOUS
<1>1. manual + 1 \in Nat /\ Tip \in Nat /\ Tip >= 1 BY TipIsNat DEF IInv
<1>2. ASSUME NEW change \in Changes, ManualMerge(change) PROVE IInv'
  <2> DEFINE tree == Changed(TipTree, change, Tip + 1)
             commit == [tree |-> tree, by |-> "person"]
  <2>1. TipTree \in Trees BY TipTreeType
  <2>2. /\ tree \in Trees
        /\ \A m \in Minors : tree.pins[m] =
              IF m \in DOMAIN change.pins THEN change.pins[m] ELSE TipTree.pins[m]
    BY <1>1, <2>1, ChangedTree, ChangesAssumption
  <2>3. /\ Truthful(change) /\ Advance(commit) /\ manual' = manual + 1
        /\ UNCHANGED <<prs, updater, registry>>
    BY <1>2 DEF ManualMerge
  <2>4. commit \in Commits /\ commit.by = "person" /\ commit.tree = tree
    <3> HIDE DEF tree
    <3> QED BY <2>2 DEF Commits
  <2>5. \A m \in Minors : Real(TipTree.pins[m])
    BY TipIsNat DEF IInv, MainInv, PinsAreReal, TipTree
  <2>6. \A m \in Minors : Real(commit.tree.pins[m]) BY <2>2, <2>3, <2>4, <2>5 DEF Truthful
  <2> HIDE DEF commit
  <2> QED BY <1>1, <2>3, <2>4, <2>6, AdvanceSteps
<1>3. ASSUME NEW minors \in SUBSET Minors, Dispatch(minors) PROVE IInv'
  <2>1. UNCHANGED <<main, prs, updater, registry>> /\ manual' = manual + 1
    BY <1>3 DEF Dispatch
  <2>2. MainInv' BY <2>1 DEF IInv, MainInv, Tip, AutoMergeIsEligible, PinsAreReal
  <2>3. BranchInv' BY <2>1 DEF IInv, BranchInv, Proposals, Branch, Tip, HeadTree
  <2>4. UpdaterInv' BY <2>1 DEF IInv, UpdaterInv, Tip, SourceTree
  <2>5. Request(Tip, minors) \in Requests /\ Request(Tip, minors).source = Tip
    BY <1>1, <1>3 DEF Request, Requests
  <2>6. Tip' = Tip BY <2>1 DEF Tip
  <2>7. PublisherInv' BY <1>1, <1>3, <2>1, <2>5, <2>6, QueuedSteps DEF Dispatch, IInv
  <2> QED BY <1>1, <2>1, <2>2, <2>3, <2>4, <2>7 DEF IInv
<1>4. ASSUME NEW file \in {"actions", "steps"}, OpenActionUpdate(file) PROVE IInv'
  <2> DEFINE pr == [by |-> "dependabot", row |-> NoRow, parent |-> Tip,
                    change |-> Change({file}, NoPins), head |-> 1, state |-> "open",
                    smoke |-> "queued", tested |-> FALSE, jobs |-> {}]
  <2>1. prs' = Append(prs, pr) /\ UNCHANGED <<main, updater, publisher, registry, manual>>
    BY <1>4 DEF OpenActionUpdate
  <2>2. Change({file}, NoPins) \in AllChanges BY ChangeTypes DEF Files
  <2>3. pr \in Branches BY <1>1, <2>2 DEF Branches
  <2>4. pr.jobs = {} /\ pr.smoke = "queued" /\ pr.parent = Tip OBVIOUS
  <2> HIDE DEF pr
  <2>5. BranchInv' BY <2>1, <2>3, <2>4, NewBranchSteps, TipIsNat DEF IInv
  <2>6. MainInv' BY <2>1 DEF IInv, MainInv, Tip, AutoMergeIsEligible, PinsAreReal
  <2>7. UpdaterInv' BY <2>1 DEF IInv, UpdaterInv, Tip, SourceTree
  <2>8. PublisherInv' BY <2>1 DEF IInv, PublisherInv, Tip
  <2> QED BY <2>1, <2>5, <2>6, <2>7, <2>8 DEF IInv
<1> QED BY <1>2, <1>3, <1>4 DEF Outside

LEMMA StutteringSteps == IInv /\ UNCHANGED vars => IInv'
<1> SUFFICES ASSUME IInv, UNCHANGED vars PROVE IInv' OBVIOUS
<1>1. MainInv' BY DEF vars, IInv, MainInv, Tip, AutoMergeIsEligible, PinsAreReal
<1>2. BranchInv' BY DEF vars, IInv, BranchInv, Proposals, Branch, Tip, HeadTree
<1>3. UpdaterInv' BY DEF vars, IInv, UpdaterInv, Tip, SourceTree
<1>4. PublisherInv' BY DEF vars, IInv, PublisherInv, Tip
<1> QED BY <1>1, <1>2, <1>3, <1>4 DEF vars, IInv

-----------------------------------------------------------------------------
\* The pipeline keeps the invariant.
THEOREM Inductive == Spec => []IInv
<1>1. IInv /\ [Next]_vars => IInv'
  <2> SUFFICES ASSUME IInv, [Next]_vars PROVE IInv' OBVIOUS
  <2> QED BY PublishingSteps, UpdatingSteps, MergingSteps, ReviewingSteps, OutsideSteps,
             StutteringSteps DEF Next
<1> QED BY Initially, <1>1, PTL DEF Spec

\* The variables keep their types.
THEOREM TypeCorrect == Spec => []TypeOK
<1>1. IInv => TypeOK
    BY DEF IInv, MainInv, BranchInv, UpdaterInv, PublisherInv, TypeOK
<1> QED BY Inductive, <1>1, PTL

\* Whatever people push to the branch or to main meanwhile, what the pipeline merges by
\* itself is, of the commit it lands on, an eligible change if the updater proposed it, and
\* one that verify-action-update.py passes if Dependabot did.
THEOREM OnlyEligibleMerges == Spec => []AutoMergeIsEligible
<1>1. IInv => AutoMergeIsEligible BY DEF IInv, MainInv
<1> QED BY Inductive, <1>1, PTL

\* However the tag and the metadata of a base image move, main pins only images whose
\* patch it names.
THEOREM OnlyRealPins == Spec => []PinsAreReal
<1>1. IInv => PinsAreReal BY DEF IInv, MainInv
<1> QED BY Inductive, <1>1, PTL

LEMMA PinTypes ==
    ASSUME IInv, NEW i \in 1..Tip, NEW m \in Minors
    PROVE  main[i].tree.pins[m] \in Pins /\ main[i].tree.pins[m].patch \in Nat
<1>1. main[i] \in Commits BY DEF IInv, MainInv, Tip
<1>2. main[i].tree.pins[m] \in Pins BY <1>1 DEF Commits, Trees
<1> QED BY <1>2, PinsAssumption

\* Main changes by one commit more, and nothing is published in that step.
LEMMA MainAdvances ==
    ASSUME IInv, [Next]_vars, main' # main
    PROVE  \E commit \in Commits : main' = Append(main, commit) /\ UNCHANGED registry
<1> DEFINE Advances == \E commit \in Commits :
                          main' = Append(main, commit) /\ UNCHANGED registry
<1>1. ASSUME NEW p \in Proposals, NEW by \in {"person", "updater", "dependabot"},
             Mergeable(prs[p]), UNCHANGED registry,
             Advance([tree |-> HeadTree(prs[p], p), by |-> by])
      PROVE  Advances
  <2> DEFINE commit == [tree |-> HeadTree(prs[p], p), by |-> by]
  <2>1. commit \in Commits BY <1>1, MergedTree DEF Commits
  <2>2. main' = Append(main, commit) BY <1>1 DEF Advance
  <2> HIDE DEF commit
  <2> QED BY <1>1, <2>1, <2>2
<1>2. ASSUME NEW change \in Changes, ManualMerge(change) PROVE Advances
  <2> DEFINE commit == [tree |-> Changed(TipTree, change, Tip + 1), by |-> "person"]
  <2>1. Changed(TipTree, change, Tip + 1) \in Trees
    BY TipIsNat, TipTreeType, ChangedTree, ChangesAssumption
  <2>2. commit \in Commits BY <2>1 DEF Commits
  <2>3. main' = Append(main, commit) /\ UNCHANGED registry BY <1>2 DEF ManualMerge, Advance
  <2> HIDE DEF commit
  <2> QED BY <2>2, <2>3
<1> HIDE DEF Advances
<1>3. CASE Publishing
  BY <1>3 DEF Publishing, Prepare, ReadBack, PublishFails, PushAlias
<1>4. CASE Updating
  <2>1. CASE Discover BY <2>1, Zenon DEF Discover
  <2> QED BY <1>4, <2>1 DEF Updating, StartDiscovery, PushBranch, OpenRequest, UpdaterEnds
<1>5. CASE Outside
  <2>1. ASSUME NEW minors, Dispatch(minors) PROVE FALSE BY <2>1, Zenon DEF Dispatch
  <2>2. ASSUME NEW file, OpenActionUpdate(file) PROVE FALSE
    BY <2>2, Zenon DEF OpenActionUpdate
  <2>3. PICK change \in Changes : ManualMerge(change) BY <1>5, <2>1, <2>2, Zenon DEF Outside
  <2> QED BY <1>2, <2>3 DEF Advances
<1>6. ASSUME NEW p \in Proposals, Merging(p) PROVE Advances
  <2>1. PICK job \in prs[p].jobs : MergePR(p, job)
    BY <1>6 DEF Merging, SmokeEnds, Evaluate, GatePasses, JobEnds
  <2>2. prs[p].by \in {"updater", "dependabot"} BY BranchTypes DEF Branches
  <2> QED BY <1>1, <2>1, <2>2 DEF MergePR
<1>7. ASSUME NEW p \in Proposals, Reviewing(p) PROVE Advances
  BY <1>1, <1>7 DEF Reviewing, ManualMergePR, EditBranch, UpdateBranch, NewHead, ClosePR,
                    DeleteBranch, RerunSmoke, RerunJob
<1>8. CASE UNCHANGED vars BY <1>8 DEF vars
<1> QED BY <1>3, <1>4, <1>5, <1>6, <1>7, <1>8 DEF Next, Advances

\* An alias moves when it is pushed, to the commit of the request and never back.
LEMMA RegistryMoves ==
    ASSUME IInv, [Next]_vars, registry' # registry
    PROVE  \E m \in Minors, r \in Registries, i \in 1..Tip :
              /\ registry' = [registry EXCEPT ![m][r] = i]
              /\ registry[m][r] <= i
              /\ UNCHANGED main
<1>1. PICK m \in Minors, r \in Registries : PushAlias(m, r)
  BY DEF Next, Publishing, Prepare, ReadBack, PublishFails, Updating, StartDiscovery,
         Discover, PushBranch, OpenRequest, UpdaterEnds, Merging, SmokeEnds, Evaluate,
         GatePasses, MergePR, JobEnds, Reviewing, ManualMergePR, EditBranch,
         UpdateBranch, NewHead, ClosePR, DeleteBranch, RerunSmoke, RerunJob, Outside,
         ManualMerge, Dispatch, OpenActionUpdate, vars
<1>2. /\ publisher.run.source \in 1..Tip
      /\ registry[m][r] <= publisher.run.source
  BY <1>1 DEF PushAlias, IInv, PublisherInv
<1> QED BY <1>1, <1>2 DEF PushAlias

\* However publications queue up, fail or are dispatched, no alias goes back to the image
\* of an earlier commit.
THEOREM NoOlderAlias == Spec => AliasesNeverGoBack
<1>1. IInv /\ [Next]_vars =>
         [\A m \in Minors, r \in Registries : registry'[m][r] >= registry[m][r]]_registry
  <2> SUFFICES ASSUME IInv, [Next]_vars, registry' # registry
               PROVE  \A m \in Minors, r \in Registries : registry'[m][r] >= registry[m][r]
    OBVIOUS
  <2>1. PICK m \in Minors, r \in Registries, i \in 1..Tip :
           registry' = [registry EXCEPT ![m][r] = i] /\ registry[m][r] <= i
    BY RegistryMoves
  <2>2. Tip \in Nat /\ registry \in [Minors -> [Registries -> Nat]]
    BY TipIsNat DEF IInv, PublisherInv
  <2>3. \A n \in Minors, q \in Registries :
           /\ registry[n][q] \in Nat
           /\ registry'[n][q] = IF n = m /\ q = r THEN i ELSE registry[n][q]
    BY <2>1, <2>2
  <2> QED BY <2>1, <2>3
<1> QED BY Inductive, <1>1, PTL DEF Spec, AliasesNeverGoBack

-----------------------------------------------------------------------------
(***************************************************************************)
(* Main and the aliases.  Every change of a minor is asked for, given up   *)
(* on, or published; and the two aliases of a minor are of one commit, or  *)
(* are being pushed, or the minor is left to a person.                     *)
(***************************************************************************)
ChangedAt(m, k) == m \in ChangedMinors(main[k - 1].tree, main[k].tree)

Asked == {publisher.run, publisher.next} \ {NoRequest}
GivenUpOn == publisher.dropped \cup publisher.unpublished

\* A push has a commit before it.
Placed(req) == req.source \in 1..Tip /\ (req.wanted = {} => req.source >= 2)
RequestsPlaced == \A req \in Asked \cup GivenUpOn : Placed(req)

\* If main names another image than an earlier commit, it has been changed since.
ChangesFound ==
    \A m \in Minors, i \in 1..Tip :
        \/ main[i].tree.pins[m] = TipTree.pins[m]
        \/ \E k \in (i + 1)..Tip : ChangedAt(m, k)

Answered ==
    \A m \in Minors, k \in 2..Tip :
        ChangedAt(m, k) =>
            \/ Request(k, {}) \in Asked \cup GivenUpOn
            \/ \A r \in Registries : registry[m][r] >= k

Same(m) == \A r, q \in Registries : registry[m][r] = registry[m][q]
Together ==
    \A m \in Minors :
        \/ Same(m)
        \/ LeftToPerson(m)
        \/ publisher.pc = "push" /\ m \in Selected(publisher.run)

MatchInv ==
    /\ RequestsPlaced
    /\ ChangesFound
    /\ Answered
    /\ Together
    /\ publisher.pc = "push" => Selected(publisher.run) # {}
    /\ \A m \in Minors, r \in Registries : registry[m][r] >= 1

\* A request is about the same trees when main has grown.
LEMMA SameTrees ==
    ASSUME Tip \in Nat, \A i \in 1..Tip : main'[i] = main[i], NEW req, Placed(req)
    PROVE  /\ main'[req.source] = main[req.source]
           /\ req.wanted = {} => main'[req.source - 1] = main[req.source - 1]
BY DEF Placed

LEMMA SameSelected ==
    ASSUME Tip \in Nat, \A i \in 1..Tip : main'[i] = main[i], NEW req, Placed(req)
    PROVE  Selected(req)' = Selected(req) /\ Concerned(req)' = Concerned(req)
BY SameTrees DEF Selected, Concerned, PushedTree, PriorTree

LEMMA SelectedConcerned == ASSUME NEW req PROVE Selected(req) \subseteq Concerned(req)
BY DEF Selected, Concerned

\* What is left to a person stays so, until the minor is published.
LEMMA LeftStays ==
    ASSUME Tip \in Nat, \A i \in 1..Tip : main'[i] = main[i], RequestsPlaced,
           GivenUpOn \subseteq GivenUpOn', NEW m \in Minors, registry'[m] = registry[m],
           LeftToPerson(m)
    PROVE  LeftToPerson(m)'
<1>1. PICK req \in GivenUpOn :
         m \in Concerned(req) /\ \E r \in Registries : registry[m][r] < req.source
    BY DEF LeftToPerson, GivenUpOn
<1>2. Placed(req) BY <1>1 DEF RequestsPlaced
<1>3. m \in Concerned(req)' BY <1>1, <1>2, SameSelected
<1>4. req \in GivenUpOn' BY <1>1
<1> QED BY <1>1, <1>3, <1>4 DEF LeftToPerson, GivenUpOn, Registries

-----------------------------------------------------------------------------
LEMMA QueuedAsks ==
    ASSUME PublisherInv, NEW req \in Requests, req # NoRequest,
           publisher' = Queued(publisher, req)
    PROVE  /\ Asked' \cup GivenUpOn' = Asked \cup GivenUpOn \cup {req}
           /\ GivenUpOn \subseteq GivenUpOn'
           /\ publisher'.pc = "push" <=> publisher.pc = "push"
           /\ publisher.pc = "push" => publisher'.run = publisher.run
<1>1. CASE publisher.pc = "idle"
  <2>1. /\ publisher'.pc = "prepare" /\ publisher'.run = req
        /\ publisher'.next = publisher.next
        /\ publisher'.dropped = publisher.dropped
        /\ publisher'.unpublished = publisher.unpublished
    BY <1>1 DEF PublisherInv, Publishers, Queued
  <2>2. publisher.run = NoRequest BY <1>1 DEF PublisherInv
  <2> QED BY <1>1, <2>1, <2>2 DEF Asked, GivenUpOn
<1>2. CASE publisher.pc # "idle"
  <2>1. /\ publisher'.pc = publisher.pc /\ publisher'.run = publisher.run
        /\ publisher'.next = req
        /\ publisher'.dropped = IF publisher.next = NoRequest THEN publisher.dropped
                                ELSE publisher.dropped \cup {publisher.next}
        /\ publisher'.unpublished = publisher.unpublished
    BY <1>2 DEF PublisherInv, Publishers, Queued
  <2> QED BY <1>2, <2>1 DEF Asked, GivenUpOn
<1> QED BY <1>1, <1>2

LEMMA DequeuedAsks ==
    ASSUME PublisherInv, NEW pub \in Publishers, publisher' = Dequeued(pub),
           pub.run = publisher.run, pub.next = publisher.next, pub.dropped = publisher.dropped
    PROVE  /\ Asked' = {publisher.next} \ {NoRequest}
           /\ GivenUpOn' = publisher.dropped \cup pub.unpublished
           /\ publisher'.pc # "push"
<1>1. /\ publisher'.pc # "push" /\ publisher'.run = pub.next /\ publisher'.next = NoRequest
      /\ publisher'.dropped = pub.dropped /\ publisher'.unpublished = pub.unpublished
    BY DEF Publishers, Dequeued
<1> QED BY <1>1 DEF Asked, GivenUpOn

\* A run ends that was skipped or failed.
LEMMA GivenUpMatches ==
    ASSUME IInv, MatchInv, publisher.pc # "idle", publisher' = Dequeued(GivenUp),
           UNCHANGED <<main, registry>>
    PROVE  MatchInv'
<1>1. /\ GivenUp \in Publishers /\ GivenUp.run = publisher.run
      /\ GivenUp.next = publisher.next /\ GivenUp.dropped = publisher.dropped
      /\ GivenUp.unpublished = IF Concerned(publisher.run) = {} THEN publisher.unpublished
                               ELSE publisher.unpublished \cup {publisher.run}
  <2>1. publisher \in Publishers /\ publisher.run \in Requests
    BY DEF IInv, PublisherInv, Publishers
  <2> QED BY <2>1 DEF GivenUp, Publishers
<1>2. /\ Asked' = {publisher.next} \ {NoRequest}
      /\ GivenUpOn' = publisher.dropped \cup GivenUp.unpublished
      /\ publisher'.pc # "push"
    BY <1>1, DequeuedAsks DEF IInv
<1>3. publisher.run \in Asked BY DEF Asked, IInv, PublisherInv
<1>4. /\ GivenUpOn \subseteq GivenUpOn' /\ Asked' \cup GivenUpOn' \subseteq Asked \cup GivenUpOn
      /\ Concerned(publisher.run) # {} => publisher.run \in GivenUpOn'
      /\ Asked \ {publisher.run} \subseteq Asked'
    BY <1>1, <1>2, <1>3 DEF Asked, GivenUpOn
<1>5. Tip' = Tip /\ TipTree' = TipTree /\ Tip \in Nat /\ \A i \in 1..Tip : main'[i] = main[i]
    BY TipIsNat DEF Tip, TipTree
<1>6. RequestsPlaced' BY <1>4, <1>5 DEF MatchInv, RequestsPlaced, Placed
<1>7. ChangesFound' BY <1>5 DEF MatchInv, ChangesFound, ChangedAt
<1>8. Answered'
  <2> SUFFICES ASSUME NEW m \in Minors, NEW k \in 2..Tip, ChangedAt(m, k)
               PROVE  \/ Request(k, {}) \in Asked' \cup GivenUpOn'
                      \/ \A r \in Registries : registry[m][r] >= k
    BY <1>5 DEF Answered, ChangedAt
  <2>1. CASE publisher.run = Request(k, {})
    <3>1. m \in Concerned(publisher.run)
      BY <2>1 DEF Concerned, Request, PriorTree, PushedTree, ChangedAt
    <3> QED BY <1>4, <2>1, <3>1
  <2>2. CASE publisher.run # Request(k, {})
    BY <1>4, <2>2 DEF MatchInv, Answered
  <2> QED BY <2>1, <2>2
<1>9. Together'
  <2> SUFFICES ASSUME NEW m \in Minors, ~ Same(m) PROVE LeftToPerson(m)'
    BY DEF Together, Same
  <2>1. CASE LeftToPerson(m) BY <1>4, <1>5, <2>1, LeftStays DEF MatchInv
  <2>2. CASE publisher.pc = "push" /\ m \in Selected(publisher.run)
    <3>1. m \in Concerned(publisher.run) BY <2>2, SelectedConcerned
    <3>2. \A r \in Registries :
             registry[m][r] \in Nat /\ registry[m][r] <= publisher.run.source
      BY DEF IInv, PublisherInv
    <3>3. publisher.run.source \in Nat BY DEF IInv, PublisherInv
    <3>4. \E r \in Registries : registry[m][r] < publisher.run.source
      BY <3>2, <3>3 DEF Same
    <3>5. publisher.run \in GivenUpOn' BY <1>4, <3>1
    <3> QED BY <3>1, <3>4, <3>5 DEF LeftToPerson, GivenUpOn, Concerned, PriorTree, PushedTree
  <2> QED BY <2>1, <2>2 DEF MatchInv, Together
<1> QED BY <1>2, <1>6, <1>7, <1>8, <1>9 DEF MatchInv

\* A run ends whose minors are published.
LEMMA ReadBackMatches == ASSUME IInv, MatchInv, ReadBack PROVE MatchInv'
<1> DEFINE req == publisher.run
<1>1. /\ publisher.pc = "push" /\ publisher' = Dequeued(publisher)
      /\ \A m \in Selected(req), r \in Registries : registry[m][r] = req.source
      /\ UNCHANGED <<main, registry>>
    BY DEF ReadBack
<1>2. /\ Asked' = {publisher.next} \ {NoRequest} /\ GivenUpOn' = GivenUpOn
      /\ publisher'.pc # "push"
    BY <1>1, DequeuedAsks DEF IInv, PublisherInv, GivenUpOn
<1>3. Asked' \subseteq Asked /\ Asked \ {req} \subseteq Asked'
    BY <1>2 DEF Asked
<1>4. Tip' = Tip /\ TipTree' = TipTree /\ Tip \in Nat /\ \A i \in 1..Tip : main'[i] = main[i]
    BY <1>1, TipIsNat DEF Tip, TipTree
<1>5. RequestsPlaced' BY <1>2, <1>3, <1>4 DEF MatchInv, RequestsPlaced, Placed
<1>6. ChangesFound' BY <1>1, <1>4 DEF MatchInv, ChangesFound, ChangedAt
<1>7. Answered'
  <2> SUFFICES ASSUME NEW m \in Minors, NEW k \in 2..Tip, ChangedAt(m, k)
               PROVE  \/ Request(k, {}) \in Asked' \cup GivenUpOn'
                      \/ \A r \in Registries : registry[m][r] >= k
    BY <1>1, <1>4 DEF Answered, ChangedAt
  <2>1. CASE req = Request(k, {})
    <3>1. req.source = k /\ req.wanted = {} BY <2>1 DEF Request
    <3>2. Selected(req) # {} BY <1>1 DEF MatchInv
    <3>3. m \in Selected(req)
      BY <3>1, <3>2 DEF Selected, PriorTree, PushedTree, ChangedAt
    <3> QED BY <1>1, <3>1, <3>3
  <2>2. CASE req # Request(k, {})
    BY <1>2, <1>3, <2>2 DEF MatchInv, Answered
  <2> QED BY <2>1, <2>2
<1>8. Together'
  <2> SUFFICES ASSUME NEW m \in Minors, ~ Same(m) PROVE LeftToPerson(m)'
    BY <1>1 DEF Together, Same
  <2>1. m \notin Selected(req) BY <1>1 DEF Same
  <2>2. LeftToPerson(m) BY <2>1 DEF MatchInv, Together
  <2> QED BY <1>1, <1>2, <1>4, <2>2, LeftStays DEF MatchInv
<1> QED BY <1>1, <1>2, <1>5, <1>6, <1>7, <1>8 DEF MatchInv

LEMMA PublishingMatches == ASSUME IInv, MatchInv, Publishing PROVE MatchInv'
<1>1. Tip \in Nat BY TipIsNat
<1>2. CASE Prepare /\ publisher' = [publisher EXCEPT !.pc = "push"]
  <2>1. /\ publisher'.pc = "push" /\ publisher'.run = publisher.run
        /\ publisher'.next = publisher.next /\ publisher'.dropped = publisher.dropped
        /\ publisher'.unpublished = publisher.unpublished
        /\ publisher.pc = "prepare" /\ UNCHANGED <<main, registry>>
    BY <1>2 DEF Prepare, IInv, PublisherInv, Publishers
  <2>2. Selected(publisher.run) # {}
    <3>1. CASE publisher' = Dequeued(GivenUp)
      <4>1. Dequeued(GivenUp).pc \in {"idle", "prepare"}
        BY DEF Dequeued, GivenUp, IInv, PublisherInv, Publishers
      <4> QED BY <2>1, <3>1, <4>1
    <3> QED BY <1>2, <3>1 DEF Prepare
  <2>3. /\ Asked' = Asked /\ GivenUpOn' = GivenUpOn /\ Tip' = Tip /\ TipTree' = TipTree
        /\ \A i \in 1..Tip : main'[i] = main[i]
    BY <2>1 DEF Asked, GivenUpOn, Tip, TipTree
  <2>4. RequestsPlaced' BY <2>3 DEF MatchInv, RequestsPlaced, Placed
  <2>5. ChangesFound' BY <2>1, <2>3 DEF MatchInv, ChangesFound, ChangedAt
  <2>6. Answered' BY <2>1, <2>3 DEF MatchInv, Answered, ChangedAt
  <2>7. Together'
    <3> SUFFICES ASSUME NEW m \in Minors, ~ Same(m) PROVE LeftToPerson(m)'
      BY <2>1 DEF Together, Same
    <3>1. LeftToPerson(m) BY <2>1 DEF MatchInv, Together
    <3> QED BY <1>1, <2>1, <2>3, <3>1, LeftStays DEF MatchInv
  <2>8. Selected(publisher.run)' = Selected(publisher.run)
    BY <2>1 DEF Selected, PriorTree, PushedTree
  <2> QED BY <2>1, <2>2, <2>4, <2>5, <2>6, <2>7, <2>8 DEF MatchInv
<1>3. ASSUME NEW m \in Minors, NEW r \in Registries, PushAlias(m, r) PROVE MatchInv'
  <2>1. /\ publisher'.pc = "push" /\ publisher'.run = publisher.run
        /\ publisher'.next = publisher.next /\ publisher'.dropped = publisher.dropped
        /\ publisher'.unpublished = publisher.unpublished
        /\ publisher.pc = "push" /\ UNCHANGED main
    BY <1>3 DEF PushAlias, IInv, PublisherInv, Publishers
  <2>2. m \in Selected(publisher.run) /\ publisher.run.source \in 1..Tip
    BY <1>3, <2>1 DEF PushAlias, IInv, PublisherInv
  <2>3. /\ \A n \in Minors, q \in Registries :
              /\ registry[n][q] \in Nat /\ registry'[n][q] \in Nat
              /\ registry'[n][q] >= registry[n][q]
        /\ \A n \in Minors \ {m} : registry'[n] = registry[n]
    BY <1>3, <2>1, <2>2 DEF PushAlias, IInv, PublisherInv
  <2>4. /\ Asked' = Asked /\ GivenUpOn' = GivenUpOn /\ Tip' = Tip /\ TipTree' = TipTree
        /\ \A i \in 1..Tip : main'[i] = main[i]
    BY <2>1 DEF Asked, GivenUpOn, Tip, TipTree
  <2>5. RequestsPlaced' BY <2>4 DEF MatchInv, RequestsPlaced, Placed
  <2>6. ChangesFound' BY <2>1, <2>4 DEF MatchInv, ChangesFound, ChangedAt
  <2>7. Answered'
    <3> SUFFICES ASSUME NEW n \in Minors, NEW k \in 2..Tip, ChangedAt(n, k),
                        NEW q \in Registries, Request(k, {}) \notin Asked \cup GivenUpOn
                 PROVE  registry'[n][q] >= k
      BY <2>1, <2>4 DEF Answered, ChangedAt
    <3>1. registry[n][q] >= k BY DEF MatchInv, Answered
    <3> QED BY <1>1, <2>3, <3>1
  <2>8. Selected(publisher.run)' = Selected(publisher.run)
    BY <2>1 DEF Selected, PriorTree, PushedTree
  <2>9. Together'
    <3> SUFFICES ASSUME NEW n \in Minors
                 PROVE  Same(n)' \/ LeftToPerson(n)' \/ n \in Selected(publisher.run)
      BY <2>1, <2>8 DEF Together
    <3>1. CASE n = m BY <2>2, <3>1
    <3>2. CASE n # m
      <4>1. registry'[n] = registry[n] BY <2>3, <3>2
      <4>2. CASE LeftToPerson(n) BY <1>1, <2>4, <4>1, <4>2, LeftStays DEF MatchInv
      <4>3. CASE Same(n) BY <4>1, <4>3 DEF Same
      <4> QED BY <4>2, <4>3 DEF MatchInv, Together
    <3> QED BY <3>1, <3>2
  <2>10. \A n \in Minors, q \in Registries : registry'[n][q] >= 1 BY <2>3 DEF MatchInv
  <2> QED BY <2>1, <2>2, <2>5, <2>6, <2>7, <2>8, <2>9, <2>10 DEF MatchInv
<1>4. CASE ReadBack BY <1>4, ReadBackMatches
<1>5. CASE publisher.pc # "idle" /\ publisher' = Dequeued(GivenUp) /\ UNCHANGED <<main, registry>>
  BY <1>5, GivenUpMatches
<1> QED BY <1>2, <1>3, <1>4, <1>5 DEF Publishing, Prepare, PublishFails

\* A request is queued: for a push to main or by a person.
LEMMA QueuedMatches ==
    ASSUME IInv, MatchInv, NEW req \in Requests, publisher' = Queued(publisher, req),
           Tip' \in Nat, Tip <= Tip', \A i \in 1..Tip : main'[i] = main[i], UNCHANGED registry,
           Placed(req)', ChangesFound',
           \A m \in Minors, k \in (Tip + 1)..Tip' : ChangedAt(m, k)' => req = Request(k, {})
    PROVE  MatchInv'
<1>1. Tip \in Nat BY TipIsNat
<1>2. req # NoRequest BY RequestTypes DEF Placed
<1>3. /\ Asked' \cup GivenUpOn' = Asked \cup GivenUpOn \cup {req}
      /\ GivenUpOn \subseteq GivenUpOn'
      /\ publisher'.pc = "push" <=> publisher.pc = "push"
      /\ publisher.pc = "push" => publisher'.run = publisher.run
    BY <1>2, QueuedAsks DEF IInv
<1>4. RequestsPlaced'
  <2>1. \A x \in Asked \cup GivenUpOn : Placed(x)' BY <1>1 DEF MatchInv, RequestsPlaced, Placed
  <2> QED BY <1>3, <2>1 DEF RequestsPlaced, Placed
<1>5. Answered'
  <2> SUFFICES ASSUME NEW m \in Minors, NEW k \in 2..Tip', ChangedAt(m, k)'
               PROVE  \/ Request(k, {}) \in Asked' \cup GivenUpOn'
                      \/ \A r \in Registries : registry[m][r] >= k
    BY DEF Answered, ChangedAt
  <2>1. CASE k \in 2..Tip
    <3>1. k \in 1..Tip /\ k - 1 \in 1..Tip BY <1>1, <2>1
    <3>2. ChangedAt(m, k) BY <3>1 DEF ChangedAt
    <3> QED BY <1>3, <2>1, <3>2 DEF MatchInv, Answered
  <2>2. CASE k \in (Tip + 1)..Tip' BY <1>3, <2>2
  <2> QED BY <1>1, <2>1, <2>2
<1>6. publisher.pc = "push" => Selected(publisher.run)' = Selected(publisher.run)
  <2> SUFFICES ASSUME publisher.pc = "push"
               PROVE  Selected(publisher.run)' = Selected(publisher.run)
    OBVIOUS
  <2>1. publisher.run \in Asked BY DEF Asked, IInv, PublisherInv
  <2>2. Placed(publisher.run) BY <2>1 DEF MatchInv, RequestsPlaced
  <2>3. publisher'.run = publisher.run BY <1>3
  <2> QED BY <1>1, <2>2, <2>3, SameTrees DEF Selected, PriorTree, PushedTree
<1>7. Together'
  <2> SUFFICES ASSUME NEW m \in Minors
               PROVE  \/ Same(m)' \/ LeftToPerson(m)'
                      \/ publisher.pc = "push" /\ m \in Selected(publisher.run)'
    BY <1>3 DEF Together
  <2>1. CASE LeftToPerson(m) BY <1>1, <1>3, <2>1, LeftStays DEF MatchInv
  <2>2. CASE Same(m) BY <2>2 DEF Same
  <2>3. CASE publisher.pc = "push" /\ m \in Selected(publisher.run) BY <1>6, <2>3
  <2> QED BY <2>1, <2>2, <2>3 DEF MatchInv, Together
<1> QED BY <1>3, <1>4, <1>5, <1>6, <1>7 DEF MatchInv

\* What main has of a commit more: the changes are those of the commit.
LEMMA ChangesStayFound ==
    ASSUME IInv, MatchInv, NEW commit \in Commits, main' = Append(main, commit)
    PROVE  ChangesFound'
<1>1. /\ Tip' = Tip + 1 /\ Tip \in Nat /\ Tip >= 1 /\ Tip \in 1..Tip
      /\ \A i \in 1..Tip : main'[i] = main[i]
      /\ main'[Tip + 1] = commit
    BY MainGrows, TipIsNat DEF IInv
<1>2. TipTree' = commit.tree BY <1>1 DEF TipTree
<1> SUFFICES ASSUME NEW m \in Minors, NEW i \in 1..(Tip + 1),
                    main'[i].tree.pins[m] # commit.tree.pins[m]
             PROVE  \E k \in (i + 1)..(Tip + 1) : ChangedAt(m, k)'
    BY <1>1, <1>2 DEF ChangesFound
<1>3. i \in 1..Tip
  <2>1. i # Tip + 1 BY <1>1
  <2> QED BY <1>1, <2>1
<1>4. CASE main[i].tree.pins[m] = TipTree.pins[m]
  <2>1. PICK k \in (i + 1)..(Tip + 1) : k = Tip + 1 BY <1>1, <1>3
  <2>2. k - 1 = Tip BY <1>1, <2>1
  <2>3. main'[k] = commit /\ main'[k - 1] = main[Tip] BY <1>1, <2>1, <2>2
  <2>4. main'[i] = main[i] BY <1>1, <1>3
  <2>5. main[Tip].tree.pins[m] # commit.tree.pins[m] BY <1>4, <2>4 DEF TipTree
  <2>6. ChangedAt(m, k)' BY <1>1, <1>3, <2>1, <2>3, <2>5 DEF ChangedAt, ChangedMinors
  <2> QED BY <2>6
<1>5. CASE main[i].tree.pins[m] # TipTree.pins[m]
  <2>1. PICK k \in (i + 1)..Tip : ChangedAt(m, k) BY <1>3, <1>5 DEF MatchInv, ChangesFound
  <2>2. k \in 1..Tip /\ k - 1 \in 1..Tip /\ k \in (i + 1)..(Tip + 1) BY <1>1, <1>3, <2>1
  <2>3. ChangedAt(m, k)' BY <1>1, <2>1, <2>2 DEF ChangedAt
  <2> QED BY <2>2, <2>3
<1> QED BY <1>4, <1>5

LEMMA AdvanceMatches ==
    ASSUME IInv, MatchInv, NEW commit \in Commits, Advance(commit), UNCHANGED registry
    PROVE  MatchInv'
<1>1. main' = Append(main, commit) BY DEF Advance
<1>2. /\ Tip' = Tip + 1 /\ Tip \in Nat /\ Tip >= 1
      /\ \A i \in 1..Tip : main'[i] = main[i]
      /\ main'[Tip + 1] = commit
    BY <1>1, MainGrows, TipIsNat DEF IInv
<1>3. ChangesFound' BY <1>1, ChangesStayFound
<1>4. CASE publisher' = Queued(publisher, Request(Tip + 1, {}))
  <2>0. /\ Request(Tip + 1, {}) \in Requests /\ Request(Tip + 1, {}).source = Tip + 1
    BY <1>2 DEF Request, Requests
  <2>1. PICK req \in Requests : req = Request(Tip + 1, {}) /\ req.source = Tip + 1
    BY <2>0
  <2>2. Placed(req)' BY <1>2, <2>1 DEF Placed
  <2>3. \A k \in (Tip + 1)..Tip' : k = Tip + 1 BY <1>2
  <2>4. publisher' = Queued(publisher, req) BY <1>4, <2>1
  <2>5. \A n \in Minors, k \in (Tip + 1)..Tip' : ChangedAt(n, k)' => req = Request(k, {})
    BY <2>1, <2>3
  <2>6. Tip' \in Nat /\ Tip <= Tip' BY <1>2
  <2> QED BY <1>2, <1>3, <2>2, <2>4, <2>5, <2>6, QueuedMatches
<1>5. CASE publisher' = publisher /\ commit.tree.pins = TipTree.pins
  <2>1. Asked' = Asked /\ GivenUpOn' = GivenUpOn BY <1>5 DEF Asked, GivenUpOn
  <2>2. RequestsPlaced' BY <1>2, <2>1 DEF MatchInv, RequestsPlaced, Placed
  <2>3. Answered'
    <3> SUFFICES ASSUME NEW m \in Minors, NEW k \in 2..Tip', ChangedAt(m, k)'
                 PROVE  \/ Request(k, {}) \in Asked \cup GivenUpOn
                        \/ \A r \in Registries : registry[m][r] >= k
      BY <2>1 DEF Answered, ChangedAt
    <3>1. CASE k = Tip + 1
      <4>1. main'[k] = commit /\ main'[k - 1] = main[Tip] BY <1>2, <3>1
      <4> QED BY <1>5, <4>1 DEF ChangedAt, ChangedMinors, TipTree
    <3>2. CASE k # Tip + 1
      <4>1. k \in 2..Tip /\ k \in 1..Tip /\ k - 1 \in 1..Tip BY <1>2, <3>2
      <4>2. ChangedAt(m, k) BY <1>2, <4>1 DEF ChangedAt
      <4> QED BY <4>1, <4>2 DEF MatchInv, Answered
    <3> QED BY <3>1, <3>2
  <2>4. publisher.pc = "push" => Selected(publisher.run)' = Selected(publisher.run)
    <3> SUFFICES ASSUME publisher.pc = "push"
                 PROVE  Selected(publisher.run)' = Selected(publisher.run)
      OBVIOUS
    <3>1. publisher.run \in Asked BY DEF Asked, IInv, PublisherInv
    <3>2. Placed(publisher.run) BY <3>1 DEF MatchInv, RequestsPlaced
    <3> QED BY <1>2, <1>5, <3>2, SameTrees DEF Selected, PriorTree, PushedTree
  <2>5. Together'
    <3> SUFFICES ASSUME NEW m \in Minors
                 PROVE  \/ Same(m)' \/ LeftToPerson(m)'
                        \/ publisher.pc = "push" /\ m \in Selected(publisher.run)'
      BY <1>5 DEF Together
    <3>1. CASE LeftToPerson(m) BY <1>2, <2>1, <3>1, LeftStays DEF MatchInv
    <3>2. CASE Same(m) BY <3>2 DEF Same
    <3>3. CASE publisher.pc = "push" /\ m \in Selected(publisher.run) BY <2>4, <3>3
    <3> QED BY <3>1, <3>2, <3>3 DEF MatchInv, Together
  <2> QED BY <1>3, <1>5, <2>2, <2>3, <2>4, <2>5 DEF MatchInv
<1> QED BY <1>4, <1>5 DEF Advance

\* Every other step leaves main, the publisher and the aliases alone.
LEMMA OthersMatch ==
    ASSUME IInv, MatchInv, UNCHANGED <<main, publisher, registry>> PROVE MatchInv'
<1>1. Asked' = Asked /\ GivenUpOn' = GivenUpOn /\ Tip' = Tip /\ TipTree' = TipTree
  BY DEF Asked, GivenUpOn, Tip, TipTree
<1>2. RequestsPlaced' BY <1>1 DEF MatchInv, RequestsPlaced, Placed
<1>3. ChangesFound' BY <1>1 DEF MatchInv, ChangesFound, ChangedAt
<1>4. Answered' BY <1>1 DEF MatchInv, Answered, ChangedAt
<1>5. Selected(publisher.run)' = Selected(publisher.run) BY DEF Selected, PriorTree, PushedTree
<1>6. Together'
  BY <1>5 DEF MatchInv, Together, Same, LeftToPerson, Concerned, PriorTree, PushedTree
<1> QED BY <1>2, <1>3, <1>4, <1>5, <1>6 DEF MatchInv

\* The commits that reach main.
LEMMA MergesMatch ==
    ASSUME IInv, MatchInv, NEW p \in Proposals, Merging(p) \/ Reviewing(p) PROVE MatchInv'
<1>1. ASSUME NEW by \in {"person", "updater", "dependabot"}, Mergeable(prs[p]),
             UNCHANGED registry, Advance([tree |-> HeadTree(prs[p], p), by |-> by])
      PROVE  MatchInv'
  <2>1. [tree |-> HeadTree(prs[p], p), by |-> by] \in Commits
    BY <1>1, MergedTree DEF Commits
  <2> QED BY <1>1, <2>1, AdvanceMatches
<1>2. \/ UNCHANGED <<main, publisher, registry>>
      \/ ManualMergePR(p) \/ \E job \in prs[p].jobs : MergePR(p, job)
  <2>1. CASE Merging(p)
    <3>1. CASE SmokeEnds(p) BY <3>1 DEF SmokeEnds
    <3>2. ASSUME NEW job \in prs[p].jobs, Evaluate(p, job) \/ GatePasses(p, job) \/ JobEnds(p, job)
          PROVE  UNCHANGED <<main, publisher, registry>>
      BY <3>2 DEF Evaluate, GatePasses, JobEnds
    <3> QED BY <2>1, <3>1, <3>2 DEF Merging
  <2>2. CASE Reviewing(p)
    <3>1. CASE \E change \in Changes : EditBranch(p, change) BY <3>1 DEF EditBranch, NewHead
    <3>2. CASE UpdateBranch(p) BY <3>2 DEF UpdateBranch, NewHead
    <3>3. CASE ClosePR(p) \/ DeleteBranch(p) \/ RerunSmoke(p) \/ RerunJob(p)
      BY <3>3 DEF ClosePR, DeleteBranch, RerunSmoke, RerunJob
    <3> QED BY <2>2, <3>1, <3>2, <3>3 DEF Reviewing
  <2> QED BY <2>1, <2>2
<1>3. prs[p].by \in {"updater", "dependabot"} BY BranchTypes DEF Branches
<1> QED BY <1>1, <1>2, <1>3, OthersMatch DEF ManualMergePR, MergePR

LEMMA OutsideMatches == ASSUME IInv, MatchInv, Outside PROVE MatchInv'
<1>1. Tip \in Nat /\ Tip >= 1 /\ Tip \in 1..Tip BY TipIsNat
<1>2. ASSUME NEW change \in Changes, ManualMerge(change) PROVE MatchInv'
  <2> DEFINE tree == Changed(TipTree, change, Tip + 1)
  <2>1. tree \in Trees BY <1>1, TipTreeType, ChangedTree, ChangesAssumption
  <2>2. [tree |-> tree, by |-> "person"] \in Commits BY <2>1 DEF Commits
  <2> QED BY <1>2, <2>2, AdvanceMatches DEF ManualMerge
<1>3. ASSUME NEW minors \in {Minors} \cup {{m} : m \in Minors}, Dispatch(minors) PROVE MatchInv'
  <2>1. minors # {} /\ minors \in SUBSET Minors BY LastMinorAssumption
  <2>2. UNCHANGED <<main, registry>> /\ Tip' = Tip /\ TipTree' = TipTree
    BY <1>3 DEF Dispatch, Tip, TipTree
  <2>3. Request(Tip, minors) \in Requests /\ Request(Tip, minors).source = Tip
        /\ Request(Tip, minors).wanted = minors
    BY <1>1, <2>1 DEF Request, Requests
  <2>4. Placed(Request(Tip, minors))' BY <1>1, <2>1, <2>2, <2>3 DEF Placed
  <2>5. ChangesFound' BY <2>2 DEF MatchInv, ChangesFound, ChangedAt
  <2>6. \A k \in (Tip + 1)..Tip' : FALSE BY <1>1, <2>2
  <2> QED BY <1>1, <1>3, <2>2, <2>3, <2>4, <2>5, <2>6, QueuedMatches DEF Dispatch
<1>4. ASSUME NEW file, OpenActionUpdate(file) PROVE MatchInv'
  BY <1>4, OthersMatch DEF OpenActionUpdate
<1> QED BY <1>2, <1>3, <1>4 DEF Outside

LEMMA MatchAlways == Spec => [](IInv /\ MatchInv)
<1>1. Init => IInv /\ MatchInv
  <2> SUFFICES ASSUME Init PROVE MatchInv BY Initially
  <2>1. Tip = 1 BY DEF Init, Tip
  <2>2. /\ publisher.run = NoRequest /\ publisher.next = NoRequest /\ publisher.pc = "idle"
        /\ publisher.dropped = {} /\ publisher.unpublished = {}
    BY DEF Init, IdlePublisher
  <2>3. RequestsPlaced BY <2>2 DEF RequestsPlaced, Asked, GivenUpOn
  <2>4. ChangesFound BY <2>1 DEF ChangesFound, TipTree
  <2>5. Answered BY <2>1 DEF Answered
  <2>6. \A m \in Minors, r \in Registries : registry[m][r] = 1 BY DEF Init
  <2> QED BY <2>2, <2>3, <2>4, <2>5, <2>6 DEF MatchInv, Together, Same
<1>2. (IInv /\ MatchInv) /\ [Next]_vars => (IInv /\ MatchInv)'
  <2> SUFFICES ASSUME IInv, MatchInv, [Next]_vars PROVE IInv' /\ MatchInv' OBVIOUS
  <2>1. IInv'
    BY PublishingSteps, UpdatingSteps, MergingSteps, ReviewingSteps, OutsideSteps,
       StutteringSteps DEF Next
  <2>2. CASE Updating \/ UNCHANGED vars
    <3>1. CASE StartDiscovery BY <2>1, <3>1, OthersMatch DEF StartDiscovery
    <3>2. CASE Discover
      <4>1. UNCHANGED <<main, publisher, registry>> BY <3>2, Zenon DEF Discover
      <4> QED BY <2>1, <4>1, OthersMatch
    <3>3. CASE PushBranch BY <2>1, <3>3, OthersMatch DEF PushBranch
    <3>4. CASE OpenRequest BY <2>1, <3>4, OthersMatch DEF OpenRequest
    <3>5. CASE UpdaterEnds BY <2>1, <3>5, OthersMatch DEF UpdaterEnds
    <3>6. CASE UNCHANGED vars BY <2>1, <3>6, OthersMatch DEF vars
    <3> QED BY <2>2, <3>1, <3>2, <3>3, <3>4, <3>5, <3>6 DEF Updating
  <2> QED BY <2>1, <2>2, PublishingMatches, MergesMatch, OutsideMatches DEF Next
<1> QED BY <1>1, <1>2, PTL DEF Spec

\* Whenever the publisher rests, the two aliases of a minor are of one commit that names
\* the image main names, unless a publication of the minor was skipped, cancelled or broken
\* off and a person has to act: for any number of minors and pushes.
THEOREM AliasesMatch == Spec => []AliasesMatchMain
<1>1. IInv /\ MatchInv => AliasesMatchMain
  <2> SUFFICES ASSUME IInv, MatchInv, publisher.pc = "idle", NEW m \in Minors,
                      ~ LeftToPerson(m)
               PROVE  \E i \in 1..Tip :
                         /\ registry[m] = [r \in Registries |-> i]
                         /\ main[i].tree.pins[m] = TipTree.pins[m]
    BY DEF AliasesMatchMain
  <2> DEFINE i == registry[m]["ghcr"]
  <2>1. Tip \in Nat /\ registry[m] \in [Registries -> Nat] BY TipIsNat DEF IInv, PublisherInv
  <2>2. Same(m) BY DEF MatchInv, Together
  <2>3. registry[m] = [r \in Registries |-> i] BY <2>1, <2>2 DEF Same, Registries
  <2>4. i \in 1..Tip BY <2>1 DEF IInv, PublisherInv, MatchInv, Registries
  <2>5. ASSUME NEW k \in (i + 1)..Tip, ChangedAt(m, k) PROVE FALSE
    <3>1. k \in 2..Tip /\ k > i BY <2>1, <2>4, <2>5
    <3>2. Request(k, {}) \notin Asked
      BY <2>4 DEF Asked, IInv, PublisherInv
    <3>3. Request(k, {}) \in GivenUpOn
      BY <2>1, <2>5, <3>1, <3>2 DEF MatchInv, Answered, Registries
    <3>4. m \in Concerned(Request(k, {})) /\ Request(k, {}).source = k
      BY <2>5 DEF Concerned, Request, PriorTree, PushedTree, ChangedAt
    <3> QED BY <2>1, <3>1, <3>3, <3>4 DEF LeftToPerson, GivenUpOn, Registries
  <2>6. main[i].tree.pins[m] = TipTree.pins[m] BY <2>4, <2>5 DEF MatchInv, ChangesFound
  <2> QED BY <2>3, <2>4, <2>6
<1> QED BY MatchAlways, <1>1, PTL
-----------------------------------------------------------------------------
(***************************************************************************)
(* From merge to alias: the pipeline implements Delivery.  If main names   *)
(* an older patch than an earlier commit, it was set back in between.      *)
(***************************************************************************)
RollbacksFound ==
    \A m \in Minors, i, k \in 1..Tip :
        i <= k => \/ main[i].tree.pins[m].patch <= main[k].tree.pins[m].patch
                  \/ \E j \in (i + 1)..k : SetBack(m, j)

BackInv == IInv /\ MatchInv /\ RollbacksFound

\* Every commit has patches, and one the updater proposed has no older ones.
LEMMA CommitPatches ==
    ASSUME IInv, IInv', NEW commit \in Commits, main' = Append(main, commit)
    PROVE  /\ \A m \in Minors : /\ TipTree.pins[m].patch \in Nat
                                /\ commit.tree.pins[m] \in Pins
                                /\ commit.tree.pins[m].patch \in Nat
           /\ commit.by = "updater" =>
                 \A m \in Minors : TipTree.pins[m].patch <= commit.tree.pins[m].patch
<1>1. /\ Tip' = Tip + 1 /\ Tip \in 1..Tip /\ Tip \in Nat
      /\ main'[Tip] = main[Tip] /\ main'[Tip + 1] = commit
    BY MainGrows, TipIsNat DEF IInv
<1>2. \A m \in Minors : TipTree.pins[m].patch \in Nat BY <1>1, PinTypes DEF TipTree
<1>3. \A m \in Minors : commit.tree.pins[m] \in Pins BY DEF Commits, Trees
<1>4. \A m \in Minors : commit.tree.pins[m].patch \in Nat BY <1>3, PinsAssumption
<1>5. ASSUME commit.by = "updater", NEW m \in Minors
      PROVE  TipTree.pins[m].patch <= commit.tree.pins[m].patch
  <2>1. Tip + 1 \in 2..Tip' /\ (Tip + 1) - 1 = Tip BY <1>1
  <2>2. Accepted("updater", TipTree, commit.tree)
    BY <1>1, <1>5, <2>1 DEF IInv, MainInv, AutoMergeIsEligible, TipTree
  <2>3. NotOlder(TipTree.pins[m], commit.tree.pins[m]) BY <2>2 DEF Accepted, Eligible
  <2> QED BY <1>2, <1>4, <2>3 DEF NotOlder
<1> QED BY <1>2, <1>3, <1>4, <1>5

LEMMA BackKept == ASSUME BackInv, [Next]_vars, IInv', MatchInv' PROVE BackInv'
<1>1. CASE main' = main BY <1>1 DEF BackInv, RollbacksFound, Tip, SetBack
<1>2. CASE main' # main
  <2>1. PICK commit \in Commits : main' = Append(main, commit)
    BY <1>2, MainAdvances DEF BackInv
  <2>2. /\ Tip' = Tip + 1 /\ Tip \in 1..Tip /\ Tip \in Nat
        /\ \A i \in 1..Tip : main'[i] = main[i]
        /\ main'[Tip + 1] = commit
    BY <2>1, MainGrows, TipIsNat DEF BackInv, IInv
  <2>3. \A m \in Minors, j \in 2..Tip : SetBack(m, j) => SetBack(m, j)'
    <3> SUFFICES ASSUME NEW m \in Minors, NEW j \in 2..Tip, SetBack(m, j)
                 PROVE  SetBack(m, j)'
      OBVIOUS
    <3>1. j \in 1..Tip /\ j - 1 \in 1..Tip BY <2>2
    <3> QED BY <2>2, <3>1 DEF SetBack
  <2> SUFFICES ASSUME NEW m \in Minors, NEW i \in 1..Tip', NEW k \in 1..Tip', i <= k,
                      ~ (main'[i].tree.pins[m].patch <= main'[k].tree.pins[m].patch)
               PROVE  \E j \in (i + 1)..k : SetBack(m, j)'
    BY DEF BackInv, RollbacksFound
  <2>4. \A j \in 1..Tip : main[j].tree.pins[m].patch \in Nat BY PinTypes DEF BackInv
  <2>5. CASE k \in 1..Tip
    <3>1. i \in 1..Tip BY <2>2, <2>5
    <3>2. PICK j \in (i + 1)..k : SetBack(m, j)
      BY <2>2, <2>5, <3>1 DEF BackInv, RollbacksFound
    <3>3. j \in 2..Tip BY <2>2, <2>5, <3>1, <3>2
    <3> QED BY <2>3, <3>2, <3>3
  <2>6. CASE k = Tip + 1 /\ i \in 1..Tip
    <3>1. main'[i] = main[i] /\ main'[k] = commit BY <2>2, <2>6
    <3>2. TipTree.pins[m].patch \in Nat /\ commit.tree.pins[m].patch \in Nat
      BY <2>1, CommitPatches DEF BackInv
    <3>3. CASE main[i].tree.pins[m].patch <= TipTree.pins[m].patch
      <4>1. commit.tree.pins[m].patch < TipTree.pins[m].patch
        BY <2>4, <2>6, <3>1, <3>2, <3>3
      <4>2. commit.by # "updater" BY <2>1, <3>2, <4>1, CommitPatches DEF BackInv
      <4>3. (Tip + 1) - 1 = Tip /\ main'[Tip] = main[Tip] /\ Tip + 1 \in (i + 1)..k
        BY <2>2, <2>6
      <4>4. PICK j \in (i + 1)..k : j = Tip + 1 BY <4>3
      <4> QED BY <2>2, <4>1, <4>2, <4>3, <4>4 DEF SetBack, TipTree
    <3>4. CASE ~ (main[i].tree.pins[m].patch <= TipTree.pins[m].patch)
      <4>1. PICK j \in (i + 1)..Tip : SetBack(m, j)
        BY <2>2, <2>6, <3>4 DEF BackInv, RollbacksFound, TipTree
      <4>2. j \in 2..Tip /\ j \in (i + 1)..k BY <2>2, <2>6, <4>1
      <4> QED BY <2>3, <4>1, <4>2
    <3> QED BY <3>3, <3>4
  <2>7. CASE i = k
    <3>1. main'[i] \in Commits BY DEF IInv, MainInv, Tip
    <3>2. main'[i].tree.pins[m] \in Pins BY <3>1 DEF Commits, Trees
    <3>3. main'[i].tree.pins[m].patch \in Nat BY <3>2, PinsAssumption
    <3> QED BY <2>7, <3>3
  <2> QED BY <2>2, <2>5, <2>6, <2>7
<1> QED BY <1>1, <1>2

LEMMA BackAlways == Spec => []BackInv
<1>1. Init => RollbacksFound
  <2> SUFFICES ASSUME Init PROVE RollbacksFound OBVIOUS
  <2>1. Tip = 1 /\ \A m \in Minors : main[1].tree.pins[m] = FirstPin BY DEF Init, Tip
  <2> QED BY <2>1 DEF RollbacksFound, FirstPin
<1>2. BackInv /\ [Next]_vars /\ (IInv /\ MatchInv)' => BackInv' BY BackKept
<1>3. BackInv <=> IInv /\ MatchInv /\ RollbacksFound BY DEF BackInv
<1> QED BY <1>1, <1>2, <1>3, MatchAlways, PTL DEF Spec

\* What an alias shows is what main pinned in the commit it was built from.
LEMMA ShowsPins ==
    ASSUME IInv, MatchInv
    PROVE  /\ \A i \in 1..Tip, m \in Minors :
                 PatchOf(main[i].tree.pins[m].digest) = main[i].tree.pins[m].patch
           /\ \A m \in Minors, r \in Registries :
                 /\ registry[m][r] \in 1..Tip
                 /\ PatchesShown[m][r] = main[registry[m][r]].tree.pins[m].patch
<1>1. \A i \in 1..Tip, m \in Minors :
         PatchOf(main[i].tree.pins[m].digest) = main[i].tree.pins[m].patch
  BY DEF IInv, MainInv, PinsAreReal, Real
<1>2. \A m \in Minors, r \in Registries : registry[m][r] \in 1..Tip
  BY TipIsNat DEF IInv, PublisherInv, MatchInv
<1>3. \A m \in Minors, r \in Registries :
         PatchesShown[m][r] = PatchOf(main[registry[m][r]].tree.pins[m].digest)
  BY DEF PatchesShown
<1> QED BY <1>1, <1>2, <1>3

\* A function of S that differs from another one at m only.
LEMMA OneEntry ==
    ASSUME NEW S, NEW f, NEW g, NEW m \in S, NEW v,
           f = [x \in S |-> f[x]], g = [x \in S |-> g[x]],
           g[m] = v, \A x \in S \ {m} : g[x] = f[x]
    PROVE  g = [f EXCEPT ![m] = v]
<1> DEFINE new == [f EXCEPT ![m] = v]
<1>1. DOMAIN f = S OBVIOUS
<1>2. new = [x \in S |-> IF x = m THEN v ELSE f[x]] BY <1>1
<1>3. \A x \in S : g[x] = IF x = m THEN v ELSE f[x] OBVIOUS
<1> HIDE DEF new
<1> QED BY <1>2, <1>3

\* Alias m of registry r moves to commit i, and no other.
MovedTo(m, r, i) ==
    \A n \in Minors, q \in Registries :
        registry'[n][q] = IF n = m /\ q = r THEN i ELSE registry[n][q]

\* An alias is pushed: it shows what main named there.
LEMMA PushShows ==
    ASSUME BackInv, IInv', MatchInv', NEW m \in Minors, NEW r \in Registries, NEW i \in 1..Tip,
           MovedTo(m, r, i), main' = main
    PROVE  /\ \A n \in Minors, q \in Registries :
                 PatchesShown'[n][q] = IF n = m /\ q = r THEN main[i].tree.pins[m].patch
                                       ELSE PatchesShown[n][q]
           /\ PatchesShown' = [PatchesShown EXCEPT ![m][r] = main[i].tree.pins[m].patch]
<1> DEFINE patch == main[i].tree.pins[m].patch
<1>2. \A n \in Minors, q \in Registries :
         PatchesShown'[n][q] = IF n = m /\ q = r THEN patch ELSE PatchesShown[n][q]
  <2>1. \A n \in Minors, q \in Registries :
           registry'[n][q] = IF n = m /\ q = r THEN i ELSE registry[n][q]
    BY DEF MovedTo
  <2>2. PatchOf(main[i].tree.pins[m].digest) = patch BY ShowsPins DEF BackInv
  <2>3. \A n \in Minors, q \in Registries :
           /\ PatchesShown'[n][q] = PatchOf(main[registry'[n][q]].tree.pins[n].digest)
           /\ PatchesShown[n][q] = PatchOf(main[registry[n][q]].tree.pins[n].digest)
    BY DEF PatchesShown
  <2> QED BY <2>1, <2>2, <2>3
<1>3. PatchesShown' = [PatchesShown EXCEPT ![m][r] = patch]
  <2>1. /\ PatchesShown = [n \in Minors |-> PatchesShown[n]]
        /\ PatchesShown' = [n \in Minors |-> PatchesShown'[n]]
    BY DEF PatchesShown
  <2>2. /\ \A n \in Minors : PatchesShown[n] = [q \in Registries |-> PatchesShown[n][q]]
        /\ \A n \in Minors : PatchesShown'[n] = [q \in Registries |-> PatchesShown'[n][q]]
    BY DEF PatchesShown
  <2>3. PatchesShown'[m] = [PatchesShown[m] EXCEPT ![r] = patch]
    <3> DEFINE old == PatchesShown[m]
               new == PatchesShown'[m]
    <3>1. old = [q \in Registries |-> old[q]] /\ new = [q \in Registries |-> new[q]] BY <2>2
    <3>2. new[r] = patch /\ \A q \in Registries \ {r} : new[q] = old[q] BY <1>2
    <3> HIDE DEF patch, old, new
    <3>3. new = [old EXCEPT ![r] = patch] BY <3>1, <3>2, OneEntry
    <3> QED BY <3>3 DEF old, new
  <2>4. ASSUME NEW n \in Minors \ {m} PROVE PatchesShown'[n] = PatchesShown[n]
    BY <1>2, <2>2
  <2> QED BY <2>1, <2>3, <2>4, OneEntry
<1> QED BY <1>2, <1>3

\* However proposals, merges, rollbacks and publications cross, an alias comes to an older
\* patch only where main was set back, and not by a proposal of the updater.
THEOREM OlderOnlyByRollback == Spec => OlderPatchIsRollback
<1>1. BackInv /\ BackInv' /\ [Next]_vars =>
         [\A m \in Minors, r \in Registries :
             PatchesShown'[m][r] < PatchesShown[m][r] =>
                 \E i \in (registry[m][r] + 1)..registry'[m][r] : SetBack(m, i)]_registry
  <2> SUFFICES ASSUME BackInv, BackInv', [Next]_vars, registry' # registry,
                      NEW n \in Minors, NEW q \in Registries,
                      PatchesShown'[n][q] < PatchesShown[n][q]
               PROVE  \E j \in (registry[n][q] + 1)..registry'[n][q] : SetBack(n, j)
    OBVIOUS
  <2>1. PICK m \in Minors, r \in Registries, i \in 1..Tip :
           /\ registry' = [registry EXCEPT ![m][r] = i]
           /\ registry[m][r] <= i
           /\ UNCHANGED main
    BY RegistryMoves DEF BackInv
  <2>2. PatchesShown'[n][q] = IF n = m /\ q = r THEN main[i].tree.pins[m].patch
                              ELSE PatchesShown[n][q]
    <3>1. IInv' /\ MatchInv' BY DEF BackInv
    <3>2. registry \in [Minors -> [Registries -> Nat]] BY DEF BackInv, IInv, PublisherInv
    <3>3. MovedTo(m, r, i) BY <2>1, <3>2 DEF MovedTo
    <3> QED BY <2>1, <3>1, <3>3, PushShows
  <2>3. /\ registry[n][q] \in 1..Tip
        /\ PatchesShown[n][q] = main[registry[n][q]].tree.pins[n].patch
        /\ registry \in [Minors -> [Registries -> Nat]]
    BY ShowsPins DEF BackInv, IInv, PublisherInv
  <2>4. PatchesShown[n][q] \in Nat BY <2>3, PinTypes DEF BackInv
  <2>5. n = m /\ q = r BY <2>2, <2>4
  <2>6. registry'[n][q] = i BY <2>1, <2>3, <2>5
  <2>7. ~ (main[registry[n][q]].tree.pins[n].patch <= main[i].tree.pins[n].patch)
    <3>1. main[i].tree.pins[n].patch \in Nat BY PinTypes DEF BackInv
    <3> QED BY <2>2, <2>3, <2>4, <2>5, <3>1
  <2> QED BY <2>1, <2>3, <2>5, <2>6, <2>7 DEF BackInv, RollbacksFound
<1> QED BY <1>1, BackAlways, PTL DEF Spec, OlderPatchIsRollback

\* A sequence is the function of its elements.
LEMMA SequenceIsFunction ==
    ASSUME NEW S, NEW s \in Seq(S) PROVE s = [i \in 1..Len(s) |-> s[i]]
OBVIOUS

\* What main has named is a sequence, as long as main.
LEMMA NamedTypes ==
    ASSUME IInv
    PROVE  /\ Named \in Seq([patches: [Minors -> Nat], proposed: BOOLEAN]) /\ Len(Named) = Tip
           /\ \A i \in 1..Tip, m \in Minors :
                 Named[i].patches[m] = main[i].tree.pins[m].patch
<1> DEFINE S == [patches: [Minors -> Nat], proposed: BOOLEAN]
           Element(i) == [patches |-> [m \in Minors |-> main[i].tree.pins[m].patch],
                          proposed |-> main[i].by = "updater"]
<1>1. Named = [i \in 1..Tip |-> Element(i)] BY DEF Named
<1>2. ASSUME NEW i \in 1..Tip PROVE Element(i) \in S
  <2>1. [m \in Minors |-> main[i].tree.pins[m].patch] \in [Minors -> Nat] BY PinTypes
  <2>2. (main[i].by = "updater") \in BOOLEAN OBVIOUS
  <2> QED BY <2>1, <2>2
<1>3. \A i \in 1..Tip, m \in Minors : Element(i).patches[m] = main[i].tree.pins[m].patch
  OBVIOUS
<1>4. Tip \in Nat BY TipIsNat
<1> HIDE DEF S, Element
<1>5. Named \in [1..Tip -> S] BY <1>1, <1>2
<1>6. Named \in Seq(S) /\ Len(Named) = Tip BY <1>4, <1>5
<1> QED BY <1>1, <1>3, <1>6 DEF S

\* A commit reaches main: it names patches, no older ones if the updater proposed it.
LEMMA CommitNames ==
    ASSUME BackInv, IInv', NEW commit \in Commits, main' = Append(main, commit),
           UNCHANGED registry
    PROVE  Abstract!Next
<1>1. /\ Tip' = Tip + 1 /\ Tip \in 1..Tip /\ Tip \in Nat
      /\ \A i \in 1..Tip : main'[i] = main[i]
      /\ main'[Tip + 1] = commit
  BY MainGrows, TipIsNat DEF BackInv, IInv
<1> DEFINE patches == [m \in Minors |-> commit.tree.pins[m].patch]
           proposed == commit.by = "updater"
           new == Abstract!Naming(patches, proposed)
<1>2. PatchesShown' = PatchesShown
  <2>1. \A n \in Minors, r \in Registries : main'[registry[n][r]] = main[registry[n][r]]
    BY <1>1, ShowsPins DEF BackInv
  <2> QED BY <2>1 DEF PatchesShown
<1>3. /\ patches \in [Minors -> {pin.patch : pin \in Pins}] /\ proposed \in BOOLEAN
  <2>1. \A m \in Minors : commit.tree.pins[m] \in Pins BY CommitPatches DEF BackInv
  <2>2. \A m \in Minors : commit.tree.pins[m].patch \in {pin.patch : pin \in Pins} BY <2>1
  <2> QED BY <2>2
<1>4. Named' = Append(Named, new)
  <2> DEFINE S == [patches: [Minors -> Nat], proposed: BOOLEAN]
             both == Append(Named, new)
  <2>1. new \in S
    <3>1. patches \in [Minors -> Nat] BY CommitPatches DEF BackInv
    <3> QED BY <3>1 DEF Abstract!Naming
  <2>2. Named \in Seq(S) /\ Len(Named) = Tip BY NamedTypes DEF BackInv
  <2>3. ASSUME NEW i \in 1..Tip PROVE Named'[i] = Named[i]
    <3>1. main'[i] = main[i] BY <1>1
    <3>2. i \in 1..(Tip + 1) BY <1>1
    <3>3. /\ [m \in Minors |-> main'[i].tree.pins[m].patch]
             = [m \in Minors |-> main[i].tree.pins[m].patch]
          /\ (main'[i].by = "updater") = (main[i].by = "updater")
      BY <3>1
    <3> QED BY <1>1, <3>2, <3>3 DEF Named
  <2>4. Named'[Tip + 1] = new
    <3>1. [m \in Minors |-> main'[Tip + 1].tree.pins[m].patch] = patches BY <1>1
    <3>2. (main'[Tip + 1].by = "updater") = proposed BY <1>1
    <3>3. Tip + 1 \in 1..(Tip + 1) BY <1>1
    <3> QED BY <1>1, <3>1, <3>2, <3>3 DEF Named, Abstract!Naming
  <2>5. Named' = [i \in 1..(Tip + 1) |-> Named'[i]] BY <1>1 DEF Named
  <2> HIDE DEF new, S
  <2>6. /\ both \in Seq(S) /\ Len(both) = Tip + 1
        /\ \A i \in 1..Tip : both[i] = Named[i]
        /\ both[Tip + 1] = new
    BY <1>1, <2>1, <2>2
  <2> HIDE DEF both
  <2>7. both = [i \in 1..(Tip + 1) |-> both[i]] BY <2>6, SequenceIsFunction
  <2>8. \A i \in 1..(Tip + 1) : both[i] = Named'[i] BY <1>1, <2>3, <2>4, <2>6
  <2>9. Named' = both BY <2>5, <2>7, <2>8
  <2> QED BY <2>9 DEF both
<1>5. proposed => \A m \in Minors : Named[Len(Named)].patches[m] <= patches[m]
  <2>1. Len(Named) = Tip /\ \A m \in Minors : Named[Tip].patches[m] = TipTree.pins[m].patch
    BY <1>1, NamedTypes DEF BackInv, TipTree
  <2>2. commit.by = "updater" =>
           \A m \in Minors : TipTree.pins[m].patch <= commit.tree.pins[m].patch
    BY CommitPatches DEF BackInv
  <2> QED BY <2>1, <2>2
<1> HIDE DEF patches, proposed
<1>6. Abstract!Name(patches, proposed) BY <1>2, <1>4, <1>5 DEF Abstract!Name
<1> QED BY <1>3, <1>6 DEF Abstract!Next

\* Those who pull an image get what main named at a place that never moves back, and no
\* proposal of the updater names an older patch, for any number of minors, requests,
\* publications, corrections and other interventions.
THEOREM Delivered == Spec => DeliveryIsImplemented
<1>1. Init => Abstract!Init
  <2> SUFFICES ASSUME Init PROVE Abstract!Init OBVIOUS
  <2>1. /\ Tip = 1 /\ main[1].by = "person"
        /\ \A m \in Minors : main[1].tree.pins[m] = FirstPin
        /\ registry = [m \in Minors |-> [r \in Registries |-> 1]]
    BY DEF Init, Tip
  <2>2. FirstPin.patch = 0 /\ FirstPin.digest = 0 /\ PatchOf(0) = 0 BY DEF FirstPin, PatchOf
  <2>3. Named = <<Abstract!Naming([m \in Minors |-> FirstPin.patch], FALSE)>>
    <3> DEFINE first == Abstract!Naming([m \in Minors |-> FirstPin.patch], FALSE)
               Element(c) == [patches |-> [m \in Minors |-> c.tree.pins[m].patch],
                              proposed |-> c.by = "updater"]
    <3>1. Named = [i \in 1..1 |-> Element(main[i])] BY <2>1 DEF Named
    <3>2. Element(main[1]) = first
      <4>1. [m \in Minors |-> main[1].tree.pins[m].patch] = [m \in Minors |-> FirstPin.patch]
        BY <2>1
      <4>2. (main[1].by = "updater") = FALSE BY <2>1
      <4> QED BY <4>1, <4>2 DEF Abstract!Naming
    <3> HIDE DEF first, Element
    <3>3. Named = [i \in 1..1 |-> first] BY <3>1, <3>2
    <3>4. <<first>> = [i \in 1..1 |-> first] OBVIOUS
    <3>5. Named = <<first>> BY <3>3, <3>4
    <3> QED BY <3>5 DEF first
  <2>4. PatchesShown = [m \in Minors |-> [r \in Registries |-> FirstPin.patch]]
    BY <2>1, <2>2 DEF PatchesShown
  <2> QED BY <2>1, <2>3, <2>4 DEF Abstract!Init
<1>2. BackInv /\ BackInv' /\ [Next]_vars => [Abstract!Next]_(Abstract!vars)
  <2> SUFFICES ASSUME BackInv, BackInv', [Next]_vars
               PROVE  Abstract!Next \/ UNCHANGED <<Named, registry, PatchesShown>>
    BY DEF Abstract!vars
  <2>1. CASE main' # main BY <2>1, MainAdvances, CommitNames DEF BackInv
  <2>2. CASE main' = main /\ registry' # registry
    <3>1. PICK m \in Minors, r \in Registries, i \in 1..Tip :
             registry' = [registry EXCEPT ![m][r] = i] /\ registry[m][r] <= i
      BY <2>2, RegistryMoves DEF BackInv
    <3>2. PatchesShown' = [PatchesShown EXCEPT ![m][r] = main[i].tree.pins[m].patch]
      <4>1. IInv' /\ MatchInv' BY DEF BackInv
      <4>2. registry \in [Minors -> [Registries -> Nat]] BY DEF BackInv, IInv, PublisherInv
      <4>3. MovedTo(m, r, i) BY <3>1, <4>2 DEF MovedTo
      <4> QED BY <2>2, <4>1, <4>3, PushShows
    <3>3. Len(Named) = Tip /\ Named[i].patches[m] = main[i].tree.pins[m].patch
      BY NamedTypes DEF BackInv
    <3>4. Named' = Named BY <2>2 DEF Named, Tip
    <3>5. Abstract!Publish(m, r, i) BY <3>1, <3>2, <3>3, <3>4 DEF Abstract!Publish
    <3> QED BY <3>3, <3>5 DEF Abstract!Next
  <2>3. CASE main' = main /\ registry' = registry
    BY <2>3 DEF Named, PatchesShown, Tip
  <2> QED BY <2>1, <2>2, <2>3
<1> QED BY <1>1, <1>2, BackAlways, PTL DEF Spec, DeliveryIsImplemented, Abstract!Spec
=============================================================================
