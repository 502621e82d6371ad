# A verification project for fpm-alpine

This directory holds TLA+ models of the automation in this repository, the TLC
configurations that check them, and machine-checked proofs about them. It is
written for a reader who has the repository at hand; paths are relative to
its root.

The repository publishes PHP-FPM container images to GHCR and Docker Hub without
a person in the loop. What is hard about it is not the image but the
publication: several processes on throw-away CI runners change two registries,
a Git repository and a set of pull requests that share no transaction, any of
them may be cancelled at any point, and the code has to stay able to say what
was done and to undo it.

## 1. The system

| Component | Source | State it keeps | Operations |
|---|---|---|---|
| Transaction journal | `scripts/transaction-journal.py` | immutable records as annotated tags, the lock as a branch of commits | `begin`, `activate`, `recover-begin`, `note-failure`, `finish`, attempts and completions, read-only queries |
| Promotion driver | `scripts/promote-auto-canaries.sh` | the aliases it changed so far, its traps, the two registries | preflight, pin, stage, promote, verify, roll back on any exit, recover |
| Alias rollback | `scripts/rollback-moving-aliases.sh` | the registries' moving aliases | classify each alias, restore |
| Image copy and resolution | `scripts/promote-image.sh`, `promote-dockerhub-exact.sh`, `resolve-image-digest.sh`, `assert-image-tag-absent.sh`, `is-manifest-absent.sh` | the registries' tags | resolve, copy by digest, read back |
| Plan and result validation | `scripts/validate-auto-promotion-plan.py`, `validate-auto-transaction-result.py` | none | accept or refuse a file |
| Dependency pipeline | `.github/workflows/dependency-*.yml`, `scripts/resolve-dependency-candidates.py`, `create-dependency-update-pr.sh`, `select-auto-merge-prs.py`, `evaluate-auto-merge-pr.sh`, `classify-dependency-change.py`, `verify-action-update.py`, `evaluate-auto-promotion.py` | the automation and Dependabot branches, their pull requests, `main`, the aliases of both registries | propose, classify, merge, decide what a merge may publish, publish |
| Checks gate | `scripts/wait-for-pr-checks.py` | the last inspection | read the request, the checks and the runs until two inspections agree; once more before the merge |
| Docker Hub pruning | `scripts/dockerhub_tag_policy.py`, `prune-dockerhub-tags.py`, `archive-dockerhub-tags.py` | the tags of the Docker Hub repository, an archive in GHCR | classify, archive, delete, read back |
| Cutover lease | `scripts/refresh-cutover-lease.py`, `select-fresh-cutover-lease.py`, `require-fresh-cutover-lease.sh`, `validate-legacy-cutover-evidence.py`, `verify-permanent-dockerhub-cutover.py` | lease artifacts with an expiry | issue, select, require |
| PHP lifecycle issue | `scripts/check-php-lifecycle.py`, `create-php-lifecycle-issue.sh` | an issue on GitHub | open, update, close |
| Publish classification and retry | `scripts/classify-post-publish-failure.py`, `run-qemu-runtime-with-retry.sh`, `run-auto-canary.sh`, `.github/workflows/publish.yml` | the state of a publish run | retry a runner, classify a failure |

**How they interact.** The dependency pipeline turns an upstream change into a
commit on `main`: a request is classified, waits at the checks gate, and is merged
at the head that was checked. Dependabot's requests for newer actions go the same way, under a
rule of their own. The push to `main` is classified again and, if it is
eligible, its minor is built and published in both registries. The promotion driver
executes a promotion plan instead: it journals every write to a registry
before it makes it (`attempt`) and after it has read it back (`complete`), and
when it exits without having published, its exit trap restores the moving aliases, again under
journal records; a recovery that ends early notes the failure in the journal. The lock branch of the
journal is what keeps two publications apart. Pruning deletes tags from the Docker Hub
repository that publication pushes to; nothing keeps the two apart except that
pruning compares inventories. The lifecycle job only reads the manifest and upstream,
and keeps an issue. The pieces share state only through
GitHub (refs, pull requests, artifacts, issues) and the registries: nothing is
passed in memory, and no two accesses are atomic.

At this commit no workflow under `.github/workflows` runs the journal or the
driver: `dependency-auto-publish.yml` builds and pushes to both registries
itself. `SECURITY.md` still describes the transaction, the scripts are complete and the
tests run them, so they are modelled as those describe them: a caller begins and
activates the transaction, runs the driver, and finishes it after exit status 0; or
begins a recovery (`recover-begin`), runs the driver in `recover` mode, and
finishes after exit status 0 (`tests/test_auto_promotion_transaction.py:396`).
`prune-dockerhub-tags.yml` makes a read-only plan; archive and apply are run by people. No
workflow runs the scripts of the cutover lease any more.

**What is hard.**

* Interleaving: every `transaction-journal.py` call is several API requests; calls
  of the same transaction (the driver, its trap, a recovery run, an operator)
  and of different ones overlap.
* Crashes: a runner may be killed between any two requests. The journal is what
  is left, and a restarted call has to make sense of it.
* Lost answers: a `PATCH` of the lock branch may have happened although the
  request failed.
* Stale reads: the lock commit a call decided on, the head a check ran on, the
  digest an alias had when the plan was frozen, the inventory a deletion was decided on.
* Two interfaces that disagree: a workflow run that was started again is queued in one
  and still green in the other; a deleted tag is listed for a while; metadata and tag of a
  base image move separately.
* Partial failure: one alias of several was changed, one tag of several deleted.

**What makes each part correct**

* Journal: a single writer, fenced by generation; a transaction decided once;
  records that prove what was allowed; no publication before its rollback is
  pinned; no commit with a write missing; a terminal transaction can always be
  released.
* Promotion and rollback: when the driver ends, each moving alias has the prior or the
  target digest, both registries agree or the lock is not free; nothing but a
  journaled alias is ever restored.
* Pipeline: what is merged without a person is what the rule for its author allows, against the commit it
  lands on; what is published is what `main` names, in both registries, or a person has to act; an alias
  comes to an older patch by a rollback only.
* Checks gate: what passes was green, everything at one moment.
* Pruning: what is deleted as it was listed has a signed copy; a tag that moves stops the
  deletion; success means that exactly the tags to keep are left.
* Lifecycle issue: what needs attention is told by an open issue, an outage with nothing worse until
  upstream answers again.

## 2. Modules

| Module | Role |
|---|---|
| `Ownership` | abstract: who holds the right to publish and how a transaction was decided |
| `TransactionJournal` | the journal, one action per access of a command to the shared state |
| `MCTransactionJournal` | symmetry sets for TLC |
| `TransactionJournalProofs` | its inductive invariant and its theorems about the lock |
| `JournalRecordsProofs` | theorems about the journal's records, on top of those |
| `Publication` | abstract: a switch that is thrown for all aliases or for none |
| `Promotion` | the driver, its rollback and its recovery over two registries |
| `MCPromotion` | the plans and disturbances TLC runs it with |
| `PromotionProofs`, `PublicationProofs` | what is journaled and restored; that the driver implements `Publication` |
| `DependencyChain`, `MCDependencyChain` | from a new base image to the published alias |
| `Delivery` | abstract: which patches `main` has named, at which place of that history each alias is, and which patch it shows |
| `DependencyChainProofs` | its theorems; that the pipeline implements `Delivery` |
| `ChecksGate`, `ChecksGateProofs` | `wait-for-pr-checks.py` and the merge after it |
| `TagPrune`, `TagPruneProofs` | plan, archive and apply of the Docker Hub pruning, beside publishers |
| `LifecycleIssue`, `LifecycleIssueProofs` | the daily and monthly lifecycle runs and their issue |
| `MCControls` | one instance of each of the last three |

`DependencyChain` has the gate as one step, `GatePasses`; what that step may take for granted is
what `ChecksGate` checks. `Promotion` has each journal command as one step; the races inside it are
`TransactionJournal`'s. The other modules stand by themselves, as their parts share no state.

### 2.1 TransactionJournal

| Variable | In the code |
|---|---|
| `chain` | the commits of `refs/heads/fpm-transaction-lock`, oldest first; the head is the last. A commit is the payload of `transaction-lock.json`: state, generation, owner |
| `planRecord` | for each plan the fence (`transaction_nonce`) in its `plan` record, or `Nothing` |
| `records` | the owned records that exist: ref (plan, kind, object, minor) and `lock_commit_sha` as an index into `chain` |
| `receipt` | for each plan its `receipt` record |
| `call` | for each caller the command it is executing, where it is, the lock snapshot and what else it has read |

A *caller* is a process that runs the CLI, one call at a time. One action is one
access to the shared journal and the local decisions up to the next access:
`finish`, for example, reads the receipt (`FinishReadReceipt`), reads the lock
(`FinishReadLock`, or `FinishAlreadyFree` when it is free), creates the receipt
(`FinishWriteReceipt`), reads the lock again (`FinishRecheck`), and replaces it
twice (`FinishTerminal`, `FinishFree`). `Stop` ends a call at any point; it is
a crash, an error of the API, a failed check, and a normal exit. A check that fails writes
nothing, so it is a disabled action followed by `Stop`.

What is abstracted:

* Payloads that the code compares as a whole (common fields, digests, subjects)
  are the same for every call of one plan, as they are computed from the plan. A
  read-back digest that differs fails the call: `Stop`.
* Records are immutable, so a record that was read as present stays present. The
  reads of `planRecord` and of the records a check needs are therefore joined to
  the access that follows them. A read of an *absent* record is a step of its own
  where something is decided on it (`FinishReadReceipt`, `BeginReadReceipt`).
* `advance_lock` creates a commit and moves the branch with `force: false`, which
  GitHub accepts only as a fast-forward: `AdvanceLock` compares and swaps. An
  update that happened but whose answer or read-back failed is `AdvanceLock`
  followed by `Stop`.
* Two calls that create the same commit in the same second could both succeed;
  in the model the second fails, and its caller runs it again.
* `LocalBackend`, used by the tests, serialises lock updates with `flock` and is the
  same model; that its records are created before they are filled is not modelled.
* `pending`, `assert-owner` and the `-state` commands only read.

### 2.2 Ownership

`holder`, `generation` and `outcome`, and three actions. `Acquire`: a transaction that was
never decided takes the free lock. `Decide`: the holder is committed or
recovered, once. `Release`: a decided holder gives the lock up. The refinement
mapping reads the holder and the generation from the head of `chain` and the
outcome from `receipt`; `BeginAdvance` is `Acquire`, the first
`FinishWriteReceipt` is `Decide`, `FinishFree` is `Release`, everything else
is a stutter.

### 2.3 Promotion

| Variable | In the code |
|---|---|
| `alias` | what the moving tag of each minor resolves to in each registry: the plan's previous digest, its target, or another |
| `tags` | which evidence tags bind the GHCR target of each minor |
| `lock`, `epoch` | the state of the lock's head commit and, for `lock_commit_sha`, how often it was replaced since `activate` |
| `records` | the transaction's records: kind, minor, registry (or failure reason) and lock commit |
| `result` | `transaction-result.json` exists |
| `receipt` | the transaction's `receipt` record: none, committed or recovered |
| `finish` | for each status where a `finish` command with it is: not begun, past its checks, receipt written, terminal state written |
| `setting` | the plan and the circumstances, chosen in `Init`: operation, number of units, whether runs overlap, what outside writers put on an alias |
| `proc` | the run of the script in `auto` or `backfill` mode (`driver`, with its trap) and the one in `recover` mode (`recovery`) |

One action is one access to a registry or one journal command. The driver walks
`Preflight`, and for each unit `Baseline`, `Attempt`, `Started`, `AssertOwner`,
`Promote`, `ReadBack`, `Complete` (the last five again for Docker Hub),
`ReferrerAttempt`, `ReferrerComplete`, `Recheck`; then `FinalReadBack`,
`WriteResult`, `ExitVerified`. `Fail` is any failure or signal on the way. A run
that starts finds the `transaction-result.json` of an earlier one or not (`StartDriver`): the script
does not remove it, and a run on another runner does not have it. The
EXIT trap and `recover` mode are the same actions with a parameter, since
`rollback_all` and `recover_transaction` have the same four loops (classify, look
again, restore, read back); where they differ the action says so: the trap
looks after the units it attempted and goes on after an error, `recover` looks after all
units, checks the owner, stops at the first error and notes it.

The caller's `finish` is four steps, as in the journal: it checks (`FinishBegin`), writes the receipt
(`FinishReceipt`), looks at the lock again and writes the terminal state (`FinishTerminal`), and frees the
lock (`FinishFree`). `FinishCut` ends it anywhere, after which another `finish` or a recovery may follow.

What is abstracted:

* A journal command other than `finish` is one step, and a refused one changes nothing. Its races
  are the subject of `TransactionJournal`; that a command may be cut
  is a `Kill` or `Fail` before or after the step.
* The lock starts ACTIVE: `begin`, the preparations and `activate` come before
  the driver. Another transaction cannot have the lock (theorem `Fencing`).
* Prior and target digest of an alias differ. A plan in which they agree writes
  what is there already.
* The reads of both registries for one unit are joined, as are the read-backs at
  the end of a restore; so is the preflight, which changes nothing.
* `setting.overlap = FALSE`: no run of the script, no `finish` and no `recover-begin` starts while another run or
  `finish` has not ended, as with a `concurrency` group. The journal does not enforce this (a `recover-begin` is
  accepted while a `finish` is under way, see `JournalCommitRace` in section 6); the callers have to. Each of them may be cut at any
  step, and what follows then is covered. `setting.drifts = {}`: nobody else moves the aliases. `Undisturbed` is
  both; properties that say so hold of undisturbed publications only, the others of all.
* A run that was killed and one that failed are both `failed`, as nothing that follows tells them apart.
* `ExistingTags` is both tags in the runs: the evidence tags that the driver journals and reads back bind the target already. The
  driver journals `<patch>-<sha>` and `<date>-<minor>` (lines 652-673) and `promote-image.sh:61` creates two other tags, so
  that without them `ReadBack` is never enabled and every run ends in a rollback. (The test replaces that script by one that
  creates the driver's tags, `tests/test_auto_promotion_transaction.py:218`.)
* Signing, source checks and image verification succeed or fail.

### 2.4 Publication

`aliases` and `decision`. While the decision is open the aliases may move; they
are all at the target when it is `committed`, all at the prior digest when it
is `recovered`, and do not move afterwards. The mapping takes a transaction for decided when its lock is COMMITTED or
RECOVERED, or FREE after that, and reads from the receipt how. The receipt alone decides nothing: a
`finish` that is cut between its receipt and the terminal state leaves an ACTIVE lock, from which `recover-begin` is
accepted, and the recovery puts the aliases back under a committed receipt. What the refinement then says is that the lock
is never released against them: `recovered` collides with the receipt, `committed` refuses RECOVERING, and the
transaction is never FREE. It fails closed, and a person has to clean up.

### 2.5 DependencyChain

| Variable | In the code |
|---|---|
| `main` | the commits of `main`: the pins of `build/versions.json`, the changes made to the rest of that file (`rest`), to the action pins and the other lines of workflows (`actions`, `steps`) and to all other files (`src`), and whether it was the updater's request, Dependabot's, or a person's doing |
| `prs` | the pushed automation branches and Dependabot's: candidate, what the branch changes, commit they were made from, pull request, smoke test, and the jobs of `dependency-auto-merge.yml` that test, wait for and merge them |
| `updater` | the run of `dependency-update-pr.yml`: `Discover`, `PushBranch`, `OpenRequest` |
| `publisher` | the run of `dependency-auto-publish.yml` and the request that waits in its concurrency group; which requests were dropped, which skipped or failed |
| `registry` | for each alias in each registry the commit its image was built from |
| `manual` | how often people have acted |

`Eligible` is the classification that proposal, merge and publication share. The updater makes
its candidate from one observation of upstream, compares it with `main`, and later pushes a branch;
a job evaluates a head, waits at the gate, and merges that head if the rules of `main` (up to date,
tested: `Mergeable`) still let it. A publisher pushes each alias by itself and reads back
at the end.

`Accepted` is what `evaluate-auto-merge-pr.sh` demands: `Eligible` of a request of the updater, and
`VerifiedActions` of one of Dependabot, which `verify-action-update.py` decides: only pins of actions changed, to releases of
allowlisted owners; or no workflow file at all, in which case the script has nothing to verify and exits 0
(`action_update=not-applicable`, lines 127-130), whatever else the branch changes. Dependabot itself proposes nothing of that kind; a
branch of it comes to it when somebody pushes to the branch, and the model has both (`OpenActionUpdate`, `EditBranch`).

People push to `main` and to branches, merge, close, run things again and dispatch. What they push (`Changes`) may be files or
pins, back to an older patch as well: `docs/ci-operations.md:123` describes rollback as correcting `main` and
publishing the minor again. The push of a downgrade is skipped by the publisher (`classify-dependency-change.py:129-142`: not
eligible), and a person dispatches it; the updater may propose the newer release again at once. A pin that people put on `main` is
taken to be true of its image (`Truthful` in `ManualMerge`), as it passes the smoke test.

`Delivery` forgets branches, requests, runs and builds. `names` is the history of what `main` named, and of each entry
whether the updater proposed it; `at` is the place of each alias in it, `shown` its patch. `Name` adds an entry, not older than the last
if the updater proposed it; `Publish` moves an alias to a place that is not before its own. `Named` and
`PatchesShown` read the two from `main` and `registry`; what an alias shows is the patch inside the image
(`PatchOf` of its digest), not the one that is written beside it.

What is abstracted:

* Upstream has no state: each observation is any of `Pins`. A digest is the number of its release, and an observation may have the
  patch of one release with the digest of another.
* PECL candidates are never merged without a person: they are `ManualMerge`.
* Requests that `select-auto-merge-prs.py` refuses (another author, a fork, a draft) are left out: they are merged by people
  or not at all.
* A concurrency group keeps one waiting run and cancels an older one that waits. That an old publication is run
  again by hand is not modelled (section 6): what is said of aliases below is said of pushes and dispatches.

### 2.6 ChecksGate

| Variable | In the code |
|---|---|
| `request` | the pull request: open, still at the head that is tested, and its base |
| `latest` | what the workflow-run interface lists: the newest run of each workflow, its attempt and state |
| `shown` | what the check interface lists: check runs by workflow, and commit statuses |
| `gate` | the job: where it is, whether this is the second use (`--once`, before the merge), whether its time is over, this inspection and the one before |
| `green` | history: whether everything was green when this inspection read the checks |

An inspection is four reads (`ReadPR`, `ReadChecks`, `ReadRuns`, `Decide`, which reads the request again); the
gate passes when two successive inspections with nothing pending have the same fingerprint. Between
any two reads, runs are queued, go on, end, and are run again, and the list of checks
lags behind. A check is identified by its workflow, as the fingerprint tells them apart by identity and
attempt; interfaces that fail or miscount end the job (`NoAnswer`).

### 2.7 TagPrune

| Variable | In the code |
|---|---|
| `hub`, `lingering` | the digest of each tag on Docker Hub, and one that is still listed after the tag was deleted |
| `copies` | for each tag and digest the copy in GHCR: none, copied, signed |
| `plan`, `archiveMap` | the two files that the commands hand on |
| `planner`, `archiver`, `pruner` | the commands `plan`, `archive-dockerhub-tags.py`, `apply`: where they are, the inventory they saw, what is left to do |
| `result` | the result file of `apply` |
| `pushes` | how often others have pushed |

An inventory is read in two pages. `apply` takes an inventory before it begins and after each deletion,
until the tag is gone from it and everything else is as planned or it has looked `Attempts` times, and one more at the end. A deletion
names a tag: it takes what the tag points at when the request arrives.

Limits: one `apply` at a time; the SHA-256 arguments of `apply` name the files it loads, so it reads whichever
pair was written last; a tag stays on its page; signature, parity and canonical reference of a copy are one
step, `SignCopy`. `SuccessIsExact` and `DriftStopsDeletion` use two history fields, `since` (the
pushes made when the last inventory was begun) and `late` (the tags deleted since another tag ceased to be as planned).

### 2.8 LifecycleIssue

| Variable | In the code |
|---|---|
| `world` | what the end-of-life dates come to today, and what is wrong upstream |
| `issues` | the issues with the label: open or closed and why, and of the body the fingerprint, the state and the note of an unverified outage |
| `job` | the run: `Check`, `ListOpen`, `ListClosed`, then one of `CloseRecovered`, `NothingToTell`, `EditIssue`, `CreateIssue` |
| `hand` | how often people have closed or opened an issue, or a run failed |

A daily run passes `--skip-upstream` (`job.checked` is false) and looks at the dates only. Issues are read as
they are: that GitHub's list may lag behind is not modelled.

## 3. Runs

Every run is a small instance of its module with the bounds in its `.cfg`. In the journal there
are no counters to cap, because records are created once, a plan gets one
generation and a generation only moves on (`note-failure` and `recover-begin` may go round once per
reason, since a reason is recorded once per commit), so the state spaces are finite.

| Run | Instance | What it shows |
|---|---|---|
| `JournalContention` | 2 plans, 2 callers | fencing, identity, release and exit status under contention; the journal implements `Ownership` |
| `JournalAutomatic` | 1 automatic plan, 1 caller, every command | order and completeness of the journaled work; types |
| `JournalRetry` | 1 plan, 2 callers, fair | a terminal transaction is released; the lifecycle never moves back; every record is fenced |
| `JournalBlocked` | 1 plan, 1 caller | **violation**: a blocked transaction is released (section 6) |
| `JournalCommitRace` | 1 plan, 2 callers | **violation**: commit from RECOVERING (section 6) |
| `PromotionSafety` | 4 settings, 1 recovery begun: 2 units; GHCR-only backfill of 1 unit, runs that overlap and `finish` commands that are late; the same with an outside writer of the target; GHCR-only backfill of 2 units, an outside writer of something else | attempts before moves, complete results, exact rollback, nothing written that cannot be explained, refinement of `Publication` |
| `PromotionSettles` | 1 unit, recoveries begun without bound, fair | the same for a recovery that continues another's work; aliases do not stay half moved; types |
| `PromotionRestoreRecord` | 1 unit | **violation**: a restore without its record (section 6) |
| `DependencyChain` | 1 minor, three patches and a metadata that is ahead; 1 request with 2 acts of people, or 2 requests | what is merged without a person; aliases that go back by rollbacks only; both registries follow `main`; refinement of `Delivery` |
| `DependencyDropped` | 2 minors, 1 request, 2 acts | **violation**: an eligible change is not published (section 6) |
| `Controls` | the gate (smoke test and an external status, 2 attempts); pruning (1 tag to keep, 2 to delete, 1 strange; 2 digests, 1 push by others); the lifecycle issue (3 dates, an outage, a mismatch, 2 changes, 1 act), each by itself, fair | what passes was green; what is deleted was archived, drift stops, success is exact; attention is told, outages are followed; each job ends |
| `LifecycleDateOnly` | the instance of `Controls` | **violation**: a run that looks at dates only takes an outage off the issue (section 6) |

*Why the bounds are enough.* The races are between two calls: each decides on a
snapshot and one of them replaces it, and a third caller only repeats what a second
can do. Two plans are what is needed for the lock to change hands and for a plan to come
back; the proofs (section 5) remove the bound for the invariants of `JournalContention`. One minor is
enough for the completeness properties to fail, as they quantify over minors one
at a time. Backfill plans are used where the number of records does not matter
to the property, since they need one preparation and one alias instead of three
preparations, two aliases and a referrer.

`Promotion` loops over units in order and nothing crosses units except the
order of the loops and the flags they share, so two units (one done, one at hand) show what a
loop can get wrong; registries are the real two. A late `finish` needs one `finish` of each status and one
recovery beside it, which every setting has; what runs that overlap, or others who write, can do to more aliases is for the theorems to say,
which bound neither. `MaxEpoch` stops new
recoveries from being begun; with 6 it never binds, because a failure reason is recorded
once (`TypeOK` bounds `epoch` without `MaxEpoch`, which `PromotionTypeCorrect` proves). The runs with more
states use 1 (a recovery may still be cut and resumed).
`CHECK_DEADLOCK FALSE` is set in these runs: a transaction ends in FREE or BLOCKED.

In `DependencyChain` a race needs two requests (the later observation may be merged first, the action pin
of one request lands between the steps of the other), or an act of people between two steps of a request; a rollback that
comes to an alias takes two acts, the correction of `main` and the dispatch that publishes it, and a request merged and published before
them, between them or after. `OneOrTwo` has all of these. Two different newer patches are the least with which two requests can be
merged in the other order, and the pins contain each way in which an observation can be wrong. What crosses minors is the publisher's queue, which
`DependencyDropped` fills with two minors and three pushes. In `Controls`, an inspection is compared with the one before
only, and one run with two attempts can be green, queued and green again between them; a deletion can go wrong by a tag that was
pushed before, after or instead of the one at hand, for which two candidates and one push are enough; an
issue is compared with the findings of two changes. The `part` of that run says which of the three moves; they share no state, so that
their product would show nothing more. Deadlock is not checked there: the gate's job ends for good, and
what people do is bounded. The theorems (section 5) hold without any of these bounds.

*Symmetry.* Callers, plans and result files are interchangeable in the safety runs
whose plans have the same operation. `JournalRetry` uses no symmetry. `OwnershipIsImplemented` is a safety
formula (`Init /\ [][Next]_v`), for which it is sound: the mapping commutes with
permutations of plans and callers.

*Fairness* is assumed in `JournalRetry`, `PromotionSettles` and `Controls` only. The repository never retries a journal
command; a person or a new run does. The fairness is that of a caller who runs
`finish` with the status and result on record again and again until it exits 0
(strong fairness, since a lock update by another caller may
refuse it each time) and whose processes end (weak fairness of `Stop`). Nothing is
assumed of the other caller, who may start and abandon any command.

In `PromotionSettles` a run of the script that is not interrupted goes on (weak fairness of
the steps of each run: they are one sequential process), a recovery is begun and
started whenever that keeps being possible (strong fairness, because runs that come and go
make it impossible for a while: `SECURITY.md` has a recovery controller for this), and losses of runners and
signals happen any number of times but not for ever. Nothing makes the driver be started or `finish` be run, begun or ended.

In `Controls` a job that has begun goes on (weak fairness of `GateStep`, `PruneStep`, `JobStep`: one
process each, and a request that is not answered is a failed one), the deadline of the gate passes (weak fairness of `Expire`: it is
a clock), and of the lifecycle runs infinitely many ask upstream (strong fairness of `StartJob(TRUE)`, the monthly schedule; strong
because the next run cannot begin while one is under way). Nothing is assumed of people, workflows, publishers
or upstream.

## 4. Properties

| Property | Kind | Hazard |
|---|---|---|
| `OneGenerationPerPlan` | invariant | a delayed `begin` takes the lock again for a finished transaction |
| `OwnerIsJournaled` | invariant | two racing `begin` calls disagree on the nonce |
| `ReleasedWithReceipt` | invariant | a stale `finish` releases another owner, or releases without a receipt |
| `ExitZeroIsDurable` | invariant | exit status 0 although someone else's receipt is on record |
| `LifecycleMovesOn` | invariant on the history of the branch | publication resumes after recovery began |
| `RecordsAreFenced` | invariant | a record written late claims a right its writer did not have |
| `PublishedOnlyWhenPrepared` | invariant | an alias is moved before its rollback is pinned |
| `CommittedIsComplete` | invariant | a commit while a write of some registry or minor is missing |
| `OwnershipIsImplemented` | refinement | any of the above that shows in who holds the lock |
| `TerminalIsReleased` | liveness | a `finish` that was cut cannot be completed |
| `MovedIsJournaled` | invariant | a lost runner leaves an alias that no recovery may touch |
| `VerifiedIsComplete` | invariant | a result file survives a rollback, or the journal is not ready to commit |
| `RestoredIsPrior` | invariant | a rollback or a resumed recovery reports success and forgets an alias |
| `RestoresOnlyKnown` | action property | an alias is overwritten although some alias is not explained |
| `PublicationIsImplemented` | refinement | the lock is released against the aliases, or a late `finish` or recovery moves them after it is COMMITTED or RECOVERED |
| `PartialIsSettled` | liveness | aliases stay half moved with nobody in charge |
| `AutoMergeIsEligible` | invariant | the branch or `main` moves between classification and merge, of the updater's requests and of Dependabot's |
| `PinsAreReal` | invariant | a tag and its metadata are observed while upstream moves |
| `OlderPatchIsRollback` | action property | requests, rollbacks and publications that cross take an alias to an older patch, without a rollback that explains it |
| `AliasesMatchMain` | invariant | an alias of one registry, or of both, is left behind `main` and nobody is told |
| `AliasesNeverGoBack` | action property | a delayed publication overwrites a newer one |
| `DeliveryIsImplemented` | refinement | an order of observations, merges, corrections and publications lets an alias move back in what `main` named, or show what it never named; the updater proposes an older patch than `main` names by then |
| `EligibleIsPublished` | invariant, **violated** | a publication that waits is cancelled by a newer push |
| `PassWasGreen` | action property | a run that is started again between two reads is green in one list and queued in the other |
| `DeletesOnlyArchived` | action property | plan, archive map and repository are from different moments |
| `DriftStopsDeletion` | invariant | publication and deletion run side by side |
| `SuccessIsExact` | invariant | a tag comes back after it was deleted, or is pushed during the last inventory |
| `AttentionIsTold` | invariant | an earlier issue, open or acknowledged, hides something new |
| `OutageNeedsUpstream` | action property | a run that asked nobody ends an outage that is told by itself, or noted as unverified |
| `DateOnlyIsNoEvidence` | action property, **violated** | ... or one that is listed beside something worse |
| `OutageIsFollowed` | liveness | an outage is never told, or told for ever |
| `JobsEnd` | liveness | checks that come and go, or a tag that stays listed, hold a job up for ever |

The lock branch keeps its history, so properties about steps (what follows what)
are stated as invariants over `chain`, which makes them provable like the others. Each module
has one type invariant (`TypeOK`, `GateTypeOK`, `PruneTypeOK`, `LifecycleTypeOK`).

## 5. Proofs

`TransactionJournalProofs` proves, for any number of plans, callers, minors and
result files, from the named assumptions on the constants only:

`TypeCorrect`, `Identity`, `Fencing`, `Released`, `MovesOn`, `ExitZero` (the
invariants `TypeOK`, `OwnerIsJournaled`, `OneGenerationPerPlan`,
`ReleasedWithReceipt`, `LifecycleMovesOn`, `ExitZeroIsDurable`) and
`Implementation` (the refinement of `Ownership`).

The argument. None of the properties is inductive: that the lock is not taken twice
depends on what a `begin` call read before it replaces the head. `IInv` adds

* `CallInv`: what each call knows at each point. A `begin` that is about to take
  the lock knows that up to the commit it read its plan never held the lock; a
  `finish` that is about to release knows the receipt and that its
  plan owns the commit it read.
* `ChainInv`: beside the properties, that a plan loses the lock only with a receipt
  (`LostOnlyWithReceipt`), never regains it (`NeverRegained`), that a receipt is
  written by a transaction that held the lock (`ReceiptOfOwner`) and that a terminal state
  fits its receipt (`TerminalHasReceipt`).

The journal only grows (`Grows`): commits are appended, plan records and receipts
are written once. Hence what a call has read is not disturbed by others
(`CallStable`), and a step has to be looked at only for the caller that makes it
(`StepKeeps`, `ReadKeeps`, `AppendKeeps`). A commit is appended only onto the one its caller
read, so three lemmas about appending (`TransitionKeeps`, `AcquireKeeps`,
`ReleaseKeeps`) and one about receipts (`ReceiptKeeps`) carry `ChainInv`
through every action. TLC checked `IInv` on small instances of two plans and two callers before it was proved.

`JournalRecordsProofs` goes on from `IInv`: `Fenced`, `Prepared`, `Completed` (`RecordsAreFenced`,
`PublishedOnlyWhenPrepared`, `CommittedIsComplete`). `RecordsInv` says of each record that the commit it names entitled its
writer. Records are never removed and the branch only grows, so a record once justified stays so; that a new one is
comes from `CallInv`, which says what its writer knew. `OpenedWhenPrepared` (a commit is ACTIVE only with all
preparations on record) carries the order of preparation and publication from the commit to the attempts
that name it, and completeness from the reads of `finish` to its receipt.

`PromotionProofs` and `PublicationProofs` prove for plans of any length, in both modes, for any
circumstances in `Settings`: `PromotionTypeCorrect`, `Verified`, `Moved`, `OnlyKnown`, `Restored`
(`VerifiedIsComplete`, `MovedIsJournaled`, `RestoresOnlyKnown`, `RestoredIsPrior`) and `Implemented`: the driver with
its trap and its recovery implements `Publication`. `OwnInv` has four parts. `PromotionTypes` is `TypeOK` without its bound on
`epoch` and the evidence tags, which come last. `DriverInv` says what is journaled by the time the driver gets to a step (`Place`, `Done`,
`Results`). `MovedInv` ties each alias at its target to its attempt, and to the loop of a rollback
that has not come to it. `KnownInv` says that a run about to restore has seen every alias in a state it can
explain. The trap and the recovery share their steps, so the lemmas `RestoreUnitEffect` to `SettleEffect` describe each
step once, for either. `QuietInv` adds, for undisturbed publications, that one run is at work at a time and what that means for
the lock (`Locked`), where the aliases are at each point of the run (`Placed`), and what a `finish` under way has before it
(`Finishing`). Of the receipt alone nothing is claimed, since a `finish` may be cut after it; what the argument needs is that
a `finish` past its receipt found its own status there, and that COMMITTED, RECOVERED and FREE come from there only. With it, a step
that moves an alias is one of a transaction that is not decided, and a decision is made on one side.

`PromotionTypeCorrect` states all of `TypeOK`, with the number of times the lock is replaced: the code has no counter for it, and
what bounds it is spread over the journal and the scripts that call it. `EpochInv` is the argument. Only a recovery notes failures, and only while the lock is RECOVERING (`RecoveryOwns`); a failure on
record is older than the lock (`RecordsOlder`), so that the same reason is refused ever after. A recovery that is
cut is one of two reasons, and each allows two more replacements, to RECOVERY_REQUIRED and back (`EpochBound`); a blocking reason
ends it.

`DependencyChainProofs`, for any number of minors, proposals and acts and any pins: `TypeCorrect`,
`OnlyEligibleMerges`, `OnlyRealPins`, `OlderOnlyByRollback`, `NoOlderAlias`, `AliasesMatch`, `Delivered`. `Branch` says of each branch that a green test
means true pins (`Truthful`), and that a job past the judgement, if the head has not moved since, has judged it by the rule for its author
(`Accepted`) against the branch's parent or a later commit; merging requires the parent to be the tip, which leaves one such commit.
`PublisherInv` says that what is published, under way and waiting was asked for in this order.

`AliasesMatch` (`AliasesMatchMain`) needs to know what became of each change, since the publisher looks only at the last one. `MatchInv`: a
commit that changed a minor is asked for, was given up on, or is published in both registries (`Answered`); a minor that `main` names another image for
than an earlier commit did was changed in between (`ChangesFound`); two aliases of one minor are of one commit, or the minor is left to a person, or is
being pushed (`Together`). TLC checked it before it was proved. When a request is dropped, the commit it was for stays with the dropped ones; when one is published, everything it
passed over is behind it, by `PublisherInv`; and a publication that fails between the registries is `LeftToPerson`.

`OlderOnlyByRollback` (`OlderPatchIsRollback`) and `Delivered` (`DeliveryIsImplemented`) add `RollbacksFound`: if `main` names an older patch of a
minor than an earlier commit, a commit in between set it back (`SetBack`), and was not the updater's. A commit of the updater is not one
because `Accepted` holds of it against the commit it lands on (`CommitPatches`), which is `OnlyEligibleMerges` put to use; people may do as they
like. `ShowsPins` takes from `OnlyRealPins` that an image has the patch that was written beside it, so what an alias shows is what `main`
named at its place. Each commit is one `Name` (`CommitNames`) and each push one `Publish` (`PushShows`).

`ChecksGateProofs`, for any workflows, statuses and numbers of runs: `GateTypeCorrect` and `PassesWhenGreen`. A run
only moves on to a later attempt or a later run (`Before`). `LastInv` and `RunsInv` say that what the gate remembers is in the past of
what the interfaces hold, `AgainInv` that two equal inspections leave no room for another attempt
between them; so what the second one read as green was green when it read the checks.

`TagPruneProofs`, for any tags, digests, pages and pushes: `PruneTypeCorrect`, `DeletesArchived`, `DriftStops`, `SuccessExact`.
Copies are only added and only signed, so an archive map stays true, and a plan that it covers names images with signed copies.
`LifecycleIssueProofs`, for any dates, faults and people: `LifecycleTypeCorrect`, `Told`, and `OutageKept`, which is about
the outages the script takes for one (`TellsOutage`), not about all it lists (section 6). `KnowsOpen` and
`KnowsClosed` say what a run that nobody has disturbed has read and still holds when it acts.

Only model-checked: `TerminalIsReleased`, `PartialIsSettled`, `JobsEnd` and `OutageIsFollowed`, since liveness under
fairness is out of the prover's reach. Every invariant, action property and refinement that a passing run checks is proved. No definition is recursive, so
induction over data is needed nowhere.

## 6. Where the code and its words disagree

* **A blocked transaction is released automatically** (`JournalBlocked`).
  `SECURITY.md:20` says "Unknown state leaves the lock blocked rather than
  releasing it." and `finish` refuses BLOCKED. But `note-failure` is allowed
  in BLOCKED and moves to RECOVERY_REQUIRED when the later reason
  is not a blocking one (`scripts/transaction-journal.py:1677-1681`), and from
  there `recover-begin` and `finish` go on to FREE.
* **A commit from RECOVERING** (`JournalCommitRace`). `finish committed` demands
  ACTIVE, but after it has written the receipt it looks at the owner of the lock only
  (lines 1502-1507), so a `recover-begin` in between is committed over. In `Promotion` the same window shows what
  it does to the aliases: a late `finish` commits over aliases that a recovery has put back, and a `finish` that is cut after its
  receipt, followed by a recovery, leaves a lock that no `finish` can release (section 2.4). Callers have to keep `recover-begin` away from a
  `finish` under way; nothing in the code does.

* **A restore without its record** (`PromotionRestoreRecord`). `SECURITY.md:20` has every
  "rollback, and recovery transition" durably recorded. A rollback that is cut after its
  `recovery-attempt` leaves a record under the old lock commit; the recovery begun
  afterwards is refused its own. It does not notice, because `restore_dual` and
  `restore_ghcr_only` are called in an `||` list, where `set -e` is off
  (`scripts/promote-auto-canaries.sh:386-391`), restores the alias and reports success.
* **An outage dropped without evidence** (`LifecycleDateOnly`). "A date-only check is not evidence that the network source
  recovered." (`scripts/create-php-lifecycle-issue.sh:46`), and the script keeps an outage over such a check when the issue's state is
  `upstream-unavailable`, or its note is there (lines 42-45). An outage found together with a mismatch or an EOL is in the report and the
  fingerprint, but the state of the issue is the worse one, there is no note, and the next run that looks at the dates only edits the issue
  without the outage (lines 83-88). `OutageNeedsUpstream` says what the script does hold.

* **A publication that waits is dropped** (`DependencyDropped`). `README.md:92` says "An eligible
  `build/versions.json`-only update on protected `main` triggers `dependency-auto-publish` for the affected minor".
  The workflow has one concurrency group (`dependency-auto-publish.yml:25-27`), in which a newer run cancels the one that waits. Of
  three pushes in a row the second is not published, and the run of the third classifies its own diff only (line 54). The alias of
  that minor stays behind `main` until the minor changes again or a person dispatches the workflow: `AliasesMatchMain` says that
  this, a skipped and a failed publication are the only ways the modelled steps have (a publication run again by hand is not one of them,
  see below).

Seen, and not stated by any doc:

* A driver that was taken for lost, past its `assert-owner`, moves its alias after
  recovery has read the aliases back (`assert-owner` accepts RECOVERING, and no registry can check it).
* A failure reason is recorded once, with its lock commit, so a second recovery that is terminated
  cannot note it, `|| true` ignores that (`scripts/promote-auto-canaries.sh:445`), and the lock stays RECOVERING.
* A branch that was pushed and whose request was never opened ends every later run of the updater with status
  66 (`scripts/create-dependency-update-pr.sh:63-70`), also for the minors after it; a request that stays open holds those up too.
* An issue that a person closes between the listing and the edit is edited all the same and stays closed; the next run makes a new one.
* `README.md:92` goes on "PECL, runtime policy, source and workflow changes require manual review." Dependabot's requests change
  workflow files and are merged without a person (`select-auto-merge-prs.py:66-68`, `evaluate-auto-merge-pr.sh:71-72`), as
  `README.md:103` has them proposed; and what is pushed to such a branch in place of its pins is merged as `not-applicable`. `AutoMergeIsEligible`
  states the rule the code has (`Accepted`), and no run is spent on the sentence.
* The driver journals and reads back tags that `promote-image.sh` does not create (section 2.3, `ExistingTags`).
* A publication that is run again by hand, long after, publishes its old commit and moves the aliases back.

## 7. Plan

Done: the journal, the driver, the dependency pipeline, the gate, pruning and the lifecycle issue. What remains is

1. the re-run of an old publication, and requests that `select-auto-merge-prs.py` refuses;
2. an abstract specification of publication that `DependencyChain` and `Promotion` both implement, should
   the workflows come to run the driver.

A model of the cutover lease and of the publish retries was planned and dropped: no workflow runs
the lease any more, and a retry repeats one command and keeps no state.

## 8. Not modelled

* Image contents and their verification (`Dockerfile`, smoke tests, SBOM,
  provenance, signature and vulnerability checks): pure computation over external tools; where a
  control flow depends on them they succeed or fail.
* Plan and result validation (`validate-auto-promotion-plan.py`, `validate-auto-transaction-result.py`): acceptance of a
  file, field by field, without state. The models start from accepted plans.
* The cutover lease (`refresh-cutover-lease.py` and its companions): no workflow runs it, and
  `tests/test_policy_scripts.sh:219` and `tests/test_publisher_policy.sh:13` assert that the workflow that did is gone.
* Publish classification and retry: `classify-post-publish-failure.py` is wired into no workflow; `run-qemu-runtime-with-retry.sh`
  repeats one command.
* How `resolve-image-digest.sh` parses what a registry answers: a read that succeeds or fails.
* `validate-versions.py`, `sync_dockerhub_metadata.py`, freshness and manifest reports: validation and wording.
* GitHub and the registries themselves: external, modelled from how the code uses them.
