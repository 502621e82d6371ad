---------------------------- MODULE LifecycleIssue ----------------------------
(***************************************************************************)
(* The lifecycle job: check-php-lifecycle.py looks at the end-of-life      *)
(* dates every day and asks upstream for its releases once a month, and    *)
(* create-php-lifecycle-issue.sh keeps one GitHub issue for what it found. *)
(*                                                                         *)
(* The issue is the only memory from run to run: its body says what was    *)
(* found last, and a warning that a person has closed as completed is      *)
(* acknowledged.  Runs follow one another; people do as they like.         *)
(***************************************************************************)
EXTENDS Naturals, Sequences

CONSTANTS
    Dates,       \* what the end-of-life dates of the minors come to
    Class,       \* "ok", "warning" or "eol" for each of them
    Outages,     \* ways in which upstream cannot be reached
    Mismatches,  \* releases upstream names that are not of the minor
    MaxChanges,  \* bound: changes of dates and upstream
    MaxHand      \* bound: acts of people and failures of runs

ASSUME DatesAssumption == Dates # {} /\ Class \in [Dates -> {"ok", "warning", "eol"}]
ASSUME FaultsAssumption == Outages \cap Mismatches = {}
ASSUME LifecycleBoundsAssumption == MaxChanges \in Nat /\ MaxHand \in Nat

VARIABLES
    world,   \* the dates, what is wrong upstream, and how often they have changed
    hand,    \* acts of people and failures of runs
    issues,  \* the issues with the label, oldest first
    job      \* the run, or the one before the next

lifecycleVars == <<world, hand, issues, job>>

Faults == Outages \cup Mismatches
Signals == [dates: Dates, faults: SUBSET Faults]
States == {"ok", "warning", "upstream-unavailable", "mismatch"}

\* Of a body, the marker with the fingerprint, the state, and whether an earlier outage is
\* noted as unverified.
Bodies == [marker: Signals, state: States, unresolved: BOOLEAN]
Issues == [open: BOOLEAN, reason: {"none", "completed", "not_planned"}, body: Bodies]

\* checked: upstream was asked; found: the report; issue: the open issue, if there is one;
\* disturbed: a person has closed or opened an issue since the run began.
NoJob == [pc |-> "idle", checked |-> FALSE, found |-> CHOOSE s \in Signals : TRUE,
          issue |-> 0, acknowledged |-> FALSE, disturbed |-> FALSE]

LifecycleInit ==
    /\ world \in {[signal |-> s, changes |-> 0] : s \in Signals}
    /\ hand = 0
    /\ issues = <<>>
    /\ job = NoJob

-----------------------------------------------------------------------------
(***************************************************************************)
(* Time, upstream, and people.                                             *)
(***************************************************************************)
\* A day passes, a reviewed change moves a date, or upstream fails or recovers.
Change ==
    /\ world.changes < MaxChanges
    /\ \E s \in Signals \ {world.signal} :
          world' = [signal |-> s, changes |-> world.changes + 1]
    /\ UNCHANGED <<hand, issues, job>>

Person(n, issue) ==
    /\ hand < MaxHand
    /\ hand' = hand + 1
    /\ issues' = [issues EXCEPT ![n] = issue]
    /\ job' = [job EXCEPT !.disturbed = TRUE]
    /\ UNCHANGED world

CloseIssue(n) ==
    /\ issues[n].open
    /\ \E reason \in {"completed", "not_planned"} :
          Person(n, [issues[n] EXCEPT !.open = FALSE, !.reason = reason])

ReopenIssue(n) ==
    /\ ~ issues[n].open
    /\ Person(n, [issues[n] EXCEPT !.open = TRUE, !.reason = "none"])

-----------------------------------------------------------------------------
(***************************************************************************)
(* The report.                                                             *)
(***************************************************************************)
\* Fault: the dates that have passed are not looked for.
StateByWarning(signal) ==
    IF signal.faults \cap Mismatches # {} THEN "mismatch"
    ELSE IF signal.faults # {} THEN "upstream-unavailable"
    ELSE Class[signal.dates]

\* A date that has passed counts before everything, and as much as a mismatch.
StateOf(signal) ==
    IF Class[signal.dates] = "eol" \/ signal.faults \cap Mismatches # {} THEN "mismatch"
    ELSE IF signal.faults # {} THEN "upstream-unavailable"
    ELSE Class[signal.dates]

\* The daily run passes --skip-upstream, the monthly one and a manual one do not.
StartJob(checked) ==
    /\ job.pc \in {"idle", "done"}
    /\ job' = [NoJob EXCEPT !.pc = "check", !.checked = checked]
    /\ UNCHANGED <<world, hand, issues>>

Check ==
    /\ job.pc = "check"
    /\ job' = [job EXCEPT !.pc = "list",
          !.found = [dates |-> world.signal.dates,
                     faults |-> IF job.checked THEN world.signal.faults ELSE {}]]
    /\ UNCHANGED <<world, hand, issues>>

-----------------------------------------------------------------------------
(***************************************************************************)
(* The issue.                                                              *)
(***************************************************************************)
State == StateOf(job.found)

Fingerprint(signal) == signal

\* What the script takes for a prior outage: the issue reports one and nothing worse, or its
\* note says that one is unverified.
TellsOutage(body) == body.state = "upstream-unavailable" \/ body.unresolved

OpenIssues == {n \in DOMAIN issues : issues[n].open}
NewestOpen == {n \in OpenIssues : \A m \in OpenIssues : m <= n}

PriorOutage(n) == n # 0 /\ TellsOutage(issues[n].body)

Finish == job' = [job EXCEPT !.pc = "done"]

\* A check of the dates is no evidence that upstream has recovered.
Unverified(n) == PriorOutage(n) /\ ~ job.checked

\* Bodies are written by the runs alone, so that the issue and its body are one read.
ListOpen ==
    /\ job.pc = "list"
    /\ LET found == [job EXCEPT !.pc = IF State = "warning" THEN "closed" ELSE "act"]
       IN  \/ /\ OpenIssues = {}
              /\ job' = found
           \/ \E n \in NewestOpen :
                 job' = [found EXCEPT !.issue = n,
                     !.pc = IF Unverified(n) /\ State \in {"ok", "warning"} THEN "done" ELSE @]
    /\ UNCHANGED <<world, hand, issues>>

\* Fault: whatever was closed is acknowledged.
AnyAcknowledgement(issue) == issue.reason = "completed"

Acknowledges(issue) ==
    issue.reason = "completed" /\ issue.body.marker = Fingerprint(job.found)

ListClosed ==
    /\ job.pc = "closed"
    /\ job' = [job EXCEPT !.pc = "act",
          !.acknowledged = \E n \in DOMAIN issues : ~ issues[n].open /\ Acknowledges(issues[n])]
    /\ UNCHANGED <<world, hand, issues>>

\* Fault: an outage that upstream was not asked about is not noted.
NewBodyWithoutNote ==
    [marker |-> Fingerprint(job.found), state |-> State, unresolved |-> FALSE]

NewBody == [marker |-> Fingerprint(job.found), state |-> State,
            unresolved |-> Unverified(job.issue)]

Recovered ==
    /\ PriorOutage(job.issue) /\ job.checked
    /\ State = "ok" \/ (State = "warning" /\ job.acknowledged)

\* Fault: a body with the same marker is always kept.
SameMarker == issues[job.issue].body.marker = Fingerprint(job.found)

SameAttention ==
    /\ issues[job.issue].body.marker = Fingerprint(job.found)
    /\ ~ (PriorOutage(job.issue) /\ job.checked /\ State # "upstream-unavailable")

\* An issue that a person has closed meanwhile stays as it is.
CloseRecovered ==
    /\ job.pc = "act"
    /\ Recovered
    /\ issues' = IF issues[job.issue].open
                 THEN [issues EXCEPT ![job.issue].open = FALSE, ![job.issue].reason = "completed"]
                 ELSE issues
    /\ Finish
    /\ UNCHANGED <<world, hand>>

NothingToTell ==
    /\ job.pc = "act"
    /\ ~ Recovered
    /\ \/ State = "ok"
       \/ job.issue # 0 /\ SameAttention
       \/ job.issue = 0 /\ job.acknowledged
    /\ Finish
    /\ UNCHANGED <<world, hand, issues>>

\* The body is replaced, open or not.
EditIssue ==
    /\ job.pc = "act"
    /\ ~ Recovered /\ State # "ok"
    /\ job.issue # 0 /\ ~ SameAttention
    /\ issues' = [issues EXCEPT ![job.issue].body = NewBody]
    /\ Finish
    /\ UNCHANGED <<world, hand>>

CreateIssue ==
    /\ job.pc = "act"
    /\ State # "ok"
    /\ job.issue = 0 /\ ~ job.acknowledged
    /\ issues' = Append(issues, [open |-> TRUE, reason |-> "none", body |-> NewBody])
    /\ Finish
    /\ UNCHANGED <<world, hand>>

JobFails ==
    /\ job.pc \notin {"idle", "done"}
    /\ hand < MaxHand
    /\ hand' = hand + 1
    /\ job' = NoJob
    /\ UNCHANGED <<world, issues>>

JobStep ==
    \/ Check \/ ListOpen \/ ListClosed
    \/ CloseRecovered \/ NothingToTell \/ EditIssue \/ CreateIssue

LifecycleNext ==
    \/ Change
    \/ \E n \in DOMAIN issues : CloseIssue(n) \/ ReopenIssue(n)
    \/ \E checked \in BOOLEAN : StartJob(checked)
    \/ JobStep
    \/ JobFails

\* Runs end, and of those that begin some ask upstream.
LifecycleFairness == WF_lifecycleVars(JobStep) /\ SF_lifecycleVars(StartJob(TRUE))

LifecycleSpec == LifecycleInit /\ [][LifecycleNext]_lifecycleVars /\ LifecycleFairness

-----------------------------------------------------------------------------
LifecycleTypeOK ==
    /\ world \in [signal: Signals, changes: 0..MaxChanges]
    /\ hand \in 0..MaxHand
    /\ issues \in Seq(Issues)
    /\ job \in [pc: {"idle", "check", "list", "closed", "act", "done"}, checked: BOOLEAN,
                found: Signals, issue: Nat, acknowledged: BOOLEAN, disturbed: BOOLEAN]
    /\ job.issue \in DOMAIN issues \cup {0}

Tells(signal) == \E n \in OpenIssues : issues[n].body.marker = signal
Acknowledged(signal) ==
    \E n \in DOMAIN issues :
        ~ issues[n].open /\ issues[n].reason = "completed" /\ issues[n].body.marker = signal

\* "never suppress EOL, mismatch, or upstream failures": what the last run found, and
\* nobody has closed since it began, is what an open issue tells.  Only a warning may be
\* missing, when that very warning was acknowledged, or while an outage waits for a run
\* that asks upstream.
AttentionIsTold ==
    job.pc = "done" /\ ~ job.disturbed /\ State # "ok" =>
        \/ Tells(job.found)
        \/ /\ State = "warning"
           /\ \/ Acknowledged(job.found)
              \/ ~ job.checked /\ \E n \in OpenIssues : TellsOutage(issues[n].body)

\* An issue that reports an outage and nothing worse, or notes that one is unverified,
\* ceases to, or is closed by a run, only when that run has asked upstream, however dates
\* and runs come.  (Of an outage reported beside something worse see DateOnlyIsNoEvidence.)
OutageNeedsUpstream ==
    [][hand' = hand =>
          \A n \in OpenIssues :
             TellsOutage(issues[n].body) =>
                job.checked \/ (issues'[n].open /\ TellsOutage(issues'[n].body))]_lifecycleVars

ListsOutage(body) == body.unresolved \/ body.marker.faults \cap Outages # {}

\* "A date-only check is not evidence that the network source recovered": no run that has
\* not asked upstream takes an outage off an open issue, alone or beside something worse.
DateOnlyIsNoEvidence ==
    [][hand' = hand =>
          \A n \in OpenIssues :
             ListsOutage(issues[n].body) =>
                job.checked \/ (issues'[n].open /\ ListsOutage(issues'[n].body))]_lifecycleVars

Reporting == job.pc \notin {"idle", "done"}

OutageTold == \E n \in NewestOpen : TellsOutage(issues[n].body)
Down == world.signal.faults \cap Outages # {}

\* The newest open issue, the only one that runs look at, follows upstream: an outage that
\* lasts, with nothing worse, is told for good, and one that is over is told no longer.
OutageIsFollowed ==
    /\ <>[](Down /\ StateOf(world.signal) = "upstream-unavailable") => <>[]OutageTold
    /\ <>[]~Down => <>[]~OutageTold
===============================================================================
