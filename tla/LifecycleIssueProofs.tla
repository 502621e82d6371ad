------------------------- MODULE LifecycleIssueProofs -------------------------
(***************************************************************************)
(* What the lifecycle job tells, for any dates, faults, people and runs.   *)
(*                                                                         *)
(* The job reads the open issue, then the closed ones, then acts.  As long *)
(* as nobody has closed or opened an issue meanwhile, what it has read is  *)
(* still so when it acts: people and the job itself are the only ones who  *)
(* touch issues.                                                           *)
(***************************************************************************)
EXTENDS LifecycleIssue, SequenceTheorems, TLAPS

\* What an undisturbed run knows once it has looked for the open issue.
KnowsOpen ==
    /\ job.pc \in {"check", "list"} => job.issue = 0
    /\ job.pc \in {"closed", "act"} /\ ~ job.disturbed =>
          IF job.issue = 0 THEN OpenIssues = {} ELSE issues[job.issue].open

\* An acknowledgement is that of a warning, which a closed issue still shows.
KnowsClosed ==
    /\ job.acknowledged => job.pc \in {"act", "done"} /\ State = "warning"
    /\ job.pc = "closed" => State = "warning"
    /\ job.pc = "act" /\ ~ job.disturbed /\ job.acknowledged => Acknowledged(job.found)

LifecycleInv == LifecycleTypeOK /\ KnowsOpen /\ KnowsClosed /\ AttentionIsTold

Pcs == {"idle", "check", "list", "closed", "act", "done"}
JobType == [pc: Pcs, checked: BOOLEAN, found: Signals, issue: Nat,
            acknowledged: BOOLEAN, disturbed: BOOLEAN]

-----------------------------------------------------------------------------
LEMMA NoJobType == NoJob \in JobType /\ NoJob.issue = 0 /\ NoJob.pc = "idle" /\ ~ NoJob.acknowledged
<1>1. PICK d \in Dates : TRUE BY DatesAssumption
<1>2. [dates |-> d, faults |-> {}] \in Signals BY DEF Signals
<1>3. (CHOOSE s \in Signals : TRUE) \in Signals BY <1>2
<1> QED BY <1>3 DEF NoJob, JobType, Pcs

LEMMA StateType ==
    ASSUME NEW signal \in Signals
    PROVE  StateOf(signal) \in States
BY DatesAssumption DEF StateOf, States, Signals

LEMMA NewBodyType ==
    ASSUME LifecycleTypeOK
    PROVE  NewBody \in Bodies
<1>1. job.found \in Signals /\ job.checked \in BOOLEAN BY DEF LifecycleTypeOK
<1>2. State \in States BY <1>1, StateType DEF State
<1>3. Unverified(job.issue) \in BOOLEAN BY DEF Unverified, PriorOutage, TellsOutage
<1> QED BY <1>1, <1>2, <1>3 DEF NewBody, Bodies, Fingerprint

LEMMA OneIssueReplaced ==
    ASSUME LifecycleTypeOK, NEW n \in DOMAIN issues, NEW issue \in Issues,
           issues' = [issues EXCEPT ![n] = issue]
    PROVE  /\ issues' \in Seq(Issues) /\ DOMAIN issues' = DOMAIN issues
           /\ issues'[n] = issue
           /\ \A m \in DOMAIN issues \ {n} : issues'[m] = issues[m]
<1>1. issues \in Seq(Issues) /\ n \in 1..Len(issues) BY DEF LifecycleTypeOK
<1>2. issues' \in Seq(Issues) BY <1>1, ExceptSeq
<1> QED BY <1>1, <1>2

LEMMA JobTypeEquiv == LifecycleTypeOK <=>
    /\ world \in [signal: Signals, changes: 0..MaxChanges]
    /\ hand \in 0..MaxHand
    /\ issues \in Seq(Issues)
    /\ job \in JobType
    /\ job.issue \in DOMAIN issues \cup {0}
BY DEF LifecycleTypeOK, JobType, Pcs

-----------------------------------------------------------------------------
\* The steps of time and of people.
LEMMA OthersKeep ==
    ASSUME LifecycleInv,
           \/ Change
           \/ \E n \in DOMAIN issues : CloseIssue(n) \/ ReopenIssue(n)
    PROVE  LifecycleInv'
<1> USE DEF LifecycleInv
<1>1. CASE Change
  <2>1. PICK s \in Signals : world' = [signal |-> s, changes |-> world.changes + 1]
    BY <1>1 DEF Change
  <2>2. world.changes + 1 \in 0..MaxChanges
    BY <1>1, LifecycleBoundsAssumption DEF Change, LifecycleTypeOK
  <2>3. world' \in [signal: Signals, changes: 0..MaxChanges] BY <2>1, <2>2
  <2>4. UNCHANGED <<hand, issues, job>> BY <1>1 DEF Change
  <2>5. LifecycleTypeOK' BY <2>3, <2>4 DEF LifecycleTypeOK
  <2> QED BY <2>4, <2>5 DEF KnowsOpen, KnowsClosed, AttentionIsTold, OpenIssues, State,
                            Tells, Acknowledged, TellsOutage
<1>2. ASSUME NEW n \in DOMAIN issues, CloseIssue(n) \/ ReopenIssue(n)
      PROVE  LifecycleInv'
  <2>0. issues[n] \in Issues BY DEF LifecycleTypeOK
  <2>1. PICK issue \in Issues : Person(n, issue)
    <3>1. CASE CloseIssue(n)
      <4>1. PICK reason \in {"completed", "not_planned"} :
               Person(n, [issues[n] EXCEPT !.open = FALSE, !.reason = reason])
        BY <3>1 DEF CloseIssue
      <4>2. [issues[n] EXCEPT !.open = FALSE, !.reason = reason] \in Issues BY <2>0 DEF Issues
      <4> QED BY <4>1, <4>2
    <3>2. CASE ReopenIssue(n)
      <4>1. [issues[n] EXCEPT !.open = TRUE, !.reason = "none"] \in Issues BY <2>0 DEF Issues
      <4> QED BY <3>2, <4>1 DEF ReopenIssue
    <3> QED BY <1>2, <3>1, <3>2
  <2>2. /\ hand' = hand + 1 /\ hand < MaxHand /\ world' = world
        /\ issues' = [issues EXCEPT ![n] = issue]
        /\ job' = [job EXCEPT !.disturbed = TRUE]
    BY <2>1 DEF Person
  <2>3. issues' \in Seq(Issues) /\ DOMAIN issues' = DOMAIN issues
    BY <2>2, OneIssueReplaced
  <2>4. /\ job' \in JobType /\ job'.disturbed /\ job'.issue = job.issue /\ job'.pc = job.pc
        /\ job'.acknowledged = job.acknowledged /\ job'.found = job.found
    BY <2>2, JobTypeEquiv DEF JobType
  <2>5. hand' \in 0..MaxHand BY <2>2, LifecycleBoundsAssumption DEF LifecycleTypeOK
  <2>6. LifecycleTypeOK' BY <2>2, <2>3, <2>4, <2>5 DEF LifecycleTypeOK, JobType, Pcs
  <2> QED BY <2>4, <2>6 DEF KnowsOpen, KnowsClosed, AttentionIsTold, State
<1> QED BY <1>1, <1>2

-----------------------------------------------------------------------------
LEMMA StartsKeep ==
    ASSUME LifecycleInv, (\E checked \in BOOLEAN : StartJob(checked)) \/ JobFails
    PROVE  LifecycleInv'
<1> USE DEF LifecycleInv
<1>1. ASSUME NEW checked \in BOOLEAN, StartJob(checked) PROVE LifecycleInv'
  <2>1. /\ job' = [NoJob EXCEPT !.pc = "check", !.checked = checked]
        /\ UNCHANGED <<world, hand, issues>>
    BY <1>1 DEF StartJob
  <2>2. job' \in JobType /\ job'.pc = "check" /\ job'.issue = 0 /\ ~ job'.acknowledged
    BY <2>1, NoJobType DEF JobType, Pcs
  <2>3. LifecycleTypeOK' BY <2>1, <2>2 DEF LifecycleTypeOK, JobType, Pcs
  <2> QED BY <2>2, <2>3 DEF KnowsOpen, KnowsClosed, AttentionIsTold
<1>2. CASE JobFails
  <2>1. job' = NoJob /\ hand < MaxHand /\ hand' = hand + 1 /\ UNCHANGED <<world, issues>>
    BY <1>2 DEF JobFails
  <2>2. hand' \in 0..MaxHand BY <2>1, LifecycleBoundsAssumption DEF LifecycleTypeOK
  <2>3. LifecycleTypeOK' BY <2>1, <2>2, NoJobType DEF LifecycleTypeOK, JobType, Pcs
  <2> QED BY <2>1, <2>3, NoJobType DEF KnowsOpen, KnowsClosed, AttentionIsTold
<1> QED BY <1>1, <1>2

LEMMA ReadsKeep ==
    ASSUME LifecycleInv, Check \/ ListOpen \/ ListClosed
    PROVE  LifecycleInv'
<1> USE DEF LifecycleInv
<1>0. job \in JobType BY JobTypeEquiv
<1>1. CASE Check
  <2> DEFINE found == [dates |-> world.signal.dates,
                       faults |-> IF job.checked THEN world.signal.faults ELSE {}]
  <2>1. job' = [job EXCEPT !.pc = "list", !.found = found] /\ UNCHANGED <<world, hand, issues>>
    BY <1>1 DEF Check
  <2>2. found \in Signals BY DEF LifecycleTypeOK, Signals
  <2>3. /\ job' \in JobType /\ job'.pc = "list" /\ job'.issue = job.issue
        /\ job'.acknowledged = job.acknowledged
    BY <1>0, <2>1, <2>2 DEF JobType, Pcs
  <2>4. LifecycleTypeOK' BY <2>1, <2>3 DEF LifecycleTypeOK, JobType, Pcs
  <2>5. ~ job.acknowledged /\ job.issue = 0 BY <1>1 DEF Check, KnowsClosed, KnowsOpen
  <2> QED BY <2>3, <2>4, <2>5 DEF KnowsOpen, KnowsClosed, AttentionIsTold
<1>2. CASE ListOpen
  <2> DEFINE next == IF State = "warning" THEN "closed" ELSE "act"
  <2>0. /\ ~ job.acknowledged /\ UNCHANGED <<world, hand, issues>>
        /\ job.issue = 0
    BY <1>2 DEF ListOpen, KnowsClosed, KnowsOpen
  <2>1. CASE OpenIssues = {} /\ job' = [job EXCEPT !.pc = next]
    <3>1. /\ job' \in JobType /\ job'.pc = next /\ job'.issue = job.issue /\ job'.found = job.found
          /\ ~ job'.acknowledged
      BY <1>0, <2>0, <2>1 DEF JobType, Pcs
    <3>2. LifecycleTypeOK' BY <2>0, <3>1 DEF LifecycleTypeOK, JobType, Pcs
    <3> QED BY <2>0, <2>1, <3>1, <3>2
        DEF KnowsOpen, KnowsClosed, AttentionIsTold, OpenIssues, State
  <2>2. CASE \E n \in NewestOpen :
                job' = [job EXCEPT !.issue = n,
                   !.pc = IF Unverified(n) /\ State \in {"ok", "warning"} THEN "done" ELSE next]
    <3>1. PICK n \in NewestOpen :
             job' = [job EXCEPT !.issue = n,
                !.pc = IF Unverified(n) /\ State \in {"ok", "warning"} THEN "done" ELSE next]
      BY <2>2
    <3> DEFINE quits == Unverified(n) /\ State \in {"ok", "warning"}
    <3>2. n \in OpenIssues /\ n \in DOMAIN issues /\ issues[n].open /\ n \in Nat /\ n # 0
      BY DEF NewestOpen, OpenIssues, LifecycleTypeOK
    <3>3. /\ job' \in JobType /\ job'.pc = (IF quits THEN "done" ELSE next) /\ job'.issue = n
          /\ job'.found = job.found /\ ~ job'.acknowledged /\ job'.checked = job.checked
      BY <1>0, <2>0, <3>1, <3>2 DEF JobType, Pcs
    <3>4. LifecycleTypeOK' BY <2>0, <3>2, <3>3 DEF LifecycleTypeOK, JobType, Pcs
    <3>5. KnowsOpen' BY <2>0, <3>2, <3>3 DEF KnowsOpen
    <3>6. KnowsClosed' BY <2>0, <3>3 DEF KnowsClosed, State
    <3>7. AttentionIsTold'
      <4>1. quits => ~ job.checked /\ TellsOutage(issues[n].body) BY DEF Unverified, PriorOutage
      <4> QED BY <2>0, <3>2, <3>3, <4>1 DEF AttentionIsTold, State, OpenIssues, TellsOutage
    <3> QED BY <3>4, <3>5, <3>6, <3>7
  <2>3. \A n : [[job EXCEPT !.pc = next] EXCEPT !.issue = n,
                  !.pc = IF Unverified(n) /\ State \in {"ok", "warning"} THEN "done" ELSE @]
             = [job EXCEPT !.issue = n,
                  !.pc = IF Unverified(n) /\ State \in {"ok", "warning"} THEN "done" ELSE next]
    BY <1>0 DEF JobType
  <2>4. \/ OpenIssues = {} /\ job' = [job EXCEPT !.pc = next]
        \/ \E n \in NewestOpen : job' = [[job EXCEPT !.pc = next] EXCEPT !.issue = n,
                  !.pc = IF Unverified(n) /\ State \in {"ok", "warning"} THEN "done" ELSE @]
    BY <1>2, Zenon DEF ListOpen
  <2>5. \/ OpenIssues = {} /\ job' = [job EXCEPT !.pc = next]
        \/ \E n \in NewestOpen : job' = [job EXCEPT !.issue = n,
                  !.pc = IF Unverified(n) /\ State \in {"ok", "warning"} THEN "done" ELSE next]
    <3> HIDE DEF next
    <3> QED BY <2>3, <2>4, Zenon
  <2> QED BY <2>1, <2>2, <2>5
<1>3. CASE ListClosed
  <2> DEFINE acknowledged ==
        \E n \in DOMAIN issues : ~ issues[n].open /\ Acknowledges(issues[n])
  <2>1. /\ job' = [job EXCEPT !.pc = "act", !.acknowledged = acknowledged]
        /\ UNCHANGED <<world, hand, issues>> /\ State = "warning"
    BY <1>3 DEF ListClosed, KnowsClosed
  <2>2. /\ job' \in JobType /\ job'.pc = "act" /\ job'.issue = job.issue /\ job'.found = job.found
        /\ job'.acknowledged = acknowledged /\ job'.disturbed = job.disturbed
    BY <1>0, <2>1 DEF JobType, Pcs
  <2>3. LifecycleTypeOK' BY <2>1, <2>2 DEF LifecycleTypeOK, JobType, Pcs
  <2>4. acknowledged => Acknowledged(job.found)
    BY DEF Acknowledges, Acknowledged, Fingerprint
  <2>5. KnowsOpen' BY <1>3, <2>1, <2>2 DEF KnowsOpen, OpenIssues, ListClosed
  <2>6. KnowsClosed' BY <2>1, <2>2, <2>4 DEF KnowsClosed, State, Acknowledged
  <2> QED BY <2>2, <2>3, <2>5, <2>6 DEF AttentionIsTold
<1> QED BY <1>1, <1>2, <1>3

LEMMA IssueEdits ==
    ASSUME NEW i \in Issues, NEW body \in Bodies
    PROVE  /\ [i EXCEPT !.body = body] \in Issues
           /\ [i EXCEPT !.open = FALSE, !.reason = "completed"] \in Issues
BY DEF Issues

LEMMA ActsKeep ==
    ASSUME LifecycleInv, CloseRecovered \/ NothingToTell \/ EditIssue \/ CreateIssue
    PROVE  LifecycleInv'
<1> USE DEF LifecycleInv
<1>1. /\ job.pc = "act" /\ job' = [job EXCEPT !.pc = "done"] /\ UNCHANGED <<world, hand>>
      /\ State \in States /\ job \in JobType /\ issues \in Seq(Issues)
  <2>1. job \in JobType /\ issues \in Seq(Issues) BY JobTypeEquiv
  <2>2. State \in States BY <2>1, StateType DEF State, JobType
  <2> QED BY <2>1, <2>2 DEF CloseRecovered, NothingToTell, EditIssue, CreateIssue, Finish
<1>2. /\ job' \in JobType /\ job'.pc = "done" /\ job'.issue = job.issue /\ job'.found = job.found
      /\ job'.acknowledged = job.acknowledged /\ job'.disturbed = job.disturbed
      /\ job'.checked = job.checked
  BY <1>1 DEF JobType, Pcs
<1>3. State' = State BY <1>2 DEF State
<1>4. KnowsOpen' /\ KnowsClosed' BY <1>2, <1>3 DEF KnowsOpen, KnowsClosed
<1>5. issues' \in Seq(Issues) /\ job.issue \in (DOMAIN issues') \cup {0} => LifecycleTypeOK'
  BY <1>1, <1>2 DEF LifecycleTypeOK, JobType, Pcs
<1>6. job.issue \in DOMAIN issues \cup {0} BY DEF LifecycleTypeOK
<1>7. CASE CloseRecovered
  <2>1. /\ PriorOutage(job.issue)
        /\ State = "ok" \/ (State = "warning" /\ job.acknowledged)
        /\ issues' = IF issues[job.issue].open
                     THEN [issues EXCEPT ![job.issue].open = FALSE, ![job.issue].reason = "completed"]
                     ELSE issues
    BY <1>7 DEF CloseRecovered, Recovered
  <2> DEFINE n == job.issue
             closed == [issues[n] EXCEPT !.open = FALSE, !.reason = "completed"]
  <2>2. n \in DOMAIN issues BY <1>6, <2>1 DEF PriorOutage
  <2>3. closed \in Issues
    <3>1. issues[n] \in Issues
      <4> HIDE DEF n
      <4> QED BY <1>1, <2>2
    <3> QED BY <3>1, NewBodyType, IssueEdits
  <2>4. /\ issues' \in Seq(Issues) /\ DOMAIN issues' = DOMAIN issues
        /\ \A m \in DOMAIN issues : ~ issues[m].open => issues'[m] = issues[m]
    <3>1. CASE issues[n].open
      <4>1. issues' = [issues EXCEPT ![n] = closed] BY <2>1, <3>1
      <4>2. /\ issues' \in Seq(Issues) /\ DOMAIN issues' = DOMAIN issues
            /\ \A m \in DOMAIN issues \ {n} : issues'[m] = issues[m]
        <5> HIDE DEF n, closed
        <5> QED BY <2>2, <2>3, <4>1, OneIssueReplaced
      <4> QED BY <3>1, <4>2
    <3>2. CASE ~ issues[n].open BY <1>1, <2>1, <3>2
    <3> QED BY <3>1, <3>2
  <2>5. LifecycleTypeOK'
    <3> HIDE DEF n, closed
    <3> QED BY <1>5, <1>6, <2>4
  <2>6. AttentionIsTold'
    <3>1. ~ job.disturbed /\ State # "ok" => State = "warning" /\ Acknowledged(job.found)
      BY <1>1, <2>1 DEF KnowsClosed
    <3>2. Acknowledged(job.found) => Acknowledged(job.found)'
      BY <1>2, <2>4 DEF Acknowledged
    <3> QED BY <1>2, <1>3, <3>1, <3>2 DEF AttentionIsTold
  <2> QED BY <1>4, <2>5, <2>6
<1>8. CASE NothingToTell
  <2>1. /\ issues' = issues
        /\ \/ State = "ok"
           \/ job.issue # 0 /\ issues[job.issue].body.marker = Fingerprint(job.found)
           \/ job.issue = 0 /\ job.acknowledged
    BY <1>8 DEF NothingToTell, SameAttention
  <2>2. LifecycleTypeOK' BY <1>1, <1>5, <1>6, <2>1
  <2>3. ASSUME ~ job.disturbed, State # "ok"
        PROVE  Tells(job.found) \/ (State = "warning" /\ Acknowledged(job.found))
    <3>1. CASE job.issue # 0
      BY <1>1, <1>6, <2>1, <2>3, <3>1 DEF KnowsOpen, Tells, OpenIssues, Fingerprint
    <3>2. CASE job.issue = 0 BY <1>1, <2>1, <2>3, <3>2 DEF KnowsClosed
    <3> QED BY <3>1, <3>2
  <2>4. AttentionIsTold'
    BY <1>2, <1>3, <2>1, <2>3 DEF AttentionIsTold, Tells, Acknowledged, OpenIssues
  <2> QED BY <1>4, <2>2, <2>4
<1>9. CASE EditIssue
  <2> DEFINE n == job.issue
             edited == [issues[n] EXCEPT !.body = NewBody]
  <2>1. n \in DOMAIN issues /\ issues' = [issues EXCEPT ![n].body = NewBody]
    BY <1>6, <1>9 DEF EditIssue
  <2>2. edited \in Issues
    <3>1. issues[n] \in Issues
      <4> HIDE DEF n
      <4> QED BY <1>1, <2>1
    <3> QED BY <3>1, NewBodyType, IssueEdits
  <2>3. issues' = [issues EXCEPT ![n] = edited] BY <2>1
  <2>4. issues' \in Seq(Issues) /\ DOMAIN issues' = DOMAIN issues /\ issues'[n] = edited
    <3> HIDE DEF n, edited
    <3> QED BY <2>1, <2>2, <2>3, OneIssueReplaced
  <2>5. edited.open = issues[n].open /\ edited.body.marker = job.found
    BY <1>1, <2>1 DEF Issues, NewBody, Fingerprint
  <2>6. LifecycleTypeOK'
    <3> HIDE DEF n, edited
    <3> QED BY <1>5, <1>6, <2>4
  <2>7. ~ job.disturbed => Tells(job.found)'
    <3>1. ~ job.disturbed => issues[n].open BY <1>1, <1>9 DEF KnowsOpen, EditIssue
    <3> HIDE DEF edited
    <3> QED BY <1>2, <2>1, <2>4, <2>5, <3>1 DEF Tells, OpenIssues
  <2>8. AttentionIsTold' BY <1>2, <2>7 DEF AttentionIsTold
  <2> QED BY <1>4, <2>6, <2>8
<1>10. CASE CreateIssue
  <2> DEFINE new == [open |-> TRUE, reason |-> "none", body |-> NewBody]
  <2>1. issues' = Append(issues, new) BY <1>10 DEF CreateIssue
  <2>2. new \in Issues BY NewBodyType DEF Issues
  <2>3. new.open /\ new.body.marker = job.found BY DEF NewBody, Fingerprint
  <2>4. /\ issues' \in Seq(Issues) /\ DOMAIN issues' = 1..(Len(issues) + 1)
        /\ issues'[Len(issues) + 1] = new /\ DOMAIN issues = 1..Len(issues) /\ Len(issues) \in Nat
    <3> HIDE DEF new
    <3> QED BY <1>1, <2>1, <2>2, AppendProperties
  <2>5. LifecycleTypeOK' BY <1>5, <1>6, <2>4
  <2>6. Tells(job.found)'
    <3> HIDE DEF new
    <3> QED BY <1>2, <2>3, <2>4 DEF Tells, OpenIssues
  <2>7. AttentionIsTold' BY <1>2, <2>6 DEF AttentionIsTold
  <2> QED BY <1>4, <2>5, <2>7
<1> QED BY <1>7, <1>8, <1>9, <1>10

LEMMA LifecycleStutters ==
    ASSUME LifecycleInv, UNCHANGED lifecycleVars
    PROVE  LifecycleInv'
BY DEF LifecycleInv, lifecycleVars, LifecycleTypeOK, KnowsOpen, KnowsClosed, AttentionIsTold,
       OpenIssues, State, Tells, Acknowledged, TellsOutage

LEMMA LifecycleStarts == LifecycleInit => LifecycleInv
<1> SUFFICES ASSUME LifecycleInit PROVE LifecycleInv OBVIOUS
<1>1. issues \in Seq(Issues) /\ hand \in 0..MaxHand
  BY LifecycleBoundsAssumption DEF LifecycleInit
<1>2. world \in [signal: Signals, changes: 0..MaxChanges]
  BY LifecycleBoundsAssumption DEF LifecycleInit
<1>3. LifecycleTypeOK BY <1>1, <1>2, NoJobType, JobTypeEquiv DEF LifecycleInit
<1> QED BY <1>3, NoJobType DEF LifecycleInit, LifecycleInv, KnowsOpen, KnowsClosed, AttentionIsTold

LEMMA LifecycleInductive == LifecycleSpec => []LifecycleInv
<1>1. LifecycleInv /\ [LifecycleNext]_lifecycleVars => LifecycleInv'
  BY OthersKeep, StartsKeep, ReadsKeep, ActsKeep, LifecycleStutters DEF LifecycleNext, JobStep
<1> QED BY LifecycleStarts, <1>1, PTL DEF LifecycleSpec

-----------------------------------------------------------------------------
\* The issues and the job keep their types, for any dates and faults.
THEOREM LifecycleTypeCorrect == LifecycleSpec => []LifecycleTypeOK
<1>1. LifecycleInv => LifecycleTypeOK BY DEF LifecycleInv
<1> QED BY LifecycleInductive, <1>1, PTL

\* create-php-lifecycle-issue.sh never leaves untold what an undisturbed run has found, but an
\* acknowledged warning or one that waits behind an outage.
THEOREM Told == LifecycleSpec => []AttentionIsTold
<1>1. LifecycleInv => AttentionIsTold BY DEF LifecycleInv
<1> QED BY LifecycleInductive, <1>1, PTL

\* What create-php-lifecycle-issue.sh takes for a prior outage (reported with nothing worse,
\* or noted as unverified) no run takes off the issue without having asked upstream, however
\* many issues there are and whatever people do.
THEOREM OutageKept == LifecycleSpec => OutageNeedsUpstream
<1>1. LifecycleInv /\ [LifecycleNext]_lifecycleVars =>
        [hand' = hand =>
           \A n \in OpenIssues : TellsOutage(issues[n].body) =>
               job.checked \/ (issues'[n].open /\ TellsOutage(issues'[n].body))]_lifecycleVars
  <2> SUFFICES ASSUME LifecycleInv, LifecycleNext, hand' = hand,
                      NEW n \in OpenIssues, TellsOutage(issues[n].body), ~ job.checked
               PROVE  issues'[n].open /\ TellsOutage(issues'[n].body)
    OBVIOUS
  <2> USE DEF LifecycleInv
  <2>0. n \in DOMAIN issues /\ issues[n].open /\ n # 0 /\ issues[n] \in Issues
    BY DEF OpenIssues, LifecycleTypeOK
  <2>1. hand \in Nat BY DEF LifecycleTypeOK
  <2>2. CASE issues' = issues BY <2>0, <2>2
  <2>3. CASE EditIssue
    <3>1. job.issue \in DOMAIN issues /\ issues' = [issues EXCEPT ![job.issue].body = NewBody]
      BY <2>3 DEF EditIssue, LifecycleTypeOK
    <3>2. CASE n = job.issue
      <4>1. issues'[n] = [issues[n] EXCEPT !.body = NewBody] BY <2>0, <3>1, <3>2
      <4>2. issues'[n].open = issues[n].open /\ issues'[n].body = NewBody
        BY <2>0, <4>1 DEF Issues
      <4>3. PriorOutage(n) BY <2>0 DEF PriorOutage
      <4>4. NewBody.unresolved BY <3>2, <4>3 DEF NewBody, Unverified
      <4> QED BY <2>0, <4>2, <4>4 DEF TellsOutage
    <3>3. CASE n # job.issue BY <2>0, <3>1, <3>3
    <3> QED BY <3>2, <3>3
  <2>4. CASE CreateIssue
    <3>1. \E new : issues' = Append(issues, new) BY <2>4 DEF CreateIssue
    <3>2. issues \in Seq(Issues) BY DEF LifecycleTypeOK
    <3>3. issues'[n] = issues[n] BY <2>0, <3>1, <3>2
    <3> QED BY <2>0, <3>3
  <2>5. issues' = issues \/ EditIssue \/ CreateIssue
    <3>1. ~ CloseRecovered BY DEF CloseRecovered, Recovered
    <3>2. \A m, issue : ~ Person(m, issue) BY <2>1 DEF Person
    <3>3. \A m : ~ CloseIssue(m) /\ ~ ReopenIssue(m)
      BY <3>2, Zenon DEF CloseIssue, ReopenIssue
    <3> QED BY <3>1, <3>3
        DEF LifecycleNext, Change, StartJob, JobStep, Check, ListOpen, ListClosed, NothingToTell,
            JobFails
  <2> QED BY <2>2, <2>3, <2>4, <2>5
<1> QED BY LifecycleInductive, <1>1, PTL DEF LifecycleSpec, OutageNeedsUpstream
=============================================================================
