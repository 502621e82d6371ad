----------------------------- MODULE MCControls -----------------------------
(***************************************************************************)
(* Small instances of three jobs that keep watch beside publication: the   *)
(* gate before a merge, the pruning of Docker Hub, and the lifecycle       *)
(* issue.  They share no state, so that each is run by itself: part says   *)
(* which, and the other two stay as they begin.                            *)
(***************************************************************************)
EXTENDS ChecksGate, TagPrune, LifecycleIssue, TLC

CONSTANTS a, b, d1, fine, soon, over

Ranks == a :> 1 @@ b :> 2
Classes == fine :> "ok" @@ soon :> "warning" @@ over :> "eol"

VARIABLE part

allVars == <<part, gateVars, pruneVars, lifecycleVars>>

\* Digests are interchangeable and compared only for one tag, so that all tags may begin
\* with the same.
OneImage == \A t \in Tags \ Strange : hub[t] = d1

\* The lifecycle job begins with or without trouble upstream, and in one way only when it is
\* not the job that is run.
Calm ==
    /\ world.signal.dates = fine
    /\ part = "lifecycle" \/ world.signal.faults = {}

Init ==
    /\ GateInit
    /\ PruneInit /\ OneImage
    /\ part \in {"gate", "prune", "lifecycle"}
    /\ LifecycleInit /\ Calm

Next ==
    /\ UNCHANGED part
    /\ \/ part = "gate" /\ GateNext /\ UNCHANGED <<pruneVars, lifecycleVars>>
       \/ part = "prune" /\ PruneNext /\ UNCHANGED <<gateVars, lifecycleVars>>
       \/ part = "lifecycle" /\ LifecycleNext /\ UNCHANGED <<gateVars, pruneVars>>

\* A lifecycle run can be begun at any time, so that its fairness is asked of its part only.
Fairness ==
    /\ GateFairness /\ PruneFairness
    /\ WF_lifecycleVars(JobStep)
    /\ SF_lifecycleVars(part = "lifecycle" /\ StartJob(TRUE))

Spec == Init /\ [][Next]_allVars /\ Fairness

-----------------------------------------------------------------------------
\* A job that has begun ends: checks that come and go do not hold up the gate, whose wait
\* has a deadline and whose last inspection is made once, and a deleted tag that stays
\* listed for ever does not hold up the pruning.
Busy == GateWaits \/ Pruning \/ Reporting

JobsEnd == Busy ~> ~ Busy
=============================================================================
