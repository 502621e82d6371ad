----------------------------- MODULE ChecksGate -----------------------------
(***************************************************************************)
(* The last gate before a dependency request is merged without a person:   *)
(* wait-for-pr-checks.py, run until its timeout, run once more, and the    *)
(* merge of the exact head.                                                *)
(*                                                                         *)
(* Checks and workflow runs are read from two interfaces, one after the    *)
(* other, while runs are queued, executed and run again.  A queued attempt *)
(* has no jobs, so the list of checks still shows the attempt before.      *)
(***************************************************************************)
EXTENDS Naturals

CONSTANTS
    Workflows,    \* the workflows a push to the branch starts
    Smoke,        \* ... of which the smoke test must be there
    Statuses,     \* commit statuses of external services
    MaxRuns,      \* bound: runs of a workflow
    MaxAttempts,  \* bound: attempts of a run
    MaxBase       \* bound: moves of main

ASSUME SmokeAssumption == Smoke \in Workflows
ASSUME StatusesAssumption == Statuses \cap Workflows = {}
ASSUME GateBoundsAssumption == MaxRuns \in Nat /\ MaxAttempts \in Nat /\ MaxBase \in Nat

VARIABLES
    request,  \* the pull request: open, at the tested head, and its base
    latest,   \* the newest run of each workflow for that head
    shown,    \* the list of checks and statuses
    gate,     \* the job that waits and merges
    green     \* history: was everything green when this inspection read the checks

gateVars == <<request, latest, shown, gate, green>>
environment == <<request, latest, shown>>

RunStates == {"none", "queued", "in_progress", "success", "failure"}
RunAttempts == [id: Nat, attempt: Nat, state: RunStates]
NoRun == [id |-> 0, attempt |-> 0, state |-> "none"]
\* Fault: a status is kept under the name it was posted with.
StatusAsPosted(state) ==
    [NoRun EXCEPT !.state = IF state = "in_progress" THEN "pending" ELSE state]

Status(state) == [NoRun EXCEPT !.state = state]
Checks == Workflows \cup Statuses

Inspecting == {"pr", "checks", "runs", "again"}
Ended == {"merged", "blocked"}

\* What an inspection saw; the first one has none to be compared with.
Snapshots == [base: Nat, checks: [Checks -> RunAttempts], runs: [Workflows -> RunAttempts]]
NoSnapshot == [base |-> 0, checks |-> [c \in Checks |-> NoRun],
               runs |-> [w \in Workflows |-> NoRun]]
NoGate == [pc |-> "idle", once |-> FALSE, expired |-> FALSE, pending |-> FALSE,
           seen |-> NoSnapshot, last |-> NoSnapshot]

GateInit ==
    /\ request = [open |-> TRUE, head |-> TRUE, base |-> 0]
    /\ latest = [w \in Workflows |-> NoRun]
    /\ shown = [c \in Checks |-> NoRun]
    /\ gate = NoGate
    /\ green = FALSE

-----------------------------------------------------------------------------
(***************************************************************************)
(* The repository, and what people do.                                     *)
(***************************************************************************)
\* Bound: what happens to the request after the job has ended is left out.
Watched == gate.pc \notin Ended

NewRun(w) ==
    /\ Watched
    /\ latest[w].id < MaxRuns
    /\ latest' = [latest EXCEPT ![w] = [id |-> @.id + 1, attempt |-> 1, state |-> "queued"]]
    /\ UNCHANGED <<request, shown, gate, green>>

Proceed(w) ==
    /\ Watched
    /\ \/ /\ latest[w].state = "queued"
          /\ latest' = [latest EXCEPT ![w].state = "in_progress"]
       \/ /\ latest[w].state = "in_progress"
          /\ \E state \in {"success", "failure"} : latest' = [latest EXCEPT ![w].state = state]
    /\ UNCHANGED <<request, shown, gate, green>>

RunAgain(w) ==
    /\ Watched
    /\ latest[w].state \in {"success", "failure"}
    /\ latest[w].attempt < MaxAttempts
    /\ latest' = [latest EXCEPT ![w].attempt = @ + 1, ![w].state = "queued"]
    /\ UNCHANGED <<request, shown, gate, green>>

\* The jobs of a run appear in the list, or change there.
Show(w) ==
    /\ Watched
    /\ latest[w].state \in {"in_progress", "success", "failure"}
    /\ shown[w] # latest[w]
    /\ shown' = [shown EXCEPT ![w] = latest[w]]
    /\ UNCHANGED <<request, latest, gate, green>>

Post(s) ==
    /\ Watched
    /\ \E state \in {"in_progress", "success", "failure"} :
          /\ shown[s] # Status(state)
          /\ shown' = [shown EXCEPT ![s] = Status(state)]
    /\ UNCHANGED <<request, latest, gate, green>>

\* The request is closed, its head moves, or main does.
Disturb ==
    /\ Watched
    /\ \/ request.open /\ request' = [request EXCEPT !.open = FALSE]
       \/ request.head /\ request' = [request EXCEPT !.head = FALSE]
       \/ request.base < MaxBase /\ request' = [request EXCEPT !.base = @ + 1]
    /\ UNCHANGED <<latest, shown, gate, green>>

-----------------------------------------------------------------------------
(***************************************************************************)
(* The gate.                                                               *)
(***************************************************************************)
Green(state) == state \in {"none", "success"}

AllGreen ==
    /\ \A c \in Checks : Green(shown[c].state)
    /\ \A w \in Workflows : Green(latest[w].state)
    /\ shown[Smoke].state = "success" /\ latest[Smoke].state = "success"

StartGate ==
    /\ gate.pc = "idle"
    /\ gate' = [gate EXCEPT !.pc = "pr"]
    /\ UNCHANGED <<environment, green>>

Block == gate' = [NoGate EXCEPT !.pc = "blocked"]

ValidPR == request.open /\ request.head

ReadPR ==
    /\ gate.pc = "pr"
    /\ IF ValidPR THEN gate' = [gate EXCEPT !.pc = "checks", !.seen.base = request.base]
       ELSE Block
    /\ UNCHANGED <<environment, green>>

\* One check that has failed is enough; one that has not ended, or a smoke test that is
\* not there, is waited for.
Failing(seen, names) == \E c \in names : seen[c].state = "failure"
Pending(seen, names) == seen[Smoke].state = "none" \/ \E c \in names : ~ Green(seen[c].state)

ReadChecks ==
    /\ gate.pc = "checks"
    /\ IF Failing(shown, Checks) THEN Block
       ELSE gate' = [gate EXCEPT !.pc = "runs", !.seen.checks = shown,
                                 !.pending = Pending(shown, Checks)]
    /\ green' = AllGreen
    /\ UNCHANGED environment

\* Fault: a fingerprint that does not tell the attempts of a run apart.
WithoutAttempts(runs) == [w \in Workflows |-> [runs[w] EXCEPT !.attempt = 0]]

\* What the fingerprint keeps of the runs.
Identified(runs) == runs

ReadRuns ==
    /\ gate.pc = "runs"
    /\ IF Failing(latest, Workflows) THEN Block
       ELSE gate' = [gate EXCEPT !.pc = "again", !.seen.runs = Identified(latest),
                                 !.pending = @ \/ Pending(latest, Workflows)]
    /\ UNCHANGED <<environment, green>>

\* Fault: the wait has no deadline.
GivesUpOnce == gate.once
GivesUp == gate.once \/ gate.expired

Passes == ~ gate.pending /\ (gate.once \/ gate.last = gate.seen)

\* The request is read a second time, and the inspection is compared with the one before.
\* The gate runs to its deadline first, and once more with the token that may merge.
Decide ==
    /\ gate.pc = "again"
    /\ IF ~ ValidPR \/ request.base # gate.seen.base THEN Block
       ELSE IF Passes
       THEN gate' = [NoGate EXCEPT !.pc = IF gate.once THEN "merge" ELSE "pr", !.once = TRUE]
       ELSE IF GivesUp THEN Block
       ELSE gate' = [gate EXCEPT !.pc = "pr", !.seen = NoSnapshot,
                                 !.last = IF gate.pending THEN NoSnapshot ELSE gate.seen]
    /\ green' = FALSE
    /\ UNCHANGED environment

\* An interface does not answer, or lists more or fewer runs than it counts.
NoAnswer ==
    /\ gate.pc \in Inspecting
    /\ Block
    /\ UNCHANGED <<environment, green>>

Expire ==
    /\ gate.pc \in Inspecting /\ ~ gate.once /\ ~ gate.expired
    /\ gate' = [gate EXCEPT !.expired = TRUE]
    /\ UNCHANGED <<environment, green>>

\* The merge names the head; the rules of main may refuse it still.
MergeHead ==
    /\ gate.pc = "merge"
    /\ \/ /\ ValidPR
          /\ request' = [request EXCEPT !.open = FALSE]
          /\ gate' = [NoGate EXCEPT !.pc = "merged"]
       \/ Block /\ UNCHANGED request
    /\ UNCHANGED <<latest, shown, green>>

GateStep == ReadPR \/ ReadChecks \/ ReadRuns \/ Decide \/ NoAnswer \/ MergeHead

GateNext ==
    \/ \E w \in Workflows : NewRun(w) \/ Proceed(w) \/ RunAgain(w) \/ Show(w)
    \/ \E s \in Statuses : Post(s)
    \/ Disturb
    \/ StartGate
    \/ GateStep
    \/ Expire

\* The job is scheduled, and its clock does not stop.
GateFairness == WF_gateVars(GateStep) /\ WF_gateVars(Expire)

GateSpec == GateInit /\ [][GateNext]_gateVars /\ GateFairness

-----------------------------------------------------------------------------
GateTypeOK ==
    /\ request \in [open: BOOLEAN, head: BOOLEAN, base: Nat]
    /\ latest \in [Workflows -> RunAttempts]
    /\ shown \in [Checks -> RunAttempts]
    /\ gate \in [pc: {"idle", "merge"} \cup Inspecting \cup Ended,
                 once: BOOLEAN, expired: BOOLEAN, pending: BOOLEAN,
                 seen: Snapshots, last: Snapshots]
    /\ green \in BOOLEAN

\* wait-for-pr-checks.py reads checks and runs one after the other, and a run that is
\* started again is green in the list of checks while it is queued.  Two equal inspections
\* are enough nevertheless: when the wait passes, every check and every run was green at
\* one and the same moment, when the second inspection read the checks.
PassWasGreen == [][~ gate.once /\ gate'.once => green]_gateVars

\* The job has begun to wait and has neither merged nor given up.
GateWaits == gate.pc \notin {"idle"} \cup Ended
=============================================================================
