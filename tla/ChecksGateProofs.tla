-------------------------- MODULE ChecksGateProofs --------------------------
(***************************************************************************)
(* Two equal inspections make one moment at which everything was green,    *)
(* for every number of workflows, runs and attempts.                       *)
(*                                                                         *)
(* A run that is green changes only into a later attempt or a later run.   *)
(* What an inspection saw green is therefore either there still or passed  *)
(* for good; if something was not green when the second inspection read    *)
(* the checks, it was passed by then, and the second one sees another run. *)
(***************************************************************************)
EXTENDS ChecksGate, TLAPS

Before(a, b) == a.id < b.id \/ (a.id = b.id /\ a.attempt < b.attempt)

Successful(runs) == runs[Smoke].state = "success" /\ \A w \in Workflows : Green(runs[w].state)

Since(runs) == \A w \in Workflows : runs[w] = latest[w] \/ Before(runs[w], latest[w])
Passed(runs) == \E w \in Workflows : Before(runs[w], latest[w])

LastInv == gate.last # NoSnapshot => Successful(gate.last.runs) /\ Since(gate.last.runs)

RunsInv ==
    gate.pc = "runs" /\ ~ gate.pending /\ gate.last # NoSnapshot /\ ~ green
       => Passed(gate.last.runs)

AgainInv ==
    gate.pc = "again" /\ ~ gate.pending =>
        /\ Successful(gate.seen.runs) /\ Since(gate.seen.runs)
        /\ gate.last # NoSnapshot /\ ~ green => gate.seen.runs # gate.last.runs

GateInv == GateTypeOK /\ LastInv /\ RunsInv /\ AgainInv

\* What the environment may do to the runs.
Moves ==
    \A w \in Workflows :
        \/ latest'[w] = latest[w]
        \/ Before(latest[w], latest'[w])
        \/ /\ ~ Green(latest[w].state)
           /\ latest'[w].id = latest[w].id /\ latest'[w].attempt = latest[w].attempt

-----------------------------------------------------------------------------
LEMMA NoRunType == NoRun \in RunAttempts
BY DEF NoRun, RunAttempts, RunStates

LEMMA NoGateType == NoSnapshot \in Snapshots /\ NoGate.seen = NoSnapshot /\ NoGate.last = NoSnapshot
BY NoRunType DEF NoSnapshot, Snapshots, NoGate

\* Before orders the runs of a workflow.
LEMMA BeforeOrders ==
    ASSUME NEW a \in RunAttempts, NEW b \in RunAttempts, NEW c \in RunAttempts
    PROVE  /\ Before(a, b) /\ Before(b, c) => Before(a, c)
           /\ Before(a, b) /\ b.id = c.id /\ b.attempt = c.attempt => Before(a, c)
           /\ Before(a, b) => a # b
BY DEF Before, RunAttempts

LEMMA EnvironmentTypes ==
    ASSUME GateTypeOK,
           \/ \E w \in Workflows : NewRun(w) \/ Proceed(w) \/ RunAgain(w) \/ Show(w)
           \/ \E s \in Statuses : Post(s)
           \/ Disturb
    PROVE  GateTypeOK' /\ Moves /\ UNCHANGED <<gate, green>>
<1> USE DEF GateTypeOK
<1>1. ASSUME NEW w \in Workflows, NewRun(w) PROVE GateTypeOK' /\ Moves /\ UNCHANGED <<gate, green>>
  <2>1. [id |-> latest[w].id + 1, attempt |-> 1, state |-> "queued"] \in RunAttempts
    BY DEF RunAttempts, RunStates
  <2>2. latest' \in [Workflows -> RunAttempts] BY <1>1, <2>1 DEF NewRun
  <2>3. latest'[w].id = latest[w].id + 1 /\ latest[w].id \in Nat BY <1>1 DEF NewRun, RunAttempts
  <2>4. \A v \in Workflows \ {w} : latest'[v] = latest[v] BY <1>1 DEF NewRun
  <2>5. Before(latest[w], latest'[w]) BY <2>3 DEF Before
  <2>6. Moves BY <2>4, <2>5 DEF Moves
  <2> QED BY <1>1, <2>2, <2>6 DEF NewRun
<1>2. ASSUME NEW w \in Workflows, Proceed(w) PROVE GateTypeOK' /\ Moves /\ UNCHANGED <<gate, green>>
  <2>1. PICK state \in RunStates : latest' = [latest EXCEPT ![w].state = state]
    BY <1>2 DEF Proceed, RunStates
  <2>2. latest' \in [Workflows -> RunAttempts] BY <2>1 DEF RunAttempts
  <2>3. latest'[w].id = latest[w].id /\ latest'[w].attempt = latest[w].attempt
    BY <2>1 DEF RunAttempts
  <2>4. \A v \in Workflows \ {w} : latest'[v] = latest[v] BY <2>1
  <2>5. ~ Green(latest[w].state) BY <1>2 DEF Proceed, Green
  <2>6. Moves BY <2>3, <2>4, <2>5 DEF Moves
  <2> QED BY <1>2, <2>2, <2>6 DEF Proceed
<1>3. ASSUME NEW w \in Workflows, RunAgain(w) PROVE GateTypeOK' /\ Moves /\ UNCHANGED <<gate, green>>
  <2>0. "queued" \in RunStates /\ latest[w].attempt \in Nat BY DEF RunStates, RunAttempts
  <2>1. latest' = [latest EXCEPT ![w] = [id |-> latest[w].id, attempt |-> latest[w].attempt + 1,
                                        state |-> "queued"]]
    BY <1>3 DEF RunAgain, RunAttempts
  <2>2. latest' \in [Workflows -> RunAttempts] BY <2>0, <2>1 DEF RunAttempts
  <2>3. latest'[w].id = latest[w].id /\ latest'[w].attempt = latest[w].attempt + 1
    BY <2>1 DEF RunAttempts
  <2>4. \A v \in Workflows \ {w} : latest'[v] = latest[v] BY <2>1
  <2>5. Before(latest[w], latest'[w]) BY <2>0, <2>3 DEF Before
  <2>6. Moves BY <2>4, <2>5 DEF Moves
  <2> QED BY <1>3, <2>2, <2>6 DEF RunAgain
<1>4. ASSUME NEW w \in Workflows, Show(w) PROVE GateTypeOK' /\ Moves /\ UNCHANGED <<gate, green>>
  <2>1. shown' \in [Checks -> RunAttempts] BY <1>4 DEF Show
  <2> QED BY <1>4, <2>1 DEF Show, Moves
<1>5. ASSUME NEW s \in Statuses, Post(s) PROVE GateTypeOK' /\ Moves /\ UNCHANGED <<gate, green>>
  <2>1. \A state \in {"in_progress", "success", "failure"} : Status(state) \in RunAttempts
    BY DEF Status, NoRun, RunAttempts, RunStates
  <2>2. shown' \in [Checks -> RunAttempts] BY <1>5, <2>1 DEF Post
  <2> QED BY <1>5, <2>2 DEF Post, Moves
<1>6. CASE Disturb
  <2> DEFINE Requests == [open: BOOLEAN, head: BOOLEAN, base: Nat]
  <2>0. request \in Requests /\ request.base + 1 \in Nat OBVIOUS
  <2>a. [request EXCEPT !.open = FALSE] \in Requests BY <2>0
  <2>b. [request EXCEPT !.head = FALSE] \in Requests BY <2>0
  <2>c. [request EXCEPT !.base = @ + 1] \in Requests BY <2>0
  <2>1. request' \in Requests BY <1>6, <2>a, <2>b, <2>c DEF Disturb
  <2> QED BY <1>6, <2>1 DEF Disturb, Moves
<1> QED BY <1>1, <1>2, <1>3, <1>4, <1>5, <1>6

\* What was seen green stays there or is passed.
LEMMA SinceMoves ==
    ASSUME GateTypeOK, GateTypeOK', Moves, NEW runs \in [Workflows -> RunAttempts]
    PROVE  /\ Successful(runs) /\ Since(runs) => Since(runs)'
           /\ Passed(runs) => Passed(runs)'
<1>1. ASSUME NEW w \in Workflows
      PROVE  /\ Before(runs[w], latest[w]) => Before(runs[w], latest'[w])
             /\ Green(runs[w].state) /\ runs[w] = latest[w] =>
                   runs[w] = latest'[w] \/ Before(runs[w], latest'[w])
  <2>1. runs[w] \in RunAttempts /\ latest[w] \in RunAttempts /\ latest'[w] \in RunAttempts
    BY DEF GateTypeOK
  <2>2. CASE latest'[w] = latest[w] BY <2>2
  <2>3. CASE Before(latest[w], latest'[w]) BY <2>1, <2>3, BeforeOrders
  <2>4. CASE /\ ~ Green(latest[w].state)
             /\ latest'[w].id = latest[w].id /\ latest'[w].attempt = latest[w].attempt
    BY <2>1, <2>4, BeforeOrders
  <2> QED BY <2>2, <2>3, <2>4 DEF Moves
<1>2. ASSUME Successful(runs), Since(runs) PROVE Since(runs)'
    BY <1>1, <1>2 DEF Successful, Since
<1>3. ASSUME Passed(runs) PROVE Passed(runs)'
    BY <1>1, <1>3 DEF Passed
<1> QED BY <1>2, <1>3

LEMMA EnvironmentKeeps ==
    ASSUME GateInv,
           \/ \E w \in Workflows : NewRun(w) \/ Proceed(w) \/ RunAgain(w) \/ Show(w)
           \/ \E s \in Statuses : Post(s)
           \/ Disturb
    PROVE  GateInv'
<1>1. GateTypeOK' /\ Moves /\ gate' = gate /\ green' = green
    BY EnvironmentTypes DEF GateInv
<1>2. gate.last.runs \in [Workflows -> RunAttempts] /\ gate.seen.runs \in [Workflows -> RunAttempts]
    BY DEF GateInv, GateTypeOK, Snapshots
<1>3. /\ Successful(gate.last.runs) /\ Since(gate.last.runs) => Since(gate.last.runs)'
      /\ Passed(gate.last.runs) => Passed(gate.last.runs)'
      /\ Successful(gate.seen.runs) /\ Since(gate.seen.runs) => Since(gate.seen.runs)'
  <2> DEFINE last == gate.last.runs  seen == gate.seen.runs
  <2>1. \A runs \in [Workflows -> RunAttempts] :
            /\ Successful(runs) /\ Since(runs) =>
                 \A w \in Workflows : runs[w] = latest'[w] \/ Before(runs[w], latest'[w])
            /\ Passed(runs) => \E w \in Workflows : Before(runs[w], latest'[w])
    BY <1>1, SinceMoves DEF GateInv, Since, Passed
  <2> QED BY <1>1, <1>2, <2>1 DEF Since, Passed
<1>4. LastInv' BY <1>1, <1>3 DEF GateInv, LastInv, Successful
<1>5. RunsInv' BY <1>1, <1>3 DEF GateInv, RunsInv
<1>6. AgainInv' BY <1>1, <1>3 DEF GateInv, AgainInv, Successful
<1> QED BY <1>1, <1>4, <1>5, <1>6 DEF GateInv

-----------------------------------------------------------------------------
\* The steps of the gate leave the runs as they are.
LEMMA LatestStays ==
    ASSUME latest' = latest, gate'.last = gate.last, LastInv
    PROVE  LastInv'
BY DEF LastInv, Since

LEMMA BlockKeeps ==
    ASSUME GateInv, Block, green' \in BOOLEAN, UNCHANGED environment
    PROVE  GateInv'
<1>1. /\ gate' = [pc |-> "blocked", once |-> FALSE, expired |-> FALSE, pending |-> FALSE,
                  seen |-> NoSnapshot, last |-> NoSnapshot]
    BY DEF Block, NoGate
<1>2. GateTypeOK' BY <1>1, NoGateType DEF GateInv, GateTypeOK, environment, Ended
<1> QED BY <1>1, <1>2 DEF GateInv, LastInv, RunsInv, AgainInv

LEMMA GateKeeps ==
    ASSUME GateInv, StartGate \/ GateStep \/ Expire
    PROVE  GateInv'
<1> USE DEF GateInv
<1>1. CASE StartGate
  <2>1. gate' = [gate EXCEPT !.pc = "pr"] /\ UNCHANGED <<environment, green>>
    BY <1>1 DEF StartGate
  <2>2. GateTypeOK' BY <2>1 DEF GateTypeOK, environment, Inspecting
  <2>3. gate'.pc = "pr" /\ gate'.last = gate.last BY <2>1 DEF GateTypeOK
  <2>4. LastInv' BY <2>1, <2>3, LatestStays DEF environment
  <2> QED BY <2>2, <2>3, <2>4 DEF RunsInv, AgainInv
<1>2. CASE ReadPR
  <2>1. CASE Block BY <1>2, <2>1, BlockKeeps DEF ReadPR, GateTypeOK
  <2>2. CASE gate' = [gate EXCEPT !.pc = "checks", !.seen.base = request.base]
    <3>1. UNCHANGED <<environment, green>> BY <1>2 DEF ReadPR
    <3>2. GateTypeOK' BY <2>2, <3>1 DEF GateTypeOK, environment, Inspecting, Snapshots
    <3>3. gate'.pc = "checks" /\ gate'.last = gate.last BY <2>2 DEF GateTypeOK
    <3>4. LastInv' BY <3>1, <3>3, LatestStays DEF environment
    <3> QED BY <3>2, <3>3, <3>4 DEF RunsInv, AgainInv
  <2> QED BY <1>2, <2>1, <2>2 DEF ReadPR
<1>3. CASE ReadChecks
  <2>0. green' = AllGreen /\ green' \in BOOLEAN /\ UNCHANGED environment
    BY <1>3 DEF ReadChecks, AllGreen
  <2>1. CASE Failing(shown, Checks) BY <1>3, <2>0, <2>1, BlockKeeps DEF ReadChecks
  <2>2. CASE ~ Failing(shown, Checks)
    <3>1. gate' = [gate EXCEPT !.pc = "runs", !.seen.checks = shown,
                               !.pending = Pending(shown, Checks)]
      BY <1>3, <2>2 DEF ReadChecks
    <3>2. Pending(shown, Checks) \in BOOLEAN BY DEF Pending
    <3>3. GateTypeOK' BY <2>0, <3>1, <3>2 DEF GateTypeOK, environment, Inspecting, Snapshots
    <3>4. /\ gate'.pc = "runs" /\ gate'.last = gate.last
          /\ gate'.pending = Pending(shown, Checks)
      BY <3>1 DEF GateTypeOK
    <3>5. LastInv' BY <2>0, <3>4, LatestStays DEF environment
    <3>6. RunsInv'
      <4> SUFFICES ASSUME ~ Pending(shown, Checks), gate.last # NoSnapshot, ~ AllGreen
                   PROVE  \E w \in Workflows : Before(gate.last.runs[w], latest[w])
        BY <2>0, <3>4 DEF RunsInv, Passed, environment
      <4>1. Smoke \in Workflows /\ Smoke \in Checks BY SmokeAssumption DEF Checks
      <4>2. /\ \A c \in Checks : Green(shown[c].state)
            /\ shown[Smoke].state = "success"
        BY <4>1 DEF Pending, Green
      <4>3. \E w \in Workflows : ~ Green(latest[w].state) \/ (w = Smoke /\ latest[w].state # "success")
        BY <4>1, <4>2 DEF AllGreen
      <4>4. PICK w \in Workflows :
               ~ Green(latest[w].state) \/ (w = Smoke /\ latest[w].state # "success")
        BY <4>3
      <4>5. Successful(gate.last.runs) /\ Since(gate.last.runs) BY DEF LastInv
      <4>6. gate.last.runs[w] # latest[w] BY <4>4, <4>5 DEF Successful
      <4> QED BY <4>5, <4>6 DEF Since
    <3> QED BY <3>3, <3>4, <3>5, <3>6 DEF AgainInv
  <2> QED BY <2>1, <2>2
<1>4. CASE ReadRuns
  <2>0. UNCHANGED <<environment, green>> BY <1>4 DEF ReadRuns
  <2>1. CASE Failing(latest, Workflows)
    BY <1>4, <2>0, <2>1, BlockKeeps DEF ReadRuns, GateTypeOK
  <2>2. CASE ~ Failing(latest, Workflows)
    <3> DEFINE pending == gate.pending \/ Pending(latest, Workflows)
    <3>1. gate' = [gate EXCEPT !.pc = "again", !.seen.runs = latest, !.pending = pending]
      BY <1>4, <2>2 DEF ReadRuns, Identified
    <3>2. pending \in BOOLEAN BY DEF Pending, GateTypeOK
    <3>3. GateTypeOK' BY <2>0, <3>1, <3>2 DEF GateTypeOK, environment, Inspecting, Snapshots
    <3>4. /\ gate'.pc = "again" /\ gate'.last = gate.last
          /\ gate'.pending = pending /\ gate'.seen.runs = latest
      BY <3>1 DEF GateTypeOK, Snapshots
    <3>5. LastInv' BY <2>0, <3>4, LatestStays DEF environment
    <3>6. AgainInv'
      <4> SUFFICES ASSUME ~ pending
                   PROVE  /\ Successful(latest)
                          /\ \A w \in Workflows : latest[w] = latest'[w]
                          /\ gate.last # NoSnapshot /\ ~ green => latest # gate.last.runs
        BY <2>0, <3>4 DEF AgainInv, Since, environment
      <4>1. /\ latest[Smoke].state # "none"
            /\ \A w \in Workflows : Green(latest[w].state)
        BY DEF Pending
      <4>2. Successful(latest) BY <4>1, SmokeAssumption DEF Successful, Green
      <4>3. ASSUME gate.last # NoSnapshot, ~ green PROVE latest # gate.last.runs
        <5>1. Passed(gate.last.runs) BY <1>4, <4>3 DEF RunsInv, ReadRuns
        <5>2. gate.last.runs \in [Workflows -> RunAttempts] /\ latest \in [Workflows -> RunAttempts]
          BY DEF GateTypeOK, Snapshots
        <5> QED BY <5>1, <5>2, BeforeOrders DEF Passed
      <4> QED BY <2>0, <4>2, <4>3 DEF environment
    <3> QED BY <3>3, <3>4, <3>5, <3>6 DEF RunsInv
  <2> QED BY <2>1, <2>2
<1>5. CASE Decide
  <2>0. UNCHANGED environment /\ green' = FALSE BY <1>5 DEF Decide
  <2>1. CASE Block BY <1>5, <2>0, <2>1, BlockKeeps
  <2>2. CASE gate' = [NoGate EXCEPT !.pc = IF gate.once THEN "merge" ELSE "pr", !.once = TRUE]
    <3>1. gate' = [pc |-> IF gate.once THEN "merge" ELSE "pr", once |-> TRUE, expired |-> FALSE,
                   pending |-> FALSE, seen |-> NoSnapshot, last |-> NoSnapshot]
      BY <2>2 DEF NoGate
    <3>2. GateTypeOK' BY <2>0, <3>1, NoGateType DEF GateTypeOK, environment, Inspecting
    <3>3. gate'.pc \in {"merge", "pr"} /\ gate'.last = NoSnapshot BY <3>1
    <3> QED BY <3>2, <3>3 DEF LastInv, RunsInv, AgainInv
  <2>3. CASE gate' = [gate EXCEPT !.pc = "pr", !.seen = NoSnapshot,
                                  !.last = IF gate.pending THEN NoSnapshot ELSE gate.seen]
    <3>1. GateTypeOK' BY <2>0, <2>3, NoGateType DEF GateTypeOK, environment, Inspecting
    <3>2. /\ gate'.pc = "pr"
          /\ gate'.last = IF gate.pending THEN NoSnapshot ELSE gate.seen
      BY <2>3 DEF GateTypeOK
    <3>3. LastInv'
      <4> SUFFICES ASSUME ~ gate.pending PROVE Successful(gate.seen.runs) /\ Since(gate.seen.runs)
        BY <2>0, <3>2 DEF LastInv, Successful, Since, environment
      <4> QED BY <1>5 DEF Decide, AgainInv
    <3> QED BY <3>1, <3>2, <3>3 DEF RunsInv, AgainInv
  <2> QED BY <1>5, <2>1, <2>2, <2>3 DEF Decide
<1>6. CASE NoAnswer BY <1>6, BlockKeeps DEF NoAnswer, GateTypeOK
<1>7. CASE Expire
  <2>1. gate' = [gate EXCEPT !.expired = TRUE] /\ UNCHANGED <<environment, green>>
    BY <1>7 DEF Expire
  <2>2. GateTypeOK' BY <2>1 DEF GateTypeOK, environment
  <2>3. /\ gate'.pc = gate.pc /\ gate'.last = gate.last /\ gate'.seen = gate.seen
        /\ gate'.pending = gate.pending /\ latest' = latest /\ green' = green
    BY <2>1 DEF GateTypeOK, environment
  <2>4. LastInv' BY <2>3, LatestStays
  <2>5. RunsInv' BY <2>3 DEF RunsInv, Passed
  <2>6. AgainInv' BY <2>3 DEF AgainInv, Successful, Since
  <2> QED BY <2>2, <2>4, <2>5, <2>6
<1>8. CASE MergeHead
  <2>1. CASE Block /\ UNCHANGED request
    BY <1>8, <2>1, BlockKeeps DEF MergeHead, environment, GateTypeOK
  <2>2. CASE /\ request' = [request EXCEPT !.open = FALSE]
             /\ gate' = [NoGate EXCEPT !.pc = "merged"]
    <3>0. UNCHANGED <<latest, shown, green>> BY <1>8 DEF MergeHead
    <3>1. gate' = [pc |-> "merged", once |-> FALSE, expired |-> FALSE,
                   pending |-> FALSE, seen |-> NoSnapshot, last |-> NoSnapshot]
      BY <2>2 DEF NoGate
    <3>a. request' \in [open: BOOLEAN, head: BOOLEAN, base: Nat] BY <2>2 DEF GateTypeOK
    <3>2. GateTypeOK' BY <3>a, <3>0, <3>1, NoGateType DEF GateTypeOK, Ended
    <3> QED BY <3>1, <3>2 DEF LastInv, RunsInv, AgainInv
  <2> QED BY <1>8, <2>1, <2>2 DEF MergeHead
<1> QED BY <1>1, <1>2, <1>3, <1>4, <1>5, <1>6, <1>7, <1>8 DEF GateStep

LEMMA GateStutters ==
    ASSUME GateInv, UNCHANGED gateVars
    PROVE  GateInv'
BY DEF GateInv, gateVars, GateTypeOK, LastInv, RunsInv, AgainInv, Successful, Since, Passed

LEMMA GateStarts == GateInit => GateInv
<1> SUFFICES ASSUME GateInit PROVE GateInv OBVIOUS
<1>1. gate.pc = "idle" /\ gate.last = NoSnapshot BY NoGateType DEF GateInit, NoGate
<1>2. gate \in [pc: {"idle", "merge"} \cup Inspecting \cup Ended, once: BOOLEAN,
                expired: BOOLEAN, pending: BOOLEAN, seen: Snapshots, last: Snapshots]
    BY NoGateType DEF GateInit, NoGate
<1>3. GateTypeOK BY <1>2, NoRunType DEF GateInit, GateTypeOK
<1> QED BY <1>1, <1>3 DEF GateInv, LastInv, RunsInv, AgainInv

LEMMA GateInductive == GateSpec => []GateInv
<1>1. GateInv /\ [GateNext]_gateVars => GateInv'
    BY EnvironmentKeeps, GateKeeps, GateStutters DEF GateNext
<1> QED BY GateStarts, <1>1, PTL DEF GateSpec

\* The gate, the runs and the list of checks keep their types.
THEOREM GateTypeCorrect == GateSpec => []GateTypeOK
<1>1. GateInv => GateTypeOK BY DEF GateInv
<1> QED BY GateInductive, <1>1, PTL

\* wait-for-pr-checks.py passes its wait only if everything was green at one moment, however
\* many runs and attempts there are and whatever is shown late.
THEOREM PassesWhenGreen == GateSpec => PassWasGreen
<1>1. GateInv /\ [GateNext]_gateVars => [~ gate.once /\ gate'.once => green]_gateVars
  <2> SUFFICES ASSUME GateInv, GateNext, ~ gate.once, gate'.once PROVE green
    OBVIOUS
  <2>1. \/ StartGate \/ GateStep \/ Expire \/ UNCHANGED gate
    BY EnvironmentTypes DEF GateNext, GateInv
  <2>2. ~ NoGate.once BY DEF NoGate
  <2>3. ~ Block BY DEF Block, NoGate
  <2>4. Decide
    BY <2>1, <2>3 DEF StartGate, GateStep, Expire, ReadPR, ReadChecks, ReadRuns, NoAnswer, MergeHead,
                NoGate, GateInv, GateTypeOK
  <2>5. ~ gate.pending /\ gate.last = gate.seen
    BY <2>3, <2>4 DEF Decide, Passes, GateInv, GateTypeOK
  <2>6. Successful(gate.seen.runs) BY <2>4, <2>5 DEF GateInv, AgainInv, Decide
  <2>7. gate.seen # NoSnapshot
    BY <2>6, SmokeAssumption DEF Successful, NoSnapshot, NoRun
  <2> QED BY <2>4, <2>5, <2>7 DEF GateInv, AgainInv, Decide
<1> QED BY GateInductive, <1>1, PTL DEF GateSpec, PassWasGreen
=============================================================================
