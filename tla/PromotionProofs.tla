--------------------------- MODULE PromotionProofs ---------------------------
(***************************************************************************)
(* Proofs about the promotion driver, its rollback and its recovery, for   *)
(* every plan, with overlapping runs and outside writers.                  *)
(*                                                                         *)
(* Steps of the trap and of recovery are described once, by what they do   *)
(* to the run (RestoreEffect), and steps of the driver by what becomes of  *)
(* it.  DriverInv says what is journaled by the time the driver gets       *)
(* somewhere, MovedInv that an alias moved has an attempt on record, and   *)
(* KnownInv that a run which restores has explained every alias.  Records  *)
(* are never removed, so what was on record once still is.  EpochInv       *)
(* counts the failures on record and bounds by them how often the lock was *)
(* replaced.                                                               *)
(***************************************************************************)
EXTENDS Promotion, FiniteSetTheorems, TLAPS

Pcs == Ended \cup Promoting \cup Restoring
RecordTypes == [kind: Kinds, minor: Nat, epoch: Nat,
                reg: Registries \cup BlockingReasons \cup ExitReasons]

ClosingTypes ==
    /\ receipt \in {"none"} \cup Statuses
    /\ finish \in [Statuses -> {"idle", "checked", "received", "terminal"}]

\* TypeOK without the bound on epoch and without the evidence tags.
PromotionTypes ==
    /\ setting \in Settings
    /\ alias \in [Minors -> [Registries -> Sides]]
    /\ lock \in LockStates
    /\ epoch \in Nat
    /\ records \subseteq RecordTypes
    /\ result \in BOOLEAN
    /\ ClosingTypes
    /\ proc \in [Procs -> Runs]

-----------------------------------------------------------------------------
(***************************************************************************)
(* Types of what steps put together.                                       *)
(***************************************************************************)
LEMMA SettingType ==
    ASSUME PromotionTypes
    PROVE  /\ Units \in Nat \ {0}
           /\ Operation \in {"automatic", "backfill-ghcr"}
           /\ Minors = 1..Units
           /\ setting.drifts \subseteq Sides
           /\ setting.overlap \in BOOLEAN
BY SettingsAssumption DEF PromotionTypes, Units, Operation, Minors

LEMMA NewRunType ==
    ASSUME PromotionTypes, NEW pc \in Pcs
    PROVE  /\ NewRun \in Runs
           /\ [NewRun EXCEPT !.pc = pc] \in Runs
           /\ \A b \in BOOLEAN, n \in 0..Units :
                 [NewRun EXCEPT !.pc = pc, !.mutated = b, !.attempted = n] \in Runs
           /\ \A why \in BlockingReasons :
                 [NewRun EXCEPT !.pc = pc, !.reason = why] \in Runs
<1>1. 1 \in Minors /\ 0 \in 0..Units BY SettingType DEF Minors
<1>2. Unread \in [Minors -> [Registries -> Sides \cup {"unread"}]] BY DEF Unread
<1>3. "idle" \in Pcs /\ "ghcr" \in Registries /\ "restore-failed" \in BlockingReasons
  BY DEF Pcs, Ended, Registries, BlockingReasons
<1> HIDE DEF PromotionTypes
<1> QED BY <1>1, <1>2, <1>3 DEF NewRun, Runs, Pcs

\* The fields of a run that steps change one at a time.
LEMMA FieldTypes ==
    ASSUME NEW x \in Runs
    PROVE  /\ \A v \in Pcs : [x EXCEPT !.pc = v] \in Runs
           /\ \A v \in BOOLEAN : /\ [x EXCEPT !.mutated = v] \in Runs
                                 /\ [x EXCEPT !.bad = v] \in Runs
                                 /\ [x EXCEPT !.failed = v] \in Runs
                                 /\ [x EXCEPT !.unknown = v] \in Runs
           /\ \A v \in Minors : [x EXCEPT !.unit = v] \in Runs
           /\ \A v \in Registries : [x EXCEPT !.reg = v] \in Runs
           /\ \A v \in 0..Units : [x EXCEPT !.attempted = v] \in Runs
           /\ \A v \in SUBSET Registries : [x EXCEPT !.todo = v] \in Runs
           /\ \A v \in [Minors -> [Registries -> Sides \cup {"unread"}]] :
                 [x EXCEPT !.found = v] \in Runs
BY DEF Runs, Pcs

\* The run after one pass of a loop.
SameButPlace(y, x) ==
    /\ y.reg = x.reg /\ y.mutated = x.mutated /\ y.attempted = x.attempted
    /\ y.unknown = x.unknown /\ y.found = x.found /\ y.todo = x.todo
    /\ y.failed = x.failed /\ y.reason = x.reason

Looped(y, x, n, pc, done) ==
    /\ y \in Runs /\ SameButPlace(y, x)
    /\ \/ x.unit < n /\ y.pc = pc /\ y.unit = x.unit + 1
       \/ ~ (x.unit < n) /\ y.pc = done /\ y.unit = 1

LEMMA LoopType ==
    ASSUME PromotionTypes, NEW x \in Runs, NEW n \in 0..Units, NEW pc \in Pcs, NEW done \in Pcs
    PROVE  Looped(Loop(x, n, pc, done), x, n, pc, done)
<1>1. x.unit \in 1..Units /\ Units \in Nat /\ Units # 0 BY SettingType DEF Runs, Minors
<1>2. CASE x.unit < n
  <2>1. x.unit + 1 \in Minors BY <1>1, <1>2 DEF Minors
  <2> DEFINE y == [x EXCEPT !.pc = pc, !.unit = x.unit + 1, !.bad = FALSE]
  <2>2. y \in Runs /\ SameButPlace(y, x) /\ y.pc = pc /\ y.unit = x.unit + 1
    BY <2>1 DEF Runs, Pcs, SameButPlace
  <2>3. Loop(x, n, pc, done) = y BY <1>2 DEF Loop
  <2> QED BY <1>2, <2>2, <2>3 DEF Looped
<1>3. CASE ~ (x.unit < n)
  <2>1. 1 \in Minors BY <1>1 DEF Minors
  <2> DEFINE y == [x EXCEPT !.pc = done, !.unit = 1, !.bad = FALSE]
  <2>2. y \in Runs /\ SameButPlace(y, x) /\ y.pc = done /\ y.unit = 1
    BY <2>1 DEF Runs, Pcs, SameButPlace
  <2>3. Loop(x, n, pc, done) = y BY <1>3 DEF Loop
  <2> QED BY <1>3, <2>2, <2>3 DEF Looped
<1> QED BY <1>2, <1>3

\* A step of one run: x is what becomes of it.
Becomes(p, x) ==
    /\ x \in Runs
    /\ proc' \in [Procs -> Runs]
    /\ proc'[p] = x
    /\ \A q \in Procs \ {p} : proc'[q] = proc[q]

LEMMA BecomesWhole ==
    ASSUME PromotionTypes, NEW p \in Procs, NEW x \in Runs, proc' = [proc EXCEPT ![p] = x]
    PROVE  Becomes(p, x)
BY DEF PromotionTypes, Becomes

LEMMA BecomesPc ==
    ASSUME PromotionTypes, NEW p \in Procs, NEW v \in Pcs, proc' = [proc EXCEPT ![p].pc = v]
    PROVE  Becomes(p, [proc[p] EXCEPT !.pc = v])
<1>1. proc[p] \in Runs BY DEF PromotionTypes
<1>2. [proc[p] EXCEPT !.pc = v] \in Runs BY <1>1, FieldTypes
<1>3. proc' = [proc EXCEPT ![p] = [proc[p] EXCEPT !.pc = v]] BY DEF PromotionTypes
<1> QED BY <1>2, <1>3, BecomesWhole

\* A run that gives up or stops.
LEMMA BecomesGivenUp ==
    ASSUME PromotionTypes, NEW p \in Procs, NEW why \in BlockingReasons, GiveUp(p, why)
    PROVE  /\ proc' \in [Procs -> Runs]
           /\ proc'[p].pc = (IF p = "driver" THEN "failed" ELSE "note")
           /\ \A q \in Procs \ {p} : proc'[q] = proc[q]
<1> DEFINE pc == IF p = "driver" THEN "failed" ELSE "note"
           x == [NewRun EXCEPT !.pc = pc, !.reason = why]
<1>1. pc \in Pcs BY DEF Pcs, Ended, Restoring
<1>2. x \in Runs /\ x.pc = pc
  <2> HIDE DEF pc
  <2> QED BY <1>1, NewRunType DEF NewRun
<1>3. proc' = [proc EXCEPT ![p] = x] BY DEF GiveUp, GivenUp
<1>4. Becomes(p, x)
  <2> HIDE DEF x
  <2> QED BY <1>2, <1>3, BecomesWhole
<1> QED BY <1>2, <1>4 DEF Becomes

LEMMA BecomesEnded ==
    ASSUME PromotionTypes, NEW p \in Procs, NEW pc \in Pcs, End(p, pc)
    PROVE  /\ proc' \in [Procs -> Runs]
           /\ proc'[p].pc = pc
           /\ \A q \in Procs \ {p} : proc'[q] = proc[q]
<1>1. [NewRun EXCEPT !.pc = pc] \in Runs /\ [NewRun EXCEPT !.pc = pc].pc = pc
  BY NewRunType DEF NewRun
<1> QED BY <1>1, BecomesWhole DEF End, Becomes

LEMMA RecType ==
    ASSUME PromotionTypes, NEW kind \in Kinds, NEW m \in Nat,
           NEW r \in Registries \cup BlockingReasons \cup ExitReasons
    PROVE  Rec(kind, m, r) \in RecordTypes
BY DEF Rec, RecordTypes, PromotionTypes

LEMMA CompletionType ==
    ASSUME PromotionTypes, NEW kind, NEW done \in Kinds, NEW m, NEW r
    PROVE  Completions(kind, done, m, r) \subseteq RecordTypes
BY DEF Completions, RecordTypes, PromotionTypes

-----------------------------------------------------------------------------
(***************************************************************************)
(* The effect of a step of the trap or of recovery.                        *)
(***************************************************************************)
ClassifiedPcs == {"drift", "restore", "mutate", "sign", "signing", "confirm", "settle"}

Alone(p) ==
    /\ UNCHANGED <<setting, result, closing, lock, epoch>>
    /\ proc' \in [Procs -> Runs]
    /\ \A q \in Procs \ {p} : proc'[q] = proc[q]

Towards(p) ==
    /\ records \subseteq records' /\ records' \subseteq RecordTypes
    /\ alias' \in [Minors -> [Registries -> Sides]]
    /\ \A m \in Minors, r \in Registries : alias'[m][r] \in {alias[m][r], "prior"}
    /\ alias' # alias => proc[p].pc = "mutate"

GivesUp(p) == proc'[p].pc = IF p = "driver" THEN "failed" ELSE "note"

Reports(p) ==
    /\ proc'[p].pc = IF p = "driver" THEN "rolledback" ELSE "restored"
    /\ proc[p].pc = "settle" /\ ~ proc[p].failed
    /\ Prior(Unit(p)) /\ ~ (Unit(p) < Last(p))

Reads(p) ==
    /\ proc[p].pc = "read" /\ proc'[p].pc = "classify"
    /\ proc'[p].unit = proc[p].unit
    /\ proc'[p].unknown = proc[p].unknown
    /\ proc'[p].attempted = proc[p].attempted
    /\ \A m \in Minors \ {Unit(p)} : proc'[p].found[m] = proc[p].found[m]

KnowsUnit(p) ==
    /\ proc[p].pc \in {"read", "classify"}
    /\ proc'[p].found = proc[p].found
    /\ proc'[p].attempted = proc[p].attempted
    /\ ~ proc'[p].unknown =>
          ~ proc[p].unknown /\ \A r \in Registries : Known(proc[p].found[Unit(p)][r], Unit(p), r)
    /\ \/ Unit(p) < Last(p) /\ proc'[p].pc = "read" /\ proc'[p].unit = Unit(p) + 1
       \/ ~ (Unit(p) < Last(p)) /\ proc'[p].pc = "drift" /\ ~ proc'[p].unknown

Goes(p) ==
    /\ proc[p].pc \in ClassifiedPcs /\ proc'[p].pc \in ClassifiedPcs
    /\ proc'[p].found = proc[p].found
    /\ proc'[p].attempted = proc[p].attempted
    /\ proc'[p].pc = "settle" /\ ~ proc'[p].failed =>
          \/ proc'[p].unit = 1
          \/ /\ proc[p].pc = "settle" /\ ~ proc[p].failed
             /\ Prior(Unit(p)) /\ proc'[p].unit = Unit(p) + 1

RestoreEffect(p) ==
    /\ Alone(p) /\ Towards(p)
    /\ proc[p].pc \in Restoring \ {"note"}
    /\ GivesUp(p) \/ Reports(p) \/ Reads(p) \/ KnowsUnit(p) \/ Goes(p)

LEMMA NothingTowards ==
    ASSUME PromotionTypes, UNCHANGED <<alias, records>>, NEW p
    PROVE  Towards(p)
BY DEF PromotionTypes, Towards

LEMMA LastType == ASSUME PromotionTypes, NEW p \in Procs PROVE Last(p) \in 0..Units
<1>1. proc[p] \in Runs BY DEF PromotionTypes
<1>2. Units \in 0..Units BY SettingType
<1> QED BY <1>1, <1>2 DEF Last, Runs

LEMMA ReadUnitEffect ==
    ASSUME PromotionTypes, NEW p \in Procs, ReadUnit(p) PROVE RestoreEffect(p)
<1> DEFINE x == proc[p]
           f == [x.found EXCEPT ![Unit(p)] = alias[Unit(p)]]
           y == [x EXCEPT !.pc = "classify", !.found = f]
<1>1. x \in Runs /\ Unit(p) \in Minors BY DEF PromotionTypes, Unit, Runs
<1>2. f \in [Minors -> [Registries -> Sides \cup {"unread"}]]
      /\ \A m \in Minors \ {Unit(p)} : f[m] = x.found[m]
  <2>1. x.found \in [Minors -> [Registries -> Sides \cup {"unread"}]] BY <1>1 DEF Runs
  <2>2. alias[Unit(p)] \in [Registries -> Sides \cup {"unread"}] BY <1>1 DEF PromotionTypes
  <2> QED BY <2>1, <2>2
<1>3. y \in Runs /\ y.pc = "classify" /\ y.found = f /\ y.unit = x.unit /\ y.unknown = x.unknown
      /\ y.attempted = x.attempted
  <2> HIDE DEF f, x
  <2> QED BY <1>1, <1>2 DEF Runs, Restoring
<1>4. proc' = [proc EXCEPT ![p] = y] BY DEF ReadUnit, PromotionTypes, Unit
<1>5. Becomes(p, y)
  <2> HIDE DEF y
  <2> QED BY <1>3, <1>4, BecomesWhole
<1>6. Alone(p) BY <1>5 DEF Becomes, Alone, ReadUnit, registries, journal, rest
<1>7. Towards(p) BY NothingTowards DEF ReadUnit, registries, journal
<1>8. Reads(p)
  <2> HIDE DEF f, y
  <2> QED BY <1>2, <1>3, <1>5 DEF Becomes, Reads, ReadUnit, At, Unit
<1> QED BY <1>6, <1>7, <1>8 DEF RestoreEffect, Reads, Restoring

LEMMA ClassifiedEffect ==
    ASSUME PromotionTypes, NEW p \in Procs, NEW known \in BOOLEAN, Classified(p, known),
           proc[p].pc \in {"read", "classify"},
           known => \A r \in Registries : Known(proc[p].found[Unit(p)][r], Unit(p), r),
           UNCHANGED <<registries, journal, rest>>
    PROVE  RestoreEffect(p)
<1> DEFINE x == proc[p]
           z == Loop(x, Last(p), "read", "drift")
           u == z.unknown \/ ~ known
           y == [z EXCEPT !.unknown = u]
<1>1. x \in Runs /\ "read" \in Pcs /\ "drift" \in Pcs BY DEF PromotionTypes, Pcs, Restoring
<1>2. Looped(z, x, Last(p), "read", "drift")
  <2> HIDE DEF x
  <2> QED BY <1>1, LastType, LoopType
<1>3. /\ z \in Runs /\ z.found = x.found /\ z.unknown = x.unknown /\ z.attempted = x.attempted
      /\ x.unit < Last(p) => z.pc = "read" /\ z.unit = x.unit + 1
      /\ ~ (x.unit < Last(p)) => z.pc = "drift"
  <2> HIDE DEF x, z
  <2> QED BY <1>2 DEF Looped, SameButPlace
<1>4. u \in BOOLEAN OBVIOUS
<1>5. /\ y \in Runs /\ y.unknown = u /\ y.found = z.found /\ y.attempted = z.attempted
      /\ y.pc = z.pc /\ y.unit = z.unit
  <2> HIDE DEF u, z
  <2> QED BY <1>3, <1>4 DEF Runs
<1>6. proc' = [proc EXCEPT ![p] = IF y.pc = "drift" /\ y.unknown
                                 THEN GivenUp(p, "classification-unknown") ELSE y]
  BY DEF Classified
<1>7. Towards(p) BY NothingTowards DEF registries, journal
<1>8. CASE y.pc = "drift" /\ y.unknown
  <2>1. GiveUp(p, "classification-unknown")
    <3> HIDE DEF y
    <3> QED BY <1>6, <1>8 DEF GiveUp
  <2>2. "classification-unknown" \in BlockingReasons BY DEF BlockingReasons
  <2>3. Alone(p) /\ GivesUp(p)
    BY <2>1, <2>2, BecomesGivenUp DEF Alone, GivesUp, journal, rest
  <2> QED BY <1>7, <2>3 DEF RestoreEffect, Restoring
<1>9. CASE ~ (y.pc = "drift" /\ y.unknown)
  <2>1. Becomes(p, y)
    <3> HIDE DEF y
    <3> QED BY <1>5, <1>6, <1>9, BecomesWhole
  <2>2. Alone(p) BY <2>1 DEF Becomes, Alone, journal, rest
  <2>3. KnowsUnit(p)
    <3>1. y.unknown = (x.unknown \/ ~ known) BY <1>3, <1>5
    <3> HIDE DEF y, z
    <3> QED BY <1>3, <1>5, <1>9, <2>1, <3>1 DEF Becomes, KnowsUnit, Unit
  <2> QED BY <1>7, <2>2, <2>3 DEF RestoreEffect, Restoring
<1> QED BY <1>8, <1>9

LEMMA ClassifyEffect ==
    ASSUME PromotionTypes, NEW p \in Procs, Classify(p) PROVE RestoreEffect(p)
<1> DEFINE known == /\ lock \in MutableOwnerStates
                    /\ \A r \in Registries : Known(proc[p].found[Unit(p)][r], Unit(p), r)
<1>1. known \in BOOLEAN /\ Classified(p, known) BY DEF Classify
<1>2. known => \A r \in Registries : Known(proc[p].found[Unit(p)][r], Unit(p), r) OBVIOUS
<1>3. proc[p].pc = "classify" /\ UNCHANGED <<registries, journal, rest>> BY DEF Classify, At
<1> HIDE DEF known
<1> QED BY <1>1, <1>2, <1>3, ClassifiedEffect

LEMMA ReadFailsEffect ==
    ASSUME PromotionTypes, NEW p \in Procs, ReadFails(p) PROVE RestoreEffect(p)
BY ClassifiedEffect DEF ReadFails

LEMMA GivesUpEffect ==
    ASSUME PromotionTypes, NEW p \in Procs, Drifted(p) \/ BoundaryDrifted(p)
    PROVE  RestoreEffect(p)
<1>1. \E why \in BlockingReasons : GiveUp(p, why)
  BY DEF Drifted, BoundaryDrifted, BlockingReasons
<1>2. proc[p].pc \in Restoring \ {"note"} /\ UNCHANGED <<registries, journal, rest>>
  BY DEF Drifted, BoundaryDrifted, At, Restoring
<1>3. Alone(p) /\ GivesUp(p) BY <1>1, <1>2, BecomesGivenUp DEF Alone, GivesUp, journal, rest
<1>4. Towards(p) BY <1>2, NothingTowards DEF registries, journal
<1> QED BY <1>2, <1>3, <1>4 DEF RestoreEffect

\* A pass of one of the loops over classified units.
LEMMA LoopGoes ==
    ASSUME PromotionTypes, NEW p \in Procs, NEW x \in Runs,
           NEW pc \in ClassifiedPcs, NEW done \in ClassifiedPcs,
           proc' = [proc EXCEPT ![p] = Loop(x, Last(p), pc, done)],
           pc # "settle",
           x.found = proc[p].found, x.attempted = proc[p].attempted,
           proc[p].pc \in ClassifiedPcs
    PROVE  Becomes(p, proc'[p]) /\ Goes(p)
<1> DEFINE y == Loop(x, Last(p), pc, done)
<1>1. pc \in Pcs /\ done \in Pcs BY DEF ClassifiedPcs, Pcs, Restoring
<1>2. Looped(y, x, Last(p), pc, done) BY <1>1, LastType, LoopType
<1>3. /\ y \in Runs /\ y.found = x.found /\ y.attempted = x.attempted
      /\ y.pc = pc \/ (y.pc = done /\ y.unit = 1)
  <2> HIDE DEF y
  <2> QED BY <1>2 DEF Looped, SameButPlace
<1> HIDE DEF y
<1>4. proc' = [proc EXCEPT ![p] = y] BY DEF y
<1>5. Becomes(p, y) BY <1>3, <1>4, BecomesWhole
<1> QED BY <1>3, <1>5 DEF Becomes, Goes

LEMMA DriftCheckEffect ==
    ASSUME PromotionTypes, NEW p \in Procs, DriftCheck(p) PROVE RestoreEffect(p)
<1>1. proc[p] \in Runs BY DEF PromotionTypes
<1>2. proc[p].pc = "drift" /\ proc' = [proc EXCEPT ![p] = Loop(proc[p], Last(p), "drift", "restore")]
  BY DEF DriftCheck, At, PromotionTypes
<1>3. Becomes(p, proc'[p]) /\ Goes(p) BY <1>1, <1>2, LoopGoes DEF ClassifiedPcs
<1>4. Alone(p) BY <1>3 DEF Becomes, Alone, DriftCheck, journal, rest
<1>5. Towards(p) BY NothingTowards DEF DriftCheck, registries, journal
<1> QED BY <1>2, <1>3, <1>4, <1>5 DEF RestoreEffect, Restoring

LEMMA EnsureType ==
    ASSUME PromotionTypes, NEW recs, recs \subseteq RecordTypes, NEW allowed, Ensure(recs, allowed)
    PROVE  records \subseteq records' /\ records' \subseteq RecordTypes
BY DEF Ensure, PromotionTypes

LEMMA RecordsTowards ==
    ASSUME PromotionTypes, NEW p, UNCHANGED alias,
           records \subseteq records', records' \subseteq RecordTypes
    PROVE  Towards(p)
BY DEF PromotionTypes, Towards

LEMMA RestoreUnitEffect ==
    ASSUME PromotionTypes, NEW p \in Procs, RestoreUnit(p) PROVE RestoreEffect(p)
<1> DEFINE x == proc[p]
<1>1. x \in Runs /\ Unit(p) \in Nat /\ x.pc = "restore"
  BY SettingType DEF PromotionTypes, Unit, Runs, RestoreUnit, At
<1>2. Towards(p)
  <2> DEFINE recs == {y \in {Rec("recovery-attempt", Unit(p), r) : r \in ToRestore(p)} :
                         Journaled("attempt", y.minor, y.reg)}
  <2>1. recs \subseteq RecordTypes BY <1>1, RecType DEF ToRestore, Kinds
  <2>2. Ensure(recs, {"ACTIVE", "RECOVERING"}) BY DEF RestoreUnit
  <2> HIDE DEF recs
  <2> QED BY <2>1, <2>2, EnsureType, RecordsTowards DEF RestoreUnit, registries
<1>3. proc' \in [Procs -> Runs] /\ (\A q \in Procs \ {p} : proc'[q] = proc[q]) /\ Goes(p)
  <2>1. CASE ToRestore(p) = {}
    <3>1. proc' = [proc EXCEPT ![p] = Loop(x, Last(p), "restore", "settle")]
      BY <2>1 DEF RestoreUnit, PromotionTypes
    <3>2. Becomes(p, proc'[p]) /\ Goes(p)
      <4> HIDE DEF x
      <4> QED BY <1>1, <3>1, LoopGoes DEF x, ClassifiedPcs
    <3> QED BY <3>2 DEF Becomes
  <2>2. CASE ToRestore(p) # {}
    <3> DEFINE y == [x EXCEPT !.pc = "mutate", !.todo = ToRestore(p)]
    <3>1. ToRestore(p) \in SUBSET Registries BY DEF ToRestore
    <3>2. y \in Runs /\ y.pc = "mutate" /\ y.found = x.found /\ y.attempted = x.attempted
      <4> HIDE DEF x
      <4> QED BY <1>1, <3>1 DEF Runs, Restoring
    <3>3. proc' = [proc EXCEPT ![p] = y] BY <2>2 DEF RestoreUnit, PromotionTypes
    <3>4. Becomes(p, y)
      <4> HIDE DEF y
      <4> QED BY <3>2, <3>3, BecomesWhole
    <3> HIDE DEF y
    <3> QED BY <1>1, <3>2, <3>4 DEF Becomes, Goes, ClassifiedPcs
  <2> QED BY <2>1, <2>2
<1>4. Alone(p) BY <1>3 DEF Alone, RestoreUnit, rest
<1> QED BY <1>1, <1>2, <1>3, <1>4 DEF RestoreEffect, Restoring

LEMMA MutatedEffect ==
    ASSUME PromotionTypes, NEW p \in Procs, NEW bad \in BOOLEAN, Mutated(p, bad),
           alias' \in {alias, [alias EXCEPT ![Unit(p)][NextToRestore(p)] = "prior"]},
           At(p, "mutate"), UNCHANGED <<tags, journal, rest>>
    PROVE  RestoreEffect(p)
<1> DEFINE x == proc[p]
           left == x.todo \ {NextToRestore(p)}
           failed == x.bad \/ bad
           pc == IF left # {} THEN "mutate"
                 ELSE IF ~ failed /\ "dockerhub" \in ToRestore(p) THEN "sign" ELSE "confirm"
           y == [x EXCEPT !.todo = left, !.bad = failed, !.pc = pc]
<1>1. x \in Runs /\ Unit(p) \in Minors /\ NextToRestore(p) \in Registries /\ x.pc = "mutate"
  BY DEF PromotionTypes, Unit, Runs, NextToRestore, Registries, At
<1>2. left \in SUBSET Registries /\ failed \in BOOLEAN /\ pc \in ClassifiedPcs \ {"settle"}
  BY <1>1 DEF Runs, ClassifiedPcs
<1>3. y \in Runs /\ y.pc = pc /\ y.found = x.found /\ y.attempted = x.attempted
  <2> HIDE DEF x, left, failed, pc
  <2> QED BY <1>1, <1>2 DEF Runs, Restoring, ClassifiedPcs
<1>4. proc' = [proc EXCEPT ![p] = y] BY <1>1 DEF Mutated, PromotionTypes
<1>5. Becomes(p, y)
  <2> HIDE DEF y
  <2> QED BY <1>3, <1>4, BecomesWhole
<1>6. Goes(p)
  <2> HIDE DEF y, pc
  <2> QED BY <1>1, <1>2, <1>3, <1>5 DEF Becomes, Goes, ClassifiedPcs
<1>7. Alone(p)
  <2> HIDE DEF y
  <2> QED BY <1>5 DEF Becomes, Alone, journal, rest
<1>8. Towards(p)
  <2> HIDE DEF x, y
  <2>1. /\ alias' \in [Minors -> [Registries -> Sides]]
        /\ \A m \in Minors, r \in Registries : alias'[m][r] \in {alias[m][r], "prior"}
    <3>1. alias[Unit(p)] \in [Registries -> Sides] BY <1>1 DEF PromotionTypes
    <3>2. [alias[Unit(p)] EXCEPT ![NextToRestore(p)] = "prior"] \in [Registries -> Sides]
      BY <3>1 DEF Sides
    <3>3. CASE alias' = alias BY <3>3 DEF PromotionTypes
    <3>4. CASE alias' = [alias EXCEPT ![Unit(p)] =
                            [alias[Unit(p)] EXCEPT ![NextToRestore(p)] = "prior"]]
      BY <1>1, <3>1, <3>2, <3>4 DEF PromotionTypes
    <3>5. [alias EXCEPT ![Unit(p)][NextToRestore(p)] = "prior"] =
             [alias EXCEPT ![Unit(p)] = [alias[Unit(p)] EXCEPT ![NextToRestore(p)] = "prior"]]
      BY DEF PromotionTypes
    <3> QED BY <3>3, <3>4, <3>5
  <2> QED BY <2>1 DEF Towards, At, PromotionTypes, journal
<1> QED BY <1>1, <1>6, <1>7, <1>8 DEF RestoreEffect, Restoring

LEMMA MutatesEffect ==
    ASSUME PromotionTypes, NEW p \in Procs, RestoreAlias(p) \/ RestoreFails(p)
    PROVE  RestoreEffect(p)
BY MutatedEffect DEF RestoreAlias, RestoreFails

\* A step that leaves what was classified as it is.
LEMMA StepsOn ==
    ASSUME PromotionTypes, NEW p \in Procs, NEW z \in Runs, proc' = [proc EXCEPT ![p] = z],
           z.pc \in ClassifiedPcs \ {"settle"}, z.found = proc[p].found,
           z.attempted = proc[p].attempted, proc[p].pc \in ClassifiedPcs,
           UNCHANGED alias, records \subseteq records', records' \subseteq RecordTypes,
           UNCHANGED <<setting, result, closing, lock, epoch>>
    PROVE  RestoreEffect(p)
<1>1. Becomes(p, z) BY BecomesWhole
<1>2. Goes(p) /\ Alone(p) BY <1>1 DEF Becomes, Goes, Alone
<1>3. Towards(p) BY RecordsTowards
<1> QED BY <1>2, <1>3 DEF RestoreEffect, ClassifiedPcs, Restoring

LEMMA GoesOn ==
    ASSUME PromotionTypes, NEW p \in Procs, NEW pc \in ClassifiedPcs \ {"settle"}, Go(p, pc),
           proc[p].pc \in ClassifiedPcs,
           UNCHANGED alias, records \subseteq records', records' \subseteq RecordTypes,
           UNCHANGED <<setting, result, closing, lock, epoch>>
    PROVE  RestoreEffect(p)
<1> DEFINE z == [proc[p] EXCEPT !.pc = pc]
<1>1. proc[p] \in Runs /\ pc \in Pcs BY DEF PromotionTypes, Pcs, ClassifiedPcs, Restoring
<1>2. z \in Runs /\ z.pc = pc /\ z.found = proc[p].found /\ z.attempted = proc[p].attempted
  BY <1>1 DEF Runs, Pcs
<1>3. proc' = [proc EXCEPT ![p] = z] BY DEF Go, PromotionTypes
<1> HIDE DEF z
<1> QED BY <1>2, <1>3, StepsOn

LEMMA SignsEffect ==
    ASSUME PromotionTypes, NEW p \in Procs,
           SignatureRetained(p) \/ SignAttempt(p) \/ SignComplete(p) \/ SignFails(p)
    PROVE  RestoreEffect(p)
<1>1. proc[p] \in Runs /\ records \subseteq RecordTypes /\ Unit(p) \in Nat
  BY SettingType DEF PromotionTypes, Unit, Runs
<1>2. /\ proc[p].pc \in ClassifiedPcs
      /\ UNCHANGED <<alias, setting, result, closing, lock, epoch>>
  BY DEF SignatureRetained, SignAttempt, SignComplete, SignFails, At, ClassifiedPcs,
         registries, journal, rest
<1>3. "confirm" \in ClassifiedPcs \ {"settle"} /\ "signing" \in ClassifiedPcs \ {"settle"}
  BY DEF ClassifiedPcs
<1>4. CASE SignatureRetained(p) BY <1>1, <1>2, <1>3, <1>4, GoesOn DEF SignatureRetained, journal
<1>5. CASE SignAttempt(p)
  <2>1. Rec("recovery-referrer-attempt", Unit(p), "dockerhub") \in RecordTypes
    BY <1>1, RecType DEF Kinds, Registries
  <2>2. records \subseteq records' /\ records' \subseteq RecordTypes
    BY <1>1, <1>5, <2>1 DEF SignAttempt
  <2> QED BY <1>2, <1>3, <1>5, <2>2, GoesOn DEF SignAttempt
<1>6. CASE SignComplete(p)
  <2>1. Completions("recovery-referrer-attempt", "recovery-referrer-result", Unit(p), "dockerhub")
           \subseteq RecordTypes
    BY CompletionType DEF Kinds
  <2>2. records \subseteq records' /\ records' \subseteq RecordTypes
    BY <1>1, <1>6, <2>1 DEF SignComplete
  <2> QED BY <1>2, <1>3, <1>6, <2>2, GoesOn DEF SignComplete
<1>7. CASE SignFails(p)
  <2> DEFINE z == [proc[p] EXCEPT !.pc = "confirm", !.bad = TRUE]
  <2>1. z \in Runs /\ z.pc = "confirm" /\ z.found = proc[p].found /\ z.attempted = proc[p].attempted
    BY <1>1 DEF Runs, Restoring
  <2>2. proc' = [proc EXCEPT ![p] = z] BY <1>7 DEF SignFails, PromotionTypes
  <2>3. UNCHANGED records BY <1>7 DEF SignFails, journal
  <2> HIDE DEF z
  <2> QED BY <1>1, <1>2, <1>3, <2>1, <2>2, <2>3, StepsOn
<1> QED BY <1>4, <1>5, <1>6, <1>7

LEMMA ConfirmRestoreEffect ==
    ASSUME PromotionTypes, NEW p \in Procs, ConfirmRestore(p) PROVE RestoreEffect(p)
<1> DEFINE x == proc[p]
           done == {r \in ToRestore(p) : alias[Unit(p)][r] = "prior"}
           recs == UNION {{[y EXCEPT !.kind = "recovery-result"] :
                             y \in records \cap {Rec("recovery-attempt", Unit(p), r)}} : r \in done}
<1>1. x \in Runs /\ x.pc = "confirm" /\ UNCHANGED <<alias, setting, result, closing, lock, epoch>>
  BY DEF PromotionTypes, ConfirmRestore, At, registries, rest
<1>2. Towards(p)
  <2>1. \A y \in records : [y EXCEPT !.kind = "recovery-result"] \in RecordTypes
    BY DEF PromotionTypes, RecordTypes, Kinds
  <2>2. recs \subseteq RecordTypes BY <2>1
  <2>3. Ensure(recs, {"ACTIVE", "RECOVERING"}) BY DEF ConfirmRestore
  <2> HIDE DEF recs
  <2> QED BY <1>1, <2>2, <2>3, EnsureType, RecordsTowards
<1>3. \/ proc' = [proc EXCEPT ![p] = Loop(x, Last(p), "restore", "settle")]
      \/ p = "recovery" /\ GiveUp(p, "restore-failed")
      \/ proc' = [proc EXCEPT ![p] = [Loop(x, Last(p), "restore", "settle") EXCEPT !.failed = TRUE]]
  BY DEF ConfirmRestore, PromotionTypes
<1>4. CASE proc' = [proc EXCEPT ![p] = Loop(x, Last(p), "restore", "settle")]
  <2>1. Becomes(p, proc'[p]) /\ Goes(p)
    <3> HIDE DEF x
    <3> QED BY <1>1, <1>4, LoopGoes DEF x, ClassifiedPcs
  <2> QED BY <1>1, <1>2, <2>1 DEF RestoreEffect, Becomes, Alone, Restoring
<1>5. CASE p = "recovery" /\ GiveUp(p, "restore-failed")
  <2>1. "restore-failed" \in BlockingReasons BY DEF BlockingReasons
  <2> QED BY <1>1, <1>2, <1>5, <2>1, BecomesGivenUp DEF RestoreEffect, Alone, GivesUp, Restoring
<1>6. CASE proc' = [proc EXCEPT ![p] =
                       [Loop(x, Last(p), "restore", "settle") EXCEPT !.failed = TRUE]]
  <2> DEFINE z == Loop(x, Last(p), "restore", "settle")
             y == [z EXCEPT !.failed = TRUE]
  <2>1. Looped(z, x, Last(p), "restore", "settle")
    <3>1. "restore" \in Pcs /\ "settle" \in Pcs BY DEF Pcs, Restoring
    <3> HIDE DEF x
    <3> QED BY <1>1, <3>1, LastType, LoopType
  <2>2. y \in Runs /\ y.failed /\ y.pc \in ClassifiedPcs /\ y.found = x.found
        /\ y.attempted = x.attempted
    <3> HIDE DEF x, z
    <3> QED BY <2>1 DEF Looped, SameButPlace, Runs, ClassifiedPcs
  <2>3. Becomes(p, y)
    <3> HIDE DEF y
    <3> QED BY <1>6, <2>2, BecomesWhole DEF y
  <2>4. Goes(p)
    <3> HIDE DEF y
    <3> QED BY <1>1, <2>2, <2>3 DEF Becomes, Goes, ClassifiedPcs
  <2> QED BY <1>1, <1>2, <2>3, <2>4 DEF RestoreEffect, Becomes, Alone, Restoring
<1> QED BY <1>3, <1>4, <1>5, <1>6

LEMMA SettleEffect ==
    ASSUME PromotionTypes, NEW p \in Procs, Settle(p) PROVE RestoreEffect(p)
<1> DEFINE x == proc[p]
           z == Loop(x, Last(p), "settle", "settled")
<1>1. x \in Runs /\ x.pc = "settle" /\ UNCHANGED <<alias, records, setting, result, closing, lock, epoch>>
  BY DEF PromotionTypes, Settle, At, registries, journal, rest
<1>2. PICK read \in BOOLEAN :
         proc' = [proc EXCEPT ![p] =
            Outcome(p, [z EXCEPT !.failed = z.failed \/ ~ read \/ ~ Prior(Unit(p))])]
  BY DEF Settle, PromotionTypes
<1> DEFINE f == z.failed \/ ~ read \/ ~ Prior(Unit(p))
           run == [z EXCEPT !.failed = f]
<1>3. Towards(p) BY <1>1, NothingTowards
<1>4. CASE Unit(p) < Last(p)
  <2>1. z = [x EXCEPT !.pc = "settle", !.unit = x.unit + 1, !.bad = FALSE]
    BY <1>4 DEF Loop, Unit
  <2>2. x.unit + 1 \in Minors
    <3>1. x.unit \in 1..Units /\ Last(p) \in 0..Units /\ Units \in Nat
      BY <1>1, LastType, SettingType DEF Runs, Minors
    <3> QED BY <1>4, <3>1 DEF Minors, Unit
  <2>3. z \in Runs /\ z.pc = "settle" /\ z.unit = x.unit + 1 /\ z.found = x.found
        /\ z.attempted = x.attempted /\ z.failed = x.failed
    <3> HIDE DEF x, z
    <3> QED BY <1>1, <2>1, <2>2 DEF Runs, Restoring
  <2>4. f \in BOOLEAN BY <2>3 DEF Runs
  <2>5. run \in Runs /\ run.pc = "settle" /\ run.unit = x.unit + 1 /\ run.found = x.found
        /\ run.attempted = x.attempted /\ run.failed = f
    <3> HIDE DEF x, z, f
    <3> QED BY <2>3, <2>4 DEF Runs
  <2>6. Outcome(p, run) = run
    <3> HIDE DEF run
    <3> QED BY <2>5 DEF Outcome
  <2>7. Becomes(p, run)
    <3> HIDE DEF run
    <3> QED BY <1>2, <2>5, <2>6, BecomesWhole DEF run
  <2>8. Goes(p)
    <3> HIDE DEF run, z
    <3> QED BY <1>1, <2>3, <2>5, <2>7 DEF Becomes, Goes, ClassifiedPcs, Unit
  <2> QED BY <1>1, <1>3, <2>7, <2>8 DEF RestoreEffect, Becomes, Alone, Restoring
<1>5. CASE ~ (Unit(p) < Last(p))
  <2>1. z = [x EXCEPT !.pc = "settled", !.unit = 1, !.bad = FALSE]
    BY <1>5 DEF Loop, Unit
  <2>2. z.pc = "settled" /\ z.failed = x.failed /\ z.found = x.found
    <3> HIDE DEF x, z
    <3> QED BY <1>1, <2>1 DEF Runs
  <2>3. run.pc = "settled" /\ run.failed = f /\ run.found = x.found
    <3>1. z = [x EXCEPT !.pc = "settled", !.unit = 1, !.bad = FALSE] BY <2>1
    <3> QED BY <1>1, <2>2, <3>1 DEF Runs
  <2>4. CASE f
    <3>1. Outcome(p, run) = GivenUp(p, "final-readback") BY <2>3, <2>4 DEF Outcome
    <3>2. GiveUp(p, "final-readback") BY <1>2, <3>1 DEF GiveUp
    <3>3. "final-readback" \in BlockingReasons BY DEF BlockingReasons
    <3> QED BY <1>1, <1>3, <3>2, <3>3, BecomesGivenUp DEF RestoreEffect, Alone, GivesUp, Restoring
  <2>5. CASE ~ f
    <3> DEFINE pc == IF p = "driver" THEN "rolledback" ELSE "restored"
               found == IF p = "driver" THEN NewRun.found ELSE run.found
               y == [NewRun EXCEPT !.pc = pc, !.found = found]
    <3>1. pc \in Pcs BY DEF Pcs, Ended
    <3>2. NewRun \in Runs BY NewRunType DEF Pcs, Ended
    <3>3. found \in [Minors -> [Registries -> Sides \cup {"unread"}]] BY <1>1, <2>3, <3>2 DEF Runs
    <3>4. y \in Runs /\ y.pc = pc
      <4> HIDE DEF pc, found
      <4> QED BY <3>1, <3>2, <3>3 DEF Runs, Pcs
    <3>5. Outcome(p, run) = y
      BY <2>3, <2>5, <3>2 DEF Outcome, Runs
    <3>6. Becomes(p, y)
      <4> HIDE DEF y
      <4> QED BY <1>2, <3>4, <3>5, BecomesWhole DEF run
    <3>7. ~ x.failed /\ Prior(Unit(p)) BY <2>2, <2>5
    <3>8. Reports(p) /\ Alone(p)
      <4> HIDE DEF y
      <4> QED BY <1>1, <1>5, <3>4, <3>6, <3>7 DEF Reports, Becomes, Alone
    <3> QED BY <1>1, <1>3, <3>8 DEF RestoreEffect, Restoring
  <2> QED BY <2>4, <2>5
<1> QED BY <1>4, <1>5

LEMMA RestoresEffect ==
    ASSUME PromotionTypes, NEW p \in Procs, Restores(p) PROVE RestoreEffect(p)
BY ReadUnitEffect, ClassifyEffect, ReadFailsEffect, DriftCheckEffect, GivesUpEffect,
   RestoreUnitEffect, MutatesEffect, SignsEffect, ConfirmRestoreEffect, SettleEffect
   DEF Restores

-----------------------------------------------------------------------------
(***************************************************************************)
(* The driver: what it has journaled by the time it gets somewhere.        *)
(***************************************************************************)
UnitDone(m) ==
    /\ \A r \in Touched : Journaled("result", m, r)
    /\ Operation = "automatic" => Journaled("referrer-result", m, "dockerhub")

AliasPcs == {"attempt", "started", "assert", "promote", "readback", "complete"}
UnitPcs == AliasPcs \cup {"refer", "referred", "recheck"}
LastPcs == {"final", "result", "exit"}

\* Where a driver x is.
Place(x) ==
    /\ x.pc \in {"preflight", "baseline"} => x.attempted = x.unit - 1
    /\ x.pc = "preflight" => x.unit = 1 /\ ~ x.mutated
    /\ x.pc \in UnitPcs => x.attempted = x.unit
    /\ x.pc \in LastPcs => x.attempted = Units
    /\ x.pc \in AliasPcs => x.reg = "ghcr" \/ (x.reg = "dockerhub" /\ x.mutated)
    /\ x.pc \in (UnitPcs \ {"attempt", "started"}) \cup LastPcs => x.mutated

\* What is on record when it is there.
Done(x) ==
    /\ x.pc \in {"baseline"} \cup UnitPcs => \A m \in 1..(x.unit - 1) : UnitDone(m)
    /\ x.pc \in AliasPcs /\ x.reg = "dockerhub" =>
          Operation = "automatic" /\ Journaled("result", x.unit, "ghcr")
    /\ x.pc \in AliasPcs \ {"attempt"} => Journaled("attempt", x.unit, x.reg)
    /\ x.pc \in {"refer", "referred"} =>
          Operation = "automatic" /\ \A r \in Registries : Journaled("result", x.unit, r)
    /\ x.pc = "referred" => Journaled("referrer-attempt", x.unit, "dockerhub")
    /\ x.pc = "recheck" => UnitDone(x.unit)
    /\ x.pc \in LastPcs => RecordsComplete

Results(x) ==
    /\ result => RecordsComplete
    /\ x.pc \in {"exit", "verified"} => result
    /\ x.pc \in Restoring \cup {"rolledback"} => ~ result

DriverInv == Place(Driver) /\ Done(Driver) /\ Results(Driver)

\* Records stay.
LEMMA Stays ==
    ASSUME UNCHANGED setting, records \subseteq records'
    PROVE  /\ \A kind, m, r : Journaled(kind, m, r) => Journaled(kind, m, r)'
           /\ \A m : UnitDone(m) => UnitDone(m)'
           /\ RecordsComplete => RecordsComplete'
           /\ \A side, m, r : Known(side, m, r) => Known(side, m, r)'
           /\ Units' = Units /\ Minors' = Minors /\ Operation' = Operation /\ Touched' = Touched
<1>1. \A kind, m, r : Journaled(kind, m, r) => Journaled(kind, m, r)' BY DEF Journaled
<1>2. Units' = Units /\ Minors' = Minors /\ Operation' = Operation /\ Touched' = Touched
  BY DEF Units, Minors, Operation, Touched
<1>3. \A m : UnitDone(m) => UnitDone(m)' BY <1>1, <1>2 DEF UnitDone
<1>4. RecordsComplete => RecordsComplete' BY <1>1, <1>2 DEF RecordsComplete
<1>5. \A side, m, r : Known(side, m, r) => Known(side, m, r)' BY <1>1, <1>2 DEF Known
<1> QED BY <1>1, <1>2, <1>3, <1>4, <1>5

\* The driver becomes z.
LEMMA BecomesInv ==
    ASSUME NEW z, Driver' = z, Place(z)', Done(z)', Results(z)'
    PROVE  DriverInv'
<1>1. Place(Driver)' BY DEF Place
<1>2. Done(Driver)' BY DEF Done, UnitDone, Journaled
<1>3. Results(Driver)' BY DEF Results
<1> QED BY <1>1, <1>2, <1>3 DEF DriverInv

\* The driver is x.
LEMMA IsInv ==
    ASSUME DriverInv, NEW x, Driver = x
    PROVE  Place(x) /\ Done(x) /\ Results(x)
<1>1. Place(x) BY DEF DriverInv, Place
<1>2. Done(x) BY DEF DriverInv, Done, UnitDone, Journaled
<1>3. Results(x) BY DEF DriverInv, Results
<1> QED BY <1>1, <1>2, <1>3

LEMMA DriverType ==
    ASSUME PromotionTypes
    PROVE  /\ Driver \in Runs /\ Driver.unit \in 1..Units /\ Units \in Nat \ {0}
           /\ Driver.reg \in Registries /\ "driver" \in Procs /\ Driver.pc \in Pcs
BY SettingType DEF PromotionTypes, Driver, Procs, Runs, Minors, Pcs

\* The driver itself stays where it is.
LEMMA DriverStays ==
    ASSUME DriverInv, UNCHANGED <<setting, result, Driver>>, records \subseteq records'
    PROVE  DriverInv'
<1>1. PICK x : x = Driver OBVIOUS
<1>2. Place(x) /\ Done(x) /\ Results(x) BY <1>1, IsInv
<1>3. Place(x)' BY <1>2, Stays DEF Place
<1>4. Done(x)' BY <1>2, Stays DEF Done
<1>5. Results(x)' BY <1>2, Stays DEF Results
<1> QED BY <1>1, <1>3, <1>4, <1>5, BecomesInv

\* A step of the driver alone.
DriverGoes(x, z) ==
    /\ x = Driver /\ x \in Runs /\ z \in Runs /\ Becomes("driver", z) /\ z = Driver'
    /\ x.unit \in 1..Units /\ Units \in Nat \ {0}

LEMMA GoesWhole ==
    ASSUME PromotionTypes, NEW z \in Runs, proc' = [proc EXCEPT !["driver"] = z]
    PROVE  DriverGoes(Driver, z)
BY DriverType, BecomesWhole DEF Becomes, Driver, DriverGoes

LEMMA GoesPc ==
    ASSUME PromotionTypes, NEW v \in Pcs, Step(v), NEW x, x = Driver
    PROVE  \E z : /\ DriverGoes(x, z)
                  /\ z.pc = v /\ z.unit = x.unit /\ z.reg = x.reg
                  /\ z.mutated = x.mutated /\ z.attempted = x.attempted
<1> DEFINE z == [x EXCEPT !.pc = v]
<1>1. x \in Runs BY DriverType
<1>2. /\ z \in Runs /\ z.pc = v /\ z.unit = x.unit /\ z.reg = x.reg
      /\ z.mutated = x.mutated /\ z.attempted = x.attempted
  BY <1>1 DEF Runs, Pcs
<1>3. proc' = [proc EXCEPT !["driver"] = z] BY DEF Step, PromotionTypes, Driver, Procs
<1> HIDE DEF z
<1> QED BY <1>2, <1>3, GoesWhole

LEMMA NewType == ASSUME PromotionTypes PROVE NewRun \in Runs
<1>1. 1 \in Minors /\ 0 \in 0..Units BY SettingType DEF Minors
<1>2. Unread \in [Minors -> [Registries -> Sides \cup {"unread"}]] BY DEF Unread
<1>3. "idle" \in Pcs /\ "ghcr" \in Registries /\ "restore-failed" \in BlockingReasons
  BY DEF Pcs, Ended, Registries, BlockingReasons
<1> QED BY <1>1, <1>2, <1>3 DEF NewRun, Runs, Pcs

LEMMA EndedType ==
    ASSUME PromotionTypes, NEW pc \in Pcs PROVE [NewRun EXCEPT !.pc = pc] \in Runs
BY NewType, FieldTypes

LEMMA RollbackType == ASSUME PromotionTypes PROVE Rollback \in Runs
<1>1. NewRun \in Runs /\ Driver.attempted \in 0..Units /\ "read" \in Pcs
  BY NewType, DriverType DEF Runs, Pcs, Restoring
<1> QED BY <1>1 DEF Rollback, Runs, Pcs

\* What becomes of the driver in the steps that change more than its pc.
LEMMA BaselineGoes ==
    ASSUME PromotionTypes, Baseline, NEW x, x = Driver
    PROVE  \E z : /\ DriverGoes(x, z) /\ z.pc = "attempt" /\ z.unit = x.unit /\ z.reg = "ghcr"
                  /\ z.attempted = x.unit /\ z.mutated = x.mutated
<1> DEFINE z == [x EXCEPT !.pc = "attempt", !.reg = "ghcr", !.attempted = x.unit]
<1>1. x \in Runs /\ x.unit \in 0..Units BY DriverType
<1>2. /\ z \in Runs /\ z.pc = "attempt" /\ z.unit = x.unit /\ z.reg = "ghcr"
      /\ z.attempted = x.unit /\ z.mutated = x.mutated
  BY <1>1 DEF Runs, Promoting, Registries
<1>3. proc' = [proc EXCEPT !["driver"] = z]
  BY DEF Baseline, PromotionTypes, Driver, Unit, Procs
<1> HIDE DEF z
<1> QED BY <1>2, <1>3, GoesWhole

LEMMA StartedGoes ==
    ASSUME PromotionTypes, Started, NEW x, x = Driver
    PROVE  \E z : /\ DriverGoes(x, z) /\ z.pc = "assert" /\ z.unit = x.unit /\ z.reg = x.reg
                  /\ z.attempted = x.attempted /\ z.mutated
<1> DEFINE z == [x EXCEPT !.pc = "assert", !.mutated = TRUE]
<1>1. x \in Runs BY DriverType
<1>2. /\ z \in Runs /\ z.pc = "assert" /\ z.unit = x.unit /\ z.reg = x.reg
      /\ z.attempted = x.attempted /\ z.mutated
  BY <1>1 DEF Runs, Promoting
<1>3. proc' = [proc EXCEPT !["driver"] = z] BY DEF Started, PromotionTypes, Driver, Procs
<1> HIDE DEF z
<1> QED BY <1>2, <1>3, GoesWhole

LEMMA CompleteGoes ==
    ASSUME PromotionTypes, Complete, NEW x, x = Driver
    PROVE  \E z : /\ DriverGoes(x, z) /\ z.pc = AfterComplete(x.reg)
                  /\ z.pc \in {"refer", "attempt", "recheck"}
                  /\ z.unit = x.unit /\ z.reg = "dockerhub"
                  /\ z.attempted = x.attempted /\ z.mutated = x.mutated
<1>1. PICK v \in {"refer", "attempt", "recheck"} : v = AfterComplete(x.reg)
  BY SettingType, DriverType DEF AfterComplete, Registries
<1> DEFINE z == [x EXCEPT !.pc = v, !.reg = "dockerhub"]
<1>2. x \in Runs BY DriverType
<1>3. /\ z \in Runs /\ z.pc = v /\ z.unit = x.unit /\ z.reg = "dockerhub"
      /\ z.attempted = x.attempted /\ z.mutated = x.mutated
  BY <1>2 DEF Runs, Promoting, Registries
<1>4. proc' = [proc EXCEPT !["driver"] = z]
  BY <1>1 DEF Complete, PromotionTypes, Driver, Procs
<1> HIDE DEF z
<1> QED BY <1>1, <1>3, <1>4, GoesWhole

LEMMA EndsGoes ==
    ASSUME PromotionTypes, NEW x, x = Driver, NEW pc \in Pcs,
           proc' = [proc EXCEPT !["driver"] = [NewRun EXCEPT !.pc = pc]]
    PROVE  \E z : /\ DriverGoes(x, z) /\ z.pc = pc
                  /\ z.unit = 1 /\ z.attempted = 0 /\ ~ z.mutated
<1> DEFINE z == [NewRun EXCEPT !.pc = pc]
<1>1. z \in Runs BY EndedType
<1>2. z.pc = pc /\ z.unit = 1 /\ z.attempted = 0 /\ ~ z.mutated BY DEF NewRun
<1> HIDE DEF z
<1> QED BY <1>1, <1>2, GoesWhole DEF z

LEMMA FailGoes ==
    ASSUME PromotionTypes, Fail, NEW x, x = Driver
    PROVE  \E z : /\ DriverGoes(x, z) /\ x.pc \in Promoting
                  /\ \/ z.pc = "failed" /\ ~ x.mutated
                     \/ z.pc = "read" /\ z.unit = 1 /\ x.mutated /\ z.attempted = x.attempted
<1>1. x.pc \in Promoting BY DEF Fail
<1>2. CASE ~ x.mutated
  <2>1. "failed" \in Pcs BY DEF Pcs, Ended
  <2> QED BY <1>1, <1>2, <2>1, EndsGoes DEF Fail
<1>3. CASE x.mutated
  <2>1. Rollback.pc = "read" /\ Rollback.unit = 1 /\ Rollback.attempted = x.attempted
    BY DEF Rollback, NewRun
  <2>2. proc' = [proc EXCEPT !["driver"] = Rollback] BY <1>3 DEF Fail
  <2> QED BY <1>1, <1>3, <2>1, <2>2, RollbackType, GoesWhole
<1> QED BY <1>2, <1>3

LEMMA PreflightKeeps ==
    ASSUME PromotionTypes, DriverInv, Preflight PROVE DriverInv'
<1>1. PICK x : x = Driver OBVIOUS
<1>2. Place(x) /\ Done(x) /\ Results(x) BY <1>1, IsInv
<1>3. x.pc = "preflight" /\ UNCHANGED <<setting, result, records>>
  BY <1>1 DEF Preflight, At, Driver, journal, rest
<1>4. PICK z : DriverGoes(x, z) /\ z.pc = "baseline" /\ z.unit = x.unit /\ z.attempted = x.attempted
  BY <1>1, GoesPc DEF Preflight, Pcs, Promoting
<1>5. Place(z)' BY <1>2, <1>3, <1>4 DEF Place, UnitPcs, AliasPcs, LastPcs
<1>6. Done(z)' BY <1>2, <1>3, <1>4 DEF Place, Done, UnitPcs, AliasPcs, LastPcs
<1>7. Results(z)' BY <1>2, <1>3, <1>4, Stays DEF Results, Promoting, Restoring
<1> QED BY <1>4, <1>5, <1>6, <1>7, BecomesInv DEF DriverGoes

LEMMA BaselineKeeps ==
    ASSUME PromotionTypes, DriverInv, Baseline PROVE DriverInv'
<1>1. PICK x : x = Driver OBVIOUS
<1>2. Place(x) /\ Done(x) /\ Results(x) BY <1>1, IsInv
<1>3. x.pc = "baseline" /\ UNCHANGED <<setting, result, records>>
  BY <1>1 DEF Baseline, At, Driver, journal, rest
<1>4. PICK z : /\ DriverGoes(x, z) /\ z.pc = "attempt" /\ z.unit = x.unit /\ z.reg = "ghcr"
               /\ z.attempted = x.unit /\ z.mutated = x.mutated
  BY <1>1, BaselineGoes
<1>5. Place(z)' BY <1>2, <1>3, <1>4 DEF Place, UnitPcs, AliasPcs, LastPcs
<1>6. Done(z)' BY <1>2, <1>3, <1>4, Stays DEF Done, UnitPcs, AliasPcs, LastPcs
<1>7. Results(z)' BY <1>2, <1>3, <1>4, Stays DEF Results, Promoting, Restoring
<1> QED BY <1>4, <1>5, <1>6, <1>7, BecomesInv DEF DriverGoes

LEMMA RecordedIsJournaled ==
    ASSUME NEW kind, NEW m, NEW r, records' = records \cup {Rec(kind, m, r)}
    PROVE  Journaled(kind, m, r)'
<1> DEFINE y == Rec(kind, m, r)
<1>1. y.kind = kind /\ y.minor = m /\ y.reg = r BY DEF Rec
<1>2. y \in records' OBVIOUS
<1> HIDE DEF y
<1> QED BY <1>1, <1>2 DEF Journaled

LEMMA CompletedIsJournaled ==
    ASSUME PromotionTypes, NEW kind, NEW done, NEW m, NEW r, Journaled(kind, m, r),
           records' = records \cup Completions(kind, done, m, r)
    PROVE  Journaled(done, m, r)'
<1>1. PICK y \in records : y.kind = kind /\ y.minor = m /\ y.reg = r BY DEF Journaled
<1> DEFINE z == [y EXCEPT !.kind = done]
<1>2. z \in records' BY <1>1 DEF Completions
<1>3. z.kind = done /\ z.minor = m /\ z.reg = r BY <1>1 DEF PromotionTypes, RecordTypes
<1> HIDE DEF z
<1> QED BY <1>2, <1>3 DEF Journaled

LEMMA AttemptKeeps ==
    ASSUME PromotionTypes, DriverInv, Attempt PROVE DriverInv'
<1>1. PICK x : x = Driver OBVIOUS
<1>2. Place(x) /\ Done(x) /\ Results(x) BY <1>1, IsInv
<1>3. x.pc = "attempt" /\ UNCHANGED <<setting, result>> /\ records \subseteq records'
  BY <1>1 DEF Attempt, At, Driver, rest
<1>4. Journaled("attempt", x.unit, x.reg)'
  BY <1>1, RecordedIsJournaled DEF Attempt, Unit, Driver
<1>5. PICK v : v = (IF x.reg = "ghcr" THEN "started" ELSE "assert") OBVIOUS
<1>6. PICK z : /\ DriverGoes(x, z) /\ z.pc = v /\ z.unit = x.unit /\ z.reg = x.reg
               /\ z.mutated = x.mutated /\ z.attempted = x.attempted
  <2>1. v \in Pcs /\ Step(v) BY <1>1, <1>5 DEF Attempt, Pcs, Promoting
  <2> QED BY <1>1, <2>1, GoesPc
<1>7. Place(z)' BY <1>2, <1>3, <1>5, <1>6, Stays DEF Place, UnitPcs, AliasPcs, LastPcs
<1>8. Done(z)' BY <1>2, <1>3, <1>4, <1>5, <1>6, Stays DEF Done, UnitPcs, AliasPcs, LastPcs
<1>9. Results(z)' BY <1>2, <1>3, <1>5, <1>6, Stays DEF Results, Promoting, Restoring
<1> QED BY <1>6, <1>7, <1>8, <1>9, BecomesInv DEF DriverGoes

LEMMA StartedKeeps ==
    ASSUME PromotionTypes, DriverInv, Started PROVE DriverInv'
<1>1. PICK x : x = Driver OBVIOUS
<1>2. Place(x) /\ Done(x) /\ Results(x) BY <1>1, IsInv
<1>3. x.pc = "started" /\ UNCHANGED <<setting, result, records>>
  BY <1>1 DEF Started, At, Driver, journal, rest
<1>4. PICK z : /\ DriverGoes(x, z) /\ z.pc = "assert" /\ z.unit = x.unit /\ z.reg = x.reg
               /\ z.attempted = x.attempted /\ z.mutated
  BY <1>1, StartedGoes
<1>5. Place(z)' BY <1>2, <1>3, <1>4, Stays DEF Place, UnitPcs, AliasPcs, LastPcs, DriverGoes, Runs, Registries
<1>6. Done(z)' BY <1>2, <1>3, <1>4, Stays DEF Done, UnitPcs, AliasPcs, LastPcs
<1>7. Results(z)' BY <1>2, <1>3, <1>4, Stays DEF Results, Promoting, Restoring
<1> QED BY <1>4, <1>5, <1>6, <1>7, BecomesInv DEF DriverGoes

\* The steps between the attempt and its completion.
LEMMA AliasStepKeeps ==
    ASSUME PromotionTypes, DriverInv, UNCHANGED <<setting, result, records>>,
           NEW v \in AliasPcs \ {"attempt", "started"}, Step(v),
           Driver.pc \in AliasPcs \ {"attempt", "started"}
    PROVE  DriverInv'
<1>1. PICK x : x = Driver OBVIOUS
<1>2. Place(x) /\ Done(x) /\ Results(x) BY <1>1, IsInv
<1>3. PICK z : /\ DriverGoes(x, z) /\ z.pc = v /\ z.unit = x.unit /\ z.reg = x.reg
               /\ z.mutated = x.mutated /\ z.attempted = x.attempted
  <2>1. v \in Pcs BY DEF Pcs, AliasPcs, Promoting
  <2> QED BY <1>1, <2>1, GoesPc
<1>4. Place(z)' BY <1>1, <1>2, <1>3, Stays DEF Place, UnitPcs, AliasPcs, LastPcs
<1>5. Done(z)' BY <1>1, <1>2, <1>3, Stays DEF Done, UnitPcs, AliasPcs, LastPcs
<1>6. Results(z)' BY <1>1, <1>2, <1>3, Stays DEF Results, Promoting, Restoring, AliasPcs
<1> QED BY <1>3, <1>4, <1>5, <1>6, BecomesInv DEF DriverGoes

LEMMA AliasStepsKeep ==
    ASSUME PromotionTypes, DriverInv, AssertOwner \/ Promote \/ ReadBack PROVE DriverInv'
<1>1. "promote" \in AliasPcs \ {"attempt", "started"} /\ "readback" \in AliasPcs \ {"attempt", "started"}
      /\ "complete" \in AliasPcs \ {"attempt", "started"} /\ "assert" \in AliasPcs \ {"attempt", "started"}
  BY DEF AliasPcs
<1>2. CASE AssertOwner BY <1>1, <1>2, AliasStepKeeps DEF AssertOwner, At, Driver, journal, rest
<1>3. CASE Promote BY <1>1, <1>3, AliasStepKeeps DEF Promote, At, Driver, journal, rest
<1>4. CASE ReadBack BY <1>1, <1>4, AliasStepKeeps DEF ReadBack, At, Driver, journal, rest
<1> QED BY <1>2, <1>3, <1>4

LEMMA CompleteKeeps ==
    ASSUME PromotionTypes, DriverInv, Complete PROVE DriverInv'
<1>1. PICK x : x = Driver OBVIOUS
<1>2. Place(x) /\ Done(x) /\ Results(x) BY <1>1, IsInv
<1>3. x.pc = "complete" /\ UNCHANGED <<setting, result>> /\ records \subseteq records'
  BY <1>1 DEF Complete, At, Driver, rest
<1>4. Operation \in {"automatic", "backfill-ghcr"} /\ x.reg \in Registries
  BY <1>1, SettingType, DriverType
<1>5. PICK v : v = AfterComplete(x.reg) OBVIOUS
<1>6. PICK z : /\ DriverGoes(x, z) /\ z.pc = v /\ v \in {"refer", "attempt", "recheck"}
               /\ z.unit = x.unit /\ z.reg = "dockerhub"
               /\ z.attempted = x.attempted /\ z.mutated = x.mutated
  BY <1>1, <1>5, CompleteGoes
<1>7. Journaled("result", x.unit, x.reg)'
  BY <1>1, CompletedIsJournaled DEF Complete, Unit, Driver
<1>8. Place(z)' BY <1>2, <1>3, <1>5, <1>6, Stays DEF Place, UnitPcs, AliasPcs, LastPcs
<1>9. Done(z)'
  <2>1. \A m \in 1..(z.unit - 1) : UnitDone(m)'
    BY <1>2, <1>3, <1>6, Stays DEF Done, UnitPcs, AliasPcs
  <2>2. Operation' = Operation /\ Touched' = Touched BY <1>3, Stays
  <2>3. CASE x.reg = "dockerhub"
    <3>1. v = "refer" BY <1>5, <2>3 DEF AfterComplete
    <3>2. Operation = "automatic" /\ Journaled("result", x.unit, "ghcr")'
      BY <1>2, <1>3, <2>3, Stays DEF Done, AliasPcs
    <3>3. \A r \in Registries : Journaled("result", x.unit, r)'
      BY <1>7, <2>3, <3>2 DEF Registries
    <3> QED BY <1>6, <2>1, <2>2, <3>1, <3>2, <3>3 DEF Done, UnitPcs, AliasPcs, LastPcs
  <2>4. CASE x.reg = "ghcr" /\ Operation = "automatic"
    <3>1. v = "attempt" BY <1>5, <2>4 DEF AfterComplete
    <3> QED BY <1>6, <1>7, <2>1, <2>2, <2>4, <3>1 DEF Done, UnitPcs, AliasPcs, LastPcs
  <2>5. CASE x.reg = "ghcr" /\ Operation = "backfill-ghcr"
    <3>1. v = "recheck" BY <1>5, <2>5 DEF AfterComplete
    <3>2. UnitDone(x.unit)' BY <1>7, <2>2, <2>5 DEF UnitDone, Touched
    <3> QED BY <1>6, <2>1, <3>1, <3>2 DEF Done, UnitPcs, AliasPcs, LastPcs
  <2> QED BY <1>4, <2>3, <2>4, <2>5 DEF Registries
<1>10. Results(z)' BY <1>2, <1>3, <1>5, <1>6, Stays DEF Results, Promoting, Restoring
<1> QED BY <1>6, <1>8, <1>9, <1>10, BecomesInv DEF DriverGoes

LEMMA ReferrerAttemptKeeps ==
    ASSUME PromotionTypes, DriverInv, ReferrerAttempt PROVE DriverInv'
<1>1. PICK x : x = Driver OBVIOUS
<1>2. Place(x) /\ Done(x) /\ Results(x) BY <1>1, IsInv
<1>3. x.pc = "refer" /\ UNCHANGED <<setting, result>> /\ records \subseteq records'
  BY <1>1 DEF ReferrerAttempt, At, Driver, rest
<1>4. Journaled("referrer-attempt", x.unit, "dockerhub")'
  BY <1>1, RecordedIsJournaled DEF ReferrerAttempt, Unit, Driver
<1>5. PICK z : /\ DriverGoes(x, z) /\ z.pc = "referred" /\ z.unit = x.unit /\ z.reg = x.reg
               /\ z.mutated = x.mutated /\ z.attempted = x.attempted
  BY <1>1, GoesPc DEF ReferrerAttempt, Pcs, Promoting
<1>6. Place(z)' BY <1>2, <1>3, <1>5, Stays DEF Place, UnitPcs, AliasPcs, LastPcs
<1>7. Done(z)' BY <1>2, <1>3, <1>4, <1>5, Stays DEF Done, UnitPcs, AliasPcs, LastPcs
<1>8. Results(z)' BY <1>2, <1>3, <1>5, Stays DEF Results, Promoting, Restoring
<1> QED BY <1>5, <1>6, <1>7, <1>8, BecomesInv DEF DriverGoes

LEMMA ReferrerCompleteKeeps ==
    ASSUME PromotionTypes, DriverInv, ReferrerComplete PROVE DriverInv'
<1>1. PICK x : x = Driver OBVIOUS
<1>2. Place(x) /\ Done(x) /\ Results(x) BY <1>1, IsInv
<1>3. x.pc = "referred" /\ UNCHANGED <<setting, result>> /\ records \subseteq records'
  BY <1>1 DEF ReferrerComplete, At, Driver, rest
<1>4. Journaled("referrer-result", x.unit, "dockerhub")'
  BY <1>1, <1>2, <1>3, CompletedIsJournaled DEF ReferrerComplete, Unit, Driver, Done
<1>5. PICK z : /\ DriverGoes(x, z) /\ z.pc = "recheck" /\ z.unit = x.unit /\ z.reg = x.reg
               /\ z.mutated = x.mutated /\ z.attempted = x.attempted
  BY <1>1, GoesPc DEF ReferrerComplete, Pcs, Promoting
<1>6. Place(z)' BY <1>2, <1>3, <1>5, Stays DEF Place, UnitPcs, AliasPcs, LastPcs
<1>7. UnitDone(x.unit)'
  <2>1. \A r \in Registries : Journaled("result", x.unit, r)' BY <1>2, <1>3, Stays DEF Done
  <2>2. Operation' = Operation /\ Touched' = Touched BY <1>3, Stays
  <2>3. Touched \subseteq Registries BY DEF Touched, Registries
  <2> QED BY <1>4, <2>1, <2>2, <2>3 DEF UnitDone
<1>8. Done(z)' BY <1>2, <1>3, <1>5, <1>7, Stays DEF Done, UnitPcs, AliasPcs, LastPcs
<1>9. Results(z)' BY <1>2, <1>3, <1>5, Stays DEF Results, Promoting, Restoring
<1> QED BY <1>5, <1>6, <1>8, <1>9, BecomesInv DEF DriverGoes

\* One pass of a loop over the units of the plan.
LEMMA GoesLoop ==
    ASSUME PromotionTypes, NEW pc \in Pcs, NEW done \in Pcs, NEW x, x = Driver,
           proc' = [proc EXCEPT !["driver"] = Loop(Driver, Units, pc, done)]
    PROVE  \E z : DriverGoes(x, z) /\ Looped(z, x, Units, pc, done)
<1> DEFINE z == Loop(x, Units, pc, done)
<1>1. x \in Runs /\ Units \in 0..Units BY DriverType
<1>2. Looped(z, x, Units, pc, done)
  <2> HIDE DEF z
  <2> QED BY <1>1, LoopType DEF z
<1>3. z \in Runs BY <1>2 DEF Looped
<1>4. proc' = [proc EXCEPT !["driver"] = z] OBVIOUS
<1> HIDE DEF z
<1> QED BY <1>2, <1>3, <1>4, GoesWhole

LEMMA RecheckKeeps ==
    ASSUME PromotionTypes, DriverInv, Recheck PROVE DriverInv'
<1>1. PICK x : x = Driver OBVIOUS
<1>2. Place(x) /\ Done(x) /\ Results(x) BY <1>1, IsInv
<1>3. x.pc = "recheck" /\ UNCHANGED <<setting, result, records>>
  BY <1>1 DEF Recheck, At, Driver, journal, rest
<1>4. PICK z : DriverGoes(x, z) /\ Looped(z, x, Units, "baseline", "final")
  <2>1. "baseline" \in Pcs /\ "final" \in Pcs BY DEF Pcs, Promoting
  <2>2. proc' = [proc EXCEPT !["driver"] = Loop(Driver, Units, "baseline", "final")]
    BY DEF Recheck, Driver, PromotionTypes, Procs
  <2> QED BY <1>1, <2>1, <2>2, GoesLoop
<1>5. /\ z.attempted = x.attempted /\ z.mutated = x.mutated /\ x.attempted = x.unit /\ x.mutated
      /\ \/ z.pc = "baseline" /\ z.unit = x.unit + 1
         \/ z.pc = "final" /\ z.unit = 1 /\ x.unit = Units
      /\ x.unit \in 1..Units /\ Units \in Nat
  BY <1>2, <1>3, <1>4 DEF Looped, SameButPlace, Place, UnitPcs, DriverGoes
<1>6. \A m \in 1..x.unit : UnitDone(m)
  <2>1. UnitDone(x.unit) /\ \A m \in 1..(x.unit - 1) : UnitDone(m)
    BY <1>2, <1>3 DEF Done, UnitPcs
  <2> QED BY <1>5, <2>1
<1>7. z.pc = "final" => RecordsComplete BY <1>5, <1>6 DEF RecordsComplete, UnitDone, Minors
<1>8. Place(z)' BY <1>5, <1>3, Stays DEF Place, UnitPcs, AliasPcs, LastPcs
<1>9. Done(z)' BY <1>3, <1>5, <1>6, <1>7, Stays DEF Done, UnitPcs, AliasPcs, LastPcs
<1>10. Results(z)' BY <1>2, <1>3, <1>5, Stays DEF Results, Promoting, Restoring
<1> QED BY <1>4, <1>8, <1>9, <1>10, BecomesInv DEF DriverGoes

LEMMA FinalReadBackKeeps ==
    ASSUME PromotionTypes, DriverInv, FinalReadBack PROVE DriverInv'
<1>1. PICK x : x = Driver OBVIOUS
<1>2. Place(x) /\ Done(x) /\ Results(x) BY <1>1, IsInv
<1>3. x.pc = "final" /\ UNCHANGED <<setting, result, records>>
  BY <1>1 DEF FinalReadBack, At, Driver, journal, rest
<1>4. PICK z : DriverGoes(x, z) /\ Looped(z, x, Units, "final", "result")
  <2>1. "result" \in Pcs /\ "final" \in Pcs BY DEF Pcs, Promoting
  <2>2. proc' = [proc EXCEPT !["driver"] = Loop(Driver, Units, "final", "result")]
    BY DEF FinalReadBack, Driver, PromotionTypes, Procs
  <2> QED BY <1>1, <2>1, <2>2, GoesLoop
<1>5. /\ z.attempted = x.attempted /\ z.mutated = x.mutated /\ z.pc \in {"final", "result"}
      /\ x.attempted = Units /\ x.mutated
  BY <1>2, <1>3, <1>4 DEF Looped, SameButPlace, Place, LastPcs
<1>6. Place(z)' BY <1>3, <1>5, Stays DEF Place, UnitPcs, AliasPcs, LastPcs
<1>7. Done(z)' BY <1>2, <1>3, <1>5, Stays DEF Done, UnitPcs, AliasPcs, LastPcs
<1>8. Results(z)' BY <1>2, <1>3, <1>5, Stays DEF Results, Promoting, Restoring
<1> QED BY <1>4, <1>6, <1>7, <1>8, BecomesInv DEF DriverGoes

LEMMA WriteResultKeeps ==
    ASSUME PromotionTypes, DriverInv, WriteResult PROVE DriverInv'
<1>1. PICK x : x = Driver OBVIOUS
<1>2. Place(x) /\ Done(x) /\ Results(x) BY <1>1, IsInv
<1>3. x.pc = "result" /\ UNCHANGED <<setting, records>> /\ result'
  BY <1>1 DEF WriteResult, At, Driver, journal
<1>4. PICK z : /\ DriverGoes(x, z) /\ z.pc = "exit" /\ z.attempted = x.attempted
               /\ z.mutated = x.mutated
  BY <1>1, GoesPc DEF WriteResult, Pcs, Promoting
<1>5. Place(z)' BY <1>2, <1>3, <1>4, Stays DEF Place, UnitPcs, AliasPcs, LastPcs
<1>6. Done(z)' BY <1>2, <1>3, <1>4, Stays DEF Done, UnitPcs, AliasPcs, LastPcs
<1>7. Results(z)' BY <1>2, <1>3, <1>4, Stays DEF Results, Done, LastPcs, Promoting, Restoring
<1> QED BY <1>4, <1>5, <1>6, <1>7, BecomesInv DEF DriverGoes

\* The driver is done, lost, or at its beginning, or restores.
AwayPcs == Ended \cup Restoring \cup {"preflight"}

LEMMA AwayInv ==
    ASSUME PromotionTypes, DriverInv, UNCHANGED setting, records \subseteq records',
           NEW z, Driver' = z, z.pc \in AwayPcs,
           z.pc = "preflight" => z.unit = 1 /\ z.attempted = 0 /\ ~ z.mutated,
           result' => result,
           z.pc = "verified" => result',
           z.pc \in Restoring \cup {"rolledback"} => ~ result'
    PROVE  DriverInv'
<1>1. Place(z)' BY DEF Place, AwayPcs, Ended, Restoring, UnitPcs, AliasPcs, LastPcs
<1>2. Done(z)' BY DEF Done, AwayPcs, Ended, Restoring, UnitPcs, AliasPcs, LastPcs
<1>3. Results(z)'
  <2>1. result => RecordsComplete BY DEF DriverInv, Results
  <2> QED BY <2>1, Stays DEF Results, AwayPcs, Ended, Restoring, Promoting
<1> QED BY <1>1, <1>2, <1>3, BecomesInv

LEMMA EndsInv ==
    ASSUME PromotionTypes, DriverInv, UNCHANGED <<setting, records>>, NEW z,
           proc' = [proc EXCEPT !["driver"] = z], z.pc \in AwayPcs,
           z.pc = "preflight" => z.unit = 1 /\ z.attempted = 0 /\ ~ z.mutated,
           result' => result,
           z.pc = "verified" => result',
           z.pc \in Restoring \cup {"rolledback"} => ~ result'
    PROVE  DriverInv'
<1>1. Driver' = z BY DriverType DEF PromotionTypes, Driver
<1> QED BY <1>1, AwayInv

LEMMA ExitVerifiedKeeps ==
    ASSUME PromotionTypes, DriverInv, ExitVerified PROVE DriverInv'
<1> DEFINE z == [NewRun EXCEPT !.pc = "verified"]
<1>1. z.pc = "verified" BY DEF NewRun
<1>2. proc' = [proc EXCEPT !["driver"] = z] /\ UNCHANGED <<setting, records, result>>
  BY DEF ExitVerified, End, journal, rest
<1>3. result
  <2>1. PICK x : x = Driver OBVIOUS
  <2> QED BY <2>1, IsInv DEF ExitVerified, At, Driver, Results
<1> HIDE DEF z
<1> QED BY <1>1, <1>2, <1>3, EndsInv DEF AwayPcs, Ended, Restoring

LEMMA FailKeeps ==
    ASSUME PromotionTypes, DriverInv, Fail PROVE DriverInv'
<1>1. PICK x : x = Driver OBVIOUS
<1>2. Place(x) /\ Results(x) BY <1>1, IsInv
<1> DEFINE z == IF x.mutated THEN Rollback ELSE [NewRun EXCEPT !.pc = "failed"]
<1>3. z.pc \in {"read", "failed"} /\ (z.pc = "read" => x.mutated) BY DEF NewRun, Rollback
<1>4. (result' => result) /\ (x.mutated => ~ result')
  BY <1>1 DEF Fail, PromotionTypes
<1>5. proc' = [proc EXCEPT !["driver"] = z] /\ UNCHANGED <<setting, records>>
  BY <1>1 DEF Fail, journal
<1> HIDE DEF z
<1> QED BY <1>3, <1>4, <1>5, EndsInv DEF AwayPcs, Ended, Restoring

LEMMA PromotesKeep ==
    ASSUME PromotionTypes, DriverInv, Promotes PROVE DriverInv'
BY PreflightKeeps, BaselineKeeps, AttemptKeeps, StartedKeeps, AliasStepsKeep, CompleteKeeps,
   ReferrerAttemptKeeps, ReferrerCompleteKeeps, RecheckKeeps, FinalReadBackKeeps,
   WriteResultKeeps, ExitVerifiedKeeps, FailKeeps
   DEF Promotes

LEMMA StartDriverKeeps ==
    ASSUME PromotionTypes, DriverInv, StartDriver PROVE DriverInv'
<1> DEFINE z == [NewRun EXCEPT !.pc = "preflight"]
<1>1. z.pc = "preflight" /\ z.unit = 1 /\ z.attempted = 0 /\ ~ z.mutated BY DEF NewRun
<1>2. proc' = [proc EXCEPT !["driver"] = z] /\ UNCHANGED <<setting, records>>
  BY DEF StartDriver, journal
<1>3. result' => result
  <2>1. result' = FALSE \/ result' = result BY DEF StartDriver
  <2> QED BY <2>1, Zenon
<1> HIDE DEF z
<1> QED BY <1>1, <1>2, <1>3, EndsInv DEF AwayPcs, Restoring

LEMMA KillDriverKeeps ==
    ASSUME PromotionTypes, DriverInv, Kill("driver") PROVE DriverInv'
<1> DEFINE z == [NewRun EXCEPT !.pc = "failed"]
<1>1. z.pc = "failed" BY DEF NewRun
<1>2. proc' = [proc EXCEPT !["driver"] = z] /\ UNCHANGED <<setting, records, result>>
  BY DEF Kill, End, journal, rest
<1> HIDE DEF z
<1> QED BY <1>1, <1>2, EndsInv DEF AwayPcs, Ended, Restoring

LEMMA RollbackKeeps ==
    ASSUME PromotionTypes, DriverInv, Restores("driver") PROVE DriverInv'
<1>1. RestoreEffect("driver") BY RestoresEffect DEF Procs
<1>2. PICK x, z : x = Driver /\ z = Driver' OBVIOUS
<1>3. Results(x) BY <1>2, IsInv
<1>4. UNCHANGED <<setting, result>> /\ records \subseteq records'
  BY <1>1 DEF RestoreEffect, Alone, Towards
<1>5. ~ result BY <1>1, <1>2, <1>3 DEF RestoreEffect, Results, Driver
<1>6. z.pc \in Restoring \cup {"failed", "rolledback"}
  BY <1>1, <1>2 DEF RestoreEffect, GivesUp, Reports, Reads, KnowsUnit, Goes, ClassifiedPcs,
                    Restoring, Driver
<1> QED BY <1>2, <1>4, <1>5, <1>6, AwayInv DEF AwayPcs, Ended, Restoring

\* A step of finish.
Closes == Finishes \/ \E s \in Statuses : FinishCut(s)

LEMMA ClosesEffect ==
    ASSUME PromotionTypes, Closes
    PROVE  /\ UNCHANGED <<setting, alias, tags, epoch, records, result, proc>>
           /\ lock' = lock \/ lock' \in {"COMMITTED", "RECOVERED", "FREE"}
           /\ ClosingTypes'
<1>1. PICK s \in Statuses : FinishBegin(s) \/ FinishReceipt(s) \/ FinishTerminal(s)
                            \/ FinishFree(s) \/ FinishCut(s)
  BY DEF Closes, Finishes
<1>2. UNCHANGED <<setting, alias, tags, epoch, records, result, proc>>
  BY <1>1 DEF FinishBegin, FinishReceipt, FinishTerminal, FinishFree, FinishCut, registries, journal
<1>3. lock' = lock \/ lock' \in {"COMMITTED", "RECOVERED", "FREE"}
  BY <1>1 DEF FinishBegin, FinishReceipt, FinishTerminal, FinishFree, FinishCut, Terminal, journal
<1>4. \E v \in {"idle", "checked", "received", "terminal"} :
        finish' = [finish EXCEPT ![s] = v] \/ UNCHANGED finish
  BY <1>1 DEF FinishBegin, FinishReceipt, FinishTerminal, FinishFree, FinishCut
<1>5. receipt' \in {receipt, s}
  BY <1>1 DEF FinishBegin, FinishReceipt, FinishTerminal, FinishFree, FinishCut
<1> QED BY <1>2, <1>3, <1>4, <1>5 DEF PromotionTypes, ClosingTypes

\* A step of something else.
OthersStep ==
    \/ RecoverBegin \/ StartRecovery \/ Closes
    \/ Restores("recovery") \/ Note("recovery") \/ Kill("recovery")
    \/ \E reason \in ExitReasons : RecoveryExits(reason)
    \/ \E m \in Minors, r \in Registries : Drift(m, r)

LEMMA OthersLeave ==
    ASSUME PromotionTypes, OthersStep
    PROVE  UNCHANGED <<setting, result, Driver>> /\ records \subseteq records'
<1>1. proc \in [Procs -> Runs] BY DEF PromotionTypes
<1>2. CASE RecoverBegin \/ StartRecovery
  <2>1. \E z : proc' = [proc EXCEPT !["recovery"] = z]
    BY <1>2 DEF RecoverBegin, StartRecovery
  <2>2. Driver' = Driver BY <1>1, <2>1 DEF Driver, Procs
  <2> QED BY <1>2, <2>2 DEF RecoverBegin, StartRecovery, rest, journal
<1>3. CASE Closes BY <1>3, ClosesEffect DEF Driver
<1>4. CASE Restores("recovery")
  <2>1. RestoreEffect("recovery") BY <1>4, RestoresEffect DEF Procs
  <2> QED BY <2>1 DEF RestoreEffect, Alone, Towards, Driver, Procs
<1>5. CASE Note("recovery")
  BY <1>1, <1>5 DEF Note, NoteFailure, End, rest, Driver
<1>6. CASE Kill("recovery") BY <1>1, <1>6 DEF Kill, End, rest, journal, Driver
<1>7. CASE \E reason \in ExitReasons : RecoveryExits(reason)
  BY <1>1, <1>7 DEF RecoveryExits, NoteFailure, End, rest, journal, Driver
<1>8. CASE \E m \in Minors, r \in Registries : Drift(m, r)
  BY <1>8 DEF Drift, rest, journal, Driver
<1> QED BY <1>2, <1>3, <1>4, <1>5, <1>6, <1>7, <1>8 DEF OthersStep

LEMMA NextCases ==
    ASSUME Next
    PROVE  Promotes \/ StartDriver \/ Kill("driver") \/ Restores("driver") \/ OthersStep
BY DEF Next, Starts, Recovers, Interrupts, Procs, OthersStep, Closes

LEMMA DriverKept ==
    ASSUME PromotionTypes, DriverInv, [Next]_vars PROVE DriverInv'
<1>1. CASE UNCHANGED vars BY <1>1, DriverStays DEF vars, Driver
<1>2. CASE Next
  BY <1>2, NextCases, PromotesKeep, StartDriverKeeps, KillDriverKeeps, RollbackKeeps,
     OthersLeave, DriverStays
<1> QED BY <1>1, <1>2

-----------------------------------------------------------------------------
(***************************************************************************)
(* Types.                                                                  *)
(***************************************************************************)
LEMMA TypesKept ==
    ASSUME PromotionTypes, UNCHANGED setting,
           alias' \in [Minors -> [Registries -> Sides]], lock' \in LockStates, epoch' \in Nat,
           records' \subseteq RecordTypes, result' \in BOOLEAN,
           ClosingTypes' \/ UNCHANGED closing, proc' \in [Procs -> Runs]
    PROVE  PromotionTypes'
<1>1. Minors' = Minors /\ Runs' = Runs BY DEF Minors, Units, Runs, Unread
<1>2. ClosingTypes' BY DEF closing, ClosingTypes, PromotionTypes
<1> QED BY <1>1, <1>2 DEF PromotionTypes

LEMMA RunTypes ==
    ASSUME PromotionTypes, Promotes \/ StartDriver \/ Kill("driver")
    PROVE  /\ proc' \in [Procs -> Runs]
           /\ proc'["recovery"] = proc["recovery"]
<1>1. \E z \in Runs : DriverGoes(Driver, z)
  <2>1. CASE \E v \in Pcs : Step(v) BY <2>1, GoesPc DEF DriverGoes
  <2>2. CASE \E z \in Runs : proc' = [proc EXCEPT !["driver"] = z] BY <2>2, GoesWhole
  <2>3. CASE Baseline \/ Started \/ Complete
    BY <2>3, BaselineGoes, StartedGoes, CompleteGoes DEF DriverGoes
  <2>6. CASE Recheck \/ FinalReadBack
    <3>1. PICK pc \in Pcs, done \in Pcs :
             proc' = [proc EXCEPT !["driver"] = Loop(Driver, Units, pc, done)]
      BY <2>6 DEF Recheck, FinalReadBack, Driver, PromotionTypes, Procs, Pcs, Promoting
    <3> QED BY <3>1, GoesLoop DEF DriverGoes
  <2>7. CASE ExitVerified \/ Fail \/ StartDriver \/ Kill("driver")
    <3>1. CASE Fail BY <3>1, FailGoes DEF DriverGoes
    <3>2. CASE ~ Fail
      <4>1. \E pc \in Pcs : proc' = [proc EXCEPT !["driver"] = [NewRun EXCEPT !.pc = pc]]
        BY <2>7, <3>2 DEF ExitVerified, StartDriver, Kill, End, Pcs, Ended, Promoting
      <4> QED BY <4>1, EndsGoes DEF DriverGoes
    <3> QED BY <3>1, <3>2
  <2>8. CASE Preflight \/ Attempt \/ AssertOwner \/ Promote \/ ReadBack
            \/ ReferrerAttempt \/ ReferrerComplete \/ WriteResult
    BY <2>1, <2>8 DEF Preflight, Attempt, AssertOwner, Promote, ReadBack, ReferrerAttempt,
       ReferrerComplete, WriteResult, Pcs, Promoting
  <2> QED BY <2>3, <2>6, <2>7, <2>8 DEF Promotes
<1> QED BY <1>1 DEF DriverGoes, Becomes, Procs

\* The driver moves one alias, and only at "promote".
Promoted ==
    /\ alias' = [alias EXCEPT ![Driver.unit][Driver.reg] = "target"]
    /\ Driver.pc = "promote"

LEMMA PromotesMove ==
    ASSUME PromotionTypes, Promotes \/ StartDriver \/ Kill("driver")
    PROVE  /\ UNCHANGED <<setting, lock, epoch, closing>>
           /\ records \subseteq records' /\ records' \subseteq RecordTypes
           /\ result' \in BOOLEAN
           /\ Promoted \/ UNCHANGED alias
           /\ alias' \in [Minors -> [Registries -> Sides]]
<1>1. UNCHANGED <<setting, lock, epoch, closing>>
  BY DEF Promotes, Preflight, Baseline, Attempt, Started, AssertOwner, Promote, ReadBack, Complete,
     ReferrerAttempt, ReferrerComplete, Recheck, FinalReadBack, WriteResult, ExitVerified, Fail,
     StartDriver, Kill, journal, rest
<1>2. records \subseteq records' /\ records' \subseteq RecordTypes
  <2>1. records \subseteq RecordTypes /\ Unit("driver") \in Nat /\ Driver.reg \in Registries
    BY DriverType DEF PromotionTypes, Unit, Driver
  <2>2. CASE Attempt \/ ReferrerAttempt
    BY <2>1, <2>2, RecType DEF Attempt, ReferrerAttempt, Kinds, Registries
  <2>3. CASE Complete \/ ReferrerComplete
    BY <2>1, <2>3, CompletionType DEF Complete, ReferrerComplete, Kinds
  <2>4. CASE UNCHANGED records BY <2>1, <2>4
  <2> QED BY <2>2, <2>3, <2>4 DEF Promotes, Preflight, Baseline, Started, AssertOwner, Promote,
     ReadBack, Recheck, FinalReadBack, WriteResult, ExitVerified, Fail, StartDriver, Kill, journal
<1>3. result' \in BOOLEAN
  BY DEF Promotes, Preflight, Baseline, Attempt, Started, AssertOwner, Promote, ReadBack, Complete,
     ReferrerAttempt, ReferrerComplete, Recheck, FinalReadBack, WriteResult, ExitVerified, Fail,
     StartDriver, Kill, rest, PromotionTypes
<1>4. Promoted \/ UNCHANGED alias
  BY DEF Promotes, Preflight, Baseline, Attempt, Started, AssertOwner, Promote, ReadBack, Complete,
     ReferrerAttempt, ReferrerComplete, Recheck, FinalReadBack, WriteResult, ExitVerified, Fail,
     StartDriver, Kill, registries, Promoted, At, Unit, Driver
<1>5. alias' \in [Minors -> [Registries -> Sides]]
  <2>1. CASE Promoted
    <3>1. Driver.unit \in Minors /\ Driver.reg \in Registries BY DriverType DEF Minors
    <3>2. alias[Driver.unit] \in [Registries -> Sides] BY <3>1 DEF PromotionTypes
    <3>3. [alias[Driver.unit] EXCEPT ![Driver.reg] = "target"] \in [Registries -> Sides]
      BY <3>2 DEF Sides
    <3>4. alias' = [alias EXCEPT ![Driver.unit] =
                       [alias[Driver.unit] EXCEPT ![Driver.reg] = "target"]]
      BY <2>1 DEF Promoted, PromotionTypes
    <3> QED BY <3>1, <3>3, <3>4 DEF PromotionTypes
  <2> QED BY <1>4, <2>1 DEF PromotionTypes
<1> QED BY <1>1, <1>2, <1>3, <1>4, <1>5

LEMMA NoteType ==
    ASSUME PromotionTypes, NEW reason \in BlockingReasons \cup ExitReasons, NoteFailure(reason)
    PROVE  /\ lock' \in {"BLOCKED", "RECOVERY_REQUIRED"} /\ epoch' \in Nat
           /\ records \subseteq records' /\ records' \subseteq RecordTypes
           /\ lock # "FREE"
<1>1. Rec("failure", 0, reason) \in RecordTypes BY RecType DEF Kinds
<1> QED BY <1>1 DEF NoteFailure, CanNote, FailureState, PromotionTypes, MutableOwnerStates

LEMMA OthersType ==
    ASSUME PromotionTypes, OthersStep PROVE PromotionTypes'
<1>0. UNCHANGED <<setting, result>> BY OthersLeave
<1>1. \A pc \in Pcs : [NewRun EXCEPT !.pc = pc] \in Runs BY EndedType
<1>2. CASE RecoverBegin \/ StartRecovery
  <2>1. NewRun \in Runs BY NewType
  <2>2. proc' \in [Procs -> Runs]
    BY <1>1, <1>2, <2>1 DEF RecoverBegin, StartRecovery, Pcs, Restoring, PromotionTypes
  <2>3. lock' \in LockStates /\ epoch' \in Nat /\ UNCHANGED <<alias, records, closing>>
    BY <1>2 DEF RecoverBegin, StartRecovery, PromotionTypes, LockStates, MutableOwnerStates,
                registries, journal, rest
  <2> QED BY <1>0, <2>2, <2>3, TypesKept DEF PromotionTypes
<1>3. CASE Closes
  <2>1. lock' \in LockStates BY <1>3, ClosesEffect DEF LockStates, PromotionTypes
  <2> QED BY <1>0, <1>3, <2>1, ClosesEffect, TypesKept DEF PromotionTypes
<1>4. CASE Restores("recovery")
  <2>1. RestoreEffect("recovery") BY <1>4, RestoresEffect DEF Procs
  <2> QED BY <1>0, <2>1, TypesKept DEF RestoreEffect, Alone, Towards, PromotionTypes
<1>5. ASSUME NEW pc \in Pcs, NEW p \in Procs, End(p, pc) PROVE proc' \in [Procs -> Runs]
  BY <1>1, <1>5 DEF End, PromotionTypes
<1>6. CASE Note("recovery")
  <2>1. proc["recovery"].reason \in BlockingReasons BY DEF PromotionTypes, Runs, Procs
  <2>2. lock' \in LockStates /\ epoch' \in Nat /\ records' \subseteq RecordTypes
    BY <1>6, <2>1, NoteType DEF Note, LockStates, MutableOwnerStates
  <2>3. proc' \in [Procs -> Runs] BY <1>5, <1>6 DEF Note, Pcs, Ended, Procs
  <2>4. UNCHANGED <<alias, closing>> BY <1>6 DEF Note, registries, rest
  <2> QED BY <1>0, <2>2, <2>3, <2>4, TypesKept DEF PromotionTypes
<1>7. CASE Kill("recovery")
  <2>1. proc' \in [Procs -> Runs] BY <1>5, <1>7 DEF Kill, Pcs, Ended, Procs
  <2>2. UNCHANGED <<alias, lock, epoch, records, closing>>
    BY <1>7 DEF Kill, registries, journal, rest
  <2> QED BY <1>0, <2>1, <2>2, TypesKept DEF PromotionTypes
<1>8. ASSUME NEW reason \in ExitReasons, RecoveryExits(reason) PROVE PromotionTypes'
  <2>1. lock' \in LockStates /\ epoch' \in Nat /\ records' \subseteq RecordTypes
    BY <1>8, NoteType DEF RecoveryExits, LockStates, MutableOwnerStates, journal, PromotionTypes
  <2>2. proc' \in [Procs -> Runs] BY <1>5, <1>8 DEF RecoveryExits, Pcs, Ended, Procs
  <2>3. UNCHANGED <<alias, closing>> BY <1>8 DEF RecoveryExits, registries, rest
  <2> QED BY <1>0, <2>1, <2>2, <2>3, TypesKept DEF PromotionTypes
<1>9. ASSUME NEW m \in Minors, NEW r \in Registries, Drift(m, r) PROVE PromotionTypes'
  <2>1. PICK side \in setting.drifts : alias' = [alias EXCEPT ![m][r] = side] BY <1>9 DEF Drift
  <2>2. side \in Sides /\ alias[m] \in [Registries -> Sides]
    BY <2>1, SettingType DEF PromotionTypes
  <2>3. [alias[m] EXCEPT ![r] = side] \in [Registries -> Sides] BY <2>2
  <2>4. alias' = [alias EXCEPT ![m] = [alias[m] EXCEPT ![r] = side]]
    BY <2>1 DEF PromotionTypes
  <2>5. alias' \in [Minors -> [Registries -> Sides]] BY <2>3, <2>4 DEF PromotionTypes
  <2>6. UNCHANGED <<lock, epoch, records, closing, proc>> BY <1>9 DEF Drift, journal, rest
  <2> QED BY <1>0, <2>5, <2>6, TypesKept DEF PromotionTypes
<1> QED BY <1>2, <1>3, <1>4, <1>6, <1>7, <1>8, <1>9 DEF OthersStep

LEMMA TypeKept ==
    ASSUME PromotionTypes, [Next]_vars PROVE PromotionTypes'
<1>1. CASE UNCHANGED vars
  <2>1. UNCHANGED <<setting, alias, lock, epoch, records, result, closing, proc>>
    BY <1>1 DEF vars, closing
  <2> QED BY <2>1, TypesKept DEF PromotionTypes
<1>2. CASE Promotes \/ StartDriver \/ Kill("driver")
  BY <1>2, RunTypes, PromotesMove, TypesKept DEF PromotionTypes
<1>3. CASE Restores("driver")
  <2>1. RestoreEffect("driver") BY <1>3, RestoresEffect DEF Procs
  <2> QED BY <2>1, TypesKept DEF RestoreEffect, Alone, Towards, PromotionTypes
<1> QED BY <1>1, <1>2, <1>3, NextCases, OthersType

-----------------------------------------------------------------------------
(***************************************************************************)
(* What was moved is on record, and who restores knows what it restores.   *)
(***************************************************************************)
MovedInv ==
    setting.drifts = {} => \A m \in Minors, r \in Registries :
        alias[m][r] = "target" => Journaled("attempt", m, r)

\* A run x of n units, and the units it has classified.
KnowsBelow(x) == \A m \in Minors, r \in Registries : m < x.unit => Known(x.found[m][r], m, r)
KnowsAll(x, n) == \A m \in Minors, r \in Registries : m <= n => Known(x.found[m][r], m, r)

Knows(x, n) ==
    /\ x.pc \in {"read", "classify"} /\ ~ x.unknown => KnowsBelow(x)
    /\ x.pc \in ClassifiedPcs => KnowsAll(x, n)

KnownInv == \A p \in Procs : Knows(proc[p], Last(p))

LEMMA StepCases ==
    ASSUME PromotionTypes, Next
    PROVE  \/ Promotes \/ StartDriver \/ Kill("driver")
           \/ RestoreEffect("driver") \/ RestoreEffect("recovery")
           \/ OthersStep /\ ~ Restores("recovery")
BY NextCases, RestoresEffect DEF OthersStep, Procs

LEMMA OthersMove ==
    ASSUME PromotionTypes, OthersStep, ~ Restores("recovery")
    PROVE  \/ UNCHANGED alias
           \/ \E m \in Minors, r \in Registries : Drift(m, r)
BY ClosesEffect DEF OthersStep, RecoverBegin, StartRecovery, Note, Kill, RecoveryExits, registries

LEMMA MovedKept ==
    ASSUME PromotionTypes, DriverInv, MovedInv, [Next]_vars PROVE MovedInv'
<1> SUFFICES ASSUME setting'.drifts = {}, NEW m \in Minors', NEW r \in Registries,
                    alias'[m][r] = "target"
             PROVE  Journaled("attempt", m, r)'
  BY DEF MovedInv
<1>1. setting' = setting /\ records \subseteq records' /\ m \in Minors
  <2>1. CASE UNCHANGED vars BY <2>1 DEF vars, Minors, Units
  <2>2. CASE Next
    <3>1. UNCHANGED setting /\ records \subseteq records'
      BY <2>2, StepCases, PromotesMove, OthersLeave DEF RestoreEffect, Alone, Towards
    <3> QED BY <3>1 DEF Minors, Units
  <2> QED BY <2>1, <2>2
<1>2. alias[m][r] = "target" \/ Journaled("attempt", m, r)
  <2>1. CASE UNCHANGED alias BY <2>1
  <2>2. CASE Promoted
    <3>1. PICK x : x = Driver OBVIOUS
    <3>2. x.unit \in Minors /\ x.reg \in Registries BY <3>1, DriverType DEF Minors
    <3>3. Journaled("attempt", x.unit, x.reg)
      BY <2>2, <3>1, IsInv DEF Promoted, Done, AliasPcs
    <3>4. alias' = [alias EXCEPT ![x.unit][x.reg] = "target"] BY <2>2, <3>1 DEF Promoted
    <3>5. CASE m = x.unit /\ r = x.reg BY <3>3, <3>5
    <3>6. CASE m # x.unit BY <3>2, <3>4, <3>6 DEF PromotionTypes
    <3>7. CASE m = x.unit /\ r # x.reg
      <4>1. alias[m] \in [Registries -> Sides] BY <1>1 DEF PromotionTypes
      <4>2. alias'[m] = [alias[m] EXCEPT ![x.reg] = "target"]
        BY <3>2, <3>4, <3>7 DEF PromotionTypes
      <4> QED BY <3>7, <4>1, <4>2
    <3> QED BY <3>5, <3>6, <3>7
  <2>3. CASE RestoreEffect("driver") \/ RestoreEffect("recovery")
    BY <1>1, <2>3 DEF RestoreEffect, Towards
  <2>4. CASE UNCHANGED vars BY <2>4 DEF vars
  <2>5. CASE OthersStep /\ ~ Restores("recovery")
    <3>1. ~ \E k \in Minors, q \in Registries : Drift(k, q) BY <1>1 DEF Drift
    <3> QED BY <2>1, <2>5, <3>1, OthersMove
  <2> QED BY <2>1, <2>2, <2>3, <2>4, <2>5, StepCases, PromotesMove
<1>3. Journaled("attempt", m, r) BY <1>1, <1>2 DEF MovedInv
<1> QED BY <1>1, <1>3, Stays

LEMMA KnowsKept ==
    ASSUME UNCHANGED setting, records \subseteq records', NEW x, NEW n, Knows(x, n)
    PROVE  Knows(x, n)'
<1>1. Minors' = Minors /\ \A side, m, r : Known(side, m, r) => Known(side, m, r)' BY Stays
<1>2. KnowsBelow(x) => KnowsBelow(x)' BY <1>1 DEF KnowsBelow
<1>3. KnowsAll(x, n) => KnowsAll(x, n)' BY <1>1 DEF KnowsAll
<1> QED BY <1>2, <1>3 DEF Knows

\* Runs that do not restore, or have only begun to.
LEMMA KnowsNothing ==
    ASSUME NEW x, NEW n, x.pc \notin {"read", "classify"} \cup ClassifiedPcs
                         \/ (x.pc = "read" /\ x.unit = 1)
    PROVE  Knows(x, n)
BY DEF Knows, KnowsBelow, ClassifiedPcs, Minors

LEMMA RestoresKnow ==
    ASSUME PromotionTypes, NEW p \in Procs, RestoreEffect(p), Knows(proc[p], Last(p))
    PROVE  Knows(proc'[p], Last(p))
<1>0. PICK x, z, n, k : x = proc[p] /\ z = proc'[p] /\ n = Last(p) /\ k = Unit(p) OBVIOUS
<1>1. x \in Runs /\ k = x.unit /\ n \in 0..Units /\ x.unit \in Minors /\ Knows(x, n)
  <2>1. x \in Runs BY <1>0 DEF PromotionTypes
  <2> QED BY <1>0, <2>1, LastType DEF Unit, Runs, Knows, KnowsBelow, KnowsAll
<1>2. CASE GivesUp(p) \/ Reports(p)
  BY <1>0, <1>2, KnowsNothing DEF GivesUp, Reports, ClassifiedPcs
<1>3. CASE Reads(p)
  <2>1. /\ x.pc = "read" /\ z.pc = "classify" /\ z.unit = k /\ z.unknown = x.unknown
        /\ \A m \in Minors \ {k} : z.found[m] = x.found[m]
    BY <1>0, <1>1, <1>3 DEF Reads
  <2>2. x.unknown \/ KnowsBelow(z)
    <3>1. x.unknown \/ KnowsBelow(x) BY <1>1, <2>1 DEF Knows
    <3>2. \A m \in Minors : m < k => z.found[m] = x.found[m] BY <1>1, <2>1, SettingType DEF Minors
    <3> QED BY <1>1, <2>1, <3>1, <3>2 DEF KnowsBelow
  <2> QED BY <1>0, <2>1, <2>2 DEF Knows, ClassifiedPcs
<1>4. CASE KnowsUnit(p)
  <2>1. /\ x.pc \in {"read", "classify"} /\ z.found = x.found
        /\ ~ z.unknown => ~ x.unknown /\ \A r \in Registries : Known(x.found[k][r], k, r)
        /\ \/ k < n /\ z.pc = "read" /\ z.unit = k + 1
           \/ ~ (k < n) /\ z.pc = "drift" /\ ~ z.unknown
    BY <1>0, <1>4 DEF KnowsUnit
  <2>2. z.unknown \/ \A m \in Minors, r \in Registries : m <= k => Known(z.found[m][r], m, r)
    <3>1. z.unknown \/ KnowsBelow(x) BY <1>1, <2>1 DEF Knows
    <3>2. \A m \in Minors : m <= k => m < x.unit \/ m = k BY <1>1, SettingType DEF Minors
    <3> QED BY <2>1, <3>1, <3>2 DEF KnowsBelow
  <2>3. k \in Int /\ n \in Int /\ \A m \in Minors : m \in Int BY <1>1, SettingType DEF Minors
  <2>4. CASE k < n /\ z.pc = "read" /\ z.unit = k + 1
    <3>1. z.unknown \/ KnowsBelow(z) BY <2>2, <2>3, <2>4 DEF KnowsBelow
    <3> QED BY <1>0, <2>4, <3>1 DEF Knows, ClassifiedPcs
  <2>5. CASE ~ (k < n) /\ z.pc = "drift" /\ ~ z.unknown
    <3>1. KnowsAll(z, n) BY <2>2, <2>3, <2>5 DEF KnowsAll
    <3> QED BY <1>0, <2>5, <3>1 DEF Knows, ClassifiedPcs
  <2> QED BY <2>1, <2>4, <2>5
<1>5. CASE Goes(p)
  <2>1. x.pc \in ClassifiedPcs /\ z.pc \in ClassifiedPcs /\ z.found = x.found
    BY <1>0, <1>5 DEF Goes
  <2>2. KnowsAll(x, n) BY <1>1, <2>1 DEF Knows
  <2>3. KnowsAll(z, n) BY <2>1, <2>2 DEF KnowsAll
  <2> QED BY <1>0, <2>1, <2>3 DEF Knows, ClassifiedPcs
<1> QED BY <1>2, <1>3, <1>4, <1>5 DEF RestoreEffect

\* The driver's list of attempts is the one it restores from.
LEMMA LastKept ==
    ASSUME PromotionTypes, NEW p \in Procs, RestoreEffect(p),
           proc'[p].pc \in {"read", "classify"} \cup ClassifiedPcs
    PROVE  Last(p)' = Last(p)
<1>1. Units' = Units BY DEF RestoreEffect, Alone, Units
<1>2. proc'[p].attempted = proc[p].attempted
  BY DEF RestoreEffect, GivesUp, Reports, Reads, KnowsUnit, Goes, ClassifiedPcs
<1> QED BY <1>1, <1>2 DEF Last

\* A run that does not go on from where it was is at its beginning or over.
Fresh(x) == x.pc \in Ended \/ (x.pc = "read" /\ x.unit = 1)

LEMMA PromotesFresh ==
    ASSUME PromotionTypes, Promotes \/ StartDriver \/ Kill("driver")
    PROVE  Fresh(Driver') \/ Driver'.pc \in Promoting
<1>1. CASE \E v \in Promoting : Step(v)
  <2>1. PICK v \in Promoting : Step(v) BY <1>1
  <2>2. v \in Pcs BY DEF Pcs
  <2> QED BY <2>1, <2>2, GoesPc DEF DriverGoes
<1>2. ASSUME NEW z, proc' = [proc EXCEPT !["driver"] = z] PROVE Driver' = z
  BY <1>2, DriverType DEF PromotionTypes, Driver
<1>3. CASE Baseline \/ Started \/ Complete
  BY <1>3, BaselineGoes, StartedGoes, CompleteGoes DEF DriverGoes, Promoting
<1>6. CASE Recheck \/ FinalReadBack
  <2>1. PICK pc \in Promoting, done \in Promoting :
           proc' = [proc EXCEPT !["driver"] = Loop(Driver, Units, pc, done)]
    BY <1>6 DEF Recheck, FinalReadBack, Driver, PromotionTypes, Procs, Promoting
  <2>2. pc \in Pcs /\ done \in Pcs BY DEF Pcs
  <2> QED BY <2>1, <2>2, GoesLoop DEF DriverGoes, Looped
<1>7. CASE ExitVerified \/ StartDriver \/ Kill("driver")
  <2>1. PICK pc \in {"verified", "preflight", "failed"} :
           proc' = [proc EXCEPT !["driver"] = [NewRun EXCEPT !.pc = pc]]
    BY <1>7 DEF ExitVerified, StartDriver, Kill, End
  <2>2. [NewRun EXCEPT !.pc = pc].pc = pc BY DEF NewRun
  <2> QED BY <1>2, <2>1, <2>2 DEF Fresh, Ended, Promoting
<1>8. CASE Fail BY <1>8, FailGoes DEF DriverGoes, Fresh, Ended
<1>9. CASE Preflight \/ Attempt \/ AssertOwner \/ Promote \/ ReadBack
           \/ ReferrerAttempt \/ ReferrerComplete \/ WriteResult
  BY <1>1, <1>9 DEF Preflight, Attempt, AssertOwner, Promote, ReadBack, ReferrerAttempt,
     ReferrerComplete, WriteResult, Promoting
<1> QED BY <1>3, <1>6, <1>7, <1>8, <1>9 DEF Promotes

LEMMA OthersFresh ==
    ASSUME PromotionTypes, OthersStep, ~ Restores("recovery")
    PROVE  proc'["recovery"] = proc["recovery"] \/ Fresh(proc'["recovery"])
<1>1. ASSUME NEW z, proc' = [proc EXCEPT !["recovery"] = z] PROVE proc'["recovery"] = z
  BY <1>1 DEF PromotionTypes, Procs
<1>2. ASSUME NEW pc \in Ended \cup {"read"}, proc' = [proc EXCEPT !["recovery"] = [NewRun EXCEPT !.pc = pc]]
      PROVE Fresh(proc'["recovery"])
  <2>1. [NewRun EXCEPT !.pc = pc].pc = pc /\ [NewRun EXCEPT !.pc = pc].unit = 1 BY DEF NewRun
  <2> QED BY <1>1, <1>2, <2>1 DEF Fresh
<1>3. CASE RecoverBegin
  <2>1. NewRun.pc = "idle" BY DEF NewRun
  <2> QED BY <1>1, <1>3, <2>1 DEF RecoverBegin, Fresh, Ended
<1>4. CASE StartRecovery BY <1>2, <1>4 DEF StartRecovery
<1>5. CASE Closes BY <1>5, ClosesEffect
<1>6. CASE Note("recovery") \/ Kill("recovery") \/ \E reason \in ExitReasons : RecoveryExits(reason)
  BY <1>2, <1>6 DEF Note, Kill, RecoveryExits, End, Ended
<1>7. CASE \E m \in Minors, r \in Registries : Drift(m, r) BY <1>7 DEF Drift
<1> QED BY <1>3, <1>4, <1>5, <1>6, <1>7 DEF OthersStep

LEMMA KnownKept ==
    ASSUME PromotionTypes, KnownInv, [Next]_vars PROVE KnownInv'
<1> SUFFICES ASSUME NEW p \in Procs PROVE Knows(proc[p], Last(p))'
  BY DEF KnownInv
<1>1. UNCHANGED setting /\ records \subseteq records'
  <2>1. CASE UNCHANGED vars BY <2>1 DEF vars
  <2>2. CASE Next
    BY <2>2, StepCases, PromotesMove, OthersLeave DEF RestoreEffect, Alone, Towards
  <2> QED BY <2>1, <2>2
<1>2. ASSUME NEW x, NEW n, proc'[p] = x, Last(p)' = n, Knows(x, n)' PROVE Knows(proc[p], Last(p))'
  BY <1>2 DEF Knows, KnowsBelow, KnowsAll
<1>3. CASE proc'[p] = proc[p]
  <2>1. PICK x, n : x = proc[p] /\ n = Last(p) OBVIOUS
  <2>2. Last(p)' = n BY <1>1, <1>3, <2>1 DEF Last, Units
  <2>3. Knows(x, n) BY <2>1 DEF KnownInv, Knows, KnowsBelow, KnowsAll
  <2> QED BY <1>1, <1>2, <1>3, <2>1, <2>2, <2>3, KnowsKept
<1>4. CASE Fresh(proc'[p]) \/ proc'[p].pc \in Promoting
  <2>1. PICK x, n : x = proc'[p] /\ n = Last(p)' OBVIOUS
  <2>2. x.pc \notin {"read", "classify"} \cup ClassifiedPcs \/ (x.pc = "read" /\ x.unit = 1)
    BY <1>4, <2>1 DEF Fresh, Ended, Promoting, ClassifiedPcs
  <2>3. Knows(x, n) BY <2>2, KnowsNothing
  <2> QED BY <1>1, <1>2, <2>1, <2>3, KnowsKept
<1>5. CASE RestoreEffect(p)
  <2>1. PICK x, n : x = proc'[p] /\ n = Last(p) OBVIOUS
  <2>2. Knows(proc[p], Last(p)) BY DEF KnownInv
  <2>3. Knows(x, n) BY <1>5, <2>1, <2>2, RestoresKnow DEF Knows, KnowsBelow, KnowsAll
  <2>4. CASE x.pc \in {"read", "classify"} \cup ClassifiedPcs
    <3>1. Last(p)' = n BY <1>5, <2>1, <2>4, LastKept
    <3> QED BY <1>1, <1>2, <2>1, <2>3, <3>1, KnowsKept
  <2>5. CASE x.pc \notin {"read", "classify"} \cup ClassifiedPcs
    <3>1. PICK k : k = Last(p)' OBVIOUS
    <3>2. Knows(x, k) BY <2>5, KnowsNothing
    <3> QED BY <1>1, <1>2, <2>1, <3>1, <3>2, KnowsKept
  <2> QED BY <2>4, <2>5
<1>6. CASE UNCHANGED vars BY <1>3, <1>6 DEF vars
<1>7. CASE Promotes \/ StartDriver \/ Kill("driver")
  BY <1>3, <1>4, <1>7, RunTypes, PromotesFresh DEF Procs, Driver
<1>8. ASSUME NEW q \in Procs, RestoreEffect(q) PROVE Knows(proc[p], Last(p))'
  BY <1>3, <1>5, <1>8 DEF RestoreEffect, Alone
<1>9. CASE OthersStep /\ ~ Restores("recovery")
  BY <1>3, <1>4, <1>9, OthersLeave, OthersFresh DEF Procs, Driver
<1> QED BY <1>6, <1>7, <1>8, <1>9, StepCases DEF Procs

-----------------------------------------------------------------------------
(***************************************************************************)
(* How often the lock is replaced.  Only a recovery notes failures, only   *)
(* while the lock says RECOVERING, and a failure once noted is older than  *)
(* the lock, so that the same reason is refused ever after.  Every exit    *)
(* that is noted allows one more recovery, two replacements of the lock.   *)
(* A delayed finish may close the transaction under a running recovery;    *)
(* from then on nothing is noted any more.                                 *)
(***************************************************************************)
Noted(reason) == \E x \in records : x.kind = "failure" /\ x.reg = reason
Count(reason) == IF Noted(reason) THEN 1 ELSE 0
ExitsNoted == Count("signal-term") + Count("unexpected-exit")

EvidenceOK == tags \in [Minors -> SUBSET Tags]

RecordsOlder ==
    \A x \in records :
        /\ x.epoch <= epoch
        /\ x.minor \in 0..Units
        /\ x.kind = "failure" => x.minor = 0 /\ x.epoch < epoch

RecoveryOwns ==
    Running("recovery") => /\ lock \in {"RECOVERING", "COMMITTED", "RECOVERED", "FREE"}
                           /\ proc["recovery"].pc \in Restoring

\* Beyond two for every exit that was noted.
Ahead(l) == IF l \in {"ACTIVE", "RECOVERY_REQUIRED"} THEN 0 ELSE IF l = "RECOVERING" THEN 1 ELSE 2
EpochBound == epoch <= 2 * ExitsNoted + Ahead(lock)

EpochInv == EvidenceOK /\ RecordsOlder /\ RecoveryOwns /\ EpochBound

\* A step that notes no failure, and what it records.
Adds ==
    /\ UNCHANGED <<lock, epoch, setting>>
    /\ records \subseteq records'
    /\ \A x \in records' \ records :
          x.kind # "failure" /\ x.epoch <= epoch /\ x.minor \in 0..Units

LEMMA CountGrows ==
    ASSUME NEW reason, records \subseteq records'
    PROVE  Count(reason) <= Count(reason)'
BY DEF Count, Noted

LEMMA ExitsGrow ==
    ASSUME records \subseteq records'
    PROVE  /\ ExitsNoted \in 0..2 /\ ExitsNoted' \in 0..2
           /\ ExitsNoted <= ExitsNoted'
<1>1. \A reason : Count(reason) \in {0, 1} /\ Count(reason)' \in {0, 1} BY DEF Count
<1>2. \A reason : Count(reason) <= Count(reason)' BY CountGrows
<1> QED BY <1>1, <1>2 DEF ExitsNoted

\* The records that the commands put together.
LEMMA RecAdds ==
    ASSUME PromotionTypes, NEW kind, kind # "failure", NEW m \in 0..Units, NEW r
    PROVE  LET x == Rec(kind, m, r)
           IN  x.kind # "failure" /\ x.epoch <= epoch /\ x.minor \in 0..Units
BY DEF Rec, PromotionTypes

LEMMA CompletionAdds ==
    ASSUME PromotionTypes, RecordsOlder, NEW kind, NEW done, done # "failure", NEW m, NEW r
    PROVE  \A x \in Completions(kind, done, m, r) :
              x.kind # "failure" /\ x.epoch <= epoch /\ x.minor \in 0..Units
BY DEF Completions, RecordsOlder, PromotionTypes, RecordTypes

LEMMA UnitType == ASSUME PromotionTypes, NEW p \in Procs PROVE Unit(p) \in 0..Units /\ Unit(p) \in Minors
<1>1. proc[p] \in Runs /\ Units \in Nat BY SettingType DEF PromotionTypes
<1> QED BY <1>1 DEF Runs, Unit, Minors

\* The driver.
LEMMA PromotesAdd ==
    ASSUME PromotionTypes, RecordsOlder, Promotes \/ StartDriver \/ Kill("driver")
    PROVE  Adds
<1>1. UNCHANGED <<lock, epoch, setting>> /\ records \subseteq records' BY PromotesMove
<1>2. Unit("driver") \in 0..Units BY UnitType DEF Procs
<1>3. CASE Attempt BY <1>1, <1>2, <1>3, RecAdds DEF Attempt, Adds
<1>4. CASE ReferrerAttempt BY <1>1, <1>2, <1>4, RecAdds DEF ReferrerAttempt, Adds
<1>5. CASE Complete BY <1>1, <1>5, CompletionAdds DEF Complete, Adds
<1>6. CASE ReferrerComplete BY <1>1, <1>6, CompletionAdds DEF ReferrerComplete, Adds
<1>7. CASE UNCHANGED records BY <1>1, <1>7 DEF Adds
<1> QED BY <1>3, <1>4, <1>5, <1>6, <1>7 DEF Promotes, Preflight, Baseline, Started, AssertOwner,
     Promote, ReadBack, Recheck, FinalReadBack, WriteResult, ExitVerified, Fail, StartDriver, Kill,
     journal

\* The trap and the recovery.
LEMMA RestoresAdd ==
    ASSUME PromotionTypes, RecordsOlder, NEW p \in Procs, Restores(p)
    PROVE  Adds /\ UNCHANGED tags
<1>1. UNCHANGED <<lock, epoch, setting>> /\ records \subseteq records'
  BY RestoresEffect DEF RestoreEffect, Alone, Towards
<1>2. Unit(p) \in 0..Units BY UnitType
<1>3. UNCHANGED tags
  BY DEF Restores, ReadUnit, Classify, ReadFails, DriftCheck, Drifted, RestoreUnit, BoundaryDrifted,
         RestoreAlias, RestoreFails, SignatureRetained, SignAttempt, SignComplete, SignFails,
         ConfirmRestore, Settle, registries
<1>4. CASE RestoreUnit(p)
  <2>1. records' \subseteq records \cup {Rec("recovery-attempt", Unit(p), r) : r \in ToRestore(p)}
    BY <1>4 DEF RestoreUnit, Ensure
  <2> QED BY <1>1, <1>2, <1>3, <2>1, RecAdds DEF Adds
<1>5. CASE SignAttempt(p) BY <1>1, <1>2, <1>3, <1>5, RecAdds DEF SignAttempt, Adds
<1>6. CASE SignComplete(p) BY <1>1, <1>3, <1>6, CompletionAdds DEF SignComplete, Adds
<1>7. CASE ConfirmRestore(p)
  <2>1. \A x \in records' \ records : \E y \in records : x = [y EXCEPT !.kind = "recovery-result"]
    BY <1>7 DEF ConfirmRestore, Ensure
  <2> QED BY <1>1, <1>3, <2>1 DEF Adds, RecordsOlder, PromotionTypes, RecordTypes
<1>8. CASE UNCHANGED records BY <1>1, <1>3, <1>8 DEF Adds
<1> QED BY <1>4, <1>5, <1>6, <1>7, <1>8 DEF Restores, ReadUnit, Classify, ReadFails, DriftCheck,
     Drifted, BoundaryDrifted, RestoreAlias, RestoreFails, SignatureRetained, SignFails, Settle, journal

LEMMA AddsKeep ==
    ASSUME PromotionTypes, EpochInv, Adds, EvidenceOK', RecoveryOwns' PROVE EpochInv'
<1>1. RecordsOlder'
  BY DEF EpochInv, Adds, RecordsOlder, Units
<1>2. EpochBound'
  <2>1. epoch \in Nat BY DEF PromotionTypes
  <2>2. Ahead(lock) \in Nat /\ Ahead(lock') = Ahead(lock) BY DEF Ahead, Adds
  <2> QED BY <2>1, <2>2, ExitsGrow DEF EpochInv, Adds, EpochBound, Ahead
<1> QED BY <1>1, <1>2 DEF EpochInv

LEMMA EvidenceStays ==
    ASSUME EvidenceOK, UNCHANGED <<setting, tags>> PROVE EvidenceOK'
BY DEF EvidenceOK, Minors, Units

LEMMA EvidenceKept ==
    ASSUME PromotionTypes, EvidenceOK, Promotes \/ StartDriver \/ Kill("driver")
    PROVE  EvidenceOK'
<1>1. UNCHANGED setting BY PromotesMove
<1>2. CASE Promote
  <2>1. Unit("driver") \in Minors BY UnitType DEF Procs
  <2>2. tags' \in [Minors -> SUBSET Tags] BY <1>2, <2>1 DEF Promote, EvidenceOK, Tags
  <2> QED BY <1>1, <2>2 DEF EvidenceOK, Minors, Units
<1>3. CASE UNCHANGED tags BY <1>1, <1>3, EvidenceStays
<1> QED BY <1>2, <1>3 DEF Promotes, Preflight, Baseline, Attempt, Started, AssertOwner, ReadBack,
     Complete, ReferrerAttempt, ReferrerComplete, Recheck, FinalReadBack, WriteResult, ExitVerified,
     Fail, StartDriver, Kill, registries

\* Where the recovery is after a step of its own.
LEMMA RestoresOwn ==
    ASSUME PromotionTypes, RecoveryOwns, Restores("recovery") PROVE RecoveryOwns'
<1>1. RestoreEffect("recovery") BY RestoresEffect DEF Procs
<1>2. lock \in {"RECOVERING", "COMMITTED", "RECOVERED", "FREE"} /\ lock' = lock
  BY <1>1 DEF RestoreEffect, Alone, RecoveryOwns, Running, Restoring, Ended
<1>3. proc'["recovery"].pc \in Restoring \cup Ended
  BY <1>1 DEF RestoreEffect, GivesUp, Reports, Reads, KnowsUnit, Goes, ClassifiedPcs, Restoring, Ended
<1> QED BY <1>2, <1>3 DEF RecoveryOwns, Running

\* A recovery notes a failure: of an exit, or the lock is BLOCKED.
LEMMA LaterBound ==
    ASSUME epoch \in Nat, epoch' = epoch + 1, epoch <= 2 * ExitsNoted + 1,
           records \subseteq records', Ahead(lock)' \in {0, 2},
           Ahead(lock)' = 2 \/ ExitsNoted + 1 <= ExitsNoted'
    PROVE  EpochBound'
<1>1. ExitsNoted \in 0..2 /\ ExitsNoted' \in 0..2 /\ ExitsNoted <= ExitsNoted' BY ExitsGrow
<1>2. \A e \in Nat, n \in 0..2, k \in 0..2 : n <= k /\ e <= 2 * n + 1 => e + 1 <= 2 * k + 2
  OBVIOUS
<1>3. \A e \in Nat, n \in 0..2, k \in 0..2 : n + 1 <= k /\ e <= 2 * n + 1 => e + 1 <= 2 * k + 0
  OBVIOUS
<1>4. CASE Ahead(lock)' = 2 BY <1>1, <1>2, <1>4 DEF EpochBound
<1>5. CASE Ahead(lock)' = 0
  <2>1. ExitsNoted + 1 <= ExitsNoted' BY <1>5
  <2>2. epoch + 1 <= 2 * ExitsNoted' + 0 BY <1>1, <1>3, <2>1
  <2> QED BY <1>5, <2>2 DEF EpochBound
<1> QED BY <1>4, <1>5

\* A failure is noted by a recovery, once for each reason.
LEMMA NoteKeeps ==
    ASSUME PromotionTypes, EpochInv, lock = "RECOVERING",
           NEW reason \in BlockingReasons \cup ExitReasons, NoteFailure(reason),
           UNCHANGED <<setting, tags>>, ~ Running("recovery")'
    PROVE  EpochInv'
<1> DEFINE rec == Rec("failure", 0, reason)
<1>1. /\ rec.kind = "failure" /\ rec.minor = 0 /\ rec.reg = reason /\ rec.epoch = epoch
      /\ epoch \in Nat /\ Units \in Nat /\ Units' = Units
  BY SettingType DEF Rec, PromotionTypes, Units
<1>2. /\ Accepted(rec) /\ records' = records \cup {rec}
      /\ lock' = FailureState(reason) /\ epoch' = epoch + 1
  BY DEF NoteFailure, CanNote, FailureState
<1> HIDE DEF rec
<1>3. ~ Noted(reason)
  <2> SUFFICES ASSUME NEW x \in records, x.kind = "failure", x.reg = reason PROVE FALSE BY DEF Noted
  <2>1. x.minor = 0 /\ x.epoch < epoch /\ x.epoch \in Nat
    BY DEF EpochInv, RecordsOlder, PromotionTypes, RecordTypes
  <2>2. x = rec BY <1>1, <1>2, <2>1 DEF Accepted, SameRef
  <2> QED BY <1>1, <2>1, <2>2
<1>4. RecordsOlder'
  <2>1. \A x \in records : x.epoch \in Nat BY DEF PromotionTypes, RecordTypes
  <2> QED BY <1>1, <1>2, <2>1 DEF EpochInv, RecordsOlder
<1>5. EpochBound'
  <2>1. epoch <= 2 * ExitsNoted + 1 BY DEF EpochInv, EpochBound, Ahead
  <2>2. CASE reason \in BlockingReasons
    <3>1. Ahead(lock)' = 2 BY <1>2, <2>2 DEF FailureState, Ahead
    <3> QED BY <1>1, <1>2, <2>1, <3>1, LaterBound
  <2>3. CASE reason \in ExitReasons
    <3>1. Ahead(lock)' \in {0, 2} BY <1>2 DEF FailureState, Ahead
    <3>2. Noted(reason)' BY <1>1, <1>2 DEF Noted
    <3>3. Count(reason) = 0 /\ Count(reason)' = 1 BY <1>3, <3>2 DEF Count
    <3>4. /\ Count("signal-term") \in {0, 1} /\ Count("signal-term")' \in {0, 1}
          /\ Count("unexpected-exit") \in {0, 1} /\ Count("unexpected-exit")' \in {0, 1}
          /\ Count("signal-term") <= Count("signal-term")'
          /\ Count("unexpected-exit") <= Count("unexpected-exit")'
      BY <1>2, CountGrows DEF Count
    <3>5. ExitsNoted + 1 <= ExitsNoted' BY <2>3, <3>3, <3>4 DEF ExitReasons, ExitsNoted
    <3> QED BY <1>1, <1>2, <2>1, <3>1, <3>5, LaterBound
  <2> QED BY <2>2, <2>3
<1>6. EvidenceOK' BY EvidenceStays DEF EpochInv
<1>7. RecoveryOwns' BY DEF RecoveryOwns
<1> QED BY <1>4, <1>5, <1>6, <1>7 DEF EpochInv

\* Recovery begins or ends, or somebody else moves an alias.
LEMMA OthersBound ==
    ASSUME PromotionTypes, EpochInv, OthersStep PROVE EpochInv'
<1>0. UNCHANGED setting /\ proc \in [Procs -> Runs] /\ "recovery" \in Procs
  BY OthersLeave DEF PromotionTypes, Procs
<1>1. ASSUME UNCHANGED <<tags, records, lock, epoch>>, RecoveryOwns' PROVE EpochInv'
  BY <1>0, <1>1, AddsKeep, EvidenceStays DEF EpochInv, Adds
<1>2. ASSUME NEW pc \in Ended, End("recovery", pc) PROVE ~ Running("recovery")'
  <2>1. proc'["recovery"].pc = pc BY <1>0, <1>2 DEF End, NewRun
  <2> QED BY <1>2, <2>1 DEF Running
<1>3. CASE RecoverBegin
  <2>1. /\ lock \in {"ACTIVE", "RECOVERY_REQUIRED"} /\ lock' = "RECOVERING" /\ epoch' = epoch + 1
        /\ UNCHANGED <<tags, records>> /\ proc'["recovery"].pc = "idle"
    BY <1>0, <1>3 DEF RecoverBegin, registries, rest, NewRun
  <2>2. epoch \in Nat /\ Units' = Units BY <1>0 DEF PromotionTypes, Units
  <2>3. RecordsOlder'
    <3>1. \A x \in records : x.epoch \in Nat BY DEF PromotionTypes, RecordTypes
    <3> QED BY <2>1, <2>2, <3>1 DEF EpochInv, RecordsOlder
  <2>4. EpochBound' BY <2>1, <2>2, ExitsGrow DEF EpochInv, EpochBound, Ahead, ExitsNoted, Count, Noted
  <2>5. RecoveryOwns' BY <2>1 DEF RecoveryOwns, Running, Ended
  <2> QED BY <1>0, <2>1, <2>3, <2>4, <2>5, EvidenceStays DEF EpochInv
<1>4. CASE StartRecovery
  <2>1. /\ lock = "RECOVERING" /\ UNCHANGED <<tags, records, lock, epoch>>
        /\ proc'["recovery"].pc = "read"
    BY <1>0, <1>4 DEF StartRecovery, registries, journal, NewRun
  <2> QED BY <1>1, <2>1 DEF RecoveryOwns, Restoring
<1>5. CASE Closes
  <2>1. /\ UNCHANGED <<tags, records, epoch, proc>>
        /\ lock' = lock \/ lock' \in {"COMMITTED", "RECOVERED", "FREE"}
    BY <1>5, ClosesEffect
  <2>2. EpochBound'
    <3>1. epoch \in Nat /\ ExitsNoted \in 0..2 /\ ExitsNoted' = ExitsNoted
      BY <2>1, ExitsGrow DEF PromotionTypes, ExitsNoted, Count, Noted
    <3>2. Ahead(lock) \in 0..2 /\ Ahead(lock)' \in {Ahead(lock), 2} BY <2>1 DEF Ahead
    <3> QED BY <2>1, <3>1, <3>2 DEF EpochInv, EpochBound
  <2>3. RecordsOlder' BY <1>0, <2>1 DEF EpochInv, RecordsOlder, Units
  <2>4. RecoveryOwns' BY <2>1 DEF EpochInv, RecoveryOwns, Running
  <2> QED BY <1>0, <2>1, <2>2, <2>3, <2>4, EvidenceStays DEF EpochInv
<1>6. CASE Restores("recovery")
  <2>1. Adds /\ UNCHANGED tags BY <1>0, <1>6, RestoresAdd DEF EpochInv
  <2> QED BY <1>0, <1>6, <2>1, AddsKeep, EvidenceStays, RestoresOwn DEF EpochInv
<1>7. CASE Note("recovery")
  <2>1. lock = "RECOVERING"
    BY <1>7 DEF Note, NoteFailure, CanNote, MutableOwnerStates, At, EpochInv, RecoveryOwns, Running, Ended
  <2>2. proc["recovery"].reason \in BlockingReasons BY <1>0 DEF Runs
  <2>3. UNCHANGED tags /\ ~ Running("recovery")' BY <1>2, <1>7 DEF Note, registries, Ended
  <2> QED BY <1>0, <1>7, <2>1, <2>2, <2>3, NoteKeeps DEF Note
<1>8. CASE Kill("recovery")
  <2>1. UNCHANGED <<tags, records, lock, epoch>> BY <1>8 DEF Kill, registries, journal
  <2>2. RecoveryOwns' BY <1>2, <1>8 DEF Kill, Ended, RecoveryOwns
  <2> QED BY <1>1, <2>1, <2>2
<1>9. ASSUME NEW reason \in ExitReasons, RecoveryExits(reason) PROVE EpochInv'
  <2>1. NoteFailure(reason) => lock = "RECOVERING"
    BY <1>9 DEF RecoveryExits, NoteFailure, CanNote, MutableOwnerStates, EpochInv, RecoveryOwns,
                Running, Ended, Restoring
  <2>2. UNCHANGED tags /\ ~ Running("recovery")' BY <1>2, <1>9 DEF RecoveryExits, registries, Ended
  <2>3. CASE NoteFailure(reason) BY <1>0, <2>1, <2>2, <2>3, NoteKeeps
  <2>4. CASE UNCHANGED journal BY <1>1, <2>2, <2>4 DEF journal, RecoveryOwns
  <2> QED BY <1>9, <2>3, <2>4 DEF RecoveryExits
<1>10. ASSUME NEW m \in Minors, NEW r \in Registries, Drift(m, r) PROVE EpochInv'
  <2>1. UNCHANGED <<tags, records, lock, epoch, proc>> BY <1>10 DEF Drift, journal
  <2> QED BY <1>1, <2>1 DEF EpochInv, RecoveryOwns, Running
<1> QED BY <1>3, <1>4, <1>5, <1>6, <1>7, <1>8, <1>9, <1>10 DEF OthersStep

LEMMA EpochKept == ASSUME PromotionTypes, EpochInv, [Next]_vars PROVE EpochInv'
<1>1. CASE UNCHANGED vars
  <2>1. Adds /\ UNCHANGED <<tags, setting>> BY <1>1 DEF vars, Adds
  <2>2. RecoveryOwns' BY <1>1 DEF vars, EpochInv, RecoveryOwns, Running
  <2> QED BY <2>1, <2>2, AddsKeep, EvidenceStays DEF EpochInv
<1>2. CASE Promotes \/ StartDriver \/ Kill("driver")
  <2>1. Adds /\ EvidenceOK' BY <1>2, PromotesAdd, EvidenceKept DEF EpochInv
  <2>2. RecoveryOwns'
    BY <1>2, <2>1, RunTypes DEF EpochInv, RecoveryOwns, Running, Adds
  <2> QED BY <2>1, <2>2, AddsKeep
<1>3. CASE Restores("driver")
  <2>1. Adds /\ UNCHANGED tags BY <1>3, RestoresAdd DEF EpochInv, Procs
  <2>2. proc'["recovery"] = proc["recovery"]
    BY <1>3, RestoresEffect DEF RestoreEffect, Alone, Procs
  <2>3. RecoveryOwns' BY <2>1, <2>2 DEF EpochInv, RecoveryOwns, Running, Adds
  <2>4. EvidenceOK' BY <2>1, EvidenceStays DEF EpochInv, Adds
  <2> QED BY <2>1, <2>3, <2>4, AddsKeep
<1> QED BY <1>1, <1>2, <1>3, NextCases, OthersBound

LEMMA EpochInit == ASSUME Init PROVE EpochInv
<1>1. EvidenceOK BY TagsAssumption DEF Init, EvidenceOK
<1>2. RecordsOlder BY DEF Init, RecordsOlder
<1>3. RecoveryOwns BY DEF Init, RecoveryOwns, Running, NewRun, Ended, Procs
<1>4. EpochBound BY DEF Init, EpochBound, ExitsNoted, Count, Noted, Ahead
<1> QED BY <1>1, <1>2, <1>3, <1>4 DEF EpochInv

LEMMA EpochsAre == Epochs = 0..6
<1>1. ExitReasons = {"signal-term"} \cup {"unexpected-exit"} BY DEF ExitReasons
<1>2. IsFiniteSet({"signal-term"}) /\ Cardinality({"signal-term"}) = 1 BY FS_Singleton
<1>3. "unexpected-exit" \notin {"signal-term"} OBVIOUS
<1>4. Cardinality({"signal-term"} \cup {"unexpected-exit"}) = Cardinality({"signal-term"}) + 1
  BY <1>2, <1>3, FS_AddElement, Zenon
<1> QED BY <1>1, <1>2, <1>4 DEF Epochs

-----------------------------------------------------------------------------
(***************************************************************************)
(* Theorems.                                                               *)
(***************************************************************************)
OwnInv == PromotionTypes /\ DriverInv /\ MovedInv /\ KnownInv

LEMMA OwnInit == ASSUME Init PROVE OwnInv
<1>1. setting \in Settings /\ Units \in Nat \ {0} BY SettingsAssumption DEF Init, Units
<1>2. NewRun \in Runs
  <2>1. 1 \in Minors /\ 0 \in 0..Units BY <1>1 DEF Minors
  <2>2. Unread \in [Minors -> [Registries -> Sides \cup {"unread"}]] BY DEF Unread
  <2> QED BY <2>1, <2>2 DEF NewRun, Runs, Ended, Registries, BlockingReasons
<1>3. PromotionTypes
  BY <1>1, <1>2 DEF Init, PromotionTypes, ClosingTypes, Statuses, Sides, LockStates,
                    MutableOwnerStates, RecordTypes
<1>4. Driver = NewRun /\ NewRun.pc = "idle" BY DEF Init, Driver, Procs, NewRun
<1>5. DriverInv
  BY <1>4 DEF Init, DriverInv, Place, Done, Results, UnitPcs, AliasPcs, LastPcs, Promoting, Restoring
<1>6. MovedInv BY DEF Init, MovedInv
<1>7. KnownInv
  <2>1. \A p \in Procs : proc[p].pc = "idle" BY <1>4 DEF Init
  <2> QED BY <2>1 DEF KnownInv, Knows, ClassifiedPcs
<1> QED BY <1>3, <1>5, <1>6, <1>7 DEF OwnInv

LEMMA OwnKept == ASSUME OwnInv, [Next]_vars PROVE OwnInv'
BY TypeKept, DriverKept, MovedKept, KnownKept DEF OwnInv

LEMMA OwnAlways == Spec => []OwnInv
BY OwnInit, OwnKept, PTL DEF Spec

LEMMA EpochAlways == Spec => [](PromotionTypes /\ EpochInv)
<1>1. Init => PromotionTypes /\ EpochInv BY OwnInit, EpochInit DEF OwnInv
<1>2. PromotionTypes /\ EpochInv /\ [Next]_vars => (PromotionTypes /\ EpochInv)'
  BY TypeKept, EpochKept
<1> QED BY <1>1, <1>2, PTL DEF Spec

\* What the runs of promote-auto-canaries.sh, the aliases and the journal can
\* hold, for any plan; and the lock of a transaction is replaced six times at most,
\* however many runners are lost, because a failure reason is recorded once.
THEOREM PromotionTypeCorrect == Spec => []TypeOK
<1>1. PromotionTypes /\ EpochInv => TypeOK
  <2> SUFFICES ASSUME PromotionTypes, EpochInv PROVE TypeOK OBVIOUS
  <2>1. ExitsNoted \in 0..2 BY DEF ExitsNoted, Count
  <2>2. epoch \in 0..6
    BY <2>1 DEF EpochInv, EpochBound, Ahead, PromotionTypes, LockStates, MutableOwnerStates
  <2>3. \A x \in records : x.epoch \in 0..6 /\ x.minor \in 0..Units
    BY <2>2 DEF EpochInv, RecordsOlder, PromotionTypes, RecordTypes
  <2>4. records \subseteq [kind: Kinds, minor: 0..Units, epoch: 0..6,
                          reg: Registries \cup BlockingReasons \cup ExitReasons]
    BY <2>3 DEF PromotionTypes, RecordTypes
  <2> QED BY <2>2, <2>4, EpochsAre DEF PromotionTypes, ClosingTypes, EpochInv, EvidenceOK, TypeOK
<1> QED BY <1>1, EpochAlways, PTL

\* transaction-result.json is only left where finish could commit: the driver
\* writes it when everything is journaled, and the trap takes it away again.
THEOREM Verified == Spec => []VerifiedIsComplete
<1>1. OwnInv => VerifiedIsComplete
  BY DEF OwnInv, DriverInv, Results, VerifiedIsComplete, At, Driver
<1> QED BY <1>1, OwnAlways, PTL

\* An alias that promote-image.sh moved has its attempt on record, wherever the
\* driver, its trap or recovery is interrupted.
THEOREM Moved == Spec => []MovedIsJournaled
<1>1. OwnInv => MovedIsJournaled BY DEF OwnInv, MovedInv, MovedIsJournaled, Undisturbed
<1> QED BY <1>1, OwnAlways, PTL

\* The trap and recovery write no alias unless they could explain all those
\* they look after, whoever else moves aliases meanwhile.
THEOREM OnlyKnown == Spec => RestoresOnlyKnown
<1>1. OwnInv => \A p \in Procs : At(p, "mutate") =>
         \A m \in 1..Last(p), r \in Registries :
            LET side == proc[p].found[m][r]
            IN  side = "prior" \/ (side = "target" /\ Journaled("attempt", m, r))
  <2> SUFFICES ASSUME OwnInv, NEW p \in Procs, At(p, "mutate"),
                      NEW m \in 1..Last(p), NEW r \in Registries
               PROVE  Known(proc[p].found[m][r], m, r)
    BY DEF Known
  <2>1. m \in Minors /\ m <= Last(p)
    BY LastType, SettingType DEF OwnInv, Minors
  <2>2. KnowsAll(proc[p], Last(p)) BY DEF OwnInv, KnownInv, Knows, At, ClassifiedPcs
  <2> QED BY <2>1, <2>2 DEF KnowsAll
<1>2. OwnInv =>
        [\A p \in Procs :
          At(p, "mutate") /\ alias' # alias /\ proc'[p] # proc[p] =>
              \A m \in 1..Last(p), r \in Registries :
                  LET side == proc[p].found[m][r]
                  IN  side = "prior" \/ (side = "target" /\ Journaled("attempt", m, r))]_vars
  BY <1>1
<1> QED BY <1>2, OwnAlways, PTL DEF RestoresOnlyKnown
=============================================================================
