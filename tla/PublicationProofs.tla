-------------------------- MODULE PublicationProofs --------------------------
(***************************************************************************)
(* Proofs that a transaction nobody disturbs is the all-or-nothing switch  *)
(* of module Publication.                                                  *)
(*                                                                         *)
(* Locked says who runs when: one run at a time, and the driver moves an   *)
(* alias only while the lock is ACTIVE, which it is never again once a     *)
(* recovery began or the transaction was decided.  Placed says where the   *)
(* aliases are by then, and Finishing the same of a finish command that is *)
(* under way.  A receipt that was written and then given up says nothing:  *)
(* what decides is that no finish gets past a receipt that is not its own. *)
(***************************************************************************)
EXTENDS PromotionProofs

Recovery == proc["recovery"]

ClosedStates == {"COMMITTED", "RECOVERED", "FREE"}

\* A driver d and a recovery c: one of them runs at a time, and the driver
\* moves nothing but while the lock is ACTIVE.
Locked(d, c) ==
    /\ d.pc \in Ended \/ c.pc \in Ended
    /\ lock # "ACTIVE" /\ d.pc \notin Ended
          => d.pc \in {"preflight", "baseline", "attempt"} /\ ~ d.mutated
    /\ c.pc \notin Ended \/ c.pc = "restored" => lock # "ACTIVE"
    /\ lock \in ClosedStates => d.pc \in Ended /\ c.pc \in Ended

\* A run that has looked at the units before x.unit for the last time.
Settling(x) ==
    x.pc = "settle" /\ ~ x.failed => \A m \in Minors : m < x.unit => Prior(m)

Placed(d, c) ==
    /\ d.pc \in {"baseline"} \cup UnitPcs \cup LastPcs \cup Restoring
          => \A m \in Minors : m > d.attempted => Prior(m)
    /\ Settling(d) /\ Settling(c)
    /\ d.pc = "rolledback" => AllPrior
    /\ c.pc = "restored" => AllPrior
    /\ d.pc = "final" => \A m \in Minors : m < d.unit => AtGoal(m)
    /\ d.pc \in {"result", "exit"} => AllAtGoal
    /\ d.pc = "verified" /\ lock = "ACTIVE" => AllAtGoal

\* Finish runs alone, and has what it decides before it.
Finishing(d, c) ==
    /\ \A s \in Statuses : finish[s] # "idle" => d.pc \in Ended /\ c.pc \in Ended
    /\ finish["committed"] # "idle" => lock \in {"ACTIVE", "COMMITTED"} /\ AllAtGoal
    /\ finish["recovered"] # "idle" =>
          lock \in {"RECOVERY_REQUIRED", "RECOVERING", "RECOVERED"} /\ AllPrior
    /\ \A s \in Statuses : finish[s] \in {"received", "terminal"} => receipt = s
    /\ lock = "COMMITTED" => receipt = "committed"
    /\ lock = "RECOVERED" => receipt = "recovered"
    /\ lock \in ClosedStates =>
          (receipt = "committed" /\ AllAtGoal) \/ (receipt = "recovered" /\ AllPrior)

QuietInv == Undisturbed => /\ Locked(Driver, Recovery)
                           /\ Placed(Driver, Recovery)
                           /\ Finishing(Driver, Recovery)

LEMMA QuietBecomes ==
    ASSUME NEW d, NEW c, Driver' = d, proc'["recovery"] = c, Locked(d, c)', Placed(d, c)',
           Finishing(d, c)'
    PROVE  QuietInv'
BY DEF QuietInv, Recovery, Locked, Placed, Settling, Finishing

LEMMA QuietIs ==
    ASSUME QuietInv, Undisturbed, NEW d, NEW c, Driver = d, proc["recovery"] = c
    PROVE  Locked(d, c) /\ Placed(d, c) /\ Finishing(d, c)
BY DEF QuietInv, Recovery, Locked, Placed, Settling, Finishing

LEMMA SameAliases ==
    ASSUME UNCHANGED <<setting, alias>>
    PROVE  /\ \A m : Prior(m)' = Prior(m) /\ AtGoal(m)' = AtGoal(m)
           /\ AllPrior' = AllPrior /\ AllAtGoal' = AllAtGoal /\ Minors' = Minors
<1>1. Minors' = Minors /\ \A r : Goal(r)' = Goal(r)
  BY DEF Minors, Units, Goal, Touched, Operation
<1>2. \A m : Prior(m)' = Prior(m) /\ AtGoal(m)' = AtGoal(m) BY <1>1 DEF Prior, AtGoal
<1> QED BY <1>1, <1>2 DEF AllPrior, AllAtGoal

\* A step of a run that leaves the lock to itself.
LEMMA RunsFinish ==
    ASSUME PromotionTypes, NEW d, NEW c, NEW e, NEW f, Finishing(d, c), UNCHANGED <<lock, closing>>,
           \/ \A s \in Statuses : finish[s] = "idle"
           \/ e.pc \in Ended /\ f.pc \in Ended /\ UNCHANGED <<setting, alias>>,
           lock \notin ClosedStates \/ UNCHANGED <<setting, alias>>
    PROVE  Finishing(e, f)'
<1>1. UNCHANGED <<setting, alias>> => AllPrior' = AllPrior /\ AllAtGoal' = AllAtGoal BY SameAliases
<1> QED BY <1>1 DEF Finishing, closing, Statuses, ClosedStates

LEMMA RestoredAliases ==
    ASSUME PromotionTypes, UNCHANGED setting, NEW p, Towards(p)
    PROVE  /\ \A m \in Minors : Prior(m) => Prior(m)'
           /\ AllPrior => AllPrior'
           /\ Minors' = Minors
<1>1. Minors' = Minors BY DEF Minors, Units
<1>2. \A m \in Minors : Prior(m) => Prior(m)' BY DEF Towards, Prior
<1> QED BY <1>1, <1>2 DEF AllPrior

\* The steps of the driver: from x to z.
Path(x, z) ==
    \/ x.pc = "preflight" /\ z.pc = "baseline" /\ AllPrior /\ z.mutated = x.mutated
    \/ x.pc = "baseline" /\ z.pc = "attempt" /\ z.mutated = x.mutated /\ z.attempted = x.unit
    \/ /\ x.pc = "attempt" /\ z.pc \in {"started", "assert"}
       /\ lock = "ACTIVE" /\ z.attempted = x.attempted
    \/ x.pc \in UnitPcs \ {"attempt"} /\ z.pc \in UnitPcs /\ z.attempted = x.attempted
    \/ /\ x.pc = "recheck" /\ z.attempted = x.attempted
       /\ z.pc = "baseline" \/ (z.pc = "final" /\ z.unit = 1)
    \/ /\ x.pc = "final" /\ AtGoal(x.unit) /\ z.attempted = x.attempted
       /\ \/ z.pc = "final" /\ z.unit = x.unit + 1
          \/ z.pc = "result" /\ ~ (x.unit < Units)
    \/ x.pc = "result" /\ z.pc = "exit" /\ z.attempted = x.attempted
    \/ x.pc = "exit" /\ z.pc = "verified"
    \/ /\ x.pc \in Promoting
       /\ z.pc = "failed" \/ (z.pc = "read" /\ x.mutated /\ z.attempted = x.attempted)
    \/ MayStart("driver") /\ z.pc = "preflight" /\ ~ z.mutated
    \/ Running("driver") /\ z.pc = "failed"

LEMMA DriverPath ==
    ASSUME PromotionTypes, Promotes \/ StartDriver \/ Kill("driver"), NEW x, x = Driver
    PROVE  \E z : DriverGoes(x, z) /\ Path(x, z)
<1>1. CASE Preflight
  <2>1. x.pc = "preflight" /\ AllPrior /\ Step("baseline") /\ "baseline" \in Pcs
    BY <1>1 DEF Preflight, At, Driver, AllPrior, Pcs, Promoting
  <2>2. PICK z : DriverGoes(x, z) /\ z.pc = "baseline" /\ z.mutated = x.mutated BY <2>1, GoesPc
  <2> QED BY <2>1, <2>2 DEF Path
<1>2. CASE Baseline
  <2>1. x.pc = "baseline" BY <1>2 DEF Baseline, At, Driver
  <2>2. PICK z : /\ DriverGoes(x, z) /\ z.pc = "attempt" /\ z.mutated = x.mutated
                 /\ z.attempted = x.unit
    BY <1>2, BaselineGoes
  <2> QED BY <2>1, <2>2 DEF Path
<1>3. CASE Attempt
  <2>1. PICK v \in {"started", "assert"} : Step(v) BY <1>3 DEF Attempt
  <2>2. x.pc = "attempt" /\ lock = "ACTIVE" /\ v \in Pcs
    BY <1>3 DEF Attempt, At, Driver, Pcs, Promoting
  <2>3. PICK z : DriverGoes(x, z) /\ z.pc = v /\ z.attempted = x.attempted BY <2>1, <2>2, GoesPc
  <2> QED BY <2>1, <2>2, <2>3 DEF Path
<1>4. CASE AssertOwner \/ Promote \/ ReadBack \/ ReferrerAttempt \/ ReferrerComplete
  <2>1. PICK v \in UnitPcs : Step(v)
    BY <1>4 DEF AssertOwner, Promote, ReadBack, ReferrerAttempt, ReferrerComplete, UnitPcs, AliasPcs
  <2>2. x.pc \in UnitPcs \ {"attempt"}
    BY <1>4 DEF AssertOwner, Promote, ReadBack, ReferrerAttempt, ReferrerComplete, UnitPcs, AliasPcs,
                At, Driver
  <2>3. v \in Pcs BY DEF UnitPcs, AliasPcs, Pcs, Promoting
  <2>4. PICK z : DriverGoes(x, z) /\ z.pc = v /\ z.attempted = x.attempted BY <2>1, <2>3, GoesPc
  <2> QED BY <2>2, <2>4 DEF Path
<1>5. CASE Started
  <2>1. PICK z : DriverGoes(x, z) /\ z.pc = "assert" /\ z.attempted = x.attempted
    BY <1>5, StartedGoes
  <2>2. x.pc = "started" BY <1>5 DEF Started, At, Driver
  <2> QED BY <2>1, <2>2 DEF Path, UnitPcs, AliasPcs
<1>6. CASE Complete
  <2>1. PICK z : /\ DriverGoes(x, z) /\ z.pc \in {"refer", "attempt", "recheck"}
                 /\ z.attempted = x.attempted
    BY <1>6, CompleteGoes
  <2>2. x.pc = "complete" BY <1>6 DEF Complete, At, Driver
  <2> QED BY <2>1, <2>2 DEF Path, UnitPcs, AliasPcs
<1>7. CASE Recheck
  <2>1. "baseline" \in Pcs /\ "final" \in Pcs /\ x.pc = "recheck"
        /\ proc' = [proc EXCEPT !["driver"] = Loop(Driver, Units, "baseline", "final")]
    BY <1>7 DEF Recheck, At, Driver, Pcs, Promoting, PromotionTypes, Procs
  <2>2. PICK z : DriverGoes(x, z) /\ Looped(z, x, Units, "baseline", "final") BY <2>1, GoesLoop
  <2> QED BY <2>1, <2>2 DEF Path, Looped, SameButPlace
<1>8. CASE FinalReadBack
  <2>1. "result" \in Pcs /\ "final" \in Pcs /\ x.pc = "final"
        /\ proc' = [proc EXCEPT !["driver"] = Loop(Driver, Units, "final", "result")]
    BY <1>8 DEF FinalReadBack, At, Driver, Pcs, Promoting, PromotionTypes, Procs
  <2>2. AtGoal(x.unit) BY <1>8 DEF FinalReadBack, Unit, Driver, AtGoal
  <2>3. PICK z : DriverGoes(x, z) /\ Looped(z, x, Units, "final", "result") BY <2>1, GoesLoop
  <2> QED BY <2>1, <2>2, <2>3 DEF Path, Looped, SameButPlace
<1>9. CASE WriteResult
  <2>1. x.pc = "result" /\ Step("exit") /\ "exit" \in Pcs
    BY <1>9 DEF WriteResult, At, Driver, Pcs, Promoting
  <2>2. PICK z : DriverGoes(x, z) /\ z.pc = "exit" /\ z.attempted = x.attempted BY <2>1, GoesPc
  <2> QED BY <2>1, <2>2 DEF Path
<1>10. CASE ExitVerified
  <2>1. "verified" \in Pcs /\ x.pc = "exit"
        /\ proc' = [proc EXCEPT !["driver"] = [NewRun EXCEPT !.pc = "verified"]]
    BY <1>10 DEF ExitVerified, End, At, Driver, Pcs, Ended
  <2>2. PICK z : DriverGoes(x, z) /\ z.pc = "verified" BY <2>1, EndsGoes
  <2> QED BY <2>1, <2>2 DEF Path
<1>11. CASE Fail BY <1>11, FailGoes DEF Path
<1>12. CASE StartDriver
  <2>1. "preflight" \in Pcs /\ MayStart("driver")
        /\ proc' = [proc EXCEPT !["driver"] = [NewRun EXCEPT !.pc = "preflight"]]
    BY <1>12 DEF StartDriver, Pcs, Promoting
  <2>2. PICK z : DriverGoes(x, z) /\ z.pc = "preflight" /\ ~ z.mutated BY <2>1, EndsGoes
  <2> QED BY <2>1, <2>2 DEF Path
<1>13. CASE Kill("driver")
  <2>1. "failed" \in Pcs /\ Running("driver")
        /\ proc' = [proc EXCEPT !["driver"] = [NewRun EXCEPT !.pc = "failed"]]
    BY <1>13 DEF Kill, End, Pcs, Ended
  <2>2. PICK z : DriverGoes(x, z) /\ z.pc = "failed" BY <2>1, EndsGoes
  <2> QED BY <2>1, <2>2 DEF Path
<1> QED BY <1>1, <1>2, <1>3, <1>4, <1>5, <1>6, <1>7, <1>8, <1>9, <1>10, <1>11, <1>12, <1>13
       DEF Promotes

LEMMA DriverQuiet ==
    ASSUME PromotionTypes, DriverInv, QuietInv, Undisturbed,
           Promotes \/ StartDriver \/ Kill("driver")
    PROVE  QuietInv'
<1>1. PICK x, c : x = Driver /\ c = proc["recovery"] OBVIOUS
<1>2. Place(x) /\ Locked(x, c) /\ Placed(x, c) /\ Finishing(x, c) BY <1>1, IsInv, QuietIs
<1>3. PICK z : DriverGoes(x, z) /\ Path(x, z) BY <1>1, DriverPath
<1>4. /\ Driver' = z /\ proc'["recovery"] = c
      /\ UNCHANGED <<setting, lock, closing>>
      /\ x.unit \in Int /\ x.attempted \in Int
  BY <1>1, <1>3, RunTypes, PromotesMove DEF DriverGoes, Runs
<1>5. MayStart("driver") => /\ x.pc \in Ended /\ c.pc \in Ended /\ lock \notin ClosedStates
                            /\ \A s \in Statuses : finish[s] = "idle"
  BY <1>1 DEF MayStart, Quiet, Running, Undisturbed, Procs, Driver, MutableOwnerStates, ClosedStates
<1>6. Running("driver") => x.pc \notin Ended BY <1>1 DEF Running, Driver
<1>7. Locked(z, c)'
  <2>1. x.pc \in Ended \/ x.pc \notin Ended OBVIOUS
  <2> QED BY <1>2, <1>3, <1>4, <1>5, <1>6 DEF Locked, Path, Ended, Promoting, UnitPcs, AliasPcs
<1>8. ASSUME UNCHANGED alias PROVE Placed(z, c)'
  <2>1. /\ \A m : Prior(m)' = Prior(m) /\ AtGoal(m)' = AtGoal(m)
        /\ AllPrior' = AllPrior /\ AllAtGoal' = AllAtGoal /\ Minors' = Minors
    BY <1>4, <1>8, SameAliases
  <2>2. Settling(z)' /\ Settling(c)'
    <3>1. z.pc # "settle" BY <1>3 DEF Path, UnitPcs, AliasPcs
    <3> QED BY <1>2, <2>1, <3>1 DEF Settling, Placed
  <2>3. z.pc \in {"baseline"} \cup UnitPcs \cup LastPcs \cup Restoring
          => \A m \in Minors : m > z.attempted => Prior(m)
    <3>1. CASE x.pc = "preflight" /\ AllPrior BY <3>1 DEF AllPrior
    <3>2. CASE x.pc = "baseline" /\ z.attempted = x.unit
      <4>1. x.attempted = x.unit - 1 BY <1>2, <3>2 DEF Place
      <4>2. \A m \in Minors : m > x.unit => m > x.attempted BY <1>4, <4>1 DEF Minors
      <4> QED BY <1>2, <3>2, <4>2 DEF Placed
    <3>3. CASE x.pc \in {"baseline"} \cup UnitPcs \cup LastPcs /\ z.attempted = x.attempted
      BY <1>2, <3>3 DEF Placed
    <3>4. CASE z.pc \in {"verified", "failed", "preflight"}
      BY <3>4 DEF UnitPcs, AliasPcs, LastPcs, Restoring
    <3>5. CASE x.pc \in Promoting /\ z.pc = "read" /\ x.mutated /\ z.attempted = x.attempted
      <4>1. x.pc # "preflight" BY <1>2, <3>5 DEF Place
      <4> QED BY <3>3, <3>5, <4>1 DEF Promoting, UnitPcs, AliasPcs, LastPcs
    <3> QED BY <1>3, <3>1, <3>2, <3>3, <3>4, <3>5
           DEF Path, LastPcs, UnitPcs, AliasPcs
  <2>4. z.pc = "final" => \A m \in Minors : m < z.unit => AtGoal(m)
    <3>1. CASE z.unit = 1 BY <3>1 DEF Minors
    <3>2. CASE x.pc = "final" /\ AtGoal(x.unit) /\ z.unit = x.unit + 1
      <4>1. \A m \in Minors : m < z.unit => m < x.unit \/ m = x.unit BY <1>4, <3>2 DEF Minors
      <4> QED BY <1>2, <3>2, <4>1 DEF Placed
    <3> QED BY <1>3, <3>1, <3>2 DEF Path, UnitPcs, AliasPcs
  <2>5. z.pc \in {"result", "exit"} => AllAtGoal
    <3>1. CASE x.pc = "final" /\ AtGoal(x.unit) /\ ~ (x.unit < Units)
      <4>1. \A m \in Minors : m < x.unit \/ m = x.unit
        BY <1>4, <3>1, SettingType DEF Minors
      <4> QED BY <1>2, <3>1, <4>1 DEF Placed, AllAtGoal
    <3>2. CASE x.pc = "result" BY <1>2, <3>2 DEF Placed
    <3> QED BY <1>3, <3>1, <3>2 DEF Path, UnitPcs, AliasPcs
  <2>6. z.pc = "verified" => AllAtGoal
    <3>1. z.pc = "verified" => x.pc = "exit" BY <1>3 DEF Path, UnitPcs, AliasPcs
    <3> QED BY <1>2, <3>1 DEF Placed
  <2>7. z.pc # "rolledback" BY <1>3 DEF Path, UnitPcs, AliasPcs
  <2> QED BY <1>2, <1>4, <2>1, <2>2, <2>3, <2>4, <2>5, <2>6, <2>7
         DEF Placed, UnitPcs, AliasPcs, LastPcs, Restoring
<1>9. ASSUME Promoted PROVE Placed(z, c)'
  <2>1. x.pc = "promote" /\ x.attempted = x.unit BY <1>1, <1>2, <1>9 DEF Promoted, Place, UnitPcs, AliasPcs
  <2>2. lock = "ACTIVE" /\ c.pc \in Ended \ {"restored"}
    BY <1>2, <2>1 DEF Locked, Ended
  <2>3. z.pc \in UnitPcs \cup {"failed", "read"}
        /\ (z.pc \in UnitPcs \cup {"read"} => z.attempted = x.attempted)
    BY <1>3, <1>5, <2>1 DEF Path, Ended, UnitPcs, AliasPcs
  <2>4. \A m \in Minors : m > x.attempted /\ Prior(m) => Prior(m)'
    <3>1. \A m \in Minors : m > x.attempted => alias'[m] = alias[m]
      BY <1>1, <1>4, <1>9, <2>1 DEF Promoted, PromotionTypes, Minors
    <3> QED BY <3>1 DEF Prior
  <2>5. Minors' = Minors BY <1>4 DEF Minors, Units
  <2>6. \A m \in Minors : m > x.attempted => Prior(m)
    BY <1>2, <2>1 DEF Placed, UnitPcs, AliasPcs
  <2>7. Settling(z)' /\ Settling(c)'
    BY <2>2, <2>3 DEF Settling, Ended, UnitPcs, AliasPcs
  <2> QED BY <1>4, <2>2, <2>3, <2>4, <2>5, <2>6, <2>7
         DEF Placed, Ended, Restoring, UnitPcs, AliasPcs, LastPcs
<1>10. Placed(z, c)' BY <1>8, <1>9, PromotesMove
<1>11. Finishing(z, c)'
  <2>1. MayStart("driver") \/ x.pc \notin Ended
    BY <1>3, <1>6 DEF Path, Ended, Promoting, UnitPcs, AliasPcs
  <2>2. lock \notin ClosedStates /\ \A s \in Statuses : finish[s] = "idle"
    BY <1>2, <1>5, <2>1 DEF Locked, Finishing
  <2> QED BY <1>2, <1>4, <2>2, RunsFinish
<1> QED BY <1>4, <1>7, <1>10, <1>11, QuietBecomes

LEMMA RollbackQuiet ==
    ASSUME PromotionTypes, QuietInv, Undisturbed, RestoreEffect("driver")
    PROVE  QuietInv'
<1>1. PICK x, c, z : x = Driver /\ c = proc["recovery"] /\ z = Driver' OBVIOUS
<1>2. Locked(x, c) /\ Placed(x, c) /\ Finishing(x, c) BY <1>1, QuietIs
<1>3. x.pc \in Restoring /\ x.pc \notin Ended
  BY <1>1 DEF RestoreEffect, Driver, Ended, Restoring
<1>4. lock = "ACTIVE" /\ c.pc \in Ended \ {"restored"} /\ \A s \in Statuses : finish[s] = "idle"
  BY <1>2, <1>3 DEF Locked, Finishing, Ended, Restoring
<1>5. UNCHANGED <<setting, lock, closing>> /\ proc'["recovery"] = c /\ x \in Runs
  BY <1>1 DEF RestoreEffect, Alone, Procs, PromotionTypes, Driver
<1>6. /\ \A m \in Minors : Prior(m) => Prior(m)'
      /\ AllPrior => AllPrior'
      /\ Minors' = Minors
  BY <1>5, RestoredAliases DEF RestoreEffect
<1>7. \A m \in Minors : m > x.attempted => Prior(m) BY <1>2, <1>3 DEF Placed
<1>8. /\ z.pc = "failed" \/ z.pc = "rolledback" \/ (z.pc \in Restoring /\ z.attempted = x.attempted)
      /\ z.pc = "rolledback" => AllPrior
      /\ Settling(z)
  <2>1. CASE GivesUp("driver")
    BY <1>1, <2>1 DEF GivesUp, Driver, Settling
  <2>2. CASE Reports("driver")
    <3>1. /\ x.pc = "settle" /\ ~ x.failed /\ Prior(x.unit) /\ ~ (x.unit < x.attempted)
          /\ z.pc = "rolledback"
      BY <1>1, <2>2 DEF Reports, Driver, Unit, Last, Prior
    <3>2. \A m \in Minors : m < x.unit \/ m = x.unit \/ m > x.attempted
      BY <1>5, <3>1 DEF Runs, Minors
    <3>3. AllPrior BY <1>2, <1>7, <3>1, <3>2 DEF Placed, Settling, AllPrior
    <3> QED BY <3>1, <3>3 DEF Settling
  <2>3. CASE Reads("driver") \/ KnowsUnit("driver")
    BY <1>1, <2>3 DEF Reads, KnowsUnit, Driver, Settling, Restoring
  <2>4. CASE Goes("driver")
    <3>1. z.pc \in Restoring /\ z.attempted = x.attempted /\ z.pc # "rolledback"
      BY <1>1, <2>4 DEF Goes, Driver, ClassifiedPcs, Restoring
    <3>2. Settling(z)
      <4>1. \/ ~ (z.pc = "settle" /\ ~ z.failed) \/ z.unit = 1
            \/ x.pc = "settle" /\ ~ x.failed /\ Prior(x.unit) /\ z.unit = x.unit + 1
        BY <1>1, <2>4 DEF Goes, Driver, Unit, Prior
      <4>2. \A m \in Minors : ~ (m < 1) /\ (m < x.unit + 1 => m < x.unit \/ m = x.unit)
        BY <1>5 DEF Runs, Minors
      <4> QED BY <1>2, <4>1, <4>2 DEF Settling, Placed
    <3> QED BY <3>1, <3>2
  <2> QED BY <2>1, <2>2, <2>3, <2>4 DEF RestoreEffect
<1>9. Locked(z, c)' BY <1>4, <1>5 DEF Locked, Ended, ClosedStates
<1>10. Settling(z)' /\ Settling(c)' BY <1>4, <1>6, <1>8 DEF Settling, Ended
<1>11. Placed(z, c)'
  BY <1>4, <1>5, <1>6, <1>7, <1>8, <1>10 DEF Placed, Ended, Restoring, UnitPcs, AliasPcs, LastPcs
<1>12. lock \notin ClosedStates BY <1>4 DEF ClosedStates
<1>13. Finishing(z, c)' BY <1>2, <1>4, <1>5, <1>12, RunsFinish
<1> QED BY <1>1, <1>5, <1>9, <1>11, <1>13, QuietBecomes

LEMMA RecoveryQuiet ==
    ASSUME PromotionTypes, QuietInv, Undisturbed, RestoreEffect("recovery")
    PROVE  QuietInv'
<1>1. PICK d, c, z : d = Driver /\ c = proc["recovery"] /\ z = proc'["recovery"] OBVIOUS
<1>2. Locked(d, c) /\ Placed(d, c) /\ Finishing(d, c) BY <1>1, QuietIs
<1>3. c.pc \in Restoring /\ c.pc \notin Ended BY <1>1 DEF RestoreEffect, Ended, Restoring
<1>4. /\ lock # "ACTIVE" /\ lock \notin ClosedStates /\ d.pc \in Ended
      /\ \A s \in Statuses : finish[s] = "idle"
  BY <1>2, <1>3 DEF Locked, Finishing
<1>5. UNCHANGED <<setting, lock, closing>> /\ Driver' = d /\ c \in Runs
  BY <1>1 DEF RestoreEffect, Alone, Procs, PromotionTypes, Driver
<1>6. /\ \A m \in Minors : Prior(m) => Prior(m)'
      /\ AllPrior => AllPrior'
      /\ Minors' = Minors
  BY <1>5, RestoredAliases DEF RestoreEffect
<1>7. z.pc = "restored" => AllPrior
  <2>1. SUFFICES ASSUME Reports("recovery") PROVE AllPrior
    BY <1>1 DEF RestoreEffect, GivesUp, Reads, KnowsUnit, Goes, ClassifiedPcs
  <2>2. c.pc = "settle" /\ ~ c.failed /\ Prior(c.unit) /\ ~ (c.unit < Units)
    BY <1>1, <2>1 DEF Reports, Unit, Last, Prior
  <2>3. \A m \in Minors : m < c.unit \/ m = c.unit BY <1>5, <2>2, SettingType DEF Runs, Minors
  <2> QED BY <1>2, <2>2, <2>3 DEF Placed, Settling, AllPrior
<1>8. Settling(z)
  <2>1. CASE Goes("recovery")
    <3>1. \/ ~ (z.pc = "settle" /\ ~ z.failed) \/ z.unit = 1
          \/ c.pc = "settle" /\ ~ c.failed /\ Prior(c.unit) /\ z.unit = c.unit + 1
      BY <1>1, <2>1 DEF Goes, Unit, Prior
    <3>2. \A m \in Minors : ~ (m < 1) /\ (m < c.unit + 1 => m < c.unit \/ m = c.unit)
      BY <1>5 DEF Runs, Minors
    <3> QED BY <1>2, <3>1, <3>2 DEF Settling, Placed
  <2>2. CASE z.pc # "settle" BY <2>2 DEF Settling
  <2> QED BY <1>1, <2>1, <2>2 DEF RestoreEffect, GivesUp, Reports, Reads, KnowsUnit
<1>9. Locked(d, z)' BY <1>4, <1>5 DEF Locked
<1>10. Settling(z)' /\ Settling(d)' BY <1>4, <1>6, <1>8 DEF Settling, Ended
<1>11. Placed(d, z)'
  BY <1>2, <1>4, <1>5, <1>6, <1>7, <1>10
     DEF Placed, Ended, Restoring, UnitPcs, AliasPcs, LastPcs
<1>12. Finishing(d, z)' BY <1>2, <1>4, <1>5, RunsFinish
<1> QED BY <1>1, <1>5, <1>9, <1>11, <1>12, QuietBecomes

\* A recovery begins or ends: the lock leaves ACTIVE for ever.
LEMMA OthersLock ==
    ASSUME PromotionTypes, Undisturbed, OthersStep, ~ Restores("recovery"), ~ Closes,
           NEW d, NEW c, d = Driver, c = proc["recovery"], NEW z, z = proc'["recovery"]
    PROVE  /\ UNCHANGED closing
           /\ \/ /\ d.pc \in Ended /\ c.pc \in Ended /\ z.pc \in {"idle", "read"}
                 /\ \A s \in Statuses : finish[s] = "idle"
                 /\ lock \notin ClosedStates /\ lock' = "RECOVERING"
              \/ /\ c.pc \notin Ended /\ z.pc = "failed"
                 /\ lock' \in {lock, "BLOCKED", "RECOVERY_REQUIRED"}
<1>1. ASSUME NEW y, proc' = [proc EXCEPT !["recovery"] = y] PROVE z = y
  BY <1>1 DEF PromotionTypes, Procs
<1>2. \A pc : [NewRun EXCEPT !.pc = pc].pc = pc BY DEF NewRun
<1>3. CASE RecoverBegin \/ StartRecovery
  <2>1. /\ d.pc \in Ended /\ c.pc \in Ended /\ lock \notin ClosedStates
        /\ \A s \in Statuses : finish[s] = "idle"
    BY <1>3 DEF RecoverBegin, StartRecovery, MayStart, Quiet, Running, Undisturbed, Procs, Driver,
                MutableOwnerStates, ClosedStates
  <2>2. z.pc \in {"idle", "read"}
    <3>1. NewRun.pc = "idle" BY DEF NewRun
    <3> QED BY <1>1, <1>2, <1>3, <3>1 DEF RecoverBegin, StartRecovery
  <2>3. lock' = "RECOVERING" /\ UNCHANGED closing
    BY <1>3 DEF RecoverBegin, StartRecovery, journal, rest
  <2> QED BY <2>1, <2>2, <2>3
<1>4. CASE Note("recovery")
  <2>1. c.pc \notin Ended /\ UNCHANGED closing BY <1>4 DEF Note, At, Ended, rest
  <2>2. z.pc = "failed" BY <1>1, <1>2, <1>4 DEF Note, End
  <2>3. lock' \in {lock, "BLOCKED", "RECOVERY_REQUIRED"}
    BY <1>4 DEF Note, NoteFailure, FailureState
  <2> QED BY <2>1, <2>2, <2>3
<1>5. CASE Kill("recovery")
  <2>1. c.pc \notin Ended /\ UNCHANGED <<lock, closing>> BY <1>5 DEF Kill, Running, rest, journal
  <2>2. z.pc = "failed" BY <1>1, <1>2, <1>5 DEF Kill, End
  <2> QED BY <2>1, <2>2
<1>6. CASE \E reason \in ExitReasons : RecoveryExits(reason)
  <2>1. c.pc \notin Ended /\ UNCHANGED closing BY <1>6 DEF RecoveryExits, Restoring, Ended, rest
  <2>2. z.pc = "failed" BY <1>1, <1>2, <1>6 DEF RecoveryExits, End
  <2>3. lock' \in {lock, "BLOCKED", "RECOVERY_REQUIRED"}
    BY <1>6 DEF RecoveryExits, NoteFailure, FailureState, journal
  <2> QED BY <2>1, <2>2, <2>3
<1>7. ~ \E m \in Minors, r \in Registries : Drift(m, r) BY DEF Drift, Undisturbed
<1> QED BY <1>3, <1>4, <1>5, <1>6, <1>7 DEF OthersStep

LEMMA OthersQuiet ==
    ASSUME PromotionTypes, QuietInv, Undisturbed, OthersStep, ~ Restores("recovery"), ~ Closes
    PROVE  QuietInv'
<1>1. PICK d, c, z : d = Driver /\ c = proc["recovery"] /\ z = proc'["recovery"] OBVIOUS
<1>2. Locked(d, c) /\ Placed(d, c) /\ Finishing(d, c) BY <1>1, QuietIs
<1>3. UNCHANGED <<setting, alias>> /\ Driver' = d
  <2>1. ~ \E m \in Minors, r \in Registries : Drift(m, r) BY DEF Drift, Undisturbed
  <2> QED BY <1>1, <2>1, OthersLeave, OthersMove
<1>4. /\ \A m : Prior(m)' = Prior(m) /\ AtGoal(m)' = AtGoal(m)
      /\ AllPrior' = AllPrior /\ AllAtGoal' = AllAtGoal /\ Minors' = Minors
  BY <1>3, SameAliases
<1>5. /\ \A m \in Minors : d.pc \in {"baseline"} \cup UnitPcs \cup LastPcs \cup Restoring
                              => (m > d.attempted => Prior(m)')
      /\ Settling(d)' /\ Settling(c)'
      /\ d.pc = "rolledback" => AllPrior'
      /\ d.pc = "final" => \A m \in Minors : m < d.unit => AtGoal(m)'
      /\ d.pc \in {"result", "exit"} => AllAtGoal'
  BY <1>2, <1>4 DEF Placed, Settling
<1>6. /\ lock' # "ACTIVE" /\ lock' \notin ClosedStates /\ z.pc # "restored" /\ z.pc # "settle"
      /\ \A s \in Statuses : finish[s] = "idle" /\ finish'[s] = "idle"
      /\ d.pc \in Ended
  BY <1>1, <1>2, OthersLock DEF Locked, Finishing, ClosedStates, closing
<1>7. Locked(d, z)' BY <1>6 DEF Locked, Ended
<1>8. Placed(d, z)'
  BY <1>2, <1>4, <1>5, <1>6 DEF Placed, Settling, Ended, UnitPcs, AliasPcs, LastPcs, Restoring
<1>9. Finishing(d, z)'
  <2>1. \A s \in Statuses : finish'[s] = "idle" BY <1>6
  <2>2. lock' \notin ClosedStates BY <1>6
  <2> QED BY <2>1, <2>2 DEF Finishing, Statuses, ClosedStates
<1> QED BY <1>1, <1>3, <1>7, <1>8, <1>9, QuietBecomes

\* Finish goes on only where its side is the one the aliases are on.
LEMMA ClosesQuiet ==
    ASSUME PromotionTypes, QuietInv, Undisturbed, Closes PROVE QuietInv'
<1>1. PICK d, c : d = Driver /\ c = proc["recovery"] OBVIOUS
<1>2. Locked(d, c) /\ Placed(d, c) /\ Finishing(d, c) BY <1>1, QuietIs
<1>3. UNCHANGED <<setting, alias, proc>> BY ClosesEffect
<1>4. /\ \A m : Prior(m)' = Prior(m) /\ AtGoal(m)' = AtGoal(m)
      /\ AllPrior' = AllPrior /\ AllAtGoal' = AllAtGoal /\ Minors' = Minors
  BY <1>3, SameAliases
<1>5. PICK s \in Statuses : FinishBegin(s) \/ FinishReceipt(s) \/ FinishTerminal(s)
                            \/ FinishFree(s) \/ FinishCut(s)
  BY DEF Closes, Finishes
<1>6. finish \in [Statuses -> {"idle", "checked", "received", "terminal"}]
  BY DEF PromotionTypes, ClosingTypes
<1>7. CASE FinishBegin(s)
  <2>1. /\ \A p \in Procs : ~ Running(p)
        /\ \A t \in Statuses : finish[t] = "idle"
        /\ finish' = [finish EXCEPT ![s] = "checked"] /\ UNCHANGED <<lock, receipt>>
    BY <1>7 DEF FinishBegin, Quiet, Undisturbed, journal
  <2>2. d.pc \in Ended /\ c.pc \in Ended BY <1>1, <2>1 DEF Running, Procs, Driver
  <2>3. CASE s = "committed"
    <3>1. d.pc = "verified" /\ lock \in {"ACTIVE", "COMMITTED"}
      BY <1>1, <1>7, <2>3 DEF FinishBegin, FinishAllowed, At, Driver
    <3>2. AllAtGoal BY <1>2, <3>1 DEF Placed, Finishing, ClosedStates
    <3>3. Finishing(d, c)'
      BY <1>2, <1>4, <1>6, <2>1, <2>2, <2>3, <3>1, <3>2 DEF Finishing, Statuses, ClosedStates
    <3> QED BY <1>1, <1>2, <1>3, <1>4, <2>1, <3>3, QuietBecomes DEF Locked, Placed, Settling, Driver
  <2>4. CASE s = "recovered"
    <3>1. c.pc = "restored" /\ lock \in {"RECOVERY_REQUIRED", "RECOVERING", "RECOVERED"}
      BY <1>1, <1>2, <1>7, <2>4
         DEF FinishBegin, FinishAllowed, At, MutableOwnerStates, Locked
    <3>2. AllPrior BY <1>2, <3>1 DEF Placed
    <3>3. Finishing(d, c)'
      BY <1>2, <1>4, <1>6, <2>1, <2>2, <2>4, <3>1, <3>2 DEF Finishing, Statuses, ClosedStates
    <3> QED BY <1>1, <1>2, <1>3, <1>4, <2>1, <3>3, QuietBecomes DEF Locked, Placed, Settling, Driver
  <2> QED BY <2>3, <2>4 DEF Statuses
<1>8. CASE FinishReceipt(s) \/ FinishTerminal(s) \/ FinishFree(s) \/ FinishCut(s)
  <2>1. PICK v \in {"idle", "received", "terminal"} : finish' = [finish EXCEPT ![s] = v]
    BY <1>8 DEF FinishReceipt, FinishTerminal, FinishFree, FinishCut
  <2>2. finish[s] # "idle" /\ d.pc \in Ended /\ c.pc \in Ended
    BY <1>2, <1>8 DEF FinishReceipt, FinishTerminal, FinishFree, FinishCut, Finishing
  <2>3. \A t \in Statuses : t # s => finish[t] = "idle"
    BY <1>2, <2>2 DEF Finishing, Statuses
  <2>4. lock' # "ACTIVE" \/ UNCHANGED lock
    BY <1>8 DEF FinishReceipt, FinishTerminal, FinishFree, FinishCut, Terminal, journal
  <2>5. Locked(d, c)' /\ Placed(d, c)'
    BY <1>2, <1>4, <2>2, <2>4 DEF Locked, Placed, Settling
  <2>6. Finishing(d, c)'
    <3>1. CASE FinishReceipt(s)
      <4>1. receipt \in {"none", s} /\ receipt' = s /\ UNCHANGED lock
            /\ finish' = [finish EXCEPT ![s] = "received"]
        BY <3>1 DEF FinishReceipt, journal
      <4> QED BY <1>2, <1>4, <1>6, <2>2, <2>3, <4>1 DEF Finishing, Statuses, ClosedStates
    <3>2. CASE FinishTerminal(s)
      <4>1. finish[s] = "received" /\ UNCHANGED receipt /\ lock' = Terminal(s)
            /\ finish' = [finish EXCEPT ![s] = "terminal"]
        BY <3>2 DEF FinishTerminal
      <4> QED BY <1>2, <1>4, <1>6, <2>2, <2>3, <4>1 DEF Finishing, Statuses, ClosedStates, Terminal
    <3>3. CASE FinishFree(s)
      <4>1. finish[s] = "terminal" /\ UNCHANGED receipt /\ lock = Terminal(s) /\ lock' = "FREE"
            /\ finish' = [finish EXCEPT ![s] = "idle"]
        BY <3>3 DEF FinishFree
      <4> QED BY <1>2, <1>4, <1>6, <2>2, <2>3, <4>1 DEF Finishing, Statuses, ClosedStates, Terminal
    <3>4. CASE FinishCut(s)
      <4>1. UNCHANGED <<receipt, lock>> /\ finish' = [finish EXCEPT ![s] = "idle"]
        BY <3>4 DEF FinishCut, journal
      <4> QED BY <1>2, <1>4, <1>6, <2>2, <2>3, <4>1 DEF Finishing, Statuses, ClosedStates
    <3> QED BY <1>8, <3>1, <3>2, <3>3, <3>4
  <2> QED BY <1>1, <1>3, <2>5, <2>6, QuietBecomes DEF Driver
<1> QED BY <1>5, <1>7, <1>8

LEMMA QuietKept ==
    ASSUME PromotionTypes, DriverInv, QuietInv, [Next]_vars PROVE QuietInv'
<1>1. UNCHANGED setting
  <2>1. CASE UNCHANGED vars BY <2>1 DEF vars
  <2>2. CASE Next BY <2>2, StepCases, PromotesMove, OthersLeave DEF RestoreEffect, Alone
  <2> QED BY <2>1, <2>2
<1>2. CASE ~ Undisturbed BY <1>1, <1>2 DEF QuietInv, Undisturbed
<1>3. CASE Undisturbed /\ Next
  BY <1>3, StepCases, DriverQuiet, RollbackQuiet, RecoveryQuiet, OthersQuiet, ClosesQuiet
<1>4. CASE Undisturbed /\ UNCHANGED vars
  <2>1. PICK d, c : d = Driver /\ c = proc["recovery"] OBVIOUS
  <2>2. Locked(d, c) /\ Placed(d, c) /\ Finishing(d, c) BY <1>4, <2>1, QuietIs
  <2>3. UNCHANGED <<setting, alias, lock, receipt, finish, proc>> BY <1>4 DEF vars
  <2>4. /\ \A m : Prior(m)' = Prior(m) /\ AtGoal(m)' = AtGoal(m)
        /\ AllPrior' = AllPrior /\ AllAtGoal' = AllAtGoal /\ Minors' = Minors
    BY <2>3, SameAliases
  <2>5. Locked(d, c)' BY <2>2, <2>3 DEF Locked
  <2>6. Placed(d, c)' BY <2>2, <2>3, <2>4 DEF Placed, Settling
  <2>7. Finishing(d, c)' BY <2>2, <2>3, <2>4 DEF Finishing
  <2>8. Driver' = d /\ proc'["recovery"] = c BY <2>1, <2>3 DEF Driver
  <2> QED BY <2>5, <2>6, <2>7, <2>8, QuietBecomes
<1> QED BY <1>2, <1>3, <1>4

\* What becomes of the aliases and the decision.
LEMMA Switches ==
    ASSUME PromotionTypes, DriverInv, QuietInv, Undisturbed, [Next]_vars
    PROVE  \/ Decision = "open" /\ UNCHANGED Decision
           \/ Decision = "open" /\ Decision' = "committed" /\ AllAtGoal /\ UNCHANGED alias
           \/ Decision = "open" /\ Decision' = "recovered" /\ AllPrior /\ UNCHANGED alias
           \/ Decision # "open" /\ UNCHANGED <<Decision, alias>>
<1>1. PICK d, c, z : d = Driver /\ c = proc["recovery"] /\ z = proc'["recovery"] OBVIOUS
<1>2. Locked(d, c) /\ Placed(d, c) /\ Finishing(d, c) BY <1>1, QuietIs
<1>3. Decision = "open" <=> lock \notin ClosedStates
  BY <1>2 DEF Decision, ClosedStates, Finishing
<1>4. UNCHANGED <<lock, closing>> => UNCHANGED Decision BY DEF Decision, closing
<1>5. CASE UNCHANGED vars
  <2>1. UNCHANGED <<alias, lock, closing>> BY <1>5 DEF vars, closing
  <2> QED BY <1>4, <2>1
<1>6. CASE Promotes \/ StartDriver \/ Kill("driver")
  <2>1. UNCHANGED <<lock, closing>> /\ (Promoted \/ UNCHANGED alias) BY <1>6, PromotesMove
  <2>2. CASE Promoted
    <3>1. d.pc = "promote" BY <1>1, <2>2 DEF Promoted
    <3>2. Decision = "open" BY <1>2, <1>3, <3>1 DEF Locked, Ended
    <3> QED BY <1>4, <2>1, <3>2
  <2> QED BY <1>4, <2>1, <2>2
<1>7. CASE RestoreEffect("driver")
  <2>1. d.pc \in Restoring /\ UNCHANGED <<lock, closing>>
    BY <1>1, <1>7 DEF RestoreEffect, Alone, Driver
  <2>2. Decision = "open" BY <1>2, <1>3, <2>1 DEF Locked, Ended, Restoring
  <2> QED BY <1>4, <2>1, <2>2
<1>8. CASE RestoreEffect("recovery")
  <2>1. c.pc \in Restoring /\ UNCHANGED <<lock, closing>> BY <1>1, <1>8 DEF RestoreEffect, Alone
  <2>2. Decision = "open" BY <1>2, <1>3, <2>1 DEF Locked, Ended, Restoring
  <2> QED BY <1>4, <2>1, <2>2
<1>9. CASE OthersStep /\ ~ Restores("recovery") /\ ~ Closes
  <2>1. UNCHANGED closing /\ lock \notin ClosedStates /\ lock' \notin ClosedStates
    BY <1>1, <1>2, <1>9, OthersLock DEF Locked, ClosedStates
  <2> QED BY <2>1 DEF Decision, ClosedStates
<1>10. CASE Closes
  <2>1. UNCHANGED alias BY <1>10, ClosesEffect
  <2>2. PICK s \in Statuses : FinishBegin(s) \/ FinishReceipt(s) \/ FinishTerminal(s)
                              \/ FinishFree(s) \/ FinishCut(s)
    BY <1>10 DEF Closes, Finishes
  <2>3. CASE FinishBegin(s) \/ FinishCut(s)
    <3>1. UNCHANGED <<lock, receipt>> BY <2>3 DEF FinishBegin, FinishCut, journal
    <3> QED BY <2>1, <3>1 DEF Decision
  <2>4. CASE FinishReceipt(s)
    <3>1. finish[s] = "checked" /\ UNCHANGED lock /\ receipt' = s
      BY <2>4 DEF FinishReceipt, journal
    <3>2. lock \in ClosedStates => receipt = s BY <1>2, <3>1 DEF Finishing, ClosedStates, Statuses
    <3> QED BY <2>1, <3>1, <3>2 DEF Decision, ClosedStates
  <2>5. CASE FinishTerminal(s) \/ FinishFree(s)
    <3>1. /\ finish[s] \in {"received", "terminal"} /\ UNCHANGED receipt
          /\ lock' \in ClosedStates
      <4>1. Terminal(s) \in {"COMMITTED", "RECOVERED"} BY DEF Terminal
      <4> QED BY <2>5, <4>1 DEF FinishTerminal, FinishFree, ClosedStates
    <3>2. receipt = s /\ Decision' = s BY <1>2, <3>1 DEF Finishing, Decision, ClosedStates
    <3>3. Decision # "open" => Decision = s BY <3>2 DEF Decision
    <3>4. (s = "committed" /\ AllAtGoal) \/ (s = "recovered" /\ AllPrior)
      BY <1>2, <3>1 DEF Finishing, Statuses
    <3> QED BY <2>1, <3>2, <3>3, <3>4
  <2> QED BY <2>2, <2>3, <2>4, <2>5
<1> QED BY <1>5, <1>6, <1>7, <1>8, <1>9, <1>10, StepCases

-----------------------------------------------------------------------------
(***************************************************************************)
(* Theorems.                                                               *)
(***************************************************************************)
LEMMA QuietInit == ASSUME Init PROVE QuietInv
<1>1. Driver = NewRun /\ Recovery = NewRun /\ NewRun.pc = "idle"
  BY DEF Init, Driver, Recovery, Procs, NewRun
<1>2. \A m \in Minors : Prior(m) BY DEF Init, Prior, Minors, Units
<1>3. Locked(NewRun, NewRun) BY <1>1 DEF Init, Locked, Ended, ClosedStates
<1>4. Finishing(NewRun, NewRun) BY DEF Init, Finishing, Statuses, ClosedStates
<1>5. Placed(NewRun, NewRun)
  BY <1>1, <1>2 DEF Init, Placed, Settling, Restoring, UnitPcs, AliasPcs, LastPcs
<1> QED BY <1>1, <1>3, <1>4, <1>5 DEF QuietInv

LEMMA QuietAlways == Spec => [](OwnInv /\ QuietInv)
<1>1. OwnInv /\ QuietInv /\ [Next]_vars => QuietInv' BY QuietKept DEF OwnInv
<1> QED BY <1>1, QuietInit, OwnAlways, PTL DEF Spec

\* Undisturbed, a rollback or recovery that reports success has left no alias
\* of the plan away from its prior digest.
THEOREM Restored == Spec => []RestoredIsPrior
<1>1. QuietInv => RestoredIsPrior
  BY DEF QuietInv, Placed, RestoredIsPrior, At, Driver, Recovery
<1> QED BY <1>1, QuietAlways, PTL

\* Undisturbed, a publication is the all-or-nothing switch of module
\* Publication: its lock becomes COMMITTED with every alias at its target and
\* RECOVERED with every alias at its prior digest, whatever receipts earlier
\* finish commands left behind when they were cut, and nothing moves afterwards.
THEOREM Implemented == Spec => PublicationIsImplemented
<1> DEFINE aliases == IF Undisturbed THEN Side ELSE "prior"
           decided == IF Undisturbed THEN Decision ELSE "open"
<1>1. Init => Abstract!Init
  <2> SUFFICES ASSUME Init PROVE aliases = "prior" /\ decided = "open"
    BY DEF Abstract!Init
  <2>1. AllPrior BY DEF Init, AllPrior, Prior, Minors, Units
  <2> QED BY <2>1 DEF Init, Side, Decision
<1>2. OwnInv /\ QuietInv /\ [Next]_vars => [Abstract!Next]_(Abstract!vars)
  <2> SUFFICES ASSUME OwnInv, QuietInv, [Next]_vars
               PROVE  \/ Abstract!Next
                      \/ UNCHANGED <<aliases, decided>>
    BY DEF Abstract!vars
  <2>1. UNCHANGED setting
    <3>1. CASE UNCHANGED vars BY <3>1 DEF vars
    <3>2. CASE Next
      BY <3>2, StepCases, PromotesMove, OthersLeave DEF OwnInv, RestoreEffect, Alone
    <3> QED BY <3>1, <3>2
  <2>2. Undisturbed' = Undisturbed BY <2>1 DEF Undisturbed
  <2>3. CASE ~ Undisturbed BY <2>2, <2>3
  <2>4. CASE Undisturbed
    <3>1. Side \in {"prior", "target", "mixed"} /\ Side' \in {"prior", "target", "mixed"}
      BY DEF Side
    <3>2. AllPrior => Side = "prior" BY DEF Side
    <3>3. AllAtGoal => Side = "target"
      <4>1. 1 \in Minors /\ "ghcr" \in Registries /\ Goal("ghcr") = "target"
        BY SettingType DEF OwnInv, Minors, Registries, Goal, Touched
      <4>2. ~ (AllPrior /\ AllAtGoal) BY <4>1 DEF AllPrior, AllAtGoal, Prior, AtGoal
      <4> QED BY <4>2 DEF Side
    <3>4. UNCHANGED alias => Side' = Side BY <2>1, SameAliases DEF Side
    <3>5. /\ aliases = Side /\ decided = Decision
          /\ aliases' = Side' /\ decided' = Decision'
      BY <2>2, <2>4
    <3> HIDE DEF aliases, decided
    <3> QED BY <2>4, <3>1, <3>2, <3>3, <3>4, <3>5, Switches
            DEF OwnInv, Abstract!Next, Abstract!Move, Abstract!Commit, Abstract!Recover, aliases, decided
  <2> QED BY <2>3, <2>4
<1> QED BY <1>1, <1>2, QuietAlways, PTL DEF Spec, PublicationIsImplemented, Abstract!Spec
=============================================================================
