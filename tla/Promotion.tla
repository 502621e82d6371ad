------------------------------ MODULE Promotion ------------------------------
(***************************************************************************)
(* scripts/promote-auto-canaries.sh with the scripts it runs: the driver   *)
(* of one publication transaction and its recovery.                        *)
(*                                                                         *)
(* The driver moves the aliases of the plan's release units one after the  *)
(* other, each registry in turn, and journals every step.  When it exits   *)
(* with an error after it may have moved something, its EXIT trap rolls    *)
(* back what it attempted.  When its runner is lost nothing runs, and a    *)
(* later run in recover mode classifies every alias of the plan from the   *)
(* registries and the journal and restores the ones the plan moved.  The   *)
(* registries have no transactions and know nothing of the lock.           *)
(*                                                                         *)
(* One action is one access to a registry or one journal command, with the *)
(* local decisions up to the next.  The journal's commands are those of    *)
(* TransactionJournal, here one step each: a command that is refused       *)
(* changes nothing, so its action is disabled and the caller fails.        *)
(* Finish alone has more than one step here: it writes the receipt before  *)
(* it replaces the lock, and a recovery may be begun in between.           *)
(***************************************************************************)
EXTENDS Integers, FiniteSets

CONSTANTS
    Settings,      \* plans, and what else goes on while they are published
    ExistingTags,  \* evidence tags that bind the targets before the run
    MaxEpoch       \* bound: no recovery is begun once the lock was replaced so often

\* An alias resolves to its digest before the transaction, to its target, or
\* to something else.
Sides == {"prior", "target", "other"}

\* operation and units: of the plan; overlap: a run may start while another
\* has not ended; drifts: the values an outside writer may give to an alias.
ASSUME SettingsAssumption ==
    Settings \subseteq [operation: {"automatic", "backfill-ghcr"}, units: Nat \ {0},
                        overlap: BOOLEAN, drifts: SUBSET Sides]
ASSUME MaxEpochAssumption == MaxEpoch \in Nat

VARIABLES
    setting,   \* the plan, and what else goes on
    alias,     \* what each moving alias resolves to
    tags,      \* for each minor, the evidence tags that bind its target
    lock,      \* the state of the transaction lock
    epoch,     \* how often the lock was replaced, from activation to finish: no
               \* record is made under the commits of finish
    records,   \* the journal's records of this transaction
    result,    \* transaction-result.json is in the driver's report directory
    receipt,   \* what the transaction's receipt says
    finish,    \* how far the finish command has come, for each final status
    proc       \* the state of each run of the script

vars == <<setting, alias, tags, lock, epoch, records, result, receipt, finish, proc>>
registries == <<alias, tags>>
journal == <<lock, epoch, records>>
closing == <<receipt, finish>>
rest == <<setting, result, closing>>

Units == setting.units
Operation == setting.operation

Minors == 1..Units
Registries == {"dockerhub", "ghcr"}
Touched == IF Operation = "automatic" THEN Registries ELSE {"ghcr"}
Procs == {"driver", "recovery"}

\* A registry the operation does not touch has no target.
Goal(r) == IF r \in Touched THEN "target" ELSE "prior"

\* The evidence tags the driver journals and reads back, and those that
\* promote-image.sh creates beside the alias.
JournaledTags == {"patch-sha", "date-minor"}
PromotedTags == {"patch-date-digest", "sha-minor-digest"}
Tags == JournaledTags \cup PromotedTags

ASSUME TagsAssumption == ExistingTags \subseteq Tags

\* The states of the lock once the plan is activated; PREPARED is over.
MutableOwnerStates == {"ACTIVE", "RECOVERY_REQUIRED", "RECOVERING"}
Statuses == {"committed", "recovered"}
Terminal(status) == IF status = "committed" THEN "COMMITTED" ELSE "RECOVERED"
LockStates == MutableOwnerStates \cup {"BLOCKED", "COMMITTED", "RECOVERED", "FREE"}
BlockingReasons == {"classification-unknown", "restore-failed", "final-readback"}
ExitReasons == {"signal-term", "unexpected-exit"}

\* A run that is lost and one that exits with an error are the same to those
\* who come after it: both have "failed".
Ended == {"idle", "verified", "rolledback", "restored", "failed"}
Promoting == {"preflight", "baseline", "attempt", "started", "assert", "promote", "readback",
              "complete", "refer", "referred", "recheck", "final", "result", "exit"}
Restoring == {"read", "classify", "drift", "restore", "mutate", "sign",
              "signing", "confirm", "settle", "note"}

Unread == [m \in Minors |-> [r \in Registries |-> "unread"]]

\* unit and reg: the release unit and registry at hand; mutated and attempted:
\* mutation_started and the length of attempted-promotions.tsv; found: the
\* digests classified; todo: registries of the unit still to be restored;
\* bad and failed: this unit, and any unit, could not be restored.
NewRun == [pc |-> "idle", unit |-> 1, reg |-> "ghcr", mutated |-> FALSE,
           attempted |-> 0, unknown |-> FALSE, found |-> Unread, todo |-> {},
           bad |-> FALSE, failed |-> FALSE, reason |-> "restore-failed"]

Init ==
    /\ setting \in Settings
    /\ alias = [m \in Minors |-> [r \in Registries |-> "prior"]]
    /\ tags = [m \in Minors |-> ExistingTags]
    /\ lock = "ACTIVE"
    /\ epoch = 0
    /\ records = {}
    /\ result = FALSE
    /\ receipt = "none"
    /\ finish = [s \in Statuses |-> "idle"]
    /\ proc = [p \in Procs |-> NewRun]

At(p, pc) == proc[p].pc = pc
Unit(p) == proc[p].unit
Running(p) == proc[p].pc \notin Ended
Go(p, pc) == proc' = [proc EXCEPT ![p].pc = pc]
End(p, pc) == proc' = [proc EXCEPT ![p] = [NewRun EXCEPT !.pc = pc]]

\* The loop over the first n units at pc: the next one, or done at unit 1.
Loop(run, n, pc, done) ==
    IF run.unit < n
    THEN [run EXCEPT !.pc = pc, !.unit = @ + 1, !.bad = FALSE]
    ELSE [run EXCEPT !.pc = done, !.unit = 1, !.bad = FALSE]

-----------------------------------------------------------------------------
(***************************************************************************)
(* The journal's commands.                                                 *)
(***************************************************************************)
Rec(kind, m, r) == [kind |-> kind, minor |-> m, reg |-> r, epoch |-> epoch]

SameRef(x, y) == x.kind = y.kind /\ x.minor = y.minor /\ x.reg = y.reg

\* A record is created once; the same command again is accepted only if the
\* record would be the same, lock commit included.
Accepted(rec) == \A x \in records : SameRef(x, rec) => x = rec

Journaled(kind, m, r) ==
    \E x \in records : x.kind = kind /\ x.minor = m /\ x.reg = r

\* A command that is refused writes nothing.
Ensure(recs, allowed) ==
    records' = IF lock \in allowed
               THEN records \cup {x \in recs : Accepted(x)}
               ELSE records

\* A completion copies its attempt.
Completions(kind, done, m, r) ==
    {[x EXCEPT !.kind = done] :
        x \in {y \in records : y.kind = kind /\ y.minor = m /\ y.reg = r}}

\* Fault: the failure reason is taken for the next state.
FailureStateOfReason(reason) == reason

FailureState(reason) ==
    IF reason \in BlockingReasons THEN "BLOCKED" ELSE "RECOVERY_REQUIRED"

CanNote(reason) ==
    /\ lock \in MutableOwnerStates \cup {"BLOCKED"}
    /\ Accepted(Rec("failure", 0, reason))

NoteFailure(reason) ==
    /\ CanNote(reason)
    /\ records' = records \cup {Rec("failure", 0, reason)}
    /\ lock' = FailureState(reason)
    /\ epoch' = IF lock = FailureState(reason) THEN epoch ELSE epoch + 1

-----------------------------------------------------------------------------
(***************************************************************************)
(* Runs of the script and those who start them.                            *)
(***************************************************************************)
Quiet == /\ \A p \in Procs : ~Running(p)
         /\ \A s \in Statuses : finish[s] = "idle"

MayStart(p) ==
    /\ ~Running(p)
    /\ setting.overlap \/ Quiet
    /\ lock \in MutableOwnerStates

\* In a new report directory, or in that of an earlier run.
StartDriver ==
    /\ MayStart("driver")
    /\ result' \in {FALSE, result}
    /\ proc' = [proc EXCEPT !["driver"] = [NewRun EXCEPT !.pc = "preflight"]]
    /\ UNCHANGED <<registries, journal, setting, closing>>

\* Fault: the lock keeps its state when recovery begins.
RecoverBeginKeepsState ==
    /\ MayStart("recovery")
    /\ lock \in {"ACTIVE", "RECOVERY_REQUIRED"} /\ epoch < MaxEpoch
    /\ lock' = lock
    /\ proc' = [proc EXCEPT !["recovery"] = [NewRun EXCEPT !.pc = "read"]]
    /\ UNCHANGED <<registries, epoch, records, rest>>

\* Fault: recovery begins only after a failure was noted.
RecoverBeginNoted ==
    /\ MayStart("recovery")
    /\ lock = "RECOVERY_REQUIRED" /\ epoch < MaxEpoch
    /\ lock' = "RECOVERING"
    /\ epoch' = epoch + 1
    /\ proc' = [proc EXCEPT !["recovery"] = NewRun]
    /\ UNCHANGED <<registries, records, rest>>

\* Who starts a recovery runs recover-begin first.
RecoverBegin ==
    /\ MayStart("recovery")
    /\ lock \in {"ACTIVE", "RECOVERY_REQUIRED"} /\ epoch < MaxEpoch
    /\ lock' = "RECOVERING"
    /\ epoch' = epoch + 1
    /\ proc' = [proc EXCEPT !["recovery"] = NewRun]
    /\ UNCHANGED <<registries, records, rest>>

StartRecovery ==
    /\ MayStart("recovery")
    /\ lock = "RECOVERING"
    /\ proc' = [proc EXCEPT !["recovery"] = [NewRun EXCEPT !.pc = "read"]]
    /\ UNCHANGED <<registries, journal, rest>>

\* What finish requires of the journal to commit.
RecordsComplete ==
    \A m \in Minors :
        /\ \A r \in Touched : Journaled("result", m, r)
        /\ Operation = "automatic" => Journaled("referrer-result", m, "dockerhub")

\* Exit status 0 of a run lets its caller finish the transaction, and finish
\* again if the call was cut; before its first write finish looks at the lock.
FinishAllowed(s) ==
    IF s = "committed"
    THEN At("driver", "verified") /\ result /\ lock \in {"ACTIVE", "COMMITTED"} /\ RecordsComplete
    ELSE At("recovery", "restored") /\ lock \in MutableOwnerStates \cup {"RECOVERED"}

FinishBegin(s) ==
    /\ finish[s] = "idle"
    /\ setting.overlap \/ Quiet
    /\ FinishAllowed(s)
    /\ finish' = [finish EXCEPT ![s] = "checked"]
    /\ UNCHANGED <<registries, journal, setting, result, receipt, proc>>

\* Fault: a receipt that is there is taken for this one.
FinishReceiptAny(s) ==
    /\ finish[s] = "checked"
    /\ receipt' = IF receipt = "none" THEN s ELSE receipt
    /\ finish' = [finish EXCEPT ![s] = "received"]
    /\ UNCHANGED <<registries, journal, setting, result, proc>>

\* The receipt is created once, and only the same one is accepted afterwards.
FinishReceipt(s) ==
    /\ finish[s] = "checked"
    /\ receipt \in {"none", s}
    /\ receipt' = s
    /\ finish' = [finish EXCEPT ![s] = "received"]
    /\ UNCHANGED <<registries, journal, setting, result, proc>>

\* The lock is read again: its owner is compared, its state is not.
FinishTerminal(s) ==
    /\ finish[s] = "received"
    /\ lock # "FREE"
    /\ lock' = Terminal(s)
    /\ finish' = [finish EXCEPT ![s] = "terminal"]
    /\ UNCHANGED <<registries, epoch, records, setting, result, receipt, proc>>

FinishFree(s) ==
    /\ finish[s] = "terminal"
    /\ lock = Terminal(s)
    /\ lock' = "FREE"
    /\ finish' = [finish EXCEPT ![s] = "idle"]
    /\ UNCHANGED <<registries, epoch, records, setting, result, receipt, proc>>

\* Finish is refused, loses the lock to another writer, or its caller is lost.
FinishCut(s) ==
    /\ finish[s] # "idle"
    /\ finish' = [finish EXCEPT ![s] = "idle"]
    /\ UNCHANGED <<registries, journal, setting, result, receipt, proc>>

Finishes == \E s \in Statuses :
    FinishBegin(s) \/ FinishReceipt(s) \/ FinishTerminal(s) \/ FinishFree(s)

\* A writer outside the transaction.
Drift(m, r) ==
    /\ alias[m][r] \notin setting.drifts
    /\ \E side \in setting.drifts : alias' = [alias EXCEPT ![m][r] = side]
    /\ UNCHANGED <<tags, journal, rest, proc>>

\* The runner is lost: no trap runs.
Kill(p) ==
    /\ Running(p)
    /\ End(p, "failed")
    /\ UNCHANGED <<registries, journal, rest>>

-----------------------------------------------------------------------------
(***************************************************************************)
(* Promotion of one unit after the other.                                  *)
(***************************************************************************)
Prior(m) == \A r \in Registries : alias[m][r] = "prior"
AtGoal(m) == \A r \in Registries : alias[m][r] = Goal(r)
Step(pc) == proc' = [proc EXCEPT !["driver"].pc = pc]
Driver == proc["driver"]

Preflight ==
    /\ At("driver", "preflight")
    /\ \A m \in Minors : Prior(m)
    /\ Step("baseline")
    /\ UNCHANGED <<registries, journal, rest>>

\* Fault: the unit joins attempted-promotions.tsv when it is complete.
BaselineUnlisted ==
    /\ At("driver", "baseline")
    /\ Prior(Unit("driver"))
    /\ proc' = [proc EXCEPT !["driver"].pc = "attempt", !["driver"].reg = "ghcr",
                            !["driver"].attempted = Unit("driver") - 1]
    /\ UNCHANGED <<registries, journal, rest>>

\* The unit joins attempted-promotions.tsv before its attempt is journaled.
Baseline ==
    /\ At("driver", "baseline")
    /\ Prior(Unit("driver"))
    /\ proc' = [proc EXCEPT !["driver"].pc = "attempt", !["driver"].reg = "ghcr",
                            !["driver"].attempted = Unit("driver")]
    /\ UNCHANGED <<registries, journal, rest>>

\* Fault: the alias is moved without a durable attempt.
AttemptUnjournaled ==
    /\ At("driver", "attempt")
    /\ lock = "ACTIVE"
    /\ Step(IF Driver.reg = "ghcr" THEN "started" ELSE "assert")
    /\ UNCHANGED <<registries, journal, rest>>

Attempt ==
    LET rec == Rec("attempt", Unit("driver"), Driver.reg)
    IN  /\ At("driver", "attempt")
        /\ lock = "ACTIVE"
        /\ Accepted(rec)
        /\ records' = records \cup {rec}
        /\ Step(IF Driver.reg = "ghcr" THEN "started" ELSE "assert")
        /\ UNCHANGED <<registries, lock, epoch, rest>>

\* mutation_started is set after the attempt: an exit in between leaves the
\* attempt on record and runs no rollback.
Started ==
    /\ At("driver", "started")
    /\ proc' = [proc EXCEPT !["driver"].pc = "assert", !["driver"].mutated = TRUE]
    /\ UNCHANGED <<registries, journal, rest>>

AssertOwner ==
    /\ At("driver", "assert")
    /\ lock \in MutableOwnerStates
    /\ Step("promote")
    /\ UNCHANGED <<registries, journal, rest>>

Promote ==
    LET m == Unit("driver")
    IN  /\ At("driver", "promote")
        /\ alias' = [alias EXCEPT ![m][Driver.reg] = "target"]
        /\ tags' = IF Driver.reg = "ghcr"
                   THEN [tags EXCEPT ![m] = @ \cup PromotedTags] ELSE tags
        /\ Step("readback")
        /\ UNCHANGED <<journal, rest>>

ReadBack ==
    LET m == Unit("driver")
    IN  /\ At("driver", "readback")
        /\ alias[m][Driver.reg] = "target"
        /\ Driver.reg = "ghcr" => JournaledTags \subseteq tags[m]
        /\ Step("complete")
        /\ UNCHANGED <<registries, journal, rest>>

AfterComplete(reg) ==
    CASE reg = "dockerhub"                                -> "refer"
      [] reg = "ghcr" /\ Operation = "automatic"          -> "attempt"
      [] reg = "ghcr" /\ Operation = "backfill-ghcr"      -> "recheck"

Complete ==
    LET m == Unit("driver")
    IN  /\ At("driver", "complete")
        /\ lock = "ACTIVE"
        /\ Journaled("attempt", m, Driver.reg)
        /\ records' = records \cup Completions("attempt", "result", m, Driver.reg)
        /\ proc' = [proc EXCEPT !["driver"].pc = AfterComplete(Driver.reg),
                                !["driver"].reg = "dockerhub"]
        /\ UNCHANGED <<registries, lock, epoch, rest>>

ReferrerAttempt ==
    LET rec == Rec("referrer-attempt", Unit("driver"), "dockerhub")
    IN  /\ At("driver", "refer")
        /\ lock = "ACTIVE"
        /\ Accepted(rec)
        /\ records' = records \cup {rec}
        /\ Step("referred")
        /\ UNCHANGED <<registries, lock, epoch, rest>>

\* The target is signed and verified by digest in between.
ReferrerComplete ==
    LET m == Unit("driver")
    IN  /\ At("driver", "referred")
        /\ lock = "ACTIVE"
        /\ records' = records \cup
              Completions("referrer-attempt", "referrer-result", m, "dockerhub")
        /\ Step("recheck")
        /\ UNCHANGED <<registries, lock, epoch, rest>>

\* Docker Hub must be unchanged in a backfill, at the target otherwise.
Recheck ==
    /\ At("driver", "recheck")
    /\ AtGoal(Unit("driver"))
    /\ proc' = [proc EXCEPT !["driver"] = Loop(@, Units, "baseline", "final")]
    /\ UNCHANGED <<registries, journal, rest>>

\* The transaction-wide read-back of every completed unit.
FinalReadBack ==
    /\ At("driver", "final")
    /\ AtGoal(Unit("driver"))
    /\ proc' = [proc EXCEPT !["driver"] = Loop(@, Units, "final", "result")]
    /\ UNCHANGED <<registries, journal, rest>>

WriteResult ==
    /\ At("driver", "result")
    /\ result' = TRUE
    /\ Step("exit")
    /\ UNCHANGED <<registries, journal, setting, closing>>

ExitVerified ==
    /\ At("driver", "exit")
    /\ End("driver", "verified")
    /\ UNCHANGED <<registries, journal, rest>>

Rollback == [NewRun EXCEPT !.pc = "read", !.mutated = TRUE,
                           !.attempted = Driver.attempted]

\* Fault: the trap leaves transaction-result.json behind.
FailKeepsResult ==
    /\ Driver.pc \in Promoting
    /\ proc' = [proc EXCEPT !["driver"] =
                   IF Driver.mutated THEN Rollback ELSE [NewRun EXCEPT !.pc = "failed"]]
    /\ UNCHANGED <<registries, journal, rest>>

\* A check or command fails, or INT or TERM arrives: the EXIT trap runs, with
\* INT and TERM ignored from here on.
Fail ==
    /\ Driver.pc \in Promoting
    /\ proc' = [proc EXCEPT !["driver"] =
                   IF Driver.mutated THEN Rollback ELSE [NewRun EXCEPT !.pc = "failed"]]
    /\ result' = (result /\ ~Driver.mutated)
    /\ UNCHANGED <<registries, journal, setting, closing>>

-----------------------------------------------------------------------------
(***************************************************************************)
(* Rollback by the trap (rollback_all) and recovery (recover_transaction): *)
(* classify every unit, look again, restore, read back.                    *)
(***************************************************************************)
Last(p) == IF p = "driver" THEN proc[p].attempted ELSE Units

\* Recovery runs under "set -e": a failed assert-owner ends it (RecoveryExits).  The trap
\* runs under "set +e" and goes on.
Asserted(p) == p = "recovery" => lock \in MutableOwnerStates

\* recovery ends with an error to be noted; the trap just returns 1.
GivenUp(p, why) == [NewRun EXCEPT !.pc = IF p = "driver" THEN "failed" ELSE "note",
                                  !.reason = why]
GiveUp(p, why) == proc' = [proc EXCEPT ![p] = GivenUp(p, why)]

ReadUnit(p) ==
    /\ At(p, "read")
    /\ Asserted(p)
    /\ proc' = [proc EXCEPT ![p].pc = "classify", ![p].found[Unit(p)] = alias[Unit(p)]]
    /\ UNCHANGED <<registries, journal, rest>>

\* Fault: an alias at its target is taken for the transaction's own.
TargetIsOwn(side, m, r) == side \in {"prior", "target"}

\* A digest read is known if it is the prior one, or the target of an attempt
\* on record.
Known(side, m, r) ==
    \/ side = "prior"
    \/ side = "target" /\ r \in Touched /\ Journaled("attempt", m, r)

\* Fault: a later unit that is known hides an earlier one that is not.
ClassifiedLast(p, known) ==
    LET run == [Loop(proc[p], Last(p), "read", "drift") EXCEPT !.unknown = ~known]
    IN  proc' = [proc EXCEPT ![p] = IF run.pc = "drift" /\ run.unknown
                                    THEN GivenUp(p, "classification-unknown")
                                    ELSE run]

\* Every unit is classified before the first is restored: one unknown alias,
\* and nothing is written.
Classified(p, known) ==
    LET run == [Loop(proc[p], Last(p), "read", "drift") EXCEPT !.unknown = @ \/ ~known]
    IN  proc' = [proc EXCEPT ![p] = IF run.pc = "drift" /\ run.unknown
                                    THEN GivenUp(p, "classification-unknown")
                                    ELSE run]

\* The state command is refused in other lock states: then nothing is known.
Classify(p) ==
    /\ At(p, "classify")
    /\ LET m == Unit(p)
           known == /\ lock \in MutableOwnerStates
                    /\ \A r \in Registries : Known(proc[p].found[m][r], m, r)
       IN  Classified(p, known)
    /\ UNCHANGED <<registries, journal, rest>>

\* A registry or the journal cannot be read, or the evidence cannot be written.
ReadFails(p) ==
    /\ proc[p].pc \in {"read", "classify"}
    /\ Classified(p, FALSE)
    /\ UNCHANGED <<registries, journal, rest>>

DriftCheck(p) ==
    /\ At(p, "drift")
    /\ Asserted(p)
    /\ alias[Unit(p)] = proc[p].found[Unit(p)]
    /\ proc' = [proc EXCEPT ![p] = Loop(@, Last(p), "drift", "restore")]
    /\ UNCHANGED <<registries, journal, rest>>

\* The alias is not what was classified, or cannot be read.
Drifted(p) ==
    /\ At(p, "drift")
    /\ GiveUp(p, "classification-unknown")
    /\ UNCHANGED <<registries, journal, rest>>

ToRestore(p) == {r \in Registries : proc[p].found[Unit(p)][r] = "target"}

\* recover looks at the unit once more at the mutation boundary.
AtBoundary(p) == p = "recovery" => alias[Unit(p)] = proc[p].found[Unit(p)]

\* restore_dual and restore_ghcr_only are called in an "||" list, which turns
\* "set -e" off in them: neither a refused recovery-attempt nor a failed
\* assert-owner keeps the alias from being restored.
RestoreUnit(p) ==
    /\ At(p, "restore")
    /\ Asserted(p)
    /\ AtBoundary(p)
    /\ Ensure({x \in {Rec("recovery-attempt", Unit(p), r) : r \in ToRestore(p)} :
                  Journaled("attempt", x.minor, x.reg)},
              {"ACTIVE", "RECOVERING"})
    /\ proc' = IF ToRestore(p) = {}
               THEN [proc EXCEPT ![p] = Loop(@, Last(p), "restore", "settle")]
               ELSE [proc EXCEPT ![p].pc = "mutate", ![p].todo = ToRestore(p)]
    /\ UNCHANGED <<registries, lock, epoch, rest>>

BoundaryDrifted(p) ==
    /\ At(p, "restore")
    /\ p = "recovery"
    /\ GiveUp(p, "restore-failed")
    /\ UNCHANGED <<registries, journal, rest>>

\* Each registry is restored independently of the other, Docker Hub first.
NextToRestore(p) == IF "dockerhub" \in proc[p].todo THEN "dockerhub" ELSE "ghcr"

\* Only a unit restored so far in full is signed.
Mutated(p, bad) ==
    LET left == proc[p].todo \ {NextToRestore(p)}
        failed == proc[p].bad \/ bad
    IN  proc' = [proc EXCEPT
           ![p].todo = left,
           ![p].bad = failed,
           ![p].pc = IF left # {} THEN @
                     ELSE IF ~failed /\ "dockerhub" \in ToRestore(p) THEN "sign"
                     ELSE "confirm"]

RestoreAlias(p) ==
    /\ At(p, "mutate")
    /\ alias' = [alias EXCEPT ![Unit(p)][NextToRestore(p)] = "prior"]
    /\ Mutated(p, FALSE)
    /\ UNCHANGED <<tags, journal, rest>>

\* No source is available, or the mutation or its read-back fails; a mutation
\* may fail after it was applied.
RestoreFails(p) ==
    /\ At(p, "mutate")
    /\ alias' \in {alias, [alias EXCEPT ![Unit(p)][NextToRestore(p)] = "prior"]}
    /\ Mutated(p, TRUE)
    /\ UNCHANGED <<tags, journal, rest>>

\* The restored Docker Hub subject keeps an authorised signature, ...
SignatureRetained(p) ==
    /\ At(p, "sign")
    /\ Go(p, "confirm")
    /\ UNCHANGED <<registries, journal, rest>>

\* ... or is signed under a record of its own; here a refusal counts.
SignAttempt(p) ==
    LET rec == Rec("recovery-referrer-attempt", Unit(p), "dockerhub")
    IN  /\ At(p, "sign")
        /\ lock \in {"ACTIVE", "RECOVERING"}
        /\ Accepted(rec)
        /\ records' = records \cup {rec}
        /\ Go(p, "signing")
        /\ UNCHANGED <<registries, lock, epoch, rest>>

SignComplete(p) ==
    /\ At(p, "signing")
    /\ lock \in {"ACTIVE", "RECOVERING"}
    /\ records' = records \cup Completions("recovery-referrer-attempt",
                     "recovery-referrer-result", Unit(p), "dockerhub")
    /\ Go(p, "confirm")
    /\ UNCHANGED <<registries, lock, epoch, rest>>

SignFails(p) ==
    /\ proc[p].pc \in {"sign", "signing"}
    /\ proc' = [proc EXCEPT ![p].pc = "confirm", ![p].bad = TRUE]
    /\ UNCHANGED <<registries, journal, rest>>

\* Read-back and recovery-complete, which is refused under another lock commit
\* than its attempt's: that is ignored too.  Verification may fail.  recover
\* stops at the first unit that failed, the trap goes on.
ConfirmRestore(p) ==
    LET m == Unit(p)
        done == {r \in ToRestore(p) : alias[m][r] = "prior"}
        ok == ~proc[p].bad /\ \A r \in Touched : alias[m][r] = "prior"
    IN  /\ At(p, "confirm")
        /\ Ensure(UNION {{[x EXCEPT !.kind = "recovery-result"] :
                            x \in records \cap {Rec("recovery-attempt", m, r)}} :
                         r \in done},
                  {"ACTIVE", "RECOVERING"})
        /\ \E verified \in BOOLEAN :
              IF ok /\ verified
              THEN proc' = [proc EXCEPT ![p] = Loop(@, Last(p), "restore", "settle")]
              ELSE IF p = "recovery"
              THEN GiveUp(p, "restore-failed")
              ELSE proc' = [proc EXCEPT ![p] =
                      [Loop(@, Last(p), "restore", "settle") EXCEPT !.failed = TRUE]]
        /\ UNCHANGED <<registries, lock, epoch, rest>>

\* The final read-back decides what the run reports.
Outcome(p, run) ==
    IF run.pc # "settled" THEN run
    ELSE IF run.failed THEN GivenUp(p, "final-readback")
    ELSE [NewRun EXCEPT !.pc = IF p = "driver" THEN "rolledback" ELSE "restored",
                        !.found = IF p = "driver" THEN @ ELSE run.found]

Settle(p) ==
    /\ At(p, "settle")
    /\ \E read \in BOOLEAN :
          LET run == [Loop(proc[p], Last(p), "settle", "settled") EXCEPT
                         !.failed = @ \/ ~read \/ ~Prior(Unit(p))]
          IN  proc' = [proc EXCEPT ![p] = Outcome(p, run)]
    /\ UNCHANGED <<registries, journal, rest>>

Note(p) ==
    /\ At(p, "note")
    /\ NoteFailure(proc[p].reason)
    /\ End(p, "failed")
    /\ UNCHANGED <<registries, rest>>

\* recover ends early, by a signal or because a command failed under "set -e":
\* its EXIT trap notes the failure, and ignores that this is refused.
RecoveryExits(reason) ==
    /\ proc["recovery"].pc \in Restoring
    /\ \/ NoteFailure(reason)
       \/ ~CanNote(reason) /\ UNCHANGED journal
    /\ End("recovery", "failed")
    /\ UNCHANGED <<registries, rest>>

-----------------------------------------------------------------------------
Promotes ==
    \/ Preflight \/ Baseline \/ Attempt \/ Started \/ AssertOwner \/ Promote
    \/ ReadBack \/ Complete \/ ReferrerAttempt \/ ReferrerComplete \/ Recheck
    \/ FinalReadBack \/ WriteResult \/ ExitVerified \/ Fail

Restores(p) ==
    \/ ReadUnit(p) \/ Classify(p) \/ ReadFails(p)
    \/ DriftCheck(p) \/ Drifted(p)
    \/ RestoreUnit(p) \/ BoundaryDrifted(p) \/ RestoreAlias(p) \/ RestoreFails(p)
    \/ SignatureRetained(p) \/ SignAttempt(p) \/ SignComplete(p)
    \/ SignFails(p) \/ ConfirmRestore(p) \/ Settle(p)

Recovers == Restores("recovery") \/ Note("recovery")

Starts == StartDriver \/ RecoverBegin \/ StartRecovery \/ Finishes

Interrupts == \/ \E p \in Procs : Kill(p)
              \/ \E s \in Statuses : FinishCut(s)
              \/ \E reason \in ExitReasons : RecoveryExits(reason)

Next ==
    \/ Starts
    \/ Promotes
    \/ Restores("driver")
    \/ Recovers
    \/ Interrupts
    \/ \E m \in Minors, r \in Registries : Drift(m, r)

Spec == Init /\ [][Next]_vars

-----------------------------------------------------------------------------
(***************************************************************************)
(* Properties.                                                             *)
(***************************************************************************)
Epochs == 0..(2 * Cardinality(ExitReasons) + 2)
Kinds == {"attempt", "result", "referrer-attempt", "referrer-result",
          "recovery-attempt", "recovery-result", "recovery-referrer-attempt",
          "recovery-referrer-result", "failure"}
Runs == [pc: Ended \cup Promoting \cup Restoring, unit: Minors, reg: Registries,
         mutated: BOOLEAN, attempted: 0..Units, unknown: BOOLEAN,
         found: [Minors -> [Registries -> Sides \cup {"unread"}]],
         todo: SUBSET Registries, bad: BOOLEAN, failed: BOOLEAN,
         reason: BlockingReasons]

\* Aliases, journal and runs take the values the scripts can give them; until
\* finish the lock is replaced a bounded number of times, because a failure
\* reason is recorded once.
TypeOK ==
    /\ setting \in Settings
    /\ alias \in [Minors -> [Registries -> Sides]]
    /\ tags \in [Minors -> SUBSET Tags]
    /\ lock \in LockStates
    /\ epoch \in Epochs
    /\ records \subseteq [kind: Kinds, minor: 0..Units, epoch: Epochs,
                          reg: Registries \cup BlockingReasons \cup ExitReasons]
    /\ result \in BOOLEAN
    /\ receipt \in {"none"} \cup Statuses
    /\ finish \in [Statuses -> {"idle", "checked", "received", "terminal"}]
    /\ proc \in [Procs -> Runs]

\* Nobody else moves the aliases of the plan, and runs and finish commands keep
\* out of each other's way; each of them may be cut at any of its steps, and
\* another may follow.
Undisturbed == ~setting.overlap /\ setting.drifts = {}

\* Whatever is interrupted and wherever, an alias that is away from its prior
\* digest has a publication attempt on record: a later recovery can own it.
MovedIsJournaled ==
    Undisturbed => \A m \in Minors, r \in Registries :
        alias[m][r] = "target" => Journaled("attempt", m, r)

\* A result file is there only if the journal is complete, so that finish can
\* commit; no run that rolls back leaves one, its own or an earlier run's; exit
\* status 0 does.
VerifiedIsComplete ==
    /\ result => RecordsComplete
    /\ At("driver", "verified") => result
    /\ Driver.pc \in Restoring \cup {"rolledback"} => ~result

AllPrior == \A m \in Minors : Prior(m)
AllAtGoal == \A m \in Minors : AtGoal(m)

\* When the trap reports that everything attempted was rolled back, and when
\* recover exits 0, no alias of the plan is away from its prior digest,
\* whatever the run before left half done.
RestoredIsPrior ==
    Undisturbed /\ (At("driver", "rolledback") \/ At("recovery", "restored")) => AllPrior

\* No-clobber: a run that restores an alias has seen every alias it looks
\* after at the prior digest or at the target of an attempt on record.  One
\* alias it cannot explain, and it writes none of them.
RestoresOnlyKnown ==
    [][\A p \in Procs :
          At(p, "mutate") /\ alias' # alias /\ proc'[p] # proc[p] =>
              \A m \in 1..Last(p), r \in Registries :
                  LET side == proc[p].found[m][r]
                  IN  side = "prior" \/ (side = "target" /\ Journaled("attempt", m, r))]_vars

\* The transaction, undisturbed, implements the switch of module Publication:
\* from the moment its lock is COMMITTED or RECOVERED, all its aliases are on
\* that side and do not move.  The receipt alone decides nothing: when finish is
\* cut after writing it, a recovery may still be begun and put the aliases back,
\* and then the lock must never be released against them.
Side == IF AllPrior THEN "prior" ELSE IF AllAtGoal THEN "target" ELSE "mixed"
Decision == IF lock \in {"COMMITTED", "RECOVERED", "FREE"} THEN receipt ELSE "open"

Abstract == INSTANCE Publication WITH
    aliases <- IF Undisturbed THEN Side ELSE "prior",
    decision <- IF Undisturbed THEN Decision ELSE "open"

PublicationIsImplemented == Abstract!Spec

(***************************************************************************)
(* Liveness: a run that goes on ends, and a recovery is begun and started  *)
(* whenever it keeps being possible.  Runners are lost and signals arrive  *)
(* any number of times, but not for ever.                                  *)
(***************************************************************************)
Fairness ==
    /\ WF_vars(Promotes)
    /\ WF_vars(Restores("driver"))
    /\ WF_vars(Recovers)
    /\ SF_vars(RecoverBegin)
    /\ SF_vars(StartRecovery)
    /\ <>[][~Interrupts]_vars

FairSpec == Spec /\ Fairness

\* A publication does not stay half done: the aliases get to one side, or the
\* lock is BLOCKED for a person to look at.
PartialIsSettled == Side = "mixed" ~> (Side # "mixed" \/ lock = "BLOCKED")

(***************************************************************************)
(* What the repository says of itself and does not keep.                   *)
(***************************************************************************)
\* SECURITY.md: the controller "durably records every ... moving-alias
\* attempt/result, referrer write, rollback, and recovery transition": here,
\* what a successful recovery restored.
RestoreIsJournaled ==
    At("recovery", "restored") =>
        \A m \in Minors, r \in Registries :
            proc["recovery"].found[m][r] = "target"
                => Journaled("recovery-result", m, r)

=============================================================================
