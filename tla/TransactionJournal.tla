------------------------- MODULE TransactionJournal -------------------------
(***************************************************************************)
(* scripts/transaction-journal.py: the durable publication journal.        *)
(*                                                                         *)
(* A publication transaction is known by its plan.  Its progress is kept   *)
(* in immutable, create-once records (annotated tags in production), and   *)
(* the right to publish is kept in a lock: a branch whose commits are only *)
(* ever added to its head by compare-and-swap.  Every CLI call is a        *)
(* process of its own that reads the journal, decides and writes; calls of *)
(* the same or of different transactions interleave between any two        *)
(* accesses, and any of them may stop at any point.                        *)
(*                                                                         *)
(* One action is one access to the shared journal together with the local  *)
(* decisions up to the next access.  Records are immutable, so a record    *)
(* that was read as present stays so: the read of the plan record and of   *)
(* the records a check needs is joined to the access that follows it.  A   *)
(* check that fails ends the call with nothing written: the action is not  *)
(* enabled and Stop, which also stands for a crash, is what remains.       *)
(***************************************************************************)
EXTENDS Integers, Sequences, FiniteSets

CONSTANTS
    Plans,      \* the transactions: validated plan files
    Backfill,   \* the plans whose operation is "backfill-ghcr"
    Minors,     \* the PHP minors of a plan's release units
    Callers,    \* processes that run the CLI, one call at a time
    Commands,   \* the commands the callers use
    Statuses,   \* the statuses given to finish
    Reasons,    \* the failure reasons given to note-failure
    Results,    \* contents of terminal result files, by hash
    Nothing     \* an absent record, an absent owner

FailureReasons == {"classification-init", "classification-append",
                   "classification-unknown", "signal-int", "signal-term",
                   "unexpected-exit", "restore-failed", "final-readback"}
BlockingFailures == {"classification-init", "classification-append",
                     "classification-unknown", "restore-failed",
                     "final-readback"}

LockStates == {"FREE", "PREPARED", "ACTIVE", "RECOVERY_REQUIRED",
               "RECOVERING", "BLOCKED", "COMMITTED", "RECOVERED"}
MutableOwnerStates == {"PREPARED", "ACTIVE", "RECOVERY_REQUIRED", "RECOVERING"}
AllowedFinish == {"committed", "recovered", "already-verified"}

\* A fence is the nonce of the plan record.  A call that creates the record
\* draws a fresh one, so the caller stands for the nonce it drew.
Fences == Callers
Owners == [plan: Plans, fence: Fences]
Receipts == [status: AllowedFinish, result: Results]
Commits == [state: LockStates, generation: Nat, owner: Owners \cup {Nothing}]

\* An attempt and its completion go by the kind of the attempt's record.
AttemptKinds == {"prepare-attempt", "attempt", "referrer-attempt",
                 "recovery-attempt", "recovery-referrer-attempt"}
ResultKind(kind) ==
    CASE kind = "prepare-attempt"           -> "prepare-result"
      [] kind = "attempt"                   -> "result"
      [] kind = "referrer-attempt"          -> "referrer-result"
      [] kind = "recovery-attempt"          -> "recovery-result"
      [] kind = "recovery-referrer-attempt" -> "recovery-referrer-result"
ResultKinds == {"prepare-result", "result", "referrer-result",
                "recovery-result", "recovery-referrer-result"}

PrepareKinds == {"pin-ghcr", "pin-dockerhub-backup", "stage-dockerhub"}
Registries == {"ghcr", "dockerhub"}

\* A record that names the lock commit it was written under.  (plan, kind,
\* object, minor) is its ref; lock is lock_commit_sha, an index into chain.
Records == [plan: Plans,
            kind: AttemptKinds \cup ResultKinds \cup {"failure"},
            object: PrepareKinds \cup Registries \cup FailureReasons,
            minor: Minors \cup {Nothing},
            lock: Nat]

AllCommands == {"begin", "activate", "recover-begin", "note-failure", "finish"}
               \cup AttemptKinds

ASSUME PlansAssumption == Backfill \subseteq Plans
ASSUME CommandsAssumption == Commands \subseteq AllCommands
ASSUME StatusesAssumption == Statuses \subseteq AllowedFinish
ASSUME ReasonsAssumption == Reasons \subseteq FailureReasons
ASSUME NothingAssumption ==
    /\ Nothing \notin Plans \cup Minors \cup Callers
    /\ Nothing \notin Owners \cup Receipts

VARIABLES
    chain,       \* the commits of the lock branch, oldest first
    planRecord,  \* for each plan, the fence in its plan record
    records,     \* the owned records that exist
    receipt,     \* for each plan, its terminal receipt
    call         \* for each caller, the call it is executing

vars == <<chain, planRecord, records, receipt, call>>
journal == <<planRecord, records, receipt>>

Idle == [cmd |-> "none", plan |-> Nothing, step |-> "idle",
         lock |-> 0, arg |-> <<Nothing, Nothing>>, seen |-> Nothing]

Init ==
    /\ chain = <<>>
    /\ planRecord = [p \in Plans |-> Nothing]
    /\ records = {}
    /\ receipt = [p \in Plans |-> Nothing]
    /\ call = [c \in Callers |-> Idle]

-----------------------------------------------------------------------------
(***************************************************************************)
(* The lock and its owner.                                                 *)
(***************************************************************************)
Tip == Len(chain)
Owner(p) == [plan |-> p, fence |-> planRecord[p]]

\* The lock, as of commit n, is held by the transaction the plan record names.
OwnedAt(n, p) ==
    /\ n \in DOMAIN chain
    /\ planRecord[p] # Nothing
    /\ chain[n].owner = Owner(p)

\* Fault: the branch is updated without comparing its head.
ForcePushLock(expected, commit) ==
    /\ expected \in DOMAIN chain
    /\ chain' = Append(chain, commit)

\* Compare-and-swap: the head moves only from the commit that was read.
\* A lost response or a failed read-back is this step followed by Stop.
AdvanceLock(expected, commit) ==
    /\ Tip = expected
    /\ chain' = Append(chain, commit)

\* The successor of commit n in the same generation, with the same owner.
Transition(n, state) == [chain[n] EXCEPT !.state = state]

At(c, cmd, step) == call[c].cmd = cmd /\ call[c].step = step
Goto(c, step) == call' = [call EXCEPT ![c].step = step]
Return(c) == call' = [call EXCEPT ![c] = Idle]

-----------------------------------------------------------------------------
(***************************************************************************)
(* Records.                                                                *)
(***************************************************************************)
SameRef(r, s) ==
    r.plan = s.plan /\ r.kind = s.kind /\ r.object = s.object /\ r.minor = s.minor

\* ensure_exact_record: create once; an existing record must be the same.
EnsureExact(rec) ==
    /\ \A r \in records : SameRef(r, rec) => r = rec
    /\ records' = records \cup {rec}

Exists(p, kind, object, minor) ==
    \E r \in records : /\ r.plan = p
                       /\ r.kind = kind
                       /\ r.object = object
                       /\ r.minor = minor

\* Fault: the record names the lock at the time of the write, not the one checked.
RecordAtTip(c, kind) ==
    [plan |-> call[c].plan, kind |-> kind, object |-> call[c].arg[1],
     minor |-> call[c].arg[2], lock |-> Tip]

OwnedRecord(c, kind) ==
    [plan |-> call[c].plan, kind |-> kind, object |-> call[c].arg[1],
     minor |-> call[c].arg[2], lock |-> call[c].lock]

RequiredPreparations(p) == IF p \in Backfill THEN {"pin-ghcr"} ELSE PrepareKinds
RequiredRegistries(p) == IF p \in Backfill THEN {"ghcr"} ELSE Registries

PreparationsComplete(p) ==
    \A m \in Minors : \A k \in RequiredPreparations(p) :
        /\ Exists(p, "prepare-attempt", k, m)
        /\ Exists(p, "prepare-result", k, m)

PublicationComplete(p, registry, m) ==
    /\ Exists(p, "attempt", registry, m)
    /\ Exists(p, "result", registry, m)

ReferrersComplete(p, m) ==
    /\ Exists(p, "referrer-attempt", "dockerhub", m)
    /\ Exists(p, "referrer-result", "dockerhub", m)

\* Fault: the referrer results are not required of a committed transaction.
AliasResultsComplete(p) ==
    /\ PreparationsComplete(p)
    /\ \A m \in Minors : \A g \in RequiredRegistries(p) :
          PublicationComplete(p, g, m)

RequiredCommittedRecordsComplete(p) ==
    /\ PreparationsComplete(p)
    /\ \A m \in Minors :
          /\ PublicationComplete(p, "ghcr", m)
          /\ p \notin Backfill => /\ PublicationComplete(p, "dockerhub", m)
                                  /\ ReferrersComplete(p, m)

-----------------------------------------------------------------------------
(***************************************************************************)
(* begin: journal the plan, take the lock if it is free and the            *)
(* transaction has no receipt.                                             *)
(***************************************************************************)
\* Fault: a call keeps the nonce it drew although another call's was journaled.
CandidateFence(c, p) == c

\* ensure_plan_record: whoever creates the record, its fence is adopted.
AdoptedFence(c, p) == IF planRecord[p] = Nothing THEN c ELSE planRecord[p]

BeginPlanRecord(c, p) ==
    /\ "begin" \in Commands
    /\ call[c] = Idle
    /\ planRecord' = [planRecord EXCEPT
                         ![p] = IF @ = Nothing THEN c ELSE @]
    /\ call' = [call EXCEPT ![c] =
                   [Idle EXCEPT !.cmd = "begin", !.plan = p, !.step = "lock",
                                !.seen = AdoptedFence(c, p)]]
    /\ UNCHANGED <<chain, records, receipt>>

\* ensure_lock with bootstrap allowed: the branch is created once.
BeginEnsureLock(c) ==
    /\ At(c, "begin", "lock")
    /\ chain = <<>>
    /\ chain' = <<[state |-> "FREE", generation |-> 0, owner |-> Nothing]>>
    /\ UNCHANGED <<planRecord, records, receipt, call>>

BeginReadLock(c) ==
    /\ At(c, "begin", "lock")
    /\ chain # <<>>
    /\ call' = [call EXCEPT ![c].step = "receipt", ![c].lock = Tip]
    /\ UNCHANGED <<chain, journal>>

\* Fault: the receipt is not consulted.
BeginIgnoreReceipt(c) ==
    /\ At(c, "begin", "receipt")
    /\ chain[call[c].lock].state = "FREE"
    /\ Goto(c, "advance")
    /\ UNCHANGED <<chain, journal>>

\* With no receipt and a free lock the call goes on to take the lock.
BeginReadReceipt(c) ==
    /\ At(c, "begin", "receipt")
    /\ receipt[call[c].plan] = Nothing
    /\ chain[call[c].lock].state = "FREE"
    /\ Goto(c, "advance")
    /\ UNCHANGED <<chain, journal>>

\* With no receipt and the lock already this owner's the call succeeds.
BeginAlreadyOwner(c) ==
    /\ At(c, "begin", "receipt")
    /\ receipt[call[c].plan] = Nothing
    /\ chain[call[c].lock].owner = [plan |-> call[c].plan, fence |-> call[c].seen]
    /\ chain[call[c].lock].state \in MutableOwnerStates
    /\ Goto(c, "ok")
    /\ UNCHANGED <<chain, journal>>

\* Fault: the lock is read after the receipt instead of before it.
BeginAdvanceFromLateRead(c) ==
    /\ At(c, "begin", "advance")
    /\ chain[Tip].state = "FREE"
    /\ AdvanceLock(Tip,
          [state |-> "PREPARED",
           generation |-> chain[Tip].generation + 1,
           owner |-> [plan |-> call[c].plan, fence |-> call[c].seen]])
    /\ Goto(c, "ok")
    /\ UNCHANGED journal

BeginAdvance(c) ==
    /\ At(c, "begin", "advance")
    /\ AdvanceLock(call[c].lock,
          [state |-> "PREPARED",
           generation |-> chain[call[c].lock].generation + 1,
           owner |-> [plan |-> call[c].plan, fence |-> call[c].seen]])
    /\ Goto(c, "ok")
    /\ UNCHANGED journal

-----------------------------------------------------------------------------
(***************************************************************************)
(* Commands of the owner: require_owner reads the lock, and the call goes  *)
(* on from that snapshot.                                                  *)
(***************************************************************************)
RequireOwner(c, cmd, p, arg, allowed, step) ==
    /\ cmd \in Commands
    /\ call[c] = Idle
    /\ OwnedAt(Tip, p)
    /\ chain[Tip].state \in allowed
    /\ call' = [call EXCEPT ![c] =
                   [Idle EXCEPT !.cmd = cmd, !.plan = p, !.arg = arg,
                                !.step = step, !.lock = Tip]]
    /\ UNCHANGED <<chain, journal>>

\* activate of an ACTIVE lock has nothing to do, so only PREPARED goes on.
ActivateRead(c, p) ==
    RequireOwner(c, "activate", p, Idle.arg, {"PREPARED"}, "advance")

\* Fault: publication opens before the preparations are done.
ActivateUnprepared(c) ==
    /\ At(c, "activate", "advance")
    /\ AdvanceLock(call[c].lock, Transition(call[c].lock, "ACTIVE"))
    /\ Return(c)
    /\ UNCHANGED journal

ActivateAdvance(c) ==
    /\ At(c, "activate", "advance")
    /\ PreparationsComplete(call[c].plan)
    /\ AdvanceLock(call[c].lock, Transition(call[c].lock, "ACTIVE"))
    /\ Return(c)
    /\ UNCHANGED journal

RecoverBeginRead(c, p) ==
    RequireOwner(c, "recover-begin", p, Idle.arg,
                 {"PREPARED", "ACTIVE", "RECOVERY_REQUIRED"}, "advance")

RecoverBeginAdvance(c) ==
    /\ At(c, "recover-begin", "advance")
    /\ AdvanceLock(call[c].lock, Transition(call[c].lock, "RECOVERING"))
    /\ Return(c)
    /\ UNCHANGED journal

NoteFailureRead(c, p, reason) ==
    RequireOwner(c, "note-failure", p, <<reason, Nothing>>,
                 MutableOwnerStates \cup {"BLOCKED"}, "record")

\* Fault: the reason itself is written as the lock state.
FailureStateOfReason(reason) == reason

FailureState(reason) ==
    IF reason \in BlockingFailures THEN "BLOCKED" ELSE "RECOVERY_REQUIRED"

\* The failure record names the lock commit; the state change follows it.
NoteFailureRecord(c) ==
    /\ At(c, "note-failure", "record")
    /\ EnsureExact(OwnedRecord(c, "failure"))
    /\ IF chain[call[c].lock].state = FailureState(call[c].arg[1])
       THEN Return(c)
       ELSE Goto(c, "advance")
    /\ UNCHANGED <<chain, planRecord, receipt>>

NoteFailureAdvance(c) ==
    /\ At(c, "note-failure", "advance")
    /\ AdvanceLock(call[c].lock,
                   Transition(call[c].lock, FailureState(call[c].arg[1])))
    /\ Return(c)
    /\ UNCHANGED journal

-----------------------------------------------------------------------------
(***************************************************************************)
(* Attempts and results.  An attempt is journaled before a registry is     *)
(* touched, its result after the registry was read back; a read-back that  *)
(* differs from the attempt fails the call.                                *)
(***************************************************************************)
\* The lock states in which a kind of attempt or its result may be written.
WritableStates(kind) ==
    CASE kind = "prepare-attempt" -> {"PREPARED"}
      [] kind \in {"attempt", "referrer-attempt"} -> {"ACTIVE"}
      [] OTHER -> {"ACTIVE", "RECOVERING"}

\* What a kind of attempt is about; backfill never writes to Docker Hub.
Objects(kind, p) ==
    CASE kind = "prepare-attempt" -> RequiredPreparations(p)
      [] kind \in {"attempt", "recovery-attempt"} -> RequiredRegistries(p)
      [] OTHER -> RequiredRegistries(p) \ {"ghcr"}

AttemptRead(c, p, kind, object, m) ==
    /\ object \in Objects(kind, p)
    /\ RequireOwner(c, kind, p, <<object, m>>, WritableStates(kind), "attempt")

CompleteRead(c, p, kind, object, m) ==
    /\ object \in Objects(kind, p)
    /\ RequireOwner(c, kind, p, <<object, m>>, WritableStates(kind), "complete")

WriteAttempt(c, kind) ==
    /\ At(c, kind, "attempt")
    /\ EnsureExact(OwnedRecord(c, kind))
    /\ Return(c)
    /\ UNCHANGED <<chain, planRecord, receipt>>

\* A result is a copy of the attempt it completes, lock commit included.
WriteResult(c, kind, attempt) ==
    /\ At(c, kind, "complete")
    /\ attempt \in records
    /\ SameRef(attempt, OwnedRecord(c, kind))
    /\ EnsureExact([attempt EXCEPT !.kind = ResultKind(kind)])
    /\ Return(c)
    /\ UNCHANGED <<chain, planRecord, receipt>>

PrepareAttempt(c) == WriteAttempt(c, "prepare-attempt")
PrepareComplete(c, attempt) == WriteResult(c, "prepare-attempt", attempt)
Attempt(c) == WriteAttempt(c, "attempt")
Complete(c, attempt) == WriteResult(c, "attempt", attempt)
ReferrerAttempt(c) == WriteAttempt(c, "referrer-attempt")
ReferrerComplete(c, attempt) == WriteResult(c, "referrer-attempt", attempt)

\* Recovery of a unit needs its publication attempt, ...
Attempted(c) == Exists(call[c].plan, "attempt", call[c].arg[1], call[c].arg[2])

\* Fault: recovery does not ask for the publication attempt.
RecoveryAttemptOfAnyUnit(c) == WriteAttempt(c, "recovery-attempt")

RecoveryAttempt(c) ==
    /\ Attempted(c)
    /\ WriteAttempt(c, "recovery-attempt")

\* ... and completes only the attempt written under the lock commit just read.
RecoveryComplete(c, attempt) ==
    /\ Attempted(c)
    /\ attempt = OwnedRecord(c, "recovery-attempt")
    /\ WriteResult(c, "recovery-attempt", attempt)

RecoveryReferrerAttempt(c) == WriteAttempt(c, "recovery-referrer-attempt")
RecoveryReferrerComplete(c, attempt) ==
    WriteResult(c, "recovery-referrer-attempt", attempt)

-----------------------------------------------------------------------------
(***************************************************************************)
(* finish: journal the terminal receipt, move the lock to the terminal     *)
(* state and then to FREE.                                                 *)
(***************************************************************************)
FinishReceipt(c) == [status |-> call[c].arg[1], result |-> call[c].arg[2]]
TerminalState(status) == IF status = "committed" THEN "COMMITTED" ELSE "RECOVERED"
\* Fault: a finish that was cut short cannot be run again.
UnfinishedStates(status) ==
    IF status = "committed" THEN {"ACTIVE"} ELSE MutableOwnerStates

FinishableStates(status) ==
    IF status = "committed" THEN {"ACTIVE", "COMMITTED"}
    ELSE MutableOwnerStates \cup {"RECOVERED"}

FinishReadReceipt(c, p, status, result) ==
    /\ "finish" \in Commands
    /\ call[c] = Idle
    /\ planRecord[p] # Nothing
    /\ call' = [call EXCEPT ![c] =
                   [Idle EXCEPT !.cmd = "finish", !.plan = p, !.step = "lock",
                                !.arg = <<status, result>>, !.seen = receipt[p]]]
    /\ UNCHANGED <<chain, journal>>

\* Fault: a free lock counts as finished whatever the receipt says.
FinishFreeWithoutReceipt(c) ==
    /\ At(c, "finish", "lock")
    /\ chain # <<>>
    /\ chain[Tip].state = "FREE"
    /\ Goto(c, "ok")
    /\ UNCHANGED <<chain, journal>>

FinishAlreadyFree(c) ==
    /\ At(c, "finish", "lock")
    /\ chain # <<>>
    /\ chain[Tip].state = "FREE"
    /\ call[c].seen = FinishReceipt(c)
    /\ Goto(c, "ok")
    /\ UNCHANGED <<chain, journal>>

FinishReadLock(c) ==
    /\ At(c, "finish", "lock")
    /\ OwnedAt(Tip, call[c].plan)
    /\ chain[Tip].state \in FinishableStates(call[c].arg[1])
    /\ call' = [call EXCEPT ![c].step = "record", ![c].lock = Tip]
    /\ UNCHANGED <<chain, journal>>

FinishWriteReceipt(c) ==
    LET p == call[c].plan
    IN  /\ At(c, "finish", "record")
        /\ call[c].arg[1] = "committed" => RequiredCommittedRecordsComplete(p)
        /\ receipt[p] \in {Nothing, FinishReceipt(c)}
        /\ receipt' = [receipt EXCEPT ![p] = FinishReceipt(c)]
        /\ Goto(c, "recheck")
        /\ UNCHANGED <<chain, planRecord, records>>

\* Fault: the owner is not checked again after the receipt was written.
FinishRecheckAnyOwner(c) ==
    /\ At(c, "finish", "recheck")
    /\ chain[Tip].state # "FREE"
    /\ call' = [call EXCEPT
                   ![c].step = IF chain[Tip].state = TerminalState(call[c].arg[1])
                               THEN "free" ELSE "terminal",
                   ![c].lock = Tip]
    /\ UNCHANGED <<chain, journal>>

\* The lock is read again and its owner is checked again; its state is not.
FinishRecheck(c) ==
    /\ At(c, "finish", "recheck")
    /\ OwnedAt(Tip, call[c].plan)
    /\ call' = [call EXCEPT
                   ![c].step = IF chain[Tip].state = TerminalState(call[c].arg[1])
                               THEN "free" ELSE "terminal",
                   ![c].lock = Tip]
    /\ UNCHANGED <<chain, journal>>

FinishTerminal(c) ==
    /\ At(c, "finish", "terminal")
    /\ AdvanceLock(call[c].lock,
                   Transition(call[c].lock, TerminalState(call[c].arg[1])))
    /\ call' = [call EXCEPT ![c].step = "free", ![c].lock = Tip + 1]
    /\ UNCHANGED journal

FinishFree(c) ==
    /\ At(c, "finish", "free")
    /\ AdvanceLock(call[c].lock,
                   [Transition(call[c].lock, "FREE") EXCEPT !.owner = Nothing])
    /\ Goto(c, "ok")
    /\ UNCHANGED journal

\* The process ends: it exits, a check or a request fails, or it is killed.
Stop(c) ==
    /\ call[c] # Idle
    /\ Return(c)
    /\ UNCHANGED <<chain, journal>>

-----------------------------------------------------------------------------
Begin(c) ==
    \/ \E p \in Plans : BeginPlanRecord(c, p)
    \/ BeginEnsureLock(c)
    \/ BeginReadLock(c)
    \/ BeginReadReceipt(c)
    \/ BeginAlreadyOwner(c)
    \/ BeginAdvance(c)

Lifecycle(c) ==
    \/ \E p \in Plans : \/ ActivateRead(c, p)
                        \/ RecoverBeginRead(c, p)
                        \/ \E reason \in Reasons : NoteFailureRead(c, p, reason)
    \/ ActivateAdvance(c)
    \/ RecoverBeginAdvance(c)
    \/ NoteFailureRecord(c)
    \/ NoteFailureAdvance(c)

Write(c) ==
    \/ PrepareAttempt(c)
    \/ Attempt(c)
    \/ ReferrerAttempt(c)
    \/ RecoveryAttempt(c)
    \/ RecoveryReferrerAttempt(c)
    \/ \E r \in records : \/ PrepareComplete(c, r)
                          \/ Complete(c, r)
                          \/ ReferrerComplete(c, r)
                          \/ RecoveryComplete(c, r)
                          \/ RecoveryReferrerComplete(c, r)

Publish(c) ==
    \/ \E p \in Plans, kind \in AttemptKinds \cap Commands, m \in Minors :
          \E object \in Objects(kind, p) : \/ AttemptRead(c, p, kind, object, m)
                                           \/ CompleteRead(c, p, kind, object, m)
    \/ Write(c)

Finish(c) ==
    \/ \E p \in Plans, status \in Statuses, result \in Results :
          FinishReadReceipt(c, p, status, result)
    \/ FinishAlreadyFree(c)
    \/ FinishReadLock(c)
    \/ FinishWriteReceipt(c)
    \/ FinishRecheck(c)
    \/ FinishTerminal(c)
    \/ FinishFree(c)

Next == \E c \in Callers : Begin(c) \/ Lifecycle(c) \/ Publish(c) \/ Finish(c) \/ Stop(c)

Spec == Init /\ [][Next]_vars

-----------------------------------------------------------------------------
(***************************************************************************)
(* Properties.                                                             *)
(***************************************************************************)
Steps == {"idle", "lock", "receipt", "advance", "ok", "record", "recheck",
          "terminal", "free", "attempt", "complete"}
Arguments == (PrepareKinds \cup Registries \cup FailureReasons \cup AllowedFinish
                  \cup {Nothing})
             \X (Minors \cup Results \cup {Nothing})
Calls == [cmd: AllCommands \cup {"none"}, plan: Plans \cup {Nothing},
          step: Steps, lock: Nat, arg: Arguments,
          seen: Fences \cup Receipts \cup {Nothing}]

\* Every lock commit, record, receipt and call has the fields and the values
\* that validate_lock_payload and the record validators accept.
TypeOK ==
    /\ chain \in Seq(Commits)
    /\ planRecord \in [Plans -> Fences \cup {Nothing}]
    /\ records \subseteq Records
    /\ receipt \in [Plans -> Receipts \cup {Nothing}]
    /\ call \in [Callers -> Calls]

Owned(n) == chain[n].state # "FREE"

\* Whatever calls raced to begin the same plan, the identity a lock commit
\* gives its owner is the one in the plan record, so that every later call of
\* that transaction is recognised as the owner.
OwnerIsJournaled ==
    \A n \in DOMAIN chain :
        Owned(n) => chain[n].owner = Owner(chain[n].owner.plan)

\* Fencing: a generation of the lock belongs to one transaction and a
\* transaction has one generation.  A finished transaction never gets the
\* lock again, however its calls and those of others interleave.
OneGenerationPerPlan ==
    \A m, n \in DOMAIN chain :
        Owned(m) /\ Owned(n) =>
            (chain[m].owner.plan = chain[n].owner.plan
                <=> chain[m].generation = chain[n].generation)

ReceiptFits(p, state) ==
    /\ receipt[p] # Nothing
    /\ state = TerminalState(receipt[p].status)

\* The lock is given up only from a terminal state that the receipt of its own
\* holder journals: a stale finish cannot release another owner, and a lock is
\* never released as COMMITTED over a receipt that says recovered.
ReleasedWithReceipt ==
    \A n \in DOMAIN chain :
        n > 1 /\ ~Owned(n) =>
            /\ Owned(n - 1)
            /\ ReceiptFits(chain[n - 1].owner.plan, chain[n - 1].state)

Phase(state) ==
    CASE state = "PREPARED" -> 1
      [] state = "ACTIVE" -> 2
      [] state \in {"RECOVERY_REQUIRED", "RECOVERING", "BLOCKED"} -> 3
      [] state \in {"COMMITTED", "RECOVERED"} -> 4
      [] state = "FREE" -> 5

\* Within a generation the lock only moves on: publication never resumes once
\* recovery or a failure was journaled, and nothing follows a terminal state
\* but the release, even when the calls that decide this raced.
LifecycleMovesOn ==
    \A n \in DOMAIN chain :
        n > 1 /\ Owned(n - 1) =>
            /\ chain[n].generation = chain[n - 1].generation
            /\ Phase(chain[n].state) >= Phase(chain[n - 1].state)
            /\ Phase(chain[n].state) = Phase(chain[n - 1].state)
                   => Phase(chain[n].state) = 3

LegitimateStates(kind) ==
    CASE kind \in {"prepare-attempt", "prepare-result"} -> {"PREPARED"}
      [] kind \in {"attempt", "result", "referrer-attempt", "referrer-result"}
            -> {"ACTIVE"}
      [] kind = "failure" -> MutableOwnerStates \cup {"BLOCKED"}
      [] OTHER -> {"ACTIVE", "RECOVERING"}

\* The audit trail is sound: each record names a lock commit under which its
\* own transaction was entitled to write it, even when the lock has moved on
\* or changed hands between the check and the write; a result names the same
\* commit as its attempt; and recovery is journaled only over a publication.
RecordsAreFenced ==
    \A r \in records :
        /\ OwnedAt(r.lock, r.plan)
        /\ chain[r.lock].state \in LegitimateStates(r.kind)
        /\ \A kind \in AttemptKinds :
              r.kind = ResultKind(kind) => [r EXCEPT !.kind = kind] \in records
        /\ r.kind = "recovery-attempt" => Exists(r.plan, "attempt", r.object, r.minor)

\* A registry alias is never journaled for mutation before every rollback pin
\* and staged image of the whole plan is journaled as done.
PublishedOnlyWhenPrepared ==
    \A r \in records :
        r.kind \in {"attempt", "referrer-attempt"} => PreparationsComplete(r.plan)

AllResults(p) ==
    {<<"prepare-result", k>> : k \in RequiredPreparations(p)}
    \cup {<<"result", g>> : g \in RequiredRegistries(p)}
    \cup (IF p \in Backfill THEN {} ELSE {<<"referrer-result", "dockerhub">>})

\* A committed receipt means that every registry write the plan calls for was
\* journaled as attempted and read back, for every minor.
CommittedIsComplete ==
    \A p \in Plans :
        receipt[p] # Nothing /\ receipt[p].status = "committed" =>
            \A m \in Minors : \A x \in AllResults(p) : Exists(p, x[1], x[2], m)

\* Exit status 0 is durable knowledge: when finish succeeds its own receipt is
\* journaled and its transaction does not hold the lock; when begin succeeds
\* its transaction has held the lock.
ExitZeroIsDurable ==
    \A c \in Callers :
        /\ At(c, "finish", "ok") => /\ receipt[call[c].plan] = FinishReceipt(c)
                                    /\ ~OwnedAt(Tip, call[c].plan)
        /\ At(c, "begin", "ok") => \E n \in DOMAIN chain : OwnedAt(n, call[c].plan)

\* The journal implements the ownership of module Ownership: the lock branch
\* is the holder and the receipt is the decision.
Holder == IF chain = <<>> \/ ~Owned(Tip) THEN Nothing ELSE chain[Tip].owner.plan
Outcome(p) == CASE receipt[p] = Nothing -> "open"
                [] receipt[p] # Nothing /\ receipt[p].status = "committed" -> "committed"
                [] OTHER -> "recovered"

Generation == IF chain = <<>> THEN 0 ELSE chain[Tip].generation
Decisions == [p \in Plans |-> Outcome(p)]

Abstract == INSTANCE Ownership WITH
    holder <- Holder, generation <- Generation, outcome <- Decisions

OwnershipIsImplemented == Abstract!Spec

(***************************************************************************)
(* Liveness.  Nothing in the repository retries a journal command by       *)
(* itself; what the code provides is that a finish cut short can be run    *)
(* again.  The fairness is that of one caller who repeats it until it      *)
(* exits 0: the call is made again and again and each of its steps is      *)
(* eventually let through, although the other callers interfere.           *)
(***************************************************************************)
Retrier == CHOOSE c \in Callers : TRUE

RepeatFinish(c, p) ==
    /\ receipt[p] # Nothing
    /\ FinishReadReceipt(c, p, receipt[p].status, receipt[p].result)

Fairness ==
    /\ \A p \in Plans : SF_vars(RepeatFinish(Retrier, p))
    /\ SF_vars(FinishReadLock(Retrier))
    /\ SF_vars(FinishWriteReceipt(Retrier))
    /\ SF_vars(FinishRecheck(Retrier))
    /\ SF_vars(FinishTerminal(Retrier))
    /\ SF_vars(FinishFree(Retrier))
    /\ WF_vars(Stop(Retrier))

FairSpec == Spec /\ Fairness

\* A transaction that reached a terminal state is eventually released, at
\* whichever point earlier finish calls were cut short.
TerminalIsReleased ==
    \A p \in Plans :
        (chain # <<>> /\ Holder = p /\ Phase(chain[Tip].state) = 4) ~> (Holder # p)

(***************************************************************************)
(* What the code says of itself and does not keep.                         *)
(***************************************************************************)
\* finish: "BLOCKED transaction cannot be released automatically".
BlockedIsNotReleased ==
    \A m, n \in DOMAIN chain :
        /\ m < n
        /\ chain[m].state = "BLOCKED"
        /\ chain[m].generation = chain[n].generation
        => Owned(n)

\* finish: "committed receipt requires ACTIVE transaction ownership".
CommittedOnlyFromActive ==
    \A n \in DOMAIN chain :
        n > 1 /\ chain[n].state = "COMMITTED" => chain[n - 1].state = "ACTIVE"

=============================================================================
