------------------------- MODULE JournalRecordsProofs -------------------------
(***************************************************************************)
(* What the records of the journal prove, for any number of plans,         *)
(* callers, minors and result files.                                       *)
(*                                                                         *)
(* Records are never removed and the lock branch only grows, so what a     *)
(* record claims stays true; what has to be shown is that it was true when *)
(* the record was written, which may be long after the check.  That a call *)
(* knows this is CallInv of module TransactionJournalProofs.  What links   *)
(* the publication to its preparation is the lock: a commit is ACTIVE only *)
(* when the preparations are complete, and an attempt names an ACTIVE one. *)
(***************************************************************************)
EXTENDS TransactionJournalProofs, SequenceTheorems

OpenedWhenPrepared ==
    \A n \in DOMAIN chain :
        chain[n].state = "ACTIVE" => PreparationsComplete(chain[n].owner.plan)

RecordsInv ==
    /\ RecordsAreFenced
    /\ OpenedWhenPrepared
    /\ PublishedOnlyWhenPrepared
    /\ CommittedIsComplete

-----------------------------------------------------------------------------
(***************************************************************************)
(* The kinds of records.                                                   *)
(***************************************************************************)
LEMMA ResultKindIsNew ==
    ASSUME NEW kind \in AttemptKinds
    PROVE  /\ ResultKind(kind) \in ResultKinds
           /\ LegitimateStates(ResultKind(kind)) = LegitimateStates(kind)
           /\ \A k \in AttemptKinds : ResultKind(k) = ResultKind(kind) => k = kind
<1>1. ResultKind(kind) \in ResultKinds BY DEF AttemptKinds, ResultKind, ResultKinds
<1>2. LegitimateStates(ResultKind(kind)) = LegitimateStates(kind)
  BY DEF AttemptKinds, ResultKind, LegitimateStates
<1>3. \A k \in AttemptKinds : ResultKind(k) = ResultKind(kind) => k = kind
  BY DEF AttemptKinds, ResultKind
<1> QED BY <1>1, <1>2, <1>3

LEMMA KindsDiffer == ResultKinds \cap (AttemptKinds \cup {"failure"}) = {}
BY DEF ResultKinds, AttemptKinds

LEMMA WritableIsLegitimate ==
    ASSUME NEW kind \in AttemptKinds
    PROVE  WritableStates(kind) = LegitimateStates(kind)
BY DEF AttemptKinds, WritableStates, LegitimateStates

-----------------------------------------------------------------------------
(***************************************************************************)
(* What has been recorded stays recorded.                                  *)
(***************************************************************************)
LEMMA ExistsStays ==
    ASSUME records \subseteq records', NEW p, NEW kind, NEW object, NEW m,
           Exists(p, kind, object, m)
    PROVE  Exists(p, kind, object, m)'
BY DEF Exists

LEMMA PreparationsStay ==
    ASSUME records \subseteq records', NEW p, PreparationsComplete(p)
    PROVE  PreparationsComplete(p)'
BY ExistsStays DEF PreparationsComplete, RequiredPreparations

LEMMA RequiredIsAll ==
    ASSUME NEW p \in Plans, RequiredCommittedRecordsComplete(p)
    PROVE  \A m \in Minors : \A x \in AllResults(p) : Exists(p, x[1], x[2], m)
<1> SUFFICES ASSUME NEW m \in Minors, NEW x \in AllResults(p)
             PROVE  Exists(p, x[1], x[2], m)
  OBVIOUS
<1>1. CASE \E k \in RequiredPreparations(p) : x = <<"prepare-result", k>>
  BY <1>1 DEF RequiredCommittedRecordsComplete, PreparationsComplete
<1>2. CASE \E g \in RequiredRegistries(p) : x = <<"result", g>>
  BY <1>2 DEF RequiredCommittedRecordsComplete, PublicationComplete, RequiredRegistries, Registries
<1>3. CASE p \notin Backfill /\ x = <<"referrer-result", "dockerhub">>
  BY <1>3 DEF RequiredCommittedRecordsComplete, ReferrersComplete
<1> QED BY <1>1, <1>2, <1>3 DEF AllResults

-----------------------------------------------------------------------------
(***************************************************************************)
(* The three ways in which a step changes what the invariant is about.     *)
(***************************************************************************)
\* A step that writes neither a record nor a receipt.
LEMMA LockKeeps ==
    ASSUME RecordsInv, Grows, UNCHANGED <<records, receipt>>,
           \A r \in records : r.plan \in Plans,
           \A n \in DOMAIN chain' \ DOMAIN chain :
               chain'[n].state = "ACTIVE" => PreparationsComplete(chain'[n].owner.plan)
    PROVE  RecordsInv'
<1> USE DEF RecordsInv
<1>1. RecordsAreFenced'
  <2> SUFFICES ASSUME NEW r \in records
               PROVE  /\ OwnedAt(r.lock, r.plan)'
                      /\ chain'[r.lock].state \in LegitimateStates(r.kind)
                      /\ \A kind \in AttemptKinds :
                            r.kind = ResultKind(kind) => [r EXCEPT !.kind = kind] \in records
                      /\ r.kind = "recovery-attempt" =>
                            Exists(r.plan, "attempt", r.object, r.minor)'
    BY DEF RecordsAreFenced
  <2>1. OwnedAt(r.lock, r.plan) /\ r.plan \in Plans BY DEF RecordsAreFenced
  <2>2. OwnedAt(r.lock, r.plan)' /\ chain'[r.lock] = chain[r.lock]
    BY <2>1 DEF Grows, OwnedAt, Owner
  <2> QED BY <2>2, ExistsStays DEF RecordsAreFenced
<1>2. OpenedWhenPrepared'
  BY PreparationsStay DEF OpenedWhenPrepared, Grows
<1>3. PublishedOnlyWhenPrepared'
  BY PreparationsStay DEF PublishedOnlyWhenPrepared
<1>4. CommittedIsComplete'
  BY ExistsStays DEF CommittedIsComplete, AllResults, RequiredPreparations, RequiredRegistries
<1> QED BY <1>1, <1>2, <1>3, <1>4

\* What must be so when a record is written.
Justified(r) ==
    /\ r \in Records
    /\ OwnedAt(r.lock, r.plan)
    /\ chain[r.lock].state \in LegitimateStates(r.kind)
    /\ \A kind \in AttemptKinds :
          r.kind = ResultKind(kind) => [r EXCEPT !.kind = kind] \in records
    /\ r.kind = "recovery-attempt" => Exists(r.plan, "attempt", r.object, r.minor)

LEMMA RecordKeeps ==
    ASSUME RecordsInv, UNCHANGED <<chain, planRecord, receipt>>,
           NEW rec, Justified(rec), records' = records \cup {rec}
    PROVE  RecordsInv'
<1> USE DEF RecordsInv
<1>0. records \subseteq records' OBVIOUS
<1>1. RecordsAreFenced'
  <2> SUFFICES ASSUME NEW r \in records'
               PROVE  /\ OwnedAt(r.lock, r.plan)
                      /\ chain[r.lock].state \in LegitimateStates(r.kind)
                      /\ \A kind \in AttemptKinds :
                            r.kind = ResultKind(kind) => [r EXCEPT !.kind = kind] \in records'
                      /\ r.kind = "recovery-attempt" =>
                            Exists(r.plan, "attempt", r.object, r.minor)'
    BY DEF RecordsAreFenced, OwnedAt, Owner
  <2>1. CASE r \in records BY <1>0, <2>1, ExistsStays DEF RecordsAreFenced
  <2>2. CASE r = rec BY <1>0, <2>2, ExistsStays DEF Justified
  <2> QED BY <2>1, <2>2
<1>2. OpenedWhenPrepared' BY <1>0, PreparationsStay DEF OpenedWhenPrepared
<1>3. PublishedOnlyWhenPrepared'
  <2>1. rec.kind \in {"attempt", "referrer-attempt"} => PreparationsComplete(rec.plan)
    <3>1. LegitimateStates("attempt") = {"ACTIVE"} /\ LegitimateStates("referrer-attempt") = {"ACTIVE"}
      BY DEF LegitimateStates
    <3> QED BY <3>1 DEF Justified, OwnedAt, Owner, OpenedWhenPrepared
  <2> QED BY <1>0, <2>1, PreparationsStay DEF PublishedOnlyWhenPrepared
<1>4. CommittedIsComplete'
  BY <1>0, ExistsStays DEF CommittedIsComplete, AllResults, RequiredPreparations, RequiredRegistries
<1> QED BY <1>1, <1>2, <1>3, <1>4

LEMMA ReceiptStepKeeps ==
    ASSUME RecordsInv, IInv, NEW c \in Callers, FinishWriteReceipt(c)
    PROVE  RecordsInv'
<1> USE DEF RecordsInv
<1>1. UNCHANGED <<chain, planRecord, records>> BY DEF FinishWriteReceipt
<1>2. PICK p, new : p = call[c].plan /\ new = FinishReceipt(c) OBVIOUS
<1>3. /\ receipt' = [receipt EXCEPT ![p] = new]
      /\ new.status = "committed" => RequiredCommittedRecordsComplete(p)
  BY <1>2 DEF FinishWriteReceipt, FinishReceipt
<1>4. RecordsAreFenced' /\ OpenedWhenPrepared' /\ PublishedOnlyWhenPrepared'
  BY <1>1 DEF RecordsAreFenced, OpenedWhenPrepared, PublishedOnlyWhenPrepared, OwnedAt, Owner,
              Exists, PreparationsComplete
<1>5. CommittedIsComplete'
  <2> SUFFICES ASSUME NEW q \in Plans, receipt'[q] # Nothing, receipt'[q].status = "committed"
               PROVE  \A m \in Minors : \A x \in AllResults(q) : Exists(q, x[1], x[2], m)
    BY <1>1 DEF CommittedIsComplete, AllResults, Exists
  <2>1. CASE q = p
    <3>1. receipt'[q] = new BY <1>3, <2>1 DEF IInv, TypeOK
    <3> QED BY <1>3, <2>1, <3>1, RequiredIsAll
  <2>2. CASE q # p
    <3>1. receipt'[q] = receipt[q] BY <1>3, <2>2 DEF IInv, TypeOK
    <3> QED BY <3>1 DEF CommittedIsComplete
  <2> QED BY <2>1, <2>2
<1> QED BY <1>4, <1>5

-----------------------------------------------------------------------------
(***************************************************************************)
(* The records that are written.                                           *)
(***************************************************************************)
LEMMA OwnedRecordIsJustified ==
    ASSUME IInv, NEW c \in Callers, NEW kind \in AttemptKinds \cup {"failure"},
           call[c].cmd = (IF kind = "failure" THEN "note-failure" ELSE kind),
           kind = "recovery-attempt" => Attempted(c)
    PROVE  Justified(OwnedRecord(c, kind))
<1>1. OwnerInv(c) /\ call[c].cmd \in OwnerCommands
  BY DEF IInv, CallInv, OwnerCommands
<1>2. /\ call[c].arg[1] \in PrepareKinds \cup Registries \cup FailureReasons
      /\ call[c].arg[2] \in Minors \cup {Nothing}
  BY <1>1, ReasonsAssumption DEF OwnerInv
<1>3. chain[call[c].lock].state \in LegitimateStates(kind)
  <2>1. CASE kind = "failure"
    BY <1>1, <2>1 DEF OwnerInv, LegitimateStates
  <2>2. CASE kind \in AttemptKinds
    <3>1. call[c].cmd = kind BY <2>2 DEF AttemptKinds
    <3> QED BY <1>1, <2>2, <3>1, WritableIsLegitimate DEF OwnerInv
  <2> QED BY <2>1, <2>2
<1> DEFINE rec == OwnedRecord(c, kind)
<1>4. rec \in Records BY <1>1, <1>2, OwnedRecordOK
<1>5. /\ rec.plan = call[c].plan /\ rec.kind = kind /\ rec.lock = call[c].lock
      /\ rec.object = call[c].arg[1] /\ rec.minor = call[c].arg[2]
  BY DEF OwnedRecord
<1>6. \A k \in AttemptKinds : rec.kind # ResultKind(k)
  BY <1>5, ResultKindIsNew, KindsDiffer
<1>7. OwnedAt(rec.lock, rec.plan) BY <1>1, <1>5 DEF OwnerInv
<1>8. rec.kind = "recovery-attempt" => Exists(rec.plan, "attempt", rec.object, rec.minor)
  BY <1>5 DEF Attempted
<1> QED
  <2> HIDE DEF rec
  <2>1. Justified(rec) BY <1>3, <1>4, <1>5, <1>6, <1>7, <1>8 DEF Justified
  <2> QED BY <2>1 DEF rec

LEMMA NoteFailureRecorded ==
    ASSUME RecordsInv, IInv, NEW c \in Callers, NoteFailureRecord(c)
    PROVE  RecordsInv'
<1>1. Justified(OwnedRecord(c, "failure"))
  BY OwnedRecordIsJustified DEF NoteFailureRecord, At, AttemptKinds
<1> QED BY <1>1, RecordKeeps DEF NoteFailureRecord, EnsureExact

LEMMA AttemptRecorded ==
    ASSUME RecordsInv, IInv, NEW c \in Callers, NEW kind \in AttemptKinds,
           WriteAttempt(c, kind), kind = "recovery-attempt" => Attempted(c)
    PROVE  RecordsInv'
<1>1. kind # "failure" BY DEF AttemptKinds
<1>2. Justified(OwnedRecord(c, kind))
  BY <1>1, OwnedRecordIsJustified DEF WriteAttempt, At
<1> QED BY <1>2, RecordKeeps DEF WriteAttempt, EnsureExact

LEMMA ResultRecorded ==
    ASSUME RecordsInv, IInv, NEW c \in Callers, NEW kind \in AttemptKinds, NEW attempt \in records,
           WriteResult(c, kind, attempt)
    PROVE  RecordsInv'
<1> DEFINE rec == [attempt EXCEPT !.kind = ResultKind(kind)]
<1>1. attempt \in Records /\ attempt.kind = kind
  BY DEF IInv, TypeOK, WriteResult, SameRef, OwnedRecord
<1>2. /\ rec \in Records /\ rec.plan = attempt.plan /\ rec.kind = ResultKind(kind)
      /\ rec.lock = attempt.lock /\ [rec EXCEPT !.kind = kind] = attempt
  BY <1>1, ResultKindIsNew DEF Records
<1>3. OwnedAt(attempt.lock, attempt.plan) /\ chain[attempt.lock].state \in LegitimateStates(kind)
  BY <1>1 DEF RecordsInv, RecordsAreFenced
<1>4. rec.kind # "recovery-attempt"
  BY <1>2, ResultKindIsNew, KindsDiffer DEF AttemptKinds
<1>5. records' = records \cup {rec} /\ UNCHANGED <<chain, planRecord, receipt>>
  BY DEF WriteResult, EnsureExact
<1>6. Justified(rec)
  <2> HIDE DEF rec
  <2> QED BY <1>2, <1>3, <1>4, ResultKindIsNew DEF Justified
<1> QED
  <2> HIDE DEF rec
  <2> QED BY <1>5, <1>6, RecordKeeps

LEMMA WritesKeep ==
    ASSUME RecordsInv, IInv, NEW c \in Callers, Write(c)
    PROVE  RecordsInv'
<1>1. ASSUME NEW kind \in AttemptKinds, WriteAttempt(c, kind),
             kind = "recovery-attempt" => Attempted(c)
      PROVE  RecordsInv'
  BY <1>1, AttemptRecorded
<1>2. ASSUME NEW kind \in AttemptKinds, NEW r \in records, WriteResult(c, kind, r)
      PROVE  RecordsInv'
  BY <1>2, ResultRecorded
<1>3. CASE PrepareAttempt(c) BY <1>1, <1>3 DEF PrepareAttempt, AttemptKinds
<1>4. CASE Attempt(c) BY <1>1, <1>4 DEF Attempt, AttemptKinds
<1>5. CASE ReferrerAttempt(c) BY <1>1, <1>5 DEF ReferrerAttempt, AttemptKinds
<1>6. CASE RecoveryAttempt(c) BY <1>1, <1>6 DEF RecoveryAttempt, AttemptKinds
<1>7. CASE RecoveryReferrerAttempt(c) BY <1>1, <1>7 DEF RecoveryReferrerAttempt, AttemptKinds
<1>8. CASE \E r \in records : \/ PrepareComplete(c, r) \/ Complete(c, r) \/ ReferrerComplete(c, r)
                              \/ RecoveryComplete(c, r) \/ RecoveryReferrerComplete(c, r)
  BY <1>2, <1>8 DEF PrepareComplete, Complete, ReferrerComplete, RecoveryComplete,
                    RecoveryReferrerComplete, AttemptKinds
<1> QED BY <1>3, <1>4, <1>5, <1>6, <1>7, <1>8 DEF Write

-----------------------------------------------------------------------------
(***************************************************************************)
(* The steps of the lock.                                                  *)
(***************************************************************************)
LEMMA PlansOfRecords == ASSUME IInv PROVE \A r \in records : r.plan \in Plans
BY DEF IInv, TypeOK, Records

LEMMA QuietKeeps ==
    ASSUME RecordsInv, IInv, UNCHANGED <<chain, planRecord, records, receipt>>
    PROVE  RecordsInv'
BY LockKeeps, PlansOfRecords DEF Grows

LEMMA AppendedKeeps ==
    ASSUME RecordsInv, IInv, NEW x, chain' = Append(chain, x), UNCHANGED journal,
           x.state = "ACTIVE" => PreparationsComplete(x.owner.plan)
    PROVE  RecordsInv'
<1> DEFINE S == Commits \cup {x}
<1>1. chain \in Seq(S) BY DEF IInv, TypeOK
<1>2. /\ \A n \in DOMAIN chain : n \in DOMAIN chain' /\ chain'[n] = chain[n]
      /\ \A n \in DOMAIN chain' \ DOMAIN chain : chain'[n] = x
  <2> HIDE DEF S
  <2> QED BY <1>1, AppendProperties
<1>3. Grows BY <1>2 DEF Grows, journal
<1> QED BY <1>2, <1>3, LockKeeps, PlansOfRecords DEF journal

LEMMA TransitionAppended ==
    ASSUME RecordsInv, IInv, NEW n, NEW p \in Plans, OwnedAt(n, p), NEW s,
           AdvanceLock(n, Transition(n, s)), UNCHANGED journal,
           s = "ACTIVE" => PreparationsComplete(p)
    PROVE  RecordsInv'
<1>1. chain[n] \in Commits /\ chain[n].owner.plan = p BY DEF OwnedAt, Owner, IInv, TypeOK
<1>2. Transition(n, s).state = s /\ Transition(n, s).owner.plan = p
  BY <1>1 DEF Transition, Commits
<1> QED BY <1>2, AppendedKeeps DEF AdvanceLock

LEMMA BeginKeepsRecords ==
    ASSUME RecordsInv, IInv, NEW c \in Callers, Begin(c)
    PROVE  RecordsInv'
<1>1. CASE \E p \in Plans : BeginPlanRecord(c, p)
  <2>1. PICK p \in Plans : BeginPlanRecord(c, p) BY <1>1
  <2>2. Grows BY <2>1 DEF BeginPlanRecord, Grows, IInv, TypeOK
  <2> QED BY <2>1, <2>2, LockKeeps, PlansOfRecords DEF BeginPlanRecord
<1>2. CASE BeginEnsureLock(c)
  <2> DEFINE x == [state |-> "FREE", generation |-> 0, owner |-> Nothing]
  <2>1. x.state # "ACTIVE" /\ chain' = Append(chain, x) /\ UNCHANGED journal
    BY <1>2 DEF BeginEnsureLock, journal
  <2> HIDE DEF x
  <2> QED BY <2>1, AppendedKeeps
<1>3. CASE BeginReadLock(c) BY <1>3, QuietKeeps DEF BeginReadLock, journal
<1>4. CASE BeginReadReceipt(c) BY <1>4, QuietKeeps DEF BeginReadReceipt, journal
<1>5. CASE BeginAlreadyOwner(c) BY <1>5, QuietKeeps DEF BeginAlreadyOwner, journal
<1>6. CASE BeginAdvance(c)
  <2> DEFINE x == [state |-> "PREPARED",
                   generation |-> chain[call[c].lock].generation + 1,
                   owner |-> [plan |-> call[c].plan, fence |-> call[c].seen]]
  <2>1. x.state # "ACTIVE" /\ chain' = Append(chain, x) /\ UNCHANGED journal
    BY <1>6 DEF BeginAdvance, AdvanceLock
  <2> HIDE DEF x
  <2> QED BY <2>1, AppendedKeeps
<1> QED BY <1>1, <1>2, <1>3, <1>4, <1>5, <1>6 DEF Begin

LEMMA LifecycleKeepsRecords ==
    ASSUME RecordsInv, IInv, NEW c \in Callers, Lifecycle(c)
    PROVE  RecordsInv'
<1>1. CASE UNCHANGED <<chain, planRecord, records, receipt>> BY <1>1, QuietKeeps
<1>2. CASE ActivateAdvance(c)
  <2>1. OwnerInv(c) BY <1>2 DEF ActivateAdvance, At, IInv, CallInv, OwnerCommands
  <2> QED BY <1>2, <2>1, TransitionAppended DEF ActivateAdvance, OwnerInv
<1>3. CASE RecoverBeginAdvance(c)
  <2>1. OwnerInv(c) BY <1>3 DEF RecoverBeginAdvance, At, IInv, CallInv, OwnerCommands
  <2> QED BY <1>3, <2>1, TransitionAppended DEF RecoverBeginAdvance, OwnerInv
<1>4. CASE NoteFailureAdvance(c)
  <2>1. OwnerInv(c) BY <1>4 DEF NoteFailureAdvance, At, IInv, CallInv, OwnerCommands
  <2>2. FailureState(call[c].arg[1]) # "ACTIVE" BY DEF FailureState
  <2> QED BY <1>4, <2>1, <2>2, TransitionAppended DEF NoteFailureAdvance, OwnerInv
<1>5. CASE NoteFailureRecord(c) BY <1>5, NoteFailureRecorded
<1>6. \A p \in Plans :
         ActivateRead(c, p) \/ RecoverBeginRead(c, p) \/ (\E r \in Reasons : NoteFailureRead(c, p, r))
            => UNCHANGED <<chain, planRecord, records, receipt>>
  BY DEF ActivateRead, RecoverBeginRead, NoteFailureRead, RequireOwner, journal
<1> QED BY <1>1, <1>2, <1>3, <1>4, <1>5, <1>6 DEF Lifecycle

LEMMA PublishKeepsRecords ==
    ASSUME RecordsInv, IInv, NEW c \in Callers, Publish(c)
    PROVE  RecordsInv'
<1>1. CASE Write(c) BY <1>1, WritesKeep
<1>2. ASSUME NEW p \in Plans, NEW kind, NEW m \in Minors, NEW object,
             AttemptRead(c, p, kind, object, m) \/ CompleteRead(c, p, kind, object, m)
      PROVE  UNCHANGED <<chain, planRecord, records, receipt>>
  BY <1>2 DEF AttemptRead, CompleteRead, RequireOwner, journal
<1> QED BY <1>1, <1>2, QuietKeeps DEF Publish

LEMMA FinishKeepsRecords ==
    ASSUME RecordsInv, IInv, NEW c \in Callers, Finish(c)
    PROVE  RecordsInv'
<1>1. CASE UNCHANGED <<chain, planRecord, records, receipt>> BY <1>1, QuietKeeps
<1>2. CASE FinishWriteReceipt(c) BY <1>2, ReceiptStepKeeps
<1>3. CASE FinishTerminal(c)
  <2>1. FinishInv(c) BY <1>3, FinishKnows DEF FinishTerminal, At
  <2>2. TerminalState(call[c].arg[1]) # "ACTIVE" BY DEF TerminalState
  <2> QED BY <1>3, <2>1, <2>2, TransitionAppended DEF FinishTerminal, At, FinishInv
<1>4. CASE FinishFree(c)
  <2> DEFINE x == [Transition(call[c].lock, "FREE") EXCEPT !.owner = Nothing]
  <2>1. FinishInv(c) /\ call[c].lock \in DOMAIN chain
    BY <1>4, FinishKnows DEF FinishFree, At, FinishInv, OwnedAt
  <2>2. x.state = "FREE" BY <2>1, CommitOK DEF Transition, Commits, IInv, TypeOK
  <2>3. chain' = Append(chain, x) /\ UNCHANGED journal BY <1>4 DEF FinishFree, AdvanceLock
  <2> HIDE DEF x
  <2> QED BY <2>2, <2>3, AppendedKeeps
<1>5. \A p \in Plans, status \in Statuses, result \in Results :
         FinishReadReceipt(c, p, status, result) => UNCHANGED <<chain, planRecord, records, receipt>>
  BY DEF FinishReadReceipt, journal
<1>6. FinishAlreadyFree(c) \/ FinishReadLock(c) \/ FinishRecheck(c)
         => UNCHANGED <<chain, planRecord, records, receipt>>
  BY DEF FinishAlreadyFree, FinishReadLock, FinishRecheck, journal
<1> QED BY <1>1, <1>2, <1>3, <1>4, <1>5, <1>6 DEF Finish

-----------------------------------------------------------------------------
LEMMA RecordsInitially == Init => RecordsInv
BY DEF Init, RecordsInv, RecordsAreFenced, OpenedWhenPrepared, PublishedOnlyWhenPrepared,
       CommittedIsComplete

LEMMA RecordsInductive == Spec => []RecordsInv
<1>1. IInv /\ RecordsInv /\ [Next]_vars => RecordsInv'
  <2> SUFFICES ASSUME IInv, RecordsInv, [Next]_vars PROVE RecordsInv' OBVIOUS
  <2>1. CASE UNCHANGED vars BY <2>1, QuietKeeps DEF vars
  <2>2. CASE Next
    <3>1. PICK c \in Callers : Begin(c) \/ Lifecycle(c) \/ Publish(c) \/ Finish(c) \/ Stop(c)
      BY <2>2 DEF Next
    <3>2. CASE Stop(c) BY <3>2, QuietKeeps DEF Stop, journal
    <3> QED BY <3>1, <3>2, BeginKeepsRecords, LifecycleKeepsRecords, PublishKeepsRecords,
               FinishKeepsRecords
  <2> QED BY <2>1, <2>2
<1> QED BY RecordsInitially, <1>1, Invariant, PTL DEF Spec

\* Every record of the journal, whenever it reached it, was written by a transaction that was
\* entitled to it under the lock commit it names; a result has its attempt, a recovery its
\* publication.
THEOREM Fenced == Spec => []RecordsAreFenced
<1>1. RecordsInv => RecordsAreFenced BY DEF RecordsInv
<1> QED BY RecordsInductive, <1>1, PTL

\* No registry write of a publication is journaled before all of the plan's rollback pins and
\* staged images are, though activate and attempt are calls of different processes.
THEOREM Prepared == Spec => []PublishedOnlyWhenPrepared
<1>1. RecordsInv => PublishedOnlyWhenPrepared BY DEF RecordsInv
<1> QED BY RecordsInductive, <1>1, PTL

\* A committed receipt has every result that the plan calls for behind it.
THEOREM Completed == Spec => []CommittedIsComplete
<1>1. RecordsInv => CommittedIsComplete BY DEF RecordsInv
<1> QED BY RecordsInductive, <1>1, PTL
=============================================================================
