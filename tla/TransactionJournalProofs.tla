---------------------- MODULE TransactionJournalProofs ----------------------
(***************************************************************************)
(* Proofs about the transaction journal, for any number of plans, callers, *)
(* minors and result files.                                                *)
(*                                                                         *)
(* The argument.  The journal only grows: commits are appended to the lock *)
(* branch, a plan record and a receipt are written once.  So what a call   *)
(* has read stays true of the commits it read (CallInv), whatever others   *)
(* do, and only the caller's own step can disturb it.  What is true of the *)
(* branch (ChainInv) changes only when a commit is appended, and a commit  *)
(* is appended only onto the one its caller read, so CallInv says what the *)
(* new commit follows.                                                     *)
(***************************************************************************)
EXTENDS TransactionJournal, TLAPS

\* The lock is owned by plan p as of commit n.
By(n, p) == Owned(n) /\ chain[n].owner.plan = p

OwnerCommands == {"activate", "recover-begin", "note-failure"} \cup AttemptKinds

BeginInv(c) ==
    /\ call[c].plan \in Plans
    /\ call[c].step \in {"lock", "receipt", "advance", "ok"}
    /\ call[c].seen \in Fences
    /\ call[c].seen = planRecord[call[c].plan]
    /\ call[c].step \in {"receipt", "advance"} => call[c].lock \in DOMAIN chain
    /\ call[c].step = "advance" =>
          /\ ~Owned(call[c].lock)
          /\ \A n \in 1 .. call[c].lock : ~By(n, call[c].plan)
    /\ call[c].step = "ok" => \E n \in DOMAIN chain : OwnedAt(n, call[c].plan)

OwnerInv(c) ==
    /\ call[c].plan \in Plans
    /\ OwnedAt(call[c].lock, call[c].plan)
    /\ call[c].cmd = "activate" =>
          /\ call[c].step = "advance"
          /\ chain[call[c].lock].state = "PREPARED"
    /\ call[c].cmd = "recover-begin" =>
          /\ call[c].step = "advance"
          /\ chain[call[c].lock].state \in {"PREPARED", "ACTIVE", "RECOVERY_REQUIRED"}
    /\ call[c].cmd = "note-failure" =>
          /\ call[c].step \in {"record", "advance"}
          /\ call[c].arg[1] \in Reasons
          /\ call[c].arg[2] = Nothing
          /\ chain[call[c].lock].state \in MutableOwnerStates \cup {"BLOCKED"}
    /\ call[c].cmd \in AttemptKinds =>
          /\ call[c].step \in {"attempt", "complete"}
          /\ call[c].arg[1] \in PrepareKinds \cup Registries
          /\ call[c].arg[2] \in Minors
          /\ chain[call[c].lock].state \in WritableStates(call[c].cmd)

FinishInv(c) ==
    /\ call[c].plan \in Plans
    /\ call[c].step \in {"lock", "record", "recheck", "terminal", "free", "ok"}
    /\ call[c].arg[1] \in AllowedFinish
    /\ call[c].arg[2] \in Results
    /\ call[c].seen # Nothing => receipt[call[c].plan] = call[c].seen
    /\ call[c].step \in {"record", "terminal", "free"} =>
          OwnedAt(call[c].lock, call[c].plan)
    /\ call[c].step \in {"recheck", "terminal", "free", "ok"} =>
          receipt[call[c].plan] = FinishReceipt(c)
    /\ call[c].step = "terminal" =>
          chain[call[c].lock].state \in MutableOwnerStates \cup {"BLOCKED"}
    /\ call[c].step = "free" =>
          chain[call[c].lock].state = TerminalState(call[c].arg[1])
    /\ call[c].step = "ok" =>
          \E m, n \in DOMAIN chain : m < n /\ By(m, call[c].plan) /\ ~By(n, call[c].plan)

CallInv(c) ==
    /\ call[c].cmd = "none" => call[c] = Idle
    /\ call[c].cmd = "begin" => BeginInv(c)
    /\ call[c].cmd \in OwnerCommands => OwnerInv(c)
    /\ call[c].cmd = "finish" => FinishInv(c)

\* The parts of ChainInv that are not properties of module TransactionJournal.
OwnedHasOwner ==
    \A n \in DOMAIN chain : Owned(n) <=> chain[n].owner # Nothing
LostOnlyWithReceipt ==
    \A m, n \in DOMAIN chain : \A p \in Plans :
        m < n /\ By(m, p) /\ ~By(n, p) => receipt[p] # Nothing
NeverRegained ==
    \A k, m, n \in DOMAIN chain : \A p \in Plans :
        k < m /\ m < n /\ By(k, p) /\ ~By(m, p) => ~By(n, p)
GenerationsGrow ==
    \A m, n \in DOMAIN chain : m < n => chain[m].generation <= chain[n].generation
ReceiptOfOwner ==
    \A p \in Plans : receipt[p] # Nothing => \E n \in DOMAIN chain : By(n, p)
TerminalHasReceipt ==
    \A n \in DOMAIN chain :
        chain[n].state \in {"COMMITTED", "RECOVERED"} =>
            ReceiptFits(chain[n].owner.plan, chain[n].state)

ChainInv ==
    /\ OwnedHasOwner
    /\ OwnerIsJournaled
    /\ LostOnlyWithReceipt
    /\ NeverRegained
    /\ GenerationsGrow
    /\ OneGenerationPerPlan
    /\ ReceiptOfOwner
    /\ TerminalHasReceipt
    /\ ReleasedWithReceipt
    /\ LifecycleMovesOn

IInv == TypeOK /\ ChainInv /\ \A c \in Callers : CallInv(c)

-----------------------------------------------------------------------------
(***************************************************************************)
(* The journal only grows.                                                 *)
(***************************************************************************)
Grows ==
    /\ \A n \in DOMAIN chain : n \in DOMAIN chain' /\ chain'[n] = chain[n]
    /\ \A p \in Plans : planRecord[p] # Nothing => planRecord'[p] = planRecord[p]
    /\ \A p \in Plans : receipt[p] # Nothing => receipt'[p] = receipt[p]

\* What a call has read stays true while other calls move on.
LEMMA CallStable ==
    ASSUME TypeOK, Grows,
           NEW c \in Callers, CallInv(c), call'[c] = call[c]
    PROVE  CallInv(c)'
<1>1. \A n \in DOMAIN chain, p \in Plans : OwnedAt(n, p) => OwnedAt(n, p)'
  BY DEF Grows, OwnedAt, Owner
<1>2. \A n \in DOMAIN chain, p \in Plans : By(n, p)' <=> By(n, p)
  BY DEF Grows, By, Owned
<1>3. call[c].cmd = "begin" => BeginInv(c)'
  <2>1. SUFFICES ASSUME call[c].cmd = "begin"
                 PROVE  BeginInv(c)'
    OBVIOUS
  <2>2. BeginInv(c)
    BY <2>1 DEF CallInv
  <2>3. /\ call[c].plan \in Plans
        /\ call[c].step \in {"lock", "receipt", "advance", "ok"}
        /\ call[c].seen \in Fences
        /\ call[c].seen = planRecord[call[c].plan]
    BY <2>2 DEF BeginInv
  <2>4. planRecord'[call[c].plan] = planRecord[call[c].plan]
    BY <2>3, NothingAssumption DEF Grows, Fences
  <2>5. call[c].step \in {"receipt", "advance"} => call[c].lock \in DOMAIN chain'
    BY <2>2 DEF BeginInv, Grows
  <2>6. ASSUME call[c].step = "advance"
        PROVE  /\ ~Owned(call[c].lock)'
               /\ \A n \in 1 .. call[c].lock : ~By(n, call[c].plan)'
    <3>1. call[c].lock \in DOMAIN chain /\ ~Owned(call[c].lock)
      BY <2>2, <2>6 DEF BeginInv
    <3>2. 1 .. call[c].lock \subseteq DOMAIN chain
      BY <3>1 DEF TypeOK
    <3> QED
      BY <1>2, <2>2, <2>3, <2>6, <3>1, <3>2 DEF BeginInv, Grows, Owned
  <2>7. call[c].step = "ok" => \E n \in DOMAIN chain' : OwnedAt(n, call[c].plan)'
    BY <1>1, <2>2, <2>3 DEF BeginInv, Grows
  <2> QED
    BY <2>3, <2>4, <2>5, <2>6, <2>7 DEF BeginInv
<1>4. call[c].cmd \in OwnerCommands => OwnerInv(c)'
  <2>1. SUFFICES ASSUME call[c].cmd \in OwnerCommands
                 PROVE  OwnerInv(c)'
    OBVIOUS
  <2>2. OwnerInv(c)
    BY <2>1 DEF CallInv
  <2>3. call[c].plan \in Plans /\ call[c].lock \in DOMAIN chain
    BY <2>2 DEF OwnerInv, OwnedAt
  <2>4. chain'[call[c].lock] = chain[call[c].lock] /\ OwnedAt(call[c].lock, call[c].plan)'
    BY <1>1, <2>2, <2>3 DEF OwnerInv, Grows
  <2> QED
    BY <2>2, <2>4 DEF OwnerInv
<1>5. call[c].cmd = "finish" => FinishInv(c)'
  <2>1. SUFFICES ASSUME call[c].cmd = "finish"
                 PROVE  FinishInv(c)'
    OBVIOUS
  <2>2. FinishInv(c)
    BY <2>1 DEF CallInv
  <2>3. call[c].plan \in Plans /\ FinishReceipt(c) # Nothing
    <3>1. FinishReceipt(c) \in Receipts
      BY <2>2 DEF FinishInv, FinishReceipt, Receipts
    <3> QED
      BY <2>2, <3>1, NothingAssumption DEF FinishInv
  <2>4. call[c].step \in {"record", "terminal", "free"} =>
           /\ OwnedAt(call[c].lock, call[c].plan)'
           /\ chain'[call[c].lock] = chain[call[c].lock]
    BY <1>1, <2>2, <2>3 DEF FinishInv, OwnedAt, Grows
  <2>5. FinishReceipt(c)' = FinishReceipt(c)
    BY DEF FinishReceipt
  <2>6. call[c].step = "ok" =>
           \E m, n \in DOMAIN chain' :
              m < n /\ By(m, call[c].plan)' /\ ~By(n, call[c].plan)'
    BY <1>2, <2>2, <2>3 DEF FinishInv, Grows
  <2> QED
    BY <2>2, <2>3, <2>4, <2>5, <2>6 DEF FinishInv, Grows
<1>6. Idle' = Idle
  BY DEF Idle
<1> QED
  BY <1>3, <1>4, <1>5, <1>6 DEF CallInv

-----------------------------------------------------------------------------
(***************************************************************************)
(* Appending a commit to the lock branch.                                  *)
(***************************************************************************)
LEMMA CommitOK ==
    ASSUME TypeOK, NEW n \in DOMAIN chain
    PROVE  /\ chain[n] \in Commits
           /\ chain[n].state \in LockStates
           /\ chain[n].generation \in Nat
           /\ chain[n].owner \in Owners \cup {Nothing}
<1>1. chain[n] \in Commits
  BY DEF TypeOK
<1> QED
  BY <1>1 DEF Commits

LEMMA OwnerOK ==
    ASSUME TypeOK, OwnedHasOwner, NEW n \in DOMAIN chain, Owned(n)
    PROVE  /\ chain[n].owner \in Owners
           /\ chain[n].owner.plan \in Plans
           /\ chain[n].owner.fence \in Fences
<1>1. chain[n].owner \in Owners
  BY CommitOK DEF OwnedHasOwner
<1> QED
  BY <1>1 DEF Owners

LEMMA Appended ==
    ASSUME TypeOK, NEW x \in Commits, chain' = Append(chain, x),
           UNCHANGED <<planRecord, receipt>>
    PROVE  /\ Grows
           /\ chain' \in Seq(Commits)
           /\ Tip \in Nat
           /\ DOMAIN chain = 1 .. Tip
           /\ DOMAIN chain' = 1 .. (Tip + 1)
           /\ \A n \in 1 .. Tip : chain'[n] = chain[n]
           /\ chain'[Tip + 1] = x
           /\ Tip' = Tip + 1
BY DEF TypeOK, Grows, Tip

\* A commit that keeps the owner and moves the state on keeps ChainInv.
LEMMA TransitionKeeps ==
    ASSUME TypeOK, ChainInv, NEW p \in Plans, OwnedAt(Tip, p),
           NEW s \in LockStates \ {"FREE"},
           \/ Phase(s) > Phase(chain[Tip].state)
           \/ Phase(s) = 3 /\ Phase(chain[Tip].state) = 3,
           s \in {"COMMITTED", "RECOVERED"} => ReceiptFits(p, s),
           chain' = Append(chain, Transition(Tip, s)),
           UNCHANGED <<planRecord, receipt>>
    PROVE  ChainInv'
<1>0. PICK T \in Nat : T = Tip
  BY DEF TypeOK, Tip
<1> DEFINE x == Transition(T, s)
           N == T + 1
<1>1. /\ T \in DOMAIN chain
      /\ chain[T] \in Commits
      /\ chain[T].owner = Owner(p)
      /\ Owner(p) # Nothing
  <2>1. T \in DOMAIN chain /\ chain[T] \in Commits /\ chain[T].owner = Owner(p)
    BY <1>0 DEF OwnedAt, TypeOK
  <2>2. Owner(p) \in Owners
    BY DEF OwnedAt, Owner, Owners, TypeOK
  <2> QED
    BY <2>1, <2>2, NothingAssumption
<1>2. /\ x \in Commits
      /\ x.state = s
      /\ x.owner = Owner(p)
      /\ x.generation = chain[T].generation
  BY <1>1 DEF Transition, Commits
<1>3. /\ Grows
      /\ T \in Nat
      /\ DOMAIN chain = 1 .. T
      /\ DOMAIN chain' = 1 .. N
      /\ \A n \in 1 .. T : chain'[n] = chain[n]
      /\ chain'[N] = x
  BY <1>0, <1>2, Appended
<1>4. Owned(T) /\ Owner(p).plan = p
  BY <1>1 DEF ChainInv, OwnedHasOwner, Owner
<1>5. /\ \A n \in 1 .. T : Owned(n)' <=> Owned(n)
      /\ Owned(N)'
      /\ \A n \in 1 .. T : chain'[n].owner = chain[n].owner
      /\ chain'[N].owner = chain[T].owner
      /\ chain'[N].generation = chain[T].generation
  <2>1. \A n \in 1 .. T : Owned(n)' <=> Owned(n)
    BY <1>3 DEF Owned
  <2>2. Owned(N)'
    BY <1>2, <1>3 DEF Owned
  <2>3. \A n \in 1 .. T : chain'[n].owner = chain[n].owner
    BY <1>3
  <2>4. /\ chain'[N].owner = chain[T].owner
        /\ chain'[N].generation = chain[T].generation
    BY <1>1, <1>2, <1>3
  <2> QED
    BY <2>1, <2>2, <2>3, <2>4
<1>6. /\ \A n \in 1 .. T, q \in Plans : By(n, q)' <=> By(n, q)
      /\ \A q \in Plans : By(N, q)' <=> By(T, q)
  <2>1. \A n \in 1 .. T, q \in Plans : By(n, q)' <=> By(n, q)
    BY <1>3, <1>5 DEF By
  <2>2. \A q \in Plans : By(N, q)' <=> By(T, q)
    BY <1>4, <1>5 DEF By
  <2> QED
    BY <2>1, <2>2
<1>7. OwnedHasOwner'
  <2>1. \A n \in 1 .. T : Owned(n) <=> chain[n].owner # Nothing
    BY <1>3 DEF ChainInv, OwnedHasOwner
  <2>2. \A n \in 1 .. N : n \in 1 .. T \/ n = N
    BY <1>3
  <2>3. \A n \in 1 .. N : Owned(n)' <=> chain'[n].owner # Nothing
    BY <1>1, <1>5, <2>1, <2>2
  <2> QED
    BY <1>3, <2>3 DEF OwnedHasOwner
<1>8. OwnerIsJournaled'
  BY <1>1, <1>3, <1>4, <1>5 DEF ChainInv, OwnerIsJournaled, Owner
<1>9. LostOnlyWithReceipt'
  <2>1. \A m, n \in 1 .. T, q \in Plans :
            m < n /\ By(m, q) /\ ~By(n, q) => receipt[q] # Nothing
    BY <1>3 DEF ChainInv, LostOnlyWithReceipt
  <2>2. \A m, n \in 1 .. N, q \in Plans :
            m < n /\ By(m, q)' /\ ~By(n, q)' => receipt[q] # Nothing
    BY <1>1, <1>3, <1>6, <2>1
  <2> QED
    BY <1>3, <2>2 DEF LostOnlyWithReceipt
<1>10. NeverRegained'
  <2>1. \A k, m, n \in 1 .. T, q \in Plans :
            k < m /\ m < n /\ By(k, q) /\ ~By(m, q) => ~By(n, q)
    BY <1>3 DEF ChainInv, NeverRegained
  <2>2. \A k, m, n \in 1 .. N, q \in Plans :
            k < m /\ m < n /\ By(k, q)' /\ ~By(m, q)' => ~By(n, q)'
    BY <1>1, <1>3, <1>6, <2>1
  <2> QED
    BY <1>3, <2>2 DEF NeverRegained
<1>11. GenerationsGrow'
  BY <1>1, <1>3, <1>5 DEF ChainInv, GenerationsGrow, TypeOK, Commits
<1>12. OneGenerationPerPlan'
  BY <1>1, <1>3, <1>4, <1>5 DEF ChainInv, OneGenerationPerPlan
<1>13. ReceiptOfOwner'
  BY <1>3, <1>6 DEF ChainInv, ReceiptOfOwner
<1>14. TerminalHasReceipt'
  <2>1. \A n \in 1 .. T :
           chain[n].state \in {"COMMITTED", "RECOVERED"} =>
              ReceiptFits(chain[n].owner.plan, chain[n].state)
    BY <1>3 DEF ChainInv, TerminalHasReceipt
  <2>2. /\ chain'[N].state = s
        /\ chain'[N].owner.plan = p
    BY <1>2, <1>3, <1>4
  <2> QED
    BY <1>3, <2>1, <2>2 DEF TerminalHasReceipt, ReceiptFits, TerminalState
<1>15. ReleasedWithReceipt'
  <2>1. \A n \in 1 .. T :
           n > 1 /\ ~Owned(n) =>
              /\ Owned(n - 1)
              /\ ReceiptFits(chain[n - 1].owner.plan, chain[n - 1].state)
    BY <1>3 DEF ChainInv, ReleasedWithReceipt
  <2>2. \A n \in 1 .. T : n > 1 => n - 1 \in 1 .. T
    BY <1>3
  <2> QED
    BY <1>3, <1>5, <2>1, <2>2 DEF ReleasedWithReceipt, ReceiptFits, TerminalState
<1>16. LifecycleMovesOn'
  <2>1. \A n \in 1 .. T : n > 1 => n - 1 \in 1 .. T
    BY <1>3
  <2>2. \A n \in 1 .. T :
           n > 1 /\ Owned(n - 1)' =>
             /\ chain'[n].generation = chain'[n - 1].generation
             /\ Phase(chain'[n].state) >= Phase(chain'[n - 1].state)
             /\ Phase(chain'[n].state) = Phase(chain'[n - 1].state)
                   => Phase(chain'[n].state) = 3
    BY <1>3, <1>5, <2>1 DEF ChainInv, LifecycleMovesOn
  <2>3. /\ chain'[N].generation = chain'[N - 1].generation
        /\ Phase(chain'[N].state) >= Phase(chain'[N - 1].state)
        /\ Phase(chain'[N].state) = Phase(chain'[N - 1].state)
              => Phase(chain'[N].state) = 3
    <3>1. N - 1 = T /\ chain'[N - 1] = chain[T] /\ chain'[N].state = s
      BY <1>1, <1>2, <1>3
    <3>2. /\ Phase(s) \in Nat /\ Phase(chain[T].state) \in Nat
          /\ \/ Phase(s) > Phase(chain[T].state)
             \/ Phase(s) = 3 /\ Phase(chain[T].state) = 3
      BY <1>0, <1>1 DEF Phase, Commits, LockStates
    <3> QED
      BY <1>5, <3>1, <3>2
  <2> QED
    BY <1>3, <2>2, <2>3 DEF LifecycleMovesOn
<1> QED
  BY <1>7, <1>8, <1>9, <1>10, <1>11, <1>12, <1>13, <1>14, <1>15, <1>16 DEF ChainInv

\* Releasing a terminal lock keeps ChainInv.
LEMMA ReleaseKeeps ==
    ASSUME TypeOK, ChainInv, NEW p \in Plans, OwnedAt(Tip, p),
           chain[Tip].state \in {"COMMITTED", "RECOVERED"},
           chain' = Append(chain, [Transition(Tip, "FREE") EXCEPT !.owner = Nothing]),
           UNCHANGED <<planRecord, receipt>>
    PROVE  ChainInv'
<1>0. PICK T \in Nat : T = Tip
  BY DEF TypeOK, Tip
<1> DEFINE x == [Transition(T, "FREE") EXCEPT !.owner = Nothing]
           N == T + 1
<1>1. /\ T \in DOMAIN chain
      /\ chain[T] \in Commits
      /\ chain[T].owner = Owner(p)
      /\ chain[T].state \in {"COMMITTED", "RECOVERED"}
  BY <1>0 DEF OwnedAt, TypeOK
<1>2. /\ x \in Commits
      /\ x.state = "FREE"
      /\ x.owner = Nothing
      /\ x.generation = chain[T].generation
  BY <1>1 DEF Transition, Commits, LockStates
<1>3. /\ T \in Nat
      /\ DOMAIN chain = 1 .. T
      /\ DOMAIN chain' = 1 .. N
      /\ \A n \in 1 .. T : chain'[n] = chain[n]
      /\ chain'[N] = x
  BY <1>0, <1>2, Appended
<1>4. Owned(T) /\ Owner(p).plan = p /\ By(T, p)
  BY <1>1 DEF Owner, By, Owned
<1>5. /\ \A n \in 1 .. T : Owned(n)' <=> Owned(n)
      /\ ~Owned(N)'
      /\ \A n \in 1 .. T : chain'[n].owner = chain[n].owner
      /\ chain'[N].owner = Nothing
      /\ chain'[N].generation = chain[T].generation
  BY <1>2, <1>3 DEF Owned
<1>6. /\ \A n \in 1 .. T, q \in Plans : By(n, q)' <=> By(n, q)
      /\ \A q \in Plans : ~By(N, q)'
  BY <1>3, <1>5 DEF By
<1>7. receipt[p] # Nothing /\ ReceiptFits(p, chain[T].state)
  BY <1>1, <1>4 DEF ChainInv, TerminalHasReceipt, ReceiptFits
<1>8. OwnedHasOwner'
  <2>1. \A n \in 1 .. T : Owned(n) <=> chain[n].owner # Nothing
    BY <1>3 DEF ChainInv, OwnedHasOwner
  <2> QED
    BY <1>3, <1>5, <2>1 DEF OwnedHasOwner
<1>9. OwnerIsJournaled'
  BY <1>3, <1>5 DEF ChainInv, OwnerIsJournaled, Owner
<1>10. LostOnlyWithReceipt'
  <2>1. \A m, n \in 1 .. T, q \in Plans :
            m < n /\ By(m, q) /\ ~By(n, q) => receipt[q] # Nothing
    BY <1>3 DEF ChainInv, LostOnlyWithReceipt
  <2>2. \A q \in Plans : By(T, q) => q = p
    BY <1>1, <1>4 DEF By
  <2>3. \A m, n \in 1 .. N, q \in Plans :
            m < n /\ By(m, q)' /\ ~By(n, q)' => receipt[q] # Nothing
    BY <1>1, <1>3, <1>6, <1>7, <2>1, <2>2
  <2> QED
    BY <1>3, <2>3 DEF LostOnlyWithReceipt
<1>11. NeverRegained'
  <2>1. \A k, m, n \in 1 .. T, q \in Plans :
            k < m /\ m < n /\ By(k, q) /\ ~By(m, q) => ~By(n, q)
    BY <1>3 DEF ChainInv, NeverRegained
  <2>2. \A k, m, n \in 1 .. N, q \in Plans :
            k < m /\ m < n /\ By(k, q)' /\ ~By(m, q)' => ~By(n, q)'
    BY <1>1, <1>3, <1>6, <2>1
  <2> QED
    BY <1>3, <2>2 DEF NeverRegained
<1>12. GenerationsGrow'
  <2>1. \A m, n \in 1 .. T : m < n => chain[m].generation <= chain[n].generation
    BY <1>3 DEF ChainInv, GenerationsGrow
  <2>2. \A n \in 1 .. T : chain[n].generation \in Nat
    BY <1>3, CommitOK
  <2>3. \A m, n \in 1 .. N : m < n => chain'[m].generation <= chain'[n].generation
    BY <1>1, <1>3, <1>5, <2>1, <2>2
  <2> QED
    BY <1>3, <2>3 DEF GenerationsGrow
<1>13. OneGenerationPerPlan'
  BY <1>3, <1>5 DEF ChainInv, OneGenerationPerPlan
<1>14. ReceiptOfOwner'
  BY <1>3, <1>6 DEF ChainInv, ReceiptOfOwner
<1>15. TerminalHasReceipt'
  <2>1. \A n \in 1 .. T :
           chain[n].state \in {"COMMITTED", "RECOVERED"} =>
              ReceiptFits(chain[n].owner.plan, chain[n].state)
    BY <1>3 DEF ChainInv, TerminalHasReceipt
  <2>2. chain'[N].state \notin {"COMMITTED", "RECOVERED"}
    BY <1>2, <1>3
  <2> QED
    BY <1>3, <2>1, <2>2 DEF TerminalHasReceipt, ReceiptFits, TerminalState
<1>16. ReleasedWithReceipt'
  <2>1. \A n \in 1 .. T :
           n > 1 /\ ~Owned(n) =>
              /\ Owned(n - 1)
              /\ ReceiptFits(chain[n - 1].owner.plan, chain[n - 1].state)
    BY <1>3 DEF ChainInv, ReleasedWithReceipt
  <2>2. (\A n \in 1 .. T : n > 1 => n - 1 \in 1 .. T) /\ N - 1 = T
    BY <1>3
  <2>3. chain[T].owner.plan = p
    BY <1>4 DEF By
  <2> QED
    BY <1>1, <1>3, <1>4, <1>5, <1>7, <2>1, <2>2, <2>3
       DEF ReleasedWithReceipt, ReceiptFits, TerminalState
<1>17. LifecycleMovesOn'
  <2>1. (\A n \in 1 .. T : n > 1 => n - 1 \in 1 .. T) /\ N - 1 = T
    BY <1>3
  <2>2. \A n \in 1 .. T :
           n > 1 /\ Owned(n - 1)' =>
             /\ chain'[n].generation = chain'[n - 1].generation
             /\ Phase(chain'[n].state) >= Phase(chain'[n - 1].state)
             /\ Phase(chain'[n].state) = Phase(chain'[n - 1].state)
                   => Phase(chain'[n].state) = 3
    BY <1>3, <1>5, <2>1 DEF ChainInv, LifecycleMovesOn
  <2>3. Phase(chain'[N].state) = 5 /\ Phase(chain'[N - 1].state) = 4
    BY <1>1, <1>2, <1>3, <2>1 DEF Phase
  <2> QED
    BY <1>1, <1>3, <1>5, <2>1, <2>2, <2>3 DEF LifecycleMovesOn
<1> QED
  BY <1>8, <1>9, <1>10, <1>11, <1>12, <1>13, <1>14, <1>15, <1>16, <1>17 DEF ChainInv

\* Giving a free lock to a plan that never held it keeps ChainInv.
LEMMA AcquireKeeps ==
    ASSUME TypeOK, ChainInv, NEW p \in Plans, planRecord[p] # Nothing,
           Tip \in DOMAIN chain, ~Owned(Tip),
           \A n \in 1 .. Tip : ~By(n, p),
           chain' = Append(chain, [state |-> "PREPARED",
                                   generation |-> chain[Tip].generation + 1,
                                   owner |-> Owner(p)]),
           UNCHANGED <<planRecord, receipt>>
    PROVE  ChainInv'
<1>0. PICK T \in Nat : T = Tip
  BY DEF TypeOK, Tip
<1> DEFINE x == [state |-> "PREPARED", generation |-> chain[T].generation + 1,
                 owner |-> Owner(p)]
           N == T + 1
<1>1. /\ T \in DOMAIN chain
      /\ chain[T] \in Commits
      /\ Owner(p) \in Owners
      /\ Owner(p) # Nothing
      /\ Owner(p).plan = p
      /\ ~Owned(T)
  <2>1. T \in DOMAIN chain /\ chain[T] \in Commits /\ ~Owned(T)
    BY <1>0 DEF TypeOK
  <2>2. Owner(p) \in Owners /\ Owner(p).plan = p
    BY DEF Owner, Owners, TypeOK
  <2> QED
    BY <2>1, <2>2, NothingAssumption
<1>2. /\ x \in Commits
      /\ x.state = "PREPARED"
      /\ x.owner = Owner(p)
      /\ x.generation = chain[T].generation + 1
  BY <1>1 DEF Commits, LockStates
<1>3. /\ T \in Nat
      /\ DOMAIN chain = 1 .. T
      /\ DOMAIN chain' = 1 .. N
      /\ \A n \in 1 .. T : chain'[n] = chain[n]
      /\ chain'[N] = x
  BY <1>0, <1>2, Appended
<1>4. \A n \in 1 .. T : ~By(n, p)
  BY <1>0
<1>5. /\ \A n \in 1 .. T : Owned(n)' <=> Owned(n)
      /\ Owned(N)'
      /\ \A n \in 1 .. T : chain'[n].owner = chain[n].owner
      /\ \A n \in 1 .. T : chain'[n].generation = chain[n].generation
      /\ chain'[N].owner = Owner(p)
      /\ chain'[N].generation = chain[T].generation + 1
  BY <1>2, <1>3 DEF Owned
<1>6. /\ \A n \in 1 .. T, q \in Plans : By(n, q)' <=> By(n, q)
      /\ \A q \in Plans : By(N, q)' <=> q = p
  BY <1>1, <1>3, <1>5 DEF By
<1>7. \A n \in 1 .. T : chain[n].generation \in Nat
                          /\ chain[n].generation <= chain[T].generation
  <2>1. \A n \in 1 .. T : chain[n].generation \in Nat
    BY <1>3, CommitOK
  <2>2. \A n \in 1 .. T : n < T => chain[n].generation <= chain[T].generation
    BY <1>1, <1>3 DEF ChainInv, GenerationsGrow
  <2> QED
    BY <1>3, <2>1, <2>2
<1>8. OwnedHasOwner'
  <2>1. \A n \in 1 .. T : Owned(n) <=> chain[n].owner # Nothing
    BY <1>3 DEF ChainInv, OwnedHasOwner
  <2> QED
    BY <1>1, <1>3, <1>5, <2>1 DEF OwnedHasOwner
<1>9. OwnerIsJournaled'
  <2>1. \A n \in 1 .. T : Owned(n) => chain[n].owner = Owner(chain[n].owner.plan)
    BY <1>3 DEF ChainInv, OwnerIsJournaled
  <2> QED
    BY <1>1, <1>3, <1>5, <2>1 DEF OwnerIsJournaled, Owner
<1>10. LostOnlyWithReceipt'
  <2>1. \A m, n \in 1 .. T, q \in Plans :
            m < n /\ By(m, q) /\ ~By(n, q) => receipt[q] # Nothing
    BY <1>3 DEF ChainInv, LostOnlyWithReceipt
  <2>2. \A q \in Plans : ~By(T, q)
    BY <1>1 DEF By
  <2>3. \A m, n \in 1 .. N, q \in Plans :
            m < n /\ By(m, q)' /\ ~By(n, q)' => receipt[q] # Nothing
    BY <1>1, <1>3, <1>6, <2>1, <2>2
  <2> QED
    BY <1>3, <2>3 DEF LostOnlyWithReceipt
<1>11. NeverRegained'
  <2>1. \A k, m, n \in 1 .. T, q \in Plans :
            k < m /\ m < n /\ By(k, q) /\ ~By(m, q) => ~By(n, q)
    BY <1>3 DEF ChainInv, NeverRegained
  <2>2. \A k, m, n \in 1 .. N, q \in Plans :
            k < m /\ m < n /\ By(k, q)' /\ ~By(m, q)' => ~By(n, q)'
    BY <1>3, <1>4, <1>6, <2>1
  <2> QED
    BY <1>3, <2>2 DEF NeverRegained
<1>12. GenerationsGrow'
  <2>1. \A m, n \in 1 .. T : m < n => chain[m].generation <= chain[n].generation
    BY <1>3 DEF ChainInv, GenerationsGrow
  <2>2. \A m, n \in 1 .. N : m < n => chain'[m].generation <= chain'[n].generation
    BY <1>1, <1>3, <1>5, <1>7, <2>1
  <2> QED
    BY <1>3, <2>2 DEF GenerationsGrow
<1>13. OneGenerationPerPlan'
  <2>1. \A m, n \in 1 .. T :
           Owned(m) /\ Owned(n) =>
              (chain[m].owner.plan = chain[n].owner.plan
                  <=> chain[m].generation = chain[n].generation)
    BY <1>3 DEF ChainInv, OneGenerationPerPlan
  <2>2. \A n \in 1 .. T : Owned(n) => chain[n].owner.plan # p
    BY <1>4 DEF By
  <2>3. \A n \in 1 .. T : chain[n].generation # chain'[N].generation
    BY <1>1, <1>3, <1>5, <1>7
  <2> QED
    BY <1>1, <1>3, <1>5, <2>1, <2>2, <2>3 DEF OneGenerationPerPlan
<1>14. ReceiptOfOwner'
  BY <1>3, <1>6 DEF ChainInv, ReceiptOfOwner
<1>15. TerminalHasReceipt'
  <2>1. \A n \in 1 .. T :
           chain[n].state \in {"COMMITTED", "RECOVERED"} =>
              ReceiptFits(chain[n].owner.plan, chain[n].state)
    BY <1>3 DEF ChainInv, TerminalHasReceipt
  <2>2. chain'[N].state \notin {"COMMITTED", "RECOVERED"}
    BY <1>2, <1>3
  <2> QED
    BY <1>3, <2>1, <2>2 DEF TerminalHasReceipt, ReceiptFits, TerminalState
<1>16. ReleasedWithReceipt'
  <2>1. \A n \in 1 .. T :
           n > 1 /\ ~Owned(n) =>
              /\ Owned(n - 1)
              /\ ReceiptFits(chain[n - 1].owner.plan, chain[n - 1].state)
    BY <1>3 DEF ChainInv, ReleasedWithReceipt
  <2>2. \A n \in 1 .. T : n > 1 => n - 1 \in 1 .. T
    BY <1>3
  <2> QED
    BY <1>3, <1>5, <2>1, <2>2 DEF ReleasedWithReceipt, ReceiptFits, TerminalState
<1>17. LifecycleMovesOn'
  <2>1. (\A n \in 1 .. T : n > 1 => n - 1 \in 1 .. T) /\ N - 1 = T
    BY <1>3
  <2>2. \A n \in 1 .. T :
           n > 1 /\ Owned(n - 1)' =>
             /\ chain'[n].generation = chain'[n - 1].generation
             /\ Phase(chain'[n].state) >= Phase(chain'[n - 1].state)
             /\ Phase(chain'[n].state) = Phase(chain'[n - 1].state)
                   => Phase(chain'[n].state) = 3
    <3>1. \A n \in 1 .. T :
             n > 1 /\ Owned(n - 1) =>
               /\ chain[n].generation = chain[n - 1].generation
               /\ Phase(chain[n].state) >= Phase(chain[n - 1].state)
               /\ Phase(chain[n].state) = Phase(chain[n - 1].state)
                     => Phase(chain[n].state) = 3
      BY <1>3 DEF ChainInv, LifecycleMovesOn
    <3>2. \A n \in 1 .. T : n > 1 => chain'[n - 1] = chain[n - 1] /\ chain'[n] = chain[n]
      BY <1>3, <2>1
    <3>3. \A n \in 1 .. T : n > 1 => (Owned(n - 1)' <=> Owned(n - 1))
      BY <1>3, <3>2 DEF Owned
    <3> QED
      BY <3>1, <3>2, <3>3
  <2>3. ~Owned(N - 1)'
    BY <1>1, <1>3, <1>5, <2>1
  <2> QED
    BY <1>3, <2>2, <2>3 DEF LifecycleMovesOn
<1> QED
  BY <1>8, <1>9, <1>10, <1>11, <1>12, <1>13, <1>14, <1>15, <1>16, <1>17 DEF ChainInv

-----------------------------------------------------------------------------
(***************************************************************************)
(* The steps that leave the lock branch alone, or create it.               *)
(***************************************************************************)
\* The first commit of the branch keeps ChainInv.
LEMMA CreateKeeps ==
    ASSUME TypeOK, ChainInv, chain = <<>>,
           chain' = <<[state |-> "FREE", generation |-> 0, owner |-> Nothing]>>,
           UNCHANGED <<planRecord, receipt>>
    PROVE  ChainInv'
<1>1. /\ DOMAIN chain = {}
      /\ DOMAIN chain' = {1}
      /\ chain'[1].state = "FREE"
      /\ chain'[1].owner = Nothing
      /\ chain'[1].generation = 0
  OBVIOUS
<1>2. \A n \in DOMAIN chain' : n = 1
  BY <1>1
<1>3. ~Owned(1)'
  BY <1>1 DEF Owned
<1>4. \A p \in Plans : receipt[p] = Nothing
  BY <1>1 DEF ChainInv, ReceiptOfOwner
<1>5. OwnedHasOwner' /\ OwnerIsJournaled'
  BY <1>1, <1>2, <1>3 DEF OwnedHasOwner, OwnerIsJournaled
<1>6. LostOnlyWithReceipt' /\ NeverRegained' /\ GenerationsGrow'
  BY <1>1 DEF LostOnlyWithReceipt, NeverRegained, GenerationsGrow
<1>7. OneGenerationPerPlan' /\ ReceiptOfOwner' /\ TerminalHasReceipt'
  BY <1>1, <1>2, <1>3, <1>4 DEF OneGenerationPerPlan, ReceiptOfOwner, TerminalHasReceipt
<1>8. ReleasedWithReceipt' /\ LifecycleMovesOn'
  BY <1>1 DEF ReleasedWithReceipt, LifecycleMovesOn
<1> QED
  BY <1>5, <1>6, <1>7, <1>8 DEF ChainInv

\* Journaling a plan keeps ChainInv.
LEMMA PlanRecordKeeps ==
    ASSUME TypeOK, ChainInv, NEW p \in Plans, NEW f \in Fences,
           planRecord' = [planRecord EXCEPT ![p] = IF @ = Nothing THEN f ELSE @],
           UNCHANGED <<chain, receipt>>
    PROVE  ChainInv'
<1>1. \A q \in Plans : planRecord[q] # Nothing => planRecord'[q] = planRecord[q]
  BY DEF TypeOK
<1>2. OwnerIsJournaled'
  <2>1. SUFFICES ASSUME NEW n \in DOMAIN chain, Owned(n)
                 PROVE  chain[n].owner = Owner(chain[n].owner.plan)'
    BY DEF OwnerIsJournaled, Owned
  <2>2. PICK q \in Plans : q = chain[n].owner.plan
    BY <2>1, OwnerOK DEF ChainInv
  <2>3. chain[n].owner = [plan |-> q, fence |-> planRecord[q]]
    BY <2>1, <2>2 DEF ChainInv, OwnerIsJournaled, Owner
  <2>4. planRecord[q] \in Fences
    <3>1. chain[n].owner.fence \in Fences
      BY <2>1, OwnerOK DEF ChainInv
    <3> QED
      BY <2>3, <3>1
  <2>5. planRecord'[q] = planRecord[q]
    BY <1>1, <2>4, NothingAssumption DEF Fences
  <2> QED
    BY <2>2, <2>3, <2>5 DEF Owner
<1>3. /\ OwnedHasOwner' /\ LostOnlyWithReceipt' /\ NeverRegained'
      /\ GenerationsGrow' /\ OneGenerationPerPlan' /\ ReceiptOfOwner'
      /\ TerminalHasReceipt' /\ ReleasedWithReceipt' /\ LifecycleMovesOn'
  BY DEF ChainInv, OwnedHasOwner, LostOnlyWithReceipt, NeverRegained, GenerationsGrow,
         OneGenerationPerPlan, ReceiptOfOwner, TerminalHasReceipt, ReleasedWithReceipt,
         LifecycleMovesOn, Owned, By, ReceiptFits
<1> QED
  BY <1>2, <1>3 DEF ChainInv

\* Journaling the receipt of a plan that held the lock keeps ChainInv.
LEMMA ReceiptKeeps ==
    ASSUME TypeOK, ChainInv, NEW p \in Plans, NEW r \in Receipts,
           \E n \in DOMAIN chain : By(n, p),
           receipt[p] \in {Nothing, r},
           receipt' = [receipt EXCEPT ![p] = r],
           UNCHANGED <<chain, planRecord>>
    PROVE  ChainInv'
<1>1. /\ \A q \in Plans : receipt[q] # Nothing => receipt'[q] = receipt[q]
      /\ \A q \in Plans : q # p => receipt'[q] = receipt[q]
      /\ receipt'[p] = r
      /\ r # Nothing
  BY NothingAssumption DEF TypeOK
<1>2. LostOnlyWithReceipt' /\ ReceiptOfOwner'
  BY <1>1 DEF ChainInv, LostOnlyWithReceipt, ReceiptOfOwner, By, Owned
<1>3. \A n \in DOMAIN chain : Owned(n) => chain[n].owner.plan \in Plans
  BY OwnerOK DEF ChainInv
<1>4. TerminalHasReceipt'
  BY <1>1, <1>3 DEF ChainInv, TerminalHasReceipt, ReceiptFits, TerminalState, Owned
<1>5. ReleasedWithReceipt'
  <2>1. \A n \in DOMAIN chain : n > 1 => n - 1 \in DOMAIN chain
    BY DEF TypeOK
  <2> QED
    BY <1>1, <1>3, <2>1 DEF ChainInv, ReleasedWithReceipt, ReceiptFits, TerminalState, Owned
<1>6. /\ OwnedHasOwner' /\ OwnerIsJournaled' /\ NeverRegained'
      /\ GenerationsGrow' /\ OneGenerationPerPlan' /\ LifecycleMovesOn'
  BY DEF ChainInv, OwnedHasOwner, OwnerIsJournaled, NeverRegained, GenerationsGrow,
         OneGenerationPerPlan, LifecycleMovesOn, Owned, By, Owner
<1> QED
  BY <1>2, <1>4, <1>5, <1>6 DEF ChainInv

LEMMA ChainUnchanged ==
    ASSUME ChainInv, UNCHANGED <<chain, planRecord, receipt>>
    PROVE  ChainInv'
BY DEF ChainInv, OwnedHasOwner, OwnerIsJournaled, LostOnlyWithReceipt, NeverRegained,
       GenerationsGrow, OneGenerationPerPlan, ReceiptOfOwner, TerminalHasReceipt,
       ReleasedWithReceipt, LifecycleMovesOn, Owned, By, Owner, ReceiptFits

-----------------------------------------------------------------------------
(***************************************************************************)
(* One step of one caller.                                                 *)
(***************************************************************************)
\* What is left to show of a step: the acting caller's part.
LEMMA StepKeeps ==
    ASSUME IInv, Grows, ChainInv', NEW c \in Callers, CallInv(c)',
           chain' \in Seq(Commits),
           planRecord' \in [Plans -> Fences \cup {Nothing}],
           records' \subseteq Records,
           receipt' \in [Plans -> Receipts \cup {Nothing}],
           call' \in [Callers -> Calls],
           \A d \in Callers \ {c} : call'[d] = call[d]
    PROVE  IInv'
<1>1. TypeOK'
  BY DEF TypeOK
<1>2. \A d \in Callers \ {c} : CallInv(d)'
  BY CallStable DEF IInv
<1> QED
  BY <1>1, <1>2 DEF IInv

\* The same for a step that changes no more than the records and the call.
LEMMA ReadKeeps ==
    ASSUME IInv, NEW c \in Callers, CallInv(c)',
           UNCHANGED <<chain, planRecord, receipt>>,
           records' \subseteq Records,
           call' \in [Callers -> Calls],
           \A d \in Callers \ {c} : call'[d] = call[d]
    PROVE  IInv'
<1>1. Grows
  BY DEF Grows
<1>2. ChainInv'
  BY ChainUnchanged DEF IInv
<1> QED
  BY <1>1, <1>2, StepKeeps DEF IInv, TypeOK

\* The same for a step that appends a commit.
LEMMA AppendKeeps ==
    ASSUME IInv, ChainInv', NEW c \in Callers, CallInv(c)',
           NEW x \in Commits, chain' = Append(chain, x), UNCHANGED journal,
           call' \in [Callers -> Calls],
           \A d \in Callers \ {c} : call'[d] = call[d]
    PROVE  IInv'
<1>1. Grows /\ chain' \in Seq(Commits)
  BY Appended DEF IInv, journal
<1> QED
  BY <1>1, StepKeeps DEF IInv, TypeOK, journal

LEMMA Returned ==
    ASSUME TypeOK, NEW c \in Callers, Return(c)
    PROVE  /\ call' \in [Callers -> Calls]
           /\ \A d \in Callers \ {c} : call'[d] = call[d]
           /\ CallInv(c)'
<1>1. Idle \in Calls
  BY DEF Idle, Calls, Arguments, Steps
<1>2. call'[c] = Idle
  BY DEF Return, TypeOK
<1>3. Idle.cmd = "none" /\ "none" \notin OwnerCommands
  BY DEF Idle, OwnerCommands, AttemptKinds
<1>4. CallInv(c)'
  BY <1>2, <1>3 DEF CallInv, Idle
<1> QED
  BY <1>1, <1>4 DEF Return, TypeOK

LEMMA Stepped ==
    ASSUME TypeOK, NEW c \in Callers, NEW s \in Steps, Goto(c, s)
    PROVE  /\ call' \in [Callers -> Calls]
           /\ \A d \in Callers \ {c} : call'[d] = call[d]
           /\ call'[c] = [call[c] EXCEPT !.step = s]
<1>1. call[c] \in Calls
  BY DEF TypeOK
<1>2. [call[c] EXCEPT !.step = s] \in Calls
  BY <1>1 DEF Calls
<1> QED
  BY <1>2 DEF Goto, TypeOK

LEMMA SteppedAt ==
    ASSUME TypeOK, NEW c \in Callers, NEW s \in Steps, NEW n \in Nat,
           call' = [call EXCEPT ![c].step = s, ![c].lock = n]
    PROVE  /\ call' \in [Callers -> Calls]
           /\ \A d \in Callers \ {c} : call'[d] = call[d]
           /\ call'[c] = [call[c] EXCEPT !.step = s, !.lock = n]
<1>1. call[c] \in Calls
  BY DEF TypeOK
<1>2. [call[c] EXCEPT !.step = s, !.lock = n] \in Calls
  BY <1>1 DEF Calls
<1> QED
  BY <1>2 DEF TypeOK

LEMMA StopKeeps ==
    ASSUME IInv, NEW c \in Callers, Stop(c)
    PROVE  IInv'
BY Returned, ReadKeeps DEF Stop, IInv, TypeOK, journal

-----------------------------------------------------------------------------
(***************************************************************************)
(* begin.                                                                  *)
(***************************************************************************)
LEMMA BeginPlanRecordKeeps ==
    ASSUME IInv, NEW c \in Callers, NEW p \in Plans, BeginPlanRecord(c, p)
    PROVE  IInv'
<1> DEFINE f == AdoptedFence(c, p)
           k == [Idle EXCEPT !.cmd = "begin", !.plan = p, !.step = "lock", !.seen = f]
<1>1. /\ f \in Fences
      /\ planRecord' \in [Plans -> Fences \cup {Nothing}]
      /\ planRecord'[p] = f
      /\ \A q \in Plans : planRecord[q] # Nothing => planRecord'[q] = planRecord[q]
  BY DEF BeginPlanRecord, IInv, TypeOK, AdoptedFence, Fences
<1>2. k \in Calls
  BY <1>1 DEF Idle, Calls, Arguments, Steps, AllCommands
<1>3. /\ call' \in [Callers -> Calls]
      /\ call'[c] = k
      /\ \A d \in Callers \ {c} : call'[d] = call[d]
  BY <1>2 DEF BeginPlanRecord, IInv, TypeOK
<1>4. ChainInv'
  <2>1. c \in Fences
    BY DEF Fences
  <2> QED
    BY <2>1, PlanRecordKeeps DEF BeginPlanRecord, IInv
<1>5. Grows
  BY <1>1 DEF Grows, BeginPlanRecord
<1>6. CallInv(c)'
  <2>1. /\ k.cmd = "begin"
        /\ k.plan = p
        /\ k.step = "lock"
        /\ k.seen = f
    BY DEF Idle
  <2>2. "begin" \notin OwnerCommands
    BY DEF OwnerCommands, AttemptKinds
  <2> QED
    BY <1>1, <1>3, <2>1, <2>2 DEF CallInv, BeginInv
<1> QED
  BY <1>1, <1>3, <1>4, <1>5, <1>6, StepKeeps DEF BeginPlanRecord, IInv, TypeOK

LEMMA BeginEnsureLockKeeps ==
    ASSUME IInv, NEW c \in Callers, BeginEnsureLock(c)
    PROVE  IInv'
<1>1. ChainInv'
  BY CreateKeeps DEF BeginEnsureLock, IInv
<1>2. chain = <<>> /\ DOMAIN chain = {}
  BY DEF BeginEnsureLock
<1>3. Grows
  BY <1>2 DEF Grows, BeginEnsureLock
<1>4. chain' \in Seq(Commits)
  <2>1. [state |-> "FREE", generation |-> 0, owner |-> Nothing] \in Commits
    BY DEF Commits, LockStates
  <2> QED
    BY <2>1 DEF BeginEnsureLock
<1>5. CallInv(c)'
  BY <1>3, CallStable DEF BeginEnsureLock, IInv
<1> QED
  BY <1>1, <1>3, <1>4, <1>5, StepKeeps DEF BeginEnsureLock, IInv, TypeOK

LEMMA BeginReadLockKeeps ==
    ASSUME IInv, NEW c \in Callers, BeginReadLock(c)
    PROVE  IInv'
<1>1. BeginInv(c) /\ call[c].cmd = "begin"
  BY DEF BeginReadLock, At, IInv, CallInv
<1>2. Tip \in Nat /\ Tip \in DOMAIN chain
  BY DEF BeginReadLock, IInv, TypeOK, Tip
<1>3. /\ call' \in [Callers -> Calls]
      /\ call'[c] = [call[c] EXCEPT !.step = "receipt", !.lock = Tip]
      /\ \A d \in Callers \ {c} : call'[d] = call[d]
  BY <1>2, SteppedAt DEF BeginReadLock, IInv, Steps
<1>4. /\ call'[c].cmd = "begin"
      /\ call'[c].plan = call[c].plan
      /\ call'[c].step = "receipt"
      /\ call'[c].seen = call[c].seen
      /\ call'[c].lock = Tip
  BY <1>1, <1>3 DEF IInv, TypeOK, Calls
<1>5. CallInv(c)'
  BY <1>1, <1>2, <1>4
     DEF CallInv, BeginInv, OwnerCommands, AttemptKinds, BeginReadLock, journal
<1> QED
  BY <1>3, <1>5, ReadKeeps DEF BeginReadLock, IInv, TypeOK, journal

LEMMA BeginReadReceiptKeeps ==
    ASSUME IInv, NEW c \in Callers, BeginReadReceipt(c)
    PROVE  IInv'
<1>1. BeginInv(c) /\ call[c].cmd = "begin" /\ call[c].step = "receipt"
  BY DEF BeginReadReceipt, At, IInv, CallInv
<1>2. /\ call' \in [Callers -> Calls]
      /\ call'[c] = [call[c] EXCEPT !.step = "advance"]
      /\ \A d \in Callers \ {c} : call'[d] = call[d]
  BY Stepped DEF BeginReadReceipt, IInv, Steps
<1>3. /\ call'[c].cmd = "begin"
      /\ call'[c].plan = call[c].plan
      /\ call'[c].step = "advance"
      /\ call'[c].seen = call[c].seen
      /\ call'[c].lock = call[c].lock
  BY <1>1, <1>2 DEF IInv, TypeOK, Calls
<1> DEFINE l == call[c].lock
           p == call[c].plan
<1>4. l \in DOMAIN chain /\ ~Owned(l) /\ p \in Plans /\ receipt[p] = Nothing
  BY <1>1 DEF BeginReadReceipt, BeginInv, Owned
<1>5. \A n \in 1 .. l : ~By(n, p)
  <2>1. \A n \in 1 .. l : n \in DOMAIN chain /\ (n < l \/ n = l)
    BY <1>4 DEF IInv, TypeOK
  <2>2. ~By(l, p)
    BY <1>4 DEF By
  <2> QED
    BY <1>4, <2>1, <2>2 DEF IInv, ChainInv, LostOnlyWithReceipt
<1>6. CallInv(c)'
  BY <1>1, <1>3, <1>4, <1>5
     DEF CallInv, BeginInv, OwnerCommands, AttemptKinds, BeginReadReceipt, journal, By, Owned
<1> QED
  BY <1>2, <1>6, ReadKeeps DEF BeginReadReceipt, IInv, TypeOK, journal

LEMMA BeginAlreadyOwnerKeeps ==
    ASSUME IInv, NEW c \in Callers, BeginAlreadyOwner(c)
    PROVE  IInv'
<1>1. BeginInv(c) /\ call[c].cmd = "begin" /\ call[c].step = "receipt"
  BY DEF BeginAlreadyOwner, At, IInv, CallInv
<1>2. /\ call' \in [Callers -> Calls]
      /\ call'[c] = [call[c] EXCEPT !.step = "ok"]
      /\ \A d \in Callers \ {c} : call'[d] = call[d]
  BY Stepped DEF BeginAlreadyOwner, IInv, Steps
<1>3. /\ call'[c].cmd = "begin"
      /\ call'[c].plan = call[c].plan
      /\ call'[c].step = "ok"
      /\ call'[c].seen = call[c].seen
  BY <1>1, <1>2 DEF IInv, TypeOK, Calls
<1>4. OwnedAt(call[c].lock, call[c].plan)
  BY <1>1, NothingAssumption DEF BeginAlreadyOwner, BeginInv, OwnedAt, Owner, Fences
<1>5. CallInv(c)'
  BY <1>1, <1>3, <1>4
     DEF CallInv, BeginInv, OwnerCommands, AttemptKinds, BeginAlreadyOwner, journal,
         OwnedAt, Owner
<1> QED
  BY <1>2, <1>5, ReadKeeps DEF BeginAlreadyOwner, IInv, TypeOK, journal

LEMMA BeginAdvanceKeeps ==
    ASSUME IInv, NEW c \in Callers, BeginAdvance(c)
    PROVE  IInv'
<1> DEFINE p == call[c].plan
           x == [state |-> "PREPARED", generation |-> chain[Tip].generation + 1,
                 owner |-> Owner(p)]
<1>1. BeginInv(c) /\ call[c].cmd = "begin" /\ call[c].step = "advance"
  BY DEF BeginAdvance, At, IInv, CallInv
<1>2. /\ call' \in [Callers -> Calls]
      /\ call'[c] = [call[c] EXCEPT !.step = "ok"]
      /\ \A d \in Callers \ {c} : call'[d] = call[d]
  BY Stepped DEF BeginAdvance, IInv, Steps
<1>3. /\ call'[c].cmd = "begin"
      /\ call'[c].plan = p
      /\ call'[c].step = "ok"
      /\ call'[c].seen = call[c].seen
  BY <1>1, <1>2 DEF IInv, TypeOK, Calls
<1>4. /\ p \in Plans
      /\ planRecord[p] # Nothing
      /\ Tip = call[c].lock
      /\ Tip \in DOMAIN chain
      /\ ~Owned(Tip)
      /\ \A n \in 1 .. Tip : ~By(n, p)
      /\ call[c].seen = planRecord[p]
  BY <1>1, NothingAssumption DEF BeginInv, BeginAdvance, AdvanceLock, Fences
<1>5. chain' = Append(chain, x)
  BY <1>4 DEF BeginAdvance, AdvanceLock, Owner
<1>6. ChainInv'
  BY <1>4, <1>5, AcquireKeeps DEF IInv, BeginAdvance, journal
<1>7. x \in Commits
  <2>1. chain[Tip].generation \in Nat
    BY <1>4, CommitOK DEF IInv
  <2>2. Owner(p) \in Owners
    BY <1>4 DEF Owner, Owners, IInv, TypeOK
  <2> QED
    BY <2>1, <2>2 DEF Commits, LockStates
<1>8. CallInv(c)'
  <2>1. Tip + 1 \in DOMAIN chain' /\ chain'[Tip + 1] = x
    BY <1>5, <1>7, Appended DEF IInv, BeginAdvance, journal
  <2>2. UNCHANGED planRecord
    BY DEF BeginAdvance, journal
  <2>3. PICK N : N = Tip + 1
    OBVIOUS
  <2>4. OwnedAt(N, p)'
    BY <1>4, <1>3, <2>1, <2>2, <2>3 DEF OwnedAt, Owner
  <2>5. BeginInv(c)'
    BY <1>1, <1>3, <2>1, <2>2, <2>3, <2>4 DEF BeginInv
  <2> QED
    BY <1>3, <2>5 DEF CallInv, OwnerCommands, AttemptKinds
<1> QED
  BY <1>2, <1>5, <1>6, <1>7, <1>8, AppendKeeps DEF BeginAdvance

-----------------------------------------------------------------------------
(***************************************************************************)
(* The commands of the owner.                                              *)
(***************************************************************************)
\* What a call knows after require_owner, whatever the command.
LEMMA RequireOwnerKeeps ==
    ASSUME IInv, NEW c \in Callers, NEW cmd \in OwnerCommands, NEW p \in Plans,
           NEW a, NEW b, <<a, b>> \in Arguments, NEW allowed, NEW s \in Steps,
           RequireOwner(c, cmd, p, <<a, b>>, allowed, s),
           cmd = "activate" => s = "advance" /\ allowed = {"PREPARED"},
           cmd = "recover-begin" =>
              s = "advance" /\ allowed = {"PREPARED", "ACTIVE", "RECOVERY_REQUIRED"},
           cmd = "note-failure" =>
              /\ s = "record" /\ a \in Reasons /\ b = Nothing
              /\ allowed = MutableOwnerStates \cup {"BLOCKED"},
           cmd \in AttemptKinds =>
              /\ s \in {"attempt", "complete"}
              /\ a \in PrepareKinds \cup Registries
              /\ b \in Minors
              /\ allowed = WritableStates(cmd)
    PROVE  IInv'
<1>0. PICK T \in Nat : T = Tip
  BY DEF Tip, IInv, TypeOK
<1> DEFINE k == [Idle EXCEPT !.cmd = cmd, !.plan = p, !.arg = <<a, b>>,
                             !.step = s, !.lock = T]
<1>1. /\ OwnedAt(T, p)
      /\ chain[T].state \in allowed
      /\ UNCHANGED <<chain, planRecord, records, receipt>>
  BY <1>0 DEF RequireOwner, journal
<1>2. call' = [call EXCEPT ![c] = k]
  BY <1>0 DEF RequireOwner
<1>3. k \in Calls
  <2>1. cmd \in AllCommands
    BY DEF OwnerCommands, AllCommands
  <2> QED
    BY <2>1 DEF Idle, Calls
<1>4. /\ call' \in [Callers -> Calls]
      /\ call'[c] = k
      /\ \A d \in Callers \ {c} : call'[d] = call[d]
  BY <1>2, <1>3 DEF IInv, TypeOK
<1>5. /\ k.cmd = cmd
      /\ k.plan = p
      /\ k.arg = <<a, b>>
      /\ k.step = s
      /\ k.lock = T
  BY DEF Idle
<1>6. OwnedAt(T, p)' /\ chain'[T].state \in allowed
  BY <1>1 DEF OwnedAt, Owner
<1>7. CallInv(c)'
  <2>1. /\ call'[c].cmd = cmd
        /\ call'[c].plan = p
        /\ call'[c].arg[1] = a
        /\ call'[c].arg[2] = b
        /\ call'[c].step = s
        /\ call'[c].lock = T
    BY <1>4, <1>5
  <2>2. OwnerInv(c)'
    BY <1>6, <2>1 DEF OwnerInv
  <2>3. cmd # "none" /\ cmd # "begin" /\ cmd # "finish"
    BY DEF OwnerCommands, AttemptKinds
  <2> QED
    BY <2>1, <2>2, <2>3 DEF CallInv
<1> QED
  BY <1>1, <1>4, <1>7, ReadKeeps DEF IInv, TypeOK

LEMMA ActivateReadKeeps ==
    ASSUME IInv, NEW c \in Callers, NEW p \in Plans, ActivateRead(c, p)
    PROVE  IInv'
<1>1. <<Nothing, Nothing>> \in Arguments /\ Idle.arg = <<Nothing, Nothing>>
  BY DEF Arguments, Idle
<1> QED
  BY <1>1, RequireOwnerKeeps DEF ActivateRead, OwnerCommands, AttemptKinds, Steps

LEMMA RecoverBeginReadKeeps ==
    ASSUME IInv, NEW c \in Callers, NEW p \in Plans, RecoverBeginRead(c, p)
    PROVE  IInv'
<1>1. <<Nothing, Nothing>> \in Arguments /\ Idle.arg = <<Nothing, Nothing>>
  BY DEF Arguments, Idle
<1> QED
  BY <1>1, RequireOwnerKeeps DEF RecoverBeginRead, OwnerCommands, AttemptKinds, Steps

LEMMA NoteFailureReadKeeps ==
    ASSUME IInv, NEW c \in Callers, NEW p \in Plans, NEW reason \in Reasons,
           NoteFailureRead(c, p, reason)
    PROVE  IInv'
<1>1. <<reason, Nothing>> \in Arguments
  BY ReasonsAssumption DEF Arguments
<1> QED
  BY <1>1, RequireOwnerKeeps DEF NoteFailureRead, OwnerCommands, AttemptKinds, Steps

\* The units of an attempt are preparations or registries of a minor.
LEMMA ObjectsOK ==
    ASSUME NEW kind \in AttemptKinds, NEW p \in Plans, NEW o \in Objects(kind, p)
    PROVE  o \in PrepareKinds \cup Registries
BY DEF Objects, AttemptKinds, RequiredPreparations, RequiredRegistries, PrepareKinds,
       Registries

LEMMA AttemptReadKeeps ==
    ASSUME IInv, NEW c \in Callers, NEW p \in Plans, NEW kind \in AttemptKinds,
           NEW o \in Objects(kind, p), NEW m \in Minors,
           AttemptRead(c, p, kind, o, m)
    PROVE  IInv'
<1>1. <<o, m>> \in Arguments /\ o \in PrepareKinds \cup Registries
  BY ObjectsOK DEF Arguments
<1> QED
  BY <1>1, RequireOwnerKeeps DEF AttemptRead, OwnerCommands, AttemptKinds, Steps

LEMMA CompleteReadKeeps ==
    ASSUME IInv, NEW c \in Callers, NEW p \in Plans, NEW kind \in AttemptKinds,
           NEW o \in Objects(kind, p), NEW m \in Minors,
           CompleteRead(c, p, kind, o, m)
    PROVE  IInv'
<1>1. <<o, m>> \in Arguments /\ o \in PrepareKinds \cup Registries
  BY ObjectsOK DEF Arguments
<1> QED
  BY <1>1, RequireOwnerKeeps DEF CompleteRead, OwnerCommands, AttemptKinds, Steps

\* The owner's compare-and-swap to a later state of the same generation.
LEMMA OwnerAdvanceKeeps ==
    ASSUME IInv, NEW c \in Callers, NEW p \in Plans, NEW n \in DOMAIN chain,
           OwnedAt(n, p),
           NEW s \in LockStates \ {"FREE", "COMMITTED", "RECOVERED"},
           \/ Phase(s) > Phase(chain[n].state)
           \/ Phase(s) = 3 /\ Phase(chain[n].state) = 3,
           AdvanceLock(n, Transition(n, s)), Return(c), UNCHANGED journal
    PROVE  IInv'
<1>1. chain' = Append(chain, Transition(n, s)) /\ n = Tip
  BY DEF AdvanceLock
<1>2. Transition(n, s) \in Commits
  <2>1. chain[n] \in Commits
    BY CommitOK DEF IInv
  <2> QED
    BY <2>1 DEF Transition, Commits
<1>3. ChainInv'
  BY <1>1, TransitionKeeps DEF IInv, journal
<1> QED
  BY <1>1, <1>2, <1>3, Returned, AppendKeeps DEF IInv

LEMMA ActivateAdvanceKeeps ==
    ASSUME IInv, NEW c \in Callers, ActivateAdvance(c)
    PROVE  IInv'
<1>1. OwnerInv(c) /\ call[c].cmd = "activate"
  BY DEF ActivateAdvance, At, IInv, CallInv, OwnerCommands
<1>2. Phase("ACTIVE") > Phase("PREPARED")
  BY DEF Phase
<1> QED
  BY <1>1, <1>2, OwnerAdvanceKeeps DEF ActivateAdvance, OwnerInv, OwnedAt, LockStates

LEMMA RecoverBeginAdvanceKeeps ==
    ASSUME IInv, NEW c \in Callers, RecoverBeginAdvance(c)
    PROVE  IInv'
<1>1. OwnerInv(c) /\ call[c].cmd = "recover-begin"
  BY DEF RecoverBeginAdvance, At, IInv, CallInv, OwnerCommands
<1>2. /\ Phase("PREPARED") = 1 /\ Phase("ACTIVE") = 2
      /\ Phase("RECOVERY_REQUIRED") = 3 /\ Phase("RECOVERING") = 3
  BY DEF Phase
<1> QED
  BY <1>1, <1>2, OwnerAdvanceKeeps DEF RecoverBeginAdvance, OwnerInv, OwnedAt, LockStates

LEMMA NoteFailureAdvanceKeeps ==
    ASSUME IInv, NEW c \in Callers, NoteFailureAdvance(c)
    PROVE  IInv'
<1>1. OwnerInv(c) /\ call[c].cmd = "note-failure"
  BY DEF NoteFailureAdvance, At, IInv, CallInv, OwnerCommands
<1>2. /\ Phase("PREPARED") = 1 /\ Phase("ACTIVE") = 2
      /\ Phase("RECOVERY_REQUIRED") = 3 /\ Phase("RECOVERING") = 3
      /\ Phase("BLOCKED") = 3
  BY DEF Phase
<1>3. FailureState(call[c].arg[1]) \in {"BLOCKED", "RECOVERY_REQUIRED"}
  BY DEF FailureState
<1> QED
  BY <1>1, <1>2, <1>3, OwnerAdvanceKeeps
     DEF NoteFailureAdvance, OwnerInv, OwnedAt, LockStates, MutableOwnerStates

LEMMA OwnedRecordOK ==
    ASSUME IInv, NEW c \in Callers, call[c].cmd \in OwnerCommands,
           NEW kind \in AttemptKinds \cup {"failure"},
           call[c].arg[1] \in PrepareKinds \cup Registries \cup FailureReasons,
           call[c].arg[2] \in Minors \cup {Nothing}
    PROVE  OwnedRecord(c, kind) \in Records
<1>1. OwnerInv(c)
  BY DEF IInv, CallInv
<1>2. call[c].plan \in Plans /\ call[c].lock \in Nat
  BY <1>1 DEF OwnerInv, IInv, TypeOK, Calls
<1> QED
  BY <1>2 DEF OwnedRecord, Records

LEMMA NoteFailureRecordKeeps ==
    ASSUME IInv, NEW c \in Callers, NoteFailureRecord(c)
    PROVE  IInv'
<1>1. OwnerInv(c) /\ call[c].cmd = "note-failure"
  BY DEF NoteFailureRecord, At, IInv, CallInv, OwnerCommands
<1>2. OwnedRecord(c, "failure") \in Records
  <2>1. call[c].arg[1] \in Reasons /\ call[c].arg[2] = Nothing
    BY <1>1 DEF OwnerInv
  <2> QED
    BY <1>1, <2>1, ReasonsAssumption, OwnedRecordOK DEF OwnerCommands
<1>3. records' \subseteq Records
  BY <1>2 DEF NoteFailureRecord, EnsureExact, IInv, TypeOK
<1>4. /\ UNCHANGED <<chain, planRecord, receipt>>
      /\ Return(c) \/ Goto(c, "advance")
  BY DEF NoteFailureRecord
<1>5. CASE Return(c)
  BY <1>3, <1>4, <1>5, Returned, ReadKeeps DEF IInv
<1>6. CASE Goto(c, "advance")
  <2>1. /\ call' \in [Callers -> Calls]
        /\ call'[c] = [call[c] EXCEPT !.step = "advance"]
        /\ \A d \in Callers \ {c} : call'[d] = call[d]
    BY <1>6, Stepped DEF IInv, Steps
  <2>2. /\ call'[c].cmd = "note-failure"
        /\ call'[c].plan = call[c].plan
        /\ call'[c].step = "advance"
        /\ call'[c].lock = call[c].lock
        /\ call'[c].arg = call[c].arg
    BY <1>1, <2>1 DEF IInv, TypeOK, Calls
  <2>3. OwnerInv(c)'
    BY <1>1, <1>4, <2>2 DEF OwnerInv, OwnedAt, Owner, AttemptKinds
  <2>4. CallInv(c)'
    BY <2>2, <2>3 DEF CallInv
  <2> QED
    BY <1>3, <1>4, <2>1, <2>4, ReadKeeps
<1> QED
  BY <1>4, <1>5, <1>6

LEMMA WriteAttemptKeeps ==
    ASSUME IInv, NEW c \in Callers, NEW kind \in AttemptKinds, WriteAttempt(c, kind)
    PROVE  IInv'
<1>1. OwnerInv(c) /\ call[c].cmd = kind
  BY DEF WriteAttempt, At, IInv, CallInv, OwnerCommands
<1>2. OwnedRecord(c, kind) \in Records
  <2>1. call[c].arg[1] \in PrepareKinds \cup Registries /\ call[c].arg[2] \in Minors
    BY <1>1 DEF OwnerInv
  <2> QED
    BY <1>1, <2>1, OwnedRecordOK DEF OwnerCommands
<1>3. records' \subseteq Records
  BY <1>2 DEF WriteAttempt, EnsureExact, IInv, TypeOK
<1> QED
  BY <1>3, Returned, ReadKeeps DEF WriteAttempt, IInv

LEMMA WriteResultKeeps ==
    ASSUME IInv, NEW c \in Callers, NEW kind \in AttemptKinds, NEW r \in records,
           WriteResult(c, kind, r)
    PROVE  IInv'
<1>1. r \in Records
  BY DEF IInv, TypeOK
<1>2. ResultKind(kind) \in ResultKinds
  BY DEF ResultKind, ResultKinds, AttemptKinds
<1>3. [r EXCEPT !.kind = ResultKind(kind)] \in Records
  BY <1>1, <1>2 DEF Records
<1>4. records' \subseteq Records
  BY <1>3 DEF WriteResult, EnsureExact, IInv, TypeOK
<1> QED
  BY <1>4, Returned, ReadKeeps DEF WriteResult, IInv

-----------------------------------------------------------------------------
(***************************************************************************)
(* finish.                                                                 *)
(***************************************************************************)
LEMMA FinishReadReceiptKeeps ==
    ASSUME IInv, NEW c \in Callers, NEW p \in Plans, NEW status \in Statuses,
           NEW result \in Results, FinishReadReceipt(c, p, status, result)
    PROVE  IInv'
<1> DEFINE k == [Idle EXCEPT !.cmd = "finish", !.plan = p, !.step = "lock",
                             !.arg = <<status, result>>, !.seen = receipt[p]]
<1>1. status \in AllowedFinish /\ <<status, result>> \in Arguments
  BY StatusesAssumption DEF Arguments
<1>2. receipt[p] \in Receipts \cup {Nothing}
  BY DEF IInv, TypeOK
<1>3. k \in Calls
  BY <1>1, <1>2 DEF Idle, Calls, AllCommands, Steps
<1>4. /\ k.cmd = "finish"
      /\ k.plan = p
      /\ k.step = "lock"
      /\ k.arg = <<status, result>>
      /\ k.seen = receipt[p]
  BY DEF Idle
<1>5. /\ call' \in [Callers -> Calls]
      /\ call'[c] = k
      /\ \A d \in Callers \ {c} : call'[d] = call[d]
  BY <1>3 DEF FinishReadReceipt, IInv, TypeOK
<1>6. FinishInv(c)'
  BY <1>1, <1>4, <1>5 DEF FinishInv, FinishReadReceipt, journal
<1>7. CallInv(c)'
  BY <1>4, <1>5, <1>6 DEF CallInv, OwnerCommands, AttemptKinds
<1> QED
  BY <1>5, <1>7, ReadKeeps DEF FinishReadReceipt, IInv, TypeOK, journal

\* A finish call that goes on to step s.
LEMMA FinishStepped ==
    ASSUME IInv, NEW c \in Callers, call[c].cmd = "finish",
           NEW s \in Steps,
           Goto(c, s)
    PROVE  /\ call' \in [Callers -> Calls]
           /\ \A d \in Callers \ {c} : call'[d] = call[d]
           /\ call'[c].plan = call[c].plan
           /\ call'[c].arg = call[c].arg
           /\ call'[c].seen = call[c].seen
           /\ call'[c].step = s
           /\ call'[c].lock = call[c].lock
           /\ FinishReceipt(c)' = FinishReceipt(c)
           /\ FinishInv(c)' => CallInv(c)'
<1>1. call[c] \in Calls
  BY DEF IInv, TypeOK
<1>2. /\ call' \in [Callers -> Calls]
      /\ \A d \in Callers \ {c} : call'[d] = call[d]
      /\ call'[c] = [call[c] EXCEPT !.step = s]
  BY Stepped DEF IInv
<1> QED
  BY <1>1, <1>2 DEF Calls, FinishReceipt, CallInv, OwnerCommands, AttemptKinds

\* A finish call that goes on to step s with the commit n.
LEMMA FinishSteppedAt ==
    ASSUME IInv, NEW c \in Callers, call[c].cmd = "finish",
           NEW s \in Steps, NEW n \in Nat,
           call' = [call EXCEPT ![c].step = s, ![c].lock = n]
    PROVE  /\ call' \in [Callers -> Calls]
           /\ \A d \in Callers \ {c} : call'[d] = call[d]
           /\ call'[c].plan = call[c].plan
           /\ call'[c].arg = call[c].arg
           /\ call'[c].seen = call[c].seen
           /\ call'[c].step = s
           /\ call'[c].lock = n
           /\ FinishReceipt(c)' = FinishReceipt(c)
           /\ FinishInv(c)' => CallInv(c)'
<1>1. call[c] \in Calls
  BY DEF IInv, TypeOK
<1>2. /\ call' \in [Callers -> Calls]
      /\ \A d \in Callers \ {c} : call'[d] = call[d]
      /\ call'[c] = [call[c] EXCEPT !.step = s, !.lock = n]
  BY SteppedAt DEF IInv
<1> QED
  BY <1>1, <1>2 DEF Calls, FinishReceipt, CallInv, OwnerCommands, AttemptKinds

\* What the acting finish call knows before it moves.
LEMMA FinishKnows ==
    ASSUME IInv, NEW c \in Callers, call[c].cmd = "finish"
    PROVE  /\ FinishInv(c)
           /\ call[c].lock \in Nat
           /\ FinishReceipt(c) \in Receipts
           /\ FinishReceipt(c) # Nothing
           /\ FinishReceipt(c).status = call[c].arg[1]
           /\ TerminalState(call[c].arg[1]) \in {"COMMITTED", "RECOVERED"}
<1>1. FinishInv(c) /\ call[c] \in Calls
  BY DEF IInv, CallInv, TypeOK
<1>2. FinishReceipt(c) \in Receipts
  BY <1>1 DEF FinishInv, FinishReceipt, Receipts
<1> QED
  BY <1>1, <1>2, NothingAssumption DEF FinishReceipt, TerminalState, Calls

\* An owner holds the lock.
LEMMA OwnedAtIsBy ==
    ASSUME OwnedHasOwner, TypeOK, NEW n, NEW p \in Plans, OwnedAt(n, p)
    PROVE  n \in DOMAIN chain /\ Owned(n) /\ By(n, p)
<1>1. Owner(p) \in Owners
  BY DEF OwnedAt, Owner, Owners, TypeOK
<1>2. Owned(n)
  BY <1>1, NothingAssumption DEF OwnedAt, OwnedHasOwner
<1> QED
  BY <1>2 DEF OwnedAt, By, Owner

LEMMA FinishAlreadyFreeKeeps ==
    ASSUME IInv, NEW c \in Callers, FinishAlreadyFree(c)
    PROVE  IInv'
<1> PICK p : p = call[c].plan
  OBVIOUS
<1>1. call[c].cmd = "finish"
  BY DEF FinishAlreadyFree, At
<1>2. FinishInv(c) /\ FinishReceipt(c) # Nothing /\ call[c].lock \in Nat
  BY <1>1, FinishKnows
<1>3. p \in Plans /\ receipt[p] = FinishReceipt(c)
  BY <1>2 DEF FinishInv, FinishAlreadyFree
<1>4. PICK T \in Nat : T = Tip
  BY DEF Tip, IInv, TypeOK
<1>5. T \in DOMAIN chain /\ DOMAIN chain = 1 .. T /\ ~Owned(T)
  BY <1>4 DEF FinishAlreadyFree, Tip, IInv, TypeOK, Owned
<1>6. PICK m \in DOMAIN chain : By(m, p)
  BY <1>2, <1>3 DEF IInv, ChainInv, ReceiptOfOwner
<1>7. m < T /\ ~By(T, p)
  BY <1>5, <1>6 DEF By
<1>8. UNCHANGED <<chain, planRecord, records, receipt>> /\ Goto(c, "ok")
  BY DEF FinishAlreadyFree, journal
<1>9. \E i, j \in DOMAIN chain' : i < j /\ By(i, p)' /\ ~By(j, p)'
  BY <1>5, <1>6, <1>7, <1>8 DEF By, Owned
<1>10. /\ call' \in [Callers -> Calls]
       /\ \A d \in Callers \ {c} : call'[d] = call[d]
       /\ call'[c].plan = p
       /\ call'[c].arg = call[c].arg
       /\ call'[c].seen = call[c].seen
       /\ call'[c].step = "ok"
       /\ FinishReceipt(c)' = FinishReceipt(c)
       /\ FinishInv(c)' => CallInv(c)'
  BY <1>1, <1>2, <1>8, FinishStepped DEF Steps
<1>11. FinishInv(c)'
  BY <1>2, <1>3, <1>8, <1>9, <1>10 DEF FinishInv
<1> QED
  BY <1>8, <1>10, <1>11, ReadKeeps DEF IInv, TypeOK

LEMMA FinishReadLockKeeps ==
    ASSUME IInv, NEW c \in Callers, FinishReadLock(c)
    PROVE  IInv'
<1> PICK p : p = call[c].plan
  OBVIOUS
<1>1. call[c].cmd = "finish"
  BY DEF FinishReadLock, At
<1>2. FinishInv(c)
  BY <1>1, FinishKnows
<1>3. PICK T \in Nat : T = Tip
  BY DEF Tip, IInv, TypeOK
<1>4. /\ UNCHANGED <<chain, planRecord, records, receipt>>
      /\ call' = [call EXCEPT ![c].step = "record", ![c].lock = T]
      /\ OwnedAt(T, p)
  BY <1>3 DEF FinishReadLock, journal
<1>5. /\ call' \in [Callers -> Calls]
      /\ \A d \in Callers \ {c} : call'[d] = call[d]
      /\ call'[c].plan = p
      /\ call'[c].arg = call[c].arg
      /\ call'[c].seen = call[c].seen
      /\ call'[c].step = "record"
      /\ call'[c].lock = T
      /\ FinishInv(c)' => CallInv(c)'
  BY <1>1, <1>2, <1>3, <1>4, FinishSteppedAt DEF Steps
<1>6. OwnedAt(T, p)'
  BY <1>4 DEF OwnedAt, Owner
<1>7. FinishInv(c)'
  BY <1>2, <1>4, <1>5, <1>6 DEF FinishInv
<1> QED
  BY <1>4, <1>5, <1>7, ReadKeeps DEF IInv, TypeOK

LEMMA FinishWriteReceiptKeeps ==
    ASSUME IInv, NEW c \in Callers, FinishWriteReceipt(c)
    PROVE  IInv'
<1> PICK p : p = call[c].plan
  OBVIOUS
<1> DEFINE r == FinishReceipt(c)
<1>1. call[c].cmd = "finish" /\ call[c].step = "record"
  BY DEF FinishWriteReceipt, At
<1>2. FinishInv(c) /\ r \in Receipts /\ r # Nothing /\ call[c].lock \in Nat
  BY <1>1, FinishKnows
<1>3. p \in Plans /\ OwnedAt(call[c].lock, p)
  BY <1>1, <1>2 DEF FinishInv
<1>4. /\ receipt[p] \in {Nothing, r}
      /\ receipt' = [receipt EXCEPT ![p] = r]
      /\ UNCHANGED <<chain, planRecord, records>>
      /\ Goto(c, "recheck")
  BY DEF FinishWriteReceipt
<1>5. \E n \in DOMAIN chain : By(n, p)
  BY <1>3, OwnedAtIsBy DEF IInv, ChainInv
<1>6. ChainInv'
  BY <1>2, <1>3, <1>4, <1>5, ReceiptKeeps DEF IInv
<1>7. /\ receipt' \in [Plans -> Receipts \cup {Nothing}]
      /\ receipt'[p] = r
      /\ \A q \in Plans : receipt[q] # Nothing => receipt'[q] = receipt[q]
  BY <1>2, <1>3, <1>4 DEF IInv, TypeOK
<1>8. Grows
  BY <1>4, <1>7 DEF Grows
<1>9. /\ call' \in [Callers -> Calls]
      /\ \A d \in Callers \ {c} : call'[d] = call[d]
      /\ call'[c].plan = p
      /\ call'[c].arg = call[c].arg
      /\ call'[c].seen = call[c].seen
      /\ call'[c].step = "recheck"
      /\ FinishReceipt(c)' = r
      /\ FinishInv(c)' => CallInv(c)'
  BY <1>1, <1>2, <1>4, FinishStepped DEF Steps
<1>10. FinishInv(c)'
  BY <1>2, <1>3, <1>7, <1>9 DEF FinishInv
<1> QED
  BY <1>4, <1>6, <1>7, <1>8, <1>9, <1>10, StepKeeps DEF IInv, TypeOK

LEMMA FinishRecheckKeeps ==
    ASSUME IInv, NEW c \in Callers, FinishRecheck(c)
    PROVE  IInv'
<1> PICK p : p = call[c].plan
  OBVIOUS
<1>1. call[c].cmd = "finish" /\ call[c].step = "recheck"
  BY DEF FinishRecheck, At
<1>2. /\ FinishInv(c)
      /\ FinishReceipt(c) # Nothing
      /\ FinishReceipt(c).status = call[c].arg[1]
  BY <1>1, FinishKnows
<1>3. PICK T \in Nat : T = Tip
  BY DEF Tip, IInv, TypeOK
<1>4. PICK s \in {"free", "terminal"} :
         s = IF chain[T].state = TerminalState(call[c].arg[1]) THEN "free" ELSE "terminal"
  OBVIOUS
<1>5. /\ UNCHANGED <<chain, planRecord, records, receipt>>
      /\ call' = [call EXCEPT ![c].step = s, ![c].lock = T]
      /\ OwnedAt(T, p)
  BY <1>3, <1>4 DEF FinishRecheck, journal
<1>6. /\ call' \in [Callers -> Calls]
      /\ \A d \in Callers \ {c} : call'[d] = call[d]
      /\ call'[c].plan = p
      /\ call'[c].arg = call[c].arg
      /\ call'[c].seen = call[c].seen
      /\ call'[c].step = s
      /\ call'[c].lock = T
      /\ FinishReceipt(c)' = FinishReceipt(c)
      /\ FinishInv(c)' => CallInv(c)'
  BY <1>1, <1>2, <1>3, <1>5, FinishSteppedAt DEF Steps
<1>7. p \in Plans /\ receipt[p] = FinishReceipt(c)
  BY <1>1, <1>2 DEF FinishInv
<1>8. T \in DOMAIN chain /\ Owned(T) /\ chain[T].owner.plan = p
  BY <1>5, <1>7, OwnedAtIsBy DEF IInv, ChainInv, By
<1>9. s = "terminal" => chain[T].state \in MutableOwnerStates \cup {"BLOCKED"}
  <2>1. chain[T].state \in LockStates \ {"FREE"}
    BY <1>8, CommitOK DEF IInv, Owned
  <2>2. chain[T].state \in {"COMMITTED", "RECOVERED"} =>
           chain[T].state = TerminalState(call[c].arg[1])
    BY <1>2, <1>7, <1>8 DEF IInv, ChainInv, TerminalHasReceipt, ReceiptFits
  <2> QED
    BY <1>4, <2>1, <2>2 DEF LockStates, MutableOwnerStates
<1>10. FinishInv(c)'
  <2>1. OwnedAt(T, p)'
    BY <1>5 DEF OwnedAt, Owner
  <2> QED
    BY <1>2, <1>4, <1>5, <1>6, <1>7, <1>9, <2>1 DEF FinishInv
<1> QED
  BY <1>5, <1>6, <1>10, ReadKeeps DEF IInv, TypeOK

LEMMA FinishTerminalKeeps ==
    ASSUME IInv, NEW c \in Callers, FinishTerminal(c)
    PROVE  IInv'
<1> PICK p : p = call[c].plan
  OBVIOUS
<1>1. call[c].cmd = "finish" /\ call[c].step = "terminal"
  BY DEF FinishTerminal, At
<1>2. PICK s \in {"COMMITTED", "RECOVERED"} : s = TerminalState(call[c].arg[1])
  BY <1>1, FinishKnows
<1>3. /\ FinishInv(c)
      /\ FinishReceipt(c) # Nothing
      /\ FinishReceipt(c).status = call[c].arg[1]
  BY <1>1, FinishKnows
<1>4. PICK T \in Nat, N \in Nat : T = Tip /\ N = T + 1
  BY DEF Tip, IInv, TypeOK
<1>5. /\ call[c].lock = T
      /\ chain' = Append(chain, Transition(T, s))
      /\ call' = [call EXCEPT ![c].step = "free", ![c].lock = N]
      /\ UNCHANGED <<planRecord, records, receipt>>
  BY <1>2, <1>4 DEF FinishTerminal, AdvanceLock, journal
<1>6. /\ p \in Plans
      /\ OwnedAt(T, p)
      /\ chain[T].state \in MutableOwnerStates \cup {"BLOCKED"}
      /\ receipt[p] = FinishReceipt(c)
      /\ T \in DOMAIN chain
  BY <1>1, <1>3, <1>5 DEF FinishInv, OwnedAt
<1>7. Phase(s) > Phase(chain[T].state)
  BY <1>2, <1>6 DEF Phase, MutableOwnerStates
<1>8. Transition(T, s) \in Commits
  <2>1. chain[T] \in Commits
    BY <1>6, CommitOK DEF IInv
  <2> QED
    BY <1>2, <2>1 DEF Transition, Commits, LockStates
<1>9. ChainInv'
  <2>1. ReceiptFits(p, s)
    BY <1>2, <1>3, <1>6 DEF ReceiptFits
  <2> QED
    BY <1>2, <1>4, <1>5, <1>6, <1>7, <2>1, TransitionKeeps DEF IInv, LockStates
<1>10. /\ call' \in [Callers -> Calls]
       /\ \A d \in Callers \ {c} : call'[d] = call[d]
       /\ call'[c].plan = p
       /\ call'[c].arg = call[c].arg
       /\ call'[c].seen = call[c].seen
       /\ call'[c].step = "free"
       /\ call'[c].lock = N
       /\ FinishReceipt(c)' = FinishReceipt(c)
       /\ FinishInv(c)' => CallInv(c)'
  BY <1>1, <1>3, <1>4, <1>5, FinishSteppedAt DEF Steps
<1>11. OwnedAt(N, p)' /\ chain'[N].state = s
  <2>1. N \in DOMAIN chain' /\ chain'[N] = Transition(T, s)
    BY <1>4, <1>5, <1>8, Appended DEF IInv
  <2>2. Transition(T, s).state = s /\ Transition(T, s).owner = Owner(p)
    BY <1>6, CommitOK DEF Transition, OwnedAt, Commits, IInv
  <2> QED
    BY <1>5, <1>6, <2>1, <2>2 DEF OwnedAt, Owner
<1>12. FinishInv(c)'
  BY <1>2, <1>3, <1>5, <1>6, <1>10, <1>11 DEF FinishInv
<1> QED
  BY <1>5, <1>8, <1>9, <1>10, <1>12, AppendKeeps DEF journal

LEMMA FinishFreeKeeps ==
    ASSUME IInv, NEW c \in Callers, FinishFree(c)
    PROVE  IInv'
<1> PICK p : p = call[c].plan
  OBVIOUS
<1>1. call[c].cmd = "finish" /\ call[c].step = "free"
  BY DEF FinishFree, At
<1>2. /\ FinishInv(c)
      /\ TerminalState(call[c].arg[1]) \in {"COMMITTED", "RECOVERED"}
      /\ call[c].lock \in Nat
  BY <1>1, FinishKnows
<1>3. PICK T \in Nat : T = Tip
  BY DEF Tip, IInv, TypeOK
<1> DEFINE x == [Transition(T, "FREE") EXCEPT !.owner = Nothing]
<1>4. /\ call[c].lock = T
      /\ chain' = Append(chain, x)
      /\ Goto(c, "ok")
      /\ UNCHANGED <<planRecord, records, receipt>>
  BY <1>3 DEF FinishFree, AdvanceLock, journal
<1>5. /\ p \in Plans
      /\ OwnedAt(T, p)
      /\ chain[T].state \in {"COMMITTED", "RECOVERED"}
      /\ receipt[p] = FinishReceipt(c)
      /\ T \in DOMAIN chain
  BY <1>1, <1>2, <1>4 DEF FinishInv, OwnedAt
<1>6. x \in Commits /\ x.state = "FREE"
  <2>1. chain[T] \in Commits
    BY <1>5, CommitOK DEF IInv
  <2> QED
    BY <2>1 DEF Transition, Commits, LockStates
<1>7. ChainInv'
  BY <1>3, <1>4, <1>5, ReleaseKeeps DEF IInv
<1>8. /\ call' \in [Callers -> Calls]
      /\ \A d \in Callers \ {c} : call'[d] = call[d]
      /\ call'[c].plan = p
      /\ call'[c].arg = call[c].arg
      /\ call'[c].seen = call[c].seen
      /\ call'[c].step = "ok"
      /\ FinishReceipt(c)' = FinishReceipt(c)
      /\ FinishInv(c)' => CallInv(c)'
  BY <1>1, <1>2, <1>4, FinishStepped DEF Steps
<1>9. PICK N \in Nat : N = T + 1
  OBVIOUS
<1>10. /\ T \in DOMAIN chain' /\ N \in DOMAIN chain'
       /\ chain'[T] = chain[T] /\ chain'[N] = x
  BY <1>3, <1>4, <1>5, <1>6, <1>9, Appended DEF IInv
<1>11. By(T, p)' /\ ~By(N, p)'
  <2>1. By(T, p)
    BY <1>5, OwnedAtIsBy DEF IInv, ChainInv
  <2> QED
    BY <1>6, <1>10, <2>1 DEF By, Owned
<1>12. FinishInv(c)'
  BY <1>2, <1>4, <1>5, <1>8, <1>9, <1>10, <1>11 DEF FinishInv
<1> QED
  BY <1>4, <1>6, <1>7, <1>8, <1>12, AppendKeeps DEF journal

-----------------------------------------------------------------------------
(***************************************************************************)
(* The invariant.                                                          *)
(***************************************************************************)
LEMMA InitInv == Init => IInv
<1> SUFFICES ASSUME Init PROVE IInv
  OBVIOUS
<1>1. chain = <<>> /\ DOMAIN chain = {}
  BY DEF Init
<1>2. TypeOK
  <2>1. Idle \in Calls
    BY DEF Idle, Calls, Arguments, Steps
  <2>2. <<>> \in Seq(Commits)
    OBVIOUS
  <2> QED
    BY <2>1, <2>2 DEF Init, TypeOK
<1>3. ChainInv
  <2>1. \A p \in Plans : receipt[p] = Nothing
    BY DEF Init
  <2> QED
    BY <1>1, <2>1
       DEF ChainInv, OwnedHasOwner, OwnerIsJournaled, LostOnlyWithReceipt, NeverRegained,
           GenerationsGrow, OneGenerationPerPlan, ReceiptOfOwner, TerminalHasReceipt,
           ReleasedWithReceipt, LifecycleMovesOn
<1>4. \A c \in Callers : CallInv(c)
  <2>1. \A c \in Callers : call[c] = Idle
    BY DEF Init
  <2>2. Idle.cmd = "none" /\ "none" \notin OwnerCommands
    BY DEF Idle, OwnerCommands, AttemptKinds
  <2> QED
    BY <2>1, <2>2 DEF CallInv
<1> QED
  BY <1>2, <1>3, <1>4 DEF IInv

LEMMA BeginInvariant ==
    ASSUME IInv, NEW c \in Callers, Begin(c) PROVE IInv'
BY BeginPlanRecordKeeps, BeginEnsureLockKeeps, BeginReadLockKeeps,
   BeginReadReceiptKeeps, BeginAlreadyOwnerKeeps, BeginAdvanceKeeps DEF Begin

LEMMA LifecycleInvariant ==
    ASSUME IInv, NEW c \in Callers, Lifecycle(c) PROVE IInv'
BY ActivateReadKeeps, RecoverBeginReadKeeps, NoteFailureReadKeeps,
   ActivateAdvanceKeeps, RecoverBeginAdvanceKeeps, NoteFailureRecordKeeps,
   NoteFailureAdvanceKeeps DEF Lifecycle

LEMMA PublishInvariant ==
    ASSUME IInv, NEW c \in Callers, Publish(c) PROVE IInv'
<1>1. ASSUME NEW p \in Plans, NEW kind \in AttemptKinds, NEW m \in Minors,
             NEW o \in Objects(kind, p),
             AttemptRead(c, p, kind, o, m) \/ CompleteRead(c, p, kind, o, m)
      PROVE  IInv'
  BY <1>1, AttemptReadKeeps, CompleteReadKeeps
<1>2. ASSUME NEW kind \in AttemptKinds, WriteAttempt(c, kind)
      PROVE  IInv'
  BY <1>2, WriteAttemptKeeps
<1>3. ASSUME NEW kind \in AttemptKinds, NEW r \in records, WriteResult(c, kind, r)
      PROVE  IInv'
  BY <1>3, WriteResultKeeps
<1>4. ASSUME Write(c)
      PROVE  \E kind \in AttemptKinds :
                WriteAttempt(c, kind) \/ \E r \in records : WriteResult(c, kind, r)
  BY <1>4 DEF Write, PrepareAttempt, Attempt, ReferrerAttempt, RecoveryAttempt,
              RecoveryReferrerAttempt, PrepareComplete, Complete, ReferrerComplete,
              RecoveryComplete, RecoveryReferrerComplete, AttemptKinds
<1> QED
  BY <1>1, <1>2, <1>3, <1>4 DEF Publish

LEMMA FinishInvariant ==
    ASSUME IInv, NEW c \in Callers, Finish(c) PROVE IInv'
BY FinishReadReceiptKeeps, FinishAlreadyFreeKeeps, FinishReadLockKeeps,
   FinishWriteReceiptKeeps, FinishRecheckKeeps, FinishTerminalKeeps, FinishFreeKeeps
   DEF Finish

LEMMA NextInv == IInv /\ [Next]_vars => IInv'
<1> SUFFICES ASSUME IInv, [Next]_vars PROVE IInv'
  OBVIOUS
<1>1. CASE UNCHANGED vars
  BY <1>1
     DEF vars, IInv, TypeOK, ChainInv, OwnedHasOwner, OwnerIsJournaled,
         LostOnlyWithReceipt, NeverRegained, GenerationsGrow, OneGenerationPerPlan,
         ReceiptOfOwner, TerminalHasReceipt, ReleasedWithReceipt, LifecycleMovesOn,
         Owned, By, Owner, ReceiptFits, CallInv, BeginInv, OwnerInv, FinishInv, OwnedAt,
         FinishReceipt
<1>2. ASSUME NEW c \in Callers, Begin(c) PROVE IInv'
  BY <1>2, BeginInvariant
<1>3. ASSUME NEW c \in Callers, Lifecycle(c) PROVE IInv'
  BY <1>3, LifecycleInvariant
<1>4. ASSUME NEW c \in Callers, Publish(c) PROVE IInv'
  BY <1>4, PublishInvariant
<1>5. ASSUME NEW c \in Callers, Finish(c) PROVE IInv'
  BY <1>5, FinishInvariant
<1>6. ASSUME NEW c \in Callers, Stop(c) PROVE IInv'
  BY <1>6, StopKeeps
<1> QED
  BY <1>1, <1>2, <1>3, <1>4, <1>5, <1>6 DEF Next

LEMMA Invariant == Spec => []IInv
BY InitInv, NextInv, PTL DEF Spec

-----------------------------------------------------------------------------
(***************************************************************************)
(* The results.                                                            *)
(***************************************************************************)
\* Type correctness: whatever the interleaving, the journal holds only lock
\* commits, records and receipts of the shape the validators accept.
THEOREM TypeCorrect == Spec => []TypeOK
<1>1. IInv => TypeOK
  BY DEF IInv
<1> QED
  BY <1>1, Invariant, PTL

\* The owner of every lock commit is the identity in its plan record, so the
\* calls of the transaction that raced to begin it are all recognised.
THEOREM Identity == Spec => []OwnerIsJournaled
<1>1. IInv => OwnerIsJournaled
  BY DEF IInv, ChainInv
<1> QED
  BY <1>1, Invariant, PTL

\* A generation of the lock belongs to one transaction, and a transaction has
\* the lock in one generation only: begin never hands the lock to a
\* transaction that has been decided.
THEOREM Fencing == Spec => []OneGenerationPerPlan
<1>1. IInv => OneGenerationPerPlan
  BY DEF IInv, ChainInv
<1> QED
  BY <1>1, Invariant, PTL

\* finish releases the lock only from the terminal state that the receipt of
\* the transaction holding it journals.
THEOREM Released == Spec => []ReleasedWithReceipt
<1>1. IInv => ReleasedWithReceipt
  BY DEF IInv, ChainInv
<1> QED
  BY <1>1, Invariant, PTL

\* Within a generation the lock state never moves back, whichever of the
\* racing activate, recover-begin, note-failure and finish calls wins.
THEOREM MovesOn == Spec => []LifecycleMovesOn
<1>1. IInv => LifecycleMovesOn
  BY DEF IInv, ChainInv
<1> QED
  BY <1>1, Invariant, PTL

\* Exit status 0 of finish means a receipt of its own and a lock that is
\* someone else's or free, for good; exit status 0 of begin means the
\* transaction has held the lock.
THEOREM ExitZero == Spec => []ExitZeroIsDurable
<1>1. IInv => ExitZeroIsDurable
  <2>1. SUFFICES ASSUME IInv, NEW c \in Callers
                 PROVE  /\ At(c, "finish", "ok") =>
                              /\ receipt[call[c].plan] = FinishReceipt(c)
                              /\ ~OwnedAt(Tip, call[c].plan)
                        /\ At(c, "begin", "ok") =>
                              \E n \in DOMAIN chain : OwnedAt(n, call[c].plan)
    BY DEF ExitZeroIsDurable
  <2>2. ASSUME At(c, "finish", "ok")
        PROVE  /\ receipt[call[c].plan] = FinishReceipt(c)
               /\ ~OwnedAt(Tip, call[c].plan)
    <3>1. FinishInv(c) /\ call[c].step = "ok"
      BY <2>1, <2>2 DEF At, IInv, CallInv
    <3>2. PICK m, n \in DOMAIN chain : m < n /\ By(m, call[c].plan) /\ ~By(n, call[c].plan)
      BY <3>1 DEF FinishInv
    <3>3. PICK T \in Nat : T = Tip /\ DOMAIN chain = 1 .. T
      BY <2>1 DEF Tip, IInv, TypeOK
    <3>4. T \in DOMAIN chain /\ (n < T \/ n = T)
      BY <3>2, <3>3
    <3>5. call[c].plan \in Plans /\ ~By(T, call[c].plan)
      BY <2>1, <3>1, <3>2, <3>4 DEF FinishInv, IInv, ChainInv, NeverRegained
    <3>6. ~OwnedAt(T, call[c].plan)
      BY <2>1, <3>5, OwnedAtIsBy DEF IInv, ChainInv
    <3> QED
      BY <3>1, <3>3, <3>6 DEF FinishInv
  <2>3. ASSUME At(c, "begin", "ok")
        PROVE  \E n \in DOMAIN chain : OwnedAt(n, call[c].plan)
    BY <2>1, <2>3 DEF At, IInv, CallInv, BeginInv
  <2> QED
    BY <2>2, <2>3
<1> QED
  BY <1>1, Invariant, PTL

-----------------------------------------------------------------------------
(***************************************************************************)
(* The journal implements Ownership: begin's compare-and-swap acquires,    *)
(* the first receipt decides, finish's last compare-and-swap releases, and *)
(* every other step leaves the ownership alone.                            *)
(***************************************************************************)
\* A commit that keeps the owner and the generation is no step of Ownership.
LEMMA TransitionIsStutter ==
    ASSUME IInv, NEW n \in DOMAIN chain, NEW s \in LockStates \ {"FREE"}, Owned(n),
           AdvanceLock(n, Transition(n, s)), UNCHANGED receipt
    PROVE  UNCHANGED <<Holder, Generation, Decisions>>
<1>1. PICK T \in Nat : T = Tip /\ n = T /\ chain # <<>>
  BY DEF AdvanceLock, Tip, IInv, TypeOK
<1>2. chain[T] \in Commits
  BY <1>1, CommitOK DEF IInv
<1>3. /\ chain' = Append(chain, Transition(T, s))
      /\ Transition(T, s) \in Commits
      /\ Transition(T, s).state = s
      /\ Transition(T, s).owner = chain[T].owner
      /\ Transition(T, s).generation = chain[T].generation
  BY <1>1, <1>2 DEF AdvanceLock, Transition, Commits
<1>4. PICK N : N = T + 1
  OBVIOUS
<1>5. Tip' = N /\ chain'[N] = Transition(T, s) /\ chain' # <<>>
  BY <1>1, <1>3, <1>4 DEF Tip, IInv, TypeOK
<1>6. Holder = chain[T].owner.plan /\ Generation = chain[T].generation
  BY <1>1 DEF Holder, Generation
<1>7. Holder' = chain'[N].owner.plan /\ Generation' = chain'[N].generation
  BY <1>3, <1>5 DEF Holder, Generation, Owned
<1>8. UNCHANGED Decisions
  BY DEF Decisions, Outcome
<1> QED
  BY <1>3, <1>5, <1>6, <1>7, <1>8

LEMMA AcquireStep ==
    ASSUME IInv, NEW c \in Callers, BeginAdvance(c)
    PROVE  Abstract!Next
<1>1. PICK p : p = call[c].plan
  OBVIOUS
<1>2. BeginInv(c) /\ call[c].step = "advance"
  BY DEF BeginAdvance, At, IInv, CallInv
<1>3. PICK T \in Nat : T = Tip /\ T = call[c].lock /\ T \in DOMAIN chain /\ DOMAIN chain = 1 .. T
  BY <1>2 DEF BeginInv, BeginAdvance, AdvanceLock, Tip, IInv, TypeOK
<1>4. p \in Plans /\ ~Owned(T) /\ \A n \in 1 .. T : ~By(n, p)
  BY <1>1, <1>2, <1>3 DEF BeginInv
<1>5. receipt[p] = Nothing
  BY <1>3, <1>4 DEF IInv, ChainInv, ReceiptOfOwner
<1>6. chain[T].generation \in Nat /\ chain # <<>>
  BY <1>3, CommitOK DEF IInv
<1> DEFINE x == [state |-> "PREPARED", generation |-> chain[T].generation + 1,
                 owner |-> [plan |-> p, fence |-> call[c].seen]]
<1>7. PICK N : N = T + 1
  OBVIOUS
<1>8. Tip' = N /\ chain'[N] = x /\ chain' # <<>>
  BY <1>1, <1>3, <1>7 DEF BeginAdvance, AdvanceLock, Tip, IInv, TypeOK
<1>9. Holder = Nothing /\ Generation = chain[T].generation
  BY <1>3, <1>4, <1>6 DEF Holder, Generation
<1>10. Holder' = p /\ Generation' = Generation + 1
  BY <1>8, <1>9 DEF Holder, Generation, Owned
<1>11. UNCHANGED Decisions /\ Decisions[p] = "open"
  BY <1>4, <1>5 DEF BeginAdvance, journal, Decisions, Outcome
<1>12. Abstract!Acquire(p)
  BY <1>9, <1>10, <1>11 DEF Abstract!Acquire, Generation, Decisions
<1> QED
  BY <1>4, <1>12 DEF Abstract!Next

LEMMA DecideStep ==
    ASSUME IInv, NEW c \in Callers, FinishWriteReceipt(c)
    PROVE  Abstract!Next \/ UNCHANGED <<Holder, Generation, Decisions>>
<1>1. PICK p, r : p = call[c].plan /\ r = FinishReceipt(c)
  OBVIOUS
<1>2. call[c].cmd = "finish" /\ call[c].step = "record"
  BY DEF FinishWriteReceipt, At
<1>3. FinishInv(c) /\ r \in Receipts /\ r # Nothing
  BY <1>1, <1>2, FinishKnows
<1>4. /\ receipt[p] \in {Nothing, r}
      /\ receipt' = [receipt EXCEPT ![p] = r]
      /\ UNCHANGED chain
  BY <1>1 DEF FinishWriteReceipt
<1>5. UNCHANGED <<Holder, Generation>>
  BY <1>4 DEF Holder, Generation, Owned, Tip
<1>6. p \in Plans /\ OwnedAt(call[c].lock, p)
  BY <1>1, <1>2, <1>3 DEF FinishInv
<1>7. CASE receipt[p] = r
  <2>1. receipt' = receipt
    BY <1>4, <1>6, <1>7 DEF IInv, TypeOK
  <2>2. UNCHANGED Decisions
    BY <2>1 DEF Decisions, Outcome
  <2> QED
    BY <1>5, <2>2
<1>8. CASE receipt[p] = Nothing
  <2>1. PICK l \in DOMAIN chain : l = call[c].lock /\ By(l, p)
    BY <1>6, OwnedAtIsBy DEF IInv, ChainInv
  <2>2. PICK T \in Nat : T = Tip /\ DOMAIN chain = 1 .. T /\ chain # <<>>
    BY <2>1 DEF Tip, IInv, TypeOK
  <2>3. T \in DOMAIN chain /\ (l < T \/ l = T)
    BY <2>1, <2>2
  <2>4. By(T, p)
    BY <1>6, <1>8, <2>1, <2>3 DEF IInv, ChainInv, LostOnlyWithReceipt
  <2>5. Holder = p
    BY <2>2, <2>4 DEF Holder, By
  <2>6. PICK o \in {"committed", "recovered"} :
           o = IF r.status = "committed" THEN "committed" ELSE "recovered"
    OBVIOUS
  <2>7. /\ receipt'[p] = r
        /\ \A q \in Plans \ {p} : receipt'[q] = receipt[q]
    BY <1>4, <1>6 DEF IInv, TypeOK
  <2>8. Outcome(p) = "open" /\ Outcome(p)' = o
    BY <1>3, <1>8, <2>6, <2>7 DEF Outcome
  <2>9. \A q \in Plans \ {p} : Outcome(q)' = Outcome(q)
    BY <2>7 DEF Outcome
  <2>10. Decisions' = [Decisions EXCEPT ![p] = o] /\ Decisions[p] = "open"
    BY <1>6, <2>8, <2>9 DEF Decisions
  <2>11. Abstract!Decide(p, o)
    BY <1>5, <2>5, <2>10 DEF Abstract!Decide
  <2>12. o \in Abstract!Outcomes \ {"open"}
    BY <2>6 DEF Abstract!Outcomes
  <2> QED
    BY <1>6, <2>11, <2>12 DEF Abstract!Next
<1> QED
  BY <1>4, <1>7, <1>8

LEMMA ReleaseStep ==
    ASSUME IInv, NEW c \in Callers, FinishFree(c)
    PROVE  Abstract!Next
<1>1. PICK p : p = call[c].plan
  OBVIOUS
<1>2. call[c].cmd = "finish" /\ call[c].step = "free"
  BY DEF FinishFree, At
<1>3. FinishInv(c) /\ FinishReceipt(c) # Nothing
  BY <1>2, FinishKnows
<1>4. PICK T \in Nat : T = Tip /\ T = call[c].lock
  BY DEF FinishFree, AdvanceLock, Tip, IInv, TypeOK
<1>5. /\ p \in Plans
      /\ OwnedAt(T, p)
      /\ receipt[p] # Nothing
  BY <1>1, <1>2, <1>3, <1>4 DEF FinishInv
<1>6. T \in DOMAIN chain /\ By(T, p) /\ chain # <<>>
  BY <1>5, OwnedAtIsBy DEF IInv, ChainInv, TypeOK
<1>7. chain[T] \in Commits
  BY <1>6, CommitOK DEF IInv
<1> DEFINE x == [Transition(T, "FREE") EXCEPT !.owner = Nothing]
<1>8. x.state = "FREE" /\ x.generation = chain[T].generation
  BY <1>7 DEF Transition, Commits
<1>9. PICK N : N = T + 1
  OBVIOUS
<1>10. Tip' = N /\ chain'[N] = x /\ chain' # <<>>
  BY <1>4, <1>9 DEF FinishFree, AdvanceLock, Tip, IInv, TypeOK
<1>11. Holder = p /\ Generation = chain[T].generation
  BY <1>4, <1>6 DEF Holder, Generation, By
<1>12. Holder' = Nothing /\ Generation' = Generation
  BY <1>8, <1>10, <1>11 DEF Holder, Generation, Owned
<1>13. UNCHANGED Decisions /\ Decisions[p] # "open"
  BY <1>5 DEF FinishFree, journal, Decisions, Outcome
<1>14. Abstract!Release(p)
  BY <1>11, <1>12, <1>13 DEF Abstract!Release
<1> QED
  BY <1>5, <1>14 DEF Abstract!Next

\* A step that leaves the lock branch and the receipts alone is a stutter.
LEMMA OtherStep ==
    ASSUME UNCHANGED <<chain, receipt>>
    PROVE  UNCHANGED <<Holder, Generation, Decisions>>
BY DEF Holder, Generation, Decisions, Owned, Tip, Outcome

LEMMA EnsureLockStep ==
    ASSUME NEW c, BeginEnsureLock(c)
    PROVE  UNCHANGED <<Holder, Generation, Decisions>>
<1>1. chain = <<>> /\ UNCHANGED receipt
  BY DEF BeginEnsureLock
<1>2. PICK x : x = [state |-> "FREE", generation |-> 0, owner |-> Nothing]
  OBVIOUS
<1>3. chain' = <<x>> /\ x.state = "FREE" /\ x.generation = 0
  BY <1>2 DEF BeginEnsureLock
<1>4. Tip' = 1 /\ chain'[1] = x /\ chain' # <<>>
  BY <1>3 DEF Tip
<1>5. Holder = Nothing /\ Generation = 0
  BY <1>1 DEF Holder, Generation
<1>6. Holder' = Nothing /\ Generation' = 0
  BY <1>3, <1>4 DEF Holder, Generation, Owned
<1> QED
  BY <1>1, <1>5, <1>6 DEF Decisions, Outcome

LEMMA LifecycleStep ==
    ASSUME IInv, NEW c \in Callers, Lifecycle(c)
    PROVE  UNCHANGED <<Holder, Generation, Decisions>>
<1>1. CASE UNCHANGED <<chain, receipt>>
  BY <1>1, OtherStep
<1>2. CASE ActivateAdvance(c) \/ RecoverBeginAdvance(c) \/ NoteFailureAdvance(c)
  <2>1. /\ OwnerInv(c)
        /\ UNCHANGED receipt
        /\ \E s \in LockStates \ {"FREE"} :
              AdvanceLock(call[c].lock, Transition(call[c].lock, s))
    BY <1>2 DEF ActivateAdvance, RecoverBeginAdvance, NoteFailureAdvance, At, IInv,
                CallInv, OwnerCommands, journal, FailureState, LockStates
  <2>2. call[c].lock \in DOMAIN chain /\ Owned(call[c].lock)
    BY <2>1, OwnedAtIsBy DEF OwnerInv, IInv, ChainInv
  <2> QED
    BY <2>1, <2>2, TransitionIsStutter
<1> QED
  BY <1>1, <1>2 DEF Lifecycle, ActivateRead, RecoverBeginRead, NoteFailureRead,
                    RequireOwner, NoteFailureRecord, journal

LEMMA FinishStep ==
    ASSUME IInv, NEW c \in Callers, Finish(c)
    PROVE  Abstract!Next \/ UNCHANGED <<Holder, Generation, Decisions>>
<1>1. CASE UNCHANGED <<chain, receipt>>
  BY <1>1, OtherStep
<1>2. CASE FinishWriteReceipt(c)
  BY <1>2, DecideStep
<1>3. CASE FinishFree(c)
  BY <1>3, ReleaseStep
<1>4. CASE FinishTerminal(c)
  <2>1. FinishInv(c) /\ call[c].step = "terminal"
    BY <1>4 DEF FinishTerminal, At, IInv, CallInv
  <2>2. call[c].lock \in DOMAIN chain /\ Owned(call[c].lock)
    BY <2>1, OwnedAtIsBy DEF FinishInv, IInv, ChainInv
  <2>3. TerminalState(call[c].arg[1]) \in LockStates \ {"FREE"}
    BY DEF TerminalState, LockStates
  <2> QED
    BY <1>4, <2>2, <2>3, TransitionIsStutter DEF FinishTerminal, journal
<1> QED
  BY <1>1, <1>2, <1>3, <1>4
     DEF Finish, FinishReadReceipt, FinishAlreadyFree, FinishReadLock, FinishRecheck, journal

\* The journal implements Ownership: one holder at a time, decided once while
\* it holds the lock, released only when decided, never taken back.
THEOREM Implementation == Spec => OwnershipIsImplemented
<1>1. Init => Abstract!Init
  BY DEF Init, Abstract!Init, Holder, Generation, Decisions, Outcome
<1>2. IInv /\ [Next]_vars => [Abstract!Next]_<<Holder, Generation, Decisions>>
  <2>1. SUFFICES ASSUME IInv, [Next]_vars
                 PROVE  Abstract!Next \/ UNCHANGED <<Holder, Generation, Decisions>>
    OBVIOUS
  <2>2. CASE UNCHANGED vars
    BY <2>2, OtherStep DEF vars
  <2>3. ASSUME NEW c \in Callers, Begin(c)
        PROVE  Abstract!Next \/ UNCHANGED <<Holder, Generation, Decisions>>
    BY <2>1, <2>3, AcquireStep, EnsureLockStep, OtherStep
       DEF Begin, BeginPlanRecord, BeginReadLock, BeginReadReceipt, BeginAlreadyOwner, journal
  <2>4. ASSUME NEW c \in Callers, Lifecycle(c)
        PROVE  UNCHANGED <<Holder, Generation, Decisions>>
    BY <2>1, <2>4, LifecycleStep
  <2>5. ASSUME NEW c \in Callers, Publish(c) \/ Stop(c)
        PROVE  UNCHANGED <<chain, receipt>>
    BY <2>5 DEF Publish, AttemptRead, CompleteRead, RequireOwner, Write, WriteAttempt,
                WriteResult, PrepareAttempt, Attempt, ReferrerAttempt, RecoveryAttempt,
                RecoveryReferrerAttempt, PrepareComplete, Complete, ReferrerComplete,
                RecoveryComplete, RecoveryReferrerComplete, Stop, journal
  <2>6. ASSUME NEW c \in Callers, Finish(c)
        PROVE  Abstract!Next \/ UNCHANGED <<Holder, Generation, Decisions>>
    BY <2>1, <2>6, FinishStep
  <2> QED
    BY <2>1, <2>2, <2>3, <2>4, <2>5, <2>6, OtherStep DEF Next
<1> QED
  BY <1>1, <1>2, Invariant, PTL DEF Spec, OwnershipIsImplemented, Abstract!Spec

=============================================================================
