----------------------------- MODULE Ownership ------------------------------
(***************************************************************************)
(* What the transaction journal promises about the right to publish,       *)
(* without its records, its commits or the processes that race for it: one *)
(* transaction holds the lock at a time, it is decided at most once and    *)
(* only while it holds the lock, it gives the lock up only when it is      *)
(* decided, and a decided transaction never takes the lock again.          *)
(***************************************************************************)
EXTENDS Naturals

CONSTANTS Plans, Nothing

VARIABLES
    holder,      \* the transaction that holds the lock, or Nothing
    generation,  \* how many times the lock has been taken
    outcome      \* for each transaction, how it was decided

Outcomes == {"open", "committed", "recovered"}

Init ==
    /\ holder = Nothing
    /\ generation = 0
    /\ outcome = [p \in Plans |-> "open"]

Acquire(p) ==
    /\ holder = Nothing
    /\ outcome[p] = "open"
    /\ holder' = p
    /\ generation' = generation + 1
    /\ UNCHANGED outcome

Decide(p, o) ==
    /\ holder = p
    /\ outcome[p] = "open"
    /\ outcome' = [outcome EXCEPT ![p] = o]
    /\ UNCHANGED <<holder, generation>>

Release(p) ==
    /\ holder = p
    /\ outcome[p] # "open"
    /\ holder' = Nothing
    /\ UNCHANGED <<generation, outcome>>

Next == \E p \in Plans : \/ Acquire(p)
                         \/ \E o \in Outcomes \ {"open"} : Decide(p, o)
                         \/ Release(p)

Spec == Init /\ [][Next]_<<holder, generation, outcome>>

=============================================================================
