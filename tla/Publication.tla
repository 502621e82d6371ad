----------------------------- MODULE Publication -----------------------------
(***************************************************************************)
(* What publishing a plan promises: an all-or-nothing switch.  While a     *)
(* transaction is open its moving aliases may be anything; once it is      *)
(* decided they are all where the decision says, and stay there.  It is    *)
(* decided when its lock is COMMITTED or RECOVERED; a receipt that finish  *)
(* wrote and did not get past is none of that.                             *)
(***************************************************************************)
VARIABLES
    aliases,   \* "prior", "target" or "mixed": where all the aliases are
    decision   \* "open", or what a closed transaction's receipt says

vars == <<aliases, decision>>

Init == aliases = "prior" /\ decision = "open"

Move ==
    /\ decision = "open"
    /\ aliases' \in {"prior", "target", "mixed"}
    /\ UNCHANGED decision

Commit ==
    /\ decision = "open"
    /\ aliases = "target"
    /\ decision' = "committed"
    /\ UNCHANGED aliases

Recover ==
    /\ decision = "open"
    /\ aliases = "prior"
    /\ decision' = "recovered"
    /\ UNCHANGED aliases

Next == Move \/ Commit \/ Recover

Spec == Init /\ [][Next]_vars

=============================================================================
