----------------------------- MODULE CausalTurns -----------------------------
(***************************************************************************)
(* What the Driver promises its caller (law D-TURN-1 and D-TERM-1 of       *)
(* docs/driver-law.md), without slots, hosts, loans or failures: one       *)
(* decision at a time.  A decision is folded, its actions are committed,   *)
(* and only then is another event folded.  A terminal edge ends it all.    *)
(***************************************************************************)
EXTENDS Integers

VARIABLES
    stage,      \* "new", "committing", "ready" or "ended"
    folded      \* the last folded decision (-1: none, 0: initialization)

vars == <<stage, folded>>

Init == stage = "new" /\ folded = -1

\* Behavior initialization folds once.
Begin ==
    /\ stage = "new"
    /\ stage' \in {"committing", "ended"}
    /\ folded' = 0

\* The complete actions of the outstanding decision were interpreted.
Commit ==
    /\ stage = "committing"
    /\ stage' \in {"ready", "ended"}
    /\ UNCHANGED folded

\* One event is folded; there is no outstanding decision.
Turn ==
    /\ stage = "ready"
    /\ stage' \in {"committing", "ended"}
    /\ folded' = folded + 1

\* A terminal edge is selected.
End ==
    /\ stage # "ended"
    /\ stage' = "ended"
    /\ UNCHANGED folded

Next == Begin \/ Commit \/ Turn \/ End

Spec == Init /\ [][Next]_vars
=============================================================================
