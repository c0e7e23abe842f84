----------------------------- MODULE MCObserve ------------------------------
(***************************************************************************)
(* Instances of ObserveSlot and ObservationSpace for TLC.  The namespace   *)
(* uses its slots through the operations ObserveSlot details, so a         *)
(* behaviour exercises one slot step by step or the namespace as a whole.  *)
(***************************************************************************)
EXTENDS ObserveSlot, ObservationSpace

CONSTANTS t1, t2, f1, f2, m1, a1, w1, w2, k1, k2, k3, o1, o2

TwoThreads == {t1, t2}
ThreeFutures == {f1, f2, m1}
OneAdapter == {a1}
TwoWakers == {w1, w2}
OnePanics == {w2}
OneAffine == {m1}
ThreeKeys == {k1, k2, k3}
TwoHandles == {o1, o2}
FirstHostile == {1}

\* Every kind of observer meets every other kind, itself included, and the affine
\* future is alone.
Pairs == {{t1, t2}, {t1, f1}, {t1, a1}, {f1, f2}, {f1, a1}, {m1}}

\* Which part the behaviour exercises.
VARIABLE part

MCInit ==
    /\ Init /\ SpaceInit
    /\ part \in {"slot", "namespace"}
    /\ part = "namespace" => pc[m1] = "idle"    \* one of the casts, none of which moves

\* Keys are alike until they are used: they are taken into use in one order.
InOrder ==
    {k \in Keys : \E g \in Generations : subjects[g].key = k} \in {{}, {k1}, {k1, k2}, Keys}

MCNext ==
    \/ part = "slot" /\ Next /\ UNCHANGED <<spaceVars, part>>
    \/ part = "namespace" /\ SpaceNext /\ InOrder' /\ UNCHANGED <<vars, part>>

MCSpec == MCInit /\ [][MCNext]_<<vars, spaceVars, part>> /\ Fairness
=============================================================================
