--------------------------- MODULE EntityLifecycle ---------------------------
(***************************************************************************)
(* The pure lifecycle algebra of one entity routing slot                   *)
(* (entity/lifecycle/{mod,inactive,retiring,transition}.rs): a decision    *)
(* consumes a slot and one external fact and returns the successor, the    *)
(* ordered effects and the evidence of what happened.                      *)
(*                                                                         *)
(* A command stands for itself, its dispatch identity and its publisher.   *)
(* A lease stands for the incarnation it retires and is named by that      *)
(* incarnation's activation; the cloneable endpoint has the same name and  *)
(* is left out.                                                            *)
(***************************************************************************)
EXTENDS Integers, Sequences

CONSTANT WaiterLimit    \* DirectoryConfig.activation_waiters

ASSUME WaiterLimitAssumption == WaiterLimit \in Nat \ {0}

NoActivation == 0
NoLease == 0

-----------------------------------------------------------------------------
(* Modes of retirement *)

\* DrainFailure: the stage at which draining stopped, and the reservations left.
Failure(stage, outstanding) == [stage |-> stage, outstanding |-> outstanding]

\* RetirementMode
Graceful == Failure("None", 0)

-----------------------------------------------------------------------------
(* States *)

\* EntitySlot.  reservations counts unresolved deliveries of an Active slot; in a
\* Draining slot 0 stands for DrainProgress::FenceAcknowledgement.
Inactive ==
    [phase |-> "Inactive", activation |-> NoActivation, waiters |-> <<>>,
     reservations |-> 0, lease |-> NoLease]
Activating(a, waiters) == [Inactive EXCEPT !.phase = "Activating", !.activation = a, !.waiters = waiters]
Active(a, lease, n) ==
    [Inactive EXCEPT !.phase = "Active", !.activation = a, !.lease = lease, !.reservations = n]
Draining(a, lease, n) == [Active(a, lease, n) EXCEPT !.phase = "Draining"]
Retiring(a) == [Inactive EXCEPT !.phase = "Retiring", !.activation = a]

-----------------------------------------------------------------------------
(* Effects *)

StartActivation(a) == [effect |-> "StartActivation", activation |-> a]
Deliver(a, c) == [effect |-> "Deliver", activation |-> a, command |-> c]
RejectCommand(c, reason) == [effect |-> "Reject", command |-> c, reason |-> reason]
EnqueueFence(a) == [effect |-> "EnqueueFence", activation |-> a]
Retire(a, lease, mode) == [effect |-> "Retire", activation |-> a, lease |-> lease, mode |-> mode]
Remove(a) == [effect |-> "Remove", activation |-> a]

-----------------------------------------------------------------------------
(* Facts *)

\* SlotEvent
ClaimActivation(a, c) == [event |-> "ClaimActivation", activation |-> a, command |-> c]
Dispatch(c) == [event |-> "Dispatch", command |-> c]
CancelWaiter(a, c) == [event |-> "CancelWaiter", activation |-> a, command |-> c]
ActivationSucceeded(a, lease) == [event |-> "ActivationSucceeded", activation |-> a, lease |-> lease]
ActivationFailed(a) == [event |-> "ActivationFailed", activation |-> a]
DeliveryResolved(a, failed, c) ==
    [event |-> "DeliveryResolved", activation |-> a, failed |-> failed, command |-> c]
BeginDrain(a) == [event |-> "BeginDrain", activation |-> a]
FenceAcknowledged(a) == [event |-> "FenceAcknowledged", activation |-> a]
ForceDrain(a, failure) == [event |-> "ForceDrain", activation |-> a, failure |-> failure]
Terminated(a) == [event |-> "Terminated", activation |-> a]

\* ActivationId::classify
Current(s, ev) == ev.activation = s.activation

-----------------------------------------------------------------------------
(* Reservations of deliveries *)

\* ReservationCount::from_len of an activation's waiters
Reserved(waiters) == Len(waiters)

\* ReservationCount::reserve
Reserve(n) == n + 1

\* ReservationCount::resolve, unless no resolution is expected
Unexpected(n) == n = 0
Resolve(n) == n - 1

-----------------------------------------------------------------------------
(* Decisions *)

\* SlotDecision, with the evidence decision(), handled() and traversed() attach.
Ignored(s, effects) == [state |-> s, effects |-> effects, evidence |-> "Ignored"]
Handled(s, effects) == [state |-> s, effects |-> effects, evidence |-> "SelfLoop"]
Traversed(s, effects) == [state |-> s, effects |-> effects, evidence |-> "Traversed"]

\* reject
Refused(s, ev, reason) == Handled(s, <<RejectCommand(ev.command, reason)>>)

\* reject_failed_delivery: the effects that return the command of a failed delivery.
Returned(ev) == IF ev.failed THEN <<RejectCommand(ev.command, "Unavailable")>> ELSE <<>>

\* retire_stale
RetireStale(s, ev) == Ignored(s, <<Retire(ev.activation, ev.lease, Failure("Retirement", 0))>>)

\* decide_inactive
DecideInactive(ev) ==
    CASE ev.event = "ClaimActivation" ->
            Traversed(Activating(ev.activation, <<ev.command>>), <<StartActivation(ev.activation)>>)
      [] ev.event = "Dispatch" -> Refused(Inactive, ev, "Unavailable")
      [] ev.event = "ActivationSucceeded" -> RetireStale(Inactive, ev)
      [] ev.event = "DeliveryResolved" -> Ignored(Inactive, Returned(ev))
      [] OTHER -> Ignored(Inactive, <<>>)

\* finish_activation
FinishActivation(s, ev) ==
    IF ~Current(s, ev) THEN RetireStale(s, ev)
    ELSE Traversed(Active(ev.activation, ev.lease, Reserved(s.waiters)),
                   [i \in 1 .. Len(s.waiters) |-> Deliver(ev.activation, s.waiters[i])])

\* Every waiter of an activation that installs no incarnation, then the removal.
ReturnWaiters(s, reason) ==
    Append([i \in 1 .. Len(s.waiters) |-> RejectCommand(s.waiters[i], reason)], Remove(s.activation))

\* fail_activation
FailActivation(s, ev) ==
    IF ~Current(s, ev) THEN Ignored(s, <<>>)
    ELSE Traversed(Inactive, ReturnWaiters(s, "Unavailable"))

\* SlotEvent::CancelWaiter
WaiterCancelled(s, ev) ==
    LET kept == SelectSeq(s.waiters, LAMBDA c : c # ev.command)
    IN  IF Current(s, ev) /\ Len(kept) < Len(s.waiters)
        THEN Handled([s EXCEPT !.waiters = kept], <<>>)
        ELSE Ignored(s, <<>>)

\* Mutant: a full waiter list swallows the command.
DecideActivatingSwallows(s, ev) ==
    CASE ev.event = "Dispatch" ->
            IF Len(s.waiters) < WaiterLimit
            THEN Handled([s EXCEPT !.waiters = Append(@, ev.command)], <<>>)
            ELSE Ignored(s, <<>>)
      [] ev.event = "CancelWaiter" -> WaiterCancelled(s, ev)
      [] ev.event = "ActivationSucceeded" -> FinishActivation(s, ev)
      [] ev.event = "ActivationFailed" -> FailActivation(s, ev)
      [] OTHER -> Ignored(s, <<>>)

\* decide_activating
DecideActivating(s, ev) ==
    CASE ev.event = "Dispatch" ->
            IF Len(s.waiters) < WaiterLimit
            THEN Handled([s EXCEPT !.waiters = Append(@, ev.command)], <<>>)
            ELSE Refused(s, ev, "Busy")
      [] ev.event = "CancelWaiter" -> WaiterCancelled(s, ev)
      [] ev.event = "ActivationSucceeded" -> FinishActivation(s, ev)
      [] ev.event = "ActivationFailed" -> FailActivation(s, ev)
      [] ev.event = "ClaimActivation" -> Refused(s, ev, "Busy")
      [] ev.event = "DeliveryResolved" -> Ignored(s, Returned(ev))
      [] OTHER -> Ignored(s, <<>>)

\* resolve_active_delivery: one reservation less, unless none is expected.
ResolveActive(s, ev) ==
    IF Unexpected(s.reservations) THEN Ignored(s, Returned(ev))
    ELSE Handled([s EXCEPT !.reservations = Resolve(@)], Returned(ev))

\* begin_drain: the fence is requested at once when nothing is reserved.
DrainBegun(s) ==
    Traversed(Draining(s.activation, s.lease, s.reservations),
              IF s.reservations = 0 THEN <<EnqueueFence(s.activation)>> ELSE <<>>)

\* decide_active
DecideActive(s, ev) ==
    CASE ev.event = "Dispatch" ->
            Handled([s EXCEPT !.reservations = Reserve(@)], <<Deliver(s.activation, ev.command)>>)
      [] ev.event = "DeliveryResolved" ->
            IF Current(s, ev) THEN ResolveActive(s, ev) ELSE Ignored(s, Returned(ev))
      [] ev.event = "BeginDrain" /\ Current(s, ev) -> DrainBegun(s)
      [] ev.event = "ActivationSucceeded" -> RetireStale(s, ev)
      [] ev.event = "ClaimActivation" -> Refused(s, ev, "Busy")
      [] OTHER -> Ignored(s, <<>>)

\* resolve_draining_delivery: the last reservation to resolve requests the fence.
ResolveDraining(s, ev) ==
    IF Unexpected(s.reservations) THEN Ignored(s, Returned(ev))
    ELSE Handled([s EXCEPT !.reservations = Resolve(@)],
                 Returned(ev) \o (IF Resolve(s.reservations) = 0 THEN <<EnqueueFence(s.activation)>> ELSE <<>>))

\* acknowledge_fence: an acknowledgement before the fence was requested is ignored.
AcknowledgeFence(s) ==
    IF s.reservations > 0 THEN Ignored(s, <<>>)
    ELSE Traversed(Retiring(s.activation), <<Retire(s.activation, s.lease, Graceful)>>)

\* force_drain
DrainForced(s, ev) ==
    Traversed(Retiring(s.activation), <<Retire(s.activation, s.lease, ev.failure)>>)

\* decide_draining
DecideDraining(s, ev) ==
    CASE ev.event \in {"Dispatch", "ClaimActivation"} -> Refused(s, ev, "Draining")
      [] ev.event = "DeliveryResolved" ->
            IF Current(s, ev) THEN ResolveDraining(s, ev) ELSE Ignored(s, Returned(ev))
      [] ev.event = "FenceAcknowledged" /\ Current(s, ev) -> AcknowledgeFence(s)
      [] ev.event = "ForceDrain" /\ Current(s, ev) -> DrainForced(s, ev)
      [] ev.event = "ActivationSucceeded" -> RetireStale(s, ev)
      [] OTHER -> Ignored(s, <<>>)

\* decide_retiring
DecideRetiring(s, ev) ==
    CASE ev.event = "Terminated" /\ Current(s, ev) ->
            Traversed(Inactive, <<Remove(s.activation)>>)
      [] ev.event \in {"Dispatch", "ClaimActivation"} -> Refused(s, ev, "Draining")
      [] ev.event = "ActivationSucceeded" -> RetireStale(s, ev)
      [] ev.event = "DeliveryResolved" -> Ignored(s, Returned(ev))
      [] OTHER -> Ignored(s, <<>>)

\* EntitySlot::decide
Decide(s, ev) ==
    CASE s.phase = "Inactive" -> DecideInactive(ev)
      [] s.phase = "Activating" -> DecideActivating(s, ev)
      [] s.phase = "Active" -> DecideActive(s, ev)
      [] s.phase = "Draining" -> DecideDraining(s, ev)
      [] s.phase = "Retiring" -> DecideRetiring(s, ev)

\* What close_family hands to the shutdown: an incarnation, its lease, and Graceful
\* when its admission had drained (its fence is still to be tried).
NoIncarnation == [activation |-> NoActivation, lease |-> NoLease, admission |-> Graceful]

\* EntitySlot::close_family
CloseFamily(s) ==
    CASE s.phase = "Activating" ->
            [state |-> Inactive, effects |-> ReturnWaiters(s, "Shutdown"), retirement |-> NoIncarnation]
      [] s.phase \in {"Active", "Draining"} ->
            [state |-> Retiring(s.activation), effects |-> <<>>,
             retirement |->
                [activation |-> s.activation, lease |-> s.lease,
                 admission |-> IF s.reservations > 0 THEN Failure("Reservations", s.reservations)
                               ELSE IF s.phase = "Active" THEN Graceful
                               ELSE Failure("FenceAcknowledgement", 0)]]
      [] OTHER -> [state |-> s, effects |-> <<>>, retirement |-> NoIncarnation]
=============================================================================
